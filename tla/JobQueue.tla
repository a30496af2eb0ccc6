------------------------------- MODULE JobQueue -------------------------------
(*****************************************************************************)
(* JobService, backend/apps/jobs/services.py: the durable queue behind every *)
(* AI job.  Each static method is one transaction on the locked job row and  *)
(* one action here.  Whoever was ever given a claim token may call progress, *)
(* heartbeat, succeed or fail with it at any later time; the service refuses *)
(* the call once the token is no longer the row's.                           *)
(*                                                                           *)
(* A claim token is named by the attempt it was issued for, and the lease is *)
(* "live" or "expired", which is all the code compares the clock with.       *)
(*****************************************************************************)
EXTENDS Integers

CONSTANTS
  Jobs,          \* idempotency keys
  MaxAttempts,   \* max_attempts (3 by default)
  Progress       \* the progress values workers report

ASSUME MaxAttemptsAssumption == MaxAttempts \in Nat \ {0}
ASSUME ProgressAssumption == Progress \subseteq 0..100 /\ {0, 100} \subseteq Progress

VARIABLES
  job,       \* the Job row of each key
  attempt    \* JobAttempt rows: attempt[j][n] is the status of number n of job j

jobVars == <<job, attempt>>

Numbers == 1..MaxAttempts
JobStatus == {"ABSENT", "QUEUED", "RUNNING", "SUCCEEDED", "FAILED", "RETRY_QUEUED", "CANCELED"}
AttemptStatus == {"NONE", "RUNNING", "SUCCEEDED", "FAILED", "CANCELED"}
Terminal == {"SUCCEEDED", "FAILED", "CANCELED"}
Waiting == {"QUEUED", "RETRY_QUEUED"}
NotStarted == Waiting \cup {"ABSENT"}

\* owner is the attempt whose claim token the row holds, result the attempt its
\* result_reference came from; 0 is null.
JobRow == [status: JobStatus, attempt: Numbers, owner: 0..MaxAttempts,
           lease: {"none", "live", "expired"}, progress: Progress,
           result: 0..MaxAttempts, error: {"none", "worker_error", "stale_worker"},
           finished: BOOLEAN]

NoJob == [status |-> "ABSENT", attempt |-> 1, owner |-> 0, lease |-> "none", progress |-> 0,
          result |-> 0, error |-> "none", finished |-> FALSE]

\* TRANSITIONS; an absent job is created QUEUED.
Transitions ==
  [ABSENT |-> {"QUEUED"}, QUEUED |-> {"RUNNING", "CANCELED"},
   RETRY_QUEUED |-> {"RUNNING", "CANCELED"}, RUNNING |-> Terminal,
   FAILED |-> {"RETRY_QUEUED"}, SUCCEEDED |-> {}, CANCELED |-> {}]

-----------------------------------------------------------------------------
JobInit ==
  /\ job = [j \in Jobs |-> NoJob]
  /\ attempt = [j \in Jobs |-> [n \in Numbers |-> "NONE"]]

(* create: the unique key makes a second create return the first row. *)
CreateJob(j) ==
  /\ job[j].status = "ABSENT"
  /\ job' = [job EXCEPT ![j].status = "QUEUED"]
  /\ UNCHANGED attempt

(* claim *)
ClaimJob(j) ==
  LET n == job[j].attempt IN
  /\ job[j].status \in Waiting
  /\ attempt[j][n] = "NONE"   \* unique (job, number)
  /\ job' = [job EXCEPT ![j].status = "RUNNING", ![j].owner = n,
                        ![j].lease = "live", ![j].finished = FALSE]
  /\ attempt' = [attempt EXCEPT ![j][n] = "RUNNING"]

\* _require_owner
Owns_mut(j, n) == job[j].owner = n \/ (job[j].status = "FAILED" /\ job[j].attempt = n)
Owns(j, n) == job[j].status = "RUNNING" /\ job[j].owner = n

(* progress *)
ReportProgress(j, n, p) ==
  /\ Owns(j, n)
  /\ p \in Progress /\ p >= job[j].progress
  /\ job' = [job EXCEPT ![j].progress = p]
  /\ UNCHANGED attempt

(* heartbeat *)
Heartbeat(j, n) ==
  /\ Owns(j, n)
  /\ job' = [job EXCEPT ![j].lease = "live"]
  /\ UNCHANGED attempt

(* succeed *)
SucceedJob(j, n) ==
  /\ Owns(j, n)
  /\ job' = [job EXCEPT ![j].status = "SUCCEEDED", ![j].progress = 100, ![j].result = n,
                        ![j].error = "none", ![j].finished = TRUE, ![j].owner = 0]
  /\ attempt' = [attempt EXCEPT ![j][n] = "SUCCEEDED"]

(* fail *)
FailJob(j, n) ==
  /\ Owns(j, n)
  /\ job' = [job EXCEPT ![j].status = "FAILED", ![j].error = "worker_error", ![j].result = 0,
                        ![j].finished = TRUE, ![j].owner = 0]
  /\ attempt' = [attempt EXCEPT ![j][n] = "FAILED"]

(* retry *)
RetryJob(j) ==
  /\ job[j].status = "FAILED"
  /\ job[j].attempt < MaxAttempts
  /\ job' = [job EXCEPT ![j].status = "RETRY_QUEUED", ![j].progress = 0, ![j].attempt = @ + 1,
                        ![j].owner = 0, ![j].finished = FALSE, ![j].error = "none",
                        ![j].result = 0]
  /\ UNCHANGED attempt

(* cancel *)
CancelJob(j) ==
  /\ job[j].status # "ABSENT" /\ "CANCELED" \in Transitions[job[j].status]
  /\ job' = [job EXCEPT ![j].status = "CANCELED", ![j].finished = TRUE, ![j].result = 0,
                        ![j].owner = 0]
  /\ attempt' = IF job[j].owner = 0 THEN attempt
                ELSE [attempt EXCEPT ![j][job[j].owner] = "CANCELED"]

(* reap_stale_jobs, every 60 seconds from beat, all stale rows in one        *)
(* transaction.  (A row it skips because it is locked is one whose lease     *)
(* might as well have run out after the sweep.)                              *)
StaleJobs_mut == {j \in Jobs : job[j].status = "RUNNING" /\ job[j].owner # job[j].attempt}
StaleJobs == {j \in Jobs : job[j].status = "RUNNING" /\ job[j].lease = "expired"}

ReapJobs ==
  /\ StaleJobs # {}
  /\ job' = [j \in Jobs |->
       IF j \in StaleJobs
       THEN [job[j] EXCEPT !.status = "FAILED", !.error = "stale_worker", !.result = 0,
                           !.finished = TRUE, !.owner = 0]
       ELSE job[j]]
  /\ attempt' = [j \in Jobs |-> [n \in Numbers |->
       IF j \in StaleJobs /\ n = job[j].owner THEN "FAILED" ELSE attempt[j][n]]]

LeaseRunsOut(j) ==
  /\ job[j].status = "RUNNING" /\ job[j].lease = "live"
  /\ job' = [job EXCEPT ![j].lease = "expired"]
  /\ UNCHANGED attempt

-----------------------------------------------------------------------------
TokenStep(j, n) ==
  \/ \E p \in Progress : ReportProgress(j, n, p)
  \/ Heartbeat(j, n) \/ SucceedJob(j, n) \/ FailJob(j, n)

JobStep(j) ==
  \/ CreateJob(j) \/ ClaimJob(j) \/ RetryJob(j) \/ CancelJob(j) \/ LeaseRunsOut(j)

JobNext ==
  \/ \E j \in Jobs : JobStep(j) \/ \E n \in Numbers : TokenStep(j, n)
  \/ ReapJobs

JobSpec == JobInit /\ [][JobNext]_jobVars

-----------------------------------------------------------------------------
(* Properties *)

JobTypeOK ==
  /\ job \in [Jobs -> JobRow]
  /\ attempt \in [Jobs -> [Numbers -> AttemptStatus]]

\* The latest attempt row, given the status of the job.
LatestFits(j) ==
  attempt[j][job[j].attempt] =
    CASE job[j].status \in NotStarted -> "NONE"
      [] job[j].status = "CANCELED" -> attempt[j][job[j].attempt]
      [] OTHER                      -> job[j].status

(* One worker at a time, and a history to show for it: exactly the job's      *)
(* attempt is RUNNING while the job is, it holds the token, every earlier     *)
(* attempt FAILED and no later one exists.  So a claim never collides with an *)
(* attempt row that is already there, whatever stale workers report.          *)
HistoryFits ==
  \A j \in Jobs :
    /\ job[j].owner = (IF job[j].status = "RUNNING" THEN job[j].attempt ELSE 0)
    /\ \A n \in Numbers : /\ n < job[j].attempt => attempt[j][n] = "FAILED"
                          /\ n > job[j].attempt => attempt[j][n] = "NONE"
    /\ LatestFits(j)
    /\ job[j].status = "CANCELED" => attempt[j][job[j].attempt] \in {"NONE", "CANCELED"}

(* What a client reads of a job hangs together: a result exactly when it     *)
(* SUCCEEDED and from its last attempt, an error exactly when it FAILED, a   *)
(* finish time exactly when it ended, no progress before its attempt runs.   *)
OutcomeFits ==
  \A j \in Jobs :
    /\ job[j].result = (IF job[j].status = "SUCCEEDED" THEN job[j].attempt ELSE 0)
    /\ job[j].error # "none" <=> job[j].status = "FAILED"
    /\ job[j].finished <=> job[j].status \in Terminal
    /\ job[j].status \in NotStarted => job[j].progress = 0
    /\ job[j].status = "SUCCEEDED" => job[j].progress = 100

JobInv == JobTypeOK /\ HistoryFits /\ OutcomeFits

(* Every method moves a job along the TRANSITIONS table, though only cancel  *)
(* reads it.                                                                 *)
FollowsTransitions ==
  [][\A j \in Jobs : job'[j].status # job[j].status =>
       job'[j].status \in Transitions[job[j].status]]_jobVars

(* Progress and results belong to an attempt: within one, progress only grows *)
(* and an ended attempt is never reopened or relabelled.                      *)
AttemptsOnlyAdvance ==
  [][\A j \in Jobs :
       /\ job'[j].attempt = job[j].attempt => job'[j].progress >= job[j].progress
       /\ job'[j].attempt \in {job[j].attempt, job[j].attempt + 1}
       /\ \A n \in Numbers : attempt'[j][n] # attempt[j][n] =>
            attempt[j][n] = "RUNNING" \/ (attempt[j][n] = "NONE" /\ n = job[j].attempt)]_jobVars
=============================================================================
