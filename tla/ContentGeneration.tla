--------------------------- MODULE ContentGeneration ---------------------------
(*****************************************************************************)
(* How an AI content job is asked for, dispatched and executed:              *)
(*   backend/apps/content/views.py   the two POST endpoints                  *)
(*   backend/apps/content/tasks.py   the two Celery tasks                    *)
(*   backend/apps/ai/orchestration.py  execute_generation_job                *)
(* on top of the job queue.  A master job writes one MasterContent, a        *)
(* recommendation job fills the ContentRecommendation row created with it.   *)
(*                                                                           *)
(* Requests run without a transaction around them (ATOMIC_REQUESTS is off)   *)
(* and the worker commits between claim, budget, AIRun, provider call and    *)
(* result; every such commit is a step, so the API, the reaper and other     *)
(* workers get in between.  The budget appears only as "this attempt holds a *)
(* reservation"; AIBudget has the arithmetic.                                *)
(*****************************************************************************)
EXTENDS JobQueue, FiniteSets

CONSTANTS
  MaxPosts,  \* bound on POSTs of one job that find no job yet
  Faults     \* what may go wrong outside the code: see Kinds

Kinds == {"lost_message", "worker_death", "web_death", "preflight", "locked_row"}

ASSUME MaxPostsAssumption == MaxPosts \in Nat \ {0}
ASSUME FaultsAssumption == Faults \subseteq Kinds

VARIABLES
  web,       \* web[j]: POSTs that saw no job / hold the job / hold job and row
  posted,    \* how many POSTs of j saw no job, for the bound
  messages,  \* Celery messages of j in the broker
  starting,  \* workers of j between receiving the message and claim
  worker,    \* worker[j][n]: where the execution of attempt n is
  run,       \* run[j][n]: the AIRun of attempt n, unique in (job, job_attempt)
  held,      \* held[j][n]: attempt n's token and cost reservations are not settled
  items,     \* attempts of j whose output was stored (MasterContent or options)
  rec        \* status of the ContentRecommendation row of j; NA: j is a master job

execVars == <<messages, starting, worker, run, held, items, rec>>
genVars == <<job, attempt, web, posted, execVars>>

\* claimed: before the budget; budgeted: before the AIRun; refused: on its way to
\* JobService.fail; asked: the provider is working; failing: the result could not
\* be stored; returned: a run went back to the task.
Active == {"claimed", "budgeted", "refused", "asked", "failing", "returned"}
WorkerStates == {"none", "done", "dead"} \cup Active
RunStatus == {"NONE", "RUNNING", "SUCCEEDED", "FAILED", "CANCELED"}
RecStatus == {"NA", "NONE", "QUEUED", "RUNNING", "READY", "FAILED"}
Stages == {"seen", "created", "rowed"}

\* The job is of type CONTENT_RECOMMEND, not CONTENT_GENERATE.
IsRecommendation(j) == rec[j] # "NA"

-----------------------------------------------------------------------------
GenInit ==
  /\ JobInit
  /\ web = [j \in Jobs |-> [s \in Stages |-> 0]]
  /\ posted = [j \in Jobs |-> 0]
  /\ messages = [j \in Jobs |-> 0]
  /\ starting = [j \in Jobs |-> 0]
  /\ worker = [j \in Jobs |-> [n \in Numbers |-> "none"]]
  /\ run = [j \in Jobs |-> [n \in Numbers |-> "NONE"]]
  /\ held = [j \in Jobs |-> [n \in Numbers |-> FALSE]]
  /\ items = [j \in Jobs |-> {}]
  /\ rec \in [Jobs -> {"NA", "NONE"}]

-----------------------------------------------------------------------------
(* The POST endpoints.  The look-up, the job, the recommendation row and the *)
(* dispatch are separate commits.                                            *)

Post(j) ==
  /\ job[j].status = "ABSENT" /\ posted[j] < MaxPosts
  /\ web' = [web EXCEPT ![j]["seen"] = @ + 1]
  /\ posted' = [posted EXCEPT ![j] = @ + 1]
  /\ UNCHANGED <<jobVars, execVars>>

\* JobService.create: the first makes the row, a later one gets it back.
PostCreates(j) ==
  /\ web[j]["seen"] > 0
  /\ web' = [web EXCEPT ![j]["seen"] = @ - 1, ![j]["created"] = @ + 1]
  /\ CreateJob(j) \/ (job[j].status # "ABSENT" /\ UNCHANGED jobVars)
  /\ UNCHANGED <<posted, execVars>>

\* ContentRecommendation.job is one-to-one: the second insert raises, and that
\* request dispatches nothing.
PostAddsRow_mut(j) ==
  /\ IsRecommendation(j) /\ web[j]["created"] > 0
  /\ web' = [web EXCEPT ![j]["created"] = @ - 1, ![j]["rowed"] = @ + 1]
  /\ rec' = [rec EXCEPT ![j] = IF @ = "NONE" THEN "QUEUED" ELSE @]
  /\ UNCHANGED <<jobVars, posted, messages, starting, worker, run, held, items>>
PostAddsRow(j) ==
  /\ IsRecommendation(j) /\ web[j]["created"] > 0
  /\ IF rec[j] = "NONE"
     THEN /\ web' = [web EXCEPT ![j]["created"] = @ - 1, ![j]["rowed"] = @ + 1]
          /\ rec' = [rec EXCEPT ![j] = "QUEUED"]
     ELSE /\ web' = [web EXCEPT ![j]["created"] = @ - 1]
          /\ UNCHANGED rec
  /\ UNCHANGED <<jobVars, posted, messages, starting, worker, run, held, items>>

PostDispatches(j) ==
  LET stage == IF IsRecommendation(j) THEN "rowed" ELSE "created" IN
  /\ web[j][stage] > 0
  /\ web' = [web EXCEPT ![j][stage] = @ - 1]
  /\ messages' = [messages EXCEPT ![j] = @ + 1]
  /\ UNCHANGED <<jobVars, posted, starting, worker, run, held, items, rec>>

WebDies(j) ==
  /\ "web_death" \in Faults
  /\ \E s \in Stages : web[j][s] > 0 /\ web' = [web EXCEPT ![j][s] = @ - 1]
  /\ UNCHANGED <<jobVars, posted, execVars>>

\* A message is acknowledged when it is received: it is lost with the broker's
\* queue or with the worker that had it and did not claim the job yet.
LoseMessage(j) ==
  /\ "lost_message" \in Faults
  /\ \/ messages[j] > 0 /\ messages' = [messages EXCEPT ![j] = @ - 1] /\ UNCHANGED starting
     \/ starting[j] > 0 /\ starting' = [starting EXCEPT ![j] = @ - 1] /\ UNCHANGED messages
  /\ UNCHANGED <<jobVars, web, posted, worker, run, held, items, rec>>

(* JobRetryView and JobCancelView: neither sends a message. *)
ApiRetry(j)  == RetryJob(j)  /\ UNCHANGED <<web, posted, execVars>>
ApiCancel(j) == CancelJob(j) /\ UNCHANGED <<web, posted, execVars>>

-----------------------------------------------------------------------------
(* The worker up to the claim *)

\* The task marks a QUEUED recommendation RUNNING before it looks at the job.
Receive(j) ==
  /\ messages[j] > 0
  /\ messages' = [messages EXCEPT ![j] = @ - 1]
  /\ starting' = [starting EXCEPT ![j] = @ + 1]
  /\ rec' = [rec EXCEPT ![j] = IF @ = "QUEUED" THEN "RUNNING" ELSE @]
  /\ UNCHANGED <<jobVars, web, posted, worker, run, held, items>>

\* The latest run of j; 0 when there is none.
LatestRun(j) ==
  CHOOSE n \in 0..MaxAttempts :
    /\ n # 0 => run[j][n] # "NONE"
    /\ \A m \in Numbers : run[j][m] # "NONE" => m <= n

\* What the recommendation task writes once it got a run back.
Marked(j, status) ==
  IF IsRecommendation(j) /\ status \in {"FAILED", "CANCELED"} THEN "FAILED" ELSE rec[j]

\* The attempt has its run already, or the job cannot be claimed: the latest run
\* is returned, and without one JobConflictError is raised.  claim skips a locked
\* row, and a retry the API is about to refuse locks it.
StartFindsNothing(j) ==
  /\ starting[j] > 0
  /\ \/ job[j].status \notin Waiting \/ run[j][job[j].attempt] # "NONE"
     \/ "locked_row" \in Faults
  /\ starting' = [starting EXCEPT ![j] = @ - 1]
  /\ rec' = [rec EXCEPT ![j] =
       IF LatestRun(j) = 0 THEN @ ELSE Marked(j, run[j][LatestRun(j)])]
  /\ UNCHANGED <<jobVars, web, posted, messages, worker, run, held, items>>

\* GenerationPreflightError: prompt, provider or input no longer usable.
PreflightFails(j) ==
  /\ "preflight" \in Faults /\ starting[j] > 0
  /\ starting' = [starting EXCEPT ![j] = @ - 1]
  /\ UNCHANGED <<jobVars, web, posted, messages, worker, run, held, items, rec>>

StartClaims(j) ==
  /\ starting[j] > 0
  /\ run[j][job[j].attempt] = "NONE"
  /\ ClaimJob(j)
  /\ starting' = [starting EXCEPT ![j] = @ - 1]
  /\ worker' = [worker EXCEPT ![j][job[j].attempt] = "claimed"]
  /\ UNCHANGED <<web, posted, messages, run, held, items, rec>>

-----------------------------------------------------------------------------
(* The worker after the claim.  n is the attempt it claimed. *)

Becomes(j, n, stage) == worker' = [worker EXCEPT ![j][n] = stage]
Holds(j, n, yes) == held' = [held EXCEPT ![j][n] = yes]
RunBecomes(j, n, status) == run' = [run EXCEPT ![j][n] = status]

\* reserve_ai_budget and reserve_ai_cost; refused, what was reserved is settled.
Reserve(j, n) ==
  /\ worker[j][n] = "claimed"
  /\ \/ Becomes(j, n, "budgeted") /\ Holds(j, n, TRUE)
     \/ Becomes(j, n, "refused") /\ UNCHANGED held
  /\ UNCHANGED <<jobVars, web, posted, messages, starting, run, items, rec>>

\* _create_run; on a database error both reservations are settled.
StartRun(j, n) ==
  /\ worker[j][n] = "budgeted"
  /\ \/ Becomes(j, n, "asked") /\ RunBecomes(j, n, "RUNNING") /\ UNCHANGED held
     \/ Becomes(j, n, "refused") /\ Holds(j, n, FALSE) /\ UNCHANGED run
  /\ UNCHANGED <<jobVars, web, posted, messages, starting, items, rec>>

\* JobService.fail before a run exists; a stale worker raises and changes nothing.
RefuseJob_mut(j, n) ==
  /\ worker[j][n] = "refused"
  /\ job' = [job EXCEPT ![j].status = "FAILED", ![j].error = "worker_error",
                        ![j].finished = TRUE, ![j].owner = 0]
  /\ Becomes(j, n, "done")
  /\ UNCHANGED <<attempt, web, posted, messages, starting, run, held, items, rec>>
RefuseJob(j, n) ==
  /\ worker[j][n] = "refused"
  /\ FailJob(j, n) \/ (~Owns(j, n) /\ UNCHANGED jobVars)
  /\ Becomes(j, n, "done")
  /\ UNCHANGED <<web, posted, messages, starting, run, held, items, rec>>

\* _record_canceled_run, the same in _record_success and _record_failure.
RecordCanceled_mut(j, n) ==
  /\ job[j].status # "RUNNING"
  /\ RunBecomes(j, n, "CANCELED") /\ Holds(j, n, FALSE) /\ Becomes(j, n, "returned")
  /\ UNCHANGED <<jobVars, web, posted, messages, starting, items, rec>>
RecordCanceled(j, n) ==
  /\ job[j].status = "CANCELED"
  /\ RunBecomes(j, n, "CANCELED") /\ Holds(j, n, FALSE) /\ Becomes(j, n, "returned")
  /\ UNCHANGED <<jobVars, web, posted, messages, starting, items, rec>>

\* _record_success: run, stored output, job and settlement in one transaction.
RecordSuccess(j, n) ==
  /\ worker[j][n] = "asked"
  /\ \/ RecordCanceled(j, n)
     \/ /\ SucceedJob(j, n)
        /\ RunBecomes(j, n, "SUCCEEDED") /\ Holds(j, n, FALSE) /\ Becomes(j, n, "returned")
        /\ items' = [items EXCEPT ![j] = @ \cup {n}]
        /\ rec' = [rec EXCEPT ![j] = IF IsRecommendation(j) THEN "READY" ELSE @]
        /\ UNCHANGED <<web, posted, messages, starting>>

\* The transaction of _record_success rolled back: the writer refused the output
\* or the token was no longer the job's; or the provider call itself failed.
FinalizeRaises(j, n) ==
  /\ worker[j][n] = "asked"
  /\ Becomes(j, n, "failing")
  /\ UNCHANGED <<jobVars, web, posted, messages, starting, run, held, items, rec>>

\* _record_failure.  A stale worker's fail raises: run and settlement roll back
\* with it, and nothing else will ever touch them.
RecordFailure(j, n) ==
  /\ worker[j][n] = "failing"
  /\ \/ RecordCanceled(j, n)
     \/ /\ FailJob(j, n)
        /\ RunBecomes(j, n, "FAILED") /\ Holds(j, n, FALSE) /\ Becomes(j, n, "returned")
        /\ UNCHANGED <<web, posted, messages, starting, items, rec>>
     \/ /\ ~Owns(j, n) /\ job[j].status # "CANCELED"
        /\ Becomes(j, n, "done")
        /\ UNCHANGED <<jobVars, web, posted, messages, starting, run, held, items, rec>>

\* generate_content_recommendations_job, after the run came back.
TaskReturns(j, n) ==
  /\ worker[j][n] = "returned"
  /\ rec' = [rec EXCEPT ![j] = Marked(j, run[j][n])]
  /\ Becomes(j, n, "done")
  /\ UNCHANGED <<jobVars, web, posted, messages, starting, run, held, items>>

WorkerDies(j) ==
  /\ "worker_death" \in Faults
  /\ \E n \in Numbers : worker[j][n] \in Active /\ Becomes(j, n, "dead")
  /\ UNCHANGED <<jobVars, web, posted, messages, starting, run, held, items, rec>>

(* Nobody calls heartbeat: the lease runs out while the worker still works. *)
LeaseEnds(j) == LeaseRunsOut(j) /\ UNCHANGED <<web, posted, execVars>>
Reap == ReapJobs /\ UNCHANGED <<web, posted, execVars>>

-----------------------------------------------------------------------------
WebStep(j) == PostCreates(j) \/ PostAddsRow(j) \/ PostDispatches(j)
StartStep(j) == StartFindsNothing(j) \/ StartClaims(j)
WorkStep(j, n) ==
  \/ Reserve(j, n) \/ StartRun(j, n) \/ RefuseJob(j, n) \/ RecordSuccess(j, n)
  \/ FinalizeRaises(j, n) \/ RecordFailure(j, n) \/ TaskReturns(j, n)
Outside(j) ==
  \/ Post(j) \/ ApiRetry(j) \/ ApiCancel(j) \/ LeaseEnds(j)
  \/ WebDies(j) \/ LoseMessage(j) \/ PreflightFails(j) \/ WorkerDies(j)

GenNext ==
  \/ \E j \in Jobs :
       \/ WebStep(j) \/ Receive(j) \/ StartStep(j) \/ Outside(j)
       \/ \E n \in Numbers : WorkStep(j, n)
  \/ Reap

GenSpec == GenInit /\ [][GenNext]_genVars

(* Web requests and workers run on; beat reaps what has gone stale.           *)
GenFairness ==
  /\ \A j \in Jobs :
       /\ WF_genVars(WebStep(j)) /\ WF_genVars(Receive(j)) /\ WF_genVars(StartStep(j))
       /\ WF_genVars(LeaseEnds(j))
       /\ \A n \in Numbers : WF_genVars(WorkStep(j, n))
  /\ WF_genVars(Reap)

GenFairSpec == GenSpec /\ GenFairness

-----------------------------------------------------------------------------
(* Properties *)

GenTypeOK ==
  /\ JobTypeOK
  /\ web \in [Jobs -> [Stages -> Nat]] /\ posted \in [Jobs -> 0..MaxPosts]
  /\ messages \in [Jobs -> Nat] /\ starting \in [Jobs -> Nat]
  /\ worker \in [Jobs -> [Numbers -> WorkerStates]]
  /\ run \in [Jobs -> [Numbers -> RunStatus]] /\ held \in [Jobs -> [Numbers -> BOOLEAN]]
  /\ items \in [Jobs -> SUBSET Numbers] /\ rec \in [Jobs -> RecStatus]

(* What was generated is what the job says: output is stored for exactly the *)
(* attempt a SUCCEEDED job ended with, and only that attempt's AIRun         *)
(* SUCCEEDED.  A worker that lost its job to the reaper, to a cancel or to a *)
(* later attempt stores nothing, however late it answers.                    *)
OneResult ==
  \A j \in Jobs :
    /\ items[j] = IF job[j].status = "SUCCEEDED" THEN {job[j].attempt} ELSE {}
    /\ \A n \in Numbers : run[j][n] = "SUCCEEDED" <=> n \in items[j]

(* An AIRun that ended tells the truth about its attempt.  (A late answer to *)
(* an attempt that had already failed is CANCELED when the job is by then.)  *)
RunsAgree ==
  \A j \in Jobs, n \in Numbers :
    /\ run[j][n] = "FAILED" => attempt[j][n] = "FAILED"
    /\ run[j][n] = "CANCELED" => job[j].status = "CANCELED" /\ attempt[j][n] # "SUCCEEDED"
    /\ run[j][n] # "NONE" => attempt[j][n] # "NONE"

(* An open AIRun or an unsettled reservation is somebody's: a worker's that is *)
(* still going to settle it, or one of the two ways it is left behind, a dead  *)
(* worker or an answer to an attempt the reaper had failed.                    *)
StrandedOnlyByReaper ==
  \A j \in Jobs, n \in Numbers :
    /\ run[j][n] = "RUNNING" \/ held[j][n] =>
         \/ worker[j][n] \in Active \cup {"dead"}
         \/ run[j][n] = "RUNNING" /\ held[j][n] /\ attempt[j][n] = "FAILED"
    /\ worker[j][n] \in {"budgeted", "asked", "failing"} => held[j][n]

(* Clicking again returns the same job: whatever requests race, a                 *)
(* recommendation is dispatched at most once, and not before its row exists.  It  *)
(* is READY exactly when its job SUCCEEDED, and FAILED only when no attempt of it *)
(* will ever run (content/views.py, recommendations.py).                          *)
RequestsAgree ==
  \A j \in {k \in Jobs : IsRecommendation(k)} :
    LET underway == web[j]["rowed"] + messages[j] + starting[j] IN
    /\ underway <= 1
    /\ underway = 1 => (\A n \in Numbers : worker[j][n] = "none") /\ rec[j] # "NONE"
    /\ rec[j] = "READY" <=> job[j].status = "SUCCEEDED"
    /\ rec[j] = "FAILED" => job[j].status \in {"FAILED", "RETRY_QUEUED", "CANCELED"}

(* The inductive invariant: how far the execution of attempt n has come, what *)
(* it holds and what its AIRun says.                                          *)
Execution(j, n) ==
  /\ attempt[j][n] = "NONE" => worker[j][n] = "none"
  /\ worker[j][n] \in {"none", "claimed", "budgeted", "refused"} => run[j][n] = "NONE"
  /\ worker[j][n] \in {"none", "claimed", "refused"} => ~held[j][n]
  /\ worker[j][n] \in {"budgeted", "asked", "failing"} => held[j][n]
  /\ worker[j][n] \in {"asked", "failing"} => run[j][n] = "RUNNING"
  /\ worker[j][n] \in {"returned", "done"} /\ (run[j][n] = "RUNNING" \/ held[j][n]) =>
       worker[j][n] = "done" /\ run[j][n] = "RUNNING" /\ held[j][n] /\ attempt[j][n] = "FAILED"
  /\ run[j][n] = "SUCCEEDED" <=> attempt[j][n] = "SUCCEEDED"
  /\ run[j][n] = "FAILED" => attempt[j][n] = "FAILED"
  /\ run[j][n] = "CANCELED" => job[j].status = "CANCELED"

GenInv ==
  /\ JobInv /\ GenTypeOK
  /\ \A j \in Jobs : items[j] = {n \in Numbers : run[j][n] = "SUCCEEDED"}
  /\ \A j \in Jobs, n \in Numbers : Execution(j, n)

(* A job that runs ends, whatever becomes of its worker.                       *)
RunningJobsEnd == \A j \in Jobs : job[j].status = "RUNNING" ~> job[j].status \in Terminal

(* Spec 2026-08-16-zero-config-ai-content-workflow-design.md:82: after a     *)
(* provider failure the context is kept and the user may retry.              *)
RetriedJobsRun == \A j \in Jobs : job[j].status = "RETRY_QUEUED" ~> job[j].status # "RETRY_QUEUED"
================================================================================
