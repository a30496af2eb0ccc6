---------------------------- MODULE JobQueueProofs ----------------------------
(*****************************************************************************)
(* Safety of the job queue for every set of jobs, attempt limit and set of   *)
(* progress values.                                                          *)
(*                                                                           *)
(* JobInv is inductive.  What it says of one job, Sound(j), depends on the   *)
(* rows of that job alone, and every action but the reaper changes one job;  *)
(* so each action gets one lemma about that job and OneJobSteps does the     *)
(* rest.                                                                     *)
(*****************************************************************************)
EXTENDS JobQueue, TLAPS

\* The three conjuncts of JobInv, for one job.
History(j) ==
  /\ job[j].owner = (IF job[j].status = "RUNNING" THEN job[j].attempt ELSE 0)
  /\ \A n \in Numbers : /\ n < job[j].attempt => attempt[j][n] = "FAILED"
                        /\ n > job[j].attempt => attempt[j][n] = "NONE"
  /\ LatestFits(j)
  /\ job[j].status = "CANCELED" => attempt[j][job[j].attempt] \in {"NONE", "CANCELED"}

Outcome(j) ==
  /\ job[j].result = (IF job[j].status = "SUCCEEDED" THEN job[j].attempt ELSE 0)
  /\ job[j].error # "none" <=> job[j].status = "FAILED"
  /\ job[j].finished <=> job[j].status \in Terminal
  /\ job[j].status \in NotStarted => job[j].progress = 0
  /\ job[j].status = "SUCCEEDED" => job[j].progress = 100

Sound(j) == History(j) /\ Outcome(j)

LEMMA PerJob == JobInv <=> JobTypeOK /\ \A j \in Jobs : Sound(j)
BY DEF JobInv, HistoryFits, OutcomeFits, Sound, History, Outcome

LEMMA Bounds ==
  /\ 1 \in Numbers /\ 0 \in 0..MaxAttempts
  /\ \A n \in Numbers : n \in 0..MaxAttempts /\ n \in Nat /\ n # 0
  /\ \A n \in Numbers : n < MaxAttempts => n + 1 \in Numbers
  /\ 0 \in Progress /\ 100 \in Progress /\ \A p \in Progress : p \in Int
BY MaxAttemptsAssumption, ProgressAssumption DEF Numbers

\* The rows of a job and their types.
LEMMA RowOf ==
  ASSUME JobTypeOK, NEW j \in Jobs
  PROVE  /\ job[j] \in JobRow /\ job[j].attempt \in Numbers
         /\ job[j].owner \in 0..MaxAttempts /\ job[j].status \in JobStatus
         /\ attempt[j] \in [Numbers -> AttemptStatus]
BY DEF JobTypeOK, JobRow

LEMMA JobsBegin == JobInit => JobInv
<1> SUFFICES ASSUME JobInit PROVE JobInv
  OBVIOUS
<1>1. NoJob \in JobRow
  BY Bounds DEF NoJob, JobRow, JobStatus
<1>2. JobTypeOK
  BY <1>1 DEF JobInit, JobTypeOK, AttemptStatus
<1>3. ASSUME NEW j \in Jobs PROVE Sound(j)
  BY Bounds DEF JobInit, NoJob, Sound, History, Outcome, LatestFits, NotStarted, Waiting, Terminal, Numbers
<1> QED
  BY <1>2, <1>3, PerJob

-----------------------------------------------------------------------------
(* One job at a time *)

\* A step that rewrites the rows of j soundly and leaves every other job alone.
LEMMA OneJobSteps ==
  ASSUME JobInv, NEW j \in Jobs,
         NEW row \in JobRow, NEW history \in [Numbers -> AttemptStatus],
         job' = [job EXCEPT ![j] = row],
         attempt' = [attempt EXCEPT ![j] = history],
         Sound(j)'
  PROVE  JobInv'
<1>1. JobTypeOK /\ \A i \in Jobs : Sound(i)
  BY PerJob
<1>2. JobTypeOK'
  BY <1>1 DEF JobTypeOK
<1>3. ASSUME NEW i \in Jobs \ {j} PROVE Sound(i)'
  <2>1. job'[i] = job[i] /\ attempt'[i] = attempt[i]
    BY <1>1 DEF JobTypeOK
  <2> QED
    BY <1>1, <2>1 DEF Sound, History, Outcome, LatestFits
<1>4. JobTypeOK' /\ \A i \in Jobs : Sound(i)'
  BY <1>2, <1>3
<1> QED
  BY <1>4 DEF JobInv, HistoryFits, OutcomeFits, Sound, History, Outcome

\* The same when the attempts stay as they are.
LEMMA OneRowSteps ==
  ASSUME JobInv, NEW j \in Jobs, NEW row \in JobRow,
         job' = [job EXCEPT ![j] = row], UNCHANGED attempt, Sound(j)'
  PROVE  JobInv'
<1>1. attempt' = [attempt EXCEPT ![j] = attempt[j]] /\ attempt[j] \in [Numbers -> AttemptStatus]
  BY PerJob DEF JobTypeOK
<1> QED
  BY <1>1, OneJobSteps

\* What the invariant says of j.
LEMMA SoundOf ==
  ASSUME JobInv, NEW j \in Jobs
  PROVE  /\ JobTypeOK /\ Sound(j) /\ History(j) /\ Outcome(j)
         /\ job[j] \in JobRow /\ job[j].attempt \in Numbers
         /\ job[j].owner \in 0..MaxAttempts
         /\ attempt[j] \in [Numbers -> AttemptStatus]
BY PerJob, RowOf DEF Sound

\* A step that relabels the latest attempt of j as the job's new status demands.
LEMMA LatestRelabelled ==
  ASSUME JobInv, NEW j \in Jobs, NEW s \in AttemptStatus,
         job'[j].attempt = job[j].attempt,
         job'[j].status = s, s # "NONE",
         job'[j].owner = (IF s = "RUNNING" THEN job[j].attempt ELSE 0),
         \A n \in Numbers : attempt'[j][n] = (IF n = job[j].attempt THEN s ELSE attempt[j][n])
  PROVE  History(j)'
<1>1. ASSUME NEW n \in Numbers
      PROVE  /\ n < job'[j].attempt => attempt'[j][n] = "FAILED"
             /\ n > job'[j].attempt => attempt'[j][n] = "NONE"
  BY SoundOf DEF History, Numbers
<1>2. attempt'[j][job'[j].attempt] = s
  BY SoundOf
<1>3. LatestFits(j)'
  BY <1>2 DEF LatestFits, NotStarted, Waiting, AttemptStatus
<1> QED
  BY <1>1, <1>2, <1>3 DEF History

-----------------------------------------------------------------------------
(* The actions *)

LEMMA CreatePreserves ==
  ASSUME JobInv, NEW j \in Jobs, CreateJob(j)
  PROVE  JobInv'
<1> DEFINE row == [job[j] EXCEPT !.status = "QUEUED"]
<1>1. row \in JobRow
  BY SoundOf DEF JobRow, JobStatus
<1>2. job' = [job EXCEPT ![j] = row] /\ UNCHANGED attempt
  BY SoundOf DEF CreateJob, JobTypeOK
<1>3. /\ job'[j] = row /\ attempt' = attempt /\ job[j].status = "ABSENT"
      /\ \A n \in Numbers : attempt'[j][n] = attempt[j][n]
  BY <1>2, SoundOf DEF CreateJob, JobTypeOK
<1>4. History(j)'
  BY <1>3, SoundOf DEF JobRow, History, LatestFits, NotStarted, Waiting
<1>5. Outcome(j)'
  BY <1>3, SoundOf DEF JobRow, Outcome, NotStarted, Waiting, Terminal
<1> QED
  BY <1>1, <1>2, <1>4, <1>5, OneRowSteps DEF Sound

LEMMA ClaimPreserves ==
  ASSUME JobInv, NEW j \in Jobs, ClaimJob(j)
  PROVE  JobInv'
<1> DEFINE row == [job[j] EXCEPT !.status = "RUNNING", !.owner = job[j].attempt,
                                 !.lease = "live", !.finished = FALSE]
           history == [attempt[j] EXCEPT ![job[j].attempt] = "RUNNING"]
<1>1. row \in JobRow /\ history \in [Numbers -> AttemptStatus]
  BY ZenonT(60), SoundOf, Bounds DEF JobRow, JobStatus, AttemptStatus
<1>2. job' = [job EXCEPT ![j] = row] /\ attempt' = [attempt EXCEPT ![j] = history]
  BY SoundOf DEF ClaimJob, JobTypeOK
<1>3. job'[j] = row /\ attempt'[j] = history /\ job[j].status \in Waiting
  BY <1>2, SoundOf DEF ClaimJob, JobTypeOK
<1>4. History(j)'
  BY ZenonT(60), <1>3, SoundOf, LatestRelabelled DEF JobRow, AttemptStatus
<1>5. Outcome(j)'
  BY <1>3, SoundOf DEF JobRow, Outcome, NotStarted, Waiting, Terminal
<1> QED
  BY <1>1, <1>2, <1>4, <1>5, OneJobSteps DEF Sound

LEMMA ProgressPreserves ==
  ASSUME JobInv, NEW j \in Jobs, NEW n \in Numbers, NEW p \in Progress, ReportProgress(j, n, p)
  PROVE  JobInv'
<1> DEFINE row == [job[j] EXCEPT !.progress = p]
<1>1. row \in JobRow
  BY SoundOf DEF JobRow
<1>2. job' = [job EXCEPT ![j] = row] /\ UNCHANGED attempt
  BY SoundOf DEF ReportProgress, JobTypeOK
<1>3. job'[j] = row /\ attempt' = attempt /\ job[j].status = "RUNNING"
  BY <1>2, SoundOf DEF ReportProgress, Owns, JobTypeOK
<1>4. History(j)'
  BY <1>3, SoundOf DEF JobRow, History, LatestFits, NotStarted, Waiting
<1>5. Outcome(j)'
  BY <1>3, SoundOf DEF JobRow, Outcome, NotStarted, Waiting, Terminal
<1> QED
  BY <1>1, <1>2, <1>4, <1>5, OneRowSteps DEF Sound

LEMMA LeasePreserves ==
  ASSUME JobInv, NEW j \in Jobs,
         LeaseRunsOut(j) \/ \E n \in Numbers : Heartbeat(j, n)
  PROVE  JobInv'
<1>1. PICK lease \in {"none", "live", "expired"} :
        /\ job' = [job EXCEPT ![j].lease = lease]
        /\ UNCHANGED attempt
  BY DEF LeaseRunsOut, Heartbeat
<1> DEFINE row == [job[j] EXCEPT !.lease = lease]
<1>2. row \in JobRow
  BY SoundOf DEF JobRow
<1>3. job' = [job EXCEPT ![j] = row] /\ job'[j] = row
  BY <1>1, SoundOf DEF JobTypeOK
<1>4. History(j)'
  BY <1>1, <1>3, SoundOf DEF JobRow, History, LatestFits
<1>5. Outcome(j)'
  BY <1>3, SoundOf DEF JobRow, Outcome
<1> QED
  BY <1>1, <1>2, <1>3, <1>4, <1>5, OneRowSteps DEF Sound

LEMMA SucceedPreserves ==
  ASSUME JobInv, NEW j \in Jobs, NEW n \in Numbers, SucceedJob(j, n)
  PROVE  JobInv'
<1> DEFINE row == [job[j] EXCEPT !.status = "SUCCEEDED", !.progress = 100, !.result = n,
                                 !.error = "none", !.finished = TRUE, !.owner = 0]
           history == [attempt[j] EXCEPT ![n] = "SUCCEEDED"]
<1>1. row \in JobRow /\ history \in [Numbers -> AttemptStatus]
  <2>1. job[j] \in JobRow /\ attempt[j] \in [Numbers -> AttemptStatus]
    BY SoundOf DEF JobTypeOK
  <2>2. 100 \in Progress /\ n \in 0..MaxAttempts
    BY Bounds
  <2>3. row \in JobRow
    BY <2>1, <2>2, Bounds DEF JobRow, JobStatus
  <2> QED
    BY <2>1, <2>3 DEF AttemptStatus
<1>2. job' = [job EXCEPT ![j] = row] /\ attempt' = [attempt EXCEPT ![j] = history]
  BY ZenonT(60), SoundOf DEF SucceedJob, JobTypeOK
<1>3. /\ job'[j] = row /\ attempt'[j] = history
      /\ job[j].status = "RUNNING" /\ n = job[j].attempt
  <2>1. job'[j] = row /\ attempt'[j] = history
    BY <1>2, SoundOf DEF JobTypeOK
  <2>2. job[j].status = "RUNNING" /\ n = job[j].attempt
    BY SoundOf DEF SucceedJob, Owns, History
  <2> QED
    BY <2>1, <2>2
<1>4. History(j)'
  <2>1. /\ job'[j].attempt = job[j].attempt /\ job'[j].status = "SUCCEEDED"
        /\ job'[j].owner = 0 /\ "SUCCEEDED" \in AttemptStatus
    BY <1>3, SoundOf DEF JobRow, AttemptStatus
  <2>2. \A i \in Numbers :
          attempt'[j][i] = (IF i = job[j].attempt THEN "SUCCEEDED" ELSE attempt[j][i])
    BY <1>3, SoundOf
  <2> QED
    BY <2>1, <2>2, LatestRelabelled
<1>5. Outcome(j)'
  BY <1>3, SoundOf DEF JobRow, Outcome, NotStarted, Waiting, Terminal
<1> QED
  BY <1>1, <1>2, <1>4, <1>5, OneJobSteps DEF Sound

LEMMA FailPreserves ==
  ASSUME JobInv, NEW j \in Jobs, NEW n \in Numbers, FailJob(j, n)
  PROVE  JobInv'
<1> DEFINE row == [job[j] EXCEPT !.status = "FAILED", !.error = "worker_error", !.result = 0,
                                 !.finished = TRUE, !.owner = 0]
           history == [attempt[j] EXCEPT ![n] = "FAILED"]
<1>1. row \in JobRow /\ history \in [Numbers -> AttemptStatus]
  BY ZenonT(60), SoundOf, Bounds DEF JobRow, JobStatus, AttemptStatus
<1>2. job' = [job EXCEPT ![j] = row] /\ attempt' = [attempt EXCEPT ![j] = history]
  BY SoundOf DEF FailJob, JobTypeOK
<1>3. /\ job'[j] = row /\ attempt'[j] = history
      /\ job[j].status = "RUNNING" /\ n = job[j].attempt
  <2>1. job'[j] = row /\ attempt'[j] = history
    BY <1>2, SoundOf DEF JobTypeOK
  <2>2. job[j].status = "RUNNING" /\ n = job[j].attempt
    BY SoundOf DEF FailJob, Owns, History
  <2> QED
    BY <2>1, <2>2
<1>4. History(j)'
  <2>1. /\ job'[j].attempt = job[j].attempt /\ job'[j].status = "FAILED"
        /\ job'[j].owner = 0 /\ "FAILED" \in AttemptStatus
    BY <1>3, SoundOf DEF JobRow, AttemptStatus
  <2>2. \A i \in Numbers :
          attempt'[j][i] = (IF i = job[j].attempt THEN "FAILED" ELSE attempt[j][i])
    BY <1>3, SoundOf
  <2> QED
    BY <2>1, <2>2, LatestRelabelled
<1>5. Outcome(j)'
  BY <1>3, SoundOf DEF JobRow, Outcome, NotStarted, Waiting, Terminal
<1> QED
  BY <1>1, <1>2, <1>4, <1>5, OneJobSteps DEF Sound

LEMMA RetryPreserves ==
  ASSUME JobInv, NEW j \in Jobs, RetryJob(j)
  PROVE  JobInv'
<1> DEFINE row == [job[j] EXCEPT !.status = "RETRY_QUEUED", !.progress = 0,
                                 !.attempt = job[j].attempt + 1, !.owner = 0,
                                 !.finished = FALSE, !.error = "none", !.result = 0]
<1>1. row \in JobRow
  BY ZenonT(60), SoundOf, Bounds DEF RetryJob, JobRow, JobStatus
<1>2. job' = [job EXCEPT ![j] = row] /\ UNCHANGED attempt
  BY SoundOf DEF RetryJob, JobTypeOK
<1>3. job'[j] = row /\ attempt' = attempt /\ job[j].status = "FAILED"
  BY <1>2, SoundOf DEF RetryJob, JobTypeOK
<1>4. /\ job'[j].attempt = job[j].attempt + 1 /\ job'[j].status = "RETRY_QUEUED"
      /\ job'[j].owner = 0 /\ job[j].attempt + 1 \in Numbers
  <2>1. job[j].attempt + 1 \in Numbers
    BY SoundOf, Bounds DEF RetryJob
  <2> QED
    BY <1>3, <2>1, SoundOf DEF JobRow
<1>5. attempt[j][job[j].attempt] = "FAILED"
  BY <1>3, SoundOf DEF History, LatestFits, NotStarted, Waiting
<1>6. History(j)'
  <2>1. ASSUME NEW n \in Numbers
        PROVE  /\ n < job'[j].attempt => attempt'[j][n] = "FAILED"
               /\ n > job'[j].attempt => attempt'[j][n] = "NONE"
    BY <1>3, <1>4, <1>5, SoundOf DEF History, Numbers
  <2>2. attempt'[j][job'[j].attempt] = "NONE"
    BY <1>3, <1>4, SoundOf DEF History, Numbers
  <2> QED
    BY <1>4, <2>1, <2>2 DEF History, LatestFits, NotStarted, Waiting
<1>7. Outcome(j)'
  BY <1>3, SoundOf DEF JobRow, Outcome, NotStarted, Waiting, Terminal
<1> QED
  BY <1>1, <1>2, <1>6, <1>7, OneRowSteps DEF Sound

LEMMA CancelPreserves ==
  ASSUME JobInv, NEW j \in Jobs, CancelJob(j)
  PROVE  JobInv'
<1> DEFINE row == [job[j] EXCEPT !.status = "CANCELED", !.finished = TRUE, !.result = 0,
                                 !.owner = 0]
           history == IF job[j].owner = 0 THEN attempt[j]
                      ELSE [attempt[j] EXCEPT ![job[j].owner] = "CANCELED"]
<1>1. row \in JobRow /\ history \in [Numbers -> AttemptStatus]
  BY ZenonT(60), SoundOf, Bounds DEF JobRow, JobStatus, AttemptStatus
<1>2. job' = [job EXCEPT ![j] = row] /\ attempt' = [attempt EXCEPT ![j] = history]
  BY SoundOf DEF CancelJob, JobTypeOK
<1>3. job'[j] = row /\ attempt'[j] = history /\ job[j].status \in Waiting \cup {"RUNNING"}
  <2>1. job'[j] = row /\ attempt'[j] = history
    BY <1>2, SoundOf DEF JobTypeOK
  <2>2. job[j].status \in Waiting \cup {"RUNNING"}
    BY SoundOf DEF CancelJob, Transitions, Waiting, Terminal, JobRow, JobStatus
  <2> QED
    BY <2>1, <2>2
<1>4. History(j)'
  <2>1. CASE job[j].status = "RUNNING"
    <3>1. job[j].owner = job[j].attempt /\ job[j].owner # 0
      BY <2>1, SoundOf, Bounds DEF History
    <3>2. /\ job'[j].attempt = job[j].attempt /\ job'[j].status = "CANCELED"
          /\ job'[j].owner = 0 /\ "CANCELED" \in AttemptStatus
      BY <1>3, SoundOf DEF JobRow, AttemptStatus
    <3>3. \A n \in Numbers :
            attempt'[j][n] = (IF n = job[j].attempt THEN "CANCELED" ELSE attempt[j][n])
      BY <1>3, <3>1, SoundOf
    <3> QED
      BY <3>2, <3>3, LatestRelabelled
  <2>2. CASE job[j].status \in Waiting
    <3>1. job[j].owner = 0 /\ attempt'[j] = attempt[j]
      BY <1>3, <2>2, SoundOf DEF History, Waiting
    <3>2. attempt[j][job[j].attempt] = "NONE"
      BY <2>2, SoundOf DEF History, LatestFits, NotStarted, Waiting
    <3> QED
      BY <1>3, <3>1, <3>2, SoundOf DEF JobRow, History, LatestFits, NotStarted, Waiting
  <2> QED
    BY <1>3, <2>1, <2>2
<1>5. Outcome(j)'
  BY <1>3, SoundOf DEF JobRow, Outcome, NotStarted, Waiting, Terminal
<1> QED
  BY <1>1, <1>2, <1>4, <1>5, OneJobSteps DEF Sound

LEMMA ReapPreserves ==
  ASSUME JobInv, ReapJobs
  PROVE  JobInv'
<1> DEFINE row(j) == [job[j] EXCEPT !.status = "FAILED", !.error = "stale_worker",
                                    !.result = 0, !.finished = TRUE, !.owner = 0]
<1>1. ASSUME NEW j \in Jobs
      PROVE  row(j) \in JobRow
  BY SoundOf, Bounds DEF JobRow, JobStatus
<1>2. JobTypeOK'
  BY <1>1, SoundOf DEF ReapJobs, JobTypeOK, AttemptStatus
<1>3. ASSUME NEW j \in Jobs PROVE Sound(j)'
  <2>1. CASE j \in StaleJobs
    <3>1. /\ job'[j] = row(j) /\ job[j].status = "RUNNING" /\ job[j].owner = job[j].attempt
          /\ \A n \in Numbers :
               attempt'[j][n] = IF n = job[j].attempt THEN "FAILED" ELSE attempt[j][n]
      BY <2>1, SoundOf DEF ReapJobs, StaleJobs, History
    <3>2. History(j)'
      BY <3>1, SoundOf DEF JobRow, History, LatestFits, NotStarted, Waiting, Numbers
    <3>3. Outcome(j)'
      BY <3>1, SoundOf DEF JobRow, Outcome, NotStarted, Waiting, Terminal
    <3> QED
      BY <3>2, <3>3 DEF Sound
  <2>2. CASE j \notin StaleJobs
    <3>1. job'[j] = job[j] /\ \A n \in Numbers : attempt'[j][n] = attempt[j][n]
      BY <2>2 DEF ReapJobs
    <3>2. History(j)'
      BY <3>1, SoundOf DEF History, LatestFits
    <3> QED
      BY <3>1, <3>2, SoundOf DEF Sound, Outcome
  <2> QED
    BY <2>1, <2>2
<1> QED
  BY <1>2, <1>3 DEF JobInv, HistoryFits, OutcomeFits, Sound, History, Outcome

-----------------------------------------------------------------------------
(* The theorems *)

LEMMA StepsPreserve == JobInv /\ [JobNext]_jobVars => JobInv'
<1> SUFFICES ASSUME JobInv, [JobNext]_jobVars PROVE JobInv'
  OBVIOUS
<1>1. ASSUME NEW j \in Jobs, JobStep(j) PROVE JobInv'
  BY <1>1, CreatePreserves, ClaimPreserves, RetryPreserves, CancelPreserves, LeasePreserves
     DEF JobStep
<1>2. ASSUME NEW j \in Jobs, NEW n \in Numbers, TokenStep(j, n) PROVE JobInv'
  BY <1>2, ProgressPreserves, LeasePreserves, SucceedPreserves, FailPreserves DEF TokenStep
<1>3. CASE ReapJobs
  BY <1>3, ReapPreserves
<1>4. CASE UNCHANGED jobVars
  BY <1>4 DEF jobVars, JobInv, JobTypeOK, HistoryFits, OutcomeFits, LatestFits
<1> QED
  BY <1>1, <1>2, <1>3, <1>4 DEF JobNext

(* JobInv is an invariant of the queue. *)
THEOREM JobInvariant == JobSpec => []JobInv
<1> QED
  BY JobsBegin, StepsPreserve, PTL DEF JobSpec

(* The rows keep their types: no attempt number passes max_attempts, however *)
(* often a job is retried.                                                   *)
THEOREM JobTypes == JobSpec => []JobTypeOK
<1>1. JobInv => JobTypeOK
  BY DEF JobInv
<1> QED
  BY <1>1, JobInvariant, PTL

(* One worker at a time, with a history of failed attempts behind it: claim  *)
(* always finds its attempt number free.                                     *)
THEOREM HistoriesFit == JobSpec => []HistoryFits
<1>1. JobInv => HistoryFits
  BY DEF JobInv
<1> QED
  BY <1>1, JobInvariant, PTL

(* Result, error, finish time and progress agree with the status.             *)
THEOREM OutcomesFit == JobSpec => []OutcomeFits
<1>1. JobInv => OutcomeFits
  BY DEF JobInv
<1> QED
  BY <1>1, JobInvariant, PTL

-----------------------------------------------------------------------------
(* What a step may do *)

Moves(j) == job'[j].status # job[j].status => job'[j].status \in Transitions[job[j].status]

Advances(j) ==
  /\ job'[j].attempt = job[j].attempt => job'[j].progress >= job[j].progress
  /\ job'[j].attempt \in {job[j].attempt, job[j].attempt + 1}
  /\ \A n \in Numbers : attempt'[j][n] # attempt[j][n] =>
       attempt[j][n] = "RUNNING" \/ (attempt[j][n] = "NONE" /\ n = job[j].attempt)

LEMMA TableEntries ==
  /\ Transitions["ABSENT"] = {"QUEUED"} /\ Transitions["FAILED"] = {"RETRY_QUEUED"}
  /\ Transitions["RUNNING"] = Terminal
  /\ \A s \in Waiting : Transitions[s] = {"RUNNING", "CANCELED"}
BY DEF Transitions, Waiting

LEMMA ProgressOf ==
  ASSUME JobInv, NEW j \in Jobs
  PROVE  /\ job[j].progress \in Progress /\ job[j].progress \in Int
         /\ job[j].progress \in 0..100 /\ job[j].progress <= 100
<1>1. job[j].progress \in Progress
  BY SoundOf DEF JobRow
<1>2. job[j].progress \in 0..100
  BY <1>1, ProgressAssumption
<1> QED
  BY <1>1, <1>2

\* A job whose rows stay as they are.
LEMMA Idle ==
  ASSUME JobInv, NEW j \in Jobs, job'[j] = job[j],
         \A n \in Numbers : attempt'[j][n] = attempt[j][n]
  PROVE  Moves(j) /\ Advances(j)
BY ProgressOf DEF Moves, Advances

\* The action of one job, on that job.
LEMMA ItsStep ==
  ASSUME JobInv, NEW j \in Jobs, JobStep(j) \/ \E n \in Numbers : TokenStep(j, n)
  PROVE  /\ Moves(j) /\ Advances(j)
         /\ \A i \in Jobs \ {j} : job'[i] = job[i] /\ attempt'[i] = attempt[i]
<1>1. job[j].attempt \in Int /\ job[j].progress \in Int /\ job[j].progress <= 100
  BY SoundOf, Bounds, ProgressOf
<1>2. CASE CreateJob(j)
  BY <1>1, <1>2, SoundOf, TableEntries DEF CreateJob, Moves, Advances, JobTypeOK, JobRow
<1>3. CASE ClaimJob(j)
  <2>1. Moves(j)
    BY <1>3, SoundOf, TableEntries DEF ClaimJob, Moves, JobTypeOK, JobRow
  <2> QED
    BY <1>1, <1>3, <2>1, SoundOf DEF ClaimJob, Advances, JobTypeOK, JobRow
<1>4. CASE RetryJob(j)
  <2>1. Moves(j)
    BY <1>4, SoundOf, TableEntries DEF RetryJob, Moves, JobTypeOK, JobRow
  <2> QED
    BY <1>1, <1>4, <2>1, SoundOf DEF RetryJob, Advances, JobTypeOK, JobRow
<1>5. CASE CancelJob(j)
  <2>1. job'[j].status = "CANCELED" /\ "CANCELED" \in Transitions[job[j].status]
    BY <1>5, SoundOf DEF CancelJob, JobTypeOK, JobRow
  <2>2. Advances(j)
    <3>1. job[j].owner # 0 => attempt[j][job[j].owner] = "RUNNING"
      BY SoundOf DEF History, LatestFits, NotStarted, Waiting
    <3> QED
      BY <1>1, <1>5, <3>1, SoundOf DEF CancelJob, Advances, JobTypeOK, JobRow
  <2> QED
    BY <1>5, <2>1, <2>2, SoundOf DEF CancelJob, Moves, JobTypeOK
<1>6. CASE LeaseRunsOut(j) \/ \E n \in Numbers : Heartbeat(j, n)
  <2>1. PICK lease \in {"live", "expired"} :
          job' = [job EXCEPT ![j].lease = lease] /\ UNCHANGED attempt
    BY <1>6 DEF LeaseRunsOut, Heartbeat
  <2>2. /\ job'[j].status = job[j].status /\ job'[j].attempt = job[j].attempt
        /\ job'[j].progress = job[j].progress
    BY <2>1, SoundOf DEF JobTypeOK, JobRow
  <2> QED
    BY <1>1, <2>1, <2>2, SoundOf DEF Moves, Advances, JobTypeOK
<1>7. ASSUME NEW n \in Numbers, NEW p \in Progress, ReportProgress(j, n, p)
      PROVE  /\ Moves(j) /\ Advances(j)
             /\ \A i \in Jobs \ {j} : job'[i] = job[i] /\ attempt'[i] = attempt[i]
  BY <1>1, <1>7, SoundOf DEF ReportProgress, Moves, Advances, JobTypeOK, JobRow
<1>8. ASSUME NEW n \in Numbers, SucceedJob(j, n) \/ FailJob(j, n)
      PROVE  /\ Moves(j) /\ Advances(j)
             /\ \A i \in Jobs \ {j} : job'[i] = job[i] /\ attempt'[i] = attempt[i]
  <2>1. job[j].status = "RUNNING" /\ n = job[j].attempt
    BY <1>8, SoundOf DEF SucceedJob, FailJob, Owns, History
  <2>2. attempt[j][n] = "RUNNING"
    BY <2>1, SoundOf DEF History, LatestFits, NotStarted, Waiting
  <2>3. /\ job'[j].status \in Terminal /\ job'[j].attempt = job[j].attempt
        /\ job'[j].progress \in {job[j].progress, 100}
    <3>1. CASE SucceedJob(j, n)
      BY <3>1, SoundOf DEF SucceedJob, Terminal, JobTypeOK, JobRow
    <3>2. CASE FailJob(j, n)
      BY <3>2, SoundOf DEF FailJob, Terminal, JobTypeOK, JobRow
    <3> QED
      BY <1>8, <3>1, <3>2
  <2>4. \A i \in Numbers \ {n} : attempt'[j][i] = attempt[j][i]
    BY <1>8, SoundOf DEF SucceedJob, FailJob, JobTypeOK
  <2>5. Moves(j)
    BY <2>1, <2>3, TableEntries DEF Moves
  <2>6. Advances(j)
    BY <1>1, <2>1, <2>2, <2>3, <2>4 DEF Advances
  <2> QED
    BY <1>8, <2>5, <2>6, SoundOf DEF SucceedJob, FailJob, JobTypeOK
<1> QED
  BY <1>2, <1>3, <1>4, <1>5, <1>6, <1>7, <1>8 DEF JobStep, TokenStep

LEMMA EveryStep ==
  ASSUME JobInv, JobNext, NEW j \in Jobs
  PROVE  Moves(j) /\ Advances(j)
<1>2. ASSUME NEW i \in Jobs, JobStep(i) \/ \E n \in Numbers : TokenStep(i, n)
      PROVE  Moves(j) /\ Advances(j)
  BY <1>2, ItsStep, Idle
<1>3. CASE ReapJobs
  <2>1. CASE j \in StaleJobs
    <3>1. /\ job[j].status = "RUNNING" /\ job[j].owner = job[j].attempt
          /\ attempt[j][job[j].attempt] = "RUNNING"
      BY <2>1, SoundOf DEF StaleJobs, History, LatestFits, NotStarted, Waiting
    <3>2. job'[j] = [job[j] EXCEPT !.status = "FAILED", !.error = "stale_worker",
                                   !.result = 0, !.finished = TRUE, !.owner = 0]
      BY <1>3, <2>1 DEF ReapJobs
    <3>3. Moves(j)
      BY <3>1, <3>2, SoundOf, TableEntries DEF Moves, Terminal, JobRow
    <3>4. \A n \in Numbers : attempt'[j][n] # attempt[j][n] => attempt[j][n] = "RUNNING"
      BY <1>3, <3>1 DEF ReapJobs
    <3>5. job'[j].attempt = job[j].attempt /\ job'[j].progress = job[j].progress
      BY <3>2, SoundOf DEF JobRow
    <3> QED
      BY <3>3, <3>4, <3>5, ProgressOf DEF Advances
  <2>2. CASE j \notin StaleJobs
    <3>1. job'[j] = job[j] /\ \A n \in Numbers : attempt'[j][n] = attempt[j][n]
      BY <1>3, <2>2 DEF ReapJobs
    <3> QED
      BY <3>1, Idle
  <2> QED
    BY <2>1, <2>2
<1> QED
  BY <1>2, <1>3 DEF JobNext

(* Every method moves a job along the TRANSITIONS table.                      *)
THEOREM TransitionsFollowed == JobSpec => FollowsTransitions
<1>1. JobInv /\ [JobNext]_jobVars =>
        [\A j \in Jobs : job'[j].status # job[j].status =>
           job'[j].status \in Transitions[job[j].status]]_jobVars
  BY EveryStep DEF Moves
<1> QED
  BY <1>1, JobInvariant, PTL DEF JobSpec, FollowsTransitions

(* Progress only grows within an attempt, attempts follow each other one by  *)
(* one, and an ended attempt never changes.                                  *)
THEOREM AttemptsAdvance == JobSpec => AttemptsOnlyAdvance
<1>1. JobInv /\ [JobNext]_jobVars =>
        [\A j \in Jobs :
           /\ job'[j].attempt = job[j].attempt => job'[j].progress >= job[j].progress
           /\ job'[j].attempt \in {job[j].attempt, job[j].attempt + 1}
           /\ \A n \in Numbers : attempt'[j][n] # attempt[j][n] =>
                attempt[j][n] = "RUNNING" \/ (attempt[j][n] = "NONE" /\ n = job[j].attempt)]_jobVars
  BY EveryStep DEF Advances
<1> QED
  BY <1>1, JobInvariant, PTL DEF JobSpec, AttemptsOnlyAdvance

=============================================================================
