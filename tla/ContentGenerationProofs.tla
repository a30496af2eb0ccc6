------------------------ MODULE ContentGenerationProofs ------------------------
(********************************************************************************)
(* Safety of content generation, for every set of jobs, attempt limit, number   *)
(* of racing requests and set of faults.                                        *)
(*                                                                              *)
(* Every step is a step of the job queue or leaves it alone (StepsAreJobSteps), *)
(* so the theorems of JobQueueProofs hold here too.  On top of them GenInv is   *)
(* inductive: an action works on one attempt, and Elsewhere covers all others.  *)
(* RequestInv adds the requests that race for a recommendation, counted by the  *)
(* stage they have reached.                                                     *)
(********************************************************************************)
EXTENDS ContentGeneration, JobQueueProofs

LEMMA PerAction ==
  ASSUME GenNext
  PROVE  \/ \E j \in Jobs :
              \/ Post(j) \/ PostCreates(j) \/ PostAddsRow(j) \/ PostDispatches(j) \/ WebDies(j)
              \/ LoseMessage(j) \/ ApiRetry(j) \/ ApiCancel(j) \/ Receive(j)
              \/ StartFindsNothing(j) \/ PreflightFails(j) \/ StartClaims(j)
              \/ WorkerDies(j) \/ LeaseEnds(j)
         \/ \E j \in Jobs, n \in Numbers : WorkStep(j, n)
         \/ Reap
BY DEF GenNext, WebStep, StartStep, Outside

LEMMA StepsAreJobSteps == [GenNext]_genVars => [JobNext]_jobVars
<1> SUFFICES ASSUME GenNext PROVE JobNext \/ UNCHANGED jobVars
  BY DEF genVars, jobVars
<1>1. ASSUME NEW j \in Jobs,
             \/ Post(j) \/ PostAddsRow(j) \/ PostDispatches(j) \/ WebDies(j)
             \/ LoseMessage(j) \/ Receive(j) \/ StartFindsNothing(j) \/ PreflightFails(j)
             \/ WorkerDies(j)
      PROVE  UNCHANGED jobVars
  BY <1>1 DEF Post, PostAddsRow, PostDispatches, WebDies, LoseMessage, Receive,
              StartFindsNothing, PreflightFails, WorkerDies
<1>2. ASSUME NEW j \in Jobs,
             PostCreates(j) \/ ApiRetry(j) \/ ApiCancel(j) \/ StartClaims(j) \/ LeaseEnds(j)
      PROVE  JobNext \/ UNCHANGED jobVars
  BY <1>2 DEF PostCreates, ApiRetry, ApiCancel, StartClaims, LeaseEnds, JobNext, JobStep
<1>3. ASSUME NEW j \in Jobs, NEW n \in Numbers, WorkStep(j, n)
      PROVE  JobNext \/ UNCHANGED jobVars
  <2>1. CASE Reserve(j, n) \/ StartRun(j, n) \/ FinalizeRaises(j, n) \/ TaskReturns(j, n)
    BY <2>1 DEF Reserve, StartRun, FinalizeRaises, TaskReturns
  <2>2. CASE RefuseJob(j, n) \/ RecordSuccess(j, n) \/ RecordFailure(j, n)
    BY <2>2 DEF RefuseJob, RecordSuccess, RecordFailure, RecordCanceled, JobNext, TokenStep
  <2> QED
    BY <1>3, <2>1, <2>2 DEF WorkStep
<1>4. CASE Reap
  BY <1>4 DEF Reap, JobNext
<1> QED
  BY <1>1, <1>2, <1>3, <1>4, PerAction

(* The execution of content jobs uses the queue as JobService allows: it     *)
(* implements JobSpec.                                                       *)
THEOREM ImplementsJobQueue == GenSpec => JobSpec
<1>1. GenInit => JobInit
  BY DEF GenInit
<1> QED
  BY <1>1, StepsAreJobSteps, PTL DEF GenSpec, JobSpec

-----------------------------------------------------------------------------
(* Types *)

ExecTypeOK ==
  /\ worker \in [Jobs -> [Numbers -> WorkerStates]]
  /\ run \in [Jobs -> [Numbers -> RunStatus]] /\ held \in [Jobs -> [Numbers -> BOOLEAN]]
  /\ items \in [Jobs -> SUBSET Numbers] /\ rec \in [Jobs -> RecStatus]

CountTypeOK ==
  /\ web \in [Jobs -> [Stages -> Nat]] /\ posted \in [Jobs -> 0..MaxPosts]
  /\ messages \in [Jobs -> Nat] /\ starting \in [Jobs -> Nat]

LEMMA TypeParts == GenTypeOK <=> JobTypeOK /\ ExecTypeOK /\ CountTypeOK
BY DEF GenTypeOK, ExecTypeOK, CountTypeOK

LEMMA CountsKeepTypes ==
  ASSUME JobTypeOK, CountTypeOK, [GenNext]_genVars
  PROVE  CountTypeOK'
<1>1. CASE UNCHANGED genVars
  BY <1>1 DEF genVars, execVars, CountTypeOK
<1>2. ASSUME NEW j \in Jobs, Post(j)
      PROVE  CountTypeOK'
  <2>1. posted[j] + 1 \in 0..MaxPosts
    BY <1>2, MaxPostsAssumption DEF Post, CountTypeOK
  <2> QED
    BY <1>2, <2>1 DEF Post, execVars, CountTypeOK, Stages
<1>3. ASSUME NEW j \in Jobs, PostCreates(j) \/ PostAddsRow(j) \/ PostDispatches(j) \/ WebDies(j)
      PROVE  CountTypeOK'
  <2>1. CASE PostCreates(j)
    BY <2>1 DEF PostCreates, execVars, CountTypeOK, Stages
  <2>2. CASE PostAddsRow(j)
    BY <2>2 DEF PostAddsRow, CountTypeOK, Stages
  <2>3. CASE PostDispatches(j)
    BY <2>3 DEF PostDispatches, CountTypeOK, Stages
  <2>4. CASE WebDies(j)
    BY <2>4 DEF WebDies, execVars, CountTypeOK, Stages
  <2> QED
    BY <1>3, <2>1, <2>2, <2>3, <2>4
<1>4. ASSUME NEW j \in Jobs,
             \/ LoseMessage(j) \/ Receive(j) \/ StartFindsNothing(j) \/ PreflightFails(j)
             \/ StartClaims(j) \/ WorkerDies(j)
      PROVE  CountTypeOK'
  <2>1. CASE LoseMessage(j)
    <3>1. CASE messages[j] > 0 /\ messages' = [messages EXCEPT ![j] = messages[j] - 1]
               /\ UNCHANGED starting
      BY <2>1, <3>1 DEF LoseMessage, CountTypeOK
    <3>2. CASE starting[j] > 0 /\ starting' = [starting EXCEPT ![j] = starting[j] - 1]
               /\ UNCHANGED messages
      BY <2>1, <3>2 DEF LoseMessage, CountTypeOK
    <3> QED
      BY <2>1, <3>1, <3>2 DEF LoseMessage
  <2>2. CASE Receive(j)
    BY <2>2 DEF Receive, CountTypeOK
  <2>3. CASE StartFindsNothing(j) \/ PreflightFails(j) \/ StartClaims(j) \/ WorkerDies(j)
    BY <2>3 DEF StartFindsNothing, PreflightFails, StartClaims, WorkerDies, CountTypeOK
  <2> QED
    BY <1>4, <2>1, <2>2, <2>3
<1>5. ASSUME NEW j \in Jobs, ApiRetry(j) \/ ApiCancel(j) \/ LeaseEnds(j) \/ Reap
      PROVE  CountTypeOK'
  BY <1>5 DEF ApiRetry, ApiCancel, LeaseEnds, Reap, execVars, CountTypeOK
<1>6. ASSUME NEW j \in Jobs, NEW n \in Numbers, WorkStep(j, n)
      PROVE  CountTypeOK'
  BY <1>6 DEF WorkStep, Reserve, StartRun, RefuseJob, RecordSuccess, FinalizeRaises,
              RecordFailure, RecordCanceled, TaskReturns, CountTypeOK
<1>7. CASE Reap
  BY <1>7 DEF Reap, execVars, CountTypeOK
<1> QED
  BY <1>1, <1>2, <1>3, <1>4, <1>5, <1>6, <1>7, PerAction

LEMMA StageNames ==
  /\ \A s \in Active : s \in WorkerStates
  /\ {"claimed", "budgeted", "refused", "asked", "failing", "returned"} \subseteq WorkerStates
  /\ {"done", "dead"} \subseteq WorkerStates
BY DEF WorkerStates, Active

\* What an action of attempt n of j writes keeps the types.
LEMMA CellTypes ==
  ASSUME ExecTypeOK, NEW j \in Jobs, NEW n \in Numbers
  PROVE  /\ \A s \in WorkerStates : Becomes(j, n, s) => worker' \in [Jobs -> [Numbers -> WorkerStates]]
         /\ \A s \in RunStatus : RunBecomes(j, n, s) => run' \in [Jobs -> [Numbers -> RunStatus]]
         /\ \A b \in BOOLEAN : Holds(j, n, b) => held' \in [Jobs -> [Numbers -> BOOLEAN]]
<1>1. ASSUME NEW s \in WorkerStates, Becomes(j, n, s)
      PROVE  worker' \in [Jobs -> [Numbers -> WorkerStates]]
  <2>1. [worker[j] EXCEPT ![n] = s] \in [Numbers -> WorkerStates]
    BY DEF ExecTypeOK
  <2> QED
    BY <1>1, <2>1 DEF ExecTypeOK, Becomes
<1>2. ASSUME NEW s \in RunStatus, RunBecomes(j, n, s)
      PROVE  run' \in [Jobs -> [Numbers -> RunStatus]]
  <2>1. [run[j] EXCEPT ![n] = s] \in [Numbers -> RunStatus]
    BY DEF ExecTypeOK
  <2> QED
    BY <1>2, <2>1 DEF ExecTypeOK, RunBecomes
<1>3. ASSUME NEW b \in BOOLEAN, Holds(j, n, b)
      PROVE  held' \in [Jobs -> [Numbers -> BOOLEAN]]
  BY <1>3 DEF ExecTypeOK, Holds
<1> QED
  BY <1>1, <1>2, <1>3

LEMMA ExecKeepsTypes ==
  ASSUME JobTypeOK, ExecTypeOK, [GenNext]_genVars
  PROVE  ExecTypeOK'
<1>1. CASE UNCHANGED genVars
  BY <1>1 DEF genVars, execVars, ExecTypeOK
<1>2. ASSUME NEW j \in Jobs,
             \/ Post(j) \/ PostCreates(j) \/ WebDies(j) \/ ApiRetry(j) \/ ApiCancel(j)
             \/ LeaseEnds(j)
      PROVE  ExecTypeOK'
  BY <1>2 DEF Post, PostCreates, WebDies, ApiRetry, ApiCancel, LeaseEnds, execVars, ExecTypeOK
<1>3. ASSUME NEW j \in Jobs,
             \/ PostAddsRow(j) \/ PostDispatches(j) \/ LoseMessage(j) \/ Receive(j)
             \/ StartFindsNothing(j) \/ PreflightFails(j)
      PROVE  ExecTypeOK'
  BY <1>3 DEF PostAddsRow, PostDispatches, LoseMessage, Receive, StartFindsNothing, Marked,
              PreflightFails, ExecTypeOK, RecStatus
<1>4. ASSUME NEW j \in Jobs, StartClaims(j)
      PROVE  ExecTypeOK'
  <2>1. Becomes(j, job[j].attempt, "claimed") /\ UNCHANGED <<run, held, items, rec>>
    BY <1>4 DEF StartClaims, Becomes
  <2> QED
    BY <2>1, RowOf, CellTypes, StageNames DEF ExecTypeOK
<1>5. ASSUME NEW j \in Jobs, WorkerDies(j)
      PROVE  ExecTypeOK'
  BY <1>5, CellTypes, StageNames DEF WorkerDies, ExecTypeOK
<1>6. ASSUME NEW j \in Jobs, NEW n \in Numbers, WorkStep(j, n)
      PROVE  ExecTypeOK'
  <2>1. CASE Reserve(j, n)
    BY <2>1, CellTypes, StageNames DEF Reserve, ExecTypeOK
  <2>2. CASE StartRun(j, n)
    BY <2>2, CellTypes, StageNames DEF StartRun, ExecTypeOK, RunStatus
  <2>3. CASE RefuseJob(j, n) \/ FinalizeRaises(j, n)
    BY <2>3, CellTypes, StageNames DEF RefuseJob, FinalizeRaises, ExecTypeOK
  <2>4. CASE RecordCanceled(j, n)
    BY <2>4, CellTypes, StageNames DEF RecordCanceled, ExecTypeOK, RunStatus
  <2>5. CASE RecordSuccess(j, n) /\ ~RecordCanceled(j, n)
    <3>1. /\ Becomes(j, n, "returned") /\ RunBecomes(j, n, "SUCCEEDED") /\ Holds(j, n, FALSE)
          /\ items' = [items EXCEPT ![j] = items[j] \cup {n}]
          /\ rec' = [rec EXCEPT ![j] = IF IsRecommendation(j) THEN "READY" ELSE rec[j]]
      BY <2>5 DEF RecordSuccess
    <3> QED
      BY <3>1, CellTypes, StageNames DEF ExecTypeOK, RunStatus, RecStatus
  <2>6. CASE RecordFailure(j, n) /\ ~RecordCanceled(j, n)
    <3>1. /\ UNCHANGED <<items, rec>>
          /\ \/ Becomes(j, n, "returned") /\ RunBecomes(j, n, "FAILED") /\ Holds(j, n, FALSE)
             \/ Becomes(j, n, "done") /\ UNCHANGED <<run, held>>
      BY <2>6 DEF RecordFailure
    <3> QED
      BY <3>1, CellTypes, StageNames DEF ExecTypeOK, RunStatus
  <2>7. CASE TaskReturns(j, n)
    BY <2>7, CellTypes, StageNames DEF TaskReturns, Marked, ExecTypeOK, RecStatus
  <2> QED
    BY <1>6, <2>1, <2>2, <2>3, <2>4, <2>5, <2>6, <2>7 DEF WorkStep
<1>7. CASE Reap
  BY <1>7 DEF Reap, execVars, ExecTypeOK
<1> QED
  BY <1>1, <1>2, <1>3, <1>4, <1>5, <1>6, <1>7, PerAction

-----------------------------------------------------------------------------
(* Cells: attempt m of job i, apart from the attempt an action works on *)

\* The queue changes attempt rows and canceled jobs only so much.
QueueSpares(i, m) ==
  /\ attempt'[i][m] # attempt[i][m] =>
       attempt[i][m] = "RUNNING" /\ attempt'[i][m] \in {"FAILED", "CANCELED"}
  /\ job[i].status = "CANCELED" => job'[i].status = "CANCELED"

Untouched(i, m) ==
  worker'[i][m] = worker[i][m] /\ run'[i][m] = run[i][m] /\ held'[i][m] = held[i][m]

LEMMA Elsewhere ==
  ASSUME NEW i \in Jobs, NEW m \in Numbers,
         Execution(i, m), Untouched(i, m), QueueSpares(i, m)
  PROVE  Execution(i, m)'
BY DEF Execution, Untouched, QueueSpares

LEMMA OwnAttempt ==
  ASSUME JobInv, NEW j \in Jobs, NEW n \in Numbers, Owns(j, n)
  PROVE  n = job[j].attempt /\ attempt[j][n] = "RUNNING" /\ job[j].status = "RUNNING"
BY SoundOf DEF Owns, History, LatestFits, NotStarted, Waiting

\* Steps of the API, beat and time.
LEMMA BystandersSpare ==
  ASSUME JobInv, NEW j \in Jobs,
         CreateJob(j) \/ RetryJob(j) \/ CancelJob(j) \/ LeaseRunsOut(j) \/ ReapJobs,
         NEW i \in Jobs, NEW m \in Numbers
  PROVE  QueueSpares(i, m)
<1>1. CASE CreateJob(j)
  BY <1>1, SoundOf DEF CreateJob, QueueSpares, JobTypeOK, JobRow
<1>2. CASE RetryJob(j)
  BY <1>2, SoundOf DEF RetryJob, QueueSpares, JobTypeOK, JobRow
<1>3. CASE CancelJob(j)
  <2>1. job[j].owner # 0 => attempt[j][job[j].owner] = "RUNNING"
    BY SoundOf DEF History, LatestFits, NotStarted, Waiting
  <2>2. job'[i].status = job[i].status \/ job'[i].status = "CANCELED"
    BY <1>3, SoundOf DEF CancelJob, JobTypeOK, JobRow
  <2>3. attempt'[i][m] # attempt[i][m] =>
          attempt[i][m] = "RUNNING" /\ attempt'[i][m] = "CANCELED"
    BY <1>3, <2>1, SoundOf DEF CancelJob, JobTypeOK
  <2> QED
    BY <2>2, <2>3 DEF QueueSpares
<1>4. CASE LeaseRunsOut(j)
  BY <1>4, SoundOf DEF LeaseRunsOut, QueueSpares, JobTypeOK, JobRow
<1>5. CASE ReapJobs
  <2>1. job'[i].status = job[i].status \/ job[i].status = "RUNNING"
    BY <1>5 DEF ReapJobs, StaleJobs
  <2>2. i \in StaleJobs => attempt[i][job[i].owner] = "RUNNING"
    BY SoundOf DEF StaleJobs, History, LatestFits, NotStarted, Waiting
  <2> QED
    BY <1>5, <2>1, <2>2 DEF ReapJobs, QueueSpares
<1> QED
  BY <1>1, <1>2, <1>3, <1>4, <1>5

\* Succeeding or failing j by its owner, seen from another cell.
LEMMA OwnersSpare ==
  ASSUME JobInv, NEW j \in Jobs, NEW n \in Numbers, SucceedJob(j, n) \/ FailJob(j, n),
         NEW i \in Jobs, NEW m \in Numbers, i # j \/ m # n
  PROVE  QueueSpares(i, m)
<1>1. Owns(j, n) /\ job[j].status = "RUNNING"
  BY OwnAttempt DEF SucceedJob, FailJob
<1>2. attempt'[i][m] = attempt[i][m]
  BY SoundOf DEF SucceedJob, FailJob, JobTypeOK
<1>3. i # j => job'[i] = job[i]
  BY SoundOf DEF SucceedJob, FailJob, JobTypeOK
<1> QED
  BY <1>1, <1>2, <1>3 DEF QueueSpares

LEMMA Writes ==
  ASSUME ExecTypeOK, NEW j \in Jobs, NEW n \in Numbers, NEW s, NEW i \in Jobs, NEW m \in Numbers
  PROVE  /\ Becomes(j, n, s) => worker'[i][m] = IF i = j /\ m = n THEN s ELSE worker[i][m]
         /\ RunBecomes(j, n, s) => run'[i][m] = IF i = j /\ m = n THEN s ELSE run[i][m]
         /\ Holds(j, n, s) => held'[i][m] = IF i = j /\ m = n THEN s ELSE held[i][m]
BY DEF ExecTypeOK, Becomes, RunBecomes, Holds

-----------------------------------------------------------------------------
(* Every step preserves what GenInv says of executions and stored output *)

OutputFits == \A j \in Jobs : items[j] = {n \in Numbers : run[j][n] = "SUCCEEDED"}
ExecutionsFit == \A j \in Jobs, n \in Numbers : Execution(j, n)

LEMMA GenParts ==
  ASSUME GenInv
  PROVE  JobInv /\ JobTypeOK /\ ExecTypeOK /\ CountTypeOK /\ OutputFits /\ ExecutionsFit
BY TypeParts DEF GenInv, JobInv, OutputFits, ExecutionsFit

LEMMA SameOutput ==
  ASSUME OutputFits, UNCHANGED items,
         \A i \in Jobs, m \in Numbers : run'[i][m] = "SUCCEEDED" <=> run[i][m] = "SUCCEEDED"
  PROVE  OutputFits'
BY DEF OutputFits

LEMMA QuietStep ==
  ASSUME GenInv, UNCHANGED <<worker, run, held, items>>,
         \A i \in Jobs, m \in Numbers : QueueSpares(i, m)
  PROVE  OutputFits' /\ ExecutionsFit'
<1>1. ASSUME NEW i \in Jobs, NEW m \in Numbers
      PROVE  Execution(i, m)'
  BY Elsewhere, GenParts DEF ExecutionsFit, Untouched
<1> QED
  BY <1>1, SameOutput, GenParts DEF ExecutionsFit

LEMMA Unmoved ==
  ASSUME UNCHANGED jobVars
  PROVE  \A i \in Jobs, m \in Numbers : QueueSpares(i, m)
BY DEF jobVars, QueueSpares

LEMMA ClaimStep ==
  ASSUME GenInv, NEW j \in Jobs, StartClaims(j)
  PROVE  OutputFits' /\ ExecutionsFit'
<1>0. PICK n \in Numbers : n = job[j].attempt
  BY SoundOf, GenParts
<1>1. n \in Numbers /\ job[j].status \in Waiting /\ attempt[j][n] = "NONE"
  BY <1>0, SoundOf, GenParts DEF StartClaims, ClaimJob
<1>2. Becomes(j, n, "claimed") /\ UNCHANGED <<run, held, items>>
  BY <1>0 DEF StartClaims, Becomes
<1>3. /\ attempt'[j][n] = "RUNNING" /\ job'[j].status = "RUNNING"
      /\ \A i \in Jobs, m \in Numbers : i # j \/ m # n => attempt'[i][m] = attempt[i][m]
      /\ \A i \in Jobs : i # j => job'[i] = job[i]
  BY <1>0, <1>1, SoundOf, GenParts DEF StartClaims, ClaimJob, JobTypeOK, JobRow
<1>4. worker[j][n] = "none" /\ run[j][n] = "NONE" /\ ~held[j][n]
  BY <1>1, GenParts DEF ExecutionsFit, Execution
<1>5. worker'[j][n] = "claimed" /\ run'[j][n] = "NONE" /\ ~held'[j][n]
  BY <1>1, <1>2, <1>4, Writes, GenParts
<1>6. Execution(j, n)'
  BY <1>3, <1>5 DEF Execution
<1>7. ASSUME NEW i \in Jobs, NEW m \in Numbers, i # j \/ m # n
      PROVE  Execution(i, m)'
  <2>1. Untouched(i, m)
    BY <1>1, <1>2, <1>7, Writes, GenParts DEF Untouched
  <2>2. QueueSpares(i, m)
    BY <1>1, <1>3, <1>7 DEF QueueSpares, Waiting
  <2> QED
    BY <2>1, <2>2, Elsewhere, GenParts DEF ExecutionsFit
<1>8. OutputFits'
  BY <1>2, SameOutput, GenParts
<1> QED
  BY <1>6, <1>7, <1>8 DEF ExecutionsFit

\* A worker's step that leaves the queue alone or ends its job by its token.
LEMMA WorkerStep ==
  ASSUME GenInv, NEW j \in Jobs, NEW n \in Numbers,
         NEW s, NEW r, NEW h,
         Becomes(j, n, s) \/ (s = worker[j][n] /\ UNCHANGED worker),
         RunBecomes(j, n, r) \/ (r = run[j][n] /\ UNCHANGED run),
         Holds(j, n, h) \/ (h = held[j][n] /\ UNCHANGED held),
         UNCHANGED jobVars \/ SucceedJob(j, n) \/ FailJob(j, n),
         worker'[j][n] = s /\ run'[j][n] = r /\ held'[j][n] = h => Execution(j, n)',
         \/ UNCHANGED items /\ (r = "SUCCEEDED" <=> run[j][n] = "SUCCEEDED")
         \/ items' = [items EXCEPT ![j] = items[j] \cup {n}] /\ r = "SUCCEEDED"
  PROVE  OutputFits' /\ ExecutionsFit'
<1>1. worker'[j][n] = s /\ run'[j][n] = r /\ held'[j][n] = h
  BY Writes, GenParts
<1>2. ASSUME NEW i \in Jobs, NEW m \in Numbers, i # j \/ m # n
      PROVE  Untouched(i, m)
  <2>1. worker'[i][m] = worker[i][m]
    BY <1>2, Writes, GenParts
  <2>2. run'[i][m] = run[i][m]
    BY <1>2, Writes, GenParts
  <2>3. held'[i][m] = held[i][m]
    BY <1>2, GenParts DEF ExecTypeOK, Holds
  <2> QED
    BY <2>1, <2>2, <2>3 DEF Untouched
<1>3. ASSUME NEW i \in Jobs, NEW m \in Numbers, i # j \/ m # n
      PROVE  Execution(i, m)'
  <2>1. QueueSpares(i, m)
    BY <1>3, Unmoved, OwnersSpare, GenParts
  <2> QED
    BY <1>2, <1>3, <2>1, Elsewhere, GenParts DEF ExecutionsFit
<1>4. ExecutionsFit'
  BY <1>1, <1>3 DEF ExecutionsFit
<1>5. ASSUME NEW i \in Jobs
      PROVE  items'[i] = {m \in Numbers : run'[i][m] = "SUCCEEDED"}
  <2>1. items[i] = {m \in Numbers : run[i][m] = "SUCCEEDED"}
    BY GenParts DEF OutputFits
  <2>2. \A m \in Numbers : i # j \/ m # n => run'[i][m] = run[i][m]
    BY <1>2 DEF Untouched
  <2>3. CASE UNCHANGED items /\ (r = "SUCCEEDED" <=> run[j][n] = "SUCCEEDED")
    BY <1>1, <2>1, <2>2, <2>3
  <2>4. CASE items' = [items EXCEPT ![j] = items[j] \cup {n}] /\ r = "SUCCEEDED"
    <3>1. items'[i] = IF i = j THEN items[i] \cup {n} ELSE items[i]
      BY <2>4, GenParts DEF ExecTypeOK
    <3> QED
      BY <1>1, <2>1, <2>2, <2>4, <3>1
  <2> QED
    BY <2>3, <2>4
<1> QED
  BY <1>4, <1>5 DEF OutputFits

\* Execution(j, n) and the two facts about its attempt that every case needs.
LEMMA CellOf ==
  ASSUME GenInv, NEW j \in Jobs, NEW n \in Numbers
  PROVE  /\ Execution(j, n) /\ JobInv
         /\ Owns(j, n) => /\ attempt[j][n] = "RUNNING" /\ job[j].status = "RUNNING"
         /\ ~Owns(j, n) => attempt[j][n] # "RUNNING"
         /\ attempt[j][n] = "CANCELED" => job[j].status = "CANCELED"
         /\ attempt[j][n] \in AttemptStatus /\ worker[j][n] \in WorkerStates
<1>1. JobInv /\ JobTypeOK /\ Execution(j, n) /\ worker[j][n] \in WorkerStates
  BY GenParts DEF ExecutionsFit, ExecTypeOK
<1>2. Owns(j, n) => attempt[j][n] = "RUNNING" /\ job[j].status = "RUNNING"
  BY <1>1, OwnAttempt
<1>3. n = job[j].attempt \/ n < job[j].attempt \/ n > job[j].attempt
  BY <1>1, SoundOf DEF Numbers
<1>4. n # job[j].attempt => attempt[j][n] \in {"FAILED", "NONE"}
  BY <1>1, <1>3, SoundOf DEF History
<1>5. n = job[j].attempt => /\ attempt[j][n] = "RUNNING" => Owns(j, n)
                            /\ attempt[j][n] = "CANCELED" => job[j].status = "CANCELED"
  BY <1>1, SoundOf DEF History, LatestFits, NotStarted, Waiting, Owns
<1> QED
  BY <1>1, <1>2, <1>4, <1>5, SoundOf

LEMMA Ended ==
  ASSUME JobInv, NEW j \in Jobs, NEW n \in Numbers
  PROVE  /\ SucceedJob(j, n) => attempt'[j][n] = "SUCCEEDED" /\ job'[j].status = "SUCCEEDED"
         /\ FailJob(j, n) => attempt'[j][n] = "FAILED" /\ job'[j].status = "FAILED"
BY SoundOf DEF SucceedJob, FailJob, JobTypeOK, JobRow

LEMMA ReserveStep ==
  ASSUME GenInv, NEW j \in Jobs, NEW n \in Numbers, Reserve(j, n)
  PROVE  OutputFits' /\ ExecutionsFit'
<1>1. CASE Becomes(j, n, "budgeted") /\ Holds(j, n, TRUE)
  <2>1. worker'[j][n] = "budgeted" /\ run'[j][n] = run[j][n] /\ held'[j][n] = TRUE
          => Execution(j, n)'
    BY CellOf DEF Reserve, Execution, jobVars
  <2> QED
    BY <1>1, <2>1, WorkerStep DEF Reserve
<1>2. CASE Becomes(j, n, "refused") /\ UNCHANGED held
  <2>1. worker'[j][n] = "refused" /\ run'[j][n] = run[j][n] /\ held'[j][n] = held[j][n]
          => Execution(j, n)'
    BY CellOf DEF Reserve, Execution, jobVars
  <2> QED
    BY <1>2, <2>1, WorkerStep DEF Reserve
<1> QED
  BY <1>1, <1>2 DEF Reserve

LEMMA StartRunStep ==
  ASSUME GenInv, NEW j \in Jobs, NEW n \in Numbers, StartRun(j, n)
  PROVE  OutputFits' /\ ExecutionsFit'
<1>1. CASE Becomes(j, n, "asked") /\ RunBecomes(j, n, "RUNNING") /\ UNCHANGED held
  <2>1. worker'[j][n] = "asked" /\ run'[j][n] = "RUNNING" /\ held'[j][n] = held[j][n]
          => Execution(j, n)'
    BY CellOf DEF StartRun, Execution, jobVars
  <2>2. run[j][n] # "SUCCEEDED"
    BY CellOf DEF StartRun, Execution
  <2> QED
    BY <1>1, <2>1, <2>2, WorkerStep DEF StartRun
<1>2. CASE Becomes(j, n, "refused") /\ Holds(j, n, FALSE) /\ UNCHANGED run
  <2>1. worker'[j][n] = "refused" /\ run'[j][n] = run[j][n] /\ held'[j][n] = FALSE
          => Execution(j, n)'
    BY CellOf DEF StartRun, Execution, jobVars
  <2> QED
    BY <1>2, <2>1, WorkerStep DEF StartRun
<1> QED
  BY <1>1, <1>2 DEF StartRun

LEMMA RefuseStep ==
  ASSUME GenInv, NEW j \in Jobs, NEW n \in Numbers, RefuseJob(j, n)
  PROVE  OutputFits' /\ ExecutionsFit'
<1>1. CASE FailJob(j, n)
  <2>1. attempt'[j][n] = "FAILED" /\ job'[j].status = "FAILED"
    BY <1>1, Ended, CellOf
  <2>2. run[j][n] = "NONE" /\ ~held[j][n]
    BY CellOf DEF RefuseJob, Execution
  <2>3. worker'[j][n] = "done" /\ run'[j][n] = run[j][n] /\ held'[j][n] = held[j][n]
          => Execution(j, n)'
    BY <2>1, <2>2 DEF Execution
  <2> QED
    BY <1>1, <2>3, WorkerStep DEF RefuseJob
<1>2. CASE UNCHANGED jobVars
  <2>1. worker'[j][n] = "done" /\ run'[j][n] = run[j][n] /\ held'[j][n] = held[j][n]
          => Execution(j, n)'
    BY <1>2, CellOf DEF RefuseJob, Execution, jobVars
  <2> QED
    BY <1>2, <2>1, WorkerStep DEF RefuseJob
<1> QED
  BY <1>1, <1>2 DEF RefuseJob

LEMMA CanceledStep ==
  ASSUME GenInv, NEW j \in Jobs, NEW n \in Numbers, RecordCanceled(j, n),
         worker[j][n] \in {"asked", "failing"}
  PROVE  OutputFits' /\ ExecutionsFit'
<1>1. run[j][n] = "RUNNING" /\ attempt[j][n] \notin {"NONE", "SUCCEEDED"}
  BY CellOf DEF Execution
<1>2. worker'[j][n] = "returned" /\ run'[j][n] = "CANCELED" /\ held'[j][n] = FALSE
        => Execution(j, n)'
  BY <1>1 DEF RecordCanceled, Execution, jobVars
<1> QED
  BY <1>1, <1>2, WorkerStep DEF RecordCanceled

LEMMA SuccessStep ==
  ASSUME GenInv, NEW j \in Jobs, NEW n \in Numbers, RecordSuccess(j, n)
  PROVE  OutputFits' /\ ExecutionsFit'
<1>1. CASE RecordCanceled(j, n)
  BY <1>1, CanceledStep DEF RecordSuccess
<1>2. CASE ~RecordCanceled(j, n)
  <2>1. /\ SucceedJob(j, n)
        /\ Becomes(j, n, "returned") /\ RunBecomes(j, n, "SUCCEEDED") /\ Holds(j, n, FALSE)
        /\ items' = [items EXCEPT ![j] = items[j] \cup {n}]
    BY <1>2 DEF RecordSuccess
  <2>2. attempt'[j][n] = "SUCCEEDED" /\ job'[j].status = "SUCCEEDED"
    BY <2>1, Ended, CellOf
  <2>3. worker'[j][n] = "returned" /\ run'[j][n] = "SUCCEEDED" /\ held'[j][n] = FALSE
          => Execution(j, n)'
    BY <2>2 DEF Execution
  <2> QED
    BY <2>1, <2>3, WorkerStep
<1> QED
  BY <1>1, <1>2

LEMMA RaiseStep ==
  ASSUME GenInv, NEW j \in Jobs, NEW n \in Numbers, FinalizeRaises(j, n)
  PROVE  OutputFits' /\ ExecutionsFit'
<1>1. worker'[j][n] = "failing" /\ run'[j][n] = run[j][n] /\ held'[j][n] = held[j][n]
        => Execution(j, n)'
  BY CellOf DEF FinalizeRaises, Execution, jobVars
<1> QED
  BY <1>1, WorkerStep DEF FinalizeRaises

LEMMA FailureStep ==
  ASSUME GenInv, NEW j \in Jobs, NEW n \in Numbers, RecordFailure(j, n)
  PROVE  OutputFits' /\ ExecutionsFit'
<1>1. CASE RecordCanceled(j, n)
  BY <1>1, CanceledStep DEF RecordFailure
<1>2. CASE FailJob(j, n) /\ ~RecordCanceled(j, n) /\ Becomes(j, n, "returned")
  <2>1. RunBecomes(j, n, "FAILED") /\ Holds(j, n, FALSE) /\ UNCHANGED items
    BY <1>2, CellOf DEF RecordFailure, FailJob
  <2>2. attempt'[j][n] = "FAILED" /\ job'[j].status = "FAILED" /\ run[j][n] = "RUNNING"
    BY <1>2, Ended, CellOf DEF RecordFailure, Execution
  <2>3. worker'[j][n] = "returned" /\ run'[j][n] = "FAILED" /\ held'[j][n] = FALSE
          => Execution(j, n)'
    BY <2>2 DEF Execution
  <2> QED
    BY <1>2, <2>1, <2>2, <2>3, WorkerStep
<1>3. CASE ~Owns(j, n) /\ job[j].status # "CANCELED" /\ UNCHANGED jobVars
           /\ Becomes(j, n, "done") /\ UNCHANGED <<run, held, items>>
  <2>1. attempt[j][n] = "FAILED" /\ run[j][n] = "RUNNING" /\ held[j][n]
    BY <1>3, CellOf DEF RecordFailure, Execution, AttemptStatus
  <2>2. worker'[j][n] = "done" /\ run'[j][n] = run[j][n] /\ held'[j][n] = held[j][n]
          => Execution(j, n)'
    BY <1>3, <2>1 DEF Execution, jobVars
  <2> QED
    BY <1>3, <2>2, WorkerStep
<1> QED
  BY <1>1, <1>2, <1>3 DEF RecordFailure

LEMMA ReturnStep ==
  ASSUME GenInv, NEW j \in Jobs, NEW n \in Numbers, TaskReturns(j, n)
  PROVE  OutputFits' /\ ExecutionsFit'
<1>1. worker'[j][n] = "done" /\ run'[j][n] = run[j][n] /\ held'[j][n] = held[j][n]
        => Execution(j, n)'
  BY CellOf DEF TaskReturns, Execution, jobVars
<1> QED
  BY <1>1, WorkerStep DEF TaskReturns

LEMMA DeathStep ==
  ASSUME GenInv, NEW j \in Jobs, WorkerDies(j)
  PROVE  OutputFits' /\ ExecutionsFit'
<1>1. CASE UNCHANGED worker
  BY <1>1, QuietStep, Unmoved DEF WorkerDies
<1>2. ASSUME NEW n \in Numbers, worker[j][n] \in Active, Becomes(j, n, "dead")
      PROVE  OutputFits' /\ ExecutionsFit'
  <2>1. worker'[j][n] = "dead" /\ run'[j][n] = run[j][n] /\ held'[j][n] = held[j][n]
          => Execution(j, n)'
    BY <1>2, CellOf DEF WorkerDies, Execution, Active, jobVars
  <2> QED
    BY <1>2, <2>1, WorkerStep DEF WorkerDies
<1> QED
  BY <1>1, <1>2 DEF WorkerDies

-----------------------------------------------------------------------------
(* The theorems *)

LEMMA GenBegins == GenInit => GenInv
<1> SUFFICES ASSUME GenInit PROVE GenInv
  OBVIOUS
<1>1. JobInv /\ JobTypeOK
  BY JobsBegin DEF GenInit, JobInv
<1>2. ExecTypeOK
  BY DEF GenInit, ExecTypeOK, WorkerStates, RunStatus, RecStatus
<1>3. CountTypeOK
  BY MaxPostsAssumption DEF GenInit, CountTypeOK
<1>4. OutputFits /\ ExecutionsFit
  BY DEF GenInit, JobInit, OutputFits, ExecutionsFit, Execution
<1> QED
  BY <1>1, <1>2, <1>3, <1>4, TypeParts DEF GenInv, OutputFits, ExecutionsFit

LEMMA GenSteps == GenInv /\ [GenNext]_genVars => GenInv'
<1> SUFFICES ASSUME GenInv, [GenNext]_genVars PROVE GenInv'
  OBVIOUS
<1>1. JobInv'
  BY StepsAreJobSteps, StepsPreserve, GenParts
<1>2. GenTypeOK'
  <2>1. JobTypeOK'
    BY <1>1 DEF JobInv
  <2>2. ExecTypeOK' /\ CountTypeOK'
    BY ExecKeepsTypes, CountsKeepTypes, GenParts
  <2> QED
    BY <2>1, <2>2 DEF GenTypeOK, ExecTypeOK, CountTypeOK
<1>3. OutputFits' /\ ExecutionsFit'
  <2>1. CASE UNCHANGED genVars
    BY <2>1, QuietStep, Unmoved DEF genVars, execVars, jobVars
  <2>2. ASSUME NEW j \in Jobs,
               \/ Post(j) \/ PostAddsRow(j) \/ PostDispatches(j) \/ WebDies(j)
               \/ LoseMessage(j) \/ Receive(j) \/ StartFindsNothing(j) \/ PreflightFails(j)
        PROVE  OutputFits' /\ ExecutionsFit'
    <3>1. UNCHANGED jobVars /\ UNCHANGED <<worker, run, held, items>>
      BY <2>2 DEF Post, PostAddsRow, PostDispatches, WebDies, LoseMessage, Receive,
                  StartFindsNothing, PreflightFails, execVars
    <3> QED
      BY <3>1, QuietStep, Unmoved
  <2>3. ASSUME NEW j \in Jobs, PostCreates(j) \/ ApiRetry(j) \/ ApiCancel(j) \/ LeaseEnds(j)
        PROVE  OutputFits' /\ ExecutionsFit'
    <3>1. /\ UNCHANGED <<worker, run, held, items>>
          /\ \/ CreateJob(j) \/ RetryJob(j) \/ CancelJob(j) \/ LeaseRunsOut(j)
             \/ UNCHANGED jobVars
      BY <2>3 DEF PostCreates, ApiRetry, ApiCancel, LeaseEnds, execVars
    <3> QED
      BY <3>1, QuietStep, Unmoved, BystandersSpare, GenParts
  <2>4. ASSUME NEW j \in Jobs, StartClaims(j) \/ WorkerDies(j)
        PROVE  OutputFits' /\ ExecutionsFit'
    BY <2>4, ClaimStep, DeathStep
  <2>5. ASSUME NEW j \in Jobs, NEW n \in Numbers, WorkStep(j, n)
        PROVE  OutputFits' /\ ExecutionsFit'
    BY <2>5, ReserveStep, StartRunStep, RefuseStep, SuccessStep, RaiseStep, FailureStep,
       ReturnStep DEF WorkStep
  <2>6. CASE Reap
    <3>1. ReapJobs /\ UNCHANGED <<worker, run, held, items>>
      BY <2>6 DEF Reap, execVars
    <3>2. ASSUME NEW i \in Jobs, NEW m \in Numbers
          PROVE  QueueSpares(i, m)
      BY <3>1, BystandersSpare, GenParts
    <3> QED
      BY <3>1, <3>2, QuietStep
  <2> QED
    BY <2>1, <2>2, <2>3, <2>4, <2>5, <2>6, PerAction
<1> QED
  BY <1>1, <1>2, <1>3 DEF GenInv, OutputFits, ExecutionsFit

(* GenInv is an invariant of content generation. *)
THEOREM GenInvariant == GenSpec => []GenInv
<1> QED
  BY GenBegins, GenSteps, PTL DEF GenSpec

(* No count, status or attempt leaves its range, whatever requests race and  *)
(* workers die.                                                              *)
THEOREM GenTypes == GenSpec => []GenTypeOK
<1>1. GenInv => GenTypeOK
  BY DEF GenInv
<1> QED
  BY <1>1, GenInvariant, PTL

(* Output is stored for exactly the attempt a SUCCEEDED job ended with: a    *)
(* worker that lost its job stores nothing.                                  *)
THEOREM ResultIsUnique == GenSpec => []OneResult
<1>1. GenInv => OneResult
  <2> SUFFICES ASSUME GenInv, NEW j \in Jobs
               PROVE  /\ items[j] = IF job[j].status = "SUCCEEDED" THEN {job[j].attempt} ELSE {}
                      /\ \A n \in Numbers : run[j][n] = "SUCCEEDED" <=> n \in items[j]
    BY DEF OneResult
  <2>1. items[j] = {n \in Numbers : attempt[j][n] = "SUCCEEDED"}
    BY DEF GenInv, Execution
  <2>2. ASSUME NEW n \in Numbers, attempt[j][n] = "SUCCEEDED"
        PROVE  n = job[j].attempt /\ job[j].status = "SUCCEEDED"
    <3>1. n = job[j].attempt
      BY <2>2, SoundOf, GenParts DEF History, Numbers
    <3> QED
      BY <2>2, <3>1, SoundOf, GenParts DEF History, LatestFits, NotStarted, Waiting
  <2>3. job[j].status = "SUCCEEDED" => attempt[j][job[j].attempt] = "SUCCEEDED"
    BY SoundOf, GenParts DEF History, LatestFits, NotStarted, Waiting
  <2>4. items[j] = IF job[j].status = "SUCCEEDED" THEN {job[j].attempt} ELSE {}
    BY <2>1, <2>2, <2>3, SoundOf, GenParts
  <2> QED
    BY <2>4 DEF GenInv
<1> QED
  BY <1>1, GenInvariant, PTL

(* An AIRun that ended agrees with the attempt it belongs to.                   *)
THEOREM RunsAreTrue == GenSpec => []RunsAgree
<1>1. GenInv => RunsAgree
  BY GenParts DEF GenInv, Execution, RunsAgree, ExecTypeOK, WorkerStates
<1> QED
  BY <1>1, GenInvariant, PTL

(* Only a dead worker, or an answer to an attempt the reaper had failed, leaves *)
(* an AIRun open or a reservation unsettled.                                    *)
THEOREM StrandingIsExplained == GenSpec => []StrandedOnlyByReaper
<1>1. ASSUME GenInv, NEW j \in Jobs, NEW n \in Numbers
      PROVE  /\ run[j][n] = "RUNNING" \/ held[j][n] =>
                  \/ worker[j][n] \in Active \cup {"dead"}
                  \/ run[j][n] = "RUNNING" /\ held[j][n] /\ attempt[j][n] = "FAILED"
             /\ worker[j][n] \in {"budgeted", "asked", "failing"} => held[j][n]
  <2>1. Execution(j, n) /\ worker[j][n] \in WorkerStates
    BY <1>1, CellOf
  <2> QED
    BY <2>1 DEF Execution, WorkerStates, Active
<1>2. GenInv => StrandedOnlyByReaper
  BY <1>1 DEF StrandedOnlyByReaper
<1> QED
  BY <1>2, GenInvariant, PTL

-----------------------------------------------------------------------------
(* Requests: a recommendation is dispatched at most once, so only one attempt *)
(* of it ever executes, whatever retries its job is granted.                  *)

NeverExecuted(j) == \A n \in Numbers : worker[j][n] = "none"
Underway(j) == web[j]["rowed"] + messages[j] + starting[j]

\* An attempt row is written with the worker that executes it, and not before
\* the job was created and claimed.
AttemptsExecute(j) ==
  /\ \A n \in Numbers : worker[j][n] = "none" <=> attempt[j][n] = "NONE"
  /\ job[j].status \in {"ABSENT", "QUEUED"} => NeverExecuted(j)

DispatchedOnce(j) ==
  /\ Underway(j) <= 1
  /\ Underway(j) > 0 => NeverExecuted(j) /\ rec[j] \notin {"NONE", "FAILED"}
  /\ rec[j] = "NONE" => NeverExecuted(j)
  /\ \A m, n \in Numbers : worker[j][m] # "none" /\ worker[j][n] # "none" => m = n

RowAgrees(j) ==
  /\ rec[j] = "READY" <=> job[j].status = "SUCCEEDED"
  /\ rec[j] = "FAILED" => job[j].status \in {"FAILED", "RETRY_QUEUED", "CANCELED"}

RequestFits(j) ==
  /\ AttemptsExecute(j)
  /\ IsRecommendation(j) => DispatchedOnce(j) /\ RowAgrees(j)

RequestInv == GenInv /\ \A j \in Jobs : RequestFits(j)

LEMMA RequestParts ==
  ASSUME RequestInv, NEW j \in Jobs
  PROVE  /\ GenInv /\ RequestFits(j) /\ AttemptsExecute(j)
         /\ IsRecommendation(j) => DispatchedOnce(j) /\ RowAgrees(j)
         /\ web[j]["rowed"] \in Nat /\ messages[j] \in Nat /\ starting[j] \in Nat
         /\ Underway(j) \in Nat /\ rec[j] \in RecStatus
<1>1. GenInv /\ RequestFits(j) /\ CountTypeOK /\ ExecTypeOK
  BY GenParts DEF RequestInv
<1>2. web[j]["rowed"] \in Nat /\ messages[j] \in Nat /\ starting[j] \in Nat /\ rec[j] \in RecStatus
  BY <1>1 DEF CountTypeOK, ExecTypeOK, Stages
<1> QED
  BY <1>1, <1>2 DEF RequestFits, Underway

\* What most steps leave of a job, of its executions and of its requests.
QueueKeeps(i) ==
  /\ \A m \in Numbers : attempt'[i][m] = "NONE" <=> attempt[i][m] = "NONE"
  /\ job'[i].status \in {"ABSENT", "QUEUED"} => job[i].status \in {"ABSENT", "QUEUED"}
  /\ job'[i].status = "SUCCEEDED" <=> job[i].status = "SUCCEEDED"
  /\ job[i].status \in {"FAILED", "RETRY_QUEUED", "CANCELED"} =>
       job'[i].status \in {"FAILED", "RETRY_QUEUED", "CANCELED"}
ExecutionKeeps(i) == \A m \in Numbers : worker'[i][m] = "none" <=> worker[i][m] = "none"
CountKeeps(i) ==
  IsRecommendation(i) => Underway(i)' <= Underway(i) /\ Underway(i)' \in Nat

LEMMA RequestKept ==
  ASSUME RequestInv, NEW i \in Jobs, QueueKeeps(i), ExecutionKeeps(i), CountKeeps(i),
         rec'[i] = rec[i]
  PROVE  RequestFits(i)'
<1>1. AttemptsExecute(i)'
  BY RequestParts DEF AttemptsExecute, NeverExecuted, QueueKeeps, ExecutionKeeps
<1>2. NeverExecuted(i)' <=> NeverExecuted(i)
  BY DEF NeverExecuted, ExecutionKeeps
<1>3. IsRecommendation(i) => DispatchedOnce(i)'
  <2> HAVE IsRecommendation(i)
  <2>1. Underway(i)' > 0 => Underway(i) > 0
    BY RequestParts DEF CountKeeps
  <2>2. Underway(i) <= 1 => Underway(i)' <= 1
    BY RequestParts DEF CountKeeps
  <2> QED
    BY <1>2, <2>1, <2>2, RequestParts DEF DispatchedOnce, ExecutionKeeps
<1>4. IsRecommendation(i) => RowAgrees(i)'
  BY RequestParts DEF RowAgrees, QueueKeeps
<1> QED
  BY <1>1, <1>3, <1>4 DEF RequestFits, IsRecommendation

LEMMA StillQueue ==
  ASSUME UNCHANGED jobVars
  PROVE  \A i \in Jobs : QueueKeeps(i)
BY DEF jobVars, QueueKeeps

LEMMA BystandersKeep ==
  ASSUME JobInv, NEW j \in Jobs,
         CreateJob(j) \/ RetryJob(j) \/ CancelJob(j) \/ LeaseRunsOut(j) \/ ReapJobs,
         NEW i \in Jobs
  PROVE  QueueKeeps(i)
<1>1. CASE CreateJob(j)
  BY <1>1, SoundOf DEF CreateJob, QueueKeeps, JobTypeOK, JobRow
<1>2. CASE RetryJob(j)
  BY SMTT(30), <1>2, SoundOf DEF RetryJob, QueueKeeps, JobTypeOK, JobRow
<1>3. CASE CancelJob(j)
  <2>1. job[j].owner # 0 => attempt[j][job[j].owner] = "RUNNING" /\ job[j].owner \in Numbers
    BY SoundOf DEF History, LatestFits, NotStarted, Waiting
  <2>2. job[j].status # "SUCCEEDED"
    BY <1>3 DEF CancelJob, Transitions
  <2>3. job'[i].status = IF i = j THEN "CANCELED" ELSE job[i].status
    BY <1>3, SoundOf DEF CancelJob, JobTypeOK, JobRow
  <2>4. \A m \in Numbers : attempt'[i][m] = "NONE" <=> attempt[i][m] = "NONE"
    BY <1>3, <2>1, SoundOf DEF CancelJob, JobTypeOK
  <2> QED
    BY <2>2, <2>3, <2>4 DEF QueueKeeps
<1>4. CASE LeaseRunsOut(j)
  BY <1>4, SoundOf DEF LeaseRunsOut, QueueKeeps, JobTypeOK, JobRow
<1>5. CASE ReapJobs
  <2>1. job'[i].status = IF i \in StaleJobs THEN "FAILED" ELSE job[i].status
    BY <1>5, SoundOf DEF ReapJobs, JobRow
  <2>2. i \in StaleJobs => job[i].status = "RUNNING" /\ attempt[i][job[i].owner] = "RUNNING"
    BY SoundOf DEF StaleJobs, History, LatestFits, NotStarted, Waiting
  <2>3. \A m \in Numbers : attempt'[i][m] = "NONE" <=> attempt[i][m] = "NONE"
    BY <1>5, <2>2 DEF ReapJobs
  <2> QED
    BY <2>1, <2>2, <2>3 DEF QueueKeeps
<1> QED
  BY <1>1, <1>2, <1>3, <1>4, <1>5

LEMMA OwnersKeep ==
  ASSUME JobInv, NEW j \in Jobs, NEW n \in Numbers, NEW i \in Jobs,
         FailJob(j, n) \/ (SucceedJob(j, n) /\ i # j)
  PROVE  QueueKeeps(i)
<1>1. CASE FailJob(j, n)
  <2>1. job[j].status = "RUNNING" /\ attempt[j][n] = "RUNNING"
    BY <1>1, OwnAttempt DEF FailJob
  <2>2. job'[i].status = IF i = j THEN "FAILED" ELSE job[i].status
    BY <1>1, SoundOf DEF FailJob, JobTypeOK, JobRow
  <2>3. \A m \in Numbers : attempt'[i][m] = "NONE" <=> attempt[i][m] = "NONE"
    BY <1>1, <2>1, SoundOf DEF FailJob, JobTypeOK
  <2> QED
    BY <2>1, <2>2, <2>3 DEF QueueKeeps
<1>2. CASE SucceedJob(j, n) /\ i # j
  <2>1. job'[i] = job[i] /\ attempt'[i] = attempt[i]
    BY <1>2, SoundOf DEF SucceedJob, JobTypeOK
  <2> QED
    BY <2>1 DEF QueueKeeps
<1> QED
  BY <1>1, <1>2

LEMMA SameCounts ==
  ASSUME RequestInv, NEW i \in Jobs, UNCHANGED <<web, messages, starting>>
  PROVE  CountKeeps(i)
BY RequestParts DEF CountKeeps, Underway

LEMMA SameWorkers == ASSUME UNCHANGED worker PROVE \A i \in Jobs : ExecutionKeeps(i)
BY DEF ExecutionKeeps

\* Steps that only move a job in the queue.
LEMMA QueueRequests ==
  ASSUME RequestInv, NEW j \in Jobs,
         CreateJob(j) \/ RetryJob(j) \/ CancelJob(j) \/ LeaseRunsOut(j) \/ ReapJobs \/ UNCHANGED jobVars,
         UNCHANGED <<worker, rec>>, \A i \in Jobs : CountKeeps(i),
         NEW i \in Jobs
  PROVE  RequestFits(i)'
<1>1. QueueKeeps(i)
  BY BystandersKeep, StillQueue, RequestParts, GenParts
<1> QED
  BY <1>1, SameWorkers, RequestKept

LEMMA PostRequests ==
  ASSUME RequestInv, NEW j \in Jobs,
         \/ Post(j) \/ PostCreates(j) \/ PostDispatches(j) \/ WebDies(j) \/ LoseMessage(j)
         \/ PreflightFails(j),
         NEW i \in Jobs
  PROVE  CountKeeps(i)
<1> USE RequestParts, GenParts
<1>1. CASE Post(j) \/ PostCreates(j)
  BY SMTT(30), <1>1 DEF Post, PostCreates, CountKeeps, Underway, CountTypeOK, Stages, execVars
<1>2. CASE PostDispatches(j)
  <2>1. web'[i]["rowed"] = IF i = j /\ IsRecommendation(j) THEN web[i]["rowed"] - 1 ELSE web[i]["rowed"]
    BY <1>2 DEF PostDispatches, CountTypeOK, Stages
  <2>2. messages'[i] = IF i = j THEN messages[i] + 1 ELSE messages[i]
    BY <1>2 DEF PostDispatches, CountTypeOK
  <2>3. i = j /\ IsRecommendation(i) => web[i]["rowed"] > 0
    BY <1>2 DEF PostDispatches
  <2>4. starting'[i] = starting[i]
    BY <1>2 DEF PostDispatches
  <2>5. ASSUME IsRecommendation(i)
        PROVE  Underway(i)' <= Underway(i) /\ Underway(i)' \in Nat
    <3>1. CASE i = j
      BY <2>1, <2>2, <2>3, <2>4, <2>5, <3>1 DEF Underway
    <3>2. CASE i # j
      BY <2>1, <2>2, <2>4, <3>2 DEF Underway
    <3> QED
      BY <3>1, <3>2
  <2> QED
    BY <2>5 DEF CountKeeps
<1>3. CASE WebDies(j)
  <2>1. PICK s \in Stages : web[j][s] > 0 /\ web' = [web EXCEPT ![j][s] = web[j][s] - 1]
    BY <1>3 DEF WebDies
  <2>2. web'[i]["rowed"] \in Nat /\ web'[i]["rowed"] <= web[i]["rowed"]
    BY <2>1 DEF CountTypeOK, Stages
  <2> QED
    BY <1>3, <2>2 DEF WebDies, CountKeeps, Underway, execVars
<1>4. CASE LoseMessage(j)
  BY <1>4 DEF LoseMessage, CountKeeps, Underway, CountTypeOK
<1>5. CASE PreflightFails(j)
  BY <1>5 DEF PreflightFails, CountKeeps, Underway, CountTypeOK
<1> QED
  BY <1>1, <1>2, <1>3, <1>4, <1>5

LEMMA RowRequests ==
  ASSUME RequestInv, NEW j \in Jobs, PostAddsRow(j), NEW i \in Jobs
  PROVE  RequestFits(i)'
<1>1. QueueKeeps(i) /\ ExecutionKeeps(i)
  BY StillQueue, SameWorkers DEF PostAddsRow
<1>2. messages'[i] = messages[i] /\ starting'[i] = starting[i]
  BY DEF PostAddsRow
<1>3. CASE rec[j] = "NONE" /\ i = j
  <2>1. rec'[j] = "QUEUED" /\ web'[j]["rowed"] = web[j]["rowed"] + 1
    BY <1>3, RequestParts, GenParts DEF PostAddsRow, CountTypeOK, ExecTypeOK, Stages
  <2>2. DispatchedOnce(j) /\ RowAgrees(j) /\ NeverExecuted(j) /\ Underway(j) = 0
    BY <1>3, RequestParts DEF IsRecommendation, DispatchedOnce
  <2>3. Underway(j)' = 1 /\ NeverExecuted(j)'
    <3>1. Underway(j)' = 1
      <4>1. /\ web[j]["rowed"] \in Nat /\ messages[j] \in Nat /\ starting[j] \in Nat
            /\ web[j]["rowed"] + messages[j] + starting[j] = 0
        BY <2>2, RequestParts DEF Underway
      <4>2. web'[j]["rowed"] + messages'[j] + starting'[j] = 1
        BY <1>2, <1>3, <2>1, <4>1
      <4> QED
        BY <4>2 DEF Underway
    <3>2. NeverExecuted(j)'
      BY <1>1, <1>3, <2>2 DEF NeverExecuted, ExecutionKeeps
    <3> QED
      BY <3>1, <3>2
  <2>4. DispatchedOnce(j)'
    BY <1>1, <2>1, <2>3 DEF DispatchedOnce, NeverExecuted
  <2>5. RowAgrees(j)' /\ AttemptsExecute(j)'
    BY <1>1, <1>3, <2>1, <2>2, RequestParts
       DEF RowAgrees, QueueKeeps, ExecutionKeeps, AttemptsExecute, NeverExecuted
  <2> QED
    BY <1>3, <2>4, <2>5 DEF RequestFits
<1>4. CASE ~(rec[j] = "NONE" /\ i = j)
  <2>0. /\ rec \in [Jobs -> RecStatus] /\ web \in [Jobs -> [Stages -> Nat]]
        /\ {"created", "rowed"} \subseteq Stages
    BY GenParts, RequestParts DEF CountTypeOK, ExecTypeOK, Stages
  <2>1. rec'[i] = rec[i] /\ web'[i]["rowed"] = web[i]["rowed"]
    <3>1. CASE rec[j] = "NONE"
      BY <1>4, <2>0, <3>1 DEF PostAddsRow
    <3>2. CASE rec[j] # "NONE"
      BY <2>0, <3>2 DEF PostAddsRow
    <3> QED
      BY <3>1, <3>2
  <2> QED
    BY <1>1, <1>2, <2>1, RequestKept, RequestParts DEF CountKeeps, Underway
<1> QED
  BY <1>3, <1>4

LEMMA ReceiveRequests ==
  ASSUME RequestInv, NEW j \in Jobs, Receive(j), NEW i \in Jobs
  PROVE  RequestFits(i)'
<1>1. QueueKeeps(i) /\ ExecutionKeeps(i)
  BY StillQueue, SameWorkers DEF Receive
<1>2. Underway(i)' = Underway(i)
  <2>1. /\ messages'[i] = IF i = j THEN messages[i] - 1 ELSE messages[i]
        /\ starting'[i] = IF i = j THEN starting[i] + 1 ELSE starting[i]
        /\ web'[i] = web[i]
    BY GenParts, RequestParts DEF Receive, CountTypeOK
  <2> QED
    BY <2>1, RequestParts DEF Underway
<1>3. CASE rec[j] = "QUEUED" /\ i = j
  <2>1. rec'[j] = "RUNNING"
    BY <1>3, RequestParts, GenParts DEF Receive, ExecTypeOK
  <2>2. DispatchedOnce(j) /\ RowAgrees(j)
    BY <1>3, RequestParts DEF IsRecommendation
  <2>3. DispatchedOnce(j)'
    BY <1>1, <1>2, <1>3, <2>1, <2>2 DEF DispatchedOnce, NeverExecuted, ExecutionKeeps
  <2>4. RowAgrees(j)' /\ AttemptsExecute(j)'
    BY <1>1, <1>3, <2>1, <2>2, RequestParts
       DEF RowAgrees, QueueKeeps, ExecutionKeeps, AttemptsExecute, NeverExecuted
  <2> QED
    BY <1>3, <2>3, <2>4 DEF RequestFits
<1>4. CASE ~(rec[j] = "QUEUED" /\ i = j)
  <2>1. rec'[i] = rec[i]
    BY <1>4, GenParts, RequestParts DEF Receive, ExecTypeOK
  <2> QED
    BY <1>1, <1>2, <2>1, RequestKept, RequestParts DEF CountKeeps
<1> QED
  BY <1>3, <1>4

\* While a first start is underway no attempt has a run to return.
LEMMA NothingToReturn ==
  ASSUME RequestInv, NEW j \in Jobs, IsRecommendation(j), starting[j] > 0
  PROVE  LatestRun(j) = 0
<1>1. NeverExecuted(j)
  BY RequestParts DEF DispatchedOnce, Underway
<1>2. \A n \in Numbers : run[j][n] = "NONE"
  BY <1>1, RequestParts, GenParts DEF NeverExecuted, ExecutionsFit, Execution
<1>3. \A n \in 0..MaxAttempts : n # 0 => n \in Numbers
  BY MaxAttemptsAssumption DEF Numbers
<1>4. \A n \in 0..MaxAttempts :
        ((n # 0 => run[j][n] # "NONE") /\ (\A m \in Numbers : run[j][m] # "NONE" => m <= n))
          <=> n = 0
  BY <1>2, <1>3
<1> QED
  BY <1>4, Bounds DEF LatestRun

LEMMA StartRequests ==
  ASSUME RequestInv, NEW j \in Jobs, StartFindsNothing(j), NEW i \in Jobs
  PROVE  RequestFits(i)'
<1>1. QueueKeeps(i) /\ ExecutionKeeps(i)
  BY StillQueue, SameWorkers DEF StartFindsNothing
<1>2. CountKeeps(i)
  BY GenParts, RequestParts DEF StartFindsNothing, CountTypeOK, Underway, CountKeeps
<1>3. rec'[i] = rec[i]
  BY NothingToReturn, GenParts, RequestParts DEF StartFindsNothing, Marked, ExecTypeOK
<1> QED
  BY <1>1, <1>2, <1>3, RequestKept

LEMMA ClaimRequests ==
  ASSUME RequestInv, NEW j \in Jobs, StartClaims(j), NEW i \in Jobs
  PROVE  RequestFits(i)'
<1>0. PICK n \in Numbers : n = job[j].attempt
  BY SoundOf, GenParts, RequestParts
<1>1. /\ attempt'[i] = IF i = j THEN [attempt[j] EXCEPT ![n] = "RUNNING"] ELSE attempt[i]
      /\ job'[i].status = IF i = j THEN "RUNNING" ELSE job[i].status
      /\ worker'[i] = IF i = j THEN [worker[j] EXCEPT ![n] = "claimed"] ELSE worker[i]
      /\ rec'[i] = rec[i]
  BY <1>0, SoundOf, GenParts, RequestParts DEF StartClaims, ClaimJob, JobTypeOK, JobRow, ExecTypeOK
<1>2. IsRecommendation(i) => Underway(i)' = IF i = j THEN Underway(i) - 1 ELSE Underway(i)
  BY GenParts, RequestParts DEF StartClaims, CountTypeOK, Underway
<1>3. CASE i # j
  BY <1>1, <1>2, <1>3, RequestKept, RequestParts DEF QueueKeeps, ExecutionKeeps, CountKeeps
<1>4. CASE i = j
  <2>1. starting[j] > 0 /\ job[j].status \in Waiting
    BY DEF StartClaims, ClaimJob
  <2>2. \A m \in Numbers : /\ worker'[j][m] = IF m = n THEN "claimed" ELSE worker[j][m]
                           /\ attempt'[j][m] = IF m = n THEN "RUNNING" ELSE attempt[j][m]
    BY <1>1, <1>4, GenParts, RequestParts DEF JobTypeOK, ExecTypeOK
  <2>3. AttemptsExecute(j)'
    BY <1>1, <1>4, <2>2, RequestParts DEF AttemptsExecute, NeverExecuted
  <2>4. ASSUME IsRecommendation(j)
        PROVE  DispatchedOnce(j)' /\ RowAgrees(j)'
    <3>1. Underway(j) = 1 /\ NeverExecuted(j) /\ rec[j] \notin {"NONE", "FAILED"}
      BY <2>1, <2>4, RequestParts DEF DispatchedOnce, Underway
    <3>2. DispatchedOnce(j)'
      BY <1>1, <1>2, <1>4, <2>2, <2>4, <3>1 DEF DispatchedOnce, NeverExecuted
    <3>3. rec[j] # "READY"
      BY <2>1, <2>4, RequestParts DEF RowAgrees, Waiting
    <3> QED
      BY <1>1, <1>4, <3>1, <3>2, <3>3 DEF RowAgrees
  <2> QED
    BY <1>1, <1>4, <2>3, <2>4 DEF RequestFits, IsRecommendation
<1> QED
  BY <1>3, <1>4

-----------------------------------------------------------------------------
(* Requests and the worker after the claim *)

\* A step of the worker that ends nothing well and leaves the row alone.
LEMMA PlainRequests ==
  ASSUME RequestInv, NEW j \in Jobs, NEW n \in Numbers, worker[j][n] \in Active,
         NEW s \in WorkerStates, s # "none", Becomes(j, n, s),
         UNCHANGED <<web, messages, starting>>,
         FailJob(j, n) \/ UNCHANGED jobVars,
         NEW i \in Jobs, rec'[i] = rec[i]
  PROVE  RequestFits(i)'
<1>1. QueueKeeps(i)
  BY StillQueue, OwnersKeep, RequestParts, GenParts
<1>2. ExecutionKeeps(i)
  BY Writes, RequestParts, GenParts DEF ExecutionKeeps, Active
<1> QED
  BY <1>1, <1>2, SameCounts, RequestKept

LEMMA SuccessRequests ==
  ASSUME RequestInv, NEW j \in Jobs, NEW n \in Numbers, RecordSuccess(j, n), ~RecordCanceled(j, n),
         NEW i \in Jobs
  PROVE  RequestFits(i)'
<1>1. /\ SucceedJob(j, n) /\ Becomes(j, n, "returned") /\ worker[j][n] = "asked"
      /\ UNCHANGED <<web, messages, starting>>
      /\ rec' = [rec EXCEPT ![j] = IF IsRecommendation(j) THEN "READY" ELSE rec[j]]
  BY DEF RecordSuccess
<1>2. ExecutionKeeps(i)
  BY <1>1, Writes, RequestParts, GenParts DEF ExecutionKeeps
<1>3. rec'[i] = IF i = j /\ IsRecommendation(j) THEN "READY" ELSE rec[i]
  BY <1>1, RequestParts, GenParts DEF ExecTypeOK
<1>4. CASE i # j
  BY <1>1, <1>2, <1>3, <1>4, OwnersKeep, SameCounts, RequestKept, RequestParts, GenParts
<1>5. CASE i = j
  <2>1. job'[j].status = "SUCCEEDED" /\ attempt[j][n] = "RUNNING"
        /\ \A m \in Numbers : attempt'[j][m] = IF m = n THEN "SUCCEEDED" ELSE attempt[j][m]
    BY <1>1, OwnAttempt, SoundOf, RequestParts, GenParts DEF SucceedJob, JobTypeOK, JobRow
  <2>2. AttemptsExecute(j)'
    BY <1>2, <1>5, <2>1, RequestParts DEF AttemptsExecute, ExecutionKeeps
  <2>3. ASSUME IsRecommendation(j)
        PROVE  DispatchedOnce(j)' /\ RowAgrees(j)'
    <3>1. Underway(j)' = Underway(j) /\ Underway(j) = 0
      BY <1>1, <2>3, RequestParts DEF Underway, DispatchedOnce, NeverExecuted
    <3>2. DispatchedOnce(j)'
      BY <1>2, <1>3, <1>5, <2>3, <3>1, RequestParts DEF DispatchedOnce, ExecutionKeeps
    <3> QED
      BY <1>3, <1>5, <2>1, <2>3, <3>2 DEF RowAgrees
  <2>4. IsRecommendation(j)' => IsRecommendation(j)
    BY <1>3, <1>5 DEF IsRecommendation
  <2> QED
    BY <1>5, <2>2, <2>3, <2>4 DEF RequestFits
<1> QED
  BY <1>4, <1>5

\* The one attempt of a recommendation: what its run says is what became of the job.
LEMMA OnlyAttempt ==
  ASSUME RequestInv, NEW j \in Jobs, NEW n \in Numbers, IsRecommendation(j),
         worker[j][n] # "none", run[j][n] \in {"FAILED", "CANCELED"}
  PROVE  job[j].status \in {"FAILED", "RETRY_QUEUED", "CANCELED"}
<1> DEFINE last == job[j].attempt
<1>1. Execution(j, n) /\ JobInv /\ History(j) /\ last \in Numbers /\ job[j].status \in JobStatus
  BY CellOf, SoundOf, RequestParts DEF JobRow
<1>2. CASE run[j][n] = "CANCELED"
  BY <1>1, <1>2 DEF Execution
<1>3. CASE run[j][n] = "FAILED"
  <2>1. attempt[j][n] = "FAILED"
    BY <1>1, <1>3 DEF Execution
  <2>2. job[j].status \notin {"ABSENT", "QUEUED"}
    BY RequestParts DEF AttemptsExecute, NeverExecuted
  <2>3. ASSUME job[j].status \in {"RUNNING", "SUCCEEDED"}
        PROVE  FALSE
    <3>1. attempt[j][last] = job[j].status
      BY <1>1, <2>3 DEF History, LatestFits, NotStarted, Waiting
    <3>2. worker[j][last] # "none"
      BY <1>1, <2>3, <3>1, RequestParts DEF AttemptsExecute
    <3>3. n = last
      BY <1>1, <3>2, RequestParts DEF DispatchedOnce
    <3> QED
      BY <2>1, <2>3, <3>1, <3>3
  <2> QED
    BY <1>1, <2>2, <2>3 DEF JobStatus
<1> QED
  BY <1>2, <1>3

LEMMA ReturnRequests ==
  ASSUME RequestInv, NEW j \in Jobs, NEW n \in Numbers, TaskReturns(j, n), NEW i \in Jobs
  PROVE  RequestFits(i)'
<1>1. /\ Becomes(j, n, "done") /\ worker[j][n] = "returned"
      /\ UNCHANGED <<web, messages, starting>> /\ UNCHANGED jobVars
  BY DEF TaskReturns
<1>2. rec'[i] = IF i = j THEN Marked(j, run[j][n]) ELSE rec[i]
  BY RequestParts, GenParts DEF TaskReturns, ExecTypeOK
<1>3. CASE rec'[i] = rec[i]
  BY <1>1, <1>3, PlainRequests, StageNames DEF Active
<1>4. CASE rec'[i] # rec[i]
  <2>1. /\ i = j /\ IsRecommendation(j) /\ rec'[j] = "FAILED"
        /\ run[j][n] \in {"FAILED", "CANCELED"}
    BY <1>2, <1>4 DEF Marked
  <2>2. job[j].status \in {"FAILED", "RETRY_QUEUED", "CANCELED"} /\ job'[j] = job[j]
    BY <1>1, <2>1, OnlyAttempt DEF jobVars
  <2>3. QueueKeeps(j) /\ ExecutionKeeps(j)
    BY <1>1, StillQueue, Writes, RequestParts, GenParts DEF ExecutionKeeps
  <2>4. AttemptsExecute(j)'
    BY <2>3, RequestParts DEF AttemptsExecute, NeverExecuted, QueueKeeps, ExecutionKeeps
  <2>5. Underway(j)' = Underway(j) /\ Underway(j) = 0
    BY <1>1, <2>1, RequestParts DEF Underway, DispatchedOnce, NeverExecuted
  <2>6. DispatchedOnce(j)'
    BY <2>1, <2>3, <2>5, RequestParts DEF DispatchedOnce, ExecutionKeeps
  <2>7. RowAgrees(j)'
    BY <2>1, <2>2 DEF RowAgrees
  <2> QED
    BY <2>1, <2>4, <2>6, <2>7 DEF RequestFits
<1> QED
  BY <1>3, <1>4

LEMMA WorkRequests ==
  ASSUME RequestInv, NEW j \in Jobs, NEW n \in Numbers, WorkStep(j, n), NEW i \in Jobs
  PROVE  RequestFits(i)'
<1>1. CASE Reserve(j, n)
  BY <1>1, PlainRequests, StageNames DEF Reserve, Active
<1>2. CASE StartRun(j, n)
  BY <1>2, PlainRequests, StageNames DEF StartRun, Active
<1>3. CASE RefuseJob(j, n)
  BY <1>3, PlainRequests, StageNames DEF RefuseJob, Active
<1>4. CASE FinalizeRaises(j, n)
  BY <1>4, PlainRequests, StageNames DEF FinalizeRaises, Active
<1>5. CASE RecordSuccess(j, n) /\ ~RecordCanceled(j, n)
  BY <1>5, SuccessRequests
<1>6. CASE RecordCanceled(j, n) /\ worker[j][n] \in {"asked", "failing"}
  BY <1>6, PlainRequests, StageNames DEF RecordCanceled, Active
<1>7. CASE RecordFailure(j, n) /\ ~RecordCanceled(j, n)
  BY <1>7, PlainRequests, StageNames DEF RecordFailure, Active
<1>8. CASE TaskReturns(j, n)
  BY <1>8, ReturnRequests
<1>9. RecordSuccess(j, n) \/ RecordFailure(j, n) => worker[j][n] \in {"asked", "failing"}
  BY DEF RecordSuccess, RecordFailure
<1> QED
  BY <1>1, <1>2, <1>3, <1>4, <1>5, <1>6, <1>7, <1>8, <1>9 DEF WorkStep

LEMMA RequestsBegin == GenInit => RequestInv
<1> SUFFICES ASSUME GenInit PROVE RequestInv
  OBVIOUS
<1>1. ASSUME NEW j \in Jobs PROVE RequestFits(j)
  <2>1. /\ rec[j] \in {"NA", "NONE"} /\ job[j].status = "ABSENT" /\ Underway(j) = 0
        /\ \A n \in Numbers : worker[j][n] = "none" /\ attempt[j][n] = "NONE"
    BY DEF GenInit, JobInit, NoJob, Underway, Stages
  <2> QED
    BY <2>1 DEF RequestFits, AttemptsExecute, DispatchedOnce, RowAgrees, NeverExecuted
<1> QED
  BY <1>1, GenBegins DEF RequestInv

LEMMA RequestSteps == RequestInv /\ [GenNext]_genVars => RequestInv'
<1> SUFFICES ASSUME RequestInv, [GenNext]_genVars PROVE RequestInv'
  OBVIOUS
<1>1. GenInv'
  BY GenSteps DEF RequestInv
<1>2. ASSUME NEW i \in Jobs
      PROVE  RequestFits(i)'
  <2>1. CASE UNCHANGED genVars
    BY <2>1, QueueRequests, SameCounts DEF genVars, execVars, jobVars
  <2>2. ASSUME NEW j \in Jobs,
               \/ Post(j) \/ PostCreates(j) \/ PostDispatches(j) \/ WebDies(j) \/ LoseMessage(j)
               \/ PreflightFails(j)
        PROVE  RequestFits(i)'
    <3>1. /\ UNCHANGED <<worker, rec>>
          /\ CreateJob(j) \/ UNCHANGED jobVars
      BY <2>2 DEF Post, PostCreates, PostDispatches, WebDies, LoseMessage, PreflightFails, execVars
    <3> QED
      BY <2>2, <3>1, PostRequests, QueueRequests
  <2>3. ASSUME NEW j \in Jobs, ApiRetry(j) \/ ApiCancel(j) \/ LeaseEnds(j)
        PROVE  RequestFits(i)'
    BY <2>3, SameCounts, QueueRequests DEF ApiRetry, ApiCancel, LeaseEnds, execVars
  <2>4. ASSUME NEW j \in Jobs,
               PostAddsRow(j) \/ Receive(j) \/ StartFindsNothing(j) \/ StartClaims(j)
        PROVE  RequestFits(i)'
    BY <2>4, RowRequests, ReceiveRequests, StartRequests, ClaimRequests
  <2>5. ASSUME NEW j \in Jobs, WorkerDies(j)
        PROVE  RequestFits(i)'
    BY <2>5, PlainRequests, StageNames DEF WorkerDies
  <2>6. ASSUME NEW j \in Jobs, NEW n \in Numbers, WorkStep(j, n)
        PROVE  RequestFits(i)'
    BY <2>6, WorkRequests
  <2>7. CASE Reap
    BY <2>7, SameCounts, QueueRequests DEF Reap, execVars
  <2> QED
    BY <2>1, <2>2, <2>3, <2>4, <2>5, <2>6, <2>7, PerAction
<1> QED
  BY <1>1, <1>2 DEF RequestInv

(* Whatever requests race, a recommendation is dispatched at most once and   *)
(* not before its row exists; it is READY exactly when its job SUCCEEDED and *)
(* FAILED only when no attempt of it will ever run.                          *)
THEOREM RequestsAlwaysAgree == GenSpec => []RequestsAgree
<1>1. ASSUME RequestInv, NEW j \in Jobs, IsRecommendation(j)
      PROVE  /\ Underway(j) <= 1
             /\ Underway(j) = 1 => (\A n \in Numbers : worker[j][n] = "none") /\ rec[j] # "NONE"
             /\ rec[j] = "READY" <=> job[j].status = "SUCCEEDED"
             /\ rec[j] = "FAILED" => job[j].status \in {"FAILED", "RETRY_QUEUED", "CANCELED"}
  BY <1>1, RequestParts DEF DispatchedOnce, RowAgrees, NeverExecuted
<1>2. RequestInv => RequestsAgree
  BY <1>1 DEF RequestsAgree, Underway
<1> QED
  BY <1>2, RequestsBegin, RequestSteps, PTL DEF GenSpec

===============================================================================
