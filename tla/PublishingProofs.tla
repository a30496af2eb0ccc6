--------------------------- MODULE PublishingProofs ---------------------------
(*****************************************************************************)
(* Safety of the publish-task engine, for every set of tasks, contents,      *)
(* accounts and requests and every attempt limit.                            *)
(*                                                                           *)
(* Every action changes the rows of one task, except the two beat entries    *)
(* that sweep several.  So the proof that an action preserves IInv first     *)
(* states what the action does to the rows of its task, field by field, then *)
(* derives each part of the invariant from those facts; UntouchedTaskKeeps   *)
(* covers every other task.  Audited adds to IInv what an attempt's outcome  *)
(* and its call say of each other, for the validator and the orphan posts.   *)
(*****************************************************************************)
EXTENDS Publishing, TLAPS

TaskInv(t) == LeaseInv(t) /\ HistoryInv(t) /\ CallInv(t) /\ PostInv(t) /\ MessageInv(t)

-----------------------------------------------------------------------------
(* The records the engine writes *)

LEMMA Entries ==
  /\ NoAttempt \in AttemptRow /\ NoAttempt.status = "NONE"
  /\ RunningAttempt \in AttemptRow /\ RunningAttempt.status = "RUNNING"
  /\ SucceededAttempt \in AttemptRow /\ SucceededAttempt.status = "SUCCEEDED"
  /\ SucceededAttempt.retry_at = "none"
  /\ CanceledAttempt \in AttemptRow /\ CanceledAttempt.status = "CANCELED"
  /\ CanceledAttempt.retry_at = "none"
  /\ StaleAttempt \in AttemptRow
  /\ ReapedAttempt \in AttemptRow /\ ReapedAttempt.status = "FAILED"
  /\ ReapedAttempt.error = "STALE_WORKER" /\ ReapedAttempt.retry_at = "none"
BY DEF NoAttempt, RunningAttempt, SucceededAttempt, CanceledAttempt, StaleAttempt, ReapedAttempt,
       Entry, AttemptRow, AttemptStatus, SafeErrors

LEMMA FailedEntry ==
  ASSUME NEW e \in SafeErrors, NEW r \in {"none", "waiting", "elapsed"}
  PROVE  /\ FailedAttempt(e, r) \in AttemptRow
         /\ FailedAttempt(e, r).status = "FAILED"
         /\ FailedAttempt(e, r).error = e
         /\ FailedAttempt(e, r).retry_at = r
BY DEF FailedAttempt, Entry, AttemptRow, AttemptStatus

LEMMA Instants ==
  /\ 0 \in 0..MaxAttempts /\ 0 \in 0..Alone /\ Alone \in 0..Alone
  /\ \A n \in Numbers : n \in 0..MaxAttempts /\ n \in 0..Alone /\ n \in Nat /\ n # 0
  /\ \A n \in 0..MaxAttempts : n \in 0..Alone /\ n \in Nat /\ (n # 0 => n \in Numbers)
BY MaxAttemptsAssumption DEF Numbers, Alone

LEMMA InitEstablishes == Init => IInv
<1> SUFFICES ASSUME Init PROVE IInv
  OBVIOUS
<1>1. task \in [Tasks -> TaskRow]
  BY Instants DEF Init, NoTask, TaskRow, TaskStatus
<1>2. attempt \in [Tasks -> [Numbers -> AttemptRow]]
  BY Entries DEF Init
<1>3. /\ content \in [Contents -> ContentRow] /\ ready \in [Accounts -> BOOLEAN]
      /\ messages \in [Tasks -> Nat] /\ lost \subseteq Tasks /\ call \in [Tasks -> [Numbers -> CallStates]]
  BY DEF Init, ContentRow, CallStates
<1>4. /\ post \in [Tasks -> 0..MaxAttempts] /\ external \in [Tasks -> SUBSET Numbers]
      /\ request \in [Requests -> (Operations \X Tasks) \cup {Free}]
  BY Instants DEF Init
<1>5. TypeOK
  BY <1>1, <1>2, <1>3, <1>4 DEF TypeOK
<1>6. ASSUME NEW t \in Tasks
      PROVE  LeaseInv(t) /\ PostInv(t) /\ MessageInv(t)
  BY MaxAttemptsAssumption DEF Init, LeaseInv, PostInv, MessageInv, NoTask
<1>7. ASSUME NEW t \in Tasks
      PROVE  HistoryInv(t)
  BY MaxAttemptsAssumption, Entries DEF Init, HistoryInv, NoTask, Numbers
<1>8. ASSUME NEW t \in Tasks
      PROVE  CallInv(t)
  BY DEF Init, CallInv
<1> QED
  BY <1>5, <1>6, <1>7, <1>8 DEF IInv

-----------------------------------------------------------------------------
(* Frames *)

LEMMA UntouchedTaskKeeps ==
  ASSUME NEW u \in Tasks, TaskInv(u),
         task'[u] = task[u], attempt'[u] = attempt[u], post'[u] = post[u],
         messages'[u] = messages[u], u \in lost' <=> u \in lost,
         call'[u] = call[u], external'[u] = external[u],
         content[ContentOf[u]].status \in {"PUBLISHED", "ARCHIVED"}
           => content'[ContentOf[u]].status \in {"PUBLISHED", "ARCHIVED"}
  PROVE  TaskInv(u)'
<1>1. LeaseInv(u)' /\ MessageInv(u)'
  BY DEF TaskInv, LeaseInv, MessageInv
<1>2. HistoryInv(u)'
  BY DEF TaskInv, HistoryInv
<1>3. CallInv(u)'
  BY DEF TaskInv, CallInv
<1>4. PostInv(u)'
  BY DEF TaskInv, PostInv, Latest
<1> QED
  BY <1>1, <1>2, <1>3, <1>4 DEF TaskInv

\* What the invariant says of one task, with the types its rows have.
LEMMA Rows ==
  ASSUME IInv, NEW t \in Tasks
  PROVE  /\ TypeOK /\ TaskInv(t) /\ LeaseInv(t)
         /\ task[t] \in TaskRow /\ task[t].number \in 0..MaxAttempts
         /\ task[t].owner \in 0..MaxAttempts /\ messages[t] \in Nat
         /\ lost \subseteq Tasks
BY DEF IInv, TaskInv, TypeOK, TaskRow

\* A step inside one task that keeps the types and that task's invariant.
LEMMA OneTaskSteps ==
  ASSUME IInv, NEW t \in Tasks, TypeOK', TaskInv(t)',
         \A u \in Tasks \ {t} :
           /\ task'[u] = task[u] /\ attempt'[u] = attempt[u] /\ post'[u] = post[u]
           /\ messages'[u] = messages[u] /\ (u \in lost' <=> u \in lost)
           /\ call'[u] = call[u] /\ external'[u] = external[u],
         UNCHANGED content
  PROVE  IInv'
<1>1. ASSUME NEW u \in Tasks \ {t}
      PROVE  TaskInv(u)'
  BY UntouchedTaskKeeps, Rows
<1> QED
  BY <1>1 DEF IInv, TaskInv

-----------------------------------------------------------------------------
(* Creation, schedule and API actions *)

LEMMA CreatePreserves ==
  ASSUME IInv, NEW t \in Tasks, NEW scheduled \in BOOLEAN, CreatePublishTask(t, scheduled)
  PROVE  IInv'
<1>1. /\ task[t].status = "ABSENT" /\ task[t].number = 0 /\ task[t].owner = 0
      /\ messages[t] = 0 /\ post[t] = 0
  BY Rows DEF CreatePublishTask, TaskInv, LeaseInv, PostInv, MessageInv
<1>2. /\ UNCHANGED <<attempt, post, content, ready, external, call, request>>
      /\ \A u \in Tasks \ {t} : /\ task'[u] = task[u] /\ messages'[u] = messages[u]
                                /\ u \in lost' <=> u \in lost
      /\ lost' \subseteq Tasks
  BY Rows DEF CreatePublishTask, Dispatch, envVars, queueVars, TypeOK
<1>3. /\ task'[t].status = (IF scheduled THEN "SCHEDULED" ELSE "QUEUED")
      /\ task'[t].number = 0 /\ task'[t].owner = 0
      /\ messages'[t] = (IF scheduled THEN 0 ELSE 1)
      /\ ~scheduled => t \notin lost'
  BY SMTT(30), <1>1, Rows DEF CreatePublishTask, Dispatch, queueVars, TypeOK, TaskRow
<1>4. task' \in [Tasks -> TaskRow]
  <2>1. [task[t] EXCEPT !.status = "SCHEDULED", !.slot = "future"] \in TaskRow
    BY Rows DEF TaskRow, TaskStatus
  <2>2. [task[t] EXCEPT !.status = "QUEUED"] \in TaskRow
    BY Rows DEF TaskRow, TaskStatus
  <2> QED
    BY <2>1, <2>2, Rows DEF CreatePublishTask, TypeOK
<1>5. TypeOK'
  <2>1. messages' \in [Tasks -> Nat]
    <3>1. messages \in [Tasks -> Nat]
      BY Rows DEF TypeOK
    <3>2. messages' = messages \/ messages' = [messages EXCEPT ![t] = @ + 1]
      BY DEF CreatePublishTask, Dispatch, queueVars
    <3> QED
      BY <3>1, <3>2
  <2> QED
    BY <2>1, <1>2, <1>4, Rows DEF TypeOK
<1>6. LeaseInv(t)' /\ MessageInv(t)' /\ PostInv(t)'
  BY <1>1, <1>2, <1>3, MaxAttemptsAssumption DEF LeaseInv, MessageInv, PostInv
<1>7. HistoryInv(t)' /\ CallInv(t)'
  BY <1>1, <1>2, <1>3, Rows, Instants DEF TaskInv, HistoryInv, CallInv
<1>8. \A u \in Tasks \ {t} :
       /\ task'[u] = task[u] /\ attempt'[u] = attempt[u] /\ post'[u] = post[u]
       /\ messages'[u] = messages[u] /\ (u \in lost' <=> u \in lost)
       /\ call'[u] = call[u] /\ external'[u] = external[u]
  BY <1>2
<1> QED
  BY <1>2, <1>5, <1>6, <1>7, <1>8, OneTaskSteps DEF TaskInv

LEMMA EnqueueDuePreserves ==
  ASSUME IInv, EnqueueDue
  PROVE  IInv'
<1>1. UNCHANGED <<attempt, post, content, ready, external, call, request>>
  BY DEF EnqueueDue, envVars, queueVars
<1>2. task' \in [Tasks -> TaskRow]
  <2>1. ASSUME NEW t \in Tasks
        PROVE  [task[t] EXCEPT !.status = "QUEUED"] \in TaskRow
    BY Rows DEF TaskRow, TaskStatus
  <2> QED
    BY <2>1 DEF EnqueueDue, IInv, TypeOK
<1>3. TypeOK'
  <2>1. messages' \in [Tasks -> Nat]
    BY DEF EnqueueDue, IInv, TypeOK
  <2>2. lost' \subseteq Tasks
    BY DEF EnqueueDue, IInv, TypeOK
  <2> QED
    BY <2>1, <2>2, <1>1, <1>2 DEF IInv, TypeOK
<1>4. ASSUME NEW t \in Tasks
      PROVE  TaskInv(t)'
  <2>1. CASE t \notin Due
    <3>1. task'[t] = task[t] /\ messages'[t] = messages[t] /\ (t \in lost' <=> t \in lost)
      BY <2>1, Rows DEF EnqueueDue
    <3> QED
      BY <3>1, <1>1, Rows, UntouchedTaskKeeps
  <2>2. CASE t \in Due
    <3>1. /\ task[t].status = "SCHEDULED" /\ task[t].number = 0 /\ task[t].owner = 0
          /\ messages[t] = 0 /\ post[t] = 0
      BY <2>2, Rows DEF Due, TaskInv, LeaseInv, PostInv, MessageInv
    <3>2. /\ task'[t].status = "QUEUED" /\ task'[t].number = 0 /\ task'[t].owner = 0
          /\ messages'[t] = 1 /\ t \notin lost'
      BY <2>2, <3>1, Rows DEF EnqueueDue, TaskRow
    <3>3. LeaseInv(t)' /\ MessageInv(t)' /\ PostInv(t)'
      BY <1>1, <3>1, <3>2, MaxAttemptsAssumption DEF LeaseInv, MessageInv, PostInv
    <3>4. HistoryInv(t)' /\ CallInv(t)'
      BY <1>1, <3>1, <3>2, Rows, Instants DEF TaskInv, HistoryInv, CallInv
    <3> QED
      BY <3>3, <3>4 DEF TaskInv
  <2> QED
    BY <2>1, <2>2
<1> QED
  BY <1>3, <1>4 DEF IInv, TaskInv

\* The steps that touch no row of any task.
LEMMA IdleStepPreserves ==
  ASSUME IInv, TypeOK', UNCHANGED <<task, attempt, post, content, external, messages, lost, call>>
  PROVE  IInv'
<1>1. ASSUME NEW u \in Tasks
      PROVE  TaskInv(u)'
  BY UntouchedTaskKeeps, Rows
<1> QED
  BY <1>1 DEF IInv, TaskInv

LEMMA AdmitPreserves ==
  ASSUME IInv, NEW r \in Requests, NEW op \in Operations, NEW t \in Tasks,
         Admit(r, op, t) \/ Refuse(r, op, t)
  PROVE  IInv'
<1>1. UNCHANGED <<task, attempt, post, content, ready, external, messages, lost, call>>
  BY DEF Admit, Refuse, taskVars, envVars, queueVars
<1>2. request' \in [Requests -> (Operations \X Tasks) \cup {Free}]
  BY DEF Admit, Refuse, Serve, IInv, TypeOK
<1>3. TypeOK'
  BY <1>1, <1>2 DEF IInv, TypeOK
<1> QED
  BY <1>1, <1>3, IdleStepPreserves

LEMMA CancelPreserves ==
  ASSUME IInv, NEW r \in Requests, NEW t \in Tasks, Cancel(r, t)
  PROVE  IInv'
<1> DEFINE token == task[t].owner
<1>1. /\ task[t].status \in {"SCHEDULED", "QUEUED", "RUNNING"} /\ post[t] = 0
      /\ token \in 0..MaxAttempts /\ (token # 0 => token = task[t].number /\ token \in Numbers)
  BY Rows, Instants DEF Cancel, CanCancel, TaskInv, LeaseInv, PostInv
<1>2. /\ UNCHANGED <<post, content, ready, external, messages, lost, call>>
      /\ \A u \in Tasks \ {t} : task'[u] = task[u] /\ attempt'[u] = attempt[u]
  BY Rows DEF Cancel, envVars, queueVars, TypeOK
<1>3. /\ task'[t].status = "CANCELED" /\ task'[t].owner = 0 /\ task'[t].number = task[t].number
      /\ \A n \in Numbers : attempt'[t][n] = IF n = token THEN CanceledAttempt ELSE attempt[t][n]
  BY <1>1, Rows, Instants DEF Cancel, TypeOK, TaskRow
<1>4. task' \in [Tasks -> TaskRow]
  <2>1. (IF token = 0 THEN Alone ELSE token) \in 0..Alone
    BY <1>1, Instants
  <2> HIDE DEF token
  <2>2. [task[t] EXCEPT !.status = "CANCELED", !.owner = 0,
                        !.finished = IF token = 0 THEN Alone ELSE token] \in TaskRow
    BY ZenonT(60), <2>1, Rows, Instants DEF TaskRow, TaskStatus
  <2> QED
    BY <2>2, Rows DEF Cancel, TypeOK, token
<1>5. attempt' \in [Tasks -> [Numbers -> AttemptRow]]
  BY Rows, Entries DEF Cancel, TypeOK
<1>6. request' \in [Requests -> (Operations \X Tasks) \cup {Free}]
  BY Rows DEF Cancel, Serve, TypeOK
<1>7. TypeOK'
  BY <1>2, <1>4, <1>5, <1>6, Rows DEF TypeOK
<1>8. LeaseInv(t)' /\ MessageInv(t)' /\ PostInv(t)'
  BY <1>1, <1>2, <1>3, Rows DEF TaskInv, LeaseInv, MessageInv, PostInv
<1>9. HistoryInv(t)'
  <2>1. token = 0 /\ task[t].number # 0 => task[t].status = "QUEUED"
    BY <1>1, Rows DEF LeaseInv
  <2>2. ASSUME NEW n \in Numbers
        PROVE  /\ n # token => attempt[t][n].status # "RUNNING"
               /\ n = task[t].number /\ n # token => attempt[t][n].retry_at # "waiting"
    BY <1>1, <2>1, Rows, Instants DEF TaskInv, HistoryInv
  <2>3. ASSUME NEW n \in Numbers, n = token
        PROVE  attempt'[t][n] = CanceledAttempt /\ n = task[t].number
    BY <1>1, <1>3, <2>3, Instants
  <2>4. ASSUME NEW n \in Numbers, n # token
        PROVE  attempt'[t][n] = attempt[t][n]
    BY <1>3, <2>4
  <2> HIDE DEF token
  <2> QED
    BY <1>3, <2>2, <2>3, <2>4, Rows, Instants, Entries DEF TaskInv, HistoryInv
<1>10. CallInv(t)'
  BY <1>2, <1>3, Rows DEF TaskInv, CallInv
<1> QED
  BY <1>2, <1>7, <1>8, <1>9, <1>10, OneTaskSteps DEF TaskInv

LEMMA RetryPreserves ==
  ASSUME IInv, NEW r \in Requests, NEW t \in Tasks, Retry(r, t)
  PROVE  IInv'
<1>1. /\ task[t].status = "FAILED" /\ task[t].number < MaxAttempts /\ task[t].owner = 0
      /\ task[t].error # "TOKEN_EXPIRED" /\ post[t] = 0 /\ messages[t] = 0
      /\ task[t].number \in Numbers
      /\ task[t].retry # 0 => attempt[t][task[t].retry].retry_at = "elapsed"
  BY Rows, Instants DEF Retry, CanRetry, TaskInv, LeaseInv, PostInv, MessageInv
<1>2. /\ UNCHANGED <<attempt, post, content, ready, external, call>>
      /\ \A u \in Tasks \ {t} : /\ task'[u] = task[u] /\ messages'[u] = messages[u]
                                /\ u \in lost' <=> u \in lost
      /\ lost' \subseteq Tasks /\ t \notin lost'
  BY Rows DEF Retry, Dispatch, envVars, queueVars, TypeOK
<1>3. /\ task'[t].status = "QUEUED" /\ task'[t].owner = 0 /\ task'[t].number = task[t].number
      /\ messages'[t] = 1
  BY <1>1, Rows DEF Retry, Dispatch, TypeOK, TaskRow
<1>4. task' \in [Tasks -> TaskRow]
  <2>1. [task[t] EXCEPT !.status = "QUEUED", !.error = "none", !.retry = 0, !.finished = 0] \in TaskRow
    BY ZenonT(60), Rows, Instants DEF TaskRow, TaskStatus
  <2> QED
    BY <2>1, Rows DEF Retry, TypeOK
<1>5. /\ messages' \in [Tasks -> Nat]
      /\ request' \in [Requests -> (Operations \X Tasks) \cup {Free}]
  BY Rows DEF Retry, Serve, Dispatch, TypeOK
<1>6. TypeOK'
  BY <1>2, <1>4, <1>5, Rows DEF TypeOK
<1>7. LeaseInv(t)' /\ MessageInv(t)' /\ PostInv(t)'
  BY <1>1, <1>2, <1>3 DEF LeaseInv, MessageInv, PostInv
<1>8. attempt[t][task[t].number].retry_at # "waiting"
  BY <1>1, Rows, Instants DEF TaskInv, HistoryInv
<1>9. HistoryInv(t)'
  BY <1>1, <1>2, <1>3, <1>8, Rows, Instants DEF TaskInv, HistoryInv
<1>10. CallInv(t)'
  BY <1>2, <1>3, Rows DEF TaskInv, CallInv
<1>11. \A u \in Tasks \ {t} :
       /\ task'[u] = task[u] /\ attempt'[u] = attempt[u] /\ post'[u] = post[u]
       /\ messages'[u] = messages[u] /\ (u \in lost' <=> u \in lost)
       /\ call'[u] = call[u] /\ external'[u] = external[u]
  BY <1>2
<1> QED
  BY <1>2, <1>6, <1>7, <1>9, <1>10, <1>11, OneTaskSteps DEF TaskInv

LEMMA RunNowPreserves ==
  ASSUME IInv, NEW r \in Requests, NEW t \in Tasks, RunNow(r, t)
  PROVE  IInv'
<1>1. /\ task[t].status = "SCHEDULED" /\ task[t].number = 0 /\ task[t].owner = 0
      /\ messages[t] = 0 /\ post[t] = 0
  BY Rows DEF RunNow, CanRunNow, TaskInv, LeaseInv, PostInv, MessageInv
<1>2. /\ UNCHANGED <<attempt, post, content, ready, external, call>>
      /\ \A u \in Tasks \ {t} : /\ task'[u] = task[u] /\ messages'[u] = messages[u]
                                /\ u \in lost' <=> u \in lost
      /\ lost' \subseteq Tasks /\ t \notin lost'
  BY Rows DEF RunNow, Dispatch, envVars, queueVars, TypeOK
<1>3. /\ task'[t].status = "QUEUED" /\ task'[t].number = 0 /\ task'[t].owner = 0
      /\ messages'[t] = 1
  BY <1>1, Rows DEF RunNow, Dispatch, TypeOK, TaskRow
<1>4. /\ task' \in [Tasks -> TaskRow] /\ messages' \in [Tasks -> Nat]
      /\ request' \in [Requests -> (Operations \X Tasks) \cup {Free}]
  <2>1. [task[t] EXCEPT !.status = "QUEUED"] \in TaskRow
    BY Rows DEF TaskRow, TaskStatus
  <2>2. messages' \in [Tasks -> Nat] /\ request' \in [Requests -> (Operations \X Tasks) \cup {Free}]
    BY Rows DEF RunNow, Serve, Dispatch, TypeOK
  <2> QED
    BY <2>1, <2>2, Rows DEF RunNow, TypeOK
<1>5. TypeOK'
  BY <1>2, <1>4, Rows DEF TypeOK
<1>6. LeaseInv(t)' /\ MessageInv(t)' /\ PostInv(t)'
  BY <1>1, <1>2, <1>3, MaxAttemptsAssumption DEF LeaseInv, MessageInv, PostInv
<1>7. HistoryInv(t)' /\ CallInv(t)'
  BY <1>1, <1>2, <1>3, Rows, Instants DEF TaskInv, HistoryInv, CallInv
<1>8. \A u \in Tasks \ {t} :
       /\ task'[u] = task[u] /\ attempt'[u] = attempt[u] /\ post'[u] = post[u]
       /\ messages'[u] = messages[u] /\ (u \in lost' <=> u \in lost)
       /\ call'[u] = call[u] /\ external'[u] = external[u]
  BY <1>2
<1> QED
  BY <1>2, <1>5, <1>6, <1>7, <1>8, OneTaskSteps DEF TaskInv

-----------------------------------------------------------------------------
(* Workers *)

LEMMA ClaimPreserves ==
  ASSUME IInv, NEW t \in Tasks, Claim(t)
  PROVE  IInv'
<1> DEFINE n == task[t].number + 1
<1>1. /\ task[t].status = "QUEUED" /\ post[t] = 0 /\ task[t].owner = 0 /\ messages[t] = 1
      /\ task[t].number \in Nat /\ n \in Numbers
  BY SMTT(30), Rows, MaxAttemptsAssumption
  DEF Claim, Claimable, Receive, TaskInv, LeaseInv, MessageInv, Numbers
<1>2. /\ UNCHANGED <<post, content, ready, external, lost, request>>
      /\ \A u \in Tasks \ {t} : /\ task'[u] = task[u] /\ attempt'[u] = attempt[u]
                               /\ messages'[u] = messages[u] /\ call'[u] = call[u]
  BY Rows DEF Claim, Receive, Becomes, envVars, queueVars, TypeOK
<1>3. /\ task'[t].status = "RUNNING" /\ task'[t].owner = n /\ task'[t].number = n
      /\ messages'[t] = 0
  BY SMTT(30), <1>1, Rows DEF Claim, Receive, TypeOK, TaskRow
<1>4. \A m \in Numbers : /\ attempt'[t][m] = IF m = n THEN RunningAttempt ELSE attempt[t][m]
                        /\ call'[t][m] = IF m = n THEN "calling" ELSE call[t][m]
  BY <1>1, Rows DEF Claim, Becomes, TypeOK
<1>5. task' \in [Tasks -> TaskRow]
  <2>1. n \in 0..MaxAttempts /\ n \in 0..Alone
    BY <1>1, Instants
  <2>2. task' = [task EXCEPT ![t] = [task[t] EXCEPT !.status = "RUNNING", !.owner = n, !.number = n, !.lease = "live",
                        !.started = n, !.finished = 0, !.error = "none"]]
    BY DEF Claim
  <2> HIDE DEF n
  <2>3. [task[t] EXCEPT !.status = "RUNNING", !.owner = n, !.number = n, !.lease = "live",
                        !.started = n, !.finished = 0, !.error = "none"] \in TaskRow
    BY <2>1, Rows, Instants DEF TaskRow, TaskStatus
  <2> QED
    BY <2>2, <2>3, Rows DEF TypeOK
<1>6. /\ attempt' \in [Tasks -> [Numbers -> AttemptRow]]
      /\ call' \in [Tasks -> [Numbers -> CallStates]]
      /\ messages' \in [Tasks -> Nat]
  BY <1>1, Rows, Entries DEF Claim, Receive, Becomes, TypeOK, CallStates
<1>7. TypeOK'
  BY <1>2, <1>5, <1>6, Rows DEF TypeOK
<1>8. LeaseInv(t)' /\ MessageInv(t)' /\ PostInv(t)'
  BY <1>1, <1>2, <1>3, Instants DEF LeaseInv, MessageInv, PostInv
<1>9. HistoryInv(t)'
  BY SMTT(30), <1>1, <1>3, <1>4, Rows, Entries DEF TaskInv, HistoryInv, Numbers
<1>10. CallInv(t)'
  BY <1>1, <1>2, <1>3, <1>4, Rows DEF TaskInv, CallInv, Numbers
<1> QED
  BY <1>2, <1>7, <1>8, <1>9, <1>10, OneTaskSteps DEF TaskInv

LEMMA ClaimIneligiblePreserves ==
  ASSUME IInv, NEW t \in Tasks, ClaimIneligible(t)
  PROVE  IInv'
<1> DEFINE n == task[t].number + 1
           burned == FailedAttempt("PUBLISH_NOT_ELIGIBLE", "none")
<1>1. /\ task[t].status = "QUEUED" /\ post[t] = 0 /\ task[t].owner = 0 /\ messages[t] = 1
      /\ task[t].number \in Nat /\ n \in Numbers
  BY Rows, MaxAttemptsAssumption
  DEF ClaimIneligible, Claimable, Receive, TaskInv, LeaseInv, MessageInv, Numbers
<1>2. /\ UNCHANGED <<post, content, ready, external, lost, call, request>>
      /\ \A u \in Tasks \ {t} : /\ task'[u] = task[u] /\ attempt'[u] = attempt[u]
                               /\ messages'[u] = messages[u]
  BY Rows DEF ClaimIneligible, Receive, envVars, queueVars, TypeOK
<1>3. /\ burned \in AttemptRow /\ burned.status = "FAILED"
      /\ burned.error = "PUBLISH_NOT_ELIGIBLE" /\ burned.retry_at = "none"
  BY FailedEntry DEF SafeErrors, ProviderErrors
<1> HIDE DEF burned
<1>4. /\ task'[t].status = "FAILED" /\ task'[t].owner = 0 /\ task'[t].number = n
      /\ task'[t].error = "PUBLISH_NOT_ELIGIBLE" /\ messages'[t] = 0
  BY SMTT(30), <1>1, Rows DEF ClaimIneligible, Receive, TypeOK, TaskRow
<1>5. \A m \in Numbers : attempt'[t][m] = IF m = n THEN burned ELSE attempt[t][m]
  BY <1>1, Rows DEF ClaimIneligible, TypeOK, burned
<1>6. task' \in [Tasks -> TaskRow]
  <2>1. n \in 0..MaxAttempts /\ n \in 0..Alone
    BY <1>1, Instants
  <2>2. task' = [task EXCEPT ![t] = [task[t] EXCEPT !.status = "FAILED", !.owner = 0, !.number = n, !.started = n, !.finished = n,
                        !.error = "PUBLISH_NOT_ELIGIBLE", !.retry = 0]]
    BY DEF ClaimIneligible
  <2> HIDE DEF n
  <2>3. [task[t] EXCEPT !.status = "FAILED", !.owner = 0, !.number = n, !.started = n, !.finished = n,
                        !.error = "PUBLISH_NOT_ELIGIBLE", !.retry = 0] \in TaskRow
    BY ZenonT(60), <2>1, Rows, Instants DEF TaskRow, TaskStatus, SafeErrors, ProviderErrors
  <2> QED
    BY <2>2, <2>3, Rows DEF TypeOK
<1>7. /\ attempt' \in [Tasks -> [Numbers -> AttemptRow]]
      /\ messages' \in [Tasks -> Nat]
  BY <1>1, <1>3, Rows DEF ClaimIneligible, Receive, TypeOK, burned
<1>8. TypeOK'
  BY <1>2, <1>6, <1>7, Rows DEF TypeOK
<1>9. LeaseInv(t)' /\ MessageInv(t)' /\ PostInv(t)'
  BY <1>1, <1>2, <1>4, Instants DEF LeaseInv, MessageInv, PostInv
<1>10. HistoryInv(t)'
  BY <1>1, <1>3, <1>4, <1>5, Rows DEF TaskInv, HistoryInv, Numbers
<1>11. CallInv(t)'
  BY <1>1, <1>2, <1>4, Rows DEF TaskInv, CallInv, Numbers
<1> QED
  BY <1>2, <1>8, <1>9, <1>10, <1>11, OneTaskSteps DEF TaskInv

\* The message is gone and nothing else moves.
LEMMA MessageGonePreserves ==
  ASSUME IInv, NEW t \in Tasks, ClaimNothing(t) \/ LoseMessage(t)
  PROVE  IInv'
<1>1. /\ UNCHANGED <<task, attempt, post, content, ready, external, call, request>>
      /\ \A u \in Tasks \ {t} : messages'[u] = messages[u] /\ (u \in lost' <=> u \in lost)
      /\ messages[t] = 1 /\ messages'[t] = 0 /\ lost' \subseteq Tasks
  BY Rows DEF ClaimNothing, LoseMessage, Receive, taskVars, envVars, queueVars, TypeOK, TaskInv, MessageInv
<1>2. TypeOK'
  <2>1. messages' \in [Tasks -> Nat]
    BY SMTT(30), <1>1, Rows DEF ClaimNothing, LoseMessage, Receive, TypeOK
  <2> QED
    BY <1>1, <2>1, Rows DEF TypeOK
<1>3. task[t].status = "QUEUED" => t \in lost'
  BY Rows DEF ClaimNothing, LoseMessage, Claimable, TaskInv, PostInv
<1>4. LeaseInv(t)' /\ MessageInv(t)' /\ PostInv(t)' /\ HistoryInv(t)' /\ CallInv(t)'
  BY <1>1, <1>3, Rows DEF TaskInv, LeaseInv, MessageInv, PostInv, HistoryInv, CallInv, Latest
<1> QED
  BY <1>1, <1>2, <1>4, OneTaskSteps DEF TaskInv

\* A worker moves on, or dies, without writing a row.
LEMMA WorkerMovesPreserves ==
  ASSUME IInv, NEW t \in Tasks, NEW n \in Numbers,
         ProviderAccepts(t, n) \/ FinalizeRaises(t, n) \/ WorkerDies(t, n)
  PROVE  IInv'
<1>1. /\ UNCHANGED <<task, attempt, post, content, ready, messages, lost, request>>
      /\ \A u \in Tasks \ {t} : call'[u] = call[u] /\ external'[u] = external[u]
      /\ \A m \in Numbers \ {n} : call'[t][m] = call[t][m]
      /\ external[t] \subseteq external'[t]
  BY Rows DEF ProviderAccepts, FinalizeRaises, WorkerDies, Becomes, taskVars, envVars, queueVars, TypeOK
<1>2. /\ call[t][n] # "none"
      /\ call'[t][n] = "accepted" => n \in external'[t]
  BY Rows DEF ProviderAccepts, FinalizeRaises, WorkerDies, Becomes, TypeOK
<1>3. call' \in [Tasks -> [Numbers -> CallStates]]
  <2>1. PICK state \in CallStates : Becomes(t, n, state)
    BY DEF ProviderAccepts, FinalizeRaises, WorkerDies, CallStates
  <2> QED
    BY <2>1, Rows DEF Becomes, TypeOK
<1>4. TypeOK'
  <2>1. external' \in [Tasks -> SUBSET Numbers]
    BY Rows DEF ProviderAccepts, FinalizeRaises, WorkerDies, TypeOK
  <2> QED
    BY <2>1, <1>1, <1>3, Rows DEF TypeOK
<1>5. LeaseInv(t)' /\ MessageInv(t)' /\ HistoryInv(t)'
  BY <1>1, Rows DEF TaskInv, LeaseInv, MessageInv, HistoryInv
<1>6. PostInv(t)'
  BY <1>1, Rows DEF TaskInv, PostInv, Latest
<1>7. CallInv(t)'
  BY <1>1, <1>2, Rows DEF TaskInv, CallInv
<1> QED
  BY <1>1, <1>4, <1>5, <1>6, <1>7, OneTaskSteps DEF TaskInv

\* A worker that lost its token finds no RUNNING attempt to mark STALE.
LEMMA LateResultPreserves ==
  ASSUME IInv, NEW t \in Tasks, NEW n \in Numbers, ~Owns(t, n), DiscardLateResult(t, n),
         Becomes(t, n, "none"), UNCHANGED <<ready, external, messages, lost, request>>
  PROVE  IInv'
<1>1. attempt[t][n].status # "RUNNING"
  BY Rows, Instants DEF Owns, TaskInv, LeaseInv, HistoryInv
<1>2. /\ UNCHANGED <<task, attempt, post, content, ready, external, messages, lost, request>>
      /\ call' = [call EXCEPT ![t][n] = "none"]
  BY <1>1 DEF DiscardLateResult, Becomes
<1>3. TypeOK'
  <2>1. call' \in [Tasks -> [Numbers -> CallStates]]
    BY <1>2, Rows DEF TypeOK, CallStates
  <2> QED
    BY <2>1, <1>2, Rows DEF TypeOK
<1>4. /\ \A u \in Tasks \ {t} : call'[u] = call[u]
      /\ \A m \in Numbers : call'[t][m] = IF m = n THEN "none" ELSE call[t][m]
  BY <1>2, Rows DEF TypeOK
<1>5. LeaseInv(t)' /\ MessageInv(t)' /\ HistoryInv(t)' /\ PostInv(t)'
  BY <1>2, Rows DEF TaskInv, LeaseInv, MessageInv, HistoryInv, PostInv, Latest
<1>6. CallInv(t)'
  BY <1>2, <1>4, Rows DEF TaskInv, CallInv
<1> QED
  BY <1>2, <1>3, <1>4, <1>5, <1>6, OneTaskSteps DEF TaskInv

LEMMA CompleteSuccessPreserves ==
  ASSUME IInv, NEW t \in Tasks, NEW n \in Numbers, CompleteSuccess(t, n)
  PROVE  IInv'
<1>1. CASE Owns(t, n)
  <2>1. /\ task[t].status = "RUNNING" /\ task[t].owner = n /\ task[t].number = n
        /\ n \in external[t] /\ messages[t] = 0
    <3>1. /\ task[t].status = "RUNNING" /\ task[t].owner = n /\ task[t].number = n
          /\ messages[t] = 0
      BY <1>1, Rows, Instants DEF Owns, TaskInv, LeaseInv, MessageInv
    <3>2. n \in external[t]
      BY Rows DEF CompleteSuccess, TaskInv, CallInv
    <3> QED
      BY <3>1, <3>2
  <2>2. /\ UNCHANGED <<ready, external, messages, lost, request>>
        /\ post' = [post EXCEPT ![t] = n]
        /\ content' = [content EXCEPT ![ContentOf[t]].status = "PUBLISHED"]
        /\ attempt' = [attempt EXCEPT ![t][n] = SucceededAttempt]
        /\ call' = [call EXCEPT ![t][n] = "none"]
        /\ task' = [task EXCEPT ![t] = [task[t] EXCEPT !.status = "SUCCEEDED", !.owner = 0,
                       !.error = "none", !.retry = 0, !.finished = n]]
    BY <1>1 DEF CompleteSuccess, Becomes, queueVars
  <2>3. /\ task'[t].status = "SUCCEEDED" /\ task'[t].owner = 0 /\ task'[t].number = n
        /\ post'[t] = n
        /\ \A m \in Numbers : /\ attempt'[t][m] = IF m = n THEN SucceededAttempt ELSE attempt[t][m]
                              /\ call'[t][m] = IF m = n THEN "none" ELSE call[t][m]
    BY <2>1, <2>2, Rows DEF TypeOK, TaskRow
  <2>4. /\ ContentOf[t] \in Contents
        /\ content' \in [Contents -> ContentRow]
        /\ content'[ContentOf[t]].status = "PUBLISHED"
        /\ \A c \in Contents : content[c].status \in {"PUBLISHED", "ARCHIVED"}
             => content'[c].status \in {"PUBLISHED", "ARCHIVED"}
    <3>1. ContentOf[t] \in Contents /\ content \in [Contents -> ContentRow]
      BY Rows, RequestsAssumption DEF TypeOK
    <3>2. [content[ContentOf[t]] EXCEPT !.status = "PUBLISHED"] \in ContentRow
      BY <3>1 DEF ContentRow
    <3>3. content' = [content EXCEPT ![ContentOf[t]] =
                        [content[ContentOf[t]] EXCEPT !.status = "PUBLISHED"]]
      BY <2>2
    <3>4. [content[ContentOf[t]] EXCEPT !.status = "PUBLISHED"].status = "PUBLISHED"
      BY <3>1 DEF ContentRow
    <3> QED
      BY <3>1, <3>2, <3>3, <3>4
  <2>5. task' \in [Tasks -> TaskRow]
    <3>1. [task[t] EXCEPT !.status = "SUCCEEDED", !.owner = 0,
                          !.error = "none", !.retry = 0, !.finished = n] \in TaskRow
      BY ZenonT(60), Rows, Instants DEF TaskRow, TaskStatus
    <3> QED
      BY <2>2, <3>1, Rows DEF TypeOK
  <2>6. TypeOK'
    <3>1. attempt' \in [Tasks -> [Numbers -> AttemptRow]] /\ post' \in [Tasks -> 0..MaxAttempts]
      BY <2>2, Rows, Entries, Instants DEF TypeOK
    <3>2. call' \in [Tasks -> [Numbers -> CallStates]]
      BY <2>2, Rows DEF TypeOK, CallStates
    <3> QED
      BY <2>2, <2>4, <2>5, <3>1, <3>2, Rows DEF TypeOK
  <2>7. LeaseInv(t)' /\ MessageInv(t)'
    BY <2>1, <2>2, <2>3, Instants DEF LeaseInv, MessageInv
  <2>8. PostInv(t)'
    BY <2>1, <2>2, <2>3, <2>4, Instants DEF PostInv, Latest
  <2>9. HistoryInv(t)'
    BY <2>1, <2>3, Rows, Instants, Entries DEF TaskInv, HistoryInv
  <2>10. CallInv(t)'
    BY <2>1, <2>2, <2>3, Rows DEF TaskInv, CallInv
  <2>11. ASSUME NEW u \in Tasks \ {t}
         PROVE  TaskInv(u)'
    <3>1. /\ task'[u] = task[u] /\ attempt'[u] = attempt[u] /\ post'[u] = post[u]
          /\ messages'[u] = messages[u] /\ call'[u] = call[u] /\ external'[u] = external[u]
          /\ u \in lost' <=> u \in lost
      BY <2>2, Rows DEF TypeOK
    <3>2. content[ContentOf[u]].status \in {"PUBLISHED", "ARCHIVED"}
            => content'[ContentOf[u]].status \in {"PUBLISHED", "ARCHIVED"}
      BY <2>4, RequestsAssumption
    <3> QED
      BY <3>1, <3>2, Rows, UntouchedTaskKeeps
  <2> QED
    BY <2>6, <2>7, <2>8, <2>9, <2>10, <2>11 DEF IInv, TaskInv
<1>2. CASE ~Owns(t, n)
  BY <1>2, LateResultPreserves DEF CompleteSuccess, queueVars
<1> QED
  BY <1>1, <1>2

LEMMA CompleteFailurePreserves ==
  ASSUME IInv, NEW t \in Tasks, NEW n \in Numbers, NEW e \in SafeErrors, CompleteFailure(t, n, e)
  PROVE  IInv'
<1>1. CASE Owns(t, n)
  <2> DEFINE pause == IF e = "RATE_LIMITED" THEN "waiting" ELSE "none"
             retry == IF e = "RATE_LIMITED" THEN n ELSE 0
             failed == FailedAttempt(e, pause)
  <2>1. /\ task[t].status = "RUNNING" /\ task[t].owner = n /\ task[t].number = n
        /\ messages[t] = 0 /\ post[t] = 0
    BY <1>1, Rows, Instants DEF Owns, TaskInv, LeaseInv, MessageInv, PostInv
  <2>2. /\ UNCHANGED <<post, content, ready, external, messages, lost, request>>
        /\ attempt' = [attempt EXCEPT ![t][n] = failed]
        /\ call' = [call EXCEPT ![t][n] = "none"]
        /\ task' = [task EXCEPT ![t] = [task[t] EXCEPT !.status = "FAILED", !.owner = 0,
                       !.error = e, !.retry = retry, !.finished = n]]
    BY ZenonT(60), <1>1 DEF CompleteFailure, Becomes, queueVars
  <2>3. /\ failed \in AttemptRow /\ failed.status = "FAILED" /\ failed.error = e
        /\ failed.retry_at = pause
    BY FailedEntry
  <2>4. /\ pause = "waiting" => retry = n
        /\ retry \in 0..MaxAttempts
    BY Instants
  <2> HIDE DEF pause, retry, failed
  <2>5. /\ task'[t].status = "FAILED" /\ task'[t].owner = 0 /\ task'[t].number = n
        /\ task'[t].error = e /\ task'[t].retry = retry
        /\ \A m \in Numbers : /\ attempt'[t][m] = IF m = n THEN failed ELSE attempt[t][m]
                              /\ call'[t][m] = IF m = n THEN "none" ELSE call[t][m]
    BY <2>1, <2>2, Rows DEF TypeOK, TaskRow
  <2>6. task' \in [Tasks -> TaskRow]
    <3>1. [task[t] EXCEPT !.status = "FAILED", !.owner = 0,
                          !.error = e, !.retry = retry, !.finished = n] \in TaskRow
      BY ZenonT(60), <2>4, Rows, Instants DEF TaskRow, TaskStatus
    <3> QED
      BY <2>2, <3>1, Rows DEF TypeOK
  <2>7. TypeOK'
    <3>1. attempt' \in [Tasks -> [Numbers -> AttemptRow]]
      BY <2>2, <2>3, Rows DEF TypeOK
    <3>2. call' \in [Tasks -> [Numbers -> CallStates]]
      BY <2>2, Rows DEF TypeOK, CallStates
    <3> QED
      BY <2>2, <2>6, <3>1, <3>2, Rows DEF TypeOK
  <2>8. LeaseInv(t)' /\ MessageInv(t)' /\ PostInv(t)'
    BY <2>1, <2>2, <2>5, Instants DEF LeaseInv, MessageInv, PostInv
  <2>9. HistoryInv(t)'
    BY <2>1, <2>3, <2>4, <2>5, Rows, Instants DEF TaskInv, HistoryInv
  <2>10. CallInv(t)'
    BY <2>1, <2>2, <2>5, Rows DEF TaskInv, CallInv
  <2>11. \A u \in Tasks \ {t} : /\ task'[u] = task[u] /\ attempt'[u] = attempt[u]
                                 /\ call'[u] = call[u]
    BY <2>2, Rows DEF TypeOK
  <2> QED
    BY <2>2, <2>7, <2>8, <2>9, <2>10, <2>11, OneTaskSteps DEF TaskInv
<1>2. CASE ~Owns(t, n)
  BY <1>2, LateResultPreserves DEF CompleteFailure, queueVars
<1> QED
  BY <1>1, <1>2

LEMMA ReapPreserves ==
  ASSUME IInv, Reap
  PROVE  IInv'
<1>1. UNCHANGED <<post, content, ready, external, messages, lost, call, request>>
  BY DEF Reap, envVars, queueVars
<1>2. ASSUME NEW t \in StaleTasks
      PROVE  /\ t \in Tasks /\ task[t].status = "RUNNING" /\ task[t].owner \in Numbers
             /\ task[t].owner = task[t].number /\ post[t] = 0 /\ messages[t] = 0
             /\ attempt[t][task[t].owner].status = "RUNNING"
  <2>1. t \in Tasks /\ task[t].status = "RUNNING"
    BY DEF StaleTasks
  <2>2. /\ task[t].owner \in Numbers /\ task[t].owner = task[t].number
        /\ post[t] = 0 /\ messages[t] = 0
    BY <2>1, Rows, Instants DEF TaskInv, LeaseInv, PostInv, MessageInv
  <2> QED
    BY <2>1, <2>2, Rows DEF TaskInv, HistoryInv
<1>3. task' \in [Tasks -> TaskRow]
  <2>1. ASSUME NEW t \in StaleTasks
        PROVE  [task[t] EXCEPT !.status = "FAILED", !.error = "STALE_WORKER",
                               !.finished = task[t].owner, !.owner = 0] \in TaskRow
    <3> DEFINE token == task[t].owner
    <3>1. t \in Tasks /\ token \in 0..Alone
      BY <1>2, Instants
    <3> HIDE DEF token
    <3>2. [task[t] EXCEPT !.status = "FAILED", !.error = "STALE_WORKER",
                          !.finished = token, !.owner = 0] \in TaskRow
      BY ZenonT(60), <3>1, Rows, Instants DEF TaskRow, TaskStatus, SafeErrors
    <3> QED
      BY <3>2 DEF token
  <2> QED
    BY <2>1 DEF Reap, IInv, TypeOK
<1>4. attempt' \in [Tasks -> [Numbers -> AttemptRow]]
  BY Entries DEF Reap, IInv, TypeOK
<1>5. TypeOK'
  BY <1>1, <1>3, <1>4 DEF IInv, TypeOK
<1>6. ASSUME NEW t \in Tasks
      PROVE  TaskInv(t)'
  <2>1. CASE t \notin StaleTasks
    <3>1. task'[t] = task[t] /\ attempt'[t] = attempt[t]
      BY <2>1, Rows DEF Reap, TypeOK
    <3> QED
      BY <3>1, <1>1, Rows, UntouchedTaskKeeps
  <2>2. CASE t \in StaleTasks
    <3>1. /\ task'[t].status = "FAILED" /\ task'[t].owner = 0
          /\ task'[t].number = task[t].number /\ task'[t].error = "STALE_WORKER"
      BY <2>2, Rows DEF Reap, TaskRow
    <3>2. \A m \in Numbers :
            attempt'[t][m] = IF m = task[t].number THEN ReapedAttempt ELSE attempt[t][m]
      BY <2>2, <1>2, Rows DEF Reap
    <3>3. LeaseInv(t)' /\ MessageInv(t)' /\ PostInv(t)'
      BY <2>2, <1>1, <1>2, <3>1, Instants DEF LeaseInv, MessageInv, PostInv
    <3>4. HistoryInv(t)'
      BY <2>2, <1>2, <3>1, <3>2, Rows, Instants, Entries DEF TaskInv, HistoryInv
    <3>5. CallInv(t)'
      BY <1>1, <3>1, Rows DEF TaskInv, CallInv
    <3> QED
      BY <3>3, <3>4, <3>5 DEF TaskInv
  <2> QED
    BY <2>1, <2>2
<1> QED
  BY <1>5, <1>6 DEF IInv, TaskInv

-----------------------------------------------------------------------------
(* The environment *)

LEMMA ClockPreserves ==
  ASSUME IInv, NEW t \in Tasks, SlotComesDue(t) \/ LeaseExpires(t)
  PROVE  IInv'
<1>1. /\ UNCHANGED <<attempt, post, content, ready, external, messages, lost, call, request>>
      /\ \A u \in Tasks \ {t} : task'[u] = task[u]
  BY Rows DEF SlotComesDue, LeaseExpires, envVars, queueVars, TypeOK
<1>2. /\ task'[t].status = task[t].status /\ task'[t].owner = task[t].owner
      /\ task'[t].number = task[t].number /\ task'[t].error = task[t].error
      /\ task'[t].retry = task[t].retry
  <2>1. CASE SlotComesDue(t)
    BY <2>1, Rows DEF SlotComesDue, TypeOK, TaskRow
  <2>2. CASE LeaseExpires(t)
    BY <2>2, Rows DEF LeaseExpires, TypeOK, TaskRow
  <2> QED
    BY <2>1, <2>2
<1>3. TypeOK'
  <2>1. /\ [task[t] EXCEPT !.slot = "due"] \in TaskRow
        /\ [task[t] EXCEPT !.lease = "expired"] \in TaskRow
    BY Rows DEF TaskRow
  <2>2. task' \in [Tasks -> TaskRow]
    BY <2>1, Rows DEF SlotComesDue, LeaseExpires, TypeOK
  <2> QED
    BY <2>2, <1>1, Rows DEF TypeOK
<1>4. LeaseInv(t)' /\ MessageInv(t)' /\ PostInv(t)'
  BY <1>1, <1>2, Rows DEF TaskInv, LeaseInv, MessageInv, PostInv, Latest
<1>5. HistoryInv(t)' /\ CallInv(t)'
  BY <1>1, <1>2, Rows DEF TaskInv, HistoryInv, CallInv
<1> QED
  BY <1>1, <1>3, <1>4, <1>5, OneTaskSteps DEF TaskInv

LEMMA PauseElapsesPreserves ==
  ASSUME IInv, NEW t \in Tasks, PauseElapses(t)
  PROVE  IInv'
<1> DEFINE n == task[t].number
           elapsed == [attempt[t][n] EXCEPT !.retry_at = "elapsed"]
<1>1. /\ n \in Numbers /\ attempt[t][n] \in AttemptRow /\ attempt[t][n].retry_at = "waiting"
  BY Rows, Instants DEF PauseElapses, Latest, TypeOK
<1>2. /\ UNCHANGED <<task, post, content, ready, external, messages, lost, call, request>>
      /\ attempt' = [attempt EXCEPT ![t][n] = elapsed]
  BY DEF PauseElapses, envVars, queueVars
<1>3. /\ elapsed \in AttemptRow /\ elapsed.status = attempt[t][n].status
      /\ elapsed.error = attempt[t][n].error /\ elapsed.retry_at = "elapsed"
  BY <1>1 DEF AttemptRow
<1> HIDE DEF elapsed
<1>4. /\ \A u \in Tasks \ {t} : attempt'[u] = attempt[u]
      /\ \A m \in Numbers : attempt'[t][m] = IF m = n THEN elapsed ELSE attempt[t][m]
  BY <1>1, <1>2, Rows DEF TypeOK
<1>5. TypeOK'
  <2>1. attempt' \in [Tasks -> [Numbers -> AttemptRow]]
    BY <1>2, <1>3, Rows DEF TypeOK
  <2> QED
    BY <2>1, <1>2, Rows DEF TypeOK
<1>6. LeaseInv(t)' /\ MessageInv(t)' /\ CallInv(t)'
  BY <1>2, Rows DEF TaskInv, LeaseInv, MessageInv, CallInv
<1>7. post[t] = 0
  BY <1>1, Rows, Entries DEF TaskInv, PostInv, Latest
<1>8. PostInv(t)'
  BY <1>2, <1>7, Rows DEF TaskInv, PostInv
<1>9. HistoryInv(t)'
  BY <1>1, <1>2, <1>3, <1>4, Rows, Instants DEF TaskInv, HistoryInv
<1> QED
  BY <1>2, <1>4, <1>5, <1>6, <1>8, <1>9, OneTaskSteps DEF TaskInv

LEMMA OutsidePreserves ==
  ASSUME IInv,
         \/ \E c \in Contents : ArchiveContent(c) \/ ReviseContent(c) \/ BriefMoves(c)
         \/ \E a \in Accounts : AccountChanges(a)
  PROVE  IInv'
<1>1. UNCHANGED <<task, attempt, post, external, messages, lost, call, request>>
  BY DEF ArchiveContent, ReviseContent, BriefMoves, AccountChanges, taskVars, queueVars
<1>2. /\ content' \in [Contents -> ContentRow]
      /\ \A c \in Contents : content[c].status \in {"PUBLISHED", "ARCHIVED"}
           => content'[c].status \in {"PUBLISHED", "ARCHIVED"}
  <2>1. ASSUME NEW c \in Contents
        PROVE  /\ [content[c] EXCEPT !.status = "ARCHIVED"] \in ContentRow
               /\ [content[c] EXCEPT !.superseded = TRUE] \in ContentRow
               /\ [content[c] EXCEPT !.status = "ARCHIVED"].status = "ARCHIVED"
               /\ [content[c] EXCEPT !.superseded = TRUE].status = content[c].status
               /\ [content[c] EXCEPT !.current = FALSE] \in ContentRow
               /\ [content[c] EXCEPT !.current = FALSE].status = content[c].status
    BY ZenonT(60) DEF IInv, TypeOK, ContentRow
  <2>2. ASSUME NEW c \in Contents, ArchiveContent(c)
        PROVE  content' = [content EXCEPT ![c] = [content[c] EXCEPT !.status = "ARCHIVED"]]
    BY <2>2 DEF ArchiveContent
  <2>3. ASSUME NEW c \in Contents, ReviseContent(c)
        PROVE  content' = [content EXCEPT ![c] = [content[c] EXCEPT !.superseded = TRUE]]
    BY <2>3 DEF ReviseContent
  <2>4. ASSUME NEW c \in Contents, BriefMoves(c)
        PROVE  content' = [content EXCEPT ![c] = [content[c] EXCEPT !.current = FALSE]]
    BY <2>4 DEF BriefMoves
  <2>5. ASSUME NEW a \in Accounts, AccountChanges(a)
        PROVE  content' = content
    BY <2>5 DEF AccountChanges
  <2> QED
    BY ZenonT(60), <2>1, <2>2, <2>3, <2>4, <2>5 DEF IInv, TypeOK
<1>3. ready' \in [Accounts -> BOOLEAN]
  BY DEF ArchiveContent, ReviseContent, BriefMoves, AccountChanges, IInv, TypeOK
<1>4. TypeOK'
  BY <1>1, <1>2, <1>3 DEF IInv, TypeOK
<1>5. ASSUME NEW u \in Tasks
      PROVE  TaskInv(u)'
  BY <1>1, <1>2, Rows, RequestsAssumption, UntouchedTaskKeeps
<1> QED
  BY <1>4, <1>5 DEF IInv, TaskInv

-----------------------------------------------------------------------------
(* The theorems *)

LEMMA StepPreserves == IInv /\ [Next]_vars => IInv'
<1> SUFFICES ASSUME IInv, [Next]_vars PROVE IInv'
  OBVIOUS
<1>1. CASE UNCHANGED vars
  <2>1. TypeOK'
    BY <1>1 DEF vars, IInv, TypeOK
  <2> QED
    BY <1>1, <2>1, IdleStepPreserves DEF vars
<1>2. ASSUME NEW t \in Tasks, TaskStep(t)
      PROVE  IInv'
  BY <1>2, CreatePreserves, ClockPreserves, PauseElapsesPreserves, MessageGonePreserves DEF TaskStep
<1>3. ASSUME NEW t \in Tasks, Deliver(t)
      PROVE  IInv'
  BY <1>3, ClaimPreserves, ClaimIneligiblePreserves, MessageGonePreserves DEF Deliver
<1>4. ASSUME NEW r \in Requests, NEW t \in Tasks, RequestStep(r, t)
      PROVE  IInv'
  BY <1>4, AdmitPreserves, CancelPreserves, RetryPreserves, RunNowPreserves DEF RequestStep
<1>5. ASSUME NEW t \in Tasks, NEW n \in Numbers, WorkerStep(t, n)
      PROVE  IInv'
  BY <1>5, WorkerMovesPreserves, CompleteSuccessPreserves, CompleteFailurePreserves DEF WorkerStep
<1> QED
  BY <1>1, <1>2, <1>3, <1>4, <1>5, EnqueueDuePreserves, ReapPreserves, OutsidePreserves DEF Next

(* The inductive invariant holds in every reachable state.                    *)
THEOREM Inductive == Spec => []IInv
BY InitEstablishes, StepPreserves, PTL DEF Spec

(* Every variable keeps its type: no counter leaves its range, so no claim   *)
(* ever numbers an attempt beyond MAX_PUBLISH_ATTEMPTS.                      *)
THEOREM TypeCorrect == Spec => []TypeOK
<1>1. IInv => TypeOK
  BY DEF IInv
<1> QED
  BY <1>1, Inductive, PTL

(* The claim token fences each task (Fenced), whatever the order of workers, *)
(* reaper and API actions.                                                   *)
THEOREM TokenFences == Spec => []Fenced
<1>1. IInv => Fenced
  BY Instants DEF IInv, Fenced, LeaseInv, HistoryInv
<1> QED
  BY <1>1, Inductive, PTL

(* A recorded post always has an owner's success and a platform post behind  *)
(* it (PostIsBacked).                                                        *)
THEOREM PostsAreBacked == Spec => []PostIsBacked
<1>1. IInv => PostIsBacked
  BY DEF IInv, PostIsBacked, PostInv
<1> QED
  BY <1>1, Inductive, PTL

(* Attempts follow each other only as the retry rules allow (RetryDiscipline).*)
THEOREM RetriesAreDisciplined == Spec => []RetryDiscipline
<1>1. ASSUME IInv, NEW t \in Tasks
      PROVE  /\ task[t].status = "QUEUED" => task[t].number < MaxAttempts
             /\ \A n \in 1..task[t].number :
                   n < task[t].number \/ task[t].status = "QUEUED" =>
                     /\ attempt[t][n].status = "FAILED"
                     /\ attempt[t][n].error # "TOKEN_EXPIRED"
                     /\ attempt[t][n].retry_at # "waiting"
  <2>1. 1..task[t].number \subseteq Numbers
    BY <1>1, Rows, MaxAttemptsAssumption DEF Numbers
  <2> QED
    BY <1>1, <2>1, Rows DEF TaskInv, LeaseInv, HistoryInv
<1>2. IInv => RetryDiscipline
  BY <1>1 DEF RetryDiscipline
<1> QED
  BY <1>2, Inductive, PTL

(* No task is dispatched twice at once, and none waits in QUEUED without a   *)
(* message unless it was lost (QueuedIsDispatched).                          *)
THEOREM QueuedTasksAreDispatched == Spec => []QueuedIsDispatched
<1>1. IInv => QueuedIsDispatched
  BY DEF IInv, QueuedIsDispatched, MessageInv
<1> QED
  BY <1>1, Inductive, PTL

-----------------------------------------------------------------------------
(* What a step does to a task, for the action properties *)

RowsKept(t) == task'[t] = task[t] /\ attempt'[t] = attempt[t] /\ post'[t] = post[t]
Settled(t) == task[t].status \in {"SUCCEEDED", "CANCELED"}

LEMMA SettledTaskKept ==
  ASSUME IInv, Next, NEW u \in Tasks, Settled(u)
  PROVE  RowsKept(u)
<1>1. \A n \in Numbers : attempt[u][n].status # "RUNNING"
  BY Rows, Instants DEF Settled, TaskInv, LeaseInv, HistoryInv
<1>2. task[u].number > 0 => Latest(u).retry_at # "waiting"
  BY Rows, Instants, Entries DEF Settled, TaskInv, PostInv, HistoryInv, Latest
<1>3. ASSUME NEW t \in Tasks, TaskStep(t)
      PROVE  RowsKept(u)
  BY <1>2, <1>3, Rows
  DEF TaskStep, CreatePublishTask, SlotComesDue, LeaseExpires, PauseElapses, LoseMessage,
      taskVars, Settled, RowsKept, TypeOK
<1>4. ASSUME NEW t \in Tasks, Deliver(t)
      PROVE  RowsKept(u)
  <2>1. CASE ClaimNothing(t)
    BY <2>1 DEF ClaimNothing, taskVars, RowsKept
  <2>2. CASE Claim(t) \/ ClaimIneligible(t)
    <3>1. t # u
      BY <2>2 DEF Claim, ClaimIneligible, Claimable, Settled
    <3>2. post' = post /\ task'[u] = task[u] /\ attempt'[u] = attempt[u]
      BY <2>2, <3>1, Rows DEF Claim, ClaimIneligible, TypeOK
    <3> QED
      BY <3>2 DEF RowsKept
  <2> QED
    BY <1>4, <2>1, <2>2 DEF Deliver
<1>5. ASSUME NEW r \in Requests, NEW t \in Tasks, RequestStep(r, t)
      PROVE  RowsKept(u)
  BY <1>5, Rows
  DEF RequestStep, Admit, Refuse, Cancel, Retry, RunNow, CanCancel, CanRetry, CanRunNow,
      taskVars, Settled, RowsKept, TypeOK
<1>6. ASSUME NEW t \in Tasks, NEW n \in Numbers, WorkerStep(t, n)
      PROVE  RowsKept(u)
  BY <1>1, <1>6, Rows
  DEF WorkerStep, ProviderAccepts, CompleteSuccess, FinalizeRaises, CompleteFailure, WorkerDies,
      Owns, DiscardLateResult, taskVars, Settled, RowsKept, TypeOK
<1>7. CASE EnqueueDue
  BY <1>7, Rows DEF EnqueueDue, Due, Settled, RowsKept, TypeOK
<1>8. CASE Reap
  <2>1. u \notin StaleTasks
    BY DEF StaleTasks, Settled
  <2>2. attempt'[u] = [n \in Numbers |-> attempt[u][n]] /\ task'[u] = task[u] /\ post' = post
    BY <1>8, <2>1 DEF Reap
  <2>3. attempt[u] \in [Numbers -> AttemptRow]
    BY Rows DEF TypeOK
  <2> QED
    BY <2>2, <2>3 DEF RowsKept
<1>9. ASSUME \/ \E c \in Contents : ArchiveContent(c) \/ ReviseContent(c) \/ BriefMoves(c)
             \/ \E a \in Accounts : AccountChanges(a)
      PROVE  RowsKept(u)
  BY <1>9 DEF ArchiveContent, ReviseContent, BriefMoves, AccountChanges, taskVars, RowsKept
<1> QED
  BY <1>3, <1>4, <1>5, <1>6, <1>7, <1>8, <1>9 DEF Next

(* Published and canceled tasks never change again (SettledForever).          *)
THEOREM SettledIsForever == Spec => SettledForever
<1>1. IInv /\ [Next]_vars =>
        [\A t \in Tasks : task[t].status \in {"SUCCEEDED", "CANCELED"} =>
           task'[t] = task[t] /\ attempt'[t] = attempt[t] /\ post'[t] = post[t]]_vars
  BY SettledTaskKept DEF Settled, RowsKept
<1> QED
  BY <1>1, Inductive, PTL DEF Spec, SettledForever

-----------------------------------------------------------------------------
(* What the rows record, for the two audits: which histories the program's   *)
(* own validator accepts, and which posts of the platform nobody recorded.   *)

\* What a row of PublishAttempt may read once it is written.
Written(a) ==
  \/ a \in {RunningAttempt, SucceededAttempt, CanceledAttempt, ReapedAttempt}
  \/ \E e \in SafeErrors, r \in {"none", "waiting", "elapsed"} :
        a = FailedAttempt(e, r) /\ (r # "none" <=> e = "RATE_LIMITED")

\* The instants, error and pause of a task row, by its status.
RowInv(t) ==
  LET row == task[t] IN
  /\ row.started = row.number
  /\ row.status # "FAILED" => row.error = "none" /\ row.retry = 0
  /\ row.status = "FAILED" =>
       /\ row.error \in SafeErrors
       /\ row.retry = (IF Latest(t).retry_at = "none" THEN 0 ELSE row.number)
  /\ row.status \notin {"FAILED", "SUCCEEDED", "CANCELED"} => row.finished = 0
  /\ row.status \in {"FAILED", "SUCCEEDED"} => row.finished = row.number
  /\ row.status = "CANCELED" =>
       /\ row.finished # 0
       /\ row.number # 0 => \/ Latest(t).status = "FAILED"
                            \/ Latest(t).status = "CANCELED" /\ row.finished = row.number
  /\ row.status = "SCHEDULED" => row.slot # "none"

Unrecorded == {"PROVIDER_ERROR", "RATE_LIMITED", "PUBLISH_FINALIZE_ERROR", "STALE_WORKER"}
\* A worker that still works may have lost its attempt to a user or to the
\* reaper only, and has made no post before the platform accepted its call.
WorkInv(t) ==
  \A n \in Numbers :
    /\ call[t][n] # "none" => \/ attempt[t][n].status \in {"RUNNING", "CANCELED"}
                              \/ attempt[t][n].error = "STALE_WORKER"
    /\ call[t][n] = "calling" => n \notin external[t]
    /\ n \in external[t] =>
         /\ n <= task[t].number
         /\ \/ n = post[t]
            \/ attempt[t][n].status \in {"RUNNING", "CANCELED"}
            \/ attempt[t][n].error \in Unrecorded

AuditInv(t) ==
  /\ \A n \in Numbers : n <= task[t].number => Written(attempt[t][n])
  /\ RowInv(t) /\ WorkInv(t)
Audited == \A t \in Tasks : AuditInv(t)

LEMMA AuditBegins == Init => Audited
<1> SUFFICES ASSUME Init, NEW t \in Tasks PROVE AuditInv(t)
  BY DEF Audited
<1>1. task[t] = NoTask /\ external[t] = {} /\ \A n \in Numbers : call[t][n] = "none"
  BY DEF Init
<1>2. \A n \in Numbers : ~(n <= 0)
  BY Instants
<1> QED
  BY <1>1, <1>2 DEF NoTask, AuditInv, RowInv, WorkInv

LEMMA UntouchedAudit ==
  ASSUME NEW u \in Tasks, AuditInv(u),
         task'[u] = task[u], attempt'[u] = attempt[u], post'[u] = post[u],
         call'[u] = call[u], external'[u] = external[u]
  PROVE  AuditInv(u)'
<1>1. RowInv(u)'
  BY DEF AuditInv, RowInv, Latest
<1>2. WorkInv(u)'
  BY DEF AuditInv, WorkInv
<1> QED
  BY <1>1, <1>2 DEF AuditInv

\* What each kind of step does to the rows of its own task t.
LEMMA CreateAudit ==
  ASSUME IInv, NEW t \in Tasks, AuditInv(t),
         NEW scheduled \in BOOLEAN, CreatePublishTask(t, scheduled)
  PROVE  AuditInv(t)'
<1>1. /\ attempt' = attempt /\ post' = post /\ call' = call /\ external' = external
      /\ task'[t].number = task[t].number /\ task'[t].started = task[t].started
      /\ task'[t].error = task[t].error /\ task'[t].retry = task[t].retry
      /\ task'[t].finished = task[t].finished
      /\ \/ task'[t].status = "SCHEDULED" /\ task'[t].slot = "future"
         \/ task'[t].status = "QUEUED"
  BY Rows DEF CreatePublishTask, TypeOK, TaskRow
<1>2. task[t].status = "ABSENT"
  BY DEF CreatePublishTask
<1>3. RowInv(t)'
  BY <1>1, <1>2 DEF AuditInv, RowInv, Latest
<1> QED
  BY <1>1, <1>3 DEF AuditInv, WorkInv

LEMMA RequestAudit ==
  ASSUME IInv, NEW t \in Tasks, AuditInv(t), NEW r \in Requests, RequestStep(r, t)
  PROVE  AuditInv(t)'
<1>1. CASE \E op \in Operations : Admit(r, op, t) \/ Refuse(r, op, t)
  BY <1>1, UntouchedAudit DEF Admit, Refuse, taskVars
<1>2. CASE Cancel(r, t)
  <2>1. /\ post' = post /\ call' = call /\ external' = external
        /\ task'[t].status = "CANCELED" /\ task'[t].owner = 0
        /\ task'[t].number = task[t].number /\ task'[t].started = task[t].started
        /\ task'[t].error = task[t].error /\ task'[t].retry = task[t].retry
        /\ task'[t].finished = IF task[t].owner = 0 THEN Alone ELSE task[t].owner
    BY <1>2, Rows DEF Cancel, TypeOK, TaskRow
  <2>2. /\ task[t].status \in {"SCHEDULED", "QUEUED", "RUNNING"} /\ Alone # 0
        /\ task[t].status = "RUNNING" <=> task[t].owner # 0
        /\ task[t].owner # 0 => task[t].owner = task[t].number /\ task[t].owner \in Numbers
    BY <1>2, Rows, MaxAttemptsAssumption, Instants DEF Cancel, CanCancel, TaskInv, LeaseInv, Alone
  <2>3. \A n \in Numbers : attempt'[t][n] = IF task[t].owner = n /\ task[t].owner # 0
                                            THEN CanceledAttempt ELSE attempt[t][n]
    BY <1>2, <2>2, Rows DEF Cancel, TypeOK
  <2>4. task[t].number # 0 => task[t].number \in Numbers
    BY Rows, Instants
  <2>5. RowInv(t)'
    BY <2>1, <2>2, <2>3, <2>4, Rows, Entries DEF AuditInv, RowInv, Latest, TaskInv, LeaseInv, HistoryInv
  <2>6. WorkInv(t)'
    BY <2>1, <2>2, <2>3, Entries DEF AuditInv, WorkInv
  <2>7. \A n \in Numbers : n <= task'[t].number => Written(attempt'[t][n])
    BY <2>1, <2>3 DEF AuditInv, Written
  <2> QED
    BY <2>5, <2>6, <2>7 DEF AuditInv
<1>3. CASE Retry(r, t) \/ RunNow(r, t)
  <2>1. /\ attempt' = attempt /\ post' = post /\ call' = call /\ external' = external
        /\ task'[t].status = "QUEUED" /\ task'[t].number = task[t].number
        /\ task'[t].started = task[t].started
        /\ \/ task'[t].error = "none" /\ task'[t].retry = 0 /\ task'[t].finished = 0
           \/ /\ task[t].status = "SCHEDULED" /\ task'[t].error = task[t].error
              /\ task'[t].retry = task[t].retry /\ task'[t].finished = task[t].finished
    <3>1. CASE Retry(r, t)
      BY <3>1, Rows DEF Retry, TypeOK, TaskRow
    <3>2. CASE RunNow(r, t)
      BY <3>2, Rows DEF RunNow, CanRunNow, TypeOK, TaskRow
    <3> QED
      BY <1>3, <3>1, <3>2
  <2>2. RowInv(t)'
    BY <2>1 DEF AuditInv, RowInv, Latest
  <2> QED
    BY <2>1, <2>2 DEF AuditInv, WorkInv
<1> QED
  BY <1>1, <1>2, <1>3 DEF RequestStep

LEMMA DeliverAudit ==
  ASSUME IInv, NEW t \in Tasks, AuditInv(t), Deliver(t)
  PROVE  AuditInv(t)'
<1> DEFINE n == task[t].number + 1
<1>1. CASE ClaimNothing(t)
  BY <1>1, UntouchedAudit DEF ClaimNothing, taskVars
<1>2. CASE Claim(t) \/ ClaimIneligible(t)
  <2>1. task[t].status = "QUEUED" /\ n \in Numbers /\ task[t].number \in Nat
    <3>1. Claimable(t)
      BY <1>2 DEF Claim, ClaimIneligible
    <3>2. task[t].number < MaxAttempts /\ task[t].number \in 0..MaxAttempts
      BY <3>1, Rows DEF Claimable, LeaseInv
    <3> QED
      BY <3>1, <3>2, MaxAttemptsAssumption DEF Claimable, Numbers
  <2>2. /\ \A m \in Numbers : m <= n <=> m <= task[t].number \/ m = n
        /\ \A m \in Numbers : m = n => ~(m <= task[t].number)
        /\ call[t][n] = "none"
    BY <2>1, Rows, Instants DEF TaskInv, CallInv
  <2>3. /\ post' = post /\ external' = external
        /\ task'[t].number = n /\ task'[t].started = n
    <3>1. DOMAIN task = Tasks /\ {"number", "started"} \subseteq DOMAIN task[t]
      BY Rows DEF TypeOK, TaskRow
    <3> QED
      BY SMTT(30), <1>2, <3>1 DEF Claim, ClaimIneligible
  <2>4. CASE Claim(t)
    <3>1. /\ task'[t].status = "RUNNING" /\ task'[t].error = "none"
          /\ task'[t].retry = task[t].retry /\ task'[t].finished = 0
          /\ \A m \in Numbers : attempt'[t][m] = IF m = n THEN RunningAttempt ELSE attempt[t][m]
          /\ \A m \in Numbers : call'[t][m] = IF m = n THEN "calling" ELSE call[t][m]
      <4>1. DOMAIN task = Tasks /\ {"status", "error", "retry", "finished"} \subseteq DOMAIN task[t]
        BY Rows DEF TypeOK, TaskRow
      <4>2. /\ task'[t].status = "RUNNING" /\ task'[t].error = "none"
            /\ task'[t].retry = task[t].retry /\ task'[t].finished = 0
        BY <2>4, <4>1 DEF Claim
      <4>3. \A m \in Numbers : /\ attempt'[t][m] = IF m = n THEN RunningAttempt ELSE attempt[t][m]
                              /\ call'[t][m] = IF m = n THEN "calling" ELSE call[t][m]
        BY <2>1, <2>4, Rows DEF Claim, Becomes, TypeOK
      <4> QED
        BY <4>2, <4>3
    <3>2. RowInv(t)'
      BY <2>1, <2>3, <3>1 DEF AuditInv, RowInv
    <3>3. WorkInv(t)'
      BY <2>1, <2>2, <2>3, <3>1, Entries DEF AuditInv, WorkInv
    <3>4. \A m \in Numbers : m <= task'[t].number => Written(attempt'[t][m])
      BY <2>2, <2>3, <3>1 DEF AuditInv, Written
    <3> QED
      BY <3>2, <3>3, <3>4 DEF AuditInv
  <2>5. CASE ClaimIneligible(t)
    <3> DEFINE failed == FailedAttempt("PUBLISH_NOT_ELIGIBLE", "none")
    <3>1. /\ task'[t].status = "FAILED" /\ task'[t].error = "PUBLISH_NOT_ELIGIBLE"
          /\ task'[t].retry = 0 /\ task'[t].finished = n /\ call' = call
          /\ \A m \in Numbers : attempt'[t][m] = IF m = n THEN failed ELSE attempt[t][m]
      BY SMTT(30), <2>1, <2>5, Rows DEF ClaimIneligible, TypeOK, TaskRow
    <3>2. "PUBLISH_NOT_ELIGIBLE" \in SafeErrors
      BY DEF SafeErrors, ProviderErrors
    <3>3. failed.retry_at = "none" /\ Written(failed)
      BY <3>2, FailedEntry DEF Written
    <3> HIDE DEF failed
    <3>4. RowInv(t)'
      BY <2>1, <2>3, <3>1, <3>2, <3>3 DEF AuditInv, RowInv, Latest
    <3>5. WorkInv(t)'
      BY <2>1, <2>2, <2>3, <3>1 DEF AuditInv, WorkInv
    <3>6. \A m \in Numbers : m <= task'[t].number => Written(attempt'[t][m])
      BY <2>2, <2>3, <3>1, <3>3 DEF AuditInv
    <3> QED
      BY <3>4, <3>5, <3>6 DEF AuditInv
  <2> QED
    BY <1>2, <2>4, <2>5
<1> QED
  BY <1>1, <1>2 DEF Deliver

LEMMA WorkerAudit ==
  ASSUME IInv, NEW t \in Tasks, AuditInv(t), NEW n \in Numbers, WorkerStep(t, n)
  PROVE  AuditInv(t)'
<1>1. CASE ProviderAccepts(t, n) \/ FinalizeRaises(t, n) \/ WorkerDies(t, n)
  <2>1. /\ task' = task /\ attempt' = attempt /\ post' = post
        /\ \A m \in Numbers \ {n} : call'[t][m] = call[t][m] /\ (m \in external'[t] <=> m \in external[t])
        /\ call[t][n] # "none" /\ n <= task[t].number
        /\ \/ call'[t][n] \in {"none", "unfinalized"} /\ external' = external
           \/ call[t][n] = "calling" /\ call'[t][n] = "accepted"
    BY <1>1, Rows
    DEF ProviderAccepts, FinalizeRaises, WorkerDies, Becomes, taskVars, TypeOK, TaskInv, CallInv
  <2>2. RowInv(t)'
    BY <2>1 DEF AuditInv, RowInv, Latest
  <2>3. WorkInv(t)'
    BY <2>1 DEF AuditInv, WorkInv, Unrecorded
  <2> QED
    BY <2>1, <2>2, <2>3 DEF AuditInv
<1>2. CASE \/ CompleteSuccess(t, n) /\ ~Owns(t, n)
           \/ \E e \in SafeErrors : CompleteFailure(t, n, e) /\ ~Owns(t, n)
  <2>1. attempt[t][n].status # "RUNNING"
    BY <1>2, Rows, Instants DEF Owns, TaskInv, LeaseInv, HistoryInv
  <2>2. /\ task' = task /\ attempt' = attempt /\ post' = post /\ external' = external
        /\ \A m \in Numbers : call'[t][m] = call[t][m] \/ call'[t][m] = "none"
    BY ZenonT(60), <1>2, <2>1, Rows DEF CompleteSuccess, CompleteFailure, DiscardLateResult, Becomes, TypeOK
  <2>3. RowInv(t)' /\ WorkInv(t)'
    BY <2>2 DEF AuditInv, RowInv, WorkInv, Latest
  <2> QED
    BY <2>2, <2>3 DEF AuditInv
<1>3. CASE CompleteSuccess(t, n) /\ Owns(t, n)
  <2>1. /\ task'[t].status = "SUCCEEDED" /\ task'[t].error = "none" /\ task'[t].retry = 0
        /\ task'[t].finished = n /\ task'[t].started = task[t].started
        /\ task'[t].number = task[t].number /\ post'[t] = n /\ external' = external
    <3>1. /\ task' = [task EXCEPT ![t].status = "SUCCEEDED", ![t].owner = 0, ![t].error = "none",
                                  ![t].retry = 0, ![t].finished = n]
          /\ post' = [post EXCEPT ![t] = n] /\ external' = external
      BY <1>3 DEF CompleteSuccess
    <3>2. task \in [Tasks -> TaskRow] /\ post \in [Tasks -> 0..MaxAttempts]
      BY Rows DEF TypeOK
    <3>3. task[t] \in TaskRow
      BY Rows
    <3> QED
      BY <3>1, <3>2, <3>3 DEF TaskRow
  <2>2. \A m \in Numbers : /\ attempt'[t][m] = IF m = n THEN SucceededAttempt ELSE attempt[t][m]
                          /\ call'[t][m] = IF m = n THEN "none" ELSE call[t][m]
    BY <1>3, Rows DEF CompleteSuccess, Becomes, TypeOK
  <2>3. task[t].number = n /\ post[t] = 0
    BY <1>3, Rows, Instants DEF Owns, TaskInv, LeaseInv, PostInv
  <2>4. RowInv(t)'
    BY <2>1, <2>3 DEF AuditInv, RowInv
  <2>5. WorkInv(t)'
    BY <2>1, <2>2, <2>3, Instants DEF AuditInv, WorkInv
  <2>6. \A m \in Numbers : m <= task'[t].number => Written(attempt'[t][m])
    BY <2>1, <2>2 DEF AuditInv, Written
  <2> QED
    BY <2>4, <2>5, <2>6 DEF AuditInv
<1>4. ASSUME NEW e \in SafeErrors, CompleteFailure(t, n, e), Owns(t, n)
      PROVE  AuditInv(t)'
  <2> DEFINE pause == IF e = "RATE_LIMITED" THEN "waiting" ELSE "none"
             failed == FailedAttempt(e, pause)
  <2>1. /\ task'[t].status = "FAILED" /\ task'[t].error = e
        /\ task'[t].retry = (IF e = "RATE_LIMITED" THEN n ELSE 0)
        /\ task'[t].finished = n /\ task'[t].started = task[t].started
        /\ task'[t].number = task[t].number /\ post' = post /\ external' = external
    BY SMTT(30), <1>4, Rows DEF CompleteFailure, TypeOK, TaskRow
  <2>2. \A m \in Numbers : /\ attempt'[t][m] = IF m = n THEN failed ELSE attempt[t][m]
                          /\ call'[t][m] = IF m = n THEN "none" ELSE call[t][m]
    BY <1>4, Rows DEF CompleteFailure, Becomes, TypeOK
  <2>3. task[t].number = n /\ call[t][n] # "none"
    BY <1>4, Rows, Instants DEF Owns, TaskInv, LeaseInv, CompleteFailure, Reported
  <2>4. call[t][n] = "calling" \/ e \in Unrecorded
    BY <1>4 DEF CompleteFailure, Reported, Unrecorded
  <2>5. failed.retry_at = pause /\ failed.error = e /\ Written(failed)
    BY FailedEntry DEF Written
  <2> HIDE DEF failed
  <2>6. RowInv(t)'
    BY <2>1, <2>2, <2>3, <2>5 DEF AuditInv, RowInv, Latest
  <2>7. WorkInv(t)'
    BY <2>1, <2>2, <2>3, <2>4, <2>5 DEF AuditInv, WorkInv
  <2>8. \A m \in Numbers : m <= task'[t].number => Written(attempt'[t][m])
    BY <2>1, <2>2, <2>5 DEF AuditInv
  <2> QED
    BY <2>6, <2>7, <2>8 DEF AuditInv
<1> QED
  BY <1>1, <1>2, <1>3, <1>4 DEF WorkerStep

LEMMA FailedPauseElapses ==
  ASSUME NEW e
  PROVE  [FailedAttempt(e, "waiting") EXCEPT !.retry_at = "elapsed"] = FailedAttempt(e, "elapsed")
<1>1. \A x, f : [Entry("FAILED", e, e, "waiting", x, f) EXCEPT !.retry_at = "elapsed"]
                  = Entry("FAILED", e, e, "elapsed", x, f)
  BY DEF Entry
<1> QED
  BY <1>1, Zenon DEF FailedAttempt

LEMMA ClockAudit ==
  ASSUME IInv, NEW t \in Tasks, AuditInv(t),
         SlotComesDue(t) \/ LeaseExpires(t) \/ LoseMessage(t) \/ PauseElapses(t)
  PROVE  AuditInv(t)'
<1>1. /\ post' = post /\ call' = call /\ external' = external
      /\ task'[t].status = task[t].status /\ task'[t].number = task[t].number
      /\ task'[t].started = task[t].started /\ task'[t].finished = task[t].finished
      /\ task'[t].error = task[t].error /\ task'[t].retry = task[t].retry
      /\ task'[t].slot = task[t].slot \/ task'[t].slot = "due"
  <2>1. CASE SlotComesDue(t)
    BY <2>1, Rows DEF SlotComesDue, TypeOK, TaskRow
  <2>3. CASE LeaseExpires(t)
    BY <2>3, Rows DEF LeaseExpires, TypeOK, TaskRow
  <2>2. CASE LoseMessage(t) \/ PauseElapses(t)
    BY <2>2 DEF LoseMessage, PauseElapses, taskVars
  <2> QED
    BY <2>1, <2>2, <2>3
<1>2. CASE attempt' = attempt
  <2>1. RowInv(t)' /\ WorkInv(t)'
    BY <1>1, <1>2 DEF AuditInv, RowInv, WorkInv, Latest
  <2> QED
    BY <1>1, <1>2, <2>1 DEF AuditInv
<1>3. CASE PauseElapses(t)
  <2> DEFINE n == task[t].number
  <2>1. n \in Numbers /\ attempt[t][n] \in AttemptRow /\ attempt[t][n].retry_at = "waiting"
    BY <1>3, Rows, Instants DEF PauseElapses, Latest, TypeOK
  <2>2. \A m \in Numbers : attempt'[t][m] = IF m = n THEN [attempt[t][n] EXCEPT !.retry_at = "elapsed"]
                                                    ELSE attempt[t][m]
    BY <1>3, <2>1, Rows DEF PauseElapses, TypeOK
  <2>3. PICK e \in SafeErrors : attempt[t][n] = FailedAttempt(e, "waiting") /\ e = "RATE_LIMITED"
    <3>1. Written(attempt[t][n])
      BY <2>1, Rows, Instants DEF AuditInv
    <3>2. RunningAttempt.retry_at = "none"
      BY DEF RunningAttempt, Entry
    <3> QED
      BY <2>1, <3>1, <3>2, Entries, FailedEntry DEF Written
  <2>4. [attempt[t][n] EXCEPT !.retry_at = "elapsed"] = FailedAttempt(e, "elapsed")
    BY <2>3, FailedPauseElapses
  <2>5. /\ attempt'[t][n].status = attempt[t][n].status /\ attempt'[t][n].error = attempt[t][n].error
        /\ attempt'[t][n].retry_at = "elapsed" /\ Written(attempt'[t][n])
    BY <2>1, <2>2, <2>3, <2>4, FailedEntry DEF Written
  <2>6. RowInv(t)'
    BY <1>1, <2>1, <2>5 DEF AuditInv, RowInv, Latest
  <2>7. WorkInv(t)'
    BY <1>1, <2>2, <2>5 DEF AuditInv, WorkInv
  <2> QED
    BY <1>1, <2>2, <2>5, <2>6, <2>7 DEF AuditInv
<1> QED
  BY <1>2, <1>3 DEF SlotComesDue, LeaseExpires, LoseMessage, taskVars

LEMMA ReapAudit ==
  ASSUME IInv, NEW t \in Tasks, AuditInv(t), Reap
  PROVE  AuditInv(t)'
<1>1. post' = post /\ call' = call /\ external' = external
  BY DEF Reap
<1>2. CASE t \notin StaleTasks
  BY <1>1, <1>2, Rows, UntouchedAudit DEF Reap, TypeOK
<1>3. CASE t \in StaleTasks
  <2>1. /\ task[t].status = "RUNNING" /\ task[t].owner = task[t].number /\ task[t].number \in Numbers
        /\ attempt[t][task[t].number].status = "RUNNING"
    BY <1>3, Rows, Instants DEF StaleTasks, TaskInv, LeaseInv, HistoryInv
  <2>2. /\ task'[t].status = "FAILED" /\ task'[t].error = "STALE_WORKER"
        /\ task'[t].finished = task[t].number /\ task'[t].number = task[t].number
        /\ task'[t].retry = task[t].retry /\ task'[t].started = task[t].started
    BY <1>3, <2>1, Rows DEF Reap, TaskRow
  <2>3. \A m \in Numbers :
          attempt'[t][m] = IF m = task[t].number THEN ReapedAttempt ELSE attempt[t][m]
    BY <1>3, <2>1, Rows DEF Reap
  <2>4. "STALE_WORKER" \in SafeErrors
    BY DEF SafeErrors
  <2>5. RowInv(t)'
    BY <2>1, <2>2, <2>3, <2>4, Entries DEF AuditInv, RowInv, Latest
  <2>6. WorkInv(t)'
    BY <1>1, <2>1, <2>2, <2>3, Entries DEF AuditInv, WorkInv, Unrecorded
  <2>7. \A m \in Numbers : m <= task'[t].number => Written(attempt'[t][m])
    BY <2>2, <2>3 DEF AuditInv, Written
  <2> QED
    BY <2>5, <2>6, <2>7 DEF AuditInv
<1> QED
  BY <1>2, <1>3

LEMMA EnqueueAudit ==
  ASSUME IInv, NEW t \in Tasks, AuditInv(t), EnqueueDue
  PROVE  AuditInv(t)'
<1>1. attempt' = attempt /\ post' = post /\ call' = call /\ external' = external
  BY DEF EnqueueDue
<1>2. /\ \/ task'[t].status = task[t].status
         \/ task[t].status = "SCHEDULED" /\ task'[t].status = "QUEUED"
      /\ task'[t].number = task[t].number
      /\ task'[t].started = task[t].started /\ task'[t].finished = task[t].finished
      /\ task'[t].error = task[t].error /\ task'[t].retry = task[t].retry
      /\ task'[t].slot = task[t].slot
  BY Rows DEF EnqueueDue, Due, TaskRow
<1>3. RowInv(t)' /\ WorkInv(t)'
  BY <1>1, <1>2 DEF AuditInv, RowInv, WorkInv, Latest
<1> QED
  BY <1>1, <1>2, <1>3 DEF AuditInv

\* A step of task t leaves the rows of every other task alone.
LEMMA OthersUntouched ==
  ASSUME IInv, NEW t \in Tasks, NEW u \in Tasks, u # t,
         \/ TaskStep(t) \/ Deliver(t)
         \/ \E r \in Requests : RequestStep(r, t)
         \/ \E n \in Numbers : WorkerStep(t, n)
  PROVE  /\ task'[u] = task[u] /\ attempt'[u] = attempt[u] /\ post'[u] = post[u]
         /\ call'[u] = call[u] /\ external'[u] = external[u]
<1>1. CASE TaskStep(t)
  BY <1>1, Rows DEF TaskStep, CreatePublishTask, SlotComesDue, LeaseExpires, PauseElapses,
                    LoseMessage, taskVars, TypeOK
<1>2. CASE Deliver(t)
  <2>1. CASE Claim(t)
    BY SMTT(30), <2>1, Rows DEF Claim, Becomes, TypeOK
  <2>2. CASE ClaimIneligible(t) \/ ClaimNothing(t)
    BY <2>2, Rows DEF ClaimIneligible, ClaimNothing, taskVars, TypeOK
  <2> QED
    BY <1>2, <2>1, <2>2 DEF Deliver
<1>3. CASE \E r \in Requests : RequestStep(r, t)
  BY <1>3, Rows DEF RequestStep, Admit, Refuse, Cancel, Retry, RunNow, taskVars, TypeOK
<1>4. CASE \E n \in Numbers : WorkerStep(t, n)
  <2>1. PICK n \in Numbers : WorkerStep(t, n)
    BY <1>4
  <2>2. CASE ProviderAccepts(t, n) \/ FinalizeRaises(t, n) \/ WorkerDies(t, n)
    BY <2>2, Rows DEF ProviderAccepts, FinalizeRaises, WorkerDies, Becomes, taskVars, TypeOK
  <2>3. CASE CompleteSuccess(t, n)
    BY <2>3, Rows DEF CompleteSuccess, DiscardLateResult, Becomes, TypeOK
  <2>4. CASE \E e \in SafeErrors : CompleteFailure(t, n, e)
    BY <2>4, Rows DEF CompleteFailure, DiscardLateResult, Becomes, TypeOK
  <2> QED
    BY <2>1, <2>2, <2>3, <2>4 DEF WorkerStep
<1> QED
  BY <1>1, <1>2, <1>3, <1>4

LEMMA AuditKept == IInv /\ Audited /\ [Next]_vars => Audited'
<1> SUFFICES ASSUME IInv, Audited, [Next]_vars, NEW u \in Tasks PROVE AuditInv(u)'
  BY DEF Audited
<1>1. AuditInv(u)
  BY DEF Audited
<1>2. ASSUME NEW t \in Tasks,
             \/ TaskStep(t) \/ Deliver(t)
             \/ \E r \in Requests : RequestStep(r, t)
             \/ \E n \in Numbers : WorkerStep(t, n)
      PROVE  AuditInv(u)'
  <2>1. CASE u # t
    BY <1>1, <1>2, <2>1, OthersUntouched, UntouchedAudit
  <2>2. CASE u = t
    BY <1>1, <1>2, <2>2, CreateAudit, ClockAudit, DeliverAudit, RequestAudit, WorkerAudit DEF TaskStep
  <2> QED
    BY <2>1, <2>2
<1>3. CASE EnqueueDue \/ Reap
  BY <1>1, <1>3, EnqueueAudit, ReapAudit
<1>4. CASE \/ \E c \in Contents : ArchiveContent(c) \/ ReviseContent(c) \/ BriefMoves(c)
           \/ \E a \in Accounts : AccountChanges(a)
           \/ UNCHANGED vars
  BY <1>1, <1>4, UntouchedAudit DEF ArchiveContent, ReviseContent, BriefMoves, AccountChanges, taskVars, vars
<1> QED
  BY <1>2, <1>3, <1>4 DEF Next

LEMMA AlwaysAudited == Spec => [](IInv /\ Audited)
BY AuditBegins, AuditKept, Inductive, PTL DEF Spec

(* No post of the platform is forgotten without one of the causes that       *)
(* OrphanPostsAreExplained lists, whatever workers, reaper and users do to   *)
(* the task while its calls are under way.                                   *)
THEOREM OrphanPostsAreAlwaysExplained == Spec => []OrphanPostsAreExplained
<1>1. IInv /\ Audited => OrphanPostsAreExplained
  BY Rows DEF Audited, AuditInv, WorkInv, Unrecorded, OrphanPostsAreExplained, TypeOK
<1> QED
  BY <1>1, AlwaysAudited, PTL

-----------------------------------------------------------------------------
(* The validator *)

LEMMA SomeAttempt ==
  ASSUME IInv, NEW t \in Tasks
  PROVE  /\ 1..task[t].number \subseteq Numbers
         /\ \A n \in Numbers : n \in 1..task[t].number <=> n <= task[t].number
BY Rows, MaxAttemptsAssumption DEF Numbers

LEMMA FailedShape ==
  ASSUME NEW e \in SafeErrors, NEW r \in {"none", "waiting", "elapsed"}
  PROVE  /\ FailedAttempt(e, r).outcome = FailedAttempt(e, r).error
         /\ FailedAttempt(e, r).status = "FAILED" /\ FailedAttempt(e, r).finished
         /\ FailedAttempt(e, r).retry_at = r /\ FailedAttempt(e, r) # ReapedAttempt
<1>1. /\ FailedAttempt(e, r).outcome = e /\ FailedAttempt(e, r).error = e /\ e # ""
      /\ FailedAttempt(e, r).status = "FAILED" /\ FailedAttempt(e, r).finished
      /\ FailedAttempt(e, r).retry_at = r
  BY DEF FailedAttempt, Entry, SafeErrors, ProviderErrors
<1>2. ReapedAttempt.outcome = ""
  BY DEF ReapedAttempt, Entry
<1> QED
  BY <1>1, <1>2

LEMMA WrittenShapes ==
  ASSUME NEW a, Written(a)
  PROVE  /\ AttemptShape(a) <=> a # ReapedAttempt
         /\ a.status # "NONE"
         /\ a.status \in {"RUNNING", "SUCCEEDED", "CANCELED", "FAILED"}
         /\ a.finished <=> a.status # "RUNNING"
         /\ a.status = "FAILED" /\ a # ReapedAttempt => a.outcome = a.error
         /\ a.retry_at \in {"none", "waiting", "elapsed"}
<1>1. ReapedAttempt.outcome = "" /\ ReapedAttempt.status = "FAILED"
  BY DEF ReapedAttempt, Entry
<1>3. AttemptShape(a) => a # ReapedAttempt
  <2>1. /\ RunningAttempt # ReapedAttempt /\ SucceededAttempt # ReapedAttempt
        /\ CanceledAttempt # ReapedAttempt /\ StaleAttempt # ReapedAttempt
    BY DEF RunningAttempt, SucceededAttempt, CanceledAttempt, StaleAttempt, ReapedAttempt, Entry
  <2> QED
    BY <2>1, FailedShape DEF AttemptShape
<1>4. a # ReapedAttempt => AttemptShape(a)
  BY DEF Written, AttemptShape
<1>5. CASE a \in {RunningAttempt, SucceededAttempt, CanceledAttempt, ReapedAttempt}
  <2>1. /\ RunningAttempt.status = "RUNNING" /\ ~RunningAttempt.finished
        /\ SucceededAttempt.status = "SUCCEEDED" /\ SucceededAttempt.finished
        /\ CanceledAttempt.status = "CANCELED" /\ CanceledAttempt.finished
        /\ ReapedAttempt.finished
        /\ RunningAttempt.retry_at = "none" /\ SucceededAttempt.retry_at = "none"
        /\ CanceledAttempt.retry_at = "none" /\ ReapedAttempt.retry_at = "none"
    BY DEF RunningAttempt, SucceededAttempt, CanceledAttempt, ReapedAttempt, Entry
  <2>2. CASE a = RunningAttempt \/ a = SucceededAttempt \/ a = CanceledAttempt
    BY <1>3, <1>4, <2>1, <2>2
  <2>3. CASE a = ReapedAttempt
    BY <1>1, <1>3, <2>1, <2>3
  <2> QED
    BY <1>5, <2>2, <2>3
<1>6. CASE \E e \in SafeErrors, r \in {"none", "waiting", "elapsed"} : a = FailedAttempt(e, r)
  <2>1. PICK e \in SafeErrors, r \in {"none", "waiting", "elapsed"} : a = FailedAttempt(e, r)
    BY <1>6
  <2>2. a.outcome = a.error /\ a.status = "FAILED" /\ a.finished /\ a.retry_at = r
        /\ a # ReapedAttempt
    BY <2>1, FailedShape
  <2> QED
    BY <1>3, <1>4, <2>2
<1> QED
  BY <1>5, <1>6 DEF Written

\* The history fails the validator exactly when the reaper wrote into it.
LEMMA HistoryVerdict ==
  ASSUME IInv, NEW t \in Tasks, AuditInv(t)
  PROVE  HistoryConsistent(t) <=> ~Reaped(t)
<1>1. \A n \in 1..task[t].number : n \in Numbers /\ Written(attempt[t][n])
  BY SomeAttempt, Rows DEF AuditInv
<1>2. ASSUME Reaped(t) PROVE ~HistoryConsistent(t)
  BY <1>1, <1>2, WrittenShapes DEF Reaped, HistoryConsistent
<1>3. ASSUME ~Reaped(t) PROVE HistoryConsistent(t)
  <2>1. \A n \in Numbers : attempt[t][n].status # "NONE" <=> n <= task[t].number
    <3>1. \A n \in Numbers : n <= task[t].number \/ n > task[t].number
      BY Rows, Instants
    <3> QED
      BY <1>1, <3>1, SomeAttempt, WrittenShapes, Rows, Entries DEF TaskInv, HistoryInv
  <2>2. ASSUME NEW n \in 1..task[t].number
        PROVE  /\ AttemptShape(attempt[t][n])
               /\ n < task[t].number =>
                    /\ attempt[t][n].finished
                    /\ attempt[t][n].retry_at # "waiting"
                    /\ attempt[t][n].outcome # "TOKEN_EXPIRED"
                    /\ attempt[t][n].status \in {"FAILED", "STALE"}
    <3>1. n \in Numbers /\ Written(attempt[t][n]) /\ attempt[t][n] # ReapedAttempt
      BY <1>1, <1>3 DEF Reaped
    <3> QED
      BY <3>1, WrittenShapes, Rows DEF TaskInv, HistoryInv
  <2>3. post[t] # 0 => post[t] = task[t].number /\ Latest(t).status = "SUCCEEDED"
    BY Rows, Entries DEF TaskInv, PostInv
  <2> QED
    BY <2>1, <2>2, <2>3 DEF HistoryConsistent
<1> QED
  BY <1>2, <1>3

LEMMA StatusVerdict ==
  ASSUME IInv, NEW t \in Tasks, AuditInv(t), task[t].status # "ABSENT"
  PROVE  StatusConsistent(t) <=> ~(CanceledAfterFailure(t) \/ ArchivedAfterPublishing(t))
<1> DEFINE row == task[t]
<1>1. /\ row.status \in TaskStatus /\ row.number \in Nat /\ (row.number > 0 <=> row.number # 0)
      /\ row.number # 0 => row.number \in Numbers
      /\ RowInv(t) /\ LeaseInv(t) /\ HistoryInv(t) /\ PostInv(t)
  BY Rows, Instants DEF AuditInv, TaskInv, TaskRow
<1>2. row.status \in {"SCHEDULED", "QUEUED", "RUNNING", "SUCCEEDED", "FAILED", "CANCELED"}
  BY <1>1 DEF TaskStatus
<1>3. CASE row.status = "SCHEDULED"
  BY <1>1, <1>3 DEF StatusConsistent, Cleared, RowInv, LeaseInv, PostInv, CanceledAfterFailure,
                    ArchivedAfterPublishing
<1>4. CASE row.status = "QUEUED"
  BY <1>1, <1>4 DEF StatusConsistent, Cleared, RowInv, LeaseInv, HistoryInv, PostInv, Latest,
                    CanceledAfterFailure, ArchivedAfterPublishing
<1>5. CASE row.status = "RUNNING"
  BY <1>1, <1>5 DEF StatusConsistent, Cleared, RowInv, LeaseInv, HistoryInv, PostInv, Latest,
                    CanceledAfterFailure, ArchivedAfterPublishing
<1>6. CASE row.status = "SUCCEEDED"
  BY <1>1, <1>6, Entries
  DEF StatusConsistent, EndsWith, RowInv, LeaseInv, PostInv, CanceledAfterFailure,
      ArchivedAfterPublishing
<1>7. CASE row.status = "FAILED"
  BY <1>1, <1>7
  DEF StatusConsistent, EndsWith, RowInv, LeaseInv, HistoryInv, PostInv, Latest,
      CanceledAfterFailure, ArchivedAfterPublishing
<1>8. CASE row.status = "CANCELED"
  BY <1>1, <1>8
  DEF StatusConsistent, EndsWith, RowInv, LeaseInv, PostInv, CanceledAfterFailure,
      ArchivedAfterPublishing
<1> QED
  BY <1>2, <1>3, <1>4, <1>5, <1>6, <1>7, <1>8

(* The program's own validator rejects exactly the tasks that                *)
(* ValidatorVerdict names: whatever else happens to a task, every API read   *)
(* shows it and every claim may take it.                                     *)
THEOREM ValidatorVerdictHolds == Spec => []ValidatorVerdict
<1>1. IInv /\ Audited => ValidatorVerdict
  BY HistoryVerdict, StatusVerdict DEF Audited, ValidatorVerdict, Consistent, LeftBehind
<1> QED
  BY <1>1, AlwaysAudited, PTL

-----------------------------------------------------------------------------
(* Content is published only by a recorded post *)

LEMMA PublishedKept == IInv /\ PublishedBecausePosted /\ [Next]_vars => PublishedBecausePosted'
<1> SUFFICES ASSUME IInv, PublishedBecausePosted, [Next]_vars, NEW c \in Contents,
                    content'[c].status = "PUBLISHED"
             PROVE  \E t \in Tasks : ContentOf[t] = c /\ post'[t] # 0
  BY DEF PublishedBecausePosted
<1>1. CASE \E t \in Tasks, n \in Numbers : CompleteSuccess(t, n) /\ Owns(t, n)
  <2>1. PICK t \in Tasks, n \in Numbers : CompleteSuccess(t, n) /\ Owns(t, n)
    BY <1>1
  <2>2. /\ post' = [post EXCEPT ![t] = n]
        /\ content' = [content EXCEPT ![ContentOf[t]].status = "PUBLISHED"]
    BY <2>1 DEF CompleteSuccess
  <2>3. post'[t] # 0 /\ \A u \in Tasks : post[u] # 0 => post'[u] # 0
    BY <2>2, Rows, Instants DEF TypeOK
  <2>4. CASE ContentOf[t] = c
    BY <2>3, <2>4
  <2>5. CASE ContentOf[t] # c
    <3>1. content'[c] = content[c]
      BY <2>2, <2>5, Rows DEF TypeOK
    <3> QED
      BY <2>3, <3>1 DEF PublishedBecausePosted
  <2> QED
    BY <2>4, <2>5
<1>2. CASE \E d \in Contents : ArchiveContent(d) \/ ReviseContent(d) \/ BriefMoves(d)
  <2>1. PICK d \in Contents : ArchiveContent(d) \/ ReviseContent(d) \/ BriefMoves(d)
    BY <1>2
  <2>2. post' = post /\ content \in [Contents -> ContentRow]
    BY <2>1 DEF ArchiveContent, ReviseContent, BriefMoves, taskVars, IInv, TypeOK
  <2>3. content[c].status = "PUBLISHED"
    <3>1. CASE ArchiveContent(d)
      BY <2>2, <3>1 DEF ArchiveContent, ContentRow
    <3>2. CASE ReviseContent(d)
      BY <2>2, <3>2 DEF ReviseContent, ContentRow
    <3>3. CASE BriefMoves(d)
      BY <2>2, <3>3 DEF BriefMoves, ContentRow
    <3> QED
      BY <2>1, <3>1, <3>2, <3>3
  <2> QED
    BY <2>2, <2>3 DEF PublishedBecausePosted
<1>3. CASE content' = content /\ post' = post
  BY <1>3 DEF PublishedBecausePosted
<1>4. ASSUME NEW t \in Tasks, TaskStep(t) \/ Deliver(t)
      PROVE  content' = content /\ post' = post
  BY <1>4 DEF TaskStep, CreatePublishTask, SlotComesDue, LeaseExpires, PauseElapses, LoseMessage,
              Deliver, Claim, ClaimIneligible, ClaimNothing, taskVars, envVars, queueVars
<1>5. ASSUME NEW r \in Requests, NEW t \in Tasks, RequestStep(r, t)
      PROVE  content' = content /\ post' = post
  BY <1>5 DEF RequestStep, Admit, Refuse, Cancel, Retry, RunNow, taskVars, envVars, queueVars
<1>6. ASSUME NEW t \in Tasks, NEW n \in Numbers, WorkerStep(t, n), ~(CompleteSuccess(t, n) /\ Owns(t, n))
      PROVE  content' = content /\ post' = post
  BY <1>6 DEF WorkerStep, ProviderAccepts, CompleteSuccess, FinalizeRaises, CompleteFailure,
              WorkerDies, DiscardLateResult, taskVars, envVars, queueVars
<1>7. CASE EnqueueDue \/ Reap \/ UNCHANGED vars \/ \E a \in Accounts : AccountChanges(a)
  BY <1>3, <1>7 DEF EnqueueDue, Reap, AccountChanges, taskVars, envVars, queueVars, vars
<1> QED
  BY <1>1, <1>2, <1>3, <1>4, <1>5, <1>6, <1>7 DEF Next

(* Content is PUBLISHED only with a recorded post behind it                  *)
(* (PublishedBecausePosted), whichever of the tasks sharing it came first.   *)
THEOREM PublishedOnlyWhenPosted == Spec => []PublishedBecausePosted
<1>1. Init => PublishedBecausePosted
  BY DEF Init, PublishedBecausePosted
<1> QED
  BY <1>1, PublishedKept, Inductive, PTL DEF Spec

-----------------------------------------------------------------------------
(* The engine keeps its promise: every step maps to a step of                *)
(* FencedPublication or to a stutter.                                        *)

\* What a step does to the abstract state of one task.
MapsAlike(t) == /\ Phase(t)' = Phase(t) /\ task'[t].number = task[t].number
                /\ task'[t].owner = task[t].owner

LEMMA Stutters ==
  ASSUME \A t \in Tasks : MapsAlike(t), UNCHANGED post
  PROVE  UNCHANGED Promise!fenceVars
BY DEF MapsAlike, Promise!fenceVars

LEMMA UntouchedMapsAlike ==
  ASSUME NEW t \in Tasks, task'[t] = task[t]
  PROVE  MapsAlike(t)
BY DEF MapsAlike, Phase

LEMMA OneTaskMaps ==
  ASSUME NEW t \in Tasks, \A u \in Tasks \ {t} : task'[u] = task[u]
  PROVE  /\ [u \in Tasks |-> Phase(u)]' = [[u \in Tasks |-> Phase(u)] EXCEPT ![t] = Phase(t)']
         /\ [u \in Tasks |-> task[u].number]'
              = [[u \in Tasks |-> task[u].number] EXCEPT ![t] = task'[t].number]
         /\ [u \in Tasks |-> task[u].owner]'
              = [[u \in Tasks |-> task[u].owner] EXCEPT ![t] = task'[t].owner]
<1>1. \A u \in Tasks \ {t} : MapsAlike(u)
  BY UntouchedMapsAlike
<1> QED
  BY <1>1 DEF MapsAlike

LEMMA CreateMaps ==
  ASSUME IInv, NEW t \in Tasks, NEW scheduled \in BOOLEAN, CreatePublishTask(t, scheduled)
  PROVE  Promise!Submit({t})
<1>1. /\ task[t].status = "ABSENT" /\ UNCHANGED post
      /\ \A u \in Tasks \ {t} : task'[u] = task[u]
      /\ task'[t].status \in {"SCHEDULED", "QUEUED"}
      /\ task'[t].number = task[t].number /\ task'[t].owner = task[t].owner
  BY Rows DEF CreatePublishTask, TypeOK, TaskRow
<1>2. Phase(t) = "absent" /\ Phase(t)' = "open"
  BY <1>1 DEF Phase
<1>3. \A u \in Tasks \ {t} : MapsAlike(u)
  BY <1>1, UntouchedMapsAlike
<1> QED
  BY <1>1, <1>2, <1>3 DEF Promise!Submit, MapsAlike

LEMMA EnqueueDueMaps ==
  ASSUME IInv, EnqueueDue
  PROVE  UNCHANGED Promise!fenceVars
<1>1. ASSUME NEW t \in Tasks
      PROVE  MapsAlike(t)
  BY Rows DEF EnqueueDue, Due, MapsAlike, Phase, TaskRow
<1> QED
  BY <1>1, Stutters DEF EnqueueDue

LEMMA RequestMaps ==
  ASSUME IInv, NEW r \in Requests, NEW t \in Tasks, RequestStep(r, t)
  PROVE  Promise!Withdraw(t) \/ Promise!Reopen(t) \/ UNCHANGED Promise!fenceVars
<1>1. CASE Cancel(r, t)
  <2>1. /\ task[t].status \in {"SCHEDULED", "QUEUED", "RUNNING"} /\ UNCHANGED post
        /\ \A u \in Tasks \ {t} : task'[u] = task[u]
        /\ task'[t].status = "CANCELED"
        /\ task'[t].number = task[t].number /\ task'[t].owner = 0
    BY <1>1, Rows DEF Cancel, CanCancel, TypeOK, TaskRow
  <2>2. Phase(t) = "open" /\ Phase(t)' = "withdrawn"
    BY <2>1 DEF Phase
  <2> QED
    BY <2>1, <2>2, OneTaskMaps DEF Promise!Withdraw
<1>2. CASE Retry(r, t)
  <2>1. /\ task[t].status = "FAILED" /\ task[t].number < MaxAttempts /\ UNCHANGED post
        /\ \A u \in Tasks \ {t} : task'[u] = task[u]
        /\ task'[t].status = "QUEUED"
        /\ task'[t].number = task[t].number /\ task'[t].owner = task[t].owner
    BY <1>2, Rows DEF Retry, CanRetry, TypeOK, TaskRow
  <2>2. Phase(t) = "failed" /\ Phase(t)' = "open"
    BY <2>1 DEF Phase
  <2> QED
    BY <2>1, <2>2, OneTaskMaps DEF Promise!Reopen
<1>3. CASE RunNow(r, t)
  <2>1. \A u \in Tasks : MapsAlike(u)
    BY <1>3, Rows DEF RunNow, CanRunNow, MapsAlike, Phase, TypeOK, TaskRow
  <2> QED
    BY <1>3, <2>1, Stutters DEF RunNow
<1>4. CASE \E op \in Operations : Admit(r, op, t) \/ Refuse(r, op, t)
  <2>1. UNCHANGED <<task, post>>
    BY <1>4 DEF Admit, Refuse, taskVars
  <2> QED
    BY <2>1, UntouchedMapsAlike, Stutters
<1> QED
  BY <1>1, <1>2, <1>3, <1>4 DEF RequestStep

LEMMA DeliverMaps ==
  ASSUME IInv, NEW t \in Tasks, Deliver(t)
  PROVE  (\E granted \in BOOLEAN : Promise!Acquire(t, granted)) \/ UNCHANGED Promise!fenceVars
<1>1. CASE Claim(t)
  <2>1. /\ task[t].status = "QUEUED" /\ task[t].owner = 0 /\ task[t].number < MaxAttempts
        /\ UNCHANGED post /\ \A u \in Tasks \ {t} : task'[u] = task[u]
        /\ task'[t].status = "RUNNING"
        /\ task'[t].number = task[t].number + 1 /\ task'[t].owner = task[t].number + 1
    <3>1. DOMAIN task = Tasks /\ {"status", "number", "owner"} \subseteq DOMAIN task[t]
      BY Rows DEF TypeOK, TaskRow
    <3>2. task[t].status = "QUEUED" /\ task[t].owner = 0 /\ task[t].number < MaxAttempts
      BY <1>1, Rows DEF Claim, Claimable, LeaseInv
    <3> QED
      BY <1>1, <3>1, <3>2 DEF Claim
  <2>2. Phase(t) = "open" /\ Phase(t)' = "open"
    BY <2>1 DEF Phase
  <2>3. Promise!Acquire(t, TRUE)
    BY <2>1, <2>2, OneTaskMaps DEF Promise!Acquire
  <2> QED
    BY <2>3
<1>2. CASE ClaimIneligible(t)
  <2>1. /\ task[t].status = "QUEUED" /\ task[t].owner = 0 /\ task[t].number < MaxAttempts
        /\ UNCHANGED post /\ \A u \in Tasks \ {t} : task'[u] = task[u]
        /\ task'[t].status = "FAILED"
        /\ task'[t].number = task[t].number + 1 /\ task'[t].owner = 0
    <3>1. DOMAIN task = Tasks /\ {"status", "number", "owner"} \subseteq DOMAIN task[t]
      BY Rows DEF TypeOK, TaskRow
    <3>2. task[t].status = "QUEUED" /\ task[t].owner = 0 /\ task[t].number < MaxAttempts
      BY <1>2, Rows DEF ClaimIneligible, Claimable, LeaseInv
    <3> QED
      BY <1>2, <3>1, <3>2 DEF ClaimIneligible
  <2>2. Phase(t) = "open" /\ Phase(t)' = "failed"
    BY <2>1 DEF Phase
  <2>3. Promise!Acquire(t, FALSE)
    BY <2>1, <2>2, OneTaskMaps DEF Promise!Acquire
  <2> QED
    BY <2>3
<1>3. CASE ClaimNothing(t)
  <2>1. UNCHANGED <<task, post>>
    BY <1>3 DEF ClaimNothing, taskVars
  <2> QED
    BY <2>1, UntouchedMapsAlike, Stutters
<1> QED
  BY <1>1, <1>2, <1>3 DEF Deliver

LEMMA WorkerMaps ==
  ASSUME IInv, NEW t \in Tasks, NEW n \in Numbers, WorkerStep(t, n)
  PROVE  Promise!Publish(t) \/ Promise!Release({t}) \/ UNCHANGED Promise!fenceVars
<1>1. CASE CompleteSuccess(t, n) /\ Owns(t, n)
  <2>1. task[t].status = "RUNNING" /\ task[t].owner = n /\ n # 0
    BY <1>1, Instants DEF Owns
  <2>2. /\ post' = [post EXCEPT ![t] = n]
        /\ task' = [task EXCEPT ![t].status = "SUCCEEDED", ![t].owner = 0, ![t].error = "none",
                                ![t].retry = 0, ![t].finished = n]
    BY <1>1 DEF CompleteSuccess
  <2>3. /\ \A u \in Tasks \ {t} : task'[u] = task[u]
        /\ task'[t].status = "SUCCEEDED"
        /\ task'[t].number = task[t].number /\ task'[t].owner = 0
    BY <2>2, Rows DEF TypeOK, TaskRow
  <2>4. Phase(t) = "open" /\ Phase(t)' = "published"
    BY <2>1, <2>3 DEF Phase
  <2>5. /\ [u \in Tasks |-> Phase(u)]' = [[u \in Tasks |-> Phase(u)] EXCEPT ![t] = "published"]
        /\ [u \in Tasks |-> task[u].number]' = [u \in Tasks |-> task[u].number]
        /\ [u \in Tasks |-> task[u].owner]' = [[u \in Tasks |-> task[u].owner] EXCEPT ![t] = 0]
    BY <2>3, <2>4, OneTaskMaps
  <2>6. Promise!Publish(t)
    BY <2>1, <2>2, <2>4, <2>5 DEF Promise!Publish
  <2> QED
    BY <2>6
<1>2. CASE \E e \in SafeErrors : CompleteFailure(t, n, e) /\ Owns(t, n)
  <2>1. /\ task[t].status = "RUNNING" /\ task[t].owner = n /\ n # 0 /\ UNCHANGED post
        /\ \A u \in Tasks \ {t} : task'[u] = task[u]
        /\ task'[t].status = "FAILED"
        /\ task'[t].number = task[t].number /\ task'[t].owner = 0
    BY <1>2, Rows, Instants DEF CompleteFailure, Owns, TypeOK, TaskRow
  <2>2. Phase(t)' = "failed"
    BY <2>1 DEF Phase
  <2>3. \A u \in Tasks \ {t} : MapsAlike(u)
    BY <2>1, UntouchedMapsAlike
  <2> QED
    BY <2>1, <2>2, <2>3 DEF Promise!Release, MapsAlike
<1>3. CASE \/ ProviderAccepts(t, n) \/ FinalizeRaises(t, n) \/ WorkerDies(t, n)
           \/ CompleteSuccess(t, n) /\ ~Owns(t, n)
           \/ \E e \in SafeErrors : CompleteFailure(t, n, e) /\ ~Owns(t, n)
  <2>1. UNCHANGED <<task, post>>
    BY <1>3 DEF ProviderAccepts, FinalizeRaises, WorkerDies, CompleteSuccess, CompleteFailure,
                DiscardLateResult, taskVars
  <2> QED
    BY <2>1, UntouchedMapsAlike, Stutters
<1> QED
  BY <1>1, <1>2, <1>3 DEF WorkerStep

LEMMA ReapMaps ==
  ASSUME IInv, Reap, NEW K \in SUBSET Tasks, K = StaleTasks
  PROVE  Promise!Release(K)
<1>1. ASSUME NEW t \in K
      PROVE  /\ t \in Tasks /\ task[t].owner # 0 /\ Phase(t)' = "failed"
             /\ task'[t].number = task[t].number /\ task'[t].owner = 0
  BY Rows DEF Reap, StaleTasks, LeaseInv, Phase, TaskRow
<1>2. \A t \in Tasks \ K : MapsAlike(t)
  BY UntouchedMapsAlike DEF Reap
<1> QED
  BY ZenonT(60), <1>1, <1>2 DEF Promise!Release, MapsAlike, Reap

LEMMA ClockMaps ==
  ASSUME IInv, NEW t \in Tasks,
         SlotComesDue(t) \/ LeaseExpires(t) \/ PauseElapses(t) \/ LoseMessage(t)
  PROVE  UNCHANGED Promise!fenceVars
<1>1. \A u \in Tasks : MapsAlike(u)
  <2>1. CASE SlotComesDue(t)
    BY <2>1, Rows DEF SlotComesDue, MapsAlike, Phase, TypeOK, TaskRow
  <2>2. CASE LeaseExpires(t)
    BY <2>2, Rows DEF LeaseExpires, MapsAlike, Phase, TypeOK, TaskRow
  <2>3. CASE PauseElapses(t) \/ LoseMessage(t)
    BY <2>3, UntouchedMapsAlike DEF PauseElapses, LoseMessage, taskVars
  <2> QED
    BY <2>1, <2>2, <2>3
<1> QED
  BY <1>1, Stutters DEF SlotComesDue, LeaseExpires, PauseElapses, LoseMessage, taskVars

LEMMA StepMaps == IInv /\ [Next]_vars => [Promise!FencedNext]_(Promise!fenceVars)
<1> SUFFICES ASSUME IInv, [Next]_vars PROVE [Promise!FencedNext]_(Promise!fenceVars)
  OBVIOUS
<1>1. CASE UNCHANGED vars
  BY <1>1, UntouchedMapsAlike, Stutters DEF vars
<1>2. ASSUME NEW t \in Tasks, TaskStep(t)
      PROVE  [Promise!FencedNext]_(Promise!fenceVars)
  <2>1. {t} \in SUBSET Tasks
    OBVIOUS
  <2> QED
    BY <1>2, <2>1, CreateMaps, ClockMaps DEF TaskStep, Promise!FencedNext
<1>3. ASSUME NEW t \in Tasks, Deliver(t)
      PROVE  [Promise!FencedNext]_(Promise!fenceVars)
  BY <1>3, DeliverMaps DEF Promise!FencedNext
<1>4. ASSUME NEW r \in Requests, NEW t \in Tasks, RequestStep(r, t)
      PROVE  [Promise!FencedNext]_(Promise!fenceVars)
  BY <1>4, RequestMaps DEF Promise!FencedNext
<1>5. ASSUME NEW t \in Tasks, NEW n \in Numbers, WorkerStep(t, n)
      PROVE  [Promise!FencedNext]_(Promise!fenceVars)
  <2>1. {t} \in SUBSET Tasks
    OBVIOUS
  <2> QED
    BY <1>5, <2>1, WorkerMaps DEF Promise!FencedNext
<1>6. CASE EnqueueDue
  BY <1>6, EnqueueDueMaps
<1>7. CASE Reap
  <2>1. PICK K \in SUBSET Tasks : K = StaleTasks
    BY DEF StaleTasks
  <2> QED
    BY <1>7, <2>1, ReapMaps DEF Promise!FencedNext
<1>8. ASSUME \/ \E c \in Contents : ArchiveContent(c) \/ ReviseContent(c) \/ BriefMoves(c)
             \/ \E a \in Accounts : AccountChanges(a)
      PROVE  UNCHANGED Promise!fenceVars
  <2>1. UNCHANGED <<task, post>>
    BY <1>8 DEF ArchiveContent, ReviseContent, BriefMoves, AccountChanges, taskVars
  <2> QED
    BY <2>1, UntouchedMapsAlike, Stutters
<1> QED
  BY <1>1, <1>2, <1>3, <1>4, <1>5, <1>6, <1>7, <1>8 DEF Next

(* The engine implements FencedPublication (KeepsPromise): whatever workers, *)
(* reaper, schedule and users do, only the newest claim can publish, and     *)
(* publication and cancellation are final.                                   *)
THEOREM PromiseIsKept == Spec => KeepsPromise
<1>1. Init => Promise!FencedInit
  BY DEF Init, Promise!FencedInit, Phase, NoTask
<1> QED
  BY <1>1, StepMaps, Inductive, PTL DEF Spec, KeepsPromise, Promise!FencedSpec
=============================================================================
