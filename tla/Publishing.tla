------------------------------ MODULE Publishing ------------------------------
(*****************************************************************************)
(* The publish-task engine: backend/apps/publishing/services.py, driven by   *)
(* the API views (views.py), the Celery tasks (tasks.py) and the beat        *)
(* schedule.  A publish task is one idempotency key; workers claim it, call  *)
(* the social platform outside any transaction and finalize it under a       *)
(* fencing token; a reaper fails tasks whose worker went silent.             *)
(*                                                                           *)
(* Every action is one database transaction of the code, or one step of a    *)
(* worker between two of them.  Wall-clock time is abstracted to what the    *)
(* code compares it with: a slot is "future" or "due", a lease "live" or     *)
(* "expired", a rate-limit pause "waiting" or "elapsed".                     *)
(*****************************************************************************)
EXTENDS Integers, FiniteSets

CONSTANTS
  Tasks,         \* idempotency keys, one per distinct publish request
  Contents,      \* platform contents
  Accounts,      \* social accounts
  ContentOf,     \* the content each request publishes
  AccountOf,     \* the account each request publishes to
  WithActor,     \* the requests that carry created_by; the agent tool passes none
  MaxAttempts,   \* MAX_PUBLISH_ATTEMPTS (10 in the code)
  Requests       \* API requests the web processes serve at once

ASSUME RequestsAssumption ==
  /\ ContentOf \in [Tasks -> Contents]
  /\ AccountOf \in [Tasks -> Accounts]
  /\ WithActor \subseteq Tasks
ASSUME MaxAttemptsAssumption == MaxAttempts \in Nat \ {0}

VARIABLES
  task,       \* PublishTask row of each key
  attempt,    \* PublishAttempt rows: attempt[t][n] is number n of task t
  post,       \* number of the attempt the PublishedPost row refers to, 0 if none
  content,    \* the PlatformContent fields publishing reads
  ready,      \* account ACTIVE, API_AUTO, unexpired credential, PUBLISH capability
  external,   \* attempts whose call created a post on the platform
  messages,   \* run_publish_task messages nobody has claimed with yet, per task
  lost,       \* history: tasks whose last message was lost before any claim
  call,       \* what the worker that claimed attempt n of t is doing: call[t][n]
  request     \* the action each API request was let through to, Free when none

taskVars == <<task, attempt, post>>
envVars  == <<content, ready>>
queueVars == <<messages, lost>>
vars == <<task, attempt, post, content, ready, external, messages, lost, call, request>>

-----------------------------------------------------------------------------
(* Records *)

Numbers == 1..MaxAttempts
Alone == MaxAttempts + 1   \* a finish instant shared with no attempt

ProviderErrors == {"RATE_LIMITED", "TOKEN_EXPIRED", "PROVIDER_ERROR", "PUBLISH_NOT_ELIGIBLE"}
SafeErrors == ProviderErrors \cup {"PUBLISH_FINALIZE_ERROR", "STALE_WORKER"}

TaskStatus == {"ABSENT", "SCHEDULED", "QUEUED", "RUNNING", "SUCCEEDED", "FAILED", "CANCELED"}
AttemptStatus == {"NONE", "RUNNING", "SUCCEEDED", "FAILED", "CANCELED", "STALE"}

\* owner, started, finished and retry name the attempt whose claim token,
\* start instant, finish instant or retry_at the column holds; 0 is null.
TaskRow == [status: TaskStatus, slot: {"none", "future", "due"},
            owner: 0..MaxAttempts, number: 0..MaxAttempts,
            started: 0..MaxAttempts, finished: 0..Alone,
            error: SafeErrors \cup {"none"}, retry: 0..MaxAttempts,
            lease: {"none", "live", "expired"}]

\* A retry_at still "waiting" on an attempt that has a successor is one the
\* successor did not wait for: only the latest attempt's pause elapses.
AttemptRow == [status: AttemptStatus,
               outcome: SafeErrors \cup {"", "SUCCEEDED", "CANCELED"},
               error: SafeErrors \cup {"none"},
               retry_at: {"none", "waiting", "elapsed"},
               external_id: BOOLEAN, finished: BOOLEAN]

\* A content is current while its brief is at the version it was made from.
\* The rest of what content_is_consistent compares never changes.
ContentRow == [status: {"APPROVED", "PUBLISHED", "ARCHIVED"},
               superseded: BOOLEAN, current: BOOLEAN]
Operations == {"cancel", "retry", "run"}
Free == <<>>
CallStates == {"none", "calling", "accepted", "unfinalized"}

NoTask == [status |-> "ABSENT", slot |-> "none", owner |-> 0, number |-> 0, started |-> 0,
           finished |-> 0, error |-> "none", retry |-> 0, lease |-> "none"]

Entry(status, outcome, error, retryAt, externalId, finished) ==
  [status |-> status, outcome |-> outcome, error |-> error, retry_at |-> retryAt,
   external_id |-> externalId, finished |-> finished]

NoAttempt        == Entry("NONE", "", "none", "none", FALSE, FALSE)
RunningAttempt   == Entry("RUNNING", "", "none", "none", FALSE, FALSE)
SucceededAttempt == Entry("SUCCEEDED", "SUCCEEDED", "none", "none", TRUE, TRUE)
CanceledAttempt  == Entry("CANCELED", "CANCELED", "none", "none", FALSE, TRUE)
StaleAttempt     == Entry("STALE", "", "none", "none", FALSE, TRUE)
FailedAttempt(e, retryAt) == Entry("FAILED", e, e, retryAt, FALSE, TRUE)
\* What the reaper leaves: error and finished_at are set, outcome is not.
ReapedAttempt    == Entry("FAILED", "", "STALE_WORKER", "none", FALSE, TRUE)

Latest(t) == attempt[t][task[t].number]
Publishable(c) ==
  content[c].status = "APPROVED" /\ ~content[c].superseded /\ content[c].current

-----------------------------------------------------------------------------
(* The program's own validator, which every API read and every claim calls *)

AttemptShape(a) ==
  \/ a \in {RunningAttempt, SucceededAttempt, CanceledAttempt, StaleAttempt}
  \/ \E e \in SafeErrors, r \in {"none", "waiting", "elapsed"} :
        a = FailedAttempt(e, r) /\ (r # "none" <=> e = "RATE_LIMITED")

HistoryConsistent(t) ==
  /\ \A n \in Numbers : attempt[t][n].status # "NONE" <=> n <= task[t].number
  /\ \A n \in 1..task[t].number :
        /\ AttemptShape(attempt[t][n])
        /\ n < task[t].number =>
             /\ attempt[t][n].finished
             /\ attempt[t][n].retry_at # "waiting"
             /\ attempt[t][n].outcome # "TOKEN_EXPIRED"
             /\ attempt[t][n].status \in {"FAILED", "STALE"}
  /\ post[t] # 0 => post[t] = task[t].number /\ Latest(t).status = "SUCCEEDED"

Cleared(t) == task[t].finished = 0 /\ task[t].error = "none" /\ task[t].retry = 0 /\ post[t] = 0
EndsWith(t, status) ==
  /\ task[t].number > 0 /\ Latest(t).status = status
  /\ task[t].started = task[t].number /\ task[t].finished = task[t].number

StatusConsistent(t) ==
  LET row == task[t] IN
  \/ /\ row.status = "SCHEDULED" /\ Cleared(t)
     /\ row.slot # "none" /\ row.owner = 0 /\ row.number = 0 /\ row.started = 0
  \/ /\ row.status = "QUEUED" /\ Cleared(t) /\ row.owner = 0
     /\ IF row.number = 0 THEN row.started = 0
        ELSE Latest(t).status = "FAILED" /\ row.started = row.number
  \/ /\ row.status = "RUNNING" /\ Cleared(t)
     /\ row.owner # 0 /\ row.owner = row.number /\ row.started = row.number
     /\ Latest(t).status = "RUNNING"
  \/ /\ row.status = "SUCCEEDED" /\ content[ContentOf[t]].status = "PUBLISHED"
     /\ row.owner = 0 /\ row.error = "none" /\ row.retry = 0
     /\ EndsWith(t, "SUCCEEDED") /\ post[t] = row.number
  \/ /\ row.status = "FAILED" /\ row.owner = 0 /\ post[t] = 0
     /\ EndsWith(t, "FAILED") /\ row.error \in SafeErrors /\ Latest(t).error = row.error
     /\ row.retry = (IF Latest(t).retry_at = "none" THEN 0 ELSE row.number)
  \/ /\ row.status = "CANCELED" /\ row.owner = 0 /\ row.error = "none" /\ row.retry = 0
     /\ post[t] = 0 /\ row.finished # 0
     /\ IF row.number = 0 THEN row.started = 0 ELSE EndsWith(t, "CANCELED")

\* publish_task_is_consistent
Consistent(t) ==
  content[ContentOf[t]].current /\ HistoryConsistent(t) /\ StatusConsistent(t)

-----------------------------------------------------------------------------
Init ==
  /\ task = [t \in Tasks |-> NoTask]
  /\ attempt = [t \in Tasks |-> [n \in Numbers |-> NoAttempt]]
  /\ post = [t \in Tasks |-> 0]
  /\ content = [c \in Contents |-> [status |-> "APPROVED", superseded |-> FALSE,
                                   current |-> TRUE]]
  /\ ready = [a \in Accounts |-> TRUE]
  /\ external = [t \in Tasks |-> {}]
  /\ messages = [t \in Tasks |-> 0] /\ lost = {}
  /\ call = [t \in Tasks |-> [n \in Numbers |-> "none"]]
  /\ request = [r \in Requests |-> Free]

Dispatch(t) == messages' = [messages EXCEPT ![t] = @ + 1] /\ lost' = lost \ {t}

(* create_publish_task for a key not used yet; a key in use changes nothing. *)
CreatePublishTask(t, scheduled) ==
  /\ task[t].status = "ABSENT"
  /\ Publishable(ContentOf[t]) /\ ready[AccountOf[t]]
  /\ IF scheduled
     THEN /\ task' = [task EXCEPT ![t].status = "SCHEDULED", ![t].slot = "future"]
          /\ UNCHANGED queueVars
     ELSE /\ task' = [task EXCEPT ![t].status = "QUEUED"]
          /\ Dispatch(t)
  /\ UNCHANGED <<attempt, post, envVars, external, call, request>>

(* enqueue_due_publish_tasks, every 60 seconds from beat.  One call queues   *)
(* every due row in one transaction.                                         *)
Due == {t \in Tasks : task[t].status = "SCHEDULED" /\ task[t].slot = "due"}

EnqueueDue ==
  /\ Due # {}
  /\ task' = [t \in Tasks |-> IF t \in Due THEN [task[t] EXCEPT !.status = "QUEUED"] ELSE task[t]]
  /\ messages' = [t \in Tasks |-> messages[t] + (IF t \in Due THEN 1 ELSE 0)]
  /\ lost' = lost \ Due
  /\ UNCHANGED <<attempt, post, envVars, external, call, request>>

-----------------------------------------------------------------------------
(* API actions.  PublishActionView.post loads the task and runs the validator *)
(* (404 when it fails), then the service locks the row and decides again.     *)

Admit(r, op, t) ==
  /\ request[r] = Free
  /\ task[t].status # "ABSENT" /\ Consistent(t)
  /\ request' = [request EXCEPT ![r] = <<op, t>>]
  /\ UNCHANGED <<taskVars, envVars, external, queueVars, call>>

Serve(r, op, t) ==
  /\ request[r] = <<op, t>>
  /\ request' = [request EXCEPT ![r] = Free]

\* Definitions named *_mut are plausible mistakes in the definition that follows
\* them; none is used by the specification.  Replacing the definition by its
\* mistake must break the property README.md names.
CanCancel(t) == task[t].status \in {"SCHEDULED", "QUEUED", "RUNNING"}
CanRetry_unbounded_mut(t) == task[t].status = "FAILED" /\ task[t].error # "TOKEN_EXPIRED"
CanRetry(t) ==
  /\ task[t].status = "FAILED"
  /\ task[t].number < MaxAttempts
  /\ task[t].error # "TOKEN_EXPIRED"
  /\ task[t].retry # 0 => attempt[t][task[t].retry].retry_at = "elapsed"
CanRunNow(t) == task[t].status = "SCHEDULED"

(* cancel_publish_task *)
Cancel(r, t) ==
  LET token == task[t].owner IN
  /\ Serve(r, "cancel", t)
  /\ CanCancel(t)
  /\ task' = [task EXCEPT ![t].status = "CANCELED", ![t].owner = 0,
                          ![t].finished = IF token = 0 THEN Alone ELSE token]
  /\ attempt' = IF token = 0 THEN attempt ELSE [attempt EXCEPT ![t][token] = CanceledAttempt]
  /\ UNCHANGED <<post, envVars, external, queueVars, call>>

(* retry_publish_task *)
Retry_mut(r, t) ==
  /\ Serve(r, "retry", t) /\ CanRetry(t)
  /\ task' = [task EXCEPT ![t].status = "QUEUED", ![t].retry = 0, ![t].finished = 0]
  /\ Dispatch(t)
  /\ UNCHANGED <<attempt, post, envVars, external, call>>
Retry(r, t) ==
  /\ Serve(r, "retry", t)
  /\ CanRetry(t)
  /\ task' = [task EXCEPT ![t].status = "QUEUED", ![t].error = "none",
                          ![t].retry = 0, ![t].finished = 0]
  /\ Dispatch(t)
  /\ UNCHANGED <<attempt, post, envVars, external, call>>

(* run_publish_task_now *)
RunNow(r, t) ==
  /\ Serve(r, "run", t)
  /\ CanRunNow(t)
  /\ task' = [task EXCEPT ![t].status = "QUEUED"]
  /\ Dispatch(t)
  /\ UNCHANGED <<attempt, post, envVars, external, call>>

(* The row moved between the check and the lock: 409, nothing changes.       *)
(* Canceling a CANCELED task returns it unchanged.                           *)
Refuse(r, op, t) ==
  /\ Serve(r, op, t)
  /\ \/ op = "cancel" /\ ~CanCancel(t)
     \/ op = "retry" /\ ~CanRetry(t)
     \/ op = "run" /\ ~CanRunNow(t)
  /\ UNCHANGED <<taskVars, envVars, external, queueVars, call>>

-----------------------------------------------------------------------------
(* execute_publish_task: claim, call the platform, finalize. *)

Receive(t) == messages[t] > 0 /\ messages' = [messages EXCEPT ![t] = @ - 1] /\ UNCHANGED lost
Becomes(t, n, state) == call' = [call EXCEPT ![t][n] = state]

Claimable_mut(t) == post[t] = 0 /\ task[t].status = "QUEUED" /\ task[t].number = 0
Claimable(t) == post[t] = 0 /\ task[t].status = "QUEUED"
Eligible(t) == Consistent(t) /\ Publishable(ContentOf[t]) /\ ready[AccountOf[t]]

(* A worker takes the message and claims the task: claim_publish_task. *)
Claim(t) ==
  LET n == task[t].number + 1 IN
  /\ Receive(t)
  /\ Claimable(t) /\ Eligible(t)
  /\ task' = [task EXCEPT ![t].status = "RUNNING", ![t].owner = n, ![t].number = n,
                          ![t].lease = "live", ![t].started = n, ![t].finished = 0,
                          ![t].error = "none"]
  /\ attempt' = [attempt EXCEPT ![t][n] = RunningAttempt]
  /\ Becomes(t, n, "calling")
  /\ UNCHANGED <<post, envVars, external, request>>

(* The claim re-checks everything and burns an attempt when a check fails. *)
ClaimIneligible(t) ==
  LET n == task[t].number + 1 IN
  /\ Receive(t)
  /\ Claimable(t) /\ ~Eligible(t)
  /\ task' = [task EXCEPT ![t].status = "FAILED", ![t].owner = 0, ![t].number = n,
                          ![t].started = n, ![t].finished = n,
                          ![t].error = "PUBLISH_NOT_ELIGIBLE", ![t].retry = 0]
  /\ attempt' = [attempt EXCEPT ![t][n] = FailedAttempt("PUBLISH_NOT_ELIGIBLE", "none")]
  /\ UNCHANGED <<post, envVars, external, call, request>>

(* A duplicate or late message: the post exists or the task is not QUEUED. *)
ClaimNothing(t) ==
  /\ Receive(t)
  /\ ~Claimable(t)
  /\ UNCHANGED <<taskVars, envVars, external, call, request>>

(* The platform creates the post; its answer is still on its way. *)
ProviderAccepts(t, n) ==
  /\ call[t][n] = "calling"
  /\ external' = [external EXCEPT ![t] = @ \cup {n}]
  /\ Becomes(t, n, "accepted")
  /\ UNCHANGED <<taskVars, envVars, queueVars, request>>

Owns_mut(t, n) == task[t].number = n
Owns(t, n) == task[t].status = "RUNNING" /\ task[t].owner = n

\* Both complete_* functions mark a superseded attempt STALE if it still runs.
DiscardLateResult_publishes_mut(t, n) ==
  /\ content' = [content EXCEPT ![ContentOf[t]].status = "PUBLISHED"]
  /\ UNCHANGED <<task, attempt, post>>
DiscardLateResult(t, n) ==
  /\ attempt' = IF attempt[t][n].status = "RUNNING"
                THEN [attempt EXCEPT ![t][n] = StaleAttempt] ELSE attempt
  /\ UNCHANGED <<task, post, content>>

\* transition_content "PUBLISH" audits its actor and takes only the current head.
\* It reads the brief without locking it; nothing it writes is read by what
\* moves the brief, so a move in between is a move right after it.
Finalizable(t) ==
  \/ content[ContentOf[t]].status = "PUBLISHED"
  \/ Publishable(ContentOf[t]) /\ t \in WithActor

(* complete_publish_success *)
CompleteSuccess(t, n) ==
  /\ call[t][n] = "accepted"
  /\ \/ /\ Owns(t, n) /\ Finalizable(t)
        /\ post' = [post EXCEPT ![t] = n]
        /\ content' = [content EXCEPT ![ContentOf[t]].status = "PUBLISHED"]
        /\ task' = [task EXCEPT ![t].status = "SUCCEEDED", ![t].owner = 0, ![t].error = "none",
                                ![t].retry = 0, ![t].finished = n]
        /\ attempt' = [attempt EXCEPT ![t][n] = SucceededAttempt]
     \/ ~Owns(t, n) /\ DiscardLateResult(t, n)
  /\ Becomes(t, n, "none")
  /\ UNCHANGED <<ready, external, queueVars, request>>

(* complete_publish_success raised and rolled back: the content cannot be     *)
(* published any more, or the platform accepted without a usable post id.     *)
FinalizeRaises(t, n) ==
  /\ call[t][n] = "accepted" /\ Owns(t, n)
  /\ Becomes(t, n, "unfinalized")
  /\ UNCHANGED <<taskVars, envVars, external, queueVars, request>>

\* What complete_publish_failure may be told.  Once the platform has acted, a
\* timeout or a refusal on the way comes back as PROVIDER_ERROR, and a 429 to
\* the question for the post's status as RATE_LIMITED; a 401 is no safe code.
Reported_mut(t, n) ==
  CASE call[t][n] \in {"calling", "accepted"} -> ProviderErrors
    [] call[t][n] = "unfinalized"             -> {"PUBLISH_FINALIZE_ERROR"}
    [] OTHER                                  -> {}
Reported(t, n) ==
  CASE call[t][n] = "calling"     -> ProviderErrors
    [] call[t][n] = "accepted"    -> {"PROVIDER_ERROR", "RATE_LIMITED"}
    [] call[t][n] = "unfinalized" -> {"PUBLISH_FINALIZE_ERROR"}
    [] OTHER                      -> {}

(* complete_publish_failure *)
CompleteFailure(t, n, e) ==
  LET limited == e = "RATE_LIMITED" IN
  /\ e \in Reported(t, n)
  /\ \/ /\ Owns(t, n)
        /\ task' = [task EXCEPT ![t].status = "FAILED", ![t].owner = 0, ![t].error = e,
                                ![t].retry = (IF limited THEN n ELSE 0), ![t].finished = n]
        /\ attempt' = [attempt EXCEPT
                         ![t][n] = FailedAttempt(e, IF limited THEN "waiting" ELSE "none")]
        /\ UNCHANGED <<post, content>>
     \/ ~Owns(t, n) /\ DiscardLateResult(t, n)
  /\ Becomes(t, n, "none")
  /\ UNCHANGED <<ready, external, queueVars, request>>

(* reap_stale_publish_tasks, every 60 seconds from beat, all stale rows at once. *)
StaleTasks == {t \in Tasks : task[t].status = "RUNNING" /\ task[t].lease = "expired"}

Reap ==
  /\ StaleTasks # {}
  /\ task' = [t \in Tasks |->
       IF t \in StaleTasks
       THEN [task[t] EXCEPT !.status = "FAILED", !.error = "STALE_WORKER",
                            !.finished = task[t].owner, !.owner = 0]
       ELSE task[t]]
  /\ attempt' = [t \in Tasks |-> [n \in Numbers |->
       IF t \in StaleTasks /\ n = task[t].owner /\ attempt[t][n].status = "RUNNING"
       THEN ReapedAttempt ELSE attempt[t][n]]]
  /\ UNCHANGED <<post, envVars, external, queueVars, call, request>>

-----------------------------------------------------------------------------
(* The environment: time, the broker, crashes, reviewers and account owners. *)

SlotComesDue(t) ==
  /\ task[t].status = "SCHEDULED" /\ task[t].slot = "future"
  /\ task' = [task EXCEPT ![t].slot = "due"]
  /\ UNCHANGED <<attempt, post, envVars, external, queueVars, call, request>>

LeaseExpires(t) ==
  /\ task[t].status = "RUNNING" /\ task[t].lease = "live"
  /\ task' = [task EXCEPT ![t].lease = "expired"]
  /\ UNCHANGED <<attempt, post, envVars, external, queueVars, call, request>>

PauseElapses(t) ==
  /\ task[t].number > 0 /\ Latest(t).retry_at = "waiting"
  /\ attempt' = [attempt EXCEPT ![t][task[t].number].retry_at = "elapsed"]
  /\ UNCHANGED <<task, post, envVars, external, queueVars, call, request>>

(* Messages are acknowledged on receipt, so one is gone when the broker drops *)
(* it, when the worker that took it dies before its claim commits, and when   *)
(* the claim skips a row that another transaction holds.                      *)
LoseMessage(t) ==
  /\ messages[t] > 0
  /\ messages' = [messages EXCEPT ![t] = @ - 1] /\ lost' = lost \cup {t}
  /\ UNCHANGED <<taskVars, envVars, external, call, request>>

(* A killed worker leaves its claim to the reaper. *)
WorkerDies(t, n) ==
  /\ call[t][n] # "none"
  /\ Becomes(t, n, "none")
  /\ UNCHANGED <<taskVars, envVars, external, queueVars, request>>

ArchiveContent(c) ==
  /\ content[c].status # "ARCHIVED" /\ content[c].current
  /\ content' = [content EXCEPT ![c].status = "ARCHIVED"]
  /\ UNCHANGED <<taskVars, ready, external, queueVars, call, request>>

ReviseContent(c) ==
  /\ content[c].status # "ARCHIVED" /\ ~content[c].superseded /\ content[c].current
  /\ content' = [content EXCEPT ![c].superseded = TRUE]
  /\ UNCHANGED <<taskVars, ready, external, queueVars, call, request>>

(* Its brief is archived or restored and takes a new version, for good. *)
BriefMoves(c) ==
  /\ content[c].current
  /\ content' = [content EXCEPT ![c].current = FALSE]
  /\ UNCHANGED <<taskVars, ready, external, queueVars, call, request>>

AccountChanges(a) ==
  /\ ready' = [ready EXCEPT ![a] = ~@]
  /\ UNCHANGED <<taskVars, content, external, queueVars, call, request>>

-----------------------------------------------------------------------------
TaskStep(t) ==
  \/ \E scheduled \in BOOLEAN : CreatePublishTask(t, scheduled)
  \/ SlotComesDue(t) \/ LeaseExpires(t) \/ PauseElapses(t) \/ LoseMessage(t)

RequestStep(r, t) ==
  \/ \E op \in Operations : Admit(r, op, t) \/ Refuse(r, op, t)
  \/ Cancel(r, t) \/ Retry(r, t) \/ RunNow(r, t)

Deliver(t) == Claim(t) \/ ClaimIneligible(t) \/ ClaimNothing(t)

WorkerStep(t, n) ==
  \/ ProviderAccepts(t, n) \/ CompleteSuccess(t, n) \/ FinalizeRaises(t, n)
  \/ \E e \in SafeErrors : CompleteFailure(t, n, e)
  \/ WorkerDies(t, n)

Next ==
  \/ \E t \in Tasks : TaskStep(t) \/ Deliver(t)
  \/ \E r \in Requests, t \in Tasks : RequestStep(r, t)
  \/ \E t \in Tasks, n \in Numbers : WorkerStep(t, n)
  \/ EnqueueDue \/ Reap
  \/ \E c \in Contents : ArchiveContent(c) \/ ReviseContent(c) \/ BriefMoves(c)
  \/ \E a \in Accounts : AccountChanges(a)

Spec == Init /\ [][Next]_vars

(* Time passes, beat runs its entries every minute, and the worker pool takes *)
(* the messages that stay.  Nothing makes a user act, a platform answer, a    *)
(* message arrive, or a worker survive its claim or its call.                 *)
Fairness ==
  /\ \A t \in Tasks : /\ WF_vars(SlotComesDue(t)) /\ WF_vars(LeaseExpires(t))
                      /\ WF_vars(Deliver(t))
  /\ WF_vars(EnqueueDue) /\ WF_vars(Reap)

FairSpec == Spec /\ Fairness

-----------------------------------------------------------------------------
(* Properties *)

TypeOK ==
  /\ task \in [Tasks -> TaskRow]
  /\ attempt \in [Tasks -> [Numbers -> AttemptRow]]
  /\ post \in [Tasks -> 0..MaxAttempts]
  /\ content \in [Contents -> ContentRow]
  /\ ready \in [Accounts -> BOOLEAN]
  /\ external \in [Tasks -> SUBSET Numbers]
  /\ messages \in [Tasks -> Nat] /\ lost \subseteq Tasks
  /\ call \in [Tasks -> [Numbers -> CallStates]]
  /\ request \in [Requests -> (Operations \X Tasks) \cup {Free}]

(* The claim token fences a task: a task is RUNNING exactly while its latest *)
(* attempt is, and that attempt alone holds the token.  So the STALE branch  *)
(* of the complete_* functions never finds anything to mark.                 *)
Fenced ==
  \A t \in Tasks :
    /\ task[t].status = "RUNNING" <=> task[t].owner # 0
    /\ task[t].owner # 0 => task[t].owner = task[t].number
    /\ \A n \in Numbers : /\ attempt[t][n].status = "RUNNING" <=> task[t].owner = n
                          /\ attempt[t][n].status # "STALE"

(* A PublishedPost row exists exactly for a SUCCEEDED task, names its last   *)
(* attempt, and that attempt did create a post on the platform; its content  *)
(* has left APPROVED for good.                                               *)
PostIsBacked ==
  \A t \in Tasks :
    /\ post[t] # 0 <=> task[t].status = "SUCCEEDED"
    /\ post[t] # 0 => /\ post[t] = task[t].number
                      /\ Latest(t) = SucceededAttempt
                      /\ post[t] \in external[t]
                      /\ content[ContentOf[t]].status \in {"PUBLISHED", "ARCHIVED"}

(* Content is PUBLISHED only because some task of it has its post recorded,  *)
(* whichever of the tasks that share the content finalized first.            *)
PublishedBecausePosted ==
  \A c \in Contents : content[c].status = "PUBLISHED" =>
    \E t \in Tasks : ContentOf[t] = c /\ post[t] # 0

(* An attempt is followed by another only if it failed, for a reason that    *)
(* may be retried, and after the pause the platform asked for: the task      *)
(* never runs out of its attempt budget, whoever queued it again.            *)
RetryDiscipline ==
  \A t \in Tasks :
    /\ task[t].status = "QUEUED" => task[t].number < MaxAttempts
    /\ \A n \in 1..task[t].number :
          n < task[t].number \/ task[t].status = "QUEUED" =>
            /\ attempt[t][n].status = "FAILED"
            /\ attempt[t][n].error # "TOKEN_EXPIRED"
            /\ attempt[t][n].retry_at # "waiting"

Reaped(t) == \E n \in 1..task[t].number : attempt[t][n] = ReapedAttempt
CanceledAfterFailure(t) ==
  task[t].status = "CANCELED" /\ task[t].number > 0 /\ Latest(t).status = "FAILED"
ArchivedAfterPublishing(t) ==
  task[t].status = "SUCCEEDED" /\ content[ContentOf[t]].status = "ARCHIVED"

LeftBehind(t) == ~content[ContentOf[t]].current

(* Which tasks the program's validator rejects, and so hides from every API  *)
(* read and bars from every claim: those the reaper ever failed, those       *)
(* canceled while waiting for a retry, those whose published content was     *)
(* archived, and, published or not, all those whose brief was ever archived  *)
(* or restored after its content was made.  What workers, the reaper, the    *)
(* schedule and users do to a task fails it in no other way.                 *)
ValidatorVerdict ==
  \A t \in Tasks : task[t].status # "ABSENT" =>
    (Consistent(t) <=>
       ~ \/ Reaped(t) \/ CanceledAfterFailure(t)
         \/ ArchivedAfterPublishing(t) \/ LeftBehind(t))

(* A post the platform has and the system did not record was made by an       *)
(* attempt that is still running, was canceled or reaped under the worker, or *)
(* ended in an unclassified error, in a rate limit or in a finalization that  *)
(* raised: expired tokens and failed eligibility checks, the two refusals     *)
(* that say nothing was sent, never leave one behind.                         *)
OrphanPostsAreExplained ==
  \A t \in Tasks : \A n \in external[t] :
    n # post[t] =>
      \/ attempt[t][n].status \in {"RUNNING", "CANCELED"}
      \/ attempt[t][n].error \in {"PROVIDER_ERROR", "RATE_LIMITED",
                                  "PUBLISH_FINALIZE_ERROR", "STALE_WORKER"}

(* The four places that dispatch run_publish_task never leave two messages    *)
(* for one task, and a QUEUED task has one unless it was lost; no claim that  *)
(* runs to its end uses the message up and leaves the task QUEUED.            *)
QueuedIsDispatched ==
  \A t \in Tasks :
    /\ messages[t] <= 1
    /\ task[t].status = "QUEUED" => (messages[t] = 1 <=> t \notin lost)

(* The inductive invariant behind the safety theorems of PublishingProofs. *)

\* Token, number and status of a task agree.
LeaseInv(t) ==
  /\ task[t].status \in {"ABSENT", "SCHEDULED"} => task[t].number = 0
  /\ task[t].status = "QUEUED" => task[t].number < MaxAttempts
  /\ task[t].status = "RUNNING" <=> task[t].owner # 0
  /\ task[t].owner # 0 => task[t].owner = task[t].number
  /\ task[t].status \in {"FAILED", "SUCCEEDED"} => task[t].number > 0

\* What each attempt looks like, given its place in the history.
HistoryInv(t) ==
  \A n \in Numbers :
    /\ n > task[t].number => attempt[t][n] = NoAttempt
    /\ attempt[t][n].status = "RUNNING" <=> task[t].owner = n
    /\ attempt[t][n].status # "STALE"
    /\ n < task[t].number \/ (n = task[t].number /\ task[t].status = "QUEUED") =>
         /\ attempt[t][n].status = "FAILED"
         /\ attempt[t][n].error # "TOKEN_EXPIRED"
         /\ attempt[t][n].retry_at # "waiting"
    /\ n = task[t].number /\ task[t].status = "FAILED" =>
         /\ attempt[t][n].status = "FAILED"
         /\ attempt[t][n].error = task[t].error
         /\ attempt[t][n].retry_at = "waiting" => task[t].retry = n
    /\ n = task[t].number /\ task[t].status = "CANCELED" => attempt[t][n].retry_at # "waiting"

\* A worker works on an attempt that exists, and an answer has a post behind it.
CallInv(t) ==
  \A n \in Numbers : /\ call[t][n] # "none" => n <= task[t].number
                     /\ call[t][n] = "accepted" => n \in external[t]

PostInv(t) ==
  /\ post[t] # 0 <=> task[t].status = "SUCCEEDED"
  /\ post[t] # 0 => /\ post[t] = task[t].number
                    /\ Latest(t) = SucceededAttempt
                    /\ post[t] \in external[t]
                    /\ content[ContentOf[t]].status \in {"PUBLISHED", "ARCHIVED"}

MessageInv(t) ==
  /\ messages[t] <= 1
  /\ messages[t] = 1 => task[t].status \in {"QUEUED", "CANCELED"}
  /\ task[t].status = "QUEUED" => (messages[t] = 1 <=> t \notin lost)

IInv ==
  /\ TypeOK
  /\ \A t \in Tasks :
       LeaseInv(t) /\ HistoryInv(t) /\ CallInv(t) /\ PostInv(t) /\ MessageInv(t)

(* Published and canceled are final: no late worker, reaper run, retry or    *)
(* schedule tick changes the task, its attempts or its post again.           *)
SettledForever ==
  [][\A t \in Tasks : task[t].status \in {"SUCCEEDED", "CANCELED"} =>
       task'[t] = task[t] /\ attempt'[t] = attempt[t] /\ post'[t] = post[t]]_vars

(* Every task that is waiting or running settles, whichever of its workers    *)
(* die, unless its message is lost: then it is stranded, for nothing in the   *)
(* code dispatches a QUEUED task again.                                       *)
Active(t) == task[t].status \in {"SCHEDULED", "QUEUED", "RUNNING"}
Stranded(t) == task[t].status = "QUEUED" /\ t \in lost
ActiveSettles == \A t \in Tasks : Active(t) ~> ~Active(t) \/ Stranded(t)

(* The engine implements the fenced publication it promises: the task number  *)
(* is the fence, the claim token the lease, the PublishedPost row the winner. *)
Phase(t) ==
  CASE task[t].status = "ABSENT"    -> "absent"
    [] task[t].status = "FAILED"    -> "failed"
    [] task[t].status = "SUCCEEDED" -> "published"
    [] task[t].status = "CANCELED"  -> "withdrawn"
    [] OTHER                        -> "open"

Promise == INSTANCE FencedPublication WITH
  Keys <- Tasks, MaxFence <- MaxAttempts,
  phase <- [t \in Tasks |-> Phase(t)],
  fence <- [t \in Tasks |-> task[t].number],
  holder <- [t \in Tasks |-> task[t].owner],
  winner <- post
KeepsPromise == Promise!FencedSpec
=============================================================================
