----------------------------- MODULE PublishBatch -----------------------------
(******************************************************************************)
(* One-click publishing: backend/apps/growth/publishing.py with the tasks of  *)
(* growth/tasks.py and the views that call it.  A batch holds one item per    *)
(* selected channel package.  An item whose package has a source platform     *)
(* content and an API_AUTO account is delegated to the publish-task engine,   *)
(* whose promise, FencedPublication, this module builds on; any other item is *)
(* posted by a worker of its own.  The items of a delegated package in        *)
(* several batches share one publish task.                                    *)
(*                                                                            *)
(* _execute_item holds its transaction over the platform call, so RUNNING is  *)
(* never visible to another transaction, of an item or of a batch.            *)
(******************************************************************************)
EXTENDS FencedPublication, FiniteSets

CONSTANTS
  Packages,    \* channel packages; those in Keys have a source platform content and
               \* an account whose publish_mode is API_AUTO
  Batches,     \* batches, numbered in the order of their items' ids
  Selected,    \* the packages each batch was requested for
  WebCrashes,  \* TRUE when a web process may be lost before it has dispatched
  MaxRetries   \* bound on the retry-failed requests served in all

ASSUME SelectionAssumption ==
  /\ Keys \subseteq Packages
  /\ Batches \subseteq Nat /\ IsFiniteSet(Batches)
  /\ Selected \in [Batches -> SUBSET Packages] /\ \A b \in Batches : Selected[b] # {}
ASSUME BoundsAssumption == MaxFence \in Nat /\ MaxRetries \in Nat
ASSUME CrashAssumption == WebCrashes \in BOOLEAN

VARIABLES
  batch,     \* GrowthPublishBatch.status, ABSENT before the request
  item,      \* GrowthPublishItem status of each package, per batch
  linked,    \* the packages of each batch whose item has a publish_task
  queue,     \* execute_growth_publish_item messages in the broker
  busy,      \* what the worker that holds the lock on an item row is doing
  posts,     \* posts the direct executions of an item made on its platform
  unknown,   \* how many of them the item was never told of
  outbox,    \* items the request serving a batch has yet to dispatch
  refresh,   \* the batch refresh of that request: none, due, or what it will save
  retries,   \* retry-failed requests served
  sync       \* the transaction that copies a task's outcome into an item it locked

batchVars == <<batch, item, linked, queue, busy, posts, unknown, outbox, refresh, retries, sync>>
itemVars == <<item, linked>>
workerVars == <<queue, busy, posts, unknown>>
webVars == <<outbox, refresh, retries>>
vars == <<fenceVars, batchVars>>

-----------------------------------------------------------------------------
\* RETRYABLE is FAILED with last_error.retryable true.
ItemStatus == {"NONE", "QUEUED", "DELEGATED", "SUCCEEDED", "FAILED", "RETRYABLE", "SKIPPED"}
BatchStatus == {"QUEUED", "PARTIAL_SUCCESS", "SUCCEEDED", "FAILED", "CONFIGURATION_REQUIRED"}
Waiting == {"QUEUED", "DELEGATED"}
Failed == {"FAILED", "RETRYABLE"}
NoSync == [item |-> "NONE", status |-> "none"]

\* The status _refresh_batch_status computes from the items' statuses.
Aggregate_mut(b, s) ==
  LET seen == {s[p] : p \in Selected[b]} \ {"SKIPPED"} IN
  CASE seen \cap Waiting # {} -> "QUEUED"
    [] seen = {"SUCCEEDED"} -> "SUCCEEDED"
    [] seen \cap Waiting = {} /\ "SUCCEEDED" \in seen /\ seen # {"SUCCEEDED"} -> "PARTIAL_SUCCESS"
    [] seen \subseteq Failed /\ seen # {} -> "FAILED"
    [] OTHER -> "CONFIGURATION_REQUIRED"
Aggregate(b, s) ==
  LET seen == {s[p] : p \in Selected[b]} IN
  CASE seen \cap Waiting # {}                   -> "QUEUED"
    [] seen = {"SUCCEEDED"}                     -> "SUCCEEDED"
    [] seen \cap Waiting = {} /\ "SUCCEEDED" \in seen /\ seen # {"SUCCEEDED"}
                                                -> "PARTIAL_SUCCESS"
    [] seen \subseteq Failed \cup {"SKIPPED"} /\ seen # {"SKIPPED"}
                                                -> "FAILED"
    [] OTHER                                    -> "CONFIGURATION_REQUIRED"

\* What it saves, given the batch status it read: nothing when they agree.
ToSave(b, s) == IF Aggregate(b, s) = batch[b] THEN "none" ELSE Aggregate(b, s)

Init ==
  /\ FencedInit
  /\ batch = [b \in Batches |-> "ABSENT"]
  /\ item = [b \in Batches |-> [p \in Packages |-> "NONE"]]
  /\ linked = [b \in Batches |-> {}]
  /\ queue = [b \in Batches |-> [p \in Packages |-> 0]]
  /\ busy = [b \in Batches |-> [p \in Packages |-> "idle"]]
  /\ posts = [b \in Batches |-> [p \in Packages |-> 0]]
  /\ unknown = [b \in Batches |-> [p \in Packages |-> 0]]
  /\ outbox = [b \in Batches |-> {}]
  /\ refresh = [b \in Batches |-> "none"]
  /\ retries = 0
  /\ sync = [b \in Batches |-> [k \in Keys |-> NoSync]]

-----------------------------------------------------------------------------
(* API requests *)

\* An item starts SKIPPED when its package is unapproved or its account is
\* missing or fails the preflight, and FAILED when create_publish_task refuses.
Outcomes(p) == {"SKIPPED"} \cup (IF p \in Keys THEN {"DELEGATED", "FAILED"} ELSE {"QUEUED"})

(* create_publish_batch, its transaction.  A key in use changes nothing.       *)
CreatePublishBatch(b) ==
  /\ batch[b] = "ABSENT"
  /\ \E outcome \in [Selected[b] -> ItemStatus] :
       LET delegated == {p \in Selected[b] : outcome[p] = "DELEGATED"} IN
       /\ \A p \in Selected[b] : outcome[p] \in Outcomes(p)
       /\ Submit({k \in delegated : phase[k] = "absent"})
       /\ item' = [item EXCEPT ![b] =
                     [p \in Packages |-> IF p \in Selected[b] THEN outcome[p] ELSE "NONE"]]
       /\ linked' = [linked EXCEPT ![b] = delegated]
       /\ outbox' = [outbox EXCEPT ![b] = {p \in Selected[b] : outcome[p] = "QUEUED"}]
  /\ batch' = [batch EXCEPT ![b] = "QUEUED"]
  /\ refresh' = [refresh EXCEPT ![b] = "due"]
  /\ UNCHANGED <<workerVars, retries, sync>>

\* The items retry_failed_items selects.
Retryable(b) == {p \in Selected[b] : item[b][p] = "RETRYABLE"}

(* retry_failed_items: read without a lock, dispatched without marking.        *)
RetryFailedItems(b) ==
  /\ batch[b] # "ABSENT" /\ refresh[b] = "none" /\ retries < MaxRetries
  /\ outbox' = [outbox EXCEPT ![b] = Retryable(b)]
  /\ refresh' = [refresh EXCEPT ![b] = "due"]
  /\ retries' = retries + 1
  /\ UNCHANGED <<fenceVars, batch, itemVars, workerVars, sync>>

Dispatch(b, p) ==
  /\ p \in outbox[b]
  /\ outbox' = [outbox EXCEPT ![b] = @ \ {p}]
  /\ queue' = [queue EXCEPT ![b][p] = @ + 1]
  /\ UNCHANGED <<fenceVars, batch, itemVars, busy, posts, unknown, refresh, retries, sync>>

(* _refresh_batch_status outside any transaction: two steps, no lock.          *)
RefreshReads(b) ==
  /\ refresh[b] = "due" /\ outbox[b] = {}
  /\ refresh' = [refresh EXCEPT ![b] = ToSave(b, item[b])]
  /\ UNCHANGED <<fenceVars, batch, itemVars, workerVars, outbox, retries, sync>>

RefreshSaves(b) ==
  /\ refresh[b] \in BatchStatus
  /\ batch' = [batch EXCEPT ![b] = refresh[b]]
  /\ refresh' = [refresh EXCEPT ![b] = "none"]
  /\ UNCHANGED <<fenceVars, itemVars, workerVars, outbox, retries, sync>>

(* The web process or its connection to the broker is lost on the way.         *)
WebDies(b) ==
  /\ WebCrashes /\ refresh[b] # "none"
  /\ outbox' = [outbox EXCEPT ![b] = {}]
  /\ refresh' = [refresh EXCEPT ![b] = "none"]
  /\ UNCHANGED <<fenceVars, batch, itemVars, workerVars, retries, sync>>

-----------------------------------------------------------------------------
(* _execute_item.  The row stays locked until the worker commits or rolls back. *)

Executable_mut(b, p) == item[b][p] \in {"QUEUED", "SUCCEEDED"} \cup Failed
Executable(b, p) == item[b][p] \in {"QUEUED"} \cup Failed

Receive(b, p) ==
  /\ queue[b][p] > 0 /\ busy[b][p] = "idle"
  /\ queue' = [queue EXCEPT ![b][p] = @ - 1]
Becomes(b, p, state) == busy' = [busy EXCEPT ![b][p] = state]
Saves(b, p, status) == item' = [item EXCEPT ![b][p] = status]

Execute(b, p) ==
  /\ Receive(b, p) /\ Executable(b, p)
  /\ Becomes(b, p, "calling")
  /\ UNCHANGED <<fenceVars, batch, itemVars, posts, unknown, webVars, sync>>

\* The account turned out to be a demo connector.
ExecuteSkips(b, p) ==
  /\ Receive(b, p) /\ Executable(b, p)
  /\ Saves(b, p, "SKIPPED")
  /\ UNCHANGED <<fenceVars, batch, linked, busy, posts, unknown, webVars, sync>>

ExecuteNothing(b, p) ==
  /\ Receive(b, p) /\ ~Executable(b, p)
  /\ UNCHANGED <<fenceVars, batch, itemVars, busy, posts, unknown, webVars, sync>>

ProviderActs(b, p) ==
  /\ busy[b][p] = "calling"
  /\ posts' = [posts EXCEPT ![b][p] = @ + 1]
  /\ Becomes(b, p, "posted")
  /\ UNCHANGED <<fenceVars, batch, itemVars, queue, unknown, webVars, sync>>

ExecuteSucceeds(b, p) ==
  /\ busy[b][p] = "posted"
  /\ Saves(b, p, "SUCCEEDED") /\ Becomes(b, p, "idle")
  /\ UNCHANGED <<fenceVars, batch, linked, queue, posts, unknown, webVars, sync>>

\* What the platform did is lost to the item: only counted when it had acted.
Forgets(b, p) == unknown' = IF busy[b][p] = "posted" THEN [unknown EXCEPT ![b][p] = @ + 1] ELSE unknown

(* A receipt that reports a failure, whether or not the platform had acted: a *)
(* timeout is one, "OUTCOME_UNKNOWN" and retryable, and so is a later request *)
(* of the publication that is refused, retryable or not.                      *)
ExecuteFails(b, p, status) ==
  /\ busy[b][p] # "idle" /\ status \in Failed
  /\ Saves(b, p, status) /\ Forgets(b, p) /\ Becomes(b, p, "idle")
  /\ UNCHANGED <<fenceVars, batch, linked, queue, posts, webVars, sync>>

(* The connector raised, or the worker died: the transaction rolls back.       *)
ExecuteAborts(b, p) ==
  /\ busy[b][p] # "idle"
  /\ Forgets(b, p) /\ Becomes(b, p, "idle")
  /\ UNCHANGED <<fenceVars, batch, itemVars, queue, posts, webVars, sync>>

-----------------------------------------------------------------------------
(* sync_publish_item_from_task: one transaction, here its reads and its commit. *)

Holders(k) == {b \in Batches : k \in linked[b]}
\* .first() under Meta.ordering: items of one package differ in their id only.
HoldsFirst(b, k) == k \in linked[b] /\ \A c \in Holders(k) : b <= c

Outcome(k, status) ==
  CASE phase[k] = "published"              -> "SUCCEEDED"
    [] phase[k] \in {"failed", "withdrawn"} -> "FAILED"
    [] OTHER                               -> status

\* It locks the item, and sees its own write among the batch's items.
SyncBegins(b, k) ==
  LET synced == [item[b] EXCEPT ![k] = Outcome(k, @)] IN
  /\ HoldsFirst(b, k) /\ sync[b][k] = NoSync
  /\ sync' = [sync EXCEPT ![b][k] = [item |-> synced[k], status |-> ToSave(b, synced)]]
  /\ UNCHANGED <<fenceVars, batch, itemVars, workerVars, webVars>>

(* Every delivery of run_publish_task ends by sending a sync, whatever it did.  *)
RunReports(b, k) == phase[k] # "absent" /\ SyncBegins(b, k)

\* The tasks reconcile_delegated_publish_items finds, hourly from beat.
Reconcilable_mut(k) ==
  /\ \E b \in Holders(k) : item[b][k] = "DELEGATED"
  /\ phase[k] \in {"published", "failed"}
Reconcilable(k) ==
  /\ \E b \in Holders(k) : item[b][k] = "DELEGATED"
  /\ phase[k] \in {"published", "failed", "withdrawn"}
Reconcile(b, k) == Reconcilable(k) /\ SyncBegins(b, k)

SyncCommits(b, k) ==
  /\ sync[b][k] # NoSync
  /\ Saves(b, k, sync[b][k].item)
  /\ batch' = IF sync[b][k].status = "none" THEN batch
              ELSE [batch EXCEPT ![b] = sync[b][k].status]
  /\ sync' = [sync EXCEPT ![b][k] = NoSync]
  /\ UNCHANGED <<fenceVars, linked, workerVars, webVars>>

-----------------------------------------------------------------------------
(* The publish-task engine, by its promise; other callers submit tasks too.    *)
TaskMoves == FencedNext /\ UNCHANGED batchVars

RequestStep(b) ==
  \/ CreatePublishBatch(b) \/ RetryFailedItems(b)
  \/ RefreshReads(b) \/ RefreshSaves(b) \/ WebDies(b)

ItemStep(b, p) ==
  \/ Dispatch(b, p) \/ Execute(b, p) \/ ExecuteSkips(b, p) \/ ExecuteNothing(b, p)
  \/ ProviderActs(b, p) \/ ExecuteSucceeds(b, p) \/ ExecuteAborts(b, p)
  \/ \E status \in Failed : ExecuteFails(b, p, status)

SyncStep(b, k) == RunReports(b, k) \/ Reconcile(b, k) \/ SyncCommits(b, k)

Next ==
  \/ TaskMoves
  \/ \E b \in Batches : RequestStep(b)
  \/ \E b \in Batches, p \in Packages : ItemStep(b, p)
  \/ \E b \in Batches, k \in Keys : SyncStep(b, k)

Spec == Init /\ [][Next]_vars

(* Beat runs the reconciliation every hour.  A sync that rolls back changed  *)
(* nothing, as if it had not begun; one that begins is let to commit.        *)
Reconciling ==
  \A b \in Batches, k \in Keys : WF_sync(Reconcile(b, k)) /\ WF_sync(SyncCommits(b, k))
ReconcilingSpec == Spec /\ Reconciling

(* The web processes and the worker pool make progress too.                    *)
Serving ==
  /\ \A b \in Batches : WF_vars(RefreshReads(b)) /\ WF_vars(RefreshSaves(b))
  /\ \A b \in Batches, p \in Packages :
       /\ WF_vars(Dispatch(b, p)) /\ WF_vars(Execute(b, p)) /\ WF_vars(ExecuteNothing(b, p))
       /\ WF_vars(ExecuteSucceeds(b, p) \/ ExecuteAborts(b, p))
FairSpec == Spec /\ Reconciling /\ Serving

-----------------------------------------------------------------------------
(* Properties *)

TypeOK ==
  /\ phase \in [Keys -> {"absent", "open", "failed", "published", "withdrawn"}]
  /\ fence \in [Keys -> Nat] /\ holder \in [Keys -> Nat] /\ winner \in [Keys -> Nat]
  /\ batch \in [Batches -> BatchStatus \cup {"ABSENT"}]
  /\ item \in [Batches -> [Packages -> ItemStatus]]
  /\ linked \in [Batches -> SUBSET Keys]
  /\ queue \in [Batches -> [Packages -> Nat]]
  /\ busy \in [Batches -> [Packages -> {"idle", "calling", "posted"}]]
  /\ posts \in [Batches -> [Packages -> Nat]] /\ unknown \in [Batches -> [Packages -> Nat]]
  /\ outbox \in [Batches -> SUBSET Packages]
  /\ refresh \in [Batches -> BatchStatus \cup {"none", "due"}]
  /\ retries \in 0..MaxRetries
  /\ sync \in [Batches -> [Keys -> [item : ItemStatus, status : BatchStatus \cup {"none"}]]]

\* What a batch status, saved or about to be, says of its items' statuses s.
Supported(b, status, s) ==
  /\ status = "SUCCEEDED" => \A p \in Selected[b] : s[p] = "SUCCEEDED"
  /\ status = "PARTIAL_SUCCESS" => \E p \in Selected[b] : s[p] = "SUCCEEDED"
  /\ status = "CONFIGURATION_REQUIRED" => \A p \in Selected[b] : s[p] = "SKIPPED"
  /\ status \in BatchStatus \ {"QUEUED"} => \A p \in Selected[b] : s[p] \notin Waiting

(* An item that succeeded stays so and is never posted again, whatever       *)
(* duplicate execute messages, retries or syncs arrive late.                 *)
SucceededIsFinal ==
  [][\A b \in Batches, p \in Packages : item[b][p] = "SUCCEEDED" =>
       item'[b][p] = "SUCCEEDED" /\ posts'[b][p] = posts[b][p]]_vars

(* Every post a direct item made is its recorded success, is in flight, or was *)
(* forgotten by a timeout or a rollback: a second post of an item needs one of *)
(* those, however many times it is dispatched.  A delegated item makes none.   *)
PostsAreAccounted ==
  \A b \in Batches, p \in Packages :
    posts[b][p] = IF p \in linked[b] THEN 0
                  ELSE unknown[b][p] + (IF item[b][p] = "SUCCEEDED" THEN 1 ELSE 0)
                                     + (IF busy[b][p] = "posted" THEN 1 ELSE 0)

(* A delegated item says SUCCEEDED only if its publish task is published and *)
(* names the fence that won, even though the task moves on between a sync's  *)
(* reads and its commit.                                                     *)
SuccessIsBacked ==
  \A b \in Batches : \A k \in linked[b] : item[b][k] = "SUCCEEDED" =>
    phase[k] = "published" /\ winner[k] # 0

(* Once its task is published or canceled, the delegated item that holds it    *)
(* first learns it, even if every sync message was lost.  (Another batch whose *)
(* item has a lower id may take its place; it is then never told.)             *)
DelegatedSettles ==
  \A b \in Batches, k \in Keys :
    HoldsFirst(b, k) /\ phase[k] \in {"published", "withdrawn"}
      ~> ~HoldsFirst(b, k) \/ item[b][k] # "DELEGATED"

(* The inductive invariant behind the theorems of PublishBatchProofs. *)

\* Only an open task is held, and a published one has a winner.
FenceInv(k) == /\ holder[k] # 0 => phase[k] = "open"
               /\ phase[k] = "published" => winner[k] # 0

\* Before its request a batch has nothing; after it every item has a status.
RequestInv(b) ==
  /\ linked[b] \subseteq Selected[b]
  /\ batch[b] # "ABSENT" => \A p \in Selected[b] : item[b][p] # "NONE"
  /\ batch[b] = "ABSENT" => /\ linked[b] = {} /\ outbox[b] = {} /\ refresh[b] = "none"
                            /\ \A p \in Packages : /\ item[b][p] = "NONE" /\ queue[b][p] = 0
                                                   /\ posts[b][p] = 0 /\ unknown[b][p] = 0

\* Only a sync writes a linked item; only an execution under way any other.
ItemInv(b, p) ==
  /\ p \in linked[b] =>
       /\ item[b][p] \in {"DELEGATED", "SUCCEEDED", "FAILED"}
       /\ p \notin outbox[b] /\ queue[b][p] = 0 /\ unknown[b][p] = 0
  /\ busy[b][p] # "idle" => p \notin linked[b] /\ item[b][p] \in {"QUEUED"} \cup Failed

\* A success is final and no item waits again: what item statuses may become.
MayBecome(old, new) ==
  /\ old \in {"SUCCEEDED", "SKIPPED"} => new = old
  /\ new \in Waiting => old \in Waiting

\* A sync under way writes what its item may still become.
SyncInv(b, k) ==
  sync[b][k] # NoSync =>
    /\ k \in linked[b]
    /\ sync[b][k].item \in {"DELEGATED", "SUCCEEDED", "FAILED"}
    /\ MayBecome(item[b][k], sync[b][k].item)
    /\ sync[b][k].item = "SUCCEEDED" => phase[k] = "published"
    /\ Supported(b, sync[b][k].status, [item[b] EXCEPT ![k] = sync[b][k].item])

\* A batch never says more than its items, whichever of the unlocked refreshes
\* and concurrent syncs saves last (Supported), every post has its account and
\* every delegated success its task.
BatchInv ==
  /\ TypeOK
  /\ \A k \in Keys : FenceInv(k)
  /\ \A b \in Batches :
       /\ RequestInv(b)
       /\ Supported(b, batch[b], item[b])
       /\ Supported(b, refresh[b], item[b])
       /\ \A p \in Packages : ItemInv(b, p)
       /\ \A k \in Keys : SyncInv(b, k)
  /\ PostsAreAccounted /\ SuccessIsBacked

=============================================================================
