-------------------------- MODULE PublishBatchProofs --------------------------
(*****************************************************************************)
(* One-click publishing for any packages, batches, selections and bounds:    *)
(* BatchInv is inductive, so a batch never overclaims, every post of an item *)
(* is accounted for, a delegated success is backed by its publish task, and  *)
(* success is final.  The reconciliation's liveness is left to TLC.          *)
(*****************************************************************************)
EXTENDS PublishBatch, TLAPS

USE SelectionAssumption, BoundsAssumption, CrashAssumption

-----------------------------------------------------------------------------
(* Batch statuses *)

\* What is computed from items that all have a status is true of them.
LEMMA AggregateIsSupported ==
  ASSUME NEW b \in Batches, NEW s \in [Packages -> ItemStatus],
         \A p \in Selected[b] : s[p] # "NONE"
  PROVE  Aggregate(b, s) \in BatchStatus /\ Supported(b, Aggregate(b, s), s)
<1> DEFINE seen == {s[p] : p \in Selected[b]}
<1>1. seen \subseteq ItemStatus \ {"NONE"} /\ \A p \in Selected[b] : s[p] \in seen
  OBVIOUS
<1>2. seen # {} /\ \A x \in seen : \E p \in Selected[b] : x = s[p]
  OBVIOUS
<1>3. Aggregate(b, s) =
        CASE seen \cap Waiting # {} -> "QUEUED"
          [] seen = {"SUCCEEDED"} -> "SUCCEEDED"
          [] seen \cap Waiting = {} /\ "SUCCEEDED" \in seen /\ seen # {"SUCCEEDED"}
               -> "PARTIAL_SUCCESS"
          [] seen \subseteq Failed \cup {"SKIPPED"} /\ seen # {"SKIPPED"} -> "FAILED"
          [] OTHER -> "CONFIGURATION_REQUIRED"
  BY DEF Aggregate
<1> HIDE DEF seen
<1>4. CASE seen \cap Waiting # {}
  BY <1>1, <1>2, <1>3, <1>4 DEF Supported, BatchStatus, Waiting, Failed
<1>5. CASE seen = {"SUCCEEDED"}
  BY <1>1, <1>2, <1>3, <1>5 DEF Supported, BatchStatus, Waiting, Failed
<1>6. CASE seen \cap Waiting = {} /\ "SUCCEEDED" \in seen /\ seen # {"SUCCEEDED"}
  BY <1>1, <1>2, <1>3, <1>6 DEF Supported, BatchStatus, Waiting, Failed
<1>7. CASE seen \subseteq Failed \cup {"SKIPPED"} /\ seen # {"SKIPPED"}
  BY <1>1, <1>2, <1>3, <1>7 DEF Supported, BatchStatus, Waiting, Failed
<1>8. CASE seen = {"SKIPPED"}
  BY <1>1, <1>2, <1>3, <1>8 DEF Supported, BatchStatus, Waiting, Failed
<1>9. \/ seen \cap Waiting # {} \/ seen = {"SUCCEEDED"}
      \/ seen \cap Waiting = {} /\ "SUCCEEDED" \in seen /\ seen # {"SUCCEEDED"}
      \/ seen \subseteq Failed \cup {"SKIPPED"} /\ seen # {"SKIPPED"}
      \/ seen = {"SKIPPED"}
  BY <1>1, <1>2 DEF ItemStatus, Waiting, Failed
<1> QED BY <1>4, <1>5, <1>6, <1>7, <1>8, <1>9

\* What a status says of the items stays true as they move on.
LEMMA StaysSupported ==
  ASSUME NEW b \in Batches, NEW status, NEW s, NEW t, Supported(b, status, s),
         \A p \in Selected[b] : MayBecome(s[p], t[p])
  PROVE  Supported(b, status, t)
  BY DEF Supported, MayBecome

\* One item's write keeps every status true that was, of its batch as it stands
\* and as a sync of any of its items would leave it.
LEMMA SaveKeepsSupport ==
  ASSUME TypeOK, NEW b \in Batches, NEW p \in Packages, NEW status,
         Saves(b, p, status), MayBecome(item[b][p], status),
         NEW c \in Batches, NEW claim
  PROVE  /\ Supported(c, claim, item[c]) => Supported(c, claim, item'[c])
         /\ \A k \in Keys : \A new :
              Supported(c, claim, [item[c] EXCEPT ![k] = new]) =>
                                Supported(c, claim, [item'[c] EXCEPT ![k] = new])
<1>1. \A q \in Packages : item'[c][q] = IF c = b /\ q = p THEN status ELSE item[c][q]
  BY DEF TypeOK, Saves
<1>2. \A q \in Selected[c] : MayBecome(item[c][q], item'[c][q])
  BY <1>1 DEF MayBecome
<1>3. Supported(c, claim, item[c]) => Supported(c, claim, item'[c])
  BY <1>2, StaysSupported
<1>4. ASSUME NEW k \in Keys, NEW new, Supported(c, claim, [item[c] EXCEPT ![k] = new])
      PROVE  Supported(c, claim, [item'[c] EXCEPT ![k] = new])
  <2> DEFINE s == [item[c] EXCEPT ![k] = new]
             t == [item'[c] EXCEPT ![k] = new]
  <2>1. \A q \in Selected[c] : MayBecome(s[q], t[q])
    BY <1>1, <1>2 DEF TypeOK, Saves, MayBecome
  <2> HIDE DEF s, t
  <2>2. Supported(c, claim, s)
    BY <1>4 DEF s
  <2>3. Supported(c, claim, t)
    BY <2>1, <2>2, StaysSupported
  <2> QED BY <2>3 DEF t
<1> QED BY <1>3, <1>4

-----------------------------------------------------------------------------
(* API requests *)

LEMMA InitEstablishes ==
  ASSUME Init PROVE BatchInv
<1>1. TypeOK
  BY DEF Init, FencedInit, TypeOK, BatchStatus, ItemStatus, NoSync
<1>2. \A b \in Batches : RequestInv(b) /\ Supported(b, batch[b], item[b])
                                       /\ Supported(b, refresh[b], item[b])
  BY DEF Init, RequestInv, Supported, BatchStatus
<1>3. \A b \in Batches, p \in Packages : ItemInv(b, p)
  BY DEF Init, ItemInv
<1>4. \A b \in Batches, k \in Keys : SyncInv(b, k)
  BY DEF Init, SyncInv
<1>5. PostsAreAccounted /\ SuccessIsBacked
  BY DEF Init, PostsAreAccounted, SuccessIsBacked
<1>6. \A k \in Keys : FenceInv(k)
  BY DEF Init, FencedInit, FenceInv
<1> QED BY <1>1, <1>2, <1>3, <1>4, <1>5, <1>6 DEF BatchInv

LEMMA CreateKeeps ==
  ASSUME BatchInv, NEW b \in Batches, CreatePublishBatch(b)
  PROVE  BatchInv'
<1> USE DEF workerVars
<1>1. PICK outcome \in [Selected[b] -> ItemStatus] :
        LET delegated == {p \in Selected[b] : outcome[p] = "DELEGATED"} IN
        /\ \A p \in Selected[b] : outcome[p] \in Outcomes(p)
        /\ Submit({k \in delegated : phase[k] = "absent"})
        /\ item' = [item EXCEPT ![b] =
                      [p \in Packages |-> IF p \in Selected[b] THEN outcome[p] ELSE "NONE"]]
        /\ linked' = [linked EXCEPT ![b] = delegated]
        /\ outbox' = [outbox EXCEPT ![b] = {p \in Selected[b] : outcome[p] = "QUEUED"}]
  BY DEF CreatePublishBatch
<1>2. batch[b] = "ABSENT" /\ batch' = [batch EXCEPT ![b] = "QUEUED"]
      /\ refresh' = [refresh EXCEPT ![b] = "due"]
      /\ UNCHANGED <<queue, busy, posts, unknown, retries, sync>>
  BY DEF CreatePublishBatch
<1>3. TypeOK
  BY DEF BatchInv
<1> DEFINE delegated == {p \in Selected[b] : outcome[p] = "DELEGATED"}
<1>4. /\ delegated \subseteq Keys /\ delegated \subseteq Selected[b]
      /\ \A p \in Selected[b] : /\ outcome[p] \in {"SKIPPED", "DELEGATED", "FAILED", "QUEUED"}
                                /\ p \in delegated <=> outcome[p] = "DELEGATED"
  BY <1>1 DEF Outcomes
<1>5. /\ linked' = [linked EXCEPT ![b] = delegated]
      /\ \A p \in Packages : item'[b][p] = IF p \in Selected[b] THEN outcome[p] ELSE "NONE"
      /\ \A c \in Batches \ {b} : item'[c] = item[c] /\ linked'[c] = linked[c]
                                  /\ outbox'[c] = outbox[c] /\ batch'[c] = batch[c]
                                  /\ refresh'[c] = refresh[c]
      /\ linked'[b] = delegated /\ outbox'[b] = {p \in Selected[b] : outcome[p] = "QUEUED"}
      /\ batch'[b] = "QUEUED" /\ refresh'[b] = "due"
      /\ \A k \in Keys : phase'[k] = IF phase[k] = "absent" /\ k \in delegated
                                     THEN "open" ELSE phase[k]
      /\ phase' \in [Keys -> {"absent", "open", "failed", "published", "withdrawn"}]
      /\ UNCHANGED <<fence, holder, winner>>
  BY <1>1, <1>2, <1>3 DEF TypeOK, Submit
<1>6. item' \in [Batches -> [Packages -> ItemStatus]]
  <2>1. [p \in Packages |-> IF p \in Selected[b] THEN outcome[p] ELSE "NONE"]
          \in [Packages -> ItemStatus]
    BY DEF ItemStatus
  <2> QED BY <1>1, <1>3, <2>1 DEF TypeOK
<1> HIDE DEF delegated
<1>7. TypeOK'
  BY <1>1, <1>2, <1>3, <1>4, <1>5, <1>6 DEF TypeOK, BatchStatus
<1>8. /\ linked[b] = {} /\ outbox[b] = {} /\ refresh[b] = "none"
      /\ \A p \in Packages : /\ item[b][p] = "NONE" /\ queue[b][p] = 0
                             /\ posts[b][p] = 0 /\ unknown[b][p] = 0
  BY <1>2 DEF BatchInv, RequestInv
<1>9. /\ \A p \in Packages : busy[b][p] = "idle"
      /\ \A k \in Keys : sync[b][k] = NoSync
  BY <1>8 DEF BatchInv, ItemInv, SyncInv, Failed
<1>10. (\A k \in Keys : FenceInv(k))'
  BY <1>5 DEF BatchInv, FenceInv
<1>11. ASSUME NEW c \in Batches PROVE RequestInv(c)'
  <2>1. CASE c = b
    BY <1>4, <1>5, <2>1 DEF RequestInv
  <2>2. CASE c # b
    BY <1>2, <1>5, <2>2 DEF BatchInv, RequestInv
  <2> QED BY <2>1, <2>2
<1>12. ASSUME NEW c \in Batches
       PROVE  Supported(c, batch[c], item[c])' /\ Supported(c, refresh[c], item[c])'
  BY <1>5 DEF BatchInv, Supported, BatchStatus
<1>13. ASSUME NEW c \in Batches, NEW q \in Packages PROVE ItemInv(c, q)'
  <2>1. CASE c = b
    BY <1>2, <1>4, <1>5, <1>8, <1>9, <2>1 DEF ItemInv
  <2>2. CASE c # b
    BY <1>2, <1>5, <2>2 DEF BatchInv, ItemInv
  <2> QED BY <2>1, <2>2
<1>14. ASSUME NEW c \in Batches, NEW k \in Keys PROVE SyncInv(c, k)'
  <2>1. CASE c = b
    BY <1>2, <1>9, <2>1 DEF SyncInv
  <2>2. CASE c # b
    <3>1. SyncInv(c, k) /\ item'[c] = item[c] /\ linked'[c] = linked[c] /\ sync' = sync
      BY <1>2, <1>5, <2>2 DEF BatchInv
    <3>2. phase[k] = "published" => phase'[k] = "published"
      BY <1>5
    <3> QED BY <3>1, <3>2 DEF SyncInv
  <2> QED BY <2>1, <2>2
<1>15. PostsAreAccounted'
  <2>1. ASSUME NEW c \in Batches, NEW q \in Packages
        PROVE  posts'[c][q] = IF q \in linked'[c] THEN 0
                 ELSE unknown'[c][q] + (IF item'[c][q] = "SUCCEEDED" THEN 1 ELSE 0)
                                     + (IF busy'[c][q] = "posted" THEN 1 ELSE 0)
    <3>1. CASE c = b
      BY <1>2, <1>4, <1>5, <1>8, <1>9, <3>1
    <3>2. CASE c # b
      BY <1>2, <1>5, <3>2 DEF BatchInv, PostsAreAccounted
    <3> QED BY <3>1, <3>2
  <2> QED BY <2>1 DEF PostsAreAccounted
<1>16. SuccessIsBacked'
  <2>1. ASSUME NEW c \in Batches, NEW k \in linked'[c], item'[c][k] = "SUCCEEDED"
        PROVE  phase'[k] = "published" /\ winner'[k] # 0
    <3>1. CASE c = b
      BY <1>4, <1>5, <2>1, <3>1
    <3>2. CASE c # b
      <4>1. k \in linked[c] /\ item[c][k] = "SUCCEEDED" /\ k \in Keys
        BY <1>3, <1>5, <2>1, <3>2 DEF TypeOK
      <4> QED BY <1>5, <4>1 DEF BatchInv, SuccessIsBacked
    <3> QED BY <3>1, <3>2
  <2> QED BY <2>1 DEF SuccessIsBacked
<1> QED BY <1>7, <1>10, <1>11, <1>12, <1>13, <1>14, <1>15, <1>16 DEF BatchInv

\* A request that only moves its outbox, its refresh and the message queue.
LEMMA RetryKeeps ==
  ASSUME BatchInv, NEW b \in Batches, RetryFailedItems(b)
  PROVE  BatchInv'
<1> USE DEF fenceVars, itemVars, workerVars
<1>1. TypeOK'
  BY DEF BatchInv, TypeOK, RetryFailedItems, Retryable
<1>2. ASSUME NEW c \in Batches
      PROVE  /\ RequestInv(c)' /\ Supported(c, batch[c], item[c])'
             /\ Supported(c, refresh[c], item[c])'
  BY DEF BatchInv, TypeOK, RetryFailedItems, RequestInv, Supported, BatchStatus
<1>3. ASSUME NEW c \in Batches, NEW q \in Packages PROVE ItemInv(c, q)'
  BY DEF BatchInv, TypeOK, RetryFailedItems, Retryable, ItemInv
<1>4. ASSUME NEW c \in Batches, NEW k \in Keys PROVE SyncInv(c, k)'
  BY DEF BatchInv, RetryFailedItems, SyncInv
<1>5. PostsAreAccounted' /\ SuccessIsBacked'
  BY DEF BatchInv, RetryFailedItems, PostsAreAccounted, SuccessIsBacked
<1> QED BY <1>1, <1>2, <1>3, <1>4, <1>5 DEF BatchInv, FenceInv, RetryFailedItems

LEMMA DispatchKeeps ==
  ASSUME BatchInv, NEW b \in Batches, NEW p \in Packages, Dispatch(b, p)
  PROVE  BatchInv'
<1> USE DEF fenceVars, itemVars
<1>1. TypeOK'
  BY DEF BatchInv, TypeOK, Dispatch
<1>2. ASSUME NEW c \in Batches
      PROVE  /\ RequestInv(c)' /\ Supported(c, batch[c], item[c])'
             /\ Supported(c, refresh[c], item[c])'
  BY DEF BatchInv, TypeOK, Dispatch, RequestInv
<1>3. ASSUME NEW c \in Batches, NEW q \in Packages PROVE ItemInv(c, q)'
  BY DEF BatchInv, TypeOK, Dispatch, ItemInv
<1>4. ASSUME NEW c \in Batches, NEW k \in Keys PROVE SyncInv(c, k)'
  BY DEF BatchInv, Dispatch, SyncInv
<1>5. PostsAreAccounted' /\ SuccessIsBacked'
  BY DEF BatchInv, Dispatch, PostsAreAccounted, SuccessIsBacked
<1> QED BY <1>1, <1>2, <1>3, <1>4, <1>5 DEF BatchInv, FenceInv, Dispatch

LEMMA RefreshReadsKeeps ==
  ASSUME BatchInv, NEW b \in Batches, RefreshReads(b)
  PROVE  BatchInv'
<1> USE DEF fenceVars, itemVars, workerVars
<1>1. batch[b] # "ABSENT"
  BY DEF BatchInv, RequestInv, RefreshReads
<1>2. /\ ToSave(b, item[b]) \in BatchStatus \cup {"none"}
      /\ Supported(b, ToSave(b, item[b]), item[b])
  <2>1. /\ Aggregate(b, item[b]) \in BatchStatus
        /\ Supported(b, Aggregate(b, item[b]), item[b])
    BY <1>1, AggregateIsSupported DEF BatchInv, TypeOK, RequestInv
  <2> QED BY <2>1 DEF ToSave, Supported, BatchStatus
<1>3. \A c \in Batches : refresh'[c] = IF c = b THEN ToSave(b, item[b]) ELSE refresh[c]
  BY DEF BatchInv, TypeOK, RefreshReads
<1>4. TypeOK'
  BY <1>2 DEF BatchInv, TypeOK, RefreshReads
<1>5. ASSUME NEW c \in Batches
      PROVE  /\ RequestInv(c)' /\ Supported(c, batch[c], item[c])'
             /\ Supported(c, refresh[c], item[c])'
  BY <1>1, <1>2, <1>3 DEF BatchInv, RefreshReads, RequestInv
<1>6. ASSUME NEW c \in Batches, NEW q \in Packages PROVE ItemInv(c, q)'
  BY DEF BatchInv, RefreshReads, ItemInv
<1>7. ASSUME NEW c \in Batches, NEW k \in Keys PROVE SyncInv(c, k)'
  BY DEF BatchInv, RefreshReads, SyncInv
<1>8. PostsAreAccounted' /\ SuccessIsBacked'
  BY DEF BatchInv, RefreshReads, PostsAreAccounted, SuccessIsBacked
<1> QED BY <1>4, <1>5, <1>6, <1>7, <1>8 DEF BatchInv, FenceInv, RefreshReads

LEMMA RefreshSavesKeeps ==
  ASSUME BatchInv, NEW b \in Batches, RefreshSaves(b)
  PROVE  BatchInv'
<1> USE DEF fenceVars, itemVars, workerVars
<1>1. /\ \A c \in Batches : batch'[c] = IF c = b THEN refresh[b] ELSE batch[c]
      /\ \A c \in Batches : refresh'[c] = IF c = b THEN "none" ELSE refresh[c]
  BY DEF BatchInv, TypeOK, RefreshSaves
<1>2. batch[b] # "ABSENT" /\ refresh[b] # "ABSENT"
  BY DEF BatchInv, RequestInv, RefreshSaves, BatchStatus
<1>3. TypeOK'
  BY DEF BatchInv, TypeOK, RefreshSaves
<1>4. ASSUME NEW c \in Batches
      PROVE  /\ RequestInv(c)' /\ Supported(c, batch[c], item[c])'
             /\ Supported(c, refresh[c], item[c])'
  <2>1. RequestInv(c)'
    BY <1>1, <1>2 DEF BatchInv, RefreshSaves, RequestInv
  <2>2. Supported(c, batch[c], item[c])'
    BY <1>1 DEF BatchInv, RefreshSaves
  <2>3. Supported(c, refresh[c], item[c])'
    BY <1>1 DEF BatchInv, RefreshSaves, Supported, BatchStatus
  <2> QED BY <2>1, <2>2, <2>3
<1>5. ASSUME NEW c \in Batches, NEW q \in Packages PROVE ItemInv(c, q)'
  BY DEF BatchInv, RefreshSaves, ItemInv
<1>6. ASSUME NEW c \in Batches, NEW k \in Keys PROVE SyncInv(c, k)'
  BY DEF BatchInv, RefreshSaves, SyncInv
<1>7. PostsAreAccounted' /\ SuccessIsBacked'
  BY DEF BatchInv, RefreshSaves, PostsAreAccounted, SuccessIsBacked
<1> QED BY <1>3, <1>4, <1>5, <1>6, <1>7 DEF BatchInv, FenceInv, RefreshSaves

LEMMA WebDiesKeeps ==
  ASSUME BatchInv, NEW b \in Batches, WebDies(b)
  PROVE  BatchInv'
<1> USE DEF fenceVars, itemVars, workerVars
<1>1. TypeOK'
  BY DEF BatchInv, TypeOK, WebDies
<1>2. ASSUME NEW c \in Batches
      PROVE  /\ RequestInv(c)' /\ Supported(c, batch[c], item[c])'
             /\ Supported(c, refresh[c], item[c])'
  BY DEF BatchInv, TypeOK, WebDies, RequestInv, Supported, BatchStatus
<1>3. ASSUME NEW c \in Batches, NEW q \in Packages PROVE ItemInv(c, q)'
  BY DEF BatchInv, TypeOK, WebDies, ItemInv
<1>4. ASSUME NEW c \in Batches, NEW k \in Keys PROVE SyncInv(c, k)'
  BY DEF BatchInv, WebDies, SyncInv
<1>5. PostsAreAccounted' /\ SuccessIsBacked'
  BY DEF BatchInv, WebDies, PostsAreAccounted, SuccessIsBacked
<1> QED BY <1>1, <1>2, <1>3, <1>4, <1>5 DEF BatchInv, FenceInv, WebDies

-----------------------------------------------------------------------------
(* Executions of direct items *)

\* Writing one item's cell of a table.
LEMMA Cell ==
  ASSUME NEW S, NEW f \in [Batches -> [Packages -> S]],
         NEW b \in Batches, NEW p \in Packages, NEW v \in S
  PROVE  /\ [f EXCEPT ![b][p] = v] \in [Batches -> [Packages -> S]]
         /\ \A c \in Batches, q \in Packages :
              [f EXCEPT ![b][p] = v][c][q] = IF c = b /\ q = p THEN v ELSE f[c][q]
  OBVIOUS

\* What ending an execution does to the two tables it touches.
LEMMA Ends ==
  ASSUME TypeOK, NEW b \in Batches, NEW p \in Packages, Forgets(b, p),
         busy' = [busy EXCEPT ![b][p] = "idle"]
  PROVE  /\ unknown' \in [Batches -> [Packages -> Nat]]
         /\ busy' \in [Batches -> [Packages -> {"idle", "calling", "posted"}]]
         /\ busy'[b][p] = "idle" /\ unknown[b][p] \in Nat
         /\ unknown'[b][p] = unknown[b][p] + (IF busy[b][p] = "posted" THEN 1 ELSE 0)
<1>1. /\ unknown \in [Batches -> [Packages -> Nat]] /\ unknown[b][p] \in Nat
      /\ busy \in [Batches -> [Packages -> {"idle", "calling", "posted"}]]
  BY DEF TypeOK
<1>2. unknown[b][p] + 1 \in Nat
  BY <1>1
<1>3. /\ busy' \in [Batches -> [Packages -> {"idle", "calling", "posted"}]]
      /\ \A c \in Batches, q \in Packages :
           busy'[c][q] = IF c = b /\ q = p THEN "idle" ELSE busy[c][q]
  BY <1>1, Cell, "idle" \in {"idle", "calling", "posted"}
<1>4. CASE busy[b][p] = "posted"
  <2>1. unknown' = [unknown EXCEPT ![b][p] = unknown[b][p] + 1]
    BY <1>4 DEF Forgets
  <2>2. /\ unknown' \in [Batches -> [Packages -> Nat]]
        /\ \A c \in Batches, q \in Packages :
             unknown'[c][q] = IF c = b /\ q = p THEN unknown[b][p] + 1 ELSE unknown[c][q]
    BY <1>1, <1>2, <2>1, Cell
  <2> QED BY <1>1, <1>3, <1>4, <2>2
<1>5. CASE busy[b][p] # "posted"
  BY <1>1, <1>3, <1>5 DEF Forgets
<1> QED BY <1>4, <1>5

LEMMA ExecuteKeeps ==
  ASSUME BatchInv, NEW b \in Batches, NEW p \in Packages, Execute(b, p) \/ ExecuteNothing(b, p)
  PROVE  BatchInv'
<1> USE DEF fenceVars, itemVars, webVars
<1>1. /\ queue[b][p] > 0 /\ busy[b][p] = "idle"
      /\ queue' = [queue EXCEPT ![b][p] = @ - 1]
      /\ \/ Executable(b, p) /\ busy' = [busy EXCEPT ![b][p] = "calling"]
         \/ busy' = busy
      /\ UNCHANGED <<fenceVars, batch, itemVars, posts, unknown, webVars, sync>>
  BY DEF Execute, ExecuteNothing, Receive, Becomes
<1>2. p \notin linked[b] /\ batch[b] # "ABSENT"
  BY <1>1 DEF BatchInv, ItemInv, RequestInv
<1>3. TypeOK'
  <2>1. TypeOK /\ queue[b][p] - 1 \in Nat
    BY <1>1 DEF BatchInv, TypeOK
  <2>2. queue' \in [Batches -> [Packages -> Nat]]
    BY <1>1, <2>1, Cell DEF TypeOK
  <2>3. busy' \in [Batches -> [Packages -> {"idle", "calling", "posted"}]]
    <3>1. CASE busy' = [busy EXCEPT ![b][p] = "calling"]
      BY <2>1, <3>1, Cell, "calling" \in {"idle", "calling", "posted"} DEF TypeOK
    <3>2. CASE busy' = busy
      BY <2>1, <3>2 DEF TypeOK
    <3> QED BY <1>1, <3>1, <3>2
  <2> QED BY <1>1, <2>1, <2>2, <2>3 DEF TypeOK
<1>4. ASSUME NEW c \in Batches
      PROVE  /\ RequestInv(c)' /\ Supported(c, batch[c], item[c])'
             /\ Supported(c, refresh[c], item[c])'
  BY <1>1, <1>2 DEF BatchInv, TypeOK, RequestInv
<1>5. ASSUME NEW c \in Batches, NEW q \in Packages PROVE ItemInv(c, q)'
  BY <1>1, <1>2 DEF BatchInv, TypeOK, ItemInv, Executable
<1>6. ASSUME NEW c \in Batches, NEW k \in Keys PROVE SyncInv(c, k)'
  BY <1>1 DEF BatchInv, SyncInv
<1>7. PostsAreAccounted'
  BY <1>1 DEF BatchInv, TypeOK, PostsAreAccounted
<1>8. SuccessIsBacked'
  BY <1>1 DEF BatchInv, SuccessIsBacked
<1> QED BY <1>1, <1>3, <1>4, <1>5, <1>6, <1>7, <1>8 DEF BatchInv, FenceInv

LEMMA ProviderActsKeeps ==
  ASSUME BatchInv, NEW b \in Batches, NEW p \in Packages, ProviderActs(b, p)
  PROVE  BatchInv'
<1> USE DEF fenceVars, itemVars, webVars
<1>1. /\ busy[b][p] = "calling"
      /\ posts' = [posts EXCEPT ![b][p] = @ + 1]
      /\ busy' = [busy EXCEPT ![b][p] = "posted"]
      /\ UNCHANGED <<fenceVars, batch, itemVars, queue, unknown, webVars, sync>>
  BY DEF ProviderActs, Becomes
<1>2. p \notin linked[b] /\ item[b][p] # "SUCCEEDED" /\ item[b][p] # "NONE"
  BY <1>1 DEF BatchInv, ItemInv, Failed
<1>3. TypeOK'
  <2>1. posts' \in [Batches -> [Packages -> Nat]]
    BY <1>1 DEF BatchInv, TypeOK
  <2> QED BY <1>1, <2>1 DEF BatchInv, TypeOK
<1>4. ASSUME NEW c \in Batches
      PROVE  /\ RequestInv(c)' /\ Supported(c, batch[c], item[c])'
             /\ Supported(c, refresh[c], item[c])'
  BY <1>1, <1>2 DEF BatchInv, TypeOK, RequestInv
<1>5. ASSUME NEW c \in Batches, NEW q \in Packages PROVE ItemInv(c, q)'
  BY <1>1 DEF BatchInv, TypeOK, ItemInv
<1>6. ASSUME NEW c \in Batches, NEW k \in Keys PROVE SyncInv(c, k)'
  BY <1>1 DEF BatchInv, SyncInv
<1>7. PostsAreAccounted'
  BY <1>1, <1>2 DEF BatchInv, TypeOK, PostsAreAccounted
<1>8. SuccessIsBacked'
  BY <1>1 DEF BatchInv, SuccessIsBacked
<1> QED BY <1>1, <1>3, <1>4, <1>5, <1>6, <1>7, <1>8 DEF BatchInv, FenceInv

\* An execution that ends in a saved status: skipped, succeeded or failed.
LEMMA OutcomeKeeps ==
  ASSUME BatchInv, NEW b \in Batches, NEW p \in Packages,
         \/ ExecuteSkips(b, p)
         \/ ExecuteSucceeds(b, p)
         \/ \E status \in Failed : ExecuteFails(b, p, status)
  PROVE  BatchInv'
<1> USE DEF fenceVars, webVars
<1>1. PICK status \in {"SKIPPED", "SUCCEEDED", "FAILED", "RETRYABLE"} :
        /\ Saves(b, p, status)
        /\ item[b][p] \in {"QUEUED"} \cup Failed /\ p \notin linked[b]
        /\ \/ /\ status = "SKIPPED" /\ queue[b][p] > 0 /\ busy[b][p] = "idle"
              /\ queue' = [queue EXCEPT ![b][p] = @ - 1] /\ UNCHANGED <<busy, unknown>>
           \/ /\ status = "SUCCEEDED" /\ busy[b][p] = "posted"
              /\ busy' = [busy EXCEPT ![b][p] = "idle"] /\ UNCHANGED <<queue, unknown>>
           \/ /\ status \in Failed /\ busy[b][p] # "idle" /\ Forgets(b, p)
              /\ busy' = [busy EXCEPT ![b][p] = "idle"] /\ UNCHANGED queue
        /\ UNCHANGED <<fenceVars, batch, linked, posts, webVars, sync>>
  BY DEF ExecuteSkips, ExecuteSucceeds, ExecuteFails, Receive, Becomes, Executable,
         BatchInv, ItemInv, Failed
<1>2. TypeOK
  BY DEF BatchInv
<1>3. /\ \A c \in Batches, q \in Packages :
           item'[c][q] = IF c = b /\ q = p THEN status ELSE item[c][q]
      /\ item' \in [Batches -> [Packages -> ItemStatus]]
  <2>1. status \in ItemStatus
    BY DEF ItemStatus
  <2> QED BY <1>1, <1>2, <2>1 DEF TypeOK, Saves
<1>4. TypeOK'
  <2>1. queue' \in [Batches -> [Packages -> Nat]]
    <3>1. CASE queue[b][p] > 0 /\ queue' = [queue EXCEPT ![b][p] = queue[b][p] - 1]
      <4>1. queue[b][p] - 1 \in Nat
        BY <1>2, <3>1 DEF TypeOK
      <4> QED BY <1>2, <3>1, <4>1, Cell DEF TypeOK
    <3>2. CASE UNCHANGED queue
      BY <1>2, <3>2 DEF TypeOK
    <3> QED BY <1>1, <3>1, <3>2
  <2>2. /\ unknown' \in [Batches -> [Packages -> Nat]]
        /\ busy' \in [Batches -> [Packages -> {"idle", "calling", "posted"}]]
    <3>1. CASE UNCHANGED unknown /\ busy' = [busy EXCEPT ![b][p] = "idle"]
      BY <1>2, <3>1, Cell, "idle" \in {"idle", "calling", "posted"} DEF TypeOK
    <3>2. CASE Forgets(b, p) /\ busy' = [busy EXCEPT ![b][p] = "idle"]
      BY <1>2, <3>2, Ends
    <3>3. CASE UNCHANGED <<unknown, busy>>
      BY <1>2, <3>3 DEF TypeOK
    <3> QED BY <1>1, <3>1, <3>2, <3>3
  <2> QED BY <1>1, <1>2, <1>3, <2>1, <2>2 DEF TypeOK
<1>5. MayBecome(item[b][p], status) /\ batch[b] # "ABSENT"
  BY <1>1 DEF MayBecome, Failed, Waiting, BatchInv, RequestInv
<1>6. ASSUME NEW c \in Batches
      PROVE  /\ RequestInv(c)' /\ Supported(c, batch[c], item[c])'
             /\ Supported(c, refresh[c], item[c])'
  <2>1. RequestInv(c)'
    <3>1. CASE c = b
      BY <1>1, <1>3, <1>5, <3>1 DEF BatchInv, RequestInv
    <3>2. CASE c # b
      <4>1. \A q \in Packages : /\ queue'[c][q] = queue[c][q]
                                /\ unknown'[c][q] = unknown[c][q]
                                /\ item'[c][q] = item[c][q]
        BY <1>1, <1>2, <1>3, <3>2 DEF TypeOK, Forgets
      <4> QED BY <1>1, <4>1 DEF BatchInv, RequestInv
    <3> QED BY <3>1, <3>2
  <2>2. Supported(c, batch[c], item[c])' /\ Supported(c, refresh[c], item[c])'
    BY <1>1, <1>2, <1>5, SaveKeepsSupport DEF BatchInv
  <2> QED BY <2>1, <2>2
<1>7. ASSUME NEW c \in Batches, NEW q \in Packages PROVE ItemInv(c, q)'
  <2>1. CASE c = b /\ q = p
    <3>1. busy'[b][p] = "idle"
      BY <1>1, <1>2 DEF TypeOK
    <3> QED BY <1>1, <2>1, <3>1 DEF ItemInv
  <2>2. CASE ~(c = b /\ q = p)
    <3>1. /\ queue'[c][q] = queue[c][q] /\ unknown'[c][q] = unknown[c][q]
          /\ item'[c][q] = item[c][q] /\ busy'[c][q] = busy[c][q]
      BY <1>1, <1>2, <1>3, <2>2 DEF TypeOK, Forgets
    <3> QED BY <1>1, <3>1 DEF BatchInv, ItemInv
  <2> QED BY <2>1, <2>2
<1>8. ASSUME NEW c \in Batches, NEW k \in Keys PROVE SyncInv(c, k)'
  <2>1. SyncInv(c, k)
    BY DEF BatchInv
  <2>2. sync'[c][k] = sync[c][k] /\ linked'[c] = linked[c] /\ phase'[k] = phase[k]
    BY <1>1
  <2>3. k \in linked[c] => item'[c][k] = item[c][k]
    BY <1>1, <1>3
  <2>4. Supported(c, sync[c][k].status, [item[c] EXCEPT ![k] = sync[c][k].item]) =>
          Supported(c, sync[c][k].status, [item'[c] EXCEPT ![k] = sync[c][k].item])
    BY <1>1, <1>2, <1>5, SaveKeepsSupport
  <2> QED BY <2>1, <2>2, <2>3, <2>4 DEF SyncInv
<1>9. PostsAreAccounted'
  <2>1. ASSUME NEW c \in Batches, NEW q \in Packages
        PROVE  posts'[c][q] = IF q \in linked'[c] THEN 0
                 ELSE unknown'[c][q] + (IF item'[c][q] = "SUCCEEDED" THEN 1 ELSE 0)
                                     + (IF busy'[c][q] = "posted" THEN 1 ELSE 0)
    <3>1. posts[c][q] = IF q \in linked[c] THEN 0
            ELSE unknown[c][q] + (IF item[c][q] = "SUCCEEDED" THEN 1 ELSE 0)
                               + (IF busy[c][q] = "posted" THEN 1 ELSE 0)
      BY DEF BatchInv, PostsAreAccounted
    <3>2. CASE c = b /\ q = p
      <4>1. item'[b][p] = status /\ item[b][p] # "SUCCEEDED"
        BY <1>1, <1>3 DEF Failed
      <4>2. CASE status = "SKIPPED" /\ busy[b][p] = "idle" /\ UNCHANGED <<busy, unknown>>
        BY <1>1, <3>1, <3>2, <4>1, <4>2
      <4>3. CASE status = "SUCCEEDED" /\ busy[b][p] = "posted" /\ UNCHANGED unknown
                 /\ busy' = [busy EXCEPT ![b][p] = "idle"]
        <5>1. busy'[b][p] = "idle" /\ posts'[b][p] = posts[b][p]
              /\ linked'[b] = linked[b] /\ unknown'[b][p] = unknown[b][p]
              /\ unknown[b][p] \in Nat
          BY <1>1, <1>2, <4>3 DEF TypeOK
        <5> QED BY <1>1, <3>1, <3>2, <4>1, <4>3, <5>1
      <4>4. CASE status \in Failed /\ Forgets(b, p) /\ busy' = [busy EXCEPT ![b][p] = "idle"]
        <5>1. /\ busy'[b][p] = "idle" /\ unknown[b][p] \in Nat
              /\ unknown'[b][p] = unknown[b][p] + (IF busy[b][p] = "posted" THEN 1 ELSE 0)
          BY <1>2, <4>4, Ends
        <5> QED BY <1>1, <3>1, <3>2, <4>1, <4>4, <5>1 DEF Failed
      <4> QED BY <1>1, <4>2, <4>3, <4>4
    <3>3. CASE ~(c = b /\ q = p)
      <4>1. /\ unknown'[c][q] = unknown[c][q] /\ item'[c][q] = item[c][q]
            /\ busy'[c][q] = busy[c][q]
        BY <1>1, <1>2, <1>3, <3>3 DEF TypeOK, Forgets
      <4> QED BY <1>1, <3>1, <4>1
    <3> QED BY <3>2, <3>3
  <2> QED BY <2>1 DEF PostsAreAccounted
<1>10. SuccessIsBacked'
  <2>1. ASSUME NEW c \in Batches, NEW k \in linked'[c], item'[c][k] = "SUCCEEDED"
        PROVE  phase'[k] = "published" /\ winner'[k] # 0
    <3>1. k \in linked[c] /\ k \in Packages
      BY <1>1, <1>2 DEF TypeOK
    <3>2. item[c][k] = "SUCCEEDED"
      BY <1>1, <1>3, <2>1, <3>1
    <3> QED BY <1>1, <3>1, <3>2 DEF BatchInv, SuccessIsBacked
  <2> QED BY <2>1 DEF SuccessIsBacked
<1> QED BY <1>1, <1>4, <1>6, <1>7, <1>8, <1>9, <1>10 DEF BatchInv, FenceInv

LEMMA AbortKeeps ==
  ASSUME BatchInv, NEW b \in Batches, NEW p \in Packages, ExecuteAborts(b, p)
  PROVE  BatchInv'
<1> USE DEF fenceVars, itemVars, webVars
<1>1. /\ busy[b][p] # "idle" /\ Forgets(b, p)
      /\ busy' = [busy EXCEPT ![b][p] = "idle"]
      /\ UNCHANGED <<fenceVars, batch, itemVars, queue, posts, webVars, sync>>
  BY DEF ExecuteAborts, Becomes
<1>2. /\ p \notin linked[b] /\ item[b][p] # "SUCCEEDED" /\ item[b][p] # "NONE"
      /\ TypeOK
  BY <1>1 DEF BatchInv, ItemInv, Failed
<1> DEFINE posted == IF busy[b][p] = "posted" THEN 1 ELSE 0
<1>3. /\ busy'[b][p] = "idle" /\ unknown[b][p] \in Nat
      /\ unknown'[b][p] = unknown[b][p] + posted
  BY <1>1, <1>2, Ends
<1>10. ASSUME NEW c \in Batches, NEW q \in Packages, ~(c = b /\ q = p)
       PROVE  unknown'[c][q] = unknown[c][q] /\ busy'[c][q] = busy[c][q]
  BY <1>1, <1>2, <1>10 DEF TypeOK, Forgets
<1>4. TypeOK'
  <2>1. /\ unknown' \in [Batches -> [Packages -> Nat]]
        /\ busy' \in [Batches -> [Packages -> {"idle", "calling", "posted"}]]
    <3>1. TypeOK /\ Forgets(b, p) /\ busy' = [busy EXCEPT ![b][p] = "idle"]
      BY <1>1, <1>2
    <3> QED BY <3>1, Ends
  <2> QED BY <1>1, <1>2, <2>1 DEF TypeOK
<1>5. ASSUME NEW c \in Batches
      PROVE  /\ RequestInv(c)' /\ Supported(c, batch[c], item[c])'
             /\ Supported(c, refresh[c], item[c])'
  BY <1>1, <1>2, <1>3, <1>10 DEF BatchInv, RequestInv
<1>6. ASSUME NEW c \in Batches, NEW q \in Packages PROVE ItemInv(c, q)'
  BY <1>1, <1>2, <1>3, <1>10 DEF BatchInv, ItemInv
<1>7. ASSUME NEW c \in Batches, NEW k \in Keys PROVE SyncInv(c, k)'
  BY <1>1 DEF BatchInv, SyncInv
<1>8. PostsAreAccounted'
  BY <1>1, <1>2, <1>3, <1>10 DEF BatchInv, PostsAreAccounted
<1>9. SuccessIsBacked'
  BY <1>1 DEF BatchInv, SuccessIsBacked
<1> QED BY <1>1, <1>4, <1>5, <1>6, <1>7, <1>8, <1>9 DEF BatchInv, FenceInv

-----------------------------------------------------------------------------
(* Syncs and the publish-task engine *)

LEMMA SyncBeginsKeeps ==
  ASSUME BatchInv, NEW b \in Batches, NEW k \in Keys, SyncBegins(b, k)
  PROVE  BatchInv'
<1> USE DEF fenceVars, itemVars, webVars, workerVars
<1> DEFINE synced == [item[b] EXCEPT ![k] = Outcome(k, item[b][k])]
<1>1. TypeOK /\ k \in linked[b] /\ k \in Packages /\ item[b] \in [Packages -> ItemStatus]
  BY DEF BatchInv, TypeOK, SyncBegins, HoldsFirst
<1>2. /\ sync' = [sync EXCEPT ![b][k] = [item |-> synced[k], status |-> ToSave(b, synced)]]
      /\ UNCHANGED <<fenceVars, batch, itemVars, workerVars, webVars>>
  BY DEF SyncBegins
<1>3. /\ synced[k] = Outcome(k, item[b][k])
      /\ synced[k] \in {"DELEGATED", "SUCCEEDED", "FAILED"}
      /\ MayBecome(item[b][k], synced[k])
      /\ synced[k] = "SUCCEEDED" => phase[k] = "published"
  <2>1. item[b][k] \in {"DELEGATED", "SUCCEEDED", "FAILED"}
    BY <1>1 DEF BatchInv, ItemInv
  <2>2. item[b][k] = "SUCCEEDED" => phase[k] = "published"
    BY <1>1 DEF BatchInv, SuccessIsBacked
  <2> QED BY <1>1, <2>1, <2>2 DEF Outcome, MayBecome, Waiting
<1>4. synced \in [Packages -> ItemStatus]
  BY <1>1, <1>3 DEF ItemStatus
<1>5. ToSave(b, synced) \in BatchStatus \cup {"none"} /\ Supported(b, ToSave(b, synced), synced)
  <2>1. batch[b] # "ABSENT"
    BY <1>1 DEF BatchInv, RequestInv
  <2>2. \A p \in Selected[b] : synced[p] # "NONE"
    BY <1>1, <1>3, <2>1 DEF BatchInv, RequestInv
  <2> HIDE DEF synced
  <2>3. Aggregate(b, synced) \in BatchStatus /\ Supported(b, Aggregate(b, synced), synced)
    BY <1>4, <2>2, AggregateIsSupported
  <2> QED BY <2>3 DEF ToSave, Supported, BatchStatus
<1>6. synced = [item[b] EXCEPT ![k] = synced[k]]
  BY <1>1, <1>3
<1> HIDE DEF synced
<1> DEFINE row == [item |-> synced[k], status |-> ToSave(b, synced)]
<1>7. row \in [item : ItemStatus, status : BatchStatus \cup {"none"}]
  BY <1>3, <1>5 DEF ItemStatus
<1>8. /\ \A c \in Batches, j \in Keys :
           sync'[c][j] = IF c = b /\ j = k THEN row ELSE sync[c][j]
      /\ sync' \in [Batches -> [Keys -> [item : ItemStatus, status : BatchStatus \cup {"none"}]]]
  <2> HIDE DEF row
  <2>1. sync' = [sync EXCEPT ![b][k] = row]
    BY <1>2 DEF row
  <2> QED BY <1>1, <1>7, <2>1 DEF TypeOK
<1>9. TypeOK'
  BY <1>1, <1>2, <1>8 DEF TypeOK
<1>10. ASSUME NEW c \in Batches, NEW j \in Keys PROVE SyncInv(c, j)'
  <2>1. CASE c = b /\ j = k
    <3>1. sync'[c][j].item = synced[k] /\ sync'[c][j].status = ToSave(b, synced)
      <4>1. sync'[c][j] = row
        BY <1>8, <2>1
      <4>2. row.item = synced[k] /\ row.status = ToSave(b, synced)
        OBVIOUS
      <4> QED BY <4>1, <4>2
    <3>2. Supported(b, ToSave(b, synced), [item[b] EXCEPT ![k] = synced[k]])
      BY <1>5, <1>6
    <3> QED BY <1>1, <1>2, <1>3, <2>1, <3>1, <3>2 DEF SyncInv
  <2>2. CASE ~(c = b /\ j = k)
    BY ZenonT(60), <1>2, <1>8, <2>2 DEF BatchInv, SyncInv
  <2> QED BY <2>1, <2>2
<1>11. ASSUME NEW c \in Batches
       PROVE  /\ RequestInv(c)' /\ Supported(c, batch[c], item[c])'
              /\ Supported(c, refresh[c], item[c])'
              /\ \A q \in Packages : ItemInv(c, q)'
  BY <1>2 DEF BatchInv, RequestInv, ItemInv
<1>12. PostsAreAccounted' /\ SuccessIsBacked'
  BY <1>2 DEF BatchInv, PostsAreAccounted, SuccessIsBacked
<1> QED BY <1>2, <1>9, <1>10, <1>11, <1>12 DEF BatchInv, FenceInv

LEMMA SyncCommitsKeeps ==
  ASSUME BatchInv, NEW b \in Batches, NEW k \in Keys, SyncCommits(b, k)
  PROVE  BatchInv'
<1> USE DEF fenceVars, webVars, workerVars
<1> DEFINE new == sync[b][k].item
           claim == sync[b][k].status
<1>1. /\ Saves(b, k, new)
      /\ batch' = IF claim = "none" THEN batch ELSE [batch EXCEPT ![b] = claim]
      /\ sync' = [sync EXCEPT ![b][k] = NoSync]
      /\ UNCHANGED <<fenceVars, linked, workerVars, webVars>>
  BY DEF SyncCommits
<1>2. /\ TypeOK /\ k \in linked[b] /\ k \in Packages
      /\ new \in {"DELEGATED", "SUCCEEDED", "FAILED"} /\ MayBecome(item[b][k], new)
      /\ new = "SUCCEEDED" => phase[k] = "published"
      /\ Supported(b, claim, [item[b] EXCEPT ![k] = new])
      /\ claim \in BatchStatus \cup {"none"} /\ batch[b] # "ABSENT"
  BY DEF SyncCommits, BatchInv, SyncInv, TypeOK, RequestInv
<1> HIDE DEF new, claim
<1>3. /\ \A c \in Batches, q \in Packages :
           item'[c][q] = IF c = b /\ q = k THEN new ELSE item[c][q]
      /\ item' \in [Batches -> [Packages -> ItemStatus]]
      /\ item'[b] = [item[b] EXCEPT ![k] = new]
  <2>1. new \in ItemStatus /\ item' = [item EXCEPT ![b][k] = new]
    BY <1>1, <1>2 DEF ItemStatus, Saves
  <2> QED BY <1>2, <2>1 DEF TypeOK
<1>4. /\ \A c \in Batches, j \in Keys :
           sync'[c][j] = IF c = b /\ j = k THEN NoSync ELSE sync[c][j]
      /\ sync' \in [Batches -> [Keys -> [item : ItemStatus, status : BatchStatus \cup {"none"}]]]
  <2>1. NoSync \in [item : ItemStatus, status : BatchStatus \cup {"none"}]
    BY DEF NoSync, ItemStatus
  <2> QED BY <1>1, <1>2, <2>1 DEF TypeOK
<1>5. /\ batch' \in [Batches -> BatchStatus \cup {"ABSENT"}]
      /\ \A c \in Batches :
           batch'[c] = IF c = b /\ claim # "none" THEN claim ELSE batch[c]
  BY <1>1, <1>2 DEF TypeOK
<1>6. TypeOK'
  BY <1>1, <1>2, <1>3, <1>4, <1>5 DEF TypeOK
<1>7. ASSUME NEW c \in Batches PROVE RequestInv(c)'
  <2>1. /\ RequestInv(c) /\ (batch'[c] = "ABSENT" <=> batch[c] = "ABSENT")
        /\ batch[c] = "ABSENT" => c # b
    BY <1>2, <1>5 DEF BatchStatus, BatchInv
  <2>2. \A q \in Packages : item'[c][q] = "NONE" => item[c][q] = "NONE"
    BY <1>2, <1>3
  <2>3. c # b => \A q \in Packages : item'[c][q] = item[c][q]
    BY <1>3
  <2>4. CASE c = b
    BY <1>1, <2>1, <2>2, <2>4 DEF RequestInv
  <2>5. CASE c # b
    BY <1>1, <2>1, <2>3, <2>5 DEF RequestInv
  <2> QED BY <2>4, <2>5
<1>8. ASSUME NEW c \in Batches
      PROVE  Supported(c, batch[c], item[c])' /\ Supported(c, refresh[c], item[c])'
  <2>1. CASE c = b /\ claim # "none"
    <3>1. Supported(c, claim, item'[c])
      BY <1>2, <1>3, <2>1
    <3>2. Supported(c, refresh[c], item'[c])
      BY <1>1, <1>2, SaveKeepsSupport DEF BatchInv
    <3> QED BY <1>1, <1>5, <2>1, <3>1, <3>2
  <2>2. CASE ~(c = b /\ claim # "none")
    <3>1. Supported(c, batch[c], item'[c]) /\ Supported(c, refresh[c], item'[c])
      BY <1>1, <1>2, SaveKeepsSupport DEF BatchInv
    <3> QED BY <1>1, <1>5, <2>2, <3>1
  <2> QED BY <2>1, <2>2
<1>9. ASSUME NEW c \in Batches, NEW q \in Packages PROVE ItemInv(c, q)'
  BY <1>1, <1>2, <1>3 DEF BatchInv, ItemInv
<1>10. ASSUME NEW c \in Batches, NEW j \in Keys PROVE SyncInv(c, j)'
  <2>1. CASE c = b /\ j = k
    BY <1>4, <2>1 DEF SyncInv
  <2>2. CASE ~(c = b /\ j = k)
    <3>1. SyncInv(c, j) /\ sync'[c][j] = sync[c][j] /\ item'[c][j] = item[c][j]
      BY <1>3, <1>4, <2>2 DEF BatchInv
    <3>2. Supported(c, sync[c][j].status, [item[c] EXCEPT ![j] = sync[c][j].item]) =>
            Supported(c, sync[c][j].status, [item'[c] EXCEPT ![j] = sync[c][j].item])
      BY <1>1, <1>2, SaveKeepsSupport
    <3> QED BY <1>1, <3>1, <3>2 DEF SyncInv
  <2> QED BY <2>1, <2>2
<1>11. PostsAreAccounted'
  BY <1>1, <1>2, <1>3 DEF BatchInv, PostsAreAccounted
<1>12. SuccessIsBacked'
  <2>1. ASSUME NEW c \in Batches, NEW j \in linked'[c], item'[c][j] = "SUCCEEDED"
        PROVE  phase'[j] = "published" /\ winner'[j] # 0
    <3>1. j \in linked[c] /\ j \in Keys /\ j \in Packages
      BY <1>1, <1>2 DEF TypeOK
    <3>2. phase[j] = "published"
      <4>1. CASE c = b /\ j = k
        BY <1>2, <1>3, <2>1, <4>1
      <4>2. CASE ~(c = b /\ j = k)
        BY <1>3, <2>1, <3>1, <4>2 DEF BatchInv, SuccessIsBacked
      <4> QED BY <4>1, <4>2
    <3> QED BY <1>1, <3>1, <3>2 DEF BatchInv, FenceInv
  <2> QED BY <2>1 DEF SuccessIsBacked
<1> QED BY <1>1, <1>6, <1>7, <1>8, <1>9, <1>10, <1>11, <1>12 DEF BatchInv, FenceInv

LEMMA TaskMovesKeep ==
  ASSUME BatchInv, TaskMoves
  PROVE  BatchInv'
<1> USE DEF batchVars
<1>1. /\ TypeOK
      /\ \A k \in Keys : FenceInv(k)
  BY DEF BatchInv
<1>2. /\ phase' \in [Keys -> {"absent", "open", "failed", "published", "withdrawn"}]
      /\ fence' \in [Keys -> Nat] /\ holder' \in [Keys -> Nat] /\ winner' \in [Keys -> Nat]
      /\ \A k \in Keys : phase[k] = "published" => phase'[k] = "published"
      /\ \A k \in Keys : FenceInv(k)'
  <2>1. CASE \E K \in SUBSET Keys : Submit(K)
    BY <1>1, <2>1 DEF Submit, TypeOK, FenceInv
  <2>2. CASE \E K \in SUBSET Keys : Release(K)
    BY <1>1, <2>2 DEF Release, TypeOK, FenceInv
  <2>3. CASE \E k \in Keys, granted \in BOOLEAN : Acquire(k, granted)
    BY <1>1, <2>3 DEF Acquire, TypeOK, FenceInv
  <2>4. CASE \E k \in Keys : Reopen(k)
    BY <1>1, <2>4 DEF Reopen, TypeOK, FenceInv
  <2>5. CASE \E k \in Keys : Publish(k)
    BY <1>1, <2>5 DEF Publish, TypeOK, FenceInv
  <2>6. CASE \E k \in Keys : Withdraw(k)
    BY <1>1, <2>6 DEF Withdraw, TypeOK, FenceInv
  <2> QED BY <2>1, <2>2, <2>3, <2>4, <2>5, <2>6 DEF TaskMoves, FencedNext
<1>3. UNCHANGED batchVars
  BY DEF TaskMoves
<1>4. TypeOK'
  BY <1>1, <1>2, <1>3 DEF TypeOK
<1>5. ASSUME NEW c \in Batches
      PROVE  /\ RequestInv(c)' /\ Supported(c, batch[c], item[c])'
             /\ Supported(c, refresh[c], item[c])'
             /\ \A q \in Packages : ItemInv(c, q)'
  BY <1>3 DEF BatchInv, RequestInv, ItemInv
<1>6. ASSUME NEW c \in Batches, NEW k \in Keys PROVE SyncInv(c, k)'
  BY <1>2, <1>3 DEF BatchInv, SyncInv
<1>7. PostsAreAccounted'
  BY <1>3 DEF BatchInv, PostsAreAccounted
<1>8. SuccessIsBacked'
  <2>1. ASSUME NEW c \in Batches, NEW k \in linked'[c], item'[c][k] = "SUCCEEDED"
        PROVE  phase'[k] = "published" /\ winner'[k] # 0
    <3>1. k \in Keys /\ phase[k] = "published"
      BY <1>1, <1>3, <2>1 DEF TypeOK, BatchInv, SuccessIsBacked
    <3> QED BY <1>2, <3>1 DEF FenceInv
  <2> QED BY <2>1 DEF SuccessIsBacked
<1> QED BY <1>2, <1>4, <1>5, <1>6, <1>7, <1>8 DEF BatchInv

-----------------------------------------------------------------------------
(* Theorems *)

LEMMA Keeps ==
  ASSUME BatchInv, [Next]_vars
  PROVE  BatchInv'
<1>1. CASE TaskMoves
  BY <1>1, TaskMovesKeep
<1>2. ASSUME NEW b \in Batches, RequestStep(b) PROVE BatchInv'
  BY <1>2, CreateKeeps, RetryKeeps, RefreshReadsKeeps, RefreshSavesKeeps, WebDiesKeeps
     DEF RequestStep
<1>3. ASSUME NEW b \in Batches, NEW p \in Packages, ItemStep(b, p) PROVE BatchInv'
  BY <1>3, DispatchKeeps, ExecuteKeeps, ProviderActsKeeps, OutcomeKeeps, AbortKeeps DEF ItemStep
<1>4. ASSUME NEW b \in Batches, NEW k \in Keys, SyncStep(b, k) PROVE BatchInv'
  BY <1>4, SyncBeginsKeeps, SyncCommitsKeeps DEF SyncStep, RunReports, Reconcile
<1>5. CASE UNCHANGED vars
  <2>1. UNCHANGED <<phase, fence, holder, winner, batch, item, linked, queue, busy, posts,
                    unknown, outbox, refresh, retries, sync>>
    BY <1>5 DEF vars, fenceVars, batchVars
  <2> QED BY <2>1 DEF BatchInv, TypeOK, FenceInv, RequestInv, ItemInv, SyncInv, PostsAreAccounted,
                      SuccessIsBacked
<1> QED BY <1>1, <1>2, <1>3, <1>4, <1>5 DEF Next

(* Types, supported batch statuses and the accounts of every item and sync   *)
(* survive every step of the web, the workers and the publish-task engine.   *)
THEOREM BatchInvariant == Spec => []BatchInv
<1>1. Init => BatchInv
  BY InitEstablishes
<1>2. BatchInv /\ [Next]_vars => BatchInv'
  BY Keeps
<1> QED BY <1>1, <1>2, PTL DEF Spec

(* An item is posted a second time only if an earlier post was forgotten by a *)
(* timeout or a rollback.                                                     *)
THEOREM PostsHaveAccounts == Spec => []PostsAreAccounted
<1>1. BatchInv => PostsAreAccounted
  BY DEF BatchInv
<1> QED BY <1>1, BatchInvariant, PTL

(* A delegated item's success is its publish task's.                           *)
THEOREM SuccessesAreBacked == Spec => []SuccessIsBacked
<1>1. BatchInv => SuccessIsBacked
  BY DEF BatchInv
<1> QED BY <1>1, BatchInvariant, PTL

(* No late execution, retry or sync takes a success back or posts it again.    *)
THEOREM SuccessesAreFinal == Spec => SucceededIsFinal
<1>1. ASSUME BatchInv, [Next]_vars, NEW b \in Batches, NEW p \in Packages,
             item[b][p] = "SUCCEEDED"
      PROVE  item'[b][p] = "SUCCEEDED" /\ posts'[b][p] = posts[b][p]
  <2>1. TypeOK /\ busy[b][p] = "idle" /\ ~Executable(b, p)
    BY <1>1 DEF BatchInv, ItemInv, Executable, Failed
  <2>2. CASE TaskMoves \/ UNCHANGED vars
    BY <1>1, <2>2 DEF TaskMoves, vars, batchVars
  <2>3. ASSUME NEW c \in Batches, RequestStep(c)
        PROVE  item'[b][p] = "SUCCEEDED" /\ posts'[b][p] = posts[b][p]
    <3>1. CASE CreatePublishBatch(c)
      <4>1. c # b
        BY <1>1, <3>1 DEF CreatePublishBatch, BatchInv, RequestInv
      <4> QED BY <1>1, <2>1, <3>1, <4>1 DEF CreatePublishBatch, workerVars, TypeOK
    <3>2. CASE ~CreatePublishBatch(c)
      BY <1>1, <2>3, <3>2 DEF RequestStep, RetryFailedItems, RefreshReads, RefreshSaves, WebDies,
                              itemVars, workerVars
    <3> QED BY <3>1, <3>2
  <2>4. ASSUME NEW c \in Batches, NEW q \in Packages, ItemStep(c, q)
        PROVE  item'[b][p] = "SUCCEEDED" /\ posts'[b][p] = posts[b][p]
    <3>1. CASE c = b /\ q = p
      BY <1>1, <2>1, <2>4, <3>1 DEF ItemStep, Dispatch, Execute, ExecuteSkips, ExecuteNothing,
         ProviderActs, ExecuteSucceeds, ExecuteFails, ExecuteAborts, itemVars
    <3>2. CASE ~(c = b /\ q = p)
      BY <1>1, <2>1, <2>4, <3>2 DEF ItemStep, Dispatch, Execute, ExecuteSkips, ExecuteNothing,
         ProviderActs, ExecuteSucceeds, ExecuteFails, ExecuteAborts, itemVars, Saves, TypeOK
    <3> QED BY <3>1, <3>2
  <2>5. ASSUME NEW c \in Batches, NEW k \in Keys, SyncStep(c, k)
        PROVE  item'[b][p] = "SUCCEEDED" /\ posts'[b][p] = posts[b][p]
    <3>1. CASE SyncCommits(c, k)
      <4>1. MayBecome(item[c][k], sync[c][k].item)
        BY <1>1, <3>1 DEF SyncCommits, BatchInv, SyncInv
      <4> QED BY <1>1, <2>1, <3>1, <4>1 DEF SyncCommits, Saves, MayBecome, workerVars, TypeOK
    <3>2. CASE SyncBegins(c, k)
      BY <1>1, <3>2 DEF SyncBegins, itemVars, workerVars
    <3> QED BY <2>5, <3>1, <3>2 DEF SyncStep, RunReports, Reconcile
  <2> QED BY <1>1, <2>2, <2>3, <2>4, <2>5 DEF Next
<1>2. BatchInv /\ [Next]_vars =>
        [\A b \in Batches, p \in Packages : item[b][p] = "SUCCEEDED" =>
           item'[b][p] = "SUCCEEDED" /\ posts'[b][p] = posts[b][p]]_vars
  BY <1>1
<1> QED BY <1>2, BatchInvariant, PTL DEF Spec, SucceededIsFinal
=============================================================================
