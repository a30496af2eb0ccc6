------------------------------- MODULE Markets -------------------------------
(********************************************************************************)
(* Where the growth side gets its companies and figures from, backend/apps/     *)
(* growth: procurement notices (discovery.py), Google Maps (maps_discovery.py), *)
(* opportunities entered by hand (manual_imports.py), trade figures             *)
(* (trade_data.py), and the promotion plan made of them (promotion_plan.py).    *)
(* A run's transactions are short; the source is asked between them.  What the  *)
(* sources answer is any set of notices, any figure.                            *)
(********************************************************************************)
EXTENDS Integers, Sequences, FiniteSets, FiniteSetsExt

CONSTANTS
  Notices,
  Entries,   \* what people enter by hand
  Figures,   \* what the source may say of one country, product and period
  MaxRuns, MaxSyncs, MaxApprovals  \* bounds

\* A search has finitely many hits; what is entered by hand is hashed from other fields.
ASSUME NoticesAssumption == IsFiniteSet(Notices) /\ Notices \cap Entries = {}

VARIABLES
  profile,   \* the DiscoveryProfile
  scan,      \* its DiscoveryRun rows with their workers
  found,   \* the IntentSignal rows, by content hash
  maps,      \* the GoogleMapsDiscoveryConfig, and how many runs ask Google
  figure,    \* what the trade source says now
  sync,      \* the TradeSyncRun rows with their workers
  snapshot,  \* the TradeDatasetSnapshot rows, oldest first
  heard,     \* the figures of the committed syncs, oldest first
  approval,  \* the PromotionPlanApproval row
  drafting,  \* the approvals between reading the row and saving it
  plans      \* the approvals that were saved

discoveryVars == <<profile, scan, found, maps>>
tradeVars == <<figure, sync, snapshot, heard>>
promotionVars == <<approval, drafting, plans>>
marketVars == <<discoveryVars, tradeVars, promotionVars>>

Source == [failures |-> 0, error |-> "", due |-> TRUE]

MarketsInit ==
  /\ profile = [enabled |-> TRUE, source |-> Source]
  /\ maps = [enabled |-> FALSE, key |-> FALSE, source |-> Source, asking |-> 0]
  /\ scan = <<>> /\ found = {}
  /\ figure = (CHOOSE f \in Figures : TRUE) /\ sync = <<>> /\ snapshot = <<>> /\ heard = <<>>
  /\ approval = [approved |-> FALSE, version |-> 0] /\ drafting = {} /\ plans = {}

-----------------------------------------------------------------------------
(* Discovery                                                                    *)

\* The same rows for both sources: 24 hours to the next run, or min(2^(n-1), 24),
\* with n counted up to 10.
Succeeded(source) == [failures |-> 0, error |-> "", due |-> FALSE]
MinOf(a, b) == IF a < b THEN a ELSE b
Failed(source) == [failures |-> MinOf(source.failures + 1, 10), error |-> "SOURCE", due |-> FALSE]

Running == {i \in DOMAIN scan : scan[i].status = "RUNNING"}

\* _start_run: runs older than 30 minutes are failed; if one is left the transaction
\* raises.  run_due_discovery_profiles asks only for what is enabled and due.
StartScan ==
  /\ Len(scan) < MaxRuns /\ \A i \in Running : scan[i].stale
  /\ \E trigger \in {"MANUAL", "SCHEDULED"} :
       /\ trigger = "SCHEDULED" => profile.enabled /\ profile.source.due
       /\ scan' = Append([i \in DOMAIN scan |-> IF i \in Running
                            THEN [scan[i] EXCEPT !.status = "FAILED", !.error = "STALE_RUN_RECOVERED"]
                            ELSE scan[i]],
                    [status |-> "RUNNING", trigger |-> trigger, error |-> "", stale |-> FALSE,
                     created |-> 0, worker |-> "asks"])
  /\ UNCHANGED <<profile, found, maps>>

Fresh_mut(items) == items
Fresh(items) == items \ found

\* _ingest_batch: the run is SUCCEEDED whatever it was; its error code stays.
Ingest(i) ==
  /\ scan[i].worker = "asks"
  /\ \E items \in SUBSET Notices :
       /\ found' = found \cup items
       /\ scan' = [scan EXCEPT ![i] = [@ EXCEPT !.status = "SUCCEEDED", !.worker = "done",
                                       !.created = Cardinality(Fresh(items))]]
  /\ profile' = [profile EXCEPT !.source = Succeeded(@)]
  /\ UNCHANGED maps

\* A SourceAdapterError.
RecordFailure(i) ==
  /\ scan[i].worker = "asks"
  /\ scan' = [scan EXCEPT ![i] = [@ EXCEPT !.status = "FAILED", !.error = "SOURCE", !.worker = "done"]]
  /\ profile' = [profile EXCEPT !.source = Failed(@)]
  /\ UNCHANGED <<found, maps>>

\* Any other error, or the process: the row stays RUNNING.
ScannerDies(i) ==
  /\ scan[i].worker = "asks"
  /\ scan' = [scan EXCEPT ![i].worker = "done"]
  /\ UNCHANGED <<profile, found, maps>>

HalfHourPasses ==
  /\ \E i \in Running : ~scan[i].stale
  /\ scan' = [i \in DOMAIN scan |-> [scan[i] EXCEPT !.stale = TRUE]]
  /\ UNCHANGED <<profile, found, maps>>

\* next_run_at has passed.
DayPasses ==
  /\ ~profile.source.due \/ ~maps.source.due
  /\ profile' = [profile EXCEPT !.source.due = TRUE] /\ maps' = [maps EXCEPT !.source.due = TRUE]
  /\ UNCHANGED <<scan, found>>

SwitchProfile ==
  /\ profile' = [profile EXCEPT !.enabled = ~@] /\ UNCHANGED <<scan, found, maps>>

\* import_manual_opportunity, under the organization's row lock.
EnterByHand(e) == e \notin found /\ found' = found \cup {e} /\ UNCHANGED <<profile, scan, maps>>

-----------------------------------------------------------------------------
(* Google Maps.  Without a key _prepared records the failure and raises, which *)
(* rolls its record back: nothing changes, and the scheduler meets it again.   *)
ConfigureMaps ==
  /\ \E enabled, key \in BOOLEAN : maps' = [maps EXCEPT !.enabled = enabled, !.key = key]
  /\ UNCHANGED <<profile, scan, found>>
AskMaps ==
  /\ maps.enabled /\ maps.key /\ maps.asking < 2
  /\ maps' = [maps EXCEPT !.asking = @ + 1] /\ UNCHANGED <<profile, scan, found>>
\* _ingest_places and _record_failure; what it finds are candidates, one per place.
MapsAnswer ==
  /\ maps.asking > 0
  /\ \E after \in {Succeeded(maps.source), Failed(maps.source), maps.source} :
       maps' = [maps EXCEPT !.asking = @ - 1, !.source = after]
  /\ UNCHANGED <<profile, scan, found>>

ScanStep(i) == Ingest(i) \/ RecordFailure(i) \/ ScannerDies(i)
DiscoveryNext ==
  \/ StartScan \/ HalfHourPasses \/ DayPasses \/ SwitchProfile
  \/ \E i \in DOMAIN scan : ScanStep(i)
  \/ \E e \in Entries : EnterByHand(e)
MapsNext == ConfigureMaps \/ AskMaps \/ MapsAnswer \/ DayPasses

-----------------------------------------------------------------------------
(* Trade figures: sync_trade_data, for one dimension of trade_indicators.         *)

SourceCorrects == \E f \in Figures \ {figure} : figure' = f /\ UNCHANGED <<sync, snapshot, heard>>
StartSync ==
  /\ Len(sync) < MaxSyncs
  /\ sync' = Append(sync, [status |-> "RUNNING", got |-> figure, worker |-> "asks"])
  /\ UNCHANGED <<figure, snapshot, heard>>
\* get_or_create by record_hash: a figure that was stored before is reused.  Rows are
\* in the order of created_at, which is set at the insert: two syncs that overlap may
\* commit in the other order, which no reader of created_at can tell.
StoreFigure(f) == IF \E i \in DOMAIN snapshot : snapshot[i] = f THEN snapshot ELSE Append(snapshot, f)
FinishSync(i) ==
  /\ sync[i].worker = "asks"
  /\ sync' = [sync EXCEPT ![i] = [@ EXCEPT !.status = "SUCCEEDED", !.worker = "done"]]
  /\ snapshot' = StoreFigure(sync[i].got) /\ heard' = Append(heard, sync[i].got)
  /\ UNCHANGED figure
\* Only a SourceAdapterError fails the row; after any other it stays RUNNING for good.
BreakSync(i) ==
  /\ sync[i].worker = "asks"
  /\ \E status \in {"FAILED", "RUNNING"} :
       sync' = [sync EXCEPT ![i] = [@ EXCEPT !.status = status, !.worker = "done"]]
  /\ UNCHANGED <<figure, snapshot, heard>>
TradeNext ==
  \/ SourceCorrects \/ StartSync \/ \E i \in DOMAIN sync : FinishSync(i) \/ BreakSync(i)

\* trade_indicators: the snapshot created last.
Reading_mut == snapshot[1]
Reading == snapshot[Len(snapshot)]

-----------------------------------------------------------------------------
(* The promotion plan.  The row is read unlocked, and counted up from what was read. *)
BeginApproval(a) ==
  /\ a \notin {d.id : d \in drafting} \cup {p.id : p \in plans}
  /\ drafting' = drafting \cup {[id |-> a, read |-> approval.version, among |-> {d.id : d \in drafting}]}
  /\ UNCHANGED <<approval, plans>>
NextVersion(d) == d.read + 1
EndApproval(d) ==
  /\ approval' = [approved |-> TRUE, version |-> NextVersion(d)]
  /\ drafting' = drafting \ {d}
  /\ plans' = plans \cup {[id |-> d.id, version |-> NextVersion(d),
                           among |-> d.among \cup {e.id : e \in drafting \ {d}}]}
ClearApproval ==
  /\ approval.approved /\ approval' = [approval EXCEPT !.approved = FALSE]
  /\ UNCHANGED <<drafting, plans>>
PromotionNext ==
  \/ \E a \in 1..MaxApprovals : BeginApproval(a)
  \/ \E d \in drafting : EndApproval(d)
  \/ ClearApproval

-----------------------------------------------------------------------------
MarketsNext ==
  \/ (DiscoveryNext \/ MapsNext) /\ UNCHANGED <<tradeVars, promotionVars>>
  \/ TradeNext /\ UNCHANGED <<discoveryVars, promotionVars>>
  \/ PromotionNext /\ UNCHANGED <<discoveryVars, tradeVars>>
MarketsSpec == MarketsInit /\ [][MarketsNext]_marketVars

MarketsTypeOK ==
  /\ \A i \in DOMAIN scan : scan[i].status \in {"RUNNING", "SUCCEEDED", "FAILED"}
  /\ found \subseteq Notices \cup Entries
  /\ \A source \in {profile.source, maps.source} :
       source.failures \in 0..10 /\ (source.failures = 0) = (source.error = "")
  /\ \A i \in DOMAIN sync : sync[i].status \in {"RUNNING", "SUCCEEDED", "FAILED"}

-----------------------------------------------------------------------------
(* Every notice became a signal of exactly one run, even when a run that had been    *)
(* given up went on beside its successor; at most one run is RUNNING, and a run that *)
(* is still at work without being RUNNING was recovered as stale.                    *)
SignalsAreCounted ==
  /\ MapThenSumSet(LAMBDA i : scan[i].created, DOMAIN scan) = Cardinality(found \cap Notices)
  /\ Cardinality(Running) <= 1
  /\ \A i \in DOMAIN scan : scan[i].worker = "asks" /\ scan[i].status # "RUNNING"
                            => scan[i].error = "STALE_RUN_RECOVERED"

(* The indicators show the figure of the last sync, unless that sync brought back a      *)
(* figure the source had corrected in between, which is stored under its old row; and    *)
(* the promotion plan's version counts its approvals, unless two were under way together *)
(* (trade_data.py, promotion_plan.py).                                                   *)
ReadingsAreTheLastHeard ==
  /\ heard # <<>> =>
       LET last == heard[Len(heard)] IN
       Reading = last \/ \E i, j \in DOMAIN heard : i < j /\ heard[i] = last /\ heard[j] = Reading
  /\ (\A p \in plans : p.among = {}) => approval.version = Cardinality(plans)
=============================================================================
