---------------------------- MODULE Understanding ----------------------------
(*****************************************************************************)
(* Asset understanding (apps/assets/understanding.py): the second client     *)
(* of the job queue.  A job reads one asset for one product and leaves the   *)
(* facts it found; its worker commits when it claims, when it opens its      *)
(* AIRun, when it ends, and twice when it fails.  What is extracted from a   *)
(* document is a set of facts, empty for an image.                           *)
(*****************************************************************************)
EXTENDS JobQueue

CONSTANTS MaxAsks   \* bound on the requests of one job, first and repeated

VARIABLES asks,     \* asks[j]: requests so far
          asking,   \* requests that hold the job and have not dispatched it
          sent,     \* Celery messages
          reader,   \* reader[j][n]: the worker of attempt n
          aiRun,    \* aiRun[j][n]: its AIRun
          facts     \* ProductEvidenceFact rows: their attempt and their review

readVars == <<asks, asking, sent, reader, aiRun, facts>>
understandingVars == <<jobVars, readVars>>

Fact == [attempt: Numbers, review: {"SUGGESTED", "VERIFIED", "REJECTED"}]
ReaderStates == {"none", "claimed", "reading", "failing", "failed", "done", "dead"}

UnderstandingInit ==
    /\ JobInit
    /\ asks = [j \in Jobs |-> 0] /\ asking = [j \in Jobs |-> 0] /\ sent = [j \in Jobs |-> 0]
    /\ reader = [j \in Jobs |-> [n \in Numbers |-> "none"]]
    /\ aiRun = [j \in Jobs |-> [n \in Numbers |-> "NONE"]]
    /\ facts = [j \in Jobs |-> {}]

---------------------------------------------------------------------------
(* Requests *)

(* start_understanding: the same asset, product and provider are the same    *)
(* job.  One that waits is dispatched again.                                 *)
StartUnderstanding(j) ==
    /\ asks[j] < MaxAsks
    /\ asks' = [asks EXCEPT ![j] = @ + 1]
    /\ CreateJob(j) \/ (job[j].status # "ABSENT" /\ UNCHANGED jobVars)
    /\ asking' = [asking EXCEPT ![j] = IF job'[j].status \in Waiting THEN @ + 1 ELSE @]
    /\ UNCHANGED <<sent, reader, aiRun, facts>>

RetryUnderstanding(j) ==
    /\ asks[j] < MaxAsks
    /\ asks' = [asks EXCEPT ![j] = @ + 1]
    /\ RetryJob(j)
    /\ asking' = [asking EXCEPT ![j] = @ + 1]
    /\ UNCHANGED <<sent, reader, aiRun, facts>>

SendUnderstanding(j) ==
    /\ asking[j] > 0
    /\ asking' = [asking EXCEPT ![j] = @ - 1]
    /\ sent' = [sent EXCEPT ![j] = @ + 1]
    /\ UNCHANGED <<jobVars, asks, reader, aiRun, facts>>

RequestDies(j) ==
    /\ asking[j] > 0
    /\ asking' = [asking EXCEPT ![j] = @ - 1]
    /\ UNCHANGED <<jobVars, asks, sent, reader, aiRun, facts>>

(* The endpoints of the job queue, the reaper and the clock                *)
QueueStep(j) ==
    /\ \/ RetryJob(j) /\ asks[j] < MaxAsks /\ asks' = [asks EXCEPT ![j] = @ + 1]
       \/ CancelJob(j) /\ UNCHANGED asks
       \/ LeaseRunsOut(j) /\ UNCHANGED asks
    /\ UNCHANGED <<asking, sent, reader, aiRun, facts>>
ReapUnderstanding == ReapJobs /\ UNCHANGED readVars

---------------------------------------------------------------------------
(* The worker *)

ReaderBecomes(j, n, state) == reader' = [reader EXCEPT ![j][n] = state]
Drop(j) == sent' = [sent EXCEPT ![j] = @ - 1]

(* The message is lost, the provider is not configured any more, or the      *)
(* job cannot be claimed.                                                    *)
MessageWasted(j) ==
    /\ sent[j] > 0 /\ Drop(j)
    /\ UNCHANGED <<jobVars, asks, asking, reader, aiRun, facts>>

ClaimUnderstanding(j) ==
    /\ sent[j] > 0 /\ Drop(j)
    /\ ClaimJob(j) /\ ReaderBecomes(j, job[j].attempt, "claimed")
    /\ UNCHANGED <<asks, asking, aiRun, facts>>

(* A prompt or a run that cannot be stored raises; the job stays RUNNING.  *)
OpenRun(j, n) ==
    /\ reader[j][n] = "claimed"
    /\ \/ ReaderBecomes(j, n, "reading") /\ aiRun' = [aiRun EXCEPT ![j][n] = "RUNNING"]
       \/ ReaderBecomes(j, n, "done") /\ UNCHANGED aiRun
    /\ UNCHANGED <<jobVars, asks, asking, sent, facts>>

(* Facts, run and job in one transaction.                                  *)
StoreFacts_mut(j, n) ==
    /\ reader[j][n] = "reading"
    /\ \E found \in SUBSET {[attempt |-> n, review |-> "SUGGESTED"]} :
          facts' = [facts EXCEPT ![j] = @ \cup found]
    /\ \/ /\ SucceedJob(j, n) /\ ReaderBecomes(j, n, "done")
          /\ aiRun' = [aiRun EXCEPT ![j][n] = "SUCCEEDED"]
       \/ ~Owns(j, n) /\ ReaderBecomes(j, n, "failing") /\ UNCHANGED <<jobVars, aiRun>>
    /\ UNCHANGED <<asks, asking, sent>>
StoreFacts(j, n) ==
    /\ reader[j][n] = "reading"
    /\ \E found \in SUBSET {[attempt |-> n, review |-> "SUGGESTED"]} :
          facts' = [facts EXCEPT ![j] = @ \cup found]
    /\ SucceedJob(j, n) /\ ReaderBecomes(j, n, "done")
    /\ aiRun' = [aiRun EXCEPT ![j][n] = "SUCCEEDED"]
    /\ UNCHANGED <<asks, asking, sent>>

(* The document cannot be read, the provider fails, or the token is stale. *)
ReadingRaises(j, n) ==
    /\ reader[j][n] = "reading"
    /\ ReaderBecomes(j, n, "failing")
    /\ UNCHANGED <<jobVars, asks, asking, sent, aiRun, facts>>

FailRun(j, n) ==
    /\ reader[j][n] = "failing"
    /\ aiRun' = [aiRun EXCEPT ![j][n] = "FAILED"] /\ ReaderBecomes(j, n, "failed")
    /\ UNCHANGED <<jobVars, asks, asking, sent, facts>>

FailUnderstanding(j, n) ==
    /\ reader[j][n] = "failed"
    /\ FailJob(j, n) \/ (~Owns(j, n) /\ UNCHANGED jobVars)
    /\ ReaderBecomes(j, n, "done")
    /\ UNCHANGED <<asks, asking, sent, aiRun, facts>>

ReaderDies(j, n) ==
    /\ reader[j][n] \in {"claimed", "reading", "failing", "failed"}
    /\ ReaderBecomes(j, n, "dead")
    /\ UNCHANGED <<jobVars, asks, asking, sent, aiRun, facts>>

(* review_fact: from any status *)
ReviewFact(j) ==
    \E f \in facts[j], verdict \in {"VERIFIED", "REJECTED"} :
       /\ facts' = [facts EXCEPT ![j] = (@ \ {f}) \cup {[f EXCEPT !.review = verdict]}]
       /\ UNCHANGED <<jobVars, asks, asking, sent, reader, aiRun>>

UnderstandingNext ==
    \/ \E j \in Jobs :
          \/ StartUnderstanding(j) \/ RetryUnderstanding(j) \/ SendUnderstanding(j)
          \/ RequestDies(j) \/ QueueStep(j) \/ MessageWasted(j) \/ ClaimUnderstanding(j)
          \/ ReviewFact(j)
          \/ \E n \in Numbers :
                \/ OpenRun(j, n) \/ StoreFacts(j, n) \/ ReadingRaises(j, n)
                \/ FailRun(j, n) \/ FailUnderstanding(j, n) \/ ReaderDies(j, n)
    \/ ReapUnderstanding

UnderstandingSpec == UnderstandingInit /\ [][UnderstandingNext]_understandingVars

---------------------------------------------------------------------------
(* Properties *)

UnderstandingTypeOK ==
    /\ JobTypeOK
    /\ reader \in [Jobs -> [Numbers -> ReaderStates]]
    /\ aiRun \in [Jobs -> [Numbers -> {"NONE", "RUNNING", "SUCCEEDED", "FAILED"}]]
    /\ facts \in [Jobs -> SUBSET Fact]

(* The facts of a job are those of the one run that succeeded, the attempt   *)
(* its result names; a worker that lost the job to the reaper, a cancel or   *)
(* a retry leaves none behind, and a run that is open for good belongs to    *)
(* a dead worker.                                                            *)
FactsHaveOneSource ==
    \A j \in Jobs :
       /\ \A f \in facts[j] : job[j].status = "SUCCEEDED" /\ f.attempt = job[j].result
       /\ \A n \in Numbers :
             /\ aiRun[j][n] = "SUCCEEDED" <=> job[j].result = n
             /\ aiRun[j][n] = "RUNNING" => reader[j][n] \in {"reading", "failing", "dead"}
             /\ aiRun[j][n] = "FAILED" => job[j].attempt > n \/ job[j].status # "SUCCEEDED"
=============================================================================
