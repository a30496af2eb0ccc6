----------------------------- MODULE GrowthProofs -----------------------------
(*********************************************************************************)
(* Safety of missions, agent runs, inquiries and market sources, for every set   *)
(* of companies, runs, missions, requests and notices.                           *)
(*                                                                               *)
(* MissionInv is inductive under every step of the growth side: what a step of   *)
(* an agent or a page does to the mission's rows is nothing.  RunInv is what a   *)
(* run must keep for its end to be final, and InquiryInv explains a contact that *)
(* was created twice by two inquiries that were under way together; SignalInv    *)
(* and VisitInv say what a saved score has read.  MarketInv is about counts and  *)
(* the order of figures.  AgentInv says what a transaction, a fold over the      *)
(* planner's actions, may have done when it ends, and CreditInv who is still to  *)
(* credit it.  TeamTypes, LinkTypes, InboundTypes and MarketTypes make the types *)
(* of the rows inductive: no more messages than answered mails, room for what    *)
(* an open transaction will write.                                               *)
(*********************************************************************************)
EXTENDS Growth, AIBudgetProofs, TLAPS, FiniteSetTheorems, SequenceTheorems

-----------------------------------------------------------------------------
(* Missions *)

Plan == [mission: Missions, status: PlanStatuses, terms: Terms]
RequestStages == {"checked", "linked", "ran", "run linked"}
ApprovedPlans(m) == {p \in PlansOf(m) : plan[p].status = "APPROVED"}

MissionRowsOK ==
  /\ mission \in [Missions -> [status: MissionStatuses, terms: Terms]]
  /\ plan \in Seq(Plan)
  /\ newest \in [Runs -> SUBSET Missions]
  /\ \A l \in link : l.mission \in Missions
  /\ starting \subseteq [mission: Missions, run: Runs, at: RequestStages]

\* A customer was looked for or written to for m, or is about to be.
Reached(m) ==
  \/ \E l \in link : l.mission = m /\ OfOutreach(l.entity)
  \/ \E request \in starting : request.mission = m /\ AgentType[request.run] = "proactive"
  \/ \E r \in Runs : m \in newest[r] /\ AgentType[r] = "proactive"

Planned(m) ==
  /\ mission[m].status \in {"none", "DRAFT"} => PlansOf(m) = {}
  /\ \A p \in PlansOf(m) : plan[p].terms = mission[m].terms
  /\ mission[m].status = "PENDING_APPROVAL" => ApprovedPlans(m) = {}
  /\ mission[m].status \in {"RUNNING", "PAUSED", "COMPLETED"} => HasApprovedPlan(m)
  /\ \A p, q \in ApprovedPlans(m) : p = q
  /\ Reached(m) => HasApprovedPlan(m)

MissionInv == MissionRowsOK /\ \A m \in Missions : Planned(m)

\* The rows of one mission and what is known of a row of plan.
LEMMA MissionRow ==
  ASSUME MissionRowsOK, NEW m \in Missions
  PROVE  /\ mission[m].status \in MissionStatuses /\ mission[m].terms \in Terms
         /\ mission[m] \in [status: MissionStatuses, terms: Terms]
         /\ \A p \in PlansOf(m) : p \in DOMAIN plan /\ plan[p] \in Plan /\ plan[p].mission = m
BY DEF MissionRowsOK, PlansOf

\* An agent that works for no mission, and one that goes on, is an agent's step.
LEMMA GrowthSteps ==
  GrowthNext => \/ MissionsNext
                \/ AgentsNext /\ UNCHANGED missionVars
                \/ (OutreachNext \/ WeekPasses) /\ UNCHANGED <<agentVars, missionVars>>
BY DEF GrowthNext, AgentsNext

LEMMA MissionsBegin == MissionsInit => MissionInv
<1> SUFFICES ASSUME MissionsInit PROVE MissionInv
  OBVIOUS
<1>1. (CHOOSE t \in Terms : TRUE) \in Terms
  BY TermsAssumption
<1>2. plan \in Seq(Plan) /\ DOMAIN plan = {}
  BY DEF MissionsInit
<1>3. mission \in [Missions -> [status: MissionStatuses, terms: Terms]]
  BY <1>1 DEF MissionsInit, MissionStatuses
<1> QED
  BY <1>2, <1>3 DEF MissionsInit, MissionInv, MissionRowsOK, Planned, PlansOf, ApprovedPlans, Reached

\* A step that rewrites neither a mission nor a plan, and reaches customers only for
\* missions that did before or are RUNNING.
LEMMA ReachesFew ==
  ASSUME MissionInv, MissionRowsOK', UNCHANGED <<mission, plan>>,
         \A m \in Missions : Reached(m)' => Reached(m) \/ mission[m].status = "RUNNING"
  PROVE  MissionInv'
BY DEF MissionInv, Planned, PlansOf, ApprovedPlans, HasApprovedPlan

\* A step that rewrites the row of mission m and none of its plans.
LEMMA OneMissionSteps ==
  ASSUME MissionInv, NEW m \in Missions, NEW row \in [status: MissionStatuses, terms: Terms],
         mission' = [mission EXCEPT ![m] = row],
         UNCHANGED <<plan, link, newest, starting>>,
         Planned(m)'
  PROVE  MissionInv'
<1>1. MissionRowsOK'
  BY DEF MissionInv, MissionRowsOK
<1>2. ASSUME NEW k \in Missions \ {m} PROVE Planned(k)'
  <2>1. mission'[k] = mission[k]
    BY DEF MissionInv, MissionRowsOK
  <2> QED
    BY <2>1 DEF MissionInv, Planned, PlansOf, ApprovedPlans, HasApprovedPlan, Reached
<1> QED
  BY <1>1, <1>2 DEF MissionInv

LEMMA MissionPagesKeep ==
  ASSUME MissionInv, NEW m \in Missions, CreateMission(m) \/ EditMission(m) \/ ChangeStatus(m)
  PROVE  MissionInv'
<1> USE DEF Only, missionVars
<1>1. MissionRowsOK /\ Planned(m)
  BY DEF MissionInv
<1>2. CASE CreateMission(m)
  <2>1. PICK t \in Terms : mission' = [mission EXCEPT ![m] = [status |-> "DRAFT", terms |-> t]]
    BY <1>2 DEF CreateMission
  <2> DEFINE row == [status |-> "DRAFT", terms |-> t]
  <2>2. row \in [status: MissionStatuses, terms: Terms]
    BY DEF MissionStatuses
  <2>3. mission'[m] = row /\ mission[m].status = "none" /\ PlansOf(m) = {}
    BY <1>1, <1>2, <2>1 DEF CreateMission, MissionRowsOK, Planned
  <2>4. Planned(m)'
    BY <1>1, <1>2, <2>3 DEF CreateMission, Planned, PlansOf, ApprovedPlans, HasApprovedPlan, Reached
  <2> QED
    BY <1>2, <2>1, <2>2, <2>4, OneMissionSteps DEF CreateMission
<1>3. CASE EditMission(m)
  <2>1. PICK t \in Terms : mission' = [mission EXCEPT ![m].terms = t]
    BY <1>3 DEF EditMission
  <2> DEFINE row == [mission[m] EXCEPT !.terms = t]
  <2>2. row \in [status: MissionStatuses, terms: Terms] /\ row.status = mission[m].status
    BY <1>1, MissionRow
  <2>3. mission' = [mission EXCEPT ![m] = row] /\ mission'[m] = row
    BY <1>1, <2>1 DEF MissionRowsOK
  <2>4. mission[m].status = "DRAFT" /\ PlansOf(m) = {}
    BY <1>1, <1>3 DEF EditMission, CanEdit, Planned
  <2>5. Planned(m)'
    BY <1>1, <1>3, <2>2, <2>3, <2>4
       DEF EditMission, Planned, PlansOf, ApprovedPlans, HasApprovedPlan, Reached
  <2> QED
    BY <1>3, <2>2, <2>3, <2>5, OneMissionSteps DEF EditMission
<1>4. CASE ChangeStatus(m)
  <2>1. PICK status \in MissionStatuses \ {"none"} :
          CanBecome(m, status) /\ mission' = [mission EXCEPT ![m].status = status]
    BY <1>4 DEF ChangeStatus
  <2> DEFINE row == [mission[m] EXCEPT !.status = status]
  <2>2. row \in [status: MissionStatuses, terms: Terms] /\ row.status = status
        /\ row.terms = mission[m].terms
    BY <1>1, MissionRow
  <2>3. mission' = [mission EXCEPT ![m] = row] /\ mission'[m] = row
    BY <1>1, <2>1 DEF MissionRowsOK
  <2>4. /\ status # "DRAFT"
        /\ status = "PENDING_APPROVAL" => mission[m].status = "DRAFT"
        /\ status = "RUNNING" => mission[m].status = "PAUSED"
        /\ status = "PAUSED" => mission[m].status = "RUNNING"
        /\ status = "COMPLETED" => HasApprovedPlan(m)
    BY <2>1 DEF CanBecome, Allowed
  <2>5. Planned(m)'
    BY <1>1, <1>4, <2>2, <2>3, <2>4
       DEF ChangeStatus, Planned, PlansOf, ApprovedPlans, HasApprovedPlan, Reached
  <2> QED
    BY <1>4, <2>2, <2>3, <2>5, OneMissionSteps DEF ChangeStatus
<1> QED
  BY <1>2, <1>3, <1>4

LEMMA GeneratePlanKeeps ==
  ASSUME MissionInv, NEW m \in Missions, GeneratePlan(m)
  PROVE  MissionInv'
<1> USE DEF Only, missionVars
<1> DEFINE new == [mission |-> m, status |-> "DRAFT", terms |-> mission[m].terms]
<1>1. MissionRowsOK /\ \A k \in Missions : Planned(k)
  BY DEF MissionInv
<1>2. /\ new \in Plan /\ plan' = Append(plan, new) /\ plan' \in Seq(Plan)
      /\ DOMAIN plan' = DOMAIN plan \cup {Len(plan) + 1} /\ Len(plan) + 1 \notin DOMAIN plan
      /\ plan'[Len(plan) + 1] = new /\ \A p \in DOMAIN plan : plan'[p] = plan[p]
  BY <1>1, MissionRow DEF GeneratePlan, MissionRowsOK, Plan, PlanStatuses
<1>3. /\ mission[m].status # "none"
      /\ mission'[m].terms = mission[m].terms
      /\ mission'[m].status = IF mission[m].status = "DRAFT" THEN "PENDING_APPROVAL"
                              ELSE mission[m].status
      /\ \A k \in Missions \ {m} : mission'[k] = mission[k]
      /\ UNCHANGED <<link, newest, starting>>
  BY <1>1 DEF GeneratePlan, MissionRowsOK
<1>4. mission' \in [Missions -> [status: MissionStatuses, terms: Terms]]
  BY <1>1, MissionRow DEF GeneratePlan, MissionRowsOK, MissionStatuses
<1>5. MissionRowsOK'
  BY <1>1, <1>2, <1>3, <1>4 DEF MissionRowsOK
<1>6. ASSUME NEW k \in Missions PROVE Planned(k)'
  <2>1. /\ ApprovedPlans(k)' = ApprovedPlans(k) /\ (HasApprovedPlan(k)' <=> HasApprovedPlan(k))
        /\ PlansOf(k)' = IF k = m THEN PlansOf(k) \cup {Len(plan) + 1} ELSE PlansOf(k)
    BY <1>2 DEF ApprovedPlans, HasApprovedPlan, PlansOf
  <2>2. Reached(k)' <=> Reached(k)
    BY <1>3 DEF Reached
  <2>3. /\ mission'[k].status \in {"none", "DRAFT"} => PlansOf(k)' = {}
        /\ mission'[k].status = "PENDING_APPROVAL" => ApprovedPlans(k)' = {}
        /\ mission'[k].status \in {"RUNNING", "PAUSED", "COMPLETED"} => HasApprovedPlan(k)'
    BY <1>1, <1>3, <2>1 DEF Planned, ApprovedPlans
  <2>4. \A p \in PlansOf(k)' : plan'[p].terms = mission'[k].terms
    BY <1>1, <1>2, <1>3, <2>1, MissionRow DEF Planned
  <2> QED
    BY <1>1, <2>1, <2>2, <2>3, <2>4 DEF Planned
<1> QED
  BY <1>5, <1>6 DEF MissionInv

LEMMA ApprovePlanKeeps ==
  ASSUME MissionInv, NEW p \in DOMAIN plan, ApprovePlan(p)
  PROVE  MissionInv'
<1> USE DEF Only, missionVars
<1> DEFINE m == plan[p].mission
           status(q) == IF q = p THEN "APPROVED" ELSE "SUPERSEDED"
<1>1. MissionRowsOK /\ \A k \in Missions : Planned(k)
  BY DEF MissionInv
<1>2. plan[p] \in Plan /\ m \in Missions /\ mission[m].status = "PENDING_APPROVAL"
  <2>1. \A q \in DOMAIN plan : plan[q] \in Plan
    BY <1>1 DEF MissionRowsOK
  <2> QED
    BY <2>1 DEF ApprovePlan, Plan
<1>3. /\ DOMAIN plan' = DOMAIN plan
      /\ \A q \in DOMAIN plan : plan'[q] = IF plan[q].mission # m THEN plan[q]
                                           ELSE [plan[q] EXCEPT !.status = status(q)]
  BY <1>1 DEF ApprovePlan, MissionRowsOK
<1>4. ASSUME NEW q \in DOMAIN plan
      PROVE  /\ plan[q] \in Plan /\ plan'[q] \in Plan
             /\ plan'[q].mission = plan[q].mission /\ plan'[q].terms = plan[q].terms
             /\ plan'[q].status = IF plan[q].mission # m THEN plan[q].status ELSE status(q)
  <2>1. plan[q] \in Plan
    BY <1>1 DEF MissionRowsOK
  <2> QED
    BY <1>3, <2>1 DEF Plan, PlanStatuses
<1>5. plan' \in Seq(Plan)
  <2>1. DOMAIN plan = 1..Len(plan) /\ Len(plan) \in Nat
    BY <1>1 DEF MissionRowsOK
  <2>2. plan' = [q \in 1..Len(plan) |-> plan'[q]]
    BY <1>1, <2>1 DEF ApprovePlan, MissionRowsOK
  <2> QED
    BY <1>4, <2>1, <2>2, SeqDef
<1>6. /\ mission' \in [Missions -> [status: MissionStatuses, terms: Terms]]
      /\ mission'[m].status = "RUNNING" /\ mission'[m].terms = mission[m].terms
      /\ \A k \in Missions \ {m} : mission'[k] = mission[k]
      /\ UNCHANGED <<link, newest, starting>>
  BY <1>1, <1>2, MissionRow DEF ApprovePlan, MissionRowsOK, MissionStatuses
<1>7. MissionRowsOK'
  BY <1>1, <1>5, <1>6 DEF MissionRowsOK
<1>8. ASSUME NEW k \in Missions PROVE Planned(k)'
  <2>1. PlansOf(k)' = PlansOf(k) /\ (Reached(k)' <=> Reached(k))
    BY <1>3, <1>4, <1>6 DEF PlansOf, Reached
  <2>2. CASE k = m
    <3>1. ApprovedPlans(k)' = {p} /\ HasApprovedPlan(k)'
      BY <1>3, <1>4, <2>1, <2>2 DEF ApprovedPlans, HasApprovedPlan, PlansOf
    <3> QED
      BY <1>1, <1>4, <1>6, <2>1, <2>2, <3>1 DEF Planned, PlansOf
  <2>3. CASE k # m
    <3>1. ApprovedPlans(k)' = ApprovedPlans(k) /\ (HasApprovedPlan(k)' <=> HasApprovedPlan(k))
      BY <1>3, <1>4, <2>1, <2>3 DEF ApprovedPlans, HasApprovedPlan, PlansOf
    <3> QED
      BY <1>1, <1>4, <1>6, <2>1, <2>3, <3>1 DEF Planned, PlansOf
  <2> QED
    BY <2>2, <2>3
<1> QED
  BY <1>7, <1>8 DEF MissionInv

\* A request that moves on is still for its mission and run.
LEMMA RequestsMoveOn ==
  ASSUME MissionRowsOK, NEW request \in starting, NEW at \in RequestStages \cup {"done"}, MoveOn(request, at)
  PROVE  /\ request.mission \in Missions /\ request.run \in Runs
         /\ starting' \subseteq [mission: Missions, run: Runs, at: RequestStages]
         /\ \A x \in starting' : \E y \in starting : x.mission = y.mission /\ x.run = y.run
<1>1. request \in [mission: Missions, run: Runs, at: RequestStages]
  BY DEF MissionRowsOK
<1> DEFINE moved == [request EXCEPT !.at = at]
<1>2. at # "done" => moved \in [mission: Missions, run: Runs, at: RequestStages]
                     /\ moved.mission = request.mission /\ moved.run = request.run
  BY <1>1
<1> QED
  BY <1>1, <1>2 DEF MoveOn, MissionRowsOK

\* What a starting request links, and what is linked to the newest mission of a run.
LEMMA LinksReach ==
  ASSUME NEW r \in Runs
  PROVE  /\ OfOutreach(CandidateOf(r)) <=> AgentType[r] = "proactive"
         /\ OfOutreach(RunItself(r)) <=> AgentType[r] = "proactive"
         /\ \A i : OfOutreach(ResultOf(r, i)) <=> AgentType[r] = "proactive"
BY DEF OfOutreach, CandidateOf, RunItself, ResultOf

LEMMA SyncedReaches ==
  ASSUME NEW r \in Runs, NEW l \in Synced(r)
  PROVE  l \in link \/ (l.mission \in newest[r] /\ (OfOutreach(l.entity) => AgentType[r] = "proactive"))
<1> SUFFICES ASSUME l \notin link
    PROVE  l.mission \in newest[r] /\ (OfOutreach(l.entity) => AgentType[r] = "proactive")
  OBVIOUS
<1>1. l.mission \in newest[r] /\ \E i \in Results(r) : l.entity = ResultOf(r, i)
  BY DEF Synced
<1> QED
  BY <1>1, LinksReach

LEMMA StartsKeep ==
  ASSUME MissionInv, NEW request \in starting, Starting(request)
  PROVE  MissionInv'
<1> USE DEF missionVars, RequestStages
<1> DEFINE writes == AgentType[request.run] = "proactive"
<1>1. MissionRowsOK /\ (writes => Reached(request.mission))
  BY DEF MissionInv, Reached
<1>0. request.mission \in Missions /\ request.run \in Runs
  BY <1>1 DEF MissionRowsOK
<1> HIDE DEF writes
<1>2. CASE LinkCandidate(request)
  <2>1. UNCHANGED <<mission, plan, newest>> /\ MoveOn(request, "linked")
    BY <1>2 DEF LinkCandidate
  <2>2. \A l \in link' : l \in link \/ (l.mission = request.mission /\ writes)
    BY <1>2 DEF LinkCandidate, Linked, writes
  <2> QED
    BY <1>0, <1>1, <2>1, <2>2, RequestsMoveOn, ReachesFew DEF MissionRowsOK, Reached
<1>3. CASE RunAgent(request)
  <2>1. UNCHANGED <<mission, plan, link, newest>> /\ (UNCHANGED starting \/ MoveOn(request, "ran"))
    BY <1>3 DEF RunAgent
  <2> QED
    BY <1>1, <2>1, RequestsMoveOn, ReachesFew DEF MissionRowsOK, Reached
<1>4. CASE LinkRun(request)
  <2>1. /\ UNCHANGED <<mission, plan>> /\ MoveOn(request, "run linked")
        /\ newest' = newest \/ newest' = [newest EXCEPT ![request.run] = {request.mission}]
    BY <1>4 DEF LinkRun
  <2>2. \A l \in link' : l \in link \/ (l.mission = request.mission /\ (OfOutreach(l.entity) => writes))
    <3> DEFINE new == [mission |-> request.mission, entity |-> RunItself(request.run)]
    <3>1. link' = link \cup {new} /\ new.mission = request.mission /\ new.entity = RunItself(request.run)
      BY <1>4 DEF LinkRun, Linked
    <3> HIDE DEF new
    <3> QED
      BY <1>0, <3>1, LinksReach DEF writes
  <2>4. /\ newest' \in [Runs -> SUBSET Missions]
        /\ \A r \in Runs : \A m \in newest'[r] :
             m \in newest[r] \/ (r = request.run /\ m = request.mission)
    <3>1. CASE newest' = newest
      BY <1>1, <3>1 DEF MissionRowsOK
    <3>2. CASE newest' = [newest EXCEPT ![request.run] = {request.mission}]
      BY <1>0, <1>1, <3>2 DEF MissionRowsOK
    <3> QED
      BY <2>1, <3>1, <3>2
  <2>5. MissionRowsOK'
    BY <1>0, <1>1, <2>1, <2>2, <2>4, RequestsMoveOn DEF MissionRowsOK
  <2>6. ASSUME NEW m \in Missions, Reached(m)' PROVE Reached(m)
    <3>1. CASE \E l \in link' : l.mission = m /\ OfOutreach(l.entity)
      BY <1>1, <2>2, <3>1 DEF Reached
    <3>2. CASE \E x \in starting' : x.mission = m /\ AgentType[x.run] = "proactive"
      BY <1>1, <2>1, <3>2, RequestsMoveOn DEF Reached
    <3>3. CASE \E r \in Runs : m \in newest'[r] /\ AgentType[r] = "proactive"
      BY <1>1, <2>4, <3>3 DEF Reached, writes
    <3> QED
      BY <2>6, <3>1, <3>2, <3>3 DEF Reached, OfOutreach
  <2> QED
    BY <2>1, <2>5, <2>6, ReachesFew
<1>5. CASE LinkResults(request)
  <2>1. UNCHANGED <<mission, plan, newest>> /\ MoveOn(request, "done") /\ link' = Synced(request.run)
    BY <1>5 DEF LinkResults
  <2>2. \A l \in link' : \/ l \in link
                         \/ l.mission \in newest[request.run] /\ (OfOutreach(l.entity) => writes)
    BY <1>0, <2>1, SyncedReaches DEF writes
  <2> QED
    BY <1>0, <1>1, <2>1, <2>2, RequestsMoveOn, ReachesFew DEF MissionRowsOK, Reached, writes
<1>6. CASE StarterDies(request)
  <2>1. UNCHANGED <<mission, plan, link, newest>> /\ MoveOn(request, "done")
    BY <1>6 DEF StarterDies
  <2> QED
    BY <1>1, <2>1, RequestsMoveOn, ReachesFew DEF MissionRowsOK, Reached
<1> QED
  BY <1>2, <1>3, <1>4, <1>5, <1>6 DEF Starting

LEMMA MissionsKeep == MissionInv /\ [GrowthNext]_growthVars => MissionInv'
<1> SUFFICES ASSUME MissionInv, [GrowthNext]_growthVars PROVE MissionInv'
  OBVIOUS
<1> USE DEF missionVars
<1>1. CASE UNCHANGED missionVars
  BY <1>1 DEF MissionInv, MissionRowsOK, Planned, PlansOf, ApprovedPlans, HasApprovedPlan, Reached
<1>2. CASE LifeStep
  BY <1>2, MissionPagesKeep, GeneratePlanKeeps, ApprovePlanKeeps DEF LifeStep
<1>3. ASSUME NEW m \in Missions, NEW r \in Runs, BeginStart(m, r)
      PROVE  MissionInv'
  <2> DEFINE request == [mission |-> m, run |-> r, at |-> "checked"]
  <2>1. /\ mission[m].status = "RUNNING" /\ starting' = starting \cup {request}
        /\ request \in [mission: Missions, run: Runs, at: RequestStages] /\ request.mission = m
        /\ UNCHANGED <<mission, plan, link, newest>>
    BY <1>3 DEF BeginStart, Only, RequestStages
  <2> QED
    BY <2>1, ReachesFew DEF MissionInv, MissionRowsOK, Reached
<1>4. ASSUME NEW r \in Runs, SyncResults(r) \/ ApproverDies(r)
      PROVE  MissionInv'
  <2>1. UNCHANGED <<mission, plan, newest, starting>> /\ (link' = link \/ link' = Synced(r))
    BY <1>4 DEF SyncResults, ApproverDies
  <2>2. \A l \in link' :
          \/ l \in link
          \/ l.mission \in newest[r] /\ (OfOutreach(l.entity) => AgentType[r] = "proactive")
    BY <2>1, SyncedReaches
  <2> QED
    BY <2>1, <2>2, ReachesFew DEF MissionInv, MissionRowsOK, Reached
<1>5. ASSUME NEW m \in Missions, NEW r \in Runs, StartForMission(m, r)
      PROVE  MissionInv'
  <2> DEFINE request == [mission |-> m, run |-> r, at |-> "linked"]
  <2>1. /\ AgentType[r] # "proactive" /\ starting' = starting \cup {request}
        /\ request \in [mission: Missions, run: Runs, at: RequestStages] /\ request.run = r
        /\ UNCHANGED <<mission, plan, link, newest>>
    BY <1>5 DEF StartForMission, Only, RequestStages
  <2> HIDE DEF request
  <2> QED
    BY <2>1, ReachesFew DEF MissionInv, MissionRowsOK, Reached
<1>6. ASSUME NEW m \in Missions, LinkPublication(m)
      PROVE  MissionInv'
  <2>1. UNCHANGED <<mission, plan, newest, starting>>
    BY <1>6 DEF LinkPublication, Only
  <2>2. PICK type \in {"package", "batch"} : link' = Linked(m, [type |-> type])
    BY <1>6 DEF LinkPublication
  <2>3. \A l \in link' : l \in link \/ (l.mission = m /\ ~OfOutreach(l.entity))
    BY <2>2 DEF Linked, OfOutreach
  <2> QED
    BY <2>1, <2>3, ReachesFew DEF MissionInv, MissionRowsOK, Reached
<1>7. CASE StartsStep
  BY <1>3, <1>4, <1>5, <1>6, <1>7, StartsKeep DEF StartsStep
<1> QED
  BY <1>1, <1>2, <1>7, GrowthSteps DEF MissionsNext, growthVars

(* The inductive invariant of the missions: every plan was made from the mission's  *)
(* present terms, one plan at most is approved, and no customer is reached for a     *)
(* mission, or about to be, before one is (mission_services.py, mission_planning.py). *)
THEOREM MissionsSafe == GrowthSpec => []MissionInv
BY MissionsBegin, MissionsKeep, PTL DEF GrowthSpec, growthVars

(* A mission runs on exactly one approved plan of its own terms, and no customer is   *)
(* reached for it before the approval (MissionsRunTheirPlan, which TLC checks on two  *)
(* missions), whatever its strategies, social runs and publications are linked to.    *)
THEOREM MissionsAlwaysRunTheirPlan == GrowthSpec => []MissionsRunTheirPlan
<1>1. MissionInv => MissionsRunTheirPlan
  <2> SUFFICES ASSUME MissionInv, NEW m \in Missions
      PROVE  /\ mission[m].status \in {"RUNNING", "PAUSED", "COMPLETED"} =>
                  Cardinality(ApprovedPlans(m)) = 1
             /\ \A p \in ApprovedPlans(m) : plan[p].terms = mission[m].terms
             /\ (\E e \in Links(m) : OfOutreach(e)) => ApprovedPlans(m) # {}
    BY DEF MissionsRunTheirPlan, ApprovedPlans
  <2>1. Planned(m) /\ (HasApprovedPlan(m) <=> ApprovedPlans(m) # {})
    BY DEF MissionInv, HasApprovedPlan, ApprovedPlans
  <2>2. HasApprovedPlan(m) => Cardinality(ApprovedPlans(m)) = 1
    <3>1. ASSUME HasApprovedPlan(m) PROVE \E p : ApprovedPlans(m) = {p}
      BY <2>1, <3>1 DEF Planned
    <3> QED
      BY <3>1, FS_Singleton
  <2>3. (\E e \in Links(m) : OfOutreach(e)) => Reached(m)
    BY DEF Links, Reached
  <2> QED
    BY <2>1, <2>2, <2>3 DEF Planned, ApprovedPlans
<1> QED
  BY <1>1, MissionsSafe, PTL

-----------------------------------------------------------------------------
(* Runs *)

MailStarted(r) == sending[r] # <<>>

RunInv ==
  /\ DOMAIN run = Runs /\ \A r \in Runs : {"status", "steps"} \subseteq DOMAIN run[r]
  /\ DOMAIN sending = Runs
  /\ \E S : mails \in Seq(S)
  /\ \A i \in DOMAIN mails : "run" \in DOMAIN mails[i]
  /\ \A r \in Runs : MailStarted(r) => ~Ended(r)

Reviewers == \A review \in reviewing : review.run \in Runs

\* What EndedRunsRest asks of one step for run r.
Rests(r) ==
  /\ run'[r].status \in {run[r].status, "REJECTED"} /\ run'[r].steps = run[r].steps
  /\ {i \in DOMAIN mails' : mails'[i].run = r} = MailsOf(r)

\* A mail may be added, by run r, or change its fate.
LEMMA MailAdded ==
  ASSUME RunInv, NEW mail, "run" \in DOMAIN mail, mails' = Append(mails, mail)
  PROVE  /\ \E S : mails' \in Seq(S)
         /\ \A i \in DOMAIN mails' : "run" \in DOMAIN mails'[i]
         /\ \A q : q # mail.run =>
              {i \in DOMAIN mails' : mails'[i].run = q} = {i \in DOMAIN mails : mails[i].run = q}
<1>1. PICK S : mails \in Seq(S)
  BY DEF RunInv
<1>2. mails \in Seq(S \cup {mail}) /\ mail \in S \cup {mail}
  BY <1>1
<1>3. mails' \in Seq(S \cup {mail})
  BY <1>2
<1>4. /\ DOMAIN mails' = DOMAIN mails \cup {Len(mails) + 1}
      /\ mails'[Len(mails) + 1] = mail /\ \A i \in DOMAIN mails : mails'[i] = mails[i]
  BY <1>1
<1> QED
  BY <1>3, <1>4 DEF RunInv

LEMMA FateTold ==
  ASSUME RunInv, NEW k, NEW fate, mails' = [mails EXCEPT ![k].fate = fate]
  PROVE  /\ \E S : mails' \in Seq(S)
         /\ \A i \in DOMAIN mails' : "run" \in DOMAIN mails'[i]
         /\ \A q : {i \in DOMAIN mails' : mails'[i].run = q} = {i \in DOMAIN mails : mails[i].run = q}
<1>1. PICK S : mails \in Seq(S)
  BY DEF RunInv
<1> DEFINE answered == [mails[k] EXCEPT !.fate = fate]
<1>2. mails' = [mails EXCEPT ![k] = answered]
  OBVIOUS
<1>3. "run" \in DOMAIN mails[k] => "run" \in DOMAIN answered /\ answered.run = mails[k].run
  OBVIOUS
<1> HIDE DEF answered
<1>4. DOMAIN mails' = DOMAIN mails
      /\ \A i \in DOMAIN mails : mails'[i] = IF i = k THEN answered ELSE mails[i]
  BY <1>2
<1>5. mails' \in Seq(S \cup {answered})
  <2>1. DOMAIN mails = 1..Len(mails) /\ Len(mails) \in Nat /\ \A i \in DOMAIN mails : mails[i] \in S
    BY <1>1
  <2>2. mails' = [i \in 1..Len(mails) |-> mails'[i]]
    BY <1>2, <2>1
  <2> DEFINE T == S \cup {answered}
  <2>3. \A i \in 1..Len(mails) : mails'[i] \in T
    BY <1>4, <2>1
  <2> HIDE DEF T
  <2>4. mails' \in [1..Len(mails) -> T]
    BY <2>2, <2>3
  <2>5. mails' \in Seq(T)
    BY <2>1, <2>4, SeqDef
  <2> QED
    BY <2>5 DEF T
<1> QED
  BY <1>3, <1>4, <1>5 DEF RunInv

\* run' when one run's status and steps are written.
LEMMA RunWritten ==
  ASSUME RunInv, NEW r \in Runs, NEW status, NEW steps,
         run' = [run EXCEPT ![r].status = status, ![r].steps = steps]
  PROVE  /\ DOMAIN run' = Runs /\ \A q \in Runs \ {r} : run'[q] = run[q]
         /\ run'[r].status = status /\ {"status", "steps"} \subseteq DOMAIN run'[r]
BY DEF RunInv

\* continue_agent_run leaves an ended run alone and concerns no other.
LEMMA ContinueRests ==
  ASSUME RunInv, NEW r \in Runs, sending[r] = <<>>, NEW v, NEW approvals, Continue(r, v, approvals)
  PROVE  RunInv' /\ \A q \in Runs : Ended(q) => Rests(q)
<1>1. CASE Ended(r)
  <2>1. UNCHANGED <<run, mails, sending>>
    BY <1>1 DEF Continue
  <2> QED
    BY <2>1 DEF RunInv, MailStarted, Ended, Rests, MailsOf
<1>2. CASE ~Ended(r)
  <2>1. PICK e : Finish(r, e) \/ BeginMail(r, e)
    BY <1>2 DEF Continue
  <2>2. CASE Finish(r, e)
    <3>1. PICK status : run' = [run EXCEPT ![r].status = status, ![r].steps = @ \o e.steps]
      BY <2>2 DEF Finish
    <3> DEFINE steps == run[r].steps \o e.steps
    <3>2. run' = [run EXCEPT ![r].status = status, ![r].steps = steps]
      BY <3>1 DEF RunInv
    <3> HIDE DEF steps
    <3>3. UNCHANGED <<mails, sending>>
      BY <2>2 DEF Finish
    <3>4. DOMAIN run' = Runs /\ {"status", "steps"} \subseteq DOMAIN run'[r]
          /\ \A q \in Runs \ {r} : run'[q] = run[q]
      BY <3>2, RunWritten
    <3> QED
      BY <1>2, <3>3, <3>4 DEF RunInv, MailStarted, Ended, Rests, MailsOf
  <2>3. CASE BeginMail(r, e)
    <3> DEFINE mail == [run |-> r, company |-> e.mail.arg, week |-> week, fate |-> "open",
                        during |-> {i \in DOMAIN mails : mails[i].fate = "open"}]
    <3>1. mails' = Append(mails, mail) /\ UNCHANGED run
      BY <2>3 DEF BeginMail
    <3>2. DOMAIN sending' = Runs /\ \A q \in Runs \ {r} : sending'[q] = sending[q]
      BY <2>3 DEF BeginMail, RunInv
    <3>3. "run" \in DOMAIN mail /\ mail.run = r
      OBVIOUS
    <3> HIDE DEF mail
    <3>4. /\ \E S : mails' \in Seq(S)
          /\ \A i \in DOMAIN mails' : "run" \in DOMAIN mails'[i]
          /\ \A q : q # r =>
               {i \in DOMAIN mails' : mails'[i].run = q} = {i \in DOMAIN mails : mails[i].run = q}
      BY <3>1, <3>3, MailAdded
    <3>5. RunInv'
      BY <1>2, <3>1, <3>2, <3>4 DEF RunInv, MailStarted, Ended
    <3> QED
      BY <1>2, <3>1, <3>4, <3>5 DEF Rests, MailsOf
  <2> QED
    BY <2>1, <2>2, <2>3
<1> QED
  BY <1>1, <1>2

LEMMA MailRests ==
  ASSUME RunInv, NEW r \in Runs, EndMail(r)
  PROVE  RunInv' /\ \A q \in Runs : Ended(q) => Rests(q)
<1>1. ~Ended(r) /\ DOMAIN sending' = Runs /\ sending'[r] = <<>>
      /\ \A q \in Runs \ {r} : sending'[q] = sending[q]
  BY DEF EndMail, RunInv, MailStarted
<1>2. \E k, fate : mails' = [mails EXCEPT ![k].fate = fate]
  <2>1. CASE MailRecorded(r)
    BY <2>1 DEF MailRecorded
  <2>2. CASE MailFailed(r)
    BY <2>2 DEF MailFailed
  <2>3. CASE MailLost(r)
    BY <2>3 DEF MailLost
  <2> QED
    BY <2>1, <2>2, <2>3 DEF EndMail
<1>3. DOMAIN run' = Runs /\ {"status", "steps"} \subseteq DOMAIN run'[r]
      /\ \A q \in Runs \ {r} : run'[q] = run[q]
  <2>1. CASE MailLost(r)
    BY <2>1 DEF MailLost, RunInv
  <2>2. CASE ~MailLost(r)
    <3> DEFINE a == Act("send_email", mails[sending[r][1].mail].company)
               recorded == (run[r].steps \o sending[r][1].steps) \o <<Step(a, "succeeded")>>
               failed == (run[r].steps \o sending[r][1].steps) \o <<Step(a, "failed")>>
    <3>1. CASE MailRecorded(r)
      <4>1. PICK status : run' = [run EXCEPT ![r].status = status, ![r].steps = recorded]
        BY <3>1 DEF MailRecorded, RunInv
      <4> QED
        BY <4>1, RunWritten
    <3>2. CASE MailFailed(r)
      <4>1. run' = [run EXCEPT ![r].status = "FAILED", ![r].steps = failed]
        BY <3>2 DEF MailFailed, RunInv
      <4> QED
        BY <4>1, RunWritten
    <3> QED
      BY <2>2, <3>1, <3>2 DEF EndMail
  <2> QED
    BY <2>1, <2>2
<1>4. /\ \E S : mails' \in Seq(S)
      /\ \A i \in DOMAIN mails' : "run" \in DOMAIN mails'[i]
      /\ \A q : {i \in DOMAIN mails' : mails'[i].run = q} = {i \in DOMAIN mails : mails[i].run = q}
  BY <1>2, FateTold
<1>5. RunInv'
  BY <1>1, <1>3, <1>4 DEF RunInv, MailStarted, Ended
<1> QED
  BY <1>1, <1>3, <1>4, <1>5 DEF Rests, MailsOf

LEMMA CreateRests ==
  ASSUME RunInv, NEW r \in Runs, NEW v, CreateRun(r, v)
  PROVE  RunInv' /\ \A q \in Runs : Ended(q) => Rests(q)
<1> DEFINE row == [status |-> "RUNNING", steps |-> <<>>, args |-> v]
<1>1. run' = [run EXCEPT ![r] = row] /\ run[r].status = "none" /\ UNCHANGED <<mails, sending>>
  BY DEF CreateRun, outreachVars
<1>2. row.status = "RUNNING" /\ {"status", "steps"} \subseteq DOMAIN row
  OBVIOUS
<1> HIDE DEF row
<1>3. RunInv'
  BY <1>1, <1>2 DEF RunInv, MailStarted, Ended
<1> QED
  BY <1>1, <1>3 DEF RunInv, Ended, Rests, MailsOf

\* Every other step of an agent, a page or a request.
LEMMA AgentsRest ==
  ASSUME RunInv, Reviewers, AgentsNext
  PROVE  RunInv' /\ \A q \in Runs : Ended(q) => Rests(q)
<1>2. ASSUME NEW r \in Runs, NEW v, StartAgain(r, v)
      PROVE  RunInv' /\ \A q \in Runs : Ended(q) => Rests(q)
  BY <1>2, ContinueRests DEF StartAgain
<1>3. ASSUME NEW r \in Runs, OpenReview(r)
      PROVE  RunInv' /\ \A q \in Runs : Ended(q) => Rests(q)
  BY <1>3 DEF OpenReview, outreachVars, RunInv, MailStarted, Ended, Rests, MailsOf
<1>4. ASSUME NEW review \in reviewing, Reject(review)
      PROVE  RunInv' /\ \A q \in Runs : Ended(q) => Rests(q)
  <2> DEFINE r == review.run
  <2>1. run' = [run EXCEPT ![r].status = "REJECTED"] /\ UNCHANGED <<mails, sending>> /\ sending[r] = <<>>
    BY <1>4 DEF Reject, outreachVars
  <2>2. /\ DOMAIN run' = Runs /\ \A q \in Runs : run'[q].steps = run[q].steps
        /\ \A q \in Runs : run'[q].status = IF q = r THEN "REJECTED" ELSE run[q].status
        /\ \A q \in Runs : {"status", "steps"} \subseteq DOMAIN run'[q]
    BY <2>1 DEF RunInv
  <2>3. RunInv'
    BY <2>1, <2>2 DEF RunInv, MailStarted, Ended
  <2> QED
    BY <2>1, <2>2, <2>3 DEF Ended, Rests, MailsOf
<1>5. ASSUME NEW review \in reviewing, review.run \in Runs, Approve(review)
      PROVE  RunInv' /\ \A q \in Runs : Ended(q) => Rests(q)
  BY <1>5, ContinueRests DEF Approve
<1>6. CASE Decide
  BY <1>4, <1>5, <1>6 DEF Decide, Reviewers
<1>7. ASSUME NEW r \in Runs, StartStep(r) \/ NightlyRun(r)
      PROVE  RunInv' /\ \A q \in Runs : Ended(q) => Rests(q)
  BY <1>2, <1>7, CreateRests DEF StartStep, NightlyRun
<1> QED
  BY <1>3, <1>6, <1>7, MailRests DEF AgentsNext, WorkGoesOn

LEMMA MissionsRest ==
  ASSUME RunInv, MissionRowsOK, MissionsNext
  PROVE  RunInv' /\ \A q \in Runs : Ended(q) => Rests(q)
<1>1. ASSUME UNCHANGED <<run, mails, sending, reviewing>>
      PROVE  RunInv' /\ \A q \in Runs : Ended(q) => Rests(q)
  BY <1>1 DEF RunInv, MailStarted, Ended, Rests, MailsOf
<1>2. CASE LifeStep
  BY <1>1, <1>2 DEF LifeStep, CreateMission, EditMission, ChangeStatus, GeneratePlan, ApprovePlan, Only,
     outreachVars, agentVars
<1>3. ASSUME NEW m \in Missions, NEW r \in Runs, BeginStart(m, r) \/ StartForMission(m, r)
      PROVE  UNCHANGED <<run, mails, sending, reviewing>>
  BY <1>3 DEF BeginStart, StartForMission, Only, outreachVars, agentVars
<1>7. ASSUME NEW m \in Missions, LinkPublication(m)
      PROVE  UNCHANGED <<run, mails, sending, reviewing>>
  BY <1>7 DEF LinkPublication, Only, outreachVars, agentVars
<1>4. ASSUME NEW r \in Runs, SyncResults(r) \/ ApproverDies(r)
      PROVE  UNCHANGED <<run, mails, sending, reviewing>>
  BY <1>4 DEF SyncResults, ApproverDies, outreachVars, agentVars
<1>5. ASSUME NEW request \in starting, Starting(request)
      PROVE  RunInv' /\ \A q \in Runs : Ended(q) => Rests(q)
  <2> request.run \in Runs
    BY DEF MissionRowsOK
  <2>1. CASE RunAgent(request)
    <3>1. CASE run[request.run].status = "none"
      <4>1. CreateRun(request.run, 0)
        BY <2>1, <3>1 DEF RunAgent
      <4> QED
        BY <4>1, CreateRests
    <3>2. CASE run[request.run].status # "none"
      BY <2>1, <3>2, ContinueRests DEF RunAgent, StartAgain
    <3> QED
      BY <3>1, <3>2
  <2>2. CASE ~RunAgent(request)
    <3>1. UNCHANGED <<run, mails, sending, reviewing>>
      BY <1>5, <2>2 DEF Starting, LinkCandidate, LinkRun, LinkResults, StarterDies, outreachVars, agentVars
    <3> QED
      BY <1>1, <3>1
  <2> QED
    BY <2>1, <2>2
<1>6. CASE StartsStep
  BY <1>1, <1>3, <1>4, <1>5, <1>6, <1>7 DEF StartsStep
<1> QED
  BY <1>2, <1>6 DEF MissionsNext

LEMMA PagesRest ==
  ASSUME RunInv, OutreachNext \/ WeekPasses, UNCHANGED <<agentVars, missionVars>>
  PROVE  RunInv' /\ Reviewers' = Reviewers /\ \A q \in Runs : Rests(q)
<1>1. UNCHANGED mails
  BY DEF OutreachNext, WeekPasses, CandidatePage, DraftPage, CustomerPage, ReviewCandidate,
     PrepareEnrichment, ReadWebsite, FollowUpCandidate, FollowUp, WriteDraft, SelectForReactivation,
     DraftReactivation, ApproveReactivation, ReviewOpportunity, HandOff, Commit
<1> QED
  BY <1>1 DEF agentVars, RunInv, Reviewers, MailStarted, Ended, Rests, MailsOf

LEMMA ReviewersKeep ==
  ASSUME Reviewers, (AgentsNext /\ UNCHANGED missionVars) \/ MissionsNext
  PROVE  Reviewers'
<1>1. CASE MissionsNext
  <2>1. UNCHANGED reviewing
    BY <1>1 DEF MissionsNext, LifeStep, StartsStep, Starting, CreateMission, EditMission, ChangeStatus,
       GeneratePlan, ApprovePlan, BeginStart, StartForMission, LinkPublication, SyncResults, ApproverDies,
       LinkCandidate, RunAgent, LinkRun, LinkResults, StarterDies, CreateRun, StartAgain, Only, outreachVars, agentVars
  <2> QED
    BY <2>1 DEF Reviewers
<1>2. ASSUME NEW r \in Runs, OpenReview(r)
      PROVE  Reviewers'
  <2>1. PICK decision : reviewing' = reviewing \cup
          {[run |-> r, decision |-> decision, action |-> run[r].steps[LastPending(r)].action]}
    BY <1>2 DEF OpenReview
  <2> QED
    BY <2>1 DEF Reviewers
<1>3. CASE AgentsNext
  <2>1. (\E r \in Runs : OpenReview(r)) \/ reviewing' \subseteq reviewing
    BY <1>3 DEF AgentsNext, WorkGoesOn, StartStep, NightlyRun, EndMail, CreateRun, StartAgain, Decide
  <2> QED
    BY <1>2, <2>1 DEF Reviewers
<1> QED
  BY <1>1, <1>3

LEMMA RunsKeep ==
  MissionInv /\ RunInv /\ Reviewers /\ [GrowthNext]_growthVars =>
    RunInv' /\ Reviewers' /\ \A q \in Runs : Ended(q) => Rests(q)
<1> SUFFICES ASSUME MissionInv, RunInv, Reviewers, [GrowthNext]_growthVars
    PROVE  RunInv' /\ Reviewers' /\ \A q \in Runs : Ended(q) => Rests(q)
  OBVIOUS
<1>1. CASE MissionsNext
  BY <1>1, MissionsRest, ReviewersKeep DEF MissionInv
<1>2. CASE AgentsNext /\ UNCHANGED missionVars
  BY <1>2, AgentsRest, ReviewersKeep
<1>3. CASE (OutreachNext \/ WeekPasses) /\ UNCHANGED <<agentVars, missionVars>>
  BY <1>3, PagesRest
<1>4. CASE UNCHANGED growthVars
  BY <1>4 DEF growthVars, outreachVars, agentVars, RunInv, Reviewers, MailStarted, Ended, Rests, MailsOf
<1> QED
  BY <1>1, <1>2, <1>3, <1>4, GrowthSteps

LEMMA RunsBegin == OutreachInit /\ AgentsInit => RunInv /\ Reviewers
BY DEF OutreachInit, AgentsInit, NoRun, RunInv, Reviewers, MailStarted

(* What keeps the end of a run final: a transaction that waits for the mail provider *)
(* is never one of a run that has ended (persistent.py, the row lock).               *)
THEOREM RunsSafe == GrowthSpec => [](RunInv /\ Reviewers)
<1>1. OutreachInit /\ AgentsInit => RunInv /\ Reviewers
  BY RunsBegin
<1> QED
  BY <1>1, RunsKeep, MissionsSafe, PTL DEF GrowthSpec, growthVars

(* A run that was rejected or completed does nothing more, whichever page, nightly pass *)
(* or mission still starts, continues, approves or rejects it (EndedRunsRest, which TLC *)
(* checks desk by desk).                                                                *)
THEOREM EndedRunsAlwaysRest == GrowthSpec => EndedRunsRest
<1>1. MissionInv /\ RunInv /\ Reviewers /\ [GrowthNext]_growthVars =>
        [\A r \in Runs : run[r].status \in {"REJECTED", "COMPLETED"} =>
           /\ run'[r].status \in {run[r].status, "REJECTED"} /\ run'[r].steps = run[r].steps
           /\ {i \in DOMAIN mails' : mails'[i].run = r} = MailsOf(r)]_<<run, mails>>
  BY RunsKeep DEF Ended, Rests
<1> QED
  BY <1>1, RunsSafe, MissionsSafe, PTL DEF GrowthSpec, EndedRunsRest, growthVars

-----------------------------------------------------------------------------
(* Inquiries *)

Ats == {"new", "open", "triaged", "answered", "refused", "dead"}
InquiryRow == [at: Ats, among: SUBSET Inquiries, adds: BOOLEAN, route: Routes \cup {"none"},
               overtaken: BOOLEAN, time: Int]
Adding(q) == q \in UnderWay /\ inquiry[q].adds = TRUE

InquiryTypes ==
  /\ inquiry \in [Inquiries -> InquiryRow]
  /\ rfq \subseteq Inquiries /\ contacts \in [Names -> Nat]

InquiryInv ==
  /\ InquiryTypes
  /\ \A q \in Inquiries : inquiry[q].at = "new" => inquiry[q].among = {}
  /\ \A p, q \in rfq : p # q => Request[p] = NoId \/ Request[p] # Request[q]
  /\ \A q \in rfq : inquiry[q].at = "answered"
  /\ \A q \in Inquiries : inquiry[q].at = "answered" => q \in rfq \/ Recorded(q)
  /\ \A q \in Inquiries : inquiry[q].at = "refused" => Recorded(q) \/ contacts[Person[q]] > 1
  /\ \A p, q \in UnderWay : p # q => Overlapped(p, q)
  /\ \A q \in Inquiries : Adding(q) /\ contacts[Person[q]] > 0 =>
       \E p \in rfq : Person[p] = Person[q] /\ Overlapped(p, q)
  /\ \A n \in Names : contacts[n] > 1 =>
       \E p, q \in rfq : p # q /\ Person[p] = n /\ Person[q] = n /\ Overlapped(p, q)

\* An inquiry moves on and commits nothing.
LEMMA InquiryMoves ==
  ASSUME InquiryInv, NEW q \in Inquiries, q \notin rfq, NEW row \in InquiryRow, row.at # "new",
         inquiry' = [inquiry EXCEPT ![q] = row], UNCHANGED <<rfq, contacts>>,
         row.at = "answered" => Recorded(q),
         row.at = "refused" => Recorded(q) \/ contacts[Person[q]] > 1,
         \/ row.among = inquiry[q].among /\ row.adds = inquiry[q].adds /\ q \in UnderWay
         \/ /\ inquiry[q].at = "new"
            /\ row.at \in {"open", "triaged"} =>
                 row.among = UnderWay /\ row.adds = (contacts[Person[q]] = 0)
  PROVE  InquiryInv'
<1>1. inquiry \in [Inquiries -> InquiryRow] /\ inquiry' \in [Inquiries -> InquiryRow]
      /\ InquiryTypes' /\ Person[q] \in Names
  BY DEF InquiryInv, InquiryTypes, Names
<1>2. inquiry'[q] = row /\ \A p \in Inquiries \ {q} : inquiry'[p] = inquiry[p]
  BY <1>1
<1>3. /\ \A p \in UnderWay' \ {q} : p \in UnderWay
      /\ q \in UnderWay' <=> row.at \in {"open", "triaged"}
  BY <1>1, <1>2 DEF UnderWay
<1>4. \A p, s \in Inquiries : Overlapped(p, s) => Overlapped(p, s)'
  BY <1>1, <1>2 DEF Overlapped, InquiryInv, UnderWay
<1>5. \A p, s \in UnderWay' : p # s => Overlapped(p, s)'
  BY <1>1, <1>2, <1>3, <1>4 DEF InquiryInv, Overlapped, UnderWay
<1>6. ASSUME NEW s \in Inquiries, Adding(s)', contacts[Person[s]] > 0
      PROVE  \E p \in rfq : Person[p] = Person[s] /\ Overlapped(p, s)'
  <2>1. s \in UnderWay' /\ inquiry'[s].adds = TRUE
    BY <1>6 DEF Adding
  <2>2. Adding(s)
    <3>1. CASE s # q
      BY <1>2, <1>3, <2>1, <3>1 DEF Adding
    <3>2. CASE s = q /\ inquiry[q].at # "new"
      BY <1>2, <2>1, <3>2 DEF Adding
    <3>3. CASE s = q /\ inquiry[q].at = "new"
      <4>1. row.at \in {"open", "triaged"} /\ row.adds = TRUE
        BY <1>2, <1>3, <2>1, <3>3
      <4>2. contacts[Person[q]] = 0
        BY <3>3, <4>1 DEF UnderWay
      <4> QED
        BY <1>6, <3>3, <4>2
    <3> QED
      BY <3>1, <3>2, <3>3
  <2> QED
    BY <1>4, <1>6, <2>2 DEF InquiryInv, InquiryTypes
<1>7. \A n \in Names : contacts[n] > 1 =>
        \E p, s \in rfq : p # s /\ Person[p] = n /\ Person[s] = n /\ Overlapped(p, s)'
  BY <1>4 DEF InquiryInv, InquiryTypes
<1>8. \A p \in Inquiries : Recorded(p)' <=> Recorded(p)
  BY DEF Recorded
<1>9. \A p \in Inquiries :
        /\ inquiry'[p].at = "new" => inquiry'[p].among = {}
        /\ p \in rfq => inquiry'[p].at = "answered"
        /\ inquiry'[p].at = "answered" => p \in rfq \/ Recorded(p)'
        /\ inquiry'[p].at = "refused" => Recorded(p)' \/ contacts[Person[p]] > 1
  BY <1>1, <1>2, <1>8 DEF InquiryInv
<1> QED
  BY <1>1, <1>5, <1>6, <1>7, <1>9 DEF InquiryInv, InquiryTypes

LEMMA InquiryOpens ==
  ASSUME InquiryInv, NEW q \in Inquiries, Receive(q) \/ Triage(q) \/ RollBack(q)
  PROVE  InquiryInv'
<1>1. inquiry[q] \in InquiryRow /\ inquiry \in [Inquiries -> InquiryRow] /\ UNCHANGED <<rfq, contacts>>
  BY DEF InquiryInv, InquiryTypes, Receive, Triage, RollBack, RowsStay
<1>2. inquiry[q].at # "answered" => q \notin rfq
  BY DEF InquiryInv
<1>3. CASE Receive(q)
  <2>1. CASE Recorded(q)
    <3> DEFINE row == [inquiry[q] EXCEPT !.at = "answered"]
    <3>1. row \in InquiryRow /\ row.at = "answered" /\ inquiry' = [inquiry EXCEPT ![q] = row]
      BY <1>1, <1>3, <2>1 DEF Receive, SetInquiry, InquiryRow, Ats
    <3> QED
      BY <1>1, <1>2, <1>3, <2>1, <3>1, InquiryMoves DEF Receive
  <2>2. CASE ~Recorded(q) /\ contacts[Person[q]] > 1
    <3> DEFINE row == [inquiry[q] EXCEPT !.at = "refused"]
    <3>1. row \in InquiryRow /\ row.at = "refused" /\ inquiry' = [inquiry EXCEPT ![q] = row]
      BY <1>1, <1>3, <2>2 DEF Receive, SetInquiry, InquiryRow, Ats
    <3> QED
      BY <1>1, <1>2, <1>3, <2>2, <3>1, InquiryMoves DEF Receive
  <2>3. CASE ~Recorded(q) /\ ~(contacts[Person[q]] > 1)
    <3> DEFINE row == [inquiry[q] EXCEPT !.at = "open", !.among = UnderWay,
                                         !.adds = (contacts[Person[q]] = 0)]
    <3>1. inquiry' = [inquiry EXCEPT ![q] = row]
      BY <1>3, <2>3 DEF Receive
    <3>2. row \in InquiryRow /\ row.at = "open" /\ row.among = UnderWay
          /\ row.adds = (contacts[Person[q]] = 0)
      BY <1>1 DEF InquiryRow, Ats, UnderWay
    <3> QED
      BY <1>1, <1>2, <1>3, <3>1, <3>2, InquiryMoves DEF Receive
  <2> QED
    BY <2>1, <2>2, <2>3
<1>4. CASE Triage(q)
  <2> DEFINE now == Cardinality({p \in Inquiries : inquiry[p].time > 0}) + 1
             repeated == \E s \in heeded : s.text = Text[q]
             seen == heeded \cup (IF repeated THEN {} ELSE {[text |-> Text[q], time |-> now]})
             row == [inquiry[q] EXCEPT !.at = "triaged", !.route = RouteOf(seen),
                                       !.time = IF repeated THEN -1 ELSE now]
  <2>1. inquiry' = [inquiry EXCEPT ![q] = row] /\ inquiry[q].at = "open"
    BY <1>4 DEF Triage
  <2>2. now \in Int
    <3>1. IsFiniteSet({p \in Inquiries : inquiry[p].time > 0})
      BY InquiriesAssumption, FS_Subset
    <3> QED
      BY <3>1, FS_CardinalityType
  <2> DEFINE time == IF repeated THEN -1 ELSE now
  <2>3. RouteOf(seen) \in Routes /\ time \in Int
    BY <2>2 DEF RouteOf, Routes
  <2>4. row \in InquiryRow /\ row.at = "triaged" /\ row.among = inquiry[q].among
        /\ row.adds = inquiry[q].adds
    <3> row = [inquiry[q] EXCEPT !.at = "triaged", !.route = RouteOf(seen), !.time = time]
      OBVIOUS
    <3> HIDE DEF row, time, seen
    <3> QED
      BY <1>1, <2>3 DEF InquiryRow, Ats
  <2>5. q \in UnderWay
    BY <2>1 DEF UnderWay
  <2> HIDE DEF row
  <2> QED
    BY <1>1, <1>2, <2>1, <2>4, <2>5, InquiryMoves
<1>5. CASE RollBack(q)
  <2>1. PICK at \in {"refused", "dead"} :
          /\ inquiry' = [inquiry EXCEPT ![q].at = at] /\ (at = "refused" => Recorded(q))
    BY <1>5 DEF RollBack, SetInquiry
  <2> DEFINE row == [inquiry[q] EXCEPT !.at = at]
  <2>2. row \in InquiryRow /\ row.at = at /\ row.among = inquiry[q].among /\ row.adds = inquiry[q].adds
        /\ inquiry' = [inquiry EXCEPT ![q] = row]
    BY <1>1, <2>1 DEF InquiryRow, Ats
  <2>3. q \in UnderWay /\ inquiry[q].at # "answered"
    BY <1>5 DEF RollBack, UnderWay
  <2> HIDE DEF row
  <2> QED
    BY <1>1, <1>2, <2>1, <2>2, <2>3, InquiryMoves
<1> QED
  BY <1>3, <1>4, <1>5

\* The commit: those under way beside it overlap with it.
LEMMA InquiryCommits ==
  ASSUME InquiryInv, NEW q \in Inquiries, CommitInquiry(q)
  PROVE  InquiryInv'
<1>1. /\ inquiry \in [Inquiries -> InquiryRow] /\ contacts \in [Names -> Nat] /\ rfq \subseteq Inquiries
      /\ inquiry[q].at = "triaged" /\ q \in UnderWay /\ q \notin rfq /\ Person[q] \in Names
  BY DEF InquiryInv, InquiryTypes, CommitInquiry, UnderWay, Names
<1>2. ASSUME NEW p \in Inquiries
      PROVE  /\ inquiry'[p] \in InquiryRow
             /\ inquiry'[p].at = IF p = q THEN "answered" ELSE inquiry[p].at
             /\ inquiry'[p].among = inquiry[p].among /\ inquiry'[p].adds = inquiry[p].adds
  <2> DEFINE answered == [inquiry[q] EXCEPT !.at = "answered"]
             rows == [inquiry EXCEPT ![q] = answered]
             overtaken(x) == [x EXCEPT !.overtaken = TRUE]
  <2>1. answered \in InquiryRow /\ answered.at = "answered" /\ answered.among = inquiry[q].among
        /\ answered.adds = inquiry[q].adds
    BY <1>1 DEF InquiryRow, Ats
  <2>2. rows[p] = (IF p = q THEN answered ELSE inquiry[p]) /\ rows = [inquiry EXCEPT ![q].at = "answered"]
    BY <1>1
  <2>3. rows[p] \in InquiryRow
    BY <1>1, <2>1, <2>2
  <2> HIDE DEF rows, answered
  <2>4. \A x \in InquiryRow : /\ overtaken(x) \in InquiryRow /\ overtaken(x).at = x.at
                              /\ overtaken(x).among = x.among /\ overtaken(x).adds = x.adds
    BY DEF InquiryRow
  <2>5. inquiry' = Overtake(rows, q)
    BY <2>2 DEF CommitInquiry
  <2>6. inquiry'[p] = rows[p] \/ inquiry'[p] = overtaken(rows[p])
    BY <2>5 DEF Overtake
  <2> HIDE DEF overtaken
  <2> QED
    BY <2>1, <2>2, <2>3, <2>4, <2>6
<1>3. inquiry' \in [Inquiries -> InquiryRow]
  <2>1. inquiry' = [p \in Inquiries |-> inquiry'[p]]
    BY DEF CommitInquiry, Overtake
  <2> QED
    BY <1>2, <2>1
<1>4. /\ rfq' = rfq \cup {q} /\ ~Recorded(q) /\ contacts' \in [Names -> Nat]
      /\ \A n \in Names \ {Person[q]} : contacts'[n] = contacts[n]
      /\ contacts'[Person[q]] = IF inquiry[q].adds = TRUE THEN contacts[Person[q]] + 1
                                ELSE contacts[Person[q]]
  <2>1. inquiry[q].adds \in BOOLEAN
    BY <1>1 DEF InquiryRow
  <2> QED
    BY <1>1, <2>1 DEF CommitInquiry
<1>5. /\ UnderWay' = UnderWay \ {q} /\ \A p, s \in Inquiries : Overlapped(p, s)' <=> Overlapped(p, s)
      /\ \A p \in Inquiries : Recorded(p) => Recorded(p)'
      /\ \A p \in Inquiries : Adding(p)' => Adding(p) /\ p # q
  BY <1>1, <1>2, <1>4 DEF UnderWay, Overlapped, Recorded, Adding
<1>6. \A p, s \in rfq' : p # s => Request[p] = NoId \/ Request[p] # Request[s]
  BY <1>4 DEF InquiryInv, Recorded
<1>7. \A p \in Inquiries :
        /\ inquiry'[p].at = "new" => inquiry'[p].among = {}
        /\ p \in rfq' => inquiry'[p].at = "answered"
        /\ inquiry'[p].at = "answered" => p \in rfq' \/ Recorded(p)'
        /\ inquiry'[p].at = "refused" => Recorded(p)' \/ contacts'[Person[p]] > 1
  <2> SUFFICES ASSUME NEW p \in Inquiries
      PROVE  /\ inquiry'[p].at = "new" => inquiry'[p].among = {}
             /\ p \in rfq' => inquiry'[p].at = "answered"
             /\ inquiry'[p].at = "answered" => p \in rfq' \/ Recorded(p)'
             /\ inquiry'[p].at = "refused" => Recorded(p)' \/ contacts'[Person[p]] > 1
    OBVIOUS
  <2>1. Person[p] \in Names
    BY DEF Names
  <2>2. contacts[Person[p]] \in Nat /\ contacts'[Person[p]] >= contacts[Person[p]]
    BY <1>1, <1>4, <2>1
  <2>3. contacts[Person[p]] > 1 => contacts'[Person[p]] > 1
    BY <1>4, <2>1, <2>2
  <2> QED
    BY <1>2, <1>4, <1>5, <2>3 DEF InquiryInv
<1>8. ASSUME NEW s \in Inquiries, Adding(s)', contacts'[Person[s]] > 0
      PROVE  \E p \in rfq' : Person[p] = Person[s] /\ Overlapped(p, s)'
  <2>1. Adding(s) /\ s # q /\ Overlapped(q, s) /\ Person[s] \in Names
    BY <1>1, <1>5, <1>8 DEF InquiryInv, Adding, Names
  <2>2. CASE Person[s] = Person[q]
    BY <1>4, <1>5, <2>1, <2>2
  <2>3. CASE Person[s] # Person[q]
    <3>1. contacts[Person[s]] > 0
      BY <1>4, <1>8, <2>1, <2>3
    <3>2. PICK p \in rfq : Person[p] = Person[s] /\ Overlapped(p, s)
      BY <2>1, <3>1 DEF InquiryInv
    <3> QED
      BY <1>1, <1>4, <1>5, <3>2
  <2> QED
    BY <2>2, <2>3
<1>9. ASSUME NEW n \in Names, contacts'[n] > 1
      PROVE  \E p, s \in rfq' : p # s /\ Person[p] = n /\ Person[s] = n /\ Overlapped(p, s)'
  <2>1. CASE contacts[n] > 1
    <3>1. PICK p, s \in rfq : p # s /\ Person[p] = n /\ Person[s] = n /\ Overlapped(p, s)
      BY <2>1 DEF InquiryInv
    <3> QED
      BY <1>1, <1>4, <1>5, <3>1
  <2>2. CASE ~(contacts[n] > 1)
    <3>1. n = Person[q] /\ inquiry[q].adds = TRUE /\ contacts[n] > 0
      <4>1. n = Person[q] /\ inquiry[q].adds = TRUE
        BY <1>4, <1>9, <2>2
      <4> QED
        BY <1>1, <1>4, <1>9, <4>1
    <3>2. PICK p \in rfq : Person[p] = Person[q] /\ Overlapped(p, q)
      BY <1>1, <3>1 DEF InquiryInv, Adding
    <3> QED
      BY <1>1, <1>4, <1>5, <3>1, <3>2
  <2> QED
    BY <2>1, <2>2
<1>10. \A p, s \in UnderWay' : p # s => Overlapped(p, s)'
  BY <1>5 DEF InquiryInv, UnderWay
<1> QED
  BY <1>1, <1>3, <1>4, <1>6, <1>7, <1>8, <1>9, <1>10 DEF InquiryInv, InquiryTypes

LEMMA InquiriesBegin == InboundInit => InquiryInv
<1> SUFFICES ASSUME InboundInit PROVE InquiryInv
  OBVIOUS
<1>1. inquiry = [q \in Inquiries |-> NewInquiry] /\ rfq = {} /\ contacts = [n \in Names |-> 0]
  BY DEF InboundInit
<1>2. NewInquiry \in InquiryRow /\ NewInquiry.at = "new" /\ NewInquiry.among = {}
  BY DEF NewInquiry, InquiryRow, Ats, Routes
<1> HIDE DEF NewInquiry
<1>3. InquiryTypes
  BY <1>1, <1>2 DEF InquiryTypes
<1> QED
  BY <1>1, <1>2, <1>3 DEF InquiryInv, UnderWay, Adding, Recorded

LEMMA InquiriesKeep == InquiryInv /\ [InboundNext]_inboundVars => InquiryInv'
<1> SUFFICES ASSUME InquiryInv, [InboundNext]_inboundVars PROVE InquiryInv'
  OBVIOUS
<1>1. CASE UNCHANGED <<inquiry, rfq, contacts>>
  BY <1>1 DEF InquiryInv, InquiryTypes, UnderWay, Adding, Recorded, Overlapped
<1>2. ASSUME NEW q \in Inquiries, InquiryStep(q)
      PROVE  InquiryInv'
  BY <1>2, InquiryOpens, InquiryCommits DEF InquiryStep
<1> QED
  BY <1>1, <1>2 DEF InboundNext, inboundVars

(* Of any inquiries received in any order, whatever fails: a contact created twice was *)
(* created by two that were under way together (inbound_rfq.py, Contact has no index). *)
THEOREM InquiriesSafe == InboundSpec => []InquiryInv
BY InquiriesBegin, InquiriesKeep, PTL DEF InboundSpec

(* A request id is recorded once, an answered inquiry is recorded, a refused one is *)
(* explained (InquiriesAreRecordedOnce, which TLC checks on four inquiries).        *)
THEOREM InquiriesAlwaysRecordedOnce == InboundSpec => []InquiriesAreRecordedOnce
<1>1. InquiryInv => InquiriesAreRecordedOnce
  BY DEF InquiryInv, InquiriesAreRecordedOnce
<1> QED
  BY <1>1, InquiriesSafe, PTL

-----------------------------------------------------------------------------
(* Trade figures and the promotion plan *)

\* The figures are stored in the order in which they were heard first.
TradeInv ==
  /\ \E S : snapshot \in Seq(S) /\ heard \in Seq(S)
  /\ \A k \in DOMAIN heard : \E a \in DOMAIN snapshot : snapshot[a] = heard[k]
  /\ \A a \in DOMAIN snapshot : \E k \in DOMAIN heard : heard[k] = snapshot[a]
  /\ \A a, b \in DOMAIN snapshot : a < b =>
       \E i, j \in DOMAIN heard : i < j /\ heard[i] = snapshot[a] /\ heard[j] = snapshot[b]

LastHeard ==
  heard # <<>> =>
    LET last == heard[Len(heard)] IN
    Reading = last \/ \E i, j \in DOMAIN heard : i < j /\ heard[i] = last /\ heard[j] = Reading

LEMMA FigureFinished ==
  ASSUME TradeInv, NEW i, FinishSync(i)
  PROVE  TradeInv'
<1> DEFINE f == sync[i].got
<1>1. PICK S : snapshot \in Seq(S) /\ heard \in Seq(S)
  BY DEF TradeInv
<1>2. heard' = Append(heard, f) /\ snapshot' = StoreFigure(f)
  BY DEF FinishSync
<1> HIDE DEF f
<1> DEFINE T == S \cup {f}
           n == Len(heard)
<1>3. heard \in Seq(T) /\ snapshot \in Seq(T) /\ f \in T /\ n \in Nat /\ DOMAIN heard = 1..n
  BY <1>1
<1>4. /\ heard' \in Seq(T) /\ DOMAIN heard' = 1..(n + 1) /\ heard'[n + 1] = f
      /\ \A k \in DOMAIN heard : k \in DOMAIN heard' /\ heard'[k] = heard[k] /\ k < n + 1
  BY <1>2, <1>3
<1> HIDE DEF n, T
<1>5. n + 1 \in DOMAIN heard'
  BY <1>3, <1>4
<1>6. CASE \E a \in DOMAIN snapshot : snapshot[a] = f
  <2>1. snapshot' = snapshot
    BY <1>2, <1>6 DEF StoreFigure
  <2>2. \A k \in DOMAIN heard' : k = n + 1 \/ k \in DOMAIN heard
    BY <1>3, <1>4
  <2>3. \A k \in DOMAIN heard' : \E a \in DOMAIN snapshot' : snapshot'[a] = heard'[k]
    BY <1>4, <1>6, <2>1, <2>2 DEF TradeInv
  <2>4. \A a \in DOMAIN snapshot' : \E k \in DOMAIN heard' : heard'[k] = snapshot'[a]
    BY <1>4, <2>1 DEF TradeInv
  <2>5. \A a, b \in DOMAIN snapshot' : a < b =>
          \E k, l \in DOMAIN heard' : k < l /\ heard'[k] = snapshot'[a] /\ heard'[l] = snapshot'[b]
    BY <1>4, <2>1 DEF TradeInv
  <2> QED
    BY <1>3, <1>4, <2>1, <2>3, <2>4, <2>5 DEF TradeInv
<1>7. CASE ~\E a \in DOMAIN snapshot : snapshot[a] = f
  <2> DEFINE m == Len(snapshot)
  <2>1. snapshot' = Append(snapshot, f) /\ m \in Nat /\ DOMAIN snapshot = 1..m
    BY <1>2, <1>3, <1>7 DEF StoreFigure
  <2>2. /\ snapshot' \in Seq(T) /\ DOMAIN snapshot' = 1..(m + 1) /\ snapshot'[m + 1] = f
        /\ \A a \in DOMAIN snapshot : a \in DOMAIN snapshot' /\ snapshot'[a] = snapshot[a] /\ a < m + 1
    BY <1>3, <2>1
  <2> HIDE DEF m
  <2>3. /\ \A k \in DOMAIN heard' : k = n + 1 \/ k \in DOMAIN heard
        /\ \A a \in DOMAIN snapshot' : a = m + 1 \/ a \in DOMAIN snapshot
        /\ m + 1 \in DOMAIN snapshot'
    BY <1>3, <1>4, <2>1, <2>2
  <2>4. \A k \in DOMAIN heard' : \E a \in DOMAIN snapshot' : snapshot'[a] = heard'[k]
    BY <1>4, <2>2, <2>3 DEF TradeInv
  <2>5. \A a \in DOMAIN snapshot' : \E k \in DOMAIN heard' : heard'[k] = snapshot'[a]
    BY SMTT(30), <1>4, <1>5, <2>2, <2>3 DEF TradeInv
  <2>6. ASSUME NEW a \in DOMAIN snapshot', NEW b \in DOMAIN snapshot', a < b
        PROVE  \E k, l \in DOMAIN heard' : k < l /\ heard'[k] = snapshot'[a] /\ heard'[l] = snapshot'[b]
    <3>1. a \in DOMAIN snapshot
      BY <2>1, <2>2, <2>6
    <3>2. CASE b \in DOMAIN snapshot
      BY <1>4, <2>2, <2>6, <3>1, <3>2 DEF TradeInv
    <3>3. CASE b = m + 1
      <4>1. PICK k \in DOMAIN heard : heard[k] = snapshot[a]
        BY <3>1 DEF TradeInv
      <4> QED
        BY <1>4, <1>5, <2>2, <3>1, <3>3, <4>1
    <3> QED
      BY <2>3, <3>2, <3>3
  <2> QED
    BY <1>4, <2>2, <2>4, <2>5, <2>6 DEF TradeInv
<1> QED
  BY <1>6, <1>7

LEMMA HeardIsRead == TradeInv => LastHeard
<1> SUFFICES ASSUME TradeInv, heard # <<>>
             PROVE  \/ Reading = heard[Len(heard)]
                    \/ \E i, j \in DOMAIN heard : i < j /\ heard[i] = heard[Len(heard)] /\ heard[j] = Reading
  BY DEF LastHeard
<1>1. PICK S : snapshot \in Seq(S) /\ heard \in Seq(S)
  BY DEF TradeInv
<1>2. Len(heard) \in DOMAIN heard
  BY <1>1
<1>3. PICK a \in DOMAIN snapshot : snapshot[a] = heard[Len(heard)]
  BY <1>2 DEF TradeInv
<1>4. Len(snapshot) \in DOMAIN snapshot /\ (a = Len(snapshot) \/ a < Len(snapshot))
  BY <1>1
<1>5. CASE a = Len(snapshot)
  BY <1>3, <1>5 DEF Reading
<1>6. CASE a < Len(snapshot)
  <2>1. PICK i, j \in DOMAIN heard : i < j /\ heard[i] = snapshot[a] /\ heard[j] = snapshot[Len(snapshot)]
    BY <1>4, <1>6 DEF TradeInv
  <2> QED
    BY <1>3, <2>1 DEF Reading
<1> QED
  BY <1>4, <1>5, <1>6

\* Approvals are told apart by their ids, and one that nobody overlapped read the count.
Alone == \A p \in plans : p.among = {}
PromotionInv ==
  /\ approval.version \in Nat /\ {"approved", "version"} \subseteq DOMAIN approval
  /\ IsFiniteSet(plans) /\ \A d \in drafting : d.read \in Nat
  /\ \A d, e \in drafting : d.id = e.id => d = e
  /\ \A d \in drafting, p \in plans : d.id # p.id
  /\ Alone => /\ approval.version = Cardinality(plans)
              /\ \A d \in drafting : d.among = {} => d.read = approval.version

LEMMA ApprovalBegins ==
  ASSUME PromotionInv, NEW a, BeginApproval(a)
  PROVE  PromotionInv'
<1> DEFINE new == [id |-> a, read |-> approval.version, among |-> {d.id : d \in drafting}]
<1>1. /\ a \notin {d.id : d \in drafting} \cup {p.id : p \in plans}
      /\ drafting' = drafting \cup {new} /\ approval' = approval /\ plans' = plans
  BY DEF BeginApproval
<1>2. new.id = a /\ new.read = approval.version
  OBVIOUS
<1> HIDE DEF new
<1> QED
  BY <1>1, <1>2 DEF PromotionInv, Alone

LEMMA ApprovalEnds ==
  ASSUME PromotionInv, NEW d \in drafting, EndApproval(d)
  PROVE  PromotionInv'
<1> DEFINE among == d.among \cup {e.id : e \in drafting \ {d}}
           new == [id |-> d.id, version |-> d.read + 1, among |-> among]
<1>1. /\ approval' = [approved |-> TRUE, version |-> d.read + 1]
      /\ drafting' = drafting \ {d} /\ plans' = plans \cup {new}
  BY DEF EndApproval, NextVersion
<1>2. new.id = d.id /\ new.among = among /\ new \in plans'
  BY <1>1
<1>3. new \notin plans
  BY <1>2 DEF PromotionInv
<1>4. IsFiniteSet(plans') /\ Cardinality(plans') = Cardinality(plans) + 1
  BY <1>1, <1>3, FS_AddElement DEF PromotionInv
<1>5. /\ \A x, y \in drafting' : x.id = y.id => x = y
      /\ \A x \in drafting', p \in plans' : x.id # p.id
  BY <1>1, <1>2 DEF PromotionInv
<1>6. ASSUME Alone' PROVE drafting' = {} /\ d.read + 1 = Cardinality(plans')
  <2>1. among = {} /\ Alone
    BY <1>1, <1>2, <1>6 DEF Alone
  <2>2. d.among = {} /\ drafting \ {d} = {}
    BY <2>1
  <2> QED
    BY <1>1, <1>4, <2>1, <2>2 DEF PromotionInv
<1> QED
  BY <1>1, <1>4, <1>5, <1>6 DEF PromotionInv

-----------------------------------------------------------------------------
(* Discovery *)

ScanRow == [status: {"RUNNING", "SUCCEEDED", "FAILED"}, trigger: {"MANUAL", "SCHEDULED"},
            error: {"", "SOURCE", "STALE_RUN_RECOVERED"}, stale: BOOLEAN, created: Nat,
            worker: {"asks", "done"}]
Created == [i \in DOMAIN scan |-> scan[i].created]

ScanInv ==
  /\ scan \in Seq(ScanRow)
  /\ Total(Created, DOMAIN scan) = Cardinality(found \cap Notices)
  /\ \A i, j \in Running : i = j
  /\ \A i \in DOMAIN scan : scan[i].worker = "asks" =>
       /\ scan[i].created = 0
       /\ scan[i].status # "RUNNING" => scan[i].error = "STALE_RUN_RECOVERED"

LEMMA CreatedSums ==
  ASSUME ScanInv
  PROVE  MapThenSumSet(LAMBDA i : scan[i].created, DOMAIN scan) = Total(Created, DOMAIN scan)
<1> DEFINE S == DOMAIN scan
           Folds(g) == g = [s \in SUBSET S |-> IF s = {} THEN 0
                              ELSE scan[First(s)].created + g[s \ {First(s)}]]
           h == CHOOSE g : Folds(g)
<1>1. IsFiniteSet(S)
  BY FS_Interval DEF ScanInv
<1>2. \A g : Folds(g) <=> Sums(Created, S, g)
  <2>1. \A s \in SUBSET S : s # {} => Created[First(s)] = scan[First(s)].created
    BY DEF First, Created
  <2> HIDE DEF S
  <2> QED
    BY <2>1 DEF Sums
<1>3. Sums(Created, S, h)
  BY <1>1, <1>2, SumsExist
<1>4. PICK g : Sums(Created, S, g) /\ Total(Created, S) = g[S]
  BY <1>1, TotalIsTheSum
<1>5. h[S] = g[S]
  BY <1>1, <1>3, <1>4, SumsAgree
<1>6. MapThenSumSet(LAMBDA i : scan[i].created, DOMAIN scan) = h[S]
  BY DEF MapThenSumSet, MapThenFoldSet, First
<1> QED
  BY <1>4, <1>5, <1>6

LEMMA ScanFacts ==
  ASSUME ScanInv
  PROVE  /\ IsFiniteSet(DOMAIN scan) /\ DOMAIN scan = 1..Len(scan) /\ Len(scan) \in Nat
         /\ \A i \in DOMAIN scan : scan[i] \in ScanRow /\ Created[i] = scan[i].created /\ Created[i] \in Nat
         /\ IsFiniteSet(found \cap Notices) /\ Cardinality(found \cap Notices) \in Nat
<1>1. DOMAIN scan = 1..Len(scan) /\ Len(scan) \in Nat /\ \A i \in DOMAIN scan : scan[i] \in ScanRow
  BY DEF ScanInv
<1>2. IsFiniteSet(DOMAIN scan)
  BY <1>1, FS_Interval
<1>3. \A i \in DOMAIN scan : Created[i] = scan[i].created /\ Created[i] \in Nat
  BY <1>1 DEF Created, ScanRow
<1>4. IsFiniteSet(found \cap Notices)
  BY NoticesAssumption, FS_Intersection
<1> QED
  BY <1>1, <1>2, <1>3, <1>4, FS_CardinalityType

LEMMA TotalNext ==
  ASSUME NEW f, NEW S, Created' = f, DOMAIN scan' = S
  PROVE  Total(Created, DOMAIN scan)' = Total(f, S)
BY DEF Total, MapThenSumSet, MapThenFoldSet

\* A worker that was still at work ends, having found k new notices.
LEMMA ScanEnds ==
  ASSUME ScanInv, NEW i \in DOMAIN scan, scan[i].worker = "asks", NEW row \in ScanRow,
         row.worker = "done", row.status = "RUNNING" => scan[i].status = "RUNNING",
         scan' = [scan EXCEPT ![i] = row],
         Cardinality(found' \cap Notices) = Cardinality(found \cap Notices) + row.created
  PROVE  ScanInv'
<1>1. /\ scan' \in Seq(ScanRow) /\ DOMAIN scan' = DOMAIN scan /\ scan'[i] = row
      /\ \A j \in DOMAIN scan : j # i => scan'[j] = scan[j]
  BY DEF ScanInv
<1> DEFINE S == DOMAIN scan
           f == Created
           g == [j \in DOMAIN scan |-> scan'[j].created]
<1>2. IsFiniteSet(S) /\ \A j \in S : f[j] = scan[j].created /\ f[j] \in Nat
  BY ScanFacts
<1>3. \A j \in S : g[j] \in Nat /\ (j # i => g[j] = f[j])
  BY <1>1, <1>2 DEF ScanRow
<1>4. g[i] = row.created /\ f[i] = 0 /\ row.created \in Nat
  BY <1>1, <1>2 DEF ScanInv, ScanRow
<1>5. Created' = g
  BY <1>1 DEF Created
<1> HIDE DEF S, f, g
<1>6. i \in S /\ IsFiniteSet(S \ {i})
  BY <1>2, FS_RemoveElement DEF S
<1>7. Total(f, S) = Total(f, S \ {i}) + f[i] /\ Total(g, S) = Total(g, S \ {i}) + g[i]
  BY <1>2, <1>3, <1>6, TotalAdds
<1>8. Total(g, S \ {i}) = Total(f, S \ {i}) /\ Total(f, S \ {i}) \in Nat
  BY <1>2, <1>3, <1>6, TotalSame, TotalType
<1>9. Total(g, S) = Cardinality(found' \cap Notices)
  <2>1. Total(f, S) = Cardinality(found \cap Notices)
    BY DEF ScanInv, f, S
  <2> QED
    BY <1>4, <1>7, <1>8, <2>1
<1>10. Total(Created, DOMAIN scan)' = Cardinality(found \cap Notices)'
  BY <1>1, <1>5, <1>9, TotalNext DEF S
<1>11. \A j, k \in Running' : j = k
  BY <1>1 DEF ScanInv, Running
<1> QED
  BY <1>1, <1>10, <1>11 DEF ScanInv

LEMMA CreatedStays ==
  ASSUME ScanInv, scan' \in Seq(ScanRow), DOMAIN scan' = DOMAIN scan,
         \A j \in DOMAIN scan : scan'[j].created = scan[j].created
  PROVE  Created' = Created
BY DEF Created

\* Whoever was RUNNING is failed as stale before the next one starts.
LEMMA ScanStarts ==
  ASSUME ScanInv, StartScan
  PROVE  ScanInv'
<1>1. PICK trigger \in {"MANUAL", "SCHEDULED"} :
        scan' = Append([i \in DOMAIN scan |-> IF i \in Running
                            THEN [scan[i] EXCEPT !.status = "FAILED", !.error = "STALE_RUN_RECOVERED"]
                            ELSE scan[i]],
                    [status |-> "RUNNING", trigger |-> trigger, error |-> "", stale |-> FALSE,
                     created |-> 0, worker |-> "asks"])
  BY DEF StartScan
<1> DEFINE row(i) == IF i \in Running
                     THEN [scan[i] EXCEPT !.status = "FAILED", !.error = "STALE_RUN_RECOVERED"]
                     ELSE scan[i]
           failed == [i \in DOMAIN scan |-> row(i)]
           new == [status |-> "RUNNING", trigger |-> trigger, error |-> "", stale |-> FALSE,
                   created |-> 0, worker |-> "asks"]
           n == Len(scan)
<1>2. /\ IsFiniteSet(DOMAIN scan) /\ DOMAIN scan = 1..n /\ n \in Nat
      /\ \A i \in DOMAIN scan : scan[i] \in ScanRow /\ Created[i] = scan[i].created /\ Created[i] \in Nat
  BY ScanFacts
<1>3. \A i \in DOMAIN scan : row(i) \in ScanRow /\ row(i).created = scan[i].created
                             /\ row(i).worker = scan[i].worker /\ row(i).status # "RUNNING"
                             /\ \/ row(i).status = scan[i].status /\ row(i).error = scan[i].error
                                \/ row(i).error = "STALE_RUN_RECOVERED"
  <2> TAKE i \in DOMAIN scan
  <2>1. CASE i \in Running
    <3>1. PICK r \in ScanRow : r = scan[i]
      BY <1>2
    <3>2. row(i) = [[r EXCEPT !.status = "FAILED"] EXCEPT !.error = "STALE_RUN_RECOVERED"]
      BY <2>1, <3>1 DEF ScanRow
    <3> HIDE DEF row
    <3> QED
      BY <3>1, <3>2 DEF ScanRow
  <2>2. CASE i \notin Running
    BY <1>2, <2>2 DEF Running
  <2> QED
    BY <2>1, <2>2
<1>4. new \in ScanRow /\ new.created = 0 /\ new.worker = "asks" /\ new.status = "RUNNING"
  BY DEF ScanRow
<1> HIDE DEF row, new
<1>5. failed \in Seq(ScanRow) /\ Len(failed) = n /\ \A i \in DOMAIN scan : failed[i] = row(i)
  BY <1>2, <1>3
<1>6. scan' = Append(failed, new)
  BY <1>1 DEF row, new
<1> HIDE DEF failed, n
<1>7. /\ scan' \in Seq(ScanRow) /\ DOMAIN scan' = 1..(n + 1) /\ scan'[n + 1] = new
      /\ \A i \in DOMAIN scan : scan'[i] = row(i)
  BY <1>2, <1>4, <1>5, <1>6
<1>8. /\ DOMAIN scan' = DOMAIN scan \cup {n + 1} /\ n + 1 \notin DOMAIN scan
      /\ (DOMAIN scan') \ {n + 1} = DOMAIN scan /\ n + 1 \in DOMAIN scan'
  BY <1>2, <1>7
<1>9. Total(Created, DOMAIN scan)' = Total(Created, DOMAIN scan)
  <2> DEFINE g == [j \in DOMAIN scan' |-> scan'[j].created]
             T == DOMAIN scan'
  <2>1. \A j \in T : g[j] \in Nat /\ (j \in DOMAIN scan => g[j] = Created[j])
    BY <1>2, <1>3, <1>4, <1>7, <1>8
  <2>2. g[n + 1] = 0 /\ IsFiniteSet(T)
    <3>1. g[n + 1] = 0
      BY <1>4, <1>7, <1>8
    <3>2. IsFiniteSet(DOMAIN scan \cup {n + 1})
      BY <1>2, FS_AddElement
    <3> QED
      BY <1>8, <3>1, <3>2
  <2>3. Created' = g
    BY DEF Created
  <2> HIDE DEF g
  <2>4. Total(g, T) = Total(g, T \ {n + 1}) + g[n + 1]
    BY <1>8, <2>1, <2>2, TotalAdds
  <2>5. Total(g, DOMAIN scan) = Total(Created, DOMAIN scan) /\ Total(Created, DOMAIN scan) \in Nat
    BY <1>2, <1>8, <2>1, TotalSame, TotalType
  <2>6. Total(g, T) = Total(Created, DOMAIN scan)
    BY <1>8, <2>2, <2>4, <2>5
  <2> QED
    BY <2>3, <2>6, TotalNext
<1>10. found' = found
  BY DEF StartScan
<1>11. Running' = {n + 1}
  BY <1>3, <1>4, <1>7, <1>8 DEF Running
<1>12. \A i \in DOMAIN scan' : scan'[i].worker = "asks" =>
         scan'[i].created = 0 /\ (scan'[i].status # "RUNNING" => scan'[i].error = "STALE_RUN_RECOVERED")
  <2> SUFFICES ASSUME NEW i \in DOMAIN scan', scan'[i].worker = "asks"
               PROVE  scan'[i].created = 0
                      /\ (scan'[i].status # "RUNNING" => scan'[i].error = "STALE_RUN_RECOVERED")
    OBVIOUS
  <2>1. CASE i = n + 1
    BY <1>4, <1>7, <2>1
  <2>2. CASE i \in DOMAIN scan
    <3>1. scan'[i] = row(i)
      BY <1>7, <2>2
    <3>2. /\ row(i).created = scan[i].created /\ row(i).worker = scan[i].worker
          /\ row(i).error = "STALE_RUN_RECOVERED" \/ (row(i).status = scan[i].status /\ row(i).error = scan[i].error)
      BY <1>3, <2>2
    <3> QED
      BY <2>2, <3>1, <3>2 DEF ScanInv
  <2> QED
    BY <1>8, <2>1, <2>2
<1> QED
  BY <1>7, <1>9, <1>10, <1>11, <1>12 DEF ScanInv

LEMMA ScanStepKeeps ==
  ASSUME ScanInv, NEW i \in DOMAIN scan, ScanStep(i)
  PROVE  ScanInv'
<1>1. PICK r \in ScanRow : r = scan[i]
  BY ScanFacts
<1>2. CASE Ingest(i)
  <2>1. PICK items \in SUBSET Notices :
          /\ found' = found \cup items
          /\ scan' = [scan EXCEPT ![i] = [@ EXCEPT !.status = "SUCCEEDED", !.worker = "done",
                                         !.created = Cardinality(Fresh(items))]]
    BY <1>2 DEF Ingest
  <2> DEFINE k == Cardinality(Fresh(items))
             row == [[[r EXCEPT !.status = "SUCCEEDED"] EXCEPT !.worker = "done"] EXCEPT !.created = k]
  <2>2. IsFiniteSet(Fresh(items)) /\ k \in Nat
    <3>1. Fresh(items) \subseteq Notices
      BY DEF Fresh
    <3> QED
      BY <3>1, NoticesAssumption, FS_Subset, FS_CardinalityType
  <2>3. /\ found' \cap Notices = (found \cap Notices) \cup Fresh(items)
        /\ (found \cap Notices) \cap Fresh(items) = {}
    BY <2>1 DEF Fresh
  <2>4. Cardinality(found' \cap Notices) = Cardinality(found \cap Notices) + k
    <3>1. IsFiniteSet(found \cap Notices) /\ Cardinality(found \cap Notices) \in Nat
      BY ScanFacts
    <3>2. Cardinality(found' \cap Notices) =
            Cardinality(found \cap Notices) + Cardinality(Fresh(items)) - Cardinality({})
      BY <2>2, <2>3, <3>1, FS_Union
    <3> QED
      BY <2>2, <3>1, <3>2, FS_EmptySet
  <2> HIDE DEF k
  <2>5. row \in ScanRow /\ row.worker = "done" /\ row.status # "RUNNING" /\ row.created = k
    BY <1>1, <2>2 DEF ScanRow
  <2>6. scan' = [scan EXCEPT ![i] = row] /\ scan[i].worker = "asks"
    BY <1>1, <1>2, <2>1 DEF Ingest, ScanRow, k
  <2> HIDE DEF row
  <2> QED
    BY <2>4, <2>5, <2>6, ScanEnds
<1>3. CASE RecordFailure(i)
  <2> DEFINE row == [[[r EXCEPT !.status = "FAILED"] EXCEPT !.error = "SOURCE"] EXCEPT !.worker = "done"]
  <2>1. scan' = [scan EXCEPT ![i] = row] /\ scan[i].worker = "asks" /\ found' = found
    BY <1>1, <1>3 DEF RecordFailure, ScanRow
  <2>2. row \in ScanRow /\ row.worker = "done" /\ row.status # "RUNNING" /\ row.created = 0
    BY <1>1, <2>1 DEF ScanRow, ScanInv
  <2>3. Cardinality(found' \cap Notices) = Cardinality(found \cap Notices) + 0
    BY <2>1, ScanFacts
  <2> HIDE DEF row
  <2> QED
    BY <2>1, <2>2, <2>3, ScanEnds
<1>4. CASE ScannerDies(i)
  <2> DEFINE row == [r EXCEPT !.worker = "done"]
  <2>1. scan' = [scan EXCEPT ![i] = row] /\ scan[i].worker = "asks" /\ found' = found
    BY <1>1, <1>4 DEF ScannerDies
  <2>2. row \in ScanRow /\ row.worker = "done" /\ row.status = scan[i].status /\ row.created = 0
    BY <1>1, <2>1 DEF ScanRow, ScanInv
  <2>3. Cardinality(found' \cap Notices) = Cardinality(found \cap Notices) + 0
    BY <2>1, ScanFacts
  <2> HIDE DEF row
  <2> QED
    BY <2>1, <2>2, <2>3, ScanEnds
<1> QED
  BY <1>2, <1>3, <1>4 DEF ScanStep

LEMMA ScanAges ==
  ASSUME ScanInv, HalfHourPasses
  PROVE  ScanInv'
<1>1. scan' = [i \in DOMAIN scan |-> [scan[i] EXCEPT !.stale = TRUE]] /\ found' = found
  BY DEF HalfHourPasses
<1>2. \A i \in DOMAIN scan :
        /\ scan'[i] \in ScanRow /\ scan'[i].created = scan[i].created /\ scan'[i].worker = scan[i].worker
        /\ scan'[i].status = scan[i].status /\ scan'[i].error = scan[i].error
  <2> TAKE i \in DOMAIN scan
  <2>1. PICK r \in ScanRow : r = scan[i]
    BY ScanFacts
  <2>2. scan'[i] = [r EXCEPT !.stale = TRUE]
    BY <1>1, <2>1
  <2> QED
    BY <2>1, <2>2 DEF ScanRow
<1>3. DOMAIN scan' = DOMAIN scan /\ scan' \in Seq(ScanRow)
  <2>1. DOMAIN scan' = DOMAIN scan /\ DOMAIN scan = 1..Len(scan) /\ Len(scan) \in Nat
    BY <1>1, ScanFacts
  <2>2. scan' \in [1..Len(scan) -> ScanRow]
    BY <1>1, <1>2, <2>1
  <2> QED
    BY <2>1, <2>2
<1>4. Created' = Created
  BY <1>2, <1>3, CreatedStays
<1>5. Total(Created, DOMAIN scan)' = Total(Created, DOMAIN scan)
  BY <1>3, <1>4, TotalNext
<1>6. Running' = Running
  BY <1>2, <1>3 DEF Running
<1> QED
  BY <1>1, <1>2, <1>3, <1>5, <1>6 DEF ScanInv

LEMMA ScanStays ==
  ASSUME ScanInv, scan' = scan, found' \cap Notices = found \cap Notices
  PROVE  ScanInv'
<1>1. Created' = Created
  BY DEF Created
<1>2. Total(Created, DOMAIN scan)' = Total(Created, DOMAIN scan)
  BY <1>1, TotalNext
<1>3. Cardinality(found \cap Notices)' = Cardinality(found \cap Notices)
  OBVIOUS
<1>4. Running' = Running
  BY DEF Running
<1> QED
  BY <1>2, <1>3, <1>4 DEF ScanInv

LEMMA ScansKeep == ScanInv /\ [MarketsNext]_marketVars => ScanInv'
<1> SUFFICES ASSUME ScanInv, [MarketsNext]_marketVars PROVE ScanInv'
  OBVIOUS
<1>1. CASE StartScan
  BY <1>1, ScanStarts
<1>2. CASE HalfHourPasses
  BY <1>2, ScanAges
<1>3. ASSUME NEW i \in DOMAIN scan, ScanStep(i) PROVE ScanInv'
  BY <1>3, ScanStepKeeps
<1>4. ASSUME NEW e \in Entries, EnterByHand(e) PROVE ScanInv'
  BY <1>4, NoticesAssumption, ScanStays DEF EnterByHand
<1>5. CASE DayPasses \/ SwitchProfile \/ ConfigureMaps \/ AskMaps \/ MapsAnswer
           \/ UNCHANGED discoveryVars \/ UNCHANGED marketVars
  BY <1>5, ScanStays
     DEF DayPasses, SwitchProfile, ConfigureMaps, AskMaps, MapsAnswer, discoveryVars, marketVars
<1> QED
  BY <1>1, <1>2, <1>3, <1>4, <1>5 DEF MarketsNext, DiscoveryNext, MapsNext

LEMMA FiguresKeep == TradeInv /\ [MarketsNext]_marketVars => TradeInv'
<1> SUFFICES ASSUME TradeInv, [MarketsNext]_marketVars PROVE TradeInv'
  OBVIOUS
<1>1. ASSUME NEW i, FinishSync(i) PROVE TradeInv'
  BY <1>1, FigureFinished
<1>2. CASE UNCHANGED <<snapshot, heard>>
  BY <1>2 DEF TradeInv
<1>3. CASE SourceCorrects \/ StartSync \/ (\E i \in DOMAIN sync : BreakSync(i))
           \/ UNCHANGED tradeVars \/ UNCHANGED marketVars
  BY <1>2, <1>3 DEF SourceCorrects, StartSync, BreakSync, tradeVars, marketVars
<1> QED
  BY <1>1, <1>3 DEF MarketsNext, TradeNext

LEMMA ApprovalsKeep == PromotionInv /\ [MarketsNext]_marketVars => PromotionInv'
<1> SUFFICES ASSUME PromotionInv, [MarketsNext]_marketVars PROVE PromotionInv'
  OBVIOUS
<1>1. ASSUME NEW a, BeginApproval(a) PROVE PromotionInv'
  BY <1>1, ApprovalBegins
<1>2. ASSUME NEW d \in drafting, EndApproval(d) PROVE PromotionInv'
  BY <1>2, ApprovalEnds
<1>3. CASE ClearApproval
  <2>1. /\ approval'.version = approval.version /\ DOMAIN approval' = DOMAIN approval
        /\ UNCHANGED <<drafting, plans>>
    BY <1>3 DEF ClearApproval, PromotionInv
  <2> QED
    BY <2>1 DEF PromotionInv, Alone
<1>4. CASE UNCHANGED promotionVars \/ UNCHANGED marketVars
  BY <1>4 DEF promotionVars, marketVars, PromotionInv, Alone
<1> QED
  BY <1>1, <1>2, <1>3, <1>4 DEF MarketsNext, PromotionNext

MarketInv == ScanInv /\ TradeInv /\ PromotionInv

LEMMA MarketsBegin == MarketsInit => MarketInv
<1> SUFFICES ASSUME MarketsInit PROVE MarketInv
  OBVIOUS
<1>1. ScanInv
  <2>1. scan = <<>> /\ found = {} /\ DOMAIN scan = {}
    BY DEF MarketsInit
  <2>2. Total(Created, DOMAIN scan) = 0
    BY <2>1, FS_EmptySet, TotalUnfolds
  <2>3. Cardinality(found \cap Notices) = 0
    BY <2>1, FS_EmptySet
  <2> QED
    BY <2>1, <2>2, <2>3 DEF ScanInv, Running
<1>2. TradeInv
  <2>1. snapshot = <<>> /\ heard = <<>> /\ snapshot \in Seq({}) /\ heard \in Seq({})
    BY DEF MarketsInit
  <2> QED
    BY <2>1 DEF TradeInv
<1>3. PromotionInv
  BY FS_EmptySet DEF MarketsInit, PromotionInv, Alone
<1> QED
  BY <1>1, <1>2, <1>3 DEF MarketInv

(* The inductive invariant of the sources: what the runs say they created adds up to     *)
(* what is there, figures are stored in the order in which they were first heard, and an *)
(* approval that met no other has read the number of the approvals before it.            *)
THEOREM MarketsSafe == MarketsSpec => []MarketInv
<1>1. MarketInv /\ [MarketsNext]_marketVars => MarketInv'
  BY ScansKeep, FiguresKeep, ApprovalsKeep DEF MarketInv
<1> QED
  BY MarketsBegin, <1>1, PTL DEF MarketsSpec

(* For any number of runs that overlap, are given up, go on regardless or die: every *)
(* notice became a signal of exactly one run (SignalsAreCounted; _start_run's        *)
(* recovery and the unique content hash).                                            *)
THEOREM SignalsAreAlwaysCounted == MarketsSpec => []SignalsAreCounted
<1>1. MarketInv => SignalsAreCounted
  <2> SUFFICES ASSUME MarketInv PROVE SignalsAreCounted
    OBVIOUS
  <2>1. MapThenSumSet(LAMBDA i : scan[i].created, DOMAIN scan) = Cardinality(found \cap Notices)
    BY CreatedSums DEF MarketInv, ScanInv
  <2>2. Cardinality(Running) <= 1
    <3>1. CASE Running = {}
      BY <3>1, FS_EmptySet
    <3>2. ASSUME NEW i \in Running PROVE Cardinality(Running) = 1
      <4>1. Running = {i}
        BY DEF MarketInv, ScanInv
      <4> QED
        BY <4>1, FS_Singleton
    <3> QED
      BY <3>1, <3>2
  <2> QED
    BY <2>1, <2>2 DEF MarketInv, ScanInv, SignalsAreCounted
<1> QED
  BY <1>1, MarketsSafe, PTL

(* Of any syncs and corrections, and any approvals: what the pages read is what was heard *)
(* last, but for a figure the source had said before, and the version counts the          *)
(* approvals unless two overlapped (ReadingsAreTheLastHeard).                             *)
THEOREM ReadingsAreAlwaysTheLastHeard == MarketsSpec => []ReadingsAreTheLastHeard
<1>1. MarketInv => ReadingsAreTheLastHeard
  BY HeardIsRead DEF MarketInv, PromotionInv, Alone, LastHeard, ReadingsAreTheLastHeard
<1> QED
  BY <1>1, MarketsSafe, PTL

-----------------------------------------------------------------------------
(* What a transaction reads before others commit *)

Timed == {p \in Inquiries : inquiry[p].time > 0}
SignalOf(q) == [text |-> Text[q], time |-> inquiry[q].time]
Adds(q) == IF inquiry[q].time > 0 THEN {SignalOf(q)} ELSE {}

\* Signals are timed one by one, and a route is that of what was there when it was chosen.
SignalInv ==
  /\ \A q \in Inquiries : inquiry[q].at \in {"new", "open"} => inquiry[q].time = 0
  /\ \A p, q \in Timed : inquiry[p].time = inquiry[q].time => p = q
  /\ \A p \in Timed : inquiry[p].time <= Cardinality(Timed)
  /\ \A s \in heeded : \E p \in Timed : s = SignalOf(p)
  /\ \A q \in Inquiries : inquiry[q].at = "triaged" =>
       /\ inquiry[q].route # "none"
       /\ ~inquiry[q].overtaken => inquiry[q].route = RouteOf(heeded \cup Adds(q))
  /\ ~lead.doubtful /\ heeded # {} => lead.route = RouteOf(heeded)
  /\ (rfq = {}) = (told = "none")
  /\ told = "none" => lead.route = "none"
  /\ \A q \in rfq : rfq = {q} => told = lead.route

VisitRow == [at : {"new", "open", "stored"}, sees : SUBSET Visits, overtaken : BOOLEAN]

\* A visit under way has counted every stored one, or another was stored since it began.
VisitInv ==
  /\ visit \in [Visits -> VisitRow]
  /\ \A v \in Visits : visit[v].at = "new" => ~visit[v].overtaken
  /\ \A v \in Visits : visit[v].at = "open" /\ ~visit[v].overtaken => visit[v].sees = Stored \cup {v}
  /\ score.of = Stored \/ score.doubtful

LEMMA TimedFacts ==
  ASSUME InquiryInv
  PROVE  /\ IsFiniteSet(Timed) /\ Cardinality(Timed) \in Nat
         /\ \A q \in Inquiries : inquiry[q] \in InquiryRow /\ inquiry[q].time \in Int
         /\ Timed \subseteq Inquiries
<1>1. Timed \subseteq Inquiries
  BY DEF Timed
<1> QED
  BY <1>1, InquiriesAssumption, FS_Subset, FS_CardinalityType DEF InquiryInv, InquiryTypes, InquiryRow

\* An inquiry moves on without a signal.
LEMMA SignalsStay ==
  ASSUME InquiryInv, SignalInv, NEW q \in Inquiries, NEW at \in Ats \ {"new", "triaged"},
         at = "open" => inquiry[q].at = "new", inquiry[q].at # "new" \/ inquiry[q].time = 0,
         DOMAIN inquiry' = Inquiries, inquiry'[q].at = at, inquiry'[q].time = inquiry[q].time,
         \A p \in Inquiries \ {q} : inquiry'[p] = inquiry[p], RowsStay
  PROVE  SignalInv'
<1>1. UNCHANGED <<heeded, lead, rfq, told>>
  BY DEF RowsStay
<1>2. Timed' = Timed
  BY DEF Timed
<1>3. \A p \in Inquiries : SignalOf(p)' = SignalOf(p) /\ Adds(p)' = Adds(p)
  BY DEF SignalOf, Adds
<1>4. \A p \in Inquiries : inquiry'[p].time = inquiry[p].time
  OBVIOUS
<1>5. \A p \in Inquiries : inquiry'[p].at = "triaged" => inquiry[p].at = "triaged" /\ p # q
  OBVIOUS
<1>6. \A p \in Inquiries : inquiry'[p].at \in {"new", "open"} => inquiry'[p].time = 0
  BY <1>4 DEF SignalInv, Ats
<1>7. \A p \in Inquiries : inquiry'[p].at = "triaged" =>
       /\ inquiry'[p].route # "none"
       /\ ~inquiry'[p].overtaken => inquiry'[p].route = RouteOf(heeded' \cup Adds(p)')
  BY <1>1, <1>3, <1>5 DEF SignalInv
<1>8. \A s \in heeded' : \E p \in Timed' : s = SignalOf(p)'
  BY <1>1, <1>2, <1>3 DEF SignalInv, Timed
<1>9. /\ \A p, s \in Timed' : inquiry'[p].time = inquiry'[s].time => p = s
      /\ \A p \in Timed' : inquiry'[p].time <= Cardinality(Timed)'
  BY <1>2, <1>4 DEF SignalInv, Timed
<1> QED
  BY <1>1, <1>6, <1>7, <1>8, <1>9 DEF SignalInv, RouteOf, Latest

LEMMA SignalTriaged ==
  ASSUME InquiryInv, SignalInv, NEW q \in Inquiries, Triage(q)
  PROVE  SignalInv'
<1> DEFINE now == Cardinality({p \in Inquiries : inquiry[p].time > 0}) + 1
           repeated == \E s \in heeded : s.text = Text[q]
           seen == heeded \cup (IF repeated THEN {} ELSE {[text |-> Text[q], time |-> now]})
           time == IF repeated THEN -1 ELSE now
<1>1. /\ inquiry' = [inquiry EXCEPT ![q] = [@ EXCEPT !.at = "triaged", !.route = RouteOf(seen),
                                                    !.time = time]]
      /\ inquiry[q].at = "open" /\ UNCHANGED <<heeded, lead, rfq, told>>
  BY DEF Triage, RowsStay
<1>2. now = Cardinality(Timed) + 1 /\ Cardinality(Timed) \in Nat /\ IsFiniteSet(Timed)
  BY TimedFacts DEF Timed
<1>3. inquiry[q].time = 0 /\ q \notin Timed
  BY <1>1 DEF SignalInv, Timed
<1> HIDE DEF now
<1>4. RouteOf(seen) \in Routes
  BY DEF RouteOf, Routes
<1>5. /\ inquiry'[q].at = "triaged" /\ inquiry'[q].route = RouteOf(seen) /\ inquiry'[q].time = time
      /\ \A p \in Inquiries \ {q} : inquiry'[p] = inquiry[p]
  <2> HIDE DEF time, seen
  <2>1. inquiry \in [Inquiries -> InquiryRow]
    BY DEF InquiryInv, InquiryTypes
  <2>2. PICK row \in InquiryRow : row = inquiry[q]
    BY <2>1
  <2>3. inquiry' = [inquiry EXCEPT ![q] = [[[row EXCEPT !.at = "triaged"] EXCEPT !.route = RouteOf(seen)]
                                             EXCEPT !.time = time]]
    BY <1>1, <2>2
  <2> QED
    BY <2>1, <2>2, <2>3 DEF InquiryRow
<1>6. seen = heeded' \cup Adds(q)'
  BY <1>1, <1>2, <1>5 DEF Adds, SignalOf
<1> HIDE DEF seen
<1>7. \A p \in Inquiries \ {q} : SignalOf(p)' = SignalOf(p) /\ Adds(p)' = Adds(p)
  BY <1>5 DEF SignalOf, Adds
<1>8. \A p \in Inquiries : inquiry'[p].at \in {"new", "open"} => inquiry'[p].time = 0
  BY <1>5 DEF SignalInv
<1>9. \A p \in Inquiries : inquiry'[p].at = "triaged" =>
        /\ inquiry'[p].route # "none"
        /\ ~inquiry'[p].overtaken => inquiry'[p].route = RouteOf(heeded' \cup Adds(p)')
  <2>1. inquiry'[q].route = RouteOf(heeded' \cup Adds(q)') /\ inquiry'[q].route # "none"
    BY <1>4, <1>5, <1>6 DEF Routes
  <2>2. ASSUME NEW p \in Inquiries \ {q}, inquiry'[p].at = "triaged"
        PROVE  /\ inquiry'[p].route # "none"
               /\ ~inquiry'[p].overtaken => inquiry'[p].route = RouteOf(heeded' \cup Adds(p)')
    BY <1>1, <1>5, <1>7, <2>2 DEF SignalInv
  <2> QED
    BY <2>1, <2>2
<1>10. /\ ~lead'.doubtful /\ heeded' # {} => lead'.route = RouteOf(heeded)'
       /\ (rfq' = {}) = (told' = "none")
       /\ told' = "none" => lead'.route = "none"
       /\ \A p \in rfq' : rfq' = {p} => told' = lead'.route
  BY <1>1 DEF SignalInv, RouteOf, Latest
<1>11. CASE repeated
  <2>1. Timed' = Timed
    BY <1>3, <1>5, <1>11 DEF Timed
  <2>2. \A p \in Timed' : p # q /\ inquiry'[p].time = inquiry[p].time
    BY <1>3, <1>5, <2>1 DEF Timed
  <2>3. /\ \A p, s \in Timed' : inquiry'[p].time = inquiry'[s].time => p = s
        /\ \A p \in Timed' : inquiry'[p].time <= Cardinality(Timed)'
    BY <2>1, <2>2 DEF SignalInv
  <2>4. \A s \in heeded' : \E p \in Timed' : s = SignalOf(p)'
    BY <1>1, <1>3, <1>7, <2>1 DEF SignalInv, Timed
  <2> QED
    BY <1>8, <1>9, <1>10, <2>3, <2>4 DEF SignalInv
<1>12. CASE ~repeated
  <2>1. Timed' = Timed \cup {q} /\ inquiry'[q].time = now
    BY <1>2, <1>5, <1>12 DEF Timed
  <2>2. Cardinality(Timed') = now
    BY <1>2, <1>3, <2>1, FS_AddElement
  <2>3. \A p \in Timed : /\ inquiry'[p].time = inquiry[p].time /\ inquiry[p].time < now
                         /\ inquiry[p].time \in Int
    BY <1>2, <1>3, <1>5, TimedFacts DEF SignalInv
  <2>4. /\ \A p, s \in Timed' : inquiry'[p].time = inquiry'[s].time => p = s
        /\ \A p \in Timed' : inquiry'[p].time <= Cardinality(Timed)'
    BY <1>2, <2>1, <2>2, <2>3 DEF SignalInv
  <2>5. \A s \in heeded' : \E p \in Timed' : s = SignalOf(p)'
    BY <1>1, <1>3, <1>7, <2>1 DEF SignalInv, Timed
  <2> QED
    BY <1>8, <1>9, <1>10, <2>4, <2>5 DEF SignalInv
<1> QED
  BY <1>11, <1>12

\* Whoever was triaged is overtaken by the commit.
LEMMA SignalCommitted ==
  ASSUME InquiryInv, SignalInv, NEW q \in Inquiries, CommitInquiry(q)
  PROVE  SignalInv'
<1> DEFINE i == inquiry[q]
<1>1. /\ i.at = "triaged" /\ rfq' = rfq \cup {q} /\ q \notin rfq
      /\ heeded' = heeded \cup Adds(q)
      /\ lead' = [route |-> i.route, doubtful |-> i.overtaken]
      /\ told' = IF told = "none" THEN i.route ELSE told
  BY DEF CommitInquiry, InquiryInv, Adds, SignalOf
<1>2. ASSUME NEW p \in Inquiries
      PROVE  /\ inquiry'[p].at = IF p = q THEN "answered" ELSE inquiry[p].at
             /\ inquiry'[p].time = inquiry[p].time /\ inquiry'[p].route = inquiry[p].route
             /\ p # q /\ inquiry'[p].at = "triaged" => inquiry'[p].overtaken
  <2> DEFINE answered == [inquiry[q] EXCEPT !.at = "answered"]
             rows == [inquiry EXCEPT ![q] = answered]
             overtaken(x) == [x EXCEPT !.overtaken = TRUE]
  <2>0. inquiry \in [Inquiries -> InquiryRow]
    BY DEF InquiryInv, InquiryTypes
  <2>1. answered \in InquiryRow /\ answered.at = "answered" /\ answered.time = inquiry[q].time
        /\ answered.route = inquiry[q].route
    BY <2>0 DEF InquiryRow, Ats
  <2>2. rows[p] = (IF p = q THEN answered ELSE inquiry[p]) /\ rows = [inquiry EXCEPT ![q].at = "answered"]
    BY <2>0
  <2>3. rows[p] \in InquiryRow
    BY <2>0, <2>1, <2>2
  <2> HIDE DEF rows, answered
  <2>4. \A x \in InquiryRow : /\ overtaken(x).overtaken = TRUE /\ overtaken(x).at = x.at
                              /\ overtaken(x).time = x.time /\ overtaken(x).route = x.route
    BY DEF InquiryRow
  <2>5. inquiry' = Overtake(rows, q)
    BY <2>2 DEF CommitInquiry
  <2>6. inquiry'[p] = IF p # q /\ rows[p].at = "triaged" THEN overtaken(rows[p]) ELSE rows[p]
    BY <2>5 DEF Overtake
  <2> HIDE DEF overtaken
  <2> QED
    BY <2>1, <2>2, <2>3, <2>4, <2>6
<1>3. /\ i.route # "none" /\ (~i.overtaken => i.route = RouteOf(heeded'))
  BY <1>1 DEF SignalInv
<1> HIDE DEF i
<1>4. lead'.route = i.route /\ lead'.doubtful = i.overtaken
  BY <1>1
<1>5. Timed' = Timed /\ \A p \in Inquiries : SignalOf(p)' = SignalOf(p)
  BY <1>2 DEF Timed, SignalOf
<1>6. \A s \in heeded' : \E p \in Timed' : s = SignalOf(p)'
  <2>1. \A s \in Adds(q) : q \in Timed /\ s = SignalOf(q)
    BY DEF Adds, Timed
  <2> QED
    BY <1>1, <1>5, <2>1 DEF SignalInv, Timed
<1>7. \A p \in Inquiries : inquiry'[p].at = "triaged" =>
       /\ inquiry'[p].route # "none"
       /\ ~inquiry'[p].overtaken => inquiry'[p].route = RouteOf(heeded' \cup Adds(p)')
  BY ZenonT(60), <1>2 DEF SignalInv
<1>8. ~lead'.doubtful => lead'.route = RouteOf(heeded)'
  BY <1>3, <1>4 DEF RouteOf, Latest
<1>9. \A p \in rfq' : rfq' = {p} => told' = lead'.route
  <2> SUFFICES ASSUME NEW p \in rfq', rfq' = {p} PROVE told' = lead'.route
    OBVIOUS
  <2>1. rfq = {}
    BY <1>1
  <2> QED
    BY <1>1, <1>4, <2>1 DEF SignalInv
<1>10. told' # "none" /\ rfq' # {}
  BY <1>1, <1>3
<1>11. /\ \A p, s \in Timed' : inquiry'[p].time = inquiry'[s].time => p = s
       /\ \A p \in Timed' : inquiry'[p].time <= Cardinality(Timed)'
       /\ \A p \in Inquiries : inquiry'[p].at \in {"new", "open"} => inquiry'[p].time = 0
  BY <1>2, <1>5 DEF SignalInv, Timed
<1> QED
  BY <1>6, <1>7, <1>8, <1>9, <1>10, <1>11 DEF SignalInv

LEMMA SignalsBegin == InboundInit => SignalInv /\ VisitInv
<1> SUFFICES ASSUME InboundInit PROVE SignalInv /\ VisitInv
  OBVIOUS
<1>1. \A q \in Inquiries : inquiry[q].at = "new" /\ inquiry[q].time = 0
  BY DEF InboundInit, NewInquiry
<1>2. Timed = {} /\ heeded = {} /\ rfq = {} /\ told = "none" /\ lead.route = "none"
  BY <1>1 DEF InboundInit, Timed
<1>3. SignalInv
  BY <1>1, <1>2 DEF SignalInv
<1>4. \A v \in Visits : visit[v] = [at |-> "new", sees |-> {}, overtaken |-> FALSE]
  BY DEF InboundInit
<1>5. visit \in [Visits -> VisitRow]
  BY DEF InboundInit, VisitRow
<1>6. Stored = {} /\ score.of = {}
  BY <1>4 DEF InboundInit, Stored
<1> QED
  BY <1>3, <1>4, <1>5, <1>6 DEF VisitInv

LEMMA SignalStep ==
  ASSUME InquiryInv, SignalInv, NEW q \in Inquiries, InquiryStep(q)
  PROVE  SignalInv'
<1>0. inquiry \in [Inquiries -> InquiryRow]
  BY DEF InquiryInv, InquiryTypes
<1>1. CASE Receive(q)
  <2>1. inquiry[q].at = "new" /\ RowsStay
    BY <1>1 DEF Receive
  <2>2. PICK at \in {"answered", "refused", "open"} :
          /\ DOMAIN inquiry' = Inquiries /\ inquiry'[q].at = at /\ inquiry'[q].time = inquiry[q].time
          /\ \A p \in Inquiries \ {q} : inquiry'[p] = inquiry[p]
    <3> DEFINE open(x, among, adds) == [x EXCEPT !.at = "open", !.among = among, !.adds = adds]
    <3>1. \A among, adds : \A x \in InquiryRow :
            open(x, among, adds).at = "open" /\ open(x, among, adds).time = x.time
      BY DEF InquiryRow
    <3>2. CASE \E at \in {"answered", "refused"} : SetInquiry(q, at)
      BY <1>0, <3>2 DEF SetInquiry, InquiryRow
    <3>3. CASE \E among, adds : inquiry' = [inquiry EXCEPT ![q] = open(inquiry[q], among, adds)]
      <4> HIDE DEF open
      <4> QED
        BY <1>0, <3>1, <3>3
    <3> QED
      BY <1>1, <3>2, <3>3 DEF Receive
  <2>3. inquiry[q].time = 0
    BY <2>1 DEF SignalInv
  <2> QED
    BY <2>1, <2>2, <2>3, SignalsStay DEF Ats
<1>2. CASE Triage(q)
  BY <1>2, SignalTriaged
<1>3. CASE CommitInquiry(q)
  BY <1>3, SignalCommitted
<1>4. CASE RollBack(q)
  <2>1. inquiry[q].at # "new" /\ RowsStay
    BY <1>4 DEF RollBack
  <2>2. PICK at \in {"refused", "dead"} :
          /\ DOMAIN inquiry' = Inquiries /\ inquiry'[q].at = at /\ inquiry'[q].time = inquiry[q].time
          /\ \A p \in Inquiries \ {q} : inquiry'[p] = inquiry[p]
    BY <1>0, <1>4 DEF RollBack, SetInquiry, InquiryRow
  <2> QED
    BY <2>1, <2>2, SignalsStay DEF Ats
<1> QED
  BY <1>1, <1>2, <1>3, <1>4 DEF InquiryStep

LEMMA VisitBegun ==
  ASSUME VisitInv, NEW v \in Visits, BeginVisit(v)
  PROVE  VisitInv'
<1> DEFINE sees == Stored \cup {v}
<1>1. visit \in [Visits -> VisitRow] /\ sees \in SUBSET Visits
  BY DEF VisitInv, Stored
<1>2. PICK row \in VisitRow : row = visit[v]
  BY <1>1
<1> HIDE DEF sees
<1>3. visit' = [visit EXCEPT ![v] = [[row EXCEPT !.at = "open"] EXCEPT !.sees = sees]]
      /\ row.at = "new" /\ score' = score
  BY <1>2 DEF BeginVisit, sees
<1>4. /\ visit'[v].at = "open" /\ visit'[v].sees = sees /\ visit' \in [Visits -> VisitRow]
      /\ \A w \in Visits \ {v} : visit'[w] = visit[w]
  BY <1>1, <1>3 DEF VisitRow
<1>5. Stored' = Stored
  BY <1>2, <1>3, <1>4 DEF Stored
<1> QED
  BY <1>3, <1>4, <1>5 DEF VisitInv, sees

\* The score saved with a visit counts what is stored, or its transaction was overtaken.
LEMMA VisitStored ==
  ASSUME VisitInv, NEW v \in Visits, EndVisit(v)
  PROVE  VisitInv'
<1> DEFINE stored(x) == [x EXCEPT !.at = "stored"]
           overtaken(x) == [x EXCEPT !.overtaken = TRUE]
<1>1. visit \in [Visits -> VisitRow]
  BY DEF VisitInv
<1>2. \A x \in VisitRow :
        /\ stored(x) \in VisitRow /\ stored(x).at = "stored"
        /\ overtaken(x) \in VisitRow /\ overtaken(x).at = x.at /\ overtaken(x).overtaken = TRUE
  BY DEF VisitRow
<1>3. /\ visit[v].at = "open"
      /\ visit' = [w \in Visits |-> IF w = v THEN stored(visit[w])
                                    ELSE IF visit[w].at = "open" THEN overtaken(visit[w]) ELSE visit[w]]
      /\ score' = [of |-> visit[v].sees, doubtful |-> visit[v].overtaken]
  BY DEF EndVisit
<1> HIDE DEF stored, overtaken
<1>4. visit' \in [Visits -> VisitRow]
  BY <1>1, <1>2, <1>3
<1>5. /\ visit'[v].at = "stored"
      /\ \A w \in Visits \ {v} : /\ visit'[w].at = visit[w].at
                                 /\ visit[w].at = "open" => visit'[w].overtaken = TRUE
                                 /\ visit[w].at # "open" => visit'[w] = visit[w]
  BY <1>1, <1>2, <1>3
<1>6. Stored' = Stored \cup {v}
  BY <1>5 DEF Stored
<1>7. score'.of = Stored' \/ score'.doubtful
  BY <1>3, <1>6 DEF VisitInv
<1> QED
  BY <1>4, <1>5, <1>7 DEF VisitInv

LEMMA SignalsKeep ==
  InquiryInv /\ SignalInv /\ VisitInv /\ [InboundNext]_inboundVars => SignalInv' /\ VisitInv'
<1> SUFFICES ASSUME InquiryInv, SignalInv, VisitInv, [InboundNext]_inboundVars
             PROVE  SignalInv' /\ VisitInv'
  OBVIOUS
<1>1. ASSUME UNCHANGED <<inquiry, rfq, contacts, heeded, lead, told>> PROVE SignalInv'
  <2>1. Timed' = Timed /\ RouteOf(heeded)' = RouteOf(heeded)
    BY <1>1 DEF Timed, RouteOf, Latest
  <2>2. \A p \in Inquiries : /\ SignalOf(p)' = SignalOf(p)
                             /\ RouteOf(heeded \cup Adds(p))' = RouteOf(heeded \cup Adds(p))
    BY <1>1 DEF SignalOf, Adds, RouteOf, Latest
  <2>3. \A s \in heeded' : \E p \in Timed' : s = SignalOf(p)'
    <3>1. \A s \in heeded : \E p \in Timed : s = SignalOf(p)
      BY DEF SignalInv
    <3>2. \A p \in Timed : SignalOf(p)' = SignalOf(p)
      BY <2>2 DEF Timed
    <3> QED
      BY <1>1, <2>1, <3>1, <3>2
  <2>4. \A p \in Inquiries : inquiry'[p].at = "triaged" =>
          /\ inquiry'[p].route # "none"
          /\ ~inquiry'[p].overtaken => inquiry'[p].route = RouteOf(heeded \cup Adds(p))'
    BY <1>1, <2>2 DEF SignalInv
  <2>5. /\ \A p, s \in Timed' : inquiry'[p].time = inquiry'[s].time => p = s
        /\ \A p \in Timed' : inquiry'[p].time <= Cardinality(Timed)'
        /\ \A p \in Inquiries : inquiry'[p].at \in {"new", "open"} => inquiry'[p].time = 0
    BY <1>1, <2>1 DEF SignalInv
  <2>6. /\ ~lead'.doubtful /\ heeded' # {} => lead'.route = RouteOf(heeded)'
        /\ (rfq' = {}) = (told' = "none")
        /\ told' = "none" => lead'.route = "none"
        /\ \A p \in rfq' : rfq' = {p} => told' = lead'.route
    BY <1>1, <2>1 DEF SignalInv
  <2> QED
    BY <2>3, <2>4, <2>5, <2>6 DEF SignalInv
<1>2. ASSUME UNCHANGED <<visit, score>> PROVE VisitInv'
  <2>1. Stored' = Stored
    BY <1>2 DEF Stored
  <2> QED
    BY <1>2, <2>1 DEF VisitInv
<1>3. ASSUME NEW q \in Inquiries, InquiryStep(q), UNCHANGED <<visit, score>>
      PROVE  SignalInv' /\ VisitInv'
  BY <1>2, <1>3, SignalStep
<1>4. ASSUME NEW v \in Visits, BeginVisit(v) \/ EndVisit(v),
             UNCHANGED <<inquiry, rfq, contacts, heeded, lead, told>>
      PROVE  SignalInv' /\ VisitInv'
  BY <1>1, <1>4, VisitBegun, VisitStored
<1> QED
  BY <1>1, <1>2, <1>3, <1>4 DEF InboundNext, inboundVars

LEMMA SignalsSafe == InboundSpec => [](InquiryInv /\ SignalInv /\ VisitInv)
<1>1. InboundInit => InquiryInv /\ SignalInv /\ VisitInv
  BY InquiriesBegin, SignalsBegin
<1>2. InquiryInv /\ SignalInv /\ VisitInv /\ [InboundNext]_inboundVars
        => (InquiryInv /\ SignalInv /\ VisitInv)'
  BY InquiriesKeep, SignalsKeep
<1> QED
  BY <1>1, <1>2, PTL DEF InboundSpec

LEMMA ReadingsExplained == InquiryInv /\ SignalInv /\ VisitInv => ReadingsMissOnlyOvertakers
<1> SUFFICES ASSUME InquiryInv, SignalInv, VisitInv PROVE ReadingsMissOnlyOvertakers
  OBVIOUS
<1>1. ASSUME NEW s \in heeded, \A t \in heeded : t.time <= s.time
      PROVE  Latest(heeded) = s
  <2>1. \A t \in heeded : t.time \in Int
    BY TimedFacts DEF SignalInv, SignalOf
  <2>2. \A t \in heeded : t.time = s.time => t = s
    BY DEF SignalInv, SignalOf
  <2> QED
    BY <1>1, <2>1, <2>2 DEF Latest
<1>2. told # lead.route => Cardinality(rfq) > 1
  <2> SUFFICES ASSUME told # lead.route PROVE Cardinality(rfq) > 1
    OBVIOUS
  <2>1. rfq # {} /\ \A q \in rfq : rfq # {q}
    BY DEF SignalInv
  <2>2. IsFiniteSet(rfq)
    BY InquiriesAssumption, FS_Subset DEF InquiryInv, InquiryTypes
  <2>3. Cardinality(rfq) \in Nat /\ Cardinality(rfq) # 0
    BY <2>1, <2>2, FS_CardinalityType, FS_EmptySet
  <2>4. Cardinality(rfq) # 1
    BY <2>1, <2>2, FS_Singleton
  <2> QED
    BY <2>3, <2>4
<1> QED
  BY <1>1, <1>2 DEF SignalInv, VisitInv, ReadingsMissOnlyOvertakers, RouteOf

(* Whatever overlaps, a route or a score that misses a signal or a visit was saved by *)
(* a transaction that another's commit overtook, and the gateway's route differs only *)
(* after a second inquiry (inbound_triage.py, lead_intent.py).                        *)
THEOREM ReadingsAlwaysMissOnlyOvertakers == InboundSpec => []ReadingsMissOnlyOvertakers
BY SignalsSafe, ReadingsExplained, PTL

-----------------------------------------------------------------------------
(* What a run does in one transaction *)

\* A step that needed no approval, or was approved, and sent no mail.
Harmless(s, approvals) ==
  s.outcome = "succeeded" =>
    s.action.tool # "send_email" /\ (s.action.tool \in Gated => s.action \in approvals)

\* What the turns of a run so far may have done with these approvals.
TurnsOK(approvals, e) ==
  /\ {"rows", "steps", "seen", "status", "mail"} \subseteq DOMAIN e
  /\ "messages" \in DOMAIN e.rows /\ e.rows.messages = crm.messages
  /\ \E S : e.steps \in Seq(S)
  /\ \A i \in DOMAIN e.steps : Harmless(e.steps[i], approvals)
  /\ e.status = "mail" =>
       e.mail = Act("send_email", e.mail.arg) /\ e.mail \in approvals /\ ~InCooldown(crm, e.mail.arg)

LEMMA StepAdded ==
  ASSUME NEW S, NEW steps \in Seq(S), NEW s, NEW approvals,
         \A i \in DOMAIN steps : Harmless(steps[i], approvals), Harmless(s, approvals)
  PROVE  /\ \E T : Append(steps, s) \in Seq(T)
         /\ \A i \in DOMAIN Append(steps, s) : Harmless(Append(steps, s)[i], approvals)
<1> DEFINE new == Append(steps, s)
<1>1. steps \in Seq(S \cup {s}) /\ s \in S \cup {s}
  OBVIOUS
<1>2. new \in Seq(S \cup {s})
  BY <1>1
<1>3. DOMAIN new = DOMAIN steps \cup {Len(steps) + 1} /\ new[Len(steps) + 1] = s
      /\ \A i \in DOMAIN steps : new[i] = steps[i]
  OBVIOUS
<1> HIDE DEF new
<1>4. \A i \in DOMAIN new : Harmless(new[i], approvals)
  BY <1>3
<1> QED
  BY <1>2, <1>4 DEF new

LEMMA DoneKeepsMessages ==
  ASSUME NEW w, "messages" \in DOMAIN w, NEW a, NEW luck
  PROVE  "messages" \in DOMAIN Done(w, a, luck) /\ Done(w, a, luck).messages = w.messages
<1>1. \A c, x : /\ "messages" \in DOMAIN [w EXCEPT !.snapshot[c] = x]
                /\ [w EXCEPT !.snapshot[c] = x].messages = w.messages
  OBVIOUS
<1>2. \A c : "messages" \in DOMAIN FollowUpAdded(w, c) /\ FollowUpAdded(w, c).messages = w.messages
  BY DEF FollowUpAdded
<1>3. \A c : "messages" \in DOMAIN AddedToFollowUp(w, c) /\ AddedToFollowUp(w, c).messages = w.messages
  BY <1>2 DEF AddedToFollowUp
<1>4. \A c : "messages" \in DOMAIN Drafted(w, c) /\ Drafted(w, c).messages = w.messages
  BY DEF Drafted, NewDraft
<1>5. \A c : "messages" \in DOMAIN Enriched(w, c) /\ Enriched(w, c).messages = w.messages
  BY <1>1 DEF Enriched
<1>6. \A c, has : "messages" \in DOMAIN WebsiteRead(w, c, has) /\ WebsiteRead(w, c, has).messages = w.messages
  BY <1>1 DEF WebsiteRead
<1> QED
  BY <1>3, <1>4, <1>5, <1>6 DEF Done

LEMMA TurnKeeps ==
  ASSUME NEW r, NEW approvals, NEW luck, NEW e, TurnsOK(approvals, e),
         NEW a, a = Act(a.tool, a.arg)
  PROVE  TurnsOK(approvals, Turn(r, approvals, luck, e, a))
<1> DEFINE ended(status, outcome) ==
             [e EXCEPT !.status = status, !.steps = Append(@, Step(a, outcome))]
<1>0. PICK S : e.steps \in Seq(S)
  BY DEF TurnsOK
<1>1. ASSUME NEW status \in {"WAITING_APPROVAL", "FAILED"}, NEW outcome \in {"blocked_approval", "failed"}
      PROVE  TurnsOK(approvals, ended(status, outcome))
  <2> DEFINE f == ended(status, outcome)
             steps == Append(e.steps, Step(a, outcome))
  <2>1. Harmless(Step(a, outcome), approvals)
    BY DEF Harmless, Step
  <2>2. (\E T : steps \in Seq(T)) /\ \A i \in DOMAIN steps : Harmless(steps[i], approvals)
    BY <1>0, <2>1, StepAdded DEF TurnsOK
  <2> HIDE DEF steps
  <2>3. f = [e EXCEPT !.status = status, !.steps = steps]
    BY DEF steps
  <2>4. DOMAIN f = DOMAIN e /\ f.status = status /\ f.steps = steps /\ f.rows = e.rows
    BY <2>3 DEF TurnsOK
  <2>5. f.status # "mail"
    BY <2>4
  <2> HIDE DEF f
  <2>6. TurnsOK(approvals, f)
    BY <2>2, <2>4, <2>5 DEF TurnsOK
  <2> QED
    BY <2>6 DEF f, steps
<1>2. TurnsOK(approvals, [e EXCEPT !.status = "FAILED"])
  BY DEF TurnsOK
<1>3. ASSUME a.tool = "send_email", Granted(a, approvals), CanSend(e.rows, a.arg)
      PROVE  TurnsOK(approvals, [e EXCEPT !.status = "mail", !.mail = a])
  <2> DEFINE f == [e EXCEPT !.status = "mail", !.mail = a]
  <2>1. DOMAIN f = DOMAIN e /\ f.mail = a /\ f.steps = e.steps /\ f.rows = e.rows
    BY DEF TurnsOK
  <2> HIDE DEF f
  <2>2. ~InCooldown(crm, a.arg)
    BY <1>3 DEF TurnsOK, CanSend, InCooldown
  <2> QED
    BY <1>3, <2>1, <2>2 DEF TurnsOK, Granted, f
<1>4. ASSUME a.tool # "send_email", a.tool \in Gated => Granted(a, approvals), e.status = "going"
      PROVE  TurnsOK(approvals, [e EXCEPT !.rows = Done(@, a, luck), !.steps = Append(@, Step(a, "succeeded")),
                                          !.seen = @ \cup {a}])
  <2> DEFINE rows == Done(e.rows, a, luck)
             steps == Append(e.steps, Step(a, "succeeded"))
             seen == e.seen \cup {a}
             f == [e EXCEPT !.rows = rows, !.steps = steps, !.seen = seen]
  <2>1. Harmless(Step(a, "succeeded"), approvals)
    BY <1>4 DEF Harmless, Step, Granted
  <2>2. (\E T : steps \in Seq(T)) /\ \A i \in DOMAIN steps : Harmless(steps[i], approvals)
    BY <1>0, <2>1, StepAdded DEF TurnsOK
  <2>3. "messages" \in DOMAIN rows /\ rows.messages = crm.messages
    BY DoneKeepsMessages DEF TurnsOK
  <2> HIDE DEF rows, steps, seen
  <2>4. DOMAIN f = DOMAIN e /\ f.status = "going" /\ f.steps = steps /\ f.rows = rows
    BY <1>4 DEF TurnsOK
  <2> HIDE DEF f
  <2>5. TurnsOK(approvals, f)
    BY <2>2, <2>3, <2>4 DEF TurnsOK
  <2> QED
    BY <2>5 DEF f, rows, steps, seen
<1>5. ASSUME a.tool = "send_email"
      PROVE  a.tool \in Gated /\ ~CanDo(e.rows, a, luck)
  <2>1. a.tool \in Gated
    BY <1>5 DEF Gated
  <2>2. ~CanDo(e.rows, a, luck)
    BY <1>5 DEF CanDo
  <2> QED
    BY <2>1, <2>2
<1> HIDE DEF ended
<1> QED
  BY <1>1, <1>2, <1>3, <1>4, <1>5 DEF Turn, ended

-----------------------------------------------------------------------------
(* A fold takes the elements of a sequence from the first to the last *)

LEMMA LargestExists ==
  ASSUME NEW n \in Nat, NEW s \in SUBSET (1..n), s # {}
  PROVE  \E x \in s : \A y \in s : x >= y
<1> DEFINE below == {k \in Nat : n - k \in s}
<1>1. PICK x : x \in s
  OBVIOUS
<1>2. x \in 1..n /\ n - x \in Nat /\ n - (n - x) = x
  BY <1>1
<1>3. below # {} /\ below \subseteq Nat
  BY <1>1, <1>2
<1>4. \E m \in below : \A k \in below : ~(<<k, m>> \in OpToRel(<, Nat))
  <2> HIDE DEF below
  <2> QED
    BY <1>3, NatLessThanWellFounded, WFMin, Zenon
<1>5. PICK m \in below : \A k \in below : ~(k < m)
  BY <1>3, <1>4 DEF OpToRel
<1>6. \A y \in s : n - m >= y
  <2> TAKE y \in s
  <2>1. y \in 1..n /\ n - y \in Nat /\ n - (n - y) = y
    OBVIOUS
  <2>2. n - y \in below
    BY <2>1
  <2>3. ~(n - y < m)
    BY <1>5, <2>2
  <2> QED
    BY <2>1, <2>3
<1>7. n - m \in s
  OBVIOUS
<1> QED
  BY <1>6, <1>7

LEMMA MaxIsIn ==
  ASSUME NEW n \in Nat, NEW s \in SUBSET (1..n), s # {}
  PROVE  Max(s) \in s
<1>1. \E x \in s : \A y \in s : x >= y
  BY LargestExists
<1> QED
  BY <1>1 DEF Max

StartOfTurns == [rows |-> crm, steps |-> <<>>, seen |-> {}, status |-> "going", mail |-> Act("", 0)]

\* g is what the turns of the plan's actions in every set of places do, the last place last.
Turns(r, acts, approvals, luck, S, g) ==
  g = [s \in S |-> IF s = {} THEN StartOfTurns
                   ELSE Turn(r, approvals, luck, g[s \ {Max(s)}], acts[Max(s)])]

LEMMA TurnsExist ==
  ASSUME NEW r, NEW acts, NEW approvals, NEW luck, NEW n \in Nat
  PROVE  \E g : Turns(r, acts, approvals, luck, SUBSET (1..n), g)
<1> DEFINE Small(k) == {s \in SUBSET (1..n) : Cardinality(s) <= k}
           IsTurns(g, k) == Turns(r, acts, approvals, luck, Small(k), g)
           Next1(g, s) == IF s = {} THEN StartOfTurns
                          ELSE Turn(r, approvals, luck, g[s \ {Max(s)}], acts[Max(s)])
           Good == {k \in Nat : \E g : IsTurns(g, k)}
<1>0. IsFiniteSet(1..n) /\ Cardinality(1..n) = n
  BY FS_Interval
<1>1. \A s \in SUBSET (1..n) : IsFiniteSet(s) /\ Cardinality(s) \in Nat /\ Cardinality(s) <= n
  BY <1>0, FS_Subset, FS_CardinalityType
<1>2. ASSUME NEW s \in SUBSET (1..n), s # {}
      PROVE  /\ s \ {Max(s)} \in SUBSET (1..n)
             /\ Cardinality(s \ {Max(s)}) = Cardinality(s) - 1
  BY <1>1, <1>2, MaxIsIn, FS_RemoveElement
<1> HIDE DEF Next1
<1>3. 0 \in Good
  <2> DEFINE g == [s \in Small(0) |-> StartOfTurns]
  <2>1. \A s \in Small(0) : s = {}
    BY <1>1, FS_EmptySet
  <2>2. IsTurns(g, 0)
    BY <2>1 DEF Turns
  <2> QED
    BY <2>2
<1>4. ASSUME NEW k \in Good PROVE k + 1 \in Good
  <2>1. PICK g : IsTurns(g, k)
    OBVIOUS
  <2> DEFINE h == [s \in Small(k + 1) |-> Next1(g, s)]
  <2>2. \A s \in Small(k) : g[s] = Next1(g, s)
    BY <2>1 DEF Turns, Next1
  <2>3. \A s \in Small(k) : s \in Small(k + 1) /\ h[s] = g[s]
    <3>1. \A s \in Small(k) : s \in Small(k + 1)
      BY <1>1
    <3> HIDE DEF Small
    <3> QED
      BY <2>2, <3>1
  <2>4. \A s \in Small(k + 1) : s # {} => s \ {Max(s)} \in Small(k)
    BY <1>1, <1>2
  <2>5. \A s \in Small(k + 1) : Next1(g, s) = Next1(h, s)
    <3> HIDE DEF h, Small
    <3> QED
      BY <2>3, <2>4 DEF Next1
  <2>6. h = [s \in Small(k + 1) |-> Next1(h, s)]
    <3>1. \A s \in Small(k + 1) : h[s] = Next1(g, s)
      OBVIOUS
    <3>2. h = [s \in Small(k + 1) |-> h[s]]
      OBVIOUS
    <3> HIDE DEF h, Small
    <3> QED
      BY <2>5, <3>1, <3>2
  <2>7. IsTurns(h, k + 1)
    <3> HIDE DEF h, Small
    <3> QED
      BY <2>6 DEF Turns, Next1
  <2>8. k + 1 \in Nat
    OBVIOUS
  <2> HIDE DEF IsTurns, h
  <2> QED
    BY <2>7, <2>8
<1>5. Good = Nat
  <2>1. Good \in SUBSET Nat
    OBVIOUS
  <2> HIDE DEF Good
  <2> QED
    BY <2>1, <1>3, <1>4, SetInduction
<1>6. Small(n) = SUBSET (1..n)
  BY <1>1
<1>7. PICK g : IsTurns(g, n)
  <2> HIDE DEF IsTurns
  <2> QED
    BY <1>5
<1> HIDE DEF Small
<1> QED
  BY <1>6, <1>7

\* The states of the transaction after each of its turns.
LEMMA ExecuteUnfolds ==
  ASSUME NEW r, NEW acts, NEW approvals, NEW luck, NEW n \in Nat, DOMAIN acts = 1..n
  PROVE  \E h : /\ h[0] = StartOfTurns /\ h[n] = Execute(r, acts, approvals, luck)
                /\ \A k \in 1..n : h[k] = Turn(r, approvals, luck, h[k - 1], acts[k])
<1> DEFINE g == CHOOSE g : Turns(r, acts, approvals, luck, SUBSET (1..n), g)
<1>1. Turns(r, acts, approvals, luck, SUBSET (1..n), g)
  BY TurnsExist
<1>2. Execute(r, acts, approvals, luck) = g[1..n]
  BY DEF Execute, FoldLeft, MapThenFoldSet, Turns, StartOfTurns
<1> HIDE DEF g
<1>3. \A s \in SUBSET (1..n) :
        g[s] = IF s = {} THEN StartOfTurns
               ELSE Turn(r, approvals, luck, g[s \ {Max(s)}], acts[Max(s)])
  BY <1>1 DEF Turns
<1> DEFINE h == [k \in 0..n |-> g[1..k]]
<1>4. h[0] = StartOfTurns
  <2>1. 1..0 = {} /\ {} \in SUBSET (1..n) /\ h[0] = g[1..0]
    OBVIOUS
  <2> QED
    BY <1>3, <2>1
<1>5. ASSUME NEW k \in 1..n
      PROVE  h[k] = Turn(r, approvals, luck, h[k - 1], acts[k])
  <2>1. Max(1..k) = k
    BY DEF Max
  <2>2. 1..k \in SUBSET (1..n) /\ 1..k # {} /\ (1..k) \ {k} = 1..(k - 1)
    OBVIOUS
  <2>3. h[k] = g[1..k] /\ h[k - 1] = g[1..(k - 1)]
    OBVIOUS
  <2> QED
    BY <1>3, <2>1, <2>2, <2>3
<1>6. h[n] = Execute(r, acts, approvals, luck)
  BY <1>2
<1> QED
  BY <1>4, <1>5, <1>6

\* Whatever a planner asks for, what a transaction did keeps to the approvals it was given.
LEMMA ExecuteKeeps ==
  ASSUME NEW r, NEW acts, NEW approvals, NEW luck, NEW n \in Nat, DOMAIN acts = 1..n,
         \A i \in 1..n : acts[i] = Act(acts[i].tool, acts[i].arg), "messages" \in DOMAIN crm
  PROVE  TurnsOK(approvals, Execute(r, acts, approvals, luck))
<1>1. PICK h : /\ h[0] = StartOfTurns /\ h[n] = Execute(r, acts, approvals, luck)
               /\ \A k \in 1..n : h[k] = Turn(r, approvals, luck, h[k - 1], acts[k])
  BY ExecuteUnfolds
<1>2. TurnsOK(approvals, StartOfTurns)
  <2>1. <<>> \in Seq({}) /\ DOMAIN <<>> = {}
    OBVIOUS
  <2> QED
    BY <2>1 DEF TurnsOK, StartOfTurns
<1> DEFINE Good == {k \in Nat : k <= n => TurnsOK(approvals, h[k])}
<1>3. 0 \in Good
  BY <1>1, <1>2
<1>4. ASSUME NEW k \in Good PROVE k + 1 \in Good
  <2> SUFFICES ASSUME k + 1 <= n PROVE TurnsOK(approvals, h[k + 1])
    OBVIOUS
  <2>1. k + 1 \in 1..n /\ (k + 1) - 1 = k /\ TurnsOK(approvals, h[k])
    OBVIOUS
  <2> QED
    BY <1>1, <2>1, TurnKeeps
<1>5. Good = Nat
  <2>1. Good \in SUBSET Nat
    OBVIOUS
  <2> HIDE DEF Good
  <2> QED
    BY <2>1, <1>3, <1>4, SetInduction
<1>6. n \in Good
  <2> HIDE DEF Good
  <2> QED
    BY <1>5
<1>7. TurnsOK(approvals, h[n])
  BY <1>6
<1> QED
  BY <1>1, <1>7

LEMMA PlansAreFinite ==
  ASSUME NEW r \in Runs, NEW v, NEW acts \in Plans(r, v)
  PROVE  \E n \in Nat : DOMAIN acts = 1..n /\ \A i \in 1..n : acts[i] = Act(acts[i].tool, acts[i].arg)
<1> DEFINE Good(s) == \E n \in Nat : DOMAIN s = 1..n /\ \A i \in 1..n : s[i] = Act(s[i].tool, s[i].arg)
<1>1. CASE Mode[r] = "AUTOMATION"
  <2>0. acts = Script(r, v)
    BY <1>1 DEF Plans
  <2>1. ASSUME NEW c PROVE Good(ProactivePlan(c))
    <3>1. CASE c \in Online
      <4> DEFINE tools == <<"enrich_candidate", "website_enrich_candidate", "verify_candidate_contacts",
                            "add_to_follow_up", "draft_outreach", "send_email">>
      <4>1. DOMAIN tools = 1..6
        OBVIOUS
      <4> HIDE DEF tools
      <4>2. ProactivePlan(c) = [i \in DOMAIN tools |-> Act(tools[i], c)]
        BY <3>1 DEF ProactivePlan, OnCompany, tools
      <4> QED
        BY <4>1, <4>2 DEF Act
    <3>2. CASE c \notin Online
      <4> DEFINE tools == <<"enrich_candidate", "judge_candidate", "add_to_follow_up", "draft_outreach",
                            "send_email">>
      <4>1. DOMAIN tools = 1..5
        OBVIOUS
      <4> HIDE DEF tools
      <4>2. ProactivePlan(c) = [i \in DOMAIN tools |-> Act(tools[i], c)]
        BY <3>2 DEF ProactivePlan, OnCompany, tools
      <4> QED
        BY <4>1, <4>2 DEF Act
    <3> QED
      BY <3>1, <3>2
  <2>2. Good(StrategyPlan(0)) /\ Good(VariantsPlan(0))
    <3>1. Good(StrategyPlan(0))
      BY DEF StrategyPlan, Act
    <3>2. Good(VariantsPlan(0))
      BY DEF VariantsPlan, Act
    <3> QED
      BY <3>1, <3>2
  <2>3. Good(CreationPlan(v))
    BY DEF CreationPlan, Act
  <2>4. Good(SocialPlan(0))
    BY DEF SocialPlan, Act
  <2>5. AgentType[r] \in {"proactive", "content_strategy", "content_creation", "platform_variants",
                         "social_ops"}
    BY AgentTypeAssumption
  <2> HIDE DEF Good
  <2>6. Good(Script(r, v))
    <3>1. CASE AgentType[r] = "proactive"
      <4>1. Script(r, v) = ProactivePlan(Subject[r])
        BY <3>1 DEF Script
      <4> QED
        BY <2>1, <4>1
    <3>2. CASE AgentType[r] = "content_strategy"
      <4>1. Script(r, v) = StrategyPlan(0)
        BY <3>2 DEF Script
      <4> QED
        BY <2>2, <4>1
    <3>3. CASE AgentType[r] = "content_creation"
      <4>1. Script(r, v) = CreationPlan(v)
        BY <3>3 DEF Script
      <4> QED
        BY <2>3, <4>1
    <3>4. CASE AgentType[r] = "platform_variants"
      <4>1. Script(r, v) = VariantsPlan(0)
        BY <3>4 DEF Script
      <4> QED
        BY <2>2, <4>1
    <3>5. CASE AgentType[r] = "social_ops"
      <4>1. Script(r, v) = SocialPlan(0)
        BY <3>5 DEF Script
      <4> QED
        BY <2>4, <4>1
    <3> QED
      BY <2>5, <3>1, <3>2, <3>3, <3>4, <3>5
  <2> QED
    BY <2>0, <2>6 DEF Good
<1>2. CASE Mode[r] = "AI_AGENT"
  <2>1. PICK n \in 0..MaxChoices : acts \in [1..n -> AIChoices[AgentType[r]]]
    BY <1>2 DEF Plans
  <2>2. n \in Nat
    OBVIOUS
  <2> QED
    BY <1>2, <2>1, <2>2, ChoicesAssumption DEF Act
<1> QED
  BY <1>1, <1>2, ModeAssumption

-----------------------------------------------------------------------------
(* Approvals and mails *)

MailFields == {"run", "company", "week", "fate", "during"}

\* What the rows of the agents' side are made of.
AgentRowsOK ==
  /\ \A r \in Runs : \E S : run[r].steps \in Seq(S)
  /\ DOMAIN approved = Runs
  /\ \A r \in Runs : {"actions", "decisions"} \subseteq DOMAIN approved[r] /\ approved[r].decisions \in Nat
  /\ "messages" \in DOMAIN crm /\ \E S : crm.messages \in Seq(S)
  /\ week \in Nat
  /\ \A i \in DOMAIN mails : MailFields \subseteq DOMAIN mails[i] /\ mails[i].run \in Runs

Approves(r, s) ==
  s.outcome = "succeeded" /\ s.action.tool \in Gated => s.action \in approved[r].actions
MailApproved(i) == Act("send_email", mails[i].company) \in approved[mails[i].run].actions

\* A transaction that waits for the provider did approved things, for an approval
\* whose page has still to link what came of it, and its mail is still open.
SendingInv ==
  \A r \in Runs : MailStarted(r) => LET s == sending[r][1] IN
    /\ s.mail \in DOMAIN mails /\ mails[s.mail].run = r /\ mails[s.mail].fate = "open"
    /\ \E S : s.steps \in Seq(S)
    /\ \A i \in DOMAIN s.steps : Harmless(s.steps[i], approved[r].actions)
    /\ r \in unsynced

ApprovalInv ==
  /\ \A r \in Runs : \A i \in DOMAIN run[r].steps : Approves(r, run[r].steps[i])
  /\ \A i \in DOMAIN mails : MailApproved(i)
  /\ \A r \in Runs : Cardinality(MailsOf(r)) <= approved[r].decisions

\* A recorded mail has its message, and one that is open was so when every later one left.
MailInv ==
  /\ \A i \in DOMAIN mails : mails[i].week \in Nat /\ mails[i].week <= week
  /\ \A i \in DOMAIN mails : mails[i].fate \in {"open", "recorded", "unsent", "lost"}
  /\ \A i \in DOMAIN mails : mails[i].fate = "recorded" =>
       \E k \in DOMAIN crm.messages :
         /\ crm.messages[k].company = mails[i].company /\ crm.messages[k].status = "SENT"
         /\ crm.messages[k].week \in Nat
         /\ mails[i].week <= crm.messages[k].week /\ crm.messages[k].week <= week
  /\ \A i, j \in DOMAIN mails : i < j /\ mails[i].fate = "open" => i \in mails[j].during
  /\ MailsAreSpaced

AgentInv == AgentRowsOK /\ SendingInv /\ ApprovalInv /\ MailInv

-----------------------------------------------------------------------------
(* The three kinds of steps: work without a mail, a mail that leaves, its answer *)

Kept(q, i) == i \in DOMAIN run[q].steps /\ run'[q].steps[i] = run[q].steps[i]

Worked(r, approvals) ==
  /\ UNCHANGED <<mails, sending>>
  /\ "messages" \in DOMAIN crm' /\ crm'.messages = crm.messages
  /\ \A q \in Runs \ {r} : run'[q] = run[q]
  /\ \E S : run'[r].steps \in Seq(S)
  /\ \A i \in DOMAIN run'[r].steps : Kept(r, i) \/ Harmless(run'[r].steps[i], approvals)

\* What two sequences say, one after the other.
LEMMA Joined ==
  ASSUME NEW S, NEW s \in Seq(S), NEW T, NEW t \in Seq(T)
  PROVE  /\ \E U : s \o t \in Seq(U)
         /\ \A i \in DOMAIN s : i \in DOMAIN (s \o t) /\ (s \o t)[i] = s[i]
         /\ \A i \in DOMAIN (s \o t) : \/ i \in DOMAIN s /\ (s \o t)[i] = s[i]
                                       \/ \E k \in DOMAIN t : (s \o t)[i] = t[k]
<1> DEFINE U == S \cup T
           st == s \o t
<1>1. s \in Seq(U) /\ t \in Seq(U)
  OBVIOUS
<1> HIDE DEF U
<1>2. /\ st \in Seq(U) /\ Len(st) = Len(s) + Len(t)
      /\ \A i \in 1..(Len(s) + Len(t)) : st[i] = IF i <= Len(s) THEN s[i] ELSE t[i - Len(s)]
  BY <1>1, ConcatProperties
<1> HIDE DEF st
<1>3. /\ DOMAIN st = 1..(Len(s) + Len(t)) /\ DOMAIN s = 1..Len(s) /\ DOMAIN t = 1..Len(t)
      /\ Len(s) \in Nat /\ Len(t) \in Nat
  BY <1>1, <1>2
<1>4. \A i \in DOMAIN s : i \in DOMAIN st /\ st[i] = s[i]
  BY <1>2, <1>3
<1>5. \A i \in DOMAIN st : ~(i <= Len(s)) => i - Len(s) \in DOMAIN t /\ st[i] = t[i - Len(s)]
  <2> TAKE i \in DOMAIN st
  <2> HAVE ~(i <= Len(s))
  <2>1. i \in 1..(Len(s) + Len(t))
    BY <1>3
  <2>2. i - Len(s) \in 1..Len(t)
    BY <1>3, <2>1
  <2> QED
    BY <1>2, <1>3, <2>1, <2>2
<1>6. \A i \in DOMAIN st : i <= Len(s) => i \in DOMAIN s
  BY <1>3
<1> QED
  BY <1>2, <1>4, <1>5, <1>6 DEF st

Mail(r, company) ==
  [run |-> r, company |-> company, week |-> week, fate |-> "open",
   during |-> {i \in DOMAIN mails : mails[i].fate = "open"}]

Mailed(r, approvals) ==
  /\ UNCHANGED <<run, crm>>
  /\ \E company, draft, steps :
       /\ Act("send_email", company) \in approvals /\ ~InCooldown(crm, company)
       /\ \E S : steps \in Seq(S)
       /\ \A i \in DOMAIN steps : Harmless(steps[i], approvals)
       /\ mails' = Append(mails, Mail(r, company))
       /\ sending' = [sending EXCEPT ![r] =
            <<[mail |-> Len(mails) + 1, draft |-> draft, steps |-> steps]>>]

LEMMA Continued ==
  ASSUME RunInv, AgentRowsOK, NEW r \in Runs, NEW v, NEW approvals, Continue(r, v, approvals)
  PROVE  Worked(r, approvals) \/ Mailed(r, approvals)
<1>0. PICK S : run[r].steps \in Seq(S)
  BY DEF AgentRowsOK
<1>1. CASE Ended(r)
  <2>1. UNCHANGED <<run, crm, mails, sending>>
    BY <1>1 DEF Continue
  <2> QED
    BY <1>0, <2>1 DEF Worked, Kept, AgentRowsOK
<1>2. CASE ~Ended(r)
  <2>1. PICK acts \in Plans(r, v), luck \in Luck :
          Finish(r, Execute(r, acts, approvals, luck)) \/ BeginMail(r, Execute(r, acts, approvals, luck))
    BY <1>2 DEF Continue
  <2> DEFINE e == Execute(r, acts, approvals, luck)
  <2>2. TurnsOK(approvals, e)
    BY PlansAreFinite, ExecuteKeeps DEF AgentRowsOK
  <2> HIDE DEF e
  <2>3. PICK T : e.steps \in Seq(T)
    BY <2>2 DEF TurnsOK
  <2>4. CASE Finish(r, e)
    <3> DEFINE steps == run[r].steps \o e.steps
    <3>1. PICK status : run' = [run EXCEPT ![r].status = status, ![r].steps = steps]
      BY <2>4 DEF Finish, RunInv
    <3>2. \E U : steps \in Seq(U)
      BY <1>0, <2>3, Joined
    <3>3. \A i \in DOMAIN steps : \/ i \in DOMAIN run[r].steps /\ steps[i] = run[r].steps[i]
                                  \/ \E k \in DOMAIN e.steps : steps[i] = e.steps[k]
      <4> DEFINE old == run[r].steps
                 new == e.steps
      <4>1. old \in Seq(S) /\ new \in Seq(T)
        BY <1>0, <2>3
      <4> HIDE DEF old, new
      <4>2. \A i \in DOMAIN (old \o new) : \/ i \in DOMAIN old /\ (old \o new)[i] = old[i]
                                           \/ \E k \in DOMAIN new : (old \o new)[i] = new[k]
        BY <4>1, Joined
      <4> QED
        BY <4>2 DEF old, new
    <3> HIDE DEF steps
    <3>4. run'[r].steps = steps /\ \A q \in Runs \ {r} : run'[q] = run[q]
      BY <3>1 DEF RunInv
    <3>5. UNCHANGED <<mails, sending>> /\ "messages" \in DOMAIN crm' /\ crm'.messages = crm.messages
      BY <2>2, <2>4 DEF Finish, TurnsOK
    <3> QED
      BY <2>2, <3>2, <3>3, <3>4, <3>5 DEF Worked, Kept, TurnsOK
  <2>5. CASE BeginMail(r, e)
    <3>1. UNCHANGED <<run, crm>> /\ e.status = "mail"
      BY <2>5 DEF BeginMail
    <3>2. mails' = Append(mails, Mail(r, e.mail.arg))
      BY <2>5 DEF BeginMail, Mail
    <3>3. sending' = [sending EXCEPT ![r] =
            <<[mail |-> Len(mails) + 1, draft |-> LatestDraft(crm, e.mail.arg), steps |-> e.steps]>>]
      BY <2>5 DEF BeginMail
    <3> QED
      BY <2>2, <3>1, <3>2, <3>3 DEF Mailed, TurnsOK
  <2> QED
    BY <2>1, <2>4, <2>5 DEF e
<1> QED
  BY <1>1, <1>2

\* Approvals are never taken back, time does not go back, and no page links what is not done.
Grow ==
  /\ DOMAIN approved' = Runs
  /\ \A q \in Runs :
       /\ {"actions", "decisions"} \subseteq DOMAIN approved'[q] /\ approved'[q].decisions \in Nat
       /\ approved[q].actions \subseteq approved'[q].actions
       /\ approved[q].decisions <= approved'[q].decisions
  /\ week' \in Nat /\ week <= week'
  /\ \A q \in Runs : MailStarted(q) /\ q \in unsynced => q \in unsynced'

LEMMA GrowKeeps ==
  ASSUME Grow, NEW q \in Runs
  PROVE  /\ \A s : Harmless(s, approved[q].actions) => Harmless(s, approved'[q].actions)
         /\ \A s : Harmless(s, approved'[q].actions) => Approves(q, s)'
         /\ \A s : Approves(q, s) => Approves(q, s)'
BY DEF Grow, Harmless, Approves

LEMMA MailsAreFinite ==
  ASSUME RunInv, NEW r
  PROVE  IsFiniteSet(MailsOf(r)) /\ Cardinality(MailsOf(r)) \in Nat
<1>1. PICK S : mails \in Seq(S)
  BY DEF RunInv
<1>2. MailsOf(r) \subseteq 1..Len(mails) /\ Len(mails) \in Nat
  BY <1>1 DEF MailsOf
<1>3. IsFiniteSet(1..Len(mails))
  BY <1>2, FS_Interval
<1> QED
  BY <1>2, <1>3, FS_Subset, FS_CardinalityType

LEMMA MailRun ==
  ASSUME ApprovalInv, AgentRowsOK, NEW i \in DOMAIN mails, NEW r \in Runs, mails[i].run = r
  PROVE  Act("send_email", mails[i].company) \in approved[r].actions
BY DEF ApprovalInv, MailApproved

\* Work that leaves the mails alone.
LEMMA WorkKeeps ==
  ASSUME RunInv, AgentInv, Grow,
         UNCHANGED <<mails, sending>>,
         "messages" \in DOMAIN crm', crm'.messages = crm.messages,
         \A q \in Runs : /\ \E S : run'[q].steps \in Seq(S)
                         /\ \A i \in DOMAIN run'[q].steps :
                              Kept(q, i) \/ Harmless(run'[q].steps[i], approved'[q].actions)
  PROVE  AgentInv'
<1>1. AgentRowsOK'
  BY DEF AgentInv, AgentRowsOK, Grow
<1>2. SendingInv'
  <2> SUFFICES ASSUME NEW r \in Runs, sending[r] # <<>>
               PROVE  LET s == sending[r][1] IN
                      /\ s.mail \in DOMAIN mails /\ mails[s.mail].run = r /\ mails[s.mail].fate = "open"
                      /\ \E S : s.steps \in Seq(S)
                      /\ \A i \in DOMAIN s.steps : Harmless(s.steps[i], approved'[r].actions)
                      /\ r \in unsynced'
    BY DEF SendingInv, MailStarted
  <2>1. MailStarted(r)
    BY DEF MailStarted
  <2> DEFINE s == sending[r][1]
  <2>2. /\ s.mail \in DOMAIN mails /\ mails[s.mail].run = r /\ mails[s.mail].fate = "open"
        /\ \E S : s.steps \in Seq(S)
        /\ \A i \in DOMAIN s.steps : Harmless(s.steps[i], approved[r].actions)
        /\ r \in unsynced
    BY <2>1 DEF AgentInv, SendingInv
  <2>3. r \in unsynced'
    BY <2>1, <2>2 DEF Grow
  <2> HIDE DEF s
  <2>4. \A i \in DOMAIN s.steps : Harmless(s.steps[i], approved'[r].actions)
    BY <2>2, GrowKeeps
  <2> QED
    BY <2>2, <2>3, <2>4 DEF s
<1>3. ApprovalInv'
  <2>1. \A r \in Runs : \A i \in DOMAIN run'[r].steps : Approves(r, run[r].steps[i])'
    <3> TAKE r \in Runs
    <3> TAKE i \in DOMAIN run'[r].steps
    <3>1. CASE Kept(r, i)
      <4>1. Approves(r, run[r].steps[i])
        BY <3>1 DEF AgentInv, ApprovalInv, Kept
      <4> QED
        BY <3>1, <4>1 DEF Approves, Kept, Grow
    <3>2. CASE Harmless(run'[r].steps[i], approved'[r].actions)
      BY <3>2 DEF Harmless, Approves
    <3> QED
      BY <3>1, <3>2
  <2>2. \A i \in DOMAIN mails : MailApproved(i)'
    BY DEF AgentInv, ApprovalInv, MailApproved, Grow, AgentRowsOK
  <2>3. \A r \in Runs : Cardinality(MailsOf(r))' <= approved'[r].decisions
    <3> TAKE r \in Runs
    <3>1. MailsOf(r)' = MailsOf(r)
      BY DEF MailsOf
    <3>2. IsFiniteSet(MailsOf(r)) /\ Cardinality(MailsOf(r)) \in Nat
      BY MailsAreFinite
    <3> QED
      BY <3>1, <3>2 DEF AgentInv, ApprovalInv, Grow, AgentRowsOK
  <2> QED
    BY <2>1, <2>2, <2>3 DEF ApprovalInv
<1>4. MailInv'
  <2>1. \A i \in DOMAIN mails : mails[i].week \in Nat /\ mails[i].week <= week'
    BY DEF AgentInv, MailInv, Grow, AgentRowsOK
  <2>2. \A i \in DOMAIN mails : mails[i].fate = "recorded" =>
          \E k \in DOMAIN crm.messages :
            /\ crm.messages[k].company = mails[i].company /\ crm.messages[k].status = "SENT"
            /\ crm.messages[k].week \in Nat
            /\ mails[i].week <= crm.messages[k].week /\ crm.messages[k].week <= week'
    BY DEF AgentInv, MailInv, Grow, AgentRowsOK
  <2> QED
    BY <2>1, <2>2 DEF AgentInv, MailInv, MailsAreSpaced
<1> QED
  BY <1>1, <1>2, <1>3, <1>4 DEF AgentInv

\* A mail leaves: none was recorded for the company within the cooldown.
LEMMA MailLeaves ==
  ASSUME RunInv, AgentInv, Grow, NEW r \in Runs, NEW approvals, Mailed(r, approvals), sending[r] = <<>>,
         approvals \subseteq approved'[r].actions, approved'[r].decisions = approved[r].decisions + 1,
         r \in unsynced', week' = week
  PROVE  AgentInv'
<1>1. UNCHANGED <<run, crm>>
  BY DEF Mailed
<1>2. PICK company, draft, steps :
        /\ Act("send_email", company) \in approvals /\ ~InCooldown(crm, company)
        /\ \E S : steps \in Seq(S)
        /\ \A i \in DOMAIN steps : Harmless(steps[i], approvals)
        /\ mails' = Append(mails, Mail(r, company))
        /\ sending' = [sending EXCEPT ![r] =
             <<[mail |-> Len(mails) + 1, draft |-> draft, steps |-> steps]>>]
  BY DEF Mailed
<1> DEFINE mail == Mail(r, company)
           new == Len(mails) + 1
<1>3. PICK S : mails \in Seq(S)
  BY DEF RunInv
<1>4. /\ DOMAIN mails' = DOMAIN mails \cup {new} /\ mails'[new] = mail
      /\ \A i \in DOMAIN mails : mails'[i] = mails[i] /\ i < new /\ i \in Nat
      /\ new \notin DOMAIN mails /\ new \in Nat
  <2>1. Len(mails) \in Nat /\ DOMAIN mails = 1..Len(mails)
    BY <1>3
  <2>2. mails \in Seq(S \cup {mail}) /\ mail \in S \cup {mail}
    BY <1>3
  <2>3. mails' = Append(mails, mail)
    BY <1>2
  <2> HIDE DEF mail
  <2>4. DOMAIN mails' = 1..(Len(mails) + 1) /\ mails'[Len(mails) + 1] = mail
        /\ \A i \in 1..Len(mails) : mails'[i] = mails[i]
    BY <2>1, <2>2, <2>3, AppendProperties
  <2> QED
    BY <2>1, <2>4
<1>5. /\ mail.run = r /\ mail.company = company /\ mail.week = week /\ mail.fate = "open"
      /\ mail.during = {i \in DOMAIN mails : mails[i].fate = "open"} /\ MailFields \subseteq DOMAIN mail
  BY DEF Mail, MailFields
<1> HIDE DEF mail, new
<1>6. AgentRowsOK'
  <2>1. \A q \in Runs : \E T : run'[q].steps \in Seq(T)
    BY <1>1 DEF AgentInv, AgentRowsOK
  <2>2. "messages" \in DOMAIN crm' /\ \E T : crm'.messages \in Seq(T)
    BY <1>1 DEF AgentInv, AgentRowsOK
  <2>3. \A i \in DOMAIN mails' : MailFields \subseteq DOMAIN mails'[i] /\ mails'[i].run \in Runs
    BY <1>4, <1>5 DEF AgentInv, AgentRowsOK
  <2> QED
    BY <2>1, <2>2, <2>3 DEF AgentRowsOK, Grow
<1>7. SendingInv'
  <2> DEFINE it == [mail |-> new, draft |-> draft, steps |-> steps]
  <2>1. sending' = [sending EXCEPT ![r] = <<it>>] /\ DOMAIN sending = Runs
    BY <1>2 DEF RunInv, new
  <2>2. it.mail = new /\ it.steps = steps
    OBVIOUS
  <2> HIDE DEF it
  <2>3. sending'[r][1] = it /\ \A q \in Runs \ {r} : sending'[q] = sending[q]
    BY <2>1
  <2>4. \A i \in DOMAIN steps : Harmless(steps[i], approved'[r].actions)
    BY <1>2 DEF Harmless
  <2> SUFFICES ASSUME NEW q \in Runs, sending'[q] # <<>>
               PROVE  LET s == sending'[q][1] IN
                      /\ s.mail \in DOMAIN mails' /\ mails'[s.mail].run = q /\ mails'[s.mail].fate = "open"
                      /\ \E T : s.steps \in Seq(T)
                      /\ \A i \in DOMAIN s.steps : Harmless(s.steps[i], approved'[q].actions)
                      /\ q \in unsynced'
    BY DEF SendingInv, MailStarted
  <2>5. CASE q = r
    BY <1>2, <1>4, <1>5, <2>2, <2>3, <2>4, <2>5
  <2>6. CASE q # r
    <3> DEFINE s == sending[q][1]
    <3>1. MailStarted(q)
      BY <2>3, <2>6 DEF MailStarted
    <3>2. /\ s.mail \in DOMAIN mails /\ mails[s.mail].run = q /\ mails[s.mail].fate = "open"
          /\ \E T : s.steps \in Seq(T)
          /\ \A i \in DOMAIN s.steps : Harmless(s.steps[i], approved[q].actions)
          /\ q \in unsynced
      BY <3>1 DEF AgentInv, SendingInv
    <3>3. q \in unsynced' /\ sending'[q][1] = s
      BY <2>3, <2>6, <3>1, <3>2 DEF Grow
    <3> HIDE DEF s
    <3>4. \A i \in DOMAIN s.steps : Harmless(s.steps[i], approved'[q].actions)
      BY <3>2, GrowKeeps
    <3> QED
      BY <1>4, <3>2, <3>3, <3>4
  <2> QED
    BY <2>5, <2>6
<1>8. ApprovalInv'
  <2>1. \A q \in Runs : \A i \in DOMAIN run'[q].steps : Approves(q, run[q].steps[i])'
    <3> TAKE q \in Runs
    <3> TAKE i \in DOMAIN run'[q].steps
    <3>1. Approves(q, run[q].steps[i])
      BY <1>1 DEF AgentInv, ApprovalInv
    <3> QED
      BY <1>1, <3>1 DEF Approves, Grow
  <2>2. \A i \in DOMAIN mails' : Act("send_email", mails'[i].company) \in approved'[mails'[i].run].actions
    <3>1. \A i \in DOMAIN mails : Act("send_email", mails[i].company) \in approved[mails[i].run].actions
                                 /\ mails[i].run \in Runs
      BY DEF AgentInv, ApprovalInv, MailApproved, AgentRowsOK
    <3>2. Act("send_email", company) \in approved'[r].actions
      BY <1>2
    <3> QED
      BY <1>4, <1>5, <3>1, <3>2 DEF Grow
  <2>3. \A q \in Runs : Cardinality(MailsOf(q))' <= approved'[q].decisions
    <3> TAKE q \in Runs
    <3>0. IsFiniteSet(MailsOf(q)) /\ Cardinality(MailsOf(q)) \in Nat
          /\ Cardinality(MailsOf(q)) <= approved[q].decisions /\ approved[q].decisions \in Nat
      BY MailsAreFinite DEF AgentInv, ApprovalInv, AgentRowsOK
    <3>1. CASE q # r
      <4>1. MailsOf(q)' = MailsOf(q)
        BY <1>4, <1>5, <3>1 DEF MailsOf
      <4> QED
        BY <3>0, <4>1 DEF Grow
    <3>2. CASE q = r
      <4>1. MailsOf(q)' = MailsOf(q) \cup {new} /\ new \notin MailsOf(q)
        BY <1>4, <1>5, <3>2 DEF MailsOf
      <4>2. Cardinality(MailsOf(q)') = Cardinality(MailsOf(q)) + 1
        BY <3>0, <4>1, FS_AddElement
      <4> QED
        BY <3>0, <3>2, <4>2
    <3> QED
      BY <3>1, <3>2
  <2> QED
    BY <2>1, <2>2, <2>3 DEF ApprovalInv, MailApproved
<1>9. MailInv'
  <2>1. \A i \in DOMAIN mails' : mails'[i].week \in Nat /\ mails'[i].week <= week'
    BY <1>4, <1>5 DEF AgentInv, MailInv, AgentRowsOK
  <2>2. \A i \in DOMAIN mails' : mails'[i].fate \in {"open", "recorded", "unsent", "lost"}
    BY <1>4, <1>5 DEF AgentInv, MailInv
  <2>3. \A i \in DOMAIN mails' : mails'[i].fate = "recorded" =>
          \E k \in DOMAIN crm'.messages :
            /\ crm'.messages[k].company = mails'[i].company /\ crm'.messages[k].status = "SENT"
            /\ crm'.messages[k].week \in Nat
            /\ mails'[i].week <= crm'.messages[k].week /\ crm'.messages[k].week <= week'
    BY <1>1, <1>4, <1>5 DEF AgentInv, MailInv
  <2>4. \A i, j \in DOMAIN mails' : i < j /\ mails'[i].fate = "open" => i \in mails'[j].during
    BY <1>4, <1>5 DEF AgentInv, MailInv
  <2>5. MailsAreSpaced'
    <3> SUFFICES ASSUME NEW i \in DOMAIN mails', NEW j \in DOMAIN mails', i < j,
                        mails'[i].company = mails'[j].company, mails'[i].week = mails'[j].week,
                        mails'[i].fate # "unsent", mails'[j].fate # "unsent"
                 PROVE  mails'[i].fate = "lost" \/ i \in mails'[j].during
      BY DEF MailsAreSpaced
    <3>1. i \in DOMAIN mails /\ mails'[i] = mails[i]
      BY <1>4
    <3>2. CASE j \in DOMAIN mails
      BY <1>4, <3>1, <3>2 DEF AgentInv, MailInv, MailsAreSpaced
    <3>3. CASE j = new
      <4>1. mails[i].company = company /\ mails[i].week = week
        BY <1>4, <1>5, <3>1, <3>3
      <4>2. mails[i].fate # "recorded"
        <5> SUFFICES ASSUME mails[i].fate = "recorded" PROVE FALSE
          BY <3>1
        <5>1. PICK k \in DOMAIN crm.messages :
                /\ crm.messages[k].company = company /\ crm.messages[k].status = "SENT"
                /\ crm.messages[k].week \in Nat /\ week <= crm.messages[k].week
                /\ crm.messages[k].week <= week
          BY <3>1, <4>1 DEF AgentInv, MailInv
        <5>2. crm.messages[k].week = week
          BY <5>1 DEF AgentInv, AgentRowsOK
        <5> QED
          BY <1>2, <5>1, <5>2 DEF InCooldown
      <4> QED
        BY <1>4, <1>5, <3>1, <3>3, <4>2 DEF AgentInv, MailInv
    <3> QED
      BY <1>4, <3>2, <3>3
  <2> QED
    BY <2>1, <2>2, <2>3, <2>4, <2>5 DEF MailInv
<1> QED
  BY <1>6, <1>7, <1>8, <1>9 DEF AgentInv

\* What an answer does to the mails, the messages and the run's steps.
LEMMA AnswerTold ==
  ASSUME RunInv, AgentRowsOK, NEW k \in DOMAIN mails, NEW fate, mails' = [mails EXCEPT ![k].fate = fate]
  PROVE  /\ DOMAIN mails' = DOMAIN mails
         /\ \A i \in DOMAIN mails :
              /\ MailFields \subseteq DOMAIN mails'[i]
              /\ mails'[i].run = mails[i].run /\ mails'[i].company = mails[i].company
              /\ mails'[i].week = mails[i].week /\ mails'[i].during = mails[i].during
              /\ mails'[i].fate = IF i = k THEN fate ELSE mails[i].fate
<1> DEFINE closed == [mails[k] EXCEPT !.fate = fate]
<1>1. mails' = [mails EXCEPT ![k] = closed]
  OBVIOUS
<1>2. MailFields \subseteq DOMAIN mails[k]
  BY DEF AgentRowsOK
<1>3. /\ DOMAIN closed = DOMAIN mails[k] /\ closed.fate = fate /\ closed.run = mails[k].run
      /\ closed.company = mails[k].company /\ closed.week = mails[k].week /\ closed.during = mails[k].during
  BY <1>2 DEF MailFields
<1> HIDE DEF closed
<1>4. DOMAIN mails' = DOMAIN mails /\ mails'[k] = closed /\ \A i \in DOMAIN mails \ {k} : mails'[i] = mails[i]
  BY <1>1
<1> QED
  BY <1>2, <1>3, <1>4 DEF AgentRowsOK

LEMMA MessageStored ==
  ASSUME AgentRowsOK, NEW c, NEW d, NEW status \in {"SENT", "FAILED"}, crm' = Sent(crm, c, d, status)
  PROVE  /\ "messages" \in DOMAIN crm' /\ \E S : crm'.messages \in Seq(S)
         /\ \A k \in DOMAIN crm.messages : k \in DOMAIN crm'.messages /\ crm'.messages[k] = crm.messages[k]
         /\ \E k \in DOMAIN crm'.messages :
              /\ crm'.messages[k].company = c /\ crm'.messages[k].status = status
              /\ crm'.messages[k].week = week
<1> DEFINE message == [company |-> c, draft |-> d, status |-> status, week |-> week]
           messages == Append(crm.messages, message)
<1>1. PICK S : crm.messages \in Seq(S)
  BY DEF AgentRowsOK
<1>2. message.company = c /\ message.status = status /\ message.week = week
  OBVIOUS
<1> HIDE DEF message
<1>3. crm.messages \in Seq(S \cup {message}) /\ message \in S \cup {message}
  BY <1>1
<1>4. /\ messages \in Seq(S \cup {message}) /\ Len(messages) = Len(crm.messages) + 1
      /\ \A i \in 1..Len(crm.messages) : messages[i] = crm.messages[i]
      /\ messages[Len(crm.messages) + 1] = message
  BY <1>3, AppendProperties
<1>5. DOMAIN messages = 1..(Len(crm.messages) + 1) /\ DOMAIN crm.messages = 1..Len(crm.messages)
      /\ Len(crm.messages) \in Nat
  BY <1>1, <1>4
<1> HIDE DEF messages
<1>6. "messages" \in DOMAIN crm' /\ crm'.messages = messages
  <2> DEFINE recorded == [crm EXCEPT !.messages = messages]
  <2>1. "messages" \in DOMAIN recorded /\ recorded.messages = messages
    BY DEF AgentRowsOK
  <2>2. crm' = recorded \/ crm' = [recorded EXCEPT !.stage[c] = "EMAIL_1_SENT"]
    BY DEF Sent, messages, message
  <2> HIDE DEF recorded
  <2>3. /\ "messages" \in DOMAIN [recorded EXCEPT !.stage[c] = "EMAIL_1_SENT"]
        /\ [recorded EXCEPT !.stage[c] = "EMAIL_1_SENT"].messages = recorded.messages
    BY <2>1
  <2> QED
    BY <2>1, <2>2, <2>3
<1> QED
  BY <1>2, <1>4, <1>5, <1>6

LEMMA StepsAnswered ==
  ASSUME RunInv, AgentInv, NEW r \in Runs, MailStarted(r), NEW status, NEW outcome,
         LET s == sending[r][1]
             a == Act("send_email", mails[s.mail].company) IN
         run' = [run EXCEPT ![r].status = status,
                            ![r].steps = @ \o s.steps \o <<Step(a, outcome)>>]
  PROVE  /\ \E S : run'[r].steps \in Seq(S)
         /\ \A i \in DOMAIN run[r].steps : Kept(r, i) /\ i \in DOMAIN run'[r].steps
         /\ \A i \in DOMAIN run'[r].steps :
              \/ Kept(r, i)
              \/ Harmless(run'[r].steps[i], approved[r].actions)
              \/ run'[r].steps[i] = Step(Act("send_email", mails[sending[r][1].mail].company), outcome)
         /\ \A q \in Runs \ {r} : run'[q] = run[q]
<1> DEFINE s == sending[r][1].steps
           last == Step(Act("send_email", mails[sending[r][1].mail].company), outcome)
           old == run[r].steps
           steps == (old \o s) \o <<last>>
<1>1. PICK S : old \in Seq(S)
  BY DEF AgentInv, AgentRowsOK
<1>2. PICK T : s \in Seq(T)
  BY DEF AgentInv, SendingInv
<1>3. \A i \in DOMAIN s : Harmless(s[i], approved[r].actions)
  BY DEF AgentInv, SendingInv
<1>4. run' = [run EXCEPT ![r].status = status, ![r].steps = steps]
  BY DEF RunInv
<1> HIDE DEF steps
<1>5. run'[r].steps = steps /\ \A q \in Runs \ {r} : run'[q] = run[q]
  BY <1>4 DEF RunInv
<1> HIDE DEF s, last
<1>6. /\ \E U : steps \in Seq(U)
      /\ \A i \in DOMAIN old : i \in DOMAIN steps /\ steps[i] = old[i]
      /\ \A i \in DOMAIN steps : \/ i \in DOMAIN old /\ steps[i] = old[i]
                                 \/ \E k \in DOMAIN s : steps[i] = s[k]
                                 \/ steps[i] = last
  <2> HIDE DEF old
  <2> DEFINE os == old \o s
             one == <<last>>
  <2>1. /\ \E U : os \in Seq(U)
        /\ \A i \in DOMAIN old : i \in DOMAIN os /\ os[i] = old[i]
        /\ \A i \in DOMAIN os : \/ i \in DOMAIN old /\ os[i] = old[i]
                                \/ \E k \in DOMAIN s : os[i] = s[k]
    BY <1>1, <1>2, Joined
  <2>2. one \in Seq({last}) /\ \A i \in DOMAIN one : one[i] = last
    OBVIOUS
  <2>3. steps = os \o one
    BY DEF steps
  <2> HIDE DEF os, one
  <2>4. PICK U : os \in Seq(U)
    BY <2>1
  <2>5. /\ \E V : steps \in Seq(V)
        /\ \A i \in DOMAIN os : i \in DOMAIN steps /\ steps[i] = os[i]
        /\ \A i \in DOMAIN steps : \/ i \in DOMAIN os /\ steps[i] = os[i]
                                   \/ \E k \in DOMAIN one : steps[i] = one[k]
    BY <2>2, <2>3, <2>4, Joined
  <2>6. \A i \in DOMAIN old : i \in DOMAIN steps /\ steps[i] = old[i]
    BY <2>1, <2>5
  <2>7. ASSUME NEW i \in DOMAIN steps
        PROVE  \/ i \in DOMAIN old /\ steps[i] = old[i]
               \/ \E k \in DOMAIN s : steps[i] = s[k]
               \/ steps[i] = last
    <3>1. CASE i \in DOMAIN os /\ steps[i] = os[i]
      BY <2>1, <3>1
    <3>2. CASE \E k \in DOMAIN one : steps[i] = one[k]
      BY <2>2, <3>2
    <3> QED
      BY <2>5, <3>1, <3>2
  <2>8. \E V : steps \in Seq(V)
    BY <2>5
  <2> HIDE DEF steps
  <2> QED
    BY <2>6, <2>7, <2>8
<1> QED
  BY <1>3, <1>5, <1>6 DEF Kept, last

LEMMA MailAnswered ==
  ASSUME RunInv, AgentInv, NEW r \in Runs, EndMail(r)
  PROVE  AgentInv'
<1> DEFINE s == sending[r][1]
           k == s.mail
           company == mails[k].company
           a == Act("send_email", company)
<1>1. MailStarted(r) /\ sending' = [sending EXCEPT ![r] = <<>>] /\ UNCHANGED <<week, approved, unsynced>>
  BY DEF EndMail, MailStarted
<1>2. k \in DOMAIN mails /\ mails[k].run = r /\ mails[k].fate = "open"
  BY <1>1 DEF AgentInv, SendingInv
<1>3. a \in approved[r].actions
  BY <1>2, MailRun DEF AgentInv
<1>4. \A outcome : Approves(r, Step(a, outcome))
  BY <1>3 DEF Approves, Step
<1>5. PICK fate \in {"recorded", "unsent", "lost"} :
        /\ mails' = [mails EXCEPT ![k].fate = fate]
        /\ \/ fate # "recorded" /\ UNCHANGED crm
           \/ \E status \in {"SENT", "FAILED"} :
                /\ fate = "recorded" => status = "SENT"
                /\ crm' = Sent(crm, company, s.draft, status)
        /\ \/ UNCHANGED run
           \/ \E status, outcome : run' = [run EXCEPT ![r].status = status,
                                       ![r].steps = @ \o s.steps \o <<Step(a, outcome)>>]
  <2>1. CASE MailRecorded(r)
    <3>1. PICK status \in {"SENT", "FAILED"} :
            /\ crm' = Sent(crm, company, s.draft, status)
            /\ mails' = [mails EXCEPT ![k].fate = IF status = "SENT" THEN "recorded" ELSE "unsent"]
      BY <2>1 DEF MailRecorded, Act
    <3>2. \E after : run' = [run EXCEPT ![r].status = after,
                                       ![r].steps = @ \o s.steps \o <<Step(a, "succeeded")>>]
      BY <2>1 DEF MailRecorded
    <3> DEFINE fate == IF status = "SENT" THEN "recorded" ELSE "unsent"
    <3>3. fate \in {"recorded", "unsent"} /\ (fate = "recorded" => status = "SENT")
      OBVIOUS
    <3>4. mails' = [mails EXCEPT ![k].fate = fate]
      BY <3>1
    <3> HIDE DEF fate, k, a, s, company
    <3> QED
      BY <3>1, <3>2, <3>3, <3>4
  <2>2. CASE MailFailed(r)
    <3>1. \E fate \in {"unsent", "lost"} : mails' = [mails EXCEPT ![k].fate = fate]
      BY <2>2 DEF MailFailed
    <3>2. UNCHANGED crm /\ \E after : run' = [run EXCEPT ![r].status = after,
                                       ![r].steps = @ \o s.steps \o <<Step(a, "failed")>>]
      BY <2>2 DEF MailFailed
    <3> HIDE DEF k, a, s, company
    <3> QED
      BY <3>1, <3>2
  <2>3. CASE MailLost(r)
    BY <2>3 DEF MailLost
  <2> QED
    BY <2>1, <2>2, <2>3 DEF EndMail
<1>6. /\ DOMAIN mails' = DOMAIN mails
      /\ \A i \in DOMAIN mails :
           /\ MailFields \subseteq DOMAIN mails'[i]
           /\ mails'[i].run = mails[i].run /\ mails'[i].company = mails[i].company
           /\ mails'[i].week = mails[i].week /\ mails'[i].during = mails[i].during
           /\ mails'[i].fate = IF i = k THEN fate ELSE mails[i].fate
  <2>1. k \in DOMAIN mails /\ mails' = [mails EXCEPT ![k].fate = fate]
    BY <1>2, <1>5
  <2> HIDE DEF k, a, s, company
  <2> QED
    BY ZenonT(60), <2>1, AnswerTold DEF AgentInv
<1>7. /\ "messages" \in DOMAIN crm' /\ \E S : crm'.messages \in Seq(S)
      /\ \A i \in DOMAIN crm.messages : i \in DOMAIN crm'.messages /\ crm'.messages[i] = crm.messages[i]
      /\ fate = "recorded" => \E i \in DOMAIN crm'.messages :
           /\ crm'.messages[i].company = company /\ crm'.messages[i].status = "SENT"
           /\ crm'.messages[i].week = week
  <2> HIDE DEF company, s
  <2>1. CASE UNCHANGED crm /\ fate # "recorded"
    BY <2>1 DEF AgentInv, AgentRowsOK
  <2>2. ASSUME NEW status \in {"SENT", "FAILED"}, fate = "recorded" => status = "SENT",
               crm' = Sent(crm, company, s.draft, status)
        PROVE  /\ "messages" \in DOMAIN crm' /\ \E S : crm'.messages \in Seq(S)
               /\ \A i \in DOMAIN crm.messages :
                    i \in DOMAIN crm'.messages /\ crm'.messages[i] = crm.messages[i]
               /\ \E i \in DOMAIN crm'.messages :
                    /\ crm'.messages[i].company = company /\ crm'.messages[i].status = status
                    /\ crm'.messages[i].week = week
    BY <2>2, MessageStored DEF AgentInv
  <2> QED
    BY <1>5, <2>1, <2>2
<1>8. /\ \A q \in Runs : \E S : run'[q].steps \in Seq(S)
      /\ \A q \in Runs : \A i \in DOMAIN run'[q].steps : Approves(q, run'[q].steps[i])
  <2>1. CASE UNCHANGED run
    BY <2>1 DEF AgentInv, AgentRowsOK, ApprovalInv
  <2>2. ASSUME NEW status, NEW outcome,
               run' = [run EXCEPT ![r].status = status, ![r].steps = @ \o s.steps \o <<Step(a, outcome)>>]
        PROVE  /\ \A q \in Runs : \E S : run'[q].steps \in Seq(S)
               /\ \A q \in Runs : \A i \in DOMAIN run'[q].steps : Approves(q, run'[q].steps[i])
    <3>1. /\ \E S : run'[r].steps \in Seq(S)
          /\ \A i \in DOMAIN run'[r].steps :
               \/ Kept(r, i)
               \/ Harmless(run'[r].steps[i], approved[r].actions)
               \/ run'[r].steps[i] = Step(a, outcome)
          /\ \A q \in Runs \ {r} : run'[q] = run[q]
      BY <1>1, <2>2, StepsAnswered
    <3> HIDE DEF a
    <3>2. \A i \in DOMAIN run'[r].steps : Approves(r, run'[r].steps[i])
      BY <1>4, <3>1 DEF AgentInv, ApprovalInv, Approves, Harmless, Kept
    <3> QED
      BY <3>1, <3>2 DEF AgentInv, AgentRowsOK, ApprovalInv
  <2> QED
    BY <1>5, <2>1, <2>2
<1> HIDE DEF s, company, a
<1>9. AgentRowsOK'
  <2>1. \A i \in DOMAIN mails' : MailFields \subseteq DOMAIN mails'[i] /\ mails'[i].run \in Runs
    BY <1>6 DEF AgentInv, AgentRowsOK
  <2> QED
    BY <1>1, <1>7, <1>8, <2>1 DEF AgentInv, AgentRowsOK
<1>10. SendingInv'
  <2> SUFFICES ASSUME NEW q \in Runs, sending'[q] # <<>>
               PROVE  LET t == sending'[q][1] IN
                      /\ t.mail \in DOMAIN mails' /\ mails'[t.mail].run = q /\ mails'[t.mail].fate = "open"
                      /\ \E S : t.steps \in Seq(S)
                      /\ \A i \in DOMAIN t.steps : Harmless(t.steps[i], approved'[q].actions)
                      /\ q \in unsynced'
    BY DEF SendingInv, MailStarted
  <2>1. q # r /\ sending'[q] = sending[q] /\ MailStarted(q)
    BY <1>1 DEF RunInv, MailStarted
  <2> DEFINE t == sending[q][1]
  <2>2. /\ t.mail \in DOMAIN mails /\ mails[t.mail].run = q /\ mails[t.mail].fate = "open"
        /\ \E S : t.steps \in Seq(S)
        /\ \A i \in DOMAIN t.steps : Harmless(t.steps[i], approved[q].actions)
        /\ q \in unsynced
    BY <2>1 DEF AgentInv, SendingInv
  <2> HIDE DEF t, k
  <2>3. t.mail # k
    BY <1>2, <2>1, <2>2
  <2>4. mails'[t.mail].run = q /\ mails'[t.mail].fate = "open"
    BY <1>6, <2>2, <2>3
  <2> QED
    BY <1>1, <1>6, <2>1, <2>2, <2>4 DEF t
<1> HIDE DEF k
<1>11. ApprovalInv'
  <2>1. \A q \in Runs : \A i \in DOMAIN run'[q].steps : Approves(q, run[q].steps[i])'
    BY <1>1, <1>8 DEF Approves
  <2>2. \A i \in DOMAIN mails' : MailApproved(i)'
    BY <1>1, <1>6 DEF AgentInv, ApprovalInv, MailApproved
  <2>3. \A q : MailsOf(q)' = MailsOf(q)
    BY <1>6 DEF MailsOf
  <2> QED
    BY <1>1, <2>1, <2>2, <2>3 DEF AgentInv, ApprovalInv
<1>12. MailInv'
  <2>1. \A i \in DOMAIN mails' : /\ mails'[i].week \in Nat /\ mails'[i].week <= week'
                                 /\ mails'[i].fate \in {"open", "recorded", "unsent", "lost"}
    BY <1>1, <1>6 DEF AgentInv, MailInv
  <2>2. ASSUME NEW i \in DOMAIN mails', mails'[i].fate = "recorded"
        PROVE  \E j \in DOMAIN crm'.messages :
                 /\ crm'.messages[j].company = mails'[i].company /\ crm'.messages[j].status = "SENT"
                 /\ crm'.messages[j].week \in Nat
                 /\ mails'[i].week <= crm'.messages[j].week /\ crm'.messages[j].week <= week'
    <3>1. CASE i = k
      <4>1. fate = "recorded" /\ mails'[i].company = company /\ mails'[i].week <= week
        BY <1>2, <1>6, <2>2, <3>1 DEF company, AgentInv, MailInv
      <4>2. PICK j \in DOMAIN crm'.messages :
              /\ crm'.messages[j].company = company /\ crm'.messages[j].status = "SENT"
              /\ crm'.messages[j].week = week
        BY <1>7, <4>1
      <4>3. week \in Nat /\ week' = week
        BY <1>1 DEF AgentInv, AgentRowsOK
      <4> QED
        BY <4>1, <4>2, <4>3
    <3>2. CASE i # k
      <4>1. PICK j \in DOMAIN crm.messages :
              /\ crm.messages[j].company = mails[i].company /\ crm.messages[j].status = "SENT"
              /\ crm.messages[j].week \in Nat
              /\ mails[i].week <= crm.messages[j].week /\ crm.messages[j].week <= week
        BY <1>6, <2>2, <3>2 DEF AgentInv, MailInv
      <4> QED
        BY <1>1, <1>6, <1>7, <4>1
    <3> QED
      BY <3>1, <3>2
  <2>3. \A i, j \in DOMAIN mails' : i < j /\ mails'[i].fate = "open" => i \in mails'[j].during
    BY <1>6 DEF AgentInv, MailInv
  <2>4. MailsAreSpaced'
    <3> SUFFICES ASSUME NEW i \in DOMAIN mails', NEW j \in DOMAIN mails', i < j,
                        mails'[i].company = mails'[j].company, mails'[i].week = mails'[j].week,
                        mails'[i].fate # "unsent", mails'[j].fate # "unsent"
                 PROVE  mails'[i].fate = "lost" \/ i \in mails'[j].during
      BY DEF MailsAreSpaced
    <3>1. i \in DOMAIN mails /\ j \in DOMAIN mails /\ mails[i].company = mails[j].company
          /\ mails[i].week = mails[j].week /\ mails'[j].during = mails[j].during
      BY <1>6
    <3>2. CASE i = k
      BY <1>2, <3>1, <3>2 DEF AgentInv, MailInv
    <3>3. CASE i # k
      <4>1. mails[i].fate = mails'[i].fate /\ mails[j].fate # "unsent"
        BY <1>2, <1>6, <3>1, <3>3
      <4> QED
        BY <3>1, <4>1 DEF AgentInv, MailInv, MailsAreSpaced
    <3> QED
      BY <3>2, <3>3
  <2> QED
    BY <2>1, <2>2, <2>3, <2>4 DEF MailInv
<1> QED
  BY <1>9, <1>10, <1>11, <1>12 DEF AgentInv

-----------------------------------------------------------------------------
(* Every step is one of the three *)

\* The runs, their mails and approvals stay, and no message is added.
Idle ==
  /\ UNCHANGED <<run, sending, mails, approved>>
  /\ "messages" \in DOMAIN crm' /\ crm'.messages = crm.messages
  /\ week' \in Nat /\ week <= week'
  /\ \A q \in Runs : MailStarted(q) /\ q \in unsynced => q \in unsynced'

LEMMA IdleKeeps ==
  ASSUME RunInv, AgentInv, Idle
  PROVE  AgentInv'
<1>1. Grow
  BY DEF Idle, Grow, AgentInv, AgentRowsOK
<1>2. \A q \in Runs : /\ \E S : run'[q].steps \in Seq(S)
                      /\ \A i \in DOMAIN run'[q].steps : Kept(q, i)
  BY DEF Idle, Kept, AgentInv, AgentRowsOK
<1> QED
  BY <1>1, <1>2, WorkKeeps DEF Idle

LEMMA IdleWhenUnchanged ==
  ASSUME AgentInv, UNCHANGED <<run, sending, mails, approved, crm, week>>,
         \A q \in Runs : MailStarted(q) /\ q \in unsynced => q \in unsynced'
  PROVE  Idle
BY DEF AgentInv, AgentRowsOK, Idle

\* One run works on, with these approvals.
LEMMA RunWorks ==
  ASSUME RunInv, AgentInv, NEW r \in Runs, NEW approvals, Worked(r, approvals), Grow,
         approvals \subseteq approved'[r].actions
  PROVE  AgentInv'
<1>1. \A q \in Runs : /\ \E S : run'[q].steps \in Seq(S)
                      /\ \A i \in DOMAIN run'[q].steps :
                           Kept(q, i) \/ Harmless(run'[q].steps[i], approved'[q].actions)
  <2> TAKE q \in Runs
  <2>1. CASE q = r
    BY <2>1 DEF Worked, Harmless
  <2>2. CASE q # r
    BY <2>2 DEF Worked, Kept, AgentInv, AgentRowsOK
  <2> QED
    BY <2>1, <2>2
<1> QED
  BY <1>1, WorkKeeps DEF Worked

LEMMA StartAgainKeeps ==
  ASSUME RunInv, AgentInv, NEW r \in Runs, NEW v, StartAgain(r, v)
  PROVE  AgentInv'
<1>1. Continue(r, v, {}) /\ UNCHANGED <<week, approved, unsynced>>
  BY DEF StartAgain
<1>2. Grow
  BY <1>1 DEF Grow, AgentInv, AgentRowsOK
<1>3. ~Mailed(r, {})
  BY DEF Mailed
<1>4. Worked(r, {})
  BY <1>1, <1>3, Continued DEF AgentInv
<1> QED
  BY <1>2, <1>4, RunWorks

LEMMA CreateKeeps ==
  ASSUME RunInv, AgentInv, NEW r \in Runs, NEW v, CreateRun(r, v)
  PROVE  AgentInv'
<1> DEFINE row == [status |-> "RUNNING", steps |-> <<>>, args |-> v]
<1>1. run' = [run EXCEPT ![r] = row] /\ UNCHANGED <<outreachVars, sending, reviewing, approved, unsynced>>
  BY DEF CreateRun
<1>2. row.steps = <<>> /\ <<>> \in Seq({}) /\ DOMAIN <<>> = {}
  OBVIOUS
<1> HIDE DEF row
<1>3. run'[r].steps = <<>> /\ \A q \in Runs \ {r} : run'[q] = run[q]
  BY <1>1, <1>2 DEF RunInv
<1>4. Worked(r, {})
  BY <1>1, <1>2, <1>3 DEF Worked, outreachVars, AgentInv, AgentRowsOK
<1>5. Grow
  BY <1>1 DEF Grow, AgentInv, AgentRowsOK, outreachVars
<1> QED
  BY <1>4, <1>5, RunWorks

LEMMA ApproveKeeps ==
  ASSUME RunInv, AgentInv, NEW review, review.run \in Runs, Approve(review)
  PROVE  AgentInv'
<1> DEFINE r == review.run
           approvals == {review.action}
           row == [actions |-> approved[r].actions \cup {review.action},
                   decisions |-> approved[r].decisions + 1]
<1>1. /\ Continue(r, run[r].args, approvals) /\ sending[r] = <<>>
      /\ approved' = [approved EXCEPT ![r] = row]
      /\ unsynced' = unsynced \cup {r} /\ week' = week
  BY DEF Approve
<1>2. /\ row.actions = approved[r].actions \cup approvals /\ row.decisions = approved[r].decisions + 1
      /\ {"actions", "decisions"} \subseteq DOMAIN row
  OBVIOUS
<1>3. Worked(r, approvals) \/ Mailed(r, approvals)
  BY <1>1, Continued DEF AgentInv
<1> HIDE DEF row, r, approvals
<1>0. r \in Runs
  BY DEF r
<1>4. approved'[r] = row /\ DOMAIN approved' = Runs /\ \A q \in Runs \ {r} : approved'[q] = approved[q]
  BY <1>0, <1>1 DEF AgentInv, AgentRowsOK
<1>5. Grow
  BY <1>0, <1>1, <1>2, <1>4 DEF Grow, AgentInv, AgentRowsOK
<1>6. approvals \subseteq approved'[r].actions /\ approved'[r].decisions = approved[r].decisions + 1
      /\ r \in unsynced'
  BY <1>1, <1>2, <1>4
<1> QED
  BY <1>0, <1>1, <1>3, <1>5, <1>6, RunWorks, MailLeaves

LEMMA RejectKeeps ==
  ASSUME RunInv, AgentInv, NEW review, review.run \in Runs, Reject(review)
  PROVE  AgentInv'
<1>1. run' = [run EXCEPT ![review.run].status = "REJECTED"]
      /\ UNCHANGED <<outreachVars, sending, approved, unsynced>>
  BY DEF Reject
<1>2. \A q \in Runs : run'[q].steps = run[q].steps
  BY <1>1 DEF RunInv
<1>3. Grow
  BY <1>1 DEF Grow, AgentInv, AgentRowsOK, outreachVars
<1>4. \A q \in Runs : /\ \E S : run'[q].steps \in Seq(S)
                      /\ \A i \in DOMAIN run'[q].steps : Kept(q, i)
  BY <1>2 DEF Kept, AgentInv, AgentRowsOK
<1> QED
  BY <1>1, <1>3, <1>4, WorkKeeps DEF AgentInv, AgentRowsOK, outreachVars

LEMMA AgentsKeep ==
  ASSUME RunInv, Reviewers, AgentInv, AgentsNext
  PROVE  AgentInv'
<1>1. ASSUME NEW r \in Runs, StartStep(r) \/ NightlyRun(r)
      PROVE  AgentInv'
  BY <1>1, StartAgainKeeps, CreateKeeps DEF StartStep, NightlyRun
<1>2. ASSUME NEW r \in Runs, OpenReview(r)
      PROVE  AgentInv'
  BY <1>2, IdleKeeps, IdleWhenUnchanged DEF OpenReview, outreachVars
<1>3. CASE Decide
  BY <1>3, ApproveKeeps, RejectKeeps DEF Decide, Reviewers
<1> QED
  BY <1>1, <1>2, <1>3, MailAnswered DEF AgentsNext, WorkGoesOn

LEMMA StartedKeeps ==
  ASSUME RunInv, MissionRowsOK, AgentInv, MissionsNext
  PROVE  AgentInv'
<1>1. ASSUME UNCHANGED <<outreachVars, agentVars>>
      PROVE  AgentInv'
  BY <1>1, IdleKeeps, IdleWhenUnchanged DEF outreachVars, agentVars
<1>2. CASE LifeStep
  BY <1>1, <1>2 DEF LifeStep, CreateMission, EditMission, ChangeStatus, GeneratePlan, ApprovePlan, Only
<1>3. ASSUME NEW m \in Missions, NEW r \in Runs, BeginStart(m, r) \/ StartForMission(m, r)
      PROVE  AgentInv'
  BY <1>1, <1>3 DEF BeginStart, StartForMission, Only
<1>6. ASSUME NEW m \in Missions, LinkPublication(m)
      PROVE  AgentInv'
  BY <1>1, <1>6 DEF LinkPublication, Only
<1>4. ASSUME NEW r \in Runs, SyncResults(r) \/ ApproverDies(r)
      PROVE  AgentInv'
  <2>1. /\ UNCHANGED <<outreachVars, run, sending, approved>>
        /\ sending[r] = <<>> /\ unsynced' = unsynced \ {r}
    BY <1>4 DEF SyncResults, ApproverDies
  <2>2. \A q \in Runs : MailStarted(q) /\ q \in unsynced => q \in unsynced'
    BY <2>1 DEF MailStarted
  <2> QED
    BY <2>1, <2>2, IdleKeeps, IdleWhenUnchanged DEF outreachVars
<1>5. ASSUME NEW request \in starting, Starting(request)
      PROVE  AgentInv'
  <2> request.run \in Runs
    BY DEF MissionRowsOK
  <2>1. CASE RunAgent(request)
    BY <2>1, CreateKeeps, StartAgainKeeps DEF RunAgent
  <2>2. CASE ~RunAgent(request)
    BY <1>1, <1>5, <2>2 DEF Starting, LinkCandidate, LinkRun, LinkResults, StarterDies
  <2> QED
    BY <2>1, <2>2
<1> QED
  BY <1>2, <1>3, <1>4, <1>5, <1>6 DEF MissionsNext, StartsStep

\* No page writes a message.
LEMMA PageCommits ==
  ASSUME AgentInv, NEW w, "messages" \in DOMAIN w, w.messages = crm.messages, Commit(w),
         UNCHANGED agentVars
  PROVE  Idle
BY DEF Commit, agentVars, Idle, AgentInv, AgentRowsOK

LEMMA PagesKeep ==
  ASSUME RunInv, AgentInv, OutreachNext \/ WeekPasses, UNCHANGED agentVars
  PROVE  AgentInv'
<1>0. "messages" \in DOMAIN crm
  BY DEF AgentInv, AgentRowsOK
<1> DEFINE Same(w) == "messages" \in DOMAIN w /\ w.messages = crm.messages
<1>1. \A w, c, x : Same(w) =>
        /\ Same([w EXCEPT !.candidate[c] = x]) /\ Same([w EXCEPT !.snapshot[c] = x])
        /\ Same([w EXCEPT !.reactivation[c] = x]) /\ Same([w EXCEPT !.stage[c] = x])
        /\ Same([w EXCEPT !.accounts = x]) /\ Same([w EXCEPT !.drafts = x])
        /\ Same([w EXCEPT !.reviews = x])
  OBVIOUS
<1>2. \A w, c, x : Same(w) =>
        /\ Same([w EXCEPT !.drafts[c].status = x]) /\ Same([w EXCEPT !.reviews[c].handoff = x])
        /\ Same([w EXCEPT !.reactivation[c].status = x]) /\ Same([w EXCEPT !.reactivation[c].draft = x])
  OBVIOUS
<1>3. Same(crm)
  BY <1>0
<1> HIDE DEF Same
<1>4. ASSUME NEW w, Same(w), Commit(w)
      PROVE  AgentInv'
  BY <1>4, PageCommits, IdleKeeps DEF Same
<1>5. ASSUME NEW w, NEW c, Same(w)
      PROVE  /\ Same(Enriched(w, c)) /\ Same(FollowUpAdded(w, c)) /\ Same(AddedToFollowUp(w, c))
             /\ Same(Drafted(w, c))
             /\ \A has : Same(WebsiteRead(w, c, has))
             /\ \A status : Same(Reviewed(w, c, status))
             /\ \A origin : Same(NewDraft(w, c, origin))
             /\ \A d : Same(DraftApproved(w, d))
  <2>1. Same(Enriched(w, c)) /\ \A has : Same(WebsiteRead(w, c, has))
    BY <1>1, <1>5 DEF Enriched, WebsiteRead
  <2>2. Same(FollowUpAdded(w, c))
    BY <1>1, <1>5 DEF FollowUpAdded
  <2>3. Same(AddedToFollowUp(w, c))
    BY <1>1, <2>2 DEF AddedToFollowUp
  <2>4. \A origin : Same(NewDraft(w, c, origin))
    BY <1>1, <1>5 DEF NewDraft
  <2>5. Same(Drafted(w, c))
    BY <1>5, <2>4 DEF Drafted
  <2>6. \A status : Same(Reviewed(w, c, status))
    BY <1>1, <1>5 DEF Reviewed
  <2>7. \A d : Same(DraftApproved(w, d))
    BY <1>2, <1>5 DEF DraftApproved
  <2> QED
    BY <2>1, <2>2, <2>3, <2>4, <2>5, <2>6, <2>7
<1>6. ASSUME NEW c, CandidatePage(c)
      PROVE  AgentInv'
  BY <1>3, <1>4, <1>5, <1>6
     DEF CandidatePage, ReviewCandidate, PrepareEnrichment, ReadWebsite, FollowUpCandidate
<1>7. ASSUME NEW c, DraftPage(c)
      PROVE  AgentInv'
  <2>1. CASE WriteDraft(c)
    BY <1>3, <1>4, <1>5, <2>1 DEF WriteDraft
  <2>2. CASE SelectForReactivation(c)
    <3>1. \E x : Commit([crm EXCEPT !.reactivation[c] = x])
      BY <2>2 DEF SelectForReactivation
    <3> QED
      BY <1>1, <1>3, <1>4, <3>1
  <2>3. CASE DraftReactivation(c)
    <3> DEFINE w == NewDraft(crm, c, "reactivation")
    <3>1. Commit([w EXCEPT !.reactivation[c].draft = Len(w.drafts), !.reactivation[c].status = "DRAFTED"])
      BY <2>3 DEF DraftReactivation
    <3>2. Same(w)
      BY <1>3, <1>5
    <3> HIDE DEF w
    <3>3. Same([w EXCEPT !.reactivation[c].draft = Len(w.drafts), !.reactivation[c].status = "DRAFTED"])
      BY <3>2 DEF Same
    <3> QED
      BY <1>4, <3>1, <3>3
  <2>4. CASE ApproveReactivation(c)
    <3>1. \E d : Commit([DraftApproved(crm, d) EXCEPT !.reactivation[c].status = "APPROVED"])
      BY <2>4 DEF ApproveReactivation
    <3> QED
      BY <1>2, <1>3, <1>4, <1>5, <3>1
  <2> QED
    BY <1>7, <2>1, <2>2, <2>3, <2>4 DEF DraftPage
<1>8. ASSUME NEW c, CustomerPage(c)
      PROVE  AgentInv'
  <2>1. CASE FollowUp(c)
    BY <1>3, <1>4, <1>5, <2>1 DEF FollowUp
  <2>2. CASE ReviewOpportunity(c)
    <3>1. \E x : Commit([crm EXCEPT !.reviews = x])
      BY <2>2 DEF ReviewOpportunity
    <3> QED
      BY <1>1, <1>3, <1>4, <3>1
  <2>3. CASE HandOff(c)
    <3>1. \E d, i, x : Commit([DraftApproved(crm, d) EXCEPT !.reviews[i].handoff = x])
      BY <2>3 DEF HandOff
    <3> QED
      BY <1>2, <1>3, <1>4, <1>5, <3>1
  <2> QED
    BY <1>8, <2>1, <2>2, <2>3 DEF CustomerPage
<1>9. CASE WeekPasses
  <2>1. week' \in Nat /\ week <= week' /\ UNCHANGED <<crm, mails>>
    BY <1>9 DEF WeekPasses, AgentInv, AgentRowsOK
  <2>2. Idle
    BY <1>0, <2>1 DEF Idle, agentVars
  <2> QED
    BY <2>2, IdleKeeps
<1> QED
  BY <1>6, <1>7, <1>8, <1>9 DEF OutreachNext

LEMMA AgentsBeginWell == OutreachInit /\ AgentsInit => AgentInv
<1> SUFFICES ASSUME OutreachInit, AgentsInit PROVE AgentInv
  OBVIOUS
<1>1. /\ mails = <<>> /\ DOMAIN mails = {} /\ week = 0 /\ <<>> \in Seq({})
      /\ \A r \in Runs : /\ run[r].steps = <<>> /\ DOMAIN run[r].steps = {} /\ sending[r] = <<>>
                         /\ approved[r].decisions = 0 /\ {"actions", "decisions"} \subseteq DOMAIN approved[r]
      /\ DOMAIN approved = Runs
  BY DEF OutreachInit, AgentsInit, NoRun
<1>2. "messages" \in DOMAIN crm /\ crm.messages = <<>>
  BY DEF OutreachInit, FirstCrm
<1>3. AgentRowsOK
  <2>1. \A r \in Runs : \E S : run[r].steps \in Seq(S)
    BY <1>1
  <2>2. \E S : crm.messages \in Seq(S)
    BY <1>1, <1>2
  <2> QED
    BY <1>1, <1>2, <2>1, <2>2 DEF AgentRowsOK
<1>4. SendingInv
  BY <1>1 DEF SendingInv, MailStarted
<1>5. \A r : MailsOf(r) = {} /\ Cardinality({}) = 0
  BY <1>1, FS_EmptySet DEF MailsOf
<1>6. ApprovalInv
  BY <1>1, <1>5 DEF ApprovalInv
<1>7. MailInv
  BY <1>1 DEF MailInv, MailsAreSpaced
<1> QED
  BY <1>3, <1>4, <1>6, <1>7 DEF AgentInv

LEMMA AgentInvKeeps ==
  MissionInv /\ RunInv /\ Reviewers /\ AgentInv /\ [GrowthNext]_growthVars => AgentInv'
<1> SUFFICES ASSUME MissionInv, RunInv, Reviewers, AgentInv, [GrowthNext]_growthVars
    PROVE  AgentInv'
  OBVIOUS
<1>1. CASE UNCHANGED growthVars
  BY <1>1, IdleKeeps, IdleWhenUnchanged DEF growthVars, outreachVars, agentVars
<1>2. CASE (OutreachNext \/ WeekPasses) /\ UNCHANGED <<agentVars, missionVars>>
  BY <1>2, PagesKeep
<1> QED
  BY <1>1, <1>2, AgentsKeep, StartedKeeps, GrowthSteps DEF MissionInv

(* What the agents' transactions keep, whoever starts, approves or rejects a run and    *)
(* whatever a planner chooses: the strengthening of the two theorems below, with what   *)
(* a transaction that waits for the provider knows (persistent.py, outreach_events.py). *)
THEOREM AgentsSafe == GrowthSpec => []AgentInv
<1>1. OutreachInit /\ AgentsInit => AgentInv
  BY AgentsBeginWell
<1> QED
  BY <1>1, AgentInvKeeps, RunsSafe, MissionsSafe, PTL DEF GrowthSpec, growthVars

(* No gated action is done and no mail asked for that was not approved in that run, and *)
(* an approval is good for one mail (ActionsWereApproved), for every script and choice. *)
THEOREM ActionsAreAlwaysApproved == GrowthSpec => []ActionsWereApproved
<1>1. AgentInv => ActionsWereApproved
  <2> SUFFICES ASSUME AgentInv PROVE ActionsWereApproved
    OBVIOUS
  <2>1. \A r \in Runs : \A i \in MailsOf(r) : Act("send_email", mails[i].company) \in approved[r].actions
    BY DEF AgentInv, ApprovalInv, MailApproved, MailsOf
  <2> QED
    BY <2>1 DEF AgentInv, ApprovalInv, Approves, ActionsWereApproved
<1> QED
  BY <1>1, AgentsSafe, PTL

(* Two mails within the cooldown: the first was lost to the database, or under way when *)
(* the second left (MailsAreSpaced, which TLC checks on the mails desk).                *)
THEOREM MailsAreAlwaysSpaced == GrowthSpec => []MailsAreSpaced
<1>1. AgentInv => MailsAreSpaced
  BY DEF AgentInv, MailInv
<1> QED
  BY <1>1, AgentsSafe, PTL

-----------------------------------------------------------------------------
(* Credit *)

SentMail(s) == s.action.tool = "send_email" /\ s.outcome = "succeeded"
\* Somebody is still to link the results of r, or died before.
Owed(r) == r \in unsynced \cup dropped \/ \E request \in starting : request.run = r

CreditInv ==
  /\ \A m \in Missions : \A e \in Links(m) : e.type = "result" => RunItself(e.run) \in Links(m)
  /\ \A r \in Runs : \A m \in newest[r] : RunItself(r) \in Links(m)
  /\ \A r \in Runs : \A i \in DOMAIN run[r].steps : SentMail(run[r].steps[i]) /\ newest[r] # {} =>
       Owed(r) \/ \E m \in Missions : ResultOf(r, i) \in Links(m)

\* A mail that is recorded is recorded for a page that is still to link it.
StepsTold ==
  \A q \in Runs : \A i \in DOMAIN run'[q].steps :
    Kept(q, i) \/ ~SentMail(run'[q].steps[i]) \/ q \in unsynced'

LEMMA WorkTells ==
  ASSUME RunInv, AgentInv, NEW r \in Runs, NEW approvals,
         Worked(r, approvals) \/ Mailed(r, approvals)
  PROVE  StepsTold
<1>1. CASE Mailed(r, approvals)
  BY <1>1 DEF Mailed, StepsTold, Kept
<1>2. CASE Worked(r, approvals)
  BY <1>2 DEF Worked, StepsTold, Kept, Harmless, SentMail
<1> QED
  BY <1>1, <1>2

LEMMA StartTells ==
  ASSUME RunInv, AgentInv, NEW r \in Runs, NEW v, StartAgain(r, v) \/ CreateRun(r, v)
  PROVE  StepsTold /\ UNCHANGED unsynced
<1>1. CASE StartAgain(r, v)
  BY <1>1, Continued, WorkTells DEF StartAgain, AgentInv
<1>2. CASE CreateRun(r, v)
  <2> DEFINE row == [status |-> "RUNNING", steps |-> <<>>, args |-> v]
  <2>1. run' = [run EXCEPT ![r] = row] /\ UNCHANGED unsynced
    BY <1>2 DEF CreateRun
  <2>2. row.steps = <<>> /\ DOMAIN <<>> = {}
    OBVIOUS
  <2> HIDE DEF row
  <2>3. DOMAIN run'[r].steps = {} /\ \A q \in Runs \ {r} : run'[q] = run[q]
    BY <2>1, <2>2 DEF RunInv
  <2> QED
    BY <2>1, <2>3 DEF StepsTold, Kept
<1> QED
  BY <1>1, <1>2

LEMMA AgentsTell ==
  ASSUME RunInv, Reviewers, AgentInv, AgentsNext
  PROVE  StepsTold /\ unsynced \subseteq unsynced'
<1>1. ASSUME NEW r \in Runs, StartStep(r) \/ NightlyRun(r)
      PROVE  StepsTold /\ UNCHANGED unsynced
  BY <1>1, StartTells DEF StartStep, NightlyRun
<1>2. ASSUME NEW r \in Runs, OpenReview(r)
      PROVE  StepsTold /\ UNCHANGED unsynced
  BY <1>2 DEF OpenReview, StepsTold, Kept
<1>3. ASSUME NEW review \in reviewing, Approve(review)
      PROVE  StepsTold /\ unsynced \subseteq unsynced'
  <2>1. Continue(review.run, run[review.run].args, {review.action}) /\ unsynced \subseteq unsynced'
    BY <1>3 DEF Approve
  <2> QED
    BY <2>1, Continued, WorkTells DEF Reviewers, AgentInv
<1>4. ASSUME NEW review \in reviewing, Reject(review)
      PROVE  StepsTold /\ UNCHANGED unsynced
  <2>1. run' = [run EXCEPT ![review.run].status = "REJECTED"] /\ UNCHANGED unsynced
    BY <1>4 DEF Reject
  <2>2. \A q \in Runs : run'[q].steps = run[q].steps
    BY <2>1 DEF RunInv
  <2> QED
    BY <2>1, <2>2 DEF StepsTold, Kept
<1>5. ASSUME NEW r \in Runs, EndMail(r)
      PROVE  StepsTold /\ UNCHANGED unsynced
  <2>1. MailStarted(r) /\ UNCHANGED unsynced
    BY <1>5 DEF EndMail, MailStarted
  <2>2. r \in unsynced
    BY <2>1 DEF AgentInv, SendingInv
  <2>3. \A q \in Runs \ {r} : run'[q] = run[q]
    <3>1. CASE UNCHANGED run
      BY <3>1
    <3>2. ASSUME NEW status, NEW steps, run' = [run EXCEPT ![r].status = status, ![r].steps = steps]
          PROVE  \A q \in Runs \ {r} : run'[q] = run[q]
      BY <3>2, RunWritten
    <3>3. UNCHANGED run \/ \E status, steps : run' = [run EXCEPT ![r].status = status, ![r].steps = steps]
      <4> DEFINE s == sending[r][1]
                 a == Act("send_email", mails[s.mail].company)
                 after(outcome) == run[r].steps \o s.steps \o <<Step(a, outcome)>>
      <4>1. CASE MailRecorded(r)
        <5>1. \E status : run' = [run EXCEPT ![r].status = status, ![r].steps = after("succeeded")]
          BY <4>1 DEF MailRecorded, RunInv
        <5> HIDE DEF after
        <5> QED
          BY <5>1
      <4>2. CASE MailFailed(r)
        <5>1. run' = [run EXCEPT ![r].status = "FAILED", ![r].steps = after("failed")]
          BY <4>2 DEF MailFailed, RunInv
        <5> HIDE DEF after
        <5> QED
          BY <5>1
      <4>3. CASE MailLost(r)
        BY <4>3 DEF MailLost
      <4> QED
        BY <1>5, <4>1, <4>2, <4>3 DEF EndMail
    <3> QED
      BY <3>1, <3>2, <3>3
  <2> QED
    BY <2>1, <2>2, <2>3 DEF StepsTold, Kept
<1> QED
  BY <1>1, <1>2, <1>3, <1>4, <1>5 DEF AgentsNext, WorkGoesOn, Decide

LEMMA LinksGrow ==
  ASSUME link \subseteq link', NEW m
  PROVE  Links(m) \subseteq Links(m)'
BY DEF Links

\* Links are added, no debt is forgotten, and what is credited was linked with its run.
LEMMA CreditKeeps ==
  ASSUME MissionRowsOK, CreditInv, StepsTold, link \subseteq link',
         \A l \in link' \ link :
           l.entity.type = "result" => RunItself(l.entity.run) \in Links(l.mission)',
         \A r \in Runs : \/ newest'[r] = newest[r]
                         \/ Owed(r)' /\ \A m \in newest'[r] : RunItself(r) \in Links(m)',
         \A r \in Runs : Owed(r) =>
           Owed(r)' \/ \A m \in newest[r], i \in Results(r) : ResultOf(r, i) \in Links(m)'
  PROVE  CreditInv'
<1>1. ASSUME NEW m \in Missions, NEW e \in Links(m)', e.type = "result"
      PROVE  RunItself(e.run) \in Links(m)'
  <2>1. PICK l \in link' : l.mission = m /\ l.entity = e
    BY DEF Links
  <2>2. CASE l \in link
    <3>1. e \in Links(m)
      BY <2>1, <2>2 DEF Links
    <3>2. RunItself(e.run) \in Links(m)
      BY <1>1, <3>1 DEF CreditInv
    <3> QED
      BY <3>2, LinksGrow
  <2>3. CASE l \notin link
    BY <1>1, <2>1, <2>3
  <2> QED
    BY <2>2, <2>3
<1>2. ASSUME NEW r \in Runs, NEW m \in newest'[r]
      PROVE  RunItself(r) \in Links(m)'
  <2>1. CASE newest'[r] = newest[r]
    <3>1. RunItself(r) \in Links(m)
      BY <1>2, <2>1 DEF CreditInv
    <3> QED
      BY <3>1, LinksGrow
  <2> QED
    BY <2>1
<1>3. ASSUME NEW r \in Runs, NEW i \in DOMAIN run'[r].steps, SentMail(run'[r].steps[i]), newest'[r] # {}
      PROVE  Owed(r)' \/ \E m \in Missions : ResultOf(r, i) \in Links(m)'
  <2>1. CASE r \in unsynced'
    BY <2>1 DEF Owed
  <2>2. CASE newest'[r] # newest[r]
    BY <2>2
  <2>3. CASE Kept(r, i) /\ newest'[r] = newest[r]
    <3>1. i \in DOMAIN run[r].steps /\ SentMail(run[r].steps[i]) /\ newest[r] # {}
      BY <1>3, <2>3 DEF Kept
    <3>2. CASE Owed(r)
      <4>1. i \in Results(r)
        BY <3>1 DEF Results, SentMail, Linkable
      <4>2. PICK m \in Missions : m \in newest[r]
        BY <3>1 DEF MissionRowsOK
      <4> QED
        BY <3>2, <4>1, <4>2
    <3>3. CASE \E m \in Missions : ResultOf(r, i) \in Links(m)
      BY <3>3, LinksGrow
    <3> QED
      BY <3>1, <3>2, <3>3 DEF CreditInv
  <2> QED
    BY <1>3, <2>1, <2>2, <2>3 DEF StepsTold
<1> DEFINE C(m) == \A e \in Links(m)' : e.type = "result" => RunItself(e.run) \in Links(m)'
<1>4. \A m \in Missions : C(m)
  BY <1>1
<1> QED
  BY <1>2, <1>3, <1>4 DEF CreditInv, RunItself, ResultOf

\* The steps of the missions' pages and of a request that starts an agent.
LEMMA CreditStays ==
  ASSUME MissionRowsOK, CreditInv, StepsTold, UNCHANGED <<link, newest>>,
         \A r \in Runs : Owed(r) => Owed(r)'
  PROVE  CreditInv'
<1>1. \A l \in link' \ link : FALSE
  OBVIOUS
<1>2. \A r \in Runs : newest'[r] = newest[r]
  OBVIOUS
<1> QED
  BY <1>1, <1>2, CreditKeeps

LEMMA StillOwed ==
  ASSUME MissionRowsOK, NEW request \in starting, NEW at, at # "done", MoveOn(request, at),
         unsynced \subseteq unsynced', dropped \subseteq dropped'
  PROVE  \A r \in Runs : r = request.run \/ Owed(r) => Owed(r)'
<1> DEFINE moved == [request EXCEPT !.at = at]
<1>1. starting' = (starting \ {request}) \cup {moved}
  BY DEF MoveOn
<1>2. moved.run = request.run
  BY DEF MissionRowsOK
<1> HIDE DEF moved
<1> QED
  BY <1>1, <1>2 DEF Owed

\* Linking the results of r pays what was owed for it.
LEMMA SyncedCredits ==
  ASSUME MissionRowsOK, CreditInv, StepsTold, NEW r \in Runs, link' = Synced(r), UNCHANGED newest,
         \A q \in Runs \ {r} : Owed(q) => Owed(q)'
  PROVE  CreditInv'
<1>1. ASSUME NEW l \in link' \ link
      PROVE  l.mission \in newest[r] /\ \E i \in Results(r) : l.entity = ResultOf(r, i)
  BY DEF Synced
<1>2. \A l \in link' \ link : RunItself(l.entity.run) \in Links(l.mission)'
  <2> TAKE l \in link' \ link
  <2>0. PICK i \in Results(r) : l.entity = ResultOf(r, i)
    BY <1>1
  <2>1. l.entity.run = r /\ l.mission \in newest[r]
    BY <1>1, <2>0 DEF ResultOf
  <2>2. RunItself(r) \in Links(l.mission)
    BY <2>1 DEF CreditInv
  <2> QED
    BY <2>1, <2>2, LinksGrow DEF Synced
<1>3. \A m \in newest[r], i \in Results(r) : ResultOf(r, i) \in Links(m)'
  <2> TAKE m \in newest[r], i \in Results(r)
  <2> DEFINE new == [mission |-> m, entity |-> ResultOf(r, i)]
  <2>1. new \in link' /\ new.mission = m /\ new.entity = ResultOf(r, i)
    BY DEF Synced
  <2> HIDE DEF new
  <2> QED
    BY <2>1 DEF Links
<1>4. \A q \in Runs : Owed(q) =>
        Owed(q)' \/ \A m \in newest[q], i \in Results(q) : ResultOf(q, i) \in Links(m)'
  BY <1>3
<1> QED
  BY <1>2, <1>4, CreditKeeps DEF Synced

LEMMA RequestCredits ==
  ASSUME RunInv, MissionRowsOK, AgentInv, CreditInv, NEW request \in starting, Starting(request)
  PROVE  CreditInv'
<1>0. request.run \in Runs /\ request.mission \in Missions
  BY DEF MissionRowsOK
<1>1. CASE LinkCandidate(request)
  <2>1. StepsTold /\ UNCHANGED <<unsynced, dropped, newest>>
    BY <1>1 DEF LinkCandidate, agentVars, StepsTold, Kept
  <2>2. MoveOn(request, "linked")
    BY <1>1 DEF LinkCandidate
  <2>3. \A r \in Runs : Owed(r) => Owed(r)'
    BY <2>1, <2>2, StillOwed
  <2>4. link \subseteq link' /\ \A l \in link' \ link : l.entity.type # "result"
    BY <1>1 DEF LinkCandidate, Linked, CandidateOf
  <2> QED
    BY <2>1, <2>3, <2>4, CreditKeeps
<1>2. CASE RunAgent(request)
  <2>1. StepsTold /\ UNCHANGED <<unsynced, dropped, newest, link>>
    BY <1>0, <1>2, StartTells DEF RunAgent
  <2>2. UNCHANGED starting \/ MoveOn(request, "ran")
    BY <1>2 DEF RunAgent
  <2>3. \A r \in Runs : Owed(r) => Owed(r)'
    BY <2>1, <2>2, StillOwed DEF Owed
  <2> QED
    BY <2>1, <2>3, CreditStays
<1>3. CASE LinkRun(request)
  <2>1. StepsTold /\ UNCHANGED <<unsynced, dropped>>
    BY <1>3 DEF LinkRun, agentVars, StepsTold, Kept
  <2>2. MoveOn(request, "run linked")
    BY <1>3 DEF LinkRun
  <2>3. \A r \in Runs : r = request.run \/ Owed(r) => Owed(r)'
    BY <2>1, <2>2, StillOwed
  <2>4. link' = link \cup {[mission |-> request.mission, entity |-> RunItself(request.run)]}
    BY <1>3 DEF LinkRun, Linked
  <2>5. \A l \in link' \ link : l.entity.type # "result"
    BY <2>4 DEF RunItself
  <2>6. RunItself(request.run) \in Links(request.mission)'
    <3> DEFINE new == [mission |-> request.mission, entity |-> RunItself(request.run)]
    <3>1. new \in link' /\ new.mission = request.mission /\ new.entity = RunItself(request.run)
      BY <2>4
    <3> HIDE DEF new
    <3> QED
      BY <3>1 DEF Links
  <2>7. \A r \in Runs : \/ newest'[r] = newest[r]
                        \/ Owed(r)' /\ \A m \in newest'[r] : RunItself(r) \in Links(m)'
    <3>1. newest' = newest \/ newest' = [newest EXCEPT ![request.run] = {request.mission}]
      BY <1>3 DEF LinkRun
    <3> QED
      BY <1>0, <2>3, <2>6, <3>1 DEF MissionRowsOK
  <2> QED
    BY <2>1, <2>3, <2>4, <2>5, <2>7, CreditKeeps
<1>4. CASE LinkResults(request)
  <2>1. StepsTold /\ UNCHANGED <<unsynced, dropped, newest>> /\ link' = Synced(request.run)
        /\ starting' = starting \ {request}
    BY <1>4 DEF LinkResults, agentVars, StepsTold, Kept, MoveOn
  <2>2. \A r \in Runs \ {request.run} : Owed(r) => Owed(r)'
    BY <2>1 DEF Owed
  <2> QED
    BY <1>0, <2>1, <2>2, SyncedCredits
<1>5. CASE StarterDies(request)
  <2>1. StepsTold /\ UNCHANGED <<unsynced, newest, link>> /\ dropped' = dropped \cup {request.run}
        /\ starting' = starting \ {request}
    BY <1>5 DEF StarterDies, agentVars, StepsTold, Kept, MoveOn
  <2>2. \A r \in Runs : Owed(r) => Owed(r)'
    BY <2>1 DEF Owed
  <2> QED
    BY <2>1, <2>2, CreditStays
<1> QED
  BY <1>1, <1>2, <1>3, <1>4, <1>5 DEF Starting

LEMMA CreditInvKeeps ==
  MissionInv /\ RunInv /\ Reviewers /\ AgentInv /\ CreditInv /\ [GrowthNext]_growthVars => CreditInv'
<1> SUFFICES ASSUME MissionInv, RunInv, Reviewers, AgentInv, CreditInv, [GrowthNext]_growthVars
    PROVE  CreditInv'
  OBVIOUS
<1>0. MissionRowsOK
  BY DEF MissionInv
<1>1. ASSUME UNCHANGED <<run, unsynced, link, newest, dropped>>, starting \subseteq starting'
      PROVE  CreditInv'
  <2>1. StepsTold
    BY <1>1 DEF StepsTold, Kept
  <2>2. \A r \in Runs : Owed(r) => Owed(r)'
    BY <1>1 DEF Owed
  <2> QED
    BY <1>0, <1>1, <2>1, <2>2, CreditStays
<1>2. CASE UNCHANGED growthVars
  BY <1>1, <1>2 DEF growthVars, agentVars, missionVars
<1>3. CASE (OutreachNext \/ WeekPasses) /\ UNCHANGED <<agentVars, missionVars>>
  BY <1>1, <1>3 DEF agentVars, missionVars
<1>4. CASE AgentsNext /\ UNCHANGED missionVars
  <2>1. StepsTold /\ unsynced \subseteq unsynced' /\ UNCHANGED <<link, newest, starting, dropped>>
    BY <1>4, AgentsTell DEF missionVars
  <2>2. \A r \in Runs : Owed(r) => Owed(r)'
    BY <2>1 DEF Owed
  <2> QED
    BY <1>0, <2>1, <2>2, CreditStays
<1>5. CASE LifeStep
  BY <1>1, <1>5 DEF LifeStep, CreateMission, EditMission, ChangeStatus, GeneratePlan, ApprovePlan, Only,
                    agentVars
<1>6. ASSUME NEW m \in Missions, NEW r \in Runs, BeginStart(m, r) \/ StartForMission(m, r)
      PROVE  CreditInv'
  BY <1>1, <1>6 DEF BeginStart, StartForMission, Only, agentVars
<1>11. ASSUME NEW m \in Missions, LinkPublication(m)
       PROVE  CreditInv'
  <2>1. UNCHANGED <<run, unsynced, newest, starting, dropped>>
    BY <1>11 DEF LinkPublication, Only, agentVars
  <2>2. link \subseteq link' /\ \A l \in link' \ link : l.entity.type # "result"
    BY <1>11 DEF LinkPublication, Linked
  <2>3. StepsTold /\ \A r \in Runs : Owed(r) => Owed(r)'
    BY <2>1 DEF StepsTold, Kept, Owed
  <2> QED
    BY <1>0, <2>1, <2>2, <2>3, CreditKeeps
<1>7. ASSUME NEW request \in starting, Starting(request)
      PROVE  CreditInv'
  BY <1>0, <1>7, RequestCredits
<1>8. ASSUME NEW r \in Runs, SyncResults(r)
      PROVE  CreditInv'
  <2>1. UNCHANGED <<run, newest, starting, dropped>> /\ unsynced' = unsynced \ {r} /\ link' = Synced(r)
    BY <1>8 DEF SyncResults
  <2>2. StepsTold
    BY <2>1 DEF StepsTold, Kept
  <2>3. \A q \in Runs \ {r} : Owed(q) => Owed(q)'
    BY <2>1 DEF Owed
  <2> QED
    BY <1>0, <2>1, <2>2, <2>3, SyncedCredits
<1>9. ASSUME NEW r \in Runs, ApproverDies(r)
      PROVE  CreditInv'
  <2>1. /\ UNCHANGED <<run, link, newest, starting>>
        /\ unsynced' = unsynced \ {r} /\ dropped' = dropped \cup {r}
    BY <1>9 DEF ApproverDies
  <2>2. StepsTold
    BY <2>1 DEF StepsTold, Kept
  <2>3. \A q \in Runs : Owed(q) => Owed(q)'
    BY <2>1 DEF Owed
  <2> QED
    BY <1>0, <2>1, <2>2, <2>3, CreditStays
<1>10. CASE StartsStep
  BY <1>10, <1>6, <1>7, <1>8, <1>9, <1>11 DEF StartsStep
<1> QED
  BY <1>2, <1>3, <1>4, <1>5, <1>10, GrowthSteps DEF MissionsNext

(* What is credited to a mission was done by a run linked to it, and a recorded mail of *)
(* a linked run is credited unless a page is still to do it or died                     *)
(* (CreditFollowsTheRun: mission_attribution.py), for every number of missions, runs    *)
(* and requests under way.                                                              *)
THEOREM CreditAlwaysFollowsTheRun == GrowthSpec => []CreditFollowsTheRun
<1>1. OutreachInit /\ AgentsInit /\ MissionsInit => CreditInv
  <2> SUFFICES ASSUME AgentsInit, MissionsInit PROVE CreditInv
    OBVIOUS
  <2>1. link = {} /\ \A r \in Runs : newest[r] = {}
    BY DEF MissionsInit
  <2>2. \A m \in Missions : Links(m) = {}
    BY <2>1 DEF Links
  <2> QED
    BY <2>1, <2>2 DEF CreditInv
<1>2. CreditInv => CreditFollowsTheRun
  <2> SUFFICES ASSUME CreditInv PROVE CreditFollowsTheRun
    OBVIOUS
  <2>1. ASSUME NEW r \in Runs, NEW i \in DOMAIN run[r].steps, SentMail(run[r].steps[i]), newest[r] # {}
        PROVE  Owed(r) \/ \E m \in Missions : ResultOf(r, i) \in CreditedMails(m)
    <3>1. CASE \E m \in Missions : ResultOf(r, i) \in Links(m)
      <4>1. ResultOf(r, i).type = "result" /\ ResultOf(r, i).run = r /\ ResultOf(r, i).step = i
        BY DEF ResultOf
      <4>2. run[r].steps[i].action.tool = "send_email"
        BY <2>1 DEF SentMail
      <4> QED
        BY <3>1, <4>1, <4>2 DEF CreditedMails
    <3> QED
      BY <2>1, <3>1 DEF CreditInv
  <2>2. \A m \in Missions : \A e \in Links(m) : e.type = "result" => RunItself(e.run) \in Links(m)
    BY DEF CreditInv
  <2>3. \A r \in Runs : Owed(r) <=> \/ r \in unsynced \cup dropped
                                    \/ \E request \in starting : request.run = r
    BY DEF Owed
  <2> QED
    BY <2>1, <2>2, <2>3 DEF CreditFollowsTheRun, SentMail
<1> QED
  BY <1>1, <1>2, CreditInvKeeps, AgentsSafe, RunsSafe, MissionsSafe, PTL DEF GrowthSpec, growthVars

-----------------------------------------------------------------------------
(* Types of the companies' rows *)

CandidateStatuses == {"PENDING_REVIEW", "ACCEPTED", "DISMISSED"}
FollowUpStages == {"none", "QUALIFIED", "EMAIL_1_SENT"}

\* A reactivation has a draft from DRAFTED on.
Paired(w) ==
  \A c \in Companies : (w.reactivation[c].draft # 0) = (w.reactivation[c].status \in {"DRAFTED", "APPROVED"})

LEMMA RowFields ==
  ASSUME NEW w \in Crm
  PROVE  /\ w.candidate \in [Discovered -> CandidateStatuses] /\ w.snapshot \in [Discovered -> Snapshot]
         /\ w.accounts \in SUBSET Companies /\ w.stage \in [Companies -> FollowUpStages]
         /\ w.drafts \in Seq(Draft) /\ w.messages \in Seq(Message)
         /\ w.reactivation \in [Companies -> Reactivation] /\ w.reviews \in Seq(Review)
BY DEF Crm, CandidateStatuses, FollowUpStages

LEMMA RowsWritten ==
  ASSUME NEW w \in Crm
  PROVE  /\ \A x \in [Discovered -> CandidateStatuses] : [w EXCEPT !.candidate = x] \in Crm
         /\ \A x \in [Discovered -> Snapshot] : [w EXCEPT !.snapshot = x] \in Crm
         /\ \A x \in SUBSET Companies : [w EXCEPT !.accounts = x] \in Crm
         /\ \A x \in [Companies -> FollowUpStages] : [w EXCEPT !.stage = x] \in Crm
         /\ \A x \in Seq(Draft) : [w EXCEPT !.drafts = x] \in Crm
         /\ \A x \in Seq(Message) : [w EXCEPT !.messages = x] \in Crm
         /\ \A x \in [Companies -> Reactivation] : [w EXCEPT !.reactivation = x] \in Crm
         /\ \A x \in Seq(Review) : [w EXCEPT !.reviews = x] \in Crm
<1> DEFINE D == Seq(Draft)
           M == Seq(Message)
           R1 == Seq(Review)
           A == [Companies -> Reactivation]
           N == [Discovered -> Snapshot]
<1>1. Crm = [candidate: [Discovered -> CandidateStatuses], snapshot: N, accounts: SUBSET Companies,
             stage: [Companies -> FollowUpStages], drafts: D, messages: M, reactivation: A, reviews: R1]
  BY DEF Crm, CandidateStatuses, FollowUpStages
<1> HIDE DEF D, M, R1, A, N
<1>2. /\ \A x \in [Discovered -> CandidateStatuses] : [w EXCEPT !.candidate = x] \in Crm
      /\ \A x \in N : [w EXCEPT !.snapshot = x] \in Crm
      /\ \A x \in SUBSET Companies : [w EXCEPT !.accounts = x] \in Crm
      /\ \A x \in [Companies -> FollowUpStages] : [w EXCEPT !.stage = x] \in Crm
  BY <1>1
<1>3. /\ \A x \in D : [w EXCEPT !.drafts = x] \in Crm
      /\ \A x \in M : [w EXCEPT !.messages = x] \in Crm
      /\ \A x \in A : [w EXCEPT !.reactivation = x] \in Crm
      /\ \A x \in R1 : [w EXCEPT !.reviews = x] \in Crm
  BY <1>1
<1> QED
  BY <1>2, <1>3 DEF D, M, R1, A, N

LEMMA ElementWritten ==
  ASSUME NEW S, NEW s \in Seq(S), NEW i, NEW x, i \in DOMAIN s => x \in S
  PROVE  /\ [s EXCEPT ![i] = x] \in Seq(S) /\ Len([s EXCEPT ![i] = x]) = Len(s)
<1> DEFINE t == [s EXCEPT ![i] = x]
<1>1. DOMAIN s = 1..Len(s) /\ Len(s) \in Nat /\ s \in [1..Len(s) -> S]
  OBVIOUS
<1>2. t \in [1..Len(s) -> S]
  BY <1>1
<1> HIDE DEF t
<1>3. t \in Seq(S)
  BY <1>1, <1>2, SeqDef
<1>4. Len(t) = Len(s)
  BY <1>1, <1>2, <1>3, LenProperties
<1> QED
  BY <1>3, <1>4 DEF t

TypedRows(w) == w \in Crm /\ Paired(w)

\* What the operations of agents and pages do to them.
LEMMA CandidateOps ==
  ASSUME NEW w, TypedRows(w), NEW c \in Discovered
  PROVE  /\ \A status \in {"ACCEPTED", "DISMISSED"} :
              TypedRows(Reviewed(w, c, status)) /\ Reviewed(w, c, status).drafts = w.drafts
         /\ TypedRows(Enriched(w, c)) /\ Enriched(w, c).drafts = w.drafts
         /\ \A has \in BOOLEAN : TypedRows(WebsiteRead(w, c, has)) /\ WebsiteRead(w, c, has).drafts = w.drafts
<1>1. w \in Crm
  BY DEF TypedRows
<1>2. /\ w.candidate \in [Discovered -> CandidateStatuses] /\ w.snapshot \in [Discovered -> Snapshot]
  BY <1>1, RowFields
<1>3. ASSUME NEW status \in {"ACCEPTED", "DISMISSED"}
      PROVE  TypedRows(Reviewed(w, c, status)) /\ Reviewed(w, c, status).drafts = w.drafts
  <2> DEFINE x == [w.candidate EXCEPT ![c] = status]
  <2>1. x \in [Discovered -> CandidateStatuses]
    BY <1>2 DEF CandidateStatuses
  <2>2. Reviewed(w, c, status) = [w EXCEPT !.candidate = x]
    BY DEF Reviewed
  <2> HIDE DEF x
  <2>3. [w EXCEPT !.candidate = x] \in Crm
    BY <1>1, <2>1, RowsWritten
  <2>4. [w EXCEPT !.candidate = x].reactivation = w.reactivation /\ [w EXCEPT !.candidate = x].drafts = w.drafts
    OBVIOUS
  <2> QED
    BY <2>2, <2>3, <2>4 DEF TypedRows, Paired
<1>4. ASSUME NEW row \in Snapshot
      PROVE  LET v == [w EXCEPT !.snapshot[c] = row] IN TypedRows(v) /\ v.drafts = w.drafts
  <2> DEFINE x == [w.snapshot EXCEPT ![c] = row]
  <2>1. x \in [Discovered -> Snapshot]
    BY <1>2
  <2>2. [w EXCEPT !.snapshot[c] = row] = [w EXCEPT !.snapshot = x]
    OBVIOUS
  <2> HIDE DEF x
  <2>3. [w EXCEPT !.snapshot = x] \in Crm
    BY <1>1, <2>1, RowsWritten
  <2>4. [w EXCEPT !.snapshot = x].reactivation = w.reactivation /\ [w EXCEPT !.snapshot = x].drafts = w.drafts
    OBVIOUS
  <2> QED
    BY <2>2, <2>3, <2>4 DEF TypedRows, Paired
<1>5. TypedRows(Enriched(w, c)) /\ Enriched(w, c).drafts = w.drafts
  <2>1. [mode |-> "IMPORTED_FACTS_REVIEW", email |-> FALSE] \in Snapshot
    BY DEF Snapshot
  <2> QED
    BY <1>4, <2>1 DEF Enriched
<1>6. ASSUME NEW has \in BOOLEAN
      PROVE  TypedRows(WebsiteRead(w, c, has)) /\ WebsiteRead(w, c, has).drafts = w.drafts
  <2>1. [mode |-> "WEBSITE_PUBLIC", email |-> has] \in Snapshot
    BY DEF Snapshot
  <2> QED
    BY <1>4, <2>1 DEF WebsiteRead
<1> QED
  BY <1>3, <1>5, <1>6

LEMMA FollowUpOps ==
  ASSUME NEW w, TypedRows(w), NEW c \in Companies
  PROVE  /\ TypedRows(FollowUpAdded(w, c)) /\ FollowUpAdded(w, c).drafts = w.drafts
         /\ TypedRows(AddedToFollowUp(w, c)) /\ AddedToFollowUp(w, c).drafts = w.drafts
<1>1. ASSUME NEW v, TypedRows(v)
      PROVE  TypedRows(FollowUpAdded(v, c)) /\ FollowUpAdded(v, c).drafts = v.drafts
  <2> DEFINE x == [v.stage EXCEPT ![c] = "QUALIFIED"]
  <2>0. v \in Crm
    BY <1>1 DEF TypedRows
  <2>1. x \in [Companies -> FollowUpStages]
    <3>1. v.stage \in [Companies -> FollowUpStages]
      BY <2>0, RowFields
    <3> QED
      BY <3>1 DEF FollowUpStages
  <2>2. FollowUpAdded(v, c) = v \/ FollowUpAdded(v, c) = [v EXCEPT !.stage = x]
    BY DEF FollowUpAdded
  <2> HIDE DEF x
  <2>3. [v EXCEPT !.stage = x] \in Crm
    BY <2>0, <2>1, RowsWritten
  <2>4. [v EXCEPT !.stage = x].reactivation = v.reactivation /\ [v EXCEPT !.stage = x].drafts = v.drafts
    OBVIOUS
  <2> QED
    BY <1>1, <2>2, <2>3, <2>4 DEF TypedRows, Paired
<1> DEFINE v == FollowUpAdded(w, c)
           x == v.accounts \cup {c}
<1>2. TypedRows(v) /\ v.drafts = w.drafts
  BY <1>1
<1>3. AddedToFollowUp(w, c) = [v EXCEPT !.accounts = x]
  BY DEF AddedToFollowUp
<1> HIDE DEF v
<1>4. x \in SUBSET Companies
  BY <1>2, RowFields DEF TypedRows
<1> HIDE DEF x
<1>5. [v EXCEPT !.accounts = x] \in Crm
  BY <1>2, <1>4, RowsWritten DEF TypedRows
<1>6. [v EXCEPT !.accounts = x].reactivation = v.reactivation /\ [v EXCEPT !.accounts = x].drafts = v.drafts
  OBVIOUS
<1>7. TypedRows(AddedToFollowUp(w, c)) /\ AddedToFollowUp(w, c).drafts = w.drafts
  BY <1>2, <1>3, <1>5, <1>6 DEF TypedRows, Paired
<1> QED
  BY <1>1, <1>7

LEMMA DraftOps ==
  ASSUME NEW w, TypedRows(w), NEW c \in Companies
  PROVE  /\ \A origin \in {"outreach", "reactivation"} :
              TypedRows(NewDraft(w, c, origin)) /\ Len(NewDraft(w, c, origin).drafts) = Len(w.drafts) + 1
         /\ TypedRows(Drafted(w, c)) /\ Len(Drafted(w, c).drafts) <= Len(w.drafts) + 1
         /\ \A d : TypedRows(DraftApproved(w, d)) /\ Len(DraftApproved(w, d).drafts) = Len(w.drafts)
<1>0. w \in Crm /\ w.drafts \in Seq(Draft) /\ Len(w.drafts) \in Nat
  BY RowFields DEF TypedRows
<1>1. ASSUME NEW x \in Seq(Draft)
      PROVE  TypedRows([w EXCEPT !.drafts = x]) /\ [w EXCEPT !.drafts = x].drafts = x
  <2>1. [w EXCEPT !.drafts = x] \in Crm
    BY <1>0, RowsWritten
  <2>2. w = [w EXCEPT !.drafts = w.drafts] /\ "drafts" \in DOMAIN w
    BY <1>0 DEF Crm
  <2>3. [w EXCEPT !.drafts = x].reactivation = w.reactivation /\ [w EXCEPT !.drafts = x].drafts = x
    BY <2>2
  <2> QED
    BY <2>1, <2>3 DEF TypedRows, Paired
<1>2. ASSUME NEW origin \in {"outreach", "reactivation"}
      PROVE  TypedRows(NewDraft(w, c, origin)) /\ Len(NewDraft(w, c, origin).drafts) = Len(w.drafts) + 1
  <2> DEFINE row == [company |-> c, origin |-> origin, status |-> "DRAFT"]
             x == Append(w.drafts, row)
  <2>1. row \in Draft
    BY DEF Draft
  <2>2. NewDraft(w, c, origin) = [w EXCEPT !.drafts = x]
    BY DEF NewDraft
  <2> HIDE DEF row
  <2>3. x \in Seq(Draft) /\ Len(x) = Len(w.drafts) + 1
    BY <1>0, <2>1
  <2> HIDE DEF x
  <2> QED
    BY <1>1, <2>2, <2>3
<1>3. TypedRows(Drafted(w, c)) /\ Len(Drafted(w, c).drafts) <= Len(w.drafts) + 1
  BY <1>0, <1>2 DEF Drafted
<1>4. ASSUME NEW d
      PROVE  TypedRows(DraftApproved(w, d)) /\ Len(DraftApproved(w, d).drafts) = Len(w.drafts)
  <2> DEFINE row == [w.drafts[d] EXCEPT !.status = "APPROVED"]
             x == [w.drafts EXCEPT ![d] = row]
  <2>1. d \in DOMAIN w.drafts => row \in Draft
    <3>1. d \in DOMAIN w.drafts => w.drafts[d] \in Draft
      BY <1>0
    <3> QED
      BY <3>1 DEF Draft
  <2>2. DraftApproved(w, d) = [w EXCEPT !.drafts = x]
    BY DEF DraftApproved
  <2> HIDE DEF row
  <2>3. x \in Seq(Draft) /\ Len(x) = Len(w.drafts)
    BY <1>0, <2>1, ElementWritten
  <2> HIDE DEF x
  <2> QED
    BY <1>1, <2>2, <2>3
<1> QED
  BY <1>2, <1>3, <1>4

\* Every page keeps the companies' rows in order, and no page writes a message.
LEMMA CommitKeepsTypes ==
  ASSUME OutreachTypeOK, NEW w, TypedRows(w), Len(w.drafts) <= MaxDrafts, w.messages = crm.messages, Commit(w)
  PROVE  OutreachTypeOK' /\ UNCHANGED mails
BY DEF OutreachTypeOK, TypedRows, Paired, Commit

LEMMA ReactivationWritten ==
  ASSUME NEW w \in Crm, Paired(w), NEW c \in Companies, NEW row \in Reactivation,
         (row.draft # 0) = (row.status \in {"DRAFTED", "APPROVED"})
  PROVE  LET v == [w EXCEPT !.reactivation[c] = row] IN
         TypedRows(v) /\ v.drafts = w.drafts /\ v.messages = w.messages
<1> DEFINE x == [w.reactivation EXCEPT ![c] = row]
           v == [w EXCEPT !.reactivation = x]
<1>1. w.reactivation \in [Companies -> Reactivation] /\ "reactivation" \in DOMAIN w
  BY RowFields DEF Crm
<1>2. x \in [Companies -> Reactivation] /\ \A d \in Companies : x[d] = IF d = c THEN row ELSE w.reactivation[d]
  BY <1>1
<1> HIDE DEF x
<1>3. v \in Crm
  BY <1>2, RowsWritten
<1>4. v.reactivation = x /\ v.drafts = w.drafts /\ v.messages = w.messages
  BY <1>1
<1> HIDE DEF v
<1>5. TypedRows(v)
  BY <1>2, <1>3, <1>4 DEF TypedRows, Paired
<1> QED
  BY <1>4, <1>5 DEF v, x

LEMMA ReviewsWritten ==
  ASSUME NEW w, TypedRows(w), NEW x \in Seq(Review)
  PROVE  LET v == [w EXCEPT !.reviews = x] IN
         TypedRows(v) /\ v.drafts = w.drafts /\ v.messages = w.messages
<1>1. [w EXCEPT !.reviews = x] \in Crm
  BY RowsWritten DEF TypedRows
<1>2. LET v == [w EXCEPT !.reviews = x] IN
      v.reactivation = w.reactivation /\ v.drafts = w.drafts /\ v.messages = w.messages
  OBVIOUS
<1> QED
  BY <1>1, <1>2 DEF TypedRows, Paired

LEMMA PagesKeepTypes ==
  ASSUME OutreachTypeOK, "messages" \in DOMAIN crm, OutreachNext
  PROVE  OutreachTypeOK' /\ UNCHANGED mails /\ crm'.messages = crm.messages
<1>0. TypedRows(crm) /\ crm \in Crm /\ Len(crm.drafts) <= MaxDrafts /\ Len(crm.drafts) \in Nat /\ MaxDrafts \in Nat
  <2>1. TypedRows(crm) /\ crm \in Crm
    BY DEF OutreachTypeOK, TypedRows, Paired
  <2> QED
    BY <2>1, RowFields, RowBoundsAssumption DEF OutreachTypeOK
<1> DEFINE Fine(w) == TypedRows(w) /\ Len(w.drafts) <= MaxDrafts /\ w.messages = crm.messages
<1>1. ASSUME NEW w, Fine(w), Commit(w)
      PROVE  OutreachTypeOK' /\ UNCHANGED mails /\ crm'.messages = crm.messages
  BY <1>1, CommitKeepsTypes DEF Commit
<1>2. \A w, c : /\ Enriched(crm, c).messages = crm.messages /\ Drafted(crm, c).messages = crm.messages
                /\ \A has : WebsiteRead(crm, c, has).messages = crm.messages
                /\ \A status : Reviewed(crm, c, status).messages = crm.messages
                /\ \A origin : NewDraft(crm, c, origin).messages = crm.messages
                /\ \A d : DraftApproved(crm, d).messages = crm.messages
  BY DEF Enriched, Drafted, NewDraft, WebsiteRead, Reviewed, DraftApproved
<1>3. \A c : /\ FollowUpAdded(crm, c).messages = crm.messages
             /\ AddedToFollowUp(crm, c).messages = crm.messages
  BY DEF FollowUpAdded, AddedToFollowUp
<1>4. ASSUME NEW c \in Discovered, CandidatePage(c)
      PROVE  OutreachTypeOK' /\ UNCHANGED mails /\ crm'.messages = crm.messages
  <2> c \in Companies
    BY CompaniesAssumption
  <2>1. CASE ReviewCandidate(c)
    <3>1. PICK status \in {"ACCEPTED", "DISMISSED"} : Commit(Reviewed(crm, c, status))
      BY <2>1 DEF ReviewCandidate
    <3>2. Fine(Reviewed(crm, c, status))
      BY <1>0, <1>2, CandidateOps
    <3> QED
      BY <1>1, <3>1, <3>2
  <2>2. CASE PrepareEnrichment(c)
    <3>1. Fine(Enriched(crm, c))
      BY <1>0, <1>2, CandidateOps
    <3> QED
      BY <1>1, <2>2, <3>1 DEF PrepareEnrichment
  <2>3. CASE ReadWebsite(c)
    <3>1. PICK has \in BOOLEAN : Commit(WebsiteRead(crm, c, has))
      BY <2>3 DEF ReadWebsite
    <3>2. Fine(WebsiteRead(crm, c, has))
      BY <1>0, <1>2, CandidateOps
    <3> QED
      BY <1>1, <3>1, <3>2
  <2>4. CASE FollowUpCandidate(c)
    <3>1. Fine(AddedToFollowUp(crm, c))
      BY <1>0, <1>3, FollowUpOps
    <3> QED
      BY <1>1, <2>4, <3>1 DEF FollowUpCandidate
  <2> QED
    BY <1>4, <2>1, <2>2, <2>3, <2>4 DEF CandidatePage
<1>5. ASSUME NEW c \in Companies, DraftPage(c)
      PROVE  OutreachTypeOK' /\ UNCHANGED mails /\ crm'.messages = crm.messages
  <2>0. crm.reactivation \in [Companies -> Reactivation] /\ crm.reactivation[c] \in Reactivation
        /\ (crm.reactivation[c].draft # 0) = (crm.reactivation[c].status \in {"DRAFTED", "APPROVED"})
    <3>1. crm.reactivation \in [Companies -> Reactivation]
      BY <1>0, RowFields
    <3> QED
      BY <1>0, <3>1 DEF TypedRows, Paired
  <2>1. CASE WriteDraft(c)
    <3>1. Fine(Drafted(crm, c))
      <4>1. TypedRows(Drafted(crm, c)) /\ Len(Drafted(crm, c).drafts) <= Len(crm.drafts) + 1
        BY <1>0, DraftOps
      <4>2. Drafted(crm, c).drafts \in Seq(Draft)
        BY <4>1, RowFields DEF TypedRows
      <4>3. Len(Drafted(crm, c).drafts) \in Nat
        BY <4>2
      <4> QED
        BY <1>0, <1>2, <2>1, <4>1, <4>3 DEF WriteDraft
    <3> QED
      BY <1>1, <2>1, <3>1 DEF WriteDraft
  <2>2. CASE SelectForReactivation(c)
    <3> DEFINE old == crm.reactivation[c]
               row == [old EXCEPT !.tier = Evidence[c].tier, !.status = IF @ = "none" THEN "SELECTED" ELSE @]
    <3>1. Evidence[c].tier \in Tiers
      BY EvidenceAssumption
    <3>2. row \in Reactivation /\ (row.draft # 0) = (row.status \in {"DRAFTED", "APPROVED"})
      <4>1. old \in Reactivation /\ (old.draft # 0) = (old.status \in {"DRAFTED", "APPROVED"})
        BY <2>0
      <4> HIDE DEF old
      <4>2. row \in Reactivation
        BY <3>1, <4>1 DEF Reactivation
      <4>3. row.draft = old.draft /\ row.status = (IF old.status = "none" THEN "SELECTED" ELSE old.status)
        BY <4>1 DEF Reactivation
      <4> QED
        BY <4>1, <4>2, <4>3
    <3>3. Commit([crm EXCEPT !.reactivation[c] = row])
      <4>1. Commit([crm EXCEPT !.reactivation[c].tier = Evidence[c].tier,
                               !.reactivation[c].status = IF @ = "none" THEN "SELECTED" ELSE @])
        BY <2>2 DEF SelectForReactivation
      <4>2. [crm EXCEPT !.reactivation[c].tier = Evidence[c].tier,
                        !.reactivation[c].status = IF @ = "none" THEN "SELECTED" ELSE @]
              = [crm EXCEPT !.reactivation[c] = row]
        BY <2>0
      <4> QED
        BY <4>1, <4>2
    <3> HIDE DEF row
    <3>4. Fine([crm EXCEPT !.reactivation[c] = row])
      BY <1>0, <3>2, ReactivationWritten DEF TypedRows
    <3> QED
      BY <1>1, <3>3, <3>4
  <2>3. CASE DraftReactivation(c)
    <3> DEFINE w == NewDraft(crm, c, "reactivation")
               old == w.reactivation[c]
               row == [old EXCEPT !.draft = Len(w.drafts), !.status = "DRAFTED"]
    <3>1. TypedRows(w) /\ Len(w.drafts) = Len(crm.drafts) + 1 /\ w.messages = crm.messages
      BY <1>0, <1>2, DraftOps
    <3>2. Len(crm.drafts) < MaxDrafts
          /\ Commit([w EXCEPT !.reactivation[c].draft = Len(w.drafts), !.reactivation[c].status = "DRAFTED"])
      BY <2>3 DEF DraftReactivation
    <3> HIDE DEF w
    <3>3. w.reactivation \in [Companies -> Reactivation] /\ old \in Reactivation
      BY <3>1, RowFields DEF TypedRows
    <3>4. Len(w.drafts) \in 0..MaxDrafts /\ Len(w.drafts) # 0 /\ Len(w.drafts) <= MaxDrafts
      BY <1>0, <3>1, <3>2
    <3>5. row \in Reactivation /\ row.draft # 0 /\ row.status = "DRAFTED"
      <4> HIDE DEF old
      <4> QED
        BY <3>3, <3>4 DEF Reactivation
    <3>6. [w EXCEPT !.reactivation[c].draft = Len(w.drafts), !.reactivation[c].status = "DRAFTED"]
            = [w EXCEPT !.reactivation[c] = row]
      BY <3>3
    <3> HIDE DEF row
    <3>7. Fine([w EXCEPT !.reactivation[c] = row])
      BY <3>1, <3>4, <3>5, ReactivationWritten DEF TypedRows
    <3> QED
      BY <1>1, <3>2, <3>6, <3>7
  <2>4. CASE ApproveReactivation(c)
    <3> DEFINE d == crm.reactivation[c].draft
               w == DraftApproved(crm, d)
               old == w.reactivation[c]
               row == [old EXCEPT !.status = "APPROVED"]
    <3>1. TypedRows(w) /\ Len(w.drafts) = Len(crm.drafts) /\ w.messages = crm.messages
      BY <1>0, <1>2, DraftOps
    <3>2. d # 0 /\ Commit([w EXCEPT !.reactivation[c].status = "APPROVED"])
      BY <2>4 DEF ApproveReactivation
    <3>3. w.reactivation = crm.reactivation
      BY DEF DraftApproved
    <3>4. old \in Reactivation /\ old.draft = d
      BY <2>0, <3>3
    <3> HIDE DEF w
    <3>5. row \in Reactivation /\ row.draft = d /\ row.status = "APPROVED"
      <4> HIDE DEF old, d
      <4> QED
        BY <3>4 DEF Reactivation
    <3>6. [w EXCEPT !.reactivation[c].status = "APPROVED"] = [w EXCEPT !.reactivation[c] = row]
      OBVIOUS
    <3> HIDE DEF row, d
    <3>7. Fine([w EXCEPT !.reactivation[c] = row])
      BY <1>0, <3>1, <3>2, <3>5, ReactivationWritten DEF TypedRows
    <3> QED
      BY <1>1, <3>2, <3>6, <3>7
  <2> QED
    BY <1>5, <2>1, <2>2, <2>3, <2>4 DEF DraftPage
<1>6. ASSUME NEW c \in Companies, CustomerPage(c)
      PROVE  OutreachTypeOK' /\ UNCHANGED mails /\ crm'.messages = crm.messages
  <2>0. crm.reviews \in Seq(Review)
    BY <1>0, RowFields
  <2>1. CASE FollowUp(c)
    <3>1. Fine(FollowUpAdded(crm, c))
      BY <1>0, <1>3, FollowUpOps
    <3> QED
      BY <1>1, <2>1, <3>1 DEF FollowUp
  <2>2. CASE ReviewOpportunity(c)
    <3>1. PICK decision \in {"PRIORITIZE", "OBSERVE", "PROCESSED"} :
            Commit([crm EXCEPT !.reviews = Append(@, [company |-> c, decision |-> decision, handoff |-> 0])])
      BY <2>2 DEF ReviewOpportunity
    <3> DEFINE row == [company |-> c, decision |-> decision, handoff |-> 0]
               x == Append(crm.reviews, row)
    <3>2. row \in Review
      BY <1>0 DEF Review
    <3>3. Commit([crm EXCEPT !.reviews = x])
      BY <3>1
    <3> HIDE DEF row
    <3>4. x \in Seq(Review)
      BY <2>0, <3>2
    <3> HIDE DEF x
    <3>5. Fine([crm EXCEPT !.reviews = x])
      BY <1>0, <3>4, ReviewsWritten
    <3> QED
      BY <1>1, <3>3, <3>5
  <2>3. CASE HandOff(c)
    <3>1. PICK i \in {i \in DOMAIN crm.reviews : crm.reviews[i].company = c}, d \in DraftsOf(crm, c) :
            Commit([DraftApproved(crm, d) EXCEPT !.reviews[i].handoff = IF @ = 0 THEN d ELSE @])
      <4> DEFINE of == {i \in DOMAIN crm.reviews : crm.reviews[i].company = c}
                 i == CHOOSE i \in of : \A j \in of : j <= i
      <4>0. of # {}
        BY <2>3 DEF HandOff
      <4>1. of # {} /\ of \subseteq 1..Len(crm.reviews) /\ Len(crm.reviews) \in Nat
        BY <2>0, <4>0
      <4>2. \E k \in of : \A j \in of : k >= j
        <5> HIDE DEF of
        <5> QED
          BY <4>1, LargestExists
      <4>3. i \in of
        BY <4>2
      <4>4. PICK d \in DraftsOf(crm, c) :
              Commit([DraftApproved(crm, d) EXCEPT !.reviews[i].handoff = IF @ = 0 THEN d ELSE @])
        BY <2>3 DEF HandOff
      <4> HIDE DEF i
      <4> QED
        BY <4>3, <4>4
    <3> DEFINE w == DraftApproved(crm, d)
               row == [crm.reviews[i] EXCEPT !.handoff = IF @ = 0 THEN d ELSE @]
               x == [crm.reviews EXCEPT ![i] = row]
    <3>2. TypedRows(w) /\ Len(w.drafts) = Len(crm.drafts) /\ w.messages = crm.messages
      BY <1>0, <1>2, DraftOps
    <3>3. d \in 1..MaxDrafts
      <4>1. crm.drafts \in Seq(Draft)
        BY <1>0, RowFields
      <4> QED
        BY <1>0, <4>1 DEF DraftsOf
    <3>4. x \in Seq(Review)
      <4>1. crm.reviews[i] \in Review
        BY <2>0
      <4>2. row \in Review
        BY <3>3, <4>1 DEF Review
      <4> HIDE DEF row
      <4> QED
        BY <2>0, <4>2, ElementWritten
    <3>5. w.reviews = crm.reviews
      BY DEF DraftApproved
    <3>6. [w EXCEPT !.reviews[i].handoff = IF @ = 0 THEN d ELSE @] = [w EXCEPT !.reviews = x]
      BY <3>5
    <3> HIDE DEF w, x, row
    <3>7. Fine([w EXCEPT !.reviews = x])
      BY <1>0, <3>2, <3>4, ReviewsWritten
    <3> QED
      BY <1>1, <3>1, <3>6, <3>7 DEF w
  <2> QED
    BY <1>6, <2>1, <2>2, <2>3 DEF CustomerPage
<1> QED
  BY <1>4, <1>5, <1>6 DEF OutreachNext

-----------------------------------------------------------------------------
(* Types of the runs *)

Told(steps) == \A i \in DOMAIN steps : steps[i].outcome \in Outcomes

LEMMA OneMoreStep ==
  ASSUME NEW S, NEW steps \in Seq(S), Told(steps), NEW a, NEW outcome \in Outcomes
  PROVE  Told(Append(steps, Step(a, outcome)))
<1> DEFINE s == Step(a, outcome)
           new == Append(steps, s)
<1>1. s.outcome = outcome
  BY DEF Step
<1> HIDE DEF s
<1>2. DOMAIN new = DOMAIN steps \cup {Len(steps) + 1} /\ new[Len(steps) + 1] = s
      /\ \A i \in DOMAIN steps : new[i] = steps[i]
  <2>1. steps \in Seq(S \cup {s}) /\ s \in S \cup {s}
    OBVIOUS
  <2> QED
    BY <2>1
<1> HIDE DEF new
<1>3. Told(new)
  BY <1>1, <1>2 DEF Told
<1> QED
  BY <1>3 DEF new, s

LEMMA MoreSteps ==
  ASSUME NEW S, NEW s \in Seq(S), NEW T, NEW t \in Seq(T), Told(s), Told(t)
  PROVE  Told(s \o t) /\ Len(s \o t) = Len(s) + Len(t)
<1> DEFINE st == s \o t
<1>1. \A i \in DOMAIN st : (i \in DOMAIN s /\ st[i] = s[i]) \/ \E k \in DOMAIN t : st[i] = t[k]
  BY Joined
<1>2. Len(st) = Len(s) + Len(t)
  <2>1. s \in Seq(S \cup T) /\ t \in Seq(S \cup T)
    OBVIOUS
  <2> QED
    BY <2>1, ConcatProperties
<1> HIDE DEF st
<1>3. Told(st)
  BY <1>1 DEF Told
<1> QED
  BY <1>2, <1>3 DEF st

\* What a transaction has after some of its turns.
TurnTyped(e) ==
  /\ TypedRows(e.rows) /\ Told(e.steps)
  /\ e.status \in {"going", "WAITING_APPROVAL", "FAILED", "mail"}
  /\ e.status = "mail" => CanSend(e.rows, e.mail.arg)

LEMMA DoneTyped ==
  ASSUME NEW w, TypedRows(w), NEW a, NEW luck, CanDo(w, a, luck)
  PROVE  TypedRows(Done(w, a, luck))
<1>1. a.tool \in CandidateTools => a.arg \in Discovered /\ a.arg \in Companies
  BY CompaniesAssumption DEF CanDo
<1>2. a.arg \in Discovered => /\ TypedRows(Enriched(w, a.arg))
                              /\ TypedRows(WebsiteRead(w, a.arg, luck = "email"))
  BY CandidateOps
<1>3. a.arg \in Companies => TypedRows(AddedToFollowUp(w, a.arg)) /\ TypedRows(Drafted(w, a.arg))
  BY FollowUpOps, DraftOps
<1>4. CASE a.tool = "enrich_candidate"
  BY <1>1, <1>2, <1>4 DEF Done, CandidateTools
<1>5. CASE a.tool = "website_enrich_candidate"
  BY <1>1, <1>2, <1>5 DEF Done, CandidateTools
<1>6. CASE a.tool = "add_to_follow_up"
  BY <1>1, <1>3, <1>6 DEF Done, CandidateTools
<1>7. CASE a.tool = "draft_outreach"
  BY <1>1, <1>3, <1>7 DEF Done, CandidateTools
<1>8. CASE a.tool \notin {"enrich_candidate", "website_enrich_candidate", "add_to_follow_up", "draft_outreach"}
  BY <1>8 DEF Done
<1> QED
  BY <1>4, <1>5, <1>6, <1>7, <1>8

LEMMA TurnKeepsTypes ==
  ASSUME NEW r, NEW approvals, NEW luck, NEW e, TurnsOK(approvals, e), TurnTyped(e), NEW a
  PROVE  TurnTyped(Turn(r, approvals, luck, e, a))
<1> DEFINE ended(status, outcome) ==
             [e EXCEPT !.status = status, !.steps = Append(@, Step(a, outcome))]
<1>0. PICK S : e.steps \in Seq(S)
  BY DEF TurnsOK
<1>1. ASSUME NEW status \in {"WAITING_APPROVAL", "FAILED"}, NEW outcome \in {"blocked_approval", "failed"}
      PROVE  TurnTyped(ended(status, outcome))
  <2> DEFINE steps == Append(e.steps, Step(a, outcome))
             f == [e EXCEPT !.status = status, !.steps = steps]
  <2>1. Told(steps)
    BY <1>0, OneMoreStep DEF TurnTyped, Outcomes
  <2>2. f.status = status /\ f.steps = steps /\ f.rows = e.rows
    BY DEF TurnsOK
  <2>3. f = ended(status, outcome)
    OBVIOUS
  <2> HIDE DEF steps, f
  <2>4. TurnTyped(f)
    BY <2>1, <2>2 DEF TurnTyped
  <2> QED
    BY <2>3, <2>4
<1>2. TurnTyped([e EXCEPT !.status = "FAILED"])
  <2> DEFINE f == [e EXCEPT !.status = "FAILED"]
  <2>1. f.status = "FAILED" /\ f.steps = e.steps /\ f.rows = e.rows
    BY DEF TurnsOK
  <2> HIDE DEF f
  <2>2. TurnTyped(f)
    BY <2>1 DEF TurnTyped
  <2> QED
    BY <2>2 DEF f
<1>3. ASSUME CanSend(e.rows, a.arg)
      PROVE  TurnTyped([e EXCEPT !.status = "mail", !.mail = a])
  <2> DEFINE f == [e EXCEPT !.status = "mail", !.mail = a]
  <2>1. f.status = "mail" /\ f.mail = a /\ f.steps = e.steps /\ f.rows = e.rows
    BY DEF TurnsOK
  <2> HIDE DEF f
  <2>2. TurnTyped(f)
    BY <1>3, <2>1 DEF TurnTyped
  <2> QED
    BY <2>2 DEF f
<1>4. ASSUME CanDo(e.rows, a, luck), e.status = "going"
      PROVE  TurnTyped([e EXCEPT !.rows = Done(@, a, luck), !.steps = Append(@, Step(a, "succeeded")),
                                 !.seen = @ \cup {a}])
  <2> DEFINE rows == Done(e.rows, a, luck)
             steps == Append(e.steps, Step(a, "succeeded"))
             seen == e.seen \cup {a}
             f == [e EXCEPT !.rows = rows, !.steps = steps, !.seen = seen]
  <2>1. Told(steps)
    BY <1>0, OneMoreStep DEF TurnTyped, Outcomes
  <2>2. TypedRows(rows)
    BY <1>4, DoneTyped DEF TurnTyped
  <2> HIDE DEF rows, steps, seen
  <2>3. f.status = "going" /\ f.steps = steps /\ f.rows = rows
    BY <1>4 DEF TurnsOK
  <2> HIDE DEF f
  <2>4. TurnTyped(f)
    BY <2>1, <2>2, <2>3 DEF TurnTyped
  <2> QED
    BY <2>4 DEF f, rows, steps, seen
<1> HIDE DEF ended
<1> QED
  BY <1>1, <1>2, <1>3, <1>4 DEF Turn, ended

LEMMA ExecuteTyped ==
  ASSUME NEW r, NEW acts, NEW approvals, NEW luck, NEW n \in Nat, DOMAIN acts = 1..n,
         \A i \in 1..n : acts[i] = Act(acts[i].tool, acts[i].arg), "messages" \in DOMAIN crm, TypedRows(crm)
  PROVE  TurnTyped(Execute(r, acts, approvals, luck))
<1>1. PICK h : /\ h[0] = StartOfTurns /\ h[n] = Execute(r, acts, approvals, luck)
               /\ \A k \in 1..n : h[k] = Turn(r, approvals, luck, h[k - 1], acts[k])
  BY ExecuteUnfolds
<1> DEFINE Fine(e) == TurnsOK(approvals, e) /\ TurnTyped(e)
<1>2. Fine(StartOfTurns)
  <2>1. <<>> \in Seq({}) /\ DOMAIN <<>> = {}
    OBVIOUS
  <2> QED
    BY <2>1 DEF TurnsOK, TurnTyped, Told, StartOfTurns
<1> DEFINE Good == {k \in Nat : k <= n => Fine(h[k])}
<1> HIDE DEF Fine
<1>3. 0 \in Good
  BY <1>1, <1>2
<1>4. ASSUME NEW k \in Good PROVE k + 1 \in Good
  <2> SUFFICES ASSUME k + 1 <= n PROVE Fine(h[k + 1])
    OBVIOUS
  <2>1. k + 1 \in 1..n /\ (k + 1) - 1 = k /\ Fine(h[k])
    OBVIOUS
  <2> QED
    BY <1>1, <2>1, TurnKeeps, TurnKeepsTypes DEF Fine
<1>5. Good = Nat
  <2>1. Good \in SUBSET Nat
    OBVIOUS
  <2> HIDE DEF Good
  <2> QED
    BY <2>1, <1>3, <1>4, SetInduction
<1> QED
  BY <1>1, <1>5 DEF Fine

-----------------------------------------------------------------------------
(* Types of the team's side *)

SendingTyped(r) ==
  sending[r] # <<>> => LET s == sending[r][1] IN
    /\ Len(sending[r]) = 1 /\ s.draft \in 1..MaxDrafts
    /\ Told(s.steps) /\ Len(run[r].steps) + Len(s.steps) < MaxSteps
RunTyped(r) ==
  /\ "args" \in DOMAIN run[r] /\ run[r].args \in Arguments[r] \cup {0}
  /\ run[r].status \in Statuses /\ Told(run[r].steps) /\ Len(run[r].steps) <= MaxSteps
RunTypes == \A r \in Runs : RunTyped(r) /\ SendingTyped(r)

\* No more messages than mails the provider has answered for.
Answered == {i \in DOMAIN mails : mails[i].fate # "open"}
MailTypes ==
  /\ Len(mails) <= MaxMails /\ \A i \in DOMAIN mails : mails[i].company \in Companies
  /\ Len(crm.messages) <= Cardinality(Answered)

TeamTypes == OutreachTypeOK /\ RunTypes /\ MailTypes /\ unsynced \subseteq Runs

LEMMA AnsweredFinite ==
  ASSUME RunInv
  PROVE  /\ Len(mails) \in Nat /\ DOMAIN mails = 1..Len(mails)
         /\ IsFiniteSet(DOMAIN mails) /\ Cardinality(DOMAIN mails) = Len(mails)
         /\ IsFiniteSet(Answered) /\ Cardinality(Answered) \in Nat /\ Cardinality(Answered) <= Len(mails)
<1>1. Len(mails) \in Nat /\ DOMAIN mails = 1..Len(mails)
  BY DEF RunInv
<1>2. IsFiniteSet(1..Len(mails)) /\ Cardinality(1..Len(mails)) = Len(mails)
  <2>1. IsFiniteSet(1..Len(mails))
        /\ Cardinality(1..Len(mails)) = IF 1 > Len(mails) THEN 0 ELSE Len(mails) - 1 + 1
    BY <1>1, FS_Interval
  <2> QED
    BY <1>1, <2>1
<1>3. Answered \subseteq 1..Len(mails)
  BY <1>1 DEF Answered
<1>4. IsFiniteSet(Answered) /\ Cardinality(Answered) <= Cardinality(1..Len(mails))
  BY <1>2, <1>3, FS_Subset
<1>5. Cardinality(Answered) \in Nat
  BY <1>4, FS_CardinalityType
<1> QED
  BY <1>1, <1>2, <1>4, <1>5

LEMMA RowsTyped ==
  ASSUME OutreachTypeOK
  PROVE  /\ TypedRows(crm) /\ crm \in Crm /\ crm.messages \in Seq(Message) /\ Len(crm.messages) \in Nat
         /\ Len(crm.drafts) <= MaxDrafts /\ MaxDrafts \in Nat /\ MaxMails \in Nat /\ week \in Nat
<1>1. crm \in Crm /\ TypedRows(crm)
  BY DEF OutreachTypeOK, TypedRows, Paired
<1>2. crm.messages \in Seq(Message)
  BY <1>1, RowFields
<1> QED
  BY <1>1, <1>2, RowBoundsAssumption DEF OutreachTypeOK

LEMMA SentTyped ==
  ASSUME NEW w, TypedRows(w), NEW c \in Companies, NEW d \in 1..MaxDrafts,
         NEW status \in {"SENT", "FAILED"}, week \in Nat
  PROVE  LET v == Sent(w, c, d, status) IN
         TypedRows(v) /\ v.drafts = w.drafts /\ Len(v.messages) = Len(w.messages) + 1
<1> DEFINE row == [company |-> c, draft |-> d, status |-> status, week |-> week]
           messages == Append(w.messages, row)
           recorded == [w EXCEPT !.messages = messages]
           stage == [w.stage EXCEPT ![c] = "EMAIL_1_SENT"]
           answered == [recorded EXCEPT !.stage = stage]
<1>1. w \in Crm /\ w.messages \in Seq(Message) /\ w.stage \in [Companies -> FollowUpStages]
  BY RowFields DEF TypedRows
<1>2. row \in Message
  BY DEF Message
<1>3. Sent(w, c, d, status) \in {recorded, answered}
  <2>1. answered = [recorded EXCEPT !.stage[c] = "EMAIL_1_SENT"]
    OBVIOUS
  <2> QED
    BY <2>1 DEF Sent
<1> HIDE DEF row
<1>4. messages \in Seq(Message) /\ Len(messages) = Len(w.messages) + 1
  BY <1>1, <1>2
<1> HIDE DEF messages
<1>5. recorded \in Crm
  BY <1>1, <1>4, RowsWritten
<1>6. /\ recorded.messages = messages /\ recorded.drafts = w.drafts
      /\ recorded.reactivation = w.reactivation
  BY <1>1 DEF Crm
<1>7. stage \in [Companies -> FollowUpStages]
  BY <1>1 DEF FollowUpStages
<1> HIDE DEF stage, recorded
<1>8. answered \in Crm
  BY <1>5, <1>7, RowsWritten
<1>9. /\ answered.messages = recorded.messages /\ answered.drafts = recorded.drafts
      /\ answered.reactivation = recorded.reactivation
  OBVIOUS
<1> HIDE DEF answered
<1>10. \A v \in {recorded, answered} :
         /\ v \in Crm /\ v.messages = messages /\ v.drafts = w.drafts /\ v.reactivation = w.reactivation
  BY <1>5, <1>6, <1>8, <1>9
<1> QED
  BY <1>3, <1>4, <1>10 DEF TypedRows, Paired

\* One run is written and waits for no mail.
LEMMA RunTypesWritten ==
  ASSUME RunInv, RunTypes, NEW r \in Runs, NEW status \in Statuses, NEW steps, Told(steps),
         Len(steps) <= MaxSteps, run' = [run EXCEPT ![r].status = status, ![r].steps = steps],
         sending'[r] = <<>>, \A q \in Runs \ {r} : sending'[q] = sending[q]
  PROVE  RunTypes'
<1>1. /\ run'[r].status = status /\ run'[r].steps = steps
      /\ "args" \in DOMAIN run'[r] /\ run'[r].args = run[r].args
      /\ \A q \in Runs \ {r} : run'[q] = run[q]
  BY DEF RunInv, RunTypes, RunTyped
<1>2. RunTyped(r)' /\ SendingTyped(r)'
  BY <1>1 DEF RunTypes, RunTyped, SendingTyped
<1>3. ASSUME NEW q \in Runs \ {r} PROVE RunTyped(q)' /\ SendingTyped(q)'
  BY <1>1 DEF RunTypes, RunTyped, SendingTyped
<1> QED
  BY <1>2, <1>3 DEF RunTypes

LEMMA RunTypesStay ==
  ASSUME RunTypes, UNCHANGED <<run, sending>>
  PROVE  RunTypes'
BY DEF RunTypes, RunTyped, SendingTyped

LEMMA MailTypesStay ==
  ASSUME MailTypes, UNCHANGED mails, crm'.messages = crm.messages
  PROVE  MailTypes'
BY DEF MailTypes, Answered

\* A transaction that ends without a mail.
LEMMA FinishTypes ==
  ASSUME RunInv, AgentInv, TeamTypes, NEW r \in Runs, sending[r] = <<>>, week' = week,
         NEW approvals, NEW e, TurnsOK(approvals, e), TurnTyped(e), Finish(r, e)
  PROVE  OutreachTypeOK' /\ RunTypes' /\ MailTypes'
<1> DEFINE old == run[r].steps
           steps == old \o e.steps
<1>1. PICK status \in StatusAfter(r, e) :
        run' = [run EXCEPT ![r].status = status, ![r].steps = @ \o e.steps]
  BY DEF Finish
<1>2. status \in Statuses
  BY <1>1 DEF StatusAfter, TurnTyped, Finish, Statuses
<1>3. run' = [run EXCEPT ![r].status = status, ![r].steps = steps]
  BY <1>1 DEF RunInv
<1>4. PICK S : old \in Seq(S)
  BY DEF AgentInv, AgentRowsOK
<1>5. PICK T : e.steps \in Seq(T)
  BY DEF TurnsOK
<1>6. Told(old) /\ Told(e.steps) /\ Len(old) + Len(e.steps) <= MaxSteps
  BY DEF TeamTypes, RunTypes, RunTyped, TurnTyped, Finish
<1> HIDE DEF old
<1>7. Told(steps) /\ Len(steps) <= MaxSteps
  BY <1>4, <1>5, <1>6, MoreSteps
<1> HIDE DEF steps
<1>8. /\ crm' = e.rows /\ TypedRows(e.rows) /\ Len(e.rows.drafts) <= MaxDrafts
      /\ e.rows.messages = crm.messages /\ UNCHANGED <<mails, sending>>
  BY DEF Finish, TurnTyped, TurnsOK
<1>9. OutreachTypeOK'
  BY <1>8 DEF OutreachTypeOK, TeamTypes, TypedRows, Paired
<1>10. MailTypes'
  BY <1>8, MailTypesStay DEF TeamTypes
<1>11. RunTypes'
  BY <1>2, <1>3, <1>7, <1>8, RunTypesWritten DEF TeamTypes
<1> QED
  BY <1>9, <1>10, <1>11

\* One that asks for a mail: the company's latest draft goes out.
LEMMA BeginMailTypes ==
  ASSUME RunInv, AgentInv, TeamTypes, NEW r \in Runs, sending[r] = <<>>, week' = week,
         NEW approvals, NEW e, TurnsOK(approvals, e), TurnTyped(e), BeginMail(r, e)
  PROVE  OutreachTypeOK' /\ RunTypes' /\ MailTypes'
<1> DEFINE c == e.mail.arg
           d == LatestDraft(crm, c)
           it == [mail |-> Len(mails) + 1, draft |-> d, steps |-> e.steps]
           mail == [run |-> r, company |-> c, week |-> week, fate |-> "open",
                    during |-> {i \in DOMAIN mails : mails[i].fate = "open"}]
<1>1. CanSend(crm, c)
  BY DEF BeginMail, TurnTyped
<1>2. c \in Companies /\ DraftsOf(crm, c) # {}
  BY <1>1, CompaniesAssumption DEF CanSend
<1>3. d \in 1..MaxDrafts
  <2> DEFINE D == DraftsOf(crm, c)
  <2>1. crm.drafts \in Seq(Draft) /\ Len(crm.drafts) <= MaxDrafts /\ MaxDrafts \in Nat
    BY RowsTyped, RowFields DEF TeamTypes
  <2>2. D \subseteq 1..Len(crm.drafts) /\ Len(crm.drafts) \in Nat
    BY <2>1 DEF DraftsOf
  <2> HIDE DEF D
  <2>3. \E x \in D : \A y \in D : x >= y
    BY <1>2, <2>2, LargestExists DEF D
  <2>4. \E x \in D : \A y \in D : y <= x
    BY <2>2, <2>3
  <2>5. d \in D
    BY <2>4 DEF LatestDraft, D
  <2> HIDE DEF d
  <2>6. d \in 1..Len(crm.drafts)
    BY <2>2, <2>5
  <2> QED
    BY <2>1, <2>2, <2>6
<1>4. /\ UNCHANGED <<run, crm>> /\ Len(run[r].steps) + Len(e.steps) < MaxSteps /\ Len(mails) < MaxMails
      /\ mails' = Append(mails, mail) /\ sending' = [sending EXCEPT ![r] = <<it>>]
  BY DEF BeginMail
<1>5. it.draft = d /\ it.steps = e.steps
  OBVIOUS
<1>6. mail.company = c /\ mail.fate = "open"
  OBVIOUS
<1> HIDE DEF c, d, it, mail
<1>7. PICK S : mails \in Seq(S)
  BY DEF RunInv
<1>8. /\ Len(mails') = Len(mails) + 1 /\ DOMAIN mails' = DOMAIN mails \cup {Len(mails) + 1}
      /\ Len(mails) + 1 \notin DOMAIN mails /\ Len(mails) \in Nat
      /\ mails'[Len(mails) + 1] = mail /\ \A i \in DOMAIN mails : mails'[i] = mails[i]
  <2>1. mails \in Seq(S \cup {mail}) /\ mail \in S \cup {mail}
    BY <1>7
  <2> QED
    BY <1>4, <2>1, AppendProperties
<1>9. Answered' = Answered
  BY <1>6, <1>8 DEF Answered
<1>10. MailTypes'
  <2>1. Len(mails') <= MaxMails
    BY <1>4, <1>8, RowBoundsAssumption
  <2>2. \A i \in DOMAIN mails' : mails'[i].company \in Companies
    BY <1>2, <1>6, <1>8 DEF TeamTypes, MailTypes
  <2> QED
    BY <1>4, <1>9, <2>1, <2>2 DEF TeamTypes, MailTypes
<1>11. sending'[r] = <<it>> /\ \A q \in Runs \ {r} : sending'[q] = sending[q]
  BY <1>4 DEF RunInv
<1>12. SendingTyped(r)'
  <2>1. Len(<<it>>) = 1 /\ <<it>>[1] = it
    OBVIOUS
  <2>2. Told(e.steps)
    BY DEF TurnTyped
  <2> QED
    BY <1>3, <1>4, <1>5, <1>11, <2>1, <2>2 DEF SendingTyped
<1>13. \A q \in Runs : RunTyped(q)'
  BY <1>4 DEF TeamTypes, RunTypes, RunTyped
<1>14. \A q \in Runs \ {r} : SendingTyped(q)'
  BY <1>4, <1>11 DEF TeamTypes, RunTypes, SendingTyped
<1>15. OutreachTypeOK'
  BY <1>4 DEF TeamTypes, OutreachTypeOK
<1> QED
  BY <1>10, <1>12, <1>13, <1>14, <1>15 DEF RunTypes

LEMMA ContinueTypes ==
  ASSUME RunInv, AgentInv, TeamTypes, NEW r \in Runs, sending[r] = <<>>, week' = week,
         NEW v, NEW approvals, Continue(r, v, approvals)
  PROVE  OutreachTypeOK' /\ RunTypes' /\ MailTypes'
<1>1. CASE UNCHANGED <<run, crm, mails, sending>>
  BY <1>1, RunTypesStay, MailTypesStay DEF TeamTypes, OutreachTypeOK
<1>2. CASE ~Ended(r)
  <2>1. PICK acts \in Plans(r, v), luck \in Luck :
          Finish(r, Execute(r, acts, approvals, luck)) \/ BeginMail(r, Execute(r, acts, approvals, luck))
    BY <1>2 DEF Continue
  <2> DEFINE e == Execute(r, acts, approvals, luck)
  <2>2. TurnsOK(approvals, e) /\ TurnTyped(e)
    <3>1. PICK n \in Nat : DOMAIN acts = 1..n /\ \A i \in 1..n : acts[i] = Act(acts[i].tool, acts[i].arg)
      BY PlansAreFinite
    <3>2. TypedRows(crm) /\ "messages" \in DOMAIN crm
      BY RowsTyped DEF TeamTypes, AgentInv, AgentRowsOK
    <3> QED
      BY <3>1, <3>2, ExecuteKeeps, ExecuteTyped
  <2> HIDE DEF e
  <2> QED
    BY <2>1, <2>2, FinishTypes, BeginMailTypes DEF e
<1> QED
  BY <1>1, <1>2 DEF Continue

LEMMA CreateTypes ==
  ASSUME RunInv, AgentInv, TeamTypes, NEW r \in Runs, NEW v \in Arguments[r] \cup {0}, CreateRun(r, v)
  PROVE  TeamTypes'
<1> DEFINE row == [status |-> "RUNNING", steps |-> <<>>, args |-> v]
<1>1. run' = [run EXCEPT ![r] = row] /\ UNCHANGED <<outreachVars, sending, unsynced>>
  BY DEF CreateRun
<1>2. /\ "args" \in DOMAIN row /\ row.args = v /\ row.status \in Statuses /\ row.steps = <<>>
      /\ Len(<<>>) = 0 /\ DOMAIN <<>> = {}
  BY DEF Statuses
<1> HIDE DEF row
<1>3. run'[r] = row /\ \A q \in Runs \ {r} : run'[q] = run[q]
  BY <1>1 DEF RunInv
<1>4. RunTyped(r)'
  BY <1>2, <1>3, StepsAssumption DEF RunTyped, Told
<1>5. SendingTyped(r)'
  <2> SUFFICES ASSUME sending[r] # <<>>
               PROVE  LET s == sending[r][1] IN
                      /\ Len(sending[r]) = 1 /\ s.draft \in 1..MaxDrafts
                      /\ Told(s.steps) /\ Len(run'[r].steps) + Len(s.steps) < MaxSteps
    BY <1>1 DEF SendingTyped
  <2> DEFINE s == sending[r][1]
             old == run[r].steps
  <2>1. /\ Len(sending[r]) = 1 /\ s.draft \in 1..MaxDrafts
        /\ Told(s.steps) /\ Len(old) + Len(s.steps) < MaxSteps
    BY DEF TeamTypes, RunTypes, SendingTyped
  <2>2. Len(old) \in Nat /\ Len(s.steps) \in Nat
    <3>1. PICK S : old \in Seq(S)
      BY DEF AgentInv, AgentRowsOK
    <3>2. PICK T : s.steps \in Seq(T)
      BY DEF AgentInv, SendingInv, MailStarted
    <3> QED
      BY <3>1, <3>2
  <2>3. Len(run'[r].steps) = 0
    BY <1>2, <1>3
  <2> HIDE DEF s, old
  <2>4. 0 + Len(s.steps) < MaxSteps
    BY <2>1, <2>2, StepsAssumption
  <2> QED
    BY <2>1, <2>3, <2>4 DEF s
<1>6. \A q \in Runs \ {r} : RunTyped(q)' /\ SendingTyped(q)'
  BY <1>1, <1>3 DEF TeamTypes, RunTypes, RunTyped, SendingTyped
<1>7. RunTypes'
  BY <1>4, <1>5, <1>6 DEF RunTypes
<1> QED
  BY <1>1, <1>7, MailTypesStay DEF TeamTypes, OutreachTypeOK, outreachVars

\* The provider has answered: one more mail is, and at most one more message.
LEMMA AnswerTypes ==
  ASSUME RunInv, AgentInv, TeamTypes, NEW r \in Runs, MailStarted(r), week' = week, NEW fate, fate # "open",
         mails' = [mails EXCEPT ![sending[r][1].mail].fate = fate],
         LET s == sending[r][1] IN
         \/ UNCHANGED crm
         \/ \E status \in {"SENT", "FAILED"} : crm' = Sent(crm, mails[s.mail].company, s.draft, status)
  PROVE  OutreachTypeOK' /\ MailTypes'
<1> DEFINE s == sending[r][1]
           k == s.mail
           c == mails[k].company
           d == s.draft
<1>1. k \in DOMAIN mails /\ mails[k].fate = "open"
  BY DEF AgentInv, SendingInv
<1>2. c \in Companies /\ d \in 1..MaxDrafts
  BY <1>1 DEF TeamTypes, MailTypes, RunTypes, SendingTyped, MailStarted
<1>3. mails' = [mails EXCEPT ![k].fate = fate]
  OBVIOUS
<1>4. \/ UNCHANGED crm
      \/ \E status \in {"SENT", "FAILED"} : crm' = Sent(crm, c, d, status)
  OBVIOUS
<1> HIDE DEF k, d
<1>5. /\ DOMAIN mails' = DOMAIN mails
      /\ \A i \in DOMAIN mails :
           /\ mails'[i].company = mails[i].company
           /\ mails'[i].fate = IF i = k THEN fate ELSE mails[i].fate
  <2> HIDE DEF s, c
  <2>1. AgentRowsOK
    BY DEF AgentInv
  <2>2. /\ DOMAIN mails' = DOMAIN mails
        /\ \A i \in DOMAIN mails :
             /\ MailFields \subseteq DOMAIN mails'[i]
             /\ mails'[i].run = mails[i].run /\ mails'[i].company = mails[i].company
             /\ mails'[i].week = mails[i].week /\ mails'[i].during = mails[i].during
             /\ mails'[i].fate = IF i = k THEN fate ELSE mails[i].fate
    BY <1>1, <1>3, <2>1, AnswerTold, ZenonT(60)
  <2> QED
    BY <2>2
<1>6. Len(mails') = Len(mails)
  <2>1. PICK S : mails \in Seq(S)
    BY DEF RunInv
  <2>2. PICK T : mails' \in Seq(T)
    BY <1>3, FateTold
  <2> QED
    BY <1>5, <2>1, <2>2
<1>7. Answered' = Answered \cup {k} /\ k \notin Answered
  BY <1>1, <1>5 DEF Answered
<1>8. IsFiniteSet(Answered) /\ Cardinality(Answered) \in Nat /\ Cardinality(Answered') = Cardinality(Answered) + 1
      /\ Cardinality(Answered') <= Len(mails)
  <2>1. IsFiniteSet(Answered) /\ Cardinality(Answered) \in Nat /\ Cardinality(Answered') = Cardinality(Answered) + 1
    BY <1>7, AnsweredFinite, FS_AddElement
  <2>2. Answered' \subseteq DOMAIN mails
    BY <1>5 DEF Answered
  <2>3. IsFiniteSet(DOMAIN mails) /\ Cardinality(DOMAIN mails) = Len(mails)
    BY AnsweredFinite
  <2>4. Cardinality(Answered') <= Cardinality(DOMAIN mails)
    BY <2>2, <2>3, FS_Subset
  <2> QED
    BY <2>1, <2>3, <2>4
<1>9. /\ TypedRows(crm') /\ Len(crm'.drafts) <= MaxDrafts
      /\ Len(crm'.messages) \in Nat /\ Len(crm'.messages) <= Len(crm.messages) + 1
  <2>0. /\ TypedRows(crm) /\ Len(crm.drafts) <= MaxDrafts /\ Len(crm.messages) \in Nat /\ week \in Nat
    BY RowsTyped DEF TeamTypes
  <2>1. CASE UNCHANGED crm
    BY <2>0, <2>1
  <2>2. ASSUME NEW status \in {"SENT", "FAILED"}, crm' = Sent(crm, c, d, status)
        PROVE  /\ TypedRows(crm') /\ crm'.drafts = crm.drafts /\ Len(crm'.messages) = Len(crm.messages) + 1
    BY <1>2, <2>0, <2>2, SentTyped
  <2> QED
    BY <1>4, <2>0, <2>1, <2>2
<1>10. Len(crm'.messages) <= Cardinality(Answered') /\ Len(crm'.messages) <= MaxMails
  <2>1. Len(crm.messages) <= Cardinality(Answered) /\ Len(mails) <= MaxMails /\ Len(crm.messages) \in Nat
        /\ MaxMails \in Nat
    BY RowsTyped DEF TeamTypes, MailTypes
  <2>2. Len(mails) \in Nat
    BY AnsweredFinite
  <2> QED
    BY <1>8, <1>9, <2>1, <2>2
<1>11. MailTypes'
  <2>1. Len(mails') <= MaxMails /\ \A i \in DOMAIN mails' : mails'[i].company \in Companies
    BY <1>5, <1>6 DEF TeamTypes, MailTypes
  <2> QED
    BY <1>10, <2>1 DEF MailTypes
<1>12. OutreachTypeOK'
  BY <1>9, <1>10 DEF TeamTypes, OutreachTypeOK, TypedRows, Paired
<1> QED
  BY <1>11, <1>12

\* The run goes on with its steps and the mail's, and waits no more.
LEMMA AnsweredRunTypes ==
  ASSUME RunInv, AgentInv, TeamTypes, NEW r \in Runs, MailStarted(r), NEW status \in Statuses,
         NEW a, NEW outcome \in Outcomes,
         run' = [run EXCEPT ![r].status = status,
                            ![r].steps = @ \o sending[r][1].steps \o <<Step(a, outcome)>>],
         sending' = [sending EXCEPT ![r] = <<>>]
  PROVE  RunTypes'
<1> DEFINE old == run[r].steps
           s == sending[r][1].steps
           last == <<Step(a, outcome)>>
           os == old \o s
           steps == os \o last
<1>1. run' = [run EXCEPT ![r].status = status, ![r].steps = steps]
  BY DEF RunInv
<1>2. sending'[r] = <<>> /\ \A q \in Runs \ {r} : sending'[q] = sending[q]
  BY DEF RunInv
<1>3. PICK S : old \in Seq(S)
  BY DEF AgentInv, AgentRowsOK
<1>4. PICK T : s \in Seq(T)
  BY DEF AgentInv, SendingInv
<1>5. Told(old) /\ Told(s) /\ Len(old) + Len(s) < MaxSteps
  BY DEF TeamTypes, RunTypes, RunTyped, SendingTyped, MailStarted
<1>6. last \in Seq({Step(a, outcome)}) /\ Told(last) /\ Len(last) = 1
  BY DEF Told, Step
<1> HIDE DEF old, s, last
<1>7. Told(os) /\ Len(os) = Len(old) + Len(s) /\ \E U : os \in Seq(U)
  BY <1>3, <1>4, <1>5, MoreSteps, Joined
<1> HIDE DEF os
<1>8. Told(steps) /\ Len(steps) = Len(os) + Len(last)
  BY <1>6, <1>7, MoreSteps
<1>9. Len(steps) <= MaxSteps
  <2>1. Len(old) \in Nat /\ Len(s) \in Nat
    BY <1>3, <1>4
  <2> QED
    BY <1>5, <1>6, <1>7, <1>8, <2>1, StepsAssumption
<1> HIDE DEF steps
<1> QED
  BY <1>1, <1>2, <1>8, <1>9, RunTypesWritten DEF TeamTypes

LEMMA EndMailTypes ==
  ASSUME RunInv, AgentInv, TeamTypes, NEW r \in Runs, EndMail(r)
  PROVE  TeamTypes'
<1> DEFINE s == sending[r][1]
           a == Act("send_email", mails[s.mail].company)
<1>1. MailStarted(r) /\ sending' = [sending EXCEPT ![r] = <<>>] /\ UNCHANGED <<week, unsynced>>
  BY DEF EndMail, MailStarted
<1>2. CASE MailRecorded(r)
  <2>1. PICK status \in {"SENT", "FAILED"} :
          /\ crm' = Sent(crm, mails[s.mail].company, s.draft, status)
          /\ mails' = [mails EXCEPT ![s.mail].fate = IF status = "SENT" THEN "recorded" ELSE "unsent"]
    BY <1>2 DEF MailRecorded, Act
  <2>2. PICK after \in {"COMPLETED", "FAILED"} :
          run' = [run EXCEPT ![r].status = after, ![r].steps = @ \o s.steps \o <<Step(a, "succeeded")>>]
    <3>1. \E after \in (IF Mode[r] = "AUTOMATION" THEN {"COMPLETED"} ELSE {"COMPLETED", "FAILED"}) :
            run' = [run EXCEPT ![r].status = after, ![r].steps = @ \o s.steps \o <<Step(a, "succeeded")>>]
      BY <1>2 DEF MailRecorded
    <3> HIDE DEF s, a
    <3> QED
      BY <3>1
  <2>3. OutreachTypeOK' /\ MailTypes'
    <3> DEFINE fate == IF status = "SENT" THEN "recorded" ELSE "unsent"
    <3>1. fate # "open" /\ mails' = [mails EXCEPT ![s.mail].fate = fate]
      BY <2>1
    <3> HIDE DEF fate
    <3> QED
      BY <1>1, <2>1, <3>1, AnswerTypes
  <2>4. RunTypes'
    <3> HIDE DEF a
    <3>1. after \in Statuses /\ "succeeded" \in Outcomes
      BY DEF Statuses, Outcomes
    <3> QED
      BY <1>1, <2>2, <3>1, AnsweredRunTypes
  <2> QED
    BY <1>1, <2>3, <2>4 DEF TeamTypes
<1>3. CASE MailFailed(r)
  <2>1. PICK fate \in {"unsent", "lost"} : mails' = [mails EXCEPT ![s.mail].fate = fate]
    BY <1>3 DEF MailFailed
  <2>2. run' = [run EXCEPT ![r].status = "FAILED", ![r].steps = @ \o s.steps \o <<Step(a, "failed")>>]
        /\ UNCHANGED crm
    BY <1>3 DEF MailFailed
  <2>3. OutreachTypeOK' /\ MailTypes'
    BY <1>1, <2>1, <2>2, AnswerTypes
  <2>4. RunTypes'
    <3> HIDE DEF a
    <3>1. "FAILED" \in Statuses /\ "failed" \in Outcomes
      BY DEF Statuses, Outcomes
    <3> QED
      BY <1>1, <2>2, <3>1, AnsweredRunTypes
  <2> QED
    BY <1>1, <2>3, <2>4 DEF TeamTypes
<1>4. CASE MailLost(r)
  <2>1. mails' = [mails EXCEPT ![s.mail].fate = "lost"] /\ UNCHANGED <<run, crm>>
    BY <1>4 DEF MailLost
  <2>2. OutreachTypeOK' /\ MailTypes'
    BY <1>1, <2>1, AnswerTypes
  <2>3. RunTypes'
    <3>1. sending'[r] = <<>> /\ \A q \in Runs \ {r} : sending'[q] = sending[q]
      BY <1>1 DEF RunInv
    <3> QED
      BY <2>1, <3>1 DEF TeamTypes, RunTypes, RunTyped, SendingTyped
  <2> QED
    BY <1>1, <2>2, <2>3 DEF TeamTypes
<1> QED
  BY <1>2, <1>3, <1>4 DEF EndMail

LEMMA StartAgainTypes ==
  ASSUME RunInv, AgentInv, TeamTypes, NEW r \in Runs, NEW v, StartAgain(r, v)
  PROVE  TeamTypes'
<1>1. sending[r] = <<>> /\ Continue(r, v, {}) /\ UNCHANGED <<week, unsynced>>
  BY DEF StartAgain
<1> QED
  BY <1>1, ContinueTypes DEF TeamTypes

LEMMA RejectTypes ==
  ASSUME RunInv, TeamTypes, NEW review, review.run \in Runs, Reject(review)
  PROVE  TeamTypes'
<1> DEFINE r == review.run
<1>1. /\ sending[r] = <<>> /\ run' = [run EXCEPT ![r].status = "REJECTED"]
      /\ UNCHANGED <<outreachVars, sending, unsynced>>
  BY DEF Reject
<1>2. /\ run'[r].steps = run[r].steps /\ run'[r].status = "REJECTED"
      /\ "args" \in DOMAIN run'[r] /\ run'[r].args = run[r].args
      /\ \A q \in Runs \ {r} : run'[q] = run[q]
  BY <1>1 DEF RunInv, TeamTypes, RunTypes, RunTyped
<1>3. RunTypes'
  <2>1. RunTyped(r)' /\ SendingTyped(r)'
    BY <1>1, <1>2 DEF TeamTypes, RunTypes, RunTyped, SendingTyped, Statuses
  <2>2. ASSUME NEW q \in Runs \ {r} PROVE RunTyped(q)' /\ SendingTyped(q)'
    BY <1>1, <1>2 DEF TeamTypes, RunTypes, RunTyped, SendingTyped
  <2> QED
    BY <2>1, <2>2 DEF RunTypes
<1> QED
  BY <1>1, <1>3, MailTypesStay DEF TeamTypes, OutreachTypeOK, outreachVars

LEMMA TeamTypesStay ==
  ASSUME TeamTypes, UNCHANGED <<outreachVars, run, sending>>, unsynced' \subseteq Runs
  PROVE  TeamTypes'
BY RunTypesStay, MailTypesStay DEF TeamTypes, OutreachTypeOK, outreachVars

LEMMA AgentsKeepTypes ==
  ASSUME RunInv, Reviewers, AgentInv, TeamTypes, AgentsNext
  PROVE  TeamTypes'
<1>1. ASSUME NEW r \in Runs, StartStep(r) \/ NightlyRun(r)
      PROVE  TeamTypes'
  BY <1>1, StartAgainTypes, CreateTypes DEF StartStep, NightlyRun
<1>2. ASSUME NEW r \in Runs, OpenReview(r)
      PROVE  TeamTypes'
  BY <1>2, TeamTypesStay DEF OpenReview, TeamTypes
<1>3. ASSUME NEW review \in reviewing, Approve(review)
      PROVE  TeamTypes'
  <2> DEFINE r == review.run
  <2>1. r \in Runs
    BY DEF Reviewers
  <2>2. /\ sending[r] = <<>> /\ Continue(r, run[r].args, {review.action})
        /\ unsynced' = unsynced \cup {r} /\ week' = week
    BY <1>3 DEF Approve
  <2> HIDE DEF r
  <2> QED
    BY <2>1, <2>2, ContinueTypes DEF TeamTypes
<1>4. ASSUME NEW review \in reviewing, Reject(review)
      PROVE  TeamTypes'
  BY <1>4, RejectTypes DEF Reviewers
<1> QED
  BY <1>1, <1>2, <1>3, <1>4, EndMailTypes DEF AgentsNext, WorkGoesOn, Decide

LEMMA StartersKeepTypes ==
  ASSUME RunInv, MissionRowsOK, AgentInv, TeamTypes, MissionsNext
  PROVE  TeamTypes'
<1>1. CASE LifeStep
  <2>1. UNCHANGED <<outreachVars, run, sending, unsynced>>
    BY <1>1 DEF LifeStep, CreateMission, EditMission, ChangeStatus, GeneratePlan, ApprovePlan, Only, agentVars
  <2> QED
    BY <2>1, TeamTypesStay DEF TeamTypes
<1>2. ASSUME NEW m \in Missions, NEW r \in Runs, BeginStart(m, r) \/ StartForMission(m, r)
      PROVE  TeamTypes'
  <2>1. UNCHANGED <<outreachVars, run, sending, unsynced>>
    BY <1>2 DEF BeginStart, StartForMission, Only, agentVars
  <2> QED
    BY <2>1, TeamTypesStay DEF TeamTypes
<1>5. ASSUME NEW m \in Missions, LinkPublication(m)
      PROVE  TeamTypes'
  <2>1. UNCHANGED <<outreachVars, run, sending, unsynced>>
    BY <1>5 DEF LinkPublication, Only, agentVars
  <2> QED
    BY <2>1, TeamTypesStay DEF TeamTypes
<1>3. ASSUME NEW r \in Runs, SyncResults(r) \/ ApproverDies(r)
      PROVE  TeamTypes'
  BY <1>3, TeamTypesStay DEF SyncResults, ApproverDies, TeamTypes
<1>4. ASSUME NEW request \in starting, Starting(request)
      PROVE  TeamTypes'
  <2> request.run \in Runs
    BY DEF MissionRowsOK
  <2>1. CASE RunAgent(request)
    <3>1. CASE CreateRun(request.run, 0)
      <4>1. 0 \in Arguments[request.run] \cup {0}
        OBVIOUS
      <4> QED
        BY <3>1, <4>1, CreateTypes
    <3>2. CASE StartAgain(request.run, 0)
      BY <3>2, StartAgainTypes
    <3> QED
      BY <2>1, <3>1, <3>2 DEF RunAgent
  <2>2. CASE ~RunAgent(request)
    <3>1. UNCHANGED <<outreachVars, run, sending, unsynced>>
      BY <1>4, <2>2 DEF Starting, LinkCandidate, LinkRun, LinkResults, StarterDies, agentVars
    <3> QED
      BY <3>1, TeamTypesStay DEF TeamTypes
  <2> QED
    BY <2>1, <2>2
<1> QED
  BY <1>1, <1>2, <1>3, <1>4, <1>5 DEF MissionsNext, StartsStep

LEMMA TeamTypesKeep ==
  MissionInv /\ RunInv /\ Reviewers /\ AgentInv /\ TeamTypes /\ [GrowthNext]_growthVars => TeamTypes'
<1> SUFFICES ASSUME MissionInv, RunInv, Reviewers, AgentInv, TeamTypes, [GrowthNext]_growthVars
    PROVE  TeamTypes'
  OBVIOUS
<1>1. CASE UNCHANGED growthVars
  BY <1>1, TeamTypesStay DEF growthVars, agentVars, TeamTypes
<1>2. CASE OutreachNext /\ UNCHANGED agentVars
  <2>1. OutreachTypeOK' /\ UNCHANGED mails /\ crm'.messages = crm.messages
    BY <1>2, PagesKeepTypes DEF TeamTypes, AgentInv, AgentRowsOK
  <2> QED
    BY <1>2, <2>1, RunTypesStay, MailTypesStay DEF TeamTypes, agentVars
<1>3. CASE WeekPasses /\ UNCHANGED agentVars
  <2>1. week' \in 0..1 /\ UNCHANGED <<crm, mails>>
    BY <1>3 DEF WeekPasses, TeamTypes, OutreachTypeOK
  <2>2. OutreachTypeOK'
    BY <2>1 DEF TeamTypes, OutreachTypeOK
  <2> QED
    BY <1>3, <2>1, <2>2, RunTypesStay, MailTypesStay DEF TeamTypes, agentVars
<1> QED
  BY <1>1, <1>2, <1>3, AgentsKeepTypes, StartersKeepTypes, GrowthSteps DEF MissionInv

LEMMA TeamTypesBegin == OutreachInit /\ AgentsInit => TeamTypes
<1> SUFFICES ASSUME OutreachInit, AgentsInit PROVE TeamTypes
  OBVIOUS
<1>0. Len(<<>>) = 0 /\ DOMAIN <<>> = {} /\ \A S : <<>> \in Seq(S)
  OBVIOUS
<1>1. \A r \in Runs : RunTyped(r) /\ SendingTyped(r)
  <2> TAKE r \in Runs
  <2>1. run[r] = NoRun /\ sending[r] = <<>>
    BY DEF AgentsInit
  <2>2. "args" \in DOMAIN NoRun /\ NoRun.args = 0 /\ NoRun.status \in Statuses /\ NoRun.steps = <<>>
    BY DEF NoRun, Statuses
  <2> QED
    BY <1>0, <2>1, <2>2, StepsAssumption DEF RunTyped, SendingTyped, Told
<1>2. crm \in Crm
  <2>1. /\ [c \in Discovered |-> [mode |-> "none", email |-> FALSE]] \in [Discovered -> Snapshot]
        /\ [c \in Companies |-> NoReactivation] \in [Companies -> Reactivation]
    BY RowBoundsAssumption DEF Snapshot, NoReactivation, Reactivation
  <2>2. /\ [c \in Discovered |-> "PENDING_REVIEW"] \in [Discovered -> CandidateStatuses]
        /\ [c \in Companies |-> "none"] \in [Companies -> FollowUpStages]
        /\ Companies \ Discovered \in SUBSET Companies
    BY DEF CandidateStatuses, FollowUpStages
  <2> QED
    BY <1>0, <2>1, <2>2 DEF OutreachInit, FirstCrm, Crm, CandidateStatuses, FollowUpStages
<1>3. OutreachTypeOK
  <2>1. crm.drafts = <<>> /\ crm.messages = <<>> /\ \A c \in Companies : crm.reactivation[c] = NoReactivation
    BY DEF OutreachInit, FirstCrm
  <2>2. NoReactivation.draft = 0 /\ NoReactivation.status = "none"
    BY DEF NoReactivation
  <2> QED
    BY <1>0, <1>2, <2>1, <2>2, RowBoundsAssumption DEF OutreachInit, OutreachTypeOK
<1>4. MailTypes
  <2>1. mails = <<>> /\ crm.messages = <<>> /\ Answered = {}
    BY <1>0 DEF OutreachInit, FirstCrm, Answered
  <2> QED
    BY <1>0, <2>1, FS_EmptySet, RowBoundsAssumption DEF MailTypes
<1> QED
  BY <1>1, <1>3, <1>4 DEF TeamTypes, RunTypes, AgentsInit

-----------------------------------------------------------------------------
(* Types of the missions, the website's requests and the sources *)

LinkTypes == link \subseteq [mission: Missions, entity: Entity] /\ dropped \subseteq Runs

LEMMA EntitiesTyped ==
  ASSUME AgentInv, RunTypes, NEW r \in Runs
  PROVE  /\ CandidateOf(r) \in Entity /\ RunItself(r) \in Entity
         /\ \A i \in Results(r) : ResultOf(r, i) \in Entity
<1>1. CandidateOf(r) \in Entity /\ RunItself(r) \in Entity
  BY StepsAssumption DEF CandidateOf, RunItself, Entity
<1>2. \A i \in Results(r) : i \in 0..MaxSteps
  <2> DEFINE steps == run[r].steps
  <2>1. PICK S : steps \in Seq(S)
    BY DEF AgentInv, AgentRowsOK
  <2>2. Len(steps) <= MaxSteps
    BY DEF RunTypes, RunTyped
  <2>3. Results(r) \subseteq DOMAIN steps
    BY DEF Results
  <2> HIDE DEF steps
  <2> QED
    BY <2>1, <2>2, <2>3, StepsAssumption
<1> QED
  BY <1>1, <1>2 DEF ResultOf, Entity

LEMMA LinkAdded ==
  ASSUME LinkTypes, NEW m \in Missions, NEW e \in Entity
  PROVE  Linked(m, e) \subseteq [mission: Missions, entity: Entity]
BY DEF Linked, LinkTypes

LEMMA SyncedTyped ==
  ASSUME MissionRowsOK, AgentInv, RunTypes, LinkTypes, NEW r \in Runs
  PROVE  Synced(r) \subseteq [mission: Missions, entity: Entity]
<1>1. newest[r] \subseteq Missions
  BY DEF MissionRowsOK
<1>2. {ResultOf(r, i) : i \in Results(r)} \subseteq Entity
  BY EntitiesTyped
<1> QED
  BY <1>1, <1>2 DEF Synced, LinkTypes

LEMMA LinkTypesKeep ==
  MissionInv /\ AgentInv /\ TeamTypes /\ LinkTypes /\ [GrowthNext]_growthVars => LinkTypes'
<1> SUFFICES ASSUME MissionInv, AgentInv, TeamTypes, LinkTypes, [GrowthNext]_growthVars
    PROVE  LinkTypes'
  OBVIOUS
<1>0. MissionRowsOK /\ RunTypes
  BY DEF MissionInv, TeamTypes
<1>1. CASE UNCHANGED <<link, dropped>>
  BY <1>1 DEF LinkTypes
<1>2. CASE LifeStep
  BY <1>1, <1>2 DEF LifeStep, CreateMission, EditMission, ChangeStatus, GeneratePlan, ApprovePlan, Only
<1>3. ASSUME NEW m \in Missions, NEW r \in Runs, BeginStart(m, r) \/ StartForMission(m, r)
      PROVE  LinkTypes'
  BY <1>1, <1>3 DEF BeginStart, StartForMission, Only
<1>7. ASSUME NEW m \in Missions, LinkPublication(m)
      PROVE  LinkTypes'
  <2>1. PICK type \in {"package", "batch"} : link' = Linked(m, [type |-> type])
    BY <1>7 DEF LinkPublication
  <2>2. [type |-> type] \in Entity
    BY DEF Entity
  <2> QED
    BY <1>7, <2>1, <2>2, LinkAdded DEF LinkPublication, Only, LinkTypes
<1>4. ASSUME NEW r \in Runs, SyncResults(r)
      PROVE  LinkTypes'
  BY <1>0, <1>4, SyncedTyped DEF SyncResults, LinkTypes
<1>5. ASSUME NEW r \in Runs, ApproverDies(r)
      PROVE  LinkTypes'
  BY <1>5 DEF ApproverDies, LinkTypes
<1>6. ASSUME NEW request \in starting, Starting(request)
      PROVE  LinkTypes'
  <2>0. request.run \in Runs /\ request.mission \in Missions
    BY <1>0 DEF MissionRowsOK
  <2>1. CandidateOf(request.run) \in Entity /\ RunItself(request.run) \in Entity
    BY <1>0, <2>0, EntitiesTyped
  <2>2. CASE LinkCandidate(request)
    BY <2>0, <2>1, <2>2, LinkAdded DEF LinkCandidate, LinkTypes
  <2>3. CASE RunAgent(request)
    BY <1>1, <2>3 DEF RunAgent
  <2>4. CASE LinkRun(request)
    BY <2>0, <2>1, <2>4, LinkAdded DEF LinkRun, LinkTypes
  <2>5. CASE LinkResults(request)
    BY <1>0, <2>0, <2>5, SyncedTyped DEF LinkResults, LinkTypes
  <2>6. CASE StarterDies(request)
    BY <2>0, <2>6 DEF StarterDies, LinkTypes
  <2> QED
    BY <1>6, <2>2, <2>3, <2>4, <2>5, <2>6 DEF Starting
<1> QED
  BY <1>1, <1>2, <1>3, <1>4, <1>5, <1>6, <1>7, GrowthSteps DEF MissionsNext, StartsStep, growthVars, missionVars

\* A visit under way has counted stored ones only, and itself.
InboundTypes ==
  /\ told \in Routes \cup {"none"} /\ score.of \subseteq Stored
  /\ \A v \in Visits : visit[v].at = "open" => visit[v].sees \subseteq Stored \cup {v}

LEMMA InboundTypesKeep ==
  InquiryInv /\ VisitInv /\ InboundTypes /\ [InboundNext]_inboundVars => InboundTypes'
<1> SUFFICES ASSUME InquiryInv, VisitInv, InboundTypes, [InboundNext]_inboundVars
    PROVE  InboundTypes'
  OBVIOUS
<1>1. CASE UNCHANGED <<told, visit, score>>
  BY <1>1 DEF InboundTypes, Stored
<1>2. ASSUME NEW q \in Inquiries, InquiryStep(q), UNCHANGED <<visit, score>>
      PROVE  InboundTypes'
  <2>1. CASE CommitInquiry(q)
    <3>1. inquiry[q].route \in Routes \cup {"none"}
      BY DEF InquiryInv, InquiryTypes, InquiryRow
    <3>2. told' \in Routes \cup {"none"}
      BY <2>1, <3>1 DEF CommitInquiry, InboundTypes
    <3> QED
      BY <1>2, <3>2 DEF InboundTypes, Stored
  <2>2. CASE ~CommitInquiry(q)
    BY <1>1, <1>2, <2>2 DEF InquiryStep, Receive, Triage, RollBack, RowsStay
  <2> QED
    BY <2>1, <2>2
<1>3. ASSUME NEW v \in Visits, BeginVisit(v), told' = told
      PROVE  InboundTypes'
  <2> DEFINE row == [[visit[v] EXCEPT !.at = "open"] EXCEPT !.sees = Stored \cup {v}]
  <2>1. visit[v] \in VisitRow /\ visit[v].at = "new"
    BY <1>3 DEF VisitInv, BeginVisit
  <2>2. row.at = "open" /\ row.sees = Stored \cup {v}
    BY <2>1 DEF VisitRow
  <2>3. visit' = [visit EXCEPT ![v] = row] /\ score' = score
    BY <1>3, <2>1 DEF BeginVisit, VisitRow
  <2> HIDE DEF row
  <2>4. visit'[v] = row /\ \A w \in Visits \ {v} : visit'[w] = visit[w]
    BY <2>3 DEF VisitInv
  <2>5. Stored' = Stored
    BY <2>1, <2>2, <2>4 DEF Stored
  <2> QED
    BY <1>3, <2>2, <2>3, <2>4, <2>5 DEF InboundTypes
<1>4. ASSUME NEW v \in Visits, EndVisit(v), told' = told
      PROVE  InboundTypes'
  <2>1. \A w \in Visits : /\ visit'[w].sees = visit[w].sees
                          /\ visit'[w].at = IF w = v THEN "stored" ELSE visit[w].at
    <3> TAKE w \in Visits
    <3>1. visit[w] \in VisitRow
      BY DEF VisitInv
    <3>2. visit'[w] = IF w = v THEN [visit[v] EXCEPT !.at = "stored"]
                      ELSE IF visit[w].at = "open" THEN [visit[w] EXCEPT !.overtaken = TRUE] ELSE visit[w]
      BY <1>4 DEF EndVisit
    <3> QED
      BY <3>1, <3>2 DEF VisitRow
  <2>2. Stored' = Stored \cup {v}
    BY <2>1 DEF Stored
  <2>3. score'.of = visit[v].sees /\ visit[v].at = "open"
    BY <1>4 DEF EndVisit
  <2> QED
    BY <1>4, <2>1, <2>2, <2>3 DEF InboundTypes
<1> QED
  BY <1>1, <1>2, <1>3, <1>4 DEF InboundNext, inboundVars

SyncStatuses == {"RUNNING", "SUCCEEDED", "FAILED"}
\* A source has failures since its last success exactly when it has an error.
SourceRow ==
  {s \in [failures: 0..10, error: {"", "SOURCE"}, due: BOOLEAN] : s.failures = 0 <=> s.error = ""}
MarketTypes ==
  /\ found \subseteq Notices \cup Entries
  /\ "source" \in DOMAIN profile /\ profile.source \in SourceRow
  /\ "source" \in DOMAIN maps /\ maps.source \in SourceRow
  /\ \E S : sync \in Seq(S)
  /\ \A i \in DOMAIN sync : "status" \in DOMAIN sync[i] /\ sync[i].status \in SyncStatuses

LEMMA SourceTold ==
  ASSUME NEW s \in SourceRow
  PROVE  /\ Succeeded(s) \in SourceRow /\ Failed(s) \in SourceRow /\ [s EXCEPT !.due = TRUE] \in SourceRow
<1>1. /\ s.failures \in 0..10 /\ (s.failures = 0 <=> s.error = "") /\ s.due \in BOOLEAN
      /\ s \in [failures: 0..10, error: {"", "SOURCE"}, due: BOOLEAN]
  BY DEF SourceRow
<1>2. Succeeded(s) \in SourceRow
  <2>1. Succeeded(s).failures = 0 /\ Succeeded(s).error = ""
    BY DEF Succeeded
  <2>2. Succeeded(s) \in [failures: 0..10, error: {"", "SOURCE"}, due: BOOLEAN]
    BY DEF Succeeded
  <2> QED
    BY <2>1, <2>2 DEF SourceRow
<1>3. Failed(s) \in SourceRow
  <2> DEFINE n == MinOf(s.failures + 1, 10)
  <2>1. n \in 0..10 /\ n # 0
    <3>1. \A k \in 0..10 : MinOf(k + 1, 10) \in 1..10
      BY DEF MinOf
    <3>2. n \in 1..10
      BY <1>1, <3>1
    <3> HIDE DEF n
    <3> QED
      BY <3>2
  <2>2. Failed(s) = [failures |-> n, error |-> "SOURCE", due |-> FALSE]
    BY DEF Failed
  <2> HIDE DEF n
  <2>3. Failed(s).failures = n /\ Failed(s).error = "SOURCE"
    BY <2>2
  <2>4. Failed(s) \in [failures: 0..10, error: {"", "SOURCE"}, due: BOOLEAN]
    BY <2>1, <2>2
  <2> QED
    BY <2>1, <2>3, <2>4 DEF SourceRow
<1>4. [s EXCEPT !.due = TRUE] \in SourceRow
  <2> DEFINE t == [s EXCEPT !.due = TRUE]
  <2>1. t \in [failures: 0..10, error: {"", "SOURCE"}, due: BOOLEAN]
    BY <1>1
  <2>2. t.failures = s.failures /\ t.error = s.error
    BY <1>1
  <2> HIDE DEF t
  <2>3. t \in SourceRow
    BY <1>1, <2>1, <2>2 DEF SourceRow
  <2> QED
    BY <2>3 DEF t
<1> QED
  BY <1>2, <1>3, <1>4

LEMMA SyncWritten ==
  ASSUME MarketTypes, NEW i \in DOMAIN sync, NEW status \in SyncStatuses,
         sync' = [sync EXCEPT ![i] = [@ EXCEPT !.status = status, !.worker = "done"]]
  PROVE  /\ \E S : sync' \in Seq(S)
         /\ \A k \in DOMAIN sync' : "status" \in DOMAIN sync'[k] /\ sync'[k].status \in SyncStatuses
<1> DEFINE row == [sync[i] EXCEPT !.status = status, !.worker = "done"]
<1>1. PICK S : sync \in Seq(S)
  BY DEF MarketTypes
<1>2. sync' = [sync EXCEPT ![i] = row]
  OBVIOUS
<1>3. "status" \in DOMAIN row /\ row.status = status
  BY DEF MarketTypes
<1> HIDE DEF row
<1>4. sync \in Seq(S \cup {row}) /\ row \in S \cup {row}
  BY <1>1
<1>5. sync' \in Seq(S \cup {row})
  BY <1>2, <1>4, ElementWritten
<1>6. DOMAIN sync' = DOMAIN sync /\ \A k \in DOMAIN sync : sync'[k] = IF k = i THEN row ELSE sync[k]
  BY <1>2
<1> QED
  BY <1>3, <1>5, <1>6 DEF MarketTypes

LEMMA MarketTypesKeep == MarketTypes /\ [MarketsNext]_marketVars => MarketTypes'
<1> SUFFICES ASSUME MarketTypes, [MarketsNext]_marketVars PROVE MarketTypes'
  OBVIOUS
<1>1. ASSUME UNCHANGED sync,
             found' \subseteq Notices \cup Entries,
             "source" \in DOMAIN profile', profile'.source \in SourceRow,
             "source" \in DOMAIN maps', maps'.source \in SourceRow
      PROVE  MarketTypes'
  BY <1>1 DEF MarketTypes
<1>2. CASE UNCHANGED <<profile, found, maps, sync>>
  BY <1>2 DEF MarketTypes
<1>3. CASE DiscoveryNext /\ UNCHANGED sync
  <2>1. CASE StartScan \/ HalfHourPasses
    BY <1>2, <1>3, <2>1 DEF StartScan, HalfHourPasses
  <2>2. CASE DayPasses
    BY <1>1, <1>3, <2>2, SourceTold DEF DayPasses, MarketTypes
  <2>3. CASE SwitchProfile
    BY <1>1, <1>3, <2>3 DEF SwitchProfile, MarketTypes
  <2>4. ASSUME NEW i \in DOMAIN scan, ScanStep(i) PROVE MarketTypes'
    <3>1. CASE Ingest(i)
      BY <1>1, <1>3, <3>1, SourceTold DEF Ingest, MarketTypes
    <3>2. CASE RecordFailure(i)
      BY <1>1, <1>3, <3>2, SourceTold DEF RecordFailure, MarketTypes
    <3>3. CASE ScannerDies(i)
      BY <1>2, <1>3, <3>3 DEF ScannerDies
    <3> QED
      BY <2>4, <3>1, <3>2, <3>3 DEF ScanStep
  <2>5. ASSUME NEW e \in Entries, EnterByHand(e) PROVE MarketTypes'
    BY <1>3, <2>5 DEF EnterByHand, MarketTypes
  <2> QED
    BY <1>3, <2>1, <2>2, <2>3, <2>4, <2>5 DEF DiscoveryNext
<1>4. CASE MapsNext /\ UNCHANGED sync
  <2>1. CASE ConfigureMaps
    BY <1>1, <1>4, <2>1 DEF ConfigureMaps, MarketTypes
  <2>2. CASE AskMaps
    BY <1>1, <1>4, <2>2 DEF AskMaps, MarketTypes
  <2>3. CASE MapsAnswer
    BY <1>1, <1>4, <2>3, SourceTold DEF MapsAnswer, MarketTypes
  <2>4. CASE DayPasses
    BY <1>1, <1>4, <2>4, SourceTold DEF DayPasses, MarketTypes
  <2> QED
    BY <1>4, <2>1, <2>2, <2>3, <2>4 DEF MapsNext
<1>5. CASE TradeNext /\ UNCHANGED discoveryVars
  <2>1. CASE SourceCorrects
    BY <1>2, <1>5, <2>1 DEF SourceCorrects, discoveryVars
  <2>2. CASE StartSync
    <3> DEFINE row == [status |-> "RUNNING", got |-> figure, worker |-> "asks"]
    <3>1. PICK S : sync \in Seq(S)
      BY DEF MarketTypes
    <3>2. sync' = Append(sync, row)
      BY <2>2 DEF StartSync
    <3>3. "status" \in DOMAIN row /\ row.status \in SyncStatuses
      BY DEF SyncStatuses
    <3> HIDE DEF row
    <3>4. sync \in Seq(S \cup {row}) /\ row \in S \cup {row}
      BY <3>1
    <3>5. /\ sync' \in Seq(S \cup {row}) /\ DOMAIN sync' = DOMAIN sync \cup {Len(sync) + 1}
          /\ sync'[Len(sync) + 1] = row /\ \A i \in DOMAIN sync : sync'[i] = sync[i]
      BY <3>2, <3>4, AppendProperties
    <3> QED
      BY <1>5, <3>3, <3>5 DEF MarketTypes, discoveryVars
  <2>3. ASSUME NEW i \in DOMAIN sync, FinishSync(i) \/ BreakSync(i) PROVE MarketTypes'
    <3>1. PICK status \in SyncStatuses :
            sync' = [sync EXCEPT ![i] = [@ EXCEPT !.status = status, !.worker = "done"]]
      BY <2>3 DEF FinishSync, BreakSync, SyncStatuses
    <3> QED
      BY <1>5, <3>1, SyncWritten DEF MarketTypes, discoveryVars
  <2> QED
    BY <1>5, <2>1, <2>2, <2>3 DEF TradeNext
<1>6. CASE UNCHANGED <<discoveryVars, tradeVars>>
  BY <1>2, <1>6 DEF discoveryVars, tradeVars
<1> QED
  BY <1>3, <1>4, <1>5, <1>6 DEF MarketsNext, marketVars, tradeVars

LEMMA SideBegins ==
  SideInit => LinkTypes /\ InboundTypes /\ MarketTypes
<1> SUFFICES ASSUME SideInit PROVE LinkTypes /\ InboundTypes /\ MarketTypes
  OBVIOUS
<1>1. LinkTypes
  BY DEF SideInit, MissionsInit, LinkTypes
<1>2. InboundTypes
  BY DEF SideInit, InboundInit, InboundTypes
<1>3. MarketTypes
  <2>1. Source \in SourceRow
    <3>1. Source.failures = 0 /\ Source.error = ""
      BY DEF Source
    <3>2. Source \in [failures: 0..10, error: {"", "SOURCE"}, due: BOOLEAN]
      BY DEF Source
    <3> QED
      BY <3>1, <3>2 DEF SourceRow
  <2>2. sync = <<>> /\ sync \in Seq({}) /\ DOMAIN sync = {} /\ found = {}
    BY DEF SideInit, MarketsInit
  <2>3. /\ "source" \in DOMAIN profile /\ profile.source = Source
        /\ "source" \in DOMAIN maps /\ maps.source = Source
    BY DEF SideInit, MarketsInit
  <2> QED
    BY <2>1, <2>2, <2>3 DEF MarketTypes
<1> QED
  BY <1>1, <1>2, <1>3

(* Every row keeps its type and what it names exists, within the bounds of the steps *)
(* and messages a run may leave (GrowthTypeOK), for every number of companies, runs, *)
(* missions, requests and notices.                                                   *)
THEOREM GrowthAlwaysTyped == SideSpec => []GrowthTypeOK
<1> DEFINE TeamInv == MissionInv /\ RunInv /\ Reviewers /\ AgentInv /\ TeamTypes /\ LinkTypes
           SiteInv == InquiryInv /\ SignalInv /\ VisitInv /\ InboundTypes
           SourceInv == MarketInv /\ MarketTypes
<1>1. SideInit => TeamInv /\ SiteInv /\ SourceInv
  BY SideBegins, MissionsBegin, RunsBegin, AgentsBeginWell, TeamTypesBegin, InquiriesBegin, SignalsBegin,
     MarketsBegin DEF SideInit
<1>2. TeamInv /\ [GrowthNext]_growthVars => TeamInv'
  BY MissionsKeep, RunsKeep, AgentInvKeeps, TeamTypesKeep, LinkTypesKeep
<1>3. SiteInv /\ [InboundNext]_inboundVars => SiteInv'
  BY InquiriesKeep, SignalsKeep, InboundTypesKeep
<1>4. SourceInv /\ [MarketsNext]_marketVars => SourceInv'
  BY ScansKeep, FiguresKeep, ApprovalsKeep, MarketTypesKeep DEF MarketInv
<1>5. [SideNext]_sideVars => /\ [GrowthNext]_growthVars /\ [InboundNext]_inboundVars
                             /\ [MarketsNext]_marketVars
  BY DEF SideNext, sideVars
<1>6. TeamInv /\ SiteInv /\ SourceInv => GrowthTypeOK
  <2> SUFFICES ASSUME TeamInv, SiteInv, SourceInv PROVE GrowthTypeOK
    OBVIOUS
  <2>1. OutreachTypeOK
    BY DEF TeamTypes
  <2>2. AgentsTypeOK
    <3>1. \A r \in Runs : Len(sending[r]) <= 1
      <4> TAKE r \in Runs
      <4>1. SendingTyped(r) /\ Len(<<>>) = 0
        BY DEF TeamTypes, RunTypes
      <4>2. CASE sending[r] = <<>>
        BY <4>1, <4>2
      <4>3. CASE sending[r] # <<>>
        <5>1. Len(sending[r]) = 1
          BY <4>1, <4>3 DEF SendingTyped
        <5> QED
          BY <5>1
      <4> QED
        BY <4>2, <4>3
    <3> QED
      BY <3>1 DEF TeamTypes, RunTypes, RunTyped, Told, AgentsTypeOK, Reviewers
  <2>3. MissionsTypeOK
    <3>1. mission \in [Missions -> [status: MissionStatuses, terms: Terms]] /\ plan \in Seq(Plan)
          /\ newest \in [Runs -> SUBSET Missions]
      BY DEF MissionInv, MissionRowsOK
    <3>2. \A p \in DOMAIN plan : plan[p] \in Plan
      BY <3>1
    <3> QED
      BY <3>1, <3>2 DEF LinkTypes, MissionsTypeOK, Plan
  <2>4. InboundTypeOK
    BY DEF InquiryInv, InquiryTypes, InquiryRow, Ats, InboundTypes, InboundTypeOK
  <2>5. MarketsTypeOK
    <3>1. \A i \in DOMAIN scan : scan[i].status \in {"RUNNING", "SUCCEEDED", "FAILED"}
      BY ScanFacts DEF MarketInv, ScanRow
    <3> QED
      BY <3>1 DEF MarketTypes, SourceRow, SyncStatuses, MarketsTypeOK
  <2> QED
    BY <2>1, <2>2, <2>3, <2>4, <2>5 DEF GrowthTypeOK
<1> HIDE DEF TeamInv, SiteInv, SourceInv
<1> QED
  BY <1>1, <1>2, <1>3, <1>4, <1>5, <1>6, PTL DEF SideSpec
===============================================================================
