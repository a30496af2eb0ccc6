------------------------------- MODULE Missions -------------------------------
(***********************************************************************************)
(* Growth missions, backend/apps/growth: their life and plans                      *)
(* (mission_services.py, mission_planning.py), the requests that start agents      *)
(* for them (mission_views.py, agent_views.py), the links that say what was done   *)
(* for a mission, and the figures read from the links (mission_attribution.py).    *)
(* A starting request is not one transaction: the candidate, the run, the link to  *)
(* the run and the links to its results are commits of their own, between which    *)
(* it may die.  Pausing or ending a mission stops no run.  The mission's own pages *)
(* start agents for a RUNNING mission only; the agents' page starts them, and the  *)
(* publishing pages link packages and batches, whatever its status.                *)
(***********************************************************************************)
EXTENDS AgentRuns

CONSTANTS
  Missions,
  Terms,      \* what a draft mission's form may say
  MissionOf,  \* MissionOf[r]: the mission in the key of a content_strategy or social_ops run
  MaxPlans, MaxStarts  \* bounds

ASSUME TermsAssumption == Terms # {}

VARIABLES
  mission,   \* the GrowthMission rows
  plan,      \* the MissionPlan rows of all missions, oldest first
  link,      \* the MissionEntityLink rows
  newest,    \* newest[r]: the mission of the newest link to run r, {} before there is one
  starting,  \* the requests that start an agent, between their commits
  dropped    \* runs with a request that died before it linked the results

missionVars == <<mission, plan, link, newest, starting, dropped>>

MissionStatuses == {"none", "DRAFT", "PENDING_APPROVAL", "RUNNING", "PAUSED", "COMPLETED", "TERMINATED"}
PlanStatuses == {"DRAFT", "APPROVED", "SUPERSEDED"}
\* What a link names: the candidate of a run (step 0), the run, a step's result, or a
\* package or batch, of which one stands for all.
Entity == [type: {"candidate", "run", "result"}, run: Runs, step: 0..MaxSteps]
          \cup [type: {"package", "batch"}]
CandidateOf(r) == [type |-> "candidate", run |-> r, step |-> 0]
RunItself(r) == [type |-> "run", run |-> r, step |-> 0]
ResultOf(r, i) == [type |-> "result", run |-> r, step |-> i]

PlansOf(m) == {p \in DOMAIN plan : plan[p].mission = m}
HasApprovedPlan(m) == \E p \in PlansOf(m) : plan[p].status = "APPROVED"
Links(m) == {l.entity : l \in {k \in link : k.mission = m}}

-----------------------------------------------------------------------------
(* The mission and its plans.  Every operation holds the mission's row lock.    *)

Only(changed) == UNCHANGED <<outreachVars, agentVars>> /\ changed

CreateMission(m) ==
  /\ mission[m].status = "none"
  /\ \E t \in Terms : mission' = [mission EXCEPT ![m] = [status |-> "DRAFT", terms |-> t]]
  /\ Only(UNCHANGED <<plan, link, newest, starting, dropped>>)

CanEdit_mut(m) == mission[m].status \in {"DRAFT", "PENDING_APPROVAL"}
CanEdit(m) == mission[m].status = "DRAFT"

\* update_draft_mission
EditMission(m) ==
  /\ CanEdit(m)
  /\ \E t \in Terms : mission' = [mission EXCEPT ![m].terms = t]
  /\ Only(UNCHANGED <<plan, link, newest, starting, dropped>>)

\* transition_mission.  COMPLETED asks for an approved plan only, not for a status.
Allowed == {<<"DRAFT", "PENDING_APPROVAL">>, <<"RUNNING", "PAUSED">>, <<"PAUSED", "RUNNING">>}
CanBecome(m, status) ==
  CASE status = "TERMINATED" -> mission[m].status \notin {"none", "COMPLETED", "TERMINATED"}
    [] status = "COMPLETED" -> HasApprovedPlan(m)
    [] OTHER -> <<mission[m].status, status>> \in Allowed

ChangeStatus(m) ==
  /\ \E status \in MissionStatuses \ {"none"} :
       /\ CanBecome(m, status)
       /\ mission' = [mission EXCEPT ![m].status = status]
  /\ Only(UNCHANGED <<plan, link, newest, starting, dropped>>)

\* generate_mission_plan, in any status; what fails leaves nothing behind.
GeneratePlan(m) ==
  /\ mission[m].status # "none" /\ Len(plan) < MaxPlans
  /\ plan' = Append(plan, [mission |-> m, status |-> "DRAFT", terms |-> mission[m].terms])
  /\ mission' = [mission EXCEPT ![m].status = IF @ = "DRAFT" THEN "PENDING_APPROVAL" ELSE @]
  /\ Only(UNCHANGED <<link, newest, starting, dropped>>)

\* approve_mission_plan
ApprovePlan(p) ==
  LET m == plan[p].mission IN
  /\ mission[m].status = "PENDING_APPROVAL"
  /\ plan' = [q \in DOMAIN plan |-> IF plan[q].mission # m THEN plan[q] ELSE
                [plan[q] EXCEPT !.status = IF q = p THEN "APPROVED" ELSE "SUPERSEDED"]]
  /\ mission' = [mission EXCEPT ![m].status = "RUNNING"]
  /\ Only(UNCHANGED <<link, newest, starting, dropped>>)

-----------------------------------------------------------------------------
(* Links *)

\* link_mission_entity: get_or_create.
Linked(m, entity) == link \cup {[mission |-> m, entity |-> entity]}

\* The steps whose output names an entity of _STEP_LINK_MAP.
Linkable == {"enrich_candidate", "website_enrich_candidate", "add_to_follow_up", "draft_outreach",
             "send_email", "create_content_brief"}
Results(r) ==
  {i \in DOMAIN run[r].steps :
     run[r].steps[i].outcome = "succeeded" /\ run[r].steps[i].action.tool \in Linkable}

\* sync_mission_links_from_agent_run: the mission linked to the run last gets
\* all its results, those of earlier missions too.
Synced(r) == link \cup [mission: newest[r], entity: {ResultOf(r, i) : i \in Results(r)}]

\* The approval page's request, once the run was continued.
SyncResults(r) ==
  /\ r \in unsynced /\ sending[r] = <<>>
  /\ unsynced' = unsynced \ {r} /\ link' = Synced(r)
  /\ UNCHANGED <<outreachVars, run, sending, reviewing, approved, mission, plan, newest, starting,
                 dropped>>

ApproverDies(r) ==
  /\ r \in unsynced /\ sending[r] = <<>>
  /\ unsynced' = unsynced \ {r} /\ dropped' = dropped \cup {r}
  /\ UNCHANGED <<outreachVars, run, sending, reviewing, approved, mission, plan, link, newest,
                 starting>>

\* ChannelPackageFromPlatformContentView, ChannelPackageBatchPrepareView and
\* PublishBatchCreateView: the mission only has to exist.
LinkPublication(m) ==
  /\ mission[m].status # "none"
  /\ \E type \in {"package", "batch"} : link' = Linked(m, [type |-> type])
  /\ Only(UNCHANGED <<mission, plan, newest, starting, dropped>>)

-----------------------------------------------------------------------------
(* MissionStartOutreachView, MissionStartContentStrategyView and AgentRunStartView *)

Startable(m, r) ==
  \/ AgentType[r] = "proactive" /\ crm.candidate[Subject[r]] = "ACCEPTED"
  \/ AgentType[r] = "content_strategy" /\ MissionOf[r] = m

\* The status is read without a lock.
BeginStart(m, r) ==
  /\ mission[m].status = "RUNNING" /\ Startable(m, r) /\ Cardinality(starting) < MaxStarts
  /\ starting' = starting \cup {[mission |-> m, run |-> r, at |-> "checked"]}
  /\ Only(UNCHANGED <<mission, plan, link, newest, dropped>>)

\* AgentRunStartView: the mission is in the run's key, and only has to exist.
StartForMission(m, r) ==
  /\ mission[m].status # "none" /\ Cardinality(starting) < MaxStarts
  /\ AgentType[r] \in {"content_strategy", "social_ops"} /\ MissionOf[r] = m
  /\ starting' = starting \cup {[mission |-> m, run |-> r, at |-> "linked"]}
  /\ Only(UNCHANGED <<mission, plan, link, newest, dropped>>)

MoveOn(request, at) ==
  starting' = (starting \ {request}) \cup (IF at = "done" THEN {} ELSE {[request EXCEPT !.at = at]})

LinkCandidate(request) ==
  /\ request.at = "checked"
  /\ link' = IF AgentType[request.run] = "proactive"
             THEN Linked(request.mission, CandidateOf(request.run)) ELSE link
  /\ MoveOn(request, "linked")
  /\ UNCHANGED <<outreachVars, agentVars, mission, plan, newest, dropped>>

RunAgent(request) ==
  /\ request.at = "linked"
  /\ IF run[request.run].status = "none" THEN CreateRun(request.run, 0) /\ UNCHANGED starting
     ELSE StartAgain(request.run, 0) /\ MoveOn(request, "ran")
  /\ UNCHANGED <<mission, plan, link, newest, dropped>>

LinkRun(request) ==
  /\ request.at = "ran"
  /\ link' = Linked(request.mission, RunItself(request.run))
  /\ newest' = IF link' = link THEN newest ELSE [newest EXCEPT ![request.run] = {request.mission}]
  /\ MoveOn(request, "run linked")
  /\ UNCHANGED <<outreachVars, agentVars, mission, plan, dropped>>

LinkResults(request) ==
  /\ request.at = "run linked"
  /\ link' = Synced(request.run)
  /\ MoveOn(request, "done")
  /\ UNCHANGED <<outreachVars, agentVars, mission, plan, newest, dropped>>

StarterDies(request) ==
  /\ MoveOn(request, "done")
  /\ dropped' = dropped \cup {request.run}
  /\ UNCHANGED <<outreachVars, agentVars, mission, plan, link, newest>>

-----------------------------------------------------------------------------
MissionsInit ==
  /\ mission = [m \in Missions |-> [status |-> "none", terms |-> CHOOSE t \in Terms : TRUE]]
  /\ plan = <<>> /\ link = {} /\ newest = [r \in Runs |-> {}] /\ starting = {} /\ dropped = {}

LifeStep ==
  \/ \E m \in Missions : CreateMission(m) \/ EditMission(m) \/ ChangeStatus(m) \/ GeneratePlan(m)
  \/ \E p \in DOMAIN plan : ApprovePlan(p)
Starting(request) ==
  \/ LinkCandidate(request) \/ RunAgent(request) \/ LinkRun(request) \/ LinkResults(request)
  \/ StarterDies(request)
StartsStep ==
  \/ \E m \in Missions, r \in Runs : BeginStart(m, r) \/ StartForMission(m, r)
  \/ \E m \in Missions : LinkPublication(m)
  \/ \E request \in starting : Starting(request)
  \/ \E r \in Runs : SyncResults(r) \/ ApproverDies(r)
MissionsNext == LifeStep \/ StartsStep

\* Pages, and agents that work for no mission, go on beside it.
GrowthNext ==
  \/ MissionsNext
  \/ WorkGoesOn /\ UNCHANGED missionVars
  \/ \E r \in Runs : MissionOf[r] \notin Missions /\ StartStep(r) /\ UNCHANGED missionVars
  \/ (OutreachNext \/ WeekPasses) /\ UNCHANGED <<agentVars, missionVars>>
GrowthSpec ==
  /\ OutreachInit /\ AgentsInit /\ MissionsInit
  /\ [][GrowthNext]_<<outreachVars, agentVars, missionVars>>

MissionsTypeOK ==
  /\ mission \in [Missions -> [status: MissionStatuses, terms: Terms]]
  /\ \A p \in DOMAIN plan : plan[p] \in [mission: Missions, status: PlanStatuses, terms: Terms]
  /\ link \subseteq [mission: Missions, entity: Entity] /\ newest \in [Runs -> SUBSET Missions]
  /\ dropped \subseteq Runs

-----------------------------------------------------------------------------
\* build_mission_attribution: emails_sent counts the linked messages that were sent.
CreditedMails(m) ==
  {e \in Links(m) : e.type = "result" /\ run[e.run].steps[e.step].action.tool = "send_email"}

\* The candidates an agent wrote to, its run and what the run did.
OfOutreach(e) == e.type \in {"candidate", "run", "result"} /\ AgentType[e.run] = "proactive"

(* A mission is RUNNING, PAUSED or COMPLETED on exactly one approved plan, the *)
(* plan was made from what the mission says now, and no customer was looked    *)
(* for or written to for a mission before its plan was approved.  (COMPLETED   *)
(* may follow TERMINATED.)  A content strategy and a social run may be started *)
(* for a mission without one, and packages and batches linked to it: the       *)
(* agents' and the publishing pages read no status (agent_views.py:307,        *)
(* growth/views.py:1265), although the mission's own page starts a strategy    *)
(* for a running mission only (mission_views.py:279).                          *)
MissionsRunTheirPlan ==
  \A m \in Missions : LET approvedPlans == {p \in PlansOf(m) : plan[p].status = "APPROVED"} IN
    /\ mission[m].status \in {"RUNNING", "PAUSED", "COMPLETED"} => Cardinality(approvedPlans) = 1
    /\ \A p \in approvedPlans : plan[p].terms = mission[m].terms
    /\ (\E e \in Links(m) : OfOutreach(e)) => approvedPlans # {}

(* The results of a run are credited to missions that were linked to it, and every *)
(* mail recorded in a run that is linked is credited to one, unless a request is   *)
(* still to link it or died first (agent_views.py, mission_views.py).              *)
CreditFollowsTheRun ==
  /\ \A m \in Missions : \A e \in Links(m) : e.type = "result" => RunItself(e.run) \in Links(m)
  /\ \A r \in Runs : \A i \in DOMAIN run[r].steps :
       LET s == run[r].steps[i] IN
       s.action.tool = "send_email" /\ s.outcome = "succeeded" /\ newest[r] # {} =>
         \/ \E m \in Missions : ResultOf(r, i) \in CreditedMails(m)
         \/ r \in unsynced \cup dropped
         \/ \E request \in starting : request.run = r
=============================================================================
