------------------------------ MODULE MCGrowth ------------------------------
(* The growth side of one organization for TLC, desk by desk.                *)
EXTENDS Growth, AIBudget

CONSTANTS web, plain, buyer,        \* companies
          mailer, guest, strategist, writer, adapter, poster,  \* runs
          m1, m2,                   \* missions
          q1, q2, q3, q4,           \* inquiries
          Desks

VARIABLES desk

Knows == [c \in Companies |-> IF c = buyer
            THEN [signal |-> TRUE, tier |-> "NURTURE", covered |-> TRUE]
            ELSE [signal |-> TRUE, tier |-> "OBSERVATION", covered |-> FALSE]]
TypeOf == [r \in Runs |-> CASE r \in {mailer, guest} -> "proactive" [] r = strategist -> "content_strategy"
             [] r = writer -> "content_creation" [] r = adapter -> "platform_variants"
             [] OTHER -> "social_ops"]
SubjectOf == [r \in Runs |-> IF r = mailer THEN web ELSE plain]
ModeOf == [r \in Runs |-> IF r \in {guest, poster} THEN "AI_AGENT" ELSE "AUTOMATION"]
Given == [r \in Runs |-> IF r = writer THEN {1, 2} ELSE {0}]
PlannerPicks == [k \in {"proactive", "social_ops"} |->
             IF k = "proactive" THEN {Act("send_email", web)}
             ELSE {Act("schedule_social_post", 1), Act("schedule_social_post", 2)}]
KeyNames == [r \in Runs |-> IF r = strategist THEN m1 ELSE "no mission"]

\* q2 repeats q1; q3 and q4 come without an id from the same person.
RequestOf == [q \in Inquiries |-> IF q \in {q1, q2} THEN "id" ELSE NoId]
PersonOf == [q \in Inquiries |-> "ann"]
TextOf == [q \in Inquiries |-> IF q \in {q1, q2, q4} THEN "gears" ELSE "hello"]
ClearTexts == [t \in {"gears", "hello"} |-> t = "gears"]

\* The calls of the AI budget: two jobs, an assist and a plan; the budgets fit two.
KindByName == [c \in Calls |-> CASE c = "plan" -> "plan" [] c = "a1" -> "assist" [] OTHER -> "job"]
UnevenEstimates == [c \in Calls |-> IF Kind[c] = "job" THEN 2 ELSE 1]
\* One bill below and one above what is reserved.
AnyBills == {[tokens |-> 1, micros |-> 1], [tokens |-> 3, micros |-> 3]}

Team == CASE desk = "mails" -> {mailer, guest}
          [] desk = "contents" -> {writer, adapter}
          [] desk = "posts" -> {poster}
          [] desk = "starts" -> {mailer, strategist}
          [] desk = "missions" -> {strategist}
          [] OTHER -> {}
OthersRest == \A r \in Runs \ Team : run'[r] = run[r]

\* Beside the outreach desk the candidates were accepted, and where the desk is
\* about mails, one was prepared by hand.
Accepted == [FirstCrm EXCEPT !.candidate = [c \in Discovered |-> "ACCEPTED"]]
Prepared == Drafted(AddedToFollowUp(WebsiteRead(Accepted, web, TRUE), web), web)

Waiting ==
  LET p == ProactivePlan(web) IN
  [status |-> "WAITING_APPROVAL", args |-> 0,
   steps |-> [i \in DOMAIN p |-> Step(p[i], IF i = Len(p) THEN "blocked_approval" ELSE "succeeded")]]

ApprovedFor(m) == [mission |-> m, status |-> "APPROVED", terms |-> "old"]

MCInit ==
  /\ desk \in Desks
  /\ crm = CASE desk \in {"mails", "starts"} -> Prepared [] desk = "outreach" -> FirstCrm [] OTHER -> Accepted
  /\ week = 0 /\ mails = <<>>
  /\ run = [r \in Runs |-> IF desk \in {"mails", "starts"} /\ r = mailer THEN Waiting ELSE NoRun]
  /\ sending = [r \in Runs |-> <<>>] /\ reviewing = {} /\ unsynced = {}
  /\ approved = [r \in Runs |-> [actions |-> {}, decisions |-> 0]]
  /\ LET going == desk = "starts" IN
     /\ mission = [m \in Missions |-> [status |-> IF going THEN "RUNNING" ELSE "none", terms |-> "old"]]
     /\ plan = IF going THEN <<ApprovedFor(m1), ApprovedFor(m2)>> ELSE <<>>
  /\ link = {} /\ newest = [r \in Runs |-> {}] /\ starting = {} /\ dropped = {}
  /\ InboundInit /\ MarketsInit /\ Init

OutreachDesk == OutreachNext /\ crm'.candidate[plain] = "PENDING_REVIEW" /\ UNCHANGED <<agentVars, missionVars>>
MailsDesk ==
  \/ AgentsNext /\ OthersRest /\ UNCHANGED missionVars
  \/ (WeekPasses \/ PrepareEnrichment(web)) /\ UNCHANGED <<agentVars, missionVars>>
RunsDesk == AgentsNext /\ OthersRest /\ UNCHANGED missionVars
MissionsDesk == LifeStep \/ (StartsStep /\ OthersRest)
StartsDesk ==
  /\ \/ StartsStep
     \/ (OpenReview(mailer) \/ EndMail(mailer) \/ Decide) /\ UNCHANGED missionVars
  /\ OthersRest

Teamwork ==
  \/ desk = "outreach" /\ OutreachDesk
  \/ desk = "mails" /\ MailsDesk
  \/ desk \in {"contents", "posts"} /\ RunsDesk
  \/ desk = "missions" /\ MissionsDesk
  \/ desk = "starts" /\ StartsDesk
InboundDesk ==
  /\ InboundNext
  /\ \/ desk = "inquiries" /\ UNCHANGED visit
     \/ desk = "visits" /\ UNCHANGED inquiry
MarketsDesk ==
  \/ desk = "discovery" /\ DiscoveryNext /\ UNCHANGED <<tradeVars, promotionVars>>
  \/ desk = "maps" /\ MapsNext /\ UNCHANGED <<tradeVars, promotionVars>>
  \/ desk = "trade" /\ TradeNext /\ UNCHANGED <<discoveryVars, promotionVars>>
  \/ desk = "promotion" /\ PromotionNext /\ UNCHANGED <<discoveryVars, tradeVars>>

MCNext ==
  /\ UNCHANGED desk
  /\ \/ Teamwork /\ UNCHANGED <<inboundVars, marketVars, vars>>
     \/ InboundDesk /\ UNCHANGED <<growthVars, marketVars, vars>>
     \/ MarketsDesk /\ UNCHANGED <<growthVars, inboundVars, vars>>
     \/ desk = "budget" /\ Next /\ UNCHANGED <<growthVars, inboundVars, marketVars>>

MCSpec == MCInit /\ [][MCNext]_<<growthVars, inboundVars, marketVars, vars, desk>>

Tried == Cardinality({r \in Runs : run[r].status # "none"})
Effort(r) == Len(run[r].steps) + approved[r].decisions
           + Cardinality({review \in reviewing : review.run = r})
OfRuns == {l \in link : l.entity.type \in {"candidate", "run", "result"}}
BoundedEffort ==
  CASE desk = "contents" -> Tried <= 1 /\ \A r \in Team : Effort(r) <= 9
    [] desk = "posts" -> Effort(poster) <= 6
    [] desk = "mails" -> Effort(mailer) + Effort(guest) <= 9 + Len(crm.messages)
    [] desk = "missions" -> Cardinality(link) <= 1 /\ dropped = {} /\ Effort(strategist) <= 2
    [] desk = "starts" -> Effort(mailer) <= 9 /\ Effort(strategist) <= 2
                          /\ Cardinality({l.entity.run : l \in OfRuns} \cup dropped) <= 1
                          /\ Cardinality(link \ OfRuns) <= 1
                          /\ (Tried = 2 => Effort(mailer) = 6)
    [] OTHER -> TRUE
=============================================================================
