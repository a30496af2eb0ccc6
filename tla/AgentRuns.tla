------------------------------ MODULE AgentRuns ------------------------------
(**************************************************************************************)
(* The growth agents, backend/apps/growth/agent: a run asks its planner for           *)
(* the next action until the planner is done, an action fails, or an action           *)
(* needs a person's approval (runtime.py); what it did is kept step by step           *)
(* (persistent.py), and a run goes on where it stopped when a person approves         *)
(* (agent_views.py, resume.py), when it is started again, or, for the companies       *)
(* to write to, every night (tasks.py).  continue_agent_run is one transaction        *)
(* under the run's row lock: everything it did is lost with it, but not the email     *)
(* that left.  A run that mails is therefore two actions, BeginMail and EndMail;      *)
(* any other continuation is one.                                                     *)
(* The planner is a script, or an AI (mode AI_AGENT) that may choose any tool for     *)
(* any company.  An AI is given sequences of at most MaxChoices actions of AIChoices; *)
(* one that mails changes no row first.                                               *)
(**************************************************************************************)
EXTENDS Outreach

CONSTANTS
  Runs,        \* by idempotency key
  AgentType,        \* AgentType[r]: the agent_type
  Subject,     \* Subject[r]: the company of a proactive run
  Mode,        \* Mode[r]: execution_mode, fixed when the row is created
  Arguments,   \* Arguments[r]: the values the callers of r start it with, {0} when it takes none
  AIChoices, MaxChoices, MaxSteps, MaxReviewers  \* bounds

ASSUME SubjectAssumption == \A r \in Runs : AgentType[r] = "proactive" => Subject[r] \in Discovered
\* The types somebody starts (nothing creates a run of the customer_service type).
ASSUME AgentTypeAssumption ==
  AgentType \in [Runs -> {"proactive", "content_strategy", "content_creation", "platform_variants",
                         "social_ops"}]
ASSUME ChoicesAssumption ==
  \A r \in Runs : Mode[r] = "AI_AGENT" =>
    \A a \in AIChoices[AgentType[r]] : a = [tool |-> a.tool, arg |-> a.arg]
ASSUME ModeAssumption == Mode \in [Runs -> {"AUTOMATION", "AI_AGENT"}]
ASSUME StepsAssumption == MaxSteps \in Nat

VARIABLES
  run,       \* the AgentRun rows with their steps
  sending,   \* the transactions that wait for the mail provider
  reviewing, \* the approval pages between reading the run and deciding
  approved,  \* which actions were approved, and in how many decisions
  unsynced   \* runs whose request still has to link results to a mission

agentVars == <<run, sending, reviewing, approved, unsynced>>

Statuses == {"none", "RUNNING", "WAITING_APPROVAL", "COMPLETED", "BUDGET_EXCEEDED", "FAILED", "REJECTED"}
Outcomes == {"succeeded", "failed", "blocked_approval"}
Act(tool, arg) == [tool |-> tool, arg |-> arg]
Step(a, outcome) == [action |-> a, outcome |-> outcome]

\* Tool.requires_approval: writes, unless the tool says otherwise.
Gated == {"send_email", "create_content_brief", "enrich_content_brief", "mark_content_brief_ready",
          "trigger_master_generation", "create_platform_variants", "schedule_social_post"}

-----------------------------------------------------------------------------
(* The scripts, for the values v of the caller; a resumed run uses the first caller's. *)

OnCompany(tools, c) == [i \in DOMAIN tools |-> Act(tools[i], c)]
ProactivePlan(c) ==
  IF c \in Online
  THEN OnCompany(<<"enrich_candidate", "website_enrich_candidate", "verify_candidate_contacts",
                   "add_to_follow_up", "draft_outreach", "send_email">>, c)
  ELSE OnCompany(<<"enrich_candidate", "judge_candidate", "add_to_follow_up", "draft_outreach",
                   "send_email">>, c)
StrategyPlan(v) == <<Act("analyze_content_opportunities", v), Act("create_content_brief", v)>>
CreationPlan(v) ==
  <<Act("enrich_content_brief", v), Act("mark_content_brief_ready", 0),
    Act("trigger_master_generation", 0)>>
VariantsPlan(v) == <<Act("create_platform_variants", v)>>
SocialPlan(v) ==
  <<Act("analyze_post_performance", 0), Act("propose_publish_calendar", 0),
    Act("schedule_social_post", v)>>

Script(r, v) ==
  CASE AgentType[r] = "proactive" -> ProactivePlan(Subject[r])
    [] AgentType[r] = "content_strategy" -> StrategyPlan(0)
    [] AgentType[r] = "content_creation" -> CreationPlan(v)
    [] AgentType[r] = "platform_variants" -> VariantsPlan(0)
    [] AgentType[r] = "social_ops" -> SocialPlan(0)

Plans(r, v) ==
  IF Mode[r] = "AUTOMATION" THEN {Script(r, v)}
  ELSE UNION {[1..n -> AIChoices[AgentType[r]]] : n \in 0..MaxChoices}

-----------------------------------------------------------------------------
(* The tools.  luck is what the outside world answers: whether the website can be *)
(* read and names an email, whether another app accepts the call.                 *)
Luck == {"refused", "bare", "email"}

\* Those that begin with _candidate; send_email does so in CanSend.
CandidateTools == {"enrich_candidate", "website_enrich_candidate", "verify_candidate_contacts",
                   "judge_candidate", "add_to_follow_up", "draft_outreach"}

CanDo(w, a, luck) ==
  /\ a.tool \in CandidateTools => a.arg \in Discovered
  /\ CASE a.tool = "enrich_candidate" -> CanEnrich(w, a.arg)
       [] a.tool = "website_enrich_candidate" ->
            a.arg \notin Online \/ (CanEnrich(w, a.arg) /\ luck # "refused")
       [] a.tool \in {"verify_candidate_contacts", "add_to_follow_up"} -> HasSnapshot(w, a.arg)
       [] a.tool = "draft_outreach" -> a.arg \in w.accounts
       [] a.tool = "send_email" -> FALSE   \* see BeginMail
       [] a.tool \in Gated \ {"send_email"} -> luck # "refused"
       [] OTHER -> TRUE

Done(w, a, luck) ==
  CASE a.tool = "enrich_candidate" -> Enriched(w, a.arg)
    [] a.tool = "website_enrich_candidate" ->
         IF a.arg \in Online THEN WebsiteRead(w, a.arg, luck = "email") ELSE w
    [] a.tool = "add_to_follow_up" -> AddedToFollowUp(w, a.arg)
    [] a.tool = "draft_outreach" -> Drafted(w, a.arg)
    [] OTHER -> w

Completed(r) == {run[r].steps[i].action : i \in {j \in DOMAIN run[r].steps :
                                                   run[r].steps[j].outcome = "succeeded"}}

\* The approval token is a hash of the goal, the tool and its arguments.
Granted_mut(a, approvals) == \E b \in approvals : b.tool = a.tool
Granted(a, approvals) == a \in approvals

\* One turn of AgentRuntime.run for the planner's action a; e is what the
\* transaction has done so far.
Turn(r, approvals, luck, e, a) ==
  LET ended(status, outcome) ==
        [e EXCEPT !.status = status, !.steps = Append(@, Step(a, outcome))] IN
  IF e.status # "going" \/ a \in Completed(r) THEN e
  ELSE IF a \in e.seen THEN [e EXCEPT !.status = "FAILED"]
  ELSE IF a.tool \in Gated /\ ~Granted(a, approvals) THEN ended("WAITING_APPROVAL", "blocked_approval")
  ELSE IF a.tool = "send_email" /\ CanSend(e.rows, a.arg) THEN [e EXCEPT !.status = "mail", !.mail = a]
  ELSE IF ~CanDo(e.rows, a, luck) THEN ended("FAILED", "failed")
  ELSE [e EXCEPT !.rows = Done(@, a, luck), !.steps = Append(@, Step(a, "succeeded")),
                 !.seen = @ \cup {a}]

Execute(r, plan, approvals, luck) ==
  FoldLeft(LAMBDA e, a : Turn(r, approvals, luck, e, a),
           [rows |-> crm, steps |-> <<>>, seen |-> {}, status |-> "going", mail |-> Act("", 0)],
           plan)

\* continue_agent_run returns at once for these.
Ended_mut(r) == run[r].status = "COMPLETED"
Ended(r) == run[r].status \in {"REJECTED", "COMPLETED"}

StatusAfter(r, e) ==
  IF e.status # "going" THEN {e.status}
  ELSE IF Mode[r] = "AUTOMATION" THEN {"COMPLETED"} ELSE {"COMPLETED", "BUDGET_EXCEEDED"}

\* The planner's actions up to the end, committed together.
Finish(r, e) ==
  /\ e.status # "mail"
  /\ Len(run[r].steps) + Len(e.steps) <= MaxSteps /\ Len(e.rows.drafts) <= MaxDrafts
  /\ \E status \in StatusAfter(r, e) :
       run' = [run EXCEPT ![r].status = status, ![r].steps = @ \o e.steps]
  /\ crm' = e.rows
  /\ UNCHANGED <<mails, sending>>

\* record_sent asks the provider inside the transaction.
BeginMail(r, e) ==
  /\ e.status = "mail" /\ e.rows = crm
  /\ Len(run[r].steps) + Len(e.steps) < MaxSteps /\ Len(mails) < MaxMails
  /\ mails' = Append(mails, [run |-> r, company |-> e.mail.arg, week |-> week, fate |-> "open",
                             during |-> {i \in DOMAIN mails : mails[i].fate = "open"}])
  /\ sending' = [sending EXCEPT ![r] =
       <<[mail |-> Len(mails) + 1, draft |-> LatestDraft(crm, e.mail.arg), steps |-> e.steps]>>]
  /\ UNCHANGED <<run, crm>>

Continue(r, v, approvals) ==
  IF Ended(r) THEN UNCHANGED <<run, crm, mails, sending>>
  ELSE \E e \in {Execute(r, plan, approvals, luck) : plan \in Plans(r, v), luck \in Luck} :
         Finish(r, e) \/ BeginMail(r, e)

\* The provider's answer is recorded, as SENT or FAILED, and the run goes on: the
\* script is over, an AI may stop or repeat itself.  (Other actions it may choose after
\* its mail in the same transaction, to do or to block on, are left to later ones.)
MailRecorded(r) ==
  LET s == sending[r][1]
      a == Act("send_email", mails[s.mail].company) IN
  /\ \E status \in {"SENT", "FAILED"} :
       /\ crm' = Sent(crm, a.arg, s.draft, status)
       /\ mails' = [mails EXCEPT ![s.mail].fate = IF status = "SENT" THEN "recorded" ELSE "unsent"]
  /\ \E status \in (IF Mode[r] = "AUTOMATION" THEN {"COMPLETED"} ELSE {"COMPLETED", "FAILED"}) :
       run' = [run EXCEPT ![r].status = status,
                          ![r].steps = @ \o s.steps \o <<Step(a, "succeeded")>>]

\* The provider raised, perhaps after it had taken the mail: a failed step.
MailFailed(r) ==
  LET s == sending[r][1]
      a == Act("send_email", mails[s.mail].company) IN
  /\ \E fate \in {"unsent", "lost"} : mails' = [mails EXCEPT ![s.mail].fate = fate]
  /\ run' = [run EXCEPT ![r].status = "FAILED",
                        ![r].steps = @ \o s.steps \o <<Step(a, "failed")>>]
  /\ UNCHANGED crm

\* The process died, or the AI planner raised when it was asked for the next
\* action: everything is rolled back but the mail.
MailLost(r) ==
  /\ mails' = [mails EXCEPT ![sending[r][1].mail].fate = "lost"]
  /\ UNCHANGED <<run, crm>>

EndMail(r) ==
  /\ sending[r] # <<>>
  /\ MailRecorded(r) \/ MailFailed(r) \/ MailLost(r)
  /\ sending' = [sending EXCEPT ![r] = <<>>]
  /\ UNCHANGED <<week, reviewing, approved, unsynced>>

-----------------------------------------------------------------------------
\* get_or_create of the row, a commit of its own.
CreateRun(r, v) ==
  /\ run[r].status = "none"
  /\ run' = [run EXCEPT ![r] = [status |-> "RUNNING", steps |-> <<>>, args |-> v]]
  /\ UNCHANGED <<outreachVars, sending, reviewing, approved, unsynced>>

\* A second start, or a mission's; the caller's values are planned with.
StartAgain(r, v) ==
  /\ run[r].status # "none" /\ sending[r] = <<>>
  /\ Continue(r, v, {})
  /\ UNCHANGED <<week, reviewing, approved, unsynced>>

\* run_proactive_acquisition_day: every accepted candidate, also one that waits.
NightlyRun(r) ==
  /\ AgentType[r] = "proactive" /\ crm.candidate[Subject[r]] = "ACCEPTED"
  /\ StartAgain(r, run[r].args)

Pending(r) == {i \in DOMAIN run[r].steps : run[r].steps[i].outcome = "blocked_approval"}
LastPending(r) == CHOOSE i \in Pending(r) : \A j \in Pending(r) : j <= i

\* AgentRunApproveView reads the run and its last blocked step, unlocked.
OpenReview(r) ==
  /\ run[r].status = "WAITING_APPROVAL" /\ Cardinality(reviewing) < MaxReviewers
  /\ \E decision \in {"approve", "reject"} :
       reviewing' = reviewing \cup
         {[run |-> r, decision |-> decision, action |-> run[r].steps[LastPending(r)].action]}
  /\ UNCHANGED <<outreachVars, run, sending, approved, unsynced>>

\* The row is saved whatever became of it since; the save waits for the row lock.
Reject(review) ==
  /\ review.decision = "reject" /\ sending[review.run] = <<>>
  /\ run' = [run EXCEPT ![review.run].status = "REJECTED"]
  /\ UNCHANGED <<outreachVars, sending, approved, unsynced>>

Approve_mut(review) ==
  LET r == review.run IN
  /\ review.decision = "approve" /\ sending[r] = <<>>
  /\ Continue(r, run[r].args, {review.action})
  /\ approved' = [approved EXCEPT ![r] = [actions |-> @.actions \cup {review.action},
                                          decisions |-> @.decisions + 1]]
  /\ UNCHANGED <<week, unsynced>>
Approve(review) ==
  LET r == review.run IN
  /\ review.decision = "approve" /\ sending[r] = <<>>
  /\ Continue(r, run[r].args, {review.action})
  /\ approved' = [approved EXCEPT ![r] = [actions |-> @.actions \cup {review.action},
                                          decisions |-> @.decisions + 1]]
  /\ unsynced' = unsynced \cup {r}
  /\ UNCHANGED week

Decide ==
  \E review \in reviewing :
    /\ Reject(review) \/ Approve(review)
    /\ reviewing' = reviewing \ {review}

NoRun == [status |-> "none", steps |-> <<>>, args |-> 0]
AgentsInit ==
  /\ run = [r \in Runs |-> NoRun]
  /\ sending = [r \in Runs |-> <<>>] /\ reviewing = {} /\ unsynced = {}
  /\ approved = [r \in Runs |-> [actions |-> {}, decisions |-> 0]]

\* A start for no mission; one for a mission goes on to link the run (see Missions).
StartStep(r) == \E v \in Arguments[r] : CreateRun(r, v) \/ StartAgain(r, v)
WorkGoesOn ==
  \/ \E r \in Runs : NightlyRun(r) \/ OpenReview(r) \/ EndMail(r)
  \/ Decide
AgentsNext == WorkGoesOn \/ \E r \in Runs : StartStep(r)

AgentsTypeOK ==
  /\ \A r \in Runs : /\ run[r].status \in Statuses /\ run[r].args \in Arguments[r] \cup {0}
                     /\ \A i \in DOMAIN run[r].steps : run[r].steps[i].outcome \in Outcomes
  /\ \A r \in Runs : Len(run[r].steps) <= MaxSteps /\ Len(sending[r]) <= 1
  /\ unsynced \subseteq Runs /\ \A review \in reviewing : review.run \in Runs

-----------------------------------------------------------------------------
MailsOf(r) == {i \in DOMAIN mails : mails[i].run = r}

(* Whoever continued a run, and whatever a planner chose: no gated action was done *)
(* and no mail was asked for that a person had not approved in that run, tool and  *)
(* arguments alike, and an approval is good for one mail only.                     *)
ActionsWereApproved ==
  \A r \in Runs :
    /\ \A i \in DOMAIN run[r].steps : LET s == run[r].steps[i] IN
         s.outcome = "succeeded" /\ s.action.tool \in Gated => s.action \in approved[r].actions
    /\ \A i \in MailsOf(r) : Act("send_email", mails[i].company) \in approved[r].actions
    /\ Cardinality(MailsOf(r)) <= approved[r].decisions

(* A run that is REJECTED stays so, whatever page or planner is still at work, and  *)
(* neither it nor a COMPLETED one does anything more.  A COMPLETED run may still be *)
(* rejected by a page that was opened before (agent_views.py, the unlocked read).   *)
EndedRunsRest ==
  [][\A r \in Runs : run[r].status \in {"REJECTED", "COMPLETED"} =>
       /\ run'[r].status \in {run[r].status, "REJECTED"} /\ run'[r].steps = run[r].steps
       /\ {i \in DOMAIN mails' : mails'[i].run = r} = MailsOf(r)]_<<run, mails>>

(* A company gets two mails within the cooldown only when the first was lost to the  *)
(* database (its transaction rolled back or its provider raised), or was still under *)
(* way when the second left (outreach_events.py, acquisition.py: _send_tool).        *)
MailsAreSpaced ==
  \A i, j \in DOMAIN mails :
    /\ i < j /\ mails[i].company = mails[j].company /\ mails[i].week = mails[j].week
    /\ mails[i].fate # "unsent" /\ mails[j].fate # "unsent"
    => mails[i].fate = "lost" \/ i \in mails[j].during
=============================================================================
