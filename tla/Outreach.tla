------------------------------- MODULE Outreach -------------------------------
(**********************************************************************************)
(* The companies an organization may write to, backend/apps/growth: review of     *)
(* discovered candidates, enrichment (enrichment.py, website_enrichment.py),      *)
(* follow-ups, email drafts, reactivation of old customers (reactivation.py),     *)
(* opportunity reviews and the CRM hand-off (services.py), and the email itself   *)
(* (outreach_events.py).                                                          *)
(* The committed rows are one record, crm, and each operation is an operator from *)
(* rows to rows: a page commits it at once, an agent's transaction runs several   *)
(* (AgentRuns).  The TargetAccount of a discovered company exists once its        *)
(* candidate is in the follow-up; the other companies have an account and no      *)
(* candidate (procurement buyers, seeded customers).                              *)
(**********************************************************************************)
EXTENDS Integers, Sequences, FiniteSets, SequencesExt

CONSTANTS
  Companies,
  Discovered,    \* those that are candidates
  Online,        \* the candidates with a website
  Evidence,      \* Evidence[c]: what c's latest intent signal says
  MaxDrafts, MaxMails  \* bounds

Tiers == {"OBSERVATION", "NURTURE", "STRATEGIC"}

ASSUME CompaniesAssumption == Discovered \subseteq Companies /\ Online \subseteq Discovered
\* tier: of tier_for_account; covered: evidence_coverage reaches the hand-off's 15.
ASSUME EvidenceAssumption ==
  Evidence \in [Companies -> [signal: BOOLEAN, tier: Tiers, covered: BOOLEAN]]

ASSUME RowBoundsAssumption == MaxDrafts \in Nat /\ MaxMails \in Nat

VARIABLES
  crm,    \* the committed rows
  week,   \* the OUTREACH_COOLDOWN_DAYS days since a message pass with it
  mails   \* what the provider was asked to deliver

outreachVars == <<crm, week, mails>>

Snapshot == [mode: {"none", "IMPORTED_FACTS_REVIEW", "WEBSITE_PUBLIC"}, email: BOOLEAN]
Draft == [company: Companies, origin: {"outreach", "reactivation"}, status: {"DRAFT", "APPROVED"}]
Message == [company: Companies, draft: 1..MaxDrafts, status: {"SENT", "FAILED"}, week: Nat]
Reactivation == [tier: Tiers \cup {"none"}, draft: 0..MaxDrafts,
                 status: {"none", "SELECTED", "DRAFTED", "APPROVED"}]
Review == [company: Companies, decision: {"PRIORITIZE", "OBSERVE", "PROCESSED"}, handoff: 0..MaxDrafts]

Crm == [candidate: [Discovered -> {"PENDING_REVIEW", "ACCEPTED", "DISMISSED"}],
        snapshot: [Discovered -> Snapshot],
        accounts: SUBSET Companies,
        stage: [Companies -> {"none", "QUALIFIED", "EMAIL_1_SENT"}],
        drafts: Seq(Draft), messages: Seq(Message),
        reactivation: [Companies -> Reactivation], reviews: Seq(Review)]

NoReactivation == [tier |-> "none", draft |-> 0, status |-> "none"]
FirstCrm ==
  [candidate |-> [c \in Discovered |-> "PENDING_REVIEW"],
   snapshot |-> [c \in Discovered |-> [mode |-> "none", email |-> FALSE]],
   accounts |-> Companies \ Discovered, stage |-> [c \in Companies |-> "none"],
   drafts |-> <<>>, messages |-> <<>>,
   reactivation |-> [c \in Companies |-> NoReactivation], reviews |-> <<>>]

OutreachInit == crm = FirstCrm /\ week = 0 /\ mails = <<>>

-----------------------------------------------------------------------------
(* Operations on the rows w.  Can... is what makes the code return or raise.   *)

CanReview(w, c) == w.candidate[c] = "PENDING_REVIEW"
Reviewed(w, c, status) == [w EXCEPT !.candidate[c] = status]

CanEnrich(w, c) == w.candidate[c] = "ACCEPTED"

\* prepare_candidate_enrichment: a snapshot of another mode is written over, and
\* with it the contacts read from the website.
Enriched(w, c) ==
  IF w.snapshot[c].mode = "IMPORTED_FACTS_REVIEW" THEN w
  ELSE [w EXCEPT !.snapshot[c] = [mode |-> "IMPORTED_FACTS_REVIEW", email |-> FALSE]]

\* prepare_website_enrichment, when the page could be read.
WebsiteRead(w, c, found) == [w EXCEPT !.snapshot[c] = [mode |-> "WEBSITE_PUBLIC", email |-> found]]

HasSnapshot(w, c) == w.snapshot[c].mode # "none"

\* get_or_create of the FollowUp, QUALIFIED by default.
FollowUpAdded(w, c) ==
  IF w.stage[c] # "none" THEN w ELSE [w EXCEPT !.stage[c] = "QUALIFIED"]
AddedToFollowUp(w, c) == [FollowUpAdded(w, c) EXCEPT !.accounts = @ \cup {c}]

DraftsOf(w, c) == {d \in DOMAIN w.drafts : w.drafts[d].company = c}
LatestDraft(w, c) == CHOOSE d \in DraftsOf(w, c) : \A e \in DraftsOf(w, c) : e <= d

NewDraft(w, c, origin) ==
  [w EXCEPT !.drafts = Append(@, [company |-> c, origin |-> origin, status |-> "DRAFT"])]
DraftApproved(w, d) == [w EXCEPT !.drafts[d].status = "APPROVED"]

\* create_outreach_draft: whatever the latest draft is, it is returned.
Drafted(w, c) == IF DraftsOf(w, c) # {} THEN w ELSE NewDraft(w, c, "outreach")

InCooldown_mut(w, c) ==
  \E i \in DOMAIN w.messages :
    w.messages[i].company = c /\ w.messages[i].status = "FAILED" /\ w.messages[i].week = week
InCooldown(w, c) ==
  \E i \in DOMAIN w.messages :
    w.messages[i].company = c /\ w.messages[i].status = "SENT" /\ w.messages[i].week = week

\* The checks of send_email, in their order; the first that fails is the error.
CanSend(w, c) ==
  /\ c \in Discovered
  /\ c \in w.accounts /\ DraftsOf(w, c) # {} /\ ~InCooldown(w, c) /\ w.snapshot[c].email

\* record_sent: the message, and if it was sent the follow-up's stage, whatever it was.
Sent(w, c, d, status) ==
  LET recorded == [w EXCEPT !.messages = Append(@,
        [company |-> c, draft |-> d, status |-> status, week |-> week])] IN
  IF status = "FAILED" \/ w.stage[c] = "none" THEN recorded
  ELSE [recorded EXCEPT !.stage[c] = "EMAIL_1_SENT"]

-----------------------------------------------------------------------------
(* The pages.  Each is one short transaction.                                   *)

Commit(w) == crm' = w /\ UNCHANGED <<week, mails>>

ReviewCandidate(c) ==
  /\ CanReview(crm, c)
  /\ \E status \in {"ACCEPTED", "DISMISSED"} : Commit(Reviewed(crm, c, status))

PrepareEnrichment(c) == CanEnrich(crm, c) /\ Commit(Enriched(crm, c))

\* The page may be unreadable, or name no email.
ReadWebsite(c) ==
  /\ CanEnrich(crm, c) /\ c \in Online
  /\ \E found \in BOOLEAN : Commit(WebsiteRead(crm, c, found))

FollowUpCandidate(c) == HasSnapshot(crm, c) /\ Commit(AddedToFollowUp(crm, c))
FollowUp(c) == c \in crm.accounts /\ Commit(FollowUpAdded(crm, c))

WriteDraft(c) ==
  /\ c \in crm.accounts /\ Len(crm.drafts) < MaxDrafts
  /\ Commit(Drafted(crm, c))

SelectForReactivation_mut(c) ==
  /\ c \in crm.accounts
  /\ Commit([crm EXCEPT !.reactivation[c] = [@ EXCEPT !.tier = Evidence[c].tier, !.status = "SELECTED"]])
\* select_for_reactivation: update_or_create; draft and status stay as they are.
SelectForReactivation(c) ==
  /\ c \in crm.accounts
  /\ Commit([crm EXCEPT !.reactivation[c].tier = Evidence[c].tier,
                        !.reactivation[c].status = IF @ = "none" THEN "SELECTED" ELSE @])

DraftReactivation(c) ==
  /\ crm.reactivation[c].tier \notin {"none", "OBSERVATION"} /\ crm.reactivation[c].draft = 0
  /\ Len(crm.drafts) < MaxDrafts
  /\ LET w == NewDraft(crm, c, "reactivation") IN
     Commit([w EXCEPT !.reactivation[c].draft = Len(w.drafts), !.reactivation[c].status = "DRAFTED"])

ApproveReactivation(c) ==
  LET d == crm.reactivation[c].draft IN
  /\ d # 0
  /\ Commit([DraftApproved(crm, d) EXCEPT !.reactivation[c].status = "APPROVED"])

\* record_opportunity_review: every review is kept, the latest one counts.
ReviewOpportunity(c) ==
  /\ c \in crm.accounts /\ Evidence[c].signal /\ Len(crm.reviews) < MaxDrafts
  /\ \E decision \in {"PRIORITIZE", "OBSERVE", "PROCESSED"} :
       Commit([crm EXCEPT !.reviews =
         Append(@, [company |-> c, decision |-> decision, handoff |-> 0])])

\* create_mock_crm_handoff: one per review, with the draft of the first call.
HandOff(c) ==
  LET of == {i \in DOMAIN crm.reviews : crm.reviews[i].company = c} IN
  /\ of # {} /\ Evidence[c].covered
  /\ LET i == CHOOSE i \in of : \A j \in of : j <= i IN
     /\ crm.reviews[i].decision = "PRIORITIZE"
     /\ \E d \in DraftsOf(crm, c) :
          Commit([DraftApproved(crm, d) EXCEPT !.reviews[i].handoff = IF @ = 0 THEN d ELSE @])

\* Bound: one week shows what the cooldown does.
WeekPasses == week < 1 /\ week' = week + 1 /\ UNCHANGED <<crm, mails>>

CandidatePage(c) ==
  ReviewCandidate(c) \/ PrepareEnrichment(c) \/ ReadWebsite(c) \/ FollowUpCandidate(c)
DraftPage(c) ==
  WriteDraft(c) \/ SelectForReactivation(c) \/ DraftReactivation(c) \/ ApproveReactivation(c)
CustomerPage(c) == FollowUp(c) \/ ReviewOpportunity(c) \/ HandOff(c)
OutreachNext ==
  \/ \E c \in Discovered : CandidatePage(c)
  \/ \E c \in Companies : DraftPage(c) \/ CustomerPage(c)

OutreachTypeOK ==
  /\ crm \in Crm /\ week \in 0..1
  /\ Len(crm.drafts) <= MaxDrafts /\ Len(crm.messages) <= MaxMails
  /\ \A c \in Companies : LET r == crm.reactivation[c] IN
       (r.draft # 0) = (r.status \in {"DRAFTED", "APPROVED"})

===============================================================================
