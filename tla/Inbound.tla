------------------------------- MODULE Inbound -------------------------------
(*********************************************************************************)
(* What a website sends, backend/apps/growth: inquiries (inbound_rfq.py,         *)
(* inbound_triage.py) and visits (lead_intent.py).  One customer and one lead    *)
(* page; the rows of two customers have nothing in common.  A request is one     *)
(* transaction at READ COMMITTED: what it reads was committed by others, what it *)
(* writes others see when it commits, and only the unique indexes and the row    *)
(* locks order two of them.  The index of the account makes those that find no   *)
(* account wait for the one that creates it; nothing does so for its contacts.   *)
(*********************************************************************************)
EXTENDS Integers, FiniteSets

CONSTANTS
  Inquiries,  \* requests of the webhook, repeated ones included
  Request,    \* Request[q]: the request id, NoId if the site sent none
  Person,     \* Person[q]: the contact's name
  Text,       \* Text[q]: email and message; the signal's content hash
  Clear,      \* Clear[t]: an email and a need can be read from the text t
  NoId,
  Visits      \* visits of the lead page, each of another page of the site

ASSUME InquiriesAssumption == IsFiniteSet(Inquiries)

VARIABLES
  inquiry,  \* the webhook's transactions
  rfq,      \* the inquiries whose InboundRfq row is committed
  contacts, \* contacts[n]: the Contact rows with that name
  heeded,  \* the committed IntentSignal rows: text and time
  lead,     \* the InboundLead row
  told,     \* the route in the event lead.routed, "none" before there is one
  visit, score  \* the visit transactions, and the visits the score was computed from

inboundVars == <<inquiry, rfq, contacts, heeded, lead, told, visit, score>>

Names == {Person[q] : q \in Inquiries}
Routes == {"ACQUISITION", "CUSTOMER_SERVICE"}
UnderWay == {q \in Inquiries : inquiry[q].at \in {"open", "triaged"}}
Known == lead.route # "none"

NewInquiry == [at |-> "new", among |-> {}, adds |-> FALSE, route |-> "none", overtaken |-> FALSE,
               time |-> 0]

InboundInit ==
  /\ inquiry = [q \in Inquiries |-> NewInquiry]
  /\ rfq = {} /\ contacts = [n \in Names |-> 0] /\ heeded = {}
  /\ lead = [route |-> "none", doubtful |-> FALSE] /\ told = "none"
  /\ visit = [v \in Visits |-> [at |-> "new", sees |-> {}, overtaken |-> FALSE]]
  /\ score = [of |-> {}, doubtful |-> FALSE]

-----------------------------------------------------------------------------
\* growth_unique_rfq_request_id; asked first, and enforced when the row is inserted.
Recorded_mut(q) == FALSE
Recorded(q) == Request[q] # NoId /\ \E p \in rfq : Request[p] = Request[q]

SetInquiry(q, at) == inquiry' = [inquiry EXCEPT ![q].at = at]
RowsStay == UNCHANGED <<rfq, contacts, heeded, lead, told>>

\* The first reads of record_inbound_rfq: the request id, then the contact by name;
\* two rows of one name raise MultipleObjectsReturned.
Receive(q) ==
  /\ inquiry[q].at = "new"
  /\ IF Recorded(q) THEN SetInquiry(q, "answered")
     ELSE /\ Known \/ UnderWay = {}
          /\ IF contacts[Person[q]] > 1 THEN SetInquiry(q, "refused")
             ELSE inquiry' = [inquiry EXCEPT ![q] = [@ EXCEPT
                    !.at = "open", !.among = UnderWay, !.adds = contacts[Person[q]] = 0]]
  /\ RowsStay

Latest_mut(seen) == CHOOSE s \in seen : \A t \in seen : s.time <= t.time
Latest(seen) == CHOOSE s \in seen : \A t \in seen : t.time <= s.time
RouteOf(seen) == IF Clear[Latest(seen).text] THEN "ACQUISITION" ELSE "CUSTOMER_SERVICE"

\* The signal is inserted, unless its text is known, and the lead routed by what can
\* be seen then.  A transaction that inserts the same text makes this one wait.
Triage(q) ==
  LET now == Cardinality({p \in Inquiries : inquiry[p].time > 0}) + 1
      repeated == \E s \in heeded : s.text = Text[q]
      seen == heeded \cup (IF repeated THEN {} ELSE {[text |-> Text[q], time |-> now]}) IN
  /\ inquiry[q].at = "open"
  /\ \A p \in UnderWay \ {q} : inquiry[p].at = "triaged" => Text[p] # Text[q]
  /\ inquiry' = [inquiry EXCEPT ![q] = [@ EXCEPT
       !.at = "triaged", !.route = RouteOf(seen), !.time = IF repeated THEN -1 ELSE now]]
  /\ RowsStay

Overtake(rows, q) ==
  [p \in Inquiries |-> IF p # q /\ rows[p].at = "triaged" THEN [rows[p] EXCEPT !.overtaken = TRUE]
                       ELSE rows[p]]

\* The key of lead.routed is the lead's: only the first routing is told.  (An
\* rfq.created event goes out for every inquiry, with its own route.)
CommitInquiry(q) ==
  LET i == inquiry[q] IN
  /\ i.at = "triaged" /\ ~Recorded(q)
  /\ inquiry' = Overtake([inquiry EXCEPT ![q].at = "answered"], q)
  /\ rfq' = rfq \cup {q}
  /\ contacts' = [contacts EXCEPT ![Person[q]] = IF i.adds THEN @ + 1 ELSE @]
  /\ heeded' = heeded \cup (IF i.time > 0 THEN {[text |-> Text[q], time |-> i.time]} ELSE {})
  /\ lead' = [route |-> i.route, doubtful |-> i.overtaken]
  /\ told' = IF told = "none" THEN i.route ELSE told

\* The index refuses the row, or the process dies: nothing is kept.
RollBack(q) ==
  /\ inquiry[q].at \in {"open", "triaged"}
  /\ SetInquiry(q, IF inquiry[q].at = "triaged" /\ Recorded(q) THEN "refused" ELSE "dead")
  /\ RowsStay

InquiryStep(q) == Receive(q) \/ Triage(q) \/ CommitInquiry(q) \/ RollBack(q)

-----------------------------------------------------------------------------
\* record_lead_visit: the score is computed from the visits it can see and saved
\* with the commit; the candidate's row lock makes the savers take turns.
Stored == {v \in Visits : visit[v].at = "stored"}
BeginVisit(v) ==
  /\ visit[v].at = "new"
  /\ visit' = [visit EXCEPT ![v] = [@ EXCEPT !.at = "open", !.sees = Stored \cup {v}]]
  /\ UNCHANGED score
EndVisit(v) ==
  /\ visit[v].at = "open"
  /\ visit' = [w \in Visits |->
       IF w = v THEN [visit[v] EXCEPT !.at = "stored"]
       ELSE IF visit[w].at = "open" THEN [visit[w] EXCEPT !.overtaken = TRUE] ELSE visit[w]]
  /\ score' = [of |-> visit[v].sees, doubtful |-> visit[v].overtaken]

InboundNext ==
  \/ \E q \in Inquiries : InquiryStep(q) /\ UNCHANGED <<visit, score>>
  \/ \E v \in Visits : (BeginVisit(v) \/ EndVisit(v))
                       /\ UNCHANGED <<inquiry, rfq, contacts, heeded, lead, told>>

InboundSpec == InboundInit /\ [][InboundNext]_inboundVars

InboundTypeOK ==
  /\ \A q \in Inquiries : /\ inquiry[q].at \in {"new", "open", "triaged", "answered", "refused", "dead"}
                          /\ inquiry[q].route \in Routes \cup {"none"}
  /\ rfq \subseteq Inquiries /\ contacts \in [Names -> Nat] /\ told \in Routes \cup {"none"}
  /\ score.of \subseteq Stored

-----------------------------------------------------------------------------
Overlapped(p, q) == p \in inquiry[q].among \/ q \in inquiry[p].among

(* A request id is recorded once, an answered inquiry is recorded, and one that was    *)
(* refused either lost to its own repetition or meets a contact that two inquiries     *)
(* under way at the same time had both created (inbound_rfq.py: Contact has no index). *)
InquiriesAreRecordedOnce ==
  /\ \A p, q \in rfq : p # q => Request[p] = NoId \/ Request[p] # Request[q]
  /\ \A q \in Inquiries : inquiry[q].at = "answered" => q \in rfq \/ Recorded(q)
  /\ \A q \in Inquiries : inquiry[q].at = "refused" => Recorded(q) \/ contacts[Person[q]] > 1
  /\ \A n \in Names : contacts[n] > 1 =>
       \E p, q \in rfq : p # q /\ Person[p] = n /\ Person[q] = n /\ Overlapped(p, q)

(* The lead's route is that of its latest signal and the score counts every visit,    *)
(* unless the transaction that saved them last was overtaken by another's commit; by  *)
(* lead.routed the gateway is told the first route only (inbound_triage.py,           *)
(* lead_intent.py).                                                                   *)
ReadingsMissOnlyOvertakers ==
  /\ \A s \in heeded : (\A t \in heeded : t.time <= s.time) /\ ~lead.doubtful =>
       lead.route = (IF Clear[s.text] THEN "ACQUISITION" ELSE "CUSTOMER_SERVICE")
  /\ score.of = Stored \/ score.doubtful
  /\ told # lead.route => Cardinality(rfq) > 1
=============================================================================
