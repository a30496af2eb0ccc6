----------------------------- MODULE MCChannels ------------------------------
(* The accounts and the connectors for TLC, one after the other: while one   *)
(* of them is tried the other rests.                                         *)
(* Accounts: two accounts, two authorizations and two confirmation           *)
(* requests, of which one history uses as many as MaxActivity allows: a      *)
(* second account, an edit or a rotation of the key is paid for with rows    *)
(* of the token store.  The names are interchangeable, and only safety is    *)
(* checked.                                                                  *)
EXTENDS SocialChannels, TLC

CONSTANTS a1, a2, t1, t2, q1, q2, MaxActivity,
          Desks   \* what is tried of {"accounts", "connectors"}
VARIABLES desk

NameSymmetry ==
    Permutations(Accounts) \cup Permutations(Attempts) \cup Permutations(Requests)

Involved == {a \in Accounts : Exists(a) \/ \E t \in Attempts : a \in session[t].offers}
Activity ==
    Len(token) + edits + Cardinality(Involved)
    + Cardinality({t \in Attempts : attempt[t] # "none"})
    + Cardinality({q \in Requests : confirm[q] # Idle})
    + (IF sweep = Idle THEN 0 ELSE 1) + (IF rotation.step = "idle" THEN 0 ELSE 2)
BoundedActivity == Activity <= MaxActivity

\* While the accounts are tried the connectors rest with some fixed request.
Somewhere == CHOOSE r \in Request : TRUE
MCInit ==
    /\ desk \in Desks
    /\ ChannelsInit
    /\ desk = "accounts" =>
          /\ job = Somewhere /\ options = {"private"}
          /\ app = [enabled |-> TRUE, secret |-> TRUE, store |-> TRUE, audited |-> TRUE]
MCNext ==
    /\ UNCHANGED desk
    /\ \/ desk = "accounts" /\ AccountsNext /\ UNCHANGED connectorVars
       \/ desk = "connectors" /\ ConnectorsNext /\ UNCHANGED accountVars
MCSpec == MCInit /\ [][MCNext]_<<channelRows, desk>>
=============================================================================
