-------------------------- MODULE FencedPublication --------------------------
(*****************************************************************************)
(* What the publish-task engine promises for one publish request, without    *)
(* its history, errors, schedule or messages.  A request is submitted once;  *)
(* an executor acquires it with a fresh fence number; only the holder of the *)
(* newest fence may publish it; an acquisition that is refused or released   *)
(* fails the request until it is reopened; publication and withdrawal are    *)
(* final.                                                                    *)
(*****************************************************************************)
EXTENDS Naturals

CONSTANTS Keys, MaxFence

VARIABLES
  phase,    \* absent, open, failed, published or withdrawn
  fence,    \* the number of acquisitions so far
  holder,   \* the fence in force, 0 when none
  winner    \* the fence that published, 0 when none

fenceVars == <<phase, fence, holder, winner>>

FencedInit ==
  /\ phase = [k \in Keys |-> "absent"]
  /\ fence = [k \in Keys |-> 0]
  /\ holder = [k \in Keys |-> 0]
  /\ winner = [k \in Keys |-> 0]

\* Requests are submitted by one transaction, several at once.
Submit(K) ==
  /\ \A k \in K : phase[k] = "absent"
  /\ phase' = [k \in Keys |-> IF k \in K THEN "open" ELSE phase[k]]
  /\ UNCHANGED <<fence, holder, winner>>

\* A refused acquisition consumes its number and holds nothing.
Acquire(k, granted) ==
  /\ phase[k] = "open" /\ holder[k] = 0 /\ fence[k] < MaxFence
  /\ phase' = [phase EXCEPT ![k] = IF granted THEN "open" ELSE "failed"]
  /\ fence' = [fence EXCEPT ![k] = @ + 1]
  /\ holder' = [holder EXCEPT ![k] = IF granted THEN fence[k] + 1 ELSE 0]
  /\ UNCHANGED winner

\* Holders give up or are timed out, several at once.
Release(K) ==
  /\ \A k \in K : holder[k] # 0
  /\ phase' = [k \in Keys |-> IF k \in K THEN "failed" ELSE phase[k]]
  /\ holder' = [k \in Keys |-> IF k \in K THEN 0 ELSE holder[k]]
  /\ UNCHANGED <<fence, winner>>

Reopen(k) ==
  /\ phase[k] = "failed" /\ fence[k] < MaxFence
  /\ phase' = [phase EXCEPT ![k] = "open"]
  /\ UNCHANGED <<fence, holder, winner>>

Publish(k) ==
  /\ phase[k] = "open" /\ holder[k] # 0
  /\ phase' = [phase EXCEPT ![k] = "published"]
  /\ winner' = [winner EXCEPT ![k] = holder[k]]
  /\ holder' = [holder EXCEPT ![k] = 0]
  /\ UNCHANGED fence

Withdraw(k) ==
  /\ phase[k] = "open"
  /\ phase' = [phase EXCEPT ![k] = "withdrawn"]
  /\ holder' = [holder EXCEPT ![k] = 0]
  /\ UNCHANGED <<fence, winner>>

FencedNext ==
  \/ \E k \in Keys : Reopen(k) \/ Publish(k) \/ Withdraw(k)
  \/ \E k \in Keys, granted \in BOOLEAN : Acquire(k, granted)
  \/ \E K \in SUBSET Keys : Submit(K) \/ Release(K)

FencedSpec == FencedInit /\ [][FencedNext]_fenceVars
=============================================================================
