----------------------------- MODULE MCPublishing -----------------------------
(* Instances of Publishing for TLC. *)
EXTENDS Publishing, TLC

CONSTANTS t1, t2, c1, a1, r1, r2

\* One request, made by a user.
OneContentOf == t1 :> c1
OneAccountOf == t1 :> a1

\* Two requests of one content: the second finds the content PUBLISHED by the
\* first.
SharedContentOf == t1 :> c1 @@ t2 :> c1
SharedAccountOf == t1 :> a1 @@ t2 :> a1

RequestSymmetry == Permutations(Requests)
=============================================================================
