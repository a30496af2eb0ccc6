---------------------------- MODULE MCPublishBatch ----------------------------
(* Package d is delegated, x is posted directly. *)
EXTENDS PublishBatch
CONSTANTS d, x
TwoBatches == {1, 2}
SharedSelection == [b \in TwoBatches |-> IF b = 1 THEN {d, x} ELSE {d}]
OneBatch == {1}
DirectSelection == [b \in OneBatch |-> {x}]
=============================================================================
