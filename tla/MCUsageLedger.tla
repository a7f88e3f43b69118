--------------------------- MODULE MCUsageLedger ---------------------------
(* Instances of UsageLedger for TLC. *)
EXTENDS UsageLedger, TLC

CONSTANTS o1, k1, k2, k3

OneOwner == [k \in Keys |-> o1]

\* No prefix; or the first two operations are attempts at one Signal.
NoFamily == [k \in Keys |-> {}]
Attempts == [k \in Keys |-> IF k \in {k1, k2} THEN {k1, k2} ELSE {}]

Symmetry == Permutations(Requests)
=============================================================================
