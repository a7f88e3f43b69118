------------------------- MODULE MCSignalGeneration -------------------------
(* Instances of SignalGeneration for TLC. *)
EXTENDS SignalGeneration

CONSTANTS a, b, p1, p2

\* The requests reach two processes, so that no map stands between them.
TwoServers == [p \in Requests |-> IF p = p2 THEN b ELSE a]
=============================================================================
