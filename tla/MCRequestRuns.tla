----------------------------- MODULE MCRequestRuns -----------------------------
(* Instances of RequestRuns for TLC. *)
EXTENDS RequestRuns

AllKinds == {"research", "review", "planning"}
=============================================================================
