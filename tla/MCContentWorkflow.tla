--------------------------- MODULE MCContentWorkflow ---------------------------
(* An instance of ContentWorkflow for TLC, of the deployed graph alone. *)
EXTENDS ContentWorkflow

DeployedGraph == {TRUE}
=============================================================================
