-------------------------- MODULE MCGithubActivities --------------------------
(* Instances of GithubActivities for TLC. *)
EXTENDS GithubActivities
=============================================================================
