----------------------- MODULE MCLinkedInPublication -----------------------
(* Instances of LinkedInPublication for TLC. *)
EXTENDS LinkedInPublication, TLC

\* Requests of one kind are interchangeable.
Symmetry == Permutations(Confirmers) \cup Permutations(Schedulers) \cup Permutations(Workers)
=============================================================================
