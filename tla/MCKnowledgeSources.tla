-------------------------- MODULE MCKnowledgeSources --------------------------
(* Instances of KnowledgeIndexing and SourceIntake for TLC: a behaviour is of *)
(* the one, and has no origin, or of the other.                              *)
EXTENDS KnowledgeIndexing, SourceIntake

sources == <<vars, intake>>

SourcesInit ==
    /\ Init
    /\ \/ IntakeInit
       \/ origin = "none" /\ IntakeIdle

Indexing(A) == origin = "none" /\ A /\ UNCHANGED intake

SourcesNext == Indexing(Next) \/ (origin # "none" /\ IntakeNext /\ UNCHANGED vars)

\* Time passes, calls end, and the owner asks again.
SourcesSpec ==
    /\ SourcesInit /\ [][SourcesNext]_sources
    /\ WF_sources(Indexing(LeaseRunsOut))
    /\ \A a \in Attempts : WF_sources(Indexing(Work(a))) /\ WF_sources(Indexing(JobStep(a)))
=============================================================================
