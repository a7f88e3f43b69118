------------------------------ MODULE MCWorkers ------------------------------
(* Instances of ContentWorkflow and of Notifications for TLC: a behaviour is  *)
(* of the workflows' worker or of the notifications'.                        *)
EXTENDS ContentWorkflow, Notifications

VARIABLE subject

BothGraphs == {TRUE, FALSE}

allVars == <<vars, inboxVars, subject>>

\* (The choice of the graph means nothing to the inbox.)
AllInit == subject \in {"workflow", "inbox"} /\ Init /\ InboxInit /\ (subject = "inbox" => pauses)

Running(A) == subject = "workflow" /\ A /\ UNCHANGED <<inboxVars, subject>>
Notifying(A) == subject = "inbox" /\ A /\ UNCHANGED <<vars, subject>>

AllNext == Running(Next) \/ Notifying(InboxNext)

\* ContentWorkflow's fairness; and the notification worker's interval fires, its passes
\* run on, and a server that went down is started again.
AllSpec ==
    /\ AllInit /\ [][AllNext]_allVars
    /\ \A f \in Flows :
          /\ WF_allVars(Running(LeaseRunsOut(f))) /\ WF_allVars(Running(Expire(f)))
          /\ WF_allVars(Running(Claim(f))) /\ WF_allVars(Running(Work(f)))
    /\ WF_allVars(Notifying(WorkerPasses))
=============================================================================
