---------------------------- MODULE ContentWorkflow ----------------------------
(***************************************************************************)
(* From a Signal to an approved draft, in steps that survive a restart:     *)
(* services/content-workflow.service.ts, its repository and client, and the *)
(* graph of services/ai/app/workflow_graph.py.  The workflows of one Signal *)
(* of one owner; a worker holds each run it has claimed under a lease of    *)
(* its own.  Research and reviews are one step here (RequestRuns has them), *)
(* the usage ledger is the status of each provider step's operation, and    *)
(* the Signal's revision and its sources' versions, which are compared      *)
(* together everywhere, are one number.  A text stands for its hash.        *)
(***************************************************************************)
EXTENDS Integers, FiniteSets

CONSTANTS
    NFlows,         \* workflows, numbered in the order they are created
    Reviewers, Approvers, Cancellers,   \* requests
    Pauses,         \* whether the graph pauses after the review as after the draft: the one
                    \* deployed does (TRUE); the adapter of the browser tests does not
    MaxText,        \* texts the draft can have
    MaxRev,         \* bound on the version of the inputs
    MaxFaults       \* bound on crashes and failed calls

ASSUME WorkflowAssumption ==
    /\ NFlows \in Nat /\ MaxText \in Nat \ {0} /\ MaxRev \in Nat \ {0} /\ MaxFaults \in Nat
    /\ Pauses \subseteq BOOLEAN

Flows == 1..NFlows
Texts == 1..MaxText
None == 0
Other == NFlows + 1     \* a request of createGenerationForSignal, as the author of the Generation

VARIABLES
    status, lease, cancelled,   \* the workflow: status, leaseId, cancellationRequested
    rev, brief,     \* the inputs' version when it was created, and that of its research brief
    wrote, judged, mine,        \* generationOutput, reviewOutput, generationId
    bound, approved,            \* its current review bindings; the text approved
    review,         \* its DraftReview records
    generation,     \* who stored the Signal's Generation, and its text now
    inputs,         \* the Signal's revision and the sources' versions
    graph, pauses,  \* the checkpoint of its thread: the node a resume runs next
    op, sent, late, \* usage operation of each provider step; how often it was sent, and sent
                    \* after the workflow had been cancelled
    pc, step, answer,           \* the worker of each run
    reviewer, approver, canceller,
    trouble,        \* workflows that met a refusal, a failure or a competing Generation
    faults

record == <<status, lease, cancelled, wrote, judged, mine, bound, approved>>
service == <<graph, op, sent, late>>
worker == <<pc, step, answer>>
world == <<review, generation, inputs>>
users == <<reviewer, approver, canceller>>
vars == <<record, rev, brief, world, service, pauses, worker, users, trouble, faults>>

Statuses == {"new", "queued", "running", "awaiting_research", "awaiting_approval", "stale",
             "failed", "uncertain", "cancelled", "completed"}
Terminal == {"completed", "cancelled", "uncertain", "failed", "stale"}
ProviderSteps == {"generation", "draft_review"}
\* A review is kept under the request id made for a text; the one the workflow itself
\* stores has an id of its own.
ReviewKeys == 0..MaxText
NoReview == [text |-> None, state |-> "none"]
Nobody == [at |-> "idle", flow |-> 1, key |-> 0, text |-> None]

TypeOK ==
    /\ status \in [Flows -> Statuses]
    /\ lease \in [Flows -> {"none", "live", "over"}]
    /\ cancelled \in [Flows -> BOOLEAN]
    /\ rev \in [Flows -> 0..MaxRev] /\ brief \in [Flows -> 0..MaxRev]
    /\ wrote \in [Flows -> BOOLEAN] /\ judged \in [Flows -> BOOLEAN] /\ mine \in [Flows -> BOOLEAN]
    /\ bound \in [Flows -> SUBSET ReviewKeys]
    /\ approved \in [Flows -> 0..MaxText]
    /\ review \in [Flows -> [ReviewKeys -> [text : 0..MaxText,
                      state : {"none", "running", "current", "stale", "failed"}]]]
    /\ generation \in [by : 0..Other, text : 0..MaxText]
    /\ inputs \in 1..MaxRev
    /\ graph \in [Flows -> {"write", "review", "pause", "approval", "done"}]
    /\ pauses \in BOOLEAN
    /\ op \in [Flows -> [ProviderSteps -> {"none", "dispatched", "completed", "released", "uncertain"}]]
    /\ sent \in [Flows -> [ProviderSteps -> 0..1]] /\ late \in [Flows -> Nat]
    /\ pc \in [Flows -> {"idle", "research", "check", "send", "call", "persist", "last", "store",
                         "save", "finish", "fail", "doubt", "done"}]
    /\ step \in [Flows -> ProviderSteps]
    /\ answer \in [Flows -> {"none", "workflow_step", "workflow_approval"}]
    /\ trouble \subseteq Flows
    /\ faults \in 0..MaxFaults

Init ==
    /\ status = [f \in Flows |-> "new"] /\ lease = [f \in Flows |-> "none"]
    /\ cancelled = [f \in Flows |-> FALSE]
    /\ rev = [f \in Flows |-> 0] /\ brief = [f \in Flows |-> 0]
    /\ wrote = [f \in Flows |-> FALSE] /\ judged = [f \in Flows |-> FALSE]
    /\ mine = [f \in Flows |-> FALSE]
    /\ bound = [f \in Flows |-> {}] /\ approved = [f \in Flows |-> None]
    /\ review = [f \in Flows |-> [k \in ReviewKeys |-> NoReview]]
    /\ generation = [by |-> None, text |-> None]
    /\ inputs = 1
    /\ graph = [f \in Flows |-> "write"] /\ pauses \in Pauses
    /\ op = [f \in Flows |-> [s \in ProviderSteps |-> "none"]]
    /\ sent = [f \in Flows |-> [s \in ProviderSteps |-> 0]] /\ late = [f \in Flows |-> 0]
    /\ pc = [f \in Flows |-> "idle"] /\ step = [f \in Flows |-> "generation"]
    /\ answer = [f \in Flows |-> "none"]
    /\ reviewer = [r \in Reviewers |-> Nobody] /\ approver = [a \in Approvers |-> Nobody]
    /\ canceller = [c \in Cancellers |-> Nobody]
    /\ trouble = {} /\ faults = 0

Becomes(f, s) == status' = [status EXCEPT ![f] = s]
Fault == faults < MaxFaults /\ faults' = faults + 1
Goes(f, next) == pc' = [pc EXCEPT ![f] = next]
Meets(f) == trouble' = trouble \cup {f}
Reviews(f, k, r) == review' = [review EXCEPT ![f] = [@ EXCEPT ![k] = r]]
ReviewBecomes(f, k, s) == Reviews(f, k, [review[f][k] EXCEPT !.state = s])

-----------------------------------------------------------------------------
(* The world around: texts are edited, sources indexed again, drafts made.  *)

EditDraft ==
    /\ generation.by # None
    /\ \E t \in Texts \ {generation.text} : generation' = [generation EXCEPT !.text = t]
    /\ UNCHANGED <<record, rev, brief, review, inputs, service, pauses, worker, users, trouble, faults>>

ChangeInputs ==
    /\ inputs < MaxRev /\ inputs' = inputs + 1
    /\ UNCHANGED <<record, rev, brief, review, generation, service, pauses, worker, users, trouble, faults>>

\* A request of createGenerationForSignal stores its drafts (SignalGeneration).
Generate ==
    /\ generation.by = None
    /\ generation' = [by |-> Other, text |-> 1]
    /\ UNCHANGED <<record, rev, brief, review, inputs, service, pauses, worker, users, trouble, faults>>

\* 90 s pass since the claim: nothing renews the lease.
LeaseRunsOut(f) ==
    /\ lease[f] = "live" /\ lease' = [lease EXCEPT ![f] = "over"]
    /\ UNCHANGED <<status, cancelled, wrote, judged, mine, bound, approved,
                   rev, brief, world, service, pauses, worker, users, trouble, faults>>

-----------------------------------------------------------------------------
(* Creating, expiring and claiming.                                         *)

Create(f) ==
    /\ status[f] = "new" /\ \A e \in 1..(f - 1) : status[e] # "new"
    /\ Becomes(f, "queued") /\ rev' = [rev EXCEPT ![f] = inputs]
    /\ UNCHANGED <<lease, cancelled, wrote, judged, mine, bound, approved,
                   brief, world, service, pauses, worker, users, trouble, faults>>

\* Mutant: only queued runs are looked at.
ExpiredQueued(f) == status[f] = "queued" /\ lease[f] = "over"

Expired(f) == status[f] = "running" /\ lease[f] = "over"

\* markExpiredContentWorkflowsUncertain, at the start of every pass.
Expire(f) ==
    /\ Expired(f)
    /\ Becomes(f, "uncertain") /\ lease' = [lease EXCEPT ![f] = "none"]
    /\ Meets(f)
    /\ UNCHANGED <<cancelled, wrote, judged, mine, bound, approved,
                   rev, brief, world, service, pauses, worker, users, faults>>

\* claimNextContentWorkflow's filter; the oldest is taken first.
Claimable(f) == status[f] = "queued" /\ ~cancelled[f]

Claim(f) ==
    /\ Claimable(f) /\ \A e \in 1..(f - 1) : ~Claimable(e)
    /\ Becomes(f, "running") /\ lease' = [lease EXCEPT ![f] = "live"]
    /\ Goes(f, "research")
    /\ step' = [step EXCEPT ![f] = "generation"]
    /\ UNCHANGED <<cancelled, wrote, judged, mine, bound, approved,
                   rev, brief, world, service, pauses, answer, users, trouble, faults>>

-----------------------------------------------------------------------------
(* advanceClaimedWorkflow.                                                  *)

\* Mutant: the lease is compared and the status is not.
HoldsLease(f) == lease[f] # "none"

\* The run is running under this worker's lease: what updateClaimedContentWorkflow
\* requires, and what the worker reads again between its steps.
Holds(f) == status[f] = "running" /\ lease[f] # "none"

\* createResearchBriefForUser of the current inputs.
Research(f) ==
    /\ pc[f] = "research"
    /\ \/ /\ brief' = [brief EXCEPT ![f] = inputs] /\ Goes(f, "check")
          /\ UNCHANGED <<record, trouble>>
       \/ /\ IF Holds(f)
             THEN Becomes(f, "awaiting_research") /\ lease' = [lease EXCEPT ![f] = "none"]
             ELSE UNCHANGED <<status, lease>>
          /\ Goes(f, "done") /\ brief' = [brief EXCEPT ![f] = inputs]
          /\ UNCHANGED <<cancelled, wrote, judged, mine, bound, approved, trouble>>
       \/ \E next \in {"fail", "doubt"} : Goes(f, next) /\ Meets(f) /\ UNCHANGED <<record, brief>>
    /\ UNCHANGED <<rev, world, service, pauses, step, answer, users, faults>>

\* The run is read again before a provider step, and before its drafts are stored.
Check(f) ==
    /\ pc[f] \in {"check", "last"}
    /\ \/ Holds(f) /\ Goes(f, IF pc[f] = "check" THEN "send" ELSE "store") /\ UNCHANGED trouble
       \/ ~Holds(f) /\ Goes(f, "done") /\ UNCHANGED trouble
       \/ Holds(f) /\ pc[f] = "last" /\ Goes(f, "fail") /\ Meets(f)      \* invalid references
    /\ UNCHANGED <<record, rev, brief, world, service, pauses, step, answer, users, faults>>

\* admitAiOperation: the operation's key is the workflow and the step.
Admits(f) == op[f][step[f]] \in {"none", "released"}

\* Admission and dispatch.  An operation that exists is a duplicate; a quota refuses.
Send(f) ==
    /\ pc[f] = "send"
    /\ \/ /\ Admits(f)
          /\ op' = [op EXCEPT ![f] = [@ EXCEPT ![step[f]] = "dispatched"]]
          /\ sent' = [sent EXCEPT ![f] = [@ EXCEPT ![step[f]] = sent[f][step[f]] + 1]]
          /\ late' = IF cancelled[f] THEN [late EXCEPT ![f] = @ + 1] ELSE late
          /\ Goes(f, "call") /\ UNCHANGED trouble
       \/ Admits(f) /\ Goes(f, "fail") /\ Meets(f) /\ UNCHANGED <<op, sent, late>>
       \/ ~Admits(f) /\ Goes(f, "fail") /\ UNCHANGED <<op, sent, late, trouble>>
    /\ UNCHANGED <<record, rev, brief, world, graph, pauses, step, answer, users, faults>>

\* One invocation of the graph runs to the next interrupt (build_workflow_graph).
NextNode(at) == CASE at = "write" -> "review"
                  [] at = "review" -> IF pauses THEN "pause" ELSE "approval"
                  [] at = "pause" -> "approval"
                  [] OTHER -> "done"

Interrupt(at) == IF NextNode(at) = "approval" THEN "workflow_approval" ELSE "workflow_step"

\* client.advance and the settlement: an answer; a timeout or an invalid answer, whose
\* outcome is unknown; a refusal.  Without an answer the graph may have advanced or not.
Call(f) ==
    /\ pc[f] = "call"
    /\ \/ /\ graph' = [graph EXCEPT ![f] = NextNode(@)]
          /\ answer' = [answer EXCEPT ![f] = Interrupt(graph[f])]
          /\ op' = [op EXCEPT ![f] = [@ EXCEPT ![step[f]] = "completed"]]
          /\ Goes(f, "persist") /\ UNCHANGED trouble
       \/ /\ graph' \in {graph, [graph EXCEPT ![f] = NextNode(@)]}
          /\ \E s \in {"uncertain", "released"} :
                /\ op' = [op EXCEPT ![f] = [@ EXCEPT ![step[f]] = s]]
                /\ \E next \in {"fail", "doubt"} : (next = "doubt" => s = "uncertain") /\ Goes(f, next)
          /\ Meets(f) /\ UNCHANGED answer
    /\ UNCHANGED <<record, rev, brief, world, sent, late, pauses, step, users, faults>>

\* updateClaimedContentWorkflow answers null to a worker that lost its run.
IfHeld(f, next) == Goes(f, IF Holds(f) THEN next ELSE "done")

\* persistWorkflowGraphState
Persist(f) ==
    /\ pc[f] = "persist"
    /\ IF Holds(f)
       THEN /\ wrote' = [wrote EXCEPT ![f] = TRUE]
            /\ judged' = [judged EXCEPT ![f] = @ \/ graph[f] # "review"]
       ELSE UNCHANGED <<wrote, judged>>
    /\ IfHeld(f, IF answer[f] = "workflow_step" THEN "check" ELSE "last")
    /\ step' = [step EXCEPT ![f] = "draft_review"]
    /\ UNCHANGED <<status, lease, cancelled, mine, bound, approved,
                   rev, brief, world, service, pauses, answer, users, trouble, faults>>

\* createGeneration: one Generation for each Signal.
Store(f) ==
    /\ pc[f] = "store"
    /\ \/ /\ generation.by = None
          /\ generation' = [by |-> f, text |-> 1]
          /\ Goes(f, "save") /\ UNCHANGED trouble
       \/ generation.by # None /\ Goes(f, "fail") /\ Meets(f) /\ UNCHANGED generation
    /\ UNCHANGED <<record, rev, brief, review, inputs, service, pauses, step, answer, users, faults>>

\* createDraftReview: the graph's review of the draft as it was generated.
Save(f) ==
    /\ pc[f] = "save"
    /\ Reviews(f, 0, [text |-> 1, state |-> "current"])
    /\ Goes(f, "finish")
    /\ UNCHANGED <<record, rev, brief, generation, inputs, service, pauses, step, answer, users,
                   trouble, faults>>

Finish(f) ==
    /\ pc[f] = "finish"
    /\ IF Holds(f)
       THEN /\ Becomes(f, "awaiting_approval") /\ lease' = [lease EXCEPT ![f] = "none"]
            /\ mine' = [mine EXCEPT ![f] = TRUE] /\ bound' = [bound EXCEPT ![f] = {0}]
       ELSE UNCHANGED <<status, lease, mine, bound>>
    /\ Goes(f, "done")
    /\ UNCHANGED <<cancelled, wrote, judged, approved,
                   rev, brief, world, service, pauses, step, answer, users, trouble, faults>>

\* catch: an uncertain outcome for a timeout, failed for anything else.
Caught(f) ==
    /\ pc[f] \in {"fail", "doubt"}
    /\ IF Holds(f)
       THEN /\ Becomes(f, IF pc[f] = "doubt" THEN "uncertain" ELSE "failed")
            /\ lease' = [lease EXCEPT ![f] = "none"]
       ELSE UNCHANGED <<status, lease>>
    /\ Goes(f, "done")
    /\ UNCHANGED <<cancelled, wrote, judged, mine, bound, approved,
                   rev, brief, world, service, pauses, step, answer, users, trouble, faults>>

\* A call of the database or of the ledger rejects; or, in the catch, and when the process
\* dies, nothing more happens for this run.
Breaks(f) ==
    /\ pc[f] \notin {"idle", "done"} /\ Fault /\ Meets(f)
    /\ \E next \in {"fail", "done"} : (pc[f] \in {"fail", "doubt"} => next = "done") /\ Goes(f, next)
    /\ UNCHANGED <<record, rev, brief, world, service, pauses, step, answer, users>>

Work(f) == \/ Research(f) \/ Check(f) \/ Send(f) \/ Call(f) \/ Persist(f)
           \/ Store(f) \/ Save(f) \/ Finish(f) \/ Caught(f)

-----------------------------------------------------------------------------
(* createContentWorkflowReviewForUser, with createDraftReviewForUser in it. *)

\* findCurrentWorkflowReview: the bindings that succeeded and were not stale.
HasReview(f, k, t) == k \in bound[f] /\ review[f][k].text = t

At(who, x, place) == who' = [who EXCEPT ![x] = [@ EXCEPT !.at = place]]

ReviewStart(r) ==
    /\ reviewer[r].at = "idle"
    /\ \E f \in Flows :
          /\ status[f] = "awaiting_approval" /\ mine[f] /\ inputs = rev[f]
          /\ ~\E k \in ReviewKeys : HasReview(f, k, generation.text)
          /\ reviewer' = [reviewer EXCEPT ![r] =
                             [at |-> "ask", flow |-> f, key |-> generation.text, text |-> None]]
    /\ UNCHANGED <<record, rev, brief, world, service, pauses, worker, approver, canceller,
                   trouble, faults>>

\* The draft is read again and its record made, unless the request id has one of the same
\* draft, which is the answer, or of another, which is refused.
ReviewAsk(r) ==
    LET f == reviewer[r].flow  k == reviewer[r].key IN
    /\ reviewer[r].at = "ask"
    /\ \/ /\ review[f][k].state = "none" /\ inputs = brief[f]
          /\ Reviews(f, k, [text |-> generation.text, state |-> "running"])
          /\ \/ reviewer' = [reviewer EXCEPT ![r] = [@ EXCEPT !.at = "answer", !.text = generation.text]]
             \/ At(reviewer, r, "done")      \* the admission throws: the record stays running
       \/ /\ review[f][k].state # "none" \/ inputs # brief[f]
          /\ At(reviewer, r, IF inputs = brief[f] /\ review[f][k].text = generation.text
                             THEN "recheck" ELSE "done")
          /\ UNCHANGED review
    /\ UNCHANGED <<record, rev, brief, generation, inputs, service, pauses, worker, approver, canceller,
                   trouble, faults>>

\* The provider answers or fails; then what was reviewed is compared with what is there.
ReviewAnswer(r) ==
    LET f == reviewer[r].flow  k == reviewer[r].key IN
    /\ reviewer[r].at = "answer"
    /\ \/ /\ ReviewBecomes(f, k,
                  IF generation.text = reviewer[r].text /\ inputs = brief[f] THEN "current" ELSE "stale")
          /\ At(reviewer, r, "recheck")
       \/ /\ ReviewBecomes(f, k, "failed")
          /\ At(reviewer, r, "done")
    /\ UNCHANGED <<record, rev, brief, generation, inputs, service, pauses, worker, approver, canceller,
                   trouble, faults>>

\* The workflow is read again, then addContentWorkflowReview, while it is awaiting approval.
ReviewBind(r) ==
    LET f == reviewer[r].flow  k == reviewer[r].key IN
    /\ reviewer[r].at \in {"recheck", "bind"}
    /\ IF status[f] = "awaiting_approval" /\ reviewer[r].at = "recheck"
       THEN At(reviewer, r, "bind") ELSE At(reviewer, r, "done")
    /\ IF status[f] = "awaiting_approval" /\ reviewer[r].at = "bind" /\ review[f][k].state = "current"
       THEN bound' = [bound EXCEPT ![f] = @ \cup {k}] ELSE UNCHANGED bound
    /\ UNCHANGED <<status, lease, cancelled, wrote, judged, mine, approved,
                   rev, brief, world, service, pauses, worker, approver, canceller, trouble, faults>>

\* getDraftReviewForUser and the list: staleness is recomputed from the text alone.
Refresh(f, k) ==
    /\ review[f][k].state \in {"current", "stale"}
    /\ ReviewBecomes(f, k, IF generation.text = review[f][k].text THEN "current" ELSE "stale")
    /\ UNCHANGED <<record, rev, brief, generation, inputs, service, pauses, worker, users, trouble, faults>>

-----------------------------------------------------------------------------
(* approveContentWorkflowForUser.                                           *)

ApproveStart(a) ==
    /\ approver[a].at = "idle"
    /\ \E f \in Flows, t \in Texts, k \in ReviewKeys :
          /\ status[f] = "awaiting_approval" /\ HasReview(f, k, t)
          /\ approver' = [approver EXCEPT ![a] = [at |-> "inputs", flow |-> f, key |-> k, text |-> t]]
    /\ UNCHANGED <<record, rev, brief, world, service, pauses, worker, reviewer, canceller,
                   trouble, faults>>

\* Mutant: the versions are not compared.
IsCurrentAlways(f) == TRUE

IsCurrent(f) == inputs = rev[f]

\* The Signal and the sources: when they changed, stale is written whatever the status is.
ApproveInputs(a) ==
    /\ approver[a].at = "inputs"
    /\ At(approver, a, IF IsCurrent(approver[a].flow) THEN "review" ELSE "stale")
    /\ UNCHANGED <<record, rev, brief, world, service, pauses, worker, reviewer, canceller,
                   trouble, faults>>

ApproveStale(a) ==
    /\ approver[a].at = "stale" /\ At(approver, a, "done")
    /\ Becomes(approver[a].flow, "stale")
    /\ UNCHANGED <<lease, cancelled, wrote, judged, mine, bound, approved,
                   rev, brief, world, service, pauses, worker, reviewer, canceller, trouble, faults>>

\* The draft must be the one named, and its review, read again, current.
ApproveReview(a) ==
    LET f == approver[a].flow  t == approver[a].text  k == approver[a].key IN
    /\ approver[a].at = "review"
    /\ At(approver, a, IF generation.text = t /\ review[f][k] = [text |-> t, state |-> "current"]
                       THEN "claim" ELSE "done")
    /\ UNCHANGED <<record, rev, brief, world, service, pauses, worker, reviewer, canceller,
                   trouble, faults>>

\* claimContentWorkflowApproval
CanApprove(f) == status[f] = "awaiting_approval" /\ ~cancelled[f]

\* The claim takes no lease: the run has no expiry.
ApproveClaim(a) ==
    LET f == approver[a].flow IN
    /\ approver[a].at = "claim"
    /\ IF CanApprove(f)
       THEN /\ Becomes(f, "running") /\ approved' = [approved EXCEPT ![f] = approver[a].text]
            /\ At(approver, a, "call")
       ELSE At(approver, a, "done") /\ UNCHANGED <<status, approved>>
    /\ UNCHANGED <<lease, cancelled, wrote, judged, mine, bound,
                   rev, brief, world, service, pauses, worker, reviewer, canceller, trouble, faults>>

\* client.advance with the approval: completed, or failed, or a timeout.
ApproveCall(a) ==
    LET f == approver[a].flow IN
    /\ approver[a].at = "call"
    /\ \/ graph' = [graph EXCEPT ![f] = NextNode(@)] /\ At(approver, a, "completed")
       \/ /\ graph' \in {graph, [graph EXCEPT ![f] = NextNode(@)]}
          /\ \E place \in {"failed", "uncertain"} : At(approver, a, place)
    /\ UNCHANGED <<record, rev, brief, world, op, sent, late, pauses, worker, reviewer, canceller,
                   trouble, faults>>

\* The outcome is written by _id, over whatever the status has become.
ApproveRecord(a) ==
    LET f == approver[a].flow IN
    /\ approver[a].at \in {"completed", "failed", "uncertain"}
    /\ Becomes(f, approver[a].at) /\ At(approver, a, "done")
    /\ trouble' = IF approver[a].at = "completed" THEN trouble ELSE trouble \cup {f}
    /\ UNCHANGED <<lease, cancelled, wrote, judged, mine, bound, approved,
                   rev, brief, world, service, pauses, worker, reviewer, canceller, faults>>

\* The API process dies: the run stays running without a lease.
ApproverDies(a) ==
    /\ approver[a].at \notin {"idle", "done"} /\ Fault
    /\ At(approver, a, "done")
    /\ UNCHANGED <<record, rev, brief, world, service, pauses, worker, reviewer, canceller, trouble>>

ApproveStep(a) == \/ ApproveStart(a) \/ ApproveInputs(a) \/ ApproveStale(a) \/ ApproveReview(a)
                  \/ ApproveClaim(a) \/ ApproveCall(a) \/ ApproveRecord(a) \/ ApproverDies(a)

-----------------------------------------------------------------------------
(* cancelContentWorkflowForUser: the status is read, and then overwritten.  *)

Cancel(c) ==
    LET f == canceller[c].flow IN
    /\ \/ /\ canceller[c].at = "idle"
          /\ \E g \in Flows :
                /\ status[g] \notin Terminal \cup {"new"}
                /\ canceller' = [canceller EXCEPT ![c] = [@ EXCEPT !.at = "write", !.flow = g]]
          /\ UNCHANGED <<status, cancelled>>
       \/ /\ canceller[c].at = "write" /\ At(canceller, c, "done")
          /\ Becomes(f, "cancelled") /\ cancelled' = [cancelled EXCEPT ![f] = TRUE]
    /\ UNCHANGED <<lease, wrote, judged, mine, bound, approved,
                   rev, brief, world, service, pauses, worker, reviewer, approver, trouble, faults>>

Next ==
    \/ EditDraft \/ ChangeInputs \/ Generate
    \/ \E f \in Flows : \/ Create(f) \/ LeaseRunsOut(f) \/ Expire(f) \/ Claim(f)
                        \/ Work(f) \/ Breaks(f) \/ \E k \in ReviewKeys : Refresh(f, k)
    \/ \E r \in Reviewers : ReviewStart(r) \/ ReviewAsk(r) \/ ReviewAnswer(r) \/ ReviewBind(r)
    \/ \E a \in Approvers : ApproveStep(a)
    \/ \E c \in Cancellers : Cancel(c)

Spec == Init /\ [][Next]_vars

\* The worker's interval never stops starting passes, a call of the service or the database
\* ends, and time passes.
FairSpec == Spec /\ \A f \in Flows :
    WF_vars(LeaseRunsOut(f)) /\ WF_vars(Expire(f)) /\ WF_vars(Claim(f)) /\ WF_vars(Work(f))

-----------------------------------------------------------------------------
(* Properties.                                                              *)

\* Neither a restart, an expired lease nor the loop over the graph's interrupts sends a
\* provider step of a workflow twice, and a workflow that has been cancelled sends at most
\* the step it was about to send.
NeverReplayed == \A f \in Flows : late[f] <= 1 /\ \A s \in ProviderSteps : sent[f][s] <= 1

\* What an approval names was drafted by this workflow and reviewed in it as that exact text,
\* with evidence of the inputs the workflow was created from.
ApprovedWasReviewed ==
    \A f \in Flows : approved[f] # None =>
        /\ generation.by = f /\ brief[f] = rev[f]
        /\ \E k \in bound[f] : review[f][k].text = approved[f] /\ review[f][k].state \in {"current", "stale"}

\* A workflow that is not running, however it came to it, is not advanced by a worker that
\* still believes in its claim.
OnlyHolderAdvances ==
    [][\A f \in Flows : status[f] # "running" => UNCHANGED <<wrote[f], judged[f], mine[f]>>]_vars

\* A claimed run does not stay with its worker for ever: it ends or its lease does.
ClaimsEnd == \A f \in Flows : (status[f] = "running" /\ lease[f] # "none")
                                  ~> (status[f] # "running" \/ lease[f] = "none")

\* A workflow that met no refusal, no failure and no competing Generation does not fail:
\* README.md:245, it "pauses at a durable LangGraph human-approval interrupt".
FlawlessReachesApproval == \A f \in Flows : status[f] = "failed" => f \in trouble
=============================================================================
