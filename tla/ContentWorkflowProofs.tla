------------------------- MODULE ContentWorkflowProofs -------------------------
(***************************************************************************)
(* For any workflows, requests, texts and versions: a provider step is sent *)
(* once, what is approved was reviewed, and only the holder of a run        *)
(* advances it.                                                            *)
(*                                                                         *)
(* The first two are not inductive.  SendInv says why the worker never      *)
(* comes back to a step whose operation was released, or to any step after  *)
(* a cancellation; BoundInv, ReviewerInv and ApproverInv say what a review  *)
(* that is bound stands on while drafts, inputs and reviews go on changing. *)
(***************************************************************************)
EXTENDS ContentWorkflow, TLAPS

USE WorkflowAssumption DEF WorkflowAssumption

-----------------------------------------------------------------------------
(* The invariant.                                                           *)

\* A review with a verdict, whether or not the draft is still the text it judged.
Judged == {"current", "stale"}
\* Where a worker sends nothing any more.
Ended == {"fail", "doubt", "done"}
\* Where a worker is once it has a research brief.
Advancing == {"check", "send", "call", "persist", "last", "store", "save", "finish"}
\* What a request of a user is doing.
Users == [at : {"idle", "ask", "answer", "recheck", "bind", "inputs", "stale", "review", "claim", "call",
                "completed", "failed", "uncertain", "write", "done"},
          flow : Flows \cup {1}, key : ReviewKeys, text : 0..MaxText]

\* The requests have their types, and a stored draft has a text.
UsersOK ==
    /\ reviewer \in [Reviewers -> Users] /\ approver \in [Approvers -> Users]
    /\ canceller \in [Cancellers -> Users]
    /\ generation.by # None => generation.text \in Texts

\* Why nothing is sent twice: a run is claimed once, an operation that was released has
\* ended its worker, and after a cancellation no worker gets past the record of the step it sent.
SendInv(f) ==
    /\ status[f] \in {"new", "queued"} => pc[f] = "idle"
    /\ \A s \in ProviderSteps :
          /\ op[f][s] = "none" <=> sent[f][s] = 0
          /\ op[f][s] = "released" => pc[f] \in Ended
    /\ pc[f] = "call" => op[f][step[f]] = "dispatched"
    /\ cancelled[f] => status[f] \notin {"new", "queued", "running"}
    /\ late[f] # 0 => late[f] = 1 /\ cancelled[f] /\ pc[f] \in {"call", "persist"} \cup Ended

\* What a draft and its bound reviews stand on: the brief is at least of the version the run was
\* created from, the Generation is the run's own, and what is bound was judged.
BoundInv(f) ==
    /\ rev[f] <= inputs /\ brief[f] <= inputs
    /\ pc[f] \in Advancing => rev[f] <= brief[f]
    /\ pc[f] \in {"save", "finish"} => generation.by = f
    /\ pc[f] = "finish" => review[f][0].state \in Judged
    /\ status[f] = "awaiting_approval" \/ bound[f] # {} \/ approved[f] # None => mine[f]
    /\ mine[f] => pc[f] = "done" /\ generation.by = f /\ rev[f] <= brief[f]
    /\ \A k \in bound[f] : review[f][k].state \in Judged
    /\ approved[f] # None =>
          brief[f] = rev[f] /\ \E k \in bound[f] : review[f][k].text = approved[f]

\* A request for a review that waits for an answer has a running record.
ReviewerInv(r) ==
    /\ reviewer[r].at # "idle" => reviewer[r].flow \in Flows /\ reviewer[r].key \in Texts
    /\ reviewer[r].at = "answer" => review[reviewer[r].flow][reviewer[r].key].state = "running"

\* No two requests wait for one record.
OneReviewer == \A q, r \in Reviewers :
    (/\ reviewer[q].at = "answer" /\ reviewer[r].at = "answer"
     /\ reviewer[q].flow = reviewer[r].flow /\ reviewer[q].key = reviewer[r].key) => q = r

\* What an approval knows at each place: the review it names is bound with its text, and, once
\* the versions were compared, the brief is of the version the run was created from.
ApproverInv(a) ==
    LET f == approver[a].flow IN
    /\ approver[a].at # "idle" => f \in Flows
    /\ approver[a].at \in {"inputs", "review", "claim"} =>
          /\ approver[a].text \in Texts /\ approver[a].key \in bound[f]
          /\ review[f][approver[a].key].text = approver[a].text
    /\ approver[a].at \in {"review", "claim"} => brief[f] = rev[f]

\* A cancellation is of a workflow that was created.
CancellerInv(c) ==
    /\ canceller[c].at # "idle" => canceller[c].flow \in Flows
    /\ canceller[c].at = "write" => status[canceller[c].flow] # "new"

\* The inductive invariant.
WfInv ==
    /\ TypeOK /\ UsersOK
    /\ \A f \in Flows : SendInv(f) /\ BoundInv(f)
    /\ \A r \in Reviewers : ReviewerInv(r)
    /\ OneReviewer
    /\ \A a \in Approvers : ApproverInv(a)
    /\ \A c \in Cancellers : CancellerInv(c)

\* The values of a review, of a worker's place and of an operation.
Reviewed == [text : 0..MaxText, state : {"none", "running", "current", "stale", "failed"}]
PcOf == {"idle", "research", "check", "send", "call", "persist", "last", "store", "save", "finish",
         "fail", "doubt", "done"}
OpStates == {"none", "dispatched", "completed", "released", "uncertain"}

\* Workflows and texts are numbers, none of them the one that stands for no workflow or no text.
LEMMA Numbers == /\ \A f \in Flows : f \in Nat /\ f # 0 /\ f # Other
                 /\ 1 \in Texts /\ 0 \in ReviewKeys /\ Texts \subseteq ReviewKeys /\ None \notin Texts
                 /\ None = 0 /\ Other \in Nat /\ 0..MaxText = ReviewKeys
BY DEF Flows, Texts, ReviewKeys, None, Other

\* The invariant holds before anything was created.
LEMMA WfInitGood == Init => WfInv
<1> SUFFICES ASSUME Init PROVE WfInv
  OBVIOUS
<1>1. NoReview \in Reviewed /\ Nobody \in Users
  BY DEF NoReview, Nobody, Reviewed, Users, ReviewKeys, None
<1>2. TypeOK
  BY <1>1, Numbers DEF Init, TypeOK, Reviewed, Statuses, ProviderSteps
<1>3. UsersOK
  BY <1>1 DEF Init, UsersOK
<1>4. \A f \in Flows : SendInv(f) /\ BoundInv(f)
  BY DEF Init, SendInv, BoundInv, None, Advancing
<1>5. \A r \in Reviewers : ReviewerInv(r)
  BY DEF Init, ReviewerInv, Nobody
<1>6. OneReviewer
  BY DEF Init, OneReviewer, Nobody
<1>7. \A a \in Approvers : ApproverInv(a)
  BY DEF Init, ApproverInv, Nobody
<1>8. \A c \in Cancellers : CancellerInv(c)
  BY DEF Init, CancellerInv, Nobody
<1> QED
  BY <1>2, <1>3, <1>4, <1>5, <1>6, <1>7, <1>8 DEF WfInv

-----------------------------------------------------------------------------
(* What a step leaves alone.                                                *)

\* A worker that goes nowhere, ends, or goes on before it has called the provider, while the
\* status does not become one a run is claimed in.
LEMMA SendStays ==
    ASSUME NEW g \in Flows, SendInv(g),
           cancelled'[g] = cancelled[g], op'[g] = op[g], sent'[g] = sent[g], late'[g] = late[g],
           step'[g] = step[g],
           \/ pc'[g] = pc[g]
           \/ pc[g] # "idle" /\ pc'[g] \in Ended
           \/ pc[g] \notin {"idle", "call", "persist"} \cup Ended /\ pc'[g] \notin {"idle", "call"},
           \/ status'[g] = status[g]
           \/ status'[g] \notin {"new", "queued", "running"}
           \/ status'[g] = "running" /\ ~cancelled[g]
    PROVE  SendInv(g)'
BY DEF SendInv, Ended

\* A run that is not awaiting anything new, while the world goes on.
LEMMA BoundStays ==
    ASSUME NEW g \in Flows, BoundInv(g), TypeOK, inputs' \in Nat, inputs <= inputs',
           mine'[g] = mine[g], bound'[g] = bound[g], approved'[g] = approved[g],
           rev'[g] = rev[g], brief'[g] = brief[g],
           generation'.by = generation.by \/ generation.by = None,
           status'[g] = status[g] \/ status'[g] # "awaiting_approval",
           \/ pc'[g] = pc[g]
           \/ pc[g] # "done" /\ pc'[g] \notin Advancing
           \/ pc[g] \in Advancing /\ pc'[g] \in Advancing \ {"save", "finish"},
           \A k \in ReviewKeys : review[g][k].state \in Judged =>
               review'[g][k].state \in Judged /\ review'[g][k].text = review[g][k].text
    PROVE  BoundInv(g)'
<1>1. /\ rev[g] \in Nat /\ brief[g] \in Nat /\ inputs \in Nat /\ bound[g] \subseteq ReviewKeys
      /\ g # None
  BY Numbers DEF TypeOK, None
<1>2. "done" \notin Advancing
  BY DEF Advancing
<1>3. rev'[g] <= inputs' /\ brief'[g] <= inputs'
  BY <1>1 DEF BoundInv
<1>4. pc'[g] \in Advancing => rev'[g] <= brief'[g]
  BY <1>1 DEF BoundInv, Advancing
<1>5. generation.by = g => generation'.by = g
  BY <1>1
<1>6. pc'[g] \in {"save", "finish"} => generation'.by = g
  BY <1>5 DEF BoundInv, Advancing
<1>7. pc'[g] = "finish" => review'[g][0].state \in Judged
  BY Numbers DEF BoundInv, Advancing
<1>8. mine'[g] => pc'[g] = "done" /\ generation'.by = g /\ rev'[g] <= brief'[g]
  BY <1>2, <1>5 DEF BoundInv
<1>9. \A k \in bound'[g] : review'[g][k].state \in Judged
  BY <1>1 DEF BoundInv
<1>10. approved'[g] # None =>
          brief'[g] = rev'[g] /\ \E k \in bound'[g] : review'[g][k].text = approved'[g]
  BY <1>1 DEF BoundInv
<1>11. status'[g] = "awaiting_approval" \/ bound'[g] # {} \/ approved'[g] # None => mine'[g]
  BY DEF BoundInv
<1> QED
  BY <1>3, <1>4, <1>6, <1>7, <1>8, <1>9, <1>10, <1>11 DEF BoundInv

\* A request that makes no step, while no review it waits for is answered.
LEMMA ReviewerStays ==
    ASSUME NEW r \in Reviewers, ReviewerInv(r), reviewer'[r] = reviewer[r],
           reviewer[r].at = "answer" =>
              review'[reviewer[r].flow][reviewer[r].key] = review[reviewer[r].flow][reviewer[r].key]
    PROVE  ReviewerInv(r)'
BY DEF ReviewerInv

\* An approval that makes no step, while reviews stay bound with the text they judged.
LEMMA ApproverStays ==
    ASSUME NEW a \in Approvers, ApproverInv(a), WfInv, approver'[a] = approver[a],
           \A g \in Flows :
               /\ bound[g] \subseteq bound'[g]
               /\ mine[g] => brief'[g] = brief[g] /\ rev'[g] = rev[g]
               /\ mine[g] => \A k \in ReviewKeys :
                     review[g][k].state \in Judged => review'[g][k].text = review[g][k].text
    PROVE  ApproverInv(a)'
<1> DEFINE f == approver[a].flow  k == approver[a].key
<1>1. CASE approver[a].at \in {"inputs", "review", "claim"}
  <2>1. f \in Flows /\ k \in bound[f] /\ review[f][k].text = approver[a].text
    BY <1>1 DEF ApproverInv
  <2>2. mine[f] /\ review[f][k].state \in Judged /\ k \in ReviewKeys
    BY <2>1 DEF WfInv, BoundInv, TypeOK
  <2>3. k \in bound'[f] /\ review'[f][k].text = approver[a].text /\ brief'[f] = brief[f] /\ rev'[f] = rev[f]
    BY <2>1, <2>2
  <2> QED
    BY <2>1, <2>3 DEF ApproverInv
<1>2. CASE approver[a].at \notin {"inputs", "review", "claim"}
  BY <1>2 DEF ApproverInv
<1> QED
  BY <1>1, <1>2

\* A cancellation that makes no step.
LEMMA CancellerStays ==
    ASSUME NEW c \in Cancellers, CancellerInv(c), canceller'[c] = canceller[c],
           \A g \in Flows : status'[g] = "new" => status[g] = "new"
    PROVE  CancellerInv(c)'
BY DEF CancellerInv

\* The users when none of them makes a step.
LEMMA UsersStay ==
    ASSUME WfInv, UNCHANGED users, UsersOK',
           \A g \in Flows :
               /\ status'[g] = "new" => status[g] = "new"
               /\ bound[g] \subseteq bound'[g]
               /\ mine[g] => brief'[g] = brief[g] /\ rev'[g] = rev[g]
               /\ \A k \in ReviewKeys :
                     /\ mine[g] /\ review[g][k].state \in Judged => review'[g][k].text = review[g][k].text
                     /\ review[g][k].state = "running" /\ k \in Texts => review'[g][k] = review[g][k]
    PROVE  /\ \A r \in Reviewers : ReviewerInv(r)'
           /\ OneReviewer'
           /\ \A a \in Approvers : ApproverInv(a)'
           /\ \A c \in Cancellers : CancellerInv(c)'
<1>1. UNCHANGED <<reviewer, approver, canceller>>
  BY DEF users
<1>2. ASSUME NEW r \in Reviewers PROVE ReviewerInv(r)'
  <2>1. ReviewerInv(r)
    BY DEF WfInv
  <2>2. reviewer[r].at = "answer" =>
          /\ reviewer[r].flow \in Flows /\ reviewer[r].key \in Texts /\ reviewer[r].key \in ReviewKeys
          /\ review[reviewer[r].flow][reviewer[r].key].state = "running"
    BY <2>1, Numbers DEF ReviewerInv
  <2> QED
    BY <1>1, <2>1, <2>2, ReviewerStays
<1>3. OneReviewer'
  BY <1>1 DEF WfInv, OneReviewer
<1>4. ASSUME NEW a \in Approvers PROVE ApproverInv(a)'
  BY <1>1, ApproverStays DEF WfInv
<1>5. ASSUME NEW c \in Cancellers PROVE CancellerInv(c)'
  BY <1>1, CancellerStays DEF WfInv
<1> QED
  BY <1>2, <1>3, <1>4, <1>5

\* The steps of a workflow, of the world and of a worker that only moves on or ends.
LEMMA QuietStep ==
    ASSUME WfInv, TypeOK', UNCHANGED <<users, cancelled, op, sent, late, step, mine, bound, approved, rev, brief>>,
           inputs <= inputs',
           generation'.by = generation.by \/ generation.by = None,
           generation'.by # None => generation'.text \in Texts,
           \A g \in Flows :
               /\ status'[g] = status[g] \/ status'[g] \notin {"new", "queued", "running", "awaiting_approval"}
               /\ \/ pc'[g] = pc[g]
                  \/ pc[g] \notin {"idle", "done"} /\ pc'[g] \in Ended
                  \/ pc[g] \in {"check", "last"} /\ pc'[g] \in {"send", "store"}
               /\ \A k \in ReviewKeys :
                     /\ review[g][k].state \in Judged =>
                           review'[g][k].state \in Judged /\ review'[g][k].text = review[g][k].text
                     /\ review[g][k].state = "running" => review'[g][k] = review[g][k]
    PROVE  WfInv'
<1>1. UsersOK'
  BY DEF WfInv, UsersOK, users
<1>2. ASSUME NEW g \in Flows PROVE SendInv(g)'
  <2>1. \/ pc'[g] = pc[g]
        \/ pc[g] # "idle" /\ pc'[g] \in Ended
        \/ pc[g] \notin {"idle", "call", "persist"} \cup Ended /\ pc'[g] \notin {"idle", "call"}
    BY DEF Ended
  <2> QED
    BY <2>1, SendStays DEF WfInv
<1>3. ASSUME NEW g \in Flows PROVE BoundInv(g)'
  <2>1. \/ pc'[g] = pc[g]
        \/ pc[g] # "done" /\ pc'[g] \notin Advancing
        \/ pc[g] \in Advancing /\ pc'[g] \in Advancing \ {"save", "finish"}
    BY DEF Ended, Advancing
  <2>2. inputs' \in Nat
    BY DEF TypeOK
  <2> QED
    BY <2>1, <2>2, BoundStays DEF WfInv
<1>4. /\ \A r \in Reviewers : ReviewerInv(r)'
      /\ OneReviewer'
      /\ \A a \in Approvers : ApproverInv(a)'
      /\ \A c \in Cancellers : CancellerInv(c)'
  BY <1>1, UsersStay
<1> QED
  BY <1>1, <1>2, <1>3, <1>4 DEF WfInv

\* Where a worker goes; the others stay.
LEMMA Moves ==
    ASSUME TypeOK, NEW f \in Flows, NEW x \in PcOf, Goes(f, x)
    PROVE  pc' \in [Flows -> PcOf] /\ \A g \in Flows : pc'[g] = IF g = f THEN x ELSE pc[g]
BY DEF TypeOK, Goes, PcOf

\* What a status becomes; the others stay.
LEMMA StatusMoves ==
    ASSUME TypeOK, NEW f \in Flows, NEW x \in Statuses, Becomes(f, x)
    PROVE  status' \in [Flows -> Statuses] /\ \A g \in Flows : status'[g] = IF g = f THEN x ELSE status[g]
BY DEF TypeOK, Becomes

\* What the worker's lease and its troubles may become.
LEMMA LeaseTyped ==
    ASSUME TypeOK, NEW f \in Flows, NEW x \in {"none", "live", "over"}
    PROVE  [lease EXCEPT ![f] = x] \in [Flows -> {"none", "live", "over"}]
BY DEF TypeOK

\* An edit, a new version of the inputs, a competing Generation.
LEMMA WorldKeeps ==
    ASSUME WfInv, EditDraft \/ ChangeInputs \/ Generate
    PROVE  WfInv'
<1>1. TypeOK /\ generation \in [by : 0..Other, text : 0..MaxText] /\ inputs \in 1..MaxRev
  BY DEF WfInv, TypeOK
<1>2. UNCHANGED <<record, rev, brief, review, service, pauses, worker, users, trouble, faults>>
  BY DEF EditDraft, ChangeInputs, Generate
<1>3. /\ generation' \in [by : 0..Other, text : 0..MaxText]
      /\ generation'.by = generation.by \/ generation.by = None
      /\ generation'.by # None => generation'.text \in Texts
  <2>1. CASE EditDraft
    <3>1. PICK t \in Texts : generation' = [generation EXCEPT !.text = t]
      BY <2>1 DEF EditDraft
    <3> QED
      BY <1>1, <3>1, Numbers DEF ReviewKeys
  <2>2. CASE ChangeInputs
    BY <1>1, <2>2 DEF ChangeInputs, WfInv, UsersOK
  <2>3. CASE Generate
    <3>1. generation' = [by |-> Other, text |-> 1] /\ generation.by = None
      BY <2>3 DEF Generate
    <3> QED
      BY <3>1, Numbers DEF ReviewKeys
  <2> QED
    BY <2>1, <2>2, <2>3
<1>4. inputs' \in 1..MaxRev /\ inputs <= inputs'
  BY <1>1 DEF EditDraft, ChangeInputs, Generate
<1>5. TypeOK'
  BY <1>1, <1>2, <1>3, <1>4 DEF TypeOK, record, service, worker
<1> QED
  BY <1>2, <1>3, <1>4, <1>5, QuietStep DEF record, service, worker

\* A lease that runs out, and the pass that marks the run uncertain.
LEMMA LeaseKeeps ==
    ASSUME WfInv, NEW f \in Flows, LeaseRunsOut(f) \/ Expire(f)
    PROVE  WfInv'
<1>1. TypeOK
  BY DEF WfInv
<1>2. lease' \in [Flows -> {"none", "live", "over"}]
  BY <1>1, LeaseTyped DEF LeaseRunsOut, Expire
<1>3. /\ status' \in [Flows -> Statuses]
      /\ \A g \in Flows : status'[g] = status[g] \/ status'[g] = "uncertain"
  <2>1. CASE Expire(f)
    BY <1>1, <2>1, StatusMoves DEF Expire, Statuses
  <2>2. CASE LeaseRunsOut(f)
    BY <1>1, <2>2 DEF LeaseRunsOut, TypeOK
  <2> QED
    BY <2>1, <2>2
<1>4. UNCHANGED <<cancelled, wrote, judged, mine, bound, approved, rev, brief, world, service, pauses, worker,
                  users, faults>>
  BY DEF LeaseRunsOut, Expire
<1>5. trouble' \subseteq Flows
  BY <1>1 DEF LeaseRunsOut, Expire, Meets, TypeOK
<1>6. TypeOK'
  BY <1>1, <1>2, <1>3, <1>4, <1>5 DEF TypeOK, world, service, worker
<1>7. \A g \in Flows : status'[g] = status[g] \/ status'[g] \notin {"new", "queued", "running", "awaiting_approval"}
  BY <1>3
<1>8. inputs <= inputs' /\ (generation'.by # None => generation'.text \in Texts)
  BY <1>1, <1>4 DEF WfInv, UsersOK, TypeOK, world
<1> QED
  BY <1>4, <1>6, <1>7, <1>8, QuietStep DEF world, service, worker

\* Worker steps that end the run, or go on to the next step, and change nothing else that
\* the invariant is about.
LEMMA WorkerMoves ==
    ASSUME WfInv, NEW f \in Flows, NEW x \in PcOf, Goes(f, x),
           \/ pc[f] \notin {"idle", "done"} /\ x \in Ended
           \/ pc[f] \in {"check", "last"} /\ x \in {"send", "store"},
           UNCHANGED <<cancelled, wrote, judged, mine, bound, approved, rev, brief, world, service, pauses,
                       step, answer, users>>,
           status' \in [Flows -> Statuses],
           \A g \in Flows : status'[g] = status[g]
                              \/ status'[g] \notin {"new", "queued", "running", "awaiting_approval"},
           lease' \in [Flows -> {"none", "live", "over"}], trouble' \subseteq Flows, faults' \in 0..MaxFaults
    PROVE  WfInv'
<1>1. TypeOK
  BY DEF WfInv
<1>2. pc' \in [Flows -> PcOf] /\ \A g \in Flows : pc'[g] = IF g = f THEN x ELSE pc[g]
  BY <1>1, Moves
<1>3. TypeOK'
  BY <1>1, <1>2 DEF TypeOK, world, service, PcOf
<1>4. inputs <= inputs' /\ (generation'.by # None => generation'.text \in Texts)
  BY <1>1 DEF WfInv, UsersOK, TypeOK, world
<1> QED
  BY <1>2, <1>3, <1>4, QuietStep DEF world, service

\* The reads between two steps write nothing.
LEMMA CheckKeeps ==
    ASSUME WfInv, NEW f \in Flows, Check(f)
    PROVE  WfInv'
<1>1. TypeOK
  BY DEF WfInv
<1>2. PICK x \in {"send", "store", "done", "fail"} : Goes(f, x)
  BY DEF Check
<1>3. /\ pc[f] \in {"check", "last"} /\ x \in PcOf
      /\ UNCHANGED <<record, rev, brief, world, service, pauses, step, answer, users, faults>>
  BY DEF Check, PcOf
<1>4. trouble' \subseteq Flows
  BY <1>1 DEF Check, Meets, TypeOK
<1>5. x \in Ended \/ x \in {"send", "store"}
  BY DEF Ended
<1>6. status' \in [Flows -> Statuses] /\ lease' \in [Flows -> {"none", "live", "over"}] /\ faults' \in 0..MaxFaults
  BY <1>1, <1>3 DEF TypeOK, record
<1> QED
  BY <1>2, <1>3, <1>4, <1>5, <1>6, WorkerMoves DEF record

\* The catch writes an end, if the run is still held.
LEMMA CaughtKeeps ==
    ASSUME WfInv, NEW f \in Flows, Caught(f)
    PROVE  WfInv'
<1>1. TypeOK /\ Goes(f, "done") /\ "done" \in PcOf /\ pc[f] \in {"fail", "doubt"} /\ "done" \in Ended
  BY DEF WfInv, Caught, PcOf, Ended
<1>2. UNCHANGED <<cancelled, wrote, judged, mine, bound, approved, rev, brief, world, service, pauses,
                  step, answer, users, trouble, faults>>
  BY DEF Caught
<1>3. lease' \in [Flows -> {"none", "live", "over"}]
  <2>1. CASE Holds(f)
    BY <1>1, <2>1, LeaseTyped DEF Caught
  <2>2. CASE ~Holds(f)
    BY <1>1, <2>2 DEF Caught, TypeOK
  <2> QED
    BY <2>1, <2>2
<1>4. /\ status' \in [Flows -> Statuses]
      /\ \A g \in Flows : status'[g] = status[g] \/ status'[g] \in {"uncertain", "failed"}
  <2>1. CASE Holds(f)
    <3>1. PICK x \in {"uncertain", "failed"} : Becomes(f, x)
      BY <2>1 DEF Caught
    <3> QED
      BY <1>1, <3>1, StatusMoves DEF Statuses
  <2>2. CASE ~Holds(f)
    BY <1>1, <2>2 DEF Caught, TypeOK
  <2> QED
    BY <2>1, <2>2
<1>5. trouble' \subseteq Flows /\ faults' \in 0..MaxFaults
  BY <1>1, <1>2 DEF TypeOK
<1> QED
  BY <1>1, <1>2, <1>3, <1>4, <1>5, WorkerMoves

\* A crash or a rejected call leaves the record as it was.
LEMMA BreaksKeeps ==
    ASSUME WfInv, NEW f \in Flows, Breaks(f)
    PROVE  WfInv'
<1>1. TypeOK
  BY DEF WfInv
<1>2. PICK x \in {"fail", "done"} : Goes(f, x)
  BY DEF Breaks
<1>3. /\ pc[f] \notin {"idle", "done"} /\ x \in PcOf /\ x \in Ended
      /\ UNCHANGED <<record, rev, brief, world, service, pauses, step, answer, users>>
  BY DEF Breaks, PcOf, Ended
<1>4. trouble' \subseteq Flows /\ faults' \in 0..MaxFaults
  BY <1>1 DEF Breaks, Meets, Fault, TypeOK
<1>5. status' \in [Flows -> Statuses] /\ lease' \in [Flows -> {"none", "live", "over"}]
  BY <1>1, <1>3 DEF TypeOK, record
<1> QED
  BY <1>2, <1>3, <1>4, <1>5, WorkerMoves DEF record

-----------------------------------------------------------------------------
(* The steps of one workflow.                                               *)

\* A step of one workflow: the others keep what they know, and so do the users of this one,
\* if what they look at stays.
LEMMA OneFlow ==
    ASSUME WfInv, NEW f \in Flows, TypeOK', UNCHANGED <<users, inputs>>,
           generation'.by = generation.by \/ generation.by = None,
           generation'.by # None => generation'.text \in Texts,
           \A g \in Flows \ {f} :
               /\ status'[g] = status[g] /\ cancelled'[g] = cancelled[g] /\ pc'[g] = pc[g] /\ step'[g] = step[g]
               /\ op'[g] = op[g] /\ sent'[g] = sent[g] /\ late'[g] = late[g]
               /\ mine'[g] = mine[g] /\ bound'[g] = bound[g] /\ approved'[g] = approved[g]
               /\ rev'[g] = rev[g] /\ brief'[g] = brief[g] /\ review'[g] = review[g],
           status'[f] = "new" => status[f] = "new",
           bound[f] \subseteq bound'[f],
           mine[f] => brief'[f] = brief[f] /\ rev'[f] = rev[f],
           \A k \in ReviewKeys :
               /\ mine[f] /\ review[f][k].state \in Judged => review'[f][k].text = review[f][k].text
               /\ review[f][k].state = "running" /\ k \in Texts => review'[f][k] = review[f][k],
           SendInv(f)', BoundInv(f)'
    PROVE  WfInv'
<1>1. UsersOK'
  BY DEF WfInv, UsersOK, users
<1>2. inputs' \in Nat /\ inputs <= inputs' /\ TypeOK
  BY DEF WfInv, TypeOK
<1>3. ASSUME NEW g \in Flows PROVE SendInv(g)' /\ BoundInv(g)'
  <2>1. CASE g = f
    BY <2>1
  <2>2. CASE g # f
    <3>1. SendInv(g)'
      BY <2>2, SendStays DEF WfInv
    <3>2. BoundInv(g)'
      BY <1>2, <2>2, BoundStays DEF WfInv
    <3> QED
      BY <3>1, <3>2
  <2> QED
    BY <2>1, <2>2
<1>4. \A g \in Flows :
               /\ status'[g] = "new" => status[g] = "new"
               /\ bound[g] \subseteq bound'[g]
               /\ mine[g] => brief'[g] = brief[g] /\ rev'[g] = rev[g]
               /\ \A k \in ReviewKeys :
                     /\ mine[g] /\ review[g][k].state \in Judged => review'[g][k].text = review[g][k].text
                     /\ review[g][k].state = "running" /\ k \in Texts => review'[g][k] = review[g][k]
  OBVIOUS
<1>5. /\ \A r \in Reviewers : ReviewerInv(r)'
      /\ OneReviewer'
      /\ \A a \in Approvers : ApproverInv(a)'
      /\ \A c \in Cancellers : CancellerInv(c)'
  BY <1>1, <1>4, UsersStay
<1> QED
  BY <1>1, <1>3, <1>5 DEF WfInv

\* What OneFlow asks of the draft when nothing is stored.
LEMMA DraftStays ==
    ASSUME WfInv, UNCHANGED generation
    PROVE  generation'.by = generation.by /\ (generation'.by # None => generation'.text \in Texts)
BY DEF WfInv, UsersOK

\* A workflow begins with the inputs as they are.
LEMMA CreateKeeps ==
    ASSUME WfInv, NEW f \in Flows, Create(f)
    PROVE  WfInv'
<1>1. TypeOK /\ SendInv(f) /\ BoundInv(f) /\ status[f] = "new"
  BY DEF WfInv, Create
<1>2. UNCHANGED <<lease, cancelled, wrote, judged, mine, bound, approved,
                  brief, world, service, pauses, worker, users, trouble, faults>>
  BY DEF Create
<1>3. status' \in [Flows -> Statuses] /\ \A g \in Flows : status'[g] = IF g = f THEN "queued" ELSE status[g]
  BY <1>1, StatusMoves DEF Create, Statuses
<1>4. rev' \in [Flows -> 0..MaxRev] /\ \A g \in Flows : rev'[g] = IF g = f THEN inputs ELSE rev[g]
  BY <1>1 DEF Create, TypeOK
<1>5. TypeOK'
  BY <1>1, <1>2, <1>3, <1>4 DEF TypeOK, world, service, worker
<1>6. pc[f] = "idle" /\ ~mine[f] /\ ~cancelled[f] /\ bound[f] = {} /\ approved[f] = None
  BY <1>1 DEF SendInv, BoundInv
<1>7. SendInv(f)'
  BY <1>1, <1>2, <1>3, <1>6 DEF SendInv, service, worker
<1>8. BoundInv(f)'
  <2>1. inputs \in Nat /\ inputs' = inputs /\ brief'[f] <= inputs'
    BY <1>1, <1>2 DEF TypeOK, BoundInv, world
  <2> QED
    BY <1>2, <1>3, <1>4, <1>6, <2>1 DEF BoundInv, Advancing, worker
<1> QED
  BY <1>2, <1>3, <1>4, <1>5, <1>6, <1>7, <1>8, OneFlow, DraftStays DEF world, service, worker

\* Only a run nobody worked on before is claimed, so its operations were not released.
LEMMA ClaimKeeps ==
    ASSUME WfInv, NEW f \in Flows, Claim(f)
    PROVE  WfInv'
<1>1. TypeOK /\ SendInv(f) /\ BoundInv(f) /\ status[f] = "queued" /\ ~cancelled[f]
  BY DEF WfInv, Claim, Claimable
<1>2. UNCHANGED <<cancelled, wrote, judged, mine, bound, approved,
                  rev, brief, world, service, pauses, answer, users, trouble, faults>>
  BY DEF Claim
<1>3. status' \in [Flows -> Statuses] /\ \A g \in Flows : status'[g] = IF g = f THEN "running" ELSE status[g]
  BY <1>1, StatusMoves DEF Claim, Statuses
<1>4. pc' \in [Flows -> PcOf] /\ \A g \in Flows : pc'[g] = IF g = f THEN "research" ELSE pc[g]
  BY <1>1, Moves DEF Claim, PcOf
<1>5. step' \in [Flows -> ProviderSteps] /\ \A g \in Flows \ {f} : step'[g] = step[g]
  BY <1>1 DEF Claim, TypeOK, ProviderSteps
<1>6. lease' \in [Flows -> {"none", "live", "over"}]
  BY <1>1, LeaseTyped DEF Claim
<1>7. TypeOK'
  BY <1>1, <1>2, <1>3, <1>4, <1>5, <1>6 DEF TypeOK, world, service, PcOf
<1>8. pc[f] = "idle" /\ ~mine[f] /\ bound[f] = {} /\ approved[f] = None
  BY <1>1 DEF SendInv, BoundInv
<1>9. SendInv(f)'
  BY <1>1, <1>2, <1>3, <1>4, <1>8 DEF SendInv, Ended, service
<1>10. BoundInv(f)'
  BY <1>1, <1>2, <1>3, <1>4, <1>8 DEF BoundInv, Advancing, world
<1> QED
  BY <1>2, <1>3, <1>4, <1>5, <1>7, <1>8, <1>9, <1>10, OneFlow, DraftStays DEF world, service

\* The brief is of the inputs at that time: of the run's version or a later one.
LEMMA ResearchKeeps ==
    ASSUME WfInv, NEW f \in Flows, Research(f)
    PROVE  WfInv'
<1>1. TypeOK /\ SendInv(f) /\ BoundInv(f) /\ pc[f] = "research"
  BY DEF WfInv, Research
<1>2. UNCHANGED <<cancelled, wrote, judged, mine, bound, approved, rev, world, service, pauses, step, answer,
                  users, faults>>
  BY DEF Research, record
<1>3. PICK x \in {"check", "done", "fail", "doubt"} :
         /\ Goes(f, x)
         /\ x = "check" => brief' = [brief EXCEPT ![f] = inputs] /\ UNCHANGED status
  BY DEF Research, record
<1>4. /\ status' \in [Flows -> Statuses] /\ lease' \in [Flows -> {"none", "live", "over"}]
      /\ \A g \in Flows : status'[g] = status[g] \/ (g = f /\ x # "check" /\ status'[g] = "awaiting_research")
  <2>1. CASE Becomes(f, "awaiting_research") /\ lease' = [lease EXCEPT ![f] = "none"] /\ Goes(f, "done")
    <3>1. x = "done"
      BY <1>1, <1>3, <2>1 DEF Goes, TypeOK
    <3>2. lease' \in [Flows -> {"none", "live", "over"}]
      BY <1>1, <2>1, LeaseTyped
    <3> QED
      BY <1>1, <2>1, <3>1, <3>2, StatusMoves DEF Statuses
  <2>2. CASE UNCHANGED <<status, lease>>
    BY <1>1, <2>2 DEF TypeOK
  <2> QED
    BY <2>1, <2>2 DEF Research, record
<1>5. /\ brief' \in [Flows -> 0..MaxRev]
      /\ \A g \in Flows : brief'[g] = brief[g] \/ (g = f /\ brief'[g] = inputs)
      /\ x = "check" => brief'[f] = inputs
  <2>1. CASE brief' = [brief EXCEPT ![f] = inputs]
    BY <1>1, <2>1 DEF TypeOK
  <2>2. CASE UNCHANGED brief
    BY <1>1, <1>3, <2>2 DEF TypeOK
  <2> QED
    BY <2>1, <2>2 DEF Research
<1>6. pc' \in [Flows -> PcOf] /\ \A g \in Flows : pc'[g] = IF g = f THEN x ELSE pc[g]
  BY <1>1, <1>3, Moves DEF PcOf
<1>7. trouble' \subseteq Flows
  BY <1>1 DEF Research, Meets, TypeOK
<1>8. TypeOK'
  BY <1>1, <1>2, <1>4, <1>5, <1>6, <1>7 DEF TypeOK, world, service, PcOf
<1>9. ~mine[f] /\ bound[f] = {} /\ approved[f] = None
  BY <1>1 DEF BoundInv
<1>10. SendInv(f)'
  BY <1>1, <1>2, <1>4, <1>6 DEF SendInv, Ended, service
<1>11. BoundInv(f)'
  <2>1. rev[f] \in Nat /\ brief[f] \in Nat /\ inputs \in Nat /\ UNCHANGED inputs
    BY <1>1, <1>2 DEF TypeOK, world
  <2>2. rev'[f] <= inputs' /\ brief'[f] <= inputs' /\ (pc'[f] \in Advancing => rev'[f] <= brief'[f])
    BY <1>1, <1>2, <1>5, <1>6, <2>1 DEF BoundInv, Advancing
  <2>3. status'[f] # "awaiting_approval"
    BY <1>1, <1>4, <1>9 DEF BoundInv
  <2> QED
    BY <1>2, <1>6, <1>9, <2>2, <2>3 DEF BoundInv
<1>12. status'[f] = "new" => status[f] = "new"
  BY <1>4
<1>13. \A g \in Flows \ {f} : status'[g] = status[g] /\ brief'[g] = brief[g] /\ pc'[g] = pc[g]
  BY <1>4, <1>5, <1>6
<1> QED
  BY <1>2, <1>8, <1>9, <1>10, <1>11, <1>12, <1>13, OneFlow, DraftStays DEF world, service

\* A change of one workflow's operations: the other step's, and the other workflows', stay.
LEMMA OpMoves ==
    ASSUME TypeOK, NEW f \in Flows, NEW s \in ProviderSteps, NEW x \in OpStates,
           op' = [op EXCEPT ![f] = [@ EXCEPT ![s] = x]]
    PROVE  /\ op' \in [Flows -> [ProviderSteps -> OpStates]]
           /\ \A g \in Flows \ {f} : op'[g] = op[g]
           /\ \A z \in ProviderSteps : op'[f][z] = IF z = s THEN x ELSE op[f][z]
BY DEF TypeOK, OpStates

\* A step that was not sent is sent.
LEMMA SentMoves ==
    ASSUME TypeOK, NEW f \in Flows, NEW s \in ProviderSteps, sent[f][s] = 0,
           sent' = [sent EXCEPT ![f] = [@ EXCEPT ![s] = sent[f][s] + 1]]
    PROVE  /\ sent' \in [Flows -> [ProviderSteps -> 0..1]]
           /\ \A g \in Flows \ {f} : sent'[g] = sent[g]
           /\ \A z \in ProviderSteps : sent'[f][z] = IF z = s THEN 1 ELSE sent[f][z]
<1>1. sent \in [Flows -> [ProviderSteps -> 0..1]]
  BY DEF TypeOK
<1> DEFINE F == [sent[f] EXCEPT ![s] = 1]
<1>2. F \in [ProviderSteps -> 0..1] /\ \A z \in ProviderSteps : F[z] = IF z = s THEN 1 ELSE sent[f][z]
  BY <1>1
<1>3. sent' = [sent EXCEPT ![f] = F]
  OBVIOUS
<1> HIDE DEF F
<1> QED
  BY <1>1, <1>2, <1>3

\* An operation that may be admitted was never sent: a released one ended the worker.
LEMMA SendKeeps ==
    ASSUME WfInv, NEW f \in Flows, Send(f)
    PROVE  WfInv'
<1>1. TypeOK /\ SendInv(f) /\ BoundInv(f) /\ pc[f] = "send" /\ step[f] \in ProviderSteps
  BY DEF WfInv, Send, TypeOK
<1>2. UNCHANGED <<record, rev, brief, world, graph, pauses, step, answer, users, faults>>
  BY DEF Send
<1>3. ~mine[f] /\ bound[f] = {} /\ approved[f] = None /\ rev[f] <= brief[f]
  BY <1>1 DEF BoundInv, Advancing
<1>4. trouble' \subseteq Flows /\ status' \in [Flows -> Statuses] /\ lease' \in [Flows -> {"none", "live", "over"}]
      /\ faults' \in 0..MaxFaults
  BY <1>1, <1>2 DEF Send, Meets, TypeOK, record
<1>5. CASE Goes(f, "fail") /\ UNCHANGED <<op, sent, late>>
  <2>1. "fail" \in PcOf /\ "fail" \in Ended
    BY DEF PcOf, Ended
  <2> QED
    BY <1>1, <1>2, <1>4, <1>5, <2>1, WorkerMoves DEF record, service
<1>6. CASE /\ Admits(f)
           /\ op' = [op EXCEPT ![f] = [@ EXCEPT ![step[f]] = "dispatched"]]
           /\ sent' = [sent EXCEPT ![f] = [@ EXCEPT ![step[f]] = sent[f][step[f]] + 1]]
           /\ late' = IF cancelled[f] THEN [late EXCEPT ![f] = @ + 1] ELSE late
           /\ Goes(f, "call") /\ UNCHANGED trouble
  <2>1. op[f][step[f]] = "none" /\ sent[f][step[f]] = 0 /\ late[f] = 0
    BY <1>1, <1>6 DEF Admits, SendInv, Ended
  <2>2. /\ op' \in [Flows -> [ProviderSteps -> OpStates]]
        /\ \A g \in Flows \ {f} : op'[g] = op[g]
        /\ \A z \in ProviderSteps : op'[f][z] = IF z = step[f] THEN "dispatched" ELSE op[f][z]
    BY <1>1, <1>6, OpMoves DEF OpStates
  <2>3. /\ sent' \in [Flows -> [ProviderSteps -> 0..1]]
        /\ \A g \in Flows \ {f} : sent'[g] = sent[g]
        /\ \A z \in ProviderSteps : sent'[f][z] = IF z = step[f] THEN 1 ELSE sent[f][z]
    BY <1>1, <1>6, <2>1, SentMoves
  <2>4. /\ late' \in [Flows -> Nat] /\ \A g \in Flows \ {f} : late'[g] = late[g]
        /\ late'[f] = IF cancelled[f] THEN 1 ELSE 0
    BY <1>1, <1>6, <2>1 DEF TypeOK
  <2>5. pc' \in [Flows -> PcOf] /\ \A g \in Flows : pc'[g] = IF g = f THEN "call" ELSE pc[g]
    BY <1>1, <1>6, Moves DEF PcOf
  <2>6. TypeOK'
    BY <1>1, <1>2, <1>4, <2>2, <2>3, <2>4, <2>5 DEF TypeOK, record, world, PcOf, OpStates
  <2>7. SendInv(f)'
    <3>1. \A z \in ProviderSteps : (op'[f][z] = "none" <=> sent'[f][z] = 0) /\ op'[f][z] # "released"
      BY <1>1, <2>2, <2>3 DEF SendInv, Ended
    <3>2. op'[f][step'[f]] = "dispatched"
      BY <1>1, <1>2, <2>2
    <3> QED
      BY <1>1, <1>2, <2>4, <2>5, <3>1, <3>2 DEF SendInv, record
  <2>8. BoundInv(f)'
    BY <1>1, <1>2, <1>3, <2>5 DEF BoundInv, Advancing, record, world
  <2> QED
    BY <1>2, <2>2, <2>3, <2>4, <2>5, <2>6, <2>7, <2>8, OneFlow, DraftStays DEF record, world
<1> QED
  BY <1>5, <1>6 DEF Send

\* The graph's node after an invocation, whether or not it advanced.
LEMMA NodesTyped ==
    ASSUME TypeOK, NEW f \in Flows,
           graph' \in {graph, [graph EXCEPT ![f] = NextNode(@)]}
    PROVE  graph' \in [Flows -> {"write", "review", "pause", "approval", "done"}]
<1>1. NextNode(graph[f]) \in {"write", "review", "pause", "approval", "done"}
  BY DEF NextNode
<1> QED
  BY <1>1 DEF TypeOK

\* The provider answers, refuses or is not heard of: without an answer the worker ends.
LEMMA CallKeeps ==
    ASSUME WfInv, NEW f \in Flows, Call(f)
    PROVE  WfInv'
<1>1. TypeOK /\ SendInv(f) /\ BoundInv(f) /\ pc[f] = "call" /\ step[f] \in ProviderSteps
  BY DEF WfInv, Call, TypeOK
<1>2. UNCHANGED <<record, rev, brief, world, sent, late, pauses, step, users, faults>>
  BY DEF Call
<1>3. PICK x \in {"persist", "fail", "doubt"}, s \in {"completed", "uncertain", "released"} :
         /\ Goes(f, x) /\ (s = "released" => x # "persist")
         /\ op' = [op EXCEPT ![f] = [@ EXCEPT ![step[f]] = s]]
  BY DEF Call
<1>4. /\ op' \in [Flows -> [ProviderSteps -> OpStates]]
      /\ \A g \in Flows \ {f} : op'[g] = op[g]
      /\ \A z \in ProviderSteps : op'[f][z] = IF z = step[f] THEN s ELSE op[f][z]
  BY <1>1, <1>3, OpMoves DEF OpStates
<1>5. pc' \in [Flows -> PcOf] /\ \A g \in Flows : pc'[g] = IF g = f THEN x ELSE pc[g]
  BY <1>1, <1>3, Moves DEF PcOf
<1>6. graph' \in [Flows -> {"write", "review", "pause", "approval", "done"}]
  BY <1>1, NodesTyped DEF Call
<1>7. answer' \in [Flows -> {"none", "workflow_step", "workflow_approval"}] /\ trouble' \subseteq Flows
  BY <1>1 DEF Call, Interrupt, Meets, TypeOK
<1>8. TypeOK'
  BY <1>1, <1>2, <1>4, <1>5, <1>6, <1>7 DEF TypeOK, record, world, PcOf, OpStates
<1>9. ~mine[f] /\ bound[f] = {} /\ approved[f] = None /\ rev[f] <= brief[f]
  BY <1>1 DEF BoundInv, Advancing
<1>10. SendInv(f)'
  <2>1. op[f][step[f]] = "dispatched" /\ sent[f][step[f]] # 0
    BY <1>1 DEF SendInv
  <2>2. \A z \in ProviderSteps : /\ op'[f][z] = "none" <=> sent'[f][z] = 0
                                 /\ op'[f][z] = "released" => pc'[f] \in Ended
    BY <1>1, <1>2, <1>3, <1>4, <1>5, <2>1 DEF SendInv, Ended
  <2> QED
    BY <1>1, <1>2, <1>5, <2>2 DEF SendInv, Ended, record
<1>11. BoundInv(f)'
  BY <1>1, <1>2, <1>5, <1>9 DEF BoundInv, Advancing, record, world
<1> QED
  BY <1>2, <1>4, <1>5, <1>8, <1>10, <1>11, OneFlow, DraftStays DEF record, world

\* A worker of a cancelled run does not hold it, and ends here.
LEMMA PersistKeeps ==
    ASSUME WfInv, NEW f \in Flows, Persist(f)
    PROVE  WfInv'
<1>1. TypeOK /\ SendInv(f) /\ BoundInv(f) /\ pc[f] = "persist"
  BY DEF WfInv, Persist
<1>2. UNCHANGED <<status, lease, cancelled, mine, bound, approved,
                  rev, brief, world, service, pauses, answer, users, trouble, faults>>
  BY DEF Persist
<1>3. wrote' \in [Flows -> BOOLEAN] /\ judged' \in [Flows -> BOOLEAN]
  BY <1>1 DEF Persist, TypeOK
<1>4. PICK x \in {"check", "last", "done"} : Goes(f, x) /\ (x # "done" => Holds(f))
  BY DEF Persist, IfHeld
<1>5. pc' \in [Flows -> PcOf] /\ \A g \in Flows : pc'[g] = IF g = f THEN x ELSE pc[g]
  BY <1>1, <1>4, Moves DEF PcOf
<1>6. step' \in [Flows -> ProviderSteps] /\ \A g \in Flows \ {f} : step'[g] = step[g]
  BY <1>1 DEF Persist, TypeOK, ProviderSteps
<1>7. TypeOK'
  BY <1>1, <1>2, <1>3, <1>5, <1>6 DEF TypeOK, world, service, PcOf
<1>8. ~mine[f] /\ bound[f] = {} /\ approved[f] = None /\ rev[f] <= brief[f]
  BY <1>1 DEF BoundInv, Advancing
<1>9. SendInv(f)'
  BY <1>1, <1>2, <1>4, <1>5 DEF SendInv, Ended, Holds, service
<1>10. BoundInv(f)'
  BY <1>1, <1>2, <1>5, <1>8 DEF BoundInv, Advancing, world
<1> QED
  BY <1>2, <1>5, <1>6, <1>7, <1>8, <1>9, <1>10, OneFlow, DraftStays DEF world, service

\* The Signal's one Generation is this workflow's from here on.
LEMMA StoreKeeps ==
    ASSUME WfInv, NEW f \in Flows, Store(f)
    PROVE  WfInv'
<1>1. TypeOK /\ SendInv(f) /\ BoundInv(f) /\ pc[f] = "store"
  BY DEF WfInv, Store
<1>2. UNCHANGED <<record, rev, brief, review, inputs, service, pauses, step, answer, users, faults>>
  BY DEF Store
<1>3. PICK x \in {"save", "fail"} :
         /\ Goes(f, x)
         /\ x = "save" => generation.by = None /\ generation' = [by |-> f, text |-> 1]
         /\ x = "fail" => UNCHANGED generation
  BY DEF Store
<1>4. pc' \in [Flows -> PcOf] /\ \A g \in Flows : pc'[g] = IF g = f THEN x ELSE pc[g]
  BY <1>1, <1>3, Moves DEF PcOf
<1>5. /\ generation' \in [by : 0..Other, text : 0..MaxText]
      /\ generation'.by = generation.by \/ generation.by = None
      /\ generation'.by # None => generation'.text \in Texts
      /\ x = "save" => generation'.by = f
  <2>1. CASE x = "save"
    <3>1. f \in 0..Other /\ 1 \in 0..MaxText
      BY DEF Flows, Other
    <3> QED
      BY <1>3, <2>1, <3>1, Numbers
  <2>2. CASE x = "fail"
    BY <1>1, <1>3, <2>2, DraftStays DEF TypeOK
  <2> QED
    BY <2>1, <2>2
<1>6. trouble' \subseteq Flows
  BY <1>1 DEF Store, Meets, TypeOK
<1>7. TypeOK'
  BY <1>1, <1>2, <1>4, <1>5, <1>6 DEF TypeOK, record, service, PcOf
<1>8. ~mine[f] /\ bound[f] = {} /\ approved[f] = None /\ rev[f] <= brief[f]
  BY <1>1 DEF BoundInv, Advancing
<1>9. SendInv(f)'
  BY <1>1, <1>2, <1>4 DEF SendInv, Ended, record, service
<1>10. BoundInv(f)'
  BY <1>1, <1>2, <1>4, <1>5, <1>8 DEF BoundInv, Advancing, record
<1> QED
  BY <1>2, <1>4, <1>5, <1>7, <1>8, <1>9, <1>10, OneFlow DEF record, service

\* One review of one workflow is written.
LEMMA ReviewMoves ==
    ASSUME TypeOK, NEW f \in Flows, NEW k \in ReviewKeys, NEW x \in Reviewed, Reviews(f, k, x)
    PROVE  /\ review' \in [Flows -> [ReviewKeys -> Reviewed]]
           /\ \A g \in Flows \ {f} : review'[g] = review[g]
           /\ \A z \in ReviewKeys : review'[f][z] = IF z = k THEN x ELSE review[f][z]
<1>1. review \in [Flows -> [ReviewKeys -> Reviewed]]
  BY DEF TypeOK, Reviewed
<1> DEFINE F == [review[f] EXCEPT ![k] = x]
<1>2. F \in [ReviewKeys -> Reviewed] /\ \A z \in ReviewKeys : F[z] = IF z = k THEN x ELSE review[f][z]
  BY <1>1
<1>3. review' = [review EXCEPT ![f] = F]
  BY DEF Reviews
<1> HIDE DEF F
<1> QED
  BY <1>1, <1>2, <1>3

\* The review of the first text is stored before anything binds it.
LEMMA SaveKeeps ==
    ASSUME WfInv, NEW f \in Flows, Save(f)
    PROVE  WfInv'
<1>1. TypeOK /\ SendInv(f) /\ BoundInv(f) /\ pc[f] = "save"
  BY DEF WfInv, Save
<1>2. UNCHANGED <<record, rev, brief, generation, inputs, service, pauses, step, answer, users, trouble, faults>>
  BY DEF Save
<1>3. pc' \in [Flows -> PcOf] /\ \A g \in Flows : pc'[g] = IF g = f THEN "finish" ELSE pc[g]
  BY <1>1, Moves DEF Save, PcOf
<1>4. /\ review' \in [Flows -> [ReviewKeys -> Reviewed]]
      /\ \A g \in Flows \ {f} : review'[g] = review[g]
      /\ \A z \in ReviewKeys : review'[f][z] = IF z = 0 THEN [text |-> 1, state |-> "current"] ELSE review[f][z]
  <2>1. [text |-> 1, state |-> "current"] \in Reviewed /\ 0 \in ReviewKeys
    BY Numbers DEF Reviewed, ReviewKeys
  <2> QED
    BY <1>1, <2>1, ReviewMoves DEF Save
<1>5. TypeOK'
  BY <1>1, <1>2, <1>3, <1>4 DEF TypeOK, record, service, PcOf, Reviewed
<1>6. ~mine[f] /\ bound[f] = {} /\ approved[f] = None /\ rev[f] <= brief[f] /\ generation.by = f
  BY <1>1 DEF BoundInv, Advancing
<1>7. SendInv(f)'
  BY <1>1, <1>2, <1>3 DEF SendInv, Ended, record, service
<1>8. BoundInv(f)'
  BY <1>1, <1>2, <1>3, <1>4, <1>6, Numbers DEF BoundInv, Advancing, record, Judged
<1>9. \A k \in Texts : k \in ReviewKeys /\ review'[f][k] = review[f][k]
  BY <1>4, Numbers
<1> QED
  BY <1>2, <1>3, <1>4, <1>5, <1>6, <1>7, <1>8, <1>9, OneFlow, DraftStays DEF record, service

\* The run awaits approval with that review bound.
LEMMA FinishKeeps ==
    ASSUME WfInv, NEW f \in Flows, Finish(f)
    PROVE  WfInv'
<1>1. TypeOK /\ SendInv(f) /\ BoundInv(f) /\ pc[f] = "finish"
  BY DEF WfInv, Finish
<1>2. UNCHANGED <<cancelled, wrote, judged, approved,
                  rev, brief, world, service, pauses, step, answer, users, trouble, faults>>
  BY DEF Finish
<1>3. pc' \in [Flows -> PcOf] /\ \A g \in Flows : pc'[g] = IF g = f THEN "done" ELSE pc[g]
  BY <1>1, Moves DEF Finish, PcOf
<1>4. /\ status' \in [Flows -> Statuses] /\ lease' \in [Flows -> {"none", "live", "over"}]
      /\ mine' \in [Flows -> BOOLEAN] /\ bound' \in [Flows -> SUBSET ReviewKeys]
      /\ \A g \in Flows \ {f} : status'[g] = status[g] /\ mine'[g] = mine[g] /\ bound'[g] = bound[g]
      /\ \/ status'[f] = "awaiting_approval" /\ mine'[f] /\ bound'[f] = {0}
         \/ status'[f] = status[f] /\ mine'[f] = mine[f] /\ bound'[f] = bound[f]
  <2>1. CASE Holds(f)
    <3>1. lease' \in [Flows -> {"none", "live", "over"}]
      BY <1>1, <2>1, LeaseTyped DEF Finish
    <3>2. status' \in [Flows -> Statuses]
          /\ \A g \in Flows : status'[g] = IF g = f THEN "awaiting_approval" ELSE status[g]
      BY <1>1, <2>1, StatusMoves DEF Finish, Statuses
    <3>3. mine' \in [Flows -> BOOLEAN] /\ \A g \in Flows : mine'[g] = IF g = f THEN TRUE ELSE mine[g]
      BY <1>1, <2>1 DEF Finish, TypeOK
    <3>4. bound' \in [Flows -> SUBSET ReviewKeys] /\ \A g \in Flows : bound'[g] = IF g = f THEN {0} ELSE bound[g]
      <4>1. {0} \in SUBSET ReviewKeys /\ bound \in [Flows -> SUBSET ReviewKeys]
        BY <1>1, Numbers DEF TypeOK
      <4>2. bound' = [bound EXCEPT ![f] = {0}]
        BY <2>1 DEF Finish
      <4> QED
        BY <4>1, <4>2
    <3> QED
      BY <3>1, <3>2, <3>3, <3>4
  <2>2. CASE ~Holds(f)
    BY <1>1, <2>2 DEF Finish, TypeOK
  <2> QED
    BY <2>1, <2>2
<1>5. TypeOK'
  BY <1>1, <1>2, <1>3, <1>4 DEF TypeOK, world, service, PcOf
<1>6. /\ ~mine[f] /\ bound[f] = {} /\ approved[f] = None /\ rev[f] <= brief[f] /\ generation.by = f
      /\ review[f][0].state \in Judged
  BY <1>1 DEF BoundInv, Advancing
<1>7. SendInv(f)'
  BY <1>1, <1>2, <1>3, <1>4 DEF SendInv, Ended, service
<1>8. BoundInv(f)'
  BY <1>1, <1>2, <1>3, <1>4, <1>6 DEF BoundInv, Advancing, world
<1> QED
  BY <1>2, <1>3, <1>4, <1>5, <1>6, <1>7, <1>8, OneFlow, DraftStays DEF world, service

\* A draft's review goes stale with the text, and current with it again: its text stays.
LEMMA RefreshKeeps ==
    ASSUME WfInv, NEW f \in Flows, NEW k \in ReviewKeys, Refresh(f, k)
    PROVE  WfInv'
<1>1. TypeOK /\ review[f][k].state \in Judged
  BY DEF WfInv, Refresh, Judged
<1>2. UNCHANGED <<record, rev, brief, generation, inputs, service, pauses, worker, users, trouble, faults>>
  BY DEF Refresh
<1>3. PICK x \in Judged : ReviewBecomes(f, k, x)
  BY DEF Refresh, Judged
<1> DEFINE R == [review[f][k] EXCEPT !.state = x]
<1>4. R \in Reviewed /\ R.text = review[f][k].text /\ R.state = x
  <2>1. review[f][k] \in Reviewed
    BY <1>1 DEF TypeOK, Reviewed
  <2> QED
    BY <2>1 DEF Reviewed, Judged
<1>5. Reviews(f, k, R)
  BY <1>3 DEF ReviewBecomes
<1> HIDE DEF R
<1>6. /\ review' \in [Flows -> [ReviewKeys -> Reviewed]]
      /\ \A g \in Flows \ {f} : review'[g] = review[g]
      /\ \A z \in ReviewKeys : review'[f][z] = IF z = k THEN R ELSE review[f][z]
  BY <1>1, <1>4, <1>5, ReviewMoves
<1>7. TypeOK'
  BY <1>1, <1>2, <1>6 DEF TypeOK, record, service, worker, Reviewed
<1>8. \A g \in Flows, z \in ReviewKeys :
         /\ review[g][z].state \in Judged =>
               review'[g][z].state \in Judged /\ review'[g][z].text = review[g][z].text
         /\ review[g][z].state = "running" => review'[g][z] = review[g][z]
  BY <1>1, <1>4, <1>6 DEF Judged
<1>9. inputs <= inputs'
  BY <1>1, <1>2 DEF TypeOK
<1> QED
  BY <1>2, <1>7, <1>8, <1>9, DraftStays, QuietStep DEF record, service, worker

-----------------------------------------------------------------------------
(* The requests.                                                            *)

\* A step of a review's request: it writes no review that was judged, nor one another request
\* waits for, and binds what is judged.
LEMMA ReviewerStep ==
    ASSUME WfInv, NEW r \in Reviewers, TypeOK',
           UNCHANGED <<status, lease, cancelled, mine, approved, rev, brief, generation, inputs, service,
                       worker, approver, canceller>>,
           reviewer' \in [Reviewers -> Users], \A q \in Reviewers \ {r} : reviewer'[q] = reviewer[q],
           ReviewerInv(r)',
           reviewer'[r].at = "answer" => review[reviewer'[r].flow][reviewer'[r].key].state # "running",
           \A g \in Flows, k \in ReviewKeys :
              /\ review[g][k].state \in Judged => review'[g][k] = review[g][k]
              /\ review[g][k].state = "running" =>
                    \/ review'[g][k] = review[g][k]
                    \/ reviewer[r].at = "answer" /\ reviewer[r].flow = g /\ reviewer[r].key = k,
           \A g \in Flows :
              /\ bound[g] \subseteq bound'[g]
              /\ \A k \in bound'[g] \ bound[g] : mine[g] /\ review'[g][k].state \in Judged
    PROVE  WfInv'
<1>1. TypeOK
  BY DEF WfInv
<1>2. UsersOK'
  BY DEF WfInv, UsersOK
<1>3. ASSUME NEW g \in Flows PROVE SendInv(g)'
  BY SendStays DEF WfInv, service, worker
<1>4. ASSUME NEW g \in Flows PROVE BoundInv(g)'
  <2>1. BoundInv(g) /\ bound[g] \subseteq ReviewKeys /\ 0 \in ReviewKeys
    BY Numbers DEF WfInv, TypeOK
  <2>2. pc'[g] = pc[g] /\ step'[g] = step[g]
    BY DEF worker
  <2>3. \A k \in bound'[g] : review'[g][k].state \in Judged
    BY <2>1 DEF BoundInv
  <2>4. approved'[g] # None => /\ brief'[g] = rev'[g]
                              /\ \E k \in bound'[g] : review'[g][k].text = approved'[g]
    BY <2>1 DEF BoundInv
  <2>5. bound'[g] # {} => mine'[g]
    BY <2>1 DEF BoundInv
  <2>6. pc'[g] = "finish" => review'[g][0].state \in Judged
    BY <2>1, <2>2 DEF BoundInv
  <2> QED
    BY <2>1, <2>2, <2>3, <2>4, <2>5, <2>6 DEF BoundInv
<1>5. ASSUME NEW q \in Reviewers PROVE ReviewerInv(q)'
  <2>1. CASE q = r
    BY <2>1
  <2>2. CASE q # r
    <3>1. ReviewerInv(q) /\ reviewer'[q] = reviewer[q]
      BY <2>2 DEF WfInv
    <3>2. ASSUME reviewer[q].at = "answer"
          PROVE  review'[reviewer[q].flow][reviewer[q].key] = review[reviewer[q].flow][reviewer[q].key]
      <4>1. /\ reviewer[q].flow \in Flows /\ reviewer[q].key \in ReviewKeys
            /\ review[reviewer[q].flow][reviewer[q].key].state = "running"
        BY <3>1, <3>2, Numbers DEF ReviewerInv
      <4>2. ~(reviewer[r].at = "answer" /\ reviewer[r].flow = reviewer[q].flow /\ reviewer[r].key = reviewer[q].key)
        BY <2>2, <3>2 DEF WfInv, OneReviewer
      <4> QED
        BY <4>1, <4>2
    <3> QED
      BY <3>1, <3>2, ReviewerStays
  <2> QED
    BY <2>1, <2>2
<1>6. OneReviewer'
  <2> SUFFICES ASSUME NEW q \in Reviewers, NEW p \in Reviewers,
                      reviewer'[q].at = "answer", reviewer'[p].at = "answer",
                      reviewer'[q].flow = reviewer'[p].flow, reviewer'[q].key = reviewer'[p].key
               PROVE  q = p
    BY DEF OneReviewer
  <2>1. \A x \in Reviewers \ {r} : reviewer'[x].at = "answer" =>
            review[reviewer'[x].flow][reviewer'[x].key].state = "running"
    BY DEF WfInv, ReviewerInv
  <2>2. CASE q = r \/ p = r
    BY <2>1, <2>2
  <2>3. CASE q # r /\ p # r
    BY <2>3 DEF WfInv, OneReviewer
  <2> QED
    BY <2>2, <2>3
<1>7. ASSUME NEW a \in Approvers PROVE ApproverInv(a)'
  BY ApproverStays DEF WfInv
<1>8. ASSUME NEW c \in Cancellers PROVE CancellerInv(c)'
  BY CancellerStays DEF WfInv
<1> QED
  BY <1>2, <1>3, <1>4, <1>5, <1>6, <1>7, <1>8 DEF WfInv

\* A step of an approval: what it writes as approved is bound, and the status it writes is
\* none that a worker claims, unless nobody cancelled.
LEMMA ApproverStep ==
    ASSUME WfInv, NEW a \in Approvers, TypeOK',
           UNCHANGED <<lease, cancelled, mine, bound, rev, brief, world, op, sent, late, worker,
                       reviewer, canceller>>,
           approver' \in [Approvers -> Users], \A b \in Approvers \ {a} : approver'[b] = approver[b],
           ApproverInv(a)',
           \A g \in Flows :
              \/ status'[g] = status[g]
              \/ status'[g] \notin {"new", "queued", "running", "awaiting_approval"}
              \/ status'[g] = "running" /\ ~cancelled[g],
           \A g \in Flows :
              \/ approved'[g] = approved[g]
              \/ mine[g] /\ brief[g] = rev[g] /\ \E k \in bound[g] : review[g][k].text = approved'[g]
    PROVE  WfInv'
<1>1. TypeOK
  BY DEF WfInv
<1>2. UsersOK'
  BY DEF WfInv, UsersOK, world
<1>3. ASSUME NEW g \in Flows PROVE SendInv(g)'
  BY SendStays DEF WfInv, worker
<1>4. ASSUME NEW g \in Flows PROVE BoundInv(g)'
  <2>1. BoundInv(g)
    BY DEF WfInv
  <2>2. /\ pc'[g] = pc[g] /\ UNCHANGED <<generation, review, inputs>>
        /\ status'[g] = "awaiting_approval" => status[g] = "awaiting_approval"
    BY DEF worker, world
  <2> QED
    BY <2>1, <2>2 DEF BoundInv
<1>5. ASSUME NEW q \in Reviewers PROVE ReviewerInv(q)'
  BY ReviewerStays DEF WfInv, world
<1>6. OneReviewer'
  BY DEF WfInv, OneReviewer
<1>7. ASSUME NEW b \in Approvers PROVE ApproverInv(b)'
  <2>1. CASE b = a
    BY <2>1
  <2>2. CASE b # a
    BY <2>2, ApproverStays DEF WfInv, world
  <2> QED
    BY <2>1, <2>2
<1>8. ASSUME NEW c \in Cancellers PROVE CancellerInv(c)'
  BY CancellerStays DEF WfInv
<1> QED
  BY <1>2, <1>3, <1>4, <1>5, <1>6, <1>7, <1>8 DEF WfInv

\* A review is asked for the text the draft has, of a run that has a draft.
LEMMA ReviewStartKeeps ==
    ASSUME WfInv, NEW r \in Reviewers, ReviewStart(r)
    PROVE  WfInv'
<1>1. TypeOK /\ reviewer \in [Reviewers -> Users]
  BY DEF WfInv, UsersOK
<1>2. UNCHANGED <<record, rev, brief, world, service, pauses, worker, approver, canceller, trouble, faults>>
  BY DEF ReviewStart
<1>3. PICK f \in Flows :
         /\ mine[f]
         /\ reviewer' = [reviewer EXCEPT ![r] =
                            [at |-> "ask", flow |-> f, key |-> generation.text, text |-> None]]
  BY DEF ReviewStart
<1>4. generation.text \in Texts /\ generation.text \in ReviewKeys /\ None \in 0..MaxText
  <2>1. generation.by # None
    BY <1>3, Numbers DEF WfInv, BoundInv
  <2> QED
    BY <2>1, Numbers DEF WfInv, UsersOK
<1>5. [at |-> "ask", flow |-> f, key |-> generation.text, text |-> None] \in Users
  BY <1>4 DEF Users
<1>6. /\ reviewer' \in [Reviewers -> Users] /\ \A q \in Reviewers \ {r} : reviewer'[q] = reviewer[q]
      /\ reviewer'[r].at = "ask" /\ reviewer'[r].flow = f /\ reviewer'[r].key = generation.text
  BY <1>1, <1>3, <1>5
<1>7. TypeOK'
  BY <1>1, <1>2 DEF TypeOK, record, world, service, worker
<1>8. ReviewerInv(r)'
  BY <1>4, <1>6 DEF ReviewerInv
<1> QED
  BY <1>2, <1>6, <1>7, <1>8, ReviewerStep DEF record, world

\* The next place of a request for a review, when it has nothing to wait for.
LEMMA ReviewerGoes ==
    ASSUME WfInv, NEW r \in Reviewers, NEW place \in {"recheck", "bind", "done"}, At(reviewer, r, place),
           reviewer[r].at # "idle"
    PROVE  /\ reviewer' \in [Reviewers -> Users] /\ \A q \in Reviewers \ {r} : reviewer'[q] = reviewer[q]
           /\ reviewer'[r].at = place
           /\ ReviewerInv(r)'
<1>1. reviewer \in [Reviewers -> Users] /\ ReviewerInv(r)
  BY DEF WfInv, UsersOK
<1>2. /\ reviewer' \in [Reviewers -> Users] /\ \A q \in Reviewers \ {r} : reviewer'[q] = reviewer[q]
      /\ reviewer'[r].at = place /\ reviewer'[r].flow = reviewer[r].flow /\ reviewer'[r].key = reviewer[r].key
  <2>1. PICK u \in Users : u = reviewer[r]
    BY <1>1
  <2> DEFINE v == [u EXCEPT !.at = place]
  <2>2. v \in Users
    BY DEF Users
  <2>4. v.at = place /\ v.flow = u.flow /\ v.key = u.key /\ v.text = u.text
    BY DEF Users
  <2>3. reviewer' = [reviewer EXCEPT ![r] = v]
    BY <2>1 DEF At
  <2> HIDE DEF v
  <2> QED
    BY <1>1, <2>1, <2>2, <2>3, <2>4
<1>3. place # "answer" /\ place # "idle"
  OBVIOUS
<1> QED
  BY <1>1, <1>2, <1>3 DEF ReviewerInv

\* A record is made under a key that has none: no other request waits for it.
LEMMA ReviewAskKeeps ==
    ASSUME WfInv, NEW r \in Reviewers, ReviewAsk(r)
    PROVE  WfInv'
<1> DEFINE f == reviewer[r].flow  k == reviewer[r].key
<1>1. TypeOK /\ reviewer \in [Reviewers -> Users] /\ reviewer[r].at = "ask" /\ f \in Flows /\ k \in Texts
      /\ k \in ReviewKeys
  BY Numbers DEF WfInv, UsersOK, ReviewAsk, ReviewerInv
<1>2. UNCHANGED <<record, rev, brief, generation, inputs, service, pauses, worker, approver, canceller,
                  trouble, faults>>
  BY DEF ReviewAsk
<1>3. CASE /\ review[f][k].state = "none"
           /\ Reviews(f, k, [text |-> generation.text, state |-> "running"])
           /\ \/ reviewer' = [reviewer EXCEPT ![r] = [@ EXCEPT !.at = "answer", !.text = generation.text]]
              \/ At(reviewer, r, "done")
  <2> DEFINE R == [text |-> generation.text, state |-> "running"]
  <2>1. R \in Reviewed /\ R.state = "running" /\ generation.text \in 0..MaxText
    BY <1>1 DEF TypeOK, Reviewed
  <2> HIDE DEF R
  <2>2. /\ review' \in [Flows -> [ReviewKeys -> Reviewed]]
        /\ \A g \in Flows \ {f} : review'[g] = review[g]
        /\ \A z \in ReviewKeys : review'[f][z] = IF z = k THEN R ELSE review[f][z]
    BY <1>1, <1>3, <2>1, ReviewMoves DEF R
  <2>3. TypeOK'
    BY <1>1, <1>2, <2>2 DEF TypeOK, record, service, worker, Reviewed
  <2>4. /\ reviewer' \in [Reviewers -> Users] /\ \A q \in Reviewers \ {r} : reviewer'[q] = reviewer[q]
        /\ ReviewerInv(r)'
        /\ reviewer'[r].at = "answer" => reviewer'[r].flow = f /\ reviewer'[r].key = k
    <3>1. CASE reviewer' = [reviewer EXCEPT ![r] = [@ EXCEPT !.at = "answer", !.text = generation.text]]
      <4>1. PICK u \in Users : u = reviewer[r]
        BY <1>1
      <4>2. PICK v \in Users : v = [u EXCEPT !.at = "answer", !.text = generation.text]
        BY <2>1 DEF Users
      <4>3. v.at = "answer" /\ v.flow = f /\ v.key = k
        BY <4>1, <4>2 DEF Users
      <4>4. reviewer' = [reviewer EXCEPT ![r] = v]
        BY <3>1, <4>1, <4>2
      <4>5. reviewer' \in [Reviewers -> Users] /\ reviewer'[r] = v /\ \A q \in Reviewers \ {r} : reviewer'[q] = reviewer[q]
        BY <1>1, <4>4
      <4>6. review'[f][k].state = "running"
        BY <1>1, <2>1, <2>2
      <4> QED
        BY <1>1, <4>3, <4>5, <4>6 DEF ReviewerInv
    <3>2. CASE At(reviewer, r, "done")
      BY <1>1, <3>2, ReviewerGoes
    <3> QED
      BY <1>3, <3>1, <3>2
  <2>5. \A g \in Flows, z \in ReviewKeys : review[g][z].state \in Judged \cup {"running"} => review'[g][z] = review[g][z]
    BY <1>3, <2>2 DEF Judged
  <2> QED
    BY <1>2, <1>3, <2>3, <2>4, <2>5, ReviewerStep DEF record
<1>4. CASE \E place \in {"recheck", "done"} : At(reviewer, r, place) /\ UNCHANGED review
  <2>1. PICK place \in {"recheck", "done"} : At(reviewer, r, place)
    BY <1>4
  <2>2. TypeOK'
    BY <1>1, <1>2, <1>4 DEF TypeOK, record, service, worker
  <2>3. /\ reviewer' \in [Reviewers -> Users] /\ \A q \in Reviewers \ {r} : reviewer'[q] = reviewer[q]
        /\ ReviewerInv(r)' /\ reviewer'[r].at # "answer"
    BY <1>1, <2>1, ReviewerGoes
  <2> QED
    BY <1>2, <1>4, <2>2, <2>3, ReviewerStep DEF record
<1> QED
  BY <1>3, <1>4 DEF ReviewAsk

\* An answer is written to the record that waits for it.
LEMMA ReviewAnswerKeeps ==
    ASSUME WfInv, NEW r \in Reviewers, ReviewAnswer(r)
    PROVE  WfInv'
<1> DEFINE f == reviewer[r].flow  k == reviewer[r].key
<1>1. TypeOK /\ reviewer \in [Reviewers -> Users] /\ reviewer[r].at = "answer" /\ f \in Flows
      /\ k \in ReviewKeys /\ review[f][k].state = "running"
  BY Numbers DEF WfInv, UsersOK, ReviewAnswer, ReviewerInv
<1>2. UNCHANGED <<record, rev, brief, generation, inputs, service, pauses, worker, approver, canceller,
                  trouble, faults>>
  BY DEF ReviewAnswer
<1>3. PICK x \in {"current", "stale", "failed"}, place \in {"recheck", "done"} :
         ReviewBecomes(f, k, x) /\ At(reviewer, r, place)
  BY DEF ReviewAnswer
<1> DEFINE R == [review[f][k] EXCEPT !.state = x]
<1>4. R \in Reviewed /\ Reviews(f, k, R)
  <2>1. review[f][k] \in Reviewed
    BY <1>1 DEF TypeOK, Reviewed
  <2> QED
    BY <1>3, <2>1 DEF Reviewed, ReviewBecomes
<1> HIDE DEF R
<1>5. /\ review' \in [Flows -> [ReviewKeys -> Reviewed]]
      /\ \A g \in Flows \ {f} : review'[g] = review[g]
      /\ \A z \in ReviewKeys : review'[f][z] = IF z = k THEN R ELSE review[f][z]
  BY <1>1, <1>4, ReviewMoves
<1>6. TypeOK'
  BY <1>1, <1>2, <1>5 DEF TypeOK, record, service, worker, Reviewed
<1>7. /\ reviewer' \in [Reviewers -> Users] /\ \A q \in Reviewers \ {r} : reviewer'[q] = reviewer[q]
      /\ ReviewerInv(r)' /\ reviewer'[r].at # "answer"
  BY <1>1, <1>3, ReviewerGoes
<1>8. \A g \in Flows, z \in ReviewKeys :
          review'[g][z] = review[g][z] \/ (g = f /\ z = k /\ review[g][z].state = "running")
  BY <1>1, <1>5
<1> QED
  BY <1>1, <1>2, <1>6, <1>7, <1>8, ReviewerStep DEF record, Judged

\* What is bound was judged, and of a run that awaits approval.
LEMMA ReviewBindKeeps ==
    ASSUME WfInv, NEW r \in Reviewers, ReviewBind(r)
    PROVE  WfInv'
<1> DEFINE f == reviewer[r].flow  k == reviewer[r].key
<1>1. TypeOK /\ reviewer[r].at \in {"recheck", "bind"} /\ f \in Flows /\ k \in ReviewKeys
  BY Numbers DEF WfInv, ReviewBind, ReviewerInv
<1>2. UNCHANGED <<status, lease, cancelled, wrote, judged, mine, approved,
                  rev, brief, world, service, pauses, worker, approver, canceller, trouble, faults>>
  BY DEF ReviewBind
<1>3. PICK place \in {"bind", "done"} : At(reviewer, r, place)
  BY DEF ReviewBind
<1>4. /\ reviewer' \in [Reviewers -> Users] /\ \A q \in Reviewers \ {r} : reviewer'[q] = reviewer[q]
      /\ ReviewerInv(r)' /\ reviewer'[r].at # "answer"
  BY <1>1, <1>3, ReviewerGoes
<1>5. /\ bound' \in [Flows -> SUBSET ReviewKeys]
      /\ \A g \in Flows : bound[g] \subseteq bound'[g]
             /\ \A z \in bound'[g] \ bound[g] : mine[g] /\ review[g][z].state \in Judged
  <2>1. CASE /\ status[f] = "awaiting_approval" /\ review[f][k].state = "current"
             /\ bound' = [bound EXCEPT ![f] = @ \cup {k}]
    <3>1. mine[f]
      BY <1>1, <2>1 DEF WfInv, BoundInv
    <3>2. bound \in [Flows -> SUBSET ReviewKeys] /\ bound[f] \cup {k} \in SUBSET ReviewKeys
      BY <1>1 DEF TypeOK
    <3>3. bound' \in [Flows -> SUBSET ReviewKeys]
          /\ \A g \in Flows : bound'[g] = IF g = f THEN bound[f] \cup {k} ELSE bound[g]
      BY <2>1, <3>2
    <3> QED
      BY <2>1, <3>1, <3>3 DEF Judged
  <2>2. CASE UNCHANGED bound
    BY <1>1, <2>2 DEF TypeOK
  <2> QED
    BY <2>1, <2>2 DEF ReviewBind
<1>6. TypeOK'
  BY <1>1, <1>2, <1>5 DEF TypeOK, world, service, worker
<1> QED
  BY <1>2, <1>4, <1>5, <1>6, ReviewerStep DEF world

\* The next place of an approval: what it works on stays.
LEMMA ApproverGoes ==
    ASSUME WfInv, NEW a \in Approvers,
           NEW place \in {"review", "stale", "claim", "call", "completed", "failed", "uncertain", "done"},
           At(approver, a, place)
    PROVE  /\ approver' \in [Approvers -> Users] /\ \A b \in Approvers \ {a} : approver'[b] = approver[b]
           /\ approver'[a].at = place /\ approver'[a].flow = approver[a].flow
           /\ approver'[a].key = approver[a].key /\ approver'[a].text = approver[a].text
<1>1. approver \in [Approvers -> Users]
  BY DEF WfInv, UsersOK
<1>2. PICK u \in Users : u = approver[a]
  BY <1>1
<1> DEFINE v == [u EXCEPT !.at = place]
<1>3. v \in Users
  BY DEF Users
<1>4. v.at = place /\ v.flow = u.flow /\ v.key = u.key /\ v.text = u.text
  BY DEF Users
<1>5. approver' = [approver EXCEPT ![a] = v]
  BY <1>2 DEF At
<1> HIDE DEF v
<1> QED
  BY <1>1, <1>2, <1>3, <1>4, <1>5

\* An approval starts from a review that is bound.
LEMMA ApproveStartKeeps ==
    ASSUME WfInv, NEW a \in Approvers, ApproveStart(a)
    PROVE  WfInv'
<1>1. TypeOK /\ approver \in [Approvers -> Users]
  BY DEF WfInv, UsersOK
<1>2. UNCHANGED <<record, rev, brief, world, service, pauses, worker, reviewer, canceller, trouble, faults>>
  BY DEF ApproveStart
<1>3. PICK f \in Flows, t \in Texts, k \in ReviewKeys :
         /\ HasReview(f, k, t)
         /\ approver' = [approver EXCEPT ![a] = [at |-> "inputs", flow |-> f, key |-> k, text |-> t]]
  BY DEF ApproveStart
<1>4. [at |-> "inputs", flow |-> f, key |-> k, text |-> t] \in Users
  BY Numbers DEF Users
<1>5. /\ approver' \in [Approvers -> Users] /\ \A b \in Approvers \ {a} : approver'[b] = approver[b]
      /\ approver'[a].at = "inputs" /\ approver'[a].flow = f /\ approver'[a].key = k /\ approver'[a].text = t
  BY <1>1, <1>3, <1>4
<1>6. TypeOK'
  BY <1>1, <1>2 DEF TypeOK, record, world, service, worker
<1>7. ApproverInv(a)'
  BY <1>2, <1>3, <1>5 DEF ApproverInv, HasReview, record, world
<1> QED
  BY <1>2, <1>5, <1>6, <1>7, ApproverStep DEF record, world, service

\* The steps of an approval that only move it on: with unchanged inputs the brief of the run
\* is of the version the run was created from.
LEMMA ApproveReadKeeps ==
    ASSUME WfInv, NEW a \in Approvers, ApproveInputs(a) \/ ApproveReview(a) \/ ApproverDies(a)
    PROVE  WfInv'
<1> DEFINE f == approver[a].flow
<1>1. TypeOK /\ ApproverInv(a) /\ approver[a].at # "idle" /\ f \in Flows
  BY DEF WfInv, ApproveInputs, ApproveReview, ApproverDies, ApproverInv
<1>2. UNCHANGED <<record, rev, brief, world, service, pauses, worker, reviewer, canceller, trouble>>
  BY DEF ApproveInputs, ApproveReview, ApproverDies
<1>3. PICK place \in {"review", "stale", "claim", "done"} :
         /\ At(approver, a, place)
         /\ place = "review" => approver[a].at = "inputs" /\ IsCurrent(f)
         /\ place = "claim" => approver[a].at = "review"
  BY DEF ApproveInputs, ApproveReview, ApproverDies
<1>4. /\ approver' \in [Approvers -> Users] /\ \A b \in Approvers \ {a} : approver'[b] = approver[b]
      /\ approver'[a].at = place /\ approver'[a].flow = f
      /\ approver'[a].key = approver[a].key /\ approver'[a].text = approver[a].text
  BY <1>3, ApproverGoes
<1>5. faults' \in 0..MaxFaults
  BY <1>1 DEF ApproveInputs, ApproveReview, ApproverDies, Fault, TypeOK
<1>6. TypeOK'
  BY <1>1, <1>2, <1>5 DEF TypeOK, record, world, service, worker
<1>7. place \in {"review", "claim"} => brief[f] = rev[f]
  <2>1. CASE place = "review"
    <3>1. approver[a].at = "inputs" /\ inputs = rev[f] /\ approver[a].key \in bound[f]
      BY <1>1, <1>3, <2>1 DEF IsCurrent, ApproverInv
    <3>2. mine[f] /\ BoundInv(f)
      BY <1>1, <3>1 DEF WfInv, BoundInv
    <3>3. rev[f] <= brief[f] /\ brief[f] <= inputs /\ rev[f] \in Nat /\ brief[f] \in Nat
      BY <1>1, <3>2 DEF BoundInv, TypeOK
    <3> QED
      BY <3>1, <3>3
  <2>2. CASE place = "claim"
    BY <1>1, <1>3, <2>2 DEF ApproverInv
  <2> QED
    BY <2>1, <2>2
<1>8. place \in {"review", "claim"} => approver[a].at \in {"inputs", "review", "claim"}
  BY <1>3
<1>9. ApproverInv(a)'
  BY <1>1, <1>2, <1>4, <1>7, <1>8 DEF ApproverInv, record, world
<1> QED
  BY <1>2, <1>4, <1>6, <1>9, ApproverStep DEF record, world, service

\* The steps of an approval that write a status over whatever it has become.
LEMMA ApproveWriteKeeps ==
    ASSUME WfInv, NEW a \in Approvers, ApproveStale(a) \/ ApproveRecord(a)
    PROVE  WfInv'
<1> DEFINE f == approver[a].flow
<1>1. TypeOK /\ f \in Flows
  BY DEF WfInv, ApproveStale, ApproveRecord, ApproverInv
<1>2. UNCHANGED <<lease, cancelled, wrote, judged, mine, bound, approved, rev, brief, world, service, pauses,
                  worker, reviewer, canceller, faults>>
  BY DEF ApproveStale, ApproveRecord
<1>3. PICK x \in {"stale", "completed", "failed", "uncertain"} : Becomes(f, x)
  BY DEF ApproveStale, ApproveRecord
<1>4. status' \in [Flows -> Statuses] /\ \A g \in Flows : status'[g] = IF g = f THEN x ELSE status[g]
  BY <1>1, <1>3, StatusMoves DEF Statuses
<1>5. /\ approver' \in [Approvers -> Users] /\ \A b \in Approvers \ {a} : approver'[b] = approver[b]
      /\ approver'[a].at = "done" /\ approver'[a].flow = f
  BY ApproverGoes DEF ApproveStale, ApproveRecord
<1>6. trouble' \subseteq Flows
  BY <1>1 DEF ApproveStale, ApproveRecord, TypeOK
<1>7. TypeOK'
  BY <1>1, <1>2, <1>4, <1>6 DEF TypeOK, world, service, worker
<1>8. ApproverInv(a)'
  BY <1>1, <1>5 DEF ApproverInv
<1> QED
  BY <1>2, <1>4, <1>5, <1>7, <1>8, ApproverStep DEF service

\* The claim names a text that is bound with a brief of the run's version.
LEMMA ApproveClaimKeeps ==
    ASSUME WfInv, NEW a \in Approvers, ApproveClaim(a)
    PROVE  WfInv'
<1> DEFINE f == approver[a].flow
<1>1. TypeOK /\ ApproverInv(a) /\ approver[a].at = "claim" /\ f \in Flows
  BY DEF WfInv, ApproveClaim, ApproverInv
<1>2. UNCHANGED <<lease, cancelled, wrote, judged, mine, bound,
                  rev, brief, world, service, pauses, worker, reviewer, canceller, trouble, faults>>
  BY DEF ApproveClaim
<1>3. PICK place \in {"call", "done"} : At(approver, a, place)
  BY DEF ApproveClaim
<1>4. /\ approver' \in [Approvers -> Users] /\ \A b \in Approvers \ {a} : approver'[b] = approver[b]
      /\ approver'[a].at = place /\ approver'[a].flow = f
  BY <1>3, ApproverGoes
<1>5. /\ status' \in [Flows -> Statuses] /\ approved' \in [Flows -> 0..MaxText]
      /\ \A g \in Flows : /\ status'[g] = status[g] \/ (status'[g] = "running" /\ ~cancelled[g])
                          /\ \/ approved'[g] = approved[g]
                             \/ g = f /\ approved'[g] = approver[a].text
  <2>1. CASE CanApprove(f)
    <3>1. status' \in [Flows -> Statuses] /\ \A g \in Flows : status'[g] = IF g = f THEN "running" ELSE status[g]
      BY <1>1, <2>1, StatusMoves DEF ApproveClaim, Statuses
    <3>2. approved \in [Flows -> 0..MaxText] /\ approver[a].text \in 0..MaxText
      BY <1>1, Numbers DEF TypeOK, ApproverInv
    <3>3. approved' = [approved EXCEPT ![f] = approver[a].text]
      BY <2>1 DEF ApproveClaim
    <3> QED
      BY <2>1, <3>1, <3>2, <3>3 DEF CanApprove
  <2>2. CASE ~CanApprove(f)
    BY <1>1, <2>2 DEF ApproveClaim, TypeOK
  <2> QED
    BY <2>1, <2>2
<1>6. TypeOK'
  BY <1>1, <1>2, <1>5 DEF TypeOK, world, service, worker
<1>7. /\ approver[a].key \in bound[f] /\ review[f][approver[a].key].text = approver[a].text
      /\ brief[f] = rev[f] /\ mine[f]
  <2>1. approver[a].key \in bound[f] /\ review[f][approver[a].key].text = approver[a].text /\ brief[f] = rev[f]
    BY <1>1 DEF ApproverInv
  <2> QED
    BY <1>1, <2>1 DEF WfInv, BoundInv
<1>8. ApproverInv(a)'
  BY <1>1, <1>3, <1>4 DEF ApproverInv
<1>9. \A g \in Flows :
              \/ approved'[g] = approved[g]
              \/ mine[g] /\ brief[g] = rev[g] /\ \E k \in bound[g] : review[g][k].text = approved'[g]
  BY <1>5, <1>7
<1> QED
  BY <1>2, <1>4, <1>5, <1>6, <1>8, <1>9, ApproverStep DEF service

\* The graph's last node, and what the approval makes of its answer.
LEMMA ApproveCallKeeps ==
    ASSUME WfInv, NEW a \in Approvers, ApproveCall(a)
    PROVE  WfInv'
<1> DEFINE f == approver[a].flow
<1>1. TypeOK /\ f \in Flows
  BY DEF WfInv, ApproveCall, ApproverInv
<1>2. UNCHANGED <<record, rev, brief, world, op, sent, late, pauses, worker, reviewer, canceller, trouble, faults>>
  BY DEF ApproveCall
<1>3. PICK place \in {"completed", "failed", "uncertain"} : At(approver, a, place)
  BY DEF ApproveCall
<1>4. /\ approver' \in [Approvers -> Users] /\ \A b \in Approvers \ {a} : approver'[b] = approver[b]
      /\ approver'[a].at = place /\ approver'[a].flow = f
  BY <1>3, ApproverGoes
<1>5. graph' \in [Flows -> {"write", "review", "pause", "approval", "done"}]
  BY <1>1, NodesTyped DEF ApproveCall
<1>6. TypeOK'
  BY <1>1, <1>2, <1>5 DEF TypeOK, record, world, worker
<1>7. ApproverInv(a)'
  BY <1>1, <1>3, <1>4 DEF ApproverInv
<1> QED
  BY <1>2, <1>4, <1>6, <1>7, ApproverStep DEF record

\* A cancellation overwrites whatever the status has become, and no worker claims it again.
LEMMA CancelKeeps ==
    ASSUME WfInv, NEW c \in Cancellers, Cancel(c)
    PROVE  WfInv'
<1> DEFINE f == canceller[c].flow
<1>1. TypeOK /\ canceller \in [Cancellers -> Users] /\ CancellerInv(c)
  BY DEF WfInv, UsersOK
<1>2. UNCHANGED <<lease, wrote, judged, mine, bound, approved,
                  rev, brief, world, service, pauses, worker, reviewer, approver, trouble, faults>>
  BY DEF Cancel
<1>3. PICK u \in Users : u = canceller[c]
  BY <1>1
<1>4. /\ canceller' \in [Cancellers -> Users] /\ \A d \in Cancellers \ {c} : canceller'[d] = canceller[d]
      /\ canceller'[c].at # "idle" => canceller'[c].flow \in Flows
      /\ canceller'[c].at = "write" => status'[canceller'[c].flow] # "new"
      /\ status' \in [Flows -> Statuses] /\ cancelled' \in [Flows -> BOOLEAN]
      /\ \A g \in Flows : \/ status'[g] = status[g] /\ cancelled'[g] = cancelled[g]
                          \/ status'[g] = "cancelled" /\ cancelled'[g]
  <2>1. CASE canceller[c].at = "idle"
    <3>1. PICK g \in Flows :
             /\ status[g] \notin Terminal \cup {"new"}
             /\ canceller' = [canceller EXCEPT ![c] = [@ EXCEPT !.at = "write", !.flow = g]]
             /\ UNCHANGED <<status, cancelled>>
      BY <2>1 DEF Cancel
    <3> DEFINE v == [u EXCEPT !.at = "write", !.flow = g]
    <3>2. v \in Users /\ v.flow = g
      BY DEF Users
    <3>3. canceller' = [canceller EXCEPT ![c] = v]
      BY <1>3, <3>1
    <3> HIDE DEF v
    <3>4. canceller' \in [Cancellers -> Users] /\ canceller'[c] = v /\ \A d \in Cancellers \ {c} : canceller'[d] = canceller[d]
      BY <1>1, <3>2, <3>3
    <3>5. status \in [Flows -> Statuses] /\ cancelled \in [Flows -> BOOLEAN]
      BY <1>1 DEF TypeOK
    <3> QED
      BY <3>1, <3>2, <3>4, <3>5
  <2>2. CASE /\ canceller[c].at = "write" /\ At(canceller, c, "done")
             /\ Becomes(f, "cancelled") /\ cancelled' = [cancelled EXCEPT ![f] = TRUE]
    <3>1. f \in Flows
      BY <1>1, <2>2 DEF CancellerInv
    <3> DEFINE v == [u EXCEPT !.at = "done"]
    <3>2. v \in Users /\ v.flow = f /\ v.at = "done"
      BY <1>3 DEF Users
    <3>3. canceller' = [canceller EXCEPT ![c] = v]
      BY <1>3, <2>2 DEF At
    <3> HIDE DEF v
    <3>4. canceller' \in [Cancellers -> Users] /\ canceller'[c] = v /\ \A d \in Cancellers \ {c} : canceller'[d] = canceller[d]
      BY <1>1, <3>2, <3>3
    <3>5. status' \in [Flows -> Statuses] /\ \A g \in Flows : status'[g] = IF g = f THEN "cancelled" ELSE status[g]
      BY <1>1, <2>2, <3>1, StatusMoves DEF Statuses
    <3>6. cancelled' \in [Flows -> BOOLEAN] /\ \A g \in Flows : cancelled'[g] = IF g = f THEN TRUE ELSE cancelled[g]
      BY <1>1, <2>2, <3>1 DEF TypeOK
    <3> QED
      BY <3>1, <3>2, <3>4, <3>5, <3>6
  <2> QED
    BY <2>1, <2>2 DEF Cancel
<1>5. TypeOK'
  BY <1>1, <1>2, <1>4 DEF TypeOK, world, service, worker
<1>6. UsersOK'
  BY <1>2, <1>4 DEF WfInv, UsersOK, world
<1>7. ASSUME NEW g \in Flows PROVE SendInv(g)'
  <2>1. SendInv(g) /\ pc'[g] = pc[g] /\ step'[g] = step[g] /\ op'[g] = op[g] /\ sent'[g] = sent[g] /\ late'[g] = late[g]
    BY <1>2 DEF WfInv, service, worker
  <2> QED
    BY <1>4, <2>1 DEF SendInv
<1>8. ASSUME NEW g \in Flows PROVE BoundInv(g)'
  <2>1. BoundInv(g) /\ pc'[g] = pc[g] /\ UNCHANGED <<generation, review, inputs>>
    BY <1>2 DEF WfInv, worker, world
  <2> QED
    BY <1>2, <1>4, <2>1 DEF BoundInv
<1>9. ASSUME NEW r \in Reviewers PROVE ReviewerInv(r)'
  BY <1>2, ReviewerStays DEF WfInv, world
<1>10. OneReviewer'
  BY <1>2 DEF WfInv, OneReviewer
<1>11. ASSUME NEW a \in Approvers PROVE ApproverInv(a)'
  BY <1>2, ApproverStays DEF WfInv, world
<1>12. ASSUME NEW d \in Cancellers PROVE CancellerInv(d)'
  <2>1. CASE d = c
    BY <1>4, <2>1 DEF CancellerInv
  <2>2. CASE d # c
    <3>1. \A g \in Flows : status'[g] = "new" => status[g] = "new"
      BY <1>4
    <3> QED
      BY <1>4, <2>2, <3>1, CancellerStays DEF WfInv
  <2> QED
    BY <2>1, <2>2
<1> QED
  BY <1>5, <1>6, <1>7, <1>8, <1>9, <1>10, <1>11, <1>12 DEF WfInv

\* Every step keeps the invariant.
LEMMA WfStepKeeps == WfInv /\ [Next]_vars => WfInv'
<1> SUFFICES ASSUME WfInv, [Next]_vars PROVE WfInv'
  OBVIOUS
<1>1. CASE EditDraft \/ ChangeInputs \/ Generate
  BY <1>1, WorldKeeps
<1>2. ASSUME NEW f \in Flows,
             \/ Create(f) \/ LeaseRunsOut(f) \/ Expire(f) \/ Claim(f)
             \/ Work(f) \/ Breaks(f) \/ \E k \in ReviewKeys : Refresh(f, k)
      PROVE  WfInv'
  BY <1>2, CreateKeeps, LeaseKeeps, ClaimKeeps, ResearchKeeps, CheckKeeps, SendKeeps, CallKeeps, PersistKeeps,
     StoreKeeps, SaveKeeps, FinishKeeps, CaughtKeeps, BreaksKeeps, RefreshKeeps DEF Work
<1>3. ASSUME NEW r \in Reviewers, ReviewStart(r) \/ ReviewAsk(r) \/ ReviewAnswer(r) \/ ReviewBind(r)
      PROVE  WfInv'
  BY <1>3, ReviewStartKeeps, ReviewAskKeeps, ReviewAnswerKeeps, ReviewBindKeeps
<1>4. ASSUME NEW a \in Approvers, ApproveStep(a) PROVE WfInv'
  BY <1>4, ApproveStartKeeps, ApproveReadKeeps, ApproveWriteKeeps, ApproveClaimKeeps, ApproveCallKeeps
     DEF ApproveStep
<1>5. ASSUME NEW c \in Cancellers, Cancel(c) PROVE WfInv'
  BY <1>5, CancelKeeps
<1>6. CASE UNCHANGED vars
  BY <1>6 DEF WfInv, TypeOK, UsersOK, SendInv, BoundInv, ReviewerInv, OneReviewer, ApproverInv, CancellerInv,
              vars, record, world, service, worker, users
<1> QED
  BY <1>1, <1>2, <1>3, <1>4, <1>5, <1>6 DEF Next

\* The invariant holds in every state.
LEMMA WfAlways == Spec => []WfInv
BY WfInitGood, WfStepKeeps, PTL DEF Spec

-----------------------------------------------------------------------------
(* What follows.                                                            *)

\* Every variable of the workflows has its type in every state.
THEOREM TypeCorrect == Spec => []TypeOK
<1>1. WfInv => TypeOK
  BY DEF WfInv
<1> QED
  BY <1>1, WfAlways, PTL

\* NeverReplayed (content-workflow.service.ts, advanceClaimedWorkflow and the ledger): a
\* provider step of a workflow is sent once, through restarts, leases that run out and the
\* loop over the graph's interrupts; a cancelled workflow sends what it was about to send.
THEOREM NeverSentTwice == Spec => []NeverReplayed
<1>1. WfInv => NeverReplayed
  <2> SUFFICES ASSUME WfInv, NEW f \in Flows
               PROVE  late[f] <= 1 /\ \A s \in ProviderSteps : sent[f][s] <= 1
    BY DEF NeverReplayed
  <2>1. late[f] \in Nat /\ \A s \in ProviderSteps : sent[f][s] \in 0..1
    BY DEF WfInv, TypeOK
  <2> QED
    BY <2>1 DEF WfInv, SendInv
<1> QED
  BY <1>1, WfAlways, PTL

\* ApprovedWasReviewed (approveContentWorkflowForUser): the text an approval names was drafted
\* by this workflow and reviewed in it, with evidence of the inputs it was created from, while
\* edits, new sources, other reviews and other approvals come between any two of its reads.
THEOREM ApprovedStandsOnReview == Spec => []ApprovedWasReviewed
<1>1. WfInv => ApprovedWasReviewed
  <2> SUFFICES ASSUME WfInv, NEW f \in Flows, approved[f] # None
               PROVE  /\ generation.by = f /\ brief[f] = rev[f]
                      /\ \E k \in bound[f] : /\ review[f][k].text = approved[f]
                                             /\ review[f][k].state \in {"current", "stale"}
    BY DEF ApprovedWasReviewed
  <2> QED
    BY DEF WfInv, BoundInv, Judged
<1> QED
  BY <1>1, WfAlways, PTL

\* OnlyHolderAdvances (updateClaimedContentWorkflow): a worker whose run has ended, or was
\* cancelled, between any two of its steps writes neither outputs nor drafts to it.
THEOREM HolderAdvances == Spec => OnlyHolderAdvances
<1>1. WfInv /\ [Next]_vars =>
         [\A f \in Flows : status[f] # "running" => UNCHANGED <<wrote[f], judged[f], mine[f]>>]_vars
  <2> SUFFICES ASSUME WfInv, [Next]_vars, NEW f \in Flows, status[f] # "running"
               PROVE  UNCHANGED <<wrote[f], judged[f], mine[f]>>
    OBVIOUS
  <2>1. /\ wrote \in [Flows -> BOOLEAN] /\ judged \in [Flows -> BOOLEAN] /\ mine \in [Flows -> BOOLEAN]
    BY DEF WfInv, TypeOK
  <2>2. ASSUME NEW g \in Flows, Persist(g) PROVE UNCHANGED <<wrote[f], judged[f], mine[f]>>
    BY <2>1, <2>2 DEF Persist, Holds
  <2>3. ASSUME NEW g \in Flows, Finish(g) PROVE UNCHANGED <<wrote[f], judged[f], mine[f]>>
    BY <2>1, <2>3 DEF Finish, Holds
  <2>4. ASSUME NEW g \in Flows,
               \/ Create(g) \/ LeaseRunsOut(g) \/ Expire(g) \/ Claim(g) \/ Breaks(g)
               \/ \E k \in ReviewKeys : Refresh(g, k)
        PROVE  UNCHANGED <<wrote, judged, mine>>
    BY <2>4 DEF Create, LeaseRunsOut, Expire, Claim, Breaks, Refresh, record
  <2>5. ASSUME NEW g \in Flows,
               Research(g) \/ Check(g) \/ Send(g) \/ Call(g) \/ Store(g) \/ Save(g) \/ Caught(g)
        PROVE  UNCHANGED <<wrote, judged, mine>>
    BY <2>5 DEF Research, Check, Send, Call, Store, Save, Caught, record
  <2>6. ASSUME NEW r \in Reviewers, ReviewStart(r) \/ ReviewAsk(r) \/ ReviewAnswer(r) \/ ReviewBind(r)
        PROVE  UNCHANGED <<wrote, judged, mine>>
    BY <2>6 DEF ReviewStart, ReviewAsk, ReviewAnswer, ReviewBind, record
  <2>7. ASSUME NEW a \in Approvers, ApproveStep(a) PROVE UNCHANGED <<wrote, judged, mine>>
    BY <2>7 DEF ApproveStep, ApproveStart, ApproveInputs, ApproveStale, ApproveReview, ApproveClaim,
                ApproveCall, ApproveRecord, ApproverDies, record
  <2>8. ASSUME NEW c \in Cancellers, Cancel(c) PROVE UNCHANGED <<wrote, judged, mine>>
    BY <2>8 DEF Cancel
  <2>9. CASE EditDraft \/ ChangeInputs \/ Generate
    BY <2>9 DEF EditDraft, ChangeInputs, Generate, record
  <2>10. CASE UNCHANGED vars
    BY <2>10 DEF vars, record
  <2> QED
    BY <2>2, <2>3, <2>4, <2>5, <2>6, <2>7, <2>8, <2>9, <2>10 DEF Next, Work
<1> QED
  BY <1>1, WfAlways, PTL DEF Spec, OnlyHolderAdvances
=============================================================================
