------------------------ MODULE SignalGenerationProofs ------------------------
(***************************************************************************)
(* Theorems about SignalGeneration, for any requests, editors, processes,  *)
(* workflows and bounds.                                                   *)
(***************************************************************************)
EXTENDS SignalGeneration, TLAPS

USE SignalAssumption DEF SignalAssumption, locals, ledger

-----------------------------------------------------------------------------
(* Types.                                                                  *)

Signals == [revision : 1..MaxRev, generated : BOOLEAN, hold : Protection]

\* A change of the Signal's protection, or of it and generationId, leaves it a Signal.
LEMMA HoldTyped ==
    ASSUME NEW x \in Signals, NEW h \in Protection, NEW g \in BOOLEAN
    PROVE  /\ [x EXCEPT !.hold = h] \in Signals
           /\ [x EXCEPT !.generated = g, !.hold = h] \in Signals
BY DEF Signals

LEMMA UnprotectedTyped == Unprotected \in Protection
BY DEF Unprotected, Protection

LEMMA TypeInit == Init => TypeOK
BY DEF Init, TypeOK, Unprotected, Protection, Steps

LEMMA TypeNext == TypeOK /\ [Next]_vars => TypeOK'
<1> SUFFICES ASSUME TypeOK, [Next]_vars PROVE TypeOK'
  OBVIOUS
<1> USE DEF TypeOK, Steps
<1>1. ASSUME NEW p \in Requests, RequestStep(p) PROVE TypeOK'
  <2>1. CASE Start(p)
    BY <2>1 DEF Start
  <2>2. CASE Reconcile(p)
    <3>1. signal' \in Signals
      BY <2>2, HoldTyped, UnprotectedTyped DEF Reconcile, Record, Signals
    <3> QED
      BY <2>2, <3>1 DEF Reconcile, Signals
  <2>3. CASE Reserve(p)
    <3>1. signal' \in Signals
      <4>1. [lease |-> p, phase |-> "generating", expires |-> clock + LeaseLife] \in Protection
        BY DEF Protection
      <4>2. [signal EXCEPT !.hold = [lease |-> p, phase |-> "generating",
                                     expires |-> clock + LeaseLife]] \in Signals
        BY <4>1, HoldTyped DEF Signals
      <4> QED
        BY <2>3, <4>1, <4>2 DEF Reserve, Signals
    <3>2. signal.revision \in 0..MaxRev
      OBVIOUS
    <3> QED
      BY <2>3, <3>1, <3>2 DEF Reserve, Fault, Signals
  <2>4. CASE Lookup(p)
    BY <2>4 DEF Lookup
  <2>5. CASE Admit(p)
    BY <2>5 DEF Admit
  <2>6. CASE Create(p)
    BY <2>6 DEF Create, Goes, Fault
  <2>7. CASE Dispatch(p)
    BY <2>7 DEF Dispatch, Goes, Fault
  <2>8. CASE Call(p)
    BY <2>8 DEF Call
  <2>9. CASE Complete(p) \/ Refuse(p) \/ Doubt(p)
    <3>1. ASSUME NEW step, NEW status \in {"completed", "released", "uncertain"},
                 NEW next \in {"begin", "release"}, Settle(p, step, status, next)
          PROVE  TypeOK'
      BY <3>1 DEF Settle, Goes, Fault
    <3> QED
      BY <2>9, <3>1 DEF Complete, Refuse, Doubt
  <2>10. CASE Begin(p)
    <3>1. signal' \in Signals
      <4>1. [lease |-> p, phase |-> "persisting", expires |-> 0] \in Protection
        BY DEF Protection
      <4> HIDE DEF Protection
      <4>2. [signal EXCEPT !.hold = [lease |-> p, phase |-> "persisting", expires |-> 0]] \in Signals
        BY <4>1, HoldTyped DEF Signals
      <4> QED
        BY <2>10, <4>2 DEF Begin, Signals
    <3> QED
      BY <2>10, <3>1 DEF Begin, Goes, Fault, Signals
  <2>11. CASE Insert(p)
    <3>1. generation' \in [by : Requests \cup {None, Workflow}, rev : 0..MaxRev]
      BY <2>11 DEF Insert, Store
    <3>2. pc' \in [Requests -> Steps] /\ faults' \in 0..MaxFaults
      BY <2>11 DEF Insert, Goes, Fault
    <3>3. pending' \subseteq Requests
      BY <2>11 DEF Insert
    <3> QED
      BY <2>11, <3>1, <3>2, <3>3 DEF Insert
  <2>12. CASE Arrive(p)
    BY <2>12 DEF Arrive, Store
  <2>13. CASE LookupAfter(p)
    BY <2>13 DEF LookupAfter, Leave
  <2>14. CASE Mark(p)
    <3>1. signal' \in Signals
      BY <2>14, HoldTyped, UnprotectedTyped DEF Mark, Record, Signals
    <3> QED
      BY <2>14, <3>1 DEF Mark, Leave, Fault, Signals
  <2>15. CASE Release(p)
    <3>1. signal' \in Signals
      BY <2>15, HoldTyped, UnprotectedTyped DEF Release, Free, Signals
    <3> QED
      BY <2>15, <3>1 DEF Release, Leave, Fault, Signals
  <2>16. CASE Fails(p)
    BY <2>16 DEF Fails, Fault
  <2> QED
    BY <1>1, <2>1, <2>2, <2>3, <2>4, <2>5, <2>6, <2>7, <2>8, <2>9, <2>10, <2>11, <2>12,
       <2>13, <2>14, <2>15, <2>16 DEF RequestStep
<1>2. ASSUME NEW s \in Servers, Crash(s) PROVE TypeOK'
  BY <1>2 DEF Crash, Fault
<1>9. ASSUME NEW s \in Servers, NEW p \in Requests, Reconciled(s, p) PROVE TypeOK'
  BY <1>9 DEF Reconciled
<1>3. ASSUME NEW e \in Editors, EditCheck(e) PROVE TypeOK'
  BY <1>3 DEF EditCheck
<1>4. ASSUME NEW e \in Editors, EditWrite(e) PROVE TypeOK'
  BY <1>4 DEF EditWrite
<1>5. CASE FlowStart
  BY <1>5 DEF FlowStart
<1>6. CASE FlowStore
  BY <1>6 DEF FlowStore, Store
<1>7. CASE Tick
  BY <1>7 DEF Tick
<1>8. CASE UNCHANGED vars
  BY <1>8 DEF vars
<1> QED
  BY <1>1, <1>2, <1>3, <1>4, <1>5, <1>6, <1>7, <1>8, <1>9 DEF Next

\* Every reachable state is well typed.
THEOREM TypeCorrect == Spec => []TypeOK
BY TypeInit, TypeNext, PTL DEF Spec

-----------------------------------------------------------------------------
(* The inductive invariant.                                                *)

LEMMA IInvInit == Init => IInv
BY DEF Init, IInv, ProtectedInsert, StoredIsProtected, GenerationIsCurrent, SnapshotInv,
       Unprotected, Stored

\* A step that leaves the Signal and the Generation alone, in which no request comes to
\* insert, nor to record a Generation that does not exist.
LEMMA QuietStep ==
    ASSUME TypeOK, IInv, UNCHANGED <<signal, generation, snap>>,
           \A q \in Requests :
               /\ q \in pending' => q \in pending \/ pc[q] = "insert"
               /\ pc'[q] = "insert" => pc[q] = "insert"
               /\ pc'[q] \in {"mark", "markAgain", "reconcile"} =>
                      Stored \/ pc[q] \in {"mark", "markAgain", "reconcile"}
    PROVE  IInv'
<1>1. ProtectedInsert'
  BY DEF IInv, ProtectedInsert, Stored
<1>2. StoredIsProtected' /\ GenerationIsCurrent'
  BY DEF IInv, StoredIsProtected, GenerationIsCurrent
<1>3. SnapshotInv'
  BY DEF IInv, SnapshotInv, Stored
<1> QED
  BY <1>1, <1>2, <1>3 DEF IInv

\* A step that moves the Signal's protection outside persisting, under the same condition.
LEMMA UnprotectedStep ==
    ASSUME TypeOK, IInv, UNCHANGED <<generation, pending>>,
           signal.hold.phase # "persisting", signal'.hold.phase # "persisting",
           signal'.generated = signal.generated, signal'.revision = signal.revision,
           \A q \in Requests :
               /\ pc'[q] = "insert" => pc[q] = "insert"
               /\ pc'[q] \in {"mark", "markAgain", "reconcile"} =>
                      pc[q] \in {"mark", "markAgain", "reconcile"}
    PROVE  IInv'
<1>1. ProtectedInsert'
  BY DEF IInv, ProtectedInsert, Stored
<1>2. StoredIsProtected' /\ GenerationIsCurrent'
  BY DEF IInv, StoredIsProtected, GenerationIsCurrent
<1>3. SnapshotInv'
  BY DEF IInv, SnapshotInv, Stored
<1> QED
  BY <1>1, <1>2, <1>3 DEF IInv

\* Recording happens with a Generation stored: what was inserted stays what it was, and the
\* Signal is closed to edits and claims by its generationId instead of the lease.
LEMMA RecordStep ==
    ASSUME TypeOK, IInv, Stored,
           \/ signal' = signal
           \/ /\ signal.hold.phase = "persisting"
              /\ signal' = [signal EXCEPT !.generated = TRUE, !.hold = Unprotected],
           UNCHANGED <<generation, pending, snap>>,
           \A q \in Requests : pc'[q] = "insert" => pc[q] = "insert"
    PROVE  IInv'
<1>1. Stored'
  BY DEF Stored
<1>2. ProtectedInsert'
  BY <1>1 DEF ProtectedInsert
<1>3. StoredIsProtected'
  <2>1. CASE signal' = [signal EXCEPT !.generated = TRUE, !.hold = Unprotected]
    <3>1. signal'.generated
      BY <2>1 DEF TypeOK
    <3> QED
      BY <3>1 DEF StoredIsProtected
  <2>2. CASE signal' = signal
    BY <2>2 DEF IInv, StoredIsProtected
  <2> QED
    BY <2>1, <2>2
<1>4. GenerationIsCurrent'
  <2>1. signal'.revision = signal.revision
    BY DEF TypeOK
  <2> QED
    BY <2>1 DEF IInv, GenerationIsCurrent
<1>5. SnapshotInv'
  <2>1. CASE signal' = [signal EXCEPT !.generated = TRUE, !.hold = Unprotected]
    <3>1. signal'.hold.phase = "none"
      BY <2>1 DEF TypeOK, Unprotected
    <3> QED
      BY <1>1, <3>1 DEF SnapshotInv
  <2>2. CASE signal' = signal
    BY <1>1, <2>2 DEF IInv, SnapshotInv
  <2> QED
    BY <2>1, <2>2
<1> QED
  BY <1>2, <1>3, <1>4, <1>5 DEF IInv

\* A Generation is stored by a workflow, or by the holder of the persisting lease from its
\* own snapshot; nothing else moves but steps.
LEMMA StoreStep ==
    ASSUME NEW author, NEW rev, TypeOK, IInv, ~Stored, Store(author, rev),
           \/ author = Workflow
           \/ /\ author \in Requests /\ rev = snap[author]
              /\ signal.hold.lease = author /\ signal.hold.phase = "persisting",
           UNCHANGED <<signal, snap>>
    PROVE  IInv'
<1>1. generation'.by = author /\ generation'.rev = rev
  BY DEF Store
<1>2. Stored'
  BY <1>1 DEF Stored
<1>3. ProtectedInsert'
  BY <1>2 DEF ProtectedInsert
<1>4. StoredIsProtected'
  BY <1>1 DEF StoredIsProtected
<1>5. GenerationIsCurrent'
  BY <1>1 DEF GenerationIsCurrent, IInv, SnapshotInv
<1>6. SnapshotInv'
  BY <1>2 DEF IInv, SnapshotInv
<1> QED
  BY <1>3, <1>4, <1>5, <1>6 DEF IInv

LEMMA BeginStep == ASSUME TypeOK, IInv, NEW p \in Requests, Begin(p) PROVE IInv'
<1> USE DEF TypeOK, Begin, Goes, Fault
<1>1. CASE ~CanPersist(p)
  BY <1>1, QuietStep
<1>2. CASE CanPersist(p)
  <2>1. /\ signal'.hold.lease = p /\ signal'.hold.phase = "persisting"
        /\ signal'.revision = snap[p] /\ ~signal'.generated
    BY <1>2 DEF CanPersist
  <2>2. ~Stored' \/ generation'.by = Workflow
    BY <1>2 DEF CanPersist, IInv, StoredIsProtected, Stored
  <2>3. ProtectedInsert'
    <3>1. ASSUME NEW q \in Requests, q # p, pc'[q] = "insert" \/ q \in pending'
          PROVE  Stored'
      BY <1>2, <3>1 DEF CanPersist, IInv, ProtectedInsert, Stored
    <3> QED
      BY <2>1, <3>1 DEF ProtectedInsert
  <2>4. StoredIsProtected' /\ GenerationIsCurrent'
    BY <2>2 DEF StoredIsProtected, GenerationIsCurrent, Stored
  <2>5. SnapshotInv'
    BY <1>2, <2>1 DEF SnapshotInv, IInv, CanPersist, Stored
  <2> QED
    BY <2>3, <2>4, <2>5 DEF IInv
<1> QED
  BY <1>1, <1>2

\* An edit finds the Signal open: no Generation of a request exists, and no insert that
\* could still take effect is on its way.
LEMMA EditStep == ASSUME TypeOK, IInv, NEW e \in Editors, EditWrite(e) PROVE IInv'
<1> USE DEF TypeOK, EditWrite
<1>1. CASE ~CanEdit(e)
  BY <1>1, QuietStep
<1>2. CASE CanEdit(e)
  <2>1. signal.hold.phase # "persisting" /\ ~signal.generated
    BY <1>2 DEF CanEdit, IInv, SnapshotInv
  <2>2. signal'.hold = signal.hold /\ signal'.generated = signal.generated
    BY <1>2
  <2>3. generation.by \notin Requests
    BY <2>1 DEF IInv, StoredIsProtected
  <2> QED
    BY <2>1, <2>2, <2>3
    DEF IInv, ProtectedInsert, StoredIsProtected, GenerationIsCurrent, SnapshotInv, Stored
<1> QED
  BY <1>1, <1>2

LEMMA IInvNext == TypeOK /\ IInv /\ [Next]_vars => IInv'
<1> SUFFICES ASSUME TypeOK, IInv, [Next]_vars PROVE IInv'
  OBVIOUS
<1>1. ASSUME NEW p \in Requests, RequestStep(p) PROVE IInv'
  <2>1. CASE Start(p) \/ Lookup(p) \/ Admit(p) \/ Create(p) \/ Dispatch(p) \/ Call(p)
    BY <2>1, QuietStep DEF Start, Lookup, Admit, Create, Dispatch, Call, Goes, TypeOK
  <2>2. CASE Complete(p) \/ Refuse(p) \/ Doubt(p) \/ LookupAfter(p) \/ Fails(p)
    BY <2>2, QuietStep DEF Complete, Refuse, Doubt, Settle, LookupAfter, Fails, Goes, TypeOK
  <2>3. CASE Reconcile(p) \/ Mark(p)
    <3>1. Stored
      BY <2>3 DEF Reconcile, Mark, IInv, SnapshotInv
    <3>2. \/ signal' = signal
          \/ /\ signal.hold.phase = "persisting"
             /\ signal' = [signal EXCEPT !.generated = TRUE, !.hold = Unprotected]
      BY <2>3 DEF Reconcile, Mark, Record
    <3>3. \A q \in Requests : pc'[q] = "insert" => pc[q] = "insert"
      BY <2>3 DEF Reconcile, Mark, TypeOK
    <3>4. UNCHANGED <<generation, pending, snap>>
      BY <2>3 DEF Reconcile, Mark
    <3> QED
      BY <3>1, <3>2, <3>3, <3>4, RecordStep
  <2>4. CASE Reserve(p)
    <3>1. CASE CanReserve
      <4>1. signal.hold.phase # "persisting"
        BY <3>1 DEF CanReserve, IInv, SnapshotInv
      <4>2. /\ signal'.hold.phase = "generating"
            /\ signal'.generated = signal.generated /\ signal'.revision = signal.revision
        BY <2>4, <3>1 DEF Reserve, TypeOK
      <4> QED
        BY <2>4, <4>1, <4>2, UnprotectedStep DEF Reserve, TypeOK
    <3>2. CASE ~CanReserve
      BY <2>4, <3>2, QuietStep DEF Reserve, TypeOK
    <3> QED
      BY <3>1, <3>2
  <2>5. CASE Begin(p)
    BY <2>5, BeginStep
  <2>6. CASE Insert(p)
    <3>1. CASE ~(~Stored /\ Store(p, snap[p]))
      <4>1. UNCHANGED <<signal, generation, snap>>
        BY <2>6, <3>1 DEF Insert
      <4>2. /\ pc' = [pc EXCEPT ![p] = "lookupAfter"]
            /\ pc[p] = "insert" /\ pending' \subseteq pending \cup {p}
        BY <2>6, <3>1 DEF Insert
      <4> QED
        BY <4>1, <4>2, QuietStep DEF TypeOK
    <3>2. CASE ~Stored /\ Store(p, snap[p])
      <4>1. signal.hold.lease = p /\ signal.hold.phase = "persisting"
        BY <2>6, <3>2 DEF Insert, IInv, ProtectedInsert
      <4> QED
        BY <2>6, <3>2, <4>1, StoreStep DEF Insert
    <3> QED
      BY <2>6, <3>1, <3>2 DEF Insert
  <2>7. CASE Arrive(p)
    <3>1. CASE Stored
      BY <2>7, <3>1, QuietStep DEF Arrive, locals
    <3>2. CASE ~Stored
      <4>1. signal.hold.lease = p /\ signal.hold.phase = "persisting"
        BY <2>7, <3>2 DEF Arrive, IInv, ProtectedInsert
      <4> QED
        BY <2>7, <3>2, <4>1, StoreStep DEF Arrive, locals
    <3> QED
      BY <3>1, <3>2
  <2>8. CASE Release(p)
    <3>1. CASE signal.hold.phase = "persisting"
      BY <2>8, <3>1, QuietStep DEF Release, Free, TypeOK
    <3>2. CASE signal.hold.phase # "persisting"
      <4>1. /\ signal'.hold.phase # "persisting"
            /\ signal'.generated = signal.generated /\ signal'.revision = signal.revision
        BY <2>8, <3>2 DEF Release, Free, Unprotected, TypeOK
      <4> QED
        BY <2>8, <3>2, <4>1, UnprotectedStep DEF Release, TypeOK
    <3> QED
      BY <3>1, <3>2
  <2> QED
    BY <1>1, <2>1, <2>2, <2>3, <2>4, <2>5, <2>6, <2>7, <2>8 DEF RequestStep
<1>2. ASSUME NEW s \in Servers, Crash(s) PROVE IInv'
  BY <1>2, QuietStep DEF Crash, TypeOK
<1>9. ASSUME NEW s \in Servers, NEW p \in Requests, Reconciled(s, p) PROVE IInv'
  BY <1>9, QuietStep DEF Reconciled, locals
<1>3. ASSUME NEW e \in Editors, EditCheck(e) PROVE IInv'
  BY <1>3, QuietStep DEF EditCheck, locals
<1>4. ASSUME NEW e \in Editors, EditWrite(e) PROVE IInv'
  BY <1>4, EditStep
<1>5. CASE FlowStore
  BY <1>5, StoreStep DEF FlowStore, locals
<1>6. CASE FlowStart \/ Tick \/ UNCHANGED vars
  BY <1>6, QuietStep DEF FlowStart, Tick, vars, locals
<1> QED
  BY <1>1, <1>2, <1>3, <1>4, <1>5, <1>6, <1>9 DEF Next

\* The persisting lease guards the one insert that can take effect, its holder's snapshot
\* is the Signal as it is, and a stored Generation stays guarded until it is recorded.
THEOREM Protected == Spec => []IInv
<1>1. Init => TypeOK /\ IInv
  BY TypeInit, IInvInit
<1>2. TypeOK /\ IInv /\ [Next]_vars => TypeOK' /\ IInv'
  BY TypeNext, IInvNext
<1> QED
  BY <1>1, <1>2, PTL DEF Spec

\* An insert that can still take effect belongs to the holder of the persisting lease.
THEOREM InsertsAreProtected == Spec => []ProtectedInsert
<1>1. IInv => ProtectedInsert
  BY DEF IInv
<1> QED
  BY <1>1, Protected, PTL

\* A Generation made by a request is stored and recorded without a gap in the protection.
THEOREM StoredStaysProtected == Spec => []StoredIsProtected
<1>1. IInv => StoredIsProtected
  BY DEF IInv
<1> QED
  BY <1>1, Protected, PTL

\* A Generation made by a request was drafted from the Signal as it is now.
THEOREM DraftsAreCurrent == Spec => []GenerationIsCurrent
<1>1. IInv => GenerationIsCurrent
  BY DEF IInv
<1> QED
  BY <1>1, Protected, PTL

\* The protection of a persisting lease ends only in the record of a Generation, and no
\* edit happens under it.
THEOREM EndsInRecord == Spec => ProtectionEndsInRecord
<1> DEFINE A == signal.hold.phase = "persisting"
                    => (signal'.hold = signal.hold \/ signal'.generated)
                       /\ signal'.revision = signal.revision
<1>1. TypeOK /\ IInv /\ [Next]_vars => [A]_vars
  <2> SUFFICES ASSUME TypeOK, IInv, [Next]_vars, signal.hold.phase = "persisting"
               PROVE  (signal'.hold = signal.hold \/ signal'.generated)
                      /\ signal'.revision = signal.revision
    OBVIOUS
  <2> USE DEF TypeOK
  <2>1. signal.hold.lease \in Requests /\ ~signal.generated
    BY DEF IInv, SnapshotInv
  <2>2. ASSUME NEW p \in Requests, RequestStep(p), signal' # signal
        PROVE  signal'.generated /\ signal'.revision = signal.revision
    <3>1. CASE Reconcile(p) \/ Mark(p)
      BY <2>2, <3>1 DEF Reconcile, Mark, Record
    <3>2. CASE Reserve(p) \/ Begin(p) \/ Release(p)
      BY <2>1, <2>2, <3>2 DEF Reserve, CanReserve, Begin, CanPersist, Release, Free
    <3>3. CASE ~(Reconcile(p) \/ Mark(p) \/ Reserve(p) \/ Begin(p) \/ Release(p))
      BY <2>2, <3>3
      DEF RequestStep, Start, Lookup, Admit, Create, Dispatch, Call, Complete, Refuse, Doubt,
          Settle, Insert, Arrive, LookupAfter, Fails
    <3> QED
      BY <3>1, <3>2, <3>3
  <2>3. ASSUME NEW e \in Editors, EditWrite(e) PROVE signal' = signal
    BY <2>1, <2>3 DEF EditWrite, CanEdit
  <2>4. ASSUME ~\E p \in Requests : RequestStep(p), ~\E e \in Editors : EditWrite(e)
        PROVE  signal' = signal
    BY <2>4 DEF Next, Crash, Reconciled, EditCheck, FlowStart, FlowStore, Tick, vars
  <2> QED
    BY <2>2, <2>3, <2>4
<1>2. Init => TypeOK /\ IInv
  BY TypeInit, IInvInit
<1>3. TypeOK /\ IInv /\ [Next]_vars => TypeOK' /\ IInv'
  BY TypeNext, IInvNext
<1> QED
  BY <1>1, <1>2, <1>3, PTL DEF Spec, ProtectionEndsInRecord
=============================================================================
