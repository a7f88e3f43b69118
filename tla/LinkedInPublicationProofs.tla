---------------------- MODULE LinkedInPublicationProofs ----------------------
(***************************************************************************)
(* Theorems about LinkedInPublication, for every number of requests and    *)
(* workers and every value of the lifetimes, windows and bounds; and about *)
(* ScheduleTime: the loop over the offsets finds exactly the instants at    *)
(* which a zone's clock shows a time, for every set of zones, every offset  *)
(* a zone may have at any instant, and every unit of time.                 *)
(***************************************************************************)
EXTENDS LinkedInPublication, ScheduleTime, Notifications, FiniteSetTheorems,
        WellFoundedInduction, TLAPS

LEMMA KeysNonEmpty == Keys # {}
<1>1. PICK c \in Contents : TRUE
  BY BoundAssumption
<1>2. 1 \in 1..MaxGen
  BY BoundAssumption
<1>3. <<c, 1>> \in Keys
  BY <1>1, <1>2 DEF Keys
<1> QED
  BY <1>3

LEMMA NoSnapType == NoSnap \in [key : Keys, rev : Nat, at : Nat]
<1>1. (CHOOSE k \in Keys : TRUE) \in Keys
  BY KeysNonEmpty
<1> QED
  BY <1>1 DEF NoSnap

LEMMA AbsentType == Absent \in PubType
BY DEF Absent, PubType, Statuses, Open, Outcomes, Errors, Stamped

-----------------------------------------------------------------------------
(* Type correctness.                                                       *)

LEMMA InitTypeOK == Init => TypeOK
<1> SUFFICES ASSUME Init PROVE TypeOK
  OBVIOUS
<1>1. 1 \in 1..MaxGen
  BY BoundAssumption
<1>2. pub \in [Keys -> PubType]
  BY AbsentType DEF Init
<1>3. snap \in [Procs -> [key : Keys, rev : Nat, at : Nat]]
  BY NoSnapType DEF Init
<1> QED
  BY <1>1, <1>2, <1>3 DEF Init, TypeOK, Labels, Outcomes

\* Finish resets the locals of a handler within their types.
LEMMA FinishType ==
  ASSUME TypeOK, NEW p \in Procs, Finish(p)
  PROVE  /\ pc' \in [Procs -> Labels]
         /\ now' \in [Procs -> Nat]
         /\ snap' \in [Procs -> [key : Keys, rev : Nat, at : Nat]]
         /\ res' \in [Procs -> Outcomes]
BY NoSnapType DEF TypeOK, Finish, Goto, Labels, Outcomes

\* Recovery leaves well-formed records.
LEMMA RecoverType ==
  ASSUME TypeOK, NEW t, RecoverOne(t)
  PROVE  pub' \in [Keys -> PubType]
<1>1. CASE UNCHANGED pub
  BY <1>1 DEF TypeOK
<1>2. ASSUME NEW k \in Keys, pub' = [pub EXCEPT ![k] = Recovered(@)]
      PROVE  pub' \in [Keys -> PubType]
  <2>1. Recovered(pub[k]) \in PubType
    <3>1. pub[k] \in PubType
      BY DEF TypeOK
    <3>2. "uncertain" \in Statuses /\ NoLease \in Procs \cup {NoLease} /\ 0 \in Nat
      BY DEF Statuses, Outcomes
    <3> QED
      BY <3>1, <3>2 DEF Recovered, PubType
  <2> QED
    BY <1>2, <2>1 DEF TypeOK
<1> QED
  BY <1>1, <1>2 DEF RecoverOne

\* The conditional writes leave well-formed records.
LEMMA LeaseType ==
  ASSUME NEW f \in [Keys -> PubType], NEW k \in Keys, NEW p \in Procs, NEW e \in Nat
  PROVE  [f EXCEPT ![k].lease = p, ![k].leaseExp = e] \in [Keys -> PubType]
<1> DEFINE r == [f[k] EXCEPT !.lease = p, !.leaseExp = e]
<1>1. r \in PubType
  BY DEF PubType
<1>2. [f EXCEPT ![k] = r] \in [Keys -> PubType]
  BY <1>1
<1> QED
  BY <1>2

LEMMA ReleaseType ==
  ASSUME NEW f \in [Keys -> PubType], NEW k \in Keys, NEW s \in Statuses
  PROVE  [f EXCEPT ![k].status = s, ![k].lease = NoLease, ![k].leaseExp = 0]
           \in [Keys -> PubType]
<1> DEFINE r == [f[k] EXCEPT !.status = s, !.lease = NoLease, !.leaseExp = 0]
<1>1. r \in PubType
  BY DEF PubType
<1>2. [f EXCEPT ![k] = r] \in [Keys -> PubType]
  BY <1>1
<1> QED
  BY <1>2

LEMMA AuthorizeType ==
  ASSUME NEW f \in [Keys -> PubType], NEW k \in Keys
  PROVE  [f EXCEPT ![k].status = "dispatching", ![k].authorizedAt = "set"]
           \in [Keys -> PubType]
<1> DEFINE r == [f[k] EXCEPT !.status = "dispatching", !.authorizedAt = "set"]
<1>1. "dispatching" \in Statuses /\ "set" \in Stamped
  BY DEF Statuses, Stamped
<1>2. r \in PubType
  BY <1>1 DEF PubType
<1>3. [f EXCEPT ![k] = r] \in [Keys -> PubType]
  BY <1>2
<1> QED
  BY <1>3

\* A user's conditional write counts the revision up.
LEMMA RevisedType ==
  ASSUME NEW r \in PubType, NEW s \in Statuses, NEW c \in Stamped, NEW t \in Nat
  PROVE  [r EXCEPT !.status = s, !.cancelledAt = c, !.at = t, !.rev = @ + 1] \in PubType
<1> DEFINE n == r.rev + 1
<1>1. n \in Nat
  BY DEF PubType
<1> HIDE DEF n
<1>2. [r EXCEPT !.status = s, !.cancelledAt = c, !.at = t, !.rev = n] \in PubType
  BY <1>1 DEF PubType
<1> QED
  BY <1>2 DEF n

USE DEF env, locals, provider

LEMMA UserTypeOK == TypeOK /\ UserStep => TypeOK'
<1> SUFFICES ASSUME TypeOK, UserStep PROVE TypeOK'
  OBVIOUS
<1>1. ASSUME NEW c \in Contents, EditDraft(c) PROVE TypeOK'
  BY <1>1 DEF EditDraft, WriteStamp, TypeOK
<1>2. CASE ApproveDraft
  <2>1. stamps' \in Nat
    BY <1>2 DEF ApproveDraft, WriteStamp, TypeOK
  <2>2. draft' \in [content : Contents, status : {"draft", "approved"}, stamp : Nat]
    BY <1>2, <2>1 DEF ApproveDraft, TypeOK
  <2> QED
    BY <1>2, <2>1, <2>2 DEF ApproveDraft, TypeOK
<1>3. CASE TouchGeneration
  BY <1>3 DEF TouchGeneration, WriteStamp, TypeOK
<1>4. ASSUME NEW c \in Contents, CompleteWorkflow(c) PROVE TypeOK'
  BY <1>4 DEF CompleteWorkflow, WriteStamp, TypeOK
<1>5. CASE Disconnect \/ Reconnect
  BY <1>5, BoundAssumption DEF Disconnect, Reconnect, TypeOK
<1>6. CASE TokenExpires
  BY <1>6 DEF TokenExpires, TypeOK
<1>7. CASE CreatePreview
  <2>1. CurrentKey \in Keys
    BY DEF CurrentKey, Keys, TypeOK
  <2>2. PreviewRecord(CurrentKey) \in PubType
    <3>1. clock + PreviewLife \in Nat
      BY BoundAssumption DEF TypeOK
    <3>2. ApprovalFingerprint \in Nat
      BY DEF ApprovalFingerprint, TypeOK
    <3> QED
      BY <2>1, <3>1, <3>2, AbsentType DEF PreviewRecord, TypeOK, PubType, Statuses, Open
  <2> QED
    BY <1>7, <2>1, <2>2 DEF CreatePreview, TypeOK
<1>8. CASE ReadHistory
  BY <1>8, RecoverType DEF ReadHistory, TypeOK
<1>9. ASSUME NEW k \in Keys, Cancel(k) PROVE TypeOK'
  <2>1. pub[k] \in PubType /\ pub[k].at \in Nat /\ "cancelled" \in Statuses /\ "set" \in Stamped
    BY DEF TypeOK, PubType, Statuses, Stamped
  <2>2. pub' = [pub EXCEPT ![k] = [pub[k] EXCEPT !.status = "cancelled", !.cancelledAt = "set",
                                                 !.at = pub[k].at, !.rev = @ + 1]]
    BY <1>9, <2>1 DEF Cancel, TypeOK, PubType
  <2>3. pub' \in [Keys -> PubType]
    BY <2>1, <2>2, RevisedType DEF TypeOK
  <2> QED
    BY <1>9, <2>3 DEF Cancel, TypeOK
<1>10. ASSUME NEW k \in Keys, NEW t \in 0..(MaxTime + Horizon), Reschedule(k, t)
       PROVE TypeOK'
  BY <1>10 DEF Reschedule, TypeOK, PubType
<1>11. ASSUME NEW r \in Confirmers, NEW k \in Keys, ConfirmStart(r, k) PROVE TypeOK'
  BY <1>11, RecoverType DEF ConfirmStart, Goto, TypeOK, Procs, Labels
<1>12. ASSUME NEW s \in Schedulers, NEW k \in Keys, NEW t \in 0..(MaxTime + Horizon),
              ScheduleStart(s, k, t)
       PROVE TypeOK'
  BY <1>12 DEF ScheduleStart, Goto, TypeOK, Procs, Labels, PubType
<1> QED
  BY <1>1, <1>2, <1>3, <1>4, <1>5, <1>6, <1>7, <1>8, <1>9, <1>10, <1>11, <1>12 DEF UserStep
\* A step that leaves a handler at a label and moves nothing else keeps the types.
LEMMA SharedTypeOK ==
  ASSUME TypeOK, NEW p \in Procs, Authorize(p) \/ Publish(p)
  PROVE  TypeOK'
<1>1. CASE Authorize(p)
  <2>1. CASE CanAuthorize(p)
    <3>1. pub' \in [Keys -> PubType]
      <4>1. Key(p) \in Keys
        BY DEF Key, TypeOK
      <4>2. pub' = [pub EXCEPT ![Key(p)].status = "dispatching",
                               ![Key(p)].authorizedAt = "set"]
        BY <1>1, <2>1 DEF Authorize
      <4>3. pub \in [Keys -> PubType]
        BY DEF TypeOK
      <4> QED
        BY <4>1, <4>2, <4>3, AuthorizeType
    <3> QED
      BY <1>1, <2>1, <3>1 DEF Authorize, Goto, TypeOK, Labels
  <2>2. CASE ~CanAuthorize(p)
    BY <1>1, <2>2, FinishType DEF Authorize, TypeOK
  <2> QED
    BY <2>1, <2>2
<1>2. CASE Publish(p)
  BY <1>2 DEF Publish, Answers, Key, Goto, TypeOK, Labels
<1> QED
  BY <1>1, <1>2

LEMMA OverwriteType ==
  ASSUME NEW r \in PubType, NEW s \in Statuses, NEW e \in Errors
  PROVE  [Overwrite(r, s) EXCEPT !.error = e] \in PubType
BY DEF Overwrite, PubType

LEMMA ConfirmTypeOK ==
  ASSUME TypeOK, NEW r \in Confirmers, ConfirmStep(r)
  PROVE  TypeOK'
<1> r \in Procs
  BY DEF Procs
<1> Key(r) \in Keys /\ Record(r) \in PubType
  BY DEF Key, Record, TypeOK
<1>1. CASE ConfirmRead(r)
  <2>1. CASE Finish(r)
    BY <1>1, <2>1, FinishType DEF ConfirmRead, TypeOK
  <2>2. CASE ~Finish(r)
    <3>1. snap' = [snap EXCEPT ![r].rev = Record(r).rev] /\ Record(r).rev \in Nat
      BY <1>1, <2>2 DEF ConfirmRead, PubType
    <3>2. snap' \in [Procs -> [key : Keys, rev : Nat, at : Nat]]
      BY <3>1 DEF TypeOK
    <3> QED
      BY <1>1, <2>2, <3>2 DEF ConfirmRead, Goto, TypeOK, Labels
  <2> QED
    BY <2>1, <2>2
<1>2. CASE ConfirmValidate(r)
  <2>1. CASE Finish(r)
    BY <1>2, <2>1, FinishType DEF ConfirmValidate, TypeOK
  <2>2. CASE ~Finish(r)
    BY <1>2, <2>2 DEF ConfirmValidate, Goto, TypeOK, Labels
  <2> QED
    BY <2>1, <2>2
<1>3. CASE ConfirmExpire(r)
  BY <1>3, FinishType, OverwriteType
  DEF ConfirmExpire, Key, TypeOK, Statuses, Outcomes, Errors
<1>4. CASE ConfirmReject(r)
  BY <1>4, FinishType, OverwriteType
  DEF ConfirmReject, Key, TypeOK, Statuses, Outcomes, Errors
<1>5. CASE ConfirmClaim(r)
  <2>1. CASE CanClaim(r)
    <3>1. now[r] + LeaseLife \in Nat
      BY BoundAssumption DEF TypeOK
    <3>2. pub' \in [Keys -> PubType]
      <4>1. pub' = [pub EXCEPT ![Key(r)].lease = r, ![Key(r)].leaseExp = now[r] + LeaseLife]
        BY <1>5, <2>1 DEF ConfirmClaim
      <4>2. pub \in [Keys -> PubType]
        BY DEF TypeOK
      <4> QED
        BY <3>1, <4>1, <4>2, LeaseType
    <3> QED
      BY <1>5, <2>1, <3>2 DEF ConfirmClaim, Goto, TypeOK, Labels
  <2>2. CASE ~CanClaim(r)
    BY <1>5, <2>2, FinishType DEF ConfirmClaim, TypeOK
  <2> QED
    BY <2>1, <2>2
<1>6. CASE ConfirmRecord(r)
  <2>1. res[r] \in Statuses /\ "" \in Errors
    BY DEF TypeOK, Statuses, Errors
  <2> QED
    BY <1>6, <2>1, FinishType, OverwriteType DEF ConfirmRecord, TypeOK
<1> QED
  BY <1>1, <1>2, <1>3, <1>4, <1>5, <1>6, SharedTypeOK DEF ConfirmStep

LEMMA ScheduleTypeOK ==
  ASSUME TypeOK, NEW s \in Schedulers, ScheduleStep(s)
  PROVE  TypeOK'
<1> s \in Procs
  BY DEF Procs
<1> Key(s) \in Keys
  BY DEF Key, TypeOK
<1>1. CASE ScheduleValidate(s)
  <2>1. CASE Finish(s)
    BY <1>1, <2>1, FinishType DEF ScheduleValidate, TypeOK
  <2>2. CASE ~Finish(s)
    BY <1>1, <2>2 DEF ScheduleValidate, Goto, TypeOK, Labels
  <2> QED
    BY <2>1, <2>2
<1>2. CASE ScheduleStore(s)
  <2>1. pub' \in [Keys -> PubType]
    <3>1. /\ pub[Key(s)] \in PubType /\ pub[Key(s)].cancelledAt \in Stamped
          /\ snap[s].at \in Nat /\ "scheduled" \in Statuses
      BY DEF TypeOK, PubType, Statuses, Open
    <3>2. CASE CanSchedule(s)
      <4>1. pub' = [pub EXCEPT ![Key(s)] =
                      [pub[Key(s)] EXCEPT !.status = "scheduled",
                                          !.cancelledAt = pub[Key(s)].cancelledAt,
                                          !.at = snap[s].at, !.rev = @ + 1]]
        BY <1>2, <3>1, <3>2 DEF ScheduleStore, TypeOK, PubType
      <4> QED
        BY <3>1, <4>1, RevisedType DEF TypeOK
    <3>3. CASE ~CanSchedule(s)
      BY <1>2, <3>3 DEF ScheduleStore, TypeOK
    <3> QED
      BY <3>2, <3>3
  <2> QED
    BY <1>2, <2>1, FinishType DEF ScheduleStore, TypeOK
<1> QED
  BY <1>1, <1>2 DEF ScheduleStep

LEMMA WorkerTypeOK ==
  ASSUME TypeOK, NEW w \in Workers, WorkerStep(w) \/ WorkerCatch(w)
  PROVE  TypeOK'
<1> w \in Procs
  BY DEF Procs
<1> Key(w) \in Keys
  BY DEF Key, TypeOK
<1>1. CASE WorkerTick(w)
  BY <1>1, RecoverType DEF WorkerTick, Goto, TypeOK, Labels
<1>2. CASE WorkerClaim(w)
  <2>1. CASE Finish(w) /\ UNCHANGED pub
    BY <1>2, <2>1, FinishType DEF WorkerClaim, TypeOK
  <2>2. ASSUME NEW k \in Keys,
               pub' = [pub EXCEPT ![k].lease = w, ![k].leaseExp = now[w] + LeaseLife],
               snap' = [snap EXCEPT ![w] = [key |-> k, rev |-> pub[k].rev, at |-> pub[k].at]],
               Goto(w, IF now[w] - pub[k].at > LateWindow THEN "miss" ELSE "validate"),
               UNCHANGED <<now, res>>
        PROVE  TypeOK'
    <3>1. now[w] + LeaseLife \in Nat
      BY BoundAssumption DEF TypeOK
    <3>2. pub' \in [Keys -> PubType]
      BY <2>2, <3>1, LeaseType DEF TypeOK
    <3>3. snap' \in [Procs -> [key : Keys, rev : Nat, at : Nat]]
      BY <2>2 DEF TypeOK, PubType
    <3> QED
      BY <1>2, <2>2, <3>2, <3>3 DEF WorkerClaim, Goto, TypeOK, Labels
  <2> QED
    BY <1>2, <2>1, <2>2 DEF WorkerClaim
<1>3. CASE WorkerValidate(w) \/ WorkerCannotDecrypt(w) \/ WorkerCatch(w)
  BY <1>3 DEF WorkerValidate, WorkerCannotDecrypt, WorkerCatch, Fault, Goto, TypeOK, Labels
<1>4. CASE WorkerBlock(w)
  <2>1. pub' \in [Keys -> PubType]
    <3>1. "missed" \in Statuses /\ "blocked" \in Statuses
      BY DEF Statuses
    <3> QED
      BY <1>4, <3>1, ReleaseType DEF WorkerBlock, TypeOK
  <2> QED
    BY <1>4, <2>1, FinishType DEF WorkerBlock, TypeOK
<1>5. CASE WorkerRecord(w)
  <2>1. res[w] \in Statuses /\ "uncertain" \in Statuses
    BY DEF TypeOK, Statuses, Outcomes
  <2>2. pub' \in [Keys -> PubType]
    BY <1>5, <2>1, ReleaseType DEF WorkerRecord, TypeOK
  <2> QED
    BY <1>5, <2>2, FinishType DEF WorkerRecord, TypeOK
<1> QED
  BY <1>1, <1>2, <1>3, <1>4, <1>5, SharedTypeOK DEF WorkerStep

LEMMA NextTypeOK == TypeOK /\ [Next]_vars => TypeOK'
<1> SUFFICES ASSUME TypeOK, [Next]_vars PROVE TypeOK'
  OBVIOUS
<1>1. ASSUME NEW p \in Procs, Crash(p) PROVE TypeOK'
  BY <1>1, FinishType DEF Crash, Fault, TypeOK
<1>2. CASE Tick
  BY <1>2 DEF Tick, TypeOK
<1>3. CASE UNCHANGED vars
  BY <1>3 DEF vars, TypeOK
<1> QED
  BY <1>1, <1>2, <1>3, UserTypeOK, ConfirmTypeOK, ScheduleTypeOK, WorkerTypeOK DEF Next

\* Every reachable state of every instance is well typed: the documents and the
\* handlers' locals keep their shapes through all handlers, failures and recoveries.
THEOREM TypeCorrect == Spec => []TypeOK
BY InitTypeOK, NextTypeOK, PTL DEF Spec
-----------------------------------------------------------------------------
(* The inductive invariant.                                                *)

LEMMA InitIInv == Init => IInv
<1> SUFFICES ASSUME Init PROVE IInv
  OBVIOUS
<1>1. DoorInv
  <2>1. \A k \in Keys : pub[k] = Absent /\ calls[k] = 0
    BY DEF Init
  <2>2. /\ Absent.status = "none" /\ Absent.authorizedAt = "null"
        /\ Absent.cancelledAt = "null" /\ Absent.rev = 0
    BY DEF Absent
  <2> QED
    BY <2>1, <2>2 DEF DoorInv, Open
<1>2. SenderInv
  BY DEF Init, SenderInv
<1>3. ClaimInv
  BY DEF Init, ClaimInv, Procs
<1> QED
  BY <1>1, <1>2, <1>3 DEF IInv

\* Recovery closes dispatches and touches nothing else of a record.
LEMMA RecoverFrame ==
  ASSUME TypeOK, NEW t, RecoverOne(t), NEW k \in Keys
  PROVE  /\ pub'[k].authorizedAt = pub[k].authorizedAt
         /\ pub'[k].cancelledAt = pub[k].cancelledAt
         /\ pub'[k].rev = pub[k].rev
         /\ pub'[k].at = pub[k].at
         /\ \/ pub'[k].status = pub[k].status
            \/ pub[k].status = "dispatching" /\ pub'[k].status = "uncertain"
<1>1. CASE UNCHANGED pub
  BY <1>1
<1>2. ASSUME NEW j \in Keys, Recoverable(j, t), pub' = [pub EXCEPT ![j] = Recovered(@)]
      PROVE  /\ pub'[k].authorizedAt = pub[k].authorizedAt
             /\ pub'[k].cancelledAt = pub[k].cancelledAt
             /\ pub'[k].rev = pub[k].rev
             /\ pub'[k].at = pub[k].at
             /\ \/ pub'[k].status = pub[k].status
                \/ pub[k].status = "dispatching" /\ pub'[k].status = "uncertain"
  BY <1>2 DEF Recoverable, Recovered, TypeOK, PubType
<1> QED
  BY <1>1, <1>2 DEF RecoverOne

\* A write that moves a record only to rejected or uncertain, or not at all, keeps
\* the door as it is.
LEMMA DoorFrame ==
  ASSUME TypeOK, DoorInv, UNCHANGED provider,
         \A k \in Keys :
            /\ pub'[k].authorizedAt = pub[k].authorizedAt
            /\ pub'[k].cancelledAt = pub[k].cancelledAt
            /\ pub'[k].rev = pub[k].rev
            /\ \/ pub'[k].status = pub[k].status
               \/ pub'[k].status \in {"rejected", "uncertain"}
  PROVE  DoorInv'
BY DEF DoorInv, Open

\* A confirmation's or a worker's claim writes the lease alone.
LEMMA LeaseFrame ==
  ASSUME TypeOK, NEW k \in Keys, NEW p, NEW e,
         pub' = [pub EXCEPT ![k].lease = p, ![k].leaseExp = e], NEW j \in Keys
  PROVE  /\ pub'[j].status = pub[j].status
         /\ pub'[j].authorizedAt = pub[j].authorizedAt
         /\ pub'[j].cancelledAt = pub[j].cancelledAt
         /\ pub'[j].rev = pub[j].rev
         /\ pub'[j].at = pub[j].at
BY DEF TypeOK, PubType

\* A confirmation's unconditional update writes the status and the error alone.
LEMMA OverwriteFrame ==
  ASSUME TypeOK, NEW r \in Confirmers,
         ConfirmExpire(r) \/ ConfirmReject(r) \/ ConfirmRecord(r),
         NEW j \in Keys
  PROVE  /\ pub'[j].authorizedAt = pub[j].authorizedAt
         /\ pub'[j].cancelledAt = pub[j].cancelledAt
         /\ pub'[j].rev = pub[j].rev
         /\ pub'[j].at = pub[j].at
         /\ \/ pub'[j].status = pub[j].status
            \/ pub'[j].status = "rejected"
            \/ ConfirmRecord(r) /\ j = Key(r) /\ pub'[j].status = res[r]
<1>1. Key(r) \in Keys
  BY DEF Key, TypeOK, Procs
<1>2. CASE j # Key(r)
  BY <1>1, <1>2 DEF ConfirmExpire, ConfirmReject, ConfirmRecord, TypeOK
<1>3. CASE j = Key(r)
  <2>1. pub[j] \in PubType
    BY <1>1, <1>3 DEF TypeOK
  <2>2. CASE ConfirmExpire(r)
    <3>1. pub'[j] = [Overwrite(pub[j], "rejected") EXCEPT !.error = "PREVIEW_EXPIRED"]
      BY <1>1, <1>3, <2>2 DEF ConfirmExpire, TypeOK
    <3> QED
      BY <2>1, <3>1 DEF Overwrite, PubType
  <2>3. CASE ConfirmReject(r)
    <3>1. pub'[j] = [Overwrite(pub[j], "rejected") EXCEPT !.error = "PUBLICATION_INPUT_CHANGED"]
      BY <1>1, <1>3, <2>3 DEF ConfirmReject, TypeOK
    <3> QED
      BY <2>1, <3>1 DEF Overwrite, PubType
  <2>4. CASE ConfirmRecord(r)
    <3>1. pub'[j] = [Overwrite(pub[j], res[r]) EXCEPT !.error = ""]
      BY <1>1, <1>3, <2>4 DEF ConfirmRecord, TypeOK
    <3> QED
      BY <1>3, <2>1, <2>4, <3>1 DEF Overwrite, PubType
  <2> QED
    BY <2>2, <2>3, <2>4
<1> QED
  BY <1>2, <1>3

LEMMA DoorStep == TypeOK /\ IInv /\ [Next]_vars => DoorInv'
<1> SUFFICES ASSUME TypeOK, IInv, [Next]_vars PROVE DoorInv'
  OBVIOUS
<1> USE DEF IInv
<1>1. CASE UNCHANGED pub /\ UNCHANGED provider
  BY <1>1 DEF DoorInv
<1>2. ASSUME NEW t, RecoverOne(t), UNCHANGED provider PROVE DoorInv'
  BY <1>2, RecoverFrame DEF DoorInv, Open
<1>3. CASE CreatePreview
  <2>1. CurrentKey \in Keys
    BY DEF CurrentKey, Keys, TypeOK
  <2> QED
    BY <1>3, <2>1 DEF CreatePreview, PreviewRecord, Absent, DoorInv, TypeOK, PubType, Open
<1>4. ASSUME NEW k \in Keys, Cancel(k) PROVE DoorInv'
  BY <1>4 DEF Cancel, CanCancel, DoorInv, TypeOK, PubType, Open
<1>5. ASSUME NEW k \in Keys, NEW t, Reschedule(k, t) PROVE DoorInv'
  BY <1>5 DEF Reschedule, DoorInv, TypeOK, PubType, Open
<1>6. ASSUME NEW p \in Procs, Authorize(p) PROVE DoorInv'
  BY <1>6 DEF Authorize, CanAuthorize, Key, Record, DoorInv, TypeOK, PubType, Open
<1>7. ASSUME NEW p \in Procs, Publish(p) PROVE DoorInv'
  <2>1. Key(p) \in Keys /\ Record(p).authorizedAt = "set" /\ calls[Key(p)] = 0
    BY <1>7 DEF Publish, Key, SenderInv, TypeOK
  <2>2. calls' = [calls EXCEPT ![Key(p)] = 1]
    BY <1>7, <2>1 DEF Publish, TypeOK
  <2>3. UNCHANGED pub /\ posted \subseteq posted'
    BY <1>7 DEF Publish
  <2> QED
    BY <2>1, <2>2, <2>3 DEF DoorInv, Record, TypeOK, Open
<1>8. ASSUME NEW r \in Confirmers, ConfirmExpire(r) \/ ConfirmReject(r) PROVE DoorInv'
  <2>1. UNCHANGED provider /\ ~ConfirmRecord(r)
    BY <1>8 DEF ConfirmExpire, ConfirmReject, ConfirmRecord
  <2> QED
    BY <1>8, <2>1, OverwriteFrame, DoorFrame
<1>9. ASSUME NEW k \in Keys, NEW p, NEW e, UNCHANGED provider,
             pub' = [pub EXCEPT ![k].lease = p, ![k].leaseExp = e]
      PROVE  DoorInv'
  BY <1>9, DoorFrame, LeaseFrame
<1>10. ASSUME NEW r \in Confirmers, ConfirmRecord(r) PROVE DoorInv'
  <2>1. Key(r) \in Keys /\ res[r] \in Outcomes /\ r \in Procs
    BY DEF Key, TypeOK, Procs
  <2>2. res[r] = "published" => Key(r) \in posted
    BY <1>10, <2>1 DEF ConfirmRecord, SenderInv
  <2>3. UNCHANGED provider
    BY <1>10 DEF ConfirmRecord
  <2> QED
    BY <1>10, <2>1, <2>2, <2>3, OverwriteFrame DEF DoorInv, Outcomes, Open
<1>11. ASSUME NEW s \in Schedulers, ScheduleStore(s) PROVE DoorInv'
  <2>1. Key(s) \in Keys /\ UNCHANGED provider
    BY <1>11 DEF ScheduleStore, Key, Procs, TypeOK
  <2>2. CASE CanSchedule(s)
    <3>1. pub[Key(s)].status = "pending"
      BY <2>2 DEF CanSchedule, Record
    <3>2. /\ pub'[Key(s)].status = "scheduled"
          /\ pub'[Key(s)].authorizedAt = pub[Key(s)].authorizedAt
          /\ pub'[Key(s)].cancelledAt = pub[Key(s)].cancelledAt
      BY <1>11, <2>1, <2>2 DEF ScheduleStore, TypeOK, PubType
    <3>3. \A k \in Keys \ {Key(s)} : pub'[k] = pub[k]
      BY <1>11, <2>1, <2>2 DEF ScheduleStore, TypeOK
    <3> QED
      BY <2>1, <3>1, <3>2, <3>3 DEF DoorInv, Open
  <2>3. CASE ~CanSchedule(s)
    BY <1>1, <1>11, <2>1, <2>3 DEF ScheduleStore
  <2> QED
    BY <2>2, <2>3
<1>13. ASSUME NEW w \in Workers, WorkerBlock(w) PROVE DoorInv'
  <2>1. Key(w) \in Keys /\ UNCHANGED provider
    BY <1>13 DEF WorkerBlock, Key, Procs, TypeOK
  <2>2. CASE CanBlock(w)
    <3>1. PICK s \in {"missed", "blocked"} :
            pub' = [pub EXCEPT ![Key(w)].status = s, ![Key(w)].lease = NoLease,
                               ![Key(w)].leaseExp = 0]
      BY <1>13, <2>2 DEF WorkerBlock
    <3>2. pub[Key(w)].authorizedAt = "null"
      BY <2>2 DEF CanBlock, Record
    <3> QED
      BY <2>1, <3>1, <3>2 DEF DoorInv, TypeOK, PubType, Open
  <2>3. CASE ~CanBlock(w)
    BY <1>1, <1>13, <2>1, <2>3 DEF WorkerBlock
  <2> QED
    BY <2>2, <2>3
<1>14. ASSUME NEW w \in Workers, WorkerRecord(w) PROVE DoorInv'
  <2>1. w \in Procs /\ Key(w) \in Keys /\ res[w] \in Outcomes /\ UNCHANGED provider
    BY <1>14 DEF WorkerRecord, Key, Procs, TypeOK
  <2>2. pc[w] = "record" /\ res[w] = "published" => Key(w) \in posted
    BY <2>1 DEF SenderInv
  <2>3. CASE CanFence(w)
    <3>1. PICK s \in Outcomes :
            /\ s = "published" => Key(w) \in posted
            /\ pub' = [pub EXCEPT ![Key(w)].status = s, ![Key(w)].lease = NoLease,
                                  ![Key(w)].leaseExp = 0]
      BY <1>14, <2>1, <2>2, <2>3 DEF WorkerRecord, Outcomes
    <3>2. pub[Key(w)].status = "dispatching"
      BY <2>3 DEF CanFence, Record
    <3> QED
      BY <2>1, <3>1, <3>2 DEF DoorInv, TypeOK, PubType, Open, Outcomes
  <2>4. CASE ~CanFence(w)
    BY <1>1, <1>14, <2>1, <2>4 DEF WorkerRecord
  <2> QED
    BY <2>3, <2>4
<1>15. CASE UserStep
  BY <1>1, <1>2, <1>3, <1>4, <1>5, <1>15
  DEF UserStep, EditDraft, ApproveDraft, TouchGeneration, CompleteWorkflow, Disconnect,
      Reconnect, TokenExpires, ReadHistory, ConfirmStart, ScheduleStart
<1>16. ASSUME NEW r \in Confirmers, ConfirmStep(r) PROVE DoorInv'
  <2>1. r \in Procs /\ Key(r) \in Keys
    BY DEF Key, TypeOK, Procs
  <2>2. CASE ConfirmRead(r) \/ ConfirmValidate(r)
    BY <1>1, <2>2 DEF ConfirmRead, ConfirmValidate
  <2>3. CASE ConfirmClaim(r)
    BY <1>1, <1>9, <2>1, <2>3 DEF ConfirmClaim
  <2> QED
    BY <1>6, <1>7, <1>8, <1>10, <1>16, <2>1, <2>2, <2>3 DEF ConfirmStep
<1>17. ASSUME NEW s \in Schedulers, ScheduleStep(s) PROVE DoorInv'
  BY <1>1, <1>11, <1>17 DEF ScheduleStep, ScheduleValidate
<1>18. ASSUME NEW w \in Workers, WorkerStep(w) \/ WorkerCatch(w) PROVE DoorInv'
  <2>1. w \in Procs
    BY DEF Procs
  <2>2. CASE WorkerTick(w)
    BY <1>2, <2>2 DEF WorkerTick
  <2>3. CASE WorkerClaim(w)
    <3>1. UNCHANGED provider
      BY <2>3 DEF WorkerClaim
    <3>2. UNCHANGED pub \/ \E k \in Keys :
            pub' = [pub EXCEPT ![k].lease = w, ![k].leaseExp = now[w] + LeaseLife]
      BY <2>3 DEF WorkerClaim
    <3> QED
      BY <1>1, <1>9, <3>1, <3>2
  <2>4. CASE WorkerValidate(w) \/ WorkerCannotDecrypt(w) \/ WorkerCatch(w)
    BY <1>1, <2>4 DEF WorkerValidate, WorkerCannotDecrypt, WorkerCatch
  <2> QED
    BY <1>6, <1>7, <1>13, <1>14, <1>18, <2>1, <2>2, <2>3, <2>4 DEF WorkerStep
<1>19. ASSUME NEW p \in Procs, Crash(p) PROVE DoorInv'
  BY <1>1, <1>19 DEF Crash
<1>20. CASE Tick \/ UNCHANGED vars
  BY <1>1, <1>20 DEF Tick, vars
<1> QED
  BY <1>15, <1>16, <1>17, <1>18, <1>19, <1>20 DEF Next
-----------------------------------------------------------------------------
(* Who moves, and what a step may do to the rest.                          *)

\* A step of the handler run by p.
Moves(p) ==
    \/ p \in Confirmers /\ (ConfirmStep(p) \/ \E k \in Keys : ConfirmStart(p, k))
    \/ p \in Schedulers /\ (ScheduleStep(p) \/ \E k \in Keys, t \in Nat : ScheduleStart(p, k, t))
    \/ p \in Workers /\ (WorkerStep(p) \/ WorkerCatch(p))
    \/ Crash(p)

\* Every step is a handler's, or leaves the handlers and LinkedIn alone.
LEMMA SomeoneMoves ==
  ASSUME [Next]_vars
  PROVE  (\E p \in Procs : Moves(p)) \/ UNCHANGED <<locals, provider>>
<1>1. CASE UserStep
  <2>1. ASSUME NEW s \in Schedulers, NEW k \in Keys, NEW t \in 0..(MaxTime + Horizon),
               ScheduleStart(s, k, t)
        PROVE  Moves(s)
    <3>1. t \in Nat
      BY BoundAssumption
    <3> QED
      BY <2>1, <3>1 DEF Moves
  <2> QED
    BY <1>1, <2>1
    DEF UserStep, Moves, Procs, EditDraft, ApproveDraft, TouchGeneration, CompleteWorkflow,
        Disconnect, Reconnect, TokenExpires, CreatePreview, ReadHistory, Cancel, Reschedule
<1>2. CASE Tick \/ UNCHANGED vars
  BY <1>2 DEF Tick, vars
<1> QED
  BY <1>1, <1>2 DEF Next, Moves, Procs

\* A handler does not touch the locals of another.
LEMMA MovesAlone ==
  ASSUME TypeOK, NEW p \in Procs, Moves(p), NEW q \in Procs, q # p
  PROVE  pc'[q] = pc[q] /\ now'[q] = now[q] /\ snap'[q] = snap[q] /\ res'[q] = res[q]
<1>1. ASSUME Finish(p)
      PROVE  pc'[q] = pc[q] /\ now'[q] = now[q] /\ snap'[q] = snap[q] /\ res'[q] = res[q]
  BY <1>1 DEF Finish, Goto, TypeOK
<1>2. CASE \E k \in Keys : ConfirmStart(p, k)
  BY <1>2 DEF ConfirmStart, Goto, TypeOK
<1>3. CASE \E k \in Keys, t \in Nat : ScheduleStart(p, k, t)
  BY <1>3 DEF ScheduleStart, Goto, TypeOK
<1>4. CASE ConfirmStep(p)
  BY <1>1, <1>4
  DEF ConfirmStep, ConfirmRead, ConfirmValidate, ConfirmExpire, ConfirmReject, ConfirmClaim,
      Authorize, Publish, ConfirmRecord, Goto, TypeOK
<1>5. CASE ScheduleStep(p)
  BY <1>1, <1>5 DEF ScheduleStep, ScheduleValidate, ScheduleStore, Goto, TypeOK
<1>6. CASE WorkerStep(p) \/ WorkerCatch(p)
  BY <1>1, <1>6
  DEF WorkerStep, WorkerTick, WorkerClaim, WorkerValidate, WorkerBlock, Authorize, Publish,
      WorkerCannotDecrypt, WorkerRecord, WorkerCatch, Goto, TypeOK
<1>7. CASE Crash(p)
  BY <1>1, <1>7 DEF Crash
<1> QED
  BY <1>2, <1>3, <1>4, <1>5, <1>6, <1>7 DEF Moves

\* What leads to a provider call, to its result and to the labels before it.
LEMMA MovesTo ==
  ASSUME TypeOK, NEW p \in Procs, Moves(p)
  PROVE  /\ pc'[p] = "publish" => Authorize(p) /\ CanAuthorize(p)
         /\ pc'[p] = "record" => Publish(p)
         /\ p \in Workers /\ pc'[p] \in {"validate", "authorize"}
              => WorkerClaim(p) \/ WorkerValidate(p)
         /\ p \in Confirmers /\ pc'[p] \in {"validate", "claim", "authorize"}
              => ConfirmRead(p) \/ ConfirmValidate(p) \/ ConfirmClaim(p)
<1>1. ASSUME Finish(p) PROVE pc'[p] \in {"idle", "done"}
  BY <1>1 DEF Finish, Goto, TypeOK
<1>2. ASSUME NEW l, Goto(p, l) PROVE pc'[p] = l
  BY <1>2 DEF Goto, TypeOK
<1>3. CASE \E k \in Keys : ConfirmStart(p, k)
  BY <1>2, <1>3, ProcAssumption DEF ConfirmStart, Moves
<1>4. CASE p \in Schedulers /\ \E k \in Keys, t \in Nat : ScheduleStart(p, k, t)
  BY <1>2, <1>4, ProcAssumption DEF ScheduleStart
<1>5. CASE p \in Confirmers /\ ConfirmStep(p)
  BY <1>1, <1>2, <1>5, ProcAssumption
  DEF ConfirmStep, ConfirmRead, ConfirmValidate, ConfirmExpire, ConfirmReject, ConfirmClaim,
      Authorize, Publish, ConfirmRecord
<1>6. CASE p \in Schedulers /\ ScheduleStep(p)
  BY <1>1, <1>2, <1>6, ProcAssumption DEF ScheduleStep, ScheduleValidate, ScheduleStore
<1>7. CASE p \in Workers /\ (WorkerStep(p) \/ WorkerCatch(p))
  BY <1>1, <1>2, <1>7, ProcAssumption
  DEF WorkerStep, WorkerTick, WorkerClaim, WorkerValidate, WorkerBlock, Authorize, Publish,
      WorkerCannotDecrypt, WorkerRecord, WorkerCatch
<1>8. CASE Crash(p)
  BY <1>1, <1>8 DEF Crash
<1> QED
  BY <1>3, <1>4, <1>5, <1>6, <1>7, <1>8 DEF Moves

\* What a step may do to a record: its authorization is never taken back, its schedule
\* changes as Notifications expects, and only an authorization starts a dispatch.
Mono(k) ==
    /\ pub[k].authorizedAt = "set" => pub'[k].authorizedAt = "set"
    /\ Succeeds(pub[k], pub'[k])
    /\ pub'[k].status = "dispatching" =>
          \/ pub[k].status = "dispatching"
          \/ \E p \in Confirmers \cup Workers : Authorize(p) /\ CanAuthorize(p) /\ k = Key(p)

LEMMA MonoStep ==
  ASSUME TypeOK, IInv, [Next]_vars, NEW k \in Keys
  PROVE  Mono(k)
<1> USE DEF IInv
<1>0. pub[k].rev \in Nat
  BY DEF TypeOK, PubType
<1>1. CASE UNCHANGED pub
  BY <1>0, <1>1 DEF Mono, Succeeds
<1>2. ASSUME NEW t, RecoverOne(t) PROVE Mono(k)
  BY <1>0, <1>2, RecoverFrame DEF Mono, Succeeds
<1>3. CASE CreatePreview
  <2>1. CurrentKey \in Keys
    BY DEF CurrentKey, Keys, TypeOK
  <2> QED
    BY <1>0, <1>3, <2>1 DEF CreatePreview, PreviewRecord, Absent, DoorInv, TypeOK, Mono, Succeeds
<1>4. ASSUME NEW j \in Keys, Cancel(j) PROVE Mono(k)
  BY <1>0, <1>4 DEF Cancel, Mono, Succeeds, TypeOK, PubType
<1>5. ASSUME NEW j \in Keys, NEW t, Reschedule(j, t) PROVE Mono(k)
  BY <1>0, <1>5 DEF Reschedule, Mono, Succeeds, TypeOK, PubType
<1>6. ASSUME NEW p \in Confirmers \cup Workers, Authorize(p) PROVE Mono(k)
  <2>1. Key(p) \in Keys
    BY DEF Key, TypeOK, Procs
  <2>2. CASE k = Key(p) /\ CanAuthorize(p)
    <3>1. /\ pub'[k].authorizedAt = "set"
          /\ pub'[k].status = "dispatching"
          /\ pub'[k].rev = pub[k].rev /\ pub'[k].at = pub[k].at
      BY <1>6, <2>1, <2>2 DEF Authorize, TypeOK, PubType
    <3> QED
      BY <1>0, <1>6, <2>2, <3>1 DEF Mono, Succeeds
  <2>3. CASE ~(k = Key(p) /\ CanAuthorize(p))
    BY <1>0, <1>6, <2>1, <2>3 DEF Authorize, Mono, Succeeds, TypeOK, PubType
  <2> QED
    BY <2>2, <2>3
<1>7. ASSUME NEW r \in Confirmers, ConfirmExpire(r) \/ ConfirmReject(r) \/ ConfirmRecord(r)
      PROVE  Mono(k)
  <2>1. res[r] \notin {"none", "scheduled", "dispatching"}
    BY DEF TypeOK, Procs, Outcomes
  <2> QED
    BY <1>0, <1>7, <2>1, OverwriteFrame DEF Mono, Succeeds
<1>8. ASSUME NEW j \in Keys, NEW p, NEW e,
             pub' = [pub EXCEPT ![j].lease = p, ![j].leaseExp = e]
      PROVE  Mono(k)
  <2>1. /\ pub'[k].status = pub[k].status
        /\ pub'[k].authorizedAt = pub[k].authorizedAt
        /\ pub'[k].rev = pub[k].rev
        /\ pub'[k].at = pub[k].at
    BY <1>8 DEF TypeOK, PubType
  <2> QED
    BY <1>0, <2>1 DEF Mono, Succeeds
<1>9. ASSUME NEW s \in Schedulers, ScheduleStore(s) PROVE Mono(k)
  BY <1>0, <1>9 DEF ScheduleStore, Key, Procs, Mono, Succeeds, TypeOK, PubType
<1>10. ASSUME NEW w \in Workers, WorkerBlock(w) PROVE Mono(k)
  BY <1>0, <1>10 DEF WorkerBlock, Key, Procs, Mono, Succeeds, TypeOK, PubType
<1>11. ASSUME NEW w \in Workers, WorkerRecord(w) PROVE Mono(k)
  <2>1. res[w] \notin {"none", "scheduled", "dispatching"}
    BY DEF TypeOK, Procs, Outcomes
  <2> QED
    BY <1>0, <1>11, <2>1 DEF WorkerRecord, Key, Procs, Mono, Succeeds, TypeOK, PubType
<1>12. CASE UserStep
  BY <1>1, <1>2, <1>3, <1>4, <1>5, <1>12
  DEF UserStep, EditDraft, ApproveDraft, TouchGeneration, CompleteWorkflow, Disconnect,
      Reconnect, TokenExpires, ReadHistory, ConfirmStart, ScheduleStart
<1>13. ASSUME NEW r \in Confirmers, ConfirmStep(r) PROVE Mono(k)
  <2>1. r \in Procs /\ Key(r) \in Keys
    BY DEF Key, TypeOK, Procs
  <2>2. CASE ConfirmRead(r) \/ ConfirmValidate(r) \/ Publish(r)
    BY <1>1, <2>2 DEF ConfirmRead, ConfirmValidate, Publish
  <2>3. CASE ConfirmClaim(r)
    BY <1>1, <1>8, <2>1, <2>3 DEF ConfirmClaim
  <2> QED
    BY <1>6, <1>7, <1>13, <2>1, <2>2, <2>3 DEF ConfirmStep
<1>14. ASSUME NEW s \in Schedulers, ScheduleStep(s) PROVE Mono(k)
  BY <1>1, <1>9, <1>14 DEF ScheduleStep, ScheduleValidate
<1>15. ASSUME NEW w \in Workers, WorkerStep(w) \/ WorkerCatch(w) PROVE Mono(k)
  <2>1. w \in Procs
    BY DEF Procs
  <2>2. CASE WorkerTick(w)
    BY <1>2, <2>2 DEF WorkerTick
  <2>3. CASE WorkerClaim(w)
    <3>1. UNCHANGED pub \/ \E j \in Keys :
            pub' = [pub EXCEPT ![j].lease = w, ![j].leaseExp = now[w] + LeaseLife]
      BY <2>3 DEF WorkerClaim
    <3> QED
      BY <1>1, <1>8, <3>1
  <2>4. CASE WorkerValidate(w) \/ WorkerCannotDecrypt(w) \/ WorkerCatch(w) \/ Publish(w)
    BY <1>1, <2>4 DEF WorkerValidate, WorkerCannotDecrypt, WorkerCatch, Publish
  <2> QED
    BY <1>6, <1>10, <1>11, <1>15, <2>1, <2>2, <2>3, <2>4 DEF WorkerStep
<1>16. (\E p \in Procs : Crash(p)) \/ Tick \/ UNCHANGED vars => Mono(k)
  BY <1>1 DEF Crash, Tick, vars
<1> QED
  BY <1>12, <1>13, <1>14, <1>15, <1>16 DEF Next

\* Only the handler that publishes calls LinkedIn, and posts are never taken back.
LEMMA ProviderStep ==
  ASSUME TypeOK, [Next]_vars
  PROVE  /\ posted \subseteq posted'
         /\ \A k \in Keys : calls'[k] # calls[k] =>
              \E p \in Procs : Moves(p) /\ Publish(p) /\ Key(p) = k
<1>1. ASSUME NEW p \in Procs, Publish(p)
      PROVE  /\ posted \subseteq posted'
             /\ \A k \in Keys : calls'[k] # calls[k] => Publish(p) /\ Key(p) = k
  BY <1>1 DEF Publish, TypeOK, Key
<1>2. CASE UNCHANGED provider
  BY <1>2
<1>3. ASSUME NEW p \in Procs, Moves(p), ~Publish(p) PROVE UNCHANGED provider
  BY <1>3
  DEF Moves, ConfirmStart, ScheduleStart, ConfirmStep, ConfirmRead, ConfirmValidate,
      ConfirmExpire, ConfirmReject, ConfirmClaim, Authorize, ConfirmRecord, ScheduleStep,
      ScheduleValidate, ScheduleStore, WorkerStep, WorkerCatch, WorkerTick, WorkerClaim,
      WorkerValidate, WorkerBlock, WorkerCannotDecrypt, WorkerRecord, Crash
<1> QED
  BY <1>1, <1>2, <1>3, SomeoneMoves

\* A handler at a label it was not at before has moved; one that has not moved keeps
\* its label and its locals.
LEMMA AtLabel ==
  ASSUME TypeOK, [Next]_vars, NEW p \in Procs
  PROVE  \/ Moves(p)
         \/ pc'[p] = pc[p] /\ now'[p] = now[p] /\ snap'[p] = snap[p] /\ res'[p] = res[p]
BY SomeoneMoves, MovesAlone

LEMMA SenderStep == TypeOK /\ IInv /\ [Next]_vars => SenderInv'
<1> SUFFICES ASSUME TypeOK, IInv, [Next]_vars PROVE SenderInv'
  OBVIOUS
<1> USE DEF IInv
<1>0. \A p \in Procs : Key(p) \in Keys
  BY DEF Key, TypeOK
\* A handler that comes through the door finds the operation unsent.
<1>1. ASSUME NEW p \in Procs, Authorize(p), CanAuthorize(p)
      PROVE  /\ Key(p)' = Key(p)
             /\ pub'[Key(p)].authorizedAt = "set"
             /\ calls'[Key(p)] = 0
             /\ \A q \in Procs : pc[q] = "publish" => Key(q) # Key(p)
             /\ \A q \in Procs \ {p} : pc'[q] = pc[q] /\ Key(q)' = Key(q)
  <2>1. Record(p).authorizedAt = "null" /\ calls[Key(p)] = 0
    BY <1>0, <1>1 DEF CanAuthorize, Record, DoorInv
  <2>2. pub'[Key(p)].authorizedAt = "set"
    BY <1>0, <1>1 DEF Authorize, TypeOK, PubType
  <2>3. UNCHANGED <<snap, calls>>
    BY <1>1 DEF Authorize
  <2>4. \A q \in Procs : pc[q] = "publish" => Record(q).authorizedAt = "set"
    BY DEF SenderInv
  <2>5. \A q \in Procs \ {p} : pc'[q] = pc[q]
    BY <1>1 DEF Authorize, Goto, TypeOK
  <2> QED
    BY <2>1, <2>2, <2>3, <2>4, <2>5 DEF Key, Record
\* Nobody gets to the call in another way.
<1>2. ASSUME NEW p \in Procs, pc'[p] = "publish"
      PROVE  \/ Authorize(p) /\ CanAuthorize(p)
             \/ pc[p] = "publish" /\ Key(p)' = Key(p) /\ ~Moves(p)
  BY <1>2, AtLabel, MovesTo DEF Key
<1>3. ASSUME NEW p \in Procs, pc'[p] = "publish"
      PROVE  Record(p)'.authorizedAt = "set" /\ calls'[Key(p)'] = 0
  <2>1. CASE Authorize(p) /\ CanAuthorize(p)
    BY <1>1, <2>1 DEF Record
  <2>2. CASE pc[p] = "publish" /\ Key(p)' = Key(p) /\ ~Moves(p)
    <3>1. Record(p).authorizedAt = "set" /\ calls[Key(p)] = 0
      BY <2>2 DEF SenderInv
    <3>2. pub'[Key(p)].authorizedAt = "set"
      BY <1>0, <3>1, MonoStep DEF Mono, Succeeds, Record
    <3>3. ASSUME NEW q \in Procs, Moves(q), Publish(q), Key(q) = Key(p) PROVE FALSE
      BY <2>2, <3>3 DEF SenderInv, Publish
    <3>4. calls'[Key(p)] = 0
      BY <1>0, <3>1, <3>3, ProviderStep
    <3> QED
      BY <2>2, <3>2, <3>4 DEF Record
  <2> QED
    BY <1>2, <1>3, <2>1, <2>2
<1>4. ASSUME NEW p \in Procs, NEW q \in Procs, pc'[p] = "publish", pc'[q] = "publish",
             Key(p)' = Key(q)'
      PROVE  p = q
  <2>1. CASE Authorize(p) /\ CanAuthorize(p)
    BY <1>1, <1>4, <2>1
  <2>2. CASE Authorize(q) /\ CanAuthorize(q)
    BY <1>1, <1>4, <2>2
  <2> QED
    BY <1>2, <1>4, <2>1, <2>2 DEF SenderInv
<1>5. ASSUME NEW p \in Procs, pc'[p] = "record", res'[p] = "published"
      PROVE  Key(p)' \in posted'
  <2>1. CASE Publish(p)
    <3>1. Key(p)' = Key(p)
      BY <2>1 DEF Publish, Key
    <3>2. \E outcome \in Outcomes, created \in BOOLEAN :
             /\ Answers(outcome, created)
             /\ res' = [res EXCEPT ![p] = outcome]
             /\ posted' = IF created THEN posted \cup {Key(p)} ELSE posted
      BY <2>1 DEF Publish
    <3>3. PICK outcome \in Outcomes, created \in BOOLEAN :
             /\ Answers(outcome, created)
             /\ res' = [res EXCEPT ![p] = outcome]
             /\ posted' = IF created THEN posted \cup {Key(p)} ELSE posted
      BY <3>2
    <3>4. outcome = "published"
      BY <1>5, <3>3 DEF TypeOK
    <3>5. created
      BY <3>3, <3>4 DEF Answers
    <3>6. posted' = posted \cup {Key(p)}
      BY <3>3, <3>5
    <3> QED
      BY <3>1, <3>6
  <2>2. CASE ~Publish(p)
    <3>1. pc[p] = "record" /\ res[p] = "published" /\ Key(p)' = Key(p)
      BY <1>5, <2>2, AtLabel, MovesTo DEF Key
    <3> QED
      BY <3>1, ProviderStep DEF SenderInv
  <2> QED
    BY <2>1, <2>2
<1>6. ASSUME NEW p \in Procs, pc'[p] = "record" PROVE Record(p)'.authorizedAt = "set"
  <2>1. pc[p] \in {"publish", "record"} /\ Key(p)' = Key(p)
    <3>1. CASE Publish(p)
      BY <3>1 DEF Publish, Key
    <3>2. CASE ~Publish(p)
      BY <1>6, <3>2, AtLabel, MovesTo DEF Key
    <3> QED
      BY <3>1, <3>2
  <2>2. Record(p).authorizedAt = "set"
    BY <2>1 DEF SenderInv
  <2>3. pub'[Key(p)].authorizedAt = "set"
    BY <1>0, <2>2, MonoStep DEF Mono, Succeeds, Record
  <2> QED
    BY <2>1, <2>3 DEF Record
<1> QED
  BY <1>3, <1>4, <1>5, <1>6 DEF SenderInv

\* The clock never runs back, and a handler's start is not after it.
LEMMA ClockStep ==
  ASSUME TypeOK, [Next]_vars, NEW p \in Procs, now[p] <= clock
  PROVE  clock' >= clock /\ now'[p] <= clock'
<1>1. clock \in Nat /\ now[p] \in Nat
  BY DEF TypeOK
<1>2. CASE Tick
  BY <1>1, <1>2 DEF Tick
<1>3. CASE UNCHANGED vars
  BY <1>1, <1>3 DEF vars
<1>4. CASE UserStep
  <2>1. ASSUME NEW q \in Procs, now' = [now EXCEPT ![q] = clock], UNCHANGED clock
        PROVE  clock' >= clock /\ now'[p] <= clock'
    BY <1>1, <2>1 DEF TypeOK
  <2>2. ASSUME UNCHANGED <<clock, now>> PROVE clock' >= clock /\ now'[p] <= clock'
    BY <1>1, <2>2
  <2>3. ASSUME NEW r \in Confirmers, NEW k \in Keys, ConfirmStart(r, k)
        PROVE  clock' >= clock /\ now'[p] <= clock'
    BY <2>1, <2>3 DEF ConfirmStart, Procs
  <2>4. ASSUME NEW s \in Schedulers, NEW k \in Keys, NEW t, ScheduleStart(s, k, t)
        PROVE  clock' >= clock /\ now'[p] <= clock'
    BY <2>1, <2>4 DEF ScheduleStart, Procs
  <2> QED
    BY <1>4, <2>2, <2>3, <2>4
    DEF UserStep, EditDraft, ApproveDraft, TouchGeneration, CompleteWorkflow, Disconnect,
        Reconnect, TokenExpires, CreatePreview, ReadHistory, Cancel, Reschedule
<1>5. ASSUME NEW q \in Procs, Finish(q), UNCHANGED clock PROVE clock' >= clock /\ now'[p] <= clock'
  BY <1>1, <1>5 DEF Finish, TypeOK
<1>6. ASSUME UNCHANGED clock, UNCHANGED now PROVE clock' >= clock /\ now'[p] <= clock'
  BY <1>1, <1>6
<1>7. ASSUME NEW r \in Confirmers, ConfirmStep(r) PROVE clock' >= clock /\ now'[p] <= clock'
  BY <1>5, <1>6, <1>7
  DEF ConfirmStep, ConfirmRead, ConfirmValidate, ConfirmExpire, ConfirmReject, ConfirmClaim,
      Authorize, Publish, ConfirmRecord, Procs
<1>8. ASSUME NEW s \in Schedulers, ScheduleStep(s) PROVE clock' >= clock /\ now'[p] <= clock'
  BY <1>5, <1>6, <1>8 DEF ScheduleStep, ScheduleValidate, ScheduleStore, Procs
<1>9. ASSUME NEW w \in Workers, WorkerTick(w) PROVE clock' >= clock /\ now'[p] <= clock'
  BY <1>1, <1>9 DEF WorkerTick, Procs, TypeOK
<1>10. ASSUME NEW w \in Workers, WorkerStep(w) \/ WorkerCatch(w), ~WorkerTick(w)
       PROVE  clock' >= clock /\ now'[p] <= clock'
  BY <1>5, <1>6, <1>10
  DEF WorkerStep, WorkerClaim, WorkerValidate, WorkerBlock, Authorize, Publish,
      WorkerCannotDecrypt, WorkerRecord, WorkerCatch, Procs
<1>11. ASSUME NEW q \in Procs, Crash(q) PROVE clock' >= clock /\ now'[p] <= clock'
  BY <1>5, <1>11 DEF Crash
<1> QED
  BY <1>2, <1>3, <1>4, <1>7, <1>8, <1>9, <1>10, <1>11 DEF Next

\* A confirmation works on the record it started with.
LEMMA ConfirmKeepsKey ==
  ASSUME TypeOK, NEW r \in Confirmers, Moves(r), pc'[r] \notin {"idle", "done"}
  PROVE  \/ \E k \in Keys : ConfirmStart(r, k)
         \/ pc[r] \notin {"idle", "done"} /\ snap'[r].key = snap[r].key
<1> r \in Procs
  BY DEF Procs
<1>1. ~Finish(r)
  BY DEF Finish, Goto, TypeOK
<1>2. CASE ConfirmRead(r)
  BY <1>1, <1>2 DEF ConfirmRead, TypeOK
<1>3. CASE ConfirmStep(r) /\ ~ConfirmRead(r)
  BY <1>1, <1>3
  DEF ConfirmStep, ConfirmValidate, ConfirmExpire, ConfirmReject, ConfirmClaim, Authorize,
      Publish, ConfirmRecord
<1> QED
  BY <1>1, <1>2, <1>3, ProcAssumption DEF Moves, Crash

LEMMA ClaimStep == TypeOK /\ IInv /\ [Next]_vars => ClaimInv'
<1> SUFFICES ASSUME TypeOK, IInv, [Next]_vars PROVE ClaimInv'
  OBVIOUS
<1> USE DEF IInv
<1>0. \A p \in Procs : Key(p) \in Keys /\ snap[p].rev \in Nat /\ Record(p).rev \in Nat
                       /\ now[p] \in Nat
  BY DEF Key, Record, TypeOK, PubType
<1>1. \A p \in Procs : now'[p] <= clock'
  BY ClockStep DEF ClaimInv
<1>2. ASSUME NEW w \in Workers, pc'[w] \in {"validate", "authorize"}
      PROVE  /\ snap'[w].at <= now'[w]
             /\ snap'[w].rev <= Record(w)'.rev
             /\ Record(w)'.status = "scheduled" /\ Record(w)'.rev = snap'[w].rev
                  => Record(w)'.at = snap'[w].at
  <2>1. w \in Procs /\ \A k \in Keys : pub'[k].rev \in Nat
    BY NextTypeOK DEF Procs, TypeOK, PubType
  \* The claim that has just been made.
  <2>2. CASE WorkerClaim(w)
    <3>1. ~Finish(w)
      BY <1>2, <2>1 DEF Finish, Goto, TypeOK
    <3>2. PICK k \in Keys :
            /\ Claimable(k, now[w])
            /\ pub' = [pub EXCEPT ![k].lease = w, ![k].leaseExp = now[w] + LeaseLife]
            /\ snap' = [snap EXCEPT ![w] = [key |-> k, rev |-> pub[k].rev, at |-> pub[k].at]]
            /\ UNCHANGED now
      BY <2>2, <3>1 DEF WorkerClaim
    <3>3. snap'[w] = [key |-> k, rev |-> pub[k].rev, at |-> pub[k].at]
      BY <2>1, <3>2 DEF TypeOK
    <3>4. pub'[k].rev = pub[k].rev /\ pub'[k].at = pub[k].at /\ pub[k].rev \in Nat
      BY <3>2 DEF TypeOK, PubType
    <3>5. pub[k].at <= now[w] /\ now'[w] = now[w]
      BY <3>2 DEF Claimable, Due
    <3> QED
      BY <3>3, <3>4, <3>5 DEF Record, Key
  \* A claim made earlier: the record may have moved on.
  <2>3. CASE ~WorkerClaim(w)
    <3>1. /\ pc[w] \in {"validate", "authorize"}
          /\ snap'[w] = snap[w] /\ now'[w] = now[w]
      <4>1. CASE WorkerValidate(w)
        BY <4>1 DEF WorkerValidate
      <4>2. CASE ~Moves(w)
        BY <1>2, <2>1, <4>2, AtLabel
      <4> QED
        BY <1>2, <2>1, <2>3, <4>1, <4>2, MovesTo
    <3>2. /\ snap[w].at <= now[w]
          /\ snap[w].rev <= Record(w).rev
          /\ Record(w).status = "scheduled" /\ Record(w).rev = snap[w].rev
               => Record(w).at = snap[w].at
      BY <3>1 DEF ClaimInv
    <3>3. Mono(Key(w)) /\ Key(w)' = Key(w) /\ Record(w)' = pub'[Key(w)]
      BY <1>0, <2>1, <3>1, MonoStep DEF Key, Record
    <3> QED
      BY <1>0, <2>1, <3>1, <3>2, <3>3 DEF Mono, Succeeds, Record
  <2> QED
    BY <2>2, <2>3
<1>3. ASSUME NEW r \in Confirmers, pc'[r] \in {"validate", "claim", "authorize"}
      PROVE  /\ snap'[r].rev <= Record(r)'.rev
             /\ Record(r)'.status = "scheduled" => Record(r)'.rev # snap'[r].rev
  <2>1. r \in Procs /\ \A k \in Keys : pub'[k].rev \in Nat
    BY NextTypeOK DEF Procs, TypeOK, PubType
  \* The record has just been read.
  <2>2. CASE ConfirmRead(r)
    <3>1. ~Finish(r)
      BY <1>3, <2>1 DEF Finish, Goto, TypeOK
    <3>2. /\ Record(r).status = "pending" /\ UNCHANGED pub
          /\ snap' = [snap EXCEPT ![r].rev = Record(r).rev]
      BY <2>2, <3>1 DEF ConfirmRead
    <3>3. snap'[r].rev = Record(r).rev /\ snap'[r].key = snap[r].key
      BY <2>1, <3>2 DEF TypeOK
    <3>4. Record(r)' = Record(r)
      BY <3>2, <3>3 DEF Record, Key
    <3> QED
      BY <1>0, <2>1, <3>2, <3>3, <3>4
  \* It was read earlier and may have moved on.
  <2>3. CASE ~ConfirmRead(r)
    <3>1. pc[r] \in {"validate", "claim", "authorize"} /\ snap'[r] = snap[r]
      <4>1. ASSUME ConfirmValidate(r) \/ ConfirmClaim(r)
            PROVE  pc[r] \in {"validate", "claim", "authorize"} /\ snap'[r] = snap[r]
        <5>1. ~Finish(r)
          BY <1>3, <2>1 DEF Finish, Goto, TypeOK
        <5> QED
          BY <4>1, <5>1 DEF ConfirmValidate, ConfirmClaim
      <4>2. CASE ~Moves(r)
        BY <1>3, <2>1, <4>2, AtLabel
      <4> QED
        BY <1>3, <2>1, <2>3, <4>1, <4>2, MovesTo
    <3>2. /\ snap[r].rev <= Record(r).rev
          /\ Record(r).status = "scheduled" => Record(r).rev # snap[r].rev
      BY <3>1 DEF ClaimInv
    <3>3. Mono(Key(r)) /\ Key(r)' = Key(r) /\ Record(r)' = pub'[Key(r)]
      BY <1>0, <2>1, <3>1, MonoStep DEF Key, Record
    <3> QED
      BY <1>0, <2>1, <3>1, <3>2, <3>3 DEF Mono, Succeeds, Record
  <2> QED
    BY <2>2, <2>3
<1>4. ASSUME NEW r \in Confirmers, pc'[r] \notin {"idle", "done"}
      PROVE  Record(r)'.status # "none"
  <2>1. r \in Procs
    BY DEF Procs
  <2>2. CASE \E k \in Keys : ConfirmStart(r, k)
    <3>1. PICK k \in Keys : ConfirmStart(r, k)
      BY <2>2
    <3>2. pub[k].status # "none" /\ Key(r)' = k
      BY <2>1, <3>1 DEF ConfirmStart, Key, TypeOK
    <3>3. pub'[k].status # "none"
      BY <3>2, MonoStep DEF Mono, Succeeds
    <3> QED
      BY <3>2, <3>3 DEF Record
  <2>3. CASE pc[r] \notin {"idle", "done"} /\ Key(r)' = Key(r)
    <3>1. pub[Key(r)].status # "none"
      BY <2>3 DEF ClaimInv, Record
    <3>2. pub'[Key(r)].status # "none"
      BY <1>0, <2>1, <3>1, MonoStep DEF Mono, Succeeds
    <3> QED
      BY <2>3, <3>2 DEF Record
  <2> QED
    BY <1>4, <2>1, <2>2, <2>3, AtLabel, ConfirmKeepsKey DEF Key
<1> QED
  BY <1>1, <1>2, <1>3, <1>4 DEF ClaimInv
-----------------------------------------------------------------------------
(* The theorems.                                                           *)

\* Before every provider call: the door opened once, for one handler, and the schedule
\* a worker dispatches under is the record's own.
THEOREM Invariance == Spec => [](TypeOK /\ IInv)
<1>1. Init => TypeOK /\ IInv
  BY InitTypeOK, InitIInv
<1>2. TypeOK /\ IInv /\ [Next]_vars => (TypeOK /\ IInv)'
  BY NextTypeOK, DoorStep, SenderStep, ClaimStep DEF IInv
<1> QED
  BY <1>1, <1>2, PTL DEF Spec

\* For any number of requests and workers, with any interleaving, crash or recovery:
\* LinkedIn is called at most once for an operation.
THEOREM CalledAtMostOnce == Spec => []AtMostOneCall
<1>1. IInv => AtMostOneCall
  BY DEF IInv, DoorInv, AtMostOneCall
<1> QED
  BY <1>1, Invariance, PTL

\* A publication the user is told was cancelled, missed or blocked was never sent.
THEOREM RefusedNeverSent == Spec => []RefusedIsNeverSent
<1>1. IInv => RefusedIsNeverSent
  BY DEF IInv, DoorInv, RefusedIsNeverSent
<1> QED
  BY <1>1, Invariance, PTL

\* A record says published only if the post exists.
THEOREM PublishedPosted == Spec => []PublishedIsPosted
<1>1. IInv => PublishedIsPosted
  BY DEF IInv, DoorInv, PublishedIsPosted
<1> QED
  BY <1>1, Invariance, PTL

\* A scheduled job is never dispatched before the instant its record carries, whatever
\* schedule it was claimed under.
THEOREM NotEarly == Spec => NeverEarly
<1> DEFINE OnTime == \A k \in Keys :
              pub[k].status = "scheduled" /\ pub'[k].status = "dispatching" => pub[k].at <= clock
<1>1. TypeOK /\ IInv /\ [Next]_vars => [OnTime]_vars
  <2> SUFFICES ASSUME TypeOK, IInv, [Next]_vars, NEW k \in Keys,
                      pub[k].status = "scheduled", pub'[k].status = "dispatching"
               PROVE  pub[k].at <= clock
    OBVIOUS
  <2>1. PICK p \in Confirmers \cup Workers : Authorize(p) /\ CanAuthorize(p) /\ k = Key(p)
    BY MonoStep DEF Mono, Succeeds
  <2>2. pc[p] = "authorize" /\ Record(p) = pub[k] /\ pub[k].rev = snap[p].rev
    BY <2>1 DEF Authorize, CanAuthorize, Record
  <2>3. pub[k].at \in Nat /\ now[p] \in Nat /\ clock \in Nat /\ now[p] <= clock
    BY DEF TypeOK, PubType, IInv, ClaimInv, Procs
  <2>4. CASE p \in Workers
    BY <2>2, <2>3, <2>4 DEF IInv, ClaimInv
  <2>5. CASE p \in Confirmers
    BY <2>2, <2>5 DEF IInv, ClaimInv
  <2> QED
    BY <2>4, <2>5
<1>2. [][OnTime]_vars <=> NeverEarly
  BY DEF NeverEarly
<1> QED
  BY <1>1, <1>2, Invariance, PTL DEF Spec
-----------------------------------------------------------------------------
(* The handlers implement PublishOnce.                                     *)

LEMMA SamePhase ==
  ASSUME UNCHANGED calls, \A k \in Keys : Phase(k)' = Phase(k)
  PROVE  [Once!OnceNext]_(Once!onceVars)
BY DEF Once!onceVars

LEMMA OnePhaseMoves ==
  ASSUME NEW k \in Keys, UNCHANGED calls,
         \A j \in Keys \ {k} : pub'[j] = pub[j],
         \/ Phase(k) = "absent" /\ Phase(k)' = "open"
         \/ Phase(k) = "open" /\ Phase(k)' \in {"refused", "dispatched"}
  PROVE  [Once!OnceNext]_(Once!onceVars)
<1>1. \A j \in Keys \ {k} : Phase(j)' = Phase(j)
  BY DEF Phase
<1>2. ASSUME NEW from, NEW to, Phase(k) = from, Phase(k)' = to PROVE Once!Move(k, from, to)
  <2>1. [j \in Keys |-> Phase(j)][k] = from
    BY <1>2
  <2>2. [j \in Keys |-> Phase(j)]' = [[j \in Keys |-> Phase(j)] EXCEPT ![k] = to]
    BY <1>1, <1>2
  <2> QED
    BY <2>1, <2>2 DEF Once!Move
<1>3. Once!OpenOperation(k) \/ Once!Refuse(k) \/ Once!Dispatch(k)
  BY <1>2 DEF Once!OpenOperation, Once!Refuse, Once!Dispatch
<1> QED
  BY <1>3 DEF Once!OnceNext

\* A confirmation's unconditional update refuses an operation that was open and moves
\* no other: what was dispatched stays dispatched, whatever its status says.
LEMMA OverwritePhase ==
  ASSUME TypeOK, IInv, NEW r \in Confirmers,
         ConfirmExpire(r) \/ ConfirmReject(r) \/ ConfirmRecord(r)
  PROVE  [Once!OnceNext]_(Once!onceVars)
<1>1. /\ r \in Procs /\ Key(r) \in Keys /\ UNCHANGED calls
      /\ pc[r] \in {"expire", "reject", "record"} /\ (ConfirmRecord(r) => pc[r] = "record")
  BY DEF Key, TypeOK, Procs, ConfirmExpire, ConfirmReject, ConfirmRecord
<1>2. \A j \in Keys \ {Key(r)} : pub'[j] = pub[j]
  BY <1>1 DEF ConfirmExpire, ConfirmReject, ConfirmRecord, TypeOK
<1>3. /\ pub[Key(r)].status # "none" /\ pub[Key(r)].authorizedAt \in {"null", "set"}
      /\ ConfirmRecord(r) => pub[Key(r)].authorizedAt = "set"
      /\ res[r] \in {"published", "rejected", "uncertain"}
  BY <1>1 DEF IInv, ClaimInv, SenderInv, Record, TypeOK, PubType, Stamped, Outcomes
<1>4. /\ pub'[Key(r)].authorizedAt = pub[Key(r)].authorizedAt
      /\ \/ pub'[Key(r)].status = pub[Key(r)].status
         \/ pub'[Key(r)].status = "rejected"
         \/ ConfirmRecord(r) /\ pub'[Key(r)].status = res[r]
  BY <1>1, OverwriteFrame
<1>5. CASE Phase(Key(r)) = "open" /\ pub'[Key(r)].status = "rejected"
  <2>1. pub'[Key(r)].authorizedAt = "null"
    BY <1>3, <1>4, <1>5 DEF Phase
  <2>2. PICK j \in Keys : j = Key(r)
    BY <1>1
  <2>3. Phase(j) = "open" /\ Phase(j)' = "refused"
    BY <1>5, <2>1, <2>2 DEF Phase, Open
  <2> QED
    BY <1>1, <1>2, <2>2, <2>3, OnePhaseMoves
<1>6. CASE ~(Phase(Key(r)) = "open" /\ pub'[Key(r)].status = "rejected")
  <2>1. ASSUME NEW j \in Keys PROVE Phase(j)' = Phase(j)
    BY <1>2, <1>3, <1>4, <1>6 DEF Phase, Open
  <2> QED
    BY <1>1, <2>1, SamePhase
<1> QED
  BY <1>5, <1>6

LEMMA PhaseStep == TypeOK /\ IInv /\ [Next]_vars => [Once!OnceNext]_(Once!onceVars)
<1> SUFFICES ASSUME TypeOK, IInv, [Next]_vars PROVE [Once!OnceNext]_(Once!onceVars)
  OBVIOUS
<1> USE DEF IInv
<1>1. CASE UNCHANGED <<pub, calls>>
  BY <1>1, SamePhase DEF Phase
<1>2. ASSUME NEW t, RecoverOne(t), UNCHANGED calls PROVE [Once!OnceNext]_(Once!onceVars)
  <2>1. ASSUME NEW k \in Keys PROVE Phase(k)' = Phase(k)
    BY <1>2, RecoverFrame DEF Phase, DoorInv, Open
  <2> QED
    BY <1>2, <2>1, SamePhase
<1>3. CASE CreatePreview
  <2>1. PICK k \in Keys : k = CurrentKey
    BY DEF CurrentKey, Keys, TypeOK
  <2>2. pub'[k] = PreviewRecord(k) /\ pub[k].status = "none"
    BY <1>3, <2>1 DEF CreatePreview, TypeOK
  <2>3. Phase(k) = "absent" /\ Phase(k)' = "open"
    BY <2>2 DEF PreviewRecord, Absent, Phase, Open
  <2>4. UNCHANGED calls /\ \A j \in Keys \ {k} : pub'[j] = pub[j]
    BY <1>3, <2>1 DEF CreatePreview, TypeOK
  <2> QED
    BY <2>3, <2>4, OnePhaseMoves
<1>4. ASSUME NEW k \in Keys, Cancel(k) PROVE [Once!OnceNext]_(Once!onceVars)
  <2>1. Phase(k) = "open" /\ Phase(k)' = "refused"
    BY <1>4 DEF Cancel, CanCancel, DoorInv, TypeOK, PubType, Phase, Open
  <2>2. UNCHANGED calls /\ \A j \in Keys \ {k} : pub'[j] = pub[j]
    BY <1>4 DEF Cancel, TypeOK
  <2> QED
    BY <2>1, <2>2, OnePhaseMoves
<1>5. ASSUME NEW k \in Keys, NEW t, Reschedule(k, t) PROVE [Once!OnceNext]_(Once!onceVars)
  <2>1. ASSUME NEW j \in Keys PROVE Phase(j)' = Phase(j)
    BY <1>5 DEF Reschedule, TypeOK, PubType, Phase
  <2> QED
    BY <1>5, <2>1, SamePhase DEF Reschedule
<1>6. ASSUME NEW p \in Procs, Authorize(p) PROVE [Once!OnceNext]_(Once!onceVars)
  <2>1. PICK k \in Keys : k = Key(p)
    BY DEF Key, TypeOK
  <2>2. CASE CanAuthorize(p)
    <3>1. Phase(k) = "open" /\ Phase(k)' = "dispatched"
      BY <1>6, <2>1, <2>2
      DEF Authorize, CanAuthorize, Record, DoorInv, TypeOK, PubType, Phase, Open
    <3>2. UNCHANGED calls /\ \A j \in Keys \ {k} : pub'[j] = pub[j]
      BY <1>6, <2>1, <2>2 DEF Authorize, TypeOK
    <3> QED
      BY <3>1, <3>2, OnePhaseMoves
  <2>3. CASE ~CanAuthorize(p)
    BY <1>1, <1>6, <2>3 DEF Authorize
  <2> QED
    BY <2>2, <2>3
<1>7. ASSUME NEW p \in Procs, Publish(p) PROVE [Once!OnceNext]_(Once!onceVars)
  <2>1. PICK k \in Keys : k = Key(p)
    BY DEF Key, TypeOK
  <2>2. pub[k].authorizedAt = "set" /\ calls[k] = 0
    BY <1>7, <2>1 DEF Publish, SenderInv, Record
  <2>3. calls' = [calls EXCEPT ![k] = 1]
    BY <1>7, <2>1, <2>2 DEF Publish, TypeOK
  <2>4. Phase(k) = "dispatched"
    BY <2>2 DEF Phase, DoorInv, Open
  <2>5. [j \in Keys |-> Phase(j)]' = [j \in Keys |-> Phase(j)]
    BY <1>7 DEF Publish, Phase
  <2>6. Once!CallProvider(k)
    BY <2>2, <2>3, <2>4, <2>5 DEF Once!CallProvider
  <2> QED
    BY <2>6 DEF Once!OnceNext
<1>8. ASSUME NEW k \in Keys, NEW p, NEW e, UNCHANGED calls,
             pub' = [pub EXCEPT ![k].lease = p, ![k].leaseExp = e]
      PROVE  [Once!OnceNext]_(Once!onceVars)
  <2>1. ASSUME NEW j \in Keys PROVE Phase(j)' = Phase(j)
    BY <1>8 DEF TypeOK, PubType, Phase
  <2> QED
    BY <1>8, <2>1, SamePhase
<1>9. ASSUME NEW s \in Schedulers, ScheduleStore(s) PROVE [Once!OnceNext]_(Once!onceVars)
  <2>1. Key(s) \in Keys
    BY DEF Key, Procs, TypeOK
  <2>2. ASSUME NEW j \in Keys PROVE Phase(j)' = Phase(j)
    BY <1>9, <2>1, <2>2 DEF ScheduleStore, CanSchedule, Record, TypeOK, PubType, Phase, Open
  <2> QED
    BY <1>9, <2>2, SamePhase DEF ScheduleStore
<1>10. ASSUME NEW w \in Workers, WorkerBlock(w) PROVE [Once!OnceNext]_(Once!onceVars)
  <2>1. PICK k \in Keys : k = Key(w)
    BY DEF Key, Procs, TypeOK
  <2>2. CASE CanBlock(w)
    <3>1. Phase(k) = "open" /\ Phase(k)' = "refused"
      BY <1>10, <2>1, <2>2
      DEF WorkerBlock, CanBlock, Record, TypeOK, PubType, Phase, Open
    <3>2. UNCHANGED calls /\ \A j \in Keys \ {k} : pub'[j] = pub[j]
      BY <1>10, <2>1, <2>2 DEF WorkerBlock, TypeOK
    <3> QED
      BY <3>1, <3>2, OnePhaseMoves
  <2>3. CASE ~CanBlock(w)
    BY <1>1, <1>10, <2>3 DEF WorkerBlock
  <2> QED
    BY <2>2, <2>3
<1>11. ASSUME NEW w \in Workers, WorkerRecord(w) PROVE [Once!OnceNext]_(Once!onceVars)
  <2>1. Key(w) \in Keys /\ res[w] \in Outcomes
    BY DEF Key, Procs, TypeOK
  <2>2. CASE CanFence(w)
    <3>1. pub[Key(w)].status = "dispatching" /\ pub[Key(w)].authorizedAt = "set"
      BY <2>1, <2>2 DEF CanFence, Record, DoorInv
    <3>2. ASSUME NEW j \in Keys PROVE Phase(j)' = Phase(j)
      <4>1. CASE j = Key(w)
        <5>1. PICK s \in Outcomes :
                pub' = [pub EXCEPT ![j].status = s, ![j].lease = NoLease, ![j].leaseExp = 0]
          BY <1>11, <2>1, <2>2, <4>1 DEF WorkerRecord, Outcomes
        <5>2. pub'[j].status # "none" /\ pub'[j].authorizedAt = "set"
          BY <3>1, <4>1, <5>1 DEF TypeOK, PubType, Outcomes
        <5> QED
          BY <3>1, <4>1, <5>2 DEF Phase
      <4>2. CASE j # Key(w)
        BY <1>11, <2>1, <4>2 DEF WorkerRecord, TypeOK, Phase
      <4> QED
        BY <4>1, <4>2
    <3> QED
      BY <1>11, <3>2, SamePhase DEF WorkerRecord
  <2>3. CASE ~CanFence(w)
    BY <1>1, <1>11, <2>3 DEF WorkerRecord
  <2> QED
    BY <2>2, <2>3
<1>12. CASE UserStep
  BY <1>1, <1>2, <1>3, <1>4, <1>5, <1>12
  DEF UserStep, EditDraft, ApproveDraft, TouchGeneration, CompleteWorkflow, Disconnect,
      Reconnect, TokenExpires, ReadHistory, ConfirmStart, ScheduleStart
<1>13. ASSUME NEW r \in Confirmers, ConfirmStep(r) PROVE [Once!OnceNext]_(Once!onceVars)
  <2>1. r \in Procs /\ Key(r) \in Keys
    BY DEF Key, TypeOK, Procs
  <2>2. CASE ConfirmRead(r) \/ ConfirmValidate(r)
    BY <1>1, <2>2 DEF ConfirmRead, ConfirmValidate
  <2>3. CASE ConfirmClaim(r)
    BY <1>1, <1>8, <2>1, <2>3 DEF ConfirmClaim
  <2> QED
    BY <1>6, <1>7, <1>13, <2>1, <2>2, <2>3, OverwritePhase DEF ConfirmStep
<1>14. ASSUME NEW s \in Schedulers, ScheduleStep(s) PROVE [Once!OnceNext]_(Once!onceVars)
  BY <1>1, <1>9, <1>14 DEF ScheduleStep, ScheduleValidate
<1>15. ASSUME NEW w \in Workers, WorkerStep(w) \/ WorkerCatch(w)
       PROVE  [Once!OnceNext]_(Once!onceVars)
  <2>1. w \in Procs
    BY DEF Procs
  <2>2. CASE WorkerTick(w)
    BY <1>2, <2>2 DEF WorkerTick
  <2>3. CASE WorkerClaim(w)
    <3>1. UNCHANGED calls
      BY <2>3 DEF WorkerClaim
    <3>2. UNCHANGED pub \/ \E j \in Keys :
            pub' = [pub EXCEPT ![j].lease = w, ![j].leaseExp = now[w] + LeaseLife]
      BY <2>3 DEF WorkerClaim
    <3> QED
      BY <1>1, <1>8, <3>1, <3>2
  <2>4. CASE WorkerValidate(w) \/ WorkerCannotDecrypt(w) \/ WorkerCatch(w)
    BY <1>1, <2>4 DEF WorkerValidate, WorkerCannotDecrypt, WorkerCatch
  <2> QED
    BY <1>6, <1>7, <1>10, <1>11, <1>15, <2>1, <2>2, <2>3, <2>4 DEF WorkerStep
<1>16. CASE (\E p \in Procs : Crash(p)) \/ Tick \/ UNCHANGED vars
  BY <1>1, <1>16 DEF Crash, Tick, vars
<1> QED
  BY <1>12, <1>13, <1>14, <1>15, <1>16 DEF Next

\* Requests, workers, failures and recoveries together keep PublishOnce's promise: an
\* operation opens once, is refused for good or dispatched, and is sent once.
THEOREM PublishesOnce == Spec => ImplementsPublishOnce
<1>1. Init => Once!OnceInit
  <2> SUFFICES ASSUME Init PROVE Once!OnceInit
    OBVIOUS
  <2>1. \A k \in Keys : Phase(k) = "absent"
    BY DEF Init, Absent, Phase
  <2> QED
    BY <2>1 DEF Init, Once!OnceInit
<1> QED
  BY <1>1, PhaseStep, Invariance, PTL DEF Spec, ImplementsPublishOnce, Once!OnceSpec

-----------------------------------------------------------------------------
(* ScheduleTime: the times a clock shows.                                  *)

\* A nonempty set of naturals has a least element.
LEMMA LeastNatural ==
    ASSUME NEW T, T \subseteq Nat, T # {} PROVE \E x \in T : \A y \in T : x <= y
<1>1. IsWellFoundedOn(OpToRel(<, Nat), Nat)
  BY NatLessThanWellFounded
<1>2. PICK x \in T : \A y \in T : <<y, x>> \notin OpToRel(<, Nat)
  BY <1>1, WFMin
<1>3. ASSUME NEW y \in T PROVE x <= y
  <2>1. <<y, x>> \in Nat \X Nat
    BY <1>3
  <2>2. ~(y < x)
    BY <1>2, <2>1 DEF OpToRel
  <2> QED
    BY <2>1, <2>2
<1> QED
  BY <1>3

USE ZoneAssumption DEF ZoneAssumption

-----------------------------------------------------------------------------
(* What the loop over the offsets finds.                                   *)

\* The loop (service lines 98-101) finds exactly the instants at which the clock shows
\* the time asked for: no zone's offset lies outside its bounds.
THEOREM CandidatesAreInstants ==
    ASSUME NEW z \in Zones, NEW v \in Values PROVE Candidates(z, v) = Showing(z, v)
<1>1. ASSUME NEW t \in Candidates(z, v) PROVE t \in Showing(z, v)
  <2>1. PICK o \in Offsets : t = v - o /\ LocalKey(z, v - o) = v
    BY <1>1 DEF Candidates
  <2> QED
    BY <2>1 DEF Showing
<1>2. ASSUME NEW t \in Showing(z, v) PROVE t \in Candidates(z, v)
  <2>1. t \in Instants /\ t + OffsetAt(z, t) = v
    BY <1>2 DEF Showing, LocalKey
  <2>2. OffsetAt(z, t) \in Offsets /\ OffsetAt(z, t) \in Int /\ t \in Int
    BY <2>1 DEF Offsets
  <2>3. t = v - OffsetAt(z, t)
    BY <2>1, <2>2
  <2> QED
    BY <2>1, <2>2, <2>3 DEF Candidates, LocalKey
<1> QED
  BY <1>1, <1>2

LEMMA CandidatesBounded ==
    ASSUME NEW z \in Zones, NEW v \in Values
    PROVE  Candidates(z, v) \subseteq (v - MaxOffset)..(v + MaxOffset)
<1> SUFFICES ASSUME NEW o \in Offsets PROVE v - o \in (v - MaxOffset)..(v + MaxOffset)
  BY DEF Candidates
<1>1. v \in Int /\ MaxOffset \in Int /\ o \in Int /\ -MaxOffset <= o /\ o <= MaxOffset
  BY DEF Offsets
<1>2. v - o \in Int /\ v - MaxOffset <= v - o /\ v - o <= v + MaxOffset
  BY <1>1
<1> QED
  BY <1>1, <1>2

LEMMA BoundedHasEnds ==
    ASSUME NEW a \in Int, NEW b \in Int, NEW S, S \subseteq a..b, S # {}
    PROVE  /\ \E t \in S : \A u \in S : t <= u
           /\ \E t \in S : \A u \in S : u <= t
<1> DEFINE Above == {t - a : t \in S}
           Below == {b - t : t \in S}
<1>1. PICK x \in Above : \A y \in Above : x <= y
  <2>0. ASSUME NEW t \in S PROVE t - a \in Nat
    BY ONLY a \in Int, b \in Int, S \subseteq a..b, t \in S
  <2>1. Above \subseteq Nat /\ Above # {}
    BY ONLY <2>0, S # {}
  <2> HIDE DEF Above
  <2> QED
    BY <2>1, LeastNatural
<1>2. PICK z \in Below : \A y \in Below : z <= y
  <2>0. ASSUME NEW t \in S PROVE b - t \in Nat
    BY ONLY a \in Int, b \in Int, S \subseteq a..b, t \in S
  <2>1. Below \subseteq Nat /\ Below # {}
    BY ONLY <2>0, S # {}
  <2> HIDE DEF Below
  <2> QED
    BY <2>1, LeastNatural
<1>3. \E t \in S : \A u \in S : t <= u
  <2>1. PICK t \in S : \E w \in Above : w = t - a /\ \A y \in Above : w <= y
    BY <1>1
  <2>2. \A u \in S : t - a <= u - a
    BY <2>1
  <2> QED
    BY <2>2
<1>4. \E t \in S : \A u \in S : u <= t
  <2>1. PICK t \in S : \E w \in Below : w = b - t /\ \A y \in Below : w <= y
    BY <1>2
  <2>2. \A u \in S : b - t <= b - u
    BY <2>1
  <2> QED
    BY <2>2
<1> QED
  BY <1>3, <1>4

\* Both choices pick one of the instants found.
LEMMA PicksACandidate ==
    ASSUME NEW z \in Zones, NEW v \in Values, Candidates(z, v) # {}
    PROVE  /\ FirstCandidate(Candidates(z, v)) \in Candidates(z, v)
           /\ LastCandidate(Candidates(z, v)) \in Candidates(z, v)
<1> DEFINE S == Candidates(z, v)
<1>1. S \subseteq (v - MaxOffset)..(v + MaxOffset) /\ S # {}
  BY CandidatesBounded
<1>2. v - MaxOffset \in Int /\ v + MaxOffset \in Int
  OBVIOUS
<1> HIDE DEF S
<1>3. /\ \E t \in S : \A u \in S : t <= u
      /\ \E t \in S : \A u \in S : u <= t
  BY <1>1, <1>2, BoundedHasEnds
<1>4. FirstCandidate(S) \in S /\ LastCandidate(S) \in S
  BY <1>3 DEF FirstCandidate, LastCandidate
<1> QED
  BY <1>4 DEF S

-----------------------------------------------------------------------------
(* The answer.                                                             *)

\* TimeInit and Resolve leave what was asked alone and answer as the two properties say.
Answered ==
    /\ zone \in Zones /\ value \in Values
    /\ ShowsWhatWasAsked
    /\ RepeatedNeedsChoice

LEMMA AnsweredInit == TimeInit => Answered
BY DEF TimeInit, Answered, ShowsWhatWasAsked, RepeatedNeedsChoice

LEMMA AnsweredNext == Answered /\ [Resolve]_timeVars => Answered'
<1> SUFFICES ASSUME Answered, [Resolve]_timeVars PROVE Answered'
  OBVIOUS
<1>1. CASE UNCHANGED timeVars
  BY <1>1 DEF Answered, ShowsWhatWasAsked, RepeatedNeedsChoice, Showing, LocalKey, timeVars, asked
<1>2. CASE Resolve
  <2> DEFINE found == Candidates(zone, value)
  <2>1. zone \in Zones /\ value \in Values /\ UNCHANGED <<zone, value, choice>>
    BY <1>2 DEF Answered, Resolve, asked
  <2>2. found = Showing(zone, value)
    BY <2>1, CandidatesAreInstants
  <2>3. found # {} => FirstCandidate(found) \in found /\ LastCandidate(found) \in found
    BY <2>1, PicksACandidate
  <2>4. Showing(zone, value)' = Showing(zone, value)
    BY <2>1 DEF Showing, LocalKey
  <2>5. \/ found = {} /\ answer' = "NONEXISTENT_LOCAL_TIME"
        \/ found # {} /\ MustAsk(found, choice) /\ answer' = "AMBIGUOUS_LOCAL_TIME"
        \/ /\ found # {} /\ ~MustAsk(found, choice) /\ answer' = "resolved"
           /\ instant' \in {LastCandidate(found), FirstCandidate(found)}
    BY <1>2 DEF Resolve
  <2> HIDE DEF found
  <2>6. ShowsWhatWasAsked'
    BY <2>2, <2>3, <2>4, <2>5 DEF ShowsWhatWasAsked
  <2>7. RepeatedNeedsChoice'
    BY <2>1, <2>2, <2>4, <2>5 DEF RepeatedNeedsChoice, MustAsk
  <2> QED
    BY <2>1, <2>6, <2>7 DEF Answered
<1> QED
  BY <1>1, <1>2

LEMMA AlwaysAnswered == TimeSpec => []Answered
BY AnsweredInit, AnsweredNext, PTL DEF TimeSpec

\* A time is refused as nonexistent only if no clock ever shows it, and scheduledAt is an
\* instant that does, whatever the zone's offsets.
THEOREM ResolvedShows == TimeSpec => []ShowsWhatWasAsked
<1>1. Answered => ShowsWhatWasAsked
  BY DEF Answered
<1> QED
  BY <1>1, AlwaysAnswered, PTL

\* A time is refused as ambiguous exactly if it occurs more than once and the user has
\* not chosen.
THEOREM RepeatedAsks == TimeSpec => []RepeatedNeedsChoice
<1>1. Answered => RepeatedNeedsChoice
  BY DEF Answered
<1> QED
  BY <1>1, AlwaysAnswered, PTL
-----------------------------------------------------------------------------
(* Notifications *)

LEMMA NoPublicationType == NoPublication \in Records
BY InboxAssumption DEF NoPublication, Records

LEMMA CursorType ==
  ASSUME NEW S, S \subseteq Publications
  PROVE  NextCursor(S) \in Nat
<1>1. CASE Cardinality(S) = PageLimit
  <2>1. S # {}
    <3>1. Cardinality({}) = 0
      BY FS_EmptySet
    <3> QED
      BY <1>1, <3>1, InboxAssumption
  <2>2. \E p \in S : \A q \in S : q <= p
    <3>1. S \subseteq 1..LastPublication /\ 1 \in Int /\ LastPublication \in Int
      BY InboxAssumption DEF Publications
    <3> QED
      BY ONLY <2>1, <3>1, BoundedHasEnds
  <2>3. (CHOOSE p \in S : \A q \in S : q <= p) \in S
    BY <2>2
  <2>4. NextCursor(S) \in 1..LastPublication
    BY <1>1, <2>3 DEF NextCursor, Publications
  <2> QED
    BY <2>4, InboxAssumption
<1>2. CASE Cardinality(S) # PageLimit
  BY <1>2 DEF NextCursor
<1> QED
  BY <1>1, <1>2

LEMMA PageDoneType ==
  ASSUME PageDone
  PROVE  /\ page' \in [Publications -> Records] /\ left' \in SUBSET Publications
         /\ passAt' \in {"down", "idle", "list", "obsolete", "insert"} /\ passNow' \in Nat
BY NoPublicationType DEF PageDone

LEMMA NextRecordType ==
  ASSUME InboxTypeOK, NEW p \in Publications, NextRecord(p)
  PROVE  /\ page' \in [Publications -> Records] /\ left' \in SUBSET Publications
         /\ passAt' \in {"down", "idle", "list", "obsolete", "insert"} /\ passNow' \in Nat
         /\ cursor' \in Nat
<1>1. CASE left = {p}
  <2>1. PageDone /\ cursor' = NextCursor({q \in Publications : page[q].status # "none"})
    BY <1>1 DEF NextRecord
  <2>2. NextCursor({q \in Publications : page[q].status # "none"}) \in Nat
    BY CursorType
  <2> QED
    BY <2>1, <2>2, PageDoneType
<1>2. CASE left # {p}
  BY <1>2 DEF NextRecord, InboxTypeOK
<1> QED
  BY <1>1, <1>2

\* A notification that is written is one of the notifications.
LEMMA NoteType ==
  ASSUME NEW I, NEW T, NEW f \in [Publications -> [I -> T]],
         NEW p \in Publications, NEW v, NEW x \in T
  PROVE  [f EXCEPT ![p][v] = x] \in [Publications -> [I -> T]]
<1>1. [f[p] EXCEPT ![v] = x] \in [I -> T]
  OBVIOUS
<1> QED
  BY <1>1

LEMMA ObsoleteType ==
  ASSUME InboxTypeOK, NEW p \in Publications, MakeObsolete(p)
  PROVE  reminder' \in [Publications -> [Revisions -> [mark : Marks, says : 0..LastDate]]]
<1> DEFINE lapsed == [v \in Revisions |-> Lapsed(p, v)]
<1>1. lapsed \in [Revisions -> [mark : Marks, says : 0..LastDate]]
  <2> SUFFICES ASSUME NEW v \in Revisions
               PROVE  Lapsed(p, v) \in [mark : Marks, says : 0..LastDate]
    OBVIOUS
  <2>1. reminder[p][v] \in [mark : Marks, says : 0..LastDate]
    BY DEF InboxTypeOK
  <2> QED
    BY <2>1 DEF Lapsed, Marks
<1>2. reminder \in [Publications -> [Revisions -> [mark : Marks, says : 0..LastDate]]]
  BY DEF InboxTypeOK
<1>3. reminder' = [reminder EXCEPT ![p] = lapsed]
  BY DEF MakeObsolete
<1> HIDE DEF lapsed
<1> QED
  BY ONLY <1>1, <1>2, <1>3

LEMMA InboxTypeInit == InboxInit => InboxTypeOK
<1> SUFFICES ASSUME InboxInit PROVE InboxTypeOK
  OBVIOUS
<1>1. NoReminder \in [mark : Marks, says : 0..LastDate]
  BY InboxAssumption DEF NoReminder, Marks
<1> QED
  BY <1>1, NoPublicationType DEF InboxInit, InboxTypeOK, Marks

LEMMA InboxTypeStep == InboxTypeOK /\ [InboxNext]_inboxVars => InboxTypeOK'
<1> SUFFICES ASSUME InboxTypeOK, [InboxNext]_inboxVars PROVE InboxTypeOK'
  OBVIOUS
<1>1. CASE UNCHANGED inboxVars
  BY <1>1 DEF InboxTypeOK, inboxVars, notes, working
<1>2. CASE DatePasses
  BY <1>2 DEF DatePasses, InboxTypeOK, notes, working
<1>3. CASE Reads
  <2>1. PICK p \in Publications :
          \/ /\ \E v \in Revisions : reminder' = [reminder EXCEPT ![p][v].mark = "read"]
             /\ UNCHANGED notice
          \/ /\ \E s \in Told : notice' = [notice EXCEPT ![p][s] = "read"]
             /\ UNCHANGED reminder
    BY <1>3 DEF Reads
  <2>2. reminder' \in [Publications -> [Revisions -> [mark : Marks, says : 0..LastDate]]]
    <3>1. CASE UNCHANGED reminder
      BY <3>1 DEF InboxTypeOK
    <3>2. ASSUME NEW v \in Revisions, reminder' = [reminder EXCEPT ![p][v].mark = "read"]
          PROVE  reminder' \in [Publications -> [Revisions -> [mark : Marks, says : 0..LastDate]]]
      <4>1. reminder[p][v] \in [mark : Marks, says : 0..LastDate]
        BY DEF InboxTypeOK
      <4>2. [reminder[p][v] EXCEPT !.mark = "read"] \in [mark : Marks, says : 0..LastDate]
        BY <4>1 DEF Marks
      <4>3. reminder' = [reminder EXCEPT ![p][v] = [reminder[p][v] EXCEPT !.mark = "read"]]
        BY <3>2
      <4> QED
        BY <4>2, <4>3, NoteType DEF InboxTypeOK
    <3> QED
      BY <2>1, <3>1, <3>2
  <2>3. notice' \in [Publications -> [Told -> Marks]]
    <3>1. notice \in [Publications -> [Told -> Marks]] /\ "read" \in Marks
      BY DEF InboxTypeOK, Marks
    <3>2. \A s \in Told : [notice EXCEPT ![p][s] = "read"] \in [Publications -> [Told -> Marks]]
      BY <3>1, NoteType
    <3> QED
      BY <2>1, <3>1, <3>2
  <2> QED
    BY <1>3, <2>2, <2>3 DEF Reads, InboxTypeOK, working
<1>4. ASSUME NEW p \in Publications, Changes(p) PROVE InboxTypeOK'
  BY <1>4 DEF Changes, InboxTypeOK, notes, working
<1>5. CASE WorkerStarts \/ PassBegins
  BY <1>5 DEF WorkerStarts, PassBegins, InboxTypeOK, notes
<1>6. CASE PassReads
  <2> DEFINE S == PageAfter(cursor)
  <2>1. S \subseteq Publications
    BY DEF PageAfter
  <2>2. CASE S = {}
    <3>2. PageDone /\ cursor' = NextCursor(S)
      BY <1>6, <2>2 DEF PassReads
    <3>3. cursor' \in Nat
      BY <2>1, <3>2, CursorType
    <3> QED
      BY <1>6, <3>2, <3>3, PageDoneType DEF PassReads, InboxTypeOK, notes
  <2>3. CASE S # {}
    <3>1. /\ passAt' = "obsolete" /\ left' = S /\ UNCHANGED <<passNow, cursor>>
          /\ page' = [p \in Publications |-> IF p \in S THEN publication[p] ELSE NoPublication]
      BY <1>6, <2>3 DEF PassReads
    <3>2. page' \in [Publications -> Records]
      BY <3>1, NoPublicationType DEF InboxTypeOK
    <3> QED
      BY <1>6, <2>1, <3>1, <3>2 DEF PassReads, InboxTypeOK, notes
  <2> QED
    BY <2>2, <2>3
<1>7. ASSUME NEW p \in Publications, RemindersLapse(p) PROVE InboxTypeOK'
  BY <1>7, ObsoleteType DEF RemindersLapse, InboxTypeOK
<1>8. ASSUME NEW p \in Publications, NoteInserted(p) PROVE InboxTypeOK'
  <2>1. reminder' \in [Publications -> [Revisions -> [mark : Marks, says : 0..LastDate]]]
    <3>1. UNCHANGED reminder \/ reminder' = [reminder EXCEPT ![p][page[p].rev] =
                                                [mark |-> "unread", says |-> page[p].at]]
      BY <1>8 DEF NoteInserted, Remind, notes
    <3>2. page[p].at \in 0..LastDate
      BY DEF InboxTypeOK, Records
    <3>3. [mark |-> "unread", says |-> page[p].at] \in [mark : Marks, says : 0..LastDate]
      BY <3>2 DEF Marks
    <3>4. reminder \in [Publications -> [Revisions -> [mark : Marks, says : 0..LastDate]]]
      BY DEF InboxTypeOK
    <3>5. [reminder EXCEPT ![p][page[p].rev] = [mark |-> "unread", says |-> page[p].at]]
             \in [Publications -> [Revisions -> [mark : Marks, says : 0..LastDate]]]
      BY <3>3, <3>4, NoteType
    <3> QED
      BY <3>1, <3>4, <3>5
  <2>2. notice' \in [Publications -> [Told -> Marks]]
    <3>1. UNCHANGED notice \/ notice' = [notice EXCEPT ![p][page[p].status] = "unread"]
      BY <1>8 DEF NoteInserted, Tell, notes
    <3>2. notice \in [Publications -> [Told -> Marks]] /\ "unread" \in Marks
      BY DEF InboxTypeOK, Marks
    <3>3. [notice EXCEPT ![p][page[p].status] = "unread"] \in [Publications -> [Told -> Marks]]
      BY <3>2, NoteType
    <3> QED
      BY <3>1, <3>2, <3>3
  <2> QED
    BY <1>8, <2>1, <2>2, NextRecordType DEF NoteInserted, InboxTypeOK
<1>9. ASSUME NEW p \in Publications, RecordFails(p) PROVE InboxTypeOK'
  <2>1. reminder' \in [Publications -> [Revisions -> [mark : Marks, says : 0..LastDate]]]
    BY <1>9, ObsoleteType DEF RecordFails, InboxTypeOK
  <2> QED
    BY <1>9, <2>1, NextRecordType DEF RecordFails, Failure, InboxTypeOK
<1>10. CASE PassFails
  BY <1>10, PageDoneType DEF PassFails, Failure, InboxTypeOK, notes
<1>11. CASE WorkerDies
  BY <1>11, NoPublicationType DEF WorkerDies, Failure, InboxTypeOK, notes
<1> QED
  BY <1>1, <1>2, <1>3, <1>4, <1>5, <1>6, <1>7, <1>8, <1>9, <1>10, <1>11
  DEF InboxNext, WorkerPasses

\* What a pass holds and what the owner sees stay well typed.
THEOREM InboxTypeCorrect == InboxSpec => []InboxTypeOK
BY InboxTypeInit, InboxTypeStep, PTL DEF InboxSpec

LEMMA ReminderIs ==
  ASSUME InboxTypeOK, NEW p \in Publications, MakeObsolete(p),
         NEW q \in Publications, NEW v \in Revisions
  PROVE  /\ reminder'[q][v].says = reminder[q][v].says
         /\ reminder'[q][v].mark = "absent" <=> reminder[q][v].mark = "absent"
         /\ reminder[q][v].mark \in Shown /\ ~(q = p /\ IsSuperseded(p, v))
              => reminder'[q][v] = reminder[q][v]
<1>1. reminder[q][v] \in [mark : Marks, says : 0..LastDate]
  BY DEF InboxTypeOK
<1>2. reminder'[q][v] = IF q = p THEN Lapsed(p, v) ELSE reminder[q][v]
  BY DEF MakeObsolete, InboxTypeOK
<1> QED
  BY <1>1, <1>2 DEF Lapsed, Shown, Marks

\* A record that has changed as records do keeps what was known of it.
LEMMA ChangeStands ==
  ASSUME InboxTypeOK, PassInv, StandingReminderStands,
         UNCHANGED <<reminder, page, left>>,
         publication' \in [Publications -> Records],
         \A p \in Publications : publication'[p] = publication[p]
                                   \/ Succeeds(publication[p], publication'[p])
  PROVE  PassInv' /\ StandingReminderStands'
<1>1. SUFFICES ASSUME NEW p \in Publications
               PROVE
        /\ page[p].status # "none" =>
              /\ page[p].rev <= publication'[p].rev
              /\ publication'[p].status = "scheduled" /\ publication'[p].rev = page[p].rev
                   => page[p].status = "scheduled" /\ page[p].at = publication'[p].at
        /\ \A v \in Revisions : reminder[p][v].mark # "absent" => v <= publication'[p].rev
        /\ \A v \in Revisions :
              /\ publication'[p].status = "scheduled" /\ publication'[p].rev = v
              /\ reminder[p][v].mark # "absent"
              => reminder[p][v].mark \in Shown /\ reminder[p][v].says = publication'[p].at
  BY DEF PassInv, StandingReminderStands
<1> DEFINE r == publication[p]  s == publication'[p]  g == page[p]
<1>2. /\ r.rev \in Nat /\ s.rev \in Nat /\ g.rev \in Nat /\ Revisions \subseteq Nat
  BY InboxAssumption DEF InboxTypeOK, Records, Revisions
<1>3. \/ s = r
      \/ s.rev = r.rev /\ s.at = r.at /\ (s.status = "scheduled" => r.status = "scheduled")
      \/ s.rev = r.rev /\ s.status = "pending"
      \/ s.rev = r.rev + 1
  BY DEF Succeeds
<1>4. /\ g.status # "none" =>
            /\ g.rev <= r.rev
            /\ r.status = "scheduled" /\ r.rev = g.rev => g.status = "scheduled" /\ g.at = r.at
      /\ \A v \in Revisions : reminder[p][v].mark # "absent" => v <= r.rev
  BY DEF PassInv
<1>5. \A v \in Revisions :
         /\ r.status = "scheduled" /\ r.rev = v
         /\ reminder[p][v].mark # "absent"
         => reminder[p][v].mark \in Shown /\ reminder[p][v].says = r.at
  BY DEF StandingReminderStands
<1> HIDE DEF r, s, g
<1>6. /\ g.status # "none" =>
            /\ g.rev <= s.rev
            /\ s.status = "scheduled" /\ s.rev = g.rev => g.status = "scheduled" /\ g.at = s.at
      /\ \A v \in Revisions : reminder[p][v].mark # "absent" => v <= s.rev
  BY ONLY <1>2, <1>3, <1>4
<1>7. \A v \in Revisions :
         /\ s.status = "scheduled" /\ s.rev = v
         /\ reminder[p][v].mark # "absent"
         => reminder[p][v].mark \in Shown /\ reminder[p][v].says = s.at
  BY ONLY <1>2, <1>3, <1>4, <1>5
<1> QED
  BY ONLY <1>6, <1>7 DEF r, s, g

\* The end of a pass, and the next record of its page, lose nothing.
LEMMA PassStands ==
  ASSUME InboxTypeOK, PassInv,
         \/ PageDone
         \/ page' = page /\ left' \subseteq left
         \/ /\ page' = [p \in Publications |-> NoPublication] /\ left' = {}
  PROVE  \A p \in Publications :
            /\ page'[p].status # "none" => page'[p] = page[p]
            /\ p \in left' => p \in left /\ page'[p] = page[p]
BY DEF PageDone, NoPublication

LEMMA NextRecordStands ==
  ASSUME NEW p \in Publications, NextRecord(p)
  PROVE  PageDone \/ (page' = page /\ left' \subseteq left)
BY DEF NextRecord

\* A step of the worker that only makes reminders obsolete.
LEMMA LapseStands ==
  ASSUME InboxTypeOK, PassInv, StandingReminderStands, UNCHANGED publication,
         NEW p \in left, MakeObsolete(p),
         \A q \in Publications :
            /\ page'[q].status # "none" => page'[q] = page[q]
            /\ q \in left' => q \in left /\ page'[q] = page[q]
  PROVE  PassInv' /\ StandingReminderStands'
<1>0. p \in Publications
  BY DEF InboxTypeOK
<1>1. PassInv'
  BY <1>0, ReminderIs DEF PassInv
<1>2. StandingReminderStands'
  <2> SUFFICES ASSUME NEW q \in Publications, NEW v \in Revisions,
                      publication[q].status = "scheduled", publication[q].rev = v,
                      reminder'[q][v].mark # "absent"
               PROVE  reminder'[q][v].mark \in Shown /\ reminder'[q][v].says = publication[q].at
    BY DEF StandingReminderStands
  <2>1. reminder[q][v].mark # "absent"
    BY <1>0, ReminderIs
  <2>2. reminder[q][v].mark \in Shown /\ reminder[q][v].says = publication[q].at
    BY <2>1 DEF StandingReminderStands
  <2>3. ~(q = p /\ IsSuperseded(p, v))
    <3> SUFFICES ASSUME q = p PROVE ~IsSuperseded(p, v)
      OBVIOUS
    <3>1. /\ page[p].status # "none" /\ v <= page[p].rev /\ page[p].rev <= publication[p].rev
          /\ publication[p].rev = page[p].rev => page[p].status = "scheduled"
      BY <1>0, <2>1 DEF PassInv
    <3>2. page[p].rev \in Nat /\ publication[p].rev \in Nat /\ v \in Nat
      BY <1>0, InboxAssumption DEF InboxTypeOK, Records, Revisions
    <3>3. page[p].rev = v
      BY ONLY <3>1, <3>2, publication[q].rev = v, q = p
    <3> QED
      BY <3>1, <3>3 DEF IsSuperseded
  <2> QED
    BY <1>0, <2>2, <2>3, ReminderIs
<1> QED
  BY <1>1, <1>2

\* A step that reminds of the schedule that was read, if it does not leave them alone.
LEMMA RemindStands ==
  ASSUME InboxTypeOK, PassInv, StandingReminderStands, UNCHANGED publication,
         NEW p \in left, UNCHANGED reminder \/ (IsNear(p) /\ Remind(p)),
         \A q \in Publications :
            /\ page'[q].status # "none" => page'[q] = page[q]
            /\ q \in left' => q \in left /\ page'[q] = page[q]
  PROVE  PassInv' /\ StandingReminderStands'
<1>0. p \in Publications
  BY DEF InboxTypeOK
<1>1. CASE UNCHANGED reminder
  BY <1>1 DEF PassInv, StandingReminderStands
<1>2. CASE IsNear(p) /\ Remind(p) /\ reminder' # reminder
  <2> DEFINE w == page[p].rev
  <2>1. /\ reminder[p][w].mark = "absent"
        /\ reminder' = [reminder EXCEPT ![p][w] = [mark |-> "unread", says |-> page[p].at]]
    BY <1>2 DEF Remind
  <2>2. reminder \in [Publications -> [Revisions -> [mark : Marks, says : 0..LastDate]]]
    BY DEF InboxTypeOK
  <2>3. \A q \in Publications, v \in Revisions :
           /\ ~(q = p /\ v = w) => reminder'[q][v] = reminder[q][v]
           /\ q = p /\ v = w => reminder'[q][v] = [mark |-> "unread", says |-> page[p].at]
    BY ONLY <2>1, <2>2
  <2>4. w <= publication[p].rev /\ w \in Nat
    BY <1>0 DEF PassInv, InboxTypeOK, Records
  <2>5. PassInv'
    BY <2>3, <2>4 DEF PassInv
  <2>6. StandingReminderStands'
    BY <2>3, <2>4 DEF StandingReminderStands, PassInv, Shown
  <2> QED
    BY <2>5, <2>6
<1> QED
  BY <1>1, <1>2

LEMMA InboxInvInit == InboxInit => PassInv /\ StandingReminderStands
<1> SUFFICES ASSUME InboxInit PROVE PassInv /\ StandingReminderStands
  OBVIOUS
<1>1. \A p \in Publications, v \in Revisions : reminder[p][v].mark = "absent"
  BY DEF InboxInit, NoReminder
<1>2. \A p \in Publications : page[p].status = "none" /\ left = {}
  BY DEF InboxInit, NoPublication
<1> QED
  BY <1>1, <1>2 DEF PassInv, StandingReminderStands

LEMMA InboxInvStep ==
  InboxTypeOK /\ PassInv /\ StandingReminderStands /\ [InboxNext]_inboxVars
    => PassInv' /\ StandingReminderStands'
<1> SUFFICES ASSUME InboxTypeOK, PassInv, StandingReminderStands, [InboxNext]_inboxVars
             PROVE  PassInv' /\ StandingReminderStands'
  OBVIOUS
<1>1. CASE UNCHANGED <<publication, reminder, page, left>>
  BY <1>1 DEF PassInv, StandingReminderStands
<1>2. CASE Reads
  <2>1. \A p \in Publications, v \in Revisions : reminder[p][v] \in [mark : Marks, says : 0..LastDate]
    BY DEF InboxTypeOK
  <2>2. \A p \in Publications, v \in Revisions :
           /\ reminder'[p][v].says = reminder[p][v].says
           /\ reminder'[p][v].mark = "absent" <=> reminder[p][v].mark = "absent"
           /\ reminder[p][v].mark \in Shown => reminder'[p][v].mark \in Shown
    <3>1. CASE UNCHANGED reminder
      BY <3>1
    <3>2. ASSUME NEW p \in Publications, NEW v \in Revisions, reminder[p][v].mark = "unread",
                 reminder' = [reminder EXCEPT ![p][v].mark = "read"],
                 NEW q \in Publications, NEW w \in Revisions
          PROVE  /\ reminder'[q][w].says = reminder[q][w].says
                 /\ reminder'[q][w].mark = "absent" <=> reminder[q][w].mark = "absent"
                 /\ reminder[q][w].mark \in Shown => reminder'[q][w].mark \in Shown
      <4>1. CASE q = p /\ w = v
        <5>1. reminder'[q][w] = [reminder[q][w] EXCEPT !.mark = "read"]
          BY <3>2, <4>1 DEF InboxTypeOK
        <5> QED
          BY <2>1, <3>2, <4>1, <5>1 DEF Shown
      <4>2. CASE ~(q = p /\ w = v)
        <5>1. reminder'[q][w] = reminder[q][w]
          BY <3>2, <4>2 DEF InboxTypeOK
        <5> QED
          BY <5>1
      <4> QED
        BY <4>1, <4>2
    <3>3. UNCHANGED reminder \/ \E p \in Publications, v \in Revisions :
             reminder[p][v].mark = "unread" /\ reminder' = [reminder EXCEPT ![p][v].mark = "read"]
      BY <1>2 DEF Reads
    <3> QED
      BY <3>1, <3>2, <3>3
  <2>3. UNCHANGED <<publication, page, left>>
    BY <1>2 DEF Reads, working
  <2> QED
    BY <2>2, <2>3 DEF PassInv, StandingReminderStands
<1>3. ASSUME NEW p \in Publications, Changes(p)
      PROVE  PassInv' /\ StandingReminderStands'
  <2>1. PICK s \in Records : /\ Succeeds(publication[p], s)
                             /\ publication' = [publication EXCEPT ![p] = s]
    BY <1>3 DEF Changes
  <2>2. /\ publication' \in [Publications -> Records]
        /\ \A q \in Publications : publication'[q] = publication[q]
                                     \/ Succeeds(publication[q], publication'[q])
    BY <2>1 DEF InboxTypeOK
  <2>3. UNCHANGED <<reminder, page, left>>
    BY <1>3 DEF Changes, notes, working
  <2> QED
    BY <2>2, <2>3, ChangeStands
<1>4. ASSUME PageDone \/ (page' = page /\ left' \subseteq left)
               \/ (page' = [p \in Publications |-> NoPublication] /\ left' = {}),
             UNCHANGED <<publication, reminder>>
      PROVE  PassInv' /\ StandingReminderStands'
  BY <1>4, PassStands DEF PassInv, StandingReminderStands
<1>5. CASE PassReads
  <2>1. CASE PageDone
    BY <1>4, <1>5, <2>1 DEF PassReads, notes
  <2>2. CASE ~PageDone
    <3> DEFINE S == PageAfter(cursor)
    <3>1. /\ left' = S /\ UNCHANGED <<publication, reminder>>
          /\ page' = [p \in Publications |-> IF p \in S THEN publication[p] ELSE NoPublication]
      BY <1>5, <2>2 DEF PassReads, notes
    <3>2. \A p \in S : p \in Publications /\ publication[p].status # "none"
      BY DEF PageAfter
    <3> HIDE DEF S
    <3>3. \A p \in Publications :
             /\ p \in S => page'[p] = publication[p] /\ page'[p].status # "none"
             /\ p \notin S => page'[p].status = "none"
      BY <3>1, <3>2 DEF NoPublication
    <3>4. \A p \in Publications : publication[p].rev \in Nat
      BY InboxAssumption DEF InboxTypeOK, Records
    <3>5. StandingReminderStands'
      BY <3>1 DEF StandingReminderStands
    <3>6. PassInv'
      BY <3>1, <3>3, <3>4 DEF PassInv
    <3> QED
      BY <3>5, <3>6
  <2> QED
    BY <2>1, <2>2
<1>6. ASSUME NEW p \in left, PageDone \/ (page' = page /\ left' \subseteq left)
      PROVE  \A q \in Publications :
                /\ page'[q].status # "none" => page'[q] = page[q]
                /\ q \in left' => q \in left /\ page'[q] = page[q]
  BY <1>6, PassStands
<1>7. ASSUME NEW p \in Publications, RemindersLapse(p)
      PROVE  PassInv' /\ StandingReminderStands'
  <2>1. p \in left /\ MakeObsolete(p) /\ UNCHANGED <<publication, page, left>>
    BY <1>7 DEF RemindersLapse, IsNext
  <2> QED
    BY <1>6, <2>1, LapseStands
<1>8. ASSUME NEW p \in Publications, NoteInserted(p)
      PROVE  PassInv' /\ StandingReminderStands'
  <2>1. /\ p \in left /\ NextRecord(p) /\ UNCHANGED publication
        /\ UNCHANGED reminder \/ (IsNear(p) /\ Remind(p))
    BY <1>8 DEF NoteInserted, IsNext, notes
  <2>2. PageDone \/ (page' = page /\ left' \subseteq left)
    BY <2>1, NextRecordStands
  <2> QED
    BY <1>6, <2>1, <2>2, RemindStands
<1>9. ASSUME NEW p \in Publications, RecordFails(p)
      PROVE  PassInv' /\ StandingReminderStands'
  <2>1. /\ p \in left /\ NextRecord(p) /\ UNCHANGED publication
        /\ UNCHANGED reminder \/ MakeObsolete(p)
    BY <1>9 DEF RecordFails, IsNext
  <2>2. PageDone \/ (page' = page /\ left' \subseteq left)
    BY <2>1, NextRecordStands
  <2>3. CASE UNCHANGED reminder
    BY <1>6, <2>1, <2>2, <2>3, RemindStands
  <2>4. CASE MakeObsolete(p)
    BY <1>6, <2>1, <2>2, <2>4, LapseStands
  <2> QED
    BY <2>1, <2>3, <2>4
<1>10. CASE PassFails \/ WorkerDies
  BY <1>4, <1>10 DEF PassFails, WorkerDies, notes
<1>11. CASE DatePasses \/ WorkerStarts \/ PassBegins \/ UNCHANGED inboxVars
  BY <1>1, <1>11 DEF DatePasses, WorkerStarts, PassBegins, inboxVars, notes, working
<1> QED
  BY <1>2, <1>3, <1>5, <1>7, <1>8, <1>9, <1>10, <1>11 DEF InboxNext, WorkerPasses

\* While a schedule stands its reminder is shown and names its time, however old the page
\* is that a pass works from, whatever fails in it, and wherever it dies.
THEOREM ReminderStands == InboxSpec => []StandingReminderStands
BY InboxTypeInit, InboxTypeStep, InboxInvInit, InboxInvStep, PTL DEF InboxSpec

\* What Notifications expects of the publications is what all the handlers, workers and
\* failures of LinkedInPublication do to them.
THEOREM RecordsSucceed == Spec => [][\A k \in Keys : Succeeds(pub[k], pub'[k])]_vars
<1>1. TypeOK /\ IInv /\ [Next]_vars => [\A k \in Keys : Succeeds(pub[k], pub'[k])]_vars
  BY MonoStep DEF Mono
<1> QED
  BY <1>1, Invariance, PTL DEF Spec
=============================================================================
