--------------------------- MODULE SignalGeneration ---------------------------
(***************************************************************************)
(* Drafts are generated from a Signal once: services/generation.service.ts *)
(* (createGenerationForSignal), services/signal.service.ts (edits) and     *)
(* repositories/signal.repository.ts.  One Signal of one owner; a request  *)
(* is one call of createGenerationForSignal and stands for its leaseId.    *)
(* The provider call is bracketed by the usage ledger, of which this       *)
(* module has the status of each attempt's operation (UsageLedger has the  *)
(* quotas), and a content workflow may store a Generation too.             *)
(***************************************************************************)
EXTENDS Integers

CONSTANTS
    None,           \* no lease, no request, no Generation
    Workflow,       \* the content workflow, as the author of a Generation
    Requests,       \* calls of createGenerationForSignal
    Editors,        \* calls of updateSignalForUser
    Servers, On,    \* API processes, and the one each request runs in
    LeaseLife,      \* 240 s
    Ttl,            \* 300 s, a usage reservation
    MaxTime,        \* bound on clock
    MaxRev,         \* bound on the Signal's revision
    MaxFaults       \* bound on crashes and failed calls

ASSUME SignalAssumption ==
    /\ On \in [Requests -> Servers]
    /\ None \notin Requests /\ Workflow \notin Requests /\ None # Workflow
    /\ LeaseLife \in Nat /\ Ttl \in Nat /\ MaxTime \in Nat
    /\ MaxRev \in Nat \ {0} /\ MaxFaults \in Nat

VARIABLES
    signal,         \* revision, whether generationId is set, lease, phase (its state), expires
    generation,     \* who stored it, and the revision of the Signal it was drafted from
    op, opExpires,  \* the usage operation of each attempt
    inFlight,       \* each process's map of running operations, at this Signal
    pending,        \* attempts whose insert may still be applied
    flows,          \* the revisions that running workflows draft from
    pc, now, snap,  \* a request's step, a time it took earlier, its Signal snapshot
    edit,           \* an edit's step, its time, the revision it expects
    clock, faults

locals == <<pc, now, snap>>
ledger == <<op, opExpires>>
vars == <<signal, generation, ledger, inFlight, pending, flows, locals, edit, clock, faults>>

Steps == {"idle", "reconcile", "reserve", "lookup", "admit", "create", "dispatch", "call",
          "complete", "doubt", "free", "begin", "insert", "lookupAfter", "mark",
          "markAgain", "release", "done", "dead"}
Unprotected == [lease |-> None, phase |-> "none", expires |-> 0]
Protection == [lease : Requests \cup {None}, phase : {"none", "generating", "persisting"},
               expires : 0..(MaxTime + LeaseLife)]

TypeOK ==
    /\ signal \in [revision : 1..MaxRev, generated : BOOLEAN, hold : Protection]
    /\ generation \in [by : Requests \cup {None, Workflow}, rev : 0..MaxRev]
    /\ op \in [Requests -> {"none", "reserved", "dispatched", "completed", "released", "uncertain",
                       "reconciled"}]
    /\ opExpires \in [Requests -> 0..(MaxTime + Ttl)]
    /\ inFlight \in [Servers -> Requests \cup {None}]
    /\ pending \subseteq Requests
    /\ flows \subseteq 1..MaxRev
    /\ pc \in [Requests -> Steps]
    /\ now \in [Requests -> 0..MaxTime]
    /\ snap \in [Requests -> 0..MaxRev]
    /\ edit \in [Editors -> [step : {"idle", "write", "done"}, now : 0..MaxTime, expected : 0..MaxRev]]
    /\ clock \in 0..MaxTime
    /\ faults \in 0..MaxFaults

Init ==
    /\ signal = [revision |-> 1, generated |-> FALSE, hold |-> Unprotected]
    /\ generation = [by |-> None, rev |-> 0]
    /\ op = [p \in Requests |-> "none"] /\ opExpires = [p \in Requests |-> 0]
    /\ inFlight = [s \in Servers |-> None]
    /\ pending = {} /\ flows = {}
    /\ pc = [p \in Requests |-> "idle"]
    /\ now = [p \in Requests |-> 0] /\ snap = [p \in Requests |-> 0]
    /\ edit = [e \in Editors |-> [step |-> "idle", now |-> 0, expected |-> 0]]
    /\ clock = 0 /\ faults = 0

Stored == generation.by # None
Store(author, rev) == generation' = [by |-> author, rev |-> rev]

\* A call of the database answers, or it is applied and its answer lost (or the next step
\* throws); the handler then goes on at caught.
Fault == faults < MaxFaults /\ faults' = faults + 1
Goes(p, next, caught) ==
    \/ pc' = [pc EXCEPT ![p] = next] /\ UNCHANGED faults
    \/ pc' = [pc EXCEPT ![p] = caught] /\ Fault

\* finally: the operation leaves the process's map.
Leave(p) ==
    inFlight' = [inFlight EXCEPT ![On[p]] = IF inFlight[On[p]] = p THEN None ELSE inFlight[On[p]]]

-----------------------------------------------------------------------------
(* The Signal's conditional updates (signal.repository.ts).                *)

\* Mutant: a persisting lease has no expiry, and a lease without one counts as over.
CanReservePersisting ==
    /\ ~signal.generated
    /\ \/ signal.hold.lease = None
       \/ signal.hold.expires <= clock

CanReserve ==
    /\ ~signal.generated
    /\ \/ signal.hold.lease = None
       \/ signal.hold.phase = "generating" /\ signal.hold.expires <= clock

CanPersist(p) ==
    /\ ~signal.generated /\ signal.revision = snap[p]
    /\ signal.hold.lease = p /\ signal.hold.phase = "generating"
    /\ signal.hold.expires > now[p]

\* markSignalGeneration and reconcileSignalGeneration.
Record(held) ==
    signal' = IF held /\ signal.hold.phase = "persisting"
              THEN [signal EXCEPT !.generated = TRUE, !.hold = Unprotected]
              ELSE signal

\* Mutant: the lease is released whatever its state.
FreeAny(p) ==
    signal' = IF signal.hold.lease = p
              THEN [signal EXCEPT !.hold = Unprotected] ELSE signal

\* releaseSignalGenerationLease
Free(p) ==
    signal' = IF signal.hold.lease = p /\ signal.hold.phase = "generating"
              THEN [signal EXCEPT !.hold = Unprotected] ELSE signal

\* Mutant: a lease whose time is over does not keep an edit out, a persisting one neither.
CanEditExpired(e) ==
    /\ signal.revision = edit[e].expected /\ ~signal.generated
    /\ signal.hold.lease = None \/ signal.hold.expires <= edit[e].now

CanEdit(e) ==
    /\ signal.revision = edit[e].expected /\ ~signal.generated
    /\ \/ signal.hold.lease = None
       \/ signal.hold.phase = "generating" /\ signal.hold.expires <= edit[e].now

-----------------------------------------------------------------------------
(* createGenerationForSignal.                                              *)

\* The reads of the Signal and its Generation, then, without another await, of the map:
\* a request that finds an operation running awaits that one and does nothing of its own.
Start(p) ==
    /\ pc[p] = "idle"
    /\ pc' = [pc EXCEPT ![p] = IF Stored THEN "reconcile"
                               ELSE IF inFlight[On[p]] # None THEN "done" ELSE "reserve"]
    /\ UNCHANGED <<signal, generation, ledger, inFlight, pending, flows, now, snap, edit, clock, faults>>

\* reconcileSignalProtection without a lease.
Reconcile(p) ==
    /\ pc[p] = "reconcile"
    /\ Record(~signal.generated)
    /\ pc' = [pc EXCEPT ![p] = "done"]
    /\ UNCHANGED <<generation, ledger, inFlight, pending, flows, now, snap, edit, clock, faults>>

\* reserveSignalForGeneration; the operation starts and enters the map.
Reserve(p) ==
    /\ pc[p] = "reserve"
    /\ \/ /\ CanReserve
          /\ signal' = [signal EXCEPT !.hold = [lease |-> p, phase |-> "generating",
                                                expires |-> clock + LeaseLife]]
          /\ \/ /\ pc' = [pc EXCEPT ![p] = "admit"]
                /\ snap' = [snap EXCEPT ![p] = signal.revision]
                /\ inFlight' = [inFlight EXCEPT ![On[p]] = p]
                /\ UNCHANGED faults
             \/ pc' = [pc EXCEPT ![p] = "done"] /\ Fault /\ UNCHANGED <<snap, inFlight>>
       \/ /\ ~CanReserve
          /\ pc' = [pc EXCEPT ![p] = "lookup"]
          /\ UNCHANGED <<signal, snap, inFlight, faults>>
    /\ UNCHANGED <<generation, ledger, pending, flows, now, edit, clock>>

\* The Generation a competing request may have stored meanwhile.
Lookup(p) ==
    /\ pc[p] = "lookup"
    /\ pc' = [pc EXCEPT ![p] = IF Stored THEN "reconcile" ELSE "done"]
    /\ UNCHANGED <<signal, generation, ledger, inFlight, pending, flows, now, snap, edit, clock, faults>>

-----------------------------------------------------------------------------
(* generateAndPersist: the bracket around the provider.                    *)

\* reserveUsage's search for an active operation with the Signal's prefix.
Active(q) == op[q] \in {"dispatched", "uncertain"} \/ (op[q] = "reserved" /\ opExpires[q] > clock)

\* Retrieval of knowledge, which may fail, and the first part of the admission.
Admit(p) ==
    /\ pc[p] = "admit"
    /\ \/ pc' = [pc EXCEPT ![p] = IF \E q \in Requests : Active(q) THEN "release" ELSE "create"]
       \/ pc' = [pc EXCEPT ![p] = "release"]
    /\ now' = [now EXCEPT ![p] = clock]
    /\ UNCHANGED <<signal, generation, ledger, inFlight, pending, flows, snap, edit, clock, faults>>

\* The reservation is made, or refused by a quota.
Create(p) ==
    /\ pc[p] = "create"
    /\ \/ /\ op' = [op EXCEPT ![p] = "reserved"]
          /\ opExpires' = [opExpires EXCEPT ![p] = now[p] + Ttl]
          /\ Goes(p, "dispatch", "release")
       \/ pc' = [pc EXCEPT ![p] = "release"] /\ UNCHANGED <<ledger, faults>>
    /\ UNCHANGED <<signal, generation, inFlight, pending, flows, now, snap, edit, clock>>

\* markAiDispatched
Dispatch(p) ==
    /\ pc[p] = "dispatch"
    /\ \/ /\ opExpires[p] > clock
          /\ op' = [op EXCEPT ![p] = "dispatched"]
          /\ Goes(p, "call", "release")
       \/ /\ opExpires[p] <= clock
          /\ op' = [op EXCEPT ![p] = "released"]
          /\ pc' = [pc EXCEPT ![p] = "release"] /\ UNCHANGED faults
    /\ UNCHANGED <<signal, generation, opExpires, inFlight, pending, flows, now, snap, edit, clock>>

\* mapUpstreamError: what the AI service's refusal becomes, by the code it names.
UpstreamErrors ==
    {<<503, "AI_SERVICE_UNAVAILABLE">>, <<503, "AI_PROVIDER_RATE_LIMITED">>,
     <<422, "AI_GENERATION_REFUSED">>, <<504, "AI_PROVIDER_TIMEOUT">>,
     <<502, "AI_INVALID_RESPONSE">>, <<502, "AI_SERVICE_ERROR">>}

\* AiServiceClient.generate: it was not reached, it did not answer in time, what it answered is
\* not three drafts of three angles, or it refused.
GenerateErrors ==
    UpstreamErrors \cup {<<503, "AI_SERVICE_UNAVAILABLE">>, <<504, "AI_SERVICE_TIMEOUT">>,
                         <<502, "AI_INVALID_RESPONSE">>}

\* After a timeout, or an error nobody can name, the provider may have done the work.
shouldMarkAiOperationUncertain(error) ==
    error[1] \in {504, 502} /\ error[2] # "AI_INVALID_RESPONSE"

\* The AI service answers, or the client throws.
Call(p) ==
    /\ pc[p] = "call"
    /\ \/ pc' = [pc EXCEPT ![p] = "complete"]
       \/ \E error \in GenerateErrors :
             pc' = [pc EXCEPT ![p] = IF shouldMarkAiOperationUncertain(error) THEN "doubt" ELSE "free"]
    /\ UNCHANGED <<signal, generation, ledger, inFlight, pending, flows, now, snap, edit, clock, faults>>

\* The outcome is written to the ledger; drafts that pass validation go on to be stored.
Settle(p, step, status, next) ==
    /\ pc[p] = step
    /\ op' = [op EXCEPT ![p] = status]
    /\ now' = [now EXCEPT ![p] = clock]
    /\ Goes(p, next, "release")
    /\ UNCHANGED <<signal, generation, opExpires, inFlight, pending, flows, snap, edit, clock>>

Complete(p) == \E next \in {"begin", "release"} : Settle(p, "complete", "completed", next)

Refuse(p) == Settle(p, "free", "released", "release")
Doubt(p) == Settle(p, "doubt", "uncertain", "release")

-----------------------------------------------------------------------------
(* generateAndPersist: storing the drafts.                                 *)

\* beginSignalGenerationPersistence
Begin(p) ==
    /\ pc[p] = "begin"
    /\ \/ /\ CanPersist(p)
          /\ signal' = [signal EXCEPT !.hold = [lease |-> p, phase |-> "persisting", expires |-> 0]]
          /\ Goes(p, "insert", "release")
       \/ /\ ~CanPersist(p)
          /\ pc' = [pc EXCEPT ![p] = "release"] /\ UNCHANGED <<signal, faults>>
    /\ UNCHANGED <<generation, ledger, inFlight, pending, flows, now, snap, edit, clock>>

\* createGeneration: stored; refused by the unique index; or failed, with the insert lost,
\* applied, or still on its way.
Insert(p) ==
    /\ pc[p] = "insert"
    /\ \/ ~Stored /\ Store(p, snap[p]) /\ Goes(p, "mark", "lookupAfter") /\ UNCHANGED pending
       \/ /\ Stored /\ pc' = [pc EXCEPT ![p] = "lookupAfter"]
          /\ UNCHANGED <<generation, pending, faults>>
       \/ /\ pc' = [pc EXCEPT ![p] = "lookupAfter"] /\ Fault
          /\ \E late \in SUBSET {p} : pending' = pending \cup late
          /\ UNCHANGED generation
    /\ UNCHANGED <<signal, ledger, inFlight, flows, now, snap, edit, clock>>

Arrive(p) ==
    /\ p \in pending
    /\ pending' = pending \ {p}
    /\ IF Stored THEN UNCHANGED generation ELSE Store(p, snap[p])
    /\ UNCHANGED <<signal, ledger, inFlight, flows, locals, edit, clock, faults>>

\* The catch block: without a Generation the outcome is unknown, and the lease is kept.
LookupAfter(p) ==
    /\ pc[p] = "lookupAfter"
    /\ \/ Stored /\ pc' = [pc EXCEPT ![p] = "markAgain"] /\ UNCHANGED inFlight
       \/ ~Stored /\ pc' = [pc EXCEPT ![p] = "done"] /\ Leave(p)
    /\ UNCHANGED <<signal, generation, ledger, pending, flows, now, snap, edit, clock, faults>>

\* markSignalGeneration, from the try block and from the catch block.
Mark(p) ==
    /\ pc[p] \in {"mark", "markAgain"}
    /\ Record(signal.hold.lease = p)
    /\ \/ pc' = [pc EXCEPT ![p] = "done"] /\ Leave(p) /\ UNCHANGED faults
       \/ /\ pc' = [pc EXCEPT ![p] = IF pc[p] = "mark" THEN "lookupAfter" ELSE "release"]
          /\ Fault /\ UNCHANGED inFlight
    /\ UNCHANGED <<generation, ledger, pending, flows, now, snap, edit, clock>>

\* finally, after an error: a call that fails here skips the rest of the block.
Release(p) ==
    /\ pc[p] = "release"
    /\ Free(p)
    /\ pc' = [pc EXCEPT ![p] = "done"]
    /\ \/ Leave(p) /\ UNCHANGED faults
       \/ Fault /\ UNCHANGED inFlight
    /\ UNCHANGED <<generation, ledger, pending, flows, now, snap, edit, clock>>

\* A call fails without being applied.
Fails(p) ==
    /\ pc[p] \in {"create", "dispatch", "complete", "doubt", "free", "begin", "lookupAfter",
                  "markAgain", "mark", "release", "reserve", "lookup", "reconcile"}
    /\ pc' = [pc EXCEPT ![p] =
                CASE pc[p] = "mark" -> "lookupAfter"
                  [] pc[p] \in {"release", "reserve", "lookup", "reconcile"} -> "done"
                  [] OTHER -> "release"]
    /\ Fault
    /\ UNCHANGED <<signal, generation, ledger, inFlight, pending, flows, now, snap, edit, clock>>

\* A process dies; an insert it had sent may still be applied.
Crash(s) ==
    /\ \E p \in Requests : On[p] = s /\ pc[p] \notin {"idle", "done", "dead"}
    /\ pc' = [p \in Requests |-> IF On[p] = s /\ pc[p] \notin {"idle", "done"} THEN "dead" ELSE pc[p]]
    /\ inFlight' = [inFlight EXCEPT ![s] = None]
    /\ \E late \in SUBSET {p \in Requests : On[p] = s /\ pc[p] = "insert"} :
           pending' = pending \cup late
    /\ Fault
    /\ UNCHANGED <<signal, generation, ledger, flows, now, snap, edit, clock>>

-----------------------------------------------------------------------------
(* The others.                                                             *)

\* updateSignalForUser: the checks, and the update by the revision its user saw.
EditCheck(e) ==
    /\ edit[e].step = "idle" /\ ~Stored
    /\ \/ signal.hold.lease = None
       \/ signal.hold.phase = "generating" /\ signal.hold.expires <= clock
    /\ edit' = [edit EXCEPT ![e] = [step |-> "write", now |-> clock, expected |-> signal.revision]]
    /\ UNCHANGED <<signal, generation, ledger, inFlight, pending, flows, locals, clock, faults>>

EditWrite(e) ==
    /\ edit[e].step = "write" /\ signal.revision < MaxRev
    /\ edit' = [edit EXCEPT ![e].step = "done"]
    /\ signal' = IF CanEdit(e) THEN [signal EXCEPT !.revision = signal.revision + 1] ELSE signal
    /\ UNCHANGED <<generation, ledger, inFlight, pending, flows, locals, clock, faults>>

\* reconcileUncertainGenerationForAdmin, in process s: refused while that process runs the
\* generation or the Signal has an unexpired lease, which a persisting one never is.
Reconciled(s, p) ==
    /\ op[p] = "uncertain" /\ opExpires[p] <= clock
    /\ inFlight[s] = None
    /\ ~(signal.hold.phase \in {"generating", "persisting"} /\ signal.hold.expires > clock)
    /\ op' = [op EXCEPT ![p] = "reconciled"]
    /\ UNCHANGED <<signal, generation, opExpires, inFlight, pending, flows, locals, edit, clock, faults>>

\* A content workflow takes its snapshot of the Signal when it is started, and stores its
\* Generation at the end, without a lease on the Signal.
FlowStart ==
    /\ signal.revision \notin flows
    /\ flows' = flows \cup {signal.revision}
    /\ UNCHANGED <<signal, generation, ledger, inFlight, pending, locals, edit, clock, faults>>

FlowStore ==
    /\ ~Stored
    /\ \E r \in flows : Store(Workflow, r)
    /\ UNCHANGED <<signal, ledger, inFlight, pending, flows, locals, edit, clock, faults>>

Tick ==
    /\ clock < MaxTime
    /\ clock' = clock + 1
    /\ UNCHANGED <<signal, generation, ledger, inFlight, pending, flows, locals, edit, faults>>

RequestStep(p) ==
    \/ Start(p) \/ Reconcile(p) \/ Reserve(p) \/ Lookup(p)
    \/ Admit(p) \/ Create(p) \/ Dispatch(p) \/ Call(p) \/ Complete(p) \/ Refuse(p) \/ Doubt(p)
    \/ Begin(p) \/ Insert(p) \/ Arrive(p) \/ LookupAfter(p) \/ Mark(p) \/ Release(p) \/ Fails(p)

Next ==
    \/ \E p \in Requests : RequestStep(p)
    \/ \E s \in Servers : Crash(s) \/ \E p \in Requests : Reconciled(s, p)
    \/ \E e \in Editors : EditCheck(e) \/ EditWrite(e)
    \/ FlowStart \/ FlowStore
    \/ Tick

Spec == Init /\ [][Next]_vars
-----------------------------------------------------------------------------
(* Properties.                                                             *)

\* demo-guide: "Validated output must atomically move that reservation to a non-expiring
\* persisting state before the Generation is saved."  Whatever expires, fails or is
\* delayed, an insert that can still take effect belongs to the persisting lease.
ProtectedInsert ==
    \A p \in Requests :
        pc[p] = "insert" \/ p \in pending =>
            Stored \/ (signal.hold.lease = p /\ signal.hold.phase = "persisting")

\* A Generation that is stored but not yet recorded in its Signal keeps the Signal
\* protected, also if the request that stored it failed or died.
StoredIsProtected ==
    generation.by \in Requests => signal.generated \/ signal.hold.phase = "persisting"

\* The drafts were made from the Signal as it is: no edit slips in between the snapshot
\* the provider was given and the stored Generation, nor after it.
GenerationIsCurrent == generation.by \in Requests => generation.rev = signal.revision

\* demo-guide: "Persisting protection blocks Signal edits and new claims until the
\* Generation ID is recorded": no release, claim or crash ends it otherwise.
ProtectionEndsInRecord ==
    [][signal.hold.phase = "persisting"
        => (signal'.hold = signal.hold \/ signal'.generated) /\ signal'.revision = signal.revision]_vars

\* What the persisting lease promises about its holder's snapshot, and who may record.
SnapshotInv ==
    /\ signal.hold.phase = "persisting" =>
           /\ signal.hold.lease \in Requests
           /\ snap[signal.hold.lease] = signal.revision
           /\ ~signal.generated
    /\ \A p \in Requests : pc[p] \in {"mark", "markAgain", "reconcile"} => Stored
    /\ signal.generated => Stored

IInv == ProtectedInsert /\ StoredIsProtected /\ GenerationIsCurrent /\ SnapshotInv
=============================================================================
