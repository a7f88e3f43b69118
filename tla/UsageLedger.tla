----------------------------- MODULE UsageLedger -----------------------------
(***************************************************************************)
(* The AI usage ledger (repositories/usage.repository.ts under             *)
(* services/usage.service.ts): reservation documents, one per owner and    *)
(* operation key, and the quota windows their units are counted in, one    *)
(* per owner and day and one per day for the whole application.            *)
(*                                                                         *)
(* No transaction spans the documents: a request admits, dispatches and    *)
(* settles an operation through a series of single-document updates, each  *)
(* an action here, with any other request in between.  The unit a request  *)
(* has counted in a window before the reservation exists, or has still to  *)
(* take out of one after the reservation was settled, is in owe.           *)
(***************************************************************************)
EXTENDS Integers, FiniteSets

CONSTANTS
    Owners, App,    \* the scopes of quota windows: each owner, the application
    Keys,           \* the operations: an owner's operationKeys
    OwnerOf,        \* ownerId of an operation
    Family,         \* the operations an activeOperationKeyPrefix matches; {} without one
    Requests,
    Limit,          \* AI_DAILY_OPERATION_LIMIT
    AppLimit,       \* AI_APPLICATION_DAILY_OPERATION_LIMIT
    Ttl,            \* reservationTtlMs
    DayLength,
    MaxTime,        \* bound on the clock
    MaxFaults       \* bound on crashes and failed database calls

Days == 0..MaxTime
Day(t) == t \div DayLength

Scopes == Owners \cup {App}
LimitOf(s) == IF s = App THEN AppLimit ELSE Limit
ScopesOf(k) == {OwnerOf[k], App}

ASSUME LedgerAssumption ==
    /\ App \notin Owners
    /\ OwnerOf \in [Keys -> Owners]
    /\ Family \in [Keys -> SUBSET Keys]
    /\ Keys # {} /\ IsFiniteSet(Keys) /\ IsFiniteSet(Requests)
    /\ Limit \in Nat \ {0} /\ AppLimit \in Nat \ {0}
    /\ Ttl \in Nat \ {0} /\ DayLength \in Nat \ {0} /\ MaxTime \in Nat /\ MaxFaults \in Nat

VARIABLES
    clock,
    use,        \* the reservation of each operation
    reserved, completed,    \* the two counters of each quota window
    sent,       \* operations dispatched, counted in the windows they are charged to
    pc, key, now, win, known, owe,  \* a request's program counter and locals
    faults

quota == <<reserved, completed>>
locals == <<pc, key, now, win, known, owe>>
vars == <<clock, use, quota, sent, locals, faults>>

Statuses == {"none", "reserved", "dispatched", "completed", "released", "uncertain", "reconciled"}

Absent == [status |-> "none", win |-> 0, exp |-> 0, started |-> FALSE]

\* Any key: the one an idle request is not working on.
Nowhere == CHOOSE k \in Keys : TRUE

Init ==
    /\ clock = 0
    /\ use = [k \in Keys |-> Absent]
    /\ reserved = [w \in Scopes \X Days |-> 0]
    /\ completed = [w \in Scopes \X Days |-> 0]
    /\ sent = [w \in Scopes \X Days |-> 0]
    /\ pc = [p \in Requests |-> "idle"]
    /\ key = [p \in Requests |-> Nowhere]
    /\ now = [p \in Requests |-> 0]
    /\ win = [p \in Requests |-> 0]
    /\ known = [p \in Requests |-> FALSE]
    /\ owe = [p \in Requests |-> {}]
    /\ faults = 0

-----------------------------------------------------------------------------
Goto(p, label) == pc' = [pc EXCEPT ![p] = label]

\* The request answers or throws, and its locals are gone.
Leave(p) ==
    /\ Goto(p, "done")
    /\ key' = [key EXCEPT ![p] = Nowhere]
    /\ now' = [now EXCEPT ![p] = 0]
    /\ win' = [win EXCEPT ![p] = 0]
    /\ known' = [known EXCEPT ![p] = FALSE]
    /\ owe' = [owe EXCEPT ![p] = {}]

Doc(p) == use[key[p]]
Owner(p) == OwnerOf[key[p]]

\* An expired reservation that never reached a provider.
Lapsed(k, t) == use[k].status = "reserved" /\ ~use[k].started /\ use[k].exp <= t

\* The counter update every path ends with, refused by an empty counter.
Take(counter, s, d) == IF counter[<<s, d>>] > 0
                       THEN [counter EXCEPT ![<<s, d>>] = @ - 1] ELSE counter

\* Mutant: refunding forgets the application's window.
OwedOwnerOnly(k) == {OwnerOf[k]}

\* What a request has to take out of the windows of operation k.
Owed(k) == ScopesOf(k)

-----------------------------------------------------------------------------
(* admitAiOperation: reserveUsage.                                         *)

Admit(p, k) ==
    /\ pc[p] = "idle"
    /\ Goto(p, "recover")
    /\ key' = [key EXCEPT ![p] = k]
    /\ now' = [now EXCEPT ![p] = clock]
    /\ win' = [win EXCEPT ![p] = Day(clock)]
    /\ UNCHANGED <<clock, use, quota, sent, known, owe, faults>>

\* recoverExpiredReservations: one lapsed reservation of the window at a time,
\* whoever owns it, until none is left.
Recover(p) ==
    /\ pc[p] = "recover"
    /\ LET lapsed == {k \in Keys : Lapsed(k, now[p]) /\ use[k].win = win[p]}
       IN  \/ /\ lapsed = {}
              /\ Goto(p, IF Family[key[p]] = {} THEN "find" ELSE "active")
              /\ UNCHANGED <<use, owe>>
           \/ \E k \in lapsed :
                /\ use' = [use EXCEPT ![k].status = "released"]
                /\ owe' = [owe EXCEPT ![p] = Owed(k)]
                /\ Goto(p, "refundRecovered")
    /\ UNCHANGED <<clock, quota, sent, key, now, win, known, faults>>

\* Another attempt of the family is under way, or its outcome is unknown.
Active(k, t) ==
    \/ use[k].status \in {"dispatched", "uncertain"}
    \/ use[k].status = "reserved" /\ use[k].exp > t

CheckActive(p) ==
    /\ pc[p] = "active"
    /\ IF \E k \in Family[key[p]] : Active(k, now[p])
       THEN Leave(p)
       ELSE Goto(p, "find") /\ UNCHANGED <<key, now, win, known, owe>>
    /\ UNCHANGED <<clock, use, quota, sent, faults>>

\* A released reservation is charged to the window it was first made in.
Find(p) ==
    /\ pc[p] = "find"
    /\ \/ /\ Doc(p).status \in {"none", "released"}
          /\ Goto(p, "holdOwner")
          /\ known' = [known EXCEPT ![p] = Doc(p).status = "released"]
          /\ win' = [win EXCEPT ![p] = IF Doc(p).status = "released" THEN Doc(p).win ELSE @]
          /\ UNCHANGED <<key, now, owe>>
       \/ /\ Lapsed(key[p], now[p])
          /\ Goto(p, "extend")
          /\ UNCHANGED <<key, now, win, known, owe>>
       \/ /\ Doc(p).status \notin {"none", "released"}
          /\ ~Lapsed(key[p], now[p])
          /\ Leave(p)
    /\ UNCHANGED <<clock, use, quota, sent, faults>>

Extend(p) ==
    /\ pc[p] = "extend"
    /\ IF Lapsed(key[p], now[p])
       THEN /\ use' = [use EXCEPT ![key[p]].exp = now[p] + Ttl]
            /\ Goto(p, "admitted")
            /\ UNCHANGED <<key, now, win, known, owe>>
       ELSE Leave(p) /\ UNCHANGED use
    /\ UNCHANGED <<clock, quota, sent, faults>>

\* Mutant: the window may be filled one past its limit.
HasRoomInclusive(s, d) == reserved[<<s, d>>] + completed[<<s, d>>] <= LimitOf(s)

HasRoom(s, d) == reserved[<<s, d>>] + completed[<<s, d>>] < LimitOf(s)

\* reserveQuota: the owner's window, then the application's.
HoldOwner(p) ==
    /\ pc[p] = "holdOwner"
    /\ IF HasRoom(Owner(p), win[p])
       THEN /\ reserved' = [reserved EXCEPT ![<<Owner(p), win[p]>>] = @ + 1]
            /\ owe' = [owe EXCEPT ![p] = {Owner(p)}]
            /\ Goto(p, "holdApp")
            /\ UNCHANGED <<key, now, win, known>>
       ELSE Leave(p) /\ UNCHANGED reserved
    /\ UNCHANGED <<clock, use, completed, sent, faults>>

HoldApp(p) ==
    /\ pc[p] = "holdApp"
    /\ IF HasRoom(App, win[p])
       THEN /\ reserved' = [reserved EXCEPT ![<<App, win[p]>>] = @ + 1]
            /\ owe' = [owe EXCEPT ![p] = Owed(key[p])]
            /\ Goto(p, IF known[p] THEN "reopen" ELSE "create")
       ELSE Goto(p, "refund") /\ UNCHANGED <<reserved, owe>>
    /\ UNCHANGED <<clock, use, completed, sent, key, now, win, known, faults>>

\* The unit now belongs to the reservation.
Reserve(p) ==
    /\ use' = [use EXCEPT ![key[p]] = [status |-> "reserved", win |-> win[p],
                                       exp |-> now[p] + Ttl, started |-> FALSE]]
    /\ owe' = [owe EXCEPT ![p] = {}]
    /\ Goto(p, "admitted")

Create(p) ==
    /\ pc[p] = "create"
    /\ IF Doc(p).status = "none"
       THEN Reserve(p)
       ELSE Goto(p, "refund") /\ UNCHANGED <<use, owe>>
    /\ UNCHANGED <<clock, quota, sent, key, now, win, known, faults>>

Reopen(p) ==
    /\ pc[p] = "reopen"
    /\ IF Doc(p).status = "released"
       THEN Reserve(p)
       ELSE Goto(p, "refund") /\ UNCHANGED <<use, owe>>
    /\ UNCHANGED <<clock, quota, sent, key, now, win, known, faults>>

-----------------------------------------------------------------------------
(* markAiDispatched, and what its caller does with the provider's answer.  *)

\* Mutant: an operation already dispatched is dispatched again.
CanDispatchAgain(p) == Doc(p).status \in {"reserved", "dispatched"} /\ Doc(p).exp > clock

CanDispatch(p) == Doc(p).status = "reserved" /\ Doc(p).exp > clock

\* Both windows of operation k count one more.
CountSent(k) ==
    sent' = [w \in Scopes \X Days |->
                IF w[1] \in ScopesOf(k) /\ w[2] = use[k].win THEN sent[w] + 1 ELSE sent[w]]

Dispatch(p) ==
    /\ pc[p] = "admitted"
    /\ IF CanDispatch(p)
       THEN /\ use' = [use EXCEPT ![key[p]].status = "dispatched", ![key[p]].started = TRUE]
            /\ CountSent(key[p])
            /\ Goto(p, "call")
       ELSE Goto(p, "lapse") /\ UNCHANGED <<use, sent>>
    /\ UNCHANGED <<clock, quota, key, now, win, known, owe, faults>>

\* transitionUsage to a status that settles the operation; the windows follow.
Settle(p, status, label) ==
    /\ use' = [use EXCEPT ![key[p]].status = status]
    /\ win' = [win EXCEPT ![p] = Doc(p).win]
    /\ owe' = [owe EXCEPT ![p] = Owed(key[p])]
    /\ Goto(p, label)
    /\ UNCHANGED <<key, now, known>>

\* The dispatch was refused: the reservation is released if it is still there.
Lapse(p) ==
    /\ pc[p] = "lapse"
    /\ IF Doc(p).status = "reserved"
       THEN Settle(p, "released", "refund")
       ELSE Leave(p) /\ UNCHANGED use
    /\ UNCHANGED <<clock, quota, sent, faults>>

\* The provider call: an answer, a definite failure, or no knowing.
Call(p) ==
    /\ pc[p] = "call"
    /\ \E label \in {"complete", "release", "uncertain"} : Goto(p, label)
    /\ UNCHANGED <<clock, use, quota, sent, key, now, win, known, owe, faults>>

Complete(p) ==
    /\ pc[p] = "complete"
    /\ IF Doc(p).status = "dispatched"
       THEN Settle(p, "completed", "consume")
       ELSE Leave(p) /\ UNCHANGED use
    /\ UNCHANGED <<clock, quota, sent, faults>>

MarkUncertain(p) ==
    /\ pc[p] = "uncertain"
    /\ IF Doc(p).status = "dispatched"
       THEN Settle(p, "uncertain", "consume")
       ELSE Leave(p) /\ UNCHANGED use
    /\ UNCHANGED <<clock, quota, sent, faults>>

\* Mutant: releasing gives the unit back, dispatched or not.
ReleasedAlways(status) == "refund"

\* A released operation that was dispatched stays consumed.
Released(status) == IF status = "reserved" THEN "refund" ELSE "consume"

Release(p) ==
    /\ pc[p] = "release"
    /\ IF Doc(p).status \in {"reserved", "dispatched"}
       THEN Settle(p, "released", Released(Doc(p).status))
       ELSE Leave(p) /\ UNCHANGED use
    /\ UNCHANGED <<clock, quota, sent, faults>>

\* The two windows are updated side by side, in either order.
Refund(p) ==
    /\ pc[p] \in {"refundRecovered", "refund"}
    /\ \E s \in owe[p] :
          /\ reserved' = Take(reserved, s, win[p])
          /\ IF owe[p] = {s} /\ pc[p] = "refund"
             THEN Leave(p)
             ELSE /\ owe' = [owe EXCEPT ![p] = @ \ {s}]
                  /\ Goto(p, IF owe[p] = {s} THEN "recover" ELSE pc[p])
                  /\ UNCHANGED <<key, now, win, known>>
    /\ UNCHANGED <<clock, use, completed, sent, faults>>

Consume(p) ==
    /\ pc[p] = "consume"
    /\ \E s \in owe[p] :
          /\ reserved' = Take(reserved, s, win[p])
          /\ completed' = IF reserved[<<s, win[p]>>] > 0
                          THEN [completed EXCEPT ![<<s, win[p]>>] = @ + 1] ELSE completed
          /\ IF owe[p] = {s}
             THEN Leave(p)
             ELSE /\ owe' = [owe EXCEPT ![p] = @ \ {s}]
                  /\ UNCHANGED <<pc, key, now, win, known>>
    /\ UNCHANGED <<clock, use, sent, faults>>

\* reconcileUncertainGeneration, by an administrator: the counters stay.
Reconcile(k) ==
    /\ use[k].status = "uncertain" /\ use[k].exp <= clock /\ Family[k] # {}
    /\ use' = [use EXCEPT ![k].status = "reconciled"]
    /\ UNCHANGED <<clock, quota, sent, locals, faults>>

-----------------------------------------------------------------------------
(* Failures and time.                                                      *)

Fault == faults < MaxFaults /\ faults' = faults + 1

\* The process dies, or a database call throws out of the handler: what the
\* request owes stays counted.
Crash(p) ==
    /\ Fault
    /\ pc[p] \notin {"idle", "done"}
    /\ Leave(p)
    /\ UNCHANGED <<clock, use, quota, sent>>

\* Inside the caller's try block, a failed completion is followed by a release.
CompleteThrows(p) ==
    /\ Fault
    /\ pc[p] = "complete"
    /\ Goto(p, "release")
    /\ UNCHANGED <<clock, use, quota, sent, key, now, win, known, owe>>

\* The insert fails without effect: its catch block gives the units back.
CreateThrows(p) ==
    /\ Fault
    /\ pc[p] = "create"
    /\ Goto(p, "refund")
    /\ UNCHANGED <<clock, use, quota, sent, key, now, win, known, owe>>

\* The insert is applied but its answer is lost: to the catch block it looks the same.
CreateAnswerLost(p) ==
    /\ Fault
    /\ pc[p] = "create"
    /\ Doc(p).status = "none"
    /\ use' = [use EXCEPT ![key[p]] = [status |-> "reserved", win |-> win[p],
                                       exp |-> now[p] + Ttl, started |-> FALSE]]
    /\ Goto(p, "refund")
    /\ UNCHANGED <<clock, quota, sent, key, now, win, known, owe>>

Tick ==
    /\ clock < MaxTime
    /\ clock' = clock + 1
    /\ UNCHANGED <<use, quota, sent, locals, faults>>

RequestStep(p) ==
    \/ Recover(p) \/ CheckActive(p) \/ Find(p) \/ Extend(p)
    \/ HoldOwner(p) \/ HoldApp(p) \/ Create(p) \/ Reopen(p)
    \/ Dispatch(p) \/ Lapse(p) \/ Call(p)
    \/ Complete(p) \/ MarkUncertain(p) \/ Release(p)
    \/ Refund(p) \/ Consume(p)

Next ==
    \/ \E p \in Requests : RequestStep(p)
    \/ \E p \in Requests, k \in Keys : Admit(p, k)
    \/ \E p \in Requests : Crash(p) \/ CompleteThrows(p) \/ CreateThrows(p)
    \/ \E k \in Keys : Reconcile(k)
    \/ Tick

Spec == Init /\ [][Next]_vars

\* The same with ambiguous inserts.
LossySpec == Init /\ [][Next \/ \E p \in Requests : CreateAnswerLost(p)]_vars

-----------------------------------------------------------------------------
(* Properties.                                                             *)

DocType == [status : Statuses, win : Days, exp : Nat, started : BOOLEAN]

Labels == {"idle", "recover", "refundRecovered", "active", "find", "extend", "holdOwner",
           "holdApp", "create", "reopen", "admitted", "call", "lapse", "complete",
           "release", "uncertain", "refund", "consume", "done"}

Windows == Scopes \X Days

\* Every variable holds a value of the kind its document or local holds.
TypeOK ==
    /\ clock \in 0..MaxTime /\ faults \in Nat
    /\ use \in [Keys -> DocType]
    /\ reserved \in [Windows -> Nat] /\ completed \in [Windows -> Nat]
    /\ sent \in [Windows -> Nat]
    /\ pc \in [Requests -> Labels]
    /\ key \in [Requests -> Keys]
    /\ now \in [Requests -> 0..MaxTime] /\ win \in [Requests -> Days]
    /\ known \in [Requests -> BOOLEAN]
    /\ owe \in [Requests -> SUBSET Scopes]

Charged(k, w) == w[1] \in ScopesOf(k) /\ use[k].win = w[2]
Outstanding(w) == {k \in Keys : Charged(k, w) /\ use[k].status \in {"reserved", "dispatched"}}
Reservations(w) == {k \in Keys : Charged(k, w) /\ use[k].status = "reserved"}
Owing(w) == {p \in Requests : w[1] \in owe[p] /\ win[p] = w[2]}
Holding(w) == {p \in Owing(w) : pc[p] # "consume"}
Counted(w) == reserved[w] + completed[w]

\* However admissions, expiries, recoveries, retries and crashes interleave, no
\* more operations reach a provider on a window's account than its limit, neither
\* of an owner nor of the application.
WithinLimit == \A w \in Windows : sent[w] <= LimitOf(w[1])

\* README, AI usage: dispatched operations "are never automatically refunded".  What
\* reached a provider stays counted, whatever became of it.
NeverRefunded == \A w \in Windows : sent[w] <= Counted(w)

\* A window's reserved counter is what its open reservations and the requests in between
\* account for: however recoveries, refunds and settlements interleave, no unit is returned
\* twice, and none is lost but by a crash or a failed call, which loses at most one.
UnitsAccounted ==
    \A w \in Windows :
        LET due == Cardinality(Outstanding(w)) + Cardinality(Owing(w))
        IN  due <= reserved[w] /\ reserved[w] <= due + faults

\* However often a reservation expires, is extended, recovered or reopened, no two
\* requests have the same operation at a provider.
OneSender ==
    \A p, q \in Requests :
        /\ pc[p] \in {"call", "complete", "release", "uncertain"}
        /\ pc[q] \in {"call", "complete", "release", "uncertain"}
        /\ key[p] = key[q]
        => p = q

\* Why the first two hold.  The counters never pass the limit, and they cover every
\* reservation, every unit a request holds for one, and everything ever sent.
CoverInv ==
    \A w \in Windows :
        /\ Counted(w) <= LimitOf(w[1])
        /\ Cardinality(Reservations(w)) + Cardinality(Holding(w)) + sent[w] <= Counted(w)

\* A request that holds nothing owes nothing; one that holds a unit for its operation
\* holds it in the windows of that operation's owner and of the application.
OweInv ==
    \A p \in Requests :
        /\ pc[p] \notin {"holdApp", "create", "reopen", "refund", "refundRecovered", "consume"}
             => owe[p] = {}
        /\ pc[p] = "holdApp" => owe[p] = {Owner(p)}
        /\ pc[p] \in {"create", "reopen"} => owe[p] = ScopesOf(key[p])

\* Mutual exclusion rests on the reservation: its sender has it dispatched.
SenderInv ==
    \A p \in Requests :
        pc[p] \in {"call", "complete", "release", "uncertain"} => Doc(p).status = "dispatched"

IInv == CoverInv /\ OweInv /\ SenderInv /\ OneSender

\* Where an operation stands, seen from outside.
Phase(k) ==
    CASE use[k].status = "none" -> "new"
      [] use[k].status = "reserved" -> "held"
      [] use[k].status = "dispatched" -> "sent"
      [] use[k].status = "released" -> "free"
      [] OTHER -> "over"

ChargedWindows(k, d) == ScopesOf(k) \X {d}
RoomIn(w) == LimitOf(w[1])

Paid == INSTANCE PaidOperations
            WITH WindowsOf <- ChargedWindows, Room <- RoomIn,
                 phase <- [k \in Keys |-> Phase(k)], day <- [k \in Keys |-> use[k].win]

\* Every request, recovery, settlement and crash together keep PaidOperations' promise: an
\* operation is sent only while both windows of the day it is charged to have room, that
\* day never changes, and what was answered is not sent again.
ImplementsPaidOperations == Paid!PaidSpec

\* What it needs besides: whoever is about to reopen a reservation has its day.
ReopenInv ==
    \A p \in Requests :
        /\ pc[p] = "reopen" => known[p]
        /\ pc[p] \in {"holdOwner", "holdApp", "reopen"} /\ known[p]
             => Doc(p).status # "none" /\ win[p] = Doc(p).win
=============================================================================
