-------------------------- MODULE UsageLedgerProofs --------------------------
(***************************************************************************)
(* Theorems about UsageLedger, for every number of owners, operations and  *)
(* requests, every limit and every bound on the time and on the number of  *)
(* crashes and failed calls.                                               *)
(***************************************************************************)
EXTENDS UsageLedger, FiniteSetTheorems, TLAPS

USE LedgerAssumption DEF quota, locals

LEMMA DayInDays == ASSUME NEW t \in 0..MaxTime PROVE Day(t) \in Days
<1> DEFINE q == t \div DayLength
           r == t % DayLength
<1>1. t = DayLength * q + r /\ r \in Nat /\ q \in Int
  BY SMT
<1>2. q >= 0
  BY <1>1, SMT
<1>3. q <= t
  BY <1>1, <1>2, SMT
<1> QED
  BY <1>1, <1>2, <1>3 DEF Day, Days

LEMMA NowhereIsKey == Nowhere \in Keys
BY DEF Nowhere

LEMMA ScopesAreScopes == ASSUME NEW k \in Keys PROVE ScopesOf(k) \in SUBSET Scopes
BY DEF ScopesOf, Scopes

-----------------------------------------------------------------------------
(* Type correctness.                                                       *)

LEMMA InitType == Init => TypeOK
BY NowhereIsKey DEF Init, TypeOK, Days, Windows, DocType, Absent, Statuses, Labels

\* A request that answers resets its locals within their types.
LEMMA LeaveType ==
  ASSUME TypeOK, NEW p \in Requests, Leave(p)
  PROVE  /\ pc' \in [Requests -> Labels] /\ key' \in [Requests -> Keys]
         /\ now' \in [Requests -> 0..MaxTime] /\ win' \in [Requests -> Days]
         /\ known' \in [Requests -> BOOLEAN] /\ owe' \in [Requests -> SUBSET Scopes]
BY NowhereIsKey DEF TypeOK, Leave, Goto, Labels, Days

LEMMA GotoType ==
  ASSUME TypeOK, NEW p \in Requests, NEW l \in Labels, Goto(p, l)
  PROVE  pc' \in [Requests -> Labels]
BY DEF TypeOK, Goto

\* Every status a request settles with is one of the schema.
LEMMA SettleType ==
  ASSUME TypeOK, NEW p \in Requests, NEW s \in Statuses, NEW l \in Labels, Settle(p, s, l)
  PROVE  /\ use' \in [Keys -> DocType]
         /\ pc' \in [Requests -> Labels] /\ key' \in [Requests -> Keys]
         /\ now' \in [Requests -> 0..MaxTime] /\ win' \in [Requests -> Days]
         /\ known' \in [Requests -> BOOLEAN] /\ owe' \in [Requests -> SUBSET Scopes]
<1>1. key[p] \in Keys /\ Doc(p) \in DocType
  BY DEF TypeOK, Doc
<1>2. use' \in [Keys -> DocType]
  <2>1. [use[key[p]] EXCEPT !.status = s] \in DocType
    BY <1>1 DEF DocType, Doc
  <2> QED
    BY <1>1, <2>1 DEF Settle, TypeOK
<1>3. pc' \in [Requests -> Labels]
  BY GotoType DEF Settle
<1>4. Doc(p).win \in Days /\ Owed(key[p]) \in SUBSET Scopes
  BY <1>1, ScopesAreScopes DEF DocType, Owed
<1> QED
  BY <1>2, <1>3, <1>4 DEF Settle, TypeOK

LEMMA TakeType ==
  ASSUME NEW c \in [Windows -> Nat], NEW s \in Scopes, NEW d \in Days
  PROVE  Take(c, s, d) \in [Windows -> Nat]
<1>1. <<s, d>> \in Windows
  BY DEF Windows
<1>2. CASE c[<<s, d>>] > 0
  <2>1. c[<<s, d>>] - 1 \in Nat
    BY <1>1, <1>2
  <2> QED
    BY <1>1, <1>2, <2>1 DEF Take
<1>3. CASE ~(c[<<s, d>>] > 0)
  BY <1>3 DEF Take
<1> QED
  BY <1>2, <1>3

\* The record both paths of a new reservation write.
LEMMA ReserveType ==
  ASSUME TypeOK, NEW p \in Requests, Reserve(p)
  PROVE  /\ use' \in [Keys -> DocType]
         /\ pc' \in [Requests -> Labels]
         /\ owe' \in [Requests -> SUBSET Scopes]
<1> DEFINE r == [status |-> "reserved", win |-> win[p], exp |-> now[p] + Ttl, started |-> FALSE]
<1>1. r \in DocType
  <2>1. win[p] \in Days /\ now[p] + Ttl \in Nat /\ "reserved" \in Statuses
    BY DEF TypeOK, Statuses
  <2> QED
    BY <2>1 DEF DocType
<1>2. use' = [use EXCEPT ![key[p]] = r] /\ key[p] \in Keys
  BY DEF Reserve, TypeOK
<1>3. "admitted" \in Labels
  BY DEF Labels
<1> QED
  BY <1>1, <1>2, <1>3, GotoType DEF Reserve, TypeOK

\* One field of a reservation is written.
LEMMA FieldType ==
  ASSUME NEW f \in [Keys -> DocType], NEW k \in Keys
  PROVE  /\ \A s \in Statuses : [f EXCEPT ![k].status = s] \in [Keys -> DocType]
         /\ \A e \in Nat : [f EXCEPT ![k].exp = e] \in [Keys -> DocType]
         /\ [f EXCEPT ![k].status = "dispatched", ![k].started = TRUE] \in [Keys -> DocType]
<1>1. f[k] \in DocType
  OBVIOUS
<1>2. \A s \in Statuses : [f[k] EXCEPT !.status = s] \in DocType
  BY <1>1 DEF DocType
<1>3. \A e \in Nat : [f[k] EXCEPT !.exp = e] \in DocType
  BY <1>1 DEF DocType
<1>4. [f[k] EXCEPT !.status = "dispatched", !.started = TRUE] \in DocType
  BY <1>1 DEF DocType, Statuses
<1> QED
  BY <1>2, <1>3, <1>4

LEMMA RecoverType == ASSUME TypeOK, NEW p \in Requests, Recover(p) PROVE TypeOK'
<1>1. UNCHANGED <<clock, quota, sent, key, now, win, known, faults>>
  BY DEF Recover
<1>2. CASE use' = use /\ owe' = owe
  <2>1. \E l \in {"find", "active"} : Goto(p, l)
    BY <1>2 DEF Recover, Goto, TypeOK, Lapsed, DocType, Statuses
  <2>2. pc' \in [Requests -> Labels]
    BY <2>1, GotoType DEF Labels
  <2> QED
    BY <1>1, <1>2, <2>2 DEF TypeOK
<1>3. ASSUME NEW k \in Keys,
             use' = [use EXCEPT ![k].status = "released"],
             owe' = [owe EXCEPT ![p] = Owed(k)], Goto(p, "refundRecovered")
      PROVE  TypeOK'
  <2>1. use' \in [Keys -> DocType]
    BY <1>3, FieldType DEF TypeOK, Statuses
  <2>2. owe' \in [Requests -> SUBSET Scopes]
    BY <1>3, ScopesAreScopes DEF TypeOK, Owed
  <2>3. pc' \in [Requests -> Labels]
    BY <1>3, GotoType DEF Labels
  <2> QED
    BY <1>1, <2>1, <2>2, <2>3 DEF TypeOK
<1> QED
  BY <1>2, <1>3 DEF Recover

LEMMA SearchType ==
  ASSUME TypeOK, NEW p \in Requests, CheckActive(p) \/ Find(p) \/ Extend(p)
  PROVE  TypeOK'
<1>1. CASE CheckActive(p)
  <2>1. "find" \in Labels
    BY DEF Labels
  <2> QED
    BY <1>1, <2>1, LeaveType, GotoType DEF CheckActive, TypeOK
<1>2. CASE Find(p)
  <2>1. "holdOwner" \in Labels /\ "extend" \in Labels
    BY DEF Labels
  <2>2. Doc(p).win \in Days
    BY DEF Doc, TypeOK, DocType
  <2>3. CASE Leave(p)
    BY <1>2, <2>3, LeaveType DEF Find, TypeOK
  <2>4. CASE Goto(p, "holdOwner") /\ UNCHANGED <<key, now, owe>>
             /\ known' = [known EXCEPT ![p] = Doc(p).status = "released"]
             /\ win' = [win EXCEPT ![p] = IF Doc(p).status = "released" THEN Doc(p).win ELSE @]
    <3>1. known' \in [Requests -> BOOLEAN]
      BY <2>4 DEF TypeOK
    <3>2. win' \in [Requests -> Days]
      BY <2>2, <2>4 DEF TypeOK
    <3> QED
      BY <1>2, <2>1, <2>4, <3>1, <3>2, GotoType DEF Find, TypeOK
  <2>5. CASE Goto(p, "extend") /\ UNCHANGED <<key, now, win, known, owe>>
    BY <1>2, <2>1, <2>5, GotoType DEF Find, TypeOK
  <2> QED
    BY <1>2, <2>3, <2>4, <2>5 DEF Find
<1>3. CASE Extend(p)
  <2>1. "admitted" \in Labels /\ now[p] + Ttl \in Nat /\ key[p] \in Keys
    BY DEF Labels, TypeOK
  <2>2. use' \in [Keys -> DocType]
    <3>1. use \in [Keys -> DocType]
      BY DEF TypeOK
    <3>2. [use EXCEPT ![key[p]].exp = now[p] + Ttl] \in [Keys -> DocType]
      BY <2>1, <3>1, FieldType
    <3> QED
      BY <1>3, <3>1, <3>2 DEF Extend
  <2> QED
    BY <1>3, <2>1, <2>2, LeaveType, GotoType DEF Extend, TypeOK
<1> QED
  BY <1>1, <1>2, <1>3

LEMMA HoldType ==
  ASSUME TypeOK, NEW p \in Requests, HoldOwner(p) \/ HoldApp(p)
  PROVE  TypeOK'
<1>1. ASSUME NEW s \in Scopes
      PROVE  [reserved EXCEPT ![<<s, win[p]>>] = @ + 1] \in [Windows -> Nat]
  <2>1. <<s, win[p]>> \in Windows
    BY DEF TypeOK, Windows
  <2> QED
    BY <2>1 DEF TypeOK
<1>2. Owner(p) \in Scopes /\ App \in Scopes /\ Owed(key[p]) \in SUBSET Scopes
  BY ScopesAreScopes DEF Owner, Scopes, Owed, TypeOK
<1>3. {"holdApp", "reopen", "create", "refund"} \in SUBSET Labels
  BY DEF Labels
<1>4. CASE HoldOwner(p)
  <2>1. CASE HasRoom(Owner(p), win[p])
    <3>1. pc' \in [Requests -> Labels]
      BY <1>3, <1>4, <2>1, GotoType DEF HoldOwner
    <3>2. reserved' \in [Windows -> Nat]
      <4>1. reserved' = [reserved EXCEPT ![<<Owner(p), win[p]>>] = @ + 1]
        BY <1>4, <2>1 DEF HoldOwner
      <4> QED
        BY ONLY <1>1, <1>2, <4>1
    <3>3. owe' \in [Requests -> SUBSET Scopes]
      BY <1>2, <1>4, <2>1 DEF HoldOwner, TypeOK
    <3> QED
      BY <1>4, <2>1, <3>1, <3>2, <3>3 DEF HoldOwner, TypeOK
  <2>2. CASE ~HasRoom(Owner(p), win[p])
    BY <1>4, <2>2, LeaveType DEF HoldOwner, TypeOK
  <2> QED
    BY <2>1, <2>2
<1>5. CASE HoldApp(p)
  <2>1. CASE HasRoom(App, win[p])
    <3>1. pc' \in [Requests -> Labels]
      BY <1>3, <1>5, <2>1, GotoType DEF HoldApp
    <3>2. reserved' \in [Windows -> Nat] /\ owe' \in [Requests -> SUBSET Scopes]
      BY <1>1, <1>2, <1>5, <2>1 DEF HoldApp, TypeOK
    <3> QED
      BY <1>5, <3>1, <3>2 DEF HoldApp, TypeOK
  <2>2. CASE ~HasRoom(App, win[p])
    BY <1>3, <1>5, <2>2, GotoType DEF HoldApp, TypeOK
  <2> QED
    BY <2>1, <2>2
<1> QED
  BY <1>4, <1>5

LEMMA CreateType ==
  ASSUME TypeOK, NEW p \in Requests, Create(p) \/ Reopen(p)
  PROVE  TypeOK'
<1>1. "refund" \in Labels
  BY DEF Labels
<1> QED
  BY <1>1, ReserveType, GotoType DEF Create, Reopen, TypeOK

LEMMA DispatchType ==
  ASSUME TypeOK, NEW p \in Requests, Dispatch(p) \/ Call(p)
  PROVE  TypeOK'
<1>1. CASE Dispatch(p)
  <2>1. "call" \in Labels /\ "lapse" \in Labels /\ key[p] \in Keys
    BY DEF Labels, TypeOK
  <2>2. use' \in [Keys -> DocType]
    <3>1. use \in [Keys -> DocType]
      BY DEF TypeOK
    <3>2. [use EXCEPT ![key[p]].status = "dispatched", ![key[p]].started = TRUE]
            \in [Keys -> DocType]
      BY <2>1, <3>1, FieldType
    <3> QED
      BY <1>1, <3>1, <3>2 DEF Dispatch
  <2>3. sent' \in [Windows -> Nat]
    <3>1. CASE CountSent(key[p])
      BY <3>1 DEF CountSent, TypeOK, Windows
    <3>2. CASE sent' = sent
      BY <3>2 DEF TypeOK
    <3> QED
      BY <1>1, <3>1, <3>2 DEF Dispatch
  <2> QED
    BY <1>1, <2>1, <2>2, <2>3, GotoType DEF Dispatch, TypeOK
<1>2. CASE Call(p)
  <2>1. {"complete", "release", "uncertain"} \in SUBSET Labels
    BY DEF Labels
  <2> QED
    BY <1>2, <2>1, GotoType DEF Call, TypeOK
<1> QED
  BY <1>1, <1>2

LEMMA SettlingType ==
  ASSUME TypeOK, NEW p \in Requests, Lapse(p) \/ Complete(p) \/ MarkUncertain(p) \/ Release(p)
  PROVE  TypeOK'
<1>1. {"released", "completed", "uncertain"} \in SUBSET Statuses
  BY DEF Statuses
<1>2. {"refund", "consume"} \in SUBSET Labels
  BY DEF Labels
<1>3. \A s : Released(s) \in {"refund", "consume"}
  BY DEF Released
<1>4. \/ \E s \in Statuses, l \in Labels : Settle(p, s, l)
      \/ Leave(p) /\ UNCHANGED use
  BY <1>1, <1>2, <1>3 DEF Lapse, Complete, MarkUncertain, Release
<1>5. UNCHANGED <<clock, quota, sent, faults>>
  BY DEF Lapse, Complete, MarkUncertain, Release
<1>6. CASE Leave(p) /\ UNCHANGED use
  BY <1>5, <1>6, LeaveType DEF TypeOK
<1>7. CASE \E s \in Statuses, l \in Labels : Settle(p, s, l)
  BY <1>5, <1>7, SettleType DEF TypeOK
<1> QED
  BY <1>4, <1>6, <1>7

LEMMA ReturnType ==
  ASSUME TypeOK, NEW p \in Requests, Refund(p) \/ Consume(p)
  PROVE  TypeOK'
<1>1. PICK s \in owe[p] :
        /\ reserved' = Take(reserved, s, win[p])
        /\ completed' \in {completed, [completed EXCEPT ![<<s, win[p]>>] = @ + 1]}
        /\ \/ Leave(p)
           \/ /\ owe' = [owe EXCEPT ![p] = @ \ {s}]
              /\ \E l \in {"recover", pc[p]} : Goto(p, l)
              /\ UNCHANGED <<key, now, win, known>>
        /\ UNCHANGED <<clock, use, sent, faults>>
  <2>1. CASE Refund(p)
    BY <2>1 DEF Refund
  <2>2. CASE Consume(p)
    <3>1. pc \in [Requests -> Labels]
      BY DEF TypeOK
    <3>2. ASSUME UNCHANGED pc PROVE Goto(p, pc[p])
      BY <3>1, <3>2 DEF Goto
    <3> QED
      BY <2>2, <3>2 DEF Consume
  <2> QED
    BY <2>1, <2>2
<1>2. s \in Scopes /\ win[p] \in Days /\ <<s, win[p]>> \in Windows
  BY DEF TypeOK, Windows
<1>3. reserved' \in [Windows -> Nat]
  BY <1>1, <1>2, TakeType DEF TypeOK
<1>4. completed' \in [Windows -> Nat]
  BY <1>1, <1>2 DEF TypeOK
<1>5. CASE Leave(p)
  BY <1>1, <1>3, <1>4, <1>5, LeaveType DEF TypeOK
<1>6. CASE /\ owe' = [owe EXCEPT ![p] = @ \ {s}]
           /\ \E l \in {"recover", pc[p]} : Goto(p, l)
           /\ UNCHANGED <<key, now, win, known>>
  <2>1. pc' \in [Requests -> Labels]
    <3>1. pc[p] \in Labels /\ "recover" \in Labels
      BY DEF TypeOK, Labels
    <3> QED
      BY <1>6, <3>1, GotoType
  <2>2. owe' \in [Requests -> SUBSET Scopes]
    BY <1>6 DEF TypeOK
  <2> QED
    BY <1>1, <1>3, <1>4, <1>6, <2>1, <2>2 DEF TypeOK
<1> QED
  BY <1>1, <1>5, <1>6

LEMMA EnvironmentType ==
  ASSUME TypeOK, Next,
         \/ \E p \in Requests, k \in Keys : Admit(p, k)
         \/ \E p \in Requests : Crash(p) \/ CompleteThrows(p) \/ CreateThrows(p)
         \/ \E k \in Keys : Reconcile(k)
         \/ Tick
  PROVE  TypeOK'
<1>1. ASSUME NEW p \in Requests, NEW k \in Keys, Admit(p, k) PROVE TypeOK'
  <2>1. Day(clock) \in Days
    BY DayInDays DEF TypeOK
  <2>2. pc' \in [Requests -> Labels]
    BY <1>1, GotoType DEF Admit, Labels
  <2> QED
    BY <1>1, <2>1, <2>2 DEF Admit, TypeOK
<1>2. ASSUME NEW p \in Requests, Crash(p) PROVE TypeOK'
  BY <1>2, LeaveType DEF Crash, Fault, TypeOK
<1>3. ASSUME NEW p \in Requests, CompleteThrows(p) \/ CreateThrows(p) PROVE TypeOK'
  <2>1. pc' \in [Requests -> Labels]
    BY <1>3, GotoType DEF CompleteThrows, CreateThrows, Labels
  <2> QED
    BY <1>3, <2>1 DEF CompleteThrows, CreateThrows, Fault, TypeOK
<1>4. ASSUME NEW k \in Keys, Reconcile(k) PROVE TypeOK'
  BY <1>4, FieldType DEF Reconcile, TypeOK, Statuses
<1>5. CASE Tick
  BY <1>5 DEF Tick, TypeOK
<1> QED
  BY <1>1, <1>2, <1>3, <1>4, <1>5

LEMMA NextType == TypeOK /\ [Next]_vars => TypeOK'
<1> SUFFICES ASSUME TypeOK, [Next]_vars PROVE TypeOK'
  OBVIOUS
<1>1. ASSUME NEW p \in Requests, RequestStep(p) PROVE TypeOK'
  BY <1>1, RecoverType, SearchType, HoldType, CreateType, DispatchType, SettlingType,
     ReturnType DEF RequestStep
<1>2. CASE UNCHANGED vars
  BY <1>2 DEF vars, TypeOK
<1> QED
  BY <1>1, <1>2, EnvironmentType DEF Next

\* Every reachable state of reserveUsage and transitionUsage is well typed: no status
\* outside the schema, no counter below zero, no unit owed to an unknown window.
THEOREM TypeCorrect == Spec => []TypeOK
<1>1. Init => TypeOK
  BY InitType
<1>2. TypeOK /\ [Next]_vars => TypeOK'
  BY NextType
<1> QED
  BY <1>1, <1>2, PTL DEF Spec

-----------------------------------------------------------------------------
(* Counting.  A step of one request moves at most that request in or out   *)
(* of the holders of a window, and at most one reservation.                *)

Bit(b) == IF b THEN 1 ELSE 0

\* Request p holds a unit of window w, operation k a reservation in it.
Holds(p, w) == w[1] \in owe[p] /\ win[p] = w[2] /\ pc[p] # "consume"
Keeps(k, w) == Charged(k, w) /\ use[k].status = "reserved"

\* Two subsets that differ at most in x differ in size by what x contributes.
LEMMA OneApart ==
  ASSUME NEW S, IsFiniteSet(S), NEW A \in SUBSET S, NEW B \in SUBSET S, NEW x,
         A \ {x} = B \ {x}
  PROVE  /\ Cardinality(A) \in Nat /\ Cardinality(B) \in Nat
         /\ Cardinality(A) + Bit(x \in B) = Cardinality(B) + Bit(x \in A)
<1>1. IsFiniteSet(A) /\ IsFiniteSet(B)
  BY FS_Subset
<1>2. Cardinality(A) \in Nat /\ Cardinality(B) \in Nat
  BY <1>1, FS_CardinalityType
<1>3. Cardinality(A \ {x}) = IF x \in A THEN Cardinality(A) - 1 ELSE Cardinality(A)
  BY ONLY <1>1, FS_RemoveElement
<1>4. Cardinality(B \ {x}) = IF x \in B THEN Cardinality(B) - 1 ELSE Cardinality(B)
  BY ONLY <1>1, FS_RemoveElement
<1>5. (IF x \in A THEN Cardinality(A) - 1 ELSE Cardinality(A))
        = (IF x \in B THEN Cardinality(B) - 1 ELSE Cardinality(B))
  BY ONLY <1>3, <1>4, A \ {x} = B \ {x}
<1> QED
  BY ONLY <1>2, <1>5 DEF Bit

LEMMA HoldingStep ==
  ASSUME NEW p \in Requests, NEW w,
         \A q \in Requests \ {p} : owe'[q] = owe[q] /\ win'[q] = win[q] /\ pc'[q] = pc[q]
  PROVE  /\ Cardinality(Holding(w)) \in Nat /\ Cardinality(Holding(w)') \in Nat
         /\ Cardinality(Holding(w)) + Bit(Holds(p, w)') = Cardinality(Holding(w)') + Bit(Holds(p, w))
<1> DEFINE A == Holding(w)
           B == Holding(w)'
<1>1. A = {q \in Requests : Holds(q, w)} /\ B = {q \in Requests : Holds(q, w)'}
  BY DEF Holding, Owing, Holds
<1>2. A \ {p} = B \ {p}
  BY <1>1 DEF Holds
<1>3. (p \in A <=> Holds(p, w)) /\ (p \in B <=> Holds(p, w)')
  BY <1>1
<1>4. A \in SUBSET Requests /\ B \in SUBSET Requests
  BY <1>1
<1> HIDE DEF A, B
<1>5. /\ Cardinality(A) \in Nat /\ Cardinality(B) \in Nat
      /\ Cardinality(A) + Bit(p \in B) = Cardinality(B) + Bit(p \in A)
  BY <1>2, <1>4, OneApart
<1> QED
  BY <1>3, <1>5 DEF A, B, Bit

LEMMA KeepingStep ==
  ASSUME NEW k \in Keys, NEW w,
         \A j \in Keys \ {k} : use'[j] = use[j]
  PROVE  /\ Cardinality(Reservations(w)) \in Nat /\ Cardinality(Reservations(w)') \in Nat
         /\ Cardinality(Reservations(w)) + Bit(Keeps(k, w)')
              = Cardinality(Reservations(w)') + Bit(Keeps(k, w))
<1> DEFINE A == Reservations(w)
           B == Reservations(w)'
<1>1. A = {j \in Keys : Keeps(j, w)} /\ B = {j \in Keys : Keeps(j, w)'}
  BY DEF Reservations, Keeps, Charged
<1>2. A \ {k} = B \ {k}
  BY <1>1 DEF Keeps, Charged
<1>3. (k \in A <=> Keeps(k, w)) /\ (k \in B <=> Keeps(k, w)')
  BY <1>1
<1>4. A \in SUBSET Keys /\ B \in SUBSET Keys
  BY <1>1
<1> HIDE DEF A, B
<1>5. /\ Cardinality(A) \in Nat /\ Cardinality(B) \in Nat
      /\ Cardinality(A) + Bit(k \in B) = Cardinality(B) + Bit(k \in A)
  BY <1>2, <1>4, OneApart
<1> QED
  BY <1>3, <1>5 DEF A, B, Bit

\* Every document is as it was: so are the reservations of every window.
LEMMA KeepingSame ==
  ASSUME NEW w, UNCHANGED use
  PROVE  /\ Reservations(w)' = Reservations(w)
         /\ Cardinality(Reservations(w)) \in Nat
<1>1. Reservations(w) \in SUBSET Keys
  BY DEF Reservations
<1>2. IsFiniteSet(Reservations(w))
  BY <1>1, FS_Subset
<1> QED
  BY <1>2, FS_CardinalityType DEF Reservations, Charged

-----------------------------------------------------------------------------
(* What a step leaves alone.                                               *)

\* Only request p moves.
Alone(p) ==
    \A q \in Requests \ {p} :
        /\ pc'[q] = pc[q] /\ key'[q] = key[q] /\ now'[q] = now[q]
        /\ win'[q] = win[q] /\ owe'[q] = owe[q]

LEMMA LeaveAlone ==
  ASSUME TypeOK, NEW p \in Requests, Leave(p)
  PROVE  /\ Alone(p)
         /\ pc'[p] = "done" /\ owe'[p] = {}
BY DEF TypeOK, Leave, Goto, Alone

LEMMA SettleAlone ==
  ASSUME TypeOK, NEW p \in Requests, NEW s, NEW l, Settle(p, s, l)
  PROVE  /\ Alone(p)
         /\ pc'[p] = l /\ key'[p] = key[p]
         /\ owe'[p] = ScopesOf(key[p]) /\ win'[p] = use[key[p]].win
         /\ \A k \in Keys \ {key[p]} : use'[k] = use[k]
         /\ use'[key[p]].status = s /\ use'[key[p]].win = use[key[p]].win
BY DEF TypeOK, DocType, Settle, Goto, Alone, Doc, Owed

LEMMA ReserveAlone ==
  ASSUME TypeOK, NEW p \in Requests, Reserve(p), UNCHANGED <<key, now, win>>
  PROVE  /\ Alone(p)
         /\ pc'[p] = "admitted" /\ owe'[p] = {}
         /\ \A k \in Keys \ {key[p]} : use'[k] = use[k]
         /\ use'[key[p]].status = "reserved" /\ use'[key[p]].win = win[p]
BY DEF TypeOK, Reserve, Goto, Alone

LEMMA StepAlone ==
  ASSUME TypeOK, NEW p \in Requests,
         \/ RequestStep(p) \/ \E k \in Keys : Admit(p, k)
         \/ Crash(p) \/ CompleteThrows(p) \/ CreateThrows(p)
  PROVE  Alone(p)
<1>1. ASSUME NEW l, Goto(p, l), UNCHANGED <<key, now, win, owe>> PROVE Alone(p)
  BY <1>1 DEF Goto, Alone, TypeOK
<1>2. CASE Leave(p)
  BY <1>2, LeaveAlone
<1>3. CASE \E s, l : Settle(p, s, l)
  BY <1>3, SettleAlone
<1>4. CASE Recover(p)
  BY <1>4 DEF Recover, Goto, Alone, TypeOK
<1>5. CASE CheckActive(p) \/ Extend(p) \/ HoldApp(p) \/ HoldOwner(p)
  BY <1>1, <1>2, <1>5 DEF CheckActive, Extend, HoldApp, HoldOwner, Goto, Alone, TypeOK
<1>6. CASE Find(p)
  BY <1>1, <1>2, <1>6 DEF Find, Goto, Alone, TypeOK
<1>7. CASE Create(p) \/ Reopen(p)
  BY <1>1, <1>7, ReserveAlone DEF Create, Reopen
<1>8. CASE Dispatch(p) \/ Call(p) \/ CompleteThrows(p) \/ CreateThrows(p)
  BY <1>1, <1>8 DEF Dispatch, Call, CompleteThrows, CreateThrows
<1>9. CASE Lapse(p) \/ Complete(p) \/ MarkUncertain(p) \/ Release(p)
  BY <1>2, <1>3, <1>9 DEF Lapse, Complete, MarkUncertain, Release
<1>10. CASE Refund(p) \/ Consume(p)
  BY <1>2, <1>10 DEF Refund, Consume, Goto, Alone, TypeOK
<1>11. CASE Crash(p) \/ \E k \in Keys : Admit(p, k)
  BY <1>2, <1>11 DEF Crash, Admit, Goto, Alone, TypeOK
<1> QED
  BY <1>4, <1>5, <1>6, <1>7, <1>8, <1>9, <1>10, <1>11 DEF RequestStep

-----------------------------------------------------------------------------
(* What a request owes.                                                    *)

OweAt(p) ==
    /\ pc[p] \notin {"holdApp", "create", "reopen", "refund", "refundRecovered", "consume"}
         => owe[p] = {}
    /\ pc[p] = "holdApp" => owe[p] = {Owner(p)}
    /\ pc[p] \in {"create", "reopen"} => owe[p] = ScopesOf(key[p])

LEMMA OweKept ==
  ASSUME TypeOK, OweInv, NEW p \in Requests, Alone(p), OweAt(p)'
  PROVE  OweInv'
BY DEF OweInv, OweAt, Alone, Owner, ScopesOf

LEMMA OweStep == TypeOK /\ OweInv /\ [Next]_vars => OweInv'
<1> SUFFICES ASSUME TypeOK, OweInv, [Next]_vars PROVE OweInv'
  OBVIOUS
<1>1. ASSUME NEW p \in Requests,
             \/ RequestStep(p) \/ \E k \in Keys : Admit(p, k)
             \/ Crash(p) \/ CompleteThrows(p) \/ CreateThrows(p)
      PROVE  OweAt(p)'
  <2>0. OweAt(p)
    BY DEF OweInv, OweAt
  <2>1. CASE Leave(p)
    BY <2>1, LeaveAlone DEF OweAt
  <2>2. CASE \E s, l : Settle(p, s, l) /\ l \in {"refund", "consume"}
    BY <2>2, SettleAlone DEF OweAt
  <2>3. CASE Recover(p)
    BY <2>0, <2>3 DEF Recover, Goto, OweAt, TypeOK
  <2>4. CASE CheckActive(p) \/ Find(p) \/ Extend(p)
    BY <2>0, <2>1, <2>4 DEF CheckActive, Find, Extend, Goto, OweAt, TypeOK
  <2>5. CASE HoldOwner(p)
    BY <2>0, <2>1, <2>5 DEF HoldOwner, Goto, OweAt, TypeOK, Owner
  <2>6. CASE HoldApp(p)
    BY <2>0, <2>6 DEF HoldApp, Goto, OweAt, TypeOK, Owed, ScopesOf
  <2>7. CASE Create(p) \/ Reopen(p)
    BY <2>0, <2>7, ReserveAlone DEF Create, Reopen, Goto, OweAt, TypeOK
  <2>8. CASE Dispatch(p) \/ Call(p) \/ CompleteThrows(p) \/ CreateThrows(p)
    BY <2>0, <2>8 DEF Dispatch, Call, CompleteThrows, CreateThrows, Goto, OweAt, TypeOK
  <2>9. CASE Lapse(p) \/ Complete(p) \/ MarkUncertain(p) \/ Release(p)
    BY <2>1, <2>2, <2>9 DEF Lapse, Complete, MarkUncertain, Release, Released
  <2>10. CASE Refund(p) \/ Consume(p)
    <3>1. PICK s \in owe[p] :
            \/ Leave(p)
            \/ /\ owe' = [owe EXCEPT ![p] = @ \ {s}]
               /\ \/ owe[p] = {s} /\ pc'[p] = "recover"
                  \/ pc'[p] \in {"refundRecovered", "refund", "consume"}
      BY <2>10 DEF Refund, Consume, Goto, TypeOK
    <3> QED
      BY <2>1, <3>1 DEF OweAt, TypeOK
  <2>11. CASE Crash(p) \/ \E k \in Keys : Admit(p, k)
    BY <2>0, <2>1, <2>11 DEF Crash, Admit, Goto, OweAt, TypeOK
  <2> QED
    BY <1>1, <2>3, <2>4, <2>5, <2>6, <2>7, <2>8, <2>9, <2>10, <2>11 DEF RequestStep
<1>2. CASE UNCHANGED <<pc, key, owe>>
  BY <1>2 DEF OweInv, Owner, ScopesOf
<1>3. CASE UNCHANGED vars
  BY <1>2, <1>3 DEF vars
<1>4. CASE Tick \/ \E k \in Keys : Reconcile(k)
  BY <1>2, <1>4 DEF Tick, Reconcile
<1> QED
  BY <1>1, <1>3, <1>4, StepAlone, OweKept DEF Next

-----------------------------------------------------------------------------
(* One sender per operation.                                               *)

Sending == {"call", "complete", "release", "uncertain"}

\* No document ceases to be dispatched, and nobody begins to send.
LEMMA SenderKept ==
  ASSUME TypeOK, SenderInv, OneSender, NEW p \in Requests, Alone(p),
         \A k \in Keys : use[k].status = "dispatched" => use'[k].status = "dispatched",
         pc'[p] \in Sending => pc[p] \in Sending /\ key'[p] = key[p]
  PROVE  SenderInv' /\ OneSender'
<1>1. \A q \in Requests : pc'[q] \in Sending => pc[q] \in Sending /\ key'[q] = key[q]
  BY DEF Alone
<1>2. SenderInv'
  BY <1>1 DEF SenderInv, Sending, Doc, TypeOK
<1>3. OneSender'
  BY <1>1 DEF OneSender, Sending
<1> QED
  BY <1>2, <1>3

\* A sender that settles its operation stops sending; nobody else is sending it.
LEMMA SenderSettles ==
  ASSUME TypeOK, SenderInv, OneSender, NEW p \in Requests, Alone(p),
         pc[p] \in Sending, pc'[p] \notin Sending,
         \A k \in Keys \ {key[p]} : use'[k] = use[k]
  PROVE  SenderInv' /\ OneSender'
<1>1. \A q \in Requests : pc'[q] \in Sending => q # p /\ pc[q] \in Sending /\ key'[q] = key[q]
  BY DEF Alone
<1>2. \A q \in Requests : q # p /\ pc[q] \in Sending => key[q] # key[p]
  BY DEF OneSender, Sending
<1>3. SenderInv'
  BY <1>1, <1>2 DEF SenderInv, Sending, Doc, TypeOK
<1>4. OneSender'
  BY <1>1 DEF OneSender, Sending
<1> QED
  BY <1>3, <1>4

\* Only a reserved operation is dispatched, so no sender has it yet.
LEMMA SenderEnters ==
  ASSUME TypeOK, SenderInv, OneSender, NEW p \in Requests, Dispatch(p)
  PROVE  SenderInv' /\ OneSender'
<1>1. Alone(p)
  BY StepAlone DEF RequestStep
<1>2. CASE ~CanDispatch(p)
  <2>1. use' = use /\ pc'[p] = "lapse"
    BY <1>2 DEF Dispatch, Goto, TypeOK
  <2> QED
    BY <1>1, <2>1, SenderKept DEF Sending
<1>3. CASE CanDispatch(p)
  <2>1. /\ use[key[p]].status = "reserved" /\ key'[p] = key[p] /\ pc'[p] = "call"
        /\ use'[key[p]].status = "dispatched"
        /\ \A k \in Keys \ {key[p]} : use'[k] = use[k]
    BY <1>3 DEF Dispatch, CanDispatch, Doc, Goto, TypeOK, DocType
  <2>2. \A q \in Requests \ {p} : pc'[q] \in Sending =>
           pc[q] \in Sending /\ key'[q] = key[q] /\ key[q] # key[p]
    BY <1>1, <2>1 DEF Alone, SenderInv, Sending, Doc
  <2>3. SenderInv'
    BY <2>1, <2>2 DEF SenderInv, Sending, Doc, TypeOK
  <2>4. OneSender'
    BY <2>1, <2>2 DEF OneSender, Sending
  <2> QED
    BY <2>3, <2>4
<1> QED
  BY <1>2, <1>3

LEMMA SenderStep ==
  TypeOK /\ SenderInv /\ OneSender /\ [Next]_vars => SenderInv' /\ OneSender'
<1> SUFFICES ASSUME TypeOK, SenderInv, OneSender, [Next]_vars
             PROVE  SenderInv' /\ OneSender'
  OBVIOUS
<1>1. ASSUME NEW p \in Requests,
             \/ RequestStep(p) \/ \E k \in Keys : Admit(p, k)
             \/ Crash(p) \/ CompleteThrows(p) \/ CreateThrows(p)
      PROVE  SenderInv' /\ OneSender'
  <2>0. Alone(p)
    BY <1>1, StepAlone
  <2>1. CASE Leave(p) /\ UNCHANGED use
    BY <2>0, <2>1, LeaveAlone, SenderKept DEF Sending
  <2>2. CASE UNCHANGED use /\ \E l : Goto(p, l) /\ l \notin Sending
    <3>1. pc'[p] \notin Sending
      BY <2>2 DEF Goto, TypeOK
    <3> QED
      BY <2>0, <2>2, <3>1, SenderKept
  <2>3. CASE Recover(p)
    <3>1. pc'[p] \notin Sending
      BY <2>3 DEF Recover, Goto, TypeOK, Sending
    <3>2. \A k \in Keys : use[k].status = "dispatched" => use'[k].status = "dispatched"
      BY <2>3 DEF Recover, Lapsed, TypeOK, DocType
    <3> QED
      BY <2>0, <3>1, <3>2, SenderKept
  <2>4. CASE CheckActive(p) \/ Find(p) \/ HoldOwner(p) \/ HoldApp(p)
    BY <2>1, <2>2, <2>4 DEF CheckActive, Find, HoldOwner, HoldApp, Sending
  <2>5. CASE Extend(p)
    <3>1. CASE Lapsed(key[p], now[p])
      <4>1. pc'[p] \notin Sending
        BY <2>5, <3>1 DEF Extend, Goto, TypeOK, Sending
      <4>2. \A k \in Keys : use[k].status = "dispatched" => use'[k].status = "dispatched"
        BY <2>5, <3>1 DEF Extend, Lapsed, TypeOK, DocType
      <4> QED
        BY <2>0, <4>1, <4>2, SenderKept
    <3> QED
      BY <2>1, <2>5, <3>1 DEF Extend
  <2>6. CASE Create(p) \/ Reopen(p)
    <3>1. CASE Reserve(p)
      <4>1. \A k \in Keys : use[k].status = "dispatched" => use'[k].status = "dispatched"
        BY <2>6, <3>1, ReserveAlone DEF Create, Reopen, Doc
      <4> QED
        BY <2>0, <2>6, <3>1, <4>1, ReserveAlone, SenderKept DEF Create, Reopen, Sending
    <3> QED
      BY <2>2, <2>6, <3>1 DEF Create, Reopen, Sending
  <2>7. CASE Dispatch(p)
    BY <2>7, SenderEnters
  <2>8. CASE Call(p) \/ CompleteThrows(p)
    <3>1. /\ pc[p] \in Sending /\ key'[p] = key[p]
          /\ \A k \in Keys : use'[k] = use[k]
      BY <2>8 DEF Call, CompleteThrows, Sending
    <3> QED
      BY <2>0, <3>1, SenderKept
  <2>9. CASE Lapse(p)
    <3>1. CASE use[key[p]].status = "reserved"
      <4>1. PICK s, l : Settle(p, s, l) /\ l = "refund"
        BY <2>9, <3>1 DEF Lapse, Doc
      <4>2. \A k \in Keys : use[k].status = "dispatched" => use'[k].status = "dispatched"
        BY <3>1, <4>1, SettleAlone
      <4>3. pc'[p] \notin Sending
        <5>1. pc'[p] = l
          BY <4>1, SettleAlone
        <5> QED
          BY <4>1, <5>1 DEF Sending
      <4> QED
        BY <2>0, <4>2, <4>3, SenderKept
    <3> QED
      BY <2>1, <2>9, <3>1 DEF Lapse, Doc
  <2>10. CASE Complete(p) \/ MarkUncertain(p) \/ Release(p)
    <3>1. CASE \E s, l : Settle(p, s, l) /\ l \notin Sending
      <4>1. pc[p] \in Sending
        BY <2>10 DEF Complete, MarkUncertain, Release, Sending
      <4> QED
        BY <2>0, <3>1, <4>1, SettleAlone, SenderSettles
    <3> QED
      BY <2>1, <2>10, <3>1 DEF Complete, MarkUncertain, Release, Released, Sending
  <2>11. CASE Refund(p) \/ Consume(p)
    <3>1. use' = use
      BY <2>11 DEF Refund, Consume
    <3>2. Leave(p) \/ pc'[p] \in {pc[p], "recover"}
      BY <2>11 DEF Refund, Consume, Goto, TypeOK
    <3>3. pc[p] \notin Sending
      BY <2>11 DEF Refund, Consume, Sending
    <3>4. pc'[p] \notin Sending
      BY <3>2, <3>3, LeaveAlone DEF Sending
    <3> QED
      BY <2>0, <3>1, <3>4, SenderKept
  <2>12. CASE Crash(p) \/ CreateThrows(p) \/ \E k \in Keys : Admit(p, k)
    BY <2>1, <2>2, <2>12 DEF Crash, CreateThrows, Admit, Sending
  <2> QED
    BY <1>1, <2>3, <2>4, <2>5, <2>6, <2>7, <2>8, <2>9, <2>10, <2>11, <2>12 DEF RequestStep
<1>2. ASSUME NEW k \in Keys, Reconcile(k) PROVE SenderInv' /\ OneSender'
  <2>1. \A j \in Keys : use[j].status = "dispatched" => use'[j].status = "dispatched"
    BY <1>2 DEF Reconcile, TypeOK
  <2> QED
    BY <1>2, <2>1 DEF Reconcile, SenderInv, OneSender, Doc, TypeOK
<1>3. CASE Tick \/ UNCHANGED vars
  BY <1>3 DEF Tick, vars, SenderInv, OneSender, Doc
<1> QED
  BY <1>1, <1>2, <1>3 DEF Next

-----------------------------------------------------------------------------
(* The counters cover what is reserved, held and sent.                     *)

CoverAt(w) ==
    /\ Counted(w) <= LimitOf(w[1])
    /\ Cardinality(Reservations(w)) + Cardinality(Holding(w)) + sent[w] <= Counted(w)

\* A window may lose what a request no longer holds and an operation no longer
\* keeps, and must gain what they newly do.
LEMMA CoverMove ==
  ASSUME TypeOK, TypeOK', CoverInv, NEW p \in Requests, Alone(p),
         NEW k \in Keys, \A j \in Keys \ {k} : use'[j] = use[j],
         NEW w \in Windows,
         Counted(w)' <= LimitOf(w[1]),
         Counted(w) + Bit(Holds(p, w)') + Bit(Keeps(k, w)') + sent'[w]
           <= Counted(w)' + Bit(Holds(p, w)) + Bit(Keeps(k, w)) + sent[w]
  PROVE  CoverAt(w)'
<1> DEFINE h0 == Cardinality(Holding(w))        h1 == Cardinality(Holding(w)')
           r0 == Cardinality(Reservations(w))   r1 == Cardinality(Reservations(w)')
<1>1. /\ h0 \in Nat /\ h1 \in Nat
      /\ h0 + Bit(Holds(p, w)') = h1 + Bit(Holds(p, w))
  BY HoldingStep DEF Alone
<1>2. /\ r0 \in Nat /\ r1 \in Nat
      /\ r0 + Bit(Keeps(k, w)') = r1 + Bit(Keeps(k, w))
  BY KeepingStep
<1>3. r0 + h0 + sent[w] <= Counted(w)
  BY DEF CoverInv
<1>4. /\ sent[w] \in Nat /\ sent'[w] \in Nat
      /\ Counted(w) \in Nat /\ Counted(w)' \in Nat
  BY DEF TypeOK, Counted
<1>5. \A b : Bit(b) \in Int
  BY DEF Bit
<1> DEFINE H0 == Bit(Holds(p, w))   H1 == Bit(Holds(p, w)')
           K0 == Bit(Keeps(k, w))   K1 == Bit(Keeps(k, w)')
           c0 == Counted(w)         c1 == Counted(w)'
<1>6. H0 \in Int /\ H1 \in Int /\ K0 \in Int /\ K1 \in Int
  BY <1>5
<1>7. r1 + h1 + sent'[w] <= c1
  <2>1. c0 + H1 + K1 + sent'[w] <= c1 + H0 + K0 + sent[w]
    OBVIOUS
  <2> HIDE DEF h0, h1, r0, r1, H0, H1, K0, K1, c0, c1
  <2> QED
    BY <1>1, <1>2, <1>3, <1>4, <1>6, <2>1 DEF h0, h1, r0, r1, H0, H1, K0, K1, c0, c1
<1>8. LimitOf(w[1])' = LimitOf(w[1])
  BY DEF LimitOf
<1> QED
  BY <1>7, <1>8 DEF CoverAt

\* The counters stand still: a unit changes hands at most.
LEMMA CoverQuiet ==
  ASSUME TypeOK, TypeOK', CoverInv, NEW p \in Requests, Alone(p),
         NEW k \in Keys, \A j \in Keys \ {k} : use'[j] = use[j],
         NEW w \in Windows, UNCHANGED <<quota, sent>>,
         Holds(p, w)' /\ Keeps(k, w)' => Holds(p, w) /\ Keeps(k, w),
         Holds(p, w)' \/ Keeps(k, w)' => Holds(p, w) \/ Keeps(k, w)
  PROVE  CoverAt(w)'
<1>1. Bit(Holds(p, w)') + Bit(Keeps(k, w)') <= Bit(Holds(p, w)) + Bit(Keeps(k, w))
  BY DEF Bit
<1>2. Counted(w)' = Counted(w) /\ sent'[w] = sent[w]
  BY DEF Counted
<1>3. Counted(w)' <= LimitOf(w[1])
  BY <1>2 DEF CoverInv
<1>4. \A b : Bit(b) \in Int
  BY DEF Bit
<1>5. Counted(w) \in Nat /\ sent[w] \in Nat
  BY DEF TypeOK, Counted
<1>6. Counted(w) + Bit(Holds(p, w)') + Bit(Keeps(k, w)') + sent'[w]
        <= Counted(w)' + Bit(Holds(p, w)) + Bit(Keeps(k, w)) + sent[w]
  <2> DEFINE H0 == Bit(Holds(p, w))   H1 == Bit(Holds(p, w)')
             K0 == Bit(Keeps(k, w))   K1 == Bit(Keeps(k, w)')
  <2>1. H0 \in Int /\ H1 \in Int /\ K0 \in Int /\ K1 \in Int /\ H1 + K1 <= H0 + K0
    BY <1>1, <1>4
  <2> HIDE DEF H0, H1, K0, K1
  <2>2. Counted(w) + H1 + K1 + sent'[w] <= Counted(w)' + H0 + K0 + sent[w]
    BY <1>2, <1>5, <2>1
  <2> QED
    BY <2>2 DEF H0, H1, K0, K1
<1> QED
  BY <1>3, <1>6, CoverMove

LEMMA CoverLeave ==
  ASSUME TypeOK, TypeOK', CoverInv, NEW p \in Requests, Leave(p), UNCHANGED <<use, quota, sent>>,
         NEW w \in Windows
  PROVE  CoverAt(w)'
<1>1. Alone(p) /\ ~Holds(p, w)'
  BY LeaveAlone DEF Holds
<1>2. PICK k \in Keys : TRUE
  OBVIOUS
<1>3. Keeps(k, w)' <=> Keeps(k, w)
  BY DEF Keeps, Charged
<1> QED
  BY <1>1, <1>3, CoverQuiet

\* The locals that matter stand still too.
LEMMA CoverIdle ==
  ASSUME TypeOK, TypeOK', CoverInv, OweInv, NEW p \in Requests, Alone(p),
         \A k \in Keys : use'[k].status = use[k].status /\ use'[k].win = use[k].win,
         UNCHANGED <<quota, sent>>, owe'[p] = {}, owe[p] = {},
         NEW k \in Keys, \A j \in Keys \ {k} : use'[j] = use[j],
         NEW w \in Windows
  PROVE  CoverAt(w)'
<1>1. ~Holds(p, w)' /\ ~Holds(p, w)
  BY DEF Holds
<1>2. Keeps(k, w)' <=> Keeps(k, w)
  BY DEF Keeps, Charged
<1> QED
  BY <1>1, <1>2, CoverQuiet

\* A recovered reservation becomes the recovering request's debt.
LEMMA CoverRecover ==
  ASSUME TypeOK, TypeOK', CoverInv, OweInv, NEW p \in Requests, Recover(p), NEW w \in Windows
  PROVE  CoverAt(w)'
<1>1. Alone(p)
  BY StepAlone DEF RequestStep
<1>2. owe[p] = {} /\ UNCHANGED <<quota, sent, key, win>>
  BY DEF Recover, OweInv
<1>3. CASE UNCHANGED <<use, owe>>
  BY <1>1, <1>2, <1>3, CoverIdle DEF TypeOK
<1>4. ASSUME NEW k \in Keys, Lapsed(k, now[p]), use[k].win = win[p],
             use' = [use EXCEPT ![k].status = "released"],
             owe' = [owe EXCEPT ![p] = Owed(k)]
      PROVE  CoverAt(w)'
  <2>1. ~Holds(p, w) /\ (Keeps(k, w) <=> w[1] \in ScopesOf(k) /\ win[p] = w[2])
    BY <1>2, <1>4 DEF Holds, Keeps, Charged, Lapsed
  <2>2. Holds(p, w)' => w[1] \in ScopesOf(k) /\ win[p] = w[2]
    BY <1>2, <1>4 DEF Holds, Owed, TypeOK
  <2>3. ~Keeps(k, w)'
    BY <1>4 DEF Keeps, TypeOK, DocType
  <2>4. \A j \in Keys \ {k} : use'[j] = use[j]
    BY <1>4 DEF TypeOK
  <2> QED
    BY <1>1, <1>2, <2>1, <2>2, <2>3, <2>4, CoverQuiet
<1> QED
  BY <1>3, <1>4 DEF Recover

LEMMA CoverSearch ==
  ASSUME TypeOK, TypeOK', CoverInv, OweInv, NEW p \in Requests,
         \/ CheckActive(p) \/ Find(p) \/ Extend(p) \/ Call(p) \/ CompleteThrows(p)
         \/ \E k \in Keys : Admit(p, k),
         NEW w \in Windows
  PROVE  CoverAt(w)'
<1>1. Alone(p) /\ key[p] \in Keys /\ owe[p] = {} /\ UNCHANGED <<quota, sent>>
  BY StepAlone DEF RequestStep, OweInv, CheckActive, Find, Extend, Call, CompleteThrows, Admit,
                   TypeOK
<1>2. CASE Leave(p) /\ UNCHANGED use
  BY <1>1, <1>2, CoverLeave
<1>3. CASE UNCHANGED <<use, owe>>
  BY <1>1, <1>3, CoverIdle DEF TypeOK
<1>4. CASE Extend(p) /\ Lapsed(key[p], now[p])
  <2>1. /\ owe' = owe
        /\ use' = [use EXCEPT ![key[p]].exp = now[p] + Ttl]
    BY <1>4 DEF Extend
  <2>2. /\ \A k \in Keys : use'[k].status = use[k].status /\ use'[k].win = use[k].win
        /\ \A j \in Keys \ {key[p]} : use'[j] = use[j]
    BY <1>1, <2>1 DEF TypeOK, DocType
  <2> QED
    BY <1>1, <2>1, <2>2, CoverIdle
<1> QED
  BY <1>2, <1>3, <1>4 DEF CheckActive, Find, Extend, Call, CompleteThrows, Admit

\* What the request held, the new reservation keeps.
LEMMA CoverReserve ==
  ASSUME TypeOK, TypeOK', CoverInv, OweInv, NEW p \in Requests,
         Create(p) \/ Reopen(p) \/ CreateThrows(p), NEW w \in Windows
  PROVE  CoverAt(w)'
<1>0. PICK k \in Keys : key[p] = k
  BY DEF TypeOK
<1>1. Alone(p) /\ UNCHANGED <<quota, sent, key, now, win>>
  BY StepAlone DEF RequestStep, Create, Reopen, CreateThrows, TypeOK
<1>2. owe[p] = ScopesOf(k) /\ pc[p] \in {"create", "reopen"}
  BY <1>0 DEF Create, Reopen, CreateThrows, OweInv
<1>3. CASE Reserve(p)
  <2>1. use[k].status # "reserved"
    BY <1>0, <1>3 DEF Create, Reopen, CreateThrows, Doc, Reserve, Goto, TypeOK
  <2>2. ~Keeps(k, w) /\ ~Holds(p, w)'
    BY <1>0, <1>1, <1>3, <2>1, ReserveAlone DEF Keeps, Holds
  <2>3. Keeps(k, w)' => w[1] \in ScopesOf(k) /\ win[p] = w[2]
    BY <1>0, <1>1, <1>3, ReserveAlone DEF Keeps, Charged
  <2>4. w[1] \in ScopesOf(k) /\ win[p] = w[2] => Holds(p, w)
    BY <1>0, <1>2 DEF Holds
  <2> QED
    BY <1>0, <1>1, <1>3, <2>2, <2>3, <2>4, ReserveAlone, CoverQuiet
<1>4. CASE UNCHANGED <<use, owe>>
  <2>1. Holds(p, w)' => Holds(p, w)
    BY <1>0, <1>1, <1>2, <1>4 DEF Holds
  <2>2. Keeps(k, w)' <=> Keeps(k, w)
    BY <1>0, <1>1, <1>4 DEF Keeps, Charged
  <2> QED
    BY <1>0, <1>1, <1>4, <2>1, <2>2, CoverQuiet
<1> QED
  BY <1>3, <1>4 DEF Create, Reopen, CreateThrows

\* A released reservation is its request's debt; a settled dispatch stays counted.
LEMMA CoverSettle ==
  ASSUME TypeOK, TypeOK', CoverInv, OweInv, SenderInv, NEW p \in Requests,
         Lapse(p) \/ Complete(p) \/ MarkUncertain(p) \/ Release(p), NEW w \in Windows
  PROVE  CoverAt(w)'
<1>0. PICK k \in Keys : key[p] = k
  BY DEF TypeOK
<1>1. Alone(p) /\ UNCHANGED <<quota, sent>>
  BY StepAlone DEF RequestStep, Lapse, Complete, MarkUncertain, Release, TypeOK
<1>2. ~Holds(p, w)
  BY DEF Lapse, Complete, MarkUncertain, Release, OweInv, Holds
<1>3. CASE Leave(p) /\ UNCHANGED use
  BY <1>1, <1>3, CoverLeave
<1>4. ASSUME NEW s, NEW l, Settle(p, s, l), s # "reserved",
             l = "consume" \/ use[k].status = "reserved"
      PROVE  CoverAt(w)'
  <2>1. /\ pc'[p] = l /\ owe'[p] = ScopesOf(k) /\ win'[p] = use[k].win
        /\ use'[k].status = s
        /\ \A j \in Keys \ {k} : use'[j] = use[j]
    <3>1. /\ pc'[p] = l
          /\ owe'[p] = ScopesOf(key[p]) /\ win'[p] = use[key[p]].win
          /\ \A j \in Keys \ {key[p]} : use'[j] = use[j]
          /\ use'[key[p]].status = s
      BY <1>4, SettleAlone
    <3> QED
      BY <1>0, <3>1
  <2>2. ~Keeps(k, w)'
    BY <1>4, <2>1 DEF Keeps
  <2>3. Holds(p, w)' => Keeps(k, w)
    BY <1>4, <2>1 DEF Holds, Keeps, Charged
  <2> QED
    BY <1>1, <1>2, <2>1, <2>2, <2>3, CoverQuiet
<1>5. CASE Lapse(p)
  BY <1>0, <1>3, <1>4, <1>5 DEF Lapse, Doc
<1>6. CASE Complete(p) \/ MarkUncertain(p)
  BY <1>3, <1>4, <1>6 DEF Complete, MarkUncertain
<1>7. CASE Release(p)
  <2>1. Released(Doc(p).status) = "consume"
    BY <1>0, <1>7 DEF Release, SenderInv, Released
  <2> QED
    BY <1>0, <1>3, <1>4, <1>7, <2>1 DEF Release
<1> QED
  BY <1>5, <1>6, <1>7

\* A unit counted in a window with room is held by the request that counted it.
LEMMA CoverAdd ==
  ASSUME TypeOK, TypeOK', CoverInv, NEW p \in Requests, Alone(p),
         UNCHANGED <<use, completed, sent, win>>, pc[p] # "consume",
         NEW s \in Scopes, NEW d \in Days, win[p] = d, HasRoom(s, d),
         reserved' = [reserved EXCEPT ![<<s, d>>] = @ + 1],
         s \notin owe[p], owe'[p] = owe[p] \cup {s},
         NEW w \in Windows
  PROVE  CoverAt(w)'
<1>0. PICK k \in Keys : TRUE
  OBVIOUS
<1>1. Bit(Keeps(k, w)') = Bit(Keeps(k, w)) /\ Bit(Keeps(k, w)) \in Int
  BY DEF Keeps, Charged, Bit
<1>2. /\ Counted(w) \in Nat /\ sent[w] \in Nat /\ sent'[w] = sent[w]
      /\ Counted(w) <= LimitOf(w[1]) /\ LimitOf(w[1]) \in Nat
  BY DEF TypeOK, Counted, CoverInv, LimitOf
<1>3. CASE w = <<s, d>>
  <2>1. Counted(w)' = Counted(w) + 1
    BY <1>3 DEF Counted, TypeOK
  <2>2. Counted(w) < LimitOf(w[1])
    BY <1>3 DEF Counted, HasRoom
  <2>3. Bit(Holds(p, w)) = 0 /\ Bit(Holds(p, w)') \in {0, 1}
    BY <1>3 DEF Bit, Holds
  <2>4. Counted(w)' <= LimitOf(w[1])
    BY <1>2, <2>1, <2>2
  <2>5. Counted(w) + Bit(Holds(p, w)') + Bit(Keeps(k, w)') + sent'[w]
          <= Counted(w)' + Bit(Holds(p, w)) + Bit(Keeps(k, w)) + sent[w]
    BY <1>1, <1>2, <2>1, <2>3
  <2> QED
    BY <2>4, <2>5, CoverMove
<1>4. CASE w # <<s, d>>
  <2>1. Counted(w)' = Counted(w)
    BY <1>4 DEF Counted, TypeOK
  <2>2. Holds(p, w)' => Holds(p, w)
    BY <1>4 DEF Holds, Windows
  <2>3. Bit(Holds(p, w)') <= Bit(Holds(p, w)) /\ Bit(Holds(p, w)') \in Int /\ Bit(Holds(p, w)) \in Int
    BY <2>2 DEF Bit
  <2>4. Counted(w)' <= LimitOf(w[1])
    BY <1>2, <2>1
  <2>5. Counted(w) + Bit(Holds(p, w)') + Bit(Keeps(k, w)') + sent'[w]
          <= Counted(w)' + Bit(Holds(p, w)) + Bit(Keeps(k, w)) + sent[w]
    BY <1>1, <1>2, <2>1, <2>3
  <2> QED
    BY <2>4, <2>5, CoverMove
<1> QED
  BY <1>3, <1>4

LEMMA CoverHold ==
  ASSUME TypeOK, TypeOK', CoverInv, OweInv, NEW p \in Requests, HoldOwner(p) \/ HoldApp(p),
         NEW w \in Windows
  PROVE  CoverAt(w)'
<1>0. PICK k \in Keys, s \in Scopes, d \in Days : key[p] = k /\ Owner(p) = s /\ win[p] = d
  BY DEF TypeOK, Owner, Scopes
<1>1. Alone(p) /\ pc[p] # "consume" /\ s # App /\ App \in Scopes
  BY <1>0, StepAlone DEF RequestStep, HoldOwner, HoldApp, Owner, Scopes
<1>2. CASE HoldOwner(p) /\ HasRoom(s, d)
  <2>1. /\ UNCHANGED <<use, completed, sent, win>> /\ owe[p] = {} /\ owe'[p] = {s}
        /\ reserved' = [reserved EXCEPT ![<<s, d>>] = @ + 1]
    BY <1>0, <1>2 DEF HoldOwner, OweInv, TypeOK
  <2> QED
    BY <1>0, <1>1, <1>2, <2>1, CoverAdd
<1>3. CASE HoldOwner(p) /\ ~HasRoom(s, d)
  BY <1>0, <1>3, CoverLeave DEF HoldOwner
<1>4. CASE HoldApp(p) /\ HasRoom(App, d)
  <2>1. /\ UNCHANGED <<use, completed, sent, win>> /\ owe[p] = {s} /\ owe'[p] = {s} \cup {App}
        /\ reserved' = [reserved EXCEPT ![<<App, d>>] = @ + 1]
    BY <1>0, <1>4 DEF HoldApp, OweInv, Owed, ScopesOf, Owner, TypeOK
  <2> QED
    BY <1>0, <1>1, <1>4, <2>1, CoverAdd
<1>5. CASE HoldApp(p) /\ ~HasRoom(App, d)
  <2>1. UNCHANGED <<use, quota, sent, win, owe>>
    BY <1>0, <1>5 DEF HoldApp
  <2>2. Holds(p, w)' => Holds(p, w)
    BY <1>1, <2>1 DEF Holds
  <2>3. Keeps(k, w)' <=> Keeps(k, w)
    BY <2>1 DEF Keeps, Charged
  <2> QED
    BY <1>1, <2>1, <2>2, <2>3, CoverQuiet
<1> QED
  BY <1>2, <1>3, <1>4, <1>5

\* What a dispatch sends was kept for it in the same two windows.
LEMMA CoverDispatch ==
  ASSUME TypeOK, TypeOK', CoverInv, OweInv, NEW p \in Requests, Dispatch(p), NEW w \in Windows
  PROVE  CoverAt(w)'
<1>0. PICK k \in Keys : key[p] = k
  BY DEF TypeOK
<1>1. Alone(p) /\ owe[p] = {} /\ owe'[p] = {} /\ UNCHANGED quota
  BY StepAlone DEF RequestStep, Dispatch, OweInv, TypeOK
<1>2. CASE ~CanDispatch(p)
  <2>1. UNCHANGED <<use, quota, sent>>
    BY <1>2 DEF Dispatch
  <2> QED
    BY <1>1, <2>1, CoverIdle
<1>3. CASE CanDispatch(p)
  <2>1. /\ use[k].status = "reserved" /\ CountSent(k)
        /\ use' = [use EXCEPT ![k].status = "dispatched", ![k].started = TRUE]
    BY <1>0, <1>3 DEF Dispatch, CanDispatch, Doc
  <2>2. ~Keeps(k, w)' /\ \A j \in Keys \ {k} : use'[j] = use[j]
    BY <2>1 DEF Keeps, TypeOK, DocType
  <2>3. sent'[w] = sent[w] + Bit(Keeps(k, w))
    BY <2>1 DEF CountSent, Keeps, Charged, Bit, Windows, TypeOK
  <2>4. ~Holds(p, w) /\ ~Holds(p, w)'
    BY <1>1 DEF Holds
  <2>5. Counted(w)' = Counted(w) /\ Counted(w) \in Nat /\ Counted(w)' <= LimitOf(w[1])
    BY <1>1 DEF Counted, TypeOK, CoverInv
  <2>6. Bit(Keeps(k, w)) \in Int /\ sent[w] \in Nat
    BY DEF Bit, TypeOK
  <2>7. Bit(Holds(p, w)) = 0 /\ Bit(Holds(p, w)') = 0 /\ Bit(Keeps(k, w)') = 0
    BY <2>2, <2>4 DEF Bit
  <2>8. Counted(w) + Bit(Holds(p, w)') + Bit(Keeps(k, w)') + sent'[w]
          <= Counted(w)' + Bit(Holds(p, w)) + Bit(Keeps(k, w)) + sent[w]
    BY <2>3, <2>5, <2>6, <2>7
  <2> QED
    BY <1>1, <2>2, <2>5, <2>8, CoverMove
<1> QED
  BY <1>2, <1>3

\* A refund takes out of a window what its request then no longer holds in it.
LEMMA CoverRefund ==
  ASSUME TypeOK, TypeOK', CoverInv, NEW p \in Requests, Refund(p), NEW w \in Windows
  PROVE  CoverAt(w)'
<1>0. PICK d \in Days : win[p] = d
  BY DEF TypeOK
<1>1. PICK s \in Scopes :
        /\ s \in owe[p] /\ reserved' = Take(reserved, s, d)
        /\ owe'[p] = {} \/ (owe'[p] = owe[p] \ {s} /\ win'[p] = d)
  BY <1>0, LeaveAlone DEF Refund, TypeOK
<1>2. Alone(p) /\ UNCHANGED <<use, completed, sent>> /\ pc[p] # "consume"
  BY StepAlone DEF RequestStep, Refund
<1>3. PICK k \in Keys : TRUE
  OBVIOUS
<1>4. Bit(Keeps(k, w)') = Bit(Keeps(k, w)) /\ Bit(Keeps(k, w)) \in Int
  BY <1>2 DEF Keeps, Charged, Bit
<1>5. /\ reserved[w] \in Nat /\ completed[w] \in Nat /\ sent[w] \in Nat
      /\ Counted(w) = reserved[w] + completed[w] /\ Counted(w)' = reserved'[w] + completed[w]
      /\ Counted(w) <= LimitOf(w[1]) /\ LimitOf(w[1]) \in Nat
  BY <1>2 DEF TypeOK, Counted, CoverInv, LimitOf
<1>6. CASE w = <<s, d>>
  <2>1. reserved'[w] = IF reserved[w] > 0 THEN reserved[w] - 1 ELSE reserved[w]
    BY <1>1, <1>6 DEF Take, TypeOK
  <2>2. Holds(p, w) /\ ~Holds(p, w)'
    BY <1>0, <1>1, <1>2, <1>6 DEF Holds
  <2>3. Bit(Holds(p, w)) = 1 /\ Bit(Holds(p, w)') = 0
    BY <2>2 DEF Bit
  <2>4. Counted(w)' <= LimitOf(w[1])
    BY <1>5, <2>1
  <2>5. Counted(w) + Bit(Holds(p, w)') + Bit(Keeps(k, w)') + sent'[w]
          <= Counted(w)' + Bit(Holds(p, w)) + Bit(Keeps(k, w)) + sent[w]
    BY <1>2, <1>4, <1>5, <2>1, <2>3
  <2> QED
    BY <1>2, <2>4, <2>5, CoverMove
<1>7. CASE w # <<s, d>>
  <2>1. reserved'[w] = reserved[w]
    BY <1>1, <1>7 DEF Take, TypeOK
  <2>2. Holds(p, w)' => Holds(p, w)
    BY <1>0, <1>1, <1>2 DEF Holds
  <2>3. Bit(Holds(p, w)') <= Bit(Holds(p, w)) /\ Bit(Holds(p, w)') \in Int /\ Bit(Holds(p, w)) \in Int
    BY <2>2 DEF Bit
  <2>4. Counted(w)' <= LimitOf(w[1])
    BY <1>5, <2>1
  <2>5. Counted(w) + Bit(Holds(p, w)') + Bit(Keeps(k, w)') + sent'[w]
          <= Counted(w)' + Bit(Holds(p, w)) + Bit(Keeps(k, w)) + sent[w]
    BY <1>2, <1>4, <1>5, <2>1, <2>3
  <2> QED
    BY <1>2, <2>4, <2>5, CoverMove
<1> QED
  BY <1>6, <1>7

\* Settling a dispatched operation moves its unit from one counter to the other.
LEMMA CoverConsume ==
  ASSUME TypeOK, TypeOK', CoverInv, NEW p \in Requests, Consume(p), NEW w \in Windows
  PROVE  CoverAt(w)'
<1>0. PICK d \in Days : win[p] = d
  BY DEF TypeOK
<1>1. PICK s \in Scopes :
        /\ reserved' = Take(reserved, s, d)
        /\ completed' = IF reserved[<<s, d>>] > 0
                        THEN [completed EXCEPT ![<<s, d>>] = @ + 1] ELSE completed
  BY <1>0 DEF Consume, TypeOK
<1>2. Alone(p) /\ UNCHANGED <<use, sent>>
  BY StepAlone DEF RequestStep, Consume
<1>3. ~Holds(p, w) /\ ~Holds(p, w)'
  <2>1. pc[p] = "consume" /\ (Leave(p) \/ pc' = pc)
    BY DEF Consume
  <2> QED
    BY <2>1, LeaveAlone DEF Holds
<1>4. PICK k \in Keys : TRUE
  OBVIOUS
<1>5. Bit(Keeps(k, w)') = Bit(Keeps(k, w)) /\ Bit(Keeps(k, w)) \in Int
  BY <1>2 DEF Keeps, Charged, Bit
<1>6. Bit(Holds(p, w)) = 0 /\ Bit(Holds(p, w)') = 0
  BY <1>3 DEF Bit
<1>7. /\ reserved[w] \in Nat /\ completed[w] \in Nat /\ sent[w] \in Nat
      /\ Counted(w) = reserved[w] + completed[w] /\ Counted(w)' = reserved'[w] + completed'[w]
      /\ Counted(w) <= LimitOf(w[1])
  BY DEF TypeOK, Counted, CoverInv
<1>8. Counted(w)' = Counted(w)
  <2>1. CASE w = <<s, d>>
    <3>1. reserved'[w] = IF reserved[w] > 0 THEN reserved[w] - 1 ELSE reserved[w]
      BY <1>1, <2>1 DEF Take, TypeOK
    <3>2. completed'[w] = IF reserved[w] > 0 THEN completed[w] + 1 ELSE completed[w]
      BY <1>1, <2>1 DEF TypeOK
    <3> QED
      BY <1>7, <3>1, <3>2
  <2>2. CASE w # <<s, d>>
    <3>1. reserved'[w] = reserved[w]
      BY <1>1, <2>2 DEF Take, TypeOK
    <3>2. completed'[w] = completed[w]
      BY <1>1, <2>2 DEF TypeOK
    <3> QED
      BY <1>7, <3>1, <3>2
  <2> QED
    BY <2>1, <2>2
<1>9. Counted(w)' <= LimitOf(w[1])
  BY <1>7, <1>8
<1>10. Counted(w) + Bit(Holds(p, w)') + Bit(Keeps(k, w)') + sent'[w]
         <= Counted(w)' + Bit(Holds(p, w)) + Bit(Keeps(k, w)) + sent[w]
  BY <1>2, <1>5, <1>6, <1>7, <1>8
<1> QED
  BY <1>2, <1>9, <1>10, CoverMove

LEMMA CoverStep ==
  TypeOK /\ TypeOK' /\ CoverInv /\ OweInv /\ SenderInv /\ [Next]_vars => CoverInv'
<1> SUFFICES ASSUME TypeOK, TypeOK', CoverInv, OweInv, SenderInv, [Next]_vars, NEW w \in Windows
             PROVE  CoverAt(w)'
  BY DEF CoverInv, CoverAt, Windows, Days, Scopes, LimitOf
<1>1. ASSUME NEW p \in Requests, RequestStep(p) PROVE CoverAt(w)'
  BY <1>1, CoverRecover, CoverSearch, CoverHold, CoverReserve, CoverDispatch, CoverSettle,
     CoverRefund, CoverConsume DEF RequestStep
<1>2. ASSUME NEW p \in Requests, CompleteThrows(p) \/ CreateThrows(p) \/ \E k \in Keys : Admit(p, k)
      PROVE  CoverAt(w)'
  BY <1>2, CoverSearch, CoverReserve
<1>3. ASSUME NEW p \in Requests, Crash(p) PROVE CoverAt(w)'
  BY <1>3, CoverLeave DEF Crash
<1>4. CoverAt(w)
  BY DEF CoverInv, CoverAt
<1>5. ASSUME NEW k \in Keys, Reconcile(k) PROVE CoverAt(w)'
  <2>1. UNCHANGED <<quota, sent, locals>>
    BY <1>5 DEF Reconcile
  <2>2. Reservations(w)' = Reservations(w)
    BY <1>5 DEF Reconcile, Reservations, Charged, TypeOK, DocType
  <2>3. Holding(w)' = Holding(w) /\ Counted(w)' = Counted(w)
    BY <2>1 DEF Holding, Owing, Counted
  <2> QED
    BY <1>4, <2>1, <2>2, <2>3 DEF CoverAt, LimitOf
<1>6. CASE Tick \/ UNCHANGED vars
  <2>1. UNCHANGED <<use, quota, sent, locals>>
    BY <1>6 DEF Tick, vars
  <2>2. /\ Reservations(w)' = Reservations(w)
        /\ Holding(w)' = Holding(w) /\ Counted(w)' = Counted(w)
    BY <2>1 DEF Reservations, Charged, Holding, Owing, Counted
  <2> QED
    BY <1>4, <2>1, <2>2 DEF CoverAt, LimitOf
<1> QED
  BY <1>1, <1>2, <1>3, <1>5, <1>6 DEF Next

LEMMA InitInv == Init => IInv
<1> SUFFICES ASSUME Init PROVE IInv
  OBVIOUS
<1>1. ASSUME NEW w \in Windows
      PROVE  /\ Counted(w) = 0 /\ sent[w] = 0 /\ LimitOf(w[1]) \in Nat
             /\ Cardinality(Reservations(w)) = 0 /\ Cardinality(Holding(w)) = 0
  <2>1. Reservations(w) = {} /\ Holding(w) = {}
    BY DEF Init, Absent, Reservations, Holding, Owing
  <2>2. Counted(w) = 0 /\ sent[w] = 0 /\ LimitOf(w[1]) \in Nat
    BY DEF Init, Counted, Windows, LimitOf
  <2> QED
    BY <2>1, <2>2, FS_EmptySet
<1>2. CoverInv
  BY <1>1 DEF CoverInv
<1>3. OweInv /\ SenderInv /\ OneSender
  BY DEF Init, OweInv, SenderInv, OneSender
<1> QED
  BY <1>2, <1>3 DEF IInv

-----------------------------------------------------------------------------
(* Every unit is accounted for, up to one for each fault.                  *)

\* Request p owes a unit of window w, operation k has a reservation open in it.
Owes(p, w) == w[1] \in owe[p] /\ win[p] = w[2]
Opens(k, w) == Charged(k, w) /\ use[k].status \in {"reserved", "dispatched"}

AccountAt(w) ==
    LET due == Cardinality(Outstanding(w)) + Cardinality(Owing(w))
    IN  due <= reserved[w] /\ reserved[w] <= due + faults

LEMMA OwingStep ==
  ASSUME NEW p \in Requests, NEW w, Alone(p)
  PROVE  /\ Cardinality(Owing(w)) \in Nat /\ Cardinality(Owing(w)') \in Nat
         /\ Cardinality(Owing(w)) + Bit(Owes(p, w)') = Cardinality(Owing(w)') + Bit(Owes(p, w))
<1> DEFINE A == Owing(w)
           B == Owing(w)'
<1>1. A = {q \in Requests : Owes(q, w)} /\ B = {q \in Requests : Owes(q, w)'}
  BY DEF Owing, Owes
<1>2. A \ {p} = B \ {p}
  BY <1>1 DEF Owes, Alone
<1>3. (p \in A <=> Owes(p, w)) /\ (p \in B <=> Owes(p, w)')
  BY <1>1
<1>4. A \in SUBSET Requests /\ B \in SUBSET Requests
  BY <1>1
<1> HIDE DEF A, B
<1>5. /\ Cardinality(A) \in Nat /\ Cardinality(B) \in Nat
      /\ Cardinality(A) + Bit(p \in B) = Cardinality(B) + Bit(p \in A)
  BY <1>2, <1>4, OneApart
<1> QED
  BY <1>3, <1>5 DEF A, B, Bit

LEMMA OutstandingStep ==
  ASSUME NEW k \in Keys, NEW w,
         \A j \in Keys \ {k} : use'[j] = use[j]
  PROVE  /\ Cardinality(Outstanding(w)) \in Nat /\ Cardinality(Outstanding(w)') \in Nat
         /\ Cardinality(Outstanding(w)) + Bit(Opens(k, w)')
              = Cardinality(Outstanding(w)') + Bit(Opens(k, w))
<1> DEFINE A == Outstanding(w)
           B == Outstanding(w)'
<1>1. A = {j \in Keys : Opens(j, w)} /\ B = {j \in Keys : Opens(j, w)'}
  BY DEF Outstanding, Opens, Charged
<1>2. A \ {k} = B \ {k}
  BY <1>1 DEF Opens, Charged
<1>3. (k \in A <=> Opens(k, w)) /\ (k \in B <=> Opens(k, w)')
  BY <1>1
<1>4. A \in SUBSET Keys /\ B \in SUBSET Keys
  BY <1>1
<1> HIDE DEF A, B
<1>5. /\ Cardinality(A) \in Nat /\ Cardinality(B) \in Nat
      /\ Cardinality(A) + Bit(k \in B) = Cardinality(B) + Bit(k \in A)
  BY <1>2, <1>4, OneApart
<1> QED
  BY <1>3, <1>5 DEF A, B, Bit

\* The counter follows what the request owes and the operation has open; a fault may
\* leave it one behind.
LEMMA AccountMove ==
  ASSUME TypeOK, TypeOK', UnitsAccounted, NEW p \in Requests, Alone(p),
         NEW k \in Keys, \A j \in Keys \ {k} : use'[j] = use[j],
         NEW w \in Windows,
         reserved[w] + Bit(Owes(p, w)') + Bit(Opens(k, w)')
           <= reserved'[w] + Bit(Owes(p, w)) + Bit(Opens(k, w)),
         reserved'[w] + Bit(Owes(p, w)) + Bit(Opens(k, w)) + faults
           <= reserved[w] + Bit(Owes(p, w)') + Bit(Opens(k, w)') + faults'
  PROVE  AccountAt(w)'
<1> DEFINE h0 == Cardinality(Owing(w))         h1 == Cardinality(Owing(w)')
           r0 == Cardinality(Outstanding(w))   r1 == Cardinality(Outstanding(w)')
           H0 == Bit(Owes(p, w))    H1 == Bit(Owes(p, w)')
           K0 == Bit(Opens(k, w))   K1 == Bit(Opens(k, w)')
           c0 == reserved[w]        c1 == reserved'[w]
           f0 == faults             f1 == faults'
<1>1. h0 \in Nat /\ h1 \in Nat /\ h0 + H1 = h1 + H0
  BY OwingStep
<1>2. r0 \in Nat /\ r1 \in Nat /\ r0 + K1 = r1 + K0
  BY OutstandingStep
<1>3. r0 + h0 <= c0 /\ c0 <= r0 + h0 + f0
  BY DEF UnitsAccounted
<1>4. c0 \in Nat /\ c1 \in Nat /\ f0 \in Nat /\ f1 \in Nat
  BY DEF TypeOK
<1>5. H0 \in Int /\ H1 \in Int /\ K0 \in Int /\ K1 \in Int
  BY DEF Bit
<1>6. c0 + H1 + K1 <= c1 + H0 + K0 /\ c1 + H0 + K0 + f0 <= c0 + H1 + K1 + f1
  OBVIOUS
<1>7. r1 + h1 <= c1 /\ c1 <= r1 + h1 + f1
  <2> HIDE DEF h0, h1, r0, r1, H0, H1, K0, K1, c0, c1, f0, f1
  <2>1. r1 + h1 <= c1
    BY <1>1, <1>2, <1>3, <1>4, <1>5, <1>6
  <2>2. c1 <= r1 + h1 + f1
    BY <1>1, <1>2, <1>3, <1>4, <1>5, <1>6
  <2> QED
    BY <2>1, <2>2
<1> QED
  BY <1>7 DEF AccountAt

\* The counter stands still: a unit changes hands at most.
LEMMA AccountQuiet ==
  ASSUME TypeOK, TypeOK', UnitsAccounted, NEW p \in Requests, Alone(p),
         NEW k \in Keys, \A j \in Keys \ {k} : use'[j] = use[j],
         NEW w \in Windows, UNCHANGED reserved, faults <= faults',
         Owes(p, w)' /\ Opens(k, w)' <=> Owes(p, w) /\ Opens(k, w),
         Owes(p, w)' \/ Opens(k, w)' <=> Owes(p, w) \/ Opens(k, w)
  PROVE  AccountAt(w)'
<1> DEFINE H0 == Bit(Owes(p, w))    H1 == Bit(Owes(p, w)')
           K0 == Bit(Opens(k, w))   K1 == Bit(Opens(k, w)')
<1>1. H0 \in Int /\ H1 \in Int /\ K0 \in Int /\ K1 \in Int /\ H1 + K1 = H0 + K0
  BY DEF Bit
<1>2. reserved[w] \in Nat /\ reserved'[w] = reserved[w] /\ faults \in Nat /\ faults' \in Nat
  BY DEF TypeOK
<1>3. /\ reserved[w] + H1 + K1 <= reserved'[w] + H0 + K0
      /\ reserved'[w] + H0 + K0 + faults <= reserved[w] + H1 + K1 + faults'
  <2> HIDE DEF H0, H1, K0, K1
  <2> QED
    BY <1>1, <1>2
<1> QED
  BY <1>3, AccountMove

\* Neither what the request owes nor what is open changes.
LEMMA AccountIdle ==
  ASSUME TypeOK, TypeOK', UnitsAccounted, NEW p \in Requests, Alone(p),
         \A k \in Keys : use'[k].status = use[k].status /\ use'[k].win = use[k].win,
         UNCHANGED <<reserved, faults>>, owe'[p] = {}, owe[p] = {},
         NEW k \in Keys, \A j \in Keys \ {k} : use'[j] = use[j],
         NEW w \in Windows
  PROVE  AccountAt(w)'
<1>1. ~Owes(p, w)' /\ ~Owes(p, w)
  BY DEF Owes
<1>2. Opens(k, w)' <=> Opens(k, w)
  BY DEF Opens, Charged
<1>3. faults <= faults'
  BY DEF TypeOK
<1> QED
  BY <1>1, <1>2, <1>3, AccountQuiet

LEMMA AccountLeave ==
  ASSUME TypeOK, TypeOK', UnitsAccounted, NEW p \in Requests, Leave(p), owe[p] = {},
         UNCHANGED <<use, reserved, faults>>, NEW w \in Windows
  PROVE  AccountAt(w)'
<1>1. PICK k \in Keys : TRUE
  OBVIOUS
<1> QED
  BY <1>1, LeaveAlone, AccountIdle

\* A crash forgets at most one unit of a window.
LEMMA AccountCrash ==
  ASSUME TypeOK, TypeOK', UnitsAccounted, NEW p \in Requests, Crash(p), NEW w \in Windows
  PROVE  AccountAt(w)'
<1>1. /\ Alone(p) /\ owe'[p] = {} /\ UNCHANGED <<use, quota>> /\ faults' = faults + 1
  BY LeaveAlone DEF Crash, Fault
<1>2. PICK k \in Keys : TRUE
  OBVIOUS
<1> DEFINE H0 == Bit(Owes(p, w))    H1 == Bit(Owes(p, w)')
           K0 == Bit(Opens(k, w))   K1 == Bit(Opens(k, w)')
<1>3. ~Owes(p, w)' /\ (Opens(k, w)' <=> Opens(k, w))
  BY <1>1 DEF Owes, Opens, Charged
<1>4. H0 \in {0, 1} /\ H1 = 0 /\ K0 \in Int /\ K1 = K0
  BY <1>3 DEF Bit
<1>5. reserved[w] \in Nat /\ reserved'[w] = reserved[w] /\ faults \in Nat
  BY <1>1 DEF TypeOK
<1>6. /\ reserved[w] + H1 + K1 <= reserved'[w] + H0 + K0
      /\ reserved'[w] + H0 + K0 + faults <= reserved[w] + H1 + K1 + faults'
  <2> HIDE DEF H0, H1, K0, K1
  <2> QED
    BY <1>1, <1>4, <1>5
<1> QED
  BY <1>1, <1>6, AccountMove

\* A recovered reservation becomes the recovering request's debt.
LEMMA AccountRecover ==
  ASSUME TypeOK, TypeOK', UnitsAccounted, OweInv, NEW p \in Requests, Recover(p),
         NEW w \in Windows
  PROVE  AccountAt(w)'
<1>1. Alone(p)
  BY StepAlone DEF RequestStep
<1>2. owe[p] = {} /\ UNCHANGED <<quota, sent, key, win, faults>> /\ faults <= faults'
  BY DEF Recover, OweInv, TypeOK
<1>3. CASE UNCHANGED <<use, owe>>
  BY <1>1, <1>2, <1>3, AccountIdle DEF TypeOK
<1>4. ASSUME NEW k \in Keys, Lapsed(k, now[p]), use[k].win = win[p],
             use' = [use EXCEPT ![k].status = "released"],
             owe' = [owe EXCEPT ![p] = Owed(k)]
      PROVE  AccountAt(w)'
  <2>1. ~Owes(p, w) /\ (Opens(k, w) <=> w[1] \in ScopesOf(k) /\ win[p] = w[2])
    BY <1>2, <1>4 DEF Owes, Opens, Charged, Lapsed
  <2>2. Owes(p, w)' <=> w[1] \in ScopesOf(k) /\ win[p] = w[2]
    BY <1>2, <1>4 DEF Owes, Owed, TypeOK
  <2>3. ~Opens(k, w)'
    BY <1>4 DEF Opens, TypeOK, DocType
  <2>4. \A j \in Keys \ {k} : use'[j] = use[j]
    BY <1>4 DEF TypeOK
  <2> QED
    BY <1>1, <1>2, <2>1, <2>2, <2>3, <2>4, AccountQuiet
<1> QED
  BY <1>3, <1>4 DEF Recover

LEMMA AccountSearch ==
  ASSUME TypeOK, TypeOK', UnitsAccounted, OweInv, NEW p \in Requests,
         \/ CheckActive(p) \/ Find(p) \/ Extend(p) \/ Call(p)
         \/ \E k \in Keys : Admit(p, k),
         NEW w \in Windows
  PROVE  AccountAt(w)'
<1>1. Alone(p) /\ key[p] \in Keys /\ owe[p] = {} /\ UNCHANGED <<quota, faults>>
  BY StepAlone DEF RequestStep, OweInv, CheckActive, Find, Extend, Call, Admit, TypeOK
<1>2. CASE Leave(p) /\ UNCHANGED use
  BY <1>1, <1>2, AccountLeave
<1>3. CASE UNCHANGED <<use, owe>>
  BY <1>1, <1>3, AccountIdle DEF TypeOK
<1>4. CASE Extend(p) /\ Lapsed(key[p], now[p])
  <2>1. /\ owe' = owe
        /\ use' = [use EXCEPT ![key[p]].exp = now[p] + Ttl]
    BY <1>4 DEF Extend
  <2>2. /\ \A k \in Keys : use'[k].status = use[k].status /\ use'[k].win = use[k].win
        /\ \A j \in Keys \ {key[p]} : use'[j] = use[j]
    BY <1>1, <2>1 DEF TypeOK, DocType
  <2> QED
    BY <1>1, <2>1, <2>2, AccountIdle
<1> QED
  BY <1>2, <1>3, <1>4 DEF CheckActive, Find, Extend, Call, Admit

\* A failed call whose catch block goes on loses nothing.
LEMMA AccountThrows ==
  ASSUME TypeOK, TypeOK', UnitsAccounted, NEW p \in Requests,
         CompleteThrows(p) \/ CreateThrows(p), NEW w \in Windows
  PROVE  AccountAt(w)'
<1>1. /\ Alone(p) /\ UNCHANGED <<use, reserved, owe, win>> /\ faults <= faults'
  BY StepAlone DEF CompleteThrows, CreateThrows, Fault, TypeOK
<1>2. PICK k \in Keys : TRUE
  OBVIOUS
<1>3. (Owes(p, w)' <=> Owes(p, w)) /\ (Opens(k, w)' <=> Opens(k, w))
  BY <1>1 DEF Owes, Opens, Charged
<1> QED
  BY <1>1, <1>3, AccountQuiet

\* What the request owed, the new reservation has open.
LEMMA AccountReserve ==
  ASSUME TypeOK, TypeOK', UnitsAccounted, OweInv, NEW p \in Requests,
         Create(p) \/ Reopen(p), NEW w \in Windows
  PROVE  AccountAt(w)'
<1>0. PICK k \in Keys : key[p] = k
  BY DEF TypeOK
<1>1. Alone(p) /\ UNCHANGED <<quota, sent, key, now, win, faults>> /\ faults <= faults'
  BY StepAlone DEF RequestStep, Create, Reopen, TypeOK
<1>2. owe[p] = ScopesOf(k)
  BY <1>0 DEF Create, Reopen, OweInv
<1>3. CASE Reserve(p) /\ use[k].status \notin {"reserved", "dispatched"}
  <2>1. ~Opens(k, w) /\ ~Owes(p, w)'
    BY <1>0, <1>1, <1>3, ReserveAlone DEF Opens, Owes
  <2>2. Opens(k, w)' <=> w[1] \in ScopesOf(k) /\ win[p] = w[2]
    BY <1>0, <1>1, <1>3, ReserveAlone DEF Opens, Charged
  <2>3. w[1] \in ScopesOf(k) /\ win[p] = w[2] <=> Owes(p, w)
    BY <1>0, <1>2 DEF Owes
  <2> QED
    BY <1>0, <1>1, <1>3, <2>1, <2>2, <2>3, ReserveAlone, AccountQuiet
<1>4. CASE UNCHANGED <<use, owe>>
  <2>1. Owes(p, w)' <=> Owes(p, w)
    BY <1>1, <1>4 DEF Owes
  <2>2. Opens(k, w)' <=> Opens(k, w)
    BY <1>4 DEF Opens, Charged
  <2> QED
    BY <1>0, <1>1, <1>4, <2>1, <2>2, AccountQuiet
<1> QED
  BY <1>0, <1>3, <1>4 DEF Create, Reopen, Doc

\* What was open, the request that settles it now owes.
LEMMA AccountSettle ==
  ASSUME TypeOK, TypeOK', UnitsAccounted, OweInv, NEW p \in Requests,
         Lapse(p) \/ Complete(p) \/ MarkUncertain(p) \/ Release(p), NEW w \in Windows
  PROVE  AccountAt(w)'
<1>0. PICK k \in Keys : key[p] = k
  BY DEF TypeOK
<1>1. Alone(p) /\ UNCHANGED <<quota, sent, faults>> /\ faults <= faults'
  BY StepAlone DEF RequestStep, Lapse, Complete, MarkUncertain, Release, TypeOK
<1>2. owe[p] = {} /\ ~Owes(p, w)
  BY DEF Lapse, Complete, MarkUncertain, Release, OweInv, Owes
<1>3. CASE Leave(p) /\ UNCHANGED use
  BY <1>1, <1>2, <1>3, AccountLeave
<1>4. ASSUME NEW s, NEW l, Settle(p, s, l), s \notin {"reserved", "dispatched"},
             use[k].status \in {"reserved", "dispatched"}
      PROVE  AccountAt(w)'
  <2>1. /\ owe'[p] = ScopesOf(k) /\ win'[p] = use[k].win
        /\ use'[k].status = s
        /\ \A j \in Keys \ {k} : use'[j] = use[j]
    <3>1. /\ owe'[p] = ScopesOf(key[p]) /\ win'[p] = use[key[p]].win
          /\ \A j \in Keys \ {key[p]} : use'[j] = use[j]
          /\ use'[key[p]].status = s
      BY <1>4, SettleAlone
    <3> QED
      BY <1>0, <3>1
  <2>2. ~Opens(k, w)'
    BY <1>4, <2>1 DEF Opens
  <2>3. Owes(p, w)' <=> Opens(k, w)
    BY <1>4, <2>1 DEF Owes, Opens, Charged
  <2> QED
    BY <1>1, <1>2, <2>1, <2>2, <2>3, AccountQuiet
<1>5. CASE Lapse(p)
  BY <1>0, <1>3, <1>4, <1>5 DEF Lapse, Doc
<1>6. CASE Complete(p) \/ MarkUncertain(p)
  BY <1>0, <1>3, <1>4, <1>6 DEF Complete, MarkUncertain, Doc
<1>7. CASE Release(p)
  BY <1>0, <1>3, <1>4, <1>7 DEF Release, Doc
<1> QED
  BY <1>5, <1>6, <1>7

\* A unit newly counted in a window is owed by the request that counted it.
LEMMA AccountAdd ==
  ASSUME TypeOK, TypeOK', UnitsAccounted, NEW p \in Requests, Alone(p),
         UNCHANGED <<use, win, faults>>,
         NEW s \in Scopes, NEW d \in Days, win[p] = d,
         reserved' = [reserved EXCEPT ![<<s, d>>] = @ + 1],
         s \notin owe[p], owe'[p] = owe[p] \cup {s},
         NEW w \in Windows
  PROVE  AccountAt(w)'
<1>0. PICK k \in Keys : TRUE
  OBVIOUS
<1> DEFINE H0 == Bit(Owes(p, w))    H1 == Bit(Owes(p, w)')
           K0 == Bit(Opens(k, w))   K1 == Bit(Opens(k, w)')
<1>1. K1 = K0 /\ K0 \in Int /\ H0 \in Int /\ H1 \in Int
  BY DEF Opens, Charged, Bit
<1>2. reserved[w] \in Nat /\ faults \in Nat /\ faults' = faults
  BY DEF TypeOK
<1>3. reserved'[w] + H0 = reserved[w] + H1
  <2>1. CASE w = <<s, d>>
    <3>1. reserved'[w] = reserved[w] + 1
      BY <2>1 DEF TypeOK
    <3>2. ~Owes(p, w) /\ Owes(p, w)'
      BY <2>1 DEF Owes
    <3>3. H0 = 0 /\ H1 = 1
      BY <3>2 DEF Bit
    <3> QED
      BY <1>2, <3>1, <3>3
  <2>2. CASE w # <<s, d>>
    <3>1. reserved'[w] = reserved[w]
      BY <2>2 DEF TypeOK
    <3>2. Owes(p, w)' <=> Owes(p, w)
      BY <2>2 DEF Owes, Windows
    <3> QED
      BY <3>1, <3>2 DEF Bit
  <2> QED
    BY <2>1, <2>2
<1>4. reserved'[w] \in Nat
  BY DEF TypeOK
<1>5. /\ reserved[w] + H1 + K1 <= reserved'[w] + H0 + K0
      /\ reserved'[w] + H0 + K0 + faults <= reserved[w] + H1 + K1 + faults'
  <2> HIDE DEF H0, H1, K0, K1
  <2> QED
    BY <1>1, <1>2, <1>3, <1>4
<1> QED
  BY <1>5, AccountMove

LEMMA AccountHold ==
  ASSUME TypeOK, TypeOK', UnitsAccounted, OweInv, NEW p \in Requests,
         HoldOwner(p) \/ HoldApp(p), NEW w \in Windows
  PROVE  AccountAt(w)'
<1>0. PICK k \in Keys, s \in Scopes, d \in Days : key[p] = k /\ Owner(p) = s /\ win[p] = d
  BY DEF TypeOK, Owner, Scopes
<1>1. Alone(p) /\ s # App /\ App \in Scopes
  BY <1>0, StepAlone DEF RequestStep, HoldOwner, HoldApp, Owner, Scopes
<1>2. CASE HoldOwner(p) /\ HasRoom(s, d)
  <2>1. /\ UNCHANGED <<use, win, faults>> /\ owe[p] = {} /\ owe'[p] = {s}
        /\ reserved' = [reserved EXCEPT ![<<s, d>>] = @ + 1]
    BY <1>0, <1>2 DEF HoldOwner, OweInv, TypeOK
  <2> QED
    BY <1>0, <1>1, <2>1, AccountAdd
<1>3. CASE HoldOwner(p) /\ ~HasRoom(s, d)
  BY <1>0, <1>3, AccountLeave DEF HoldOwner, OweInv
<1>4. CASE HoldApp(p) /\ HasRoom(App, d)
  <2>1. /\ UNCHANGED <<use, win, faults>> /\ owe[p] = {s} /\ owe'[p] = {s} \cup {App}
        /\ reserved' = [reserved EXCEPT ![<<App, d>>] = @ + 1]
    BY <1>0, <1>4 DEF HoldApp, OweInv, Owed, ScopesOf, Owner, TypeOK
  <2> QED
    BY <1>0, <1>1, <2>1, AccountAdd
<1>5. CASE HoldApp(p) /\ ~HasRoom(App, d)
  <2>1. UNCHANGED <<use, quota, sent, win, owe, faults>> /\ faults <= faults'
    BY <1>0, <1>5 DEF HoldApp, TypeOK
  <2>2. (Owes(p, w)' <=> Owes(p, w)) /\ (Opens(k, w)' <=> Opens(k, w))
    BY <2>1 DEF Owes, Opens, Charged
  <2> QED
    BY <1>1, <2>1, <2>2, AccountQuiet
<1> QED
  BY <1>2, <1>3, <1>4, <1>5

\* A dispatched reservation stays open.
LEMMA AccountDispatch ==
  ASSUME TypeOK, TypeOK', UnitsAccounted, OweInv, NEW p \in Requests, Dispatch(p),
         NEW w \in Windows
  PROVE  AccountAt(w)'
<1>0. PICK k \in Keys : key[p] = k
  BY DEF TypeOK
<1>1. /\ Alone(p) /\ owe[p] = {} /\ owe'[p] = {} /\ UNCHANGED <<quota, faults>>
      /\ faults <= faults'
  BY StepAlone DEF RequestStep, Dispatch, OweInv, TypeOK
<1>2. CASE ~CanDispatch(p)
  <2>1. UNCHANGED use
    BY <1>2 DEF Dispatch
  <2> QED
    BY <1>1, <2>1, AccountIdle
<1>3. CASE CanDispatch(p)
  <2>1. /\ use[k].status = "reserved"
        /\ use' = [use EXCEPT ![k].status = "dispatched", ![k].started = TRUE]
    BY <1>0, <1>3 DEF Dispatch, CanDispatch, Doc
  <2>2. (Opens(k, w)' <=> Opens(k, w)) /\ \A j \in Keys \ {k} : use'[j] = use[j]
    BY <2>1 DEF Opens, Charged, TypeOK, DocType
  <2>3. ~Owes(p, w) /\ ~Owes(p, w)'
    BY <1>1 DEF Owes
  <2> QED
    BY <1>1, <2>2, <2>3, AccountQuiet
<1> QED
  BY <1>2, <1>3

\* A unit somebody owes is still in the counter.
LEMMA OwedIsCounted ==
  ASSUME TypeOK, UnitsAccounted, NEW p \in Requests, NEW w \in Windows, Owes(p, w)
  PROVE  reserved[w] > 0
<1>1. p \in Owing(w) /\ Owing(w) \in SUBSET Requests /\ Outstanding(w) \in SUBSET Keys
  BY DEF Owing, Owes, Outstanding
<1>2. IsFiniteSet(Owing(w)) /\ IsFiniteSet(Outstanding(w))
  BY <1>1, FS_Subset
<1>3. Cardinality(Owing(w)) \in Nat /\ Cardinality(Outstanding(w)) \in Nat
  BY <1>2, FS_CardinalityType
<1>4. Cardinality(Owing(w)) # 0
  BY <1>1, <1>2, FS_EmptySet
<1>5. Cardinality(Outstanding(w)) + Cardinality(Owing(w)) <= reserved[w] /\ reserved[w] \in Nat
  BY DEF UnitsAccounted, TypeOK
<1> QED
  BY <1>3, <1>4, <1>5

\* A refund or a settlement takes out of a window the unit its request owed to it.
LEMMA AccountReturn ==
  ASSUME TypeOK, TypeOK', UnitsAccounted, NEW p \in Requests, Refund(p) \/ Consume(p),
         NEW w \in Windows
  PROVE  AccountAt(w)'
<1>0. PICK d \in Days : win[p] = d
  BY DEF TypeOK
<1>1. PICK s \in Scopes :
        /\ s \in owe[p] /\ reserved' = Take(reserved, s, d)
        /\ \/ owe[p] = {s} /\ owe'[p] = {}
           \/ owe'[p] = owe[p] \ {s} /\ win'[p] = d
  <2>1. PICK s \in owe[p] :
          /\ reserved' = Take(reserved, s, win[p])
          /\ \/ owe[p] = {s} /\ Leave(p)
             \/ owe' = [owe EXCEPT ![p] = @ \ {s}] /\ UNCHANGED win
    BY DEF Refund, Consume
  <2>2. s \in Scopes
    BY DEF TypeOK
  <2>3. CASE owe[p] = {s} /\ Leave(p)
    BY <1>0, <2>1, <2>2, <2>3, LeaveAlone
  <2>4. CASE owe' = [owe EXCEPT ![p] = @ \ {s}] /\ UNCHANGED win
    BY <1>0, <2>1, <2>2, <2>4 DEF TypeOK
  <2> QED
    BY <2>1, <2>3, <2>4
<1>2. Alone(p) /\ UNCHANGED <<use, faults>>
  BY StepAlone DEF RequestStep, Refund, Consume
<1>3. PICK k \in Keys : TRUE
  OBVIOUS
<1> DEFINE H0 == Bit(Owes(p, w))    H1 == Bit(Owes(p, w)')
           K0 == Bit(Opens(k, w))   K1 == Bit(Opens(k, w)')
<1>4. K1 = K0 /\ K0 \in Int /\ H0 \in Int /\ H1 \in Int
  BY <1>2 DEF Opens, Charged, Bit
<1>5. reserved[w] \in Nat /\ reserved'[w] \in Nat /\ faults \in Nat /\ faults' = faults
  BY <1>2 DEF TypeOK
<1>6. reserved'[w] + H0 = reserved[w] + H1
  <2>1. CASE w = <<s, d>>
    <3>1. Owes(p, w) /\ ~Owes(p, w)'
      BY <1>0, <1>1, <2>1 DEF Owes
    <3>2. reserved'[w] = IF reserved[w] > 0 THEN reserved[w] - 1 ELSE reserved[w]
      BY <1>1, <2>1 DEF Take, TypeOK
    <3>3. reserved[w] > 0
      BY <3>1, OwedIsCounted
    <3>4. H0 = 1 /\ H1 = 0
      BY <3>1 DEF Bit
    <3> QED
      BY <1>5, <3>2, <3>3, <3>4
  <2>2. CASE w # <<s, d>>
    <3>1. reserved'[w] = reserved[w]
      BY <1>1, <2>2 DEF Take, TypeOK
    <3>2. Owes(p, w)' <=> Owes(p, w)
      BY <1>0, <1>1, <2>2 DEF Owes, Windows
    <3> QED
      BY <3>1, <3>2 DEF Bit
  <2> QED
    BY <2>1, <2>2
<1>7. /\ reserved[w] + H1 + K1 <= reserved'[w] + H0 + K0
      /\ reserved'[w] + H0 + K0 + faults <= reserved[w] + H1 + K1 + faults'
  <2> HIDE DEF H0, H1, K0, K1
  <2> QED
    BY <1>4, <1>5, <1>6
<1> QED
  BY <1>2, <1>7, AccountMove

LEMMA AccountStep ==
  TypeOK /\ TypeOK' /\ OweInv /\ UnitsAccounted /\ [Next]_vars => UnitsAccounted'
<1> SUFFICES ASSUME TypeOK, TypeOK', OweInv, UnitsAccounted, [Next]_vars, NEW w \in Windows
             PROVE  AccountAt(w)'
  BY DEF UnitsAccounted, AccountAt, Windows, Days, Scopes
<1>1. ASSUME NEW p \in Requests, RequestStep(p) PROVE AccountAt(w)'
  BY <1>1, AccountRecover, AccountSearch, AccountHold, AccountReserve, AccountDispatch,
     AccountSettle, AccountReturn DEF RequestStep
<1>2. ASSUME NEW p \in Requests,
             \/ Crash(p) \/ CompleteThrows(p) \/ CreateThrows(p)
             \/ \E k \in Keys : Admit(p, k)
      PROVE  AccountAt(w)'
  BY <1>2, AccountSearch, AccountCrash, AccountThrows
<1>3. AccountAt(w)
  BY DEF UnitsAccounted, AccountAt
<1>4. ASSUME NEW k \in Keys, Reconcile(k) PROVE AccountAt(w)'
  <2>1. UNCHANGED <<quota, locals, faults>>
    BY <1>4 DEF Reconcile
  <2>2. Outstanding(w)' = Outstanding(w)
    BY <1>4 DEF Reconcile, Outstanding, Charged, TypeOK, DocType
  <2>3. Owing(w)' = Owing(w)
    BY <2>1 DEF Owing
  <2> QED
    BY <1>3, <2>1, <2>2, <2>3 DEF AccountAt
<1>5. CASE Tick \/ UNCHANGED vars
  <2>1. UNCHANGED <<use, quota, locals, faults>>
    BY <1>5 DEF Tick, vars
  <2>2. Outstanding(w)' = Outstanding(w) /\ Owing(w)' = Owing(w)
    BY <2>1 DEF Outstanding, Charged, Owing
  <2> QED
    BY <1>3, <2>1, <2>2 DEF AccountAt
<1> QED
  BY <1>1, <1>2, <1>4, <1>5 DEF Next

LEMMA InitAccount == Init => UnitsAccounted
<1> SUFFICES ASSUME Init, NEW w \in Windows PROVE AccountAt(w)
  BY DEF UnitsAccounted, AccountAt
<1>1. Outstanding(w) = {} /\ Owing(w) = {}
  BY DEF Init, Absent, Outstanding, Owing
<1>2. reserved[w] = 0 /\ faults = 0
  BY DEF Init, Windows
<1> QED
  BY <1>1, <1>2, FS_EmptySet DEF AccountAt

-----------------------------------------------------------------------------
(* The ledger implements PaidOperations.                                   *)

LEMMA KnownAlone ==
  ASSUME TypeOK, NEW p \in Requests,
         \/ RequestStep(p) \/ \E k \in Keys : Admit(p, k)
         \/ Crash(p) \/ CompleteThrows(p) \/ CreateThrows(p)
  PROVE  \A q \in Requests \ {p} : known'[q] = known[q]
<1>1. CASE Leave(p)
  BY <1>1 DEF Leave, TypeOK
<1>2. CASE UNCHANGED known
  BY <1>2
<1>3. CASE Find(p)
  BY <1>1, <1>2, <1>3 DEF Find, TypeOK
<1>4. CASE CheckActive(p) \/ Extend(p) \/ HoldOwner(p) \/ HoldApp(p) \/ Recover(p)
  BY <1>1, <1>2, <1>4 DEF CheckActive, Extend, HoldOwner, HoldApp, Recover
<1>5. CASE Create(p) \/ Reopen(p) \/ Dispatch(p) \/ Call(p) \/ CompleteThrows(p) \/ CreateThrows(p)
  BY <1>2, <1>5 DEF Create, Reopen, Dispatch, Call, CompleteThrows, CreateThrows
<1>6. CASE Lapse(p) \/ Complete(p) \/ MarkUncertain(p) \/ Release(p)
  BY <1>1, <1>2, <1>6 DEF Lapse, Complete, MarkUncertain, Release, Settle
<1>7. CASE Refund(p) \/ Consume(p) \/ Crash(p) \/ \E k \in Keys : Admit(p, k)
  BY <1>1, <1>2, <1>7 DEF Refund, Consume, Crash, Admit
<1> QED
  BY <1>3, <1>4, <1>5, <1>6, <1>7 DEF RequestStep

\* Once there, a reservation stays, and so does its day.
DocsStay ==
    \A k \in Keys :
        use[k].status # "none" => use'[k].status # "none" /\ use'[k].win = use[k].win

ReopenAt(p) ==
    /\ pc[p] = "reopen" => known[p]
    /\ pc[p] \in {"holdOwner", "holdApp", "reopen"} /\ known[p]
         => Doc(p).status # "none" /\ win[p] = Doc(p).win

LEMMA ReserveStays ==
  ASSUME TypeOK, ReopenInv, NEW p \in Requests, Create(p) \/ Reopen(p)
  PROVE  DocsStay
<1>1. CASE UNCHANGED use
  BY <1>1 DEF DocsStay
<1>2. CASE Create(p) /\ Reserve(p)
  <2>1. use[key[p]].status = "none" /\ \A k \in Keys \ {key[p]} : use'[k] = use[k]
    BY <1>2, ReserveAlone DEF Create, Doc, Reserve, Goto, TypeOK
  <2> QED
    BY <2>1 DEF DocsStay
<1>3. CASE Reopen(p) /\ Reserve(p)
  <2>1. /\ use'[key[p]].status = "reserved" /\ use'[key[p]].win = win[p]
        /\ \A k \in Keys \ {key[p]} : use'[k] = use[k]
    BY <1>3, ReserveAlone DEF Reopen
  <2>2. win[p] = use[key[p]].win
    BY <1>3 DEF Reopen, ReopenInv, Doc
  <2> QED
    BY <2>1, <2>2 DEF DocsStay
<1> QED
  BY <1>1, <1>2, <1>3 DEF Create, Reopen

LEMMA StepStays ==
  ASSUME TypeOK, ReopenInv, [Next]_vars
  PROVE  DocsStay
<1>1. CASE UNCHANGED use
  BY <1>1 DEF DocsStay
<1>2. ASSUME NEW k \in Keys, NEW s \in Statuses \ {"none"}, use' = [use EXCEPT ![k].status = s]
      PROVE  DocsStay
  BY <1>2 DEF DocsStay, TypeOK, DocType
<1>3. ASSUME NEW p \in Requests, RequestStep(p) PROVE DocsStay
  <2>1. CASE Recover(p)
    BY <1>1, <1>2, <2>1 DEF Recover, Statuses
  <2>2. CASE Extend(p)
    <3>0. PICK k \in Keys : key[p] = k
      BY DEF TypeOK
    <3>1. CASE use' = [use EXCEPT ![k].exp = now[p] + Ttl]
      BY <3>1 DEF DocsStay, TypeOK, DocType
    <3> QED
      BY <1>1, <2>2, <3>0, <3>1 DEF Extend
  <2>3. CASE Dispatch(p)
    <3>0. PICK k \in Keys : key[p] = k
      BY DEF TypeOK
    <3>1. CASE use' = [use EXCEPT ![k].status = "dispatched", ![k].started = TRUE]
      BY <3>1 DEF DocsStay, TypeOK, DocType
    <3> QED
      BY <1>1, <2>3, <3>0, <3>1 DEF Dispatch
  <2>4. CASE Lapse(p) \/ Complete(p) \/ MarkUncertain(p) \/ Release(p)
    <3>1. key[p] \in Keys
      BY DEF TypeOK
    <3>2. ASSUME NEW s \in Statuses \ {"none"}, NEW l, Settle(p, s, l) PROVE DocsStay
      BY <1>2, <3>1, <3>2 DEF Settle
    <3>3. {"released", "completed", "uncertain"} \in SUBSET (Statuses \ {"none"})
      BY DEF Statuses
    <3>4. CASE Lapse(p)
      BY <1>1, <3>2, <3>3, <3>4 DEF Lapse
    <3>5. CASE Complete(p) \/ MarkUncertain(p) \/ Release(p)
      BY <1>1, <3>2, <3>3, <3>5 DEF Complete, MarkUncertain, Release
    <3> QED
      BY <2>4, <3>4, <3>5
  <2>5. CASE Create(p) \/ Reopen(p)
    BY <2>5, ReserveStays
  <2>6. CASE \/ CheckActive(p) \/ Find(p) \/ HoldOwner(p) \/ HoldApp(p) \/ Call(p)
             \/ Refund(p) \/ Consume(p)
    BY <1>1, <2>6 DEF CheckActive, Find, HoldOwner, HoldApp, Call, Refund, Consume
  <2> QED
    BY <1>3, <2>1, <2>2, <2>3, <2>4, <2>5, <2>6 DEF RequestStep
<1>4. ASSUME NEW k \in Keys, Reconcile(k) PROVE DocsStay
  BY <1>2, <1>4 DEF Reconcile, Statuses
<1>5. CASE Tick \/ UNCHANGED vars
  BY <1>1, <1>5 DEF Tick, vars
<1>6. ASSUME NEW p \in Requests,
             \/ Crash(p) \/ CompleteThrows(p) \/ CreateThrows(p)
             \/ \E k \in Keys : Admit(p, k)
      PROVE  DocsStay
  BY <1>1, <1>6 DEF Crash, CompleteThrows, CreateThrows, Admit
<1> QED
  BY <1>3, <1>4, <1>5, <1>6 DEF Next

LEMMA ReopenStep == TypeOK /\ ReopenInv /\ [Next]_vars => ReopenInv'
<1> SUFFICES ASSUME TypeOK, ReopenInv, [Next]_vars PROVE ReopenInv'
  OBVIOUS
<1>1. DocsStay
  BY StepStays
<1>2. ASSUME NEW p \in Requests,
             \/ RequestStep(p) \/ \E k \in Keys : Admit(p, k)
             \/ Crash(p) \/ CompleteThrows(p) \/ CreateThrows(p)
      PROVE  ReopenInv'
  <2>1. Alone(p) /\ \A q \in Requests \ {p} : known'[q] = known[q]
    BY <1>2, StepAlone, KnownAlone
  <2>2. ASSUME NEW q \in Requests \ {p} PROVE ReopenAt(q)'
    <3>1. pc'[q] = pc[q] /\ key'[q] = key[q] /\ win'[q] = win[q] /\ known'[q] = known[q]
      BY <2>1 DEF Alone
    <3>2. ReopenAt(q) /\ key[q] \in Keys
      BY DEF ReopenInv, ReopenAt, TypeOK
    <3> QED
      BY <1>1, <3>1, <3>2 DEF ReopenAt, DocsStay, Doc
  <2>3. ReopenAt(p)'
    <3>0. ReopenAt(p) /\ key[p] \in Keys
      BY DEF ReopenInv, ReopenAt, TypeOK
    <3>1. CASE pc'[p] \notin {"holdOwner", "holdApp", "reopen"}
      BY <3>1 DEF ReopenAt
    <3>2. CASE Find(p) /\ pc'[p] = "holdOwner"
      <4>1. /\ Doc(p).status \in {"none", "released"} /\ UNCHANGED <<use, key>>
            /\ known'[p] = (Doc(p).status = "released")
            /\ win'[p] = IF Doc(p).status = "released" THEN Doc(p).win ELSE win[p]
        BY <3>2, LeaveAlone DEF Find, Goto, TypeOK
      <4> QED
        BY <3>2, <4>1 DEF ReopenAt, Doc
    <3>3. CASE HoldOwner(p) /\ pc'[p] = "holdApp"
      <4>1. pc[p] = "holdOwner" /\ UNCHANGED <<use, key, win, known>>
        BY <3>3, LeaveAlone DEF HoldOwner
      <4> QED
        BY <3>0, <3>3, <4>1 DEF ReopenAt, Doc
    <3>4. CASE HoldApp(p) /\ pc'[p] = "reopen"
      <4>1. pc[p] = "holdApp" /\ known[p] /\ UNCHANGED <<use, key, win, known>>
        BY <3>4 DEF HoldApp, Goto, TypeOK
      <4> QED
        BY <3>0, <3>4, <4>1 DEF ReopenAt, Doc
    <3>5. CASE \/ Leave(p)
               \/ \E l \in Labels \ {"holdOwner", "holdApp", "reopen"} : Goto(p, l)
      <4>1. pc'[p] \notin {"holdOwner", "holdApp", "reopen"}
        BY <3>5, LeaveAlone DEF Goto, TypeOK
      <4> QED
        BY <3>1, <4>1
    <3>6. CASE Find(p)
      BY <3>2, <3>5, <3>6 DEF Find, Labels, Goto, TypeOK
    <3>7. CASE HoldOwner(p)
      BY <3>3, <3>5, <3>7 DEF HoldOwner, Goto, TypeOK
    <3>8. CASE HoldApp(p)
      BY <3>1, <3>4, <3>8 DEF HoldApp, Goto, TypeOK
    <3>9. CASE Recover(p) \/ CheckActive(p) \/ Extend(p) \/ Create(p) \/ Reopen(p)
      BY <3>5, <3>9 DEF Recover, CheckActive, Extend, Create, Reopen, Reserve, Labels
    <3>10. CASE Dispatch(p) \/ Call(p) \/ CompleteThrows(p) \/ CreateThrows(p)
      BY <3>5, <3>10 DEF Dispatch, Call, CompleteThrows, CreateThrows, Labels
    <3>11. CASE Lapse(p) \/ Complete(p) \/ MarkUncertain(p) \/ Release(p)
      BY <3>5, <3>11 DEF Lapse, Complete, MarkUncertain, Release, Settle, Released, Labels
    <3>12. CASE Refund(p) \/ Consume(p)
      <4>1. Leave(p) \/ pc'[p] \in {pc[p], "recover"}
        BY <3>12 DEF Refund, Consume, Goto, TypeOK
      <4>2. pc[p] \in {"refundRecovered", "refund", "consume"}
        BY <3>12 DEF Refund, Consume
      <4> QED
        BY <3>1, <3>5, <4>1, <4>2
    <3>13. CASE Crash(p) \/ \E k \in Keys : Admit(p, k)
      BY <3>5, <3>13 DEF Crash, Admit, Labels
    <3> QED
      BY <1>2, <3>6, <3>7, <3>8, <3>9, <3>10, <3>11, <3>12, <3>13 DEF RequestStep
  <2> QED
    BY <2>2, <2>3 DEF ReopenInv, ReopenAt
<1>3. CASE UNCHANGED locals
  BY <1>1, <1>3 DEF ReopenInv, DocsStay, Doc, TypeOK
<1>4. CASE Tick \/ UNCHANGED vars \/ \E k \in Keys : Reconcile(k)
  BY <1>3, <1>4 DEF Tick, vars, Reconcile
<1> QED
  BY <1>2, <1>4 DEF Next

LEMMA InitReopen == Init => ReopenInv
BY DEF Init, ReopenInv

\* No operation is seen to move.
LEMMA PhaseStays ==
  ASSUME UNCHANGED sent,
         \A k \in Keys : Phase(k)' = Phase(k) /\ use'[k].win = use[k].win
  PROVE  [Paid!PaidNext]_(Paid!paidVars)
BY DEF Paid!paidVars

\* One operation is seen to move, and keeps its day.
LEMMA PhaseMoves ==
  ASSUME NEW k \in Keys, UNCHANGED sent,
         \A j \in Keys \ {k} : use'[j] = use[j], use'[k].win = use[k].win,
         <<Phase(k), Phase(k)'>> \in {<<"held", "free">>, <<"free", "held">>,
                                     <<"sent", "free">>, <<"sent", "over">>}
  PROVE  [Paid!PaidNext]_(Paid!paidVars)
<1>1. \A j \in Keys \ {k} : Phase(j)' = Phase(j)
  BY DEF Phase
<1>2. ASSUME NEW from, NEW to, Phase(k) = from, Phase(k)' = to PROVE Paid!Move(k, from, to)
  <2>1. [j \in Keys |-> Phase(j)][k] = from
    BY <1>2
  <2>2. [j \in Keys |-> Phase(j)]' = [[j \in Keys |-> Phase(j)] EXCEPT ![k] = to]
    BY <1>1, <1>2
  <2> QED
    BY <2>1, <2>2 DEF Paid!Move
<1>3. [j \in Keys |-> use[j].win]' = [j \in Keys |-> use[j].win]
  OBVIOUS
<1>4. Paid!Drop(k) \/ Paid!HoldAgain(k) \/ Paid!Refuse(k) \/ Paid!Finish(k)
  BY <1>2, <1>3 DEF Paid!Drop, Paid!HoldAgain, Paid!Refuse, Paid!Finish
<1> QED
  BY <1>4 DEF Paid!PaidNext

\* A new reservation is held, on the day its request was admitted.
LEMMA CreateHolds ==
  ASSUME TypeOK, NEW p \in Requests, Create(p), Reserve(p)
  PROVE  [Paid!PaidNext]_(Paid!paidVars)
<1>0. PICK k \in Keys, d \in Days : key[p] = k /\ win[p] = d
  BY DEF TypeOK
<1>1. /\ use[k].status = "none" /\ UNCHANGED sent
      /\ use'[k].status = "reserved" /\ use'[k].win = d
      /\ \A j \in Keys \ {k} : use'[j] = use[j]
  <2>1. use[key[p]].status = "none" /\ UNCHANGED sent
    BY DEF Create, Doc, Reserve, Goto, TypeOK
  <2>2. /\ use'[key[p]].status = "reserved" /\ use'[key[p]].win = win[p]
        /\ \A j \in Keys \ {key[p]} : use'[j] = use[j]
    BY ReserveAlone DEF Create
  <2> QED
    BY <1>0, <2>1, <2>2
<1>2. Phase(k) = "new" /\ Phase(k)' = "held" /\ \A j \in Keys \ {k} : Phase(j)' = Phase(j)
  BY <1>1 DEF Phase
<1>3. /\ [j \in Keys |-> Phase(j)][k] = "new"
      /\ [j \in Keys |-> Phase(j)]' = [[j \in Keys |-> Phase(j)] EXCEPT ![k] = "held"]
  BY <1>2
<1>4. [j \in Keys |-> use[j].win]' = [[j \in Keys |-> use[j].win] EXCEPT ![k] = d]
  BY <1>1
<1>5. Paid!Hold(k)
  BY <1>1, <1>3, <1>4 DEF Paid!Hold, Paid!Move
<1> QED
  BY <1>5 DEF Paid!PaidNext

\* A reservation takes the room its operation is sent into.
LEMMA ReservedHasRoom ==
  ASSUME TypeOK, CoverInv, NEW k \in Keys, use[k].status = "reserved",
         NEW w \in ScopesOf(k) \X {use[k].win}
  PROVE  sent[w] < LimitOf(w[1])
<1>1. w \in Windows
  <2>1. use[k].win \in Days /\ ScopesOf(k) \in SUBSET Scopes
    BY ScopesAreScopes DEF TypeOK, DocType
  <2> QED
    BY <2>1 DEF Windows
<1>2. /\ k \in Reservations(w)
      /\ Reservations(w) \in SUBSET Keys /\ Holding(w) \in SUBSET Requests
  BY DEF Reservations, Charged, Holding, Owing
<1>3. IsFiniteSet(Reservations(w)) /\ IsFiniteSet(Holding(w))
  BY <1>2, FS_Subset
<1>4. Cardinality(Reservations(w)) \in Nat /\ Cardinality(Holding(w)) \in Nat
  BY <1>3, FS_CardinalityType
<1>5. Cardinality(Reservations(w)) # 0
  BY <1>2, <1>3, FS_EmptySet
<1>6. /\ Counted(w) <= LimitOf(w[1])
      /\ Cardinality(Reservations(w)) + Cardinality(Holding(w)) + sent[w] <= Counted(w)
  BY <1>1 DEF CoverInv
<1>7. Counted(w) \in Nat /\ sent[w] \in Nat /\ LimitOf(w[1]) \in Nat
  BY <1>1 DEF TypeOK, Counted, LimitOf
<1> QED
  BY <1>4, <1>5, <1>6, <1>7

LEMMA DispatchSends ==
  ASSUME TypeOK, CoverInv, NEW p \in Requests, Dispatch(p), CanDispatch(p)
  PROVE  [Paid!PaidNext]_(Paid!paidVars)
<1>0. PICK k \in Keys : key[p] = k
  BY DEF TypeOK
<1>1. /\ use[k].status = "reserved" /\ CountSent(k)
      /\ use' = [use EXCEPT ![k].status = "dispatched", ![k].started = TRUE]
  BY <1>0 DEF Dispatch, CanDispatch, Doc
<1>2. /\ use'[k].status = "dispatched" /\ use'[k].win = use[k].win
      /\ \A j \in Keys \ {k} : use'[j] = use[j]
  BY <1>1 DEF TypeOK, DocType
<1>3. Phase(k) = "held" /\ Phase(k)' = "sent" /\ \A j \in Keys \ {k} : Phase(j)' = Phase(j)
  BY <1>1, <1>2 DEF Phase
<1>4. /\ [j \in Keys |-> Phase(j)][k] = "held"
      /\ [j \in Keys |-> Phase(j)]' = [[j \in Keys |-> Phase(j)] EXCEPT ![k] = "sent"]
  BY <1>3
<1>5. [j \in Keys |-> use[j].win]' = [j \in Keys |-> use[j].win]
  BY <1>2
<1>6. /\ [j \in Keys |-> use[j].win][k] = use[k].win
      /\ ChargedWindows(k, use[k].win) = ScopesOf(k) \X {use[k].win}
  BY DEF ChargedWindows
<1>7. \A w \in ChargedWindows(k, use[k].win) : sent[w] < RoomIn(w)
  BY <1>1, <1>6, ReservedHasRoom DEF RoomIn
<1>8. sent' = [w \in Windows |-> IF w \in ChargedWindows(k, use[k].win)
                                  THEN sent[w] + 1 ELSE sent[w]]
  <2>1. \A w \in Windows : w \in ChargedWindows(k, use[k].win)
                             <=> w[1] \in ScopesOf(k) /\ w[2] = use[k].win
    BY DEF ChargedWindows, Windows
  <2> QED
    BY <1>1, <2>1 DEF CountSent, Windows
<1>9. Paid!Send(k)
  BY <1>4, <1>5, <1>6, <1>7, <1>8 DEF Paid!Send, Paid!Move
<1> QED
  BY <1>9 DEF Paid!PaidNext

LEMMA SettleMoves ==
  ASSUME TypeOK, NEW p \in Requests, NEW s, NEW l, Settle(p, s, l), UNCHANGED sent,
         <<Doc(p).status, s>> \in {<<"reserved", "released">>, <<"dispatched", "released">>,
                                   <<"dispatched", "completed">>, <<"dispatched", "uncertain">>}
  PROVE  [Paid!PaidNext]_(Paid!paidVars)
<1>0. PICK k \in Keys : key[p] = k
  BY DEF TypeOK
<1>1. /\ use'[k].status = s /\ use'[k].win = use[k].win /\ Doc(p).status = use[k].status
      /\ \A j \in Keys \ {k} : use'[j] = use[j]
  <2>1. /\ use'[key[p]].status = s /\ use'[key[p]].win = use[key[p]].win
        /\ \A j \in Keys \ {key[p]} : use'[j] = use[j]
    BY SettleAlone
  <2> QED
    BY <1>0, <2>1 DEF Doc
<1>2. <<Phase(k), Phase(k)'>> \in {<<"held", "free">>, <<"sent", "free">>, <<"sent", "over">>}
  BY <1>1 DEF Phase
<1> QED
  BY <1>1, <1>2, PhaseMoves

LEMMA PaidStep ==
  TypeOK /\ IInv /\ ReopenInv /\ [Next]_vars => [Paid!PaidNext]_(Paid!paidVars)
<1> SUFFICES ASSUME TypeOK, IInv, ReopenInv, [Next]_vars
             PROVE  [Paid!PaidNext]_(Paid!paidVars)
  OBVIOUS
<1> USE DEF IInv
<1>1. CASE UNCHANGED <<use, sent>>
  BY <1>1, PhaseStays DEF Phase
<1>2. ASSUME NEW p \in Requests, RequestStep(p) PROVE [Paid!PaidNext]_(Paid!paidVars)
  <2>1. CASE Recover(p)
    <3>1. ASSUME NEW k \in Keys, Lapsed(k, now[p]), use' = [use EXCEPT ![k].status = "released"],
                 UNCHANGED sent
          PROVE  [Paid!PaidNext]_(Paid!paidVars)
      <4>1. /\ use'[k].win = use[k].win /\ use'[k].status = "released"
            /\ use[k].status = "reserved" /\ \A j \in Keys \ {k} : use'[j] = use[j]
        BY <3>1 DEF TypeOK, DocType, Lapsed
      <4>2. <<Phase(k), Phase(k)'>> = <<"held", "free">>
        BY <4>1 DEF Phase
      <4> QED
        BY <3>1, <4>1, <4>2, PhaseMoves
    <3> QED
      BY <1>1, <2>1, <3>1 DEF Recover
  <2>2. CASE Extend(p)
    <3>1. \A k \in Keys : use'[k].status = use[k].status /\ use'[k].win = use[k].win
      BY <2>2 DEF Extend, TypeOK, DocType
    <3>2. \A k \in Keys : Phase(k)' = Phase(k)
      BY <3>1 DEF Phase
    <3> QED
      BY <2>2, <3>1, <3>2, PhaseStays DEF Extend
  <2>3. CASE Create(p)
    BY <1>1, <2>3, CreateHolds DEF Create
  <2>4. CASE Reopen(p)
    <3>1. CASE Doc(p).status = "released"
      <4>0. PICK k \in Keys : key[p] = k
        BY DEF TypeOK
      <4>1. Reserve(p) /\ UNCHANGED <<key, now, win, sent>> /\ win[p] = Doc(p).win
        BY <2>4, <3>1 DEF Reopen, ReopenInv
      <4>2. /\ use'[key[p]].status = "reserved" /\ use'[key[p]].win = win[p]
            /\ \A j \in Keys \ {key[p]} : use'[j] = use[j]
        BY <4>1, ReserveAlone
      <4>3. /\ use[k].status = "released" /\ use'[k].status = "reserved"
            /\ use'[k].win = use[k].win /\ \A j \in Keys \ {k} : use'[j] = use[j]
        BY <3>1, <4>0, <4>1, <4>2 DEF Doc
      <4>4. <<Phase(k), Phase(k)'>> = <<"free", "held">>
        BY <4>3 DEF Phase
      <4> QED
        BY <4>1, <4>3, <4>4, PhaseMoves
    <3> QED
      BY <1>1, <2>4, <3>1 DEF Reopen
  <2>5. CASE Dispatch(p)
    BY <1>1, <2>5, DispatchSends DEF Dispatch
  <2>6. CASE Lapse(p)
    BY <1>1, <2>6, SettleMoves DEF Lapse
  <2>7. CASE Complete(p) \/ MarkUncertain(p)
    BY <1>1, <2>7, SettleMoves DEF Complete, MarkUncertain
  <2>8. CASE Release(p)
    BY <1>1, <2>8, SettleMoves DEF Release
  <2>9. CASE \/ CheckActive(p) \/ Find(p) \/ HoldOwner(p) \/ HoldApp(p) \/ Call(p)
             \/ Refund(p) \/ Consume(p)
    BY <1>1, <2>9 DEF CheckActive, Find, HoldOwner, HoldApp, Call, Refund, Consume
  <2> QED
    BY <1>2, <2>1, <2>2, <2>3, <2>4, <2>5, <2>6, <2>7, <2>8, <2>9 DEF RequestStep
<1>3. ASSUME NEW k \in Keys, Reconcile(k) PROVE [Paid!PaidNext]_(Paid!paidVars)
  <2>1. /\ use[k].status = "uncertain" /\ use'[k].status = "reconciled"
        /\ use'[k].win = use[k].win /\ \A j \in Keys \ {k} : use'[j] = use[j]
    BY <1>3 DEF Reconcile, TypeOK, DocType
  <2>2. \A j \in Keys : Phase(j)' = Phase(j) /\ use'[j].win = use[j].win
    BY <2>1 DEF Phase
  <2> QED
    BY <1>3, <2>2, PhaseStays DEF Reconcile
<1>4. ASSUME NEW p \in Requests,
             \/ Crash(p) \/ CompleteThrows(p) \/ CreateThrows(p)
             \/ \E k \in Keys : Admit(p, k)
      PROVE  [Paid!PaidNext]_(Paid!paidVars)
  BY <1>1, <1>4 DEF Crash, CompleteThrows, CreateThrows, Admit
<1>5. CASE Tick \/ UNCHANGED vars
  BY <1>1, <1>5 DEF Tick, vars
<1> QED
  BY <1>2, <1>3, <1>4, <1>5 DEF Next

-----------------------------------------------------------------------------
(* The theorems.                                                           *)

\* The invariant of reserveUsage and transitionUsage: the counters stay within the limits
\* and cover everything reserved, held and sent, crashes included.
THEOREM LedgerInvariant == Spec => []IInv
<1>1. Init => TypeOK /\ IInv
  BY InitType, InitInv
<1>2. TypeOK /\ IInv /\ [Next]_vars => (TypeOK /\ IInv)'
  BY NextType, OweStep, SenderStep, CoverStep DEF IInv
<1> QED
  BY <1>1, <1>2, PTL DEF Spec

LEMMA CoverMeans == TypeOK /\ CoverInv => WithinLimit /\ NeverRefunded
<1> SUFFICES ASSUME TypeOK, CoverInv, NEW w \in Windows
             PROVE  sent[w] <= LimitOf(w[1]) /\ sent[w] <= Counted(w)
  BY DEF WithinLimit, NeverRefunded
<1>1. Reservations(w) \in SUBSET Keys /\ Holding(w) \in SUBSET Requests
  BY DEF Reservations, Holding, Owing
<1>2. Cardinality(Reservations(w)) \in Nat /\ Cardinality(Holding(w)) \in Nat
  BY <1>1, FS_Subset, FS_CardinalityType
<1>3. sent[w] \in Nat /\ Counted(w) \in Nat /\ LimitOf(w[1]) \in Nat
  BY DEF TypeOK, Counted, LimitOf
<1> QED
  BY <1>2, <1>3 DEF CoverInv

\* reserveQuota's two conditional updates are enough: no window dispatches more than its
\* limit, for any number of owners, operations, requests and crashes.
THEOREM NeverOverLimit == Spec => []WithinLimit
<1>1. TypeOK /\ IInv => WithinLimit
  BY CoverMeans DEF IInv
<1> QED
  BY <1>1, TypeCorrect, LedgerInvariant, PTL

\* What transitionUsage dispatched stays counted in its windows for good.
THEOREM DispatchedStaysCounted == Spec => []NeverRefunded
<1>1. TypeOK /\ IInv => NeverRefunded
  BY CoverMeans DEF IInv
<1> QED
  BY <1>1, TypeCorrect, LedgerInvariant, PTL

\* The compare-and-set of markAiDispatched admits one sender per operation key.
THEOREM SingleSender == Spec => []OneSender
<1>1. IInv => OneSender
  BY DEF IInv
<1> QED
  BY <1>1, LedgerInvariant, PTL

\* decrementQuota never takes a unit that is not its request's to return: a window's counter
\* is what the open reservations and the requests account for, and a crash loses at most one.
THEOREM EveryUnitAccounted == Spec => []UnitsAccounted
<1>1. Init => UnitsAccounted
  BY InitAccount
<1>2. TypeOK /\ TypeOK' /\ IInv /\ UnitsAccounted /\ [Next]_vars => UnitsAccounted'
  BY AccountStep DEF IInv
<1> QED
  BY <1>1, <1>2, TypeCorrect, LedgerInvariant, PTL DEF Spec

\* reserveUsage and transitionUsage, with every crash and failed call some handler catches,
\* keep what PaidOperations promises: every step of theirs is one of its steps or none.
THEOREM PaysAsPromised == Spec => ImplementsPaidOperations
<1>1. Init => ReopenInv
  BY InitReopen
<1>2. TypeOK /\ ReopenInv /\ [Next]_vars => ReopenInv'
  BY ReopenStep
<1>3. Init => Paid!PaidInit
  <2> SUFFICES ASSUME Init PROVE Paid!PaidInit
    OBVIOUS
  <2>1. \A k \in Keys : Phase(k) = "new" /\ use[k].win = 0
    BY DEF Init, Absent, Phase
  <2> QED
    BY <2>1 DEF Init, Paid!PaidInit, Windows
<1>4. TypeOK /\ IInv /\ ReopenInv /\ [Next]_vars => [Paid!PaidNext]_(Paid!paidVars)
  BY PaidStep
<1> QED
  BY <1>1, <1>2, <1>3, <1>4, TypeCorrect, LedgerInvariant, PTL
     DEF Spec, ImplementsPaidOperations, Paid!PaidSpec
=============================================================================
