-------------------------- MODULE RequestRunsProofs ---------------------------
(***************************************************************************)
(* Theorems about RequestRuns, for any callers, converters, appliers,      *)
(* readers, versions and faults.                                           *)
(***************************************************************************)
EXTENDS RequestRuns, TLAPS

USE RequestAssumption DEF RequestAssumption

CallerRecs == [at : {"idle", "find", "expire", "sources", "create", "retrieve", "admit",
                     "call", "check", "record", "fail", "doubt", "answered", "refused"},
               print : Prints, ver : 0..MaxVer, rev : 0..MaxVer, stale : BOOLEAN]

\* From the insert of the record to the write of its outcome a call owns the run.
Unpaid == {"retrieve", "admit"}
Paid == {"call", "check", "record"}
Owning == Unpaid \cup Paid \cup {"fail", "doubt"}

\* One call owns the run, the run is of its request, and has not succeeded yet.
OneOwner ==
    /\ \A p, q \in Callers : caller[p].at \in Owning /\ caller[q].at \in Owning => p = q
    /\ \A p \in Callers : caller[p].at \in Owning =>
          run.status \notin {"none", "succeeded"} /\ run.print = caller[p].print

\* The provider is called by the owner alone.
OwnerPays ==
    /\ sent # 0 => run.status # "none"
    /\ run.status = "succeeded" => sent = 1
    /\ \A p \in Callers : /\ caller[p].at \in Unpaid => sent = 0
                          /\ caller[p].at \in Paid => sent = 1

\* Who is answered, or writes an expiry, has found the record.
Found ==
    \A p \in Callers :
        /\ caller[p].at = "answered" => run.status # "none" /\ run.print = caller[p].print
        /\ caller[p].at = "expire" => run.status # "none" /\ kind = "planning"

\* An application has read a review that succeeded, which it stays.
AppliesSucceeded ==
    \A a \in Appliers : applier[a] \in {"evidence", "write"} => kind = "review" /\ run.status = "succeeded"

MarksMade == (marked => made = 1) /\ \A c \in Converters : converter[c] = "mark" => made = 1

RunInv == OneOwner /\ OwnerPays /\ Found
IInv == TypeOK /\ RunInv /\ AppliesSucceeded /\ MarksMade

-----------------------------------------------------------------------------
(* A step of a call that leaves the run and the provider alone.             *)

Quiet(p) ==
    /\ caller' \in [Callers -> CallerRecs]
    /\ \A q \in Callers : q # p => caller'[q] = caller[q]
    /\ caller'[p].at \in Owning => caller[p].at \in Owning /\ caller'[p].print = caller[p].print
    /\ caller'[p].at \in Unpaid => caller[p].at \in Unpaid
    /\ caller'[p].at \in Paid => sent = 1
    /\ caller'[p].at = "answered" => run.status # "none" /\ run.print = caller'[p].print
    /\ caller'[p].at = "expire" => run.status # "none" /\ kind = "planning"

\* Such a step keeps the invariant of the run.
LEMMA QuietKeeps ==
    ASSUME RunInv, NEW p \in Callers, Quiet(p), UNCHANGED <<kind, run, sent>>
    PROVE  RunInv'
<1> USE DEF RunInv
<1>1. OneOwner'
  <2>1. ASSUME NEW u \in Callers, NEW v \in Callers, caller'[u].at \in Owning, caller'[v].at \in Owning
        PROVE  u = v
    BY <2>1 DEF Quiet, OneOwner
  <2>2. ASSUME NEW u \in Callers, caller'[u].at \in Owning
        PROVE  run'.status \notin {"none", "succeeded"} /\ run'.print = caller'[u].print
    <3>1. CASE u = p
      BY <2>2, <3>1 DEF Quiet, OneOwner
    <3>2. CASE u # p
      BY <2>2, <3>2 DEF Quiet, OneOwner
    <3> QED BY <3>1, <3>2
  <2> QED BY <2>1, <2>2 DEF OneOwner
<1>2. OwnerPays'
  <2>1. ASSUME NEW u \in Callers
        PROVE  (caller'[u].at \in Unpaid => sent' = 0) /\ (caller'[u].at \in Paid => sent' = 1)
    <3>1. CASE u = p
      BY <3>1 DEF Quiet, OwnerPays
    <3>2. CASE u # p
      BY <3>2 DEF Quiet, OwnerPays
    <3> QED BY <3>1, <3>2
  <2> QED BY <2>1 DEF OwnerPays
<1>3. Found'
  <2>1. ASSUME NEW u \in Callers
        PROVE  /\ caller'[u].at = "answered" => run'.status # "none" /\ run'.print = caller'[u].print
               /\ caller'[u].at = "expire" => run'.status # "none" /\ kind' = "planning"
    <3>1. CASE u = p
      BY <3>1 DEF Quiet, Found
    <3>2. CASE u # p
      BY <3>2 DEF Quiet, Found
    <3> QED BY <3>1, <3>2
  <2> QED BY <2>1 DEF Found
<1> QED BY <1>1, <1>2, <1>3

-----------------------------------------------------------------------------
(* The steps of a call.                                                     *)

\* What a call's steps make of it is a call's.
LEMMA FingerprintType ==
    ASSUME TypeOK, NEW input \in {"x", "y"}
    PROVE  FingerprintOf(input, rev, text) \in Prints
BY DEF TypeOK, FingerprintOf, Prints, Versions

LEMMA IdleType == Idle \in CallerRecs /\ NoPrint \in Prints
BY DEF Idle, NoPrint, CallerRecs, Prints

LEMMA AtMoves ==
    ASSUME TypeOK, NEW p \in Callers, NEW place \in Owning \cup {"expire", "sources"}, At(p, place)
    PROVE  /\ caller' \in [Callers -> CallerRecs]
           /\ \A q \in Callers : q # p => caller'[q] = caller[q]
           /\ caller'[p].at = place /\ caller'[p].print = caller[p].print
<1>1. caller \in [Callers -> CallerRecs]
  BY DEF TypeOK, CallerRecs
<1>2. PICK u \in CallerRecs : u = caller[p]
  BY <1>1
<1> DEFINE v == [u EXCEPT !.at = place]
<1>3. v \in CallerRecs
  BY DEF CallerRecs, Owning, Unpaid, Paid
<1>4. v.at = place /\ v.print = u.print
  BY DEF CallerRecs
<1>5. caller' = [caller EXCEPT ![p] = v]
  BY <1>2 DEF At
<1> HIDE DEF v
<1> QED BY <1>1, <1>2, <1>3, <1>4, <1>5

LEMMA EndsMoves ==
    ASSUME TypeOK, NEW p \in Callers, NEW place \in {"idle", "answered", "refused"}, Ends(p, place)
    PROVE  /\ caller' \in [Callers -> CallerRecs]
           /\ \A q \in Callers : q # p => caller'[q] = caller[q]
           /\ caller'[p].at = place
           /\ place = "answered" => caller'[p].print = caller[p].print
<1>1. caller \in [Callers -> CallerRecs] /\ caller[p].print \in Prints
  BY DEF TypeOK, CallerRecs
<1> DEFINE v == [Idle EXCEPT !.at = place, !.print = IF place = "answered" THEN caller[p].print ELSE NoPrint]
<1>3. v \in CallerRecs
  BY <1>1, IdleType DEF CallerRecs
<1>4. v.at = place /\ (place = "answered" => v.print = caller[p].print)
  BY DEF Idle
<1>5. caller' = [caller EXCEPT ![p] = v]
  BY DEF Ends
<1> HIDE DEF v
<1> QED BY <1>1, <1>3, <1>4, <1>5

\* A call that is answered at once, or refused.
LEMMA AnswerQuiet ==
    ASSUME TypeOK, NEW p \in Callers, Answer(p), run.status # "none"
    PROVE  Quiet(p)
<1>1. CASE SameRequest(p)
  BY <1>1, EndsMoves DEF Answer, Quiet, SameRequest, Owning, Unpaid, Paid
<1>2. CASE ~SameRequest(p)
  BY <1>2, EndsMoves DEF Answer, Quiet, SameRequest, Owning, Unpaid, Paid
<1> QED BY <1>1, <1>2

LEMMA EndsQuiet ==
    ASSUME TypeOK, NEW p \in Callers, NEW place \in {"idle", "refused"}, Ends(p, place)
    PROVE  Quiet(p)
BY EndsMoves DEF Quiet, Owning, Unpaid, Paid

LEMMA BeginQuiet ==
    ASSUME TypeOK, NEW p \in Callers, Begin(p)
    PROVE  Quiet(p)
<1>1. PICK input \in {"x", "y"} :
         caller' = [caller EXCEPT ![p] = [Idle EXCEPT !.at = "find", !.print = FingerprintOf(input, rev, text),
                                                      !.rev = rev]]
  BY DEF Begin
<1>6. FingerprintOf(input, rev, text) \in Prints /\ rev \in 0..MaxVer
  BY FingerprintType DEF TypeOK, Versions
<1> DEFINE v == [Idle EXCEPT !.at = "find", !.print = FingerprintOf(input, rev, text), !.rev = rev]
<1>2. v \in CallerRecs
  BY <1>6, IdleType DEF CallerRecs
<1>3. v.at = "find"
  BY DEF Idle
<1>4. caller' = [caller EXCEPT ![p] = v]
  BY <1>1
<1>5. caller \in [Callers -> CallerRecs]
  BY DEF TypeOK, CallerRecs
<1> HIDE DEF v
<1> QED BY <1>2, <1>3, <1>4, <1>5 DEF Quiet, Owning, Unpaid, Paid

LEMMA FindQuiet ==
    ASSUME TypeOK, NEW p \in Callers, Find(p)
    PROVE  Quiet(p)
<1>1. CASE At(p, "sources")
  BY <1>1, AtMoves DEF Quiet, Owning, Unpaid, Paid
<1>2. CASE run.status # "none" /\ Expires /\ At(p, "expire")
  BY <1>2, AtMoves DEF Quiet, Owning, Unpaid, Paid, Expires
<1>3. CASE run.status # "none" /\ Answer(p)
  BY <1>3, AnswerQuiet
<1> QED BY <1>1, <1>2, <1>3 DEF Find

LEMMA SourcesQuiet ==
    ASSUME TypeOK, NEW p \in Callers, Sources(p)
    PROVE  Quiet(p)
<1>1. CASE Ends(p, "refused")
  BY <1>1, EndsQuiet
<1>2. CASE caller' = [caller EXCEPT ![p] = [@ EXCEPT !.at = "create", !.ver = source.ver]]
  <2>1. caller \in [Callers -> CallerRecs]
    BY DEF TypeOK, CallerRecs
  <2>2. PICK u \in CallerRecs : u = caller[p]
    BY <2>1
  <2> DEFINE v == [u EXCEPT !.at = "create", !.ver = source.ver]
  <2>3. source.ver \in 0..MaxVer
    BY DEF TypeOK, Versions
  <2>4. v \in CallerRecs
    BY <2>3 DEF CallerRecs
  <2>5. v.at = "create"
    BY DEF CallerRecs
  <2>6. caller' = [caller EXCEPT ![p] = v]
    BY <1>2, <2>2
  <2> HIDE DEF v
  <2> QED BY <2>1, <2>4, <2>5, <2>6 DEF Quiet, Owning, Unpaid, Paid
<1> QED BY <1>1, <1>2 DEF Sources

LEMMA CheckQuiet ==
    ASSUME TypeOK, OwnerPays, NEW p \in Callers, Check(p)
    PROVE  Quiet(p)
<1>1. caller \in [Callers -> CallerRecs]
  BY DEF TypeOK, CallerRecs
<1>2. PICK u \in CallerRecs : u = caller[p]
  BY <1>1
<1>3. PICK late \in BOOLEAN : late = Changed(p)
  BY DEF Changed, BriefChanged, PlanChanged, ReviewChanged, TypeOK
<1> DEFINE v == [u EXCEPT !.at = "record", !.stale = late]
<1>4. v \in CallerRecs
  BY DEF CallerRecs
<1>5. v.at = "record" /\ v.print = u.print
  BY DEF CallerRecs
<1>6. caller' = [caller EXCEPT ![p] = v]
  BY <1>2, <1>3 DEF Check
<1> HIDE DEF v
<1> QED BY <1>1, <1>2, <1>4, <1>5, <1>6 DEF Check, OwnerPays, Quiet, Owning, Unpaid, Paid

LEMMA CallQuiet ==
    ASSUME TypeOK, OwnerPays, NEW p \in Callers, Retrieve(p) \/ Call(p)
    PROVE  Quiet(p)
<1>1. PICK place \in {"admit", "check", "fail", "doubt"} :
         /\ At(p, place)
         /\ place = "admit" => caller[p].at \in Unpaid
         /\ place = "check" => caller[p].at \in Paid
  BY DEF Retrieve, Call, Fails, Unpaid, Paid
<1>2. caller[p].at \in Owning
  BY DEF Retrieve, Call, Owning, Unpaid, Paid
<1> QED BY <1>1, <1>2, AtMoves DEF Quiet, OwnerPays, Owning, Unpaid, Paid

\* What a call does without having or making a record, or while it waits for the provider.
LEMMA QuietWork ==
    ASSUME TypeOK, OwnerPays, NEW p \in Callers,
           \/ Begin(p) \/ Find(p) \/ Sources(p) \/ Retrieve(p) \/ Call(p) \/ Check(p) \/ Again(p) \/ Dies(p)
           \/ CreateRun(p) /\ ~IsNew
           \/ Admit(p) /\ UNCHANGED ledger
    PROVE  Quiet(p) /\ UNCHANGED <<kind, run, sent>>
<1>1. UNCHANGED <<kind, run, sent>>
  BY DEF Begin, Find, Sources, Retrieve, Call, Check, Again, Dies, CreateRun, Admit, ledger
<1> SUFFICES Quiet(p)
  BY <1>1
<1>2. CASE Begin(p) \/ Find(p) \/ Sources(p) \/ Check(p)
  BY <1>2, BeginQuiet, FindQuiet, SourcesQuiet, CheckQuiet
<1>3. CASE Retrieve(p) \/ Call(p)
  BY <1>3, CallQuiet
<1>4. CASE Again(p) \/ Dies(p)
  BY <1>4, EndsQuiet DEF Again, Dies
<1>5. CASE CreateRun(p) /\ ~IsNew
  BY <1>5, AnswerQuiet DEF CreateRun, IsNew
<1>6. CASE Admit(p) /\ UNCHANGED ledger
  <2>1. sent + 1 # sent
    BY DEF TypeOK
  <2>2. Ends(p, "refused")
    BY <1>6, <2>1 DEF Admit, ledger
  <2> QED BY <2>2, EndsQuiet
<1> QED BY <1>2, <1>3, <1>4, <1>5, <1>6

\* The record is made: nobody owned it or had found it.
LEMMA CreateKeeps ==
    ASSUME TypeOK, RunInv, NEW p \in Callers, CreateRun(p), IsNew
    PROVE  RunInv'
<1> USE DEF RunInv
<1>1. PICK place \in Unpaid : At(p, place)
  BY DEF CreateRun, Unpaid
<1>2. /\ \A q \in Callers : q # p => caller'[q] = caller[q]
      /\ caller'[p].at \in Unpaid /\ caller'[p].print = caller[p].print
  BY <1>1, AtMoves DEF Owning
<1>3. run'.status = "running" /\ run'.print = caller[p].print
  BY DEF CreateRun, NoRun
<1>4. \A q \in Callers : caller[q].at \notin Owning \cup {"answered", "expire"}
  BY DEF IsNew, OneOwner, Found
<1>5. sent = 0 /\ UNCHANGED <<kind, sent>>
  BY DEF IsNew, OwnerPays, CreateRun, ledger
<1>6. \A q \in Callers : caller'[q].at \in Owning \cup {"answered", "expire"} => q = p
  BY <1>2, <1>4
<1>7. OneOwner'
  <2>1. ASSUME NEW q \in Callers, caller'[q].at \in Owning PROVE q = p
    BY <2>1, <1>6
  <2> QED BY <2>1, <1>2, <1>3 DEF OneOwner
<1>8. OwnerPays'
  BY <1>2, <1>3, <1>5, <1>6 DEF OwnerPays, Owning, Unpaid, Paid
<1>9. Found'
  BY <1>2, <1>3, <1>6 DEF Found, Unpaid
<1> QED BY <1>7, <1>8, <1>9

\* The provider is called by the owner, for the first time.
LEMMA AdmitKeeps ==
    ASSUME TypeOK, RunInv, NEW p \in Callers, Admit(p), sent' = sent + 1, At(p, "call")
    PROVE  RunInv' /\ sent' = 1
<1> USE DEF RunInv
<1>1. /\ \A q \in Callers : q # p => caller'[q] = caller[q]
      /\ caller'[p].at = "call" /\ caller'[p].print = caller[p].print
  BY AtMoves DEF Owning, Paid
<1>2. caller[p].at = "admit" /\ UNCHANGED <<kind, run>>
  BY DEF Admit
<1>3. sent' = 1
  BY <1>2 DEF OwnerPays, Unpaid
<1>4. \A q \in Callers : caller'[q].at \in Owning => q = p
  BY <1>1, <1>2 DEF OneOwner, Owning, Unpaid
<1>5. run.status \notin {"none", "succeeded"} /\ run.print = caller[p].print
  BY <1>2 DEF OneOwner, Owning, Unpaid
<1>6. OneOwner'
  <2>1. ASSUME NEW q \in Callers, caller'[q].at \in Owning PROVE q = p
    BY <2>1, <1>4
  <2> QED BY <2>1, <1>1, <1>2, <1>5 DEF OneOwner
<1>7. OwnerPays'
  BY <1>1, <1>2, <1>3, <1>4, <1>5 DEF OwnerPays, Owning, Unpaid, Paid
<1>8. Found'
  BY <1>1, <1>2 DEF Found
<1> QED BY <1>3, <1>6, <1>7, <1>8

\* The outcome is written by the owner, who has it no more.
LEMMA RecordKeeps ==
    ASSUME TypeOK, RunInv, NEW p \in Callers, Record(p)
    PROVE  RunInv'
<1> USE DEF RunInv
<1>1. PICK place \in {"answered", "refused"} :
         Ends(p, place) /\ (place = "answered" <=> caller[p].at = "record")
  BY DEF Record
<1>2. /\ \A q \in Callers : q # p => caller'[q] = caller[q]
      /\ caller'[p].at = place
      /\ place = "answered" => caller'[p].print = caller[p].print
  BY <1>1, EndsMoves
<1>3. caller[p].at \in Owning /\ UNCHANGED <<kind, sent>>
  BY DEF Record, Owning, Paid, ledger
<1>4. \A q \in Callers : caller'[q].at \notin Owning
  BY <1>2, <1>3 DEF OneOwner, Owning, Unpaid, Paid
<1>5. run.status # "none" /\ run.print = caller[p].print
  BY <1>3 DEF OneOwner
<1>6. /\ run'.print = run.print
      /\ run'.status \in {"succeeded", "failed", "uncertain"}
      /\ run'.status = "succeeded" => caller[p].at = "record"
  BY DEF Record, TypeOK
<1>7. OneOwner'
  BY <1>4 DEF OneOwner
<1>8. OwnerPays'
  BY <1>3, <1>4, <1>6 DEF OwnerPays, Owning, Paid
<1>9. Found'
  <2>1. ASSUME NEW q \in Callers
        PROVE  /\ caller'[q].at = "answered" => run'.status # "none" /\ run'.print = caller'[q].print
               /\ caller'[q].at = "expire" => run'.status # "none" /\ kind' = "planning"
    <3>1. CASE q = p
      BY <3>1, <1>1, <1>2, <1>5, <1>6
    <3>2. CASE q # p
      BY <3>2, <1>2, <1>3, <1>6 DEF Found
    <3> QED BY <3>1, <3>2
  <2> QED BY <2>1 DEF Found
<1> QED BY <1>7, <1>8, <1>9

\* An expiry is written over a record, whoever owns it.
LEMMA ExpireKeeps ==
    ASSUME TypeOK, RunInv, NEW p \in Callers, Expire(p)
    PROVE  RunInv' /\ run.status # "none" /\ kind = "planning"
<1> USE DEF RunInv
<1>1. run.status # "none" /\ kind = "planning" /\ UNCHANGED <<kind, sent>>
  BY DEF Expire, Found, ledger
<1>2. run'.status = "uncertain" /\ run'.print = run.print
  BY DEF Expire, TypeOK
<1>3. Quiet(p)
  BY <1>1, AnswerQuiet DEF Expire
<1>4. caller'[p].at \notin Owning \cup {"expire"}
  <2>1. PICK place \in {"answered", "refused"} : Ends(p, place)
    BY DEF Expire, Answer
  <2> QED BY <2>1, EndsMoves DEF Owning, Unpaid, Paid
<1>5. OneOwner'
  <2>1. ASSUME NEW u \in Callers, NEW v \in Callers, caller'[u].at \in Owning, caller'[v].at \in Owning
        PROVE  u = v
    BY <2>1, <1>3, <1>4 DEF Quiet, OneOwner
  <2>2. ASSUME NEW u \in Callers, caller'[u].at \in Owning
        PROVE  run'.status \notin {"none", "succeeded"} /\ run'.print = caller'[u].print
    BY <2>2, <1>2, <1>3, <1>4 DEF Quiet, OneOwner
  <2> QED BY <2>1, <2>2 DEF OneOwner
<1>6. OwnerPays'
  BY <1>1, <1>2, <1>3, <1>4 DEF Quiet, OwnerPays, Owning
<1>7. Found'
  <2>1. ASSUME NEW u \in Callers
        PROVE  /\ caller'[u].at = "answered" => run'.status # "none" /\ run'.print = caller'[u].print
               /\ caller'[u].at = "expire" => run'.status # "none" /\ kind' = "planning"
    <3>1. CASE u = p
      BY <3>1, <1>1, <1>2, <1>3 DEF Quiet
    <3>2. CASE u # p
      BY <3>2, <1>1, <1>2, <1>3 DEF Quiet, Found
    <3> QED BY <3>1, <3>2
  <2> QED BY <2>1 DEF Found
<1> QED BY <1>1, <1>5, <1>6, <1>7

-----------------------------------------------------------------------------
(* Types.                                                                   *)

Runs == [status : {"none", "running", "succeeded", "failed", "uncertain"}, print : Prints,
         ver : 0..MaxVer, rev : 0..MaxVer, stale : BOOLEAN, old : BOOLEAN]

\* The call's own record stays one in each of its steps.
LEMMA CallerType ==
    ASSUME TypeOK, RunInv, NEW p \in Callers, Work(p) \/ Dies(p)
    PROVE  caller' \in [Callers -> CallerRecs]
<1> USE DEF RunInv
<1>1. CASE Begin(p) \/ Find(p) \/ Sources(p) \/ Retrieve(p) \/ Call(p) \/ Check(p) \/ Again(p) \/ Dies(p)
  BY <1>1, QuietWork DEF Quiet
<1>2. CASE Expire(p)
  BY <1>2, EndsMoves DEF Expire, Answer
<1>3. CASE CreateRun(p)
  <2>1. CASE IsNew
    BY <1>3, <2>1, AtMoves DEF CreateRun, Owning, Unpaid
  <2>2. CASE ~IsNew
    BY <1>3, <2>2, QuietWork DEF Quiet
  <2> QED BY <2>1, <2>2
<1>4. CASE Admit(p)
  BY <1>4, AtMoves, EndsMoves DEF Admit, Owning, Paid
<1>5. CASE Record(p)
  BY <1>5, EndsMoves DEF Record
<1> QED BY <1>1, <1>2, <1>3, <1>4, <1>5 DEF Work

\* So does the record of the run.
LEMMA RunType ==
    ASSUME TypeOK, RunInv, NEW p \in Callers, Work(p) \/ Dies(p)
    PROVE  run' \in Runs
<1>1. run \in Runs
  BY DEF TypeOK, Runs
<1>2. PICK u \in Runs : u = run
  BY <1>1
<1>3. CASE UNCHANGED run
  BY <1>1, <1>3
<1>4. CASE Expire(p)
  BY <1>1, <1>4 DEF Expire, Runs
<1>5. CASE CreateRun(p) /\ IsNew
  <2>1. caller[p].print \in Prints /\ caller[p].ver \in 0..MaxVer /\ caller[p].rev \in 0..MaxVer
    BY DEF TypeOK
  <2>2. NoRun \in Runs
    BY IdleType DEF NoRun, Runs
  <2>3. run' = [NoRun EXCEPT !.status = "running", !.print = caller[p].print, !.ver = caller[p].ver,
                             !.rev = caller[p].rev]
    BY <1>5 DEF CreateRun
  <2> QED BY <2>1, <2>2, <2>3 DEF Runs
<1>6. CASE Record(p)
  <2>1. caller[p].stale \in BOOLEAN
    BY DEF TypeOK
  <2>2. CASE run' = [run EXCEPT !.status = "succeeded", !.stale = caller[p].stale]
    BY <1>1, <2>1, <2>2 DEF Runs
  <2>3. CASE run' = [run EXCEPT !.status = "failed"]
    BY <1>1, <2>3 DEF Runs
  <2>4. CASE run' = [run EXCEPT !.status = "uncertain"]
    BY <1>1, <2>4 DEF Runs
  <2> QED BY <1>6, <2>2, <2>3, <2>4 DEF Record
<1> QED
  BY <1>3, <1>4, <1>5, <1>6
  DEF Work, Begin, Find, Sources, CreateRun, Retrieve, Admit, Call, Check, Again, Dies

\* A step of a call keeps the types and the invariant of the run.
LEMMA WorkKeeps ==
    ASSUME TypeOK, RunInv, NEW p \in Callers, Work(p) \/ Dies(p)
    PROVE  TypeOK' /\ RunInv'
<1>1. RunInv' /\ sent' \in 0..1
  <2>1. CASE Begin(p) \/ Find(p) \/ Sources(p) \/ Retrieve(p) \/ Call(p) \/ Check(p) \/ Again(p) \/ Dies(p)
    BY <2>1, QuietWork, QuietKeeps DEF RunInv, TypeOK
  <2>2. CASE Expire(p)
    BY <2>2, ExpireKeeps DEF Expire, ledger, TypeOK
  <2>3. CASE CreateRun(p)
    <3>1. CASE IsNew
      BY <2>3, <3>1, CreateKeeps DEF CreateRun, ledger, TypeOK
    <3>2. CASE ~IsNew
      BY <2>3, <3>2, QuietWork, QuietKeeps DEF RunInv, TypeOK
    <3> QED BY <3>1, <3>2
  <2>4. CASE Admit(p)
    <3>1. CASE UNCHANGED ledger
      BY <2>4, <3>1, QuietWork, QuietKeeps DEF RunInv, TypeOK
    <3>2. CASE sent' = sent + 1 /\ At(p, "call")
      BY <2>4, <3>2, AdmitKeeps
    <3> QED BY <2>4, <3>1, <3>2 DEF Admit
  <2>5. CASE Record(p)
    BY <2>5, RecordKeeps DEF Record, ledger, TypeOK
  <2> QED BY <2>1, <2>2, <2>3, <2>4, <2>5 DEF Work
<1>2. caller' \in [Callers -> CallerRecs] /\ run' \in Runs
  BY CallerType, RunType
<1>3. op' \in {"none", "dispatched", "completed", "released", "uncertain"}
  BY DEF TypeOK, Work, Begin, Find, Expire, Sources, CreateRun, Retrieve, Admit, Call, Check, Record, Again, Dies, ledger
<1>4. faults' \in 0..MaxFaults
  <2>1. CASE UNCHANGED faults
    BY <2>1 DEF TypeOK
  <2>2. CASE Dies(p)
    BY <2>2 DEF TypeOK, Dies
  <2> QED BY <2>1, <2>2 DEF Work, Begin, Find, Expire, Sources, CreateRun, Retrieve, Admit, Call, Check, Record, Again
<1>5. UNCHANGED <<kind, inputs, converter, applier, reader, made, marked, applied>>
  BY DEF Work, Begin, Find, Expire, Sources, CreateRun, Retrieve, Admit, Call, Check, Record, Again, Dies
<1> QED BY <1>1, <1>2, <1>3, <1>4, <1>5 DEF TypeOK, CallerRecs, Runs, inputs

-----------------------------------------------------------------------------
(* The other steps.                                                         *)

\* A step that leaves the calls, the status of the run and its request alone.
LEMMA RunStays ==
    ASSUME RunInv, UNCHANGED <<kind, caller, sent>>, run'.status = run.status, run'.print = run.print
    PROVE  RunInv'
BY DEF RunInv, OneOwner, OwnerPays, Found

\* What happens to the inputs, the age of a plan and the staleness of a run.
LEMMA WorldKeeps ==
    ASSUME IInv, Around \/ GrowsOld \/ \E r \in Readers : Read(r)
    PROVE  IInv'
<1> USE DEF IInv
<1>1. UNCHANGED <<kind, ledger, caller, converter, applier, made, marked, applied, faults>>
  BY DEF Around, GrowsOld, Read, actors
<1>2. run' \in Runs /\ run'.status = run.status /\ run'.print = run.print
  <2>1. PICK u \in Runs : u = run
    BY DEF TypeOK, Runs
  <2>2. CASE UNCHANGED run
    BY <2>1, <2>2
  <2>3. CASE run' = [run EXCEPT !.old = TRUE]
    BY <2>1, <2>3 DEF Runs
  <2>4. ASSUME NEW b \in BOOLEAN, run' = [run EXCEPT !.stale = b]
        PROVE  run' \in Runs /\ run'.status = run.status /\ run'.print = run.print
    BY <2>1, <2>4 DEF Runs
  <2>5. CASE \E r \in Readers : Read(r)
    <3>1. PICK r \in Readers : Read(r)
      BY <2>5
    <3>2. (reader[r] = "stale") \in BOOLEAN
      OBVIOUS
    <3> QED BY <3>1, <3>2, <2>2, <2>4 DEF Read
  <2> QED BY <2>2, <2>3, <2>5 DEF Around, GrowsOld
<1>3. source' \in [ver : Versions, ready : BOOLEAN, there : BOOLEAN]
  <2>1. PICK u \in [ver : Versions, ready : BOOLEAN, there : BOOLEAN] : u = source
    BY DEF TypeOK
  <2>2. CASE UNCHANGED source
    BY <2>1, <2>2
  <2>3. CASE source.ver < MaxVer /\ source' = [source EXCEPT !.ver = @ + 1, !.ready = FALSE]
    <3> DEFINE n == source.ver + 1
    <3>1. n \in Versions
      BY <2>1, <2>3 DEF Versions
    <3>2. source' = [u EXCEPT !.ver = n, !.ready = FALSE]
      BY <2>1, <2>3
    <3> HIDE DEF n
    <3> QED BY <3>1, <3>2
  <2>4. CASE source' = [source EXCEPT !.ready = TRUE] \/ source' = [source EXCEPT !.there = FALSE]
    BY <2>1, <2>4
  <2>5. CASE Around
    BY <2>2, <2>3, <2>4, <2>5 DEF Around
  <2>6. CASE GrowsOld \/ \E r \in Readers : Read(r)
    BY <2>2, <2>6 DEF GrowsOld, Read, inputs
  <2> QED BY <2>5, <2>6
<1>4. rev' \in Versions /\ text' \in Versions
  BY DEF TypeOK, Versions, Around, GrowsOld, Read, inputs
<1>5. reader' \in [Readers -> {"idle", "stale", "fresh"}]
  BY DEF TypeOK, Around, GrowsOld, Read, actors, To
<1>6. TypeOK'
  BY <1>1, <1>2, <1>3, <1>4, <1>5 DEF TypeOK, Runs, ledger
<1>7. RunInv'
  BY <1>1, <1>2, RunStays DEF ledger
<1> QED BY <1>1, <1>2, <1>6, <1>7 DEF AppliesSucceeded, MarksMade

\* A step of an application: it goes on from a review that has succeeded.
LEMMA ApplyKeeps ==
    ASSUME IInv, NEW a \in Appliers, ApplyRead(a) \/ ApplyEvidence(a) \/ ApplyWrite(a)
    PROVE  IInv'
<1> USE DEF IInv
<1>1. UNCHANGED <<kind, source, rev, run, ledger, caller, converter, reader, made, marked, faults>>
  BY DEF ApplyRead, ApplyEvidence, ApplyWrite, inputs
<1>2. text' \in Versions /\ applied' \in BOOLEAN
  BY DEF TypeOK, ApplyRead, ApplyEvidence, ApplyWrite, inputs
<1>3. PICK place \in {"evidence", "write", "done"} :
         /\ applier' = [applier EXCEPT ![a] = place]
         /\ place \in {"evidence", "write"} => kind = "review" /\ run.status = "succeeded"
  BY DEF ApplyRead, ApplyEvidence, ApplyWrite, To, AppliesSucceeded
<1>4. applier' \in [Appliers -> {"idle", "evidence", "write", "done"}]
  BY <1>3 DEF TypeOK
<1>5. \A x \in Appliers : applier'[x] = IF x = a THEN place ELSE applier[x]
  BY <1>3 DEF TypeOK
<1>6. TypeOK'
  BY <1>1, <1>2, <1>4 DEF TypeOK, ledger
<1>7. RunInv'
  BY <1>1, RunStays DEF ledger
<1>8. AppliesSucceeded'
  BY <1>1, <1>3, <1>5 DEF AppliesSucceeded
<1> QED BY <1>1, <1>6, <1>7, <1>8 DEF MarksMade

\* A step of a conversion: what is marked has been made.
LEMMA ConvertKeeps ==
    ASSUME IInv, NEW c \in Converters,
           ConvertRead(c) \/ ConvertSources(c) \/ ConvertMake(c) \/ ConvertMark(c)
    PROVE  IInv'
<1> USE DEF IInv
<1>1. UNCHANGED <<kind, inputs, run, ledger, caller, applier, reader, applied>>
  BY DEF ConvertRead, ConvertSources, ConvertMake, ConvertMark
<1>2. PICK place \in {"sources", "make", "mark", "done"} :
         /\ converter' = [converter EXCEPT ![c] = place]
         /\ place = "mark" => made' = 1
  <2>1. CASE ConvertRead(c) \/ ConvertSources(c) \/ ConvertMark(c)
    BY <2>1 DEF ConvertRead, ConvertSources, ConvertMark, To
  <2>2. CASE ConvertMake(c) /\ Makes
    BY <2>2 DEF ConvertMake, To, Makes
  <2>3. CASE ConvertMake(c) /\ ~Makes
    BY <2>3 DEF ConvertMake, To
  <2> QED BY <2>1, <2>2, <2>3
<1>3. made' \in 0..1 /\ (made = 1 => made' = 1)
  BY DEF TypeOK, ConvertRead, ConvertSources, ConvertMake, ConvertMark, Makes
<1>4. marked' \in BOOLEAN /\ faults' \in 0..MaxFaults
  <2>1. CASE ConvertMark(c)
    <3>1. marked' \in BOOLEAN
      BY <2>1, Zenon DEF TypeOK, ConvertMark
    <3>2. faults' \in 0..MaxFaults
      BY <2>1 DEF TypeOK, ConvertMark
    <3> QED BY <3>1, <3>2
  <2>2. CASE UNCHANGED <<marked, faults>>
    BY <2>2 DEF TypeOK
  <2> QED BY <2>1, <2>2 DEF ConvertRead, ConvertSources, ConvertMake
<1>5. marked' => made' = 1
  BY <1>3 DEF MarksMade, ConvertRead, ConvertSources, ConvertMake, ConvertMark
<1>6. converter' \in [Converters -> {"idle", "sources", "make", "mark", "done"}]
  BY <1>2 DEF TypeOK
<1>7. \A x \in Converters : converter'[x] = IF x = c THEN place ELSE converter[x]
  BY <1>2 DEF TypeOK
<1>8. TypeOK'
  BY <1>1, <1>3, <1>4, <1>6 DEF TypeOK, inputs, ledger
<1>9. RunInv'
  BY <1>1, RunStays DEF ledger
<1>10. MarksMade'
  BY <1>2, <1>3, <1>5, <1>7 DEF MarksMade
<1> QED BY <1>1, <1>8, <1>9, <1>10 DEF AppliesSucceeded

\* A step of a call: a review that has succeeded stays so, since nobody owns it any more.
LEMMA CallKeeps ==
    ASSUME IInv, NEW p \in Callers, Work(p) \/ Dies(p)
    PROVE  IInv'
<1> USE DEF IInv
<1>1. TypeOK' /\ RunInv'
  BY WorkKeeps
<1>2. UNCHANGED <<kind, applier, converter, made, marked>>
  BY DEF Work, Begin, Find, Expire, Sources, CreateRun, Retrieve, Admit, Call, Check, Record, Again, Dies
<1>3. kind = "review" /\ run.status = "succeeded" => run'.status = "succeeded"
  <2>1. CASE UNCHANGED run
    BY <2>1
  <2>2. CASE Expire(p)
    BY <2>2, ExpireKeeps
  <2>3. CASE CreateRun(p) /\ IsNew
    BY <2>3 DEF IsNew
  <2>4. CASE Record(p)
    BY <2>4 DEF RunInv, OneOwner, Record, Owning, Paid
  <2> QED
    BY <2>1, <2>2, <2>3, <2>4
    DEF Work, Begin, Find, Sources, CreateRun, Retrieve, Admit, Call, Check, Again, Dies
<1> QED BY <1>1, <1>2, <1>3 DEF AppliesSucceeded, MarksMade

-----------------------------------------------------------------------------
(* The theorems.                                                            *)

LEMMA InitEstablishes == Init => IInv
<1> SUFFICES ASSUME Init PROVE IInv
  OBVIOUS
<1>1. \A p \in Callers : caller[p] = Idle /\ caller[p].at = "idle"
  BY DEF Init, Idle
<1>2. caller \in [Callers -> CallerRecs]
  BY IdleType DEF Init
<1>3. NoRun \in Runs /\ NoRun.status = "none"
  BY IdleType DEF NoRun, Runs
<1>4. TypeOK
  <2>1. 1 \in Versions /\ 0 \in 0..MaxFaults
    BY DEF Versions
  <2>2. source \in [ver : Versions, ready : BOOLEAN, there : BOOLEAN]
    BY <2>1 DEF Init
  <2>3. rev \in Versions /\ text \in Versions /\ faults \in 0..MaxFaults
    BY <2>1 DEF Init
  <2>4. /\ converter \in [Converters -> {"idle", "sources", "make", "mark", "done"}]
        /\ applier \in [Appliers -> {"idle", "evidence", "write", "done"}]
        /\ reader \in [Readers -> {"idle", "stale", "fresh"}]
    BY DEF Init
  <2>5. kind \in Kinds /\ op = "none" /\ sent = 0 /\ made = 0 /\ run = NoRun
    BY DEF Init
  <2>6. marked \in BOOLEAN /\ applied \in BOOLEAN
    BY DEF Init
  <2> QED BY <1>2, <1>3, <2>2, <2>3, <2>4, <2>5, <2>6 DEF TypeOK, CallerRecs, Runs
<1>5. RunInv
  BY <1>1, <1>3 DEF Init, RunInv, OneOwner, OwnerPays, Found, Owning, Unpaid, Paid
<1> QED BY <1>4, <1>5 DEF IInv, Init, AppliesSucceeded, MarksMade

LEMMA StepKeeps == IInv /\ [Next]_vars => IInv'
<1> SUFFICES ASSUME IInv, [Next]_vars PROVE IInv'
  OBVIOUS
<1>1. CASE UNCHANGED vars
  <2>1. UNCHANGED <<kind, source, rev, text, run, op, sent, caller, converter, applier, reader,
                    made, marked, applied, faults>>
    BY <1>1 DEF vars, inputs, ledger, actors
  <2> QED
    BY <2>1
    DEF IInv, TypeOK, RunInv, OneOwner, OwnerPays, Found, AppliesSucceeded, MarksMade
<1>2. CASE Around \/ GrowsOld \/ \E r \in Readers : Read(r)
  BY <1>2, WorldKeeps
<1>3. CASE \E p \in Callers : Work(p) \/ Dies(p)
  BY <1>3, CallKeeps
<1>4. CASE \E a \in Appliers : ApplyRead(a) \/ ApplyEvidence(a) \/ ApplyWrite(a)
  BY <1>4, ApplyKeeps
<1>5. CASE \E c \in Converters : ConvertRead(c) \/ ConvertSources(c) \/ ConvertMake(c) \/ ConvertMark(c)
  BY <1>5, ConvertKeeps
<1> QED BY <1>1, <1>2, <1>3, <1>4, <1>5 DEF Next

\* The inductive invariant: one call owns the run of a key, and it alone pays.
THEOREM Invariance == Spec => []IInv
BY InitEstablishes, StepKeeps, PTL DEF Spec

\* Every variable keeps its type.
THEOREM TypeCorrect == Spec => []TypeOK
<1>1. IInv => TypeOK
  BY DEF IInv
<1> QED BY <1>1, Invariance, PTL

\* However many calls share a key, whatever dies, the provider is called once, and who is
\* answered is answered with the run of the request it made (createResearchBriefForUser,
\* createDraftReviewForUser, planTopicsForUser).
THEOREM PaidOnceAnsweredTruly == Spec => []OneRunPerRequest
<1>1. IInv => OneRunPerRequest
  BY DEF IInv, TypeOK, RunInv, OwnerPays, Found, OneRunPerRequest, PaidOnce, AnswersAreTheirs
<1> QED BY <1>1, Invariance, PTL

\* A suggestion becomes one Signal, and is marked only when it has (convertTopicToSignal).
THEOREM ConvertsOnce == Spec => []ConvertedOnce
<1>1. IInv => ConvertedOnce
  BY DEF IInv, TypeOK, MarksMade, ConvertedOnce
<1> QED BY <1>1, Invariance, PTL

\* A draft is replaced by a review's text only while it is the text that was reviewed, by a
\* review that has succeeded (applyDraftReviewForUser).
THEOREM ReplacesReviewed == Spec => ReplacesWhatWasReviewed
<1>1. IInv /\ [Next]_vars => [applied' # applied => text = run.print.text /\ run.status = "succeeded"]_vars
  <2> SUFFICES ASSUME IInv, Next, applied' # applied
               PROVE  text = run.print.text /\ run.status = "succeeded"
    OBVIOUS
  <2>1. PICK a \in Appliers : ApplyWrite(a)
    BY DEF Next, Around, GrowsOld, Work, Begin, Find, Expire, Sources, CreateRun, Retrieve, Admit, Call, Check,
           Record, Again, Dies, Read, ApplyRead, ApplyEvidence, ConvertRead, ConvertSources, ConvertMake, ConvertMark
  <2> QED BY <2>1 DEF ApplyWrite, Replaces, IInv, AppliesSucceeded
<1> QED BY <1>1, Invariance, PTL DEF Spec, ReplacesWhatWasReviewed
=============================================================================
