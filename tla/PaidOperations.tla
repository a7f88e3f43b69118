--------------------------- MODULE PaidOperations ---------------------------
(***************************************************************************)
(* What the usage ledger promises of a paid operation, whoever asks for    *)
(* it: it is charged to the day it is first held on, for good; it is sent  *)
(* only from a hold, while the owner's and the application's window of     *)
(* that day both have room for it; one that was answered, or whose answer  *)
(* is unknown, is never sent again.                                        *)
(***************************************************************************)
EXTENDS Naturals

CONSTANTS Keys, Days, Windows,
          WindowsOf(_, _),  \* the windows an operation of a day is charged to
          Room(_)           \* how many operations a window has room for

VARIABLES phase, day, sent

paidVars == <<phase, day, sent>>

PaidInit ==
    /\ phase = [k \in Keys |-> "new"]
    /\ day = [k \in Keys |-> 0]
    /\ sent = [w \in Windows |-> 0]

Move(k, from, to) == phase[k] = from /\ phase' = [phase EXCEPT ![k] = to]

Hold(k) ==
    /\ Move(k, "new", "held")
    /\ \E d \in Days : day' = [day EXCEPT ![k] = d]
    /\ UNCHANGED sent

Drop(k) == Move(k, "held", "free") /\ UNCHANGED <<day, sent>>
HoldAgain(k) == Move(k, "free", "held") /\ UNCHANGED <<day, sent>>

Send(k) ==
    /\ Move(k, "held", "sent")
    /\ \A w \in WindowsOf(k, day[k]) : sent[w] < Room(w)
    /\ sent' = [w \in Windows |-> IF w \in WindowsOf(k, day[k]) THEN sent[w] + 1 ELSE sent[w]]
    /\ UNCHANGED day

Refuse(k) == Move(k, "sent", "free") /\ UNCHANGED <<day, sent>>
Finish(k) == Move(k, "sent", "over") /\ UNCHANGED <<day, sent>>

PaidNext ==
    \E k \in Keys :
        Hold(k) \/ Drop(k) \/ HoldAgain(k) \/ Send(k) \/ Refuse(k) \/ Finish(k)

PaidSpec == PaidInit /\ [][PaidNext]_paidVars
=============================================================================
