----------------------------- MODULE PublishOnce -----------------------------
(***************************************************************************)
(* What LinkedIn publishing promises of an operation, whoever asks for it: *)
(* it is opened once, leaves that state once, either refused for good or   *)
(* dispatched, and only a dispatched operation reaches LinkedIn, once.     *)
(***************************************************************************)
EXTENDS Naturals

CONSTANT Keys

VARIABLES phase, calls

onceVars == <<phase, calls>>

OnceInit ==
    /\ phase = [k \in Keys |-> "absent"]
    /\ calls = [k \in Keys |-> 0]

Move(k, from, to) == phase[k] = from /\ phase' = [phase EXCEPT ![k] = to]

OpenOperation(k) == Move(k, "absent", "open") /\ UNCHANGED calls
Refuse(k) == Move(k, "open", "refused") /\ UNCHANGED calls
Dispatch(k) == Move(k, "open", "dispatched") /\ UNCHANGED calls

CallProvider(k) ==
    /\ phase[k] = "dispatched"
    /\ calls[k] = 0
    /\ calls' = [calls EXCEPT ![k] = 1]
    /\ UNCHANGED phase

OnceNext ==
    \E k \in Keys : OpenOperation(k) \/ Refuse(k) \/ Dispatch(k) \/ CallProvider(k)

OnceSpec == OnceInit /\ [][OnceNext]_onceVars
=============================================================================
