---------------------------- MODULE ApiRequest ----------------------------
(* The requests a screen of the web application has under way.  A handler
   calls request() of lib/api/api-client.ts, which starts the fetch at once,
   and goes on when the answer is there; whatever else happens on the screen
   happens in between.  A screen tells an answer it still wants from an older
   one by a counter (`requestNumber !== listRequestId.current`) and gives a
   request up with an AbortController.

   Only whether a request is the counter's latest matters, so a request has
   the flag `on` instead of a number, and the requests are a bag.  Aborting
   has an effect until the response's headers are there: request() removes
   its listener before it reads the body, so an aborted request may still be
   answered.                                                              *)
EXTENDS Naturals, Bags

CONSTANT None           \* null

\* What the API says, or what became of the request.
Reply(code, body) == [code |-> code, body |-> body]
Nothing == Reply("nothing", None)

\* A request that has just been made: `of` is what it is about, `arg` what
\* its handler has closed over.
Sent(kind, of, arg) ==
    [at |-> "sent", kind |-> kind, of |-> of, arg |-> arg,
     on |-> TRUE, cut |-> FALSE, ans |-> Nothing]

Pending(calls, kinds) == {c \in BagToSet(calls) : c.kind \in kinds}
Wanted(calls, kinds)  == {c \in Pending(calls, kinds) : c.on}

Begin(calls, call) == calls (+) SetToBag({call})
Ended(calls, call) == calls (-) SetToBag({call})

Each(calls, kinds, F(_)) ==
    LET G(c) == IF c.kind \in kinds /\ c.on THEN F(c) ELSE c
    IN  BagOfAll(G, calls)

\* The screen's counter for these kinds goes up.
Overtaken(calls, kinds) == Each(calls, kinds, LAMBDA c : [c EXCEPT !.on = FALSE])

\* controller.abort(): the controller at hand is the latest request's.
Aborted(calls, kinds) == Each(calls, kinds, LAMBDA c : [c EXCEPT !.cut = c.at = "sent"])

\* Both.  A request that is aborted and overtaken ends with REQUEST_ABORTED,
\* and a handler that is no longer wanted then does nothing: it is dropped.
Withdrawn(calls, kinds) ==
    Overtaken([c \in BagToSet(calls) \ {d \in Wanted(calls, kinds) : d.at = "sent"} |-> calls[c]],
              kinds)

\* The response is there, or the request has failed.
Answered(calls, call, answer) ==
    Begin(Ended(calls, call), [call EXCEPT !.at = "read", !.ans = answer])

\* The request's handler goes on: with REQUEST_ABORTED, or with the answer.
Returning(calls, kind) ==
    {c \in Pending(calls, {kind}) : c.at = "read" \/ c.cut}
Result(call) == IF call.cut THEN Reply("aborted", None) ELSE call.ans
=============================================================================
