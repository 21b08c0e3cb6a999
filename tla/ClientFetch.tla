----------------------------- MODULE ClientFetch -----------------------------
(***************************************************************************)
(* fetchWithRetry of mobile/src/api/client.ts, for the calls that are in   *)
(* flight at once: each is a promise that goes through one or two requests *)
(* and, unless the body of an answer never ends, is settled by an answer,  *)
(* the server's or a made-up one.                                          *)
(***************************************************************************)
EXTENDS Integers, FiniteSetsExt

CONSTANTS
    Calls,              \* bound: calls in flight at once, integers
    Texts,              \* what suggestions are asked for
    NoText              \* for the calls that ask for something else

ASSUME CallsFinite == Calls \subseteq Nat
ASSUME TextsDistinct == NoText \notin Texts

VARIABLE calls

Routes == {"/suggest", "/index/rebuild"}

\* A call: its phase, what it asks for, the requests it has left and has made,
\* and whether whoever made it still waits for the answer.
Call == [phase : {"free", "sent", "pause", "settled"}, route : Routes, text : Texts \cup {NoText},
         retries : 0 .. 1, requests : 0 .. 2, heard : BOOLEAN]

Free == [phase |-> "free", route |-> "/suggest", text |-> NoText,
         retries |-> 0, requests |-> 0, heard |-> FALSE]

Posts(route) == route = "/index/rebuild"

FetchInit == calls = [c \in Calls |-> Free]

\* The calls after a new one has been sent, in the lowest free place.
Vacant(cs) == {c \in Calls : cs[c].phase = "free"}
Sent(cs, route, text) ==
    [cs EXCEPT ![Min(Vacant(cs))] =
        [phase |-> "sent", route |-> route, text |-> text,
         retries |-> 1, requests |-> 1, heard |-> TRUE]]

\* Nobody waits for the calls of a route any more.
Unheard(cs, route) ==
    [c \in Calls |-> IF cs[c].route = route THEN [cs[c] EXCEPT !.heard = FALSE] ELSE cs[c]]

\* fetch, text() and JSON.parse succeed with a 2xx status.
Answered(c) ==
    /\ calls[c].phase = "sent"
    /\ calls' = [calls EXCEPT ![c].phase = "settled"]

Retried(call) == call.retries > 0 /\ ~Posts(call.route)

\* The catch: the network, the 4 s timer, a status that is not 2xx or a body
\* that is not JSON.  A GET sleeps and goes again, once; else the mock of the
\* route is the answer.
Failed(c) ==
    /\ calls[c].phase = "sent"
    /\ calls' = [calls EXCEPT ![c].phase = IF Retried(calls[c]) THEN "pause" ELSE "settled"]

\* The 300 ms are over: fetchWithRetry(url, options, retries - 1).
Retry(c) ==
    /\ calls[c].phase = "pause"
    /\ calls' = [calls EXCEPT ![c].phase = "sent", ![c].retries = @ - 1,
                              ![c].requests = @ + 1]

FetchStep == \E c \in Calls : Answered(c) \/ Failed(c) \/ Retry(c)

FetchTypeOK == calls \in [Calls -> Call]

\* Whatever fails, a call makes one request when it changes something on the
\* server (POST /index/rebuild) and at most two when it only asks.
SentOnce ==
    \A c \in Calls : calls[c].requests <= IF Posts(calls[c].route) THEN 1 ELSE 2
=============================================================================
