---------------------------- MODULE RateLimiter ----------------------------
(***************************************************************************)
(* check_rate_limit of backend/src/http_server.c: a token bucket per       *)
(* client address.  The whole call runs under g_rate_lock, so it is one    *)
(* step.  The clock is time(NULL): whole seconds of the wall clock, which  *)
(* an administrator or NTP may set back.  difftime of two whole numbers of *)
(* seconds is whole, so the doubles of the bucket hold integers.           *)
(***************************************************************************)
EXTENDS Integers

CONSTANTS
    Addresses,   \* client addresses
    Burst,       \* CWEB_RATE_LIMIT_BURST
    Rps,         \* CWEB_RATE_LIMIT_RPS
    MaxTime,     \* bound on the clock
    MaxBack,     \* bound on how often the clock is set back
    MaxWindow    \* bound on the requests admitted in one window

ASSUME RpsPos == Rps \in Nat \ {0}
ASSUME BurstCoversRps == Burst \in Nat /\ Burst >= Rps
ASSUME BoundsNat == MaxTime \in Nat /\ MaxBack \in Nat /\ MaxWindow \in Nat

VARIABLES
    clock,       \* time(NULL)
    back,        \* history: how often the clock was set back
    known,       \* the clients with a bucket in g_rate_buckets
    tokens,      \* RateBucket.tokens
    lastUpdate,  \* RateBucket.last_update
    verdict,     \* what check_rate_limit last returned to the client
    winStart,    \* history: when the client's current window was opened
    winCount,    \* history: requests admitted in the window
    sent,        \* history: requests in the second lastUpdate, Rps + 1 for more
    polite       \* history: never more than Rps requests in a second

buckets == <<known, tokens, lastUpdate>>
history == <<verdict, winStart, winCount, sent, polite>>
rateVars == <<clock, back, known, tokens, lastUpdate,
              verdict, winStart, winCount, sent, polite>>

RateInit ==
    /\ clock = 0
    /\ back = 0
    /\ known = {}
    /\ tokens = [c \in Addresses |-> 0]
    /\ lastUpdate = [c \in Addresses |-> 0]
    /\ verdict = [c \in Addresses |-> "none"]
    /\ winStart = [c \in Addresses |-> 0]
    /\ winCount = [c \in Addresses |-> 0]
    /\ sent = [c \in Addresses |-> 0]
    /\ polite = [c \in Addresses |-> TRUE]

\* tokens += elapsed * RPS, capped.  elapsed is negative after the clock was
\* set back.
RefillFull(old, elapsed) == IF elapsed > 0 THEN Burst ELSE old   \* plausible bugs
RefillNever(old, elapsed) == old
Refill(old, elapsed) ==
    LET new == old + elapsed * Rps IN IF new > Burst THEN Burst ELSE new

\* The bucket found in the list, or the one inserted with a full burst.
Bucket(c) ==
    IF c \in known THEN [tokens |-> tokens[c], last |-> lastUpdate[c]]
                   ELSE [tokens |-> Burst, last |-> clock]

Allowed(n) == n >= 1

\* Bookkeeping of the history variables for one call of check_rate_limit;
\* w: this call opens a new window, as a first call and a full window must.
Count(c, w, ok) ==
    LET one == IF ok THEN 1 ELSE 0
        same == c \in known /\ lastUpdate[c] = clock
        k == IF ~same THEN 1 ELSE IF sent[c] <= Rps THEN sent[c] + 1 ELSE sent[c]
    IN  /\ w \/ (c \in known /\ winCount[c] < MaxWindow)
        /\ verdict' = [verdict EXCEPT ![c] = IF ok THEN "allowed" ELSE "limited"]
        /\ winStart' = [winStart EXCEPT ![c] = IF w THEN clock ELSE @]
        /\ winCount' = [winCount EXCEPT ![c] = IF w THEN one ELSE @ + one]
        /\ sent' = [sent EXCEPT ![c] = k]
        /\ polite' = [polite EXCEPT ![c] = @ /\ k <= Rps]

\* check_rate_limit(ip): find or create, refill, take a token if there is one.
Request(c) ==
    /\ LET b == Bucket(c)
           have == Refill(b.tokens, clock - b.last)
           ok == Allowed(have)
       IN  /\ known' = known \cup {c}
           /\ tokens' = [tokens EXCEPT ![c] = IF ok THEN have - 1 ELSE have]
           /\ lastUpdate' = [lastUpdate EXCEPT ![c] = clock]
           /\ \E w \in BOOLEAN : Count(c, w, ok)
    /\ UNCHANGED <<clock, back>>

\* A second passes.
Tick ==
    /\ clock < MaxTime
    /\ clock' = clock + 1
    /\ UNCHANGED <<back, buckets, history>>

\* The wall clock is set back.
SetBack ==
    /\ back < MaxBack
    /\ \E t \in 0 .. (clock - 1) : clock' = t
    /\ back' = back + 1
    /\ UNCHANGED <<buckets, history>>

RateNext == (\E c \in Addresses : Request(c)) \/ Tick \/ SetBack

RateSpec == RateInit /\ [][RateNext]_rateVars

-----------------------------------------------------------------------------

RateTypeOK ==
    /\ clock \in Int
    /\ back \in Nat
    /\ known \subseteq Addresses
    /\ tokens \in [Addresses -> Int]
    /\ lastUpdate \in [Addresses -> Int]
    /\ verdict \in [Addresses -> {"none", "allowed", "limited"}]
    /\ winStart \in [Addresses -> Int]
    /\ winCount \in [Addresses -> Nat]
    /\ sent \in [Addresses -> Nat]
    /\ polite \in [Addresses -> BOOLEAN]
    /\ \A c \in known : tokens[c] < Burst

\* "20 RPS / 40 burst" (security.md:9), exactly: in any window opened by a
\* request, the admitted requests and the tokens left are at most the burst
\* plus the rate times the clock's advance.  Setting the clock back and
\* forth gains nothing.
RateBound ==
    \A c \in known :
        winCount[c] + tokens[c] <= Burst + Rps * (lastUpdate[c] - winStart[c])

\* While the clock only goes forward, a client that never sends more than Rps
\* requests in a second of the clock is never refused.
PoliteNeverRefused ==
    back = 0 =>
        \A c \in Addresses : polite[c] => verdict[c] # "limited"

\* While the clock only goes forward, a client that waits for the next second
\* is admitted, however much it sent before.
NextSecondAdmitted ==
    [][\A c \in known :
         back = 0 /\ lastUpdate'[c] > lastUpdate[c] => verdict'[c] = "allowed"]_rateVars
=============================================================================
