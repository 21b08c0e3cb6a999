------------------------- MODULE HttpServerProofs --------------------------
(***************************************************************************)
(* Proofs about the three parts of backend/src/http_server.c that are      *)
(* modelled apart.                                                         *)
(*  - RateLimiter, for every rate, burst, set of addresses and bound, with *)
(*    the clock set back as often as MaxBack allows.                       *)
(*  - LruCache, for caches of any capacity: the pointer surgery keeps the  *)
(*    list sound, no hotter entry is evicted than the rest, and the        *)
(*    structure implements the bounded recency list AbstractLru.  The      *)
(*    invariant speaks of one sequence, the cells in list order; each call *)
(*    is shown to change it as AbstractLru changes its entries, and the    *)
(*    walk from the head is shown to be that sequence.                     *)
(*  - Lifecycle, for any pool, any clients and both platforms: who holds a *)
(*    connection, what a worker accepts after a stop, and what a server    *)
(*    that ends by itself has finished.                                    *)
(* The three specifications share no variable and no constant.             *)
(***************************************************************************)
EXTENDS RateLimiter, LruCache, Lifecycle, FiniteSetTheorems, SequenceTheorems,
        WellFoundedInduction, TLAPS

-----------------------------------------------------------------------------
(* Arithmetic of the refill.                                                *)

LEMMA RateAdds ==
    ASSUME NEW r \in Int, NEW a \in Int, NEW b \in Int, NEW c \in Int
    PROVE  (a - b) * r + r * (b - c) = r * (a - c)
BY SMT

LEMMA RateGrows ==
    ASSUME NEW r \in Nat, NEW e \in Int
    PROVE  /\ e * r \in Int
           /\ e >= 0 => e * r >= 0
           /\ e > 0 => e * r >= r
BY SMT

\* A refill adds at most the rate times the elapsed seconds, never passes the
\* burst, and is not below either of the two.
LEMMA RefillRange ==
    ASSUME NEW old \in Int, NEW elapsed \in Int
    PROVE  /\ Refill(old, elapsed) \in Int
           /\ Refill(old, elapsed) <= Burst
           /\ Refill(old, elapsed) <= old + elapsed * Rps
           /\ Refill(old, elapsed) \in {Burst, old + elapsed * Rps}
<1>1. elapsed * Rps \in Int
    BY RpsPos, RateGrows
<1> QED
    BY <1>1, BurstCoversRps DEF Refill

-----------------------------------------------------------------------------
(* The inductive invariants.                                                *)

\* While the clock was never set back, buckets are not ahead of it and hold
\* no debt.
NoDebt ==
    back = 0 => \A c \in known : lastUpdate[c] <= clock /\ tokens[c] >= 0

\* ... and a polite client has a token left for each request it may still
\* send in the second it last sent in.
PoliteFunded ==
    /\ \A c \in Addresses \ known : verdict[c] = "none"
    /\ back = 0 => \A c \in known : polite[c] =>
        /\ sent[c] \in 1 .. Rps
        /\ tokens[c] >= Rps - sent[c]
        /\ verdict[c] = "allowed"

RateInd == RateTypeOK /\ RateBound /\ NoDebt /\ PoliteFunded

LEMMA RateInitInd == RateInit => RateInd
BY DEF RateInit, RateInd, RateTypeOK, RateBound, NoDebt, PoliteFunded

\* What one call does to the caller's bucket and history.
LEMMA RequestEffect ==
    ASSUME RateTypeOK, NEW c \in Addresses, Request(c)
    PROVE  \E have \in Int, k \in Nat, w \in BOOLEAN :
        /\ have <= Burst
        /\ c \in known =>
            /\ have <= tokens[c] + (clock - lastUpdate[c]) * Rps
            /\ have \in {Burst, tokens[c] + (clock - lastUpdate[c]) * Rps}
        /\ c \notin known => have = Burst /\ w
        /\ k = IF ~(c \in known /\ lastUpdate[c] = clock) THEN 1
               ELSE IF sent[c] <= Rps THEN sent[c] + 1 ELSE sent[c]
        /\ known' = known \cup {c}
        /\ tokens' = [tokens EXCEPT ![c] = IF have >= 1 THEN have - 1 ELSE have]
        /\ lastUpdate' = [lastUpdate EXCEPT ![c] = clock]
        /\ verdict' = [verdict EXCEPT ![c] = IF have >= 1 THEN "allowed" ELSE "limited"]
        /\ winStart' = [winStart EXCEPT ![c] = IF w THEN clock ELSE @]
        /\ winCount' = [winCount EXCEPT ![c] =
              IF w THEN (IF have >= 1 THEN 1 ELSE 0) ELSE @ + (IF have >= 1 THEN 1 ELSE 0)]
        /\ sent' = [sent EXCEPT ![c] = k]
        /\ polite' = [polite EXCEPT ![c] = @ /\ k <= Rps]
        /\ clock' = clock /\ back' = back
<1> DEFINE b == Bucket(c)
           have == Refill(b.tokens, clock - b.last)
           k == IF ~(c \in known /\ lastUpdate[c] = clock) THEN 1
                ELSE IF sent[c] <= Rps THEN sent[c] + 1 ELSE sent[c]
<1>1. b.tokens \in Int /\ clock - b.last \in Int
    BY BurstCoversRps DEF RateTypeOK, Bucket
<1>2. /\ have \in Int /\ have <= Burst
      /\ have <= b.tokens + (clock - b.last) * Rps
      /\ have \in {Burst, b.tokens + (clock - b.last) * Rps}
  <2> HIDE DEF b
  <2> QED
      BY <1>1, RefillRange
<1>3. c \notin known => have = Burst
  <2>1. c \notin known => b.tokens = Burst /\ clock - b.last = 0
      BY DEF RateTypeOK, Bucket
  <2>2. 0 * Rps = 0
      BY RpsPos
  <2> QED
      BY <1>2, <2>1, <2>2, BurstCoversRps
<1>4. c \in known => b.tokens = tokens[c] /\ b.last = lastUpdate[c]
    BY DEF Bucket
<1>5. k \in Nat
    BY DEF RateTypeOK
<1>6. PICK w \in BOOLEAN : Count(c, w, Allowed(have))
    BY DEF Request
<1>7. Allowed(have) <=> have >= 1
    BY DEF Allowed
<1>8. /\ known' = known \cup {c}
      /\ tokens' = [tokens EXCEPT ![c] = IF have >= 1 THEN have - 1 ELSE have]
      /\ lastUpdate' = [lastUpdate EXCEPT ![c] = clock]
      /\ clock' = clock /\ back' = back
    BY <1>7 DEF Request
<1>9. /\ c \notin known => w
      /\ verdict' = [verdict EXCEPT ![c] = IF have >= 1 THEN "allowed" ELSE "limited"]
      /\ winStart' = [winStart EXCEPT ![c] = IF w THEN clock ELSE @]
      /\ winCount' = [winCount EXCEPT ![c] =
            IF w THEN (IF have >= 1 THEN 1 ELSE 0) ELSE @ + (IF have >= 1 THEN 1 ELSE 0)]
      /\ sent' = [sent EXCEPT ![c] = k]
      /\ polite' = [polite EXCEPT ![c] = @ /\ k <= Rps]
  <2> HIDE DEF have
  <2> QED
      BY <1>6, <1>7 DEF Count
<1> HIDE DEF have, k, b
<1>10. c \in known =>
          /\ have <= tokens[c] + (clock - lastUpdate[c]) * Rps
          /\ have \in {Burst, tokens[c] + (clock - lastUpdate[c]) * Rps}
    BY <1>2, <1>4
<1> USE <1>2, <1>5
<1> WITNESS have \in Int, k \in Nat, w \in BOOLEAN
<1> QED
    BY <1>2, <1>3, <1>8, <1>9, <1>10 DEF k

LEMMA RequestInd ==
    ASSUME RateInd, NEW c \in Addresses, Request(c)
    PROVE  RateInd'
<1> USE DEF RateInd
<1>1. PICK have \in Int, k \in Nat, w \in BOOLEAN :
        /\ have <= Burst
        /\ c \in known =>
            /\ have <= tokens[c] + (clock - lastUpdate[c]) * Rps
            /\ have \in {Burst, tokens[c] + (clock - lastUpdate[c]) * Rps}
        /\ c \notin known => have = Burst /\ w
        /\ k = IF ~(c \in known /\ lastUpdate[c] = clock) THEN 1
               ELSE IF sent[c] <= Rps THEN sent[c] + 1 ELSE sent[c]
        /\ known' = known \cup {c}
        /\ tokens' = [tokens EXCEPT ![c] = IF have >= 1 THEN have - 1 ELSE have]
        /\ lastUpdate' = [lastUpdate EXCEPT ![c] = clock]
        /\ verdict' = [verdict EXCEPT ![c] = IF have >= 1 THEN "allowed" ELSE "limited"]
        /\ winStart' = [winStart EXCEPT ![c] = IF w THEN clock ELSE @]
        /\ winCount' = [winCount EXCEPT ![c] =
              IF w THEN (IF have >= 1 THEN 1 ELSE 0) ELSE @ + (IF have >= 1 THEN 1 ELSE 0)]
        /\ sent' = [sent EXCEPT ![c] = k]
        /\ polite' = [polite EXCEPT ![c] = @ /\ k <= Rps]
        /\ clock' = clock /\ back' = back
    BY RequestEffect
\* The caller's entries after the call, and everybody else's unchanged.
<1>2. /\ tokens'[c] = (IF have >= 1 THEN have - 1 ELSE have)
      /\ lastUpdate'[c] = clock
      /\ verdict'[c] = (IF have >= 1 THEN "allowed" ELSE "limited")
      /\ winStart'[c] = (IF w THEN clock ELSE winStart[c])
      /\ winCount'[c] = (IF w THEN (IF have >= 1 THEN 1 ELSE 0)
                               ELSE winCount[c] + (IF have >= 1 THEN 1 ELSE 0))
      /\ sent'[c] = k
      /\ polite'[c] = (polite[c] /\ k <= Rps)
    BY <1>1 DEF RateTypeOK
<1>3. ASSUME NEW d \in Addresses, d # c
      PROVE  /\ tokens'[d] = tokens[d] /\ lastUpdate'[d] = lastUpdate[d]
             /\ verdict'[d] = verdict[d] /\ winStart'[d] = winStart[d]
             /\ winCount'[d] = winCount[d] /\ sent'[d] = sent[d]
             /\ polite'[d] = polite[d] /\ (d \in known' <=> d \in known)
    BY <1>1, <1>3 DEF RateTypeOK
<1>4. /\ tokens[c] \in Int /\ lastUpdate[c] \in Int /\ clock \in Int /\ winStart[c] \in Int
      /\ winCount[c] \in Nat /\ sent[c] \in Nat /\ Rps \in Nat /\ Rps >= 1
      /\ Burst \in Nat /\ Burst >= Rps
    BY RpsPos, BurstCoversRps DEF RateTypeOK
<1>5. tokens'[c] < Burst
    BY <1>1, <1>2, <1>4
<1>6. RateTypeOK'
  <2>1. /\ tokens' \in [Addresses -> Int] /\ lastUpdate' \in [Addresses -> Int]
        /\ winStart' \in [Addresses -> Int] /\ winCount' \in [Addresses -> Nat]
        /\ sent' \in [Addresses -> Nat]
      BY <1>1 DEF RateTypeOK
  <2>2. verdict' \in [Addresses -> {"none", "allowed", "limited"}]
      BY <1>1 DEF RateTypeOK
  <2>3. polite' \in [Addresses -> BOOLEAN]
    <3>1. (polite[c] /\ k <= Rps) \in BOOLEAN
        OBVIOUS
    <3> QED
        BY <1>1, <3>1 DEF RateTypeOK
  <2>4. \A d \in known' : tokens'[d] < Burst
      BY <1>1, <1>3, <1>5 DEF RateTypeOK
  <2> QED
      BY <1>1, <2>1, <2>2, <2>3, <2>4 DEF RateTypeOK
<1>7. RateBound'
  <2>1. winCount'[c] + tokens'[c] <= Burst + Rps * (lastUpdate'[c] - winStart'[c])
    <3>1. CASE w
      <4>1. Rps * (lastUpdate'[c] - winStart'[c]) = 0
          BY <1>2, <1>4, <3>1
      <4> QED
          BY <1>1, <1>2, <1>4, <3>1, <4>1
    <3>2. CASE ~w
      <4> DEFINE e == (clock - lastUpdate[c]) * Rps
                 p == Rps * (lastUpdate[c] - winStart[c])
                 q == Rps * (clock - winStart[c])
      <4>1. c \in known /\ have <= tokens[c] + e
          BY <1>1, <3>2
      <4>2. winCount[c] + tokens[c] <= Burst + p
          BY <4>1 DEF RateBound
      <4>3. e + p = q /\ e \in Int /\ p \in Int /\ q \in Int
          BY <1>4, RateAdds
      <4>4. winCount'[c] + tokens'[c] = winCount[c] + have
          BY <1>2, <1>4, <3>2
      <4>5. Rps * (lastUpdate'[c] - winStart'[c]) = q
          BY <1>2, <3>2
      <4> HIDE DEF e, p, q
      <4> QED
          BY <1>4, <4>1, <4>2, <4>3, <4>4, <4>5
    <3> QED
        BY <3>1, <3>2
  <2>2. ASSUME NEW d \in known', d # c
        PROVE  winCount'[d] + tokens'[d] <= Burst + Rps * (lastUpdate'[d] - winStart'[d])
    <3>1. d \in Addresses /\ d \in known
        BY <1>1, <2>2 DEF RateTypeOK
    <3> QED
        BY <1>3, <2>2, <3>1 DEF RateBound
  <2> QED
      BY <2>1, <2>2 DEF RateBound
<1>8. back = 0 /\ c \in known => have >= 0 /\ have >= tokens[c]
                            /\ (clock > lastUpdate[c] => have >= Rps)
  <2> SUFFICES ASSUME back = 0, c \in known
               PROVE  have >= 0 /\ have >= tokens[c] /\ (clock > lastUpdate[c] => have >= Rps)
      OBVIOUS
  <2>1. clock - lastUpdate[c] >= 0 /\ tokens[c] >= 0 /\ tokens[c] < Burst
      BY <1>4 DEF NoDebt, RateTypeOK
  <2> DEFINE e == (clock - lastUpdate[c]) * Rps
  <2>2. e \in Int /\ e >= 0 /\ (clock > lastUpdate[c] => e >= Rps)
      BY <1>4, <2>1, RateGrows
  <2>3. have \in {Burst, tokens[c] + e}
      BY <1>1
  <2> HIDE DEF e
  <2> QED
      BY <1>4, <2>1, <2>2, <2>3
<1>9. NoDebt'
  <2>1. back = 0 => tokens'[c] >= 0 /\ lastUpdate'[c] <= clock
      BY <1>1, <1>2, <1>4, <1>8
  <2> QED
      BY <1>1, <1>3, <2>1 DEF RateTypeOK, NoDebt
<1>10. PoliteFunded'
  <2>1. ASSUME back = 0, polite'[c]
        PROVE  sent'[c] \in 1 .. Rps /\ tokens'[c] >= Rps - sent'[c] /\ verdict'[c] = "allowed"
    <3>1. polite[c] /\ k <= Rps
        BY <1>2, <2>1
    <3>2. CASE c \notin known
        BY <1>1, <1>2, <1>4, <3>1, <3>2
    <3>3. CASE c \in known /\ lastUpdate[c] = clock
      <4>1. sent[c] \in 1 .. Rps /\ tokens[c] >= Rps - sent[c] /\ have >= tokens[c]
          BY <1>8, <2>1, <3>1, <3>3 DEF PoliteFunded
      <4>2. k = sent[c] + 1
          BY <1>1, <3>3, <4>1
      <4> QED
          BY <1>2, <1>4, <3>1, <4>1, <4>2
    <3>4. CASE c \in known /\ lastUpdate[c] # clock
      <4>1. clock > lastUpdate[c]
          BY <1>4, <2>1, <3>4 DEF NoDebt
      <4>2. have >= Rps
          BY <1>8, <2>1, <3>4, <4>1
      <4>3. k = 1
          BY <1>1, <3>4
      <4> QED
          BY <1>2, <1>4, <4>2, <4>3
    <3> QED
        BY <3>2, <3>3, <3>4
  <2>2. \A d \in Addresses \ known' : verdict'[d] = "none"
      BY <1>1, <1>3 DEF PoliteFunded
  <2>3. ASSUME back = 0, NEW d \in known', d # c, polite'[d]
        PROVE  sent'[d] \in 1 .. Rps /\ tokens'[d] >= Rps - sent'[d] /\ verdict'[d] = "allowed"
    <3>1. d \in Addresses /\ d \in known
        BY <1>1, <2>3 DEF RateTypeOK
    <3> QED
        BY <1>3, <2>3, <3>1 DEF PoliteFunded
  <2> QED
      BY <1>1, <2>1, <2>2, <2>3 DEF PoliteFunded
<1> QED
    BY <1>6, <1>7, <1>9, <1>10

\* Time passing takes no tokens, and a clock set back ends the promises that
\* hold for back = 0.
LEMMA ClockInd ==
    ASSUME RateInd, Tick \/ SetBack \/ UNCHANGED rateVars
    PROVE  RateInd'
<1> USE DEF RateInd
<1>1. /\ known' = known /\ tokens' = tokens /\ lastUpdate' = lastUpdate
      /\ verdict' = verdict /\ winStart' = winStart /\ winCount' = winCount
      /\ sent' = sent /\ polite' = polite
    BY DEF Tick, SetBack, rateVars, buckets, history
<1>2. clock' \in Int /\ back' \in Nat /\ (back' = 0 => back = 0 /\ clock' >= clock)
    BY DEF RateTypeOK, Tick, SetBack, rateVars
<1>3. RateTypeOK'
    BY <1>1, <1>2 DEF RateTypeOK
<1>4. RateBound'
    BY <1>1 DEF RateBound
<1>5. NoDebt'
    BY <1>1, <1>2 DEF RateTypeOK, NoDebt
<1>6. PoliteFunded'
    BY <1>1, <1>2 DEF PoliteFunded
<1> QED
    BY <1>3, <1>4, <1>5, <1>6

LEMMA RateIndHolds == RateSpec => []RateInd
<1>1. RateInd /\ [RateNext]_rateVars => RateInd'
    BY RequestInd, ClockInd DEF RateNext
<1> QED
    BY RateInitInd, <1>1, PTL DEF RateSpec

-----------------------------------------------------------------------------
(* The theorems.                                                            *)

\* Buckets, clock and history are well typed.
THEOREM RateTypeCorrect == RateSpec => []RateTypeOK
BY RateIndHolds, PTL DEF RateInd

\* In every window a client is admitted at most the burst plus the rate times
\* the advance of the clock, also when the clock is set back.
THEOREM RateIsBounded == RateSpec => []RateBound
BY RateIndHolds, PTL DEF RateInd

\* With a clock that only goes forward, a client within the rate is never
\* answered 429.
THEOREM PoliteIsServed == RateSpec => []PoliteNeverRefused
<1>1. RateInd => PoliteNeverRefused
    BY DEF RateInd, PoliteFunded, PoliteNeverRefused, RateTypeOK
<1> QED
    BY <1>1, RateIndHolds, PTL

\* With a clock that only goes forward, a request in a later second than the
\* last one is admitted.
THEOREM NextSecondIsServed == RateSpec => NextSecondAdmitted
<1> DEFINE Admits == \A c \in known :
        back = 0 /\ lastUpdate'[c] > lastUpdate[c] => verdict'[c] = "allowed"
<1>1. ASSUME RateInd, [RateNext]_rateVars PROVE [Admits]_rateVars
  <2> SUFFICES ASSUME NEW d \in known, back = 0, lastUpdate'[d] > lastUpdate[d]
               PROVE  verdict'[d] = "allowed"
      OBVIOUS
  <2> USE <1>1 DEF RateInd
  <2>1. d \in Addresses /\ tokens[d] \in Int /\ lastUpdate[d] \in Int /\ clock \in Int
      BY DEF RateTypeOK
  <2>2. PICK c \in Addresses : Request(c)
      BY <2>1 DEF RateNext, Tick, SetBack, rateVars, buckets
  <2>3. PICK have \in Int :
          /\ c \in known => have \in {Burst, tokens[c] + (clock - lastUpdate[c]) * Rps}
          /\ lastUpdate' = [lastUpdate EXCEPT ![c] = clock]
          /\ verdict' = [verdict EXCEPT ![c] = IF have >= 1 THEN "allowed" ELSE "limited"]
      BY <2>2, RequestEffect
  <2>4. d = c /\ lastUpdate'[d] = clock /\ clock - lastUpdate[d] > 0
      BY <2>1, <2>3 DEF RateTypeOK
  <2>5. (clock - lastUpdate[d]) * Rps >= 1 /\ (clock - lastUpdate[d]) * Rps \in Int
    <3> DEFINE e == clock - lastUpdate[d]
    <3>1. e \in Int /\ e > 0
        BY <2>1, <2>4
    <3>2. Rps \in Nat /\ Rps >= 1
        BY RpsPos
    <3> HIDE DEF e
    <3>3. e * Rps >= Rps /\ e * Rps \in Int
        BY <3>1, <3>2, RateGrows
    <3> QED
        BY <3>2, <3>3 DEF e
  <2>6. tokens[d] >= 0 /\ Burst \in Nat /\ Burst >= 1
      BY RpsPos, BurstCoversRps DEF NoDebt
  <2>7. have >= 1
      BY <2>1, <2>3, <2>4, <2>5, <2>6
  <2> QED
      BY <2>3, <2>4, <2>7 DEF RateTypeOK
<1> QED
    BY <1>1, RateIndHolds, PTL DEF RateSpec, NextSecondAdmitted

-----------------------------------------------------------------------------
(* The response cache.                                                      *)

\* c lists the allocated cells of heap hp, each once, linked both ways
\* between hd and tl.
IsList(c, hd, tl, hp) ==
    /\ \A i, j \in 1 .. Len(c) : c[i] = c[j] => i = j
    /\ \A n \in Nodes : hp[n] # Null <=> \E i \in 1 .. Len(c) : c[i] = n
    /\ hd = IF Len(c) = 0 THEN Null ELSE c[1]
    /\ tl = IF Len(c) = 0 THEN Null ELSE c[Len(c)]
    /\ \A i \in 1 .. Len(c) :
        /\ hp[c[i]].next = IF i = Len(c) THEN Null ELSE c[i + 1]
        /\ hp[c[i]].prev = IF i = 1 THEN Null ELSE c[i - 1]

\* No key is cached twice.
KeysApart(c, hp) ==
    \A i, j \in 1 .. Len(c) : hp[c[i]].key = hp[c[j]].key => i = j

\* The keys in front of a cached one were used since it was, and for one no
\* longer cached at least Capacity were.
Recency(c, hp, sn) ==
    /\ DOMAIN sn \subseteq Keys
    /\ \A k \in DOMAIN sn : sn[k] \subseteq Keys /\ IsFiniteSet(sn[k])
    /\ \A i \in 1 .. Len(c) : hp[c[i]].key \in DOMAIN sn
    /\ \A i \in 1 .. Len(c) : \A j \in 1 .. i - 1 : hp[c[j]].key \in sn[hp[c[i]].key]
    /\ \A k \in DOMAIN sn :
        (\A i \in 1 .. Len(c) : hp[c[i]].key # k) => Cardinality(sn[k]) >= Capacity

Stats ==
    /\ hits \in 0 .. (StatWrap - 1) /\ misses \in 0 .. (StatWrap - 1)
    /\ reply \in Vals \cup {Miss}

\* The inductive invariant, of the cells c in list order.
Good(c) ==
    /\ c \in Seq(Nodes)
    /\ heap \in [Nodes -> Cell \cup {Null}]
    /\ IsList(c, head, tail, heap)
    /\ size = Len(c) /\ size <= Capacity
    /\ KeysApart(c, heap)
    /\ Recency(c, heap, since)
    /\ Stats

CacheInd == Good(Chain)

-----------------------------------------------------------------------------
(* The walk from the head.                                                  *)

\* A set of numbers that is not empty has a first one.
LEMMA LeastOf ==
    ASSUME NEW S \in SUBSET Nat, S # {}
    PROVE  \E i \in S : \A j \in S : i <= j
<1>1. \E i \in S : \A j \in S : ~(<<j, i>> \in OpToRel(<, Nat))
    BY NatLessThanWellFounded, WFMin
<1>2. PICK i \in S : \A j \in S : ~(<<j, i>> \in OpToRel(<, Nat))
    BY <1>1
<1>3. \A j \in S : ~(j < i)
    BY <1>2 DEF OpToRel
<1> QED
    BY <1>3

LEMMA CountFromZero ==
    ASSUME NEW n \in Nat
    PROVE  Cardinality(0 .. n - 1) = n
<1>1. 0 \in Int /\ n - 1 \in Int
    OBVIOUS
<1>2. Cardinality(0 .. n - 1) = IF 0 > n - 1 THEN 0 ELSE (n - 1) - 0 + 1
    BY <1>1, FS_Interval
<1> QED
    BY <1>2

\* A list has no more cells than there are addresses.
LEMMA ListFits ==
    ASSUME NEW c \in Seq(Nodes), \A i, j \in 1 .. Len(c) : c[i] = c[j] => i = j
    PROVE  Cardinality(Nodes) \in Nat /\ Len(c) <= Cardinality(Nodes)
<1>1. IsFiniteSet(Nodes) /\ Cardinality(Nodes) \in Nat
    BY NodesEnough, FS_CardinalityType
<1>2. c \in Injection(1 .. Len(c), Nodes)
  <2>1. c \in [1 .. Len(c) -> Nodes]
      OBVIOUS
  <2>2. \A i, j \in 1 .. Len(c) : c[i] = c[j] => i = j
      OBVIOUS
  <2> QED
      BY <2>1, <2>2 DEF Injection, IsInjective
<1>3. Cardinality(1 .. Len(c)) = Len(c)
  <2>1. 1 \in Int /\ Len(c) \in Int /\ Len(c) >= 0
      OBVIOUS
  <2>2. Cardinality(1 .. Len(c)) = IF 1 > Len(c) THEN 0 ELSE Len(c) - 1 + 1
      BY <2>1, FS_Interval
  <2> QED
      BY <2>1, <2>2
<1>4. Cardinality(1 .. Len(c)) <= Cardinality(Nodes)
  <2> DEFINE S == 1 .. Len(c)
  <2> HIDE DEF S
  <2>1. \A f \in Injection(S, Nodes) : Cardinality(S) <= Cardinality(Nodes)
      BY <1>1, FS_Injection
  <2> QED
      BY <1>2, <2>1 DEF S
<1> QED
    BY <1>1, <1>3, <1>4

\* Following next from the head meets the cells of the list in order, then
\* NULL for ever.
LEMMA WalkIs ==
    ASSUME NEW c \in Seq(Nodes), NEW hd, NEW tl, NEW hp, IsList(c, hd, tl, hp)
    PROVE  WalkFrom(hd, hp) =
               [i \in 0 .. Cardinality(Nodes) |-> IF i < Len(c) THEN c[i + 1] ELSE Null]
<1> DEFINE N == Cardinality(Nodes)
           W == [i \in 0 .. N |-> IF i < Len(c) THEN c[i + 1] ELSE Null]
           Met(w, i) == IF i = 0 THEN hd
                        ELSE IF w[i - 1] = Null THEN Null
                        ELSE hp[w[i - 1]].next
           walk == WalkFrom(hd, hp)
<1>1. N \in Nat /\ Len(c) \in Nat /\ Len(c) <= N
    BY ListFits DEF IsList
<1>2. Null \notin Nodes
    BY NullIsOther
<1>3. \A i \in 0 .. N : W[i] = Met(W, i)
  <2> HIDE DEF N
  <2>1. SUFFICES ASSUME NEW i \in 0 .. N PROVE W[i] = Met(W, i)
      OBVIOUS
  <2>2. CASE i = 0
      BY <1>1, <2>2 DEF IsList
  <2>3. CASE i # 0
    <3>1. i - 1 \in 0 .. N /\ W[i - 1] = IF i - 1 < Len(c) THEN c[i] ELSE Null
        BY <1>1, <2>3
    <3>2. CASE i - 1 < Len(c)
      <4>1. i \in 1 .. Len(c) /\ c[i] \in Nodes
          BY <1>1, <2>3, <3>2
      <4>2. Met(W, i) = hp[c[i]].next
          BY <1>2, <2>3, <3>1, <3>2, <4>1
      <4>3. hp[c[i]].next = IF i = Len(c) THEN Null ELSE c[i + 1]
          BY <4>1 DEF IsList
      <4> QED
          BY <1>1, <3>2, <4>1, <4>2, <4>3
    <3>3. CASE ~(i - 1 < Len(c))
        BY <1>1, <2>3, <3>1, <3>3
    <3> QED
        BY <3>2, <3>3
  <2> QED
      BY <2>2, <2>3
<1>4. walk = [i \in 0 .. N |-> Met(walk, i)]
  <2>1. W = [i \in 0 .. N |-> Met(W, i)]
      BY <1>3
  <2>2. walk = CHOOSE w : w = [i \in 0 .. N |-> Met(w, i)]
      BY DEF WalkFrom
  <2> HIDE DEF W, walk, N, Met
  <2> QED
      BY <2>1, <2>2
<1>5. \A i \in 0 .. N : walk[i] = W[i]
  <2> DEFINE Bad == {i \in 0 .. N : walk[i] # W[i]}
  <2>1. SUFFICES ASSUME Bad # {} PROVE FALSE
      OBVIOUS
  <2>2. PICK i \in Bad : \A j \in Bad : i <= j
    <3>1. Bad \in SUBSET Nat
        BY <1>1
    <3> HIDE DEF Bad
    <3> QED
        BY <2>1, <3>1, LeastOf
  <2>3. i \in 0 .. N /\ walk[i] = Met(walk, i) /\ W[i] = Met(W, i)
    <3> HIDE DEF walk, W, Met
    <3>1. i \in 0 .. N
        OBVIOUS
    <3> QED
        BY <1>3, <1>4, <3>1
  <2>4. CASE i = 0
      BY <2>2, <2>3, <2>4 DEF Met
  <2>5. CASE i # 0
    <3> HIDE DEF walk, W, N
    <3>1. i - 1 \in 0 .. N /\ ~(i <= i - 1)
        BY <1>1, <2>3, <2>5
    <3>2. walk[i - 1] = W[i - 1]
        BY <2>2, <3>1
    <3> QED
        BY <2>2, <2>3, <3>2
  <2> QED
      BY <2>4, <2>5
<1> HIDE DEF W, N
<1>6. walk = [i \in 0 .. N |-> W[i]]
  <2> HIDE DEF walk, Met
  <2>1. walk = [i \in 0 .. N |-> walk[i]]
      BY <1>4
  <2> QED
      BY <1>5, <2>1
<1> QED
    BY <1>6 DEF W, N

\* So the chain is the list.
LEMMA ChainIs ==
    ASSUME NEW c \in Seq(Nodes), NEW hd, NEW tl, NEW hp, IsList(c, hd, tl, hp)
    PROVE  ChainFrom(hd, hp) = c
<1> DEFINE N == Cardinality(Nodes)
           walk == WalkFrom(hd, hp)
           Met == {i \in DOMAIN walk : walk[i] # Null}
<1>1. N \in Nat /\ Len(c) \in Nat /\ Len(c) <= N
    BY ListFits DEF IsList
<1>2. walk = [i \in 0 .. N |-> IF i < Len(c) THEN c[i + 1] ELSE Null]
    BY WalkIs
<1>3. \A i \in 1 .. Len(c) : c[i] # Null
    BY NullIsOther
<1> HIDE DEF walk, N
<1>4. Met = 0 .. Len(c) - 1
  <2>1. DOMAIN walk = 0 .. N
      BY <1>2
  <2>2. \A i \in 0 .. N : walk[i] # Null <=> i < Len(c)
      BY <1>1, <1>2, <1>3
  <2> QED
      BY <1>1, <2>1, <2>2
<1>5. Cardinality(Met) = Len(c)
    BY <1>1, <1>4, CountFromZero
<1>6. ChainFrom(hd, hp) = [i \in 1 .. Len(c) |-> walk[i - 1]]
    BY <1>5 DEF ChainFrom, walk
<1>7. \A i \in 1 .. Len(c) : walk[i - 1] = c[i]
    BY <1>1, <1>2
<1>8. c = [i \in 1 .. Len(c) |-> c[i]]
    OBVIOUS
<1> QED
    BY <1>6, <1>7, <1>8

-----------------------------------------------------------------------------
(* Pointer surgery.                                                         *)

Heaps == [Nodes -> Cell \cup {Null}]

\* Heaps g and h differ in their links only.
Relinked(g, h) ==
    /\ g \in Heaps
    /\ \A m \in Nodes : /\ g[m] # Null <=> h[m] # Null
                        /\ g[m].key = h[m].key
                        /\ g[m].val = h[m].val

\* A list stays one when no link changes.
LEMMA SameLinks ==
    ASSUME NEW c \in Seq(Nodes), NEW h, NEW hd, NEW tl, IsList(c, hd, tl, h), NEW g,
           \A m \in Nodes : /\ g[m] # Null <=> h[m] # Null
                            /\ g[m].next = h[m].next /\ g[m].prev = h[m].prev
    PROVE  IsList(c, hd, tl, g)
<1>1. \A j \in 1 .. Len(c) : c[j] \in Nodes
    OBVIOUS
<1>2. \A m \in Nodes : g[m] # Null <=> \E i \in 1 .. Len(c) : c[i] = m
    BY DEF IsList
<1>3. \A i \in 1 .. Len(c) :
        /\ g[c[i]].next = IF i = Len(c) THEN Null ELSE c[i + 1]
        /\ g[c[i]].prev = IF i = 1 THEN Null ELSE c[i - 1]
    BY <1>1 DEF IsList
<1> QED
    BY <1>2, <1>3 DEF IsList

LEMMA SetNextIs ==
    ASSUME NEW h \in Heaps, NEW n \in Nodes, h[n] # Null, NEW to \in Nodes \cup {Null}
    PROVE  /\ Relinked(SetNext(h, n, to), h)
           /\ \A m \in Nodes :
                /\ SetNext(h, n, to)[m].next = IF m = n THEN to ELSE h[m].next
                /\ SetNext(h, n, to)[m].prev = h[m].prev
<1> DEFINE r == [h[n] EXCEPT !.next = to]
<1>1. h[n] \in Cell
    BY DEF Heaps
<1>2. /\ r \in Cell /\ r.next = to
      /\ r.key = h[n].key /\ r.val = h[n].val /\ r.prev = h[n].prev
    BY <1>1 DEF Cell
<1>3. r # Null
    BY <1>2, NullIsOther
<1> HIDE DEF r
<1>4. SetNext(h, n, to) = [h EXCEPT ![n] = r]
    BY DEF SetNext, r
<1>5. SetNext(h, n, to) \in Heaps
    BY <1>2, <1>4 DEF Heaps
<1>6. \A m \in Nodes : SetNext(h, n, to)[m] = IF m = n THEN r ELSE h[m]
    BY <1>4 DEF Heaps
<1> HIDE DEF Heaps
<1> QED
    BY <1>2, <1>3, <1>5, <1>6 DEF Relinked

LEMMA SetPrevIs ==
    ASSUME NEW h \in Heaps, NEW n \in Nodes, h[n] # Null, NEW to \in Nodes \cup {Null}
    PROVE  /\ Relinked(SetPrev(h, n, to), h)
           /\ \A m \in Nodes :
                /\ SetPrev(h, n, to)[m].prev = IF m = n THEN to ELSE h[m].prev
                /\ SetPrev(h, n, to)[m].next = h[m].next
<1> DEFINE r == [h[n] EXCEPT !.prev = to]
<1>1. h[n] \in Cell
    BY DEF Heaps
<1>2. /\ r \in Cell /\ r.prev = to
      /\ r.key = h[n].key /\ r.val = h[n].val /\ r.next = h[n].next
    BY <1>1 DEF Cell
<1>3. r # Null
    BY <1>2, NullIsOther
<1> HIDE DEF r
<1>4. SetPrev(h, n, to) = [h EXCEPT ![n] = r]
    BY DEF SetPrev, r
<1>5. SetPrev(h, n, to) \in Heaps
    BY <1>2, <1>4 DEF Heaps
<1>6. \A m \in Nodes : SetPrev(h, n, to)[m] = IF m = n THEN r ELSE h[m]
    BY <1>4 DEF Heaps
<1> HIDE DEF Heaps
<1> QED
    BY <1>2, <1>3, <1>5, <1>6 DEF Relinked

LEMMA RelinkedTrans ==
    ASSUME NEW f, NEW g, NEW h, Relinked(f, g), Relinked(g, h)
    PROVE  Relinked(f, h)
BY DEF Relinked

-----------------------------------------------------------------------------
(* Moving a cell to the front.                                              *)

\* The sequence s with its i-th element moved to the front.
ToFront(s, i) ==
    [j \in 1 .. Len(s) |-> IF j = 1 THEN s[i] ELSE IF j <= i THEN s[j - 1] ELSE s[j]]

LEMMA ToFrontIs ==
    ASSUME NEW S, NEW s \in Seq(S), NEW i \in 1 .. Len(s)
    PROVE  /\ ToFront(s, i) \in Seq(S)
           /\ Len(ToFront(s, i)) = Len(s)
           /\ \A j \in 1 .. Len(s) :
                ToFront(s, i)[j] = IF j = 1 THEN s[i] ELSE IF j <= i THEN s[j - 1] ELSE s[j]
<1> DEFINE E(j) == IF j = 1 THEN s[i] ELSE IF j <= i THEN s[j - 1] ELSE s[j]
<1>1. \A j \in 1 .. Len(s) : E(j) \in S
    OBVIOUS
<1> HIDE DEF E
<1>2. ToFront(s, i) = [j \in 1 .. Len(s) |-> E(j)]
    BY DEF ToFront, E
<1>3. ToFront(s, i) \in [1 .. Len(s) -> S]
    BY <1>1, <1>2
<1>4. ToFront(s, i) \in Seq(S) /\ Len(ToFront(s, i)) = Len(s)
    BY <1>3
<1> QED
    BY <1>2, <1>4 DEF E

LEMMA ToFrontFirst ==
    ASSUME NEW S, NEW s \in Seq(S)
    PROVE  ToFront(s, 1) = s
<1>1. ToFront(s, 1) = [j \in 1 .. Len(s) |-> s[j]]
  <2>1. \A j \in 1 .. Len(s) :
          (IF j = 1 THEN s[1] ELSE IF j <= 1 THEN s[j - 1] ELSE s[j]) = s[j]
      OBVIOUS
  <2> QED
      BY <2>1 DEF ToFront
<1> QED
    BY <1>1

\* Where the cells of the moved list were: a one-to-one renumbering.
Was(i, j) == IF j = 1 THEN i ELSE IF j <= i THEN j - 1 ELSE j

LEMMA WasOnto ==
    ASSUME NEW n \in Nat, NEW i \in 1 .. n
    PROVE  /\ \A j \in 1 .. n : Was(i, j) \in 1 .. n
           /\ \A j, m \in 1 .. n : Was(i, j) = Was(i, m) => j = m
           /\ \A m \in 1 .. n : \E j \in 1 .. n : Was(i, j) = m
<1>1. \A j \in 1 .. n : Was(i, j) \in 1 .. n
    BY DEF Was
<1>2. \A j, m \in 1 .. n : Was(i, j) = Was(i, m) => j = m
    BY DEF Was
<1>3. ASSUME NEW m \in 1 .. n PROVE \E j \in 1 .. n : Was(i, j) = m
  <2>1. CASE m = i
      BY <2>1 DEF Was
  <2>2. CASE m < i
    <3>1. m + 1 \in 1 .. n /\ Was(i, m + 1) = m
        BY <2>2 DEF Was
    <3> QED
        BY <3>1
  <2>3. CASE m > i
      BY <2>3 DEF Was
  <2> QED
      BY <2>1, <2>2, <2>3
<1> QED
    BY <1>1, <1>2, <1>3

LEMMA ToFrontWas ==
    ASSUME NEW S, NEW s \in Seq(S), NEW i \in 1 .. Len(s)
    PROVE  \A j \in 1 .. Len(s) : ToFront(s, i)[j] = s[Was(i, j)]
BY ToFrontIs DEF Was

\* g is h with the i-th cell of c in front of hd.
Moves(c, i, hd, h, g) ==
    \A m \in Nodes :
        /\ g[m] # Null <=> h[m] # Null
        /\ g[m].next = IF m = c[i] THEN hd
                       ELSE IF m = c[i - 1] THEN (IF i = Len(c) THEN Null ELSE c[i + 1])
                       ELSE h[m].next
        /\ g[m].prev = IF m = hd THEN c[i]
                       ELSE IF m = c[i] THEN Null
                       ELSE IF i < Len(c) /\ m = c[i + 1] THEN c[i - 1]
                       ELSE h[m].prev

\* The links that cache_get leaves are those of the moved list.
LEMMA MovedList ==
    ASSUME NEW c \in Seq(Nodes), NEW h, NEW hd, NEW tl, IsList(c, hd, tl, h),
           NEW i \in 2 .. Len(c), NEW g, Moves(c, i, hd, h, g),
           NEW tl2, tl2 = (IF i = Len(c) THEN c[i - 1] ELSE tl)
    PROVE  IsList(ToFront(c, i), c[i], tl2, g)
<1> DEFINE d == ToFront(c, i)
           n == Len(c)
<1>1. n \in Nat /\ i \in 1 .. n /\ i - 1 \in 1 .. n /\ n # 0
    OBVIOUS
<1>2. d \in Seq(Nodes) /\ Len(d) = n
    BY <1>1, ToFrontIs
<1>3. \A j \in 1 .. n : d[j] = IF j = 1 THEN c[i] ELSE IF j <= i THEN c[j - 1] ELSE c[j]
    BY <1>1, ToFrontIs
<1>4. \A j \in 1 .. n : d[j] = c[Was(i, j)]
    BY <1>1, ToFrontWas
<1>5. \A j, m \in 1 .. n : c[j] = c[m] => j = m
    BY DEF IsList
<1>6. hd = c[1] /\ tl = c[n]
    BY <1>1 DEF IsList
<1>7. \A j \in 1 .. n : c[j] \in Nodes
    OBVIOUS
<1>8. \A j \in 1 .. n : h[c[j]].next = IF j = n THEN Null ELSE c[j + 1]
    BY DEF IsList
<1>9. \A j \in 1 .. n : h[c[j]].prev = IF j = 1 THEN Null ELSE c[j - 1]
    BY DEF IsList
<1>10. \A m \in Nodes : h[m] # Null <=> \E j \in 1 .. n : c[j] = m
    BY DEF IsList
<1>g. \A m \in Nodes :
        /\ g[m] # Null <=> h[m] # Null
        /\ g[m].next = IF m = c[i] THEN hd
                       ELSE IF m = c[i - 1] THEN (IF i = n THEN Null ELSE c[i + 1])
                       ELSE h[m].next
        /\ g[m].prev = IF m = hd THEN c[i]
                       ELSE IF m = c[i] THEN Null
                       ELSE IF i < n /\ m = c[i + 1] THEN c[i - 1]
                       ELSE h[m].prev
    BY DEF Moves
<1> HIDE DEF d, n
<1>w. /\ \A j \in 1 .. n : Was(i, j) \in 1 .. n
      /\ \A j, m \in 1 .. n : Was(i, j) = Was(i, m) => j = m
      /\ \A m \in 1 .. n : \E j \in 1 .. n : Was(i, j) = m
    BY <1>1, WasOnto
<1>11. \A j, m \in 1 .. n : d[j] = d[m] => j = m
  <2>1. SUFFICES ASSUME NEW j \in 1 .. n, NEW m \in 1 .. n, d[j] = d[m] PROVE j = m
      OBVIOUS
  <2>2. Was(i, j) \in 1 .. n /\ Was(i, m) \in 1 .. n
      BY <1>w
  <2>3. Was(i, j) = Was(i, m)
      BY <1>4, <1>5, <2>1, <2>2
  <2> QED
      BY <1>w, <2>3
<1>12. \A m \in Nodes : g[m] # Null <=> \E j \in 1 .. n : d[j] = m
  <2>1. SUFFICES ASSUME NEW m \in Nodes
                 PROVE  (\E j \in 1 .. n : c[j] = m) <=> \E j \in 1 .. n : d[j] = m
      BY <1>10, <1>g
  <2>2. ASSUME NEW j \in 1 .. n, c[j] = m PROVE \E q \in 1 .. n : d[q] = m
    <3>1. PICK q \in 1 .. n : Was(i, q) = j
        BY <1>w
    <3> QED
        BY <1>4, <2>2, <3>1
  <2>3. ASSUME NEW j \in 1 .. n, d[j] = m PROVE \E q \in 1 .. n : c[q] = m
      BY <1>w, <1>4, <2>3
  <2> QED
      BY <2>2, <2>3
<1>13. c[i] = d[1] /\ tl2 = d[n]
    BY <1>1, <1>3, <1>6 DEF n
<1>14. ASSUME NEW j \in 1 .. n PROVE g[d[j]].next = IF j = n THEN Null ELSE d[j + 1]
  <2>1. CASE j = 1
    <3>1. g[d[j]].next = c[1]
        BY <1>1, <1>3, <1>6, <1>7, <1>g, <2>1
    <3>2. 2 \in 1 .. n /\ d[2] = c[1] /\ j # n
        BY <1>1, <1>3, <2>1
    <3> QED
        BY <2>1, <3>1, <3>2
  <2>2. CASE j = i
    <3>1. d[j] = c[i - 1] /\ c[i - 1] # c[i]
        BY <1>1, <1>3, <1>5, <2>2
    <3>2. g[d[j]].next = IF i = n THEN Null ELSE c[i + 1]
        BY <1>1, <1>7, <1>g, <3>1
    <3>3. i # n => i + 1 \in 1 .. n /\ d[i + 1] = c[i + 1]
        BY <1>1, <1>3
    <3> QED
        BY <2>2, <3>2, <3>3
  <2>3. CASE j > 1 /\ j < i
    <3>1. d[j] = c[j - 1] /\ j - 1 \in 1 .. n /\ d[j + 1] = c[j] /\ j # n
        BY <1>1, <1>3, <2>3
    <3>2. c[j - 1] # c[i] /\ c[j - 1] # c[i - 1]
        BY <1>1, <1>5, <2>3, <3>1
    <3>3. g[d[j]].next = h[c[j - 1]].next
        BY <1>7, <1>g, <3>1, <3>2
    <3>4. h[c[j - 1]].next = c[j]
        BY <1>1, <1>8, <2>3, <3>1
    <3> QED
        BY <3>1, <3>3, <3>4
  <2>4. CASE j > i
    <3>1. d[j] = c[j] /\ c[j] # c[i] /\ c[j] # c[i - 1]
        BY <1>1, <1>3, <1>5, <2>4
    <3>2. g[d[j]].next = IF j = n THEN Null ELSE c[j + 1]
        BY <1>7, <1>8, <1>g, <3>1
    <3>3. j # n => d[j + 1] = c[j + 1]
        BY <1>1, <1>3, <2>4
    <3> QED
        BY <3>2, <3>3
  <2> QED
      BY <1>1, <2>1, <2>2, <2>3, <2>4
<1>15. ASSUME NEW j \in 1 .. n PROVE g[d[j]].prev = IF j = 1 THEN Null ELSE d[j - 1]
  <2>1. CASE j = 1
    <3>1. d[j] = c[i] /\ c[i] # c[1]
        BY <1>1, <1>3, <1>5, <2>1
    <3> QED
        BY <1>1, <1>6, <1>7, <1>g, <2>1, <3>1
  <2>2. CASE j = 2
    <3>1. d[2] = c[1] /\ d[1] = c[i]
        BY <1>1, <1>3
    <3> QED
        BY <1>1, <1>6, <1>7, <1>g, <2>2, <3>1
  <2>3. CASE j > 2 /\ j <= i
    <3>1. d[j] = c[j - 1] /\ j - 1 \in 1 .. n /\ d[j - 1] = c[j - 2]
        BY <1>1, <1>3, <2>3
    <3>2. c[j - 1] # c[1] /\ c[j - 1] # c[i]
        BY <1>1, <1>5, <2>3, <3>1
    <3>3. i < n => c[j - 1] # c[i + 1]
        BY <1>1, <1>5, <2>3, <3>1
    <3>4. g[d[j]].prev = h[c[j - 1]].prev
        BY <1>6, <1>7, <1>g, <3>1, <3>2, <3>3
    <3>5. h[c[j - 1]].prev = c[j - 2]
        BY <1>1, <1>9, <2>3, <3>1
    <3> QED
        BY <2>3, <3>1, <3>4, <3>5
  <2>4. CASE j = i + 1
    <3>1. d[j] = c[i + 1] /\ d[j - 1] = c[i - 1]
        BY <1>1, <1>3, <2>4
    <3>2. i < n /\ c[i + 1] # c[1] /\ c[i + 1] # c[i]
        BY <1>1, <1>5, <2>4
    <3> QED
        BY <1>1, <1>6, <1>7, <1>g, <2>4, <3>1, <3>2
  <2>5. CASE j > i + 1
    <3>1. d[j] = c[j] /\ d[j - 1] = c[j - 1]
        BY <1>1, <1>3, <2>5
    <3>2. c[j] # c[1] /\ c[j] # c[i]
        BY <1>1, <1>5, <2>5
    <3>3. i < n => c[j] # c[i + 1]
        BY <1>1, <1>5, <2>5
    <3>4. g[d[j]].prev = h[c[j]].prev
        BY <1>6, <1>7, <1>g, <3>1, <3>2, <3>3
    <3> QED
        BY <1>1, <1>9, <2>5, <3>1, <3>4
  <2> QED
      BY <1>1, <2>1, <2>2, <2>3, <2>4, <2>5
<1> QED
    BY <1>1, <1>2, <1>11, <1>12, <1>13, <1>14, <1>15 DEF IsList, d, n

-----------------------------------------------------------------------------
(* Dropping the last cell, and linking a new one in front.                  *)

DropLast(s) == [j \in 1 .. Len(s) - 1 |-> s[j]]

LEMMA DropLastIs ==
    ASSUME NEW S, NEW s \in Seq(S), Len(s) > 0
    PROVE  /\ DropLast(s) \in Seq(S)
           /\ Len(DropLast(s)) = Len(s) - 1
           /\ \A j \in 1 .. Len(s) - 1 : DropLast(s)[j] = s[j]
<1>1. Len(s) - 1 \in Nat
    OBVIOUS
<1>2. DropLast(s) \in [1 .. Len(s) - 1 -> S]
    BY DEF DropLast
<1>3. DropLast(s) \in Seq(S) /\ Len(DropLast(s)) = Len(s) - 1
    BY <1>1, <1>2
<1> QED
    BY <1>3 DEF DropLast

\* g is h without the last cell tl of c.
Drops(c, tl, h, g) ==
    /\ \A m \in Nodes : g[m] # Null <=> h[m] # Null /\ m # tl
    /\ \A m \in Nodes : m # tl =>
        /\ g[m].next = IF Len(c) > 1 /\ m = c[Len(c) - 1] THEN Null ELSE h[m].next
        /\ g[m].prev = h[m].prev

\* The links that an eviction leaves are those of the list without its last.
LEMMA DroppedList ==
    ASSUME NEW c \in Seq(Nodes), NEW h, NEW hd, NEW tl, IsList(c, hd, tl, h),
           Len(c) > 0, NEW g, Drops(c, tl, h, g),
           NEW hd2, hd2 = (IF Len(c) = 1 THEN Null ELSE hd),
           NEW tl2, tl2 = (IF Len(c) = 1 THEN Null ELSE c[Len(c) - 1])
    PROVE  IsList(DropLast(c), hd2, tl2, g)
<1> DEFINE d == DropLast(c)
           n == Len(c)
<1>1. n \in Nat /\ n > 0
    OBVIOUS
<1>2. Len(d) = n - 1 /\ \A j \in 1 .. n - 1 : d[j] = c[j]
    BY DropLastIs
<1>3. \A j, m \in 1 .. n : c[j] = c[m] => j = m
    BY DEF IsList
<1>4. hd = c[1] /\ tl = c[n] /\ n \in 1 .. n
    BY <1>1 DEF IsList
<1>5. \A j \in 1 .. n : c[j] \in Nodes
    OBVIOUS
<1>6. \A j \in 1 .. n : /\ h[c[j]].next = IF j = n THEN Null ELSE c[j + 1]
                        /\ h[c[j]].prev = IF j = 1 THEN Null ELSE c[j - 1]
    BY DEF IsList
<1>h. /\ hd2 = IF n = 1 THEN Null ELSE hd
      /\ tl2 = IF n = 1 THEN Null ELSE c[n - 1]
    OBVIOUS
<1>7. \A m \in Nodes : h[m] # Null <=> \E j \in 1 .. n : c[j] = m
    BY DEF IsList
<1>8. /\ \A m \in Nodes : g[m] # Null <=> h[m] # Null /\ m # tl
      /\ \A m \in Nodes : m # tl =>
          /\ g[m].next = IF n > 1 /\ m = c[n - 1] THEN Null ELSE h[m].next
          /\ g[m].prev = h[m].prev
    BY DEF Drops
<1> HIDE DEF d, n
<1>9. \A j, m \in 1 .. n - 1 : d[j] = d[m] => j = m
    BY <1>1, <1>2, <1>3
<1>10. \A m \in Nodes : g[m] # Null <=> \E j \in 1 .. n - 1 : d[j] = m
  <2>1. SUFFICES ASSUME NEW m \in Nodes
                 PROVE  (\E j \in 1 .. n : c[j] = m) /\ m # c[n]
                            <=> \E j \in 1 .. n - 1 : d[j] = m
      BY <1>4, <1>7, <1>8
  <2>2. ASSUME NEW j \in 1 .. n, c[j] = m, m # c[n] PROVE \E q \in 1 .. n - 1 : d[q] = m
    <3>1. j \in 1 .. n - 1
        BY <1>1, <2>2
    <3> QED
        BY <1>2, <2>2, <3>1
  <2>3. ASSUME NEW j \in 1 .. n - 1, d[j] = m
        PROVE  m # c[n] /\ \E q \in 1 .. n : c[q] = m
    <3>1. j \in 1 .. n /\ j # n /\ c[j] = m
        BY <1>1, <1>2, <2>3
    <3> QED
        BY <1>3, <1>4, <3>1
  <2> QED
      BY <2>2, <2>3
<1>11. n # 1 => hd = d[1] /\ c[n - 1] = d[n - 1]
    BY <1>1, <1>2, <1>4
<1>12. ASSUME NEW j \in 1 .. n - 1
       PROVE  /\ g[d[j]].next = IF j = n - 1 THEN Null ELSE d[j + 1]
              /\ g[d[j]].prev = IF j = 1 THEN Null ELSE d[j - 1]
  <2>1. /\ j \in 1 .. n /\ j # n /\ n > 1 /\ n - 1 \in 1 .. n
        /\ d[j] = c[j] /\ c[j] # tl /\ c[j] \in Nodes
      BY <1>1, <1>2, <1>3, <1>4, <1>5
  <2>2. g[d[j]].prev = IF j = 1 THEN Null ELSE d[j - 1]
    <3>1. g[d[j]].prev = IF j = 1 THEN Null ELSE c[j - 1]
        BY <1>6, <1>8, <2>1
    <3>2. j # 1 => d[j - 1] = c[j - 1]
        BY <1>1, <1>2, <2>1
    <3> QED
        BY <3>1, <3>2
  <2>3. CASE j = n - 1
      BY <1>8, <2>1, <2>2, <2>3
  <2>4. CASE j # n - 1
    <3>1. c[j] # c[n - 1]
        BY <1>3, <2>1, <2>4
    <3>2. g[d[j]].next = c[j + 1]
        BY <1>6, <1>8, <2>1, <3>1
    <3>3. d[j + 1] = c[j + 1]
        BY <1>1, <1>2, <2>1, <2>4
    <3> QED
        BY <2>2, <2>4, <3>2, <3>3
  <2> QED
      BY <2>3, <2>4
<1>13. /\ hd2 = IF n - 1 = 0 THEN Null ELSE d[1]
       /\ tl2 = IF n - 1 = 0 THEN Null ELSE d[n - 1]
    BY <1>1, <1>h, <1>11
<1> HIDE DEF d
<1>14. IsList(d, hd2, tl2, g)
    BY <1>2, <1>9, <1>10, <1>12, <1>13 DEF IsList
<1> QED
    BY <1>14 DEF d

Pushed(x, s) == [j \in 1 .. Len(s) + 1 |-> IF j = 1 THEN x ELSE s[j - 1]]

LEMMA PushedIs ==
    ASSUME NEW S, NEW s \in Seq(S), NEW x \in S
    PROVE  /\ Pushed(x, s) \in Seq(S)
           /\ Len(Pushed(x, s)) = Len(s) + 1
           /\ \A j \in 1 .. Len(s) + 1 : Pushed(x, s)[j] = IF j = 1 THEN x ELSE s[j - 1]
<1>1. Len(s) + 1 \in Nat
    OBVIOUS
<1>2. \A j \in 1 .. Len(s) + 1 : (IF j = 1 THEN x ELSE s[j - 1]) \in S
    OBVIOUS
<1>3. Pushed(x, s) \in [1 .. Len(s) + 1 -> S]
    BY <1>2 DEF Pushed
<1>4. Pushed(x, s) \in Seq(S) /\ Len(Pushed(x, s)) = Len(s) + 1
    BY <1>1, <1>3
<1> QED
    BY <1>4 DEF Pushed

\* g is h with the cell x in front of hd.
Pushes(x, hd, h, g) ==
    \A m \in Nodes :
        /\ g[m] # Null <=> h[m] # Null \/ m = x
        /\ g[m].next = IF m = x THEN hd ELSE h[m].next
        /\ g[m].prev = IF m = x THEN Null ELSE IF m = hd THEN x ELSE h[m].prev

\* The links that an insertion leaves are those of the list with a new first.
LEMMA PushedList ==
    ASSUME NEW c \in Seq(Nodes), NEW h, NEW hd, NEW tl, IsList(c, hd, tl, h),
           NEW x \in Nodes, h[x] = Null, NEW g, Pushes(x, hd, h, g),
           NEW tl2, tl2 = (IF tl = Null THEN x ELSE tl)
    PROVE  IsList(Pushed(x, c), x, tl2, g)
<1> DEFINE d == Pushed(x, c)
           n == Len(c)
<1>1. n \in Nat
    OBVIOUS
<1>2. Len(d) = n + 1 /\ \A j \in 1 .. n + 1 : d[j] = IF j = 1 THEN x ELSE c[j - 1]
    BY PushedIs
<1>3. \A j, m \in 1 .. n : c[j] = c[m] => j = m
    BY DEF IsList
<1>4. /\ hd = IF n = 0 THEN Null ELSE c[1]
      /\ tl = IF n = 0 THEN Null ELSE c[n]
    BY DEF IsList
<1>5. \A j \in 1 .. n : c[j] \in Nodes
    OBVIOUS
<1>6. \A j \in 1 .. n : /\ h[c[j]].next = IF j = n THEN Null ELSE c[j + 1]
                        /\ h[c[j]].prev = IF j = 1 THEN Null ELSE c[j - 1]
    BY DEF IsList
<1>7. \A m \in Nodes : h[m] # Null <=> \E j \in 1 .. n : c[j] = m
    BY DEF IsList
<1> HIDE DEF d, n
<1>8. \A j \in 1 .. n : c[j] # x
    BY <1>7
<1>g. \A m \in Nodes :
        /\ g[m] # Null <=> h[m] # Null \/ m = x
        /\ g[m].next = IF m = x THEN hd ELSE h[m].next
        /\ g[m].prev = IF m = x THEN Null ELSE IF m = hd THEN x ELSE h[m].prev
    BY DEF Pushes
<1>9. \A j, m \in 1 .. n + 1 : d[j] = d[m] => j = m
  <2>1. \A j \in 1 .. n + 1 : j # 1 => j - 1 \in 1 .. n /\ d[j] = c[j - 1] /\ d[j] # x
      BY <1>1, <1>2, <1>8
  <2>2. d[1] = x
      BY <1>1, <1>2
  <2>3. \A j, m \in 1 .. n + 1 : d[j] = d[m] /\ j # 1 /\ m # 1 => j = m
    <3>1. \A j, m \in 1 .. n + 1 : d[j] = d[m] /\ j # 1 /\ m # 1 => j - 1 = m - 1
        BY <1>3, <2>1
    <3> QED
        BY <1>1, <3>1
  <2> QED
      BY <2>1, <2>2, <2>3
<1>10. \A m \in Nodes : g[m] # Null <=> \E j \in 1 .. n + 1 : d[j] = m
  <2>1. SUFFICES ASSUME NEW m \in Nodes
                 PROVE  (\E j \in 1 .. n : c[j] = m) \/ m = x <=> \E j \in 1 .. n + 1 : d[j] = m
      BY <1>7, <1>g
  <2>2. ASSUME NEW j \in 1 .. n, c[j] = m PROVE \E q \in 1 .. n + 1 : d[q] = m
    <3>1. j + 1 \in 1 .. n + 1 /\ d[j + 1] = m
        BY <1>1, <1>2, <2>2
    <3> QED
        BY <3>1
  <2>3. m = x => \E q \in 1 .. n + 1 : d[q] = m
      BY <1>1, <1>2
  <2>4. ASSUME NEW j \in 1 .. n + 1, d[j] = m PROVE m = x \/ \E q \in 1 .. n : c[q] = m
    <3>1. j # 1 => j - 1 \in 1 .. n
        BY <1>1
    <3> QED
        BY <1>2, <2>4, <3>1
  <2> QED
      BY <2>2, <2>3, <2>4
<1>11. x = d[1] /\ tl2 = d[n + 1]
  <2>1. n # 0 => tl # Null
      BY <1>1, <1>4, <1>5, NullIsOther
  <2> QED
      BY <1>1, <1>2, <1>4, <2>1
<1>12. ASSUME NEW j \in 1 .. n + 1
       PROVE  /\ g[d[j]].next = IF j = n + 1 THEN Null ELSE d[j + 1]
              /\ g[d[j]].prev = IF j = 1 THEN Null ELSE d[j - 1]
  <2>1. CASE j = 1
    <3>1. d[j] = x /\ g[d[j]].next = hd /\ g[d[j]].prev = Null
        BY <1>1, <1>2, <1>g, <2>1
    <3>2. n # 0 => d[2] = c[1]
        BY <1>1, <1>2
    <3> QED
        BY <1>1, <1>4, <2>1, <3>1, <3>2
  <2>2. CASE j # 1
    <3>1. j - 1 \in 1 .. n /\ d[j] = c[j - 1] /\ c[j - 1] # x /\ n # 0
        BY <1>1, <1>2, <1>8, <2>2
    <3>2. g[d[j]].next = IF j - 1 = n THEN Null ELSE c[j]
        BY <1>5, <1>6, <1>g, <3>1
    <3>3. j # n + 1 => d[j + 1] = c[j]
      <4>1. j # n + 1 => j + 1 \in 1 .. n + 1 /\ j + 1 # 1 /\ (j + 1) - 1 = j
          BY <1>1, <2>2
      <4> QED
          BY <1>2, <4>1
    <3>4. g[d[j]].prev = d[j - 1]
      <4>1. CASE j = 2
          BY <1>1, <1>2, <1>4, <1>5, <1>g, <3>1, <4>1
      <4>2. CASE j # 2
        <5>1. c[j - 1] # c[1]
            BY <1>1, <1>3, <3>1, <4>2
        <5>2. g[d[j]].prev = h[c[j - 1]].prev
            BY <1>4, <1>5, <1>g, <3>1, <5>1
        <5>3. h[c[j - 1]].prev = c[j - 2] /\ d[j - 1] = c[j - 2]
            BY <1>1, <1>2, <1>6, <2>2, <3>1, <4>2
        <5> QED
            BY <5>2, <5>3
      <4> QED
          BY <4>1, <4>2
    <3> QED
        BY <1>1, <2>2, <3>2, <3>3, <3>4
  <2> QED
      BY <2>1, <2>2
<1> QED
    BY <1>1, <1>2, <1>9, <1>10, <1>11, <1>12 DEF IsList, d, n

-----------------------------------------------------------------------------
(* Keys and recency.                                                        *)

\* What Touch makes of the history.
Bumped(sn, k) == [x \in DOMAIN sn \cup {k} |-> IF x = k THEN {} ELSE sn[x] \cup {k}]

LEMMA BumpedIs ==
    ASSUME NEW sn, DOMAIN sn \subseteq Keys,
           \A x \in DOMAIN sn : sn[x] \subseteq Keys /\ IsFiniteSet(sn[x]),
           NEW k \in Keys
    PROVE  /\ DOMAIN Bumped(sn, k) = DOMAIN sn \cup {k}
           /\ Bumped(sn, k)[k] = {}
           /\ \A x \in DOMAIN sn : x # k => Bumped(sn, k)[x] = sn[x] \cup {k}
           /\ \A x \in DOMAIN Bumped(sn, k) :
                Bumped(sn, k)[x] \subseteq Keys /\ IsFiniteSet(Bumped(sn, k)[x])
           /\ \A x \in DOMAIN sn :
                x # k => Cardinality(Bumped(sn, k)[x]) \in Nat
                           /\ Cardinality(sn[x]) \in Nat
                           /\ Cardinality(Bumped(sn, k)[x]) >= Cardinality(sn[x])
<1> DEFINE B == Bumped(sn, k)
<1>1. /\ DOMAIN B = DOMAIN sn \cup {k} /\ B[k] = {}
      /\ \A x \in DOMAIN sn : x # k => B[x] = sn[x] \cup {k}
    BY DEF Bumped
<1> HIDE DEF B
<1>2. ASSUME NEW x \in DOMAIN sn, x # k
      PROVE  /\ IsFiniteSet(B[x]) /\ B[x] \subseteq Keys
             /\ Cardinality(B[x]) \in Nat /\ Cardinality(sn[x]) \in Nat
             /\ Cardinality(B[x]) >= Cardinality(sn[x])
  <2>1. B[x] = sn[x] \cup {k} /\ IsFiniteSet(sn[x]) /\ sn[x] \subseteq Keys
      BY <1>1, <1>2
  <2>2. IsFiniteSet(B[x])
      BY <2>1, FS_AddElement
  <2>3. Cardinality(B[x]) \in Nat /\ Cardinality(sn[x]) \in Nat
      BY <2>1, <2>2, FS_CardinalityType
  <2>4. Cardinality(sn[x]) <= Cardinality(B[x])
    <3>1. sn[x] \in SUBSET B[x]
        BY <2>1
    <3> QED
        BY <2>2, <3>1, FS_Subset
  <2> QED
      BY <2>1, <2>2, <2>3, <2>4
<1>3. IsFiniteSet({})
    BY FS_EmptySet
<1>4. \A x \in DOMAIN B : B[x] \subseteq Keys /\ IsFiniteSet(B[x])
    BY <1>1, <1>2, <1>3
<1> QED
    BY <1>1, <1>2, <1>4 DEF B

LEMMA MovedRecency ==
    ASSUME NEW c \in Seq(Nodes), NEW h, NEW sn, KeysApart(c, h), Recency(c, h, sn),
           NEW i \in 1 .. Len(c), NEW g, \A m \in Nodes : g[m].key = h[m].key
    PROVE  /\ KeysApart(ToFront(c, i), g)
           /\ Recency(ToFront(c, i), g, Bumped(sn, h[c[i]].key))
<1> DEFINE d == ToFront(c, i)
           n == Len(c)
           k == h[c[i]].key
           B == Bumped(sn, k)
           K(j) == h[c[j]].key
<1>1. n \in Nat /\ i \in 1 .. n
    OBVIOUS
<1>2. Len(d) = n /\ \A j \in 1 .. n : d[j] = c[Was(i, j)]
    BY ToFrontIs, ToFrontWas
<1>3. /\ \A j \in 1 .. n : Was(i, j) \in 1 .. n
      /\ \A j, m \in 1 .. n : Was(i, j) = Was(i, m) => j = m
      /\ \A m \in 1 .. n : \E j \in 1 .. n : Was(i, j) = m
    BY <1>1, WasOnto
<1>4. \A j \in 1 .. n : g[d[j]].key = K(Was(i, j))
  <2>1. \A j \in 1 .. n : c[j] \in Nodes
      OBVIOUS
  <2> HIDE DEF d, n
  <2> QED
      BY <1>2, <1>3, <2>1
<1>5. \A j, m \in 1 .. n : K(j) = K(m) => j = m
    BY DEF KeysApart
<1>6. /\ DOMAIN sn \subseteq Keys
      /\ \A x \in DOMAIN sn : sn[x] \subseteq Keys /\ IsFiniteSet(sn[x])
      /\ \A j \in 1 .. n : K(j) \in DOMAIN sn
      /\ \A j \in 1 .. n : \A m \in 1 .. j - 1 : K(m) \in sn[K(j)]
      /\ \A x \in DOMAIN sn :
            (\A j \in 1 .. n : K(j) # x) => Cardinality(sn[x]) >= Capacity
    BY DEF Recency
<1>7. k = K(i) /\ k \in Keys /\ k \in DOMAIN sn
    BY <1>1, <1>6
<1>8. /\ DOMAIN B = DOMAIN sn
      /\ \A x \in DOMAIN sn : x # k => B[x] = sn[x] \cup {k}
      /\ \A x \in DOMAIN B : B[x] \subseteq Keys /\ IsFiniteSet(B[x])
      /\ \A x \in DOMAIN sn :
            x # k => Cardinality(B[x]) \in Nat /\ Cardinality(sn[x]) \in Nat
                     /\ Cardinality(B[x]) >= Cardinality(sn[x])
  <2>1. DOMAIN sn \subseteq Keys
      BY <1>6
  <2>2. \A x \in DOMAIN sn : sn[x] \subseteq Keys /\ IsFiniteSet(sn[x])
      BY <1>6
  <2>3. k \in Keys /\ DOMAIN sn \cup {k} = DOMAIN sn
      BY <1>7
  <2> HIDE DEF d, n, K
  <2>4. /\ DOMAIN B = DOMAIN sn
        /\ \A x \in DOMAIN sn : x # k => B[x] = sn[x] \cup {k}
      BY <2>3 DEF Bumped
  <2>5. \A x \in DOMAIN B : B[x] \subseteq Keys /\ IsFiniteSet(B[x])
      BY <2>1, <2>2, <2>3, BumpedIs
  <2>6. \A x \in DOMAIN sn :
            x # k => Cardinality(B[x]) \in Nat /\ Cardinality(sn[x]) \in Nat
                     /\ Cardinality(B[x]) >= Cardinality(sn[x])
      BY <2>1, <2>2, <2>3, BumpedIs
  <2> QED
      BY <2>4, <2>5, <2>6
<1> HIDE DEF d, n, k, B, K
<1>9. \A j, m \in 1 .. n : g[d[j]].key = g[d[m]].key => j = m
  <2>1. SUFFICES ASSUME NEW j \in 1 .. n, NEW m \in 1 .. n,
                        g[d[j]].key = g[d[m]].key
                 PROVE  j = m
      OBVIOUS
  <2>2. Was(i, j) \in 1 .. n /\ Was(i, m) \in 1 .. n
      BY <1>3
  <2>3. K(Was(i, j)) = K(Was(i, m))
      BY <1>4, <2>1
  <2>4. Was(i, j) = Was(i, m)
      BY <1>5, <2>2, <2>3
  <2> QED
      BY <1>3, <2>4
<1>10. \A j \in 1 .. n : g[d[j]].key \in DOMAIN B
  <2>1. SUFFICES ASSUME NEW j \in 1 .. n PROVE g[d[j]].key \in DOMAIN B
      OBVIOUS
  <2>2. Was(i, j) \in 1 .. n /\ g[d[j]].key = K(Was(i, j))
      BY <1>3, <1>4
  <2>3. K(Was(i, j)) \in DOMAIN sn
      BY <1>6, <2>2
  <2> QED
      BY <1>8, <2>2, <2>3
<1>11. ASSUME NEW j \in 1 .. n, NEW m \in 1 .. j - 1
       PROVE  g[d[m]].key \in B[g[d[j]].key]
  <2>1. m \in 1 .. n /\ m < j /\ j # 1
      BY <1>1
  <2>2. g[d[j]].key = K(Was(i, j)) /\ g[d[m]].key = K(Was(i, m))
      BY <1>4, <2>1
  <2>3. Was(i, j) \in 1 .. n /\ Was(i, m) \in 1 .. n
      BY <1>3, <2>1
  <2>4. Was(i, j) # i
      BY <1>1, <2>1 DEF Was
  <2>5. K(Was(i, j)) # k
      BY <1>1, <1>5, <1>7, <2>3, <2>4
  <2>6. B[K(Was(i, j))] = sn[K(Was(i, j))] \cup {k}
      BY <1>6, <1>8, <2>3, <2>5
  <2>7. CASE m = 1
      BY <1>7, <2>2, <2>6, <2>7 DEF Was
  <2>8. CASE m # 1
    <3>1. Was(i, m) \in 1 .. Was(i, j) - 1
        BY <1>1, <2>1, <2>8 DEF Was
    <3> QED
        BY <1>6, <2>2, <2>3, <2>6, <3>1
  <2> QED
      BY <2>7, <2>8
<1>12. ASSUME NEW x \in DOMAIN B, \A j \in 1 .. n : g[d[j]].key # x
       PROVE  Cardinality(B[x]) >= Capacity
  <2>1. \A j \in 1 .. n : K(j) # x
      BY <1>3, <1>4, <1>12
  <2>2. x # k /\ Cardinality(sn[x]) >= Capacity
      BY <1>1, <1>6, <1>7, <1>8, <2>1
  <2> QED
      BY <1>8, <2>2, CapacityPos
<1> QED
  <2>1. KeysApart(d, g)
      BY <1>2, <1>9 DEF KeysApart
  <2>2. Recency(d, g, B)
      BY <1>2, <1>6, <1>8, <1>10, <1>11, <1>12 DEF Recency
  <2> QED
      BY <2>1, <2>2 DEF d, B, k

\* A new key enters a cache that has room, or loses its last entry for it.
LEMMA PushedRecency ==
    ASSUME NEW c \in Seq(Nodes), NEW h, NEW sn, KeysApart(c, h), Recency(c, h, sn),
           NEW k \in Keys, \A j \in 1 .. Len(c) : h[c[j]].key # k,
           NEW b \in Seq(Nodes), b = c \/ (b = DropLast(c) /\ Len(c) = Capacity),
           NEW x \in Nodes, NEW g, g[x].key = k,
           \A j \in 1 .. Len(b) : g[b[j]].key = h[b[j]].key
    PROVE  /\ KeysApart(Pushed(x, b), g)
           /\ Recency(Pushed(x, b), g, Bumped(sn, k))
<1> DEFINE d == Pushed(x, b)
           n == Len(c)
           l == Len(b)
           B == Bumped(sn, k)
           K(j) == h[c[j]].key
<1>1. /\ n \in Nat /\ l \in Nat /\ l <= n
      /\ \A j \in 1 .. l : b[j] = c[j]
      /\ l = n \/ (n = Capacity /\ l = n - 1)
  <2>1. CASE b = c
      BY <2>1
  <2>2. CASE b = DropLast(c) /\ n = Capacity
      BY <2>2, CapacityPos, DropLastIs
  <2> QED
      BY <2>1, <2>2
<1>2. Len(d) = l + 1 /\ \A j \in 1 .. l + 1 : d[j] = IF j = 1 THEN x ELSE b[j - 1]
    BY PushedIs
<1>3. \A j \in 1 .. l : g[b[j]].key = h[b[j]].key
    OBVIOUS
<1>4. \A j \in 1 .. n : K(j) # k
    OBVIOUS
<1>5. \A j, m \in 1 .. n : K(j) = K(m) => j = m
    BY DEF KeysApart
<1>6. /\ DOMAIN sn \subseteq Keys
      /\ \A y \in DOMAIN sn : sn[y] \subseteq Keys /\ IsFiniteSet(sn[y])
      /\ \A j \in 1 .. n : K(j) \in DOMAIN sn
      /\ \A j \in 1 .. n : \A m \in 1 .. j - 1 : K(m) \in sn[K(j)]
      /\ \A y \in DOMAIN sn :
            (\A j \in 1 .. n : K(j) # y) => Cardinality(sn[y]) >= Capacity
    BY DEF Recency
<1>7. /\ DOMAIN B = DOMAIN sn \cup {k}
      /\ \A y \in DOMAIN sn : y # k => B[y] = sn[y] \cup {k}
      /\ \A y \in DOMAIN B : B[y] \subseteq Keys /\ IsFiniteSet(B[y])
      /\ \A y \in DOMAIN sn :
            y # k => Cardinality(B[y]) \in Nat /\ Cardinality(sn[y]) \in Nat
                     /\ Cardinality(B[y]) >= Cardinality(sn[y])
  <2>1. DOMAIN sn \subseteq Keys
      BY <1>6
  <2>2. \A y \in DOMAIN sn : sn[y] \subseteq Keys /\ IsFiniteSet(sn[y])
      BY <1>6
  <2> HIDE DEF d, n, l, K
  <2>3. /\ DOMAIN B = DOMAIN sn \cup {k}
        /\ \A y \in DOMAIN sn : y # k => B[y] = sn[y] \cup {k}
      BY DEF Bumped
  <2>4. \A y \in DOMAIN B : B[y] \subseteq Keys /\ IsFiniteSet(B[y])
      BY <2>1, <2>2, BumpedIs
  <2>5. \A y \in DOMAIN sn :
            y # k => Cardinality(B[y]) \in Nat /\ Cardinality(sn[y]) \in Nat
                     /\ Cardinality(B[y]) >= Cardinality(sn[y])
      BY <2>1, <2>2, BumpedIs
  <2> QED
      BY <2>3, <2>4, <2>5
<1> HIDE DEF d, n, l, B
<1>8. \A j \in 1 .. l + 1 :
        IF j = 1 THEN g[d[j]].key = k
        ELSE j - 1 \in 1 .. l /\ j - 1 \in 1 .. n /\ g[d[j]].key = K(j - 1)
  <2>1. \A j \in 1 .. l + 1 : j # 1 => j - 1 \in 1 .. l /\ j - 1 \in 1 .. n
      BY <1>1
  <2>2. d[1] = x
      BY <1>1, <1>2
  <2>3. \A j \in 1 .. l + 1 : j # 1 => g[d[j]].key = K(j - 1)
    <3>1. \A j \in 1 .. l : g[b[j]].key = K(j)
        BY <1>1, <1>3
    <3> HIDE DEF K
    <3> QED
        BY <1>2, <2>1, <3>1
  <2> QED
      BY <2>1, <2>2, <2>3
<1> HIDE DEF K
<1>9. \A j, m \in 1 .. l + 1 : g[d[j]].key = g[d[m]].key => j = m
  <2>1. SUFFICES ASSUME NEW j \in 1 .. l + 1, NEW m \in 1 .. l + 1,
                        g[d[j]].key = g[d[m]].key
                 PROVE  j = m
      OBVIOUS
  <2>2. CASE j = 1 \/ m = 1
      BY <1>4, <1>8, <2>1, <2>2
  <2>3. CASE j # 1 /\ m # 1
    <3>1. j - 1 = m - 1
        BY <1>5, <1>8, <2>1, <2>3
    <3> QED
        BY <1>1, <3>1
  <2> QED
      BY <2>2, <2>3
<1>10. \A j \in 1 .. l + 1 : g[d[j]].key \in DOMAIN B
    BY <1>6, <1>7, <1>8
<1>11. ASSUME NEW j \in 1 .. l + 1, NEW m \in 1 .. j - 1
       PROVE  g[d[m]].key \in B[g[d[j]].key]
  <2>1. j # 1 /\ m \in 1 .. l + 1 /\ m < j
      BY <1>1
  <2>2. j - 1 \in 1 .. n /\ g[d[j]].key = K(j - 1) /\ B[K(j - 1)] = sn[K(j - 1)] \cup {k}
      BY <1>4, <1>6, <1>7, <1>8, <2>1
  <2>3. CASE m = 1
      BY <1>8, <2>1, <2>2, <2>3
  <2>4. CASE m # 1
    <3>1. m - 1 \in 1 .. (j - 1) - 1 /\ g[d[m]].key = K(m - 1)
        BY <1>1, <1>8, <2>1, <2>4
    <3> QED
        BY <1>6, <2>2, <3>1
  <2> QED
      BY <2>3, <2>4
<1>12. ASSUME NEW y \in DOMAIN B, \A j \in 1 .. l + 1 : g[d[j]].key # y
       PROVE  Cardinality(B[y]) >= Capacity
  <2>1. y # k /\ y \in DOMAIN sn
      BY <1>1, <1>7, <1>8, <1>12
  <2>2. CASE \A j \in 1 .. n : K(j) # y
      BY <1>6, <1>7, <2>1, <2>2, CapacityPos
  <2>3. CASE \E j \in 1 .. n : K(j) = y
    <3>1. PICK q \in 1 .. n : K(q) = y
        BY <2>3
    <3>2. q = n /\ n = Capacity /\ l = n - 1
      <4>1. SUFFICES ASSUME q \in 1 .. l PROVE FALSE
          BY <1>1
      <4>2. q + 1 \in 1 .. l + 1 /\ q + 1 # 1 /\ (q + 1) - 1 = q
          BY <1>1, <4>1
      <4>3. g[d[q + 1]].key = K(q)
          BY <1>8, <4>2
      <4> QED
          BY <1>12, <3>1, <4>2, <4>3
    <3> DEFINE f == [j \in 1 .. n |-> IF j = n THEN k ELSE K(j)]
    <3>3. \A j \in 1 .. n : j # n => K(j) \in B[y]
      <4>1. \A j \in 1 .. n : j # n => j \in 1 .. q - 1
          BY <1>1, <3>2
      <4> QED
          BY <1>6, <1>7, <2>1, <3>1, <4>1
    <3>4. f \in [1 .. n -> B[y]]
        BY <1>7, <2>1, <3>3
    <3>5. \A i, j \in 1 .. n : f[i] = f[j] => i = j
        BY <1>4, <1>5
    <3> HIDE DEF f
    <3>6. f \in Injection(1 .. n, B[y])
        BY <3>4, <3>5 DEF Injection, IsInjective
    <3>7. Cardinality(1 .. n) <= Cardinality(B[y])
      <4> DEFINE S == 1 .. n
      <4> HIDE DEF S
      <4>1. \A e \in Injection(S, B[y]) : Cardinality(S) <= Cardinality(B[y])
          BY <1>7, FS_Injection
      <4> QED
          BY <3>6, <4>1 DEF S
    <3>8. Cardinality(1 .. n) = Capacity
      <4>1. 1 \in Int /\ n \in Int /\ n >= 1
          BY <1>1, <3>2, CapacityPos
      <4>2. Cardinality(1 .. n) = IF 1 > n THEN 0 ELSE n - 1 + 1
          BY <4>1, FS_Interval
      <4> QED
          BY <3>2, <4>1, <4>2
    <3> QED
        BY <1>7, <2>1, <3>7, <3>8, CapacityPos
  <2> QED
      BY <2>2, <2>3
<1> QED
  <2>1. KeysApart(d, g)
      BY <1>2, <1>9 DEF KeysApart
  <2>2. Recency(d, g, B)
    <3>1. DOMAIN B \subseteq Keys
        BY <1>6, <1>7
    <3> QED
        BY <1>2, <1>7, <1>10, <1>11, <1>12, <3>1 DEF Recency
  <2> QED
      BY <2>1, <2>2 DEF d, B

-----------------------------------------------------------------------------
(* What each call makes of the list.                                        *)

\* The keys of the cells are found where they are.
LEMMA LookupIs ==
    ASSUME NEW c \in Seq(Nodes), Chain = c, NEW k
    PROVE  /\ \A n \in Lookup(k) : \E i \in 1 .. Len(c) : c[i] = n /\ heap[n].key = k
           /\ Lookup(k) = {} => \A i \in 1 .. Len(c) : heap[c[i]].key # k
<1> DEFINE Hit == {i \in 1 .. Len(c) : heap[c[i]].key = k}
<1>1. DOMAIN c = 1 .. Len(c) /\ Len(c) \in Nat
    OBVIOUS
<1>2. Lookup(k) = {c[i] : i \in {j \in Hit : \A m \in Hit : j <= m}}
    BY <1>1 DEF Lookup
<1>3. \A n \in Lookup(k) : \E i \in 1 .. Len(c) : c[i] = n /\ heap[n].key = k
    BY <1>2
<1>4. Hit \in SUBSET Nat
    BY <1>1
<1>5. ASSUME Lookup(k) = {}, NEW i \in 1 .. Len(c), heap[c[i]].key = k PROVE FALSE
  <2>1. Hit # {}
      BY <1>5
  <2> HIDE DEF Hit
  <2>2. \E j \in Hit : \A m \in Hit : j <= m
      BY <1>4, <2>1, LeastOf
  <2> QED
      BY <1>2, <1>5, <2>2
<1> QED
    BY <1>3, <1>5

\* An allocated cell holds a key and a response.
LEMMA CellIs ==
    ASSUME NEW c, Good(c), NEW i \in 1 .. Len(c)
    PROVE  c[i] \in Nodes /\ heap[c[i]] # Null /\ heap[c[i]] \in Cell
<1>1. c \in Seq(Nodes) /\ heap \in [Nodes -> Cell \cup {Null}] /\ IsList(c, head, tail, heap)
    BY DEF Good
<1>2. c[i] \in Nodes
    BY <1>1
<1>3. heap[c[i]] # Null
    BY <1>1, <1>2 DEF IsList
<1> QED
    BY <1>1, <1>2, <1>3

LEMMA ChainOf ==
    ASSUME NEW c, Good(c)
    PROVE  Chain = c
BY ChainIs DEF Good, Chain

LEMMA ChainAfter ==
    ASSUME NEW d, Good(d)'
    PROVE  Chain' = d
BY ChainIs DEF Good, Chain

\* A hit moves one cell to the front.
LEMMA GetHitStep ==
    ASSUME NEW c, Good(c), NEW k \in Keys, GetHit(k)
    PROVE  \E i \in 1 .. Len(c) :
              /\ heap[c[i]].key = k /\ reply' = heap[c[i]].val
              /\ Relinked(heap', heap)
              /\ Good(ToFront(c, i))'
<1>1. /\ c \in Seq(Nodes) /\ heap \in Heaps
      /\ IsList(c, head, tail, heap) /\ KeysApart(c, heap)
      /\ Recency(c, heap, since) /\ size = Len(c) /\ size <= Capacity /\ Stats
    BY DEF Good, Heaps
<1>2. PICK n \in Lookup(k) :
        /\ \/ n = head /\ UNCHANGED <<head, tail, heap>>
           \/ /\ n # head
              /\ heap' = LinkFront(Unlink(heap, n), n)
              /\ tail' = IF n = tail THEN heap[n].prev ELSE tail
              /\ head' = n
        /\ hits' = (hits + 1) % StatWrap
        /\ reply' = heap[n].val
        /\ Touch(k)
        /\ UNCHANGED <<size, misses>>
    BY DEF GetHit
<1>3. PICK i \in 1 .. Len(c) : c[i] = n /\ heap[n].key = k
    BY <1>1, ChainOf, LookupIs
<1>4. c[i] \in Nodes /\ heap[n] # Null /\ heap[n] \in Cell
    BY <1>3, CellIs
<1>5. Stats'
  <2>1. hits' \in 0 .. (StatWrap - 1)
      BY <1>1, <1>2, StatWrapPos DEF Stats
  <2>2. reply' \in Vals
      BY <1>2, <1>4 DEF Cell
  <2> QED
      BY <1>1, <1>2, <2>1, <2>2 DEF Stats
<1>6. since' = Bumped(since, k)
    BY <1>2 DEF Touch, Bumped
<1>7. Relinked(heap', heap) /\ IsList(ToFront(c, i), head', tail', heap')
  <2>1. CASE n = head /\ UNCHANGED <<head, tail, heap>>
    <3>1. Relinked(heap', heap)
        BY <1>1, <2>1 DEF Relinked
    <3>2. i = 1
        BY <1>1, <1>3, <2>1 DEF IsList
    <3>3. ToFront(c, 1) = c
        BY <1>1, ToFrontFirst
    <3> QED
        BY <1>1, <2>1, <3>1, <3>2, <3>3
  <2>2. CASE /\ n # head
             /\ heap' = LinkFront(Unlink(heap, n), n)
             /\ tail' = IF n = tail THEN heap[n].prev ELSE tail
             /\ head' = n
    <3> DEFINE L == Len(c)
               p == c[i - 1]
    <3>1. L \in Nat /\ i # 1 /\ i \in 2 .. L /\ i - 1 \in 1 .. L /\ L # 0
        BY <1>1, <1>3, <2>2 DEF IsList
    <3>2. /\ head = c[1] /\ tail = c[L] /\ p \in Nodes /\ head \in Nodes
          /\ heap[n].prev = p
          /\ heap[n].next = IF i = L THEN Null ELSE c[i + 1]
          /\ (n = tail) <=> (i = L)
        BY <1>1, <1>3, <3>1 DEF IsList
    <3>3. heap[p] # Null /\ heap[head] # Null /\ p # n /\ n \in Nodes
      <4>1. p # n
          BY <1>1, <1>3, <3>1 DEF IsList
      <4>2. 1 \in 1 .. L
          BY <3>1
      <4> QED
          BY <1>3, <1>4, <3>1, <3>2, <4>1, <4>2, CellIs
    <3> DEFINE x == IF i = L THEN Null ELSE c[i + 1]
               h1 == SetNext(heap, p, x)
    <3>4. x \in Nodes \cup {Null} /\ (i # L => x \in Nodes /\ heap[x] # Null)
      <4>1. i # L => i + 1 \in 1 .. L
          BY <3>1
      <4> QED
          BY <1>1, <4>1, CellIs
    <3>5. /\ Relinked(h1, heap)
          /\ \A m \in Nodes : /\ h1[m].next = IF m = p THEN x ELSE heap[m].next
                              /\ h1[m].prev = heap[m].prev
        BY <1>1, <3>2, <3>3, <3>4, SetNextIs
    <3> DEFINE h2 == Unlink(heap, n)
    <3>6. /\ Relinked(h2, heap)
          /\ \A m \in Nodes :
                /\ h2[m].next = IF m = p THEN x ELSE heap[m].next
                /\ h2[m].prev = IF i < L /\ m = c[i + 1] THEN p ELSE heap[m].prev
      <4>1. CASE i = L
        <5>1. h2 = h1
            BY <3>2, <4>1 DEF Unlink
        <5> HIDE DEF h1, h2
        <5> QED
            BY <3>5, <4>1, <5>1
      <4>2. CASE i # L
        <5>1. h2 = SetPrev(h1, x, p)
            BY <3>2, <4>2 DEF Unlink
        <5>2. h1 \in Heaps /\ h1[x] # Null /\ x \in Nodes
            BY <3>4, <3>5, <4>2 DEF Relinked
        <5>3. i < L /\ x = c[i + 1]
            BY <3>1, <4>2
        <5> HIDE DEF h1, h2, x
        <5>4. /\ Relinked(h2, h1)
              /\ \A m \in Nodes : /\ h2[m].prev = IF m = x THEN p ELSE h1[m].prev
                                  /\ h2[m].next = h1[m].next
            BY <3>2, <5>1, <5>2, SetPrevIs
        <5>5. Relinked(h2, heap)
            BY <3>5, <5>4, RelinkedTrans
        <5> QED
            BY <3>5, <5>3, <5>4, <5>5
      <4> QED
          BY <4>1, <4>2
    <3> DEFINE h3 == SetNext(h2, n, head)
               h4 == SetPrev(h3, n, Null)
               h5 == SetPrev(h4, head, n)
    <3>7. heap' = h5
        BY <2>2 DEF LinkFront
    <3> HIDE DEF h1, h2
    <3>8. h2 \in Heaps /\ h2[n] # Null
        BY <1>4, <3>3, <3>6 DEF Relinked
    <3>9. /\ Relinked(h3, h2)
          /\ \A m \in Nodes : /\ h3[m].next = IF m = n THEN head ELSE h2[m].next
                              /\ h3[m].prev = h2[m].prev
        BY <3>2, <3>3, <3>8, SetNextIs
    <3> HIDE DEF h3
    <3>10. h3 \in Heaps /\ h3[n] # Null
        BY <3>3, <3>8, <3>9 DEF Relinked
    <3>11. /\ Relinked(h4, h3)
           /\ \A m \in Nodes : /\ h4[m].prev = IF m = n THEN Null ELSE h3[m].prev
                               /\ h4[m].next = h3[m].next
        BY <3>3, <3>10, SetPrevIs
    <3> HIDE DEF h4
    <3>12. Relinked(h4, heap)
        BY <3>6, <3>9, <3>11, RelinkedTrans
    <3>13. h4 \in Heaps /\ h4[head] # Null
        BY <3>2, <3>3, <3>12 DEF Relinked
    <3>14. /\ Relinked(h5, h4)
           /\ \A m \in Nodes : /\ h5[m].prev = IF m = head THEN n ELSE h4[m].prev
                               /\ h5[m].next = h4[m].next
        BY <3>2, <3>3, <3>13, SetPrevIs
    <3> HIDE DEF h5
    <3>15. Relinked(h5, heap)
        BY <3>12, <3>14, RelinkedTrans
    <3>16. \A m \in Nodes : h5[m] # Null <=> heap[m] # Null
        BY <3>15 DEF Relinked
    <3>17. Moves(c, i, head, heap, h5)
        BY <1>3, <3>6, <3>9, <3>11, <3>14, <3>16 DEF Moves
    <3>18. head' = c[i] /\ tail' = IF i = Len(c) THEN c[i - 1] ELSE tail
        BY <1>3, <2>2, <3>2
    <3>19. IsList(ToFront(c, i), c[i], tail', h5)
        BY <1>1, <3>1, <3>17, <3>18, MovedList
    <3> QED
        BY <3>7, <3>15, <3>18, <3>19
  <2> QED
      BY <1>2, <2>1, <2>2
<1>8. KeysApart(ToFront(c, i), heap') /\ Recency(ToFront(c, i), heap', since')
  <2>1. \A m \in Nodes : heap'[m].key = heap[m].key
      BY <1>7 DEF Relinked
  <2>2. k = heap[c[i]].key
      BY <1>3
  <2> QED
      BY <1>1, <1>3, <1>6, <2>1, <2>2, MovedRecency
<1>9. ToFront(c, i) \in Seq(Nodes) /\ Len(ToFront(c, i)) = Len(c)
    BY <1>1, <1>3, ToFrontIs
<1>10. Good(ToFront(c, i))'
    BY <1>1, <1>2, <1>5, <1>7, <1>8, <1>9 DEF Good, Relinked, Heaps
<1> QED
    BY <1>2, <1>3, <1>7, <1>10

\* A replacement changes the response of one cell.
LEMMA PutHitStep ==
    ASSUME NEW c, Good(c), NEW k \in Keys, NEW v \in Vals, PutHit(k, v)
    PROVE  \E i \in 1 .. Len(c) :
              /\ heap[c[i]].key = k
              /\ \A m \in Nodes : /\ heap'[m].key = heap[m].key
                                  /\ heap'[m].val = IF m = c[i] THEN v ELSE heap[m].val
              /\ reply' = reply
              /\ Good(c)'
<1>1. /\ c \in Seq(Nodes) /\ heap \in [Nodes -> Cell \cup {Null}]
      /\ IsList(c, head, tail, heap) /\ KeysApart(c, heap)
      /\ Recency(c, heap, since) /\ size = Len(c) /\ size <= Capacity /\ Stats
    BY DEF Good
<1>2. PICK n \in Lookup(k) :
        /\ heap' = [heap EXCEPT ![n].val = v]
        /\ UNCHANGED <<head, tail, size, hits, misses, reply, since>>
    BY DEF PutHit
<1>3. PICK i \in 1 .. Len(c) : c[i] = n /\ heap[n].key = k
    BY <1>1, ChainOf, LookupIs
<1>4. n \in Nodes /\ heap[n] # Null /\ heap[n] \in Cell
    BY <1>3, CellIs
<1> DEFINE r == [heap[n] EXCEPT !.val = v]
<1>5. /\ r \in Cell /\ r.val = v
      /\ r.key = heap[n].key /\ r.next = heap[n].next /\ r.prev = heap[n].prev
    BY <1>4 DEF Cell
<1>6. r # Null
    BY <1>5, NullIsOther
<1> HIDE DEF r
<1>7. heap' = [heap EXCEPT ![n] = r]
    BY <1>2 DEF r
<1>8. /\ heap' \in [Nodes -> Cell \cup {Null}]
      /\ \A m \in Nodes : heap'[m] = IF m = n THEN r ELSE heap[m]
    BY <1>1, <1>5, <1>7
<1>9. \A m \in Nodes : /\ heap'[m] # Null <=> heap[m] # Null
                       /\ heap'[m].key = heap[m].key
                       /\ heap'[m].next = heap[m].next
                       /\ heap'[m].prev = heap[m].prev
                       /\ heap'[m].val = IF m = n THEN v ELSE heap[m].val
    BY <1>4, <1>5, <1>6, <1>8
<1>10. \A j \in 1 .. Len(c) : c[j] \in Nodes
    BY <1>1
<1>11. IsList(c, head, tail, heap')
  <2>1. \A m \in Nodes : /\ heap'[m] # Null <=> heap[m] # Null
                         /\ heap'[m].next = heap[m].next /\ heap'[m].prev = heap[m].prev
      BY <1>9
  <2> QED
      BY <1>1, <2>1, SameLinks
<1>12. KeysApart(c, heap')
    BY <1>1, <1>9, <1>10 DEF KeysApart
<1>13. \A j \in 1 .. Len(c) : heap'[c[j]].key = heap[c[j]].key
    BY <1>9, <1>10
<1>14. Recency(c, heap', since)
  <2>1. Len(c) \in Nat
      BY <1>1
  <2>2. \A j \in 1 .. Len(c) : \A m \in 1 .. j - 1 : m \in 1 .. Len(c)
      BY <2>1
  <2> QED
      BY <1>1, <1>13, <2>2 DEF Recency
<1>15. Good(c)'
    BY <1>1, <1>2, <1>8, <1>11, <1>12, <1>14 DEF Good, Stats
<1> QED
    BY <1>2, <1>3, <1>9, <1>15

\* The eviction drops the last cell of a full list.
LEMMA EvictStep ==
    ASSUME NEW c, Good(c)
    PROVE  \E b \in Seq(Nodes) :
              /\ \/ Len(c) < Capacity /\ b = c
                 \/ Len(c) = Capacity /\ b = DropLast(c)
              /\ AfterEvict.size = Len(b)
              /\ AfterEvict.heap \in Heaps
              /\ IsList(b, AfterEvict.head, AfterEvict.tail, AfterEvict.heap)
              /\ \A j \in 1 .. Len(b) : /\ AfterEvict.heap[b[j]].key = heap[b[j]].key
                                        /\ AfterEvict.heap[b[j]].val = heap[b[j]].val
<1> DEFINE n == Len(c)
<1>1. /\ c \in Seq(Nodes) /\ heap \in Heaps /\ n \in Nat
      /\ IsList(c, head, tail, heap) /\ size = n /\ n <= Capacity
    BY DEF Good, Heaps
<1>2. CASE n < Capacity
  <2>1. AfterEvict = [heap |-> heap, head |-> head, tail |-> tail, size |-> size]
      BY <1>1, <1>2, CapacityPos DEF AfterEvict, Full
  <2> HIDE DEF n
  <2>2. /\ AfterEvict.size = n /\ AfterEvict.heap = heap
        /\ AfterEvict.head = head /\ AfterEvict.tail = tail
      BY <1>1, <2>1
  <2> QED
      BY <1>1, <1>2, <2>2 DEF n
<1>3. CASE n = Capacity
  <2> DEFINE p == heap[tail].prev
             freed == [heap EXCEPT ![tail] = Null]
             b == DropLast(c)
             g == IF n = 1 THEN freed ELSE SetNext(freed, p, Null)
  <2>1. n > 0 /\ n \in 1 .. n /\ n # 0
      BY <1>1, <1>3, CapacityPos
  <2>2. tail = c[n] /\ tail \in Nodes /\ head = c[1] /\ tail # Null
      BY <1>1, <2>1, NullIsOther DEF IsList
  <2>3. p = IF n = 1 THEN Null ELSE c[n - 1]
      BY <1>1, <2>1, <2>2 DEF IsList
  <2>4. n # 1 => n - 1 \in 1 .. n /\ p \in Nodes /\ p # tail /\ p # Null /\ heap[p] # Null
    <3>1. n # 1 => n - 1 \in 1 .. n /\ n - 1 # n
        BY <1>1, <2>1
    <3>2. n # 1 => p # tail
        BY <1>1, <2>1, <2>2, <2>3, <3>1 DEF IsList
    <3>3. n # 1 => p \in Nodes /\ heap[p] # Null
        BY <2>3, <3>1, CellIs
    <3> QED
        BY <3>1, <3>2, <3>3, NullIsOther
  <2>5. AfterEvict = [heap |-> g, head |-> IF n = 1 THEN Null ELSE head,
                      tail |-> IF n = 1 THEN Null ELSE p, size |-> n - 1]
    <3>1. Full /\ tail # Null
        BY <1>1, <1>3, <2>2, CapacityPos DEF Full
    <3>2. (p # Null) <=> (n # 1)
        BY <2>3, <2>4
    <3>3. CASE n = 1
        BY <1>1, <3>1, <3>2, <3>3 DEF AfterEvict
    <3>4. CASE n # 1
        BY <1>1, <3>1, <3>2, <3>4 DEF AfterEvict
    <3> QED
        BY <3>3, <3>4
  <2>6. /\ freed \in Heaps
        /\ \A m \in Nodes : freed[m] = IF m = tail THEN Null ELSE heap[m]
      BY <1>1, <2>2 DEF Heaps
  <2> HIDE DEF freed
  <2>7. /\ g \in Heaps
        /\ \A m \in Nodes : g[m] # Null <=> heap[m] # Null /\ m # tail
        /\ \A m \in Nodes : m # tail =>
              /\ g[m].key = heap[m].key /\ g[m].val = heap[m].val
              /\ g[m].prev = heap[m].prev
              /\ g[m].next = IF n > 1 /\ m = c[n - 1] THEN Null ELSE heap[m].next
    <3>1. CASE n = 1
        BY <2>6, <3>1
    <3>2. CASE n # 1
      <4>1. freed[p] # Null /\ p \in Nodes
          BY <2>4, <2>6, <3>2
      <4>2. g = SetNext(freed, p, Null) /\ n > 1 /\ p = c[n - 1]
          BY <1>1, <2>1, <2>3, <3>2
      <4> HIDE DEF g, p, n
      <4>3. /\ Relinked(g, freed)
            /\ \A m \in Nodes : /\ g[m].next = IF m = p THEN Null ELSE freed[m].next
                                /\ g[m].prev = freed[m].prev
          BY <2>6, <4>1, <4>2, SetNextIs
      <4>4. /\ g \in Heaps
            /\ \A m \in Nodes : /\ g[m] # Null <=> freed[m] # Null
                                /\ g[m].key = freed[m].key
                                /\ g[m].val = freed[m].val
          BY <4>3 DEF Relinked
      <4> QED
          BY <2>6, <4>2, <4>3, <4>4
    <3> QED
        BY <3>1, <3>2
  <2> HIDE DEF g
  <2>8. IsList(b, AfterEvict.head, AfterEvict.tail, g)
    <3>1. Drops(c, tail, heap, g)
        BY <2>7 DEF Drops
    <3>2. /\ AfterEvict.head = IF n = 1 THEN Null ELSE head
          /\ AfterEvict.tail = IF n = 1 THEN Null ELSE c[n - 1]
        BY <2>3, <2>5
    <3> QED
        BY <1>1, <2>1, <3>1, <3>2, DroppedList
  <2>9. /\ b \in Seq(Nodes) /\ Len(b) = n - 1
        /\ \A j \in 1 .. n - 1 : b[j] = c[j]
      BY <1>1, <2>1, DropLastIs
  <2>10. \A j \in 1 .. Len(b) : g[b[j]].key = heap[b[j]].key /\ g[b[j]].val = heap[b[j]].val
    <3>1. \A j \in 1 .. n - 1 : j \in 1 .. n /\ j # n
        BY <1>1
    <3>2. \A j \in 1 .. n - 1 : c[j] # tail /\ c[j] \in Nodes
        BY <1>1, <2>1, <2>2, <3>1 DEF IsList
    <3> HIDE DEF b, n
    <3> QED
        BY <2>7, <2>9, <3>2
  <2>11. AfterEvict.size = n - 1 /\ AfterEvict.heap = g
      BY <2>5
  <2> HIDE DEF b
  <2> QED
      BY <1>3, <2>7, <2>8, <2>9, <2>10, <2>11 DEF b
<1> QED
    BY <1>1, <1>2, <1>3, CapacityPos

\* A new key is linked in front of what the eviction left.
LEMMA PutNewStep ==
    ASSUME NEW c, Good(c), NEW k \in Keys, NEW v \in Vals, PutNew(k, v)
    PROVE  \E b \in Seq(Nodes), x \in Nodes :
              /\ \/ Len(c) < Capacity /\ b = c
                 \/ Len(c) = Capacity /\ b = DropLast(c)
              /\ \A i \in 1 .. Len(c) : heap[c[i]].key # k
              /\ heap'[x].key = k /\ heap'[x].val = v
              /\ \A j \in 1 .. Len(b) : /\ heap'[b[j]].key = heap[b[j]].key
                                        /\ heap'[b[j]].val = heap[b[j]].val
              /\ reply' = reply
              /\ Good(Pushed(x, b))'
<1> DEFINE e == AfterEvict
<1>1. /\ c \in Seq(Nodes) /\ KeysApart(c, heap) /\ Recency(c, heap, since) /\ Stats
    BY DEF Good
<1>2. PICK b \in Seq(Nodes) :
        /\ \/ Len(c) < Capacity /\ b = c
           \/ Len(c) = Capacity /\ b = DropLast(c)
        /\ e.size = Len(b) /\ e.heap \in Heaps
        /\ IsList(b, e.head, e.tail, e.heap)
        /\ \A j \in 1 .. Len(b) : /\ e.heap[b[j]].key = heap[b[j]].key
                                  /\ e.heap[b[j]].val = heap[b[j]].val
    BY EvictStep
<1>3. PICK x \in {m \in Nodes : e.heap[m] = Null} :
        LET new == [e.heap EXCEPT ![x] = [key |-> k, val |-> v, prev |-> Null, next |-> e.head]]
        IN  /\ heap' = IF e.head # Null THEN SetPrev(new, e.head, x) ELSE new
            /\ head' = x
            /\ tail' = IF e.tail = Null THEN x ELSE e.tail
    BY DEF PutNew
<1>4. /\ Lookup(k) = {} /\ size' = e.size + 1 /\ Touch(k)
      /\ UNCHANGED <<hits, misses, reply>>
    BY DEF PutNew
<1> HIDE DEF e
<1>5. \A i \in 1 .. Len(c) : heap[c[i]].key # k
    BY <1>1, <1>4, ChainOf, LookupIs
<1>6. x \in Nodes /\ e.heap[x] = Null
    BY <1>3
<1> DEFINE r == [key |-> k, val |-> v, prev |-> Null, next |-> e.head]
           new == [e.heap EXCEPT ![x] = r]
<1>7. /\ e.head = IF Len(b) = 0 THEN Null ELSE b[1]
      /\ \A j \in 1 .. Len(b) : b[j] \in Nodes /\ e.heap[b[j]] # Null
    BY <1>2 DEF IsList
<1>8. /\ e.head \in Nodes \cup {Null}
      /\ e.head # Null => e.heap[e.head] # Null /\ e.head \in Nodes
  <2>1. Len(b) # 0 => 1 \in 1 .. Len(b)
      BY <1>2
  <2> QED
      BY <1>7, <2>1
<1>9. /\ r \in Cell /\ r.key = k /\ r.val = v /\ r.prev = Null /\ r.next = e.head
    BY <1>8 DEF Cell
<1>10. r # Null
    BY <1>9, NullIsOther
<1> HIDE DEF r
<1>11. /\ new \in Heaps
       /\ \A m \in Nodes : new[m] = IF m = x THEN r ELSE e.heap[m]
    BY <1>2, <1>6, <1>9 DEF Heaps
<1>12. heap' = IF e.head # Null THEN SetPrev(new, e.head, x) ELSE new
    BY <1>3 DEF r
<1> HIDE DEF new
<1>13. /\ heap' \in Heaps
       /\ Pushes(x, e.head, e.heap, heap')
       /\ \A m \in Nodes : heap'[m].key = new[m].key /\ heap'[m].val = new[m].val
  <2>1. CASE e.head = Null
    <3>1. heap' = new
        BY <1>12, <2>1
    <3>2. \A m \in Nodes : m # e.head
        BY <2>1, NullIsOther
    <3>3. Pushes(x, e.head, e.heap, new)
        BY <1>9, <1>10, <1>11, <3>2 DEF Pushes
    <3> QED
        BY <1>11, <3>1, <3>3
  <2>2. CASE e.head # Null
    <3>1. heap' = SetPrev(new, e.head, x)
        BY <1>12, <2>2
    <3>2. e.head \in Nodes /\ e.head # x /\ new[e.head] # Null
        BY <1>6, <1>8, <1>11, <2>2
    <3>3. /\ Relinked(heap', new)
          /\ \A m \in Nodes : /\ heap'[m].prev = IF m = e.head THEN x ELSE new[m].prev
                              /\ heap'[m].next = new[m].next
        BY <1>6, <1>11, <3>1, <3>2, SetPrevIs
    <3>4. /\ heap' \in Heaps
          /\ \A m \in Nodes : /\ heap'[m] # Null <=> new[m] # Null
                              /\ heap'[m].key = new[m].key
                              /\ heap'[m].val = new[m].val
        BY <3>3 DEF Relinked
    <3>5. \A m \in Nodes :
            /\ heap'[m] # Null <=> e.heap[m] # Null \/ m = x
            /\ heap'[m].next = IF m = x THEN e.head ELSE e.heap[m].next
            /\ heap'[m].prev = IF m = x THEN Null ELSE IF m = e.head THEN x ELSE e.heap[m].prev
        BY <1>9, <1>10, <1>11, <3>2, <3>3, <3>4
    <3> QED
        BY <3>4, <3>5 DEF Pushes
  <2> QED
      BY <2>1, <2>2
<1>14. IsList(Pushed(x, b), head', tail', heap')
  <2>1. tail' = (IF e.tail = Null THEN x ELSE e.tail) /\ head' = x
      BY <1>3
  <2>2. IsList(Pushed(x, b), x, tail', heap')
      BY <1>2, <1>6, <1>13, <2>1, PushedList
  <2> QED
      BY <2>1, <2>2
<1>15. heap'[x].key = k /\ heap'[x].val = v
    BY <1>6, <1>9, <1>11, <1>13
<1>16. \A j \in 1 .. Len(b) : /\ heap'[b[j]].key = heap[b[j]].key
                              /\ heap'[b[j]].val = heap[b[j]].val
  <2>1. \A j \in 1 .. Len(b) : b[j] \in Nodes /\ b[j] # x
      BY <1>6, <1>7
  <2> QED
      BY <1>2, <1>11, <1>13, <2>1
<1>17. since' = Bumped(since, k)
    BY <1>4 DEF Touch, Bumped
<1>18. /\ KeysApart(Pushed(x, b), heap')
       /\ Recency(Pushed(x, b), heap', since')
  <2>1. b = c \/ (b = DropLast(c) /\ Len(c) = Capacity)
      BY <1>2
  <2>2. \A j \in 1 .. Len(b) : heap'[b[j]].key = heap[b[j]].key
      BY <1>16
  <2> QED
      BY <1>1, <1>5, <1>6, <1>15, <1>17, <2>1, <2>2, PushedRecency
<1>19. Pushed(x, b) \in Seq(Nodes) /\ Len(Pushed(x, b)) = Len(b) + 1
    BY <1>6, PushedIs
<1>20. size' = Len(b) + 1 /\ size' <= Capacity
  <2>1. CASE b = c /\ Len(c) < Capacity
      BY <1>1, <1>2, <1>4, <2>1, CapacityPos
  <2>2. CASE b = DropLast(c) /\ Len(c) = Capacity
    <3>1. Len(b) = Len(c) - 1
        BY <1>1, <2>2, CapacityPos, DropLastIs
    <3> QED
        BY <1>1, <1>2, <1>4, <2>2, <3>1, CapacityPos
  <2> QED
      BY <1>2, <2>1, <2>2
<1>21. Stats'
    BY <1>1, <1>4 DEF Stats
<1>22. Good(Pushed(x, b))'
    BY <1>13, <1>14, <1>18, <1>19, <1>20, <1>21 DEF Good, Heaps
<1> QED
    BY <1>2, <1>4, <1>5, <1>6, <1>15, <1>16, <1>22

\* A clear leaves nothing.
LEMMA ClearStep ==
    ASSUME NEW c, Good(c), Clear
    PROVE  Good(<<>>)' /\ reply' = reply
<1>1. /\ c \in Seq(Nodes) /\ heap \in [Nodes -> Cell \cup {Null}]
      /\ IsList(c, head, tail, heap) /\ Stats
    BY DEF Good
<1>2. \A n \in Nodes : heap'[n] = Null
  <2>1. Chain = c /\ DOMAIN c = 1 .. Len(c)
      BY <1>1, ChainOf
  <2>2. \A n \in Nodes : heap[n] # Null <=> \E i \in 1 .. Len(c) : c[i] = n
      BY <1>1 DEF IsList
  <2> QED
      BY <2>1, <2>2 DEF Clear
<1>3. heap' \in [Nodes -> Cell \cup {Null}]
    BY <1>2 DEF Clear
<1>4. head' = Null /\ tail' = Null /\ size' = 0 /\ since' = <<>> /\ DOMAIN since' = {}
    BY DEF Clear
<1>5. <<>> \in Seq(Nodes) /\ Len(<<>>) = 0
    OBVIOUS
<1>6. IsList(<<>>, head', tail', heap')
    BY <1>2, <1>4, <1>5 DEF IsList
<1>7. KeysApart(<<>>, heap') /\ Recency(<<>>, heap', since')
    BY <1>4, <1>5 DEF KeysApart, Recency
<1>8. Stats' /\ reply' = reply
    BY <1>1 DEF Clear, Stats
<1>9. size' = Len(<<>>) /\ size' <= Capacity
    BY <1>4, <1>5, CapacityPos
<1> QED
    BY <1>3, <1>5, <1>6, <1>7, <1>8, <1>9 DEF Good

-----------------------------------------------------------------------------
(* The invariant, and the safety properties it implies.                     *)

LEMMA InitGood == CacheInit => Good(<<>>)
<1> SUFFICES ASSUME CacheInit PROVE Good(<<>>)
    OBVIOUS
<1>1. <<>> \in Seq(Nodes) /\ Len(<<>>) = 0 /\ DOMAIN since = {} /\ since = <<>>
    BY DEF CacheInit
<1>2. heap \in [Nodes -> Cell \cup {Null}] /\ \A n \in Nodes : heap[n] = Null
    BY DEF CacheInit
<1>3. IsList(<<>>, head, tail, heap)
    BY <1>1, <1>2 DEF CacheInit, IsList
<1>4. KeysApart(<<>>, heap) /\ Recency(<<>>, heap, since)
    BY <1>1 DEF KeysApart, Recency
<1>5. Stats
    BY StatWrapPos DEF CacheInit, Stats
<1> QED
    BY <1>1, <1>2, <1>3, <1>4, <1>5, CapacityPos DEF Good, CacheInit

LEMMA CacheInitInd == CacheInit => CacheInd
<1> SUFFICES ASSUME CacheInit PROVE CacheInd
    OBVIOUS
<1>1. Good(<<>>)
    BY InitGood
<1> QED
    BY <1>1, ChainOf DEF CacheInd

\* Calls that leave the list alone.
LEMMA QuietStep ==
    ASSUME NEW c, Good(c), (\E k \in Keys : GetMiss(k)) \/ UNCHANGED cacheVars
    PROVE  Good(c)'
<1>1. UNCHANGED <<head, tail, size, heap, since>> /\ Stats'
  <2>1. CASE UNCHANGED cacheVars
      BY <2>1 DEF Good, Stats, cacheVars
  <2>2. CASE \E k \in Keys : GetMiss(k)
    <3>1. /\ UNCHANGED <<head, tail, size, heap, since, hits>> /\ reply' = Miss
          /\ misses' = (misses + 1) % StatWrap
        BY <2>2 DEF GetMiss
    <3>2. misses' \in 0 .. (StatWrap - 1)
        BY <3>1, StatWrapPos DEF Good, Stats
    <3> QED
        BY <3>1, <3>2 DEF Good, Stats
  <2> QED
      BY <2>1, <2>2
<1> QED
    BY <1>1 DEF Good

LEMMA CacheNextInd == CacheInd /\ [CacheNext]_cacheVars => CacheInd'
<1> SUFFICES ASSUME CacheInd, [CacheNext]_cacheVars PROVE CacheInd'
    OBVIOUS
<1> DEFINE c == Chain
<1>1. Good(c) /\ c \in Seq(Nodes)
    BY DEF CacheInd, Good
<1> SUFFICES \E d : Good(d)'
    BY ChainAfter DEF CacheInd
<1>2. PICK q : q = c
    OBVIOUS
<1>3. Good(q) /\ q \in Seq(Nodes)
    BY <1>1, <1>2
<1> HIDE DEF c
<1>4. ASSUME NEW k \in Keys, GetHit(k) PROVE \E d : Good(d)'
    BY <1>3, <1>4, GetHitStep
<1>5. ASSUME NEW k \in Keys, NEW v \in Vals, PutHit(k, v) PROVE \E d : Good(d)'
    BY <1>3, <1>5, PutHitStep
<1>6. ASSUME NEW k \in Keys, NEW v \in Vals, PutNew(k, v) PROVE \E d : Good(d)'
    BY <1>3, <1>6, PutNewStep
<1>7. ASSUME Clear PROVE \E d : Good(d)'
    BY <1>3, <1>7, ClearStep
<1>8. ASSUME (\E k \in Keys : GetMiss(k)) \/ UNCHANGED cacheVars PROVE \E d : Good(d)'
    BY <1>3, <1>8, QuietStep
<1> QED
    BY <1>4, <1>5, <1>6, <1>7, <1>8 DEF CacheNext, Get, Put

\* The walk from the head always meets a list that satisfies Good: the code of
\* cache_get, cache_put and cache_clear keeps the links, the size, the keys
\* and the recency history in step.
THEOREM ListInductive == CacheSpec => []CacheInd
<1>1. CacheInit => CacheInd
    BY CacheInitInd
<1>2. CacheInd /\ [CacheNext]_cacheVars => CacheInd'
    BY CacheNextInd
<1> QED
    BY <1>1, <1>2, PTL DEF CacheSpec

LEMMA IndWellFormed == CacheInd => WellFormed
<1> SUFFICES ASSUME CacheInd PROVE WellFormed
    OBVIOUS
<1> DEFINE c == Chain
           A == {n \in Nodes : heap[n] # Null}
           L == Len(c)
<1>1. /\ c \in Seq(Nodes) /\ heap \in [Nodes -> Cell \cup {Null}]
      /\ IsList(c, head, tail, heap) /\ size = L /\ size <= Capacity
      /\ Recency(c, heap, since) /\ Stats
    BY DEF CacheInd, Good
<1> HIDE DEF c
<1>2. L \in Nat /\ DOMAIN c = 1 .. L /\ (c = <<>> <=> L = 0)
    BY <1>1
<1>3. CacheTypeOK
  <2>1. head \in Nodes \cup {Null} /\ tail \in Nodes \cup {Null}
    <3>1. L # 0 => 1 \in 1 .. L /\ L \in 1 .. L
        BY <1>2
    <3> QED
        BY <1>1, <3>1 DEF IsList
  <2>2. size \in 0 .. Capacity
      BY <1>1, <1>2, CapacityPos
  <2> QED
      BY <1>1, <2>1, <2>2 DEF CacheTypeOK, Stats, Recency
<1>4. {c[i] : i \in 1 .. L} = A
    BY <1>1 DEF IsList
<1>5. L = Cardinality(A)
  <2>1. c \in [1 .. L -> A]
      BY <1>1, <1>2, <1>4
  <2>2. c \in Bijection(1 .. L, A)
    <3>1. \A i, j \in 1 .. L : c[i] = c[j] => i = j
        BY <1>1 DEF IsList
    <3>2. \A n \in A : \E i \in 1 .. L : c[i] = n
        BY <1>1 DEF IsList
    <3> HIDE DEF A, L
    <3>3. c \in Injection(1 .. L, A)
        BY <2>1, <3>1 DEF Injection, IsInjective
    <3>4. c \in Surjection(1 .. L, A)
        BY <2>1, <3>2 DEF Surjection
    <3> QED
        BY <3>3, <3>4 DEF Bijection
  <2>3. 1 \in Int /\ L \in Int /\ L >= 0
      BY <1>2
  <2>4. IsFiniteSet(1 .. L) /\ Cardinality(1 .. L) = IF 1 > L THEN 0 ELSE L - 1 + 1
      BY <2>3, FS_Interval
  <2>5. Cardinality(1 .. L) = Cardinality(A)
    <3> DEFINE S == 1 .. L
    <3> HIDE DEF S, A
    <3>1. ExistsBijection(S, A)
        BY <2>2 DEF ExistsBijection, S
    <3>2. IsFiniteSet(S)
        BY <2>4 DEF S
    <3>3. Cardinality(A) = Cardinality(S)
        BY <3>1, <3>2, FS_Bijection
    <3> QED
        BY <3>3 DEF S
  <2> QED
      BY <2>3, <2>4, <2>5
<1>6. tail = IF c = <<>> THEN Null ELSE c[L]
    BY <1>1, <1>2 DEF IsList
<1>7. \A i \in 1 .. L : heap[c[i]].prev = IF i = 1 THEN Null ELSE c[i - 1]
    BY <1>1 DEF IsList
<1> HIDE DEF A, L
<1> QED
    BY <1>1, <1>2, <1>3, <1>4, <1>5, <1>6, <1>7 DEF WellFormed, c, A, L

\* After any calls the list is sound: nothing leaks, nothing freed is
\* reachable, it ends at tail, prev mirrors next, and size is its length.
THEOREM AlwaysWellFormed == CacheSpec => []WellFormed
<1>1. CacheSpec => []CacheInd
    BY ListInductive
<1>2. CacheInd => WellFormed
    BY IndWellFormed
<1> QED
    BY <1>1, <1>2, PTL

LEMMA IndHotStays == CacheInd => HotStays
<1> SUFFICES ASSUME CacheInd PROVE HotStays
    OBVIOUS
<1>1. Chain \in Seq(Nodes) /\ Recency(Chain, heap, since)
    BY DEF CacheInd, Good
<1> SUFFICES ASSUME NEW k \in DOMAIN since, Lookup(k) = {}
             PROVE  ~(Cardinality(since[k]) < Capacity)
    BY DEF HotStays
<1>2. \A i \in 1 .. Len(Chain) : heap[Chain[i]].key # k
    BY <1>1, LookupIs
<1>3. Cardinality(since[k]) >= Capacity
    BY <1>1, <1>2 DEF Recency
<1>4. Cardinality(since[k]) \in Nat
    BY <1>1, FS_CardinalityType DEF Recency
<1> QED
    BY <1>3, <1>4, CapacityPos

\* No sequence of calls evicts a response used more recently than Capacity
\* other keys: cache_put frees g_cache.tail only.
THEOREM AlwaysHotStays == CacheSpec => []HotStays
<1>1. CacheSpec => []CacheInd
    BY ListInductive
<1>2. CacheInd => HotStays
    BY IndHotStays
<1> QED
    BY <1>1, <1>2, PTL

-----------------------------------------------------------------------------
(* The entries, and the abstract list.                                      *)

EntryIn(n, h) == [key |-> h[n].key, val |-> h[n].val]
EntriesIn(c, h) == [i \in 1 .. Len(c) |-> EntryIn(c[i], h)]

LEMMA EntriesAre ==
    ASSUME NEW c \in Seq(Nodes), NEW h \in Heaps, NEW hd, NEW tl, IsList(c, hd, tl, h)
    PROVE  /\ EntriesIn(c, h) \in Seq(Abs!Entry)
           /\ Len(EntriesIn(c, h)) = Len(c)
           /\ \A i \in 1 .. Len(c) : EntriesIn(c, h)[i] = EntryIn(c[i], h)
<1>1. \A i \in 1 .. Len(c) : c[i] \in Nodes /\ h[c[i]] # Null
    BY DEF IsList
<1>2. \A i \in 1 .. Len(c) : h[c[i]] \in Cell
    BY <1>1 DEF Heaps
<1>3. \A i \in 1 .. Len(c) : EntryIn(c[i], h) \in Abs!Entry
    BY <1>2 DEF EntryIn, Cell, Abs!Entry
<1>4. EntriesIn(c, h) \in [1 .. Len(c) -> Abs!Entry]
    BY <1>3 DEF EntriesIn
<1>5. Len(c) \in Nat
    OBVIOUS
<1>6. EntriesIn(c, h) \in Seq(Abs!Entry) /\ Len(EntriesIn(c, h)) = Len(c)
    BY <1>4, <1>5
<1> QED
    BY <1>6 DEF EntriesIn

LEMMA EntriesOf ==
    ASSUME NEW c, Good(c)
    PROVE  entriesOf = EntriesIn(c, heap)
<1>1. Chain = c /\ c \in Seq(Nodes) /\ DOMAIN c = 1 .. Len(c)
    BY ChainOf DEF Good
<1> QED
    BY <1>1 DEF entriesOf, EntriesIn, EntryIn

LEMMA EntriesAfter ==
    ASSUME NEW d, Good(d)'
    PROVE  entriesOf' = EntriesIn(d, heap')
<1>1. Chain' = d /\ d \in Seq(Nodes) /\ DOMAIN d = 1 .. Len(d)
    BY ChainAfter DEF Good
<1> QED
    BY <1>1 DEF entriesOf, EntriesIn, EntryIn

\* The abstract move to the front, and the abstract insertion.
LEMMA TouchedIs ==
    ASSUME NEW S, NEW s \in Seq(S), NEW i \in 1 .. Len(s)
    PROVE  <<s[i]>> \o (SubSeq(s, 1, i - 1) \o SubSeq(s, i + 1, Len(s))) = ToFront(s, i)
<1> DEFINE a == SubSeq(s, 1, i - 1)
           b == SubSeq(s, i + 1, Len(s))
           n == Len(s)
<1>1. n \in Nat /\ i \in 1 .. n
    OBVIOUS
<1>2. a \in Seq(S) /\ Len(a) = i - 1 /\ \A j \in 1 .. i - 1 : a[j] = s[j]
  <2>1. 1 \in Int /\ i - 1 \in Int /\ \A j \in 1 .. i - 1 : s[j] \in S
      OBVIOUS
  <2>2. /\ a \in Seq(S) /\ Len(a) = IF 1 <= i - 1 THEN (i - 1) - 1 + 1 ELSE 0
        /\ \A j \in 1 .. (i - 1) - 1 + 1 : a[j] = s[1 + j - 1]
      BY <2>1, SubSeqProperties
  <2>3. \A j \in 1 .. i - 1 : j \in 1 .. (i - 1) - 1 + 1 /\ 1 + j - 1 = j
      OBVIOUS
  <2> QED
      BY <1>1, <2>2, <2>3
<1>3. b \in Seq(S) /\ Len(b) = n - i /\ \A j \in 1 .. n - i : b[j] = s[i + j]
  <2>1. i + 1 \in Int /\ n \in Int /\ \A j \in i + 1 .. n : s[j] \in S
      OBVIOUS
  <2>2. /\ b \in Seq(S) /\ Len(b) = IF i + 1 <= n THEN n - (i + 1) + 1 ELSE 0
        /\ \A j \in 1 .. n - (i + 1) + 1 : b[j] = s[(i + 1) + j - 1]
      BY <2>1, SubSeqProperties
  <2>3. \A j \in 1 .. n - i : j \in 1 .. n - (i + 1) + 1 /\ (i + 1) + j - 1 = i + j
      BY <1>1
  <2> QED
      BY <1>1, <2>2, <2>3
<1> HIDE DEF a, b
<1>4. /\ a \o b \in Seq(S) /\ Len(a \o b) = n - 1
      /\ \A j \in 1 .. n - 1 : (a \o b)[j] = IF j <= i - 1 THEN s[j] ELSE s[j + 1]
  <2>1. /\ a \o b \in Seq(S) /\ Len(a \o b) = Len(a) + Len(b)
        /\ \A j \in 1 .. Len(a) + Len(b) :
             (a \o b)[j] = IF j <= Len(a) THEN a[j] ELSE b[j - Len(a)]
      BY <1>2, <1>3, ConcatProperties
  <2>2. Len(a) + Len(b) = n - 1
      BY <1>1, <1>2, <1>3
  <2>3. ASSUME NEW j \in 1 .. n - 1
        PROVE  (a \o b)[j] = IF j <= i - 1 THEN s[j] ELSE s[j + 1]
    <3>1. CASE j <= i - 1
        BY <1>1, <1>2, <2>1, <2>2, <3>1
    <3>2. CASE ~(j <= i - 1)
      <4>1. (a \o b)[j] = b[j - (i - 1)]
          BY <1>1, <1>2, <2>1, <2>2, <3>2
      <4>2. j - (i - 1) \in 1 .. n - i /\ i + (j - (i - 1)) = j + 1
          BY <1>1, <3>2
      <4> QED
          BY <1>3, <3>2, <4>1, <4>2
    <3> QED
        BY <3>1, <3>2
  <2> QED
      BY <2>1, <2>2, <2>3
<1> DEFINE w == a \o b
           o == <<s[i]>>
           z == o \o w
<1>5. o \in Seq(S) /\ Len(o) = 1 /\ o[1] = s[i]
    BY <1>1
<1> HIDE DEF w, o
<1>6. /\ z \in Seq(S) /\ Len(z) = n
      /\ \A j \in 1 .. n : z[j] = IF j = 1 THEN s[i] ELSE w[j - 1]
  <2>1. /\ z \in Seq(S) /\ Len(z) = Len(o) + Len(w)
        /\ \A j \in 1 .. Len(o) + Len(w) :
             z[j] = IF j <= Len(o) THEN o[j] ELSE w[j - Len(o)]
      BY <1>4, <1>5, ConcatProperties DEF w
  <2>2. Len(o) + Len(w) = n
      BY <1>1, <1>4, <1>5 DEF w
  <2> HIDE DEF z, n
  <2> QED
      BY <1>1, <1>5, <2>1, <2>2
<1>7. \A j \in 1 .. n : z[j] = IF j = 1 THEN s[i] ELSE IF j <= i THEN s[j - 1] ELSE s[j]
  <2>1. \A j \in 1 .. n : j # 1 => /\ j - 1 \in 1 .. n - 1 /\ (j - 1) + 1 = j
                                   /\ (j - 1 <= i - 1) <=> (j <= i)
      BY <1>1
  <2>2. \A j \in 1 .. n : j # 1 => w[j - 1] = IF j <= i THEN s[j - 1] ELSE s[j]
      BY <1>4, <2>1 DEF w
  <2> HIDE DEF z, n
  <2> QED
      BY <1>6, <2>2
<1>8. /\ ToFront(s, i) \in Seq(S) /\ Len(ToFront(s, i)) = n
      /\ \A j \in 1 .. n : ToFront(s, i)[j] = z[j]
  <2>1. /\ ToFront(s, i) \in Seq(S) /\ Len(ToFront(s, i)) = n
        /\ \A j \in 1 .. n : ToFront(s, i)[j] =
                IF j = 1 THEN s[i] ELSE IF j <= i THEN s[j - 1] ELSE s[j]
      BY ToFrontIs
  <2> HIDE DEF z, n
  <2> QED
      BY <1>7, <2>1
<1>9. z = ToFront(s, i)
  <2> HIDE DEF z
  <2> QED
      BY <1>6, <1>8, SeqEqual
<1> QED
    BY <1>9 DEF a, b, w, o

LEMMA StoredIs ==
    ASSUME NEW S, NEW s \in Seq(S), NEW x \in S
    PROVE  <<x>> \o s = Pushed(x, s)
<1> DEFINE o == <<x>>
           z == o \o s
           n == Len(s)
<1>1. n \in Nat /\ o \in Seq(S) /\ Len(o) = 1 /\ o[1] = x
    OBVIOUS
<1> HIDE DEF o, n
<1>2. /\ z \in Seq(S) /\ Len(z) = n + 1
      /\ \A j \in 1 .. n + 1 : z[j] = IF j = 1 THEN x ELSE s[j - 1]
  <2>1. /\ z \in Seq(S) /\ Len(z) = Len(o) + Len(s)
        /\ \A j \in 1 .. Len(o) + Len(s) :
             z[j] = IF j <= Len(o) THEN o[j] ELSE s[j - Len(o)]
      BY <1>1, ConcatProperties
  <2>2. Len(o) + Len(s) = n + 1
      BY <1>1 DEF n
  <2> HIDE DEF z
  <2> QED
      BY <1>1, <2>1, <2>2
<1> HIDE DEF z
<1>3. /\ Pushed(x, s) \in Seq(S) /\ Len(Pushed(x, s)) = n + 1
      /\ \A j \in 1 .. n + 1 : Pushed(x, s)[j] = IF j = 1 THEN x ELSE s[j - 1]
    BY PushedIs DEF n
<1>4. z = Pushed(x, s)
  <2>1. \A j \in 1 .. n + 1 : z[j] = Pushed(x, s)[j]
      BY <1>2, <1>3
  <2> QED
      BY <1>2, <1>3, <2>1, SeqEqual
<1> QED
    BY <1>4 DEF z, o

LEMMA ShortenedIs ==
    ASSUME NEW S, NEW s \in Seq(S), Len(s) > 0
    PROVE  SubSeq(s, 1, Len(s) - 1) = DropLast(s)
<1> DEFINE n == Len(s)
           z == SubSeq(s, 1, n - 1)
<1>1. n \in Nat /\ n - 1 \in Nat
    OBVIOUS
<1>2. 1 \in Int /\ n - 1 \in Int /\ \A j \in 1 .. n - 1 : s[j] \in S
    OBVIOUS
<1>3. /\ z \in Seq(S) /\ Len(z) = IF 1 <= n - 1 THEN (n - 1) - 1 + 1 ELSE 0
      /\ \A j \in 1 .. (n - 1) - 1 + 1 : z[j] = s[1 + j - 1]
    BY <1>2, SubSeqProperties
<1>4. \A j \in 1 .. n - 1 : j \in 1 .. (n - 1) - 1 + 1 /\ 1 + j - 1 = j
    BY <1>1
<1>5. DropLast(s) \in Seq(S) /\ Len(DropLast(s)) = n - 1
      /\ \A j \in 1 .. n - 1 : DropLast(s)[j] = s[j]
    BY DropLastIs
<1> HIDE DEF z, n
<1>6. z \in Seq(S) /\ Len(z) = n - 1 /\ \A j \in 1 .. n - 1 : z[j] = s[j]
    BY <1>1, <1>3, <1>4
<1>7. z = DropLast(s)
  <2>1. \A j \in 1 .. n - 1 : z[j] = DropLast(s)[j]
      BY <1>5, <1>6
  <2> QED
      BY <1>5, <1>6, <2>1, SeqEqual
<1> QED
    BY <1>7 DEF z, n

\* Entries under the keys of a list, and the abstract positions of a key.
LEMMA AtIs ==
    ASSUME NEW c, Good(c), NEW k
    PROVE  /\ Len(entriesOf) = Len(c) /\ entriesOf \in Seq(Abs!Entry)
           /\ \A i \in 1 .. Len(c) : /\ entriesOf[i] = EntryIn(c[i], heap)
                                     /\ entriesOf[i].key = heap[c[i]].key
                                     /\ entriesOf[i].val = heap[c[i]].val
           /\ (\A i \in 1 .. Len(c) : heap[c[i]].key # k) => Abs!At(k) = {}
           /\ \A i \in 1 .. Len(c) : heap[c[i]].key = k => Abs!At(k) = {i}
<1>1. /\ c \in Seq(Nodes) /\ heap \in Heaps /\ IsList(c, head, tail, heap)
      /\ KeysApart(c, heap)
    BY DEF Good, Heaps
<1> DEFINE e == entriesOf
<1>2. e = EntriesIn(c, heap)
    BY EntriesOf
<1> HIDE DEF e
<1>3. /\ e \in Seq(Abs!Entry) /\ Len(e) = Len(c)
      /\ \A i \in 1 .. Len(c) : e[i] = EntryIn(c[i], heap)
    BY <1>1, <1>2, EntriesAre
<1>4. \A i \in 1 .. Len(c) : e[i].key = heap[c[i]].key /\ e[i].val = heap[c[i]].val
  <2>1. \A n, h : EntryIn(n, h).key = h[n].key /\ EntryIn(n, h).val = h[n].val
      BY DEF EntryIn
  <2> QED
      BY <1>3, <2>1
<1>5. Abs!At(k) = {i \in 1 .. Len(c) : heap[c[i]].key = k}
  <2>1. Abs!At(k) = {i \in 1 .. Len(e) : e[i].key = k}
      BY DEF Abs!At, e
  <2> QED
      BY <1>3, <1>4, <2>1
<1>6. \A i \in 1 .. Len(c) : heap[c[i]].key = k =>
        \A j \in 1 .. Len(c) : heap[c[j]].key = k => j = i
    BY <1>1 DEF KeysApart
<1>7. ASSUME NEW i \in 1 .. Len(c), heap[c[i]].key = k PROVE Abs!At(k) = {i}
  <2>1. \A j \in 1 .. Len(c) : heap[c[j]].key = k <=> j = i
      BY <1>6, <1>7
  <2> QED
      BY <1>5, <2>1
<1>8. (\A i \in 1 .. Len(c) : heap[c[i]].key # k) => Abs!At(k) = {}
    BY <1>5
<1> QED
    BY <1>3, <1>4, <1>7, <1>8 DEF e

LEMMA GetHitRefines ==
    ASSUME NEW c, Good(c), NEW k \in Keys, GetHit(k)
    PROVE  Abs!Get(k)
<1> DEFINE e == entriesOf
           f == entriesOf'
           n == Len(c)
<1>1. PICK i \in 1 .. n :
        /\ heap[c[i]].key = k /\ reply' = heap[c[i]].val
        /\ Relinked(heap', heap)
        /\ Good(ToFront(c, i))'
    BY GetHitStep
<1> DEFINE d == ToFront(c, i)
<1>2. c \in Seq(Nodes) /\ n \in Nat
    BY DEF Good
<1>3. d \in Seq(Nodes) /\ Len(d) = n /\ \A j \in 1 .. n : d[j] = c[Was(i, j)]
    BY <1>2, ToFrontIs, ToFrontWas
<1>4. /\ Len(e) = n /\ e \in Seq(Abs!Entry)
      /\ \A j \in 1 .. n : e[j] = EntryIn(c[j], heap)
      /\ e[i].val = heap[c[i]].val
      /\ Abs!At(k) = {i}
    BY <1>1, AtIs
<1>5. f = EntriesIn(d, heap')
    BY <1>1, EntriesAfter
<1> HIDE DEF e, f
<1>6. f = [j \in 1 .. n |-> e[Was(i, j)]]
  <2>1. \A j \in 1 .. n : EntryIn(c[j], heap') = EntryIn(c[j], heap)
      BY <1>1, <1>2 DEF Relinked, EntryIn
  <2>2. \A j \in 1 .. n : Was(i, j) \in 1 .. n
      BY <1>2, WasOnto
  <2>3. f = [j \in 1 .. n |-> EntryIn(d[j], heap')]
      BY <1>3, <1>5 DEF EntriesIn
  <2> HIDE DEF d, n
  <2>4. \A j \in 1 .. n : EntryIn(d[j], heap') = e[Was(i, j)]
      BY <1>3, <1>4, <2>1, <2>2
  <2> QED
      BY <2>3, <2>4
<1>7. ToFront(e, i) = [j \in 1 .. n |-> e[Was(i, j)]]
  <2>1. \A j \in 1 .. n :
          (IF j = 1 THEN e[i] ELSE IF j <= i THEN e[j - 1] ELSE e[j]) = e[Was(i, j)]
      BY DEF Was
  <2> QED
      BY <1>4, <2>1 DEF ToFront
<1>8. (CHOOSE j \in Abs!At(k) : TRUE) = i /\ Abs!At(k) # {}
    BY <1>4
<1>9. Abs!Touched(k) = <<e[i]>> \o (SubSeq(e, 1, i - 1) \o SubSeq(e, i + 1, Len(e)))
    BY <1>8 DEF Abs!Touched, Abs!Without, e
<1>10. f = Abs!Touched(k)
  <2>1. i \in 1 .. Len(e)
      BY <1>4
  <2> QED
      BY <1>4, <1>6, <1>7, <1>9, <2>1, TouchedIs
<1>11. Abs!Value(k) = heap[c[i]].val
  <2>1. Abs!Value(k) = e[i].val
      BY <1>8 DEF Abs!Value, e
  <2> QED
      BY <1>4, <2>1
<1> QED
    BY <1>1, <1>10, <1>11 DEF Abs!Get, f

LEMMA GetMissRefines ==
    ASSUME NEW c, Good(c), NEW k \in Keys, GetMiss(k)
    PROVE  Abs!Get(k)
<1>1. \A i \in 1 .. Len(c) : heap[c[i]].key # k
    BY ChainOf, LookupIs DEF Good, GetMiss
<1>2. Abs!At(k) = {}
    BY <1>1, AtIs
<1>3. entriesOf' = entriesOf
  <2>1. Good(c)'
      BY QuietStep
  <2>2. heap' = heap
      BY DEF GetMiss
  <2> QED
      BY <2>1, <2>2, EntriesOf, EntriesAfter
<1> QED
    BY <1>2, <1>3 DEF GetMiss, Abs!Get, Abs!Value, Abs!Touched

LEMMA PutHitRefines ==
    ASSUME NEW c, Good(c), NEW k \in Keys, NEW v \in Vals, PutHit(k, v)
    PROVE  Abs!Put(k, v)
<1> DEFINE e == entriesOf
           f == entriesOf'
           n == Len(c)
<1>1. PICK i \in 1 .. n :
        /\ heap[c[i]].key = k
        /\ \A m \in Nodes : /\ heap'[m].key = heap[m].key
                            /\ heap'[m].val = IF m = c[i] THEN v ELSE heap[m].val
        /\ reply' = reply
        /\ Good(c)'
    BY PutHitStep
<1>2. c \in Seq(Nodes) /\ n \in Nat /\ IsList(c, head, tail, heap)
    BY DEF Good
<1>3. /\ Len(e) = n /\ e \in Seq(Abs!Entry)
      /\ \A j \in 1 .. n : e[j] = EntryIn(c[j], heap)
      /\ Abs!At(k) = {i}
    BY <1>1, AtIs
<1>4. f = EntriesIn(c, heap')
    BY <1>1, EntriesAfter
<1> DEFINE r == [e[i] EXCEPT !.val = v]
<1>5. r = EntryIn(c[i], heap')
  <2>1. e[i] = [key |-> heap[c[i]].key, val |-> heap[c[i]].val]
      BY <1>3 DEF EntryIn
  <2>2. r = [key |-> heap[c[i]].key, val |-> v]
      BY <2>1
  <2>3. c[i] \in Nodes
      BY <1>2
  <2> QED
      BY <1>1, <2>2, <2>3 DEF EntryIn
<1>6. \A j \in 1 .. n : j # i => EntryIn(c[j], heap') = e[j]
  <2>1. \A j \in 1 .. n : c[j] \in Nodes /\ (j # i => c[j] # c[i])
      BY <1>2 DEF IsList
  <2> QED
      BY <1>1, <1>3, <2>1 DEF EntryIn
<1>7. (CHOOSE j \in Abs!At(k) : TRUE) = i /\ Abs!At(k) # {}
    BY <1>3
<1>8. Abs!Stored(k, v) = [e EXCEPT ![i] = r]
    BY <1>7 DEF Abs!Stored
<1> HIDE DEF e, f, r
<1>9. f = [e EXCEPT ![i] = r]
  <2>1. [e EXCEPT ![i] = r] = [j \in 1 .. n |-> IF j = i THEN r ELSE e[j]]
      BY <1>3
  <2>2. f = [j \in 1 .. n |-> EntryIn(c[j], heap')]
      BY <1>4 DEF EntriesIn
  <2>3. \A j \in 1 .. n : EntryIn(c[j], heap') = IF j = i THEN r ELSE e[j]
      BY <1>5, <1>6
  <2> QED
      BY <2>1, <2>2, <2>3
<1> QED
    BY <1>1, <1>8, <1>9 DEF Abs!Put, f

LEMMA PutNewRefines ==
    ASSUME NEW c, Good(c), NEW k \in Keys, NEW v \in Vals, PutNew(k, v)
    PROVE  Abs!Put(k, v)
<1> DEFINE e == entriesOf
           f == entriesOf'
           r == [key |-> k, val |-> v]
<1>1. PICK b \in Seq(Nodes), x \in Nodes :
        /\ \/ Len(c) < Capacity /\ b = c
           \/ Len(c) = Capacity /\ b = DropLast(c)
        /\ \A i \in 1 .. Len(c) : heap[c[i]].key # k
        /\ heap'[x].key = k /\ heap'[x].val = v
        /\ \A j \in 1 .. Len(b) : /\ heap'[b[j]].key = heap[b[j]].key
                                  /\ heap'[b[j]].val = heap[b[j]].val
        /\ reply' = reply
        /\ Good(Pushed(x, b))'
    BY PutNewStep
<1> DEFINE d == Pushed(x, b)
           s == IF Len(c) < Capacity THEN e ELSE DropLast(e)
<1>2. c \in Seq(Nodes) /\ Len(c) \in Nat /\ Len(b) \in Nat
    BY DEF Good
<1>3. /\ Len(e) = Len(c) /\ e \in Seq(Abs!Entry)
      /\ \A j \in 1 .. Len(c) : e[j] = EntryIn(c[j], heap)
      /\ Abs!At(k) = {}
    BY <1>1, AtIs
<1>4. f = EntriesIn(d, heap')
    BY <1>1, EntriesAfter
<1>5. d \in Seq(Nodes) /\ Len(d) = Len(b) + 1
      /\ \A j \in 1 .. Len(b) + 1 : d[j] = IF j = 1 THEN x ELSE b[j - 1]
    BY PushedIs
<1>6. r \in Abs!Entry /\ EntryIn(x, heap') = r
    BY <1>1 DEF Abs!Entry, EntryIn
<1> HIDE DEF e, f, d, r
<1>7. /\ s \in Seq(Abs!Entry) /\ Len(s) = Len(b)
      /\ \A j \in 1 .. Len(b) : s[j] = EntryIn(b[j], heap)
  <2>1. CASE Len(c) < Capacity /\ b = c
      BY <1>3, <2>1
  <2>2. CASE Len(c) = Capacity /\ b = DropLast(c)
    <3>1. /\ Len(b) = Len(c) - 1 /\ \A j \in 1 .. Len(c) - 1 : b[j] = c[j]
        BY <1>2, <2>2, CapacityPos, DropLastIs
    <3>2. /\ DropLast(e) \in Seq(Abs!Entry) /\ Len(DropLast(e)) = Len(c) - 1
          /\ \A j \in 1 .. Len(c) - 1 : DropLast(e)[j] = e[j]
      <4>1. Len(e) > 0 /\ e \in Seq(Abs!Entry) /\ Len(e) = Len(c)
          BY <1>3, <2>2, CapacityPos
      <4> QED
          BY <4>1, DropLastIs
    <3>3. s = DropLast(e)
        BY <1>2, <2>2, CapacityPos
    <3>4. \A j \in 1 .. Len(c) - 1 : j \in 1 .. Len(c)
        BY <1>2
    <3> HIDE DEF s
    <3> QED
        BY <1>3, <3>1, <3>2, <3>3, <3>4
  <2> QED
      BY <1>1, <2>1, <2>2
<1>8. Abs!Stored(k, v) = <<r>> \o s
  <2>1. Abs!Stored(k, v) =
          <<r>> \o (IF Len(e) < Capacity THEN e ELSE SubSeq(e, 1, Capacity - 1))
      BY <1>3 DEF Abs!Stored, e, r
  <2>2. CASE Len(c) < Capacity
      BY <1>3, <2>1, <2>2
  <2>3. CASE Len(c) = Capacity
    <3>1. SubSeq(e, 1, Len(e) - 1) = DropLast(e)
        BY <1>3, <2>3, CapacityPos, ShortenedIs
    <3> QED
        BY <1>2, <1>3, <2>1, <2>3, <3>1, CapacityPos
  <2> QED
      BY <1>1, <2>2, <2>3
<1> HIDE DEF s
<1>9. f = Pushed(r, s)
  <2>1. f = [j \in 1 .. Len(b) + 1 |-> EntryIn(d[j], heap')]
      BY <1>4, <1>5 DEF EntriesIn
  <2>2. Pushed(r, s) = [j \in 1 .. Len(b) + 1 |-> IF j = 1 THEN r ELSE s[j - 1]]
      BY <1>7 DEF Pushed
  <2>3. ASSUME NEW j \in 1 .. Len(b) + 1
        PROVE  EntryIn(d[j], heap') = IF j = 1 THEN r ELSE s[j - 1]
    <3>1. CASE j = 1
        BY <1>5, <1>6, <3>1
    <3>2. CASE j # 1
      <4>1. j - 1 \in 1 .. Len(b)
          BY <1>2, <3>2
      <4>2. EntryIn(b[j - 1], heap') = EntryIn(b[j - 1], heap)
          BY <1>1, <4>1 DEF EntryIn
      <4> QED
          BY <1>5, <1>7, <3>2, <4>1, <4>2
    <3> QED
        BY <3>1, <3>2
  <2> QED
      BY <2>1, <2>2, <2>3
<1>10. f = Abs!Stored(k, v)
    BY <1>6, <1>7, <1>8, <1>9, StoredIs
<1> QED
    BY <1>1, <1>10 DEF Abs!Put, f

LEMMA ClearRefines ==
    ASSUME NEW c, Good(c), Clear
    PROVE  Abs!Clear
<1>1. Good(<<>>)' /\ reply' = reply
    BY ClearStep
<1>2. entriesOf' = EntriesIn(<<>>, heap')
    BY <1>1, EntriesAfter
<1>3. EntriesIn(<<>>, heap') = <<>>
    BY DEF EntriesIn
<1> QED
    BY <1>1, <1>2, <1>3 DEF Abs!Clear

\* cache_get, cache_put and cache_clear, pointer by pointer, do to the list
\* what AbstractLru does to its entries: the recency list is implemented.
THEOREM Implements == CacheSpec => ImplementsAbstractLru
<1>1. CacheInit => Abs!Init
  <2> SUFFICES ASSUME CacheInit PROVE Abs!Init
      OBVIOUS
  <2>1. entriesOf = EntriesIn(<<>>, heap)
      BY InitGood, EntriesOf
  <2>2. EntriesIn(<<>>, heap) = <<>>
      BY DEF EntriesIn
  <2> QED
      BY <2>1, <2>2 DEF CacheInit, Abs!Init
<1>2. CacheInd /\ [CacheNext]_cacheVars => [Abs!Next]_(Abs!vars)
  <2> SUFFICES ASSUME CacheInd, [CacheNext]_cacheVars PROVE [Abs!Next]_(Abs!vars)
      OBVIOUS
  <2>1. PICK c : c = Chain
      OBVIOUS
  <2>2. Good(c)
      BY <2>1 DEF CacheInd
  <2>3. ASSUME NEW k \in Keys, Get(k) PROVE Abs!Next
    <3>1. Abs!Get(k)
        BY <2>2, <2>3, GetHitRefines, GetMissRefines DEF Get
    <3> QED
        BY <3>1 DEF Abs!Next
  <2>4. ASSUME NEW k \in Keys, NEW v \in Vals, Put(k, v) PROVE Abs!Next
    <3>1. Abs!Put(k, v)
        BY <2>2, <2>4, PutHitRefines, PutNewRefines DEF Put
    <3> QED
        BY <3>1 DEF Abs!Next
  <2>5. CASE Clear
      BY <2>2, <2>5, ClearRefines DEF Abs!Next
  <2>6. CASE UNCHANGED cacheVars
    <3>1. entriesOf' = entriesOf
      <4>1. Good(c)'
          BY <2>2, <2>6, QuietStep
      <4>2. heap' = heap
          BY <2>6 DEF cacheVars
      <4> QED
          BY <2>2, <4>1, <4>2, EntriesOf, EntriesAfter
    <3> QED
        BY <2>6, <3>1 DEF cacheVars, Abs!vars
  <2> QED
      BY <2>3, <2>4, <2>5, <2>6 DEF CacheNext
<1>3. CacheSpec => []CacheInd
    BY ListInductive
<1> QED
    BY <1>1, <1>2, <1>3, PTL DEF CacheSpec, ImplementsAbstractLru, Abs!Spec

-----------------------------------------------------------------------------
(* The life of the server.                                                 *)

\* The queue holds connections that nobody has accepted, each once.
QueueSound ==
    /\ \A i \in 1 .. Len(backlog) : stage[backlog[i]] = "queued"
    /\ \A i, j \in 1 .. Len(backlog) : backlog[i] = backlog[j] => i = j

\* Before the pool is started and after the end there are no workers.
PoolQuiet ==
    main \in {"boot", "opened", "bound", "listening"} \cup Down =>
        \A w \in Workers : worker[w] = "none"

\* A worker that calls accept has accepted nothing since the flag fell.
AtMostNext ==
    /\ running => \A w \in Workers : late[w] = 0
    /\ \A w \in Workers : worker[w] \in {"calling", "waiting"} => late[w] = 0
    /\ OneMoreAtMost

\* Only WSACleanup cuts a connection, and only a cut leaves its client waiting.
CutSound ==
    platform = "linux" =>
        /\ \A c \in Clients : stage[c] # "cut"
        /\ handler # "cleanup" /\ dropped = {}

IndInv == TypeOK /\ QueueSound /\ PoolQuiet /\ AtMostNext /\ CutSound

-----------------------------------------------------------------------------
(* Each action preserves the invariant.                                     *)

LEMMA InitInd == Init => IndInv
<1> SUFFICES ASSUME Init PROVE IndInv
    OBVIOUS
<1> USE DEF Init
<1>1. TypeOK
  <2>1. main \in Up \cup Down /\ running \in BOOLEAN /\ fd \in BOOLEAN
      BY DEF Up
  <2>2. worker \in [Workers -> Labels] /\ conn \in [Workers -> Clients \cup {Nobody}]
      BY DEF Labels
  <2>3. /\ stage \in [Clients -> {"away", "queued", "held", "cut"}]
        /\ said \in [Clients -> {"nothing", "request", "aborted", "closed"}]
        /\ backlog \in Seq(Clients)
      OBVIOUS
  <2>4. errors \in 0 .. MaxErrors /\ late \in [Workers -> Nat] /\ dropped \subseteq Clients
      BY ErrorsNat
  <2>5. \A w \in Workers : conn[w] # Nobody <=> worker[w] \in Handling
      BY DEF Handling
  <2>6. \A v, w \in Workers : v # w /\ conn[v] # Nobody => conn[v] # conn[w]
      OBVIOUS
  <2>7. \A c \in Clients : stage[c] \in {"held", "cut"} <=> \E w \in Workers : conn[w] = c
      BY NobodyNoClient
  <2> QED
      BY <2>1, <2>2, <2>3, <2>4, <2>5, <2>6, <2>7 DEF TypeOK
<1>2. QueueSound /\ PoolQuiet /\ AtMostNext /\ CutSound
    BY DEF QueueSound, PoolQuiet, AtMostNext, OneMoreAtMost, CutSound
<1> QED
    BY <1>1, <1>2 DEF IndInv

LEMMA EndInd ==
    ASSUME IndInv, NEW how \in Down, End(how)
    PROVE  IndInv'
<1> USE DEF IndInv, End
<1>1. TypeOK'
  <2>1. main' \in Up \cup Down /\ running' \in BOOLEAN /\ fd' \in BOOLEAN
      BY DEF Up
  <2>2. worker' \in [Workers -> Labels] /\ conn' \in [Workers -> Clients \cup {Nobody}]
      BY DEF Labels
  <2>3. /\ stage' \in [Clients -> {"away", "queued", "held", "cut"}]
        /\ said' \in [Clients -> {"nothing", "request", "aborted", "closed"}]
        /\ backlog' \in Seq(Clients)
      OBVIOUS
  <2>4. errors' \in 0 .. MaxErrors /\ late' \in [Workers -> Nat] /\ dropped' \subseteq Clients
      BY ErrorsNat
  <2>5. \A w \in Workers : conn'[w] # Nobody <=> worker'[w] \in Handling
      BY DEF Handling
  <2>6. \A v, w \in Workers : v # w /\ conn'[v] # Nobody => conn'[v] # conn'[w]
      OBVIOUS
  <2>7. \A c \in Clients : stage'[c] \in {"held", "cut"} <=> \E w \in Workers : conn'[w] = c
      BY NobodyNoClient
  <2> QED
      BY <2>1, <2>2, <2>3, <2>4, <2>5, <2>6, <2>7 DEF TypeOK
<1>2. QueueSound' /\ PoolQuiet' /\ AtMostNext' /\ CutSound'
    BY DEF QueueSound, PoolQuiet, AtMostNext, OneMoreAtMost, CutSound
<1> QED
    BY <1>1, <1>2

\* Steps of main, the handler and the clock that leave the pool, the clients and
\* the queue alone and do not raise the flag.
LEMMA QuietInd ==
    ASSUME IndInv, UNCHANGED <<platform, backlog, pool, clients, late>>,
           main' \in Up \cup Down, handler' \in {"idle", "flag", "close", "cleanup", "done"},
           running' \in BOOLEAN, running' => running, fd' \in BOOLEAN,
           listener' \in {"none", "created", "bound", "listening", "orphan"},
           errors' \in 0 .. MaxErrors,
           platform = "linux" => handler' # "cleanup",
           main' = main \/ main \in {"boot", "opened", "bound", "listening"} \cup Down
    PROVE  IndInv'
<1> USE DEF IndInv, pool, clients
<1>1. TypeOK'
    BY DEF TypeOK
<1>2. QueueSound'
    BY DEF QueueSound
<1>3. PoolQuiet'
    BY DEF PoolQuiet
<1>4. AtMostNext' /\ CutSound'
    BY DEF AtMostNext, OneMoreAtMost, CutSound
<1> QED
    BY <1>1, <1>2, <1>3, <1>4

LEMMA MainInd ==
    ASSUME IndInv, Open \/ Bind \/ Listen \/ Join
    PROVE  IndInv'
<1>1. ASSUME NEW how \in Down, End(how) PROVE IndInv'
    BY <1>1, EndInd
<1>2. CASE Open \/ Bind \/ Listen
  <2>1. CASE End("exited")
      BY <1>1, <2>1 DEF Down
  <2>2. CASE ~End("exited")
    <3>1. /\ UNCHANGED <<platform, handler, running, backlog, pool, clients, errors, late>>
          /\ main \in {"boot", "opened", "bound"} /\ main' \in {"opened", "bound", "listening"}
          /\ fd' \in BOOLEAN /\ listener' \in {"created", "bound", "listening"}
        BY <1>2, <2>2 DEF Open, Bind, Listen, IndInv, TypeOK
    <3>2. handler' \in {"idle", "flag", "close", "cleanup", "done"} /\ running' \in BOOLEAN
          /\ errors' \in 0 .. MaxErrors /\ (running' => running)
          /\ (platform = "linux" => handler' # "cleanup")
        BY <3>1 DEF IndInv, TypeOK, CutSound
    <3>3. main' \in Up \cup Down
        BY <3>1 DEF Up
    <3> QED
        BY <3>1, <3>2, <3>3, QuietInd
  <2> QED
      BY <2>1, <2>2
<1>3. CASE Join
    BY <1>1, <1>3 DEF Join, Down
<1> QED
    BY <1>2, <1>3

LEMMA RaiseInd ==
    ASSUME IndInv, RaiseRunning
    PROVE  IndInv'
<1> USE DEF IndInv, RaiseRunning, pool, clients
<1>1. TypeOK'
    BY DEF TypeOK, Up
<1>2. QueueSound'
    BY DEF QueueSound
<1>3. PoolQuiet'
    BY DEF PoolQuiet, Down
<1>4. AtMostNext' /\ CutSound'
    BY DEF AtMostNext, OneMoreAtMost, CutSound
<1> QED
    BY <1>1, <1>2, <1>3, <1>4

LEMMA SpawnInd ==
    ASSUME IndInv, NEW w \in Workers, Spawn(w)
    PROVE  IndInv'
<1> USE DEF IndInv, Spawn, clients
<1>1. TypeOK'
    BY DEF TypeOK, Up, Labels, Handling
<1>2. QueueSound'
    BY DEF QueueSound
<1>3. PoolQuiet'
    BY DEF PoolQuiet, Down
<1>4. AtMostNext' /\ CutSound'
    BY DEF TypeOK, AtMostNext, OneMoreAtMost, CutSound
<1> QED
    BY <1>1, <1>2, <1>3, <1>4

LEMMA StopInd ==
    ASSUME IndInv, Signal \/ StopFlag
    PROVE  IndInv'
<1>1. /\ UNCHANGED <<platform, main, fd, listener, backlog, pool, clients, errors, late>>
      /\ handler' \in {"flag", "close"} /\ (running' = running \/ running' = FALSE)
    BY Zenon DEF Signal, StopFlag
<1>2. running' \in BOOLEAN /\ (running' => running)
  <2>1. running \in BOOLEAN
      BY DEF IndInv, TypeOK
  <2>2. CASE Signal
      BY <2>1, <2>2 DEF Signal
  <2>3. CASE StopFlag
      BY <2>3 DEF StopFlag
  <2> QED
      BY <2>2, <2>3
<1>3. /\ main \in Up \cup Down /\ fd \in BOOLEAN
      /\ errors \in 0 .. MaxErrors
      /\ listener \in {"none", "created", "bound", "listening", "orphan"}
    BY DEF IndInv, TypeOK
<1> QED
    BY <1>1, <1>2, <1>3, QuietInd

\* Connections that nobody will accept are reset, the others stay.
LEMMA ResetSound ==
    ASSUME IndInv, ResetQueued, UNCHANGED pool
    PROVE  /\ QueueSound'
           /\ backlog' \in Seq(Clients)
           /\ stage' \in [Clients -> {"away", "queued", "held", "cut"}]
           /\ said' \in [Clients -> {"nothing", "request", "aborted", "closed"}]
           /\ \A c \in Clients : stage'[c] \in {"held", "cut"} <=> stage[c] \in {"held", "cut"}
           /\ \A c \in Clients : stage'[c] = "cut" <=> stage[c] = "cut"
           /\ UNCHANGED dropped
<1> USE DEF IndInv, TypeOK, ResetQueued
<1>1. QueueSound'
    BY DEF QueueSound
<1> QED
    BY <1>1

LEMMA StopCloseInd ==
    ASSUME IndInv, StopClose
    PROVE  IndInv'
<1> USE DEF IndInv
<1>1. /\ UNCHANGED <<platform, main, running, pool, errors, late>>
      /\ handler' \in {"cleanup", "done"} /\ fd' = FALSE
      /\ platform = "linux" => handler' # "cleanup"
    BY DEF StopClose, AfterClose
<1>2. listener' \in {"none", "created", "bound", "listening", "orphan"}
    BY DEF StopClose, CloseListener, TypeOK
<1>3. CASE UNCHANGED <<backlog, clients>>
    BY <1>1, <1>2, <1>3, QuietInd DEF TypeOK
<1>4. CASE ResetQueued
  <2>1. TypeOK'
      BY <1>1, <1>2, <1>4, ResetSound DEF TypeOK, pool
  <2>2. PoolQuiet' /\ AtMostNext'
      BY <1>1 DEF pool, PoolQuiet, AtMostNext, OneMoreAtMost
  <2>3. CutSound'
      BY <1>1, <1>4, ResetSound DEF CutSound
  <2> QED
      BY <1>1, <1>4, <2>1, <2>2, <2>3, ResetSound
<1> QED
    BY <1>3, <1>4 DEF StopClose, CloseListener

\* WSACleanup cuts what is held and empties the queue; the workers keep what they have.
LEMMA StopCleanupInd ==
    ASSUME IndInv, StopCleanup
    PROVE  IndInv'
<1> USE DEF IndInv
<1>1. /\ UNCHANGED <<platform, main, running, fd, pool, errors, late, dropped>>
      /\ handler = "cleanup" /\ handler' = "done" /\ listener' = "none" /\ backlog' = <<>>
    BY DEF StopCleanup
<1>2. /\ stage' \in [Clients -> {"away", "queued", "held", "cut"}]
      /\ said' \in [Clients -> {"nothing", "request", "aborted", "closed"}]
      /\ \A c \in Clients : stage'[c] \in {"held", "cut"} <=> stage[c] \in {"held", "cut"}
    BY DEF StopCleanup, TypeOK
<1>3. TypeOK'
    BY <1>1, <1>2 DEF TypeOK, pool
<1>4. QueueSound'
    BY <1>1 DEF QueueSound
<1>5. PoolQuiet' /\ AtMostNext'
    BY <1>1 DEF pool, PoolQuiet, AtMostNext, OneMoreAtMost
<1>6. CutSound'
    BY <1>1 DEF CutSound
<1> QED
    BY <1>3, <1>4, <1>5, <1>6

\* A worker goes from label to label, with its connection or without.
LEMMA GotoInd ==
    ASSUME IndInv, NEW w \in Workers, NEW l \in Labels \ {"none"}, worker[w] # "none",
           worker' = [worker EXCEPT ![w] = l],
           l \in Handling <=> worker[w] \in Handling,
           l \in {"calling", "waiting"} => late[w] = 0,
           UNCHANGED <<platform, main, handler, running, fd, listener, backlog, conn,
                       clients, late>>,
           errors' \in 0 .. MaxErrors
    PROVE  IndInv'
<1> USE DEF IndInv, clients
<1>1. TypeOK'
    BY DEF TypeOK
<1>2. QueueSound'
    BY DEF QueueSound
<1>3. PoolQuiet'
    BY DEF PoolQuiet
<1>4. AtMostNext' /\ CutSound'
    BY DEF TypeOK, AtMostNext, OneMoreAtMost, CutSound
<1> QED
    BY <1>1, <1>2, <1>3, <1>4

LEMMA LoopInd ==
    ASSUME IndInv, NEW w \in Workers,
           Test(w) \/ CallAccept(w) \/ Woken(w) \/ AcceptError(w) \/ Retry(w)
    PROVE  IndInv'
<1> DEFINE l == worker'[w]
<1>1. /\ worker[w] \in {"top", "calling", "waiting", "failed"}
      /\ worker' = [worker EXCEPT ![w] = l]
      /\ l \in {"top", "calling", "waiting", "failed", "ended"}
      /\ UNCHANGED <<platform, main, handler, running, fd, listener, backlog, conn,
                     clients, late>>
    BY DEF Test, CallAccept, Woken, AcceptError, Retry, Goto, AfterError, IndInv, TypeOK
<1>2. errors' \in 0 .. MaxErrors
    BY ErrorsNat DEF Test, CallAccept, Woken, AcceptError, Retry, IndInv, TypeOK
<1>3. l \in {"calling", "waiting"} => late[w] = 0
    BY DEF Test, CallAccept, Woken, AcceptError, Retry, Goto, GoesOn, AfterError,
           IndInv, TypeOK, AtMostNext
<1> HIDE DEF l
<1> QED
    BY <1>1, <1>2, <1>3, GotoInd DEF Labels, Handling

LEMMA StepInd ==
    ASSUME IndInv, NEW w \in Workers, NEW l \in Handling, worker[w] \in Handling, Step(w, l)
    PROVE  IndInv'
BY GotoInd DEF Step, Goto, Labels, Handling, IndInv, TypeOK

LEMMA CloseInd ==
    ASSUME IndInv, NEW w \in Workers, worker[w] \in Handling, Close(w),
           LeftWaiting(w) => stage[conn[w]] = "cut"
    PROVE  IndInv'
<1> USE DEF IndInv
<1>1. /\ worker' = [worker EXCEPT ![w] = "top"]
      /\ conn' = [conn EXCEPT ![w] = Nobody]
      /\ stage' = [stage EXCEPT ![conn[w]] = "away"]
      /\ said' = [said EXCEPT ![conn[w]] = "nothing"]
      /\ dropped' = IF LeftWaiting(w) THEN dropped \cup {conn[w]} ELSE dropped
      /\ UNCHANGED <<platform, main, handler, running, fd, listener, backlog, errors, late>>
    BY DEF Close, Goto
<1>2. conn[w] \in Clients /\ stage[conn[w]] \in {"held", "cut"}
    BY DEF TypeOK
<1>3. TypeOK'
  <2>1. \A v \in Workers : conn'[v] # Nobody <=> worker'[v] \in Handling
      BY <1>1 DEF TypeOK, Handling
  <2>2. \A u, v \in Workers : u # v /\ conn'[u] # Nobody => conn'[u] # conn'[v]
      BY <1>1 DEF TypeOK
  <2>3. \A c \in Clients : stage'[c] \in {"held", "cut"} <=> \E v \in Workers : conn'[v] = c
    <3> TAKE c \in Clients
    <3>1. CASE c = conn[w]
      <4>1. stage'[c] = "away"
          BY <1>1, <1>2, <3>1 DEF TypeOK
      <4>2. \A v \in Workers : conn'[v] # c
          BY <1>1, <1>2, <3>1, NobodyNoClient DEF TypeOK
      <4> QED
          BY <4>1, <4>2
    <3>2. CASE c # conn[w]
      <4>1. stage'[c] = stage[c]
          BY <1>1, <3>2 DEF TypeOK
      <4>2. \A v \in Workers : conn'[v] = c <=> conn[v] = c
          BY <1>1, <3>2, NobodyNoClient DEF TypeOK
      <4> QED
          BY <4>1, <4>2 DEF TypeOK
    <3> QED
        BY <3>1, <3>2
  <2> QED
      BY <1>1, <1>2, <2>1, <2>2, <2>3 DEF TypeOK, Labels
<1>4. QueueSound'
  <2>1. \A i \in 1 .. Len(backlog) : backlog[i] \in Clients /\ backlog[i] # conn[w]
      BY <1>2 DEF QueueSound, TypeOK
  <2> QED
      BY <1>1, <2>1 DEF QueueSound, TypeOK
<1>5. PoolQuiet'
    BY <1>1 DEF PoolQuiet, Handling
<1>6. AtMostNext'
    BY <1>1 DEF TypeOK, AtMostNext, OneMoreAtMost
<1>7. CutSound'
    BY <1>1, <1>2 DEF TypeOK, CutSound
<1> QED
    BY <1>3, <1>4, <1>5, <1>6, <1>7

LEMMA HandleInd ==
    ASSUME IndInv, NEW w \in Workers, Admit(w) \/ Receive(w) \/ Serve(w) \/ Write(w) \/ Reply(w)
    PROVE  IndInv'
<1>1. worker[w] \in Handling
    BY DEF Admit, Receive, Serve, Write, Reply, Handling
<1>2. \/ Close(w) /\ (LeftWaiting(w) => stage[conn[w]] = "cut")
      \/ \E l \in Handling : Step(w, l)
    BY DEF Admit, Receive, Serve, Write, Reply, Handling, LeftWaiting
<1> QED
    BY <1>1, <1>2, StepInd, CloseInd

\* A connection in the queue changes hands; an orphan socket resets the others.
LEMMA AcceptInd ==
    ASSUME IndInv, NEW w \in Workers, Accept(w)
    PROVE  IndInv'
<1> USE DEF IndInv
<1> DEFINE c == Head(backlog)
<1>1. /\ worker[w] = "waiting" /\ backlog # <<>>
      /\ worker' = [worker EXCEPT ![w] = "admitted"]
      /\ conn' = [conn EXCEPT ![w] = c]
      /\ late' = [late EXCEPT ![w] = IF running THEN 0 ELSE @ + 1]
      /\ UNCHANGED <<platform, main, handler, running, fd, errors, dropped>>
    BY DEF Accept, Goto
<1>2. c \in Clients /\ c = backlog[1] /\ Len(backlog) >= 1
    BY <1>1, HeadTailProperties DEF TypeOK
<1>3. stage[c] = "queued" /\ c # Nobody
    BY <1>2, NobodyNoClient DEF QueueSound
<1>4. /\ backlog' \in Seq(Clients)
      /\ stage' \in [Clients -> {"away", "queued", "held", "cut"}]
      /\ said' \in [Clients -> {"nothing", "request", "aborted", "closed"}]
      /\ listener' \in {"none", "created", "bound", "listening", "orphan"}
      /\ \A d \in Clients :
            stage'[d] \in {"held", "cut"} <=> d = c \/ stage[d] \in {"held", "cut"}
      /\ \A d \in Clients : stage'[d] = "cut" => stage[d] = "cut"
      /\ QueueSound'
  <2>1. CASE listener = "orphan" /\ Waiting = {w}
    <3>1. /\ listener' = "none" /\ backlog' = <<>>
          /\ stage' = [d \in Clients |-> IF d = c THEN "held"
                         ELSE IF stage[d] = "queued" THEN "away" ELSE stage[d]]
          /\ said' = [d \in Clients |-> IF d # c /\ stage[d] = "queued"
                         THEN "nothing" ELSE said[d]]
        BY <2>1 DEF Accept
    <3> HIDE DEF c
    <3>2. QueueSound'
        BY <3>1 DEF QueueSound
    <3> QED
        BY <1>2, <3>1, <3>2 DEF TypeOK
  <2>2. CASE ~(listener = "orphan" /\ Waiting = {w})
    <3>1. /\ backlog' = Tail(backlog) /\ stage' = [stage EXCEPT ![c] = "held"]
          /\ UNCHANGED <<listener, said>>
        BY <2>2 DEF Accept
    <3>2. /\ Tail(backlog) \in Seq(Clients) /\ Len(Tail(backlog)) = Len(backlog) - 1
          /\ \A i \in 1 .. Len(Tail(backlog)) : Tail(backlog)[i] = backlog[i + 1]
        BY <1>1, HeadTailProperties DEF TypeOK
    <3> HIDE DEF c
    <3>3. \A i \in 1 .. Len(backlog) - 1 : i + 1 \in 1 .. Len(backlog) /\ i + 1 # 1
        BY <1>2
    <3>4. \A i \in 1 .. Len(backlog') : stage'[backlog'[i]] = "queued"
      <4> SUFFICES ASSUME NEW i \in 1 .. Len(backlog')
                   PROVE  stage'[backlog'[i]] = "queued"
          OBVIOUS
      <4>1. i + 1 \in 1 .. Len(backlog) /\ i + 1 # 1 /\ backlog'[i] = backlog[i + 1]
          BY <3>1, <3>2, <3>3
      <4>2. backlog[i + 1] # c /\ backlog[i + 1] \in Clients /\ stage[backlog[i + 1]] = "queued"
          BY <1>2, <4>1 DEF QueueSound, TypeOK
      <4> QED
          BY <3>1, <4>1, <4>2 DEF TypeOK
    <3>5. \A i, j \in 1 .. Len(backlog') : backlog'[i] = backlog'[j] => i = j
      <4> SUFFICES ASSUME NEW i \in 1 .. Len(backlog'), NEW j \in 1 .. Len(backlog'),
                          backlog'[i] = backlog'[j]
                   PROVE  i = j
          OBVIOUS
      <4>1. /\ i + 1 \in 1 .. Len(backlog) /\ j + 1 \in 1 .. Len(backlog)
            /\ backlog[i + 1] = backlog[j + 1]
          BY <3>1, <3>2, <3>3
      <4>2. i + 1 = j + 1
          BY <4>1 DEF QueueSound
      <4> QED
          BY <4>2
    <3>6. QueueSound'
        BY <3>4, <3>5 DEF QueueSound
    <3> QED
        BY <1>2, <3>1, <3>2, <3>6 DEF TypeOK
  <2> QED
      BY <2>1, <2>2
<1> HIDE DEF c
<1>5. \A v \in Workers : conn[v] # c
    BY <1>2, <1>3 DEF TypeOK
<1>6. TypeOK'
  <2>1. \A v \in Workers : conn'[v] # Nobody <=> worker'[v] \in Handling
      BY <1>1, <1>3 DEF TypeOK, Handling
  <2>2. \A u, v \in Workers : u # v /\ conn'[u] # Nobody => conn'[u] # conn'[v]
      BY <1>1, <1>3, <1>5 DEF TypeOK
  <2>3. \A d \in Clients : stage'[d] \in {"held", "cut"} <=> \E v \in Workers : conn'[v] = d
    <3> TAKE d \in Clients
    <3>1. conn[w] = Nobody
        BY <1>1 DEF TypeOK, Handling
    <3>2. (\E v \in Workers : conn'[v] = d) <=> d = c \/ \E v \in Workers : conn[v] = d
        BY <1>1, <3>1, NobodyNoClient DEF TypeOK
    <3> QED
        BY <1>4, <3>2 DEF TypeOK
  <2>4. late' \in [Workers -> Nat]
      BY <1>1 DEF TypeOK
  <2> QED
      BY <1>1, <1>2, <1>4, <2>1, <2>2, <2>3, <2>4 DEF TypeOK, Labels, Handling
<1>7. PoolQuiet'
    BY <1>1 DEF PoolQuiet
<1>8. AtMostNext'
    BY <1>1 DEF TypeOK, AtMostNext, OneMoreAtMost
<1>9. CutSound'
    BY <1>1, <1>4 DEF CutSound
<1> QED
    BY <1>4, <1>6, <1>7, <1>8, <1>9

LEMMA ClientInd ==
    ASSUME IndInv, NEW c \in Clients, Connect(c) \/ Speak(c) \/ Abort(c)
    PROVE  IndInv'
<1> USE DEF IndInv
<1>1. CASE Connect(c)
  <2>1. /\ stage[c] = "away" /\ stage' = [stage EXCEPT ![c] = "queued"]
        /\ backlog' = Append(backlog, c)
        /\ UNCHANGED <<platform, main, handler, running, fd, listener, pool, said, errors, late,
                       dropped>>
      BY <1>1 DEF Connect
  <2>2. /\ backlog' \in Seq(Clients) /\ Len(backlog') = Len(backlog) + 1
        /\ \A i \in 1 .. Len(backlog) : backlog'[i] = backlog[i]
        /\ backlog'[Len(backlog) + 1] = c
      BY <2>1, AppendProperties DEF TypeOK
  <2>3. \A i \in 1 .. Len(backlog) :
            backlog[i] \in Clients /\ backlog[i] # c /\ stage[backlog[i]] = "queued"
      BY <2>1 DEF QueueSound, TypeOK
  <2>4. QueueSound'
    <3>1. \A i \in 1 .. Len(backlog') : i \in 1 .. Len(backlog) \/ i = Len(backlog) + 1
        BY <2>2 DEF TypeOK
    <3>2. \A i \in 1 .. Len(backlog') : stage'[backlog'[i]] = "queued"
        BY <2>1, <2>2, <2>3, <3>1 DEF TypeOK
    <3>3. \A i, j \in 1 .. Len(backlog') : backlog'[i] = backlog'[j] => i = j
        BY <2>2, <2>3, <3>1 DEF QueueSound
    <3> QED
        BY <3>2, <3>3 DEF QueueSound
  <2>5. TypeOK'
    <3>1. \A d \in Clients : stage'[d] \in {"held", "cut"} <=> stage[d] \in {"held", "cut"}
        BY <2>1 DEF TypeOK
    <3> QED
        BY <2>1, <2>2, <3>1 DEF TypeOK, pool
  <2>6. PoolQuiet' /\ AtMostNext'
      BY <2>1 DEF pool, PoolQuiet, AtMostNext, OneMoreAtMost
  <2>7. CutSound'
      BY <2>1 DEF CutSound, TypeOK
  <2> QED
      BY <2>4, <2>5, <2>6, <2>7
<1>2. CASE Speak(c) \/ Abort(c)
  <2>1. /\ said' \in [Clients -> {"nothing", "request", "aborted", "closed"}]
        /\ UNCHANGED <<platform, main, handler, running, fd, listener, backlog, pool, stage,
                       errors, late, dropped>>
      BY <1>2 DEF Speak, Abort, Says, TypeOK
  <2>2. TypeOK' /\ QueueSound' /\ PoolQuiet'
      BY <2>1 DEF pool, TypeOK, QueueSound, PoolQuiet
  <2>3. AtMostNext' /\ CutSound'
      BY <2>1 DEF pool, AtMostNext, OneMoreAtMost, CutSound
  <2> QED
      BY <2>2, <2>3
<1> QED
    BY <1>1, <1>2

LEMMA RestartInd ==
    ASSUME IndInv, Restart
    PROVE  IndInv'
<1>1. main' \in Up
    BY DEF Restart, Up
<1> QED
    BY <1>1, QuietInd DEF Restart, Down, IndInv, TypeOK, CutSound

LEMMA StutterInd == IndInv /\ UNCHANGED vars => IndInv'
<1> SUFFICES ASSUME IndInv, UNCHANGED vars PROVE IndInv'
    OBVIOUS
<1> QED
    BY QuietInd DEF vars, pool, clients, IndInv, TypeOK, CutSound

LEMMA NextInd == IndInv /\ [Next]_vars => IndInv'
<1> SUFFICES ASSUME IndInv, [Next]_vars PROVE IndInv'
    OBVIOUS
<1>1. CASE UNCHANGED vars
    BY <1>1, StutterInd
<1>2. CASE MainStep
    BY <1>2, MainInd, RaiseInd, SpawnInd DEF MainStep
<1>3. CASE Signal \/ HandlerStep
    BY <1>3, StopInd, StopCloseInd, StopCleanupInd DEF HandlerStep
<1>4. ASSUME NEW w \in Workers, WorkerStep(w) \/ AcceptError(w) PROVE IndInv'
    BY <1>4, LoopInd, AcceptInd, HandleInd DEF WorkerStep
<1>5. ASSUME NEW w \in Workers, BrokenPipe(w) PROVE IndInv'
    BY <1>5, EndInd DEF BrokenPipe, Down
<1>6. ASSUME NEW c \in Clients, Connect(c) \/ Speak(c) \/ Abort(c) PROVE IndInv'
    BY <1>6, ClientInd
<1>7. CASE Kill
    BY <1>7, EndInd DEF Kill, Down
<1>8. CASE Restart
    BY <1>8, RestartInd
<1> QED
    BY <1>1, <1>2, <1>3, <1>4, <1>5, <1>6, <1>7, <1>8 DEF Next

-----------------------------------------------------------------------------
(* The theorems.                                                            *)

THEOREM Inductive == Spec => []IndInv
BY InitInd, NextInd, PTL DEF Spec

\* Types, and the pool and its connections agree: one worker per connection held,
\* a connection exactly while a request is handled.
THEOREM TypeCorrect == Spec => []TypeOK
<1>1. IndInv => TypeOK
    BY DEF IndInv
<1> QED
    BY <1>1, Inductive, PTL

\* After the flag has fallen no worker accepts a second connection.
THEOREM StopBounded == Spec => []OneMoreAtMost
<1>1. IndInv => OneMoreAtMost
    BY DEF IndInv, AtMostNext
<1> QED
    BY <1>1, Inductive, PTL

\* http_server_start returns to main only when no worker has a connection or is
\* writing index.dat, and on "linux" only when every connection ever accepted was
\* answered or its client had gone.
THEOREM ExitClean == Spec => ExitAnswersAll
<1>1. IndInv /\ [Next]_vars => [main' = "exited" /\ main \in Up => CleanEnd]_vars
  <2> SUFFICES ASSUME IndInv, Next, main' = "exited", main \in Up
               PROVE  CleanEnd
      OBVIOUS
  <2>1. main # "exited"
      BY DEF Up
  <2> DEFINE Over == \A w \in Workers : worker[w] \in {"none", "ended"}
  <2>2. ASSUME Open \/ Bind \/ Listen PROVE Over
      BY <2>2 DEF Open, Bind, Listen, IndInv, PoolQuiet
  <2>3. ASSUME Join PROVE Over
      BY <2>3 DEF Join, AllJoined
  <2>4. ASSUME RaiseRunning \/ (\E w \in Workers : Spawn(w)) \/ Kill \/ Restart PROVE FALSE
      BY <2>1, <2>4 DEF RaiseRunning, Spawn, Kill, Restart, End
  <2>5. ASSUME Signal \/ HandlerStep PROVE FALSE
      BY <2>1, <2>5 DEF Signal, HandlerStep, StopFlag, StopClose, StopCleanup
  <2>6. ASSUME NEW w \in Workers, WorkerStep(w) \/ AcceptError(w) PROVE FALSE
      BY <2>1, <2>6 DEF WorkerStep, Test, CallAccept, Accept, Woken, Retry, AcceptError,
         Admit, Receive, Serve, Write, Reply, Step, Close
  <2>7. ASSUME NEW w \in Workers, BrokenPipe(w) PROVE FALSE
      BY <2>7 DEF BrokenPipe, End
  <2>8. ASSUME NEW c \in Clients, Connect(c) \/ Speak(c) \/ Abort(c) PROVE FALSE
      BY <2>1, <2>8 DEF Connect, Speak, Abort, Says
  <2>9. Over
      BY <2>2, <2>3, <2>4, <2>5, <2>6, <2>7, <2>8 DEF Next, MainStep
  <2>10. \A w \in Workers : worker[w] \notin Handling /\ conn[w] = Nobody
      BY <2>9 DEF IndInv, TypeOK, Handling
  <2>11. \A c \in Clients : stage[c] \in {"away", "queued"}
      BY <2>10, NobodyNoClient DEF IndInv, TypeOK
  <2>12. platform = "linux" => dropped = {}
      BY DEF IndInv, CutSound
  <2> QED
      BY <2>10, <2>11, <2>12 DEF CleanEnd
<1> QED
    BY <1>1, Inductive, PTL DEF Spec, ExitAnswersAll

=============================================================================
