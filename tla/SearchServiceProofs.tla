------------------------ MODULE SearchServiceProofs ------------------------
(***************************************************************************)
(* Proofs about SearchService for any pool of workers, any request paths,  *)
(* any capacity and any number of rebuilds: types, that an entry of the    *)
(* response cache answers the path it is stored under where strtok's       *)
(* position is per thread, and what clearing the cache forgets.            *)
(***************************************************************************)
EXTENDS SearchService, FiniteSetTheorems, SequenceTheorems, TLAPS

Entries == [key : Paths, val : Answers]

\* The value a handler has for a parameter after the first k of p.
ChosenOf(p, k, name, default) ==
    LET is == {i \in 1 .. k : p[i].name = name}
    IN  IF is = {} THEN default
        ELSE p[CHOOSE i \in is : \A j \in is : j <= i].value

\* strtok's positions.
SaveTyped ==
    /\ save \in [DOMAIN save -> [owner : Threads, rest : Seq(Params)]]
    /\ \A t \in Threads : Slot(t) \in DOMAIN save

\* Rebuilds under way stay within the bound on versions.
Rebuilders == {u \in Threads : pc[u] \in {"starting", "clearing", "building"}}
Bounded == version + Cardinality(Rebuilders) <= MaxVersion

Typed ==
    /\ TypeOK /\ SaveTyped /\ Bounded
    /\ cache \in Seq(Entries)
    /\ \A t \in Threads : pc[t] \in InSearch => path[t] \in Paths

\* A path is cached once.
OneEach == \A i, j \in 1 .. Len(cache) : cache[i].key = cache[j].key => i = j

\* Nothing to rebuild an answer from before the parameters are parsed.
Unparsed == {"idle", "missed", "starting", "clearing", "building", "saving"}

\* Where each thread has its own position, worker t has dealt with the first k
\* parameters of its path and its position is after them.
Parsing(t, k) ==
    /\ save[t].owner = t
    /\ save[t].rest = SubSeq(path[t], k + 1, Len(path[t]))
    /\ qParam[t] = ChosenOf(path[t], k, "q", NoQuery)
    /\ page[t] = ChosenOf(path[t], k, "page", FirstPage)

Parsed(t) ==
    /\ qParam[t] = Chosen(path[t], "q", NoQuery)
    /\ page[t] = Chosen(path[t], "page", FirstPage)

Undisturbed ==
    ThreadLocalStrtok =>
        \A t \in Threads :
            /\ pc[t] \in Unparsed => qParam[t] = NoQuery /\ page[t] = FirstPage
            /\ pc[t] = "parsing" => \E k \in 1 .. Len(path[t]) : Parsing(t, k)
            /\ pc[t] \in {"parsed", "evaluating"} => Parsed(t)

\* Only a valid query is evaluated.
Accepted == \A t \in Threads : pc[t] = "evaluating" => ~Rejected(qParam[t])

\* A search that is not a laggard evaluates on an index no older than the clear.
Fresh ==
    /\ clearVersion \in Nat /\ clearVersion <= version
    /\ \A t \in Threads \ laggards : pc[t] = "evaluating" => snapshot[t] >= clearVersion

IndInv ==
    /\ Typed /\ OneEach /\ Undisturbed /\ Accepted /\ Fresh
    /\ EntryMatchesPath /\ NothingOlderThanClear

-----------------------------------------------------------------------------
(* The parameter loop.                                                      *)

\* One more parameter: it wins if it has the name.
LEMMA ChosenStep ==
    ASSUME NEW p, NEW k \in Nat, NEW name, NEW default
    PROVE  ChosenOf(p, k + 1, name, default) =
             IF p[k + 1].name = name THEN p[k + 1].value ELSE ChosenOf(p, k, name, default)
<1> DEFINE is == {i \in 1 .. k : p[i].name = name}
           more == {i \in 1 .. k + 1 : p[i].name = name}
<1>1. CASE p[k + 1].name = name
  <2>1. k + 1 \in more /\ \A j \in more : j <= k + 1
      BY <1>1
  <2>2. \A i \in more : (\A j \in more : j <= i) => i = k + 1
      BY <2>1
  <2>3. (CHOOSE i \in more : \A j \in more : j <= i) = k + 1
      BY <2>1, <2>2
  <2>4. more # {}
      BY <2>1
  <2> QED
      BY <1>1, <2>3, <2>4 DEF ChosenOf
<1>2. CASE p[k + 1].name # name
  <2>1. more = is
      BY <1>2
  <2>2. ChosenOf(p, k + 1, name, default) =
          IF more = {} THEN default ELSE p[CHOOSE i \in more : \A j \in more : j <= i].value
      BY DEF ChosenOf
  <2>3. ChosenOf(p, k, name, default) =
          IF is = {} THEN default ELSE p[CHOOSE i \in is : \A j \in is : j <= i].value
      BY DEF ChosenOf
  <2> HIDE DEF is, more
  <2> QED
      BY <1>2, <2>1, <2>2, <2>3
<1> QED
    BY <1>1, <1>2

\* No parameter yet, and all of them.
LEMMA ChosenEnds ==
    ASSUME NEW p \in Seq(Params), NEW name, NEW default
    PROVE  /\ ChosenOf(p, 0, name, default) = default
           /\ ChosenOf(p, Len(p), name, default) = Chosen(p, name, default)
<1>1. 1 .. 0 = {} /\ DOMAIN p = 1 .. Len(p)
    OBVIOUS
<1> QED
    BY <1>1 DEF ChosenOf, Chosen

-----------------------------------------------------------------------------
(* The cache.                                                               *)

\* A lookup permutes the entries.
LEMMA TouchedPermutes ==
    ASSUME cache \in Seq(Entries), OneEach, NEW p
    PROVE  /\ LRU!Touched(p) \in Seq(Entries)
           /\ Len(LRU!Touched(p)) = Len(cache)
           /\ \A i \in 1 .. Len(cache) : \E j \in 1 .. Len(cache) : LRU!Touched(p)[i] = cache[j]
           /\ \A i, j \in 1 .. Len(cache) :
                LRU!Touched(p)[i].key = LRU!Touched(p)[j].key => i = j
<1>1. CASE LRU!At(p) = {}
    BY <1>1 DEF LRU!Touched, OneEach
<1>2. CASE LRU!At(p) # {}
  <2> DEFINE k == CHOOSE i \in LRU!At(p) : TRUE
             n == Len(cache)
             front == SubSeq(cache, 1, k - 1)
             back == SubSeq(cache, k + 1, n)
             from == [i \in 1 .. n |-> IF i = 1 THEN k ELSE IF i <= k THEN i - 1 ELSE i]
  <2>1. k \in 1 .. n
      BY <1>2 DEF LRU!At
  <2> HIDE DEF k
  <2>2. front \in Seq(Entries) /\ Len(front) = k - 1 /\ \A i \in 1 .. k - 1 : front[i] = cache[i]
      BY <2>1, SubSeqProperties
  <2>3. back \in Seq(Entries) /\ Len(back) = n - k /\ \A i \in 1 .. n - k : back[i] = cache[k + i]
      BY <2>1, SubSeqProperties
  <2>4. LRU!Touched(p) = <<cache[k]>> \o (front \o back)
      BY <1>2 DEF LRU!Touched, LRU!Without, k
  <2>5. <<cache[k]>> \in Seq(Entries) /\ Len(<<cache[k]>>) = 1 /\ <<cache[k]>>[1] = cache[k]
      BY <2>1
  <2> HIDE DEF front, back
  <2> DEFINE others == front \o back
             touched == <<cache[k]>> \o others
  <2> n \in Nat
      OBVIOUS
  <2>6. others \in Seq(Entries) /\ Len(others) = n - 1
      BY <2>1, <2>2, <2>3, ConcatProperties
  <2>7. \A i \in 1 .. n - 1 : others[i] = IF i < k THEN cache[i] ELSE cache[i + 1]
    <3>1. \A i \in 1 .. (k - 1) + (n - k) :
            others[i] = IF i <= k - 1 THEN front[i] ELSE back[i - (k - 1)]
        BY <2>2, <2>3, ConcatProperties
    <3>2. \A i \in 1 .. n - 1 : i > k - 1 =>
            back[i - (k - 1)] = cache[k + (i - (k - 1))] /\ k + (i - (k - 1)) = i + 1
        BY <2>1, <2>3
    <3> HIDE DEF others, n
    <3> QED
        BY <2>1, <2>2, <3>1, <3>2
  <2> HIDE DEF others
  <2>8. touched \in Seq(Entries) /\ Len(touched) = n
      BY <2>1, <2>5, <2>6, ConcatProperties
  <2>9. \A i \in 1 .. n : touched[i] = IF i = 1 THEN cache[k] ELSE others[i - 1]
    <3>1. \A i \in 1 .. 1 + (n - 1) :
            touched[i] = IF i <= 1 THEN <<cache[k]>>[i] ELSE others[i - 1]
        BY <2>5, <2>6, ConcatProperties
    <3> HIDE DEF touched, n
    <3> QED
        BY <2>5, <3>1
  <2>10. \A i \in 1 .. n : touched[i] = cache[from[i]]
    <3> HIDE DEF touched, n
    <3> QED
        BY <2>1, <2>7, <2>9
  <2>11. \A i, j \in 1 .. n : from[i] \in 1 .. n /\ (from[i] = from[j] => i = j)
      BY <2>1
  <2>12. LRU!Touched(p) = touched
      BY <2>4 DEF others
  <2> HIDE DEF touched, from
  <2>13. \A i \in 1 .. n : \E j \in 1 .. n : touched[i] = cache[j]
      BY <2>10, <2>11
  <2>14. ASSUME NEW i \in 1 .. n, NEW j \in 1 .. n, touched[i].key = touched[j].key
         PROVE  i = j
    <3>1. cache[from[i]].key = cache[from[j]].key
        BY <2>10, <2>14
    <3>2. from[i] = from[j]
        BY <2>11, <3>1 DEF OneEach
    <3> QED
        BY <2>11, <3>2
  <2> QED
      BY <2>8, <2>12, <2>13, <2>14
<1> QED
    BY <1>1, <1>2

\* A store leaves other paths' entries as they are, or drops them.
LEMMA StoredElsewhere ==
    ASSUME cache \in Seq(Entries), OneEach, Len(cache) <= Capacity,
           NEW p \in Paths, NEW a \in Answers
    PROVE  LET new == LRU!Stored(p, a) IN
           /\ new \in Seq(Entries) /\ Len(new) <= Capacity
           /\ \A i \in 1 .. Len(new) :
                \/ new[i] = [key |-> p, val |-> a]
                \/ new[i].key # p /\ \E j \in 1 .. Len(cache) : new[i] = cache[j]
           /\ \A i, j \in 1 .. Len(new) : new[i].key = new[j].key => i = j
<1> DEFINE new == LRU!Stored(p, a)
           e == [key |-> p, val |-> a]
<1>1. e \in Entries
    BY DEF Entries
<1>2. CASE LRU!At(p) # {}
  <2> DEFINE k == CHOOSE i \in LRU!At(p) : TRUE
  <2>1. k \in 1 .. Len(cache) /\ cache[k].key = p
      BY <1>2 DEF LRU!At
  <2> cache[k] \in [key : Paths, val : Answers]
      BY <2>1, ElementOfSeq DEF Entries
  <2>2. new = [cache EXCEPT ![k].val = a]
      BY <1>2 DEF LRU!Stored
  <2> HIDE DEF k
  <2>3. [cache[k] EXCEPT !.val = a] = e
      BY <2>1 DEF Entries
  <2>4. new = [cache EXCEPT ![k] = e]
      BY <2>2, <2>3
  <2> HIDE DEF new, e
  <2>5. new \in Seq(Entries) /\ Len(new) = Len(cache)
      BY <1>1, <2>1, <2>4, ExceptSeq
  <2>6. \A i \in 1 .. Len(cache) : new[i] = IF i = k THEN e ELSE cache[i]
      BY <2>1, <2>4
  <2>7. \A i \in 1 .. Len(cache) : i # k => cache[i].key # p
      BY <2>1 DEF OneEach
  <2> QED
      BY <1>1, <2>1, <2>5, <2>6, <2>7 DEF OneEach, e, new
<1>3. CASE LRU!At(p) = {}
  <2> DEFINE kept == IF Len(cache) < Capacity THEN cache ELSE SubSeq(cache, 1, Capacity - 1)
  <2>1. new = <<e>> \o kept
      BY <1>3 DEF LRU!Stored
  <2>2. /\ kept \in Seq(Entries) /\ Len(kept) <= Capacity - 1 /\ Len(kept) <= Len(cache)
        /\ \A i \in 1 .. Len(kept) : kept[i] = cache[i]
    <3>1. CASE Len(cache) < Capacity
        BY <3>1, CapacityPos
    <3>2. CASE Len(cache) >= Capacity
      <4>1. SubSeq(cache, 1, Capacity - 1) \in Seq(Entries)
            /\ Len(SubSeq(cache, 1, Capacity - 1)) = Capacity - 1
            /\ \A i \in 1 .. Capacity - 1 : SubSeq(cache, 1, Capacity - 1)[i] = cache[i]
          BY <3>2, CapacityPos, SubSeqProperties
      <4> QED
          BY <3>2, <4>1, CapacityPos
    <3> QED
        BY <3>1, <3>2, CapacityPos
  <2>3. \A i \in 1 .. Len(cache) : cache[i].key # p
      BY <1>3 DEF LRU!At
  <2> HIDE DEF kept
  <2>4. <<e>> \in Seq(Entries) /\ Len(<<e>>) = 1 /\ <<e>>[1] = e
      BY <1>1
  <2> HIDE DEF e, new
  <2>5. /\ new \in Seq(Entries) /\ Len(new) = 1 + Len(kept)
        /\ \A i \in 1 .. Len(new) : new[i] = IF i = 1 THEN e ELSE kept[i - 1]
      BY <2>1, <2>2, <2>4, ConcatProperties
  <2>6. \A i \in 1 .. Len(new) : i # 1 => i - 1 \in 1 .. Len(cache) /\ new[i] = cache[i - 1]
    <3>1. \A i \in 1 .. 1 + Len(kept) : i # 1 =>
            i - 1 \in 1 .. Len(kept) /\ i - 1 \in 1 .. Len(cache)
        BY <2>2
    <3> QED
        BY <2>2, <2>5, <3>1
  <2>7. Len(new) <= Capacity
      BY <2>2, <2>5, CapacityPos
  <2>8. e.key = p
      BY DEF e
  <2>9. \A i, j \in 1 .. Len(new) : new[i].key = new[j].key => i = j
    <3> SUFFICES ASSUME NEW i \in 1 .. Len(new), NEW j \in 1 .. Len(new),
                        new[i].key = new[j].key
                 PROVE  i = j
        OBVIOUS
    <3> i \in Int /\ j \in Int
        OBVIOUS
    <3>1. CASE i = 1 \/ j = 1
        BY <2>3, <2>5, <2>6, <2>8, <3>1
    <3>2. CASE i # 1 /\ j # 1
      <4>1. /\ i - 1 \in 1 .. Len(cache) /\ j - 1 \in 1 .. Len(cache)
            /\ cache[i - 1].key = cache[j - 1].key
          BY <2>6, <3>2
      <4>2. i - 1 = j - 1
          BY <4>1 DEF OneEach
      <4> QED
          BY <4>2
    <3> QED
        BY <3>1, <3>2
  <2> QED
      BY <2>3, <2>5, <2>6, <2>7, <2>9 DEF e, new
<1> QED
    BY <1>2, <1>3

-----------------------------------------------------------------------------
(* What an action leaves alone.                                             *)

LEMMA EntriesTyped ==
    ASSUME NEW c \in Seq(Entries)
    PROVE  \A i \in DOMAIN c : c[i] \in [key : Paths, val : Answers]
<1>1. \A i \in DOMAIN c : c[i] \in Entries
    OBVIOUS
<1> QED
    BY <1>1 DEF Entries

LEMMA PoolCounted ==
    ASSUME TypeOK
    PROVE  IsFiniteSet(Rebuilders) /\ Cardinality(Rebuilders) \in Nat
<1>1. IsFiniteSet(Rebuilders)
    BY PoolFinite, FS_Subset DEF Rebuilders
<1> QED
    BY <1>1, FS_CardinalityType

LEMMA BoundedFrame ==
    ASSUME Bounded, Rebuilders' = Rebuilders, version' = version
    PROVE  Bounded'
BY DEF Bounded

LEMMA CacheFrame ==
    ASSUME IndInv, UNCHANGED <<cache, clearVersion, refilled>>, DOMAIN save' = DOMAIN save
    PROVE  OneEach' /\ EntryMatchesPath' /\ NothingOlderThanClear'
<1> USE DEF IndInv
<1>1. OneEach'
    BY DEF OneEach
<1>2. EntryMatchesPath'
    BY DEF EntryMatchesPath, ThreadLocalStrtok, EntryIsForPath
<1>3. NothingOlderThanClear'
    BY DEF NothingOlderThanClear
<1> QED
    BY <1>1, <1>2, <1>3

\* The slots of strtok are given once and for all.
LEMMA SlotFrame ==
    ASSUME DOMAIN save' = DOMAIN save, NEW t
    PROVE  Slot(t)' = Slot(t) /\ (ThreadLocalStrtok' <=> ThreadLocalStrtok)
BY DEF Slot, ThreadLocalStrtok

LEMMA SaveFrame ==
    ASSUME SaveTyped, save' = save
    PROVE  SaveTyped' /\ DOMAIN save' = DOMAIN save
BY SlotFrame DEF SaveTyped

\* Workers other than t are where they were.
OthersStay(t) ==
    \A u \in Threads \ {t} :
        pc'[u] = pc[u] /\ path'[u] = path[u] /\ qParam'[u] = qParam[u] /\ page'[u] = page[u]

\* With a position of its own, what one worker does leaves the others undisturbed.
LEMMA UndisturbedStep ==
    ASSUME Undisturbed, NEW t \in Threads, OthersStay(t),
           DOMAIN save' = DOMAIN save,
           ThreadLocalStrtok =>
             /\ \A u \in Threads \ {t} : save'[u] = save[u]
             /\ pc'[t] \in Unparsed => qParam'[t] = NoQuery /\ page'[t] = FirstPage
             /\ pc'[t] = "parsing" => \E k \in 1 .. Len(path'[t]) : Parsing(t, k)'
             /\ pc'[t] \in {"parsed", "evaluating"} => Parsed(t)'
    PROVE  Undisturbed'
<1> SUFFICES ASSUME ThreadLocalStrtok, NEW u \in Threads \ {t}
             PROVE  /\ pc'[u] \in Unparsed => qParam'[u] = NoQuery /\ page'[u] = FirstPage
                    /\ pc'[u] = "parsing" => \E k \in 1 .. Len(path'[u]) : Parsing(u, k)'
                    /\ pc'[u] \in {"parsed", "evaluating"} => Parsed(u)'
    BY SlotFrame DEF Undisturbed
<1>1. /\ pc[u] \in Unparsed => qParam[u] = NoQuery /\ page[u] = FirstPage
      /\ pc[u] = "parsing" => \E k \in 1 .. Len(path[u]) : Parsing(u, k)
      /\ pc[u] \in {"parsed", "evaluating"} => Parsed(u)
    BY DEF Undisturbed
<1>2. Parsed(u)' <=> Parsed(u)
    BY DEF Parsed, OthersStay
<1>3. ASSUME NEW k PROVE Parsing(u, k)' <=> Parsing(u, k)
    BY DEF Parsing, OthersStay
<1> QED
    BY <1>1, <1>2, <1>3 DEF OthersStay

-----------------------------------------------------------------------------
(* Each action preserves the invariant.                                     *)

LEMMA InitInd == Init => IndInv
<1> SUFFICES ASSUME Init PROVE IndInv
    OBVIOUS
<1> USE DEF Init
<1>1. TypeOK
  <2>1. Len(cache) <= Capacity /\ DOMAIN cache = {}
      BY CapacityPos
  <2>2. FirstPage \in Pages /\ 0 \in 0 .. MaxVersion
      BY Distinct, VersionsNat
  <2>3. \A t \in Threads : answer[t] # NoAnswer <=> pc[t] = "answering"
      OBVIOUS
  <2> QED
      BY <2>1, <2>2, <2>3 DEF TypeOK, InSearch
<1>2. SaveTyped
  <2>1. PICK runtime \in Runtimes : save = [t \in Slots(runtime) |-> [owner |-> t, rest |-> <<>>]]
      OBVIOUS
  <2>2. PICK u \in Threads : u = CHOOSE v \in Threads : TRUE
      BY PoolFinite
  <2>3. Slots(runtime) = Threads \/ Slots(runtime) = {u}
      BY <2>2 DEF Slots
  <2>4. \A t \in Threads : [owner |-> t, rest |-> <<>>] \in [owner : Threads, rest : Seq(Params)]
      OBVIOUS
  <2>5. DOMAIN save = Slots(runtime)
      BY <2>1
  <2>6. \A t \in Threads : Slot(t) \in DOMAIN save
      BY <2>3, <2>5 DEF Slot, ThreadLocalStrtok
  <2>7. save \in [DOMAIN save -> [owner : Threads, rest : Seq(Params)]]
      BY <2>1, <2>3, <2>4, <2>5
  <2> QED
      BY <2>6, <2>7 DEF SaveTyped
<1>3. Bounded
  <2>1. Rebuilders = {}
      BY DEF Rebuilders
  <2> QED
      BY <2>1, FS_EmptySet, VersionsNat DEF Bounded
<1>4. Typed
    BY <1>1, <1>2, <1>3 DEF Typed, InSearch
<1>5. OneEach /\ EntryMatchesPath /\ NothingOlderThanClear
    BY DEF OneEach, EntryMatchesPath, EntryIsForPath, NothingOlderThanClear
<1>6. Undisturbed /\ Accepted /\ Fresh
    BY DEF Undisturbed, Accepted, Fresh
<1> QED
    BY <1>4, <1>5, <1>6 DEF IndInv

LEMMA LookupInd ==
    ASSUME IndInv, NEW t \in Threads, Lookup(t)
    PROVE  IndInv'
<1> USE DEF IndInv, Typed
<1>1. PICK p \in Paths :
        /\ cache' = LRU!Touched(p)
        /\ path' = [path EXCEPT ![t] = p]
        /\ answer' = [answer EXCEPT ![t] = LRU!Value(p)]
    BY DEF Lookup
<1>2. LRU!Value(p) \in Answers \cup {NoAnswer}
  <2>1. CASE LRU!At(p) = {}
      BY <2>1 DEF LRU!Value
  <2>2. CASE LRU!At(p) # {}
    <3>1. PICK k \in 1 .. Len(cache) : LRU!Value(p) = cache[k].val
        BY <2>2 DEF LRU!Value, LRU!At
    <3>2. cache[k] \in [key : Paths, val : Answers]
        BY <3>1, ElementOfSeq DEF Entries
    <3> QED
        BY <3>1, <3>2
  <2> QED
      BY <2>1, <2>2
<1>3. pc' = [pc EXCEPT ![t] = IF LRU!Value(p) = NoAnswer THEN "missed" ELSE "answering"]
    BY <1>1 DEF Lookup, TypeOK
<1>4. /\ cache' \in Seq(Entries) /\ Len(cache') = Len(cache)
      /\ \A i \in 1 .. Len(cache) : \E j \in 1 .. Len(cache) : cache'[i] = cache[j]
      /\ \A i, j \in 1 .. Len(cache) : cache'[i].key = cache'[j].key => i = j
    BY <1>1, TouchedPermutes
<1>5. OneEach'
    BY <1>4 DEF OneEach
<1>6. DOMAIN cache' = 1 .. Len(cache) /\ DOMAIN cache = 1 .. Len(cache)
    BY <1>4, LenProperties
<1>7. TypeOK'
    BY <1>1, <1>2, <1>3, <1>4, EntriesTyped DEF Lookup, TypeOK, InSearch
<1>8. SaveTyped' /\ DOMAIN save' = DOMAIN save
    BY SaveFrame DEF Lookup
<1>9. Bounded'
  <2>1. Rebuilders' = Rebuilders
      BY <1>3 DEF Lookup, TypeOK, Rebuilders
  <2> QED
      BY <2>1, BoundedFrame DEF Lookup
<1>10. Typed'
    BY <1>1, <1>3, <1>4, <1>7, <1>8, <1>9 DEF Lookup, TypeOK, InSearch
<1>11. Undisturbed'
  <2>1. OthersStay(t)
      BY <1>1, <1>3 DEF Lookup, TypeOK, OthersStay
  <2>2. ThreadLocalStrtok => qParam[t] = NoQuery /\ page[t] = FirstPage
      BY DEF Undisturbed, Lookup, Unparsed
  <2>3. pc'[t] \in {"missed", "answering"}
      BY <1>3 DEF TypeOK
  <2> QED
      BY <1>8, <2>1, <2>2, <2>3, UndisturbedStep DEF Lookup
<1>12. Accepted' /\ Fresh'
    BY <1>3 DEF Lookup, TypeOK, Accepted, Fresh, Rejected, clearHistory
<1>13. EntryMatchesPath'
  <2> SUFFICES ASSUME ThreadLocalStrtok, NEW i \in 1 .. Len(cache)
               PROVE  /\ cache'[i].val.q = Chosen(cache'[i].key, "q", NoQuery)
                      /\ cache'[i].val.page = Chosen(cache'[i].key, "page", FirstPage)
                      /\ cache'[i].val.q \notin BadQueries \cup {NoQuery}
      BY <1>6, <1>8, SlotFrame DEF EntryMatchesPath, EntryIsForPath
  <2>1. PICK j \in DOMAIN cache : cache'[i] = cache[j]
      BY <1>4, <1>6
  <2> QED
      BY <2>1 DEF EntryMatchesPath, EntryIsForPath
<1>14. NothingOlderThanClear'
    BY <1>4, <1>6 DEF NothingOlderThanClear, Lookup, clearHistory
<1> QED
    BY <1>5, <1>10, <1>11, <1>12, <1>13, <1>14

\* What a token leaves in q_param and page is of their types, and one more turn of
\* the loop where the rest of it is undisturbed.
LEMMA TakeTyped ==
    ASSUME TypeOK, NEW t \in Threads, NEW param \in Params, Take(t, param)
    PROVE  /\ qParam' \in [Threads -> Queries \cup {NoQuery}]
           /\ page' \in [Threads -> Pages]
           /\ \A u \in Threads \ {t} : qParam'[u] = qParam[u] /\ page'[u] = page[u]
           /\ qParam'[t] = IF param.name = "q" THEN param.value ELSE qParam[t]
           /\ page'[t] = IF param.name = "page" THEN param.value ELSE page[t]
<1>1. param.name = "q" => param.value \in Queries
    BY DEF Params
<1>2. param.name = "page" => param.value \in Pages
    BY DEF Params
<1> QED
    BY <1>1, <1>2 DEF Take, TypeOK

\* Parameter k + 1 is taken after the first k.
LEMMA TakeNext ==
    ASSUME NEW t \in Threads, NEW p \in Seq(Params), NEW k \in 0 .. Len(p) - 1,
           TypeOK, Take(t, p[k + 1]),
           qParam[t] = ChosenOf(p, k, "q", NoQuery),
           page[t] = ChosenOf(p, k, "page", FirstPage)
    PROVE  /\ qParam'[t] = ChosenOf(p, k + 1, "q", NoQuery)
           /\ page'[t] = ChosenOf(p, k + 1, "page", FirstPage)
<1>1. p[k + 1] \in Params /\ k \in Nat
    OBVIOUS
<1> QED
    BY <1>1, TakeTyped, ChosenStep

LEMMA StrtokFirstInd ==
    ASSUME IndInv, NEW t \in Threads, StrtokFirst(t)
    PROVE  IndInv'
<1> USE DEF IndInv, Typed
<1> DEFINE p == path[t]
<1>1. p \in Seq(Params) /\ Slot(t) \in DOMAIN save
    BY PathsAreParams DEF StrtokFirst, InSearch, SaveTyped
<1>2. save' = [save EXCEPT ![Slot(t)] =
                [owner |-> t, rest |-> IF p = <<>> THEN <<>> ELSE Tail(p)]]
    BY DEF StrtokFirst
<1>3. pc' = [pc EXCEPT ![t] = IF p = <<>> THEN "parsed" ELSE "parsing"]
    BY DEF StrtokFirst
<1>4. /\ qParam' \in [Threads -> Queries \cup {NoQuery}]
      /\ page' \in [Threads -> Pages]
      /\ \A u \in Threads \ {t} : qParam'[u] = qParam[u] /\ page'[u] = page[u]
  <2>1. CASE p = <<>>
      BY <2>1 DEF StrtokFirst, TypeOK
  <2>2. CASE p # <<>>
    <3>1. Head(p) \in Params
        BY <1>1, <2>2, HeadTailProperties
    <3> QED
        BY <2>2, <3>1, TakeTyped DEF StrtokFirst
  <2> QED
      BY <2>1, <2>2
<1>5. TypeOK'
    BY <1>3, <1>4 DEF StrtokFirst, TypeOK, InSearch
<1>6. SaveTyped' /\ DOMAIN save' = DOMAIN save
  <2>1. (IF p = <<>> THEN <<>> ELSE Tail(p)) \in Seq(Params)
      BY <1>1, HeadTailProperties
  <2>2. DOMAIN save' = DOMAIN save
      BY <1>2
  <2>3. save' \in [DOMAIN save -> [owner : Threads, rest : Seq(Params)]]
      BY <1>1, <1>2, <2>1 DEF SaveTyped
  <2> QED
      BY <2>2, <2>3, SlotFrame DEF SaveTyped
<1>7. Bounded'
  <2>1. Rebuilders' = Rebuilders
      BY <1>3 DEF StrtokFirst, TypeOK, Rebuilders
  <2> QED
      BY <2>1, BoundedFrame DEF StrtokFirst
<1>8. Typed'
    BY <1>3, <1>5, <1>6, <1>7 DEF StrtokFirst, TypeOK, InSearch
<1>9. Undisturbed'
  <2>1. OthersStay(t)
      BY <1>3, <1>4 DEF StrtokFirst, TypeOK, OthersStay
  <2>2. ASSUME ThreadLocalStrtok
        PROVE  /\ \A u \in Threads \ {t} : save'[u] = save[u]
               /\ pc'[t] \in Unparsed => qParam'[t] = NoQuery /\ page'[t] = FirstPage
               /\ pc'[t] = "parsing" => \E k \in 1 .. Len(path'[t]) : Parsing(t, k)'
               /\ pc'[t] \in {"parsed", "evaluating"} => Parsed(t)'
    <3>1. Slot(t) = t
        BY <2>2 DEF Slot
    <3>2. qParam[t] = NoQuery /\ page[t] = FirstPage
        BY <2>2 DEF Undisturbed, Unparsed, StrtokFirst
    <3>3. /\ ChosenOf(p, 0, "q", NoQuery) = NoQuery
          /\ ChosenOf(p, 0, "page", FirstPage) = FirstPage
          /\ ChosenOf(p, Len(p), "q", NoQuery) = Chosen(p, "q", NoQuery)
          /\ ChosenOf(p, Len(p), "page", FirstPage) = Chosen(p, "page", FirstPage)
        BY <1>1, ChosenEnds
    <3>4. path'[t] = p
        BY DEF StrtokFirst
    <3>5. CASE p = <<>>
      <4>1. qParam'[t] = NoQuery /\ page'[t] = FirstPage /\ Len(p) = 0
          BY <3>2, <3>5 DEF StrtokFirst
      <4>2. Parsed(t)'
          BY <3>3, <3>4, <4>1 DEF Parsed
      <4> QED
          BY <1>2, <1>3, <3>1, <3>5, <4>2 DEF TypeOK, Unparsed
    <3>6. CASE p # <<>>
      <4>1. Head(p) = p[1] /\ Len(p) >= 1 /\ Tail(p) = SubSeq(p, 2, Len(p))
          BY <1>1, <3>6, TailIsSubSeq
      <4>2. /\ qParam'[t] = ChosenOf(p, 1, "q", NoQuery)
            /\ page'[t] = ChosenOf(p, 1, "page", FirstPage)
        <5>1. Take(t, p[0 + 1]) /\ 0 \in 0 .. Len(p) - 1
            BY <1>1, <3>6, <4>1 DEF StrtokFirst
        <5>2. /\ qParam'[t] = ChosenOf(p, 0 + 1, "q", NoQuery)
              /\ page'[t] = ChosenOf(p, 0 + 1, "page", FirstPage)
            BY <1>1, <3>2, <3>3, <5>1, TakeNext
        <5> QED
            BY <5>2
      <4>3. save'[t] = [owner |-> t, rest |-> SubSeq(p, 1 + 1, Len(p))]
        <5>1. save'[t] = [owner |-> t, rest |-> Tail(p)]
            BY <1>1, <1>2, <3>1, <3>6
        <5>2. 1 + 1 = 2
            OBVIOUS
        <5> QED
            BY <4>1, <5>1, <5>2, Zenon
      <4>4. Parsing(t, 1)'
          BY <3>4, <4>2, <4>3 DEF Parsing
      <4>5. 1 \in 1 .. Len(path'[t])
          BY <1>1, <3>4, <4>1
      <4> QED
          BY <1>2, <1>3, <3>1, <3>6, <4>4, <4>5 DEF TypeOK, Unparsed
    <3> QED
        BY <3>5, <3>6
  <2> QED
      BY <1>6, <2>1, <2>2, UndisturbedStep
<1>10. Accepted' /\ Fresh'
    BY <1>3, <1>4 DEF StrtokFirst, TypeOK, Accepted, Fresh, Rejected, clearHistory
<1>11. OneEach' /\ EntryMatchesPath' /\ NothingOlderThanClear'
    BY <1>6, CacheFrame DEF StrtokFirst, clearHistory
<1> QED
    BY <1>8, <1>9, <1>10, <1>11

LEMMA StrtokNextInd ==
    ASSUME IndInv, NEW t \in Threads, StrtokNext(t)
    PROVE  IndInv'
<1> USE DEF IndInv, Typed
<1> DEFINE p == path[t]
           s == save[Slot(t)]
<1>1. p \in Seq(Params) /\ Slot(t) \in DOMAIN save /\ s \in [owner : Threads, rest : Seq(Params)]
    BY PathsAreParams DEF StrtokNext, InSearch, SaveTyped
<1>2. CASE /\ s.rest # <<>>
           /\ Take(t, Head(s.rest))
           /\ save' = [save EXCEPT ![Slot(t)].rest = Tail(s.rest)]
           /\ pc' = pc
  <2>1. Head(s.rest) \in Params /\ Tail(s.rest) \in Seq(Params)
      BY <1>1, <1>2, HeadTailProperties
  <2>2. TypeOK'
      BY <1>2, <2>1, TakeTyped DEF StrtokNext, TypeOK
  <2>3. SaveTyped' /\ DOMAIN save' = DOMAIN save
    <3>1. DOMAIN save' = DOMAIN save
        BY <1>2
    <3>2. save' \in [DOMAIN save -> [owner : Threads, rest : Seq(Params)]]
        BY <1>1, <1>2, <2>1 DEF SaveTyped
    <3> QED
        BY <3>1, <3>2, SlotFrame DEF SaveTyped
  <2>4. Rebuilders' = Rebuilders
      BY <1>2 DEF Rebuilders
  <2>5. Typed'
      BY <1>2, <2>2, <2>3, <2>4, BoundedFrame DEF StrtokNext
  <2>6. Undisturbed'
    <3>1. OthersStay(t)
        BY <1>2, <2>1, TakeTyped DEF StrtokNext, OthersStay
    <3>2. ASSUME ThreadLocalStrtok
          PROVE  /\ \A u \in Threads \ {t} : save'[u] = save[u]
                 /\ \E k \in 1 .. Len(path'[t]) : Parsing(t, k)'
      <4>1. Slot(t) = t
          BY <3>2 DEF Slot
      <4>2. PICK k \in 1 .. Len(p) : Parsing(t, k)
          BY <3>2 DEF Undisturbed, StrtokNext
      <4>3. s.rest = SubSeq(p, k + 1, Len(p)) /\ s.owner = t
          BY <4>1, <4>2 DEF Parsing
      <4>4. k + 1 \in 1 .. Len(p)
        <5>1. CASE k = Len(p)
          <6>1. SubSeq(p, k + 1, Len(p)) = <<>>
              BY <1>1, <5>1, SubSeqEmpty
          <6> QED
              BY <1>2, <4>3, <6>1
        <5> QED
            BY <1>1, <5>1
      <4>5. Head(s.rest) = p[k + 1] /\ Tail(s.rest) = SubSeq(p, (k + 1) + 1, Len(p))
          BY <1>1, <4>3, <4>4, HeadTailOfSubSeq
      <4>6. /\ qParam'[t] = ChosenOf(p, k + 1, "q", NoQuery)
            /\ page'[t] = ChosenOf(p, k + 1, "page", FirstPage)
        <5>1. k \in 0 .. Len(p) - 1
            BY <1>1, <4>4
        <5>2. Take(t, p[k + 1])
            BY <1>2, <4>5
        <5> QED
            BY <1>1, <4>2, <5>1, <5>2, TakeNext DEF Parsing
      <4>7. save'[t] = [owner |-> t, rest |-> SubSeq(p, (k + 1) + 1, Len(p))]
          BY <1>1, <1>2, <4>1, <4>3, <4>5
      <4>8. path'[t] = p
          BY DEF StrtokNext
      <4>9. Parsing(t, k + 1)'
        <5>1. save'[t].owner = t /\ save'[t].rest = SubSeq(p, (k + 1) + 1, Len(p))
            BY <4>7
        <5> HIDE DEF p, s
        <5> QED
            BY <4>6, <4>8, <5>1 DEF Parsing
      <4> QED
          BY <1>2, <4>1, <4>4, <4>8, <4>9
    <3> QED
        BY <1>2, <2>3, <3>1, <3>2, UndisturbedStep DEF StrtokNext, Unparsed
  <2>7. Accepted' /\ Fresh'
      BY <1>2, <2>1, TakeTyped
      DEF StrtokNext, Accepted, Fresh, Rejected, clearHistory
  <2>8. OneEach' /\ EntryMatchesPath' /\ NothingOlderThanClear'
      BY <2>3, CacheFrame DEF StrtokNext, clearHistory
  <2> QED
      BY <2>5, <2>6, <2>7, <2>8
<1>3. CASE /\ Dangling(s, t)
           /\ \E q \in Paths : \E i \in DOMAIN q : Take(t, q[i])
           /\ save' = [save EXCEPT ![Slot(t)] = [owner |-> t, rest |-> <<>>]]
           /\ pc' = pc
  <2>1. PICK q \in Paths : \E i \in DOMAIN q : Take(t, q[i])
      BY <1>3
  <2>2. PICK i \in DOMAIN q : Take(t, q[i])
      BY <2>1
  <2>3. q[i] \in Params
    <3>1. q \in Seq(Params)
        BY PathsAreParams
    <3> QED
        BY <3>1
  <2>4. TypeOK'
      BY <1>3, <2>2, <2>3, TakeTyped DEF StrtokNext, TypeOK
  <2>5. SaveTyped' /\ DOMAIN save' = DOMAIN save
    <3>1. DOMAIN save' = DOMAIN save
        BY <1>3
    <3>2. save' \in [DOMAIN save -> [owner : Threads, rest : Seq(Params)]]
        BY <1>1, <1>3 DEF SaveTyped
    <3> QED
        BY <3>1, <3>2, SlotFrame DEF SaveTyped
  <2>6. Rebuilders' = Rebuilders
      BY <1>3 DEF Rebuilders
  <2>7. Typed'
      BY <1>3, <2>4, <2>5, <2>6, BoundedFrame DEF StrtokNext
  <2>8. ~ThreadLocalStrtok
    <3>1. ThreadLocalStrtok => Slot(t) = t
        BY DEF Slot
    <3>2. ThreadLocalStrtok => save[t].owner = t
        BY DEF Undisturbed, Parsing, StrtokNext
    <3> QED
        BY <1>3, <3>1, <3>2 DEF Dangling
  <2>9. Undisturbed'
      BY <2>5, <2>8, SlotFrame DEF Undisturbed
  <2>10. Accepted' /\ Fresh'
      BY <1>3, <2>2, <2>3, TakeTyped
      DEF StrtokNext, Accepted, Fresh, Rejected, clearHistory
  <2>11. OneEach' /\ EntryMatchesPath' /\ NothingOlderThanClear'
      BY <2>5, CacheFrame DEF StrtokNext, clearHistory
  <2> QED
      BY <2>7, <2>9, <2>10, <2>11
<1>4. CASE /\ s.rest = <<>>
           /\ pc' = [pc EXCEPT ![t] = "parsed"]
           /\ UNCHANGED <<qParam, page, save>>
  <2>1. TypeOK'
      BY <1>4 DEF StrtokNext, TypeOK, InSearch
  <2>2. SaveTyped' /\ DOMAIN save' = DOMAIN save
      BY <1>4, SaveFrame
  <2>3. Rebuilders' = Rebuilders
      BY <1>4 DEF StrtokNext, TypeOK, Rebuilders
  <2>4. Typed'
      BY <1>4, <2>1, <2>2, <2>3, BoundedFrame DEF StrtokNext, TypeOK, InSearch
  <2>5. Undisturbed'
    <3>1. OthersStay(t)
        BY <1>4 DEF StrtokNext, TypeOK, OthersStay
    <3>2. ASSUME ThreadLocalStrtok PROVE Parsed(t)'
      <4>1. Slot(t) = t
          BY <3>2 DEF Slot
      <4>2. PICK k \in 1 .. Len(p) : Parsing(t, k)
          BY <3>2 DEF Undisturbed, StrtokNext
      <4>3. SubSeq(p, k + 1, Len(p)) = <<>>
          BY <1>4, <4>1, <4>2 DEF Parsing
      <4>4. k = Len(p)
        <5>1. \A i \in k + 1 .. Len(p) : p[i] \in Params
            BY <1>1
        <5>2. Len(SubSeq(p, k + 1, Len(p))) = IF k + 1 <= Len(p) THEN Len(p) - (k + 1) + 1 ELSE 0
            BY <1>1, <5>1, SubSeqProperties
        <5>3. k \in Int /\ Len(p) \in Nat /\ k <= Len(p)
            BY <1>1
        <5>4. Len(<<>>) = 0
            OBVIOUS
        <5>5. 0 = IF k + 1 <= Len(p) THEN Len(p) - (k + 1) + 1 ELSE 0
            BY <4>3, <5>2, <5>4, Zenon
        <5> HIDE DEF p
        <5> QED
            BY <5>3, <5>5
      <4>5. /\ ChosenOf(p, Len(p), "q", NoQuery) = Chosen(p, "q", NoQuery)
            /\ ChosenOf(p, Len(p), "page", FirstPage) = Chosen(p, "page", FirstPage)
          BY <1>1, ChosenEnds
      <4> QED
          BY <1>4, <4>2, <4>4, <4>5 DEF StrtokNext, Parsing, Parsed
    <3>3. pc'[t] = "parsed"
        BY <1>4 DEF TypeOK
    <3> QED
        BY <1>4, <2>2, <3>1, <3>2, <3>3, UndisturbedStep DEF Unparsed
  <2>6. Accepted' /\ Fresh'
      BY <1>4 DEF StrtokNext, TypeOK, Accepted, Fresh, Rejected, clearHistory
  <2>7. OneEach' /\ EntryMatchesPath' /\ NothingOlderThanClear'
      BY <2>2, CacheFrame DEF StrtokNext, clearHistory
  <2> QED
      BY <2>4, <2>5, <2>6, <2>7
<1> QED
    BY <1>2, <1>3, <1>4 DEF StrtokNext

\* The worker's locals after a request are those of an idle worker.
LEMMA FinishTyped ==
    ASSUME TypeOK, NEW t \in Threads, Finish(t), UNCHANGED <<cache, version, building>>
    PROVE  TypeOK' /\ OthersStay(t) /\ Rebuilders' \subseteq Rebuilders
<1>1. NoQuery \in Queries \cup {NoQuery} /\ FirstPage \in Pages /\ 0 \in 0 .. MaxVersion
    BY Distinct, VersionsNat
<1>2. TypeOK'
    BY <1>1 DEF Finish, TypeOK
<1>3. OthersStay(t)
    BY DEF Finish, TypeOK, OthersStay
<1> QED
    BY <1>2, <1>3 DEF Finish, TypeOK, Rebuilders

LEMMA FinishInd ==
    ASSUME IndInv, NEW t \in Threads, BadRequest(t) \/ Respond(t)
    PROVE  IndInv'
<1> USE DEF IndInv, Typed
<1>1. Finish(t) /\ UNCHANGED <<save, cache, version, building, clearVersion, refilled>>
    BY DEF BadRequest, Respond, clearHistory
<1>2. TypeOK' /\ OthersStay(t)
    BY <1>1, FinishTyped
<1>3. SaveTyped' /\ DOMAIN save' = DOMAIN save
    BY <1>1, SaveFrame
<1>4. Rebuilders' = Rebuilders
    BY <1>1 DEF BadRequest, Respond, Finish, TypeOK, Rebuilders
<1>5. Typed'
    BY <1>1, <1>2, <1>3, <1>4, BoundedFrame DEF Finish, TypeOK, InSearch
<1>6. pc'[t] = "idle" /\ qParam'[t] = NoQuery /\ page'[t] = FirstPage
    BY <1>1 DEF Finish, TypeOK
<1>7. Undisturbed'
    BY <1>1, <1>2, <1>3, <1>6, UndisturbedStep
<1>8. Accepted'
    BY <1>2, <1>6 DEF OthersStay, Accepted, Rejected
<1>9. Fresh'
  <2>1. \A u \in Threads \ {t} : u \notin laggards' => u \notin laggards /\ snapshot'[u] = snapshot[u]
      BY <1>1 DEF BadRequest, Respond, Finish, TypeOK, clearHistory
  <2> QED
      BY <1>1, <1>2, <1>6, <2>1 DEF OthersStay, Fresh
<1>10. OneEach' /\ EntryMatchesPath' /\ NothingOlderThanClear'
    BY <1>1, <1>3, CacheFrame
<1> QED
    BY <1>5, <1>7, <1>8, <1>9, <1>10

LEMMA AcquireInd ==
    ASSUME IndInv, NEW t \in Threads, Acquire(t)
    PROVE  IndInv'
<1> USE DEF IndInv, Typed
<1>1. TypeOK'
    BY DEF Acquire, TypeOK, InSearch
<1>2. SaveTyped' /\ DOMAIN save' = DOMAIN save
    BY SaveFrame DEF Acquire
<1>3. Rebuilders' = Rebuilders
    BY DEF Acquire, TypeOK, Rebuilders
<1>4. Typed'
    BY <1>1, <1>2, <1>3, BoundedFrame DEF Acquire, TypeOK, InSearch
<1>5. Undisturbed'
  <2>1. OthersStay(t) /\ pc'[t] = "evaluating"
      BY DEF Acquire, TypeOK, OthersStay
  <2>2. ThreadLocalStrtok => Parsed(t)'
      BY DEF Acquire, Undisturbed, Parsed
  <2> QED
      BY <1>2, <2>1, <2>2, UndisturbedStep DEF Acquire, Unparsed
<1>6. Accepted' /\ Fresh'
    BY DEF Acquire, TypeOK, Accepted, Fresh, Rejected, clearHistory
<1>7. OneEach' /\ EntryMatchesPath' /\ NothingOlderThanClear'
    BY <1>2, CacheFrame DEF Acquire, clearHistory
<1> QED
    BY <1>4, <1>5, <1>6, <1>7

LEMMA StoreInd ==
    ASSUME IndInv, NEW t \in Threads, Store(t)
    PROVE  IndInv'
<1> USE DEF IndInv, Typed
<1> DEFINE p == path[t]
           a == [q |-> qParam[t], page |-> page[t], version |-> snapshot[t]]
           e == [key |-> p, val |-> a]
<1>1. p \in Paths /\ ~Rejected(qParam[t]) /\ pc[t] = "evaluating"
    BY DEF Store, InSearch, Accepted
<1>2. a \in Answers /\ qParam[t] \in Queries
    BY <1>1 DEF TypeOK, Answers, Rejected
<1>3. a # NoAnswer
    BY <1>2, Distinct DEF Answers
<1>4. cache' = LRU!Stored(p, a) /\ Len(cache) <= Capacity
    BY DEF Store, TypeOK
<1> HIDE DEF a
<1>5. /\ cache' \in Seq(Entries) /\ Len(cache') <= Capacity
      /\ \A i \in 1 .. Len(cache') :
            \/ cache'[i] = e
            \/ cache'[i].key # p /\ \E j \in 1 .. Len(cache) : cache'[i] = cache[j]
      /\ \A i, j \in 1 .. Len(cache') : cache'[i].key = cache'[j].key => i = j
  <2>1. p \in Paths /\ cache \in Seq(Entries) /\ OneEach /\ Len(cache) <= Capacity
      BY <1>1, <1>4
  <2> HIDE DEF p
  <2>2. LET new == LRU!Stored(p, a) IN
        /\ new \in Seq(Entries) /\ Len(new) <= Capacity
        /\ \A i \in 1 .. Len(new) :
             \/ new[i] = [key |-> p, val |-> a]
             \/ new[i].key # p /\ \E j \in 1 .. Len(cache) : new[i] = cache[j]
        /\ \A i, j \in 1 .. Len(new) : new[i].key = new[j].key => i = j
      BY <1>2, <2>1, StoredElsewhere
  <2> QED
      BY <1>4, <2>2, Zenon
<1>6. DOMAIN cache' = 1 .. Len(cache') /\ DOMAIN cache = 1 .. Len(cache)
    BY <1>5, LenProperties
<1>7. OneEach'
    BY <1>5 DEF OneEach
<1>8. answer' = [answer EXCEPT ![t] = a] /\ pc' = [pc EXCEPT ![t] = "answering"]
    BY DEF Store, a
<1>9. TypeOK'
    BY <1>2, <1>3, <1>5, <1>8, EntriesTyped DEF Store, TypeOK
<1>10. SaveTyped' /\ DOMAIN save' = DOMAIN save
    BY SaveFrame DEF Store
<1>11. Rebuilders' = Rebuilders
    BY <1>1, <1>8 DEF TypeOK, Rebuilders
<1>12. Typed'
    BY <1>5, <1>8, <1>9, <1>10, <1>11, BoundedFrame DEF Store, TypeOK, InSearch
<1>13. Undisturbed'
  <2>1. OthersStay(t) /\ pc'[t] = "answering"
      BY <1>8 DEF Store, TypeOK, OthersStay
  <2> QED
      BY <1>10, <2>1, UndisturbedStep DEF Store, Unparsed
<1>14. Accepted' /\ Fresh'
    BY <1>8 DEF Store, TypeOK, Accepted, Fresh, Rejected
<1>15. EntryMatchesPath'
  <2> SUFFICES ASSUME ThreadLocalStrtok, NEW i \in 1 .. Len(cache')
               PROVE  /\ cache'[i].val.q = Chosen(cache'[i].key, "q", NoQuery)
                      /\ cache'[i].val.page = Chosen(cache'[i].key, "page", FirstPage)
                      /\ cache'[i].val.q \notin BadQueries \cup {NoQuery}
      BY <1>6, <1>10, SlotFrame DEF EntryMatchesPath, EntryIsForPath
  <2>1. CASE cache'[i] = e
    <3>1. Parsed(t)
        BY <1>1 DEF Undisturbed
    <3> QED
        BY <1>1, <2>1, <3>1 DEF Parsed, Rejected, a
  <2>2. CASE cache'[i] # e
    <3>1. PICK j \in DOMAIN cache : cache'[i] = cache[j]
        BY <1>5, <1>6, <2>2
    <3> QED
        BY <3>1 DEF EntryMatchesPath, EntryIsForPath
  <2> QED
      BY <2>1, <2>2
<1>16. NothingOlderThanClear'
  <2> SUFFICES ASSUME NEW i \in 1 .. Len(cache'), cache'[i].key \notin refilled'
               PROVE  cache'[i].val.version >= clearVersion
      BY <1>6 DEF NothingOlderThanClear, Store
  <2>1. CASE cache'[i] = e
    <3>1. t \notin laggards
        BY <2>1 DEF Store
    <3>2. snapshot[t] >= clearVersion
        BY <1>1, <3>1 DEF Fresh
    <3> QED
        BY <2>1, <3>2 DEF a
  <2>2. CASE cache'[i] # e
    <3>1. cache'[i].key # p /\ \E j \in DOMAIN cache : cache'[i] = cache[j]
        BY <1>5, <1>6, <2>2
    <3>2. PICK j \in DOMAIN cache : cache'[i] = cache[j]
        BY <3>1
    <3>3. cache[j].key \notin refilled
        BY <3>1, <3>2 DEF Store
    <3> QED
        BY <3>2, <3>3 DEF NothingOlderThanClear
  <2> QED
      BY <2>1, <2>2
<1> QED
    BY <1>7, <1>12, <1>13, <1>14, <1>15, <1>16

\* A step of a rebuild touches no search.
LEMMA RebuildFrame ==
    ASSUME IndInv, NEW t \in Threads, UNCHANGED <<local, save>>,
           pc[t] \in Unparsed, \E l \in Unparsed \ {"missed"} : pc' = [pc EXCEPT ![t] = l]
    PROVE  /\ SaveTyped' /\ Undisturbed' /\ Accepted'
           /\ DOMAIN save' = DOMAIN save
           /\ \A u \in Threads : pc'[u] \in InSearch => path'[u] \in Paths
           /\ \A u \in Threads : answer'[u] # NoAnswer <=> pc'[u] = "answering"
<1> USE DEF IndInv, Typed, local
<1>1. PICK l \in Unparsed \ {"missed"} : pc' = [pc EXCEPT ![t] = l]
    OBVIOUS
<1>2. SaveTyped' /\ DOMAIN save' = DOMAIN save
    BY SaveFrame
<1>3. OthersStay(t) /\ pc'[t] \in Unparsed \ {"missed"}
    BY <1>1 DEF OthersStay, TypeOK
<1>4. Undisturbed'
  <2>1. ThreadLocalStrtok => qParam[t] = NoQuery /\ page[t] = FirstPage
      BY DEF Undisturbed
  <2>2. pc'[t] \notin {"parsing", "parsed", "evaluating"}
      BY <1>3 DEF Unparsed
  <2> QED
      BY <1>2, <1>3, <2>1, <2>2, UndisturbedStep
<1>5. Accepted'
    BY <1>3 DEF OthersStay, Accepted, Rejected, Unparsed
<1>6. \A u \in Threads : pc'[u] \in InSearch => path'[u] \in Paths
    BY <1>1 DEF TypeOK, Unparsed, InSearch
<1>7. \A u \in Threads : answer'[u] # NoAnswer <=> pc'[u] = "answering"
    BY <1>1 DEF TypeOK, Unparsed
<1> QED
    BY <1>2, <1>4, <1>5, <1>6, <1>7

LEMMA RebuildCheckInd ==
    ASSUME IndInv, NEW t \in Threads, RebuildCheck(t)
    PROVE  IndInv'
<1> USE DEF IndInv, Typed
<1>1. /\ pc' = [pc EXCEPT ![t] = "starting"] /\ pc[t] = "idle"
      /\ UNCHANGED <<local, save, cache, version, building, clearVersion, laggards, refilled>>
      /\ version + Cardinality(Rebuilders) < MaxVersion
    BY DEF RebuildCheck, clearHistory, Rebuilders
<1>2. "starting" \in Unparsed \ {"missed"} /\ "idle" \in Unparsed
    BY DEF Unparsed
<1>3. /\ SaveTyped' /\ Undisturbed' /\ Accepted'
      /\ DOMAIN save' = DOMAIN save
      /\ \A u \in Threads : pc'[u] \in InSearch => path'[u] \in Paths
      /\ \A u \in Threads : answer'[u] # NoAnswer <=> pc'[u] = "answering"
    BY <1>1, <1>2, RebuildFrame
<1>4. TypeOK'
    BY <1>1, <1>3 DEF TypeOK, local
<1>5. Bounded'
  <2>1. Rebuilders' = Rebuilders \cup {t} /\ t \notin Rebuilders
      BY <1>1 DEF TypeOK, Rebuilders
  <2>2. Cardinality(Rebuilders') = Cardinality(Rebuilders) + 1
      BY <2>1, PoolCounted, FS_AddElement
  <2> QED
      BY <1>1, <2>2, PoolCounted, VersionsNat DEF Bounded, TypeOK
<1>6. Fresh'
    BY <1>1 DEF Fresh, TypeOK, local
<1>7. OneEach' /\ EntryMatchesPath' /\ NothingOlderThanClear'
    BY <1>1, <1>3, CacheFrame
<1> QED
    BY <1>1, <1>3, <1>4, <1>5, <1>6, <1>7

LEMMA RebuildStartInd ==
    ASSUME IndInv, NEW t \in Threads, RebuildStart(t)
    PROVE  IndInv'
<1> USE DEF IndInv, Typed
<1>1. /\ pc' = [pc EXCEPT ![t] = "clearing"] /\ pc[t] = "starting" /\ building' = TRUE
      /\ UNCHANGED <<local, save, cache, version, clearVersion, laggards, refilled>>
    BY DEF RebuildStart, clearHistory
<1>2. "clearing" \in Unparsed \ {"missed"} /\ "starting" \in Unparsed
    BY DEF Unparsed
<1>3. /\ SaveTyped' /\ Undisturbed' /\ Accepted'
      /\ DOMAIN save' = DOMAIN save
      /\ \A u \in Threads : pc'[u] \in InSearch => path'[u] \in Paths
      /\ \A u \in Threads : answer'[u] # NoAnswer <=> pc'[u] = "answering"
    BY <1>1, <1>2, RebuildFrame
<1>4. TypeOK'
    BY <1>1, <1>3 DEF TypeOK, local
<1>5. Bounded'
  <2>1. Rebuilders' = Rebuilders
      BY <1>1 DEF TypeOK, Rebuilders
  <2> QED
      BY <1>1, <2>1, BoundedFrame
<1>6. Fresh'
    BY <1>1 DEF Fresh, TypeOK, local
<1>7. OneEach' /\ EntryMatchesPath' /\ NothingOlderThanClear'
    BY <1>1, <1>3, CacheFrame
<1> QED
    BY <1>1, <1>3, <1>4, <1>5, <1>6, <1>7

LEMMA RebuildClearInd ==
    ASSUME IndInv, NEW t \in Threads, RebuildClear(t)
    PROVE  IndInv'
<1> USE DEF IndInv, Typed
<1>1. /\ pc' = [pc EXCEPT ![t] = "building"] /\ pc[t] = "clearing"
      /\ cache' = <<>> /\ clearVersion' = version
      /\ laggards' = {u \in Threads : pc[u] \in InSearch}
      /\ UNCHANGED <<local, save, version, building>>
    BY DEF RebuildClear, CacheCleared
<1>2. "building" \in Unparsed \ {"missed"} /\ "clearing" \in Unparsed
    BY DEF Unparsed
<1>3. /\ SaveTyped' /\ Undisturbed' /\ Accepted'
      /\ \A u \in Threads : pc'[u] \in InSearch => path'[u] \in Paths
      /\ \A u \in Threads : answer'[u] # NoAnswer <=> pc'[u] = "answering"
    BY <1>1, <1>2, RebuildFrame
<1>4. cache' \in Seq(Entries) /\ Len(cache') = 0 /\ DOMAIN cache' = {}
    BY <1>1
<1>5. TypeOK'
    BY <1>1, <1>3, <1>4, CapacityPos DEF TypeOK, local
<1>6. Bounded'
  <2>1. Rebuilders' = Rebuilders
      BY <1>1 DEF TypeOK, Rebuilders
  <2> QED
      BY <1>1, <2>1, BoundedFrame
<1>7. Fresh'
    BY <1>1 DEF Fresh, TypeOK, InSearch
<1>8. OneEach' /\ EntryMatchesPath' /\ NothingOlderThanClear'
    BY <1>4 DEF OneEach, EntryMatchesPath, EntryIsForPath, NothingOlderThanClear
<1> QED
    BY <1>3, <1>4, <1>5, <1>6, <1>7, <1>8

LEMMA RebuildSwapInd ==
    ASSUME IndInv, NEW t \in Threads, RebuildSwap(t)
    PROVE  IndInv'
<1> USE DEF IndInv, Typed
<1>1. /\ pc' = [pc EXCEPT ![t] = "saving"] /\ pc[t] = "building" /\ version' = version + 1
      /\ UNCHANGED <<local, save, cache, building, clearVersion, laggards, refilled>>
    BY DEF RebuildSwap, clearHistory
<1>2. "saving" \in Unparsed \ {"missed"} /\ "building" \in Unparsed
    BY DEF Unparsed
<1>3. /\ SaveTyped' /\ Undisturbed' /\ Accepted'
      /\ DOMAIN save' = DOMAIN save
      /\ \A u \in Threads : pc'[u] \in InSearch => path'[u] \in Paths
      /\ \A u \in Threads : answer'[u] # NoAnswer <=> pc'[u] = "answering"
    BY <1>1, <1>2, RebuildFrame
<1>4. Rebuilders' = Rebuilders \ {t} /\ t \in Rebuilders
    BY <1>1 DEF TypeOK, Rebuilders
<1>5. /\ Cardinality(Rebuilders') = Cardinality(Rebuilders) - 1
      /\ Cardinality(Rebuilders') \in Nat /\ Cardinality(Rebuilders) \in Nat
    BY <1>4, PoolCounted, FS_RemoveElement, FS_CardinalityType
<1>6. Bounded' /\ version' \in 0 .. MaxVersion
    BY <1>1, <1>5, VersionsNat DEF Bounded, TypeOK
<1>7. TypeOK'
    BY <1>1, <1>3, <1>6 DEF TypeOK, local
<1>8. Fresh'
    BY <1>1 DEF Fresh, TypeOK, local
<1>9. OneEach' /\ EntryMatchesPath' /\ NothingOlderThanClear'
    BY <1>1, <1>3, CacheFrame
<1> QED
    BY <1>1, <1>3, <1>6, <1>7, <1>8, <1>9

LEMMA RebuildDoneInd ==
    ASSUME IndInv, NEW t \in Threads, RebuildDone(t)
    PROVE  IndInv'
<1> USE DEF IndInv, Typed
<1>1. /\ pc' = [pc EXCEPT ![t] = "idle"] /\ pc[t] = "saving" /\ building' = FALSE
      /\ UNCHANGED <<local, save, cache, version, clearVersion, laggards, refilled>>
    BY DEF RebuildDone, clearHistory
<1>2. "idle" \in Unparsed \ {"missed"} /\ "saving" \in Unparsed
    BY DEF Unparsed
<1>3. /\ SaveTyped' /\ Undisturbed' /\ Accepted'
      /\ DOMAIN save' = DOMAIN save
      /\ \A u \in Threads : pc'[u] \in InSearch => path'[u] \in Paths
      /\ \A u \in Threads : answer'[u] # NoAnswer <=> pc'[u] = "answering"
    BY <1>1, <1>2, RebuildFrame
<1>4. TypeOK'
    BY <1>1, <1>3 DEF TypeOK, local
<1>5. Bounded'
  <2>1. Rebuilders' = Rebuilders
      BY <1>1 DEF TypeOK, Rebuilders
  <2> QED
      BY <1>1, <2>1, BoundedFrame
<1>6. Fresh'
    BY <1>1 DEF Fresh, TypeOK, local
<1>7. OneEach' /\ EntryMatchesPath' /\ NothingOlderThanClear'
    BY <1>1, <1>3, CacheFrame
<1> QED
    BY <1>1, <1>3, <1>4, <1>5, <1>6, <1>7

LEMMA StutterInd == IndInv /\ UNCHANGED vars => IndInv'
<1> SUFFICES ASSUME IndInv, UNCHANGED vars PROVE IndInv'
    OBVIOUS
<1> USE DEF IndInv, Typed, vars
<1>1. TypeOK'
    BY DEF TypeOK
<1>2. SaveTyped' /\ DOMAIN save' = DOMAIN save
    BY SaveFrame
<1>3. Bounded'
    BY BoundedFrame DEF Rebuilders
<1>4. Undisturbed'
    BY SlotFrame DEF Undisturbed, Parsing, Parsed
<1>5. Accepted' /\ Fresh'
    BY DEF Accepted, Rejected, Fresh
<1>6. OneEach' /\ EntryMatchesPath' /\ NothingOlderThanClear'
    BY <1>2, CacheFrame
<1> QED
    BY <1>1, <1>2, <1>3, <1>4, <1>5, <1>6

LEMMA NextInd == IndInv /\ [Next]_vars => IndInv'
<1> SUFFICES ASSUME IndInv, [Next]_vars PROVE IndInv'
    OBVIOUS
<1>1. CASE UNCHANGED vars
    BY <1>1, StutterInd
<1>2. ASSUME NEW t \in Threads, Lookup(t) \/ RebuildRefused(t) \/ RebuildCheck(t)
      PROVE  IndInv'
    BY <1>2, LookupInd, StutterInd, RebuildCheckInd DEF RebuildRefused
<1>3. ASSUME NEW t \in Threads, Work(t) PROVE IndInv'
    BY <1>3, StrtokFirstInd, StrtokNextInd, FinishInd, AcquireInd, StoreInd,
       RebuildStartInd, RebuildClearInd, RebuildSwapInd, RebuildDoneInd
    DEF Work
<1> QED
    BY <1>1, <1>2, <1>3 DEF Next

-----------------------------------------------------------------------------
(* The theorems.                                                            *)

THEOREM Inductive == Spec => []IndInv
BY InitInd, NextInd, PTL DEF Spec

\* Types of the search handler's locals, the cache and the rebuild's labels; the
\* cache stays within its capacity.
THEOREM TypeCorrect == Spec => []TypeOK
<1>1. IndInv => TypeOK
    BY DEF IndInv, Typed
<1> QED
    BY <1>1, Inductive, PTL

\* With one strtok position per thread, cache_put stores under a path the response
\* to that path, for any pool, any paths and any interleaving.
THEOREM EntriesAnswerTheirPath == Spec => []EntryMatchesPath
<1>1. IndInv => EntryMatchesPath
    BY DEF IndInv
<1> QED
    BY <1>1, Inductive, PTL

\* cache_clear forgets, but for what searches already under way store later.
THEOREM ClearForgets == Spec => []NothingOlderThanClear
<1>1. IndInv => NothingOlderThanClear
    BY DEF IndInv
<1> QED
    BY <1>1, Inductive, PTL

=============================================================================
