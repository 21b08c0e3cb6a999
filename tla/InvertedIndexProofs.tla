------------------------ MODULE InvertedIndexProofs ------------------------
(***************************************************************************)
(* Proofs about InvertedIndex for any terms, any hash function, any number *)
(* of buckets and any texts: the table stays sound while it grows, the     *)
(* postings are those of the texts, the counters agree, and the index      *)
(* implements the map from terms to postings.                              *)
(***************************************************************************)
EXTENDS InvertedIndex, FiniteSetTheorems, WellFoundedInduction, TLAPS

-----------------------------------------------------------------------------
(* Numbers, loops and sequences.                                            *)

\* A set of numbers that is not empty has a least one.
LEMMA MinIs ==
    ASSUME NEW S \in SUBSET Nat, S # {}
    PROVE  Min(S) \in S /\ \A j \in S : Min(S) <= j
<1>1. \E i \in S : \A j \in S : ~(<<j, i>> \in OpToRel(<, Nat))
    BY NatLessThanWellFounded, WFMin
<1>2. PICK i \in S : \A j \in S : ~(<<j, i>> \in OpToRel(<, Nat))
    BY <1>1
<1>3. \A j \in S : ~(j < i)
    BY <1>2 DEF OpToRel
<1>4. \A j \in S : i <= j
    BY <1>3
<1> QED
    BY <1>4 DEF Min

\* Counting up to n, the step from each number to the next reaches all of them.
LEMMA CountUp ==
    ASSUME NEW n \in Nat, NEW S, 0 \in S, \A i \in 1 .. n : i - 1 \in S => i \in S
    PROVE  n \in S /\ \A i \in 0 .. n : i \in S
<1> DEFINE Missed == (0 .. n) \ S
<1>1. SUFFICES ASSUME Missed # {} PROVE FALSE
    OBVIOUS
<1>2. Missed \in SUBSET Nat
    OBVIOUS
<1> DEFINE m == Min(Missed)
<1>3. m \in Missed /\ \A j \in Missed : m <= j
  <2> HIDE DEF Missed
  <2> QED
      BY <1>1, <1>2, MinIs
<1> HIDE DEF m
<1>4. m \in 1 .. n
    BY <1>3
<1>5. m - 1 \in 0 .. n /\ ~(m <= m - 1)
    BY <1>4
<1>6. m - 1 \in S
    BY <1>3, <1>5
<1> QED
    BY <1>3, <1>4, <1>6

\* A loop of n rounds whose body takes states of S to states of S, and the states
\* it has after each round.
Bodies(n, S) == [(1 .. n) \X S -> S]
Runs(f, n, S, e, step) ==
    f \in [0 .. n -> S] /\ f[0] = e /\ \A i \in 1 .. n : f[i] = step[<<i, f[i - 1]>>]

LEMMA LoopExists ==
    ASSUME NEW n \in Nat, NEW S, NEW e \in S, NEW step \in Bodies(n, S)
    PROVE  \E f : Runs(f, n, S, e, step)
<1> DEFINE Goes(f, m) == Runs(f, m, S, e, step)
           D == {m \in 0 .. n : \E f : Goes(f, m)}
<1>1. 0 \in D
  <2> DEFINE f == [i \in 0 .. 0 |-> e]
  <2>1. f \in [0 .. 0 -> S] /\ f[0] = e
      OBVIOUS
  <2> HIDE DEF f
  <2>2. Goes(f, 0)
      BY <2>1 DEF Runs
  <2> HIDE DEF Goes
  <2> QED
      BY <2>2
<1>2. ASSUME NEW m \in 1 .. n, m - 1 \in D PROVE m \in D
  <2>1. PICK f : Goes(f, m - 1)
      BY <1>2
  <2> DEFINE g == [i \in 0 .. m |-> IF i = m THEN step[<<m, f[m - 1]>>] ELSE f[i]]
  <2>2. m - 1 \in 0 .. m - 1 /\ f[m - 1] \in S
      BY <2>1 DEF Runs
  <2>3. step[<<m, f[m - 1]>>] \in S
      BY <2>2 DEF Bodies
  <2>4. g \in [0 .. m -> S]
    <3>0. \A i \in 0 .. m - 1 : f[i] \in S
        BY <2>1 DEF Runs
    <3>1. \A i \in 0 .. m : i # m => i \in 0 .. m - 1
        OBVIOUS
    <3> QED
        BY <2>3, <3>0, <3>1
  <2>5. g[0] = e
      BY <2>1 DEF Runs
  <2>6. ASSUME NEW i \in 1 .. m PROVE g[i] = step[<<i, g[i - 1]>>]
    <3>1. i - 1 \in 0 .. m /\ i - 1 # m
        OBVIOUS
    <3>2. g[i - 1] = f[i - 1]
        BY <3>1
    <3>3. CASE i = m
      <4>1. m \in 0 .. m
          OBVIOUS
      <4>2. g[m] = step[<<m, f[m - 1]>>]
          BY <4>1
      <4> HIDE DEF g
      <4> QED
          BY <3>2, <3>3, <4>2
    <3>4. CASE i # m
      <4>1. i \in 1 .. m - 1 /\ i \in 0 .. m
          BY <3>4
      <4>2. g[i] = f[i]
          BY <3>4, <4>1
      <4>3. f[i] = step[<<i, f[i - 1]>>]
          BY <2>1, <4>1 DEF Runs
      <4> QED
          BY <3>2, <4>2, <4>3
    <3> QED
        BY <3>3, <3>4
  <2> HIDE DEF g
  <2>7. Goes(g, m)
      BY <2>4, <2>5, <2>6 DEF Runs
  <2> HIDE DEF Goes
  <2> QED
      BY <2>7
<1>3. n \in 0 .. n
    OBVIOUS
<1> HIDE DEF D
<1>4. n \in D
    BY <1>1, <1>2, <1>3, CountUp
<1> QED
    BY <1>4 DEF D

LEMMA SeqIs ==
    ASSUME NEW S, NEW s \in Seq(S)
    PROVE  Len(s) \in Nat /\ DOMAIN s = 1 .. Len(s) /\ \A k \in 1 .. Len(s) : s[k] \in S
OBVIOUS

LEMMA Nothing ==
    ASSUME NEW S
    PROVE  <<>> \in Seq(S)
OBVIOUS

LEMMA Appended ==
    ASSUME NEW S, NEW s \in Seq(S), NEW e \in S
    PROVE  Append(s, e) \in Seq(S)
OBVIOUS

\* The places of two sequences one behind the other.
LEMMA Joined ==
    ASSUME NEW S, NEW a \in Seq(S), NEW b \in Seq(S)
    PROVE  /\ Len(a \o b) = Len(a) + Len(b)
           /\ \A k \in 1 .. Len(a) : (a \o b)[k] = a[k]
           /\ \A k \in Len(a) + 1 .. Len(a) + Len(b) : (a \o b)[k] = b[k - Len(a)]
    OBVIOUS

Flattens(f, seqs, n, V) ==
    /\ FlattenSeq(seqs) = f[n] /\ f \in [1 .. n -> Seq(V)] /\ f[1] = seqs[1]
    /\ \A i \in 2 .. n : f[i] = f[i - 1] \o seqs[i]

LEMMA FlatExists ==
    ASSUME NEW V, NEW n \in Nat \ {0}, NEW seqs \in Seq(Seq(V)), Len(seqs) = n
    PROVE  \E f : Flattens(f, seqs, n, V)
<1> DEFINE S == Seq(V)
           e == <<>>
           Turn(st, i) == IF i = 1 THEN seqs[i] ELSE st \o seqs[i]
           step == [w \in (1 .. n) \X S |-> Turn(w[2], w[1])]
           Flat(g) == [i \in 1 .. n |-> IF i = 1 THEN seqs[i] ELSE g[i - 1] \o seqs[i]]
           flat == CHOOSE g : g = Flat(g)
<1>1. FlattenSeq(seqs) = flat[n]
    BY DEF FlattenSeq
<1>2. e \in S
    BY Nothing
<1>3. \A i \in 1 .. n : seqs[i] \in S
    OBVIOUS
<1>4. \A i \in 1 .. n, st \in S : Turn(st, i) \in S
    BY <1>3
<1> HIDE DEF e
<1>5. step \in Bodies(n, S)
    BY <1>4 DEF Bodies
<1>6. \A i \in 1 .. n, st \in S : step[<<i, st>>] = Turn(st, i)
    OBVIOUS
<1> HIDE DEF S, step
<1>7. PICK f : Runs(f, n, S, e, step)
    BY <1>2, <1>5, LoopExists
<1> DEFINE g == [i \in 1 .. n |-> f[i]]
<1>8. ASSUME NEW i \in 1 .. n PROVE g[i] = IF i = 1 THEN seqs[i] ELSE g[i - 1] \o seqs[i]
  <2>1. i - 1 \in 0 .. n /\ f[i - 1] \in S
      BY <1>7 DEF Runs
  <2>2. f[i] = Turn(f[i - 1], i)
      BY <1>6, <1>7, <2>1 DEF Runs
  <2>3. i # 1 => i - 1 \in 1 .. n
      OBVIOUS
  <2> QED
      BY <2>2, <2>3
<1>9. g = Flat(g)
    BY <1>8
<1> HIDE DEF Flat
<1>10. flat = Flat(flat)
    BY <1>9
<1> HIDE DEF flat
<1>11. flat = [i \in 1 .. n |-> IF i = 1 THEN seqs[i] ELSE flat[i - 1] \o seqs[i]]
    BY <1>10 DEF Flat
<1>12. DOMAIN flat = 1 .. n /\ \A i \in 1 .. n : flat[i] = IF i = 1 THEN seqs[i] ELSE flat[i - 1] \o seqs[i]
    BY <1>11
<1>13. flat[1] = seqs[1]
    BY <1>12
<1>14. \A i \in 2 .. n : i \in 1 .. n /\ i # 1
    OBVIOUS
<1>15. \A i \in 2 .. n : flat[i] = flat[i - 1] \o seqs[i]
    BY <1>12, <1>14
<1> DEFINE D == {i \in 0 .. n : i = 0 \/ flat[i] \in S}
<1>16. 0 \in D
    OBVIOUS
<1>17. ASSUME NEW i \in 1 .. n, i - 1 \in D PROVE i \in D
  <2>1. i \in 0 .. n
      OBVIOUS
  <2>2. CASE i = 1
      BY <1>3, <1>13, <2>1, <2>2
  <2>3. CASE i # 1
    <3>1. flat[i - 1] \in S
        BY <1>17, <2>3
    <3>2. flat[i] = flat[i - 1] \o seqs[i]
        BY <1>12, <2>3
    <3>3. flat[i - 1] \o seqs[i] \in S
        BY <1>3, <3>1 DEF S
    <3> QED
        BY <2>1, <3>2, <3>3
  <2> QED
      BY <2>2, <2>3
<1> HIDE DEF D
<1>18. \A i \in 0 .. n : i \in D
    BY <1>16, <1>17, CountUp
<1>19. \A i \in 1 .. n : flat[i] \in S
  <2>1. \A i \in 1 .. n : i \in 0 .. n /\ i # 0
      OBVIOUS
  <2> QED
      BY <1>18, <2>1 DEF D
<1>20. flat = [i \in 1 .. n |-> flat[i]]
    BY <1>12, <1>11
<1>21. flat \in [1 .. n -> S]
    BY <1>19, <1>20
<1> QED
    BY <1>1, <1>13, <1>15, <1>21 DEF S, Flattens

\* A sequence of sequences made one longer is flattened by one more concatenation.
LEMMA FlattenStep ==
    ASSUME NEW V, NEW seqs \in Seq(Seq(V)), NEW s \in Seq(V)
    PROVE  /\ FlattenSeq(<<>>) = <<>> /\ FlattenSeq(seqs) \in Seq(V)
           /\ FlattenSeq(Append(seqs, s)) = FlattenSeq(seqs) \o s
<1> DEFINE n == Len(seqs)
           longer == Append(seqs, s)
<1>1. n \in Nat /\ longer \in Seq(Seq(V)) /\ Len(longer) = n + 1 /\ longer[n + 1] = s
      /\ \A i \in 1 .. n : longer[i] = seqs[i]
    OBVIOUS
<1>2. FlattenSeq(<<>>) = <<>>
    BY DEF FlattenSeq
<1> HIDE DEF longer
<1>3. PICK g : /\ FlattenSeq(longer) = g[n + 1]
               /\ g \in [1 .. n + 1 -> Seq(V)] /\ g[1] = longer[1]
               /\ \A i \in 2 .. n + 1 : g[i] = g[i - 1] \o longer[i]
  <2> DEFINE m == n + 1
  <2>1. m \in Nat \ {0} /\ Len(longer) = m
      BY <1>1
  <2> HIDE DEF m, n
  <2>2. \E g : Flattens(g, longer, m, V)
      BY <1>1, <2>1, FlatExists
  <2> QED
      BY <2>2 DEF m, Flattens
<1>4. CASE n = 0
  <2>1. seqs = <<>>
      BY <1>4
  <2>2. FlattenSeq(longer) = s
      BY <1>1, <1>3, <1>4
  <2>3. <<>> \o s = s
      OBVIOUS
  <2> QED
      BY <1>2, <2>1, <2>2, <2>3, Nothing DEF longer
<1>5. CASE n # 0
  <2>1. PICK f : /\ FlattenSeq(seqs) = f[n]
                 /\ f \in [1 .. n -> Seq(V)] /\ f[1] = seqs[1]
                 /\ \A i \in 2 .. n : f[i] = f[i - 1] \o seqs[i]
    <3>1. n \in Nat \ {0} /\ Len(seqs) = n
        BY <1>1, <1>5
    <3> HIDE DEF n
    <3>2. \E f : Flattens(f, seqs, n, V)
        BY <3>1, FlatExists
    <3> QED
        BY <3>2 DEF Flattens
  <2> DEFINE D == {i \in 0 .. n : i = 0 \/ f[i] = g[i]}
  <2>2. 0 \in D
      BY <1>1
  <2>3. ASSUME NEW i \in 1 .. n, i - 1 \in D PROVE i \in D
    <3>1. i \in 0 .. n /\ longer[i] = seqs[i]
      <4> HIDE DEF n, D
      <4> QED
          BY <1>1
    <3>2. CASE i = 1
        BY <1>3, <2>1, <3>1, <3>2
    <3>3. CASE i # 1
      <4>1. i \in 2 .. n /\ i \in 2 .. n + 1
          BY <1>1, <3>3
      <4>2. f[i - 1] = g[i - 1]
          BY <2>3, <3>3
      <4>3. f[i] = g[i]
          BY <1>3, <2>1, <3>1, <4>1, <4>2
      <4> QED
          BY <3>1, <4>3
    <3> QED
        BY <3>2, <3>3
  <2> HIDE DEF D
  <2>4. n \in D
      BY <1>1, <2>2, <2>3, CountUp
  <2>5. f[n] = g[n]
      BY <1>5, <2>4 DEF D
  <2>6. n + 1 \in 2 .. n + 1 /\ (n + 1) - 1 = n /\ n \in 1 .. n
      BY <1>1, <1>5
  <2>7. g[n + 1] = g[n] \o s
      BY <1>1, <1>3, <2>6
  <2>8. f[n] \in Seq(V)
      BY <2>1, <2>6
  <2> QED
      BY <1>2, <1>3, <2>1, <2>5, <2>7, <2>8 DEF longer
<1> QED
    BY <1>4, <1>5

-----------------------------------------------------------------------------
(* The hash table.                                                          *)

NodeSet(V) == [key : Terms, value : V]
Chains(n, V) == [0 .. n - 1 -> Seq(NodeSet(V))]

\* Every node hangs in the chain of its hash, and no chain holds a key twice.
Placed(b, n) == \A i \in 0 .. n - 1 : \A j \in DOMAIN b[i] : Slot(n, b[i][j].key) = i
Single(b, n) == \A i \in 0 .. n - 1 : \A j, l \in DOMAIN b[i] : b[i][j].key = b[i][l].key => j = l
Good(b, n, V) == b \in Chains(n, V) /\ Placed(b, n) /\ Single(b, n)

\* The nodes of all chains, and their keys.
Entries(b, n) == UNION {{b[i][j] : j \in DOMAIN b[i]} : i \in 0 .. n - 1}
KeysIn(E) == {x.key : x \in E}

LEMMA EntryIs ==
    ASSUME NEW n, NEW b, NEW x
    PROVE  x \in Entries(b, n) <=> \E i \in 0 .. n - 1 : \E j \in DOMAIN b[i] : x = b[i][j]
BY DEF Entries

LEMMA SlotIs ==
    ASSUME NEW n \in Nat \ {0}, NEW k \in Terms
    PROVE  Slot(n, k) \in 0 .. n - 1
BY HashNat DEF Slot

LEMMA ChainIs ==
    ASSUME NEW V, NEW n \in Nat \ {0}, NEW b, Good(b, n, V), NEW i \in 0 .. n - 1
    PROVE  b[i] \in Seq(NodeSet(V)) /\ Len(b[i]) \in Nat /\ DOMAIN b[i] = 1 .. Len(b[i])
<1>1. b[i] \in Seq(NodeSet(V))
    BY DEF Good, Chains
<1> QED
    BY <1>1, SeqIs

\* x is a node of chain i.
IsNode(x, b, n, V, i) ==
    /\ x \in NodeSet(V) /\ x.key \in Terms /\ x.value \in V
    /\ Slot(n, x.key) = i /\ x \in Entries(b, n)

LEMMA NodeIs ==
    ASSUME NEW V, NEW n \in Nat \ {0}, NEW b, Good(b, n, V), NEW i \in 0 .. n - 1,
           NEW j \in DOMAIN b[i]
    PROVE  IsNode(b[i][j], b, n, V, i)
<1>1. b[i] \in Seq(NodeSet(V))
    BY DEF Good, Chains
<1>2. b[i][j] \in NodeSet(V)
    BY <1>1, SeqIs
<1>3. b[i][j].key \in Terms /\ b[i][j].value \in V
    BY <1>2 DEF NodeSet
<1>4. Slot(n, b[i][j].key) = i
    BY DEF Good, Placed
<1>5. b[i][j] \in Entries(b, n)
    BY EntryIs
<1> QED
    BY <1>2, <1>3, <1>4, <1>5 DEF IsNode

LEMMA KeyOnce ==
    ASSUME NEW V, NEW n, NEW b, Good(b, n, V), NEW i \in 0 .. n - 1,
           NEW j \in DOMAIN b[i], NEW l \in DOMAIN b[i], b[i][j].key = b[i][l].key
    PROVE  j = l
BY DEF Good, Single

\* A node is found in the chain of its hash, and there is one for a key.
Hangs(x, b, n, V) ==
    /\ x \in NodeSet(V) /\ x.key \in Terms /\ x.value \in V
    /\ x = [key |-> x.key, value |-> x.value]
    /\ Slot(n, x.key) \in 0 .. n - 1
    /\ \E j \in DOMAIN b[Slot(n, x.key)] : x = b[Slot(n, x.key)][j]

LEMMA EntryAt ==
    ASSUME NEW V, NEW n \in Nat \ {0}, NEW b, Good(b, n, V), NEW x \in Entries(b, n)
    PROVE  Hangs(x, b, n, V)
<1>1. PICK i \in 0 .. n - 1 : \E j \in DOMAIN b[i] : x = b[i][j]
    BY EntryIs
<1>2. PICK j \in DOMAIN b[i] : x = b[i][j]
    BY <1>1
<1>3. x \in NodeSet(V) /\ x.key \in Terms /\ x.value \in V /\ Slot(n, x.key) = i
  <2>1. IsNode(x, b, n, V, i)
      BY <1>2, NodeIs
  <2> QED
      BY <2>1 DEF IsNode
<1>4. x = [key |-> x.key, value |-> x.value]
    BY <1>3 DEF NodeSet
<1> QED
    BY <1>1, <1>2, <1>3, <1>4 DEF Hangs

LEMMA EntriesDiffer ==
    ASSUME NEW V, NEW n \in Nat \ {0}, NEW b, Good(b, n, V),
           NEW x \in Entries(b, n), NEW y \in Entries(b, n), x.key = y.key
    PROVE  x = y
<1> DEFINE i == Slot(n, x.key)
<1>0. Hangs(x, b, n, V) /\ Hangs(y, b, n, V)
    BY EntryAt
<1>1. i \in 0 .. n - 1 /\ \E j \in DOMAIN b[i] : x = b[i][j]
    BY <1>0 DEF Hangs
<1>2. PICK j \in DOMAIN b[i] : x = b[i][j]
    BY <1>1
<1>3. PICK l \in DOMAIN b[i] : y = b[i][l]
  <2>1. \E l \in DOMAIN b[Slot(n, y.key)] : y = b[Slot(n, y.key)][l]
      BY <1>0 DEF Hangs
  <2> QED
      BY <2>1
<1> HIDE DEF i
<1>4. j = l
    BY <1>1, <1>2, <1>3, KeyOnce
<1> QED
    BY <1>2, <1>3, <1>4

\* What hash_table_get finds.
Gets(h, n, k) ==
    /\ Width(h) = n
    /\ At(h, k) # {} <=> k \in KeysIn(Entries(h.buckets, n))
    /\ \A i, j \in At(h, k) : i = j
    /\ k \notin KeysIn(Entries(h.buckets, n)) => Get(h, k) = NotFound
    /\ \A x \in Entries(h.buckets, n) : x.key = k => Get(h, k) = x.value
    /\ At(h, k) # {} => /\ Node(h, k) \in DOMAIN h.buckets[Slot(n, k)]
                        /\ h.buckets[Slot(n, k)][Node(h, k)].key = k

LEMMA GetIs ==
    ASSUME NEW V, NEW n \in Nat \ {0}, NEW h, Good(h.buckets, n, V), NEW k \in Terms
    PROVE  Gets(h, n, k)
<1> DEFINE b == h.buckets
           s == Slot(n, k)
<1>1. Width(h) = n
  <2>1. DOMAIN b = 0 .. n - 1
      BY DEF Good, Chains
  <2>2. Cardinality(0 .. n - 1) = n
      BY FS_Interval
  <2> QED
      BY <2>1, <2>2 DEF Width
<1>2. s \in 0 .. n - 1
    BY SlotIs
<1>3. At(h, k) = {i \in DOMAIN b[s] : b[s][i].key = k}
    BY <1>1 DEF At
<1> HIDE DEF b, s
<1>4. Good(b, n, V)
    BY DEF b
<1>5. ASSUME NEW i \in At(h, k), NEW j \in At(h, k) PROVE i = j
    BY <1>2, <1>3, <1>4, KeyOnce
<1>6. ASSUME NEW i \in At(h, k) PROVE b[s][i] \in Entries(b, n) /\ b[s][i].key = k
  <2>1. IsNode(b[s][i], b, n, V, s)
      BY <1>2, <1>3, <1>4, NodeIs
  <2> QED
      BY <1>3, <2>1 DEF IsNode
<1>7. ASSUME NEW x \in Entries(b, n), x.key = k PROVE \E i \in At(h, k) : x = b[s][i]
  <2>1. Slot(n, x.key) = s
      BY <1>7 DEF s
  <2>2. PICK j \in DOMAIN b[s] : x = b[s][j]
    <3>1. Hangs(x, b, n, V)
        BY <1>4, EntryAt
    <3> QED
        BY <2>1, <3>1 DEF Hangs
  <2> QED
      BY <1>3, <1>7, <2>2
<1>8. At(h, k) # {} <=> k \in KeysIn(Entries(b, n))
    BY <1>6, <1>7 DEF KeysIn
<1>9. At(h, k) = {} => Get(h, k) = NotFound
    BY DEF Get
<1>10. At(h, k) # {} => Node(h, k) \in At(h, k) /\ Get(h, k) = b[s][Node(h, k)].value
  <2>1. Get(h, k) = IF At(h, k) = {} THEN NotFound ELSE b[s][Node(h, k)].value
      BY <1>1 DEF Get, b, s
  <2>2. At(h, k) # {} => Node(h, k) \in At(h, k)
      BY DEF Node
  <2> QED
      BY <2>1, <2>2
<1>11. ASSUME NEW x \in Entries(b, n), x.key = k PROVE Get(h, k) = x.value
  <2>1. PICK i \in At(h, k) : x = b[s][i]
      BY <1>7, <1>11
  <2>2. Node(h, k) = i
      BY <1>5, <1>10, <2>1
  <2> QED
      BY <1>10, <2>1, <2>2
<1>12. At(h, k) # {} => Node(h, k) \in DOMAIN b[s] /\ b[s][Node(h, k)].key = k
    BY <1>3, <1>10
<1> QED
    BY <1>1, <1>5, <1>8, <1>9, <1>11, <1>12 DEF Gets, b, s

\* A sequence with one more in front.
LEMMA InFront ==
    ASSUME NEW S, NEW s \in Seq(S), NEW x \in S
    PROVE  /\ <<x>> \o s \in Seq(S) /\ Len(<<x>> \o s) = Len(s) + 1 /\ (<<x>> \o s)[1] = x
           /\ \A j \in 1 .. Len(s) : (<<x>> \o s)[j + 1] = s[j]
           /\ DOMAIN (<<x>> \o s) = 1 .. Len(s) + 1
OBVIOUS

\* A node with a new key is pushed.
LEMMA PushIs ==
    ASSUME NEW V, NEW n \in Nat \ {0}, NEW b, Good(b, n, V), NEW x \in NodeSet(V),
           x.key \notin KeysIn(Entries(b, n))
    PROVE  /\ Good(Pushed(b, x, n), n, V)
           /\ Entries(Pushed(b, x, n), n) = Entries(b, n) \cup {x}
           /\ Occupied(Pushed(b, x, n)) = Occupied(b) \cup {Slot(n, x.key)}
<1> DEFINE s == Slot(n, x.key)
           c == b[s]
           m == Len(c)
           d == <<x>> \o c
           new == Pushed(b, x, n)
<1>1. s \in 0 .. n - 1 /\ x.key \in Terms
  <2>1. x.key \in Terms
      BY DEF NodeSet
  <2> QED
      BY <2>1, SlotIs
<1>2. b \in [0 .. n - 1 -> Seq(NodeSet(V))]
    BY DEF Good, Chains
<1>3. c \in Seq(NodeSet(V)) /\ m \in Nat /\ DOMAIN c = 1 .. m
    BY <1>1, ChainIs
<1>4. /\ d \in Seq(NodeSet(V)) /\ DOMAIN d = 1 .. m + 1 /\ d[1] = x
      /\ \A j \in 1 .. m : d[j + 1] = c[j]
    BY <1>3, InFront
<1>5. new = [b EXCEPT ![s] = d]
    BY DEF Pushed
<1> HIDE DEF c, d, m, new, s
<1>6. /\ new \in [0 .. n - 1 -> Seq(NodeSet(V))] /\ new[s] = d
      /\ \A i \in 0 .. n - 1 : i # s => new[i] = b[i]
    BY <1>1, <1>2, <1>4, <1>5
<1>7. \A j \in 1 .. m + 1 : j = 1 \/ (j - 1 \in 1 .. m /\ (j - 1) + 1 = j)
    BY <1>3
<1>8. \A j \in 1 .. m + 1 : d[j] = x \/ (j - 1 \in DOMAIN c /\ d[j] = c[j - 1])
    BY <1>3, <1>4, <1>7
<1>9. ASSUME NEW j \in DOMAIN c PROVE c[j].key # x.key /\ Slot(n, c[j].key) = s /\ c[j] \in Entries(b, n)
  <2>0. IsNode(c[j], b, n, V, s)
      BY <1>1, NodeIs DEF c
  <2>1. c[j] \in Entries(b, n) /\ Slot(n, c[j].key) = s
      BY <2>0 DEF IsNode
  <2> QED
      BY <2>1 DEF KeysIn
<1>10. Placed(new, n)
  <2>1. ASSUME NEW i \in 0 .. n - 1, NEW j \in DOMAIN new[i] PROVE Slot(n, new[i][j].key) = i
    <3>1. CASE i = s
      <4>1. new[i] = d /\ j \in 1 .. m + 1
          BY <1>4, <1>6, <3>1
      <4>2. d[j] = x \/ (j - 1 \in DOMAIN c /\ d[j] = c[j - 1])
          BY <1>8, <4>1
      <4>3. Slot(n, x.key) = s
          BY DEF s
      <4>4. Slot(n, d[j].key) = s
          BY <1>9, <4>2, <4>3
      <4> QED
          BY <3>1, <4>1, <4>4
    <3>2. CASE i # s
      <4>1. new[i] = b[i]
          BY <1>6, <3>2
      <4>2. IsNode(b[i][j], b, n, V, i)
          BY <4>1, NodeIs
      <4> QED
          BY <4>1, <4>2 DEF IsNode
    <3> QED
        BY <3>1, <3>2
  <2> QED
      BY <2>1 DEF Placed
<1>11. Single(new, n)
  <2>1. ASSUME NEW i \in 0 .. n - 1, NEW j \in DOMAIN new[i], NEW l \in DOMAIN new[i],
               new[i][j].key = new[i][l].key
        PROVE  j = l
    <3>1. CASE i = s
      <4>1. j \in 1 .. m + 1 /\ l \in 1 .. m + 1 /\ d[j].key = d[l].key
          BY <1>4, <1>6, <2>1, <3>1
      <4>2. CASE j = 1 /\ l = 1
          BY <4>2
      <4>3. CASE j # 1 /\ l = 1
        <5>1. j - 1 \in DOMAIN c /\ d[j] = c[j - 1] /\ d[l] = x
            BY <1>3, <1>4, <1>7, <4>1, <4>3
        <5> QED
            BY <1>9, <4>1, <5>1
      <4>4. CASE j = 1 /\ l # 1
        <5>1. l - 1 \in DOMAIN c /\ d[l] = c[l - 1] /\ d[j] = x
            BY <1>3, <1>4, <1>7, <4>1, <4>4
        <5> QED
            BY <1>9, <4>1, <5>1
      <4>5. CASE j # 1 /\ l # 1
        <5>1. j - 1 \in DOMAIN c /\ d[j] = c[j - 1] /\ l - 1 \in DOMAIN c /\ d[l] = c[l - 1]
            BY <1>3, <1>4, <1>7, <4>1, <4>5
        <5>2. j - 1 = l - 1
            BY <1>1, <4>1, <5>1, KeyOnce DEF c
        <5> QED
            BY <1>3, <4>1, <5>2
      <4> QED
          BY <4>2, <4>3, <4>4, <4>5
    <3>2. CASE i # s
      <4>1. new[i] = b[i]
          BY <1>6, <3>2
      <4> QED
          BY <2>1, <4>1, KeyOnce
    <3> QED
        BY <3>1, <3>2
  <2> QED
      BY <2>1 DEF Single
<1>12. Entries(new, n) = Entries(b, n) \cup {x}
  <2>1. ASSUME NEW y \in Entries(new, n) PROVE y \in Entries(b, n) \cup {x}
    <3>1. PICK i \in 0 .. n - 1 : \E j \in DOMAIN new[i] : y = new[i][j]
        BY EntryIs
    <3>2. PICK j \in DOMAIN new[i] : y = new[i][j]
        BY <3>1
    <3>3. CASE i = s
        BY <1>4, <1>6, <1>8, <1>9, <3>2, <3>3
    <3>4. CASE i # s
      <4>1. new[i] = b[i]
          BY <1>6, <3>4
      <4>2. IsNode(b[i][j], b, n, V, i)
          BY <3>2, <4>1, NodeIs
      <4> QED
          BY <3>2, <4>1, <4>2 DEF IsNode
    <3> QED
        BY <3>3, <3>4
  <2>2. ASSUME NEW y \in Entries(b, n) PROVE y \in Entries(new, n)
    <3>1. PICK i \in 0 .. n - 1 : \E j \in DOMAIN b[i] : y = b[i][j]
        BY EntryIs
    <3>2. PICK j \in DOMAIN b[i] : y = b[i][j]
        BY <3>1
    <3>3. CASE i = s
      <4>1. j \in 1 .. m /\ y = c[j]
          BY <1>3, <3>2, <3>3 DEF c
      <4>2. j + 1 \in DOMAIN new[s] /\ y = new[s][j + 1]
          BY <1>3, <1>4, <1>6, <4>1
      <4> QED
          BY <1>1, <4>2, EntryIs
    <3>4. CASE i # s
      <4>1. new[i] = b[i]
          BY <1>6, <3>4
      <4> QED
          BY <3>2, <4>1, EntryIs
    <3> QED
        BY <3>3, <3>4
  <2>3. x \in Entries(new, n)
    <3>1. 1 \in DOMAIN new[s] /\ x = new[s][1]
        BY <1>3, <1>4, <1>6
    <3> QED
        BY <1>1, <3>1, EntryIs
  <2> QED
      BY <2>1, <2>2, <2>3
<1>13. Occupied(new) = Occupied(b) \cup {s}
  <2>1. d # <<>>
      BY <1>3, <1>4
  <2>2. DOMAIN new = 0 .. n - 1 /\ DOMAIN b = 0 .. n - 1
      BY <1>2, <1>6
  <2> QED
      BY <1>1, <1>6, <2>1, <2>2 DEF Occupied
<1> QED
    BY <1>6, <1>10, <1>11, <1>12, <1>13 DEF Good, Chains, new, s

\* The turns of the loop that spreads the nodes.
Spreads(f, nodes, n) ==
    /\ Spread(nodes, n) = f[Len(nodes)]
    /\ f[0] = [b \in 0 .. n - 1 |-> <<>>]
    /\ \A i \in 1 .. Len(nodes) : f[i] = Pushed(f[i - 1], nodes[i], n)

LEMMA PushTyped ==
    ASSUME NEW V, NEW n \in Nat \ {0}, NEW b \in Chains(n, V), NEW x \in NodeSet(V)
    PROVE  Pushed(b, x, n) \in Chains(n, V)
<1> DEFINE s == Slot(n, x.key)
           c == b[s]
           d == <<x>> \o c
           new == Pushed(b, x, n)
<1>1. s \in 0 .. n - 1
    BY SlotIs DEF NodeSet
<1>2. c \in Seq(NodeSet(V))
    BY <1>1 DEF Chains
<1>3. d \in Seq(NodeSet(V))
    BY <1>2, InFront
<1>4. new = [b EXCEPT ![s] = d]
    BY DEF Pushed
<1> HIDE DEF c, d, new, s
<1> QED
    BY <1>1, <1>3, <1>4 DEF Chains, new

LEMMA SpreadRuns ==
    ASSUME NEW V, NEW n \in Nat \ {0}, NEW nodes \in Seq(NodeSet(V))
    PROVE  \E f : Spreads(f, nodes, n)
<1> DEFINE m == Len(nodes)
           S == Chains(n, V)
           e == [b \in 0 .. n - 1 |-> <<>>]
           Turn(st, i) == Pushed(st, nodes[i], n)
           step == [w \in (1 .. m) \X S |-> Turn(w[2], w[1])]
           Loop(g) == [i \in 0 .. m |-> IF i = 0 THEN e ELSE Turn(g[i - 1], i)]
           after == CHOOSE g : g = Loop(g)
<1>1. Spread(nodes, n) = after[m]
    BY DEF Spread
<1>2. m \in Nat /\ \A i \in 1 .. m : nodes[i] \in NodeSet(V)
    BY SeqIs
<1>3. e \in S
  <2>1. <<>> \in Seq(NodeSet(V))
      BY Nothing
  <2> QED
      BY <2>1 DEF Chains
<1>4. ASSUME NEW i \in 1 .. m, NEW st \in S PROVE Turn(st, i) \in S
  <2>1. nodes[i] \in NodeSet(V)
      BY <1>2
  <2> QED
      BY <2>1, PushTyped
<1> HIDE DEF e, S, m, Turn
<1>5. step \in Bodies(m, S)
    BY <1>4 DEF Bodies
<1>6. \A i \in 1 .. m, st \in S : step[<<i, st>>] = Turn(st, i)
    OBVIOUS
<1> HIDE DEF step
<1>7. PICK f : Runs(f, m, S, e, step)
    BY <1>2, <1>3, <1>5, LoopExists
<1>8. ASSUME NEW i \in 0 .. m PROVE f[i] = IF i = 0 THEN e ELSE Turn(f[i - 1], i)
  <2>1. CASE i = 0
      BY <1>7, <2>1 DEF Runs
  <2>2. CASE i # 0
    <3>1. i \in 1 .. m /\ i - 1 \in 0 .. m
        BY <1>2, <2>2
    <3>2. f[i - 1] \in S
        BY <1>7, <3>1 DEF Runs
    <3>3. f[i] = step[<<i, f[i - 1]>>]
        BY <1>7, <3>1 DEF Runs
    <3> QED
        BY <1>6, <2>2, <3>1, <3>2, <3>3
  <2> QED
      BY <2>1, <2>2
<1>9. f = [i \in 0 .. m |-> f[i]]
    BY <1>7 DEF Runs
<1>10. f = Loop(f)
    BY <1>8, <1>9
<1> HIDE DEF Loop
<1>11. after = Loop(after)
    BY <1>10
<1> HIDE DEF after
<1>12. after = [i \in 0 .. m |-> IF i = 0 THEN e ELSE Turn(after[i - 1], i)]
    BY <1>11 DEF Loop
<1>13. \A i \in 0 .. m : after[i] = IF i = 0 THEN e ELSE Turn(after[i - 1], i)
    BY <1>12
<1>14. 0 \in 0 .. m /\ \A i \in 1 .. m : i \in 0 .. m /\ i # 0
    BY <1>2
<1>15. after[0] = e /\ \A i \in 1 .. m : after[i] = Turn(after[i - 1], i)
    BY <1>13, <1>14
<1>16. Spreads(after, nodes, n)
    BY <1>1, <1>15 DEF Spreads, e, m, Turn
<1> QED
    BY <1>16

\* The elements of a sequence.
Held(s) == {s[i] : i \in DOMAIN s}

Distinct(nodes) == \A i, j \in DOMAIN nodes : nodes[i].key = nodes[j].key => i = j

\* Distinct nodes are spread over n chains.
LEMMA SpreadIs ==
    ASSUME NEW V, NEW n \in Nat \ {0}, NEW nodes \in Seq(NodeSet(V)), Distinct(nodes)
    PROVE  /\ Good(Spread(nodes, n), n, V)
           /\ Entries(Spread(nodes, n), n) = Held(nodes)
           /\ IsFiniteSet(Occupied(Spread(nodes, n)))
           /\ Cardinality(Occupied(Spread(nodes, n))) <= Len(nodes)
<1> DEFINE m == Len(nodes)
<1>1. m \in Nat /\ DOMAIN nodes = 1 .. m /\ \A i \in 1 .. m : nodes[i] \in NodeSet(V)
    BY SeqIs
<1>2. PICK f : Spreads(f, nodes, n)
    BY SpreadRuns
<1>3. Spread(nodes, n) = f[m] /\ f[0] = [b \in 0 .. n - 1 |-> <<>>]
      /\ \A i \in 1 .. m : f[i] = Pushed(f[i - 1], nodes[i], n)
    BY <1>2 DEF Spreads
<1> HIDE DEF m
<1> DEFINE Part(i) == {nodes[j] : j \in 1 .. i}
           Holds(i) == /\ Good(f[i], n, V) /\ Entries(f[i], n) = Part(i)
                       /\ IsFiniteSet(Occupied(f[i])) /\ Cardinality(Occupied(f[i])) <= i
           D == {i \in 0 .. m : Holds(i)}
<1>4. 0 \in D
  <2>1. 0 \in 0 .. m
      BY <1>1
  <2>2. f[0] \in Chains(n, V)
    <3>1. <<>> \in Seq(NodeSet(V))
        BY Nothing
    <3> QED
        BY <1>3, <3>1 DEF Chains
  <2>3. \A i \in 0 .. n - 1 : f[0][i] = <<>>
      BY <1>3
  <2>4. DOMAIN <<>> = {}
      OBVIOUS
  <2>5. Good(f[0], n, V)
      BY <2>2, <2>3, <2>4 DEF Good, Placed, Single
  <2>6. Entries(f[0], n) = {}
      BY <2>3, <2>4 DEF Entries
  <2>7. Part(0) = {}
      OBVIOUS
  <2>8. Occupied(f[0]) = {}
      BY <1>3, <2>3 DEF Occupied
  <2>9. IsFiniteSet({}) /\ Cardinality({}) = 0
      BY FS_EmptySet
  <2> HIDE DEF Part
  <2>10. Holds(0)
      BY <2>5, <2>6, <2>7, <2>8, <2>9
  <2> HIDE DEF Holds
  <2> QED
      BY <2>1, <2>10
<1>5. ASSUME NEW i \in 1 .. m, i - 1 \in D PROVE i \in D
  <2> DEFINE x == nodes[i]
             b == f[i - 1]
  <2>1. Holds(i - 1) /\ i \in 0 .. m
      BY <1>5
  <2>2. Good(b, n, V) /\ Entries(b, n) = Part(i - 1)
        /\ IsFiniteSet(Occupied(b)) /\ Cardinality(Occupied(b)) <= i - 1
      BY <2>1
  <2>3. x \in NodeSet(V)
      BY <1>1
  <2>4. x.key \notin KeysIn(Part(i - 1))
    <3>1. ASSUME NEW j \in 1 .. i - 1 PROVE nodes[j].key # nodes[i].key
      <4>1. j \in 1 .. m /\ j # i
          BY <1>1
      <4> QED
          BY <1>1, <4>1 DEF Distinct
    <3> QED
        BY <3>1 DEF KeysIn
  <2>5. f[i] = Pushed(b, x, n)
      BY <1>3
  <2>6. Part(i) = Part(i - 1) \cup {x}
    <3>1. \A j \in 1 .. i : j = i \/ j \in 1 .. i - 1
        BY <1>1
    <3>2. i \in 1 .. i /\ \A j \in 1 .. i - 1 : j \in 1 .. i
        BY <1>1
    <3> QED
        BY <3>1, <3>2
  <2> HIDE DEF b, x, Part
  <2>7. /\ Good(f[i], n, V)
        /\ Entries(f[i], n) = Entries(b, n) \cup {x}
        /\ Occupied(f[i]) = Occupied(b) \cup {Slot(n, x.key)}
      BY <2>2, <2>3, <2>4, <2>5, PushIs
  <2>8. IsFiniteSet(Occupied(f[i])) /\ Cardinality(Occupied(f[i])) <= i
    <3> DEFINE O == Occupied(b)
               s == Slot(n, x.key)
    <3>1. IsFiniteSet(O) /\ Cardinality(O) <= i - 1
        BY <2>2
    <3> HIDE DEF O, s
    <3>2. /\ IsFiniteSet(O \cup {s})
          /\ Cardinality(O \cup {s}) = IF s \in O THEN Cardinality(O) ELSE Cardinality(O) + 1
        BY <3>1, FS_AddElement
    <3>3. Cardinality(O) \in Nat
        BY <3>1, FS_CardinalityType
    <3>4. Cardinality(O \cup {s}) <= i
        BY <3>1, <3>2, <3>3
    <3> QED
        BY <2>7, <3>2, <3>4 DEF O, s
  <2>9. Holds(i)
      BY <2>2, <2>6, <2>7, <2>8
  <2> HIDE DEF Holds
  <2> QED
      BY <2>1, <2>9
<1> HIDE DEF D
<1>6. m \in D
    BY <1>1, <1>4, <1>5, CountUp
<1>7. Holds(m)
    BY <1>6 DEF D
<1> QED
    BY <1>1, <1>3, <1>7 DEF m, Held

\* As many keys as distinct nodes.
LEMMA KeysCounted ==
    ASSUME NEW V, NEW nodes \in Seq(NodeSet(V)), Distinct(nodes)
    PROVE  /\ IsFiniteSet(KeysIn(Held(nodes)))
           /\ Cardinality(KeysIn(Held(nodes))) = Len(nodes)
<1> DEFINE m == Len(nodes)
           K == KeysIn(Held(nodes))
           f == [i \in 1 .. m |-> nodes[i].key]
<1>1. m \in Nat /\ DOMAIN nodes = 1 .. m
    BY SeqIs
<1>2. IsFiniteSet(1 .. m) /\ Cardinality(1 .. m) = m
    BY <1>1, FS_Interval
<1>3. K = {nodes[i].key : i \in 1 .. m}
    BY <1>1 DEF KeysIn, Held
<1> HIDE DEF K, m
<1>4. f \in Surjection(1 .. m, K)
    BY <1>3 DEF Surjection
<1>5. f \in Injection(1 .. m, K)
  <2>1. f \in [1 .. m -> K]
      BY <1>3
  <2>2. \A i, j \in 1 .. m : nodes[i].key = nodes[j].key => i = j
      BY <1>1 DEF Distinct
  <2>3. \A i \in 1 .. m : f[i] = nodes[i].key
      OBVIOUS
  <2> HIDE DEF f
  <2> QED
      BY <2>1, <2>2, <2>3 DEF Injection, IsInjective
<1> HIDE DEF f
<1>6. IsFiniteSet(K) /\ Cardinality(K) = Cardinality(1 .. m)
    BY <1>2, <1>4, <1>5, FS_Surjection
<1> QED
    BY <1>2, <1>6 DEF K, m

Apart(a, b) == \A i \in DOMAIN a : \A j \in DOMAIN b : a[i].key # b[j].key

\* Distinct nodes one behind the other.
LEMMA DistinctJoin ==
    ASSUME NEW S, NEW a \in Seq(S), NEW b \in Seq(S), Distinct(a), Distinct(b),
           Apart(a, b)
    PROVE  /\ a \o b \in Seq(S) /\ Distinct(a \o b)
           /\ Held(a \o b) = Held(a) \cup Held(b)
<1> DEFINE m == Len(a)
           n == Len(b)
           c == a \o b
<1>1. m \in Nat /\ n \in Nat /\ DOMAIN a = 1 .. m /\ DOMAIN b = 1 .. n
    BY SeqIs
<1>2. c \in Seq(S)
    OBVIOUS
<1>3. DOMAIN c = 1 .. m + n /\ (\A k \in 1 .. m : c[k] = a[k])
      /\ \A k \in m + 1 .. m + n : c[k] = b[k - m]
  <2>1. DOMAIN c = 1 .. Len(c)
      BY <1>2, SeqIs
  <2> QED
      BY <2>1, Joined
<1> HIDE DEF c, m, n
<1>4. \A k \in 1 .. m + n : k \in 1 .. m \/ (k \in m + 1 .. m + n /\ k - m \in 1 .. n)
    BY <1>1
<1>5. Distinct(c)
  <2>1. SUFFICES ASSUME NEW i \in 1 .. m + n, NEW j \in 1 .. m + n, c[i].key = c[j].key PROVE i = j
      BY <1>3 DEF Distinct
  <2>2. CASE i \in 1 .. m /\ j \in 1 .. m
    <3>1. c[i] = a[i] /\ c[j] = a[j]
        BY <1>3, <2>2
    <3> QED
        BY <1>1, <2>1, <2>2, <3>1 DEF Distinct
  <2>3. CASE i \in 1 .. m /\ j \notin 1 .. m
    <3>1. c[i] = a[i] /\ j - m \in 1 .. n /\ c[j] = b[j - m]
        BY <1>3, <1>4, <2>3
    <3> QED
        BY <1>1, <2>1, <2>3, <3>1 DEF Apart
  <2>4. CASE i \notin 1 .. m /\ j \in 1 .. m
    <3>1. c[j] = a[j] /\ i - m \in 1 .. n /\ c[i] = b[i - m]
        BY <1>3, <1>4, <2>4
    <3> QED
        BY <1>1, <2>1, <2>4, <3>1 DEF Apart
  <2>5. CASE i \notin 1 .. m /\ j \notin 1 .. m
    <3>1. i - m \in 1 .. n /\ c[i] = b[i - m] /\ j - m \in 1 .. n /\ c[j] = b[j - m]
        BY <1>3, <1>4, <2>5
    <3>2. i - m = j - m
        BY <1>1, <2>1, <3>1 DEF Distinct
    <3> QED
        BY <1>1, <3>2
  <2> QED
      BY <2>2, <2>3, <2>4, <2>5
<1>6. Held(c) = Held(a) \cup Held(b)
  <2>1. ASSUME NEW i \in 1 .. m + n PROVE c[i] \in Held(a) \cup Held(b)
    <3>1. CASE i \in 1 .. m
        BY <1>1, <1>3, <3>1 DEF Held
    <3>2. CASE i \notin 1 .. m
        BY <1>1, <1>3, <1>4, <3>2 DEF Held
    <3> QED
        BY <3>1, <3>2
  <2>2. ASSUME NEW i \in 1 .. m PROVE a[i] \in Held(c)
    <3>1. i \in 1 .. m + n /\ a[i] = c[i]
        BY <1>1, <1>3
    <3> QED
        BY <1>3, <3>1 DEF Held
  <2>3. ASSUME NEW i \in 1 .. n PROVE b[i] \in Held(c)
    <3>1. i + m \in m + 1 .. m + n /\ (i + m) - m = i /\ i + m \in 1 .. m + n
        BY <1>1
    <3>2. b[i] = c[i + m]
        BY <1>3, <3>1
    <3> QED
        BY <1>3, <3>1, <3>2 DEF Held
  <2>4. Held(c) = {c[i] : i \in 1 .. m + n} /\ Held(a) = {a[i] : i \in 1 .. m}
        /\ Held(b) = {b[i] : i \in 1 .. n}
      BY <1>1, <1>3 DEF Held
  <2>5. \A y \in Held(c) : y \in Held(a) \cup Held(b)
      BY <2>1, <2>4
  <2>6. (\A y \in Held(a) : y \in Held(c)) /\ \A y \in Held(b) : y \in Held(c)
      BY <2>2, <2>3, <2>4
  <2> QED
      BY <2>5, <2>6
<1> QED
    BY <1>2, <1>5, <1>6 DEF c

\* The walk over all chains meets every node once.
LEMMA NodesIs ==
    ASSUME NEW V, NEW n \in Nat \ {0}, NEW h, Good(h.buckets, n, V)
    PROVE  /\ Nodes(h) \in Seq(NodeSet(V)) /\ Distinct(Nodes(h))
           /\ Held(Nodes(h)) = Entries(h.buckets, n)
<1> DEFINE b == h.buckets
           N == NodeSet(V)
           seqs == [i \in 1 .. n |-> b[i - 1]]
<1>1. Nodes(h) = FlattenSeq(seqs)
  <2>1. Width(h) = n
    <3>1. DOMAIN b = 0 .. n - 1
        BY DEF Good, Chains
    <3>2. Cardinality(0 .. n - 1) = n
        BY FS_Interval
    <3> QED
        BY <3>1, <3>2 DEF Width
  <2> QED
      BY <2>1 DEF Nodes
<1> HIDE DEF b, N
<1>2. Good(b, n, V)
    BY DEF b
<1>3. ASSUME NEW i \in 0 .. n - 1 PROVE b[i] \in Seq(N) /\ DOMAIN b[i] = 1 .. Len(b[i])
    BY <1>2, ChainIs DEF N
<1>4. seqs \in Seq(Seq(N)) /\ Len(seqs) = n
  <2>1. \A i \in 1 .. n : i - 1 \in 0 .. n - 1
      OBVIOUS
  <2>2. \A i \in 1 .. n : b[i - 1] \in Seq(N)
      BY <1>3, <2>1
  <2> QED
      BY <2>2
<1>5. PICK f : Flattens(f, seqs, n, N)
    BY <1>4, FlatExists
<1>6. /\ FlattenSeq(seqs) = f[n] /\ f \in [1 .. n -> Seq(N)] /\ f[1] = b[0]
      /\ \A i \in 2 .. n : f[i] = f[i - 1] \o b[i - 1]
  <2>1. 1 \in 1 .. n /\ \A i \in 2 .. n : i \in 1 .. n
      OBVIOUS
  <2>2. seqs[1] = b[0] /\ \A i \in 2 .. n : seqs[i] = b[i - 1]
      BY <2>1
  <2> HIDE DEF seqs
  <2> QED
      BY <1>5, <2>2 DEF Flattens
<1> HIDE DEF seqs
<1> DEFINE Holds(i) == Distinct(f[i]) /\ Held(f[i]) = Entries(b, i)
           D == {i \in 0 .. n : i = 0 \/ Holds(i)}
<1>7. ASSUME NEW i \in 0 .. n - 1
      PROVE  /\ Distinct(b[i])
             /\ Entries(b, i + 1) = Entries(b, i) \cup Held(b[i])
             /\ \A x \in Held(b[i]) : Slot(n, x.key) = i
  <2>1. Distinct(b[i])
    <3>1. \A j, l \in DOMAIN b[i] : b[i][j].key = b[i][l].key => j = l
        BY <1>2 DEF Good, Single
    <3> QED
        BY <3>1 DEF Distinct
  <2>2. Entries(b, i + 1) = Entries(b, i) \cup Held(b[i])
    <3>1. 0 .. (i + 1) - 1 = (0 .. i - 1) \cup {i}
        OBVIOUS
    <3> QED
        BY <3>1 DEF Entries, Held
  <2>3. \A j \in DOMAIN b[i] : Slot(n, b[i][j].key) = i
      BY <1>2 DEF Good, Placed
  <2> QED
      BY <2>1, <2>2, <2>3 DEF Held
<1>8. 0 \in D
    OBVIOUS
<1>9. ASSUME NEW i \in 1 .. n, i - 1 \in D PROVE i \in D
  <2> DEFINE k == i - 1
  <2>1. k \in 0 .. n - 1 /\ i \in 0 .. n /\ k + 1 = i
      OBVIOUS
  <2>2. CASE i = 1
    <3>1. f[i] = b[k] /\ k = 0
        BY <1>6, <2>2
    <3>2. Entries(b, 0) = {}
        BY DEF Entries
    <3> HIDE DEF k
    <3>3. Entries(b, i) = Entries(b, k) \cup Held(b[k]) /\ Distinct(b[k])
        BY <1>7, <2>1
    <3>4. Holds(i)
        BY <3>1, <3>2, <3>3
    <3> QED
        BY <2>1, <3>4
  <2>3. CASE i # 1
    <3>1. f[i] = f[k] \o b[k] /\ k \in 1 .. n /\ Distinct(f[k]) /\ Held(f[k]) = Entries(b, k)
      <4>1. i \in 2 .. n /\ k \in 1 .. n /\ k # 0
          BY <2>3
      <4>2. f[i] = f[i - 1] \o b[i - 1]
          BY <1>6, <4>1
      <4>3. Holds(k)
        <5> HIDE DEF Holds
        <5> QED
            BY <1>9, <4>1
      <4> QED
          BY <4>1, <4>2, <4>3
    <3> HIDE DEF k
    <3>2. /\ Entries(b, i) = Entries(b, k) \cup Held(b[k]) /\ Distinct(b[k])
          /\ \A x \in Held(b[k]) : Slot(n, x.key) = k
        BY <1>7, <2>1
    <3>3. f[k] \in Seq(N) /\ b[k] \in Seq(N)
        BY <1>3, <1>6, <2>1, <3>1
    <3>4. ASSUME NEW x \in Entries(b, k) PROVE Slot(n, x.key) # k
      <4>1. PICK l \in 0 .. k - 1 : \E j \in DOMAIN b[l] : x = b[l][j]
          BY EntryIs
      <4>2. PICK j \in DOMAIN b[l] : x = b[l][j]
          BY <4>1
      <4>3. l \in 0 .. n - 1 /\ l # k
          BY <2>1
      <4>4. Slot(n, b[l][j].key) = l
          BY <1>2, <4>3 DEF Good, Placed
      <4> QED
          BY <4>2, <4>3, <4>4
    <3>5. ASSUME NEW j \in DOMAIN f[k], NEW l \in DOMAIN b[k] PROVE f[k][j].key # b[k][l].key
      <4>1. f[k][j] \in Entries(b, k)
        <5>1. f[k][j] \in Held(f[k])
            BY DEF Held
        <5> QED
            BY <3>1, <5>1
      <4>2. b[k][l] \in Held(b[k])
          BY DEF Held
      <4>3. Slot(n, f[k][j].key) # k
          BY <3>4, <4>1
      <4>4. Slot(n, b[k][l].key) = k
          BY <3>2, <4>2
      <4> QED
          BY <4>3, <4>4
    <3>6. Apart(f[k], b[k])
        BY <3>5 DEF Apart
    <3>7. Distinct(f[k] \o b[k]) /\ Held(f[k] \o b[k]) = Held(f[k]) \cup Held(b[k])
        BY <3>1, <3>2, <3>3, <3>6, DistinctJoin
    <3>8. Holds(i)
        BY <3>1, <3>2, <3>7
    <3> QED
        BY <2>1, <3>8
  <2> QED
      BY <2>2, <2>3
<1> HIDE DEF D
<1>10. n \in D
    BY <1>8, <1>9, CountUp
<1>11. Holds(n)
    BY <1>10 DEF D
<1>12. f[n] \in Seq(N)
    BY <1>6
<1> QED
    BY <1>1, <1>6, <1>11, <1>12 DEF b, N

\* A table of width n with values in V, as strong as it is between two calls.
Keys(h, n) == KeysIn(Entries(h.buckets, n))

Well(h, n, V) ==
    /\ Good(h.buckets, n, V)
    /\ IsFiniteSet(Keys(h, n)) /\ h.size = Cardinality(Keys(h, n))
    /\ 4 * (h.size - 1) <= 3 * n
    /\ h.collisions \in Nat /\ IsFiniteSet(Occupied(h.buckets))
    /\ h.collisions + Cardinality(Occupied(h.buckets)) >= h.size

\* A table in the sense of Well is sound.
LEMMA WellIsSound ==
    ASSUME NEW V, NEW n \in Nat \ {0}, NEW h, Well(h, n, V)
    PROVE  Sound(h) /\ h.size \in Nat /\ h.collisions \in Nat /\ DOMAIN h.buckets = 0 .. Width(h) - 1
<1> DEFINE b == h.buckets
<1>1. Good(b, n, V) /\ DOMAIN b = 0 .. n - 1
    BY DEF Well, Good, Chains
<1>2. Width(h) = n
  <2>1. Cardinality(0 .. n - 1) = n
      BY FS_Interval
  <2> QED
      BY <1>1, <2>1 DEF Width
<1> HIDE DEF b
<1>3. ASSUME NEW k \in Terms
      PROVE  (At(h, k) # {} <=> k \in Keys(h, n)) /\ \A i, j \in At(h, k) : i = j
  <2>1. Good(h.buckets, n, V)
      BY DEF Well
  <2>2. Gets(h, n, k)
      BY <2>1, GetIs
  <2> QED
      BY <2>2 DEF Gets, Keys
<1>4. Keys(h, n) = {k \in Terms : At(h, k) # {}}
  <2>1. ASSUME NEW x \in Entries(b, n) PROVE x.key \in Terms
    <3>1. Hangs(x, b, n, V)
        BY <1>1, EntryAt
    <3> QED
        BY <3>1 DEF Hangs
  <2>2. Keys(h, n) \subseteq Terms
      BY <2>1 DEF Keys, KeysIn, b
  <2> QED
      BY <1>3, <2>2
<1>5. Cardinality(Occupied(b)) \in Nat /\ h.size \in Nat
    BY FS_CardinalityType DEF Well, b
<1>6. \A i \in DOMAIN h.buckets : \A j \in DOMAIN h.buckets[i] : Slot(Width(h), h.buckets[i][j].key) = i
    BY <1>1, <1>2 DEF Good, Placed, b
<1>7. h.size = Cardinality({k \in Terms : At(h, k) # {}})
    BY <1>4 DEF Well
<1>8. 4 * (h.size - 1) <= 3 * Width(h)
    BY <1>2 DEF Well
<1>9. h.collisions >= h.size - Cardinality(Occupied(h.buckets))
  <2> DEFINE o == Cardinality(Occupied(h.buckets))
  <2>1. o \in Nat /\ h.collisions \in Nat /\ h.collisions + o >= h.size
      BY <1>5 DEF Well, b
  <2> HIDE DEF o
  <2>2. h.collisions >= h.size - o
      BY <1>5, <2>1
  <2> QED
      BY <2>2 DEF o
<1>10. Sound(h)
    BY <1>3, <1>6, <1>7, <1>8, <1>9 DEF Sound
<1> QED
    BY <1>1, <1>2, <1>5, <1>10 DEF Well, b

\* Resizing keeps the nodes.
LEMMA ResizeIs ==
    ASSUME NEW V, NEW n \in Nat \ {0}, NEW h, Well(h, n, V)
    PROVE  /\ Well(Resize(h), 2 * n, V) /\ Resize(h).size = h.size
           /\ Entries(Resize(h).buckets, 2 * n) = Entries(h.buckets, n)
<1> DEFINE nodes == Nodes(h)
           w == 2 * n
           new == Spread(nodes, w)
           m == Len(nodes)
           o == Cardinality(Occupied(new))
<1>1. w \in Nat \ {0} /\ Good(h.buckets, n, V)
    BY DEF Well
<1>2. nodes \in Seq(NodeSet(V)) /\ Distinct(nodes) /\ Held(nodes) = Entries(h.buckets, n)
    BY <1>1, NodesIs
<1>3. Resize(h) = [buckets |-> new, size |-> h.size, collisions |-> m - o]
  <2>1. Cardinality(0 .. n - 1) = n
      BY FS_Interval
  <2>2. Width(h) = n
      BY <1>1, <2>1 DEF Good, Chains, Width
  <2> QED
      BY <2>2 DEF Resize, Rebuilt
<1> HIDE DEF nodes, w
<1>4. Good(new, w, V) /\ Entries(new, w) = Held(nodes) /\ IsFiniteSet(Occupied(new)) /\ o <= m
    BY <1>1, <1>2, SpreadIs
<1>5. IsFiniteSet(KeysIn(Held(nodes))) /\ Cardinality(KeysIn(Held(nodes))) = m
    BY <1>2, KeysCounted
<1>6. h.size = m
    BY <1>2, <1>5 DEF Well, Keys
<1>7. o \in Nat /\ m \in Nat
    BY <1>2, <1>4, FS_CardinalityType
<1>8. Resize(h).buckets = new /\ Resize(h).size = m /\ Resize(h).collisions = m - o
    BY <1>3, <1>6
<1>9. 4 * (m - 1) <= 3 * n
    BY <1>6 DEF Well
<1> HIDE DEF new, m, o
<1>10. m - o \in Nat /\ (m - o) + o >= m /\ 4 * (m - 1) <= 3 * w
    BY <1>4, <1>7, <1>9 DEF w
<1>11. Keys(Resize(h), w) = KeysIn(Held(nodes))
    BY <1>4, <1>8 DEF Keys
<1>12. Well(Resize(h), w, V)
    BY <1>4, <1>5, <1>8, <1>10, <1>11 DEF Well, o
<1> QED
    BY <1>2, <1>4, <1>6, <1>8, <1>12 DEF w

\* After growing there is room for one more key.
Roomy(g, h, m, n, V) ==
    /\ m \in Nat \ {0} /\ Well(g, m, V) /\ 4 * g.size <= 3 * m
    /\ Entries(g.buckets, m) = Entries(h.buckets, n)

LEMMA GrowIs ==
    ASSUME NEW V, NEW n \in Nat \ {0}, NEW h, Well(h, n, V)
    PROVE  \E m : Roomy(Grow(h), h, m, n, V)
<1>1. h.size \in Nat /\ 4 * (h.size - 1) <= 3 * n
    BY FS_CardinalityType DEF Well
<1>2. Width(h) = n
  <2>1. Cardinality(0 .. n - 1) = n
      BY FS_Interval
  <2> QED
      BY <2>1 DEF Well, Good, Chains, Width
<1>3. CASE 4 * h.size > 3 * n
  <2>1. Grow(h) = Resize(h)
      BY <1>2, <1>3 DEF Grow
  <2>2. 2 * n \in Nat \ {0} /\ 4 * h.size <= 3 * (2 * n)
      BY <1>1, <1>3
  <2>3. Roomy(Grow(h), h, 2 * n, n, V)
      BY <2>1, <2>2, ResizeIs DEF Roomy
  <2> QED
      BY <2>3
<1>4. CASE ~(4 * h.size > 3 * n)
  <2>1. Grow(h) = h
      BY <1>2, <1>4 DEF Grow
  <2>2. 4 * h.size <= 3 * n
      BY <1>1, <1>4
  <2>3. Roomy(Grow(h), h, n, n, V)
      BY <2>1, <2>2 DEF Roomy
  <2> QED
      BY <2>3
<1> QED
    BY <1>3, <1>4

\* What is found under a key, as a fact about the nodes.
LEMMA Found ==
    ASSUME NEW V, NEW n \in Nat \ {0}, NEW h, Well(h, n, V), NEW k \in Terms
    PROVE  \/ k \in Keys(h, n) /\ Get(h, k) \in V /\ [key |-> k, value |-> Get(h, k)] \in Entries(h.buckets, n)
           \/ k \notin Keys(h, n) /\ Get(h, k) = NotFound
<1>1. Good(h.buckets, n, V)
    BY DEF Well
<1>2. Gets(h, n, k)
    BY <1>1, GetIs
<1>3. CASE k \in Keys(h, n)
  <2>1. PICK x \in Entries(h.buckets, n) : x.key = k
      BY <1>3 DEF Keys, KeysIn
  <2>2. Hangs(x, h.buckets, n, V)
      BY <1>1, EntryAt
  <2>3. x.value = Get(h, k)
      BY <1>2, <2>1 DEF Gets
  <2> QED
      BY <1>3, <2>1, <2>2, <2>3 DEF Hangs
<1>4. CASE k \notin Keys(h, n)
    BY <1>2, <1>4 DEF Gets, Keys
<1> QED
    BY <1>3, <1>4

LEMMA FoundIs ==
    ASSUME NEW V, NEW n \in Nat \ {0}, NEW h, Well(h, n, V), NEW k \in Terms, NEW v,
           [key |-> k, value |-> v] \in Entries(h.buckets, n)
    PROVE  Get(h, k) = v
<1>1. Gets(h, n, k)
    BY GetIs DEF Well
<1> DEFINE x == [key |-> k, value |-> v]
<1>2. x \in Entries(h.buckets, n) /\ x.key = k /\ x.value = v
    OBVIOUS
<1> HIDE DEF x
<1> QED
    BY <1>1, <1>2 DEF Gets

\* From h the table g differs in the value of key k only, which is v.
Changed(g, m, h, n, V, k, v) ==
    /\ Well(g, m, V) /\ Keys(g, m) = Keys(h, n) \cup {k}
    /\ Get(g, k) = v /\ \A j \in Terms : j # k => Get(g, j) = Get(h, j)

\* It does when the nodes do.
LEMMA NodesChanged ==
    ASSUME NEW V, NEW n \in Nat \ {0}, NEW h, Well(h, n, V),
           NEW m \in Nat \ {0}, NEW g, Well(g, m, V), NEW k \in Terms, NEW v \in V,
           Entries(g.buckets, m) = {x \in Entries(h.buckets, n) : x.key # k} \cup {[key |-> k, value |-> v]}
    PROVE  Changed(g, m, h, n, V, k, v)
<1> DEFINE E == Entries(h.buckets, n)
           F == Entries(g.buckets, m)
           y == [key |-> k, value |-> v]
<1>1. F = {x \in E : x.key # k} \cup {y} /\ y.key = k
    OBVIOUS
<1>2. Keys(g, m) = Keys(h, n) \cup {k}
  <2> HIDE DEF E, F, y
  <2>1. KeysIn(F) = KeysIn(E) \cup {k}
      BY <1>1 DEF KeysIn
  <2> QED
      BY <2>1 DEF Keys, E, F
<1>3. Get(g, k) = v
    BY <1>1, FoundIs
<1>4. ASSUME NEW j \in Terms, j # k PROVE Get(g, j) = Get(h, j)
  <2>1. CASE j \in Keys(h, n)
    <3> DEFINE u == Get(h, j)
               x == [key |-> j, value |-> u]
    <3>1. x \in E /\ x.key = j
        BY <2>1, Found
    <3> HIDE DEF E, y, F, u
    <3>2. x \in F
        BY <1>1, <1>4, <3>1
    <3>3. Get(g, j) = u
        BY <3>2, FoundIs DEF F
    <3> QED
        BY <3>3 DEF u
  <2>2. CASE j \notin Keys(h, n)
    <3>1. j \notin Keys(g, m)
        BY <1>2, <1>4, <2>2
    <3>2. Get(g, j) = NotFound
        BY <3>1, Found
    <3>3. Get(h, j) = NotFound
        BY <2>2, Found
    <3> QED
        BY <3>2, <3>3
  <2> QED
      BY <2>1, <2>2
<1> QED
    BY <1>2, <1>3, <1>4 DEF Changed

\* Chains with the same keys.
Alike(new, b, n) ==
    \A i \in 0 .. n - 1 : DOMAIN new[i] = DOMAIN b[i] /\ \A j \in DOMAIN b[i] : new[i][j].key = b[i][j].key

LEMMA AlikeKeeps ==
    ASSUME NEW V, NEW n \in Nat \ {0}, NEW h, Well(h, n, V),
           NEW new \in Chains(n, V), Alike(new, h.buckets, n)
    PROVE  Well(WithBuckets(h, new), n, V) /\ Keys(WithBuckets(h, new), n) = Keys(h, n)
<1> DEFINE b == h.buckets
           g == WithBuckets(h, new)
<1>1. g.buckets = new /\ g.size = h.size /\ g.collisions = h.collisions
    BY DEF WithBuckets
<1> HIDE DEF b, g
<1>2. Good(b, n, V) /\ Alike(new, b, n)
    BY DEF Well, b
<1>3. Good(new, n, V)
    BY <1>2 DEF Good, Placed, Single, Alike
<1>4. KeysIn(Entries(new, n)) = KeysIn(Entries(b, n))
  <2>1. \A k : k \in KeysIn(Entries(new, n)) <=> \E i \in 0 .. n - 1 : \E j \in DOMAIN new[i] : k = new[i][j].key
      BY EntryIs DEF KeysIn
  <2>2. \A k : k \in KeysIn(Entries(b, n)) <=> \E i \in 0 .. n - 1 : \E j \in DOMAIN b[i] : k = b[i][j].key
      BY EntryIs DEF KeysIn
  <2>3. \A k : \A i \in 0 .. n - 1 : (\E j \in DOMAIN new[i] : k = new[i][j].key)
                                 <=> \E j \in DOMAIN b[i] : k = b[i][j].key
      BY <1>2 DEF Alike
  <2> QED
      BY <2>1, <2>2, <2>3
<1>5. Occupied(new) = Occupied(b)
  <2>1. DOMAIN new = 0 .. n - 1 /\ DOMAIN b = 0 .. n - 1
      BY <1>2, <1>3 DEF Good, Chains
  <2>2. ASSUME NEW i \in 0 .. n - 1 PROVE new[i] = <<>> <=> b[i] = <<>>
    <3>1. new[i] \in Seq(NodeSet(V)) /\ b[i] \in Seq(NodeSet(V))
        BY <1>2, <1>3, ChainIs
    <3>2. DOMAIN new[i] = DOMAIN b[i]
        BY <1>2 DEF Alike
    <3>3. ASSUME NEW s \in Seq(NodeSet(V)) PROVE s = <<>> <=> DOMAIN s = {}
      <4> DEFINE N == NodeSet(V)
      <4> HIDE DEF N
      <4>1. s \in Seq(N)
          BY DEF N
      <4> QED
          BY <4>1
    <3> QED
        BY <3>1, <3>2, <3>3
  <2> QED
      BY <2>1, <2>2 DEF Occupied
<1>6. Keys(g, n) = Keys(h, n)
    BY <1>1, <1>4 DEF Keys, b
<1>7. Well(g, n, V)
    BY <1>1, <1>3, <1>5, <1>6 DEF Well, b
<1> QED
    BY <1>6, <1>7 DEF g

\* A sequence with one element replaced.
LEMMA OneReplaced ==
    ASSUME NEW S, NEW s \in Seq(S), NEW p \in DOMAIN s, NEW y \in S
    PROVE  /\ [s EXCEPT ![p] = y] \in Seq(S) /\ DOMAIN [s EXCEPT ![p] = y] = DOMAIN s
           /\ [s EXCEPT ![p] = y][p] = y
           /\ \A j \in DOMAIN s : j # p => [s EXCEPT ![p] = y][j] = s[j]
OBVIOUS

\* The value of a known key is replaced.
LEMMA AssignIs ==
    ASSUME NEW V, NEW n \in Nat \ {0}, NEW h, Well(h, n, V), NEW k \in Keys(h, n), NEW v \in V
    PROVE  Changed(Assign(h, k, v), n, h, n, V, k, v)
<1> DEFINE b == h.buckets
           s == Slot(n, k)
           p == Node(h, k)
           y == [key |-> k, value |-> v]
           c == b[s]
           d == [c EXCEPT ![p] = y]
           new == [b EXCEPT ![s] = d]
           g == Assign(h, k, v)
<1>1. Good(b, n, V)
    BY DEF Well
<1>2. k \in Terms
  <2>1. PICK x \in Entries(b, n) : x.key = k
      BY DEF Keys, KeysIn
  <2>2. Hangs(x, b, n, V)
      BY <1>1, EntryAt
  <2> QED
      BY <2>1, <2>2 DEF Hangs
<1>3. Gets(h, n, k)
    BY <1>1, <1>2, GetIs
<1>4. Width(h) = n /\ p \in DOMAIN c /\ c[p].key = k
    BY <1>3 DEF Gets, Keys
<1>5. s \in 0 .. n - 1 /\ c \in Seq(NodeSet(V)) /\ b \in [0 .. n - 1 -> Seq(NodeSet(V))]
  <2>1. s \in 0 .. n - 1
      BY <1>2, SlotIs
  <2> QED
      BY <1>1, <2>1 DEF Good, Chains
<1>6. g = WithBuckets(h, new)
    BY <1>4 DEF Assign
<1>7. y \in NodeSet(V) /\ y.key = k
    BY <1>2 DEF NodeSet
<1> HIDE DEF b, s, p, y
<1>8. d \in Seq(NodeSet(V)) /\ DOMAIN d = DOMAIN c /\ d[p] = y /\ \A j \in DOMAIN c : j # p => d[j] = c[j]
  <2> HIDE DEF c
  <2> QED
      BY <1>4, <1>5, <1>7, OneReplaced
<1> HIDE DEF d
<1>9. new \in [0 .. n - 1 -> Seq(NodeSet(V))] /\ new[s] = d /\ \A i \in 0 .. n - 1 : i # s => new[i] = b[i]
  <2> HIDE DEF c
  <2> QED
      BY <1>5, <1>8
<1> HIDE DEF new
<1>10. new \in Chains(n, V)
    BY <1>9 DEF Chains
<1>11. Alike(new, b, n)
  <2>1. ASSUME NEW i \in 0 .. n - 1
        PROVE  DOMAIN new[i] = DOMAIN b[i] /\ \A j \in DOMAIN b[i] : new[i][j].key = b[i][j].key
    <3>1. CASE i = s
      <4>1. \A j \in DOMAIN c : d[j].key = c[j].key
          BY <1>4, <1>7, <1>8
      <4> QED
          BY <1>8, <1>9, <3>1, <4>1
    <3>2. CASE i # s
        BY <1>9, <3>2
    <3> QED
        BY <3>1, <3>2
  <2> QED
      BY <2>1 DEF Alike
<1>12. Well(g, n, V) /\ g.buckets = new
  <2>1. Well(WithBuckets(h, new), n, V)
      BY <1>10, <1>11, AlikeKeeps DEF b
  <2> QED
      BY <1>6, <2>1 DEF WithBuckets
<1>13. Entries(new, n) = {x \in Entries(b, n) : x.key # k} \cup {y}
  <2>1. ASSUME NEW x \in Entries(new, n) PROVE x = y \/ (x \in Entries(b, n) /\ x.key # k)
    <3>1. PICK i \in 0 .. n - 1 : \E j \in DOMAIN new[i] : x = new[i][j]
        BY EntryIs
    <3>2. PICK j \in DOMAIN new[i] : x = new[i][j]
        BY <3>1
    <3>3. CASE i = s /\ j = p
        BY <1>8, <1>9, <3>2, <3>3
    <3>4. CASE i = s /\ j # p
      <4>1. j \in DOMAIN b[s] /\ x = b[s][j]
          BY <1>8, <1>9, <3>2, <3>4
      <4>2. x \in Entries(b, n)
          BY <1>5, <4>1, EntryIs
      <4>3. x.key # k
        <5>1. SUFFICES ASSUME x.key = k PROVE FALSE
            OBVIOUS
        <5>2. p \in DOMAIN b[s] /\ b[s][j].key = b[s][p].key
            BY <1>4, <4>1, <5>1
        <5>3. j = p
            BY <1>1, <1>5, <4>1, <5>2, KeyOnce
        <5> QED
            BY <3>4, <5>3
      <4> QED
          BY <4>2, <4>3
    <3>5. CASE i # s
      <4>1. j \in DOMAIN b[i] /\ x = b[i][j]
          BY <1>9, <3>2, <3>5
      <4>2. IsNode(b[i][j], b, n, V, i)
          BY <1>1, <4>1, NodeIs
      <4>3. Slot(n, x.key) = i /\ x \in Entries(b, n)
          BY <4>1, <4>2 DEF IsNode
      <4> QED
          BY <3>5, <4>3 DEF s
    <3> QED
        BY <3>3, <3>4, <3>5
  <2>2. y \in Entries(new, n)
    <3>1. p \in DOMAIN new[s] /\ y = new[s][p]
        BY <1>4, <1>8, <1>9
    <3> QED
        BY <1>5, <3>1, EntryIs
  <2>3. ASSUME NEW x \in Entries(b, n), x.key # k PROVE x \in Entries(new, n)
    <3>1. PICK i \in 0 .. n - 1 : \E j \in DOMAIN b[i] : x = b[i][j]
        BY EntryIs
    <3>2. PICK j \in DOMAIN b[i] : x = b[i][j]
        BY <3>1
    <3>3. j \in DOMAIN new[i] /\ x = new[i][j]
      <4>1. CASE i = s
          BY <1>4, <1>8, <1>9, <2>3, <3>2, <4>1
      <4>2. CASE i # s
          BY <1>9, <3>2, <4>2
      <4> QED
          BY <4>1, <4>2
    <3> QED
        BY <3>3, EntryIs
  <2> QED
      BY <2>1, <2>2, <2>3
<1> QED
    BY <1>2, <1>12, <1>13, NodesChanged DEF b, y

\* A new key is put: the table may grow, and the node is pushed.
PutAt(m, h, n, V, k, v) ==
    /\ m \in Nat \ {0} /\ Changed(Put(h, k, v), m, h, n, V, k, v)
    /\ Put(h, k, v).size = h.size + 1

LEMMA PutIs ==
    ASSUME NEW V, NEW n \in Nat \ {0}, NEW h, Well(h, n, V),
           NEW k \in Terms, k \notin Keys(h, n), NEW v \in V
    PROVE  \E m : PutAt(m, h, n, V, k, v)
<1> DEFINE y == [key |-> k, value |-> v]
           g == Grow(h)
           b == g.buckets
           p == Put(h, k, v)
<1>1. PICK m : Roomy(g, h, m, n, V)
    BY GrowIs
<1>2. m \in Nat \ {0} /\ Well(g, m, V) /\ 4 * g.size <= 3 * m /\ Entries(b, m) = Entries(h.buckets, n)
    BY <1>1 DEF Roomy
<1> DEFINE s == Slot(m, k)
           clash == IF b[s] = <<>> THEN 0 ELSE 1
           O == Occupied(b)
           o == Cardinality(O)
           new == Pushed(b, y, m)
<1>3. y \in NodeSet(V) /\ y.key = k
    BY DEF NodeSet
<1>4. k \notin KeysIn(Entries(b, m)) /\ Keys(g, m) = KeysIn(Entries(b, m)) /\ Keys(h, n) = KeysIn(Entries(b, m))
    BY <1>2 DEF Keys
<1>5. Good(b, m, V)
    BY <1>2 DEF Well
<1>6. At(g, k) = {} /\ Width(g) = m
  <2>1. Gets(g, m, k)
      BY <1>2, <1>5, GetIs
  <2> QED
      BY <1>4, <2>1 DEF Gets
<1>7. p = [buckets |-> new, size |-> g.size + 1, collisions |-> g.collisions + clash]
    BY <1>6 DEF Put
<1> HIDE DEF p, y, b, s
<1>8. Good(new, m, V) /\ Entries(new, m) = Entries(b, m) \cup {y} /\ Occupied(new) = O \cup {s}
    BY <1>2, <1>3, <1>4, <1>5, PushIs DEF s
<1> HIDE DEF new
<1>9. s \in 0 .. m - 1 /\ DOMAIN b = 0 .. m - 1
    BY <1>2, <1>5, SlotIs DEF Good, Chains, s
<1>10. s \in O <=> clash = 1
    BY <1>9 DEF Occupied
<1>11. clash \in {0, 1}
    OBVIOUS
<1> HIDE DEF clash, O
<1>12. IsFiniteSet(O) /\ o \in Nat /\ IsFiniteSet(O \cup {s})
       /\ Cardinality(O \cup {s}) = IF s \in O THEN o ELSE o + 1
  <2>1. IsFiniteSet(O)
      BY <1>2 DEF Well, O, b
  <2> QED
      BY <2>1, FS_CardinalityType, FS_AddElement
<1>13. Keys(p, m) = KeysIn(Entries(b, m)) \cup {k}
    BY <1>3, <1>7, <1>8 DEF Keys, KeysIn
<1>14. IsFiniteSet(Keys(p, m)) /\ Cardinality(Keys(p, m)) = g.size + 1 /\ g.size \in Nat
  <2> DEFINE K == Keys(g, m)
  <2>1. IsFiniteSet(K) /\ g.size = Cardinality(K)
      BY <1>2 DEF Well
  <2>2. k \notin K /\ Keys(p, m) = K \cup {k}
      BY <1>4, <1>13
  <2> HIDE DEF K
  <2> QED
      BY <2>1, <2>2, FS_AddElement, FS_CardinalityType
<1>15. g.collisions \in Nat /\ g.collisions + o >= g.size
    BY <1>2 DEF Well, O, b
<1>16. p.size = g.size + 1 /\ p.collisions = g.collisions + clash /\ p.buckets = new
    BY <1>7
<1> DEFINE q == Cardinality(O \cup {s})
<1>17. q = o + 1 - clash
    BY <1>10, <1>11, <1>12
<1> HIDE DEF o, q
<1>18. p.collisions \in Nat /\ p.collisions + q >= p.size /\ 4 * (p.size - 1) <= 3 * m
    BY <1>2, <1>11, <1>12, <1>14, <1>15, <1>16, <1>17
<1>19. Well(p, m, V)
    BY <1>8, <1>12, <1>14, <1>16, <1>18 DEF Well, q
<1>20. Entries(p.buckets, m) = {x \in Entries(h.buckets, n) : x.key # k} \cup {y}
  <2>1. \A x \in Entries(b, m) : x.key # k
      BY <1>4 DEF KeysIn
  <2>2. Entries(b, m) = Entries(h.buckets, n)
      BY <1>2 DEF b
  <2> QED
      BY <1>8, <1>16, <2>1, <2>2
<1>21. Changed(p, m, h, n, V, k, v)
    BY <1>2, <1>19, <1>20, NodesChanged DEF y
<1>22. p.size = h.size + 1
  <2>1. g.size = Cardinality(Keys(g, m)) /\ h.size = Cardinality(Keys(h, n))
      BY <1>2 DEF Well
  <2> QED
      BY <1>4, <1>16, <2>1
<1> QED
    BY <1>2, <1>21, <1>22 DEF PutAt, p

-----------------------------------------------------------------------------
(* Lists of postings.                                                       *)

Placing == Seq(Nat \ {0}) \ {<<>>}
Posting == [doc : Docs, positions : Placing]
OnePer(list) == \A k, l \in DOMAIN list : list[k].doc = list[l].doc => k = l
Lists == {list \in Seq(Posting) : OnePer(list)}

LEMMA NullApart == NotFound \notin Lists
<1>1. SUFFICES ASSUME NotFound \in Seq(Posting) PROVE FALSE
    BY DEF Lists
<1> DEFINE P == [doc : Docs, positions : Seq(Nat \ {0})]
           S == Posting
<1>2. \A x \in S : x \in P
    BY DEF Posting, Placing
<1>3. NotFound \in Seq(S)
    BY <1>1
<1> HIDE DEF S, P
<1>4. NotFound \in Seq(P)
    BY <1>2, <1>3
<1> QED
    BY <1>4, NullIsNoList DEF P

LEMMA ListIs ==
    ASSUME NEW list \in Lists
    PROVE  /\ list \in Seq(Posting) /\ OnePer(list)
           /\ Len(list) \in Nat /\ DOMAIN list = 1 .. Len(list)
           /\ \A k \in 1 .. Len(list) : list[k] \in Posting
<1>1. list \in Seq(Posting) /\ OnePer(list)
    BY DEF Lists
<1> QED
    BY <1>1, SeqIs

LEMMA NoPostings == <<>> \in Lists
<1>1. <<>> \in Seq(Posting) /\ DOMAIN <<>> = {}
    BY Nothing
<1> QED
    BY <1>1 DEF Lists, OnePer

\* A posting of d behind a list, and in the place of posting k.
Behind(list, d, ps) == Append(list, [doc |-> d, positions |-> ps])
InPlace(list, k, d, ps) == [list EXCEPT ![k] = [doc |-> d, positions |-> ps]]

\* A list that document d has no posting in gets one.
LEMMA ListAppended ==
    ASSUME NEW list \in Lists, NEW d \in Docs, Find(list, d) = {}, NEW ps \in Placing
    PROVE  Behind(list, d, ps) \in Lists
<1> DEFINE m == Len(list)
           x == [doc |-> d, positions |-> ps]
           new == Append(list, x)
<1>1. x \in Posting /\ x.doc = d
    BY DEF Posting
<1>2. list \in Seq(Posting) /\ OnePer(list) /\ m \in Nat /\ DOMAIN list = 1 .. m
    BY ListIs
<1> HIDE DEF x, m
<1>3. /\ new \in Seq(Posting) /\ DOMAIN new = 1 .. m + 1 /\ new[m + 1] = x
      /\ \A k \in 1 .. m : new[k] = list[k]
  <2> DEFINE S == Posting
  <2> HIDE DEF S
  <2>1. x \in S /\ list \in Seq(S)
      BY <1>1, <1>2 DEF S
  <2>2. /\ new \in Seq(S) /\ DOMAIN new = 1 .. m + 1 /\ new[m + 1] = x
        /\ \A k \in 1 .. m : new[k] = list[k]
      BY <2>1 DEF m
  <2> QED
      BY <2>2 DEF S
<1>4. \A k \in 1 .. m : list[k].doc # d
    BY <1>2 DEF Find
<1> HIDE DEF new
<1>5. OnePer(new)
  <2>1. SUFFICES ASSUME NEW k \in 1 .. m + 1, NEW l \in 1 .. m + 1, new[k].doc = new[l].doc PROVE k = l
      BY <1>3 DEF OnePer
  <2>2. \A j \in 1 .. m + 1 : j = m + 1 \/ j \in 1 .. m
      BY <1>2
  <2>3. CASE k \in 1 .. m /\ l \in 1 .. m
      BY <1>2, <1>3, <2>1, <2>3 DEF OnePer
  <2>4. CASE k = m + 1 /\ l \in 1 .. m
      BY <1>1, <1>3, <1>4, <2>1, <2>4
  <2>5. CASE k \in 1 .. m /\ l = m + 1
      BY <1>1, <1>3, <1>4, <2>1, <2>5
  <2> QED
      BY <2>2, <2>3, <2>4, <2>5
<1> QED
    BY <1>3, <1>5 DEF Lists, Behind, new, x

\* The posting of document d gets other positions.
LEMMA ListReplaced ==
    ASSUME NEW list \in Lists, NEW d \in Docs, NEW k \in Find(list, d), NEW ps \in Placing
    PROVE  InPlace(list, k, d, ps) \in Lists
<1> DEFINE x == [doc |-> d, positions |-> ps]
           new == [list EXCEPT ![k] = x]
<1>1. x \in Posting /\ x.doc = d
    BY DEF Posting
<1>2. list \in Seq(Posting) /\ OnePer(list) /\ k \in DOMAIN list /\ list[k].doc = d
    BY ListIs DEF Find
<1> HIDE DEF x
<1>3. new \in Seq(Posting) /\ DOMAIN new = DOMAIN list /\ new[k] = x
      /\ \A j \in DOMAIN list : j # k => new[j] = list[j]
    BY <1>1, <1>2, OneReplaced
<1> HIDE DEF new
<1>4. \A j \in DOMAIN list : new[j].doc = list[j].doc
    BY <1>1, <1>2, <1>3
<1>5. OnePer(new)
    BY <1>2, <1>3, <1>4 DEF OnePer
<1> QED
    BY <1>3, <1>5 DEF Lists, InPlace, new, x

LEMMA FoundOnce ==
    ASSUME NEW list \in Lists, NEW d, NEW k \in Find(list, d)
    PROVE  Find(list, d) = {k} /\ k \in DOMAIN list /\ list[k].doc = d
BY ListIs DEF Find, OnePer

\* A posting or a position is added.
LEMMA PostedIs ==
    ASSUME NEW list \in Lists, NEW d \in Docs, NEW pos \in Nat \ {0}
    PROVE  Posted(list, d, pos) \in Lists
<1>1. CASE Find(list, d) = {}
  <2>1. <<pos>> \in Placing
      BY DEF Placing
  <2> QED
    <3>1. Behind(list, d, <<pos>>) \in Lists
        BY <1>1, <2>1, ListAppended
    <3> QED
        BY <1>1, <3>1 DEF Posted, Behind
<1>2. CASE Find(list, d) # {}
  <2> DEFINE k == CHOOSE k \in Find(list, d) : TRUE
             ps == Append(list[k].positions, pos)
  <2>1. k \in Find(list, d)
      BY <1>2
  <2>2. Posted(list, d, pos) = [list EXCEPT ![k] = [doc |-> d, positions |-> ps]]
      BY <1>2 DEF Posted
  <2> HIDE DEF k
  <2>3. list[k].positions \in Seq(Nat \ {0})
    <3>1. list[k] \in Posting
        BY <2>1, ListIs, FoundOnce
    <3> QED
        BY <3>1 DEF Posting, Placing
  <2>4. ps \in Placing
    <3>1. ps \in Seq(Nat \ {0})
        BY <2>3, Appended
    <3>2. ps # <<>>
        BY <2>3
    <3> QED
        BY <3>1, <3>2 DEF Placing
  <2> HIDE DEF ps
  <2> QED
    <3>1. InPlace(list, k, d, ps) \in Lists
        BY <2>1, <2>4, ListReplaced
    <3> QED
        BY <2>2, <3>1 DEF InPlace
<1> QED
    BY <1>1, <1>2

\* An element is taken out and the rest moves up.
LEMMA RemoveAtIs ==
    ASSUME NEW S, NEW s \in Seq(S), NEW p \in DOMAIN s
    PROVE  RemoveAt(s, p) = [j \in 1 .. Len(s) - 1 |-> IF j < p THEN s[j] ELSE s[j + 1]]
<1> DEFINE n == Len(s)
           a == SubSeq(s, 1, p - 1)
           b == SubSeq(s, p + 1, n)
<1>1. n \in Nat /\ p \in 1 .. n
    BY SeqIs
<1>2. RemoveAt(s, p) = a \o b
    BY DEF RemoveAt
<1>3. a \in Seq(S) /\ Len(a) = p - 1 /\ \A j \in 1 .. p - 1 : a[j] = s[j]
    BY <1>1
<1>4. b \in Seq(S) /\ Len(b) = n - p /\ \A j \in 1 .. n - p : b[j] = s[j + p]
    BY <1>1
<1> HIDE DEF a, b, n
<1> DEFINE c == a \o b
<1>5. c \in Seq(S) /\ Len(c) = n - 1 /\ (\A j \in 1 .. p - 1 : c[j] = a[j])
      /\ \A j \in p .. n - 1 : c[j] = b[j - (p - 1)]
  <2>1. c \in Seq(S)
      BY <1>3, <1>4
  <2>2. /\ Len(c) = Len(a) + Len(b) /\ (\A j \in 1 .. Len(a) : c[j] = a[j])
        /\ \A j \in Len(a) + 1 .. Len(a) + Len(b) : c[j] = b[j - Len(a)]
    <3>1. a \in Seq(S) /\ b \in Seq(S)
        BY <1>3, <1>4
    <3> QED
        BY <3>1, Joined
  <2>3. Len(a) + Len(b) = n - 1 /\ Len(a) + 1 = p
      BY <1>1, <1>3, <1>4
  <2> HIDE DEF c
  <2> QED
      BY <1>3, <2>1, <2>2, <2>3
<1> HIDE DEF c
<1>6. \A j \in 1 .. n - 1 : c[j] = IF j < p THEN s[j] ELSE s[j + 1]
  <2>1. SUFFICES ASSUME NEW j \in 1 .. n - 1 PROVE c[j] = IF j < p THEN s[j] ELSE s[j + 1]
      OBVIOUS
  <2>2. CASE j < p
    <3>1. j \in 1 .. p - 1
        BY <1>1, <2>2
    <3> QED
        BY <1>3, <1>5, <2>2, <3>1
  <2>3. CASE ~(j < p)
    <3>1. j \in p .. n - 1 /\ j - (p - 1) \in 1 .. n - p /\ (j - (p - 1)) + p = j + 1
        BY <1>1, <2>3
    <3> QED
        BY <1>4, <1>5, <2>3, <3>1
  <2> QED
      BY <2>2, <2>3
<1>7. c = [j \in 1 .. n - 1 |-> c[j]]
    BY <1>1, <1>5
<1>8. c = [j \in 1 .. n - 1 |-> IF j < p THEN s[j] ELSE s[j + 1]]
    BY <1>6, <1>7
<1> QED
    BY <1>2, <1>8 DEF c, n

\* The loop of the abstract removal.
Leaves(f, list, d) ==
    /\ Abs!Without(list, d) = f[Len(list)]
    /\ f[0] = <<>>
    /\ \A k \in 1 .. Len(list) :
        f[k] = IF list[k].doc = d THEN f[k - 1] ELSE Append(f[k - 1], list[k])

LEMMA LeavesRuns ==
    ASSUME NEW S, NEW list \in Seq(S), NEW d
    PROVE  \E f : Leaves(f, list, d)
<1> DEFINE m == Len(list)
           Q == Seq(S)
           e == <<>>
           Turn(st, k) == IF list[k].doc = d THEN st ELSE Append(st, list[k])
           step == [w \in (1 .. m) \X Q |-> Turn(w[2], w[1])]
           Loop(g) == [k \in 0 .. m |-> IF k = 0 THEN e
                                        ELSE IF list[k].doc = d THEN g[k - 1]
                                        ELSE Append(g[k - 1], list[k])]
           after == CHOOSE g : g = Loop(g)
<1>1. Abs!Without(list, d) = after[m]
    BY DEF Abs!Without
<1>2. m \in Nat /\ \A k \in 1 .. m : list[k] \in S
    BY SeqIs
<1>3. e \in Q
    BY Nothing
<1>4. ASSUME NEW k \in 1 .. m, NEW st \in Q PROVE Turn(st, k) \in Q
    BY <1>2, Appended
<1> HIDE DEF e, Q, m, Turn
<1>5. step \in Bodies(m, Q)
    BY <1>4 DEF Bodies
<1>6. \A k \in 1 .. m, st \in Q : step[<<k, st>>] = Turn(st, k)
    OBVIOUS
<1> HIDE DEF step
<1>7. PICK f : Runs(f, m, Q, e, step)
    BY <1>2, <1>3, <1>5, LoopExists
<1>8. ASSUME NEW k \in 0 .. m PROVE f[k] = IF k = 0 THEN e ELSE Turn(f[k - 1], k)
  <2>1. CASE k = 0
      BY <1>7, <2>1 DEF Runs
  <2>2. CASE k # 0
    <3>1. k \in 1 .. m /\ k - 1 \in 0 .. m
        BY <1>2, <2>2
    <3>2. f[k - 1] \in Q
        BY <1>7, <3>1 DEF Runs
    <3>3. f[k] = step[<<k, f[k - 1]>>]
        BY <1>7, <3>1 DEF Runs
    <3> QED
        BY <1>6, <2>2, <3>1, <3>2, <3>3
  <2> QED
      BY <2>1, <2>2
<1>9. f = [k \in 0 .. m |-> f[k]]
    BY <1>7 DEF Runs
<1>10. f = Loop(f)
    BY <1>8, <1>9 DEF Turn
<1> HIDE DEF Loop
<1>11. after = Loop(after)
    BY <1>10
<1> HIDE DEF after
<1>12. after = [k \in 0 .. m |-> IF k = 0 THEN e
                                ELSE IF list[k].doc = d THEN after[k - 1]
                                ELSE Append(after[k - 1], list[k])]
    BY <1>11 DEF Loop
<1>13. \A k \in 0 .. m : after[k] = IF k = 0 THEN e
                                   ELSE IF list[k].doc = d THEN after[k - 1]
                                   ELSE Append(after[k - 1], list[k])
    BY <1>12
<1>14. 0 \in 0 .. m /\ \A k \in 1 .. m : k \in 0 .. m /\ k # 0
    BY <1>2
<1>15. after[0] = e /\ \A k \in 1 .. m : after[k] = IF list[k].doc = d THEN after[k - 1]
                                                  ELSE Append(after[k - 1], list[k])
    BY <1>13, <1>14
<1>16. Leaves(after, list, d)
    BY <1>1, <1>15 DEF Leaves, e, m
<1> QED
    BY <1>16

\* One more element of a sequence given by its places.
LEMMA OneMore ==
    ASSUME NEW S, NEW g, NEW n \in Nat, \A j \in 1 .. n + 1 : g[j] \in S
    PROVE  Append([j \in 1 .. n |-> g[j]], g[n + 1]) = [j \in 1 .. n + 1 |-> g[j]]
<1> DEFINE s == [j \in 1 .. n |-> g[j]]
           t == [j \in 1 .. n + 1 |-> g[j]]
<1>1. s \in Seq(S) /\ Len(s) = n /\ t \in Seq(S) /\ Len(t) = n + 1
    OBVIOUS
<1>2. Append(s, g[n + 1]) \in Seq(S) /\ Len(Append(s, g[n + 1])) = n + 1
    BY <1>1
<1>3. \A j \in 1 .. n + 1 : Append(s, g[n + 1])[j] = t[j]
  <2>1. \A j \in 1 .. n + 1 : j = n + 1 \/ j \in 1 .. n
      OBVIOUS
  <2>2. n + 1 \in 1 .. n + 1 /\ t[n + 1] = g[n + 1]
      OBVIOUS
  <2>3. \A j \in 1 .. n : s[j] = g[j] /\ t[j] = g[j]
      OBVIOUS
  <2> HIDE DEF s, t
  <2> QED
      BY <1>1, <2>1, <2>2, <2>3
<1> HIDE DEF s, t
<1> QED
    BY <1>1, <1>2, <1>3 DEF s, t

\* What the abstract removal leaves of a list whose only posting of d is at p;
\* p is behind the list when there is none.
Skips(list, p) == [j \in 1 .. Len(list) |-> IF j < p THEN list[j] ELSE list[j + 1]]

LEMMA WithoutIs ==
    ASSUME NEW list \in Lists, NEW d, NEW p \in 1 .. Len(list) + 1,
           \A k \in 1 .. Len(list) : list[k].doc = d <=> k = p
    PROVE  Abs!Without(list, d) =
             [j \in 1 .. (IF Len(list) < p THEN Len(list) ELSE Len(list) - 1) |-> Skips(list, p)[j]]
<1> DEFINE m == Len(list)
           S == Posting
           g == Skips(list, p)
           c(i) == IF i < p THEN i ELSE i - 1
           Part(i) == [j \in 1 .. c(i) |-> g[j]]
<1>1. m \in Nat /\ list \in Seq(S) /\ \A k \in 1 .. m : list[k] \in S
    BY ListIs
<1>2. PICK f : Leaves(f, list, d)
    BY <1>1, LeavesRuns
<1>3. /\ Abs!Without(list, d) = f[m] /\ f[0] = <<>>
      /\ \A k \in 1 .. m : f[k] = IF list[k].doc = d THEN f[k - 1] ELSE Append(f[k - 1], list[k])
    BY <1>2 DEF Leaves
<1>4. \A j \in 1 .. m : g[j] = IF j < p THEN list[j] ELSE list[j + 1]
    BY DEF Skips
<1>5. p \in 1 .. m + 1 /\ \A k \in 1 .. m : list[k].doc = d <=> k = p
    OBVIOUS
<1> HIDE DEF m, S, g
<1> DEFINE D == {i \in 0 .. m : f[i] = Part(i)}
<1>6. 0 \in D
  <2>1. c(0) = 0 /\ 0 \in 0 .. m
      BY <1>1, <1>5
  <2>2. Part(0) = <<>>
      BY <2>1
  <2> HIDE DEF Part
  <2> QED
      BY <1>3, <2>1, <2>2
<1>7. ASSUME NEW i \in 1 .. m, i - 1 \in D PROVE i \in D
  <2>1. i \in 0 .. m /\ f[i - 1] = Part(i - 1)
      BY <1>7
  <2>2. CASE i = p
    <3>1. f[i] = f[i - 1]
        BY <1>3, <1>5, <2>2
    <3>2. c(i) = c(i - 1)
        BY <1>1, <1>5, <2>2
    <3>3. Part(i) = Part(i - 1)
        BY <3>2
    <3> HIDE DEF Part
    <3> QED
        BY <2>1, <3>1, <3>3
  <2>3. CASE i # p
    <3> DEFINE n == c(i - 1)
    <3>1. n \in Nat /\ n + 1 = c(i) /\ n + 1 \in 1 .. m
        BY <1>1, <1>5, <2>3
    <3>2. g[n + 1] = list[i]
      <4>1. n + 1 < p => n + 1 = i
          BY <1>1, <1>5, <2>3
      <4>2. ~(n + 1 < p) => (n + 1) + 1 = i
          BY <1>1, <1>5, <2>3
      <4> HIDE DEF n
      <4> QED
          BY <1>4, <3>1, <4>1, <4>2
    <3>3. f[i] = Append(f[i - 1], list[i])
        BY <1>3, <1>5, <2>3
    <3>4. \A j \in 1 .. n + 1 : g[j] \in S
      <4>1. SUFFICES ASSUME NEW j \in 1 .. n + 1 PROVE g[j] \in S
          OBVIOUS
      <4>2. j \in 1 .. m /\ (~(j < p) => j + 1 \in 1 .. m)
          BY <1>1, <1>5, <2>3, <3>1
      <4> QED
          BY <1>1, <1>4, <4>2
    <3> HIDE DEF n
    <3>5. Append([j \in 1 .. n |-> g[j]], g[n + 1]) = [j \in 1 .. n + 1 |-> g[j]]
        BY <3>1, <3>4, OneMore
    <3>6. Part(i) = [j \in 1 .. n + 1 |-> g[j]] /\ Part(i - 1) = [j \in 1 .. n |-> g[j]]
        BY <3>1 DEF n
    <3> HIDE DEF Part
    <3> QED
        BY <2>1, <3>2, <3>3, <3>5, <3>6
  <2> QED
      BY <2>2, <2>3
<1> HIDE DEF D
<1>8. m \in D
    BY <1>1, <1>6, <1>7, CountUp
<1>9. f[m] = Part(m)
    BY <1>8 DEF D
<1> QED
    BY <1>3, <1>9 DEF m, g

\* The first posting of a document is its only one: the code removes what the
\* abstract operation removes.
LEMMA RemovedIs ==
    ASSUME NEW list \in Lists, NEW d
    PROVE  /\ Removed(list, d) \in Lists
           /\ Removed(list, d) = Abs!Without(list, d)
           /\ Find(Removed(list, d), d) = {}
<1> DEFINE m == Len(list)
<1>1. list \in Seq(Posting) /\ m \in Nat /\ DOMAIN list = 1 .. m /\ OnePer(list)
      /\ \A k \in 1 .. m : list[k] \in Posting
    BY ListIs
<1>2. CASE Find(list, d) = {}
  <2> DEFINE p == m + 1
  <2>1. p \in 1 .. m + 1 /\ m < p
      BY <1>1
  <2>2. \A k \in 1 .. m : list[k].doc = d <=> k = p
      BY <1>1, <1>2 DEF Find
  <2>3. Abs!Without(list, d) = [j \in 1 .. m |-> Skips(list, p)[j]]
    <3> HIDE DEF p
    <3> QED
        BY <2>1, <2>2, WithoutIs
  <2>4. \A j \in 1 .. m : Skips(list, p)[j] = list[j]
      BY <1>1 DEF Skips
  <2>5. list = [j \in 1 .. m |-> list[j]]
      BY <1>1
  <2>6. Abs!Without(list, d) = list
      BY <2>3, <2>4, <2>5
  <2> QED
      BY <1>2, <2>6 DEF Removed
<1>3. CASE Find(list, d) # {}
  <2>1. PICK p : p \in Find(list, d)
      BY <1>3
  <2>2. p \in 1 .. m /\ list[p].doc = d /\ Find(list, d) = {p}
      BY <1>1, <2>1, FoundOnce
  <2>3. Min(Find(list, d)) = p
    <3>1. {p} \in SUBSET Nat /\ {p} # {}
        BY <2>2
    <3>2. Min({p}) \in {p}
        BY <3>1, MinIs
    <3> QED
        BY <2>2, <3>2
  <2> DEFINE new == Removed(list, d)
             g(j) == IF j < p THEN list[j] ELSE list[j + 1]
  <2>4. new = [j \in 1 .. m - 1 |-> g(j)]
    <3>1. new = RemoveAt(list, p)
        BY <1>3, <2>3 DEF Removed
    <3> QED
        BY <1>1, <2>2, <3>1, RemoveAtIs
  <2>5. \A k \in 1 .. m : list[k].doc = d <=> k = p
      BY <1>1, <2>2 DEF OnePer
  <2>6. Abs!Without(list, d) = [j \in 1 .. m - 1 |-> Skips(list, p)[j]]
    <3>1. p \in 1 .. m + 1 /\ ~(m < p)
        BY <1>1, <2>2
    <3> QED
        BY <2>5, <3>1, WithoutIs
  <2>7. \A j \in 1 .. m - 1 : Skips(list, p)[j] = g(j)
      BY <1>1 DEF Skips
  <2>8. Abs!Without(list, d) = new
      BY <2>4, <2>6, <2>7
  <2> HIDE DEF new
  <2>9. ASSUME NEW j \in 1 .. m - 1
        PROVE  \E k \in 1 .. m : k # p /\ new[j] = list[k] /\ k = IF j < p THEN j ELSE j + 1
    <3>1. j \in 1 .. m /\ j + 1 \in 1 .. m
        BY <1>1
    <3>2. new[j] = g(j)
        BY <2>4
    <3> QED
        BY <2>2, <3>1, <3>2
  <2>10. new \in Seq(Posting) /\ DOMAIN new = 1 .. m - 1
    <3>1. \A j \in 1 .. m - 1 : new[j] \in Posting
        BY <1>1, <2>9
    <3>2. new = [j \in 1 .. m - 1 |-> new[j]] /\ m - 1 \in Nat
        BY <1>1, <2>2, <2>4
    <3> DEFINE S == Posting
    <3> HIDE DEF S
    <3>3. \A j \in 1 .. m - 1 : new[j] \in S
        BY <3>1 DEF S
    <3>4. new \in Seq(S)
        BY <3>2, <3>3
    <3> QED
        BY <3>2, <3>4 DEF S
  <2>11. OnePer(new)
    <3>1. SUFFICES ASSUME NEW i \in 1 .. m - 1, NEW j \in 1 .. m - 1, new[i].doc = new[j].doc PROVE i = j
        BY <2>10 DEF OnePer
    <3>2. PICK k \in 1 .. m : new[i] = list[k] /\ k = IF i < p THEN i ELSE i + 1
        BY <2>9
    <3>3. PICK l \in 1 .. m : new[j] = list[l] /\ l = IF j < p THEN j ELSE j + 1
        BY <2>9
    <3>4. k = l
        BY <1>1, <3>1, <3>2, <3>3 DEF OnePer
    <3> QED
        BY <2>2, <3>2, <3>3, <3>4
  <2>12. Find(new, d) = {}
    <3>1. \A j \in 1 .. m - 1 : new[j].doc # d
        BY <2>5, <2>9
    <3> QED
        BY <2>10, <3>1 DEF Find
  <2> QED
      BY <2>8, <2>10, <2>11, <2>12 DEF Lists, new
<1> QED
    BY <1>2, <1>3

\* Posting k of the new list is the one of d; other documents are as in the old.
PostsAt(new, list, d, k, ps) ==
    /\ Find(new, d) = {k} /\ new[k].positions = ps
    /\ \A e : e # d => Find(new, e) = Find(list, e)
    /\ \A e : e # d => \A l \in Find(list, e) : new[l] = list[l]

LEMMA FindAppended ==
    ASSUME NEW list \in Lists, NEW d, NEW ps, Find(list, d) = {}
    PROVE  PostsAt(Behind(list, d, ps), list, d, Len(list) + 1, ps)
<1> DEFINE m == Len(list)
           x == [doc |-> d, positions |-> ps]
           new == Append(list, x)
<1>1. m \in Nat /\ DOMAIN list = 1 .. m /\ list \in Seq(Posting)
    BY ListIs
<1>2. x.doc = d /\ x.positions = ps
    OBVIOUS
<1> HIDE DEF x
<1>3. DOMAIN new = 1 .. m + 1 /\ new[m + 1] = x /\ \A k \in 1 .. m : new[k] = list[k]
  <2> DEFINE S == Posting \cup {x}
  <2>1. x \in S
      OBVIOUS
  <2>2. \A y \in Posting : y \in S
      OBVIOUS
  <2> DEFINE P == Posting
  <2> HIDE DEF S, P
  <2>3. list \in Seq(S)
    <3>1. list \in Seq(P) /\ \A y \in P : y \in S
        BY <1>1, <2>2 DEF P
    <3> QED
        BY <3>1
  <2> QED
      BY <2>1, <2>3
<1> HIDE DEF new, m
<1>4. \A k \in 1 .. m + 1 : k = m + 1 \/ k \in 1 .. m
    BY <1>1
<1>5. m + 1 \in 1 .. m + 1 /\ m + 1 \notin 1 .. m /\ \A k \in 1 .. m : k \in 1 .. m + 1
    BY <1>1
<1>6. Find(new, d) = {m + 1}
  <2>1. \A k \in 1 .. m : list[k].doc # d
      BY <1>1 DEF Find
  <2> QED
      BY <1>2, <1>3, <1>4, <1>5, <2>1 DEF Find
<1>7. ASSUME NEW e, e # d PROVE Find(new, e) = Find(list, e)
    BY <1>1, <1>2, <1>3, <1>4, <1>5, <1>7 DEF Find
<1>8. ASSUME NEW e, NEW k \in Find(list, e) PROVE new[k] = list[k]
    BY <1>1, <1>3 DEF Find
<1>9. new[m + 1].positions = ps
    BY <1>2, <1>3
<1> QED
    BY <1>6, <1>7, <1>8, <1>9 DEF PostsAt, Behind, m, new, x

LEMMA FindReplaced ==
    ASSUME NEW list \in Lists, NEW d, NEW k \in Find(list, d), NEW ps
    PROVE  PostsAt(InPlace(list, k, d, ps), list, d, k, ps)
<1> DEFINE x == [doc |-> d, positions |-> ps]
           new == [list EXCEPT ![k] = x]
<1>1. x.doc = d /\ x.positions = ps
    OBVIOUS
<1>2. k \in DOMAIN list /\ list[k].doc = d /\ Find(list, d) = {k}
    BY FoundOnce
<1> HIDE DEF x
<1>3. DOMAIN new = DOMAIN list /\ new[k] = x /\ \A l \in DOMAIN list : l # k => new[l] = list[l]
    BY <1>2
<1> HIDE DEF new
<1>4. \A l \in DOMAIN list : new[l].doc = list[l].doc
    BY <1>1, <1>2, <1>3
<1>5. \A e : Find(new, e) = Find(list, e)
    BY <1>3, <1>4 DEF Find
<1>6. ASSUME NEW e, e # d, NEW l \in Find(list, e) PROVE new[l] = list[l]
    BY <1>2, <1>3, <1>6 DEF Find
<1>7. Find(new, d) = {k} /\ new[k].positions = ps
    BY <1>1, <1>2, <1>3, <1>5
<1> QED
    BY <1>5, <1>6, <1>7 DEF PostsAt, InPlace, new, x

\* The abstract addition by cases.
LEMMA WithNothing ==
    ASSUME NEW list, NEW d
    PROVE  Abs!With(list, d, <<>>) = list
BY DEF Abs!With

LEMMA WithFirst ==
    ASSUME NEW list, NEW d, NEW new, new # <<>>, Find(list, d) = {}
    PROVE  Abs!With(list, d, new) = Behind(list, d, new)
BY DEF Abs!With, Find, Behind

LEMMA WithMore ==
    ASSUME NEW list \in Lists, NEW d, NEW new, new # <<>>, NEW k \in Find(list, d)
    PROVE  Abs!With(list, d, new) = InPlace(list, k, d, list[k].positions \o new)
<1>1. k \in DOMAIN list /\ list[k].doc = d /\ Find(list, d) = {k}
    BY FoundOnce
<1>2. \A l \in DOMAIN list : list[l].doc = d <=> l = k
    BY <1>1 DEF Find
<1> DEFINE F(l) == [doc |-> d, positions |-> list[l].positions \o new]
<1>3. Abs!With(list, d, new) = [l \in DOMAIN list |-> IF list[l].doc = d THEN F(l) ELSE list[l]]
    BY <1>1 DEF Abs!With
<1>4. InPlace(list, k, d, list[k].positions \o new) = [list EXCEPT ![k] = F(k)]
    BY DEF InPlace
<1> HIDE DEF F
<1>5. list = [l \in DOMAIN list |-> list[l]]
    BY ListIs
<1>6. [list EXCEPT ![k] = F(k)] = [l \in DOMAIN list |-> IF list[l].doc = d THEN F(l) ELSE list[l]]
    BY <1>1, <1>2, <1>5
<1> QED
    BY <1>3, <1>4, <1>6

LEMMA PositionsJoin ==
    ASSUME NEW a \in Seq(Nat \ {0}), NEW b \in Seq(Nat \ {0})
    PROVE  a \o b \in Seq(Nat \ {0}) /\ a \o <<>> = a /\ <<>> \o a = a /\ (b # <<>> => a \o b # <<>>)
<1> DEFINE S == Nat \ {0}
<1>1. a \in Seq(S) /\ b \in Seq(S)
    OBVIOUS
<1> HIDE DEF S
<1>2. a \o b \in Seq(S) /\ a \o <<>> = a /\ <<>> \o a = a
    BY <1>1
<1>3. b # <<>> => a \o b # <<>>
    BY <1>1
<1> QED
    BY <1>2, <1>3 DEF S

LEMMA PositionsMore ==
    ASSUME NEW a \in Seq(Nat \ {0}), NEW pos \in Nat \ {0}
    PROVE  Append(a, pos) \in Placing /\ Append(a, pos) = a \o <<pos>>
<1> DEFINE S == Nat \ {0}
<1>1. a \in Seq(S) /\ pos \in S
    OBVIOUS
<1> HIDE DEF S
<1>2. Append(a, pos) \in Seq(S) /\ Append(a, pos) # <<>> /\ Append(a, pos) = a \o <<pos>>
    BY <1>1
<1> QED
    BY <1>2 DEF S, Placing

LEMMA PositionsAppend ==
    ASSUME NEW a \in Seq(Nat \ {0}), NEW b \in Seq(Nat \ {0}), NEW pos \in Nat \ {0}
    PROVE  Append(a \o b, pos) = a \o Append(b, pos)
<1> DEFINE S == Nat \ {0}
           c == Append(a \o b, pos)
           e == a \o Append(b, pos)
           m == Len(a)
           n == Len(b)
           t == Append(b, pos)
<1>1. a \in Seq(S) /\ b \in Seq(S) /\ pos \in S
    OBVIOUS
<1> HIDE DEF S
<1>2. m \in Nat /\ n \in Nat
    BY <1>1
<1>3. t \in Seq(S) /\ Len(t) = n + 1 /\ t[n + 1] = pos /\ \A j \in 1 .. n : t[j] = b[j]
    BY <1>1
<1>4. a \o b \in Seq(S) /\ Len(a \o b) = m + n
    BY <1>1
<1>5. c \in Seq(S) /\ Len(c) = m + n + 1 /\ c[m + n + 1] = pos /\ \A j \in 1 .. m + n : c[j] = (a \o b)[j]
    BY <1>1, <1>2, <1>4
<1>6. /\ \A j \in 1 .. m : (a \o b)[j] = a[j]
      /\ \A j \in m + 1 .. m + n : (a \o b)[j] = b[j - m]
    BY <1>1, Joined
<1> HIDE DEF c, t
<1>7. e \in Seq(S)
    BY <1>1, <1>3
<1>8. /\ Len(e) = m + n + 1
      /\ \A j \in 1 .. m : e[j] = a[j]
      /\ \A j \in m + 1 .. m + (n + 1) : e[j] = t[j - m]
  <2>1. Len(a \o t) = m + Len(t) /\ (\A j \in 1 .. m : (a \o t)[j] = a[j])
        /\ \A j \in m + 1 .. m + Len(t) : (a \o t)[j] = t[j - m]
      BY <1>1, <1>3, Joined
  <2>2. e = a \o t
      BY DEF t
  <2> HIDE DEF e, m, n
  <2> QED
      BY <1>2, <1>3, <2>1, <2>2
<1> HIDE DEF e, m, n
<1>9. ASSUME NEW j \in 1 .. m + n + 1 PROVE c[j] = e[j]
  <2>1. CASE j \in 1 .. m
    <3>1. j \in 1 .. m + n
        BY <1>2, <2>1
    <3> QED
        BY <1>5, <1>6, <1>8, <2>1, <3>1
  <2>2. CASE j \in m + 1 .. m + n
    <3>1. j \in 1 .. m + n /\ j \in m + 1 .. m + (n + 1) /\ j - m \in 1 .. n
        BY <1>2, <2>2
    <3> QED
        BY <1>3, <1>5, <1>6, <1>8, <2>2, <3>1
  <2>3. CASE j = m + n + 1
    <3>1. j \in m + 1 .. m + (n + 1) /\ j - m = n + 1
        BY <1>2, <2>3
    <3> QED
        BY <1>3, <1>5, <1>8, <2>3, <3>1
  <2>4. j \in 1 .. m \/ j \in m + 1 .. m + n \/ j = m + n + 1
      BY <1>2
  <2> QED
      BY <2>1, <2>2, <2>3, <2>4
<1>10. c = e
    BY <1>2, <1>5, <1>7, <1>8, <1>9
<1> QED
    BY <1>10 DEF c, e

LEMMA PlacesOf ==
    ASSUME NEW list \in Lists, NEW d, NEW k \in Find(list, d)
    PROVE  list[k].positions \in Seq(Nat \ {0}) /\ list[k].positions \in Placing
<1>1. list[k] \in Posting
    BY FoundOnce, ListIs
<1> QED
    BY <1>1 DEF Posting, Placing

\* The posting of d in a list has the positions ps; there is none when ps is empty.
Exact(list, d, ps) ==
    /\ Find(list, d) = {} <=> ps = <<>>
    /\ \A k \in Find(list, d) : list[k].positions = ps

\* What the addition of a document does to the lists.
Adds(w, list, d, new) ==
    /\ w \in Lists
    /\ \A ps \in Seq(Nat \ {0}) : Exact(list, d, ps) => Exact(w, d, ps \o new)
    /\ \A e, ps : e # d /\ Exact(list, e, ps) => Exact(w, e, ps)

LEMMA AddsAt ==
    ASSUME NEW w \in Lists, NEW list \in Lists, NEW d, NEW k, NEW new, NEW qs \in Placing,
           PostsAt(w, list, d, k, qs),
           \A ps \in Seq(Nat \ {0}) : Exact(list, d, ps) => ps \o new = qs
    PROVE  Adds(w, list, d, new)
<1>1. ASSUME NEW ps \in Seq(Nat \ {0}), Exact(list, d, ps) PROVE Exact(w, d, ps \o new)
  <2>1. ps \o new = qs /\ qs # <<>>
      BY <1>1 DEF Placing
  <2> QED
      BY <2>1 DEF Exact, PostsAt
<1>2. ASSUME NEW e, NEW ps, e # d, Exact(list, e, ps) PROVE Exact(w, e, ps)
    BY <1>2 DEF Exact, PostsAt
<1> QED
    BY <1>1, <1>2 DEF Adds

LEMMA WithAdds ==
    ASSUME NEW list \in Lists, NEW d \in Docs, NEW new \in Seq(Nat \ {0})
    PROVE  Adds(Abs!With(list, d, new), list, d, new)
<1> DEFINE w == Abs!With(list, d, new)
<1>1. CASE new = <<>>
  <2>1. w = list
      BY <1>1, WithNothing
  <2>2. \A ps \in Seq(Nat \ {0}) : ps \o new = ps
      BY <1>1, PositionsJoin
  <2> HIDE DEF w
  <2> QED
      BY <2>1, <2>2 DEF w, Adds
<1>2. CASE new # <<>> /\ Find(list, d) = {}
  <2> DEFINE k == Len(list) + 1
  <2>1. w = Behind(list, d, new)
      BY <1>2, WithFirst
  <2>2. new \in Placing
      BY <1>2 DEF Placing
  <2>3. w \in Lists
      BY <1>2, <2>1, <2>2, ListAppended
  <2>4. PostsAt(w, list, d, k, new)
      BY <1>2, <2>1, FindAppended
  <2>5. ASSUME NEW ps \in Seq(Nat \ {0}), Exact(list, d, ps) PROVE ps \o new = new
    <3>1. ps = <<>>
        BY <1>2, <2>5 DEF Exact
    <3> QED
        BY <3>1, PositionsJoin
  <2> HIDE DEF w, k
  <2>6. Adds(w, list, d, new)
      BY <2>2, <2>3, <2>4, <2>5, AddsAt
  <2> QED
      BY <2>6 DEF w
<1>3. CASE new # <<>> /\ Find(list, d) # {}
  <2>1. PICK k : k \in Find(list, d)
      BY <1>3
  <2> DEFINE q == list[k].positions
             qs == q \o new
  <2>2. w = InPlace(list, k, d, qs)
      BY <1>3, <2>1, WithMore
  <2>3. qs \in Placing
    <3>1. q \in Seq(Nat \ {0})
        BY <2>1, PlacesOf
    <3> HIDE DEF q
    <3>2. qs \in Seq(Nat \ {0}) /\ qs # <<>>
        BY <1>3, <3>1, PositionsJoin
    <3> QED
        BY <3>2 DEF Placing
  <2>4. ASSUME NEW ps \in Seq(Nat \ {0}), Exact(list, d, ps) PROVE ps \o new = qs
      BY <2>1, <2>4 DEF Exact
  <2> HIDE DEF qs
  <2>5. w \in Lists
      BY <2>1, <2>2, <2>3, ListReplaced
  <2>6. PostsAt(w, list, d, k, qs)
      BY <2>1, <2>2, FindReplaced
  <2> HIDE DEF w
  <2>7. Adds(w, list, d, new)
      BY <2>3, <2>4, <2>5, <2>6, AddsAt
  <2> QED
      BY <2>7 DEF w
<1> QED
    BY <1>1, <1>2, <1>3

LEMMA PostedAt ==
    ASSUME NEW g, NEW d, NEW k, Find(g, d) = {k}, NEW pos
    PROVE  Posted(g, d, pos) = InPlace(g, k, d, Append(g[k].positions, pos))
<1>1. (CHOOSE l \in Find(g, d) : TRUE) = k
    OBVIOUS
<1> QED
    BY <1>1 DEF Posted, InPlace

LEMMA InPlaceTwice ==
    ASSUME NEW list, NEW k \in DOMAIN list, NEW d, NEW ps, NEW qs
    PROVE  InPlace(InPlace(list, k, d, ps), k, d, qs) = InPlace(list, k, d, qs)
<1> DEFINE x == [doc |-> d, positions |-> ps]
           y == [doc |-> d, positions |-> qs]
<1> HIDE DEF x, y
<1>1. [[list EXCEPT ![k] = x] EXCEPT ![k] = y] = [list EXCEPT ![k] = y]
    OBVIOUS
<1> QED
    BY <1>1 DEF InPlace, x, y

LEMMA BehindInPlace ==
    ASSUME NEW list \in Lists, NEW d, NEW ps, NEW qs
    PROVE  InPlace(Behind(list, d, ps), Len(list) + 1, d, qs) = Behind(list, d, qs)
<1> DEFINE m == Len(list)
           x == [doc |-> d, positions |-> ps]
           y == [doc |-> d, positions |-> qs]
           S == Posting \cup {x, y}
           P == Posting
           a == Append(list, x)
           b == Append(list, y)
           c == [a EXCEPT ![m + 1] = y]
<1>1. x \in S /\ y \in S /\ list \in Seq(P) /\ \A z \in P : z \in S
    BY ListIs
<1> HIDE DEF x, y, S, P
<1>2. list \in Seq(S)
    BY <1>1
<1>3. a \in Seq(S) /\ b \in Seq(S) /\ Len(a) = m + 1 /\ Len(b) = m + 1 /\ m \in Nat
      /\ b[m + 1] = y /\ \A j \in 1 .. m : a[j] = b[j]
    BY <1>1, <1>2
<1> HIDE DEF a, b, m
<1>4. c \in Seq(S) /\ Len(c) = m + 1 /\ c[m + 1] = y /\ \A j \in 1 .. m : c[j] = a[j]
    BY <1>1, <1>3
<1> HIDE DEF c
<1>5. \A j \in 1 .. m + 1 : j = m + 1 \/ j \in 1 .. m
    BY <1>3
<1>6. \A j \in 1 .. m + 1 : c[j] = b[j]
    BY <1>3, <1>4, <1>5
<1>7. c = b
    BY <1>3, <1>4, <1>6
<1> QED
    BY <1>7 DEF InPlace, Behind, a, b, c, m, x, y

\* A position more in the code is a position more in the text.
LEMMA PostedWith ==
    ASSUME NEW list \in Lists, NEW d \in Docs, NEW ps \in Seq(Nat \ {0}), NEW pos \in Nat \ {0}
    PROVE  Posted(Abs!With(list, d, ps), d, pos) = Abs!With(list, d, Append(ps, pos))
<1> DEFINE w == Abs!With(list, d, ps)
           more == Append(ps, pos)
           v == Abs!With(list, d, more)
<1>1. more # <<>>
    BY PositionsMore DEF Placing
<1>2. CASE ps = <<>>
  <2>1. w = list
      BY <1>2, WithNothing
  <2>2. more = <<pos>>
      BY <1>2
  <2>3. CASE Find(list, d) = {}
    <3>1. v = Behind(list, d, more)
        BY <1>1, <2>3, WithFirst
    <3> QED
        BY <2>1, <2>2, <2>3, <3>1 DEF Posted, Behind
  <2>4. CASE Find(list, d) # {}
    <3>1. PICK k : k \in Find(list, d)
        BY <2>4
    <3> DEFINE q == list[k].positions
    <3>2. v = InPlace(list, k, d, q \o more)
        BY <1>1, <3>1, WithMore
    <3>3. Posted(list, d, pos) = InPlace(list, k, d, Append(q, pos))
      <4>1. Find(list, d) = {k}
          BY <3>1, FoundOnce
      <4>2. (CHOOSE l \in Find(list, d) : TRUE) = k
          BY <4>1
      <4> QED
          BY <2>4, <4>2 DEF Posted, InPlace
    <3>4. q \o more = Append(q, pos)
      <4>1. q \in Seq(Nat \ {0})
          BY <3>1, PlacesOf
      <4> HIDE DEF q
      <4> QED
          BY <2>2, <4>1, PositionsMore
    <3> QED
        BY <2>1, <3>2, <3>3, <3>4
  <2> QED
      BY <2>3, <2>4
<1>3. CASE ps # <<>> /\ Find(list, d) = {}
  <2> DEFINE k == Len(list) + 1
  <2>1. w = Behind(list, d, ps) /\ v = Behind(list, d, more)
      BY <1>1, <1>3, WithFirst
  <2>2. PostsAt(w, list, d, k, ps)
      BY <1>3, <2>1, FindAppended
  <2> HIDE DEF w, k
  <2>3. Posted(w, d, pos) = InPlace(w, k, d, more)
    <3>1. Find(w, d) = {k} /\ w[k].positions = ps
        BY <2>2 DEF PostsAt
    <3>2. Posted(w, d, pos) = InPlace(w, k, d, Append(w[k].positions, pos))
        BY <3>1, PostedAt
    <3> QED
        BY <3>1, <3>2
  <2>4. InPlace(w, k, d, more) = Behind(list, d, more)
    <3> HIDE DEF more
    <3> QED
        BY <2>1, BehindInPlace DEF k
  <2> QED
      BY <2>1, <2>3, <2>4 DEF w
<1>4. CASE ps # <<>> /\ Find(list, d) # {}
  <2>1. PICK k : k \in Find(list, d)
      BY <1>4
  <2> DEFINE q == list[k].positions
             r == q \o ps
  <2>2. w = InPlace(list, k, d, r) /\ v = InPlace(list, k, d, q \o more)
      BY <1>1, <1>4, <2>1, WithMore
  <2>3. PostsAt(w, list, d, k, r)
    <3> HIDE DEF r, w
    <3> QED
        BY <2>1, <2>2, FindReplaced
  <2>4. Append(r, pos) = q \o more
    <3>1. q \in Seq(Nat \ {0})
        BY <2>1, PlacesOf
    <3> HIDE DEF q
    <3> QED
        BY <3>1, PositionsAppend
  <2> HIDE DEF w, r
  <2>5. Posted(w, d, pos) = InPlace(w, k, d, Append(r, pos))
    <3>1. Find(w, d) = {k} /\ w[k].positions = r
        BY <2>3 DEF PostsAt
    <3>2. Posted(w, d, pos) = InPlace(w, k, d, Append(w[k].positions, pos))
        BY <3>1, PostedAt
    <3> QED
        BY <3>1, <3>2
  <2>6. k \in DOMAIN list
      BY <2>1, FoundOnce
  <2> DEFINE s == Append(r, pos)
  <2> HIDE DEF s
  <2>7. InPlace(InPlace(list, k, d, r), k, d, s) = InPlace(list, k, d, s)
      BY <2>6, InPlaceTwice
  <2> QED
      BY <2>2, <2>4, <2>5, <2>7 DEF w, s
<1> QED
    BY <1>2, <1>3, <1>4

\* The removal touches the posting of no other document.
LEMMA RemovedExact ==
    ASSUME NEW list \in Lists, NEW d
    PROVE  /\ Exact(Removed(list, d), d, <<>>)
           /\ \A e, ps : e # d /\ Exact(list, e, ps) => Exact(Removed(list, d), e, ps)
<1> DEFINE m == Len(list)
           new == Removed(list, d)
<1>1. list \in Seq(Posting) /\ m \in Nat /\ DOMAIN list = 1 .. m
    BY ListIs
<1>2. Exact(new, d, <<>>)
    BY RemovedIs DEF Exact
<1>3. CASE Find(list, d) = {}
  <2>1. new = list
      BY <1>3 DEF Removed
  <2> QED
      BY <1>2, <2>1
<1>4. CASE Find(list, d) # {}
  <2>1. PICK p : p \in Find(list, d)
      BY <1>4
  <2>2. p \in 1 .. m /\ list[p].doc = d /\ Find(list, d) = {p}
      BY <1>1, <2>1, FoundOnce
  <2>3. Min(Find(list, d)) = p
    <3>1. {p} \in SUBSET Nat /\ {p} # {}
        BY <2>2
    <3>2. Min({p}) \in {p}
        BY <3>1, MinIs
    <3> QED
        BY <2>2, <3>2
  <2> DEFINE g(j) == IF j < p THEN list[j] ELSE list[j + 1]
  <2>4. new = [j \in 1 .. m - 1 |-> g(j)]
    <3>1. new = RemoveAt(list, p)
        BY <1>4, <2>3 DEF Removed
    <3> QED
        BY <1>1, <2>2, <3>1, RemoveAtIs
  <2>5. DOMAIN new = 1 .. m - 1 /\ \A j \in 1 .. m - 1 : new[j] = g(j)
      BY <2>4
  <2> HIDE DEF new
  <2>6. ASSUME NEW e, NEW ps, e # d, Exact(list, e, ps) PROVE Exact(new, e, ps)
    <3>1. ASSUME NEW j \in Find(new, e) PROVE new[j].positions = ps /\ Find(list, e) # {}
      <4> DEFINE k == IF j < p THEN j ELSE j + 1
      <4>1. j \in 1 .. m - 1 /\ new[j].doc = e
          BY <2>5 DEF Find
      <4>2. k \in 1 .. m /\ new[j] = list[k]
          BY <1>1, <2>5, <4>1
      <4> HIDE DEF k
      <4>3. k \in Find(list, e)
          BY <1>1, <4>1, <4>2 DEF Find
      <4> QED
          BY <2>6, <4>2, <4>3 DEF Exact
    <3>2. ASSUME NEW k \in Find(list, e) PROVE Find(new, e) # {}
      <4>1. k \in 1 .. m /\ list[k].doc = e /\ k # p
          BY <1>1, <2>2, <2>6 DEF Find
      <4> DEFINE j == IF k < p THEN k ELSE k - 1
      <4>2. j \in 1 .. m - 1 /\ new[j] = list[k]
          BY <1>1, <2>2, <2>5, <4>1
      <4> HIDE DEF j
      <4>3. j \in Find(new, e)
          BY <2>5, <4>1, <4>2 DEF Find
      <4> QED
          BY <4>3
    <3> QED
        BY <2>6, <3>1, <3>2 DEF Exact
  <2> QED
      BY <1>2, <2>6 DEF new
<1> QED
    BY <1>3, <1>4

\* All lists lose their posting of d.
Emptied(g, h, n, d) ==
    /\ Well(g, n, Lists) /\ Keys(g, n) = Keys(h, n)
    /\ \A k \in Keys(h, n) : Get(g, k) = Removed(Get(h, k), d)

LEMMA EachIs ==
    ASSUME NEW n \in Nat \ {0}, NEW h, Well(h, n, Lists), NEW d
    PROVE  Emptied(EachValue(h, LAMBDA list : Removed(list, d)), h, n, d)
<1> DEFINE b == h.buckets
           V == Lists
           R(list) == Removed(list, d)
           new == [i \in DOMAIN b |-> [j \in DOMAIN b[i] |-> [key |-> b[i][j].key, value |-> R(b[i][j].value)]]]
           g == EachValue(h, LAMBDA list : Removed(list, d))
<1>1. g = WithBuckets(h, new)
    BY DEF EachValue
<1>2. Good(b, n, V) /\ DOMAIN b = 0 .. n - 1
    BY DEF Well, Good, Chains
<1>3. ASSUME NEW v \in V PROVE R(v) \in V
    BY RemovedIs
<1> HIDE DEF b, g, V, R
<1>4. ASSUME NEW i \in 0 .. n - 1, NEW j \in DOMAIN b[i]
      PROVE  [key |-> b[i][j].key, value |-> R(b[i][j].value)] \in NodeSet(V)
  <2>1. IsNode(b[i][j], b, n, V, i)
      BY <1>2, NodeIs
  <2>2. b[i][j].key \in Terms /\ R(b[i][j].value) \in V
      BY <1>3, <2>1 DEF IsNode
  <2> QED
      BY <2>2 DEF NodeSet
<1>5. ASSUME NEW i \in 0 .. n - 1
      PROVE  /\ new[i] \in Seq(NodeSet(V)) /\ DOMAIN new[i] = DOMAIN b[i]
             /\ \A j \in DOMAIN b[i] : new[i][j] = [key |-> b[i][j].key, value |-> R(b[i][j].value)]
  <2> DEFINE N == NodeSet(V)
             m == Len(b[i])
             F(j) == [key |-> b[i][j].key, value |-> R(b[i][j].value)]
  <2>1. m \in Nat /\ DOMAIN b[i] = 1 .. m
      BY <1>2, ChainIs
  <2>2. \A j \in 1 .. m : F(j) \in N
      BY <1>4, <2>1
  <2>3. new[i] = [j \in 1 .. m |-> F(j)]
      BY <1>2, <2>1
  <2> HIDE DEF N, m, F, new
  <2>4. new[i] \in Seq(N) /\ DOMAIN new[i] = 1 .. m /\ \A j \in 1 .. m : new[i][j] = F(j)
      BY <2>1, <2>2, <2>3
  <2> QED
      BY <2>1, <2>4 DEF N, F
<1>6. new \in Chains(n, V)
    BY <1>2, <1>5 DEF Chains
<1> HIDE DEF new
<1>7. Alike(new, b, n)
  <2>1. ASSUME NEW i \in 0 .. n - 1, NEW j \in DOMAIN b[i] PROVE new[i][j].key = b[i][j].key
    <3>1. new[i][j] = [key |-> b[i][j].key, value |-> R(b[i][j].value)]
        BY <1>5
    <3> QED
        BY <3>1
  <2> QED
      BY <1>5, <2>1 DEF Alike
<1>8. Well(g, n, V) /\ Keys(g, n) = Keys(h, n) /\ g.buckets = new
  <2>1. Well(WithBuckets(h, new), n, V) /\ Keys(WithBuckets(h, new), n) = Keys(h, n)
      BY <1>6, <1>7, AlikeKeeps DEF b, V
  <2> QED
      BY <1>1, <2>1 DEF WithBuckets
<1>9. ASSUME NEW k \in Keys(h, n) PROVE Get(g, k) = R(Get(h, k))
  <2>1. PICK x \in Entries(b, n) : x.key = k
      BY DEF Keys, KeysIn, b
  <2>2. Hangs(x, b, n, V)
      BY <1>2, EntryAt
  <2> DEFINE i == Slot(n, k)
             v == x.value
  <2>3. k \in Terms /\ i \in 0 .. n - 1 /\ x = [key |-> k, value |-> v]
      BY <2>1, <2>2 DEF Hangs
  <2>4. PICK j \in DOMAIN b[i] : x = b[i][j]
      BY <2>1, <2>2 DEF Hangs
  <2>5. Get(h, k) = v
    <3>1. [key |-> k, value |-> v] \in Entries(b, n)
        BY <2>1, <2>3
    <3> HIDE DEF v
    <3> QED
        BY <2>3, <3>1, FoundIs DEF b
  <2>6. new[i][j] = [key |-> k, value |-> R(v)]
      BY <1>5, <2>1, <2>3, <2>4
  <2> HIDE DEF i, v
  <2>7. [key |-> k, value |-> R(v)] \in Entries(new, n)
      BY <1>5, <2>3, <2>4, <2>6, EntryIs
  <2> DEFINE u == R(v)
  <2> HIDE DEF u
  <2>8. [key |-> k, value |-> u] \in Entries(g.buckets, n)
      BY <1>8, <2>7 DEF u
  <2>9. Get(g, k) = u
      BY <1>8, <2>3, <2>8, FoundIs
  <2> QED
      BY <2>5, <2>9 DEF u
<1> QED
    BY <1>8, <1>9 DEF Emptied, g, V, R

-----------------------------------------------------------------------------
(* The token loop.                                                          *)

\* The list of a term in a table.
ListOf(h, t) == IF Get(h, t) = NotFound THEN <<>> ELSE Get(h, t)

LEMMA ListOfIs ==
    ASSUME NEW n \in Nat \ {0}, NEW h, Well(h, n, Lists), NEW t \in Terms
    PROVE  /\ ListOf(h, t) \in Lists
           /\ Get(h, t) = NotFound <=> t \notin Keys(h, n)
           /\ t \in Keys(h, n) => Get(h, t) \in Lists /\ ListOf(h, t) = Get(h, t)
           /\ t \notin Keys(h, n) => ListOf(h, t) = <<>>
<1>1. \/ t \in Keys(h, n) /\ Get(h, t) \in Lists
      \/ t \notin Keys(h, n) /\ Get(h, t) = NotFound
    BY Found
<1> QED
    BY <1>1, NullApart, NoPostings DEF ListOf

\* The table, the term count and the trie agree.
Ready(x, n) ==
    /\ n \in Nat \ {0} /\ Well(x.table, n, Lists) /\ x.terms = x.table.size
    /\ x.words \in [Terms -> Nat] /\ \A t \in Terms : x.words[t] > 0 <=> t \in Keys(x.table, n)

Told(y, m, x, d, pos, t) ==
    /\ Ready(y, m) /\ ListOf(y.table, t) = Posted(ListOf(x.table, t), d, pos)
    /\ \A u \in Terms : u # t => ListOf(y.table, u) = ListOf(x.table, u)

LEMMA AddTokenIs ==
    ASSUME NEW x, NEW n, Ready(x, n), NEW d \in Docs, NEW pos \in Nat \ {0}, NEW t \in Terms
    PROVE  \E m : Told(AddToken(x, d, pos, t), m, x, d, pos, t)
<1> DEFINE V == Lists
           T == x.table
           new == Get(T, t) = NotFound
           h == IF new THEN Put(T, t, <<>>) ELSE T
           list == Posted(Get(h, t), d, pos)
           g == Assign(h, t, list)
           y == AddToken(x, d, pos, t)
           more == IF new THEN 1 ELSE 0
<1>1. y = [table |-> g, terms |-> x.terms + more, words |-> [x.words EXCEPT ![t] = @ + 1]]
    BY DEF AddToken
<1>2. /\ n \in Nat \ {0} /\ Well(T, n, V) /\ x.terms = T.size
      /\ x.words \in [Terms -> Nat] /\ \A u \in Terms : x.words[u] > 0 <=> u \in Keys(T, n)
    BY DEF Ready
<1>3. new <=> t \notin Keys(T, n)
    BY <1>2, ListOfIs
<1> HIDE DEF T, y
<1>4. \E m : /\ m \in Nat \ {0} /\ Well(h, m, V) /\ Keys(h, m) = Keys(T, n) \cup {t}
             /\ h.size = T.size + more /\ Get(h, t) = ListOf(T, t)
             /\ \A u \in Terms : u # t => Get(h, u) = Get(T, u)
  <2>1. CASE new
    <3>1. t \notin Keys(T, n) /\ <<>> \in V
        BY <1>3, <2>1, NoPostings
    <3> DEFINE e == <<>>
    <3> HIDE DEF e, V
    <3>2. e \in V
        BY <3>1 DEF e
    <3>3. PICK m : m \in Nat \ {0} /\ Changed(Put(T, t, e), m, T, n, V, t, e) /\ Put(T, t, e).size = T.size + 1
      <4>1. \E m : PutAt(m, T, n, V, t, e)
          BY <1>2, <3>1, <3>2, PutIs
      <4> QED
          BY <4>1 DEF PutAt
    <3>4. h = Put(T, t, e) /\ more = 1
        BY <2>1 DEF e
    <3>5. ListOf(T, t) = e
        BY <2>1 DEF ListOf, e
    <3> HIDE DEF h, more
    <3>6. Changed(h, m, T, n, V, t, e) /\ h.size = T.size + more
        BY <3>3, <3>4
    <3>7. /\ Well(h, m, V) /\ Keys(h, m) = Keys(T, n) \cup {t} /\ Get(h, t) = e
          /\ \A u \in Terms : u # t => Get(h, u) = Get(T, u)
        BY <3>6 DEF Changed
    <3> QED
        BY <3>3, <3>5, <3>6, <3>7
  <2>2. CASE ~new
    <3>1. h = T /\ more = 0
        BY <2>2
    <3>2. t \in Keys(T, n) /\ Get(T, t) = ListOf(T, t)
        BY <1>3, <2>2 DEF ListOf
    <3>3. T.size \in Nat
        BY <1>2, FS_CardinalityType DEF Well
    <3> QED
        BY <1>2, <3>1, <3>2, <3>3
  <2> QED
      BY <2>1, <2>2
<1>5. PICK m : /\ m \in Nat \ {0} /\ Well(h, m, V) /\ Keys(h, m) = Keys(T, n) \cup {t}
               /\ h.size = T.size + more /\ Get(h, t) = ListOf(T, t)
               /\ \A u \in Terms : u # t => Get(h, u) = Get(T, u)
    BY <1>4
<1>6. list \in V /\ list = Posted(ListOf(T, t), d, pos)
  <2>1. ListOf(T, t) \in Lists
      BY <1>2, ListOfIs
  <2>2. Posted(ListOf(T, t), d, pos) \in Lists
      BY <2>1, PostedIs
  <2> HIDE DEF h
  <2> QED
      BY <1>5, <2>2
<1> HIDE DEF h, list, more, new
<1>7. Changed(g, m, h, m, V, t, list)
  <2>1. t \in Keys(h, m)
      BY <1>5
  <2> HIDE DEF V
  <2> QED
      BY <1>5, <1>6, <2>1, AssignIs
<1> HIDE DEF g
<1>8. /\ Well(g, m, V) /\ Keys(g, m) = Keys(T, n) \cup {t} /\ Get(g, t) = list
      /\ \A u \in Terms : u # t => Get(g, u) = Get(T, u)
    BY <1>5, <1>7 DEF Changed
<1>9. g.size = x.terms + more
  <2>1. g.size = Cardinality(Keys(g, m)) /\ h.size = Cardinality(Keys(h, m))
      BY <1>5, <1>8 DEF Well
  <2> QED
      BY <1>2, <1>5, <1>8, <2>1
<1>10. y.table = g /\ y.terms = g.size /\ y.words = [x.words EXCEPT ![t] = @ + 1]
    BY <1>1, <1>9
<1>11. /\ y.words \in [Terms -> Nat] /\ y.words[t] = x.words[t] + 1 /\ x.words[t] \in Nat
       /\ \A u \in Terms : u # t => y.words[u] = x.words[u]
    BY <1>2, <1>10
<1>12. \A u \in Terms : y.words[u] > 0 <=> u \in Keys(g, m)
  <2>1. y.words[t] > 0 /\ t \in Keys(g, m)
      BY <1>8, <1>11
  <2>2. ASSUME NEW u \in Terms, u # t PROVE y.words[u] > 0 <=> u \in Keys(g, m)
      BY <1>2, <1>8, <1>11, <2>2
  <2> QED
      BY <2>1, <2>2
<1>13. Ready(y, m)
    BY <1>5, <1>8, <1>10, <1>11, <1>12 DEF Ready
<1>14. ListOf(y.table, t) = list
    BY <1>6, <1>8, <1>10, NullApart DEF ListOf
<1>15. \A u \in Terms : u # t => ListOf(y.table, u) = ListOf(T, u)
    BY <1>8, <1>10 DEF ListOf
<1>16. Told(y, m, x, d, pos, t)
    BY <1>6, <1>13, <1>14, <1>15 DEF Told, T
<1> QED
    BY <1>16 DEF y

Fresh == [table |-> table, terms |-> totalTerms, words |-> words]

\* The states of the token loop.
Reads(f, d, text) ==
    /\ AllTokens(d, text) = f[Len(text)]
    /\ f[0] = Fresh
    /\ \A i \in 1 .. Len(text) :
        f[i] = IF text[i] = StopWord THEN f[i - 1] ELSE AddToken(f[i - 1], d, i, text[i])

LEMMA TokensRun ==
    ASSUME NEW S, NEW text \in Seq(S), NEW d
    PROVE  \E f : Reads(f, d, text)
<1> DEFINE n == Len(text)
           Turn(st, i) == IF text[i] = StopWord THEN st ELSE AddToken(st, d, i, text[i])
           Loop(g) == [i \in 0 .. n |-> IF i = 0 THEN Fresh
                                        ELSE IF text[i] = StopWord THEN g[i - 1]
                                        ELSE AddToken(g[i - 1], d, i, text[i])]
           after == CHOOSE g : g = Loop(g)
           Goes(g, m) == /\ g = [i \in 0 .. m |-> g[i]] /\ g[0] = Fresh
                         /\ \A i \in 1 .. m : g[i] = Turn(g[i - 1], i)
           D == {m \in 0 .. n : \E g : Goes(g, m)}
<1>1. AllTokens(d, text) = after[n]
    BY DEF AllTokens, Fresh
<1>2. n \in Nat
    BY SeqIs
<1> HIDE DEF n, Turn
<1>3. 0 \in D
  <2> DEFINE g == [i \in 0 .. 0 |-> Fresh]
  <2>1. g[0] = Fresh /\ g = [i \in 0 .. 0 |-> g[i]]
      OBVIOUS
  <2> HIDE DEF g
  <2>2. Goes(g, 0)
      BY <2>1
  <2> HIDE DEF Goes
  <2> QED
      BY <1>2, <2>2
<1>4. ASSUME NEW m \in 1 .. n, m - 1 \in D PROVE m \in D
  <2>1. PICK f : Goes(f, m - 1)
      BY <1>4
  <2> DEFINE g == [i \in 0 .. m |-> IF i = m THEN Turn(f[m - 1], m) ELSE f[i]]
  <2>2. g = [i \in 0 .. m |-> g[i]]
      OBVIOUS
  <2>3. g[0] = Fresh
      BY <2>1
  <2>4. ASSUME NEW i \in 1 .. m PROVE g[i] = Turn(g[i - 1], i)
    <3>1. i - 1 \in 0 .. m /\ i - 1 # m /\ i \in 0 .. m
        OBVIOUS
    <3>2. g[i - 1] = f[i - 1]
        BY <3>1
    <3>3. CASE i = m
      <4>1. g[m] = Turn(f[m - 1], m)
          BY <3>1, <3>3
      <4> HIDE DEF g
      <4> QED
          BY <3>2, <3>3, <4>1
    <3>4. CASE i # m
      <4>1. i \in 1 .. m - 1
          BY <3>4
      <4>2. g[i] = f[i]
          BY <3>1, <3>4
      <4>3. f[i] = Turn(f[i - 1], i)
          BY <2>1, <4>1
      <4> HIDE DEF g
      <4> QED
          BY <3>2, <4>2, <4>3
    <3> QED
        BY <3>3, <3>4
  <2> HIDE DEF g
  <2>5. Goes(g, m)
      BY <2>2, <2>3, <2>4
  <2> HIDE DEF Goes
  <2>6. m \in 0 .. n
      BY <1>2
  <2> QED
      BY <2>5, <2>6
<1> HIDE DEF D
<1>5. n \in D
    BY <1>2, <1>3, <1>4, CountUp
<1>6. PICK f : Goes(f, n)
    BY <1>5 DEF D
<1>7. f = Loop(f)
  <2>1. ASSUME NEW i \in 0 .. n PROVE f[i] = IF i = 0 THEN Fresh ELSE Turn(f[i - 1], i)
    <3>1. i # 0 => i \in 1 .. n
        BY <1>2
    <3> QED
        BY <1>6, <3>1
  <2>2. f = [i \in 0 .. n |-> f[i]]
      BY <1>6
  <2>3. f = [i \in 0 .. n |-> IF i = 0 THEN Fresh ELSE Turn(f[i - 1], i)]
      BY <2>1, <2>2
  <2> QED
      BY <2>3 DEF Turn
<1> HIDE DEF Loop
<1>8. after = Loop(after)
    BY <1>7
<1> HIDE DEF after
<1>9. after = [i \in 0 .. n |-> IF i = 0 THEN Fresh ELSE Turn(after[i - 1], i)]
    BY <1>8 DEF Loop, Turn
<1>10. \A i \in 0 .. n : after[i] = IF i = 0 THEN Fresh ELSE Turn(after[i - 1], i)
    BY <1>9
<1>11. 0 \in 0 .. n /\ \A i \in 1 .. n : i \in 0 .. n /\ i # 0
    BY <1>2
<1>12. after[0] = Fresh /\ \A i \in 1 .. n : after[i] = Turn(after[i - 1], i)
    BY <1>10, <1>11
<1>13. Reads(after, d, text)
    BY <1>1, <1>12 DEF Reads, n, Turn
<1> QED
    BY <1>13

\* The loop that collects the positions of a term.
Marks(f, text, t) ==
    /\ Abs!Positions(text, t) = f[Len(text)]
    /\ f[0] = <<>> /\ f \in [0 .. Len(text) -> Seq(Nat \ {0})]
    /\ \A i \in 1 .. Len(text) : f[i] = IF text[i] = t THEN Append(f[i - 1], i) ELSE f[i - 1]

LEMMA MarksRun ==
    ASSUME NEW S, NEW text \in Seq(S), NEW t
    PROVE  \E f : Marks(f, text, t)
<1> DEFINE m == Len(text)
           Q == Seq(Nat \ {0})
           e == <<>>
           Turn(st, i) == IF text[i] = t THEN Append(st, i) ELSE st
           step == [w \in (1 .. m) \X Q |-> Turn(w[2], w[1])]
           Loop(g) == [i \in 0 .. m |-> IF i = 0 THEN e
                                        ELSE IF text[i] = t THEN Append(g[i - 1], i) ELSE g[i - 1]]
           after == CHOOSE g : g = Loop(g)
<1>1. Abs!Positions(text, t) = after[m]
    BY DEF Abs!Positions
<1>2. m \in Nat
    BY SeqIs
<1>3. e \in Q
    BY Nothing
<1>4. ASSUME NEW i \in 1 .. m, NEW st \in Q PROVE Turn(st, i) \in Q
  <2>1. i \in Nat \ {0}
      BY <1>2
  <2> QED
      BY <2>1, Appended
<1> HIDE DEF e, Q, m, Turn
<1>5. step \in Bodies(m, Q)
    BY <1>4 DEF Bodies
<1>6. \A i \in 1 .. m, st \in Q : step[<<i, st>>] = Turn(st, i)
    OBVIOUS
<1> HIDE DEF step
<1>7. PICK f : Runs(f, m, Q, e, step)
    BY <1>2, <1>3, <1>5, LoopExists
<1>8. ASSUME NEW i \in 0 .. m PROVE f[i] = IF i = 0 THEN e ELSE Turn(f[i - 1], i)
  <2>1. CASE i = 0
      BY <1>7, <2>1 DEF Runs
  <2>2. CASE i # 0
    <3>1. i \in 1 .. m /\ i - 1 \in 0 .. m
        BY <1>2, <2>2
    <3>2. f[i - 1] \in Q
        BY <1>7, <3>1 DEF Runs
    <3>3. f[i] = step[<<i, f[i - 1]>>]
        BY <1>7, <3>1 DEF Runs
    <3> QED
        BY <1>6, <2>2, <3>1, <3>2, <3>3
  <2> QED
      BY <2>1, <2>2
<1>9. f = [i \in 0 .. m |-> f[i]]
    BY <1>7 DEF Runs
<1>10. f = Loop(f)
    BY <1>8, <1>9 DEF Turn
<1> HIDE DEF Loop
<1>11. after = Loop(after)
    BY <1>10
<1> HIDE DEF after
<1>12. after = [i \in 0 .. m |-> IF i = 0 THEN e ELSE Turn(after[i - 1], i)]
    BY <1>11 DEF Loop, Turn
<1>13. DOMAIN after = 0 .. m /\ \A i \in 0 .. m : after[i] = IF i = 0 THEN e ELSE Turn(after[i - 1], i)
    BY <1>12
<1>14. 0 \in 0 .. m /\ \A i \in 1 .. m : i \in 0 .. m /\ i # 0
    BY <1>2
<1>15. after[0] = e /\ \A i \in 1 .. m : after[i] = Turn(after[i - 1], i)
    BY <1>13, <1>14
<1> DEFINE D == {i \in 0 .. m : after[i] \in Q}
<1>16. 0 \in D
    BY <1>3, <1>14, <1>15
<1>17. ASSUME NEW i \in 1 .. m, i - 1 \in D PROVE i \in D
    BY <1>4, <1>14, <1>15, <1>17
<1> HIDE DEF D
<1>18. \A i \in 0 .. m : i \in D
    BY <1>2, <1>16, <1>17, CountUp
<1>19. after \in [0 .. m -> Q]
  <2>1. \A i \in 0 .. m : after[i] \in Q
      BY <1>18 DEF D
  <2>2. after = [i \in 0 .. m |-> after[i]]
      BY <1>12, <1>13
  <2> QED
      BY <2>1, <2>2
<1>20. Marks(after, text, t)
    BY <1>1, <1>15, <1>19 DEF Marks, e, m, Q, Turn
<1> QED
    BY <1>20

LEMMA PositionsAre ==
    ASSUME NEW S, NEW text \in Seq(S), NEW t
    PROVE  Abs!Positions(text, t) \in Seq(Nat \ {0})
<1>1. PICK f : Marks(f, text, t)
    BY MarksRun
<1>2. Len(text) \in 0 .. Len(text)
    BY SeqIs
<1> QED
    BY <1>1, <1>2 DEF Marks

LEMMA TextIs ==
    ASSUME NEW text \in Texts
    PROVE  /\ text \in Seq(Terms \cup {StopWord}) /\ Len(text) \in Nat
           /\ \A i \in 1 .. Len(text) : text[i] = StopWord \/ text[i] \in Terms
<1>1. text \in Seq(Terms \cup {StopWord})
    BY TextsAreStreams
<1>2. Len(text) \in Nat /\ \A i \in 1 .. Len(text) : text[i] \in Terms \cup {StopWord}
    BY <1>1, SeqIs
<1> QED
    BY <1>1, <1>2

\* The lists of one table are those of the abstract addition to the lists of
\* another.
Indexed(h, text, d) ==
    \A t \in Terms : ListOf(h, t) = Abs!With(ListOf(table, t), d, Abs!Positions(text, t))

\* After the token loop the counters still agree, and each list is what the
\* abstract addition makes of it.
LEMMA AllTokensIs ==
    ASSUME NEW n, Ready(Fresh, n), NEW d \in Docs, NEW text \in Texts
    PROVE  /\ \E m : Ready(AllTokens(d, text), m)
           /\ Indexed(AllTokens(d, text).table, text, d)
<1> DEFINE N == Len(text)
<1>1. N \in Nat /\ text \in Seq(Terms \cup {StopWord})
      /\ \A i \in 1 .. N : text[i] = StopWord \/ text[i] \in Terms
    BY TextIs
<1>2. PICK f : Reads(f, d, text)
    BY <1>1, TokensRun
<1>3. /\ AllTokens(d, text) = f[N] /\ f[0] = Fresh
      /\ \A i \in 1 .. N : f[i] = IF text[i] = StopWord THEN f[i - 1]
                                   ELSE AddToken(f[i - 1], d, i, text[i])
    BY <1>2 DEF Reads
<1> HIDE DEF N
<1> DEFINE Sane(i) == \E m : Ready(f[i], m)
           D == {i \in 0 .. N : Sane(i)}
<1>4. 0 \in D
  <2>1. Sane(0)
      BY <1>3
  <2> HIDE DEF Sane
  <2> QED
      BY <1>1, <2>1
<1>5. ASSUME NEW i \in 1 .. N, text[i] # StopWord, NEW m, Ready(f[i - 1], m)
      PROVE  \E k : Told(f[i], k, f[i - 1], d, i, text[i])
  <2>1. text[i] \in Terms /\ i \in Nat \ {0}
      BY <1>1, <1>5
  <2>2. f[i] = AddToken(f[i - 1], d, i, text[i])
      BY <1>3, <1>5
  <2> DEFINE x == f[i - 1]
             t == text[i]
  <2>3. t \in Terms /\ Ready(x, m)
      BY <1>5, <2>1
  <2> HIDE DEF x, t
  <2>4. \E k : Told(AddToken(x, d, i, t), k, x, d, i, t)
      BY <2>1, <2>3, AddTokenIs
  <2> QED
      BY <2>2, <2>4 DEF x, t
<1>6. ASSUME NEW i \in 1 .. N, i - 1 \in D PROVE i \in D
  <2>1. PICK m : Ready(f[i - 1], m)
      BY <1>6
  <2>2. i \in 0 .. N
      BY <1>1
  <2>3. Sane(i)
    <3>1. CASE text[i] = StopWord
        BY <1>3, <2>1, <3>1
    <3>2. CASE text[i] # StopWord
      <4>1. PICK k : Told(f[i], k, f[i - 1], d, i, text[i])
          BY <1>5, <2>1, <3>2
      <4> QED
          BY <4>1 DEF Told
    <3> QED
        BY <3>1, <3>2
  <2> HIDE DEF Sane
  <2> QED
      BY <2>2, <2>3
<1> HIDE DEF D
<1>7. N \in D /\ \A i \in 0 .. N : i \in D
    BY <1>1, <1>4, <1>6, CountUp
<1>8. \A i \in 0 .. N : Sane(i)
    BY <1>7 DEF D
<1>9. \E m : Ready(AllTokens(d, text), m)
    BY <1>1, <1>3, <1>8
<1>10. ASSUME NEW t \in Terms
       PROVE  ListOf(f[N].table, t) = Abs!With(ListOf(table, t), d, Abs!Positions(text, t))
  <2> DEFINE list == ListOf(table, t)
  <2>1. list \in Lists
      BY ListOfIs DEF Ready, Fresh
  <2>2. PICK p : Marks(p, text, t)
      BY <1>1, MarksRun
  <2>3. /\ Abs!Positions(text, t) = p[N] /\ p[0] = <<>> /\ p \in [0 .. N -> Seq(Nat \ {0})]
        /\ \A i \in 1 .. N : p[i] = IF text[i] = t THEN Append(p[i - 1], i) ELSE p[i - 1]
      BY <2>2 DEF Marks, N
  <2> HIDE DEF list
  <2> DEFINE Same(i) == ListOf(f[i].table, t) = Abs!With(list, d, p[i])
             E == {i \in 0 .. N : Same(i)}
  <2>4. 0 \in E
    <3>1. ListOf(f[0].table, t) = list
        BY <1>3 DEF Fresh, list
    <3>2. Abs!With(list, d, p[0]) = list
        BY <2>3, WithNothing
    <3> QED
        BY <1>1, <3>1, <3>2
  <2>5. ASSUME NEW i \in 1 .. N, i - 1 \in E PROVE i \in E
    <3>1. i \in 0 .. N /\ i - 1 \in 0 .. N /\ i \in Nat \ {0}
        BY <1>1
    <3>2. PICK m : Ready(f[i - 1], m)
        BY <1>8, <3>1
    <3>3. Same(i - 1)
        BY <2>5
    <3> HIDE DEF E
    <3>4. Same(i)
      <4>1. CASE text[i] = StopWord
        <5>1. text[i] # t
            BY <4>1, StopIsNoTerm
        <5>2. f[i] = f[i - 1] /\ p[i] = p[i - 1]
            BY <1>3, <2>3, <4>1, <5>1
        <5> QED
            BY <3>3, <5>2
      <4>2. CASE text[i] # StopWord
        <5> DEFINE x == f[i - 1]
                   y == f[i]
                   u == text[i]
        <5>1. PICK k : Told(y, k, x, d, i, u)
            BY <1>5, <3>2, <4>2
        <5>2. /\ ListOf(y.table, u) = Posted(ListOf(x.table, u), d, i)
              /\ \A w \in Terms : w # u => ListOf(y.table, w) = ListOf(x.table, w)
            BY <5>1 DEF Told
        <5>3. CASE u = t
          <6> DEFINE q == p[i - 1]
          <6>1. p[i] = Append(q, i) /\ q \in Seq(Nat \ {0})
              BY <2>3, <3>1, <5>3
          <6>2. ListOf(x.table, t) = Abs!With(list, d, q)
              BY <3>3
          <6> HIDE DEF x, y, q, u
          <6>3. ListOf(y.table, t) = Posted(Abs!With(list, d, q), d, i)
              BY <5>2, <5>3, <6>2
          <6>4. Posted(Abs!With(list, d, q), d, i) = Abs!With(list, d, Append(q, i))
              BY <2>1, <3>1, <6>1, PostedWith
          <6> QED
              BY <6>1, <6>3, <6>4 DEF y
        <5>4. CASE u # t
          <6>1. p[i] = p[i - 1]
              BY <2>3, <5>4
          <6>2. ListOf(y.table, t) = ListOf(x.table, t)
              BY <5>2, <5>4
          <6> QED
              BY <3>3, <6>1, <6>2
        <5> QED
            BY <5>3, <5>4
      <4> QED
          BY <4>1, <4>2
    <3> HIDE DEF Same
    <3> QED
        BY <3>1, <3>4 DEF E
  <2> HIDE DEF E
  <2>6. N \in E
      BY <1>1, <2>4, <2>5, CountUp
  <2>7. Same(N)
      BY <2>6 DEF E
  <2> QED
      BY <2>3, <2>7 DEF list
<1> QED
    BY <1>3, <1>9, <1>10 DEF Indexed

-----------------------------------------------------------------------------
(* The document store.                                                      *)

Stores == [id : Docs, words : Nat]
Ids(s) == {s[i].id : i \in DOMAIN s}
OneId(s) == \A i, j \in DOMAIN s : s[i].id = s[j].id => i = j
StoreOK(s) == s \in Seq(Stores) /\ OneId(s)

LEMMA StoreIs ==
    ASSUME NEW s, StoreOK(s)
    PROVE  /\ s \in Seq(Stores) /\ OneId(s) /\ Len(s) \in Nat /\ DOMAIN s = 1 .. Len(s)
           /\ \A i \in 1 .. Len(s) : s[i] \in Stores
<1>1. s \in Seq(Stores) /\ OneId(s)
    BY DEF StoreOK
<1> QED
    BY <1>1, SeqIs

\* document_store_add keeps one document for each id.
LEMMA StoredIs ==
    ASSUME StoreOK(store), NEW d \in Docs, NEW n \in Nat
    PROVE  StoreOK(Stored(d, n)) /\ Ids(Stored(d, n)) = Ids(store) \cup {d}
<1> DEFINE m == Len(store)
           x == [id |-> d, words |-> n]
           new == Stored(d, n)
           S == Stores
<1>1. /\ store \in Seq(S) /\ m \in Nat /\ DOMAIN store = 1 .. m
      /\ \A i \in 1 .. m : store[i] \in S
    BY StoreIs
<1>2. \A i, j \in 1 .. m : store[i].id = store[j].id => i = j
    BY <1>1, StoreIs DEF OneId
<1>3. x \in S /\ x.id = d
    BY DEF Stores
<1>4. CASE \E i \in DOMAIN store : store[i].id = d
  <2>1. new = [i \in DOMAIN store |-> IF store[i].id = d THEN x ELSE store[i]]
      BY <1>4 DEF Stored
  <2> HIDE DEF x, new, S, m
  <2>2. DOMAIN new = 1 .. m /\ \A i \in 1 .. m : new[i] = IF store[i].id = d THEN x ELSE store[i]
      BY <1>1, <2>1
  <2>3. new \in Seq(S)
    <3>1. \A i \in 1 .. m : new[i] \in S
        BY <1>1, <1>3, <2>2
    <3>2. new = [i \in 1 .. m |-> new[i]]
        BY <1>1, <2>1, <2>2
    <3> QED
        BY <1>1, <3>1, <3>2
  <2>4. \A i \in 1 .. m : new[i].id = store[i].id
      BY <1>3, <2>2
  <2>5. OneId(new)
      BY <1>2, <2>2, <2>4 DEF OneId
  <2>6. Ids(new) = Ids(store)
      BY <1>1, <2>2, <2>4 DEF Ids
  <2>7. d \in Ids(store)
      BY <1>4 DEF Ids
  <2> QED
      BY <2>3, <2>5, <2>6, <2>7 DEF StoreOK, S, new
<1>5. CASE ~\E i \in DOMAIN store : store[i].id = d
  <2>1. new = Append(store, x)
      BY <1>5 DEF Stored
  <2> HIDE DEF x, S, m
  <2>2. new \in Seq(S) /\ DOMAIN new = 1 .. m + 1 /\ new[m + 1] = x /\ \A i \in 1 .. m : new[i] = store[i]
    <3> HIDE DEF new
    <3> QED
        BY <1>1, <1>3, <2>1 DEF m
  <2> HIDE DEF new
  <2>3. \A i \in 1 .. m + 1 : i = m + 1 \/ i \in 1 .. m
      BY <1>1
  <2>4. m + 1 \in 1 .. m + 1 /\ \A i \in 1 .. m : i \in 1 .. m + 1
      BY <1>1
  <2>5. OneId(new)
    <3>1. SUFFICES ASSUME NEW i \in 1 .. m + 1, NEW j \in 1 .. m + 1, new[i].id = new[j].id PROVE i = j
        BY <2>2 DEF OneId
    <3>2. CASE i \in 1 .. m /\ j \in 1 .. m
        BY <1>2, <2>2, <3>1, <3>2
    <3>3. CASE i = m + 1 /\ j \in 1 .. m
        BY <1>1, <1>3, <1>5, <2>2, <3>1, <3>3
    <3>4. CASE i \in 1 .. m /\ j = m + 1
        BY <1>1, <1>3, <1>5, <2>2, <3>1, <3>4
    <3> QED
        BY <2>3, <3>2, <3>3, <3>4
  <2>6. Ids(new) = Ids(store) \cup {d}
      BY <1>1, <1>3, <2>2, <2>3, <2>4 DEF Ids
  <2> QED
      BY <2>2, <2>5, <2>6 DEF StoreOK, S, new
<1> QED
    BY <1>4, <1>5

\* As many ids as documents.
LEMMA IdsCounted ==
    ASSUME NEW s, StoreOK(s)
    PROVE  Cardinality(Ids(s)) = Len(s) /\ Len(s) \in 0 .. Cardinality(Docs)
<1> DEFINE m == Len(s)
           K == Ids(s)
           f == [i \in 1 .. m |-> s[i].id]
<1>1. m \in Nat /\ DOMAIN s = 1 .. m /\ OneId(s) /\ \A i \in 1 .. m : s[i] \in Stores
    BY StoreIs
<1>2. IsFiniteSet(1 .. m) /\ Cardinality(1 .. m) = m
    BY <1>1, FS_Interval
<1>3. K = {s[i].id : i \in 1 .. m}
    BY <1>1 DEF Ids
<1>4. K \in SUBSET Docs
    BY <1>1, <1>3 DEF Stores
<1> HIDE DEF K, m
<1>5. f \in Surjection(1 .. m, K)
    BY <1>3 DEF Surjection
<1>6. f \in Injection(1 .. m, K)
  <2>1. f \in [1 .. m -> K]
      BY <1>3
  <2>2. \A i, j \in 1 .. m : s[i].id = s[j].id => i = j
      BY <1>1 DEF OneId
  <2>3. \A i \in 1 .. m : f[i] = s[i].id
      OBVIOUS
  <2> HIDE DEF f
  <2> QED
      BY <2>1, <2>2, <2>3 DEF Injection, IsInjective
<1> HIDE DEF f
<1>7. IsFiniteSet(K) /\ Cardinality(K) = Cardinality(1 .. m)
    BY <1>2, <1>5, <1>6, FS_Surjection
<1>8. Cardinality(K) <= Cardinality(Docs)
    BY <1>4, DocsFinite, FS_Subset
<1>9. Cardinality(Docs) \in Nat
    BY DocsFinite, FS_CardinalityType
<1> QED
    BY <1>1, <1>2, <1>7, <1>8, <1>9 DEF K, m

\* The sum of the word counts is a number.
LEMMA TotalWordsIs ==
    ASSUME NEW s, StoreOK(s)
    PROVE  TotalWords(s) \in Nat
<1> DEFINE m == Len(s)
           Turn(st, i) == st + s[i].words
           step == [w \in (1 .. m) \X Nat |-> Turn(w[2], w[1])]
           Loop(g) == [i \in 0 .. m |-> IF i = 0 THEN 0 ELSE g[i - 1] + s[i].words]
           after == CHOOSE g : g = Loop(g)
<1>1. TotalWords(s) = after[m]
    BY DEF TotalWords
<1>2. m \in Nat /\ \A i \in 1 .. m : s[i].words \in Nat
    BY StoreIs DEF Stores
<1>4. \A i \in 1 .. m, st \in Nat : Turn(st, i) \in Nat
    BY <1>2
<1> HIDE DEF m, Turn
<1>5. step \in Bodies(m, Nat)
    BY <1>4 DEF Bodies
<1>6. \A i \in 1 .. m, st \in Nat : step[<<i, st>>] = Turn(st, i)
    OBVIOUS
<1> HIDE DEF step
<1>7. PICK f : Runs(f, m, Nat, 0, step)
    BY <1>2, <1>5, LoopExists
<1>8. ASSUME NEW i \in 0 .. m PROVE f[i] = IF i = 0 THEN 0 ELSE Turn(f[i - 1], i)
  <2>1. CASE i = 0
      BY <1>7, <2>1 DEF Runs
  <2>2. CASE i # 0
    <3>1. i \in 1 .. m /\ i - 1 \in 0 .. m
        BY <1>2, <2>2
    <3>2. f[i - 1] \in Nat /\ f[i] = step[<<i, f[i - 1]>>]
        BY <1>7, <3>1 DEF Runs
    <3> QED
        BY <1>6, <2>2, <3>1, <3>2
  <2> QED
      BY <2>1, <2>2
<1>9. f = [i \in 0 .. m |-> f[i]]
    BY <1>7 DEF Runs
<1>10. f = Loop(f)
    BY <1>8, <1>9 DEF Turn
<1> HIDE DEF Loop
<1>11. after = Loop(after)
    BY <1>10
<1> HIDE DEF after
<1>12. after = [i \in 0 .. m |-> IF i = 0 THEN 0 ELSE Turn(after[i - 1], i)]
    BY <1>11 DEF Loop, Turn
<1>13. \A i \in 0 .. m : after[i] = IF i = 0 THEN 0 ELSE Turn(after[i - 1], i)
    BY <1>12
<1>14. 0 \in 0 .. m /\ \A i \in 1 .. m : i \in 0 .. m /\ i # 0
    BY <1>2
<1> DEFINE D == {i \in 0 .. m : after[i] \in Nat}
<1>15. 0 \in D
    BY <1>13, <1>14
<1>16. ASSUME NEW i \in 1 .. m, i - 1 \in D PROVE i \in D
    BY <1>4, <1>13, <1>14, <1>16
<1> HIDE DEF D
<1>17. m \in D
    BY <1>2, <1>15, <1>16, CountUp
<1> QED
    BY <1>1, <1>17 DEF D

-----------------------------------------------------------------------------
(* The invariant.                                                           *)

\* The positions of a term in the texts one after the other.
Where(ts, t) == FlattenSeq([i \in 1 .. Len(ts) |-> Abs!Positions(ts[i], t)])

IndInv ==
    /\ \E n : Ready(Fresh, n)
    /\ StoreOK(store) /\ totalDocuments = Len(store) /\ totalLength \in Nat
    /\ texts \in [Docs -> Seq(Texts)]
    /\ \A t \in Terms, d \in Docs : Exact(ListOf(table, t), d, Where(texts[d], t))
    /\ \A t \in Terms, d \in Docs : Find(ListOf(table, t), d) # {} => d \in Ids(store)

LEMMA WhereNothing ==
    ASSUME NEW t
    PROVE  Where(<<>>, t) = <<>>
<1>1. [i \in 1 .. Len(<<>>) |-> Abs!Positions(<<>>[i], t)] = <<>>
    OBVIOUS
<1>2. FlattenSeq(<<>>) = <<>>
    BY DEF FlattenSeq
<1> QED
    BY <1>1, <1>2 DEF Where

\* One more text adds its positions behind the others.
LEMMA WhereIs ==
    ASSUME NEW ts \in Seq(Texts), NEW text \in Texts, NEW t
    PROVE  /\ Where(ts, t) \in Seq(Nat \ {0})
           /\ Where(Append(ts, text), t) = Where(ts, t) \o Abs!Positions(text, t)
<1> DEFINE V == Nat \ {0}
           n == Len(ts)
           more == Append(ts, text)
           P(x) == Abs!Positions(x, t)
           seqs == [i \in 1 .. n |-> P(ts[i])]
           longer == [i \in 1 .. Len(more) |-> P(more[i])]
           p == P(text)
<1>1. \A x \in Texts : P(x) \in Seq(V)
  <2>1. SUFFICES ASSUME NEW x \in Texts PROVE P(x) \in Seq(V)
      OBVIOUS
  <2>2. x \in Seq(Terms \cup {StopWord})
      BY TextIs
  <2> QED
      BY <2>2, PositionsAre
<1>2. n \in Nat /\ \A i \in 1 .. n : ts[i] \in Texts
    BY SeqIs
<1>3. Len(more) = n + 1 /\ more[n + 1] = text /\ \A i \in 1 .. n : more[i] = ts[i]
    OBVIOUS
<1>5. Where(ts, t) = FlattenSeq(seqs) /\ Where(more, t) = FlattenSeq(longer)
    BY DEF Where
<1> HIDE DEF more, P, n, V
<1>6. seqs \in Seq(Seq(V)) /\ p \in Seq(V) /\ Len(seqs) = n
    BY <1>1, <1>2
<1>7. longer = Append(seqs, p)
  <2>1. longer = [i \in 1 .. n + 1 |-> P(more[i])]
      BY <1>3
  <2>2. \A i \in 1 .. n : seqs[i] = P(ts[i])
      OBVIOUS
  <2> DEFINE a == Append(seqs, p)
  <2> HIDE DEF seqs, longer, p
  <2>3. a \in Seq(Seq(V)) /\ Len(a) = n + 1 /\ a[n + 1] = p /\ \A i \in 1 .. n : a[i] = seqs[i]
      BY <1>6
  <2> HIDE DEF a
  <2>4. \A i \in 1 .. n + 1 : i = n + 1 \/ i \in 1 .. n
      BY <1>2
  <2>5. \A i \in 1 .. n + 1 : a[i] = P(more[i])
      BY <1>3, <2>2, <2>3, <2>4 DEF p
  <2>6. a = [i \in 1 .. n + 1 |-> a[i]]
      BY <2>3
  <2>7. a = [i \in 1 .. n + 1 |-> P(more[i])]
      BY <2>5, <2>6
  <2> QED
      BY <2>1, <2>7 DEF a
<1> HIDE DEF seqs, longer, p
<1>8. FlattenSeq(seqs) \in Seq(V) /\ FlattenSeq(Append(seqs, p)) = FlattenSeq(seqs) \o p
    BY <1>6, FlattenStep
<1> QED
    BY <1>5, <1>7, <1>8 DEF more, P, p, V

\* A new table.
LEMMA EmptyIs ==
    ASSUME NEW n \in Nat \ {0}
    PROVE  Well(Empty(n), n, Lists) /\ Keys(Empty(n), n) = {} /\ Empty(n).size = 0
<1> DEFINE b == [i \in 0 .. n - 1 |-> <<>>]
           h == Empty(n)
<1>1. h.buckets = b /\ h.size = 0 /\ h.collisions = 0
    BY DEF Empty
<1>2. b \in Chains(n, Lists)
  <2>1. <<>> \in Seq(NodeSet(Lists))
      BY Nothing
  <2> QED
      BY <2>1 DEF Chains
<1>3. \A i \in 0 .. n - 1 : b[i] = <<>>
    OBVIOUS
<1>4. DOMAIN b = 0 .. n - 1 /\ DOMAIN <<>> = {}
    OBVIOUS
<1> HIDE DEF b, h
<1>5. Good(b, n, Lists)
    BY <1>2, <1>3, <1>4 DEF Good, Placed, Single
<1>6. Entries(b, n) = {}
    BY <1>3, <1>4 DEF Entries
<1>7. Keys(h, n) = {}
    BY <1>1, <1>6 DEF Keys, KeysIn
<1>8. Occupied(b) = {}
    BY <1>3, <1>4 DEF Occupied
<1>9. IsFiniteSet({}) /\ Cardinality({}) = 0
    BY FS_EmptySet
<1>10. Well(h, n, Lists)
    BY <1>1, <1>5, <1>7, <1>8, <1>9 DEF Well
<1> QED
    BY <1>1, <1>7, <1>10 DEF h

LEMMA InitInd == Init => IndInv
<1>1. SUFFICES ASSUME Init PROVE IndInv
    OBVIOUS
<1> DEFINE n == InitWidth
<1>2. n \in Nat \ {0}
    BY WidthPos
<1>3. /\ table = Empty(n) /\ store = <<>> /\ totalDocuments = 0 /\ totalTerms = 0 /\ totalLength = 0
      /\ words = [t \in Terms |-> 0] /\ texts = [d \in Docs |-> <<>>]
    BY <1>1 DEF Init
<1> HIDE DEF n
<1>4. Well(table, n, Lists) /\ Keys(table, n) = {} /\ table.size = 0
    BY <1>2, <1>3, EmptyIs
<1>5. Ready(Fresh, n)
  <2> DEFINE x == Fresh
  <2>1. x.table = table /\ x.terms = totalTerms /\ x.words = words
      BY DEF Fresh
  <2> HIDE DEF x
  <2>2. words \in [Terms -> Nat] /\ \A t \in Terms : ~(words[t] > 0)
      BY <1>3
  <2>3. Ready(x, n)
      BY <1>2, <1>3, <1>4, <2>1, <2>2 DEF Ready
  <2> QED
      BY <2>3 DEF x
<1>6. StoreOK(store) /\ totalDocuments = Len(store)
  <2>1. <<>> \in Seq(Stores) /\ DOMAIN <<>> = {} /\ Len(<<>>) = 0
      BY Nothing
  <2> QED
      BY <1>3, <2>1 DEF StoreOK, OneId
<1>7. texts \in [Docs -> Seq(Texts)]
  <2>1. <<>> \in Seq(Texts)
      BY Nothing
  <2> QED
      BY <1>3, <2>1
<1>8. \A t \in Terms : ListOf(table, t) = <<>>
    BY <1>2, <1>4, ListOfIs
<1>9. \A d : Find(<<>>, d) = {}
    BY DEF Find
<1>10. \A t : Where(<<>>, t) = <<>>
    BY WhereNothing
<1>11. \A t \in Terms, d \in Docs : Exact(ListOf(table, t), d, Where(texts[d], t))
    BY <1>3, <1>8, <1>9, <1>10 DEF Exact
<1>12. \A t \in Terms, d \in Docs : Find(ListOf(table, t), d) # {} => d \in Ids(store)
    BY <1>8, <1>9
<1> QED
    BY <1>3, <1>5, <1>6, <1>7, <1>11, <1>12 DEF IndInv

\* The lists after a call, as the abstract operation makes them.
AddsAll(d, text) ==
    \A t \in Terms : ListOf(table, t)' = Abs!With(ListOf(table, t), d, Abs!Positions(text, t))
RemovesAll(d) == \A t \in Terms : ListOf(table, t)' = Abs!Without(ListOf(table, t), d)

LEMMA AddStep ==
    ASSUME IndInv, NEW d \in Docs, NEW text \in Texts, AddDocument(d, text)
    PROVE  IndInv' /\ AddsAll(d, text)
<1> DEFINE x == AllTokens(d, text)
           w == Len(text)
<1>1. /\ store' = Stored(d, w) /\ table' = x.table /\ totalTerms' = x.terms /\ words' = x.words
      /\ totalDocuments' = Len(store') /\ totalLength' = TotalWords(store')
      /\ texts' = [texts EXCEPT ![d] = Append(@, text)]
    BY DEF AddDocument
<1>2. PICK n : Ready(Fresh, n)
    BY DEF IndInv
<1>3. (\E m : Ready(x, m)) /\ Indexed(x.table, text, d)
    BY <1>2, AllTokensIs
<1> HIDE DEF x
<1>4. PICK m : Ready(x, m)
    BY <1>3
<1>5. Ready(Fresh', m)
  <2> DEFINE y == Fresh'
  <2>1. y.table = x.table /\ y.terms = x.terms /\ y.words = x.words
      BY <1>1 DEF Fresh
  <2> HIDE DEF y
  <2>2. Ready(y, m)
      BY <1>4, <2>1 DEF Ready
  <2> QED
      BY <2>2 DEF y
<1>6. (\E k : Ready(Fresh, k))'
    BY <1>5
<1>7. ASSUME NEW t \in Terms
      PROVE  ListOf(table', t) = Abs!With(ListOf(table, t), d, Abs!Positions(text, t))
    BY <1>1, <1>3 DEF Indexed
<1>8. StoreOK(store)' /\ Ids(store') = Ids(store) \cup {d}
  <2>1. w \in Nat
      BY TextIs
  <2>2. StoreOK(store)
      BY DEF IndInv
  <2> HIDE DEF w
  <2>3. StoreOK(Stored(d, w)) /\ Ids(Stored(d, w)) = Ids(store) \cup {d}
      BY <2>1, <2>2, StoredIs
  <2> QED
      BY <1>1, <2>3
<1>9. (totalDocuments = Len(store) /\ totalLength \in Nat)'
  <2>1. TotalWords(store') \in Nat
      BY <1>8, TotalWordsIs
  <2> QED
      BY <1>1, <2>1
<1>10. texts \in [Docs -> Seq(Texts)] /\ texts[d] \in Seq(Texts)
    BY DEF IndInv
<1>11. /\ texts' \in [Docs -> Seq(Texts)] /\ texts'[d] = Append(texts[d], text)
       /\ \A e \in Docs : e # d => texts'[e] = texts[e]
  <2>1. Append(texts[d], text) \in Seq(Texts)
      BY <1>10, Appended
  <2> DEFINE S == Seq(Texts)
             a == Append(texts[d], text)
  <2> HIDE DEF S, a
  <2>2. a \in S /\ texts \in [Docs -> S] /\ texts' = [texts EXCEPT ![d] = a]
      BY <1>1, <1>10, <2>1 DEF S, a
  <2>3. texts' \in [Docs -> S] /\ texts'[d] = a /\ \A e \in Docs : e # d => texts'[e] = texts[e]
      BY <2>2
  <2> QED
      BY <2>3 DEF S, a
<1>12. ASSUME NEW t \in Terms, NEW e \in Docs
       PROVE  /\ Exact(ListOf(table', t), e, Where(texts'[e], t))
              /\ Find(ListOf(table', t), e) # {} => e \in Ids(store')
  <2> DEFINE list == ListOf(table, t)
             new == Abs!Positions(text, t)
             l == ListOf(table', t)
             ps == Where(texts[e], t)
             T == Terms \cup {StopWord}
  <2>1. list \in Lists
      BY <1>2, ListOfIs DEF Ready, Fresh
  <2>2. new \in Seq(Nat \ {0})
    <3>1. text \in Seq(T)
        BY TextIs
    <3> HIDE DEF T
    <3> QED
        BY <3>1, PositionsAre
  <2>3. l = Abs!With(list, d, new)
      BY <1>7
  <2>4. Exact(list, e, ps) /\ (Find(list, e) # {} => e \in Ids(store))
      BY DEF IndInv
  <2>5. texts[e] \in Seq(Texts) /\ texts[d] \in Seq(Texts)
      BY <1>10
  <2>6. ps \in Seq(Nat \ {0})
      BY <2>5, WhereIs
  <2> HIDE DEF list, new, l, ps
  <2>7. Adds(l, list, d, new)
      BY <2>1, <2>2, <2>3, WithAdds
  <2>8. CASE e = d
    <3>1. Exact(l, d, ps \o new)
        BY <2>4, <2>6, <2>7, <2>8 DEF Adds
    <3>2. Where(texts'[d], t) = ps \o new
        BY <1>11, <2>5, <2>8, WhereIs DEF ps, new
    <3> QED
        BY <1>8, <2>8, <3>1, <3>2 DEF l
  <2>9. CASE e # d
    <3>1. Exact(l, e, ps) /\ texts'[e] = texts[e]
        BY <1>11, <2>4, <2>7, <2>9 DEF Adds
    <3>2. Find(l, e) # {} => Find(list, e) # {}
        BY <2>4, <3>1 DEF Exact
    <3> QED
        BY <1>8, <2>4, <3>1, <3>2 DEF l, ps
  <2> QED
      BY <2>8, <2>9
<1>13. IndInv'
    BY <1>6, <1>8, <1>9, <1>11, <1>12 DEF IndInv
<1> QED
    BY <1>7, <1>13 DEF AddsAll

LEMMA RemoveStep ==
    ASSUME IndInv, NEW d \in Docs, RemoveDocument(d)
    PROVE  IndInv' /\ RemovesAll(d)
<1> DEFINE g == EachValue(table, LAMBDA list : Removed(list, d))
<1>1. /\ table' = g /\ texts' = [texts EXCEPT ![d] = <<>>] /\ store' = store
      /\ totalDocuments' = totalDocuments /\ totalTerms' = totalTerms
      /\ totalLength' = totalLength /\ words' = words
    BY DEF RemoveDocument
<1>2. PICK n : Ready(Fresh, n)
    BY DEF IndInv
<1>3. /\ n \in Nat \ {0} /\ Well(table, n, Lists) /\ totalTerms = table.size
      /\ words \in [Terms -> Nat] /\ \A t \in Terms : words[t] > 0 <=> t \in Keys(table, n)
    BY <1>2 DEF Ready, Fresh
<1>4. Emptied(g, table, n, d)
    BY <1>3, EachIs
<1> HIDE DEF g
<1>5. /\ Well(g, n, Lists) /\ Keys(g, n) = Keys(table, n)
      /\ \A k \in Keys(table, n) : Get(g, k) = Removed(Get(table, k), d)
    BY <1>4 DEF Emptied
<1>6. g.size = table.size
    BY <1>3, <1>5 DEF Well
<1>7. Ready(Fresh', n)
  <2> DEFINE y == Fresh'
  <2>1. y.table = g /\ y.terms = totalTerms /\ y.words = words
      BY <1>1 DEF Fresh
  <2> HIDE DEF y
  <2>2. Ready(y, n)
      BY <1>3, <1>5, <1>6, <2>1 DEF Ready
  <2> QED
      BY <2>2 DEF y
<1>8. (\E k : Ready(Fresh, k))'
    BY <1>7
<1>9. ASSUME NEW t \in Terms
      PROVE  ListOf(table, t) \in Lists /\ ListOf(table', t) = Removed(ListOf(table, t), d)
  <2>1. ListOf(table, t) \in Lists
      BY <1>3, ListOfIs
  <2>2. CASE t \in Keys(table, n)
    <3>1. ListOf(table, t) = Get(table, t)
        BY <1>3, <2>2, ListOfIs
    <3>2. ListOf(g, t) = Get(g, t)
        BY <1>3, <1>5, <2>2, ListOfIs
    <3> QED
        BY <1>1, <1>5, <2>1, <2>2, <3>1, <3>2
  <2>3. CASE t \notin Keys(table, n)
    <3>1. ListOf(table, t) = <<>>
        BY <1>3, <2>3, ListOfIs
    <3>2. ListOf(g, t) = <<>>
        BY <1>3, <1>5, <2>3, ListOfIs
    <3>3. Removed(<<>>, d) = <<>>
        BY DEF Removed, Find
    <3> QED
        BY <1>1, <2>1, <3>1, <3>2, <3>3
  <2> QED
      BY <2>2, <2>3
<1>10. RemovesAll(d)
  <2>1. \A t \in Terms : Removed(ListOf(table, t), d) = Abs!Without(ListOf(table, t), d)
      BY <1>9, RemovedIs
  <2> QED
      BY <1>9, <2>1 DEF RemovesAll
<1>11. /\ texts' \in [Docs -> Seq(Texts)] /\ texts'[d] = <<>>
       /\ \A e \in Docs : e # d => texts'[e] = texts[e]
  <2> DEFINE S == Seq(Texts)
             a == <<>>
  <2>1. a \in S
      BY Nothing
  <2>2. texts \in [Docs -> S]
      BY DEF IndInv
  <2> HIDE DEF S, a
  <2>3. texts' = [texts EXCEPT ![d] = a]
      BY <1>1 DEF a
  <2>4. texts' \in [Docs -> S] /\ texts'[d] = a /\ \A e \in Docs : e # d => texts'[e] = texts[e]
      BY <2>1, <2>2, <2>3
  <2> QED
      BY <2>4 DEF S, a
<1>12. ASSUME NEW t \in Terms, NEW e \in Docs
       PROVE  /\ Exact(ListOf(table', t), e, Where(texts'[e], t))
              /\ Find(ListOf(table', t), e) # {} => e \in Ids(store)
  <2> DEFINE list == ListOf(table, t)
             l == ListOf(table', t)
             ps == Where(texts[e], t)
  <2>1. list \in Lists /\ l = Removed(list, d)
      BY <1>9
  <2>2. Exact(list, e, ps) /\ (Find(list, e) # {} => e \in Ids(store))
      BY DEF IndInv
  <2> HIDE DEF list, l, ps
  <2>3. Exact(l, d, <<>>) /\ (e # d => Exact(l, e, ps))
      BY <2>1, <2>2, RemovedExact
  <2>4. CASE e = d
    <3>1. Where(<<>>, t) = <<>>
        BY WhereNothing
    <3>2. Find(l, d) = {}
        BY <2>3 DEF Exact
    <3> QED
        BY <1>11, <2>3, <2>4, <3>1, <3>2 DEF l
  <2>5. CASE e # d
    <3>1. texts'[e] = texts[e]
        BY <1>11, <2>5
    <3>2. Find(l, e) # {} => Find(list, e) # {}
        BY <2>2, <2>3, <2>5 DEF Exact
    <3> QED
        BY <2>2, <2>3, <2>5, <3>1, <3>2 DEF l, ps
  <2> QED
      BY <2>4, <2>5
<1>13. (StoreOK(store) /\ totalDocuments = Len(store) /\ totalLength \in Nat)'
    BY <1>1 DEF IndInv
<1>14. IndInv'
    BY <1>1, <1>8, <1>11, <1>12, <1>13 DEF IndInv
<1> QED
    BY <1>10, <1>14

LEMMA NextInd == IndInv /\ [Next]_vars => IndInv'
<1>1. SUFFICES ASSUME IndInv, [Next]_vars PROVE IndInv'
    OBVIOUS
<1>2. CASE UNCHANGED vars
    BY <1>1, <1>2 DEF vars, IndInv, Fresh, StoreOK, Ids
<1>3. CASE Done
    BY <1>1, <1>3 DEF Done, vars, IndInv, Fresh, StoreOK, Ids
<1>4. ASSUME NEW d \in Docs, RemoveDocument(d) PROVE IndInv'
    BY <1>1, <1>4, RemoveStep
<1>5. ASSUME NEW d \in Docs, NEW text \in Texts, AddDocument(d, text) PROVE IndInv'
    BY <1>1, <1>5, AddStep
<1> QED
    BY <1>1, <1>2, <1>3, <1>4, <1>5 DEF Next

\* The facts that the invariants are drawn from.
LEMMA Lasting == Spec => []IndInv
BY InitInd, NextInd, PTL DEF Spec

-----------------------------------------------------------------------------
(* The theorems.                                                            *)

\* What IndInv says of one list.
LEMMA ListFacts ==
    ASSUME IndInv, NEW t \in Terms
    PROVE  PostingsOf(t) = ListOf(table, t) /\ PostingsOf(t) \in Lists
<1>1. PICK n : Ready(Fresh, n)
    BY DEF IndInv
<1> QED
    BY <1>1, ListOfIs DEF Ready, Fresh, PostingsOf, ListOf

LEMMA CountFacts ==
    ASSUME IndInv
    PROVE  /\ Sound(table) /\ table.size \in Nat /\ table.collisions \in Nat
           /\ DOMAIN table.buckets = 0 .. Width(table) - 1
           /\ totalTerms = table.size /\ words \in [Terms -> Nat]
           /\ totalTerms = Cardinality({t \in Terms : words[t] > 0})
<1>1. PICK n : Ready(Fresh, n)
    BY DEF IndInv
<1>2. /\ n \in Nat \ {0} /\ Well(table, n, Lists) /\ totalTerms = table.size
      /\ words \in [Terms -> Nat] /\ \A t \in Terms : words[t] > 0 <=> t \in Keys(table, n)
    BY <1>1 DEF Ready, Fresh
<1>3. /\ Sound(table) /\ table.size \in Nat /\ table.collisions \in Nat
      /\ DOMAIN table.buckets = 0 .. Width(table) - 1
    BY <1>2, WellIsSound
<1>4. Keys(table, n) \subseteq Terms
  <2>1. ASSUME NEW x \in Entries(table.buckets, n) PROVE x.key \in Terms
    <3>1. Hangs(x, table.buckets, n, Lists)
        BY <1>2, EntryAt DEF Well
    <3> QED
        BY <3>1 DEF Hangs
  <2> QED
      BY <2>1 DEF Keys, KeysIn
<1>5. {t \in Terms : words[t] > 0} = Keys(table, n)
    BY <1>2, <1>4
<1>6. table.size = Cardinality(Keys(table, n))
    BY <1>2 DEF Well
<1> QED
    BY <1>2, <1>3, <1>5, <1>6

\* The table of terms has its types and is sound: every key hangs in the chain of
\* its hash, once, size counts the keys, and no resize loses one, for every hash
\* function, number of buckets and sequence of calls.
THEOREM AlwaysSound == Spec => []TableSound
<1>1. ASSUME IndInv PROVE TableSound
  <2>1. TypeOK
    <3>1. \A t \in Terms : \A k \in DOMAIN PostingsOf(t) :
            PostingsOf(t)[k] \in [doc : Docs, positions : Seq(Nat \ {0})]
      <4>1. SUFFICES ASSUME NEW t \in Terms, NEW k \in DOMAIN PostingsOf(t)
                     PROVE  PostingsOf(t)[k] \in [doc : Docs, positions : Seq(Nat \ {0})]
          OBVIOUS
      <4>2. PostingsOf(t)[k] \in Posting
          BY <1>1, ListFacts, ListIs
      <4> QED
          BY <4>2 DEF Posting, Placing
    <3>2. \A i \in DOMAIN store : store[i] \in [id : Docs, words : Nat]
        BY <1>1, StoreIs DEF IndInv, Stores
    <3>3. totalDocuments \in 0 .. Cardinality(Docs) /\ totalLength \in Nat
        BY <1>1, IdsCounted DEF IndInv
    <3> QED
        BY <1>1, <3>1, <3>2, <3>3, CountFacts DEF TypeOK
  <2> QED
      BY <1>1, <2>1, CountFacts DEF TableSound
<1> QED
    BY <1>1, Lasting, PTL

\* A document has a posting under exactly the terms of the texts added for it
\* since it was removed, with their positions in order, whatever happens to the
\* table and to other documents in between.
THEOREM AlwaysExact == Spec => []PostingsExact
<1>1. ASSUME IndInv PROVE PostingsExact
  <2>1. SUFFICES ASSUME NEW t \in Terms, NEW d \in Docs
                 PROVE  LET list == PostingsOf(t)
                            mine == Find(list, d)
                            where == FlattenSeq([i \in 1 .. Len(texts[d]) |-> Abs!Positions(texts[d][i], t)])
                        IN  /\ mine = {} <=> where = <<>>
                            /\ \A k \in mine : list[k].positions = where /\ mine = {k}
      BY DEF PostingsExact
  <2> DEFINE list == PostingsOf(t)
  <2>2. list \in Lists /\ Exact(list, d, Where(texts[d], t))
      BY <1>1, ListFacts DEF IndInv
  <2>3. \A k \in Find(list, d) : Find(list, d) = {k}
      BY <2>2, FoundOnce
  <2> QED
      BY <2>2, <2>3 DEF Exact, Where
<1> QED
    BY <1>1, Lasting, PTL

\* total_terms counts the keys and the words of the trie, total_documents the ids
\* of the store, and every posting's document is in the store.
THEOREM AlwaysAgree == Spec => []CountsAgree
<1>1. ASSUME IndInv PROVE CountsAgree
  <2>1. totalDocuments = Cardinality({store[i].id : i \in DOMAIN store})
      BY <1>1, IdsCounted DEF IndInv, Ids
  <2>2. ASSUME NEW t \in Terms, NEW k \in DOMAIN PostingsOf(t)
        PROVE  \E i \in DOMAIN store : store[i].id = PostingsOf(t)[k].doc
    <3> DEFINE list == PostingsOf(t)
               d == list[k].doc
    <3>1. list = ListOf(table, t) /\ list[k] \in Posting
        BY <1>1, ListFacts, ListIs
    <3>2. d \in Docs
        BY <3>1 DEF Posting
    <3>3. k \in Find(list, d)
        BY DEF Find
    <3>4. d \in Ids(store)
        BY <1>1, <3>1, <3>2, <3>3 DEF IndInv
    <3> QED
        BY <3>4 DEF Ids
  <2> QED
      BY <1>1, <2>1, <2>2, CountFacts DEF CountsAgree
<1> QED
    BY <1>1, Lasting, PTL

\* The index with its hash table implements the map from terms to postings: each
\* call is the abstract operation, and growing the table is invisible.
THEOREM Implements == Spec => ImplementsAbstractIndex
<1>1. Init => Abs!Init
  <2>1. SUFFICES ASSUME Init PROVE Abs!Init
      OBVIOUS
  <2>2. ASSUME NEW t \in Terms PROVE PostingsOf(t) = <<>>
    <3>1. Well(table, InitWidth, Lists) /\ Keys(table, InitWidth) = {}
        BY <2>1, WidthPos, EmptyIs DEF Init
    <3>2. ListOf(table, t) = <<>>
        BY <3>1, WidthPos, ListOfIs
    <3> QED
        BY <3>2 DEF ListOf, PostingsOf
  <2> QED
      BY <2>2 DEF Abs!Init
<1>2. IndInv /\ [Next]_vars => [Abs!Next]_([t \in Terms |-> PostingsOf(t)])
  <2>1. SUFFICES ASSUME IndInv, [Next]_vars
                 PROVE  Abs!Next \/ UNCHANGED [t \in Terms |-> PostingsOf(t)]
      OBVIOUS
  <2>2. \A t \in Terms : PostingsOf(t) = ListOf(table, t) /\ PostingsOf(t)' = ListOf(table, t)'
      BY DEF PostingsOf, ListOf
  <2>3. CASE UNCHANGED vars
      BY <2>3 DEF vars, PostingsOf
  <2>4. CASE Done
      BY <2>4 DEF Done, vars, PostingsOf
  <2>5. ASSUME NEW d \in Docs, RemoveDocument(d) PROVE Abs!Next
    <3>1. RemovesAll(d)
        BY <2>1, <2>5, RemoveStep
    <3>2. Abs!RemoveDocument(d)
        BY <2>2, <3>1 DEF RemovesAll, Abs!RemoveDocument
    <3> QED
        BY <3>2 DEF Abs!Next
  <2>6. ASSUME NEW d \in Docs, NEW text \in Texts, AddDocument(d, text) PROVE Abs!Next
    <3>1. AddsAll(d, text)
        BY <2>1, <2>6, AddStep
    <3>2. Abs!AddDocument(d, text)
        BY <2>2, <3>1 DEF AddsAll, Abs!AddDocument
    <3> QED
        BY <3>2 DEF Abs!Next
  <2> QED
      BY <2>1, <2>3, <2>4, <2>5, <2>6 DEF Next
<1> QED
    BY <1>1, <1>2, Lasting, PTL DEF Spec, ImplementsAbstractIndex, Abs!Spec

=============================================================================
