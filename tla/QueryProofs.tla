---------------------------- MODULE QueryProofs ----------------------------
(***************************************************************************)
(* Proofs about QueryEngine for any tokens, nesting depth, words, counts,   *)
(* documents and scores: a query loses no word, results are ranked within   *)
(* the tolerance, the bounded distance is the distance, and did_you_mean    *)
(* and the suggestions are the best of the words looked at.                 *)
(***************************************************************************)
EXTENDS QueryEngine, FiniteSetTheorems, WellFoundedInduction, TLAPS

-----------------------------------------------------------------------------
(* Numbers, loops and sequences.                                            *)

\* A set of numbers that is not empty has a least one.
LEMMA MinIs ==
    ASSUME NEW S \in SUBSET Nat, S # {}
    PROVE  Min(S) \in S /\ \A j \in S : Min(S) <= j
<1>1. \E i \in S : \A j \in S : ~(<<j, i>> \in OpToRel(<, Nat))
    BY NatLessThanWellFounded, WFMin
<1>2. PICK i \in S : \A j \in S : ~(<<j, i>> \in OpToRel(<, Nat))
    BY <1>1
<1>3. \A j \in S : ~(j < i)
    BY <1>2 DEF OpToRel
<1>4. \A j \in S : i <= j
    BY <1>3
<1> QED
    BY <1>4 DEF Min

\* Counting up to n, the step from each number to the next reaches all of them.
LEMMA CountUp ==
    ASSUME NEW n \in Nat, NEW S, 0 \in S, \A i \in 1 .. n : i - 1 \in S => i \in S
    PROVE  n \in S /\ \A i \in 0 .. n : i \in S
<1> DEFINE Missed == (0 .. n) \ S
<1>1. SUFFICES ASSUME Missed # {} PROVE FALSE
    OBVIOUS
<1>2. Missed \in SUBSET Nat
    OBVIOUS
<1> DEFINE m == Min(Missed)
<1>3. m \in Missed /\ \A j \in Missed : m <= j
  <2> HIDE DEF Missed
  <2> QED
      BY <1>1, <1>2, MinIs
<1> HIDE DEF m
<1>4. m \in 1 .. n
    BY <1>3
<1>5. m - 1 \in 0 .. n /\ ~(m <= m - 1)
    BY <1>4
<1>6. m - 1 \in S
    BY <1>3, <1>5
<1> QED
    BY <1>3, <1>4, <1>6

\* A loop of n rounds whose body takes states of S to states of S, and the states
\* it has after each round.
Bodies(n, S) == [(1 .. n) \X S -> S]
Runs(f, n, S, e, step) ==
    f \in [0 .. n -> S] /\ f[0] = e /\ \A i \in 1 .. n : f[i] = step[<<i, f[i - 1]>>]

\* A loop has its states: there is a run of it.
LEMMA LoopExists ==
    ASSUME NEW n \in Nat, NEW S, NEW e \in S, NEW step \in Bodies(n, S)
    PROVE  \E f : Runs(f, n, S, e, step)
<1> DEFINE Goes(f, m) == Runs(f, m, S, e, step)
           D == {m \in 0 .. n : \E f : Goes(f, m)}
<1>1. 0 \in D
  <2> DEFINE f == [i \in 0 .. 0 |-> e]
  <2>1. f \in [0 .. 0 -> S] /\ f[0] = e
      OBVIOUS
  <2> HIDE DEF f
  <2>2. Goes(f, 0)
      BY <2>1 DEF Runs
  <2> HIDE DEF Goes
  <2> QED
      BY <2>2
<1>2. ASSUME NEW m \in 1 .. n, m - 1 \in D PROVE m \in D
  <2>1. PICK f : Goes(f, m - 1)
      BY <1>2
  <2> DEFINE g == [i \in 0 .. m |-> IF i = m THEN step[<<m, f[m - 1]>>] ELSE f[i]]
  <2>2. m - 1 \in 0 .. m - 1 /\ f[m - 1] \in S
      BY <2>1 DEF Runs
  <2>3. step[<<m, f[m - 1]>>] \in S
      BY <2>2 DEF Bodies
  <2>4. g \in [0 .. m -> S]
    <3>0. \A i \in 0 .. m - 1 : f[i] \in S
        BY <2>1 DEF Runs
    <3>1. \A i \in 0 .. m : i # m => i \in 0 .. m - 1
        OBVIOUS
    <3> QED
        BY <2>3, <3>0, <3>1
  <2>5. g[0] = e
      BY <2>1 DEF Runs
  <2>6. ASSUME NEW i \in 1 .. m PROVE g[i] = step[<<i, g[i - 1]>>]
    <3>1. i - 1 \in 0 .. m /\ i - 1 # m
        OBVIOUS
    <3>2. g[i - 1] = f[i - 1]
        BY <3>1
    <3>3. CASE i = m
      <4>1. m \in 0 .. m
          OBVIOUS
      <4>2. g[m] = step[<<m, f[m - 1]>>]
          BY <4>1
      <4> HIDE DEF g
      <4> QED
          BY <3>2, <3>3, <4>2
    <3>4. CASE i # m
      <4>1. i \in 1 .. m - 1 /\ i \in 0 .. m
          BY <3>4
      <4>2. g[i] = f[i]
          BY <3>4, <4>1
      <4>3. f[i] = step[<<i, f[i - 1]>>]
          BY <2>1, <4>1 DEF Runs
      <4> QED
          BY <3>2, <4>2, <4>3
    <3> QED
        BY <3>3, <3>4
  <2> HIDE DEF g
  <2>7. Goes(g, m)
      BY <2>4, <2>5, <2>6 DEF Runs
  <2> HIDE DEF Goes
  <2> QED
      BY <2>7
<1>3. n \in 0 .. n
    OBVIOUS
<1> HIDE DEF D
<1>4. n \in D
    BY <1>1, <1>2, <1>3, CountUp
<1> QED
    BY <1>4 DEF D

LEMMA SeqIs ==
    ASSUME NEW S, NEW s \in Seq(S)
    PROVE  Len(s) \in Nat /\ DOMAIN s = 1 .. Len(s) /\ \A k \in 1 .. Len(s) : s[k] \in S
OBVIOUS

LEMMA Nothing ==
    ASSUME NEW S
    PROVE  <<>> \in Seq(S)
OBVIOUS

\* The places of two sequences one behind the other.
LEMMA Concatenated ==
    ASSUME NEW S, NEW a \in Seq(S), NEW b \in Seq(S)
    PROVE  /\ Len(a \o b) = Len(a) + Len(b)
           /\ \A k \in 1 .. Len(a) : (a \o b)[k] = a[k]
           /\ \A k \in Len(a) + 1 .. Len(a) + Len(b) : (a \o b)[k] = b[k - Len(a)]
    OBVIOUS

Flattens(f, seqs, n, V) ==
    /\ FlattenSeq(seqs) = f[n] /\ f \in [1 .. n -> Seq(V)] /\ f[1] = seqs[1]
    /\ \A i \in 2 .. n : f[i] = f[i - 1] \o seqs[i]

\* FlattenSeq adds the parts up from the first to the last.
LEMMA FlatExists ==
    ASSUME NEW V, NEW n \in Nat \ {0}, NEW seqs \in Seq(Seq(V)), Len(seqs) = n
    PROVE  \E f : Flattens(f, seqs, n, V)
<1> DEFINE S == Seq(V)
           e == <<>>
           Turn(st, i) == IF i = 1 THEN seqs[i] ELSE st \o seqs[i]
           step == [w \in (1 .. n) \X S |-> Turn(w[2], w[1])]
           Flat(g) == [i \in 1 .. n |-> IF i = 1 THEN seqs[i] ELSE g[i - 1] \o seqs[i]]
           flat == CHOOSE g : g = Flat(g)
<1>1. FlattenSeq(seqs) = flat[n]
    BY DEF FlattenSeq
<1>2. e \in S
    BY Nothing
<1>3. \A i \in 1 .. n : seqs[i] \in S
    OBVIOUS
<1>4. \A i \in 1 .. n, st \in S : Turn(st, i) \in S
    BY <1>3
<1> HIDE DEF e
<1>5. step \in Bodies(n, S)
    BY <1>4 DEF Bodies
<1>6. \A i \in 1 .. n, st \in S : step[<<i, st>>] = Turn(st, i)
    OBVIOUS
<1> HIDE DEF S, step
<1>7. PICK f : Runs(f, n, S, e, step)
    BY <1>2, <1>5, LoopExists
<1> DEFINE g == [i \in 1 .. n |-> f[i]]
<1>8. ASSUME NEW i \in 1 .. n PROVE g[i] = IF i = 1 THEN seqs[i] ELSE g[i - 1] \o seqs[i]
  <2>1. i - 1 \in 0 .. n /\ f[i - 1] \in S
      BY <1>7 DEF Runs
  <2>2. f[i] = Turn(f[i - 1], i)
      BY <1>6, <1>7, <2>1 DEF Runs
  <2>3. i # 1 => i - 1 \in 1 .. n
      OBVIOUS
  <2> QED
      BY <2>2, <2>3
<1>9. g = Flat(g)
    BY <1>8
<1> HIDE DEF Flat
<1>10. flat = Flat(flat)
    BY <1>9
<1> HIDE DEF flat
<1>11. flat = [i \in 1 .. n |-> IF i = 1 THEN seqs[i] ELSE flat[i - 1] \o seqs[i]]
    BY <1>10 DEF Flat
<1>12. DOMAIN flat = 1 .. n /\ \A i \in 1 .. n : flat[i] = IF i = 1 THEN seqs[i] ELSE flat[i - 1] \o seqs[i]
    BY <1>11
<1>13. flat[1] = seqs[1]
    BY <1>12
<1>14. \A i \in 2 .. n : i \in 1 .. n /\ i # 1
    OBVIOUS
<1>15. \A i \in 2 .. n : flat[i] = flat[i - 1] \o seqs[i]
    BY <1>12, <1>14
<1> DEFINE D == {i \in 0 .. n : i = 0 \/ flat[i] \in S}
<1>16. 0 \in D
    OBVIOUS
<1>17. ASSUME NEW i \in 1 .. n, i - 1 \in D PROVE i \in D
  <2>1. i \in 0 .. n
      OBVIOUS
  <2>2. CASE i = 1
      BY <1>3, <1>13, <2>1, <2>2
  <2>3. CASE i # 1
    <3>1. flat[i - 1] \in S
        BY <1>17, <2>3
    <3>2. flat[i] = flat[i - 1] \o seqs[i]
        BY <1>12, <2>3
    <3>3. flat[i - 1] \o seqs[i] \in S
        BY <1>3, <3>1 DEF S
    <3> QED
        BY <2>1, <3>2, <3>3
  <2> QED
      BY <2>2, <2>3
<1> HIDE DEF D
<1>18. \A i \in 0 .. n : i \in D
    BY <1>16, <1>17, CountUp
<1>19. \A i \in 1 .. n : flat[i] \in S
  <2>1. \A i \in 1 .. n : i \in 0 .. n /\ i # 0
      OBVIOUS
  <2> QED
      BY <1>18, <2>1 DEF D
<1>20. flat = [i \in 1 .. n |-> flat[i]]
    BY <1>12, <1>11
<1>21. flat \in [1 .. n -> S]
    BY <1>19, <1>20
<1> QED
    BY <1>1, <1>13, <1>15, <1>21 DEF S, Flattens

\* A sequence of sequences made one longer is flattened by one more concatenation.
LEMMA FlattenStep ==
    ASSUME NEW V, NEW seqs \in Seq(Seq(V)), NEW s \in Seq(V)
    PROVE  /\ FlattenSeq(<<>>) = <<>> /\ FlattenSeq(seqs) \in Seq(V)
           /\ FlattenSeq(Append(seqs, s)) = FlattenSeq(seqs) \o s
<1> DEFINE n == Len(seqs)
           longer == Append(seqs, s)
<1>1. n \in Nat /\ longer \in Seq(Seq(V)) /\ Len(longer) = n + 1 /\ longer[n + 1] = s
      /\ \A i \in 1 .. n : longer[i] = seqs[i]
    OBVIOUS
<1>2. FlattenSeq(<<>>) = <<>>
    BY DEF FlattenSeq
<1> HIDE DEF longer
<1>3. PICK g : /\ FlattenSeq(longer) = g[n + 1]
               /\ g \in [1 .. n + 1 -> Seq(V)] /\ g[1] = longer[1]
               /\ \A i \in 2 .. n + 1 : g[i] = g[i - 1] \o longer[i]
  <2> DEFINE m == n + 1
  <2>1. m \in Nat \ {0} /\ Len(longer) = m
      BY <1>1
  <2> HIDE DEF m, n
  <2>2. \E g : Flattens(g, longer, m, V)
      BY <1>1, <2>1, FlatExists
  <2> QED
      BY <2>2 DEF m, Flattens
<1>4. CASE n = 0
  <2>1. seqs = <<>>
      BY <1>4
  <2>2. FlattenSeq(longer) = s
      BY <1>1, <1>3, <1>4
  <2>3. <<>> \o s = s
      OBVIOUS
  <2> QED
      BY <1>2, <2>1, <2>2, <2>3, Nothing DEF longer
<1>5. CASE n # 0
  <2>1. PICK f : /\ FlattenSeq(seqs) = f[n]
                 /\ f \in [1 .. n -> Seq(V)] /\ f[1] = seqs[1]
                 /\ \A i \in 2 .. n : f[i] = f[i - 1] \o seqs[i]
    <3>1. n \in Nat \ {0} /\ Len(seqs) = n
        BY <1>1, <1>5
    <3> HIDE DEF n
    <3>2. \E f : Flattens(f, seqs, n, V)
        BY <3>1, FlatExists
    <3> QED
        BY <3>2 DEF Flattens
  <2> DEFINE D == {i \in 0 .. n : i = 0 \/ f[i] = g[i]}
  <2>2. 0 \in D
      BY <1>1
  <2>3. ASSUME NEW i \in 1 .. n, i - 1 \in D PROVE i \in D
    <3>1. i \in 0 .. n /\ longer[i] = seqs[i]
      <4> HIDE DEF n, D
      <4> QED
          BY <1>1
    <3>2. CASE i = 1
        BY <1>3, <2>1, <3>1, <3>2
    <3>3. CASE i # 1
      <4>1. i \in 2 .. n /\ i \in 2 .. n + 1
          BY <1>1, <3>3
      <4>2. f[i - 1] = g[i - 1]
          BY <2>3, <3>3
      <4>3. f[i] = g[i]
          BY <1>3, <2>1, <3>1, <4>1, <4>2
      <4> QED
          BY <3>1, <4>3
    <3> QED
        BY <3>2, <3>3
  <2> HIDE DEF D
  <2>4. n \in D
      BY <1>1, <2>2, <2>3, CountUp
  <2>5. f[n] = g[n]
      BY <1>5, <2>4 DEF D
  <2>6. n + 1 \in 2 .. n + 1 /\ (n + 1) - 1 = n /\ n \in 1 .. n
      BY <1>1, <1>5
  <2>7. g[n + 1] = g[n] \o s
      BY <1>1, <1>3, <2>6
  <2>8. f[n] \in Seq(V)
      BY <2>1, <2>6
  <2> QED
      BY <1>2, <1>3, <2>1, <2>5, <2>7, <2>8 DEF longer
<1> QED
    BY <1>4, <1>5

\* The first k of a sequence, and those with the next one more.
LEMMA Starts ==
    ASSUME NEW S, NEW s \in Seq(S), NEW k \in 1 .. Len(s)
    PROVE  /\ SubSeq(s, 1, k - 1) \in Seq(S) /\ s[k] \in S
           /\ SubSeq(s, 1, k) = Append(SubSeq(s, 1, k - 1), s[k])
<1>1. SubSeq(s, 1, k - 1) \in Seq(S) /\ s[k] \in S /\ SubSeq(s, 1, k) \in Seq(S)
    OBVIOUS
<1> DEFINE a == SubSeq(s, 1, k)
           b == Append(SubSeq(s, 1, k - 1), s[k])
<1>2. Len(a) = k /\ \A i \in 1 .. k : a[i] = s[i]
    OBVIOUS
<1>3. b \in Seq(S) /\ Len(b) = k /\ \A i \in 1 .. k : b[i] = s[i]
    OBVIOUS
<1>4. DOMAIN a = 1 .. k /\ DOMAIN b = 1 .. k
    BY <1>1, <1>2, <1>3
<1> QED
    BY <1>1, <1>2, <1>3, <1>4

\* All of a sequence, and none of it.
LEMMA Whole ==
    ASSUME NEW S, NEW s \in Seq(S)
    PROVE  SubSeq(s, 1, Len(s)) = s /\ SubSeq(s, 1, 0) = <<>>
OBVIOUS

\* Sequences over V are flattened to a sequence over V.
LEMMA FlattenTyped ==
    ASSUME NEW V, NEW seqs \in Seq(Seq(V))
    PROVE  FlattenSeq(seqs) \in Seq(V)
<1>1. <<>> \in Seq(V)
    BY Nothing
<1> QED
    BY <1>1, FlattenStep

Regroups(a, b, c) == (a \o b) \o c = a \o (b \o c)

LEMMA Associative ==
    ASSUME NEW S, NEW a \in Seq(S), NEW b \in Seq(S), NEW c \in Seq(S)
    PROVE  Regroups(a, b, c)
BY DEF Regroups

\* An item behind the second of two sequences is behind both.
TailFits(a, b, e, S) == a \o b \in Seq(S) /\ a \o Append(b, e) = Append(a \o b, e)

LEMMA AppendLast ==
    ASSUME NEW S, NEW a \in Seq(S), NEW b \in Seq(S), NEW e \in S
    PROVE  TailFits(a, b, e, S)
<1>1. a \o b \in Seq(S)
    OBVIOUS
<1>2. a \o Append(b, e) = Append(a \o b, e)
    OBVIOUS
<1> QED
    BY <1>1, <1>2 DEF TailFits

LEMMA WithNothing ==
    ASSUME NEW S, NEW a \in Seq(S)
    PROVE  a \o <<>> = a /\ <<>> \o a = a /\ Len(a \o <<>>) = Len(a)
OBVIOUS

FlatSplits(a, b) == FlattenSeq(a \o b) = FlattenSeq(a) \o FlattenSeq(b)

\* Two sequences of sequences one behind the other are flattened one by one.
LEMMA FlattenBoth ==
    ASSUME NEW V, NEW a \in Seq(Seq(V)), NEW b \in Seq(Seq(V))
    PROVE  FlatSplits(a, b)
<1> DEFINE n == Len(b)
           part(k) == SubSeq(b, 1, k)
           D == {k \in 0 .. n : FlattenSeq(a \o part(k)) = FlattenSeq(a) \o FlattenSeq(part(k))}
<1>0. n \in Nat /\ FlattenSeq(a) \in Seq(V) /\ FlattenSeq(<<>>) = <<>>
  <2>1. <<>> \in Seq(V)
      BY Nothing
  <2> QED
      BY <2>1, FlattenStep
<1>1. 0 \in D
  <2>1. part(0) = <<>>
      BY Whole
  <2>2. a \o <<>> = a /\ FlattenSeq(a) \o <<>> = FlattenSeq(a)
      BY <1>0, WithNothing
  <2>3. FlattenSeq(a \o part(0)) = FlattenSeq(a)
      BY <2>1, <2>2
  <2>4. FlattenSeq(a) \o FlattenSeq(part(0)) = FlattenSeq(a)
      BY <1>0, <2>1, <2>2
  <2> HIDE DEF part
  <2> QED
      BY <1>0, <2>3, <2>4
<1>2. ASSUME NEW k \in 1 .. n, k - 1 \in D PROVE k \in D
  <2>1. part(k - 1) \in Seq(Seq(V)) /\ b[k] \in Seq(V) /\ part(k) = Append(part(k - 1), b[k])
      BY Starts
  <2> DEFINE front == part(k - 1)
             d == a \o front
             end == b[k]
  <2>2. FlattenSeq(d) = FlattenSeq(a) \o FlattenSeq(front)
      BY <1>2
  <2> HIDE DEF part, D
  <2>3. TailFits(a, front, end, Seq(V))
    <3>1. front \in Seq(Seq(V)) /\ end \in Seq(V)
        BY <2>1
    <3> HIDE DEF front, end
    <3> QED
        BY <3>1, AppendLast
  <2>4. d \in Seq(Seq(V)) /\ a \o part(k) = Append(d, end)
    <3>1. part(k) = Append(front, end)
        BY <2>1
    <3> HIDE DEF front, end
    <3> QED
        BY <2>3, <3>1 DEF d, TailFits
  <2> HIDE DEF d
  <2>5. FlattenSeq(Append(d, end)) = FlattenSeq(d) \o end
      BY <2>1, <2>4, FlattenStep
  <2>6. FlattenSeq(part(k)) = FlattenSeq(front) \o end /\ FlattenSeq(front) \in Seq(V)
      BY <2>1, FlattenStep
  <2>7. end \in Seq(V)
      BY <2>1
  <2> DEFINE x == FlattenSeq(a)
             y == FlattenSeq(front)
  <2>10. x \in Seq(V) /\ y \in Seq(V)
      BY <1>0, <2>6
  <2>11. FlattenSeq(a \o part(k)) = (x \o y) \o end /\ FlattenSeq(part(k)) = y \o end
      BY <2>2, <2>4, <2>5, <2>6
  <2> HIDE DEF x, y, front, end
  <2>12. Regroups(x, y, end)
      BY <2>7, <2>10, Associative
  <2>13. (x \o y) \o end = x \o (y \o end)
      BY <2>12 DEF Regroups
  <2>8. FlattenSeq(a \o part(k)) = FlattenSeq(a) \o FlattenSeq(part(k))
      BY <2>11, <2>13 DEF x
  <2>9. k \in 0 .. n
      BY <1>0
  <2> QED
      BY <2>8, <2>9 DEF D
<1>3. part(n) = b
    BY Whole
<1> HIDE DEF D
<1>4. n \in D
    BY <1>0, <1>1, <1>2, CountUp
<1> HIDE DEF part
<1> QED
    BY <1>3, <1>4 DEF D, FlatSplits

\* When no part is longer than two, the whole is at most twice as long.
LEMMA FlattenShort ==
    ASSUME NEW V, NEW a \in Seq(Seq(V)), \A i \in 1 .. Len(a) : Len(a[i]) <= 2
    PROVE  Len(FlattenSeq(a)) <= 2 * Len(a)
<1> DEFINE n == Len(a)
           part(k) == SubSeq(a, 1, k)
           D == {k \in 0 .. n : Len(FlattenSeq(part(k))) <= 2 * k}
<1>0. n \in Nat /\ FlattenSeq(<<>>) = <<>>
  <2>1. <<>> \in Seq(V)
      BY Nothing
  <2> QED
      BY <2>1, FlattenStep
<1>1. 0 \in D
  <2>1. part(0) = <<>>
      BY Whole
  <2>2. FlattenSeq(part(0)) = <<>>
      BY <1>0, <2>1
  <2>3. Len(FlattenSeq(part(0))) <= 2 * 0
      BY <2>2
  <2> HIDE DEF part
  <2> QED
      BY <1>0, <2>3
<1>2. ASSUME NEW k \in 1 .. n, k - 1 \in D PROVE k \in D
  <2>1. part(k - 1) \in Seq(Seq(V)) /\ a[k] \in Seq(V) /\ part(k) = Append(part(k - 1), a[k])
      BY Starts
  <2>2. Len(FlattenSeq(part(k - 1))) <= 2 * (k - 1) /\ Len(a[k]) <= 2
      BY <1>2
  <2>9. k \in 0 .. n
      BY <1>0
  <2> HIDE DEF part, D
  <2>3. /\ FlattenSeq(part(k)) = FlattenSeq(part(k - 1)) \o a[k]
        /\ FlattenSeq(part(k - 1)) \in Seq(V)
      BY <2>1, FlattenStep
  <2> DEFINE x == FlattenSeq(part(k - 1))
             y == a[k]
  <2>6. x \in Seq(V) /\ y \in Seq(V) /\ FlattenSeq(part(k)) = x \o y
      BY <2>1, <2>3
  <2>7. Len(x) <= 2 * (k - 1) /\ Len(y) <= 2
      BY <2>2
  <2> HIDE DEF x, y, n
  <2>4. Len(x \o y) = Len(x) + Len(y) /\ Len(x) \in Nat /\ Len(y) \in Nat
      BY <2>6, Concatenated
  <2>8. Len(x \o y) <= 2 * k
      BY <2>4, <2>7, <2>9
  <2>5. Len(FlattenSeq(part(k))) <= 2 * k
      BY <2>6, <2>8
  <2> QED
      BY <2>5, <2>9 DEF D
<1>3. part(n) = a
    BY Whole
<1> HIDE DEF D
<1>4. n \in D
    BY <1>0, <1>1, <1>2, CountUp
<1> HIDE DEF part
<1> QED
    BY <1>3, <1>4 DEF D

\* Sequences of the same length with the same items are the same.
LEMMA SameSeq ==
    ASSUME NEW S, NEW a \in Seq(S), NEW b \in Seq(S), NEW n, Len(a) = n, Len(b) = n,
           \A k \in 1 .. n : a[k] = b[k]
    PROVE  a = b
OBVIOUS

CatFits(a, b, S) ==
    /\ a \o b \in Seq(S) /\ Len(a \o b) = Len(a) + Len(b)
    /\ Len(a) \in Nat /\ Len(b) \in Nat
    /\ \A k \in 1 .. Len(a) : (a \o b)[k] = a[k]
    /\ \A k \in 1 .. Len(b) : (a \o b)[Len(a) + k] = b[k]

LEMMA CatIs ==
    ASSUME NEW S, NEW a \in Seq(S), NEW b \in Seq(S)
    PROVE  CatFits(a, b, S)
BY DEF CatFits

-----------------------------------------------------------------------------
(* The parser: the terms of the tree are the words read.                    *)

Known == DOMAIN Spelling
Mute == Operators \cup Signs

Read == Known \cup {NoWord}

Nodes ==
    [type : {"term"}, value : Read] \cup [type : {"phrase"}, terms : Seq(Known)]
        \cup [type : {"field"}, value : Known, left : Read]
        \cup [type : {"not", "and", "or"}]

Outcomes(s) == [ast : Seq(Nodes), pos : 1 .. Len(s) + 1, error : BOOLEAN]

\* What the words in ts, and the tokens of s from p to before q, add to what is
\* searched for.
Counts(ts) == [i \in DOMAIN ts |-> Counted(ts[i])]
Speech(s, p, q) == [i \in 1 .. q - p |-> Spoken(s[p + i - 1])]
Real(ts) == FlattenSeq(Counts(ts))
Said(s, p, q) == FlattenSeq(Speech(s, p, q))

Plain(s) == \A i \in DOMAIN s : s[i] # "quote"

\* The tree a holds what was read from p to q.
Holds(s, p, q, a) ==
    /\ a \in Seq(Nodes) /\ p \in 1 .. Len(s) + 1 /\ q \in p .. Len(s) + 1
    /\ Len(Collect(a)) <= 2 * (q - p)
    /\ Plain(s) => Real(Collect(a)) = Said(s, p, q)

Reads(s, p, x) == x \in Outcomes(s) /\ Holds(s, p, x.pos, x.ast)

\* A string that is kept if it is not empty.
LEMMA GivenIs ==
    ASSUME NEW w \in Read
    PROVE  Given(w) \in Seq(Known) /\ Len(Given(w)) <= 1
<1>1. CASE w = NoWord
    BY <1>1, Nothing DEF Given
<1>2. CASE w # NoWord
    BY <1>2 DEF Given, Read
<1> QED
    BY <1>1, <1>2

\* A node's terms are known words.
LEMMA NodeTerms ==
    ASSUME NEW n \in Nodes
    PROVE  TermsOf(n) \in Seq(Known)
<1>1. CASE n \in [type : {"term"}, value : Read]
  <2>1. TermsOf(n) = Given(n.value) /\ n.value \in Read
      BY <1>1 DEF TermsOf
  <2> QED
      BY <2>1, GivenIs
<1>2. CASE n \in [type : {"field"}, value : Known, left : Read]
  <2>1. TermsOf(n) = Given(n.left) /\ n.left \in Read
      BY <1>2 DEF TermsOf
  <2> QED
      BY <2>1, GivenIs
<1>3. CASE n \in [type : {"phrase"}, terms : Seq(Known)] \cup [type : {"not", "and", "or"}]
    BY <1>3 DEF TermsOf
<1> QED
    BY <1>1, <1>2, <1>3 DEF Nodes

LEMMA CountedIs ==
    ASSUME NEW w \in Known
    PROVE  Counted(w) \in Seq(Known) /\ Len(Counted(w)) <= 2
BY DEF Counted

\* A token adds known words, an operator or a sign none.
LEMMA SpokenIs ==
    ASSUME NEW t \in Tokens
    PROVE  Spoken(t) \in Seq(Known) /\ (t \in Mute => Spoken(t) = <<>>)
<1>1. CASE t \in DOMAIN FieldParts
  <2> DEFINE g == Given(FieldParts[t].word)
  <2>1. FieldParts[t].word \in Read
      BY <1>1, AllSpelled DEF Known, Read
  <2>2. t \notin Mute
      BY <1>1, FieldsApart DEF Mute
  <2>3. g \in Seq(Known) /\ Spoken(t) = g \o g
      BY <1>1, <2>1, GivenIs DEF Spoken
  <2> HIDE DEF g
  <2>4. g \o g \in Seq(Known)
      BY <2>3
  <2> QED
      BY <2>2, <2>3, <2>4
<1>2. CASE t \notin DOMAIN FieldParts
  <2>1. Spoken(t) = Counted(t)
      BY <1>2 DEF Spoken
  <2>2. t \in Mute => Counted(t) = <<>>
      BY DEF Counted, Mute
  <2>3. t \notin Mute => t \in Known
      BY <1>2, AllSpelled DEF Tokens, Mute, Known
  <2>4. <<>> \in Seq(Known)
      BY Nothing
  <2> QED
      BY <2>1, <2>2, <2>3, <2>4, CountedIs
<1> QED
    BY <1>1, <1>2

LEMMA FlattenOne ==
    ASSUME NEW V, NEW s \in Seq(V)
    PROVE  FlattenSeq(<<s>>) = s /\ FlattenSeq(<<>>) = <<>>
<1>1. <<>> \in Seq(Seq(V)) /\ Append(<<>>, s) = <<s>> /\ <<>> \o s = s
    OBVIOUS
<1> QED
    BY <1>1, FlattenStep

\* A function of the items of a sequence.
Each(f, a) == [i \in 1 .. Len(a) |-> f[a[i]]]
EachFits(f, a, B) ==
    /\ Each(f, a) \in Seq(B) /\ Len(Each(f, a)) = Len(a)
    /\ \A k \in 1 .. Len(a) : Each(f, a)[k] = f[a[k]]

LEMMA EachIs ==
    ASSUME NEW A, NEW B, NEW f \in [A -> B], NEW a \in Seq(A)
    PROVE  EachFits(f, a, B)
<1>1. \A k \in 1 .. Len(a) : f[a[k]] \in B
    BY SeqIs
<1>2. Len(a) \in Nat
    OBVIOUS
<1> QED
    BY <1>1, <1>2 DEF Each, EachFits

EachSplits(f, a, b) == Each(f, a \o b) = Each(f, a) \o Each(f, b)

\* A function of the items is applied to two sequences one by one.
LEMMA EachBoth ==
    ASSUME NEW A, NEW B, NEW f \in [A -> B], NEW a \in Seq(A), NEW b \in Seq(A)
    PROVE  EachSplits(f, a, b)
<1> DEFINE c == a \o b
           x == Each(f, a)
           y == Each(f, b)
<1>1. EachFits(f, a, B) /\ EachFits(f, b, B)
    BY EachIs
<1>2. c \in Seq(A) /\ CatFits(a, b, A)
    BY CatIs
<1>3. Len(c) = Len(a) + Len(b) /\ Len(a) \in Nat /\ Len(b) \in Nat
    BY <1>2 DEF CatFits
<1>4. (\A k \in 1 .. Len(a) : c[k] = a[k]) /\ \A k \in 1 .. Len(b) : c[Len(a) + k] = b[k]
    BY <1>2 DEF CatFits
<1> HIDE DEF c
<1>5. EachFits(f, c, B)
    BY <1>2, EachIs
<1>6. /\ x \in Seq(B) /\ Len(x) = Len(a) /\ \A k \in 1 .. Len(a) : x[k] = f[a[k]]
      /\ y \in Seq(B) /\ Len(y) = Len(b) /\ \A k \in 1 .. Len(b) : y[k] = f[b[k]]
    BY <1>1 DEF EachFits
<1> HIDE DEF x, y
<1>7. CatFits(x, y, B)
    BY <1>6, CatIs
<1>8. ASSUME NEW k \in 1 .. Len(a) + Len(b) PROVE (x \o y)[k] = f[c[k]]
  <2>1. CASE k \in 1 .. Len(a)
      BY <1>4, <1>6, <1>7, <2>1 DEF CatFits
  <2>2. CASE k \notin 1 .. Len(a)
    <3> DEFINE l == k - Len(a)
    <3>1. l \in 1 .. Len(b) /\ k = Len(a) + l
        BY <1>3, <2>2
    <3> HIDE DEF l
    <3>2. (x \o y)[Len(a) + l] = y[l]
        BY <1>6, <1>7, <3>1 DEF CatFits
    <3> QED
        BY <1>4, <1>6, <3>1, <3>2
  <2> QED
      BY <2>1, <2>2
<1> DEFINE u == Each(f, c)
           v == x \o y
           n == Len(a) + Len(b)
<1>9. v \in Seq(B) /\ Len(v) = n
    BY <1>6, <1>7 DEF CatFits
<1>10. u \in Seq(B) /\ Len(u) = n /\ \A k \in 1 .. n : u[k] = f[c[k]]
    BY <1>3, <1>5 DEF EachFits
<1>11. \A k \in 1 .. n : u[k] = v[k]
    BY <1>8, <1>10
<1> HIDE DEF u, v, n
<1>12. u = v
    BY <1>9, <1>10, <1>11, SameSeq
<1> QED
    BY <1>12 DEF c, x, y, u, v, EachSplits

\* The terms of two trees one behind the other.
LEMMA CollectBoth ==
    ASSUME NEW a \in Seq(Nodes), NEW b \in Seq(Nodes)
    PROVE  /\ Collect(a) \in Seq(Known) /\ Collect(b) \in Seq(Known)
           /\ Collect(a \o b) = Collect(a) \o Collect(b)
<1> DEFINE f == [n \in Nodes |-> TermsOf(n)]
<1>1. f \in [Nodes -> Seq(Known)]
    BY NodeTerms
<1>2. ASSUME NEW x \in Seq(Nodes) PROVE Collect(x) = FlattenSeq(Each(f, x))
  <2>1. [i \in DOMAIN x |-> TermsOf(x[i])] = Each(f, x)
    <3>1. DOMAIN x = 1 .. Len(x) /\ \A k \in 1 .. Len(x) : x[k] \in Nodes
        BY SeqIs
    <3>2. \A k \in 1 .. Len(x) : f[x[k]] = TermsOf(x[k])
        BY <3>1
    <3> HIDE DEF f
    <3> QED
        BY <3>1, <3>2 DEF Each
  <2> QED
      BY <2>1 DEF Collect
<1>3. a \o b \in Seq(Nodes)
    OBVIOUS
<1> HIDE DEF f
<1>4. Each(f, a) \in Seq(Seq(Known)) /\ Each(f, b) \in Seq(Seq(Known))
  <2>1. EachFits(f, a, Seq(Known)) /\ EachFits(f, b, Seq(Known))
      BY <1>1, EachIs
  <2> QED
      BY <2>1 DEF EachFits
<1>5. Each(f, a \o b) = Each(f, a) \o Each(f, b)
  <2>1. EachSplits(f, a, b)
      BY <1>1, EachBoth
  <2> QED
      BY <2>1 DEF EachSplits
<1>6. FlattenSeq(Each(f, a)) \in Seq(Known) /\ FlattenSeq(Each(f, b)) \in Seq(Known)
    BY <1>4, FlattenTyped
<1>7. FlattenSeq(Each(f, a) \o Each(f, b)) = FlattenSeq(Each(f, a)) \o FlattenSeq(Each(f, b))
  <2>1. FlatSplits(Each(f, a), Each(f, b))
      BY <1>4, FlattenBoth
  <2> QED
      BY <2>1 DEF FlatSplits
<1> QED
    BY <1>2, <1>3, <1>5, <1>6, <1>7

\* What counts of two sequences of terms one behind the other.
RealSplits(a, b) == Real(a \o b) = Real(a) \o Real(b)

\* Real of two sequences of terms one behind the other.
LEMMA RealBoth ==
    ASSUME NEW a \in Seq(Known), NEW b \in Seq(Known)
    PROVE  RealSplits(a, b)
<1> DEFINE f == [w \in Known |-> Counted(w)]
<1>1. f \in [Known -> Seq(Known)]
    BY CountedIs
<1>2. ASSUME NEW x \in Seq(Known) PROVE Real(x) = FlattenSeq(Each(f, x))
  <2>1. Counts(x) = Each(f, x)
    <3>1. DOMAIN x = 1 .. Len(x) /\ \A k \in 1 .. Len(x) : x[k] \in Known
        BY SeqIs
    <3>2. \A k \in 1 .. Len(x) : f[x[k]] = Counted(x[k])
        BY <3>1
    <3> HIDE DEF f
    <3> QED
        BY <3>1, <3>2 DEF Each, Counts
  <2> QED
      BY <2>1 DEF Real
<1>3. a \o b \in Seq(Known)
    OBVIOUS
<1> HIDE DEF f
<1>4. Each(f, a) \in Seq(Seq(Known)) /\ Each(f, b) \in Seq(Seq(Known))
  <2>1. EachFits(f, a, Seq(Known)) /\ EachFits(f, b, Seq(Known))
      BY <1>1, EachIs
  <2> QED
      BY <2>1 DEF EachFits
<1>5. Each(f, a \o b) = Each(f, a) \o Each(f, b)
  <2>1. EachSplits(f, a, b)
      BY <1>1, EachBoth
  <2> QED
      BY <2>1 DEF EachSplits
<1>6. FlattenSeq(Each(f, a)) \in Seq(Known) /\ FlattenSeq(Each(f, b)) \in Seq(Known)
    BY <1>4, FlattenTyped
<1>7. FlattenSeq(Each(f, a) \o Each(f, b)) = FlattenSeq(Each(f, a)) \o FlattenSeq(Each(f, b))
  <2>1. FlatSplits(Each(f, a), Each(f, b))
      BY <1>4, FlattenBoth
  <2> QED
      BY <2>1 DEF FlatSplits
<1> QED
    BY <1>2, <1>3, <1>5, <1>6, <1>7 DEF RealSplits

SpeechFits(s, p, q) ==
    /\ Speech(s, p, q) \in Seq(Seq(Known)) /\ Len(Speech(s, p, q)) = q - p
    /\ \A k \in 1 .. q - p : Speech(s, p, q)[k] = Spoken(s[p + k - 1])

\* What each of the tokens from p to before q adds.
LEMMA SpeechIs ==
    ASSUME NEW s \in Seq(Tokens), NEW p \in 1 .. Len(s) + 1, NEW q \in p .. Len(s) + 1
    PROVE  SpeechFits(s, p, q)
<1>1. q - p \in Nat
    OBVIOUS
<1>2. \A k \in 1 .. q - p : Spoken(s[p + k - 1]) \in Seq(Known)
  <2> TAKE k \in 1 .. q - p
  <2>1. p + k - 1 \in 1 .. Len(s)
      OBVIOUS
  <2>2. s[p + k - 1] \in Tokens
      BY <2>1, SeqIs
  <2> QED
      BY <2>2, SpokenIs
<1> DEFINE n == q - p
           said(k) == Spoken(s[p + k - 1])
<1>3. Speech(s, p, q) = [k \in 1 .. n |-> said(k)]
    BY DEF Speech
<1>4. n \in Nat /\ \A k \in 1 .. n : said(k) \in Seq(Known)
    BY <1>1, <1>2
<1> HIDE DEF n, said
<1>5. /\ Speech(s, p, q) \in Seq(Seq(Known)) /\ Len(Speech(s, p, q)) = n
      /\ \A k \in 1 .. n : Speech(s, p, q)[k] = said(k)
    BY <1>3, <1>4
<1> QED
    BY <1>5 DEF n, said, SpeechFits

\* The tokens from p to before r are those to before q and those from there.
LEMMA SpeechBoth ==
    ASSUME NEW s \in Seq(Tokens), NEW p \in 1 .. Len(s) + 1, NEW q \in p .. Len(s) + 1,
           NEW r \in q .. Len(s) + 1
    PROVE  Speech(s, p, r) = Speech(s, p, q) \o Speech(s, q, r)
<1>1. Len(s) \in Nat /\ q \in 1 .. Len(s) + 1 /\ r \in p .. Len(s) + 1
    OBVIOUS
<1> DEFINE x == Speech(s, p, q)
           y == Speech(s, q, r)
           z == Speech(s, p, r)
<1>2. SpeechFits(s, p, q) /\ SpeechFits(s, q, r) /\ SpeechFits(s, p, r)
    BY <1>1, SpeechIs
<1>3. x \in Seq(Seq(Known)) /\ Len(x) = q - p /\ \A k \in 1 .. q - p : x[k] = Spoken(s[p + k - 1])
    BY <1>2 DEF SpeechFits
<1>4. y \in Seq(Seq(Known)) /\ Len(y) = r - q /\ \A k \in 1 .. r - q : y[k] = Spoken(s[q + k - 1])
    BY <1>2 DEF SpeechFits
<1>5. z \in Seq(Seq(Known)) /\ Len(z) = r - p /\ \A k \in 1 .. r - p : z[k] = Spoken(s[p + k - 1])
    BY <1>2 DEF SpeechFits
<1> HIDE DEF x, y, z
<1>6. CatFits(x, y, Seq(Known))
    BY <1>3, <1>4, CatIs
<1>7. ASSUME NEW k \in 1 .. r - p PROVE z[k] = (x \o y)[k]
  <2>1. CASE k \in 1 .. q - p
    <3>1. (x \o y)[k] = x[k]
        BY <1>3, <1>6, <2>1 DEF CatFits
    <3> QED
        BY <1>3, <1>5, <2>1, <3>1
  <2>2. CASE k \notin 1 .. q - p
    <3> DEFINE l == k - (q - p)
    <3>1. l \in 1 .. r - q /\ k = (q - p) + l /\ q + l - 1 = p + k - 1
        BY <1>1, <2>2
    <3> HIDE DEF l
    <3>2. (x \o y)[(q - p) + l] = y[l]
        BY <1>3, <1>4, <1>6, <3>1 DEF CatFits
    <3>3. y[l] = Spoken(s[p + k - 1])
        BY <1>4, <3>1
    <3> QED
        BY <1>5, <3>1, <3>2, <3>3
  <2> QED
      BY <2>1, <2>2
<1> DEFINE v == x \o y
           n == r - p
<1>8. v \in Seq(Seq(Known)) /\ Len(v) = n
    BY <1>1, <1>3, <1>4, <1>6 DEF CatFits
<1>9. z \in Seq(Seq(Known)) /\ Len(z) = n /\ \A k \in 1 .. n : z[k] = v[k]
    BY <1>5, <1>7
<1> HIDE DEF v, n
<1>10. z = v
    BY <1>8, <1>9, SameSeq
<1> QED
    BY <1>10 DEF x, y, z, v

SaidSplits(s, p, q, r) == Said(s, p, r) = Said(s, p, q) \o Said(s, q, r)

\* Said of the tokens from p to before r, split at q.
LEMMA SaidBoth ==
    ASSUME NEW s \in Seq(Tokens), NEW p \in 1 .. Len(s) + 1, NEW q \in p .. Len(s) + 1,
           NEW r \in q .. Len(s) + 1
    PROVE  SaidSplits(s, p, q, r)
<1>1. Speech(s, p, r) = Speech(s, p, q) \o Speech(s, q, r)
    BY SpeechBoth
<1>2. q \in 1 .. Len(s) + 1
    OBVIOUS
<1>3. SpeechFits(s, p, q) /\ SpeechFits(s, q, r)
    BY <1>2, SpeechIs
<1>4. Speech(s, p, q) \in Seq(Seq(Known)) /\ Speech(s, q, r) \in Seq(Seq(Known))
    BY <1>3 DEF SpeechFits
<1>5. FlatSplits(Speech(s, p, q), Speech(s, q, r))
    BY <1>4, FlattenBoth
<1> QED
    BY <1>1, <1>5 DEF Said, FlatSplits, SaidSplits

LEMMA EmptyIs ==
    /\ Collect(<<>>) = <<>> /\ Real(<<>>) = <<>> /\ <<>> \in Seq(Nodes)
    /\ \A s : \A p \in Int : Said(s, p, p) = <<>>
<1>1. FlattenSeq(<<>>) = <<>>
  <2>1. <<>> \in Seq(Known)
      BY Nothing
  <2> QED
      BY <2>1, FlattenOne
<1>2. [i \in DOMAIN <<>> |-> TermsOf(<<>>[i])] = <<>> /\ Counts(<<>>) = <<>>
    BY DEF Counts
<1>3. ASSUME NEW s, NEW p \in Int PROVE Speech(s, p, p) = <<>>
  <2>1. 1 .. p - p = {}
      OBVIOUS
  <2> QED
      BY <2>1 DEF Speech
<1> QED
    BY <1>1, <1>2, <1>3, Nothing DEF Collect, Real, Said

LEMMA CollectOne ==
    ASSUME NEW n \in Nodes
    PROVE  Collect(<<n>>) = TermsOf(n)
<1>1. [i \in DOMAIN <<n>> |-> TermsOf(<<n>>[i])] = <<TermsOf(n)>>
    OBVIOUS
<1>2. FlattenSeq(<<TermsOf(n)>>) = TermsOf(n)
    BY NodeTerms, FlattenOne
<1> QED
    BY <1>1, <1>2 DEF Collect

LEMMA RealOne ==
    ASSUME NEW w \in Known
    PROVE  Real(<<w>>) = Counted(w)
<1>1. Counts(<<w>>) = <<Counted(w)>>
    BY DEF Counts
<1>2. FlattenSeq(<<Counted(w)>>) = Counted(w)
    BY CountedIs, FlattenOne
<1> QED
    BY <1>1, <1>2 DEF Real

LEMMA SaidOne ==
    ASSUME NEW s \in Seq(Tokens), NEW p \in 1 .. Len(s)
    PROVE  Said(s, p, p + 1) = Spoken(s[p])
<1>1. (p + 1) - p = 1 /\ p + 1 - 1 = p
    OBVIOUS
<1>2. Speech(s, p, p + 1) = <<Spoken(s[p])>>
    BY <1>1 DEF Speech
<1>3. s[p] \in Tokens
    BY SeqIs
<1>4. FlattenSeq(<<Spoken(s[p])>>) = Spoken(s[p])
    BY <1>3, SpokenIs, FlattenOne
<1> QED
    BY <1>2, <1>4 DEF Said

\* Nothing read is held by NULL.
LEMMA HoldsNothing ==
    ASSUME NEW s \in Seq(Tokens), NEW p \in 1 .. Len(s) + 1
    PROVE  Holds(s, p, p, Null)
<1>1. Len(s) \in Nat /\ Len(<<>>) = 0 /\ 2 * (p - p) = 0
    OBVIOUS
<1> QED
    BY <1>1, EmptyIs DEF Holds, Null

\* An operator or a sign adds no word.
LEMMA HoldsMute ==
    ASSUME NEW s \in Seq(Tokens), NEW p \in 1 .. Len(s), s[p] \in Mute
    PROVE  Holds(s, p, p + 1, Null)
<1>1. s[p] \in Tokens
    BY SeqIs
<1>2. Said(s, p, p + 1) = <<>>
    BY <1>1, SaidOne, SpokenIs
<1>3. Len(s) \in Nat /\ Len(<<>>) = 0 /\ p + 1 \in p .. Len(s) + 1 /\ 2 * (p + 1 - p) = 2
      /\ p \in 1 .. Len(s) + 1
    OBVIOUS
<1> QED
    BY <1>2, <1>3, EmptyIs DEF Holds, Null

\* What is read in two parts.
LEMMA HoldsBoth ==
    ASSUME NEW s \in Seq(Tokens), NEW p, NEW q, NEW r, NEW a, NEW b,
           Holds(s, p, q, a), Holds(s, q, r, b)
    PROVE  Holds(s, p, r, a \o b)
<1>1. /\ a \in Seq(Nodes) /\ p \in 1 .. Len(s) + 1 /\ q \in p .. Len(s) + 1
      /\ Len(Collect(a)) <= 2 * (q - p) /\ (Plain(s) => Real(Collect(a)) = Said(s, p, q))
    BY DEF Holds
<1>2. /\ b \in Seq(Nodes) /\ q \in 1 .. Len(s) + 1 /\ r \in q .. Len(s) + 1
      /\ Len(Collect(b)) <= 2 * (r - q) /\ (Plain(s) => Real(Collect(b)) = Said(s, q, r))
    BY DEF Holds
<1>3. /\ Collect(a) \in Seq(Known) /\ Collect(b) \in Seq(Known)
      /\ Collect(a \o b) = Collect(a) \o Collect(b)
    BY <1>1, <1>2, CollectBoth
<1> DEFINE x == Collect(a)
           y == Collect(b)
<1>4. x \in Seq(Known) /\ y \in Seq(Known) /\ Collect(a \o b) = x \o y
    BY <1>3
<1>5. Len(x) <= 2 * (q - p) /\ Len(y) <= 2 * (r - q)
    BY <1>1, <1>2
<1>6. a \o b \in Seq(Nodes) /\ Len(s) \in Nat
    BY <1>1, <1>2
<1>7. Plain(s) => Real(x) = Said(s, p, q) /\ Real(y) = Said(s, q, r)
    BY <1>1, <1>2
<1> HIDE DEF x, y
<1>8. Len(x \o y) <= 2 * (r - p)
  <2>1. CatFits(x, y, Known)
      BY <1>4, CatIs
  <2>2. Len(x \o y) = Len(x) + Len(y) /\ Len(x) \in Nat /\ Len(y) \in Nat
      BY <2>1 DEF CatFits
  <2> QED
      BY <1>1, <1>2, <1>5, <1>6, <2>2
<1>9. Plain(s) => Real(x \o y) = Said(s, p, r)
  <2>1. RealSplits(x, y)
      BY <1>4, RealBoth
  <2>2. SaidSplits(s, p, q, r)
      BY <1>1, <1>2, SaidBoth
  <2> QED
      BY <1>7, <2>1, <2>2 DEF RealSplits, SaidSplits
<1>10. r \in p .. Len(s) + 1
    BY <1>1, <1>2, <1>6
<1> QED
    BY <1>1, <1>4, <1>6, <1>8, <1>9, <1>10 DEF Holds

\* A node without a term of its own changes nothing.
LEMMA HoldsNode ==
    ASSUME NEW s \in Seq(Tokens), NEW p, NEW q, NEW a, Holds(s, p, q, a),
           NEW type \in {"not", "and", "or"}
    PROVE  Holds(s, p, q, a \o <<[type |-> type]>>)
<1> DEFINE node == [type |-> type]
<1>1. node \in Nodes /\ TermsOf(node) = <<>>
    BY DEF Nodes, TermsOf
<1> HIDE DEF node
<1>2. Collect(<<node>>) = <<>> /\ <<node>> \in Seq(Nodes)
    BY <1>1, CollectOne
<1>3. /\ a \in Seq(Nodes) /\ p \in 1 .. Len(s) + 1 /\ q \in p .. Len(s) + 1
    BY DEF Holds
<1>4. Len(s) \in Nat
    OBVIOUS
<1>5. q \in 1 .. Len(s) + 1 /\ q \in q .. Len(s) + 1 /\ 2 * (q - q) = 0 /\ Len(<<>>) = 0
    BY <1>3, <1>4
<1>6. Holds(s, q, q, <<node>>)
    BY <1>2, <1>5, EmptyIs DEF Holds
<1> QED
    BY <1>6, HoldsBoth DEF node

LEMMA HeldIs ==
    ASSUME NEW s \in Seq(Tokens), NEW p, NEW q, NEW a, Holds(s, p, q, a)
    PROVE  /\ a \in Seq(Nodes) /\ p \in 1 .. Len(s) + 1 /\ q \in p .. Len(s) + 1
           /\ q \in 1 .. Len(s) + 1 /\ Len(s) \in Nat
<1>1. a \in Seq(Nodes) /\ p \in 1 .. Len(s) + 1 /\ q \in p .. Len(s) + 1
    BY DEF Holds
<1>2. Len(s) \in Nat
    OBVIOUS
<1> QED
    BY <1>1, <1>2

\* A result whose tree holds what was read.
LEMMA ResultReads ==
    ASSUME NEW s \in Seq(Tokens), NEW p, NEW q, NEW a, Holds(s, p, q, a), NEW e \in BOOLEAN
    PROVE  Reads(s, p, Result(a, q, e))
<1>1. a \in Seq(Nodes) /\ q \in 1 .. Len(s) + 1
    BY HeldIs
<1> QED
    BY <1>1 DEF Reads, Outcomes, Result

LEMMA ReadIs ==
    ASSUME NEW s \in Seq(Tokens), NEW p, NEW x, Reads(s, p, x)
    PROVE  /\ Holds(s, p, x.pos, x.ast) /\ x.error \in BOOLEAN
           /\ x.ast \in Seq(Nodes) /\ x.pos \in 1 .. Len(s) + 1
BY DEF Reads, Outcomes

\* What is read after an operator or a sign is what is read from it on.
LEMMA MuteFirst ==
    ASSUME NEW s \in Seq(Tokens), NEW p \in 1 .. Len(s), s[p] \in Mute, NEW q, NEW a,
           Holds(s, p + 1, q, a)
    PROVE  Holds(s, p, q, a)
<1>1. Holds(s, p, p + 1, Null)
    BY HoldsMute
<1>2. Holds(s, p, q, Null \o a)
    BY <1>1, HoldsBoth
<1>3. Null \o a = a
    BY HeldIs, WithNothing DEF Null
<1> QED
    BY <1>2, <1>3

\* What is read before an operator or a sign is what is read with it.
LEMMA MuteLast ==
    ASSUME NEW s \in Seq(Tokens), NEW p, NEW q \in 1 .. Len(s), s[q] \in Mute, NEW a,
           Holds(s, p, q, a)
    PROVE  Holds(s, p, q + 1, a)
<1>1. Holds(s, q, q + 1, Null)
    BY HoldsMute
<1>2. Holds(s, p, q + 1, a \o Null)
    BY <1>1, HoldsBoth
<1>3. a \o Null = a
    BY HeldIs, WithNothing DEF Null
<1> QED
    BY <1>2, <1>3

\* A token skipped or not, the position is within the query.
LEMMA SkipIs ==
    ASSUME NEW s \in Seq(Tokens), NEW p \in 1 .. Len(s) + 1, NEW token \in Mute
    PROVE  Skip(s, p, token) \in 1 .. Len(s) + 1 /\ Skip(s, p, token) >= p
BY DEF Skip, Is

\* A token skipped at the start, and one at the end.
LEMMA SkipFirst ==
    ASSUME NEW s \in Seq(Tokens), NEW p \in 1 .. Len(s) + 1, NEW token \in Mute, NEW q, NEW a,
           Holds(s, Skip(s, p, token), q, a)
    PROVE  Holds(s, p, q, a)
<1>1. CASE Is(s, p, token)
  <2>1. p \in 1 .. Len(s) /\ s[p] \in Mute /\ Skip(s, p, token) = p + 1
      BY <1>1 DEF Is, Skip
  <2> QED
      BY <2>1, MuteFirst
<1>2. CASE ~Is(s, p, token)
    BY <1>2 DEF Skip
<1> QED
    BY <1>1, <1>2

LEMMA SkipLast ==
    ASSUME NEW s \in Seq(Tokens), NEW p, NEW token \in Mute, NEW q, NEW a, Holds(s, p, q, a)
    PROVE  Holds(s, p, Skip(s, q, token), a)
<1>1. CASE Is(s, q, token)
  <2>1. q \in 1 .. Len(s) /\ s[q] \in Mute /\ Skip(s, q, token) = q + 1
      BY <1>1, HeldIs DEF Is, Skip
  <2> QED
      BY <2>1, MuteLast
<1>2. CASE ~Is(s, q, token)
    BY <1>2 DEF Skip
<1> QED
    BY <1>1, <1>2

\* parse_primary on a word or a field.
LEMMA WordReads ==
    ASSUME NEW s \in Seq(Tokens), NEW p \in 1 .. Len(s), s[p] \notin Signs
    PROVE  Reads(s, p, OneWord(s, p))
<1> DEFINE t == s[p]
<1>1. t \in Tokens /\ t \notin Signs /\ t \in Words \cup Operators \cup DOMAIN FieldParts
    BY SeqIs DEF Tokens
<1>2. Said(s, p, p + 1) = Spoken(t)
    BY SaidOne
<1>3. p \in 1 .. Len(s) + 1 /\ p + 1 \in p .. Len(s) + 1 /\ 2 * (p + 1 - p) = 2
    OBVIOUS
<1> HIDE DEF t
<1>4. CASE t \in DOMAIN FieldParts
  <2> DEFINE w == FieldParts[t].word
             f == FieldParts[t].field
             one == [type |-> "term", value |-> w]
             two == [type |-> "field", value |-> f, left |-> w]
             g == Given(w)
  <2>1. w \in Read /\ f \in Known /\ w \notin Mute
      BY <1>4, AllSpelled, FieldsApart DEF Known, Read, Mute
  <2>2. OneWord(s, p) = Result(<<one>> \o <<two>>, p + 1, FALSE)
      BY <1>4 DEF OneWord, Field, Term, t
  <2>3. Spoken(t) = g \o g
      BY <1>4 DEF Spoken
  <2> HIDE DEF w, f
  <2>4. one \in Nodes /\ two \in Nodes /\ TermsOf(one) = g /\ TermsOf(two) = g
      BY <2>1 DEF Nodes, TermsOf
  <2>5. g \in Seq(Known) /\ Len(g) <= 1 /\ Real(g) = g
    <3>1. g \in Seq(Known) /\ Len(g) <= 1
        BY <2>1, GivenIs
    <3>2. CASE w = NoWord
      <4>1. g = <<>>
          BY <3>2 DEF Given
      <4> QED
          BY <3>1, <4>1, EmptyIs
    <3>3. CASE w # NoWord
      <4>1. g = <<w>> /\ w \in Known
          BY <2>1, <3>3 DEF Given, Read
      <4>2. Real(<<w>>) = <<w>>
          BY <2>1, <4>1, RealOne DEF Counted, Mute
      <4> QED
          BY <3>1, <4>1, <4>2
    <3> QED
        BY <3>2, <3>3
  <2> HIDE DEF one, two, g
  <2>6. /\ <<one>> \in Seq(Nodes) /\ Collect(<<one>>) = g
        /\ <<two>> \in Seq(Nodes) /\ Collect(<<two>>) = g
      BY <2>4, CollectOne
  <2>7. Collect(<<one>> \o <<two>>) = g \o g
      BY <2>6, CollectBoth
  <2>8. Real(g \o g) = g \o g
    <3>1. RealSplits(g, g)
        BY <2>5, RealBoth
    <3> QED
        BY <2>5, <3>1 DEF RealSplits
  <2>9. Len(g \o g) <= 2
    <3>1. Len(g) \in Nat /\ Len(g \o g) = Len(g) + Len(g)
        BY <2>5, CatIs DEF CatFits
    <3> QED
        BY <2>5, <3>1
  <2>10. <<one>> \o <<two>> \in Seq(Nodes)
      BY <2>6
  <2> DEFINE a == <<one>> \o <<two>>
  <2>11. a \in Seq(Nodes) /\ Len(Collect(a)) <= 2 /\ Real(Collect(a)) = Spoken(t)
      BY <2>3, <2>7, <2>8, <2>9, <2>10
  <2> HIDE DEF a
  <2>12. Holds(s, p, p + 1, a)
      BY <1>2, <1>3, <2>11 DEF Holds
  <2>13. Reads(s, p, Result(a, p + 1, FALSE))
      BY <2>12, ResultReads
  <2> QED
      BY <2>2, <2>13 DEF a
<1>5. CASE t \notin DOMAIN FieldParts
  <2> DEFINE one == [type |-> "term", value |-> t]
  <2>1. t \in Known /\ t # NoWord
      BY <1>1, <1>5, AllSpelled, WordsApart DEF Known
  <2>2. OneWord(s, p) = Result(<<one>>, p + 1, FALSE)
      BY <1>5 DEF OneWord, Term, t
  <2>3. one \in Nodes /\ TermsOf(one) = <<t>>
      BY <2>1 DEF Nodes, TermsOf, Given, Read
  <2> HIDE DEF one
  <2>4. <<one>> \in Seq(Nodes) /\ Collect(<<one>>) = <<t>> /\ Len(<<t>>) = 1
      BY <2>3, CollectOne
  <2>5. Real(<<t>>) = Spoken(t)
      BY <1>5, <2>1, RealOne DEF Spoken
  <2> DEFINE a == <<one>>
  <2>9. a \in Seq(Nodes) /\ Collect(a) = <<t>>
      BY <2>4
  <2> HIDE DEF a
  <2>6. Len(Collect(a)) <= 2 /\ Real(Collect(a)) = Spoken(t)
      BY <2>4, <2>5, <2>9
  <2>7. Holds(s, p, p + 1, a)
      BY <1>2, <1>3, <2>6, <2>9 DEF Holds
  <2>8. Reads(s, p, Result(a, p + 1, FALSE))
      BY <2>7, ResultReads
  <2> QED
      BY <2>2, <2>8 DEF a
<1> QED
    BY <1>4, <1>5

\* A token between quotes adds at most two known words.
LEMMA SplitIs ==
    ASSUME NEW t \in Tokens, t # "quote"
    PROVE  Split(t) \in Seq(Known) /\ Len(Split(t)) <= 2
<1>1. CASE t \in {"(", ")"}
    BY <1>1 DEF Split
<1>2. CASE t \notin {"(", ")"} /\ t \in DOMAIN FieldParts
  <2> DEFINE f == FieldParts[t].field
             g == Given(FieldParts[t].word)
  <2>1. f \in Known /\ FieldParts[t].word \in Read
      BY <1>2, AllSpelled DEF Known, Read
  <2>2. g \in Seq(Known) /\ Len(g) <= 1 /\ Split(t) = <<f>> \o g
      BY <1>2, <2>1, GivenIs DEF Split
  <2> HIDE DEF f, g
  <2>3. <<f>> \in Seq(Known) /\ Len(<<f>>) = 1
      BY <2>1
  <2>4. <<f>> \o g \in Seq(Known) /\ Len(g) \in Nat /\ Len(<<f>> \o g) = Len(<<f>>) + Len(g)
      BY <2>2, <2>3, CatIs DEF CatFits
  <2> QED
      BY <2>2, <2>3, <2>4
<1>3. CASE t \notin {"(", ")"} /\ t \notin DOMAIN FieldParts
  <2>1. t \in Known
      BY <1>3, AllSpelled DEF Known, Tokens, Signs
  <2> QED
      BY <1>3, <2>1 DEF Split
<1> QED
    BY <1>1, <1>2, <1>3

\* A phrase: what is between the quotes is split, and its tree is not NULL.
LEMMA QuotedReads ==
    ASSUME NEW s \in Seq(Tokens), NEW p \in 1 .. Len(s), s[p] = "quote"
    PROVE  Reads(s, p, Quoted(s, p + 1))
<1> DEFINE Q == Quotes(s, p + 1)
           end == AfterQuote(s, p + 1)
<1>0. Len(s) \in Nat /\ DOMAIN s = 1 .. Len(s) /\ ~Plain(s)
    BY SeqIs DEF Plain
<1>1. Q \in SUBSET Nat /\ \A q \in Q : q \in p + 1 .. Len(s) /\ s[q] = "quote"
    BY DEF Quotes
<1>2. CASE Q = {}
  <2>1. Quoted(s, p + 1) = Result(Null, Len(s) + 1, TRUE)
      BY <1>2 DEF Quoted, AfterQuote
  <2>2. p \in 1 .. Len(s) + 1 /\ Len(s) + 1 \in p .. Len(s) + 1 /\ 0 <= 2 * (Len(s) + 1 - p)
      BY <1>0
  <2>3. Collect(Null) = <<>> /\ Null \in Seq(Nodes) /\ Len(<<>>) = 0
      BY EmptyIs DEF Null
  <2>4. Holds(s, p, Len(s) + 1, Null)
      BY <1>0, <2>2, <2>3 DEF Holds
  <2> QED
      BY <2>1, <2>4, ResultReads
<1>3. CASE Q # {}
  <2> DEFINE m == Min(Q)
             inside == SubSeq(s, p + 1, end - 2)
             parts == [i \in DOMAIN inside |-> Split(inside[i])]
             node == [type |-> "phrase", terms |-> FlattenSeq(parts)]
             n == m - 1 - p
  <2>1. m \in Q /\ \A q \in Q : m <= q
    <3> HIDE DEF Q
    <3> QED
        BY <1>1, <1>3, MinIs
  <2>2. m \in p + 1 .. Len(s) /\ end = 1 + m
      BY <1>3, <2>1 DEF Quotes, AfterQuote
  <2>3. Quoted(s, p + 1) = Result(<<node>>, end, FALSE)
      BY <1>3 DEF Quoted, Phrase
  <2>4. \A i \in 1 .. n : p + i \in 1 .. Len(s) /\ p + i \in p + 1 .. Len(s) /\ p + i < m
    <3> HIDE DEF m
    <3> QED
        BY <1>0, <2>2
  <2>5. \A i \in 1 .. n : s[p + i] \in Tokens /\ s[p + i] # "quote"
      BY <2>1, <2>4, SeqIs DEF Quotes
  <2> HIDE DEF m, Q, end
  <2>6. n \in Nat /\ inside \in Seq(Tokens) /\ Len(inside) = n /\ \A i \in 1 .. n : inside[i] = s[p + i]
    <3>1. end - 2 = m - 1 /\ m - 1 \in Nat /\ m - 1 <= Len(s) /\ p \in Nat /\ n \in Nat
        BY <1>0, <2>2
    <3> DEFINE last == m - 1
    <3>2. inside = SubSeq(s, p + 1, last) /\ last \in p .. Len(s) /\ n = last - p
        BY <1>0, <2>2, <3>1
    <3> HIDE DEF last, inside, n
    <3>3. inside \in Seq(Tokens) /\ Len(inside) = n /\ \A i \in 1 .. n : inside[i] = s[p + i]
        BY <1>0, <3>2
    <3> QED
        BY <3>1, <3>3
  <2> HIDE DEF inside, n
  <2>7. \A i \in 1 .. n : Split(inside[i]) \in Seq(Known) /\ Len(Split(inside[i])) <= 2
      BY <2>5, <2>6, SplitIs
  <2>8. parts = [i \in 1 .. n |-> Split(inside[i])]
      BY <2>6, SeqIs
  <2>9. parts \in Seq(Seq(Known)) /\ Len(parts) = n /\ \A i \in 1 .. n : Len(parts[i]) <= 2
      BY <2>6, <2>7, <2>8
  <2> HIDE DEF parts
  <2>10. FlattenSeq(parts) \in Seq(Known) /\ Len(FlattenSeq(parts)) <= 2 * n
      BY <2>9, FlattenTyped, FlattenShort
  <2>11. node \in Nodes /\ TermsOf(node) = FlattenSeq(parts)
      BY <2>10 DEF Nodes, TermsOf
  <2> HIDE DEF node
  <2>12. <<node>> \in Seq(Nodes) /\ Collect(<<node>>) = FlattenSeq(parts)
      BY <2>11, CollectOne
  <2>13. p \in 1 .. Len(s) + 1 /\ end \in p .. Len(s) + 1 /\ 2 * n <= 2 * (end - p)
      BY <1>0, <2>2 DEF n
  <2>14. Len(Collect(<<node>>)) <= 2 * (end - p)
    <3> DEFINE x == FlattenSeq(parts)
    <3>1. Len(x) \in Nat /\ Len(x) <= 2 * n
        BY <2>10
    <3> HIDE DEF x
    <3>2. Len(x) <= 2 * (end - p)
        BY <1>0, <2>6, <2>13, <3>1
    <3> QED
        BY <2>12, <3>2 DEF x
  <2>15. Holds(s, p, end, <<node>>)
      BY <1>0, <2>12, <2>13, <2>14 DEF Holds
  <2> QED
      BY <2>3, <2>15, ResultReads
<1> QED
    BY <1>2, <1>3

\* What the level below makes of the tokens, where there is one.
Deeper(s, d, inner) ==
    TooDeep(d + 1) \/ \A q \in 1 .. Len(s) + 1 : Reads(s, q, inner[q])

\* parse_primary, when one level deeper reads what it should.
LEMMA PrimaryReads ==
    ASSUME NEW s \in Seq(Tokens), NEW p \in 1 .. Len(s) + 1, NEW d, NEW inner, Deeper(s, d, inner)
    PROVE  Reads(s, p, Primary(s, p, d, inner))
<1> DEFINE x == Primary(s, p, d, inner)
<1>0. "(" \in Mute /\ ")" \in Mute /\ Len(s) \in Nat
    BY DEF Mute, Signs
<1>1. CASE p > Len(s) \/ Is(s, p, ")")
  <2>1. x = Result(Null, p, FALSE)
      BY <1>1 DEF Primary
  <2> QED
      BY <2>1, HoldsNothing, ResultReads
<1>2. CASE p <= Len(s) /\ ~Is(s, p, ")")
  <2>0. p \in 1 .. Len(s) /\ s[p] # ")" /\ ~(p > Len(s))
      BY <1>0, <1>2 DEF Is
  <2>1. CASE s[p] = "quote"
    <3>1. x = Quoted(s, p + 1)
        BY <1>2, <2>0, <2>1 DEF Primary, Is
    <3> QED
        BY <2>0, <2>1, <3>1, QuotedReads
  <2>2. CASE s[p] \notin Signs
    <3>1. x = OneWord(s, p)
        BY <1>2, <2>0, <2>2 DEF Primary, Is, Signs
    <3> QED
        BY <2>0, <2>2, <3>1, WordReads
  <2>3. CASE s[p] = "(" /\ TooDeep(d + 1)
    <3>1. x = Result(Null, p + 1, TRUE)
        BY <1>2, <2>0, <2>3 DEF Primary, Is
    <3>2. Holds(s, p, p + 1, Null)
        BY <1>0, <2>0, <2>3, HoldsMute
    <3> QED
        BY <3>1, <3>2, ResultReads
  <2>4. CASE s[p] = "(" /\ ~TooDeep(d + 1)
    <3> DEFINE y == inner[p + 1]
               e == y.error \/ ~Is(s, y.pos, ")")
    <3>1. x = Result(y.ast, Skip(s, y.pos, ")"), e)
        BY <1>2, <2>0, <2>4 DEF Primary, Is
    <3>2. Reads(s, p + 1, y)
      <4>1. p + 1 \in 1 .. Len(s) + 1
          BY <2>0
      <4> QED
          BY <2>4, <4>1 DEF Deeper
    <3> HIDE DEF y
    <3>3. Holds(s, p + 1, y.pos, y.ast) /\ e \in BOOLEAN
        BY <3>2, ReadIs
    <3>4. Holds(s, p, y.pos, y.ast)
        BY <1>0, <2>0, <2>4, <3>3, MuteFirst
    <3>5. Holds(s, p, Skip(s, y.pos, ")"), y.ast)
        BY <1>0, <3>4, SkipLast
    <3> HIDE DEF e
    <3> QED
        BY <3>1, <3>3, <3>5, ResultReads
  <2> QED
      BY <2>0, <2>1, <2>2, <2>3, <2>4 DEF Signs
<1>3. p <= Len(s) \/ p > Len(s)
    BY <1>0
<1> QED
    BY <1>1, <1>2, <1>3

\* parse_not.
LEMMA NotReads ==
    ASSUME NEW s \in Seq(Tokens), NEW p \in 1 .. Len(s) + 1, NEW d, NEW inner, Deeper(s, d, inner)
    PROVE  Reads(s, p, NotExpr(s, p, d, inner))
<1> DEFINE q == Skip(s, p, "NOT")
           x == Primary(s, q, d, inner)
           a == IF Is(s, p, "NOT") /\ x.ast # Null THEN Not(x.ast) ELSE x.ast
<1>0. "NOT" \in Mute
    BY DEF Mute, Operators
<1>1. NotExpr(s, p, d, inner) = Result(a, x.pos, x.error)
    BY DEF NotExpr
<1>2. q \in 1 .. Len(s) + 1
    BY <1>0, SkipIs
<1>3. Reads(s, q, x)
  <2> HIDE DEF q
  <2> QED
      BY <1>2, PrimaryReads
<1> HIDE DEF x
<1>4. Holds(s, q, x.pos, x.ast) /\ x.error \in BOOLEAN
  <2> HIDE DEF q
  <2> QED
      BY <1>3, ReadIs
<1>5. Holds(s, p, x.pos, x.ast)
    BY <1>0, <1>4, SkipFirst
<1>6. Holds(s, p, x.pos, Not(x.ast))
    BY <1>5, HoldsNode DEF Not
<1>7. Holds(s, p, x.pos, a)
    BY <1>5, <1>6
<1> HIDE DEF a
<1> QED
    BY <1>1, <1>4, <1>7, ResultReads

\* The states of the loops of parse_and and parse_or begun at p.
Going(s, p) ==
    {x \in [ast : Seq(Nodes), pos : 1 .. Len(s) + 1, error : BOOLEAN, more : BOOLEAN] :
        Holds(s, p, x.pos, x.ast)}

LEMMA GoingIs ==
    ASSUME NEW s \in Seq(Tokens), NEW p, NEW q, NEW a, Holds(s, p, q, a),
           NEW e \in BOOLEAN, NEW m \in BOOLEAN
    PROVE  [ast |-> a, pos |-> q, error |-> e, more |-> m] \in Going(s, p)
<1>1. a \in Seq(Nodes) /\ q \in 1 .. Len(s) + 1
    BY HeldIs
<1> QED
    BY <1>1 DEF Going

\* The first operand starts the loop.
LEMMA FirstGoes ==
    ASSUME NEW s \in Seq(Tokens), NEW p, NEW x, Reads(s, p, x)
    PROVE  First(x) \in Going(s, p)
<1>1. Holds(s, p, x.pos, x.ast) /\ x.error \in BOOLEAN
    BY ReadIs
<1> DEFINE m == x.ast # Null
<1>2. m \in BOOLEAN
    OBVIOUS
<1> HIDE DEF m
<1>3. [ast |-> x.ast, pos |-> x.pos, error |-> x.error, more |-> m] \in Going(s, p)
    BY <1>1, <1>2, GoingIs
<1> QED
    BY <1>3 DEF First, m

LEMMA GoneIs ==
    ASSUME NEW s \in Seq(Tokens), NEW p, NEW x \in Going(s, p)
    PROVE  /\ Holds(s, p, x.pos, x.ast) /\ x.error \in BOOLEAN /\ x.more \in BOOLEAN
           /\ x.pos \in 1 .. Len(s) + 1
BY DEF Going

\* One operand more keeps the loop going.
LEMMA JoinedGoes ==
    ASSUME NEW s \in Seq(Tokens), NEW p, NEW x \in Going(s, p), NEW type \in {"and", "or"},
           NEW r, Holds(s, x.pos, r.pos, r.ast), r.error \in BOOLEAN
    PROVE  Joined(type, x, r) \in Going(s, p)
<1> DEFINE a == IF r.ast = Null THEN x.ast ELSE Both(type, x.ast, r.ast)
           e == x.error \/ r.error
           m == r.ast # Null
<1>1. Holds(s, p, x.pos, x.ast) /\ e \in BOOLEAN /\ m \in BOOLEAN
    BY GoneIs
<1>2. Holds(s, p, r.pos, x.ast \o r.ast)
    BY <1>1, HoldsBoth
<1>3. Holds(s, p, r.pos, Both(type, x.ast, r.ast))
    BY <1>2, HoldsNode DEF Both
<1>4. CASE r.ast = Null
  <2>1. x.ast \o r.ast = x.ast
      BY <1>1, <1>4, HeldIs, WithNothing DEF Null
  <2>2. Holds(s, p, r.pos, a)
      BY <1>2, <1>4, <2>1
  <2> HIDE DEF a, e, m
  <2>3. [ast |-> a, pos |-> r.pos, error |-> e, more |-> m] \in Going(s, p)
      BY <1>1, <2>2, GoingIs
  <2> QED
      BY <2>3 DEF Joined, a, e, m
<1>5. CASE r.ast # Null
  <2>2. Holds(s, p, r.pos, a)
      BY <1>3, <1>5
  <2> HIDE DEF a, e, m
  <2>3. [ast |-> a, pos |-> r.pos, error |-> e, more |-> m] \in Going(s, p)
      BY <1>1, <2>2, GoingIs
  <2> QED
      BY <2>3 DEF Joined, a, e, m
<1> QED
    BY <1>4, <1>5

\* One turn of the loop of parse_and.
LEMMA AndTurnGoes ==
    ASSUME NEW s \in Seq(Tokens), NEW p, NEW x \in Going(s, p), NEW d, NEW inner,
           Deeper(s, d, inner)
    PROVE  AndTurn(s, x, d, inner) \in Going(s, p)
<1> DEFINE q == Skip(s, x.pos, "AND")
           r == NotExpr(s, q, d, inner)
<1>0. "AND" \in Mute /\ x.pos \in 1 .. Len(s) + 1
    BY GoneIs DEF Mute, Operators
<1>1. AndTurn(s, x, d, inner) \in {x, Joined("and", x, r)}
    BY DEF AndTurn
<1>2. q \in 1 .. Len(s) + 1
    BY <1>0, SkipIs
<1>3. Reads(s, q, r)
  <2> HIDE DEF q
  <2> QED
      BY <1>2, NotReads
<1> HIDE DEF r
<1>4. Holds(s, q, r.pos, r.ast) /\ r.error \in BOOLEAN
  <2> HIDE DEF q
  <2> QED
      BY <1>3, ReadIs
<1>5. Holds(s, x.pos, r.pos, r.ast)
    BY <1>0, <1>4, SkipFirst
<1>6. Joined("and", x, r) \in Going(s, p)
    BY <1>4, <1>5, JoinedGoes
<1> QED
    BY <1>1, <1>6

\* All turns of the loop of parse_and.
LEMMA AndReads ==
    ASSUME NEW s \in Seq(Tokens), NEW p \in 1 .. Len(s) + 1, NEW d, NEW inner, Deeper(s, d, inner)
    PROVE  Reads(s, p, And(s, p, d, inner))
<1> DEFINE n == Len(s)
           S == Going(s, p)
           e == First(NotExpr(s, p, d, inner))
           Turn(x) == AndTurn(s, x, d, inner)
           Turns(f) == [i \in 0 .. n |-> IF i = 0 THEN e ELSE Turn(f[i - 1])]
           step == [w \in (1 .. n) \X S |-> Turn(w[2])]
           turn == CHOOSE f : f = Turns(f)
           x == turn[n]
<1>1. And(s, p, d, inner) = Result(x.ast, x.pos, x.error)
    BY DEF And
<1>2. e \in S
    BY NotReads, FirstGoes
<1>3. \A st \in S : Turn(st) \in S
    BY AndTurnGoes
<1>4. n \in Nat
    OBVIOUS
<1> HIDE DEF S, e, Turn, n
<1>5. step \in Bodies(n, S) /\ \A i \in 1 .. n : \A st \in S : step[<<i, st>>] = Turn(st)
    BY <1>3 DEF Bodies
<1> HIDE DEF step
<1>6. PICK f : Runs(f, n, S, e, step)
    BY <1>2, <1>4, <1>5, LoopExists
<1>7. f = Turns(f)
  <2>1. f \in [0 .. n -> S] /\ f[0] = e /\ \A i \in 1 .. n : f[i] = step[<<i, f[i - 1]>>]
      BY <1>6 DEF Runs
  <2>2. \A i \in 1 .. n : f[i - 1] \in S
      BY <1>4, <2>1
  <2>3. \A i \in 1 .. n : f[i] = Turn(f[i - 1])
      BY <1>5, <2>1, <2>2
  <2>4. \A i \in 0 .. n : f[i] = IF i = 0 THEN e ELSE Turn(f[i - 1])
      BY <1>4, <2>1, <2>3
  <2> QED
      BY <2>1, <2>4
<1>8. turn = Turns(turn)
  <2> HIDE DEF Turns
  <2> QED
      BY <1>7
<1> HIDE DEF turn
<1> DEFINE D == {i \in 0 .. n : turn[i] \in S}
<1>9. \A i \in 0 .. n : turn[i] = IF i = 0 THEN e ELSE Turn(turn[i - 1])
    BY <1>8
<1>10. 0 \in D
    BY <1>2, <1>4, <1>9
<1>11. ASSUME NEW i \in 1 .. n, i - 1 \in D PROVE i \in D
  <2>1. turn[i - 1] \in S /\ i \in 0 .. n /\ i # 0
      BY <1>4, <1>11
  <2>2. turn[i] = Turn(turn[i - 1])
      BY <1>9, <2>1
  <2> QED
      BY <1>3, <2>1, <2>2
<1> HIDE DEF D
<1>12. n \in D
    BY <1>4, <1>10, <1>11, CountUp
<1>13. x \in S
    BY <1>12 DEF D
<1> HIDE DEF x
<1>14. Holds(s, p, x.pos, x.ast) /\ x.error \in BOOLEAN
    BY <1>13, GoneIs DEF S
<1> QED
    BY <1>1, <1>14, ResultReads

\* One turn of the loop of parse_or.
LEMMA OrTurnGoes ==
    ASSUME NEW s \in Seq(Tokens), NEW p, NEW x \in Going(s, p), NEW d, NEW inner,
           Deeper(s, d, inner)
    PROVE  OrTurn(s, x, d, inner) \in Going(s, p)
<1> DEFINE r == And(s, x.pos + 1, d, inner)
<1>1. CASE x.more /\ Is(s, x.pos, "OR")
  <2>0. x.pos \in 1 .. Len(s) /\ s[x.pos] \in Mute
      BY <1>1, GoneIs DEF Is, Mute, Operators
  <2>1. OrTurn(s, x, d, inner) = Joined("or", x, r)
      BY <1>1 DEF OrTurn
  <2>2. Reads(s, x.pos + 1, r)
    <3>1. x.pos + 1 \in 1 .. Len(s) + 1
        BY <2>0
    <3> QED
        BY <3>1, AndReads
  <2> HIDE DEF r
  <2>3. Holds(s, x.pos + 1, r.pos, r.ast) /\ r.error \in BOOLEAN
      BY <2>2, ReadIs
  <2>4. Holds(s, x.pos, r.pos, r.ast)
      BY <2>0, <2>3, MuteFirst
  <2> QED
      BY <2>1, <2>3, <2>4, JoinedGoes
<1>2. CASE ~(x.more /\ Is(s, x.pos, "OR"))
    BY <1>2 DEF OrTurn
<1> QED
    BY <1>1, <1>2

\* All turns of the loop of parse_or.
LEMMA OrReads ==
    ASSUME NEW s \in Seq(Tokens), NEW p \in 1 .. Len(s) + 1, NEW d, NEW inner, Deeper(s, d, inner)
    PROVE  Reads(s, p, Or(s, p, d, inner))
<1> DEFINE n == Len(s)
           S == Going(s, p)
           e == First(And(s, p, d, inner))
           Turn(x) == OrTurn(s, x, d, inner)
           Turns(f) == [i \in 0 .. n |-> IF i = 0 THEN e ELSE Turn(f[i - 1])]
           step == [w \in (1 .. n) \X S |-> Turn(w[2])]
           turn == CHOOSE f : f = Turns(f)
           x == turn[n]
<1>1. Or(s, p, d, inner) = Result(x.ast, x.pos, x.error)
    BY DEF Or
<1>2. e \in S
    BY AndReads, FirstGoes
<1>3. \A st \in S : Turn(st) \in S
    BY OrTurnGoes
<1>4. n \in Nat
    OBVIOUS
<1> HIDE DEF S, e, Turn, n
<1>5. step \in Bodies(n, S) /\ \A i \in 1 .. n : \A st \in S : step[<<i, st>>] = Turn(st)
    BY <1>3 DEF Bodies
<1> HIDE DEF step
<1>6. PICK f : Runs(f, n, S, e, step)
    BY <1>2, <1>4, <1>5, LoopExists
<1>7. f = Turns(f)
  <2>1. f \in [0 .. n -> S] /\ f[0] = e /\ \A i \in 1 .. n : f[i] = step[<<i, f[i - 1]>>]
      BY <1>6 DEF Runs
  <2>2. \A i \in 1 .. n : f[i - 1] \in S
      BY <1>4, <2>1
  <2>3. \A i \in 1 .. n : f[i] = Turn(f[i - 1])
      BY <1>5, <2>1, <2>2
  <2>4. \A i \in 0 .. n : f[i] = IF i = 0 THEN e ELSE Turn(f[i - 1])
      BY <1>4, <2>1, <2>3
  <2> QED
      BY <2>1, <2>4
<1>8. turn = Turns(turn)
  <2> HIDE DEF Turns
  <2> QED
      BY <1>7
<1> HIDE DEF turn
<1> DEFINE D == {i \in 0 .. n : turn[i] \in S}
<1>9. \A i \in 0 .. n : turn[i] = IF i = 0 THEN e ELSE Turn(turn[i - 1])
    BY <1>8
<1>10. 0 \in D
    BY <1>2, <1>4, <1>9
<1>11. ASSUME NEW i \in 1 .. n, i - 1 \in D PROVE i \in D
  <2>1. turn[i - 1] \in S /\ i \in 0 .. n /\ i # 0
      BY <1>4, <1>11
  <2>2. turn[i] = Turn(turn[i - 1])
      BY <1>9, <2>1
  <2> QED
      BY <1>3, <2>1, <2>2
<1> HIDE DEF D
<1>12. n \in D
    BY <1>4, <1>10, <1>11, CountUp
<1>13. x \in S
    BY <1>12 DEF D
<1> HIDE DEF x
<1>14. Holds(s, p, x.pos, x.ast) /\ x.error \in BOOLEAN
    BY <1>13, GoneIs DEF S
<1> QED
    BY <1>1, <1>14, ResultReads

\* The tree query_parse returns for tokens s.
LEMMA ParseReads ==
    ASSUME NEW s \in Seq(Tokens)
    PROVE  Reads(s, 1, Parse(s))
<1> DEFINE n == MaxDepth
           P == 1 .. Len(s) + 1
           S == {f \in [P -> Outcomes(s)] : \A p \in P : Reads(s, p, f[p])}
           At(i, f) == [p \in P |-> Or(s, p, MaxDepth - i, f)]
           e == At(0, <<>>)
           step == [w \in (1 .. n) \X S |-> At(w[1], w[2])]
           Levels(f) == [i \in 0 .. n |-> At(i, IF i = 0 THEN <<>> ELSE f[i - 1])]
           level == CHOOSE f : f = Levels(f)
<1>0. n \in Nat /\ 1 \in P
    BY DepthNat
<1>1. Parse(s) = level[n][1]
    BY DEF Parse
<1>2. ASSUME NEW i, NEW f, Deeper(s, MaxDepth - i, f) PROVE At(i, f) \in S
  <2>1. \A p \in P : Reads(s, p, Or(s, p, MaxDepth - i, f))
      BY <1>2, OrReads
  <2>2. \A p \in P : Or(s, p, MaxDepth - i, f) \in Outcomes(s)
      BY <2>1 DEF Reads
  <2> HIDE DEF P
  <2> QED
      BY <2>1, <2>2
<1>3. e \in S
  <2>1. Deeper(s, MaxDepth - 0, <<>>)
      BY DepthNat DEF Deeper, TooDeep
  <2> HIDE DEF At, S
  <2> QED
      BY <1>2, <2>1
<1>4. \A i \in 1 .. n : \A f \in S : At(i, f) \in S
  <2> TAKE i \in 1 .. n
  <2> TAKE f \in S
  <2>1. Deeper(s, MaxDepth - i, f)
      BY DEF Deeper
  <2> HIDE DEF At, S
  <2> QED
      BY <1>2, <2>1
<1> HIDE DEF S, e, n, At
<1>5. step \in Bodies(n, S) /\ \A i \in 1 .. n : \A f \in S : step[<<i, f>>] = At(i, f)
    BY <1>4 DEF Bodies
<1> HIDE DEF step
<1>6. PICK g : Runs(g, n, S, e, step)
    BY <1>0, <1>3, <1>5, LoopExists
<1>7. g = Levels(g)
  <2>1. g \in [0 .. n -> S] /\ g[0] = e /\ \A i \in 1 .. n : g[i] = step[<<i, g[i - 1]>>]
      BY <1>6 DEF Runs
  <2>2. \A i \in 1 .. n : g[i - 1] \in S
      BY <1>0, <2>1
  <2>3. \A i \in 1 .. n : g[i] = At(i, g[i - 1])
      BY <1>5, <2>1, <2>2
  <2>4. \A i \in 0 .. n : g[i] = At(i, IF i = 0 THEN <<>> ELSE g[i - 1])
      BY <1>0, <2>1, <2>3 DEF e
  <2> QED
      BY <2>1, <2>4
<1>8. level = Levels(level)
  <2> HIDE DEF Levels
  <2> QED
      BY <1>7
<1> HIDE DEF level
<1> DEFINE D == {i \in 0 .. n : level[i] \in S}
<1>9. \A i \in 0 .. n : level[i] = At(i, IF i = 0 THEN <<>> ELSE level[i - 1])
    BY <1>8
<1>10. 0 \in D
  <2>1. 0 \in 0 .. n /\ level[0] = e
      BY <1>0, <1>9 DEF e
  <2> QED
      BY <1>3, <2>1
<1>11. ASSUME NEW i \in 1 .. n, i - 1 \in D PROVE i \in D
  <2>1. level[i - 1] \in S /\ i \in 0 .. n /\ i # 0
      BY <1>0, <1>11
  <2>2. level[i] = At(i, level[i - 1])
      BY <1>9, <2>1
  <2> QED
      BY <1>4, <2>1, <2>2
<1> HIDE DEF D
<1>12. n \in D
    BY <1>0, <1>10, <1>11, CountUp
<1>13. level[n] \in S
    BY <1>12 DEF D
<1> QED
    BY <1>0, <1>1, <1>13 DEF S

-----------------------------------------------------------------------------
(* The bounded distance is the distance as long as it is within the bound.  *)

Heights(a) == [0 .. Len(a) -> Nat]

LEMMA Min3Is ==
    ASSUME NEW i \in Nat, NEW j \in Nat, NEW k \in Nat
    PROVE  /\ Min3(i, j, k) \in Nat /\ Min3(i, j, k) \in {i, j, k}
           /\ Min3(i, j, k) <= i /\ Min3(i, j, k) <= j /\ Min3(i, j, k) <= k
<1>1. {i, j, k} \in SUBSET Nat /\ {i, j, k} # {}
    OBVIOUS
<1>2. Min({i, j, k}) \in {i, j, k} /\ \A l \in {i, j, k} : Min({i, j, k}) <= l
    BY <1>1, MinIs
<1> QED
    BY <1>2 DEF Min3

LEMMA CostIs ==
    ASSUME NEW a, NEW b, NEW y, NEW x
    PROVE  Cost(a, b, y, x) \in 0 .. 1
BY DEF Cost

\* new is column x, computed from col.
Follows(new, col, a, b, x) ==
    /\ new \in Heights(a) /\ new[0] = x
    /\ \A y \in 1 .. Len(a) :
          new[y] = Min3(col[y] + 1, new[y - 1] + 1, col[y - 1] + Cost(a, b, y, x))

\* Column computes each entry from its three neighbours.
LEMMA ColumnIs ==
    ASSUME NEW L, NEW a \in Seq(L), NEW b \in Seq(L), NEW x \in Nat, NEW col \in Heights(a)
    PROVE  Follows(Column(col, a, b, x), col, a, b, x)
<1> DEFINE n == Len(a)
           Turn(y, v) == Min3(col[y] + 1, v + 1, col[y - 1] + Cost(a, b, y, x))
           Rows(f) == [y \in 0 .. n |-> IF y = 0 THEN x ELSE Turn(y, f[y - 1])]
           step == [w \in (1 .. n) \X Nat |-> Turn(w[1], w[2])]
           new == CHOOSE f : f = Rows(f)
<1>1. Column(col, a, b, x) = new
    BY DEF Column
<1>2. n \in Nat
    OBVIOUS
<1>3. \A y \in 1 .. n, v \in Nat : Turn(y, v) \in Nat
  <2> TAKE y \in 1 .. n, v \in Nat
  <2>1. y \in 0 .. n /\ y - 1 \in 0 .. n /\ col \in [0 .. n -> Nat]
      BY <1>2 DEF Heights
  <2>2. col[y] + 1 \in Nat /\ v + 1 \in Nat /\ col[y - 1] + Cost(a, b, y, x) \in Nat
      BY <2>1, CostIs
  <2> QED
      BY <2>2, Min3Is
<1> HIDE DEF n, Turn
<1>4. step \in Bodies(n, Nat) /\ \A y \in 1 .. n, v \in Nat : step[<<y, v>>] = Turn(y, v)
    BY <1>3 DEF Bodies
<1> HIDE DEF step
<1>5. PICK f : Runs(f, n, Nat, x, step)
    BY <1>2, <1>4, LoopExists
<1>6. f = Rows(f)
  <2>1. f \in [0 .. n -> Nat] /\ f[0] = x /\ \A y \in 1 .. n : f[y] = step[<<y, f[y - 1]>>]
      BY <1>5 DEF Runs
  <2>2. \A y \in 1 .. n : f[y - 1] \in Nat
      BY <1>2, <2>1
  <2>3. \A y \in 1 .. n : f[y] = Turn(y, f[y - 1])
      BY <1>4, <2>1, <2>2
  <2>4. \A y \in 0 .. n : f[y] = IF y = 0 THEN x ELSE Turn(y, f[y - 1])
      BY <1>2, <2>1, <2>3
  <2> QED
      BY <2>1, <2>4
<1>7. new = Rows(new)
  <2> HIDE DEF Rows
  <2> QED
      BY <1>6
<1> HIDE DEF new
<1>8. \A y \in 0 .. n : new[y] = IF y = 0 THEN x ELSE Turn(y, new[y - 1])
    BY <1>7
<1> DEFINE D == {y \in 0 .. n : new[y] \in Nat}
<1>9. 0 \in D /\ new[0] = x
    BY <1>2, <1>8
<1>10. ASSUME NEW y \in 1 .. n, y - 1 \in D PROVE y \in D
  <2>1. new[y - 1] \in Nat /\ y \in 0 .. n /\ y # 0
      BY <1>2, <1>10
  <2>2. new[y] = Turn(y, new[y - 1])
      BY <1>8, <2>1
  <2> QED
      BY <1>3, <2>1, <2>2
<1> HIDE DEF D
<1>11. \A y \in 0 .. n : y \in D
    BY <1>2, <1>9, <1>10, CountUp
<1>12. \A y \in 0 .. n : new[y] \in Nat
    BY <1>11 DEF D
<1>13. new \in [0 .. n -> Nat]
  <2>1. new = [y \in 0 .. n |-> new[y]]
      BY <1>7, <1>8
  <2> QED
      BY <1>12, <2>1
<1>14. \A y \in 1 .. n : new[y] = Turn(y, new[y - 1])
    BY <1>2, <1>8
<1> QED
    BY <1>1, <1>9, <1>13, <1>14 DEF Follows, Heights, n, Turn

\* The whole matrix.
Matrix(C, a, b) ==
    /\ C \in [0 .. Len(b) -> Heights(a)]
    /\ C[0] = [y \in 0 .. Len(a) |-> y]
    /\ \A x \in 1 .. Len(b) : C[x] = Column(C[x - 1], a, b, x)

\* The matrix of two words exists, column after column.
LEMMA MatrixExists ==
    ASSUME NEW L, NEW a \in Seq(L), NEW b \in Seq(L)
    PROVE  \E C : Matrix(C, a, b)
<1> DEFINE n == Len(b)
           S == Heights(a)
           e == [y \in 0 .. Len(a) |-> y]
           step == [w \in (1 .. n) \X S |-> Column(w[2], a, b, w[1])]
<1>1. n \in Nat
    OBVIOUS
<1>2. e \in S
    BY DEF Heights
<1>3. \A x \in 1 .. n, col \in S : Column(col, a, b, x) \in S
    BY ColumnIs DEF Follows
<1> HIDE DEF S, e, n
<1>4. step \in Bodies(n, S) /\ \A x \in 1 .. n, col \in S : step[<<x, col>>] = Column(col, a, b, x)
    BY <1>3 DEF Bodies
<1> HIDE DEF step
<1>5. PICK C : Runs(C, n, S, e, step)
    BY <1>1, <1>2, <1>4, LoopExists
<1>6. C \in [0 .. n -> S] /\ C[0] = e /\ \A x \in 1 .. n : C[x] = step[<<x, C[x - 1]>>]
    BY <1>5 DEF Runs
<1>7. \A x \in 1 .. n : C[x - 1] \in S
    BY <1>1, <1>6
<1>8. \A x \in 1 .. n : C[x] = Column(C[x - 1], a, b, x)
    BY <1>4, <1>6, <1>7
<1>9. Matrix(C, a, b)
    BY <1>6, <1>8 DEF Matrix, n, S, e
<1> QED
    BY <1>9

LEMMA MatrixColumn ==
    ASSUME NEW L, NEW a \in Seq(L), NEW b \in Seq(L), NEW C, Matrix(C, a, b),
           NEW x \in 1 .. Len(b)
    PROVE  C[x - 1] \in Heights(a) /\ Follows(C[x], C[x - 1], a, b, x)
<1>1. x - 1 \in 0 .. Len(b) /\ x \in Nat
    OBVIOUS
<1>2. C[x - 1] \in Heights(a) /\ C[x] = Column(C[x - 1], a, b, x)
    BY <1>1 DEF Matrix
<1> QED
    BY <1>1, <1>2, ColumnIs

\* One entry of the matrix from the three before.
LEMMA MatrixEntry ==
    ASSUME NEW L, NEW a \in Seq(L), NEW b \in Seq(L), NEW C, Matrix(C, a, b),
           NEW x \in 1 .. Len(b), NEW y \in 1 .. Len(a)
    PROVE  /\ C[x - 1][y] \in Nat /\ C[x][y - 1] \in Nat /\ C[x - 1][y - 1] \in Nat
           /\ C[x][y] = Min3(C[x - 1][y] + 1, C[x][y - 1] + 1, C[x - 1][y - 1] + Cost(a, b, y, x))
<1>1. y \in 0 .. Len(a) /\ y - 1 \in 0 .. Len(a)
    OBVIOUS
<1>2. C[x - 1] \in Heights(a) /\ Follows(C[x], C[x - 1], a, b, x)
    BY MatrixColumn
<1> QED
    BY <1>1, <1>2 DEF Follows, Heights

LEMMA MatrixTyped ==
    ASSUME NEW L, NEW a \in Seq(L), NEW b \in Seq(L), NEW C, Matrix(C, a, b),
           NEW x \in 0 .. Len(b), NEW y \in 0 .. Len(a)
    PROVE  C[x][y] \in Nat /\ C[x] \in Heights(a)
BY DEF Matrix, Heights

\* The top of each column is its number.
LEMMA MatrixTop ==
    ASSUME NEW L, NEW a \in Seq(L), NEW b \in Seq(L), NEW C, Matrix(C, a, b),
           NEW x \in 0 .. Len(b)
    PROVE  C[x][0] = x
<1>1. CASE x = 0
  <2>1. 0 \in 0 .. Len(a)
      OBVIOUS
  <2> QED
      BY <1>1, <2>1 DEF Matrix
<1>2. CASE x # 0
  <2>1. x \in 1 .. Len(b)
      BY <1>2
  <2> QED
      BY <2>1, MatrixColumn DEF Follows
<1> QED
    BY <1>1, <1>2

\* The entries are the distances of the beginnings of the two words.
LEMMA LevenshteinIs ==
    ASSUME NEW L, NEW a \in Seq(L), NEW b \in Seq(L), NEW C, Matrix(C, a, b)
    PROVE  Levenshtein(a, b) = C[Len(b)][Len(a)]
<1> DEFINE m == Len(a)
           n == Len(b)
           X == (0 .. m) \X (0 .. n)
           Entry(f, y, x) ==
               IF y = 0 THEN x
               ELSE IF x = 0 THEN y
               ELSE Min3(1 + f[<<y - 1, x>>], 1 + f[<<y, x - 1>>],
                         f[<<y - 1, x - 1>>] + Cost(a, b, y, x))
           Dist(f) == [p \in X |-> Entry(f, p[1], p[2])]
           dist == CHOOSE f : f = Dist(f)
           g == [p \in X |-> C[p[2]][p[1]]]
<1>1. Levenshtein(a, b) = dist[<<m, n>>]
    BY DEF Levenshtein
<1>2. m \in Nat /\ n \in Nat
    OBVIOUS
<1>3. ASSUME NEW y \in 1 .. m, NEW x \in 1 .. n, NEW u, NEW v, NEW w,
             u = C[x][y - 1], v = C[x - 1][y], w = C[x - 1][y - 1]
      PROVE  C[x][y] = Min3(1 + u, 1 + v, w + Cost(a, b, y, x))
  <2>1. u \in Nat /\ v \in Nat /\ C[x][y] = Min3(v + 1, u + 1, w + Cost(a, b, y, x))
      BY <1>3, MatrixEntry
  <2>2. {v + 1, u + 1, w + Cost(a, b, y, x)} = {1 + u, 1 + v, w + Cost(a, b, y, x)}
      BY <2>1
  <2> QED
      BY <2>1, <2>2 DEF Min3
<1>4. \A x \in 0 .. n : C[x][0] = x
    BY MatrixTop
<1>5. \A y \in 0 .. m : C[0][y] = y
    BY DEF Matrix
<1> HIDE DEF m, n
<1>6. g = Dist(g)
  <2>1. ASSUME NEW y \in 0 .. m, NEW x \in 0 .. n PROVE C[x][y] = Entry(g, y, x)
    <3>1. CASE y = 0
        BY <1>4, <3>1
    <3>2. CASE y # 0 /\ x = 0
        BY <1>5, <3>2
    <3>3. CASE y # 0 /\ x # 0
      <4>1. y \in 1 .. m /\ x \in 1 .. n /\ y - 1 \in 0 .. m /\ x - 1 \in 0 .. n
          BY <1>2, <3>3
      <4>2. g[<<y - 1, x>>] = C[x][y - 1] /\ g[<<y, x - 1>>] = C[x - 1][y]
            /\ g[<<y - 1, x - 1>>] = C[x - 1][y - 1]
          BY <4>1
      <4> HIDE DEF g
      <4> QED
          BY <1>3, <3>3, <4>1, <4>2
    <3> QED
        BY <3>1, <3>2, <3>3
  <2> DEFINE h == [p \in X |-> Entry(g, p[1], p[2])]
  <2>2. \A p \in X : p[1] \in 0 .. m /\ p[2] \in 0 .. n
      OBVIOUS
  <2> HIDE DEF Entry
  <2>3. \A p \in X : C[p[2]][p[1]] = Entry(g, p[1], p[2])
      BY <2>1, <2>2
  <2> HIDE DEF X
  <2> QED
      BY <2>3
<1>7. dist = Dist(dist)
  <2> HIDE DEF Dist, g
  <2> QED
      BY <1>6
<1> HIDE DEF dist
<1>8. ASSUME NEW y \in 0 .. m, NEW x \in 0 .. n PROVE dist[<<y, x>>] = Entry(dist, y, x)
  <2> HIDE DEF Entry
  <2>1. <<y, x>> \in X /\ <<y, x>>[1] = y /\ <<y, x>>[2] = x
      OBVIOUS
  <2> HIDE DEF X
  <2> QED
      BY <1>7, <2>1
<1> DEFINE Same(x) == \A y \in 0 .. m : dist[<<y, x>>] = C[x][y]
           D == {x \in 0 .. n : Same(x)}
<1>9. 0 \in D
  <2>1. ASSUME NEW y \in 0 .. m PROVE dist[<<y, 0>>] = C[0][y]
    <3>0. 0 \in 0 .. n
        BY <1>2
    <3>1. dist[<<y, 0>>] = Entry(dist, y, 0)
      <4> HIDE DEF Entry
      <4> QED
          BY <1>8, <3>0
    <3> QED
        BY <1>5, <3>1
  <2> QED
      BY <1>2, <2>1
<1>10. ASSUME NEW x \in 1 .. n, x - 1 \in D PROVE x \in D
  <2>0. x \in 0 .. n /\ x # 0 /\ x - 1 \in 0 .. n /\ Same(x - 1)
      BY <1>2, <1>10
  <2> DEFINE E == {y \in 0 .. m : dist[<<y, x>>] = C[x][y]}
  <2>1. 0 \in E
    <3>1. 0 \in 0 .. m
        BY <1>2
    <3>2. dist[<<0, x>>] = Entry(dist, 0, x)
        BY <1>8, <2>0, <3>1
    <3> QED
        BY <1>4, <2>0, <3>1, <3>2
  <2>2. ASSUME NEW y \in 1 .. m, y - 1 \in E PROVE y \in E
    <3>1. y \in 0 .. m /\ y - 1 \in 0 .. m /\ y # 0
        BY <1>2
    <3>2. dist[<<y, x>>] = Entry(dist, y, x)
        BY <1>8, <2>0, <3>1
    <3>3. dist[<<y - 1, x>>] = C[x][y - 1]
        BY <2>2
    <3>4. dist[<<y, x - 1>>] = C[x - 1][y] /\ dist[<<y - 1, x - 1>>] = C[x - 1][y - 1]
        BY <2>0, <3>1
    <3>5. Entry(dist, y, x) = Min3(1 + C[x][y - 1], 1 + C[x - 1][y], C[x - 1][y - 1] + Cost(a, b, y, x))
        BY <2>0, <3>1, <3>3, <3>4
    <3>6. C[x][y] = Min3(1 + C[x][y - 1], 1 + C[x - 1][y], C[x - 1][y - 1] + Cost(a, b, y, x))
        BY <1>3
    <3> QED
        BY <3>1, <3>2, <3>5, <3>6
  <2> HIDE DEF E
  <2>3. \A y \in 0 .. m : y \in E
      BY <1>2, <2>1, <2>2, CountUp
  <2>4. Same(x)
      BY <2>3 DEF E
  <2> HIDE DEF Same
  <2> QED
      BY <2>0, <2>4
<1> HIDE DEF D
<1>11. n \in D
    BY <1>2, <1>9, <1>10, CountUp
<1>12. Same(n)
    BY <1>11 DEF D
<1>13. m \in 0 .. m
    BY <1>2
<1> QED
    BY <1>1, <1>12, <1>13 DEF m, n

\* An entry is at least the difference of the lengths.
LEMMA Apart ==
    ASSUME NEW L, NEW a \in Seq(L), NEW b \in Seq(L), NEW C, Matrix(C, a, b)
    PROVE  C[Len(b)][Len(a)] >= Len(a) - Len(b) /\ C[Len(b)][Len(a)] >= Len(b) - Len(a)
<1> DEFINE m == Len(a)
           n == Len(b)
           Far(x) == \A y \in 0 .. m : C[x][y] >= y - x /\ C[x][y] >= x - y
           D == {x \in 0 .. n : Far(x)}
<1>1. m \in Nat /\ n \in Nat
    OBVIOUS
<1>2. 0 \in D
    BY <1>1 DEF Matrix
<1>3. ASSUME NEW x \in 1 .. n, x - 1 \in D PROVE x \in D
  <2>0. Far(x - 1) /\ x \in 0 .. n /\ x - 1 \in 0 .. n
      BY <1>1, <1>3
  <2> DEFINE E == {y \in 0 .. m : C[x][y] >= y - x /\ C[x][y] >= x - y}
  <2>1. 0 \in E
    <3>1. C[x][0] = x
        BY <2>0, MatrixTop
    <3> QED
        BY <1>1, <3>1
  <2>2. ASSUME NEW y \in 1 .. m, y - 1 \in E PROVE y \in E
    <3>1. y \in 0 .. m /\ y - 1 \in 0 .. m
        BY <1>1
    <3> DEFINE u == C[x - 1][y]
               v == C[x][y - 1]
               w == C[x - 1][y - 1]
               c == Cost(a, b, y, x)
               z == C[x][y]
    <3>2. u \in Nat /\ v \in Nat /\ w \in Nat /\ z = Min3(u + 1, v + 1, w + c)
        BY MatrixEntry
    <3>3. c \in Nat
        BY CostIs
    <3>4. u >= y - (x - 1) /\ u >= (x - 1) - y
        BY <2>0, <3>1
    <3>5. v >= (y - 1) - x /\ v >= x - (y - 1)
        BY <2>2
    <3>6. w >= (y - 1) - (x - 1) /\ w >= (x - 1) - (y - 1)
        BY <2>0, <3>1
    <3> HIDE DEF u, v, w, c, z
    <3>7. u + 1 \in Nat /\ v + 1 \in Nat /\ w + c \in Nat
        BY <3>2, <3>3
    <3>8. z \in {u + 1, v + 1, w + c}
        BY <3>2, <3>7, Min3Is
    <3>9. x \in Nat /\ y \in Nat
        BY <1>1
    <3>10. z >= y - x /\ z >= x - y
        BY <3>2, <3>3, <3>4, <3>5, <3>6, <3>8, <3>9
    <3> QED
        BY <3>1, <3>10 DEF z
  <2> HIDE DEF E
  <2>3. \A y \in 0 .. m : y \in E
      BY <1>1, <2>1, <2>2, CountUp
  <2>4. Far(x)
      BY <2>3 DEF E
  <2> HIDE DEF Far
  <2> QED
      BY <2>0, <2>4
<1> HIDE DEF D
<1>4. n \in D
    BY <1>1, <1>2, <1>3, CountUp
<1>5. Far(n)
    BY <1>4 DEF D
<1>6. m \in 0 .. m
    BY <1>1
<1> HIDE DEF m, n
<1>7. C[n][m] >= m - n /\ C[n][m] >= n - m
    BY <1>5, <1>6
<1> QED
    BY <1>7 DEF m, n

\* When a whole column is beyond the bound, so is the next.
LEMMA StaysBeyond ==
    ASSUME NEW L, NEW a \in Seq(L), NEW b \in Seq(L), NEW C, Matrix(C, a, b),
           NEW x \in 1 .. Len(b), NEW max \in Nat, Beyond(C[x - 1], max)
    PROVE  Beyond(C[x], max)
<1>1. x \in 0 .. Len(b) /\ x - 1 \in 0 .. Len(b) /\ Len(a) \in Nat /\ Len(b) \in Nat
    OBVIOUS
<1>2. C[x] \in Heights(a) /\ C[x - 1] \in Heights(a)
    BY <1>1 DEF Matrix
<1>3. \A y \in 0 .. Len(a) : C[x - 1][y] > max
    BY <1>2 DEF Beyond, Heights
<1> DEFINE E == {y \in 0 .. Len(a) : C[x][y] > max}
<1>4. 0 \in E
  <2>1. C[x][0] = x /\ C[x - 1][0] = x - 1 /\ 0 \in 0 .. Len(a)
      BY <1>1, MatrixTop
  <2> QED
      BY <1>1, <1>3, <2>1
<1>5. ASSUME NEW y \in 1 .. Len(a), y - 1 \in E PROVE y \in E
  <2>1. y \in 0 .. Len(a) /\ y - 1 \in 0 .. Len(a)
      BY <1>1
  <2> DEFINE u == C[x - 1][y]
             v == C[x][y - 1]
             w == C[x - 1][y - 1]
             c == Cost(a, b, y, x)
             z == C[x][y]
  <2>2. u \in Nat /\ v \in Nat /\ w \in Nat /\ z = Min3(u + 1, v + 1, w + c)
      BY MatrixEntry
  <2>3. c \in Nat
      BY CostIs
  <2>4. u > max /\ v > max /\ w > max
      BY <1>3, <1>5, <2>1
  <2> HIDE DEF u, v, w, c, z
  <2>5. u + 1 \in Nat /\ v + 1 \in Nat /\ w + c \in Nat
      BY <2>2, <2>3
  <2>6. z \in {u + 1, v + 1, w + c}
      BY <2>2, <2>5, Min3Is
  <2>7. z > max
      BY <2>2, <2>3, <2>4, <2>6
  <2> QED
      BY <2>1, <2>7 DEF z
<1> HIDE DEF E
<1>6. \A y \in 0 .. Len(a) : y \in E
    BY <1>1, <1>4, <1>5, CountUp
<1>7. \A y \in 0 .. Len(a) : C[x][y] > max
    BY <1>6 DEF E
<1> QED
    BY <1>2, <1>7 DEF Beyond, Heights

BoundedRight(a, b, max) ==
    /\ Levenshtein(a, b) \in Nat /\ Bounded(a, b, max) \in Nat
    /\ Levenshtein(a, b) <= max => Bounded(a, b, max) = Levenshtein(a, b)
    /\ Levenshtein(a, b) > max => Bounded(a, b, max) > max

\* levenshtein_distance_bounded, for any two words and any bound, finds the
\* distance when it is within the bound and otherwise something beyond it: it
\* never stops too early.
THEOREM BoundedIsDistance ==
    ASSUME NEW L, NEW a \in Seq(L), NEW b \in Seq(L), NEW max \in Nat
    PROVE  BoundedRight(a, b, max)
<1> DEFINE n == Len(b)
           m == Len(a)
           S == [col : Heights(a), over : BOOLEAN]
           e == [col |-> [y \in 0 .. m |-> y], over |-> FALSE]
           Turns(f) == [x \in 0 .. n |-> IF x = 0 THEN e ELSE NextColumn(f[x - 1], a, b, x, max)]
           step == [w \in (1 .. n) \X S |-> NextColumn(w[2], a, b, w[1], max)]
           turn == CHOOSE f : f = Turns(f)
           last == turn[n]
<1>1. Bounded(a, b, max) =
          IF m - n > max \/ n - m > max \/ last.over THEN max + 1 ELSE last.col[m]
    BY DEF Bounded
<1>2. m \in Nat /\ n \in Nat
    OBVIOUS
<1>3. PICK C : Matrix(C, a, b)
    BY MatrixExists
<1>4. e \in S
    BY DEF Heights
<1>5. ASSUME NEW x \in 1 .. n, NEW st \in S PROVE NextColumn(st, a, b, x, max) \in S
  <2> DEFINE col == Column(st.col, a, b, x)
             over == Beyond(col, max)
  <2>1. x \in Nat /\ st.col \in Heights(a)
      OBVIOUS
  <2>2. col \in Heights(a)
      BY <2>1, ColumnIs DEF Follows
  <2>3. over \in BOOLEAN
      BY DEF Beyond
  <2>4. NextColumn(st, a, b, x, max) = IF st.over THEN st ELSE [col |-> col, over |-> over]
      BY DEF NextColumn
  <2> HIDE DEF col, over
  <2> QED
      BY <2>2, <2>3, <2>4
<1>6. step \in Bodies(n, S)
      /\ \A x \in 1 .. n, st \in S : step[<<x, st>>] = NextColumn(st, a, b, x, max)
  <2> HIDE DEF S, n
  <2> QED
      BY <1>5 DEF Bodies
<1> HIDE DEF step, S, e, n, m
<1>7. PICK g : Runs(g, n, S, e, step)
    BY <1>2, <1>4, <1>6, LoopExists
<1>8. g = Turns(g)
  <2>1. g \in [0 .. n -> S] /\ g[0] = e /\ \A x \in 1 .. n : g[x] = step[<<x, g[x - 1]>>]
      BY <1>7 DEF Runs
  <2>2. \A x \in 1 .. n : g[x - 1] \in S
      BY <1>2, <2>1
  <2>3. \A x \in 1 .. n : g[x] = NextColumn(g[x - 1], a, b, x, max)
      BY <1>6, <2>1, <2>2
  <2>4. \A x \in 0 .. n : g[x] = IF x = 0 THEN e ELSE NextColumn(g[x - 1], a, b, x, max)
      BY <1>2, <2>1, <2>3
  <2> QED
      BY <2>1, <2>4
<1>9. turn = Turns(turn)
  <2> HIDE DEF Turns
  <2> QED
      BY <1>8
<1> HIDE DEF turn
<1>10. \A x \in 0 .. n : turn[x] = IF x = 0 THEN e ELSE NextColumn(turn[x - 1], a, b, x, max)
    BY <1>9
<1> DEFINE Right(x) == IF turn[x].over THEN Beyond(C[x], max) ELSE turn[x].col = C[x]
           D == {x \in 0 .. n : Right(x)}
<1>11. 0 \in D
  <2>1. 0 \in 0 .. n /\ turn[0] = e
      BY <1>2, <1>10
  <2>2. C[0] = [y \in 0 .. m |-> y]
      BY <1>3 DEF Matrix, m
  <2>3. ~e.over /\ e.col = C[0]
      BY <2>2 DEF e
  <2>4. Right(0)
      BY <2>1, <2>3
  <2> HIDE DEF Right
  <2> QED
      BY <2>1, <2>4
<1>12. ASSUME NEW x \in 1 .. n, x - 1 \in D PROVE x \in D
  <2>0. x \in 0 .. n /\ x # 0 /\ Right(x - 1)
      BY <1>2, <1>12
  <2> DEFINE st == turn[x - 1]
             col == Column(st.col, a, b, x)
  <2>1. turn[x] = NextColumn(st, a, b, x, max)
      BY <1>10, <2>0
  <2>2. CASE st.over
    <3>1. turn[x] = st
        BY <2>1, <2>2 DEF NextColumn
    <3>2. Beyond(C[x], max)
        BY <1>3, <2>0, <2>2, StaysBeyond DEF n
    <3> QED
        BY <2>0, <2>2, <3>1, <3>2
  <2>3. CASE ~st.over
    <3>1. turn[x] = [col |-> col, over |-> Beyond(col, max)]
        BY <2>1, <2>3 DEF NextColumn
    <3>2. C[x] = col
        BY <1>3, <2>0, <2>3 DEF Matrix, n
    <3>3. Right(x)
        BY <3>1, <3>2
    <3> QED
        BY <2>0, <3>3
  <2> QED
      BY <2>2, <2>3
<1> HIDE DEF D
<1>13. n \in D
    BY <1>2, <1>11, <1>12, CountUp
<1>14. Right(n)
    BY <1>13 DEF D
<1> DEFINE l == C[n][m]
<1>15. Levenshtein(a, b) = l
    BY <1>3, LevenshteinIs DEF n, m
<1>16. l \in Nat /\ C[n] \in Heights(a)
    BY <1>2, <1>3, MatrixTyped DEF n, m
<1>17. l >= m - n /\ l >= n - m
    BY <1>3, Apart DEF n, m
<1>18. last.over => l > max
  <2>1. m \in DOMAIN C[n]
      BY <1>2, <1>16 DEF Heights, m
  <2> QED
      BY <1>14, <2>1 DEF Beyond
<1>19. ~last.over => last.col[m] = l
    BY <1>14
<1> DEFINE o == last.over
           z == last.col[m]
<1>20. Bounded(a, b, max) = IF m - n > max \/ n - m > max \/ o THEN max + 1 ELSE z
    BY <1>1
<1>21. (o => l > max) /\ (~o => z = l)
    BY <1>18, <1>19
<1> HIDE DEF o, z, l
<1>22. CASE m - n > max \/ n - m > max \/ o
  <2>1. l > max
      BY <1>2, <1>16, <1>17, <1>21, <1>22
  <2>2. Bounded(a, b, max) = max + 1
      BY <1>20, <1>22
  <2> QED
      BY <1>15, <1>16, <2>1, <2>2 DEF BoundedRight
<1>23. CASE ~(m - n > max \/ n - m > max \/ o)
  <2>1. Bounded(a, b, max) = l
      BY <1>20, <1>21, <1>23
  <2> QED
      BY <1>15, <1>16, <2>1 DEF BoundedRight
<1> QED
    BY <1>22, <1>23

-----------------------------------------------------------------------------
(* The order of suggestions.                                                *)

\* a comes before b at place k.
DiffersAt(a, b, k) ==
    /\ k \in 1 .. Len(b) /\ k <= Len(a) + 1
    /\ \A j \in 1 .. k - 1 : a[j] = b[j]
    /\ k > Len(a) \/ a[k] < b[k]

LEMMA BelowAt ==
    ASSUME NEW a, NEW b
    PROVE  Below(a, b) <=> \E k : DiffersAt(a, b, k)
BY DEF Below, DiffersAt

\* No word is below itself.
LEMMA BelowNot ==
    ASSUME NEW a \in Seq(Nat)
    PROVE  ~Below(a, a)
BY DEF Below

\* Below is transitive.
LEMMA BelowChain ==
    ASSUME NEW a \in Seq(Nat), NEW b \in Seq(Nat), NEW c \in Seq(Nat), Below(a, b), Below(b, c)
    PROVE  Below(a, c)
<1>0. /\ Len(a) \in Nat /\ Len(b) \in Nat /\ Len(c) \in Nat
      /\ (\A i \in 1 .. Len(a) : a[i] \in Nat) /\ (\A i \in 1 .. Len(b) : b[i] \in Nat)
      /\ (\A i \in 1 .. Len(c) : c[i] \in Nat)
    BY SeqIs
<1>1. PICK k : DiffersAt(a, b, k)
    BY BelowAt
<1>2. PICK l : DiffersAt(b, c, l)
    BY BelowAt
<1>3. /\ k \in 1 .. Len(b) /\ k <= Len(a) + 1 /\ (\A j \in 1 .. k - 1 : a[j] = b[j])
      /\ k > Len(a) \/ a[k] < b[k]
    BY <1>1 DEF DiffersAt
<1>4. /\ l \in 1 .. Len(c) /\ l <= Len(b) + 1 /\ (\A j \in 1 .. l - 1 : b[j] = c[j])
      /\ l > Len(b) \/ b[l] < c[l]
    BY <1>2 DEF DiffersAt
<1>5. CASE k < l
  <2>1. k \in 1 .. Len(c) /\ k \in 1 .. l - 1 /\ \A j \in 1 .. k - 1 : j \in 1 .. l - 1
      BY <1>0, <1>3, <1>4, <1>5
  <2>2. \A j \in 1 .. k - 1 : a[j] = c[j]
      BY <1>3, <1>4, <2>1
  <2>3. k > Len(a) \/ a[k] < c[k]
      BY <1>3, <1>4, <2>1
  <2>4. DiffersAt(a, c, k)
      BY <1>3, <2>1, <2>2, <2>3 DEF DiffersAt
  <2> QED
      BY <2>4, BelowAt
<1>6. CASE l < k
  <2>1. l \in 1 .. Len(b) /\ l \in 1 .. k - 1 /\ l <= Len(a) + 1 /\ \A j \in 1 .. l - 1 : j \in 1 .. k - 1
    <3> DEFINE x == Len(a)
               y == Len(b)
    <3>1. x \in Nat /\ y \in Nat /\ k \in 1 .. y /\ k <= x + 1 /\ l \in Nat /\ l >= 1 /\ l < k
        BY <1>0, <1>3, <1>4, <1>6
    <3> HIDE DEF x, y
    <3>2. l \in 1 .. y /\ l \in 1 .. k - 1 /\ l <= x + 1 /\ \A j \in 1 .. l - 1 : j \in 1 .. k - 1
        BY <3>1
    <3> QED
        BY <3>2 DEF x, y
  <2>2. \A j \in 1 .. l - 1 : a[j] = c[j]
      BY <1>3, <1>4, <2>1
  <2>3. a[l] < c[l]
      BY <1>0, <1>3, <1>4, <2>1
  <2>4. DiffersAt(a, c, l)
      BY <1>4, <2>1, <2>2, <2>3 DEF DiffersAt
  <2> QED
      BY <2>4, BelowAt
<1>7. CASE k = l
  <2>1. b[k] < c[k] /\ b[k] \in Nat /\ c[k] \in Nat
      BY <1>0, <1>3, <1>4, <1>7
  <2>2. k > Len(a) \/ (a[k] < c[k])
    <3>1. CASE ~(k > Len(a))
      <4>1. a[k] \in Nat /\ a[k] < b[k]
          BY <1>0, <1>3, <3>1
      <4> QED
          BY <2>1, <4>1
    <3> QED
        BY <3>1
  <2>3. \A j \in 1 .. k - 1 : a[j] = c[j]
      BY <1>3, <1>4, <1>7
  <2>4. DiffersAt(a, c, k)
      BY <1>3, <1>4, <1>7, <2>2, <2>3 DEF DiffersAt
  <2> QED
      BY <2>4, BelowAt
<1>8. k < l \/ l < k \/ k = l
    BY <1>0, <1>3, <1>4
<1> QED
    BY <1>5, <1>6, <1>7, <1>8

\* Of two different words one is below the other.
LEMMA BelowTotal ==
    ASSUME NEW a \in Seq(Nat), NEW b \in Seq(Nat), a # b
    PROVE  Below(a, b) \/ Below(b, a)
<1> DEFINE n == Len(a)
           m == Len(b)
           P == {k \in 1 .. n + m + 1 : k > n \/ k > m \/ a[k] # b[k]}
           k == Min(P)
<1>0. /\ n \in Nat /\ m \in Nat
      /\ (\A i \in 1 .. n : a[i] \in Nat) /\ (\A i \in 1 .. m : b[i] \in Nat)
    BY SeqIs
<1>1. n = m => \E i \in 1 .. n : a[i] # b[i]
    BY SameSeq
<1>2. P \in SUBSET Nat /\ n + m + 1 \in P
    BY <1>0
<1>3. k \in P /\ \A j \in P : k <= j
  <2> HIDE DEF P
  <2> QED
      BY <1>2, MinIs
<1> HIDE DEF k
<1>4. k \in 1 .. n + m + 1 /\ (k > n \/ k > m \/ a[k] # b[k])
    BY <1>3
<1>5. \A j \in 1 .. k - 1 : j \notin P /\ j \in 1 .. n + m + 1
  <2> TAKE j \in 1 .. k - 1
  <2>1. ~(k <= j) /\ j \in 1 .. n + m + 1
      BY <1>0, <1>4
  <2> QED
      BY <1>3, <2>1
<1>6. \A j \in 1 .. k - 1 : j <= n /\ j <= m /\ a[j] = b[j]
    BY <1>0, <1>5
<1> HIDE DEF n, m, P
<1>7. k <= n + 1 /\ k <= m + 1
  <2>1. CASE k = 1
      BY <1>0, <2>1
  <2>2. CASE k # 1
    <3>1. k - 1 \in 1 .. k - 1
        BY <1>0, <1>4, <2>2
    <3>2. k - 1 <= n /\ k - 1 <= m
        BY <1>6, <3>1
    <3> QED
        BY <1>0, <1>4, <3>2
  <2> QED
      BY <2>1, <2>2
<1>8. CASE k > n /\ k > m
  <2>1. k = n + 1 /\ n = m
      BY <1>0, <1>4, <1>7, <1>8
  <2>2. PICK i \in 1 .. n : a[i] # b[i]
      BY <1>1, <2>1
  <2>3. i \in 1 .. k - 1
      BY <1>0, <2>1
  <2> QED
      BY <1>6, <2>2, <2>3
<1>9. CASE k <= m /\ (k > n \/ a[k] < b[k])
  <2>1. DiffersAt(a, b, k)
      BY <1>0, <1>4, <1>6, <1>7, <1>9 DEF DiffersAt, n, m
  <2> QED
      BY <2>1, BelowAt
<1>10. CASE k <= n /\ (k > m \/ b[k] < a[k])
  <2>1. DiffersAt(b, a, k)
      BY <1>0, <1>4, <1>6, <1>7, <1>10 DEF DiffersAt, n, m
  <2> QED
      BY <2>1, BelowAt
<1>11. k <= n /\ k <= m => a[k] < b[k] \/ b[k] < a[k]
    BY <1>0, <1>4
<1> QED
    BY <1>0, <1>4, <1>8, <1>9, <1>10, <1>11

\* Better is a strict order of all words of the trie.
Ones == DOMAIN Frequency

LEMMA OneIs ==
    ASSUME NEW w \in Ones
    PROVE  Frequency[w] \in Nat /\ Spelling[w] \in Seq(Nat)
BY CountsNat, LettersNat, SpelledApart DEF Ones

\* No word is better than itself.
LEMMA BetterNot ==
    ASSUME NEW w \in Ones
    PROVE  ~Better(w, w)
BY OneIs, BelowNot DEF Better

\* Better is transitive.
LEMMA BetterChain ==
    ASSUME NEW u \in Ones, NEW v \in Ones, NEW w \in Ones, Better(u, v), Better(v, w)
    PROVE  Better(u, w)
<1>1. Frequency[u] \in Nat /\ Frequency[v] \in Nat /\ Frequency[w] \in Nat
    BY OneIs
<1>2. Below(Spelling[u], Spelling[v]) /\ Below(Spelling[v], Spelling[w]) => Below(Spelling[u], Spelling[w])
    BY OneIs, BelowChain
<1> QED
    BY <1>1, <1>2 DEF Better

\* Of two different words of the trie one is better.
LEMMA BetterTotal ==
    ASSUME NEW v \in Ones, NEW w \in Ones, v # w
    PROVE  Better(v, w) \/ Better(w, v)
<1>1. Frequency[v] \in Nat /\ Frequency[w] \in Nat
    BY OneIs
<1>2. Spelling[v] # Spelling[w]
    BY SpelledApart DEF Ones
<1>3. Below(Spelling[v], Spelling[w]) \/ Below(Spelling[w], Spelling[v])
    BY <1>2, OneIs, BelowTotal
<1> QED
    BY <1>1, <1>3 DEF Better

\* The rank of a word in a set of words of the trie.
Over(S, w) == {v \in S : Better(v, w)}
Rank(S, w) == Cardinality(Over(S, w))

LEMMA OnesFinite ==
    ASSUME NEW S \in SUBSET Ones
    PROVE  IsFiniteSet(S) /\ Cardinality(S) \in Nat
<1>1. IsFiniteSet(S)
    BY TrieFinite, FS_Subset DEF Ones
<1> QED
    BY <1>1, FS_CardinalityType

\* A rank is below the number of words.
LEMMA RankIs ==
    ASSUME NEW S \in SUBSET Ones, NEW w \in S
    PROVE  Rank(S, w) \in 0 .. Cardinality(S) - 1
<1>1. IsFiniteSet(S) /\ Cardinality(S) \in Nat
    BY OnesFinite
<1>2. Over(S, w) \in SUBSET S /\ w \notin Over(S, w)
    BY BetterNot DEF Over
<1>3. Cardinality(Over(S, w)) <= Cardinality(S) /\ Cardinality(Over(S, w)) # Cardinality(S)
  <2> DEFINE T == Over(S, w)
  <2> HIDE DEF T
  <2>1. T \in SUBSET S /\ T # S
      BY <1>2 DEF T
  <2>2. Cardinality(T) <= Cardinality(S) /\ (Cardinality(S) = Cardinality(T) => S = T)
      BY <1>1, <2>1, FS_Subset
  <2> QED
      BY <2>1, <2>2 DEF T
<1>4. Cardinality(Over(S, w)) \in Nat
  <2>1. Over(S, w) \in SUBSET Ones
      BY <1>2
  <2> QED
      BY <2>1, OnesFinite
<1> QED
    BY <1>1, <1>3, <1>4 DEF Rank

\* A better word has a lower rank.
LEMMA RankLess ==
    ASSUME NEW S \in SUBSET Ones, NEW v \in S, NEW w \in S, Better(v, w)
    PROVE  Rank(S, v) < Rank(S, w)
<1> DEFINE A == Over(S, v)
           B == Over(S, w)
<1>1. B \in SUBSET S /\ v \in B /\ v \notin A
    BY BetterNot DEF Over
<1>2. A \in SUBSET B
    BY BetterChain DEF Over
<1>3. IsFiniteSet(B) /\ Cardinality(B) \in Nat
  <2>1. B \in SUBSET Ones
      BY <1>1
  <2> QED
      BY <2>1, OnesFinite
<1> HIDE DEF A, B
<1>4. Cardinality(A) <= Cardinality(B) /\ (Cardinality(B) = Cardinality(A) => B = A) /\ IsFiniteSet(A)
    BY <1>2, <1>3, FS_Subset
<1>5. Cardinality(A) \in Nat
    BY <1>4, FS_CardinalityType
<1> QED
    BY <1>1, <1>3, <1>4, <1>5 DEF Rank, A, B

\* No two words have the same rank.
LEMMA RankOnce ==
    ASSUME NEW S \in SUBSET Ones, NEW v \in S, NEW w \in S, Rank(S, v) = Rank(S, w)
    PROVE  v = w
<1>1. ASSUME NEW u \in S PROVE Rank(S, u) \in Nat
    BY RankIs, OnesFinite
<1>2. ~Better(v, w) /\ ~Better(w, v)
    BY <1>1, RankLess
<1> QED
    BY <1>2, BetterTotal

\* Every rank is taken.
LEMMA RankTaken ==
    ASSUME NEW S \in SUBSET Ones, NEW i \in 0 .. Cardinality(S) - 1
    PROVE  \E w \in S : Rank(S, w) = i
<1> DEFINE n == Cardinality(S)
           T == 0 .. n - 1
           f == [w \in S |-> Rank(S, w)]
<1>1. n \in Nat
    BY OnesFinite
<1>2. f \in Injection(S, T)
  <2>1. f \in [S -> T]
      BY RankIs
  <2>2. \A v, w \in S : f[v] = f[w] => v = w
      BY RankOnce
  <2> HIDE DEF f, T
  <2> QED
      BY <2>1, <2>2 DEF Injection, IsInjective
<1>3. IsFiniteSet(T) /\ Cardinality(T) = n
  <2> DEFINE m == n - 1
  <2>1. 0 \in Int /\ m \in Int
      BY <1>1
  <2> HIDE DEF m
  <2>2. IsFiniteSet(0 .. m) /\ Cardinality(0 .. m) = IF 0 > m THEN 0 ELSE m - 0 + 1
      BY <2>1, FS_Interval
  <2> HIDE DEF n
  <2> QED
      BY <1>1, <2>2 DEF m
<1> HIDE DEF f, T
<1>4. \A g \in Injection(S, T) : Cardinality(S) = Cardinality(T) <=> g \in Surjection(S, T)
    BY <1>3, FS_Injection
<1>5. f \in Surjection(S, T)
    BY <1>2, <1>3, <1>4 DEF n
<1>6. \E w \in S : f[w] = i
    BY <1>5 DEF Surjection, T
<1> QED
    BY <1>6 DEF f

\* The list of a set of words, each at the place of its rank.
InRankOrder(list, S) ==
    /\ list \in Seq(S) /\ Len(list) = Cardinality(S) /\ Cardinality(S) \in Nat
    /\ \A i \in 1 .. Cardinality(S) : list[i] \in S /\ Rank(S, list[i]) = i - 1

\* BestFirst lists a set of words by their ranks.
LEMMA BestFirstIs ==
    ASSUME NEW S \in SUBSET Ones
    PROVE  InRankOrder(BestFirst(S), S)
<1> DEFINE n == Cardinality(S)
           pick(i) == CHOOSE w \in S : Rank(S, w) = i - 1
<1>1. n \in Nat
    BY OnesFinite
<1>2. ASSUME NEW i \in 1 .. n PROVE pick(i) \in S /\ Rank(S, pick(i)) = i - 1
  <2>1. i - 1 \in 0 .. n - 1
      BY <1>1
  <2>2. \E w \in S : Rank(S, w) = i - 1
      BY <2>1, RankTaken
  <2> QED
      BY <2>2
<1>3. BestFirst(S) = [i \in 1 .. n |-> pick(i)]
    BY DEF BestFirst, Rank, Over
<1> HIDE DEF n, pick
<1>4. BestFirst(S) \in Seq(S) /\ Len(BestFirst(S)) = n
    BY <1>1, <1>2, <1>3
<1>5. \A i \in 1 .. n : BestFirst(S)[i] = pick(i)
    BY <1>3
<1> QED
    BY <1>1, <1>2, <1>4, <1>5 DEF InRankOrder, n

\* A word of lower rank is better.
LEMMA RankOrder ==
    ASSUME NEW S \in SUBSET Ones, NEW v \in S, NEW w \in S, Rank(S, v) < Rank(S, w)
    PROVE  Better(v, w)
<1>1. ASSUME NEW u \in S PROVE Rank(S, u) \in Nat
    BY RankIs, OnesFinite
<1>2. v # w /\ ~Better(w, v)
    BY <1>1, RankLess
<1> QED
    BY <1>2, BetterTotal

\* The first limit of the words of S.
Offers(list, S, limit) ==
    LET n == Min({limit, Cardinality(S)})
    IN  /\ list \in Seq(S) /\ Len(list) = n /\ n \in Nat /\ n <= Cardinality(S)
        /\ \A i \in 1 .. n : list[i] \in S /\ Rank(S, list[i]) = i - 1

\* The list cut to the limit.
LEMMA FirstOfIs ==
    ASSUME NEW S \in SUBSET Ones, NEW limit \in Nat
    PROVE  Offers(FirstOf(BestFirst(S), limit), S, limit)
<1> DEFINE all == BestFirst(S)
           c == Cardinality(S)
           n == Min({limit, c})
<1>1. all \in Seq(S) /\ Len(all) = c /\ c \in Nat /\ \A i \in 1 .. c : all[i] \in S /\ Rank(S, all[i]) = i - 1
    BY BestFirstIs DEF InRankOrder
<1>2. FirstOf(all, limit) = SubSeq(all, 1, n)
    BY <1>1 DEF FirstOf
<1>3. n \in {limit, c} /\ n <= limit /\ n <= c
  <2> HIDE DEF c
  <2>1. {limit, c} \in SUBSET Nat /\ {limit, c} # {}
      BY <1>1
  <2> QED
      BY <2>1, MinIs
<1>4. n \in Nat
    BY <1>1, <1>3
<1> HIDE DEF all, c, n
<1>5. /\ SubSeq(all, 1, n) \in Seq(S) /\ Len(SubSeq(all, 1, n)) = n
      /\ \A i \in 1 .. n : SubSeq(all, 1, n)[i] = all[i] /\ i \in 1 .. c
    BY <1>1, <1>3, <1>4
<1> DEFINE list == SubSeq(all, 1, n)
<1>6. list \in Seq(S) /\ Len(list) = n /\ \A i \in 1 .. n : list[i] \in S /\ Rank(S, list[i]) = i - 1
    BY <1>1, <1>5
<1> HIDE DEF list
<1>7. Offers(list, S, limit)
    BY <1>3, <1>4, <1>6 DEF Offers, c, n
<1> QED
    BY <1>2, <1>7 DEF all, list

LEMMA CollectedIs ==
    ASSUME NEW prefix
    PROVE  Collected(prefix) \in SUBSET Ones /\ Completions(prefix) \in SUBSET Ones
BY DEF Collected, Visited, Completions, Ones

\* trie_suggest offers the first of what the walk collects.
LEMMA SuggestIs ==
    ASSUME NEW prefix, NEW limit \in Nat
    PROVE  Offers(Suggest(prefix, limit), Collected(prefix), limit)
<1>1. Collected(prefix) \in SUBSET Ones
    BY CollectedIs
<1> QED
    BY <1>1, FirstOfIs DEF Suggest

\* Everything is collected when the walk keeps that many words.
LEMMA AllCollected ==
    ASSUME NEW prefix, Cardinality(Completions(prefix)) <= Cap
    PROVE  Collected(prefix) = Completions(prefix)
<1> DEFINE all == Completions(prefix)
<1>1. all \in SUBSET Ones /\ Cardinality(all) <= Cap
    BY CollectedIs
<1> HIDE DEF all
<1>2. ASSUME NEW w \in all
      PROVE  Cardinality({v \in all : Below(Spelling[v], Spelling[w])}) < Cap
  <2> DEFINE T == {v \in all : Below(Spelling[v], Spelling[w])}
  <2>1. T \in SUBSET all /\ w \notin T
    <3>1. w \in Ones
        BY <1>1
    <3> QED
        BY <3>1, OneIs, BelowNot
  <2> HIDE DEF T
  <2>2. IsFiniteSet(all) /\ Cardinality(all) \in Nat /\ Cardinality(T) \in Nat
    <3>1. T \in SUBSET Ones
        BY <1>1, <2>1
    <3> QED
        BY <1>1, <3>1, OnesFinite
  <2>3. Cardinality(T) <= Cardinality(all) /\ (Cardinality(all) = Cardinality(T) => all = T)
      BY <2>1, <2>2, FS_Subset
  <2>4. Cardinality(T) < Cap
      BY <1>1, <2>1, <2>2, <2>3, CapNat
  <2> QED
      BY <2>4 DEF T
<1>3. Collected(prefix) = {w \in all : Cardinality({v \in all : Below(Spelling[v], Spelling[w])}) < Cap}
    BY DEF Collected, Visited, all
<1> QED
    BY <1>2, <1>3 DEF all


-----------------------------------------------------------------------------
(* What a document scores, and the results of a search.                     *)

LEMMA Products ==
    ASSUME NEW x \in Nat, NEW y \in Nat
    PROVE  x * y \in Nat /\ (x + 1) * y = x * y + y
OBVIOUS

\* The tolerance is a number.
LEMMA TieIs ==
    ASSUME NEW n \in Nat
    PROVE  Tie(n) \in Nat
<1>1. Eps \in Nat /\ 2 * n \in Nat
    BY BoundsNat
<1>2. 2 * n * Eps \in Nat
  <2> DEFINE m == 2 * n
  <2>1. m \in Nat
      BY <1>1
  <2> HIDE DEF m
  <2>2. m * Eps \in Nat
      BY <1>1, <2>1, Products
  <2> QED
      BY <2>2 DEF m
<1> QED
    BY <1>1, <1>2 DEF Tie

LEMMA ScoreIs ==
    ASSUME NEW d \in Docs, NEW w
    PROVE  ScoreOf(d, w) \in Nat
BY ScoresNat DEF ScoreOf

Found(terms) == [doc : Docs, matched : 0 .. Len(terms), score : Nat]

\* A document has a score for all terms, and matches no more than there are.
LEMMA ScoredIs ==
    ASSUME NEW d \in Docs, NEW terms \in Seq(Known)
    PROVE  Scored(d, terms) \in Found(terms)
<1> DEFINE n == Len(terms)
           Hits == {i \in 1 .. n : ScoreOf(d, terms[i]) > 0}
           c == Cardinality(Hits)
           At(i) == ScoreOf(d, terms[i])
           Sum(f) == [i \in 0 .. n |-> IF i = 0 THEN 0 ELSE f[i - 1] + At(i)]
           sum == CHOOSE f : f = Sum(f)
           step == [w \in (1 .. n) \X Nat |-> w[2] + At(w[1])]
<1>1. n \in Nat
    OBVIOUS
<1>2. c \in 0 .. n
  <2>1. Hits \in SUBSET (1 .. n)
      OBVIOUS
  <2> HIDE DEF Hits, n
  <2>2. IsFiniteSet(1 .. n) /\ Cardinality(1 .. n) = n
      BY <1>1, FS_Interval
  <2>3. IsFiniteSet(Hits) /\ Cardinality(Hits) <= n
      BY <2>1, <2>2, FS_Subset
  <2>4. Cardinality(Hits) \in Nat
      BY <2>3, FS_CardinalityType
  <2> QED
      BY <1>1, <2>3, <2>4
<1>3. \A i \in 1 .. n : At(i) \in Nat
    BY ScoreIs
<1>4. Scored(d, terms) =
        [doc |-> d, matched |-> c,
         score |-> IF n > 1 THEN sum[n] * (2 * n + c) ELSE sum[n]]
    BY DEF Scored
<1> HIDE DEF c, n, At
<1>5. step \in Bodies(n, Nat) /\ \A i \in 1 .. n, x \in Nat : step[<<i, x>>] = x + At(i)
    BY <1>3 DEF Bodies
<1> HIDE DEF step
<1>6. PICK f : Runs(f, n, Nat, 0, step)
    BY <1>1, <1>5, LoopExists
<1>7. f \in [0 .. n -> Nat] /\ f[0] = 0 /\ \A i \in 1 .. n : f[i] = step[<<i, f[i - 1]>>]
    BY <1>6 DEF Runs
<1>8. f = Sum(f)
  <2>1. \A i \in 0 .. n : f[i] = IF i = 0 THEN 0 ELSE f[i - 1] + At(i)
    <3> TAKE i \in 0 .. n
    <3>1. i # 0 => i \in 1 .. n /\ f[i - 1] \in Nat
        BY <1>1, <1>7
    <3> QED
        BY <1>5, <1>7, <3>1
  <2> QED
      BY <1>7, <2>1
<1>9. sum = Sum(sum)
  <2> HIDE DEF Sum
  <2> QED
      BY <1>8
<1> HIDE DEF sum
<1>10. \A i \in 0 .. n : sum[i] = IF i = 0 THEN 0 ELSE sum[i - 1] + At(i)
    BY <1>9
<1> DEFINE D == {i \in 0 .. n : sum[i] \in Nat}
<1>11. 0 \in D
    BY <1>1, <1>10
<1>12. ASSUME NEW i \in 1 .. n, i - 1 \in D PROVE i \in D
    BY <1>1, <1>3, <1>10, <1>12
<1> HIDE DEF D
<1>13. n \in D
    BY <1>1, <1>11, <1>12, CountUp
<1>14. sum[n] \in Nat
    BY <1>13 DEF D
<1>15. sum[n] * (2 * n + c) \in Nat
  <2>1. 2 * n + c \in Nat
      BY <1>1, <1>2
  <2> DEFINE x == sum[n]
             y == 2 * n + c
  <2>2. x \in Nat /\ y \in Nat
      BY <1>14, <2>1
  <2> HIDE DEF x, y
  <2>3. x * y \in Nat
      BY <2>2, Products
  <2> QED
      BY <2>3 DEF x, y
<1> QED
    BY <1>2, <1>4, <1>14, <1>15 DEF Found, n

\* The results are finitely many.
LEMMA MatchingIs ==
    ASSUME NEW terms \in Seq(Known)
    PROVE  /\ Matching(terms) \in SUBSET Found(terms)
           /\ Cardinality(Matching(terms)) \in Nat
<1> DEFINE T == {Scored(d, terms) : d \in Docs}
           f == [d \in Docs |-> Scored(d, terms)]
<1>1. T \in SUBSET Found(terms)
    BY ScoredIs
<1>2. f \in Surjection(Docs, T)
    BY DEF Surjection
<1>3. Matching(terms) \in SUBSET T
    BY DEF Matching
<1> HIDE DEF f, T
<1>4. IsFiniteSet(T)
    BY <1>2, FS_Surjection, DocsAreIds
<1>5. IsFiniteSet(Matching(terms))
    BY <1>3, <1>4, FS_Subset
<1> QED
    BY <1>1, <1>3, <1>5, FS_CardinalityType

\* The sorted results are the results, with no neighbours out of order.
Order(s, S, n) ==
    /\ s \in Seq(S) /\ Len(s) = Cardinality(S)
    /\ \A i \in 1 .. Len(s) - 1 : ~Before(s[i + 1], s[i], n)

\* Every order of the results Sorted allows is one in that sense.
LEMMA SortedIs ==
    ASSUME NEW S, Cardinality(S) \in Nat, NEW n, NEW s \in Sorted(S, n)
    PROVE  Order(s, S, n)
<1>1. s \in [1 .. Cardinality(S) -> S]
    BY DEF Sorted, SetToSeqs
<1>2. s \in Seq(S) /\ Len(s) = Cardinality(S)
    BY <1>1
<1>3. \A i \in 1 .. Len(s) - 1 : ~Before(s[i + 1], s[i], n)
    BY DEF Sorted
<1> QED
    BY <1>2, <1>3 DEF Order

\* A later result outscores an earlier one by at most the tolerance for each place
\* between them.
Climbs(s, n) ==
    \A i, j \in DOMAIN s : i < j => s[j].score - s[i].score <= (j - i) * Tie(n)

\* Neighbours rise by at most the tolerance, so places apart by as much for each.
LEMMA OrderClimbs ==
    ASSUME NEW S, \A r \in S : r.score \in Nat, NEW n \in Nat, NEW s, Order(s, S, n)
    PROVE  Climbs(s, n)
<1> DEFINE m == Len(s)
           v(i) == s[i].score
           t == Tie(n)
<1>1. m \in Nat /\ DOMAIN s = 1 .. m /\ \A i \in 1 .. m : s[i] \in S
    BY SeqIs DEF Order
<1>2. t \in Nat /\ \A i \in 1 .. m : v(i) \in Nat
    BY <1>1, TieIs
<1>3. ASSUME NEW i \in 1 .. m - 1 PROVE v(i + 1) - v(i) <= t
  <2>1. ~Before(s[i + 1], s[i], n)
      BY DEF Order
  <2>2. v(i) \in Nat /\ v(i + 1) \in Nat
      BY <1>1, <1>2
  <2>3. v(i + 1) - v(i) > t => v(i + 1) > v(i)
      BY <1>2, <2>2
  <2>4. v(i + 1) - v(i) > t => Before(s[i + 1], s[i], n)
      BY <2>3 DEF Before
  <2> HIDE DEF v, t
  <2> QED
      BY <1>2, <2>1, <2>2, <2>4
<1> HIDE DEF t, v, m
<1>4. ASSUME NEW i \in 1 .. m, NEW j \in 1 .. m, i < j
      PROVE  v(j) - v(i) <= (j - i) * t
  <2> DEFINE D == {k \in 0 .. j - i : v(i + k) - v(i) <= k * t}
  <2>1. 0 \in D
    <3>1. i + 0 = i /\ 0 * t = 0 /\ 0 \in 0 .. j - i /\ v(i) \in Nat
        BY <1>1, <1>2, <1>4
    <3> QED
        BY <3>1
  <2>2. ASSUME NEW k \in 1 .. j - i, k - 1 \in D PROVE k \in D
    <3> DEFINE l == k - 1
    <3>1. l \in Nat /\ l + 1 = k /\ i + l \in 1 .. m - 1 /\ i + l + 1 = i + k /\ i + k \in 1 .. m
          /\ i + l \in 1 .. m /\ k \in 0 .. j - i
        BY <1>1, <1>4
    <3>2. v(i + l) - v(i) <= l * t
        BY <2>2
    <3> HIDE DEF l, D
    <3>3. v(i + k) - v(i + l) <= t
        BY <1>3, <3>1
    <3>4. (l + 1) * t = l * t + t /\ l * t \in Nat
        BY <1>2, <3>1, Products
    <3> DEFINE lt == l * t
    <3>5. lt \in Nat /\ k * t = lt + t /\ v(i + l) - v(i) <= lt
        BY <3>1, <3>2, <3>4
    <3>6. v(i) \in Nat /\ v(i + l) \in Nat /\ v(i + k) \in Nat
        BY <1>2, <3>1
    <3> HIDE DEF lt
    <3>7. v(i + k) - v(i) <= lt + t
        BY <1>2, <3>3, <3>5, <3>6
    <3> QED
        BY <3>1, <3>5, <3>7 DEF D
  <2> HIDE DEF D
  <2>3. j - i \in Nat /\ i + (j - i) = j
      BY <1>4
  <2>4. j - i \in D
      BY <2>1, <2>2, <2>3, CountUp
  <2> QED
      BY <2>3, <2>4 DEF D
<1> QED
    BY <1>1, <1>4 DEF Climbs, v, t

-----------------------------------------------------------------------------
(* The invariant: what each phase holds is what the operators make of the   *)
(* request.                                                                 *)

Blank == Result(Null, 1, FALSE)
Terms == Collect(parsed.ast)

ParsedInv == parsed = IF phase \in {"typing", "completed"} THEN Blank ELSE Parse(tokens)

AnsweredInv ==
    IF phase = "answered"
    THEN /\ results \in Sorted(Matching(Terms), Len(Terms))
         /\ meant = DidYouMean(Terms, Cardinality(Matching(Terms)))
    ELSE results = <<>> /\ meant = {}

CompletedInv ==
    IF phase = "completed"
    THEN asked \in [prefix : Asked, limit : Limits] /\ suggestions = Suggest(asked.prefix, asked.limit)
    ELSE suggestions = <<>>

IInv ==
    /\ phase \in {"typing", "parsed", "rejected", "answered", "completed"}
    /\ tokens \in Seq(Tokens) /\ Len(tokens) <= MaxTokens
    /\ ParsedInv /\ AnsweredInv /\ CompletedInv

\* The invariant holds of a first request.
LEMMA InitInv == Init => IInv
<1>1. Init => /\ phase = "typing" /\ tokens = <<>> /\ parsed = Blank
              /\ results = <<>> /\ meant = {} /\ suggestions = <<>>
    BY DEF Init, Blank
<1>2. <<>> \in Seq(Tokens) /\ Len(<<>>) = 0 /\ 0 <= MaxTokens
    BY BoundsNat
<1> QED
    BY <1>1, <1>2 DEF IInv, ParsedInv, AnsweredInv, CompletedInv

\* No step breaks the invariant.
LEMMA NextInv == IInv /\ [Next]_vars => IInv'
<1> SUFFICES ASSUME IInv, [Next]_vars PROVE IInv'
    OBVIOUS
<1>1. ASSUME NEW t \in Tokens, Type(t) PROVE IInv'
  <2>1. phase = "typing" /\ phase' = "typing" /\ Len(tokens) < MaxTokens
        /\ tokens' = Append(tokens, t)
        /\ parsed' = parsed /\ results' = results /\ meant' = meant /\ suggestions' = suggestions
      BY <1>1 DEF Type
  <2>2. tokens' \in Seq(Tokens) /\ Len(tokens') <= MaxTokens
    <3>1. tokens \in Seq(Tokens) /\ Len(tokens) \in Nat /\ MaxTokens \in Nat
        BY BoundsNat DEF IInv
    <3> HIDE DEF IInv
    <3> QED
        BY <2>1, <3>1
  <2>3. parsed = Blank /\ results = <<>> /\ meant = {} /\ suggestions = <<>>
      BY <2>1 DEF IInv, ParsedInv, AnsweredInv, CompletedInv
  <2> QED
      BY <2>1, <2>2, <2>3 DEF IInv, ParsedInv, AnsweredInv, CompletedInv
<1>2. CASE Submit
  <2>1. phase = "typing" /\ phase' \in {"rejected", "parsed"} /\ parsed' = Parse(tokens)
        /\ tokens' = tokens /\ results' = results /\ meant' = meant /\ suggestions' = suggestions
      BY <1>2 DEF Submit
  <2>2. results = <<>> /\ meant = {} /\ suggestions = <<>>
      BY <2>1 DEF IInv, AnsweredInv, CompletedInv
  <2> QED
      BY <2>1, <2>2 DEF IInv, ParsedInv, AnsweredInv, CompletedInv
<1>3. CASE Evaluate
  <2>1. /\ phase = "parsed" /\ phase' = "answered"
        /\ results' \in Sorted(Matching(Terms), Len(Terms))
        /\ meant' = DidYouMean(Terms, Cardinality(Matching(Terms)))
        /\ tokens' = tokens /\ parsed' = parsed /\ suggestions' = suggestions
      BY <1>3 DEF Evaluate, Terms
  <2>2. parsed = Parse(tokens) /\ suggestions = <<>>
      BY <2>1 DEF IInv, ParsedInv, CompletedInv
  <2>3. Terms' = Terms
      BY <2>1 DEF Terms
  <2>4. AnsweredInv'
      BY <2>1, <2>3 DEF AnsweredInv
  <2> QED
      BY <2>1, <2>2, <2>4 DEF IInv, ParsedInv, CompletedInv
<1>4. ASSUME NEW prefix \in Asked, NEW limit \in Limits, Complete(prefix, limit) PROVE IInv'
  <2>1. /\ phase = "typing" /\ phase' = "completed"
        /\ suggestions' = Suggest(prefix, limit) /\ asked' = [prefix |-> prefix, limit |-> limit]
        /\ tokens' = tokens /\ parsed' = parsed /\ results' = results /\ meant' = meant
      BY <1>4 DEF Complete
  <2>2. parsed = Blank /\ results = <<>> /\ meant = {}
      BY <2>1 DEF IInv, ParsedInv, AnsweredInv
  <2>3. CompletedInv'
      BY <2>1 DEF CompletedInv
  <2> QED
      BY <2>1, <2>2, <2>3 DEF IInv, ParsedInv, AnsweredInv
<1>5. CASE Again
  <2>1. /\ phase' = "typing" /\ tokens' = <<>> /\ parsed' = Blank
        /\ results' = <<>> /\ meant' = {} /\ suggestions' = <<>>
      BY <1>5 DEF Again, Blank
  <2>2. <<>> \in Seq(Tokens) /\ Len(<<>>) = 0 /\ 0 <= MaxTokens
      BY BoundsNat
  <2> QED
      BY <2>1, <2>2 DEF IInv, ParsedInv, AnsweredInv, CompletedInv
<1>6. CASE UNCHANGED vars
    BY <1>6 DEF vars, IInv, ParsedInv, AnsweredInv, CompletedInv, Terms
<1> QED
    BY <1>1, <1>2, <1>3, <1>4, <1>5, <1>6 DEF Next

\* In every state parsed is what was read of the tokens.
LEMMA ParsedReads ==
    ASSUME IInv
    PROVE  Reads(tokens, 1, parsed)
<1>1. tokens \in Seq(Tokens) /\ 1 \in 1 .. Len(tokens) + 1
    BY DEF IInv
<1>2. CASE parsed = Parse(tokens)
    BY <1>1, <1>2, ParseReads
<1>3. CASE parsed = Blank
  <2>1. Holds(tokens, 1, 1, Null)
      BY <1>1, HoldsNothing
  <2>2. parsed.ast = Null /\ parsed.pos = 1
      BY <1>3 DEF Blank, Result
  <2>3. parsed \in Outcomes(tokens)
    <3>1. Null \in Seq(Nodes)
        BY DEF Null
    <3> QED
        BY <1>1, <1>3, <3>1 DEF Blank, Result, Outcomes
  <2> QED
      BY <2>1, <2>2, <2>3 DEF Reads
<1> QED
    BY <1>2, <1>3 DEF IInv, ParsedInv

\* The terms searched for are known words, at most two for each token read.
LEMMA TermsAre ==
    ASSUME IInv
    PROVE  /\ Terms \in Seq(Known) /\ Len(Terms) \in 0 .. 2 * MaxTokens
           /\ parsed.pos \in 1 .. Len(tokens) + 1 /\ parsed.error \in BOOLEAN
<1>1. parsed \in Outcomes(tokens) /\ Holds(tokens, 1, parsed.pos, parsed.ast)
    BY ParsedReads DEF Reads
<1>2. parsed.ast \in Seq(Nodes) /\ parsed.pos \in 1 .. Len(tokens) + 1 /\ parsed.error \in BOOLEAN
    BY <1>1 DEF Outcomes
<1>3. Terms \in Seq(Known)
    BY <1>2, CollectBoth DEF Terms
<1>4. Len(Terms) <= 2 * (parsed.pos - 1)
    BY <1>1 DEF Holds, Terms
<1> DEFINE l == Len(tokens)
           n == Len(Terms)
           q == parsed.pos
<1>5. l \in Nat /\ l <= MaxTokens /\ MaxTokens \in Nat /\ n \in Nat
    BY <1>3, BoundsNat DEF IInv
<1>6. q \in 1 .. l + 1 /\ n <= 2 * (q - 1)
    BY <1>2, <1>4
<1> HIDE DEF l, n, q
<1>7. n \in 0 .. 2 * MaxTokens
    BY <1>5, <1>6
<1> QED
    BY <1>2, <1>3, <1>7 DEF n

\* The words searched for are those of the query.
LEMMA InvNoWordDropped == IInv => NoWordDropped
<1> SUFFICES ASSUME IInv, phase \in {"parsed", "answered"},
                    \A i \in DOMAIN tokens : tokens[i] # "quote"
             PROVE  FlattenSeq([i \in DOMAIN Terms |-> Counted(Terms[i])])
                       = FlattenSeq([i \in 1 .. parsed.pos - 1 |-> Spoken(tokens[i])])
    BY DEF NoWordDropped, Terms
<1>1. Holds(tokens, 1, parsed.pos, parsed.ast) /\ Plain(tokens)
    BY ParsedReads DEF Reads, Plain
<1>2. Real(Terms) = Said(tokens, 1, parsed.pos)
    BY <1>1 DEF Holds, Terms
<1>3. Real(Terms) = FlattenSeq([i \in DOMAIN Terms |-> Counted(Terms[i])])
    BY DEF Real, Counts
<1>4. Speech(tokens, 1, parsed.pos) = [i \in 1 .. parsed.pos - 1 |-> Spoken(tokens[i])]
  <2> DEFINE n == parsed.pos - 1
             say(j) == Spoken(tokens[j])
  <2>1. [i \in 1 .. n |-> say(1 + i - 1)] = [i \in 1 .. n |-> say(i)]
    <3>1. \A i \in 1 .. n : 1 + i - 1 = i
        OBVIOUS
    <3> HIDE DEF say, n
    <3> QED
        BY <3>1
  <2> QED
      BY <2>1 DEF Speech
<1> QED
    BY <1>2, <1>3, <1>4 DEF Said

\* The sorted results are typed and rise by no more than the tolerance.
LEMMA InvRanked == IInv => Ranked
<1> SUFFICES ASSUME IInv PROVE Ranked
    OBVIOUS
<1> DEFINE n == Len(Terms)
           S == Matching(Terms)
           R == [doc : Docs, matched : 0 .. 2 * MaxTokens, score : Nat]
<1>1. Terms \in Seq(Known) /\ n \in 0 .. 2 * MaxTokens /\ MaxTokens \in Nat
    BY TermsAre, BoundsNat
<1>2. S \in SUBSET R /\ Cardinality(S) \in Nat
  <2>1. S \in SUBSET Found(Terms) /\ Cardinality(S) \in Nat
      BY <1>1, MatchingIs
  <2>2. 0 .. n \in SUBSET (0 .. 2 * MaxTokens)
    <3> HIDE DEF n
    <3> QED
        BY <1>1
  <2> HIDE DEF S
  <2> QED
      BY <2>1, <2>2 DEF Found
<1>3. results \in Seq(R) /\ Climbs(results, n)
  <2>1. CASE phase = "answered"
    <3>1. results \in Sorted(S, n)
        BY <2>1 DEF IInv, AnsweredInv
    <3> HIDE DEF S, n
    <3>2. Order(results, S, n)
        BY <1>2, <3>1, SortedIs
    <3>3. results \in Seq(R)
      <4> HIDE DEF R
      <4> QED
          BY <1>2, <3>2 DEF Order
    <3>4. n \in Nat /\ \A r \in S : r.score \in Nat
        BY <1>1, <1>2
    <3>5. Climbs(results, n)
        BY <3>2, <3>4, OrderClimbs
    <3> QED
        BY <3>3, <3>5
  <2>2. CASE phase # "answered"
    <3>1. results = <<>>
        BY <2>2 DEF IInv, AnsweredInv
    <3> QED
        BY <3>1 DEF Climbs
  <2> QED
      BY <2>1, <2>2
<1>4. meant \subseteq DOMAIN Frequency
  <2> DEFINE list == Suggest(<<>>, Considered)
  <2>1. \A i \in DOMAIN list : list[i] \in DOMAIN Frequency
    <3>1. Offers(list, Collected(<<>>), Considered) /\ Collected(<<>>) \in SUBSET Ones
        BY SuggestIs, CollectedIs, BoundsNat
    <3> HIDE DEF list
    <3>2. list \in Seq(Collected(<<>>))
        BY <3>1 DEF Offers
    <3> QED
        BY <3>1, <3>2, SeqIs DEF Ones
  <2>2. \A terms, count : DidYouMean(terms, count) \subseteq DOMAIN Frequency
    <3> TAKE terms, count
    <3> DEFINE dist == [i \in DOMAIN list |->
                          Bounded(Spelling[terms[1]], Spelling[list[i]], MaxDistance)]
               near == {i \in DOMAIN list :
                          dist[i] <= MaxDistance /\ \A j \in DOMAIN list : dist[i] <= dist[j]}
    <3>1. DidYouMean(terms, count) =
             IF count >= Threshold \/ terms = <<>> \/ near = {} THEN {} ELSE {list[Min(near)]}
        BY DEF DidYouMean
    <3>2. near \subseteq DOMAIN list
        OBVIOUS
    <3>3. DOMAIN list \subseteq Nat
      <4>1. Offers(list, Collected(<<>>), Considered)
          BY SuggestIs, BoundsNat
      <4> HIDE DEF list
      <4> QED
          BY <4>1 DEF Offers
    <3> HIDE DEF near, list
    <3>4. near # {} => Min(near) \in near
        BY <3>2, <3>3, MinIs
    <3> QED
        BY <2>1, <3>1, <3>2, <3>4
  <2> QED
      BY <2>2 DEF IInv, AnsweredInv
<1>5. suggestions \in Seq(DOMAIN Frequency)
  <2>1. CASE phase = "completed"
    <3> DEFINE list == Suggest(asked.prefix, asked.limit)
    <3>1. suggestions = list /\ asked.limit \in Nat
        BY <2>1, BoundsNat DEF IInv, CompletedInv
    <3>2. Offers(list, Collected(asked.prefix), asked.limit) /\ Collected(asked.prefix) \in SUBSET Ones
        BY <3>1, SuggestIs, CollectedIs
    <3> HIDE DEF list
    <3>3. list \in Seq(Collected(asked.prefix))
        BY <3>2 DEF Offers
    <3> QED
        BY <3>1, <3>2, <3>3 DEF Ones
  <2>2. CASE phase # "completed"
      BY <2>2 DEF IInv, CompletedInv
  <2> QED
      BY <2>1, <2>2
<1>6. TypeOK
    BY <1>3, <1>4, <1>5, TermsAre DEF TypeOK, IInv
<1> QED
    BY <1>3, <1>6 DEF Ranked, Climbs, Terms

\* The words looked at are in the order of their ranks: an earlier one is better.
LEMMA OffersBetter ==
    ASSUME NEW list, NEW S \in SUBSET Ones, NEW limit, Offers(list, S, limit),
           NEW i \in 1 .. Len(list), NEW j \in 1 .. Len(list)
    PROVE  /\ list[i] \in S /\ list[j] \in S
           /\ i < j => Better(list[i], list[j])
           /\ list[i] = list[j] => i = j
<1>1. /\ Len(list) \in Nat /\ list[i] \in S /\ Rank(S, list[i]) = i - 1
      /\ list[j] \in S /\ Rank(S, list[j]) = j - 1
    BY DEF Offers
<1>2. i < j => Rank(S, list[i]) < Rank(S, list[j])
    BY <1>1
<1>3. list[i] = list[j] => i = j
    BY <1>1
<1> QED
    BY <1>1, <1>2, <1>3, RankOrder

\* The first of the nearest of a list of words within a distance, or none.
Chosen(dist, max) ==
    {i \in DOMAIN dist : dist[i] <= max /\ \A j \in DOMAIN dist : dist[i] <= dist[j]}

\* It is within the distance, none is nearer, and none before it is as near.
LEMMA FirstOfNearest ==
    ASSUME NEW n \in Nat, NEW dist \in [1 .. n -> Nat], NEW max \in Nat
    PROVE  LET m == Min(Chosen(dist, max))
           IN  IF \A i \in 1 .. n : dist[i] > max THEN Chosen(dist, max) = {}
               ELSE /\ Chosen(dist, max) # {} /\ m \in 1 .. n /\ dist[m] <= max
                    /\ \A j \in 1 .. n : dist[m] < dist[j] \/ (dist[m] = dist[j] /\ m <= j)
<1> DEFINE C == Chosen(dist, max)
           m == Min(C)
<1>1. C = {i \in 1 .. n : dist[i] <= max /\ \A j \in 1 .. n : dist[i] <= dist[j]}
    BY DEF Chosen
<1>2. CASE \A i \in 1 .. n : dist[i] > max
  <2>1. \A i \in 1 .. n : ~(dist[i] <= max)
      BY <1>2
  <2> QED
      BY <1>1, <1>2, <2>1
<1>3. CASE ~ \A i \in 1 .. n : dist[i] > max
  <2>1. PICK k \in 1 .. n : dist[k] <= max
      BY <1>3
  <2> DEFINE V == {dist[i] : i \in 1 .. n}
  <2>2. V \in SUBSET Nat /\ dist[k] \in V
      OBVIOUS
  <2>3. Min(V) \in V /\ \A d \in V : Min(V) <= d
    <3> HIDE DEF V
    <3> QED
        BY <2>2, MinIs
  <2>4. PICK l \in 1 .. n : dist[l] = Min(V)
      BY <2>3
  <2>5. \A j \in 1 .. n : dist[l] <= dist[j]
      BY <2>3, <2>4
  <2>6. dist[l] <= max
      BY <2>1, <2>5
  <2>7. l \in C
      BY <1>1, <2>5, <2>6
  <2>8. C \in SUBSET Nat
      BY <1>1
  <2> HIDE DEF C
  <2>9. m \in C /\ \A j \in C : m <= j
      BY <2>7, <2>8, MinIs
  <2> HIDE DEF m
  <2>10. m \in 1 .. n /\ dist[m] <= max /\ \A j \in 1 .. n : dist[m] <= dist[j]
      BY <1>1, <2>9
  <2>11. \A j \in 1 .. n : dist[m] = dist[j] => m <= j
    <3> TAKE j \in 1 .. n
    <3>1. dist[m] = dist[j] => j \in C
        BY <1>1, <2>10
    <3> QED
        BY <2>9, <3>1
  <2>12. \A j \in 1 .. n : dist[m] < dist[j] \/ (dist[m] = dist[j] /\ m <= j)
      BY <2>10, <2>11
  <2> QED
      BY <1>3, <2>7, <2>10, <2>12 DEF C, m
<1> QED
    BY <1>2, <1>3

\* did_you_mean is the nearest of the words looked at, and the best of those.
Considers == Suggest(<<>>, Considered)
Far(terms, w) == Levenshtein(Spelling[terms[1]], Spelling[w])
Close(terms) == {w \in {Considers[i] : i \in DOMAIN Considers} : Far(terms, w) <= MaxDistance}
Nearest(terms, w) ==
    \A v \in Close(terms) \ {w} :
        Far(terms, w) <= Far(terms, v) /\ (Far(terms, w) = Far(terms, v) => Better(w, v))

\* DidYouMean of any terms, by the distance in place of its bounded form.
LEMMA DidYouMeanIs ==
    ASSUME NEW terms \in Seq(Known), NEW count \in Nat
    PROVE  IF terms = <<>> \/ count >= Threshold \/ Close(terms) = {}
           THEN DidYouMean(terms, count) = {}
           ELSE \E w \in Close(terms) : DidYouMean(terms, count) = {w} /\ Nearest(terms, w)
<1> DEFINE list == Considers
           n == Len(list)
           near(i) == Bounded(Spelling[terms[1]], Spelling[list[i]], MaxDistance)
           dist == [i \in DOMAIN list |-> near(i)]
           S == Collected(<<>>)
           C == Chosen(dist, MaxDistance)
           D == DidYouMean(terms, count)
<1>1. D = IF count >= Threshold \/ terms = <<>> \/ C = {} THEN {} ELSE {list[Min(C)]}
    BY DEF DidYouMean, Considers, Chosen
<1>2. Offers(list, S, Considered) /\ S \in SUBSET Ones
    BY SuggestIs, CollectedIs, BoundsNat DEF Considers
<1>3. n \in Nat /\ DOMAIN list = 1 .. n /\ \A i \in 1 .. n : list[i] \in S
  <2>1. list \in Seq(S)
      BY <1>2 DEF Offers
  <2> QED
      BY <2>1, SeqIs
<1>4. CASE count >= Threshold \/ terms = <<>>
    BY <1>1, <1>4
<1>5. CASE ~(count >= Threshold \/ terms = <<>>)
  <2>1. Spelling[terms[1]] \in Seq(Nat)
    <3>1. 1 \in 1 .. Len(terms)
        BY <1>5
    <3>2. terms[1] \in Known
        BY <3>1, SeqIs
    <3> QED
        BY <3>2, LettersNat DEF Known
  <2>2. ASSUME NEW i \in 1 .. n PROVE BoundedRight(Spelling[terms[1]], Spelling[list[i]], MaxDistance)
    <3>1. Spelling[list[i]] \in Seq(Nat)
      <4>1. list[i] \in Ones
          BY <1>2, <1>3
      <4> QED
          BY <4>1, OneIs
    <3> QED
        BY <2>1, <3>1, BoundedIsDistance, BoundsNat
  <2> DEFINE far(i) == Far(terms, list[i])
  <2>3. \A i \in 1 .. n :
          /\ far(i) \in Nat /\ near(i) \in Nat
          /\ far(i) <= MaxDistance => near(i) = far(i)
          /\ far(i) > MaxDistance => near(i) > MaxDistance
      BY <2>2 DEF BoundedRight, Far
  <2>4. \A w : w \in Close(terms) <=> \E i \in 1 .. n : w = list[i] /\ far(i) <= MaxDistance
      BY <1>3 DEF Close
  <2> HIDE DEF near
  <2>5. DOMAIN dist = 1 .. n /\ dist \in [1 .. n -> Nat] /\ \A i \in 1 .. n : dist[i] = near(i)
      BY <1>3, <2>3
  <2> HIDE DEF dist, list, n, far, D
  <2>6. MaxDistance \in Nat
      BY BoundsNat
  <2>10. ASSUME NEW i \in 1 .. n
         PROVE  /\ far(i) <= MaxDistance <=> ~(dist[i] > MaxDistance)
                /\ dist[i] <= MaxDistance => far(i) <= MaxDistance /\ far(i) = dist[i]
    <3>1. /\ far(i) \in Nat /\ dist[i] \in Nat
          /\ far(i) <= MaxDistance => dist[i] = far(i)
          /\ far(i) > MaxDistance => dist[i] > MaxDistance
        BY <2>3, <2>5
    <3> QED
        BY <2>6, <3>1
  <2> DEFINE m == Min(C)
  <2>7. IF \A i \in 1 .. n : dist[i] > MaxDistance THEN C = {}
        ELSE /\ C # {} /\ m \in 1 .. n /\ dist[m] <= MaxDistance
             /\ \A j \in 1 .. n : dist[m] < dist[j] \/ (dist[m] = dist[j] /\ m <= j)
      BY <1>3, <2>5, <2>6, FirstOfNearest
  <2> HIDE DEF C, m
  <2>8. CASE \A i \in 1 .. n : dist[i] > MaxDistance
    <3>1. Close(terms) = {}
        BY <2>4, <2>10, <2>8
    <3>2. D = {}
        BY <1>1, <2>7, <2>8
    <3> QED
        BY <3>1, <3>2 DEF D
  <2>9. CASE ~ \A i \in 1 .. n : dist[i] > MaxDistance
    <3> DEFINE w == list[m]
    <3>1. C # {} /\ m \in 1 .. n /\ dist[m] <= MaxDistance
          /\ \A j \in 1 .. n : dist[m] < dist[j] \/ (dist[m] = dist[j] /\ m <= j)
        BY <2>7, <2>9
    <3>2. far(m) <= MaxDistance /\ far(m) = dist[m]
        BY <2>10, <3>1
    <3>3. w \in Close(terms) /\ Close(terms) # {}
        BY <2>4, <3>1, <3>2
    <3>4. D = {w}
        BY <1>1, <1>5, <3>1 DEF m
    <3>5. ASSUME NEW v \in Close(terms) \ {w}
          PROVE  Far(terms, w) <= Far(terms, v) /\ (Far(terms, w) = Far(terms, v) => Better(w, v))
      <4>1. PICK j \in 1 .. n : v = list[j] /\ far(j) <= MaxDistance
          BY <2>4
      <4>2. far(j) = dist[j] /\ far(j) \in Nat /\ far(m) \in Nat
          BY <2>3, <2>5, <3>1, <4>1
      <4>3. far(m) <= far(j) /\ (far(m) = far(j) => m <= j)
          BY <3>1, <3>2, <4>2
      <4>4. m # j
          BY <3>5, <4>1
      <4>5. far(m) = far(j) => Better(list[m], list[j])
        <5>1. m < j => Better(list[m], list[j])
            BY <1>2, <3>1, OffersBetter DEF n
        <5> QED
            BY <1>3, <3>1, <4>3, <4>4, <5>1
      <4> QED
          BY <4>1, <4>3, <4>5 DEF far
    <3>6. Nearest(terms, w)
        BY <3>5 DEF Nearest
    <3> QED
        BY <1>5, <3>3, <3>4, <3>6 DEF D
  <2> QED
      BY <2>8, <2>9
<1> QED
    BY <1>4, <1>5

\* did_you_mean after a search.
LEMMA InvMeantIsNearest == IInv => MeantIsNearest
<1> SUFFICES ASSUME IInv, phase = "answered" PROVE MeantIsNearest
    BY DEF MeantIsNearest
<1> DEFINE S == Matching(Terms)
<1>1. Terms \in Seq(Known) /\ Cardinality(S) \in Nat
    BY TermsAre, MatchingIs
<1>2. results \in Sorted(S, Len(Terms)) /\ meant = DidYouMean(Terms, Cardinality(S))
    BY DEF IInv, AnsweredInv
<1>3. Len(results) = Cardinality(S)
  <2> HIDE DEF S
  <2> QED
      BY <1>1, <1>2, SortedIs DEF Order
<1> HIDE DEF S
<1>4. IF Terms = <<>> \/ Len(results) >= Threshold \/ Close(Terms) = {} THEN meant = {}
      ELSE \E w \in Close(Terms) : meant = {w} /\ Nearest(Terms, w)
    BY <1>1, <1>2, <1>3, DidYouMeanIs
<1> QED
    BY <1>4 DEF MeantIsNearest, Close, Nearest, Far, Considers, Terms

\* The list offers the best of a set of words.
TopOf(list, all, limit) ==
    LET n == Len(list)
        shown == {list[i] : i \in 1 .. n}
    IN  /\ shown \subseteq all
        /\ n = Cardinality(shown) /\ n = Min({limit, Cardinality(all)})
        /\ \A i \in 2 .. n : Better(list[i - 1], list[i])
        /\ \A w \in all \ shown, v \in shown : Better(v, w)

\* A list by ranks is the best of its set in order, each once.
LEMMA OffersTop ==
    ASSUME NEW all \in SUBSET Ones, NEW limit \in Nat, NEW list, Offers(list, all, limit)
    PROVE  TopOf(list, all, limit)
<1> DEFINE n == Len(list)
           shown == {list[i] : i \in 1 .. n}
<1>1. /\ n \in Nat /\ n = Min({limit, Cardinality(all)})
      /\ \A i \in 1 .. n : list[i] \in all /\ Rank(all, list[i]) = i - 1
    BY DEF Offers
<1>2. shown \subseteq all
    BY <1>1
<1>3. n = Cardinality(shown)
  <2> DEFINE f == [i \in 1 .. n |-> list[i]]
             T == 1 .. n
  <2>1. f \in [T -> shown] /\ \A s \in shown : \E i \in T : f[i] = s
      OBVIOUS
  <2>2. \A i, j \in T : f[i] = f[j] => i = j
    <3>1. \A i, j \in T : list[i] = list[j] => i = j
        BY OffersBetter
    <3> QED
        BY <3>1
  <2>3. IsFiniteSet(T) /\ Cardinality(T) = n
    <3> HIDE DEF n
    <3> QED
        BY <1>1, FS_Interval
  <2> HIDE DEF f, T, shown
  <2>4. f \in Bijection(T, shown)
      BY <2>1, <2>2 DEF Bijection, Injection, IsInjective, Surjection
  <2>5. ExistsBijection(T, shown)
      BY <2>4 DEF ExistsBijection
  <2> QED
      BY <2>3, <2>5, FS_Bijection
<1>4. ASSUME NEW i \in 2 .. n PROVE Better(list[i - 1], list[i])
  <2>1. i - 1 \in 1 .. n /\ i \in 1 .. n /\ i - 1 < i
      BY <1>1
  <2> QED
      BY <2>1, OffersBetter
<1>5. ASSUME NEW w \in all \ shown, NEW v \in shown PROVE Better(v, w)
  <2>1. PICK i \in 1 .. n : v = list[i]
      OBVIOUS
  <2>2. Rank(all, v) = i - 1 /\ v \in all
      BY <1>1, <2>1
  <2> DEFINE r == Rank(all, w)
  <2>3. r \in Nat
    <3>1. w \in all
        OBVIOUS
    <3>2. r \in 0 .. Cardinality(all) - 1 /\ Cardinality(all) \in Nat
        BY <3>1, RankIs, OnesFinite
    <3> HIDE DEF r
    <3> QED
        BY <3>2
  <2> HIDE DEF r
  <2>4. ~(r < n)
    <3> SUFFICES ASSUME r < n PROVE FALSE
        OBVIOUS
    <3> DEFINE k == r + 1
    <3>1. k \in 1 .. n /\ k - 1 = r
        BY <1>1, <2>3
    <3> HIDE DEF k
    <3>2. list[k] \in all /\ Rank(all, list[k]) = r
        BY <1>1, <3>1
    <3>3. list[k] = w
        BY <3>2, RankOnce DEF r
    <3> QED
        BY <3>1, <3>3
  <2>5. Rank(all, v) < Rank(all, w)
      BY <1>1, <2>2, <2>3, <2>4 DEF r
  <2> QED
      BY <2>2, <2>5, RankOrder
<1> QED
    BY <1>1, <1>2, <1>3, <1>4, <1>5 DEF TopOf

\* The suggestions after a suggest request.
LEMMA InvSuggestTop == IInv => SuggestTop
<1> DEFINE all == Completions(asked.prefix)
<1> SUFFICES ASSUME IInv, phase = "completed", Cardinality(all) <= Cap
             PROVE  TopOf(suggestions, all, asked.limit)
    BY DEF SuggestTop, TopOf
<1>1. asked.limit \in Nat /\ suggestions = Suggest(asked.prefix, asked.limit)
    BY BoundsNat DEF IInv, CompletedInv
<1>2. Collected(asked.prefix) = all /\ all \in SUBSET Ones
    BY AllCollected, CollectedIs
<1>3. Offers(suggestions, all, asked.limit)
    BY <1>1, <1>2, SuggestIs
<1> HIDE DEF all
<1> QED
    BY <1>1, <1>2, <1>3, OffersTop

-----------------------------------------------------------------------------

\* Every reachable state is as the parser, the evaluator and the walk of the trie
\* leave it.
LEMMA Invariant == Spec => []IInv
<1> QED
    BY InitInv, NextInv, PTL DEF Spec

\* query_parse and collect_query_terms, for any tokens, nesting depth and length
\* of the query: an accepted query loses no word before the point where parsing
\* stopped, and its words are searched for in their order.
THEOREM NoWordIsDropped == Spec => []NoWordDropped
<1> QED
    BY Invariant, InvNoWordDropped, PTL

\* query_evaluate and sort_search_results, for any documents and scores and
\* however qsort breaks ties that do not chain: the state is typed, and a later
\* result outscores an earlier one by at most the tolerance for each place between.
THEOREM ResultsAreRanked == Spec => []Ranked
<1> QED
    BY Invariant, InvRanked, PTL

\* The suggestion loop of query_evaluate, with levenshtein_distance_bounded for
\* its distance: did_you_mean is the nearest of the words considered, the most
\* frequent of those as near, and there is one exactly when it is called for.
THEOREM MeantIsTheNearest == Spec => []MeantIsNearest
<1> QED
    BY Invariant, InvMeantIsNearest, PTL

\* trie_suggest, for any words, counts, prefix and limit: as long as the walk
\* keeps all completions, the suggestions are the most frequent ones in order.
THEOREM SuggestionsAreTop == Spec => []SuggestTop
<1> QED
    BY Invariant, InvSuggestTop, PTL
=============================================================================
