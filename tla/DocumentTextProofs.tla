------------------------- MODULE DocumentTextProofs -------------------------
(***************************************************************************)
(* Proofs about DocumentText for pages of any length made of any pieces:   *)
(* every round of the scanner's loop makes progress, a tame page gives its *)
(* fields and its visible text, the tokens are the words of the fields at  *)
(* their places, and the snippet of any query is a stretch of the text     *)
(* with the right words marked.                                            *)
(***************************************************************************)
EXTENDS DocumentText, FiniteSetTheorems, WellFoundedInduction, TLAPS

\* Where the scan is, it has taken at least one piece a round.
Progress ==
    /\ page \in Pages
    /\ p \in 1 .. Len(page) + 1
    /\ steps \in Nat /\ steps < p

-----------------------------------------------------------------------------

\* A set of numbers that is not empty has a least one.
LEMMA MinIs ==
    ASSUME NEW S \in SUBSET Nat, S # {}
    PROVE  Min(S) \in S /\ \A j \in S : Min(S) <= j
<1>1. \E i \in S : \A j \in S : ~(<<j, i>> \in OpToRel(<, Nat))
    BY NatLessThanWellFounded, WFMin
<1>2. PICK i \in S : \A j \in S : ~(<<j, i>> \in OpToRel(<, Nat))
    BY <1>1
<1>3. \A j \in S : ~(j < i)
    BY <1>2 DEF OpToRel
<1>4. \A j \in S : i <= j
    BY <1>3
<1> QED
    BY <1>4 DEF Min

LEMMA FirstIsLeast ==
    ASSUME NEW S \in SUBSET Nat, S # {}
    PROVE  First(S) \in S /\ \A j \in S : First(S) <= j
BY MinIs DEF First, Min

\* After takes the scan forward, and not past the end.
LEMMA AfterForward ==
    ASSUME NEW n \in Nat, n = Len(page), p \in 1 .. n,
           NEW S \in SUBSET (p + 1 .. n)
    PROVE  After(S) \in p + 1 .. n + 1
<1>1. CASE S = {}
    BY <1>1 DEF After
<1>2. CASE S # {}
  <2>1. S \in SUBSET Nat
      OBVIOUS
  <2>2. First(S) \in p + 1 .. n
      BY <1>2, <2>1, FirstIsLeast
  <2> QED
      BY <1>2, <2>2 DEF After
<1> QED
    BY <1>1, <1>2

LEMMA PageLength ==
    ASSUME Progress
    PROVE  Len(page) \in Nat
<1>1. PICK n \in 0 .. MaxPieces : page \in [1 .. n -> Pieces]
    BY DEF Progress, Pages
<1> QED
    BY <1>1, MaxPiecesNat

LEMMA InitInd == Init => Progress
<1> SUFFICES ASSUME Init PROVE Progress
    OBVIOUS
<1>1. PICK n \in 0 .. MaxPieces : page \in [1 .. n -> Pieces]
    BY DEF Init, ScanInit, Pages
<1>2. Len(page) \in Nat
    BY <1>1, MaxPiecesNat
<1> QED
    BY <1>2 DEF Init, ScanInit, Progress

\* Every branch of the loop moves the position forward.
LEMMA ScanForward ==
    ASSUME Progress, ScanStep
    PROVE  page' = page /\ p' \in p + 1 .. Len(page) + 1
<1> DEFINE n == Len(page)
<1>1. n \in Nat
    BY PageLength
<1>2. p \in 1 .. n
  <2>1. \E kind \in Kinds : Here(kind)
      BY DEF ScanStep, Comment, StrayLess, RawTag, Title, Heading, Meta, OtherTag, Text,
             HereTag, Kinds
  <2> QED
      BY <1>1, <2>1 DEF Progress, Here
<1>3. \A kinds : Later(kinds) \subseteq p + 1 .. n
    BY DEF Later
<1>4. Closers \subseteq p + 1 .. n
    BY <1>3 DEF Closers
<1> HIDE DEF n
<1>5. CASE Comment
    BY <1>1, <1>2, <1>3, <1>5, AfterForward DEF Comment, CommentEnd, n
<1>6. CASE StrayLess
    BY <1>1, <1>2, <1>3, <1>6, AfterForward DEF StrayLess, n
<1>7. CASE Title
  <2>1. After(Closers) \in p + 1 .. Len(page) + 1
      BY <1>1, <1>2, <1>4, AfterForward DEF n
  <2> QED
      BY <1>1, <1>2, <1>7, <2>1 DEF Title, AfterTitle, n
<1>8. CASE RawTag \/ Heading \/ Meta \/ OtherTag \/ Text
  <2>1. page' = page /\ p' = p + 1
      BY <1>8 DEF RawTag, Heading, Meta, OtherTag, Text
  <2> QED
      BY <1>1, <1>2, <2>1 DEF n
<1> QED
    BY <1>5, <1>6, <1>7, <1>8 DEF ScanStep

LEMMA NextInd == Progress /\ [Next]_vars => Progress'
<1> SUFFICES ASSUME Progress, [Next]_vars PROVE Progress'
    OBVIOUS
<1>1. CASE ScanStep
  <2>1. page' = page /\ p' \in p + 1 .. Len(page) + 1 /\ steps' = steps + 1
      BY <1>1, ScanForward DEF ScanStep
  <2>2. Len(page) \in Nat
      BY PageLength
  <2> QED
      BY <2>1, <2>2 DEF Progress
<1>2. CASE Finish \/ Tokenize \/ (\E terms \in Queries : Show(terms)) \/ UNCHANGED vars
  <2>1. UNCHANGED <<page, p, steps>>
      BY <1>2 DEF Finish, Tokenize, Show, vars, scanVars
  <2> QED
      BY <2>1 DEF Progress
<1> QED
    BY <1>1, <1>2 DEF Next, Scan

\* html_parse_document ends on any page: its loop runs at most once per piece.
THEOREM ScanIsLinear == Spec => []LinearScan
<1>1. Progress => LinearScan
    BY PageLength DEF Progress, LinearScan
<1> QED
    BY <1>1, InitInd, NextInd, PTL DEF Spec

-----------------------------------------------------------------------------
(* Counting and loops.                                                      *)

\* Counting up to n, the step from each number to the next reaches all of them.
LEMMA CountUp ==
    ASSUME NEW n \in Nat, NEW S, 0 \in S, \A i \in 1 .. n : i - 1 \in S => i \in S
    PROVE  n \in S /\ \A i \in 0 .. n : i \in S
<1> DEFINE Missed == (0 .. n) \ S
<1>1. SUFFICES ASSUME Missed # {} PROVE FALSE
    OBVIOUS
<1>2. Missed \in SUBSET Nat
    OBVIOUS
<1> DEFINE m == Min(Missed)
<1>3. m \in Missed /\ \A j \in Missed : m <= j
  <2> HIDE DEF Missed
  <2> QED
      BY <1>1, <1>2, MinIs
<1> HIDE DEF m
<1>4. m \in 1 .. n
    BY <1>3
<1>5. m - 1 \in 0 .. n /\ ~(m <= m - 1)
    BY <1>4
<1>6. m - 1 \in S
    BY <1>3, <1>5
<1> QED
    BY <1>3, <1>4, <1>6

\* A function of finitely many numbers has a greatest value.
LEMMA Greatest ==
    ASSUME NEW n \in Nat, NEW S \in SUBSET (1 .. n), S # {}, NEW f \in [S -> Nat]
    PROVE  \E i \in S : \A j \in S : f[j] <= f[i]
<1> DEFINE D == {m \in 0 .. n : \/ S \cap (1 .. m) = {}
                                \/ \E i \in S \cap (1 .. m) : \A j \in S \cap (1 .. m) : f[j] <= f[i]}
<1>1. 0 \in D
    OBVIOUS
<1>2. ASSUME NEW m \in 1 .. n, m - 1 \in D PROVE m \in D
  <2>1. CASE m \notin S
    <3>1. S \cap (1 .. m) = S \cap (1 .. m - 1)
        BY <2>1
    <3> QED
        BY <1>2, <3>1
  <2>2. CASE m \in S
    <3>1. S \cap (1 .. m) = (S \cap (1 .. m - 1)) \cup {m}
        BY <2>2
    <3>2. CASE S \cap (1 .. m - 1) = {}
        BY <2>2, <3>1, <3>2
    <3>3. CASE S \cap (1 .. m - 1) # {}
      <4>1. PICK i \in S \cap (1 .. m - 1) : \A j \in S \cap (1 .. m - 1) : f[j] <= f[i]
          BY <1>2, <3>3
      <4>2. CASE f[m] <= f[i]
          BY <3>1, <4>1, <4>2
      <4>3. CASE ~(f[m] <= f[i])
        <5>1. \A j \in S \cap (1 .. m) : f[j] <= f[m]
            BY <2>2, <3>1, <4>1, <4>3
        <5> QED
            BY <2>2, <3>1, <5>1
      <4> QED
          BY <4>2, <4>3
    <3> QED
        BY <3>2, <3>3
  <2> QED
      BY <2>1, <2>2
<1>3. n \in 0 .. n /\ S \cap (1 .. n) = S
  <2>1. n \in 0 .. n
      OBVIOUS
  <2>2. \A i \in S : i \in 1 .. n
      OBVIOUS
  <2> HIDE DEF D
  <2>3. S \cap (1 .. n) = S
      BY <2>2, Zenon
  <2> QED
      BY <2>1, <2>3
<1> HIDE DEF D
<1>4. n \in D
    BY <1>1, <1>2, <1>3, CountUp
<1>5. S \cap (1 .. n) = {} \/ \E i \in S \cap (1 .. n) : \A j \in S \cap (1 .. n) : f[j] <= f[i]
    BY <1>4 DEF D
<1> QED
    BY <1>3, <1>5

LEMMA MaxIs ==
    ASSUME NEW n \in Nat, NEW S \in SUBSET (1 .. n), S # {}
    PROVE  Max(S) \in S /\ \A j \in S : j <= Max(S)
<1> DEFINE f == [i \in S |-> i]
<1>1. f \in [S -> Nat]
    OBVIOUS
<1>2. \E i \in S : \A j \in S : f[j] <= f[i]
  <2> HIDE DEF f
  <2> QED
      BY <1>1, Greatest
<1>3. \E i \in S : \A j \in S : i >= j
    BY <1>2
<1>4. Max(S) \in S /\ \A j \in S : Max(S) >= j
    BY <1>3 DEF Max
<1> QED
    BY <1>4

\* A loop of n rounds whose body takes states of S to states of S, and the states
\* it has after each round.
Bodies(n, S) == [(1 .. n) \X S -> S]
Runs(f, n, S, e, step) ==
    f \in [0 .. n -> S] /\ f[0] = e /\ \A i \in 1 .. n : f[i] = step[<<i, f[i - 1]>>]

LEMMA LoopExists ==
    ASSUME NEW n \in Nat, NEW S, NEW e \in S, NEW step \in Bodies(n, S)
    PROVE  \E f : Runs(f, n, S, e, step)
<1> DEFINE Goes(f, m) == Runs(f, m, S, e, step)
           D == {m \in 0 .. n : \E f : Goes(f, m)}
<1>1. 0 \in D
  <2> DEFINE f == [i \in 0 .. 0 |-> e]
  <2>1. f \in [0 .. 0 -> S] /\ f[0] = e
      OBVIOUS
  <2> HIDE DEF f
  <2>2. Goes(f, 0)
      BY <2>1 DEF Runs
  <2> HIDE DEF Goes
  <2> QED
      BY <2>2
<1>2. ASSUME NEW m \in 1 .. n, m - 1 \in D PROVE m \in D
  <2>1. PICK f : Goes(f, m - 1)
      BY <1>2
  <2> DEFINE g == [i \in 0 .. m |-> IF i = m THEN step[<<m, f[m - 1]>>] ELSE f[i]]
  <2>2. m - 1 \in 0 .. m - 1 /\ f[m - 1] \in S
      BY <2>1 DEF Runs
  <2>3. step[<<m, f[m - 1]>>] \in S
      BY <2>2 DEF Bodies
  <2>4. g \in [0 .. m -> S]
    <3>0. \A i \in 0 .. m - 1 : f[i] \in S
        BY <2>1 DEF Runs
    <3>1. \A i \in 0 .. m : i # m => i \in 0 .. m - 1
        OBVIOUS
    <3> QED
        BY <2>3, <3>0, <3>1
  <2>5. g[0] = e
      BY <2>1 DEF Runs
  <2>6. ASSUME NEW i \in 1 .. m PROVE g[i] = step[<<i, g[i - 1]>>]
    <3>1. i - 1 \in 0 .. m /\ i - 1 # m
        OBVIOUS
    <3>2. g[i - 1] = f[i - 1]
        BY <3>1
    <3>3. CASE i = m
      <4>1. m \in 0 .. m
          OBVIOUS
      <4>2. g[m] = step[<<m, f[m - 1]>>]
          BY <4>1
      <4> HIDE DEF g
      <4> QED
          BY <3>2, <3>3, <4>2
    <3>4. CASE i # m
      <4>1. i \in 1 .. m - 1 /\ i \in 0 .. m
          BY <3>4
      <4>2. g[i] = f[i]
          BY <3>4, <4>1
      <4>3. f[i] = step[<<i, f[i - 1]>>]
          BY <2>1, <4>1 DEF Runs
      <4> QED
          BY <3>2, <4>2, <4>3
    <3> QED
        BY <3>3, <3>4
  <2> HIDE DEF g
  <2>7. Goes(g, m)
      BY <2>4, <2>5, <2>6 DEF Runs
  <2> HIDE DEF Goes
  <2> QED
      BY <2>7
<1>3. n \in 0 .. n
    OBVIOUS
<1> HIDE DEF D
<1>4. n \in D
    BY <1>1, <1>2, <1>3, CountUp
<1> QED
    BY <1>4 DEF D

-----------------------------------------------------------------------------
(* Where the snippet begins.                                                *)

LEMMA WindowIs ==
    ASSUME NEW V, NEW text \in Seq(V), NEW i \in 1 .. Len(text) + 1
    PROVE  /\ WindowAt(text, i) \in Nat /\ WindowAt(text, i) <= Window
           /\ i + WindowAt(text, i) - 1 <= Len(text)
<1>1. Window \in Nat /\ Len(text) \in Nat /\ Len(text) - i + 1 \in Nat
    BY RoomForMarks
<1> DEFINE S == {Window, Len(text) - i + 1}
<1>2. S \in SUBSET Nat /\ S # {}
    BY <1>1
<1>3. Min(S) \in S /\ \A j \in S : Min(S) <= j
  <2> HIDE DEF S
  <2> QED
      BY <1>2, MinIs
<1>4. WindowAt(text, i) = Min(S)
    BY DEF WindowAt
<1> DEFINE m == Min(S)
<1>5. (m = Window \/ m = Len(text) - i + 1) /\ m <= Window /\ m <= Len(text) - i + 1
    BY <1>3
<1> HIDE DEF m
<1>6. m \in Nat /\ m <= Window /\ i + m - 1 <= Len(text)
    BY <1>1, <1>5
<1> QED
    BY <1>4, <1>6 DEF m

LEMMA OccurrencesNat ==
    ASSUME NEW text, NEW from \in Nat, NEW n \in Nat, NEW V, NEW term \in Seq(V)
    PROVE  Occurrences(text, from, n, term) \in Nat
<1> DEFINE S == [count : Nat, next : Int]
           e == [count |-> 0, next |-> from]
           Turn(st, k) == IF from + k - 1 >= st.next /\ At(text, from + k - 1, term)
                          THEN [count |-> st.count + 1, next |-> from + k - 1 + Len(term)] ELSE st
           step == [w \in (1 .. n) \X S |-> Turn(w[2], w[1])]
           Found(f) == [k \in 0 .. n |-> IF k = 0 THEN e ELSE Turn(f[k - 1], k)]
           found == CHOOSE f : f = Found(f)
<1>1. Occurrences(text, from, n, term) = found[n].count
    BY DEF Occurrences
<1>2. e \in S
    OBVIOUS
<1>3. \A k \in 1 .. n, st \in S : Turn(st, k) \in S
    OBVIOUS
<1> HIDE DEF S, e, Turn
<1>4. step \in Bodies(n, S)
    BY <1>3 DEF Bodies
<1>5. \A k \in 1 .. n, st \in S : step[<<k, st>>] = Turn(st, k)
    OBVIOUS
<1> HIDE DEF step
<1>6. PICK f : Runs(f, n, S, e, step)
    BY <1>2, <1>4, LoopExists
<1>7. \A k \in 1 .. n : k - 1 \in 0 .. n /\ f[k - 1] \in S
    BY <1>6 DEF Runs
<1>8. \A k \in 0 .. n : f[k] = IF k = 0 THEN e ELSE Turn(f[k - 1], k)
    BY <1>5, <1>6, <1>7 DEF Runs
<1>9. f = Found(f)
    BY <1>6, <1>8 DEF Runs
<1> HIDE DEF Found
<1>10. found = Found(found)
    BY <1>9
<1> HIDE DEF found
<1>11. \A k \in 0 .. n : found[k] = IF k = 0 THEN e ELSE Turn(found[k - 1], k)
    BY <1>10 DEF Found
<1> DEFINE D == {k \in 0 .. n : found[k] \in S}
<1>12. 0 \in D
    BY <1>2, <1>11
<1>13. \A k \in 1 .. n : k - 1 \in D => k \in D
    BY <1>3, <1>11
<1> HIDE DEF D
<1>14. n \in D
    BY <1>12, <1>13, CountUp
<1> QED
    BY <1>1, <1>14 DEF D, S

LEMMA MatchesNat ==
    ASSUME NEW V, NEW text \in Seq(V), NEW i \in 1 .. Len(text), NEW terms \in Seq(Seq(V))
    PROVE  Matches(text, i, terms) \in Nat
<1> DEFINE n == Len(terms)
           Count(k) == Occurrences(text, i, WindowAt(text, i), terms[k])
           step == [w \in (1 .. n) \X Nat |-> w[2] + Count(w[1])]
           Summed(f) == [k \in 0 .. n |-> IF k = 0 THEN 0 ELSE f[k - 1] + Count(k)]
           sum == CHOOSE f : f = Summed(f)
<1>1. Matches(text, i, terms) = sum[n]
    BY DEF Matches
<1>2. n \in Nat /\ 0 \in Nat
    OBVIOUS
<1>3. \A k \in 1 .. n : Count(k) \in Nat
  <2>1. WindowAt(text, i) \in Nat
      BY WindowIs
  <2>2. i \in Nat /\ \A k \in 1 .. n : terms[k] \in Seq(V)
      OBVIOUS
  <2> QED
      BY <2>1, <2>2, OccurrencesNat
<1> HIDE DEF n, Count
<1>4. step \in Bodies(n, Nat)
    BY <1>2, <1>3 DEF Bodies
<1>5. \A k \in 1 .. n, st \in Nat : step[<<k, st>>] = st + Count(k)
    OBVIOUS
<1> HIDE DEF step
<1>6. PICK f : Runs(f, n, Nat, 0, step)
    BY <1>2, <1>4, LoopExists
<1>7. \A k \in 1 .. n : k - 1 \in 0 .. n /\ f[k - 1] \in Nat
    BY <1>2, <1>6 DEF Runs
<1>8. \A k \in 0 .. n : f[k] = IF k = 0 THEN 0 ELSE f[k - 1] + Count(k)
  <2>1. \A k \in 0 .. n : k = 0 \/ k \in 1 .. n
      BY <1>2
  <2>2. f[0] = 0
      BY <1>6 DEF Runs
  <2>3. \A k \in 1 .. n : f[k] = f[k - 1] + Count(k)
    <3>1. \A k \in 1 .. n : f[k] = step[<<k, f[k - 1]>>]
        BY <1>6 DEF Runs
    <3> QED
        BY <1>5, <1>7, <3>1
  <2>4. \A k \in 1 .. n : k # 0
      BY <1>2
  <2> QED
      BY <2>1, <2>2, <2>3, <2>4
<1>9. f = Summed(f)
    BY <1>6, <1>8 DEF Runs
<1> HIDE DEF Summed
<1>10. sum = Summed(sum)
    BY <1>9
<1> HIDE DEF sum
<1>11. \A k \in 0 .. n : sum[k] = IF k = 0 THEN 0 ELSE sum[k - 1] + Count(k)
    BY <1>10 DEF Summed
<1> DEFINE D == {k \in 0 .. n : sum[k] \in Nat}
<1>12. 0 \in D
    BY <1>2, <1>11
<1>13. \A k \in 1 .. n : k - 1 \in D => k \in D
    BY <1>3, <1>11
<1> HIDE DEF D
<1>14. n \in D
    BY <1>2, <1>12, <1>13, CountUp
<1> QED
    BY <1>1, <1>14 DEF D

\* A window is chosen, also when several have the most occurrences.
LEMMA BestIs ==
    ASSUME NEW V, NEW text \in Seq(V), NEW terms \in Seq(Seq(V))
    PROVE  BestStart(text, terms) \in 1 .. Len(text) \/ BestStart(text, terms) = 1
<1> SUFFICES ASSUME text # <<>> PROVE BestStart(text, terms) \in 1 .. Len(text)
    BY DEF BestStart
<1> DEFINE n == Len(text)
           starts == {i \in DOMAIN text : (i - 1) % Stride = 0}
           M(i) == Matches(text, i, terms)
           best == {i \in starts : \A j \in starts : M(j) <= M(i)}
           f == [i \in starts |-> M(i)]
<1>1. n \in Nat /\ 1 \in 1 .. n /\ DOMAIN text = 1 .. n
    OBVIOUS
<1>2. starts \in SUBSET (1 .. n) /\ starts # {}
  <2>1. (1 - 1) % Stride = 0
      BY RoomForMarks
  <2> QED
      BY <1>1, <2>1
<1>3. \A i \in 1 .. n : M(i) \in Nat
    BY MatchesNat
<1>4. BestStart(text, terms) = IF M(Min(best)) = 0 THEN 1 ELSE Min(best)
    BY DEF BestStart
<1> HIDE DEF starts, M, n
<1>5. f \in [starts -> Nat]
    BY <1>2, <1>3
<1>6. \E i \in starts : \A j \in starts : f[j] <= f[i]
  <2> HIDE DEF f
  <2> QED
      BY <1>1, <1>2, <1>5, Greatest
<1>7. best # {}
    BY <1>6
<1>8. best \in SUBSET Nat
  <2>1. best \subseteq starts /\ starts \subseteq 1 .. n
      BY <1>2
  <2> HIDE DEF best
  <2> QED
      BY <1>1, <2>1
<1>9. Min(best) \in best
  <2> HIDE DEF best
  <2> QED
      BY <1>7, <1>8, MinIs
<1>10. Min(best) \in 1 .. n
    BY <1>2, <1>9
<1> HIDE DEF best
<1> QED
    BY <1>1, <1>4, <1>10 DEF n

\* A snippet begins with the text or behind a blank.
LEMMA StartIs ==
    ASSUME NEW V, NEW text \in Seq(V), NEW terms \in Seq(Seq(V))
    PROVE  /\ Start(text, terms) \in 1 .. Len(text) + 1
           /\ Start(text, terms) > 1 => text[Start(text, terms) - 1] = " "
<1> DEFINE best == BestStart(text, terms)
           spaces == {k \in 1 .. best : text[k] = " "}
<1>1. Len(text) \in Nat
    OBVIOUS
<1>2. best \in 1 .. Len(text) \/ best = 1
    BY BestIs
<1>3. Start(text, terms) = IF best = 1 \/ spaces = {} THEN 1 ELSE Max(spaces) + 1
    BY DEF Start
<1> HIDE DEF best
<1> HIDE DEF spaces
<1>4. CASE best = 1 \/ spaces = {}
  <2>1. Start(text, terms) = 1
      BY <1>3, <1>4
  <2> QED
      BY <1>1, <2>1
<1>5. CASE ~(best = 1 \/ spaces = {})
  <2>1. best \in 1 .. Len(text)
      BY <1>2, <1>5
  <2>8. best \in Nat
      BY <2>1
  <2>2. spaces \in SUBSET (1 .. best) /\ spaces # {}
      BY <1>5 DEF spaces
  <2>3. Max(spaces) \in spaces
      BY <2>8, <2>2, MaxIs
  <2> DEFINE last == Max(spaces)
  <2>4. last \in 1 .. best /\ text[last] = " "
      BY <2>3 DEF spaces
  <2>5. Start(text, terms) = last + 1
      BY <1>3, <1>5
  <2> HIDE DEF last
  <2>6. last \in 1 .. Len(text)
    <3> DEFINE n == Len(text)
    <3>1. n \in Nat /\ best \in 1 .. n /\ last \in 1 .. best
        BY <1>1, <2>1, <2>4
    <3> HIDE DEF n
    <3>2. last \in 1 .. n
        BY <3>1
    <3> QED
        BY <3>2 DEF n
  <2>10. (last + 1) - 1 = last /\ last + 1 > 1
      BY <2>6
  <2>7. last + 1 \in 1 .. Len(text) + 1
      BY <1>1, <2>6
  <2> QED
      BY <2>4, <2>5, <2>10, <2>7
<1> QED
    BY <1>4, <1>5

-----------------------------------------------------------------------------
(* What the output loop marks.                                              *)

Place == [place : Nat, marked : BOOLEAN]
States == [next : Nat, used : Nat, shown : Seq(Place)]
AreTerms(terms) ==
    /\ terms \in Seq(Seq(WordChars))
    /\ \A k \in DOMAIN terms : Len(terms[k]) >= 2 /\ terms[k][1] = "x"
ArePlain(terms) == \A k \in DOMAIN terms : \A j \in DOMAIN terms[k] : terms[k][j] = "x"

\* The terms that are marked at i, and the length of the first of them.
Hits(raw, terms, i) == {k \in DOMAIN terms : Marked(raw, i, terms[k])}
HitLength(raw, terms, i) == Len(terms[Min(Hits(raw, terms, i))])
Stretch(i, n) == [k \in 1 .. n |-> [place |-> i + k - 1, marked |-> TRUE]]

LEMMA HitIs ==
    ASSUME NEW raw, NEW terms, AreTerms(terms), NEW i, Hits(raw, terms, i) # {}
    PROVE  /\ \E k \in DOMAIN terms :
                Marked(raw, i, terms[k]) /\ HitLength(raw, terms, i) = Len(terms[k])
           /\ HitLength(raw, terms, i) \in Nat /\ HitLength(raw, terms, i) >= 2
<1> DEFINE H == Hits(raw, terms, i)
           k == Min(H)
<1>1. terms \in Seq(Seq(WordChars)) /\ DOMAIN terms \subseteq Nat
    BY DEF AreTerms
<1>2. H \in SUBSET Nat /\ H # {}
    BY <1>1 DEF Hits
<1>3. k \in H
  <2> HIDE DEF H
  <2> QED
      BY <1>2, MinIs
<1>4. HitLength(raw, terms, i) = Len(terms[k])
    BY DEF HitLength
<1> HIDE DEF k
<1>5. k \in DOMAIN terms /\ Marked(raw, i, terms[k])
    BY <1>3 DEF Hits
<1>6. terms[k] \in Seq(WordChars) /\ Len(terms[k]) >= 2
    BY <1>1, <1>5 DEF AreTerms
<1>7. Len(terms[k]) \in Nat
    BY <1>6
<1> QED
    BY <1>4, <1>5, <1>6, <1>7

LEMMA EmitIs ==
    ASSUME NEW raw, NEW terms, NEW room, NEW st, NEW i
    PROVE  LET n == HitLength(raw, terms, i) IN
           Emit(raw, terms, room, st, i) =
                IF i < st.next THEN st
                ELSE IF Hits(raw, terms, i) = {}
                THEN IF st.used + 1 < room
                     THEN [next |-> st.next, used |-> st.used + 1,
                           shown |-> Append(st.shown, [place |-> i, marked |-> FALSE])]
                     ELSE st
                ELSE IF st.used + n + 16 < room
                THEN [next |-> i + n, used |-> st.used + n + MarksLength,
                      shown |-> st.shown \o Stretch(i, n)]
                ELSE [st EXCEPT !.next = i + n]
    BY DEF Emit, Hits, HitLength, Stretch

LEMMA EmitType ==
    ASSUME NEW raw, NEW terms, AreTerms(terms), NEW room, NEW st \in States, NEW i \in Nat \ {0}
    PROVE  Emit(raw, terms, room, st, i) \in States
<1> DEFINE n == HitLength(raw, terms, i)
           one == [place |-> i, marked |-> FALSE]
           many == Stretch(i, n)
<1>1. st = [next |-> st.next, used |-> st.used, shown |-> st.shown]
      /\ st.next \in Nat /\ st.used \in Nat /\ st.shown \in Seq(Place)
    BY DEF States
<1>2. Append(st.shown, one) \in Seq(Place)
  <2>1. one \in Place
      BY DEF Place
  <2> HIDE DEF one
  <2> QED
      BY <1>1, <2>1
<1>3. CASE i < st.next \/ (Hits(raw, terms, i) = {} /\ ~(st.used + 1 < room))
    BY <1>3, EmitIs
<1>4. CASE ~(i < st.next) /\ Hits(raw, terms, i) = {} /\ st.used + 1 < room
  <2>1. Emit(raw, terms, room, st, i) =
            [next |-> st.next, used |-> st.used + 1, shown |-> Append(st.shown, one)]
      BY <1>4, EmitIs
  <2> HIDE DEF one
  <2> QED
      BY <1>1, <1>2, <2>1 DEF States
<1>5. CASE ~(i < st.next) /\ Hits(raw, terms, i) # {}
  <2>1. n \in Nat
      BY <1>5, HitIs
  <2> HIDE DEF n
  <2>2. \A k \in 1 .. n : [place |-> i + k - 1, marked |-> TRUE] \in Place
      BY <2>1 DEF Place
  <2>3. many \in Seq(Place)
      BY <2>1, <2>2 DEF Stretch
  <2> HIDE DEF many
  <2>4. st.shown \o many \in Seq(Place)
      BY <1>1, <2>3
  <2>5. CASE st.used + n + 16 < room
    <3>1. Emit(raw, terms, room, st, i) =
            [next |-> i + n, used |-> st.used + n + MarksLength, shown |-> st.shown \o many]
        BY <1>5, <2>5, EmitIs DEF n, many
    <3> QED
        BY <1>1, <2>1, <2>4, <3>1 DEF States, MarksLength
  <2>6. CASE ~(st.used + n + 16 < room)
    <3>1. Emit(raw, terms, room, st, i) = [st EXCEPT !.next = i + n]
        BY <1>5, <2>6, EmitIs DEF n
    <3> QED
        BY <1>1, <2>1, <3>1 DEF States
  <2> QED
      BY <2>5, <2>6
<1> QED
    BY <1>3, <1>4, <1>5

\* A stretch from a to b that is the end of a word and a term.
Ending(raw, terms, a, b) ==
    /\ \A k \in a .. b : raw[k] = "x"
    /\ b = Len(raw) \/ raw[b + 1] \notin Continues
    /\ \E k \in DOMAIN terms : SubSeq(raw, a, b) = terms[k]

LEMMA WordEndIs ==
    ASSUME NEW V, NEW raw \in Seq(V), NEW terms, NEW i
    PROVE  WordEnd(raw, terms, i) <=>
              \E a, b \in 1 .. Len(raw) : a <= i /\ i <= b /\ Ending(raw, terms, a, b)
<1>1. DOMAIN raw = 1 .. Len(raw)
    OBVIOUS
<1>2. ASSUME WordEnd(raw, terms, i)
      PROVE  \E a, b \in 1 .. Len(raw) : a <= i /\ i <= b /\ Ending(raw, terms, a, b)
  <2>1. PICK w \in (DOMAIN raw) \X (DOMAIN raw) :
            Ending(raw, terms, w[1], w[2]) /\ w[1] <= i /\ i <= w[2]
      BY <1>2 DEF WordEnd, Ending
  <2>2. w[1] \in 1 .. Len(raw) /\ w[2] \in 1 .. Len(raw)
      BY <1>1
  <2> QED
      BY <2>1, <2>2
<1>3. ASSUME NEW a \in 1 .. Len(raw), NEW b \in 1 .. Len(raw), a <= i, i <= b,
             Ending(raw, terms, a, b)
      PROVE  WordEnd(raw, terms, i)
  <2> DEFINE w == <<a, b>>
  <2>1. w \in (DOMAIN raw) \X (DOMAIN raw) /\ w[1] = a /\ w[2] = b
      BY <1>1, <1>3
  <2> HIDE DEF w
  <2> QED
      BY <1>3, <2>1 DEF WordEnd, Ending
<1> QED
    BY <1>2, <1>3

\* What is marked at i begins with a letter and runs to the end of a word; and is
\* one, if the terms are plain.
LEMMA HitEnds ==
    ASSUME NEW V, NEW raw \in Seq(V), NEW terms, AreTerms(terms), NEW i \in 1 .. Len(raw),
           Hits(raw, terms, i) # {}
    PROVE  LET b == i + HitLength(raw, terms, i) - 1 IN
           /\ b \in i + 1 .. Len(raw) /\ raw[i] = "x"
           /\ b = Len(raw) \/ raw[b + 1] \notin Continues
           /\ ArePlain(terms) => Ending(raw, terms, i, b)
<1> DEFINE n == HitLength(raw, terms, i)
           b == i + n - 1
           L == Len(raw)
<1>1. PICK k \in DOMAIN terms : Marked(raw, i, terms[k]) /\ n = Len(terms[k])
    BY HitIs
<1>2. n \in Nat /\ n >= 2
    BY HitIs
<1>3. L \in Nat
    OBVIOUS
<1>4. terms[k] \in Seq(WordChars) /\ terms[k][1] = "x"
    BY <1>1 DEF AreTerms
<1> HIDE DEF n
<1>5. /\ i + n - 1 <= L /\ SubSeq(raw, i, i + n - 1) = terms[k]
      /\ i + n > L \/ raw[i + n] \notin Continues
    BY <1>1 DEF Marked, At
<1>6. b \in i + 1 .. L
  <2> HIDE DEF L
  <2> QED
      BY <1>2, <1>3, <1>5 DEF L
<1>7. ASSUME NEW q \in 1 .. n PROVE raw[i + q - 1] = terms[k][q]
  <2>1. q \in 1 .. b - i + 1
      BY <1>2
  <2>2. SubSeq(raw, i, b)[q] = raw[i + q - 1]
      BY <1>6, <2>1
  <2> QED
      BY <1>5, <2>2
<1>8. raw[i] = "x"
  <2>1. 1 \in 1 .. n /\ i + 1 - 1 = i
      BY <1>2
  <2> QED
      BY <1>4, <1>7, <2>1
<1>9. b = L \/ raw[b + 1] \notin Continues
  <2>1. b + 1 = i + n
      BY <1>2
  <2>2. i + n > L => b = L
    <3> HIDE DEF L
    <3>1. i \in Int /\ b <= L
        BY <1>5
    <3> QED
        BY <1>2, <1>3, <3>1
  <2> HIDE DEF b, L
  <2> QED
      BY <1>5, <2>1, <2>2
<1>10. ASSUME ArePlain(terms) PROVE Ending(raw, terms, i, b)
  <2>1. \A j \in i .. b : raw[j] = "x"
    <3> SUFFICES ASSUME NEW j \in i .. b PROVE raw[j] = "x"
        OBVIOUS
    <3> DEFINE q == j - i + 1
    <3>1. q \in 1 .. n /\ i + q - 1 = j
        BY <1>2
    <3>2. q \in DOMAIN terms[k]
        BY <1>1, <1>4, <3>1
    <3> HIDE DEF q
    <3>3. terms[k][q] = "x"
        BY <1>10, <3>2 DEF ArePlain
    <3> QED
        BY <1>7, <3>1, <3>3
  <2> QED
      BY <1>5, <1>9, <2>1 DEF Ending
<1> QED
    BY <1>6, <1>8, <1>9, <1>10 DEF n

\* A term that ends a word is marked where it begins.
LEMMA EndingHit ==
    ASSUME NEW V, NEW raw \in Seq(V), NEW terms, NEW a \in 1 .. Len(raw), NEW b \in a .. Len(raw),
           Ending(raw, terms, a, b)
    PROVE  Hits(raw, terms, a) # {}
<1>1. PICK k \in DOMAIN terms : SubSeq(raw, a, b) = terms[k]
    BY DEF Ending
<1>2. Len(terms[k]) = b - a + 1
    BY <1>1
<1>3. a + Len(terms[k]) - 1 = b /\ a + Len(terms[k]) = b + 1
    BY <1>2
<1>4. At(raw, a, terms[k])
    BY <1>1, <1>3 DEF At
<1>5. a + Len(terms[k]) > Len(raw) \/ raw[a + Len(terms[k])] \notin Continues
    BY <1>3 DEF Ending
<1>6. Marked(raw, a, terms[k])
    BY <1>4, <1>5 DEF Marked
<1> QED
    BY <1>6 DEF Hits

\* The output after i rounds: it has reached i, or the end of what was marked last;
\* each place so far is marked as it should be for plain terms, and the room taken is at most four
\* characters a place, and three more behind a mark.
MarkedLast(st) == Len(st.shown) > 0 /\ st.shown[Len(st.shown)].marked

Reached(raw, st, i) ==
    /\ st \in States
    /\ st.next <= Len(raw) + 1
    /\ Len(st.shown) = IF st.next > i + 1 THEN st.next - 1 ELSE i

IsMarked(st, raw, terms, k) ==
    ArePlain(terms) => (st.shown[k].marked <=> WordEnd(raw, terms, k))

Shape(raw, terms, st, i) ==
    /\ Reached(raw, st, i)
    /\ \A k \in 1 .. Len(st.shown) :
        st.shown[k].place = k /\ IsMarked(st, raw, terms, k)
    /\ MarkedLast(st) => Len(st.shown) = Len(raw) \/ raw[Len(st.shown) + 1] \notin Continues
    /\ st.used <= 4 * Len(st.shown) + 3 + (IF MarkedLast(st) THEN 3 ELSE 0)

OutCap(raw) == 3 * Len(raw) + Slack

\* A place where nothing is marked.
LEMMA ShapePlain ==
    ASSUME NEW V, NEW raw \in Seq(V), NEW terms, AreTerms(terms), Len(raw) <= Window,
           NEW i \in 1 .. Len(raw), NEW st, Shape(raw, terms, st, i - 1),
           ~(i < st.next), Hits(raw, terms, i) = {}
    PROVE  Shape(raw, terms, Emit(raw, terms, OutCap(raw), st, i), i)
<1> DEFINE one == [place |-> i, marked |-> FALSE]
           new == [next |-> st.next, used |-> st.used + 1, shown |-> Append(st.shown, one)]
           L == Len(raw)
<1>1. st \in States /\ st.next \in Nat /\ st.used \in Nat /\ st.shown \in Seq(Place)
    BY DEF Shape, Reached, States
<1>2. L \in Nat /\ i \in 1 .. L
    OBVIOUS
<1>3. st.next <= i /\ Len(st.shown) = i - 1 /\ st.next <= L + 1
    BY <1>1, <1>2 DEF Shape, Reached
<1>4. st.used <= 4 * (i - 1) + 6
    BY <1>1, <1>2, <1>3 DEF Shape
<1>5. st.used + 1 < OutCap(raw)
  <2> HIDE DEF L
  <2>1. OutCap(raw) = 3 * L + Slack /\ L <= Window
      BY DEF OutCap, L
  <2> QED
      BY <1>1, <1>2, <1>4, <2>1, RoomForMarks
<1>6. Emit(raw, terms, OutCap(raw), st, i) = new
    BY <1>5, EmitIs
<1>7. new \in States
  <2>1. Emit(raw, terms, OutCap(raw), st, i) \in States
      BY <1>1, EmitType
  <2> HIDE DEF new
  <2> QED
      BY <1>6, <2>1
<1>8. one \in Place
    BY DEF Place
<1> HIDE DEF one
<1>9. /\ Len(new.shown) = i /\ new.shown[i] = one
      /\ \A k \in 1 .. i - 1 : new.shown[k] = st.shown[k]
    BY <1>1, <1>2, <1>3, <1>8
<1>10. new.next = st.next /\ new.used = st.used + 1
    OBVIOUS
<1> HIDE DEF new
<1>11. Reached(raw, new, i)
  <2>1. ~(new.next > i + 1) /\ new.next <= L + 1
      BY <1>1, <1>2, <1>3, <1>10
  <2> QED
      BY <1>7, <1>9, <2>1 DEF Reached
<1>12. one.place = i /\ one.marked = FALSE
    BY DEF one
<1>13. ArePlain(terms) => ~WordEnd(raw, terms, i)
  <2> SUFFICES ASSUME ArePlain(terms), WordEnd(raw, terms, i) PROVE FALSE
      OBVIOUS
  <2>1. PICK a, b \in 1 .. L : a <= i /\ i <= b /\ Ending(raw, terms, a, b)
      BY WordEndIs
  <2>2. CASE a = i
    <3>1. b \in i .. L
        BY <2>1
    <3> QED
        BY <1>2, <2>1, <2>2, <3>1, EndingHit
  <2>3. CASE a # i
    <3>1. /\ i - 1 \in 1 .. i - 1 /\ i - 1 > 0 /\ i - 1 # L
          /\ a <= i - 1 /\ i - 1 <= b /\ (i - 1) + 1 = i
        BY <1>2, <2>1, <2>3
    <3>2. WordEnd(raw, terms, i - 1)
        BY <2>1, <3>1, WordEndIs
    <3>3. MarkedLast(st)
        BY <1>3, <3>1, <3>2 DEF Shape, IsMarked, MarkedLast
    <3>4. raw[i] \notin Continues
        BY <1>3, <3>1, <3>3 DEF Shape
    <3>5. raw[i] = "x"
        BY <1>2, <2>1 DEF Ending
    <3> QED
        BY <3>4, <3>5 DEF Continues
  <2> QED
      BY <2>2, <2>3
<1>14. ASSUME NEW k \in 1 .. Len(new.shown)
       PROVE  new.shown[k].place = k /\ IsMarked(new, raw, terms, k)
  <2>1. CASE k = i
      BY <1>9, <1>12, <1>13, <2>1 DEF IsMarked
  <2>2. CASE k # i
    <3>1. k \in 1 .. i - 1
        BY <1>2, <1>9, <2>2
    <3>2. st.shown[k].place = k /\ IsMarked(st, raw, terms, k)
        BY <1>3, <3>1 DEF Shape
    <3> QED
        BY <1>9, <3>1, <3>2 DEF IsMarked
  <2> QED
      BY <2>1, <2>2
<1>15. ~MarkedLast(new)
    BY <1>9, <1>12 DEF MarkedLast
<1>16. new.used <= 4 * Len(new.shown) + 3
    BY <1>1, <1>2, <1>4, <1>9, <1>10
<1>17. Shape(raw, terms, new, i)
    BY <1>11, <1>14, <1>15, <1>16 DEF Shape
<1> QED
    BY <1>6, <1>17

\* The places of two sequences one behind the other.
LEMMA Joined ==
    ASSUME NEW S, NEW a \in Seq(S), NEW b \in Seq(S)
    PROVE  /\ Len(a \o b) = Len(a) + Len(b)
           /\ \A k \in 1 .. Len(a) : (a \o b)[k] = a[k]
           /\ \A k \in Len(a) + 1 .. Len(a) + Len(b) : (a \o b)[k] = b[k - Len(a)]
    OBVIOUS

LEMMA ShapeHit ==
    ASSUME NEW V, NEW raw \in Seq(V), NEW terms, AreTerms(terms), Len(raw) <= Window,
           NEW i \in 1 .. Len(raw), NEW st, Shape(raw, terms, st, i - 1),
           ~(i < st.next), Hits(raw, terms, i) # {}
    PROVE  Shape(raw, terms, Emit(raw, terms, OutCap(raw), st, i), i)
<1> DEFINE n == HitLength(raw, terms, i)
           many == Stretch(i, n)
           new == [next |-> i + n, used |-> st.used + n + MarksLength, shown |-> st.shown \o many]
           L == Len(raw)
           b == i + n - 1
<1>1. st \in States /\ st.next \in Nat /\ st.used \in Nat /\ st.shown \in Seq(Place)
    BY DEF Shape, Reached, States
<1>2. L \in Nat /\ i \in 1 .. L
    OBVIOUS
<1>3. st.next <= i /\ Len(st.shown) = i - 1
    BY <1>1, <1>2 DEF Shape, Reached
<1>4. /\ n \in Nat /\ n >= 2 /\ b \in i + 1 .. L /\ raw[i] = "x"
      /\ b = L \/ raw[b + 1] \notin Continues
    BY HitIs, HitEnds
<1>23. ArePlain(terms) => Ending(raw, terms, i, b)
    BY HitEnds
<1>5. ~MarkedLast(st)
  <2> SUFFICES ASSUME MarkedLast(st) PROVE FALSE
      OBVIOUS
  <2>1. i - 1 # L /\ (i - 1) + 1 = i /\ i \in i .. b
      BY <1>2, <1>4
  <2>2. raw[i] \notin Continues
      BY <1>3, <2>1 DEF Shape
  <2> QED
      BY <1>4, <2>2 DEF Continues
<1>6. st.used <= 4 * (i - 1) + 3
    BY <1>1, <1>2, <1>3, <1>5 DEF Shape
<1> HIDE DEF n
<1>7. st.used + n + 16 < OutCap(raw)
  <2> HIDE DEF L
  <2>1. OutCap(raw) = 3 * L + Slack /\ L <= Window /\ i + n - 1 <= L
      BY <1>2, <1>4 DEF OutCap, L
  <2> QED
      BY <1>1, <1>2, <1>4, <1>6, <2>1, RoomForMarks
<1>8. Emit(raw, terms, OutCap(raw), st, i) = new
    BY <1>7, EmitIs DEF n
<1>9. new \in States
  <2>1. Emit(raw, terms, OutCap(raw), st, i) \in States
      BY <1>1, EmitType
  <2> HIDE DEF new
  <2> QED
      BY <1>8, <2>1
<1>10. \A k \in 1 .. n : [place |-> i + k - 1, marked |-> TRUE] \in Place
    BY <1>2, <1>4 DEF Place
<1>11. many \in Seq(Place) /\ Len(many) = n
  <2>1. many = [k \in 1 .. n |-> many[k]] /\ \A k \in 1 .. n : many[k] \in Place
      BY <1>10 DEF Stretch
  <2> HIDE DEF many
  <2>2. many \in [1 .. n -> Place]
      BY <2>1
  <2> QED
      BY <1>4, <2>2
<1>12. \A k \in 1 .. n : many[k].place = i + k - 1 /\ many[k].marked = TRUE
    BY DEF Stretch
<1> HIDE DEF many
<1>13. Len(new.shown) = b
  <2>1. Len(st.shown \o many) = Len(st.shown) + Len(many)
      BY <1>1, <1>11, Joined
  <2>2. (i - 1) + n = b
      BY <1>2, <1>4
  <2>3. new.shown = st.shown \o many
      OBVIOUS
  <2> HIDE DEF new, b
  <2> QED
      BY <1>3, <1>11, <2>1, <2>2, <2>3
<1>14. \A k \in 1 .. i - 1 : new.shown[k] = st.shown[k]
    BY <1>1, <1>3, <1>11, Joined
<1>15. \A k \in i .. b : new.shown[k] = many[k - i + 1]
  <2> SUFFICES ASSUME NEW k \in i .. b PROVE new.shown[k] = many[k - i + 1]
      OBVIOUS
  <2>1. k \in Len(st.shown) + 1 .. Len(st.shown) + Len(many) /\ k - Len(st.shown) = k - i + 1
      BY <1>2, <1>3, <1>4, <1>11
  <2>2. (st.shown \o many)[k] = many[k - Len(st.shown)]
      BY <1>1, <1>11, <2>1, Joined
  <2> QED
      BY <2>1, <2>2
<1>16. new.next = i + n /\ new.used = st.used + n + 9
    BY DEF MarksLength
<1> HIDE DEF new
<1>17. Reached(raw, new, i)
  <2>1. new.next <= Len(raw) + 1
      BY <1>2, <1>4, <1>16
  <2>2. Len(new.shown) = IF new.next > i + 1 THEN new.next - 1 ELSE i
      BY <1>2, <1>4, <1>13, <1>16
  <2> QED
      BY <1>9, <2>1, <2>2 DEF Reached
<1>18. ASSUME NEW k \in 1 .. Len(new.shown)
       PROVE  new.shown[k].place = k /\ IsMarked(new, raw, terms, k)
  <2>1. CASE k < i
    <3>1. k \in 1 .. i - 1
        BY <1>2, <2>1
    <3>2. st.shown[k].place = k /\ IsMarked(st, raw, terms, k)
        BY <1>3, <3>1 DEF Shape
    <3> QED
        BY <1>14, <3>1, <3>2 DEF IsMarked
  <2>2. CASE ~(k < i)
    <3>1. k \in i .. b
        BY <1>2, <1>4, <1>13, <2>2
    <3>2. k - i + 1 \in 1 .. n /\ i + (k - i + 1) - 1 = k
        BY <1>2, <1>4, <3>1
    <3>3. new.shown[k].place = k /\ new.shown[k].marked = TRUE
        BY <1>12, <1>15, <3>1, <3>2
    <3>4. i \in 1 .. L /\ b \in 1 .. L /\ i <= k /\ k <= b
        BY <1>2, <1>4, <3>1
    <3>5. ArePlain(terms) => WordEnd(raw, terms, k)
        BY <1>23, <3>4, WordEndIs
    <3> QED
        BY <3>3, <3>5 DEF IsMarked
  <2> QED
      BY <2>1, <2>2
<1>19. Len(new.shown) = Len(raw) \/ raw[Len(new.shown) + 1] \notin Continues
    BY <1>4, <1>13
<1>20. MarkedLast(new)
  <2>1. b \in i .. b /\ b > 0 /\ b - i + 1 \in 1 .. n
      BY <1>2, <1>4
  <2> QED
      BY <1>12, <1>13, <1>15, <2>1 DEF MarkedLast
<1>21. new.used <= 4 * Len(new.shown) + 3 + 3
    BY <1>1, <1>2, <1>4, <1>6, <1>13, <1>16
<1>22. Shape(raw, terms, new, i)
    BY <1>17, <1>18, <1>19, <1>20, <1>21 DEF Shape
<1> QED
    BY <1>8, <1>22

LEMMA ShapeStep ==
    ASSUME NEW V, NEW raw \in Seq(V), NEW terms, AreTerms(terms), Len(raw) <= Window,
           NEW i \in 1 .. Len(raw), NEW st, Shape(raw, terms, st, i - 1)
    PROVE  Shape(raw, terms, Emit(raw, terms, OutCap(raw), st, i), i)
<1>1. CASE i < st.next
  <2>1. Emit(raw, terms, OutCap(raw), st, i) = st
      BY <1>1, EmitIs
  <2>2. st.next \in Nat
      BY DEF Shape, Reached, States
  <2>3. Reached(raw, st, i)
    <3>1. Len(st.shown) = st.next - 1
        BY <1>1, <2>2 DEF Shape, Reached
    <3>2. st.next > i + 1 \/ st.next - 1 = i
        BY <1>1, <2>2
    <3> QED
        BY <3>1, <3>2 DEF Shape, Reached
  <2>4. Shape(raw, terms, st, i)
      BY <2>3 DEF Shape
  <2> QED
      BY <2>1, <2>4
<1>2. CASE ~(i < st.next) /\ Hits(raw, terms, i) = {}
    BY <1>2, ShapePlain
<1>3. CASE ~(i < st.next) /\ Hits(raw, terms, i) # {}
    BY <1>3, ShapeHit
<1> QED
    BY <1>1, <1>2, <1>3

\* The whole loop.
LEMMA OutputIs ==
    ASSUME NEW V, NEW raw \in Seq(V), NEW terms, AreTerms(terms), Len(raw) <= Window,
           NEW used \in 0 .. 3
    PROVE  Shape(raw, terms, Output(raw, terms, OutCap(raw), used), Len(raw))
<1> DEFINE n == Len(raw)
           e == [next |-> 1, used |-> used, shown |-> <<>>]
           Turn(st, i) == Emit(raw, terms, OutCap(raw), st, i)
           step == [w \in (1 .. n) \X States |-> Turn(w[2], w[1])]
           Out(f) == [i \in 0 .. n |-> IF i = 0 THEN e ELSE Turn(f[i - 1], i)]
           out == CHOOSE f : f = Out(f)
<1>1. Output(raw, terms, OutCap(raw), used) = out[n]
    BY DEF Output
<1>2. n \in Nat
    OBVIOUS
<1>3. e \in States
    BY DEF States
<1>4. \A i \in 1 .. n, st \in States : Turn(st, i) \in States
    BY EmitType
<1>5. ASSUME NEW i \in 1 .. n, NEW st, Shape(raw, terms, st, i - 1)
      PROVE  Shape(raw, terms, Turn(st, i), i)
    BY <1>5, ShapeStep
<1>6. Shape(raw, terms, e, 0)
  <2>1. Len(e.shown) = 0 /\ e.next = 1 /\ e.used = used
      OBVIOUS
  <2> HIDE DEF e
  <2>2. ~MarkedLast(e)
      BY <2>1 DEF MarkedLast
  <2>3. Reached(raw, e, 0)
      BY <1>2, <1>3, <2>1 DEF Reached
  <2> QED
      BY <2>1, <2>2, <2>3 DEF Shape
<1> HIDE DEF n, e, Turn
<1>7. step \in Bodies(n, States)
    BY <1>4 DEF Bodies
<1>8. \A i \in 1 .. n, st \in States : step[<<i, st>>] = Turn(st, i)
    OBVIOUS
<1> HIDE DEF step
<1>9. PICK f : Runs(f, n, States, e, step)
    BY <1>2, <1>3, <1>7, LoopExists
<1>10. \A i \in 1 .. n : i - 1 \in 0 .. n /\ f[i - 1] \in States
    BY <1>2, <1>9 DEF Runs
<1>11. \A i \in 0 .. n : f[i] = IF i = 0 THEN e ELSE Turn(f[i - 1], i)
  <2>1. \A i \in 1 .. n : f[i] = step[<<i, f[i - 1]>>]
      BY <1>9 DEF Runs
  <2>2. f[0] = e
      BY <1>9 DEF Runs
  <2>3. \A i \in 1 .. n : f[i] = Turn(f[i - 1], i)
      BY <1>8, <1>10, <2>1
  <2>4. \A i \in 0 .. n : i = 0 \/ i \in 1 .. n
      BY <1>2
  <2>5. \A i \in 1 .. n : i # 0
      BY <1>2
  <2> QED
      BY <2>2, <2>3, <2>4, <2>5
<1>12. f = Out(f)
    BY <1>9, <1>11 DEF Runs
<1> HIDE DEF Out
<1>13. out = Out(out)
    BY <1>12
<1> HIDE DEF out
<1>14. \A i \in 0 .. n : out[i] = IF i = 0 THEN e ELSE Turn(out[i - 1], i)
    BY <1>13 DEF Out
<1> DEFINE D == {i \in 0 .. n : Shape(raw, terms, out[i], i)}
<1>15. 0 \in D
    BY <1>2, <1>6, <1>14
<1>16. ASSUME NEW i \in 1 .. n, i - 1 \in D PROVE i \in D
  <2>1. i \in 0 .. n /\ i # 0
      BY <1>2
  <2>2. out[i] = Turn(out[i - 1], i)
      BY <1>14, <2>1
  <2>3. Shape(raw, terms, out[i - 1], i - 1)
      BY <1>16
  <2>4. Shape(raw, terms, out[i], i)
      BY <1>5, <2>2, <2>3
  <2> QED
      BY <2>1, <2>4
<1> HIDE DEF D
<1>17. n \in D
    BY <1>2, <1>15, <1>16, CountUp
<1>18. Shape(raw, terms, out[n], n)
    BY <1>17 DEF D
<1> QED
    BY <1>1, <1>18 DEF n

\* A snippet is an unbroken stretch of the text that begins behind a blank, and of
\* plain terms exactly those that end a word are marked in it.
LEMMA SnippetIs ==
    ASSUME NEW V, NEW text \in Seq(V), NEW terms, AreTerms(terms),
           NEW snip, snip = SnippetOf(text, terms)
    PROVE  LET shown == snip.shown
               last == snip.start + Len(shown) - 1
               raw == SubSeq(text, snip.start, last)
           IN  /\ snip.start > 1 => text[snip.start - 1] = " "
               /\ snip.before <=> snip.start > 1
               /\ snip.after <=> last < Len(text)
               /\ snip.start \in 1 .. Len(text) + 1
               /\ Len(shown) = Min({Window, Len(text) - snip.start + 1})
               /\ \A k \in DOMAIN shown : shown[k].place = k
               /\ ArePlain(terms) =>
                    \A k \in DOMAIN shown : shown[k].marked <=> WordEnd(raw, terms, k)
<1> DEFINE start == Start(text, terms)
           w == WindowAt(text, start)
           raw == SubSeq(text, start, start + w - 1)
           used == IF start > 1 THEN DotsLength ELSE 0
           out == Output(raw, terms, OutCap(raw), used)
           n == Len(text)
<1>1. n \in Nat
    OBVIOUS
<1>2. start \in 1 .. n + 1 /\ (start > 1 => text[start - 1] = " ")
  <2>1. terms \in Seq(Seq(V \cup WordChars)) /\ text \in Seq(V \cup WordChars)
      BY DEF AreTerms
  <2> QED
      BY <2>1, StartIs
<1> HIDE DEF start
<1>3. w \in Nat /\ w <= Window /\ start + w - 1 <= n
    BY <1>2, WindowIs
<1>4. snip = [start |-> start, before |-> start > 1, shown |-> out.shown,
              after |-> start + Len(raw) - 1 < Len(text) /\ out.used + 4 < OutCap(raw)]
    BY DEF SnippetOf, OutCap, start
<1> HIDE DEF w
<1>5. raw \in Seq(V) /\ Len(raw) = w
  <2> DEFINE to == start + w - 1
  <2> HIDE DEF n
  <2>1. start \in Nat \ {0} /\ to \in Int /\ to - start + 1 = w /\ to <= n
    <3>4. start \in 1 .. n + 1
        BY <1>2
    <3>5. start \in Nat \ {0}
        BY <1>1, <3>4
    <3>6. w \in Nat
        BY <1>3
    <3>7. start + w - 1 <= n
        BY <1>3
    <3>1. start \in Nat \ {0} /\ w \in Nat /\ start + w - 1 <= n
        BY <3>5, <3>6, <3>7
    <3>2. start + w - 1 \in Int
        BY <3>1
    <3>3. (start + w - 1) - start + 1 = w
        BY <3>1
    <3> QED
        BY <3>1, <3>2, <3>3
  <2> HIDE DEF to
  <2>2. \A j \in start .. to : j \in 1 .. Len(text)
      BY <1>1, <2>1 DEF n
  <2>3. SubSeq(text, start, to) = [j \in 1 .. to - start + 1 |-> text[start + j - 1]]
      BY <2>1, <2>2
  <2>4. SubSeq(text, start, to) = [j \in 1 .. w |-> text[start + j - 1]]
      BY <2>1, <2>3
  <2>5. \A j \in 1 .. w : text[start + j - 1] \in V
    <3> SUFFICES ASSUME NEW j \in 1 .. w PROVE text[start + j - 1] \in V
        OBVIOUS
    <3>1. start + j - 1 \in start .. to
        BY <1>3, <2>1
    <3>2. start + j - 1 \in 1 .. Len(text)
        BY <2>2, <3>1
    <3> QED
        BY <3>2
  <2>6. SubSeq(text, start, to) \in Seq(V) /\ Len(SubSeq(text, start, to)) = w
      BY <1>3, <2>4, <2>5
  <2> QED
      BY <2>6 DEF to
<1>6. used \in 0 .. 3
    BY DEF DotsLength
<1>7. Shape(raw, terms, out, w)
  <2> HIDE DEF raw, used
  <2> QED
      BY <1>3, <1>5, <1>6, OutputIs
<1> HIDE DEF raw, out
<1>8. out \in States /\ Len(out.shown) = w /\ out.used \in Nat
  <2>1. out \in States /\ out.next <= w + 1
        /\ Len(out.shown) = IF out.next > w + 1 THEN out.next - 1 ELSE w
      BY <1>5, <1>7 DEF Shape, Reached
  <2>2. out.next \in Nat /\ out.used \in Nat
      BY <2>1 DEF States
  <2> QED
      BY <1>3, <2>1, <2>2
<1>9. out.used + 4 < OutCap(raw)
  <2>1. out.used <= 4 * w + 6
      BY <1>3, <1>7, <1>8 DEF Shape
  <2>2. OutCap(raw) = 3 * w + Slack
      BY <1>5 DEF OutCap
  <2> QED
      BY <1>3, <1>8, <2>1, <2>2, RoomForMarks
<1>10. /\ snip.start = start /\ snip.before = (start > 1) /\ snip.shown = out.shown
       /\ snip.after = (start + w - 1 < Len(text))
    BY <1>4, <1>5, <1>9
<1>11. w = Min({Window, Len(text) - start + 1})
    BY DEF w, WindowAt
<1>12. raw = SubSeq(text, start, start + Len(out.shown) - 1)
    BY <1>8 DEF raw
<1>13. DOMAIN out.shown = 1 .. Len(out.shown)
    BY <1>8 DEF States
<1>14. \A k \in DOMAIN out.shown :
            /\ out.shown[k].place = k
            /\ ArePlain(terms) => (out.shown[k].marked <=> WordEnd(raw, terms, k))
    BY <1>7, <1>13 DEF Shape, IsMarked
<1> QED
    BY <1>2, <1>8, <1>10, <1>11, <1>12, <1>14

-----------------------------------------------------------------------------
(* What is shown with a result is a snippet of the body the scan has left.   *)

Chars == Nat \X Nat

\* The snippet on the screen is made of the body as it is; the body does not change
\* once the scan is over, and nothing is shown before.
Shown ==
    /\ Progress
    /\ body \in Seq(Chars)
    /\ tokenized => done
    /\ query # <<>> => tokenized /\ query \in Queries /\ snippet = SnippetOf(BodyText, query)

LEMMA AddType ==
    ASSUME NEW C, NEW b \in Seq(C), NEW c \in C
    PROVE  Add(b, c) \in Seq(C)
<1>1. Append(b, c) \in Seq(C)
    OBVIOUS
<1> QED
    BY <1>1 DEF Add

\* The loop of Text over the characters of a piece, as the body after each.
AddRuns(f, C, b, chars) ==
    /\ f \in [0 .. Len(chars) -> Seq(C)] /\ f[0] = b
    /\ \A k \in 1 .. Len(chars) : f[k] = Add(f[k - 1], chars[k])
    /\ Added(b, chars) = f[Len(chars)]

LEMMA AddedRuns ==
    ASSUME NEW C, NEW b \in Seq(C), NEW chars \in Seq(C)
    PROVE  \E f : AddRuns(f, C, b, chars)
<1> DEFINE S == Seq(C)
           n == Len(chars)
           step == [w \in (1 .. n) \X S |-> Add(w[2], chars[w[1]])]
           Sofar(f) == [k \in 0 .. n |-> IF k = 0 THEN b ELSE Add(f[k - 1], chars[k])]
           sofar == CHOOSE f : f = Sofar(f)
<1>1. Added(b, chars) = sofar[n]
    BY DEF Added
<1>2. \A k \in 1 .. n, st \in S : Add(st, chars[k]) \in S
  <2> SUFFICES ASSUME NEW k \in 1 .. n, NEW st \in S PROVE Add(st, chars[k]) \in S
      OBVIOUS
  <2>1. chars[k] \in C
      OBVIOUS
  <2> QED
      BY <2>1, AddType
<1>3. n \in Nat /\ b \in S
    OBVIOUS
<1> HIDE DEF S, n
<1>4. step \in Bodies(n, S)
    BY <1>2 DEF Bodies
<1>5. \A k \in 1 .. n, st \in S : step[<<k, st>>] = Add(st, chars[k])
    OBVIOUS
<1> HIDE DEF step
<1>6. PICK f : Runs(f, n, S, b, step)
    BY <1>3, <1>4, LoopExists
<1>7. \A k \in 1 .. n : k - 1 \in 0 .. n /\ f[k - 1] \in S
    BY <1>3, <1>6 DEF Runs
<1>8. f = Sofar(f)
  <2>1. f = [k \in 0 .. n |-> f[k]]
      BY <1>6 DEF Runs
  <2>2. \A k \in 0 .. n : f[k] = IF k = 0 THEN b ELSE Add(f[k - 1], chars[k])
    <3> SUFFICES ASSUME NEW k \in 0 .. n
                 PROVE  f[k] = IF k = 0 THEN b ELSE Add(f[k - 1], chars[k])
        OBVIOUS
    <3>1. CASE k = 0
        BY <1>6, <3>1 DEF Runs
    <3>2. CASE k # 0
      <4>1. k \in 1 .. n
          BY <1>3, <3>2
      <4>2. f[k] = step[<<k, f[k - 1]>>]
          BY <1>6, <4>1 DEF Runs
      <4> QED
          BY <1>5, <1>7, <3>2, <4>1, <4>2
    <3> QED
        BY <3>1, <3>2
  <2> QED
      BY <2>1, <2>2
<1>9. sofar = Sofar(sofar)
    BY <1>8
<1> HIDE DEF sofar
<1> DEFINE D == {k \in 0 .. n : sofar[k] \in S}
<1>10. \A k \in 0 .. n : sofar[k] = IF k = 0 THEN b ELSE Add(sofar[k - 1], chars[k])
    BY <1>9
<1>11. 0 \in D
    BY <1>3, <1>10
<1>12. ASSUME NEW k \in 1 .. n, k - 1 \in D PROVE k \in D
  <2>1. k \in 0 .. n /\ k # 0
      BY <1>3
  <2>2. sofar[k - 1] \in S
      BY <1>12
  <2> QED
      BY <1>2, <1>10, <2>1, <2>2
<1> HIDE DEF D
<1>13. \A k \in 0 .. n : sofar[k] \in S
  <2>1. \A k \in 0 .. n : k \in D
      BY <1>3, <1>11, <1>12, CountUp
  <2> QED
      BY <2>1 DEF D
<1>14. sofar = [k \in 0 .. n |-> sofar[k]]
    BY <1>9, <1>10
<1>15. sofar \in [0 .. n -> S]
    BY <1>13, <1>14
<1>16. sofar[0] = b /\ \A k \in 1 .. n : sofar[k] = Add(sofar[k - 1], chars[k])
    BY <1>3, <1>10
<1>17. AddRuns(sofar, C, b, chars)
    BY <1>1, <1>15, <1>16 DEF AddRuns, n, S
<1> QED
    BY <1>17

LEMMA AddedType ==
    ASSUME NEW C, NEW b \in Seq(C), NEW chars \in Seq(C)
    PROVE  Added(b, chars) \in Seq(C)
<1>1. PICK f : AddRuns(f, C, b, chars)
    BY AddedRuns
<1>2. Len(chars) \in 0 .. Len(chars)
    OBVIOUS
<1> QED
    BY <1>1, <1>2 DEF AddRuns

LEMMA CharsType ==
    ASSUME Progress, NEW i \in 1 .. Len(page)
    PROVE  CharsOf(i) \in Seq({i} \X Nat)
<1>1. PICK n \in 0 .. MaxPieces : page \in [1 .. n -> Pieces]
    BY DEF Progress, Pages
<1>2. n \in Nat /\ Len(page) = n
    BY <1>1, MaxPiecesNat
<1>3. page[i] \in Pieces /\ i \in Nat
    BY <1>1, <1>2
<1> DEFINE Classes == Characters
           chars == page[i].chars
           m == Len(chars)
<1>4. chars \in Seq(Classes)
    BY <1>3, PiecesKnown
<1> HIDE DEF chars, Classes
<1>5. m \in Nat /\ DOMAIN chars = 1 .. m
    BY <1>4
<1>6. CharsOf(i) = [k \in 1 .. m |-> <<i, k>>]
    BY <1>5 DEF CharsOf, chars
<1> HIDE DEF m
<1>7. \A k \in 1 .. m : <<i, k>> \in {i} \X Nat
    BY <1>3, <1>5
<1> QED
    BY <1>5, <1>6, <1>7

\* The members of a sequence over a set are members of any larger one.
LEMMA Wider ==
    ASSUME NEW S, NEW T, S \subseteq T, NEW s \in Seq(S)
    PROVE  s \in Seq(T)
OBVIOUS

LEMMA Trimmed ==
    ASSUME NEW S, NEW s \in Seq(S), s # <<>>
    PROVE  SubSeq(s, 1, Len(s) - 1) \in Seq(S)
<1>1. Len(s) \in Nat \ {0}
    OBVIOUS
<1> QED
    BY <1>1

LEMMA BodyTyped ==
    ASSUME Shown, ScanStep \/ Finish
    PROVE  body' \in Seq(Chars)
<1>1. body \in Seq(Chars) /\ Progress
    BY DEF Shown
<1>2. CASE Text
  <2>1. p \in 1 .. Len(page)
      BY <1>1, <1>2, PageLength DEF Text, Here, Progress
  <2>2. CharsOf(p) \in Seq(Chars)
    <3>1. CharsOf(p) \in Seq({p} \X Nat)
        BY <1>1, <2>1, CharsType
    <3>2. {p} \X Nat \subseteq Chars
        BY <1>1, PageLength DEF Chars, Progress
    <3> QED
        BY <3>1, <3>2, Wider
  <2>3. Added(body, CharsOf(p)) \in Seq(Chars)
      BY <1>1, <2>2, AddedType
  <2> QED
      BY <1>1, <1>2, <2>3 DEF Text
<1>3. CASE Finish
  <2>1. body # <<>> => SubSeq(body, 1, Len(body) - 1) \in Seq(Chars)
      BY <1>1, Trimmed
  <2> QED
      BY <1>1, <1>3, <2>1 DEF Finish
<1>4. CASE Comment \/ StrayLess \/ RawTag \/ Title \/ Heading \/ Meta \/ OtherTag
  <2>1. body' = body
      BY <1>4 DEF Comment, StrayLess, RawTag, Title, Heading, Meta, OtherTag
  <2> QED
      BY <1>1, <2>1
<1> QED
    BY <1>2, <1>3, <1>4 DEF ScanStep

LEMMA ShownInit == Init => Shown
<1> SUFFICES ASSUME Init PROVE Shown
    OBVIOUS
<1>1. body = <<>> /\ tokenized = FALSE /\ query = <<>>
    BY DEF Init, ScanInit
<1>2. body \in Seq(Chars)
    BY <1>1
<1> QED
    BY <1>1, <1>2, InitInd DEF Shown

LEMMA ShownNext == Shown /\ [Next]_vars => Shown'
<1> SUFFICES ASSUME Shown, [Next]_vars PROVE Shown'
    OBVIOUS
<1>1. Progress'
    BY NextInd DEF Shown
<1>2. CASE (ScanStep \/ Finish) /\ UNCHANGED <<tokens, tokenized, query, snippet>>
  <2>1. ~done
      BY <1>2 DEF ScanStep, Finish, Comment, StrayLess, RawTag, Title, Heading, Meta, OtherTag,
             Text, HereTag, Here
  <2>2. ~tokenized /\ query = <<>>
      BY <2>1 DEF Shown
  <2>3. body' \in Seq(Chars)
      BY <1>2, BodyTyped
  <2> QED
      BY <1>1, <1>2, <2>2, <2>3 DEF Shown
<1>3. CASE Tokenize
  <2>1. query' = <<>> /\ done' /\ body' = body
      BY <1>3 DEF Tokenize, Shown, scanVars
  <2> QED
      BY <1>1, <2>1 DEF Shown
<1>4. ASSUME NEW terms \in Queries, Show(terms) PROVE Shown'
  <2>1. UNCHANGED <<page, body, done, tokenized>> /\ tokenized
      BY <1>4 DEF Show, scanVars
  <2>2. BodyText' = BodyText
      BY <2>1 DEF BodyText, Class
  <2>3. query' = terms /\ snippet' = SnippetOf(BodyText, terms)
      BY <1>4 DEF Show
  <2> QED
      BY <1>1, <2>1, <2>2, <2>3 DEF Shown
<1>5. CASE UNCHANGED vars
  <2>1. UNCHANGED <<page, body, done, tokenized, query, snippet>>
      BY <1>5 DEF vars
  <2>2. BodyText' = BodyText
      BY <2>1 DEF BodyText, Class
  <2> QED
      BY <1>1, <2>1, <2>2 DEF Shown
<1> QED
    BY <1>2, <1>3, <1>4, <1>5 DEF Next, Scan

\* What the two properties say of the screen, from SnippetIs.
LEMMA OnScreen ==
    ASSUME Shown, query # <<>>
    PROVE  /\ Len(body) = Len(BodyText)
           /\ \E V : BodyText \in Seq(V)
           /\ HeadedByLetters => AreTerms(query)
           /\ LettersOnly => HeadedByLetters /\ ArePlain(query)
           /\ snippet = SnippetOf(BodyText, query)
<1>1. body \in Seq(Chars) /\ query \in Queries /\ snippet = SnippetOf(BodyText, query)
    BY DEF Shown
<1> DEFINE n == Len(body)
           V == {Class(body[k]) : k \in 1 .. n}
<1>2. n \in Nat /\ DOMAIN body = 1 .. n
    BY <1>1
<1>3. BodyText = [k \in 1 .. n |-> Class(body[k])]
    BY <1>2 DEF BodyText
<1> HIDE DEF n
<1>4. \A k \in 1 .. n : Class(body[k]) \in V
    OBVIOUS
<1> HIDE DEF V
<1>5. BodyText \in Seq(V) /\ Len(BodyText) = n
    BY <1>2, <1>3, <1>4
<1>6. query \in Seq(Seq(WordChars)) /\ \A k \in DOMAIN query : Len(query[k]) >= MinLen
    BY <1>1, QueriesAreTokens
<1>7. ASSUME NEW k \in DOMAIN query PROVE Len(query[k]) >= 2 /\ 1 \in DOMAIN query[k]
  <2>1. query[k] \in Seq(WordChars)
      BY <1>6
  <2>2. Len(query[k]) \in Nat /\ DOMAIN query[k] = 1 .. Len(query[k])
      BY <2>1
  <2>3. MinLen \in Nat /\ MinLen >= 2 /\ Len(query[k]) >= MinLen
      BY <1>6, QueriesAreTokens, BufferHoldsToken
  <2> QED
      BY <2>2, <2>3
<1>8. HeadedByLetters => AreTerms(query)
    BY <1>6, <1>7 DEF HeadedByLetters, AreTerms
<1>9. LettersOnly => HeadedByLetters /\ ArePlain(query)
    BY <1>7 DEF LettersOnly, HeadedByLetters, ArePlain
<1> QED
    BY <1>1, <1>5, <1>8, <1>9 DEF n

\* Whatever is searched for by terms that begin with a letter or digit, in whatever
\* page, the snippet of snippet_generate is a stretch of its text from the beginning
\* of a word on, as long as the window allows.
THEOREM AlwaysExcerpt == Spec => []SnippetIsExcerpt
<1>1. Shown => SnippetIsExcerpt
  <2> SUFFICES ASSUME Shown, query # <<>>, HeadedByLetters PROVE SnippetIsExcerpt
      BY DEF SnippetIsExcerpt
  <2>1. PICK V : BodyText \in Seq(V)
      BY OnScreen
  <2>2. AreTerms(query) /\ snippet = SnippetOf(BodyText, query) /\ Len(body) = Len(BodyText)
      BY OnScreen
  <2> DEFINE shown == snippet.shown
             last == snippet.start + Len(shown) - 1
             n == Len(BodyText)
  <2>3. \A k \in DOMAIN shown : shown[k].place = k
      BY <2>1, <2>2, SnippetIs
  <2>7. snippet.start > 1 => BodyText[snippet.start - 1] = " "
      BY <2>1, <2>2, SnippetIs
  <2>8. snippet.before <=> snippet.start > 1
      BY <2>1, <2>2, SnippetIs
  <2>4. (snippet.after <=> last < n) /\ Len(shown) = Min({Window, n - snippet.start + 1})
      BY <2>1, <2>2, SnippetIs
  <2>5. Len(body) = n
      BY <2>2
  <2> HIDE DEF n
  <2>6. /\ snippet.after <=> last < Len(body)
        /\ Len(shown) = Min({Window, Len(body) - snippet.start + 1})
      BY <2>4, <2>5
  <2> QED
      BY <2>3, <2>6, <2>7, <2>8 DEF SnippetIsExcerpt
<1> QED
    BY <1>1, ShownInit, ShownNext, PTL DEF Spec

\* ... and of terms of letters and digits, marked in it are exactly those that end a
\* word, whatever the text is made of.
THEOREM AlwaysMarked == Spec => []WordEndsMarked
<1>1. Shown => WordEndsMarked
  <2> SUFFICES ASSUME Shown, query # <<>>, LettersOnly PROVE WordEndsMarked
      BY DEF WordEndsMarked
  <2>1. PICK V : BodyText \in Seq(V)
      BY OnScreen
  <2>2. AreTerms(query) /\ ArePlain(query) /\ snippet = SnippetOf(BodyText, query)
      BY OnScreen
  <2> QED
      BY <2>1, <2>2, SnippetIs DEF WordEndsMarked
<1> QED
    BY <1>1, ShownInit, ShownNext, PTL DEF Spec

-----------------------------------------------------------------------------
(* The fields found.                                                        *)

\* What the scan records lies behind it.
Typed ==
    /\ Progress
    /\ hidden \subseteq RawNames
    /\ body \in Seq((1 .. p - 1) \X Nat)
    /\ title = <<>> \/ title \in (2 .. p) \X (1 .. Len(page))
    /\ headings \in Seq((2 .. p) \X (1 .. Len(page)))
    /\ keywords \in Seq(1 .. p - 1) /\ links \in Seq(1 .. p - 1)
    /\ description \in 0 .. p - 1
    /\ done \in BOOLEAN /\ tokenized \in BOOLEAN

LEMMA TypedIsType == Typed => TypeOK
<1> SUFFICES ASSUME Typed PROVE TypeOK
    OBVIOUS
<1>1. page \in Pages /\ p \in 1 .. Len(page) + 1 /\ steps \in Nat
    BY DEF Typed, Progress
<1>2. \A k \in DOMAIN body : body[k][1] \in 1 .. p - 1
  <2> SUFFICES ASSUME NEW k \in DOMAIN body PROVE body[k][1] \in 1 .. p - 1
      OBVIOUS
  <2>1. body[k] \in (1 .. p - 1) \X Nat
      BY DEF Typed
  <2> QED
      BY <2>1
<1>3. title = <<>> \/ (title[1] \in 2 .. p /\ title[2] \in 1 .. Len(page))
    BY DEF Typed
<1>4. ASSUME NEW k \in DOMAIN headings
      PROVE  headings[k][1] \in 2 .. p /\ headings[k][2] \in 1 .. Len(page)
  <2>1. headings[k] \in (2 .. p) \X (1 .. Len(page))
      BY DEF Typed
  <2> QED
      BY <2>1
<1>5. ASSUME NEW k \in DOMAIN keywords PROVE keywords[k] \in 1 .. p - 1
  <2>1. keywords \in Seq(1 .. p - 1)
      BY DEF Typed
  <2> DEFINE S == 1 .. p - 1
  <2> HIDE DEF S
  <2>2. keywords \in Seq(S)
      BY <2>1 DEF S
  <2>3. keywords[k] \in S
      BY <2>2
  <2> QED
      BY <2>3 DEF S
<1> QED
    BY <1>1, <1>2, <1>3, <1>4, <1>5 DEF Typed, TypeOK

LEMMA Nothing ==
    ASSUME NEW S
    PROVE  <<>> \in Seq(S)
OBVIOUS

LEMMA TypedInit == Init => Typed
<1> SUFFICES ASSUME Init PROVE Typed
    OBVIOUS
<1>1. body = <<>> /\ headings = <<>> /\ keywords = <<>> /\ links = <<>>
    BY DEF Init, ScanInit
<1>2. /\ body \in Seq((1 .. p - 1) \X Nat)
      /\ headings \in Seq((2 .. p) \X (1 .. Len(page)))
      /\ keywords \in Seq(1 .. p - 1) /\ links \in Seq(1 .. p - 1)
    BY <1>1, Nothing
<1>3. Progress /\ hidden = {} /\ title = <<>> /\ done = FALSE /\ tokenized = FALSE
    BY InitInd DEF Init, ScanInit
<1>4. description \in 0 .. p - 1
    BY DEF Init, ScanInit
<1> QED
    BY <1>2, <1>3, <1>4 DEF Typed

\* Where a closing tag stands.
LEMMA CloserIs ==
    ASSUME Progress, Closers # {}
    PROVE  /\ First(Closers) \in p + 1 .. Len(page) /\ First(Closers) \in Closers
           /\ \A k \in Closers : First(Closers) <= k
<1>1. p \in Nat /\ Len(page) \in Nat
    BY PageLength DEF Progress
<1>2. Closers \subseteq p + 1 .. Len(page)
    BY DEF Closers, Later
<1>3. Closers \in SUBSET Nat
    BY <1>1, <1>2
<1>4. First(Closers) \in Closers /\ \A k \in Closers : First(Closers) <= k
    BY <1>3, FirstIsLeast
<1> QED
    BY <1>2, <1>4

\* What has been recorded stays in range as the scan goes on.
LEMMA RangesGrow ==
    ASSUME NEW n \in Nat, NEW from \in 1 .. n, NEW to \in from + 1 .. n + 1
    PROVE  /\ (1 .. from - 1) \X Nat \subseteq (1 .. to - 1) \X Nat
           /\ (2 .. from) \X (1 .. n) \subseteq (2 .. to) \X (1 .. n)
           /\ 1 .. from - 1 \subseteq 1 .. to - 1 /\ 0 .. from - 1 \subseteq 0 .. to - 1
           /\ from \in 0 .. to - 1 /\ from \in 1 .. to - 1 /\ from + 1 \in 2 .. to
OBVIOUS

LEMMA Appended ==
    ASSUME NEW S, NEW s \in Seq(S), NEW e \in S
    PROVE  Append(s, e) \in Seq(S)
OBVIOUS

LEMMA TypedScan ==
    ASSUME Typed, ScanStep, tokenized' = tokenized
    PROVE  Typed'
<1> DEFINE n == Len(page)
           Slots == (2 .. p') \X (1 .. n)
<1>1. page' = page /\ p' \in p + 1 .. n + 1 /\ n \in Nat /\ p \in 1 .. n
  <2>1. page' = page /\ p' \in p + 1 .. n + 1
      BY ScanForward DEF Typed
  <2>2. n \in Nat /\ p \in 1 .. n + 1
      BY PageLength DEF Typed, Progress
  <2> QED
      BY <2>1, <2>2
<1>2. Progress'
  <2>1. steps' = steps + 1
      BY DEF ScanStep
  <2> QED
      BY <1>1, <2>1 DEF Typed, Progress
<1>3. /\ (1 .. p - 1) \X Nat \subseteq (1 .. p' - 1) \X Nat
      /\ (2 .. p) \X (1 .. n) \subseteq Slots
      /\ 1 .. p - 1 \subseteq 1 .. p' - 1 /\ 0 .. p - 1 \subseteq 0 .. p' - 1
      /\ p \in 0 .. p' - 1 /\ p \in 1 .. p' - 1 /\ p + 1 \in 2 .. p'
  <2> HIDE DEF n
  <2> QED
      BY <1>1, RangesGrow
<1>4. /\ body \in Seq((1 .. p' - 1) \X Nat)
      /\ title = <<>> \/ title \in Slots
      /\ headings \in Seq(Slots)
      /\ keywords \in Seq(1 .. p' - 1) /\ links \in Seq(1 .. p' - 1)
      /\ description \in 0 .. p' - 1
  <2>1. /\ body \in Seq((1 .. p - 1) \X Nat)
        /\ title = <<>> \/ title \in (2 .. p) \X (1 .. n)
        /\ headings \in Seq((2 .. p) \X (1 .. n))
        /\ keywords \in Seq(1 .. p - 1) /\ links \in Seq(1 .. p - 1)
        /\ description \in 0 .. p - 1
      BY DEF Typed
  <2> HIDE DEF n, Slots
  <2>2. body \in Seq((1 .. p' - 1) \X Nat)
      BY <1>3, <2>1, Wider
  <2>3. headings \in Seq(Slots)
      BY <1>3, <2>1, Wider
  <2>4. keywords \in Seq(1 .. p' - 1) /\ links \in Seq(1 .. p' - 1)
      BY <1>3, <2>1, Wider
  <2> QED
      BY <1>3, <2>1, <2>2, <2>3, <2>4
<1> DEFINE Goal ==
              /\ hidden' \subseteq RawNames
              /\ body' \in Seq((1 .. p' - 1) \X Nat)
              /\ title' = <<>> \/ title' \in Slots
              /\ headings' \in Seq(Slots)
              /\ keywords' \in Seq(1 .. p' - 1) /\ links' \in Seq(1 .. p' - 1)
              /\ description' \in 0 .. p' - 1
              /\ done' \in BOOLEAN
<1>5. hidden \subseteq RawNames /\ done \in BOOLEAN
    BY DEF Typed
<1>6. Closers # {} => /\ First(Closers) - 1 \in 1 .. n
                      /\ p + 1 \in 2 .. p' => <<p + 1, First(Closers) - 1>> \in Slots
  <2> SUFFICES ASSUME Closers # {} PROVE First(Closers) - 1 \in 1 .. n
      OBVIOUS
  <2>1. First(Closers) \in p + 1 .. n
      BY CloserIs DEF Typed
  <2> QED
      BY <1>1, <2>1
<1> HIDE DEF n, Slots
<1>7. ASSUME Comment \/ StrayLess \/ OtherTag PROVE Goal
  <2>1. UNCHANGED <<hidden, body, fields, done>>
      BY <1>7 DEF Comment, StrayLess, OtherTag
  <2> QED
      BY <1>4, <1>5, <2>1 DEF fields
<1>8. ASSUME RawTag PROVE Goal
  <2>1. UNCHANGED <<body, fields, done>>
      BY <1>8 DEF RawTag
  <2>2. hidden' \subseteq RawNames
      BY <1>5, <1>8 DEF RawTag, RawAfter, HereTag, Here
  <2> QED
      BY <1>4, <1>5, <2>1, <2>2 DEF fields
<1>9. ASSUME Title PROVE Goal
  <2>1. UNCHANGED <<hidden, body, headings, keywords, description, links, done>>
      BY <1>9 DEF Title
  <2>2. title' = title \/ (Closers # {} /\ title' = <<p + 1, First(Closers) - 1>>)
      BY <1>9 DEF Title
  <2> QED
      BY <1>3, <1>4, <1>5, <1>6, <2>1, <2>2
<1>10. ASSUME Heading PROVE Goal
  <2>1. UNCHANGED <<hidden, body, title, keywords, description, links, done>>
      BY <1>10 DEF Heading
  <2>2. \/ headings' = headings
        \/ Closers # {} /\ headings' = Append(headings, <<p + 1, First(Closers) - 1>>)
      BY <1>10 DEF Heading
  <2>3. headings' \in Seq(Slots)
      BY <1>3, <1>4, <1>6, <2>2, Appended
  <2> QED
      BY <1>4, <1>5, <2>1, <2>3
<1>11. ASSUME Meta PROVE Goal
  <2>1. UNCHANGED <<hidden, body, title, headings, done>>
      BY <1>11 DEF Meta
  <2>2. /\ keywords' = keywords \/ keywords' = Append(keywords, p)
        /\ links' = links \/ links' = Append(links, p)
        /\ description' = description \/ description' = p
      BY <1>11 DEF Meta
  <2>3. keywords' \in Seq(1 .. p' - 1)
      BY <1>3, <1>4, <2>2, Appended
  <2>4. links' \in Seq(1 .. p' - 1)
      BY <1>3, <1>4, <2>2, Appended
  <2>5. description' \in 0 .. p' - 1
      BY <1>3, <1>4, <2>2
  <2> QED
      BY <1>4, <1>5, <2>1, <2>3, <2>4, <2>5
<1>12. ASSUME Text PROVE Goal
  <2>1. UNCHANGED <<hidden, fields, done>>
      BY <1>12 DEF Text
  <2>2. CharsOf(p) \in Seq((1 .. p' - 1) \X Nat)
    <3>1. CharsOf(p) \in Seq({p} \X Nat)
        BY <1>1, CharsType DEF Typed, n
    <3>2. {p} \X Nat \subseteq (1 .. p' - 1) \X Nat
        BY <1>3
    <3> QED
        BY <3>1, <3>2, Wider
  <2>3. body' = body \/ body' = Added(body, CharsOf(p))
      BY <1>12 DEF Text
  <2>4. body' \in Seq((1 .. p' - 1) \X Nat)
      BY <1>4, <2>2, <2>3, AddedType
  <2> QED
      BY <1>4, <1>5, <2>1, <2>4 DEF fields
<1>13. Goal
    BY <1>7, <1>8, <1>9, <1>10, <1>11, <1>12 DEF ScanStep
<1> QED
    BY <1>1, <1>2, <1>13 DEF Typed, n, Slots

\* The tags of a name before a place, the headings with an end among them, and what
\* the fields hold of them.
TagsTo(name, q) == {i \in TagsOf(name) : i < q}
HeadsTo(q) == {i \in TagsTo("h1", q) :
                    EndTags(i) # {} /\ Says(i + 1, Min(EndTags(i)) - 1)}

TitleTo(q, t) == t = IF TagsTo("title", q) = {} THEN <<>> ELSE Extent(Max(TagsTo("title", q)))
HeadingsTo(q, h) ==
    /\ Lists([k \in DOMAIN h |-> h[k][1] - 1], HeadsTo(q))
    /\ \A k \in DOMAIN h : h[k] = Extent(h[k][1] - 1)
DescriptionTo(q, d) ==
    d = IF TagsTo("meta description", q) = {} THEN 0 ELSE Max(TagsTo("meta description", q))

FoundTo(q, t, h, ks, d, ls) ==
    /\ TitleTo(q, t) /\ HeadingsTo(q, h) /\ DescriptionTo(q, d)
    /\ Lists(ks, TagsTo("meta keywords", q)) /\ Lists(ls, TagsTo("a", q))

\* In a tame page the flags say which region the scan is in, it is never inside a
\* comment or the title, and it has found what stands behind it.
Orderly ==
    /\ hidden = {r \in RawNames : Inside(p, r)}
    /\ ~Inside(p, "title") /\ ~Inside(p, "comment")
    /\ FoundTo(p, title, headings, keywords, description, links)

Found == Typed /\ (done => p > Len(page)) /\ (Tame => Orderly)

\* One place further on.
LEMMA InsideNext ==
    ASSUME NEW n \in Nat, NEW i \in 1 .. n, NEW r
    PROVE  Inside(i + 1, r) <=> Opens(i, r) \/ (Inside(i, r) /\ ~Closes(i, r))
<1>1. ASSUME Inside(i + 1, r) PROVE Opens(i, r) \/ (Inside(i, r) /\ ~Closes(i, r))
  <2>1. PICK j \in 1 .. i : Opens(j, r) /\ \A k \in j + 1 .. i : ~Closes(k, r)
      BY <1>1 DEF Inside
  <2>2. CASE j = i
      BY <2>1, <2>2
  <2>3. CASE j # i
    <3>1. j \in 1 .. i - 1 /\ i \in j + 1 .. i /\ \A k \in j + 1 .. i - 1 : k \in j + 1 .. i
        BY <2>3
    <3> QED
        BY <2>1, <3>1 DEF Inside
  <2> QED
      BY <2>2, <2>3
<1>2. ASSUME Opens(i, r) PROVE Inside(i + 1, r)
  <2>1. i \in 1 .. (i + 1) - 1 /\ \A k \in i + 1 .. (i + 1) - 1 : FALSE
      OBVIOUS
  <2> QED
      BY <1>2, <2>1 DEF Inside
<1>3. ASSUME Inside(i, r), ~Closes(i, r) PROVE Inside(i + 1, r)
  <2>1. PICK j \in 1 .. i - 1 : Opens(j, r) /\ \A k \in j + 1 .. i - 1 : ~Closes(k, r)
      BY <1>3 DEF Inside
  <2>2. /\ j \in 1 .. (i + 1) - 1
        /\ \A k \in j + 1 .. (i + 1) - 1 : k \in j + 1 .. i - 1 \/ k = i
      OBVIOUS
  <2>3. \A k \in j + 1 .. (i + 1) - 1 : ~Closes(k, r)
      BY <1>3, <2>1, <2>2
  <2> QED
      BY <2>1, <2>2, <2>3 DEF Inside
<1> QED
    BY <1>1, <1>2, <1>3

\* From the opening of a region to its end and behind it.
LEMMA InsideLeap ==
    ASSUME NEW n \in Nat, n = Len(page), DOMAIN page = 1 .. n, Tame,
           NEW i \in 1 .. n, NEW m \in i + 1 .. n, NEW s \in Regions,
           Opens(i, s), Outside(i), Closes(m, s), \A k \in i + 1 .. m - 1 : ~Closes(k, s)
    PROVE  /\ \A k \in i + 1 .. m : ~Outside(k)
           /\ \A r \in Regions : ~Inside(m + 1, r)
<1>1. ASSUME NEW k \in i + 1 .. m PROVE Inside(k, s)
  <2>1. i \in 1 .. k - 1 /\ \A j \in i + 1 .. k - 1 : j \in i + 1 .. m - 1
      OBVIOUS
  <2> QED
      BY <2>1 DEF Inside
<1>2. \A k \in i + 1 .. m : ~Outside(k)
    BY <1>1 DEF Outside
<1>3. ASSUME NEW r \in Regions, Inside(m + 1, r) PROVE FALSE
  <2>1. PICK j \in 1 .. m : Opens(j, r) /\ \A k \in j + 1 .. m : ~Closes(k, r)
      BY <1>3 DEF Inside
  <2>2. CASE j < i
    <3>1. j \in 1 .. i - 1 /\ \A k \in j + 1 .. i - 1 : k \in j + 1 .. m
        BY <2>2
    <3>2. Inside(i, r)
        BY <2>1, <3>1 DEF Inside
    <3> QED
        BY <3>2 DEF Outside
  <2>3. CASE j = i
    <3>1. r = s
        BY <2>1, <2>3 DEF Opens, Regions, RawNames
    <3>2. m \in j + 1 .. m
        BY <2>3
    <3> QED
        BY <2>1, <3>1, <3>2
  <2>4. CASE j > i
    <3>1. j \in i + 1 .. m /\ j \in DOMAIN page
        BY <2>4
    <3>2. Outside(j)
        BY <2>1, <3>1 DEF Tame
    <3> QED
        BY <1>2, <3>1, <3>2
  <2> QED
      BY <2>2, <2>3, <2>4
<1> QED
    BY <1>2, <1>3

LEMMA PageIs ==
    ASSUME Progress
    PROVE  /\ Len(page) \in Nat /\ DOMAIN page = 1 .. Len(page)
           /\ \A i \in 1 .. Len(page) : page[i] \in Pieces
<1>1. PICK n \in 0 .. MaxPieces : page \in [1 .. n -> Pieces]
    BY DEF Progress, Pages
<1> QED
    BY <1>1, MaxPiecesNat

LEMMA TagsStep ==
    ASSUME NEW n \in Nat, NEW i \in 1 .. n, NEW q \in i + 1 .. n + 1, DOMAIN page = 1 .. n,
           \A k \in i + 1 .. q - 1 : ~Outside(k), NEW name
    PROVE  TagsTo(name, q) = TagsTo(name, i) \cup ({i} \cap TagsOf(name))
<1>1. ASSUME NEW k \in TagsOf(name) PROVE k < q <=> k < i \/ k = i
  <2>1. k \in 1 .. n /\ Outside(k)
      BY DEF TagsOf
  <2>2. k \notin i + 1 .. q - 1
      BY <2>1
  <2> QED
      BY <2>1, <2>2
<1> QED
    BY <1>1 DEF TagsTo

LEMMA TagsToIs ==
    ASSUME NEW n \in Nat, DOMAIN page = 1 .. n, NEW q \in Nat, NEW name
    PROVE  /\ TagsTo(name, q) \in SUBSET (1 .. n)
           /\ \A k \in TagsTo(name, q) : k < q
BY DEF TagsTo, TagsOf

\* The last of a set, when a later number joins it.
LEMMA MaxNew ==
    ASSUME NEW n \in Nat, NEW S \in SUBSET (1 .. n), NEW x \in 1 .. n, \A i \in S : i < x
    PROVE  S \cup {x} # {} /\ Max(S \cup {x}) = x
<1> DEFINE T == S \cup {x}
<1>1. T \in SUBSET (1 .. n) /\ T # {} /\ x \in T
    OBVIOUS
<1>2. \A i \in T : i = x \/ i < x
    OBVIOUS
<1> HIDE DEF T
<1>3. Max(T) \in T /\ \A i \in T : i <= Max(T)
    BY <1>1, MaxIs
<1>4. Max(T) \in 1 .. n /\ x <= Max(T) /\ (Max(T) = x \/ Max(T) < x)
    BY <1>1, <1>2, <1>3
<1>5. Max(T) = x
    BY <1>4
<1> QED
    BY <1>1, <1>5 DEF T

LEMMA ListsNew ==
    ASSUME NEW s \in Seq(Int), NEW S, Lists(s, S), NEW x \in Int, \A i \in S : i < x
    PROVE  Lists(Append(s, x), S \cup {x})
<1> DEFINE t == Append(s, x)
           m == Len(s)
<1>1. m \in Nat /\ DOMAIN s = 1 .. m /\ DOMAIN t = 1 .. m + 1
    OBVIOUS
<1>2. t[m + 1] = x /\ \A k \in 1 .. m : t[k] = s[k] /\ s[k] \in S
    BY DEF Lists
<1>3. S = {s[k] : k \in 1 .. m} /\ \A j, k \in 1 .. m : j < k => s[j] < s[k]
    BY <1>1 DEF Lists
<1> HIDE DEF t, m
<1>4. S \cup {x} = {t[k] : k \in 1 .. m + 1}
  <2>1. ASSUME NEW y \in S \cup {x} PROVE \E k \in 1 .. m + 1 : y = t[k]
    <3>1. CASE y = x
      <4>1. m + 1 \in 1 .. m + 1
          BY <1>1
      <4> QED
          BY <1>2, <3>1, <4>1
    <3>2. CASE y \in S
      <4>1. PICK k \in 1 .. m : y = s[k]
          BY <1>3, <3>2
      <4>2. k \in 1 .. m + 1
          BY <1>1
      <4> QED
          BY <1>2, <4>1, <4>2
    <3> QED
        BY <3>1, <3>2
  <2>2. ASSUME NEW k \in 1 .. m + 1 PROVE t[k] \in S \cup {x}
    <3>1. CASE k = m + 1
        BY <1>2, <3>1
    <3>2. CASE k # m + 1
      <4>1. k \in 1 .. m
          BY <1>1, <3>2
      <4> QED
          BY <1>2, <4>1
    <3> QED
        BY <3>1, <3>2
  <2> QED
      BY <2>1, <2>2
<1>5. ASSUME NEW j \in 1 .. m + 1, NEW k \in 1 .. m + 1, j < k PROVE t[j] < t[k]
  <2>1. j \in 1 .. m
      BY <1>1, <1>5
  <2>2. CASE k = m + 1
      BY <1>2, <2>1, <2>2
  <2>3. CASE k # m + 1
    <3>1. k \in 1 .. m
        BY <1>1, <2>3
    <3> QED
        BY <1>2, <1>3, <1>5, <2>1, <3>1
  <2> QED
      BY <2>2, <2>3
<1> QED
    BY <1>1, <1>4, <1>5 DEF Lists, t

\* Where the places recorded for the headings are the numbers of their tags.
LEMMA StartsOf ==
    ASSUME NEW T, NEW h \in Seq(Int \X T)
    PROVE  [k \in DOMAIN h |-> h[k][1] - 1] \in Seq(Int)
<1> DEFINE m == Len(h)
<1>1. m \in Nat /\ DOMAIN h = 1 .. m
    OBVIOUS
<1>2. ASSUME NEW k \in 1 .. m PROVE h[k][1] - 1 \in Int
  <2>1. h[k] \in Int \X T
      OBVIOUS
  <2> QED
      BY <2>1
<1>3. [k \in DOMAIN h |-> h[k][1] - 1] = [k \in 1 .. m |-> h[k][1] - 1]
    BY <1>1
<1> HIDE DEF m
<1>4. [k \in 1 .. m |-> h[k][1] - 1] \in Seq(Int)
    BY <1>1, <1>2
<1> QED
    BY <1>3, <1>4

LEMMA StartsNew ==
    ASSUME NEW T, NEW h \in Seq(Int \X T), NEW e \in Int \X T
    PROVE  [k \in DOMAIN Append(h, e) |-> Append(h, e)[k][1] - 1]
           = Append([k \in DOMAIN h |-> h[k][1] - 1], e[1] - 1)
<1> DEFINE g == Append(h, e)
           m == Len(h)
           s == [k \in DOMAIN h |-> h[k][1] - 1]
           t == [k \in DOMAIN g |-> g[k][1] - 1]
<1>1. m \in Nat /\ DOMAIN h = 1 .. m /\ DOMAIN g = 1 .. m + 1
    OBVIOUS
<1>2. g[m + 1] = e /\ \A k \in 1 .. m : g[k] = h[k]
    OBVIOUS
<1>3. s \in Seq(Int) /\ Len(s) = m
  <2>1. s \in Seq(Int)
      BY StartsOf
  <2>2. DOMAIN s = 1 .. m
      BY <1>1
  <2> HIDE DEF s
  <2> QED
      BY <1>1, <2>1, <2>2
<1>4. t = [k \in 1 .. m + 1 |-> g[k][1] - 1]
    BY <1>1
<1>5. \A k \in 1 .. m : s[k] = h[k][1] - 1
    BY <1>1
<1>6. e[1] - 1 \in Int
    OBVIOUS
<1> HIDE DEF g, m, s, t
<1> DEFINE x == e[1] - 1
           u == Append(s, x)
<1>7. u[m + 1] = x /\ DOMAIN u = 1 .. m + 1 /\ \A k \in 1 .. m : u[k] = s[k]
  <2> HIDE DEF x
  <2> QED
      BY <1>3, <1>6 DEF x
<1>8. u = [k \in 1 .. m + 1 |-> u[k]]
  <2> HIDE DEF x
  <2> QED
      BY <1>3, <1>6, <1>7 DEF x
<1> HIDE DEF u
<1>9. ASSUME NEW k \in 1 .. m + 1 PROVE u[k] = g[k][1] - 1
  <2>1. CASE k = m + 1
      BY <1>2, <1>7, <2>1
  <2>2. CASE k # m + 1
    <3>1. k \in 1 .. m
        BY <1>1, <2>2
    <3> QED
        BY <1>2, <1>5, <1>7, <3>1
  <2> QED
      BY <2>1, <2>2
<1>10. t = u
    BY <1>4, <1>8, <1>9
<1> QED
    BY <1>10 DEF t, u, g, s

\* One round of the scan, as what it adds to the fields.
FoundHere(q, t, h, ks, d, ls) ==
    /\ t = IF p \in TagsOf("title") THEN Extent(p) ELSE title
    /\ h = IF /\ p \in TagsOf("h1") /\ EndTags(p) # {}
              /\ Says(p + 1, Min(EndTags(p)) - 1)
           THEN Append(headings, Extent(p)) ELSE headings
    /\ ks = IF p \in TagsOf("meta keywords") THEN Append(keywords, p) ELSE keywords
    /\ d = IF p \in TagsOf("meta description") THEN p ELSE description
    /\ ls = IF p \in TagsOf("a") THEN Append(links, p) ELSE links

LEMMA ListStep ==
    ASSUME NEW n \in Nat, NEW i \in 1 .. n, NEW q \in i + 1 .. n + 1, DOMAIN page = 1 .. n,
           \A k \in i + 1 .. q - 1 : ~Outside(k), NEW name,
           NEW s \in Seq(Int), Lists(s, TagsTo(name, i))
    PROVE  Lists(IF i \in TagsOf(name) THEN Append(s, i) ELSE s, TagsTo(name, q))
<1>1. TagsTo(name, q) = TagsTo(name, i) \cup ({i} \cap TagsOf(name))
    BY TagsStep
<1>2. \A k \in TagsTo(name, i) : k < i
    BY DEF TagsTo
<1>3. CASE i \in TagsOf(name)
  <2>1. TagsTo(name, q) = TagsTo(name, i) \cup {i}
      BY <1>1, <1>3
  <2> QED
      BY <1>2, <1>3, <2>1, ListsNew
<1>4. CASE i \notin TagsOf(name)
  <2>1. TagsTo(name, q) = TagsTo(name, i)
      BY <1>1, <1>4
  <2> QED
      BY <1>4, <2>1
<1> QED
    BY <1>3, <1>4

\* The last tag of a name.
LEMMA LastStep ==
    ASSUME NEW n \in Nat, NEW i \in 1 .. n, NEW q \in i + 1 .. n + 1, DOMAIN page = 1 .. n,
           \A k \in i + 1 .. q - 1 : ~Outside(k), NEW name
    PROVE  /\ i \in TagsOf(name) => TagsTo(name, q) # {} /\ Max(TagsTo(name, q)) = i
           /\ i \notin TagsOf(name) => TagsTo(name, q) = TagsTo(name, i)
<1>1. TagsTo(name, q) = TagsTo(name, i) \cup ({i} \cap TagsOf(name))
    BY TagsStep
<1>2. TagsTo(name, i) \in SUBSET (1 .. n) /\ \A k \in TagsTo(name, i) : k < i
    BY TagsToIs
<1>3. CASE i \in TagsOf(name)
  <2>1. TagsTo(name, q) = TagsTo(name, i) \cup {i}
      BY <1>1, <1>3
  <2> QED
      BY <1>2, <1>3, <2>1, MaxNew
<1>4. CASE i \notin TagsOf(name)
    BY <1>1, <1>4
<1> QED
    BY <1>3, <1>4

LEMMA AppendIs ==
    ASSUME NEW S, NEW s \in Seq(S), NEW e \in S, NEW k \in DOMAIN Append(s, e)
    PROVE  Append(s, e)[k] = e \/ (k \in DOMAIN s /\ Append(s, e)[k] = s[k])
OBVIOUS

LEMMA HeadingsStep ==
    ASSUME NEW n \in Nat, NEW i \in 1 .. n, NEW q \in i + 1 .. n + 1, DOMAIN page = 1 .. n,
           \A k \in i + 1 .. q - 1 : ~Outside(k),
           NEW h \in Seq(Int \X Int), HeadingsTo(i, h)
    PROVE  HeadingsTo(q, IF /\ i \in TagsOf("h1") /\ EndTags(i) # {}
                            /\ Says(i + 1, Min(EndTags(i)) - 1)
                         THEN Append(h, Extent(i)) ELSE h)
<1> DEFINE Heads == HeadsTo(i)
           Is(k) == EndTags(k) # {} /\ Says(k + 1, Min(EndTags(k)) - 1)
           s == [k \in DOMAIN h |-> h[k][1] - 1]
           g == Append(h, Extent(i))
           t == [k \in DOMAIN g |-> g[k][1] - 1]
<1>1. TagsTo("h1", q) = TagsTo("h1", i) \cup ({i} \cap TagsOf("h1"))
  <2>1. ASSUME NEW name PROVE TagsTo(name, q) = TagsTo(name, i) \cup ({i} \cap TagsOf(name))
      BY TagsStep
  <2> QED
      BY <2>1
<1>2. \A k \in TagsTo("h1", i) : k < i
    BY DEF TagsTo
<1>3. HeadsTo(q) = {k \in TagsTo("h1", q) : Is(k)} /\ Heads = {k \in TagsTo("h1", i) : Is(k)}
    BY DEF HeadsTo
<1>4. Lists(s, Heads) /\ \A k \in DOMAIN h : h[k] = Extent(h[k][1] - 1)
    BY DEF HeadingsTo
<1> HIDE DEF Is
<1>5. CASE i \in TagsOf("h1") /\ Is(i)
  <2>1. HeadsTo(q) = Heads \cup {i}
      BY <1>1, <1>3, <1>5
  <2>2. Extent(i) \in Int \X Int /\ Extent(i)[1] - 1 = i
    <3>1. EndTags(i) \in SUBSET Nat /\ EndTags(i) # {}
        BY <1>5 DEF EndTags, Is
    <3>2. Min(EndTags(i)) \in Nat
        BY <3>1, MinIs
    <3> QED
        BY <3>2 DEF Extent
  <2>3. t = Append(s, i)
      BY <2>2, StartsNew
  <2>4. s \in Seq(Int)
      BY StartsOf
  <2>5. \A k \in Heads : k < i
      BY <1>2, <1>3
  <2> HIDE DEF t, s, Heads
  <2>6. Lists(t, HeadsTo(q))
    <3>1. i \in Int
        OBVIOUS
    <3>2. Lists(Append(s, i), Heads \cup {i})
        BY <1>4, <2>4, <2>5, <3>1, ListsNew
    <3> QED
        BY <2>1, <2>3, <3>2
  <2>7. ASSUME NEW k \in DOMAIN g PROVE g[k] = Extent(g[k][1] - 1)
    <3> DEFINE e == Extent(i)
    <3>1. e \in Int \X Int /\ e[1] - 1 = i
        BY <2>2
    <3> HIDE DEF e
    <3>3. g = Append(h, e)
        BY DEF e
    <3> HIDE DEF g
    <3>2. g[k] = e \/ (k \in DOMAIN h /\ g[k] = h[k])
        BY <3>1, <3>3, AppendIs
    <3> QED
        BY <1>4, <3>1, <3>2 DEF e
  <2>8. HeadingsTo(q, g)
      BY <2>6, <2>7 DEF HeadingsTo, t
  <2> HIDE DEF g
  <2>9. HeadingsTo(q, IF i \in TagsOf("h1") /\ Is(i) THEN g ELSE h)
      BY <1>5, <2>8
  <2> QED
      BY <2>9 DEF Is, g
<1>6. CASE ~(i \in TagsOf("h1") /\ Is(i))
  <2>1. HeadsTo(q) = Heads
      BY <1>1, <1>3, <1>6
  <2>2. HeadingsTo(q, h)
      BY <1>4, <2>1 DEF HeadingsTo
  <2> HIDE DEF g
  <2>3. HeadingsTo(q, IF i \in TagsOf("h1") /\ Is(i) THEN g ELSE h)
      BY <1>6, <2>2
  <2> QED
      BY <2>3 DEF Is, g
<1> QED
    BY <1>5, <1>6

LEMMA FoundStep ==
    ASSUME Typed, p \in 1 .. Len(page), FoundTo(p, title, headings, keywords, description, links),
           NEW q \in p + 1 .. Len(page) + 1, \A k \in p + 1 .. q - 1 : ~Outside(k),
           NEW t, NEW h, NEW ks, NEW d, NEW ls, FoundHere(q, t, h, ks, d, ls)
    PROVE  FoundTo(q, t, h, ks, d, ls)
<1> DEFINE n == Len(page)
<1>1. n \in Nat /\ DOMAIN page = 1 .. n
    BY PageIs DEF Typed
<1>2. headings \in Seq(Int \X Int) /\ keywords \in Seq(Int) /\ links \in Seq(Int)
  <2>1. p \in Nat
      BY <1>1
  <2>2. (2 .. p) \X (1 .. n) \subseteq Int \X Int /\ 1 .. p - 1 \subseteq Int
      BY <1>1, <2>1
  <2>3. headings \in Seq((2 .. p) \X (1 .. n)) /\ keywords \in Seq(1 .. p - 1)
        /\ links \in Seq(1 .. p - 1)
      BY DEF Typed
  <2> HIDE DEF n
  <2> QED
      BY <2>2, <2>3, Wider
<1>4. p \in 1 .. n /\ q \in p + 1 .. n + 1
    OBVIOUS
<1> HIDE DEF n
<1>10. ASSUME NEW name
      PROVE  /\ p \in TagsOf(name) => TagsTo(name, q) # {} /\ Max(TagsTo(name, q)) = p
             /\ p \notin TagsOf(name) => TagsTo(name, q) = TagsTo(name, p)
    BY <1>1, <1>4, LastStep
<1>5. TitleTo(q, t)
  <2>1. /\ p \in TagsOf("title") =>
                TagsTo("title", q) # {} /\ Max(TagsTo("title", q)) = p
        /\ p \notin TagsOf("title") => TagsTo("title", q) = TagsTo("title", p)
      BY <1>10
  <2>2. CASE p \in TagsOf("title")
      BY <2>1, <2>2 DEF FoundHere, TitleTo
  <2>3. CASE p \notin TagsOf("title")
      BY <2>1, <2>3 DEF FoundTo, FoundHere, TitleTo
  <2> QED
      BY <2>2, <2>3
<1>6. DescriptionTo(q, d)
  <2>1. /\ p \in TagsOf("meta description") =>
                TagsTo("meta description", q) # {} /\ Max(TagsTo("meta description", q)) = p
        /\ p \notin TagsOf("meta description") => TagsTo("meta description", q) = TagsTo("meta description", p)
      BY <1>10
  <2>2. CASE p \in TagsOf("meta description")
      BY <2>1, <2>2 DEF FoundHere, DescriptionTo
  <2>3. CASE p \notin TagsOf("meta description")
      BY <2>1, <2>3 DEF FoundTo, FoundHere, DescriptionTo
  <2> QED
      BY <2>2, <2>3
<1>7. Lists(ks, TagsTo("meta keywords", q))
    BY <1>1, <1>2, <1>4, ListStep DEF FoundTo, FoundHere
<1>8. Lists(ls, TagsTo("a", q))
    BY <1>1, <1>2, <1>4, ListStep DEF FoundTo, FoundHere
<1>9. HeadingsTo(q, h)
    BY <1>1, <1>2, <1>4, HeadingsStep DEF FoundTo, FoundHere
<1> QED
    BY <1>5, <1>6, <1>7, <1>8, <1>9 DEF FoundTo

\* Every tag the scan of a tame page comes to stands outside.
LEMMA HereOutside ==
    ASSUME Progress, Tame, Orderly, p \in 1 .. Len(page), page[p].kind = "open"
    PROVE  Outside(p)
<1>1. \A r \in RawNames : ~Inside(p, r)
    BY PageIs DEF Tame
<1> QED
    BY <1>1 DEF Orderly, Outside, Regions

LEMMA TagHere ==
    ASSUME Progress, Tame, Orderly, p \in 1 .. Len(page), NEW name
    PROVE  p \in TagsOf(name) <=> page[p].kind = "open" /\ page[p].name = name
<1>1. p \in DOMAIN page
    BY PageIs
<1> QED
    BY <1>1, HereOutside DEF TagsOf

LEMMA EndsHere ==
    ASSUME page[p].name # "comment"
    PROVE  /\ EndTags(p) = Closers
           /\ Extent(p) = <<p + 1, First(Closers) - 1>> /\ Min(EndTags(p)) = First(Closers)
<1>1. EndTags(p) = Closers
    BY DEF EndTags, Closers, Later, Closes
<1> QED
    BY <1>1 DEF Extent, First, Min

\* Over a region as a whole.
LEMMA LeapOver ==
    ASSUME Progress, Tame, NEW s \in Regions, p \in 1 .. Len(page), Opens(p, s),
           NEW m \in p + 1 .. Len(page), Closes(m, s),
           \A k \in p + 1 .. m - 1 : ~Closes(k, s)
    PROVE  /\ \A k \in p + 1 .. (m + 1) - 1 : ~Outside(k)
           /\ \A r \in Regions : ~Inside(m + 1, r)
           /\ \A r \in Regions : ~Inside(p, r)
<1> DEFINE n == Len(page)
<1>1. n \in Nat /\ DOMAIN page = 1 .. n /\ n = Len(page)
    BY PageIs
<1>2. p \in 1 .. n /\ m \in p + 1 .. n
    OBVIOUS
<1>3. Outside(p)
    BY <1>1, <1>2 DEF Tame
<1> HIDE DEF n
<1>4. (\A k \in p + 1 .. m : ~Outside(k)) /\ (\A r \in Regions : ~Inside(m + 1, r))
    BY <1>1, <1>2, <1>3, InsideLeap
<1>5. (m + 1) - 1 = m
    BY <1>1, <1>2
<1> QED
    BY <1>3, <1>4, <1>5 DEF Outside

LEMMA ScanLeap ==
    ASSUME Typed, Tame, Orderly, ScanStep
    PROVE  /\ \A k \in p + 1 .. p' - 1 : ~Outside(k)
           /\ hidden' = {r \in RawNames : Inside(p', r)}
           /\ ~Inside(p', "title") /\ ~Inside(p', "comment")
<1> DEFINE Goal == /\ \A k \in p + 1 .. p' - 1 : ~Outside(k)
                   /\ hidden' = {r \in RawNames : Inside(p', r)}
                   /\ ~Inside(p', "title") /\ ~Inside(p', "comment")
           n == Len(page)
<1>1. Progress /\ n \in Nat /\ DOMAIN page = 1 .. n /\ p \in 1 .. n
  <2>1. Progress
      BY DEF Typed
  <2>2. n \in Nat /\ DOMAIN page = 1 .. n /\ p \in 1 .. n + 1
      BY <2>1, PageIs DEF Progress
  <2>3. p' \in p + 1 .. n + 1
      BY <2>1, ScanForward
  <2> QED
      BY <2>1, <2>2, <2>3
<1>2. hidden = {r \in RawNames : Inside(p, r)} /\ ~Inside(p, "title") /\ ~Inside(p, "comment")
    BY DEF Orderly
<1> DEFINE Ends(s) == {k \in p + 1 .. n : Closes(k, s)}
\* A region as a whole, up to its first end.
<1>3. ASSUME NEW s \in Regions, Opens(p, s), p' = First(Ends(s)) + 1, hidden' = hidden
      PROVE  Goal
  <2> DEFINE m == First(Ends(s))
  <2>1. Ends(s) # {}
      BY <1>1, <1>3 DEF Tame
  <2>2. Ends(s) \in SUBSET Nat
      BY <1>1
  <2>3. m \in Ends(s) /\ \A k \in Ends(s) : m <= k
    <3> HIDE DEF Ends
    <3> QED
        BY <2>1, <2>2, FirstIsLeast
  <2>4. m \in p + 1 .. n /\ Closes(m, s)
      BY <2>3
  <2>5. ASSUME NEW k \in p + 1 .. m - 1 PROVE ~Closes(k, s)
    <3>1. k \in p + 1 .. n /\ ~(m <= k)
        BY <1>1, <2>4
    <3> QED
        BY <2>3, <3>1
  <2> HIDE DEF m
  <2>6. /\ \A k \in p + 1 .. (m + 1) - 1 : ~Outside(k)
        /\ \A r \in Regions : ~Inside(m + 1, r)
        /\ \A r \in Regions : ~Inside(p, r)
      BY <1>1, <1>3, <2>4, <2>5, LeapOver
  <2>7. p' = m + 1
      BY <1>3 DEF m
  <2>8. hidden' = {}
      BY <1>2, <1>3, <2>6 DEF Regions
  <2> QED
      BY <2>6, <2>7, <2>8 DEF Regions
\* One place further on.
<1>4. ASSUME p' = p + 1, ~Opens(p, "title"), ~Opens(p, "comment"),
             hidden' = {r \in RawNames : Opens(p, r) \/ (r \in hidden /\ ~Closes(p, r))}
      PROVE  Goal
  <2>1. \A r : Inside(p', r) <=> Opens(p, r) \/ (Inside(p, r) /\ ~Closes(p, r))
      BY <1>1, <1>4, InsideNext
  <2>2. \A k \in p + 1 .. p' - 1 : FALSE
      BY <1>1, <1>4
  <2> QED
      BY <1>2, <1>4, <2>1, <2>2
<1> HIDE DEF Goal
<1>5. ASSUME Comment PROVE Goal
  <2>1. page[p].kind = "comment" /\ hidden' = hidden /\ p' = After(Later({"uncomment"}))
      BY <1>5 DEF Comment, Here, CommentEnd
  <2>2. Opens(p, "comment") /\ "comment" \in Regions
      BY <2>1 DEF Opens, Regions
  <2>3. Later({"uncomment"}) = Ends("comment")
      BY DEF Later, Closes
  <2>4. Ends("comment") # {}
      BY <1>1, <2>2 DEF Tame
  <2>5. p' = First(Ends("comment")) + 1
      BY <2>1, <2>3, <2>4 DEF After
  <2> HIDE DEF Ends
  <2> QED
      BY <1>3, <2>1, <2>2, <2>5
<1>6. ASSUME Title PROVE Goal
  <2>1. page[p].kind = "open" /\ page[p].name = "title" /\ hidden' = hidden
      BY <1>6 DEF Title, HereTag, Here
  <2>2. Opens(p, "title") /\ "title" \in Regions
      BY <2>1 DEF Opens, Regions
  <2>3. Closers = Ends("title")
      BY <2>1 DEF Closers, Later, Closes
  <2>4. Ends("title") # {}
      BY <1>1, <2>2 DEF Tame
  <2>5. p' = First(Ends("title")) + 1
      BY <1>6, <2>3, <2>4 DEF Title, AfterTitle, After
  <2> HIDE DEF Ends
  <2> QED
      BY <1>3, <2>1, <2>2, <2>5
<1>7. ASSUME RawTag PROVE Goal
  <2>1. /\ page[p].kind \in {"open", "close"} /\ page[p].name \in RawNames
        /\ p' = p + 1 /\ hidden' = RawAfter
      BY <1>7 DEF RawTag, HereTag, Here
  <2>2. ~Opens(p, "title") /\ ~Opens(p, "comment")
      BY <2>1 DEF Opens, RawNames
  <2>3. hidden \subseteq RawNames
      BY DEF Typed
  <2>4. hidden' = {r \in RawNames : Opens(p, r) \/ (r \in hidden /\ ~Closes(p, r))}
    <3>1. CASE page[p].kind = "open"
      <4>1. hidden' = hidden \cup {page[p].name}
          BY <2>1, <3>1 DEF RawAfter
      <4>2. \A r \in RawNames : (Opens(p, r) <=> r = page[p].name) /\ ~Closes(p, r)
          BY <3>1 DEF Opens, Closes, RawNames
      <4> QED
          BY <2>1, <2>3, <4>1, <4>2
    <3>2. CASE page[p].kind = "close"
      <4>1. hidden' = hidden \ {page[p].name}
          BY <2>1, <3>2 DEF RawAfter
      <4>2. \A r \in RawNames : ~Opens(p, r) /\ (Closes(p, r) <=> r = page[p].name)
          BY <3>2 DEF Opens, Closes, RawNames
      <4> QED
          BY <2>1, <2>3, <4>1, <4>2
    <3> QED
        BY <2>1, <3>1, <3>2
  <2> QED
      BY <1>4, <2>1, <2>2, <2>4
<1>8. ASSUME Heading \/ Meta \/ OtherTag \/ Text PROVE Goal
  <2>1. /\ p' = p + 1 /\ hidden' = hidden
        /\ \/ page[p].kind = "open" /\ page[p].name \notin RawNames /\ page[p].name # "title"
           \/ page[p].kind = "close" /\ page[p].name \notin RawNames
           \/ page[p].kind \in {"text", "uncomment"}
      BY <1>8 DEF Heading, Meta, OtherTag, Text, HereTag, Here, RawNames, Handled
  <2>2. ~Opens(p, "title") /\ ~Opens(p, "comment")
      BY <2>1 DEF Opens
  <2>3. \A r \in RawNames : ~Opens(p, r) /\ ~Closes(p, r)
      BY <2>1 DEF Opens, Closes, RawNames
  <2>4. hidden \subseteq RawNames
      BY DEF Typed
  <2> QED
      BY <1>4, <2>1, <2>2, <2>3, <2>4
<1>9. ASSUME StrayLess PROVE FALSE
    BY <1>1, <1>9 DEF StrayLess, Here, Tame
<1>10. Goal
    BY <1>5, <1>6, <1>7, <1>8, <1>9 DEF ScanStep
<1> QED
    BY <1>10 DEF Goal

LEMMA ScanFinds ==
    ASSUME Typed, Tame, Orderly, ScanStep
    PROVE  FoundHere(p', title', headings', keywords', description', links')
<1> DEFINE Goal == FoundHere(p', title', headings', keywords', description', links')
<1>1. Progress /\ p \in 1 .. Len(page)
  <2>1. Progress
      BY DEF Typed
  <2>2. Len(page) \in Nat /\ p \in 1 .. Len(page) + 1 /\ p' \in p + 1 .. Len(page) + 1
      BY <2>1, PageIs, ScanForward DEF Progress
  <2> QED
      BY <2>1, <2>2
<1>2. \A name : p \in TagsOf(name) <=> page[p].kind = "open" /\ page[p].name = name
    BY <1>1, TagHere
<1>9. /\ p \in TagsOf("title") <=> page[p].kind = "open" /\ page[p].name = "title"
      /\ p \in TagsOf("h1") <=> page[p].kind = "open" /\ page[p].name = "h1"
      /\ p \in TagsOf("a") <=> page[p].kind = "open" /\ page[p].name = "a"
      /\ p \in TagsOf("meta keywords") <=>
            page[p].kind = "open" /\ page[p].name = "meta keywords"
      /\ p \in TagsOf("meta description") <=>
            page[p].kind = "open" /\ page[p].name = "meta description"
    BY <1>2, Zenon
<1>3. ASSUME UNCHANGED fields,
             page[p].kind = "open" =>
                page[p].name \notin {"title", "h1", "meta keywords", "meta description", "a"}
      PROVE  Goal
    BY <1>9, <1>3 DEF FoundHere, fields
<1>4. ASSUME Comment \/ RawTag \/ OtherTag \/ Text \/ StrayLess PROVE Goal
  <2>1. UNCHANGED fields
      BY <1>4 DEF Comment, RawTag, OtherTag, Text, StrayLess
  <2>2. page[p].kind = "open" =>
            page[p].name \notin {"title", "h1", "meta keywords", "meta description", "a"}
      BY <1>4 DEF Comment, RawTag, OtherTag, Text, StrayLess, HereTag, Here, Handled, RawNames
  <2> QED
      BY <1>3, <2>1, <2>2
<1>5. ASSUME Title PROVE Goal
  <2>1. page[p].kind = "open" /\ page[p].name = "title"
        /\ UNCHANGED <<headings, keywords, description, links>>
      BY <1>5 DEF Title, HereTag, Here
  <2>2. Closers # {}
    <3>1. p \in DOMAIN page /\ Opens(p, "title") /\ "title" \in Regions
        BY <1>1, <2>1, PageIs DEF Opens, Regions
    <3>2. \E k \in p + 1 .. Len(page) : Closes(k, "title")
        BY <3>1 DEF Tame
    <3> QED
        BY <2>1, <3>2 DEF Closers, Later, Closes
  <2>3. title' = Extent(p)
      BY <1>5, <2>1, <2>2, EndsHere DEF Title
  <2>4. /\ p \in TagsOf("title") /\ p \notin TagsOf("h1") /\ p \notin TagsOf("a")
        /\ p \notin TagsOf("meta keywords") /\ p \notin TagsOf("meta description")
      BY <1>9, <2>1
  <2> QED
      BY <2>1, <2>3, <2>4 DEF FoundHere
<1>6. ASSUME Heading PROVE Goal
  <2>1. page[p].kind = "open" /\ page[p].name = "h1"
        /\ UNCHANGED <<title, keywords, description, links>>
      BY <1>6 DEF Heading, HereTag, Here
  <2>2. headings' = IF EndTags(p) # {} /\ Says(p + 1, Min(EndTags(p)) - 1)
                    THEN Append(headings, Extent(p)) ELSE headings
      BY <1>6, <2>1, EndsHere DEF Heading
  <2>4. /\ p \notin TagsOf("title") /\ p \in TagsOf("h1") /\ p \notin TagsOf("a")
        /\ p \notin TagsOf("meta keywords") /\ p \notin TagsOf("meta description")
      BY <1>9, <2>1
  <2> QED
      BY <2>1, <2>2, <2>4 DEF FoundHere
<1>7. ASSUME Meta PROVE Goal
  <2>1. page[p].kind = "open" /\ UNCHANGED <<title, headings>>
      BY <1>7 DEF Meta, HereTag, Here
  <2>2. \/ /\ page[p].name = "meta keywords" /\ keywords' = Append(keywords, p)
           /\ UNCHANGED <<description, links>>
        \/ /\ page[p].name = "meta description" /\ description' = p
           /\ UNCHANGED <<keywords, links>>
        \/ /\ page[p].name = "a" /\ links' = Append(links, p)
           /\ UNCHANGED <<keywords, description>>
      BY <1>7 DEF Meta, HereTag
  <2>3. p \notin TagsOf("title") /\ p \notin TagsOf("h1")
      BY <1>9, <2>1, <2>2
  <2>4. CASE page[p].name = "meta keywords"
    <3>1. /\ p \in TagsOf("meta keywords") /\ p \notin TagsOf("meta description")
          /\ p \notin TagsOf("a")
        BY <1>9, <2>1, <2>4
    <3> QED
        BY <2>1, <2>2, <2>3, <2>4, <3>1 DEF FoundHere
  <2>5. CASE page[p].name = "meta description"
    <3>1. /\ p \notin TagsOf("meta keywords") /\ p \in TagsOf("meta description")
          /\ p \notin TagsOf("a")
        BY <1>9, <2>1, <2>5
    <3> QED
        BY <2>1, <2>2, <2>3, <2>5, <3>1 DEF FoundHere
  <2>6. CASE page[p].name = "a"
    <3>1. /\ p \notin TagsOf("meta keywords") /\ p \notin TagsOf("meta description")
          /\ p \in TagsOf("a")
        BY <1>9, <2>1, <2>6
    <3> QED
        BY <2>1, <2>2, <2>3, <2>6, <3>1 DEF FoundHere
  <2> QED
      BY <2>2, <2>4, <2>5, <2>6
<1>8. Goal
    BY <1>4, <1>5, <1>6, <1>7 DEF ScanStep
<1> QED
    BY <1>8

\* The page, and so what is to be found in it, does not change.
LEMMA PageStays ==
    ASSUME page' = page
    PROVE  /\ Tame' <=> Tame
           /\ \A i, r : Inside(i, r)' <=> Inside(i, r)
           /\ \A name : TagsOf(name)' = TagsOf(name)
           /\ \A i : EndTags(i)' = EndTags(i) /\ Extent(i)' = Extent(i)
           /\ \A from, to : Says(from, to)' <=> Says(from, to)
BY DEF Tame, Inside, Outside, TagsOf, EndTags, Extent, Says, Opens, Closes

LEMMA TagsStay ==
    ASSUME page' = page, NEW name
    PROVE  TagsTo(name, p)' = TagsTo(name, p')
BY PageStays DEF TagsTo

LEMMA HeadsStay ==
    ASSUME page' = page
    PROVE  HeadsTo(p)' = HeadsTo(p')
<1>1. TagsTo("h1", p)' = TagsTo("h1", p')
    BY TagsStay
<1>2. HeadsTo(p)' = {i \in TagsTo("h1", p') :
                        EndTags(i) # {} /\ Says(i + 1, Min(EndTags(i)) - 1)}
    BY <1>1 DEF HeadsTo, EndTags, Says, Closes
<1> QED
    BY <1>2 DEF HeadsTo

LEMMA HeadingsStay ==
    ASSUME page' = page, HeadingsTo(p', headings')
    PROVE  HeadingsTo(p, headings)'
<1>1. HeadsTo(p)' = HeadsTo(p')
    BY HeadsStay
<1>2. Lists([k \in DOMAIN headings' |-> headings'[k][1] - 1], HeadsTo(p)')
    BY <1>1 DEF HeadingsTo
<1>3. \A k \in DOMAIN headings' : headings'[k] = Extent(headings'[k][1] - 1)
    BY DEF HeadingsTo
<1>4. (\A k \in DOMAIN headings : headings[k] = Extent(headings[k][1] - 1))'
    BY <1>3 DEF Extent, EndTags, Closes
<1> QED
    BY <1>2, <1>4 DEF HeadingsTo

LEMMA OrderlyNext ==
    ASSUME page' = page, hidden' = {r \in RawNames : Inside(p', r)},
           ~Inside(p', "title"), ~Inside(p', "comment"),
           FoundTo(p', title', headings', keywords', description', links')
    PROVE  Orderly'
<1>1. TitleTo(p, title)'
    BY PageStays, TagsStay DEF FoundTo, TitleTo
<1>2. DescriptionTo(p, description)'
  <2>1. TagsTo("meta description", p)' = TagsTo("meta description", p')
      BY TagsStay
  <2> QED
      BY <2>1 DEF FoundTo, DescriptionTo
<1>3. HeadingsTo(p, headings)'
    BY HeadingsStay DEF FoundTo
<1>4. Lists(keywords', TagsTo("meta keywords", p)') /\ Lists(links', TagsTo("a", p)')
    BY TagsStay DEF FoundTo
<1>5. FoundTo(p, title, headings, keywords, description, links)'
    BY <1>1, <1>2, <1>3, <1>4 DEF FoundTo
<1>6. (hidden = {r \in RawNames : Inside(p, r)})'
    BY DEF Inside, Opens, Closes
<1>7. (~Inside(p, "title"))' /\ (~Inside(p, "comment"))'
    BY DEF Inside, Opens, Closes
<1> QED
    BY <1>5, <1>6, <1>7 DEF Orderly

LEMMA FoundInit == Init => Found
<1> SUFFICES ASSUME Init PROVE Found
    OBVIOUS
<1>1. Typed /\ Progress /\ ~done
    BY TypedInit DEF Typed, Init, ScanInit
<1>2. /\ p = 1 /\ hidden = {} /\ title = <<>> /\ headings = <<>> /\ keywords = <<>>
      /\ description = 0 /\ links = <<>>
    BY DEF Init, ScanInit
<1>3. \A r : ~Inside(1, r)
    BY DEF Inside
<1>4. ASSUME NEW name PROVE TagsTo(name, 1) = {}
    BY <1>1, PageIs DEF TagsTo, TagsOf
<1>5. Lists(<<>>, {})
    BY DEF Lists
<1>6. HeadsTo(1) = {}
    BY <1>4 DEF HeadsTo
<1>7. DOMAIN headings = {}
    BY <1>2
<1>8. HeadingsTo(p, headings)
    BY <1>2, <1>6, <1>7 DEF HeadingsTo, Lists
<1>9. TitleTo(p, title) /\ DescriptionTo(p, description)
    BY <1>2, <1>4 DEF TitleTo, DescriptionTo
<1>10. Lists(keywords, TagsTo("meta keywords", p)) /\ Lists(links, TagsTo("a", p))
    BY <1>2, <1>4, <1>5
<1>11. Orderly
    BY <1>2, <1>3, <1>8, <1>9, <1>10 DEF Orderly, FoundTo
<1> QED
    BY <1>1, <1>11 DEF Found

LEMMA FoundNext == Found /\ [Next]_vars => Found'
<1> SUFFICES ASSUME Found, [Next]_vars PROVE Found'
    OBVIOUS
<1>1. Typed /\ (done => p > Len(page)) /\ (Tame => Orderly) /\ Progress
    BY DEF Found, Typed
<1>2. CASE ScanStep /\ UNCHANGED <<tokens, tokenized, query, snippet>>
  <2>1. Typed'
      BY <1>1, <1>2, TypedScan
  <2>2. page' = page /\ p' \in p + 1 .. Len(page) + 1 /\ p \in 1 .. Len(page)
    <3>1. page' = page /\ p' \in p + 1 .. Len(page) + 1
        BY <1>1, <1>2, ScanForward
    <3>2. Len(page) \in Nat /\ p \in 1 .. Len(page) + 1
        BY <1>1, PageIs DEF Progress
    <3> QED
        BY <3>1, <3>2
  <2>3. ASSUME Tame PROVE Orderly'
    <3>1. /\ \A k \in p + 1 .. p' - 1 : ~Outside(k)
          /\ hidden' = {r \in RawNames : Inside(p', r)}
          /\ ~Inside(p', "title") /\ ~Inside(p', "comment")
        BY <1>1, <1>2, <2>3, ScanLeap
    <3>2. FoundHere(p', title', headings', keywords', description', links')
        BY <1>1, <1>2, <2>3, ScanFinds
    <3>3. FoundTo(p, title, headings, keywords, description, links)
        BY <1>1, <2>3 DEF Orderly
    <3>4. FoundTo(p', title', headings', keywords', description', links')
        BY <1>1, <2>2, <3>1, <3>2, <3>3, FoundStep
    <3> QED
        BY <2>2, <3>1, <3>4, OrderlyNext
  <2>4. Tame' => Tame
      BY <2>2, PageStays
  <2>5. ~done'
      BY <1>2 DEF ScanStep, Comment, StrayLess, RawTag, Title, Heading, Meta, OtherTag, Text,
             HereTag, Here
  <2> QED
      BY <2>1, <2>3, <2>4, <2>5 DEF Found
<1>3. ASSUME UNCHANGED <<page, p, hidden, title, headings, keywords, description, links>>
      PROVE  (Tame => Orderly)'
  <2>1. Tame' => Tame
      BY <1>3, PageStays
  <2>2. ASSUME Orderly PROVE Orderly'
      BY <1>3, <2>2, OrderlyNext DEF Orderly
  <2> QED
      BY <1>1, <2>1, <2>2
<1>4. CASE Finish /\ UNCHANGED <<tokens, tokenized, query, snippet>>
  <2>1. UNCHANGED <<page, p, hidden, title, headings, keywords, description, links, tokenized>>
        /\ done' \in BOOLEAN
      BY <1>4 DEF Finish, fields
  <2>2. body' \in Seq((1 .. p - 1) \X Nat)
    <3>1. body \in Seq((1 .. p - 1) \X Nat)
        BY <1>1 DEF Typed
    <3>2. body' = body \/ (body # <<>> /\ body' = SubSeq(body, 1, Len(body) - 1))
        BY <1>4 DEF Finish
    <3> QED
        BY <3>1, <3>2, Trimmed
  <2>3. Progress'
      BY <1>1, <1>4, NextInd DEF Next, Scan
  <2>4. Typed'
      BY <1>1, <2>1, <2>2, <2>3 DEF Typed
  <2>5. p' > Len(page')
      BY <1>4, <2>1 DEF Finish
  <2> QED
      BY <1>3, <2>1, <2>4, <2>5 DEF Found
<1>5. CASE Tokenize \/ (\E terms \in Queries : Show(terms)) \/ UNCHANGED vars
  <2>1. UNCHANGED scanVars /\ tokenized' \in BOOLEAN
      BY <1>1, <1>5 DEF Tokenize, Show, vars, scanVars, Typed
  <2>2. Progress'
      BY <1>1, <2>1 DEF scanVars, Progress
  <2>3. Typed'
      BY <1>1, <2>1, <2>2 DEF Typed, scanVars
  <2>4. done' => p' > Len(page')
      BY <1>1, <2>1 DEF scanVars
  <2> QED
      BY <1>3, <2>1, <2>3, <2>4 DEF Found, scanVars
<1> QED
    BY <1>2, <1>4, <1>5 DEF Next, Scan

\* Every field of a page whose regions end and do not overlap is found, and nothing
\* that stands in a comment or in the title is taken for one (html_parse_document).
THEOREM AlwaysFound == Spec => []FieldsFound
<1>1. Found => FieldsFound
  <2> SUFFICES ASSUME Found PROVE FieldsFound
      OBVIOUS
  <2>1. TypeOK /\ Progress
      BY TypedIsType DEF Found, Typed
  <2>2. SUFFICES ASSUME done, Tame
                 PROVE  LET heads == {i \in TagsOf("h1") :
                                        EndTags(i) # {} /\ Says(i + 1, Min(EndTags(i)) - 1)}
                        IN  /\ title = IF TagsOf("title") = {} THEN <<>>
                                       ELSE Extent(Max(TagsOf("title")))
                            /\ Lists([k \in DOMAIN headings |-> headings[k][1] - 1], heads)
                            /\ \A k \in DOMAIN headings :
                                    headings[k] = Extent(headings[k][1] - 1)
                            /\ Lists(keywords, TagsOf("meta keywords"))
                            /\ Lists(links, TagsOf("a"))
                            /\ description = IF TagsOf("meta description") = {} THEN 0
                                             ELSE Max(TagsOf("meta description"))
      BY <2>1 DEF FieldsFound
  <2>3. FoundTo(p, title, headings, keywords, description, links)
      BY <2>2 DEF Found, Orderly
  <2>4. Len(page) \in Nat /\ DOMAIN page = 1 .. Len(page) /\ p \in Nat /\ p > Len(page)
      BY <2>1, <2>2, PageIs DEF Found, Progress
  <2>5. ASSUME NEW name PROVE TagsTo(name, p) = TagsOf(name)
      BY <2>4 DEF TagsTo, TagsOf
  <2>6. HeadsTo(p) = {i \in TagsOf("h1") :
                        EndTags(i) # {} /\ Says(i + 1, Min(EndTags(i)) - 1)}
      BY <2>5 DEF HeadsTo
  <2>7. /\ TagsTo("title", p) = TagsOf("title") /\ TagsTo("a", p) = TagsOf("a")
        /\ TagsTo("meta keywords", p) = TagsOf("meta keywords")
        /\ TagsTo("meta description", p) = TagsOf("meta description")
      BY <2>5
  <2> QED
      BY <2>3, <2>6, <2>7 DEF FoundTo, TitleTo, HeadingsTo, DescriptionTo
<1> QED
    BY <1>1, FoundInit, FoundNext, PTL DEF Spec

-----------------------------------------------------------------------------
(* The tokens of one text.                                                  *)

\* The words that have ended before a place, among the words of field f.
Ended(W, i) == {w \in W : w[2] < i}
InField(f, S) == {<<f, w[1], w[2]>> : w \in S}

\* The position behind those of earlier fields, B, and of the words S of field f.
Count(B, f, S) == 1 + Cardinality(B \cup InField(f, S))

Item(text, W, B, f, w) == [pos |-> Count(B, f, {v \in W : v[1] < w[1]}),
                           word |-> SubSeq(text, w[1], w[2])]

\* A sequence has the members of a set, by growing position.
Ordered(s, S) ==
    /\ S = {s[k] : k \in DOMAIN s}
    /\ \A j, k \in DOMAIN s : j < k => s[j].pos < s[k].pos

KeptItems(text, W, B, f, S) == {Item(text, W, B, f, w) : w \in {w \in S : Fits(w[2] - w[1] + 1)}}

\* From a on there is no separator up to i, and the buffer holds that stretch, or as
\* much of it as there is room for.
Run(seps, a, i) == (\A k \in a .. i : k \notin seps) /\ (a = 1 \/ a - 1 \in seps)
Filled(text, buf, a, i) ==
    /\ Len(buf) = IF i - a + 1 < BufSize THEN i - a + 1 ELSE BufSize - 1
    /\ \A k \in 1 .. Len(buf) : buf[k] = text[a + k - 1]

Items(V) == [pos : Nat, word : Seq(V)]
TextStates(V) == [buf : Seq(V), pos : Nat, words : Seq(Items(V))]

\* What is kept after the words S.
Taken(st, V, text, W, B, f, S) ==
    /\ st \in TextStates(V)
    /\ IsFiniteSet(B \cup InField(f, S)) /\ st.pos = Count(B, f, S)
    /\ Ordered(st.words, KeptItems(text, W, B, f, S))
    /\ st.pos >= Count(B, f, {})
    /\ \A k \in DOMAIN st.words :
            st.words[k].pos < st.pos /\ st.words[k].pos >= Count(B, f, {})

Scanned(st, V, text, seps, W, B, f, i) ==
    /\ \E a \in 1 .. i + 1 : Run(seps, a, i) /\ Filled(text, st.buf, a, i)
    /\ Taken(st, V, text, W, B, f, Ended(W, i))

LEMMA WordIs ==
    ASSUME NEW n \in Nat, NEW text, DOMAIN text = 1 .. n, Len(text) = n, NEW seps,
           NEW w \in WordPlaces(text, seps)
    PROVE  /\ w[1] \in 1 .. n /\ w[2] \in 1 .. n /\ w[1] <= w[2] /\ w = <<w[1], w[2]>>
           /\ \A k \in w[1] .. w[2] : k \notin seps
           /\ w[1] = 1 \/ w[1] - 1 \in seps
           /\ w[2] = n \/ w[2] + 1 \in seps
<1>1. w \in (1 .. n) \X (1 .. n)
    BY DEF WordPlaces
<1>2. w[1] <= w[2] /\ seps \cap (w[1] .. w[2]) = {}
    BY DEF WordPlaces
<1>3. (w[1] = 1 \/ w[1] - 1 \in seps) /\ (w[2] = n \/ w[2] + 1 \in seps)
    BY DEF WordPlaces
<1> QED
    BY <1>1, <1>2, <1>3

\* No word ends at i, if the stretch up to i is empty or goes on.
LEMMA EndedSame ==
    ASSUME NEW n \in Nat, NEW text, DOMAIN text = 1 .. n, Len(text) = n, NEW seps,
           NEW W, W = WordPlaces(text, seps), NEW i \in 0 .. n,
           \/ i = 0 \/ i \in seps
           \/ i < n /\ i + 1 \notin seps
    PROVE  Ended(W, i + 1) = Ended(W, i)
<1>1. ASSUME NEW w \in W PROVE w[2] < i + 1 <=> w[2] < i
  <2>1. /\ w[1] \in 1 .. n /\ w[2] \in 1 .. n /\ w[1] <= w[2]
        /\ \A k \in w[1] .. w[2] : k \notin seps
        /\ w[2] = n \/ w[2] + 1 \in seps
      BY WordIs
  <2>2. w[2] # i
    <3> SUFFICES ASSUME w[2] = i PROVE FALSE
        OBVIOUS
    <3>1. i # 0 /\ i \in w[1] .. w[2]
        BY <2>1
    <3> QED
        BY <2>1, <3>1
  <2> QED
      BY <2>1, <2>2
<1> QED
    BY <1>1 DEF Ended

\* Where the stretch from a to i ends, it is a word: the next one.
LEMMA EndedNext ==
    ASSUME NEW n \in Nat, NEW text, DOMAIN text = 1 .. n, Len(text) = n, NEW seps,
           NEW W, W = WordPlaces(text, seps), NEW i \in 1 .. n, NEW a \in 1 .. i,
           Run(seps, a, i), i = n \/ i + 1 \in seps
    PROVE  /\ <<a, i>> \in W
           /\ Ended(W, i + 1) = Ended(W, i) \cup {<<a, i>>}
           /\ {v \in W : v[1] < a} = Ended(W, i)
<1>1. <<a, i>> \in W
  <2>1. <<a, i>> \in (DOMAIN text) \X (DOMAIN text)
      OBVIOUS
  <2>2. seps \cap (a .. i) = {}
      BY DEF Run
  <2> QED
      BY <2>1, <2>2 DEF WordPlaces, Run
<1>2. ASSUME NEW w \in W PROVE /\ w[1] < a <=> w[2] < i
                               /\ w[2] < i + 1 <=> w[2] < i \/ w = <<a, i>>
  <2>1. /\ w[1] \in 1 .. n /\ w[2] \in 1 .. n /\ w[1] <= w[2] /\ w = <<w[1], w[2]>>
        /\ \A k \in w[1] .. w[2] : k \notin seps
        /\ w[1] = 1 \/ w[1] - 1 \in seps
        /\ w[2] = n \/ w[2] + 1 \in seps
      BY WordIs
  <2>2. (\A k \in a .. i : k \notin seps) /\ (a = 1 \/ a - 1 \in seps)
      BY DEF Run
  <2>3. ASSUME w[1] < a PROVE w[2] < a - 1
    <3>1. a - 1 \in seps /\ a - 1 \notin w[1] .. w[2]
        BY <2>1, <2>2, <2>3
    <3>2. a - 1 \in Int /\ w[1] <= a - 1
        BY <2>1, <2>3
    <3> QED
        BY <2>1, <3>1, <3>2
  <2>4. ASSUME w[2] < i, ~(w[1] < a) PROVE FALSE
    <3>1. w[2] + 1 \in a .. i /\ w[2] # n
        BY <2>1, <2>4
    <3> QED
        BY <2>1, <2>2, <3>1
  <2>5. ASSUME w[2] = i PROVE w[1] = a
    <3>1. ~(w[1] < a)
        BY <2>1, <2>3, <2>5
    <3>2. ASSUME w[1] > a PROVE FALSE
      <4>1. w[1] - 1 \in a .. i /\ w[1] # 1
          BY <2>1, <2>5, <3>2
      <4> QED
          BY <2>1, <2>2, <4>1
    <3> QED
        BY <2>1, <3>1, <3>2
  <2>6. w[1] < a <=> w[2] < i
      BY <2>1, <2>3, <2>4
  <2>7. w[2] < i + 1 <=> w[2] < i \/ w[2] = i
      BY <2>1
  <2>8. w[2] = i <=> w = <<a, i>>
      BY <2>1, <2>5
  <2> QED
      BY <2>6, <2>7, <2>8
<1>3. Ended(W, i + 1) = Ended(W, i) \cup {<<a, i>>}
  <2>1. i < i + 1
      OBVIOUS
  <2> QED
      BY <1>1, <1>2, <2>1 DEF Ended
<1>4. {v \in W : v[1] < a} = Ended(W, i)
    BY <1>2 DEF Ended
<1> QED
    BY <1>1, <1>3, <1>4

LEMMA OrderedNew ==
    ASSUME NEW V, NEW s \in Seq(Items(V)), NEW S, Ordered(s, S), NEW e \in Items(V),
           \A k \in DOMAIN s : s[k].pos < e.pos
    PROVE  Ordered(Append(s, e), S \cup {e})
<1> DEFINE t == Append(s, e)
           m == Len(s)
<1>1. m \in Nat /\ DOMAIN s = 1 .. m /\ DOMAIN t = 1 .. m + 1
    OBVIOUS
<1>2. t[m + 1] = e /\ \A k \in 1 .. m : t[k] = s[k]
    OBVIOUS
<1>3. S = {s[k] : k \in 1 .. m} /\ \A j, k \in 1 .. m : j < k => s[j].pos < s[k].pos
    BY <1>1 DEF Ordered
<1>4. \A k \in 1 .. m : s[k].pos < e.pos
    BY <1>1
<1> HIDE DEF t, m
<1>5. S \cup {e} = {t[k] : k \in 1 .. m + 1}
  <2>1. ASSUME NEW y \in S \cup {e} PROVE \E k \in 1 .. m + 1 : y = t[k]
    <3>1. CASE y = e
      <4>1. m + 1 \in 1 .. m + 1
          BY <1>1
      <4> QED
          BY <1>2, <3>1, <4>1
    <3>2. CASE y \in S
      <4>1. PICK k \in 1 .. m : y = s[k]
          BY <1>3, <3>2
      <4>2. k \in 1 .. m + 1
          BY <1>1
      <4> QED
          BY <1>2, <4>1, <4>2
    <3> QED
        BY <3>1, <3>2
  <2>2. ASSUME NEW k \in 1 .. m + 1 PROVE t[k] \in S \cup {e}
    <3>1. CASE k = m + 1
        BY <1>2, <3>1
    <3>2. CASE k # m + 1
      <4>1. k \in 1 .. m
          BY <1>1, <3>2
      <4> QED
          BY <1>2, <1>3, <4>1
    <3> QED
        BY <3>1, <3>2
  <2> QED
      BY <2>1, <2>2
<1>6. ASSUME NEW j \in 1 .. m + 1, NEW k \in 1 .. m + 1, j < k PROVE t[j].pos < t[k].pos
  <2>1. j \in 1 .. m
      BY <1>1, <1>6
  <2>2. CASE k = m + 1
      BY <1>2, <1>4, <2>1, <2>2
  <2>3. CASE k # m + 1
    <3>1. k \in 1 .. m
        BY <1>1, <2>3
    <3> QED
        BY <1>2, <1>3, <1>6, <2>1, <3>1
  <2> QED
      BY <2>2, <2>3
<1> QED
    BY <1>1, <1>5, <1>6 DEF Ordered, t

Earlier(B, f) == \A x \in B : x[1] < f /\ x[1] \in Nat
Pairs(S) == \A w \in S : w = <<w[1], w[2]>>

IsPair(w) == w = <<w[1], w[2]>>
Grown(B, f, S, w) ==
    /\ IsFiniteSet(B \cup InField(f, S \cup {w}))
    /\ Count(B, f, S \cup {w}) = Count(B, f, S) + 1
    /\ Count(B, f, S) \in Nat \ {0}

\* One more word takes one more position.
LEMMA CountNew ==
    ASSUME NEW f \in Nat, NEW B, Earlier(B, f), NEW S, Pairs(S), NEW w,
           w \notin S, IsPair(w),
           IsFiniteSet(B \cup InField(f, S))
    PROVE  Grown(B, f, S, w)
<1> DEFINE T == B \cup InField(f, S)
           x == <<f, w[1], w[2]>>
<1>1. B \cup InField(f, S \cup {w}) = T \cup {x}
    BY DEF InField
<1>2. x \notin T
  <2>1. x \notin B
      BY DEF Earlier
  <2>2. ASSUME NEW v \in S, <<f, v[1], v[2]>> = x PROVE FALSE
    <3>1. v[1] = w[1] /\ v[2] = w[2]
        BY <2>2
    <3> QED
        BY <2>2, <3>1 DEF Pairs, IsPair
  <2> QED
      BY <2>1, <2>2 DEF InField
<1>3. IsFiniteSet(T) /\ Cardinality(T) \in Nat
    BY FS_CardinalityType
<1> HIDE DEF T
<1>4. IsFiniteSet(T \cup {x}) /\ Cardinality(T \cup {x}) = Cardinality(T) + 1
    BY <1>2, <1>3, FS_AddElement
<1>5. Count(B, f, S) = 1 + Cardinality(T)
    BY DEF Count, T
<1>6. Count(B, f, S \cup {w}) = 1 + Cardinality(T \cup {x})
    BY <1>1 DEF Count
<1> DEFINE c == Cardinality(T)
<1>7. IsFiniteSet(B \cup InField(f, S \cup {w}))
    BY <1>1, <1>4
<1>8. Count(B, f, S) = 1 + c /\ Count(B, f, S \cup {w}) = 1 + (c + 1) /\ c \in Nat
    BY <1>3, <1>4, <1>5, <1>6
<1> HIDE DEF c
<1>9. Count(B, f, S \cup {w}) = Count(B, f, S) + 1 /\ Count(B, f, S) \in Nat \ {0}
    BY <1>8
<1> QED
    BY <1>7, <1>9 DEF Grown

LEMMA FlushIs ==
    ASSUME NEW V, NEW n \in Nat, NEW text \in Seq(V), Len(text) = n, NEW seps,
           NEW W, W = WordPlaces(text, seps),
           NEW f \in Nat, NEW B, Earlier(B, f),
           NEW i \in 0 .. n, i = n \/ i + 1 \in seps,
           NEW st, Scanned(st, V, text, seps, W, B, f, i)
    PROVE  Flush(st).buf = <<>> /\ Taken(Flush(st), V, text, W, B, f, Ended(W, i + 1))
<1>1. PICK a \in 1 .. i + 1 : Run(seps, a, i) /\ Filled(text, st.buf, a, i)
    BY DEF Scanned
<1>2. Taken(st, V, text, W, B, f, Ended(W, i))
    BY DEF Scanned
<1>3. st \in TextStates(V) /\ st.buf \in Seq(V) /\ st.pos \in Nat /\ st.words \in Seq(Items(V))
    BY <1>2 DEF Taken, TextStates
<1>4. DOMAIN text = 1 .. n
    OBVIOUS
<1>5. CASE st.buf = <<>>
  <2>1. Flush(st) = st
      BY <1>5 DEF Flush
  <2>2. Len(st.buf) = 0
      BY <1>5
  <2>3. i - a + 1 = 0
      BY <1>1, <2>2, BufferHoldsToken DEF Filled
  <2>4. i = 0 \/ i \in seps
      BY <1>1, <2>3 DEF Run
  <2>5. Ended(W, i + 1) = Ended(W, i)
      BY <1>4, <2>4, EndedSame
  <2> QED
      BY <1>2, <1>5, <2>1, <2>5
<1>6. CASE st.buf # <<>>
  <2> DEFINE S == Ended(W, i)
             w == <<a, i>>
             e == [pos |-> st.pos, word |-> st.buf]
             kept == Append(st.words, e)
             new == [buf |-> <<>>, pos |-> st.pos + 1,
                     words |-> IF Fits(Len(st.buf)) THEN kept ELSE st.words]
  <2>1. Flush(st) = new
      BY <1>6 DEF Flush
  <2>2. Len(st.buf) \in Nat \ {0}
      BY <1>3, <1>6
  <2>3. i \in 1 .. n /\ a \in 1 .. i
    <3>1. i - a + 1 # 0
        BY <1>1, <2>2, BufferHoldsToken DEF Filled
    <3> QED
        BY <3>1
  <2>4. /\ w \in W /\ Ended(W, i + 1) = S \cup {w} /\ {v \in W : v[1] < a} = S
      BY <1>1, <1>4, <2>3, EndedNext
  <2>5. w \notin S
      BY DEF Ended
  <2>6. \A v \in S : v = <<v[1], v[2]>>
    <3> SUFFICES ASSUME NEW v \in S PROVE v = <<v[1], v[2]>>
        OBVIOUS
    <3>1. v \in W
        BY DEF Ended
    <3> QED
        BY <1>4, <3>1, WordIs
  <2>7. IsFiniteSet(B \cup InField(f, S)) /\ st.pos = Count(B, f, S)
      BY <1>2 DEF Taken
  <2> HIDE DEF S
  <2>8. /\ IsFiniteSet(B \cup InField(f, S \cup {w}))
        /\ Count(B, f, S \cup {w}) = Count(B, f, S) + 1
    <3>1. w \notin S /\ Pairs(S) /\ IsFiniteSet(B \cup InField(f, S))
        BY <2>5, <2>6, <2>7 DEF Pairs
    <3>2. IsPair(w)
        BY DEF IsPair
    <3> HIDE DEF e, kept, new, w
    <3>3. Grown(B, f, S, w)
        BY <3>1, <3>2, CountNew
    <3> QED
        BY <3>3 DEF Grown
  <2>9. Fits(Len(st.buf)) <=> Fits(i - a + 1)
    <3> DEFINE m == i - a + 1
    <3>1. m \in Nat /\ Len(st.buf) = IF m < BufSize THEN m ELSE BufSize - 1
        BY <1>1, <2>3 DEF Filled
    <3> HIDE DEF m
    <3>2. CASE m < BufSize
        BY <3>1, <3>2 DEF m
    <3>3. CASE ~(m < BufSize)
      <4>1. Len(st.buf) = BufSize - 1
          BY <3>1, <3>3
      <4>2. ~Fits(m) /\ ~Fits(Len(st.buf))
          BY <3>1, <3>3, <4>1, BufferHoldsToken DEF Fits
      <4> QED
          BY <4>2 DEF m
    <3> QED
        BY <3>2, <3>3
  <2>10. ASSUME Fits(i - a + 1) PROVE st.buf = SubSeq(text, a, i)
    <3>1. Len(st.buf) = i - a + 1
      <4>1. ~(i - a + 1 >= BufSize)
          BY <2>3, <2>10, BufferHoldsToken DEF Fits
      <4> QED
          BY <1>1, <2>3, <4>1, BufferHoldsToken DEF Filled
    <3>2. \A k \in 1 .. i - a + 1 : st.buf[k] = text[a + k - 1]
        BY <1>1, <3>1 DEF Filled
    <3>3. SubSeq(text, a, i) = [k \in 1 .. i - a + 1 |-> text[a + k - 1]]
        BY <2>3
    <3>4. st.buf = [k \in 1 .. i - a + 1 |-> st.buf[k]]
        BY <1>3, <3>1
    <3> QED
        BY <3>2, <3>3, <3>4
  <2>11. ASSUME Fits(i - a + 1) PROVE e = Item(text, W, B, f, w)
    <3>1. {v \in W : v[1] < w[1]} = S
        BY <2>4
    <3> QED
        BY <2>7, <2>10, <2>11, <3>1 DEF Item
  <2>12. e \in Items(V)
      BY <1>3 DEF Items
  <2>13. KeptItems(text, W, B, f, S \cup {w}) =
            IF Fits(i - a + 1) THEN KeptItems(text, W, B, f, S) \cup {Item(text, W, B, f, w)}
            ELSE KeptItems(text, W, B, f, S)
    <3>1. w[2] - w[1] + 1 = i - a + 1
        OBVIOUS
    <3> HIDE DEF w
    <3> QED
        BY <3>1 DEF KeptItems
  <2>14. /\ Ordered(st.words, KeptItems(text, W, B, f, S))
         /\ st.pos >= Count(B, f, {})
         /\ \A k \in DOMAIN st.words :
                st.words[k].pos < st.pos /\ st.words[k].pos >= Count(B, f, {})
      BY <1>2 DEF Taken, S
  <2> HIDE DEF e, w
  <2>15. new.words \in Seq(Items(V)) /\ Ordered(new.words, KeptItems(text, W, B, f, S \cup {w}))
    <3>1. CASE Fits(i - a + 1)
      <4>1. new.words = kept
          BY <2>9, <3>1
      <4>2. \A k \in DOMAIN st.words : st.words[k].pos < e.pos
          BY <2>14 DEF e
      <4>3. Ordered(kept, KeptItems(text, W, B, f, S) \cup {e})
          BY <1>3, <2>12, <2>14, <4>2, OrderedNew
      <4>4. kept \in Seq(Items(V))
          BY <1>3, <2>12
      <4> HIDE DEF kept, new
      <4> QED
          BY <2>11, <2>13, <3>1, <4>1, <4>3, <4>4
    <3>2. CASE ~Fits(i - a + 1)
      <4>1. new.words = st.words
          BY <2>9, <3>2
      <4> HIDE DEF kept, new
      <4> QED
          BY <1>3, <2>13, <2>14, <3>2, <4>1
    <3> QED
        BY <3>1, <3>2
  <2>16. new.buf = <<>> /\ new.pos = st.pos + 1 /\ new \in TextStates(V)
    <3>1. <<>> \in Seq(V) /\ st.pos + 1 \in Nat
        BY <1>3
    <3>2. new.words \in Seq(Items(V))
        BY <2>15
    <3> HIDE DEF kept
    <3> QED
        BY <3>1, <3>2 DEF TextStates
  <2>17. Count(B, f, {}) \in Nat
    <3>1. InField(f, {}) = {}
        BY DEF InField
    <3>2. IsFiniteSet(B)
        BY <2>7, FS_Subset
    <3>3. Cardinality(B) \in Nat
        BY <3>2, FS_CardinalityType
    <3>4. B \cup InField(f, {}) = B
        BY <3>1
    <3>5. Count(B, f, {}) = 1 + Cardinality(B)
        BY <3>4 DEF Count
    <3> HIDE DEF e, kept, new, w
    <3> QED
        BY <3>3, <3>5
  <2>18. ASSUME NEW k \in DOMAIN new.words
         PROVE  new.words[k].pos < st.pos + 1 /\ new.words[k].pos >= Count(B, f, {})
    <3>1. CASE new.words = st.words
      <4>1. k \in DOMAIN st.words /\ new.words[k] = st.words[k]
          BY <3>1
      <4>2. st.words[k] \in Items(V)
          BY <1>3, <4>1
      <4>3. st.words[k].pos \in Nat
          BY <4>2 DEF Items
      <4> HIDE DEF new
      <4> QED
          BY <1>3, <2>14, <2>17, <4>1, <4>3
    <3>2. CASE new.words = kept
      <4>1. kept[k] = e \/ (k \in DOMAIN st.words /\ kept[k] = st.words[k])
          BY <1>3, <2>12, <3>2, AppendIs
      <4> HIDE DEF kept, new
      <4>2. CASE kept[k] = e
          BY <1>3, <2>14, <3>2, <4>2 DEF e
      <4>3. CASE k \in DOMAIN st.words /\ kept[k] = st.words[k]
        <5>1. st.words[k] \in Items(V)
            BY <1>3, <4>3
        <5>2. st.words[k].pos \in Nat
            BY <5>1 DEF Items
        <5> QED
            BY <1>3, <2>14, <2>17, <3>2, <4>3, <5>2
      <4> QED
          BY <4>1, <4>2, <4>3
    <3>3. new.words = st.words \/ new.words = kept
        OBVIOUS
    <3> QED
        BY <3>1, <3>2, <3>3
  <2> HIDE DEF new
  <2>19. new.pos = Count(B, f, S \cup {w}) /\ new.pos >= Count(B, f, {})
      BY <1>3, <2>7, <2>8, <2>14, <2>16, <2>17
  <2>20. Taken(new, V, text, W, B, f, S \cup {w})
      BY <2>8, <2>15, <2>16, <2>18, <2>19 DEF Taken
  <2> QED
      BY <2>1, <2>4, <2>16, <2>20 DEF w
<1> QED
    BY <1>5, <1>6

\* A character of a word.
LEMMA PushIs ==
    ASSUME NEW V, NEW n \in Nat, NEW text \in Seq(V), Len(text) = n, NEW seps,
           NEW W, W = WordPlaces(text, seps), NEW f \in Nat, NEW B,
           NEW i \in 1 .. n, i \notin seps,
           NEW st, Scanned(st, V, text, seps, W, B, f, i - 1)
    PROVE  Scanned(Push(st, text[i]), V, text, seps, W, B, f, i)
<1> DEFINE new == Push(st, text[i])
           m == Len(st.buf)
<1>1. PICK a \in 1 .. i : Run(seps, a, i - 1) /\ Filled(text, st.buf, a, i - 1)
    BY DEF Scanned
<1>2. Taken(st, V, text, W, B, f, Ended(W, i - 1))
    BY DEF Scanned
<1>3. st \in TextStates(V) /\ st.buf \in Seq(V) /\ st.pos \in Nat /\ st.words \in Seq(Items(V))
    BY <1>2 DEF Taken, TextStates
<1>4. text[i] \in V
    OBVIOUS
<1>5. new.pos = st.pos /\ new.words = st.words
    BY DEF Push
<1>6. new.buf = IF m + 1 < BufSize THEN Append(st.buf, text[i]) ELSE st.buf
    BY DEF Push, Room
<1>7. new \in TextStates(V)
    BY <1>3, <1>4 DEF Push, TextStates
<1>8. Ended(W, i) = Ended(W, i - 1)
  <2> DEFINE j == i - 1
  <2>1. j \in 0 .. n /\ j < n /\ j + 1 \notin seps /\ DOMAIN text = 1 .. n
      OBVIOUS
  <2>2. j + 1 = i
      OBVIOUS
  <2> HIDE DEF j
  <2>3. Ended(W, j + 1) = Ended(W, j)
      BY <2>1, EndedSame
  <2> QED
      BY <2>2, <2>3 DEF j
<1> HIDE DEF new
<1>9. Taken(new, V, text, W, B, f, Ended(W, i))
    BY <1>2, <1>5, <1>7, <1>8 DEF Taken
<1>10. a \in 1 .. i + 1 /\ Run(seps, a, i)
    BY <1>1 DEF Run
<1>11. Filled(text, new.buf, a, i)
  <2>1. m = IF i - a < BufSize THEN i - a ELSE BufSize - 1
      BY <1>1 DEF Filled
  <2>2. \A k \in 1 .. m : st.buf[k] = text[a + k - 1]
      BY <1>1 DEF Filled
  <2>3. m \in Nat /\ BufSize \in Nat /\ BufSize >= 2
      BY <1>3, BufferHoldsToken
  <2>4. CASE m + 1 < BufSize
    <3>1. new.buf = Append(st.buf, text[i]) /\ m = i - a
        BY <1>6, <2>1, <2>3, <2>4
    <3>2. Len(new.buf) = m + 1 /\ new.buf[m + 1] = text[i]
          /\ \A k \in 1 .. m : new.buf[k] = st.buf[k]
        BY <1>3, <3>1
    <3> HIDE DEF m
    <3>3. ASSUME NEW k \in 1 .. m + 1 PROVE new.buf[k] = text[a + k - 1]
      <4>1. CASE k = m + 1
        <5>1. a + k - 1 = i
            BY <3>1, <4>1
        <5> QED
            BY <3>2, <4>1, <5>1
      <4>2. CASE k # m + 1
        <5>1. k \in 1 .. m
            BY <2>3, <4>2
        <5> QED
            BY <2>2, <3>2, <5>1
      <4> QED
          BY <4>1, <4>2
    <3>4. m + 1 = IF i - a + 1 < BufSize THEN i - a + 1 ELSE BufSize - 1
        BY <2>3, <2>4, <3>1
    <3> QED
        BY <3>2, <3>3, <3>4 DEF Filled
  <2>5. CASE ~(m + 1 < BufSize)
    <3>1. new.buf = st.buf
        BY <1>6, <2>5
    <3>2. m = IF i - a + 1 < BufSize THEN i - a + 1 ELSE BufSize - 1
      <4> HIDE DEF m
      <4> QED
          BY <2>1, <2>3, <2>5
    <3> QED
        BY <2>2, <3>1, <3>2 DEF Filled
  <2> QED
      BY <2>4, <2>5
<1> QED
    BY <1>9, <1>10, <1>11 DEF Scanned, new

\* White space or punctuation.
LEMMA SeparatorIs ==
    ASSUME NEW V, NEW n \in Nat, NEW text \in Seq(V), Len(text) = n, NEW seps,
           NEW W, W = WordPlaces(text, seps),
           NEW f \in Nat, NEW B, Earlier(B, f),
           NEW i \in 1 .. n, i \in seps,
           NEW st, Scanned(st, V, text, seps, W, B, f, i - 1)
    PROVE  Scanned(Flush(st), V, text, seps, W, B, f, i)
<1> DEFINE j == i - 1
<1>1. j \in 0 .. n /\ j + 1 \in seps /\ j + 1 = i /\ Scanned(st, V, text, seps, W, B, f, j)
    OBVIOUS
<1> HIDE DEF j
<1>2. Flush(st).buf = <<>> /\ Taken(Flush(st), V, text, W, B, f, Ended(W, j + 1))
    BY <1>1, FlushIs
<1> DEFINE a == i + 1
           buf == Flush(st).buf
<1>3. a \in 1 .. i + 1 /\ Run(seps, a, i)
    BY DEF Run
<1>4. Filled(text, buf, a, i)
  <2>1. Len(buf) = 0
      BY <1>2
  <2>2. i - a + 1 = 0
      OBVIOUS
  <2> HIDE DEF a, buf
  <2> QED
      BY <2>1, <2>2, BufferHoldsToken DEF Filled
<1> HIDE DEF a
<1> QED
    BY <1>1, <1>2, <1>3, <1>4 DEF Scanned

LEMMA IdleIs ==
    ASSUME NEW V, NEW n \in Nat, NEW text \in Seq(V), Len(text) = n, NEW seps,
           NEW W, W = WordPlaces(text, seps),
           NEW f \in Nat, NEW B, IsFiniteSet(B), NEW pos, pos = Count(B, f, {})
    PROVE  Scanned(Idle(pos), V, text, seps, W, B, f, 0)
<1> DEFINE st == Idle(pos)
<1>1. st.buf = <<>> /\ st.pos = pos /\ st.words = <<>>
    BY DEF Idle
<1>2. B \cup InField(f, {}) = B
    BY DEF InField
<1>3. pos \in Nat
  <2>1. Cardinality(B) \in Nat
      BY FS_CardinalityType
  <2>2. pos = 1 + Cardinality(B)
      BY <1>2 DEF Count
  <2> HIDE DEF st
  <2> QED
      BY <2>1, <2>2
<1>4. Ended(W, 0) = {}
  <2>1. \A w \in W : w[2] \in 1 .. n
    <3>1. DOMAIN text = 1 .. n
        OBVIOUS
    <3> QED
        BY <3>1, WordIs
  <2> QED
      BY <2>1 DEF Ended
<1>5. st \in TextStates(V)
  <2>1. <<>> \in Seq(V) /\ <<>> \in Seq(Items(V))
      BY Nothing
  <2> QED
      BY <1>3, <2>1 DEF Idle, TextStates
<1>6. Ordered(<<>>, KeptItems(text, W, B, f, {}))
    BY DEF Ordered, KeptItems
<1> HIDE DEF st
<1>7. Taken(st, V, text, W, B, f, {})
  <2>1. IsFiniteSet(B \cup InField(f, {})) /\ st.pos = Count(B, f, {})
      BY <1>1, <1>2
  <2>2. st.pos >= Count(B, f, {})
      BY <1>1, <1>3
  <2>3. \A k \in DOMAIN st.words :
            st.words[k].pos < st.pos /\ st.words[k].pos >= Count(B, f, {})
      BY <1>1
  <2> QED
      BY <1>1, <1>5, <1>6, <2>1, <2>2, <2>3 DEF Taken
<1>8. Run(seps, 1, 0) /\ Filled(text, st.buf, 1, 0)
  <2>1. Len(st.buf) = 0
      BY <1>1
  <2> QED
      BY <2>1, BufferHoldsToken DEF Run, Filled
<1>9. 1 \in 1 .. 0 + 1
    OBVIOUS
<1>10. Taken(st, V, text, W, B, f, Ended(W, 0))
    BY <1>4, <1>7
<1>11. Scanned(st, V, text, seps, W, B, f, 0)
    BY <1>8, <1>9, <1>10 DEF Scanned
<1> QED
    BY <1>11 DEF st

LEMMA FlushType ==
    ASSUME NEW V, NEW st \in TextStates(V)
    PROVE  Flush(st) \in TextStates(V)
<1> DEFINE e == [pos |-> st.pos, word |-> st.buf]
           words == IF Fits(Len(st.buf)) THEN Append(st.words, e) ELSE st.words
<1>1. st.buf \in Seq(V) /\ st.pos \in Nat /\ st.words \in Seq(Items(V))
    BY DEF TextStates
<1>2. e \in Items(V)
    BY <1>1 DEF Items
<1> HIDE DEF e
<1>3. Append(st.words, e) \in Seq(Items(V))
    BY <1>1, <1>2, Appended
<1>4. words \in Seq(Items(V))
    BY <1>1, <1>3
<1>5. <<>> \in Seq(V) /\ st.pos + 1 \in Nat
    BY <1>1, Nothing
<1> HIDE DEF words
<1>6. [buf |-> <<>>, pos |-> st.pos + 1, words |-> words] \in TextStates(V)
    BY <1>4, <1>5 DEF TextStates
<1>7. Flush(st) = st \/ Flush(st) = [buf |-> <<>>, pos |-> st.pos + 1, words |-> words]
    BY DEF Flush, words, e
<1> QED
    BY <1>6, <1>7

\* tokenize_text keeps the words that fit and gives every word of the text a position.
LEMMA TokenizedIs ==
    ASSUME NEW V, NEW n \in Nat, NEW text \in Seq(V), Len(text) = n, NEW seps,
           NEW W, W = WordPlaces(text, seps),
           NEW f \in Nat, NEW B, Earlier(B, f), IsFiniteSet(B),
           NEW pos, pos = Count(B, f, {})
    PROVE  Taken(Tokenized(text, seps, pos), V, text, W, B, f, W)
<1> DEFINE S == TextStates(V)
           e == Idle(pos)
           Turn(st, i) == IF i \in seps THEN Flush(st) ELSE Push(st, text[i])
           Is(st, i) == Scanned(st, V, text, seps, W, B, f, i)
           step == [w \in (1 .. n) \X S |-> Turn(w[2], w[1])]
           Aft(g) == [i \in 0 .. n |-> IF i = 0 THEN e
                        ELSE IF i \in seps THEN Flush(g[i - 1]) ELSE Push(g[i - 1], text[i])]
           after == CHOOSE g : g = Aft(g)
<1>1. Tokenized(text, seps, pos) = Flush(after[n])
    BY DEF Tokenized
<1>2. Is(e, 0)
    BY IdleIs
<1>3. e \in S
    BY <1>2 DEF Scanned, Taken
<1>4. \A i \in 1 .. n, st \in S : Turn(st, i) \in S
  <2> SUFFICES ASSUME NEW i \in 1 .. n, NEW st \in S PROVE Turn(st, i) \in S
      OBVIOUS
  <2>1. text[i] \in V
      OBVIOUS
  <2>2. Push(st, text[i]) \in S
    <3>1. st.buf \in Seq(V) /\ st.pos \in Nat /\ st.words \in Seq(Items(V))
        BY DEF TextStates
    <3>2. Append(st.buf, text[i]) \in Seq(V)
        BY <2>1, <3>1
    <3> QED
        BY <3>1, <3>2 DEF Push, TextStates
  <2>3. Flush(st) \in S
      BY FlushType
  <2> QED
      BY <2>2, <2>3
<1>5. ASSUME NEW i \in 1 .. n, NEW st, Is(st, i - 1) PROVE Is(Turn(st, i), i)
  <2>1. CASE i \in seps
      BY <1>5, <2>1, SeparatorIs
  <2>2. CASE i \notin seps
      BY <1>5, <2>2, PushIs
  <2> QED
      BY <2>1, <2>2
<1>6. \A g : Aft(g) = [i \in 0 .. n |-> IF i = 0 THEN e ELSE Turn(g[i - 1], i)]
    OBVIOUS
<1> HIDE DEF S, e, Is, Turn
<1>7. step \in Bodies(n, S)
    BY <1>4 DEF Bodies
<1>8. \A i \in 1 .. n, st \in S : step[<<i, st>>] = Turn(st, i)
    OBVIOUS
<1> HIDE DEF step
<1>9. PICK g : Runs(g, n, S, e, step)
    BY <1>3, <1>7, LoopExists
<1>10. \A i \in 1 .. n : i - 1 \in 0 .. n /\ g[i - 1] \in S
    BY <1>9 DEF Runs
<1>11. \A i \in 0 .. n : g[i] = IF i = 0 THEN e ELSE Turn(g[i - 1], i)
  <2>1. \A i \in 1 .. n : g[i] = step[<<i, g[i - 1]>>]
      BY <1>9 DEF Runs
  <2>2. g[0] = e
      BY <1>9 DEF Runs
  <2>3. \A i \in 1 .. n : g[i] = Turn(g[i - 1], i)
      BY <1>8, <1>10, <2>1
  <2>4. \A i \in 0 .. n : i = 0 \/ i \in 1 .. n
      OBVIOUS
  <2>5. \A i \in 1 .. n : i # 0
      OBVIOUS
  <2> QED
      BY <2>2, <2>3, <2>4, <2>5
<1>12. g = Aft(g)
  <2>1. g = [i \in 0 .. n |-> g[i]]
      BY <1>9 DEF Runs
  <2> HIDE DEF Aft
  <2>2. Aft(g) = [i \in 0 .. n |-> IF i = 0 THEN e ELSE Turn(g[i - 1], i)]
      BY <1>6
  <2> QED
      BY <1>11, <2>1, <2>2
<1> HIDE DEF Aft
<1>13. after = Aft(after)
    BY <1>12
<1> HIDE DEF after
<1>14. \A i \in 0 .. n : after[i] = IF i = 0 THEN e ELSE Turn(after[i - 1], i)
    BY <1>6, <1>13
<1> DEFINE D == {i \in 0 .. n : Is(after[i], i)}
<1>15. 0 \in D
    BY <1>2, <1>14
<1>16. ASSUME NEW i \in 1 .. n, i - 1 \in D PROVE i \in D
  <2>1. i \in 0 .. n /\ i # 0
      OBVIOUS
  <2>2. after[i] = Turn(after[i - 1], i)
      BY <1>14, <2>1
  <2>3. Is(after[i - 1], i - 1)
      BY <1>16
  <2>4. Is(after[i], i)
      BY <1>5, <2>2, <2>3
  <2> QED
      BY <2>1, <2>4
<1> HIDE DEF D
<1>17. n \in D
    BY <1>15, <1>16, CountUp
<1>18. Is(after[n], n)
    BY <1>17 DEF D
<1>19. Ended(W, n + 1) = W
  <2>1. \A w \in W : w[2] \in 1 .. n
    <3>1. DOMAIN text = 1 .. n
        OBVIOUS
    <3> QED
        BY <3>1, WordIs
  <2> QED
      BY <2>1 DEF Ended
<1>20. n \in 0 .. n /\ Scanned(after[n], V, text, seps, W, B, f, n)
    BY <1>18 DEF Is
<1>21. Taken(Flush(after[n]), V, text, W, B, f, Ended(W, n + 1))
    BY <1>20, FlushIs
<1> QED
    BY <1>1, <1>19, <1>21

-----------------------------------------------------------------------------
(* The texts of a document.                                                 *)

LEMMA SeqIs ==
    ASSUME NEW S, NEW s \in Seq(S)
    PROVE  Len(s) \in Nat /\ DOMAIN s = 1 .. Len(s) /\ \A k \in 1 .. Len(s) : s[k] \in S
OBVIOUS

LEMMA FlattenIs ==
    ASSUME NEW V, NEW n \in Nat, NEW seqs \in Seq(Seq(V)), Len(seqs) = n
    PROVE  FlattenSeq(seqs) \in Seq(V)
<1> DEFINE S == Seq(V)
           e == <<>>
           Turn(st, i) == IF i = 1 THEN seqs[i] ELSE st \o seqs[i]
           step == [w \in (1 .. n) \X S |-> Turn(w[2], w[1])]
           Flat(g) == [i \in 1 .. n |-> IF i = 1 THEN seqs[i] ELSE g[i - 1] \o seqs[i]]
           flat == CHOOSE g : g = Flat(g)
<1>1. CASE n = 0
    BY <1>1, Nothing DEF FlattenSeq
<1>2. CASE n # 0
  <2>1. FlattenSeq(seqs) = flat[n]
      BY <1>2 DEF FlattenSeq
  <2>2. e \in S
      BY Nothing
  <2>3. \A i \in 1 .. n : seqs[i] \in S
      OBVIOUS
  <2>4. \A i \in 1 .. n, st \in S : Turn(st, i) \in S
      BY <2>3
  <2> HIDE DEF e
  <2>5. step \in Bodies(n, S)
      BY <2>4 DEF Bodies
  <2>6. \A i \in 1 .. n, st \in S : step[<<i, st>>] = Turn(st, i)
      OBVIOUS
  <2> HIDE DEF S, step
  <2>7. PICK f : Runs(f, n, S, e, step)
      BY <2>2, <2>5, LoopExists
  <2> DEFINE g == [i \in 1 .. n |-> f[i]]
  <2>8. ASSUME NEW i \in 1 .. n PROVE g[i] = IF i = 1 THEN seqs[i] ELSE g[i - 1] \o seqs[i]
    <3>1. i - 1 \in 0 .. n /\ f[i - 1] \in S
        BY <2>7 DEF Runs
    <3>2. f[i] = Turn(f[i - 1], i)
        BY <2>6, <2>7, <3>1 DEF Runs
    <3>3. i # 1 => i - 1 \in 1 .. n
        OBVIOUS
    <3> QED
        BY <3>2, <3>3
  <2>9. g = Flat(g)
      BY <2>8
  <2> HIDE DEF Flat
  <2>10. flat = Flat(flat)
      BY <2>9
  <2> HIDE DEF flat
  <2>11. \A i \in 1 .. n : flat[i] = IF i = 1 THEN seqs[i] ELSE flat[i - 1] \o seqs[i]
      BY <2>10 DEF Flat
  <2> DEFINE D == {i \in 0 .. n : i = 0 \/ flat[i] \in S}
  <2>12. 0 \in D
      OBVIOUS
  <2>13. ASSUME NEW i \in 1 .. n, i - 1 \in D PROVE i \in D
    <3>1. i \in 0 .. n
        OBVIOUS
    <3>2. CASE i = 1
        BY <2>3, <2>11, <3>1, <3>2
    <3>3. CASE i # 1
      <4>1. flat[i - 1] \in S
          BY <2>13, <3>3
      <4>2. flat[i] = flat[i - 1] \o seqs[i]
          BY <2>11, <3>3
      <4>3. flat[i - 1] \o seqs[i] \in S
          BY <2>3, <4>1 DEF S
      <4> QED
          BY <3>1, <4>2, <4>3
    <3> QED
        BY <3>2, <3>3
  <2> HIDE DEF D
  <2>14. n \in D
      BY <2>12, <2>13, CountUp
  <2> QED
      BY <1>2, <2>1, <2>14 DEF D, S
<1> QED
    BY <1>1, <1>2

\* A character of a document: its piece and its place in it.
Places == Nat \X Nat
FieldNames == {"title", "heading", "keywords", "description", "body"}
FieldTexts == [field : FieldNames, text : Seq(Places)]

LEMMA CharsPlaces ==
    ASSUME Progress, NEW i \in 1 .. Len(page)
    PROVE  CharsOf(i) \in Seq(Places)
<1>1. CharsOf(i) \in Seq({i} \X Nat)
    BY CharsType
<1>2. {i} \X Nat \subseteq Places
  <2>1. i \in Nat
      BY PageLength DEF Progress
  <2> QED
      BY <2>1 DEF Places
<1> QED
    BY <1>1, <1>2, Wider

LEMMA SlicePlaces ==
    ASSUME Progress, NEW from \in Nat \ {0}, NEW to \in 0 .. Len(page)
    PROVE  Slice(from, to) \in Seq(Places)
<1> DEFINE n == to - from + 1
           m == IF n > 0 THEN n ELSE 0
           seqs == [i \in 1 .. n |-> CharsOf(from + i - 1)]
<1>1. Len(page) \in Nat
    BY PageLength DEF Progress
<1>2. n \in Int /\ m \in Nat /\ 1 .. n = 1 .. m
    BY <1>1
<1>3. ASSUME NEW i \in 1 .. n PROVE CharsOf(from + i - 1) \in Seq(Places)
  <2>1. from + i - 1 \in 1 .. Len(page)
      BY <1>1
  <2> QED
      BY <2>1, CharsPlaces
<1>4. seqs = [i \in 1 .. m |-> CharsOf(from + i - 1)]
    BY <1>2
<1>5. \A i \in 1 .. m : CharsOf(from + i - 1) \in Seq(Places)
    BY <1>2, <1>3
<1>6. Slice(from, to) = FlattenSeq(seqs)
    BY DEF Slice
<1> HIDE DEF n, m
<1>7. seqs \in Seq(Seq(Places)) /\ Len(seqs) = m
  <2> HIDE DEF seqs
  <2> QED
      BY <1>2, <1>4, <1>5
<1> HIDE DEF seqs
<1> QED
    BY <1>2, <1>6, <1>7, FlattenIs

LEMMA TextsTyped ==
    ASSUME Typed
    PROVE  Texts \in Seq(FieldTexts)
<1> DEFINE n == Len(page)
           t1 == <<[field |-> "title", text |-> TitleText]>>
           t2 == [i \in DOMAIN headings |->
                    [field |-> "heading", text |-> Slice(headings[i][1], headings[i][2])]]
           t3 == [i \in DOMAIN keywords |->
                    [field |-> "keywords", text |-> CharsOf(keywords[i])]]
           t4 == <<[field |-> "description",
                    text |-> IF description = 0 THEN <<>> ELSE CharsOf(description)]>>
           t5 == <<[field |-> "body", text |-> body]>>
<1>1. Progress /\ n \in Nat /\ p \in 1 .. n + 1
    BY PageLength DEF Typed, Progress
<1>2. Texts = t1 \o t2 \o t3 \o t4 \o t5
    BY DEF Texts
<1>3. t1 \in Seq(FieldTexts)
  <2>1. TitleText \in Seq(Places)
    <3>1. CASE title = <<>>
      <4>1. Len(Untitled) \in Nat /\ DOMAIN Untitled = 1 .. Len(Untitled)
        <5> DEFINE C == Characters
        <5>1. Untitled \in Seq(C)
            BY UntitledIsText
        <5> HIDE DEF C
        <5> QED
            BY <5>1, SeqIs
      <4>2. TitleText = [k \in 1 .. Len(Untitled) |-> <<0, k>>]
          BY <3>1, <4>1 DEF TitleText
      <4>3. \A k \in 1 .. Len(Untitled) : <<0, k>> \in Places
          BY <4>1 DEF Places
      <4> QED
          BY <4>1, <4>2, <4>3
    <3>2. CASE title # <<>>
      <4>1. title \in (2 .. p) \X (1 .. n)
          BY <3>2 DEF Typed
      <4>2. title[1] \in Nat \ {0} /\ title[2] \in 0 .. n
          BY <1>1, <4>1
      <4>3. TitleText = Slice(title[1], title[2])
          BY <3>2 DEF TitleText
      <4> HIDE DEF n
      <4> QED
          BY <1>1, <4>2, <4>3, SlicePlaces DEF n
    <3> QED
        BY <3>1, <3>2
  <2> QED
      BY <2>1 DEF FieldTexts, FieldNames
<1>4. t2 \in Seq(FieldTexts)
  <2>1. headings \in Seq((2 .. p) \X (1 .. n))
      BY DEF Typed
  <2>2. Len(headings) \in Nat /\ DOMAIN headings = 1 .. Len(headings)
      BY <2>1
  <2>3. ASSUME NEW i \in 1 .. Len(headings)
        PROVE  [field |-> "heading", text |-> Slice(headings[i][1], headings[i][2])]
                    \in FieldTexts
    <3>1. headings[i] \in (2 .. p) \X (1 .. n)
        BY <2>1, <2>2, <2>3
    <3>2. headings[i][1] \in Nat \ {0} /\ headings[i][2] \in 0 .. n
        BY <1>1, <3>1
    <3>3. Slice(headings[i][1], headings[i][2]) \in Seq(Places)
        BY <1>1, <3>2, SlicePlaces
    <3> QED
        BY <3>3 DEF FieldTexts, FieldNames
  <2> QED
      BY <2>2, <2>3
<1>5. t3 \in Seq(FieldTexts)
  <2>1. keywords \in Seq(1 .. p - 1)
      BY DEF Typed
  <2>2. Len(keywords) \in Nat /\ DOMAIN keywords = 1 .. Len(keywords)
      BY <2>1
  <2>3. ASSUME NEW i \in 1 .. Len(keywords)
        PROVE  [field |-> "keywords", text |-> CharsOf(keywords[i])] \in FieldTexts
    <3>1. keywords[i] \in 1 .. p - 1
      <4> DEFINE C == 1 .. p - 1
      <4>1. keywords \in Seq(C)
          BY <2>1
      <4> HIDE DEF C
      <4>2. keywords[i] \in C
          BY <4>1, <2>3, SeqIs
      <4> QED
          BY <4>2 DEF C
    <3>2. keywords[i] \in 1 .. n
        BY <1>1, <3>1
    <3>3. CharsOf(keywords[i]) \in Seq(Places)
        BY <1>1, <3>2, CharsPlaces
    <3> QED
        BY <3>3 DEF FieldTexts, FieldNames
  <2> QED
      BY <2>2, <2>3
<1>6. t4 \in Seq(FieldTexts)
  <2> DEFINE text == IF description = 0 THEN <<>> ELSE CharsOf(description)
  <2>1. description \in 0 .. p - 1
      BY DEF Typed
  <2>2. text \in Seq(Places)
    <3>1. CASE description = 0
        BY <3>1, Nothing
    <3>2. CASE description # 0
      <4>1. description \in 1 .. n
          BY <1>1, <2>1, <3>2
      <4> QED
          BY <1>1, <3>2, <4>1, CharsPlaces
    <3> QED
        BY <3>1, <3>2
  <2> HIDE DEF text
  <2>3. <<[field |-> "description", text |-> text]>> \in Seq(FieldTexts)
      BY <2>2 DEF FieldTexts, FieldNames
  <2> QED
      BY <2>3 DEF text
<1>7. t5 \in Seq(FieldTexts)
  <2>1. body \in Seq((1 .. p - 1) \X Nat)
      BY DEF Typed
  <2>2. (1 .. p - 1) \X Nat \subseteq Places
      BY <1>1 DEF Places
  <2>3. body \in Seq(Places)
      BY <2>1, <2>2, Wider
  <2> QED
      BY <2>3 DEF FieldTexts, FieldNames
<1> HIDE DEF t1, t2, t3, t4, t5
<1>8. t1 \o t2 \o t3 \o t4 \o t5 \in Seq(FieldTexts)
    BY <1>3, <1>4, <1>5, <1>6, <1>7
<1> QED
    BY <1>2, <1>8

-----------------------------------------------------------------------------
(* The token stream of a document.                                          *)

Tokens == [field : FieldNames, pos : Nat, word : Seq(Places)]
Streams == [pos : Nat, stream : Seq(Tokens)]

LEMMA PosNat ==
    /\ \A s \in Seq(Tokens) : \A k \in DOMAIN s : s[k].pos \in Nat
    /\ \A s \in Seq(Items(Places)) : \A k \in DOMAIN s : s[k].pos \in Nat
<1>1. ASSUME NEW s \in Seq(Tokens), NEW k \in DOMAIN s PROVE s[k].pos \in Nat
  <2>1. s[k] \in Tokens
      OBVIOUS
  <2> QED
      BY <2>1 DEF Tokens
<1>2. ASSUME NEW s \in Seq(Items(Places)), NEW k \in DOMAIN s PROVE s[k].pos \in Nat
  <2>1. s[k] \in Items(Places)
      OBVIOUS
  <2> QED
      BY <2>1 DEF Items
<1> QED
    BY <1>1, <1>2

LEMMA OrderedJoin ==
    ASSUME NEW A, NEW s \in Seq(A), NEW t \in Seq(A), NEW S, NEW T,
           Ordered(s, S), Ordered(t, T),
           \A j \in DOMAIN s, k \in DOMAIN t : s[j].pos < t[k].pos
    PROVE  Ordered(s \o t, S \cup T)
<1> DEFINE m == Len(s)
           n == Len(t)
           u == s \o t
<1>1. m \in Nat /\ n \in Nat /\ DOMAIN s = 1 .. m /\ DOMAIN t = 1 .. n
      /\ DOMAIN u = 1 .. m + n
    OBVIOUS
<1>2. \A k \in 1 .. m : u[k] = s[k]
    BY Joined
<1>3. \A k \in m + 1 .. m + n : u[k] = t[k - m]
    BY Joined
<1>4. S = {s[k] : k \in 1 .. m} /\ \A j, k \in 1 .. m : j < k => s[j].pos < s[k].pos
    BY <1>1 DEF Ordered
<1>5. T = {t[k] : k \in 1 .. n} /\ \A j, k \in 1 .. n : j < k => t[j].pos < t[k].pos
    BY <1>1 DEF Ordered
<1>6. \A j \in 1 .. m, k \in 1 .. n : s[j].pos < t[k].pos
    BY <1>1
<1> HIDE DEF u, m, n
<1>7. \A k \in 1 .. m + n : k \in 1 .. m \/ (k \in m + 1 .. m + n /\ k - m \in 1 .. n)
    BY <1>1
<1>8. S \cup T = {u[k] : k \in 1 .. m + n}
  <2>1. ASSUME NEW y \in S \cup T PROVE \E k \in 1 .. m + n : y = u[k]
    <3>1. CASE y \in S
      <4>1. PICK k \in 1 .. m : y = s[k]
          BY <1>4, <3>1
      <4>2. k \in 1 .. m + n
          BY <1>1
      <4> QED
          BY <1>2, <4>1, <4>2
    <3>2. CASE y \in T
      <4>1. PICK k \in 1 .. n : y = t[k]
          BY <1>5, <3>2
      <4> DEFINE l == k + m
      <4>2. l \in 1 .. m + n /\ l \in m + 1 .. m + n /\ l - m = k
          BY <1>1
      <4> HIDE DEF l
      <4> QED
          BY <1>3, <4>1, <4>2
    <3> QED
        BY <3>1, <3>2
  <2>2. ASSUME NEW k \in 1 .. m + n PROVE u[k] \in S \cup T
      BY <1>2, <1>3, <1>4, <1>5, <1>7
  <2> QED
      BY <2>1, <2>2
<1>9. ASSUME NEW j \in 1 .. m + n, NEW k \in 1 .. m + n, j < k PROVE u[j].pos < u[k].pos
  <2>1. CASE k \in 1 .. m
    <3>1. j \in 1 .. m
        BY <1>1, <1>9, <2>1
    <3> QED
        BY <1>2, <1>4, <1>9, <2>1, <3>1
  <2>2. CASE k \in m + 1 .. m + n /\ k - m \in 1 .. n
    <3>1. CASE j \in 1 .. m
        BY <1>2, <1>3, <1>6, <2>2, <3>1
    <3>2. CASE j \in m + 1 .. m + n /\ j - m \in 1 .. n
      <4>1. j - m < k - m
          BY <1>1, <1>9
      <4>2. t[j - m].pos < t[k - m].pos
          BY <1>5, <2>2, <3>2, <4>1
      <4> QED
          BY <1>3, <2>2, <3>2, <4>2
    <3> QED
        BY <1>7, <3>1, <3>2
  <2> QED
      BY <1>7, <2>1, <2>2
<1> QED
    BY <1>1, <1>8, <1>9 DEF Ordered, u

\* token_stream_add gives each word its field.
Tagged(field, x) == [field |-> field, pos |-> x.pos, word |-> x.word]
TaggedAll(field, s) == [k \in DOMAIN s |-> Tagged(field, s[k])]

LEMMA OrderedTagged ==
    ASSUME NEW field \in FieldNames, NEW s \in Seq(Items(Places)), NEW S, Ordered(s, S)
    PROVE  /\ TaggedAll(field, s) \in Seq(Tokens)
           /\ Ordered(TaggedAll(field, s), {Tagged(field, x) : x \in S})
<1> DEFINE m == Len(s)
           t == TaggedAll(field, s)
<1>1. m \in Nat /\ DOMAIN s = 1 .. m /\ \A k \in 1 .. m : s[k] \in Items(Places)
    BY SeqIs
<1> HIDE DEF m
<1>2. t = [k \in 1 .. m |-> Tagged(field, s[k])]
    BY <1>1 DEF TaggedAll
<1>3. \A k \in 1 .. m : Tagged(field, s[k]) \in Tokens
    BY <1>1 DEF Tagged, Tokens, Items
<1>4. S = {s[k] : k \in 1 .. m} /\ \A j, k \in 1 .. m : j < k => s[j].pos < s[k].pos
    BY <1>1 DEF Ordered
<1>5. \A k \in 1 .. m : t[k] = Tagged(field, s[k]) /\ t[k].pos = s[k].pos
    BY <1>2 DEF Tagged
<1>6. DOMAIN t = 1 .. m
    BY <1>2
<1>7. t \in Seq(Tokens)
    BY <1>1, <1>2, <1>3
<1> HIDE DEF t
<1>8. {Tagged(field, x) : x \in S} = {t[k] : k \in 1 .. m}
    BY <1>4, <1>5
<1>9. \A j, k \in 1 .. m : j < k => t[j].pos < t[k].pos
    BY <1>4, <1>5
<1> QED
    BY <1>6, <1>7, <1>8, <1>9 DEF Ordered, t

\* The words of the first f texts, and the token of a word.
WordsOfField(f) == WordPlaces(Texts[f].text, Seps(Texts[f].text))
WordsTo(f) == {x \in Words : x[1] <= f}
Kept(x) == Fits(x[3] - x[2] + 1)
TokenAt(x) == [field |-> Texts[x[1]].field,
               pos |-> 1 + Cardinality({y \in Words : Before(y, x)}),
               word |-> SubSeq(Texts[x[1]].text, x[2], x[3])]

StreamTo(st, f) ==
    /\ st \in Streams
    /\ IsFiniteSet(WordsTo(f)) /\ st.pos = 1 + Cardinality(WordsTo(f))
    /\ Ordered(st.stream, {TokenAt(x) : x \in {x \in WordsTo(f) : Kept(x)}})
    /\ \A k \in DOMAIN st.stream : st.stream[k].pos < st.pos

LEMMA WordsAre ==
    ASSUME NEW n \in Nat, DOMAIN Texts = 1 .. n, NEW f \in 1 .. n
    PROVE  /\ \A x \in Words : x[1] \in 1 .. n
           /\ WordsTo(f) = WordsTo(f - 1) \cup InField(f, WordsOfField(f))
           /\ \A w \in WordsOfField(f) :
                {y \in Words : Before(y, <<f, w[1], w[2]>>)} =
                    WordsTo(f - 1) \cup InField(f, {v \in WordsOfField(f) : v[1] < w[1]})
<1>1. Words = UNION {InField(g, WordsOfField(g)) : g \in 1 .. n}
    BY DEF Words, InField, WordsOfField
<1>2. \A x : x \in Words <=> \E g \in 1 .. n : \E w \in WordsOfField(g) : x = <<g, w[1], w[2]>>
    BY <1>1 DEF InField
<1> HIDE DEF Words
<1>3. \A x \in Words : x[1] \in 1 .. n
    BY <1>2
<1>4. \A x \in Words : x[1] = f => x \in InField(f, WordsOfField(f))
    BY <1>2 DEF InField
<1>5. \A w \in WordsOfField(f) : <<f, w[1], w[2]>> \in Words
    BY <1>2
<1>6. WordsTo(f) = WordsTo(f - 1) \cup InField(f, WordsOfField(f))
  <2>1. ASSUME NEW x \in WordsTo(f)
        PROVE  x \in WordsTo(f - 1) \cup InField(f, WordsOfField(f))
    <3>1. x \in Words /\ x[1] \in 1 .. n /\ x[1] <= f
        BY <1>3 DEF WordsTo
    <3>2. x[1] = f \/ x[1] <= f - 1
        BY <3>1
    <3> QED
        BY <1>4, <3>1, <3>2 DEF WordsTo
  <2>2. ASSUME NEW x \in WordsTo(f - 1) PROVE x \in WordsTo(f)
    <3>1. x \in Words /\ x[1] \in 1 .. n /\ x[1] <= f - 1
        BY <1>3 DEF WordsTo
    <3>2. x[1] <= f
        BY <3>1
    <3> QED
        BY <3>1, <3>2 DEF WordsTo
  <2>3. ASSUME NEW x \in InField(f, WordsOfField(f)) PROVE x \in WordsTo(f)
    <3>1. PICK w \in WordsOfField(f) : x = <<f, w[1], w[2]>>
        BY DEF InField
    <3>2. x \in Words /\ x[1] = f /\ f <= f
        BY <1>5, <3>1
    <3> QED
        BY <3>2 DEF WordsTo
  <2> QED
      BY <2>1, <2>2, <2>3
<1>7. ASSUME NEW w \in WordsOfField(f)
      PROVE  {y \in Words : Before(y, <<f, w[1], w[2]>>)} =
                WordsTo(f - 1) \cup InField(f, {v \in WordsOfField(f) : v[1] < w[1]})
  <2> DEFINE x == <<f, w[1], w[2]>>
             S == {v \in WordsOfField(f) : v[1] < w[1]}
  <2>1. \A y : Before(y, x) <=> y[1] < f \/ (y[1] = f /\ y[2] < w[1])
      BY DEF Before
  <2>2. ASSUME NEW y \in Words, Before(y, x) PROVE y \in WordsTo(f - 1) \cup InField(f, S)
    <3>1. CASE y[1] < f
      <4>1. y[1] \in 1 .. n
          BY <1>3
      <4>2. y[1] <= f - 1
          BY <3>1, <4>1
      <4> QED
          BY <4>2 DEF WordsTo
    <3>2. CASE y[1] = f /\ y[2] < w[1]
      <4>1. PICK v \in WordsOfField(f) : y = <<f, v[1], v[2]>>
          BY <1>4, <3>2 DEF InField
      <4>2. v \in S
          BY <3>2, <4>1
      <4> QED
          BY <4>1, <4>2 DEF InField
    <3> QED
        BY <2>1, <2>2, <3>1, <3>2
  <2>3. ASSUME NEW y \in WordsTo(f - 1) PROVE y \in Words /\ Before(y, x)
    <3>1. y \in Words /\ y[1] \in 1 .. n /\ y[1] <= f - 1
        BY <1>3 DEF WordsTo
    <3>2. y[1] < f
        BY <3>1
    <3> QED
        BY <2>1, <3>1, <3>2
  <2>4. ASSUME NEW y \in InField(f, S) PROVE y \in Words /\ Before(y, x)
    <3>1. PICK v \in S : y = <<f, v[1], v[2]>>
        BY DEF InField
    <3>2. y[1] = f /\ y[2] < w[1] /\ y \in Words
        BY <1>5, <3>1
    <3> QED
        BY <2>1, <3>2
  <2> HIDE DEF x, S
  <2>5. {y \in Words : Before(y, x)} = WordsTo(f - 1) \cup InField(f, S)
      BY <2>2, <2>3, <2>4 DEF WordsTo
  <2> QED
      BY <2>5 DEF x, S
<1> QED
    BY <1>3, <1>6, <1>7

LEMMA AddFieldIs ==
    ASSUME Typed, NEW n \in Nat, Len(Texts) = n, NEW f \in 1 .. n,
           NEW st, StreamTo(st, f - 1)
    PROVE  StreamTo(AddField(st, Texts[f]), f)
<1> DEFINE t == Texts[f]
           seps == Seps(t.text)
           W == WordsOfField(f)
           B == WordsTo(f - 1)
           out == Tokenized(t.text, seps, st.pos)
           more == TaggedAll(t.field, out.words)
           new == [pos |-> out.pos, stream |-> st.stream \o more]
           old == {TokenAt(x) : x \in {x \in B : Kept(x)}}
           items == {Tagged(t.field, x) : x \in KeptItems(t.text, W, B, f, W)}
<1>1. DOMAIN Texts = 1 .. n /\ t \in FieldTexts
    BY TextsTyped, SeqIs
<1>2. t.text \in Seq(Places) /\ t.field \in FieldNames /\ Len(t.text) \in Nat
    BY <1>1 DEF FieldTexts
<1>3. /\ st \in Streams /\ IsFiniteSet(B) /\ st.pos = 1 + Cardinality(B)
      /\ Ordered(st.stream, old)
      /\ \A k \in DOMAIN st.stream : st.stream[k].pos < st.pos
    BY DEF StreamTo
<1>4. st.pos \in Nat /\ st.stream \in Seq(Tokens)
    BY <1>3 DEF Streams
<1>5. Earlier(B, f)
  <2>1. \A x \in B : x[1] \in 1 .. n /\ x[1] <= f - 1
      BY <1>1, WordsAre DEF WordsTo
  <2> HIDE DEF B
  <2> QED
      BY <2>1 DEF Earlier
<1>6. st.pos = Count(B, f, {})
  <2>1. B \cup InField(f, {}) = B
      BY DEF InField
  <2> QED
      BY <1>3, <2>1 DEF Count
<1>7. W = WordPlaces(t.text, seps)
    BY DEF WordsOfField
<1>8. Taken(out, Places, t.text, W, B, f, W)
  <2> DEFINE text == t.text
             m == Len(text)
  <2>1. text \in Seq(Places) /\ m \in Nat /\ W = WordPlaces(text, seps)
      BY <1>2, <1>7
  <2> HIDE DEF text, seps, W, B, t
  <2>2. Taken(Tokenized(text, seps, st.pos), Places, text, W, B, f, W)
      BY <1>3, <1>5, <1>6, <2>1, TokenizedIs
  <2> QED
      BY <2>2 DEF text
<1>9. WordsTo(f) = B \cup InField(f, W)
    BY <1>1, WordsAre
<1>10. ASSUME NEW w \in W
       PROVE  {y \in Words : Before(y, <<f, w[1], w[2]>>)} =
                    B \cup InField(f, {v \in W : v[1] < w[1]})
    BY <1>1, WordsAre
<1>11. AddField(st, t) = new
    BY DEF AddField, TaggedAll, Tagged
<1>12. ASSUME NEW w \in W
       PROVE  TokenAt(<<f, w[1], w[2]>>) = Tagged(t.field, Item(t.text, W, B, f, w))
  <2> DEFINE x == <<f, w[1], w[2]>>
             S == {v \in W : v[1] < w[1]}
  <2>1. 1 + Cardinality({y \in Words : Before(y, x)}) = Count(B, f, S)
      BY <1>10 DEF Count
  <2>2. x[1] = f /\ x[2] = w[1] /\ x[3] = w[2]
      OBVIOUS
  <2>3. Item(t.text, W, B, f, w).pos = Count(B, f, S)
        /\ Item(t.text, W, B, f, w).word = SubSeq(t.text, w[1], w[2])
      BY DEF Item
  <2> HIDE DEF S, x, B, W
  <2>4. TokenAt(x) = [field |-> t.field, pos |-> Count(B, f, S),
                      word |-> SubSeq(t.text, w[1], w[2])]
      BY <2>1, <2>2 DEF TokenAt
  <2>5. Tagged(t.field, Item(t.text, W, B, f, w)) =
            [field |-> t.field, pos |-> Count(B, f, S), word |-> SubSeq(t.text, w[1], w[2])]
      BY <2>3 DEF Tagged
  <2> QED
      BY <2>4, <2>5 DEF x
<1> HIDE DEF t, seps, W, B, out
<1>13. {TokenAt(x) : x \in {x \in WordsTo(f) : Kept(x)}} = old \cup items
  <2> DEFINE here == {x \in InField(f, W) : Kept(x)}
             fit == {w \in W : Fits(w[2] - w[1] + 1)}
  <2>1. {x \in WordsTo(f) : Kept(x)} = {x \in B : Kept(x)} \cup here
      BY <1>9
  <2>2. here = {<<f, w[1], w[2]>> : w \in fit}
      BY DEF InField, Kept
  <2>3. {TokenAt(x) : x \in here} = {TokenAt(<<f, w[1], w[2]>>) : w \in fit}
      BY <2>2
  <2>4. {TokenAt(<<f, w[1], w[2]>>) : w \in fit} =
            {Tagged(t.field, Item(t.text, W, B, f, w)) : w \in fit}
      BY <1>12
  <2>5. items = {Tagged(t.field, Item(t.text, W, B, f, w)) : w \in fit}
      BY DEF KeptItems
  <2> HIDE DEF items, fit, here
  <2>6. {TokenAt(x) : x \in here} = items
      BY <2>3, <2>4, <2>5
  <2>7. {TokenAt(x) : x \in {x \in B : Kept(x)} \cup here} = old \cup {TokenAt(x) : x \in here}
      OBVIOUS
  <2> QED
      BY <2>1, <2>6, <2>7
<1>14. /\ out \in TextStates(Places)
       /\ IsFiniteSet(B \cup InField(f, W)) /\ out.pos = Count(B, f, W)
       /\ Ordered(out.words, KeptItems(t.text, W, B, f, W))
       /\ out.pos >= Count(B, f, {})
       /\ \A k \in DOMAIN out.words :
                out.words[k].pos < out.pos /\ out.words[k].pos >= Count(B, f, {})
    BY <1>8 DEF Taken
<1>15. out.words \in Seq(Items(Places)) /\ out.pos \in Nat
    BY <1>14 DEF TextStates
<1>16. more \in Seq(Tokens) /\ Ordered(more, items)
  <2> DEFINE field == t.field
             I == KeptItems(t.text, W, B, f, W)
  <2>1. field \in FieldNames /\ Ordered(out.words, I)
      BY <1>2, <1>14
  <2> HIDE DEF field, I
  <2>2. /\ TaggedAll(field, out.words) \in Seq(Tokens)
        /\ Ordered(TaggedAll(field, out.words), {Tagged(field, x) : x \in I})
      BY <1>15, <2>1, OrderedTagged
  <2> QED
      BY <2>2 DEF field, I
<1>17. \A k \in DOMAIN more : more[k].pos >= st.pos /\ more[k].pos < out.pos /\ more[k].pos \in Nat
  <2>1. DOMAIN more = DOMAIN out.words /\ \A k \in DOMAIN more : more[k].pos = out.words[k].pos
      BY DEF TaggedAll, Tagged
  <2>2. \A k \in DOMAIN out.words : out.words[k].pos \in Nat
      BY <1>15, PosNat
  <2> HIDE DEF more
  <2> QED
      BY <1>6, <1>14, <2>1, <2>2
<1>18. \A k \in DOMAIN st.stream : st.stream[k].pos \in Nat /\ st.stream[k].pos < st.pos
    BY <1>3, <1>4, PosNat
<1> HIDE DEF more, old, items
<1>19. \A j \in DOMAIN st.stream, k \in DOMAIN more : st.stream[j].pos < more[k].pos
    BY <1>4, <1>17, <1>18
<1>20. Ordered(st.stream \o more, old \cup items)
    BY <1>3, <1>4, <1>16, <1>19, OrderedJoin
<1>21. st.pos <= out.pos
    BY <1>6, <1>14, <1>15, <1>4
<1>22. ASSUME NEW k \in DOMAIN (st.stream \o more) PROVE (st.stream \o more)[k].pos < out.pos
  <2>1. \/ k \in DOMAIN st.stream /\ (st.stream \o more)[k] = st.stream[k]
        \/ k - Len(st.stream) \in DOMAIN more
           /\ (st.stream \o more)[k] = more[k - Len(st.stream)]
      BY <1>4, <1>16
  <2> QED
      BY <1>4, <1>15, <1>17, <1>18, <1>21, <2>1
<1>23. st.stream \o more \in Seq(Tokens)
    BY <1>4, <1>16
<1>24. new \in Streams /\ new.pos = out.pos /\ new.stream = st.stream \o more
    BY <1>15, <1>23 DEF Streams
<1>25. IsFiniteSet(WordsTo(f)) /\ out.pos = 1 + Cardinality(WordsTo(f))
    BY <1>9, <1>14 DEF Count
<1> HIDE DEF new
<1>26. StreamTo(new, f)
    BY <1>13, <1>20, <1>22, <1>24, <1>25 DEF StreamTo
<1> QED
    BY <1>11, <1>26 DEF t

LEMMA StreamIs ==
    ASSUME Typed
    PROVE  Ordered(Stream, {TokenAt(x) : x \in {x \in Words : Kept(x)}})
<1> DEFINE n == Len(Texts)
           S == Streams
           e == [pos |-> 1, stream |-> <<>>]
           Turn(st, f) == AddField(st, Texts[f])
           Is(st, f) == StreamTo(st, f)
           step == [w \in (1 .. n) \X S |->
                        IF Turn(w[2], w[1]) \in S THEN Turn(w[2], w[1]) ELSE w[2]]
           Aft(g) == [f \in 0 .. n |-> IF f = 0 THEN e ELSE AddField(g[f - 1], Texts[f])]
           after == CHOOSE g : g = Aft(g)
<1>1. Stream = after[n].stream
    BY DEF Stream
<1>2. n \in Nat /\ DOMAIN Texts = 1 .. n
    BY TextsTyped, SeqIs
<1>3. \A x \in Words : x[1] \in 1 .. n
  <2>1. ASSUME NEW x \in Words PROVE 1 \in 1 .. n
      BY <1>2 DEF Words
  <2> QED
      BY <1>2, <2>1, WordsAre
<1>4. Is(e, 0)
  <2>1. WordsTo(0) = {}
      BY <1>2, <1>3 DEF WordsTo
  <2>2. e \in Streams
    <3>1. <<>> \in Seq(Tokens)
        BY Nothing
    <3> QED
        BY <3>1 DEF Streams
  <2>3. IsFiniteSet({}) /\ Cardinality({}) = 0
      BY FS_EmptySet
  <2>4. Ordered(<<>>, {})
      BY DEF Ordered
  <2>5. {TokenAt(x) : x \in {x \in {} : Kept(x)}} = {}
      OBVIOUS
  <2>6. e.pos = 1 /\ e.stream = <<>>
      OBVIOUS
  <2>7. Ordered(e.stream, {TokenAt(x) : x \in {x \in WordsTo(0) : Kept(x)}})
      BY <2>1, <2>4, <2>5, <2>6
  <2>8. \A k \in DOMAIN e.stream : e.stream[k].pos < e.pos
      BY <2>6
  <2> HIDE DEF e
  <2>9. IsFiniteSet(WordsTo(0)) /\ e.pos = 1 + Cardinality(WordsTo(0))
    <3>1. IsFiniteSet(WordsTo(0)) /\ Cardinality(WordsTo(0)) = 0
        BY <2>1, <2>3
    <3> DEFINE c == Cardinality(WordsTo(0))
    <3>2. c = 0
        BY <3>1
    <3> HIDE DEF c
    <3>3. e.pos = 1 + c
        BY <2>6, <3>2
    <3> QED
        BY <3>1, <3>3 DEF c
  <2>10. StreamTo(e, 0)
      BY <2>2, <2>7, <2>8, <2>9 DEF StreamTo
  <2> QED
      BY <2>10
<1>5. ASSUME NEW f \in 1 .. n, NEW st, Is(st, f - 1) PROVE Is(Turn(st, f), f)
  <2> HIDE DEF n
  <2> QED
      BY <1>2, <1>5, AddFieldIs DEF n
<1>6. \A st, f : Is(st, f) => st \in S
    BY DEF StreamTo
<1>7. e \in S
    BY <1>4, <1>6
<1>8. \A g : Aft(g) = [f \in 0 .. n |-> IF f = 0 THEN e ELSE Turn(g[f - 1], f)]
    OBVIOUS
<1> HIDE DEF n, S, e, Is, Turn
<1>9. step \in Bodies(n, S)
    BY DEF Bodies
<1>10. \A f \in 1 .. n, st \in S : Turn(st, f) \in S => step[<<f, st>>] = Turn(st, f)
    OBVIOUS
<1> HIDE DEF step
<1>11. PICK g : Runs(g, n, S, e, step)
    BY <1>2, <1>7, <1>9, LoopExists
<1>12. \A f \in 1 .. n : f - 1 \in 0 .. n /\ f # 0
    BY <1>2
<1>13. g[0] = e /\ \A f \in 1 .. n : g[f] = step[<<f, g[f - 1]>>] /\ g[f - 1] \in S
    BY <1>11, <1>12 DEF Runs
<1> DEFINE G == {f \in 0 .. n : Is(g[f], f)}
<1>14. 0 \in G
    BY <1>2, <1>4, <1>13
<1>15. ASSUME NEW f \in 1 .. n, f - 1 \in G PROVE f \in G /\ g[f] = Turn(g[f - 1], f)
  <2>1. Is(Turn(g[f - 1], f), f)
      BY <1>5, <1>15
  <2>2. g[f] = Turn(g[f - 1], f)
      BY <1>6, <1>10, <1>13, <2>1
  <2> QED
      BY <1>2, <2>1, <2>2
<1> HIDE DEF G
<1>16. \A f \in 0 .. n : f \in G
  <2>1. \A f \in 1 .. n : f - 1 \in G => f \in G
      BY <1>15
  <2> QED
      BY <1>2, <1>14, <2>1, CountUp
<1>17. \A f \in 0 .. n : g[f] = IF f = 0 THEN e ELSE Turn(g[f - 1], f)
  <2>1. \A f \in 1 .. n : g[f] = Turn(g[f - 1], f)
      BY <1>12, <1>15, <1>16
  <2>2. \A f \in 0 .. n : f = 0 \/ f \in 1 .. n
      BY <1>2
  <2> QED
      BY <1>12, <1>13, <2>1, <2>2
<1>18. g = Aft(g)
  <2>1. g = [f \in 0 .. n |-> g[f]]
      BY <1>11 DEF Runs
  <2> HIDE DEF Aft
  <2>2. Aft(g) = [f \in 0 .. n |-> IF f = 0 THEN e ELSE Turn(g[f - 1], f)]
      BY <1>8
  <2> QED
      BY <1>17, <2>1, <2>2
<1> HIDE DEF Aft
<1>19. after = Aft(after)
    BY <1>18
<1> HIDE DEF after
<1>20. \A f \in 0 .. n : after[f] = IF f = 0 THEN e ELSE Turn(after[f - 1], f)
    BY <1>8, <1>19
<1> DEFINE D == {f \in 0 .. n : Is(after[f], f)}
<1>21. 0 \in D
    BY <1>2, <1>4, <1>20
<1>22. ASSUME NEW f \in 1 .. n, f - 1 \in D PROVE f \in D
  <2>1. f \in 0 .. n /\ f # 0
      BY <1>2
  <2>2. after[f] = Turn(after[f - 1], f)
      BY <1>20, <2>1
  <2>3. Is(after[f], f)
      BY <1>5, <1>22, <2>2
  <2> QED
      BY <2>1, <2>3
<1> HIDE DEF D
<1>23. n \in D
    BY <1>2, <1>21, <1>22, CountUp
<1>24. StreamTo(after[n], n)
    BY <1>23 DEF D, Is
<1>25. WordsTo(n) = Words
  <2>1. \A x \in Words : x[1] <= n
      BY <1>2, <1>3
  <2> QED
      BY <2>1 DEF WordsTo
<1> QED
    BY <1>1, <1>24, <1>25 DEF StreamTo

LEMMA TextsStay ==
    ASSUME UNCHANGED scanVars
    PROVE  Texts' = Texts /\ Words' = Words
<1>1. \A i : CharsOf(i)' = CharsOf(i)
    BY DEF CharsOf, scanVars
<1>2. \A from, to : Slice(from, to)' = Slice(from, to)
    BY <1>1 DEF Slice
<1>3. Texts' = Texts
    BY <1>1, <1>2 DEF Texts, TitleText, scanVars
<1>4. \A text : Seps(text)' = Seps(text)
    BY DEF Seps, ClassOf, Class, scanVars
<1>5. \A text : WordPlaces(text, Seps(text))' = WordPlaces(text, Seps(text))
    BY <1>4 DEF WordPlaces
<1> QED
    BY <1>3, <1>5 DEF Words

\* The tokens are those of the fields as they are, which no longer change.
Indexed == Found /\ (tokenized => done /\ TokensExact)

LEMMA IndexedNext == Indexed /\ [Next]_vars => Indexed'
<1> SUFFICES ASSUME Indexed, [Next]_vars PROVE Indexed'
    OBVIOUS
<1>1. Found /\ Typed /\ Found'
    BY FoundNext DEF Indexed, Found
<1>2. CASE Scan /\ UNCHANGED <<tokens, tokenized, query, snippet>>
  <2>1. ~done
      BY <1>2 DEF Scan, Finish, ScanStep, Comment, StrayLess, RawTag, Title, Heading, Meta,
             OtherTag, Text, HereTag, Here
  <2> QED
      BY <1>1, <1>2, <2>1 DEF Indexed
<1>3. CASE Tokenize
  <2>1. done /\ tokens' = Stream /\ UNCHANGED scanVars
      BY <1>3 DEF Tokenize
  <2>2. Texts' = Texts /\ Words' = Words
      BY <2>1, TextsStay
  <2>3. Ordered(tokens', {TokenAt(x) : x \in {x \in Words : Kept(x)}})
      BY <1>1, <2>1, StreamIs
  <2>4. TokensExact'
      BY <2>2, <2>3 DEF TokensExact, Ordered, TokenAt, Kept
  <2> QED
      BY <1>1, <2>1, <2>4 DEF Indexed, scanVars
<1>4. CASE (\E terms \in Queries : Show(terms)) \/ UNCHANGED vars
  <2>1. UNCHANGED <<scanVars, tokens, tokenized>>
      BY <1>4 DEF Show, vars, scanVars
  <2>2. Texts' = Texts /\ Words' = Words
      BY <2>1, TextsStay
  <2>3. TokensExact => TokensExact'
      BY <2>1, <2>2 DEF TokensExact
  <2> QED
      BY <1>1, <2>1, <2>3 DEF Indexed, scanVars
<1> QED
    BY <1>2, <1>3, <1>4 DEF Next

\* The tokens of a document are the words of its fields that fit, each with its number
\* among all words as its position (tokenize_document).
THEOREM AlwaysTokens == Spec => []TokensExact
<1>1. Init => Indexed
    BY FoundInit DEF Indexed, Init
<1>2. Indexed => TokensExact
    BY DEF Indexed, TokensExact
<1> QED
    BY <1>1, <1>2, IndexedNext, PTL DEF Spec

-----------------------------------------------------------------------------
(* The body.                                                                *)

\* Of the visible text before a place the body has all but white space, and the first
\* of every stretch of that; what it ends in is the end of the text, or white space.
VisibleTo(q) == {c \in Visible : c[1] < q}
VisibleAt(q) == {c \in Visible : c[1] = q}
Squeezed(S) == {c \in S : Class(c) # " " \/ Led(S, c)}
Trim(S) == {c \in S : Class(c) # " " \/ (Led(S, c) /\ \E d \in Printed(S) : Before(c, d))}
EndsIn(b, S) == b # <<>> /\ Class(b[Len(b)]) # " " => \A c \in S : ~Before(b[Len(b)], c)
Squeezing(b, S) == InOrder(b, Squeezed(S)) /\ EndsIn(b, S)

Behind(S, c) == \A e \in S : Before(e, c)

LEMMA BeforeIs ==
    ASSUME NEW x \in Chars, NEW y \in Chars
    PROVE  /\ Before(x, y) \/ Before(y, x) \/ x = y
           /\ ~(Before(x, y) /\ Before(y, x)) /\ ~Before(x, x)
<1>1. PICK a \in Nat, c \in Nat : x = <<a, c>>
    BY DEF Chars
<1>2. PICK d \in Nat, f \in Nat : y = <<d, f>>
    BY DEF Chars
<1>3. \/ Before(<<a, c>>, <<d, f>>) \/ Before(<<d, f>>, <<a, c>>) \/ (a = d /\ c = f)
    BY DEF Before
<1>4. ~(Before(<<a, c>>, <<d, f>>) /\ Before(<<d, f>>, <<a, c>>)) /\ ~Before(<<a, c>>, <<a, c>>)
    BY DEF Before
<1> QED
    BY <1>1, <1>2, <1>3, <1>4

\* What has been led by a place still is, and a place leads none before it.
LEMMA LedSame ==
    ASSUME NEW S \in SUBSET Chars, NEW c \in Chars, Behind(S, c), NEW d \in S \cup {c}
    PROVE  Led(S \cup {c}, d) <=> Led(S, d)
<1> DEFINE T == S \cup {c}
<1>1. ~Before(c, d)
  <2>1. CASE d = c
      BY <2>1, BeforeIs
  <2>2. CASE d # c
      BY <2>2, BeforeIs DEF Behind
  <2> QED
      BY <2>1, <2>2
<1>2. ASSUME Led(T, d) PROVE Led(S, d)
  <2>1. PICK b \in Printed(T) : Before(b, d) /\ \A e \in T : Before(b, e) => ~Before(e, d)
      BY <1>2 DEF Led
  <2>2. b \in Printed(S)
      BY <1>1, <2>1 DEF Printed
  <2> QED
      BY <2>1, <2>2 DEF Led
<1>3. ASSUME Led(S, d) PROVE Led(T, d)
  <2>1. PICK b \in Printed(S) : Before(b, d) /\ \A e \in S : Before(b, e) => ~Before(e, d)
      BY <1>3 DEF Led
  <2>2. b \in Printed(T)
      BY DEF Printed
  <2>3. \A e \in T : Before(b, e) => ~Before(e, d)
      BY <1>1, <2>1
  <2> QED
      BY <2>1, <2>2, <2>3 DEF Led
<1> QED
    BY <1>2, <1>3

LEMMA SqueezedNew ==
    ASSUME NEW S \in SUBSET Chars, NEW c \in Chars, Behind(S, c)
    PROVE  Squeezed(S \cup {c}) =
              Squeezed(S) \cup (IF Class(c) # " " \/ Led(S, c) THEN {c} ELSE {})
<1>1. \A d \in S \cup {c} : Led(S \cup {c}, d) <=> Led(S, d)
    BY LedSame
<1>2. Squeezed(S \cup {c}) = {d \in S \cup {c} : Class(d) # " " \/ Led(S, d)}
    BY <1>1 DEF Squeezed
<1>3. {d \in S \cup {c} : Class(d) # " " \/ Led(S, d)} =
            Squeezed(S) \cup (IF Class(c) # " " \/ Led(S, c) THEN {c} ELSE {})
    BY DEF Squeezed
<1> QED
    BY <1>2, <1>3

LEMMA InOrderNew ==
    ASSUME NEW s \in Seq(Chars), NEW S, InOrder(s, S), NEW x \in Chars, Behind(S, x)
    PROVE  InOrder(Append(s, x), S \cup {x})
<1> DEFINE t == Append(s, x)
           m == Len(s)
<1>1. m \in Nat /\ DOMAIN s = 1 .. m /\ DOMAIN t = 1 .. m + 1
    OBVIOUS
<1>2. t[m + 1] = x /\ \A k \in 1 .. m : t[k] = s[k] /\ s[k] \in S
    BY DEF InOrder
<1>3. S = {s[k] : k \in 1 .. m} /\ \A j, k \in 1 .. m : j < k => Before(s[j], s[k])
    BY <1>1 DEF InOrder
<1> HIDE DEF t, m
<1>4. S \cup {x} = {t[k] : k \in 1 .. m + 1}
  <2>1. ASSUME NEW y \in S \cup {x} PROVE \E k \in 1 .. m + 1 : y = t[k]
    <3>1. CASE y = x
      <4>1. m + 1 \in 1 .. m + 1
          BY <1>1
      <4> QED
          BY <1>2, <3>1, <4>1
    <3>2. CASE y \in S
      <4>1. PICK k \in 1 .. m : y = s[k]
          BY <1>3, <3>2
      <4>2. k \in 1 .. m + 1
          BY <1>1
      <4> QED
          BY <1>2, <4>1, <4>2
    <3> QED
        BY <3>1, <3>2
  <2>2. ASSUME NEW k \in 1 .. m + 1 PROVE t[k] \in S \cup {x}
    <3>1. CASE k = m + 1
        BY <1>2, <3>1
    <3>2. CASE k # m + 1
      <4>1. k \in 1 .. m
          BY <1>1, <3>2
      <4> QED
          BY <1>2, <4>1
    <3> QED
        BY <3>1, <3>2
  <2> QED
      BY <2>1, <2>2
<1>5. ASSUME NEW j \in 1 .. m + 1, NEW k \in 1 .. m + 1, j < k PROVE Before(t[j], t[k])
  <2>1. j \in 1 .. m
      BY <1>1, <1>5
  <2>2. CASE k = m + 1
      BY <1>2, <2>1, <2>2 DEF Behind
  <2>3. CASE k # m + 1
    <3>1. k \in 1 .. m
        BY <1>1, <2>3
    <3> QED
        BY <1>2, <1>3, <1>5, <2>1, <3>1
  <2> QED
      BY <2>2, <2>3
<1> QED
    BY <1>1, <1>4, <1>5 DEF InOrder, t

\* The last of a sequence in order comes behind all others of its set.
LEMMA LastInOrder ==
    ASSUME NEW s \in Seq(Chars), NEW S, InOrder(s, S), s # <<>>
    PROVE  /\ s[Len(s)] \in S /\ s[Len(s)] \in Chars
           /\ \A e \in S : e = s[Len(s)] \/ Before(e, s[Len(s)])
<1> DEFINE m == Len(s)
<1>1. m \in Nat /\ m \in 1 .. m /\ DOMAIN s = 1 .. m /\ s[m] \in Chars
    OBVIOUS
<1> HIDE DEF m
<1>2. S = {s[k] : k \in 1 .. m} /\ \A j, k \in 1 .. m : j < k => Before(s[j], s[k])
    BY <1>1 DEF InOrder
<1>3. ASSUME NEW e \in S PROVE e = s[m] \/ Before(e, s[m])
  <2>1. PICK k \in 1 .. m : e = s[k]
      BY <1>2
  <2>2. k = m \/ k < m
      BY <1>1
  <2> QED
      BY <1>1, <1>2, <2>1, <2>2
<1> QED
    BY <1>1, <1>2, <1>3 DEF m

\* White space is led by text exactly if the body ends in text.
LEMMA LedByLast ==
    ASSUME NEW S \in SUBSET Chars, NEW c \in Chars, Behind(S, c),
           NEW b \in Seq(Chars), Squeezing(b, S)
    PROVE  Led(S, c) <=> b # <<>> /\ Class(b[Len(b)]) # " "
<1> DEFINE l == b[Len(b)]
<1>1. b # <<>> => /\ l \in Squeezed(S) /\ l \in Chars
                  /\ \A e \in Squeezed(S) : e = l \/ Before(e, l)
    BY LastInOrder DEF Squeezing
<1>2. ASSUME Led(S, c) PROVE b # <<>> /\ Class(l) # " "
  <2>1. PICK x \in Printed(S) : Before(x, c) /\ \A e \in S : Before(x, e) => ~Before(e, c)
      BY <1>2 DEF Led
  <2>2. x \in Squeezed(S) /\ Class(x) # " "
      BY DEF Printed, Squeezed
  <2>3. b # <<>>
    <3>1. \E k \in DOMAIN b : x = b[k]
        BY <2>2 DEF Squeezing, InOrder
    <3>2. DOMAIN <<>> = {}
        OBVIOUS
    <3> QED
        BY <3>1, <3>2
  <2>4. x = l \/ Before(x, l)
      BY <1>1, <2>2, <2>3
  <2>5. l \in S
      BY <1>1, <2>3 DEF Squeezed
  <2>6. ~Before(x, l)
      BY <2>1, <2>5 DEF Behind
  <2> QED
      BY <2>2, <2>3, <2>4, <2>6
<1>3. ASSUME b # <<>>, Class(l) # " " PROVE Led(S, c)
  <2>1. l \in Printed(S)
      BY <1>1, <1>3 DEF Printed, Squeezed
  <2>2. Before(l, c)
      BY <2>1 DEF Printed, Behind
  <2>3. \A e \in S : ~Before(l, e)
      BY <1>3 DEF Squeezing, EndsIn
  <2> QED
      BY <2>1, <2>2, <2>3 DEF Led
<1> QED
    BY <1>2, <1>3

LEMMA AddSqueezes ==
    ASSUME NEW S \in SUBSET Chars, NEW c \in Chars, Behind(S, c),
           NEW b \in Seq(Chars), Squeezing(b, S)
    PROVE  Squeezing(Add(b, c), S \cup {c})
<1>1. Led(S, c) <=> b # <<>> /\ Class(b[Len(b)]) # " "
    BY LedByLast
<1>2. InOrder(b, Squeezed(S))
    BY DEF Squeezing
<1>3. CASE Class(c) = " " /\ ~Led(S, c)
  <2>1. Add(b, c) = b
      BY <1>1, <1>3 DEF Add
  <2>2. Squeezed(S \cup {c}) = Squeezed(S)
      BY <1>3, SqueezedNew
  <2>3. EndsIn(b, S \cup {c})
      BY <1>1, <1>3 DEF EndsIn
  <2> QED
      BY <1>2, <2>1, <2>2, <2>3 DEF Squeezing
<1>4. CASE Class(c) # " " \/ Led(S, c)
  <2>1. Add(b, c) = Append(b, c)
      BY <1>1, <1>4 DEF Add
  <2>2. Squeezed(S \cup {c}) = Squeezed(S) \cup {c}
      BY <1>4, SqueezedNew
  <2>3. Behind(Squeezed(S), c)
      BY DEF Behind, Squeezed
  <2>4. InOrder(Append(b, c), Squeezed(S) \cup {c})
      BY <1>2, <2>3, InOrderNew
  <2>5. EndsIn(Append(b, c), S \cup {c})
    <3>1. Append(b, c)[Len(Append(b, c))] = c
        OBVIOUS
    <3>2. ASSUME NEW e \in S \cup {c} PROVE ~Before(c, e)
      <4>1. e = c \/ Before(e, c)
          BY DEF Behind
      <4> QED
          BY <4>1, BeforeIs
    <3> QED
        BY <3>1, <3>2 DEF EndsIn
  <2> QED
      BY <2>1, <2>2, <2>4, <2>5 DEF Squeezing
<1> QED
    BY <1>3, <1>4

LEMMA AddedSqueezes ==
    ASSUME NEW S \in SUBSET Chars, NEW b \in Seq(Chars), Squeezing(b, S),
           NEW chars \in Seq(Chars), \A k \in 1 .. Len(chars) : Behind(S, chars[k]),
           \A j, k \in 1 .. Len(chars) : j < k => Before(chars[j], chars[k])
    PROVE  Squeezing(Added(b, chars), S \cup {chars[k] : k \in 1 .. Len(chars)})
<1> DEFINE n == Len(chars)
           To(k) == S \cup {chars[j] : j \in 1 .. k}
<1>1. n \in Nat /\ \A k \in 1 .. n : chars[k] \in Chars
    OBVIOUS
<1>2. PICK f : AddRuns(f, Chars, b, chars)
    BY AddedRuns
<1>3. /\ f \in [0 .. n -> Seq(Chars)] /\ f[0] = b /\ Added(b, chars) = f[n]
      /\ \A k \in 1 .. n : f[k] = Add(f[k - 1], chars[k])
    BY <1>2 DEF AddRuns
<1> DEFINE D == {k \in 0 .. n : Squeezing(f[k], To(k))}
<1>4. 0 \in D
  <2>1. To(0) = S
      OBVIOUS
  <2> HIDE DEF To
  <2> QED
      BY <1>1, <1>3, <2>1
<1>5. ASSUME NEW k \in 1 .. n, k - 1 \in D PROVE k \in D
  <2>1. k - 1 \in 0 .. n /\ k \in 0 .. n /\ f[k - 1] \in Seq(Chars)
      BY <1>1, <1>3
  <2>2. Squeezing(f[k - 1], To(k - 1))
      BY <1>5
  <2>3. \A j \in 1 .. k - 1 : j \in 1 .. n /\ j < k
      BY <1>1
  <2>4. To(k - 1) \in SUBSET Chars
      BY <1>1, <2>3
  <2>5. Behind(To(k - 1), chars[k])
      BY <2>3 DEF Behind
  <2>6. To(k) = To(k - 1) \cup {chars[k]}
    <3>1. \A j : j \in 1 .. k <=> j \in 1 .. k - 1 \/ j = k
        BY <1>1
    <3> QED
        BY <3>1
  <2> HIDE DEF To
  <2>7. Squeezing(Add(f[k - 1], chars[k]), To(k - 1) \cup {chars[k]})
      BY <1>1, <2>1, <2>2, <2>4, <2>5, AddSqueezes
  <2> QED
      BY <1>3, <2>1, <2>6, <2>7
<1> HIDE DEF D
<1>6. n \in D
    BY <1>1, <1>4, <1>5, CountUp
<1> QED
    BY <1>3, <1>6 DEF D, n

\* Behind the last piece: white space at the end is dropped.
LEMMA TrimmedIs ==
    ASSUME NEW S \in SUBSET Chars, NEW b \in Seq(Chars), Squeezing(b, S)
    PROVE  InOrder(IF b # <<>> /\ Class(b[Len(b)]) = " " THEN SubSeq(b, 1, Len(b) - 1) ELSE b,
                   Trim(S))
<1> DEFINE m == Len(b)
           l == b[m]
           T == Squeezed(S)
<1>1. InOrder(b, T)
    BY DEF Squeezing
<1>2. b # <<>> => l \in T /\ l \in Chars /\ \A e \in T : e = l \/ Before(e, l)
    BY <1>1, LastInOrder
<1>3. Trim(S) \subseteq T /\ T \subseteq S /\ Printed(S) \subseteq T /\ Printed(S) \subseteq Trim(S)
    BY DEF Trim, Squeezed, Printed
<1>4. ASSUME NEW c \in T PROVE b # <<>>
  <2>1. \E k \in DOMAIN b : c = b[k]
      BY <1>1, <1>4 DEF InOrder
  <2>2. DOMAIN <<>> = {}
      OBVIOUS
  <2> QED
      BY <2>1, <2>2
<1>5. CASE b # <<>> /\ Class(l) = " "
  <2>1. l \notin Trim(S)
    <3>1. SUFFICES ASSUME NEW d \in Printed(S), Before(l, d) PROVE FALSE
        BY <1>5 DEF Trim
    <3>2. d = l \/ Before(d, l)
        BY <1>2, <1>3, <1>5
    <3> QED
        BY <1>2, <1>3, <1>5, <3>1, <3>2, BeforeIs
  <2>2. ASSUME NEW c \in T, c # l PROVE c \in Trim(S)
    <3>1. CASE Class(c) # " "
        BY <1>3, <3>1 DEF Trim
    <3>2. CASE Class(c) = " "
      <4>1. Before(c, l) /\ Led(S, c) /\ c \in S
          BY <1>2, <1>5, <2>2, <3>2 DEF Squeezed
      <4>2. Led(S, l)
          BY <1>2, <1>5 DEF Squeezed
      <4>3. PICK x \in Printed(S) : Before(x, l) /\ \A e \in S : Before(x, e) => ~Before(e, l)
          BY <4>2 DEF Led
      <4>4. ~Before(x, c)
          BY <4>1, <4>3
      <4>5. x # c
          BY <3>2, <4>3 DEF Printed
      <4>6. Before(c, x)
          BY <1>3, <4>1, <4>3, <4>4, <4>5, BeforeIs
      <4> QED
          BY <4>1, <4>3, <4>6 DEF Trim
    <3> QED
        BY <3>1, <3>2
  <2>3. Trim(S) = T \ {l}
      BY <1>3, <2>1, <2>2
  <2>4. InOrder(SubSeq(b, 1, m - 1), T \ {l})
    <3> DEFINE s == SubSeq(b, 1, m - 1)
    <3>1. m \in Nat \ {0} /\ DOMAIN b = 1 .. m
      <4>1. b # <<>>
          BY <1>5
      <4> QED
          BY <4>1
    <3>2. DOMAIN s = 1 .. m - 1 /\ \A k \in 1 .. m - 1 : s[k] = b[k]
        BY <3>1
    <3>3. T = {b[k] : k \in 1 .. m} /\ \A j, k \in 1 .. m : j < k => Before(b[j], b[k])
        BY <1>1, <3>1 DEF InOrder
    <3> HIDE DEF m, s, T
    <3>4. \A k \in 1 .. m - 1 : k \in 1 .. m /\ m \in 1 .. m /\ k < m
        BY <3>1
    <3>5. ASSUME NEW k \in 1 .. m - 1 PROVE b[k] # l
      <4>1. Before(b[k], l)
          BY <3>3, <3>4
      <4> QED
          BY <1>2, <1>5, <4>1, BeforeIs
    <3>6. T \ {l} = {s[k] : k \in 1 .. m - 1}
      <4>1. ASSUME NEW c \in T \ {l} PROVE \E k \in 1 .. m - 1 : c = s[k]
        <5>1. PICK k \in 1 .. m : c = b[k]
            BY <3>3
        <5>2. k # m
            BY <5>1
        <5>3. k \in 1 .. m - 1
            BY <3>1, <5>2
        <5> QED
            BY <3>2, <5>1, <5>3
      <4>2. ASSUME NEW k \in 1 .. m - 1 PROVE s[k] \in T \ {l}
          BY <3>2, <3>3, <3>4, <3>5
      <4> QED
          BY <4>1, <4>2
    <3>7. \A j, k \in 1 .. m - 1 : j < k => Before(s[j], s[k])
        BY <3>2, <3>3, <3>4
    <3> QED
        BY <3>2, <3>6, <3>7 DEF InOrder, s
  <2> QED
      BY <1>5, <2>3, <2>4
<1>6. CASE ~(b # <<>> /\ Class(l) = " ")
  <2>1. ASSUME NEW c \in T PROVE c \in Trim(S)
    <3>1. CASE Class(c) # " "
        BY <1>3, <3>1 DEF Trim
    <3>2. CASE Class(c) = " "
      <4>1. b # <<>> /\ Class(l) # " "
          BY <1>4, <1>6, <2>1
      <4>2. Before(c, l) /\ l \in Printed(S)
          BY <1>2, <1>3, <2>1, <3>2, <4>1 DEF Printed
      <4> QED
          BY <1>3, <2>1, <3>2, <4>2 DEF Trim, Squeezed
    <3> QED
        BY <3>1, <3>2
  <2>2. Trim(S) = T
      BY <1>3, <2>1
  <2> QED
      BY <1>1, <1>6, <2>2
<1> QED
    BY <1>5, <1>6

\* The body as the scan has it so far, and as it leaves it.
Bodied ==
    /\ Found
    /\ Tame => IF done THEN InOrder(body, Trim(Visible)) ELSE Squeezing(body, VisibleTo(p))

LEMMA VisibleTyped ==
    ASSUME Progress
    PROVE  /\ Visible \in SUBSET Chars
           /\ \A c \in Visible : c[1] \in 1 .. Len(page)
           /\ \A i \in 1 .. Len(page) : DOMAIN page[i].chars = 1 .. Len(page[i].chars)
<1>1. /\ Len(page) \in Nat /\ DOMAIN page = 1 .. Len(page)
      /\ \A i \in 1 .. Len(page) : page[i] \in Pieces
    BY PageIs
<1> DEFINE Classes == Characters
<1>2. \A i \in 1 .. Len(page) : page[i].chars \in Seq(Classes)
    BY <1>1, PiecesKnown
<1> HIDE DEF Classes
<1>3. ASSUME NEW i \in 1 .. Len(page)
      PROVE  DOMAIN page[i].chars = 1 .. Len(page[i].chars) /\ DOMAIN page[i].chars \subseteq Nat
  <2> DEFINE s == page[i].chars
  <2>1. s \in Seq(Classes)
      BY <1>2
  <2> HIDE DEF s
  <2>2. DOMAIN s = 1 .. Len(s) /\ DOMAIN s \subseteq Nat
      BY <2>1
  <2> QED
      BY <2>2 DEF s
<1>4. ASSUME NEW c \in Visible PROVE c \in Chars /\ c[1] \in 1 .. Len(page)
  <2>1. PICK i \in 1 .. Len(page) : c \in {<<i, k>> : k \in DOMAIN page[i].chars}
      BY <1>1 DEF Visible
  <2>2. PICK k \in DOMAIN page[i].chars : c = <<i, k>>
      BY <2>1
  <2>3. i \in Nat /\ k \in Nat
      BY <1>1, <1>3
  <2> QED
      BY <2>2, <2>3 DEF Chars
<1> QED
    BY <1>3, <1>4

\* One piece further on, over those a region hides.
LEMMA VisibleStep ==
    ASSUME Progress, NEW i \in 1 .. Len(page), NEW q \in i + 1 .. Len(page) + 1,
           \A k \in i + 1 .. q - 1 : ~Outside(k)
    PROVE  VisibleTo(q) = VisibleTo(i) \cup VisibleAt(i)
<1>1. Len(page) \in Nat
    BY PageIs
<1>2. ASSUME NEW c \in Visible PROVE c[1] < q <=> c[1] < i \/ c[1] = i
  <2>1. Outside(c[1])
    <3>1. PICK k \in DOMAIN page : Outside(k) /\ c \in {<<k, j>> : j \in DOMAIN page[k].chars}
        BY DEF Visible
    <3>2. c[1] = k
        BY <3>1
    <3> QED
        BY <3>1, <3>2
  <2>2. c[1] \in 1 .. Len(page)
      BY VisibleTyped
  <2>3. c[1] \notin i + 1 .. q - 1
      BY <2>1
  <2> QED
      BY <1>1, <2>2, <2>3
<1> QED
    BY <1>2 DEF VisibleTo, VisibleAt

LEMMA VisibleHere ==
    ASSUME Progress, NEW i \in 1 .. Len(page)
    PROVE  VisibleAt(i) =
              IF page[i].kind \in {"text", "uncomment"} /\ Outside(i)
              THEN {CharsOf(i)[k] : k \in 1 .. Len(CharsOf(i))} ELSE {}
<1>1. i \in DOMAIN page /\ i \in Nat
    BY PageIs
<1> DEFINE shows == page[i].kind \in {"text", "uncomment"} /\ Outside(i)
           own == {<<i, k>> : k \in DOMAIN page[i].chars}
<1>2. VisibleAt(i) = IF shows THEN own ELSE {}
  <2>1. ASSUME NEW c \in VisibleAt(i) PROVE shows /\ c \in own
    <3>1. PICK k \in DOMAIN page : /\ page[k].kind \in {"text", "uncomment"} /\ Outside(k)
                                   /\ c \in {<<k, j>> : j \in DOMAIN page[k].chars}
        BY DEF Visible, VisibleAt
    <3>2. c[1] = k /\ c[1] = i
        BY <3>1 DEF VisibleAt
    <3> QED
        BY <3>1, <3>2
  <2>2. ASSUME shows, NEW c \in own PROVE c \in VisibleAt(i)
    <3>1. c \in Visible
        BY <1>1, <2>2 DEF Visible
    <3>2. c[1] = i
        BY <2>2
    <3> QED
        BY <3>1, <3>2 DEF VisibleAt
  <2> QED
      BY <2>1, <2>2
<1>3. own = {CharsOf(i)[k] : k \in DOMAIN CharsOf(i)} /\ DOMAIN CharsOf(i) = 1 .. Len(CharsOf(i))
  <2>1. CharsOf(i) \in Seq({i} \X Nat)
      BY CharsType
  <2>2. DOMAIN CharsOf(i) = 1 .. Len(CharsOf(i))
      BY <2>1, SeqIs
  <2>3. DOMAIN CharsOf(i) = DOMAIN page[i].chars
        /\ \A k \in DOMAIN CharsOf(i) : CharsOf(i)[k] = <<i, k>>
      BY DEF CharsOf
  <2> QED
      BY <2>2, <2>3
<1> QED
    BY <1>2, <1>3

\* The text of a tame page is read exactly where no region hides it.
LEMMA TextHere ==
    ASSUME Orderly, hidden \subseteq RawNames
    PROVE  hidden = {} <=> Outside(p)
BY DEF Orderly, Outside, Regions

LEMMA ScanSqueezes ==
    ASSUME Typed, Tame, Orderly, Squeezing(body, VisibleTo(p)), ScanStep
    PROVE  Squeezing(body', VisibleTo(p'))
<1>1. Progress /\ body \in Seq(Chars) /\ p \in 1 .. Len(page) /\ p' \in p + 1 .. Len(page) + 1
  <2>1. Progress /\ p \in 1 .. Len(page) + 1 /\ Len(page) \in Nat
      BY PageIs DEF Typed, Progress
  <2>2. p' \in p + 1 .. Len(page) + 1
      BY <2>1, ScanForward
  <2>3. (1 .. p - 1) \X Nat \subseteq Chars /\ body \in Seq((1 .. p - 1) \X Nat)
      BY <2>1 DEF Typed, Chars
  <2>4. body \in Seq(Chars)
      BY <2>3, Wider
  <2> QED
      BY <2>1, <2>2, <2>4
<1>2. VisibleTo(p') = VisibleTo(p) \cup VisibleAt(p)
  <2>1. \A k \in p + 1 .. p' - 1 : ~Outside(k)
      BY ScanLeap
  <2> QED
      BY <1>1, <2>1, VisibleStep
<1> DEFINE S == VisibleTo(p)
           chars == CharsOf(p)
           n == Len(chars)
<1>3. VisibleAt(p) = IF page[p].kind \in {"text", "uncomment"} /\ Outside(p)
                     THEN {chars[k] : k \in 1 .. n} ELSE {}
    BY <1>1, VisibleHere
<1>4. hidden = {} <=> Outside(p)
    BY TextHere DEF Typed
<1>5. S \in SUBSET Chars /\ \A e \in S : e[1] < p
    BY <1>1, VisibleTyped DEF VisibleTo
<1>6. chars \in Seq(Chars) /\ (\A k \in 1 .. n : chars[k] = <<p, k>>)
  <2>1. chars \in Seq({p} \X Nat) /\ p \in Nat
      BY <1>1, CharsType
  <2>2. {p} \X Nat \subseteq Chars
      BY <2>1 DEF Chars
  <2>3. DOMAIN chars = 1 .. n
      BY <2>1, SeqIs
  <2> QED
      BY <2>1, <2>2, <2>3, Wider DEF CharsOf
<1>7. (\A k \in 1 .. n : Behind(S, chars[k]))
      /\ \A j, k \in 1 .. n : j < k => Before(chars[j], chars[k])
  <2> HIDE DEF S, chars
  <2> QED
      BY <1>5, <1>6 DEF Behind, Before
<1>8. CASE Text /\ Outside(p)
  <2>1. body' = Added(body, chars) /\ page[p].kind \in {"text", "uncomment"}
      BY <1>4, <1>8 DEF Text, Here
  <2>2. VisibleTo(p') = S \cup {chars[k] : k \in 1 .. n}
      BY <1>2, <1>3, <1>8, <2>1
  <2> HIDE DEF S, chars
  <2>3. Squeezing(Added(body, chars), S \cup {chars[k] : k \in 1 .. Len(chars)})
      BY <1>1, <1>5, <1>6, <1>7, AddedSqueezes DEF S
  <2> QED
      BY <2>1, <2>2, <2>3
<1>9. CASE ~(Text /\ Outside(p))
  <2>1. body' = body
      BY <1>4, <1>9 DEF ScanStep, Comment, StrayLess, RawTag, Title, Heading, Meta, OtherTag, Text
  <2>2. ~(page[p].kind \in {"text", "uncomment"} /\ Outside(p))
      BY <1>9 DEF ScanStep, Comment, StrayLess, RawTag, Title, Heading, Meta, OtherTag, HereTag,
                  Here
  <2>3. VisibleTo(p') = VisibleTo(p)
      BY <1>2, <1>3, <2>2
  <2> QED
      BY <2>1, <2>3
<1> QED
    BY <1>8, <1>9

\* What a body is compared with does not change while the page stands.
LEMMA VisibleStays ==
    ASSUME page' = page
    PROVE  /\ Visible' = Visible /\ VisibleTo(p)' = VisibleTo(p')
           /\ \A b, S : Squeezing(b, S)' <=> Squeezing(b, S)
           /\ \A S : Trim(S)' = Trim(S)
BY DEF Visible, VisibleTo, Squeezing, Squeezed, EndsIn, InOrder, Trim, Led, Printed, Class,
       Outside, Inside, Opens, Closes

LEMMA BodiedInit == Init => Bodied
<1> SUFFICES ASSUME Init PROVE Bodied
    OBVIOUS
<1>1. Found /\ Progress
    BY FoundInit, InitInd
<1>2. body = <<>> /\ p = 1 /\ done = FALSE
    BY DEF Init, ScanInit
<1>3. VisibleTo(p) = {}
  <2>1. \A c \in Visible : c[1] \in 1 .. Len(page)
      BY <1>1, VisibleTyped
  <2>2. \A c \in Visible : ~(c[1] < 1)
      BY <2>1
  <2> QED
      BY <1>2, <2>2 DEF VisibleTo
<1>4. Squeezing(<<>>, {})
    BY DEF Squeezing, InOrder, EndsIn, Squeezed
<1> QED
    BY <1>1, <1>2, <1>3, <1>4 DEF Bodied

LEMMA BodiedNext == Bodied /\ [Next]_vars => Bodied'
<1> SUFFICES ASSUME Bodied, [Next]_vars PROVE Bodied'
    OBVIOUS
<1>1. Found /\ Found' /\ Typed /\ Progress /\ (Tame => Orderly)
    BY FoundNext DEF Bodied, Found, Typed
<1>2. CASE ScanStep /\ UNCHANGED <<tokens, tokenized, query, snippet>>
  <2>1. page' = page
      BY <1>1, <1>2, ScanForward
  <2>2. ~done /\ ~done'
    <3>1. ~done
        BY <1>2 DEF ScanStep, Comment, StrayLess, RawTag, Title, Heading, Meta, OtherTag, Text,
               HereTag, Here
    <3>2. done' = done
        BY <1>2 DEF ScanStep, Comment, StrayLess, RawTag, Title, Heading, Meta, OtherTag, Text
    <3> QED
        BY <3>1, <3>2
  <2>3. ASSUME Tame PROVE Squeezing(body', VisibleTo(p'))
    <3>1. Squeezing(body, VisibleTo(p))
        BY <2>2, <2>3 DEF Bodied
    <3> QED
        BY <1>1, <1>2, <2>3, <3>1, ScanSqueezes
  <2>4. Tame' => Tame
      BY <2>1, PageStays
  <2>5. Tame' => Squeezing(body, VisibleTo(p))'
      BY <2>1, <2>3, <2>4, VisibleStays
  <2> QED
      BY <1>1, <2>2, <2>5 DEF Bodied
<1>3. CASE Finish /\ UNCHANGED <<tokens, tokenized, query, snippet>>
  <2>1. /\ page' = page /\ ~done /\ done' /\ p > Len(page)
        /\ body' = IF body # <<>> /\ Class(body[Len(body)]) = " "
                   THEN SubSeq(body, 1, Len(body) - 1) ELSE body
      BY <1>3 DEF Finish
  <2>2. ASSUME Tame PROVE InOrder(body', Trim(Visible))
    <3>1. Visible \in SUBSET Chars /\ \A c \in Visible : c[1] \in 1 .. Len(page)
        BY <1>1, VisibleTyped
    <3>2. p \in Nat /\ Len(page) \in Nat
        BY <1>1, PageIs DEF Progress
    <3>3. VisibleTo(p) = Visible
      <4>1. ASSUME NEW c \in Visible PROVE c[1] < p
        <5>1. c[1] \in 1 .. Len(page) /\ p > Len(page)
            BY <2>1, <3>1
        <5> QED
            BY <3>2, <5>1
      <4> QED
          BY <4>1 DEF VisibleTo
    <3>4. Squeezing(body, Visible)
        BY <2>1, <2>2, <3>3 DEF Bodied
    <3>5. body \in Seq(Chars)
      <4>1. (1 .. p - 1) \X Nat \subseteq Chars /\ body \in Seq((1 .. p - 1) \X Nat)
          BY <1>1, <3>2 DEF Typed, Chars
      <4> QED
          BY <4>1, Wider
    <3> QED
        BY <2>1, <3>1, <3>4, <3>5, TrimmedIs
  <2>3. Tame' => Tame
      BY <2>1, PageStays
  <2>4. Tame' => InOrder(body, Trim(Visible))'
      BY <2>1, <2>2, <2>3, VisibleStays DEF InOrder
  <2> QED
      BY <1>1, <2>1, <2>4 DEF Bodied
<1>4. CASE Tokenize \/ (\E terms \in Queries : Show(terms)) \/ UNCHANGED vars
  <2>1. page' = page /\ p' = p /\ body' = body /\ done' = done
      BY <1>4 DEF Tokenize, Show, vars, scanVars
  <2>2. Tame' => Tame
      BY <2>1, PageStays
  <2>3. InOrder(body, Trim(Visible)) => InOrder(body, Trim(Visible))'
      BY <2>1, VisibleStays DEF InOrder
  <2>4. Squeezing(body, VisibleTo(p)) => Squeezing(body, VisibleTo(p))'
      BY <2>1, VisibleStays
  <2> QED
      BY <1>1, <2>1, <2>2, <2>3, <2>4 DEF Bodied
<1> QED
    BY <1>2, <1>3, <1>4 DEF Next, Scan

\* The body of every tame page is its visible text, complete and in order, with white
\* space between and not around its words, and of that one place a stretch
\* (html_parse_document and trim_whitespace).
THEOREM AlwaysVisible == Spec => []BodyIsVisible
<1>1. Bodied => BodyIsVisible
    BY DEF Bodied, BodyIsVisible, Trim
<1> QED
    BY <1>1, BodiedInit, BodiedNext, PTL DEF Spec
=============================================================================
