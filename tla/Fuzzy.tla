------------------------------- MODULE Fuzzy -------------------------------
(***************************************************************************)
(* levenshtein_distance_bounded of backend/src/fuzzy.c, which keeps one     *)
(* column of the matrix and stops when the whole column is beyond the       *)
(* bound, and the recursive definition of the distance.  Words are          *)
(* sequences of letters.                                                    *)
(***************************************************************************)
EXTENDS Integers, Sequences, SequencesExt

Min3(a, b, c) == Min({a, b, c})
Cost(a, b, y, x) == IF a[y] = b[x] THEN 0 ELSE 1

\* Column x of the matrix from the one before.
Column(col, a, b, x) ==
    LET new[y \in 0 .. Len(a)] ==
            IF y = 0 THEN x
            ELSE Min3(col[y] + 1, new[y - 1] + 1, col[y - 1] + Cost(a, b, y, x))
    IN  new

BeyondEarly(col, max) == \A y \in DOMAIN col : col[y] >= max   \* a plausible bug
Beyond(col, max) == \A y \in DOMAIN col : col[y] > max

\* One turn of the loop over b.
NextColumn(m, a, b, x, max) ==
    LET col == Column(m.col, a, b, x)
    IN  IF m.over THEN m ELSE [col |-> col, over |-> Beyond(col, max)]

Bounded(a, b, max) ==
    LET turn[x \in 0 .. Len(b)] ==
            IF x = 0 THEN [col |-> [y \in 0 .. Len(a) |-> y], over |-> FALSE]
            ELSE NextColumn(turn[x - 1], a, b, x, max)
        last == turn[Len(b)]
    IN  IF Len(a) - Len(b) > max \/ Len(b) - Len(a) > max \/ last.over THEN max + 1
        ELSE last.col[Len(a)]

\* The distance, by the letters the two words end with.
Levenshtein(a, b) ==
    LET dist[p \in (0 .. Len(a)) \X (0 .. Len(b))] ==
            IF p[1] = 0 THEN p[2]
            ELSE IF p[2] = 0 THEN p[1]
            ELSE Min3(1 + dist[<<p[1] - 1, p[2]>>], 1 + dist[<<p[1], p[2] - 1>>],
                      dist[<<p[1] - 1, p[2] - 1>>] + Cost(a, b, p[1], p[2]))
    IN  dist[<<Len(a), Len(b)>>]
=============================================================================
