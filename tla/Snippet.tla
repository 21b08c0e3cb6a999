------------------------------ MODULE Snippet ------------------------------
(***************************************************************************)
(* snippet_generate of backend/src/snippet.c: the stretch of a text that    *)
(* is shown with a result, and the terms of the query marked in it.         *)
(*                                                                         *)
(* Texts and terms are sequences of characters: "x" is what isalnum knows,  *)
(* "-" the hyphen, and all others are alike to the marking, the bytes of    *)
(* UTF-8 among them.  Upper case, which only the marking ignores, is left   *)
(* out.  A snippet is the positions shown, each marked or not, and whether  *)
(* "..." stands before and after them.                                      *)
(***************************************************************************)
EXTENDS Integers, SequencesExt

CONSTANTS
    Stride,         \* from one window to the next, 20
    Window,         \* max_length, 150
    Slack           \* room in the output beyond three times the text, 256

ASSUME RoomForMarks ==
    /\ Stride \in Nat \ {0} /\ Window \in Nat
    /\ Slack \in Nat /\ Slack > Window + 13

\* Lengths in the output of "<em>" and "</em>", and of "...".
MarksLength == 9
DotsLength == 3

At(text, i, term) == i + Len(term) - 1 <= Len(text) /\ SubSeq(text, i, i + Len(term) - 1) = term

\* The strstr loop: occurrences that start in a window of n places, none inside
\* another.
Occurrences(text, from, n, term) ==
    LET found[k \in 0 .. n] ==
            IF k = 0 THEN [count |-> 0, next |-> from]
            ELSE LET st == found[k - 1]
                     i == from + k - 1
                 IN  IF i >= st.next /\ At(text, i, term)
                     THEN [count |-> st.count + 1, next |-> i + Len(term)] ELSE st
    IN  found[n].count

\* The places of the window at i.
WindowAt(text, i) == Min({Window, Len(text) - i + 1})

Matches(text, i, terms) ==
    LET sum[k \in 0 .. Len(terms)] ==
            IF k = 0 THEN 0
            ELSE sum[k - 1] + Occurrences(text, i, WindowAt(text, i), terms[k])
    IN  sum[Len(terms)]

\* The first window with the most occurrences, or the beginning.
BestStart(text, terms) ==
    LET starts == {i \in DOMAIN text : (i - 1) % Stride = 0}
        best == {i \in starts : \A j \in starts : Matches(text, j, terms) <= Matches(text, i, terms)}
    IN  IF text = <<>> \/ Matches(text, Min(best), terms) = 0 THEN 1 ELSE Min(best)

StartUnadjusted(text, terms) == BestStart(text, terms)    \* a plausible bug: starts inside a word

\* Back to the beginning of the word.
Start(text, terms) ==
    LET best == BestStart(text, terms)
        spaces == {k \in 1 .. best : text[k] = " "}
    IN  IF best = 1 \/ spaces = {} THEN 1 ELSE Max(spaces) + 1

\* What continues a word, to the marking.
Continues == {"x", "-"}

MarkedInWord(raw, i, term) == At(raw, i, term)            \* a plausible bug: marks beginnings
Marked(raw, i, term) ==
    At(raw, i, term) /\ (i + Len(term) > Len(raw) \/ raw[i + Len(term)] \notin Continues)

\* One round of the output loop at place i of the stretch raw, which the last term
\* marked may already have covered.
Emit(raw, terms, room, st, i) ==
    LET hits == {k \in DOMAIN terms : Marked(raw, i, terms[k])}
        n == Len(terms[Min(hits)])
    IN  IF i < st.next THEN st
        ELSE IF hits = {}
        THEN IF st.used + 1 < room
             THEN [next |-> st.next, used |-> st.used + 1,
                   shown |-> Append(st.shown, [place |-> i, marked |-> FALSE])]
             ELSE st
        ELSE IF st.used + n + 16 < room
        THEN [next |-> i + n, used |-> st.used + n + MarksLength,
              shown |-> st.shown \o [k \in 1 .. n |-> [place |-> i + k - 1, marked |-> TRUE]]]
        ELSE [st EXCEPT !.next = i + n]

\* The whole loop, over what is in the output already.
Output(raw, terms, room, used) ==
    LET out[i \in 0 .. Len(raw)] ==
            IF i = 0 THEN [next |-> 1, used |-> used, shown |-> <<>>]
            ELSE Emit(raw, terms, room, out[i - 1], i)
    IN  out[Len(raw)]

SnippetOf(text, terms) ==
    LET start == Start(text, terms)
        raw == SubSeq(text, start, start + WindowAt(text, start) - 1)
        room == 3 * Len(raw) + Slack
        out == Output(raw, terms, room, IF start > 1 THEN DotsLength ELSE 0)
    IN  [start |-> start, before |-> start > 1,
         shown |-> out.shown,
         after |-> start + Len(raw) - 1 < Len(text) /\ out.used + 4 < room]

-----------------------------------------------------------------------------

\* For reference: the end of a word that is a term, the longest one.
WordEnd(raw, terms, i) ==
    LET ends == {w \in (DOMAIN raw) \X (DOMAIN raw) :
                    /\ \A k \in w[1] .. w[2] : raw[k] = "x"
                    /\ w[2] = Len(raw) \/ raw[w[2] + 1] \notin Continues
                    /\ \E k \in DOMAIN terms : SubSeq(raw, w[1], w[2]) = terms[k]}
    IN  \E w \in ends : w[1] <= i /\ i <= w[2]
=============================================================================
