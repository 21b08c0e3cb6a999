--------------------------- MODULE MCInvertedIndex ---------------------------
(* Model-checking instance of InvertedIndex: three documents, four terms    *)
(* whose hashes collide in a table of one, two and four buckets.            *)
EXTENDS InvertedIndex

MCHash == [t \in Terms |-> CASE t = "a" -> 0 [] t = "b" -> 2 [] t = "c" -> 1 [] OTHER -> 4]

\* A repeated term around a stop word, overlapping vocabularies, no token.
MCTexts == {<<"a", "the", "a">>, <<"b", "c">>, <<"a", "b", "c", "d">>, <<>>}
=============================================================================
