---------------------------- MODULE QueryGrammar ----------------------------
(***************************************************************************)
(* The grammar of docs/parsing.md as the reference for QueryParser: all     *)
(* trees of the whole of a sequence of tokens.                              *)
(***************************************************************************)
EXTENDS QueryEngine

RECURSIVE Query(_), AndExpr(_)

\* FIELD ":" before a phrase is a token field:word without its word.
Heads == {t \in DOMAIN FieldParts : FieldParts[t].word = NoWord}

FieldPhrase(t, ws) ==
    Phrase(ws) \o <<[type |-> "field", value |-> FieldParts[t].field, left |-> ws]>>

Between(s, left, right) == Len(s) > 2 /\ s[1] = left /\ s[Len(s)] = right
Within(s) == SubSeq(s, 2, Len(s) - 1)
IsPhrase(s) == Between(s, "quote", "quote") /\ \A i \in DOMAIN Within(s) : Within(s)[i] \in Words

PrimaryTrees(s) ==
    {Term(w) : w \in {v \in Words : s = <<v>>}}
    \cup {Field(t) : t \in {u \in DOMAIN FieldParts \ Heads : s = <<u>>}}
    \cup (IF IsPhrase(s) THEN {Phrase(Within(s))} ELSE {})
    \cup (IF Len(s) > 3 /\ s[1] \in Heads /\ IsPhrase(Tail(s))
          THEN {FieldPhrase(s[1], Within(Tail(s)))} ELSE {})
    \cup (IF Between(s, "(", ")") THEN Query(Within(s)) ELSE {})

NotTrees(s) ==
    PrimaryTrees(s) \cup
    (IF Is(s, 1, "NOT") THEN {Not(x) : x \in PrimaryTrees(Tail(s))} ELSE {})

AndExpr(s) ==
    NotTrees(s) \cup
    UNION {LET rest == SubSeq(s, i, Len(s)) IN
           {Both("and", x, y) : x \in AndExpr(SubSeq(s, 1, i - 1)),
                                y \in NotTrees(rest) \cup
                                      (IF Is(rest, 1, "AND") THEN NotTrees(Tail(rest)) ELSE {})}
           : i \in 2 .. Len(s)}

Query(s) ==
    AndExpr(s) \cup
    UNION {{Both("or", x, y) : x \in Query(SubSeq(s, 1, i - 1)),
                               y \in AndExpr(SubSeq(s, i + 1, Len(s)))}
           : i \in {j \in 2 .. Len(s) : s[j] = "OR"}}

\* How deep the parentheses of s nest.
Depth(s) ==
    LET open(i) == Len(SelectSeq(SubSeq(s, 1, i), LAMBDA t : t = "("))
                   - Len(SelectSeq(SubSeq(s, 1, i), LAMBDA t : t = ")"))
    IN  CHOOSE d \in 0 .. Len(s) :
            (\E i \in 0 .. Len(s) : open(i) = d) /\ \A i \in 0 .. Len(s) : open(i) <= d

-----------------------------------------------------------------------------

\* A field stands before a phrase.
HasFieldPhrase(s) == \E i \in 2 .. Len(s) : s[i - 1] \in Heads /\ s[i] = "quote"

\* A query of the documented grammar is accepted unless it nests too deep.  If no
\* field stands before a phrase, it is parsed to its only tree: the precedence of
\* the operators, the implied AND and the phrases are as documented, in any
\* combination.  FIELD ":" phrase (parsing.md:11) is read otherwise: as a field
\* without a word, and the phrase on its own (query_parser.c:111).
GrammarAccepted ==
    (phase \in {"parsed", "rejected"} /\ Query(tokens) # {}) =>
        /\ parsed.error <=> Depth(tokens) > MaxDepth
        /\ ~parsed.error /\ ~HasFieldPhrase(tokens) => Query(tokens) = {parsed.ast}
=============================================================================
