---------------------------- MODULE QueryParser ----------------------------
(***************************************************************************)
(* query_parse of backend/src/query_parser.c, as a descent over the tokens  *)
(* of a query.  Tokens are separated by blanks; a word is its normalised    *)
(* form.  A parsing operator takes the tokens, a position in them and the   *)
(* nesting depth and returns the tree, the next position and whether        *)
(* ast->error_message was set on the way.  What the depth is after an error *)
(* makes no difference: the query is refused.                               *)
(*                                                                         *)
(* A tree is written as the sequence of its nodes, operands before their    *)
(* operator, so that NULL is the empty sequence.                            *)
(***************************************************************************)
EXTENDS Integers, FiniteSets, SequencesExt

CONSTANTS
    Words,
    NoWord,         \* the empty string
    FieldParts,     \* for each token field:word, the two; the word may be missing
    MaxDepth        \* CWEB_MAX_QUERY_DEPTH

Operators == {"AND", "OR", "NOT"}
Signs == {"(", ")", "quote"}
Tokens == Words \cup DOMAIN FieldParts \cup Operators \cup Signs

ASSUME DepthNat == MaxDepth \in Nat
ASSUME WordsApart ==
    /\ Words \cap (Operators \cup Signs) = {}
    /\ NoWord \notin Words \cup Operators \cup Signs
ASSUME FieldsApart ==
    /\ DOMAIN FieldParts \cap (Operators \cup Signs) = {}
    /\ \A t \in DOMAIN FieldParts : FieldParts[t].word \notin Operators \cup Signs

Null == <<>>
Term(w) == <<[type |-> "term", value |-> w]>>
Phrase(ws) == <<[type |-> "phrase", terms |-> ws]>>
Field(t) ==
    Term(FieldParts[t].word) \o
    <<[type |-> "field", value |-> FieldParts[t].field, left |-> FieldParts[t].word]>>
Not(x) == x \o <<[type |-> "not"]>>
Both(type, x, y) == x \o y \o <<[type |-> type]>>

-----------------------------------------------------------------------------
(* The parser.                                                              *)

Result(ast, pos, error) == [ast |-> ast, pos |-> pos, error |-> error]

Is(s, p, token) == p <= Len(s) /\ s[p] = token

TooDeepEarly(d) == d >= MaxDepth     \* a plausible bug
TooDeep(d) == d > MaxDepth

\* The position after the quote that ends a phrase begun at p, or after the last
\* token if there is none.
Quotes(s, p) == {q \in p .. Len(s) : s[q] = "quote"}
AfterQuote(s, p) ==
    IF Quotes(s, p) = {} THEN Len(s) + 1 ELSE 1 + Min(Quotes(s, p))

\* A string as one that is kept only if it is not empty.
Given(w) == IF w = NoWord THEN <<>> ELSE <<w>>

\* What tokenize_text makes of a token between quotes.
Split(t) ==
    IF t \in {"(", ")"} THEN <<>>
    ELSE IF t \in DOMAIN FieldParts THEN <<FieldParts[t].field>> \o Given(FieldParts[t].word)
    ELSE <<t>>

Quoted(s, p) ==
    LET end == AfterQuote(s, p)
        inside == SubSeq(s, p, end - 2)
    IN  IF Quotes(s, p) # {}
        THEN Result(Phrase(FlattenSeq([i \in DOMAIN inside |-> Split(inside[i])])), end, FALSE)
        ELSE Result(Null, end, TRUE)

OneWord(s, p) ==
    Result(IF s[p] \in DOMAIN FieldParts THEN Field(s[p]) ELSE Term(s[p]), p + 1, FALSE)

SkipAlways(s, p, token) == p + 1     \* a plausible bug: an operator is taken for granted
Skip(s, p, token) == IF Is(s, p, token) THEN p + 1 ELSE p

\* parse_primary.  inner[q] is what parse_query makes of the tokens from q one
\* level deeper.
Primary(s, p, d, inner) ==
    IF p > Len(s) \/ Is(s, p, ")") THEN Result(Null, p, FALSE)
    ELSE IF Is(s, p, "quote") THEN Quoted(s, p + 1)
    ELSE IF ~Is(s, p, "(") THEN OneWord(s, p)
    ELSE IF TooDeep(d + 1) THEN Result(Null, p + 1, TRUE)
    ELSE LET x == inner[p + 1]
         IN  Result(x.ast, Skip(s, x.pos, ")"), x.error \/ ~Is(s, x.pos, ")"))

\* parse_not
NotExpr(s, p, d, inner) ==
    LET x == Primary(s, Skip(s, p, "NOT"), d, inner)
    IN  Result(IF Is(s, p, "NOT") /\ x.ast # Null THEN Not(x.ast) ELSE x.ast, x.pos, x.error)

\* The loops of parse_and and parse_or start with a first operand, and go on
\* as long as there is one more.
First(left) ==
    [ast |-> left.ast, pos |-> left.pos, error |-> left.error, more |-> left.ast # Null]

Joined(type, x, right) ==
    [ast |-> IF right.ast = Null THEN x.ast ELSE Both(type, x.ast, right.ast),
     pos |-> right.pos, error |-> x.error \/ right.error, more |-> right.ast # Null]

AndTurn(s, x, d, inner) ==
    IF x.more /\ x.pos <= Len(s) /\ ~Is(s, x.pos, ")") /\ ~Is(s, x.pos, "OR")
    THEN Joined("and", x, NotExpr(s, Skip(s, x.pos, "AND"), d, inner))
    ELSE x

\* parse_and
And(s, p, d, inner) ==
    LET turn[i \in 0 .. Len(s)] ==
            IF i = 0 THEN First(NotExpr(s, p, d, inner)) ELSE AndTurn(s, turn[i - 1], d, inner)
        x == turn[Len(s)]
    IN  Result(x.ast, x.pos, x.error)

OrTurn(s, x, d, inner) ==
    IF x.more /\ Is(s, x.pos, "OR") THEN Joined("or", x, And(s, x.pos + 1, d, inner)) ELSE x

\* parse_or
Or(s, p, d, inner) ==
    LET turn[i \in 0 .. Len(s)] ==
            IF i = 0 THEN First(And(s, p, d, inner)) ELSE OrTurn(s, turn[i - 1], d, inner)
        x == turn[Len(s)]
    IN  Result(x.ast, x.pos, x.error)

\* query_parse: parse_query at depth 0, where at most MaxDepth levels are below.
Parse(s) ==
    LET level[below \in 0 .. MaxDepth] ==
            [p \in 1 .. Len(s) + 1 |->
                Or(s, p, MaxDepth - below, IF below = 0 THEN <<>> ELSE level[below - 1])]
    IN  level[MaxDepth][1]

\* collect_query_terms and term_list_append.  A field's word is taken for the field
\* and again for the term below it.
TermsOf(node) ==
    CASE node.type = "term" -> Given(node.value)
      [] node.type = "phrase" -> node.terms
      [] node.type = "field" -> Given(node.left)
      [] OTHER -> <<>>

Collect(x) == FlattenSeq([i \in DOMAIN x |-> TermsOf(x[i])])
=============================================================================
