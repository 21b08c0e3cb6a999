---------------------------- MODULE QueryEngine ----------------------------
(***************************************************************************)
(* One search as the parser and the evaluator see it: query_parse and       *)
(* query_evaluate of backend/src/query_parser.c, sort_search_results of     *)
(* ranking.c, and trie_suggest for the suggest handler.                     *)
(*                                                                         *)
(* The score a term gives a document is a constant: the formulas of the     *)
(* ranking are left out, sums, the factor for several terms and the         *)
(* comparison are kept.  Scores are counted in the last place of a float.   *)
(***************************************************************************)
EXTENDS Integers, FiniteSets, SequencesExt, QueryParser, Fuzzy, Trie

CONSTANTS
    Docs,           \* document ids
    TermScore,      \* for each document, a word's score; 0 where it does not occur
    Modified,       \* modified_time of each document
    Eps,            \* 1e-6, within which two scores are a tie
    Threshold,      \* CWEB_FUZZY_TRIGGER_THRESHOLD
    MaxDistance,    \* CWEB_FUZZY_MAX_DISTANCE
    Considered,     \* the 50 words asked of the trie for did_you_mean
    Asked,          \* prefixes of suggest requests
    Limits,         \* and their limits
    MaxTokens       \* bound: tokens in a query

ASSUME DocsAreIds == Docs \subseteq Nat /\ IsFiniteSet(Docs)
ASSUME BoundsNat ==
    {Eps, Threshold, MaxDistance, Considered, MaxTokens} \cup Limits \subseteq Nat
ASSUME PrefixesSpelled == Asked \subseteq Seq(Nat)
ASSUME ScoresNat ==
    \A d \in Docs : \A w \in DOMAIN TermScore[d] : TermScore[d][w] \in Nat
ASSUME AllSpelled ==
    /\ Words \cup Operators \subseteq DOMAIN Spelling
    /\ \A t \in DOMAIN FieldParts :
          {FieldParts[t].field, FieldParts[t].word} \ {NoWord} \subseteq DOMAIN Spelling
    /\ \A t \in DOMAIN FieldParts : FieldParts[t].field # NoWord

VARIABLES
    phase,          \* "typing", "parsed", "rejected", "answered" or "completed"
    tokens,
    parsed,         \* what query_parse returned
    results,        \* the results, best first
    meant,          \* did_you_mean, one word or none
    suggestions,
    asked           \* the limit of the suggest request

vars == <<phase, tokens, parsed, results, meant, suggestions, asked>>

Init ==
    /\ phase = "typing" /\ tokens = <<>>
    /\ parsed = Result(Null, 1, FALSE)
    /\ results = <<>> /\ meant = {}
    /\ suggestions = <<>> /\ asked = [prefix |-> <<>>, limit |-> 0]

-----------------------------------------------------------------------------

ScoreOf(d, w) == IF w \in DOMAIN TermScore[d] THEN TermScore[d][w] ELSE 0

\* The result for document d, its score multiplied by twice the number of
\* terms when the factor 1 + 0.5 * matched / terms applies.
Scored(d, terms) ==
    LET n == Len(terms)
        matched == Cardinality({i \in 1 .. n : ScoreOf(d, terms[i]) > 0})
        sum[i \in 0 .. n] == IF i = 0 THEN 0 ELSE sum[i - 1] + ScoreOf(d, terms[i])
    IN  [doc |-> d, matched |-> matched,
         score |-> IF n > 1 THEN sum[n] * (2 * n + matched) ELSE sum[n]]

Matching(terms) == {r \in {Scored(d, terms) : d \in Docs} : r.matched > 0 /\ r.score > 0}

\* Eps in the unit of the scores of a query of n terms.
Tie(n) == IF n > 1 THEN 2 * n * Eps ELSE Eps

\* compare_search_results: r goes before q.
BeforeWorst(r, q, n) ==              \* a plausible bug: the scores swapped
    IF r.score - q.score > Tie(n) \/ q.score - r.score > Tie(n) THEN r.score < q.score
    ELSE r.doc < q.doc
Before(r, q, n) ==
    IF r.score - q.score > Tie(n) \/ q.score - r.score > Tie(n) THEN r.score > q.score
    ELSE IF r.matched # q.matched THEN r.matched > q.matched
    ELSE IF Modified[r.doc] # Modified[q.doc] THEN Modified[r.doc] > Modified[q.doc]
    ELSE r.doc < q.doc

\* Ties do not chain, so what qsort makes of them is not determined: any order
\* with no neighbours out of order.
Sorted(set, n) ==
    {s \in SetToSeqs(set) : \A i \in 1 .. Len(s) - 1 : ~Before(s[i + 1], s[i], n)}

\* The suggestion loop: the first of the nearest words.
DidYouMean(terms, count) ==
    LET list == Suggest(<<>>, Considered)
        dist == [i \in DOMAIN list |->
                    Bounded(Spelling[terms[1]], Spelling[list[i]], MaxDistance)]
        near == {i \in DOMAIN list :
                    dist[i] <= MaxDistance /\ \A j \in DOMAIN list : dist[i] <= dist[j]}
    IN  IF count >= Threshold \/ terms = <<>> \/ near = {} THEN {} ELSE {list[Min(near)]}

-----------------------------------------------------------------------------

Type(t) ==
    /\ phase = "typing" /\ Len(tokens) < MaxTokens
    /\ tokens' = Append(tokens, t)
    /\ UNCHANGED <<phase, parsed, results, meant, suggestions, asked>>

\* query_parse and the handler's answer to a query with an error.
Submit ==
    /\ phase = "typing" /\ tokens # <<>>
    /\ parsed' = Parse(tokens)
    /\ phase' = IF parsed'.error THEN "rejected" ELSE "parsed"
    /\ UNCHANGED <<tokens, results, meant, suggestions, asked>>

\* query_evaluate
Evaluate ==
    LET terms == Collect(parsed.ast)
        matches == Matching(terms)
    IN  /\ phase = "parsed" /\ phase' = "answered"
        /\ results' \in Sorted(matches, Len(terms))
        /\ meant' = DidYouMean(terms, Cardinality(matches))
        /\ UNCHANGED <<tokens, parsed, suggestions, asked>>

\* The suggest handler, on what was typed last.
Complete(prefix, limit) ==
    /\ phase = "typing" /\ tokens = <<>>
    /\ suggestions' = Suggest(prefix, limit)
    /\ asked' = [prefix |-> prefix, limit |-> limit]
    /\ phase' = "completed"
    /\ UNCHANGED <<tokens, parsed, results, meant>>

\* The next request; nothing of this one is kept.
Again ==
    /\ phase \in {"rejected", "answered", "completed"}
    /\ phase' = "typing" /\ tokens' = <<>>
    /\ parsed' = Result(Null, 1, FALSE)
    /\ results' = <<>> /\ meant' = {}
    /\ suggestions' = <<>> /\ asked' = [prefix |-> <<>>, limit |-> 0]

Next ==
    \/ \E t \in Tokens : Type(t)
    \/ Submit
    \/ Evaluate
    \/ \E prefix \in Asked, limit \in Limits : Complete(prefix, limit)
    \/ Again

Spec == Init /\ [][Next]_vars

-----------------------------------------------------------------------------

TypeOK ==
    /\ phase \in {"typing", "parsed", "rejected", "answered", "completed"}
    /\ tokens \in Seq(Tokens) /\ Len(tokens) <= MaxTokens
    /\ parsed.pos \in 1 .. Len(tokens) + 1 /\ parsed.error \in BOOLEAN
    /\ results \in Seq([doc : Docs, matched : 0 .. 2 * MaxTokens, score : Nat])
    /\ meant \subseteq DOMAIN Frequency
    /\ suggestions \in Seq(DOMAIN Frequency)

\* What the word t, taken as a term or a token, adds to what is searched for:
\* an operator taken for a word does not count.
Counted(t) == IF t \in Operators \cup Signs THEN <<>> ELSE <<t>>
Spoken(t) ==
    IF t \in DOMAIN FieldParts THEN Given(FieldParts[t].word) \o Given(FieldParts[t].word)
    ELSE Counted(t)

\* An accepted query, of the grammar or not, loses no word before the point
\* where parsing stopped: the terms searched for are its words in order.
NoWordDropped ==
    LET terms == Collect(parsed.ast)
    IN  (phase \in {"parsed", "answered"} /\ \A i \in DOMAIN tokens : tokens[i] # "quote")
            => FlattenSeq([i \in DOMAIN terms |-> Counted(terms[i])])
                  = FlattenSeq([i \in 1 .. parsed.pos - 1 |-> Spoken(tokens[i])])

\* A later result outscores an earlier one by at most the tolerance for each
\* place between them, however the ties fell.
Ranked ==
    /\ TypeOK
    /\ \A i, j \in DOMAIN results :
          i < j => results[j].score - results[i].score
                      <= (j - i) * Tie(Len(Collect(parsed.ast)))

\* did_you_mean is a word within the distance, no considered word is nearer,
\* and none as near is more frequent; there is one exactly when there are few
\* results and a near word to offer.
MeantIsNearest ==
    phase = "answered" =>
        LET terms == Collect(parsed.ast)
            words == {Suggest(<<>>, Considered)[i] : i \in DOMAIN Suggest(<<>>, Considered)}
            dist(w) == Levenshtein(Spelling[terms[1]], Spelling[w])
            near == {w \in words : dist(w) <= MaxDistance}
        IN  IF terms = <<>> \/ Len(results) >= Threshold \/ near = {} THEN meant = {}
            ELSE \E w \in near :
                    /\ meant = {w}
                    /\ \A v \in near \ {w} : dist(w) <= dist(v) /\ (dist(w) = dist(v) => Better(w, v))

\* As long as a prefix has at most Cap completions, the suggestions are the
\* most frequent of them, most frequent first.
SuggestTop ==
    LET all == Completions(asked.prefix)
        n == Len(suggestions)
        shown == {suggestions[i] : i \in 1 .. n}
    IN  (phase = "completed" /\ Cardinality(all) <= Cap) =>
            /\ shown \subseteq all
            /\ n = Cardinality(shown) /\ n = Min({asked.limit, Cardinality(all)})
            /\ \A i \in 2 .. n : Better(suggestions[i - 1], suggestions[i])
            /\ \A w \in all \ shown, v \in shown : Better(v, w)
=============================================================================
