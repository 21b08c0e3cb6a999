-------------------------------- MODULE Trie --------------------------------
(***************************************************************************)
(* trie_suggest of backend/src/trie.c.  The nodes are left out: the walk    *)
(* visits the words below the prefix in the order of their bytes, a word    *)
(* before those it begins.                                                  *)
(***************************************************************************)
EXTENDS Integers, FiniteSets, Sequences, SequencesExt

CONSTANTS
    Frequency,      \* for each word in the trie, its count
    Spelling,       \* for each word, its letters
    Cap             \* items kept by the walk, 256

ASSUME CapNat == Cap \in Nat
ASSUME TrieFinite == IsFiniteSet(DOMAIN Frequency)
ASSUME CountsNat == \A w \in DOMAIN Frequency : Frequency[w] \in Nat
ASSUME LettersNat == \A w \in DOMAIN Spelling : Spelling[w] \in Seq(Nat)
ASSUME SpelledApart ==
    \A v, w \in DOMAIN Frequency :
        /\ v \in DOMAIN Spelling
        /\ Spelling[v] = Spelling[w] => v = w

Below(a, b) ==      \* strcmp(a, b) < 0 on letters
    \E k \in 1 .. Len(b) :
        /\ k <= Len(a) + 1
        /\ \A j \in 1 .. k - 1 : a[j] = b[j]
        /\ k > Len(a) \/ a[k] < b[k]

Completions(prefix) == {w \in DOMAIN Frequency : IsPrefix(prefix, Spelling[w])}

\* The first n of a set of words in the order of the walk.
Visited(set, n) ==
    {w \in set : Cardinality({v \in set : Below(Spelling[v], Spelling[w])}) < n}

\* collect_suggestions: what comes after the first Cap words is not looked at.
Collected(prefix) == Visited(Completions(prefix), Cap)

\* compare_suggestions
Better(v, w) ==
    \/ Frequency[v] > Frequency[w]
    \/ Frequency[v] = Frequency[w] /\ Below(Spelling[v], Spelling[w])

\* The set in the order of compare_suggestions: each word comes after those
\* better than it.
BestFirst(set) ==
    [i \in 1 .. Cardinality(set) |->
        CHOOSE w \in set : Cardinality({v \in set : Better(v, w)}) = i - 1]

FirstOf(s, n) == SubSeq(s, 1, Min({n, Len(s)}))

SuggestCutFirst(prefix, limit) ==    \* a plausible bug: cut, then sorted
    BestFirst(Visited(Collected(prefix), limit))
Suggest(prefix, limit) == FirstOf(BestFirst(Collected(prefix)), limit)
=============================================================================
