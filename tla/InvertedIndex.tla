--------------------------- MODULE InvertedIndex ---------------------------
(***************************************************************************)
(* One index instance as its builder fills it: index_add_document and      *)
(* index_remove_document of backend/src/index.c over the hash table of     *)
(* terms, with document_store_add of document.c and the word counts of the *)
(* trie.  Each call holds idx->lock, so it is one step.                    *)
(*                                                                         *)
(* A text is the token stream of a document: its terms in the order of     *)
(* their positions, StopWord for a token that is skipped.  The weights of  *)
(* fields are left out; frequency and position_count grow together, so the *)
(* positions stand for both.                                               *)
(***************************************************************************)
EXTENDS HashTable

CONSTANTS
    StopWord,
    Docs,        \* document ids
    Texts,       \* sequences of Terms and StopWord
    InitWidth,   \* buckets of a new table, 4096
    MaxCalls     \* bound: calls

ASSUME StopIsNoTerm == StopWord \notin Terms
ASSUME TextsAreStreams == Texts \subseteq Seq(Terms \cup {StopWord})
ASSUME WidthPos == InitWidth \in Nat \ {0} /\ MaxCalls \in Nat

ASSUME DocsFinite == IsFiniteSet(Docs)               \* ids are ints
ASSUME NullIsNoList == NotFound \notin Seq([doc : Docs, positions : Seq(Nat \ {0})])

VARIABLES
    table,          \* idx->term_table
    store,          \* idx->doc_store: id and word_count of each document
    totalDocuments, totalTerms,
    totalLength,    \* what avg_doc_length was last computed from
    words,          \* the trie: how often each word was inserted
    calls,
    texts           \* history: the texts added for a document since it was removed

vars == <<table, store, totalDocuments, totalTerms, totalLength, words, calls, texts>>

Init ==
    /\ table = Empty(InitWidth)
    /\ store = <<>>
    /\ totalDocuments = 0 /\ totalTerms = 0 /\ totalLength = 0
    /\ words = [t \in Terms |-> 0]
    /\ calls = 0
    /\ texts = [d \in Docs |-> <<>>]

-----------------------------------------------------------------------------
(* The posting of document d in a list: the last one is looked at first,    *)
(* then all of them.                                                        *)

FindLastOnly(list, d) ==             \* a plausible bug: only the last is looked at
    {k \in {Len(list)} \cap DOMAIN list : list[k].doc = d}
Find(list, d) == {k \in DOMAIN list : list[k].doc = d}

\* Token pos of document d is t: append the position to the posting, after
\* making the posting if it is new.
Posted(list, d, pos) ==
    IF Find(list, d) = {} THEN Append(list, [doc |-> d, positions |-> <<pos>>])
    ELSE LET k == CHOOSE k \in Find(list, d) : TRUE
         IN  [list EXCEPT ![k] = [doc |-> d, positions |-> Append(list[k].positions, pos)]]

\* The first posting of d is taken out, the rest moves up.
Removed(list, d) ==
    IF Find(list, d) = {} THEN list ELSE RemoveAt(list, Min(Find(list, d)))

\* One turn of the token loop, on x: the table, the term count and the trie.
AddTokenRecounts(x, d, pos, t) ==    \* a plausible bug: known terms counted again
    LET h == IF Get(x.table, t) = NotFound THEN Put(x.table, t, <<>>) ELSE x.table
    IN  [table |-> Assign(h, t, Posted(Get(h, t), d, pos)),
         terms |-> x.terms + 1,
         words |-> [x.words EXCEPT ![t] = @ + 1]]
AddToken(x, d, pos, t) ==
    LET new == Get(x.table, t) = NotFound
        h == IF new THEN Put(x.table, t, <<>>) ELSE x.table
    IN  [table |-> Assign(h, t, Posted(Get(h, t), d, pos)),
         terms |-> x.terms + (IF new THEN 1 ELSE 0),
         words |-> [x.words EXCEPT ![t] = @ + 1]]

\* The loop over the token stream.
AllTokens(d, text) ==
    LET after[i \in 0 .. Len(text)] ==
            IF i = 0 THEN [table |-> table, terms |-> totalTerms, words |-> words]
            ELSE IF text[i] = StopWord THEN after[i - 1]
            ELSE AddToken(after[i - 1], d, i, text[i])
    IN  after[Len(text)]

TotalWords(docs) ==
    LET sum[i \in 0 .. Len(docs)] == IF i = 0 THEN 0 ELSE sum[i - 1] + docs[i].words
    IN  sum[Len(docs)]

\* document_store_add: a document with a known id replaces the old one.
Stored(d, n) ==
    IF \E i \in DOMAIN store : store[i].id = d
    THEN [i \in DOMAIN store |-> IF store[i].id = d THEN [id |-> d, words |-> n] ELSE store[i]]
    ELSE Append(store, [id |-> d, words |-> n])

\* index_add_document
AddDocument(d, text) ==
    LET x == AllTokens(d, text) IN
    /\ calls < MaxCalls
    /\ calls' = calls + 1
    /\ store' = Stored(d, Len(text))
    /\ table' = x.table
    /\ totalTerms' = x.terms
    /\ words' = x.words
    /\ totalDocuments' = Len(store')
    /\ totalLength' = TotalWords(store')
    /\ texts' = [texts EXCEPT ![d] = Append(@, text)]

\* index_remove_document: only postings go.
RemoveDocument(d) ==
    /\ calls < MaxCalls
    /\ calls' = calls + 1
    /\ table' = EachValue(table, LAMBDA list : Removed(list, d))
    /\ texts' = [texts EXCEPT ![d] = <<>>]
    /\ UNCHANGED <<store, totalDocuments, totalTerms, totalLength, words>>

\* The builder is done.
Done == calls = MaxCalls /\ UNCHANGED vars

Next == Done \/ \E d \in Docs : RemoveDocument(d) \/ \E text \in Texts : AddDocument(d, text)

Spec == Init /\ [][Next]_vars

-----------------------------------------------------------------------------

\* index_get_posting_list, with the empty list for NULL.
PostingsOf(t) == IF Get(table, t) = NotFound THEN <<>> ELSE Get(table, t)

Abs == INSTANCE AbstractIndex WITH postings <- [t \in Terms |-> PostingsOf(t)]

TypeOK ==
    /\ DOMAIN table.buckets = 0 .. Width(table) - 1
    /\ table.size \in Nat /\ table.collisions \in Nat
    /\ \A t \in Terms : \A k \in DOMAIN PostingsOf(t) :
        PostingsOf(t)[k] \in [doc : Docs, positions : Seq(Nat \ {0})]
    /\ \A i \in DOMAIN store : store[i] \in [id : Docs, words : Nat]
    /\ totalDocuments \in 0 .. Cardinality(Docs)
    /\ totalTerms \in Nat /\ totalLength \in Nat
    /\ words \in [Terms -> Nat]

\* Types, and the table of terms stays sound while it grows under the builder.
TableSound == TypeOK /\ Sound(table)

\* A document has a posting under exactly the terms of the texts added for it
\* since it was last removed, and the positions of the posting are those of the
\* texts in order: no term is lost or shared between documents, whatever
\* documents were added, added again or removed in between.
PostingsExact ==
    \A t \in Terms, d \in Docs :
        LET list == PostingsOf(t)
            mine == Find(list, d)
            where == FlattenSeq([i \in 1 .. Len(texts[d]) |-> Abs!Positions(texts[d][i], t)])
        IN  /\ mine = {} <=> where = <<>>
            /\ \A k \in mine : list[k].positions = where /\ mine = {k}

\* The counters the handlers report and rank with agree: total_terms is the
\* number of keys and of words the trie can suggest, total_documents the number
\* of distinct ids in the store, and a posting's document is in the store.
CountsAgree ==
    /\ totalTerms = table.size
    /\ totalTerms = Cardinality({t \in Terms : words[t] > 0})
    /\ totalDocuments = Cardinality({store[i].id : i \in DOMAIN store})
    /\ \A t \in Terms : \A k \in DOMAIN PostingsOf(t) :
        \E i \in DOMAIN store : store[i].id = PostingsOf(t)[k].doc

\* With its hash table the index implements the map from terms to postings.
ImplementsAbstractIndex == Abs!Spec
=============================================================================
