--------------------------- MODULE AbstractIndex ---------------------------
(***************************************************************************)
(* What index_add_document and index_remove_document of backend/src/index.c *)
(* promise, whatever table holds the terms: for every term a list of        *)
(* postings, one for each document that contains it, in the order in which  *)
(* the documents came, each with the positions of the term.                 *)
(***************************************************************************)
EXTENDS Integers, Sequences

CONSTANTS Terms, Docs, Texts

VARIABLE postings

\* The positions of term t in a text, ascending.
Positions(text, t) ==
    LET upto[i \in 0 .. Len(text)] ==
            IF i = 0 THEN <<>>
            ELSE IF text[i] = t THEN Append(upto[i - 1], i) ELSE upto[i - 1]
    IN  upto[Len(text)]

Init == postings = [t \in Terms |-> <<>>]

\* The postings of t after a document d with this text was added.
With(list, d, new) ==
    IF new = <<>> THEN list
    ELSE IF \E k \in DOMAIN list : list[k].doc = d
    THEN [k \in DOMAIN list |->
            IF list[k].doc = d THEN [doc |-> d, positions |-> list[k].positions \o new]
            ELSE list[k]]
    ELSE Append(list, [doc |-> d, positions |-> new])

AddDocument(d, text) ==
    postings' = [t \in Terms |-> With(postings[t], d, Positions(text, t))]

\* All postings but those of d.
Without(list, d) ==
    LET upto[k \in 0 .. Len(list)] ==
            IF k = 0 THEN <<>>
            ELSE IF list[k].doc = d THEN upto[k - 1] ELSE Append(upto[k - 1], list[k])
    IN  upto[Len(list)]

RemoveDocument(d) == postings' = [t \in Terms |-> Without(postings[t], d)]

Next == \E d \in Docs : RemoveDocument(d) \/ \E text \in Texts : AddDocument(d, text)

Spec == Init /\ [][Next]_postings
=============================================================================
