---------------------------- MODULE DocumentText ----------------------------
(***************************************************************************)
(* From a page to the tokens its index entry is made of: the scanner of    *)
(* HtmlParser, then tokenize_document of backend/src/tokenizer.c over the  *)
(* fields it has found; and the snippet of its body that a search shows.   *)
(***************************************************************************)
EXTENDS HtmlParser, Tokenizer, Snippet

CONSTANTS
    Untitled,       \* the characters of the title a page without one gets
    Queries         \* what is searched for, as the terms of each query

ASSUME UntitledIsText == Untitled \in Seq(Characters)
ASSUME QueriesAreTokens ==                   \* of at least CWEB_MIN_TOKEN_LEN, 2
    /\ Queries \subseteq Seq(Seq(WordChars))
    /\ MinLen >= 2 /\ \A terms \in Queries : \A k \in DOMAIN terms : Len(terms[k]) >= MinLen

VARIABLES
    tokens,         \* the unified token stream
    tokenized,
    query,          \* the terms of the search that has shown the document, or <<>>
    snippet         \* and what it has shown

vars == <<page, p, hidden, body, title, headings, keywords, description, links, done,
          steps, tokens, tokenized, query, snippet>>

NoSnippet == [start |-> 1, before |-> FALSE, shown |-> <<>>, after |-> FALSE]

Init ==
    /\ ScanInit /\ tokens = <<>> /\ tokenized = FALSE
    /\ query = <<>> /\ snippet = NoSnippet

\* A character of the document; piece 0 is the default title.
ClassOf(c) == IF c[1] = 0 THEN Untitled[c[2]] ELSE Class(c)
Seps(text) == {i \in DOMAIN text : ClassOf(text[i]) \notin WordChars}

\* The text of the pieces of a slice, tags among them as they are written.
Slice(from, to) == FlattenSeq([i \in 1 .. to - from + 1 |-> CharsOf(from + i - 1)])

TitleText == IF title = <<>> THEN [k \in DOMAIN Untitled |-> <<0, k>>]
             ELSE Slice(title[1], title[2])

\* The texts in the order they are tokenized in.
Texts ==
    <<[field |-> "title", text |-> TitleText]>>
    \o [i \in DOMAIN headings |->
            [field |-> "heading", text |-> Slice(headings[i][1], headings[i][2])]]
    \o [i \in DOMAIN keywords |-> [field |-> "keywords", text |-> CharsOf(keywords[i])]]
    \o <<[field |-> "description",
          text |-> IF description = 0 THEN <<>> ELSE CharsOf(description)]>>
    \o <<[field |-> "body", text |-> body]>>

\* token_stream_add for every word of one text.
AddField(st, t) ==
    LET out == Tokenized(t.text, Seps(t.text), st.pos)
    IN  [pos |-> out.pos,
         stream |-> st.stream \o [k \in DOMAIN out.words |->
            [field |-> t.field, pos |-> out.words[k].pos, word |-> out.words[k].word]]]

\* The streams of the first fields, one behind the other.
Stream ==
    LET after[f \in 0 .. Len(Texts)] ==
            IF f = 0 THEN [pos |-> 1, stream |-> <<>>] ELSE AddField(after[f - 1], Texts[f])
    IN  after[Len(Texts)].stream

Tokenize ==
    /\ done /\ ~tokenized
    /\ tokens' = Stream
    /\ tokenized' = TRUE
    /\ UNCHANGED <<scanVars, query, snippet>>

BodyText == [k \in DOMAIN body |-> Class(body[k])]

\* snippet_generate for a result of the search handler.
Show(terms) ==
    /\ tokenized /\ query = <<>>
    /\ query' = terms
    /\ snippet' = SnippetOf(BodyText, terms)
    /\ UNCHANGED <<scanVars, tokens, tokenized>>

Next ==
    \/ Scan /\ UNCHANGED <<tokens, tokenized, query, snippet>>
    \/ Tokenize
    \/ \E terms \in Queries : Show(terms)

Spec == Init /\ [][Next]_vars

-----------------------------------------------------------------------------

TypeOK ==
    /\ page \in Pages
    /\ p \in 1 .. Len(page) + 1
    /\ hidden \subseteq RawNames
    /\ \A k \in DOMAIN body : body[k][1] \in 1 .. p - 1
    /\ title = <<>> \/ (title[1] \in 2 .. p /\ title[2] \in 1 .. Len(page))
    /\ \A k \in DOMAIN headings : headings[k][1] \in 2 .. p /\ headings[k][2] \in 1 .. Len(page)
    /\ \A k \in DOMAIN keywords : keywords[k] \in 1 .. p - 1
    /\ description \in 0 .. p - 1
    /\ done \in BOOLEAN /\ tokenized \in BOOLEAN /\ steps \in Nat

\* No page, however broken, is scanned for ever: every round of the loop takes at
\* least one piece more.
LinearScan == steps <= Len(page)

\* For reference, the regions of a page that show no text, by their two ends.
Regions == RawNames \cup {"title", "comment"}
Opens(i, r) == IF r = "comment" THEN page[i].kind = "comment"
               ELSE page[i].kind = "open" /\ page[i].name = r
Closes(i, r) == IF r = "comment" THEN page[i].kind = "uncomment"
                ELSE page[i].kind = "close" /\ page[i].name = r
Inside(i, r) == \E j \in 1 .. i - 1 : Opens(j, r) /\ \A k \in j + 1 .. i - 1 : ~Closes(k, r)
Outside(i) == \A r \in Regions : ~Inside(i, r)

\* A page with no stray "<", whose regions end and do not overlap, and without
\* tags inside script and style.
Tame ==
    \A i \in DOMAIN page :
        /\ page[i].kind # "lt"
        /\ \A r \in Regions : Opens(i, r) =>
                Outside(i) /\ \E k \in i + 1 .. Len(page) : Closes(k, r)
        /\ page[i].kind = "open" => \A r \in RawNames : ~Inside(i, r)

\* Places of a page in its order.
Before(x, y) == x[1] < y[1] \/ (x[1] = y[1] /\ x[2] < y[2])
InOrder(s, S) ==
    /\ S = {s[k] : k \in DOMAIN s}
    /\ \A j, k \in DOMAIN s : j < k => Before(s[j], s[k])

\* For reference, the places of the text that a tame page shows; of any places those
\* that are no white space; and the white space that stands right behind one of these.
Visible == UNION {{<<i, k>> : k \in DOMAIN page[i].chars} :
                  i \in {i \in DOMAIN page : page[i].kind \in {"text", "uncomment"} /\ Outside(i)}}
Printed(S) == {c \in S : Class(c) # " "}
Led(S, c) == \E b \in Printed(S) : Before(b, c) /\ \A e \in S : Before(b, e) => ~Before(e, c)

\* The body of a tame page is its text outside comments, scripts, styles and the
\* title, in its order and complete but for white space: of that it has the first of
\* every stretch, if text stands before and behind it.
BodyIsVisible ==
    (done /\ Tame) =>
        InOrder(body, {c \in Visible :
                        \/ Class(c) # " "
                        \/ Led(Visible, c) /\ \E d \in Printed(Visible) : Before(c, d)})

\* For reference, the tags of a name that stand outside comments and the title, the
\* end tags behind a tag, and the pieces between it and the first of them.
TagsOf(name) == {i \in DOMAIN page :
                    page[i].kind = "open" /\ page[i].name = name /\ Outside(i)}
EndTags(i) == {k \in i + 1 .. Len(page) : Closes(k, page[i].name)}
Extent(i) == <<i + 1, Min(EndTags(i)) - 1>>

\* The numbers of a set, in their order.
Lists(s, S) ==
    /\ S = {s[k] : k \in DOMAIN s}
    /\ \A j, k \in DOMAIN s : j < k => s[j] < s[k]

\* The fields of a tame page: its last title, every heading that is closed and says
\* something, every keyword, link and the last description, each if it stands
\* outside comments and the title.
FieldsFound ==
    /\ TypeOK
    /\ (done /\ Tame) =>
        LET heads == {i \in TagsOf("h1") :
                        EndTags(i) # {} /\ Says(i + 1, Min(EndTags(i)) - 1)}
        IN  /\ title = IF TagsOf("title") = {} THEN <<>> ELSE Extent(Max(TagsOf("title")))
            /\ Lists([k \in DOMAIN headings |-> headings[k][1] - 1], heads)
            /\ \A k \in DOMAIN headings : headings[k] = Extent(headings[k][1] - 1)
            /\ Lists(keywords, TagsOf("meta keywords"))
            /\ Lists(links, TagsOf("a"))
            /\ description = IF TagsOf("meta description") = {} THEN 0
                             ELSE Max(TagsOf("meta description"))

\* For reference, the words of all fields, as their field and their two ends.
Words == UNION {{<<f, w[1], w[2]>> : w \in WordPlaces(Texts[f].text, Seps(Texts[f].text))} :
                f \in DOMAIN Texts}

\* Whatever the page, the tokens are exactly the words of the allowed length in all
\* fields, none cut short, and the position of each is its number among all words
\* of the document: a dropped word leaves a gap, the next field goes on counting.
TokensExact ==
    tokenized =>
        LET kept == {x \in Words : Fits(x[3] - x[2] + 1)}
            token(x) == [field |-> Texts[x[1]].field,
                         pos |-> 1 + Cardinality({y \in Words : Before(y, x)}),
                         word |-> SubSeq(Texts[x[1]].text, x[2], x[3])]
        IN  /\ {tokens[k] : k \in DOMAIN tokens} = {token(x) : x \in kept}
            /\ \A j, k \in DOMAIN tokens : j < k => tokens[j].pos < tokens[k].pos

\* The terms of the query begin with a letter or digit of ASCII; or consist of these.
HeadedByLetters == \A k \in DOMAIN query : query[k][1] = "x"
LettersOnly == \A k \in DOMAIN query : \A j \in DOMAIN query[k] : query[k][j] = "x"

\* The snippet of a query whose terms begin with a letter or digit is an unbroken
\* stretch of the body that begins with a word, with "..." exactly where the body
\* goes on: nothing is dropped for want of room, however many terms are marked
\* (snippet_generate, its two windows and its buffer).  Terms that begin with other
\* bytes, say of UTF-8, may be marked with nothing between them, too many for the
\* buffer, and what has no room is left out of the text.
SnippetIsExcerpt ==
    query # <<>> /\ HeadedByLetters =>
        LET shown == snippet.shown
            last == snippet.start + Len(shown) - 1
        IN  /\ \A k \in DOMAIN shown : shown[k].place = k
            /\ snippet.start > 1 => BodyText[snippet.start - 1] = " "
            /\ snippet.before <=> snippet.start > 1
            /\ snippet.after <=> last < Len(body)
            /\ Len(shown) = Min({Window, Len(body) - snippet.start + 1})

\* In the snippet of a query of letters and digits exactly the ends of words that are
\* terms of it are marked, of each word the longest such end; where a word ends with
\* its letters and digits, a hyphen continues it, and any other byte, an apostrophe
\* or one of UTF-8, does not (snippet_generate).
WordEndsMarked ==
    query # <<>> /\ LettersOnly =>
        LET shown == snippet.shown
            raw == SubSeq(BodyText, snippet.start, snippet.start + Len(shown) - 1)
        IN  \A k \in DOMAIN shown : shown[k].marked <=> WordEnd(raw, query, k)
=============================================================================
