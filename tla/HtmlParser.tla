----------------------------- MODULE HtmlParser -----------------------------
(***************************************************************************)
(* html_parse_document of backend/src/html_parser.c as a scanner over one  *)
(* page, one action per branch of its loop.                                *)
(*                                                                         *)
(* A page is a sequence of pieces: text, tags, the two ends of a comment   *)
(* and a "<" that starts no tag.  A piece is spelled in classes of         *)
(* characters, which matter where it ends up as text: "x" is a letter or   *)
(* digit of ASCII, "-" a hyphen, "'" any other byte a word may have (an    *)
(* apostrophe, "_", the bytes of UTF-8), " " white space and "." any       *)
(* punctuation.  Tags come with their ">", so only a stray "<" reaches     *)
(* into the pieces after it.                                               *)
(***************************************************************************)
EXTENDS Integers, FiniteSets, SequencesExt

CONSTANTS
    Pieces,         \* the pieces pages are made of
    MaxPieces       \* bound: pieces in a page

Kinds == {"text", "open", "close", "lt", "comment", "uncomment"}
RawNames == {"script", "style"}
WordChars == {"x", "'", "-"}
Characters == WordChars \cup {" ", "."}

ASSUME PiecesKnown ==
    Pieces \subseteq [kind : Kinds, name : STRING, chars : Seq(Characters)]
ASSUME MaxPiecesNat == MaxPieces \in Nat

VARIABLES
    page,
    p,              \* the scan position
    hidden,         \* in_script and in_style, as the set of those that are up
    body,           \* body_buf: characters <<piece, place>>
    title,          \* the pieces <<from, to>> of doc->title, or <<>>
    headings,       \* those of doc->headings
    keywords,       \* doc->keywords and doc->links, as the tags they come from
    description,    \* the tag of doc->description, or 0
    links,
    done,
    steps           \* history: rounds of the loop so far

fields == <<title, headings, keywords, description, links>>
scanVars == <<page, p, hidden, body, title, headings, keywords, description, links, done,
              steps>>

Pages == UNION {[1 .. n -> Pieces] : n \in 0 .. MaxPieces}

ScanInit ==
    /\ page \in Pages
    /\ p = 1 /\ hidden = {} /\ body = <<>>
    /\ title = <<>> /\ headings = <<>> /\ keywords = <<>>
    /\ description = 0 /\ links = <<>>
    /\ done = FALSE /\ steps = 0

First(S) == CHOOSE i \in S : \A j \in S : i <= j

Here(kind) == ~done /\ p <= Len(page) /\ page[p].kind = kind
HereTag(kind, names) == Here(kind) /\ page[p].name \in names

\* The later pieces of a kind.
Later(kinds) == {i \in p + 1 .. Len(page) : page[i].kind \in kinds}
Closers == {i \in Later({"close"}) : page[i].name = page[p].name}

Class(c) == page[c[1]].chars[c[2]]
CharsOf(i) == [k \in DOMAIN page[i].chars |-> <<i, k>>]

-----------------------------------------------------------------------------

\* Where the scan goes on: after the first piece of a set, or nowhere.
After(S) == IF S = {} THEN Len(page) + 1 ELSE First(S) + 1

\* <!-- : skip to the next -->, or to the end.
CommentOpenEnded ==                      \* a plausible bug: stays at a comment without an end
    IF Later({"uncomment"}) = {} THEN p ELSE After(Later({"uncomment"}))
CommentEnd == After(Later({"uncomment"}))
Comment ==
    /\ Here("comment")
    /\ p' = CommentEnd
    /\ UNCHANGED <<page, hidden, body, fields, done>>

\* A "<" that starts no known tag ends at the next ">", in whatever it stands; the
\* loop is left if there is none.
StrayLess ==
    /\ Here("lt")
    /\ p' = After(Later({"open", "close", "uncomment"}))
    /\ UNCHANGED <<page, hidden, body, fields, done>>

\* <script>, <style> and their ends: a flag each.
RawAfterStays == IF page[p].kind = "open" THEN hidden \cup {page[p].name} ELSE hidden
RawAfter ==
    IF page[p].kind = "open" THEN hidden \cup {page[p].name} ELSE hidden \ {page[p].name}
RawTag ==
    /\ \E kind \in {"open", "close"} : HereTag(kind, RawNames)
    /\ hidden' = RawAfter
    /\ p' = p + 1
    /\ UNCHANGED <<page, body, fields, done>>

TitleUnskipped == p + 1                  \* a plausible bug: the title is read as text, too
AfterTitle == After(Closers)

\* <title>: the text up to </title>, if there is one, and the scan goes on behind it.
Title ==
    /\ HereTag("open", {"title"})
    /\ IF Closers = {}
       THEN p' = p + 1 /\ UNCHANGED title
       ELSE p' = AfterTitle /\ title' = <<p + 1, First(Closers) - 1>>
    /\ UNCHANGED <<page, hidden, body, headings, keywords, description, links, done>>

\* The slice has more than white space.
Says(from, to) == \E i \in from .. to : \E k \in DOMAIN page[i].chars : page[i].chars[k] # " "

\* <h1>: the text up to its end tag; the scan goes on inside.
Heading ==
    /\ HereTag("open", {"h1"})
    /\ headings' = IF Closers # {} /\ Says(p + 1, First(Closers) - 1)
                   THEN Append(headings, <<p + 1, First(Closers) - 1>>)
                   ELSE headings
    /\ p' = p + 1
    /\ UNCHANGED <<page, hidden, body, title, keywords, description, links, done>>

\* <meta> with a name and a content, <a> with a href.
Meta ==
    /\ \/ /\ HereTag("open", {"meta keywords"})
          /\ keywords' = Append(keywords, p)
          /\ UNCHANGED <<description, links>>
       \/ /\ HereTag("open", {"meta description"})
          /\ description' = p
          /\ UNCHANGED <<keywords, links>>
       \/ /\ HereTag("open", {"a"})
          /\ links' = Append(links, p)
          /\ UNCHANGED <<keywords, description>>
    /\ p' = p + 1
    /\ UNCHANGED <<page, hidden, body, title, headings, done>>

Handled == RawNames \cup {"title", "h1", "meta keywords", "meta description", "a"}

\* Any other tag, the end tags of those above included.
OtherTag ==
    /\ \/ Here("open") /\ page[p].name \notin Handled
       \/ Here("close") /\ page[p].name \notin RawNames
    /\ p' = p + 1
    /\ UNCHANGED <<page, hidden, body, fields, done>>

\* A character of the text: white space after white space or at the start is dropped.
Add(b, c) ==
    IF Class(c) = " " /\ (b = <<>> \/ Class(b[Len(b)]) = " ") THEN b ELSE Append(b, c)

Added(b, chars) ==
    LET sofar[k \in 0 .. Len(chars)] == IF k = 0 THEN b ELSE Add(sofar[k - 1], chars[k])
    IN  sofar[Len(chars)]

\* Text outside script and style; what ends a comment elsewhere is text.
Text ==
    /\ Here("text") \/ Here("uncomment")
    /\ body' = IF hidden = {} THEN Added(body, CharsOf(p)) ELSE body
    /\ p' = p + 1
    /\ UNCHANGED <<page, hidden, fields, done>>

\* The loop is over: trim_whitespace(body_buf).
Finish ==
    /\ ~done /\ p > Len(page)
    /\ body' = IF body # <<>> /\ Class(body[Len(body)]) = " "
               THEN SubSeq(body, 1, Len(body) - 1) ELSE body
    /\ done' = TRUE
    /\ UNCHANGED <<page, p, hidden, fields, steps>>

ScanStep ==
    /\ Comment \/ StrayLess \/ RawTag \/ Title \/ Heading \/ Meta \/ OtherTag \/ Text
    /\ steps' = steps + 1

Scan == ScanStep \/ Finish
=============================================================================
