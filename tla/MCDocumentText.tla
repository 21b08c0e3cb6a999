--------------------------- MODULE MCDocumentText ---------------------------
(* Model-checking instance of DocumentText: every page of up to four pieces *)
(* out of a word, a hyphen, an apostrophe, a blank and one piece of each    *)
(* kind of markup.  Words of two and three characters are kept; two words   *)
(* behind each other are longer, a lone hyphen is shorter.                  *)
EXTENDS DocumentText

piece(kind, name, chars) == [kind |-> kind, name |-> name, chars |-> chars]
tag == <<".", "x", "x", ".">>

MCPieces ==
    {piece("text", "", <<"x", "x">>), piece("text", "", <<"-">>), piece("text", "", <<"'">>),
     piece("text", "", <<" ">>),
     piece("lt", "", <<".">>),
     piece("comment", "", <<".", ".", "x", "x">>), piece("uncomment", "", <<"x", "x", ".">>),
     piece("open", "meta keywords", <<"x", "x">>), piece("open", "meta description", <<"x", "x">>)}
    \cup {piece("open", name, tag) : name \in {"script", "style", "title", "h1", "a"}}
    \cup {piece("close", name, tag) : name \in {"script", "style", "title", "h1"}}

MCQueries == {<< <<"x", "x">>, <<"x", "x", "x">> >>, << <<"x", "'", "x">> >>}

MCUntitled == <<"x", "x", " ", "x", "x">>
=============================================================================
