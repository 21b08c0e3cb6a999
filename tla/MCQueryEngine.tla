--------------------------- MODULE MCQueryEngine ---------------------------
(* Model-checking instance of QueryEngine: three documents whose scores for *)
(* one word lie within the tolerance of each other in a chain, one word     *)
(* that is in one document, one that is in none, and five words in the      *)
(* trie, more than its walk keeps.                                          *)
EXTENDS QueryGrammar

MCFieldParts ==
    ("title:dot" :> [field |-> "title", word |-> "dot"]) @@
    ("title:" :> [field |-> "title", word |-> ""])

Letters ==
    ("cat" :> <<3, 1, 20>>) @@ ("car" :> <<3, 1, 18>>) @@ ("cart" :> <<3, 1, 18, 20>>) @@
    ("at" :> <<1, 20>>) @@ ("dot" :> <<4, 15, 20>>) @@ ("cot" :> <<3, 15, 20>>) @@
    ("title" :> <<20, 9, 20>>) @@
    ("AND" :> <<1, 14, 4>>) @@ ("OR" :> <<15, 18>>) @@ ("NOT" :> <<14, 15, 20>>)

MCFrequency == ("cat" :> 4) @@ ("car" :> 2) @@ ("cart" :> 3) @@ ("at" :> 2) @@ ("dot" :> 9)

MCTermScore == [d \in Docs |-> IF d = 2 THEN ("cat" :> 4) @@ ("dot" :> 3) ELSE "cat" :> 2 * d]

MCModified == [d \in Docs |-> 4 - d]

MCAsked == {<<>>, <<3>>, <<3, 1, 18>>, <<9>>}
=============================================================================
