-------------------------- MODULE MCSearchService --------------------------
(* Model-checking instance of SearchService: four paths that differ in the  *)
(* query, in the page and in what they leave out, and a cache of one entry. *)
EXTENDS SearchService

q(v) == [name |-> "q", value |-> v]
p(n) == [name |-> "page", value |-> n]

\* ?   ?q=a   ?q=a&page=2   ?q=( (a syntax error)
MCPaths == {<<>>, <<q("a")>>, <<q("a"), p(2)>>, <<q("(")>>}
MCQueries == {"a", "("}
MCBadQueries == {"("}
MCPages == {1, 2}
=============================================================================
