----------------------------- MODULE MCLruCache -----------------------------
(* Model-checking instance of LruCache: a cache of three with four keys, so *)
(* that heads, tails and middle cells are all moved and evicted.            *)
EXTENDS LruCache, TLC

\* Cells are interchangeable addresses, and paths are only compared with one
\* another: the invariants and the refinement (a safety property) do not tell
\* permuted states apart.
Symmetry == Permutations(Nodes) \cup Permutations(Keys)
=============================================================================
