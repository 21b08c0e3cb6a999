----------------------------- MODULE MCIndexRcu -----------------------------
(* Model-checking instance of IndexRcu: a small pool of workers and enough  *)
(* instances for two rebuilds to overlap and a third to follow.             *)
EXTENDS IndexRcu

\* Freed memory either keeps a zero or holds a value that looks like a
\* count in use.
MCScribble == {0, 2}
=============================================================================
