---------------------------- MODULE AbstractLru ----------------------------
(***************************************************************************)
(* What the response cache of backend/src/http_server.c promises: a        *)
(* bounded map ordered by recency.  entries lists the cached responses,    *)
(* the most recently used first.  A hit moves the entry to the front, a    *)
(* new key enters at the front and pushes the last entry out of a full     *)
(* cache; storing under a cached key replaces the response in place.       *)
(***************************************************************************)
EXTENDS Integers, Sequences

CONSTANTS Keys, Vals, Capacity, Miss

VARIABLES entries, reply
vars == <<entries, reply>>

Entry == [key : Keys, val : Vals]

\* The positions of key k: at most one.
At(k) == {i \in 1 .. Len(entries) : entries[i].key = k}

Without(i) == SubSeq(entries, 1, i - 1) \o SubSeq(entries, i + 1, Len(entries))

Init == entries = <<>> /\ reply = Miss

\* What a lookup returns, and the entries after it.
Value(k) == IF At(k) = {} THEN Miss ELSE entries[CHOOSE i \in At(k) : TRUE].val
Touched(k) ==
    IF At(k) = {} THEN entries
    ELSE LET i == CHOOSE i \in At(k) : TRUE IN <<entries[i]>> \o Without(i)

\* The entries after v was stored under k.
Stored(k, v) ==
    IF At(k) # {} THEN [entries EXCEPT ![CHOOSE i \in At(k) : TRUE].val = v]
    ELSE <<[key |-> k, val |-> v]>> \o
            (IF Len(entries) < Capacity THEN entries ELSE SubSeq(entries, 1, Capacity - 1))

Get(k) == reply' = Value(k) /\ entries' = Touched(k)

Put(k, v) == entries' = Stored(k, v) /\ UNCHANGED reply

Clear == entries' = <<>> /\ UNCHANGED reply

Next ==
    \/ \E k \in Keys : Get(k) \/ \E v \in Vals : Put(k, v)
    \/ Clear

Spec == Init /\ [][Next]_vars
=============================================================================
