----------------------------- MODULE HashTable -----------------------------
(***************************************************************************)
(* The chained hash table of backend/src/hash_table.c as operators on a    *)
(* record: the chain of each bucket, the number of keys and the collision  *)
(* counter shown by /stats.  A value is replaced through the pointer that  *)
(* hash_table_get returns, which is Assign here.                           *)
(***************************************************************************)
EXTENDS Integers, FiniteSets, SequencesExt

CONSTANTS
    Terms,       \* the keys
    Hash,        \* fnv1a_hash, any function of the key
    NotFound     \* NULL

ASSUME HashNat == Hash \in [Terms -> Nat]

Empty(n) == [buckets |-> [i \in 0 .. n - 1 |-> <<>>], size |-> 0, collisions |-> 0]

Width(h) == Cardinality(DOMAIN h.buckets)

Slot(n, k) == Hash[k] % n

\* All nodes in the order in which resizing meets them.
Nodes(h) == FlattenSeq([i \in 1 .. Width(h) |-> h.buckets[i - 1]])

Occupied(buckets) == {i \in DOMAIN buckets : buckets[i] # <<>>}

\* A node becomes the first of its chain among n.
Pushed(buckets, x, n) == [buckets EXCEPT ![Slot(n, x.key)] = <<x>> \o @]

\* The chains after every node was pushed, in that order.
Spread(nodes, n) ==
    LET after[i \in 0 .. Len(nodes)] ==
            IF i = 0 THEN [b \in 0 .. n - 1 |-> <<>>] ELSE Pushed(after[i - 1], nodes[i], n)
    IN  after[Len(nodes)]

Rebuilt(h, nodes) ==
    LET new == Spread(nodes, 2 * Width(h))
    IN  [buckets |-> new, size |-> h.size,
         collisions |-> Len(nodes) - Cardinality(Occupied(new))]

ResizeKeepsHead(h) ==                \* a plausible bug: node->next is lost
    LET heads == SelectSeq([i \in 1 .. Width(h) |-> h.buckets[i - 1]], LAMBDA c : c # <<>>)
    IN  Rebuilt(h, [i \in DOMAIN heads |-> heads[i][1]])
Resize(h) == Rebuilt(h, Nodes(h))

\* Positions of key k in its chain.
At(h, k) ==
    LET chain == h.buckets[Slot(Width(h), k)] IN {i \in DOMAIN chain : chain[i].key = k}

Node(h, k) == CHOOSE i \in At(h, k) : TRUE

Get(h, k) ==
    IF At(h, k) = {} THEN NotFound
    ELSE h.buckets[Slot(Width(h), k)][Node(h, k)].value

WithBuckets(h, new) == [buckets |-> new, size |-> h.size, collisions |-> h.collisions]

Assign(h, k, v) ==
    LET b == Slot(Width(h), k)
    IN  WithBuckets(h, [h.buckets EXCEPT
            ![b] = [@ EXCEPT ![Node(h, k)] = [key |-> k, value |-> v]]])

GrowLate(h) == h                     \* a plausible bug: the table never grows
Grow(h) == IF 4 * h.size > 3 * Width(h) THEN Resize(h) ELSE h

\* hash_table_put: grow first, count a collision if the bucket is in use,
\* replace the value of a known key or push a new node.
Put(h, k, v) ==
    LET g == Grow(h)
        n == Width(g)
        clash == IF g.buckets[Slot(n, k)] = <<>> THEN 0 ELSE 1
        c == [buckets |-> g.buckets, size |-> g.size, collisions |-> g.collisions + clash]
    IN  IF At(g, k) # {} THEN Assign(c, k, v)
        ELSE [buckets |-> Pushed(c.buckets, [key |-> k, value |-> v], n),
              size |-> c.size + 1, collisions |-> c.collisions]

\* The table with Op applied to every value, as a walk over all chains does.
EachValue(h, Op(_)) ==
    WithBuckets(h, [b \in DOMAIN h.buckets |->
        [j \in DOMAIN h.buckets[b] |->
            [key |-> h.buckets[b][j].key, value |-> Op(h.buckets[b][j].value)]]])

\* The table is sound: each key hangs in the bucket of its hash, once; size
\* counts the keys; chains stay short on average; collisions counts at least
\* the keys that share a bucket with an earlier one.
Sound(h) ==
    /\ \A i \in DOMAIN h.buckets : \A j \in DOMAIN h.buckets[i] :
        Slot(Width(h), h.buckets[i][j].key) = i
    /\ \A k \in Terms : \A i, j \in At(h, k) : i = j
    /\ h.size = Cardinality({k \in Terms : At(h, k) # {}})
    /\ 4 * (h.size - 1) <= 3 * Width(h)
    /\ h.collisions >= h.size - Cardinality(Occupied(h.buckets))
=============================================================================
