------------------------------ MODULE LruCache ------------------------------
(***************************************************************************)
(* The response cache of backend/src/http_server.c: CacheNode cells on the *)
(* heap, doubly linked between g_cache.head and g_cache.tail.  Every       *)
(* function runs under g_cache.lock, so each call is one step, made of the *)
(* pointer assignments of the C code in their order.                       *)
(***************************************************************************)
EXTENDS Integers, Sequences, FiniteSets

CONSTANTS
    Keys,        \* request paths
    Vals,        \* rendered JSON responses
    Capacity,    \* CWEB_CACHE_SIZE
    Nodes,       \* addresses calloc may return
    Null,        \* NULL
    Miss,        \* cache_get returned NULL
    StatWrap     \* bound: hits and misses count modulo StatWrap

ASSUME CapacityPos == Capacity \in Nat \ {0}
ASSUME NodesEnough == IsFiniteSet(Nodes) /\ Cardinality(Nodes) >= Capacity
ASSUME StatWrapPos == StatWrap \in Nat \ {0}

VARIABLES
    head, tail, size,    \* g_cache
    heap,                \* the contents of each cell, Null for one not allocated
    hits, misses,        \* g_cache.hits, g_cache.misses
    reply,               \* what the last cache_get returned
    since                \* history: for each key stored since the last clear, the
                         \* other keys moved to the front after it last was

cacheVars == <<head, tail, size, heap, hits, misses, reply, since>>

Cell == [key : Keys, val : Vals, prev : Nodes \cup {Null}, next : Nodes \cup {Null}]

\* NULL is no address, and no content of a cell.
ASSUME NullIsOther == Null \notin Nodes \cup Cell

CacheInit ==
    /\ head = Null /\ tail = Null /\ size = 0
    /\ heap = [n \in Nodes |-> Null]
    /\ hits = 0 /\ misses = 0
    /\ reply = Miss
    /\ since = <<>>

-----------------------------------------------------------------------------
(* Walking the list.                                                        *)

\* The i-th cell of heap hp met by `node = node->next` from hd, counted from 0.
WalkFrom(hd, hp) ==
    LET step[i \in 0 .. Cardinality(Nodes)] ==
            IF i = 0 THEN hd
            ELSE IF step[i - 1] = Null THEN Null
            ELSE hp[step[i - 1]].next
    IN step

\* The cells met, in order.
ChainFrom(hd, hp) ==
    LET walk == WalkFrom(hd, hp)
        len  == Cardinality({i \in DOMAIN walk : walk[i] # Null})
    IN  [i \in 1 .. len |-> walk[i - 1]]

\* The cells of the list in order.
Chain == ChainFrom(head, heap)

\* The first cell with key k, if any: strcmp in the loops of get and put.
Lookup(k) ==
    LET c == Chain
        hit == {i \in DOMAIN c : heap[c[i]].key = k}
    IN  {c[i] : i \in {j \in hit : \A m \in hit : j <= m}}

-----------------------------------------------------------------------------
(* Pointer surgery.                                                         *)

SetNext(h, n, to) == [h EXCEPT ![n].next = to]
SetPrev(h, n, to) == [h EXCEPT ![n].prev = to]

\* Take n, not the head, out of its place.
UnlinkForwardOnly(h, n) == SetNext(h, h[n].prev, h[n].next)   \* a plausible bug
Unlink(h, n) ==
    IF n = tail THEN SetNext(h, h[n].prev, Null)
    ELSE SetPrev(SetNext(h, h[n].prev, h[n].next), h[n].next, h[n].prev)

\* Link n in front of the old head.
LinkFront(h, n) == SetPrev(SetPrev(SetNext(h, n, head), n, Null), head, n)

\* k was moved to the front.
Touch(k) ==
    since' = [x \in DOMAIN since \cup {k} |->
                IF x = k THEN {} ELSE since[x] \cup {k}]

-----------------------------------------------------------------------------

GetHitInPlace(k) ==                  \* a plausible bug: a hit is not moved
    \E n \in Lookup(k) :
        /\ hits' = (hits + 1) % StatWrap
        /\ reply' = heap[n].val
        /\ UNCHANGED <<head, tail, size, heap, misses, since>>

\* cache_get finds k: move the cell to the front, copy the response.
GetHit(k) ==
    \E n \in Lookup(k) :
        /\ \/ n = head /\ UNCHANGED <<head, tail, heap>>
           \/ /\ n # head
              /\ heap' = LinkFront(Unlink(heap, n), n)
              /\ tail' = IF n = tail THEN heap[n].prev ELSE tail
              /\ head' = n
        /\ hits' = (hits + 1) % StatWrap
        /\ reply' = heap[n].val
        /\ Touch(k)
        /\ UNCHANGED <<size, misses>>

GetMiss(k) ==
    /\ Lookup(k) = {}
    /\ misses' = (misses + 1) % StatWrap
    /\ reply' = Miss
    /\ UNCHANGED <<head, tail, size, heap, hits, since>>

\* cache_get
Get(k) == GetHit(k) \/ GetMiss(k)

\* cache_put under a cached key: the response is replaced in place.
PutHit(k, v) ==
    \E n \in Lookup(k) :
        /\ heap' = [heap EXCEPT ![n].val = v]
        /\ UNCHANGED <<head, tail, size, hits, misses, reply, since>>

\* The cache after the eviction that makes room, if one is needed.
FullEarly == size + 1 >= Capacity                        \* a plausible bug
Full == size >= Capacity
AfterEvict ==
    IF ~(Full /\ tail # Null)
    THEN [heap |-> heap, head |-> head, tail |-> tail, size |-> size]
    ELSE LET p == heap[tail].prev
             freed == [heap EXCEPT ![tail] = Null]
         IN  IF p # Null
             THEN [heap |-> SetNext(freed, p, Null), head |-> head, tail |-> p, size |-> size - 1]
             ELSE [heap |-> freed, head |-> Null, tail |-> Null, size |-> size - 1]

\* cache_put under a new key: evict the tail if full, insert at the front.
PutNew(k, v) ==
    LET e == AfterEvict IN
    /\ Lookup(k) = {}
    /\ \E n \in {m \in Nodes : e.heap[m] = Null} :
        LET new == [e.heap EXCEPT ![n] = [key |-> k, val |-> v, prev |-> Null, next |-> e.head]]
        IN  /\ heap' = IF e.head # Null THEN SetPrev(new, e.head, n) ELSE new
            /\ head' = n
            /\ tail' = IF e.tail = Null THEN n ELSE e.tail
    /\ size' = e.size + 1
    /\ Touch(k)
    /\ UNCHANGED <<hits, misses, reply>>

\* cache_put
Put(k, v) == PutHit(k, v) \/ PutNew(k, v)

\* cache_clear: free every cell of the list; the statistics stay.
Clear ==
    /\ heap' = [n \in Nodes |-> IF \E i \in DOMAIN Chain : Chain[i] = n THEN Null ELSE heap[n]]
    /\ head' = Null /\ tail' = Null /\ size' = 0
    /\ since' = <<>>
    /\ UNCHANGED <<hits, misses, reply>>

CacheNext ==
    \/ \E k \in Keys : Get(k) \/ \E v \in Vals : Put(k, v)
    \/ Clear

CacheSpec == CacheInit /\ [][CacheNext]_cacheVars

-----------------------------------------------------------------------------

CacheTypeOK ==
    /\ head \in Nodes \cup {Null} /\ tail \in Nodes \cup {Null}
    /\ size \in 0 .. Capacity
    /\ heap \in [Nodes -> Cell \cup {Null}]
    /\ hits \in 0 .. (StatWrap - 1) /\ misses \in 0 .. (StatWrap - 1)
    /\ reply \in Vals \cup {Miss}
    /\ DOMAIN since \subseteq Keys

\* The list is sound after every mixture of hits, replacements, evictions and
\* clears: the walk from the head meets every allocated cell once (nothing
\* leaks, nothing freed is reachable), ends at tail, prev mirrors next, and
\* size is its length.
WellFormed ==
    LET c == Chain IN
    /\ CacheTypeOK
    /\ {c[i] : i \in DOMAIN c} = {n \in Nodes : heap[n] # Null}
    /\ Len(c) = size
    /\ Len(c) = Cardinality({n \in Nodes : heap[n] # Null})
    /\ tail = IF c = <<>> THEN Null ELSE c[Len(c)]
    /\ \A i \in DOMAIN c :
        heap[c[i]].prev = IF i = 1 THEN Null ELSE c[i - 1]

\* A response leaves the cache only when Capacity other keys were used since it
\* was: no sequence of calls evicts a hotter entry than the rest.
HotStays ==
    \A k \in DOMAIN since :
        Cardinality(since[k]) < Capacity => Lookup(k) # {}

\* The pointer structure implements the bounded recency list.
entriesOf ==
    LET c == Chain IN [i \in DOMAIN c |-> [key |-> heap[c[i]].key, val |-> heap[c[i]].val]]
Abs == INSTANCE AbstractLru WITH entries <- entriesOf
ImplementsAbstractLru == Abs!Spec
=============================================================================
