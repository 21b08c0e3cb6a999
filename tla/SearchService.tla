--------------------------- MODULE SearchService ---------------------------
(***************************************************************************)
(* GET /search and POST /index/rebuild of backend/src/http_server.c as the *)
(* worker threads run them, with what they share: the response cache       *)
(* (AbstractLru), the published index, the rebuild flag and the pointer    *)
(* strtok keeps between calls.                                             *)
(*                                                                         *)
(* A request path is a sequence of parameters.  strtok hands them out one  *)
(* by one from a saved position, which is one per process in glibc and one *)
(* per thread in the Windows runtime: the Makefile builds for both.  An    *)
(* answer records the query and page it was computed for and the version   *)
(* of the index it was computed from.                                      *)
(***************************************************************************)
EXTENDS Integers, Sequences, FiniteSets

CONSTANTS
    Threads,            \* the worker pool
    Queries, Pages,     \* values of q= and page=
    BadQueries,         \* those query_parse rejects
    NoQuery,            \* q_param left empty
    FirstPage,          \* the default page
    Paths,              \* request paths: sequences of parameters
    NoAnswer,           \* cache_get returned NULL, nothing answered yet
    Capacity,           \* CWEB_CACHE_SIZE
    Runtimes,           \* the C libraries the server may be linked with
    MaxVersion          \* bound: how often the index is replaced

Params == [name : {"q"}, value : Queries] \cup [name : {"page"}, value : Pages]

ASSUME PathsAreParams == Paths \subseteq Seq(Params)
ASSUME CapacityPos == Capacity \in Nat \ {0}
ASSUME RuntimesKnown == Runtimes \subseteq {"glibc", "msvcrt"}
ASSUME Distinct ==
    /\ NoQuery \notin Queries /\ FirstPage \in Pages
    /\ NoAnswer \notin [q : Queries, page : Pages, version : 0 .. MaxVersion]
ASSUME PoolFinite == Threads # {} /\ IsFiniteSet(Threads)
ASSUME VersionsNat == MaxVersion \in Nat

VARIABLES
    pc, path,           \* per worker: label and request path
    qParam, page,       \* per worker: q_param, page
    snapshot,           \* per worker: the version of the index it acquired
    answer,             \* per worker: the response being sent
    save,               \* strtok's saved positions: owner and parameters left
    cache,              \* the response cache, most recently used first
    version,            \* the published index; each swap is the next version
    building,           \* g_index_building
    clearVersion,       \* history: the version published at the last cache_clear
    laggards,           \* history: workers that missed before that clear and have not stored yet
    refilled            \* history: paths such workers stored since

local == <<path, qParam, page, snapshot, answer>>
clearHistory == <<clearVersion, laggards, refilled>>
vars == <<pc, path, qParam, page, snapshot, answer, save, cache, version,
          building, clearVersion, laggards, refilled>>

LRU == INSTANCE AbstractLru
    WITH entries <- cache, reply <- NoAnswer, Keys <- Paths, Miss <- NoAnswer,
         Vals <- [q : Queries, page : Pages, version : 0 .. MaxVersion]

\* What the handler leaves in q_param and page for a path parsed undisturbed:
\* the last occurrence of a parameter wins.
Chosen(p, name, default) ==
    LET is == {i \in DOMAIN p : p[i].name = name}
    IN  IF is = {} THEN default
        ELSE p[CHOOSE i \in is : \A j \in is : j <= i].value

\* The C library keeps one strtok position per thread.
ThreadLocalStrtok == DOMAIN save = Threads

\* The position worker t's calls use.
Slot(t) == IF ThreadLocalStrtok THEN t ELSE CHOOSE u \in DOMAIN save : TRUE

Slots(runtime) ==
    IF runtime = "msvcrt" THEN Threads ELSE {CHOOSE u \in Threads : TRUE}

Init ==
    /\ pc = [t \in Threads |-> "idle"]
    /\ path = [t \in Threads |-> <<>>]
    /\ qParam = [t \in Threads |-> NoQuery]
    /\ page = [t \in Threads |-> FirstPage]
    /\ snapshot = [t \in Threads |-> 0]
    /\ answer = [t \in Threads |-> NoAnswer]
    /\ \E runtime \in Runtimes :
        save = [t \in Slots(runtime) |-> [owner |-> t, rest |-> <<>>]]
    /\ cache = <<>>
    /\ version = 0
    /\ building = FALSE
    /\ clearVersion = 0 /\ laggards = {} /\ refilled = {}

-----------------------------------------------------------------------------
(* GET /search                                                              *)

\* A request comes and cache_get(path) is called, a hit is the answer.
Lookup(t) ==
    /\ pc[t] = "idle"
    /\ \E p \in Paths :
        /\ cache' = LRU!Touched(p)
        /\ path' = [path EXCEPT ![t] = p]
        /\ answer' = [answer EXCEPT ![t] = LRU!Value(p)]
    /\ pc' = [pc EXCEPT ![t] = IF answer'[t] = NoAnswer THEN "missed" ELSE "answering"]
    /\ UNCHANGED <<qParam, page, snapshot, save, version, building, clearHistory>>

\* One turn of the parameter loop: store what the token says.
Take(t, param) ==
    /\ qParam' = [qParam EXCEPT ![t] = IF param.name = "q" THEN param.value ELSE @]
    /\ page' = [page EXCEPT ![t] = IF param.name = "page" THEN param.value ELSE @]

\* strtok(param_str, "&"): start on the worker's own string.
StrtokFirst(t) ==
    /\ pc[t] = "missed"
    /\ IF path[t] = <<>>
       THEN /\ save' = [save EXCEPT ![Slot(t)] = [owner |-> t, rest |-> <<>>]]
            /\ pc' = [pc EXCEPT ![t] = "parsed"]
            /\ UNCHANGED <<qParam, page>>
       ELSE /\ Take(t, Head(path[t]))
            /\ save' = [save EXCEPT ![Slot(t)] = [owner |-> t, rest |-> Tail(path[t])]]
            /\ pc' = [pc EXCEPT ![t] = "parsing"]
    /\ UNCHANGED <<path, snapshot, answer, cache, version, building, clearHistory>>

\* The saved position is the end of a string its owner has freed.
Dangling(s, t) == s.rest = <<>> /\ s.owner # t /\ pc[s.owner] # "parsing"

\* strtok(NULL, "&"): go on from the saved position, whoever it belongs to.
\* Reading freed memory yields the end of the string or, once, any parameter
\* that another string in its place holds.
StrtokNext(t) ==
    LET s == save[Slot(t)] IN
    /\ pc[t] = "parsing"
    /\ \/ /\ s.rest # <<>>
          /\ Take(t, Head(s.rest))
          /\ save' = [save EXCEPT ![Slot(t)].rest = Tail(s.rest)]
          /\ UNCHANGED pc
       \/ /\ Dangling(s, t)
          /\ \E p \in Paths : \E i \in DOMAIN p : Take(t, p[i])
          /\ save' = [save EXCEPT ![Slot(t)] = [owner |-> t, rest |-> <<>>]]
          /\ UNCHANGED pc
       \/ /\ s.rest = <<>>
          /\ pc' = [pc EXCEPT ![t] = "parsed"]
          /\ UNCHANGED <<qParam, page, save>>
    /\ UNCHANGED <<path, snapshot, answer, cache, version, building, clearHistory>>

Rejected(q) == q = NoQuery \/ q \in BadQueries

FinishKeepsParams(t) ==                      \* a plausible bug: q and page not reset
    /\ pc' = [pc EXCEPT ![t] = "idle"]
    /\ path' = [path EXCEPT ![t] = <<>>]
    /\ snapshot' = [snapshot EXCEPT ![t] = 0]
    /\ answer' = [answer EXCEPT ![t] = NoAnswer]
    /\ UNCHANGED <<qParam, page>>

\* The worker is done with the request; its locals are dead.
Finish(t) ==
    /\ pc' = [pc EXCEPT ![t] = "idle"]
    /\ path' = [path EXCEPT ![t] = <<>>]
    /\ qParam' = [qParam EXCEPT ![t] = NoQuery]
    /\ page' = [page EXCEPT ![t] = FirstPage]
    /\ snapshot' = [snapshot EXCEPT ![t] = 0]
    /\ answer' = [answer EXCEPT ![t] = NoAnswer]

\* An empty or malformed query: 400, nothing is cached.
BadRequest(t) ==
    /\ pc[t] = "parsed"
    /\ Rejected(qParam[t])
    /\ Finish(t)
    /\ laggards' = laggards \ {t}
    /\ UNCHANGED <<save, cache, version, building, clearVersion, refilled>>

\* index_get_active_instance.
Acquire(t) ==
    /\ pc[t] = "parsed"
    /\ ~Rejected(qParam[t])
    /\ snapshot' = [snapshot EXCEPT ![t] = version]
    /\ pc' = [pc EXCEPT ![t] = "evaluating"]
    /\ UNCHANGED <<path, qParam, page, answer, save, cache, version, building,
                   clearHistory>>

\* Evaluate on the acquired instance, render, cache_put(path, json).
Store(t) ==
    LET a == [q |-> qParam[t], page |-> page[t], version |-> snapshot[t]] IN
    /\ pc[t] = "evaluating"
    /\ cache' = LRU!Stored(path[t], a)
    /\ answer' = [answer EXCEPT ![t] = a]
    /\ pc' = [pc EXCEPT ![t] = "answering"]
    /\ laggards' = laggards \ {t}
    /\ refilled' = IF t \in laggards THEN refilled \cup {path[t]} ELSE refilled \ {path[t]}
    /\ UNCHANGED <<path, qParam, page, snapshot, save, version, building, clearVersion>>

\* Send the response, release the instance, close the connection.
Respond(t) ==
    /\ pc[t] = "answering"
    /\ Finish(t)
    /\ UNCHANGED <<save, cache, version, building, clearHistory>>

-----------------------------------------------------------------------------
(* POST /index/rebuild                                                      *)

\* The flag is up: 409.
RebuildRefused(t) == pc[t] = "idle" /\ building /\ UNCHANGED vars

\* The flag is seen down.  The bound: rebuilds under way stay below MaxVersion.
RebuildCheck(t) ==
    /\ pc[t] = "idle"
    /\ ~building
    /\ version + Cardinality({u \in Threads : pc[u] \in {"starting", "clearing", "building"}})
         < MaxVersion
    /\ pc' = [pc EXCEPT ![t] = "starting"]
    /\ UNCHANGED <<local, save, cache, version, building, clearHistory>>

RebuildStart(t) ==
    /\ pc[t] = "starting"
    /\ building' = TRUE
    /\ pc' = [pc EXCEPT ![t] = "clearing"]
    /\ UNCHANGED <<local, save, cache, version, clearHistory>>

CacheKept == UNCHANGED cache                 \* a plausible bug: nothing is cleared
CacheCleared == cache' = <<>>

InSearch == {"missed", "parsing", "parsed", "evaluating"}

\* cache_clear, before the new index is built.
RebuildClear(t) ==
    /\ pc[t] = "clearing"
    /\ CacheCleared
    /\ clearVersion' = version
    /\ laggards' = {u \in Threads : pc[u] \in InSearch}
    /\ refilled' = {}
    /\ pc' = [pc EXCEPT ![t] = "building"]
    /\ UNCHANGED <<local, save, version, building>>

\* index_atomic_swap.
RebuildSwap(t) ==
    /\ pc[t] = "building"
    /\ version' = version + 1
    /\ pc' = [pc EXCEPT ![t] = "saving"]
    /\ UNCHANGED <<local, save, cache, building, clearHistory>>

\* The index is saved, the flag cleared, 202 sent.
RebuildDone(t) ==
    /\ pc[t] = "saving"
    /\ building' = FALSE
    /\ pc' = [pc EXCEPT ![t] = "idle"]
    /\ UNCHANGED <<local, save, cache, version, clearHistory>>

-----------------------------------------------------------------------------

Work(t) ==
    \/ StrtokFirst(t) \/ StrtokNext(t) \/ BadRequest(t) \/ Acquire(t) \/ Store(t) \/ Respond(t)
    \/ RebuildStart(t) \/ RebuildClear(t) \/ RebuildSwap(t) \/ RebuildDone(t)

Next == \E t \in Threads : Lookup(t) \/ RebuildRefused(t) \/ RebuildCheck(t) \/ Work(t)

Spec == Init /\ [][Next]_vars

-----------------------------------------------------------------------------

Answers == [q : Queries, page : Pages, version : 0 .. MaxVersion]

TypeOK ==
    /\ pc \in [Threads -> InSearch \cup
            {"idle", "answering", "starting", "clearing", "building", "saving"}]
    /\ path \in [Threads -> Paths \cup {<<>>}]
    /\ qParam \in [Threads -> Queries \cup {NoQuery}]
    /\ page \in [Threads -> Pages]
    /\ snapshot \in [Threads -> 0 .. MaxVersion]
    /\ answer \in [Threads -> Answers \cup {NoAnswer}]
    /\ \A t \in Threads : answer[t] # NoAnswer <=> pc[t] = "answering"
    /\ Len(cache) <= Capacity
    /\ \A i \in DOMAIN cache : cache[i] \in [key : Paths, val : Answers]
    /\ version \in 0 .. MaxVersion
    /\ building \in BOOLEAN

\* Where strtok's position is per thread, the response stored under a path is
\* the response to that path: its q and its page, whatever the other workers
\* parse meanwhile, and never the error that a path without a valid query gets.
EntryIsForPath ==
    \A i \in DOMAIN cache :
        LET e == cache[i] IN
        /\ e.val.q = Chosen(e.key, "q", NoQuery)
        /\ e.val.page = Chosen(e.key, "page", FirstPage)

EntryMatchesPath ==
    ThreadLocalStrtok =>
        /\ EntryIsForPath
        /\ \A i \in DOMAIN cache : cache[i].val.q \notin BadQueries \cup {NoQuery}

\* Clearing the cache forgets: apart from what searches that were already past
\* their lookup store afterwards, no cached response is older than the index
\* that was published when the cache was last cleared.
NothingOlderThanClear ==
    \A i \in DOMAIN cache :
        cache[i].key \notin refilled => cache[i].val.version >= clearVersion

-----------------------------------------------------------------------------
(* What the documentation says and the code does not do.                    *)

\* architecture.md:24, "Exact hit queries return pre-rendered JSON payloads":
\* what is cached under a path was rendered for it, on every platform.
CachedUnderOwnPath == EntryIsForPath
=============================================================================
