------------------------------ MODULE IndexRcu ------------------------------
(***************************************************************************)
(* The life of the inverted-index instances: backend/src/index.c           *)
(* (index_get_active_instance, index_release_instance, index_atomic_swap)  *)
(* driven by the worker threads of backend/src/http_server.c.              *)
(*                                                                         *)
(* Every request that reads the index takes the active instance, uses it   *)
(* outside of any lock and releases it.  POST /index/rebuild builds a      *)
(* fresh instance, publishes it under the write lock and then saves it.    *)
(* An instance is freed when its plain `int ref_count` drops to zero.      *)
(*                                                                         *)
(* ref_count is incremented under g_swap_lock taken for READING, so two    *)
(* threads can be between the load and the store of `ref_count++` at once  *)
(* and one increment is lost.  The increment is therefore two steps here.  *)
(*                                                                         *)
(* An instance is never reused after it was freed: the number of rebuilds  *)
(* is bounded by Cardinality(Instances) - 1.                               *)
(***************************************************************************)
EXTENDS Integers, FiniteSets

CONSTANTS
    Threads,     \* the worker pool, CWEB_THREAD_POOL_SIZE of them
    Instances,   \* the InvertedIndex objects ever allocated
    NoInst,      \* NULL
    First,       \* the instance main publishes before the server starts
    Scribble,    \* what the allocator may leave in a freed object's ref_count
    MaxLost      \* bound: once so many increments are lost, no more may be

ASSUME ThreadsFinite == IsFiniteSet(Threads)
ASSUME FirstIsInstance == First \in Instances
ASSUME NullIsNoInstance == NoInst \notin Instances
ASSUME ScribbleInt == Scribble \subseteq Int
ASSUME MaxLostNat == MaxLost \in Nat

VARIABLES
    active,      \* g_active_index
    refCount,    \* InvertedIndex.ref_count
    mem,         \* what the allocator knows of each instance
    building,    \* g_index_building
    pc,          \* where each worker is
    inst,        \* the worker's local `idx` / `new_idx`
    reg,         \* the register `ref_count++` goes through
    lost,        \* history: increments overwritten by a store of `ref_count++`
    overlapped   \* history: a rebuild started while one was in progress

rcuVars == <<active, refCount, mem>>
threadVars == <<pc, inst, reg>>
vars == <<active, refCount, mem, building, pc, inst, reg, lost, overlapped>>

(***************************************************************************)
(* Labels of a worker:                                                     *)
(*   idle      between requests                                            *)
(*   getting   in index_get_active_instance, ref_count loaded, not stored  *)
(*   reading   uses the instance, then waits for the write lock to release *)
(*   freeing   decided free_needed, lock dropped, index_free not done      *)
(*   starting  rebuild, saw g_index_building = false                       *)
(*   building  rebuild, raised the flag, owns a private new_idx            *)
(*   saving    rebuild, published new_idx and writes it to disk            *)
(***************************************************************************)
Labels == {"idle", "getting", "reading", "freeing", "starting", "building", "saving"}

\* Requests that hold a counted reference on i.
Readers(i) == {t \in Threads : pc[t] = "reading" /\ inst[t] = i}

\* The reference index_create gives: the builder's until the swap, then the
\* one that being active amounts to.
Owned(i) == \/ active = i
            \/ \E t \in Threads : pc[t] = "building" /\ inst[t] = i

Refs(i) == Cardinality(Readers(i)) + (IF Owned(i) THEN 1 ELSE 0)

\* g_swap_lock can be taken for writing only when nobody holds it for reading.
\* Write sections are single steps, so they exclude one another.
WriteLockFree == \A t \in Threads : pc[t] # "getting"

Init ==
    /\ active = First
    /\ refCount = [i \in Instances |-> IF i = First THEN 1 ELSE 0]
    /\ mem = [i \in Instances |-> IF i = First THEN "live" ELSE "unused"]
    /\ building = FALSE
    /\ pc = [t \in Threads |-> "idle"]
    /\ inst = [t \in Threads |-> NoInst]
    /\ reg = [t \in Threads |-> 0]
    /\ lost = 0
    /\ overlapped = FALSE

-----------------------------------------------------------------------------
(* Getting and releasing an instance: the search, suggest, page, health     *)
(* and stats handlers.                                                      *)

\* rdlock, read the pointer, load ref_count.  The bound: readers overlap
\* between load and store only while lost < MaxLost.
GetLoad(t) ==
    /\ pc[t] = "idle"
    /\ lost < MaxLost \/ WriteLockFree
    /\ pc' = [pc EXCEPT ![t] = "getting"]
    /\ inst' = [inst EXCEPT ![t] = active]
    /\ reg' = [reg EXCEPT ![t] = refCount[active]]
    /\ UNCHANGED <<rcuVars, building, lost, overlapped>>

\* store ref_count + 1, drop the read lock; the register is dead afterwards.
GetStore(t) ==
    /\ pc[t] = "getting"
    /\ refCount' = [refCount EXCEPT ![inst[t]] = reg[t] + 1]
    /\ lost' = lost + (IF refCount[inst[t]] > reg[t] THEN refCount[inst[t]] - reg[t] ELSE 0)
    /\ pc' = [pc EXCEPT ![t] = "reading"]
    /\ reg' = [reg EXCEPT ![t] = 0]
    /\ UNCHANGED <<active, mem, building, inst, overlapped>>

\* free_needed of index_release_instance, for a count that became n.
FreeNeededActiveToo(i, n) == n <= 0          \* plausible bugs
FreeNeededEarly(i, n) == i # active /\ n <= 1
FreeNeededLate(i, n) == i # active /\ n < 0
FreeNeeded(i, n) == i # active /\ n <= 0

DropInst(t) == inst' = [inst EXCEPT ![t] = NoInst]

\* wrlock, ref_count--, decide, unlock.
Release(t) ==
    /\ pc[t] = "reading"
    /\ WriteLockFree
    /\ LET n == refCount[inst[t]] - 1 IN
        /\ refCount' = [refCount EXCEPT ![inst[t]] = n]
        /\ \/ /\ FreeNeeded(inst[t], n)
              /\ pc' = [pc EXCEPT ![t] = "freeing"]
              /\ UNCHANGED inst
           \/ /\ ~FreeNeeded(inst[t], n)
              /\ pc' = [pc EXCEPT ![t] = "idle"]
              /\ DropInst(t)
    /\ UNCHANGED <<active, mem, building, reg, lost, overlapped>>

\* index_free, outside of the lock; the allocator may overwrite the object.
Free(t) ==
    /\ pc[t] = "freeing"
    /\ mem' = [mem EXCEPT ![inst[t]] = "freed"]
    /\ \E v \in Scribble : refCount' = [refCount EXCEPT ![inst[t]] = v]
    /\ pc' = [pc EXCEPT ![t] = "idle"]
    /\ DropInst(t)
    /\ UNCHANGED <<active, building, reg, lost, overlapped>>

-----------------------------------------------------------------------------
(* POST /index/rebuild.                                                     *)

Unused == {i \in Instances : mem[i] = "unused"}

\* `if (g_index_building)` is taken: 409 and nothing else.
RebuildRefused(t) ==
    /\ pc[t] = "idle"
    /\ building
    /\ UNCHANGED vars

\* `if (g_index_building)` is not taken.  The bound: an instance is left for
\* this rebuild.
RebuildCheck(t) ==
    /\ pc[t] = "idle"
    /\ ~building
    /\ \E i \in Unused : TRUE
    /\ pc' = [pc EXCEPT ![t] = "starting"]
    /\ UNCHANGED <<rcuVars, building, inst, reg, lost, overlapped>>

KeepFlag ==                                  \* a plausible bug: never raised
    /\ building' = building
    /\ overlapped' = (overlapped \/ building)
RaiseFlag ==
    /\ building' = TRUE
    /\ overlapped' = (overlapped \/ building)

\* Raise the flag and create the new instance with ref_count = 1.
RebuildStart(t) ==
    /\ pc[t] = "starting"
    /\ RaiseFlag
    /\ \E i \in Unused :
        /\ inst' = [inst EXCEPT ![t] = i]
        /\ mem' = [mem EXCEPT ![i] = "live"]
        /\ refCount' = [refCount EXCEPT ![i] = 1]
    /\ pc' = [pc EXCEPT ![t] = "building"]
    /\ UNCHANGED <<active, reg, lost>>

SwapKeepsOldRef(old) == refCount[old]        \* a plausible bug
AfterRetire(old) == refCount[old] - 1

\* index_atomic_swap: publish, drop the active reference of the old instance
\* and free it in the lock if that was the last one.
Swap(t) ==
    /\ pc[t] = "building"
    /\ WriteLockFree
    /\ active' = inst[t]
    /\ LET n == AfterRetire(active) IN
        \/ /\ n <= 0
           /\ mem' = [mem EXCEPT ![active] = "freed"]
           /\ \E v \in Scribble : refCount' = [refCount EXCEPT ![active] = v]
        \/ /\ n > 0
           /\ refCount' = [refCount EXCEPT ![active] = n]
           /\ UNCHANGED mem
    /\ pc' = [pc EXCEPT ![t] = "saving"]
    /\ UNCHANGED <<building, inst, reg, lost, overlapped>>

FlagStaysUp == building' = TRUE              \* a plausible bug: never cleared
LowerFlag == building' = FALSE

\* persistence_save_index has read the whole of new_idx; clear the flag.
RebuildDone(t) ==
    /\ pc[t] = "saving"
    /\ LowerFlag
    /\ pc' = [pc EXCEPT ![t] = "idle"]
    /\ inst' = [inst EXCEPT ![t] = NoInst]
    /\ UNCHANGED <<rcuVars, reg, lost, overlapped>>

-----------------------------------------------------------------------------

Next ==
    \E t \in Threads :
        \/ GetLoad(t) \/ GetStore(t) \/ Release(t) \/ Free(t)
        \/ RebuildRefused(t) \/ RebuildCheck(t) \/ RebuildStart(t)
        \/ Swap(t) \/ RebuildDone(t)

Spec == Init /\ [][Next]_vars

(***************************************************************************)
(* Fairness.  A worker that is in the middle of a request keeps running    *)
(* (WF); requests themselves may never come.  A worker that waits for the  *)
(* write lock gets it if the lock is free again and again (SF): this is    *)
(* what the lock's queue has to provide: a reader lets the lock go and      *)
(* needs it for writing before it reads again.                             *)
(***************************************************************************)
InHandler(t) == GetStore(t) \/ Free(t) \/ RebuildStart(t) \/ RebuildDone(t)
AtWriteLock(t) == Release(t) \/ Swap(t)

Progress == \A t \in Threads : WF_vars(InHandler(t))
WriteLockFair == \A t \in Threads : SF_vars(AtWriteLock(t))

FairSpec == Spec /\ Progress /\ WriteLockFair

-----------------------------------------------------------------------------
(* Properties.                                                              *)

\* Types, and a worker has an instance in hand exactly in the labels where
\* the handler's idx or new_idx is set (http_server.c handlers).
TypeOK ==
    /\ active \in Instances
    /\ refCount \in [Instances -> Int]
    /\ mem \in [Instances -> {"unused", "live", "freed"}]
    /\ building \in BOOLEAN
    /\ pc \in [Threads -> Labels]
    /\ inst \in [Threads -> Instances \cup {NoInst}]
    /\ reg \in [Threads -> Int]
    /\ lost \in Nat
    /\ overlapped \in BOOLEAN
    /\ \A t \in Threads : inst[t] = NoInst <=> pc[t] \in {"idle", "starting"}

\* The published instance is never freed, whatever increments were lost and
\* however many rebuilds overlap: index_get_active_instance always hands out
\* memory that is still allocated.
ActiveLive == mem[active] = "live"

\* ref_count of an allocated instance never exceeds the references that really
\* exist (requests holding it, plus one while it is published or private to
\* its builder), and it falls short of them by the lost increments at most.
CountOff ==
    \A i \in Instances :
        mem[i] = "live" => refCount[i] \in (Refs(i) - lost) .. Refs(i)

\* An allocated instance is always reachable by someone who will free it:
\* no interleaving of releases, swaps and rebuilds leaks an index.
NoLeak ==
    \A i \in Instances :
        mem[i] = "live" =>
            \/ active = i
            \/ \E t \in Threads :
                pc[t] \in {"reading", "freeing", "building"} /\ inst[t] = i

\* As long as no increment of ref_count was lost, a request only ever reads
\* allocated memory, and an instance is freed once (a lost increment is the
\* ONLY way a reader can be hurt: overlapping rebuilds cannot).
ReaderSafe ==
    lost = 0 =>
        /\ \A t \in Threads :
            pc[t] \in {"getting", "reading", "freeing"} => mem[inst[t]] = "live"
        /\ \A t, u \in Threads :
            pc[t] = "freeing" /\ pc[u] \in {"reading", "freeing"} /\ t # u
                => inst[t] # inst[u]

\* A rebuild saves new_idx after the swap without a reference of its own.
\* That is sound as long as rebuilds never overlapped: the instance being
\* saved is still the published one.
SaverSafe ==
    ~overlapped => \A t \in Threads : pc[t] = "saving" => inst[t] = active

\* The flag is up only while some rebuild is between raising it and clearing
\* it: the 409 answer never outlives the rebuilds, even overlapping ones.
FlagCovered ==
    building => \E t \in Threads : pc[t] \in {"building", "saving"}

\* A retired instance that was allocated is eventually freed, under fair locks.
EventuallyReclaimed ==
    \A i \in Instances :
        (mem[i] = "live" /\ active # i) ~> (mem[i] = "freed" \/ active = i)

-----------------------------------------------------------------------------
(* What the documentation says and the code does not do.                    *)

\* index.h:33, "for RCU reader tracking": an instance a request holds is
\* never freed under it.
NoUseAfterFree ==
    \A t \in Threads : pc[t] = "reading" => mem[inst[t]] = "live"
=============================================================================
