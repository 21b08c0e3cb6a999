--------------------------- MODULE IndexRcuProofs ---------------------------
(***************************************************************************)
(* Proofs about IndexRcu for every pool of workers, every number of        *)
(* instances, every MaxLost and whatever the allocator leaves in freed     *)
(* memory.  IndInv is the inductive invariant; the safety properties are   *)
(* parts of it or follow from it.                                          *)
(***************************************************************************)
EXTENDS IndexRcu, FiniteSetTheorems, TLAPS

-----------------------------------------------------------------------------
(* The inductive invariant.                                                 *)

\* A builder's new instance is allocated, not yet published, and nobody
\* else's.
BuilderPrivate ==
    \A t \in Threads : pc[t] = "building" =>
        /\ inst[t] # active
        /\ mem[inst[t]] = "live"
        /\ \A u \in Threads \ {t} : inst[u] # inst[t]

\* What a worker has in hand was allocated at some time.
HeldAllocated ==
    \A t \in Threads : inst[t] # NoInst => mem[inst[t]] # "unused"

\* While the read lock is held the pointer stays, and no reference that the
\* loaded count stands for goes away.
GetterInTime ==
    \A t \in Threads : pc[t] = "getting" =>
        inst[t] = active /\ reg[t] <= Refs(active)

\* index_release_instance only decides to free what is no longer published.
FreeingRetired == \A t \in Threads : pc[t] = "freeing" => inst[t] # active

\* With no increment lost: readers hold allocated memory, and the one who
\* frees an instance is the last to know it.
FreedByLast ==
    lost = 0 =>
        /\ \A t \in Threads : pc[t] = "reading" => mem[inst[t]] = "live"
        /\ \A t \in Threads : pc[t] = "freeing" =>
            /\ mem[inst[t]] = "live"
            /\ Readers(inst[t]) = {}
            /\ \A u \in Threads \ {t} : pc[u] = "freeing" => inst[u] # inst[t]

IndInv ==
    /\ TypeOK
    /\ ActiveLive
    /\ BuilderPrivate
    /\ HeldAllocated
    /\ GetterInTime
    /\ FreeingRetired
    /\ CountOff
    /\ NoLeak
    /\ FreedByLast

\* A raised flag and an undisturbed history leave room for one rebuild.
FlagInv ==
    /\ FlagCovered
    /\ SaverSafe
    /\ ~overlapped =>
        \A t \in Threads : pc[t] \in {"building", "saving"} =>
            /\ building
            /\ \A u \in Threads \ {t} : pc[u] \notin {"building", "saving"}

-----------------------------------------------------------------------------
(* Counting references.                                                     *)

\* The readers of an instance are finitely many, and Refs counts them and
\* the reference of the owner.
LEMMA RefsCount ==
    ASSUME NEW i \in Instances
    PROVE  /\ IsFiniteSet(Readers(i))
           /\ Cardinality(Readers(i)) \in Nat
           /\ Refs(i) \in Nat
           /\ Owned(i) => Refs(i) = Cardinality(Readers(i)) + 1
           /\ ~Owned(i) => Refs(i) = Cardinality(Readers(i))
           /\ Cardinality(Readers(i)) = 0 <=> Readers(i) = {}
<1>1. IsFiniteSet(Readers(i))
    BY ThreadsFinite, FS_Subset DEF Readers
<1>2. Cardinality(Readers(i)) \in Nat /\ (Cardinality(Readers(i)) = 0 <=> Readers(i) = {})
    BY <1>1, FS_CardinalityType, FS_EmptySet
<1> QED
    BY <1>1, <1>2 DEF Refs

\* Refs depends on the readers and the owner only.
LEMMA RefsFrame ==
    ASSUME NEW i, Readers(i)' = Readers(i), Owned(i)' = Owned(i)
    PROVE  Refs(i)' = Refs(i)
BY DEF Refs

\* An instance in hand is an instance.
LEMMA InHand ==
    ASSUME TypeOK, NEW t \in Threads, pc[t] \notin {"idle", "starting"}
    PROVE  inst[t] \in Instances
BY DEF TypeOK

-----------------------------------------------------------------------------
(* Each action preserves the invariant.                                     *)

LEMMA InitInd == Init => IndInv
<1> SUFFICES ASSUME Init PROVE IndInv
    OBVIOUS
<1>1. TypeOK
  <2>1. refCount \in [Instances -> Int] /\ mem \in [Instances -> {"unused", "live", "freed"}]
      BY DEF Init
  <2>2. pc \in [Threads -> Labels] /\ inst \in [Threads -> Instances \cup {NoInst}]
      BY DEF Init, Labels
  <2>3. active \in Instances /\ reg \in [Threads -> Int] /\ lost \in Nat
      BY FirstIsInstance DEF Init
  <2> QED
      BY <2>1, <2>2, <2>3 DEF Init, TypeOK
<1>2. \A i \in Instances : Readers(i) = {}
    BY DEF Init, Readers
<1>3. Refs(First) = 1
    BY <1>2, FirstIsInstance, RefsCount DEF Init, Owned
<1>4. CountOff
    BY <1>3 DEF Init, CountOff
<1>5. ActiveLive
    BY FirstIsInstance DEF Init, ActiveLive
<1>7. BuilderPrivate /\ HeldAllocated /\ GetterInTime /\ FreeingRetired
    BY DEF Init, BuilderPrivate, HeldAllocated, GetterInTime, FreeingRetired
<1>6. NoLeak /\ FreedByLast
    BY DEF Init, NoLeak, FreedByLast
<1> QED
    BY <1>1, <1>4, <1>5, <1>7, <1>6 DEF IndInv

\* A read of the pointer and the count changes no reference.
LEMMA GetLoadInd ==
    ASSUME IndInv, NEW t \in Threads, GetLoad(t)
    PROVE  IndInv'
<1> USE DEF IndInv
<1>1. TypeOK'
    BY NullIsNoInstance DEF TypeOK, Labels, GetLoad, rcuVars
<1>2. \A i \in Instances : Readers(i)' = Readers(i) /\ Owned(i)' = Owned(i)
    BY DEF TypeOK, GetLoad, rcuVars, Readers, Owned
<1>3. \A i \in Instances : Refs(i)' = Refs(i)
    BY <1>2, RefsFrame
<1>4. ActiveLive' /\ BuilderPrivate' /\ HeldAllocated' /\ FreeingRetired'
    BY DEF TypeOK, GetLoad, rcuVars, ActiveLive, BuilderPrivate, HeldAllocated, FreeingRetired
<1>5. refCount[active] <= Refs(active)
    BY RefsCount DEF TypeOK, ActiveLive, CountOff
<1>6. GetterInTime'
    BY <1>3, <1>5 DEF TypeOK, GetLoad, rcuVars, GetterInTime
<1>7. CountOff'
    BY <1>3 DEF GetLoad, rcuVars, CountOff
<1>8. NoLeak'
    BY DEF TypeOK, GetLoad, rcuVars, NoLeak
<1>9. FreedByLast'
    BY <1>2, InHand DEF TypeOK, GetLoad, rcuVars, FreedByLast
<1> QED
    BY <1>1, <1>4, <1>6, <1>7, <1>8, <1>9

\* The store adds one reader; what it overwrites is booked in lost.
LEMMA GetStoreInd ==
    ASSUME IndInv, NEW t \in Threads, GetStore(t)
    PROVE  IndInv'
<1> USE DEF IndInv
<1>1. TypeOK'
    BY DEF TypeOK, Labels, GetStore
<1>2. PICK a \in Instances : a = active
    BY DEF TypeOK
<1>20. inst[t] = a /\ active' = a /\ reg[t] <= Refs(a) /\ reg[t] \in Int
    BY <1>2 DEF TypeOK, GetStore, GetterInTime
<1>3. Readers(a)' = Readers(a) \cup {t} /\ t \notin Readers(a)
    BY <1>2, <1>20 DEF TypeOK, GetStore, Readers
<1>4. \A i \in Instances : Owned(i)' = Owned(i)
    BY DEF TypeOK, GetStore, Owned
<1>5. \A i \in Instances \ {a} : Readers(i)' = Readers(i)
    BY <1>2, <1>20 DEF TypeOK, GetStore, Readers
<1>6. Cardinality(Readers(a)') = Cardinality(Readers(a)) + 1
    BY <1>3, RefsCount, FS_AddElement
<1>7. Refs(a)' = Refs(a) + 1
    BY <1>4, <1>6, RefsCount DEF Refs
<1>8. \A i \in Instances \ {a} : Refs(i)' = Refs(i)
    BY <1>4, <1>5, RefsFrame
<1>9. ActiveLive' /\ BuilderPrivate' /\ HeldAllocated' /\ FreeingRetired'
    BY DEF TypeOK, GetStore, ActiveLive, BuilderPrivate, HeldAllocated, FreeingRetired
<1>10. GetterInTime'
    BY <1>2, <1>20, <1>7, RefsCount DEF TypeOK, GetStore, GetterInTime
<1>11. CountOff'
  <2> SUFFICES ASSUME NEW i \in Instances, mem'[i] = "live"
               PROVE  refCount'[i] \in (Refs(i)' - lost') .. Refs(i)'
      BY DEF CountOff
  <2>1. mem[i] = "live" /\ refCount[i] \in Int /\ lost \in Nat /\ Refs(i) \in Nat
      BY RefsCount DEF TypeOK, GetStore
  <2>2. refCount[i] >= Refs(i) - lost /\ refCount[i] <= Refs(i)
      BY <2>1 DEF CountOff
  <2>3. CASE i = a
    <3>1. refCount'[i] = reg[t] + 1
        BY <1>20, <2>3 DEF TypeOK, GetStore
    <3>2. lost' = lost + (IF refCount[i] > reg[t] THEN refCount[i] - reg[t] ELSE 0)
        BY <1>20, <2>3 DEF GetStore
    <3>3. Refs(i)' = Refs(i) + 1
        BY <1>7, <2>3
    <3> QED
        BY <1>20, <2>1, <2>2, <2>3, <3>1, <3>2, <3>3
  <2>4. CASE i # a
    <3>1. refCount'[i] = refCount[i] /\ Refs(i)' = Refs(i)
        BY <1>20, <1>8, <2>4 DEF TypeOK, GetStore
    <3>2. lost' >= lost /\ lost' \in Nat
        BY <1>1, <1>20 DEF TypeOK, GetStore
    <3> QED
        BY <2>1, <2>2, <3>1, <3>2
  <2> QED
      BY <2>3, <2>4
<1>12. NoLeak'
    BY DEF TypeOK, GetStore, NoLeak
<1>13. FreedByLast'
  <2>1. lost' = 0 => lost = 0
      BY <1>20, <1>2 DEF TypeOK, GetStore
  <2>2. \A u \in Threads : pc'[u] = "freeing" =>
            pc[u] = "freeing" /\ inst[u] \in Instances \ {a} /\ inst'[u] = inst[u]
      BY <1>2, InHand DEF TypeOK, GetStore, FreeingRetired
  <2>3. \A u \in Threads : pc'[u] = "reading" =>
            inst'[u] = inst[u] /\ (pc[u] = "reading" \/ inst[u] = a)
      BY <1>20, <1>2 DEF TypeOK, GetStore
  <2>4. mem' = mem
      BY DEF GetStore
  <2> QED
      BY <1>2, <1>5, <2>1, <2>2, <2>3, <2>4 DEF FreedByLast, ActiveLive
<1> QED
    BY <1>1, <1>9, <1>10, <1>11, <1>12, <1>13

\* Dropping a reader: the last one is the one who frees.
LEMMA ReleaseInd ==
    ASSUME IndInv, NEW t \in Threads, Release(t)
    PROVE  IndInv'
<1> USE DEF IndInv
<1> DEFINE n == refCount[inst[t]] - 1
<1>1. PICK a \in Instances : a = inst[t]
    BY InHand DEF Release
<1>2. /\ pc[t] = "reading" /\ n \in Int /\ active' = active /\ mem' = mem /\ lost' = lost
      /\ refCount' = [refCount EXCEPT ![a] = n]
      /\ \A u \in Threads : pc[u] # "getting"
    BY <1>1 DEF TypeOK, Release, WriteLockFree
<1>3. \/ /\ a # active /\ n <= 0
         /\ pc' = [pc EXCEPT ![t] = "freeing"] /\ inst' = inst
      \/ /\ a = active \/ n > 0
         /\ pc' = [pc EXCEPT ![t] = "idle"] /\ inst' = [inst EXCEPT ![t] = NoInst]
    BY <1>1, <1>2 DEF Release, FreeNeeded, DropInst
<1>4. TypeOK'
    BY <1>2, <1>3 DEF TypeOK, Labels, Release
<1>5. \A u \in Threads \ {t} : pc'[u] = pc[u] /\ inst'[u] = inst[u]
    BY <1>3 DEF TypeOK
<1>6. pc'[t] \in {"freeing", "idle"}
    BY <1>3 DEF TypeOK
<1>7. \A i \in Instances : Owned(i)' = Owned(i)
    BY <1>2, <1>5, <1>6 DEF Owned
<1>8. Readers(a)' = Readers(a) \ {t} /\ t \in Readers(a)
    BY <1>1, <1>2, <1>5, <1>6 DEF Readers
<1>9. \A i \in Instances \ {a} : Readers(i)' = Readers(i)
    BY <1>1, <1>2, <1>5, <1>6 DEF Readers
<1>10. Cardinality(Readers(a)') = Cardinality(Readers(a)) - 1
    BY <1>8, RefsCount, FS_RemoveElement
<1>11. Refs(a)' = Refs(a) - 1
    BY <1>7, <1>10, RefsCount DEF Refs
<1>12. \A i \in Instances \ {a} : Refs(i)' = Refs(i)
    BY <1>7, <1>9, RefsFrame
<1>13. ActiveLive' /\ BuilderPrivate' /\ HeldAllocated' /\ GetterInTime'
    BY <1>1, <1>2, <1>3, <1>5, <1>6 DEF TypeOK, ActiveLive, BuilderPrivate, HeldAllocated, GetterInTime
<1>14. FreeingRetired'
    BY <1>1, <1>2, <1>3, <1>5 DEF TypeOK, FreeingRetired
<1>15. CountOff'
  <2> SUFFICES ASSUME NEW i \in Instances, mem[i] = "live"
               PROVE  refCount'[i] \in (Refs(i)' - lost) .. Refs(i)'
      BY <1>2 DEF CountOff
  <2>1. refCount[i] \in Int /\ lost \in Nat /\ Refs(i) \in Nat
      BY RefsCount DEF TypeOK
  <2>2. refCount[i] >= Refs(i) - lost /\ refCount[i] <= Refs(i)
      BY <2>1 DEF CountOff
  <2>3. CASE i = a
      BY <1>1, <1>2, <1>11, <2>1, <2>2, <2>3 DEF TypeOK
  <2>4. CASE i # a
      BY <1>2, <1>12, <2>1, <2>2, <2>4 DEF TypeOK
  <2> QED
      BY <2>3, <2>4
<1>16. NoLeak'
  <2> SUFFICES ASSUME NEW i \in Instances, mem[i] = "live", active # i
               PROVE  \E u \in Threads :
                        pc'[u] \in {"reading", "freeing", "building"} /\ inst'[u] = i
      BY <1>2 DEF NoLeak
  <2>1. PICK u \in Threads : pc[u] \in {"reading", "freeing", "building"} /\ inst[u] = i
      BY DEF NoLeak
  <2>2. CASE i # a
      BY <1>1, <1>5, <2>1, <2>2
  <2>3. CASE i = a /\ n <= 0
      BY <1>1, <1>2, <1>3, <2>3 DEF TypeOK
  <2>4. CASE i = a /\ n > 0
    <3>1. refCount[i] <= Refs(i) /\ refCount[i] \in Int /\ Refs(i) \in Nat
        BY RefsCount DEF TypeOK, CountOff
    <3>2. Refs(i)' > 0
        BY <1>1, <1>11, <2>4, <3>1
    <3>3. ~Owned(i)' => Readers(i)' # {}
        BY <3>2, FS_EmptySet DEF Refs
    <3>4. CASE Owned(i)'
        BY <1>2, <3>4 DEF Owned
    <3>5. CASE Readers(i)' # {}
        BY <3>5 DEF Readers
    <3> QED
        BY <3>3, <3>4, <3>5
  <2> QED
      BY <1>2, <2>2, <2>3, <2>4
<1>17. FreedByLast'
  <2> SUFFICES ASSUME lost = 0
               PROVE  /\ \A u \in Threads : pc'[u] = "reading" => mem[inst'[u]] = "live"
                      /\ \A u \in Threads : pc'[u] = "freeing" =>
                            /\ mem[inst'[u]] = "live"
                            /\ Readers(inst[u])' = {}
                            /\ \A v \in Threads \ {u} : pc'[v] = "freeing" => inst'[v] # inst'[u]
      BY <1>2 DEF FreedByLast
  <2>1. mem[a] = "live"
      BY <1>1, <1>2 DEF FreedByLast
  <2>2. \A u \in Threads : pc[u] = "freeing" => inst[u] # a
      BY <1>8 DEF FreedByLast
  <2>3. \A u \in Threads : pc[u] = "freeing" => inst[u] \in Instances
      BY InHand
  <2>4. \A u \in Threads : pc'[u] = "reading" => mem[inst'[u]] = "live"
      BY <1>5, <1>6 DEF FreedByLast
  <2>5. ASSUME NEW u \in Threads \ {t}, pc'[u] = "freeing"
        PROVE  /\ inst'[u] = inst[u] /\ inst[u] \in Instances \ {a}
               /\ mem[inst[u]] = "live" /\ Readers(inst[u])' = {}
    <3>1. pc[u] = "freeing" /\ inst'[u] = inst[u] /\ inst[u] \in Instances \ {a}
        BY <1>5, <2>2, <2>3, <2>5
    <3>2. mem[inst[u]] = "live" /\ Readers(inst[u]) = {}
        BY <3>1 DEF FreedByLast
    <3>3. PICK i \in Instances \ {a} : i = inst[u]
        BY <3>1
    <3>4. Readers(i)' = {}
        BY <1>9, <3>2, <3>3
    <3> QED
        BY <3>1, <3>2, <3>3, <3>4
  <2>6. ASSUME pc'[t] = "freeing"
        PROVE  inst'[t] = a /\ Readers(a)' = {}
    <3>1. n <= 0 /\ a # active /\ inst'[t] = a
        BY <1>1, <1>3, <2>6 DEF TypeOK
    <3>2. refCount[a] >= Refs(a) /\ Refs(a) \in Nat /\ refCount[a] \in Int
        BY <2>1, RefsCount DEF TypeOK, CountOff
    <3>3. Cardinality(Readers(a)) <= 1
        BY <1>1, <3>1, <3>2, RefsCount
    <3>4. Cardinality(Readers(a)) # 0 /\ IsFiniteSet(Readers(a)')
        BY <1>8, RefsCount, FS_RemoveElement
    <3>5. Cardinality(Readers(a)') = 0
        BY <1>10, <3>3, <3>4, RefsCount
    <3> QED
        BY <3>1, <3>4, <3>5, FS_EmptySet
  <2>7. \A u \in Threads : pc'[u] = "freeing" =>
            /\ mem[inst'[u]] = "live"
            /\ Readers(inst[u])' = {}
      BY <1>3, <1>2, <2>1, <2>5, <2>6 DEF TypeOK
  <2>8. \A u, v \in Threads :
            pc'[u] = "freeing" /\ pc'[v] = "freeing" /\ u # v => inst'[v] # inst'[u]
    <3> SUFFICES ASSUME NEW u \in Threads, NEW v \in Threads, u # v,
                        pc'[u] = "freeing", pc'[v] = "freeing"
                 PROVE  inst'[v] # inst'[u]
        OBVIOUS
    <3>1. CASE u # t /\ v # t
        BY <1>5, <3>1 DEF FreedByLast
    <3>2. CASE u = t \/ v = t
        BY <2>5, <2>6, <3>2
    <3> QED
        BY <3>1, <3>2
  <2> QED
      BY <2>4, <2>7, <2>8
<1> QED
    BY <1>4, <1>13, <1>14, <1>15, <1>16, <1>17

\* index_free touches a retired instance only.
LEMMA FreeInd ==
    ASSUME IndInv, NEW t \in Threads, Free(t)
    PROVE  IndInv'
<1> USE DEF IndInv
<1>1. PICK a \in Instances : a = inst[t] /\ a # active
    BY InHand DEF Free, FreeingRetired
<1>2. PICK v \in Scribble : refCount' = [refCount EXCEPT ![a] = v]
    BY <1>1 DEF Free
<1>3. /\ pc[t] = "freeing" /\ mem' = [mem EXCEPT ![a] = "freed"] /\ v \in Int
      /\ pc' = [pc EXCEPT ![t] = "idle"] /\ inst' = [inst EXCEPT ![t] = NoInst]
      /\ active' = active /\ reg' = reg /\ lost' = lost /\ building' = building
      /\ overlapped' = overlapped
    BY <1>1, ScribbleInt DEF Free, DropInst
<1>4. TypeOK'
    BY <1>2, <1>3, NullIsNoInstance DEF TypeOK, Labels
<1>5. \A u \in Threads \ {t} : pc'[u] = pc[u] /\ inst'[u] = inst[u]
    BY <1>3 DEF TypeOK
<1>6. pc'[t] = "idle"
    BY <1>3 DEF TypeOK
<1>7. \A i \in Instances : Readers(i)' = Readers(i) /\ Owned(i)' = Owned(i)
    BY <1>3, <1>5, <1>6 DEF Readers, Owned
<1>8. \A i \in Instances : Refs(i)' = Refs(i)
    BY <1>7, RefsFrame
<1>9. \A i \in Instances \ {a} : mem'[i] = mem[i] /\ refCount'[i] = refCount[i]
    BY <1>2, <1>3 DEF TypeOK
<1>10. mem'[a] = "freed"
    BY <1>3 DEF TypeOK
<1>11. ActiveLive' /\ FreeingRetired'
    BY <1>1, <1>3, <1>5, <1>6, <1>9 DEF TypeOK, ActiveLive, FreeingRetired
<1>12. BuilderPrivate'
    BY <1>1, <1>3, <1>5, <1>6, <1>9, InHand DEF TypeOK, BuilderPrivate
<1>13. HeldAllocated'
    BY <1>3, <1>9, <1>10 DEF TypeOK, HeldAllocated
<1>14. GetterInTime'
    BY <1>3, <1>5, <1>6, <1>8 DEF TypeOK, GetterInTime
<1>15. CountOff'
    BY <1>3, <1>8, <1>9, <1>10 DEF CountOff
<1>16. NoLeak'
    BY <1>1, <1>3, <1>5, <1>9, <1>10 DEF NoLeak
<1>17. FreedByLast'
  <2>1. \A u \in Threads \ {t} :
            pc[u] \in {"reading", "freeing"} /\ lost = 0 => inst[u] \in Instances \ {a}
      BY <1>1, <1>3, InHand DEF FreedByLast, Readers
  <2>2. \A u \in Threads : pc'[u] \in {"reading", "freeing"} =>
            u # t /\ pc[u] = pc'[u] /\ inst'[u] = inst[u]
      BY <1>5, <1>6
  <2> QED
      BY <1>3, <1>7, <1>9, <2>1, <2>2 DEF FreedByLast
<1> QED
    BY <1>4, <1>11, <1>12, <1>13, <1>14, <1>15, <1>16, <1>17

\* Seeing the flag down changes the worker's label only.
LEMMA RebuildCheckInd ==
    ASSUME IndInv, NEW t \in Threads, RebuildCheck(t)
    PROVE  IndInv'
<1> USE DEF IndInv
<1>1. TypeOK'
    BY DEF TypeOK, Labels, RebuildCheck, rcuVars
<1>2. \A u \in Threads \ {t} : pc'[u] = pc[u]
    BY DEF TypeOK, RebuildCheck
<1>3. pc'[t] = "starting" /\ pc[t] = "idle"
    BY DEF TypeOK, RebuildCheck
<1>4. /\ active' = active /\ refCount' = refCount /\ mem' = mem
      /\ inst' = inst /\ reg' = reg /\ lost' = lost
    BY DEF RebuildCheck, rcuVars
<1>5. \A i \in Instances : Readers(i)' = Readers(i) /\ Owned(i)' = Owned(i)
    BY <1>2, <1>3, <1>4 DEF Readers, Owned
<1>6. \A i \in Instances : Refs(i)' = Refs(i)
    BY <1>5, RefsFrame
<1>7. ActiveLive' /\ BuilderPrivate' /\ HeldAllocated' /\ FreeingRetired' /\ NoLeak'
    BY <1>2, <1>3, <1>4 DEF ActiveLive, BuilderPrivate, HeldAllocated, FreeingRetired, NoLeak
<1>8. GetterInTime' /\ CountOff'
    BY <1>2, <1>3, <1>4, <1>6 DEF TypeOK, GetterInTime, CountOff
<1>9. FreedByLast'
    BY <1>2, <1>3, <1>4, <1>5, InHand DEF FreedByLast
<1> QED
    BY <1>1, <1>7, <1>8, <1>9

\* A fresh instance starts with the builder's reference, known to nobody else.
LEMMA RebuildStartInd ==
    ASSUME IndInv, NEW t \in Threads, RebuildStart(t)
    PROVE  IndInv'
<1> USE DEF IndInv
<1>1. PICK a \in Unused : /\ inst' = [inst EXCEPT ![t] = a]
                          /\ mem' = [mem EXCEPT ![a] = "live"]
                          /\ refCount' = [refCount EXCEPT ![a] = 1]
    BY DEF RebuildStart
<1>2. a \in Instances /\ mem[a] = "unused" /\ a # active
    BY DEF Unused, ActiveLive
<1>3. /\ pc[t] = "starting" /\ pc' = [pc EXCEPT ![t] = "building"]
      /\ active' = active /\ reg' = reg /\ lost' = lost
    BY DEF RebuildStart
<1>4. TypeOK'
    BY <1>1, <1>2, <1>3, NullIsNoInstance DEF TypeOK, Labels, RebuildStart, RaiseFlag
<1>5. \A u \in Threads \ {t} : pc'[u] = pc[u] /\ inst'[u] = inst[u]
    BY <1>1, <1>3 DEF TypeOK
<1>6. pc'[t] = "building" /\ inst'[t] = a
    BY <1>1, <1>3 DEF TypeOK
<1>7. \A u \in Threads : inst[u] # a
    BY <1>2, NullIsNoInstance DEF HeldAllocated
<1>8. \A i \in Instances \ {a} : mem'[i] = mem[i] /\ refCount'[i] = refCount[i]
    BY <1>1 DEF TypeOK
<1>9. mem'[a] = "live" /\ refCount'[a] = 1
    BY <1>1, <1>2 DEF TypeOK
<1>10. \A i \in Instances : Readers(i)' = Readers(i)
    BY <1>3, <1>5, <1>6 DEF Readers
<1>11. \A i \in Instances \ {a} : Owned(i)' = Owned(i)
    BY <1>3, <1>5, <1>6 DEF Owned
<1>12. \A i \in Instances \ {a} : Refs(i)' = Refs(i)
    BY <1>10, <1>11, RefsFrame
<1>13. Refs(a)' = 1
  <2>1. Readers(a)' = {} /\ Owned(a)'
      BY <1>2, <1>6, <1>7, <1>10 DEF Readers, Owned
  <2> QED
      BY <2>1, FS_EmptySet DEF Refs
<1>14. ActiveLive' /\ FreeingRetired'
    BY <1>2, <1>3, <1>5, <1>6, <1>8 DEF TypeOK, ActiveLive, FreeingRetired
<1>15. BuilderPrivate'
  <2>1. ASSUME NEW u \in Threads \ {t}, pc'[u] = "building"
        PROVE  /\ inst'[u] # active /\ mem'[inst'[u]] = "live"
               /\ \A w \in Threads \ {u} : inst'[w] # inst'[u]
    <3>1. pc[u] = "building" /\ inst'[u] = inst[u] /\ inst[u] \in Instances \ {a}
        BY <1>5, <1>7, <2>1, InHand
    <3> QED
        BY <1>5, <1>6, <1>8, <3>1 DEF BuilderPrivate
  <2>2. \A w \in Threads \ {t} : inst'[w] # inst'[t]
      BY <1>5, <1>6, <1>7
  <2> QED
      BY <1>2, <1>3, <1>6, <1>9, <2>1, <2>2 DEF BuilderPrivate
<1>16. HeldAllocated'
    BY <1>5, <1>6, <1>7, <1>8, <1>9 DEF TypeOK, HeldAllocated
<1>17. GetterInTime'
    BY <1>2, <1>3, <1>5, <1>6, <1>12 DEF TypeOK, GetterInTime
<1>18. CountOff'
  <2>1. ASSUME NEW i \in Instances \ {a}, mem'[i] = "live"
        PROVE  refCount'[i] \in (Refs(i)' - lost') .. Refs(i)'
      BY <1>3, <1>8, <1>12, <2>1 DEF CountOff
  <2>2. refCount'[a] \in (Refs(a)' - lost') .. Refs(a)'
      BY <1>3, <1>9, <1>13 DEF TypeOK
  <2> QED
      BY <2>1, <2>2 DEF CountOff
<1>19. NoLeak'
    BY <1>2, <1>3, <1>5, <1>6, <1>8 DEF NoLeak
<1>20. FreedByLast'
  <2>1. \A u \in Threads : pc'[u] \in {"reading", "freeing"} =>
            /\ u # t /\ pc[u] = pc'[u] /\ inst'[u] = inst[u]
            /\ inst[u] \in Instances \ {a}
      BY <1>5, <1>6, <1>7, InHand
  <2> QED
      BY <1>3, <1>8, <1>10, <2>1 DEF FreedByLast
<1> QED
    BY <1>4, <1>14, <1>15, <1>16, <1>17, <1>18, <1>19, <1>20

\* Being published takes over the builder's reference; the old instance loses
\* the reference it was published with.
LEMMA SwapInd ==
    ASSUME IndInv, NEW t \in Threads, Swap(t)
    PROVE  IndInv'
<1> USE DEF IndInv
<1>1. PICK b \in Instances : b = inst[t]
    BY InHand DEF Swap
<1>2. PICK a \in Instances : a = active
    BY DEF TypeOK
<1>3. /\ pc[t] = "building" /\ pc' = [pc EXCEPT ![t] = "saving"]
      /\ active' = b /\ inst' = inst /\ reg' = reg /\ lost' = lost
      /\ \A u \in Threads : pc[u] # "getting"
    BY <1>1 DEF Swap, WriteLockFree
<1>4. a # b /\ mem[b] = "live" /\ \A u \in Threads \ {t} : inst[u] # b
    BY <1>1, <1>2, <1>3 DEF BuilderPrivate
<1>5. \/ /\ refCount[a] - 1 <= 0 /\ mem' = [mem EXCEPT ![a] = "freed"]
         /\ \E v \in Scribble : refCount' = [refCount EXCEPT ![a] = v]
      \/ /\ refCount[a] - 1 > 0 /\ mem' = mem
         /\ refCount' = [refCount EXCEPT ![a] = refCount[a] - 1]
    BY <1>2 DEF Swap, AfterRetire
<1>6. refCount' \in [Instances -> Int] /\ mem' \in [Instances -> {"unused", "live", "freed"}]
    BY <1>5, ScribbleInt DEF TypeOK
<1>7. TypeOK'
    BY <1>3, <1>6 DEF TypeOK, Labels, Swap
<1>8. pc'[t] = "saving" /\ \A u \in Threads \ {t} : pc'[u] = pc[u]
    BY <1>3 DEF TypeOK
<1>9. \A i \in Instances \ {a} : mem'[i] = mem[i] /\ refCount'[i] = refCount[i]
    BY <1>5 DEF TypeOK
<1>10. /\ mem'[a] = "live" => refCount[a] > 1 /\ refCount'[a] = refCount[a] - 1
       /\ mem'[a] # "live" => refCount[a] <= 1
       /\ mem[a] = "live" /\ mem'[a] # "unused"
    BY <1>2, <1>5 DEF TypeOK, ActiveLive
<1>11. \A i \in Instances : Readers(i)' = Readers(i)
    BY <1>3, <1>8 DEF Readers
<1>12. \A i \in Instances \ {a} : Owned(i)' = Owned(i)
    BY <1>1, <1>2, <1>3, <1>8 DEF Owned
<1>13. Owned(a) /\ ~Owned(a)'
    BY <1>2, <1>3, <1>4, <1>8 DEF Owned, BuilderPrivate
<1>14. \A i \in Instances \ {a} : Refs(i)' = Refs(i)
    BY <1>11, <1>12, RefsFrame
<1>15. Refs(a)' = Refs(a) - 1 /\ Refs(a)' = Cardinality(Readers(a))
    BY <1>11, <1>13, RefsCount DEF Refs
<1>16. refCount[a] \in Int /\ lost \in Nat /\ Refs(a) \in Nat
       /\ refCount[a] >= Refs(a) - lost /\ refCount[a] <= Refs(a)
  <2>1. refCount[a] \in Int /\ lost \in Nat /\ Refs(a) \in Nat
      BY RefsCount DEF TypeOK
  <2> QED
      BY <1>10, <2>1 DEF CountOff
<1>17. ActiveLive'
    BY <1>3, <1>4, <1>9 DEF ActiveLive
<1>18. BuilderPrivate'
  <2> SUFFICES ASSUME NEW u \in Threads, pc'[u] = "building"
               PROVE  /\ inst[u] # b /\ mem'[inst[u]] = "live"
                      /\ \A w \in Threads \ {u} : inst[w] # inst[u]
      BY <1>3 DEF BuilderPrivate
  <2>1. u # t /\ pc[u] = "building" /\ inst[u] \in Instances \ {a}
      BY <1>2, <1>8, InHand DEF BuilderPrivate
  <2> QED
      BY <1>4, <1>9, <2>1 DEF BuilderPrivate
<1>19. HeldAllocated'
    BY <1>3, <1>9, <1>10 DEF TypeOK, HeldAllocated
<1>20. GetterInTime'
    BY <1>3, <1>8 DEF GetterInTime
<1>21. FreeingRetired'
    BY <1>3, <1>4, <1>8 DEF FreeingRetired
<1>22. CountOff'
  <2>1. ASSUME NEW i \in Instances \ {a}, mem'[i] = "live"
        PROVE  refCount'[i] \in (Refs(i)' - lost') .. Refs(i)'
      BY <1>3, <1>9, <1>14, <2>1 DEF CountOff
  <2>2. mem'[a] = "live" => refCount'[a] \in (Refs(a)' - lost') .. Refs(a)'
      BY <1>3, <1>10, <1>15, <1>16
  <2> QED
      BY <2>1, <2>2 DEF CountOff
<1>23. NoLeak'
  <2> SUFFICES ASSUME NEW i \in Instances, mem'[i] = "live", i # b
               PROVE  \E u \in Threads :
                        pc'[u] \in {"reading", "freeing", "building"} /\ inst[u] = i
      BY <1>3 DEF NoLeak
  <2>1. CASE i = a
    <3>1. Readers(a) # {}
        BY <1>10, <1>15, <1>16, <2>1, RefsCount
    <3> QED
        BY <1>8, <1>3, <2>1, <3>1 DEF Readers
  <2>2. CASE i # a
      BY <1>1, <1>2, <1>8, <1>9, <2>2 DEF NoLeak
  <2> QED
      BY <2>1, <2>2
<1>24. FreedByLast'
  <2> SUFFICES ASSUME lost = 0
               PROVE  FreedByLast'
      BY <1>3 DEF FreedByLast
  <2>1. \A u \in Threads : pc'[u] \in {"reading", "freeing"} =>
            pc[u] = pc'[u] /\ inst[u] \in Instances
      BY <1>8, InHand
  <2>2. \A u \in Threads : pc[u] = "freeing" => inst[u] # a
      BY <1>2 DEF FreeingRetired
  <2>3. mem'[a] # "live" => Readers(a) = {}
      BY <1>10, <1>15, <1>16, RefsCount
  <2>4. \A u \in Threads : pc'[u] = "reading" => mem'[inst[u]] = "live"
      BY <1>9, <2>1, <2>3 DEF FreedByLast, Readers
  <2>5. \A u \in Threads : pc'[u] = "freeing" =>
            /\ mem'[inst[u]] = "live"
            /\ Readers(inst[u])' = {}
            /\ \A w \in Threads \ {u} : pc'[w] = "freeing" => inst[w] # inst[u]
      BY <1>3, <1>9, <1>11, <2>1, <2>2 DEF FreedByLast
  <2> QED
      BY <1>3, <2>4, <2>5 DEF FreedByLast
<1> QED
    BY <1>7, <1>17, <1>18, <1>19, <1>20, <1>21, <1>22, <1>23, <1>24

\* A rebuild that ends drops an uncounted pointer.
LEMMA RebuildDoneInd ==
    ASSUME IndInv, NEW t \in Threads, RebuildDone(t)
    PROVE  IndInv'
<1> USE DEF IndInv
<1>1. /\ pc[t] = "saving" /\ active' = active /\ refCount' = refCount /\ mem' = mem
      /\ reg' = reg /\ lost' = lost
      /\ pc' = [pc EXCEPT ![t] = "idle"] /\ inst' = [inst EXCEPT ![t] = NoInst]
    BY DEF RebuildDone, rcuVars
<1>2. TypeOK'
    BY <1>1, NullIsNoInstance DEF TypeOK, Labels, RebuildDone, LowerFlag
<1>3. pc'[t] = "idle" /\ inst'[t] = NoInst
    BY <1>1 DEF TypeOK
<1>4. \A u \in Threads \ {t} : pc'[u] = pc[u] /\ inst'[u] = inst[u]
    BY <1>1 DEF TypeOK
<1>5. \A i \in Instances : Readers(i)' = Readers(i) /\ Owned(i)' = Owned(i)
    BY <1>1, <1>3, <1>4 DEF Readers, Owned
<1>6. \A i \in Instances : Refs(i)' = Refs(i)
    BY <1>5, RefsFrame
<1>7. ActiveLive' /\ HeldAllocated' /\ FreeingRetired' /\ NoLeak'
    BY <1>1, <1>3, <1>4 DEF ActiveLive, HeldAllocated, FreeingRetired, NoLeak
<1>8. BuilderPrivate'
    BY <1>1, <1>3, <1>4, InHand, NullIsNoInstance DEF BuilderPrivate
<1>9. GetterInTime' /\ CountOff'
    BY <1>1, <1>3, <1>4, <1>6 DEF TypeOK, GetterInTime, CountOff
<1>10. FreedByLast'
    BY <1>1, <1>3, <1>4, <1>5, InHand DEF FreedByLast
<1> QED
    BY <1>2, <1>7, <1>8, <1>9, <1>10

LEMMA NextInd == IndInv /\ [Next]_vars => IndInv'
<1> SUFFICES ASSUME IndInv, [Next]_vars PROVE IndInv'
    OBVIOUS
<1>1. ASSUME NEW t \in Threads,
             \/ GetLoad(t) \/ GetStore(t) \/ Release(t) \/ Free(t)
             \/ RebuildCheck(t) \/ RebuildStart(t) \/ Swap(t) \/ RebuildDone(t)
      PROVE  IndInv'
    BY <1>1, GetLoadInd, GetStoreInd, ReleaseInd, FreeInd, RebuildCheckInd,
       RebuildStartInd, SwapInd, RebuildDoneInd
<1>2. CASE UNCHANGED vars \/ \E t \in Threads : RebuildRefused(t)
  <2>1. UNCHANGED vars
      BY <1>2 DEF RebuildRefused
  <2>2. \A i \in Instances : Readers(i)' = Readers(i) /\ Owned(i)' = Owned(i)
      BY <2>1 DEF vars, Readers, Owned
  <2>3. \A i \in Instances : Refs(i)' = Refs(i)
      BY <2>2, RefsFrame
  <2>4. TypeOK' /\ ActiveLive' /\ BuilderPrivate' /\ HeldAllocated' /\ FreeingRetired' /\ NoLeak'
      BY <2>1 DEF vars, IndInv, TypeOK, ActiveLive, BuilderPrivate, HeldAllocated, FreeingRetired, NoLeak
  <2>5. GetterInTime' /\ CountOff'
      BY <2>1, <2>3 DEF vars, IndInv, TypeOK, GetterInTime, CountOff
  <2>6. FreedByLast'
      BY <2>1, <2>2, InHand DEF vars, IndInv, FreedByLast
  <2> QED
      BY <2>4, <2>5, <2>6 DEF IndInv
<1> QED
    BY <1>1, <1>2 DEF Next

LEMMA IndInvHolds == Spec => []IndInv
BY InitInd, NextInd, PTL DEF Spec

-----------------------------------------------------------------------------
(* The flag.                                                                *)

LEMMA FlagInd == TypeOK /\ FlagInv /\ [Next]_vars => FlagInv'
<1> SUFFICES ASSUME TypeOK, FlagInv, [Next]_vars PROVE FlagInv'
    OBVIOUS
<1> USE DEF FlagInv, FlagCovered, SaverSafe
<1>1. ASSUME NEW t \in Threads,
             GetLoad(t) \/ GetStore(t) \/ Release(t) \/ Free(t) \/ RebuildCheck(t)
      PROVE  FlagInv'
  <2>1. \A u \in Threads \ {t} : pc'[u] = pc[u] /\ inst'[u] = inst[u]
      BY <1>1 DEF TypeOK, GetLoad, GetStore, Release, Free, RebuildCheck, DropInst
  <2>2. {pc[t], pc'[t]} \cap {"building", "saving"} = {}
      BY <1>1 DEF TypeOK, GetLoad, GetStore, Release, Free, RebuildCheck
  <2>3. active' = active /\ building' = building /\ overlapped' = overlapped
      BY <1>1 DEF GetLoad, GetStore, Release, Free, RebuildCheck, rcuVars
  <2> QED
      BY <2>1, <2>2, <2>3
<1>2. ASSUME NEW t \in Threads, RebuildStart(t) PROVE FlagInv'
  <2>1. \A u \in Threads \ {t} : pc'[u] = pc[u] /\ inst'[u] = inst[u]
      BY <1>2 DEF TypeOK, RebuildStart
  <2>2. pc'[t] = "building" /\ active' = active /\ building'
      BY <1>2 DEF TypeOK, RebuildStart, RaiseFlag
  <2>3. ~overlapped' => ~overlapped /\ ~building
      BY <1>2 DEF TypeOK, RebuildStart, RaiseFlag
  <2> QED
      BY <2>1, <2>2, <2>3
<1>3. ASSUME NEW t \in Threads, Swap(t) PROVE FlagInv'
  <2>1. inst' = inst /\ active' = inst[t] /\ building' = building /\ overlapped' = overlapped
      BY <1>3 DEF Swap
  <2>2. pc[t] = "building" /\ pc'[t] = "saving" /\ \A u \in Threads \ {t} : pc'[u] = pc[u]
      BY <1>3 DEF TypeOK, Swap
  <2> QED
      BY <2>1, <2>2
<1>4. ASSUME NEW t \in Threads, RebuildDone(t) PROVE FlagInv'
  <2>1. ~building' /\ active' = active /\ overlapped' = overlapped
      BY <1>4 DEF RebuildDone, LowerFlag, rcuVars
  <2>2. /\ pc[t] = "saving" /\ pc'[t] = "idle"
        /\ \A u \in Threads \ {t} : pc'[u] = pc[u] /\ inst'[u] = inst[u]
      BY <1>4 DEF TypeOK, RebuildDone
  <2> QED
      BY <2>1, <2>2
<1>5. CASE UNCHANGED vars \/ \E t \in Threads : RebuildRefused(t)
    BY <1>5 DEF vars, RebuildRefused
<1> QED
    BY <1>1, <1>2, <1>3, <1>4, <1>5 DEF Next

LEMMA FlagInvHolds == Spec => []FlagInv
<1>1. Init => FlagInv
    BY DEF Init, FlagInv, FlagCovered, SaverSafe
<1> QED
    BY <1>1, IndInvHolds, FlagInd, PTL DEF Spec, IndInv

-----------------------------------------------------------------------------
(* The theorems.                                                            *)

\* Every reachable state of the workers and the instances is well typed
\* (the state of index.c and of the rebuild handler).
THEOREM TypeCorrect == Spec => []TypeOK
BY IndInvHolds, PTL DEF IndInv

\* index_get_active_instance always hands out allocated memory, whatever
\* increments were lost and however many rebuilds overlap.
THEOREM ActiveNeverFreed == Spec => []ActiveLive
BY IndInvHolds, PTL DEF IndInv

\* ref_count of an allocated instance is at most its references, and at
\* least those minus the lost increments.
THEOREM CountNearlyRight == Spec => []CountOff
BY IndInvHolds, PTL DEF IndInv

\* No interleaving of get, release and swap leaks an index.
THEOREM NothingLeaks == Spec => []NoLeak
BY IndInvHolds, PTL DEF IndInv

\* With no increment lost, requests read allocated memory and an instance is
\* freed by one thread.
THEOREM ReadersSafe == Spec => []ReaderSafe
<1>1. IndInv => ReaderSafe
  <2> SUFFICES ASSUME IndInv, lost = 0
               PROVE  /\ \A t \in Threads :
                            pc[t] \in {"getting", "reading", "freeing"} => mem[inst[t]] = "live"
                      /\ \A t, u \in Threads :
                            pc[t] = "freeing" /\ pc[u] \in {"reading", "freeing"} /\ t # u
                                => inst[t] # inst[u]
      BY DEF ReaderSafe
  <2> USE DEF IndInv
  <2>1. \A t \in Threads :
            pc[t] \in {"getting", "reading", "freeing"} => mem[inst[t]] = "live"
      BY DEF FreedByLast, GetterInTime, ActiveLive
  <2>2. \A t, u \in Threads :
            pc[t] = "freeing" /\ pc[u] = "reading" => inst[t] # inst[u]
      BY DEF FreedByLast, Readers
  <2>3. \A t, u \in Threads :
            pc[t] = "freeing" /\ pc[u] = "freeing" /\ t # u => inst[t] # inst[u]
      BY DEF FreedByLast
  <2> QED
      BY <2>1, <2>2, <2>3
<1> QED
    BY <1>1, IndInvHolds, PTL

\* Rebuilds that do not overlap save the published instance.
THEOREM SaversSafe == Spec => []SaverSafe
BY FlagInvHolds, PTL DEF FlagInv

\* The 409 flag is up only while a rebuild is in progress.
THEOREM FlagNeverStuck == Spec => []FlagCovered
BY FlagInvHolds, PTL DEF FlagInv
=============================================================================
