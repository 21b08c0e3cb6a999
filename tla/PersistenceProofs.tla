------------------------- MODULE PersistenceProofs -------------------------
(***************************************************************************)
(* Proofs about Persistence for any pages, any pool of workers and any     *)
(* number of crashes and edits: types, no torn index is served, and a      *)
(* settled file holds the postings that are served.                        *)
(***************************************************************************)
EXTENDS Persistence, TLAPS

Filling == {"half", "full", "summed"}
Past == {"open", "writing"} \cup Filling \cup {"saved"}   \* labels after the new index is there
Busy == {"built"} \cup Past

\* Who runs when, and who has an index in hand.
Phases ==
    /\ mode = "booting" <=> pc[Main] \in Past
    /\ mode # "booting" => pc[Main] = "idle"
    /\ mode # "serving" => \A w \in Workers : pc[w] = "idle"
    /\ \A t \in Threads : pc[t] \in Busy => new[t] \in Contents

\* A checksum that is not junk is that of one index, or of zeros.
SumOfOne == file.crc \in {Nothing, Junk} \cup {<<c, c>> : c \in Halves}

\* What a save has written is still there, unless another opened the file since.
Kept == ~clobbered => \A t \in Threads : pc[t] \in Filling => file.lo # Nothing

\* Without overlapping rebuilds: one worker at a time is past RebuildBuild ...
Alone == \A v, w \in Workers : pc[v] \in Busy /\ pc[w] \in Busy => v = w

\* ... which has published what it saves, ...
Published == \A w \in Workers : pc[w] \in Past => active.terms = new[w]

Holds(terms) == ~unwritten /\ Loadable(file) => Restored(file).terms = terms

\* ... what a save has written is its index, and after it, or without one, a
\* loadable file is the published index.
Written ==
    /\ \A t \in Threads : pc[t] \in Filling => file.lo = new[t]
    /\ \A t \in Threads : pc[t] = "saved" => Holds(new[t])
    /\ mode = "serving" /\ (\A w \in Workers : pc[w] \notin Past) => Holds(active.terms)

IndInv ==
    /\ TypeOK /\ Phases /\ SumOfOne /\ Kept /\ NoTornIndex
    /\ ~overlapped => Alone /\ Published /\ Written

-----------------------------------------------------------------------------
(* What the parts say together.                                             *)

\* A file that can be loaded is one index from end to end, or a hole.
LEMMA LoadableWhole ==
    ASSUME TypeOK, SumOfOne, Loadable(file)
    PROVE  file.lo = file.hi /\ file.lo \in Halves
<1>1. file.lo \in Halves /\ file.hi \in Halves
    BY DEF TypeOK
<1>2. file.crc # Nothing /\ file.crc # Junk
    BY <1>1, NoContent DEF Loadable
<1>3. PICK c \in Halves : file.crc = <<c, c>>
    BY <1>2 DEF SumOfOne
<1> QED
    BY <1>3 DEF Loadable

\* The same of the file after a step.
LEMMA WholeNext == TypeOK' /\ SumOfOne' => (Loadable(file) => file.lo = file.hi)'
<1>1. TypeOK /\ SumOfOne => (Loadable(file) => file.lo = file.hi)
    BY LoadableWhole
<1> QED
    BY <1>1, PTL

\* From one index that index is restored, from a hole the empty one.
LEMMA RestoredWhole ==
    ASSUME NEW f, f.lo = f.hi, f.lo \in Halves
    PROVE  /\ Restored(f).terms = IF f.lo = Nothing THEN {} ELSE f.lo
           /\ Restored(f) \in [terms : Contents, store : Contents]
<1>1. Restored(f).terms = IF f.lo = Nothing THEN {} ELSE f.lo
    BY DEF Restored
<1>2. Restored(f).terms \in Contents /\ {} \in Contents
    BY <1>1 DEF Halves, Contents
<1> QED
    BY <1>1, <1>2 DEF Restored

\* Without overlapping rebuilds at most one thread has an index in hand.
LEMMA BusyAlone ==
    ASSUME IndInv, ~overlapped,
           NEW t \in Threads, NEW u \in Threads, pc[t] \in Busy, pc[u] \in Busy
    PROVE  t = u
<1>1. CASE t = Main
    BY <1>1 DEF IndInv, Phases, Busy, Past, Filling, Threads
<1>2. CASE u = Main
    BY <1>2 DEF IndInv, Phases, Busy, Past, Filling, Threads
<1>3. CASE t \in Workers /\ u \in Workers
    BY <1>3 DEF IndInv, Alone
<1> QED
    BY <1>1, <1>2, <1>3 DEF Threads

\* A worker with an index in hand works for a server that serves; so does main
\* for one that boots.
LEMMA BusyMode ==
    ASSUME Phases, NEW t \in Threads, pc[t] \in Busy
    PROVE  mode = IF t = Main THEN "booting" ELSE "serving"
BY DEF Phases, Busy, Past, Filling, Threads

\* A step that leaves the file alone, brings no thread into a save and publishes
\* nothing torn keeps what the invariant says of the file.
LEMMA FileStays ==
    ASSUME IndInv, UNCHANGED <<file, clobbered>>,
           \A t \in Threads : pc'[t] \in Filling => pc[t] \in Filling,
           active' # Nothing => active'.terms # Junk
    PROVE  SumOfOne' /\ Kept' /\ NoTornIndex'
<1>1. SumOfOne' /\ Kept'
    BY DEF IndInv, SumOfOne, Kept
<1>2. NoTornIndex'
    BY DEF IndInv, NoTornIndex, Loadable
<1> QED
    BY <1>1, <1>2

-----------------------------------------------------------------------------
(* Each action preserves the invariant.                                     *)

LEMMA InitInd == Init => IndInv
<1> SUFFICES ASSUME Init PROVE IndInv
    OBVIOUS
<1> USE DEF Init
<1>1. TypeOK
    BY DEF TypeOK, Truncated, Halves
<1>2. Phases /\ SumOfOne /\ Kept /\ NoTornIndex
    BY DEF Phases, SumOfOne, Kept, NoTornIndex, Loadable, Truncated, Busy, Past, Filling,
           Threads
<1>3. Alone /\ Published /\ Written
    BY DEF Alone, Published, Written, Busy, Past, Filling, Threads
<1> QED
    BY <1>1, <1>2, <1>3 DEF IndInv

LEMMA SaveOpenInd ==
    ASSUME IndInv, NEW t \in Threads, SaveOpen(t)
    PROVE  IndInv'
<1> USE DEF IndInv, history, SaveOpen
<1>1. TypeOK'
    BY DEF TypeOK, Truncated, Halves
<1>2. Phases'
    BY DEF TypeOK, Phases, Busy, Past, Filling, Threads
<1>3. SumOfOne' /\ Kept' /\ NoTornIndex'
  <2>1. SumOfOne' /\ NoTornIndex'
      BY DEF SumOfOne, Truncated, NoTornIndex, Loadable
  <2>2. Kept'
      BY DEF TypeOK, Kept, Filling
  <2> QED
      BY <2>1, <2>2
<1>4. ASSUME ~overlapped' PROVE Alone' /\ Published' /\ Written'
  <2>1. \A u \in Threads : pc[u] \in Busy => u = t
      BY <1>4, BusyAlone DEF Busy, Past
  <2>2. Alone' /\ Published'
      BY <1>4, <2>1 DEF TypeOK, Alone, Published, Busy, Past, Threads
  <2>3. ~Loadable(file)'
      BY DEF Loadable, Truncated
  <2> QED
      BY <2>1, <2>2, <2>3 DEF TypeOK, Written, Holds, Busy, Past, Filling, Threads
<1> QED
    BY <1>1, <1>2, <1>3, <1>4

\* The steps of a save between its opening and its header.
LEMMA SaveFillInd ==
    ASSUME IndInv, NEW t \in Threads,
           SaveFirstHalf(t) \/ SaveSecondHalf(t) \/ SaveChecksum(t)
    PROVE  IndInv'
<1> USE DEF IndInv, history, SaveFirstHalf, SaveSecondHalf, SaveChecksum
<1>1. pc[t] \in Past /\ pc[t] # "saved" /\ pc'[t] \in Filling
    BY DEF TypeOK, Past, Filling
<1>2. new[t] \in Contents
    BY <1>1 DEF Phases, Busy
<1>3. TypeOK'
  <2>1. file' \in [header : {"zero", "real"}, lo : Halves, hi : Halves,
                   crc : {Nothing, Junk} \cup (Halves \X Halves)]
    <3>1. CASE SaveFirstHalf(t)
        BY <1>2, <3>1 DEF TypeOK, Halves
    <3>2. CASE SaveSecondHalf(t)
        BY <1>2, <3>2 DEF TypeOK, Halves
    <3>3. CASE SaveChecksum(t)
      <4>1. PICK sum \in Checksums : file' = [file EXCEPT !.crc = sum]
          BY <3>3
      <4>2. sum \in {Nothing, Junk} \cup (Halves \X Halves)
          BY <1>2 DEF Checksums
      <4> QED
          BY <4>1, <4>2 DEF TypeOK
    <3> QED
        BY <3>1, <3>2, <3>3
  <2> QED
      BY <2>1 DEF TypeOK
<1>4. Phases'
    BY DEF TypeOK, Phases, Busy, Past, Filling, Threads
<1>5. SumOfOne' /\ Kept' /\ NoTornIndex'
  <2>1. SumOfOne'
    <3>1. CASE SaveFirstHalf(t) \/ SaveSecondHalf(t)
        BY <3>1 DEF TypeOK, SumOfOne
    <3>2. CASE SaveChecksum(t)
      <4>1. PICK sum \in Checksums : file' = [file EXCEPT !.crc = sum]
          BY <3>2
      <4>2. file'.crc = sum
          BY <4>1 DEF TypeOK
      <4> QED
          BY <4>2 DEF SumOfOne, Checksums
    <3> QED
        BY <3>1, <3>2
  <2>2. clobbered' \/ file'.lo # Nothing
    <3>1. CASE SaveFirstHalf(t)
        BY <1>2, <3>1, NoContent DEF TypeOK
    <3>2. CASE SaveSecondHalf(t) \/ SaveChecksum(t)
        BY <3>2 DEF TypeOK, Kept, Filling
    <3> QED
        BY <3>1, <3>2
  <2>3. Loadable(file)' => file'.lo = file'.hi
      BY <1>3, <2>1, WholeNext
  <2>4. active' = active
      OBVIOUS
  <2> QED
      BY <2>1, <2>2, <2>3, <2>4 DEF Kept, NoTornIndex
<1>6. ASSUME ~overlapped' PROVE Alone' /\ Published' /\ Written'
  <2>1. \A u \in Threads : pc[u] \in Busy => u = t
      BY <1>1, <1>6, BusyAlone DEF Busy
  <2>2. Alone' /\ Published'
      BY <1>1, <1>6, <2>1 DEF TypeOK, Alone, Published, Busy, Past, Filling, Threads
  <2>3. file'.lo = new[t]
      BY <1>6, <1>1 DEF TypeOK, Written, Filling
  <2>4. mode' = "serving" => t \in Workers
      BY <1>1, BusyMode DEF Threads, Busy
  <2> QED
      BY <1>1, <2>1, <2>2, <2>3, <2>4 DEF TypeOK, Written, Busy, Past, Filling, Threads
<1> QED
    BY <1>3, <1>4, <1>5, <1>6

\* The two ways a save ends: its header is written, or it gives up.
LEMMA SaveEndInd ==
    ASSUME IndInv, NEW t \in Threads, SaveHeader(t) \/ SaveFails(t)
    PROVE  IndInv'
<1> USE DEF IndInv, history, SaveHeader, SaveFails
<1>1. pc[t] \in Past /\ pc[t] # "saved" /\ pc'[t] = "saved"
    BY DEF TypeOK, Past, Filling
<1>2. TypeOK'
    BY DEF TypeOK, Halves
<1>3. Phases'
    BY DEF TypeOK, Phases, Busy, Past, Filling, Threads
<1>3a. SumOfOne' /\ (Loadable(file)' => file'.lo = file'.hi)
  <2>1. SumOfOne'
      BY DEF TypeOK, SumOfOne
  <2> QED
      BY <1>2, <2>1, WholeNext
<1>4. SumOfOne' /\ Kept' /\ NoTornIndex'
  <2>1. CASE SaveHeader(t)
    <3>1. Kept' /\ (clobbered' \/ file'.lo # Nothing)
        BY <2>1 DEF TypeOK, Kept, Filling
    <3>2. active' = active
        BY <2>1
    <3> QED
        BY <1>3a, <3>1, <3>2 DEF NoTornIndex
  <2>2. CASE SaveFails(t)
      BY <2>2, FileStays DEF TypeOK, NoTornIndex, Filling
  <2> QED
      BY <2>1, <2>2
<1>5. ASSUME ~overlapped' PROVE Alone' /\ Published' /\ Written'
  <2>1. \A u \in Threads : pc[u] \in Busy => u = t
      BY <1>1, <1>5, BusyAlone DEF Busy
  <2>2. Alone' /\ Published'
      BY <1>1, <1>5, <2>1 DEF TypeOK, Alone, Published, Busy, Past, Filling, Threads
  <2>3. unwritten' \/ file'.lo = new[t]
      BY <1>5, <1>1 DEF TypeOK, Written, Filling
  <2>4. Holds(new[t])'
    <3>1. new'[t] \in Contents /\ new'[t] # Nothing
        BY <1>1, NoContent DEF Phases, Busy
    <3>2. ASSUME file'.lo = file'.hi, file'.lo = new'[t]
          PROVE  Restored(file').terms = new'[t]
        BY <3>1, <3>2, RestoredWhole DEF Halves
    <3>3. new'[t] = new[t]
        OBVIOUS
    <3> QED
        BY <1>3a, <2>3, <3>2, <3>3 DEF Holds
  <2>5. mode' = "serving" => t \in Workers
      BY <1>1, BusyMode DEF Threads, Busy
  <2> QED
      BY <1>1, <2>1, <2>2, <2>4, <2>5 DEF TypeOK, Written, Busy, Past, Filling, Threads
<1> QED
    BY <1>2, <1>3, <1>4, <1>5

LEMMA BootRestoreInd ==
    ASSUME IndInv, BootRestore
    PROVE  IndInv'
<1> USE DEF IndInv, history, BootRestore
<1>1. file.lo = file.hi /\ file.lo \in Halves
    BY LoadableWhole
<1>2. active' \in [terms : Contents, store : Contents]
    BY <1>1, RestoredWhole
<1>2a. active' \in Indexes /\ active'.terms \in Contents /\ active' # Nothing
    BY <1>2, NoContent DEF Indexes
<1>3. TypeOK'
    BY <1>2a DEF TypeOK
<1>4. Phases'
    BY DEF Phases
<1>5. SumOfOne' /\ Kept' /\ NoTornIndex'
    BY <1>2a, NoContent, FileStays
<1>6. \A t \in Threads : pc[t] = "idle"
    BY DEF Phases, Threads
<1>7. Alone' /\ Published' /\ Written'
    BY <1>6 DEF Alone, Published, Written, Holds, Loadable, Busy, Past, Filling, Threads
<1> QED
    BY <1>3, <1>4, <1>5, <1>7

LEMMA BootBuildInd ==
    ASSUME IndInv, BootBuild
    PROVE  IndInv'
<1> DEFINE docs == pages \cap BootRange
<1> USE DEF IndInv, history, BootBuild
<1>1. docs \in Contents
    BY Ranges DEF TypeOK, Contents
<1>2. \A t \in Threads : pc[t] = "idle"
    BY DEF Phases, Threads
<1>3. CASE docs # {}
  <2> /\ pc' = [pc EXCEPT ![Main] = "open"]
      /\ new' = [new EXCEPT ![Main] = docs]
      /\ mode' = "booting" /\ active' = active
      BY <1>3
  <2> HIDE DEF docs
  <2>1. TypeOK'
      BY <1>1 DEF TypeOK, Halves
  <2>2. Phases'
      BY <1>1, <1>2, MainNoWorker DEF TypeOK, Phases, Busy, Past, Filling, Threads
  <2>3. SumOfOne' /\ Kept' /\ NoTornIndex'
      BY <1>2, FileStays DEF TypeOK, NoTornIndex, Filling, Threads
  <2>4. Alone' /\ Published' /\ Written'
      BY <1>2, MainNoWorker
      DEF TypeOK, Alone, Published, Written, Busy, Past, Filling, Threads
  <2> QED
      BY <2>1, <2>2, <2>3, <2>4
<1>4. CASE docs = {}
  <2> active' = Built(docs) /\ mode' = "serving" /\ pc' = pc /\ new' = new
      BY <1>4
  <2> HIDE DEF docs
  <2>1. active' \in Indexes /\ active'.terms \in Contents /\ active' # Nothing
      BY <1>1, NoContent DEF Built, Indexes
  <2>2. TypeOK'
      BY <2>1 DEF TypeOK
  <2>3. Phases'
      BY DEF Phases
  <2>4. SumOfOne' /\ Kept' /\ NoTornIndex'
      BY <2>1, NoContent, FileStays
  <2>5. Alone' /\ Published' /\ Written'
      BY <1>2 DEF Alone, Published, Written, Holds, Loadable, Busy, Past, Filling, Threads
  <2> QED
      BY <2>2, <2>3, <2>4, <2>5
<1> QED
    BY <1>3, <1>4

LEMMA BootServeInd ==
    ASSUME IndInv, BootServe
    PROVE  IndInv'
<1> USE DEF IndInv, history, BootServe
<1>1. Main \in Threads /\ mode = "booting" /\ \A w \in Workers : pc[w] = "idle"
    BY DEF Phases, Past, Threads
<1>2. new[Main] \in Contents
    BY <1>1 DEF Phases, Busy, Past
<1>3. active' \in Indexes /\ active'.terms = new[Main] /\ active' # Nothing
    BY <1>2, NoContent DEF Built, Indexes
<1>4. TypeOK'
    BY <1>3 DEF TypeOK, Halves
<1>5. Phases'
    BY <1>1, MainNoWorker DEF TypeOK, Phases, Busy, Past, Filling, Threads
<1>6. SumOfOne' /\ Kept' /\ NoTornIndex'
    BY <1>2, <1>3, NoContent, FileStays DEF TypeOK, Filling
<1>7. ASSUME ~overlapped' PROVE Alone' /\ Published' /\ Written'
  <2>1. \A t \in Threads : pc'[t] = "idle"
      BY <1>1 DEF TypeOK, Threads
  <2>2. Holds(new[Main])
      BY <1>1, <1>7 DEF Written
  <2>3. Holds(active.terms)'
      BY <1>3, <2>2 DEF Holds, Loadable
  <2> QED
      BY <2>1, <2>3 DEF Alone, Published, Written, Busy, Past, Filling, Threads
<1> QED
    BY <1>4, <1>5, <1>6, <1>7
LEMMA RebuildCheckInd ==
    ASSUME IndInv, NEW w \in Workers, RebuildCheck(w)
    PROVE  IndInv'
<1> USE DEF IndInv, history, RebuildCheck
<1>1. TypeOK'
    BY DEF TypeOK, Threads
<1>2. Phases'
    BY MainNoWorker DEF TypeOK, Phases, Busy, Past, Filling, Threads
<1>3. SumOfOne' /\ Kept' /\ NoTornIndex'
    BY FileStays DEF TypeOK, NoTornIndex, Filling, Threads
<1>4. ASSUME ~overlapped' PROVE Alone' /\ Published' /\ Written'
  <2>1. Alone' /\ Published'
      BY <1>4 DEF TypeOK, Alone, Published, Busy, Past, Filling, Threads
  <2>2. Written'
      BY <1>4 DEF TypeOK, Written, Holds, Loadable, Past, Filling, Threads
  <2> QED
      BY <2>1, <2>2
<1> QED
    BY <1>1, <1>2, <1>3, <1>4

LEMMA RebuildBuildInd ==
    ASSUME IndInv, NEW w \in Workers, RebuildBuild(w)
    PROVE  IndInv'
<1> DEFINE docs == pages \cap RebuildRange
<1> USE DEF IndInv, history, RebuildBuild
<1>1. docs \in Contents
    BY Ranges DEF TypeOK, Contents
<1>2. new' = [new EXCEPT ![w] = docs]
    OBVIOUS
<1> HIDE DEF docs
<1>3. TypeOK'
  <2>1. new' \in [Threads -> Halves]
      BY <1>1, <1>2 DEF TypeOK, Halves
  <2> QED
      BY <2>1 DEF TypeOK, Threads
<1>4. mode = "serving"
    BY DEF Phases, TypeOK
<1>5. Phases'
    BY <1>1, <1>2, <1>4, MainNoWorker DEF TypeOK, Phases, Busy, Past, Filling, Threads
<1>6. SumOfOne' /\ Kept' /\ NoTornIndex'
    BY FileStays DEF TypeOK, NoTornIndex, Filling, Threads
<1>7. ASSUME ~overlapped' PROVE Alone' /\ Published' /\ Written'
  <2>1. ~overlapped /\ \A v \in Workers \ {w} : pc[v] \in {"idle", "starting"}
      BY <1>7 DEF TypeOK
  <2>2. \A t \in Threads : pc'[t] \notin Past
      BY <1>4, <2>1 DEF TypeOK, Phases, Past, Filling, Threads
  <2>3. Alone' /\ Published'
      BY <2>1, <2>2 DEF TypeOK, Alone, Published, Busy, Past, Filling, Threads
  <2>4. Holds(active.terms)
      BY <1>4, <2>1 DEF Written, Past, Filling
  <2>5. Holds(active.terms)'
      BY <2>4 DEF Holds, Loadable
  <2>6. Written'
      BY <2>2, <2>5 DEF Written, Past
  <2> QED
      BY <2>3, <2>6
<1> QED
    BY <1>3, <1>5, <1>6, <1>7

LEMMA RebuildSwapInd ==
    ASSUME IndInv, NEW w \in Workers, RebuildSwap(w)
    PROVE  IndInv'
<1> USE DEF IndInv, history, RebuildSwap
<1>1. w \in Threads /\ w # Main /\ pc[w] \in Busy
    BY MainNoWorker DEF Threads, Busy
<1>2. mode = "serving" /\ new[w] \in Contents
    BY <1>1, BusyMode DEF Phases
<1>3. active' \in Indexes /\ active'.terms = new[w] /\ active' # Nothing
    BY <1>2, NoContent DEF Built, Indexes
<1>4. TypeOK'
    BY <1>2, <1>3 DEF TypeOK, Threads
<1>5. Phases'
    BY <1>1, <1>2 DEF TypeOK, Phases, Busy, Past, Filling, Threads
<1>6. SumOfOne' /\ Kept' /\ NoTornIndex'
    BY <1>2, <1>3, NoContent, FileStays DEF TypeOK, Filling
<1>7. ASSUME ~overlapped' PROVE Alone' /\ Published' /\ Written'
  <2>1. \A t \in Threads : pc[t] \in Busy => t = w
      BY <1>1, <1>7, BusyAlone
  <2>2. Alone' /\ Published'
      BY <1>1, <1>3, <2>1 DEF TypeOK, Alone, Published, Busy, Past, Threads
  <2>3. Written'
      BY <1>1, <2>1 DEF TypeOK, Written, Busy, Past, Filling, Threads
  <2> QED
      BY <2>2, <2>3
<1> QED
    BY <1>4, <1>5, <1>6, <1>7

LEMMA RebuildDoneInd ==
    ASSUME IndInv, NEW w \in Workers, RebuildDone(w)
    PROVE  IndInv'
<1> USE DEF IndInv, history, RebuildDone
<1>1. w \in Threads /\ pc[w] \in Past /\ pc[w] \in Busy
    BY DEF Threads, Busy, Past
<1>2. mode = "serving"
    BY <1>1, BusyMode
<1>3. TypeOK'
    BY DEF TypeOK, Halves, Threads
<1>4. Phases'
    BY <1>2 DEF TypeOK, Phases, Busy, Past, Filling, Threads
<1>5. SumOfOne' /\ Kept' /\ NoTornIndex'
    BY FileStays DEF TypeOK, NoTornIndex, Filling, Threads
<1>6. ASSUME ~overlapped' PROVE Alone' /\ Published' /\ Written'
  <2>1. \A t \in Threads : pc[t] \in Busy => t = w
      BY <1>1, <1>6, BusyAlone
  <2>2. Alone' /\ Published'
      BY <2>1 DEF TypeOK, Alone, Published, Busy, Past, Filling, Threads
  <2>3. Holds(new[w]) /\ active.terms = new[w]
      BY <1>1, <1>6 DEF Written, Published
  <2>4. Holds(active.terms)'
      BY <2>3 DEF Holds, Loadable
  <2>5. Written'
      BY <1>1, <2>1, <2>4 DEF TypeOK, Written, Busy, Past, Filling, Threads
  <2> QED
      BY <2>2, <2>5
<1> QED
    BY <1>3, <1>4, <1>5, <1>6

LEMMA CrashInd ==
    ASSUME IndInv, Crash
    PROVE  IndInv'
<1> USE DEF IndInv, history, Crash
<1>1. TypeOK'
    BY DEF TypeOK, Halves
<1>2. \A t \in Threads : pc'[t] = "idle"
    OBVIOUS
<1>3. Phases'
    BY <1>2 DEF Phases, Busy, Past, Filling, Threads
<1>5. SumOfOne' /\ Kept' /\ NoTornIndex'
    BY <1>2, FileStays DEF Filling
<1>4. Alone' /\ Published' /\ Written'
    BY <1>2 DEF Alone, Published, Written, Busy, Past, Filling, Threads
<1> QED
    BY <1>1, <1>3, <1>4, <1>5

\* What the invariant is about stays as it is.
LEMMA FrameInd ==
    ASSUME IndInv, pages' \subseteq Docs,
           UNCHANGED <<file, mode, active, building, pc, new, history>>
    PROVE  IndInv'
<1> USE DEF IndInv, history
<1>1. TypeOK'
    BY DEF TypeOK
<1>2. Phases' /\ SumOfOne' /\ Kept' /\ NoTornIndex'
    BY FileStays DEF Phases, NoTornIndex
<1>3. Alone' <=> Alone
    BY DEF Alone
<1>4. Published' <=> Published
    BY DEF Published
<1>5. Written' <=> Written
    BY DEF Written, Holds, Loadable
<1> QED
    BY <1>1, <1>2, <1>3, <1>4, <1>5

LEMMA NextInd == IndInv /\ [Next]_vars => IndInv'
<1> SUFFICES ASSUME IndInv, [Next]_vars PROVE IndInv'
    OBVIOUS
<1>1. CASE Boot
    BY <1>1, BootRestoreInd, BootBuildInd, BootServeInd DEF Boot
<1>2. ASSUME NEW t \in Threads, Save(t) PROVE IndInv'
    BY <1>2, SaveOpenInd, SaveFillInd, SaveEndInd DEF Save
<1>3. ASSUME NEW w \in Workers,
             RebuildCheck(w) \/ RebuildBuild(w) \/ RebuildSwap(w) \/ RebuildDone(w)
      PROVE  IndInv'
    BY <1>3, RebuildCheckInd, RebuildBuildInd, RebuildSwapInd, RebuildDoneInd
<1>4. CASE Crash
    BY <1>4, CrashInd
<1>5. CASE EditPages
  <2>1. pages' \subseteq Docs
      BY <1>5 DEF EditPages, IndInv, TypeOK
  <2> QED
      BY <1>5, <2>1, FrameInd DEF EditPages
<1>6. CASE UNCHANGED vars
  <2>1. pages' \subseteq Docs
      BY <1>6 DEF vars, IndInv, TypeOK
  <2> QED
      BY <1>6, <2>1, FrameInd DEF vars
<1> QED
    BY <1>1, <1>2, <1>3, <1>4, <1>5, <1>6 DEF Next

-----------------------------------------------------------------------------
(* The theorems.                                                            *)

THEOREM Inductive == Spec => []IndInv
BY InitInd, NextInd, PTL DEF Spec

\* Types: a file, an index and the threads' labels are what main, the handler and
\* persistence.c make of them, for any pages, workers, crashes and edits.
THEOREM TypeCorrect == Spec => []TypeOK
<1>1. IndInv => TypeOK
    BY DEF IndInv
<1> QED
    BY <1>1, Inductive, PTL

\* persistence_load_index never hands main a torn or mixed index, whatever crashes
\* and overlapping saves left in index.dat, and an empty one in place of what was
\* saved only where a save emptied the file under another (barring a CRC collision).
THEOREM TornNeverServed == Spec => []NoTornIndex
<1>1. IndInv => NoTornIndex
    BY DEF IndInv
<1> QED
    BY <1>1, Inductive, PTL

\* When no save is in progress, rebuilds did not overlap and the last save could
\* open its file, an index.dat that loads holds what is served.
THEOREM DiskAgrees == Spec => []DiskMatchesServed
<1>1. IndInv => DiskMatchesServed
  <2> SUFFICES ASSUME IndInv, mode = "serving", Saving = {}, ~overlapped, ~unwritten,
                      \A w \in Workers : pc[w] # "saved", Loadable(file)
               PROVE  Restored(file).terms = active.terms
      BY DEF DiskMatchesServed
  <2>1. \A w \in Workers : pc[w] \notin Past
      BY DEF Saving, Past, Filling, Threads
  <2> QED
      BY <2>1 DEF IndInv, Written, Holds
<1> QED
    BY <1>1, Inductive, PTL

=============================================================================
