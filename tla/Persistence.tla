---------------------------- MODULE Persistence ----------------------------
(***************************************************************************)
(* index.dat and who writes and reads it: backend/src/persistence.c, the   *)
(* start in backend/src/main.c and the rebuild handler of                  *)
(* backend/src/http_server.c, through crashes and restarts of the server.  *)
(*                                                                         *)
(* An index is abstracted to the documents it has postings for (terms) and *)
(* the documents in its store (store); a file to its header, the two       *)
(* halves of its payload and its checksum.  What stdio has flushed         *)
(* survives a crash of the process.  That new_idx may be freed while it is *)
(* saved, when rebuilds overlap, is the subject of IndexRcu: here a save   *)
(* writes the index it was started with.                                   *)
(***************************************************************************)
EXTENDS Integers, FiniteSets

CONSTANTS
    Docs,          \* page numbers
    BootRange,     \* the pages main indexes (1 .. 52)
    RebuildRange,  \* the pages a rebuild indexes (1 .. 50)
    Main,          \* the main thread
    Workers,       \* worker threads that serve a rebuild
    Nothing,       \* no content: an absent part, a hole, no index
    Junk,          \* a checksum of bytes that are not the payload
    MaxCrash,      \* bound: crashes
    MaxEdit        \* bound: changes of the pages on disk

ASSUME Ranges == BootRange \subseteq Docs /\ RebuildRange \subseteq Docs
ASSUME MainNoWorker == Main \notin Workers

VARIABLES
    pages,         \* the pages that exist under data/pages
    file,          \* index.dat
    mode,          \* "down", "booting" or "serving"
    active,        \* the published index
    building,      \* g_index_building
    pc,            \* per thread: label
    new,           \* per thread: the documents of the index it built
    crashes, edits,
    overlapped,    \* history: two rebuilds overlapped since the start
    unwritten,     \* history: the last save since the start could not open its file
    clobbered      \* history: the last opening emptied the file under another's save

history == <<overlapped, unwritten, clobbered>>
bounded == <<crashes, edits>>
vars == <<pages, file, mode, active, building, pc, new, bounded, history>>

Threads == Workers \cup {Main}
Contents == SUBSET Docs
Halves == Contents \cup {Nothing}
Indexes == [terms : Contents \cup {Junk}, store : Contents]

ASSUME NoContent ==
    /\ Junk # Nothing
    /\ \A c \in Contents \cup (Halves \X Halves) : c # Junk /\ c # Nothing
    /\ \A i \in Indexes : i # Nothing

\* What fopen(..., "wb") leaves.
Truncated == [header |-> "zero", lo |-> Nothing, hi |-> Nothing, crc |-> Nothing]

Init ==
    /\ pages \in SUBSET Docs
    /\ file = Truncated                  \* no index.dat: nothing to load either
    /\ mode = "down"
    /\ active = Nothing
    /\ building = FALSE
    /\ pc = [t \in Threads |-> "idle"]
    /\ new = [t \in Threads |-> Nothing]
    /\ crashes = 0 /\ edits = 0
    /\ overlapped = FALSE /\ unwritten = FALSE /\ clobbered = FALSE

-----------------------------------------------------------------------------
(* persistence_load_index.                                                  *)

LoadableUnchecked(f) == f.header = "real" /\ f.hi # Nothing   \* a plausible bug: no CRC check
Loadable(f) == f.header = "real" /\ f.crc = <<f.lo, f.hi>>

\* The terms and postings are restored, the document store is not.  A payload of
\* zeros says that there are no terms.
Restored(f) ==
    [terms |-> CASE f.lo # f.hi -> Junk
                 [] f.lo = f.hi /\ f.lo = Nothing -> {}
                 [] OTHER -> f.lo,
     store |-> {}]

Built(docs) == [terms |-> docs, store |-> docs]

-----------------------------------------------------------------------------
(* persistence_save_index by thread t, up to each flush.                    *)

SaveOpen(t) ==
    /\ pc[t] = "open"
    /\ file' = Truncated
    /\ pc' = [pc EXCEPT ![t] = "writing"]
    /\ unwritten' = FALSE
    /\ clobbered' = \E u \in Threads \ {t} : pc[u] \in {"writing", "half", "full", "summed"}
    /\ UNCHANGED <<pages, mode, active, building, new, bounded, overlapped>>

\* return -1: index.dat cannot be opened, or there is no memory for the checksum.
\* Nobody looks at the result.
SaveFails(t) ==
    /\ pc[t] \in {"open", "full"}
    /\ pc' = [pc EXCEPT ![t] = "saved"]
    /\ unwritten' = (pc[t] = "open")
    /\ UNCHANGED <<pages, file, mode, active, building, new, bounded, overlapped, clobbered>>

\* The dummy header and the first buffers of the payload.
SaveFirstHalf(t) ==
    /\ pc[t] = "writing"
    /\ file' = [file EXCEPT !.header = "zero", !.lo = new[t]]
    /\ pc' = [pc EXCEPT ![t] = "half"]
    /\ UNCHANGED <<pages, mode, active, building, new, bounded, history>>

\* The rest of the payload, flushed by fseek.
SaveSecondHalf(t) ==
    /\ pc[t] = "half"
    /\ file' = [file EXCEPT !.hi = new[t]]
    /\ pc' = [pc EXCEPT ![t] = "full"]
    /\ UNCHANGED <<pages, mode, active, building, new, bounded, history>>

\* fread on a stream opened "wb" fails, so the checksum is that of the
\* uninitialised malloc buffer: zeros, which fresh memory is; or one index, which
\* the allocator's memory may still hold since it was loaded; or junk.  Memory that
\* mixes these is junk: that it equals a torn file byte for byte is left out, as a
\* collision of the CRC is.
Checksums == {Junk} \cup {<<c, c>> : c \in Halves}

SaveChecksum(t) ==
    /\ pc[t] = "full"
    /\ \E sum \in Checksums : file' = [file EXCEPT !.crc = sum]
    /\ pc' = [pc EXCEPT ![t] = "summed"]
    /\ UNCHANGED <<pages, mode, active, building, new, bounded, history>>

\* The real header last, fclose.
SaveHeader(t) ==
    /\ pc[t] = "summed"
    /\ file' = [file EXCEPT !.header = "real"]
    /\ pc' = [pc EXCEPT ![t] = "saved"]
    /\ UNCHANGED <<pages, mode, active, building, new, bounded, history>>

Save(t) ==
    \/ SaveOpen(t) \/ SaveFirstHalf(t) \/ SaveSecondHalf(t)
    \/ SaveChecksum(t) \/ SaveHeader(t) \/ SaveFails(t)

Saving == {t \in Threads : pc[t] \in {"open", "writing", "half", "full", "summed"}}

-----------------------------------------------------------------------------
(* main: load, or build from the pages and save; publish; serve.            *)

BootRestore ==
    /\ mode = "down"
    /\ Loadable(file)
    /\ active' = Restored(file)
    /\ mode' = "serving"
    /\ UNCHANGED <<pages, file, building, pc, new, bounded, history>>

BootNever == FALSE /\ UNCHANGED vars     \* a plausible bug: main gives up

\* The file is missing or corrupt: index the pages, save if there are any.
BootBuild ==
    LET docs == pages \cap BootRange IN
    /\ mode = "down"
    /\ ~Loadable(file)
    /\ \/ /\ docs # {}
          /\ pc' = [pc EXCEPT ![Main] = "open"]
          /\ new' = [new EXCEPT ![Main] = docs]
          /\ mode' = "booting"
          /\ UNCHANGED active
       \/ /\ docs = {}
          /\ active' = Built(docs)
          /\ mode' = "serving"
          /\ UNCHANGED <<pc, new>>
    /\ UNCHANGED <<pages, file, building, bounded, history>>

\* The save is over: index_atomic_swap, start the server.
BootServe ==
    /\ pc[Main] = "saved"
    /\ active' = Built(new[Main])
    /\ mode' = "serving"
    /\ pc' = [pc EXCEPT ![Main] = "idle"]
    /\ new' = [new EXCEPT ![Main] = Nothing]
    /\ UNCHANGED <<pages, file, building, bounded, history>>

-----------------------------------------------------------------------------
(* POST /index/rebuild by worker w.                                         *)

RebuildCheck(w) ==
    /\ mode = "serving" /\ pc[w] = "idle"
    /\ ~building
    /\ pc' = [pc EXCEPT ![w] = "starting"]
    /\ UNCHANGED <<pages, file, mode, active, building, new, bounded, history>>

\* Raise the flag and index the pages.
RebuildBuild(w) ==
    /\ pc[w] = "starting"
    /\ building' = TRUE
    /\ overlapped' = \/ overlapped
                      \/ \E v \in Workers \ {w} : pc[v] \notin {"idle", "starting"}
    /\ new' = [new EXCEPT ![w] = pages \cap RebuildRange]
    /\ pc' = [pc EXCEPT ![w] = "built"]
    /\ UNCHANGED <<pages, file, mode, active, bounded, unwritten, clobbered>>

RebuildSwapOnly(w) ==                    \* a plausible bug: the index is not saved
    /\ pc[w] = "built"
    /\ active' = Built(new[w])
    /\ pc' = [pc EXCEPT ![w] = "saved"]
    /\ UNCHANGED <<pages, file, mode, building, new, bounded, history>>

RebuildSwap(w) ==
    /\ pc[w] = "built"
    /\ active' = Built(new[w])
    /\ pc' = [pc EXCEPT ![w] = "open"]
    /\ UNCHANGED <<pages, file, mode, building, new, bounded, history>>

RebuildDone(w) ==
    /\ w # Main /\ pc[w] = "saved"
    /\ building' = FALSE
    /\ pc' = [pc EXCEPT ![w] = "idle"]
    /\ new' = [new EXCEPT ![w] = Nothing]
    /\ UNCHANGED <<pages, file, mode, active, bounded, history>>

-----------------------------------------------------------------------------
(* The environment.                                                         *)

\* The process is killed or stopped; only the files remain.
Crash ==
    /\ mode # "down"
    /\ crashes < MaxCrash
    /\ crashes' = crashes + 1
    /\ mode' = "down"
    /\ active' = Nothing
    /\ building' = FALSE
    /\ pc' = [t \in Threads |-> "idle"]
    /\ new' = [t \in Threads |-> Nothing]
    /\ overlapped' = FALSE /\ unwritten' = FALSE
    /\ UNCHANGED <<pages, file, edits, clobbered>>

\* Somebody adds or removes pages.
EditPages ==
    /\ edits < MaxEdit
    /\ edits' = edits + 1
    /\ \E d \in Docs : pages' \in {pages \cup {d}, pages \ {d}}
    /\ UNCHANGED <<file, mode, active, building, pc, new, crashes, history>>

Boot == BootRestore \/ BootBuild \/ BootServe

Next ==
    \/ Boot
    \/ \E t \in Threads : Save(t)
    \/ \E w \in Workers :
        RebuildCheck(w) \/ RebuildBuild(w) \/ RebuildSwap(w) \/ RebuildDone(w)
    \/ Crash \/ EditPages

Spec == Init /\ [][Next]_vars

\* A started server goes on starting up; rebuilds need not be requested.
FairSpec == Spec /\ WF_vars(Boot) /\ WF_vars(Save(Main))

-----------------------------------------------------------------------------

TypeOK ==
    /\ pages \subseteq Docs
    /\ file \in [header : {"zero", "real"}, lo : Halves, hi : Halves,
                 crc : {Nothing, Junk} \cup (Halves \X Halves)]
    /\ mode \in {"down", "booting", "serving"}
    /\ active \in Indexes \cup {Nothing}
    /\ active # Nothing <=> mode = "serving"
    /\ building \in BOOLEAN
    /\ pc \in [Threads -> {"idle", "starting", "built", "open", "writing",
                          "half", "full", "summed", "saved"}]
    /\ new \in [Threads -> Halves]
    /\ overlapped \in BOOLEAN /\ unwritten \in BOOLEAN /\ clobbered \in BOOLEAN

\* "Corrupted files trigger fallback corpus re-index" (security.md:7): no crash
\* during a save and no pair of overlapping saves ever makes a torn or mixed file
\* loadable, so no torn index is served.  But a file whose payload is a hole may be
\* loadable, as an empty index: where a save emptied it under another, whose
\* checksum is that of zeros.
NoTornIndex ==
    /\ active # Nothing => active.terms # Junk
    /\ Loadable(file) => file.lo = file.hi /\ (file.lo = Nothing => clobbered)

\* Except while a save is in progress, after rebuilds that overlapped, and after a
\* save that could not even open index.dat, a file that can be loaded holds the
\* postings of the index that is served: a restart loses nothing but the
\* document store.
DiskMatchesServed ==
    mode = "serving" /\ Saving = {} /\ ~overlapped /\ ~unwritten
        /\ (\A w \in Workers : pc[w] # "saved")
        /\ Loadable(file)
        => Restored(file).terms = active.terms

\* A server that is down comes back whatever file the crash left.
ComesBack == mode = "down" ~> mode = "serving"

=============================================================================
