--------------------------- MODULE FullFillProofs ---------------------------
(***************************************************************************)
(* Proofs about whole-object fills, for a file of any size, streams of any *)
(* length, any number of caches, fillers, workers and open descriptors.    *)
(***************************************************************************)
EXTENDS FullFill, TLAPS

(* The reader and the fillers at work have a cache. *)
Typed ==
  /\ TypeOK
  /\ reader.pc = "idle" => reader = Idle
  /\ reader.pc # "idle" => reader.cache \in Caches
  /\ reader.pc \in {"recover", "recovering", "reset"} => reader.retries = 1
  /\ \A k \in Fillers : filler[k].pc # "off" => filler[k].cache \in Caches

(* The FUSE thread has claimed the fill slot of c and spawned no filler. *)
Starting(c) == reader.cache = c /\ reader.pc \in {"register", "lock", "opening"}

(* The fill slot: who has claimed it, and that nobody else has. *)
Slot ==
  /\ FillSlotOwned
  /\ \A c \in Caches : Starting(c) =>
       /\ cache[c].fill = "running"
       /\ \A k \in Fillers : Transferring(k) => filler[k].cache # c

(* A transfer that has gone well so far has stored all it has read. *)
Stored(k) ==
  Transferring(k) /\ ~filler[k].bad =>
    /\ filler[k].offset <= Size
    /\ \A u \in Units : u < filler[k].offset => u \in cache[filler[k].cache].got

Bytes == CompleteMeansAll /\ \A k \in Fillers : Stored(k)

(* Without disconnects a fill ends once, and the tracker has an entry for  *)
(* each transfer and for each that is being opened.                        *)
Tracked ==
  /\ link /\ losses = 0
  /\ \A c \in Caches : cache[c].fill # "lost"
  /\ \A k \in Fillers :
       /\ filler[k].pc # "off" => filler[k].alive
       /\ filler[k].pc \in {"ended", "tail"} =>
            cache[filler[k].cache].fill \in {"complete", "failed"}
       /\ Transferring(k) => live[filler[k].cache] > 0
  /\ reader.pc \in {"lock", "opening"} => live[reader.cache] > 0
  /\ reader.pc = "open_failed" => cache[reader.cache].fill = "failed"
  /\ reader.pc \notin {"recover", "recovering", "reset"}
  /\ mount # "up" => stopping
  /\ mount = "stopped" => \A c \in Caches : live[c] = 0
-----------------------------------------------------------------------------
(* The filler k goes to the step p; the other fields, and the other        *)
(* fillers, stay.                                                          *)
FillerGoes(k, p) ==
  /\ filler' \in [Fillers -> FillerRecords]
  /\ \A j \in Fillers :
       /\ filler'[j].pc = IF j = k THEN p ELSE filler[j].pc
       /\ filler'[j].cache = filler[j].cache
       /\ filler'[j].offset = filler[j].offset
       /\ filler'[j].bad = filler[j].bad
       /\ filler'[j].alive = filler[j].alive

(* The fill of the cache c becomes f. *)
FillGoes(c, f) ==
  /\ cache' \in [Caches -> CacheRecords]
  /\ \A d \in Caches : /\ cache'[d].fill = IF d = c THEN f ELSE cache[d].fill
                       /\ cache'[d].got = cache[d].got

(* The FUSE thread goes to the step p with its read. *)
ReaderGoes(p) ==
  /\ reader' \in ReaderRecords
  /\ reader'.pc = p /\ reader'.cache = reader.cache
  /\ reader'.retries = reader.retries

LEMMA FillerMoves ==
  ASSUME filler \in [Fillers -> FillerRecords], NEW k \in Fillers,
         NEW p \in {"off", "stream", "cancel", "ended", "tail"},
         filler' = [filler EXCEPT ![k].pc = p]
  PROVE  FillerGoes(k, p)
<1> DEFINE r == [filler[k] EXCEPT !.pc = p]
<1>1. /\ r \in FillerRecords /\ r.pc = p /\ r.cache = filler[k].cache
      /\ r.offset = filler[k].offset /\ r.bad = filler[k].bad
      /\ r.alive = filler[k].alive
  BY DEF FillerRecords
<1>2. filler' = [filler EXCEPT ![k] = r]
  OBVIOUS
<1> HIDE DEF r
<1> QED
  BY <1>1, <1>2 DEF FillerGoes

LEMMA FillMoves ==
  ASSUME cache \in [Caches -> CacheRecords], NEW c \in Caches, NEW f \in FillStates,
         cache' = [cache EXCEPT ![c].fill = f]
  PROVE  FillGoes(c, f)
<1> DEFINE r == [cache[c] EXCEPT !.fill = f]
<1>1. r \in CacheRecords /\ r.fill = f /\ r.got = cache[c].got
  BY DEF CacheRecords
<1>2. cache' = [cache EXCEPT ![c] = r]
  OBVIOUS
<1> HIDE DEF r
<1> QED
  BY <1>1, <1>2 DEF FillGoes

LEMMA ReaderMoves ==
  ASSUME reader \in ReaderRecords,
         NEW p \in {"idle", "ensure", "register", "lock", "opening", "open_failed",
                    "wait", "recover", "recovering", "reset"},
         reader' = [reader EXCEPT !.pc = p]
  PROVE  ReaderGoes(p)
BY DEF ReaderRecords, ReaderGoes

(* After the reset the read starts over, or is answered. *)
LEMMA ResetMoves ==
  ASSUME Typed, Reset
  PROVE  \/ reader' = Idle
         \/ reader' \in ReaderRecords /\ reader'.pc = "ensure" /\ reader'.cache = reader.cache
<1> DEFINE r == [reader EXCEPT !.pc = "ensure"]
           s == [r EXCEPT !.retries = 0]
<1>1. reader.retries = 1 /\ reader \in ReaderRecords
  BY DEF Reset, Typed, TypeOK
<1>2. r \in ReaderRecords /\ r.pc = "ensure" /\ r.cache = reader.cache
  BY <1>1 DEF ReaderRecords
<1>3. reader' = Idle \/ reader' = s
  BY <1>1 DEF Reset
<1>4. s \in ReaderRecords /\ s.pc = "ensure" /\ s.cache = reader.cache
  <2> HIDE DEF r
  <2> QED
    BY <1>2 DEF ReaderRecords
<1> QED
  BY <1>3, <1>4

(* The record of a filler after a chunk. *)
LEMMA ChunkRecord ==
  ASSUME NEW f \in FillerRecords, NEW b \in BOOLEAN
  PROVE  \E r \in FillerRecords :
           /\ r = [[f EXCEPT !.offset = @ + 1] EXCEPT !.bad = b]
           /\ r.pc = f.pc /\ r.cache = f.cache /\ r.alive = f.alive
           /\ r.offset = f.offset + 1
           /\ r.bad = b
<1> DEFINE s == [f EXCEPT !.offset = @ + 1]
<1>1. /\ s \in FillerRecords /\ s.pc = f.pc /\ s.cache = f.cache /\ s.alive = f.alive
      /\ s.offset = f.offset + 1
  BY DEF FillerRecords
<1> HIDE DEF s
<1> DEFINE r == [s EXCEPT !.bad = b]
<1>2. /\ r \in FillerRecords /\ r.pc = s.pc /\ r.cache = s.cache /\ r.alive = s.alive
      /\ r.offset = s.offset /\ r.bad = b
  BY <1>1 DEF FillerRecords
<1>3. r = [[f EXCEPT !.offset = @ + 1] EXCEPT !.bad = b]
  BY DEF s
<1> HIDE DEF r
<1> QED
  BY <1>1, <1>2, <1>3

(* A chunk of a stream: one byte stored, or none and the fill is bad, and  *)
(* one byte further on.                                                    *)
LEMMA ChunkMoves ==
  ASSUME Typed, NEW k \in Fillers, FillChunk(k)
  PROVE  /\ cache' \in [Caches -> CacheRecords]
         /\ filler' \in [Fillers -> FillerRecords]
         /\ \A d \in Caches :
              /\ cache'[d].fill = cache[d].fill
              /\ cache'[d].got = IF d = filler[k].cache /\ ~filler'[k].bad
                                 THEN cache[d].got \cup {filler[k].offset}
                                 ELSE cache[d].got
         /\ \A j \in Fillers :
              /\ filler'[j].pc = filler[j].pc
              /\ filler'[j].cache = filler[j].cache
              /\ filler'[j].alive = filler[j].alive
              /\ j # k => filler'[j] = filler[j]
         /\ filler'[k].offset = filler[k].offset + 1
         /\ ~filler'[k].bad => Fits(filler[k])
<1> DEFINE f == filler[k]
<1>0. f \in FillerRecords /\ cache \in [Caches -> CacheRecords] /\ f.cache \in Caches
      /\ filler \in [Fillers -> FillerRecords]
  BY DEF Typed, TypeOK, FillChunk
<1>1. PICK ok \in BOOLEAN :
        /\ cache' = IF Fits(f) /\ ok
                    THEN [cache EXCEPT ![f.cache].got = @ \cup {f.offset}] ELSE cache
        /\ filler' = [filler EXCEPT ![k].offset = @ + 1, ![k].bad = ~(Fits(f) /\ ok)]
  BY DEF FillChunk
<1> DEFINE stored == Fits(f) /\ ok
<1>2. PICK r \in FillerRecords :
        /\ filler' = [filler EXCEPT ![k] = r]
        /\ r.pc = f.pc /\ r.cache = f.cache /\ r.alive = f.alive
        /\ r.offset = f.offset + 1
        /\ r.bad = ~stored
  <2>1. CASE stored
    <3>1. (~stored) = FALSE
      BY <2>1
    <3>2. filler' = [filler EXCEPT ![k] = [[f EXCEPT !.offset = @ + 1] EXCEPT !.bad = FALSE]]
      BY <1>1, <3>1
    <3> QED
      BY <1>0, <2>1, <3>1, <3>2, ChunkRecord
  <2>2. CASE ~stored
    <3>1. (~stored) = TRUE
      BY <2>2
    <3>2. filler' = [filler EXCEPT ![k] = [[f EXCEPT !.offset = @ + 1] EXCEPT !.bad = TRUE]]
      BY <1>1, <3>1
    <3> QED
      BY <1>0, <2>2, <3>1, <3>2, ChunkRecord
  <2> QED
    BY <2>1, <2>2
<1>3. filler'[k].bad = ~stored
  BY <1>0, <1>2
<1>4. CASE stored
  <2> DEFINE c == [cache[f.cache] EXCEPT !.got = @ \cup {f.offset}]
  <2>1. c \in CacheRecords /\ c.fill = cache[f.cache].fill
        /\ c.got = cache[f.cache].got \cup {f.offset}
    BY <1>0, <1>4 DEF CacheRecords, Fits
  <2>2. cache' = [cache EXCEPT ![f.cache] = c]
    BY <1>1, <1>4
  <2>3. ~filler'[k].bad /\ Fits(f)
    BY <1>3, <1>4
  <2> HIDE DEF c, stored
  <2> QED
    BY <1>0, <1>2, <2>1, <2>2, <2>3
<1>5. CASE ~stored
  <2>1. cache' = cache
    BY <1>1, <1>5
  <2>2. filler'[k].bad
    BY <1>3, <1>5
  <2> HIDE DEF f, stored
  <2> QED
    BY <1>0, <1>2, <2>1, <2>2 DEF f
<1> QED
  BY <1>4, <1>5

(* A cache nobody refers to is made new. *)
LEMMA CacheMade ==
  ASSUME Typed, NEW c \in Caches, cache' = [cache EXCEPT ![c] = NewCache]
  PROVE  /\ cache' \in [Caches -> CacheRecords]
         /\ \A d \in Caches : d # c => cache'[d] = cache[d]
         /\ cache'[c].fill = "idle" /\ cache'[c].got = {}
<1>1. NewCache \in CacheRecords /\ NewCache.fill = "idle" /\ NewCache.got = {}
  BY DEF NewCache, CacheRecords, FillStates
<1> QED
  BY <1>1 DEF Typed, TypeOK

(* A filler is spawned, on the byte zero of its stream. *)
LEMMA FillerSpawned ==
  ASSUME Typed, NEW k \in Fillers, NEW len \in Lengths, OpenDownload(k, len)
  PROVE  /\ filler' \in [Fillers -> FillerRecords]
         /\ \A j \in Fillers : j # k => filler'[j] = filler[j]
         /\ filler'[k].pc = "stream" /\ filler'[k].cache = reader.cache
         /\ filler'[k].offset = 0 /\ filler'[k].alive
<1> DEFINE r == [pc |-> "stream", cache |-> reader.cache, offset |-> 0, length |-> len,
                 bad |-> FALSE, alive |-> TRUE]
<1>1. r \in FillerRecords
  BY DEF FillerRecords, Typed, OpenDownload
<1>2. r.pc = "stream" /\ r.cache = reader.cache /\ r.offset = 0 /\ r.alive
  OBVIOUS
<1>3. filler' = [filler EXCEPT ![k] = r]
  BY DEF OpenDownload
<1> HIDE DEF r
<1> QED
  BY <1>1, <1>2, <1>3 DEF Typed, TypeOK

(* A filler is gone. *)
LEMMA FillerGone ==
  ASSUME Typed, NEW k \in Fillers, filler' = [filler EXCEPT ![k] = NoFiller]
  PROVE  /\ filler' \in [Fillers -> FillerRecords]
         /\ \A j \in Fillers : j # k => filler'[j] = filler[j]
         /\ filler'[k].pc = "off"
<1>1. NoFiller \in FillerRecords /\ NoFiller.pc = "off"
  BY DEF NoFiller, FillerRecords
<1> QED
  BY <1>1 DEF Typed, TypeOK

(* The fillers of a dead session. *)
LEMMA FillersDie ==
  ASSUME Typed, LinkLoss
  PROVE  /\ filler' \in [Fillers -> FillerRecords]
         /\ \A j \in Fillers :
              /\ filler'[j].pc = filler[j].pc /\ filler'[j].cache = filler[j].cache
              /\ filler'[j].offset = filler[j].offset /\ filler'[j].bad = filler[j].bad
<1>1. \A j \in Fillers :
        LET r == [filler[j] EXCEPT !.alive = FALSE]
        IN  /\ r \in FillerRecords /\ r.pc = filler[j].pc /\ r.cache = filler[j].cache
            /\ r.offset = filler[j].offset /\ r.bad = filler[j].bad
  BY DEF Typed, TypeOK, FillerRecords
<1> QED
  BY <1>1 DEF LinkLoss

(* Teardown raises stop flags only. *)
LEMMA CachesStop ==
  ASSUME Typed, StopBegin
  PROVE  /\ cache' \in [Caches -> CacheRecords]
         /\ \A d \in Caches : cache'[d].fill = cache[d].fill /\ cache'[d].got = cache[d].got
<1>1. \A d \in Caches : \A b \in BOOLEAN :
        LET r == [cache[d] EXCEPT !.stop = b]
        IN  r \in CacheRecords /\ r.fill = cache[d].fill /\ r.got = cache[d].got
  BY DEF Typed, TypeOK, CacheRecords
<1>2. \A d \in Caches : \E b \in BOOLEAN : cache'[d] = [cache[d] EXCEPT !.stop = b]
  BY DEF StopBegin, Typed, TypeOK, CacheRecords
<1> QED
  BY <1>1, <1>2 DEF StopBegin
-----------------------------------------------------------------------------
LEMMA TypedInit == Init => Typed
<1> SUFFICES ASSUME Init PROVE Typed
  OBVIOUS
<1>1. NewCache \in CacheRecords /\ NoFiller \in FillerRecords /\ Idle \in ReaderRecords
  <2>1. NewCache \in CacheRecords
    BY DEF NewCache, CacheRecords, FillStates
  <2>2. NoFiller \in FillerRecords
    BY DEF NoFiller, FillerRecords
  <2>3. Idle \in ReaderRecords
    BY DEF Idle, ReaderRecords
  <2> QED
    BY <2>1, <2>2, <2>3
<1>2. stopping \in BOOLEAN /\ link \in BOOLEAN
  BY DEF Init
<1>3. /\ fhs \in 0 .. MaxOpen /\ losses \in 0 .. MaxLinkLosses
      /\ live \in [Caches -> Nat]
  BY FullFillAssumption DEF Init
<1>4. cache \in [Caches -> CacheRecords] /\ filler \in [Fillers -> FillerRecords]
  BY <1>1 DEF Init
<1>5. TypeOK
  BY <1>1, <1>2, <1>3, <1>4 DEF Init, TypeOK
<1> QED
  BY <1>5 DEF Init, Typed, Idle, NoFiller

(* Every step keeps the types. *)
LEMMA TypedStep == Typed /\ [Next]_vars => Typed'
<1> SUFFICES ASSUME Typed, [Next]_vars PROVE Typed'
  OBVIOUS
<1> USE FullFillAssumption
<1>0. Idle \in ReaderRecords /\ Idle.pc = "idle"
  BY DEF Idle, ReaderRecords
<1>1. CASE Open
  BY <1>1 DEF Open, Typed, TypeOK
<1>2. CASE Release
  BY <1>2 DEF Release, Typed, TypeOK
<1>3. ASSUME NEW c \in Caches, NEW want \in SUBSET Units \ {{}}, ReadBegin(c, want)
      PROVE  Typed'
  <2>1. cache' \in [Caches -> CacheRecords] /\ read_cache' \in Caches \cup {None}
    BY <1>3, CacheMade DEF ReadBegin, Typed, TypeOK
  <2>2. /\ reader' \in ReaderRecords
        /\ reader'.pc = "ensure" /\ reader'.cache = c
    BY <1>3 DEF ReadBegin, ReaderRecords
  <2> QED
    BY <1>3, <2>1, <2>2 DEF ReadBegin, Typed, TypeOK
<1>4. CASE StartFill
  <2>1. reader.cache \in Caches /\ \E p \in {"register", "wait"} : ReaderGoes(p)
    BY <1>4, ReaderMoves DEF StartFill, Typed, TypeOK
  <2>2. cache' \in [Caches -> CacheRecords]
    BY <1>4, <2>1, FillMoves DEF StartFill, SetFill, FillGoes, FillStates, Typed, TypeOK
  <2> QED
    BY <1>4, <2>1, <2>2 DEF StartFill, ReaderGoes, Typed, TypeOK
<1>5. CASE Register
  <2>1. reader.cache \in Caches /\ \E p \in {"lock", "wait"} : ReaderGoes(p)
    BY <1>5, ReaderMoves DEF Register, Typed, TypeOK
  <2>2. cache' \in [Caches -> CacheRecords]
    BY <1>5, <2>1, FillMoves DEF Register, Refused, FillGoes, FillStates, Typed, TypeOK
  <2>3. live' \in [Caches -> Nat]
    BY <1>5 DEF Register, Typed, TypeOK
  <2> QED
    BY <1>5, <2>1, <2>2, <2>3 DEF Register, ReaderGoes, Typed, TypeOK
<1>6. CASE LockToOpen
  <2>1. ReaderGoes("opening")
    BY <1>6, ReaderMoves DEF LockToOpen, Typed, TypeOK
  <2> QED
    BY <1>6, <2>1 DEF LockToOpen, ReaderGoes, Typed, TypeOK
<1>7. ASSUME NEW k \in Fillers, NEW len \in Lengths, OpenDownload(k, len) PROVE Typed'
  <2>1. ReaderGoes("wait")
    BY <1>7, ReaderMoves DEF OpenDownload, Typed, TypeOK
  <2>2. /\ filler' \in [Fillers -> FillerRecords]
        /\ \A j \in Fillers : filler'[j].pc # "off" => filler'[j].cache \in Caches
    BY <1>7, FillerSpawned DEF OpenDownload, Typed
  <2> QED
    BY <1>7, <2>1, <2>2 DEF OpenDownload, ReaderGoes, Typed, TypeOK
<1>8. ASSUME NEW lost \in BOOLEAN, OpenFails(lost) PROVE Typed'
  <2>1. ReaderGoes("open_failed") /\ reader.cache \in Caches
    BY <1>8, ReaderMoves DEF OpenFails, Typed, TypeOK
  <2>2. cache' \in [Caches -> CacheRecords]
    BY <1>8, <2>1, FillMoves DEF OpenFails, OpenOutcome, SetFill, FillGoes, FillStates, Typed, TypeOK
  <2> QED
    BY <1>8, <2>1, <2>2 DEF OpenFails, ReaderGoes, Typed, TypeOK
<1>9. CASE OpenFailedFinished
  <2>1. ReaderGoes("wait")
    BY <1>9, ReaderMoves DEF OpenFailedFinished, Typed, TypeOK
  <2> QED
    BY <1>9, <2>1 DEF OpenFailedFinished, ReaderGoes, Typed, TypeOK
<1>10. CASE WaitAndRead
  <2>1. \/ reader' = Idle
        \/ ReaderGoes("recover") /\ reader.retries = 1 /\ reader.cache \in Caches
    <3>1. reader.retries \in {0, 1} /\ reader \in ReaderRecords
      BY DEF Typed, TypeOK, ReaderRecords
    <3> QED
      BY <1>10, <3>1, ReaderMoves DEF WaitAndRead, Typed
  <2> QED
    BY <1>0, <1>10, <2>1 DEF WaitAndRead, ReaderGoes, Typed, TypeOK
<1>11. CASE RecoverBegin
  <2>1. ReaderGoes("recovering")
    BY <1>11, ReaderMoves DEF RecoverBegin, Typed, TypeOK
  <2> QED
    BY <1>11, <2>1 DEF RecoverBegin, ReaderGoes, Typed, TypeOK
<1>12. ASSUME NEW ok \in BOOLEAN, RecoverEnd(ok) PROVE Typed'
  <2>1. reader' = Idle \/ ReaderGoes("reset")
    BY <1>12, ReaderMoves DEF RecoverEnd, Typed, TypeOK
  <2> QED
    BY <1>0, <1>12, <2>1 DEF RecoverEnd, ReaderGoes, Typed, TypeOK
<1>13. CASE Reset
  <2>1. reader.cache \in Caches /\ reader.retries = 1 /\ reader \in ReaderRecords
    BY <1>13 DEF Reset, Typed, TypeOK
  <2>2. \/ reader' = Idle
        \/ reader' \in ReaderRecords /\ reader'.pc = "ensure" /\ reader'.cache = reader.cache
    BY <1>13, ResetMoves
  <2>3. cache' \in [Caches -> CacheRecords]
    BY <1>13, <2>1, FillMoves DEF Reset, SetFill, FillGoes, FillStates, Typed, TypeOK
  <2> QED
    BY <1>0, <1>13, <2>1, <2>2, <2>3 DEF Reset, Typed, TypeOK
<1>14. CASE Reconnect
  BY <1>14 DEF Reconnect, Typed, TypeOK
<1>15. ASSUME NEW k \in Fillers, FillCancel(k) \/ FillFinished(k) PROVE Typed'
  <2>1. \E p \in {"cancel", "tail"} : FillerGoes(k, p) /\ filler[k].pc # "off"
    BY <1>15, FillerMoves DEF FillCancel, FillFinished, Typed, TypeOK
  <2>2. live' \in [Caches -> Nat]
    BY <1>15 DEF FillCancel, FillFinished, Finished, Typed, TypeOK
  <2> QED
    BY <1>15, <2>1, <2>2 DEF FillCancel, FillFinished, FillerGoes, Typed, TypeOK
<1>16. ASSUME NEW k \in Fillers, FillCancelled(k) \/ FillEnd(k) \/ FillError(k) PROVE Typed'
  <2>1. FillerGoes(k, "ended") /\ filler[k].pc # "off" /\ filler[k].cache \in Caches
    BY <1>16, FillerMoves DEF FillCancelled, FillEnd, FillError, Typed, TypeOK
  <2>2. \E f \in FillStates : cache' = [cache EXCEPT ![filler[k].cache].fill = f]
    BY <1>16 DEF FillCancelled, FillEnd, FillError, SetFill, FinalState, FillStates
  <2>3. cache' \in [Caches -> CacheRecords]
    BY <2>1, <2>2, FillMoves DEF FillGoes, Typed, TypeOK
  <2> QED
    BY <1>16, <2>1, <2>3 DEF FillCancelled, FillEnd, FillError, FillerGoes, Typed, TypeOK
<1>17. ASSUME NEW k \in Fillers, FillChunk(k) PROVE Typed'
  BY <1>17, ChunkMoves DEF FillChunk, Typed, TypeOK
<1>18. ASSUME NEW k \in Fillers, FillTail(k) PROVE Typed'
  BY <1>18, FillerGone DEF FillTail, Typed, TypeOK
<1>19. CASE EventArrives \/ EventHandled
  BY <1>19 DEF EventArrives, EventHandled, Typed, TypeOK
<1>20. CASE LinkLoss
  <2>1. /\ filler' \in [Fillers -> FillerRecords]
        /\ \A j \in Fillers : filler'[j].pc # "off" => filler'[j].cache \in Caches
    BY <1>20, FillersDie DEF Typed
  <2>2. UNCHANGED <<fhs, read_cache, cache, live, stopping, reader, events, mount>>
    BY <1>20 DEF LinkLoss
  <2>3. losses' \in 0 .. MaxLinkLosses
    BY <1>20 DEF LinkLoss, Typed, TypeOK
  <2>4. link' \in BOOLEAN
    BY <1>20 DEF LinkLoss
  <2> QED
    BY <2>1, <2>2, <2>3, <2>4 DEF Typed, TypeOK
<1>21. CASE StopBegin
  BY <1>21, CachesStop DEF StopBegin, Typed, TypeOK
<1>22. CASE StopDone \/ StopTimeout \/ Exit
  BY <1>22 DEF StopDone, StopTimeout, Exit, Typed, TypeOK
<1>23. CASE UNCHANGED vars
  BY <1>23 DEF vars, Typed, TypeOK
<1> QED
  BY <1>1, <1>2, <1>3, <1>4, <1>5, <1>6, <1>7, <1>8, <1>9, <1>10, <1>11, <1>12, <1>13,
     <1>14, <1>15, <1>16, <1>17, <1>18, <1>19, <1>20, <1>21, <1>22, <1>23
  DEF Next, FuseSteps, FillSteps, Exited

(* The descriptors, the caches, the fillers and the tracker have the types *)
(* the code gives them, in every reachable state; a read has at most one   *)
(* retry left.                                                             *)
THEOREM TypeCorrect == Spec => []TypeOK
<1>1. Typed => TypeOK
  BY DEF Typed
<1> QED
  BY <1>1, TypedInit, TypedStep, PTL DEF Spec
-----------------------------------------------------------------------------
LEMMA SlotInit == Init => Slot
BY DEF Init, Slot, FillSlotOwned, FillSlotExclusive, Transferring, Starting, NewCache,
       NoFiller, Idle

(* No fill state, transfer or claim changes. *)
SlotFrame ==
  /\ \A d \in Caches : cache'[d].fill = cache[d].fill
  /\ \A j \in Fillers : /\ Transferring(j)' <=> Transferring(j)
                        /\ Transferring(j) => filler'[j].cache = filler[j].cache
  /\ \A d \in Caches : Starting(d)' <=> Starting(d)

LEMMA SlotFramed == ASSUME Typed, Slot, SlotFrame PROVE Slot'
<1>1. /\ \A k \in Fillers : Transferring(k)' => cache'[filler'[k].cache].fill = "running"
      /\ \A j, k \in Fillers :
           Transferring(j)' /\ Transferring(k)' /\ filler'[j].cache = filler'[k].cache
             => j = k
  BY DEF Slot, FillSlotOwned, FillSlotExclusive, SlotFrame, Typed, Transferring
<1>2. \A c \in Caches : cache'[c].fill = "running" =>
        \/ \E k \in Fillers : Transferring(k)' /\ filler'[k].cache = c
        \/ Starting(c)'
  BY DEF Slot, FillSlotOwned, SlotFrame, Starting
<1>3. \A c \in Caches : Starting(c)' =>
        /\ cache'[c].fill = "running"
        /\ \A k \in Fillers : Transferring(k)' => filler'[k].cache # c
  BY DEF Slot, SlotFrame
<1> QED
  BY <1>1, <1>2, <1>3 DEF Slot, FillSlotOwned, FillSlotExclusive, Starting

(* The steps after which the slots are as they were. *)
LEMMA SlotStays ==
  ASSUME Typed,
         \/ Open \/ Release \/ LockToOpen \/ OpenFailedFinished \/ WaitAndRead
         \/ RecoverBegin \/ (\E ok \in BOOLEAN : RecoverEnd(ok)) \/ Reconnect
         \/ \E k \in Fillers : FillCancel(k) \/ FillChunk(k) \/ FillFinished(k) \/ FillTail(k)
         \/ EventArrives \/ EventHandled \/ LinkLoss
         \/ StopBegin \/ StopDone \/ StopTimeout \/ Exit \/ UNCHANGED vars
  PROVE  SlotFrame
<1> USE DEF SlotFrame, Transferring, Starting
<1>1. CASE Open \/ Release \/ Reconnect \/ EventArrives \/ EventHandled \/ StopDone
             \/ StopTimeout \/ Exit \/ UNCHANGED vars
  BY <1>1 DEF Open, Release, Reconnect, EventArrives, EventHandled, StopDone, StopTimeout,
              Exit, vars
<1>2. CASE LockToOpen \/ OpenFailedFinished \/ RecoverBegin
  <2>1. \/ reader.pc = "lock" /\ ReaderGoes("opening")
        \/ reader.pc = "open_failed" /\ ReaderGoes("wait")
        \/ reader.pc = "recover" /\ ReaderGoes("recovering")
    BY <1>2, ReaderMoves DEF LockToOpen, OpenFailedFinished, RecoverBegin, Typed, TypeOK
  <2> QED
    BY <1>2, <2>1 DEF LockToOpen, OpenFailedFinished, RecoverBegin, ReaderGoes
<1>3. CASE WaitAndRead \/ \E ok \in BOOLEAN : RecoverEnd(ok)
  <2>1. /\ reader.pc \in {"wait", "recovering"}
        /\ reader'.pc \in {"idle", "recover", "reset"}
    <3>1. Idle.pc = "idle"
      BY DEF Idle
    <3>2. reader' = Idle \/ ReaderGoes("recover") \/ ReaderGoes("reset")
      BY <1>3, ReaderMoves DEF WaitAndRead, RecoverEnd, Typed, TypeOK
    <3> QED
      BY <1>3, <3>1, <3>2 DEF WaitAndRead, RecoverEnd, ReaderGoes
  <2> QED
    BY <1>3, <2>1 DEF WaitAndRead, RecoverEnd
<1>4. ASSUME NEW k \in Fillers, FillCancel(k) PROVE SlotFrame
  <2>1. FillerGoes(k, "cancel")
    BY <1>4, FillerMoves DEF FillCancel, Typed, TypeOK
  <2> QED
    BY <1>4, <2>1 DEF FillCancel, FillerGoes
<1>5. ASSUME NEW k \in Fillers, FillFinished(k) PROVE SlotFrame
  <2>1. FillerGoes(k, "tail")
    BY <1>5, FillerMoves DEF FillFinished, Typed, TypeOK
  <2> QED
    BY <1>5, <2>1 DEF FillFinished, FillerGoes
<1>6. ASSUME NEW k \in Fillers, FillChunk(k) PROVE SlotFrame
  BY <1>6, ChunkMoves DEF FillChunk
<1>7. ASSUME NEW k \in Fillers, FillTail(k) PROVE SlotFrame
  BY <1>7, FillerGone DEF FillTail
<1>8. CASE LinkLoss
  BY <1>8, FillersDie DEF LinkLoss
<1>9. CASE StopBegin
  BY <1>9, CachesStop DEF StopBegin
<1> QED
  BY <1>1, <1>2, <1>3, <1>4, <1>5, <1>6, <1>7, <1>8, <1>9

(* Every step keeps the slots. *)
LEMMA SlotStep == Typed /\ Slot /\ [Next]_vars => Slot'
<1> SUFFICES ASSUME Typed, Slot, [Next]_vars PROVE Slot'
  OBVIOUS
<1> USE DEF Slot, FillSlotOwned, FillSlotExclusive, Transferring, Starting
<1>0. ASSUME SlotFrame PROVE Slot'
  <2> HIDE DEF Slot
  <2> QED
    BY <1>0, SlotFramed
<1>1. ASSUME NEW c \in Caches, NEW want \in SUBSET Units \ {{}}, ReadBegin(c, want)
      PROVE  Slot'
  <2>1. reader.pc = "idle" /\ reader'.pc = "ensure" /\ UNCHANGED filler
    BY <1>1 DEF ReadBegin
  <2>2. CASE cache' = cache
    BY <1>0, <2>1, <2>2 DEF SlotFrame
  <2>3. CASE cache' = [cache EXCEPT ![c] = NewCache] /\ Unused(c)
    <3>1. \A d \in Caches : /\ d # c => cache'[d] = cache[d]
                            /\ cache'[c].fill = "idle"
      BY <2>3, CacheMade
    <3>2. \A k \in Fillers : filler[k].pc # "off" => filler[k].cache # c
      BY <2>3 DEF Unused
    <3> QED
      BY <2>1, <3>1, <3>2 DEF Typed
  <2> QED
    BY <1>1, <2>2, <2>3 DEF ReadBegin, IsLowest
<1>2. CASE StartFill
  <2>1. reader.pc = "ensure" /\ reader.cache \in Caches /\ UNCHANGED filler
    BY <1>2 DEF StartFill, Typed
  <2>2. CASE cache' = cache /\ ReaderGoes("wait")
    BY <1>0, <2>1, <2>2 DEF ReaderGoes, SlotFrame
  <2>3. CASE /\ cache[reader.cache].fill = "idle"
             /\ FillGoes(reader.cache, "running") /\ ReaderGoes("register")
    <3>1. \A k \in Fillers : Transferring(k) => filler[k].cache # reader.cache
      BY <2>3
    <3> QED
      BY <2>1, <2>3, <3>1 DEF ReaderGoes, FillGoes, Typed
  <2>4. \/ cache' = cache /\ ReaderGoes("wait")
        \/ /\ cache[reader.cache].fill = "idle"
           /\ FillGoes(reader.cache, "running") /\ ReaderGoes("register")
    BY <1>2, <2>1, ReaderMoves, FillMoves
    DEF StartFill, StartsFill, SetFill, FillStates, Typed, TypeOK
  <2> QED
    BY <2>2, <2>3, <2>4
<1>3. CASE Register
  <2>1. reader.pc = "register" /\ reader.cache \in Caches /\ UNCHANGED filler
    BY <1>3 DEF Register, Typed
  <2>2. CASE cache' = cache /\ ReaderGoes("lock")
    BY <1>0, <2>1, <2>2 DEF ReaderGoes, SlotFrame
  <2>3. CASE FillGoes(reader.cache, "failed") /\ ReaderGoes("wait")
    BY <2>1, <2>3 DEF ReaderGoes, FillGoes, Typed
  <2>4. \/ cache' = cache /\ ReaderGoes("lock")
        \/ FillGoes(reader.cache, "failed") /\ ReaderGoes("wait")
    BY <1>3, <2>1, ReaderMoves, FillMoves DEF Register, Refused, FillStates, Typed, TypeOK
  <2> QED
    BY <2>2, <2>3, <2>4
<1>4. ASSUME NEW k \in Fillers, NEW len \in Lengths, OpenDownload(k, len) PROVE Slot'
  <2>1. /\ reader.pc = "opening" /\ reader.cache \in Caches /\ UNCHANGED cache
        /\ filler[k].pc = "off"
    BY <1>4 DEF OpenDownload, IsLowest, FreeFillers, Typed
  <2>2. ReaderGoes("wait")
    BY <1>4, ReaderMoves DEF OpenDownload, Typed, TypeOK
  <2>3. /\ \A j \in Fillers : j # k => filler'[j] = filler[j]
        /\ filler'[k].pc = "stream" /\ filler'[k].cache = reader.cache
    BY <1>4, FillerSpawned
  <2> QED
    BY <2>1, <2>2, <2>3 DEF ReaderGoes
<1>5. ASSUME NEW lost \in BOOLEAN, OpenFails(lost) PROVE Slot'
  <2>1. reader.pc = "opening" /\ reader.cache \in Caches /\ UNCHANGED filler
    BY <1>5 DEF OpenFails, Typed
  <2>2. ReaderGoes("open_failed")
    BY <1>5, ReaderMoves DEF OpenFails, Typed, TypeOK
  <2>3. \E f \in {"lost", "failed"} : FillGoes(reader.cache, f)
    BY <1>5, <2>1, FillMoves DEF OpenFails, OpenOutcome, SetFill, FillStates, Typed, TypeOK
  <2> QED
    BY <2>1, <2>2, <2>3 DEF ReaderGoes, FillGoes, Typed
<1>6. CASE Reset
  <2>1. reader.pc = "reset" /\ reader.cache \in Caches /\ UNCHANGED filler
    BY <1>6 DEF Reset, Typed
  <2>2. reader'.pc \in {"idle", "ensure"}
    BY <1>6, ResetMoves DEF Idle
  <2>3. CASE cache' = cache
    BY <1>0, <2>1, <2>2, <2>3 DEF SlotFrame
  <2>4. CASE cache[reader.cache].fill = "lost" /\ FillGoes(reader.cache, "idle")
    BY <2>1, <2>2, <2>4 DEF FillGoes, Typed
  <2>5. \/ cache' = cache
        \/ cache[reader.cache].fill = "lost" /\ FillGoes(reader.cache, "idle")
    BY <1>6, <2>1, FillMoves DEF Reset, SetFill, FillStates, Typed, TypeOK
  <2> QED
    BY <2>3, <2>4, <2>5
<1>7. ASSUME NEW k \in Fillers, FillCancelled(k) \/ FillEnd(k) \/ FillError(k) PROVE Slot'
  <2>1. Transferring(k) /\ filler[k].cache \in Caches /\ UNCHANGED reader
    BY <1>7 DEF FillCancelled, FillEnd, FillError, Typed
  <2>2. FillerGoes(k, "ended")
    BY <1>7, FillerMoves DEF FillCancelled, FillEnd, FillError, Typed, TypeOK
  <2>3. \E f \in {"complete", "failed", "lost"} : FillGoes(filler[k].cache, f)
    BY <1>7, <2>1, FillMoves
    DEF FillCancelled, FillEnd, FillError, SetFill, FinalState, FillStates, Typed, TypeOK
  <2> QED
    BY <2>1, <2>2, <2>3 DEF FillerGoes, FillGoes, Typed
<1> QED
  BY <1>0, <1>1, <1>2, <1>3, <1>4, <1>5, <1>6, <1>7, SlotStays
  DEF Next, FuseSteps, FillSteps, Exited

(* A cache has at most one transfer feeding it, and Running while it does, *)
(* and a running fill has someone who will end it: its filler, or the FUSE *)
(* thread that is starting it.                                             *)
THEOREM FillSlotCorrect == Spec => []FillSlotOwned
<1>1. Init => Typed /\ Slot
  BY TypedInit, SlotInit
<1>2. Typed /\ Slot /\ [Next]_vars => Typed' /\ Slot'
  BY TypedStep, SlotStep
<1>3. Slot => FillSlotOwned
  BY DEF Slot
<1> QED
  BY <1>1, <1>2, <1>3, PTL DEF Spec
-----------------------------------------------------------------------------
LEMMA BytesInit == Init => Bytes
BY DEF Init, Bytes, CompleteMeansAll, Stored, Transferring, NewCache, NoFiller

(* Every step keeps the bytes of the transfers. *)
LEMMA BytesStep == Typed /\ Bytes /\ [Next]_vars => Bytes'
<1> SUFFICES ASSUME Typed, Bytes, [Next]_vars PROVE Bytes'
  OBVIOUS
<1> USE DEF Bytes, CompleteMeansAll, Stored, Transferring
<1>1. CASE UNCHANGED <<cache, filler>>
  BY <1>1
<1>2. ASSUME UNCHANGED filler,
             NEW c \in Caches, NEW f \in FillStates \ {"complete"}, FillGoes(c, f)
      PROVE  Bytes'
  BY <1>2 DEF FillGoes, Typed
<1>3. ASSUME NEW c \in Caches, NEW want \in SUBSET Units \ {{}}, ReadBegin(c, want)
      PROVE  Bytes'
  <2>1. CASE cache' = [cache EXCEPT ![c] = NewCache] /\ Unused(c)
    <3>1. \A d \in Caches : /\ d # c => cache'[d] = cache[d]
                            /\ cache'[c].fill = "idle"
      BY <2>1, CacheMade
    <3>2. \A k \in Fillers : filler[k].pc # "off" => filler[k].cache # c
      BY <2>1 DEF Unused
    <3>3. UNCHANGED filler
      BY <1>3 DEF ReadBegin
    <3> QED
      BY <3>1, <3>2, <3>3 DEF Typed
  <2> QED
    BY <1>1, <1>3, <2>1 DEF ReadBegin, IsLowest
<1>4. CASE StartFill \/ Register \/ Reset \/ \E lost \in BOOLEAN : OpenFails(lost)
  <2>1. reader.cache \in Caches /\ UNCHANGED filler
    BY <1>4 DEF StartFill, Register, Reset, OpenFails, Typed
  <2>2. \/ UNCHANGED cache
        \/ \E f \in FillStates \ {"complete"} :
             cache' = [cache EXCEPT ![reader.cache].fill = f]
    BY <1>4 DEF StartFill, Register, Reset, OpenFails, OpenOutcome, Refused, SetFill, FillStates
  <2>3. \/ UNCHANGED cache
        \/ \E f \in FillStates \ {"complete"} : FillGoes(reader.cache, f)
    BY <2>1, <2>2, FillMoves DEF Typed, TypeOK
  <2> QED
    BY <1>1, <1>2, <2>1, <2>3
<1>5. ASSUME NEW k \in Fillers, NEW len \in Lengths, OpenDownload(k, len) PROVE Bytes'
  <2>1. /\ \A j \in Fillers : j # k => filler'[j] = filler[j]
        /\ filler'[k].offset = 0
    BY <1>5, FillerSpawned
  <2>2. UNCHANGED cache
    BY <1>5 DEF OpenDownload
  <2>3. 0 <= Size /\ \A u \in Units : ~(u < 0)
    BY FullFillAssumption DEF Units
  <2>4. \A j \in Fillers : j # k => Stored(j)'
    BY <2>1, <2>2
  <2>5. Stored(k)'
    BY <2>1, <2>3
  <2> QED
    BY <2>2, <2>4, <2>5
<1>6. ASSUME NEW k \in Fillers, FillCancel(k) \/ FillFinished(k) PROVE Bytes'
  <2>1. /\ \E p \in {"cancel", "tail"} : FillerGoes(k, p) /\ (p = "cancel" => Transferring(k))
        /\ UNCHANGED cache
    BY <1>6, FillerMoves DEF FillCancel, FillFinished, Typed, TypeOK
  <2> QED
    BY <2>1 DEF FillerGoes
<1>7. ASSUME NEW k \in Fillers, FillCancelled(k) \/ FillEnd(k) \/ FillError(k) PROVE Bytes'
  <2>1. Transferring(k) /\ filler[k].cache \in Caches
    BY <1>7 DEF FillCancelled, FillEnd, FillError, Typed
  <2>2. FillerGoes(k, "ended")
    BY <1>7, FillerMoves DEF FillCancelled, FillEnd, FillError, Typed, TypeOK
  <2>3. PICK f \in FillStates :
          /\ cache' = [cache EXCEPT ![filler[k].cache].fill = f]
          /\ f = "complete" => ~filler[k].bad /\ filler[k].offset = Size
    BY <1>7 DEF FillCancelled, FillEnd, FillError, SetFill, FinalState, FillStates
  <2>4. FillGoes(filler[k].cache, f)
    BY <2>1, <2>3, FillMoves DEF Typed, TypeOK
  <2>5. f = "complete" => cache[filler[k].cache].got = Units
    <3>1. cache[filler[k].cache].got \subseteq Units
      BY <2>1 DEF Typed, TypeOK, CacheRecords
    <3>2. \A u \in Units : u < Size
      BY FullFillAssumption DEF Units
    <3> QED
      BY <2>1, <2>3, <3>1, <3>2
  <2> QED
    BY <2>1, <2>2, <2>4, <2>5 DEF FillerGoes, FillGoes, Typed
<1>8. ASSUME NEW k \in Fillers, FillChunk(k) PROVE Bytes'
  <2> DEFINE c == filler[k].cache
  <2>1. /\ \A d \in Caches : /\ cache'[d].fill = cache[d].fill
                             /\ cache[d].got \subseteq cache'[d].got
                             /\ cache'[d].got \subseteq Units
        /\ ~filler'[k].bad => cache'[c].got = cache[c].got \cup {filler[k].offset}
        /\ c \in Caches
    <3>1. cache' \in [Caches -> CacheRecords] /\ c \in Caches
      BY <1>8, ChunkMoves DEF FillChunk, Typed
    <3>2. \A d \in Caches : cache'[d].got \subseteq Units
      BY <3>1 DEF CacheRecords
    <3>3. \A d \in Caches :
            /\ cache'[d].fill = cache[d].fill
            /\ cache'[d].got = IF d = filler[k].cache /\ ~filler'[k].bad
                               THEN cache[d].got \cup {filler[k].offset}
                               ELSE cache[d].got
      BY <1>8, ChunkMoves
    <3> QED
      BY <3>1, <3>2, <3>3
  <2>2. /\ \A j \in Fillers : filler'[j].pc = filler[j].pc /\ filler'[j].cache = filler[j].cache
        /\ \A j \in Fillers : j # k => filler'[j] = filler[j]
        /\ filler'[k].offset = filler[k].offset + 1
        /\ ~filler'[k].bad => Fits(filler[k])
    BY <1>8, ChunkMoves
  <2>3. CompleteMeansAll'
    <3>1. ASSUME NEW d \in Caches, cache'[d].fill = "complete" PROVE cache'[d].got = Units
      <4>1. cache[d].fill = "complete"
        BY <2>1, <3>1
      <4>2. cache[d].got = Units
        BY <4>1
      <4>3. cache[d].got \subseteq cache'[d].got /\ cache'[d].got \subseteq Units
        BY <2>1
      <4> QED
        BY <4>2, <4>3
    <3> QED
      BY <3>1
  <2>4. \A j \in Fillers : j # k => Stored(j)'
    BY <2>1, <2>2 DEF Typed
  <2>5. Stored(k)'
    <3> SUFFICES ASSUME Transferring(k)', ~filler'[k].bad
                 PROVE  /\ filler'[k].offset <= Size
                        /\ \A u \in Units : u < filler'[k].offset
                             => u \in cache'[filler'[k].cache].got
      OBVIOUS
    <3>1. Fits(filler[k]) /\ Transferring(k)
      BY <2>2
    <3>2. /\ filler[k].offset \in Units
          /\ \A u \in Units : u < filler[k].offset => u \in cache[c].got
      BY <3>1 DEF Fits
    <3>3. filler'[k].offset <= Size
      BY <2>2, <3>2, FullFillAssumption DEF Units
    <3>4. \A u \in Units : u < filler'[k].offset => u = filler[k].offset \/ u < filler[k].offset
      BY <2>2, <3>2, FullFillAssumption DEF Units
    <3> QED
      BY <2>1, <2>2, <3>1, <3>2, <3>3, <3>4
  <2> QED
    BY <2>3, <2>4, <2>5
<1>9. ASSUME NEW k \in Fillers, FillTail(k) PROVE Bytes'
  BY <1>9, FillerGone DEF FillTail
<1>10. CASE LinkLoss
  BY <1>10, FillersDie DEF LinkLoss
<1>11. CASE StopBegin
  <2>1. \A d \in Caches : cache'[d].fill = cache[d].fill /\ cache'[d].got = cache[d].got
    BY <1>11, CachesStop
  <2>2. UNCHANGED filler
    BY <1>11 DEF StopBegin
  <2> QED
    BY <2>1, <2>2 DEF Typed
<1>12. CASE \/ Open \/ Release \/ LockToOpen \/ OpenFailedFinished \/ WaitAndRead
            \/ RecoverBegin \/ (\E ok \in BOOLEAN : RecoverEnd(ok)) \/ Reconnect
            \/ EventArrives \/ EventHandled \/ StopDone \/ StopTimeout \/ Exit
            \/ UNCHANGED vars
  BY <1>1, <1>12 DEF Open, Release, LockToOpen, OpenFailedFinished, WaitAndRead, RecoverBegin,
     RecoverEnd, Reconnect, EventArrives, EventHandled, StopDone, StopTimeout, Exit, vars
<1> QED
  BY <1>3, <1>4, <1>5, <1>6, <1>7, <1>8, <1>9, <1>10, <1>11, <1>12
  DEF Next, FuseSteps, FillSteps, Exited

(* A fill that calls itself complete has every byte of the file, whatever  *)
(* the lengths of the streams, whichever of its writes to the spool file   *)
(* fail and however fills are started over.                                *)
THEOREM CompleteFillHasAll == Spec => []CompleteMeansAll
<1>1. Init => Typed /\ Bytes
  BY TypedInit, BytesInit
<1>2. Typed /\ Bytes /\ [Next]_vars => Typed' /\ Bytes'
  BY TypedStep, BytesStep
<1>3. Bytes => CompleteMeansAll
  BY DEF Bytes
<1> QED
  BY <1>1, <1>2, <1>3, PTL DEF Spec
-----------------------------------------------------------------------------
LEMMA TrackedInit == Init => Tracked
<1>1. NewCache.fill = "idle" /\ NoFiller.pc = "off" /\ Idle.pc = "idle"
  BY DEF NewCache, NoFiller, Idle
<1> QED
  BY <1>1 DEF Init, Tracked, Transferring

(* Without disconnects, every step keeps the tracker true to the fills. *)
LEMMA TrackedStep ==
  ASSUME MaxLinkLosses = 0 PROVE Typed /\ Slot /\ Tracked /\ [Next]_vars => Tracked'
<1> SUFFICES ASSUME Typed, Slot, Tracked, [Next]_vars PROVE Tracked'
  OBVIOUS
<1> USE DEF Tracked, Transferring
<1>1. CASE Open \/ Release \/ EventArrives \/ EventHandled \/ StopTimeout \/ Exit
             \/ UNCHANGED vars
  BY <1>1 DEF Open, Release, EventArrives, EventHandled, StopTimeout, Exit, vars
<1>2. ASSUME NEW c \in Caches, NEW want \in SUBSET Units \ {{}}, ReadBegin(c, want)
      PROVE  Tracked'
  <2>1. UNCHANGED <<filler, live, link, losses, stopping, mount>> /\ reader'.pc = "ensure"
    BY <1>2 DEF ReadBegin
  <2>2. CASE cache' = cache
    BY <2>1, <2>2
  <2>3. CASE cache' = [cache EXCEPT ![c] = NewCache] /\ Unused(c)
    <3>1. \A d \in Caches : /\ d # c => cache'[d] = cache[d]
                            /\ cache'[c].fill = "idle"
      BY <2>3, CacheMade
    <3>2. \A k \in Fillers : filler[k].pc # "off" => filler[k].cache # c
      BY <2>3 DEF Unused
    <3> QED
      BY <2>1, <3>1, <3>2 DEF Typed
  <2> QED
    BY <1>2, <2>2, <2>3 DEF ReadBegin, IsLowest
<1>3. CASE StartFill
  <2>1. reader.cache \in Caches /\ UNCHANGED <<filler, live, link, losses, stopping, mount>>
    BY <1>3 DEF StartFill, Typed
  <2>2. \/ cache' = cache /\ ReaderGoes("wait")
        \/ /\ cache[reader.cache].fill = "idle"
           /\ FillGoes(reader.cache, "running") /\ ReaderGoes("register")
    BY <1>3, <2>1, ReaderMoves, FillMoves
    DEF StartFill, StartsFill, SetFill, FillStates, Typed, TypeOK
  <2> QED
    BY <2>1, <2>2 DEF ReaderGoes, FillGoes, Typed
<1>4. CASE Register
  <2>1. /\ reader.cache \in Caches /\ live \in [Caches -> Nat]
        /\ UNCHANGED <<filler, link, losses, stopping, mount>>
    BY <1>4 DEF Register, Typed, TypeOK
  <2>2. CASE ~stopping
    <3>1. /\ \A d \in Caches : live[d] > 0 => live'[d] > 0
          /\ live'[reader.cache] > 0 /\ cache' = cache
      BY <1>4, <2>1, <2>2 DEF Register, Registers
    <3>2. ReaderGoes("lock")
      BY <1>4, <2>2, ReaderMoves DEF Register, Registers, Typed, TypeOK
    <3>3. mount = "up"
      BY <2>2
    <3> QED
      BY <2>1, <3>1, <3>2, <3>3 DEF ReaderGoes, Typed
  <2>3. CASE stopping
    <3>1. FillGoes(reader.cache, "failed") /\ ReaderGoes("wait") /\ live' = live
      BY <1>4, <2>1, <2>3, ReaderMoves, FillMoves
      DEF Register, Registers, Refused, FillStates, Typed, TypeOK
    <3> QED
      BY <2>1, <3>1 DEF ReaderGoes, FillGoes, Typed
  <2> QED
    BY <2>2, <2>3
<1>5. CASE LockToOpen
  <2>1. ReaderGoes("opening") /\ reader.pc = "lock"
        /\ UNCHANGED <<cache, filler, live, link, losses, stopping, mount>>
    BY <1>5, ReaderMoves DEF LockToOpen, Typed, TypeOK
  <2> QED
    BY <2>1 DEF ReaderGoes
<1>6. ASSUME NEW k \in Fillers, NEW len \in Lengths, OpenDownload(k, len) PROVE Tracked'
  <2>1. /\ reader.pc = "opening" /\ UNCHANGED <<cache, live, link, losses, stopping, mount>>
        /\ ReaderGoes("wait")
    BY <1>6, ReaderMoves DEF OpenDownload, Typed, TypeOK
  <2>2. /\ \A j \in Fillers : j # k => filler'[j] = filler[j]
        /\ filler'[k].pc = "stream" /\ filler'[k].cache = reader.cache /\ filler'[k].alive
    BY <1>6, FillerSpawned
  <2> QED
    BY <2>1, <2>2 DEF ReaderGoes
<1>7. ASSUME NEW lost \in BOOLEAN, OpenFails(lost) PROVE Tracked'
  <2>1. /\ reader.cache \in Caches /\ ReaderGoes("open_failed")
        /\ UNCHANGED <<filler, live, link, losses, stopping, mount>>
    BY <1>7, ReaderMoves DEF OpenFails, Typed, TypeOK
  <2>2. FillGoes(reader.cache, "failed")
    BY <1>7, <2>1, FillMoves DEF OpenFails, OpenOutcome, SetFill, FillStates, Typed, TypeOK
  <2> QED
    BY <2>1, <2>2 DEF ReaderGoes, FillGoes, Typed
<1>8. CASE OpenFailedFinished
  <2>1. /\ reader.cache \in Caches /\ ReaderGoes("wait")
        /\ cache[reader.cache].fill = "failed"
        /\ UNCHANGED <<cache, filler, link, losses, stopping, mount>>
    BY <1>8, ReaderMoves DEF OpenFailedFinished, Typed, TypeOK
  <2>2. \A d \in Caches : live'[d] = IF d = reader.cache THEN 0 ELSE live[d]
    BY <1>8 DEF OpenFailedFinished, Typed, TypeOK
  <2>3. \A k \in Fillers : Transferring(k) => filler[k].cache # reader.cache
    BY <2>1 DEF Slot, FillSlotOwned, FillSlotExclusive
  <2> QED
    BY <2>1, <2>2, <2>3 DEF ReaderGoes, Typed
<1>9. CASE WaitAndRead
  <2>1. reader.cache \in Caches
    BY <1>9 DEF WaitAndRead, Typed
  <2>2. reader'.pc = "idle" /\ UNCHANGED <<cache, filler, live, link, losses, stopping, mount>>
    BY <1>9, <2>1 DEF WaitAndRead, Idle
  <2> QED
    BY <2>2
<1>10. CASE \/ RecoverBegin \/ (\E ok \in BOOLEAN : RecoverEnd(ok)) \/ Reset
            \/ Reconnect \/ LinkLoss
  <2>1. ~RecoverBegin /\ ~Reset /\ \A ok \in BOOLEAN : ~RecoverEnd(ok)
    BY DEF RecoverBegin, RecoverEnd, Reset
  <2>2. ~Reconnect /\ ~LinkLoss
    BY DEF Reconnect, LinkLoss
  <2> QED
    BY <1>10, <2>1, <2>2
<1>11. ASSUME NEW k \in Fillers, FillCancel(k) PROVE Tracked'
  <2>1. /\ FillerGoes(k, "cancel") /\ filler[k].pc = "stream"
        /\ UNCHANGED <<cache, live, reader, link, losses, stopping, mount>>
    BY <1>11, FillerMoves DEF FillCancel, Typed, TypeOK
  <2> QED
    BY <2>1 DEF FillerGoes
<1>12. ASSUME NEW k \in Fillers, FillCancelled(k) \/ FillEnd(k) \/ FillError(k)
       PROVE  Tracked'
  <2>1. /\ Transferring(k) /\ filler[k].cache \in Caches
        /\ UNCHANGED <<live, reader, link, losses, stopping, mount>>
    BY <1>12 DEF FillCancelled, FillEnd, FillError, Typed
  <2>2. FillerGoes(k, "ended")
    BY <1>12, FillerMoves DEF FillCancelled, FillEnd, FillError, Typed, TypeOK
  <2>3. PICK f \in {"complete", "failed"} : FillGoes(filler[k].cache, f)
    <3>1. filler[k].alive
      BY <2>1
    <3> QED
      BY <1>12, <2>1, <3>1, FillMoves
      DEF FillCancelled, FillEnd, FillError, SetFill, FinalState, FillStates, Typed, TypeOK
  <2>4. reader.pc = "open_failed" => reader.cache # filler[k].cache
    BY <2>1 DEF Slot, FillSlotOwned, FillSlotExclusive
  <2> QED
    BY <2>1, <2>2, <2>3, <2>4 DEF FillerGoes, FillGoes, Typed
<1>13. ASSUME NEW k \in Fillers, FillChunk(k) PROVE Tracked'
  <2>1. /\ \A d \in Caches : cache'[d].fill = cache[d].fill
        /\ \A j \in Fillers : /\ filler'[j].pc = filler[j].pc
                              /\ filler'[j].cache = filler[j].cache
                              /\ filler'[j].alive = filler[j].alive
    BY <1>13, ChunkMoves
  <2>2. UNCHANGED <<live, reader, link, losses, stopping, mount>>
    BY <1>13 DEF FillChunk
  <2> QED
    BY <2>1, <2>2 DEF Typed
<1>14. ASSUME NEW k \in Fillers, FillFinished(k) PROVE Tracked'
  <2>1. /\ FillerGoes(k, "tail") /\ filler[k].pc = "ended" /\ filler[k].cache \in Caches
        /\ UNCHANGED <<cache, reader, link, losses, stopping, mount>>
    BY <1>14, FillerMoves DEF FillFinished, Typed, TypeOK
  <2>2. \A d \in Caches : live'[d] = IF d = filler[k].cache THEN 0 ELSE live[d]
    BY <1>14 DEF FillFinished, Finished, Typed, TypeOK
  <2>3. /\ \A j \in Fillers : Transferring(j) => filler[j].cache # filler[k].cache
        /\ reader.pc \in {"lock", "opening"} => reader.cache # filler[k].cache
    BY <2>1 DEF Slot, FillSlotOwned, FillSlotExclusive, Starting
  <2> QED
    BY <2>1, <2>2, <2>3 DEF FillerGoes, Typed
<1>15. ASSUME NEW k \in Fillers, FillTail(k) PROVE Tracked'
  <2>1. UNCHANGED <<cache, live, reader, link, losses, stopping, mount>>
    BY <1>15 DEF FillTail
  <2>2. /\ \A j \in Fillers : j # k => filler'[j] = filler[j]
        /\ filler'[k].pc = "off"
    BY <1>15, FillerGone DEF FillTail
  <2> QED
    BY <2>1, <2>2
<1>16. CASE StopBegin
  <2>1. \A d \in Caches : cache'[d].fill = cache[d].fill
    BY <1>16, CachesStop
  <2>2. /\ UNCHANGED <<filler, live, reader, link, losses>>
        /\ mount' = "stopping" /\ stopping'
    BY <1>16 DEF StopBegin
  <2> QED
    BY <2>1, <2>2 DEF Typed
<1>17. CASE StopDone
  BY <1>17 DEF StopDone
<1> QED
  BY <1>1, <1>2, <1>3, <1>4, <1>5, <1>6, <1>7, <1>8, <1>9, <1>10, <1>11, <1>12, <1>13,
     <1>14, <1>15, <1>16, <1>17
  DEF Next, FuseSteps, FillSteps, Exited

(* Without a disconnect, stop_and_wait returning true means that no        *)
(* transfer is left to be dropped with the runtime.  The run FillUntracked  *)
(* shows that the hypothesis is needed.                                    *)
THEOREM NoTransferIsDropped ==
  ASSUME MaxLinkLosses = 0 PROVE Spec => []NoTransferDropped
<1>1. Init => Typed /\ Slot /\ Tracked
  BY TypedInit, SlotInit, TrackedInit
<1>2. Typed /\ Slot /\ Tracked /\ [Next]_vars => (Typed /\ Slot /\ Tracked)'
  BY TypedStep, SlotStep, TrackedStep
<1>3. Typed /\ Tracked => NoTransferDropped
  <2> SUFFICES ASSUME Typed, Tracked, mount = "stopped", NEW k \in Fillers, Transferring(k)
               PROVE  FALSE
    BY DEF NoTransferDropped
  <2>1. filler[k].cache \in Caches
    BY DEF Typed, Transferring
  <2> QED
    BY <2>1 DEF Tracked
<1> QED
  BY <1>1, <1>2, <1>3, PTL DEF Spec
-----------------------------------------------------------------------------
(* With a descriptor open, no release, no fill that ends and no reconnect  *)
(* takes the inode's cache away: only an event on the object does.         *)
THEOREM CacheIsKept == Spec => CacheKeptWhileOpen
<1>1. Typed /\ [Next]_vars =>
        [fhs > 0 /\ fhs' > 0 /\ read_cache # None /\ events' = events
           => read_cache' = read_cache]_vars
  <2> SUFFICES ASSUME Typed, Next, fhs > 0, fhs' > 0, read_cache # None, events' = events
               PROVE  read_cache' = read_cache
    BY DEF vars
  <2>1. ~EventHandled
    BY DEF EventHandled
  <2>2. CASE Release
    BY <2>2 DEF Release, Typed, TypeOK
  <2>3. ASSUME NEW k \in Fillers, FillTail(k) PROVE read_cache' = read_cache
    BY <2>3 DEF FillTail, TailDrops, Typed, TypeOK
  <2>4. ASSUME NEW c \in Caches, NEW want \in SUBSET Units \ {{}}, ReadBegin(c, want)
        PROVE  read_cache' = read_cache
    BY <2>4 DEF ReadBegin
  <2>5. ASSUME NEW k \in Fillers, FillSteps(k) PROVE read_cache' = read_cache
    BY <2>5 DEF FillSteps, FillCancel, FillCancelled, FillChunk, FillEnd, FillError, FillFinished
  <2>6. CASE FuseSteps
    BY <2>6 DEF FuseSteps, StartFill, Register, LockToOpen, OpenDownload, OpenFails,
       OpenFailedFinished, WaitAndRead, RecoverBegin, RecoverEnd, Reset
  <2>7. CASE Open \/ Reconnect \/ EventArrives \/ LinkLoss \/ StopBegin \/ StopDone
               \/ StopTimeout \/ Exit \/ Exited
    BY <2>7 DEF Open, Reconnect, EventArrives, LinkLoss, StopBegin, StopDone, StopTimeout,
       Exit, Exited, vars
  <2> QED
    BY <2>1, <2>2, <2>3, <2>4, <2>5, <2>6, <2>7 DEF Next
<1> QED
  BY <1>1, TypedInit, TypedStep, PTL DEF Spec, CacheKeptWhileOpen
=============================================================================
