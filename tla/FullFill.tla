------------------------------ MODULE FullFill ------------------------------
(***************************************************************************)
(* Whole-object reads of one file on a device without partial downloads:   *)
(* the read loop of src/src/fs.rs, the shared sparse cache and its filler  *)
(* (src/src/sparse_cache.rs), and the tracker that teardown stops the      *)
(* fillers through (src/src/fill.rs).                                      *)
(*                                                                         *)
(* Actors: the one FUSE thread, the filler tasks and the event loop on the *)
(* runtime's workers, and the thread that tears the mount down.  The       *)
(* `inner` mutex is held across steps by the FUSE thread only (while it    *)
(* opens a download or recovers the link); everyone else's critical        *)
(* section is one step, taken when the mutex is free.  A task that waits   *)
(* for the mutex blocks its worker.  The device's session carries one      *)
(* transfer at a time.                                                     *)
(*                                                                         *)
(* A byte is a unit 0 .. Size - 1, a chunk is one unit.                    *)
(***************************************************************************)
EXTENDS Naturals, FiniteSets

CONSTANTS Size,          \* the size the device advertises
          Lengths,       \* lengths the stream may really have
          Caches,        \* names for SharedSparseCache values
          Fillers,       \* names for filler tasks
          None,          \* no cache
          Workers,       \* worker threads of the tokio runtime
          MaxOpen,       \* bound: file descriptors open at once
          MaxLinkLosses, \* bound: disconnects
          Events         \* whether ObjectInfoChanged events arrive

ASSUME FullFillAssumption ==
  /\ Size \in Nat \ {0}
  /\ Lengths \subseteq Nat
  /\ Workers \in Nat \ {0}
  /\ MaxOpen \in Nat \ {0}
  /\ MaxLinkLosses \in Nat
  /\ Events \in BOOLEAN
  /\ Caches \subseteq Nat /\ Fillers \subseteq Nat
  /\ None \notin Caches

VARIABLES fhs,      \* open descriptors of the inode (fh_to_inode)
          read_cache, \* the inode's cache in read_cache, or None
          cache,    \* each cache: its fill state, populated units, stop flag
          filler,   \* each filler task
          live,     \* FillTracker: entries per cache
          stopping, \* FillTracker: teardown has begun
          reader,   \* the FUSE thread
          events,   \* the event loop: "idle", or "lock" (waits for inner)
          link,     \* the device answers
          losses,   \* disconnects so far
          mount     \* "up", "stopping" (in stop_and_wait), "stopped" or "forced"
                    \* (it returned true, false), "down" (the process ended)

vars == <<fhs, read_cache, cache, filler, live, stopping, reader, events,
          link, losses, mount>>

FillStates == {"idle", "running", "complete", "lost", "failed"}

Units == 0 .. Size - 1

NewCache == [fill |-> "idle", got |-> {}, stop |-> FALSE]

(* pc: off (no task), stream (in or before next_chunk), cancel, ended (the *)
(* fill state is set, the tracker not yet told), tail (wants inner).       *)
NoFiller == [pc |-> "off", cache |-> None, offset |-> 0, length |-> 0,
             bad |-> FALSE, alive |-> FALSE]

Idle == [pc |-> "idle", cache |-> None, want |-> {}, retries |-> 0]

Init ==
  /\ fhs = 0
  /\ read_cache = None
  /\ cache = [c \in Caches |-> NewCache]
  /\ filler = [k \in Fillers |-> NoFiller]
  /\ live = [c \in Caches |-> 0]
  /\ stopping = FALSE
  /\ reader = Idle
  /\ events = "idle"
  /\ link = TRUE
  /\ losses = 0
  /\ mount = "up"
-----------------------------------------------------------------------------
Transferring(k) == filler[k].pc \in {"stream", "cancel"}

(* The session serves one transfer; a transfer of a dead session is not on *)
(* the current one.                                                        *)
SessionFree == \A k \in Fillers : Transferring(k) => ~filler[k].alive

InnerFree == reader.pc \notin {"opening", "recovering"}

(* Workers blocked on the mutex, or between two awaits of a task. *)
Blocked == Cardinality({k \in Fillers : filler[k].pc \in {"ended", "tail"}})
             + (IF events = "lock" THEN 1 ELSE 0)

WorkerFree == Blocked < Workers

(* The daemon tears down while the FUSE thread is still in a callback.  *)
Running == mount # "down"

(* A cache nothing refers to any more is freed; its name can be reused. *)
Unused(c) ==
  /\ read_cache # c
  /\ reader.cache # c
  /\ live[c] = 0
  /\ \A k \in Fillers : filler[k].pc # "off" => filler[k].cache # c

(* Which free name a new cache or task gets makes no difference. *)
IsLowest(x, S) == x \in S /\ \A y \in S : x <= y

FreeFillers == {k \in Fillers : filler[k].pc = "off"}

SetFill(c, f) == cache' = [cache EXCEPT ![c].fill = f]
-----------------------------------------------------------------------------
(* The FUSE thread. *)
Open ==
  /\ Running /\ reader.pc = "idle"
  /\ fhs < MaxOpen
  /\ fhs' = fhs + 1
  /\ UNCHANGED <<read_cache, cache, filler, live, stopping, reader, events,
                 link, losses, mount>>

(* drop_read_cache_if_unused keeps a cache whose fill is running. *)
DropsOnRelease(c) == cache[c].fill # "running"

Release ==
  /\ Running /\ reader.pc = "idle"
  /\ fhs > 0
  /\ fhs' = fhs - 1
  /\ read_cache' = IF fhs' = 0 /\ read_cache # None /\ DropsOnRelease(read_cache)
                   THEN None ELSE read_cache
  /\ UNCHANGED <<cache, filler, live, stopping, reader, events, link, losses, mount>>

(* read: join the inode's cache or create one.  Bound: the names left are  *)
(* enough for its fill and for one more per disconnect still to come.      *)
ReadBegin(c, want) ==
  /\ Running /\ reader.pc = "idle"
  /\ fhs > 0
  /\ Cardinality(FreeFillers) > MaxLinkLosses - losses
  /\ \/ /\ read_cache = c
        /\ UNCHANGED <<read_cache, cache>>
     \/ /\ read_cache = None
        /\ IsLowest(c, {d \in Caches : Unused(d)})
        /\ read_cache' = c
        /\ cache' = [cache EXCEPT ![c] = NewCache]
  /\ reader' = [pc |-> "ensure", cache |-> c, want |-> want, retries |-> 1]
  /\ UNCHANGED <<fhs, filler, live, stopping, events, link, losses, mount>>

StartsAlways(c) == TRUE

(* start_fill claims the single fill slot. *)
StartsFill(c) == cache[c].fill = "idle"

StartFill ==
  /\ Running /\ reader.pc = "ensure"
  /\ IF StartsFill(reader.cache)
     THEN /\ SetFill(reader.cache, "running")
          /\ reader' = [reader EXCEPT !.pc = "register"]
     ELSE /\ reader' = [reader EXCEPT !.pc = "wait"]
          /\ UNCHANGED cache
  /\ UNCHANGED <<fhs, read_cache, filler, live, stopping, events, link, losses, mount>>

RegistersAlways == TRUE

Registers == ~stopping

(* A fill the tracker refused fails, so that nobody waits for it. *)
Refused(c) == [cache EXCEPT ![c].fill = "failed"]

(* FillTracker::register, refused once teardown has begun. *)
Register ==
  /\ Running /\ reader.pc = "register"
  /\ IF Registers
     THEN /\ live' = [live EXCEPT ![reader.cache] = @ + 1]
          /\ reader' = [reader EXCEPT !.pc = "lock"]
          /\ UNCHANGED cache
     ELSE /\ cache' = Refused(reader.cache)
          /\ reader' = [reader EXCEPT !.pc = "wait"]
          /\ UNCHANGED live
  /\ UNCHANGED <<fhs, read_cache, filler, stopping, events, link, losses, mount>>

(* The mutex is taken and kept until the download is open. *)
LockToOpen ==
  /\ Running /\ reader.pc = "lock"
  /\ reader' = [reader EXCEPT !.pc = "opening"]
  /\ UNCHANGED <<fhs, read_cache, cache, filler, live, stopping, events, link,
                 losses, mount>>

(* The session is ours: the download is open and its filler spawned. *)
OpenDownload(k, len) ==
  /\ Running /\ reader.pc = "opening"
  /\ link /\ SessionFree
  /\ IsLowest(k, FreeFillers)
  /\ filler' = [filler EXCEPT ![k] = [pc |-> "stream", cache |-> reader.cache,
                  offset |-> 0, length |-> len, bad |-> FALSE, alive |-> TRUE]]
  /\ reader' = [reader EXCEPT !.pc = "wait"]
  /\ UNCHANGED <<fhs, read_cache, cache, live, stopping, events, link, losses, mount>>

LeavesRunning(lost) == "running"

OpenOutcome(lost) == IF lost THEN "lost" ELSE "failed"

(* The open failed for good: the link never came back, or the device       *)
(* refused.  The cache fails first, then the tracker is told.              *)
OpenFails(lost) ==
  /\ Running /\ reader.pc = "opening"
  /\ IF lost THEN ~link ELSE link /\ SessionFree
  /\ SetFill(reader.cache, OpenOutcome(lost))
  /\ reader' = [reader EXCEPT !.pc = "open_failed"]
  /\ UNCHANGED <<fhs, read_cache, filler, live, stopping, events, link, losses, mount>>

OpenFailedFinished ==
  /\ Running /\ reader.pc = "open_failed"
  /\ live' = [live EXCEPT ![reader.cache] = 0]
  /\ reader' = [reader EXCEPT !.pc = "wait"]
  /\ UNCHANGED <<fhs, read_cache, cache, filler, stopping, events, link, losses, mount>>

(* reconnect, inside with_recovery and under the mutex: the device is back *)
(* on a new session.                                                       *)
Reconnect ==
  /\ Running /\ reader.pc \in {"opening", "recovering"}
  /\ ~link
  /\ link' = TRUE
  /\ UNCHANGED <<fhs, read_cache, cache, filler, live, stopping, reader, events,
                 losses, mount>>

Answered == reader.want \subseteq cache[reader.cache].got

(* wait_and_read: populated bytes win over whatever became of the fill;    *)
(* with the fill running the reader sleeps until the cache changes.        *)
WaitAndRead ==
  /\ Running /\ reader.pc = "wait"
  /\ \/ /\ \/ Answered
           \/ cache[reader.cache].fill \in {"idle", "complete", "failed"}
           \/ cache[reader.cache].fill = "lost" /\ reader.retries = 0
        /\ reader' = Idle
     \/ /\ ~Answered
        /\ cache[reader.cache].fill = "lost" /\ reader.retries > 0
        /\ reader' = [reader EXCEPT !.pc = "recover"]
  /\ UNCHANGED <<fhs, read_cache, cache, filler, live, stopping, events, link,
                 losses, mount>>

(* recover_full_fill_link takes the mutex for as long as recovery takes. *)
RecoverBegin ==
  /\ Running /\ reader.pc = "recover"
  /\ reader' = [reader EXCEPT !.pc = "recovering"]
  /\ UNCHANGED <<fhs, read_cache, cache, filler, live, stopping, events, link,
                 losses, mount>>

RecoverEnd(ok) ==
  /\ Running /\ reader.pc = "recovering"
  /\ IF ok THEN link /\ SessionFree ELSE ~link \/ SessionFree
  /\ reader' = IF ok THEN [reader EXCEPT !.pc = "reset"] ELSE Idle
  /\ UNCHANGED <<fhs, read_cache, cache, filler, live, stopping, events, link,
                 losses, mount>>

(* reset_after_link_loss: one more fill, from byte zero. *)
Reset ==
  /\ Running /\ reader.pc = "reset"
  /\ IF cache[reader.cache].fill = "lost"
     THEN /\ SetFill(reader.cache, "idle")
          /\ reader' = [reader EXCEPT !.pc = "ensure", !.retries = @ - 1]
     ELSE /\ reader' = Idle
          /\ UNCHANGED cache
  /\ UNCHANGED <<fhs, read_cache, filler, live, stopping, events, link, losses, mount>>
-----------------------------------------------------------------------------
(* A filler task: fill_from_stream and the code after it. *)
StopRequested(c) == cache[c].stop

(* The stop flag is looked at before each chunk: cancel the transfer. *)
FillCancel(k) ==
  /\ Running /\ WorkerFree
  /\ filler[k].pc = "stream"
  /\ StopRequested(filler[k].cache)
  /\ filler' = [filler EXCEPT ![k].pc = "cancel"]
  /\ UNCHANGED <<fhs, read_cache, cache, live, stopping, reader, events, link,
                 losses, mount>>

FillCancelled(k) ==
  /\ Running /\ WorkerFree
  /\ filler[k].pc = "cancel"
  /\ SetFill(filler[k].cache, "failed")
  /\ filler' = [filler EXCEPT ![k].pc = "ended"]
  /\ UNCHANGED <<fhs, read_cache, live, stopping, reader, events, link, losses, mount>>

(* write_sequential takes a chunk of a running fill, inside the advertised  *)
(* size, unless an earlier one failed: from then on the stream is drained.  *)
Fits(f) ==
  /\ cache[f.cache].fill = "running"
  /\ f.offset \in Units
  /\ ~f.bad

(* A chunk arrives, and is counted whether or not it could be kept: its    *)
(* write to the spool file may fail (~ok), and bytes past the advertised   *)
(* size are dropped.  Either is remembered as a failure.                   *)
FillChunk(k) == \E ok \in BOOLEAN :
  LET f == filler[k]
      stored == Fits(f) /\ ok
  IN
  /\ Running /\ WorkerFree
  /\ f.pc = "stream" /\ f.alive
  /\ f.offset < f.length
  /\ IF stored
     THEN cache' = [cache EXCEPT ![f.cache].got = @ \cup {f.offset}]
     ELSE UNCHANGED cache
  /\ filler' = [filler EXCEPT ![k].offset = @ + 1,
                              ![k].bad = ~stored]
  /\ UNCHANGED <<fhs, read_cache, live, stopping, reader, events, link, losses, mount>>

LengthIsEnough(f) == IF f.offset = Size THEN "complete" ELSE "failed"

(* A failed write fails the fill; finish rejects a stream of the wrong     *)
(* length.                                                                 *)
FinalState(f) == IF ~f.bad /\ f.offset = Size THEN "complete" ELSE "failed"

FillEnd(k) ==
  /\ Running /\ WorkerFree
  /\ filler[k].pc = "stream" /\ filler[k].alive
  /\ filler[k].offset = filler[k].length
  /\ SetFill(filler[k].cache, FinalState(filler[k]))
  /\ filler' = [filler EXCEPT ![k].pc = "ended"]
  /\ UNCHANGED <<fhs, read_cache, live, stopping, reader, events, link, losses, mount>>

(* The stream reports an error: the link is gone, or the device gave up on *)
(* the transfer.                                                           *)
FillError(k) ==
  /\ Running /\ WorkerFree
  /\ filler[k].pc = "stream"
  /\ SetFill(filler[k].cache, IF filler[k].alive THEN "failed" ELSE "lost")
  /\ filler' = [filler EXCEPT ![k].pc = "ended"]
  /\ UNCHANGED <<fhs, read_cache, live, stopping, reader, events, link, losses, mount>>

ForgetsToFinish(c) == live

(* FillTracker::finished drops every entry of the cache. *)
Finished(c) == [live EXCEPT ![c] = 0]

FillFinished(k) ==
  /\ Running
  /\ filler[k].pc = "ended"
  /\ live' = Finished(filler[k].cache)
  /\ filler' = [filler EXCEPT ![k].pc = "tail"]
  /\ UNCHANGED <<fhs, read_cache, cache, stopping, reader, events, link, losses, mount>>

TailDropsAlways == TRUE

TailNeverDrops == FALSE

TailDrops == fhs = 0

(* Under the mutex: with no descriptor open, the inode's entry goes.       *)
FillTail(k) ==
  /\ Running /\ InnerFree
  /\ filler[k].pc = "tail"
  /\ read_cache' = IF TailDrops THEN None ELSE read_cache
  /\ filler' = [filler EXCEPT ![k] = NoFiller]
  /\ UNCHANGED <<fhs, cache, live, stopping, reader, events, link, losses, mount>>
-----------------------------------------------------------------------------
(* ObjectInfoChanged for this object drops its cache. *)
EventArrives ==
  /\ Events
  /\ Running /\ link /\ WorkerFree
  /\ events = "idle"
  /\ events' = "lock"
  /\ UNCHANGED <<fhs, read_cache, cache, filler, live, stopping, reader, link,
                 losses, mount>>

EventHandled ==
  /\ Running /\ InnerFree
  /\ events = "lock"
  /\ events' = "idle"
  /\ read_cache' = None
  /\ UNCHANGED <<fhs, cache, filler, live, stopping, reader, link, losses, mount>>

(* The device goes away; transfers of its session die with it. *)
LinkLoss ==
  /\ Running /\ link /\ losses < MaxLinkLosses
  /\ link' = FALSE
  /\ losses' = losses + 1
  /\ filler' = [k \in Fillers |-> [filler[k] EXCEPT !.alive = FALSE]]
  /\ UNCHANGED <<fhs, read_cache, cache, live, stopping, reader, events, mount>>

Stops(c) == live[c] > 0

(* stop_and_wait: no new fill from now on, and the live ones are told. *)
StopBegin ==
  /\ mount = "up"
  /\ mount' = "stopping"
  /\ stopping' = TRUE
  /\ cache' = [c \in Caches |-> [cache[c] EXCEPT !.stop = @ \/ Stops(c)]]
  /\ UNCHANGED <<fhs, read_cache, filler, live, reader, events, link, losses>>

(* It returns true once no fill is live. *)
StopDone ==
  /\ mount = "stopping"
  /\ \A c \in Caches : live[c] = 0
  /\ mount' = "stopped"
  /\ UNCHANGED <<fhs, read_cache, cache, filler, live, stopping, reader, events,
                 link, losses>>

(* It gives up after its timeout. *)
StopTimeout ==
  /\ mount = "stopping"
  /\ \E c \in Caches : live[c] > 0
  /\ mount' = "forced"
  /\ UNCHANGED <<fhs, read_cache, cache, filler, live, stopping, reader, events,
                 link, losses>>

(* The runtime is dropped with the process. *)
Exit ==
  /\ mount \in {"stopped", "forced"}
  /\ mount' = "down"
  /\ UNCHANGED <<fhs, read_cache, cache, filler, live, stopping, reader, events,
                 link, losses>>

Exited ==
  /\ mount = "down"
  /\ UNCHANGED vars
-----------------------------------------------------------------------------
FuseSteps ==
  \/ StartFill \/ Register \/ LockToOpen
  \/ \E k \in Fillers, len \in Lengths : OpenDownload(k, len)
  \/ \E lost \in BOOLEAN : OpenFails(lost)
  \/ OpenFailedFinished
  \/ WaitAndRead \/ RecoverBegin
  \/ \E ok \in BOOLEAN : RecoverEnd(ok)
  \/ Reset

FillSteps(k) ==
  FillCancel(k) \/ FillCancelled(k) \/ FillChunk(k) \/ FillEnd(k)
    \/ FillError(k) \/ FillFinished(k)

Next ==
  \/ Open \/ Release
  \/ \E c \in Caches, want \in SUBSET Units \ {{}} : ReadBegin(c, want)
  \/ FuseSteps
  \/ Reconnect
  \/ \E k \in Fillers : FillSteps(k) \/ FillTail(k)
  \/ EventArrives \/ EventHandled
  \/ LinkLoss
  \/ StopBegin \/ StopDone \/ StopTimeout
  \/ Exit \/ Exited

Spec == Init /\ [][Next]_vars

(* The FUSE thread runs, the device answers or errors, tasks that can run  *)
(* are polled, and the mutex is not withheld from a waiter for ever.       *)
(* Nothing is assumed of users, of events, of disconnects, of reconnecting *)
(* or of teardown, whose timeout never has to fire.                        *)
Fairness ==
  /\ WF_vars(FuseSteps)
  /\ \A k \in Fillers : WF_vars(FillSteps(k)) /\ SF_vars(FillTail(k))
  /\ SF_vars(EventHandled)
  /\ WF_vars(StopDone)

FairSpec == Spec /\ Fairness
-----------------------------------------------------------------------------
CacheRecords == [fill : FillStates, got : SUBSET Units, stop : BOOLEAN]

FillerRecords ==
  [pc : {"off", "stream", "cancel", "ended", "tail"}, cache : Caches \cup {None},
   offset : Nat, length : Lengths \cup {0}, bad : BOOLEAN, alive : BOOLEAN]

ReaderRecords ==
  [pc : {"idle", "ensure", "register", "lock", "opening", "open_failed", "wait",
         "recover", "recovering", "reset"},
   cache : Caches \cup {None}, want : SUBSET Units, retries : 0 .. 1]

(* Types of the shared state and of the actors' program counters. *)
TypeOK ==
  /\ fhs \in 0 .. MaxOpen
  /\ read_cache \in Caches \cup {None}
  /\ cache \in [Caches -> CacheRecords]
  /\ filler \in [Fillers -> FillerRecords]
  /\ live \in [Caches -> Nat]
  /\ stopping \in BOOLEAN
  /\ reader \in ReaderRecords
  /\ events \in {"idle", "lock"}
  /\ link \in BOOLEAN
  /\ losses \in 0 .. MaxLinkLosses
  /\ mount \in {"up", "stopping", "stopped", "forced", "down"}

(* The fill slot is exclusive: a cache has at most one transfer feeding    *)
(* it, and while one does its state is Running, so no chunk is refused and *)
(* no reader is told the fill is over.                                     *)
FillSlotExclusive ==
  /\ \A k \in Fillers : Transferring(k) => cache[filler[k].cache].fill = "running"
  /\ \A j, k \in Fillers :
        Transferring(j) /\ Transferring(k) /\ filler[j].cache = filler[k].cache
          => j = k

(* A fill that calls itself complete has every byte, so wait_and_read      *)
(* never ends on "completed without the requested range".                  *)
CompleteMeansAll ==
  \A c \in Caches : cache[c].fill = "complete" => cache[c].got = Units

(* The fill slot and its owner: exclusive, and a running fill always has   *)
(* someone who will end it, its filler or the FUSE thread that is starting *)
(* it.  Otherwise a reader sleeps for ever.                                *)
FillSlotOwned ==
  /\ FillSlotExclusive
  /\ \A c \in Caches : cache[c].fill = "running" =>
       \/ \E k \in Fillers : Transferring(k) /\ filler[k].cache = c
       \/ reader.cache = c /\ reader.pc \in {"register", "lock", "opening"}

(* With a descriptor open, nothing but an event on the object takes the    *)
(* inode's cache away.                                                     *)
CacheKeptWhileOpen ==
  [][fhs > 0 /\ fhs' > 0 /\ read_cache # None /\ events' = events
       => read_cache' = read_cache]_vars

(* stop_and_wait returning true means no transfer is left to be dropped    *)
(* with the runtime, and none starts afterwards.                           *)
NoTransferDropped ==
  mount = "stopped" => \A k \in Fillers : ~Transferring(k)

(* The entry of a running fill stays in read_cache, so that a reopen joins *)
(* it (an event on the object excepted).                                   *)
RunningFillIsJoinable ==
  [][read_cache # None /\ cache[read_cache].fill = "running" /\ events' = events
       => read_cache' = read_cache]_vars

(* The FUSE thread never waits, with the mutex held, for a session whose   *)
(* transfer cannot go on because every worker waits for that mutex.        *)
NeverWedged ==
  ~ /\ Running
    /\ reader.pc \in {"opening", "recovering"}
    /\ link /\ ~SessionFree
    /\ Blocked >= Workers
    /\ \A k \in Fillers : filler[k].pc # "ended"

(* Every read is answered, with data or an error. *)
ReadAnswered == reader.pc # "idle" ~> reader.pc = "idle" \/ ~Running

(* Once teardown has asked, the live fills end without the timeout. *)
StopEnds == mount = "stopping" ~> mount # "stopping"

(* A cache nobody has open is dropped: after its fill at the latest. *)
CacheReclaimed ==
  fhs = 0 /\ read_cache # None ~> fhs > 0 \/ read_cache = None \/ ~Running
=============================================================================
