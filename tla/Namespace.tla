----------------------------- MODULE Namespace ------------------------------
(***************************************************************************)
(* Directories: the FUSE calls that list, create, remove and rename        *)
(* (src/src/fs.rs), the listings the mount keeps, the device's own changes *)
(* and the events that announce them, over a link that may break before or *)
(* after any request and is reopened within a window (Backoff).            *)
(*                                                                         *)
(* The FUSE thread holds `inner` for a whole call.  It interleaves with    *)
(* the device and with the event loops, which take an event without the    *)
(* lock and need the lock to handle it.  The directories are folders of    *)
(* one storage that nobody touches; what they hold comes and goes.  An     *)
(* entry's number and kind are InodeTable's subject and left out here.     *)
(***************************************************************************)
EXTENDS Naturals, Sequences, FiniteSets, SequencesExt, Backoff

CONSTANTS Dirs, Names, None,
          MAX_ATTEMPTS,
          MAX_STALE_RETRIES,
          Timeout,       \* the reconnect window, in quarters of a second
          Renumbers,     \* a new session gives objects new handles
          Refusals,      \* whether requests may fail on a live session
          Capacity,      \* entries that fit in one readdir reply
          Initially,     \* bound: objects on the device when it is mounted
          MaxTurns       \* bound: disconnects, refusals, changes made on the
                         \* device's side, directories read through, and
                         \* creations, removals and renames, taken together

ASSUME NamespaceAssumption ==
  /\ MAX_ATTEMPTS \in Nat \ {0} /\ MAX_STALE_RETRIES \in Nat
  /\ Timeout \in Nat /\ Capacity \in Nat \ {0}
  /\ Renumbers \in BOOLEAN /\ Refusals \in BOOLEAN
  /\ Initially \in Nat /\ MaxTurns \in Nat
  /\ None \notin Dirs /\ {".", ".."} \cap Names = {}

VARIABLES device,  \* objects: directory, name and handle
          next,    \* the next handle the device gives out
          link,    \* the session is alive
          events,  \* the session's events that no loop has taken
          loop,    \* the session's event loop: "polling", "ended", or
                   \* "blocked" on the lock with an event to handle
          late,    \* the events loops of older sessions wait to handle
          kids,    \* each directory's entries, in the order of the table
          loaded,  \* dirs_loaded
          op,      \* the FUSE call under way
          mounted, \* nobody gave up
          stream,  \* a process reading through a directory
          there,   \* names on the device ever since the stream was opened
          calm,    \* no entry left the streamed directory's listing, or was
                   \* replaced in it
          suspect, \* directories that a request answered with an error, or a
                   \* misled event, may have left differing from the table
          turns    \* turns so far

vars == <<device, next, link, events, loop, late, kids, loaded, op, mounted,
          stream, there, calm, suspect, turns>>

Turn == turns < MaxTurns /\ turns' = turns + 1

(* pc: "resolve" the handles, make the "call", or "wait" for the device.   *)
(* tries, stale: what with_recovery counts.  wait: the pauses left; slept, *)
(* total: the time this reconnect, and this FUSE call, has waited.         *)
NoOp == [call |-> "none", dir |-> None, name |-> None, todir |-> None,
         toname |-> None, pc |-> "none", tries |-> 0, stale |-> 0,
         wait |-> Schedule(0), slept |-> 0, total |-> 0]

Idle == op.call = "none"

NoStream == [dir |-> None, offset |-> 0, seen |-> <<>>, ok |-> TRUE,
             ended |-> FALSE]

(* An ObjectAdded or ObjectRemoved names an object; this event is about a  *)
(* whole storage.                                                          *)
StoreEvent == 0

Polling == [pc |-> "polling", event |-> StoreEvent]

Init ==
  /\ \E paths \in SUBSET (Dirs \X Names) :
       /\ IsFiniteSet(paths) /\ Cardinality(paths) \in 1 .. Initially
       /\ \E num \in Injection(paths, 1 .. Cardinality(paths)) :
            device = {[dir |-> p[1], name |-> p[2], handle |-> num[p]] : p \in paths}
  /\ next = Cardinality(device) + 1
  /\ link = TRUE
  /\ events = <<>>
  /\ loop = Polling
  /\ late = {}
  /\ kids = [d \in Dirs |-> <<>>]
  /\ loaded = {}
  /\ op = NoOp
  /\ mounted = TRUE
  /\ stream = NoStream
  /\ there = {}
  /\ calm = TRUE
  /\ suspect = {}
  /\ turns = 0
-----------------------------------------------------------------------------
(* The device. *)
At(d, n) == {o \in device : o.dir = d /\ o.name = n}

WithHandle(h) == {o \in device : o.handle = h}

NamesIn(dev, d) == {o.name : o \in {p \in dev : p.dir = d}}

Listed(d) == {kids[d][i].name : i \in DOMAIN kids[d]}

LosesLink == link /\ link' = FALSE /\ Turn

KeepsLink == UNCHANGED <<link, turns>>

(* A rename takes the place of an entry. *)
Evicts == /\ op.call \in {"rename", "move"}
          /\ op.toname \in Listed(op.todir)
          /\ \A e \in Range(kids'[op.dir]) : e.name # op.name

(* What a process that reads a directory may rely on, kept as history. *)
History ==
  LET opened == stream = NoStream /\ stream' # NoStream
  IN IF stream'.dir = None THEN there' = {} /\ calm' = TRUE
     ELSE /\ there' = IF opened THEN NamesIn(device, stream'.dir)
                      ELSE there \cap NamesIn(device', stream.dir)
          /\ calm' = (opened \/ /\ calm
                                /\ ~(Evicts /\ op.todir = stream.dir)
                                /\ \A e \in Range(kids[stream.dir]) :
                                     \E f \in Range(kids'[stream.dir]) : e.name = f.name)

LinkLoss ==
  /\ LosesLink
  /\ UNCHANGED <<device, next, events, loop, late, kids, loaded, op, mounted,
                 stream, suspect>>
  /\ History

(* Someone adds or removes a file on the device itself, which announces it *)
(* to a session that is alive.                                             *)
Announce(h) == events' = IF link THEN Append(events, h) ELSE events

DeviceAdds(d, n) ==
  /\ Turn
  /\ At(d, n) = {}
  /\ device' = device \cup {[dir |-> d, name |-> n, handle |-> next]}
  /\ next' = next + 1
  /\ Announce(next)
  /\ UNCHANGED <<link, loop, late, kids, loaded, op, mounted, stream, suspect>>
  /\ History

DeviceRemoves(o) ==
  /\ Turn
  /\ device' = device \ {o}
  /\ Announce(o.handle)
  /\ UNCHANGED <<next, link, loop, late, kids, loaded, op, mounted, stream,
                 suspect>>
  /\ History

StoreChanges ==
  /\ link /\ Turn
  /\ Announce(StoreEvent)
  /\ UNCHANGED <<device, next, link, loop, late, kids, loaded, op, mounted,
                 stream, suspect>>
  /\ History
-----------------------------------------------------------------------------
(* The event loops.  next_event needs no lock. *)
LoopTakes ==
  /\ link /\ loop = Polling /\ events # <<>>
  /\ loop' = [pc |-> "blocked", event |-> Head(events)]
  /\ events' = Tail(events)
  /\ UNCHANGED <<device, next, link, late, kids, loaded, op, mounted, stream,
                 suspect, turns>>
  /\ History

(* next_event reports an error: a dead link, or any other. *)
LoopEnds ==
  /\ loop = Polling
  /\ IF link THEN Refusals /\ Turn ELSE UNCHANGED turns
  /\ loop' = [Polling EXCEPT !.pc = "ended"]
  /\ UNCHANGED <<device, next, link, events, late, kids, loaded, op, mounted,
                 stream, suspect>>
  /\ History

(* find_parent_by_handle: the directory of an entry that has the handle,   *)
(* of whatever session.                                                    *)
ParentsOf(h) == {d \in Dirs : \E i \in DOMAIN kids[d] : kids[d][i].handle = h}

KnownOnly(h) == IF ParentsOf(h) = {} THEN {{}} ELSE {{d} : d \in ParentsOf(h)}

(* The directories an event makes the mount forget: the one that holds the *)
(* object, or all when the object is not known.                            *)
Invalidated(h) == IF ParentsOf(h) = {} THEN {Dirs} ELSE {{d} : d \in ParentsOf(h)}

(* The entry found under the event's handle is of an older session, or in  *)
(* a directory that is wrong already.                                      *)
Misled(h, ds) ==
  /\ ds # {}
  /\ \A d \in ds : \/ d \in suspect
                  \/ \A e \in Range(kids[d]) : e.handle = h => ~e.fresh

HandleEvent(h) ==
  \E ds \in Invalidated(h) :
     /\ loaded' = loaded \ ds
     /\ suspect' = IF ds # Dirs /\ Misled(h, ds) THEN suspect \cup (loaded \ ds)
                   ELSE suspect

LoopHandles ==
  /\ Idle
  /\ loop.pc = "blocked"
  /\ HandleEvent(loop.event)
  /\ loop' = Polling
  /\ UNCHANGED <<device, next, link, events, late, kids, op, mounted, stream,
                 turns>>
  /\ History

(* A loop of an older session: it took the event before the reconnect,     *)
(* handles it after, and ends at the epoch check.                          *)
LateLoopHandles(h) ==
  /\ Idle
  /\ h \in late
  /\ HandleEvent(h)
  /\ late' = late \ {h}
  /\ UNCHANGED <<device, next, link, events, loop, kids, op, mounted, stream,
                 turns>>
  /\ History
-----------------------------------------------------------------------------
(* The table. *)
Stales(ks) == [d \in Dirs |-> [i \in DOMAIN ks[d] |->
                                  [ks[d][i] EXCEPT !.fresh = FALSE]]]

Entry(d, n) == CHOOSE e \in Range(kids[d]) : e.name = n

(* The entries of ks with a name in ns, in their order. *)
Retain(ks, ns) ==
  LET at == {i \in DOMAIN ks : ks[i].name \in ns}
  IN [i \in 1 .. Cardinality(at) |->
        ks[CHOOSE k \in at : Cardinality({j \in at : j <= k}) = i]]

Without(ks, n) == Retain(ks, Names \ {n})

SetHandle(d, n, h) ==
  [kids EXCEPT ![d] = [i \in DOMAIN @ |->
      IF @[i].name = n THEN [name |-> n, handle |-> h, fresh |-> TRUE] ELSE @[i]]]

FreshEntry(o) == [name |-> o.name, handle |-> o.handle, fresh |-> TRUE]

ListedObject(d, n) == CHOOSE o \in device : o.dir = d /\ o.name = n

SyncedNewFirst(d, order) ==
  LET kept == Retain(kids[d], NamesIn(device, d))
  IN [i \in DOMAIN order |-> FreshEntry(order[i])]
     \o [i \in DOMAIN kept |-> FreshEntry(ListedObject(d, kept[i].name))]

(* sync_children: an entry still listed keeps its place, the others of the *)
(* listing follow in the device's order, the rest is pruned.               *)
Synced(d, order) ==
  LET kept == Retain(kids[d], NamesIn(device, d))
  IN [i \in DOMAIN kept |-> FreshEntry(ListedObject(d, kept[i].name))]
     \o [i \in DOMAIN order |-> FreshEntry(order[i])]

(* The orders in which a listing may report the objects not known yet. *)
Orders(d) == SetToSeqs({o \in device : o.dir = d /\ o.name \notin Listed(d)})
-----------------------------------------------------------------------------
(* A process reads through a directory: opendir, then readdir until a      *)
(* reply is empty.                                                         *)
Shown(ks) == <<".", "..">> \o [i \in DOMAIN ks |-> ks[i].name]

(* The entries a reply takes up: those from position `offset` on. *)
From(entries, offset) == SubSeq(entries, offset + 1, Len(entries))

Page(ks, ok) ==
  LET rest == From(Shown(ks), stream.offset)
      page == SubSeq(rest, 1, Lesser(Capacity, Len(rest)))
  IN stream' = [dir |-> stream.dir, offset |-> stream.offset + Len(page),
                seen |-> stream.seen \o page, ok |-> stream.ok /\ ok,
                ended |-> page = <<>>]

OpenDir(d) ==
  /\ mounted /\ Idle
  /\ stream = NoStream /\ Turn
  /\ loaded' = loaded \ {d}
  /\ stream' = [NoStream EXCEPT !.dir = d]
  /\ UNCHANGED <<device, next, link, events, loop, late, kids, op, mounted,
                 suspect>>
  /\ History

CloseDir ==
  /\ Idle
  /\ stream.ended
  /\ stream' = NoStream
  /\ UNCHANGED <<device, next, link, events, loop, late, kids, loaded, op,
                 mounted, suspect, turns>>
  /\ History
-----------------------------------------------------------------------------
(* with_recovery around a request of the call under way. *)
Begin(call, d, n, e, m) ==
  op' = [call |-> call, dir |-> d, name |-> n, todir |-> e, toname |-> m,
         pc |-> "resolve", tries |-> 1, stale |-> MAX_STALE_RETRIES,
         wait |-> Schedule(0), slept |-> 0, total |-> 0]

(* The request succeeded and the call has a second one to make. *)
Second(call) ==
  op' = [op EXCEPT !.call = call, !.pc = "resolve", !.tries = 1,
                   !.stale = MAX_STALE_RETRIES]

(* A rename that ends between its two requests. *)
Torn == IF op.call = "move" /\ op.name # op.toname THEN {op.dir} ELSE {}

(* The call answers with an error; load_dir only keeps what it has.  `ds`  *)
(* are the directories in which the failing request left a change.         *)
FailsIn(ds) ==
  /\ op' = NoOp
  /\ suspect' = suspect \cup Torn \cup ds
  /\ IF op.call = "readdir" THEN Page(kids[op.dir], FALSE) ELSE UNCHANGED stream

Fails == FailsIn({})

GivesUp == Fails /\ mounted' = FALSE

(* The session is dead: wait for the device, unless that is off. *)
Reconnect ==
  IF Timeout = 0 THEN GivesUp
  ELSE /\ op' = [op EXCEPT !.pc = "wait", !.wait = Schedule(Timeout), !.slept = 0]
       /\ UNCHANGED <<stream, mounted, suspect>>

(* A stale handle: forget every handle and listing, and try again. *)
Stale ==
  IF op.stale = 0 THEN Fails /\ UNCHANGED <<kids, loaded>>
  ELSE /\ op' = [op EXCEPT !.pc = "resolve", !.stale = @ - 1]
       /\ kids' = Stales(kids)
       /\ loaded' = {}
       /\ UNCHANGED <<stream, suspect>>

AdoptKeepsHandles == kids

AdoptedKids == Stales(kids)

AdoptedListings == {}

(* adopt: a new session and its event loop, no handle or listing trusted.  *)
Adopt ==
  /\ link' = TRUE
  /\ IF Renumbers
     THEN /\ \E num \in Injection(device, 1 .. Cardinality(device)) :
               device' = {[o EXCEPT !.handle = num[o]] : o \in device}
          /\ next' = Cardinality(device) + 1
     ELSE UNCHANGED <<device, next>>
  /\ kids' = AdoptedKids
  /\ loaded' = AdoptedListings
  /\ events' = <<>>
  /\ late' = IF loop.pc = "blocked" THEN late \cup {loop.event} ELSE late
  /\ loop' = Polling

Exhausted == op.tries = MAX_ATTEMPTS

(* One pause, then an attempt to reopen the device, which may still be     *)
(* away.                                                                   *)
WaitStep ==
  /\ op.pc = "wait"
  /\ ~Spent(op.wait)
  /\ LET slept == [op EXCEPT !.wait = After(@), !.slept = @ + Delay(op.wait),
                             !.total = @ + Delay(op.wait)]
     IN \/ /\ op' = slept
           /\ UNCHANGED <<device, next, link, events, loop, late, kids, loaded,
                          suspect, stream>>
        \/ /\ Adopt
           /\ IF Exhausted THEN Fails
              ELSE /\ op' = [slept EXCEPT !.pc = "resolve", !.tries = @ + 1,
                                          !.stale = MAX_STALE_RETRIES]
                   /\ UNCHANGED <<stream, suspect>>
  /\ UNCHANGED <<mounted, turns>>
  /\ History

WaitEnds ==
  /\ op.pc = "wait"
  /\ Spent(op.wait)
  /\ GivesUp
  /\ UNCHANGED <<device, next, link, events, loop, late, kids, loaded, turns>>
  /\ History

NeverStale == TRUE

(* Calls that work on an existing object start from its handle. *)
Resolved == op.call \in {"remove", "rename", "move"} => Entry(op.dir, op.name).fresh

(* ensure_fresh.  A directory's own handle always resolves on a live link. *)
Resolve ==
  /\ op.pc = "resolve"
  /\ \/ /\ Resolved
        /\ op' = [op EXCEPT !.pc = "call"]
        /\ UNCHANGED <<kids, stream, mounted, suspect, turns>>
     \/ /\ ~Resolved /\ link
        /\ \E o \in At(op.dir, op.name) : kids' = SetHandle(op.dir, op.name, o.handle)
        /\ op' = [op EXCEPT !.pc = "call"]
        /\ UNCHANGED <<stream, mounted, suspect, turns>>
     \/ /\ ~Resolved /\ link
        /\ IF At(op.dir, op.name) # {} THEN Refusals /\ Turn ELSE UNCHANGED turns
        /\ Fails
        /\ UNCHANGED <<kids, mounted>>
     \/ /\ ~Resolved /\ ~link
        /\ Reconnect
        /\ UNCHANGED <<kids, turns>>
  /\ UNCHANGED <<device, next, link, events, loop, late, loaded>>
  /\ History

Calling(call) == op.call = call /\ op.pc = "call"

(* A request that ends without its answer may have been carried out or     *)
(* not: `done` is the device when it was.                                  *)
Perhaps(done) ==
  \E now \in {<<device, next>>, done} : device' = now[1] /\ next' = now[2]

(* A request whose session breaks. *)
Breaks(done) ==
  /\ \/ ~link /\ KeepsLink /\ UNCHANGED <<device, next>>
     \/ LosesLink /\ Perhaps(done)
  /\ Reconnect
  /\ UNCHANGED <<kids, loaded>>

(* Where a request changed what the device holds. *)
Altered == {o.dir : o \in (device \ device') \cup (device' \ device)}

(* A request that ends in an error on a live session: one that the device  *)
(* cannot carry out, or any other that it refuses or answers too late, or  *)
(* an upload that fails in its second half, with its object there already. *)
Refuses(possible, done) ==
  /\ link /\ UNCHANGED link
  /\ IF possible THEN Refusals /\ Turn ELSE UNCHANGED turns
  /\ Perhaps(done)
  /\ FailsIn(Altered)
  /\ UNCHANGED <<kids, loaded, mounted>>

(* list_into_table for a lookup or a readdir. *)
List ==
  /\ Calling("lookup") \/ Calling("readdir")
  /\ \/ /\ link /\ KeepsLink
        /\ \E order \in Orders(op.dir) :
             LET ks == Synced(op.dir, order)
             IN /\ kids' = [kids EXCEPT ![op.dir] = ks]
                /\ IF op.call = "readdir" THEN Page(ks, TRUE) ELSE UNCHANGED stream
        /\ loaded' = loaded \cup {op.dir}
        /\ suspect' = suspect \ {op.dir}
        /\ op' = NoOp
        /\ UNCHANGED <<device, next, mounted>>
     \/ Refuses(TRUE, <<device, next>>)
     \/ Breaks(<<device, next>>)
  /\ UNCHANGED <<events, loop, late>>
  /\ History

(* create and mkdir. *)
Create ==
  LET new == [dir |-> op.dir, name |-> op.name, handle |-> next]
      free == At(op.dir, op.name) = {}
      done == IF free THEN <<device \cup {new}, next + 1>> ELSE <<device, next>>
  IN
  /\ Calling("create")
  /\ \/ /\ link /\ KeepsLink /\ free
        /\ device' = done[1] /\ next' = done[2]
        /\ kids' = [kids EXCEPT ![op.dir] = Append(Without(@, op.name), FreshEntry(new))]
        /\ op' = NoOp
        /\ UNCHANGED <<loaded, stream, mounted, suspect>>
     \/ Refuses(free, done)
     \/ Breaks(done)
  /\ UNCHANGED <<events, loop, late>>
  /\ History

Handle == Entry(op.dir, op.name).handle

(* The second request of a rename looks, when it is retried, for the name  *)
(* that the first one has already changed.                                 *)
StrayMove ==
  /\ op.call = "move" /\ op.name # op.toname
  /\ op.tries > 1 \/ op.stale < MAX_STALE_RETRIES

(* Directories whose listing is wrong after a call that went on from a     *)
(* rename torn in two: those it names, and the one of the object it hit.   *)
Spoiled ==
  IF op.dir \in suspect \/ StrayMove
  THEN ({op.dir, op.todir} \cap Dirs) \cup {o.dir : o \in WithHandle(Handle)}
  ELSE {}

(* A request about an object: carried out, refused, its handle stale, or   *)
(* the link broken.                                                        *)
OnHandle(done, allowed, Ok) ==
  LET outcome == IF allowed THEN <<done, next>> ELSE <<device, next>>
  IN
  /\ \/ /\ link /\ KeepsLink /\ allowed /\ WithHandle(Handle) # {}
        /\ device' = done
        /\ Ok
        /\ suspect' = suspect \cup Spoiled
        /\ UNCHANGED <<next, loaded, stream, mounted>>
     \/ /\ link /\ KeepsLink /\ WithHandle(Handle) = {}
        /\ Stale
        /\ UNCHANGED <<device, next, mounted>>
     \/ Refuses(allowed, outcome)
     \/ Breaks(outcome)
  /\ UNCHANGED <<events, loop, late>>
  /\ History

(* unlink and rmdir. *)
Delete ==
  /\ Calling("remove")
  /\ OnHandle(device \ WithHandle(Handle), TRUE,
              /\ kids' = [kids EXCEPT ![op.dir] = Without(@, op.name)]
              /\ op' = NoOp)

Renamed == {[o EXCEPT !.name = op.toname] : o \in WithHandle(Handle)}

Moved == {[o EXCEPT !.dir = op.todir] : o \in WithHandle(Handle)}

(* InodeTable::rename, at the end of either request. *)
TableRename ==
  LET e == [Entry(op.dir, op.name) EXCEPT !.name = op.toname]
      evicted == [kids EXCEPT ![op.todir] = Without(@, op.toname)]
      unlisted == [evicted EXCEPT ![op.dir] = Without(@, op.name)]
  IN kids' = [unlisted EXCEPT ![op.todir] = Append(@, e)]

Rename ==
  /\ Calling("rename")
  /\ OnHandle((device \ WithHandle(Handle)) \cup Renamed,
              \A o \in Renamed : At(o.dir, o.name) = {},
              IF op.todir = op.dir THEN TableRename /\ op' = NoOp
              ELSE Second("move") /\ UNCHANGED kids)

Move ==
  /\ Calling("move")
  /\ OnHandle((device \ WithHandle(Handle)) \cup Moved,
              \A o \in Moved : At(o.dir, o.name) = {},
              TableRename /\ op' = NoOp)
-----------------------------------------------------------------------------
(* The calls, as the kernel makes them: it has looked the names up. *)
Starts == mounted /\ Idle

CallCreate(d, n) ==
  /\ Starts /\ Turn
  /\ n \notin Listed(d)
  /\ Begin("create", d, n, None, None)
  /\ UNCHANGED <<device, next, link, events, loop, late, kids, loaded, mounted,
                 stream, suspect>>
  /\ History

CallRemove(d, n) ==
  /\ Starts /\ Turn
  /\ n \in Listed(d)
  /\ Begin("remove", d, n, None, None)
  /\ UNCHANGED <<device, next, link, events, loop, late, kids, loaded, mounted,
                 stream, suspect>>
  /\ History

CallRename(d, n, e, m) ==
  /\ Starts /\ Turn
  /\ n \in Listed(d)
  /\ <<d, n>> # <<e, m>>
  /\ Begin(IF n # m THEN "rename" ELSE "move", d, n, e, m)
  /\ UNCHANGED <<device, next, link, events, loop, late, kids, loaded, mounted,
                 stream, suspect>>
  /\ History

(* lookup of some name; with the directory loaded it changes nothing. *)
CallLookup(d) ==
  /\ Starts
  /\ d \notin loaded
  /\ Begin("lookup", d, None, None, None)
  /\ UNCHANGED <<device, next, link, events, loop, late, kids, loaded, mounted,
                 stream, suspect, turns>>
  /\ History

CallReadDir ==
  /\ Starts
  /\ stream.dir # None /\ ~stream.ended
  /\ IF stream.dir \in loaded THEN Page(kids[stream.dir], TRUE) /\ UNCHANGED op
     ELSE Begin("readdir", stream.dir, None, None, None) /\ UNCHANGED stream
  /\ UNCHANGED <<device, next, link, events, loop, late, kids, loaded, mounted,
                 suspect, turns>>
  /\ History
-----------------------------------------------------------------------------
FuseStep ==
  \/ Resolve \/ List \/ Create \/ Delete \/ Rename \/ Move
  \/ WaitStep \/ WaitEnds

Next ==
  \/ FuseStep
  \/ \E d \in Dirs, n \in Names :
        \/ CallCreate(d, n) \/ CallRemove(d, n) \/ DeviceAdds(d, n)
        \/ \E e \in Dirs, m \in Names : CallRename(d, n, e, m)
  \/ \E d \in Dirs : CallLookup(d) \/ OpenDir(d)
  \/ CallReadDir \/ CloseDir
  \/ \E o \in device : DeviceRemoves(o)
  \/ StoreChanges
  \/ LoopTakes \/ LoopEnds \/ LoopHandles
  \/ \E h \in late : LateLoopHandles(h)
  \/ LinkLoss

Spec == Init /\ [][Next]_vars

(* A call goes on: the device answers or its session breaks, pauses end. *)
FairSpec == Spec /\ WF_vars(FuseStep)
-----------------------------------------------------------------------------
Objects == [dir : Dirs, name : Names, handle : Nat \ {0}]

Entries == [name : Names, handle : Nat \ {0}, fresh : BOOLEAN]

Calls == {"none", "lookup", "readdir", "create", "remove", "rename", "move"}

Ops == [call : Calls, dir : Dirs \cup {None}, name : Names \cup {None},
        todir : Dirs \cup {None}, toname : Names \cup {None},
        pc : {"none", "resolve", "call", "wait"}, tries : 0 .. MAX_ATTEMPTS,
        stale : 0 .. MAX_STALE_RETRIES, wait : [remaining : Nat, next : Nat],
        slept : Nat, total : Nat]

Streams == [dir : Dirs \cup {None}, offset : Nat,
            seen : Seq(Names \cup {".", ".."}), ok : BOOLEAN, ended : BOOLEAN]

(* Types of the state; the retry budgets are never overdrawn. *)
TypeOK ==
  /\ device \subseteq Objects /\ IsFiniteSet(device)
  /\ next \in Nat \ {0} /\ turns \in 0 .. MaxTurns
  /\ link \in BOOLEAN /\ mounted \in BOOLEAN /\ calm \in BOOLEAN
  /\ events \in Seq(Nat) /\ late \subseteq Nat
  /\ loop \in [pc : {"polling", "blocked", "ended"}, event : Nat]
  /\ kids \in [Dirs -> Seq(Entries)]
  /\ loaded \subseteq Dirs /\ suspect \subseteq Dirs /\ there \subseteq Names
  /\ op \in Ops
  /\ stream \in Streams

(* Device-side changes show: once the session's loop has handled every     *)
(* event, what the mount holds of a loaded directory is what the device    *)
(* has.  (Not where a request took effect on the device and yet answered   *)
(* with an error, nor after an event whose handle an entry of an older     *)
(* session still carries.)                                                 *)
ListingCurrent ==
  Idle /\ link /\ loop = Polling /\ events = <<>> =>
    \A d \in loaded \ suspect :
      {<<e.name, e.handle>> : e \in Range(kids[d])} =
      {<<o.name, o.handle>> : o \in {p \in device : p.dir = d}}

(* Not kept: the same of every directory. *)
NoStaleListing ==
  Idle /\ link /\ loop = Polling /\ events = <<>> =>
    \A d \in loaded : Listed(d) = NamesIn(device, d)

OnDevice(dev, d, e) ==
  \E o \in dev : <<o.dir, o.name, o.handle>> = <<d, e.name, e.handle>>

HasName(ks, e) == \E f \in Range(ks) : f.name = e.name

(* The table follows the device: no call, retried or not, adds an entry    *)
(* whose object is not there, or drops one whose object is.  (Except for a *)
(* StrayMove, and in a directory that is suspect.)                         *)
TableFollowsDevice ==
  [][~StrayMove => \A d \in Dirs \ suspect' :
       /\ \A e \in Range(kids'[d]) : HasName(kids[d], e) \/ OnDevice(device', d, e)
       /\ \A e \in Range(kids[d]) : HasName(kids'[d], e) \/ ~OnDevice(device', d, e)]_vars

Touches(d, n) == \A o \in device \ device' : o.dir = d /\ o.name = n

(* Not kept: a removal or rename touches the object of the path it was     *)
(* called with and no other, its second request too.                       *)
MovesOnlyItsObject ==
  [][op.pc = "call" /\ op' # op /\ op.dir \notin suspect =>
       Touches(op.dir, IF op.call = "move" THEN op.toname ELSE op.name)]_vars

(* A removal or rename, retried across sessions that number their objects  *)
(* anew, touches the object of the path it was called with and no other.   *)
(* (Except for a StrayMove, and in a directory that is suspect.)           *)
TouchesOnlyItsObject ==
  [][op.pc = "call" /\ op' # op /\ ~StrayMove /\ op.dir \notin suspect =>
       Touches(op.dir, IF op.call = "move" THEN op.toname ELSE op.name)]_vars

(* Entries that are there all the time are read exactly once, whatever     *)
(* appears meanwhile and however often the directory is listed anew, as    *)
(* long as no other entry goes.                                            *)
StreamComplete ==
  stream.ended /\ stream.ok /\ calm =>
    /\ \A n \in there : n \in Range(stream.seen)
    /\ \A i, j \in DOMAIN stream.seen : stream.seen[i] = stream.seen[j] => i = j

(* Not kept: the same when entries go. *)
StreamCompleteAnyway ==
  stream.ended /\ stream.ok => \A n \in there : n \in Range(stream.seen)

(* A reconnect waits no longer than its window, and gives up only once it  *)
(* is used up.                                                             *)
WindowKept ==
  /\ op.slept <= Timeout
  /\ op.pc = "wait" /\ Spent(op.wait) => op.slept = Timeout

(* Not kept: no call waits longer than the window. *)
CallWithinWindow == op.total <= Timeout

(* Every call is answered, whatever the device does. *)
CallAnswered == ~Idle ~> Idle
=============================================================================
