------------------------------- MODULE FileIO -------------------------------
(***************************************************************************)
(* The bytes of one file as its descriptors see them: open, read, write,   *)
(* setattr, getattr, create, unlink and release of src/src/fs.rs over the  *)
(* write spools of src/src/buffer.rs, one per descriptor, and the inode's  *)
(* read cache, which all descriptors share.                                *)
(*                                                                         *)
(* Every handler holds `inner` from its first step to its reply, or waits  *)
(* for a fill and then does nothing more, so each is one action here.  A   *)
(* whole-object fill goes on after the read that started it, and the end   *)
(* of its task is a step of its own.  What goes on inside a flush, a       *)
(* ranged fetch or a fill, and the retry of a fill that lost its link, is  *)
(* the subject of Flush, RangedRead and FullFill.                          *)
(* A content is a sequence of bytes; 0 is what a hole reads as.            *)
(***************************************************************************)
EXTENDS Naturals, Sequences, FiniteSetsExt

CONSTANTS Fds,        \* descriptors
          Bytes,      \* the bytes users and the device write, not 0
          Missing,    \* a byte the read cache does not have
          None,
          Partial,    \* the device has a partial-read operation
          Limit,      \* --full-download-limit; 0 lifts it
          Given,      \* the contents that come from the device
          MaxLen,     \* bound: how far writes reach, and fetches bring bytes
          MaxRun,     \* bound: the bytes of a write
          MaxSteps,   \* bound: writes, and changes the device makes by itself
          MaxOrphans  \* bound: fillers whose cache is gone, where a fill starts

(* What a file can hold: a hole reads as 0. *)
Files == Seq(Bytes \cup {0})

(* What the read cache can hold, bytes that have not arrived included. *)
Caches == Seq(Bytes \cup {0, Missing})

(* FileBuffer: its backing file, and the length it believes that has. *)
Spools == [file : Files, len : Nat, dirty : BOOLEAN]

ASSUME FileIOAssumption ==
  /\ {0, Missing} \cap Bytes = {}
  /\ Given \subseteq Seq(Bytes)
  /\ None \notin Nat \cup Files \cup Spools \cup Caches
  /\ Partial \in BOOLEAN
  /\ {Limit, MaxLen, MaxRun, MaxSteps, MaxOrphans} \subseteq Nat

VARIABLES object, \* the content on the device, or None
          entry,  \* the inode: its size, or None
          mode,   \* each descriptor: "closed", "r", "w" or "rw"
          leaked, \* fh_to_inode holds a descriptor nobody was given
          spool,  \* each descriptor's FileBuffer, or None
          cache,  \* the inode's read cache, or None
          fill,   \* its fill: "idle" (no cache, or never filled), "running",
                  \* "ending" (over, its task not), "ended"
          orphans, \* tasks of fills whose cache has left the map
          event,  \* an ObjectInfoChanged about the object is on its way
          outcome, \* the last close's, "none" after an open, "ok" or "eio"
          log,    \* the writes to each spool since it was opened
          since,  \* the contents the object has had in this period of
                  \* being open or being filled
          writes, changes

vars == <<object, entry, mode, leaked, spool, cache, fill, orphans, event,
          outcome, log, since, writes, changes>>

(* with_storage: an empty file. *)
NewSpool == [file |-> <<>>, len |-> 0, dirty |-> FALSE]

NewCache(size) == [i \in 1 .. size |-> Missing]

Init ==
  /\ object \in {None} \cup Given
  /\ entry = IF object = None THEN None ELSE Len(object)
  /\ mode = [f \in Fds |-> "closed"]
  /\ leaked = FALSE
  /\ spool = [f \in Fds |-> None]
  /\ cache = None /\ fill = "idle" /\ orphans = 0
  /\ event = FALSE
  /\ outcome = "none"
  /\ log = [f \in Fds |-> <<>>]
  /\ since = {}
  /\ writes = 0 /\ changes = 0

InUse(fds) == \E f \in fds : mode[f] # "closed"

(* drop_read_cache_if_unused looks for descriptors in fh_to_inode. *)
Held(fds) == leaked \/ InUse(fds)

(* The cache has a task at work on it, which drops it in the end. *)
Filling == fill \in {"running", "ending"}

(* The cache leaves the inode, or stays; its task goes on without it. *)
Keeps(c) ==
  /\ cache' = c
  /\ fill' = IF c = None THEN "idle" ELSE fill
  /\ orphans' = IF c = None /\ Filling THEN orphans + 1 ELSE orphans

(* The contents of a period in which somebody has the file open, or its    *)
(* cache is being filled. *)
Noted == since' = IF (InUse(Fds) \/ Filling)'
                  THEN (since \cup {object'}) \ {None} ELSE {}

StepsLeft == writes + changes < MaxSteps

(* The session serves one transfer: what else needs it waits for the end   *)
(* of a fill.                                                              *)
SessionFree == fill # "running"
-----------------------------------------------------------------------------
read_strategy(size) ==
  IF Partial THEN "ranged"
  ELSE IF Limit = 0 \/ size <= Limit THEN "full"
  ELSE "too_large"

(* open: an object that cannot be read is refused at once (EFBIG), unless  *)
(* it is only to be written.                                               *)
Open(f, m) ==
  /\ mode[f] = "closed" /\ entry # None
  /\ m = "w" \/ read_strategy(entry) # "too_large"
  /\ mode' = [mode EXCEPT ![f] = m]
  /\ outcome' = "none"
  /\ UNCHANGED <<object, entry, leaked, spool, cache, fill, orphans, event, log,
                 writes, changes>>
  /\ Noted

(* create: an empty object, an inode, a descriptor, and then its spool,    *)
(* without which the caller gets an error and no descriptor.  (Only once   *)
(* nobody has an unlinked predecessor open: one inode is modelled.)        *)
Create(f) ==
  /\ entry = None /\ \A g \in Fds : mode[g] = "closed"
  /\ object' = <<>>
  /\ entry' = 0
  /\ SessionFree
  /\ cache' = None /\ fill' = "idle" /\ orphans' = 0
  /\ \/ /\ mode' = [mode EXCEPT ![f] = "rw"]
        /\ spool' = [spool EXCEPT ![f] = NewSpool]
        /\ since' = {<<>>}
        /\ leaked' = FALSE
     \/ /\ leaked' = TRUE
        /\ since' = {}
        /\ UNCHANGED <<mode, spool>>
  /\ outcome' = "none"
  /\ UNCHANGED <<event, log, writes, changes>>

(* unlink, once the device has deleted the object.  An event about an      *)
(* object that is gone finds no entry with its handle and does nothing.    *)
Unlink ==
  /\ entry # None /\ object # None
  /\ SessionFree
  /\ object' = None /\ entry' = None
  /\ event' = FALSE
  /\ UNCHANGED <<mode, leaked, spool, cache, fill, orphans, outcome, log, since,
                 writes, changes>>
-----------------------------------------------------------------------------
(* The spool.  The backing file grows as files do: a gap before what is    *)
(* written reads as zeros.                                                 *)
Put(file, at, data) ==
  [i \in 1 .. Max({Len(file), at + Len(data)}) |->
     IF i > at /\ i <= at + Len(data) THEN data[i - at]
     ELSE IF i <= Len(file) THEN file[i] ELSE 0]

EmptyGrows(data) == FALSE

(* An empty write changes nothing. *)
Empty(data) == data = <<>>

write_at(s, at, data) ==
  IF Empty(data) THEN s
  ELSE [file  |-> IF data = <<>> THEN s.file ELSE Put(s.file, at, data),
        len   |-> Max({s.len, at + Len(data)}),
        dirty |-> TRUE]

(* What of a failed write reached the file: `len` and `dirty` stay. *)
write_fails(s, at, data) ==
  [s EXCEPT !.file = IF data = <<>> THEN @ ELSE Put(@, at, data)]

(* WriteBuffer::open: the descriptor's buffer, a new one if it has none. *)
Buffer(f) == IF spool[f] = None THEN NewSpool ELSE spool[f]

Logged(f, at, data, ok) ==
  log' = [log EXCEPT ![f] = Append(@, [at |-> at, data |-> data, ok |-> ok])]

Write(f, at, data) ==
  /\ mode[f] \in {"w", "rw"} /\ StepsLeft
  /\ spool' = [spool EXCEPT ![f] = write_at(Buffer(f), at, data)]
  /\ Logged(f, at, data, TRUE)
  /\ writes' = writes + 1
  /\ UNCHANGED <<object, entry, mode, leaked, cache, fill, orphans, event,
                 outcome, since, changes>>

(* The write fails after some of it, the disk being full; the spool it has *)
(* opened stays.                                                           *)
WriteFails(f, at, data) ==
  /\ mode[f] \in {"w", "rw"} /\ StepsLeft
  /\ spool' = [spool EXCEPT ![f] = write_fails(Buffer(f), at, data)]
  /\ Logged(f, at, data, FALSE)
  /\ writes' = writes + 1
  /\ UNCHANGED <<object, entry, mode, leaked, cache, fill, orphans, event,
                 outcome, since, changes>>

(* setattr of a size on a descriptor: 0 starts a new, clean spool, or      *)
(* fails to, the old one being closed by then; any other size opens one    *)
(* and leaves it as it is.                                                 *)
Truncated(f, size) == IF size = 0 THEN {NewSpool, None} ELSE {Buffer(f)}

SetSize(f, size) ==
  /\ mode[f] \in {"w", "rw"}
  /\ \E s \in Truncated(f, size) : spool' = [spool EXCEPT ![f] = s]
  /\ log' = IF size = 0 THEN [log EXCEPT ![f] = <<>>] ELSE log
  /\ UNCHANGED <<object, entry, mode, leaked, cache, fill, orphans, event,
                 outcome, since, writes, changes>>

(* getattr: the first descriptor of the inode in the map's order decides   *)
(* whether a spool's length is reported or the entry's.                    *)
Sizes ==
  LET open == {f \in Fds : mode[f] # "closed"} IN
  {spool[f].len : f \in {g \in open : spool[g] # None}} \cup
  (IF open = {} \/ leaked \/ (\E f \in open : spool[f] = None)
   THEN {entry} ELSE {})
-----------------------------------------------------------------------------
(* What of the bytes up to n that arrive cache c keeps, for a fetch from   *)
(* offset from.                                                            *)
Arrived(c, from, n) ==
  [i \in DOMAIN c |->
     IF /\ c[i] = Missing /\ i > from /\ i <= n
        /\ object # None /\ i \in DOMAIN object
     THEN object[i] ELSE c[i]]

(* wait_and_read: the byte at offset at has arrived, or lies past the end. *)
Answered(c, at) == at >= Len(c) \/ c[at + 1] # Missing

(* A read of the whole-object strategy: the fill it starts or joins has    *)
(* answered it or is over, or its download could not be opened; a fill     *)
(* that is over brings no more.                                            *)
FullRead(c, at, n) ==
  IF fill \in {"ending", "ended"} THEN {[cache |-> c, fill |-> fill]}
  ELSE {o \in [cache : {Arrived(c, 0, n)}, fill : {"running", "ending"}] :
          /\ o.fill = "running" => Answered(o.cache, at)
          /\ fill = "idle" => orphans <= MaxOrphans}
       \cup (IF fill = "idle" THEN {[cache |-> c, fill |-> "ended"]} ELSE {})

ReadOutcomes(c, at, n) ==
  CASE read_strategy(entry) = "ranged" ->
         {[cache |-> Arrived(c, at, n), fill |-> fill]}
    [] read_strategy(entry) = "full" -> FullRead(c, at, n)
    [] read_strategy(entry) = "too_large" -> {[cache |-> c, fill |-> fill]}

(* read without a spool, within the file and the limit: the inode's cache, *)
(* or a new one, is filled as far as the device answers.  (What it then    *)
(* serves is what the cache holds.)                                        *)
Read(f, at, n) ==
  /\ mode[f] \in {"r", "rw"} /\ spool[f] = None
  /\ entry # None /\ at < entry
  /\ LET c == IF cache = None THEN NewCache(entry) ELSE cache IN
     \E o \in ReadOutcomes(c, at, n) : cache' = o.cache /\ fill' = o.fill
  /\ UNCHANGED <<object, entry, mode, leaked, spool, orphans, event, outcome, log,
                 since, writes, changes>>

(* The filler goes on, with or without a reader, to the end of its stream  *)
(* or to an error.                                                         *)
Fill(n) ==
  /\ fill = "running"
  /\ cache' = Arrived(cache, 0, n)
  /\ fill' \in {"running", "ending"}
  /\ UNCHANGED <<object, entry, mode, leaked, spool, orphans, event, outcome, log,
                 since, writes, changes>>

(* The end of a filler's task drops the inode's cache if nobody has the    *)
(* file open, be it its own or a later one.                                *)
FillTail ==
  /\ fill = "ending"
  /\ cache' = IF Held(Fds) THEN cache ELSE None
  /\ fill' = IF Held(Fds) THEN "ended" ELSE "idle"
  /\ UNCHANGED <<object, entry, mode, leaked, spool, orphans, event, outcome, log,
                 writes, changes>>
  /\ Noted

OrphanTail ==
  /\ orphans > 0
  /\ IF Held(Fds)
     THEN orphans' = orphans - 1 /\ UNCHANGED <<cache, fill>>
     ELSE /\ cache' = None /\ fill' = "idle"
          /\ orphans' = IF Filling THEN orphans ELSE orphans - 1
  /\ UNCHANGED <<object, entry, mode, leaked, spool, event, outcome, log,
                 writes, changes>>
  /\ Noted

NeverDropped(fds) == cache

(* drop_read_cache_if_unused: a cache whose fill is running stays, and is  *)
(* joined by a reopen.                                                     *)
Dropped(fds) == IF Held(fds) \/ fill = "running" THEN cache ELSE None

(* The upload streams the backing file to its end. *)
Uploaded(s) == s.file

NeverDirty(s) == FALSE

IsDirty(s) == s # None /\ s.dirty

(* release: a dirty spool replaces the object by a new one, unless there   *)
(* is no inode left to flush to or the flush fails, which may have lost    *)
(* the object by then.                                                     *)
Release(f) ==
  LET rest == Fds \ {f} IN
  /\ mode[f] # "closed"
  /\ \/ /\ IsDirty(spool[f]) /\ entry # None /\ SessionFree
        /\ object' = Uploaded(spool[f]) /\ entry' = Len(object')
        /\ outcome' = "ok"
        /\ event' = FALSE
     \/ /\ IsDirty(spool[f]) /\ entry # None => SessionFree
        /\ object' \in {object} \cup (IF IsDirty(spool[f]) THEN {None} ELSE {})
        /\ outcome' = IF IsDirty(spool[f]) THEN "eio" ELSE "ok"
        /\ UNCHANGED <<entry, event>>
  /\ mode' = [mode EXCEPT ![f] = "closed"]
  /\ spool' = [spool EXCEPT ![f] = None]
  /\ log' = [log EXCEPT ![f] = <<>>]
  /\ Keeps(Dropped(rest))
  /\ UNCHANGED <<leaked, writes, changes>>
  /\ Noted
-----------------------------------------------------------------------------
(* The object changes on the device, which says so in an event; a listing  *)
(* brings its size.                                                        *)
DeviceChanges(c) ==
  /\ entry # None /\ object # None /\ StepsLeft
  /\ object' = c
  /\ event' = TRUE
  /\ changes' = changes + 1
  /\ UNCHANGED <<entry, mode, leaked, spool, cache, fill, orphans, outcome, log,
                 writes>>
  /\ Noted

EventHandled ==
  /\ event
  /\ event' = FALSE
  /\ Keeps(None)
  /\ UNCHANGED <<object, entry, mode, leaked, spool, outcome, log, writes,
                 changes>>
  /\ Noted

Relist ==
  /\ entry # None /\ SessionFree
  /\ entry' = IF object = None THEN None ELSE Len(object)
  /\ UNCHANGED <<object, mode, leaked, spool, cache, fill, orphans, event, outcome,
                 log, since, writes, changes>>
-----------------------------------------------------------------------------
(* What a user writes at once: up to MaxRun equal bytes. *)
Runs == UNION {[1 .. n -> {b}] : n \in 0 .. MaxRun, b \in Bytes}

Next ==
  \/ \E f \in Fds :
       \/ \E m \in {"r", "w", "rw"} : Open(f, m)
       \/ Create(f) \/ Release(f)
       \/ \E at \in 0 .. MaxLen - 1, data \in Runs :
            /\ at + Len(data) <= MaxLen
            /\ Write(f, at, data) \/ WriteFails(f, at, data)
       \/ \E size \in {0, 1} : SetSize(f, size)
       \/ \E at \in 0 .. MaxLen - 1, n \in 0 .. MaxLen : Read(f, at, n)
  \/ \E n \in 0 .. MaxLen : Fill(n)
  \/ FillTail \/ OrphanTail
  \/ Unlink \/ EventHandled \/ Relist
  \/ \E c \in Given : DeviceChanges(c)

Spec == Init /\ [][Next]_vars
-----------------------------------------------------------------------------
(* A write to a spool, and whether it succeeded. *)
Logs == [at : Nat, data : Seq(Bytes), ok : BOOLEAN]

(* Types of the object, the inode, the descriptors and the read cache. *)
TypeOK ==
  /\ object \in Files \cup {None}
  /\ entry \in Nat \cup {None}
  /\ mode \in [Fds -> {"closed", "r", "w", "rw"}]
  /\ leaked \in BOOLEAN /\ event \in BOOLEAN
  /\ spool \in [Fds -> Spools \cup {None}]
  /\ cache \in Caches \cup {None}
  /\ fill \in {"idle", "running", "ending", "ended"} /\ orphans \in Nat
  /\ cache = None => fill = "idle"
  /\ outcome \in {"none", "ok", "eio"}
  /\ log \in [Fds -> Seq(Logs)]
  /\ since \subseteq Files
  /\ writes \in Nat /\ changes \in Nat

(* What a file holds after a sequence of writes, by its last writer. *)
Replay(l) ==
  LET ends == {l[k].at + Len(l[k].data) : k \in {j \in DOMAIN l : l[j].data # <<>>}}
      over(i) == {k \in DOMAIN l : i > l[k].at /\ i <= l[k].at + Len(l[k].data)} IN
  [i \in 1 .. Max(ends \cup {0}) |->
     IF over(i) = {} THEN 0
     ELSE LET k == Max(over(i)) IN l[k].data[i - l[k].at]]

(* A spool holds, byte by byte, what was written to it last, zeros in the  *)
(* gaps; and unless a write failed, its length is what getattr and read    *)
(* take it for, whatever mix of writes, empty ones and truncations.        *)
SpoolExact ==
  \A f \in Fds : spool[f] # None =>
    /\ spool[f].file = Replay(log[f])
    /\ (\A k \in DOMAIN log[f] : log[f][k].ok) =>
         spool[f].len = Len(spool[f].file)

(* A close that reports success after a write has replaced the object by   *)
(* exactly what the descriptor wrote, and the entry has its size.          *)
CloseStores ==
  [][\A f \in Fds :
       /\ mode[f] # "closed" /\ mode'[f] = "closed" /\ outcome' = "ok"
       /\ \E k \in DOMAIN log[f] : log[f][k].ok /\ log[f][k].data # <<>>
       => object' = Replay(log[f]) /\ entry' = Len(object')]_vars

(* Not kept, a leaked descriptor holding on to the cache: "reopening a     *)
(* file re-reads it from the device", so that a byte the cache serves has  *)
(* been on the device since the file was last neither open nor, its fill   *)
(* having outlived the last close, being filled.                           *)
ReopenRereads ==
  cache # None /\ entry # None => \A i \in DOMAIN cache :
    cache[i] = Missing \/ \E c \in since : i \in DOMAIN c /\ c[i] = cache[i]

(* Reopening a file re-reads it from the device: no byte is served that is *)
(* older than the oldest open descriptor or, where a reopen joined a fill  *)
(* the last close left running, than the first descriptor before that gap. *)
(* The exception is a create that failed for want of a spool and left its  *)
(* descriptor in fh_to_inode.                                              *)
CacheRecent == leaked \/ ReopenRereads

(* Not kept: what an overwrite through another descriptor replaced is gone *)
(* from the cache too.                                                     *)
CacheCurrent ==
  cache # None /\ entry # None /\ object # None /\ changes = 0 => \A i \in DOMAIN cache :
    cache[i] = Missing \/ (i \in DOMAIN object /\ cache[i] = object[i])

(* Not kept: while a file is being written, getattr reports the writer's   *)
(* size.                                                                   *)
StatSeesWriter ==
  entry # None => \A f \in Fds : IsDirty(spool[f]) => Sizes \subseteq
    {spool[g].len : g \in {h \in Fds : spool[h] # None}}

(* Not kept: closing a descriptor that truncated the file, or failed to    *)
(* write to it, leaves the object as its reads through the spool said.     *)
SpoolIsStored ==
  [][\A f \in Fds :
       /\ mode[f] # "closed" /\ mode'[f] = "closed" /\ outcome' = "ok"
       /\ spool[f] # None
       => object' = spool[f].file]_vars
=============================================================================
