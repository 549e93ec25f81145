------------------------------- MODULE Flush --------------------------------
(***************************************************************************)
(* Overwriting one file of a folder: the write spool (src/src/buffer.rs),  *)
(* the flush on close and the recovery around it (src/src/fs.rs), against  *)
(* a device that may disconnect at any step, lose the reply of a step it   *)
(* has carried out, renumber its objects, or refuse a request.             *)
(*                                                                         *)
(* The FUSE thread holds `inner` for the whole flush, so the only actor it *)
(* interleaves with is the device.  The folder is a storage root and also  *)
(* holds a bystander, a file nobody writes to.  Names are numbers: the     *)
(* file starts as name 0, and Temp(n) is the temp_upload_name of n.        *)
(***************************************************************************)
EXTENDS Naturals, FiniteSets

CONSTANTS Fds,               \* descriptors a user opens on the file
          Data,              \* contents a user writes, each at most once
          Original,          \* the file's content before any write
          Partial,           \* the content of a half-written object
          Bystander,         \* the bystander's name and content
          Closed, Clean,     \* a closed descriptor; an open one, nothing dirty
          None,
          SupportsRename,    \* the device can rename objects
          MAX_ATTEMPTS,
          MAX_STALE_RETRIES,
          Refusals,          \* whether the device may refuse a request
          Remounts,          \* whether the mount may be restarted
          MaxLosses,         \* bound: disconnects
          MaxRekeys          \* bound: objects the device renumbers

(* Inode entries: the file's name, the name it is indexed under, its handle. *)
Entries == [name : Nat, key : Nat, handle : Nat]

ASSUME FlushAssumption ==
  /\ SupportsRename \in BOOLEAN /\ Refusals \in BOOLEAN /\ Remounts \in BOOLEAN
  /\ MAX_ATTEMPTS \in Nat \ {0}
  /\ MAX_STALE_RETRIES \in Nat
  /\ MaxLosses \in Nat /\ MaxRekeys \in Nat
  /\ {Original, Partial, Bystander, Closed, Clean, None} \cap Data = {}
  /\ Partial \notin {Original, Bystander}
  /\ Original # Bystander
  /\ Bystander \notin Nat
  /\ None \notin Entries

VARIABLES device,  \* the folder's objects on the device
          next,    \* the next object handle of the current session
          link,    \* the session is alive
          entry,   \* the file's inode entry, or None once it is pruned
          fresh,   \* the entry's generation is the table's
          spool,   \* each descriptor: Closed, Clean, or what is to be flushed
          flush,   \* the flush under way
          acked,   \* the content of the last close that reported success
          outcome, \* the last flush's: "none" so far, "ok", "failed", or
                   \* "gave_up" (the mount asks to be taken down)
          refused, \* the device has refused a request
          written, losses, rekeys \* contents, disconnects, renumberings so far

vars == <<device, next, link, entry, fresh, spool, flush, acked, outcome,
          refused, written, losses, rekeys>>

user == <<spool, written>>

Temp(n) == n + 1

(* pc: the step the flush is at.  tries, stale: what with_recovery counts. *)
(* new: the uploaded object's handle.                                      *)
NoFlush == [pc |-> "idle", data |-> None, tries |-> 0, stale |-> 0,
            retry |-> FALSE, new |-> 0]

Idle == flush.pc = "idle"

Init ==
  /\ device = {[handle |-> 1, name |-> 0, data |-> Original],
               [handle |-> 2, name |-> Bystander, data |-> Bystander]}
  /\ next = 3
  /\ link = TRUE
  /\ entry = [name |-> 0, key |-> 0, handle |-> 1]
  /\ fresh = TRUE
  /\ spool = [f \in Fds |-> Closed]
  /\ flush = NoFlush
  /\ acked = Original
  /\ outcome = "none"
  /\ refused = FALSE
  /\ written = {}
  /\ losses = 0
  /\ rekeys = 0
-----------------------------------------------------------------------------
(* The device.  A request is answered, refused, or its session dies before *)
(* or after it was carried out.                                            *)
Named(n) == {o \in device : o.name = n}

WithHandle(h) == {o \in device : o.handle = h}

Object(h, n, d) == [handle |-> h, name |-> n, data |-> d]

LosesLink == link /\ losses < MaxLosses /\ link' = FALSE /\ losses' = losses + 1

KeepsLink == UNCHANGED <<link, losses>>

(* The device turns down a request it cannot carry out, or any other. *)
TurnsDown(possible) == IF possible THEN Refusals /\ refused' = TRUE
                       ELSE UNCHANGED refused

Answers == UNCHANGED refused

LinkLoss ==
  /\ LosesLink
  /\ UNCHANGED <<device, next, entry, fresh, user, flush, acked, outcome,
                 refused, rekeys>>

(* A media rescan gives an object a new handle; the session stays. *)
Rekey(o) ==
  /\ link /\ rekeys < MaxRekeys
  /\ device' = (device \ {o}) \cup {[o EXCEPT !.handle = next]}
  /\ next' = next + 1
  /\ rekeys' = rekeys + 1
  /\ UNCHANGED <<link, losses, entry, fresh, user, flush, acked, outcome,
                 refused>>

AdoptKeepsGeneration == fresh

(* adopt bumps the table's generation: no cached handle is trusted. *)
AdoptFresh == FALSE

(* A reopened device: a new session, whose handles start afresh. *)
Adopt ==
  /\ ~link
  /\ link' = TRUE
  /\ \E num \in [device -> 1 .. Cardinality(device)] :
       /\ \A o, p \in device : num[o] = num[p] => o = p
       /\ device' = {[o EXCEPT !.handle = num[o]] : o \in device}
  /\ next' = Cardinality(device) + 1
  /\ fresh' = AdoptFresh
  /\ UNCHANGED losses
-----------------------------------------------------------------------------
(* The user's calls, served between flushes. *)
Open(f) ==
  /\ Idle /\ entry # None
  /\ spool[f] = Closed
  /\ spool' = [spool EXCEPT ![f] = Clean]
  /\ UNCHANGED <<device, next, link, losses, entry, fresh, flush, acked, outcome, refused, written, rekeys>>

Write(f, d) ==
  /\ Idle
  /\ spool[f] # Closed
  /\ d \notin written
  /\ spool' = [spool EXCEPT ![f] = d]
  /\ written' = written \cup {d}
  /\ UNCHANGED <<device, next, link, losses, entry, fresh, flush, acked, outcome, refused, rekeys>>

(* setattr to size 0 on a descriptor: a new spool, which is not dirty. *)
Truncate(f) ==
  /\ Idle
  /\ spool[f] \in Data
  /\ spool' = [spool EXCEPT ![f] = Clean]
  /\ UNCHANGED <<device, next, link, losses, entry, fresh, flush, acked, outcome, refused, written, rekeys>>

(* release and flush_to_mtp: a clean spool, or a pruned inode, needs no    *)
(* device.                                                                 *)
Release(f) ==
  /\ Idle
  /\ spool[f] # Closed
  /\ spool' = [spool EXCEPT ![f] = Closed]
  /\ IF spool[f] = Clean THEN UNCHANGED <<flush, outcome>>
     ELSE IF entry = None THEN UNCHANGED flush /\ outcome' = "failed"
     ELSE /\ flush' = [NoFlush EXCEPT !.pc = "resolve", !.data = spool[f],
                         !.tries = 1, !.stale = MAX_STALE_RETRIES]
          /\ outcome' = "none"
  /\ UNCHANGED <<device, next, link, losses, entry, fresh, acked, refused, written, rekeys>>

(* A re-listing of the folder: the inode indexed under a listed name takes *)
(* that object's handle; an inode whose own name is not listed is pruned.  *)
Relist ==
  /\ Idle /\ link /\ entry # None
  /\ IF Named(entry.name) = {}
     THEN entry' = None /\ UNCHANGED fresh
     ELSE IF Named(entry.key) = {} THEN UNCHANGED <<entry, fresh>>
     ELSE \E o \in Named(entry.key) :
            entry' = [entry EXCEPT !.handle = o.handle] /\ fresh' = TRUE
  /\ UNCHANGED <<device, next, link, losses, user, flush, acked, outcome,
                 refused, rekeys>>

(* A listing gives an object whose inode was pruned a new one, and the     *)
(* user goes on with the object that holds their data.                     *)
Reappears(o) ==
  /\ Idle /\ link /\ entry = None
  /\ \A f \in Fds : spool[f] = Closed
  /\ o.data = acked
  /\ entry' = [name |-> o.name, key |-> o.name, handle |-> o.handle]
  /\ fresh' = TRUE
  /\ UNCHANGED <<device, next, link, losses, user, flush, acked, outcome, refused, rekeys>>

(* The mount is restarted, its inode table built from the listing, and the *)
(* user opens one of the folder's objects.                                 *)
Remount(o) ==
  /\ Remounts
  /\ Idle /\ link
  /\ \A f \in Fds : spool[f] = Closed
  /\ o.name # Bystander
  /\ entry' = [name |-> o.name, key |-> o.name, handle |-> o.handle]
  /\ fresh' = TRUE
  /\ UNCHANGED <<device, next, link, losses, user, flush, acked, outcome, refused, rekeys>>

(* Any other operation that finds the session dead. *)
RecoverElsewhere ==
  /\ Idle
  /\ Adopt
  /\ UNCHANGED <<entry, user, flush, acked, outcome, refused, rekeys>>
-----------------------------------------------------------------------------
(* How an attempt ends: with_recovery around flush_once. *)
End(result) ==
  /\ flush' = NoFlush
  /\ acked' = IF result = "ok" THEN flush.data ELSE acked
  /\ outcome' = result

Goes(pc) == flush' = [flush EXCEPT !.pc = pc] /\ UNCHANGED <<acked, outcome>>

StaleBudgetSpent == flush.stale = 0

(* A stale handle: re-resolve by path and try again, within its budget. *)
Stale ==
  IF StaleBudgetSpent THEN End("failed") /\ UNCHANGED fresh
  ELSE /\ flush' = [flush EXCEPT !.pc = "resolve", !.stale = @ - 1,
                                 !.retry = TRUE]
       /\ fresh' = FALSE
       /\ UNCHANGED <<acked, outcome>>

OneAttempt == TRUE

Exhausted == flush.tries = MAX_ATTEMPTS

LostIsOk == "ok"

LostForGood == "failed"

Reconnected ==
  /\ flush.pc = "reconnect"
  /\ Adopt
  /\ IF Exhausted THEN End(LostForGood)
     ELSE /\ flush' = [flush EXCEPT !.pc = "resolve", !.tries = @ + 1,
                         !.stale = MAX_STALE_RETRIES, !.retry = TRUE]
          /\ UNCHANGED <<acked, outcome>>
  /\ UNCHANGED <<entry, user, refused, rekeys>>

(* Reconnecting is off, or its window ran out. *)
GiveUp ==
  /\ flush.pc = "reconnect"
  /\ End("gave_up")
  /\ UNCHANGED <<device, next, link, losses, entry, fresh, user, refused, rekeys>>

DeleteFirst == "delete"

FirstStep == IF SupportsRename THEN "upload" ELSE "delete"

NoPurge == FirstStep

(* A retry clears what an earlier attempt may have left behind. *)
AfterResolve == IF flush.retry /\ SupportsRename THEN "purge" ELSE FirstStep

(* ensure_fresh: the handle as cached, or the one found under the name. *)
Resolve ==
  /\ flush.pc = "resolve"
  /\ \/ /\ fresh
        /\ flush' = [flush EXCEPT !.pc = AfterResolve]
        /\ Answers
        /\ UNCHANGED <<entry, fresh, acked, outcome>>
     \/ /\ ~fresh /\ link
        /\ \E o \in Named(entry.name) :
             /\ entry' = [entry EXCEPT !.handle = o.handle]
             /\ fresh' = TRUE
             /\ flush' = [flush EXCEPT !.pc = AfterResolve]
        /\ Answers
        /\ UNCHANGED <<acked, outcome>>
     \/ /\ ~fresh /\ link
        /\ TurnsDown(Named(entry.name) # {})
        /\ End("failed")
        /\ UNCHANGED <<entry, fresh>>
     \/ /\ ~fresh /\ ~link
        /\ Goes("reconnect")
        /\ Answers
        /\ UNCHANGED <<entry, fresh>>
  /\ UNCHANGED <<device, next, link, losses, user, rekeys>>

(* purge_leftover: best effort, whatever goes wrong the upload follows. *)
Purge ==
  /\ flush.pc = "purge"
  /\ \E gone \in SUBSET Named(Temp(entry.name)) :
       /\ device' = device \ gone
       /\ \/ ~link /\ gone = {} /\ KeepsLink /\ Answers
          \/ link /\ KeepsLink /\ TurnsDown(gone # Named(Temp(entry.name)))
          \/ LosesLink /\ Answers
  /\ Goes("upload")
  /\ UNCHANGED <<next, entry, fresh, user, rekeys>>

UploadName == IF SupportsRename THEN Temp(entry.name) ELSE entry.name

(* The inode entry after an upload landed under name n. *)
Landed(h, n) == entry' = [entry EXCEPT !.handle = h, !.name = n]

AfterCut == "reconnect"

Upload ==
  /\ flush.pc = "upload"
  /\ \/ /\ link
        /\ device' = device \cup {Object(next, UploadName, flush.data)}
        /\ next' = next + 1
        /\ KeepsLink /\ Answers
        /\ IF SupportsRename
           THEN /\ flush' = [flush EXCEPT !.pc = "delete", !.new = next]
                /\ UNCHANGED <<entry, acked, outcome>>
           ELSE Landed(next, entry.name) /\ End("ok")
     \/ /\ \E left \in SUBSET {Object(next, UploadName, Partial),
                               Object(next, UploadName, flush.data)} :
             /\ Cardinality(left) <= 1
             /\ device' = device \cup left
             /\ next' = next + Cardinality(left)
        /\ LosesLink /\ Answers
        /\ Goes(AfterCut)
        /\ UNCHANGED entry
     \/ /\ link /\ TurnsDown(TRUE)
        /\ \E left \in SUBSET {Object(next, UploadName, Partial)} :
             /\ device' = device \cup left
             /\ next' = next + Cardinality(left)
        /\ KeepsLink
        /\ End("failed")
        /\ UNCHANGED entry
     \/ /\ ~link
        /\ Goes("reconnect")
        /\ KeepsLink /\ Answers
        /\ UNCHANGED <<device, next, entry>>
  /\ UNCHANGED <<fresh, user, rekeys>>

(* The safe flush: once the upload landed, an error of whatever kind keeps *)
(* the temp name and reports success.                                      *)
KeepTemp == Landed(flush.new, Temp(entry.name)) /\ End("ok")

SafeDelete ==
  /\ SupportsRename /\ flush.pc = "delete"
  /\ \/ /\ link /\ WithHandle(entry.handle) # {}
        /\ device' = device \ WithHandle(entry.handle)
        /\ KeepsLink /\ Answers
        /\ Goes("rename")
        /\ UNCHANGED entry
     \/ /\ \/ ~link /\ KeepsLink /\ Answers /\ UNCHANGED device
           \/ LosesLink /\ Answers /\ device' \in {device, device \ WithHandle(entry.handle)}
           \/ /\ link /\ TurnsDown(WithHandle(entry.handle) # {})
              /\ KeepsLink /\ UNCHANGED device
        /\ KeepTemp
  /\ UNCHANGED <<next, fresh, user, rekeys>>

RenamedTo(h, n) ==
  (device \ WithHandle(h)) \cup {[o EXCEPT !.name = n] : o \in WithHandle(h)}

SafeRename ==
  /\ flush.pc = "rename"
  /\ \/ /\ link /\ WithHandle(flush.new) # {}
        /\ device' = RenamedTo(flush.new, entry.name)
        /\ KeepsLink /\ Answers
        /\ Landed(flush.new, entry.name) /\ End("ok")
     \/ /\ \/ ~link /\ KeepsLink /\ Answers /\ UNCHANGED device
           \/ LosesLink /\ Answers /\ device' \in {device, RenamedTo(flush.new, entry.name)}
           \/ /\ link /\ TurnsDown(WithHandle(flush.new) # {})
              /\ KeepsLink /\ UNCHANGED device
        /\ KeepTemp
  /\ UNCHANGED <<next, fresh, user, rekeys>>

(* The unsafe flush deletes first; every error goes to with_recovery. *)
UnsafeDelete ==
  /\ ~SupportsRename /\ flush.pc = "delete"
  /\ \/ /\ link /\ WithHandle(entry.handle) # {}
        /\ device' = device \ WithHandle(entry.handle)
        /\ KeepsLink /\ Answers
        /\ Goes("upload")
        /\ UNCHANGED fresh
     \/ /\ link /\ WithHandle(entry.handle) = {}
        /\ Stale
        /\ KeepsLink /\ Answers
        /\ UNCHANGED device
     \/ /\ link /\ TurnsDown(TRUE)
        /\ End("failed")
        /\ KeepsLink
        /\ UNCHANGED <<device, fresh>>
     \/ /\ LosesLink /\ Answers
        /\ device' \in {device, device \ WithHandle(entry.handle)}
        /\ Goes("reconnect")
        /\ UNCHANGED fresh
     \/ /\ ~link /\ KeepsLink /\ Answers
        /\ Goes("reconnect")
        /\ UNCHANGED <<device, fresh>>
  /\ UNCHANGED <<next, entry, user, rekeys>>
-----------------------------------------------------------------------------
FlushStep ==
  \/ Resolve \/ Purge \/ Upload \/ SafeDelete \/ SafeRename \/ UnsafeDelete
  \/ Reconnected \/ GiveUp

Next ==
  \/ \E f \in Fds : \/ Open(f) \/ Truncate(f) \/ Release(f)
                    \/ \E d \in Data : Write(f, d)
  \/ Relist \/ RecoverElsewhere
  \/ \E o \in device : Reappears(o) \/ Remount(o) \/ Rekey(o)
  \/ FlushStep
  \/ LinkLoss

Spec == Init /\ [][Next]_vars

(* A flush under way goes on: each call of the device returns. *)
FairSpec == Spec /\ WF_vars(FlushStep)
-----------------------------------------------------------------------------
Stored(d) == \E o \in device : o.data = d

Objects == [handle : Nat \ {0}, name : Nat \cup {Bystander},
            data : Data \cup {Original, Partial, Bystander}]

Flushes ==
  [pc : {"idle", "resolve", "purge", "upload", "delete", "rename", "reconnect"},
   data : Data \cup {None}, tries : 0 .. MAX_ATTEMPTS, stale : 0 .. MAX_STALE_RETRIES,
   retry : BOOLEAN, new : Nat]

(* Types of the state; the retry budgets are never overdrawn. *)
TypeOK ==
  /\ device \subseteq Objects
  /\ \A o \in device : o.handle < next
  /\ next \in Nat \ {0}
  /\ link \in BOOLEAN /\ fresh \in BOOLEAN /\ refused \in BOOLEAN
  /\ entry \in Entries \cup {None}
  /\ spool \in [Fds -> Data \cup {Closed, Clean}]
  /\ flush \in Flushes
  /\ acked \in Data \cup {Original}
  /\ outcome \in {"none", "ok", "failed", "gave_up"}
  /\ written \subseteq Data
  /\ losses \in 0 .. MaxLosses /\ rekeys \in 0 .. MaxRekeys

(* The close() seen from outside. *)
Overwriting == INSTANCE Overwrite WITH
  Contents <- Data \cup {Original}, None <- None, Safe <- SupportsRename,
  file <- acked, pending <- flush.data,
  stored <- {o.data : o \in device} \cap (Data \cup {Original})

(* Closing implements Overwrite: a close that reports success has put the  *)
(* whole spool on the device; on a device that can rename, what the last   *)
(* such close stored stays there, whole, until what replaces it is there,  *)
(* whole (flush_safe; flush_unsafe makes only the first promise).          *)
ImplementsOverwrite == Overwriting!Safety

(* The same, and every close is answered: the retries and the stale-handle *)
(* budget inside them come to an end.                                      *)
ImplementsAnsweredOverwrite == Overwriting!Spec

(* Write safety alone, as an invariant. *)
AckedIsStored == Stored(acked) \/ Stored(flush.data)

(* No recovery ever aims a delete or a rename at another file: a handle    *)
(* of a dead session is never used in the next one.                        *)
BystanderSurvives == Named(Bystander) # {} /\ Stored(Bystander)

(* A retried upload does not leave a second copy, unless the device        *)
(* refuses to delete the first.                                            *)
UploadedOnce ==
  refused \/ \A o, p \in device : o.data = p.data /\ o.data \in Data => o = p

(* A renumbering alone never moves a file: with the session healthy, a     *)
(* close that reports success has stored the data under the file's name.   *)
StaleHandleRecovered ==
  [][acked' # acked /\ losses' = 0 => \E o \in device' :
        o.data = acked' /\ o.name = entry.name]_vars

(* A disconnect alone never fails a close: with fewer disconnects than     *)
(* attempts, an upload cut by one is retried until it succeeds or the      *)
(* mount gives up.  (On a device that can rename, for a file that no       *)
(* earlier flush has left under its temp name.)                            *)
CutUploadIsRetried ==
  [][~Idle /\ outcome' = "failed" => \/ refused'
                                    \/ losses' >= MAX_ATTEMPTS
                                    \/ entry.name # entry.key]_vars
=============================================================================
