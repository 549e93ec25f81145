----------------------------- MODULE FlushProofs ----------------------------
(***************************************************************************)
(* Proofs about overwriting a file, for any contents, descriptors and      *)
(* retry budgets, and any number of disconnects and renumbered objects.    *)
(***************************************************************************)
EXTENDS Flush, FiniteSetTheorems, TLAPS

(* A flush under way has an inode entry and a content. *)
Typed ==
  /\ TypeOK
  /\ IsFiniteSet(device)
  /\ flush.pc = "idle" => flush = NoFlush
  /\ flush.pc # "idle" => entry \in Entries /\ flush.data \in Data
  /\ flush.pc \in {"purge", "rename"} => SupportsRename

(* Handles of the current session: each belongs to one object.  A cached   *)
(* handle that counts as fresh belongs to no other file (no other object,  *)
(* or one of the file's own names), the handle of an upload to the upload. *)
Handles ==
  /\ \A o, p \in device : o.handle = p.handle => o = p
  /\ flush.pc \in {"purge", "upload", "delete", "rename"} => fresh
  /\ entry # None => entry.key <= entry.name
  /\ fresh /\ entry # None =>
       /\ entry.handle < next
       /\ \A o \in device : o.handle = entry.handle => o.name \in Nat /\ o.name <= entry.name
  /\ flush.pc \in {"delete", "rename"} /\ SupportsRename =>
       /\ flush.new < next
       /\ \A o \in device : o.handle = flush.new =>
            o.name = Temp(entry.name) /\ o.data = flush.data

(* The bystander is there, and no other object has its name or content. *)
Bystanders ==
  /\ \A o \in device : o.name = Bystander <=> o.data = Bystander
  /\ \E o \in device : o.name = Bystander
-----------------------------------------------------------------------------
(* What the steps do to the device.                                        *)

(* Objects get new handles; nothing else about them changes. *)
Renumbered(m) ==
  /\ device' = {m[o] : o \in device}
  /\ \A o \in device : /\ m[o] \in Objects
                       /\ m[o].name = o.name /\ m[o].data = o.data
                       /\ m[o].handle < next'
  /\ \A o, p \in device : (\A q \in device : q.handle = o.handle => q = o)
                            /\ m[o].handle = m[p].handle => o = p
  /\ IsFiniteSet(device')
  /\ next' \in Nat \ {0}

(* One object is added, under the next handle. *)
Added(x) ==
  /\ x \in Objects /\ x.handle = next
  /\ device' = device \cup {x}
  /\ IsFiniteSet(device')
  /\ next' = next + 1
  /\ \A o \in device' : o.handle < next'

LEMMA FiniteImage ==
  ASSUME NEW S, IsFiniteSet(S), NEW T, NEW m, T = {m[o] : o \in S}
  PROVE  IsFiniteSet(T)
<1> DEFINE f == [o \in S |-> m[o]]
<1>1. f \in Surjection(S, T)
  BY DEF Surjection
<1> QED
  BY <1>1, FS_Surjection DEF ExistsSurjection

LEMMA AdoptRenumbers ==
  ASSUME Typed, Adopt
  PROVE  (\E m : Renumbered(m)) /\ link' = TRUE /\ fresh' = FALSE
<1>1. PICK num \in [device -> 1 .. Cardinality(device)] :
        /\ \A o, p \in device : num[o] = num[p] => o = p
        /\ device' = {[o EXCEPT !.handle = num[o]] : o \in device}
  BY DEF Adopt
<1>2. Cardinality(device) \in Nat /\ next' = Cardinality(device) + 1
  BY FS_CardinalityType DEF Adopt, Typed
<1> DEFINE m == [o \in device |-> [o EXCEPT !.handle = num[o]]]
<1>3. \A o \in device : /\ m[o] \in Objects
                        /\ m[o].name = o.name /\ m[o].data = o.data
                        /\ m[o].handle = num[o]
  BY <1>1, <1>2 DEF Typed, TypeOK, Objects
<1>4. device' = {m[o] : o \in device}
  BY <1>1
<1> HIDE DEF m
<1>5. IsFiniteSet(device')
  BY <1>4, FiniteImage DEF Typed
<1>6. \A o \in device : num[o] \in Nat /\ num[o] < next'
  BY <1>1, <1>2
<1>7. Renumbered(m)
  BY <1>1, <1>2, <1>3, <1>4, <1>5, <1>6 DEF Renumbered
<1> QED
  BY <1>7 DEF Adopt, AdoptFresh

LEMMA RekeyRenumbers ==
  ASSUME Typed, NEW o \in device, Rekey(o)
  PROVE  \E m : /\ Renumbered(m)
                /\ \A p \in device : m[p] = p \/ m[p].handle = next
<1> DEFINE r == [o EXCEPT !.handle = next]
           m == [p \in device |-> IF p = o THEN r ELSE p]
<1>1. /\ r \in Objects /\ r.name = o.name /\ r.data = o.data /\ r.handle = next
      /\ next' = next + 1 /\ next \in Nat
      /\ device' = (device \ {o}) \cup {r}
  <2>1. next \in Nat \ {0} /\ o \in Objects
    BY DEF Typed, TypeOK, Objects
  <2> QED
    BY <2>1 DEF Rekey, Objects
<1> HIDE DEF r
<1>2. device' = {m[p] : p \in device}
  BY <1>1
<1>3. \A p \in device : m[p] = IF p = o THEN r ELSE p
  OBVIOUS
<1> HIDE DEF m
<1>4. IsFiniteSet(device')
  BY <1>2, FiniteImage DEF Typed
<1>5. \A p \in device : p \in Objects /\ p.handle \in Nat /\ p.handle < next
  BY DEF Typed, TypeOK, Objects
<1>6. \A p \in device : /\ m[p] \in Objects
                        /\ m[p].name = p.name /\ m[p].data = p.data
                        /\ m[p].handle < next'
  BY <1>1, <1>3, <1>5
<1>7. \A p, q \in device : (\A x \in device : x.handle = p.handle => x = p)
                             /\ m[p].handle = m[q].handle => p = q
  BY <1>1, <1>3, <1>5
<1>8. Renumbered(m)
  BY <1>1, <1>2, <1>4, <1>6, <1>7 DEF Renumbered
<1> QED
  BY <1>1, <1>3, <1>8

LEMMA ObjectAdded ==
  ASSUME Typed, NEW n \in Nat, NEW d \in Data \cup {Partial},
         device' = device \cup {Object(next, n, d)}, next' = next + 1
  PROVE  \E x : Added(x) /\ x.name = n /\ x.data = d
<1> DEFINE x == Object(next, n, d)
<1>1. next \in Nat \ {0}
  BY DEF Typed, TypeOK
<1>2. x \in Objects /\ x.handle = next /\ x.name = n /\ x.data = d
  BY <1>1 DEF Objects, Object
<1> HIDE DEF x
<1>3. IsFiniteSet(device \cup {x})
  BY FS_AddElement DEF Typed
<1>4. \A o \in device : o.handle \in Nat /\ o.handle < next
  BY DEF Typed, TypeOK, Objects
<1>5. device' = device \cup {x}
  BY DEF x
<1>6. \A o \in device' : o.handle < next'
  BY <1>1, <1>2, <1>4, <1>5
<1> QED
  BY <1>2, <1>3, <1>5, <1>6 DEF Added

LEMMA ObjectsGone ==
  ASSUME Typed, device' \subseteq device
  PROVE  IsFiniteSet(device')
BY FS_Subset DEF Typed

(* Objects get a new name, and keep their handles. *)
LEMMA ObjectRenamed ==
  ASSUME Typed, NEW h, NEW n \in Nat, device' = RenamedTo(h, n)
  PROVE  \E m : /\ device' = {m[o] : o \in device}
                /\ \A o \in device : /\ m[o] \in Objects
                                     /\ m[o].handle = o.handle /\ m[o].data = o.data
                                     /\ m[o].name = IF o.handle = h THEN n ELSE o.name
                /\ IsFiniteSet(device')
<1> DEFINE r(o) == [o EXCEPT !.name = n]
           m == [o \in device |-> IF o.handle = h THEN r(o) ELSE o]
<1>1. \A o \in device : /\ r(o) \in Objects
                        /\ r(o).handle = o.handle /\ r(o).data = o.data /\ r(o).name = n
  BY DEF Typed, TypeOK, Objects
<1>2. device' = (device \ WithHandle(h)) \cup {r(o) : o \in WithHandle(h)}
  BY DEF RenamedTo
<1> HIDE DEF r
<1>3. device' = {m[o] : o \in device}
  BY <1>2 DEF WithHandle
<1>4. \A o \in device : m[o] = IF o.handle = h THEN r(o) ELSE o
  OBVIOUS
<1> HIDE DEF m
<1>5. IsFiniteSet(device')
  BY <1>3, FiniteImage DEF Typed
<1>6. \A o \in device : /\ m[o] \in Objects
                        /\ m[o].handle = o.handle /\ m[o].data = o.data
                        /\ m[o].name = IF o.handle = h THEN n ELSE o.name
  BY <1>1, <1>4 DEF Typed, TypeOK
<1> QED
  BY <1>3, <1>5, <1>6
-----------------------------------------------------------------------------
(* What the steps do to the flush and to the inode entry.                  *)

(* The flush goes to the step p; its content stays. *)
FlushGoes(p) ==
  /\ flush' \in Flushes
  /\ flush'.pc = p /\ flush'.data = flush.data

Steps == {"idle", "resolve", "purge", "upload", "delete", "rename", "reconnect"}

LEMMA FlushMoves ==
  ASSUME flush \in Flushes, NEW p \in Steps, flush' = [flush EXCEPT !.pc = p]
  PROVE  /\ FlushGoes(p)
         /\ flush'.new = flush.new /\ flush'.retry = flush.retry
         /\ flush'.tries = flush.tries
BY DEF Flushes, Steps, FlushGoes

LEMMA FlushIdles == NoFlush \in Flushes /\ NoFlush.pc = "idle" /\ NoFlush.data = None
BY FlushAssumption DEF NoFlush, Flushes

LEMMA FlushUploads ==
  ASSUME flush \in Flushes, next \in Nat, NEW h, h = next,
         flush' = [flush EXCEPT !.pc = "delete", !.new = h]
  PROVE  FlushGoes("delete") /\ flush'.new = next /\ flush'.tries = flush.tries
<1> DEFINE r == [flush EXCEPT !.pc = "delete"]
<1>1. r \in Flushes /\ r.pc = "delete" /\ r.data = flush.data /\ r.tries = flush.tries
  BY DEF Flushes
<1>2. flush' = [r EXCEPT !.new = h]
  OBVIOUS
<1> HIDE DEF r
<1> QED
  BY <1>1, <1>2 DEF Flushes, FlushGoes

LEMMA FlushStales ==
  ASSUME flush \in Flushes, flush.stale # 0,
         flush' = [flush EXCEPT !.pc = "resolve", !.stale = @ - 1, !.retry = TRUE]
  PROVE  FlushGoes("resolve") /\ flush'.tries = flush.tries
<1> DEFINE r == [flush EXCEPT !.pc = "resolve"]
           s == [r EXCEPT !.stale = flush.stale - 1]
<1>1. /\ r \in Flushes /\ r.pc = "resolve" /\ r.data = flush.data
      /\ r.tries = flush.tries
  BY DEF Flushes
<1>2. flush.stale - 1 \in 0 .. MAX_STALE_RETRIES
  BY FlushAssumption DEF Flushes
<1>3. flush' = [s EXCEPT !.retry = TRUE]
  OBVIOUS
<1> HIDE DEF r
<1>4. s \in Flushes /\ s.pc = "resolve" /\ s.data = flush.data /\ s.tries = flush.tries
  BY <1>1, <1>2 DEF Flushes
<1> HIDE DEF s
<1> QED
  BY <1>3, <1>4 DEF Flushes, FlushGoes

LEMMA FlushRetries ==
  ASSUME flush \in Flushes, flush.tries # MAX_ATTEMPTS,
         flush' = [flush EXCEPT !.pc = "resolve", !.tries = @ + 1,
                                !.stale = MAX_STALE_RETRIES, !.retry = TRUE]
  PROVE  FlushGoes("resolve") /\ flush'.tries = flush.tries + 1 /\ flush'.retry
<1> DEFINE r == [flush EXCEPT !.pc = "resolve"]
           s == [r EXCEPT !.tries = flush.tries + 1]
           t == [s EXCEPT !.stale = MAX_STALE_RETRIES]
<1>1. r \in Flushes /\ r.pc = "resolve" /\ r.data = flush.data
  BY DEF Flushes
<1>2. /\ flush.tries + 1 \in 0 .. MAX_ATTEMPTS
      /\ MAX_STALE_RETRIES \in 0 .. MAX_STALE_RETRIES
  BY FlushAssumption DEF Flushes
<1>3. flush' = [t EXCEPT !.retry = TRUE]
  OBVIOUS
<1> HIDE DEF r
<1>4. s \in Flushes /\ s.pc = "resolve" /\ s.data = flush.data /\ s.tries = flush.tries + 1
  BY <1>1, <1>2 DEF Flushes
<1> HIDE DEF s
<1>5. t \in Flushes /\ t.pc = "resolve" /\ t.data = flush.data /\ t.tries = flush.tries + 1
  BY <1>2, <1>4 DEF Flushes
<1> HIDE DEF t
<1> QED
  BY <1>3, <1>5 DEF Flushes, FlushGoes

LEMMA FlushStarts ==
  ASSUME NEW d \in Data,
         flush' = [NoFlush EXCEPT !.pc = "resolve", !.data = d, !.tries = 1,
                                  !.stale = MAX_STALE_RETRIES]
  PROVE  /\ flush' \in Flushes
         /\ flush'.pc = "resolve" /\ flush'.data = d
         /\ flush'.tries = 1 /\ ~flush'.retry
<1> DEFINE r == [NoFlush EXCEPT !.pc = "resolve"]
           s == [r EXCEPT !.data = d]
           t == [s EXCEPT !.tries = 1]
<1>1. r \in Flushes /\ r.pc = "resolve" /\ r.retry = FALSE
  BY FlushIdles DEF Flushes, NoFlush
<1>2. 1 \in 0 .. MAX_ATTEMPTS /\ MAX_STALE_RETRIES \in 0 .. MAX_STALE_RETRIES
  BY FlushAssumption
<1>3. flush' = [t EXCEPT !.stale = MAX_STALE_RETRIES]
  OBVIOUS
<1> HIDE DEF r
<1>4. s \in Flushes /\ s.pc = "resolve" /\ s.data = d /\ s.retry = FALSE
  BY <1>1 DEF Flushes
<1> HIDE DEF s
<1>5. t \in Flushes /\ t.pc = "resolve" /\ t.data = d /\ t.tries = 1 /\ t.retry = FALSE
  BY <1>2, <1>4 DEF Flushes
<1> HIDE DEF t
<1>6. /\ flush' \in Flushes /\ flush'.retry = FALSE
      /\ flush'.pc = "resolve" /\ flush'.data = d /\ flush'.tries = 1
  BY <1>2, <1>3, <1>5 DEF Flushes
<1> QED
  BY <1>6

(* The file's entry now names an object h, under the name n. *)
EntryGoes(h, n) ==
  /\ entry' \in Entries
  /\ entry'.handle = h /\ entry'.name = n /\ entry'.key = entry.key

LEMMA EntryLands ==
  ASSUME entry \in Entries, NEW h \in Nat, NEW n \in Nat, Landed(h, n)
  PROVE  EntryGoes(h, n)
<1> DEFINE r == [entry EXCEPT !.handle = h]
<1>1. r \in Entries /\ r.handle = h /\ r.key = entry.key
  BY DEF Entries
<1>2. entry' = [r EXCEPT !.name = n]
  BY DEF Landed
<1> HIDE DEF r
<1> QED
  BY <1>1, <1>2 DEF Entries, EntryGoes

LEMMA EntryResolves ==
  ASSUME entry \in Entries, NEW h \in Nat, entry' = [entry EXCEPT !.handle = h]
  PROVE  EntryGoes(h, entry.name)
BY DEF Entries, EntryGoes
-----------------------------------------------------------------------------
(* How an upload ends.                                                     *)

(* An object of the upload's name, with one of the contents D, is left on  *)
(* the device, or none is.                                                 *)
Left(D) == \/ UNCHANGED <<device, next>>
           \/ \E x : Added(x) /\ x.name = UploadName /\ x.data \in D

UploadLands ==
  /\ SupportsRename /\ link /\ UNCHANGED <<link, losses, refused, entry, acked, outcome>>
  /\ \E x : Added(x) /\ x.name = Temp(entry.name) /\ x.data = flush.data
  /\ FlushGoes("delete") /\ flush'.new = next /\ flush'.tries = flush.tries

UploadReplaces ==
  /\ ~SupportsRename /\ link /\ UNCHANGED <<link, losses, refused>>
  /\ \E x : Added(x) /\ x.name = entry.name /\ x.data = flush.data
  /\ EntryGoes(next, entry.name)
  /\ flush' = NoFlush /\ acked' = flush.data /\ outcome' = "ok"

UploadCut ==
  /\ LosesLink /\ Left({Partial, flush.data})
  /\ FlushGoes("reconnect") /\ flush'.tries = flush.tries
  /\ UNCHANGED <<refused, entry, acked, outcome>>

UploadRefused ==
  /\ link /\ refused' = TRUE /\ UNCHANGED <<link, losses, entry, acked>>
  /\ Left({Partial})
  /\ flush' = NoFlush /\ outcome' = "failed"

UploadOffline ==
  /\ ~link /\ FlushGoes("reconnect") /\ flush'.tries = flush.tries
  /\ UNCHANGED <<device, next, link, losses, refused, entry, acked, outcome>>

LEMMA AtMostOne ==
  ASSUME NEW a, NEW b, NEW S \in SUBSET {a, b}, Cardinality(S) <= 1
  PROVE  \/ S = {} /\ Cardinality(S) = 0
         \/ \E x \in {a, b} : S = {x} /\ Cardinality(S) = 1
<1>1. IsFiniteSet({a, b})
  <2>1. IsFiniteSet({a}) /\ {a, b} = {a} \cup {b}
    BY FS_Singleton
  <2> QED
    BY <2>1, FS_AddElement
<1>2. IsFiniteSet(S)
  BY <1>1, FS_Subset
<1>3. Cardinality(S) = 0 \/ Cardinality(S) = 1
  BY <1>2, FS_CardinalityType
<1>4. CASE Cardinality(S) = 0
  BY <1>2, <1>4, FS_EmptySet
<1>5. CASE Cardinality(S) = 1
  BY <1>2, <1>5, FS_Singleton
<1> QED
  BY <1>3, <1>4, <1>5

LEMMA UploadMoves ==
  ASSUME Typed, Upload
  PROVE  /\ UploadLands \/ UploadReplaces \/ UploadCut \/ UploadRefused \/ UploadOffline
         /\ flush.pc = "upload" /\ UNCHANGED <<fresh, user, rekeys>>
<1>0. /\ flush \in Flushes /\ next \in Nat \ {0} /\ entry \in Entries /\ flush.data \in Data
      /\ UploadName \in Nat /\ entry.name \in Nat
  BY DEF Typed, TypeOK, Upload, UploadName, Entries, Temp
<1>1. CASE /\ link
           /\ device' = device \cup {Object(next, UploadName, flush.data)}
           /\ next' = next + 1
           /\ KeepsLink /\ Answers
           /\ IF SupportsRename
              THEN /\ flush' = [flush EXCEPT !.pc = "delete", !.new = next]
                   /\ UNCHANGED <<entry, acked, outcome>>
              ELSE Landed(next, entry.name) /\ End("ok")
  <2>1. \E x : Added(x) /\ x.name = UploadName /\ x.data = flush.data
    BY <1>0, <1>1, ObjectAdded
  <2>2. CASE SupportsRename
    <3>1. FlushGoes("delete") /\ flush'.new = next /\ flush'.tries = flush.tries
      BY <1>0, <1>1, <2>2, FlushUploads
    <3>2. UploadLands
      BY <1>1, <2>1, <2>2, <3>1 DEF UploadLands, UploadName, KeepsLink, Answers
    <3> QED
      BY <3>2 DEF Upload
  <2>3. CASE ~SupportsRename
    <3>1. EntryGoes(next, entry.name)
      BY <1>0, <1>1, <2>3, EntryLands
    <3>2. UploadReplaces
      BY <1>1, <2>1, <2>3, <3>1 DEF UploadReplaces, UploadName, KeepsLink, Answers, End
    <3> QED
      BY <3>2 DEF Upload
  <2> QED
    BY <2>2, <2>3
<1>2. CASE /\ \E left \in SUBSET {Object(next, UploadName, Partial),
                                  Object(next, UploadName, flush.data)} :
                /\ Cardinality(left) <= 1
                /\ device' = device \cup left
                /\ next' = next + Cardinality(left)
           /\ LosesLink /\ Answers
           /\ Goes(AfterCut)
           /\ UNCHANGED entry
  <2> DEFINE O(d) == Object(next, UploadName, d)
  <2>1. PICK left \in SUBSET {O(Partial), O(flush.data)} :
          /\ Cardinality(left) <= 1
          /\ device' = device \cup left
          /\ next' = next + Cardinality(left)
    BY <1>2
  <2>2. Left({Partial, flush.data})
    <3> HIDE DEF O
    <3>1. CASE left = {} /\ Cardinality(left) = 0
      BY <1>0, <2>1, <3>1 DEF Left
    <3>2. ASSUME NEW d \in {Partial, flush.data}, left = {O(d)}, Cardinality(left) = 1
          PROVE  Left({Partial, flush.data})
      BY <1>0, <2>1, <3>2, ObjectAdded DEF Left, O
    <3>3. \/ left = {} /\ Cardinality(left) = 0
          \/ \E x \in {O(Partial), O(flush.data)} : left = {x} /\ Cardinality(left) = 1
      BY <2>1, AtMostOne
    <3> QED
      BY <3>1, <3>2, <3>3
  <2>3. FlushGoes("reconnect") /\ flush'.tries = flush.tries
    BY <1>0, <1>2, FlushMoves DEF Goes, AfterCut, Steps
  <2>4. UploadCut
    BY <1>2, <2>2, <2>3 DEF UploadCut, Answers, Goes
  <2> QED
    BY <2>4 DEF Upload
<1>3. CASE /\ link /\ TurnsDown(TRUE)
           /\ \E left \in SUBSET {Object(next, UploadName, Partial)} :
                /\ device' = device \cup left
                /\ next' = next + Cardinality(left)
           /\ KeepsLink
           /\ End("failed")
           /\ UNCHANGED entry
  <2> DEFINE O == Object(next, UploadName, Partial)
  <2>1. PICK left \in SUBSET {O} :
          /\ device' = device \cup left
          /\ next' = next + Cardinality(left)
    BY <1>3
  <2>2. Left({Partial})
    <3> HIDE DEF O
    <3>1. CASE left = {}
      BY <1>0, <2>1, <3>1, FS_EmptySet DEF Left
    <3>2. CASE left = {O}
      <4>1. Cardinality(left) = 1
        BY <3>2, FS_Singleton
      <4> QED
        BY <1>0, <2>1, <3>2, <4>1, ObjectAdded DEF Left, O
    <3> QED
      BY <2>1, <3>1, <3>2
  <2>3. UploadRefused
    BY <1>3, <2>2 DEF UploadRefused, TurnsDown, KeepsLink, End
  <2> QED
    BY <2>3 DEF Upload
<1>4. CASE /\ ~link
           /\ Goes("reconnect")
           /\ KeepsLink /\ Answers
           /\ UNCHANGED <<device, next, entry>>
  <2>1. FlushGoes("reconnect") /\ flush'.tries = flush.tries
    BY <1>0, <1>4, FlushMoves DEF Goes, Steps
  <2>2. UploadOffline
    BY <1>4, <2>1 DEF UploadOffline, KeepsLink, Answers, Goes
  <2> QED
    BY <2>2 DEF Upload
<1> QED
  BY <1>1, <1>2, <1>3, <1>4 DEF Upload
-----------------------------------------------------------------------------
(* The device's part of the types. *)
DeviceTyped ==
  /\ device \subseteq Objects /\ IsFiniteSet(device)
  /\ \A o \in device : o.handle < next
  /\ next \in Nat \ {0}

LEMMA DeviceStaysTyped ==
  ASSUME Typed,
         \/ UNCHANGED <<device, next>>
         \/ \E m : Renumbered(m)
         \/ \E x : Added(x)
         \/ device' \subseteq device /\ UNCHANGED next
         \/ (\E h, n : n \in Nat /\ device' = RenamedTo(h, n)) /\ UNCHANGED next
  PROVE  DeviceTyped'
<1>0. DeviceTyped
  BY DEF Typed, TypeOK, DeviceTyped
<1>1. CASE UNCHANGED <<device, next>>
  BY <1>0, <1>1 DEF DeviceTyped
<1>2. CASE \E m : Renumbered(m)
  BY <1>2 DEF Renumbered, DeviceTyped
<1>3. CASE \E x : Added(x)
  BY <1>0, <1>3 DEF Added, DeviceTyped
<1>4. CASE device' \subseteq device /\ UNCHANGED next
  BY <1>0, <1>4, ObjectsGone DEF DeviceTyped
<1>5. ASSUME NEW h, NEW n \in Nat, device' = RenamedTo(h, n), UNCHANGED next
      PROVE  DeviceTyped'
  BY <1>0, <1>5, ObjectRenamed DEF DeviceTyped
<1> QED
  BY <1>1, <1>2, <1>3, <1>4, <1>5

LEMMA TypedInit == Init => Typed
<1> SUFFICES ASSUME Init PROVE Typed
  OBVIOUS
<1>1. DeviceTyped
  <2> DEFINE a == [handle |-> 1, name |-> 0, data |-> Original]
             b == [handle |-> 2, name |-> Bystander, data |-> Bystander]
  <2>1. a \in Objects /\ b \in Objects /\ a.handle = 1 /\ b.handle = 2
    BY DEF Objects
  <2>2. device = {a, b} /\ next = 3
    BY DEF Init
  <2> HIDE DEF a, b
  <2>3. IsFiniteSet({a}) /\ device = {a} \cup {b}
    BY <2>2, FS_Singleton
  <2>4. IsFiniteSet(device)
    BY <2>3, FS_AddElement
  <2> QED
    BY <2>1, <2>2, <2>4 DEF DeviceTyped
<1>2. entry \in Entries
  BY DEF Init, Entries
<1>3. /\ losses \in 0 .. MaxLosses /\ rekeys \in 0 .. MaxRekeys /\ written \subseteq Data
      /\ spool \in [Fds -> Data \cup {Closed, Clean}] /\ acked \in Data \cup {Original}
  BY FlushAssumption DEF Init
<1>4. link \in BOOLEAN /\ fresh \in BOOLEAN /\ refused \in BOOLEAN
  BY DEF Init
<1>5. flush = NoFlush /\ outcome = "none"
  BY DEF Init
<1> QED
  BY <1>1, <1>2, <1>3, <1>4, <1>5, FlushIdles DEF Typed, TypeOK, DeviceTyped

(* What is left to show of the types once the device's part is known. *)
LEMMA TypedFrom ==
  ASSUME DeviceTyped',
         link' \in BOOLEAN, fresh' \in BOOLEAN, refused' \in BOOLEAN,
         entry' \in Entries \cup {None},
         spool' \in [Fds -> Data \cup {Closed, Clean}], written' \subseteq Data,
         flush' \in Flushes, acked' \in Data \cup {Original},
         outcome' \in {"none", "ok", "failed", "gave_up"},
         losses' \in 0 .. MaxLosses, rekeys' \in 0 .. MaxRekeys,
         \/ flush' = NoFlush
         \/ /\ flush'.pc # "idle" /\ entry' \in Entries /\ flush'.data \in Data
            /\ flush'.pc \in {"purge", "rename"} => SupportsRename
  PROVE  Typed'
BY FlushIdles DEF Typed, TypeOK, DeviceTyped

(* A flush that ends: what becomes of it, whatever its result. *)
LEMMA FlushEnds ==
  ASSUME Typed, flush.pc # "idle", NEW r \in {"ok", "failed", "gave_up"}, End(r)
  PROVE  /\ flush' = NoFlush /\ flush' \in Flushes
         /\ acked' \in Data \cup {Original} /\ outcome' = r
         /\ acked' = IF r = "ok" THEN flush.data ELSE acked
BY FlushIdles DEF End, Typed, TypeOK

LEMMA LinkTyped ==
  ASSUME Typed, LosesLink \/ KeepsLink
  PROVE  link' \in BOOLEAN /\ losses' \in 0 .. MaxLosses
<1>1. link' \in BOOLEAN
  BY DEF LosesLink, KeepsLink, Typed, TypeOK
<1>2. losses' \in 0 .. MaxLosses
  BY FlushAssumption DEF LosesLink, KeepsLink, Typed, TypeOK
<1> QED
  BY <1>1, <1>2

(* Every step keeps the types. *)
LEMMA TypedStep == Typed /\ Bystanders /\ [Next]_vars => Typed'
<1> SUFFICES ASSUME Typed, Bystanders, [Next]_vars PROVE Typed'
  OBVIOUS
<1>0. TypeOK /\ flush \in Flushes /\ entry \in Entries \cup {None} /\ next \in Nat \ {0}
  BY DEF Typed, TypeOK
<1>1. CASE LinkLoss
  <2>1. DeviceTyped'
    BY <1>1, DeviceStaysTyped DEF LinkLoss
  <2>2. link' \in BOOLEAN /\ losses' \in 0 .. MaxLosses
    BY <1>1, LinkTyped DEF LinkLoss
  <2> QED
    BY <1>1, <2>1, <2>2, TypedFrom DEF LinkLoss, user, Typed, TypeOK
<1>2. ASSUME NEW o \in device, Rekey(o) PROVE Typed'
  <2>1. DeviceTyped'
    BY <1>2, RekeyRenumbers, DeviceStaysTyped
  <2>2. rekeys' \in 0 .. MaxRekeys
    BY <1>2, FlushAssumption DEF Rekey, Typed, TypeOK
  <2> QED
    BY <1>2, <2>1, <2>2, TypedFrom DEF Rekey, user, Typed, TypeOK
<1>3. ASSUME NEW f \in Fds, Open(f) \/ Truncate(f) \/ \E d \in Data : Write(f, d)
      PROVE  Typed'
  <2>1. DeviceTyped'
    BY <1>3, DeviceStaysTyped DEF Open, Truncate, Write
  <2>2. spool' \in [Fds -> Data \cup {Closed, Clean}] /\ written' \subseteq Data
    BY <1>3 DEF Open, Truncate, Write, Typed, TypeOK
  <2> QED
    BY <1>3, <2>1, <2>2, TypedFrom DEF Open, Truncate, Write, Typed, TypeOK
<1>4. ASSUME NEW f \in Fds, Release(f) PROVE Typed'
  <2>1. DeviceTyped'
    BY <1>4, DeviceStaysTyped DEF Release
  <2>2. spool' \in [Fds -> Data \cup {Closed, Clean}]
    BY <1>4 DEF Release, Typed, TypeOK
  <2>3. \/ flush' = NoFlush /\ outcome' \in {outcome, "failed"}
        \/ /\ flush' \in Flushes /\ flush'.pc = "resolve" /\ flush'.data \in Data
           /\ entry \in Entries /\ outcome' = "none"
    <3>1. flush = NoFlush
      BY <1>4 DEF Release, Idle, Typed
    <3>2. spool[f] # Clean => spool[f] \in Data
      BY <1>4 DEF Release, Typed, TypeOK
    <3> QED
      BY <1>0, <1>4, <3>1, <3>2, FlushStarts DEF Release
  <2> QED
    BY <1>4, <2>1, <2>2, <2>3, FlushIdles, TypedFrom DEF Release, Typed, TypeOK
<1>5. ASSUME \/ Relist \/ \E o \in device : Reappears(o) \/ Remount(o)
      PROVE  Typed'
  <2>1. DeviceTyped' /\ flush = NoFlush
    BY <1>5, DeviceStaysTyped DEF Relist, Reappears, Remount, Idle, Typed
  <2>2. fresh' \in BOOLEAN
    BY <1>5 DEF Relist, Reappears, Remount, Typed, TypeOK
  <2>3. entry' \in Entries \cup {None}
    <3>1. \A o \in device : o.handle \in Nat /\ o.name \in Nat \cup {Bystander}
                            /\ o.data \in Data \cup {Original, Partial, Bystander}
      BY DEF Typed, TypeOK, Objects
    <3>2. CASE Relist
      BY <1>0, <3>1, <3>2, EntryResolves DEF Relist, Named, EntryGoes
    <3>3. ASSUME NEW o \in device, Reappears(o) \/ Remount(o) PROVE entry' \in Entries
      <4>1. entry' = [name |-> o.name, key |-> o.name, handle |-> o.handle]
        BY <3>3 DEF Reappears, Remount
      <4>2. o.name \in Nat
        <5>1. o.name # Bystander
          BY <3>3, FlushAssumption DEF Reappears, Remount, Bystanders, Typed, TypeOK
        <5> QED
          BY <3>1, <5>1
      <4> QED
        BY <3>1, <4>1, <4>2 DEF Entries
    <3> QED
      BY <1>5, <3>2, <3>3
  <2>4. UNCHANGED <<link, losses, user, flush, acked, outcome, refused, rekeys>>
    BY <1>5 DEF Relist, Reappears, Remount
  <2> QED
    BY <2>1, <2>2, <2>3, <2>4, TypedFrom DEF user, Typed, TypeOK
<1>6. CASE RecoverElsewhere
  <2>1. DeviceTyped' /\ link' = TRUE /\ fresh' = FALSE /\ UNCHANGED losses /\ flush = NoFlush
    BY <1>6, AdoptRenumbers, DeviceStaysTyped DEF RecoverElsewhere, Adopt, Idle, Typed
  <2> QED
    BY <1>6, <2>1, TypedFrom DEF RecoverElsewhere, user, Typed, TypeOK
<1>7. CASE Reconnected
  <2>1. DeviceTyped' /\ link' = TRUE /\ fresh' = FALSE /\ UNCHANGED losses
    BY <1>7, AdoptRenumbers, DeviceStaysTyped DEF Reconnected, Adopt
  <2>2. /\ entry \in Entries /\ flush.data \in Data
        /\ \/ flush' = NoFlush
           \/ FlushGoes("resolve")
        /\ flush' \in Flushes
        /\ acked' \in Data \cup {Original} /\ outcome' \in {outcome, "failed"}
    BY <1>0, <1>7, FlushEnds, FlushRetries
    DEF Reconnected, Exhausted, LostForGood, FlushGoes, Typed, TypeOK
  <2> QED
    BY <1>7, <2>1, <2>2, TypedFrom DEF Reconnected, FlushGoes, user, Typed, TypeOK
<1>8. CASE GiveUp
  <2>1. DeviceTyped'
    BY <1>8, DeviceStaysTyped DEF GiveUp
  <2>2. /\ flush' = NoFlush /\ flush' \in Flushes
        /\ acked' \in Data \cup {Original} /\ outcome' = "gave_up"
    BY <1>8, FlushEnds DEF GiveUp
  <2> QED
    BY <1>8, <2>1, <2>2, TypedFrom DEF GiveUp, user, Typed, TypeOK
<1>9. CASE Resolve
  <2>0. entry \in Entries /\ flush.data \in Data /\ flush.pc = "resolve"
    BY <1>9 DEF Resolve, Typed
  <2>1. DeviceTyped'
    BY <1>9, DeviceStaysTyped DEF Resolve
  <2>2. refused' \in BOOLEAN /\ fresh' \in BOOLEAN
    BY <1>9 DEF Resolve, Answers, TurnsDown, Typed, TypeOK
  <2>3. entry' \in Entries
    <3>1. \A o \in device : o.handle \in Nat
      BY DEF Typed, TypeOK, Objects
    <3> QED
      BY <1>9, <2>0, <3>1, EntryResolves DEF Resolve, Named, EntryGoes
  <2>4. /\ flush' \in Flushes
        /\ acked' \in Data \cup {Original} /\ outcome' \in {outcome, "failed"}
        /\ \/ flush' = NoFlush
           \/ FlushGoes("reconnect")
           \/ FlushGoes(AfterResolve)
    BY <1>0, <1>9, <2>0, FlushEnds, FlushMoves
    DEF Resolve, Goes, AfterResolve, FirstStep, Steps, FlushGoes, Typed, TypeOK
  <2>5. AfterResolve # "idle" /\ (AfterResolve \in {"purge", "rename"} => SupportsRename)
    BY DEF AfterResolve, FirstStep
  <2>6. UNCHANGED <<link, losses, user, rekeys>>
    BY <1>9 DEF Resolve
  <2> QED
    BY <2>0, <2>1, <2>2, <2>3, <2>4, <2>5, <2>6, TypedFrom
    DEF FlushGoes, user, Typed, TypeOK
<1>10. CASE Purge
  <2>1. DeviceTyped'
    BY <1>10, DeviceStaysTyped DEF Purge
  <2>2. link' \in BOOLEAN /\ losses' \in 0 .. MaxLosses
    BY <1>10, LinkTyped DEF Purge
  <2>3. refused' \in BOOLEAN
    BY <1>10 DEF Purge, Answers, TurnsDown, Typed, TypeOK
  <2>4. FlushGoes("upload") /\ UNCHANGED <<acked, outcome>>
    BY <1>0, <1>10, FlushMoves DEF Purge, Goes, Steps
  <2> QED
    BY <1>10, <2>1, <2>2, <2>3, <2>4, TypedFrom DEF Purge, FlushGoes, user, Typed, TypeOK
<1>11. CASE Upload
  <2>1. /\ UploadLands \/ UploadReplaces \/ UploadCut \/ UploadRefused \/ UploadOffline
        /\ flush.pc = "upload" /\ UNCHANGED <<fresh, user, rekeys>>
        /\ entry \in Entries /\ flush.data \in Data
    BY <1>11, UploadMoves DEF Typed
  <2>2. DeviceTyped'
    BY <2>1, DeviceStaysTyped
    DEF UploadLands, UploadReplaces, UploadCut, UploadRefused, UploadOffline, Left
  <2>3. link' \in BOOLEAN /\ losses' \in 0 .. MaxLosses
    BY <2>1, LinkTyped
    DEF UploadLands, UploadReplaces, UploadCut, UploadRefused, UploadOffline, KeepsLink
  <2>4. refused' \in BOOLEAN
    BY <2>1 DEF UploadLands, UploadReplaces, UploadCut, UploadRefused, UploadOffline,
                Typed, TypeOK
  <2>5. /\ flush' \in Flushes /\ entry' \in Entries
        /\ acked' \in Data \cup {Original} /\ outcome' \in {outcome, "ok", "failed"}
        /\ flush' = NoFlush \/ FlushGoes("delete") \/ FlushGoes("reconnect")
    BY <2>1, FlushIdles DEF UploadLands, UploadReplaces, UploadCut, UploadRefused,
       UploadOffline, EntryGoes, FlushGoes, Typed, TypeOK
  <2> QED
    BY <2>1, <2>2, <2>3, <2>4, <2>5, TypedFrom DEF FlushGoes, user, Typed, TypeOK
<1>12. CASE SafeDelete \/ SafeRename
  <2>0. entry \in Entries /\ flush.data \in Data /\ flush.pc # "idle" /\ SupportsRename
    BY <1>12 DEF SafeDelete, SafeRename, Typed
  <2>1. DeviceTyped'
    <3>1. entry.name \in Nat
      BY <2>0 DEF Entries
    <3>2. UNCHANGED next /\ \/ device' \subseteq device
                            \/ device' = RenamedTo(flush.new, entry.name)
      BY <1>12 DEF SafeDelete, SafeRename
    <3> QED
      BY <3>1, <3>2, DeviceStaysTyped
  <2>2. link' \in BOOLEAN /\ losses' \in 0 .. MaxLosses
    BY <1>12, LinkTyped DEF SafeDelete, SafeRename
  <2>3. refused' \in BOOLEAN
    BY <1>12 DEF SafeDelete, SafeRename, Answers, TurnsDown, Typed, TypeOK
  <2>4. \/ FlushGoes("rename") /\ UNCHANGED <<acked, outcome, entry>>
        \/ /\ flush' = NoFlush /\ flush' \in Flushes
           /\ acked' \in Data \cup {Original} /\ outcome' = "ok" /\ entry' \in Entries
    <3>1. entry.name \in Nat /\ Temp(entry.name) \in Nat /\ flush.new \in Nat
      BY <1>0, <2>0 DEF Entries, Temp, Flushes
    <3>2. \/ Goes("rename") /\ UNCHANGED entry
          \/ /\ \E n \in {entry.name, Temp(entry.name)} : Landed(flush.new, n)
             /\ End("ok")
      BY <1>12 DEF SafeDelete, SafeRename, KeepTemp
    <3>3. CASE Goes("rename") /\ UNCHANGED entry
      BY <1>0, <3>3, FlushMoves DEF Goes, Steps
    <3>4. CASE /\ \E n \in {entry.name, Temp(entry.name)} : Landed(flush.new, n)
               /\ End("ok")
      BY <2>0, <3>1, <3>4, EntryLands, FlushEnds DEF EntryGoes
    <3> QED
      BY <3>2, <3>3, <3>4
  <2>5. UNCHANGED <<fresh, user, rekeys>>
    BY <1>12 DEF SafeDelete, SafeRename
  <2> QED
    BY <2>0, <2>1, <2>2, <2>3, <2>4, <2>5, TypedFrom DEF FlushGoes, user, Typed, TypeOK
<1>13. CASE UnsafeDelete
  <2>0. entry \in Entries /\ flush.data \in Data /\ flush.pc # "idle"
    BY <1>13 DEF UnsafeDelete, Typed
  <2>1. DeviceTyped'
    <3>1. UNCHANGED next /\ device' \subseteq device
      BY <1>13 DEF UnsafeDelete
    <3> QED
      BY <3>1, DeviceStaysTyped
  <2>2. link' \in BOOLEAN /\ losses' \in 0 .. MaxLosses
    BY <1>13, LinkTyped DEF UnsafeDelete
  <2>3. refused' \in BOOLEAN /\ fresh' \in BOOLEAN
    BY <1>13 DEF UnsafeDelete, Answers, TurnsDown, Stale, Typed, TypeOK
  <2>4. /\ flush' \in Flushes
        /\ acked' \in Data \cup {Original} /\ outcome' \in {outcome, "failed"}
        /\ flush' = NoFlush \/ \E p \in {"upload", "resolve", "reconnect"} : FlushGoes(p)
    <3>1. \/ \E p \in {"upload", "reconnect"} : Goes(p)
          \/ End("failed")
          \/ Stale
      BY <1>13 DEF UnsafeDelete
    <3>2. ASSUME NEW p \in {"upload", "reconnect"}, Goes(p)
          PROVE  FlushGoes(p) /\ UNCHANGED <<acked, outcome>>
      BY <1>0, <3>2, FlushMoves DEF Goes, Steps
    <3>3. CASE End("failed")
      BY <2>0, <3>3, FlushEnds
    <3>4. CASE Stale
      BY <1>0, <2>0, <3>3, <3>4, FlushStales DEF Stale, StaleBudgetSpent, FlushGoes, Typed, TypeOK
    <3> QED
      BY <3>1, <3>2, <3>3, <3>4 DEF FlushGoes, Typed, TypeOK
  <2>5. UNCHANGED <<entry, user, rekeys>>
    BY <1>13 DEF UnsafeDelete
  <2> QED
    BY <2>0, <2>1, <2>2, <2>3, <2>4, <2>5, TypedFrom DEF FlushGoes, user, Typed, TypeOK
<1>14. CASE UNCHANGED vars
  BY <1>14 DEF vars, Typed, TypeOK, NoFlush
<1> QED
  BY <1>1, <1>2, <1>3, <1>4, <1>5, <1>6, <1>7, <1>8, <1>9, <1>10, <1>11, <1>12, <1>13,
     <1>14 DEF Next, FlushStep
-----------------------------------------------------------------------------
(* How the end of a safe flush goes: the old object is gone and the rename *)
(* is next, or the flush ends well with the data under the temp name (for  *)
(* all the mount knows), or under the file's name.                         *)
SafeGoesOn ==
  /\ flush.pc = "delete" /\ FlushGoes("rename") /\ flush'.new = flush.new
  /\ flush'.tries = flush.tries
  /\ device' = device \ WithHandle(entry.handle)
  /\ UNCHANGED <<entry, acked, outcome>>

SafeKeepsTemp ==
  /\ \/ device' = device
     \/ flush.pc = "delete" /\ device' = device \ WithHandle(entry.handle)
     \/ flush.pc = "rename" /\ device' = RenamedTo(flush.new, entry.name)
  /\ EntryGoes(flush.new, Temp(entry.name))
  /\ flush' = NoFlush /\ acked' = flush.data /\ outcome' = "ok"

SafeRenames ==
  /\ flush.pc = "rename" /\ WithHandle(flush.new) # {}
  /\ device' = RenamedTo(flush.new, entry.name)
  /\ EntryGoes(flush.new, entry.name)
  /\ flush' = NoFlush /\ acked' = flush.data /\ outcome' = "ok"

LEMMA SafeMoves ==
  ASSUME Typed, SafeDelete \/ SafeRename
  PROVE  /\ SafeGoesOn \/ SafeKeepsTemp \/ SafeRenames
         /\ SupportsRename /\ flush.pc \in {"delete", "rename"} /\ UNCHANGED <<next, fresh, user, rekeys>>
         /\ LosesLink \/ KeepsLink
<1>0. /\ entry \in Entries /\ flush.data \in Data /\ SupportsRename
      /\ flush \in Flushes /\ flush.pc \in {"delete", "rename"}
  BY DEF SafeDelete, SafeRename, Typed, TypeOK
<1>1. entry.name \in Nat /\ Temp(entry.name) \in Nat /\ flush.new \in Nat
  BY <1>0 DEF Entries, Temp, Flushes
<1>2. KeepTemp => /\ EntryGoes(flush.new, Temp(entry.name))
                  /\ flush' = NoFlush /\ acked' = flush.data /\ outcome' = "ok"
  BY <1>0, <1>1, EntryLands DEF KeepTemp, End
<1>3. CASE SafeDelete
  <2>1. CASE KeepTemp
    BY <1>0, <1>2, <1>3, <2>1 DEF SafeDelete, SafeKeepsTemp
  <2>2. CASE /\ device' = device \ WithHandle(entry.handle)
             /\ KeepsLink
             /\ Goes("rename")
             /\ UNCHANGED entry
    <3>1. /\ FlushGoes("rename") /\ flush'.new = flush.new /\ flush'.tries = flush.tries
          /\ UNCHANGED <<acked, outcome>>
      BY <1>0, <2>2, FlushMoves DEF Goes, Steps
    <3> QED
      BY <1>0, <1>3, <2>2, <3>1 DEF SafeDelete, SafeGoesOn
  <2> QED
    BY <1>3, <2>1, <2>2 DEF SafeDelete
<1>4. CASE SafeRename
  <2>1. CASE KeepTemp
    BY <1>0, <1>2, <1>4, <2>1 DEF SafeRename, SafeKeepsTemp
  <2>2. CASE /\ WithHandle(flush.new) # {}
             /\ device' = RenamedTo(flush.new, entry.name)
             /\ KeepsLink
             /\ Landed(flush.new, entry.name) /\ End("ok")
    <3>1. /\ EntryGoes(flush.new, entry.name)
          /\ flush' = NoFlush /\ acked' = flush.data /\ outcome' = "ok"
      BY <1>0, <1>1, <2>2, EntryLands DEF End
    <3> QED
      BY <1>0, <1>4, <2>2, <3>1 DEF SafeRename, SafeRenames
  <2> QED
    BY <1>4, <2>1, <2>2 DEF SafeRename
<1> QED
  BY <1>3, <1>4

(* What resolving does: the cached handle, a handle found under the name,  *)
(* or the end of this attempt.                                             *)
Resolved ==
  /\ flush' \in Flushes
  /\ FlushGoes(AfterResolve) /\ flush'.retry = flush.retry /\ flush'.tries = flush.tries
  /\ fresh' = TRUE
  /\ \/ fresh /\ UNCHANGED entry
     \/ \E o \in device : o.name = entry.name /\ EntryGoes(o.handle, entry.name)
  /\ UNCHANGED <<acked, outcome, refused>>

Unresolved ==
  /\ UNCHANGED <<entry, fresh, acked>>
  /\ \/ /\ flush' = NoFlush /\ outcome' = "failed"
        /\ refused' = TRUE \/ Named(entry.name) = {}
        /\ refused' = TRUE \/ UNCHANGED refused
     \/ /\ FlushGoes("reconnect") /\ flush'.tries = flush.tries
        /\ ~link /\ UNCHANGED <<outcome, refused>>

LEMMA ResolveMoves ==
  ASSUME Typed, Resolve
  PROVE  /\ Resolved \/ Unresolved
         /\ flush.pc = "resolve" /\ UNCHANGED <<device, next, link, losses, user, rekeys>>
<1>0. /\ entry \in Entries /\ flush \in Flushes /\ flush.pc = "resolve"
      /\ AfterResolve \in Steps
      /\ UNCHANGED <<device, next, link, losses, user, rekeys>>
  BY DEF Resolve, Typed, TypeOK, AfterResolve, FirstStep, Steps
<1>1. flush' = [flush EXCEPT !.pc = AfterResolve] =>
        /\ FlushGoes(AfterResolve)
        /\ flush'.retry = flush.retry /\ flush'.tries = flush.tries
  BY <1>0, FlushMoves
<1>2. CASE /\ fresh
           /\ flush' = [flush EXCEPT !.pc = AfterResolve]
           /\ Answers
           /\ UNCHANGED <<entry, fresh, acked, outcome>>
  BY <1>0, <1>1, <1>2 DEF Resolved, Answers, FlushGoes, Typed, TypeOK
<1>3. CASE /\ \E o \in Named(entry.name) :
                /\ entry' = [entry EXCEPT !.handle = o.handle]
                /\ fresh' = TRUE
                /\ flush' = [flush EXCEPT !.pc = AfterResolve]
           /\ Answers
           /\ UNCHANGED <<acked, outcome>>
  <2>1. \A o \in device : o.handle \in Nat
    BY DEF Typed, TypeOK, Objects
  <2>2. \E o \in device : o.name = entry.name /\ EntryGoes(o.handle, entry.name)
    BY <1>0, <1>3, <2>1, EntryResolves DEF Named
  <2>3. Resolved
    BY <1>1, <1>3, <2>2 DEF Resolved, Answers, FlushGoes
  <2> QED
    BY <1>0, <2>3
<1>4. CASE /\ TurnsDown(Named(entry.name) # {})
           /\ End("failed")
           /\ UNCHANGED <<entry, fresh>>
  BY <1>0, <1>4 DEF TurnsDown, End, Unresolved
<1>5. CASE /\ ~link
           /\ Goes("reconnect")
           /\ Answers
           /\ UNCHANGED <<entry, fresh>>
  <2>1. FlushGoes("reconnect") /\ flush'.tries = flush.tries
    BY <1>0, <1>5, FlushMoves DEF Goes, Steps
  <2>2. Unresolved
    BY <1>5, <2>1 DEF Unresolved, Goes, Answers
  <2> QED
    BY <1>0, <2>2
<1> QED
  BY <1>2, <1>3, <1>4, <1>5 DEF Resolve

(* A new session under the flush. *)
LEMMA ReconnectMoves ==
  ASSUME Typed, Reconnected
  PROVE  /\ (\E m : Renumbered(m)) /\ link' = TRUE /\ fresh' = FALSE
         /\ flush.pc = "reconnect" /\ ~link
         /\ \/ /\ flush' = NoFlush /\ acked' = acked /\ outcome' = "failed"
               /\ flush.tries = MAX_ATTEMPTS
            \/ /\ FlushGoes("resolve") /\ flush'.tries = flush.tries + 1 /\ flush'.retry
               /\ UNCHANGED <<acked, outcome>>
         /\ UNCHANGED <<entry, losses, user, refused, rekeys>>
<1>1. /\ (\E m : Renumbered(m)) /\ link' = TRUE /\ fresh' = FALSE
      /\ flush.pc = "reconnect" /\ ~link /\ UNCHANGED <<entry, losses, user, refused, rekeys>>
  BY AdoptRenumbers DEF Reconnected, Adopt
<1>2. CASE Exhausted
  BY <1>1, <1>2 DEF Reconnected, Exhausted, LostForGood, End
<1>3. CASE ~Exhausted
  BY <1>1, <1>3, FlushRetries DEF Reconnected, Exhausted, Typed, TypeOK
<1> QED
  BY <1>2, <1>3

(* The unsafe delete: on to the upload, to another attempt, or to the end. *)
LEMMA UnsafeMoves ==
  ASSUME Typed, UnsafeDelete
  PROVE  /\ ~SupportsRename /\ flush.pc = "delete" /\ UNCHANGED <<next, entry, user, rekeys>>
         /\ device' = device \/ device' = device \ WithHandle(entry.handle)
         /\ LosesLink \/ KeepsLink
         /\ \/ /\ \E p \in {"upload", "reconnect"} : FlushGoes(p)
               /\ UNCHANGED <<fresh, acked, outcome>>
            \/ flush' = NoFlush /\ outcome' = "failed" /\ UNCHANGED <<fresh, acked>>
            \/ FlushGoes("resolve") /\ fresh' = FALSE /\ UNCHANGED <<acked, outcome>>
<1>1. \/ (\E p \in {"upload", "reconnect"} : Goes(p)) /\ UNCHANGED fresh
      \/ End("failed") /\ UNCHANGED fresh
      \/ Stale
  BY DEF UnsafeDelete
<1>2. ASSUME NEW p \in {"upload", "reconnect"}, Goes(p)
      PROVE  FlushGoes(p) /\ UNCHANGED <<acked, outcome>>
  BY <1>2, FlushMoves DEF Goes, Steps, Typed, TypeOK
<1>3. CASE Stale
  <2>1. \/ flush' = NoFlush /\ outcome' = "failed" /\ UNCHANGED <<fresh, acked>>
        \/ FlushGoes("resolve") /\ fresh' = FALSE /\ UNCHANGED <<acked, outcome>>
    BY <1>3, FlushStales DEF Stale, StaleBudgetSpent, End, Typed, TypeOK
  <2> QED
    BY <2>1 DEF UnsafeDelete
<1>4. CASE End("failed") /\ UNCHANGED fresh
  BY <1>4 DEF UnsafeDelete, End
<1>5. CASE (\E p \in {"upload", "reconnect"} : Goes(p)) /\ UNCHANGED fresh
  BY <1>2, <1>5 DEF UnsafeDelete
<1> QED
  BY <1>1, <1>3, <1>4, <1>5

LEMMA PurgeMoves ==
  ASSUME Typed, Purge
  PROVE  /\ SupportsRename /\ flush.pc = "purge"
         /\ FlushGoes("upload") /\ flush'.retry = flush.retry /\ flush'.tries = flush.tries
         /\ device' \subseteq device
         /\ \A o \in device : o \in device' \/ o.name = Temp(entry.name)
         /\ link' /\ ~refused' => \A o \in device' : o.name # Temp(entry.name)
         /\ LosesLink \/ KeepsLink
         /\ refused' = TRUE \/ UNCHANGED refused
         /\ UNCHANGED <<next, entry, fresh, user, rekeys, acked, outcome>>
<1>1. /\ SupportsRename /\ flush.pc = "purge"
      /\ FlushGoes("upload") /\ flush'.retry = flush.retry /\ flush'.tries = flush.tries
      /\ UNCHANGED <<next, entry, fresh, user, rekeys, acked, outcome>>
  BY FlushMoves DEF Purge, Goes, Steps, Typed, TypeOK
<1>2. PICK gone \in SUBSET Named(Temp(entry.name)) :
        /\ device' = device \ gone
        /\ \/ ~link /\ gone = {} /\ KeepsLink /\ Answers
           \/ link /\ KeepsLink /\ TurnsDown(gone # Named(Temp(entry.name)))
           \/ LosesLink /\ Answers
  BY DEF Purge
<1>3. /\ device' \subseteq device
      /\ \A o \in device : o \in device' \/ o.name = Temp(entry.name)
  BY <1>2 DEF Named
<1>4. /\ LosesLink \/ KeepsLink
      /\ refused' = TRUE \/ UNCHANGED refused
  BY <1>2 DEF Answers, TurnsDown
<1>5. link' /\ ~refused' => gone = Named(Temp(entry.name))
  BY <1>2 DEF KeepsLink, LosesLink, TurnsDown
<1>6. link' /\ ~refused' => \A o \in device' : o.name # Temp(entry.name)
  BY <1>2, <1>5 DEF Named
<1> QED
  BY <1>1, <1>3, <1>4, <1>6
-----------------------------------------------------------------------------
LEMMA HandlesInit == Init => Handles /\ Bystanders
<1> SUFFICES ASSUME Init PROVE Handles /\ Bystanders
  OBVIOUS
<1> DEFINE a == [handle |-> 1, name |-> 0, data |-> Original]
           b == [handle |-> 2, name |-> Bystander, data |-> Bystander]
<1>1. /\ a.handle = 1 /\ b.handle = 2 /\ a.name = 0 /\ b.name = Bystander
      /\ a.data = Original /\ b.data = Bystander
  OBVIOUS
<1>2. device = {a, b} /\ next = 3 /\ flush = NoFlush
      /\ entry.name = 0 /\ entry.key = 0 /\ entry.handle = 1
  BY DEF Init
<1> HIDE DEF a, b
<1>3. Bystanders
  BY <1>1, <1>2, FlushAssumption DEF Bystanders
<1> QED
  BY <1>1, <1>2, <1>3, FlushIdles DEF Handles

(* The objects and their handles as Handles and Bystanders need them. *)
LEMMA Known ==
  ASSUME Typed
  PROVE  /\ next \in Nat
         /\ \A o \in device : o.handle \in Nat /\ o.handle < next
         /\ entry # None => /\ entry.handle \in Nat /\ entry.key \in Nat
                            /\ entry.name \in Nat /\ Temp(entry.name) \in Nat
                            /\ Temp(entry.name) > entry.name
         /\ flush.new \in Nat
BY DEF Typed, TypeOK, Objects, Entries, Flushes, Temp

(* Every step keeps the handles apart. *)
LEMMA HandlesStep == Typed /\ Handles /\ Bystanders /\ [Next]_vars => Handles'
<1> SUFFICES ASSUME Typed, Handles, Bystanders, [Next]_vars PROVE Handles'
  OBVIOUS
<1>0. Typed'
  BY TypedStep
<1> USE DEF Handles
<1>1. CASE UNCHANGED <<device, next, entry, fresh, flush>>
  BY <1>1
<1>2. ASSUME NEW o \in device, Rekey(o) PROVE Handles'
  <2>1. PICK m : /\ Renumbered(m)
                 /\ \A p \in device : m[p] = p \/ m[p].handle = next
    BY <1>2, RekeyRenumbers
  <2>2. next' = next + 1 /\ UNCHANGED <<entry, fresh, flush>>
    BY <1>2 DEF Rekey
  <2>3. \A p, q \in device' : p.handle = q.handle => p = q
    BY <2>1 DEF Renumbered
  <2>4. \A q \in device' : q \in device \/ q.handle = next
    BY <2>1 DEF Renumbered
  <2> QED
    BY <2>2, <2>3, <2>4, Known
<1>3. ASSUME NEW f \in Fds, Release(f) PROVE Handles'
  <2>1. UNCHANGED <<device, next, entry, fresh>>
    BY <1>3 DEF Release
  <2>2. flush'.pc \in {"idle", "resolve"}
    <3>1. flush = NoFlush
      BY <1>3 DEF Release, Idle, Typed
    <3>2. spool[f] # Clean => spool[f] \in Data
      BY <1>3 DEF Release, Typed, TypeOK
    <3> QED
      BY <1>3, <3>1, <3>2, FlushStarts, FlushIdles DEF Release
  <2> QED
    BY <2>1, <2>2
<1>4. CASE Relist \/ \E o \in device : Reappears(o) \/ Remount(o)
  <2>1. UNCHANGED <<device, next, flush>> /\ flush.pc = "idle"
    BY <1>4 DEF Relist, Reappears, Remount, Idle
  <2>2. \/ entry' = None
        \/ UNCHANGED <<entry, fresh>>
        \/ \E o \in device : /\ o.name \in Nat /\ entry'.handle = o.handle
                             /\ entry'.key <= entry'.name /\ o.name <= entry'.name
    <3>1. CASE Relist
      <4>1. \/ entry' = None
            \/ UNCHANGED <<entry, fresh>>
            \/ \E o \in device : o.name = entry.key
                                   /\ entry' = [entry EXCEPT !.handle = o.handle]
        BY <3>1 DEF Relist, Named
      <4>2. ASSUME NEW o \in device, o.name = entry.key, entry # None,
                   entry' = [entry EXCEPT !.handle = o.handle]
            PROVE  /\ o.name \in Nat /\ entry'.handle = o.handle
                   /\ entry'.key <= entry'.name /\ o.name <= entry'.name
        <5>1. EntryGoes(o.handle, entry.name)
          BY <4>2, Known, EntryResolves DEF Typed, TypeOK
        <5> QED
          BY <4>2, <5>1, Known DEF EntryGoes
      <4> QED
        BY <3>1, <4>1, <4>2 DEF Relist
    <3>2. ASSUME NEW o \in device, Reappears(o) \/ Remount(o)
          PROVE  /\ o.name \in Nat /\ entry'.handle = o.handle
                 /\ entry'.key <= entry'.name /\ o.name <= entry'.name
      <4>1. /\ entry'.handle = o.handle /\ entry'.key = o.name /\ entry'.name = o.name
        BY <3>2 DEF Reappears, Remount
      <4>2. o.name # Bystander
        BY <3>2, FlushAssumption DEF Reappears, Remount, Bystanders, Typed, TypeOK
      <4>3. o.name \in Nat
        BY <4>2 DEF Typed, TypeOK, Objects
      <4> QED
        BY <4>1, <4>3
    <3> QED
      BY <1>4, <3>1, <3>2
  <2> QED
    BY <2>1, <2>2, Known
<1>5. CASE RecoverElsewhere \/ Reconnected
  <2>1. /\ \E m : Renumbered(m)
        /\ fresh' = FALSE /\ entry' = entry /\ flush'.pc \in {"idle", "resolve"}
    BY <1>5, AdoptRenumbers, ReconnectMoves, FlushIdles DEF RecoverElsewhere, Idle, FlushGoes
  <2>2. \A p, q \in device' : p.handle = q.handle => p = q
    BY <2>1 DEF Renumbered
  <2> QED
    BY <2>1, <2>2
<1>6. CASE GiveUp
  <2>1. UNCHANGED <<device, next, entry, fresh>> /\ flush' = NoFlush
    BY <1>6 DEF GiveUp, End
  <2> QED
    BY <2>1, FlushIdles
<1>7. CASE Resolve
  <2>1. /\ Resolved \/ Unresolved
        /\ UNCHANGED <<device, next>> /\ entry \in Entries
    BY <1>7, ResolveMoves DEF Resolve, Typed
  <2>2. CASE Unresolved
    <3>1. UNCHANGED <<entry, fresh>> /\ flush'.pc \in {"idle", "reconnect"}
      BY <2>2, FlushIdles DEF Unresolved, FlushGoes
    <3> QED
      BY <2>1, <3>1
  <2>3. CASE Resolved
    <3>1. /\ fresh' = TRUE /\ flush'.pc = AfterResolve
          /\ \/ fresh /\ UNCHANGED entry
             \/ \E o \in device : o.name = entry.name /\ EntryGoes(o.handle, entry.name)
      BY <2>3 DEF Resolved, FlushGoes
    <3>2. SupportsRename => AfterResolve \in {"purge", "upload"}
      BY DEF AfterResolve, FirstStep
    <3>3. AfterResolve # "rename"
      BY DEF AfterResolve, FirstStep
    <3>4. CASE UNCHANGED entry /\ fresh
      BY <2>1, <3>1, <3>2, <3>3, <3>4
    <3>5. ASSUME NEW o \in device, o.name = entry.name, EntryGoes(o.handle, entry.name),
                 entry # None
          PROVE  Handles'
      BY <2>1, <3>1, <3>2, <3>3, <3>5, Known DEF EntryGoes
    <3> QED
      BY <2>1, <3>1, <3>4, <3>5, FlushAssumption
  <2> QED
    BY <2>1, <2>2, <2>3
<1>8. CASE Purge
  <2>1. /\ device' \subseteq device /\ UNCHANGED <<next, entry, fresh>>
        /\ flush.pc = "purge" /\ flush'.pc = "upload"
    BY <1>8, PurgeMoves DEF FlushGoes
  <2> QED
    BY <2>1
<1>9. CASE Upload
  <2>1. /\ UploadLands \/ UploadReplaces \/ UploadCut \/ UploadRefused \/ UploadOffline
        /\ flush.pc = "upload" /\ UNCHANGED fresh /\ entry \in Entries
    BY <1>9, UploadMoves DEF Typed
  <2>2. ASSUME NEW x, Added(x)
        PROVE  /\ \A p, q \in device' : p.handle = q.handle => p = q
               /\ \A o \in device' : o.handle < next => o \in device
               /\ x.handle = next /\ x \in device' /\ next' = next + 1
    BY <2>2, Known DEF Added
  <2>3. CASE UploadLands
    <3>1. PICK x : Added(x) /\ x.name = Temp(entry.name) /\ x.data = flush.data
      BY <2>3 DEF UploadLands
    <3>2. UNCHANGED entry /\ FlushGoes("delete") /\ flush'.new = next
      BY <2>3 DEF UploadLands
    <3>3. \A o \in device' : o.handle = next => o = x
      BY <2>2, <3>1
    <3> QED
      BY <2>1, <2>2, <3>1, <3>2, <3>3, Known DEF FlushGoes
  <2>4. CASE UploadReplaces
    <3>1. PICK x : Added(x) /\ x.name = entry.name /\ x.data = flush.data
      BY <2>4 DEF UploadReplaces
    <3>2. EntryGoes(next, entry.name) /\ flush'.pc = "idle"
      BY <2>4, FlushIdles DEF UploadReplaces
    <3>3. \A o \in device' : o.handle = next => o = x
      BY <2>2, <3>1
    <3>4. entry.name \in Nat /\ entry.key <= entry.name
      BY <2>1, FlushAssumption, Known
    <3> QED
      BY <2>1, <2>2, <3>1, <3>2, <3>3, <3>4, Known DEF EntryGoes
  <2>5. CASE UploadCut \/ UploadRefused \/ UploadOffline
    <3>1. /\ UNCHANGED entry /\ flush'.pc \in {"idle", "reconnect"}
          /\ UNCHANGED <<device, next>> \/ \E x : Added(x)
      BY <2>5, FlushIdles DEF UploadCut, UploadRefused, UploadOffline, Left, FlushGoes
    <3>2. CASE UNCHANGED <<device, next>>
      BY <2>1, <3>1, <3>2
    <3>3. ASSUME NEW x, Added(x) PROVE Handles'
      BY <2>1, <2>2, <3>1, <3>3, Known
    <3> QED
      BY <3>1, <3>2, <3>3
  <2> QED
    BY <2>1, <2>3, <2>4, <2>5
<1>10. CASE SafeDelete \/ SafeRename
  <2>1. /\ SafeGoesOn \/ SafeKeepsTemp \/ SafeRenames
        /\ SupportsRename /\ flush.pc \in {"delete", "rename"} /\ UNCHANGED <<next, fresh>>
        /\ entry # None
    BY <1>10, SafeMoves, FlushAssumption DEF Typed
  <2>2. CASE SafeGoesOn
    BY <2>1, <2>2 DEF SafeGoesOn, FlushGoes
  <2>3. CASE SafeKeepsTemp /\ device' \subseteq device
    <3>1. EntryGoes(flush.new, Temp(entry.name)) /\ flush'.pc = "idle"
      BY <2>3, FlushIdles DEF SafeKeepsTemp
    <3> QED
      BY <2>1, <2>3, <3>1, Known DEF EntryGoes
  <2>4. CASE (SafeKeepsTemp \/ SafeRenames) /\ device' = RenamedTo(flush.new, entry.name)
    <3>1. /\ \E n \in {entry.name, Temp(entry.name)} : EntryGoes(flush.new, n)
          /\ flush'.pc = "idle"
      BY <2>4, FlushIdles DEF SafeKeepsTemp, SafeRenames
    <3>2. PICK m : /\ device' = {m[o] : o \in device}
                   /\ \A o \in device :
                        /\ m[o].handle = o.handle
                        /\ m[o].name = IF o.handle = flush.new THEN entry.name ELSE o.name
      BY <2>1, <2>4, Known, ObjectRenamed
    <3>3. \A p, q \in device' : p.handle = q.handle => p = q
      BY <3>2
    <3>4. \A q \in device' : q.handle = flush.new => q.name = entry.name
      BY <3>2
    <3> QED
      BY <2>1, <3>1, <3>3, <3>4, Known DEF EntryGoes
  <2> QED
    BY <2>1, <2>2, <2>3, <2>4 DEF SafeKeepsTemp, SafeRenames
<1>11. CASE UnsafeDelete
  <2>1. /\ ~SupportsRename /\ flush.pc = "delete" /\ UNCHANGED <<next, entry>>
        /\ device' \subseteq device
        /\ \/ UNCHANGED fresh /\ flush'.pc \in {"upload", "reconnect", "idle"}
           \/ fresh' = FALSE /\ flush'.pc = "resolve"
    BY <1>11, UnsafeMoves, FlushIdles DEF FlushGoes
  <2>2. \A o, p \in device' : o.handle = p.handle => o = p
    BY <2>1
  <2>3. CASE UNCHANGED fresh /\ flush'.pc \in {"upload", "reconnect", "idle"}
    BY <2>1, <2>2, <2>3
  <2>4. CASE fresh' = FALSE /\ flush'.pc = "resolve"
    BY <2>1, <2>2, <2>4
  <2> QED
    BY <2>1, <2>3, <2>4
<1>12. CASE LinkLoss \/ UNCHANGED vars
         \/ \E f \in Fds : Open(f) \/ Truncate(f) \/ \E d \in Data : Write(f, d)
  BY <1>1, <1>12 DEF LinkLoss, vars, Open, Truncate, Write
<1> QED
  BY <1>2, <1>3, <1>4, <1>5, <1>6, <1>7, <1>8, <1>9, <1>10, <1>11, <1>12
  DEF Next, FlushStep

(* Every step leaves the bystander alone. *)
LEMMA BystandersStep == Typed /\ Handles /\ Bystanders /\ [Next]_vars => Bystanders'
<1> SUFFICES ASSUME Typed, Handles, Bystanders, [Next]_vars PROVE Bystanders'
  OBVIOUS
<1> USE DEF Bystanders
<1>1. CASE UNCHANGED device
  BY <1>1
<1>2. CASE \E m : Renumbered(m)
  BY <1>2 DEF Renumbered
<1>3. ASSUME device' \subseteq device, \A o \in device : o \in device' \/ o.name \in Nat
      PROVE  Bystanders'
  BY <1>3, FlushAssumption
<1>4. CASE (\E o \in device : Rekey(o)) \/ RecoverElsewhere \/ Reconnected
  BY <1>2, <1>4, RekeyRenumbers, AdoptRenumbers DEF RecoverElsewhere, Reconnected
<1>5. CASE Purge
  <2>1. /\ device' \subseteq device
        /\ \A o \in device : o \in device' \/ o.name = Temp(entry.name)
        /\ entry # None
    BY <1>5, PurgeMoves, FlushAssumption DEF Typed
  <2> QED
    BY <1>3, <2>1, Known
<1>6. CASE Upload
  <2>1. /\ UNCHANGED device \/ \E x : Added(x) /\ x.name = UploadName
                                        /\ x.data \in {Partial, flush.data}
        /\ flush.data \in Data /\ entry # None
    BY <1>6, UploadMoves, FlushAssumption
    DEF UploadLands, UploadReplaces, UploadCut, UploadRefused, UploadOffline, Left,
        UploadName, Typed
  <2>2. UploadName \in Nat
    BY <2>1, Known DEF UploadName
  <2>3. ASSUME NEW x, Added(x), x.name = UploadName, x.data \in {Partial, flush.data}
        PROVE  Bystanders'
    <3>1. x.name # Bystander /\ x.data # Bystander
      BY <2>1, <2>2, <2>3, FlushAssumption
    <3> QED
      BY <2>3, <3>1 DEF Added
  <2> QED
    BY <1>1, <2>1, <2>3
<1>7. CASE SafeDelete \/ SafeRename \/ UnsafeDelete
  <2>1. /\ \/ device' = device \/ device' = device \ WithHandle(entry.handle)
           \/ flush.pc = "rename" /\ device' = RenamedTo(flush.new, entry.name)
        /\ flush.pc \in {"delete", "rename"} /\ entry # None
        /\ flush.pc = "rename" => SupportsRename
    BY <1>7, SafeMoves, UnsafeMoves, FlushAssumption
    DEF SafeGoesOn, SafeKeepsTemp, SafeRenames, Typed
  <2>2. CASE device' = device \ WithHandle(entry.handle)
    <3>1. \A o \in WithHandle(entry.handle) : o.name \in Nat
      BY <2>1 DEF WithHandle, Handles
    <3> QED
      BY <1>3, <2>2, <3>1
  <2>3. CASE flush.pc = "rename" /\ device' = RenamedTo(flush.new, entry.name)
    <3>1. PICK m : /\ device' = {m[o] : o \in device}
                   /\ \A o \in device :
                        /\ m[o].data = o.data
                        /\ m[o].name = IF o.handle = flush.new THEN entry.name ELSE o.name
      BY <2>1, <2>3, Known, ObjectRenamed
    <3>2. \A o \in device : o.handle = flush.new => o.name \in Nat
      BY <2>1, <2>3, Known DEF Handles
    <3>3. entry.name # Bystander /\ \A o \in device : o.name \in Nat => o.name # Bystander
      BY <2>1, Known, FlushAssumption
    <3> QED
      BY <3>1, <3>2, <3>3
  <2> QED
    BY <1>1, <2>1, <2>2, <2>3
<1>8. CASE \/ LinkLoss \/ Resolve \/ GiveUp \/ Relist \/ UNCHANGED vars
           \/ \E f \in Fds : \/ Open(f) \/ Truncate(f) \/ Release(f)
                             \/ \E d \in Data : Write(f, d)
           \/ \E o \in device : Reappears(o) \/ Remount(o)
  BY <1>1, <1>8 DEF LinkLoss, Resolve, GiveUp, Relist, vars, Open, Truncate, Release, Write,
                    Reappears, Remount
<1> QED
  BY <1>4, <1>5, <1>6, <1>7, <1>8 DEF Next, FlushStep

(* The types, the handles and the bystander go together. *)
Sound == Typed /\ Handles /\ Bystanders

LEMMA SoundInit == Init => Sound
BY TypedInit, HandlesInit DEF Sound

LEMMA SoundStep == Sound /\ [Next]_vars => Sound'
BY TypedStep, HandlesStep, BystandersStep DEF Sound

(* The retry budgets are never overdrawn, a flush under way always has an  *)
(* inode and a content, and the handles of a session stay below the next.  *)
THEOREM TypeCorrect == Spec => []TypeOK
<1>1. Sound => TypeOK
  BY DEF Sound, Typed
<1> QED
  BY <1>1, SoundInit, SoundStep, PTL DEF Spec

(* No delete, rename or purge of a flush ever hits another file, whatever  *)
(* disconnects, renumberings, refusals and restarts come in between.       *)
THEOREM BystanderIsSafe == Spec => []BystanderSurvives
<1>1. Sound => BystanderSurvives
  BY DEF Sound, Bystanders, BystanderSurvives, Named, Stored
<1> QED
  BY <1>1, SoundInit, SoundStep, PTL DEF Spec
-----------------------------------------------------------------------------
(* On a device that can rename: between flushes, and until an upload has   *)
(* landed, the acknowledged content is there, out of reach of the purge;   *)
(* afterwards the new one is, under the temp name.                         *)
AckedKept ==
  SupportsRename =>
    /\ flush.pc \notin {"delete", "rename"} =>
         \E o \in device : o.data = acked /\ (entry # None => o.name # Temp(entry.name))
    /\ flush.pc \in {"delete", "rename"} =>
         \E o \in device : o.data = flush.data /\ o.name = Temp(entry.name)

(* A restarted mount may open another name of the file, whose flushes then *)
(* purge the acknowledged content.                                         *)
NotRestarted == SupportsRename => ~Remounts

LEMMA AckedKeptInit == Init => AckedKept
<1> SUFFICES ASSUME Init PROVE AckedKept
  OBVIOUS
<1> DEFINE a == [handle |-> 1, name |-> 0, data |-> Original]
<1>1. a \in device /\ a.name = 0 /\ a.data = acked /\ entry.name = 0 /\ flush = NoFlush
  BY DEF Init
<1> HIDE DEF a
<1> QED
  BY <1>1, FlushIdles DEF AckedKept, Temp

(* Every step keeps it. *)
LEMMA AckedKeptStep ==
  ASSUME NotRestarted PROVE Sound /\ AckedKept /\ [Next]_vars => AckedKept'
<1> SUFFICES ASSUME Typed, Handles, Bystanders, AckedKept, SupportsRename, Next
             PROVE  AckedKept'
  BY DEF AckedKept, Sound, vars
<1> USE DEF AckedKept
<1>1. ASSUME \A o \in device : \E p \in device' : p.name = o.name /\ p.data = o.data,
             flush.pc \notin {"delete", "rename"}, flush'.pc \notin {"delete", "rename"},
             UNCHANGED acked,
             entry' # None => entry # None /\ entry'.name = entry.name
      PROVE  AckedKept'
  BY <1>1
<1>2. CASE LinkLoss \/ \E f \in Fds : Open(f) \/ Truncate(f) \/ \E d \in Data : Write(f, d)
  BY <1>2 DEF LinkLoss, Open, Truncate, Write
<1>3. ASSUME NEW f \in Fds, Release(f) PROVE AckedKept'
  <2>1. UNCHANGED <<device, acked, entry>>
    BY <1>3 DEF Release
  <2>2. flush.pc = "idle" /\ flush'.pc \in {"idle", "resolve"}
    <3>1. flush = NoFlush
      BY <1>3 DEF Release, Idle, Typed
    <3>2. spool[f] # Clean => spool[f] \in Data
      BY <1>3 DEF Release, Typed, TypeOK
    <3> QED
      BY <1>3, <3>1, <3>2, FlushStarts, FlushIdles DEF Release
  <2> QED
    BY <2>1, <2>2
<1>4. ASSUME NEW o \in device, Rekey(o) PROVE AckedKept'
  <2>1. PICK m : Renumbered(m)
    BY <1>4, RekeyRenumbers
  <2>2. \A p \in device : m[p] \in device' /\ m[p].name = p.name /\ m[p].data = p.data
    BY <2>1 DEF Renumbered
  <2>3. UNCHANGED <<entry, flush, acked>>
    BY <1>4 DEF Rekey
  <2> QED
    BY <2>2, <2>3
<1>5. CASE Relist
  <2>1. /\ UNCHANGED <<device, acked, flush>> /\ flush.pc = "idle" /\ entry # None
        /\ \/ entry' = None
           \/ UNCHANGED entry
           \/ \E o \in device : entry' = [entry EXCEPT !.handle = o.handle]
    BY <1>5 DEF Relist, Idle, Named
  <2>2. ASSUME NEW o \in device, entry' = [entry EXCEPT !.handle = o.handle]
        PROVE  entry'.name = entry.name
    BY <2>1, <2>2 DEF Typed, TypeOK, Entries
  <2> QED
    BY <1>1, <2>1, <2>2
<1>6. ASSUME NEW o \in device, Reappears(o) PROVE AckedKept'
  <2>1. /\ UNCHANGED <<device, acked, flush>> /\ flush.pc = "idle"
        /\ o.data = acked /\ entry'.name = o.name
    BY <1>6 DEF Reappears, Idle
  <2>2. o.name # Temp(o.name)
    <3>1. o.name # Bystander
      BY <2>1, FlushAssumption DEF Bystanders, Typed, TypeOK
    <3>2. o.name \in Nat
      BY <3>1 DEF Typed, TypeOK, Objects
    <3> QED
      BY <3>2 DEF Temp
  <2> QED
    BY <2>1, <2>2
<1>7. ASSUME NEW o \in device, Remount(o) PROVE AckedKept'
  BY <1>7 DEF Remount, NotRestarted
<1>8. CASE RecoverElsewhere \/ Reconnected
  <2>1. /\ \E m : Renumbered(m)
        /\ UNCHANGED <<entry, acked>>
        /\ flush.pc \in {"idle", "reconnect"} /\ flush'.pc \in {"idle", "resolve"}
    BY <1>8, AdoptRenumbers, ReconnectMoves, FlushIdles DEF RecoverElsewhere, Idle, FlushGoes
  <2>2. \A o \in device : \E p \in device' : p.name = o.name /\ p.data = o.data
    BY <2>1 DEF Renumbered
  <2> QED
    BY <1>1, <2>1, <2>2
<1>9. CASE GiveUp
  <2>1. UNCHANGED <<device, entry, acked>> /\ flush' = NoFlush /\ flush.pc = "reconnect"
    BY <1>9 DEF GiveUp, End
  <2> QED
    BY <2>1, FlushIdles
<1>10. CASE Resolve
  <2>1. /\ UNCHANGED <<device, acked>> /\ flush.pc = "resolve"
        /\ flush'.pc \in {"idle", "reconnect", AfterResolve}
        /\ entry'.name = entry.name /\ entry # None
    BY <1>10, ResolveMoves, FlushIdles, FlushAssumption
    DEF Resolved, Unresolved, FlushGoes, EntryGoes, Typed
  <2>2. AfterResolve \in {"purge", "upload"}
    BY DEF AfterResolve, FirstStep
  <2> QED
    BY <2>1, <2>2
<1>11. CASE Purge
  <2>1. /\ \A o \in device : o \in device' \/ o.name = Temp(entry.name)
        /\ UNCHANGED <<entry, acked>> /\ flush.pc = "purge" /\ flush'.pc = "upload"
        /\ entry # None
    BY <1>11, PurgeMoves, FlushAssumption DEF FlushGoes, Typed
  <2> QED
    BY <2>1
<1>12. CASE Upload
  <2>1. /\ UploadLands \/ UploadCut \/ UploadRefused \/ UploadOffline
        /\ flush.pc = "upload"
    BY <1>12, UploadMoves DEF UploadReplaces
  <2>2. CASE UploadLands
    BY <2>2 DEF UploadLands, FlushGoes, Added
  <2>3. CASE UploadCut \/ UploadRefused \/ UploadOffline
    <3>1. /\ UNCHANGED <<entry, acked>> /\ device \subseteq device'
          /\ flush'.pc \in {"reconnect", "idle"}
      BY <2>3, FlushIdles
      DEF UploadCut, UploadRefused, UploadOffline, FlushGoes, Left, Added
    <3> QED
      BY <2>1, <3>1
  <2> QED
    BY <2>1, <2>2, <2>3
<1>13. CASE SafeDelete \/ SafeRename
  <2>1. /\ SafeGoesOn \/ SafeKeepsTemp \/ SafeRenames
        /\ flush.pc \in {"delete", "rename"} /\ entry # None
    BY <1>13, SafeMoves, FlushAssumption DEF Typed
  <2>2. PICK x \in device : x.data = flush.data /\ x.name = Temp(entry.name)
    BY <2>1
  <2>3. /\ x.handle # entry.handle
        /\ Temp(entry.name) # Temp(Temp(entry.name)) /\ entry.name # Temp(Temp(entry.name))
        /\ entry.name # Temp(entry.name)
    BY <2>1, <2>2, Known DEF Handles, Temp
  <2>4. CASE SafeGoesOn
    BY <2>2, <2>3, <2>4 DEF SafeGoesOn, FlushGoes, WithHandle
  <2>5. CASE SafeKeepsTemp /\ device' # RenamedTo(flush.new, entry.name)
    <3>1. /\ x \in device' /\ acked' = flush.data /\ flush' = NoFlush
          /\ entry'.name = Temp(entry.name)
      BY <2>2, <2>3, <2>5 DEF SafeKeepsTemp, WithHandle, EntryGoes
    <3> QED
      BY <2>2, <2>3, <3>1, FlushIdles
  <2>6. CASE (SafeKeepsTemp \/ SafeRenames) /\ device' = RenamedTo(flush.new, entry.name)
    <3>1. PICK m : /\ device' = {m[o] : o \in device}
                   /\ \A o \in device :
                        /\ m[o].data = o.data
                        /\ m[o].name = IF o.handle = flush.new THEN entry.name ELSE o.name
      BY <2>1, <2>6, Known, ObjectRenamed
    <3>2. acked' = flush.data /\ flush'.pc = "idle"
      BY <2>6, FlushIdles DEF SafeKeepsTemp, SafeRenames
    <3>3. CASE SafeKeepsTemp
      <4>1. /\ m[x] \in device' /\ m[x].data = flush.data
            /\ m[x].name \in {entry.name, Temp(entry.name)}
        BY <2>2, <3>1
      <4>2. entry'.name = Temp(entry.name)
        BY <3>3 DEF SafeKeepsTemp, EntryGoes
      <4> QED
        BY <2>3, <3>2, <4>1, <4>2
    <3>4. CASE SafeRenames
      <4>1. PICK o \in device : o.handle = flush.new
        BY <3>4 DEF SafeRenames, WithHandle
      <4>2. o.data = flush.data
        BY <2>1, <4>1 DEF Handles
      <4>3. m[o] \in device' /\ m[o].data = flush.data /\ m[o].name = entry.name
        BY <3>1, <4>1, <4>2
      <4>4. entry'.name = entry.name
        BY <3>4 DEF SafeRenames, EntryGoes
      <4> QED
        BY <2>3, <3>2, <4>3, <4>4
    <3> QED
      BY <2>6, <3>3, <3>4
  <2> QED
    BY <2>1, <2>4, <2>5, <2>6 DEF SafeRenames
<1> QED
  BY <1>2, <1>3, <1>4, <1>5, <1>6, <1>7, <1>8, <1>9, <1>10, <1>11, <1>12, <1>13
  DEF Next, FlushStep, UnsafeDelete
-----------------------------------------------------------------------------
(* The steps of Overwrite, in terms of the device.                         *)

(* Nothing new is on the device, but for the content being flushed. *)
NothingElse ==
  \A o \in device' : o.data \in {Partial, flush.data} \/ \E p \in device : p.data = o.data

Whole == {o.data : o \in device} \cap (Data \cup {Original})

LEMMA NothingElseWhole ==
  ASSUME NothingElse, flush.data \in Data PROVE Whole' \subseteq Whole \cup {flush.data}
<1>1. Partial \notin Data \cup {Original}
  BY FlushAssumption
<1> QED
  BY <1>1 DEF NothingElse, Whole

LEMMA Stutters ==
  ASSUME UNCHANGED acked, flush'.data = flush.data,
         \A o \in device' : \E p \in device : p.data = o.data,
         \A o \in device : \E p \in device' : p.data = o.data
  PROVE  UNCHANGED Overwriting!vars
BY DEF Overwriting!vars

LEMMA Works ==
  ASSUME Typed', AckedKept', NothingElse, flush.data \in Data,
         UNCHANGED acked, flush'.data = flush.data
  PROVE  Overwriting!Next
<1>1. Whole' \subseteq Whole \cup ({flush.data} \ {None})
  BY NothingElseWhole, FlushAssumption
<1>2. SupportsRename => acked \in Whole' \/ flush.data \in Whole'
  <2>1. acked \in Data \cup {Original}
    BY DEF Typed, TypeOK
  <2>2. SupportsRename => \E o \in device' : o.data \in {acked, flush.data}
    BY DEF AckedKept
  <2> QED
    BY <2>1, <2>2 DEF Whole
<1>3. Overwriting!Work
  BY <1>1, <1>2 DEF Overwriting!Work, Overwriting!Kept, Whole
<1> QED
  BY <1>3 DEF Overwriting!Next

LEMMA Fails ==
  ASSUME Typed', AckedKept', NothingElse, flush.data \in Data,
         UNCHANGED acked, flush' = NoFlush
  PROVE  Overwriting!Next
<1>1. Whole' \subseteq Whole \cup {flush.data} /\ flush.data # None
  BY NothingElseWhole, FlushAssumption
<1>2. SupportsRename => acked \in Whole'
  <2>1. acked \in Data \cup {Original}
    BY DEF Typed, TypeOK
  <2>2. SupportsRename => \E o \in device' : o.data = acked
    BY FlushIdles DEF AckedKept
  <2> QED
    BY <2>1, <2>2 DEF Whole
<1>3. Overwriting!Fail
  BY <1>1, <1>2, FlushIdles DEF Overwriting!Fail, Whole
<1> QED
  BY <1>3 DEF Overwriting!Next

LEMMA Succeeds ==
  ASSUME NothingElse, flush.data \in Data, acked' = flush.data, flush' = NoFlush,
         \E o \in device' : o.data = flush.data
  PROVE  Overwriting!Next
<1>1. /\ Whole' \subseteq Whole \cup {flush.data} /\ flush.data # None
      /\ flush.data \in Whole'
  BY NothingElseWhole, FlushAssumption DEF Whole
<1>2. Overwriting!Succeed
  BY <1>1, FlushIdles DEF Overwriting!Succeed, Whole
<1> QED
  BY <1>2 DEF Overwriting!Next

LEMMA OverwriteInit == Init => Overwriting!Init
<1> SUFFICES ASSUME Init PROVE Overwriting!Init
  OBVIOUS
<1>1. {o.data : o \in device} = {Original, Bystander}
  <2> DEFINE a == [handle |-> 1, name |-> 0, data |-> Original]
             b == [handle |-> 2, name |-> Bystander, data |-> Bystander]
  <2>1. device = {a, b} /\ a.data = Original /\ b.data = Bystander
    BY DEF Init
  <2> HIDE DEF a, b
  <2> QED
    BY <2>1
<1>2. {o.data : o \in device} \cap (Data \cup {Original}) = {Original}
  BY <1>1, FlushAssumption
<1> QED
  BY <1>2, FlushIdles DEF Init, Overwriting!Init

(* Every step of a flush is a step of Overwrite, or none at all. *)
LEMMA OverwriteStep ==
  ASSUME NotRestarted
  PROVE  Sound /\ AckedKept /\ [Next]_vars => [Overwriting!Next]_(Overwriting!vars)
<1> SUFFICES ASSUME Sound, AckedKept, [Next]_vars
             PROVE  Overwriting!Next \/ UNCHANGED Overwriting!vars
  OBVIOUS
<1>0. Typed /\ Handles /\ Typed' /\ AckedKept'
  BY SoundStep, AckedKeptStep DEF Sound
<1>1. CASE \/ LinkLoss \/ UNCHANGED vars \/ Relist
           \/ (\E f \in Fds : Open(f) \/ Truncate(f) \/ \E d \in Data : Write(f, d))
           \/ \E o \in device : Reappears(o) \/ Remount(o)
  BY <1>1, Stutters DEF LinkLoss, vars, Relist, Open, Truncate, Write, Reappears, Remount
<1>2. ASSUME NEW o \in device, Rekey(o) PROVE UNCHANGED Overwriting!vars
  <2>1. (\E m : Renumbered(m)) /\ UNCHANGED <<acked, flush>>
    BY <1>0, <1>2, RekeyRenumbers DEF Rekey
  <2> QED
    BY <2>1, Stutters DEF Renumbered
<1>3. CASE RecoverElsewhere
  <2>1. (\E m : Renumbered(m)) /\ UNCHANGED <<acked, flush>>
    BY <1>0, <1>3, AdoptRenumbers DEF RecoverElsewhere
  <2> QED
    BY <2>1, Stutters DEF Renumbered
<1>4. ASSUME NEW f \in Fds, Release(f) PROVE Overwriting!Next \/ UNCHANGED Overwriting!vars
  <2>1. flush = NoFlush /\ UNCHANGED <<device, acked>>
    BY <1>0, <1>4 DEF Release, Idle, Typed
  <2>2. spool[f] # Clean => spool[f] \in Data
    BY <1>0, <1>4 DEF Release, Typed, TypeOK
  <2>3. UNCHANGED flush \/ flush'.data \in Data
    BY <1>4, <2>2, FlushStarts DEF Release
  <2>4. CASE UNCHANGED flush
    BY <2>1, <2>4, Stutters
  <2>5. CASE flush'.data \in Data
    <3>1. Overwriting!Start(flush'.data)
      BY <2>1, <2>5, FlushIdles DEF Overwriting!Start
    <3> QED
      BY <2>5, <3>1 DEF Overwriting!Next
  <2> QED
    BY <2>3, <2>4, <2>5
<1>5. CASE Reconnected
  <2>1. /\ \E m : Renumbered(m)
        /\ UNCHANGED acked /\ flush.data \in Data
        /\ flush' = NoFlush \/ flush'.data = flush.data
    BY <1>0, <1>5, ReconnectMoves DEF FlushGoes, Typed
  <2>2. NothingElse
    BY <2>1 DEF Renumbered, NothingElse
  <2> QED
    BY <1>0, <2>1, <2>2, Works, Fails
<1>6. CASE GiveUp
  <2>1. flush' = NoFlush /\ UNCHANGED <<device, acked>> /\ flush.data \in Data
    BY <1>0, <1>6 DEF GiveUp, End, Typed
  <2>2. NothingElse
    BY <2>1 DEF NothingElse
  <2> QED
    BY <1>0, <2>1, <2>2, Fails
<1>7. CASE Resolve
  <2>1. /\ UNCHANGED <<device, acked>> /\ flush.data \in Data
        /\ flush' = NoFlush \/ flush'.data = flush.data
    BY <1>0, <1>7, ResolveMoves DEF Resolved, Unresolved, FlushGoes, Typed
  <2>2. NothingElse
    BY <2>1 DEF NothingElse
  <2> QED
    BY <1>0, <2>1, <2>2, Works, Fails
<1>8. CASE Purge
  <2>1. /\ device' \subseteq device /\ UNCHANGED acked /\ flush.data \in Data
        /\ flush'.data = flush.data
    BY <1>0, <1>8, PurgeMoves DEF FlushGoes, Typed
  <2>2. NothingElse
    BY <2>1 DEF NothingElse
  <2> QED
    BY <1>0, <2>1, <2>2, Works
<1>9. CASE Upload
  <2>1. /\ UploadLands \/ UploadReplaces \/ UploadCut \/ UploadRefused \/ UploadOffline
        /\ flush.data \in Data
    BY <1>0, <1>9, UploadMoves DEF Typed
  <2>2. NothingElse
    BY <2>1 DEF UploadLands, UploadReplaces, UploadCut, UploadRefused, UploadOffline, Left,
                Added, NothingElse
  <2>3. CASE UploadReplaces
    BY <2>1, <2>2, <2>3, Succeeds DEF UploadReplaces, Added
  <2>4. CASE UploadRefused
    BY <1>0, <2>1, <2>2, <2>4, Fails DEF UploadRefused
  <2>5. CASE UploadLands \/ UploadCut \/ UploadOffline
    BY <1>0, <2>1, <2>2, <2>5, Works DEF UploadLands, UploadCut, UploadOffline, FlushGoes
  <2> QED
    BY <2>1, <2>3, <2>4, <2>5
<1>10. CASE SafeDelete \/ SafeRename
  <2>1. /\ SafeGoesOn \/ SafeKeepsTemp \/ SafeRenames
        /\ flush.data \in Data /\ entry # None /\ SupportsRename
        /\ flush.pc \in {"delete", "rename"}
    BY <1>0, <1>10, SafeMoves, FlushAssumption DEF Typed
  <2>2. NothingElse
    <3>1. CASE device' \subseteq device
      BY <3>1 DEF NothingElse
    <3>2. CASE device' = RenamedTo(flush.new, entry.name)
      <4>1. \E m : device' = {m[o] : o \in device} /\ \A o \in device : m[o].data = o.data
        BY <1>0, <2>1, <3>2, Known, ObjectRenamed
      <4> QED
        BY <4>1 DEF NothingElse
    <3> QED
      BY <2>1, <3>1, <3>2 DEF SafeGoesOn, SafeKeepsTemp, SafeRenames
  <2>3. CASE SafeGoesOn
    BY <1>0, <2>1, <2>2, <2>3, Works DEF SafeGoesOn, FlushGoes
  <2>4. CASE SafeKeepsTemp \/ SafeRenames
    <3>1. flush' = NoFlush /\ acked' = flush.data
      BY <2>4 DEF SafeKeepsTemp, SafeRenames
    <3>2. \E o \in device' : o.data = flush.data
      BY <1>0, <2>1, <3>1, FlushIdles DEF AckedKept
    <3> QED
      BY <2>1, <2>2, <3>1, <3>2, Succeeds
  <2> QED
    BY <2>1, <2>3, <2>4
<1>11. CASE UnsafeDelete
  <2>1. /\ device' \subseteq device /\ UNCHANGED acked /\ flush.data \in Data
        /\ flush' = NoFlush \/ flush'.data = flush.data
    BY <1>0, <1>11, UnsafeMoves DEF FlushGoes, Typed
  <2>2. NothingElse
    BY <2>1 DEF NothingElse
  <2> QED
    BY <1>0, <2>1, <2>2, Works, Fails
<1> QED
  BY <1>1, <1>2, <1>3, <1>4, <1>5, <1>6, <1>7, <1>8, <1>9, <1>10, <1>11
  DEF Next, FlushStep

(* Closing implements Overwrite: a close() that reports success has stored *)
(* the whole spool, and on a device that can rename, the content of the    *)
(* last such close() stays on the device, whole, until the next one is     *)
(* there.  On such a device the mount is not restarted in between.         *)
THEOREM FlushImplementsOverwrite ==
  ASSUME NotRestarted PROVE Spec => ImplementsOverwrite
<1>1. Init => Sound /\ AckedKept
  BY SoundInit, AckedKeptInit
<1>2. Sound /\ AckedKept /\ [Next]_vars => (Sound /\ AckedKept)'
  BY SoundStep, AckedKeptStep
<1> QED
  BY <1>1, <1>2, OverwriteInit, OverwriteStep, PTL
  DEF Spec, ImplementsOverwrite, Overwriting!Safety
-----------------------------------------------------------------------------
(* Contents are written once.  One that is still spooled is nowhere else;  *)
(* the one being flushed is on the device only where a retry purges it,    *)
(* and not at all when it is about to be uploaded.                         *)
Fresh == \A o \in device : o.data # flush.data

Once ==
  /\ \A o \in device : o.data \in Data => o.data \in written
  /\ flush.data \in Data => flush.data \in written
  /\ \A f \in Fds : spool[f] \in Data =>
       /\ spool[f] \in written /\ spool[f] # flush.data
       /\ \A o \in device : o.data # spool[f]
       /\ \A g \in Fds : spool[g] = spool[f] => g = f
  /\ flush.pc = "purge" => flush.retry
  /\ ~refused =>
       /\ \A o, p \in device : o.data = p.data /\ o.data \in Data => o = p
       /\ flush.pc \in {"resolve", "purge", "upload", "reconnect"} =>
            \A o \in device : o.data = flush.data => o.name = Temp(entry.name)
       /\ flush.pc \in {"resolve", "upload"} /\ ~flush.retry => Fresh
       /\ flush.pc = "upload" /\ link => Fresh

LEMMA OnceInit == Init => Once
<1> SUFFICES ASSUME Init PROVE Once
  OBVIOUS
<1>1. \A o \in device : o.data \notin Data
  <2> DEFINE a == [handle |-> 1, name |-> 0, data |-> Original]
             b == [handle |-> 2, name |-> Bystander, data |-> Bystander]
  <2>1. device = {a, b} /\ a.data = Original /\ b.data = Bystander
    BY DEF Init
  <2> HIDE DEF a, b
  <2> QED
    BY <2>1, FlushAssumption
<1>2. \A f \in Fds : spool[f] \notin Data
  BY FlushAssumption DEF Init
<1>3. flush.data \notin Data /\ flush.pc = "idle"
  BY FlushIdles, FlushAssumption DEF Init
<1> QED
  BY <1>1, <1>2, <1>3 DEF Once

(* A refusal is never forgotten. *)
LEMMA RefusedStays == ASSUME Typed, Next PROVE refused' = TRUE \/ UNCHANGED refused
<1>1. CASE Upload
  BY <1>1, UploadMoves
  DEF UploadLands, UploadReplaces, UploadCut, UploadRefused, UploadOffline
<1>2. CASE Resolve \/ Purge \/ SafeDelete \/ SafeRename \/ UnsafeDelete
  BY <1>2 DEF Resolve, Purge, SafeDelete, SafeRename, UnsafeDelete, Answers, TurnsDown
<1>3. CASE Reconnected \/ GiveUp \/ Relist \/ RecoverElsewhere \/ LinkLoss
  BY <1>3 DEF Reconnected, GiveUp, Relist, RecoverElsewhere, LinkLoss
<1>4. ASSUME NEW o \in device, Reappears(o) \/ Remount(o) \/ Rekey(o) PROVE UNCHANGED refused
  BY <1>4 DEF Reappears, Remount, Rekey
<1>5. ASSUME NEW f \in Fds,
             Open(f) \/ Truncate(f) \/ Release(f) \/ \E d \in Data : Write(f, d)
      PROVE  UNCHANGED refused
  BY <1>5 DEF Open, Truncate, Release, Write
<1> QED
  BY <1>1, <1>2, <1>3, <1>4, <1>5 DEF Next, FlushStep

(* Each object of the device was there before, with the same content, and  *)
(* none became two.                                                        *)
NoNewObject(m) ==
  /\ device' \subseteq {m[o] : o \in device}
  /\ \A o \in device : m[o].data = o.data

LEMMA OnceKept ==
  ASSUME Once, NEW m, NoNewObject(m), UNCHANGED user, refused' = TRUE \/ UNCHANGED refused,
         \/ flush' = NoFlush
         \/ /\ \A o \in device : m[o].name = o.name
            /\ flush'.data = flush.data /\ entry'.name = entry.name
            /\ flush'.pc = "purge" => flush'.retry
            /\ flush'.pc \in {"resolve", "purge", "upload", "reconnect"} =>
                 flush.pc \in {"resolve", "purge", "upload", "reconnect"}
            /\ ~refused' /\ (\/ flush'.pc \in {"resolve", "upload"} /\ ~flush'.retry
                             \/ flush'.pc = "upload" /\ link')
                 => Fresh'
  PROVE  Once'
<1>2. \A q \in device' : \E o \in device : q = m[o] /\ q.data = o.data
  BY DEF NoNewObject
<1>3. UNCHANGED <<spool, written>>
  BY DEF user
<1>4. ~refused' => ~refused
  OBVIOUS
<1>5. ~refused' => \A p, q \in device' : p.data = q.data /\ p.data \in Data => p = q
  BY <1>2, <1>4 DEF Once
<1>6. /\ \A o \in device' : o.data \in Data => o.data \in written'
      /\ \A f \in Fds : spool'[f] \in Data =>
           /\ spool'[f] \in written'
           /\ \A o \in device' : o.data # spool'[f]
           /\ \A g \in Fds : spool'[g] = spool'[f] => g = f
  BY <1>2, <1>3 DEF Once
<1>7. CASE flush' = NoFlush
  <2>1. flush'.data \notin Data /\ flush'.pc = "idle"
    BY <1>7, FlushIdles, FlushAssumption
  <2> QED
    BY <1>5, <1>6, <2>1 DEF Once
<1>8. CASE flush' # NoFlush
  <2>1. /\ \A o \in device : m[o].name = o.name
        /\ flush'.data = flush.data /\ entry'.name = entry.name
        /\ flush'.pc = "purge" => flush'.retry
        /\ flush'.pc \in {"resolve", "purge", "upload", "reconnect"} =>
             flush.pc \in {"resolve", "purge", "upload", "reconnect"}
        /\ ~refused' /\ (\/ flush'.pc \in {"resolve", "upload"} /\ ~flush'.retry
                         \/ flush'.pc = "upload" /\ link')
             => Fresh'
    BY <1>8
  <2>2. /\ flush'.data \in Data => flush'.data \in written'
        /\ \A f \in Fds : spool'[f] \in Data => spool'[f] # flush'.data
    BY <1>3, <2>1 DEF Once
  <2>3. ~refused' /\ flush'.pc \in {"resolve", "purge", "upload", "reconnect"} =>
          \A q \in device' : q.data = flush'.data => q.name = Temp(entry'.name)
    BY <1>2, <1>4, <2>1 DEF Once
  <2> QED
    BY <1>5, <1>6, <2>1, <2>2, <2>3 DEF Once
<1> QED
  BY <1>7, <1>8

(* Every step keeps it. *)
LEMMA OnceStep ==
  ASSUME SupportsRename PROVE Sound /\ Once /\ [Next]_vars => Once'
<1> SUFFICES ASSUME Sound, Once, [Next]_vars PROVE Once'
  OBVIOUS
<1>0. CASE UNCHANGED vars
  BY <1>0 DEF vars, Once, Fresh
<1> SUFFICES ASSUME Next PROVE Once'
  BY <1>0
<1>1. Typed /\ (refused' = TRUE \/ UNCHANGED refused)
  BY RefusedStays DEF Sound
<1> DEFINE id == [o \in device |-> o]
<1>2. ASSUME device' \subseteq device
      PROVE  NoNewObject(id) /\ \A o \in device : id[o].name = o.name
  BY <1>2 DEF NoNewObject
<1>3. ASSUME NEW m, Renumbered(m)
      PROVE  NoNewObject(m) /\ \A o \in device : m[o].name = o.name
  BY <1>3 DEF NoNewObject, Renumbered
<1> HIDE DEF id
<1>4. CASE LinkLoss
  BY <1>4 DEF LinkLoss, LosesLink, user, Once, Fresh
<1>5. ASSUME NEW f \in Fds, Open(f) \/ Truncate(f) PROVE Once'
  <2>1. /\ spool' = [spool EXCEPT ![f] = Clean] /\ spool \in [Fds -> Data \cup {Closed, Clean}]
        /\ Clean \notin Data
        /\ UNCHANGED <<device, link, entry, flush, refused, written>>
    BY <1>1, <1>5, FlushAssumption DEF Open, Truncate, Typed, TypeOK
  <2>2. \A g \in Fds : spool'[g] \in Data => g # f /\ spool'[g] = spool[g]
    BY <2>1
  <2> QED
    BY <2>1, <2>2 DEF Once, Fresh
<1>6. ASSUME NEW f \in Fds, NEW d \in Data, Write(f, d) PROVE Once'
  <2>1. /\ spool' = [spool EXCEPT ![f] = d] /\ spool \in [Fds -> Data \cup {Closed, Clean}]
        /\ d \notin written /\ written' = written \cup {d}
        /\ flush = NoFlush
        /\ UNCHANGED <<device, link, entry, flush, refused>>
    BY <1>1, <1>6 DEF Write, Idle, Typed, TypeOK
  <2>2. \A g \in Fds : spool'[g] = IF g = f THEN d ELSE spool[g]
    BY <2>1
  <2>3. /\ flush.data \notin Data /\ flush.pc = "idle"
        /\ \A o \in device : o.data # d
        /\ \A g \in Fds : spool[g] # d
    BY <2>1, FlushIdles, FlushAssumption DEF Once
  <2> QED
    BY <2>1, <2>2, <2>3 DEF Once
<1>7. ASSUME NEW f \in Fds, Release(f) PROVE Once'
  <2>1. /\ spool' = [spool EXCEPT ![f] = Closed] /\ spool \in [Fds -> Data \cup {Closed, Clean}]
        /\ Closed \notin Data /\ flush = NoFlush
        /\ spool[f] # Clean => spool[f] \in Data
        /\ UNCHANGED <<device, link, entry, refused, written>>
    BY <1>1, <1>7, FlushAssumption DEF Release, Idle, Typed, TypeOK
  <2>2. \A g \in Fds : spool'[g] \in Data => g # f /\ spool'[g] = spool[g]
    BY <2>1
  <2>3. flush.data \notin Data /\ flush.pc = "idle"
    BY <2>1, FlushIdles, FlushAssumption
  <2>4. CASE UNCHANGED flush
    BY <2>1, <2>2, <2>3, <2>4 DEF Once
  <2>5. CASE /\ spool[f] \in Data /\ flush'.pc = "resolve" /\ flush'.data = spool[f]
             /\ ~flush'.retry
    <3>1. /\ spool[f] \in written
          /\ \A o \in device : o.data # spool[f]
          /\ \A g \in Fds : spool[g] = spool[f] => g = f
      BY <2>5 DEF Once
    <3> QED
      BY <2>1, <2>2, <2>5, <3>1 DEF Once, Fresh
  <2> QED
    BY <1>7, <2>1, <2>4, <2>5, FlushStarts DEF Release
<1>8. CASE Relist \/ \E o \in device : Reappears(o) \/ Remount(o)
  <2>1. UNCHANGED <<device, user, refused, flush>> /\ flush' = NoFlush
    BY <1>1, <1>8 DEF Relist, Reappears, Remount, Idle, Typed
  <2> QED
    BY <1>1, <1>2, <2>1, OnceKept
<1>9. ASSUME NEW o \in device, Rekey(o) PROVE Once'
  <2>1. PICK m : Renumbered(m)
    BY <1>1, <1>9, RekeyRenumbers
  <2>2. UNCHANGED <<user, link, entry, flush, refused>>
    BY <1>9 DEF Rekey
  <2>3. ASSUME Fresh PROVE Fresh'
    BY <2>1, <2>2, <2>3 DEF Fresh, Renumbered
  <2>4. ~refused' /\ (\/ flush'.pc \in {"resolve", "upload"} /\ ~flush'.retry
                      \/ flush'.pc = "upload" /\ link') => Fresh'
    BY <2>2, <2>3 DEF Once
  <2>5. flush.pc = "purge" => flush.retry
    BY DEF Once
  <2> QED
    BY <1>1, <1>3, <2>1, <2>2, <2>4, <2>5, OnceKept
<1>10. CASE RecoverElsewhere \/ Reconnected
  <2>1. PICK m : Renumbered(m)
    BY <1>1, <1>10, AdoptRenumbers DEF RecoverElsewhere, Reconnected
  <2>2. /\ UNCHANGED <<user, entry, refused>>
        /\ \/ flush' = NoFlush
           \/ /\ FlushGoes("resolve") /\ flush'.retry /\ flush.pc = "reconnect"
    BY <1>1, <1>10, ReconnectMoves DEF RecoverElsewhere, Idle, Typed
  <2> QED
    BY <1>1, <1>3, <2>1, <2>2, OnceKept DEF FlushGoes
<1>11. CASE GiveUp
  <2>1. UNCHANGED <<device, user>> /\ flush' = NoFlush
    BY <1>11 DEF GiveUp, End
  <2> QED
    BY <1>1, <1>2, <2>1, OnceKept
<1>12. CASE Resolve
  <2>1. /\ Resolved \/ Unresolved
        /\ flush.pc = "resolve" /\ UNCHANGED <<device, user, link>>
    BY <1>1, <1>12, ResolveMoves
  <2>2. CASE Unresolved
    BY <1>1, <1>2, <2>1, <2>2, OnceKept DEF Unresolved, FlushGoes
  <2>3. CASE Resolved
    <3>1. /\ flush'.pc = AfterResolve /\ flush'.data = flush.data /\ flush'.retry = flush.retry
          /\ entry'.name = entry.name /\ UNCHANGED refused
      BY <2>3 DEF Resolved, FlushGoes, EntryGoes
    <3>2. AfterResolve = IF flush.retry THEN "purge" ELSE "upload"
      BY DEF AfterResolve, FirstStep
    <3>3. ~refused /\ ~flush.retry => Fresh
      BY <2>1 DEF Once
    <3>4. Fresh => Fresh'
      BY <2>1, <3>1 DEF Fresh
    <3> QED
      BY <1>1, <1>2, <2>1, <3>1, <3>2, <3>3, <3>4, OnceKept
  <2> QED
    BY <2>1, <2>2, <2>3
<1>13. CASE Purge
  <2>1. /\ flush.pc = "purge" /\ flush'.pc = "upload" /\ flush'.data = flush.data
        /\ flush'.retry = flush.retry /\ device' \subseteq device
        /\ link' /\ ~refused' => \A o \in device' : o.name # Temp(entry.name)
        /\ UNCHANGED <<entry, user>>
    BY <1>1, <1>13, PurgeMoves DEF FlushGoes
  <2>2. flush.retry /\ (~refused => \A o \in device : o.data = flush.data => o.name = Temp(entry.name))
    BY <2>1 DEF Once
  <2>3. link' /\ ~refused' => Fresh'
    BY <1>1, <2>1, <2>2 DEF Fresh
  <2> QED
    BY <1>1, <1>2, <2>1, <2>2, <2>3, OnceKept
<1>14. CASE Upload
  <2>1. /\ UploadLands \/ UploadReplaces \/ UploadCut \/ UploadRefused \/ UploadOffline
        /\ flush.pc = "upload" /\ UNCHANGED user /\ flush.data \in Data
    BY <1>1, <1>14, UploadMoves DEF Typed
  <2>2. /\ ~refused /\ link => Fresh
        /\ flush.data \in written
    BY <2>1 DEF Once
  <2>3. ASSUME NEW x, Added(x), x.data \in {Partial, flush.data}, link,
               x.name = Temp(entry.name), UNCHANGED entry,
               \/ flush' = NoFlush
               \/ flush'.data = flush.data /\ flush'.pc \in {"delete", "reconnect"}
        PROVE  Once'
    <3>1. device' = device \cup {x} /\ Partial \notin Data /\ UNCHANGED <<spool, written>>
      BY <2>1, <2>3, FlushAssumption DEF Added, user
    <3>2. ~refused => \A o, p \in device' : o.data = p.data /\ o.data \in Data => o = p
      BY <2>2, <2>3, <3>1 DEF Fresh, Once
    <3>3. \A f \in Fds : spool[f] \in Data =>
            spool[f] # Partial /\ spool[f] # flush.data
      BY <3>1 DEF Once
    <3>4. flush'.data \in Data => flush'.data = flush.data
      BY <2>3, FlushIdles, FlushAssumption
    <3>5. flush'.pc \in {"idle", "delete", "reconnect"}
      BY <2>3, FlushIdles
    <3>6. /\ \A o \in device' : o.data \in Data => o.data \in written'
          /\ flush'.data \in Data => flush'.data \in written'
          /\ \A f \in Fds : spool'[f] \in Data =>
               /\ spool'[f] \in written' /\ spool'[f] # flush'.data
               /\ \A o \in device' : o.data # spool'[f]
               /\ \A g \in Fds : spool'[g] = spool'[f] => g = f
      BY <2>2, <2>3, <3>1, <3>3, <3>4 DEF Once
    <3>7. ~refused /\ flush'.pc = "reconnect" =>
            \A o \in device' : o.data = flush'.data => o.name = Temp(entry'.name)
      BY <2>1, <2>3, <3>1, FlushIdles DEF Once
    <3> QED
      BY <1>1, <3>2, <3>5, <3>6, <3>7 DEF Once
  <2>4. CASE UNCHANGED <<device, entry>> /\ (UploadCut \/ UploadRefused \/ UploadOffline)
    BY <1>1, <1>2, <2>1, <2>4, OnceKept DEF UploadCut, UploadRefused, UploadOffline, FlushGoes
  <2>5. \/ UNCHANGED <<device, entry>> /\ (UploadCut \/ UploadRefused \/ UploadOffline)
        \/ \E x : /\ Added(x) /\ x.data \in {Partial, flush.data} /\ link
                  /\ x.name = Temp(entry.name) /\ UNCHANGED entry
                  /\ \/ flush' = NoFlush
                     \/ flush'.data = flush.data /\ flush'.pc \in {"delete", "reconnect"}
    <3>1. UploadName = Temp(entry.name)
      BY DEF UploadName
    <3>2. CASE UploadLands
      BY <3>2 DEF UploadLands, FlushGoes
    <3>3. CASE UploadCut
      BY <3>1, <3>3 DEF UploadCut, Left, LosesLink, FlushGoes
    <3>4. CASE UploadRefused
      BY <3>1, <3>4 DEF UploadRefused, Left
    <3>5. CASE UploadOffline
      BY <3>5 DEF UploadOffline
    <3> QED
      BY <2>1, <3>2, <3>3, <3>4, <3>5 DEF UploadReplaces
  <2> QED
    BY <2>3, <2>4, <2>5
<1>15. CASE SafeDelete \/ SafeRename
  <2>1. /\ SafeGoesOn \/ SafeKeepsTemp \/ SafeRenames
        /\ UNCHANGED user /\ entry # None
    BY <1>1, <1>15, SafeMoves, FlushAssumption DEF Typed
  <2>2. CASE device' \subseteq device
    BY <1>1, <1>2, <2>1, <2>2, OnceKept DEF SafeGoesOn, SafeKeepsTemp, SafeRenames, FlushGoes
  <2>3. CASE device' = RenamedTo(flush.new, entry.name) /\ flush' = NoFlush
    <3>1. \E m : NoNewObject(m)
      BY <1>1, <2>1, <2>3, Known, ObjectRenamed DEF NoNewObject
    <3> QED
      BY <1>1, <2>1, <2>3, <3>1, OnceKept
  <2> QED
    BY <2>1, <2>2, <2>3 DEF SafeGoesOn, SafeKeepsTemp, SafeRenames
<1> QED
  BY <1>4, <1>5, <1>6, <1>7, <1>8, <1>9, <1>10, <1>11, <1>12, <1>13, <1>14, <1>15
  DEF Next, FlushStep, UnsafeDelete

(* On a device that cannot rename nothing but the bystander is there when  *)
(* an upload starts: the folder has one more object at most.               *)
Alone ==
  ~SupportsRename /\ ~refused =>
    /\ \A o, p \in device : o.name # Bystander /\ p.name # Bystander => o = p
    /\ flush.pc = "upload" => \A o \in device : o.name = Bystander

LEMMA AloneInit == Init => Alone
<1> DEFINE a == [handle |-> 1, name |-> 0, data |-> Original]
           b == [handle |-> 2, name |-> Bystander, data |-> Bystander]
<1> SUFFICES ASSUME Init PROVE Alone
  OBVIOUS
<1>1. device = {a, b} /\ b.name = Bystander /\ flush.pc = "idle"
  BY FlushIdles DEF Init
<1> HIDE DEF a, b
<1> QED
  BY <1>1 DEF Alone

(* Objects go or are renumbered, and no upload starts. *)
LEMMA AloneKept ==
  ASSUME Alone, refused' = TRUE \/ UNCHANGED refused, flush'.pc = "upload" => flush.pc = "upload",
         device' \subseteq device \/ \E m : Renumbered(m)
  PROVE  Alone'
BY DEF Alone, Renumbered

LEMMA AloneStep == Sound /\ Alone /\ [Next]_vars => Alone'
<1> SUFFICES ASSUME Sound, Alone, [Next]_vars, ~SupportsRename PROVE Alone'
  BY DEF Alone
<1>0. CASE UNCHANGED vars
  BY <1>0 DEF vars, Alone
<1> SUFFICES ASSUME Next PROVE Alone'
  BY <1>0
<1>1. Typed /\ (refused' = TRUE \/ UNCHANGED refused)
  BY RefusedStays DEF Sound
<1>2. CASE LinkLoss \/ GiveUp
  BY <1>1, <1>2, FlushIdles, AloneKept DEF LinkLoss, GiveUp, End
<1>3. ASSUME NEW f \in Fds, Open(f) \/ Truncate(f) \/ \E d \in Data : Write(f, d)
      PROVE  Alone'
  BY <1>1, <1>3, AloneKept DEF Open, Truncate, Write
<1>4. ASSUME NEW f \in Fds, Release(f) PROVE Alone'
  <2>1. spool[f] # Clean /\ spool[f] # Closed => spool[f] \in Data
    BY <1>1 DEF Typed, TypeOK
  <2>2. UNCHANGED device /\ flush'.pc # "upload"
    BY <1>1, <1>4, <2>1, FlushStarts, FlushIdles DEF Release, Idle, Typed
  <2> QED
    BY <1>1, <2>2, AloneKept
<1>5. CASE Relist \/ \E o \in device : Reappears(o) \/ Remount(o)
  BY <1>1, <1>5, AloneKept DEF Relist, Reappears, Remount
<1>6. ASSUME NEW o \in device, Rekey(o) PROVE Alone'
  <2>1. (\E m : Renumbered(m)) /\ UNCHANGED flush
    BY <1>1, <1>6, RekeyRenumbers DEF Rekey
  <2> QED
    BY <1>1, <2>1, AloneKept
<1>7. CASE RecoverElsewhere \/ Reconnected
  <2>1. (\E m : Renumbered(m)) /\ (flush' = flush \/ flush'.pc # "upload")
    BY <1>1, <1>7, AdoptRenumbers, ReconnectMoves, FlushIdles DEF RecoverElsewhere, FlushGoes
  <2> QED
    BY <1>1, <2>1, AloneKept
<1>8. CASE Resolve
  <2>1. UNCHANGED device /\ flush'.pc # "upload"
    BY <1>1, <1>8, ResolveMoves, FlushIdles
    DEF Resolved, Unresolved, FlushGoes, AfterResolve, FirstStep
  <2> QED
    BY <1>1, <2>1, AloneKept
<1>9. CASE Purge
  BY <1>1, <1>9, PurgeMoves
<1>10. CASE SafeDelete
  BY <1>10 DEF SafeDelete
<1>11. CASE SafeRename
  <2>1. flush.pc = "rename"
    BY <1>11 DEF SafeRename
  <2> QED
    BY <1>1, <2>1 DEF Typed
<1>12. CASE Upload
  <2>1. /\ UploadReplaces \/ UploadCut \/ UploadRefused \/ UploadOffline
        /\ flush.pc = "upload" /\ flush'.pc # "upload"
    BY <1>1, <1>12, UploadMoves, FlushIdles
    DEF UploadLands, UploadReplaces, UploadCut, UploadRefused, UploadOffline, FlushGoes
  <2>2. ~refused => \A o \in device : o.name = Bystander
    BY <2>1 DEF Alone
  <2>3. UNCHANGED device \/ \E x : device' = device \cup {x}
    BY <2>1 DEF UploadReplaces, UploadCut, UploadRefused, UploadOffline, Left, Added
  <2> QED
    BY <1>1, <2>1, <2>2, <2>3 DEF Alone
<1>13. CASE UnsafeDelete
  <2>1. /\ flush.pc = "delete" /\ device' \subseteq device
        /\ entry # None /\ fresh
    <3>1. flush.pc = "delete" /\ device' \subseteq device
      BY <1>1, <1>13, UnsafeMoves
    <3> QED
      BY <3>1, FlushAssumption DEF Sound, Handles, Typed
  <2>2. CASE flush'.pc # "upload"
    BY <1>1, <2>1, <2>2, AloneKept
  <2>3. CASE flush'.pc = "upload"
    <3>1. ~Stale /\ ~End("failed") /\ ~Goes("reconnect")
      <4>1. ~End("failed")
        BY <2>3, FlushIdles DEF End
      <4>2. ~Goes("reconnect")
        BY <1>1, <2>3, FlushMoves DEF Goes, FlushGoes, Steps, Typed, TypeOK
      <4>3. CASE Stale /\ ~StaleBudgetSpent
        BY <1>1, <2>3, <4>3, FlushStales DEF Stale, StaleBudgetSpent, FlushGoes, Typed, TypeOK
      <4> QED
        BY <4>1, <4>2, <4>3 DEF Stale
    <3>2. device' = device \ WithHandle(entry.handle) /\ WithHandle(entry.handle) # {}
      BY <1>13, <3>1 DEF UnsafeDelete
    <3>3. \A o \in WithHandle(entry.handle) : o \in device /\ o.name # Bystander
      BY <2>1, FlushAssumption DEF Sound, Handles, WithHandle
    <3> QED
      BY <1>1, <2>3, <3>2, <3>3 DEF Alone
  <2> QED
    BY <2>2, <2>3
<1> QED
  BY <1>2, <1>3, <1>4, <1>5, <1>6, <1>7, <1>8, <1>9, <1>10, <1>11, <1>12, <1>13 DEF Next, FlushStep

(* A retried upload leaves no second copy, unless the device refused a     *)
(* request: on a device that can rename the retry purges the first, on     *)
(* another it deletes it.                                                  *)
THEOREM UploadedAtMostOnce == Spec => []UploadedOnce
<1>1. CASE SupportsRename
  <2>1. Init => Sound /\ Once
    BY SoundInit, OnceInit
  <2>2. Sound /\ Once /\ [Next]_vars => (Sound /\ Once)'
    BY <1>1, SoundStep, OnceStep
  <2>3. Once => UploadedOnce
    BY DEF Once, UploadedOnce
  <2> QED
    BY <2>1, <2>2, <2>3, PTL DEF Spec
<1>2. CASE ~SupportsRename
  <2>1. Init => Sound /\ Alone
    BY SoundInit, AloneInit
  <2>2. Sound /\ Alone /\ [Next]_vars => (Sound /\ Alone)'
    BY SoundStep, AloneStep
  <2>3. Sound /\ Alone => UploadedOnce
    BY <1>2, FlushAssumption DEF Sound, Bystanders, Alone, UploadedOnce
  <2> QED
    BY <2>1, <2>2, <2>3, PTL DEF Spec
<1> QED
  BY <1>1, <1>2
-----------------------------------------------------------------------------
(* Each attempt after the first was paid for by a disconnect, and a close  *)
(* under way has no outcome yet.                                           *)
Paid ==
  /\ ~link => losses >= 1
  /\ ~Idle => /\ outcome = "none"
              /\ link => losses + 1 >= flush.tries
              /\ ~link => losses >= flush.tries

(* The file is on the device under its name, unless a flush is replacing   *)
(* it or has left it under its temp name.                                  *)
Present ==
  flush.pc \notin {"delete", "rename"} /\ entry # None /\ entry.name = entry.key =>
    \E o \in device : o.name = entry.name

LEMMA PaidInit == Init => Paid /\ Present
<1> SUFFICES ASSUME Init PROVE Paid /\ Present
  OBVIOUS
<1>1. Idle /\ link
  BY FlushIdles DEF Init, Idle
<1>2. \E o \in device : o.name = entry.name
  <2> DEFINE a == [handle |-> 1, name |-> 0, data |-> Original]
  <2>1. a \in device /\ a.name = 0 /\ entry.name = 0
    BY DEF Init
  <2> HIDE DEF a
  <2> QED
    BY <2>1
<1> QED
  BY <1>1, <1>2 DEF Paid, Present

(* A step that keeps the outcome and the attempt, or ends the flush, may   *)
(* lose the link.                                                          *)
LEMMA PaidKept ==
  ASSUME Typed, Paid, LosesLink \/ KeepsLink,
         \/ flush' = NoFlush
         \/ flush'.tries = flush.tries /\ ~Idle /\ UNCHANGED outcome
  PROVE  Paid'
<1>1. flush.tries \in Nat /\ losses \in Nat /\ link \in BOOLEAN
  BY FlushAssumption DEF Typed, TypeOK, Flushes
<1>2. flush' = NoFlush => Idle'
  BY FlushIdles DEF Idle
<1>3. \/ link' = link /\ losses' = losses
      \/ link /\ ~link' /\ losses' = losses + 1
  BY DEF LosesLink, KeepsLink
<1> QED
  BY <1>1, <1>2, <1>3 DEF Paid

LEMMA PaidStep == Sound /\ Paid /\ [Next]_vars => Paid'
<1> SUFFICES ASSUME Sound, Paid, [Next]_vars PROVE Paid'
  OBVIOUS
<1>0. CASE UNCHANGED vars
  BY <1>0 DEF vars, Paid, Idle
<1> SUFFICES ASSUME Next PROVE Paid'
  BY <1>0
<1>1. /\ Typed /\ flush.tries \in Nat /\ losses \in Nat /\ link \in BOOLEAN
      /\ flush = NoFlush \/ ~Idle
  BY FlushAssumption DEF Sound, Typed, TypeOK, Flushes, Idle
<1>2. CASE LinkLoss
  BY <1>1, <1>2, PaidKept DEF LinkLoss
<1>3. CASE \/ \E f \in Fds : Open(f) \/ Truncate(f) \/ \E d \in Data : Write(f, d)
           \/ Relist
           \/ \E o \in device : Reappears(o) \/ Remount(o)
  BY <1>3 DEF Open, Truncate, Write, Relist, Reappears, Remount, Paid, Idle
<1>4. ASSUME NEW f \in Fds, Release(f) PROVE Paid'
  <2>1. /\ UNCHANGED <<link, losses>> /\ Idle
        /\ spool[f] \notin {Clean, Closed} => spool[f] \in Data
    BY <1>1, <1>4 DEF Release, Typed, TypeOK
  <2>2. CASE UNCHANGED flush
    BY <2>1, <2>2 DEF Paid, Idle
  <2>3. CASE flush'.tries = 1 /\ outcome' = "none"
    BY <1>1, <2>1, <2>3 DEF Paid
  <2> QED
    BY <1>4, <2>1, <2>2, <2>3, FlushStarts DEF Release
<1>5. ASSUME NEW o \in device, Rekey(o) PROVE Paid'
  BY <1>5 DEF Rekey, Paid, Idle
<1>6. CASE RecoverElsewhere
  <2>1. link' = TRUE /\ Idle /\ UNCHANGED flush
    BY <1>1, <1>6, AdoptRenumbers DEF RecoverElsewhere
  <2> QED
    BY <2>1 DEF Paid, Idle
<1>7. CASE Reconnected
  <2>1. /\ link' = TRUE /\ ~link /\ UNCHANGED losses /\ ~Idle
        /\ \/ flush' = NoFlush
           \/ flush'.tries = flush.tries + 1 /\ UNCHANGED outcome
    BY <1>1, <1>7, ReconnectMoves DEF Idle
  <2>2. flush' = NoFlush => Idle'
    BY FlushIdles DEF Idle
  <2> QED
    BY <1>1, <2>1, <2>2 DEF Paid
<1>8. CASE GiveUp
  BY <1>1, <1>8, PaidKept DEF GiveUp, End, KeepsLink
<1>9. CASE Resolve
  <2>1. ~Idle /\ KeepsLink /\ (Resolved \/ Unresolved)
    BY <1>1, <1>9, ResolveMoves DEF Idle, KeepsLink
  <2> QED
    BY <1>1, <2>1, PaidKept DEF Resolved, Unresolved
<1>10. CASE Purge
  BY <1>1, <1>10, PurgeMoves, PaidKept DEF Idle
<1>11. CASE Upload
  <2>1. /\ ~Idle
        /\ UploadLands \/ UploadReplaces \/ UploadCut \/ UploadRefused \/ UploadOffline
    BY <1>1, <1>11, UploadMoves DEF Idle
  <2> QED
    BY <1>1, <2>1, PaidKept
    DEF UploadLands, UploadReplaces, UploadCut, UploadRefused, UploadOffline, KeepsLink
<1>12. CASE SafeDelete \/ SafeRename
  <2>1. ~Idle /\ (SafeGoesOn \/ SafeKeepsTemp \/ SafeRenames) /\ (LosesLink \/ KeepsLink)
    BY <1>1, <1>12, SafeMoves DEF Idle
  <2> QED
    BY <1>1, <2>1, PaidKept DEF SafeGoesOn, SafeKeepsTemp, SafeRenames
<1>13. CASE UnsafeDelete
  <2>1. ~Idle /\ (LosesLink \/ KeepsLink)
    BY <1>1, <1>13, UnsafeMoves DEF Idle
  <2>2. \/ flush' = NoFlush
        \/ flush'.tries = flush.tries /\ UNCHANGED outcome
    <3>1. ASSUME NEW p \in {"upload", "reconnect"}, Goes(p)
          PROVE  flush'.tries = flush.tries /\ UNCHANGED outcome
      BY <1>1, <3>1, FlushMoves DEF Goes, Steps, Typed, TypeOK
    <3>2. CASE Stale
      BY <1>1, <3>2, FlushStales DEF Stale, End, StaleBudgetSpent, Typed, TypeOK
    <3> QED
      BY <1>13, <3>1, <3>2 DEF UnsafeDelete, End
  <2> QED
    BY <1>1, <2>1, <2>2, PaidKept
<1> QED
  BY <1>2, <1>3, <1>4, <1>5, <1>6, <1>7, <1>8, <1>9, <1>10, <1>11, <1>12, <1>13
  DEF Next, FlushStep

LEMMA PresentStep ==
  ASSUME SupportsRename PROVE Sound /\ Present /\ [Next]_vars => Present'
<1> SUFFICES ASSUME Sound, Present, [Next]_vars PROVE Present'
  OBVIOUS
<1>0. CASE UNCHANGED vars
  BY <1>0 DEF vars, Present
<1> SUFFICES ASSUME Next PROVE Present'
  BY <1>0
<1>1. /\ Typed /\ Handles
      /\ Idle => flush.pc \notin {"delete", "rename"}
  BY DEF Sound, Idle
<1>2. CASE \/ LinkLoss
           \/ \E f \in Fds : Open(f) \/ Truncate(f) \/ \E d \in Data : Write(f, d)
           \/ GiveUp
  BY <1>1, <1>2 DEF LinkLoss, Open, Truncate, Write, GiveUp, End, Present
<1>3. ASSUME NEW f \in Fds, Release(f) PROVE Present'
  BY <1>1, <1>3 DEF Release, Present
<1>4. CASE Relist
  <2>1. /\ UNCHANGED <<device, flush>> /\ entry \in Entries /\ Idle
        /\ \A o \in device : o.handle \in Nat
    BY <1>1, <1>4, Known DEF Relist, Typed, TypeOK
  <2>2. \/ entry' = None \/ UNCHANGED entry
        \/ entry'.name = entry.name /\ entry'.key = entry.key
    BY <1>4, <2>1, EntryResolves DEF Relist, Named, EntryGoes
  <2> QED
    BY <1>1, <2>1, <2>2, FlushAssumption DEF Present
<1>5. ASSUME NEW o \in device, Reappears(o) \/ Remount(o) PROVE Present'
  <2>1. entry'.name = o.name /\ UNCHANGED device
    BY <1>5 DEF Reappears, Remount
  <2> QED
    BY <2>1 DEF Present
<1>6. ASSUME NEW m, Renumbered(m), UNCHANGED entry, flush.pc \notin {"delete", "rename"} \/ UNCHANGED flush
      PROVE  Present'
  BY <1>6 DEF Renumbered, Present
<1>7. ASSUME NEW o \in device, Rekey(o) PROVE Present'
  <2>1. UNCHANGED <<entry, flush>>
    BY <1>7 DEF Rekey
  <2> QED
    BY <1>1, <1>6, <1>7, <2>1, RekeyRenumbers
<1>8. CASE RecoverElsewhere \/ Reconnected
  <2>1. UNCHANGED entry /\ flush.pc \notin {"delete", "rename"}
    BY <1>1, <1>8 DEF RecoverElsewhere, Reconnected
  <2> QED
    BY <1>1, <1>6, <1>8, <2>1, AdoptRenumbers DEF RecoverElsewhere, Reconnected
<1>9. CASE Resolve
  <2>1. /\ flush.pc = "resolve" /\ UNCHANGED device
        /\ entry' = entry \/ (entry'.name = entry.name /\ entry'.key = entry.key)
        /\ entry # None
    BY <1>1, <1>9, ResolveMoves, FlushAssumption
    DEF Resolved, Unresolved, EntryGoes, Typed
  <2> QED
    BY <2>1 DEF Present
<1>10. CASE Purge
  <2>1. /\ \A o \in device : o \in device' \/ o.name = Temp(entry.name)
        /\ UNCHANGED entry /\ flush.pc = "purge" /\ entry # None
    BY <1>1, <1>10, PurgeMoves, FlushAssumption DEF Typed
  <2>2. Temp(entry.name) # entry.name
    BY <1>1, <2>1, Known
  <2> QED
    BY <2>1, <2>2 DEF Present
<1>11. CASE Upload
  <2>1. UNCHANGED device \/ \E x : device' = device \cup {x}
    BY <1>1, <1>11, UploadMoves
    DEF UploadLands, UploadReplaces, UploadCut, UploadRefused, UploadOffline, Left, Added
  <2>2. flush.pc = "upload" /\ UNCHANGED entry
    BY <1>1, <1>11, UploadMoves
    DEF UploadLands, UploadReplaces, UploadCut, UploadRefused, UploadOffline
  <2> QED
    BY <2>1, <2>2 DEF Present
<1>12. CASE SafeDelete \/ SafeRename
  <2>1. /\ SafeGoesOn \/ SafeKeepsTemp \/ SafeRenames
        /\ entry # None /\ entry.key <= entry.name
        /\ flush.pc \in {"delete", "rename"}
    BY <1>1, <1>12, SafeMoves, FlushAssumption DEF Typed, Handles
  <2>2. CASE SafeGoesOn
    BY <2>2 DEF SafeGoesOn, FlushGoes, Present
  <2>3. CASE SafeKeepsTemp
    <3>1. entry'.name = Temp(entry.name) /\ entry'.key = entry.key
      BY <2>3 DEF SafeKeepsTemp, EntryGoes
    <3>2. entry'.name # entry'.key
      BY <1>1, <2>1, <3>1, Known
    <3> QED
      BY <3>2 DEF Present
  <2>4. CASE SafeRenames
    <3>1. /\ device' = RenamedTo(flush.new, entry.name) /\ entry'.name = entry.name
          /\ entry.name \in Nat
      BY <1>1, <2>1, <2>4, Known DEF SafeRenames, EntryGoes
    <3>2. PICK o \in device : o.handle = flush.new
      BY <2>4 DEF SafeRenames, WithHandle
    <3>3. \E q \in device' : q.name = entry.name
      BY <1>1, <3>1, <3>2, ObjectRenamed
    <3> QED
      BY <3>1, <3>3 DEF Present
  <2> QED
    BY <2>1, <2>2, <2>3, <2>4
<1> QED
  BY <1>2, <1>3, <1>4, <1>5, <1>7, <1>8, <1>9, <1>10, <1>11, <1>12
  DEF Next, FlushStep, UnsafeDelete

(* On a device that can rename, disconnects alone never fail a close of a  *)
(* file that is there under its own name: with fewer of them than there    *)
(* are attempts, the upload is tried again until it succeeds or the mount  *)
(* gives up.  Without rename the code does not keep this (FlushUnsafeCut). *)
THEOREM CutUploadRetried ==
  ASSUME SupportsRename PROVE Spec => CutUploadIsRetried
<1> DEFINE Retried == ~Idle /\ outcome' = "failed" => \/ refused'
                                                     \/ losses' >= MAX_ATTEMPTS
                                                     \/ entry.name # entry.key
           IInv == Sound /\ Paid /\ Present
<1>1. Init => IInv
  BY SoundInit, PaidInit
<1>2. IInv /\ [Next]_vars => IInv'
  BY SoundStep, PaidStep, PresentStep
<1>3. IInv /\ [Next]_vars => [Retried]_vars
  <2> SUFFICES ASSUME IInv, Next, ~Idle, outcome' = "failed", ~refused', entry.name = entry.key
               PROVE  losses' >= MAX_ATTEMPTS
    BY DEF Typed
  <2>1. Typed /\ outcome = "none" /\ flush.pc \in Steps
    BY DEF Sound, Paid, Typed, TypeOK, Flushes, Steps
  <2>2. CASE Reconnected
    <3>1. flush.tries = MAX_ATTEMPTS /\ ~link /\ UNCHANGED losses
      BY <2>1, <2>2, ReconnectMoves
    <3> QED
      BY <3>1 DEF Paid
  <2>3. CASE Resolve
    <3>1. Named(entry.name) = {} /\ flush.pc = "resolve" /\ entry # None
      BY <2>1, <2>3, ResolveMoves, FlushAssumption DEF Resolved, Unresolved, Typed
    <3> QED
      BY <3>1 DEF Present, Named
  <2>4. CASE Upload
    BY <2>1, <2>4, UploadMoves
    DEF UploadLands, UploadReplaces, UploadCut, UploadRefused, UploadOffline
  <2>5. CASE Purge
    BY <2>1, <2>5, PurgeMoves
  <2>6. CASE SafeDelete \/ SafeRename
    BY <2>1, <2>6, SafeMoves DEF SafeGoesOn, SafeKeepsTemp, SafeRenames
  <2>7. CASE GiveUp
    BY <2>7 DEF GiveUp, End
  <2>8. CASE LinkLoss \/ \E o \in device : Rekey(o)
    BY <2>1, <2>8 DEF LinkLoss, Rekey
  <2> QED
    BY <2>2, <2>3, <2>4, <2>5, <2>6, <2>7, <2>8
    DEF Next, FlushStep, UnsafeDelete, Open, Write, Truncate, Release, Relist, Reappears, Remount,
        RecoverElsewhere
<1> HIDE DEF Retried, IInv
<1> QED
  BY <1>1, <1>2, <1>3, PTL DEF Spec, CutUploadIsRetried, Retried
====
