-------------------------- MODULE SupervisorProofs --------------------------
(***************************************************************************)
(* Proofs about the daemon, for any devices and keys, any number of plugs, *)
(* mounts, crashes and signals, with or without resets and refused mounts. *)
(***************************************************************************)
EXTENDS Supervisor, FiniteSetTheorems, TLAPS

(* What really is in the channels: only a stop has no key, and an arrival  *)
(* names its device.                                                       *)
SoundCommands ==
  {c \in Commands : /\ c.what # "stop" => c.key \in Keys
                    /\ c.what = "arrived" => c.device \in Devices}

(* A watcher thread belongs to a mount of a device. *)
Watched(f) == \A m \in Ids : f[m].watcher => f[m].device \in Devices

(* The types that the steps need, beyond TypeOK. *)
Typed ==
  /\ TypeOK
  /\ IsFiniteSet(plugged)
  /\ usb \in Seq(SoundCommands) /\ commands \in Seq(SoundCommands)
  /\ sup \in [pc : {"down", "clean", "recv", "mount", "unmount", "stop"},
              key : Keys \cup {None}, id : Ids \cup {None}, left : SUBSET Keys]
  /\ Watched(mount)
  /\ sup.pc = "mount" => /\ sup.key \in Keys
                         /\ sup.id \in Ids
                         /\ mount[sup.id].device \in Devices
  /\ sup.pc = "unmount" => sup.key \in Keys
  /\ sup.pc \in {"down", "clean"} => mounts = [k \in Keys |-> None]
  /\ crashes \in Nat /\ stops \in Nat

(* The map, the kernel and the mount root say the same of the key k. *)
Agrees(k) ==
  /\ k \in dirs <=> mounts[k] # None
  /\ kernel[k] = IF mounts[k] = None THEN <<>> ELSE <<mounts[k]>>

(* Where the supervisor stands decides which keys agree.  Only the key of  *)
(* a mount or an unmount in progress may differ, and how.  With the daemon *)
(* down nothing is known of the map, but every mount that a crash left     *)
(* behind is under a directory, where the sweep will find it.              *)
Phase ==
  /\ sup.pc = "recv" => \A k \in Keys : Agrees(k)
  /\ sup.pc = "mount" =>
       /\ mounts[sup.key] = None /\ kernel[sup.key] = <<>> /\ sup.key \in dirs
       /\ \A k \in Keys \ {sup.key} : Agrees(k)
  /\ sup.pc = "unmount" =>
       /\ mounts[sup.key] = None /\ sup.key \in dirs
       /\ \E m \in Ids : kernel[sup.key] = <<m>>
       /\ \A k \in Keys \ {sup.key} : Agrees(k)
  /\ sup.pc = "stop" => sup.left = MountedKeys /\ \A k \in Keys : Agrees(k)
  /\ sup.pc \in {"down", "clean"} =>
       /\ \A k \in Keys : kernel[k] # <<>> => k \in dirs
       /\ crashes = 0 => dirs = {} /\ \A k \in Keys : kernel[k] = <<>>

(* The inductive invariant of the mount root. *)
IInv == Typed /\ Phase
-----------------------------------------------------------------------------
(* A device's own key, and every key its departure may name, is a key. *)
LEMMA KeyOfDevice ==
  ASSUME NEW d \in Devices
  PROVE  Key[d] \in Keys /\ LeftAs[d] \subseteq Keys
BY DEF Keys

(* Events, as they are sent, are sound commands. *)
LEMMA EventSound ==
  /\ \A d \in Devices : Event("arrived", Key[d], d) \in SoundCommands
  /\ \A d \in Devices : \A k \in LeftAs[d] : Event("left", k, d) \in SoundCommands
  /\ \A k \in Keys : Event("give_up", k, None) \in SoundCommands
  /\ Event("stop", None, None) \in SoundCommands
BY KeyOfDevice DEF Event, SoundCommands, Commands

(* Taking the head of the channel leaves a channel. *)
LEMMA ReceivedSound ==
  ASSUME NEW what, commands \in Seq(SoundCommands), Received(what)
  PROVE  /\ Head(commands) \in SoundCommands
         /\ Head(commands).what = what
         /\ commands' \in Seq(SoundCommands)
BY DEF Received

(* The sweep reports every device that is plugged in, as arrivals. *)
LEMMA SweepReports ==
  ASSUME Typed,
         NEW order \in [1 .. Cardinality(plugged) -> plugged]
  PROVE  [i \in DOMAIN order |-> Event("arrived", Key[order[i]], order[i])]
           \in Seq(SoundCommands)
<1>1. Cardinality(plugged) \in Nat
  BY FS_CardinalityType DEF Typed
<1>2. \A i \in 1 .. Cardinality(plugged) :
        Event("arrived", Key[order[i]], order[i]) \in SoundCommands
  BY EventSound DEF Typed, TypeOK
<1> QED
  BY <1>1, <1>2

(* A flag of a mount's record changes, and nothing else of it. *)
LEMMA FlagFacts ==
  ASSUME NEW r \in MountRecords
  PROVE  /\ [r EXCEPT !.alive = FALSE] \in MountRecords
         /\ [r EXCEPT !.alive = FALSE].device = r.device
         /\ [r EXCEPT !.alive = FALSE].watcher = r.watcher
         /\ [r EXCEPT !.asked = TRUE] \in MountRecords
         /\ [r EXCEPT !.asked = TRUE].device = r.device
         /\ [r EXCEPT !.asked = TRUE].watcher = r.watcher
         /\ [r EXCEPT !.stop = TRUE] \in MountRecords
         /\ [r EXCEPT !.stop = TRUE].device = r.device
         /\ [r EXCEPT !.stop = TRUE].watcher = r.watcher
         /\ [r EXCEPT !.watcher = TRUE] \in MountRecords
         /\ [r EXCEPT !.watcher = TRUE].device = r.device
         /\ [r EXCEPT !.watcher = TRUE].watcher = TRUE
         /\ [r EXCEPT !.watcher = FALSE] \in MountRecords
         /\ [r EXCEPT !.watcher = FALSE].device = r.device
         /\ [r EXCEPT !.watcher = FALSE].watcher = FALSE
BY DEF MountRecords

(* One mount gets a new record. *)
LEMMA OneMount ==
  ASSUME NEW f \in [Ids -> MountRecords], NEW m \in Ids, NEW r \in MountRecords,
         Watched(f), r.watcher => r.device \in Devices
  PROVE  /\ [f EXCEPT ![m] = r] \in [Ids -> MountRecords]
         /\ Watched([f EXCEPT ![m] = r])
         /\ \A i \in Ids : [f EXCEPT ![m] = r][i] = IF i = m THEN r ELSE f[i]
BY DEF Watched

(* A mount whose flag changes keeps its device; only a mount of a device   *)
(* gets a watcher.                                                         *)
LEMMA OneFlag ==
  ASSUME NEW m \in Ids, mount \in [Ids -> MountRecords], Watched(mount),
         \/ mount' = [mount EXCEPT ![m].alive = FALSE]
         \/ mount' = [mount EXCEPT ![m].asked = TRUE]
         \/ mount' = [mount EXCEPT ![m].stop = TRUE]
         \/ mount' = [mount EXCEPT ![m].watcher = FALSE]
         \/ mount' = [mount EXCEPT ![m].watcher = TRUE] /\ mount[m].device \in Devices
  PROVE  /\ mount' \in [Ids -> MountRecords]
         /\ Watched(mount')
         /\ \A i \in Ids : mount'[i].device = mount[i].device
<1>1. ASSUME NEW r \in MountRecords, r.device = mount[m].device,
             r.watcher => r.device \in Devices, mount' = [mount EXCEPT ![m] = r]
      PROVE  /\ mount' \in [Ids -> MountRecords]
             /\ Watched(mount')
             /\ \A i \in Ids : mount'[i].device = mount[i].device
  BY <1>1, OneMount
<1>2. CASE mount' = [mount EXCEPT ![m].alive = FALSE]
  <2> DEFINE r == [mount[m] EXCEPT !.alive = FALSE]
  <2>1. r \in MountRecords /\ r.device = mount[m].device /\ r.watcher = mount[m].watcher
    BY FlagFacts
  <2>2. mount' = [mount EXCEPT ![m] = r]
    BY <1>2
  <2>3. r.watcher => r.device \in Devices
    BY <1>2, <2>1 DEF Watched
  <2> HIDE DEF r
  <2> QED
    BY <1>1, <2>1, <2>2, <2>3
<1>3. CASE mount' = [mount EXCEPT ![m].asked = TRUE]
  <2> DEFINE r == [mount[m] EXCEPT !.asked = TRUE]
  <2>1. r \in MountRecords /\ r.device = mount[m].device /\ r.watcher = mount[m].watcher
    BY FlagFacts
  <2>2. mount' = [mount EXCEPT ![m] = r]
    BY <1>3
  <2>3. r.watcher => r.device \in Devices
    BY <1>3, <2>1 DEF Watched
  <2> HIDE DEF r
  <2> QED
    BY <1>1, <2>1, <2>2, <2>3
<1>4. CASE mount' = [mount EXCEPT ![m].stop = TRUE]
  <2> DEFINE r == [mount[m] EXCEPT !.stop = TRUE]
  <2>1. r \in MountRecords /\ r.device = mount[m].device /\ r.watcher = mount[m].watcher
    BY FlagFacts
  <2>2. mount' = [mount EXCEPT ![m] = r]
    BY <1>4
  <2>3. r.watcher => r.device \in Devices
    BY <1>4, <2>1 DEF Watched
  <2> HIDE DEF r
  <2> QED
    BY <1>1, <2>1, <2>2, <2>3
<1>5. CASE mount' = [mount EXCEPT ![m].watcher = FALSE]
  <2> DEFINE r == [mount[m] EXCEPT !.watcher = FALSE]
  <2>1. r \in MountRecords /\ r.device = mount[m].device /\ r.watcher = FALSE
    BY FlagFacts
  <2>2. mount' = [mount EXCEPT ![m] = r]
    BY <1>5
  <2>3. r.watcher => r.device \in Devices
    BY <1>5, <2>1 DEF Watched
  <2> HIDE DEF r
  <2> QED
    BY <1>1, <2>1, <2>2, <2>3
<1>6. CASE mount' = [mount EXCEPT ![m].watcher = TRUE] /\ mount[m].device \in Devices
  <2> DEFINE r == [mount[m] EXCEPT !.watcher = TRUE]
  <2>1. r \in MountRecords /\ r.device = mount[m].device /\ r.watcher = TRUE
    BY FlagFacts
  <2>2. mount' = [mount EXCEPT ![m] = r]
    BY <1>6
  <2>3. r.watcher => r.device \in Devices
    BY <1>6, <2>1 DEF Watched
  <2> HIDE DEF r
  <2> QED
    BY <1>1, <2>1, <2>2, <2>3
<1> QED
  BY <1>2, <1>3, <1>4, <1>5, <1>6

LEMMA TypedInit == Init => Typed
<1> SUFFICES ASSUME Init PROVE Typed
  OBVIOUS
<1>1. IsFiniteSet(plugged)
  BY FS_EmptySet DEF Init
<1>2. NoMount \in MountRecords
  BY DEF NoMount, MountRecords
<1>3. mount \in [Ids -> MountRecords]
  BY <1>2 DEF Init
<1>4. TypeOK
  BY <1>3, SupervisorAssumption DEF Init, TypeOK, At
<1> QED
  BY <1>1, <1>4 DEF Init, Typed, At, NoMount, Watched

(* Every step keeps the types. *)
LEMMA TypedStep == Typed /\ [Next]_vars => Typed'
<1> SUFFICES ASSUME Typed, [Next]_vars PROVE Typed'
  OBVIOUS
<1> USE SupervisorAssumption DEF Typed, TypeOK, cables
<1>0. SoundCommands \subseteq Commands
  BY DEF SoundCommands
<1>1. ASSUME NEW d \in Devices, Plug(d) PROVE Typed'
  <2>1. usb' \in Seq(SoundCommands)
    BY <1>1, EventSound DEF Plug, Report
  <2>2. IsFiniteSet(plugged')
    BY <1>1, FS_AddElement DEF Plug
  <2>3. plugs' \in [Devices -> 0 .. MaxPlugs]
    BY <1>1 DEF Plug
  <2> QED
    BY <1>0, <1>1, <2>1, <2>2, <2>3 DEF Plug
<1>2. ASSUME NEW d \in Devices, Unplug(d) PROVE Typed'
  <2>1. usb' \in Seq(SoundCommands)
    BY <1>2, EventSound DEF Unplug, Report
  <2>2. IsFiniteSet(plugged')
    BY <1>2, FS_RemoveElement DEF Unplug
  <2>3. /\ mount' \in [Ids -> MountRecords]
        /\ Watched(mount')
        /\ \A m \in Ids : mount'[m].device = mount[m].device
    BY <1>2, FlagFacts DEF Unplug, Watched
  <2> QED
    BY <1>0, <1>2, <2>1, <2>2, <2>3 DEF Unplug
<1>3. ASSUME NEW m \in Ids, Reset(m) PROVE Typed'
  <2>1. /\ mount' \in [Ids -> MountRecords]
        /\ Watched(mount')
        /\ \A i \in Ids : mount'[i].device = mount[i].device
    BY <1>3, OneFlag DEF Reset
  <2> QED
    BY <1>3, <2>1 DEF Reset
<1>4. ASSUME NEW m \in Ids, GivesUp(m) PROVE Typed'
  <2>1. /\ mount' \in [Ids -> MountRecords]
        /\ Watched(mount')
        /\ \A i \in Ids : mount'[i].device = mount[i].device
    BY <1>4, OneFlag DEF GivesUp
  <2> QED
    BY <1>4, <2>1 DEF GivesUp
<1>5. ASSUME NEW m \in Ids, WatcherSends(m) PROVE Typed'
  <2>1. commands' \in Seq(SoundCommands)
    BY <1>5, EventSound, KeyOfDevice DEF WatcherSends, GiveUpKey, Watched
  <2>2. /\ mount' \in [Ids -> MountRecords]
        /\ Watched(mount')
        /\ \A i \in Ids : mount'[i].device = mount[i].device
    BY <1>5, OneFlag DEF WatcherSends
  <2> QED
    BY <1>0, <1>5, <2>1, <2>2 DEF WatcherSends
<1>6. ASSUME NEW m \in Ids, WatcherStops(m) PROVE Typed'
  <2>1. /\ mount' \in [Ids -> MountRecords]
        /\ Watched(mount')
        /\ \A i \in Ids : mount'[i].device = mount[i].device
    BY <1>6, OneFlag DEF WatcherStops
  <2> QED
    BY <1>6, <2>1 DEF WatcherStops
<1>7. CASE Watch
  <2>1. usb' \in Seq(SoundCommands) /\ commands' \in Seq(SoundCommands)
    BY <1>7 DEF Watch
  <2> QED
    BY <1>0, <1>7, <2>1 DEF Watch
<1>8. CASE Signal
  <2>1. commands' \in Seq(SoundCommands)
    BY <1>8, EventSound DEF Signal
  <2> QED
    BY <1>0, <1>8, <2>1 DEF Signal
<1>9. CASE MountBegin
  <2> DEFINE c == Head(commands)
  <2>1. /\ c \in SoundCommands
        /\ c.what = "arrived"
        /\ commands' \in Seq(SoundCommands)
    BY <1>9, ReceivedSound DEF MountBegin
  <2>2. c.key \in Keys /\ c.device \in Devices
    BY <2>1 DEF SoundCommands
  <2>0. UNCHANGED <<plugged, plugs, usb, mounts, kernel, crashes, stops>>
    BY <1>9 DEF MountBegin
  <2>3. CASE UNCHANGED <<made, mount, sup, dirs>>
    BY <1>0, <2>0, <2>1, <2>3
  <2>4. CASE /\ made < MaxMounts
             /\ made' = made + 1
             /\ mount' = [mount EXCEPT ![made + 1] =
                            [NoMount EXCEPT !.device = c.device, !.alive = TRUE]]
             /\ sup' = [At("mount") EXCEPT !.key = c.key, !.id = made + 1]
             /\ dirs' = dirs \cup {c.key}
    <3> HIDE DEF c
    <3>1. made + 1 \in Ids
      BY <2>4 DEF Ids
    <3>2. PICK r \in MountRecords : /\ mount' = [mount EXCEPT ![made + 1] = r]
                                    /\ r.device = c.device
                                    /\ r.watcher = FALSE
      <4> DEFINE r == [NoMount EXCEPT !.device = c.device, !.alive = TRUE]
      <4>1. r \in MountRecords /\ r.device = c.device /\ r.watcher = FALSE
        BY <2>2 DEF NoMount, MountRecords
      <4> QED
        BY <2>4, <4>1
    <3>3. /\ mount' \in [Ids -> MountRecords]
          /\ mount'[made + 1].device \in Devices
          /\ Watched(mount')
      <4>1. r.watcher => r.device \in Devices
        BY <3>2
      <4>2. mount \in [Ids -> MountRecords] /\ Watched(mount)
        OBVIOUS
      <4> HIDE DEF Typed, TypeOK
      <4>3. mount'[made + 1] = r
        BY <3>1, <3>2, <4>2
      <4> QED
        BY <2>2, <3>1, <3>2, <4>1, <4>2, <4>3, OneMount
    <3>4. sup' = [pc |-> "mount", key |-> c.key, id |-> made + 1, left |-> {}]
      BY <2>4 DEF At
    <3>5. made' \in 0 .. MaxMounts /\ dirs' \subseteq Keys
      BY <2>2, <2>4
    <3> QED
      BY <1>0, <2>0, <2>1, <2>2, <3>1, <3>3, <3>4, <3>5
  <2> QED
    BY <1>9, <2>3, <2>4 DEF MountBegin
<1>10. CASE MountDone
  <2>1. /\ mount' \in [Ids -> MountRecords]
        /\ Watched(mount')
        /\ \A i \in Ids : mount'[i].device = mount[i].device
    BY <1>10, OneFlag DEF MountDone
  <2>2. kernel' \in [Keys -> Seq(Ids)]
    BY <1>10 DEF MountDone
  <2> QED
    BY <1>10, <2>1, <2>2 DEF MountDone, At
<1>11. CASE MountFails
  BY <1>11 DEF MountFails, DirRemoved, At
<1>12. CASE UnmountBegin
  <2> DEFINE k == Head(commands).key
  <2>1. /\ Head(commands) \in SoundCommands
        /\ Head(commands).what \in {"left", "give_up"}
        /\ commands' \in Seq(SoundCommands)
    BY <1>12, ReceivedSound DEF UnmountBegin
  <2>2. k \in Keys
    BY <2>1 DEF SoundCommands
  <2>3. CASE mounts[k] = None
    BY <1>0, <1>12, <2>1, <2>3 DEF UnmountBegin, Target, Unmounts
  <2>4. CASE mounts[k] # None
    <3>1. /\ mounts' = [mounts EXCEPT ![k] = None]
          /\ mount' = [mount EXCEPT ![mounts[k]].stop = TRUE]
          /\ sup' = [pc |-> "unmount", key |-> k, id |-> None, left |-> {}]
      BY <1>12, <2>4 DEF UnmountBegin, Target, Unmounts, StopsWatcher, At
    <3> HIDE DEF k
    <3>2. mounts[k] \in Ids
      BY <2>2, <2>4
    <3>3. /\ mount' \in [Ids -> MountRecords]
          /\ Watched(mount')
          /\ \A i \in Ids : mount'[i].device = mount[i].device
      BY <3>1, <3>2, OneFlag
    <3> QED
      BY <1>0, <1>12, <2>1, <2>2, <3>1, <3>3 DEF UnmountBegin
  <2> QED
    BY <2>3, <2>4
<1>13. CASE UnmountDone
  <2>1. kernel' \in [Keys -> Seq(Ids)]
    BY <1>13 DEF UnmountDone, Detached
  <2> QED
    BY <1>13, <2>1 DEF UnmountDone, DirRemoved, At
<1>14. CASE StopBegin
  <2>1. commands' \in Seq(SoundCommands)
    BY <1>14, ReceivedSound DEF StopBegin
  <2> QED
    BY <1>0, <1>14, <2>1 DEF StopBegin, ToStop, MountedKeys, At
<1>15. ASSUME NEW k \in Keys, StopMount(k) PROVE Typed'
  <2>1. kernel' \in [Keys -> Seq(Ids)]
    BY <1>15 DEF StopMount, Detached
  <2>2. /\ mount' \in [Ids -> MountRecords]
        /\ Watched(mount')
        /\ \A i \in Ids : mount'[i].device = mount[i].device
    <3>1. CASE mounts[k] \in Ids
      BY <1>15, <3>1, OneFlag DEF StopMount, StopsWatcher
    <3>2. CASE mounts[k] = None
      <4>1. mount' = mount
        BY <1>15, <3>2 DEF StopMount, StopsWatcher
      <4> QED
        BY <4>1
    <3> QED
      BY <3>1, <3>2
  <2> QED
    BY <1>15, <2>1, <2>2 DEF StopMount, DirRemoved
<1>16. CASE Exit
  BY <1>16 DEF Exit, Ends, At, NoMount, MountRecords, Watched
<1>17. CASE Crash
  BY <1>17 DEF Crash, Ends, At, NoMount, MountRecords, Watched
<1>18. CASE Start
  BY <1>18 DEF Start, At
<1>19. CASE Clean
  <2>1. usb' \in Seq(SoundCommands)
    <3> HIDE DEF Typed
    <3> QED
      BY <1>19, SweepReports DEF Clean
  <2>2. kernel' \in [Keys -> Seq(Ids)]
    BY <1>19 DEF Clean
  <2> QED
    BY <1>0, <1>19, <2>1, <2>2 DEF Clean, Swept, At
<1>20. CASE UNCHANGED vars
  BY <1>20 DEF vars
<1> QED
  BY <1>1, <1>2, <1>3, <1>4, <1>5, <1>6, <1>7, <1>8, <1>9, <1>10, <1>11, <1>12,
     <1>13, <1>14, <1>15, <1>16, <1>17, <1>18, <1>19, <1>20
  DEF Next, DaemonStep, SupervisorStep

(* The channels, the map, the mounts and the kernel's table have the types *)
(* the daemon's code gives them, in every reachable state.                 *)
THEOREM TypeCorrect == Spec => []TypeOK
<1>1. Typed => TypeOK
  BY DEF Typed
<1> QED
  BY <1>1, TypedInit, TypedStep, PTL DEF Spec
-----------------------------------------------------------------------------
LEMMA PhaseInit == Init => Phase
BY DEF Init, Phase, At

(* A step of the cables, of USB, of the watchers or of a signal. *)
LEMMA PhaseOutside ==
  ASSUME Phase, UNCHANGED <<sup, mounts, kernel, dirs, crashes>>
  PROVE  Phase'
BY DEF Phase, Agrees, MountedKeys

(* The last mount at a path, detached, leaves the path bare. *)
LEMMA DetachLast ==
  ASSUME NEW m, NEW k \in Keys, kernel \in [Keys -> Seq(Ids)], kernel[k] = <<m>>
  PROVE  Detached(k) = [kernel EXCEPT ![k] = <<>>]
<1>1. SubSeq(<<m>>, 1, Len(<<m>>) - 1) = <<>>
  OBVIOUS
<1> QED
  BY <1>1 DEF Detached

(* However the daemon ends, what the kernel still holds is under the mount *)
(* root; and when it ends in order, nothing is held.                       *)
LEMMA PhaseEnds ==
  ASSUME Typed, Phase, Ends, crashes \in Nat,
         crashes' = 0 => crashes = 0 /\ sup.pc = "stop" /\ sup.left = {}
  PROVE  Phase'
<1>1. \A k \in Keys : kernel[k] # <<>> => k \in dirs
  BY DEF Phase, Agrees, Typed, TypeOK
<1>2. crashes' = 0 => dirs = {} /\ \A k \in Keys : kernel[k] = <<>>
  BY DEF Phase, Agrees, Typed, TypeOK, MountedKeys
<1> QED
  BY <1>1, <1>2 DEF Phase, Ends, At

(* Every step keeps the phase. *)
LEMMA PhaseStep == Typed /\ Phase /\ [Next]_vars => Phase'
<1> SUFFICES ASSUME Typed, Phase, [Next]_vars PROVE Phase'
  OBVIOUS
<1> USE SupervisorAssumption
<1>1. CASE (\E d \in Devices : Plug(d) \/ Unplug(d)) \/ Watch \/ Signal
             \/ \E m \in Ids : Reset(m) \/ GivesUp(m) \/ WatcherSends(m) \/ WatcherStops(m)
  BY <1>1, PhaseOutside
  DEF Plug, Unplug, Watch, Signal, Reset, GivesUp, WatcherSends, WatcherStops
<1>2. CASE MountBegin
  <2>1. Head(commands).key \in Keys
    BY <1>2, ReceivedSound DEF MountBegin, Typed, SoundCommands
  <2>2. sup.pc = "recv" /\ \A k \in Keys : Agrees(k)
    BY <1>2 DEF MountBegin, Received, Phase
  <2>3. CASE UNCHANGED sup /\ UNCHANGED dirs
    BY <1>2, <2>3, PhaseOutside DEF MountBegin
  <2>4. CASE /\ mounts[Head(commands).key] = None
             /\ sup' = [At("mount") EXCEPT !.key = Head(commands).key,
                                           !.id = made + 1]
             /\ dirs' = dirs \cup {Head(commands).key}
    BY <1>2, <2>1, <2>2, <2>4 DEF MountBegin, Phase, Agrees, At
  <2> QED
    BY <1>2, <2>3, <2>4 DEF MountBegin, IgnoresSecond
<1>3. CASE MountDone
  <2>1. sup.pc = "mount" /\ sup.key \in Keys /\ sup.id \in Ids /\ sup.id # None
    BY <1>3 DEF MountDone, Typed
  <2>2. /\ mounts' = [mounts EXCEPT ![sup.key] = sup.id]
        /\ kernel' = [kernel EXCEPT ![sup.key] = <<sup.id>>]
        /\ dirs' = dirs /\ sup.key \in dirs
    <3>1. kernel[sup.key] = <<>> /\ Append(<<>>, sup.id) = <<sup.id>>
      BY <2>1 DEF Phase
    <3> QED
      BY <1>3, <2>1, <3>1 DEF MountDone, Phase, Typed, TypeOK
  <2>3. \A k \in Keys : Agrees(k)'
    BY <2>1, <2>2 DEF Phase, Agrees, Typed, TypeOK
  <2> QED
    BY <1>3, <2>3 DEF MountDone, Phase, At
<1>4. CASE MountFails
  <2>1. sup.pc = "mount" /\ sup.key \in Keys
    BY <1>4 DEF MountFails, Typed
  <2>2. \A k \in Keys : Agrees(k)'
    BY <1>4, <2>1 DEF MountFails, DirRemoved, Phase, Agrees, Typed, TypeOK
  <2> QED
    BY <1>4, <2>2 DEF MountFails, Phase, At
<1>5. CASE UnmountBegin
  <2> DEFINE c == Head(commands)
  <2>1. sup.pc = "recv" /\ c.key \in Keys
    BY <1>5, ReceivedSound DEF UnmountBegin, Received, Typed, SoundCommands
  <2>2. CASE mounts[c.key] = None
    BY <1>5, <2>2, PhaseOutside DEF UnmountBegin, Unmounts, Target
  <2>3. CASE mounts[c.key] # None
    <3>1. /\ mounts' = [mounts EXCEPT ![c.key] = None]
          /\ sup' = [At("unmount") EXCEPT !.key = c.key]
          /\ UNCHANGED <<kernel, dirs>>
      BY <1>5, <2>3 DEF UnmountBegin, Unmounts, Target
    <3>2. mounts[c.key] \in Ids /\ kernel[c.key] = <<mounts[c.key]>> /\ c.key \in dirs
      BY <2>1, <2>3 DEF Phase, Agrees, Typed, TypeOK
    <3> HIDE DEF c
    <3> QED
      BY <2>1, <3>1, <3>2 DEF Phase, Agrees, At, Typed, TypeOK
  <2> QED
    BY <2>2, <2>3
<1>6. CASE UnmountDone
  <2>1. sup.pc = "unmount" /\ sup.key \in Keys
    BY <1>6 DEF UnmountDone, Typed
  <2>2. kernel' = [kernel EXCEPT ![sup.key] = <<>>]
    BY <1>6, <2>1, DetachLast DEF UnmountDone, Phase, Typed, TypeOK
  <2>3. \A k \in Keys : Agrees(k)'
    BY <1>6, <2>1, <2>2 DEF UnmountDone, DirRemoved, Phase, Agrees, Typed, TypeOK
  <2> QED
    BY <1>6, <2>3 DEF UnmountDone, Phase, At
<1>7. CASE StopBegin
  BY <1>7 DEF StopBegin, Received, ToStop, MountedKeys, Phase, Agrees, At
<1>8. ASSUME NEW j \in Keys, StopMount(j) PROVE Phase'
  <2>1. /\ sup.pc = "stop" /\ sup.left = MountedKeys /\ mounts[j] # None
        /\ kernel[j] = <<mounts[j]>> /\ \A k \in Keys : Agrees(k)
    BY <1>8 DEF StopMount, Phase, Agrees, MountedKeys
  <2>2. kernel' = [kernel EXCEPT ![j] = <<>>]
    BY <1>8, <2>1, DetachLast DEF StopMount, Typed, TypeOK
  <2>3. \A k \in Keys : Agrees(k)'
    BY <1>8, <2>1, <2>2 DEF StopMount, DirRemoved, Agrees, Typed, TypeOK
  <2>4. sup'.pc = "stop" /\ sup'.left = MountedKeys'
    BY <1>8, <2>1 DEF StopMount, MountedKeys, Typed, TypeOK
  <2> QED
    BY <2>3, <2>4 DEF Phase
<1>9. CASE Exit
  BY <1>9, PhaseEnds DEF Exit, Typed
<1>10. CASE Crash
  BY <1>10, PhaseEnds DEF Crash, Typed
<1>11. CASE Start
  BY <1>11 DEF Start, Phase, At
<1>12. CASE Clean
  BY <1>12 DEF Clean, Swept, Phase, Agrees, Typed, TypeOK, At
<1>13. CASE UNCHANGED vars
  BY <1>13, PhaseOutside DEF vars
<1> QED
  BY <1>1, <1>2, <1>3, <1>4, <1>5, <1>6, <1>7, <1>8, <1>9, <1>10, <1>11, <1>12, <1>13
  DEF Next, DaemonStep, SupervisorStep

(* Between two commands the directories under the mount root, the kernel's *)
(* mount table and the supervisor's map agree, and an orderly shutdown     *)
(* leaves nothing: for any devices, even ones that share a key, after any  *)
(* crashes, sweeps and refused mounts.                                     *)
THEOREM MountRootCorrect == Spec => []MountRootExact
<1>1. Init => IInv
  BY TypedInit, PhaseInit DEF IInv
<1>2. IInv /\ [Next]_vars => IInv'
  BY TypedStep, PhaseStep DEF IInv
<1>3. IInv => MountRootExact
  BY DEF IInv, Typed, TypeOK, Phase, Agrees, MountRootExact, MountedKeys
<1> QED
  BY <1>1, <1>2, <1>3, PTL DEF Spec
-----------------------------------------------------------------------------
(* No two devices share a key, and none leaves under another's. *)
DistinctKeys ==
  \A d, e \in Devices : Key[d] \in {Key[e]} \cup LeftAs[e] => d = e

(* Where a command comes from: an arrival and a departure from a device    *)
(* that was plugged in, a departure while the device is back only if it    *)
(* was plugged in again, a give-up from a mount whose session is dead.     *)
Origin(c) ==
  /\ c.what \in {"arrived", "left"} => c.device \in Devices /\ plugs[c.device] >= 1
  /\ c.what = "arrived" => c.key = Key[c.device]
  /\ c.what = "left" => /\ c.key \in LeftAs[c.device]
                        /\ c.device \in plugged => plugs[c.device] > 1
  /\ c.what = "give_up" =>
       \E m \in Ids : /\ mount[m].device \in Devices /\ ~mount[m].alive
                      /\ Key[mount[m].device] = c.key

Origins ==
  /\ \A i \in 1 .. Len(usb) : Origin(usb[i])
  /\ \A i \in 1 .. Len(commands) : Origin(commands[i])

(* Every mount has a device that was plugged in, a live one a device that  *)
(* is; the map files each mount under its device's key.                    *)
Attached ==
  /\ \A d \in plugged : plugs[d] >= 1
  /\ \A m \in Ids :
       /\ mount[m].device # None => m <= made /\ plugs[mount[m].device] >= 1
       /\ mount[m].alive => mount[m].device \in plugged
       /\ mount[m].asked => ~mount[m].alive
  /\ \A k \in Keys : mounts[k] # None =>
       mount[mounts[k]].device \in Devices /\ Key[mount[mounts[k]].device] = k
  /\ sup.pc = "mount" => Key[mount[sup.id].device] = sup.key
  /\ sup.pc \in {"down", "clean"} =>
       /\ usb = <<>> /\ commands = <<>>
       /\ \A m \in Ids : mount[m] = NoMount

(* The places of a channel where the device's arrival waits. *)
Arrivals(q, d) == {i \in 1 .. Len(q) : q[i].what = "arrived" /\ q[i].device = d}

(* A device plugged in once is reported once in a life of the daemon: its  *)
(* one arrival waits in one place, or its one mount was made.              *)
Once(d) ==
  plugs[d] <= 1 =>
    /\ \A i, j \in Arrivals(usb, d) : i = j
    /\ \A i, j \in Arrivals(commands, d) : i = j
    /\ Arrivals(usb, d) = {} \/ Arrivals(commands, d) = {}
    /\ \A m \in Ids : mount[m].device = d =>
         /\ Arrivals(usb, d) = {} /\ Arrivals(commands, d) = {}
         /\ \A n \in Ids : mount[n].device = d => m = n

(* What keeps a live mount in place. *)
Kept ==
  /\ Origins
  /\ Attached
  /\ \A d \in Devices : Once(d)

(* Sessions only die, and devices stay, from one state to the next. *)
Aged ==
  \A m \in Ids : /\ mount'[m].device = mount[m].device
                 /\ mount'[m].alive => mount[m].alive
                 /\ mount'[m].asked => mount[m].asked \/ ~mount[m].alive

LEMMA ArrivalsAppend ==
  ASSUME NEW T, NEW q \in Seq(T), NEW e, NEW d
  PROVE  Arrivals(Append(q, e), d) =
           IF e.what = "arrived" /\ e.device = d
           THEN Arrivals(q, d) \cup {Len(q) + 1} ELSE Arrivals(q, d)
BY DEF Arrivals

LEMMA ArrivalsTail ==
  ASSUME NEW T, NEW q \in Seq(T), q # <<>>, NEW d
  PROVE  /\ 1 \in Arrivals(q, d) <=> Head(q).what = "arrived" /\ Head(q).device = d
         /\ \A i \in Arrivals(Tail(q), d) : i \in Nat /\ i + 1 \in Arrivals(q, d) /\ i + 1 # 1
BY DEF Arrivals

LEMMA ArrivalsEmpty ==
  ASSUME NEW d PROVE Arrivals(<<>>, d) = {}
BY DEF Arrivals

(* A flag of one mount changes. *)
LEMMA FlagAges ==
  ASSUME NEW m \in Ids, mount \in [Ids -> MountRecords],
         \/ mount' = [mount EXCEPT ![m].alive = FALSE]
         \/ mount' = [mount EXCEPT ![m].asked = TRUE] /\ ~mount[m].alive
         \/ mount' = [mount EXCEPT ![m].stop = TRUE]
         \/ mount' = [mount EXCEPT ![m].watcher = FALSE]
         \/ mount' = [mount EXCEPT ![m].watcher = TRUE]
  PROVE  Aged
<1>1. \A i \in Ids : i # m => mount'[i] = mount[i]
  OBVIOUS
<1>2. /\ mount'[m].device = mount[m].device
      /\ mount'[m].alive => mount[m].alive
      /\ mount'[m].asked => mount[m].asked \/ ~mount[m].alive
  BY DEF MountRecords
<1> QED
  BY <1>1, <1>2 DEF Aged

(* The devices a mount had, it has. *)
LEMMA SameAges == ASSUME UNCHANGED mount PROVE Aged
BY DEF Aged

(* What a command stood for, it stands for. *)
LEMMA OriginAges ==
  ASSUME Aged, UNCHANGED plugs, plugged' \subseteq plugged, NEW c, Origin(c)
  PROVE  Origin(c)'
BY DEF Aged, Origin

(* A channel that loses its head or gains a command that has an origin. *)
LEMMA OriginsMove ==
  ASSUME Typed, Origins, \A c : Origin(c) => Origin(c)',
         \/ usb' = usb
         \/ \E e : Origin(e)' /\ usb' = Append(usb, e)
         \/ usb # <<>> /\ usb' = Tail(usb)
         \/ usb' = <<>>,
         \/ commands' = commands
         \/ \E e : Origin(e)' /\ commands' = Append(commands, e)
         \/ commands # <<>> /\ commands' = Tail(commands)
         \/ commands' = <<>>
  PROVE  Origins'
<1>0. usb \in Seq(SoundCommands) /\ commands \in Seq(SoundCommands)
  BY DEF Typed
<1>1. \A i \in 1 .. Len(usb') : Origin(usb[i])'
  <2>1. CASE usb' = usb
    BY <2>1 DEF Origins
  <2>2. CASE \E e : Origin(e)' /\ usb' = Append(usb, e)
    BY <1>0, <2>2 DEF Origins
  <2>3. CASE usb # <<>> /\ usb' = Tail(usb)
    BY <1>0, <2>3 DEF Origins
  <2>4. CASE usb' = <<>>
    BY <2>4
  <2> QED
    BY <2>1, <2>2, <2>3, <2>4
<1>2. \A i \in 1 .. Len(commands') : Origin(commands[i])'
  <2>1. CASE commands' = commands
    BY <2>1 DEF Origins
  <2>2. CASE \E e : Origin(e)' /\ commands' = Append(commands, e)
    BY <1>0, <2>2 DEF Origins
  <2>3. CASE commands # <<>> /\ commands' = Tail(commands)
    BY <1>0, <2>3 DEF Origins
  <2>4. CASE commands' = <<>>
    BY <2>4
  <2> QED
    BY <2>1, <2>2, <2>3, <2>4
<1> QED
  BY <1>1, <1>2 DEF Origins

(* The steps that change a mount at most by aging it, and no cable. *)
LEMMA StepAges ==
  ASSUME Typed, Attached,
         \/ \E d \in Devices : Unplug(d)
         \/ \E m \in Ids : Reset(m) \/ GivesUp(m) \/ WatcherSends(m) \/ WatcherStops(m)
         \/ Watch \/ Signal \/ MountDone \/ MountFails \/ UnmountBegin \/ UnmountDone
         \/ StopBegin \/ (\E k \in Keys : StopMount(k)) \/ Start \/ Clean
         \/ UNCHANGED vars
  PROVE  Aged
<1>0. mount \in [Ids -> MountRecords]
  BY DEF Typed, TypeOK
<1>1. ASSUME NEW d \in Devices, Unplug(d) PROVE Aged
  BY <1>0, <1>1 DEF Unplug, Aged, MountRecords
<1>2. ASSUME NEW m \in Ids, Reset(m) \/ GivesUp(m) \/ WatcherSends(m) \/ WatcherStops(m)
      PROVE  Aged
  BY <1>0, <1>2, FlagAges DEF Reset, GivesUp, WatcherSends, WatcherStops
<1>3. CASE MountDone
  BY <1>0, <1>3, FlagAges DEF MountDone, Typed
<1>4. CASE UnmountBegin
  <2> DEFINE k == Head(commands).key
  <2>1. CASE UNCHANGED mount
    BY <2>1, SameAges
  <2>2. CASE mounts[k] # None /\ mount' = StopsWatcher(mounts[k])
    <3>1. k \in Keys
      BY <1>4, ReceivedSound DEF UnmountBegin, Typed, SoundCommands
    <3>2. mounts[k] \in Ids
      BY <2>2, <3>1 DEF Typed, TypeOK
    <3> HIDE DEF k
    <3> QED
      BY <1>0, <2>2, <3>2, FlagAges DEF StopsWatcher
  <2> QED
    BY <1>4, <2>1, <2>2 DEF UnmountBegin, Target, Unmounts
<1>5. ASSUME NEW k \in Keys, StopMount(k) PROVE Aged
  <2>1. CASE mounts[k] \in Ids
    BY <1>0, <1>5, <2>1, FlagAges DEF StopMount, StopsWatcher
  <2>2. CASE mounts[k] = None
    <3>1. mount' = mount
      BY <1>0, <1>5, <2>2, SupervisorAssumption DEF StopMount, StopsWatcher
    <3> QED
      BY <3>1, SameAges
  <2> QED
    BY <2>1, <2>2 DEF Typed, TypeOK
<1> QED
  BY <1>1, <1>2, <1>3, <1>4, <1>5, SameAges
  DEF Watch, Signal, MountFails, UnmountDone, StopBegin, Start, Clean, vars

LEMMA OriginsStep == Typed /\ Attached /\ Origins /\ [Next]_vars => Origins'
<1> SUFFICES ASSUME Typed, Attached, Origins, [Next]_vars PROVE Origins'
  OBVIOUS
<1> USE DEF cables
<1>1. ASSUME NEW d \in Devices, Plug(d) PROVE Origins'
  <2>1. \A c : Origin(c) => Origin(c)'
    BY <1>1 DEF Plug, Origin, Typed, TypeOK
  <2>2. Origin(Event("arrived", Key[d], d))'
    BY <1>1 DEF Plug, Origin, Event, Typed, TypeOK
  <2> QED
    BY <1>1, <2>1, <2>2, OriginsMove DEF Plug, Report
<1>2. ASSUME NEW d \in Devices, Unplug(d) PROVE Origins'
  <2>1. \A c : Origin(c) => Origin(c)'
    BY <1>2, StepAges, OriginAges DEF Unplug
  <2>2. \A k \in LeftAs[d] : Origin(Event("left", k, d))'
    BY <1>2 DEF Unplug, Origin, Event, Attached
  <2> QED
    BY <1>2, <2>1, <2>2, OriginsMove DEF Unplug, Report
<1>3. ASSUME NEW m \in Ids, Reset(m) \/ GivesUp(m) \/ WatcherStops(m) PROVE Origins'
  BY <1>3, StepAges, OriginAges, OriginsMove DEF Reset, GivesUp, WatcherStops
<1>4. ASSUME NEW m \in Ids, WatcherSends(m) PROVE Origins'
  <2>1. \A c : Origin(c) => Origin(c)'
    BY <1>4, StepAges, OriginAges DEF WatcherSends
  <2>2. mount[m].device \in Devices /\ ~mount[m].alive
    BY <1>4 DEF WatcherSends, Typed, Watched, Attached
  <2>3. mount'[m].device = mount[m].device /\ ~mount'[m].alive
    BY <1>4, <2>2, StepAges DEF Aged
  <2>4. \A k : k = GiveUpKey(m) => Origin(Event("give_up", k, None))'
    BY <2>2, <2>3 DEF Origin, Event, GiveUpKey
  <2> QED
    BY <1>4, <2>1, <2>4, OriginsMove DEF WatcherSends
<1>5. CASE Watch
  <2>1. \A c : Origin(c) => Origin(c)'
    BY <1>5, StepAges, OriginAges DEF Watch
  <2>2. Origin(Head(usb))
    BY <1>5 DEF Watch, Origins, Typed
  <2> QED
    BY <1>5, <2>1, <2>2, OriginsMove DEF Watch
<1>6. CASE Signal
  <2>1. \A c : Origin(c) => Origin(c)'
    BY <1>6, StepAges, OriginAges DEF Signal
  <2>2. Origin(Event("stop", None, None))'
    BY DEF Origin, Event
  <2> QED
    BY <1>6, <2>1, <2>2, OriginsMove DEF Signal
<1>7. CASE MountBegin
  <2>1. \A m \in Ids : mount[m].device \in Devices => mount'[m] = mount[m]
    <3>1. \A m \in Ids : mount[m].device \in Devices => m # made + 1
      BY SupervisorAssumption DEF Attached, Typed, TypeOK, Ids
    <3>2. \A m \in Ids : m # made + 1 => mount'[m] = mount[m]
      BY <1>7 DEF MountBegin, Typed, TypeOK
    <3> QED
      BY <3>1, <3>2
  <2>2. \A c : Origin(c) => Origin(c)'
    BY <1>7, <2>1 DEF MountBegin, Origin
  <2> QED
    BY <1>7, <2>2, OriginsMove DEF MountBegin, Received
<1>8. CASE MountDone \/ MountFails \/ UnmountDone \/ Start \/ UNCHANGED vars
             \/ \E k \in Keys : StopMount(k)
  BY <1>8, StepAges, OriginAges, OriginsMove
  DEF MountDone, MountFails, UnmountDone, Start, StopMount, vars
<1>9. CASE UnmountBegin \/ StopBegin
  BY <1>9, StepAges, OriginAges, OriginsMove DEF UnmountBegin, StopBegin, Received
<1>10. CASE Exit \/ Crash
  BY <1>10 DEF Exit, Crash, Ends, Origins
<1>11. CASE Clean
  <2>1. commands' = <<>>
    BY <1>11 DEF Clean, Attached
  <2>2. PICK order \in [1 .. Cardinality(plugged) -> plugged] :
          usb' = [i \in DOMAIN order |-> Event("arrived", Key[order[i]], order[i])]
    BY <1>11 DEF Clean
  <2>3. Cardinality(plugged) \in Nat
    BY FS_CardinalityType DEF Typed
  <2>4. \A i \in 1 .. Len(usb') : usb'[i] = Event("arrived", Key[order[i]], order[i])
                                  /\ order[i] \in plugged
    BY <2>2, <2>3
  <2>5. \A d \in plugged : Origin(Event("arrived", Key[d], d))'
    BY <1>11 DEF Clean, Origin, Event, Attached, Typed, TypeOK
  <2> QED
    BY <2>1, <2>4, <2>5 DEF Origins
<1> QED
  BY <1>1, <1>2, <1>3, <1>4, <1>5, <1>6, <1>7, <1>8, <1>9, <1>10, <1>11
  DEF Next, DaemonStep, SupervisorStep

(* What the start of a mount changes, when there is one to make. *)
LEMMA NewMount ==
  ASSUME Typed, MountBegin
  PROVE  \/ UNCHANGED <<made, mount, sup>>
         \/ /\ Head(commands).what = "arrived"
            /\ Head(commands).device \in plugged
            /\ made + 1 \in Ids /\ made' = made + 1
            /\ sup'.pc = "mount" /\ sup'.id = made + 1
            /\ sup'.key = Head(commands).key
            /\ mount'[made + 1].device = Head(commands).device
            /\ ~mount'[made + 1].asked
            /\ \A m \in Ids : m # made + 1 => mount'[m] = mount[m]
<1> DEFINE r == [NoMount EXCEPT !.device = Head(commands).device, !.alive = TRUE]
<1>1. r.device = Head(commands).device /\ ~r.asked
  BY DEF NoMount
<1>2. CASE /\ made < MaxMounts
           /\ made' = made + 1
           /\ mount' = [mount EXCEPT ![made + 1] = r]
           /\ sup' = [At("mount") EXCEPT !.key = Head(commands).key, !.id = made + 1]
           /\ Head(commands).device \in plugged
  <2> HIDE DEF r
  <2>1. made + 1 \in Ids
    BY <1>2, SupervisorAssumption DEF Ids, Typed, TypeOK
  <2>2. mount'[made + 1] = r /\ \A m \in Ids : m # made + 1 => mount'[m] = mount[m]
    BY <1>2, <2>1 DEF Typed, TypeOK
  <2>3. sup'.pc = "mount" /\ sup'.id = made + 1 /\ sup'.key = Head(commands).key
    BY <1>2 DEF At
  <2>4. Head(commands).what = "arrived"
    BY DEF MountBegin, Received
  <2> QED
    BY <1>1, <1>2, <2>1, <2>2, <2>3, <2>4
<1> QED
  BY <1>2 DEF MountBegin

LEMMA AttachedStep == Typed /\ Kept /\ [Next]_vars => Attached'
<1> SUFFICES ASSUME Typed, Kept, [Next]_vars PROVE Attached'
  OBVIOUS
<1> USE SupervisorAssumption DEF cables, Kept
<1>0. ASSUME Aged, UNCHANGED <<plugged, plugs, made>>,
             \A k \in Keys : mounts'[k] # None => mounts'[k] = mounts[k],
             sup' = sup \/ sup'.pc \notin {"mount", "down", "clean"},
             sup'.pc \in {"down", "clean"} => UNCHANGED <<usb, commands, mount>>
      PROVE  Attached'
  <2>1. \A m \in Ids : /\ mount'[m].device # None => m <= made' /\ plugs'[mount'[m].device] >= 1
                       /\ mount'[m].alive => mount'[m].device \in plugged'
                       /\ mount'[m].asked => ~mount'[m].alive
    BY <1>0 DEF Aged, Attached
  <2>2. \A k \in Keys : mounts'[k] # None =>
          mount'[mounts'[k]].device \in Devices /\ Key[mount'[mounts'[k]].device] = k
    BY <1>0 DEF Aged, Attached, Typed, TypeOK
  <2>3. sup'.pc = "mount" => Key[mount'[sup'.id].device] = sup'.key
    BY <1>0 DEF Aged, Attached, Typed
  <2>4. sup'.pc \in {"down", "clean"} =>
          usb' = <<>> /\ commands' = <<>> /\ \A m \in Ids : mount'[m] = NoMount
    BY <1>0 DEF Attached
  <2> QED
    BY <1>0, <2>1, <2>2, <2>3, <2>4 DEF Attached
<1>1. ASSUME NEW d \in Devices, Plug(d) PROVE Attached'
  <2>1. \A e \in Devices : plugs'[e] >= plugs[e] /\ plugs'[d] >= 1
    BY <1>1 DEF Plug, Typed, TypeOK
  <2>2. \A m \in Ids : mount[m].device # None => mount[m].device \in Devices
    BY DEF Typed, TypeOK, MountRecords
  <2>3. plugged \subseteq Devices /\ plugs \in [Devices -> Nat] /\ plugs' \in [Devices -> Nat]
    BY <1>1 DEF Typed, TypeOK, Plug
  <2>4. \A e \in plugged' : plugs'[e] >= 1
    BY <1>1, <2>1, <2>3 DEF Plug, Attached
  <2>5. \A m \in Ids : mount[m].device # None => plugs'[mount[m].device] >= 1
    BY <2>1, <2>2, <2>3 DEF Attached
  <2>6. sup.pc \in {"down", "clean"} => usb' = <<>>
    BY <1>1 DEF Plug, Report, Watching, Up, Attached
  <2> QED
    BY <1>1, <2>4, <2>5, <2>6 DEF Plug, Attached
<1>2. ASSUME NEW d \in Devices, Unplug(d) PROVE Attached'
  <2>1. Aged
    BY <1>2, StepAges
  <2>2. \A m \in Ids : mount'[m].alive => mount'[m].device # d
    BY <1>2 DEF Unplug, Typed, TypeOK, MountRecords
  <2>3. \A m \in Ids : mount'[m].alive => mount'[m].device \in plugged'
    BY <1>2, <2>1, <2>2 DEF Unplug, Aged, Attached
  <2>4. \A k \in Keys : mounts'[k] # None =>
          mount'[mounts'[k]].device \in Devices /\ Key[mount'[mounts'[k]].device] = k
    BY <1>2, <2>1 DEF Unplug, Aged, Attached, Typed, TypeOK
  <2>5. sup.pc = "mount" => Key[mount'[sup'.id].device] = sup'.key
    BY <1>2, <2>1 DEF Unplug, Aged, Attached, Typed
  <2>6. sup.pc \in {"down", "clean"} => usb' = <<>>
    BY <1>2 DEF Unplug, Report, Watching, Up, Attached
  <2>7. sup.pc \in {"down", "clean"} => \A m \in Ids : mount'[m] = NoMount
    <3>1. NoMount.device # d
      BY DEF NoMount
    <3> QED
      BY <1>2, <3>1 DEF Unplug, Attached
  <2>8. \A m \in Ids : /\ mount'[m].device # None => m <= made' /\ plugs'[mount'[m].device] >= 1
                       /\ mount'[m].asked => ~mount'[m].alive
    BY <1>2, <2>1 DEF Unplug, Aged, Attached
  <2> QED
    BY <1>2, <2>3, <2>4, <2>5, <2>6, <2>7, <2>8 DEF Unplug, Attached
<1>3. ASSUME NEW m \in Ids, Reset(m) \/ GivesUp(m) \/ WatcherSends(m) \/ WatcherStops(m)
      PROVE  Attached'
  <2>1. Aged
    BY <1>3, StepAges
  <2>2. sup.pc \notin {"down", "clean"}
    BY <1>3 DEF Reset, GivesUp, WatcherSends, WatcherStops, Attached, NoMount
  <2> QED
    BY <1>3, <2>1, <2>2, <1>0 DEF Reset, GivesUp, WatcherSends, WatcherStops
<1>4. CASE Watch \/ Signal
  <2>1. sup.pc \notin {"down", "clean"}
    BY <1>4 DEF Watch, Signal, Watching, Up, Attached
  <2> QED
    BY <1>4, <2>1, <1>0, SameAges DEF Watch, Signal
<1>5. CASE MountBegin
  <2>1. CASE UNCHANGED <<made, mount, sup>>
    <3>1. sup.pc = "recv"
      BY <1>5 DEF MountBegin, Received
    <3> QED
      BY <1>0, <1>5, <2>1, <3>1, SameAges DEF MountBegin
  <2>2. CASE /\ Head(commands).what = "arrived"
             /\ Head(commands).device \in plugged
             /\ made + 1 \in Ids /\ made' = made + 1
             /\ sup'.pc = "mount" /\ sup'.id = made + 1
             /\ sup'.key = Head(commands).key
             /\ mount'[made + 1].device = Head(commands).device
             /\ ~mount'[made + 1].asked
             /\ \A m \in Ids : m # made + 1 => mount'[m] = mount[m]
    <3>1. Key[Head(commands).device] = Head(commands).key
      BY <1>5, <2>2 DEF MountBegin, Received, Origins, Origin, Typed
    <3>2. UNCHANGED <<plugged, plugs, mounts>>
      BY <1>5 DEF MountBegin
    <3>3. \A m \in Ids : mount[m].device # None => m # made + 1
      BY DEF Attached, Typed, TypeOK, Ids
    <3>4. \A m \in Ids : /\ mount'[m].device # None => m <= made' /\ plugs'[mount'[m].device] >= 1
                         /\ mount'[m].alive => mount'[m].device \in plugged'
                         /\ mount'[m].asked => ~mount'[m].alive
      BY <2>2, <3>2 DEF Attached, Typed, TypeOK, Ids
    <3>5. \A k \in Keys : mounts'[k] # None =>
            mount'[mounts'[k]].device \in Devices /\ Key[mount'[mounts'[k]].device] = k
      <4>1. \A k \in Keys : mounts[k] # None =>
              /\ mounts[k] \in Ids /\ mounts[k] # made + 1
              /\ mount[mounts[k]].device \in Devices
              /\ Key[mount[mounts[k]].device] = k
        BY <3>3 DEF Attached, Typed, TypeOK
      <4> QED
        BY <2>2, <3>2, <4>1
    <3> QED
      BY <2>2, <3>1, <3>2, <3>4, <3>5 DEF Attached
  <2> QED
    BY <1>5, <2>1, <2>2, NewMount
<1>6. CASE MountDone
  <2>1. Aged
    BY <1>6, StepAges
  <2>2. /\ sup.pc = "mount" /\ sup.key \in Keys /\ sup.id \in Ids
        /\ mount[sup.id].device \in Devices
        /\ mounts' = [mounts EXCEPT ![sup.key] = sup.id]
        /\ sup'.pc = "recv"
        /\ UNCHANGED <<plugged, plugs, made>>
    BY <1>6 DEF MountDone, Typed, At
  <2>3. \A k \in Keys : mounts'[k] # None =>
          mount'[mounts'[k]].device \in Devices /\ Key[mount'[mounts'[k]].device] = k
    BY <2>1, <2>2 DEF Aged, Attached, Typed, TypeOK
  <2>4. \A m \in Ids : /\ mount'[m].device # None => m <= made' /\ plugs'[mount'[m].device] >= 1
                       /\ mount'[m].alive => mount'[m].device \in plugged'
                       /\ mount'[m].asked => ~mount'[m].alive
    BY <2>1, <2>2 DEF Aged, Attached
  <2> QED
    BY <2>2, <2>3, <2>4 DEF Attached
<1>7. CASE MountFails \/ UnmountDone
  BY <1>7, <1>0, SameAges DEF MountFails, UnmountDone, At
<1>8. CASE UnmountBegin
  <2>1. Aged
    BY <1>8, StepAges
  <2>2. sup.pc = "recv"
    BY <1>8 DEF UnmountBegin, Received
  <2>3. sup' = sup \/ sup'.pc = "unmount"
    BY <1>8 DEF UnmountBegin, At
  <2>4. \A k \in Keys : mounts'[k] # None => mounts'[k] = mounts[k]
    BY <1>8 DEF UnmountBegin, Typed, TypeOK
  <2> QED
    BY <1>0, <1>8, <2>1, <2>2, <2>3, <2>4 DEF UnmountBegin
<1>9. CASE StopBegin
  <2>1. sup'.pc = "stop"
    BY <1>9 DEF StopBegin, At
  <2> QED
    BY <1>0, <1>9, <2>1, SameAges DEF StopBegin
<1>10. ASSUME NEW k \in Keys, StopMount(k) PROVE Attached'
  <2>1. Aged
    BY <1>10, StepAges
  <2>2. sup'.pc = "stop"
    BY <1>10 DEF StopMount, Typed
  <2>3. \A j \in Keys : mounts'[j] # None => mounts'[j] = mounts[j]
    BY <1>10 DEF StopMount, Typed, TypeOK
  <2> QED
    BY <1>0, <1>10, <2>1, <2>2, <2>3 DEF StopMount
<1>11. CASE Exit \/ Crash
  <2>1. /\ \A m \in Ids : mount'[m] = NoMount
        /\ \A k \in Keys : mounts'[k] = None
        /\ sup'.pc = "down" /\ usb' = <<>> /\ commands' = <<>>
        /\ UNCHANGED <<plugged, plugs>>
    BY <1>11 DEF Exit, Crash, Ends, At
  <2>2. NoMount.device = None /\ ~NoMount.alive /\ ~NoMount.asked
    BY DEF NoMount
  <2> QED
    BY <2>1, <2>2 DEF Attached
<1>12. CASE Start
  BY <1>12 DEF Start, At, Attached
<1>13. CASE Clean
  BY <1>13 DEF Clean, At, Attached
<1>14. CASE UNCHANGED vars
  BY <1>14 DEF vars, Attached
<1> QED
  BY <1>1, <1>2, <1>3, <1>4, <1>5, <1>6, <1>7, <1>8, <1>9, <1>10, <1>11, <1>12, <1>13, <1>14
  DEF Next, DaemonStep, SupervisorStep

(* A step that changes no arrival of d, and gives it no mount, keeps it    *)
(* reported once.                                                          *)
LEMMA OnceSame ==
  ASSUME NEW d, Once(d), plugs'[d] = plugs[d],
         \A m \in Ids : mount'[m].device = d => mount[m].device = d,
         Arrivals(usb', d) = Arrivals(usb, d),
         Arrivals(commands', d) = Arrivals(commands, d)
  PROVE  Once(d)'
BY DEF Once

(* A command that is no arrival of d is added. *)
LEMMA OnceAppend ==
  ASSUME NEW d, NEW e, Typed, Once(d), plugs'[d] = plugs[d],
         e.what = "arrived" => e.device # d,
         \A m \in Ids : mount'[m].device = d => mount[m].device = d,
         usb' = usb \/ usb' = Append(usb, e),
         commands' = commands \/ commands' = Append(commands, e)
  PROVE  Once(d)'
<1>1. usb \in Seq(SoundCommands) /\ commands \in Seq(SoundCommands)
  BY DEF Typed
<1>2. /\ Arrivals(Append(usb, e), d) = Arrivals(usb, d)
      /\ Arrivals(Append(commands, e), d) = Arrivals(commands, d)
  BY <1>1, ArrivalsAppend
<1>3. Arrivals(usb', d) = Arrivals(usb, d) /\ Arrivals(commands', d) = Arrivals(commands, d)
  BY <1>2
<1> QED
  BY <1>3, OnceSame

(* A command is received. *)
LEMMA OnceTail ==
  ASSUME NEW d, Typed, Once(d), plugs'[d] = plugs[d], UNCHANGED usb,
         \A m \in Ids : mount'[m].device = d => mount[m].device = d,
         commands # <<>>, commands' = Tail(commands)
  PROVE  Once(d)'
<1>1. commands \in Seq(SoundCommands)
  BY DEF Typed
<1>2. \A i \in Arrivals(commands', d) : i \in Nat /\ i + 1 \in Arrivals(commands, d)
  BY <1>1, ArrivalsTail
<1> QED
  BY <1>2 DEF Once

(* No arrival, and no mount, of a device that was never plugged in. *)
LEMMA NeverPlugged ==
  ASSUME Typed, Origins, Attached, NEW d \in Devices, plugs[d] = 0
  PROVE  /\ Arrivals(usb, d) = {} /\ Arrivals(commands, d) = {}
         /\ \A m \in Ids : mount[m].device # d
BY SupervisorAssumption DEF Origins, Origin, Attached, Arrivals

LEMMA OnceStep ==
  ASSUME NEW d \in Devices, Typed, Kept, [Next]_vars
  PROVE  Once(d)'
<1> USE DEF cables
<1>0. Once(d) /\ Attached /\ Origins
  BY DEF Kept
<1>1. ASSUME NEW e \in Devices, Plug(e) PROVE Once(d)'
  <2>1. CASE e # d
    <3>1. plugs'[d] = plugs[d]
      BY <1>1, <2>1 DEF Plug, Typed, TypeOK
    <3>2. Event("arrived", Key[e], e).device # d
      BY <2>1 DEF Event
    <3> QED
      BY <1>0, <1>1, <3>1, <3>2, OnceAppend DEF Plug, Report
  <2>2. CASE e = d
    <3>1. plugs'[d] = plugs[d] + 1 /\ plugs[d] \in Nat
      BY <1>1, <2>2 DEF Plug, Typed, TypeOK
    <3>2. CASE plugs[d] = 0
      <4>1. /\ Arrivals(usb, d) = {} /\ Arrivals(commands, d) = {}
            /\ \A m \in Ids : mount[m].device # d
        BY <1>0, <3>2, NeverPlugged
      <4>2. Arrivals(usb', d) \subseteq {Len(usb) + 1}
        BY <1>1, <4>1, ArrivalsAppend DEF Plug, Report, Typed
      <4> QED
        BY <1>1, <4>1, <4>2 DEF Plug, Once
    <3>3. CASE plugs[d] > 0
      BY <3>1, <3>3 DEF Once
    <3> QED
      BY <3>1, <3>2, <3>3
  <2> QED
    BY <2>1, <2>2
<1>2. ASSUME NEW e \in Devices, Unplug(e) PROVE Once(d)'
  <2>1. Aged
    BY <1>0, <1>2, StepAges
  <2>2. \A k : Event("left", k, e).what # "arrived"
    BY DEF Event
  <2>3. PICK k : usb' = usb \/ usb' = Append(usb, Event("left", k, e))
    BY <1>2 DEF Unplug, Report
  <2> QED
    BY <1>0, <1>2, <2>1, <2>2, <2>3, OnceAppend DEF Unplug, Aged
<1>3. ASSUME NEW m \in Ids, Reset(m) \/ GivesUp(m) \/ WatcherStops(m) PROVE Once(d)'
  <2>1. Aged
    BY <1>0, <1>3, StepAges
  <2> QED
    BY <1>0, <1>3, <2>1, OnceSame DEF Reset, GivesUp, WatcherStops, Aged
<1>4. ASSUME NEW m \in Ids, WatcherSends(m) PROVE Once(d)'
  <2>1. Aged
    BY <1>0, <1>4, StepAges
  <2>2. Event("give_up", GiveUpKey(m), None).what # "arrived"
    BY DEF Event
  <2> QED
    BY <1>0, <1>4, <2>1, <2>2, OnceAppend DEF WatcherSends, Aged
<1>5. CASE Watch
  <2>1. /\ usb \in Seq(SoundCommands) /\ commands \in Seq(SoundCommands)
        /\ usb # <<>> /\ usb' = Tail(usb) /\ commands' = Append(commands, Head(usb))
        /\ UNCHANGED <<plugs, mount>>
    BY <1>5 DEF Watch, Typed
  <2>2. /\ 1 \in Arrivals(usb, d) <=> Head(usb).what = "arrived" /\ Head(usb).device = d
        /\ \A i \in Arrivals(usb', d) : i \in Nat /\ i + 1 \in Arrivals(usb, d) /\ i + 1 # 1
    BY <2>1, ArrivalsTail
  <2>3. CASE 1 \in Arrivals(usb, d)
    <3>1. Arrivals(commands', d) = Arrivals(commands, d) \cup {Len(commands) + 1}
      BY <2>1, <2>2, <2>3, ArrivalsAppend
    <3> QED
      BY <1>0, <2>1, <2>2, <2>3, <3>1 DEF Once
  <2>4. CASE 1 \notin Arrivals(usb, d)
    <3>1. Arrivals(commands', d) = Arrivals(commands, d)
      BY <2>1, <2>2, <2>4, ArrivalsAppend
    <3> QED
      BY <1>0, <2>1, <2>2, <3>1 DEF Once
  <2> QED
    BY <2>3, <2>4
<1>6. CASE Signal
  <2>1. Event("stop", None, None).what # "arrived"
    BY DEF Event
  <2> QED
    BY <1>0, <1>6, <2>1, OnceAppend DEF Signal
<1>7. CASE MountBegin
  <2>1. /\ commands \in Seq(SoundCommands) /\ commands # <<>> /\ commands' = Tail(commands)
        /\ UNCHANGED <<plugs, usb>>
    BY <1>7 DEF MountBegin, Received, Typed
  <2>2. CASE UNCHANGED mount
    BY <1>0, <2>1, <2>2, OnceTail
  <2>3. CASE Head(commands).device # d /\ \A m \in Ids : mount'[m].device = d => mount[m].device = d
    BY <1>0, <2>1, <2>3, OnceTail
  <2>4. CASE /\ Head(commands).what = "arrived" /\ Head(commands).device = d
             /\ made + 1 \in Ids
             /\ \A m \in Ids : m # made + 1 => mount'[m] = mount[m]
    <3>1. /\ 1 \in Arrivals(commands, d)
          /\ \A i \in Arrivals(commands', d) :
               i \in Nat /\ i + 1 \in Arrivals(commands, d) /\ i + 1 # 1
      BY <2>1, <2>4, ArrivalsTail
    <3> QED
      BY <1>0, <2>1, <2>4, <3>1 DEF Once
  <2> QED
    BY <1>7, <2>2, <2>3, <2>4, NewMount
<1>8. CASE MountDone \/ MountFails \/ UnmountDone \/ Start \/ UNCHANGED vars
             \/ \E k \in Keys : StopMount(k)
  <2>1. Aged
    BY <1>0, <1>8, StepAges
  <2> QED
    BY <1>0, <1>8, <2>1, OnceSame
    DEF MountDone, MountFails, UnmountDone, Start, StopMount, vars, Aged
<1>9. CASE UnmountBegin \/ StopBegin
  <2>1. Aged
    BY <1>0, <1>9, StepAges
  <2> QED
    BY <1>0, <1>9, <2>1, OnceTail DEF UnmountBegin, StopBegin, Received, Aged
<1>10. CASE Exit \/ Crash
  <2>1. usb' = <<>> /\ commands' = <<>> /\ \A m \in Ids : mount'[m].device = None
    BY <1>10 DEF Exit, Crash, Ends, NoMount
  <2>2. Arrivals(usb', d) = {} /\ Arrivals(commands', d) = {}
    BY <2>1, ArrivalsEmpty
  <2> QED
    BY <2>1, <2>2, SupervisorAssumption DEF Once
<1>11. CASE Clean
  <2>1. commands' = <<>> /\ \A m \in Ids : mount'[m].device = None
    BY <1>0, <1>11 DEF Clean, Attached, NoMount
  <2>2. PICK order \in [1 .. Cardinality(plugged) -> plugged] :
          /\ {order[i] : i \in DOMAIN order} = plugged
          /\ usb' = [i \in DOMAIN order |-> Event("arrived", Key[order[i]], order[i])]
    BY <1>11 DEF Clean
  <2>3. Cardinality(plugged) \in Nat /\ IsFiniteSet(plugged)
    BY FS_CardinalityType DEF Typed
  <2>4. \A i, j \in 1 .. Cardinality(plugged) : order[i] = order[j] => i = j
    <3>1. order \in Surjection(1 .. Cardinality(plugged), plugged)
      BY <2>2 DEF Surjection
    <3>2. /\ IsFiniteSet(1 .. Cardinality(plugged))
          /\ Cardinality(1 .. Cardinality(plugged)) = Cardinality(plugged)
      BY <2>3, FS_Interval
    <3>3. order \in Injection(1 .. Cardinality(plugged), plugged)
      BY <2>3, <3>1, <3>2, FS_SurjSameCardinalityImpliesInj
    <3> QED
      BY <3>3 DEF Injection, IsInjective
  <2>5. \A i \in Arrivals(usb', d) : i \in 1 .. Cardinality(plugged) /\ order[i] = d
    BY <2>2, <2>3 DEF Arrivals, Event
  <2>6. Arrivals(commands', d) = {}
    BY <2>1, ArrivalsEmpty
  <2> QED
    BY <2>1, <2>4, <2>5, <2>6, SupervisorAssumption DEF Once
<1> QED
  BY <1>1, <1>2, <1>3, <1>4, <1>5, <1>6, <1>7, <1>8, <1>9, <1>10, <1>11
  DEF Next, DaemonStep, SupervisorStep

LEMMA KeptInit == Init => Kept
<1> SUFFICES ASSUME Init PROVE Kept
  OBVIOUS
<1>1. \A m \in Ids : mount[m].device = None /\ ~mount[m].alive /\ ~mount[m].asked
  BY DEF Init, NoMount
<1>2. \A d : Arrivals(usb, d) = {} /\ Arrivals(commands, d) = {}
  BY ArrivalsEmpty DEF Init
<1>3. Origins
  BY DEF Init, Origins
<1>4. Attached
  BY <1>1 DEF Init, Attached, At
<1>5. \A d \in Devices : Once(d)
  BY <1>1, <1>2, SupervisorAssumption DEF Once
<1> QED
  BY <1>3, <1>4, <1>5 DEF Kept

(* An entry leaves the map, with the daemon up and not shutting down, only *)
(* when a departure or a give-up for its key is received.                  *)
LEMMA EntryLeaves ==
  ASSUME Typed, Phase, [Next]_vars, Up', sup.pc # "stop",
         NEW k \in Keys, mounts[k] # None, mounts'[k] # mounts[k]
  PROVE  /\ commands # <<>> /\ Head(commands).key = k
         /\ Head(commands).what \in {"left", "give_up"}
<1>1. MountDone \/ UnmountBegin
  BY DEF Next, DaemonStep, SupervisorStep, Plug, Unplug, Reset, GivesUp, WatcherSends,
         WatcherStops, Watch, Signal, MountBegin, MountFails, UnmountDone, StopBegin,
         StopMount, Exit, Crash, Ends, At, Up, Start, Clean, vars
<1>2. CASE MountDone
  BY <1>2 DEF MountDone, Phase, Typed, TypeOK
<1>3. CASE UnmountBegin
  BY <1>3 DEF UnmountBegin, Received, Target, Typed, TypeOK
<1> QED
  BY <1>1, <1>2, <1>3

(* No working mount is taken away: with a key of its own, a device that    *)
(* was plugged in once keeps its mount while its session works and the     *)
(* daemon runs, whatever stale departures, give-ups of earlier mounts,     *)
(* crashes and restarts there were.  Without the premise it may lose it:   *)
(* the run with one key for all devices shows how.                         *)
THEOREM LiveMountsStay == ASSUME DistinctKeys PROVE Spec => LiveMountStays
<1> DEFINE Stays ==
      \A k \in Keys :
        LET m == mounts[k] IN
        m # None /\ Up' /\ sup.pc # "stop" /\ mounts'[k] # m
          => ~mount[m].alive \/ plugs[mount[m].device] > 1
<1>1. Init => IInv /\ Kept
  BY TypedInit, PhaseInit, KeptInit DEF IInv
<1>2. IInv /\ Kept /\ [Next]_vars => (IInv /\ Kept)'
  BY TypedStep, PhaseStep, OriginsStep, AttachedStep, OnceStep DEF IInv, Kept
<1>3. IInv /\ Kept /\ [Next]_vars => [Stays]_vars
  <2> SUFFICES ASSUME IInv, Kept, [Next]_vars,
                      NEW k \in Keys, mounts[k] # None, Up', sup.pc # "stop",
                      mounts'[k] # mounts[k], mount[mounts[k]].alive,
                      ~(plugs[mount[mounts[k]].device] > 1)
               PROVE  FALSE
    OBVIOUS
  <2> DEFINE m == mounts[k]
             d == mount[m].device
             c == Head(commands)
  <2>1. /\ commands # <<>> /\ c.key = k /\ c.what \in {"left", "give_up"}
        /\ commands \in Seq(SoundCommands)
    BY EntryLeaves DEF IInv, Typed
  <2>2. Origin(c)
    BY <2>1 DEF Kept, Origins
  <2>3. m \in Ids /\ d \in Devices /\ d \in plugged /\ Key[d] = k /\ plugs[d] <= 1
    BY DEF Kept, Attached, IInv, Typed, TypeOK
  <2>4. CASE c.what = "left"
    BY <2>1, <2>2, <2>3, <2>4 DEF Origin, DistinctKeys
  <2>5. CASE c.what = "give_up"
    <3>1. PICK n \in Ids : /\ mount[n].device \in Devices /\ ~mount[n].alive
                           /\ Key[mount[n].device] = k
      BY <2>1, <2>2, <2>5 DEF Origin
    <3>2. mount[n].device = d
      BY <2>3, <3>1 DEF DistinctKeys
    <3>3. n = m
      BY <2>3, <3>1, <3>2 DEF Kept, Once
    <3> QED
      BY <3>1, <3>3
  <2> QED
    BY <2>1, <2>4, <2>5
<1> QED
  BY <1>1, <1>2, <1>3, PTL DEF Spec, LiveMountStays
=============================================================================
