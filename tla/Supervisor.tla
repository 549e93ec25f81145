----------------------------- MODULE Supervisor -----------------------------
(***************************************************************************)
(* The daemon: mounts devices as they arrive and unmounts them as they     *)
(* leave (src/src/daemon/supervisor.rs), fed by the USB watch              *)
(* (src/src/daemon/usb.rs), by one give-up watcher thread per mount, and   *)
(* by signals; started, stopped, killed and started again                  *)
(* (src/src/bin/mtp-mountd.rs, src/src/daemon/unmount.rs).                 *)
(*                                                                         *)
(* Actors: the supervisor thread, which handles one command at a time, the *)
(* USB watch, the watchers, the users of the mounts, and the cables.  A    *)
(* mount is a number, in the order of mounting.                            *)
(***************************************************************************)
EXTENDS Naturals, Sequences, FiniteSets

CONSTANTS Devices,
          Key,        \* each device's key (device_dir_name)
          LeftAs,     \* the keys its departure may be reported under
          None,
          Resets,     \* whether a session may die with the device plugged in
          Touched,    \* whether anyone uses a mount whose session is dead
          Failures,   \* whether the kernel may refuse a mount
          MaxPlugs,   \* bound: times one device is plugged in
          MaxMounts,  \* bound: mounts made
          MaxCrashes, \* bound: times the daemon is killed
          MaxStops    \* bound: signals

Keys == UNION {{Key[d]} \cup LeftAs[d] : d \in Devices}

Ids == 1 .. MaxMounts

ASSUME SupervisorAssumption ==
  /\ {Resets, Touched, Failures} \subseteq BOOLEAN
  /\ {MaxPlugs, MaxMounts, MaxCrashes, MaxStops} \subseteq Nat
  /\ None \notin Ids /\ None \notin Devices
  /\ \A d \in Devices : LeftAs[d] # {}

VARIABLES plugged,  \* devices plugged in
          plugs,    \* how often each device was plugged in
          usb,      \* what happened on USB and the watch has not yet read
          commands, \* the channel to the supervisor
          sup,      \* the supervisor thread
          mounts,   \* its map: each key's mount, or None
          mount,    \* every mount made
          made,     \* how many that is
          kernel,   \* the kernel's mount table: the mounts at each key's path
          dirs,     \* the directories in the mount root
          crashes, stops

vars == <<plugged, plugs, usb, commands, sup, mounts, mount, made, kernel, dirs,
          crashes, stops>>

cables == <<plugged, plugs, usb>>

(* alive: the session still works.  asked: the mount's shutdown signal.    *)
(* stop: the watcher was told to stop.  watcher: the thread runs.          *)
NoMount == [device |-> None, alive |-> FALSE, asked |-> FALSE, stop |-> FALSE,
            watcher |-> FALSE]

(* pc: down, clean (sweeps the mount root), recv, mount (has opened the    *)
(* device), unmount (has dropped the map entry), and the two of shutdown.  *)
At(pc) == [pc |-> pc, key |-> None, id |-> None, left |-> {}]

Init ==
  /\ plugged = {}
  /\ plugs = [d \in Devices |-> 0]
  /\ usb = <<>>
  /\ commands = <<>>
  /\ sup = At("down")
  /\ mounts = [k \in Keys |-> None]
  /\ mount = [m \in Ids |-> NoMount]
  /\ made = 0
  /\ kernel = [k \in Keys |-> <<>>]
  /\ dirs = {}
  /\ crashes = 0
  /\ stops = 0

Up == sup.pc # "down"

(* The watch and the signal handler start after the sweep. *)
Watching == Up /\ sup.pc # "clean"

Event(what, k, d) == [what |-> what, key |-> k, device |-> d]
-----------------------------------------------------------------------------
(* Cables, and what the watch makes of them. *)
Report(e) == usb' = IF Watching THEN Append(usb, e) ELSE usb

Plug(d) ==
  /\ d \notin plugged
  /\ plugs[d] < MaxPlugs
  /\ plugged' = plugged \cup {d}
  /\ plugs' = [plugs EXCEPT ![d] = @ + 1]
  /\ Report(Event("arrived", Key[d], d))
  /\ UNCHANGED <<commands, sup, mounts, mount, made, kernel, dirs, crashes, stops>>

Unplug(d) ==
  /\ d \in plugged
  /\ plugged' = plugged \ {d}
  /\ \E k \in LeftAs[d] : Report(Event("left", k, d))
  /\ mount' = [m \in Ids |-> IF mount[m].device = d
                             THEN [mount[m] EXCEPT !.alive = FALSE] ELSE mount[m]]
  /\ UNCHANGED <<plugs, commands, sup, mounts, made, kernel, dirs, crashes, stops>>

(* The device is reset in software; USB sees nothing. *)
Reset(m) ==
  /\ Resets
  /\ mount[m].alive
  /\ mount' = [mount EXCEPT ![m].alive = FALSE]
  /\ UNCHANGED <<cables, commands, sup, mounts, made, kernel, dirs, crashes, stops>>

Watch ==
  /\ usb # <<>>
  /\ commands' = Append(commands, Head(usb))
  /\ usb' = Tail(usb)
  /\ UNCHANGED <<plugged, plugs, sup, mounts, mount, made, kernel, dirs, crashes, stops>>

(* An operation on a mount finds the session dead.  The daemon's mounts    *)
(* have reconnecting off, so give_up raises the shutdown signal at once.   *)
GivesUp(m) ==
  /\ Up /\ Touched
  /\ m <= made /\ mount[m].watcher
  /\ ~mount[m].alive /\ ~mount[m].asked
  /\ mount' = [mount EXCEPT ![m].asked = TRUE]
  /\ UNCHANGED <<cables, commands, sup, mounts, made, kernel, dirs, crashes, stops>>

GiveUpKey(m) == Key[mount[m].device]

(* The watcher turns the signal into a command, or sees its stop flag.     *)
WatcherSends(m) ==
  /\ Up
  /\ mount[m].watcher /\ mount[m].asked
  /\ commands' = Append(commands, Event("give_up", GiveUpKey(m), None))
  /\ mount' = [mount EXCEPT ![m].watcher = FALSE]
  /\ UNCHANGED <<cables, sup, mounts, made, kernel, dirs, crashes, stops>>

NeverStops(m) == FALSE

SeesStop(m) == mount[m].stop

WatcherStops(m) ==
  /\ Up
  /\ mount[m].watcher /\ SeesStop(m)
  /\ mount' = [mount EXCEPT ![m].watcher = FALSE]
  /\ UNCHANGED <<cables, commands, sup, mounts, made, kernel, dirs, crashes, stops>>

Signal ==
  /\ Watching /\ stops < MaxStops
  /\ commands' = Append(commands, Event("stop", None, None))
  /\ stops' = stops + 1
  /\ UNCHANGED <<cables, sup, mounts, mount, made, kernel, dirs, crashes>>
-----------------------------------------------------------------------------
(* The supervisor thread. *)
Received(what) ==
  /\ sup.pc = "recv"
  /\ commands # <<>> /\ Head(commands).what = what
  /\ commands' = Tail(commands)

IgnoresSecond(k) == mounts[k] = None

(* mount, until the device is open: a key that is mounted is left alone.   *)
MountBegin ==
  /\ Received("arrived")
  /\ LET k == Head(commands).key
         d == Head(commands).device IN
     IF IgnoresSecond(k) /\ d \in plugged
     THEN /\ made < MaxMounts
          /\ made' = made + 1
          /\ mount' = [mount EXCEPT ![made + 1] =
                         [NoMount EXCEPT !.device = d, !.alive = TRUE]]
          /\ sup' = [At("mount") EXCEPT !.key = k, !.id = made + 1]
          /\ dirs' = dirs \cup {k}
     ELSE UNCHANGED <<made, mount, sup, dirs>>
  /\ UNCHANGED <<cables, mounts, kernel, crashes, stops>>

(* spawn_mount, the watcher thread, and the entry in the map. *)
MountDone ==
  /\ sup.pc = "mount"
  /\ kernel' = [kernel EXCEPT ![sup.key] = Append(@, sup.id)]
  /\ mount' = [mount EXCEPT ![sup.id].watcher = TRUE]
  /\ mounts' = [mounts EXCEPT ![sup.key] = sup.id]
  /\ sup' = At("recv")
  /\ UNCHANGED <<cables, commands, made, dirs, crashes, stops>>

LeavesDir(k) == dirs

DirRemoved(k) == dirs \ {k}

(* The device refuses to open or the kernel to mount: the directory goes. *)
MountFails ==
  /\ Failures
  /\ sup.pc = "mount"
  /\ dirs' = DirRemoved(sup.key)
  /\ sup' = At("recv")
  /\ UNCHANGED <<cables, commands, mounts, mount, made, kernel, crashes, stops>>

StopsWatcher(m) == [mount EXCEPT ![m].stop = TRUE]

AnyMount(c) ==
  IF mounts = [k \in Keys |-> None] THEN c.key
  ELSE CHOOSE k \in Keys : mounts[k] # None

Target(c) == c.key

UnmountsAlive(k) == mounts[k] # None /\ mount[mounts[k]].alive

Unmounts(k) == mounts[k] # None

(* unmount, for a departure or a give-up: the entry goes, and its watcher. *)
UnmountBegin ==
  /\ Received("left") \/ Received("give_up")
  /\ LET k == Target(Head(commands)) IN
     IF Unmounts(k)
     THEN /\ mounts' = [mounts EXCEPT ![k] = None]
          /\ mount' = StopsWatcher(mounts[k])
          /\ sup' = [At("unmount") EXCEPT !.key = k]
     ELSE UNCHANGED <<mounts, mount, sup>>
  /\ UNCHANGED <<cables, made, kernel, dirs, crashes, stops>>

Detached(k) == [kernel EXCEPT ![k] = SubSeq(@, 1, Len(@) - 1)]

(* force_unmount detaches even a busy mount; the directory is removed.     *)
UnmountDone ==
  /\ sup.pc = "unmount"
  /\ kernel' = Detached(sup.key)
  /\ dirs' = DirRemoved(sup.key)
  /\ sup' = At("recv")
  /\ UNCHANGED <<cables, commands, mounts, mount, made, crashes, stops>>

MountedKeys == {k \in Keys : mounts[k] # None}

ToStop == MountedKeys

(* unmount_all, one mount after the other. *)
StopBegin ==
  /\ Received("stop")
  /\ sup' = [At("stop") EXCEPT !.left = ToStop]
  /\ UNCHANGED <<cables, mounts, mount, made, kernel, dirs, crashes, stops>>

StopMount(k) ==
  /\ sup.pc = "stop" /\ k \in sup.left
  /\ mounts' = [mounts EXCEPT ![k] = None]
  /\ mount' = StopsWatcher(mounts[k])
  /\ kernel' = Detached(k)
  /\ dirs' = DirRemoved(k)
  /\ sup' = [sup EXCEPT !.left = @ \ {k}]
  /\ UNCHANGED <<cables, commands, made, crashes, stops>>

(* The process is gone, and its threads with it. *)
Ends ==
  /\ sup' = At("down")
  /\ usb' = <<>>
  /\ commands' = <<>>
  /\ mounts' = [k \in Keys |-> None]
  /\ mount' = [m \in Ids |-> NoMount]
  /\ UNCHANGED <<plugged, plugs, made, kernel, dirs>>

Exit ==
  /\ sup.pc = "stop" /\ sup.left = {}
  /\ Ends
  /\ UNCHANGED <<crashes, stops>>

(* Killed: the kernel keeps its mounts, which nothing serves. *)
Crash ==
  /\ Up /\ crashes < MaxCrashes
  /\ crashes' = crashes + 1
  /\ Ends
  /\ UNCHANGED stops

Start ==
  /\ sup.pc = "down"
  /\ sup' = At("clean")
  /\ UNCHANGED <<cables, commands, mounts, mount, made, kernel, dirs, crashes, stops>>

(* clean_stale_mounts looks at every directory of the root. *)
Swept == dirs

(* The sweep; then the watch starts, and reports what is plugged in.       *)
Clean ==
  /\ sup.pc = "clean"
  /\ kernel' = [k \in Keys |-> IF k \in Swept THEN <<>> ELSE kernel[k]]
  /\ dirs' = dirs \ Swept
  /\ sup' = At("recv")
  /\ \E order \in [1 .. Cardinality(plugged) -> plugged] :
       /\ {order[i] : i \in DOMAIN order} = plugged
       /\ usb' = [i \in DOMAIN order |-> Event("arrived", Key[order[i]], order[i])]
  /\ UNCHANGED <<plugged, plugs, commands, mounts, mount, made, crashes, stops>>
-----------------------------------------------------------------------------
SupervisorStep ==
  \/ MountBegin \/ MountDone \/ UnmountBegin \/ UnmountDone
  \/ StopBegin \/ Exit
  \/ \E k \in Keys : StopMount(k)
  \/ Start \/ Clean

(* Every step but those of the cables. *)
DaemonStep ==
  \/ \E m \in Ids : Reset(m) \/ GivesUp(m) \/ WatcherSends(m) \/ WatcherStops(m)
  \/ Watch \/ Signal
  \/ SupervisorStep \/ MountFails
  \/ Crash

Next ==
  \/ \E d \in Devices : Plug(d) \/ Unplug(d)
  \/ DaemonStep

Spec == Init /\ [][Next]_vars

(* The daemon's threads run, and a service manager starts the daemon.      *)
(* Nothing is assumed of cables, of users of the mounts, of signals.       *)
Fairness ==
  /\ WF_vars(SupervisorStep)
  /\ WF_vars(Watch)
  /\ \A m \in Ids : WF_vars(WatcherSends(m) \/ WatcherStops(m))

FairSpec == Spec /\ Fairness
-----------------------------------------------------------------------------
Commands ==
  [what : {"arrived", "left", "give_up", "stop"}, key : Keys \cup {None},
   device : Devices \cup {None}]

MountRecords ==
  [device : Devices \cup {None}, alive : BOOLEAN, asked : BOOLEAN, stop : BOOLEAN,
   watcher : BOOLEAN]

(* Types of the channel, of the supervisor's state and of the mounts. *)
TypeOK ==
  /\ plugged \subseteq Devices
  /\ plugs \in [Devices -> 0 .. MaxPlugs]
  /\ usb \in Seq(Commands) /\ commands \in Seq(Commands)
  /\ sup.pc \in {"down", "clean", "recv", "mount", "unmount", "stop"}
  /\ mounts \in [Keys -> Ids \cup {None}]
  /\ mount \in [Ids -> MountRecords]
  /\ made \in 0 .. MaxMounts
  /\ kernel \in [Keys -> Seq(Ids)]
  /\ dirs \subseteq Keys

(* Between commands, the mount root, the kernel's mount table and the      *)
(* supervisor's map agree, whatever was killed, refused or swept before:   *)
(* one mount per path, one directory per mount, nothing left behind.  A    *)
(* daemon that was stopped, rather than killed, leaves nothing at all.     *)
MountRootExact ==
  /\ sup.pc = "recv" =>
       /\ dirs = MountedKeys
       /\ \A k \in Keys :
            kernel[k] = IF mounts[k] = None THEN <<>> ELSE <<mounts[k]>>
  /\ sup.pc = "down" /\ crashes = 0 =>
       dirs = {} /\ \A k \in Keys : kernel[k] = <<>>

(* A device plugged in once and still there stays mounted, as long as its  *)
(* session works and the daemon runs.                                      *)
LiveMountStays ==
  [][\A k \in Keys :
       LET m == mounts[k] IN
       m # None /\ Up' /\ sup.pc # "stop" /\ mounts'[k] # m
         => ~mount[m].alive \/ plugs[mount[m].device] > 1]_vars

(* A mount whose device is gone is taken down: no path goes on hanging.    *)
DeadMountGoes ==
  \A d \in Devices : \A m \in Ids :
    (d \notin plugged /\ mounts[Key[d]] = m /\ mount[m].device = d)
      ~> (mounts[Key[d]] # m)

(* No watcher thread outlives its mount for good. *)
WatcherEnds ==
  \A m \in Ids : mount[m].watcher /\ mount[m].stop ~> ~mount[m].watcher

(* A device that comes back is mounted again, over its new session. *)
PluggedIsMounted ==
  \A d \in Devices :
    d \in plugged ~> \/ d \notin plugged
                     \/ \E m \in Ids : mounts[Key[d]] = m /\ mount[m].alive
=============================================================================
