------------------------------- MODULE DryRun -------------------------------
(***************************************************************************)
(* mtp-mountd --dry-run (src/src/daemon/dryrun.rs), beside a daemon that   *)
(* sees the same devices.  The dry run opens and mounts nothing; it keeps  *)
(* the keys that arrived and judges every departure by its key.  What it   *)
(* says is compared with what the daemon's mounts come to.                 *)
(***************************************************************************)
EXTENDS Supervisor

VARIABLES inbox,   \* the dry run's channel
          open,    \* keys that arrived and have not left
          tally,   \* its totals
          verdict  \* on the last departure

dry == <<open, tally, verdict>>

DryInit ==
  /\ Init
  /\ inbox = <<>>
  /\ open = {}
  /\ tally = [arrivals |-> 0, departures |-> 0, matched |-> 0, unmatched |-> 0]
  /\ verdict = "none"

(* Its own watch reports every cable, whether or not the daemon runs.  The *)
(* key is the one the daemon derives: both go through DeviceFacts.         *)
Seen(e) == inbox' = Append(inbox, e)

DryPlug(d) ==
  /\ Plug(d)
  /\ Seen(Event("arrived", Key[d], d))
  /\ UNCHANGED dry

DryUnplug(d, k) ==
  /\ Unplug(d)
  /\ Watching => usb'[Len(usb')].key = k
  /\ Seen(Event("left", k, d))
  /\ UNCHANGED dry

(* arrived: a key that is already down as arrived is left as it is. *)
Arrived ==
  /\ inbox # <<>> /\ Head(inbox).what = "arrived"
  /\ inbox' = Tail(inbox)
  /\ open' = open \cup {Head(inbox).key}
  /\ tally' = [tally EXCEPT !.arrivals = @ + 1]
  /\ UNCHANGED <<vars, verdict>>

LeavesOpen(k) == open

Closes(k) == open \ {k}

AnyIsMatch(k) == IF open = {} THEN "nothing_to_unmount" ELSE "matched"

Verdict(k) ==
  IF k \in open THEN "matched"
  ELSE IF open = {} THEN "nothing_to_unmount"
  ELSE "would_leak"

Left ==
  /\ inbox # <<>> /\ Head(inbox).what = "left"
  /\ inbox' = Tail(inbox)
  /\ verdict' = Verdict(Head(inbox).key)
  /\ open' = Closes(Head(inbox).key)
  /\ tally' = IF verdict' = "matched"
              THEN [tally EXCEPT !.departures = @ + 1, !.matched = @ + 1]
              ELSE [tally EXCEPT !.departures = @ + 1, !.unmatched = @ + 1]
  /\ UNCHANGED vars

(* What the summary says, should the dry run be stopped now. *)
Summary ==
  IF tally.unmatched > 0 THEN "problem"
  ELSE IF tally.departures > 0 THEN "all_good"
  ELSE IF tally.arrivals > 0 THEN "no_departures"
  ELSE "no_devices"
-----------------------------------------------------------------------------
DryStep == Arrived \/ Left

DryNext ==
  \/ \E d \in Devices : DryPlug(d) \/ \E k \in LeftAs[d] : DryUnplug(d, k)
  \/ DaemonStep /\ UNCHANGED <<inbox, dry>>
  \/ DryStep

DryVars == <<vars, inbox, dry>>

DrySpec == DryInit /\ [][DryNext]_DryVars

DryFairSpec == DrySpec /\ Fairness /\ WF_DryVars(DryStep)
-----------------------------------------------------------------------------
(* Both have dealt with everything that happened. *)
Quiet == sup.pc = "recv" /\ usb = <<>> /\ commands = <<>> /\ inbox = <<>>

Dead(k) == mounts[k] # None /\ ~mount[mounts[k]].alive

(* "Would be mounted now": the daemon mounts nothing else, and, unless a   *)
(* departure went unmatched, just that.                                    *)
Foretells ==
  Quiet => /\ MountedKeys \subseteq open
           /\ tally.unmatched = 0 => MountedKeys = open

(* "An unplug that doesn't match its plug-in is called out": when the      *)
(* daemon is left with the mount of a device that is gone, the summary     *)
(* says there is a problem.                                                *)
LeakIsCalledOut == Quiet /\ (\E k \in Keys : Dead(k)) => Summary = "problem"

(* Where the dry run calls out nothing, a device that is plugged in, or    *)
(* comes back, is mounted over its new session.                            *)
GoodIsMounted ==
  \A d \in Devices :
    d \in plugged ~> \/ d \notin plugged
                     \/ \E m \in Ids : mounts[Key[d]] = m /\ mount[m].alive
                     \/ Summary = "problem"

(* Not kept: a summary that calls out a problem has seen a departure that  *)
(* would leak a mount.                                                     *)
ProblemIsLeak ==
  [][tally'.unmatched > tally.unmatched => verdict' = "would_leak"]_DryVars
=============================================================================
