----------------------------- MODULE Overwrite ------------------------------
(***************************************************************************)
(* What replacing a file's content promises its user, without sessions,    *)
(* temp names or retries: the new content counts once close() has reported *)
(* success, and until then the old one is kept, or the new one already is. *)
(* Flush implements this.                                                  *)
(***************************************************************************)
CONSTANTS Contents,  \* what a file may hold
          None,      \* no replacement under way
          Safe       \* the device lets a file be replaced without a gap

VARIABLES file,     \* the content of the last close() that succeeded
          pending,  \* the content a close() under way is storing
          stored    \* the contents the device holds whole

vars == <<file, pending, stored>>

Init == file \in Contents /\ pending = None /\ stored = {file}

(* The user can still get at what they are owed. *)
Kept(now) == Safe => file \in now \/ pending \in now

Start(c) ==
  /\ pending = None /\ pending' = c
  /\ UNCHANGED <<file, stored>>

(* Objects come and go on the device while the close() is under way, and   *)
(* leftovers of earlier ones disappear.                                    *)
Work ==
  /\ stored' \subseteq stored \cup ({pending} \ {None})
  /\ Kept(stored')
  /\ UNCHANGED <<file, pending>>

Succeed ==
  /\ pending # None
  /\ stored' \subseteq stored \cup {pending}
  /\ pending \in stored'
  /\ file' = pending
  /\ pending' = None

Fail ==
  /\ pending # None
  /\ stored' \subseteq stored \cup {pending}
  /\ Safe => file \in stored'
  /\ pending' = None
  /\ UNCHANGED file

Next == (\E c \in Contents : Start(c)) \/ Work \/ Succeed \/ Fail

Safety == Init /\ [][Next]_vars

(* Every close() is answered. *)
Spec == Safety /\ (pending # None ~> pending = None)
=============================================================================
