------------------------------ MODULE Backoff -------------------------------
(***************************************************************************)
(* The pauses between two attempts to reopen a device (src/src/            *)
(* reconnect.rs): capped exponential backoff within the reconnect window.  *)
(* Times are quarters of a second.                                         *)
(***************************************************************************)
EXTENDS Naturals

FIRST_DELAY == 1

MAX_DELAY == 8

Lesser(a, b) == IF a < b THEN a ELSE b

(* ReconnectPolicy::schedule for a window of `timeout`. *)
Schedule(timeout) == [remaining |-> timeout, next |-> FIRST_DELAY]

Spent(b) == b.remaining = 0

DelayUnclipped(b) == b.next

(* The last pause is shortened to what is left of the window. *)
Delay(b) == Lesser(b.next, b.remaining)

(* The schedule after one pause was taken. *)
After(b) == [remaining |-> b.remaining - Delay(b),
             next |-> Lesser(2 * b.next, MAX_DELAY)]
=============================================================================
