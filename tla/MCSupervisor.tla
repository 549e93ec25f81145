---------------------------- MODULE MCSupervisor ----------------------------
(* The daemon with two devices, or with one that is plugged in repeatedly. *)
EXTENDS Supervisor

(* A departure reports the fields its arrival did. *)
AsArrived == [d \in Devices |-> {Key[d]}]

(* Every device has a serial number of its own. *)
OwnKeys == [d \in Devices |-> d]

(* Broken firmware: all devices report the same one. *)
SameKey == [d \in Devices |-> CHOOSE x \in Devices : TRUE]
=============================================================================
