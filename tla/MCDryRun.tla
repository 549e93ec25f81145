------------------------------ MODULE MCDryRun ------------------------------
(* The dry run beside the daemon. *)
EXTENDS DryRun

(* Every device has a serial number of its own. *)
OwnKeys == [d \in Devices |-> d]

(* Broken firmware: all devices report the same one. *)
SameKey == [d \in Devices |-> CHOOSE x \in Devices : TRUE]

(* The serial may be missing from the report of a departure, and the key   *)
(* is then made of the USB address.                                        *)
MaybeUsbForm == [d \in Devices |-> {Key[d], <<"usb", d>>}]

(* A departure reports the fields its arrival did. *)
AsArrived == [d \in Devices |-> {Key[d]}]
=============================================================================
