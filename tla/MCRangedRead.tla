---------------------------- MODULE MCRangedRead ----------------------------
(* Ranged reads of a file of a few bytes. *)
EXTENDS RangedRead
=============================================================================
