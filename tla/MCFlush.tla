------------------------------ MODULE MCFlush -------------------------------
(* Overwrites of one file on small instances. *)
EXTENDS Flush, TLC

(* Contents are interchangeable. *)
Interchangeable == Permutations(Data)
=============================================================================
