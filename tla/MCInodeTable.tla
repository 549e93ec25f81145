---------------------------- MODULE MCInodeTable ----------------------------
(* The inode table on a small instance. *)
EXTENDS InodeTable, TLC

(* Names and handles are interchangeable. *)
Interchangeable == Permutations(Names) \cup Permutations(Handles)
=============================================================================
