----------------------------- MODULE MCFullFill -----------------------------
(* Whole-object fills on small instances. *)
EXTENDS FullFill
=============================================================================
