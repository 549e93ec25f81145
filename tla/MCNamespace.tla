---------------------------- MODULE MCNamespace -----------------------------
(* Directories on small instances. *)
EXTENDS Namespace

(* Names are interchangeable, and so are directories. *)
Interchangeable ==
  {p @@ q : p \in Permutations(Names), q \in Permutations(Dirs)}
=============================================================================
