------------------------------ MODULE MCFileIO ------------------------------
(* One file of a few bytes and two descriptors. *)
EXTENDS FileIO, TLC

(* Empty, within a limit of 2, and beyond it. *)
Contents == {<<>>} \cup {s \in Bytes \X Bytes : s[1] # s[2]} \cup {<<b, b, b>> : b \in Bytes}

(* Descriptors are interchangeable, and so are bytes. *)
Interchangeable == Permutations(Fds) \cup Permutations(Bytes)
=============================================================================
