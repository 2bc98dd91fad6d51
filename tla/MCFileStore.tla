---------------------------- MODULE MCFileStore -----------------------------
(* Instances of FileStore for TLC. *)
EXTENDS FileStore, TLC

Symmetry == Permutations(Blocks) \cup Permutations(Files)
=============================================================================
