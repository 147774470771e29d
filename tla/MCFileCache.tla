---------------------------- MODULE MCFileCache ----------------------------
(* Instances of FileCache for TLC. *)
EXTENDS FileCache, TLC

(* The calls are interchangeable: no action and no property names one. *)
Symmetry == Permutations(Request)
=============================================================================
