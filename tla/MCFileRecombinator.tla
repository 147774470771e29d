------------------------- MODULE MCFileRecombinator -------------------------
(* Instances of FileRecombinator for TLC. *)
EXTENDS FileRecombinator, TLC

(* The deliveries are interchangeable: no action and no property names one. *)
Symmetry == Permutations(Write)
=============================================================================
