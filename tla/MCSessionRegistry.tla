-------------------------- MODULE MCSessionRegistry --------------------------
(* Instances of SessionRegistry for TLC. *)
EXTENDS SessionRegistry, TLC

(* Connections and files are interchangeable. *)
Symmetry == Permutations(Connection) \cup Permutations(File)
=============================================================================
