---------------------------- MODULE MCPersistence ----------------------------
(* Small instances of Persistence. *)
EXTENDS Persistence, TLC

MCSymmetry == Permutations(Key)
=============================================================================
