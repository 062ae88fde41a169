----------------------------- MODULE MCElection -----------------------------
(* Small instances of Election. *)
EXTENDS Election, TLC

MCSymmetry == Permutations(Proc)
=============================================================================
