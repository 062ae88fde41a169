----------------------------- MODULE MCSharding -----------------------------
(* Small instances of Sharding. *)
EXTENDS Sharding, TLC

MCSymmetry == Permutations(Shard)
=============================================================================
