------------------------------ MODULE MCStore ------------------------------
(* Small instances of Store. *)
EXTENDS Store
=============================================================================
