------------------------------- MODULE MCRpc -------------------------------
(* Small instances of Rpc. *)
EXTENDS Rpc

=============================================================================
