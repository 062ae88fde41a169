--------------------------- MODULE MCLockManager ---------------------------
(* Small instances of LockManager, given in the configurations. *)
EXTENDS LockManager
=============================================================================
