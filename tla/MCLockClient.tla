---------------------------- MODULE MCLockClient ----------------------------
(* Small instances of LockClient.  Slots are numbers there, connections are  *)
(* used in one order, and clients alike but few: no run needs a symmetry.    *)
EXTENDS LockClient
=============================================================================
