----------------------------- MODULE MCProducer -----------------------------
(* Small instances of Producer. *)
EXTENDS Producer
=============================================================================
