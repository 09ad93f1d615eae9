------------------------------ MODULE MCChannel ------------------------------
(* Channel on a small instance. *)
EXTENDS Channel
=============================================================================
