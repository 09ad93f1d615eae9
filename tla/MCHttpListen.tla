----------------------------- MODULE MCHttpListen -----------------------------
(* HttpListen on small instances. *)
EXTENDS HttpListen
=============================================================================
