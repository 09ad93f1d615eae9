------------------------------- MODULE HttpFlag -------------------------------
(***************************************************************************)
(* What the accept loops of HttpListen and the workers of HttpConn share:  *)
(* the flag a signal handler sets, and everyone only reads.                *)
(***************************************************************************)

VARIABLE shutdown    \* g_http_shutdown
=============================================================================
