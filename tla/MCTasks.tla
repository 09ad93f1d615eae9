------------------------------- MODULE MCTasks -------------------------------
(* Tasks with two spawned threads, in the main thread and in a request. *)
EXTENDS Tasks
=============================================================================
