------------------------------ MODULE Futures ------------------------------
(***************************************************************************)
(* What spawn, await and a mutex cell promise, with no thread, no lock and *)
(* no memory: a spawned call runs once beside its spawner, reads and       *)
(* updates the shared cell in single steps, and its result is handed over  *)
(* once, to the await.  Module Tasks is shown to implement this.           *)
(***************************************************************************)
EXTENDS Integers, Sequences

CONSTANTS Task, NoValue

VARIABLES
  cell,      \* the value in the mutex cell
  phase,     \* phase[t]: "new", "running", "finished" or "taken"
  work,      \* work[t]: the operations on the cell it has still to do, in order
  seen,      \* seen[t]: what the task's last operation on the cell answered
  outcome,   \* outcome[t]: what the call returned
  got        \* got[t]: what its await answered

fvars == <<cell, phase, work, seen, outcome, got>>

Init ==
  /\ cell = 0
  /\ phase = [t \in Task |-> "new"]
  /\ work = [t \in Task |-> <<>>]
  /\ seen = [t \in Task |-> 0]
  /\ outcome = [t \in Task |-> NoValue]
  /\ got = [t \in Task |-> NoValue]

Spawn(t) ==
  /\ phase[t] = "new"
  /\ work'[t] \in Seq({"update", "get", "set"})
  /\ work' = [work EXCEPT ![t] = work'[t]]
  /\ phase' = [phase EXCEPT ![t] = "running"]
  /\ UNCHANGED <<cell, seen, outcome, got>>

\* The next operation of t on the cell is op, and it takes effect.
Does(t, op) ==
  /\ phase[t] = "running"
  /\ work[t] # <<>> /\ Head(work[t]) = op
  /\ work' = [work EXCEPT ![t] = Tail(@)]

Update(t) ==
  /\ Does(t, "update")
  /\ cell' = cell + 1
  /\ seen' = [seen EXCEPT ![t] = cell + 1]
  /\ UNCHANGED <<phase, outcome, got>>

Get(t) ==
  /\ Does(t, "get")
  /\ seen' = [seen EXCEPT ![t] = cell]
  /\ UNCHANGED <<cell, phase, outcome, got>>

\* The task stores what its get answered plus one: another task's update may
\* have come in between, and is then lost.
Set(t) ==
  /\ Does(t, "set")
  /\ cell' = seen[t] + 1
  /\ UNCHANGED <<phase, seen, outcome, got>>

Finish(t) ==
  /\ phase[t] = "running" /\ work[t] = <<>>
  /\ phase' = [phase EXCEPT ![t] = "finished"]
  /\ outcome'[t] # NoValue
  /\ outcome' = [outcome EXCEPT ![t] = outcome'[t]]
  /\ UNCHANGED <<cell, work, seen, got>>

Await(t) ==
  /\ phase[t] = "finished"
  /\ phase' = [phase EXCEPT ![t] = "taken"]
  /\ got' = [got EXCEPT ![t] = outcome[t]]
  /\ UNCHANGED <<cell, work, seen, outcome>>

Next ==
  \E t \in Task :
    Spawn(t) \/ Update(t) \/ Get(t) \/ Set(t) \/ Finish(t) \/ Await(t)

Spec == Init /\ [][Next]_fvars
=============================================================================
