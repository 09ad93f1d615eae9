------------------------------ MODULE KeyValue ------------------------------
(***************************************************************************)
(* What a typed map promises: a finite function from keys to values.  A    *)
(* call takes effect once, on the key it names; while a call runs on,      *)
(* before or after its effect, nothing changes.  There is no table, no     *)
(* probing and no growing here; HashMap is shown to implement this module. *)
(***************************************************************************)
CONSTANTS Key, Val,
          None       \* what an absent key is bound to

VARIABLES store,     \* the function
          phase,     \* where the call under way is
          pending    \* what a set under way will bind

vars == <<store, phase, pending>>

NoSet == [key |-> None, val |-> None]

Init ==
  /\ store = [k \in Key |-> None]
  /\ phase = "idle"
  /\ pending = NoSet

BeginSet(k, v) ==
  /\ phase = "idle" /\ phase' = "setting"
  /\ pending' = [key |-> k, val |-> v]
  /\ UNCHANGED store

Set ==
  /\ phase = "setting" /\ phase' = "idle"
  /\ store' = [store EXCEPT ![pending.key] = pending.val]
  /\ pending' = NoSet

Remove(k) ==
  /\ phase = "idle" /\ phase' = "removing"
  /\ store' = [store EXCEPT ![k] = None]
  /\ UNCHANGED pending

Return ==
  /\ phase = "removing" /\ phase' = "idle"
  /\ UNCHANGED <<store, pending>>

\* The last handle is released.
Drop ==
  /\ phase = "idle" /\ phase' = "dropped"
  /\ store' = [k \in Key |-> None]
  /\ UNCHANGED pending

Next == Set \/ Return \/ Drop \/ \E k \in Key : Remove(k) \/ \E v \in Val : BeginSet(k, v)

Spec == Init /\ [][Next]_vars
=============================================================================
