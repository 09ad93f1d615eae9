------------------------------ MODULE MCHashMap ------------------------------
(* HashMap on a table of four slots that grows to eight. *)
EXTENDS HashMap

CONSTANTS k1, k2, k3, k4

\* In the small table the homes are the last two slots, so that probes collide
\* and wrap; in the large one keys that collided lie apart, or stay together.
MixedHashes ==
  {h \in [Key -> {3, 6, 7}] :
     h[k1] = 6 /\ h[k2] = 3 /\ h[k3] \in {3, 7} /\ h[k4] \in {6, 7}}
=============================================================================
