-------------------------- MODULE MCLaneLifecycle --------------------------
(* LaneLifecycle on a small instance: two connections, one Run, and every  *)
(* event at every step. No symmetry: the run checks liveness.               *)
EXTENDS LaneLifecycle

MCEvents == {"failure", "expiry", "exit", "malformed", "drop",
             "stubborn", "close", "early", "deadline"}
=============================================================================
