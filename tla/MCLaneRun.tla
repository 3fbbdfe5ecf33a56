------------------------------ MODULE MCLaneRun ------------------------------
(* Small instances of LaneRun for TLC. *)
EXTENDS LaneRun, FiniteSets, TLC

MCSize == [d \in Deliveries |-> 1]
Interchangeable == Permutations(Runs) \cup Permutations(Deliveries)

(* What the safety run explores: three deliveries meet loss and Close, or    *)
(* two deliveries meet interrupts. Both at once would be 4 million states.   *)
Uninterrupted ==
  interrupted = {} /\ natStop # "cancelled" /\ t.stopReason # "cancelled"
Undisturbed ==
  /\ ~failed /\ ~closing /\ "error" \notin {err, written, reply}
  /\ Cardinality({d \in Deliveries : captured[d] # Idle}) <= 2
OneFamily == Uninterrupted \/ Undisturbed
=============================================================================
