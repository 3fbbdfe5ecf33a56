------------------------- MODULE MCInteractiveOwner -------------------------
(* Small instances of InteractiveOwner for TLC. *)
EXTENDS InteractiveOwner, TLC

Interchangeable == Permutations(Rows) \cup Permutations(Deliveries)

(* What the safety run explores: messages to a session that keeps its row,   *)
(* or renames, refusals, calls and End of a session without messages. End      *)
(* comes with one message.                                                   *)
WithoutMessages == \A d \in Deliveries : via[d] = 0
OnlyMessages ==
  /\ call = "none"
  /\ end = "no" \/ \E d \in Deliveries : via[d] = 0
  /\ revision <= 1 /\ published \in {NoRow, registry}
  /\ ~refused
  /\ \A k \in 1 .. conns : \A i \in DOMAIN frames[k] : frames[k][i] # "refused"
OneFamily == WithoutMessages \/ OnlyMessages

(* The liveness run: a session with a message keeps its first row, or loses it *)
(* for good, on the one connection. Only a delivery, a rename or a loss can     *)
(* leave this, none of which the fairness expects, so that what it drops is     *)
(* environments and no progress of the helper. The rows are alike: the first    *)
(* that is read is the chosen one.                                             *)
OneSession == registry \in {NoRow, published} /\ revision <= 1 /\ conns <= 1
FirstRow == CHOOSE row \in Rows : TRUE
Settled ==
  /\ WithoutMessages \/ OneSession
  /\ published = NoRow => registry \in {NoRow, FirstRow}
=============================================================================
