------------------------------ MODULE LaneInput ------------------------------
(***************************************************************************)
(* What a lane promises of the input it admits into its Runs: one Run at a *)
(* time owns input; a delivery is admitted once, into the Run in progress; *)
(* native is given a Run's input in the order of its admission, some at a  *)
(* time; a Run that was stopped admits and gives no more; a Run that ended *)
(* never does again, and completes only when it was stopped or has given   *)
(* everything.                                                             *)
(***************************************************************************)
EXTENDS Integers, Sequences, Functions

CONSTANTS Runs, Deliveries, NoRun

VARIABLES owner,      \* the Run in progress, or NoRun
          stopped,    \* the Runs that are to take no more input
          accepted,   \* the deliveries admitted into each Run, in order
          handed,     \* those given to native, in order
          outcome     \* how each Run ended

inputRunVars == <<owner, stopped, accepted, handed, outcome>>

InputInit ==
  /\ owner = NoRun /\ stopped = {}
  /\ accepted = [r \in Runs |-> <<>>] /\ handed = [r \in Runs |-> <<>>]
  /\ outcome = [r \in Runs |-> "none"]

\* A Run begins with nothing and only once.
Own(r) ==
  /\ owner = NoRun /\ owner' = r
  /\ accepted[r] = <<>> /\ handed[r] = <<>> /\ outcome[r] = "none"
  /\ UNCHANGED <<stopped, accepted, handed, outcome>>

Owns == owner # NoRun /\ owner \notin stopped

AdmitInput(d) ==
  /\ accepted' = [accepted EXCEPT ![owner] = Append(@, d)]
  /\ \A r \in Runs : d \notin Range(accepted[r])
  /\ UNCHANGED <<owner, stopped, handed, outcome>>

GiveUpTo(n) ==
  /\ handed' = [handed EXCEPT ![owner] = SubSeq(accepted[owner], 1, n)]
  /\ UNCHANGED <<owner, stopped, accepted, outcome>>

Stop ==
  /\ stopped' # stopped /\ stopped \subseteq stopped' /\ stopped' \subseteq Runs
  /\ UNCHANGED <<owner, accepted, handed, outcome>>

EndAs(result) ==
  /\ owner # NoRun /\ owner' = NoRun
  /\ result = "completed" => owner \in stopped \/ handed[owner] = accepted[owner]
  /\ outcome' = [outcome EXCEPT ![owner] = result]
  /\ UNCHANGED <<stopped, accepted, handed>>

InputNext ==
  \/ \E r \in Runs : Own(r)
  \/ Owns /\ \E d \in Deliveries : AdmitInput(d)
  \/ Owns /\ \E n \in Len(handed[owner]) + 1 .. Len(accepted[owner]) : GiveUpTo(n)
  \/ Stop
  \/ \E result \in {"completed", "interrupted", "failed", "unavailable"} : EndAs(result)

InputSpec == InputInit /\ [][InputNext]_inputRunVars
=============================================================================
