------------------------- MODULE MCLaunchDirectory -------------------------
(* Small instances of LaunchDirectory for TLC. *)
EXTENDS LaunchDirectory

CONSTANTS Relaunched

\* One session runs TUIs, the other launches sweep and end.
Uneven == [l \in Launches |-> IF l = Relaunched THEN MaxTUI ELSE 0]

\* Every session may be relaunched.
Even == [l \in Launches |-> MaxTUI]
=============================================================================
