---------------------------- MODULE MCACPClient ----------------------------
(* Small instances of ACPClient for TLC. *)
EXTENDS ACPClient, TLC

Interchangeable == Permutations(Calls) \cup Permutations(Requests)
=============================================================================
