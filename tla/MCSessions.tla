----------------------------- MODULE MCSessions -----------------------------
(* Requests the API serves at once are interchangeable. *)
EXTENDS Sessions, TLC

OpSymmetry == Permutations(Ops) \cup Permutations(Calls)
=============================================================================
