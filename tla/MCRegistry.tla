----------------------------- MODULE MCRegistry -----------------------------
(* Small instances of Registry for TLC. *)
EXTENDS Registry, TLC

\* Agents are interchangeable in the safety runs; so are services.
Symmetry == Permutations(Urls) \cup Permutations(Services)
=============================================================================
