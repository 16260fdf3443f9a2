-------------------------- MODULE MCRegistryClients -------------------------
(* Small instances of RegistryClients for TLC. *)
EXTENDS RegistryClients, TLC

\* Agents are interchangeable in the safety runs; so are services.
Symmetry == Permutations(Urls) \cup Permutations(Services)
=============================================================================
