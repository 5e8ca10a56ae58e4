-------------------------- MODULE MCStandaloneApp --------------------------
(* StandaloneApp for TLC: the accounts are interchangeable. *)
EXTENDS StandaloneApp, TLC

Symmetry == Permutations(Users)

=============================================================================
