---------------------------- MODULE MCBundledWeb ----------------------------
(* Interchangeable requests and call slots. *)
EXTENDS BundledWeb, TLC

CONSTANTS r1, r2, c1, c2

MCSymmetry == Permutations(Requests) \cup Permutations(Calls)

=============================================================================
