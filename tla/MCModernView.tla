---------------------------- MODULE MCModernView ----------------------------
(* A category of two pages and one of a single channel. *)
EXTENDS ModernView, TLC

CONSTANTS news, films, n1, n2, n3, f1

MCLineup == (news :> <<n1, n2, n3>>) @@ (films :> <<f1>>)

=============================================================================
