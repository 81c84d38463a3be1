--------------------------- MODULE MCOAuthConnections ---------------------------
(* Instances of OAuthConnections for TLC. *)
EXTENDS OAuthConnections, TLC

Symmetry == Permutations(Requests)
=============================================================================
