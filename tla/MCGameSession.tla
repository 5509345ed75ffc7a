--------------------------- MODULE MCGameSession ---------------------------
(* Instances of GameSession for TLC. *)
EXTENDS GameSession, TLC

Symmetry == Permutations(Sessions)

=============================================================================
