---------------------------- MODULE MCInputMode ----------------------------
(***************************************************************************)
(* InputMode on a small instance: two concurrent helper slots.  The bounds *)
(* are in the .cfg files.                                                  *)
(***************************************************************************)
EXTENDS InputMode

CONSTANTS h1, h2

MCHelpers == {h1, h2}

=============================================================================
