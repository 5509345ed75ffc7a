---------------------------- MODULE MCControllerTest ----------------------------
(* Small instances of ControllerTest. *)
EXTENDS ControllerTest

CONSTANTS P1, P2

TwoPages == {P1, P2}
=============================================================================
