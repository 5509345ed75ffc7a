----------------------------- MODULE MCModeListener -----------------------------
(* A small instance of ModeListener; the bounds are in the configuration. *)
EXTENDS ModeListener
=============================================================================
