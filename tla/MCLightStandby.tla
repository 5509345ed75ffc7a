----------------------------- MODULE MCLightStandby -----------------------------
(* Small instances of LightStandby; the values are in the configurations. *)
EXTENDS LightStandby
=============================================================================
