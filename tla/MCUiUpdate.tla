------------------------------- MODULE MCUiUpdate -------------------------------
(* A small instance of UiUpdate: a user file that is new and one that needs    *)
(* sudo, in three versions; the two transactions may be exchanged, and so may  *)
(* the two versions that are not installed.                                    *)
EXTENDS UiUpdate, TLC

CONSTANTS t1, t2, v1, v2, v3

MCPlan   == <<"adapter", "helper">>
MCNew    == {"adapter"}
Exchange == {[x \in {t1, t2, v2, v3} |-> IF x \in {t1, t2} THEN p[x] ELSE q[x]] :
               p \in Permutations({t1, t2}), q \in Permutations({v2, v3})}
=============================================================================
