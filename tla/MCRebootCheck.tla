---------------------------- MODULE MCRebootCheck ----------------------------
(* Five boots cut from outside: enough for three short ones, an interrupted *)
(* erase and another round.                                                *)
EXTENDS RebootCheck

AnyInt == {-2, 0, 1, 7}
=============================================================================
