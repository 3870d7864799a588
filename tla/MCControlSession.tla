--------------------------- MODULE MCControlSession ---------------------------
(* Two targets on different ones of three channels: each is missed by two  *)
(* steps of a sweep, unless the channel moves under it.                    *)
EXTENDS ControlSession

CONSTANTS m1, m2
Listening == [m \in Macs |-> IF m = m1 THEN 1 ELSE 3]
=============================================================================
