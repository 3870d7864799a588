---------------------------- MODULE MCEspNowSend ----------------------------
(* Two application tasks, three heap blocks and a queue of one slot:       *)
(* enough for a full queue, a contended lock and a reused block.           *)
EXTENDS EspNowSend

CONSTANTS a1, a2, f1, f2, f3
=============================================================================
