------------------------------ MODULE MCKeyScan ------------------------------
(* Two keys with different debounce times, a scan of two rounds so that a  *)
(* press can outlast it, and a queue of one event so that loop_task blocks.*)
EXTENDS KeyScan

Debounce == [k \in Keys |-> k - 1]
=============================================================================
