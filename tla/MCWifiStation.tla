---------------------------- MODULE MCWifiStation ----------------------------
(* One network; the environment adds an event while fewer than two are on  *)
(* their way; waits of one second or for ever.                             *)
EXTENDS WifiStation
=============================================================================
