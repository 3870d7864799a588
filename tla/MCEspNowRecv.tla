---------------------------- MODULE MCEspNowRecv ----------------------------
(* An application task that reads by type and drains with                  *)
(* std_espnow_empty, beside the debug task.                                *)
EXTENDS EspNowRecv

AppAndDebugTask ==
  [r \in {"app", "debug task"} |->
     IF r = "app" THEN {"config", "all"} ELSE {"debug"}]
=============================================================================
