--------------------------- MODULE MCCommandTable ---------------------------
(* A table of four entries and five commands, one more than fit.  The      *)
(* start-up task registers the built-in ones while another task registers  *)
(* two.  "send2root" is a documented command that nobody registers.        *)
EXTENDS CommandTable

Protocol == {"set_mac", "set_log", "unset_mac"}
Two == [r \in {"app", "main"} |->
          IF r = "app" THEN {"reset", "restart"} ELSE Protocol]
=============================================================================
