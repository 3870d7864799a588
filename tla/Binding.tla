-------------------------------- MODULE Binding --------------------------------
(***************************************************************************)
(* What remote control promises, whatever tasks, tables and pointers it is *)
(* made of: the first controller whose set_mac is obeyed keeps the device, *)
(* until it restarts, and only that controller sets its log level.  Once   *)
(* an unset_mac has been received nothing more is promised.                *)
(***************************************************************************)
CONSTANTS Macs, Levels, Verbose, Null

VARIABLES
  controller,  \* who the device is bound to
  level,       \* its log level
  asker,       \* who sent the command it is obeying
  cancelled    \* an unset_mac was received

vars == <<controller, level, asker, cancelled>>

Init == controller = Null /\ level = Verbose /\ asker = Null /\ cancelled = FALSE

Ask == asker' \in Macs /\ cancelled' \in {cancelled, TRUE}
       /\ UNCHANGED <<controller, level>>

Bind == controller = Null /\ controller' = asker /\ UNCHANGED <<level, asker, cancelled>>

SetLevel == /\ controller = asker /\ level' \in Levels
            /\ UNCHANGED <<controller, asker, cancelled>>

Restart == controller' = Null /\ level' = Verbose /\ asker' = Null /\ cancelled' = FALSE

Unbound == cancelled /\ cancelled'

Next == Ask \/ Bind \/ SetLevel \/ Restart \/ Unbound
Spec == Init /\ [][Next]_vars
=============================================================================
