---------------------------- MODULE MCTargetDevice ----------------------------
(* Two rival controllers, a logging task, a queue of one frame, and two    *)
(* peer objects, one more than can be in use at once, so that a freed one  *)
(* need not be handed out again.  While the start-up task registers the    *)
(* three built-in commands another task registers one, and the table has   *)
(* room for three.                                                         *)
EXTENDS TargetDevice, TLC

CONSTANTS m1, m2, o1, o2
Symmetric == Permutations({m1, m2}) \cup Permutations({o1, o2})

Protocol == {"set_mac", "set_log", "unset_mac"}
Two == [r \in {"app", "main"} |-> IF r = "app" THEN {"reset"} ELSE Protocol]
=============================================================================
