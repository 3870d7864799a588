----------------------------- MODULE TargetDevice -----------------------------
(***************************************************************************)
(* The controlled device as a whole: the debug task takes a frame, walks   *)
(* g_target_func (module CommandTable, while other tasks register their    *)
(* functions) and runs what it finds there: a built-in function (module    *)
(* TargetControl) or one of the application.  A walk that dereferences     *)
(* NULL, or runs off the table, ends in a restart of everything.           *)
(***************************************************************************)
EXTENDS TargetControl

CONSTANTS Registrars, Mine, BuiltIn, MaxCount, \* as in CommandTable
          Names                                \* command names that arrive

VARIABLES
  functions, rpc, rn, func, registered,  \* g_target_func and its registrars
  walk, n, name, known, overwritten,     \* cmd_handle
  sender                                 \* recv->addr of the frame it handles

Table == INSTANCE CommandTable
           WITH Commands <- Names, table <- functions, pc <- walk, cmd <- name

tableVars == <<functions, rpc, rn, func, registered, walk, n, name, known, overwritten>>
deviceVars == <<vars, tableVars, sender>>

ASSUME DeviceAssumption ==
  /\ Commands \subseteq BuiltIn /\ BuiltIn \subseteq Table!Registered
  /\ Table!Registered \subseteq Names /\ Null \notin Names
  /\ MaxCount \in Nat \ {0}

DeviceTypeOK == TypeOK /\ Table!TypeOK /\ sender \in Macs \cup {Null}

DeviceInit == Init /\ Table!Init /\ sender = Null

\* target_receive_debug_task: read a frame, cmd_handle, read the next.
FrameArrives(c, m) ==
  /\ pc = "idle" /\ Table!Receive(c) /\ sender' = m /\ UNCHANGED vars

\* A frame without a command ends the debug task.
MalformedArrives == pc = "idle" /\ Table!Malformed /\ UNCHANGED <<vars, sender>>

Dispatch == \* g_target_func[n]->func(mac, arg)
  /\ Table!Match /\ sender' = Null
  /\ IF name \in Commands THEN Receive(name, sender) ELSE UNCHANGED vars

Walk == /\ Table!NextEntry \/ Table!NullEntry \/ Table!PastEnd
        /\ UNCHANGED <<vars, sender>>

Registration == /\ \E r \in Registrars :
                     \/ Table!TestEntry(r) \/ Table!StoreEntry(r)
                     \/ \E c \in Mine[r] : Table!Register(r, c)
                /\ UNCHANGED <<vars, sender>>

RestartAll == Restart /\ Table!Restart /\ sender' = Null

Obey == \* the built-in function goes on; its NULL dereference restarts it all
  /\ pc # "idle" /\ DebugTask
  /\ IF pc = "log" /\ peer = Null THEN Table!Restart /\ sender' = Null
                                  ELSE UNCHANGED <<tableVars, sender>>

Logging == /\ \/ \E l \in Loggers : TargetPrint(l) \/ BuildSend(l) \/ PostLog(l)
              \/ WriteTask \/ WriteLog
           /\ UNCHANGED <<tableVars, sender>>

DeviceNext ==
  \/ \E c \in Names, m \in Macs : FrameArrives(c, m)
  \/ MalformedArrives \/ Dispatch \/ Walk \/ Registration \/ Obey \/ Logging \/ RestartAll

DeviceSpec == DeviceInit /\ [][DeviceNext]_deviceVars
-----------------------------------------------------------------------------
(* However two tasks register, the table has no hole before a later entry, *)
(* and no walk has passed an entry it would have found empty.              *)
NoHoles == Table!NoHoles

(* A command whose registration had returned when its frame was taken, and *)
(* whose entry no other registration took, is dispatched.                  *)
RegisteredIsFound == Table!RegisteredIsFound
=============================================================================
