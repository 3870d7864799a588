----------------------------- MODULE CommandTable -----------------------------
(***************************************************************************)
(* g_target_func in std_rdebug_protocol.c: register_target_func appends to *)
(* a table of TARGET_FUNC_MAX_COUNT entries without a lock, while          *)
(* cmd_handle, on the debug task, walks it for every frame it receives.    *)
(* No record registered in the repository has a NULL cmd, so the walk ends *)
(* at a match, at a NULL entry it dereferences, or beyond the array.       *)
(***************************************************************************)
EXTENDS Naturals

CONSTANTS Registrars, \* tasks that call register_target_func
          Mine,       \* Mine[r]: the commands whose functions r registers
          BuiltIn,    \* commands target_create_receive_debug_task registers
                      \* before it creates the debug task
          Commands,   \* commands that arrive, registered or not (module
                      \* TargetDevice states what is assumed of the constants)
          MaxCount,   \* TARGET_FUNC_MAX_COUNT
          Null

Registered == UNION {Mine[r] : r \in Registrars}

VARIABLES
  table,           \* g_target_func: the cmd of each entry, or Null
  rpc, rn, func,   \* each registrar: step, its n, what it registers
  registered,      \* commands whose register_target_func has returned
  pc, n, cmd,      \* cmd_handle: step, its n, the command looked for
  known,           \* history: registered when the walk began
  overwritten      \* history: commands whose entry another one took

registerVars == <<rpc, rn, func, registered>>
walkVars == <<pc, n, cmd, known>>
vars == <<table, registerVars, walkVars, overwritten>>

Entries == 0..(MaxCount - 1)

TypeOK ==
  /\ table \in [Entries -> Registered \cup {Null}]
  /\ rpc \in [Registrars -> {"idle", "test", "store", "stuck"}]
  /\ rn \in [Registrars -> Entries]
  /\ func \in [Registrars -> Registered \cup {Null}]
  /\ registered \subseteq Registered /\ known \subseteq Registered
  /\ overwritten \subseteq Registered
  /\ pc \in {"idle", "walk", "panic", "wild", "asleep"} /\ n \in 0..MaxCount
  /\ cmd \in Commands \cup {Null}

Init ==
  /\ table = [i \in Entries |-> Null]
  /\ rpc = [r \in Registrars |-> "idle"] /\ rn = [r \in Registrars |-> 0]
  /\ func = [r \in Registrars |-> Null]
  /\ registered = {} /\ pc = "idle" /\ n = 0 /\ cmd = Null /\ known = {}
  /\ overwritten = {}

RGoto(r, from, to) == rpc[r] = from /\ rpc' = [rpc EXCEPT ![r] = to]

\* Mutant of Register: the search for a free entry starts at 1.
RegisterFromOne(r, c) ==
  /\ c \in Mine[r] \ registered
  /\ RGoto(r, "idle", "test")
  /\ rn' = [rn EXCEPT ![r] = 1] /\ func' = [func EXCEPT ![r] = c]
  /\ UNCHANGED <<table, registered, walkVars, overwritten>>

Register(r, c) ==
  /\ c \in Mine[r] \ registered
  /\ RGoto(r, "idle", "test")
  /\ rn' = [rn EXCEPT ![r] = 0] /\ func' = [func EXCEPT ![r] = c]
  /\ UNCHANGED <<table, registered, walkVars, overwritten>>

TestEntry(r) == \* g_target_func[n] == NULL
  /\ \/ table[rn[r]] = Null /\ RGoto(r, "test", "store") /\ UNCHANGED rn
     \/ /\ table[rn[r]] # Null /\ rn[r] < MaxCount - 1
        /\ RGoto(r, "test", "test") /\ rn' = [rn EXCEPT ![r] = @ + 1]
     \/ /\ table[rn[r]] # Null /\ rn[r] = MaxCount - 1
        /\ RGoto(r, "test", "stuck") /\ UNCHANGED rn     \* PORT_END
  /\ UNCHANGED <<table, func, registered, walkVars, overwritten>>

StoreEntry(r) ==
  /\ RGoto(r, "store", "idle")
  /\ table' = [table EXCEPT ![rn[r]] = func[r]]
  /\ overwritten' = overwritten \cup ({table[rn[r]]} \ {Null})
  /\ registered' = registered \cup {func[r]}
  /\ rn' = [rn EXCEPT ![r] = 0] /\ func' = [func EXCEPT ![r] = Null]
  /\ UNCHANGED walkVars

\* Mutant of Receive: the walk starts at entry 1.
ReceiveFromOne(c) ==
  /\ BuiltIn \subseteq registered
  /\ pc = "idle" /\ pc' = "walk" /\ n' = 1 /\ cmd' = c /\ known' = registered
  /\ UNCHANGED <<table, registerVars, overwritten>>

Receive(c) ==
  /\ BuiltIn \subseteq registered
  /\ pc = "idle" /\ pc' = "walk" /\ n' = 0 /\ cmd' = c /\ known' = registered
  /\ UNCHANGED <<table, registerVars, overwritten>>

Malformed == \* no "cmd" in the frame: PORT_ASSERT puts the task to sleep for ever
  /\ BuiltIn \subseteq registered
  /\ pc = "idle" /\ pc' = "asleep" /\ n' = 0 /\ cmd' = Null /\ known' = {}
  /\ UNCHANGED <<table, registerVars, overwritten>>

Match == \* func(mac, arg) runs: module TargetDevice
  /\ pc = "walk" /\ n < MaxCount /\ table[n] = cmd /\ pc' = "idle"
  /\ n' = 0 /\ cmd' = Null /\ known' = {}
  /\ UNCHANGED <<table, registerVars, overwritten>>

NextEntry ==
  /\ pc = "walk" /\ n < MaxCount /\ table[n] \notin {cmd, Null} /\ n' = n + 1
  /\ UNCHANGED <<table, registerVars, pc, cmd, known, overwritten>>

NullEntry == \* g_target_func[n]->cmd with g_target_func[n] == NULL
  /\ pc = "walk" /\ n < MaxCount /\ table[n] = Null /\ pc' = "panic"
  /\ UNCHANGED <<table, registerVars, n, cmd, known, overwritten>>

PastEnd ==   \* the array is full: memory beyond it is read
  /\ pc = "walk" /\ n = MaxCount /\ pc' = "wild"
  /\ UNCHANGED <<table, registerVars, n, cmd, known, overwritten>>

\* After a panic, a power cut or a restart asked for.
Restart ==
  /\ table' = [i \in Entries |-> Null]
  /\ rpc' = [r \in Registrars |-> "idle"] /\ rn' = [r \in Registrars |-> 0]
  /\ func' = [r \in Registrars |-> Null]
  /\ registered' = {} /\ pc' = "idle" /\ n' = 0 /\ cmd' = Null /\ known' = {}
  /\ overwritten' = {}

CmdHandle == Malformed \/ Match \/ NextEntry \/ NullEntry \/ PastEnd
Next ==
  \/ \E r \in Registrars :
       TestEntry(r) \/ StoreEntry(r) \/ \E c \in Mine[r] : Register(r, c)
  \/ CmdHandle \/ (\E c \in Commands : Receive(c)) \/ Restart

Spec == Init /\ [][Next]_vars
-----------------------------------------------------------------------------
(* Even when two tasks register at once and overwrite each other's entry,  *)
(* the table has no hole a walk would dereference on its way to a later    *)
(* entry, and no walk overtakes the entries it has not yet seen filled.    *)
NoHoles ==
  /\ \A i, j \in Entries : i < j /\ table[j] # Null => table[i] # Null
  /\ pc \in {"walk", "panic"} => \A i \in Entries : i < n => table[i] # Null

(* A command whose registration had returned when its frame was taken, and *)
(* whose entry no other registration took, is dispatched: it neither       *)
(* panics the device nor runs off the table, whatever is being registered  *)
(* meanwhile.                                                              *)
RegisteredIsFound ==
  pc \in {"panic", "wild"} => cmd \notin known \ overwritten

(* An undefined command is warned about and ignored.                       *)
UndefinedIsIgnored == pc \notin {"panic", "wild"}
=============================================================================
