---------------------------- MODULE TargetControl ----------------------------
(***************************************************************************)
(* The controlled device of std_rdebug_protocol.c.  The debug task obeys   *)
(* set_mac, set_log and unset_mac frames and is the only writer of peer    *)
(* and rlog_en; every task that logs reads them in target_print and posts  *)
(* a frame that still points at the peer object; espnow_write_task follows *)
(* that pointer later.                                                     *)
(***************************************************************************)
EXTENDS Naturals, Sequences, Functions

CONSTANTS Macs,     \* controllers
          Loggers,  \* tasks that call std_rdebug_log
          Commands, \* command names that arrive: {"set_mac", "set_log"} are
                    \* the documented ones, "unset_mac" is registered too
          Levels, Verbose, \* log levels, and the one a device starts with
          Objs,     \* heap blocks espnow_peer_t objects live in
          Null,     \* a NULL pointer
          MaxSend   \* MAX_SEND_QUEEN

ASSUME TargetAssumption ==
  /\ Commands \subseteq {"set_mac", "set_log", "unset_mac"}
  /\ Verbose \in Levels /\ Null \notin Objs /\ MaxSend \in Nat \ {0}
  /\ Null \notin Macs

VARIABLES
  peer, rlog_en, level, \* peer, rlog_en, STD_GLOBAL_LOG_LEVEL
  addr,           \* the addr field of each peer object, Null if not allocated
  table,          \* the driver's peers
  pc, mac,        \* debug task: step, sender of the frame it obeys
  lpc, lptr,      \* each logger in target_print, and the pointer it read
  queue,          \* g_espnow_sed_queue: the peer pointer of each log frame
  wptr,           \* frame espnow_write_task is writing, "none" if idle
  cancelled       \* history: an unset_mac has been received

peerVars == <<peer, addr, table>>
debugVars == <<pc, mac, cancelled>>
logVars == <<lpc, lptr, queue, wptr>>
vars == <<peerVars, rlog_en, level, debugVars, logVars>>

Ptrs == Objs \cup {Null}

TypeOK ==
  /\ peer \in Ptrs /\ rlog_en \in BOOLEAN /\ level \in Levels
  /\ addr \in [Objs -> Macs \cup {Null}] /\ table \subseteq Macs
  /\ pc \in {"idle", "replace", "add", "enable", "log", "remove", "disable"}
  /\ mac \in Macs \cup {Null}
  /\ lpc \in [Loggers -> {"idle", "build", "post"}]
  /\ lptr \in [Loggers -> Ptrs]
  /\ queue \in Seq(Ptrs) /\ Len(queue) <= MaxSend
  /\ wptr \in Ptrs \cup {"none"} /\ cancelled \in BOOLEAN

Init ==
  /\ peer = Null /\ rlog_en = FALSE /\ level = Verbose
  /\ addr = [o \in Objs |-> Null] /\ table = {}
  /\ pc = "idle" /\ mac = Null
  /\ lpc = [l \in Loggers |-> "idle"] /\ lptr = [l \in Loggers |-> Null]
  /\ queue = <<>> /\ wptr = "none" /\ cancelled = FALSE

\* A panic (a NULL dereference here, module TargetDevice has others), a power
\* cut, or a restart asked for.
Restart ==
  /\ peer' = Null /\ rlog_en' = FALSE /\ level' = Verbose
  /\ addr' = [o \in Objs |-> Null] /\ table' = {}
  /\ pc' = "idle" /\ mac' = Null
  /\ lpc' = [l \in Loggers |-> "idle"] /\ lptr' = [l \in Loggers |-> Null]
  /\ queue' = <<>> /\ wptr' = "none" /\ cancelled' = FALSE

\* p->addr: a freed block can hold anything.
Deref(p) == IF addr[p] # Null THEN {addr[p]} ELSE Macs

Goto(from, to) == pc = from /\ pc' = to

\* Mutant of FirstStep: set_mac does not look at rlog_en.
FirstStepRebinds(c) ==
  CASE c = "set_log" -> "log"
    [] c = "set_mac" -> IF peer # Null THEN "replace" ELSE "add"
    [] c = "unset_mac" -> IF peer # Null THEN "remove" ELSE "disable"

\* cmd_handle finds the function, which looks at rlog_en and peer.
FirstStep(c) ==
  CASE c = "set_log" -> "log"
    [] c = "set_mac" /\ rlog_en -> "enable"
    [] c = "set_mac" /\ ~rlog_en -> IF peer # Null THEN "replace" ELSE "add"
    [] c = "unset_mac" -> IF peer # Null THEN "remove" ELSE "disable"

\* Mutant of Receive: set_mac sets rlog_en before it sets peer.
ReceiveEnablesFirst(c, m) ==
  /\ c \in Commands /\ Goto("idle", FirstStep(c)) /\ mac' = m
  /\ cancelled' = (cancelled \/ c = "unset_mac")
  /\ rlog_en' = (rlog_en \/ c = "set_mac")
  /\ UNCHANGED <<peerVars, level, logVars>>

Receive(c, m) ==
  /\ c \in Commands /\ Goto("idle", FirstStep(c)) /\ mac' = m
  /\ cancelled' = (cancelled \/ c = "unset_mac")
  /\ UNCHANGED <<peerVars, rlog_en, level, logVars>>

Deleted == Goto("replace", "add") \/ Goto("remove", "disable")

\* Mutant of DelPeer: the object is freed and the driver not told.
DelPeerForgets ==
  /\ Deleted /\ addr' = [addr EXCEPT ![peer] = Null]
  /\ UNCHANGED <<peer, table, rlog_en, level, mac, cancelled, logVars>>

\* std_espnow_del_peer: the object is kept if the driver does not know it.
DelPeer ==
  /\ Deleted
  /\ \E a \in Deref(peer) :
       IF a \in table
       THEN table' = table \ {a} /\ addr' = [addr EXCEPT ![peer] = Null]
       ELSE UNCHANGED <<table, addr>>
  /\ UNCHANGED <<peer, rlog_en, level, mac, cancelled, logVars>>

\* peer = std_espnow_add_peer(mac), NULL if the driver refuses.
AddPeer ==
  /\ Goto("add", "enable")
  /\ \/ /\ mac \notin table /\ table' = table \cup {mac}
        /\ \E o \in Objs : /\ addr[o] = Null /\ peer' = o
                           /\ addr' = [addr EXCEPT ![o] = mac]
     \/ peer' = Null /\ UNCHANGED <<table, addr>>
  /\ UNCHANGED <<rlog_en, level, mac, cancelled, logVars>>

Enable ==
  /\ Goto("enable", "idle") /\ rlog_en' = TRUE
  /\ UNCHANGED <<peerVars, level, mac, cancelled, logVars>>

Disable ==
  /\ Goto("disable", "idle") /\ rlog_en' = FALSE
  /\ UNCHANGED <<peerVars, level, mac, cancelled, logVars>>

SetLog == \* memcmp(mac, peer->addr, 6), with peer possibly NULL
  \/ pc = "log" /\ peer = Null /\ Restart
  \/ /\ Goto("log", "idle") /\ peer # Null
     /\ \E a \in Deref(peer) : IF a = mac THEN level' \in Levels
                                         ELSE UNCHANGED level
     /\ UNCHANGED <<peerVars, rlog_en, mac, cancelled, logVars>>

DebugTask == DelPeer \/ AddPeer \/ Enable \/ Disable \/ SetLog

\* target_print: read rlog_en, read peer into the frame, post or lose it.
LGoto(l, from, to) == lpc[l] = from /\ lpc' = [lpc EXCEPT ![l] = to]

TargetPrint(l) ==
  /\ rlog_en /\ LGoto(l, "idle", "build")
  /\ UNCHANGED <<peerVars, rlog_en, level, debugVars, lptr, queue, wptr>>

BuildSend(l) ==
  /\ LGoto(l, "build", "post") /\ lptr' = [lptr EXCEPT ![l] = peer]
  /\ UNCHANGED <<peerVars, rlog_en, level, debugVars, queue, wptr>>

\* Mutant of PostLog: the queue is taken to be unbounded.
PostLogUnbounded(l) ==
  /\ LGoto(l, "post", "idle") /\ queue' = Append(queue, lptr[l])
  /\ UNCHANGED <<peerVars, rlog_en, level, debugVars, lptr, wptr>>

PostLog(l) ==
  /\ LGoto(l, "post", "idle")
  /\ queue' = IF Len(queue) < MaxSend THEN Append(queue, lptr[l]) ELSE queue
  /\ lptr' = [lptr EXCEPT ![l] = Null]
  /\ UNCHANGED <<peerVars, rlog_en, level, debugVars, wptr>>

\* espnow_write_task; send->peer is followed in WriteLog.
WriteTask ==
  /\ queue # <<>> /\ wptr = "none"
  /\ wptr' = Head(queue) /\ queue' = Tail(queue)
  /\ UNCHANGED <<peerVars, rlog_en, level, debugVars, lpc, lptr>>

WriteLog ==
  /\ wptr # "none" /\ wptr' = "none"
  /\ UNCHANGED <<peerVars, rlog_en, level, debugVars, lpc, lptr, queue>>

Next ==
  \/ \E c \in Commands, m \in Macs : Receive(c, m)
  \/ DebugTask
  \/ \E l \in Loggers : TargetPrint(l) \/ BuildSend(l) \/ PostLog(l)
  \/ WriteTask \/ WriteLog \/ Restart

Spec == Init /\ [][Next]_vars
-----------------------------------------------------------------------------
Posting == {l \in Loggers : lpc[l] = "post"}
InFlight == {lptr[l] : l \in Posting} \cup Range(queue) \cup ({wptr} \ {"none"})

(* Until an unset_mac, every log frame on its way points at the peer object *)
(* of the controller now bound, which is allocated and known to the driver; *)
(* a log is broadcast (NULL) only if adding that controller failed.        *)
(* Loggers read rlog_en and peer without any lock.                         *)
LogsGoToController ==
  ~cancelled => \A p \in InFlight :
    /\ p = peer
    /\ p # Null => addr[p] # Null /\ addr[p] \in table

(* Whichever controllers compete, and whatever the driver refuses, remote  *)
(* control keeps its promises (module Binding): until a restart the device *)
(* stays bound to the controller whose peer was added, and only that one   *)
(* sets the log level.  A device is bound from the moment it logs to a     *)
(* peer.                                                                   *)
Controller == IF rlog_en /\ peer # Null THEN addr[peer] ELSE Null
Promise == INSTANCE Binding WITH controller <- Controller, asker <- mac
BindingSpec == Promise!Spec

(* No sequence of set_mac and unset_mac leaks a peer object or an entry of  *)
(* the driver's bounded peer table: the only object allocated is the one   *)
(* peer points at, and the only entry is its address.                      *)
OnePeer ==
  /\ \A o \in Objs : addr[o] # Null => o = peer
  /\ table = {addr[o] : o \in Objs} \ {Null}
=============================================================================
