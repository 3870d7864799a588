-------------------------- MODULE TargetDeviceProofs --------------------------
(***************************************************************************)
(* Proofs about the controlled device: first about its built-in functions  *)
(* (module TargetControl), for any controllers, loggers, peer objects and  *)
(* queue length; then about the device as a whole, for any registrars,     *)
(* commands and size of the table, for which the first part holds because  *)
(* each of its steps is a step of TargetControl or a stutter.              *)
(***************************************************************************)
EXTENDS TargetDevice, QueueLemmas

USE TargetAssumption DEF Goto, LGoto, peerVars, debugVars, logVars, Ptrs

-----------------------------------------------------------------------------
(* The inductive invariant.                                                *)

\* What the debug task knows of the peer at each step of a command.
Placed ==
  /\ pc \in {"replace", "remove"} => peer # Null
  /\ pc = "add" => \A o \in Objs : addr[o] = Null
  /\ pc # "idle" => mac \in Macs

\* Until an unset_mac the device is bound once.  Before, no task logs to a
\* peer; from then on the peer is allocated.
BoundOnce ==
  ~cancelled =>
    /\ pc \notin {"replace", "remove", "disable"}
    /\ pc = "add" => ~rlog_en
    /\ rlog_en => peer = Null \/ addr[peer] # Null
    /\ ~rlog_en => /\ pc \in {"idle", "log"} => peer = Null
                   /\ pc = "enable" => peer = Null \/ addr[peer] = mac
                   /\ InFlight = {} /\ \A l \in Loggers : lpc[l] = "idle"

IInv == TypeOK /\ OnePeer /\ Placed /\ BoundOnce /\ LogsGoToController

\* An allocated peer object holds the address it was given.
LEMMA DerefFacts ==
  ASSUME TypeOK, OnePeer, NEW a \in Deref(peer), peer # Null
  PROVE  /\ peer \in Objs /\ a \in Macs
         /\ addr[peer] # Null => a = addr[peer] /\ a \in table /\ table = {a}
         /\ addr[peer] = Null => table = {}
BY DEF TypeOK, OnePeer, Deref

\* The frames on their way, as the steps of the queue change them.
LEMMA PostFacts ==
  ASSUME TypeOK, NEW p \in Ptrs
  PROVE  /\ Append(queue, p) \in Seq(Ptrs) /\ Len(queue) \in Nat
         /\ Len(Append(queue, p)) = Len(queue) + 1
         /\ Range(Append(queue, p)) = Range(queue) \cup {p}
BY AppendRange, LenProperties DEF TypeOK

LEMMA TakeFacts ==
  ASSUME TypeOK, queue # <<>>
  PROVE  /\ Tail(queue) \in Seq(Ptrs) /\ Len(queue) \in Nat
         /\ Len(Tail(queue)) = Len(queue) - 1
         /\ Head(queue) \in Ptrs
         /\ Range(queue) = Range(Tail(queue)) \cup {Head(queue)}
BY TailRange, LenProperties DEF TypeOK

LEMMA EmptyQueue == <<>> \in Seq(Ptrs) /\ Len(<<>>) = 0 /\ Range(<<>>) = {}
BY EmptySeq DEF Range

\* Initial states, and what a restart leaves.
LEMMA InitIInv == Init => IInv
<1> SUFFICES ASSUME Init PROVE IInv
  OBVIOUS
<1>1. TypeOK
  <2>1. queue \in Seq(Ptrs) /\ Len(queue) <= MaxSend
    BY EmptyQueue DEF Init
  <2>2. /\ addr \in [Objs -> Macs \cup {Null}] /\ lptr \in [Loggers -> Ptrs]
        /\ lpc \in [Loggers -> {"idle", "build", "post"}]
    BY DEF Init
  <2> QED BY <2>1, <2>2 DEF Init, TypeOK
<1>2. InFlight = {}
  BY EmptyQueue DEF Init, InFlight, Posting
<1> QED
  BY <1>1, <1>2 DEF Init, IInv, OnePeer, Placed, BoundOnce, LogsGoToController

LEMMA RestartIInv == Restart => IInv'
<1> SUFFICES ASSUME Restart PROVE IInv'
  OBVIOUS
<1>1. TypeOK'
  <2>1. queue' \in Seq(Ptrs) /\ Len(queue') <= MaxSend
    BY EmptyQueue DEF Restart
  <2>2. /\ addr' \in [Objs -> Macs \cup {Null}] /\ lptr' \in [Loggers -> Ptrs]
        /\ lpc' \in [Loggers -> {"idle", "build", "post"}]
    BY DEF Restart
  <2> QED BY <2>1, <2>2 DEF Restart, TypeOK
<1>2. InFlight' = {}
  BY EmptyQueue DEF Restart, InFlight, Posting
<1> QED
  BY <1>1, <1>2 DEF Restart, IInv, OnePeer, Placed, BoundOnce, LogsGoToController

\* A step of the debug task leaves the frames on their way alone.
LEMMA SameInFlight == UNCHANGED logVars => InFlight' = InFlight
BY DEF InFlight, Posting

-----------------------------------------------------------------------------
(* Every step of the debug task, of a logger and of the write task         *)
(* preserves it.                                                           *)
LEMMA ReceiveIInv ==
  ASSUME IInv, NEW c \in Commands, NEW m \in Macs, Receive(c, m)
  PROVE  IInv'
<1> USE DEF IInv, Receive
<1>1. InFlight' = InFlight
  BY SameInFlight
<1>2. c \in {"set_mac", "set_log", "unset_mac"}
  OBVIOUS
<1>3. /\ c = "set_log" => pc' = "log"
      /\ c = "set_mac" /\ rlog_en => pc' = "enable"
      /\ c = "set_mac" /\ ~rlog_en => pc' = IF peer # Null THEN "replace" ELSE "add"
      /\ c = "unset_mac" => pc' = IF peer # Null THEN "remove" ELSE "disable"
  BY <1>2 DEF FirstStep
<1>4. TypeOK'
  BY <1>2, <1>3 DEF TypeOK
<1>5. (OnePeer /\ Placed)'
  BY <1>2, <1>3 DEF TypeOK, OnePeer, Placed
<1>6. BoundOnce'
  BY <1>1, <1>2, <1>3 DEF TypeOK, BoundOnce
<1>7. LogsGoToController'
  BY <1>1 DEF LogsGoToController
<1> QED BY <1>4, <1>5, <1>6, <1>7

LEMMA DelPeerIInv == ASSUME IInv, DelPeer PROVE IInv'
<1> USE DEF IInv
<1>1. InFlight' = InFlight
  BY SameInFlight DEF DelPeer
<1>2. cancelled /\ cancelled' = cancelled
  BY DEF DelPeer, Deleted, BoundOnce
<1>3. peer # Null /\ peer' = peer /\ peer \in Objs
  BY DEF DelPeer, Deleted, Placed, TypeOK
<1>4. PICK a \in Deref(peer) :
        IF a \in table
        THEN table' = table \ {a} /\ addr' = [addr EXCEPT ![peer] = Null]
        ELSE UNCHANGED <<table, addr>>
  BY DEF DelPeer
<1>5. (\A o \in Objs : addr'[o] = Null) /\ table' = {}
  BY <1>3, <1>4, DerefFacts DEF TypeOK, OnePeer
<1>6. TypeOK'
  BY <1>3, <1>4, <1>5 DEF TypeOK, DelPeer, Deleted
<1>7. (OnePeer /\ Placed)'
  BY <1>3, <1>5 DEF OnePeer, Placed, DelPeer, Deleted
<1> QED BY <1>2, <1>6, <1>7 DEF BoundOnce, LogsGoToController

LEMMA AddPeerIInv == ASSUME IInv, AddPeer PROVE IInv'
<1> USE DEF IInv
<1>1. InFlight' = InFlight
  BY SameInFlight DEF AddPeer
<1>2. mac \in Macs /\ mac' = mac /\ table = {} /\ (\A o \in Objs : addr[o] = Null)
  BY DEF AddPeer, Placed, OnePeer
<1>3. CASE peer' = Null /\ UNCHANGED <<table, addr>>
  BY <1>1, <1>2, <1>3
     DEF AddPeer, TypeOK, OnePeer, Placed, BoundOnce, LogsGoToController
<1>4. CASE /\ table' = table \cup {mac}
           /\ \E o \in Objs : /\ addr[o] = Null /\ peer' = o
                              /\ addr' = [addr EXCEPT ![o] = mac]
  <2>1. PICK o \in Objs : peer' = o /\ addr' = [addr EXCEPT ![o] = mac]
    BY <1>4
  <2>2. addr'[o] = mac /\ \A q \in Objs \ {o} : addr'[q] = Null
    BY <1>2, <2>1 DEF TypeOK
  <2>3. TypeOK'
    BY <1>2, <1>4, <2>1 DEF AddPeer, TypeOK
  <2>4. (OnePeer /\ Placed)'
    BY <1>2, <1>4, <2>1, <2>2 DEF AddPeer, TypeOK, OnePeer, Placed
  <2>5. (BoundOnce /\ LogsGoToController)'
    BY <1>1, <1>2, <2>1, <2>2 DEF AddPeer, BoundOnce, LogsGoToController
  <2> QED BY <2>3, <2>4, <2>5
<1> QED BY <1>3, <1>4 DEF AddPeer

LEMMA SwitchIInv == ASSUME IInv, Enable \/ Disable PROVE IInv'
<1> USE DEF IInv
<1>1. InFlight' = InFlight
  BY SameInFlight DEF Enable, Disable
<1>2. CASE Enable
  BY <1>1, <1>2 DEF Enable, TypeOK, OnePeer, Placed, BoundOnce, LogsGoToController
<1>3. CASE Disable
  <2>1. cancelled /\ cancelled' = cancelled
    BY <1>3 DEF Disable, BoundOnce
  <2>2. ~(~cancelled')
    BY <2>1
  <2>3. (BoundOnce /\ LogsGoToController)'
    BY <2>2 DEF BoundOnce, LogsGoToController
  <2>4. (TypeOK /\ OnePeer /\ Placed)'
    <3>1. TypeOK'
      BY <1>3 DEF Disable, TypeOK
    <3>2. OnePeer'
      BY <1>3 DEF Disable, OnePeer
    <3>3. Placed'
      BY <1>3 DEF Disable, Placed
    <3> QED BY <3>1, <3>2, <3>3
  <2> QED BY <2>3, <2>4
<1> QED BY <1>2, <1>3

LEMMA SetLogIInv == ASSUME IInv, SetLog PROVE IInv'
<1> USE DEF IInv
<1>1. CASE Restart
  BY <1>1, RestartIInv
<1>2. CASE Goto("log", "idle") /\ UNCHANGED <<peerVars, rlog_en, mac, cancelled, logVars>>
  <2>1. InFlight' = InFlight
    BY <1>2, SameInFlight
  <2>2. level' \in Levels
    BY <1>2 DEF SetLog, TypeOK, Restart
  <2> QED BY <1>2, <2>1, <2>2
             DEF TypeOK, OnePeer, Placed, BoundOnce, LogsGoToController
<1> QED BY <1>1, <1>2 DEF SetLog

LEMMA LoggerIInv ==
  ASSUME IInv, NEW l \in Loggers, TargetPrint(l) \/ BuildSend(l) \/ PostLog(l)
  PROVE  IInv'
<1> USE DEF IInv
<1>1. CASE TargetPrint(l)
  <2>1. InFlight' = InFlight
    BY <1>1 DEF TargetPrint, InFlight, Posting, TypeOK
  <2> QED BY <1>1, <2>1
             DEF TargetPrint, TypeOK, OnePeer, Placed, BoundOnce, LogsGoToController
<1>2. CASE BuildSend(l)
  <2>1. InFlight' \subseteq InFlight \cup {peer}
    BY <1>2 DEF BuildSend, InFlight, Posting, TypeOK
  <2>2. ~cancelled => rlog_en
    BY <1>2 DEF BuildSend, BoundOnce
  <2>3. ~cancelled => peer = Null \/ (addr[peer] # Null /\ addr[peer] \in table)
    <3>1. \A o \in Objs : addr[o] # Null => addr[o] \in table
      BY DEF OnePeer
    <3>2. ~cancelled => peer = Null \/ addr[peer] # Null
      BY <2>2 DEF BoundOnce
    <3>3. peer \in Objs \cup {Null}
      BY DEF TypeOK
    <3> QED BY <3>1, <3>2, <3>3
  <2> QED BY <1>2, <2>1, <2>2, <2>3
             DEF BuildSend, TypeOK, OnePeer, Placed, BoundOnce, LogsGoToController
<1>3. CASE PostLog(l)
  <2>1. lptr[l] \in InFlight /\ lptr[l] \in Ptrs
    BY <1>3 DEF PostLog, InFlight, Posting, TypeOK
  <2>2. Range(queue') \subseteq Range(queue) \cup {lptr[l]}
    BY <1>3, <2>1, PostFacts DEF PostLog
  <2>3. InFlight' \subseteq InFlight
    BY <1>3, <2>1, <2>2 DEF PostLog, InFlight, Posting, TypeOK
  <2>4. queue' \in Seq(Ptrs) /\ Len(queue') <= MaxSend
    BY <1>3, <2>1, PostFacts DEF PostLog, TypeOK
  <2>5. ~cancelled => rlog_en
    BY <1>3 DEF PostLog, BoundOnce
  <2> QED BY <1>3, <2>3, <2>4, <2>5
             DEF PostLog, TypeOK, OnePeer, Placed, BoundOnce, LogsGoToController
<1> QED BY <1>1, <1>2, <1>3

LEMMA WriterIInv == ASSUME IInv, WriteTask \/ WriteLog PROVE IInv'
<1> USE DEF IInv
<1>1. CASE WriteTask
  <2>1. queue' \in Seq(Ptrs) /\ Len(queue') <= MaxSend /\ wptr' \in Ptrs
    BY <1>1, TakeFacts DEF WriteTask, TypeOK
  <2>2. Range(queue') \cup {wptr'} = Range(queue)
    BY <1>1, TakeFacts DEF WriteTask
  <2>3. InFlight' \subseteq InFlight
    BY <1>1, <2>2 DEF WriteTask, InFlight, Posting
  <2> QED BY <1>1, <2>1, <2>3
             DEF WriteTask, TypeOK, OnePeer, Placed, BoundOnce, LogsGoToController
<1>2. CASE WriteLog
  <2>1. InFlight' \subseteq InFlight
    BY <1>2 DEF WriteLog, InFlight, Posting
  <2> QED BY <1>2, <2>1
             DEF WriteLog, TypeOK, OnePeer, Placed, BoundOnce, LogsGoToController
<1> QED BY <1>1, <1>2

LEMMA StepIInv == ASSUME IInv, [Next]_vars PROVE IInv'
<1>1. CASE Next
  BY <1>1, ReceiveIInv, DelPeerIInv, AddPeerIInv, SwitchIInv, SetLogIInv, LoggerIInv,
     WriterIInv, RestartIInv DEF Next, DebugTask
<1>2. CASE UNCHANGED vars
  BY <1>2 DEF vars, IInv, TypeOK, OnePeer, Placed, BoundOnce, LogsGoToController,
     InFlight, Posting
<1> QED BY <1>1, <1>2

LEMMA Invariance == Spec => []IInv
BY InitIInv, StepIInv, PTL DEF Spec

-----------------------------------------------------------------------------
(* Every variable keeps to its type; the queue of log frames stays within   *)
(* MAX_SEND_QUEEN (std_espnow.c).                                          *)
THEOREM TargetTypeOK == Spec => []TypeOK
<1>1. IInv => TypeOK
  BY DEF IInv
<1> QED BY <1>1, Invariance, PTL

(* Neither peer objects nor entries of the driver's table are leaked by any *)
(* sequence of set_mac and unset_mac (rdebug_set_mac, rdebug_unset_mac).   *)
THEOREM NoPeerLeaks == Spec => []OnePeer
<1>1. IInv => OnePeer
  BY DEF IInv
<1> QED BY <1>1, Invariance, PTL

(* Although target_print takes no lock, every log frame on its way points  *)
(* at the peer of the controller bound, until an unset_mac.                *)
THEOREM LogsReachController == Spec => []LogsGoToController
<1>1. IInv => LogsGoToController
  BY DEF IInv
<1> QED BY <1>1, Invariance, PTL

-----------------------------------------------------------------------------
(* The device implements Binding.                                          *)
LEMMA InitBinds == Init => Promise!Init
BY DEF Init, Promise!Init, Controller

LEMMA StepBinds == ASSUME IInv, [Next]_vars PROVE [Promise!Next]_(Promise!vars)
<1> USE DEF IInv
<1>1. ASSUME NEW c \in Commands, NEW m \in Macs, Receive(c, m) PROVE Promise!Ask
  BY <1>1 DEF Receive, Promise!Ask, Controller, TypeOK
<1>2. CASE Restart
  BY <1>2 DEF Restart, Promise!Next, Promise!Restart, Controller
<1>3. CASE cancelled /\ cancelled' = cancelled
  BY <1>3 DEF Promise!Next, Promise!Unbound
<1>4. ASSUME ~cancelled, DelPeer \/ AddPeer \/ Disable PROVE UNCHANGED Promise!vars
  BY <1>4 DEF BoundOnce, DelPeer, Deleted, AddPeer, Disable, Promise!vars, Controller
<1>5. ASSUME ~cancelled, Enable PROVE Promise!Bind \/ UNCHANGED Promise!vars
  <2>1. CASE rlog_en \/ peer = Null
    BY <1>5, <2>1 DEF Enable, Promise!vars, Controller, TypeOK
  <2>2. CASE ~rlog_en /\ peer # Null
    BY <1>5, <2>2 DEF Enable, BoundOnce, Promise!Bind, Controller
  <2> QED BY <2>1, <2>2
<1>6. ASSUME ~cancelled, SetLog, ~Restart
      PROVE  Promise!SetLevel \/ UNCHANGED Promise!vars
  <2>1. pc = "log" /\ peer # Null /\ UNCHANGED <<peerVars, rlog_en, mac, cancelled>>
    BY <1>6 DEF SetLog
  <2>2. rlog_en /\ addr[peer] # Null
    BY <1>6, <2>1 DEF BoundOnce
  <2>3. Controller = addr[peer] /\ Controller' = Controller
    BY <2>1, <2>2 DEF Controller
  <2>4. CASE addr[peer] = mac
    BY <1>6, <2>1, <2>2, <2>3, <2>4 DEF SetLog, Deref, Promise!SetLevel
  <2>5. CASE addr[peer] # mac
    BY <1>6, <2>1, <2>2, <2>3, <2>5 DEF SetLog, Deref, Promise!vars
  <2> QED BY <2>4, <2>5
<1>7. ASSUME NEW l \in Loggers, TargetPrint(l) \/ BuildSend(l) \/ PostLog(l)
      PROVE  UNCHANGED Promise!vars
  BY <1>7 DEF TargetPrint, BuildSend, PostLog, Promise!vars, Controller
<1>8. CASE WriteTask \/ WriteLog
  BY <1>8 DEF WriteTask, WriteLog, Promise!vars, Controller
<1>9. CASE UNCHANGED vars
  BY <1>9 DEF vars, Promise!vars, Controller
<1>10. ASSUME DebugTask, ~Restart PROVE cancelled' = cancelled
  BY <1>10 DEF DebugTask, DelPeer, AddPeer, Enable, Disable, SetLog
<1> QED
  BY <1>1, <1>2, <1>3, <1>4, <1>5, <1>6, <1>7, <1>8, <1>9, <1>10
     DEF Next, DebugTask, Promise!Next, TypeOK

(* Whoever competes for the device, and whatever the driver refuses, the   *)
(* debug task of std_rdebug_protocol.c implements Binding: until an        *)
(* unset_mac or a restart the first controller keeps it and alone sets the *)
(* log level.                                                              *)
THEOREM TargetKeepsPromise == Spec => BindingSpec
BY InitBinds, StepBinds, Invariance, PTL DEF Spec, BindingSpec, Promise!Spec

-----------------------------------------------------------------------------
(* The device as a whole.                                                  *)
USE DeviceAssumption
    DEF tableVars, deviceVars, Table!Registered, Table!Entries, Table!RGoto,
        Table!registerVars, Table!walkVars

-----------------------------------------------------------------------------
(* The inductive invariant.                                                *)

\* A frame that is handled has a sender.
Sent == walk = "walk" => sender \in Macs

\* The entries a registrar has passed are filled.
Passed ==
  \A r \in Registrars :
    rpc[r] # "idle" => /\ func[r] \in Table!Registered
                       /\ \A i \in Table!Entries : i < rn[r] => functions[i] # Null

\* What was registered and not overwritten is in the table, and ahead of a
\* walk that looks for it.
Present ==
  /\ \A c \in registered \ overwritten : \E i \in Table!Entries : functions[i] = c
  /\ known \subseteq registered
  /\ walk # "idle" /\ name \in known \ overwritten =>
       \E i \in Table!Entries : i >= n /\ functions[i] = name

DInv ==
  Table!TypeOK /\ Sent /\ Passed /\ NoHoles /\ Present /\ RegisteredIsFound

USE DEF NoHoles, RegisteredIsFound

LEMMA DeviceInitInv == DeviceInit => DInv
BY DEF DeviceInit, Table!Init, DInv, Table!TypeOK, Sent, Passed, Present,
   Table!NoHoles, Table!RegisteredIsFound

LEMMA DeviceRestartInv == Table!Restart => DInv'
BY DEF Table!Restart, DInv, Table!TypeOK, Sent, Passed, Present,
   Table!NoHoles, Table!RegisteredIsFound

LEMMA RegistrationInv == ASSUME DInv, Registration PROVE DInv'
<1> USE DEF DInv
<1>1. PICK r \in Registrars :
        \/ Table!TestEntry(r) \/ Table!StoreEntry(r)
        \/ \E c \in Mine[r] : Table!Register(r, c)
  BY DEF Registration
<1>2. UNCHANGED <<walk, n, name, known, sender>>
  BY <1>1 DEF Registration, Table!TestEntry, Table!StoreEntry, Table!Register
<1>3. ASSUME NEW c \in Mine[r], Table!Register(r, c) PROVE DInv'
  <2>1. c \in Table!Registered
    OBVIOUS
  <2>2. Table!TypeOK'
    BY <1>2, <1>3, <2>1 DEF Table!TypeOK, Table!Register
  <2> QED BY <1>2, <1>3, <2>1, <2>2
             DEF Table!Register, Table!TypeOK, Sent, Passed, Present,
                 Table!NoHoles, Table!RegisteredIsFound
<1>4. CASE Table!TestEntry(r)
  <2> DEFINE e == rn[r]
  <2>0. /\ e \in Nat /\ e < MaxCount /\ rpc[r] = "test"
        /\ UNCHANGED <<functions, func, registered, overwritten>>
        /\ \E p \in {"test", "store", "stuck"} : rpc' = [rpc EXCEPT ![r] = p]
        /\ \/ rn' = rn
           \/ rn' = [rn EXCEPT ![r] = e + 1] /\ functions[e] # Null /\ e + 1 < MaxCount
    BY <1>4 DEF Table!TestEntry, Table!TypeOK
  <2>1. Table!TypeOK'
    <3>1. rn' \in [Registrars -> Table!Entries]
      <4>1. CASE rn' = rn
        BY <4>1 DEF Table!TypeOK
      <4>2. CASE rn' = [rn EXCEPT ![r] = e + 1] /\ e + 1 < MaxCount
        <5>1. e + 1 \in Table!Entries
          BY <2>0, <4>2
        <5> QED BY <4>2, <5>1 DEF Table!TypeOK
      <4> QED BY <2>0, <4>1, <4>2
    <3>2. rpc' \in [Registrars -> {"idle", "test", "store", "stuck"}]
      BY <2>0 DEF Table!TypeOK
    <3> QED BY <1>2, <2>0, <3>1, <3>2 DEF Table!TypeOK
  <2>2. Passed'
    <3>1. \A i \in Table!Entries : i < e + 1 => i < e \/ i = e
      BY <2>0
    <3>2. \A i \in Table!Entries : i < rn'[r] => functions[i] # Null
      BY <2>0, <3>1 DEF Table!TypeOK, Passed
    <3>3. \A q \in Registrars \ {r} : rn'[q] = rn[q] /\ rpc'[q] = rpc[q]
      BY <2>0 DEF Table!TypeOK
    <3> QED BY <2>0, <3>2, <3>3 DEF Passed
  <2> QED BY <1>2, <1>4, <2>1, <2>2
             DEF Table!TestEntry, Table!TypeOK, Sent, Present,
                 Table!NoHoles, Table!RegisteredIsFound
<1>5. CASE Table!StoreEntry(r)
  <2> DEFINE e == rn[r]
  <2>1. /\ e \in Table!Entries /\ func[r] \in Table!Registered /\ func[r] # Null
        /\ functions' = [functions EXCEPT ![e] = func[r]]
        /\ overwritten' = overwritten \cup ({functions[e]} \ {Null})
        /\ registered' = registered \cup {func[r]}
        /\ \A i \in Table!Entries : i < e => functions[i] # Null
    BY <1>5 DEF Table!StoreEntry, Table!TypeOK, Passed
  <2>2. Table!TypeOK'
    <3>1. functions' \in [Table!Entries -> Table!Registered \cup {Null}]
      BY <2>1 DEF Table!TypeOK
    <3>2. rpc' \in [Registrars -> {"idle", "test", "store", "stuck"}]
      BY <1>5 DEF Table!TypeOK, Table!StoreEntry
    <3>3. rn' \in [Registrars -> Table!Entries]
      BY <1>5 DEF Table!TypeOK, Table!StoreEntry
    <3>4. func' \in [Registrars -> Table!Registered \cup {Null}]
      BY <1>5 DEF Table!TypeOK, Table!StoreEntry
    <3>5. overwritten' \subseteq Table!Registered
      BY <2>1 DEF Table!TypeOK
    <3> QED BY <1>2, <2>1, <3>1, <3>2, <3>3, <3>4, <3>5 DEF Table!TypeOK
  <2>3. \A i \in Table!Entries : functions'[i] = IF i = e THEN func[r] ELSE functions[i]
    BY <2>1 DEF Table!TypeOK
  <2>4. Passed'
    BY <1>5, <2>1, <2>3 DEF Table!StoreEntry, Table!TypeOK, Passed
  <2>5. NoHoles'
    BY <1>2, <2>1, <2>3 DEF Table!TypeOK, Table!NoHoles
  <2>6. Present'
    <3>1. ASSUME NEW c \in registered' \ overwritten'
          PROVE  \E i \in Table!Entries : functions'[i] = c
      <4>1. CASE c = func[r]
        BY <2>1, <2>3, <4>1
      <4>2. CASE c # func[r]
        <5>1. c \in registered \ overwritten /\ c # functions[e]
          BY <2>1, <3>1, <4>2 DEF Table!TypeOK
        <5>2. PICK i \in Table!Entries : functions[i] = c
          BY <5>1 DEF Present
        <5> QED BY <2>3, <5>1, <5>2
      <4> QED BY <4>1, <4>2
    <3>2. ASSUME walk # "idle", name \in known \ overwritten'
          PROVE  \E i \in Table!Entries : i >= n /\ functions'[i] = name
      <4>1. name \in known \ overwritten /\ name # functions[e]
        BY <2>1, <3>2 DEF Table!TypeOK
      <4>2. PICK i \in Table!Entries : i >= n /\ functions[i] = name
        BY <3>2, <4>1 DEF Present
      <4> QED BY <2>3, <4>1, <4>2
    <3> QED BY <1>2, <2>1, <3>1, <3>2 DEF Present
  <2>7. (Sent /\ RegisteredIsFound)'
    BY <1>2, <2>1 DEF Sent, Table!RegisteredIsFound
  <2> QED BY <2>2, <2>4, <2>5, <2>6, <2>7
<1> QED BY <1>1, <1>3, <1>4, <1>5

LEMMA FrameInv ==
  ASSUME DInv, NEW c \in Names, NEW m \in Macs, FrameArrives(c, m)
  PROVE  DInv'
<1> USE DEF DInv, FrameArrives, Table!Receive
<1>1. Table!TypeOK' /\ Sent' /\ Passed' /\ NoHoles' /\ RegisteredIsFound'
  BY DEF Table!TypeOK, Sent, Passed, Table!NoHoles, Table!RegisteredIsFound
<1>2. ASSUME c \in registered \ overwritten
      PROVE  \E i \in Table!Entries : i >= 0 /\ functions[i] = c
  BY <1>2 DEF Present
<1>3. Present'
  BY <1>2 DEF Present
<1> QED BY <1>1, <1>3

LEMMA MalformedInv == ASSUME DInv, MalformedArrives PROVE DInv'
BY DEF DInv, MalformedArrives, Table!Malformed, Table!TypeOK, Sent, Passed, Present,
   Table!NoHoles, Table!RegisteredIsFound

LEMMA DispatchInv == ASSUME DInv, Dispatch PROVE DInv'
BY DEF DInv, Dispatch, Table!Match, Table!TypeOK, Sent, Passed, Present,
   Table!NoHoles, Table!RegisteredIsFound

LEMMA WalkInv == ASSUME DInv, Walk PROVE DInv'
<1> USE DEF DInv
<1>1. CASE Table!NextEntry
  <2>1. n \in Nat /\ n' = n + 1 /\ n \in Table!Entries /\ functions[n] \notin {name, Null}
    BY <1>1 DEF Table!NextEntry, Table!TypeOK
  <2>2. \A i \in Table!Entries : i < n' => i < n \/ i = n
    BY <2>1
  <2>3. \A i \in Table!Entries : i >= n /\ functions[i] = name => i >= n'
    BY <2>1
  <2>4. Table!TypeOK' /\ Sent' /\ Passed' /\ RegisteredIsFound'
    BY <1>1, <2>1 DEF Walk, Table!NextEntry, Table!TypeOK, Sent, Passed,
       Table!RegisteredIsFound
  <2>5. NoHoles'
    BY <1>1, <2>1, <2>2 DEF Table!NextEntry, Table!NoHoles
  <2>6. Present'
    BY <1>1, <2>1, <2>3 DEF Table!NextEntry, Present
  <2> QED BY <2>4, <2>5, <2>6
<1>2. CASE Table!NullEntry
  <2>1. n \in Table!Entries /\ functions[n] = Null
    BY <1>2 DEF Table!NullEntry, Table!TypeOK
  <2>2. name \notin known \ overwritten
    <3> SUFFICES ASSUME name \in known \ overwritten PROVE FALSE
      OBVIOUS
    <3>1. PICK i \in Table!Entries : i >= n /\ functions[i] = name
      BY <1>2 DEF Table!NullEntry, Present
    <3>2. name # Null
      BY DEF Table!TypeOK
    <3>3. i > n
      BY <2>1, <3>1, <3>2
    <3> QED BY <2>1, <3>1, <3>2, <3>3 DEF Table!NoHoles
  <2> QED BY <1>2, <2>1, <2>2
             DEF Walk, Table!NullEntry, Table!TypeOK, Sent, Passed, Present,
                 Table!NoHoles, Table!RegisteredIsFound
<1>3. CASE Table!PastEnd
  <2>1. name \notin known \ overwritten
    BY <1>3 DEF Table!PastEnd, Present, Table!TypeOK
  <2> QED BY <1>3, <2>1
             DEF Walk, Table!PastEnd, Table!TypeOK, Sent, Passed, Present,
                 Table!NoHoles, Table!RegisteredIsFound
<1> QED BY <1>1, <1>2, <1>3 DEF Walk

LEMMA RestInv ==
  ASSUME DInv, Obey \/ Logging \/ RestartAll \/ UNCHANGED deviceVars
  PROVE  DInv'
<1>1. CASE UNCHANGED <<tableVars, sender>>
  BY <1>1 DEF DInv, Table!TypeOK, Sent, Passed, Present, Table!NoHoles,
     Table!RegisteredIsFound
<1>2. CASE Table!Restart
  BY <1>2, DeviceRestartInv
<1> QED BY <1>1, <1>2 DEF Obey, Logging, RestartAll

LEMMA DeviceInvariance == DeviceSpec => []DInv
<1>1. DInv /\ [DeviceNext]_deviceVars => DInv'
  BY RegistrationInv, FrameInv, MalformedInv, DispatchInv, WalkInv, RestInv DEF DeviceNext
<1> QED BY <1>1, DeviceInitInv, PTL DEF DeviceSpec

-----------------------------------------------------------------------------
(* While tasks register their functions without a lock, the table has no   *)
(* hole that a walk would dereference (register_target_func, cmd_handle).  *)
THEOREM TableHasNoHoles == DeviceSpec => []NoHoles
<1>1. DInv => NoHoles
  BY DEF DInv
<1> QED BY <1>1, DeviceInvariance, PTL

(* A command registered when its frame is taken, and not overwritten by a  *)
(* registration that ran at the same time, is always dispatched.           *)
THEOREM RegisteredCommandsRun == DeviceSpec => []RegisteredIsFound
<1>1. DInv => RegisteredIsFound
  BY DEF DInv
<1> QED BY <1>1, DeviceInvariance, PTL

-----------------------------------------------------------------------------
(* The device does what its built-in functions may do.                     *)
LEMMA DeviceStep == ASSUME DInv, [DeviceNext]_deviceVars PROVE [Next]_vars
<1>1. ASSUME NEW c \in Names, NEW m \in Macs, FrameArrives(c, m) PROVE UNCHANGED vars
  BY <1>1 DEF FrameArrives
<1>2. CASE Dispatch
  <2>1. sender \in Macs
    BY <1>2 DEF DInv, Sent, Dispatch, Table!Match
  <2> QED BY <1>2, <2>1 DEF Dispatch, Next
<1>3. CASE MalformedArrives \/ Walk \/ Registration
  BY <1>3 DEF MalformedArrives, Walk, Registration
<1>4. CASE Obey \/ Logging \/ RestartAll
  BY <1>4 DEF Obey, Logging, RestartAll, Next
<1>5. CASE UNCHANGED deviceVars
  BY <1>5
<1> QED BY <1>1, <1>2, <1>3, <1>4, <1>5 DEF DeviceNext

(* The composition of the table and the built-in functions implements      *)
(* TargetControl: nothing that cmd_handle or a registration does disturbs  *)
(* the functions it runs.                                                  *)
THEOREM DeviceImplements == DeviceSpec => Spec
<1>1. DeviceInit => Init
  BY DEF DeviceInit
<1> QED BY <1>1, DeviceStep, DeviceInvariance, PTL DEF DeviceSpec, Spec

SenderOK == sender \in Macs \cup {Null}

(* Every variable of the device keeps to its type.                         *)
THEOREM DeviceTypes == DeviceSpec => []DeviceTypeOK
<1>1. DeviceInit => SenderOK
  BY DEF DeviceInit, SenderOK
<1>2. SenderOK /\ [DeviceNext]_deviceVars => SenderOK'
  BY DEF SenderOK, DeviceNext, FrameArrives, MalformedArrives, Dispatch, Walk,
     Registration, Obey, Logging, RestartAll
<1>3. DeviceSpec => []SenderOK
  BY <1>1, <1>2, PTL DEF DeviceSpec
<1>4. DInv => Table!TypeOK
  BY DEF DInv
<1>5. TypeOK /\ Table!TypeOK /\ SenderOK => DeviceTypeOK
  BY DEF DeviceTypeOK, SenderOK
<1> QED BY <1>3, <1>4, <1>5, DeviceImplements, TargetTypeOK, DeviceInvariance, PTL

(* So the theorems about TargetControl hold of the device: no sequence of  *)
(* commands leaks a peer, ...                                              *)
THEOREM DeviceLeaksNoPeer == DeviceSpec => []OnePeer
BY DeviceImplements, NoPeerLeaks, PTL

(* ... every log frame goes to the controller bound, ...                   *)
THEOREM DeviceLogsReachController == DeviceSpec => []LogsGoToController
BY DeviceImplements, LogsReachController, PTL

(* ... and the first controller keeps the device.                          *)
THEOREM DeviceKeepsPromise == DeviceSpec => BindingSpec
BY DeviceImplements, TargetKeepsPromise, PTL
=============================================================================
