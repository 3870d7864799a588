------------------------------ MODULE EspNowRecv ------------------------------
(***************************************************************************)
(* The receive path of std_espnow.c.  espnow_recv_cb, on the Wi-Fi task,   *)
(* filters a frame by its type byte, copies it to the heap and queues it.  *)
(* Readers call std_espnow_read: with ESPNOW_ALL a plain receive, with a   *)
(* type a peek, a look at the packet and, if the type is theirs, a receive *)
(* that is asserted to succeed.                                            *)
(***************************************************************************)
EXTENDS Naturals, Sequences, Functions

CONSTANTS Readers,     \* tasks that call std_espnow_read
          Wants,       \* Wants[r]: the types reader r asks for, or "all"
          Selectable,  \* arguments given to std_espnow_select_type
          Packets,     \* the heap blocks espnow_recv_t objects live in
          MaxRecv,     \* MAX_RECV_QUEEN
          NoPacket

\* espnow_data_type_t, without ESPNOW_RLOG, whose frames are printed.  A frame
\* can carry any of them, ESPNOW_ALL and ESPNOW_NONE too.
Types == {"all", "config", "debug", "normal", "none"}

ASSUME RecvAssumption ==
  /\ Wants \in [Readers -> SUBSET Types] /\ Selectable \subseteq Types
  /\ NoPacket \notin Packets /\ MaxRecv \in Nat \ {0}

VARIABLES
  queue,         \* g_espnow_rcv_queue
  heap, type,    \* each block: free or live, and its data.type field
  select,        \* g_select_type
  cb,            \* packet espnow_recv_cb has built and not queued yet
  pc, want, recv,\* each reader's place, type argument and local pointer
  purged,        \* history: queue seen empty since the type was selected
  robbed         \* history: readers another one received under, between
                 \* their peek and their receive

readerVars == <<pc, want, recv>>
history == <<purged, robbed>>
vars == <<queue, heap, type, select, cb, readerVars, history>>

TypeOK ==
  /\ queue \in Seq(Packets) /\ Len(queue) <= MaxRecv
  /\ heap \in [Packets -> {"free", "live"}] /\ type \in [Packets -> Types]
  /\ select \in Types /\ cb \in Packets \cup {NoPacket}
  /\ pc \in [Readers -> {"idle", "peek", "check", "take", "use", "stuck"}]
  /\ want \in [Readers -> Types]
  /\ recv \in [Readers -> Packets \cup {NoPacket}]
  /\ purged \in BOOLEAN /\ robbed \subseteq Readers

Init ==
  /\ queue = <<>> /\ heap = [p \in Packets |-> "free"]
  /\ type = [p \in Packets |-> "all"]
  /\ select = "none" /\ cb = NoPacket /\ purged = FALSE /\ robbed = {}
  /\ pc = [r \in Readers |-> "idle"] /\ want = [r \in Readers |-> "all"]
  /\ recv = [r \in Readers |-> NoPacket]

\* free_espnow_recv.  What the block held is no longer of use to anyone; who
\* looks all the same sees anything (Check).
Free(p) == /\ heap' = [heap EXCEPT ![p] = "free"]
           /\ type' = [type EXCEPT ![p] = "all"]

\* Mutant of RecvCb: the filter lets through what was ever selectable.
RecvCbUnfiltered(p, ty) ==
  /\ cb = NoPacket /\ heap[p] = "free" /\ ty \in Selectable \cup {"debug"}
  /\ heap' = [heap EXCEPT ![p] = "live"] /\ type' = [type EXCEPT ![p] = ty]
  /\ cb' = p
  /\ UNCHANGED <<queue, select, readerVars, history>>

\* espnow_recv_cb up to the xQueueSend; frames it prints (ESPNOW_RLOG) or does
\* not pass return early and change nothing.  The type byte is compared with
\* g_select_type whatever that is: while ESPNOW_NONE is selected, a frame that
\* carries that byte is queued.
RecvCb(p, ty) ==
  /\ cb = NoPacket /\ heap[p] = "free"
  /\ ty = "debug" \/ ty = select
  /\ heap' = [heap EXCEPT ![p] = "live"] /\ type' = [type EXCEPT ![p] = ty]
  /\ cb' = p
  /\ UNCHANGED <<queue, select, readerVars, history>>

\* Mutants of RecvCbQueue: one slot too many; a packet that does not fit is
\* forgotten; the oldest packet makes room for it.
RecvCbQueueOverfull ==
  /\ cb # NoPacket /\ cb' = NoPacket
  /\ IF Len(queue) <= MaxRecv
     THEN queue' = Append(queue, cb) /\ UNCHANGED <<heap, type>>
     ELSE Free(cb) /\ UNCHANGED queue
  /\ UNCHANGED <<select, readerVars, history>>

RecvCbQueueLeaks ==
  /\ cb # NoPacket /\ cb' = NoPacket
  /\ queue' = IF Len(queue) < MaxRecv THEN Append(queue, cb) ELSE queue
  /\ UNCHANGED <<heap, type, select, readerVars, history>>

RecvCbQueueDropsOldest ==
  /\ cb # NoPacket /\ cb' = NoPacket
  /\ IF Len(queue) < MaxRecv
     THEN queue' = Append(queue, cb) /\ UNCHANGED <<heap, type>>
     ELSE queue' = Append(Tail(queue), cb) /\ Free(Head(queue))
  /\ UNCHANGED <<select, readerVars, history>>

RecvCbQueue ==
  /\ cb # NoPacket /\ cb' = NoPacket
  /\ IF Len(queue) < MaxRecv
     THEN queue' = Append(queue, cb) /\ UNCHANGED <<heap, type>>
     ELSE Free(cb) /\ UNCHANGED queue
  /\ UNCHANGED <<select, readerVars, history>>

SelectType(ty) == \* std_espnow_select_type
  /\ ty \in Selectable /\ select' = ty
  /\ purged' = (purged /\ ty = select)
  /\ UNCHANGED <<queue, heap, type, cb, readerVars, robbed>>

Goto(r, from, to) == pc[r] = from /\ pc' = [pc EXCEPT ![r] = to]

StartRead(r) ==
  /\ Goto(r, "idle", "peek")
  /\ \E w \in Wants[r] : want' = [want EXCEPT ![r] = w]
  /\ UNCHANGED <<queue, heap, type, select, cb, recv, history>>

Return(r) == \* the locals of std_espnow_read are gone
  /\ want' = [want EXCEPT ![r] = "all"] /\ recv' = [recv EXCEPT ![r] = NoPacket]

\* The receive (all) or peek (typed) times out on an empty queue: NULL.
ReadTimeout(r) ==
  /\ queue = <<>> /\ Goto(r, "peek", "idle") /\ Return(r)
  /\ purged' = TRUE
  /\ UNCHANGED <<queue, heap, type, select, cb, robbed>>

Receive(r) ==
  /\ recv' = [recv EXCEPT ![r] = Head(queue)] /\ queue' = Tail(queue)
  /\ robbed' = robbed \cup {s \in Readers \ {r} : pc[s] \in {"check", "take"}}
  /\ UNCHANGED <<heap, type, select, cb, want, purged>>

ReceiveAll(r) ==
  /\ want[r] = "all" /\ queue # <<>> /\ Goto(r, "peek", "use") /\ Receive(r)

Peek(r) ==
  /\ want[r] # "all" /\ queue # <<>> /\ Goto(r, "peek", "check")
  /\ recv' = [recv EXCEPT ![r] = Head(queue)] /\ robbed' = robbed \ {r}
  /\ UNCHANGED <<queue, heap, type, select, cb, want, purged>>

\* Mutant of Check: a read that meets another type returns to its caller.
CheckReturns(r) ==
  /\ pc[r] = "check"
  /\ Goto(r, "check", IF type[recv[r]] = want[r] THEN "take" ELSE "idle")
  /\ UNCHANGED <<queue, heap, type, select, cb, want, recv, history>>

\* recv->data.type == type, else vTaskDelay and peek again.  A block that was
\* freed meanwhile holds anything.
Check(r) ==
  /\ pc[r] = "check"
  /\ \E ty \in IF heap[recv[r]] = "live" THEN {type[recv[r]]} ELSE Types :
       Goto(r, "check", IF ty = want[r] THEN "take" ELSE "peek")
  /\ UNCHANGED <<queue, heap, type, select, cb, want, recv, history>>

\* PORT_ASSERT(xQueueReceive(...) == pdTRUE): a failed assertion ends the task.
Take(r) ==
  \/ queue # <<>> /\ Goto(r, "take", "use") /\ Receive(r)
  \/ /\ queue = <<>> /\ Goto(r, "take", "stuck")
     /\ UNCHANGED <<queue, heap, type, select, cb, want, recv, history>>

FreeRecv(r) == \* the caller is done with the packet
  /\ Goto(r, "use", "idle") /\ Return(r) /\ Free(recv[r])
  /\ UNCHANGED <<queue, select, cb, history>>

Read(r) == \/ StartRead(r) \/ ReadTimeout(r) \/ ReceiveAll(r) \/ Peek(r)
           \/ Check(r) \/ Take(r) \/ FreeRecv(r)

Next == \/ \E p \in Packets, ty \in Types : RecvCb(p, ty)
        \/ RecvCbQueue
        \/ \E ty \in Selectable : SelectType(ty)
        \/ \E r \in Readers : Read(r)

Spec == Init /\ [][Next]_vars

\* A reader that can run does run, and so does the Wi-Fi task.
FairSpec == /\ Spec /\ WF_vars(RecvCbQueue)
            /\ \A r \in Readers : WF_vars(Read(r))
-----------------------------------------------------------------------------
Users == {r \in Readers : pc[r] = "use"}

(* No packet is leaked and none is owned twice: every allocated block is   *)
(* in exactly one of the callback's hands, the queue or one reader's.      *)
OwnedOnce ==
  /\ {p \in Packets : heap[p] = "live"} =
       Range(queue) \cup {recv[r] : r \in Users} \cup ({cb} \ {NoPacket})
  /\ IsInjective(queue) /\ cb \notin Range(queue)
  /\ \A r \in Users : recv[r] # cb /\ recv[r] \notin Range(queue)
  /\ \A r, s \in Users : recv[r] = recv[s] => r = s

(* A typed reader never looks at a freed packet, and what it receives is   *)
(* the packet it looked at, of the type it asked for.  The one thing that  *)
(* can break this is another task's receive between its peek and its own.  *)
PeekedIsTaken ==
  \A r \in Readers \ robbed :
    /\ pc[r] = "check" => heap[recv[r]] = "live"
    /\ pc[r] = "take" => queue # <<>> /\ Head(queue) = recv[r]
    /\ pc[r] = "use" /\ want[r] # "all" => type[recv[r]] = want[r]

(* After std_espnow_select_type and a read that found the queue empty, at  *)
(* most one packet of a type no longer selected can still show up: the one *)
(* whose callback had passed the filter before.                            *)
AtMostOneStale ==
  purged => \A p, q \in Range(queue) \cup ({cb} \ {NoPacket}) :
              {type[p], type[q]} \cap {"debug", select} = {} => p = q

(* Whatever the readers peek at, poll for or give up, they are served as   *)
(* RecvService promises: in order, each packet once, and a block of the    *)
(* heap is not used again while anyone has the packet in it.               *)
Held == [r \in Readers |-> IF pc[r] = "use" THEN recv[r] ELSE NoPacket]

Service == INSTANCE RecvService
             WITH arriving <- cb, line <- queue, held <- Held,
                  Capacity <- MaxRecv, None <- NoPacket
ServiceSpec == Service!Spec

Foreign(r) == /\ pc[r] \in {"peek", "check"} /\ want[r] # "all"
              /\ queue # <<>> /\ type[Head(queue)] # want[r]

(* Every queued packet is read and freed.  Two things can keep the readers *)
(* from it for ever: a head of a type a reader did not ask for, which      *)
(* std_espnow_read then polls whatever timeout it was given, and a reader  *)
(* that a failed assertion has ended.                                      *)
QueuedIsRead ==
  \A p \in Packets :
    p \in Range(queue) ~>
      heap[p] = "free" \/ [](\E r \in Readers : Foreign(r) \/ pc[r] = "stuck")
=============================================================================
