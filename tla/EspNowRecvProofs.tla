--------------------------- MODULE EspNowRecvProofs ---------------------------
(***************************************************************************)
(* Proofs about the receive path, for any readers, packets and capacity.   *)
(***************************************************************************)
EXTENDS EspNowRecv, QueueLemmas

USE RecvAssumption DEF Goto, Free, readerVars, history, Types

-----------------------------------------------------------------------------
(* The part of the inductive invariant that holds whoever reads.           *)

\* The callback's packet and a reader's are allocated blocks.
Holding ==
  \A r \in Readers : pc[r] \in {"check", "take", "use"} => recv[r] \in Packets

IInv == TypeOK /\ Holding /\ OwnedOnce /\ AtMostOneStale

\* Sending a packet to the back and receiving one from the front.
LEMMA SendFacts ==
  ASSUME TypeOK, OwnedOnce, cb # NoPacket
  PROVE  /\ Append(queue, cb) \in Seq(Packets) /\ Len(queue) \in Nat
         /\ Len(Append(queue, cb)) = Len(queue) + 1
         /\ Range(Append(queue, cb)) = Range(queue) \cup {cb}
         /\ IsInjective(Append(queue, cb))
         /\ queue # <<>> => Head(Append(queue, cb)) = Head(queue)
BY AppendRange, AppendHead, LenProperties DEF TypeOK, OwnedOnce

LEMMA ReceiveFacts ==
  ASSUME TypeOK, OwnedOnce, queue # <<>>
  PROVE  /\ Tail(queue) \in Seq(Packets) /\ Len(queue) \in Nat
         /\ Len(Tail(queue)) = Len(queue) - 1
         /\ Head(queue) \in Packets /\ Head(queue) \in Range(queue)
         /\ Range(queue) = Range(Tail(queue)) \cup {Head(queue)}
         /\ IsInjective(Tail(queue)) /\ Head(queue) \notin Range(Tail(queue))
BY TailRange, LenProperties DEF TypeOK, OwnedOnce

LEMMA InitIInv == Init => IInv
<1> SUFFICES ASSUME Init PROVE IInv
  OBVIOUS
<1>1. queue \in Seq(Packets) /\ Len(queue) = 0  BY EmptySeq DEF Init
<1>2. TypeOK
  <2>1. queue \in Seq(Packets) /\ Len(queue) <= MaxRecv  BY <1>1
  <2>2. type \in [Packets -> Types] /\ heap \in [Packets -> {"free", "live"}]
    BY DEF Init
  <2> QED BY <2>1, <2>2 DEF Init, TypeOK
<1> QED BY <1>2, EmptyRange
        DEF Init, IInv, Holding, OwnedOnce, AtMostOneStale, Users

(* Every step of the callback, of a reader and of the application          *)
(* preserves it.                                                           *)
LEMMA StepIInv == ASSUME IInv, [Next]_vars PROVE IInv'
<1> USE DEF IInv, Users
<1>1. ASSUME NEW p \in Packets, NEW ty \in Types, RecvCb(p, ty) PROVE IInv'
  <2>1. (TypeOK /\ Holding)'
    BY <1>1 DEF RecvCb, TypeOK, Holding
  <2>2. OwnedOnce'
    BY <1>1 DEF RecvCb, TypeOK, Holding, OwnedOnce
  <2>3. AtMostOneStale'
    <3>1. /\ \A q \in Range(queue) : q \in Packets /\ q # p /\ type'[q] = type[q]
          /\ cb = NoPacket /\ cb' = p /\ type'[p] \in {"debug", select}
      BY <1>1 DEF RecvCb, TypeOK, OwnedOnce
    <3>2. UNCHANGED <<queue, select, purged>>
      BY <1>1 DEF RecvCb
    <3> SUFFICES ASSUME purged',
                        NEW x \in Range(queue') \cup ({cb'} \ {NoPacket}),
                        NEW y \in Range(queue') \cup ({cb'} \ {NoPacket}),
                        {type'[x], type'[y]} \cap {"debug", select'} = {}
                 PROVE  x = y
      BY DEF AtMostOneStale
    <3>3. x # p /\ y # p
      BY <3>1, <3>2
    <3>4. x \in Range(queue) /\ y \in Range(queue)
      BY <3>1, <3>2, <3>3
    <3>5. {type[x], type[y]} \cap {"debug", select} = {}
      BY <3>1, <3>2, <3>4
    <3> QED BY <3>2, <3>4, <3>5 DEF AtMostOneStale
  <2> QED BY <2>1, <2>2, <2>3
<1>2. ASSUME RecvCbQueue PROVE IInv'
  <2>1. CASE Len(queue) < MaxRecv
    <3>0. /\ cb \in Packets /\ cb' = NoPacket /\ queue' = Append(queue, cb)
          /\ heap' = heap /\ type' = type /\ select' = select /\ pc' = pc /\ want' = want
          /\ recv' = recv /\ purged' = purged /\ robbed' = robbed
      BY <1>2, <2>1 DEF RecvCbQueue, TypeOK
    <3>4. cb # NoPacket  BY <1>2 DEF RecvCbQueue
    <3>5. Len(queue') <= MaxRecv  BY <2>1, <3>0, <3>4, SendFacts DEF TypeOK
    <3>1. (TypeOK /\ Holding)'
      BY <3>0, <3>4, <3>5, SendFacts DEF TypeOK, Holding
    <3>2. OwnedOnce'
      BY <3>0, <3>4, <3>5, SendFacts DEF TypeOK, Holding, OwnedOnce
    <3>3. AtMostOneStale'
      BY <3>0, <3>4, <3>5, SendFacts DEF TypeOK, Holding, OwnedOnce, AtMostOneStale
    <3> QED BY <3>1, <3>2, <3>3
  <2>2. CASE ~(Len(queue) < MaxRecv)
    <3>0. /\ cb \in Packets /\ cb' = NoPacket /\ queue' = queue
          /\ heap' = [heap EXCEPT ![cb] = "free"] /\ type' = [type EXCEPT ![cb] = "all"]
          /\ select' = select /\ pc' = pc /\ want' = want
          /\ recv' = recv /\ purged' = purged /\ robbed' = robbed
      BY <1>2, <2>2 DEF RecvCbQueue, TypeOK
    <3>1. (TypeOK /\ Holding)'
      BY <3>0 DEF TypeOK, Holding
    <3>2. OwnedOnce'
      BY <3>0 DEF TypeOK, Holding, OwnedOnce
    <3>3. AtMostOneStale'
      BY <3>0 DEF TypeOK, Holding, OwnedOnce, AtMostOneStale
    <3> QED BY <3>1, <3>2, <3>3
  <2> QED BY <2>1, <2>2
<1>3. ASSUME NEW ty \in Selectable, SelectType(ty) PROVE IInv'
  <2>1. (TypeOK /\ Holding)'
    BY <1>3 DEF SelectType, TypeOK, Holding
  <2>2. OwnedOnce'
    BY <1>3 DEF SelectType, TypeOK, Holding, OwnedOnce
  <2>3. AtMostOneStale'
    BY <1>3 DEF SelectType, TypeOK, Holding, OwnedOnce, AtMostOneStale
  <2> QED BY <2>1, <2>2, <2>3
<1>4. ASSUME NEW r \in Readers, StartRead(r) PROVE IInv'
  <2>1. (TypeOK /\ Holding)'
    BY <1>4 DEF StartRead, TypeOK, Holding
  <2>2. OwnedOnce'
    BY <1>4 DEF StartRead, TypeOK, Holding, OwnedOnce
  <2>3. AtMostOneStale'
    BY <1>4 DEF StartRead, TypeOK, Holding, OwnedOnce, AtMostOneStale
  <2> QED BY <2>1, <2>2, <2>3
<1>5. ASSUME NEW r \in Readers, ReadTimeout(r) PROVE IInv'
  <2>1. (TypeOK /\ Holding)'
    BY <1>5, EmptyRange DEF ReadTimeout, Return, TypeOK, Holding
  <2>2. OwnedOnce'
    BY <1>5, EmptyRange DEF ReadTimeout, Return, TypeOK, Holding, OwnedOnce
  <2>3. AtMostOneStale'
    BY <1>5, EmptyRange DEF ReadTimeout, Return, TypeOK, Holding, OwnedOnce, AtMostOneStale
  <2> QED BY <2>1, <2>2, <2>3
<1>6. ASSUME NEW r \in Readers, ReceiveAll(r) PROVE IInv'
  <2>1. (TypeOK /\ Holding)'
    BY <1>6, ReceiveFacts DEF ReceiveAll, Receive, TypeOK, Holding
  <2>2. OwnedOnce'
    BY <1>6, ReceiveFacts DEF ReceiveAll, Receive, TypeOK, Holding, OwnedOnce
  <2>3. AtMostOneStale'
    BY <1>6, ReceiveFacts DEF ReceiveAll, Receive, TypeOK, Holding, OwnedOnce, AtMostOneStale
  <2> QED BY <2>1, <2>2, <2>3
<1>7. ASSUME NEW r \in Readers, Peek(r) PROVE IInv'
  <2>1. (TypeOK /\ Holding)'
    BY <1>7, ReceiveFacts DEF Peek, TypeOK, Holding
  <2>2. OwnedOnce'
    BY <1>7, ReceiveFacts DEF Peek, TypeOK, Holding, OwnedOnce
  <2>3. AtMostOneStale'
    BY <1>7, ReceiveFacts DEF Peek, TypeOK, Holding, OwnedOnce, AtMostOneStale
  <2> QED BY <2>1, <2>2, <2>3
<1>8. ASSUME NEW r \in Readers, Check(r) PROVE IInv'
  <2>1. (TypeOK /\ Holding)'
    BY <1>8 DEF Check, TypeOK, Holding
  <2>2. OwnedOnce'
    BY <1>8 DEF Check, TypeOK, Holding, OwnedOnce
  <2>3. AtMostOneStale'
    BY <1>8 DEF Check, TypeOK, Holding, OwnedOnce, AtMostOneStale
  <2> QED BY <2>1, <2>2, <2>3
<1>9. ASSUME NEW r \in Readers, Take(r) PROVE IInv'
  <2>1. CASE queue # <<>> /\ Goto(r, "take", "use") /\ Receive(r)
    <3>1. (TypeOK /\ Holding)'
      BY <2>1, ReceiveFacts DEF Receive, TypeOK, Holding
    <3>2. OwnedOnce'
      BY <2>1, ReceiveFacts DEF Receive, TypeOK, Holding, OwnedOnce
    <3>3. AtMostOneStale'
      BY <2>1, ReceiveFacts DEF Receive, TypeOK, Holding, OwnedOnce, AtMostOneStale
    <3> QED BY <3>1, <3>2, <3>3
  <2>2. CASE pc[r] = "take" /\ pc' = [pc EXCEPT ![r] = "stuck"]
           /\ UNCHANGED <<queue, heap, type, select, cb, want, recv, history>>
    <3>1. (TypeOK /\ Holding)'
      BY <2>2 DEF TypeOK, Holding
    <3>2. OwnedOnce'
      BY <2>2 DEF TypeOK, Holding, OwnedOnce
    <3>3. AtMostOneStale'
      BY <2>2 DEF TypeOK, Holding, OwnedOnce, AtMostOneStale
    <3> QED BY <3>1, <3>2, <3>3
  <2> QED BY <2>1, <2>2, <1>9 DEF Take
<1>10. ASSUME NEW r \in Readers, FreeRecv(r) PROVE IInv'
  <2>1. (TypeOK /\ Holding)'
    BY <1>10 DEF FreeRecv, Return, TypeOK, Holding
  <2>2. OwnedOnce'
    BY <1>10 DEF FreeRecv, Return, TypeOK, Holding, OwnedOnce
  <2>3. AtMostOneStale'
    BY <1>10 DEF FreeRecv, Return, TypeOK, Holding, OwnedOnce, AtMostOneStale
  <2> QED BY <2>1, <2>2, <2>3
<1>11. CASE UNCHANGED vars
  BY <1>11 DEF vars, TypeOK, Holding, OwnedOnce, AtMostOneStale
<1> QED BY <1>1, <1>2, <1>3, <1>4, <1>5, <1>6, <1>7, <1>8, <1>9, <1>10, <1>11
        DEF Next, Read

LEMMA InvariantHolds == Spec => []IInv
<1>1. IInv /\ [Next]_vars => IInv'  BY StepIInv
<1> QED BY InitIInv, <1>1, PTL DEF Spec

(* The variables keep their types.                                         *)
THEOREM TypeCorrect == Spec => []TypeOK
<1>1. IInv => TypeOK  BY DEF IInv
<1> QED BY InvariantHolds, <1>1, PTL

(* Whoever reads, no packet is leaked, freed twice or owned by two.        *)
THEOREM PacketsOwnedOnce == Spec => []OwnedOnce
<1>1. IInv => OwnedOnce  BY DEF IInv
<1> QED BY InvariantHolds, <1>1, PTL

(* Whatever is selected, be it no type at all: once the queue was seen     *)
(* empty, at most one packet of another type can still show up.            *)
THEOREM StaleBounded == Spec => []AtMostOneStale
<1>1. IInv => AtMostOneStale  BY DEF IInv
<1> QED BY InvariantHolds, <1>1, PTL

-----------------------------------------------------------------------------
(* The packet a reader peeked stays at the head until another receives.    *)
HeadIsMine ==
  \A r \in Readers \ robbed :
    /\ pc[r] \in {"check", "take"} => /\ queue # <<>> /\ Head(queue) = recv[r]
                                      /\ want[r] # "all"
    /\ pc[r] = "take" => type[recv[r]] = want[r]

LEMMA StepHeadIsMine ==
  ASSUME IInv, HeadIsMine /\ PeekedIsTaken, [Next]_vars
  PROVE  (HeadIsMine /\ PeekedIsTaken)'
<1> USE DEF IInv, Users, TypeOK, Holding, OwnedOnce, HeadIsMine, PeekedIsTaken
<1>1. ASSUME NEW p \in Packets, NEW ty \in Types, RecvCb(p, ty)
      PROVE  (HeadIsMine /\ PeekedIsTaken)'
  BY <1>1, ReceiveFacts DEF RecvCb
<1>2. ASSUME RecvCbQueue
      PROVE  (HeadIsMine /\ PeekedIsTaken)'
  <2>1. ASSUME NEW r \in Readers \ robbed, pc[r] \in {"check", "take"}
        PROVE  recv[r] # cb /\ Head(queue') = Head(queue) /\ queue' # <<>>
    <3>1. queue # <<>> /\ Head(queue) = recv[r] /\ recv[r] # cb
      BY <2>1, ReceiveFacts
    <3>2. CASE Len(queue) < MaxRecv
      <4>1. queue' = Append(queue, cb) /\ cb # NoPacket  BY <1>2, <3>2 DEF RecvCbQueue
      <4> QED BY <3>1, <4>1, SendFacts, EmptySeq
    <3>3. CASE ~(Len(queue) < MaxRecv)
      BY <1>2, <3>1, <3>3 DEF RecvCbQueue
    <3> QED BY <3>2, <3>3
  <2>2. ASSUME NEW r \in Readers, pc[r] = "use" PROVE recv[r] # cb
    BY <2>2
  <2> QED BY <1>2, <2>1, <2>2 DEF RecvCbQueue
<1>3. ASSUME NEW ty \in Selectable, SelectType(ty)
      PROVE  (HeadIsMine /\ PeekedIsTaken)'
  BY <1>3 DEF SelectType
<1>4. ASSUME NEW r \in Readers, StartRead(r)
      PROVE  (HeadIsMine /\ PeekedIsTaken)'
  BY <1>4 DEF StartRead
<1>5. ASSUME NEW r \in Readers, ReadTimeout(r)
      PROVE  (HeadIsMine /\ PeekedIsTaken)'
  BY <1>5, EmptyRange DEF ReadTimeout, Return
<1>6. ASSUME NEW r \in Readers, ReceiveAll(r)
      PROVE  (HeadIsMine /\ PeekedIsTaken)'
  BY <1>6, ReceiveFacts DEF ReceiveAll, Receive
<1>7. ASSUME NEW r \in Readers, Peek(r)
      PROVE  (HeadIsMine /\ PeekedIsTaken)'
  BY <1>7, ReceiveFacts DEF Peek
<1>8. ASSUME NEW r \in Readers, Check(r)
      PROVE  (HeadIsMine /\ PeekedIsTaken)'
  BY <1>8 DEF Check
<1>9. ASSUME NEW r \in Readers, Take(r)
      PROVE  (HeadIsMine /\ PeekedIsTaken)'
  <2>1. CASE queue # <<>> /\ Goto(r, "take", "use") /\ Receive(r)
    <3>1. ASSUME NEW s \in Readers \ robbed', s # r
          PROVE  pc[s] \notin {"check", "take"} /\ s \notin robbed /\ pc'[s] = pc[s]
                 /\ recv'[s] = recv[s]
      BY <2>1, <3>1 DEF Receive
    <3>2. r \notin robbed' => r \notin robbed /\ Head(queue) = recv[r]
      BY <2>1 DEF Receive
    <3> QED BY <2>1, <3>1, <3>2, ReceiveFacts DEF Receive
  <2>2. CASE pc[r] = "take" /\ pc' = [pc EXCEPT ![r] = "stuck"]
           /\ UNCHANGED <<queue, heap, type, select, cb, want, recv, history>>
    BY <2>2
  <2> QED BY <2>1, <2>2, <1>9 DEF Take
<1>10. ASSUME NEW r \in Readers, FreeRecv(r)
      PROVE  (HeadIsMine /\ PeekedIsTaken)'
  <2>1. ASSUME NEW s \in Readers \ robbed, s # r, pc[s] \in {"check", "take", "use"}
        PROVE  recv[s] # recv[r] /\ recv[r] \in Packets
    BY <1>10, <2>1, ReceiveFacts DEF FreeRecv
  <2> QED BY <1>10, <2>1 DEF FreeRecv, Return
<1>11. CASE UNCHANGED vars
  BY <1>11 DEF vars
<1> QED BY <1>1, <1>2, <1>3, <1>4, <1>5, <1>6, <1>7, <1>8, <1>9, <1>10, <1>11
        DEF Next, Read

(* Whoever reads, a typed read touches a freed packet, or returns another  *)
(* than the one it peeked, only if another task received in between.       *)
THEOREM PeekedStays == Spec => []PeekedIsTaken
<1>1. Init => HeadIsMine /\ PeekedIsTaken
  BY DEF Init, HeadIsMine, PeekedIsTaken
<1>2. /\ IInv /\ HeadIsMine /\ PeekedIsTaken /\ [Next]_vars
      => (HeadIsMine /\ PeekedIsTaken)'
  BY StepHeadIsMine
<1> QED BY InvariantHolds, <1>1, <1>2, PTL DEF Spec

-----------------------------------------------------------------------------
(* The refinement of RecvService: the steps of a reader that only looks    *)
(* are stutters, and a reader holds a packet from its receive on.          *)
LEMMA InitService == Init => Service!Init
BY DEF Init, Service!Init, Held

\* Only the reader that moves can be given a packet, or give one up.
LEMMA HeldMoves ==
  ASSUME NEW r \in Readers,
         \A s \in Readers \ {r} : pc'[s] = pc[s] /\ recv'[s] = recv[s]
  PROVE  Held' = [Held EXCEPT ![r] = Held'[r]]
<1>1. \A s \in Readers \ {r} : Held'[s] = Held[s]
  BY DEF Held
<1>2. /\ Held = [s \in Readers |-> Held[s]]
      /\ Held' = [s \in Readers |-> Held'[s]]
  BY DEF Held
<1> QED BY <1>1, <1>2

LEMMA StepService ==
  ASSUME IInv, [Next]_vars PROVE [Service!Next]_(Service!vars)
<1> USE DEF IInv, TypeOK
<1>1. ASSUME NEW p \in Packets, NEW ty \in Types, RecvCb(p, ty) PROVE Service!Arrive(p)
  <2>1. heap[p] = "free" /\ cb = NoPacket /\ cb' = p
        /\ queue' = queue /\ Held' = Held
    BY <1>1 DEF RecvCb, Held, readerVars
  <2>2. p \notin Range(queue) /\ \A r \in Users : recv[r] # p
    BY <2>1 DEF OwnedOnce
  <2>3. \A r \in Readers : Held[r] # p
    BY <2>2 DEF Held, Users
  <2> QED BY <2>1, <2>2, <2>3 DEF Service!Arrive, Service!Range, Range
<1>2. CASE RecvCbQueue
  <2>1. cb # NoPacket /\ cb' = NoPacket /\ Held' = Held
    BY <1>2 DEF RecvCbQueue, Held
  <2>2. CASE Len(queue) < MaxRecv
    BY <1>2, <2>1, <2>2 DEF RecvCbQueue, Service!Accept, Service!Next
  <2>3. CASE ~(Len(queue) < MaxRecv)
    <3>1. Len(queue) = MaxRecv
      BY <2>3, LenProperties
    <3> QED BY <1>2, <2>1, <2>3, <3>1 DEF RecvCbQueue, Service!Drop, Service!Next
  <2> QED BY <2>2, <2>3
<1>3. ASSUME NEW r \in Readers, queue # <<>>, Receive(r), pc[r] # "use",
             pc' = [pc EXCEPT ![r] = "use"]
      PROVE  Service!Fetch(r)
  <2>1. Held' = [Held EXCEPT ![r] = Held'[r]]
    BY <1>3, HeldMoves DEF Receive
  <2>2. Held[r] = NoPacket /\ Held'[r] = Head(queue)
    BY <1>3 DEF Receive, Held
  <2> QED BY <1>3, <2>1, <2>2 DEF Receive, Service!Fetch
<1>4. ASSUME NEW r \in Readers, FreeRecv(r) PROVE Service!Release(r)
  <2>1. Held' = [Held EXCEPT ![r] = Held'[r]]
    BY <1>4, HeldMoves DEF FreeRecv, Return
  <2>2. Held[r] # NoPacket /\ Held'[r] = NoPacket
    BY <1>4 DEF FreeRecv, Held, Holding
  <2> QED BY <1>4, <2>1, <2>2 DEF FreeRecv, Service!Release
<1>5. ASSUME NEW r \in Readers,
             \/ StartRead(r) \/ ReadTimeout(r) \/ Peek(r) \/ Check(r)
             \/ Goto(r, "take", "stuck") /\ UNCHANGED <<queue, cb, recv>>
      PROVE  UNCHANGED Service!vars
  <2>1. /\ cb' = cb /\ queue' = queue /\ Held' = [Held EXCEPT ![r] = Held'[r]]
        /\ pc[r] # "use" /\ pc'[r] # "use"
    BY <1>5, HeldMoves DEF StartRead, ReadTimeout, Peek, Check, Return
  <2>2. Held'[r] = Held[r] /\ Held = [s \in Readers |-> Held[s]]
    BY <2>1 DEF Held
  <2> QED BY <2>1, <2>2 DEF Service!vars
<1>6. CASE (\E ty \in Selectable : SelectType(ty)) \/ UNCHANGED vars
  BY <1>6 DEF SelectType, vars, Held, Service!vars
<1>7. ASSUME NEW r \in Readers, Read(r)
      PROVE  Service!Fetch(r) \/ Service!Release(r) \/ UNCHANGED Service!vars
  BY <1>3, <1>4, <1>5, <1>7 DEF Read, ReceiveAll, Take
<1> QED BY <1>1, <1>2, <1>6, <1>7 DEF Next, Service!Next

(* For any readers, types and heap, std_espnow_read serves its callers as  *)
(* RecvService promises: each packet once, in order, to one of them.       *)
THEOREM ImplementsService == Spec => ServiceSpec
<1>1. IInv /\ [Next]_vars => [Service!Next]_(Service!vars)
  BY StepService
<1> QED
  BY InvariantHolds, InitService, <1>1, PTL DEF Spec, ServiceSpec, Service!Spec
=============================================================================
