------------------------------ MODULE BlufiProofs ------------------------------
(***************************************************************************)
(* Proofs about provisioning, for any number of events on their way and of *)
(* negotiations.                                                           *)
(***************************************************************************)
EXTENDS Blufi, QueueLemmas

LEMMA Bounds == 0 \in Keys /\ MaxEvents \in Nat /\ MaxEvents >= 1
BY BlufiAssumption DEF Keys

USE Bounds DEF Goto, HGoto, Closing, Ready

-----------------------------------------------------------------------------
(* The queue of the Bluetooth task.                                        *)

\* After every connection in q there is a disconnection.
Answered(q) == FollowedBy(q, Event("connect"), {Event("disconnect")})

LEMMA EventNames ==
  /\ \A e \in Frames \cup {"init_finish", "adv_set", "connect", "disconnect"} :
       Event(e) \in Events
  /\ Event("connect") # Event("disconnect") /\ Event("adv_set") # Event("connect")
  /\ Event("init_finish") # Event("connect")
  /\ \A f \in Frames : Event(f) # Event("connect")
  /\ \A k \in Keys : <<"data", k>> \in Events /\ <<"data", k>> # Event("connect")
BY DEF Events, Event, Frames

\* The name of an event determines it, but for the number of a data frame.
LEMMA NameFacts ==
  ASSUME NEW e \in Events
  PROVE  /\ e[1] \in {"init_finish", "adv_set", "connect", "disconnect"} => e = Event(e[1])
         /\ e[1] = "data" => e[2] \in Keys
BY DEF Events, Event, Frames

LEMMA PushEvent ==
  ASSUME NEW q \in Seq(Events), NEW e \in Events
  PROVE  /\ Append(q, e) \in Seq(Events) /\ Len(Append(q, e)) = Len(q) + 1
         /\ Len(q) \in Nat /\ Range(Append(q, e)) = Range(q) \cup {e}
BY PushFacts

LEMMA AppendAnswered ==
  ASSUME NEW q \in Seq(Events), NEW e \in Events, e # Event("connect")
  PROVE  Answered(q) \/ e = Event("disconnect") => Answered(Append(q, e))
BY AppendFollowed DEF Answered

LEMMA TailAnswered ==
  ASSUME NEW q \in Seq(Events), q # <<>>, Answered(q)
  PROVE  /\ Answered(Tail(q))
         /\ Head(q) = Event("connect") => Event("disconnect") \in Range(Tail(q))
BY TailFollowed DEF Answered

LEMMA EmptyFacts ==
  /\ <<>> \in Seq(Events) /\ Len(<<>>) = 0 /\ Range(<<>>) = {} /\ Answered(<<>>)
<1>1. <<>> \in Seq(Events) /\ Len(<<>>) = 0 /\ DOMAIN <<>> = {}
  BY EmptySeq
<1> QED BY <1>1 DEF Range, Answered, FollowedBy

-----------------------------------------------------------------------------
(* The inductive invariant.                                                *)

\* Before init and after deinit there is no Bluetooth.
Early ==
  app \in {"off", "security", "profile", "gone"} =>
    /\ events = <<>> /\ handler = "idle" /\ phone_key = 0
    /\ ~connected /\ ~advertising

Followed == ~connected => Answered(events)

\* Which blocks are allocated at each step of the two tasks.
Blocks ==
  ~overlapped /\ ~failed =>
    /\ ~fault
    /\ handler # "idle" => app = "on"
    /\ app \in {"off", "security", "profile_deinit", "gone"} => sec = "null"
    /\ app \in {"profile", "on", "free_dh", "free"} => sec = "live"
    /\ app \notin {"on", "free_dh"} => dh = "null"
    /\ dh = "freed" <=> handler = "null"
    /\ handler = "free" => dh = "live"

IInv == TypeOK /\ Early /\ Followed /\ Connectable /\ Blocks /\ KeyAgrees

USE DEF secVars, air

\* What is not about the queue.
LEMMA QueueKept ==
  ASSUME TypeOK, Followed, Connectable, UNCHANGED <<events, connected, advertising>>,
         app' = "on" => app = "on"
  PROVE  (Followed /\ Connectable)'
BY DEF Followed, Connectable

LEMMA InitIInv == Init => IInv
<1> SUFFICES ASSUME Init PROVE IInv
  OBVIOUS
<1>1. TypeOK
  <2>1. events \in Seq(Events) /\ Len(events) <= MaxEvents
    BY EmptyFacts DEF Init
  <2> QED BY <2>1 DEF Init, TypeOK
<1> QED BY <1>1, EmptyFacts DEF Init, IInv, Early, Followed, Connectable, Blocks, KeyAgrees

LEMMA RestartIInv == Restart => IInv'
<1> SUFFICES ASSUME Restart PROVE IInv'
  OBVIOUS
<1>1. TypeOK'
  <2>1. events' \in Seq(Events) /\ Len(events') <= MaxEvents
    BY EmptyFacts DEF Restart
  <2> QED BY <2>1 DEF Restart, TypeOK
<1> QED BY <1>1, EmptyFacts DEF Restart, IInv, Early, Followed, Connectable, Blocks, KeyAgrees

\* The application.
LEMMA AppIInv == ASSUME IInv, App PROVE IInv'
<1> USE DEF IInv
<1>1. CASE ProfileInit
  <2> DEFINE e == Event("init_finish")
  <2>1. e \in Events /\ e # Event("connect")
    BY EventNames
  <2>2. events = <<>> /\ events' = Append(events, e)
    BY <1>1 DEF ProfileInit, Early
  <2>3. events' \in Seq(Events) /\ Len(events') = 1 /\ e \in Range(events')
    <3>1. events \in Seq(Events) /\ Len(events) = 0
      BY <2>2, EmptyFacts
    <3> HIDE DEF e
    <3>2. /\ Append(events, e) \in Seq(Events)
          /\ Len(Append(events, e)) = Len(events) + 1 /\ e \in Range(Append(events, e))
      BY <2>1, <3>1, PushEvent
    <3> QED BY <2>2, <3>1, <3>2
  <2>4. Answered(events')
    BY <2>1, <2>2, EmptyFacts, AppendAnswered
  <2>5. TypeOK'
    BY <1>1, <2>3 DEF ProfileInit, TypeOK
  <2>6. (Followed /\ Connectable)'
    BY <2>3, <2>4 DEF Followed, Connectable
  <2>7. (Early /\ Blocks /\ KeyAgrees)'
    BY <1>1 DEF ProfileInit, TypeOK, Early, Blocks, KeyAgrees
  <2> QED BY <2>5, <2>6, <2>7
<1>2. CASE ProfileDeinit
  <2>1. TypeOK'
    <3>1. events' \in Seq(Events) /\ Len(events') <= MaxEvents
      BY <1>2, EmptyFacts DEF ProfileDeinit
    <3> QED BY <1>2, <3>1 DEF ProfileDeinit, TypeOK
  <2>2. (Followed /\ Connectable)'
    BY <1>2, EmptyFacts DEF ProfileDeinit, Followed, Connectable
  <2>3. (Early /\ Blocks /\ KeyAgrees)'
    BY <1>2 DEF ProfileDeinit, TypeOK, Early, Blocks, KeyAgrees
  <2> QED BY <2>1, <2>2, <2>3
<1>3. CASE StartInit \/ SecurityInit
  <2>1. (Followed /\ Connectable)'
    BY <1>3, QueueKept DEF StartInit, SecurityInit
  <2>2. TypeOK'
    BY <1>3 DEF StartInit, SecurityInit, TypeOK
  <2>3. (Early /\ Blocks /\ KeyAgrees)'
    BY <1>3 DEF StartInit, SecurityInit, TypeOK, Early, Blocks, KeyAgrees
  <2> QED BY <2>1, <2>2, <2>3
<1>4. CASE SecurityDeinit
  <2>1. (Followed /\ Connectable)'
    BY <1>4, QueueKept DEF SecurityDeinit
  <2>2. TypeOK'
    BY <1>4 DEF SecurityDeinit, TypeOK
  <2>3. (Early /\ Blocks /\ KeyAgrees)'
    BY <1>4 DEF SecurityDeinit, TypeOK, Early, Blocks, KeyAgrees
  <2> QED BY <2>1, <2>2, <2>3
<1>5. CASE FreeDh \/ FreeSec \/ NullSec
  <2>1. (Followed /\ Connectable)'
    BY <1>5, QueueKept DEF FreeDh, FreeSec, NullSec
  <2>2. TypeOK'
    BY <1>5 DEF FreeDh, FreeSec, NullSec, TypeOK
  <2>3. (Early /\ Blocks /\ KeyAgrees)'
    BY <1>5 DEF FreeDh, FreeSec, NullSec, TypeOK, Early, Blocks, KeyAgrees
  <2> QED BY <2>1, <2>2, <2>3
<1> QED BY <1>1, <1>2, <1>3, <1>4, <1>5 DEF App

\* The phone.
LEMMA ArrivesFacts ==
  ASSUME IInv, NEW e \in Events, Arrives(e)
  PROVE  /\ events' \in Seq(Events) /\ Len(events') <= MaxEvents
         /\ Range(events') = Range(events) \cup {e}
         /\ e # Event("connect") /\ Answered(events) => Answered(events')
         /\ e = Event("disconnect") => Answered(events')
BY PushEvent, AppendAnswered, EventNames DEF Arrives, IInv, TypeOK

LEMMA PhoneIInv == ASSUME IInv, PhoneConnects \/ PhoneLeaves \/ PhoneSends PROVE IInv'
<1> USE DEF IInv
<1>1. CASE PhoneConnects
  <2>1. events' \in Seq(Events) /\ Len(events') <= MaxEvents
    BY <1>1, ArrivesFacts, EventNames DEF PhoneConnects
  <2>2. TypeOK'
    <3>1. connected' \in BOOLEAN /\ advertising' \in BOOLEAN /\ begun' \in Keys /\ phone_key' \in Keys
      BY <1>1 DEF PhoneConnects
    <3>2. UNCHANGED <<app, sec, dh, key, handler, n, fault, overlapped, failed>>
      BY <1>1 DEF PhoneConnects, Arrives
    <3> QED BY <2>1, <3>1, <3>2 DEF TypeOK
  <2>3. (Followed /\ Connectable)'
    BY <1>1 DEF PhoneConnects, Followed, Connectable
  <2>4. (Early /\ Blocks /\ KeyAgrees)'
    BY <1>1 DEF PhoneConnects, Arrives, Early, Blocks, KeyAgrees
  <2> QED BY <2>2, <2>3, <2>4
<1>2. CASE PhoneLeaves
  <2>1. /\ events' \in Seq(Events) /\ Len(events') <= MaxEvents
        /\ Event("disconnect") \in Range(events') /\ Answered(events')
    BY <1>2, ArrivesFacts, EventNames DEF PhoneLeaves
  <2>2. TypeOK'
    <3>1. UNCHANGED <<app, secVars, handler, n, fault, overlapped, failed, advertising,
                      begun, phone_key>>
      BY <1>2 DEF PhoneLeaves, Arrives
    <3>2. connected' \in BOOLEAN
      BY <1>2 DEF PhoneLeaves
    <3> QED BY <2>1, <3>1, <3>2 DEF TypeOK
  <2>3. (Followed /\ Connectable)'
    BY <2>1 DEF Followed, Connectable
  <2> QED BY <1>2, <2>2, <2>3 DEF PhoneLeaves, Arrives, Early, Blocks, KeyAgrees
<1>3. CASE PhoneSends
  <2>1. PICK e \in Events : Arrives(e)
    <3>1. ASSUME NEW f \in Frames, Arrives(Event(f)) PROVE \E e \in Events : Arrives(e)
      BY <3>1, EventNames
    <3>2. ASSUME begun < MaxKeys, begun' = begun + 1, Arrives(<<"data", begun'>>)
          PROVE  \E e \in Events : Arrives(e)
      <4>1. begun' \in Keys
        BY <3>2, BlufiAssumption DEF TypeOK, Keys
      <4> QED BY <3>2, <4>1, EventNames
    <3> QED BY <1>3, <3>1, <3>2 DEF PhoneSends
  <2>2. events' \in Seq(Events) /\ Len(events') <= MaxEvents
    BY <2>1, ArrivesFacts
  <2>3. begun' \in Keys
    BY <1>3, BlufiAssumption DEF PhoneSends, TypeOK, Keys
  <2>4. TypeOK'
    BY <1>3, <2>1, <2>2, <2>3 DEF PhoneSends, Arrives, TypeOK
  <2> QED BY <1>3, <2>1, <2>4
             DEF PhoneSends, Arrives, Early, Followed, Connectable, Blocks, KeyAgrees
<1> QED BY <1>1, <1>2, <1>3

\* The Bluetooth task takes an event, ...
LEMMA TakeFacts ==
  ASSUME IInv, Ready
  PROVE  /\ Head(events) \in Events /\ Tail(events) \in Seq(Events)
         /\ Len(Tail(events)) = Len(events) - 1 /\ Len(events) \in Nat
         /\ Range(events) = Range(Tail(events)) \cup {Head(events)}
         /\ ~connected => /\ Answered(Tail(events))
                          /\ Name = "connect" => Event("disconnect") \in Range(Tail(events))
         /\ app \notin {"off", "security", "profile", "gone"}
<1>1. events \in Seq(Events) /\ events # <<>>
  BY DEF IInv, TypeOK
<1>2. Head(events) \in Events /\ Name = Head(events)[1]
  BY <1>1, TailRange DEF Name
<1>3. Name = "connect" => Head(events) = Event("connect")
  BY <1>2, NameFacts
<1> QED BY <1>1, <1>2, <1>3, TailRange, TailAnswered, LenProperties
           DEF IInv, Followed, Early

LEMMA EventIInv ==
  ASSUME IInv, ConfigAdv \/ StartAdv \/ StopAdv \/ Close \/ Decrypt \/ Negotiate
  PROVE  IInv'
<1> USE DEF IInv
<1>0. Ready
  BY DEF ConfigAdv, StartAdv, StopAdv, Close, Decrypt, Negotiate
<1>1. CASE ConfigAdv
  <2> DEFINE e == Event("adv_set")
  <2>1. e \in Events /\ e # Event("connect") /\ events' = Append(Tail(events), e)
    BY <1>1, EventNames DEF ConfigAdv
  <2>2. /\ events' \in Seq(Events) /\ Len(events') <= MaxEvents
        /\ e \in Range(events') /\ (~connected => Answered(events'))
    <3>1. /\ Tail(events) \in Seq(Events) /\ Len(Tail(events)) + 1 = Len(events)
          /\ ~connected => Answered(Tail(events))
      BY <1>0, TakeFacts
    <3>2. /\ events' \in Seq(Events) /\ Len(events') = Len(Tail(events)) + 1
          /\ e \in Range(events')
      BY <2>1, <3>1, PushEvent
    <3>3. ~connected => Answered(events')
      BY <2>1, <3>1, AppendAnswered
    <3> QED BY <3>1, <3>2, <3>3 DEF TypeOK
  <2>3. TypeOK'
    BY <1>1, <2>2 DEF ConfigAdv, TypeOK
  <2>4. (Followed /\ Connectable)'
    BY <1>1, <2>2 DEF ConfigAdv, Followed, Connectable
  <2> QED BY <1>0, <1>1, <2>3, <2>4, TakeFacts DEF ConfigAdv, Early, Blocks, KeyAgrees
<1>2. CASE StartAdv
  <2>1. TypeOK'
    BY <1>0, <1>2, TakeFacts DEF StartAdv, TypeOK
  <2>2. (Followed /\ Connectable)'
    BY <1>0, <1>2, TakeFacts DEF StartAdv, Followed, Connectable
  <2> QED BY <1>0, <1>2, <2>1, <2>2, TakeFacts DEF StartAdv, Early, Blocks, KeyAgrees
<1>3. CASE StopAdv
  <2>1. TypeOK'
    <3>1. events' \in Seq(Events) /\ Len(events') <= MaxEvents
      BY <1>0, <1>3, TakeFacts DEF StopAdv, TypeOK
    <3> QED BY <1>3, <3>1 DEF StopAdv, TypeOK
  <2>2. (Followed /\ Connectable)'
    BY <1>0, <1>3, TakeFacts DEF StopAdv, Followed, Connectable
  <2> QED BY <1>0, <1>3, <2>1, <2>2, TakeFacts DEF StopAdv, Early, Blocks, KeyAgrees
<1>4. CASE Close
  <2> DEFINE e == Event("disconnect")
  <2>1. e \in Events
    BY EventNames
  <2>2. /\ events' \in Seq(Events) /\ Len(events') <= MaxEvents
        /\ connected => e \in Range(events') /\ Answered(events')
        /\ ~connected => events' = Tail(events)
    <3>1. Tail(events) \in Seq(Events) /\ Len(Tail(events)) + 1 = Len(events)
      BY <1>0, TakeFacts
    <3>2. CASE connected
      <4>1. events' = Append(Tail(events), e)
        BY <1>4, <3>2 DEF Close
      <4>2. /\ events' \in Seq(Events) /\ Len(events') = Len(Tail(events)) + 1
            /\ e \in Range(events')
        BY <2>1, <3>1, <4>1, PushEvent
      <4>3. Answered(events')
        BY <2>1, <3>1, <4>1, AppendAnswered, EventNames
      <4> QED BY <3>1, <3>2, <4>2, <4>3 DEF TypeOK
    <3>3. CASE ~connected
      BY <1>0, <1>4, <3>1, <3>3, TakeFacts DEF Close, TypeOK
    <3> QED BY <3>2, <3>3
  <2>3. TypeOK'
    BY <1>4, <2>2 DEF Close, TypeOK
  <2>4. Name \notin {"init_finish", "adv_set", "disconnect"}
    BY <1>4 DEF Close
  <2>5. \A x \in {"init_finish", "adv_set", "disconnect"} : Head(events) # Event(x)
    BY <2>4 DEF Name, Event
  <2>6. (Followed /\ Connectable)'
    BY <1>0, <1>4, <2>2, <2>5, TakeFacts DEF Close, Followed, Connectable
  <2> QED BY <1>0, <1>4, <2>3, <2>6, TakeFacts DEF Close, Early, Blocks, KeyAgrees
<1>5. CASE Decrypt \/ Negotiate
  <2>1. events' = Tail(events) /\ UNCHANGED <<app, connected, advertising>>
    BY <1>5 DEF Decrypt, Negotiate
  <2>2. Name \notin {"init_finish", "adv_set", "disconnect"}
    BY <1>5 DEF Decrypt, Negotiate
  <2>3. \A x \in {"init_finish", "adv_set", "disconnect"} : Head(events) # Event(x)
    BY <2>2 DEF Name, Event
  <2>4. (Followed /\ Connectable)'
    BY <1>0, <2>1, <2>3, TakeFacts DEF Followed, Connectable
  <2>5. n' \in Keys
    BY <1>0, <1>5, TakeFacts, NameFacts DEF Decrypt, Negotiate, Name, TypeOK
  <2>6. events' \in Seq(Events) /\ Len(events') <= MaxEvents
    BY <1>0, <2>1, TakeFacts DEF TypeOK
  <2>7. TypeOK'
    <3>1. CASE Decrypt
      BY <2>5, <2>6, <3>1 DEF Decrypt, TypeOK
    <3>2. CASE Negotiate
      BY <2>5, <2>6, <3>2 DEF Negotiate, TypeOK
    <3> QED BY <1>5, <3>1, <3>2
  <2>8. (Early /\ KeyAgrees)'
    BY <1>0, <1>5, TakeFacts DEF Decrypt, Negotiate, Early, KeyAgrees
  <2>9. Blocks'
    <3>1. CASE Decrypt
      BY <1>0, <3>1, TakeFacts DEF Decrypt, Blocks, TypeOK
    <3>2. CASE Negotiate
      BY <1>0, <3>2, TakeFacts DEF Negotiate, Blocks, TypeOK
    <3> QED BY <1>5, <3>1, <3>2
  <2> QED BY <2>4, <2>7, <2>8, <2>9
<1> QED BY <1>1, <1>2, <1>3, <1>4, <1>5

\* ... and goes on with a negotiation.
LEMMA NegotiationIInv ==
  ASSUME IInv, TakeLen \/ ReadParams \/ FreeParams \/ NullParams \/ MakeKey
  PROVE  IInv'
<1> USE DEF IInv
<1>1. UNCHANGED <<app, events, connected, advertising, overlapped>>
  BY DEF TakeLen, ReadParams, FreeParams, NullParams, MakeKey
<1>2. (Followed /\ Connectable)'
  BY <1>1, QueueKept
<1>3. CASE TakeLen
  BY <1>2, <1>3 DEF TakeLen, TypeOK, Early, Blocks, KeyAgrees
<1>4. CASE ReadParams
  <2>1. handler = "data" /\ handler' \in {"idle", "free"} /\ n' \in {0, n}
        /\ (handler' = "free" => dh # "null")
    BY <1>4 DEF ReadParams
  <2>2. TypeOK'
    BY <1>4, <2>1 DEF ReadParams, TypeOK
  <2> QED BY <1>2, <1>4, <2>1, <2>2 DEF ReadParams, TypeOK, Early, Blocks, KeyAgrees
<1>5. CASE FreeParams \/ NullParams
  BY <1>2, <1>5 DEF FreeParams, NullParams, TypeOK, Early, Blocks, KeyAgrees
<1>6. CASE MakeKey
  <2>1. TypeOK'
    <3>1. handler' = "idle" /\ n' \in Keys /\ key' \in Keys /\ phone_key' \in Keys
          /\ fault' \in BOOLEAN /\ failed' \in BOOLEAN
      BY <1>6 DEF MakeKey, TypeOK
    <3>2. UNCHANGED <<app, sec, dh, events, connected, advertising, begun, overlapped>>
      BY <1>6 DEF MakeKey
    <3> QED BY <3>1, <3>2 DEF TypeOK
  <2>2. (Early /\ Blocks)'
    BY <1>6 DEF MakeKey, TypeOK, Early, Blocks
  <2>3. KeyAgrees'
    BY <1>6 DEF MakeKey, TypeOK, KeyAgrees
  <2> QED BY <1>2, <2>1, <2>2, <2>3
<1> QED BY <1>3, <1>4, <1>5, <1>6

LEMMA Invariance == Spec => []IInv
<1>1. IInv /\ [Next]_vars => IInv'
  <2>1. IInv /\ Next => IInv'
    BY AppIInv, PhoneIInv, EventIInv, NegotiationIInv, RestartIInv DEF Next, Bluetooth
  <2>2. IInv /\ UNCHANGED vars => IInv'
    BY DEF vars, IInv, TypeOK, Early, Followed, Connectable, Blocks, KeyAgrees
  <2> QED BY <2>1, <2>2
<1> QED BY <1>1, InitIInv, PTL DEF Spec

-----------------------------------------------------------------------------
(* Every variable keeps to its type.                                       *)
THEOREM BlufiTypeOK == Spec => []TypeOK
<1>1. IInv => TypeOK
  BY DEF IInv
<1> QED BY <1>1, Invariance, PTL

(* From std_blufi_init to std_blufi_deinit a phone can always come back:   *)
(* blufi_event_callback and gap_event_handler restart advertising after    *)
(* every disconnection, whoever caused it.                                 *)
THEOREM DeviceStaysConnectable == Spec => []Connectable
<1>1. IInv => Connectable
  BY DEF IInv
<1> QED BY <1>1, Invariance, PTL

(* Without a deinit at the wrong moment and without a failure nobody looks *)
(* at, no frame makes blufi_dh_negotiate_data_handler use freed memory.    *)
THEOREM NegotiationIsSafe == Spec => []MemoryIsSafe
<1>1. IInv => MemoryIsSafe
  BY DEF IInv, Blocks, MemoryIsSafe
<1> QED BY <1>1, Invariance, PTL

(* The key of blufi_sec->aes is the one of the negotiation a phone last    *)
(* had an answer to, also after negotiations that failed midway.           *)
THEOREM KeysAgree == Spec => []KeyAgrees
<1>1. IInv => KeyAgrees
  BY DEF IInv
<1> QED BY <1>1, Invariance, PTL
=============================================================================
