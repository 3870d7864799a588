--------------------------- MODULE WifiStationProofs ---------------------------
(***************************************************************************)
(* Proofs of the safety properties of the Wi-Fi station, for any           *)
(* credentials, number of events on their way and time to wait.            *)
(***************************************************************************)
EXTENDS WifiStation, QueueLemmas

LEMMA Bounds == /\ MaxEvents \in Nat \ {0} /\ Blank \notin Configs
                /\ 0 \in Waits
BY WifiAssumption DEF Waits

USE Bounds DEF driver, appVars, Goto, Post, Room, GoDown

-----------------------------------------------------------------------------
(* The inductive invariant.                                                *)

\* The handler of a lost lease and std_wifi_disconnect post an event each,
\* whether or not the environment has left room for it.
RoomLeft ==
  Len(events) + (IF handler = "lost_ip" THEN 1 ELSE 0)
    + (IF app = "disconnect" THEN 1 ELSE 0) <= MaxEvents + 2

\* What std_wifi_disconnect has done at each of its steps, if the event task
\* was idle when the callback was unset.
Quiet ==
  ~callback =>
    /\ app \notin {"set_config", "connect", "save"}
    /\ ~late =>
         /\ handler = "idle"
         /\ app # "disconnect" => link = "down"
         /\ app \notin {"disconnect", "clear"} => ~flag
         /\ app \notin {"disconnect", "clear", "set_channel"} =>
              (restoring => channel = "default")

Gone == {"disconnected"}
Lost == {"disconnected", "lost_ip"}

\* A "got_ip" that is no longer true is followed by what made it untrue.
Told ==
  /\ link # "up" => /\ FollowedBy(events, "got_ip", Gone)
                    /\ handler = "got_ip" => "disconnected" \in Range(events)
  /\ lease # "held" =>
       /\ FollowedBy(events, "got_ip", Lost)
       /\ handler = "got_ip" => \E e \in Lost : e \in Range(events)

\* So is a g_is_connect that is no longer true.
Fresh ==
  /\ flag /\ ~late
  /\ app \notin {"disconnect", "clear"} /\ handler \notin {"disconnected", "clear"}
  /\ "disconnected" \notin Range(events)
  => /\ link = "up"
     /\ lease = "held" \/ "lost_ip" \in Range(events) \/ handler = "lost_ip"

IInv == TypeOK /\ RoomLeft /\ Quiet /\ Told /\ Fresh

-----------------------------------------------------------------------------
(* The event queue.                                                        *)
LEMMA PushEvent ==
  ASSUME NEW e \in Events, events \in Seq(Events), Post(e)
  PROVE  /\ events' \in Seq(Events) /\ Len(events') = Len(events) + 1
         /\ Len(events) \in Nat /\ Range(events') = Range(events) \cup {e}
BY PushFacts

LEMMA LenIsNat == TypeOK => Len(events) \in Nat
BY LenProperties DEF TypeOK

LEMMA PushFollowed ==
  ASSUME NEW e \in Events, events \in Seq(Events), Post(e), e # "got_ip", NEW T
  PROVE  FollowedBy(events, "got_ip", T) \/ e \in T => FollowedBy(events', "got_ip", T)
BY AppendFollowed

LEMMA PopEvent ==
  ASSUME events \in Seq(Events), events # <<>>, events' = Tail(events)
  PROVE  /\ events' \in Seq(Events) /\ Len(events') + 1 = Len(events)
         /\ Len(events') \in Nat /\ Head(events) \in Events
         /\ Range(events) = Range(events') \cup {Head(events)}
BY PopFacts

LEMMA PopFollowed ==
  ASSUME events \in Seq(Events), events # <<>>, events' = Tail(events), NEW T,
         FollowedBy(events, "got_ip", T)
  PROVE  /\ FollowedBy(events', "got_ip", T)
         /\ Head(events) = "got_ip" => \E e \in T : e \in Range(events')
BY TailFollowed

LEMMA StartQueue ==
  ASSUME NEW q, q = <<"start">>
  PROVE  /\ q \in Seq(Events) /\ Len(q) = 1
         /\ FollowedBy(q, "got_ip", Gone) /\ FollowedBy(q, "got_ip", Lost)
BY DEF Events, FollowedBy

\* The link goes down, and the handler is told.
LEMMA DropTold ==
  ASSUME TypeOK, Told, GoDown, Post("disconnected")
  PROVE  /\ "disconnected" \in Range(events') /\ events' \in Seq(Events)
         /\ Len(events') = Len(events) + 1 /\ Len(events) \in Nat
         /\ link' = "down" /\ lease' \in {"none", "old"}
         /\ Told'
<1>1. "disconnected" \in Events /\ events \in Seq(Events)
  BY DEF Events, TypeOK
<1>2. /\ "disconnected" \in Range(events') /\ events' \in Seq(Events)
      /\ Len(events') = Len(events) + 1 /\ Len(events) \in Nat
  BY <1>1, PushEvent
<1>3. FollowedBy(events', "got_ip", Gone) /\ FollowedBy(events', "got_ip", Lost)
  BY <1>1, PushFollowed DEF Gone, Lost
<1>4. lease' \in {"none", "old"}
  BY DEF TypeOK
<1> QED BY <1>2, <1>3, <1>4 DEF Told, Lost

LEMMA InitIInv == Init => IInv
<1> SUFFICES ASSUME Init PROVE IInv
  OBVIOUS
<1>1. /\ events \in Seq(Events) /\ Len(events) = 1
      /\ FollowedBy(events, "got_ip", Gone) /\ FollowedBy(events, "got_ip", Lost)
  BY StartQueue DEF Init
<1>2. TypeOK
  <2>1. events \in Seq(Events) /\ Len(events) <= MaxEvents + 2
    BY <1>1
  <2>2. /\ reach \in BOOLEAN /\ stored \in Configs \cup {Blank, Oversize, Absent}
        /\ config = Blank /\ cfg = Blank /\ left = 0
    BY DEF Init, TypeOK
  <2>3. /\ link = "down" /\ lease = "none" /\ channel = "default"
        /\ callback = FALSE /\ handler = "idle" /\ flag = FALSE
        /\ app = "idle" /\ restoring = FALSE /\ late = FALSE
    BY DEF Init
  <2> QED BY <2>1, <2>2, <2>3 DEF TypeOK
<1> QED BY <1>1, <1>2 DEF Init, IInv, RoomLeft, Quiet, Told, Fresh

LEMMA RestartIInv == ASSUME IInv, Restart PROVE IInv'
<1>1. /\ events' \in Seq(Events) /\ Len(events') = 1
      /\ FollowedBy(events', "got_ip", Gone) /\ FollowedBy(events', "got_ip", Lost)
  BY StartQueue DEF Restart
<1>2. TypeOK'
  <2>1. events' \in Seq(Events) /\ Len(events') <= MaxEvents + 2
    BY <1>1
  <2>2. /\ reach' \in BOOLEAN /\ stored' \in Configs \cup {Blank, Oversize, Absent}
        /\ config' = Blank /\ cfg' = Blank /\ left' = 0
    BY DEF IInv, Restart, TypeOK
  <2>3. /\ link' = "down" /\ lease' = "none" /\ channel' = "default"
        /\ callback' = FALSE /\ handler' = "idle" /\ flag' = FALSE
        /\ app' = "idle" /\ restoring' = FALSE /\ late' = FALSE
    BY DEF Restart
  <2> QED BY <2>1, <2>2, <2>3 DEF TypeOK
<1> QED BY <1>1, <1>2 DEF Restart, IInv, RoomLeft, Quiet, Told, Fresh

-----------------------------------------------------------------------------
(* The driver and its environment.                                         *)
LEMMA DriverIInv == ASSUME IInv, Driver PROVE IInv'
<1> USE DEF IInv
<1>0. UNCHANGED <<config, reach, callback, handler, flag, stored, app, cfg, left,
                  restoring, late>>
  BY DEF Driver
<1>1. CASE Associate
  <2>1. TypeOK'
    BY <1>0, <1>1 DEF Associate, TypeOK
  <2> QED BY <1>0, <1>1, <2>1 DEF Associate, RoomLeft, Quiet, Told, Fresh
<1>2. CASE GetLease
  <2>1. "got_ip" \in Events /\ events \in Seq(Events)
    BY DEF Events, TypeOK
  <2>2. /\ events' \in Seq(Events) /\ Len(events') = Len(events) + 1
        /\ Len(events) \in Nat /\ Range(events') = Range(events) \cup {"got_ip"}
    BY <1>2, <2>1, PushEvent DEF GetLease
  <2>3. link' = "up" /\ lease' = "held" /\ link = "up" /\ channel' = channel
        /\ Len(events) < MaxEvents
    BY <1>2 DEF GetLease
  <2>4. TypeOK'
    BY <1>0, <2>2, <2>3 DEF TypeOK
  <2> QED BY <1>0, <2>2, <2>3, <2>4 DEF RoomLeft, Quiet, Told, Fresh
<1>3. CASE LinkLost
  <2>1. /\ "disconnected" \in Range(events') /\ events' \in Seq(Events)
        /\ Len(events') = Len(events) + 1 /\ Len(events) \in Nat
        /\ link' = "down" /\ lease' \in {"none", "old"} /\ Told'
    BY <1>3, DropTold DEF LinkLost
  <2>2. channel' = channel /\ Len(events) < MaxEvents /\ link # "down"
    BY <1>3 DEF LinkLost
  <2>3. TypeOK'
    BY <1>0, <2>1, <2>2 DEF TypeOK
  <2> QED BY <1>0, <2>1, <2>2, <2>3 DEF RoomLeft, Quiet, Fresh
<1>4. CASE LeaseLost
  <2>1. "lost_ip" \in Events /\ events \in Seq(Events)
    BY DEF Events, TypeOK
  <2>2. /\ events' \in Seq(Events) /\ Len(events') = Len(events) + 1
        /\ Len(events) \in Nat /\ Range(events') = Range(events) \cup {"lost_ip"}
    BY <1>4, <2>1, PushEvent DEF LeaseLost
  <2>3. link' = link /\ lease' = "none" /\ channel' = channel /\ Len(events) < MaxEvents
    BY <1>4 DEF LeaseLost
  <2>4. /\ FollowedBy(events', "got_ip", Lost)
        /\ FollowedBy(events, "got_ip", Gone) => FollowedBy(events', "got_ip", Gone)
    BY <1>4, <2>1, PushFollowed DEF LeaseLost, Lost
  <2>5. Told'
    BY <1>0, <2>2, <2>3, <2>4 DEF Told, Lost
  <2>6. TypeOK'
    BY <1>0, <2>2, <2>3 DEF TypeOK
  <2> QED BY <1>0, <2>2, <2>3, <2>5, <2>6 DEF RoomLeft, Quiet, Fresh
<1> QED BY <1>1, <1>2, <1>3, <1>4 DEF Driver

LEMMA OutsideIInv == ASSUME IInv, ReachChanges \/ Erase PROVE IInv'
<1>1. TypeOK'
  <2>1. CASE ReachChanges
    BY <2>1 DEF ReachChanges, IInv, TypeOK
  <2>2. CASE Erase
    BY <2>2 DEF Erase, IInv, TypeOK
  <2> QED BY <2>1, <2>2
<1>2. UNCHANGED <<driver, callback, handler, flag, appVars, late>>
  BY DEF ReachChanges, Erase
<1> QED BY <1>1, <1>2 DEF IInv, RoomLeft, Quiet, Told, Fresh

-----------------------------------------------------------------------------
(* The event task.                                                         *)
LEMMA TakeIInv ==
  ASSUME IInv, TakeEvent, UNCHANGED <<config, reach, callback, stored, appVars, late>>
  PROVE  IInv'
<1> USE DEF IInv
<1>1. events \in Seq(Events) /\ events # <<>> /\ events' = Tail(events)
  BY DEF TakeEvent, TypeOK
<1>2. /\ events' \in Seq(Events) /\ Len(events') + 1 = Len(events)
      /\ Len(events') \in Nat /\ Head(events) \in Events
      /\ Range(events) = Range(events') \cup {Head(events)}
  BY <1>1, PopEvent
<1>3. /\ handler = "idle" /\ handler' = IF callback THEN Head(events) ELSE "idle"
      /\ link' = link /\ lease' = lease /\ channel' = channel /\ flag' = flag
  BY DEF TakeEvent
<1>4. /\ link # "up" => /\ FollowedBy(events', "got_ip", Gone)
                        /\ Head(events) = "got_ip" => "disconnected" \in Range(events')
      /\ lease # "held" =>
           /\ FollowedBy(events', "got_ip", Lost)
           /\ Head(events) = "got_ip" => \E e \in Lost : e \in Range(events')
  BY <1>1, PopFollowed DEF Told, Gone
<1>5. Told'
  BY <1>3, <1>4 DEF Told
<1>6. TypeOK'
  BY <1>2, <1>3 DEF TypeOK
<1>7. RoomLeft'
  <2>1. app' = app /\ handler # "lost_ip" /\ Len(events) = Len(events') + 1
    BY <1>2, <1>3
  <2>2. Len(events') + 1 + (IF app = "disconnect" THEN 1 ELSE 0) <= MaxEvents + 2
    BY <2>1 DEF RoomLeft
  <2>3. CASE handler' = "lost_ip"
    BY <2>1, <2>2, <2>3 DEF RoomLeft
  <2>4. CASE handler' # "lost_ip"
    BY <1>2, <2>1, <2>2, <2>4 DEF RoomLeft
  <2> QED BY <2>3, <2>4
<1>9. Quiet'
  BY <1>3 DEF Quiet
<1>8. Fresh'
  <2>1. CASE callback
    BY <1>2, <1>3, <2>1 DEF Fresh
  <2>2. CASE ~callback
    BY <1>3, <2>2 DEF Fresh, Quiet
  <2> QED BY <2>1, <2>2 DEF TypeOK
<1> QED BY <1>5, <1>6, <1>7, <1>8, <1>9

\* A handler that runs has the callback, or began before it was unset.
LEMMA HandlerIInv ==
  ASSUME IInv, UNCHANGED <<config, reach, callback, stored, appVars, late>>,
         \/ HandleStart \/ HandleGotIp \/ HandleDisconnected \/ HandleClear
         \/ HandleLostIp \/ HandleReconnect
  PROVE  IInv'
<1> USE DEF IInv
<1>0. handler # "idle" /\ (callback \/ late)
  BY DEF HandleStart, HandleGotIp, HandleDisconnected, HandleClear, HandleLostIp,
     HandleReconnect, Quiet
<1>1. Quiet'
  BY <1>0 DEF Quiet
<1>2. CASE HandleStart \/ HandleDisconnected \/ HandleReconnect
  <2>1. /\ link' = (IF link = "down" THEN "connecting" ELSE link)
        /\ lease' = lease /\ events' = events /\ flag' = flag /\ channel' = channel
        /\ handler' \in {"idle", "clear"}
        /\ handler = "disconnected" => handler' = "clear"
        /\ handler \in {"start", "disconnected", "reconnect"}
    BY <1>2 DEF HandleStart, HandleDisconnected, HandleReconnect, EspConnect
  <2>2. TypeOK'
    BY <2>1 DEF TypeOK
  <2>3. (RoomLeft /\ Told)'
    BY <2>1 DEF RoomLeft, Told
  <2>4. Fresh'
    BY <2>1 DEF Fresh
  <2> QED BY <1>1, <2>2, <2>3, <2>4
<1>3. CASE HandleGotIp
  <2>1. TypeOK'
    BY <1>3 DEF HandleGotIp, TypeOK
  <2> QED BY <1>1, <1>3, <2>1 DEF HandleGotIp, RoomLeft, Told, Fresh, Lost
<1>4. CASE HandleClear
  <2>0. UNCHANGED driver /\ handler' = "idle" /\ flag' \in BOOLEAN
    BY <1>4 DEF HandleClear
  <2>1. TypeOK'
    BY <2>0 DEF TypeOK
  <2> QED BY <1>1, <1>4, <2>1 DEF HandleClear, RoomLeft, Told, Fresh
<1>5. CASE HandleLostIp
  <2>1. CASE link = "down"
    <3>1. UNCHANGED <<link, lease, events, channel, flag>> /\ handler' = "reconnect"
          /\ handler = "lost_ip"
      BY <1>5, <2>1 DEF HandleLostIp, EspDisconnect
    <3>2. TypeOK'
      BY <3>1 DEF TypeOK
    <3> QED BY <1>1, <2>1, <3>1, <3>2 DEF RoomLeft, Told, Fresh, TypeOK
  <2>2. CASE link # "down"
    <3>0. GoDown /\ Post("disconnected") /\ channel' = channel /\ flag' = flag
          /\ handler' = "reconnect" /\ handler = "lost_ip"
      BY <1>5, <2>2 DEF HandleLostIp, EspDisconnect
    <3>1. /\ "disconnected" \in Range(events') /\ events' \in Seq(Events)
          /\ Len(events') = Len(events) + 1 /\ Len(events) \in Nat
          /\ link' = "down" /\ lease' \in {"none", "old"} /\ Told'
      BY <3>0, DropTold
    <3>2. RoomLeft'
      BY <3>0, <3>1 DEF RoomLeft
    <3>3. TypeOK'
      BY <3>0, <3>1, <3>2 DEF TypeOK, RoomLeft
    <3> QED BY <1>1, <3>1, <3>2, <3>3 DEF Fresh
  <2> QED BY <2>1, <2>2
<1> QED BY <1>2, <1>3, <1>4, <1>5

-----------------------------------------------------------------------------
(* The application.                                                        *)
LEMMA CallIInv ==
  ASSUME IInv, UNCHANGED <<reach, handler>>,
         \/ \E c \in Configs : ConnectTo(c)
         \/ \E t \in Waits \ {0} : StartAwait(t)
         \/ ConnectStored \/ Load \/ SetCallback \/ SetConfig \/ Save \/ Poll
  PROVE  IInv'
<1> USE DEF IInv
<1>1. /\ UNCHANGED <<link, lease, channel, events, flag, restoring, late>>
      /\ app \notin {"disconnect", "clear", "set_channel"}
      /\ app' \notin {"disconnect", "clear", "set_channel"}
      /\ ~callback' => ~callback /\ app' \notin {"set_config", "connect", "save"}
  BY DEF ConnectTo, StartAwait, ConnectStored, Load, SetCallback, SetConfig, Save, Poll, Quiet
<1>2. /\ cfg' \in Configs \cup {Blank} /\ config' \in Configs \cup {Blank}
      /\ stored' \in Configs \cup {Blank, Oversize, Absent} /\ callback' \in BOOLEAN
  BY DEF ConnectTo, StartAwait, ConnectStored, Load, SetCallback, SetConfig, Save, Poll, TypeOK
<1>3. left' \in Waits
  <2>1. CASE Poll
    BY <2>1, WifiAssumption DEF Poll, Waits, TypeOK
  <2>2. CASE \E t \in Waits \ {0} : StartAwait(t)
    BY <2>2 DEF StartAwait
  <2>3. CASE left' = left
    BY <2>3 DEF TypeOK
  <2> QED BY <2>1, <2>2, <2>3 DEF ConnectTo, ConnectStored, Load, SetCallback, SetConfig, Save
<1>4. app' \in {"idle", "load", "set_cb", "set_config", "connect", "save", "await"}
  BY DEF ConnectTo, StartAwait, ConnectStored, Load, SetCallback, SetConfig, Save, Poll
<1>5. TypeOK'
  BY <1>1, <1>2, <1>3, <1>4 DEF TypeOK
<1> QED BY <1>1, <1>5 DEF RoomLeft, Quiet, Told, Fresh

LEMMA ConnectIInv == ASSUME IInv, UNCHANGED <<reach, handler>>, Connect PROVE IInv'
<1> USE DEF IInv
<1>1. /\ link' = (IF link = "down" THEN "connecting" ELSE link)
      /\ UNCHANGED <<lease, channel, events, config, callback, flag, stored, cfg, left,
                     restoring, late>>
      /\ app = "connect" /\ app' = "save"
  BY DEF Connect, EspConnect
<1>2. TypeOK'
  BY <1>1 DEF TypeOK
<1> QED BY <1>1, <1>2 DEF RoomLeft, Quiet, Told, Fresh

LEMMA LeaveIInv ==
  ASSUME IInv, UNCHANGED <<reach, handler>>,
         (\E r \in BOOLEAN : UnsetCallback(r)) \/ Disconnect \/ Clear \/ SetChannel
  PROVE  IInv'
<1> USE DEF IInv
<1>1. ASSUME NEW r \in BOOLEAN, UnsetCallback(r) PROVE IInv'
  <2>0. /\ UNCHANGED <<driver, config, flag, stored, cfg, left>>
        /\ app' = "disconnect" /\ callback' \in BOOLEAN /\ restoring' \in BOOLEAN
        /\ late' \in BOOLEAN
    BY <1>1 DEF UnsetCallback
  <2>1. TypeOK'
    BY <2>0 DEF TypeOK
  <2>2. RoomLeft'
    BY <1>1, LenIsNat DEF UnsetCallback, RoomLeft
  <2>3. (Told /\ Fresh)'
    BY <1>1 DEF UnsetCallback, Told, Fresh
  <2>4. Quiet'
    BY <1>1 DEF UnsetCallback, Quiet
  <2> QED BY <2>1, <2>2, <2>3, <2>4
<1>2. CASE Disconnect
  <2>0. /\ app = "disconnect" /\ app' = "clear" /\ channel' = channel
        /\ UNCHANGED <<config, callback, flag, stored, cfg, left, restoring, late>>
    BY <1>2 DEF Disconnect, EspDisconnect
  <2>1. CASE link = "down"
    <3>1. UNCHANGED <<link, lease, events>>
      BY <1>2, <2>1 DEF Disconnect, EspDisconnect
    <3>2. TypeOK'
      BY <2>0, <3>1 DEF TypeOK
    <3>3. RoomLeft'
      BY <2>0, <3>1, LenProperties DEF RoomLeft, TypeOK
    <3> QED BY <2>0, <2>1, <3>1, <3>2, <3>3 DEF Quiet, Told, Fresh
  <2>2. CASE link # "down"
    <3>1. /\ events' \in Seq(Events)
          /\ Len(events') = Len(events) + 1 /\ Len(events) \in Nat
          /\ link' = "down" /\ lease' \in {"none", "old"} /\ Told'
      BY <1>2, <2>2, DropTold DEF Disconnect, EspDisconnect
    <3>2. RoomLeft'
      BY <2>0, <3>1 DEF RoomLeft
    <3>3. TypeOK'
      BY <2>0, <3>1, <3>2 DEF TypeOK, RoomLeft
    <3> QED BY <2>0, <3>1, <3>2, <3>3 DEF Quiet, Fresh
  <2> QED BY <2>1, <2>2
<1>3. CASE Clear
  <2>0. /\ UNCHANGED <<driver, config, callback, stored, cfg, left, restoring, late>>
        /\ app' \in {"idle", "set_channel"} /\ flag' \in BOOLEAN
    BY <1>3 DEF Clear
  <2>1. TypeOK'
    BY <2>0 DEF TypeOK
  <2> QED BY <1>3, <2>1 DEF Clear, RoomLeft, Quiet, Told, Fresh
<1>4. CASE SetChannel
  <2>1. TypeOK'
    BY <1>4 DEF SetChannel, TypeOK
  <2> QED BY <1>4, <2>1 DEF SetChannel, RoomLeft, Quiet, Told, Fresh
<1> QED BY <1>1, <1>2, <1>3, <1>4

LEMMA Invariance == Spec => []IInv
<1>1. IInv /\ [Next]_vars => IInv'
  <2>1. IInv /\ App => IInv'
    BY CallIInv, ConnectIInv, LeaveIInv DEF App, Continue
  <2>2. IInv /\ Handler => IInv'
    BY TakeIInv, HandlerIInv DEF Handler
  <2>3. IInv /\ UNCHANGED vars => IInv'
    <3>1. TypeOK /\ UNCHANGED vars => TypeOK'
      BY DEF vars, TypeOK
    <3>2. RoomLeft /\ Quiet /\ Told /\ Fresh /\ UNCHANGED vars
          => (Quiet /\ Told /\ Fresh)'
      BY DEF vars, Quiet, Told, Fresh
    <3>3. RoomLeft /\ UNCHANGED vars => RoomLeft'
      BY DEF vars, RoomLeft
    <3> QED BY <3>1, <3>2, <3>3 DEF IInv
  <2> QED BY <2>1, <2>2, <2>3, DriverIInv, OutsideIInv, RestartIInv DEF Next
<1> QED BY <1>1, InitIInv, PTL DEF Spec

-----------------------------------------------------------------------------
(* Every variable keeps to its type, and the event queue to its bound.     *)
THEOREM StationTypeOK == Spec => []TypeOK
<1>1. IInv => TypeOK
  BY DEF IInv
<1> QED BY <1>1, Invariance, PTL

(* After std_wifi_disconnect no queued event brings the station back, and  *)
(* after std_wifi_restore none takes it off the ESP-NOW channel.           *)
THEOREM DisconnectIsLasting == Spec => []DisconnectHolds
<1>1. IInv => DisconnectHolds
  BY DEF IInv, Quiet, DisconnectHolds
<1> QED BY <1>1, Invariance, PTL

(* g_is_connect is never left set without the event that will clear it,    *)
(* although the handler and the driver share no lock.                      *)
THEOREM FlagIsNotStale == Spec => []FlagIsFresh
<1>1. IInv => FlagIsFresh
  BY DEF IInv, TypeOK, Fresh, FlagIsFresh
<1> QED BY <1>1, Invariance, PTL

-----------------------------------------------------------------------------
(* Why no station is stranded: a link that goes down posts an event, and a *)
(* "disconnected" that is out of date has a "got_ip" behind it, so that    *)
(* the flag it clears is set again.                                        *)
Regained == {"got_ip"}

Awake ==
  callback /\ ~late =>
    /\ link = "down" /\ app \notin {"set_config", "connect"} =>
         "disconnected" \in Range(events) \/ handler \in {"disconnected", "reconnect"}
    /\ link = "up" /\ lease = "held" =>
         /\ FollowedBy(events, "disconnected", Regained)
         /\ handler \in {"disconnected", "clear"} => "got_ip" \in Range(events)
         /\ flag \/ "got_ip" \in Range(events) \/ handler = "got_ip"

Leaving == /\ lease = "held" => link = "up"
           /\ app \in {"disconnect", "clear", "set_channel"} => ~callback

LEMMA LeavingStep == ASSUME TypeOK, Leaving, [Next]_vars PROVE Leaving'
<1>1. CASE Driver
  BY <1>1 DEF Driver, Associate, GetLease, LinkLost, LeaseLost, Leaving
<1>2. CASE Handler
  BY <1>2
  DEF Handler, TakeEvent, HandleStart, HandleGotIp, HandleDisconnected, HandleClear,
      HandleLostIp, HandleReconnect, EspConnect, EspDisconnect, Leaving
<1>3. CASE App
  <2>1. lease' = "held" => link' = "up"
    BY <1>3
    DEF App, Continue, ConnectTo, ConnectStored, StartAwait, UnsetCallback, Load, SetCallback,
        SetConfig, Connect, Save, Poll, Disconnect, Clear, SetChannel, EspConnect,
        EspDisconnect, Leaving
  <2>2. app' \in {"disconnect", "clear", "set_channel"} => ~callback'
    BY <1>3
    DEF App, Continue, ConnectTo, ConnectStored, StartAwait, UnsetCallback, Load, SetCallback,
        SetConfig, Connect, Save, Poll, Disconnect, Clear, SetChannel, Leaving
  <2> QED BY <2>1, <2>2 DEF Leaving
<1>4. CASE ReachChanges \/ Erase \/ Restart \/ UNCHANGED vars
  BY <1>4 DEF ReachChanges, Erase, Restart, vars, Leaving
<1> QED BY <1>1, <1>2, <1>3, <1>4 DEF Next

LEMMA DriverAwake == ASSUME IInv, Leaving, Awake, Driver PROVE Awake'
<1>0. UNCHANGED <<callback, handler, flag, app, late>>
  BY DEF Driver
<1>1. CASE Associate
  BY <1>0, <1>1 DEF Associate, Leaving, Awake
<1>2. CASE GetLease
  <2>1. /\ "got_ip" \in Events /\ events \in Seq(Events) /\ Post("got_ip")
        /\ link' = "up"
    BY <1>2 DEF Events, IInv, TypeOK, GetLease
  <2>2. Range(events') = Range(events) \cup {"got_ip"}
    BY <2>1, PushEvent
  <2>3. FollowedBy(events', "disconnected", Regained)
    BY <2>1, AppendFollowed DEF Regained
  <2> QED BY <1>0, <2>1, <2>2, <2>3 DEF Awake
<1>3. CASE LinkLost
  <2>1. "disconnected" \in Range(events') /\ link' = "down"
    BY <1>3, DropTold DEF LinkLost, IInv
  <2> QED BY <1>0, <2>1 DEF Awake
<1>4. CASE LeaseLost
  <2>1. "lost_ip" \in Events /\ events \in Seq(Events)
    BY DEF Events, IInv, TypeOK
  <2>2. Range(events') = Range(events) \cup {"lost_ip"}
    BY <1>4, <2>1, PushEvent DEF LeaseLost
  <2>3. link' = link /\ lease' = "none"
    BY <1>4 DEF LeaseLost
  <2> QED BY <1>0, <2>2, <2>3 DEF Awake
<1> QED BY <1>1, <1>2, <1>3, <1>4 DEF Driver

LEMMA HandlerAwake == ASSUME IInv, Leaving, Awake, Handler PROVE Awake'
<1>0. UNCHANGED <<callback, app, late>>
  BY DEF Handler
<1>1. CASE TakeEvent
  <2>1. /\ events \in Seq(Events) /\ events # <<>> /\ events' = Tail(events)
        /\ UNCHANGED <<link, lease, flag>>
        /\ handler = "idle" /\ handler' = IF callback THEN Head(events) ELSE "idle"
    BY <1>1 DEF TakeEvent, IInv, TypeOK
  <2>2. Range(events) = Range(events') \cup {Head(events)}
    BY <2>1, PopEvent
  <2>3. FollowedBy(events, "disconnected", Regained) =>
          /\ FollowedBy(events', "disconnected", Regained)
          /\ Head(events) = "disconnected" => "got_ip" \in Range(events')
    BY <2>1, TailFollowed DEF Regained
  <2> DEFINE e == Head(events)
  <2> HIDE DEF e
  <2>4. ASSUME callback, ~late PROVE Awake'
    <3>1. handler' = e /\ handler = "idle" /\ Range(events) = Range(events') \cup {e}
      BY <2>1, <2>2, <2>4 DEF e
    <3>2. link = "down" /\ app \notin {"set_config", "connect"}
          => "disconnected" \in Range(events') \/ handler' = "disconnected"
      BY <2>4, <3>1 DEF Awake
    <3>3. link = "up" /\ lease = "held"
          => /\ FollowedBy(events', "disconnected", Regained)
             /\ handler' = "disconnected" => "got_ip" \in Range(events')
             /\ flag \/ "got_ip" \in Range(events') \/ handler' = "got_ip"
      BY <2>3, <2>4, <3>1 DEF Awake, e
    <3>4. handler' # "clear"
      <4>1. e \in Events
        BY <2>1, PopEvent DEF e
      <4> QED BY <3>1, <4>1 DEF Events
    <3> QED BY <1>0, <2>1, <3>2, <3>3, <3>4 DEF Awake
  <2> QED BY <1>0, <2>4 DEF Awake, IInv, TypeOK
<1>2. CASE HandleStart \/ HandleDisconnected \/ HandleReconnect
  <2>1. /\ link' = (IF link = "down" THEN "connecting" ELSE link)
        /\ UNCHANGED <<lease, events, flag>> /\ handler' \in {"idle", "clear"}
        /\ handler # "got_ip"
        /\ handler' = "clear" => handler = "disconnected"
    BY <1>2 DEF HandleStart, HandleDisconnected, HandleReconnect, EspConnect
  <2> QED BY <1>0, <2>1 DEF Awake
<1>3. CASE HandleGotIp \/ HandleClear
  BY <1>0, <1>3 DEF HandleGotIp, HandleClear, Awake
<1>4. CASE HandleLostIp
  <2>1. CASE link = "down"
    BY <1>0, <1>4, <2>1 DEF HandleLostIp, EspDisconnect, Awake
  <2>2. CASE link # "down"
    <3>1. "disconnected" \in Range(events') /\ link' = "down"
      BY <1>4, <2>2, DropTold DEF HandleLostIp, EspDisconnect, IInv
    <3> QED BY <1>0, <3>1 DEF Awake
  <2> QED BY <2>1, <2>2
<1> QED BY <1>1, <1>2, <1>3, <1>4 DEF Handler

LEMMA AppAwake == ASSUME IInv, Leaving, Awake, App PROVE Awake'
<1>0. handler' = handler
  BY DEF App
<1>1. CASE SetCallback
  <2>1. /\ UNCHANGED <<driver, flag, late>> /\ app = "set_cb" /\ app' = "set_config"
    BY <1>1 DEF SetCallback
  <2>2. CASE callback
    BY <1>0, <2>1, <2>2 DEF Awake
  <2>3. CASE ~callback
    <3>1. ~late => link = "down"
      BY <2>1, <2>3 DEF IInv, Quiet
    <3> QED BY <2>1, <3>1 DEF Awake
  <2> QED BY <2>2, <2>3
<1>2. CASE Connect
  BY <1>0, <1>2 DEF Connect, EspConnect, Awake
<1>3. CASE SetConfig
  BY <1>0, <1>3 DEF SetConfig, Awake
<1>4. CASE (\E r \in BOOLEAN : UnsetCallback(r)) \/ Disconnect \/ Clear \/ SetChannel
  <2>1. ~callback'
    BY <1>4 DEF UnsetCallback, Disconnect, Clear, SetChannel, Leaving
  <2> QED BY <2>1 DEF Awake
<1>5. CASE \/ \E c \in Configs : ConnectTo(c)
           \/ \E t \in Waits \ {0} : StartAwait(t)
           \/ ConnectStored \/ Load \/ Save \/ Poll
  <2>1. /\ UNCHANGED <<driver, callback, flag, late>>
        /\ app \notin {"set_config", "connect"}
    BY <1>5 DEF ConnectTo, StartAwait, ConnectStored, Load, Save, Poll
  <2> QED BY <1>0, <2>1 DEF Awake
<1> QED BY <1>1, <1>2, <1>3, <1>4, <1>5 DEF App, Continue

(* While the application wants the station connected, no sequence of       *)
(* events leaves it down, or connected without the flag that says so, with *)
(* nothing on its way to change that.                                      *)
THEOREM NobodyIsStranded == Spec => []NotStranded
<1>1. Init => Awake /\ Leaving
  BY DEF Init, Awake, Leaving
<1>2. IInv /\ Leaving /\ Awake /\ [Next]_vars => Awake'
  <2>1. IInv /\ Leaving /\ Awake /\ (ReachChanges \/ Erase \/ UNCHANGED vars) => Awake'
    BY DEF ReachChanges, Erase, vars, Awake
  <2>2. Restart => Awake'
    BY DEF Restart, Awake
  <2> QED BY <2>1, <2>2, DriverAwake, HandlerAwake, AppAwake DEF Next
<1>3. TypeOK /\ Leaving /\ [Next]_vars => Leaving'
  BY LeavingStep
<1>4. Awake => NotStranded
  BY DEF Awake, NotStranded
<1> QED BY Invariance, StationTypeOK, <1>1, <1>2, <1>3, <1>4, PTL DEF Spec
=============================================================================
