------------------------------ MODULE WifiStation ------------------------------
(***************************************************************************)
(* The Wi-Fi station of std_wifi.c.  The application task connects, waits, *)
(* disconnects and returns to the ESP-NOW channel; wifi_event_handler runs *)
(* in the event task, on events queued by the Wi-Fi driver, whose link and *)
(* address lease are the environment; g_is_connect is what the handler and *)
(* the application make of it without a lock.  The credentials are in NVS. *)
(***************************************************************************)
EXTENDS Integers, Sequences, Functions

CONSTANTS Configs,    \* ssid and password pairs the application passes
          Blank,      \* wifi_config_t wifi_config = {0}
          Oversize,   \* a blob longer than wifi_config_t, of another firmware
          Absent,     \* no blob
          MaxEvents,  \* bound: events queued when the environment adds one,
                      \* or the application begins to disconnect
          MaxPolls,   \* bound: time_s of std_wifi_await_connect
          Forever     \* time_s = 0

ASSUME WifiAssumption ==
  /\ MaxEvents \in Nat \ {0} /\ MaxPolls \in Nat /\ Forever \notin Nat
  /\ Blank \notin Configs /\ {Oversize, Absent} \cap (Configs \cup {Blank}) = {}

VARIABLES
  link, lease,   \* the driver's association and DHCP lease
  channel,       \* whose channel the radio is on
  config,        \* what esp_wifi_set_config last set
  events,        \* the event queue
  reach,         \* environment: the access point answers and renews leases
  callback,      \* esp_event_loop_set_cb: wifi_event_handler or NULL
  handler,       \* where the event task is
  flag,          \* g_is_connect
  stored,        \* the blob under KEY_WIFI
  app, cfg, left,\* the application's place, wifi_config and seconds to wait
  restoring,     \* it disconnects on behalf of std_wifi_restore
  late           \* history: a handler was running when the callback was unset

driver == <<link, lease, channel, events>>
appVars == <<app, cfg, left, restoring>>
vars == <<driver, config, reach, callback, handler, flag, stored, appVars, late>>

Waits == 0..MaxPolls \cup {Forever}
Events == {"start", "got_ip", "disconnected", "lost_ip"}

TypeOK ==
  /\ link \in {"down", "connecting", "up"} /\ lease \in {"none", "held", "old"}
  /\ channel \in {"default", "ap"} /\ config \in Configs \cup {Blank}
  /\ events \in Seq(Events) /\ Len(events) <= MaxEvents + 2
  /\ reach \in BOOLEAN /\ callback \in BOOLEAN /\ flag \in BOOLEAN
  /\ handler \in Events \cup {"idle", "clear", "reconnect"}
  /\ stored \in Configs \cup {Blank, Oversize, Absent}
  /\ app \in {"idle", "load", "set_cb", "set_config", "connect", "save", "await",
              "disconnect", "clear", "set_channel"}
  /\ cfg \in Configs \cup {Blank} /\ left \in Waits
  /\ restoring \in BOOLEAN /\ late \in BOOLEAN

Init == \* after std_wifi_init: the driver is started, no callback is set
  /\ link = "down" /\ lease = "none" /\ channel = "default" /\ config = Blank
  /\ events = <<"start">> /\ callback = FALSE /\ handler = "idle" /\ flag = FALSE
  /\ app = "idle" /\ cfg = Blank /\ left = 0 /\ restoring = FALSE /\ late = FALSE
  /\ reach \in BOOLEAN /\ stored \in Configs \cup {Oversize, Absent}
-----------------------------------------------------------------------------
(* The driver.  esp_wifi_connect while it is connecting or connected, and  *)
(* esp_wifi_disconnect while it is not, are refused.                       *)
Post(e) == events' = Append(events, e)
Room == Len(events) < MaxEvents
GoDown == link' = "down" /\ lease' = IF lease = "held" THEN "old" ELSE lease

EspConnect == /\ link' = IF link = "down" THEN "connecting" ELSE link
              /\ UNCHANGED <<lease, channel, events>>
EspDisconnect == /\ IF link = "down" THEN UNCHANGED <<link, lease, events>>
                                     ELSE GoDown /\ Post("disconnected")
                 /\ UNCHANGED channel

Associate ==
  /\ link = "connecting" /\ reach /\ config # Blank
  /\ link' = "up" /\ channel' = "ap" /\ UNCHANGED <<lease, events>>

GetLease == /\ link = "up" /\ lease # "held" /\ reach
            /\ lease' = "held" /\ Room /\ Post("got_ip") /\ UNCHANGED <<link, channel>>

LinkLost == /\ link # "down" /\ (~reach \/ config = Blank)
            /\ GoDown /\ Room /\ Post("disconnected") /\ UNCHANGED channel

\* The lease runs out, or the lost-ip timer of an old one does, which is
\* longer than a reassociation takes while the access point is in reach.
LeaseLost ==
  /\ lease # "none" /\ ~reach
  /\ lease' = "none" /\ Room /\ Post("lost_ip") /\ UNCHANGED <<link, channel>>

Driver == /\ Associate \/ GetLease \/ LinkLost \/ LeaseLost
          /\ UNCHANGED <<config, reach, callback, handler, flag, stored, appVars, late>>

ReachChanges ==
  /\ reach' = ~reach
  /\ UNCHANGED <<driver, config, callback, handler, flag, stored, appVars, late>>
-----------------------------------------------------------------------------
(* The event task: an event without a callback is dropped.                 *)
TakeEvent ==
  /\ handler = "idle" /\ events # <<>> /\ events' = Tail(events)
  /\ handler' = IF callback THEN Head(events) ELSE "idle"
  /\ UNCHANGED <<link, lease, channel, flag>>

HandleStart ==
  /\ handler = "start" /\ handler' = "idle" /\ EspConnect /\ UNCHANGED flag

HandleGotIp == /\ handler = "got_ip" /\ handler' = "idle"
               /\ flag' = TRUE /\ UNCHANGED driver

\* Mutants of HandleDisconnected: no reconnect; the flag is left alone.
HandleDisconnectedGivesUp == /\ handler = "disconnected" /\ handler' = "clear"
                             /\ UNCHANGED <<driver, flag>>
HandleDisconnectedKeepsFlag ==
  /\ handler = "disconnected" /\ handler' = "idle" /\ EspConnect /\ UNCHANGED flag

HandleDisconnected == /\ handler = "disconnected" /\ handler' = "clear"
                      /\ EspConnect /\ UNCHANGED flag

HandleClear == /\ handler = "clear" /\ handler' = "idle"
               /\ flag' = FALSE /\ UNCHANGED driver

HandleLostIp == /\ handler = "lost_ip" /\ handler' = "reconnect"
                /\ EspDisconnect /\ UNCHANGED flag

HandleReconnect ==
  /\ handler = "reconnect" /\ handler' = "idle" /\ EspConnect /\ UNCHANGED flag

Handler ==
  /\ \/ TakeEvent \/ HandleStart \/ HandleGotIp \/ HandleDisconnected
     \/ HandleClear \/ HandleLostIp \/ HandleReconnect
  /\ UNCHANGED <<config, reach, callback, stored, appVars, late>>
-----------------------------------------------------------------------------
(* The application.                                                        *)
Goto(from, to) == app = from /\ app' = to

ConnectTo(c) == /\ Goto("idle", "set_cb") /\ cfg' = c
                /\ UNCHANGED <<driver, config, callback, flag, stored, left, restoring, late>>

ConnectStored == \* NULL, NULL: std_nvs_is_exist, or return
  /\ stored # Absent /\ Goto("idle", "load") /\ cfg' = Blank
  /\ UNCHANGED <<driver, config, callback, flag, stored, left, restoring, late>>

\* std_nvs_load, its result ignored: what cannot be read leaves the zeros.
Load == /\ Goto("load", "set_cb") /\ cfg' \in {Blank} \cup ({stored} \cap Configs)
        /\ UNCHANGED <<driver, config, callback, flag, stored, left, restoring, late>>

SetCallback ==
  /\ Goto("set_cb", "set_config") /\ callback' = TRUE
  /\ UNCHANGED <<driver, config, flag, stored, cfg, left, restoring, late>>

SetConfig == /\ Goto("set_config", "connect") /\ config' = cfg
             /\ UNCHANGED <<driver, callback, flag, stored, cfg, left, restoring, late>>

Connect == /\ Goto("connect", "save") /\ EspConnect
           /\ UNCHANGED <<config, callback, flag, stored, cfg, left, restoring, late>>

\* std_nvs_save, which may fail.
Save == /\ Goto("save", "idle") /\ stored' \in {stored, cfg}
        /\ UNCHANGED <<driver, config, callback, flag, cfg, left, restoring, late>>

StartAwait(t) == \* std_wifi_await_connect
  /\ Goto("idle", "await") /\ left' = t
  /\ UNCHANGED <<driver, config, callback, flag, stored, cfg, restoring, late>>

Poll == \* connected, or the last second is over; a poll for ever just repeats
  /\ \/ (flag \/ left = 0) /\ Goto("await", "idle") /\ left' = 0
     \/ ~flag /\ left \in 1..MaxPolls /\ Goto("await", "await") /\ left' = left - 1
  /\ UNCHANGED <<driver, config, callback, flag, stored, cfg, restoring, late>>

UnsetCallback(r) == \* std_wifi_disconnect, from std_wifi_restore if r
  /\ Room /\ Goto("idle", "disconnect") /\ callback' = FALSE /\ restoring' = r
  /\ late' = (handler # "idle")
  /\ UNCHANGED <<driver, config, flag, stored, cfg, left>>

\* Mutant of Disconnect: the link is left up.
DisconnectSkipped ==
  /\ Goto("disconnect", "clear")
  /\ UNCHANGED <<driver, config, callback, flag, stored, cfg, left, restoring, late>>

Disconnect ==
  /\ Goto("disconnect", "clear") /\ EspDisconnect
  /\ UNCHANGED <<config, callback, flag, stored, cfg, left, restoring, late>>

Clear == /\ Goto("clear", IF restoring THEN "set_channel" ELSE "idle") /\ flag' = FALSE
         /\ UNCHANGED <<driver, config, callback, stored, cfg, left, restoring, late>>

SetChannel == /\ Goto("set_channel", "idle") /\ channel' = "default"
              /\ UNCHANGED <<link, lease, events, config, callback, flag, stored, cfg,
                             left, restoring, late>>

Continue == \/ Load \/ SetCallback \/ SetConfig \/ Connect \/ Save \/ Poll
            \/ Disconnect \/ Clear \/ SetChannel

App == /\ \/ \E c \in Configs : ConnectTo(c)
          \/ ConnectStored \/ Continue
          \/ \E t \in Waits \ {0} : StartAwait(t)
          \/ \E r \in BOOLEAN : UnsetCallback(r)
       /\ UNCHANGED <<reach, handler>>

Erase == \* std_nvs_erase, in another task
  /\ stored' = Absent
  /\ UNCHANGED <<driver, config, reach, callback, handler, flag, appVars, late>>

Restart ==
  /\ link' = "down" /\ lease' = "none" /\ channel' = "default" /\ config' = Blank
  /\ events' = <<"start">> /\ callback' = FALSE /\ handler' = "idle" /\ flag' = FALSE
  /\ app' = "idle" /\ cfg' = Blank /\ left' = 0 /\ restoring' = FALSE /\ late' = FALSE
  /\ UNCHANGED <<reach, stored>>

Next == Driver \/ ReachChanges \/ Handler \/ App \/ Erase \/ Restart
Spec == Init /\ [][Next]_vars

Fairness == /\ WF_vars(Driver) /\ WF_vars(Handler)
            /\ WF_vars(Continue /\ UNCHANGED <<reach, handler>>)
FairSpec == Spec /\ Fairness
-----------------------------------------------------------------------------
(* When std_wifi_disconnect has returned the station stays away, and after *)
(* std_wifi_restore it stays on the ESP-NOW channel, whatever events were  *)
(* queued: only a handler that was already running can bring it back.      *)
DisconnectHolds ==
  app \in {"idle", "await"} /\ ~callback /\ ~late =>
    /\ link = "down" /\ ~flag
    /\ restoring => channel = "default"

(* g_is_connect may lag behind the link, but not for ever: while it is set *)
(* the station has its address, or what took it away is on its way to the  *)
(* handler.                                                                *)
FlagIsFresh ==
  flag /\ ~late /\ app \notin {"disconnect", "clear"} =>
    \/ link = "up" /\ lease = "held"
    \/ "disconnected" \in Range(events) \/ "lost_ip" \in Range(events)
    \/ handler \in {"disconnected", "clear", "lost_ip", "reconnect"}

(* A station that is to be connected is never stranded: if its link is     *)
(* down the handler has still to be told, or to reconnect it; and if it is *)
(* connected while g_is_connect is not set, the event that sets it is on   *)
(* its way.                                                                *)
NotStranded ==
  callback /\ ~late =>
    /\ link = "down" /\ app \notin {"set_config", "connect"} =>
         "disconnected" \in Range(events) \/ handler \in {"disconnected", "reconnect"}
    /\ link = "up" /\ lease = "held" /\ ~flag =>
         "got_ip" \in Range(events) \/ handler = "got_ip"

Settled == /\ reach /\ callback /\ ~late /\ config # Blank
           /\ app \in {"idle", "await"}

(* Once the access point stays in reach and the application leaves the     *)
(* station alone, it ends up connected, whatever was lost before, and      *)
(* every std_wifi_await_connect returns.                                   *)
Reassociates == <>[]Settled => <>[]flag /\ []<>(app = "idle")
=============================================================================
