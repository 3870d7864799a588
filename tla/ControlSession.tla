---------------------------- MODULE ControlSession ----------------------------
(***************************************************************************)
(* The controlling device: the console task of std_rdebug.c over the       *)
(* rdebug_* functions of std_rdebug_protocol.c.  One task runs one command *)
(* after another; its peer is added to the driver, and set_mac sweeps the  *)
(* Wi-Fi channels with blocking writes, whose result is the fate of the    *)
(* frame (module EspNowSend).                                              *)
(***************************************************************************)
EXTENDS Naturals

CONSTANTS Macs,     \* the targets' addresses
          Channels, \* number of channels the sweep tries (13)
          Chan,     \* Chan[m]: the channel target m listens on
          Null

ASSUME SessionAssumption ==
  /\ Channels \in Nat \ {0} /\ Chan \in [Macs -> 1..Channels] /\ Null \notin Macs

VARIABLES
  peer,           \* peer, by its address
  table,          \* the driver's peers
  channel,        \* esp_wifi_set_channel
  step, op,         \* console task: step, command
  n,              \* loop variable of the sweep
  told,           \* what the console printed last
  got,            \* history: targets this command's frame has reached
  acked           \* history: channels on which its frame was acknowledged

sessionVars == <<peer, table, channel, step, op, n, told, got, acked>>

Sweeps == {"set_mac", "unset_mac"}
Sends == {"set_log", "send_debug"}

SessionTypeOK ==
  /\ peer \in Macs \cup {Null} /\ table \subseteq Macs
  /\ channel \in 1..Channels /\ n \in 1..Channels
  /\ step \in {"idle", "tune", "write", "send", "stuck"}
  /\ op \in Sweeps \cup Sends
  /\ told \in {"nothing", "refused", "connect", "cannot", "sent", "fail"}
  /\ got \subseteq Macs /\ acked \subseteq 1..Channels

SessionInit ==
  /\ peer = Null /\ table = {} /\ channel = 1 /\ n = 1
  /\ step = "idle" /\ op = "set_mac" /\ told = "nothing"
  /\ got = {} /\ acked = {}

StepTo(from, to) == step = from /\ step' = to

Command(c) == step = "idle" /\ op' = c /\ got' = {} /\ acked' = {}

\* No such command, arguments that do not parse, or a level above 6: the task
\* says so and reads the next line.
Refuse ==
  /\ step = "idle" /\ told' = "refused"
  /\ UNCHANGED <<peer, table, channel, step, op, n, got, acked>>

\* Mutant of Sweep: the old peer is not deleted.
SweepKeepsOld(c, m) ==
  /\ c \in Sweeps /\ Command(c) /\ told' = "nothing" /\ n' = 1
  /\ \/ m \notin table /\ table' = table \cup {m} /\ peer' = m /\ step' = "tune"
     \/ UNCHANGED table /\ peer' = Null /\ step' = "stuck"
  /\ UNCHANGED channel

\* rdebug_set_mac, rdebug_unset_mac: the old peer goes, the new one is added;
\* if the driver refuses it PORT_ASSERT(peer != NULL) puts the task to sleep.
Sweep(c, m) ==
  /\ c \in Sweeps /\ Command(c) /\ told' = "nothing" /\ n' = 1
  /\ \/ /\ m \notin table \ {peer} /\ table' = (table \ {peer}) \cup {m}
        /\ peer' = m /\ step' = "tune"
     \/ table' = table \ {peer} /\ peer' = Null /\ step' = "stuck"
  /\ UNCHANGED channel

Tune ==  \* esp_wifi_set_channel(n, 0)
  /\ StepTo("tune", "write") /\ channel' = n
  /\ UNCHANGED <<peer, table, op, n, told, got, acked>>

\* std_espnow_write(send, true): a frame reaches the target on its channel or
\* is lost, and so is its acknowledgement.  The result is 0 iff acknowledged.
Transmit(ack) ==
  /\ \E received \in {FALSE, Chan[peer] = channel} :
       /\ ack => received
       /\ got' = IF received THEN got \cup {peer} ELSE got
  /\ acked' = IF ack THEN acked \cup {n} ELSE acked

Answer(what) == step' = "idle" /\ told' = what /\ UNCHANGED n

\* if(std_espnow_write(send, true)) { res = 0; break; }
SweepWrite ==
  /\ step = "write"
  /\ \E ack \in BOOLEAN :
       /\ Transmit(ack)
       /\ IF ~ack THEN Answer("connect")
          ELSE IF n = Channels THEN Answer("cannot")
          ELSE n' = n + 1 /\ step' = "tune" /\ UNCHANGED told
  /\ UNCHANGED <<peer, table, channel, op>>

\* rdebug_set_log, rdebug_send_debug: one frame to the peer, if there is one.
Send(c) ==
  /\ c \in Sends /\ Command(c)
  /\ IF peer = Null THEN Answer("fail")
                    ELSE step' = "send" /\ told' = "nothing" /\ UNCHANGED n
  /\ UNCHANGED <<peer, table, channel>>

\* Mutant of SendWrite: the result of the write is ignored.
SendWriteIgnored ==
  /\ step = "send"
  /\ \E ack \in BOOLEAN : Transmit(ack) /\ Answer("sent")
  /\ UNCHANGED <<peer, table, channel, op>>

SendWrite ==
  /\ step = "send"
  /\ \E ack \in BOOLEAN : Transmit(ack) /\ Answer(IF ack THEN "sent" ELSE "fail")
  /\ UNCHANGED <<peer, table, channel, op>>

\* std_wifi_connect and std_wifi_restore change the channel at any moment.
Retune ==
  /\ channel' \in 1..Channels
  /\ UNCHANGED <<peer, table, step, op, n, told, got, acked>>

SessionNext == \/ \E c \in Sweeps, m \in Macs : Sweep(c, m)
        \/ \E c \in Sends : Send(c)
        \/ Refuse
        \/ Tune \/ SweepWrite \/ SendWrite \/ Retune

SessionSpec == SessionInit /\ [][SessionNext]_sessionVars
-----------------------------------------------------------------------------
(* However often the target is changed and however the additions fail, the *)
(* driver's bounded peer table holds the current target and nothing else.  *)
OneTarget == table = {peer} \ {Null}

(* What the answers of the console mean: "can not connect" is only said    *)
(* after a write was acknowledged on every channel, and a set_log that     *)
(* does not fail has reached the target.                                   *)
AnswersMean ==
  /\ told = "cannot" => acked = 1..Channels /\ peer \in got
  /\ told = "sent" => peer \in got

(* "target mac connect": the target has received the set_mac frame.        *)
ConnectIsReceived == told = "connect" => peer \in got
=============================================================================
