------------------------------- MODULE KeyScan -------------------------------
(***************************************************************************)
(* std_key.c: an edge of any key gives a binary semaphore from the         *)
(* interrupt; loop_task takes it and polls every key for a fixed number of *)
(* rounds, measures presses, and posts one event per debounced press to a  *)
(* bounded queue that std_wait_event reads.                                *)
(***************************************************************************)
EXTENDS Naturals, Sequences

CONSTANTS Keys,      \* the gpio numbers keys may be added for
          Shake,     \* shake_time_ms of each key, in polling rounds
          Rounds,    \* CHECK_TOTAL_MS / CHECK_PEROID_MS
          QueueSize, \* QUEUE_SIZE
          MaxHold,   \* bound: longer presses are not told apart
          NoKey

ASSUME KeyAssumption ==
  /\ Keys \subseteq Nat /\ NoKey \notin Keys
  /\ MaxHold \in Nat /\ Shake \in [Keys -> 0..(MaxHold - 1)]
  /\ Rounds \in Nat \ {0} /\ QueueSize \in Nat \ {0}

VARIABLES
  down,         \* keys whose level is 0
  setup,        \* how far std_key_add has come with each key
  pressed,      \* keys whose last_status is STATUS_PRESS
  hold,         \* press_tims_ms, in rounds
  isr, sem,     \* interrupt pending; g_loop_run_sem
  loop, left, todo, at, \* loop_task: rounds left, keys to poll, key it posts
  queue,        \* g_key_queue: key and time_hold_ms of each event
  edged,        \* history: keys with an edge since they were hooked
  early         \* history: keys polled before std_key_add was done with them

infoVars == <<setup, pressed, hold>>
keyHistory == <<edged, early>>
taskVars == <<loop, left, todo, at>>
keyVars == <<down, infoVars, isr, sem, taskVars, queue, keyHistory>>

Added == {k \in Keys : setup[k] # "none"}    \* g_info[k] is not NULL
Hooked == {k \in Keys : setup[k] = "hooked"}
\* shake_time_ms, which is zero until std_key_add sets it
ShakeTime(k) == IF setup[k] = "published" THEN 0 ELSE Shake[k]

KeyTypeOK ==
  /\ down \subseteq Keys /\ pressed \subseteq Keys
  /\ setup \in [Keys -> {"none", "published", "timed", "filled", "hooked"}]
  /\ edged \subseteq Hooked /\ early \subseteq Added
  /\ hold \in [Keys -> 0..MaxHold] /\ isr \in BOOLEAN /\ sem \in {0, 1}
  /\ loop \in {"wait", "scan", "post"} /\ left \in 0..Rounds
  /\ todo \subseteq Keys /\ at \in Keys \cup {NoKey}
  /\ queue \in Seq([io : Keys, hold : 0..MaxHold]) /\ Len(queue) <= QueueSize

KeyInit ==
  /\ down = {} /\ setup = [k \in Keys |-> "none"] /\ pressed = {} /\ hold = [k \in Keys |-> 0]
  /\ isr = FALSE /\ sem = 0 /\ loop = "wait" /\ left = 0 /\ todo = {}
  /\ at = NoKey /\ queue = <<>> /\ edged = {} /\ early = {}

\* std_key_add: the new record is in g_info before its fields are filled in,
\* and a zero in last_status is STATUS_PRESS; the interrupt is hooked last.
SetupGoes(k, from, to) == setup[k] = from /\ setup' = [setup EXCEPT ![k] = to]

Publish(k) ==
  /\ SetupGoes(k, "none", "published")
  /\ pressed' = pressed \cup {k} /\ hold' = [hold EXCEPT ![k] = 0]

SetShake(k) == SetupGoes(k, "published", "timed") /\ UNCHANGED <<pressed, hold>>

\* STATUS_RELEASE whatever the level of the pin is.
SetStatus(k) ==
  SetupGoes(k, "timed", "filled") /\ pressed' = pressed \ {k} /\ UNCHANGED hold

HookIsr(k) == SetupGoes(k, "filled", "hooked") /\ UNCHANGED <<pressed, hold>>

KeyAdd(k) == /\ Publish(k) \/ SetShake(k) \/ SetStatus(k) \/ HookIsr(k)
             /\ UNCHANGED <<down, isr, sem, taskVars, queue, keyHistory>>

Edge(k) ==
  /\ down' = IF k \in down THEN down \ {k} ELSE down \cup {k}
  /\ isr' = (isr \/ k \in Hooked) /\ edged' = edged \cup ({k} \cap Hooked)
  /\ UNCHANGED <<infoVars, sem, taskVars, queue, early>>

IsrHandler ==
  /\ isr /\ isr' = FALSE /\ sem' = 1
  /\ UNCHANGED <<down, infoVars, taskVars, queue, keyHistory>>

\* loop_task
TakeSem ==
  /\ loop = "wait" /\ sem = 1
  /\ sem' = 0 /\ loop' = "scan" /\ left' = Rounds /\ todo' = Keys
  /\ UNCHANGED <<down, infoVars, isr, at, queue, keyHistory>>

\* status_judge of the next key, in the order of the gpio numbers.
Poll(k) ==
  /\ loop = "scan" /\ k \in todo /\ \A j \in todo : k <= j
  /\ todo' = todo \ {k}
  /\ early' = IF k \in Added \ Hooked THEN early \cup {k} ELSE early
  /\ UNCHANGED <<down, setup, isr, sem, left, queue, edged>>

Skip(k) ==
  /\ Poll(k) /\ (k \in Added => k \notin pressed /\ k \notin down)
  /\ UNCHANGED <<pressed, hold, loop, at>>

PressStart(k) ==
  /\ Poll(k) /\ k \in Added /\ k \in down /\ k \notin pressed
  /\ pressed' = pressed \cup {k} /\ hold' = [hold EXCEPT ![k] = 0]
  /\ UNCHANGED <<loop, at>>

PressGoesOn(k) ==
  /\ Poll(k) /\ k \in Added /\ k \in down /\ k \in pressed
  /\ hold' = [hold EXCEPT ![k] = IF @ < MaxHold THEN @ + 1 ELSE @]
  /\ UNCHANGED <<pressed, loop, at>>

\* Mutant of PressEnd: a long press is dropped while the queue is full.
PressEndDrops(k) ==
  /\ Poll(k) /\ k \in Added /\ k \notin down /\ k \in pressed
  /\ IF hold[k] > ShakeTime(k) /\ Len(queue) < QueueSize
     THEN loop' = "post" /\ at' = k /\ UNCHANGED pressed
     ELSE pressed' = pressed \ {k} /\ UNCHANGED <<loop, at>>
  /\ UNCHANGED hold

\* Mutant of PressEnd: a press of exactly the debounce time is reported.
PressEndAtLimit(k) ==
  /\ Poll(k) /\ k \in Added /\ k \notin down /\ k \in pressed
  /\ IF hold[k] >= ShakeTime(k)
     THEN loop' = "post" /\ at' = k /\ UNCHANGED pressed
     ELSE pressed' = pressed \ {k} /\ UNCHANGED <<loop, at>>
  /\ UNCHANGED hold

\* press_time_handle: too short, or an event to post.
PressEnd(k) ==
  /\ Poll(k) /\ k \in Added /\ k \notin down /\ k \in pressed
  /\ IF hold[k] > ShakeTime(k)
     THEN loop' = "post" /\ at' = k /\ UNCHANGED pressed
     ELSE pressed' = pressed \ {k} /\ UNCHANGED <<loop, at>>
  /\ UNCHANGED hold

\* xQueueSend(.., portMAX_DELAY); last_status is set only afterwards.
Post ==
  /\ loop = "post" /\ Len(queue) < QueueSize
  /\ queue' = Append(queue, [io |-> at, hold |-> hold[at]])
  /\ pressed' = pressed \ {at} /\ loop' = "scan" /\ at' = NoKey
  /\ UNCHANGED <<down, setup, hold, isr, sem, left, todo, keyHistory>>

\* Mutant of EndRound: edges seen during the scan are forgotten at its end.
EndRoundDrains ==
  /\ loop = "scan" /\ todo = {} /\ left' = left - 1
  /\ IF left > 1 THEN todo' = Keys /\ UNCHANGED <<loop, sem>>
                 ELSE loop' = "wait" /\ sem' = 0 /\ UNCHANGED todo
  /\ UNCHANGED <<down, infoVars, isr, at, queue, keyHistory>>

EndRound == \* vTaskDelay(CHECK_PEROID_MS)
  /\ loop = "scan" /\ todo = {} /\ left' = left - 1
  /\ IF left > 1 THEN todo' = Keys /\ UNCHANGED loop
                 ELSE loop' = "wait" /\ UNCHANGED todo
  /\ UNCHANGED <<down, infoVars, isr, sem, at, queue, keyHistory>>

WaitEvent == \* std_wait_event
  /\ queue # <<>> /\ queue' = Tail(queue)
  /\ UNCHANGED <<down, infoVars, isr, sem, taskVars, keyHistory>>

StatusJudge(k) == Skip(k) \/ PressStart(k) \/ PressGoesOn(k) \/ PressEnd(k)
LoopTask == TakeSem \/ Post \/ EndRound \/ \E k \in Keys : StatusJudge(k)

KeyNext ==
  \/ \E k \in Keys : KeyAdd(k) \/ Edge(k)
  \/ IsrHandler \/ LoopTask \/ WaitEvent

KeySpec == KeyInit /\ [][KeyNext]_keyVars

\* Interrupts are served, loop_task runs, the application reads its events.
KeyFairSpec ==
  /\ KeySpec /\ WF_keyVars(IsrHandler) /\ WF_keyVars(LoopTask)
  /\ WF_keyVars(WaitEvent)
-----------------------------------------------------------------------------
(* No edge is missed: whenever the level of a key and its recorded status  *)
(* disagree, the poll that will notice is already due in this scan, or the *)
(* semaphore or a pending interrupt will start another scan.               *)
EdgeNotMissed ==
  \A k \in edged : (k \in down) # (k \in pressed) =>
    \/ isr \/ sem = 1
    \/ loop # "wait" /\ (left > 1 \/ k \in todo \/ k = at)

(* No event is reported for a bounce: every queued one lasted longer than  *)
(* the debounce time its key was added with, also while keys are added and *)
(* the scan runs; only a key polled before std_key_add was done with it is *)
(* an exception.                                                           *)
EventIsDebounced ==
  \A i \in DOMAIN queue :
    queue[i].io \in early \/ queue[i].hold > Shake[queue[i].io]

(* A press that has lasted longer than the debounce time is not given up:  *)
(* its count only grows, whatever the pin does meanwhile, until it becomes *)
(* an event that carries that count, also when the queue is full; only a   *)
(* key polled before std_key_add was done with it is an exception.         *)
LongPressKept ==
  [][\A k \in Keys \ early : k \in pressed /\ hold[k] > Shake[k] =>
       \/ k \in pressed' /\ hold'[k] >= hold[k]
       \/ queue' = Append(queue, [io |-> k, hold |-> hold[k]])]_keyVars

(* A press longer than the debounce time whose release is not bounced away *)
(* is reported, however long it lasted and whatever the other keys do; but *)
(* the release of a key polled before its interrupt was hooked can be lost.*)
LongPressReported ==
  \A k \in Keys :
    (k \in Hooked \ early /\ k \in pressed /\ k \notin down /\ hold[k] > Shake[k])
      ~> (k \in down \/ \E i \in DOMAIN queue : queue[i].io = k)
=============================================================================
