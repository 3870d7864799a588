------------------------------ MODULE TaskProofs ------------------------------
(***************************************************************************)
(* Proofs about the components that are a task of their own with shared    *)
(* data around it: the boot counter, the controlling device's console, the *)
(* key loop, and the log lines every task formats in one buffer.           *)
(***************************************************************************)
EXTENDS RebootCheck, ControlSession, KeyScan, LogFrame, FiniteSetTheorems,
        QueueLemmas

-----------------------------------------------------------------------------
(***************************************************************************)
(* The boot counter, for any number of boots, any uninitialised value and  *)
(* any failures of NVS.                                                    *)
(***************************************************************************)
(* The inductive invariant: the counter never runs ahead of the boots that *)
(* were cut short.  Before this boot has saved, the blob counts only the   *)
(* boots before it; afterwards it may count this one too.                  *)
Blob ==
  stored # Absent =>
    /\ 0 <= stored /\ stored <= short + 1
    /\ cleared => stored = 0
    /\ pc \in {"exist", "load", "save", "first"} => stored <= short

ThisBoot ==
  /\ pc \in {"save", "judge", "erase"} => 1 <= times /\ times <= short + 1
  /\ pc = "erase" => times >= 3
  /\ cleared => pc = "done" /\ short = 0

Counted == tainted \/ (Blob /\ ThisBoot)

RebootInv == TypeOK /\ Counted

LEMMA RebootInitInv == Init => RebootInv
<1> SUFFICES ASSUME Init PROVE RebootInv
  OBVIOUS
<1>1. ~cleared /\ stored = Absent /\ pc = "exist"  BY DEF Init
<1>3. Counted  BY <1>1 DEF Counted, Blob, ThisBoot
<1>2. TypeOK
  <2>1. cleared \in BOOLEAN /\ tainted \in BOOLEAN /\ misread \in BOOLEAN  BY DEF Init
  <2>2. /\ stored \in Int \cup {Absent} /\ settings \in {"set", "erased"}
        /\ pc = "exist" /\ times = 0 /\ app = "run" /\ boots = 0 /\ short = 0
    BY DEF Init
  <2> QED BY <2>1, <2>2 DEF TypeOK
<1> QED BY <1>2, <1>3 DEF RebootInv

(* Every step of the check task, of std_reset and every cut preserve it.   *)
LEMMA RebootStepInv == ASSUME RebootInv, [Next]_vars PROVE RebootInv'
<1> USE RebootAssumption
    DEF RebootInv, TypeOK, Counted, Blob, ThisBoot, Goto, history
<1>1. CASE IsExist  BY <1>1 DEF IsExist
<1>2. CASE Load
  <2>1. CASE stored # Absent /\ times' = stored + 1 /\ UNCHANGED <<tainted, misread>>
    BY <1>2, <2>1 DEF Load
  <2>2. CASE /\ tainted' = TRUE /\ misread' = (stored # Absent)
             /\ \E g \in Garbage : times' = g + 1
    BY <1>2, <2>2 DEF Load
  <2> QED BY <1>2, <2>1, <2>2 DEF Load
<1>3. CASE SaveTimes  BY <1>3 DEF SaveTimes, Save
<1>4. CASE Judge  BY <1>4 DEF Judge
<1>5. CASE Delay  BY <1>5 DEF Delay
<1>6. CASE ClearTimes
  <2>1. /\ pc' = "done" /\ times' = 0 /\ stored' \in {0, stored}
        /\ cleared' = (stored' = 0) /\ tainted' = (tainted /\ ~cleared')
        /\ UNCHANGED <<settings, app, boots, misread>>
    BY <1>6 DEF ClearTimes, Save
  <2>2. CASE cleared'
    <3>1. stored' = 0 /\ short' = 0 /\ ~tainted' /\ cleared' \in BOOLEAN
          /\ tainted' \in BOOLEAN
      BY <1>6, <2>1, <2>2 DEF ClearTimes
    <3>2. Blob' /\ ThisBoot'
      BY <2>1, <3>1
    <3> QED BY <2>1, <3>1, <3>2
  <2>3. CASE ~cleared'
    <3>1. short' = short /\ tainted' = tainted /\ stored' = stored
      BY <1>6, <2>1, <2>3 DEF ClearTimes
    <3>2. cleared' \in BOOLEAN /\ (Blob => Blob') /\ ThisBoot'
      BY <1>6, <2>1, <2>3, <3>1
    <3> QED BY <2>1, <3>1, <3>2
  <2> QED BY <2>2, <2>3
<1>7. CASE CheckErase  BY <1>7 DEF CheckErase, EraseAll
<1>8. CASE Boot
  <2>1. /\ ~cleared' /\ cleared' \in BOOLEAN /\ pc' = "exist" /\ stored' = stored
        /\ tainted' \in BOOLEAN /\ (tainted /\ stored # Absent => tainted')
    BY <1>8 DEF Boot
  <2>2. /\ misread' \in BOOLEAN
        /\ cleared => short' = 0
        /\ ~cleared => short' = short + 1
    BY <1>8 DEF Boot
  <2>3. TypeOK'  BY <1>8, <2>1, <2>2 DEF Boot
  <2>4. Counted'  BY <2>1, <2>2
  <2> QED BY <2>3, <2>4
<1>9. CASE AppReset  BY <1>9 DEF AppReset
<1>10. CASE AppErase  BY <1>10 DEF AppErase, EraseAll
<1>11. CASE Configure  BY <1>11 DEF Configure
<1>12. CASE CheckOpenFails \/ AppOpenFails
  BY <1>12 DEF CheckOpenFails, AppOpenFails
<1>13. CASE UNCHANGED vars  BY <1>13 DEF vars
<1> QED
  BY <1>1, <1>2, <1>3, <1>4, <1>5, <1>6, <1>7, <1>8, <1>9, <1>10, <1>11, <1>12, <1>13
  DEF Next, CheckTask, AppTask, CheckRestart, AppRestart, Cut

LEMMA RebootInductive == Spec => []RebootInv
<1>1. RebootInv /\ [Next]_vars => RebootInv'  BY RebootStepInv
<1> QED BY RebootInitInv, <1>1, PTL DEF Spec

(* The variables keep their types.                                         *)
THEOREM RebootTypes == Spec => []TypeOK
<1>1. RebootInv => TypeOK  BY DEF RebootInv
<1> QED BY RebootInductive, <1>1, PTL

(* The check task erases the settings only after two boots in a row that   *)
(* did not zero the counter, wherever power was cut and whichever call of  *)
(* NVS failed; a count that goes back to a failed load is excepted.        *)
THEOREM EraseEarned == Spec => []EraseIsEarned
<1>1. RebootInv => EraseIsEarned
  BY DEF RebootInv, TypeOK, Counted, ThisBoot, EraseIsEarned
<1> QED BY RebootInductive, <1>1, PTL

(* What the check task does with a count depends on the one it saved, or   *)
(* failed to save, unless it could not read the one before.                *)
Tally ==
  \/ misread
  \/ /\ pc = "save" /\ stored # Absent => times = stored + 1
     /\ pc = "judge" /\ stored # Absent => stored <= times
     /\ pc \in {"delay", "clear"} /\ stored # Absent => stored <= 2
     /\ pc = "first" => stored = Absent

LEMMA TallyStep == ASSUME TypeOK, Tally, [Next]_vars PROVE Tally'
<1> USE RebootAssumption DEF TypeOK, Tally, Goto, history
<1>1. CASE IsExist  BY <1>1 DEF IsExist
<1>2. CASE Load  BY <1>2 DEF Load
<1>3. CASE SaveTimes  BY <1>3 DEF SaveTimes, Save
<1>4. CASE Judge  BY <1>4 DEF Judge
<1>5. CASE Delay  BY <1>5 DEF Delay
<1>6. CASE ClearTimes  BY <1>6 DEF ClearTimes
<1>7. CASE CheckErase  BY <1>7 DEF CheckErase
<1>8. CASE Boot  BY <1>8 DEF Boot
<1>9. CASE AppErase  BY <1>9 DEF AppErase, EraseAll
<1>10. CASE CheckOpenFails \/ AppOpenFails
  BY <1>10 DEF CheckOpenFails, AppOpenFails
<1>11. CASE AppReset \/ Configure \/ UNCHANGED vars
  BY <1>11 DEF AppReset, Configure, vars
<1> QED
  BY <1>1, <1>2, <1>3, <1>4, <1>5, <1>6, <1>7, <1>8, <1>9, <1>10, <1>11
  DEF Next, CheckTask, AppTask, CheckRestart, AppRestart, Cut

(* No step takes a recorded third short boot back without erasing the      *)
(* settings, whichever NVS call fails, except in a boot that failed to     *)
(* read the record.                                                        *)
THEOREM RecordStays == Spec => RecordIsKept
<1> DEFINE Kept == \/ stored' # Absent /\ stored' >= 3
                   \/ stored' = Absent /\ settings' = "erased"
                   \/ misread
<1>1. ASSUME TypeOK, Tally, [Next]_vars, stored # Absent, stored >= 3
      PROVE  Kept
  <2> USE <1>1, RebootAssumption DEF TypeOK, Tally, Goto, history
  <2>1. CASE SaveTimes  BY <2>1 DEF SaveTimes, Save
  <2>2. CASE ClearTimes  BY <2>2 DEF ClearTimes
  <2>3. CASE CheckErase \/ AppErase  BY <2>3 DEF CheckErase, AppErase, EraseAll
  <2>4. CASE stored' = stored  BY <2>4
  <2> QED
    BY <2>1, <2>2, <2>3, <2>4
    DEF Next, CheckTask, AppTask, CheckRestart, AppRestart, Cut, IsExist, Load, Judge, Delay,
        Boot, CheckOpenFails, AppOpenFails, AppReset, Configure, vars
<1>2. TypeOK /\ Tally /\ [Next]_vars
      => [stored # Absent /\ stored >= 3 => Kept]_vars
  BY <1>1
<1>3. Init => Tally
  BY DEF Init, Tally
<1>4. TypeOK /\ Tally /\ [Next]_vars => Tally'
  BY TallyStep
<1> QED BY RebootTypes, <1>2, <1>3, <1>4, PTL DEF Spec, RecordIsKept

-----------------------------------------------------------------------------
(***************************************************************************)
(* The controlling device, for any commands, targets and channels, any     *)
(* losses, and any task that moves the channel.                            *)
(***************************************************************************)
(* What a sweep has done when it stands at channel n: every channel before *)
(* has acknowledged, so the target has the frame; a single command has not *)
(* said anything before its write returns.                                 *)
Swept ==
  step \in {"tune", "write"} =>
    /\ told = "nothing" /\ acked = 1..(n - 1) /\ peer # Null
    /\ n > 1 => peer \in got

Sending == step = "send" => told = "nothing" /\ peer # Null

SessionInv == SessionTypeOK /\ OneTarget /\ Swept /\ Sending /\ AnswersMean

LEMMA SessionInitInv == SessionInit => SessionInv
<1> SUFFICES ASSUME SessionInit PROVE SessionInv
  OBVIOUS
<1>1. 1 \in 1..Channels
  BY SessionAssumption DEF SessionAssumption
<1> QED
  BY <1>1, SessionAssumption
  DEF SessionInit, SessionInv, SessionTypeOK, OneTarget, Swept, Sending, AnswersMean, Sweeps,
      SessionAssumption

LEMMA IntervalGrows == \A k \in Nat : k > 0 => 1..k = 1..(k - 1) \cup {k}
OBVIOUS

\* A write changes the two histories only, and they stay what they are of.
LEMMA TransmitKeeps ==
  ASSUME SessionInv, NEW ack \in BOOLEAN, Transmit(ack), peer # Null
  PROVE  /\ got' \subseteq Macs /\ got \subseteq got'
         /\ ack => peer \in got' /\ acked' = acked \cup {n}
         /\ ~ack => acked' = acked
         /\ acked' \subseteq 1..Channels
BY DEF Transmit, SessionInv, SessionTypeOK

LEMMA SessionStepInv ==
  ASSUME SessionInv, [SessionNext]_sessionVars
  PROVE  SessionInv'
<1> USE SessionAssumption DEF SessionInv, SessionAssumption
<1>1. ASSUME NEW c \in Sweeps, NEW m \in Macs, Sweep(c, m)
      PROVE  SessionInv'
  <2>1. /\ n' = 1 /\ 1 \in 1..Channels /\ told' = "nothing" /\ acked' = {} /\ got' = {}
        /\ channel' = channel /\ op' = c /\ 1..0 = {}
    BY <1>1 DEF Sweep, Command
  <2>2. \/ table' = {m} /\ peer' = m /\ step' = "tune"
        \/ table' = {} /\ peer' = Null /\ step' = "stuck"
    BY <1>1 DEF Sweep, OneTarget
  <2> QED
    BY <2>1, <2>2 DEF SessionTypeOK, OneTarget, Swept, Sending, AnswersMean
<1>2. ASSUME NEW c \in Sends, Send(c) PROVE SessionInv'
  BY <1>2 DEF Send, Command, Answer, SessionTypeOK, OneTarget, Swept, Sending, AnswersMean
<1>3. CASE Refuse
  BY <1>3 DEF Refuse, SessionTypeOK, OneTarget, Swept, Sending, AnswersMean
<1>4. CASE Tune
  BY <1>4 DEF Tune, StepTo, SessionTypeOK, OneTarget, Swept, Sending, AnswersMean
<1>5. CASE SweepWrite
  <2> PICK ack \in BOOLEAN :
        /\ Transmit(ack)
        /\ IF ~ack THEN Answer("connect")
           ELSE IF n = Channels THEN Answer("cannot")
           ELSE n' = n + 1 /\ step' = "tune" /\ UNCHANGED told
    BY <1>5 DEF SweepWrite
  <2>1. /\ peer # Null /\ told = "nothing" /\ acked = 1..(n - 1) /\ n \in 1..Channels
        /\ UNCHANGED <<peer, table, channel, op>>
    BY <1>5 DEF SweepWrite, Swept, SessionTypeOK
  <2>2. /\ got' \subseteq Macs /\ acked' \subseteq 1..Channels
        /\ ack => peer \in got' /\ acked' = acked \cup {n}
    BY <2>1, TransmitKeeps
  <2>6. n \in Nat /\ 1..n = 1..(n - 1) \cup {n}
    <3>1. n \in Nat /\ n > 0
      BY <2>1
    <3> QED BY <3>1, IntervalGrows
  <2>3. CASE ~ack
    BY <2>1, <2>2, <2>3
    DEF Answer, SessionTypeOK, OneTarget, Swept, Sending, AnswersMean
  <2>4. CASE ack /\ n = Channels
    <3>1. acked' = 1..Channels
      BY <2>1, <2>2, <2>4, <2>6
    <3> QED
      BY <2>1, <2>2, <2>4, <3>1
      DEF Answer, SessionTypeOK, OneTarget, Swept, Sending, AnswersMean
  <2>5. CASE ack /\ n # Channels
    <3>1. n' = n + 1 /\ n' \in 1..Channels /\ n' - 1 = n
      BY <2>1, <2>5, <2>6
    <3>2. acked' = 1..n
      BY <2>1, <2>2, <2>5, <2>6
    <3>3. acked' = 1..(n' - 1)
      BY <3>1, <3>2, Zenon
    <3> QED
      BY <2>1, <2>2, <2>5, <3>1, <3>3
      DEF SessionTypeOK, OneTarget, Swept, Sending, AnswersMean
  <2> QED BY <2>3, <2>4, <2>5
<1>6. CASE SendWrite
  <2> PICK ack \in BOOLEAN : Transmit(ack) /\ Answer(IF ack THEN "sent" ELSE "fail")
    BY <1>6 DEF SendWrite
  <2>1. peer # Null /\ UNCHANGED <<peer, table, channel, op>>
    BY <1>6 DEF SendWrite, Sending
  <2>2. /\ got' \subseteq Macs /\ acked' \subseteq 1..Channels
        /\ ack => peer \in got'
    BY <2>1, TransmitKeeps
  <2>3. /\ step' = "idle" /\ n' = n /\ told' \in {"sent", "fail"}
        /\ told' = "sent" => ack
    BY DEF Answer
  <2> QED
    BY <2>1, <2>2, <2>3 DEF SessionTypeOK, OneTarget, Swept, Sending, AnswersMean
<1>7. CASE Retune
  BY <1>7 DEF Retune, SessionTypeOK, OneTarget, Swept, Sending, AnswersMean
<1>8. CASE UNCHANGED sessionVars
  BY <1>8 DEF sessionVars, SessionTypeOK, OneTarget, Swept, Sending, AnswersMean
<1> QED
  BY <1>1, <1>2, <1>3, <1>4, <1>5, <1>6, <1>7, <1>8 DEF SessionNext

LEMMA SessionInductive == SessionSpec => []SessionInv
<1>1. SessionInv /\ [SessionNext]_sessionVars => SessionInv'
  BY SessionStepInv
<1> QED BY <1>1, SessionInitInv, PTL DEF SessionSpec

(* The variables of the controlling device keep their types.               *)
THEOREM SessionTypes == SessionSpec => []SessionTypeOK
<1>1. SessionInv => SessionTypeOK
  BY DEF SessionInv
<1> QED BY <1>1, SessionInductive, PTL

(* The driver's peer table holds the current target and nothing else.      *)
THEOREM SessionHoldsOneTarget == SessionSpec => []OneTarget
<1>1. SessionInv => OneTarget
  BY DEF SessionInv
<1> QED BY <1>1, SessionInductive, PTL

(* "can not connect" and an answer that is no failure mean that the frame  *)
(* reached the target, whatever frames and acknowledgements are lost and   *)
(* whoever moves the channel meanwhile.                                    *)
THEOREM AnswersAreMeant == SessionSpec => []AnswersMean
<1>1. SessionInv => AnswersMean
  BY DEF SessionInv
<1> QED BY <1>1, SessionInductive, PTL

-----------------------------------------------------------------------------
(***************************************************************************)
(* The key loop, for any keys, debounce times and queue length.            *)
(***************************************************************************)
(* Where loop_task stands: it scans with a round left, and posts a key     *)
(* std_key_add has published.                                              *)
Scanning ==
  /\ loop # "wait" => left > 0
  /\ loop = "post" => at \in Keys /\ at \in Added
  /\ loop # "post" => at = NoKey
  /\ pressed \subseteq Added

\* A press that starts while its key waits in xQueueSend is polled later.
PostAware == loop = "post" /\ at \in edged /\ at \in down => isr \/ sem = 1

\* What is about to be posted is no bounce.
PostDebounced == loop = "post" => at \in early \/ hold[at] > Shake[at]

\* std_key_add publishes a key with no press time, and only a poll counts.
FreshHold == \A k \in Added \ (Hooked \cup early) : hold[k] = 0

KeyInv ==
  /\ KeyTypeOK /\ Scanning /\ FreshHold
  /\ EdgeNotMissed /\ PostAware /\ EventIsDebounced /\ PostDebounced

Event == [io : Keys, hold : 0..MaxHold]

LEMMA KeyInitInv == KeyInit => KeyInv
<1> SUFFICES ASSUME KeyInit PROVE KeyInv
  OBVIOUS
<1>1. /\ 0 \in 0..MaxHold /\ 0 \in 0..Rounds /\ 0 <= QueueSize
      /\ queue \in Seq(Event) /\ Len(queue) = 0 /\ DOMAIN queue = {}
  BY KeyAssumption DEF KeyAssumption, KeyInit
<1>2. KeyTypeOK
  BY <1>1 DEF KeyInit, KeyTypeOK, Event, Hooked, Added
<1> QED
  BY <1>1, <1>2
  DEF KeyInit, KeyInv, Scanning, FreshHold, EdgeNotMissed, PostAware, EventIsDebounced,
      PostDebounced, Added, Hooked

\* std_key_add goes on with one key: no key that is hooked changes.
LEMMA KeyAddInv ==
  ASSUME KeyInv, NEW k \in Keys, KeyAdd(k)
  PROVE  KeyInv'
<1> USE DEF KeyInv
<1>1. /\ UNCHANGED <<down, isr, sem, loop, left, todo, at, queue, edged, early>>
      /\ k \notin Hooked /\ Added \subseteq Added' /\ Hooked \subseteq Hooked'
      /\ Added' \subseteq Added \cup {k} /\ Hooked' \subseteq Hooked \cup {k}
      /\ \A j \in Keys \ {k} : setup'[j] = setup[j]
      /\ setup' \in [Keys -> {"none", "published", "timed", "filled", "hooked"}]
  BY DEF KeyAdd, Publish, SetShake, SetStatus, HookIsr, SetupGoes, taskVars, keyHistory,
         Added, Hooked, KeyTypeOK
<1>2. /\ hold' = hold \/ (setup[k] = "none" /\ hold' = [hold EXCEPT ![k] = 0])
      /\ pressed' \subseteq pressed \cup {k} /\ pressed \subseteq pressed' \cup {k}
      /\ pressed' \subseteq Added' /\ k \in Added'
  BY DEF KeyAdd, Publish, SetShake, SetStatus, HookIsr, SetupGoes, Added, KeyTypeOK, Scanning
<1>3. /\ hold' \in [Keys -> 0..MaxHold] /\ \A j \in Keys \ {k} : hold'[j] = hold[j]
      /\ k \notin Added => hold'[k] = 0
      /\ k \in Added => hold'[k] = hold[k]
  <2>1. hold \in [Keys -> 0..MaxHold] /\ 0 \in 0..MaxHold
    BY KeyAssumption DEF KeyAssumption, KeyTypeOK
  <2>2. CASE Publish(k)
    BY <2>1, <2>2 DEF Publish, SetupGoes, Added
  <2>3. CASE SetShake(k) \/ SetStatus(k) \/ HookIsr(k)
    BY <2>1, <2>3 DEF SetShake, SetStatus, HookIsr, SetupGoes, Added
  <2> QED BY <2>2, <2>3 DEF KeyAdd
<1>4. KeyTypeOK'
  BY <1>1, <1>2, <1>3 DEF KeyTypeOK, Scanning, Added
<1>5. Scanning' /\ FreshHold'
  <2>1. Scanning'
    BY <1>1, <1>2 DEF Scanning
  <2>2. ASSUME NEW j \in Added' \ (Hooked' \cup early') PROVE hold'[j] = 0
    <3>1. CASE j = k
      BY <1>1, <1>3, <2>2, <3>1 DEF FreshHold
    <3>2. CASE j # k
      <4>1. j \in Added \ (Hooked \cup early) /\ j \in Keys
        BY <1>1, <2>2, <3>2 DEF Added
      <4> QED BY <1>3, <3>2, <4>1 DEF FreshHold
    <3> QED BY <3>1, <3>2
  <2> QED BY <2>1, <2>2 DEF FreshHold
<1>6. EdgeNotMissed' /\ PostAware'
  <2>1. PostAware'
    BY <1>1 DEF PostAware
  <2>2. \A j \in edged : j # k /\ (j \in pressed' <=> j \in pressed)
    BY <1>1, <1>2 DEF KeyTypeOK
  <2> QED BY <1>1, <2>1, <2>2 DEF EdgeNotMissed
<1>7. EventIsDebounced'
  BY <1>1 DEF EventIsDebounced
<1>8. PostDebounced'
  BY <1>1, <1>3 DEF PostDebounced, Scanning
<1> QED BY <1>4, <1>5, <1>6, <1>7, <1>8

LEMMA EdgeInv == ASSUME KeyInv, NEW k \in Keys, Edge(k) PROVE KeyInv'
<1> USE DEF KeyInv
<1>1. /\ UNCHANGED <<setup, pressed, hold, sem, loop, left, todo, at, queue, early>>
      /\ Added' = Added /\ Hooked' = Hooked
  BY DEF Edge, infoVars, taskVars, Added, Hooked, KeyTypeOK
<1>2. /\ down' \subseteq Keys /\ \A j \in Keys \ {k} : j \in down' <=> j \in down
      /\ edged \subseteq edged' /\ edged' \subseteq Hooked
      /\ edged' \subseteq edged \cup {k}
  BY DEF Edge, KeyTypeOK
<1>6. isr' \in BOOLEAN /\ (isr => isr') /\ (k \in edged' => isr')
  BY Zenon DEF Edge, KeyTypeOK
<1>3. KeyTypeOK'
  BY <1>1, <1>2, <1>6 DEF KeyTypeOK
<1>4. Scanning' /\ FreshHold' /\ PostDebounced' /\ EventIsDebounced'
  BY <1>1 DEF Scanning, FreshHold, PostDebounced, EventIsDebounced
<1>5. EdgeNotMissed' /\ PostAware'
  <2>1. ASSUME NEW j \in edged' PROVE isr' \/ (j \in edged /\ (j \in down' <=> j \in down))
    BY <1>2, <1>6, <2>1 DEF Hooked
  <2> QED BY <1>1, <1>6, <2>1 DEF EdgeNotMissed, PostAware
<1> QED BY <1>3, <1>4, <1>5

LEMMA IsrHandlerInv == ASSUME KeyInv, IsrHandler PROVE KeyInv'
BY DEF KeyInv, IsrHandler, infoVars, taskVars, keyHistory, KeyTypeOK, Scanning, FreshHold,
       EdgeNotMissed, PostAware, EventIsDebounced, PostDebounced, Added, Hooked

\* The scan that takes the semaphore has every key before it.
LEMMA TakeSemInv == ASSUME KeyInv, TakeSem PROVE KeyInv'
<1> USE DEF KeyInv
<1>1. /\ UNCHANGED <<down, setup, pressed, hold, isr, at, queue, edged, early>>
      /\ loop' = "scan" /\ todo' = Keys /\ sem' = 0 /\ left' = Rounds /\ at = NoKey
      /\ Added' = Added /\ Hooked' = Hooked
  BY DEF TakeSem, infoVars, keyHistory, Added, Hooked, Scanning
<1>2. Rounds \in 0..Rounds /\ Rounds > 0
  BY KeyAssumption DEF KeyAssumption
<1>3. KeyTypeOK'
  BY <1>1, <1>2 DEF KeyTypeOK
<1>4. Scanning' /\ FreshHold' /\ PostAware' /\ EventIsDebounced' /\ PostDebounced'
  BY <1>1, <1>2 DEF Scanning, FreshHold, PostAware, EventIsDebounced, PostDebounced
<1>5. EdgeNotMissed'
  BY <1>1 DEF KeyTypeOK, EdgeNotMissed, Hooked
<1> QED BY <1>3, <1>4, <1>5

\* What every poll does: one key less to do, and early knows of it.
LEMMA PollKeeps ==
  ASSUME KeyInv, NEW k \in Keys, Poll(k)
  PROVE  /\ UNCHANGED <<down, setup, isr, sem, left, queue, edged>>
         /\ loop = "scan" /\ at = NoKey /\ todo' = todo \ {k}
         /\ early \subseteq early' /\ early' \subseteq early \cup {k}
         /\ early' \subseteq Added /\ Added' = Added /\ Hooked' = Hooked
         /\ k \in Added /\ k \notin Hooked => k \in early'
BY DEF KeyInv, Poll, Scanning, Added, Hooked, KeyTypeOK

\* A poll that records what it saw and posts nothing.
LEMMA QuietPollInv ==
  ASSUME KeyInv, NEW k \in Keys, Poll(k), UNCHANGED <<loop, at>>,
         pressed' \subseteq pressed \cup {k}, pressed \subseteq pressed' \cup {k},
         k \in pressed' => k \in Added,
         k \in Added => (k \in pressed' <=> k \in down),
         hold' \in [Keys -> 0..MaxHold], \A j \in Keys \ {k} : hold'[j] = hold[j]
  PROVE  KeyInv'
<1> USE DEF KeyInv
<1>1. /\ UNCHANGED <<down, setup, isr, sem, left, queue, edged>>
      /\ loop = "scan" /\ at = NoKey /\ todo' = todo \ {k}
      /\ early \subseteq early' /\ early' \subseteq early \cup {k}
      /\ early' \subseteq Added /\ Added' = Added /\ Hooked' = Hooked
  BY PollKeeps
<1>2. k \in Added /\ k \notin Hooked => k \in early'
  BY PollKeeps
<1>3. pressed' \subseteq Added /\ pressed' \subseteq Keys
  BY DEF Scanning, Added
<1>4. KeyTypeOK'
  BY <1>1, <1>3 DEF KeyTypeOK
<1>5. Scanning' /\ PostAware' /\ PostDebounced'
  BY <1>1, <1>3 DEF Scanning, PostAware, PostDebounced
<1>6. FreshHold'
  BY <1>1, <1>2 DEF FreshHold, Added
<1>7. EdgeNotMissed'
  <2> SUFFICES ASSUME NEW j \in edged', (j \in down') # (j \in pressed')
               PROVE  isr' \/ sem' = 1 \/ (loop' # "wait" /\ (left' > 1 \/ j \in todo'))
    BY DEF EdgeNotMissed
  <2>1. j \in Hooked /\ j \in Keys /\ j \in Added
    BY <1>1 DEF KeyTypeOK, Hooked, Added
  <2>2. j # k /\ (j \in down) # (j \in pressed)
    BY <1>1, <2>1
  <2> QED BY <1>1, <2>1, <2>2, KeyAssumption DEF EdgeNotMissed, KeyAssumption
<1>8. EventIsDebounced'
  BY <1>1 DEF EventIsDebounced
<1> QED BY <1>4, <1>5, <1>6, <1>7, <1>8

\* press_time_handle keeps what is long enough, and marks what it may not judge.
LEMMA PressEndInv == ASSUME KeyInv, NEW k \in Keys, PressEnd(k) PROVE KeyInv'
<1> USE DEF KeyInv
<1>1. Poll(k) /\ k \in Added /\ k \notin down /\ hold' = hold
  BY DEF PressEnd
<1>2. /\ UNCHANGED <<down, setup, isr, sem, left, queue, edged>>
      /\ loop = "scan" /\ at = NoKey /\ todo' = todo \ {k}
      /\ early \subseteq early' /\ early' \subseteq early \cup {k}
      /\ early' \subseteq Added /\ Added' = Added /\ Hooked' = Hooked
  BY <1>1, PollKeeps
<1>3. k \notin Hooked => k \in early'
  BY <1>1, PollKeeps
<1>4. CASE ~(hold[k] > ShakeTime(k))
  <2>1. pressed' = pressed \ {k} /\ UNCHANGED <<loop, at>>
    BY <1>4 DEF PressEnd
  <2> QED BY <1>1, <2>1, QuietPollInv DEF KeyTypeOK
<1>5. CASE hold[k] > ShakeTime(k)
  <2>1. loop' = "post" /\ at' = k /\ pressed' = pressed
    BY <1>5 DEF PressEnd
  <2>2. KeyTypeOK'
    BY <1>1, <1>2, <2>1 DEF KeyTypeOK
  <2>3. Scanning' /\ PostAware' /\ EventIsDebounced'
    BY <1>1, <1>2, <2>1 DEF Scanning, PostAware, EventIsDebounced
  <2>4. FreshHold'
    BY <1>1, <1>2 DEF FreshHold
  <2>5. PostDebounced'
    <3>1. k \notin early' => setup[k] = "hooked"
      BY <1>3 DEF Hooked
    <3>2. k \notin early' => hold[k] > Shake[k]
      BY <1>5, <3>1 DEF ShakeTime
    <3> QED BY <1>1, <2>1, <3>2 DEF PostDebounced
  <2>6. EdgeNotMissed'
    <3> SUFFICES ASSUME NEW j \in edged', (j \in down') # (j \in pressed'), j # at'
                 PROVE  isr' \/ sem' = 1 \/ (loop' # "wait" /\ (left' > 1 \/ j \in todo'))
      BY <2>1 DEF EdgeNotMissed
    <3>1. j \in Keys /\ j # at /\ j # k
      BY <1>2, <2>1, KeyAssumption DEF KeyTypeOK, Hooked, KeyAssumption
    <3> QED BY <1>2, <2>1, <3>1 DEF EdgeNotMissed
  <2> QED BY <2>2, <2>3, <2>4, <2>5, <2>6
<1> QED BY <1>4, <1>5

LEMMA StatusJudgeInv == ASSUME KeyInv, NEW k \in Keys, StatusJudge(k) PROVE KeyInv'
<1> USE DEF KeyInv
<1>1. CASE Skip(k)
  BY <1>1, QuietPollInv DEF Skip, KeyTypeOK, Scanning
<1>2. CASE PressStart(k)
  <2>1. hold' \in [Keys -> 0..MaxHold] /\ \A j \in Keys \ {k} : hold'[j] = hold[j]
    BY <1>2, KeyAssumption DEF PressStart, KeyTypeOK, KeyAssumption
  <2> QED BY <1>2, <2>1, QuietPollInv DEF PressStart
<1>3. CASE PressGoesOn(k)
  <2>1. hold' \in [Keys -> 0..MaxHold] /\ \A j \in Keys \ {k} : hold'[j] = hold[j]
    BY <1>3, KeyAssumption DEF PressGoesOn, KeyTypeOK, KeyAssumption
  <2> QED BY <1>3, <2>1, QuietPollInv DEF PressGoesOn
<1>4. CASE PressEnd(k)
  BY <1>4, PressEndInv
<1> QED BY <1>1, <1>2, <1>3, <1>4 DEF StatusJudge

\* In terms of the set of queued events.
LEMMA DebouncedEvents ==
  EventIsDebounced <=> \A e \in Range(queue) : e.io \in early \/ e.hold > Shake[e.io]
BY DEF EventIsDebounced, Range

\* The event joins the queue, and its key is released.
LEMMA PostInv == ASSUME KeyInv, Post PROVE KeyInv'
<1> USE DEF KeyInv
<1> DEFINE e == [io |-> at, hold |-> hold[at]]
<1>1. /\ UNCHANGED <<down, setup, hold, isr, sem, left, todo, edged, early>>
      /\ loop = "post" /\ loop' = "scan" /\ at' = NoKey /\ pressed' = pressed \ {at}
      /\ Len(queue) < QueueSize /\ queue' = Append(queue, e)
      /\ Added' = Added /\ Hooked' = Hooked /\ at \in Keys
  BY DEF Post, keyHistory, Added, Hooked, Scanning
<1>2. e \in Event /\ queue \in Seq(Event)
  BY <1>1 DEF KeyTypeOK, Event
<1>3. /\ queue' \in Seq(Event) /\ Len(queue') = Len(queue) + 1 /\ Len(queue) \in Nat
      /\ Range(queue') = Range(queue) \cup {e}
  BY <1>1, <1>2, PushFacts
<1>4. KeyTypeOK'
  BY <1>1, <1>3, KeyAssumption DEF KeyTypeOK, Event, KeyAssumption
<1>5. Scanning' /\ FreshHold' /\ PostAware' /\ PostDebounced'
  BY <1>1 DEF Scanning, FreshHold, PostAware, PostDebounced
<1>6. EventIsDebounced'
  <2>1. e.io = at /\ e.hold = hold[at]
    OBVIOUS
  <2>2. \A d \in Range(queue') : d.io \in early' \/ d.hold > Shake[d.io]
    BY <1>1, <1>3, <2>1, DebouncedEvents DEF PostDebounced
  <2> QED BY <2>2 DEF EventIsDebounced, Range
<1>7. EdgeNotMissed'
  <2> SUFFICES ASSUME NEW j \in edged', (j \in down') # (j \in pressed')
               PROVE  isr' \/ sem' = 1 \/ (loop' # "wait" /\ (left' > 1 \/ j \in todo'))
    BY DEF EdgeNotMissed
  <2>1. CASE j = at
    BY <1>1, <2>1 DEF PostAware
  <2>2. CASE j # at
    BY <1>1, <2>2 DEF EdgeNotMissed
  <2> QED BY <2>1, <2>2
<1> QED BY <1>4, <1>5, <1>6, <1>7

\* Whatever was seen too late in the last round is left to the semaphore.
LEMMA EndRoundInv == ASSUME KeyInv, EndRound PROVE KeyInv'
<1> USE DEF KeyInv
<1>1. /\ UNCHANGED <<down, setup, pressed, hold, isr, sem, at, queue, edged, early>>
      /\ loop = "scan" /\ todo = {} /\ left' = left - 1 /\ at = NoKey /\ left > 0
      /\ Added' = Added /\ Hooked' = Hooked
  BY DEF EndRound, infoVars, keyHistory, Added, Hooked, Scanning
<1>2. \/ left > 1 /\ todo' = Keys /\ loop' = "scan"
      \/ left = 1 /\ todo' = {} /\ loop' = "wait"
  BY <1>1 DEF EndRound, KeyTypeOK
<1>3. left \in 0..Rounds /\ left' \in 0..Rounds /\ (left > 1 => left' > 0)
  BY <1>1, KeyAssumption DEF KeyTypeOK, KeyAssumption
<1>4. KeyTypeOK'
  BY <1>1, <1>2, <1>3 DEF KeyTypeOK
<1>5. Scanning' /\ FreshHold' /\ PostAware' /\ EventIsDebounced' /\ PostDebounced'
  BY <1>1, <1>2, <1>3 DEF Scanning, FreshHold, PostAware, EventIsDebounced, PostDebounced
<1>6. EdgeNotMissed'
  <2> SUFFICES ASSUME NEW j \in edged', (j \in down') # (j \in pressed')
               PROVE  isr' \/ sem' = 1 \/ (loop' # "wait" /\ j \in todo')
    BY DEF EdgeNotMissed
  <2>1. j \in Keys /\ j # at
    BY <1>1, KeyAssumption DEF KeyTypeOK, Hooked, KeyAssumption
  <2> QED BY <1>1, <1>2, <2>1 DEF EdgeNotMissed
<1> QED BY <1>4, <1>5, <1>6

LEMMA WaitEventInv == ASSUME KeyInv, WaitEvent PROVE KeyInv'
<1> USE DEF KeyInv
<1>1. /\ UNCHANGED <<down, setup, pressed, hold, isr, sem, loop, left, todo, at, edged, early>>
      /\ queue # <<>> /\ queue' = Tail(queue) /\ Added' = Added /\ Hooked' = Hooked
  BY DEF WaitEvent, infoVars, taskVars, keyHistory, Added, Hooked
<1>2. queue \in Seq(Event)
  BY DEF KeyTypeOK, Event
<1>3. /\ queue' \in Seq(Event) /\ Len(queue') + 1 = Len(queue) /\ Len(queue') \in Nat
      /\ Range(queue') \subseteq Range(queue)
  BY <1>1, <1>2, PopFacts
<1>4. KeyTypeOK'
  <2>1. Len(queue') <= QueueSize
    BY <1>3, KeyAssumption DEF KeyTypeOK, KeyAssumption
  <2> QED BY <1>1, <1>3, <2>1 DEF KeyTypeOK, Event
<1>5. Scanning' /\ FreshHold' /\ PostAware' /\ PostDebounced' /\ EdgeNotMissed'
  BY <1>1 DEF Scanning, FreshHold, PostAware, PostDebounced, EdgeNotMissed
<1>6. EventIsDebounced'
  <2>1. \A d \in Range(queue') : d.io \in early' \/ d.hold > Shake[d.io]
    BY <1>1, <1>3, DebouncedEvents
  <2> QED BY <2>1 DEF EventIsDebounced, Range
<1> QED BY <1>4, <1>5, <1>6

LEMMA KeyStepInv == ASSUME KeyInv, [KeyNext]_keyVars PROVE KeyInv'
<1>1. CASE UNCHANGED keyVars
  BY <1>1 DEF keyVars, infoVars, taskVars, keyHistory, KeyInv, KeyTypeOK, Scanning, FreshHold,
     EdgeNotMissed, PostAware, EventIsDebounced, PostDebounced, Added, Hooked
<1> QED
  BY <1>1, KeyAddInv, EdgeInv, IsrHandlerInv, TakeSemInv, StatusJudgeInv, PostInv,
     EndRoundInv, WaitEventInv DEF KeyNext, LoopTask

LEMMA KeyInductive == KeySpec => []KeyInv
<1>1. KeyInv /\ [KeyNext]_keyVars => KeyInv'
  BY KeyStepInv
<1> QED BY <1>1, KeyInitInv, PTL DEF KeySpec

(* The variables of the key loop keep their types; g_key_queue never holds *)
(* more than its length.                                                   *)
THEOREM KeyTypes == KeySpec => []KeyTypeOK
<1>1. KeyInv => KeyTypeOK
  BY DEF KeyInv
<1> QED BY <1>1, KeyInductive, PTL

(* A level that differs from the recorded status is always about to be     *)
(* polled, whichever of the interrupt, the semaphore and the rounds left   *)
(* still remembers the edge; binary as the semaphore is, and also while    *)
(* loop_task waits for a full queue.                                       *)
THEOREM NoEdgeIsMissed == KeySpec => []EdgeNotMissed
<1>1. KeyInv => EdgeNotMissed
  BY DEF KeyInv
<1> QED BY <1>1, KeyInductive, PTL

(* Every event std_wait_event can still receive lasted longer than the     *)
(* debounce time of its key, unless the key was polled half added.         *)
THEOREM NoBounceIsReported == KeySpec => []EventIsDebounced
<1>1. KeyInv => EventIsDebounced
  BY DEF KeyInv
<1> QED BY <1>1, KeyInductive, PTL

\* One step of any kind, for one key.
LEMMA KeptStep ==
  ASSUME KeyInv, [KeyNext]_keyVars,
         NEW k \in Keys \ early, k \in pressed, hold[k] > Shake[k]
  PROVE  \/ k \in pressed' /\ hold'[k] >= hold[k]
         \/ queue' = Append(queue, [io |-> k, hold |-> hold[k]])
<1> USE DEF KeyInv
<1>0. /\ hold[k] \in Nat /\ Shake[k] \in Nat /\ hold \in [Keys -> 0..MaxHold]
      /\ hold[k] <= MaxHold /\ MaxHold \in Nat
  BY KeyAssumption DEF KeyTypeOK, KeyAssumption
<1>1. setup[k] = "hooked"
  <2>1. k \in Added /\ hold[k] # 0
    BY <1>0 DEF Scanning
  <2> QED BY <2>1 DEF FreshHold, Hooked
<1>2. ASSUME NEW j \in Keys, KeyAdd(j) PROVE k \in pressed' /\ hold'[k] = hold[k]
  <2>1. j # k
    BY <1>1, <1>2 DEF KeyAdd, Publish, SetShake, SetStatus, HookIsr, SetupGoes
  <2> QED BY <1>0, <1>2, <2>1 DEF KeyAdd, Publish, SetShake, SetStatus, HookIsr
<1>3. ASSUME NEW j \in Keys, StatusJudge(j) PROVE k \in pressed' /\ hold'[k] >= hold[k]
  <2>1. CASE Skip(j)
    BY <1>0, <1>3, <2>1 DEF Skip
  <2>2. CASE PressStart(j)
    BY <1>0, <1>3, <2>2 DEF PressStart
  <2>3. CASE PressGoesOn(j)
    BY <1>0, <1>3, <2>3 DEF PressGoesOn
  <2>4. CASE PressEnd(j)
    BY <1>0, <1>1, <2>4 DEF PressEnd, ShakeTime
  <2> QED BY <1>3, <2>1, <2>2, <2>3, <2>4 DEF StatusJudge
<1>4. CASE Post
  <2>1. CASE at = k
    BY <1>4, <2>1 DEF Post
  <2>2. CASE at # k
    BY <1>0, <1>4, <2>2 DEF Post
  <2> QED BY <2>1, <2>2
<1>5. CASE UNCHANGED infoVars
  BY <1>0, <1>5 DEF infoVars
<1>6. \/ \E j \in Keys : KeyAdd(j) \/ StatusJudge(j)
      \/ Post \/ UNCHANGED infoVars
  BY DEF KeyNext, keyVars, LoopTask, Edge, IsrHandler, TakeSem, EndRound, WaitEvent
<1> QED BY <1>0, <1>2, <1>3, <1>4, <1>5, <1>6

(* No step gives up a press that has outlasted the debounce time without   *)
(* queueing it, with the count it has reached.                             *)
THEOREM LongPressIsKept == KeySpec => LongPressKept
<1>1. KeyInv /\ [KeyNext]_keyVars =>
        [\A k \in Keys \ early : k \in pressed /\ hold[k] > Shake[k] =>
           \/ k \in pressed' /\ hold'[k] >= hold[k]
           \/ queue' = Append(queue, [io |-> k, hold |-> hold[k]])]_keyVars
  BY KeptStep
<1> QED BY <1>1, KeyInductive, PTL DEF KeySpec, LongPressKept

-----------------------------------------------------------------------------
(***************************************************************************)
(* Log lines, for any number of tasks, any lengths and any buffer.         *)
(***************************************************************************)
LEMMA ModFacts ==
  ASSUME NEW x \in Nat, NEW w \in Nat \ {0}
  PROVE  /\ x % w \in Nat /\ x % w <= x
         /\ x < w => x % w = x
<1>1. x % w \in 0..(w - 1)
  OBVIOUS
<1>2. x < w => x % w = x
  OBVIOUS
<1> QED BY <1>1, <1>2

LEMMA TextGrows ==
  ASSUME NEW b \in Nat, NEW k \in Nat, NEW m \in Nat, k <= m
  PROVE  /\ b * k \in Nat /\ b * k <= b * m
         /\ b * (k + 1) = b * k + b
         /\ k * b \in Nat /\ m * b \in Nat /\ k * b <= m * b
OBVIOUS

\* The text of a buffer ends at its first NUL.
LEMMA StrLenFacts ==
  ASSUME NEW s, NEW e \in 0..(Size - 1), s[e + 1] = NUL
  PROVE  /\ StrLen(s) \in 0..(Size - 1) /\ StrLen(s) <= e
         /\ s[StrLen(s) + 1] = NUL /\ \A i \in 1..StrLen(s) : s[i] # NUL
<1> DEFINE T == {l \in 0..(Size - 1) : s[l + 1] = NUL}
           Below == OpToRel(<, Nat)
<1>1. \A x, y \in Nat : y < x => <<y, x>> \in Below
  BY DEF OpToRel
<1>2. PICK l \in T : \A m \in T : <<m, l>> \notin Below
  <2>1. T \subseteq Nat /\ T # {}
    OBVIOUS
  <2> HIDE DEF T, Below
  <2>2. IsWellFoundedOn(Below, Nat)
    BY NatLessThanWellFounded DEF Below
  <2> QED BY <2>1, <2>2, WFMin
<1> HIDE DEF Below
<1>3. \A m \in T : l <= m
  <2> SUFFICES ASSUME NEW m \in T, m < l PROVE FALSE
    OBVIOUS
  <2>1. <<m, l>> \in Below
    BY <1>1
  <2> QED BY <1>2, <2>1
<1>4. s[l + 1] = NUL /\ \A i \in 1..l : s[i] # NUL
  <2>1. ASSUME NEW i \in 1..l PROVE s[i] # NUL
    <3>1. i - 1 \in 0..(Size - 1) /\ i - 1 < l /\ (i - 1) + 1 = i
      BY LogAssumption DEF LogAssumption
    <3> QED BY <1>3, <3>1
  <2> QED BY <2>1
<1>5. /\ StrLen(s) \in 0..(Size - 1)
      /\ s[StrLen(s) + 1] = NUL /\ \A i \in 1..StrLen(s) : s[i] # NUL
  BY <1>4 DEF StrLen
<1>6. StrLen(s) <= e
  BY <1>5
<1> QED BY <1>5, <1>6

(* The tasks whose body is still to come since they wrote their header:    *)
(* each of the others has added one body at most to the last header.       *)
Pending == {r \in Loggers : stage[r] \in {"offset", "body"}}
Done == Loggers \ Pending

TextBound ==
  \E e \in 0..(Size - 1) : buf[e + 1] = NUL /\ e <= Header + longest * Cardinality(Done)

OffsetBound ==
  \A r \in Loggers :
    /\ stage[r] \in {"header", "offset", "body"} => body[r] <= longest
    /\ stage[r] = "body" => offset[r] <= Header + longest * (Cardinality(Loggers) - 1)
    /\ stage[r] = "copy" => len[r] <= MaxLen
    /\ stage[r] = "wild" => Header + longest * Cardinality(Loggers) + 1 > Size

LogBound == LogTypeOK /\ TextBound /\ OffsetBound

(* A task no other overlaps is the only one that is busy, and finds in the *)
(* buffer what it has written there.                                       *)
Alone == \A r \in Loggers \ mixed, q \in Loggers : r \in Busy /\ q \in Busy => q = r

\* The first l bytes are task r's, and NUL follows.
Holds(s, r, l) == \A i \in DOMAIN s : s[i] = IF i <= l THEN r ELSE NUL
Text(r) == Header + body[r]

Lone(r) ==
  /\ stage[r] = "header" => Holds(buf, r, 0)
  /\ stage[r] \in {"offset", "body"} => Holds(buf, r, Header) /\ Header < Size
  /\ stage[r] = "body" => offset[r] = Header
  /\ stage[r] \in {"measure", "print", "build", "copy"} => Holds(buf, r, Text(r))
  /\ stage[r] = "print" => len[r] = Text(r) + 1
  /\ stage[r] \in {"build", "copy"} => len[r] = (Text(r) + 1) % Width
  /\ stage[r] = "post" => Holds(frame[r], r, Text(r)) /\ Len(frame[r]) = (Text(r) + 1) % Width
  /\ stage[r] = "asleep" => (Text(r) + 1) % Width > MaxLen
  /\ stage[r] \in {"measure", "print", "build", "copy", "post"} => Text(r) < Size
  /\ stage[r] = "wild" => Text(r) >= Size

LogInv == LogBound /\ Alone /\ \A r \in Loggers \ mixed : Lone(r)

\* What several bodies come to at most.
LEMMA Pile ==
  ASSUME NEW h \in Nat
  PROVE  /\ \A S \in SUBSET Loggers :
              /\ Cardinality(S) \in Nat /\ h * Cardinality(S) \in Nat
              /\ h * Cardinality(S) <= h * Cardinality(Loggers)
         /\ \A r \in Loggers :
              /\ Cardinality(Loggers) - 1 \in Nat /\ h * (Cardinality(Loggers) - 1) \in Nat
              /\ h * Cardinality(Loggers) = h * (Cardinality(Loggers) - 1) + h
<1> DEFINE c == Cardinality(Loggers)
<1>1. IsFiniteSet(Loggers) /\ c \in Nat
  BY FS_CardinalityType, LogAssumption DEF LogAssumption
<1>2. ASSUME NEW S \in SUBSET Loggers
      PROVE  /\ Cardinality(S) \in Nat /\ h * Cardinality(S) \in Nat
             /\ h * Cardinality(S) <= h * c
  <2>1. IsFiniteSet(S) /\ Cardinality(S) <= c
    BY <1>1, FS_Subset
  <2>2. Cardinality(S) \in Nat
    BY <2>1, FS_CardinalityType
  <2> HIDE DEF c
  <2> QED BY <1>1, <2>1, <2>2, TextGrows
<1>3. ASSUME NEW r \in Loggers
      PROVE  /\ c - 1 \in Nat /\ h * (c - 1) \in Nat
             /\ h * c = h * (c - 1) + h
  <2>1. c # 0
    BY <1>1, FS_EmptySet
  <2>2. c - 1 \in Nat /\ (c - 1) + 1 = c
    BY <1>1, <2>1
  <2> HIDE DEF c
  <2>3. h * (c - 1) \in Nat /\ h * ((c - 1) + 1) = h * (c - 1) + h
    BY <2>2, TextGrows
  <2> QED BY <2>2, <2>3
<1> QED BY <1>2, <1>3

LEMMA LogInitBound == ASSUME LogInit PROVE LogBound
<1>1. /\ Size \in Nat /\ Header \in Nat /\ 0 \in 0..(Size - 1) /\ 0 \in 0..Size
      /\ longest = 0 /\ longest \in Nat
  BY LogAssumption DEF LogAssumption, LogInit
<1>2. LogTypeOK
  <2>1. stage \in [Loggers -> Places] /\ buf \in [1..Size -> Loggers \cup {NUL}]
    BY DEF LogInit, Places
  <2>2. /\ frame \in [Loggers -> Seq(Loggers \cup {NUL})]
        /\ \A r \in Loggers : Len(frame[r]) <= MaxLen
    BY LogAssumption DEF LogInit, LogAssumption
  <2> QED BY <1>1, <2>1, <2>2 DEF LogInit, LogTypeOK
<1>3. TextBound
  <2>1. Done \in SUBSET Loggers
    BY DEF Done
  <2>2. longest * Cardinality(Done) \in Nat
    BY <1>1, <2>1, Pile
  <2>3. buf[0 + 1] = NUL /\ 0 <= Header + longest * Cardinality(Done)
    BY <1>1, <2>2 DEF LogInit
  <2> QED BY <1>1, <2>3 DEF TextBound
<1>4. OffsetBound
  BY DEF LogInit, OffsetBound
<1> QED BY <1>2, <1>3, <1>4 DEF LogBound

\* A place in the buffer that holds NUL bounds the text after the next write.
LEMMA ClearBound ==
  ASSUME LogBound, NEW r \in Loggers, NEW l \in Bodies, Clear(r, l)
  PROVE  LogBound'
<1>1. /\ stage[r] = "idle" /\ stage' = [stage EXCEPT ![r] = "header"]
      /\ buf' = [i \in 1..Size |-> NUL] /\ body' = [body EXCEPT ![r] = l]
      /\ longest' = IF l > longest THEN l ELSE longest
      /\ mixed' \subseteq mixed \cup Busy \cup {r}
      /\ UNCHANGED <<rlog_en, offset, len, frame>>
  BY DEF Clear, Advance
<1>2. longest \in Nat /\ longest' \in Nat /\ longest <= longest' /\ l <= longest'
  <2>1. longest \in Nat /\ l \in Nat
    BY LogAssumption DEF LogBound, LogTypeOK, LogAssumption
  <2> QED BY <1>1, <2>1
<1>3. LogTypeOK'
  BY <1>1, <1>2 DEF LogBound, LogTypeOK, Busy, Places
<1>4. OffsetBound'
  <2> DEFINE c == Cardinality(Loggers)
             x == longest * (c - 1)
             x1 == longest' * (c - 1)
             y == longest * c
             y1 == longest' * c
  <2>1. /\ x \in Nat /\ x1 \in Nat /\ x <= x1
        /\ y \in Nat /\ y1 \in Nat /\ y <= y1
    <3>1. c \in Nat /\ c - 1 \in Nat
      BY Pile, <1>2
    <3> HIDE DEF c
    <3>2. x \in Nat /\ x1 \in Nat /\ x <= x1
      BY <1>2, <3>1, TextGrows
    <3>3. y \in Nat /\ y1 \in Nat /\ y <= y1
      BY <1>2, <3>1, TextGrows
    <3> QED BY <3>2, <3>3
  <2>2. /\ OffsetBound /\ \A q \in Loggers : offset[q] \in 0..Size /\ body[q] \in Bodies
        /\ Header \in Nat /\ Size \in Nat /\ Bodies \subseteq Nat
    BY LogAssumption DEF LogBound, LogTypeOK, LogAssumption
  <2>6. \A q \in Loggers : body[q] \in Nat
    BY <2>2, Zenon
  <2> HIDE DEF x, x1, y, y1
  <2> SUFFICES ASSUME NEW q \in Loggers
               PROVE  /\ stage'[q] \in {"header", "offset", "body"} => body'[q] <= longest'
                      /\ stage'[q] = "body" => offset'[q] <= Header + x1
                      /\ stage'[q] = "copy" => len'[q] <= MaxLen
                      /\ stage'[q] = "wild" => Header + y1 + 1 > Size
    BY DEF OffsetBound, x1, y1
  <2>3. /\ stage[q] \in {"header", "offset", "body"} => body[q] <= longest
        /\ stage[q] = "body" => offset[q] <= Header + x
        /\ stage[q] = "copy" => len[q] <= MaxLen
        /\ stage[q] = "wild" => Header + y + 1 > Size
    BY <2>2 DEF OffsetBound, x, y
  <2>4. CASE q = r
    BY <1>1, <1>2, <2>4 DEF LogBound, LogTypeOK
  <2>5. CASE q # r
    <3>1. /\ stage'[q] = stage[q] /\ body'[q] = body[q]
          /\ offset'[q] = offset[q] /\ len'[q] = len[q]
      BY <1>1, <2>5 DEF LogBound, LogTypeOK
    <3>2. offset[q] \in Nat /\ body[q] \in Nat /\ Header \in Nat /\ Size \in Nat
      BY <2>2, <2>6
    <3>3. /\ body[q] <= longest => body[q] <= longest'
          /\ offset[q] <= Header + x => offset[q] <= Header + x1
          /\ Header + y + 1 > Size => Header + y1 + 1 > Size
      BY <1>2, <2>1, <3>2
    <3> QED BY <2>3, <3>1, <3>3
  <2> QED BY <2>4, <2>5
<1>5. TextBound'
  <2>1. Done' \in SUBSET Loggers
    BY DEF Done
  <2>2. longest' * Cardinality(Done') \in Nat
    BY <1>2, <2>1, Pile
  <2>3. /\ 0 \in 0..(Size - 1) /\ buf'[0 + 1] = NUL
        /\ 0 <= Header + longest' * Cardinality(Done')
    BY <1>1, <2>2, LogAssumption DEF LogAssumption
  <2> QED BY <2>3 DEF TextBound
<1> QED BY <1>3, <1>4, <1>5 DEF LogBound

\* A write that leaves the buffer changes nothing the invariant sees.
LEMMA OverrunBound ==
  ASSUME LogBound, NEW r \in Loggers, stage' = [stage EXCEPT ![r] = "wild"],
         Header + longest * Cardinality(Loggers) + 1 > Size,
         offset' \in {offset, [offset EXCEPT ![r] = 0]},
         UNCHANGED <<buf, rlog_en, body, len, frame, mixed, longest>>
  PROVE  LogBound'
<1>1. LogTypeOK'
  <2>1. offset \in [Loggers -> 0..Size] /\ 0 \in 0..Size
    BY LogAssumption DEF LogBound, LogTypeOK, LogAssumption
  <2>2. offset' \in [Loggers -> 0..Size] /\ stage' \in [Loggers -> Places]
    BY <2>1 DEF LogBound, LogTypeOK, Places
  <2> QED BY <2>2 DEF LogBound, LogTypeOK
<1>2. OffsetBound'
  <2>1. /\ \A q \in Loggers \ {r} : stage'[q] = stage[q] /\ offset'[q] = offset[q]
        /\ stage'[r] = "wild"
    BY DEF LogBound, LogTypeOK
  <2> QED BY <2>1 DEF LogBound, OffsetBound
<1>3. TextBound'
  <2>1. PICK e \in 0..(Size - 1) : buf[e + 1] = NUL /\ e <= Header + longest * Cardinality(Done)
    BY DEF LogBound, TextBound
  <2>2. Done \subseteq Done' /\ Done' \in SUBSET Loggers /\ longest \in Nat
    BY DEF Done, Pending, LogBound, LogTypeOK
  <2>3. IsFiniteSet(Done') /\ IsFiniteSet(Done) /\ Cardinality(Done) <= Cardinality(Done')
    BY <2>2, FS_Subset, LogAssumption DEF LogAssumption
  <2>4. Cardinality(Done) \in Nat /\ Cardinality(Done') \in Nat
    BY <2>3, FS_CardinalityType
  <2> DEFINE x == longest * Cardinality(Done)
             y == longest * Cardinality(Done')
  <2>5. x \in Nat /\ y \in Nat /\ x <= y
    <3> HIDE DEF Done
    <3> QED BY <2>2, <2>3, <2>4, TextGrows
  <2>6. e <= Header + x
    BY <2>1
  <2> HIDE DEF x, y
  <2>7. e <= Header + y
    BY <2>5, <2>6, LogAssumption DEF LogAssumption
  <2>8. longest' = longest /\ buf' = buf
    OBVIOUS
  <2> QED BY <2>1, <2>7, <2>8 DEF TextBound, y
<1> QED BY <1>1, <1>2, <1>3 DEF LogBound

LEMMA WriteHeaderBound ==
  ASSUME LogBound, NEW r \in Loggers, WriteHeader(r)
  PROVE  LogBound'
<1>0. /\ stage[r] = "header" /\ UNCHANGED <<rlog_en, body, offset, len, frame, mixed, longest>>
      /\ Size \in Nat /\ Header \in Nat /\ longest \in Nat
  BY LogAssumption DEF WriteHeader, Write, Advance, LogBound, LogTypeOK, LogAssumption
<1>5. CASE ~(Header + 1 <= Size)
  <2>1. stage' = [stage EXCEPT ![r] = "wild"] /\ buf' = buf
    BY <1>0, <1>5 DEF WriteHeader, Write, Advance
  <2>2. longest * Cardinality(Loggers) \in Nat
    BY <1>0, Pile
  <2>3. Header + longest * Cardinality(Loggers) + 1 > Size
    BY <1>0, <1>5, <2>2
  <2> QED BY <1>0, <2>1, <2>3, OverrunBound
<1>6. CASE Header + 1 <= Size
  <2>1. /\ stage' = [stage EXCEPT ![r] = "offset"]
        /\ buf' = [i \in 1..Size |-> IF i \in 1..Header THEN r
                                    ELSE IF i = Header + 1 THEN NUL ELSE buf[i]]
    BY <1>0, <1>6 DEF WriteHeader, Write, Advance
  <2>2. LogTypeOK'
    <3>1. buf' \in [1..Size -> Loggers \cup {NUL}]
      BY <2>1 DEF LogBound, LogTypeOK
    <3> QED BY <1>0, <2>1, <3>1 DEF LogBound, LogTypeOK, Places
  <2>3. OffsetBound'
    BY <1>0, <2>1 DEF LogBound, LogTypeOK, OffsetBound
  <2>4. TextBound'
    <3>1. Done' \in SUBSET Loggers
      BY DEF Done
    <3>2. longest' * Cardinality(Done') \in Nat
      BY <1>0, <3>1, Pile
    <3>3. Header \in 0..(Size - 1) /\ Header <= Header + longest' * Cardinality(Done')
      BY <1>0, <1>6, <3>2
    <3>4. buf'[Header + 1] = NUL
      BY <1>0, <2>1, <3>3
    <3> QED BY <3>3, <3>4 DEF TextBound
  <2> QED BY <2>2, <2>3, <2>4 DEF LogBound
<1> QED BY <1>5, <1>6

\* The others' bodies are one fewer than the tasks.
LEMMA OthersDone ==
  ASSUME NEW r \in Pending, longest \in Nat
  PROVE  longest * Cardinality(Done) <= longest * (Cardinality(Loggers) - 1)
<1>1. r \in Loggers /\ Done \in SUBSET (Loggers \ {r}) /\ IsFiniteSet(Loggers)
  BY LogAssumption DEF Pending, Done, LogAssumption
<1>2. /\ Cardinality(Done) \in Nat /\ Cardinality(Done) <= Cardinality(Loggers \ {r})
      /\ Cardinality(Loggers \ {r}) = Cardinality(Loggers) - 1
  BY <1>1, FS_Subset, FS_RemoveElement, FS_CardinalityType
<1>3. Cardinality(Loggers) - 1 \in Nat
  BY <1>1, Pile
<1> HIDE DEF Done
<1> QED BY <1>2, <1>3, TextGrows

LEMMA FindEndBound ==
  ASSUME LogBound, NEW r \in Loggers, FindEnd(r)
  PROVE  LogBound'
<1>1. /\ stage[r] = "offset" /\ stage' = [stage EXCEPT ![r] = "body"]
      /\ offset' = [offset EXCEPT ![r] = StrLen(buf)]
      /\ UNCHANGED <<buf, rlog_en, body, len, frame, mixed, longest>>
  BY DEF FindEnd, Advance
<1>2. PICK e \in 0..(Size - 1) : buf[e + 1] = NUL /\ e <= Header + longest * Cardinality(Done)
  BY DEF LogBound, TextBound
<1>3. StrLen(buf) \in 0..(Size - 1) /\ StrLen(buf) <= e
  BY <1>2, StrLenFacts
<1>4. StrLen(buf) <= Header + longest * (Cardinality(Loggers) - 1)
  <2>1. r \in Pending
    BY <1>1 DEF Pending
  <2>2. Done \in SUBSET Loggers
    BY DEF Done
  <2>4. longest \in Nat
    BY DEF LogBound, LogTypeOK
  <2>3. longest * Cardinality(Done) \in Nat /\ longest * (Cardinality(Loggers) - 1) \in Nat
    BY <2>2, <2>4, Pile
  <2> QED BY <1>2, <1>3, <2>1, <2>3, <2>4, OthersDone, LogAssumption DEF LogAssumption
<1>5. LogTypeOK'
  <2>1. StrLen(buf) \in 0..Size
    BY <1>3, LogAssumption DEF LogAssumption
  <2> QED BY <1>1, <2>1 DEF LogBound, LogTypeOK, Places
<1>6. OffsetBound'
  <2>1. stage \in [Loggers -> Places] /\ offset \in [Loggers -> 0..Size]
    BY DEF LogBound, LogTypeOK
  <2>2. \A q \in Loggers : q # r => stage'[q] = stage[q] /\ offset'[q] = offset[q]
    BY <1>1, <2>1
  <2>3. stage'[r] = "body" /\ offset'[r] = StrLen(buf)
    BY <1>1, <2>1
  <2> QED BY <1>1, <1>4, <2>2, <2>3 DEF LogBound, OffsetBound
<1>7. TextBound'
  <2>1. Done' = Done
    BY <1>1 DEF Done, Pending, LogBound, LogTypeOK
  <2> QED BY <1>1, <1>2, <2>1 DEF TextBound
<1> QED BY <1>5, <1>6, <1>7 DEF LogBound

\* A body that overruns the buffer has found the others' there, or is too long.
LEMMA BodyOverruns ==
  ASSUME LogBound, NEW r \in Loggers, stage[r] = "body"
  PROVE  /\ offset[r] \in Nat /\ body[r] \in Nat /\ body[r] <= longest
         /\ offset[r] + body[r] + 1 > Size
              => Header + longest * Cardinality(Loggers) + 1 > Size
<1>1. /\ offset[r] \in Nat /\ body[r] \in Nat /\ body[r] <= longest /\ longest \in Nat
      /\ offset[r] <= Header + longest * (Cardinality(Loggers) - 1)
      /\ Header \in Nat /\ Size \in Nat
  <2>1. /\ offset[r] \in 0..Size /\ body[r] \in Bodies /\ longest \in Nat
        /\ Header \in Nat /\ Size \in Nat /\ Bodies \subseteq Nat
    BY LogAssumption DEF LogBound, LogTypeOK, LogAssumption
  <2>2. /\ body[r] <= longest
        /\ offset[r] <= Header + longest * (Cardinality(Loggers) - 1)
    BY DEF LogBound, OffsetBound
  <2>3. offset[r] \in Nat
    BY <2>1
  <2>4. body[r] \in Nat
    BY <2>1, Zenon
  <2> QED BY <2>1, <2>2, <2>3, <2>4
<1> DEFINE x == longest * (Cardinality(Loggers) - 1)
           y == longest * Cardinality(Loggers)
<1>2. x \in Nat /\ y = x + longest /\ offset[r] <= Header + x
  BY <1>1, Pile
<1> HIDE DEF x, y
<1>3. offset[r] + body[r] + 1 > Size => Header + y + 1 > Size
  BY <1>1, <1>2
<1> QED BY <1>1, <1>3 DEF y

LEMMA WriteBodyBound ==
  ASSUME LogBound, NEW r \in Loggers, WriteBody(r)
  PROVE  LogBound'
<1> DEFINE o == offset[r]
           l == body[r]
<1>0. /\ stage[r] = "body" /\ offset' = [offset EXCEPT ![r] = 0]
      /\ UNCHANGED <<rlog_en, body, len, frame, mixed, longest>>
  BY DEF WriteBody, Write, Advance
<1>9. CASE ~(o + l + 1 <= Size)
  <2>1. stage' = [stage EXCEPT ![r] = "wild"] /\ buf' = buf
    BY <1>9 DEF WriteBody, Write, Advance
  <2>2. o + l + 1 > Size
    BY <1>0, <1>9, BodyOverruns, LogAssumption DEF LogAssumption
  <2> QED BY <1>0, <2>1, <2>2, BodyOverruns, OverrunBound
<1> SUFFICES ASSUME o + l + 1 <= Size PROVE LogBound'
  BY <1>9
<1>1. /\ stage[r] = "body" /\ stage' = [stage EXCEPT ![r] = "measure"]
      /\ buf' = [i \in 1..Size |-> IF i \in (o + 1)..(o + l) THEN r
                                  ELSE IF i = o + l + 1 THEN NUL ELSE buf[i]]
      /\ offset' = [offset EXCEPT ![r] = 0]
      /\ UNCHANGED <<rlog_en, body, len, frame, mixed, longest>>
  BY DEF WriteBody, Write, Advance
<1>2. /\ o \in Nat /\ l \in Nat /\ l <= longest /\ o + l \in 0..(Size - 1)
      /\ longest \in Nat
  BY <1>1, BodyOverruns, LogAssumption DEF LogBound, LogTypeOK, LogAssumption
<1>3. LogTypeOK'
  <2>1. buf' \in [1..Size -> Loggers \cup {NUL}]
    BY <1>1 DEF LogBound, LogTypeOK
  <2> QED BY <1>1, <2>1, LogAssumption DEF LogBound, LogTypeOK, Places, LogAssumption
<1>4. OffsetBound'
  BY <1>1 DEF LogBound, LogTypeOK, OffsetBound
<1>5. PICK e \in 0..(Size - 1) : buf[e + 1] = NUL /\ e <= Header + longest * Cardinality(Done)
  BY DEF LogBound, TextBound
<1>6. /\ Cardinality(Done) \in Nat /\ Cardinality(Done') = Cardinality(Done) + 1
      /\ longest * Cardinality(Done) \in Nat
      /\ longest * Cardinality(Done') = longest * Cardinality(Done) + longest
  <2>1. Done' = Done \cup {r} /\ r \notin Done /\ Done \in SUBSET Loggers
    BY <1>1 DEF Done, Pending, LogBound, LogTypeOK
  <2>2. IsFiniteSet(Done)
    BY <2>1, FS_Subset, LogAssumption DEF LogAssumption
  <2>3. Cardinality(Done) \in Nat /\ Cardinality(Done') = Cardinality(Done) + 1
    BY <2>1, <2>2, FS_AddElement, FS_CardinalityType
  <2> HIDE DEF Done
  <2> QED BY <1>2, <2>3, TextGrows
<1>7. TextBound'
  <2> DEFINE x == longest * Cardinality(Done)
             y == longest * Cardinality(Done')
  <2>1. x \in Nat /\ y = x + longest /\ e <= Header + x
    BY <1>5, <1>6
  <2>2. /\ \A i \in 1..Size : i \in 1..Size =>
             buf'[i] = IF i \in (o + 1)..(o + l) THEN r
                       ELSE IF i = o + l + 1 THEN NUL ELSE buf[i]
    BY <1>1
  <2> SUFFICES \E f \in 0..(Size - 1) : buf'[f + 1] = NUL /\ f <= Header + y
    BY <1>1 DEF TextBound
  <2> HIDE DEF x, y
  <2>3. CASE o <= e \* the body's own terminator
    <3>1. o + l + 1 \in 1..Size
      BY <1>2, LogAssumption DEF LogAssumption
    <3>2. buf'[(o + l) + 1] = NUL
      BY <1>2, <2>2, <3>1
    <3>3. o + l <= Header + y
      BY <1>2, <1>5, <2>1, <2>3, LogAssumption DEF LogAssumption
    <3> QED BY <1>2, <3>2, <3>3
  <2>4. CASE o > e \* the text ended before the body
    <3>1. e + 1 \in 1..Size /\ e + 1 \notin (o + 1)..(o + l)
      BY <1>2, <2>4, LogAssumption DEF LogAssumption
    <3>2. buf'[e + 1] = NUL
      BY <1>5, <2>2, <3>1
    <3>3. e <= Header + y
      BY <1>2, <1>5, <2>1, LogAssumption DEF LogAssumption
    <3> QED BY <3>2, <3>3
  <2> QED BY <1>2, <2>3, <2>4
<1> QED BY <1>3, <1>4, <1>7 DEF LogBound

LEMMA MeasureBound ==
  ASSUME LogBound, NEW r \in Loggers, Measure(r)
  PROVE  LogBound'
<1>1. /\ stage[r] = "measure" /\ stage' = [stage EXCEPT ![r] = "print"]
      /\ len' = [len EXCEPT ![r] = StrLen(buf) + 1]
      /\ UNCHANGED <<buf, rlog_en, body, offset, frame, mixed, longest>>
  BY DEF Measure, Advance
<1>2. StrLen(buf) + 1 \in 0..Size
  <2>1. PICK e \in 0..(Size - 1) : buf[e + 1] = NUL
    BY DEF LogBound, TextBound
  <2>2. StrLen(buf) \in 0..(Size - 1)
    BY <2>1, StrLenFacts
  <2> QED BY <2>2, LogAssumption DEF LogAssumption
<1>3. LogTypeOK'
  BY <1>1, <1>2 DEF LogBound, LogTypeOK, Places
<1>4. OffsetBound'
  BY <1>1 DEF LogBound, LogTypeOK, OffsetBound
<1>5. Done' = Done
  BY <1>1 DEF Done, Pending, LogBound, LogTypeOK
<1> QED BY <1>1, <1>3, <1>4, <1>5 DEF LogBound, TextBound

LEMMA TargetPrintBound ==
  ASSUME LogBound, NEW r \in Loggers, TargetPrint(r)
  PROVE  LogBound'
<1>1. /\ stage[r] = "print"
      /\ \E p \in {"build", "idle"} : stage' = [stage EXCEPT ![r] = p]
      /\ len' = [len EXCEPT ![r] = len[r] % Width] \/ len' = [len EXCEPT ![r] = 0]
      /\ UNCHANGED <<buf, rlog_en, body, offset, frame, mixed, longest>>
  BY DEF TargetPrint, Advance
<1>2. len[r] % Width \in 0..Size /\ 0 \in 0..Size
  <2>1. len[r] \in 0..Size /\ Width \in Nat \ {0} /\ Size \in Nat
    BY LogAssumption DEF LogBound, LogTypeOK, LogAssumption
  <2>2. len[r] % Width \in Nat /\ len[r] % Width <= len[r]
    BY <2>1, ModFacts
  <2> QED BY <2>1, <2>2
<1>3. LogTypeOK'
  BY <1>1, <1>2 DEF LogBound, LogTypeOK, Places
<1>4. OffsetBound'
  BY <1>1 DEF LogBound, LogTypeOK, OffsetBound
<1>5. Done' = Done
  BY <1>1 DEF Done, Pending, LogBound, LogTypeOK
<1> QED BY <1>1, <1>3, <1>4, <1>5 DEF LogBound, TextBound

LEMMA BuildSendBound ==
  ASSUME LogBound, NEW r \in Loggers, BuildSend(r)
  PROVE  LogBound'
<1>1. /\ stage[r] = "build"
      /\ \E p \in {"copy", "asleep"} :
           /\ stage' = [stage EXCEPT ![r] = p]
           /\ p = "copy" => len[r] <= MaxLen
      /\ UNCHANGED <<buf, rlog_en, body, offset, len, frame, mixed, longest>>
  BY DEF BuildSend, Advance
<1>3. LogTypeOK'
  BY <1>1 DEF LogBound, LogTypeOK, Places
<1>4. OffsetBound'
  BY <1>1 DEF LogBound, LogTypeOK, OffsetBound
<1>5. Done' = Done
  BY <1>1 DEF Done, Pending, LogBound, LogTypeOK
<1> QED BY <1>1, <1>3, <1>4, <1>5 DEF LogBound, TextBound

LEMMA CopyBound ==
  ASSUME LogBound, NEW r \in Loggers, Copy(r)
  PROVE  LogBound'
<1>1. /\ stage[r] = "copy" /\ stage' = [stage EXCEPT ![r] = "post"]
      /\ frame' = [frame EXCEPT ![r] = SubSeq(buf, 1, len[r])]
      /\ UNCHANGED <<buf, rlog_en, body, offset, len, mixed, longest>>
  BY DEF Copy, Advance
<1>2. /\ SubSeq(buf, 1, len[r]) \in Seq(Loggers \cup {NUL})
      /\ Len(SubSeq(buf, 1, len[r])) <= MaxLen
  <2>1. /\ len[r] \in 0..Size /\ len[r] <= MaxLen /\ Size \in Nat
        /\ buf \in [1..Size -> Loggers \cup {NUL}]
    BY <1>1, LogAssumption DEF LogBound, LogTypeOK, OffsetBound, LogAssumption
  <2>2. buf \in Seq(Loggers \cup {NUL}) /\ Len(buf) = Size
    BY <2>1
  <2> QED BY <2>1, <2>2
<1>3. LogTypeOK'
  BY <1>1, <1>2 DEF LogBound, LogTypeOK, Places
<1>4. OffsetBound'
  BY <1>1 DEF LogBound, LogTypeOK, OffsetBound
<1>5. Done' = Done
  BY <1>1 DEF Done, Pending, LogBound, LogTypeOK
<1> QED BY <1>1, <1>3, <1>4, <1>5 DEF LogBound, TextBound

LEMMA PostLineBound ==
  ASSUME LogBound, NEW r \in Loggers, PostLine(r)
  PROVE  LogBound'
<1>1. /\ stage[r] = "post" /\ stage' = [stage EXCEPT ![r] = "idle"]
      /\ frame' = [frame EXCEPT ![r] = <<>>] /\ len' = [len EXCEPT ![r] = 0]
      /\ UNCHANGED <<buf, rlog_en, body, offset, mixed, longest>>
  BY DEF PostLine, Advance
<1>2. LogTypeOK'
  <2>1. 0 \in 0..Size /\ Len(<<>>) <= MaxLen /\ <<>> \in Seq(Loggers \cup {NUL})
    BY LogAssumption DEF LogAssumption
  <2> QED BY <1>1, <2>1 DEF LogBound, LogTypeOK, Places
<1>3. OffsetBound'
  BY <1>1 DEF LogBound, LogTypeOK, OffsetBound
<1>4. Done' = Done
  BY <1>1 DEF Done, Pending, LogBound, LogTypeOK
<1> QED BY <1>1, <1>2, <1>3, <1>4 DEF LogBound, TextBound

LEMMA QuietBound ==
  ASSUME LogBound, Remote \/ UNCHANGED logVars PROVE LogBound'
<1>1. UNCHANGED <<buf, stage, body, offset, len, frame, mixed, longest>> /\ rlog_en' \in BOOLEAN
  BY DEF Remote, logVars, LogBound, LogTypeOK
<1>2. LogTypeOK'
  BY <1>1 DEF LogBound, LogTypeOK
<1>3. OffsetBound' /\ Done' = Done
  BY <1>1 DEF LogBound, OffsetBound, Done, Pending
<1> QED BY <1>1, <1>2, <1>3 DEF LogBound, TextBound

LEMMA LogBoundStep ==
  ASSUME LogBound, [LogNext]_logVars PROVE LogBound'
<1>1. CASE Remote \/ UNCHANGED logVars
  BY <1>1, QuietBound
<1>2. ASSUME NEW r \in Loggers, Log(r) PROVE LogBound'
  <2>1. CASE \E l \in Bodies : Clear(r, l)
    BY <2>1, ClearBound
  <2>2. CASE WriteHeader(r)
    BY <2>2, WriteHeaderBound
  <2>3. CASE FindEnd(r)
    BY <2>3, FindEndBound
  <2>4. CASE WriteBody(r)
    BY <2>4, WriteBodyBound
  <2>5. CASE Measure(r)
    BY <2>5, MeasureBound
  <2>6. CASE TargetPrint(r)
    BY <2>6, TargetPrintBound
  <2>7. CASE BuildSend(r)
    BY <2>7, BuildSendBound
  <2>8. CASE Copy(r)
    BY <2>8, CopyBound
  <2>9. CASE PostLine(r)
    BY <2>9, PostLineBound
  <2> QED BY <1>2, <2>1, <2>2, <2>3, <2>4, <2>5, <2>6, <2>7, <2>8, <2>9 DEF Log
<1> QED BY <1>1, <1>2 DEF LogNext

\* One task's own text.
LEMMA TextNat ==
  ASSUME LogTypeOK, NEW r \in Loggers
  PROVE  /\ body[r] \in Nat /\ Header \in Nat /\ Size \in Nat /\ r # NUL
         /\ Text(r) \in Nat /\ Header <= Text(r)
<1>1. body[r] \in Nat /\ Header \in Nat /\ Size \in Nat /\ r # NUL
  BY LogAssumption DEF LogTypeOK, LogAssumption
<1> QED BY <1>1 DEF Text

\* strlen of a buffer that holds l bytes and then NUL.
LEMMA HoldsLength ==
  ASSUME LogTypeOK, NEW r \in Loggers, NEW l \in 0..(Size - 1), Holds(buf, r, l)
  PROVE  StrLen(buf) = l
<1>1. DOMAIN buf = 1..Size /\ Size \in Nat /\ r # NUL
  BY LogAssumption DEF LogTypeOK, LogAssumption
<1>2. buf[l + 1] = NUL
  BY <1>1 DEF Holds
<1>3. /\ StrLen(buf) \in 0..(Size - 1) /\ StrLen(buf) <= l
      /\ buf[StrLen(buf) + 1] = NUL
  BY <1>2, StrLenFacts
<1>4. ASSUME StrLen(buf) < l PROVE FALSE
  <2>1. StrLen(buf) + 1 \in DOMAIN buf /\ StrLen(buf) + 1 <= l
    BY <1>1, <1>3, <1>4
  <2> QED BY <1>1, <1>3, <2>1 DEF Holds
<1> QED BY <1>3, <1>4

-----------------------------------------------------------------------------
(* What a step means for the task that takes it, if no other overlaps it.  *)
LEMMA ClearLone ==
  ASSUME LogTypeOK, NEW r \in Loggers, NEW l \in Bodies, Clear(r, l) PROVE Lone(r)'
<1>1. stage'[r] = "header" /\ buf' = [i \in 1..Size |-> NUL]
  BY DEF Clear, Advance, LogTypeOK
<1>2. Holds(buf, r, 0)'
  BY <1>1, LogAssumption DEF Holds, LogAssumption
<1> QED BY <1>1, <1>2 DEF Lone

LEMMA WriteHeaderLone ==
  ASSUME LogTypeOK, NEW r \in Loggers, Lone(r), WriteHeader(r) PROVE Lone(r)'
<1>1. stage[r] = "header" /\ body' = body /\ Holds(buf, r, 0)
  BY DEF WriteHeader, Write, Advance, LogTypeOK, Lone
<1>2. CASE Header + 1 <= Size
  <2>1. /\ stage'[r] = "offset" /\ DOMAIN buf = 1..Size /\ DOMAIN buf' = 1..Size
        /\ Size \in Nat /\ Header \in Nat /\ Header < Size
    BY <1>2, TextNat DEF WriteHeader, Write, Advance, LogTypeOK
  <2>2. ASSUME NEW i \in 1..Size PROVE buf'[i] = IF i <= Header THEN r ELSE NUL
    BY <1>1, <1>2, <2>1, <2>2 DEF WriteHeader, Write, Holds
  <2>3. Holds(buf, r, Header)'
    BY <2>1, <2>2 DEF Holds
  <2> QED BY <2>1, <2>3 DEF Lone
<1>3. CASE ~(Header + 1 <= Size)
  <2>1. stage'[r] = "wild"
    BY <1>3, TextNat DEF WriteHeader, Write, Advance, LogTypeOK
  <2>2. Text(r) >= Size /\ Text(r)' = Text(r)
    <3>1. Text(r)' = Text(r)
      BY <1>1 DEF Text
    <3>2. Text(r) \in Nat /\ Header \in Nat /\ Size \in Nat /\ Header <= Text(r)
      BY TextNat
    <3> QED BY <1>3, <3>1, <3>2
  <2> QED BY <2>1, <2>2 DEF Lone
<1> QED BY <1>2, <1>3

LEMMA FindEndLone ==
  ASSUME LogTypeOK, NEW r \in Loggers, Lone(r), FindEnd(r) PROVE Lone(r)'
<1>1. /\ stage[r] = "offset" /\ stage'[r] = "body" /\ offset'[r] = StrLen(buf)
      /\ buf' = buf /\ Holds(buf, r, Header) /\ Header < Size
  BY DEF FindEnd, Advance, LogTypeOK, Lone
<1>2. StrLen(buf) = Header
  <2>1. Header \in 0..(Size - 1)
    BY <1>1, TextNat
  <2> QED BY <1>1, <2>1, HoldsLength
<1> QED BY <1>1, <1>2 DEF Lone, Holds

LEMMA WriteBodyLone ==
  ASSUME LogTypeOK, NEW r \in Loggers, Lone(r), WriteBody(r) PROVE Lone(r)'
<1>1. /\ stage[r] = "body" /\ offset[r] = Header /\ body' = body
      /\ Holds(buf, r, Header) /\ Text(r) = Header + body[r]
  BY DEF WriteBody, Write, Advance, LogTypeOK, Lone, Text
<1>2. CASE Header + body[r] + 1 <= Size
  <2>1. /\ stage'[r] = "measure" /\ DOMAIN buf = 1..Size /\ DOMAIN buf' = 1..Size
        /\ Size \in Nat /\ Header \in Nat /\ body[r] \in Nat /\ Text(r) < Size
    BY <1>1, <1>2, TextNat DEF WriteBody, Write, Advance, LogTypeOK
  <2>4. buf' = [i \in 1..Size |->
                  IF i \in (Header + 1)..(Header + body[r]) THEN r
                  ELSE IF i = Header + body[r] + 1 THEN NUL ELSE buf[i]]
    BY <1>1, <1>2 DEF WriteBody, Write
  <2>2. ASSUME NEW i \in 1..Size PROVE buf'[i] = IF i <= Header + body[r] THEN r ELSE NUL
    <3>1. buf[i] = IF i <= Header THEN r ELSE NUL
      BY <1>1, <2>1 DEF Holds
    <3> QED BY <2>1, <2>4, <3>1
  <2>3. Holds(buf, r, Text(r))' /\ Text(r)' = Text(r)
    BY <1>1, <2>1, <2>2 DEF Holds, Text
  <2> QED BY <2>1, <2>3 DEF Lone
<1>3. CASE ~(Header + body[r] + 1 <= Size)
  <2>1. stage'[r] = "wild"
    BY <1>1, <1>3 DEF WriteBody, Write, Advance, LogTypeOK
  <2>2. Text(r) >= Size /\ Text(r)' = Text(r)
    BY <1>1, <1>3, TextNat DEF Text
  <2> QED BY <2>1, <2>2 DEF Lone
<1> QED BY <1>2, <1>3

LEMMA MeasureLone ==
  ASSUME LogTypeOK, NEW r \in Loggers, Lone(r), Measure(r) PROVE Lone(r)'
<1>1. /\ stage[r] = "measure" /\ stage'[r] = "print" /\ len'[r] = StrLen(buf) + 1
      /\ buf' = buf /\ body'[r] = body[r] /\ Holds(buf, r, Text(r)) /\ Text(r) < Size
  BY DEF Measure, Advance, LogTypeOK, Lone
<1>2. StrLen(buf) = Text(r)
  <2>1. Text(r) \in 0..(Size - 1)
    BY <1>1, TextNat
  <2> QED BY <1>1, <2>1, HoldsLength
<1> QED BY <1>1, <1>2 DEF Lone, Holds, Text

LEMMA TargetPrintLone ==
  ASSUME LogTypeOK, NEW r \in Loggers, Lone(r), TargetPrint(r) PROVE Lone(r)'
<1>1. /\ stage[r] = "print" /\ buf' = buf /\ body'[r] = body[r]
      /\ Holds(buf, r, Text(r)) /\ len[r] = Text(r) + 1
  BY DEF TargetPrint, Advance, LogTypeOK, Lone
<1>2. CASE stage'[r] = "idle"
  BY <1>2 DEF Lone
<1>3. CASE stage'[r] = "build" /\ len'[r] = len[r] % Width
  BY <1>1, <1>3 DEF Lone, Holds, Text
<1> QED BY <1>2, <1>3 DEF TargetPrint, Advance, LogTypeOK

LEMMA BuildSendLone ==
  ASSUME LogTypeOK, NEW r \in Loggers, Lone(r), BuildSend(r) PROVE Lone(r)'
<1>1. /\ stage[r] = "build" /\ UNCHANGED <<buf, body, len>>
      /\ Holds(buf, r, Text(r)) /\ len[r] = (Text(r) + 1) % Width
  BY DEF BuildSend, Advance, LogTypeOK, Lone
<1>2. CASE len[r] <= MaxLen /\ stage'[r] = "copy"
  BY <1>1, <1>2 DEF Lone, Holds, Text
<1>3. CASE ~(len[r] <= MaxLen) /\ stage'[r] = "asleep"
  <2>1. len[r] > MaxLen
    BY <1>3, LogAssumption DEF LogTypeOK, LogAssumption
  <2> QED BY <1>1, <1>3, <2>1 DEF Lone, Text
<1> QED BY <1>2, <1>3 DEF BuildSend, Advance, LogTypeOK

LEMMA CopyLone ==
  ASSUME LogTypeOK, NEW r \in Loggers, Lone(r), Copy(r) PROVE Lone(r)'
<1> DEFINE f == SubSeq(buf, 1, len[r])
<1>1. /\ stage[r] = "copy" /\ stage'[r] = "post" /\ frame'[r] = f
      /\ body'[r] = body[r]
      /\ Holds(buf, r, Text(r)) /\ len[r] = (Text(r) + 1) % Width
  BY DEF Copy, Advance, LogTypeOK, Lone
<1>2. /\ Len(f) = len[r] /\ DOMAIN f = 1..len[r]
      /\ \A i \in 1..len[r] : f[i] = buf[i] /\ i \in DOMAIN buf
  <2>1. /\ len[r] \in 0..Size /\ Size \in Nat
        /\ buf \in [1..Size -> Loggers \cup {NUL}]
    BY LogAssumption DEF LogTypeOK, LogAssumption
  <2>2. buf \in Seq(Loggers \cup {NUL}) /\ Len(buf) = Size
    BY <2>1
  <2> QED BY <2>1, <2>2
<1> HIDE DEF f
<1>3. Holds(f, r, Text(r))
  BY <1>1, <1>2 DEF Holds
<1> QED BY <1>1, <1>2, <1>3 DEF Lone, Holds, Text

LEMMA PostLineLone ==
  ASSUME LogTypeOK, NEW r \in Loggers, PostLine(r) PROVE Lone(r)'
BY DEF PostLine, Advance, LogTypeOK, Lone

LEMMA QuietLone ==
  ASSUME LogTypeOK, NEW r \in Loggers, Lone(r), Remote \/ UNCHANGED logVars PROVE Lone(r)'
BY DEF Remote, logVars, Lone, Holds, Text

\* Any step of a task but its first.
Later(r) ==
  \/ WriteHeader(r) \/ FindEnd(r) \/ WriteBody(r) \/ Measure(r)
  \/ TargetPrint(r) \/ BuildSend(r) \/ Copy(r) \/ PostLine(r)

LEMMA LaterLone ==
  ASSUME LogTypeOK, NEW r \in Loggers, Lone(r), Later(r)
  PROVE  Lone(r)'
BY WriteHeaderLone, FindEndLone, WriteBodyLone, MeasureLone, TargetPrintLone,
   BuildSendLone, CopyLone, PostLineLone DEF Later

\* Who else is busy does not change.
LEMMA LaterAlone ==
  ASSUME LogTypeOK, NEW r \in Loggers, Later(r)
  PROVE  /\ r \in Busy /\ mixed' = mixed /\ Busy' \subseteq Busy
         /\ \A q \in Loggers : q # r => stage'[q] = stage[q] /\ body'[q] = body[q]
<1>1. /\ \E p \in Places : stage' = [stage EXCEPT ![r] = p]
      /\ stage[r] \notin {"idle", "asleep"}
      /\ mixed' = mixed /\ body' = body
  <2>1. CASE WriteHeader(r) \/ WriteBody(r)
    BY <2>1 DEF WriteHeader, WriteBody, Write, Advance, Places
  <2>2. CASE ~(WriteHeader(r) \/ WriteBody(r))
    BY <2>2 DEF Later, FindEnd, Measure, TargetPrint, BuildSend, Copy, PostLine, Advance,
                Places
  <2> QED BY <2>1, <2>2
<1> QED BY <1>1 DEF LogTypeOK, Busy

\* A task that is not busy stays as it is whatever the others do.
LEMMA RestingLone ==
  ASSUME NEW r \in Loggers, Lone(r), r \notin Busy,
         stage'[r] = stage[r], body'[r] = body[r]
  PROVE  Lone(r)'
BY DEF Lone, Busy, Text

LEMMA LogInvStep ==
  ASSUME LogInv, [LogNext]_logVars PROVE LogInv'
<1>1. LogTypeOK /\ LogBound'
  BY LogBoundStep DEF LogInv, LogBound
<1>2. CASE Remote \/ UNCHANGED logVars
  <2>1. mixed' = mixed /\ stage' = stage
    BY <1>2 DEF Remote, logVars
  <2>2. Alone'
    BY <2>1 DEF LogInv, Alone, Busy
  <2>3. ASSUME NEW r \in Loggers \ mixed' PROVE Lone(r)'
    BY <1>1, <1>2, <2>1, QuietLone DEF LogInv
  <2> QED BY <1>1, <2>2, <2>3 DEF LogInv
<1>3. ASSUME NEW r \in Loggers, NEW l \in Bodies, Clear(r, l) PROVE LogInv'
  <2>1. /\ Busy' = Busy \cup {r} /\ r \notin Busy
        /\ \A q \in Loggers : q # r => stage'[q] = stage[q] /\ body'[q] = body[q]
    BY <1>1, <1>3 DEF Clear, Advance, LogTypeOK, Busy
  <2>2. CASE Busy = {} /\ mixed' = mixed \ {r}
    <3>1. Alone'
      BY <2>1, <2>2 DEF Alone
    <3>2. ASSUME NEW q \in Loggers \ mixed' PROVE Lone(q)'
      <4>1. CASE q = r
        BY <1>1, <1>3, <4>1, ClearLone
      <4>2. CASE q # r
        BY <2>1, <2>2, <4>2, RestingLone DEF LogInv
      <4> QED BY <4>1, <4>2
    <3> QED BY <1>1, <3>1, <3>2 DEF LogInv
  <2>3. CASE mixed' = mixed \cup Busy \cup {r}
    <3>1. Alone'
      BY <2>1, <2>3 DEF Alone
    <3>2. ASSUME NEW q \in Loggers \ mixed' PROVE Lone(q)'
      BY <2>1, <2>3, RestingLone DEF LogInv
    <3> QED BY <1>1, <3>1, <3>2 DEF LogInv
  <2> QED BY <1>3, <2>2, <2>3 DEF Clear
<1>4. ASSUME NEW r \in Loggers, Later(r) PROVE LogInv'
  <2>1. /\ r \in Busy /\ mixed' = mixed /\ Busy' \subseteq Busy
        /\ \A q \in Loggers : q # r => stage'[q] = stage[q] /\ body'[q] = body[q]
    BY <1>1, <1>4, LaterAlone
  <2>2. Alone'
    BY <2>1 DEF LogInv, Alone
  <2>3. ASSUME NEW q \in Loggers \ mixed' PROVE Lone(q)'
    <3>1. CASE q = r
      BY <1>1, <1>4, <2>1, <3>1, LaterLone DEF LogInv
    <3>2. CASE q # r
      <4>1. q \notin Busy
        BY <2>1, <3>2 DEF LogInv, Alone
      <4> QED BY <2>1, <3>2, <4>1, RestingLone DEF LogInv
    <3> QED BY <3>1, <3>2
  <2> QED BY <1>1, <2>2, <2>3 DEF LogInv
<1> QED BY <1>2, <1>3, <1>4 DEF LogNext, Log, Later

LEMMA LogInitInv == ASSUME LogInit PROVE LogInv
<1>1. stage = [r \in Loggers |-> "idle"]
  BY DEF LogInit
<1>2. Alone /\ \A r \in Loggers \ mixed : Lone(r)
  BY <1>1 DEF Alone, Busy, Lone
<1> QED BY <1>2, LogInitBound DEF LogInv

LEMMA LogInductive == LogSpec => []LogInv
<1>1. LogInit => LogInv
  BY LogInitInv
<1>2. LogInv /\ [LogNext]_logVars => LogInv'
  BY LogInvStep
<1> QED BY <1>1, <1>2, PTL DEF LogSpec

(* The variables of the loggers keep their types: strlen always finds an   *)
(* end in the buffer, and no frame is longer than a packet.                *)
THEOREM LogTypes == LogSpec => []LogTypeOK
<1>1. LogInv => LogTypeOK
  BY DEF LogInv, LogBound
<1> QED BY <1>1, LogInductive, PTL

(* However many tasks format in the static buffer at once, without a lock  *)
(* and with lines of any length: what overruns it is one header and at     *)
(* most one body of each task, and a line no other overlaps does so only   *)
(* by its own length.                                                      *)
THEOREM OverrunsAreLong == LogSpec => []OverrunIsLong
<1>1. ASSUME LogInv PROVE OverrunIsLong
  <2> SUFFICES ASSUME NEW r \in Loggers, stage[r] = "wild"
               PROVE  /\ Header + longest * Cardinality(Loggers) + 1 > Size
                      /\ r \notin mixed => Len(Line(r)) > Size
    BY DEF OverrunIsLong
  <2>1. Header + longest * Cardinality(Loggers) + 1 > Size
    BY <1>1 DEF LogInv, LogBound, OffsetBound
  <2>2. ASSUME r \notin mixed PROVE Len(Line(r)) > Size
    <3>1. Text(r) \in Nat /\ Size \in Nat /\ Text(r) >= Size
      BY <1>1, <2>2, TextNat DEF LogInv, LogBound, Lone
    <3>2. Line(r) = [i \in 1..(Text(r) + 1) |-> IF i <= Text(r) THEN r ELSE NUL]
      BY DEF Line, Text
    <3> HIDE DEF Text
    <3>3. Len(Line(r)) = Text(r) + 1
      BY <3>1, <3>2
    <3> QED BY <3>1, <3>3
  <2> QED BY <2>1, <2>2
<1> QED BY <1>1, LogInductive, PTL

(* A line that no other task overlaps is sent as formatted, cut only by    *)
(* the eight bits of the length, and its task sleeps for no other reason.  *)
THEOREM LoneLineArrives == LogSpec => []SoloLine
<1>1. ASSUME LogInv PROVE SoloLine
  <2> SUFFICES ASSUME NEW r \in Loggers \ mixed
               PROVE  /\ stage[r] = "post" =>
                           /\ frame[r] = SubSeq(Line(r), 1, Len(frame[r]))
                           /\ Len(Line(r)) < Width => frame[r] = Line(r)
                      /\ stage[r] = "asleep" => Len(Line(r)) % Width > MaxLen
    BY DEF SoloLine
  <2> DEFINE w == Text(r) + 1
             L == Line(r)
  <2>1. LogTypeOK /\ Lone(r)
    BY <1>1 DEF LogInv, LogBound
  <2>2. /\ w \in Nat /\ w > 0 /\ Width \in Nat \ {0} /\ w = Header + body[r] + 1
    BY <2>1, TextNat, LogAssumption DEF Text, LogAssumption
  <2>3. /\ L \in Seq(Loggers \cup {NUL}) /\ Len(L) = w /\ DOMAIN L = 1..w
        /\ \A i \in 1..w : L[i] = IF i <= Text(r) THEN r ELSE NUL
    BY <2>2 DEF Line, Text
  <2>4. w % Width \in Nat /\ w % Width <= w /\ (w < Width => w % Width = w)
    BY <2>2, ModFacts
  <2>5. CASE stage[r] = "post"
    <3> DEFINE f == frame[r]
               k == w % Width
    <3>1. f \in Seq(Loggers \cup {NUL}) /\ Holds(f, r, Text(r)) /\ Len(f) = k
      BY <2>1, <2>5 DEF LogTypeOK, Lone
    <3> HIDE DEF f, k, L, w
    <3>2. /\ k \in Nat /\ k <= w /\ w \in Nat
          /\ DOMAIN f = 1..k /\ \A i \in 1..k : f[i] = L[i]
      <4>1. k \in Nat /\ k <= w /\ w \in Nat
        BY <2>2, <2>4 DEF k
      <4>2. DOMAIN f = 1..k
        BY <3>1
      <4> QED BY <2>3, <3>1, <4>1, <4>2 DEF Holds
    <3>3. /\ SubSeq(L, 1, k) \in Seq(Loggers \cup {NUL}) /\ Len(SubSeq(L, 1, k)) = k
          /\ \A i \in 1..k : SubSeq(L, 1, k)[i] = L[i]
      BY <2>3, <3>2
    <3>4. f = SubSeq(L, 1, k)
      BY <3>1, <3>2, <3>3, SeqEqual
    <3>5. ASSUME w < Width PROVE f = L
      <4>1. k = w
        BY <2>4, <3>5 DEF k
      <4> QED BY <2>3, <3>1, <3>2, <4>1, SeqEqual
    <3> QED BY <2>3, <2>5, <3>1, <3>4, <3>5 DEF f, L
  <2>6. CASE stage[r] = "asleep"
    BY <2>1, <2>3, <2>6 DEF Lone
  <2>7. CASE stage[r] \notin {"post", "asleep"}
    BY <2>7
  <2> QED BY <2>5, <2>6, <2>7
<1> QED BY <1>1, LogInductive, PTL
=============================================================================
