----------------------------- MODULE RebootCheck -----------------------------
(***************************************************************************)
(* std_reboot.c over std_nvs.c: reboot_check_task counts boots that end    *)
(* within five seconds and erases every setting at the third in a row.     *)
(* The counter lives in NVS, every other variable is lost at a restart,    *)
(* which can come between any two steps.                                   *)
(***************************************************************************)
EXTENDS Integers

CONSTANTS NvsMayFail,  \* TRUE if the calls of the NVS library can fail
          Garbage,     \* values an uninitialised reboot_info.times can have
          Absent,      \* no KEY_REBOOT blob
          MaxBoots     \* bound: from this boot on nothing restarts the
                       \* device from outside and NVS does not fail

ASSUME RebootAssumption ==
  /\ NvsMayFail \in BOOLEAN /\ Garbage \subseteq Int
  /\ Absent \notin Int /\ MaxBoots \in Nat

VARIABLES
  stored,     \* the KEY_REBOOT blob: times, or Absent
  settings,   \* the other keys of the name space: "set" or "erased"
  pc, times,  \* reboot_check_task and its reboot_info.times
  app,        \* an application task inside std_reset: "erase", "restart"
  boots,      \* boots so far
  cleared,    \* history: this boot has zeroed the counter
  short,      \* history: boots in a row before this one that had not
  tainted,    \* history: times, or the blob, goes back to a load that failed
              \* and left times uninitialised
  misread     \* history: there is a blob, and this boot failed to read it

history == <<cleared, short, tainted, misread>>
vars == <<stored, settings, pc, times, app, boots, history>>

TypeOK ==
  /\ stored \in Int \cup {Absent} /\ settings \in {"set", "erased"}
  /\ pc \in {"exist", "load", "save", "judge", "delay", "clear", "first",
             "erase", "restart", "done", "stuck"}
  /\ times \in Int /\ app \in {"run", "erase", "restart", "stuck"}
  /\ boots \in Nat /\ short \in Nat
  /\ cleared \in BOOLEAN /\ tainted \in BOOLEAN /\ misread \in BOOLEAN

Init ==
  /\ stored = Absent /\ settings = "erased" /\ pc = "exist" /\ times = 0
  /\ app = "run" /\ boots = 0
  /\ cleared = FALSE /\ short = 0 /\ tainted = FALSE /\ misread = FALSE

Goto(from, to) == pc = from /\ pc' = to

NvsFails == NvsMayFail /\ boots < MaxBoots

\* std_nvs_save: its result is ignored, a failure leaves the old blob.
Save(n) == stored' = n \/ (NvsFails /\ stored' = stored)

\* std_nvs_erase(NULL)
EraseAll == \/ stored' = Absent /\ settings' = "erased"
            \/ NvsFails /\ UNCHANGED <<stored, settings>>

\* std_nvs_is_exist: whatever error nvs_get_blob returns, there is no blob.
IsExist ==
  /\ \/ stored = Absent /\ Goto("exist", "first") /\ UNCHANGED misread
     \/ stored # Absent /\ Goto("exist", "load") /\ UNCHANGED misread
     \/ stored # Absent /\ NvsFails /\ Goto("exist", "first") /\ misread' = TRUE
  /\ UNCHANGED <<stored, settings, times, app, boots, cleared, short, tainted>>

\* std_nvs_load, whose result is ignored, then times++.
Load ==
  /\ Goto("load", "save")
  /\ \/ stored # Absent /\ times' = stored + 1 /\ UNCHANGED <<tainted, misread>>
     \/ /\ stored = Absent \/ NvsFails
        /\ tainted' = TRUE /\ misread' = (stored # Absent)
        /\ \E g \in Garbage : times' = g + 1
  /\ UNCHANGED <<stored, settings, app, boots, cleared, short>>

SaveTimes ==
  /\ Goto("save", "judge") /\ Save(times)
  /\ UNCHANGED <<settings, times, app, boots, history>>

\* Mutants of Judge: the second short boot erases; only exactly three do.
JudgeTwo ==
  /\ Goto("judge", IF times \in 0..1 THEN "delay" ELSE "erase")
  /\ UNCHANGED <<stored, settings, times, app, boots, history>>

JudgeThree ==
  /\ Goto("judge", IF times # 3 THEN "delay" ELSE "erase")
  /\ UNCHANGED <<stored, settings, times, app, boots, history>>

\* The switch: 0, 1 and 2 break, default calls std_reset.
Judge ==
  /\ Goto("judge", IF times \in 0..2 THEN "delay" ELSE "erase")
  /\ UNCHANGED <<stored, settings, times, app, boots, history>>

Delay == \* vTaskDelay(5000 ms)
  /\ Goto("delay", "clear")
  /\ UNCHANGED <<stored, settings, times, app, boots, history>>

\* Mutant of ClearTimes: the zeroed counter is not saved.
ClearTimesUnsaved ==
  /\ Goto("clear", "done") \/ Goto("first", "done")
  /\ times' = 0 /\ cleared' = TRUE /\ short' = 0 /\ tainted' = FALSE
  /\ UNCHANGED <<stored, settings, app, boots, misread>>

\* The boot survived; or it is the first: there is no blob, or none was read.
ClearTimes ==
  /\ Goto("clear", "done") \/ Goto("first", "done")
  /\ times' = 0 /\ Save(0) /\ cleared' = (stored' = 0)
  /\ short' = IF cleared' THEN 0 ELSE short
  /\ tainted' = (tainted /\ ~cleared')
  /\ UNCHANGED <<settings, app, boots, misread>>

CheckErase ==
  /\ Goto("erase", "restart") /\ EraseAll
  /\ UNCHANGED <<times, app, boots, history>>

\* nvs_open fails, whatever std_nvs is to do: PORT_ASSERT ends the task.
CheckOpenFails ==
  /\ NvsFails /\ pc \in {"exist", "load", "save", "clear", "first", "erase"}
  /\ pc' = "stuck"
  /\ UNCHANGED <<stored, settings, times, app, boots, history>>

\* A boot from here: RAM is lost, reboot_check_task starts again.
Boot ==
  /\ pc' = "exist" /\ times' = 0 /\ app' = "run" /\ boots' = boots + 1
  /\ short' = IF cleared THEN 0 ELSE short + 1
  /\ cleared' = FALSE /\ misread' = FALSE /\ tainted' = (tainted /\ stored # Absent)
  /\ UNCHANGED <<stored, settings>>

CheckRestart == pc = "restart" /\ Boot
AppRestart == app = "restart" /\ Boot

\* Power cut, crash, std_reboot or std_ota_reboot.
Cut == boots < MaxBoots /\ Boot

\* Another task calls std_reset.
AppReset ==
  /\ app = "run" /\ boots < MaxBoots /\ app' = "erase"
  /\ UNCHANGED <<stored, settings, pc, times, boots, history>>

AppErase ==
  /\ app = "erase" /\ app' = "restart" /\ EraseAll
  /\ UNCHANGED <<pc, times, boots, history>>

AppOpenFails ==
  /\ NvsFails /\ app = "erase" /\ app' = "stuck"
  /\ UNCHANGED <<stored, settings, pc, times, boots, history>>

\* The application stores a setting (std_wifi_connect does).
Configure ==
  /\ settings' = "set"
  /\ UNCHANGED <<stored, pc, times, app, boots, history>>

CheckTask == \/ IsExist \/ Load \/ SaveTimes \/ Judge \/ Delay \/ ClearTimes
             \/ CheckErase \/ CheckRestart \/ CheckOpenFails
AppTask == AppErase \/ AppRestart \/ AppOpenFails
Next == CheckTask \/ AppReset \/ AppTask \/ Configure \/ Cut

Spec == Init /\ [][Next]_vars

\* The check task runs, and an application task inside std_reset goes on.
FairSpec == Spec /\ WF_vars(CheckTask) /\ WF_vars(AppTask)
-----------------------------------------------------------------------------
(* The check task erases the settings only if the two boots before this    *)
(* one ended without zeroing the counter, wherever power was cut; the only *)
(* exception is a count that goes back to a load that failed, or that came *)
(* after an std_reset had erased the counter.                              *)
EraseIsEarned == pc = "erase" /\ ~tainted => short >= 2

(* Once a third short boot has been recorded the settings do get erased,   *)
(* even if power fails again before the erase, unless a boot fails to read *)
(* the record or a failed nvs_open ends the task for good.                 *)
RecordedIsErased ==
  stored # Absent /\ stored >= 3 ~>
    settings = "erased" \/ misread \/ [](pc = "stuck")

(* A third short boot, once recorded, is not forgotten: the count stays at *)
(* three or more until the settings go with it, whichever task erases,     *)
(* whichever save, erase or open fails and wherever power is cut.  One     *)
(* failure does lose it: that of its read, which std_nvs_is_exist takes    *)
(* for a first boot and std_nvs_load for a count.                          *)
RecordIsKept ==
  [][stored # Absent /\ stored >= 3 =>
       \/ stored' # Absent /\ stored' >= 3
       \/ stored' = Absent /\ settings' = "erased"
       \/ misread]_vars

(* When the restarts end, the counter ends at zero unless the very save    *)
(* that zeroes it failed or the task was ended before it: a device left    *)
(* alone keeps no boot count that would count against later boots.         *)
Settles == <>[](stored = 0 \/ (pc = "done" /\ ~cleared) \/ pc = "stuck")
=============================================================================
