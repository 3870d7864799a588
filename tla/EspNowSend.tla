------------------------------ MODULE EspNowSend ------------------------------
(***************************************************************************)
(* The transmit path of std_espnow.c.  Application tasks write a frame     *)
(* themselves (std_espnow_write with block = true) or post it to           *)
(* g_espnow_sed_queue for espnow_write_task.  Both end in                  *)
(* espnow_write_data, which hands one frame to the ESP-NOW driver, waits   *)
(* for the send callback and returns the status that callback stored.      *)
(***************************************************************************)
EXTENDS Naturals, Sequences, Functions

CONSTANTS Apps,      \* application tasks that build and write frames
          WriteTask, \* espnow_write_task
          Frames,    \* the heap blocks espnow_send_t objects live in
          MaxSend,   \* MAX_SEND_QUEEN
          NoFrame    \* a task that holds no frame

Tasks == Apps \cup {WriteTask}
Status == {"ok", "fail"}

ASSUME SendAssumption ==
  /\ WriteTask \notin Apps
  /\ NoFrame \notin Frames
  /\ MaxSend \in Nat \ {0}

VARIABLES
  pc, cur,       \* where each task stands, and the frame it is writing
  lock,          \* g_send_lock, a binary semaphore: 1 when it can be taken
  rcb,           \* g_send_rcb, the binary semaphore the send callback gives
  status,        \* g_send_status, "none" for its initial -1
  queue,         \* g_espnow_sed_queue
  heap,          \* each block: free, live (allocated), or lost (leaked)
  air,           \* frames the driver has accepted and not yet reported
  reporting,     \* frame whose send callback stored its status, give pending
  fate, reply    \* history: what the radio did, what espnow_write_data said

taskVars == <<pc, cur>>
driverVars == <<air, reporting, fate>>
vars == <<pc, cur, lock, rcb, status, queue, heap, air, reporting, fate, reply>>

TypeOK ==
  /\ pc \in [Tasks -> {"idle", "lock", "drain", "send", "await", "read",
                       "unlock", "release"}]
  /\ cur \in [Tasks -> Frames \cup {NoFrame}]
  /\ lock \in {0, 1} /\ rcb \in {0, 1}
  /\ status \in Status \cup {"none"}
  /\ queue \in Seq(Frames) /\ Len(queue) <= MaxSend
  /\ heap \in [Frames -> {"free", "live", "lost"}]
  /\ air \subseteq Frames
  /\ reporting \in Frames \cup {NoFrame}
  /\ fate \in [Frames -> Status \cup {"none"}]
  /\ reply \in [Frames -> Status \cup {"none"}]

Init ==
  /\ pc = [t \in Tasks |-> "idle"] /\ cur = [t \in Tasks |-> NoFrame]
  /\ lock = 1 /\ rcb = 0 /\ status = "none" /\ queue = <<>>
  /\ heap = [f \in Frames |-> "free"]
  /\ air = {} /\ reporting = NoFrame
  /\ fate = [f \in Frames |-> "none"] /\ reply = [f \in Frames |-> "none"]

Goto(t, from, to) == pc[t] = from /\ pc' = [pc EXCEPT ![t] = to]

\* build_espnow_send: a fresh block, nothing known of the frame yet.
Build(f, state) ==
  /\ heap[f] = "free"
  /\ heap' = [heap EXCEPT ![f] = state]
  /\ fate' = [fate EXCEPT ![f] = "none"] /\ reply' = [reply EXCEPT ![f] = "none"]

\* std_espnow_write(send, true): the caller enters espnow_write_data.
WriteBlocking(t, f) ==
  /\ t \in Apps /\ Goto(t, "idle", "lock")
  /\ Build(f, "live")
  /\ cur' = [cur EXCEPT ![t] = f]
  /\ UNCHANGED <<lock, rcb, status, queue, air, reporting>>

\* Mutant of WritePosted: the caller frees what it posted.
WritePostedFreed(t, f) ==
  /\ pc[t] = "idle" /\ t \in Apps
  /\ Build(f, "free")
  /\ queue' = IF Len(queue) < MaxSend THEN Append(queue, f) ELSE queue
  /\ UNCHANGED <<taskVars, lock, rcb, status, air, reporting>>

\* std_espnow_write(send, false): post, or lose the frame to a full queue, for
\* the caller (target_print) drops the pointer whatever the result.
WritePosted(t, f) ==
  /\ pc[t] = "idle" /\ t \in Apps
  /\ IF Len(queue) < MaxSend
     THEN Build(f, "live") /\ queue' = Append(queue, f)
     ELSE Build(f, "lost") /\ UNCHANGED queue
  /\ UNCHANGED <<taskVars, lock, rcb, status, air, reporting>>

\* espnow_write_task: xQueueReceive, then espnow_write_data.
ReceivePosted ==
  /\ queue # <<>> /\ Goto(WriteTask, "idle", "lock")
  /\ cur' = [cur EXCEPT ![WriteTask] = Head(queue)]
  /\ queue' = Tail(queue)
  /\ UNCHANGED <<lock, rcb, status, heap, driverVars, reply>>

\* Mutant of TakeLock: the lock is not waited for.
TakeLockUnchecked(t) ==
  /\ lock' = 0 /\ Goto(t, "lock", "drain")
  /\ UNCHANGED <<cur, rcb, status, queue, heap, driverVars, reply>>

\* espnow_write_data, step by step.
TakeLock(t) ==
  /\ lock = 1 /\ lock' = 0 /\ Goto(t, "lock", "drain")
  /\ UNCHANGED <<cur, rcb, status, queue, heap, driverVars, reply>>

DrainCallback(t) == \* xSemaphoreTake(g_send_rcb, 0)
  /\ Goto(t, "drain", "send") /\ rcb' = 0
  /\ UNCHANGED <<cur, lock, status, queue, heap, driverVars, reply>>

SendAccepted(t) ==  \* esp_now_send returns ESP_OK
  /\ Goto(t, "send", "await") /\ air' = air \cup {cur[t]}
  /\ UNCHANGED <<cur, lock, rcb, status, queue, heap, reporting, fate, reply>>

\* Mutant of SendRefused: returns at once, past send_unlock.
SendRefusedReturns(t) ==
  /\ Goto(t, "send", "release") /\ reply' = [reply EXCEPT ![cur[t]] = "fail"]
  /\ UNCHANGED <<cur, lock, rcb, status, queue, heap, driverVars>>

SendRefused(t) ==   \* esp_now_send returns an error: goto FAIL
  /\ Goto(t, "send", "unlock") /\ reply' = [reply EXCEPT ![cur[t]] = "fail"]
  /\ UNCHANGED <<cur, lock, rcb, status, queue, heap, driverVars>>

\* Mutant of AwaitCallback: a wait that times out is taken for an answer.
AwaitCallbackTimeout(t) ==
  /\ rcb' = 0 /\ Goto(t, "await", "read")
  /\ UNCHANGED <<cur, lock, status, queue, heap, driverVars, reply>>

AwaitCallback(t) == \* xSemaphoreTake(g_send_rcb, portMAX_DELAY)
  /\ rcb = 1 /\ rcb' = 0 /\ Goto(t, "await", "read")
  /\ UNCHANGED <<cur, lock, status, queue, heap, driverVars, reply>>

ReadStatus(t) ==
  /\ Goto(t, "read", "unlock")
  /\ reply' = [reply EXCEPT ![cur[t]] = IF status = "ok" THEN "ok" ELSE "fail"]
  /\ UNCHANGED <<cur, lock, rcb, status, queue, heap, driverVars>>

Unlock(t) ==
  /\ Goto(t, "unlock", "release") /\ lock' = 1
  /\ UNCHANGED <<cur, rcb, status, queue, heap, driverVars, reply>>

\* Mutant of Release: the write task keeps what it failed to write.
ReleaseOnlySent(t) ==
  /\ Goto(t, "release", "idle") /\ cur' = [cur EXCEPT ![t] = NoFrame]
  /\ heap' = [heap EXCEPT ![cur[t]] =
                IF reply[cur[t]] = "ok" THEN "free" ELSE "lost"]
  /\ UNCHANGED <<lock, rcb, status, queue, driverVars, reply>>

\* The write task frees every frame it wrote; a blocking caller frees it too,
\* except that the FAIL paths of rdebug_send_debug and rdebug_set_log leak it.
Release(t) ==
  /\ Goto(t, "release", "idle") /\ cur' = [cur EXCEPT ![t] = NoFrame]
  /\ \E s \in IF t = WriteTask \/ reply[cur[t]] = "ok" THEN {"free"}
                                                       ELSE {"free", "lost"} :
       heap' = [heap EXCEPT ![cur[t]] = s]
  /\ UNCHANGED <<lock, rcb, status, queue, driverVars, reply>>

\* rdebug_set_mac writes one frame again and again before it frees it.
WriteAgain(t) ==
  /\ t \in Apps /\ Goto(t, "release", "lock") /\ reply[cur[t]] = "ok"
  /\ fate' = [fate EXCEPT ![cur[t]] = "none"]
  /\ reply' = [reply EXCEPT ![cur[t]] = "none"]
  /\ UNCHANGED <<cur, lock, rcb, status, queue, heap, air, reporting>>

\* The driver reports each accepted frame once, from the Wi-Fi task:
\* espnow_send_cb stores the status, then gives the semaphore.
SendCbStatus(f, s) ==
  /\ f \in air /\ reporting = NoFrame
  /\ air' = air \ {f} /\ reporting' = f
  /\ status' = s /\ fate' = [fate EXCEPT ![f] = s]
  /\ UNCHANGED <<taskVars, lock, rcb, queue, heap, reply>>

SendCbGive ==
  /\ reporting # NoFrame /\ reporting' = NoFrame /\ rcb' = 1
  /\ UNCHANGED <<taskVars, lock, status, queue, heap, air, fate, reply>>

WriteData(t) ==
  \/ TakeLock(t) \/ DrainCallback(t) \/ SendAccepted(t) \/ SendRefused(t)
  \/ AwaitCallback(t) \/ ReadStatus(t) \/ Unlock(t) \/ Release(t)

SendCb == SendCbGive \/ \E f \in Frames, s \in Status : SendCbStatus(f, s)

Next ==
  \/ \E t \in Apps, f \in Frames : WriteBlocking(t, f) \/ WritePosted(t, f)
  \/ ReceivePosted
  \/ \E t \in Tasks : WriteData(t) \/ WriteAgain(t)
  \/ SendCb

Spec == Init /\ [][Next]_vars

(***************************************************************************)
(* Fairness.  The driver reports every frame it accepted, and a task that  *)
(* can run does run.  Fairness is weak: a task that waits for the lock     *)
(* need never get it while others take it again and again, for the write   *)
(* task's priority is below that of the tasks that write themselves.       *)
(***************************************************************************)
Fairness ==
  /\ WF_vars(SendCb) /\ WF_vars(ReceivePosted)
  /\ \A t \in Tasks : WF_vars(WriteData(t))

FairSpec == Spec /\ Fairness
-----------------------------------------------------------------------------
(* What espnow_write_data returns for a frame is what the radio did with   *)
(* that very frame, however the callers, the write task and the callback   *)
(* interleave; a frame the driver refused is reported failed.              *)
ReplyIsOwnFate ==
  \A f \in Frames : heap[f] = "live" /\ reply[f] # "none"
                      => (reply[f] = "ok" <=> fate[f] = "ok")

(* No task waits in vain.  The callback that a writer awaits without a     *)
(* timeout is still to come, in its second step, or has been: it is not    *)
(* drained with an older one, nor taken by another writer.  And a lock     *)
(* that is taken is held by a task that will give it back.                 *)
AnswerIsComing ==
  /\ \A t \in Tasks : pc[t] = "await" =>
       cur[t] \in air \/ reporting = cur[t] \/ rcb = 1
  /\ lock = 0 => \E t \in Tasks :
       pc[t] \in {"drain", "send", "await", "read", "unlock"}

Writers == {t \in Tasks : pc[t] # "idle"}
Queued == Range(queue)

(* No buffer is touched after free_espnow_send and none is freed twice: a  *)
(* frame a task is writing, one waiting in the queue and one the driver    *)
(* holds are allocated, and no two of the tasks and queue slots share one. *)
BuffersExclusive ==
  /\ \A t \in Writers : heap[cur[t]] = "live" /\ cur[t] \notin Queued
  /\ \A t, u \in Writers : t # u => cur[t] # cur[u]
  /\ IsInjective(queue)
  /\ \A f \in Queued \cup air : heap[f] = "live"

(* The transmit path implements SendService: one frame on the air at a     *)
(* time, each answered with its own verdict.                               *)
Phase == [f \in Frames |->
  IF heap[f] # "live" THEN heap[f]
  ELSE IF reply[f] # "none" THEN "answered"
  ELSE IF fate[f] # "none" THEN "judged"
  ELSE IF f \in air THEN "onair" ELSE "waiting"]

Service == INSTANCE SendService
             WITH phase <- Phase, verdict <- fate, answer <- reply
ServiceSpec == Service!Spec

(* Every posted frame leaves the queue, is written and is freed by the     *)
(* write task.  One thing can keep it from that for ever: the write task   *)
(* waits for the send lock, and other tasks take it again and again.       *)
Overtaken == \E t \in Apps : pc[t] = "drain"
PostedIsWritten ==
  \A f \in Frames :
    f \in Queued ~> \/ heap[f] = "free"
                    \/ [](pc[WriteTask] = "lock") /\ []<>Overtaken

(* A blocking caller that holds the lock always gets its answer: the       *)
(* callback is never lost between the drain and the wait.                  *)
LockIsReturned == lock = 0 ~> lock = 1
=============================================================================
