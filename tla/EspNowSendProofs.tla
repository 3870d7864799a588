--------------------------- MODULE EspNowSendProofs ---------------------------
(***************************************************************************)
(* Proofs about the transmit path, for any number of application tasks,    *)
(* frames and queue slots.                                                 *)
(***************************************************************************)
EXTENDS EspNowSend, QueueLemmas

USE SendAssumption DEF Tasks, Status

-----------------------------------------------------------------------------
(* The inductive invariant.                                                *)

Holding == {"drain", "send", "await", "read", "unlock"}

\* At most one task is between send_lock and send_unlock, and then lock = 0.
Mutex ==
  /\ \A t \in Tasks : pc[t] \in Holding => lock = 0
  /\ \A t, u \in Tasks : pc[t] \in Holding /\ pc[u] \in Holding => t = u

\* Who owns which block.
Owned ==
  /\ \A t \in Tasks : pc[t] = "idle" <=> cur[t] = NoFrame
  /\ \A t \in Tasks : pc[t] # "idle" => /\ heap[cur[t]] = "live"
                                        /\ cur[t] \notin Range(queue)
  /\ \A t, u \in Tasks :
       pc[t] # "idle" /\ pc[u] # "idle" /\ cur[t] = cur[u] => t = u
  /\ IsInjective(queue)
  /\ \A f \in Range(queue) : heap[f] = "live"

\* Nothing is known yet of a frame that was not handed to the driver.
Fresh(f) == fate[f] = "none" /\ reply[f] = "none"
Untried ==
  /\ \A f \in Range(queue) : Fresh(f)
  /\ \A t \in Tasks : pc[t] \in {"lock", "drain", "send"} => Fresh(cur[t])

\* The driver, the callback and the semaphore between them hold exactly the
\* frame of the task that waits for it.
Quiet == air = {} /\ reporting = NoFrame /\ rcb = 0
OnAir(f) == air = {f} /\ reporting = NoFrame /\ rcb = 0 /\ fate[f] = "none"
Reporting(f) == air = {} /\ reporting = f /\ rcb = 0 /\ status = fate[f]
Reported(f) == air = {} /\ reporting = NoFrame /\ rcb = 1 /\ status = fate[f]
Exchange ==
  /\ \A t \in Tasks : pc[t] = "await" =>
       /\ reply[cur[t]] = "none"
       /\ OnAir(cur[t]) \/ (fate[cur[t]] \in Status
                             /\ (Reporting(cur[t]) \/ Reported(cur[t])))
  /\ \A t \in Tasks : pc[t] = "read" =>
       reply[cur[t]] = "none" /\ fate[cur[t]] \in Status /\ status = fate[cur[t]]
  /\ (\A t \in Tasks : pc[t] # "await") => Quiet

\* A verdict not yet passed on belongs to a frame some task waits for.
Answering ==
  /\ \A t \in Tasks : pc[t] \in {"unlock", "release"} => reply[cur[t]] # "none"
  /\ \A f \in Frames : heap[f] = "live" /\ fate[f] # "none" /\ reply[f] = "none"
       => \E t \in Tasks : pc[t] \in {"await", "read"} /\ cur[t] = f

IInv == /\ TypeOK /\ Mutex /\ Owned /\ Untried /\ Exchange /\ Answering
        /\ ReplyIsOwnFate

-----------------------------------------------------------------------------
USE DEF Goto, taskVars, driverVars, Holding, Fresh, Quiet, OnAir, Reporting,
        Reported

(* The initial states satisfy the inductive invariant.                     *)
LEMMA InitIInv == Init => IInv
<1> SUFFICES ASSUME Init PROVE IInv
  OBVIOUS
<1>1. Range(queue) = {} /\ IsInjective(queue) /\ queue \in Seq(Frames)
      /\ Len(queue) = 0
  BY EmptySeq DEF Init, Range, IsInjective
<1>2. TypeOK  BY <1>1 DEF Init, TypeOK
<1> QED
  BY <1>1, <1>2 DEF Init, IInv, Mutex, Owned, Untried, Exchange, Answering,
                    ReplyIsOwnFate

(* Every step of a task, of the write task, of the driver and of its       *)
(* callback preserves the inductive invariant.                             *)
LEMMA StepIInv == ASSUME IInv, [Next]_vars PROVE IInv'
<1> USE DEF IInv
<1>1. ASSUME NEW t \in Apps, NEW f \in Frames, WriteBlocking(t, f) PROVE IInv'
  <2>1. TypeOK'
    BY <1>1 DEF WriteBlocking, Build, TypeOK
  <2>2. (Mutex /\ Owned)'
    BY <1>1 DEF WriteBlocking, Build, TypeOK, Mutex, Owned
  <2>3. Untried'
    BY <1>1 DEF WriteBlocking, Build, TypeOK, Owned, Untried
  <2>4. Exchange'
    BY <1>1 DEF WriteBlocking, Build, TypeOK, Mutex, Owned, Untried, Exchange
  <2>5. (Answering /\ ReplyIsOwnFate)'
    BY <1>1 DEF WriteBlocking, Build, TypeOK, Mutex, Owned, Untried, Exchange, Answering,
             ReplyIsOwnFate
  <2> QED BY <2>1, <2>2, <2>3, <2>4, <2>5
<1>2. ASSUME NEW t \in Apps, NEW f \in Frames, WritePosted(t, f) PROVE IInv'
  <2>0. /\ Append(queue, f) \in Seq(Frames) /\ Len(queue) \in Nat
        /\ Len(Append(queue, f)) = Len(queue) + 1
        /\ Range(Append(queue, f)) = Range(queue) \cup {f}
        /\ IsInjective(Append(queue, f)) /\ f \notin Range(queue)
    BY <1>2, AppendRange, LenProperties DEF WritePosted, Build, Owned, TypeOK
  <2>1. ASSUME Len(queue) < MaxSend
        PROVE  (TypeOK /\ Mutex /\ Owned /\ Untried)'
    <3>0. /\ heap[f] = "free" /\ pc' = pc /\ cur' = cur /\ lock' = lock
          /\ heap' = [heap EXCEPT ![f] = "live"] /\ queue' = Append(queue, f)
          /\ fate' = [fate EXCEPT ![f] = "none"]
          /\ reply' = [reply EXCEPT ![f] = "none"]
      BY <1>2, <2>1 DEF WritePosted, Build
    <3>1. TypeOK'
      <4>1. Len(queue') <= MaxSend  BY <1>2, <2>0, <2>1 DEF WritePosted
      <4> QED BY <1>2, <2>0, <2>1, <4>1 DEF WritePosted, Build, TypeOK
    <3>2. (Mutex /\ Owned)'
      BY <2>0, <3>0 DEF TypeOK, Mutex, Owned
    <3>3. Untried'
      BY <2>0, <3>0 DEF TypeOK, Owned, Untried
    <3> QED BY <3>1, <3>2, <3>3
  <2>2. ASSUME ~(Len(queue) < MaxSend)
        PROVE  (TypeOK /\ Mutex /\ Owned /\ Untried)'
    <3>0. /\ heap[f] = "free" /\ pc' = pc /\ cur' = cur /\ lock' = lock
          /\ heap' = [heap EXCEPT ![f] = "lost"] /\ queue' = queue
          /\ fate' = [fate EXCEPT ![f] = "none"]
          /\ reply' = [reply EXCEPT ![f] = "none"]
      BY <1>2, <2>2 DEF WritePosted, Build
    <3>1. TypeOK'
      BY <1>2, <2>2 DEF WritePosted, Build, TypeOK
    <3>2. (Mutex /\ Owned)'
      BY <2>0, <3>0 DEF TypeOK, Mutex, Owned
    <3>3. Untried'
      BY <2>0, <3>0 DEF TypeOK, Owned, Untried
    <3> QED BY <3>1, <3>2, <3>3
  <2>3. (TypeOK /\ Mutex /\ Owned /\ Untried)'  BY <2>1, <2>2
  <2>4. Exchange'
    BY <1>2, <2>0 DEF WritePosted, Build, TypeOK, Mutex, Owned, Untried, Exchange
  <2>5. (Answering /\ ReplyIsOwnFate)'
    BY <1>2, <2>0 DEF WritePosted, Build, TypeOK, Mutex, Owned, Untried, Exchange, Answering,
             ReplyIsOwnFate
  <2> QED BY <2>3, <2>4, <2>5
<1>3. ASSUME ReceivePosted PROVE IInv'
  <2>0. /\ Tail(queue) \in Seq(Frames) /\ Len(queue) \in Nat
        /\ Len(Tail(queue)) = Len(queue) - 1
        /\ Head(queue) \in Frames /\ Head(queue) \in Range(queue)
        /\ Range(queue) = Range(Tail(queue)) \cup {Head(queue)}
        /\ IsInjective(Tail(queue)) /\ Head(queue) \notin Range(Tail(queue))
    BY <1>3, TailRange, LenProperties DEF ReceivePosted, Owned, TypeOK
  <2>1. TypeOK'
    BY <1>3, <2>0 DEF ReceivePosted, TypeOK
  <2>2. (Mutex /\ Owned)'
    BY <1>3, <2>0 DEF ReceivePosted, TypeOK, Mutex, Owned
  <2>3. Untried'
    BY <1>3, <2>0 DEF ReceivePosted, TypeOK, Owned, Untried
  <2>4. Exchange'
    BY <1>3, <2>0 DEF ReceivePosted, TypeOK, Mutex, Owned, Untried, Exchange
  <2>5. (Answering /\ ReplyIsOwnFate)'
    BY <1>3, <2>0 DEF ReceivePosted, TypeOK, Mutex, Owned, Untried, Exchange, Answering,
             ReplyIsOwnFate
  <2> QED BY <2>1, <2>2, <2>3, <2>4, <2>5
<1>4. ASSUME NEW t \in Tasks, TakeLock(t) PROVE IInv'
  <2>1. TypeOK'
    BY <1>4 DEF TakeLock, TypeOK
  <2>2. (Mutex /\ Owned)'
    BY <1>4 DEF TakeLock, TypeOK, Mutex, Owned
  <2>3. Untried'
    BY <1>4 DEF TakeLock, TypeOK, Owned, Untried
  <2>4. Exchange'
    BY <1>4 DEF TakeLock, TypeOK, Mutex, Owned, Untried, Exchange
  <2>5. (Answering /\ ReplyIsOwnFate)'
    BY <1>4 DEF TakeLock, TypeOK, Mutex, Owned, Untried, Exchange, Answering,
             ReplyIsOwnFate
  <2> QED BY <2>1, <2>2, <2>3, <2>4, <2>5
<1>5. ASSUME NEW t \in Tasks, DrainCallback(t) PROVE IInv'
  <2>1. TypeOK'
    BY <1>5 DEF DrainCallback, TypeOK
  <2>2. (Mutex /\ Owned)'
    BY <1>5 DEF DrainCallback, TypeOK, Mutex, Owned
  <2>3. Untried'
    BY <1>5 DEF DrainCallback, TypeOK, Owned, Untried
  <2>4. Exchange'
    BY <1>5 DEF DrainCallback, TypeOK, Mutex, Owned, Untried, Exchange
  <2>5. (Answering /\ ReplyIsOwnFate)'
    BY <1>5 DEF DrainCallback, TypeOK, Mutex, Owned, Untried, Exchange, Answering,
             ReplyIsOwnFate
  <2> QED BY <2>1, <2>2, <2>3, <2>4, <2>5
<1>6. ASSUME NEW t \in Tasks, SendAccepted(t) PROVE IInv'
  <2>0. cur[t] \in Frames
    BY <1>6 DEF SendAccepted, TypeOK, Owned
  <2>1. TypeOK'
    BY <1>6, <2>0 DEF SendAccepted, TypeOK
  <2>2. (Mutex /\ Owned)'
    BY <1>6, <2>0 DEF SendAccepted, TypeOK, Mutex, Owned
  <2>3. Untried'
    BY <1>6, <2>0 DEF SendAccepted, TypeOK, Owned, Untried
  <2>4. Exchange'
    BY <1>6, <2>0 DEF SendAccepted, TypeOK, Mutex, Owned, Untried, Exchange
  <2>5. (Answering /\ ReplyIsOwnFate)'
    BY <1>6, <2>0 DEF SendAccepted, TypeOK, Mutex, Owned, Untried, Exchange, Answering,
             ReplyIsOwnFate
  <2> QED BY <2>1, <2>2, <2>3, <2>4, <2>5
<1>7. ASSUME NEW t \in Tasks, SendRefused(t) PROVE IInv'
  <2>1. TypeOK'
    BY <1>7 DEF SendRefused, TypeOK
  <2>2. (Mutex /\ Owned)'
    BY <1>7 DEF SendRefused, TypeOK, Mutex, Owned
  <2>3. Untried'
    BY <1>7 DEF SendRefused, TypeOK, Owned, Untried
  <2>4. Exchange'
    BY <1>7 DEF SendRefused, TypeOK, Mutex, Owned, Untried, Exchange
  <2>5. (Answering /\ ReplyIsOwnFate)'
    BY <1>7 DEF SendRefused, TypeOK, Mutex, Owned, Untried, Exchange, Answering,
             ReplyIsOwnFate
  <2> QED BY <2>1, <2>2, <2>3, <2>4, <2>5
<1>8. ASSUME NEW t \in Tasks, AwaitCallback(t) PROVE IInv'
  <2>1. TypeOK'
    BY <1>8 DEF AwaitCallback, TypeOK
  <2>2. (Mutex /\ Owned)'
    BY <1>8 DEF AwaitCallback, TypeOK, Mutex, Owned
  <2>3. Untried'
    BY <1>8 DEF AwaitCallback, TypeOK, Owned, Untried
  <2>4. Exchange'
    BY <1>8 DEF AwaitCallback, TypeOK, Mutex, Owned, Untried, Exchange
  <2>5. (Answering /\ ReplyIsOwnFate)'
    BY <1>8 DEF AwaitCallback, TypeOK, Mutex, Owned, Untried, Exchange, Answering,
             ReplyIsOwnFate
  <2> QED BY <2>1, <2>2, <2>3, <2>4, <2>5
<1>9. ASSUME NEW t \in Tasks, ReadStatus(t) PROVE IInv'
  <2>1. TypeOK'
    BY <1>9 DEF ReadStatus, TypeOK
  <2>2. (Mutex /\ Owned)'
    BY <1>9 DEF ReadStatus, TypeOK, Mutex, Owned
  <2>3. Untried'
    BY <1>9 DEF ReadStatus, TypeOK, Owned, Untried
  <2>4. Exchange'
    BY <1>9 DEF ReadStatus, TypeOK, Mutex, Owned, Untried, Exchange
  <2>5. (Answering /\ ReplyIsOwnFate)'
    BY <1>9 DEF ReadStatus, TypeOK, Mutex, Owned, Untried, Exchange, Answering,
             ReplyIsOwnFate
  <2> QED BY <2>1, <2>2, <2>3, <2>4, <2>5
<1>10. ASSUME NEW t \in Tasks, Unlock(t) PROVE IInv'
  <2>1. TypeOK'
    BY <1>10 DEF Unlock, TypeOK
  <2>2. (Mutex /\ Owned)'
    BY <1>10 DEF Unlock, TypeOK, Mutex, Owned
  <2>3. Untried'
    BY <1>10 DEF Unlock, TypeOK, Owned, Untried
  <2>4. Exchange'
    BY <1>10 DEF Unlock, TypeOK, Mutex, Owned, Untried, Exchange
  <2>5. (Answering /\ ReplyIsOwnFate)'
    BY <1>10 DEF Unlock, TypeOK, Mutex, Owned, Untried, Exchange, Answering,
             ReplyIsOwnFate
  <2> QED BY <2>1, <2>2, <2>3, <2>4, <2>5
<1>11. ASSUME NEW t \in Tasks, Release(t) PROVE IInv'
  <2>1. TypeOK'
    BY <1>11 DEF Release, TypeOK
  <2>2. (Mutex /\ Owned)'
    BY <1>11 DEF Release, TypeOK, Mutex, Owned
  <2>3. Untried'
    BY <1>11 DEF Release, TypeOK, Owned, Untried
  <2>4. Exchange'
    BY <1>11 DEF Release, TypeOK, Mutex, Owned, Untried, Exchange
  <2>5. (Answering /\ ReplyIsOwnFate)'
    BY <1>11 DEF Release, TypeOK, Mutex, Owned, Untried, Exchange, Answering,
             ReplyIsOwnFate
  <2> QED BY <2>1, <2>2, <2>3, <2>4, <2>5
<1>12. ASSUME NEW t \in Tasks, WriteAgain(t) PROVE IInv'
  <2>1. TypeOK'
    BY <1>12 DEF WriteAgain, TypeOK
  <2>2. (Mutex /\ Owned)'
    BY <1>12 DEF WriteAgain, TypeOK, Mutex, Owned
  <2>3. Untried'
    BY <1>12 DEF WriteAgain, TypeOK, Owned, Untried
  <2>4. Exchange'
    BY <1>12 DEF WriteAgain, TypeOK, Mutex, Owned, Untried, Exchange
  <2>5. (Answering /\ ReplyIsOwnFate)'
    BY <1>12 DEF WriteAgain, TypeOK, Mutex, Owned, Untried, Exchange, Answering,
             ReplyIsOwnFate
  <2> QED BY <2>1, <2>2, <2>3, <2>4, <2>5
<1>13. ASSUME NEW f \in Frames, NEW s \in Status, SendCbStatus(f, s) PROVE IInv'
  <2>1. TypeOK'
    BY <1>13 DEF SendCbStatus, TypeOK
  <2>2. (Mutex /\ Owned)'
    BY <1>13 DEF SendCbStatus, TypeOK, Mutex, Owned
  <2>3. Untried'
    BY <1>13 DEF SendCbStatus, TypeOK, Mutex, Owned, Untried, Exchange
  <2>4. Exchange'
    BY <1>13 DEF SendCbStatus, TypeOK, Mutex, Owned, Untried, Exchange
  <2>5. (Answering /\ ReplyIsOwnFate)'
    BY <1>13 DEF SendCbStatus, TypeOK, Mutex, Owned, Untried, Exchange, Answering,
             ReplyIsOwnFate
  <2> QED BY <2>1, <2>2, <2>3, <2>4, <2>5
<1>14. ASSUME SendCbGive PROVE IInv'
  <2>1. TypeOK'
    BY <1>14 DEF SendCbGive, TypeOK
  <2>2. (Mutex /\ Owned)'
    BY <1>14 DEF SendCbGive, TypeOK, Mutex, Owned
  <2>3. Untried'
    BY <1>14 DEF SendCbGive, TypeOK, Owned, Untried
  <2>4. Exchange'
    BY <1>14 DEF SendCbGive, TypeOK, Mutex, Owned, Untried, Exchange
  <2>5. (Answering /\ ReplyIsOwnFate)'
    BY <1>14 DEF SendCbGive, TypeOK, Mutex, Owned, Untried, Exchange, Answering,
             ReplyIsOwnFate
  <2> QED BY <2>1, <2>2, <2>3, <2>4, <2>5
<1>15. CASE UNCHANGED vars
  BY <1>15 DEF vars, TypeOK, Mutex, Owned, Untried, Exchange, Answering,
           ReplyIsOwnFate
<1> QED
  BY <1>1, <1>2, <1>3, <1>4, <1>5, <1>6, <1>7, <1>8,
     <1>9, <1>10, <1>11, <1>12, <1>13, <1>14, <1>15 DEF Next, WriteData, SendCb

LEMMA InvariantHolds == Spec => []IInv
<1>1. IInv /\ [Next]_vars => IInv'  BY StepIInv
<1> QED BY InitIInv, <1>1, PTL DEF Spec

(* The variables keep their types.                                         *)
THEOREM TypeCorrect == Spec => []TypeOK
<1>1. IInv => TypeOK  BY DEF IInv
<1> QED BY InvariantHolds, <1>1, PTL

(* espnow_write_data answers for a frame with what the radio did with that *)
(* very frame, for any number of tasks, frames and queue slots.            *)
THEOREM AnswersOwnFate == Spec => []ReplyIsOwnFate
<1>1. IInv => ReplyIsOwnFate  BY DEF IInv
<1> QED BY InvariantHolds, <1>1, PTL

(* The other half of Mutex: a lock that is taken has a holder.             *)
LockHeld == lock = 0 => \E t \in Tasks : pc[t] \in Holding

LEMMA LockHeldStep == ASSUME IInv, LockHeld, [Next]_vars PROVE LockHeld'
<1> SUFFICES ASSUME lock' = 0 PROVE \E u \in Tasks : pc'[u] \in Holding
  BY DEF LockHeld
<1>0. pc \in [Tasks -> {"idle", "lock", "drain", "send", "await", "read", "unlock",
                        "release"}]
  BY DEF IInv, TypeOK
<1>1. CASE UNCHANGED <<pc, lock>>
  BY <1>1 DEF LockHeld
<1>2. ASSUME NEW t \in Tasks, TakeLock(t)
      PROVE  \E u \in Tasks : pc'[u] \in Holding
  <2>1. pc'[t] = "drain"
    BY <1>0, <1>2 DEF TakeLock
  <2> QED BY <2>1
<1>3. ASSUME NEW t \in Tasks, pc[t] \in Holding, lock' = lock,
             NEW p \in Holding, pc' = [pc EXCEPT ![t] = p]
      PROVE  \E u \in Tasks : pc'[u] \in Holding
  <2>1. pc'[t] = p
    BY <1>0, <1>3
  <2> QED BY <2>1
<1>4. ASSUME NEW t \in Tasks, pc[t] \notin Holding, lock' = lock,
             NEW p, pc' = [pc EXCEPT ![t] = p]
      PROVE  \E u \in Tasks : pc'[u] \in Holding
  <2>1. PICK u \in Tasks : pc[u] \in Holding
    BY <1>4 DEF LockHeld
  <2>2. pc'[u] = pc[u]
    BY <1>0, <1>4, <2>1
  <2> QED BY <2>1, <2>2
<1>5. ASSUME NEW t \in Apps, NEW f \in Frames, WriteBlocking(t, f) \/ WritePosted(t, f)
      PROVE  \E u \in Tasks : pc'[u] \in Holding
  BY <1>1, <1>4, <1>5 DEF WriteBlocking, WritePosted
<1>6. CASE ReceivePosted
  BY <1>4, <1>6 DEF ReceivePosted
<1>7. ASSUME NEW t \in Tasks, WriteData(t) \/ WriteAgain(t)
      PROVE  \E u \in Tasks : pc'[u] \in Holding
  <2>1. CASE DrainCallback(t)
    BY <1>3, <2>1 DEF DrainCallback
  <2>2. CASE SendAccepted(t)
    BY <1>3, <2>2 DEF SendAccepted
  <2>3. CASE SendRefused(t)
    BY <1>3, <2>3 DEF SendRefused
  <2>4. CASE AwaitCallback(t)
    BY <1>3, <2>4 DEF AwaitCallback
  <2>5. CASE ReadStatus(t)
    BY <1>3, <2>5 DEF ReadStatus
  <2>6. CASE Unlock(t)
    BY <2>6 DEF Unlock
  <2>7. CASE Release(t)
    BY <1>4, <2>7 DEF Release
  <2>8. CASE WriteAgain(t)
    BY <1>4, <2>8 DEF WriteAgain
  <2> QED BY <1>2, <1>7, <2>1, <2>2, <2>3, <2>4, <2>5, <2>6, <2>7, <2>8 DEF WriteData
<1>8. CASE SendCb
  BY <1>1, <1>8 DEF SendCb, SendCbGive, SendCbStatus
<1>9. CASE UNCHANGED vars
  BY <1>1, <1>9 DEF vars
<1> QED BY <1>5, <1>6, <1>7, <1>8, <1>9 DEF Next

(* Whoever waits for the callback without a timeout has it still to come,  *)
(* and whoever waits for the lock has a holder to wait for: what the       *)
(* liveness of the path rests on, for any number of tasks.                 *)
THEOREM AnswersCome == Spec => []AnswerIsComing
<1>1. Init => LockHeld
  BY DEF Init, LockHeld
<1>2. IInv /\ LockHeld /\ [Next]_vars => LockHeld'
  BY LockHeldStep
<1>3. IInv /\ LockHeld => AnswerIsComing
  BY DEF IInv, LockHeld, Exchange, AnswerIsComing
<1> QED BY InvariantHolds, <1>1, <1>2, <1>3, PTL DEF Spec

(* No frame buffer is used by two tasks, or after it was freed.            *)
THEOREM BuffersSafe == Spec => []BuffersExclusive
<1>1. ASSUME IInv PROVE BuffersExclusive
  <2> USE <1>1 DEF IInv
  <2>1. \A t \in Writers : heap[cur[t]] = "live" /\ cur[t] \notin Queued
    BY DEF Owned, Writers, Queued
  <2>2. \A t, u \in Writers : t # u => cur[t] # cur[u]
    BY DEF Owned, Writers
  <2>3. \A f \in air : heap[f] = "live"
    BY DEF Exchange, Owned
  <2> QED BY <2>1, <2>2, <2>3 DEF BuffersExclusive, Owned, Queued
<1>2. IInv => BuffersExclusive  BY <1>1
<1> QED BY InvariantHolds, <1>2, PTL

-----------------------------------------------------------------------------
(* Refinement of SendService.                                              *)

LEMMA InitService == Init => Service!Init
BY DEF Init, Service!Init, Phase

(* A step that touches one frame moves the phase of that frame only.       *)
LEMMA PhaseMoves ==
  ASSUME NEW f \in Frames,
         \A g \in Frames \ {f} : /\ heap'[g] = heap[g] /\ fate'[g] = fate[g]
                                 /\ reply'[g] = reply[g]
                                 /\ g \in air' <=> g \in air
  PROVE  Phase' = [Phase EXCEPT ![f] = Phase'[f]]
<1>1. \A g \in Frames \ {f} : Phase'[g] = Phase[g]  BY DEF Phase
<1>2. Phase = [g \in Frames |-> Phase[g]]  BY DEF Phase
<1>3. Phase' = [g \in Frames |-> Phase'[g]]  BY DEF Phase
<1> QED BY <1>1, <1>2, <1>3

(* Each step is a step of the service or leaves what it shows unchanged.   *)
LEMMA StepService ==
  ASSUME IInv, IInv', [Next]_vars PROVE [Service!Next]_(Service!vars)
<1> USE DEF IInv, Service!Next, Service!vars, Service!Move
<1>1. ASSUME NEW t \in Apps, NEW f \in Frames, WriteBlocking(t, f)
      PROVE  Service!Submit(f)
  <2>1. Phase' = [Phase EXCEPT ![f] = Phase'[f]]
    BY <1>1, PhaseMoves DEF WriteBlocking, Build, TypeOK
  <2>2. Phase[f] = "free" /\ Phase'[f] = "waiting"
    BY <1>1 DEF WriteBlocking, Build, Phase, TypeOK, Mutex, Owned, Untried, Exchange, Answering
  <2> QED BY <1>1, <2>1, <2>2 DEF WriteBlocking, Build, Service!Submit
<1>2. ASSUME NEW t \in Apps, NEW f \in Frames, WritePosted(t, f)
      PROVE  Service!Submit(f)
  <2>1. Phase' = [Phase EXCEPT ![f] = Phase'[f]]
    BY <1>2, PhaseMoves DEF WritePosted, Build, TypeOK
  <2>2. Phase[f] = "free" /\ (Phase'[f] = "waiting" \/ Phase'[f] = "lost")
    BY <1>2 DEF WritePosted, Build, Phase, TypeOK, Mutex, Owned, Untried, Exchange, Answering
  <2> QED BY <1>2, <2>1, <2>2 DEF WritePosted, Build, Service!Submit
<1>3. ASSUME NEW t \in Tasks, SendAccepted(t)
      PROVE  Service!Transmit(cur[t])
  <2>0. cur[t] \in Frames  BY <1>3 DEF SendAccepted, TypeOK, Owned
  <2>1. Phase' = [Phase EXCEPT ![cur[t]] = Phase'[cur[t]]]
    BY <1>3, <2>0, PhaseMoves DEF SendAccepted, TypeOK
  <2>2. Phase[cur[t]] = "waiting" /\ Phase'[cur[t]] = "onair"
    BY <1>3, <2>0 DEF SendAccepted, Phase, TypeOK, Mutex, Owned, Untried, Exchange, Answering
  <2>3. \A g \in Frames : Phase[g] \notin {"onair", "judged"}
    <3>1. \A u \in Tasks : pc[u] \notin {"await", "read"}
      BY <1>3 DEF SendAccepted, Mutex
    <3>2. air = {}  BY <3>1 DEF Exchange
    <3> QED BY <3>1, <3>2 DEF Phase, Answering, TypeOK
  <2> QED BY <1>3, <2>0, <2>1, <2>2, <2>3 DEF SendAccepted, Service!Transmit
<1>4. ASSUME NEW t \in Tasks, SendRefused(t)
      PROVE  Service!Refuse(cur[t])
  <2>0. cur[t] \in Frames  BY <1>4 DEF SendRefused, TypeOK, Owned
  <2>1. Phase' = [Phase EXCEPT ![cur[t]] = Phase'[cur[t]]]
    BY <1>4, <2>0, PhaseMoves DEF SendRefused, TypeOK
  <2>2. Phase[cur[t]] = "waiting" /\ Phase'[cur[t]] = "answered"
    BY <1>4, <2>0 DEF SendRefused, Phase, TypeOK, Mutex, Owned, Untried, Exchange, Answering
  <2>3. \A g \in Frames : Phase[g] \notin {"onair", "judged"}
    <3>1. \A u \in Tasks : pc[u] \notin {"await", "read"}
      BY <1>4 DEF SendRefused, Mutex
    <3>2. air = {}  BY <3>1 DEF Exchange
    <3> QED BY <3>1, <3>2 DEF Phase, Answering, TypeOK
  <2> QED BY <1>4, <2>0, <2>1, <2>2, <2>3 DEF SendRefused, Service!Refuse
<1>5. ASSUME NEW t \in Tasks, ReadStatus(t)
      PROVE  Service!Answer(cur[t])
  <2>0. cur[t] \in Frames  BY <1>5 DEF ReadStatus, TypeOK, Owned
  <2>1. Phase' = [Phase EXCEPT ![cur[t]] = Phase'[cur[t]]]
    BY <1>5, <2>0, PhaseMoves DEF ReadStatus, TypeOK
  <2>2. Phase[cur[t]] = "judged" /\ Phase'[cur[t]] = "answered"
    BY <1>5, <2>0 DEF ReadStatus, Phase, TypeOK, Mutex, Owned, Untried, Exchange, Answering
  <2>3. pc[t] = "read" /\ status = fate[cur[t]] /\ status \in Status
    BY <1>5 DEF ReadStatus, Answering, Exchange
  <2>4. reply' = [reply EXCEPT ![cur[t]] = fate[cur[t]]] /\ fate' = fate
    BY <1>5, <2>3 DEF ReadStatus, Status
  <2> QED BY <2>0, <2>1, <2>2, <2>4 DEF Service!Answer
<1>6. ASSUME NEW t \in Tasks, Release(t)
      PROVE  Service!Retire(cur[t])
  <2>0. cur[t] \in Frames  BY <1>6 DEF Release, TypeOK, Owned
  <2>1. Phase' = [Phase EXCEPT ![cur[t]] = Phase'[cur[t]]]
    BY <1>6, <2>0, PhaseMoves DEF Release, TypeOK
  <2>2. Phase[cur[t]] = "answered" /\ (Phase'[cur[t]] = "free" \/ Phase'[cur[t]] = "lost")
    BY <1>6, <2>0 DEF Release, Phase, TypeOK, Mutex, Owned, Untried, Exchange, Answering
  <2> QED BY <1>6, <2>0, <2>1, <2>2 DEF Release, Service!Retire
<1>7. ASSUME NEW t \in Tasks, WriteAgain(t)
      PROVE  Service!Resubmit(cur[t])
  <2>0. cur[t] \in Frames  BY <1>7 DEF WriteAgain, TypeOK, Owned
  <2>1. Phase' = [Phase EXCEPT ![cur[t]] = Phase'[cur[t]]]
    BY <1>7, <2>0, PhaseMoves DEF WriteAgain, TypeOK
  <2>2. Phase[cur[t]] = "answered" /\ Phase'[cur[t]] = "waiting"
    BY <1>7, <2>0 DEF WriteAgain, Phase, TypeOK, Mutex, Owned, Untried, Exchange, Answering
  <2> QED BY <1>7, <2>0, <2>1, <2>2 DEF WriteAgain, Service!Resubmit, ReplyIsOwnFate
<1>8. ASSUME NEW f \in Frames, NEW s \in Status, SendCbStatus(f, s)
      PROVE  Service!Judge(f, s)
  <2>1. Phase' = [Phase EXCEPT ![f] = Phase'[f]]
    BY <1>8, PhaseMoves DEF SendCbStatus, TypeOK
  <2>2. Phase[f] = "onair" /\ Phase'[f] = "judged"
    BY <1>8 DEF SendCbStatus, Phase, TypeOK, Mutex, Owned, Untried, Exchange, Answering
  <2> QED BY <1>8, <2>1, <2>2 DEF SendCbStatus, Service!Judge
<1>9. ASSUME ReceivePosted \/ SendCbGive \/ UNCHANGED vars
              \/ \E t \in Tasks : \/ TakeLock(t) \/ DrainCallback(t)
                                  \/ AwaitCallback(t) \/ Unlock(t)
      PROVE  UNCHANGED Service!vars
  BY <1>9 DEF ReceivePosted, SendCbGive, TakeLock, DrainCallback,
              AwaitCallback, Unlock, vars, Phase
<1>10. \A t \in Tasks : pc[t] # "idle" => cur[t] \in Frames
  BY DEF TypeOK, Owned
<1> QED
  BY <1>1, <1>2, <1>3, <1>4, <1>5, <1>6, <1>7, <1>8, <1>9, <1>10
  DEF Next, WriteData, SendCb, SendAccepted, SendRefused, ReadStatus, Release,
      WriteAgain

(* The transmit path implements SendService.                               *)
THEOREM ImplementsService == Spec => ServiceSpec
<1>1. IInv /\ IInv' /\ [Next]_vars => [Service!Next]_(Service!vars)
  BY StepService
<1> QED
  BY InvariantHolds, InitService, <1>1, PTL DEF Spec, ServiceSpec, Service!Spec
=============================================================================
