----------------------------- MODULE SendService -----------------------------
(***************************************************************************)
(* What std_espnow_write promises its callers, without locks, semaphores,  *)
(* queues or tasks: the radio carries one frame at a time, and the answer  *)
(* for a frame is the radio's verdict on that frame.                       *)
(***************************************************************************)
CONSTANT Frames
VARIABLES phase,   \* where each frame stands
          verdict, \* what the radio did with it
          answer   \* what the writer was told

vars == <<phase, verdict, answer>>

Init ==
  /\ phase = [f \in Frames |-> "free"]
  /\ verdict = [f \in Frames |-> "none"]
  /\ answer = [f \in Frames |-> "none"]

Move(f, from, to) == phase[f] = from /\ phase' = [phase EXCEPT ![f] = to]

\* A new frame is taken on ("waiting") or lost to a full queue.
Submit(f) ==
  /\ Move(f, "free", "waiting") \/ Move(f, "free", "lost")
  /\ verdict' = [verdict EXCEPT ![f] = "none"]
  /\ answer' = [answer EXCEPT ![f] = "none"]

Transmit(f) ==
  /\ \A g \in Frames : phase[g] \notin {"onair", "judged"}
  /\ Move(f, "waiting", "onair") /\ UNCHANGED <<verdict, answer>>

Judge(f, s) ==
  /\ Move(f, "onair", "judged")
  /\ verdict' = [verdict EXCEPT ![f] = s] /\ UNCHANGED answer

Answer(f) ==
  /\ Move(f, "judged", "answered")
  /\ answer' = [answer EXCEPT ![f] = verdict[f]] /\ UNCHANGED verdict

\* The driver would not take the frame.
Refuse(f) ==
  /\ \A g \in Frames : phase[g] \notin {"onair", "judged"}
  /\ Move(f, "waiting", "answered")
  /\ answer' = [answer EXCEPT ![f] = "fail"] /\ UNCHANGED verdict

\* The writer sends the same frame again.
Resubmit(f) ==
  /\ Move(f, "answered", "waiting") /\ answer[f] = "ok"
  /\ verdict' = [verdict EXCEPT ![f] = "none"]
  /\ answer' = [answer EXCEPT ![f] = "none"]

Retire(f) ==
  /\ Move(f, "answered", "free") \/ Move(f, "answered", "lost")
  /\ UNCHANGED <<verdict, answer>>

Next == \E f \in Frames :
  \/ Submit(f) \/ Transmit(f) \/ Answer(f) \/ Refuse(f)
  \/ Resubmit(f) \/ Retire(f)
  \/ \E s \in {"ok", "fail"} : Judge(f, s)

Spec == Init /\ [][Next]_vars
=============================================================================
