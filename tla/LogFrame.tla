------------------------------- MODULE LogFrame -------------------------------
(***************************************************************************)
(* std_rdebug_log on a controlled device.  Every task formats its line in  *)
(* the same static buffer without a lock: clear, header, body, measure;    *)
(* target_print then hands it to build_espnow_send, whose length argument  *)
(* has eight bits and whose assertion puts the task to sleep, or the line  *)
(* is printed.  A byte is the task that wrote it, or NUL.  Nothing bounds  *)
(* the text: a line that overruns the buffer is followed up to there, for  *)
(* what the device does with the bytes behind it overwritten is anything.  *)
(***************************************************************************)
EXTENDS Naturals, Sequences, FiniteSets

CONSTANTS Loggers,  \* tasks that call std_rdebug_log
          Header,   \* length of "\033[..m [time] file[line]| "
          Bodies,   \* lengths a formatted body can have
          Size,     \* PRINT_BUF_SIZE
          Width,    \* 2^8, of build_espnow_send's uint8_t len
          MaxLen,   \* MAX_PACKET - sizeof(espnow_send_t)
          NUL

ASSUME LogAssumption ==
  /\ IsFiniteSet(Loggers) /\ NUL \notin Loggers
  /\ Header \in Nat /\ Bodies \subseteq Nat /\ Size \in Nat \ {0}
  /\ MaxLen \in Nat /\ Width \in Nat /\ MaxLen < Width

VARIABLES
  buf,      \* static char buf[PRINT_BUF_SIZE]
  rlog_en,  \* set and reset by the debug task (module TargetControl)
  stage,    \* each task's place
  body,     \* length of the body it formats
  offset,   \* strlen(buf), where its body goes
  len,      \* strlen(buf) + 1, then the uint8_t len
  frame,    \* the payload build_espnow_send copies
  mixed,    \* history: tasks whose line another task overlapped
  longest   \* history: length of the longest body any task was given

logVars == <<buf, rlog_en, stage, body, offset, len, frame, mixed, longest>>

Places == {"idle", "header", "offset", "body", "measure", "print", "build", "copy",
           "post", "asleep", "wild"}

LogTypeOK ==
  /\ buf \in [1..Size -> Loggers \cup {NUL}] /\ rlog_en \in BOOLEAN
  /\ stage \in [Loggers -> Places] /\ body \in [Loggers -> Bodies]
  /\ offset \in [Loggers -> 0..Size] /\ len \in [Loggers -> 0..Size]
  /\ frame \in [Loggers -> Seq(Loggers \cup {NUL})]
  /\ \A r \in Loggers : Len(frame[r]) <= MaxLen
  /\ mixed \subseteq Loggers /\ longest \in Nat

LogInit ==
  /\ buf = [i \in 1..Size |-> NUL] /\ rlog_en = FALSE
  /\ stage = [r \in Loggers |-> "idle"] /\ body \in [Loggers -> Bodies]
  /\ offset = [r \in Loggers |-> 0] /\ len = [r \in Loggers |-> 0]
  /\ frame = [r \in Loggers |-> <<>>] /\ mixed = {} /\ longest = 0

Advance(r, from, to) == stage[r] = from /\ stage' = [stage EXCEPT ![r] = to]

StrLen(s) == \* of a buffer whose last byte no text reaches
  CHOOSE n \in 0..(Size - 1) :
    s[n + 1] = NUL /\ \A i \in 1..n : s[i] # NUL

\* sprintf of n bytes at offset o: the bytes, then NUL.  Beyond the buffer they
\* hit memory of others: what the task does is undefined from then on.
Write(r, from, to, o, n) ==
  IF o + n + 1 <= Size
  THEN /\ Advance(r, from, to)
       /\ buf' = [i \in 1..Size |-> IF i \in (o + 1)..(o + n) THEN r
                                   ELSE IF i = o + n + 1 THEN NUL ELSE buf[i]]
  ELSE Advance(r, from, "wild") /\ UNCHANGED buf

Busy == {r \in Loggers : stage[r] \notin {"idle", "asleep"}}

Clear(r, b) == \* memset
  /\ Advance(r, "idle", "header") /\ buf' = [i \in 1..Size |-> NUL]
  /\ body' = [body EXCEPT ![r] = b]
  /\ longest' = IF b > longest THEN b ELSE longest
  /\ mixed' = IF Busy = {} THEN mixed \ {r} ELSE mixed \cup Busy \cup {r}
  /\ UNCHANGED <<rlog_en, offset, len, frame>>

WriteHeader(r) ==
  /\ Write(r, "header", "offset", 0, Header)
  /\ UNCHANGED <<rlog_en, body, offset, len, frame, mixed, longest>>

FindEnd(r) == \* vsprintf's first argument, buf + strlen(buf)
  /\ Advance(r, "offset", "body") /\ offset' = [offset EXCEPT ![r] = StrLen(buf)]
  /\ UNCHANGED <<buf, rlog_en, body, len, frame, mixed, longest>>

\* Mutant of WriteBody: one byte too many.
WriteBodyPadded(r) ==
  /\ Write(r, "body", "measure", offset[r], body[r] + 1)
  /\ offset' = [offset EXCEPT ![r] = 0]
  /\ UNCHANGED <<rlog_en, body, len, frame, mixed, longest>>

WriteBody(r) ==
  /\ Write(r, "body", "measure", offset[r], body[r])
  /\ offset' = [offset EXCEPT ![r] = 0]
  /\ UNCHANGED <<rlog_en, body, len, frame, mixed, longest>>

\* Mutant of Measure: without the terminator.
MeasureText(r) ==
  /\ Advance(r, "measure", "print") /\ len' = [len EXCEPT ![r] = StrLen(buf)]
  /\ UNCHANGED <<buf, rlog_en, body, offset, frame, mixed, longest>>

Measure(r) ==
  /\ Advance(r, "measure", "print") /\ len' = [len EXCEPT ![r] = StrLen(buf) + 1]
  /\ UNCHANGED <<buf, rlog_en, body, offset, frame, mixed, longest>>

\* target_print: not enabled, the line is printed; enabled, its length is cut
\* to eight bits on the way into build_espnow_send.
TargetPrint(r) ==
  /\ IF rlog_en THEN Advance(r, "print", "build") /\ len' = [len EXCEPT ![r] = @ % Width]
                ELSE Advance(r, "print", "idle") /\ len' = [len EXCEPT ![r] = 0]
  /\ UNCHANGED <<buf, rlog_en, body, offset, frame, mixed, longest>>

BuildSend(r) == \* STD_ASSERT(len <= MAX_PACKET - sizeof(espnow_send_t))
  /\ Advance(r, "build", IF len[r] <= MaxLen THEN "copy" ELSE "asleep")
  /\ UNCHANGED <<buf, rlog_en, body, offset, len, frame, mixed, longest>>

\* Mutant of Copy: the line is measured again.
CopyMeasured(r) ==
  /\ Advance(r, "copy", "post")
  /\ frame' = [frame EXCEPT ![r] = SubSeq(buf, 1, StrLen(buf) + 1)]
  /\ UNCHANGED <<buf, rlog_en, body, offset, len, mixed, longest>>

Copy(r) == \* memcpy into the block of len bytes
  /\ Advance(r, "copy", "post")
  /\ frame' = [frame EXCEPT ![r] = SubSeq(buf, 1, len[r])]
  /\ UNCHANGED <<buf, rlog_en, body, offset, len, mixed, longest>>

PostLine(r) == \* std_espnow_write(send, false): module EspNowSend
  /\ Advance(r, "post", "idle")
  /\ frame' = [frame EXCEPT ![r] = <<>>] /\ len' = [len EXCEPT ![r] = 0]
  /\ UNCHANGED <<buf, rlog_en, body, offset, mixed, longest>>

Remote == \* set_mac and unset_mac
  /\ rlog_en' = ~rlog_en
  /\ UNCHANGED <<buf, stage, body, offset, len, frame, mixed, longest>>

Log(r) ==
  \/ \E b \in Bodies : Clear(r, b)
  \/ WriteHeader(r) \/ FindEnd(r) \/ WriteBody(r) \/ Measure(r)
  \/ TargetPrint(r) \/ BuildSend(r) \/ Copy(r) \/ PostLine(r)

Overrun == \E r \in Loggers : stage[r] = "wild"

LogNext == Remote \/ (~Overrun /\ \E r \in Loggers : Log(r))
LogSpec == LogInit /\ [][LogNext]_logVars
-----------------------------------------------------------------------------
Line(r) == [i \in 1..(Header + body[r] + 1) |->
              IF i <= Header + body[r] THEN r ELSE NUL]

(* A line no other task's overlapped is sent as it was formatted, complete *)
(* with its terminator, if it is shorter than 256 bytes; of a longer one,  *)
(* the beginning is sent.  Its task is put to sleep only for the lengths   *)
(* the eight bits do not bring back under the limit.                       *)
SoloLine ==
  \A r \in Loggers \ mixed :
    /\ stage[r] = "post" =>
         /\ frame[r] = SubSeq(Line(r), 1, Len(frame[r]))
         /\ Len(Line(r)) < Width => frame[r] = Line(r)
    /\ stage[r] = "asleep" => Len(Line(r)) % Width > MaxLen

(* Nothing in the code keeps a line inside the buffer.  But however the    *)
(* tasks interleave, each appends one body at most to what the others      *)
(* left: the buffer is overrun only if one header and a body of every task *)
(* would not fit in it together, and by a line that no other overlaps only *)
(* if that line alone does not fit.                                        *)
OverrunIsLong ==
  \A r \in Loggers : stage[r] = "wild" =>
    /\ Header + longest * Cardinality(Loggers) + 1 > Size
    /\ r \notin mixed => Len(Line(r)) > Size
=============================================================================
