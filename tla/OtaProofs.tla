------------------------------- MODULE OtaProofs -------------------------------
(***************************************************************************)
(* Proofs about Ota: at every restart point the running slot is complete,  *)
(* and the firmware changes only when asked or in the validation window.   *)
(***************************************************************************)
EXTENDS Ota, TLAPS

\* There are two slots.
LEMMA TwoSlots ==
  ASSUME NEW s \in Slots
  PROVE  Other(s) \in Slots /\ Other(s) # s /\ Slots = {s, Other(s)}
<1>1. PICK t \in Slots : s # t /\ Slots = {s, t}
  BY SlotAssumption DEF SlotAssumption
<1>2. Other(s) \in Slots /\ Other(s) # s
  BY <1>1 DEF Other
<1> QED
  BY <1>1, <1>2

\* The boot selector is another slot only for a reason.
SelectionExplained == boot # running => asked \/ pc = "restore"

\* What has been selected for validation has passed it.
Validated == pc = "restore" => image[boot] # Bad

IInv == TypeOK /\ AlwaysBootable /\ SelectionExplained /\ Validated

LEMMA InitInv == Init => IInv
<1> SUFFICES ASSUME Init PROVE IInv
  OBVIOUS
<1> PICK s \in Slots, v \in Versions :
      /\ running = s /\ boot = s
      /\ image = [t \in Slots |-> IF t = s THEN v ELSE Bad]
      /\ server = v /\ source = v
  BY DEF Init
<1>1. image \in [Slots -> Versions \cup {Bad}]
  OBVIOUS
<1>2. TypeOK
  <2>1. blob = None /\ version = None /\ pc = "idle" /\ caller = "check"
        /\ written = 0 /\ length = 0
    BY DEF Init
  <2>2. asked \in BOOLEAN /\ moved \in BOOLEAN /\ spoiled \in BOOLEAN
    BY DEF Init
  <2>3. 0 \in 0..Size
    BY OtaAssumption, SMT DEF OtaAssumption
  <2>4. 0 \in Nat \cup {-1}
    BY SMT
  <2> QED
    BY <1>1, <2>1, <2>2, <2>3, <2>4, Zenon DEF TypeOK
<1>3. AlwaysBootable /\ SelectionExplained
  BY OtaAssumption DEF AlwaysBootable, SelectionExplained, OtaAssumption
<1>4. Validated
  BY DEF Init, Validated
<1> QED
  BY <1>2, <1>3, <1>4 DEF IInv

\* A restart lands on a complete image, on another slot only if it was
\* selected for a reason.
LEMMA BootInv ==
  ASSUME IInv, Boot, blob' \in {None, blob}
  PROVE  IInv' /\ (running' # running => asked \/ pc = "restore")
<1> USE DEF IInv
<1>1. boot \in Slots /\ running \in Slots /\ Other(boot) \in Slots
      /\ Slots = {boot, Other(boot)}
  BY TwoSlots DEF TypeOK
<1>2. image[boot] = Bad => running = Other(boot)
  BY <1>1 DEF AlwaysBootable
<1>3. running' \in Slots /\ image[running'] # Bad
      /\ (running' # running => running' = boot)
  BY <1>1, <1>2 DEF Boot, AlwaysBootable
<1>4. running' # running => asked \/ pc = "restore"
  BY <1>3 DEF SelectionExplained
<1>5. TypeOK'
  <2>1. /\ version' = None /\ pc' = "idle"
        /\ asked' \in BOOLEAN /\ spoiled' \in BOOLEAN /\ moved' \in BOOLEAN
    BY DEF Boot, TypeOK
  <2> QED
    BY <1>3, <2>1 DEF TypeOK, Boot, download
<1>6. AlwaysBootable'
  BY <1>3 DEF AlwaysBootable, Boot
<1>7. SelectionExplained'
  <2> SUFFICES ASSUME boot' # running' PROVE asked'
    BY DEF SelectionExplained
  <2>1. boot' = boot /\ image[boot] = Bad
    BY DEF Boot
  <2>2. running' = running /\ boot # running
    BY <2>1, <1>2, <1>1 DEF Boot
  <2>3. asked
    BY <2>1, <2>2 DEF SelectionExplained, Validated
  <2> QED
    BY <2>2, <2>3 DEF Boot
<1>8. Validated'
  BY DEF Boot, Validated
<1> QED
  BY <1>4, <1>5, <1>6, <1>7, <1>8

\* Every step preserves the invariant, and switches firmware for a reason.
LEMMA NextInv ==
  ASSUME IInv, Next
  PROVE  IInv' /\ (running' # running => asked \/ pc = "restore")
<1> USE DEF IInv
<1>0. Update \in Slots /\ Update # running /\ Slots = {running, Update}
  BY TwoSlots DEF TypeOK, Update
<1>1. ASSUME NEW op \in {"image", "update", "reboot", "schedule", "check"}, Call(op)
      PROVE  IInv' /\ running' = running
  <2>1. Start(op) \in {"probe", "find", "try", "choose"}
    BY DEF Start
  <2>2. TypeOK'
    BY <1>1, <2>1 DEF TypeOK, Call, Goto, flash, download, history
  <2> QED
    BY <1>1, <2>1, <2>2 DEF Call, Goto, flash, download, history,
       AlwaysBootable, SelectionExplained, Validated
<1>2. CASE Find
  BY <1>2 DEF Find, UpstreamVersion, Goto, flash, download, history, TypeOK,
     AlwaysBootable, SelectionExplained, Validated
<1>3. CASE CheckVersion
  BY <1>3 DEF CheckVersion, Goto, flash, download, history, TypeOK,
     AlwaysBootable, SelectionExplained, Validated
<1>4. CASE Probe
  BY <1>4 DEF Probe, UpstreamVersion, ImageReturns, flash, download, history,
     TypeOK, AlwaysBootable, SelectionExplained, Validated
<1>5. CASE Open
  BY <1>5 DEF Open, ImageReturns, flash, history, TypeOK, AlwaysBootable,
     SelectionExplained, Validated
<1>6. CASE Begin
  <2>1. 0 \in 0..Size
    BY OtaAssumption, SMT DEF OtaAssumption
  <2>2. 0 \in Nat \cup {-1}
    BY SMT
  <2> QED
    BY <1>0, <1>6, <2>1, <2>2 DEF Begin, Goto, TypeOK, AlwaysBootable,
       SelectionExplained, Validated
<1>7. CASE ReadData
  <2>1. image' \in [Slots -> Versions \cup {Bad}] /\ image'[running] = image[running]
    BY <1>0, <1>7 DEF ReadData, TypeOK
  <2>2. written' \in 0..Size
    BY <1>7, OtaAssumption, SMT DEF ReadData, TypeOK, OtaAssumption
  <2>3. length' \in Nat \cup {-1}
    BY <1>7, OtaAssumption, SMT DEF ReadData, TypeOK, OtaAssumption
  <2> QED
    BY <1>7, <2>1, <2>2, <2>3 DEF ReadData, history, TypeOK, AlwaysBootable,
       SelectionExplained, Validated
<1>8. CASE ReadError
  BY <1>8, OtaAssumption DEF ReadError, flash, history, TypeOK,
     AlwaysBootable, SelectionExplained, Validated, OtaAssumption
<1>9. CASE ReadClosed
  BY <1>9 DEF ReadClosed, Goto, flash, download, history, TypeOK,
     AlwaysBootable, SelectionExplained, Validated
<1>10. CASE EndDownload
  BY <1>10 DEF EndDownload, ImageReturns, flash, download, history, TypeOK,
     AlwaysBootable, SelectionExplained, Validated
<1>11. CASE TryBoot
  BY <1>0, <1>11 DEF TryBoot, ImageReturns, download, history, TypeOK,
     AlwaysBootable, SelectionExplained, Validated
<1>12. CASE Restore
  BY <1>12 DEF Restore, Goto, download, TypeOK, AlwaysBootable,
     SelectionExplained, Validated
<1>13. CASE SaveInfo
  BY <1>13 DEF SaveInfo, ImageReturns, download, TypeOK, AlwaysBootable,
     SelectionExplained, Validated
<1>14. CASE ChooseBoot
  BY <1>0, <1>14 DEF ChooseBoot, download, TypeOK, AlwaysBootable,
     SelectionExplained, Validated
<1>15. CASE Forget
  <2>1. CASE caller = "schedule"
    BY <1>15, <2>1 DEF Forget, download, history, TypeOK, AlwaysBootable,
       SelectionExplained, Validated
  <2>2. CASE caller # "schedule"
    BY <1>15, <2>2, BootInv DEF Forget
  <2> QED
    BY <2>1, <2>2
<1>16. CASE Cut
  BY <1>16, BootInv DEF Cut
<1>17. CASE Publish
  BY <1>17 DEF Publish, flash, download, history, TypeOK, AlwaysBootable,
     SelectionExplained, Validated
<1> QED
  BY <1>1, <1>2, <1>3, <1>4, <1>5, <1>6, <1>7, <1>8, <1>9, <1>10, <1>11,
     <1>12, <1>13, <1>14, <1>15, <1>16, <1>17 DEF Next, HttpImage

LEMMA StutterInv == ASSUME IInv, UNCHANGED vars PROVE IInv'
  BY DEF IInv, vars, flash, download, history, TypeOK, AlwaysBootable,
     SelectionExplained, Validated

\* The inductive invariant.
THEOREM Inductive == Spec => []IInv
<1>1. IInv /\ [Next]_vars => IInv'
  BY NextInv, StutterInv
<1> QED
  BY <1>1, InitInv, PTL DEF Spec

\* Every variable of the update keeps its type.
THEOREM TypeCorrect == Spec => []TypeOK
<1>1. IInv => TypeOK
  BY DEF IInv
<1> QED
  BY <1>1, Inductive, PTL

\* The slot the device runs from holds a complete image, for any images,
\* server and number of restarts.
THEOREM RunningIsComplete == Spec => []AlwaysBootable
<1>1. IInv => AlwaysBootable
  BY DEF IInv
<1> QED
  BY <1>1, Inductive, PTL

\* The firmware changes only when std_ota_reboot chose the other slot or in
\* the validation window.
THEOREM FirmwareSwitchIsAsked == Spec => SwitchIsAsked
<1>1. IInv /\ [Next]_vars => [running' # running => asked \/ pc = "restore"]_vars
  BY NextInv
<1> QED
  BY <1>1, Inductive, PTL DEF Spec, SwitchIsAsked

-----------------------------------------------------------------------------
(* The record.                                                             *)

\* The version a download asked for is the one it gets, and the slot it is
\* validated and recorded from is complete.
DownloadIsServed ==
  /\ caller # "check" /\ ~moved =>
       /\ pc = "open" => version = server
       /\ pc \in {"begin", "read", "end", "try", "restore", "save"} => source = version
       /\ pc \in {"read", "end", "try", "restore", "save"} => image[Update] \in {Bad, source}
  /\ pc \in {"try", "restore", "save"} /\ caller # "check" => image[Update] # Bad
  /\ pc = "save" => caller # "check"
  /\ pc = "read" => spoiled

Recorded == DownloadIsServed /\ RecordIsImage

\* What runs after a restart is another slot only if spoiled says so.
LEMMA BootRecorded ==
  ASSUME IInv, Recorded, Boot, blob' \in {None, blob}
  PROVE  Recorded'
<1>1. running' = running => Update' = Update
  BY DEF Update
<1>2. image' = image /\ pc' = "idle"
  BY DEF Boot
<1> QED BY <1>1, <1>2 DEF Boot, Recorded, DownloadIsServed, RecordIsImage, IInv, TypeOK

LEMMA NextRecorded == ASSUME IInv, Recorded, Next PROVE Recorded'
<1> USE DEF IInv, Recorded
<1>0. Update \in Slots /\ Update # running
  BY TwoSlots DEF TypeOK, Update
<1>1. running' = running => Update' = Update
  BY DEF Update
<1>2. CASE Forget \/ Cut
  <2>1. CASE Boot
    BY <1>2, <2>1, BootRecorded DEF Forget, Cut
  <2>2. CASE Forget /\ ~Boot
    BY <1>1, <2>2 DEF Forget, download, history, DownloadIsServed, RecordIsImage
  <2> QED BY <1>2, <2>1, <2>2 DEF Cut
<1>3. ASSUME NEW op \in {"image", "update", "reboot", "schedule", "check"}, Call(op)
      PROVE  Recorded'
  <2>1. pc' \in {"probe", "find", "choose"} \/ (pc' = "try" /\ caller' = "check")
    BY <1>3 DEF Call, Goto, Start
  <2> QED BY <1>1, <1>3, <2>1
             DEF Call, flash, download, history, DownloadIsServed, RecordIsImage
<1>4. CASE Find \/ CheckVersion
  BY <1>1, <1>4 DEF Find, CheckVersion, Goto, flash, download, history,
     DownloadIsServed, RecordIsImage
<1>5. CASE Probe \/ Open
  BY <1>1, <1>5 DEF Probe, Open, UpstreamVersion, ImageReturns, flash, download, history,
     DownloadIsServed, RecordIsImage
<1>6. CASE Begin
  <2>1. image'[Update] = Bad
    BY <1>0, <1>6 DEF Begin, TypeOK
  <2> QED BY <1>1, <1>6, <2>1 DEF Begin, Goto, DownloadIsServed, RecordIsImage
<1>7. CASE ReadData
  <2>1. image'[Update] \in {Bad, source}
    BY <1>0, <1>7 DEF ReadData, TypeOK
  <2> QED BY <1>1, <1>7, <2>1 DEF ReadData, history, DownloadIsServed, RecordIsImage
<1>8. CASE ReadError \/ ReadClosed \/ EndDownload
  BY <1>1, <1>8 DEF ReadError, ReadClosed, EndDownload, Goto, ImageReturns, flash, download,
     history, DownloadIsServed, RecordIsImage
<1>9. CASE TryBoot \/ Restore
  BY <1>1, <1>9 DEF TryBoot, Restore, Goto, ImageReturns, download, history,
     DownloadIsServed, RecordIsImage
<1>10. CASE SaveInfo
  <2>1. ~moved => image[Update] = version
    BY <1>10 DEF SaveInfo, DownloadIsServed
  <2> QED BY <1>1, <1>10, <2>1
             DEF SaveInfo, ImageReturns, download, DownloadIsServed, RecordIsImage
<1>11. CASE ChooseBoot \/ Publish
  BY <1>1, <1>11 DEF ChooseBoot, Publish, flash, download, DownloadIsServed, RecordIsImage
<1> QED
  BY <1>2, <1>3, <1>4, <1>5, <1>6, <1>7, <1>8, <1>9, <1>10, <1>11 DEF Next, HttpImage

\* The record of KEY_OTA_INFO names the image in the update slot, unless it is
\* spoiled: what std_ota_end saves is what was downloaded and validated.
THEOREM RecordNamesImage == Spec => []RecordIsImage
<1>1. Init => Recorded
  BY DEF Init, Recorded, DownloadIsServed, RecordIsImage
<1>2. IInv /\ Recorded /\ [Next]_vars => Recorded'
  <2>1. IInv /\ Recorded /\ UNCHANGED vars => Recorded'
    BY DEF vars, flash, download, history, Recorded, DownloadIsServed, RecordIsImage, Update
  <2> QED BY <2>1, NextRecorded
<1>3. Recorded => RecordIsImage
  BY DEF Recorded
<1> QED
  BY <1>1, <1>2, <1>3, Inductive, PTL DEF Spec
=============================================================================
