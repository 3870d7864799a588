--------------------------------- MODULE Ota ---------------------------------
(***************************************************************************)
(* std_ota.c: firmware is downloaded into the slot that is not running,    *)
(* validated, recorded in NVS and, on request, selected for the next boot. *)
(* A restart can come between any two steps.  The header says "thread not  *)
(* safe": one task calls the operations, one at a time.                    *)
(***************************************************************************)
EXTENDS Integers

CONSTANTS Slots,        \* the two application partitions
          Versions,     \* versions an image can have
          Bad,          \* what a slot without a complete image holds
          None,         \* NULL, or an empty version
          Size,         \* reads a whole image takes
          Chunk         \* bytes one read returns (BUFFSIZE)

ASSUME SlotAssumption ==
  \A s \in Slots : \E t \in Slots : s # t /\ Slots = {s, t}
ASSUME OtaAssumption ==
  /\ Bad \notin Versions /\ None \notin Versions
  /\ Size \in Nat \ {0} /\ Chunk \in Nat \ {0}

VARIABLES
  image, boot,    \* flash: what each slot holds; the boot partition selected
  blob,           \* NVS: the version in KEY_OTA_INFO, or None
  running,        \* the running partition; update_partition is the other
  server,         \* version of the image the server offers now
  pc, caller,     \* step, and the call it belongs to
  version,        \* static buffer of std_ota_upstream_version
  source, written, length, \* the download: its version, reads, file length
  asked,          \* history: std_ota_reboot chose the other slot
  moved,          \* history: the server changed since it named a version
  spoiled         \* history: the update slot was erased or switched to since
                  \* the record was saved, or the record saved with moved

flash == <<image, boot, blob>>
download == <<source, written, length>>
history == <<asked, moved, spoiled>>
vars == <<flash, running, server, pc, caller, version, download, history>>

Other(s) == CHOOSE t \in Slots : t # s
Update == Other(running)  \* update_partition

TypeOK ==
  /\ image \in [Slots -> Versions \cup {Bad}]
  /\ boot \in Slots /\ running \in Slots
  /\ blob \in Versions \cup {None} /\ version \in Versions \cup {None}
  /\ server \in Versions /\ source \in Versions
  /\ pc \in {"idle", "find", "compare", "probe", "open", "begin", "read",
             "end", "try", "restore", "save", "choose", "forget"}
  /\ caller \in {"image", "update", "reboot", "schedule", "check"}
  /\ written \in 0..Size /\ length \in Nat \cup {-1}
  /\ asked \in BOOLEAN /\ moved \in BOOLEAN /\ spoiled \in BOOLEAN

\* A new device: one slot holds the factory image, the other is empty.
Init ==
  /\ \E s \in Slots, v \in Versions :
       /\ running = s /\ boot = s
       /\ image = [t \in Slots |-> IF t = s THEN v ELSE Bad]
       /\ server = v /\ source = v
  /\ blob = None /\ version = None /\ pc = "idle" /\ caller = "check"
  /\ written = 0 /\ length = 0
  /\ asked = FALSE /\ moved = FALSE /\ spoiled = FALSE

Goto(from, to) == pc = from /\ pc' = to

\* The public operations, and where each starts.
Start(op) == CASE op = "image" -> "probe" [] op = "update" -> "find"
               [] op = "check" -> "try"   [] OTHER -> "choose"

Call(op) ==
  /\ Goto("idle", Start(op)) /\ caller' = op
  /\ UNCHANGED <<flash, running, server, version, download, history>>

\* std_ota_http_image returns; std_ota_update reboots whatever it returned.
ImageReturns == pc' = IF caller = "update" THEN "choose" ELSE "idle"

\* std_ota_upstream_version: the version offered now, or NULL.
UpstreamVersion == version' \in {server, None}

Find ==  \* std_ota_update
  /\ Goto("find", "compare") /\ UpstreamVersion
  /\ UNCHANGED <<flash, running, server, caller, download, history>>

CheckVersion ==
  /\ Goto("compare", IF version \in {None, image[running]} THEN "idle"
                                                           ELSE "probe")
  /\ UNCHANGED <<flash, running, server, caller, version, download, history>>

Probe ==  \* std_ota_http_image, which asks for the version again
  /\ pc = "probe" /\ UpstreamVersion /\ moved' = FALSE
  /\ IF version' = None THEN ImageReturns ELSE pc' = "open"
  /\ UNCHANGED <<flash, running, server, caller, download, asked, spoiled>>

Open ==   \* init and open may fail
  /\ pc = "open" /\ (pc' = "begin" \/ ImageReturns) /\ source' = server
  /\ UNCHANGED <<flash, running, server, caller, version, written, length,
                 history>>

\* Mutant of Begin: the slot is computed from the boot selector.
BeginFromBoot ==
  /\ Goto("begin", "read")
  /\ image' = [image EXCEPT ![Other(boot)] = Bad]
  /\ written' = 0 /\ length' = 0 /\ spoiled' = TRUE
  /\ UNCHANGED <<boot, blob, running, server, caller, version, source, asked,
                 moved>>

\* esp_ota_begin erases the slot.
Begin ==
  /\ Goto("begin", "read")
  /\ image' = [image EXCEPT ![Update] = Bad]
  /\ written' = 0 /\ length' = 0 /\ spoiled' = TRUE
  /\ UNCHANGED <<boot, blob, running, server, caller, version, source, asked,
                 moved>>

ReadData ==
  /\ pc = "read" /\ written < Size
  /\ written' = written + 1 /\ length' = length + Chunk
  /\ image' = [image EXCEPT ![Update] =
                 IF written' = Size THEN source ELSE Bad]
  /\ UNCHANGED <<boot, blob, running, server, pc, caller, version, source,
                 history>>

ReadError ==  \* the length is forgotten and the loop goes on
  /\ pc = "read" /\ length' = -1
  /\ UNCHANGED <<flash, running, server, pc, caller, version, source, written,
                 history>>

ReadClosed ==
  /\ Goto("read", "end")
  /\ UNCHANGED <<flash, running, server, caller, version, download, history>>

\* Mutant of EndDownload: neither result nor length is looked at, and the
\* image is recorded without the trial selection.
EndDownloadUnchecked ==
  /\ Goto("end", "save")
  /\ UNCHANGED <<flash, running, server, caller, version, download, history>>

\* esp_ota_end validates the image; then the length check.
EndDownload ==
  /\ pc = "end"
  /\ IF image[Update] # Bad /\ length > 0 THEN pc' = "try" ELSE ImageReturns
  /\ UNCHANGED <<flash, running, server, caller, version, download, history>>

\* std_ota_end and std_ota_check_update: select the update slot to have it
\* validated, then select the running one again.
TryBoot ==
  /\ pc = "try"
  /\ \/ image[Update] # Bad /\ boot' = Update /\ pc' = "restore"
     \/ UNCHANGED boot /\ IF caller = "check" THEN pc' = "idle"
                                              ELSE ImageReturns
  /\ UNCHANGED <<image, blob, running, server, caller, version, download,
                 history>>

\* Mutant of Restore: the running slot is not selected again.
RestoreForgotten ==
  /\ Goto("restore", IF caller = "check" THEN "idle" ELSE "save")
  /\ UNCHANGED <<flash, running, server, caller, version, download, history>>

Restore ==
  /\ Goto("restore", IF caller = "check" THEN "idle" ELSE "save")
  /\ boot' = running /\ asked' = FALSE
  /\ UNCHANGED <<image, blob, running, server, caller, version, download,
                 moved, spoiled>>

\* std_nvs_save; a failure is ignored.
SaveInfo ==
  /\ pc = "save" /\ ImageReturns
  /\ \/ blob' = version /\ spoiled' = moved
     \/ UNCHANGED <<blob, spoiled>>
  /\ UNCHANGED <<image, boot, running, server, caller, version, download,
                 asked, moved>>

\* std_ota_reboot: select the update slot, forget the record, restart unless
\* time_ms < 0 ("schedule").
ChooseBoot ==
  /\ pc = "choose"
  /\ \/ image[Update] # Bad /\ boot' = Update /\ asked' = TRUE /\ pc' = "forget"
     \/ pc' = "idle" /\ UNCHANGED <<boot, asked>>
  /\ UNCHANGED <<image, blob, running, server, caller, version, download,
                 moved, spoiled>>

\* The device starts: the boot loader takes the selected slot if it is valid,
\* std_ota_init finds the slots and loads the record.
Boot ==
  /\ running' = IF image[boot] # Bad THEN boot ELSE Other(boot)
  /\ pc' = "idle" /\ version' = None
  /\ asked' = (asked /\ running' = running)
  /\ spoiled' = (spoiled \/ running' # running)
  /\ UNCHANGED <<image, boot, server, caller, download, moved>>

Forget ==
  /\ pc = "forget" /\ blob' \in {None, blob}
  /\ IF caller = "schedule"
     THEN pc' = "idle" /\ UNCHANGED <<running, version, history>>
     ELSE Boot
  /\ UNCHANGED <<image, boot, server, caller, download>>

Cut == Boot /\ UNCHANGED blob  \* power cut, panic or a restart from elsewhere

Publish ==  \* a new image on the server
  /\ server' \in Versions \ {server} /\ moved' = TRUE
  /\ UNCHANGED <<flash, running, pc, caller, version, download, asked, spoiled>>

HttpImage == \/ Probe \/ Open \/ Begin \/ ReadData \/ ReadError \/ ReadClosed
             \/ EndDownload
Next == \/ \E op \in {"image", "update", "reboot", "schedule", "check"} : Call(op)
        \/ Find \/ CheckVersion \/ HttpImage
        \/ TryBoot \/ Restore \/ SaveInfo \/ ChooseBoot \/ Forget
        \/ Cut \/ Publish

Spec == Init /\ [][Next]_vars
-----------------------------------------------------------------------------
(* Whatever is interrupted, and whatever the boot selector was left at,    *)
(* the slot the device runs from holds a complete image: no download ever  *)
(* erases the only firmware that can boot.                                 *)
AlwaysBootable == image[running] # Bad

(* The device changes firmware only when std_ota_reboot chose the other    *)
(* slot, or when it restarts inside the validation window of std_ota_end   *)
(* and std_ota_check_update, which leaves that slot selected.              *)
SwitchIsAsked == [][running' # running => asked \/ pc = "restore"]_vars

(* The record kept in NVS names the image in the update slot, unless the   *)
(* server changed under the download, a later download erased that slot or *)
(* a restart switched to it before the record was erased.                  *)
RecordIsImage == blob # None /\ ~spoiled => image[Update] = blob
=============================================================================
