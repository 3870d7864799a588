--------------------------------- MODULE Blufi ---------------------------------
(***************************************************************************)
(* Provisioning over Bluetooth: std_blufi.c and std_blufi_security.c.  The *)
(* application starts and stops it; the Bluetooth task hands the events of *)
(* the stack and the frames of a phone to the callbacks, one after the     *)
(* other; the controller and the phone are the environment.  The security  *)
(* object and the buffer of a key negotiation are on the heap, and the     *)
(* application frees them while the Bluetooth task may be using them.      *)
(***************************************************************************)
EXTENDS Naturals, Sequences, Functions

CONSTANTS MaxEvents, \* bound: events and frames on their way
          MaxKeys    \* bound: key negotiations a phone begins

ASSUME BlufiAssumption == MaxEvents \in Nat \ {0} /\ MaxKeys \in Nat \ {0}

VARIABLES
  app,             \* place of the application: std_blufi_init and _deinit
  sec,             \* the block blufi_sec points at
  dh,              \* the block blufi_sec->dh_param points at
  events,          \* events and frames the Bluetooth task has to handle
  handler, n,      \* its place, and the negotiation it is in
  key,             \* negotiation blufi_sec->aes was keyed by, 0 if none
  connected, advertising,  \* the controller
  begun, phone_key,\* the phone: negotiations begun, the one it has a key of
  fault,           \* history: freed or NULL memory was used
  overlapped,      \* history: std_blufi_deinit met the Bluetooth task at work
  failed           \* history: a failure the code does not look at

secVars == <<sec, dh, key>>
air == <<connected, advertising, begun, phone_key>>
vars == <<app, secVars, events, handler, n, air, fault, overlapped, failed>>

Keys == 0..MaxKeys
Frames == {"len", "secret", "close"}
Event(name) == <<name, 0>>  \* a "data" frame carries its negotiation's number
Events == {Event(e) : e \in Frames \cup {"init_finish", "adv_set", "connect", "disconnect"}}
          \cup ({"data"} \X Keys)
Name == Head(events)[1]     \* of the event to handle next

TypeOK ==
  /\ app \in {"off", "security", "profile", "on", "free_dh", "free", "null",
              "profile_deinit", "gone"}
  /\ sec \in {"null", "live", "freed"} /\ dh \in {"null", "live", "freed"}
  /\ events \in Seq(Events) /\ Len(events) <= MaxEvents
  /\ handler \in {"idle", "len", "data", "free", "null", "public"}
  /\ n \in Keys /\ key \in Keys /\ begun \in Keys /\ phone_key \in Keys
  /\ connected \in BOOLEAN /\ advertising \in BOOLEAN /\ fault \in BOOLEAN
  /\ overlapped \in BOOLEAN /\ failed \in BOOLEAN

Init ==
  /\ app = "off" /\ sec = "null" /\ dh = "null" /\ key = 0
  /\ events = <<>> /\ handler = "idle" /\ n = 0
  /\ connected = FALSE /\ advertising = FALSE /\ begun = 0 /\ phone_key = 0
  /\ fault = FALSE /\ overlapped = FALSE /\ failed = FALSE

\* A restart, also what a deinit without an init ends in (ESP_ERROR_CHECK).
Restart ==
  /\ app' = "off" /\ sec' = "null" /\ dh' = "null" /\ key' = 0
  /\ events' = <<>> /\ handler' = "idle" /\ n' = 0
  /\ connected' = FALSE /\ advertising' = FALSE /\ begun' = 0 /\ phone_key' = 0
  /\ fault' = FALSE /\ overlapped' = FALSE /\ failed' = FALSE
-----------------------------------------------------------------------------
(* The application.  The flag std_blufi_init tests is set for good: a      *)
(* second call, also after a deinit, returns at once.                      *)
Goto(from, to) == app = from /\ app' = to

StartInit == /\ Goto("off", "security")
             /\ UNCHANGED <<secVars, events, handler, n, air, fault, overlapped, failed>>

SecurityInit == \* its result is ignored
  /\ Goto("security", "profile") /\ dh' = "null" /\ key' = 0
  /\ \/ sec' = "live" /\ UNCHANGED failed
     \/ sec' = "null" /\ failed' = TRUE
  /\ UNCHANGED <<events, handler, n, air, fault, overlapped>>

ProfileInit ==
  /\ Goto("profile", "on") /\ events' = Append(events, Event("init_finish"))
  /\ UNCHANGED <<secVars, handler, n, air, fault, overlapped, failed>>

SecurityDeinit == \* blufi_security_deinit, up to the test for NULL
  /\ Goto("on", IF sec = "null" THEN "profile_deinit" ELSE "free_dh")
  /\ overlapped' = (overlapped \/ handler # "idle")
  /\ UNCHANGED <<secVars, events, handler, n, air, fault, failed>>

FreeDh == /\ Goto("free_dh", "free") /\ dh' = "null"
          /\ fault' = (fault \/ dh = "freed")
          /\ UNCHANGED <<sec, key, events, handler, n, air, overlapped, failed>>

FreeSec == /\ Goto("free", "null") /\ sec' = "freed" /\ key' = 0
           /\ UNCHANGED <<dh, events, handler, n, air, fault, overlapped, failed>>

NullSec == /\ Goto("null", "profile_deinit") /\ sec' = "null"
           /\ UNCHANGED <<dh, key, events, handler, n, air, fault, overlapped, failed>>

ProfileDeinit == \* and the stack and the controller below it
  /\ Goto("profile_deinit", "gone")
  /\ events' = <<>> /\ handler' = "idle" /\ n' = 0
  /\ connected' = FALSE /\ advertising' = FALSE /\ begun' = 0 /\ phone_key' = 0
  /\ UNCHANGED <<secVars, fault, overlapped, failed>>

App == \/ StartInit \/ SecurityInit \/ ProfileInit \/ SecurityDeinit \/ FreeDh
       \/ FreeSec \/ NullSec \/ ProfileDeinit
-----------------------------------------------------------------------------
(* The phone.                                                              *)
Arrives(e) == /\ Len(events) < MaxEvents /\ events' = Append(events, e)
              /\ UNCHANGED <<app, secVars, handler, n, fault, overlapped, failed>>

PhoneConnects ==
  /\ ~connected /\ advertising /\ Arrives(Event("connect"))
  /\ connected' = TRUE /\ advertising' = FALSE /\ begun' = 0 /\ phone_key' = 0

PhoneLeaves == /\ connected /\ Arrives(Event("disconnect")) /\ connected' = FALSE
               /\ UNCHANGED <<advertising, begun, phone_key>>

PhoneSends == \* "len" announces the parameters that "data" carries
  /\ connected
  /\ \/ \E f \in Frames : Arrives(Event(f)) /\ UNCHANGED begun
     \/ /\ begun < MaxKeys /\ begun' = begun + 1 /\ Arrives(<<"data", begun'>>)
  /\ UNCHANGED <<connected, advertising, phone_key>>
-----------------------------------------------------------------------------
(* The Bluetooth task, from INIT_FINISH on: gap_event_handler,             *)
(* blufi_event_callback and the security functions.                        *)
Ready == events # <<>> /\ handler = "idle" /\ app \notin {"off", "security"}

Closing == app \in {"free_dh", "free", "null", "profile_deinit"}

\* esp_ble_gap_config_adv_data, which the stack answers with an event.
ConfigAdv == /\ Ready /\ Name = "init_finish"
             /\ events' = Append(Tail(events), Event("adv_set"))
             /\ UNCHANGED <<app, secVars, handler, n, air, fault, overlapped, failed>>

\* Mutant of StartAdv: a disconnect does not start it.
StartAdvOnce ==
  /\ Ready /\ Name \in {"adv_set", "disconnect"} /\ events' = Tail(events)
  /\ advertising' = IF Name = "adv_set" THEN ~connected ELSE advertising
  /\ UNCHANGED <<app, secVars, handler, n, connected, begun, phone_key, fault,
                 overlapped, failed>>

StartAdv ==
  /\ Ready /\ Name \in {"adv_set", "disconnect"} /\ events' = Tail(events)
  /\ advertising' = ~connected
  /\ UNCHANGED <<app, secVars, handler, n, connected, begun, phone_key, fault,
                 overlapped, failed>>

StopAdv == /\ Ready /\ Name = "connect" /\ events' = Tail(events)
           /\ advertising' = FALSE
           /\ UNCHANGED <<app, secVars, handler, n, connected, begun, phone_key, fault,
                          overlapped, failed>>

Close == \* esp_blufi_close: the stack reports the disconnection
  /\ Ready /\ Name = "close"
  /\ events' = IF connected THEN Append(Tail(events), Event("disconnect")) ELSE Tail(events)
  /\ connected' = FALSE
  /\ UNCHANGED <<app, secVars, handler, n, advertising, begun, phone_key, fault,
                 overlapped, failed>>

\* blufi_aes_decrypt, and blufi_aes_encrypt of the answer, do not test for NULL.
Decrypt == /\ Ready /\ Name = "secret" /\ events' = Tail(events)
           /\ fault' = (fault \/ sec # "live")
           /\ overlapped' = (overlapped \/ Closing)
           /\ UNCHANGED <<app, secVars, handler, n, air, failed>>

\* blufi_dh_negotiate_data_handler, up to the test for NULL.
Negotiate ==
  /\ Ready /\ Name \in {"len", "data"}
  /\ events' = Tail(events) /\ overlapped' = (overlapped \/ Closing)
  /\ IF sec = "null" THEN UNCHANGED <<handler, n>>
     ELSE IF Name = "len" THEN handler' = "len" /\ UNCHANGED n
     ELSE handler' = "data" /\ n' = Head(events)[2]
  /\ UNCHANGED <<app, secVars, air, fault, failed>>

HGoto(from, to) == handler = from /\ handler' = to

TakeLen == \* the old buffer is freed, the new one may not be had
  /\ HGoto("len", "idle") /\ dh' \in {"live", "null"}
  /\ fault' = (fault \/ sec # "live" \/ dh = "freed")
  /\ UNCHANGED <<app, sec, key, events, n, air, overlapped, failed>>

ReadParams == \* no buffer, or mbedtls_dhm_read_params fails: the buffer stays
  /\ handler = "data" /\ handler' \in IF dh = "null" THEN {"idle"} ELSE {"idle", "free"}
  /\ n' = IF handler' = "idle" THEN 0 ELSE n
  /\ fault' = (fault \/ sec # "live" \/ dh = "freed")
  /\ UNCHANGED <<app, secVars, events, air, overlapped, failed>>

FreeParams == /\ HGoto("free", "null") /\ dh' = "freed"
              /\ fault' = (fault \/ sec # "live" \/ dh # "live")
              /\ UNCHANGED <<app, sec, key, events, n, air, overlapped, failed>>

\* Mutant of NullParams: the pointer is left.
NullParamsLeft ==
  /\ HGoto("null", "public")
  /\ UNCHANGED <<app, secVars, events, n, air, fault, overlapped, failed>>

NullParams == /\ HGoto("null", "public") /\ dh' = "null"
              /\ UNCHANGED <<app, sec, key, events, n, air, fault, overlapped, failed>>

\* Mutant of MakeKey: the answer is given though there is no key of it.
MakeKeyAnyway ==
  /\ HGoto("public", "idle") /\ n' = 0 /\ fault' = (fault \/ sec # "live")
  /\ phone_key' = IF connected THEN n ELSE phone_key
  /\ key' \in {key, n} /\ UNCHANGED failed
  /\ UNCHANGED <<app, sec, dh, events, connected, advertising, begun, overlapped>>

\* mbedtls_dhm_make_public fails, or the key is set and the public key is the
\* answer; mbedtls_dhm_calc_secret is not looked at.
MakeKey ==
  /\ HGoto("public", "idle") /\ n' = 0 /\ fault' = (fault \/ sec # "live")
  /\ \/ UNCHANGED <<key, phone_key, failed>>
     \/ /\ \/ key' = n /\ UNCHANGED failed
           \/ key' = 0 /\ failed' = TRUE
        /\ phone_key' = IF connected THEN n ELSE phone_key
  /\ UNCHANGED <<app, sec, dh, events, connected, advertising, begun, overlapped>>

Bluetooth ==
  \/ ConfigAdv \/ StartAdv \/ StopAdv \/ Close \/ Decrypt \/ Negotiate \/ TakeLen
  \/ ReadParams \/ FreeParams \/ NullParams \/ MakeKey

Next == App \/ PhoneConnects \/ PhoneLeaves \/ PhoneSends \/ Bluetooth \/ Restart
Spec == Init /\ [][Next]_vars
-----------------------------------------------------------------------------
(* Between init and deinit the device never becomes unreachable: a phone   *)
(* is connected, or it advertises, or an event is queued whose handling    *)
(* will make it advertise.                                                 *)
Connectable ==
  app = "on" =>
    \/ connected \/ advertising
    \/ \E e \in {"init_finish", "adv_set", "disconnect"} : Event(e) \in Range(events)

(* Freed or NULL memory is used, or the buffer of a negotiation leaked,    *)
(* only if the deinit met the Bluetooth task at work, or the allocation    *)
(* whose result std_blufi_init ignores failed.                             *)
MemoryIsSafe ==
  ~overlapped /\ ~failed =>
    /\ ~fault
    /\ app = "gone" => sec = "null" /\ dh = "null"

(* Whatever order negotiations are begun, fail, are repeated or cut off by *)
(* a new connection in: a phone that has the answer to its negotiation     *)
(* shares the key of it with the device, unless the calculation of a       *)
(* secret, whose result is not looked at, failed.                          *)
KeyAgrees ==
  app = "on" /\ connected /\ phone_key # 0 /\ ~failed => key = phone_key
=============================================================================
