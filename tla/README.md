# Verification of epcom

epcom is a library of components for ESP32 firmware (C, FreeRTOS, ESP-IDF):
messages over ESP-NOW, a remote debug protocol on top of them, and the services
around it (reboot counter, OTA update, keys, NVS, Wi-Fi, Bluetooth
provisioning). This directory models the components in TLA+, model-checks them
on small instances with TLC, and proves the most important properties for every
value of the constants with TLAPS.

## 1. Inventory

Paths are relative to `src/`. "Hard" is what tests hardly reach.

### ESP-NOW transmit path (`std_espnow.c`)
- State: the send lock `g_send_lock`, the callback semaphore `g_send_rcb`, the
  status `g_send_status`, the queue `g_espnow_sed_queue`, heap frames.
- Operations: `build_espnow_send`, `std_espnow_write` (blocking, or posting to
  the queue), `espnow_write_data`, `espnow_write_task`, `espnow_send_cb`,
  `free_espnow_send`.
- Hard: one global status for all writers; a wait without a timeout under a
  lock; frames handed from task to task; a full queue.
- Correct when each write answers for its own frame, no frame is used after it
  is freed, and the lock always comes back.

### ESP-NOW receive path (`std_espnow.c`)
- State: `g_espnow_rcv_queue`, `g_select_type`, heap packets.
- Operations: `espnow_recv_cb` on the Wi-Fi task, `std_espnow_read` (plain, or
  peek, compare, receive), `std_espnow_select_type`, `std_espnow_empty`.
- Hard: several readers of one queue; a filter read before the packet is
  queued, and passed by the byte of ESPNOW_NONE while nothing is selected; a
  packet at the head that nobody wants.
- Correct when packets have one owner, typed readers get their own packets, and
  packets of other types than the selected one cannot keep showing up.

### ESP-NOW life cycle and peers (`std_espnow.c`)
- State: `g_espnow_inited`, `g_broadcast_peer`, the driver's peer table.
- Operations: `std_espnow_init`, `std_espnow_deinit`, `std_espnow_add_peer`,
  `std_espnow_del_peer`.
- Hard: callbacks registered before the queues exist; a second init after a
  deinit that left the task running; a bounded peer table.

### Remote debug, controlled device (`std_rdebug_protocol.c`)
- State: `peer`, `rlog_en`, `STD_GLOBAL_LOG_LEVEL`, the command table.
- Operations: the debug task with `cmd_handle`, `target_set_mac`,
  `target_set_log`, `target_unset_mac`; `target_print` from every task that
  logs; `register_target_func`.
- Hard: `peer` and `rlog_en` are read without a lock, and a queued log frame
  keeps a pointer to the peer; commands in any order and from rival
  controllers; a walk over the table while it is filled.

### Remote debug, controlling device (`std_rdebug.c`, `std_rdebug_protocol.c`)
- State: `peer`, the Wi-Fi channel. Operations: `rdebug_set_mac` and
  `rdebug_unset_mac` (a sweep over 13 channels), `rdebug_set_log`,
  `rdebug_send_debug`, the console commands `set_mac` and `set_log` (the
  registration of `unset_mac` is commented out, `std_rdebug.c:211`).
- Hard: what the answers mean when frames or acknowledgements are lost and the
  channel moves during the sweep.

### Remote log formatting (`std_rdebug.c`, `std_rdebug_log`)
- State: one static buffer of 500 bytes for all tasks that log.
- Operations: clear, write the header, append the body at `strlen`, measure,
  `target_print`, `build_espnow_send`.
- Hard: no lock, so bodies of several tasks pile up; no bound on the text, so
  the buffer can be overrun; a length narrowed to `uint8_t` before its bound is
  asserted.

### Reboot counter (`std_reboot.c`) over NVS (`std_nvs.c`)
- State: the blob `std_reboot` in flash; everything else is lost at a restart.
- Operations: `reboot_check_task`, `std_reset`, `std_reboot`.
- Hard: power can fail between any two steps; NVS calls fail, and the results
  are ignored or taken for "no such key"; another task resets in the middle.

### OTA update (`std_ota.c`)
- State: two application slots, the boot selector, the record `KEY_OTA_INFO`.
- Operations: `std_ota_init`, `std_ota_http_image`, `std_ota_end`,
  `std_ota_check_update`, `std_ota_reboot`, `std_ota_update`.
- Hard: a restart between any two steps, a download that breaks, a server that
  changes, a slot that is selected and later erased.

### Keys (`std_key.c`)
- State: `g_info`, the semaphore `g_loop_run_sem`, `g_key_queue`.
- Operations: `std_key_add`, `gpio_isr_handler`, `loop_task`,
  `std_wait_event`.
- Hard: edges merge in a binary semaphore; a full queue blocks the scan.

### Wi-Fi station (`std_wifi.c`) over NVS
- State: `g_is_connect`, the callback of the event loop, the credentials in
  NVS; outside: link, lease and channel of the driver, and its event queue.
- Operations: `wifi_event_handler` in the event task; `std_wifi_connect`,
  `std_wifi_await_connect`, `std_wifi_disconnect`, `std_wifi_restore`.
- Hard: a flag written by two tasks without a lock; events queued, or being
  handled, when the application disconnects; results of NVS calls ignored.
- Correct when the flag never stays wrong, a disconnected station stays away
  from the access point's channel, and a station left alone reconnects.

### Blufi provisioning (`std_blufi.c`, `std_blufi_security.c`)
- State: the security object `blufi_sec` with its parameter buffer and key;
  outside: advertising, the connection, the events of the Bluetooth stack.
- Operations: `std_blufi_init`, `std_blufi_deinit`, `gap_event_handler`,
  `blufi_event_callback`, `blufi_dh_negotiate_data_handler`, encryption.
- Hard: a phone that breaks off or repeats a negotiation, events queued behind
  each other, an object freed while the Bluetooth task may use it.
- Correct when the device stays reachable, memory is used only while it is
  allocated, and a phone with an answer has the device's key.

### The rest
Typed queue (`std_queue.c`), HTTP client (`std_http.c`), JPEG decoding
(`std_decode.c`), port macros (`std_port_common.h`), empty files.
`PROJECT.json` lists each with what is modelled of it and why not more.

### How they interact
```
 console task --rdebug_*--> std_espnow_write(block) --+
 logging tasks --target_print--> send queue --> espnow_write_task
                                                      |  espnow_write_data
                                                      v
                                                ESP-NOW driver --radio--> peer
                                                      |
  espnow_send_cb (status, semaphore) <----------------+
  espnow_recv_cb --> receive queue --> debug task --> cmd_handle --> target_*
 std_wifi, std_reboot, std_ota --> std_nvs --> flash
```

## 2. Plan

In this order; the most important behaviour of the system first.

| # | module | what it is | state |
|---|--------|------------|-------|
| 1 | `EspNowSend`, `SendService` | transmit path, and the abstract service it implements | checked, proved |
| 2 | `EspNowRecv`, `RecvService` | receive path, and the abstract service it implements | checked, proved |
| 3 | `RebootCheck` | reboot counter | checked, proved |
| 4 | `Ota` | update | checked, proved |
| 5 | `TargetControl`, `Binding` | controlled device, and what remote control promises | checked, proved |
| 6 | `CommandTable` | registration and dispatch | checked, proved |
| 7 | `TargetDevice` | 5 and 6 composed | checked, proved |
| 8 | `WifiStation` | Wi-Fi station | checked, proved |
| 9 | `Blufi` | provisioning and key negotiation | checked, proved |
| 10 | `KeyScan` | keys | checked, proved |
| 11 | `LogFrame` | log lines | checked, proved |
| 12 | `ControlSession` | controlling device | checked, proved |

Left for later: the life cycle of ESP-NOW (init, deinit, init again, callbacks
registered before the queues exist), and the controlling and the controlled
device composed over a lossy link.

Proofs are in modules of their own, `...Proofs` for `...`; those of
`RebootCheck`, `ControlSession`, `KeyScan` and `LogFrame`, one task's code
each, are together in `TaskProofs`.

## 3. Modules and code

Comments in the modules name the function an action stands for;
`PROJECT.json` gives the lines. Definitions whose comment starts with "Mutant
of" are never part of a specification: they are faulty versions of the
definition below them, and show that a property can be broken.

- **EspNowSend**. `pc[t]` walks each task through `espnow_write_data`, one
  action per call that other tasks can see: `TakeLock`, `DrainCallback`,
  `SendAccepted` or `SendRefused`, `AwaitCallback`, `ReadStatus`, `Unlock`,
  `Release`. `WriteBlocking` and `WritePosted` are the two branches of
  `std_espnow_write`. The callback is two steps (`SendCbStatus`, `SendCbGive`),
  for the writer can run between them. `heap` says of each block whether it is
  free, allocated or leaked: leaks of the code (a log frame refused by a full
  queue, the FAIL paths of the console commands) are kept. `fate` and `reply`
  are history variables: what the radio did and what the call returned.
- **SendService**. What the path promises: frames move from waiting over on air
  and judged to answered, one at a time, each answered with its own verdict.
- **EspNowRecv**. `RecvCb` (filter, allocate, copy) and `RecvCbQueue` (queue or
  free) are two steps of the callback; `Peek`, `Check` and `Take` are three of
  `std_espnow_read`. A failed `PORT_ASSERT` logs and sleeps for ever: state
  "stuck". The payload is abstracted away; the type byte is kept, and can be
  any of the enumeration, ESPNOW_NONE and ESPNOW_ALL included.
- **RecvService**. What the path promises its readers: a packet is dropped on
  arrival or read in its turn, by one reader, who has it until it is freed. A
  reader holds a packet from its receive on (`Held`); peeks, polls and timeouts
  are nothing the service knows.
- **TargetControl**. The debug task is the only writer of `peer` and `rlog_en`,
  loggers are separate readers (`TargetPrint`, `BuildSend`, `PostLog`), the
  write task follows the pointer last. Peer objects are heap blocks with an
  address: a dereference of a freed block yields any address (`Deref`), one of
  NULL restarts the device.
- **Binding**. What remote control promises: one controller until a restart, who
  alone sets the log level. It knows no tasks, tables or pointers.
- **CommandTable**. `register_target_func` and `cmd_handle` entry by entry,
  interleaved; a NULL entry panics, the walk past the array is the state "wild",
  a frame without a command the state "asleep".
- **TargetDevice**. The controlled device: `CommandTable` (as an instance, with
  its table, walk and name renamed) decides when a built-in function of
  `TargetControl` starts (`Dispatch`); while one runs, the debug task takes no
  other frame. A NULL dereference in either restarts both.
- **ControlSession**. The console task on the controlling device; `Transmit` is
  the radio: the frame reaches a target that listens on the channel, or not,
  and its acknowledgement can be lost. A result is 0 exactly if acknowledged,
  which is what `EspNowSend` establishes of `std_espnow_write`. `Refuse` is a
  line the console does not act on.
- **LogFrame**. A byte of the buffer is the task that wrote it, or NUL. Each call
  of `std_rdebug_log` is an action per access to the buffer; `len` is cut to
  `Width` values between `target_print` and `build_espnow_send`. A write that
  leaves the buffer ends in the stage "wild", and with it what the model says
  of the loggers: what overwritten memory does is anything.
- **WifiStation**. `TakeEvent` and the `Handle...` actions are the event task;
  `HandleDisconnected` and `HandleClear` are the two statements of one case, as
  are `HandleLostIp` and `HandleReconnect`. `Driver` is the environment: it
  associates, gets a lease, loses either. `late` remembers that a handler was
  running when `std_wifi_disconnect` unset the callback.
- **Blufi**. The Bluetooth task handles one event or frame at a time; the
  functions on the heap (`TakeLen`, `ReadParams` ... `MakeKey`, and `FreeDh`,
  `FreeSec`, `NullSec` of the shutdown) are a step per statement that frees or
  uses memory. A key is the number of the negotiation it came from. `overlapped`
  and `failed` remember what the properties except.
- **RebootCheck**. Flash (`stored`, `settings`) survives `Boot`, nothing else
  does. `Cut` is any restart from outside, at any step. Every NVS call can fail,
  as `std_nvs.c` passes it on: a save or an erase leaves the flash as it was; a
  read of `std_nvs_is_exist` counts as "no blob", and the boot saves 0; a failed
  load leaves `times` uninitialised, any value of `Garbage`; a failed `nvs_open`
  fails an assertion and ends the task ("stuck"). `misread` remembers that this
  boot failed to read the blob there is. Counts are unbounded integers: a count
  grows by one per boot, and the 2^31 boots an overflow takes are out of the
  flash's life.
- **Ota**. Each call into the OTA library that changes flash is an action;
  `Bad` is a slot without a complete image, which selection refuses. `Boot` is
  the boot loader followed by `std_ota_init`; `Cut` is a restart at any step.
  The header says the component is not thread safe: one operation at a time.
- **KeyScan**. `down` is the level of the pins, `pressed` and `hold` the records
  of `g_info`, `left` and `todo` the two loops of `loop_task`; `setup` is how far
  `std_key_add` has come with a key the scan may already see. Time is counted in
  polling rounds.
- **QueueLemmas**. What `Append` and `Tail` do to the range, the head and the
  injectivity of a queue, and to "each x is followed by a y" (`FollowedBy`).

## 4. Runs

| run | shows | instance |
|-----|-------|----------|
| `send` | answers, buffers, refinement of `SendService`; nobody waits in vain, posted frames are written unless the write task is overtaken for ever, the lock comes back | 2 applications, write task, 3 blocks, queue of 1 |
| `recv` | one owner per packet; refinement of `RecvService`; a typed reader takes what it peeked at; at most one packet of another type after a selection and an empty queue; packets are read unless a foreign head or an ended reader blocks | application (by type, or draining) and debug task, 3 packets, queue of 2 |
| `reboot` | settings are erased only after two short boots; a recorded third one is lost only by failing to read it, and erases; a device left alone settles | 5 outside restarts, opens, reads, saves and erases that fail, 4 garbage values |
| `key` | no edge goes unpolled; no bounce is reported; a press that will be reported is not given up, and is reported | 2 keys added during the scan, 2 rounds, queue of 1 |
| `debug` | no peer leaks; frames go to the bound controller; refinement of `Binding`; no holes; a command still in the table is dispatched | 2 controllers, 1 logger, 2 objects, queue of 1; 2 registering tasks, 4 commands, 3 entries |
| `table_undefined` | **violation**: an undefined command panics | 2 registering tasks, 6 commands, 4 entries |
| `session` | one driver peer; what the answers mean | 2 targets, 3 channels |
| `session_connect` | **violation**: "connect" without anything received | as `session` |
| `ota` | the running slot is complete; no switch unasked; the record names the image in the slot | 3 versions, images of 2 reads, moving server |
| `wifi` | nobody is stranded; a disconnect holds; the flag is fresh; the station reassociates | 1 network, `MaxEvents` 2, waits of one second or for ever |
| `blufi` | reachable; memory; keys | 3 events on their way, 2 negotiations per connection |
| `log` | a lone line arrives as formatted; only a line too long for the buffer, or as many bodies as tasks that are, overrun it | 2 tasks, lines of 4 lengths in a buffer of 8 bytes, a length of 6 values |

Why these bounds are enough. Three heap blocks with a queue of one or two slots
give a full queue, a block freed and used again, and a frame in each place
(caller, queue, driver) at once. Two applications beside the write task contend
for the lock three ways. Three channels, with targets on the first and the last,
give a sweep that misses before and after. Five outside restarts give three
short boots, an interrupted erase and a second round. Three image versions keep
the running, the recorded and the offered one apart. Two peer objects are one
more than are in use at once, so a freed one need not be handed out again; three
entries for four commands fill the table. Two environment events beside the one
a handler and the application may each post put a loss behind a connection and
a connection behind a loss. Four lengths of a log line are one that fits, one
that is too long, one that the narrowing makes fit, and one that alone overruns
the buffer; the second fills the buffer to its last byte when two tasks pile it
up, the third overruns it then.

Bounds by name: `MaxBoots` (`RebootCheck`; from then on no outside restart and no
NVS failure), `MaxHold` (`KeyScan`; longer presses are not told apart),
`MaxEvents` (`WifiStation`: the environment adds no event beyond it; `Blufi`: nor
does the phone), `MaxPolls` (`WifiStation`; the longest finite wait), `MaxKeys`
(`Blufi`; negotiations per connection). The other sizes are constants of the code
(`MaxSend`, `MaxRecv`, `MaxCount`, `QueueSize`, `Rounds`, `Channels`, `Size`,
`Width`, `MaxLen`) made small. Deadlock is checked in all runs but `send`, where
every block may have been leaked: the real device then stops in `PORT_CALLOC`.

Symmetry is used in `debug`, `ota` and `log`, which check invariants and action
properties only.

### What the violations say of the code
1. `table_undefined`: unused entries are NULL pointers, not entries with a NULL
   `cmd`; "undefined rdebug cmd" is never printed, the device panics. The
   documented `send2root`, `send2node`, `broadcast` and `group` are registered
   by no code here.
2. `session_connect`: the sweep of `rdebug_set_mac` stops at the first *failed*
   write and the console reports the target connected.

Other things the models show, which the properties are stated around:
- With a second reader of the receive queue (an application that drains with
  `std_espnow_empty` beside the debug task) the receive asserted at
  `std_espnow.c:253` can fail: `EspNowRecv` then reaches the state "stuck", and
  the debug task sleeps for ever. `PeekedIsTaken` excepts the readers another
  one received under (history variable `robbed`), and no others.
- The filter of `espnow_recv_cb` has no case of its own for ESPNOW_NONE: while
  nothing is selected, a frame whose type byte is that of ESPNOW_NONE is queued
  (`std_espnow.c:128`), and nobody asks for it by type.
- `std_nvs_is_exist` reads every error as "absent" (`std_nvs.c:133`). A boot in
  which it fails once saves 0 over the reboot count (`std_reboot.c:41-42`), also
  over a recorded third one. `RecordIsKept` and `RecordedIsErased` except a boot
  that failed to read the record (history variable `misread`), and no other.
- `target_unset_mac` frees the peer but keeps the pointer: `target_set_log` and
  queued log frames go on reading the freed object. `LogsGoToController` and
  `Binding` therefore stop at an `unset_mac` (history variable `cancelled`);
  `OnePeer` holds in any case.
- A frame without a command fails the assertion at
  `std_rdebug_protocol.c:211`: the debug task sleeps for ever (state "asleep").
- `std_ota_update` ignores the result of the download and restarts into the
  other slot, whatever complete image that holds.
- A key that the scan polls before its interrupt is hooked may be taken for
  pressed, with a debounce time of zero, and its release can go unseen
  (history variable `early`).
- A handler that was already running when `std_wifi_disconnect` unset the
  callback reconnects the station, or sets `g_is_connect`, after the call has
  returned (history variable `late`). Credentials that cannot be read are
  replaced by blank ones, in NVS too.
- `std_blufi_deinit` frees the security object before it stops the stack
  (`overlapped`); an allocation or a calculation that fails is not noticed
  (`failed`); a second `std_blufi_init` returns at once, so after a
  `std_blufi_deinit` provisioning stays off until the next restart.
- Lines of several tasks mix in the log buffer (`mixed`), and one of 256 bytes
  or more is cut modulo 256 or puts its task to sleep. Nothing in the code checks
  that a line fits the 500 bytes (`std_rdebug.c:315`): one long line overruns
  them, and so do shorter ones of tasks that overlap. `OverrunIsLong` says that
  nothing else does.

### Fairness
- `EspNowSend`: weak fairness of each task's steps, of the write task's receive
  and of the callback: FreeRTOS runs ready tasks, and the driver reports every
  frame it accepted, once. Nothing stronger: the write task runs at
  `ESP_TASK_MAIN_PRIO + 1` (`std_espnow.c:33`), below the console task, `+ 3`
  (`std_rdebug.c:5`), whose sweep takes the lock again and again, so a waiting
  write task need never get it. `PostedIsWritten` names that one way a posted
  frame may stay, and rules out every other.
- `EspNowRecv`: weak fairness of the callback's second step and of a reader's
  steps. `QueuedIsRead` names the ways a packet stays: a head of a type a reader
  did not ask for, which the code polls for ever, and a reader that ended.
- `RebootCheck`: weak fairness of the check task and of an application task
  once it is inside `std_reset`; nothing on restarts. `RecordedIsErased` and
  `Settles` name the ways out: a misread record, a task ended by an assertion.
- `KeyScan`: interrupts are served, `loop_task` runs, the application reads its
  events (without the last, `loop_task` blocks in `xQueueSend` for ever).
- `WifiStation`: weak fairness of the driver, of the event task, and of the
  application once it is inside a function (`Continue`); nothing on the access
  point, on restarts, or on what the application calls. `Reassociates` says what
  follows if from some point on the access point stays in reach and the
  application leaves the station alone.

The other modules state safety properties only and assume no fairness.

## 5. Proofs

| module | theorem | states |
|--------|---------|--------|
| `EspNowSendProofs` | `TypeCorrect`, `AnswersOwnFate`, `AnswersCome`, `BuffersSafe`, `ImplementsService` | `TypeOK`, `ReplyIsOwnFate`, `AnswerIsComing`, `BuffersExclusive`, `ServiceSpec` |
| `EspNowRecvProofs` | `TypeCorrect`, `PacketsOwnedOnce`, `StaleBounded`, `PeekedStays`, `ImplementsService` | `TypeOK`, `OwnedOnce`, `AtMostOneStale`, `PeekedIsTaken`, `ServiceSpec` |
| `OtaProofs` | `TypeCorrect`, `RunningIsComplete`, `FirmwareSwitchIsAsked`, `RecordNamesImage` | `TypeOK`, `AlwaysBootable`, `SwitchIsAsked`, `RecordIsImage` |
| `TargetDeviceProofs` | `DeviceTypes`, `DeviceLeaksNoPeer`, `DeviceLogsReachController`, `DeviceKeepsPromise`, `TableHasNoHoles`, `RegisteredCommandsRun`, `DeviceImplements` | `DeviceTypeOK`, `OnePeer`, `LogsGoToController`, `BindingSpec`, `NoHoles`, `RegisteredIsFound`, `DeviceSpec => Spec` |
| `WifiStationProofs` | `StationTypeOK`, `DisconnectIsLasting`, `FlagIsNotStale`, `NobodyIsStranded` | `TypeOK`, `DisconnectHolds`, `FlagIsFresh`, `NotStranded` |
| `BlufiProofs` | `BlufiTypeOK`, `DeviceStaysConnectable`, `NegotiationIsSafe`, `KeysAgree` | `TypeOK`, `Connectable`, `MemoryIsSafe`, `KeyAgrees` |
| `TaskProofs` (reboot counter) | `RebootTypes`, `EraseEarned`, `RecordStays` | `TypeOK`, `EraseIsEarned`, `RecordIsKept` |
| `TaskProofs` (console) | `SessionTypes`, `SessionHoldsOneTarget`, `AnswersAreMeant` | `SessionTypeOK`, `OneTarget`, `AnswersMean` |
| `TaskProofs` (keys) | `KeyTypes`, `NoEdgeIsMissed`, `NoBounceIsReported`, `LongPressIsKept` | `KeyTypeOK`, `EdgeNotMissed`, `EventIsDebounced`, `LongPressKept` |
| `TaskProofs` (log lines) | `LogTypes`, `OverrunsAreLong`, `LoneLineArrives` | `LogTypeOK`, `OverrunIsLong`, `SoloLine` |

Each follows the same argument: an inductive invariant `IInv` holds initially,
every action keeps it (one step of the proof per action), and it implies the
property.

- **EspNowSend**. That an answer is the fate of its own frame is not inductive:
  it depends on where the semaphore's one token came from. `IInv` adds `Mutex`
  (one task is between `TakeLock` and `Unlock`, and the lock is 0 exactly
  then), `Owned` (the frames of tasks, queue and driver are allocated and
  distinct), `Untried` (a frame not yet sent has no fate), `Exchange` (for the
  task that waits, exactly one of: frame on the air, callback between its two
  steps, token given) and `Answering` (a task about to read the status reads
  its frame's fate). A leftover token is impossible because the lock is held
  from the drain until the token is taken. `AnswersCome` needs `LockHeld`
  besides: a lock that is 0 is held by some task that has still to give it,
  which `Mutex`, saying that at most one does, leaves open. The refinement maps
  a block to its phase from `heap`, `air`, `fate` and `reply`; each step is
  shown to be one step of `SendService` or a stutter.
- **EspNowRecv**. `Holding` ties a reader's program counter to its pointer,
  `OwnedOnce` is inductive with it. `AtMostOneStale` joins them as it stands:
  the callback adds a packet only of the selected type or for the debug task,
  and a selection of another type forgets that the queue was seen empty.
  `PeekedStays` adds `HeadIsMine`:
  a reader that is not robbed and stands between its peek and its receive holds
  the head of the queue, because only a receive takes it away. The refinement
  of `RecvService` reads `arriving` as the callback's packet, `line` as the
  queue and `held` as the pointer of a reader that has returned (`Held`); that
  a new packet is one nobody has is `OwnedOnce`, and that a refused one met a
  full queue is the type invariant.
- **RebootCheck**. `Counted` relates the stored count and the local one to the
  number of short boots in the history, unless a count was read uninitialised.
  `RecordStays` needs `Tally`: what the check task has read agrees with what it
  will write over, also when a save failed or the application erased in
  between, so the steps that zero or lower the count are never taken with three
  on record, unless this boot failed to read it (`misread`).
- **Ota**. `SelectionExplained` (the boot selector differs from the running
  slot only if asked or inside the validation window) and `Validated` (the
  selected slot is complete in that window) make two properties inductive.
  `RecordNamesImage` needs `DownloadIsServed` besides: while a download is
  under way what the slot holds, and what has been read, come from the server
  of its version probe, or the history says that the server changed.
- **TargetDevice**. Proved in two layers. Of `TargetControl` alone: `Placed`
  (the step the debug task is at says whether `peer` is allocated and known to
  the driver) and `BoundOnce` (while bound, no step that changes the peer is
  under way before an `unset_mac`) make `OnePeer`, `LogsGoToController` and the
  refinement of `Binding` inductive. Of the table: `Passed` (the entries a
  registrar went past are filled) and `Present` (what is registered and not
  overwritten is in the table, ahead of a walk that looks for it).
  `DeviceImplements` shows that the composition's steps are steps of
  `TargetControl` or leave it alone, so its theorems hold of the device.
- **WifiStation**. `FlagIsFresh` is about the flag now, but the flag is set by
  an event posted earlier: `Told` says that a "got_ip" no longer true is
  followed in the queue by the event that says so, and `Fresh` the same of the
  flag. `NobodyIsStranded` is inductive with `Awake` (for a station that has
  its address, every "disconnected" still in the queue or in the handler, which
  will clear the flag, has a "got_ip" behind it) and `Leaving` (an address
  needs a link, and no callback is set while `std_wifi_disconnect` goes on).
  `Quiet` follows `std_wifi_disconnect` step by step for `DisconnectHolds`, and
  `RoomLeft` bounds the queue by what the two tasks may still post.
- **Blufi**. `Blocks` says which block is allocated at each step of the
  application and of the Bluetooth task; `Followed` (without a connection, each
  "connect" in the queue is followed by a "disconnect") is what keeps a late
  "connect" from stopping the advertising for good.
- **ControlSession**. The answers are about a whole sweep, so `Swept` says what
  has been acknowledged when it stands at channel `n`: all channels before it.
  `Sending` says the same of a single command: nothing has been told yet.
- **KeyScan**. That an unpolled edge is remembered is not inductive while
  `loop_task` waits in `xQueueSend`: `PostAware` says that an edge of the key
  being posted gives the semaphore again, `Scanning` that a round is left as
  long as the loop runs. `PostDebounced` carries the debounce time from the
  poll to the queue. `FreshHold` is what makes a key safe that is polled while
  `std_key_add` is still filling its record.
- **LogFrame**. Each task appends at the `strlen` it finds, so how far the text
  reaches is a matter of counting: `TextBound` says that a NUL is found within
  the header and as many bodies as there are tasks *without* a body still to
  come (`Done`). A task that finds its offset is not one of them, so there is
  room for its body, if `longest` (the longest body so far) times the number of
  tasks leaves any; when it has written it, it is. `OffsetBound` says the same
  of an offset once it was read. A write that leaves the buffer thus has longer
  lines behind it than the buffer holds: the lengths are not assumed to fit, and
  after the overrun nothing is claimed. The text may be cut short by another's
  `memset` or header at any time, which only shortens it. `strlen` is a
  `CHOOSE` of the first NUL; that there is a first one follows from the
  well-foundedness of the naturals. `LoneLineArrives` follows one line step by
  step (`Lone`), for tasks that are `Alone`.

Assumptions: those of the modules (`SendAssumption`, `RecvAssumption`,
`RebootAssumption`, `SlotAssumption`, `OtaAssumption`, `TargetAssumption`,
`DeviceAssumption`, `WifiAssumption`, `BlufiAssumption`, `KeyAssumption`,
`SessionAssumption`, `LogAssumption`): sizes are natural numbers, positive
where a slot is needed, the tasks that log are finitely many, pointers that stand for "none" are no blocks, there are
exactly two slots, the built-in commands are registered by some task. TLC
evaluates them in every run.

Every invariant and every safety property of the passing runs is proved. Only
model-checked are the seven liveness properties (fairness and `ENABLED` are
beyond the prover), and the two violations. For liveness the proofs go as far
as safety does: that the lock's holder has its answer coming
(`AnswerIsComing`), that a recorded boot is kept until it erases
(`RecordIsKept`), that a press or an edge is not forgotten (`LongPressKept`,
`EdgeNotMissed`) and that a station has the event on the way that reconnects it
(`NotStranded`) are what `LockIsReturned`, `RecordedIsErased`,
`LongPressReported` and `Reassociates` rest on, and are proved for every value
of the constants. The type invariants of `EspNowSend`, `EspNowRecv`,
`RebootCheck`, `Ota`, `WifiStation`, `Blufi`, `KeyScan` and `ControlSession`
are proved and are not part of a run. Induction over recursively defined data
is not available; no model here needs it.

## 6. What is not modelled

- Payloads, JSON text, MAC formatting, log wording: no property depends on them.
  Lengths of log lines are modelled in `LogFrame`, and that a frame has no
  command in `CommandTable`.
- Exhaustion of the heap: `PORT_CALLOC` asserts, the device restarts. `Blufi` is
  the exception: its two allocations may fail, for the code goes on.
- The size of version strings: an image's version has up to 31 characters, and
  `std_ota.c` copies it with `strcpy` into arrays of 10, 20 and 30
  (`std_ota.c:17`, `:31`, `:258`). `Ota` takes the copies as the identity, which
  they are for versions of up to 9 characters; what a longer one overwrites is
  not modelled.
- The default branch of `std_rdebug_log` (`std_rdebug.c:311`), which puts a task
  that logs at an undefined level to sleep: the macros pass defined levels
  only. `set_global_log_level` (`std_rdebug.c:11`), one assignment by the
  application; the level is modelled where `set_log` sets it.
- Memory order of plain variables shared between tasks: the reads and writes
  are steps of their own, in program order, as on the single-core scheduling of
  these tasks with aligned words.
- `std_espnow_init` and `std_espnow_deinit`: each module starts from an
  initialised stack. No code of the repository calls the deinit, and no line says
  what a second init is to keep.
- The handle that `std_nvs_erase` does not close: no bound on handles is stated.
- `std_queue.c`: the loop of `std_build_queue` has no break, so every call ends
  in the assertion at line 29, and no queue it builds is ever used.
- `std_http.c`: a sequential exchange with a library client, without state of
  its own.
- `std_decode.c` and the cryptography and checksum of `std_blufi_security.c`:
  computations on data.
- Line editing, argument parsing and UART set-up of the console, errors of the
  Bluetooth stack's start-up, the application's custom-data callback.
- The controlling and the controlled device together: `ControlSession` and
  `TargetDevice` meet at a frame that arrives or does not, and each module allows
  both.
