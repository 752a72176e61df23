# home_io_control: specification and verification

TLA+ models, model-checking runs and machine-checked proofs for the ESPHome
component under `src/components/home_io_control/`, a controller (a "hub") for
io-homecontrol shutters, blinds, lights, locks and switches on an ESP32 with a
sub-GHz transceiver. Paths below are relative to that directory unless they
start with `docs/`.

Everything the hub does runs on one thread, ESPHome's `loop()`. An exchange
with a device is a *blocking* call inside it (ADR 0013): while it lasts the hub
receives nothing else, and commands, timers and remote presses pile up for the
next run of `loop()`. That, a radio link that loses frames in both directions,
devices that answer late or misreport their movement, 1W remotes the hub can
only overhear, an interrupt line that carries edges and not levels, and counters
and firmware that have to survive power loss, is where the correctness of this
code is decided, and what the models are about.

## 1. Inventory

| Component (source) | State | Operations | Interacts with | What makes it correct | Status |
|---|---|---|---|---|---|
| OperationQueue (`operation_queue.*`) | deque of `PendingOperation` | 14 `enqueue_*`, `pop` | filled by entities, actions, timers, the poll policy; drained by `loop()` | bands, press order, last intent, nothing lost | modelled |
| StatusPollPolicy (`status_poll_policy.*`) | per device: next update, window deadline, two failure streaks | `begin_tracking`, `clear`, `set_next_update`, `on_exchange_failed`, `pop_due_device`, ... | called by the hub after every status frame and outcome | an open window always has something in it; cadence ceiling | modelled |
| Hub (`hub_core`, `hub_operations`, `hub_status`, `hub_decisions.h`) | 1W activity times, de-duplication record, busy flag, named timeouts | `loop`, `queue_*`, `process_received_packet_`, `process_pending_operation_` | owns all other components | what is displayed is followed up until it is right | partly |
| DeviceRegistry, prediction overlay (`device_registry.*`, `proto_device_model.*`) | observed position, target, movement; predicted movement | `apply_optimistic_target`, `rollback_optimistic`, decoders | hub writes, entities read | a prediction never outlives the command it came from | partly |
| ExchangeEngine (`exchange_engine.*`, `proto_timing.h`) | try index, listen window, outcome, statistics | `send_and_receive`, `listen`, `transmit_frame`, `collect_broadcast_responses`, `authenticate_request` | radio below; hub, pairing, management above | a command executes once; bounded blocking; honest outcome | partly |
| 1W sequence store (`oneway_sequence_store.*`) | per identity: next, reserved; the reservation in flash | `add_identity`, `next`, `seed` | ESPHome preferences | no sequence is used twice, none jumps too far | modelled |
| 1W transmitter, identities (`oneway_transmitter.*`, `oneway_controller.*`) | constant table | `send_command`, `send_enrollment`, ... | store, radio | the hub speaks only as itself | partly / modelled |
| PairingEngine (`pairing_engine.*`, `hub_pairing.cpp`) | pairing context, retry counters | discovery, key transfer, confirmation, finalisation | exchange engine, registry, telemetry | a registered device holds the key; losses are survived | modelled |
| Pairing telemetry, advisor (`pairing_telemetry.*`, `pairing_advisor.*`) | ring of events, counters | `record_*`, `analyze_pairing_telemetry` | pairing | the outcome reported is what happened | modelled |
| Key-extraction responder (`pairing_responder.*`, `hub_key_extraction.cpp`) | stage, deadlines, two named timeouts | handler per frame, arm, disarm | hub receive path, foreign hubs | the window is bounded; the key is the right hub's | modelled |
| 1W key adoption (`hub_oneway_key_adoption.cpp`) | armed flag, observed class, timeout | arm, adopt, report | hub receive path, 1W remotes | a report is about what was heard | modelled |
| ManagementActions (`management_actions.*`) | none of its own | eight Home Assistant actions, roll-call, sweep | exchange engine, registry | what a result claims happened | modelled |
| LR1121 firmware updater (`hub_lr1121_firmware_update.cpp`, `radio_lr1121_firmware_updater.*`, `lr1121_firmware_decisions.h`) | verdict cache, arming switch; the chip's flash | read, check, flash, three-stage bootloader rewrite | radio hardware | only the right chip is erased; every failure can be repeated | modelled |
| Radio drivers, soft PHY (`radio_*`) | chip mode, channel, interrupt latch, receive buffer | `send_packet`, `wait_for_packet`, `check_for_packet`, `maybe_hop` | hub loop, exchange engine | a frame being received is neither dropped nor replaced | partly |
| Protocol layer (`proto_*`) | none | frame, crypto, codec functions | everyone | frames arrive as built | partly |
| Tuning (`tuning_*`, `tuning.py`) | 25 parameters | apply, set, get, snapshot | engine, drivers, entities | one truth in four places | modelled |
| Entities and code generation (`platform_*`, `*.py`) | Home Assistant state | control calls, publish, validation | hub | | partly |

### What is hard here

* **Queueing.** Fourteen kinds of request arrive in any order and are reordered,
  merged, de-duplicated and cancelled in place.
* **One schedule, many writers.** `next_update` of a device is written by the
  acknowledgement of a command, the confirmation poll, status replies,
  unsolicited updates, failures and `pop_due_device`; a timer and a queued poll
  may stand for it meanwhile. Losing all of them leaves a wrong state on display.
* **Guesses.** Optimistic covers show a predicted movement; every path on which
  a command fails has to withdraw it.
* **Devices that misreport.** A reply to a command echoes old positions, and
  some devices claim to be stopped before they are.
* **Lost and late frames.** A retry of a command that was in fact executed moves
  something a second time; a transmitter timeout does not mean that nothing was
  sent; a frame is taken for an answer by its endpoints alone. In a key exchange
  a lost confirmation leaves the two sides with different beliefs.
* **Strangers.** Other hubs, other controllers and remotes send what they like
  while the hub is armed for them, and timers of an earlier arming still run.
* **Edges.** The drivers learn of a frame through a latch that only a rising
  edge sets, and retune the receiver on a timer of their own.
* **Time.** Listens, retries and budgets add up while `loop()` is blocked;
  `millis()` wraps after 49.7 days.
* **Power loss.** 1W frames carry a 16-bit rolling sequence: a value reused
  after a reboot is ignored by devices, and one too far ahead locks the remote
  out. A transceiver whose flash is half written must be found again.

`PROJECT.json` lists each hazard with the line where it bites and the
properties that would catch it.

## 2. Modules

| Module | Models | Role |
|---|---|---|
| `PendingOps` | the deque and every rule of `OperationQueue` as an operator on it | shared by `OperationQueue` and `Hub` |
| `OperationQueue` | the queue under an arbitrary client | component |
| `StatusPollPolicy` | every operation on `PollTracking`, with wrapping times | operators used by `Hub` |
| `DeviceModel` | device records, the prediction overlay, what entities send and show | operators used by `Hub` |
| `Hub` | `loop()`, commands, received frames, outcomes of exchanges, timeouts, devices | composition of queue, policy, registry, entities and hub |
| `ExchangeEngine` | `send_and_receive` against a lossy, late device | component |
| `Radio` | three drivers, interrupt latch, idle hop, early read, listen windows | component, below the engine |
| `OneWaySequence` | sequence store, transmitter and ESPHome preferences, with crashes | component |
| `OneWayAdoption` | armed listener, report, configuration entry, frames of the new identity | component |
| `PairingTelemetry` | the log of an attempt and the advice | operators used by `Pairing` |
| `KeyHandover` | the promise of a pairing attempt | abstract specification |
| `Pairing` | `discover_and_pair` and the hub's wrapper against devices and air | component, implements `KeyHandover` |
| `KeyExtraction` | the responder, its timers and the hold of channel 2 | component |
| `ManagementActions` | the eight actions against devices, other controllers | component |
| `FirmwareUpdate` | boot-time read, verdict, button, both flash sequences, the chip | component |
| `Tuning` | parameter tables, generated code, entities, driver copy, snapshot | component |
| `OperationQueue_proofs`, `Hub_proofs` | theorems about the queue, and on top of them about the hub | proofs |
| `ExchangeEngine_proofs` | theorems about `ExchangeEngine` and `ManagementActions` | proofs |
| `Radio_proofs` | theorems about `Radio` and `Tuning` | proofs |
| `OneWay_proofs` | theorems about `OneWaySequence` and `OneWayAdoption` | proofs |
| `Pairing_proofs`, `KeyExtraction_proofs`, `FirmwareUpdate_proofs` | theorems about the component of that name | proofs |
| `MC*` | values of the constants for TLC; a module without one is run as it stands | |

Faulty variants that a definition has beside it, marked as such in a comment, are
what the mutation runs put in its place; no specification refers to them.

Where two components are extended by one module of proofs, the initial predicate,
the next-state relation, the specification and the tuple of variables of one of
them carry its name: `QueueSpec`, `ActionsSpec`, `AdoptionSpec`, `TuningSpec`.
`PendingOps` declares `queue`, `Devices`, `Positions` and `MaxLen`, so that a
lemma about the deque of `OperationQueue` is one about the deque of `Hub`.

### PendingOps and OperationQueue

`queue` is `queue_`. Each `enqueue_*` is an operator from deque to deque with
the source's name: `push_control` drops the poll the command makes stale and
inserts before the first background operation, the position and tilt calls
merge into a pending partner, the polls and the pairing request refuse
duplicates, pairing flushes the polls and goes to the front. The module adds
what the caller asked for (`intent`, `presses`) as history, so that properties
relate the deque to the sequence of calls that produced it. `plain` marks the
devices whose pending operations are only positions, tilts and their merges:
a named command or combined call can be overtaken by a merge, which the code
accepts. `Select` is `std::remove_if` with `erase`: it is written by the ranks of
the indices that stay, because what a recursive filter returns cannot be proved.

### StatusPollPolicy, DeviceModel and Hub

One run of `loop()` is three steps: receive one packet or none, dispatch one
queued operation unless it is deferred, queue one due poll; `pc` says where it
is. Between two runs entities issue commands, named timeouts fire, covers
travel and presses the hub does not hear happen. A dispatched operation is an
exchange, represented by its outcome (`ExecuteFails`, `ExecuteUnconfirmed`,
`ExecuteAcknowledged`, `StatusFails`, `StatusReported`, `StatusUnusable`) with
all the bookkeeping the handler does for that outcome, and it takes up to
`ExchangeTime`. `phys` is the real device; `Reports` is what it may say,
including "stopped" while it moves and a marker instead of a target. `clock`
is real time and `millis` its value modulo `Wrap` (2^32 in the code).
`excused` records that the hub has no reason to know better (an unheard press,
a flushed poll, an unusable answer), `backed` what a prediction rests on.

Every operation for a device is there: position, slats and both, STOP, light,
lock and switch. A device is bound to an entity of some kind (`Bindings`), with
the type it has on record, which never changes at run time; the `queue_*` guards
refuse by type (`queue_guard_rejects`). `DeviceModel` is the record with its
overlay, the decoding of a report, `normalize_stopped_state`,
`rollback_optimistic`, and the callback of each entity, whose result is `shown`:
a light or switch follows its device once that has stopped, a lock shows where
it is heading while it moves. Positions are those on the wire, so inversion is
only a renaming. Two things the code does are part of the meaning of `excused`:
a light that a guard refuses after its call was published keeps showing the
command, and a device whose type takes no status requests cannot be followed up
when its timeout fires. A device's current position is always in its report, and
its slats are not part of `phys`. Not modelled: the light's `suppress_write_`
flag against ESPHome's own transition loop.

### ExchangeEngine

`stage` is `OutboundExchangeState`; a step is one call the loop of
`send_and_receive` makes: transmit, listen, transmit the answer to the
challenge, listen again, with every `continue` and `return`. `elapsed` is
`millis() - exchange_begin_ms`, `window` what is left of the listen. The device
(external) keeps the request it challenged and a set of answers it has yet to
send, which may arrive in any later window, also of the next exchange. An
addressed frame counts as an answer whatever it answers: `hub_decisions.h`
compares endpoints only. `TransmitFails` has the two cases of the drivers: the
frame was refused at once, or its end was not signalled for `TxTimeout` (4 s)
and it may have been on the air; `falseAlarm` records the second. Unicast
exchanges hold the request's channel, so channels are left to `Radio`.

### Radio

A tick is about 3 ms. The chip receives what is on its channel from the sync
word on and raises interrupt bits; `latch` is `dio_fired_`, set only by a rising
edge of the OR of the bits routed to the pin (`DioMask`, which differs by chip).
`pc` walks through `loop()` - `check_for_packet`, a possible exchange, `maybe_hop`
with the holdoff - or through a transmission and a listen window with its slices,
re-hop and linger. Steps that wait for nothing take no time. `buf` is what an
early read would find in the chip's buffer: this frame, an earlier one, the
hub's own transmission or nothing, which is how stale reads become visible.
Frame kinds are what the receive path tells apart: `plain` ones decode and check,
`garbled` ones have a believable length and fail the CRC, `noise` has no frame in
it. The realignment over bit offsets is left out: an early read may miss what the
code would find, never the reverse. `spec` is the `ListenSpec` of the open window;
a 1W frame goes out without one. The SX1276 clears its latch when a wait begins,
the soft-PHY drivers when they have transmitted. Listen-before-talk and CRC error
interrupts are left out; reading and clearing the interrupt register is one step,
as it is one SPI transaction on the hub's thread. `spec.dropped` remembers that a spinning SX1262
cleared the flags of a frame on the channel of the current slice.

### OneWaySequence

`next` and `reserved` are the counter in RAM, `flash` the committed preference
and `staged` a value `save()` took that no `sync()` committed. `persist()` may
fail in either half, and a failed `sync()` may commit some of what is staged;
ESPHome's own sync may commit the rest later. A job is the list of frames one
`send_*` call sends (two for a Somfy enrollment, four for a VELUX one, cut short
when the sweep reached nobody), each of which takes a sequence, and may then
fail to be built or sent. `Reboot` may happen between any two steps, with an
edited `initial_sequence`. `seed()` has no caller in the component at this
commit; it is modelled because it is public and moves the counter on purpose.

### Pairing, PairingTelemetry and KeyHandover

`pc` says which loop of `discover_and_pair` runs and what it waits for; `cx` is
`PairingContext` with the loop counters; `fast` selects the confirmation path
for radios with and without a fast turnaround. Each window has one action for
what it receives and one for its timeout. Devices keep the key they were given
(`keyed`) and the challenge they last sent (`nonce`); `air` holds their answers,
which may be lost, arrive in a later window, or be overtaken by other nodes'
frames. Attempts follow one another without end, and a device that stored the
key in an attempt the hub considers failed meets the next one as a device that
already has it. A fast radio that cannot send its answer to a challenge goes on
with the next try (`AuthenticationFails`). The one SetConfig1 exchange after the
key is one step; it is best effort, its reply is never read, and its failure gives
`CONFIG_FAILED`. `tel` is the telemetry, on which the advisor's rules are
evaluated at the end as the code does.

`KeyHandover` is what callers rely on: an attempt opens, at most gives the key
to devices, and ends by registering one that has it or by changing nothing; and
it does end. `Pairing` implements it with `open` = the engine is busy, `holders`
= `keyed`, `paired` = `registry` (`HandsOver`).

### KeyExtraction

`on_*` are the handlers of `pairing_responder.cpp`, as functions to the set of
new contexts, empty when the frame is ignored. `timers` are the two named
timeouts, which survive a disarm exactly as `set_timeout` does; `hold` is what is
left of the deadline that keeps `loop()` on channel 2. Foreign hubs may send any
step they have the data for, at any moment and repeatedly, and miss any answer:
`know` and `heard` are the throwaway ID and the challenge each of them has. A
recovered key is the sender's when the challenge is the one it encrypted for,
and noise otherwise, which the code cannot tell apart. Payloads too short for
their handler are dropped before anything changes and are stuttering steps.

### ManagementActions

`job` is the action under way. An exchange in it keeps the contract that
`ExchangeEngine` shows: it fails, is accepted without an answer, or returns some
frame the device sent to the hub. Between the exchanges of one action devices
move and other controllers rename them. The roll-call collects replies on each
channel in turn, a sweep counts through its indices; `hist` keeps what really
answered and what was really asked. Texts and the YAML block of the scan report
are left out.

### FirmwareUpdate

`chip` outlives restarts: family, bootloader, image, whether it runs the image
or the bootloader, and whether `init()` configured it. `hub` are the
`lr1121_*` members, lost on restart. `pc` names the step of the boot, the flash
or the rewrite, and each step succeeds, times out or is interrupted by
`PowerLoss`. `GetVersion` answers as the running image or bootloader does, and
may not answer. A command to reboot that was sent may not be acted on
(`Rebooted`), and a reset into the bootloader may find the image booting instead
(`Entered`); what is read next is then refused. `Builds` are the configurations `lr1121_firmware.py` lets
through. Blocked targets that no build can contain are therefore unreachable.

### Tuning

`NUMBER_PARAMS` and the option tables are those of `tuning_registry.cpp` and
`tuning.py`, as records indexed by parameter; `cfg` is `tuning_`, `radio` the part
the driver copied, `shown` what each entity last published. `Booted` runs the
generated assignments; `update_tuning_number` and `update_tuning_select` are the
entity path, with the cast to the field's width. The snapshot is a block; `Paste`
boots from it if it validates, which needs quotes around the hex tokens. `InSchema` and `Validated` are `TUNING_SCHEMA`, which
every configuration the user may write (`Blocks`) has passed (`TuningAssumption`).

### OneWayAdoption

`armed`, `timers`, `observed` and `shown` are the listener. Remotes send typed
commands and key copies; every frame goes through the builder, `set_cmd` (which
fixes the five-bit length), serialisation, the soft-PHY probe and `parse`, whose
decision on a trailing MAC is `Received`. A report becomes an entry of
`oneway_controllers:` in which the user may omit fields; `ValidConfig` is the
validation of `__init__.py`, including derived node IDs; `Flash` boots with it.

## 3. Runs

All bounds are constants of the `.cfg` files. Times are scaled (one tick is about
one second in `Hub`, 200 ms in `ExchangeEngine`, 3 ms in `Radio`) and keep the
order the real values have, which is what the guards compare. Actions and
properties are listed with their source in `PROJECT.json`.

| Run | Checks | Shows |
|---|---|---|
| `MCOperationQueue` | `BandOrder`, `OnewayPressesKept`, `LatestIntentWins`, `NothingLostWithoutCause` | Every order of calls keeps the bands, the presses in order and complete, the last position asked for, and loses nothing but for a newer request for the same thing. |
| `MCHub` | `FollowUpNeverLost`, `NoSilentStaleness`, `PredictionsBacked`, `CadenceCeiling`, `StopConfirmedPromptly` | A venetian blind, a light bound to a cover, a light, a lock and a switch of unknown type in turn, with linked and foreign remotes: what is displayed is followed up at the configured cadence until it is right, failed guesses are withdrawn, a STOP is confirmed within its cap. |
| `MCExchangeEngine` | `AtMostOneExecution`, `FailedMeansNotExecuted`, `ReadsSpendTheirTries`, `BlockingBounded`, `Termination` | Two exchanges with a device that loses, delays and volunteers frames. |
| `MCRadio` | `FreshOnly`, `WindowKept`, `IdleHopSparesFrame`, `LingersOnPreamble` | Three drivers, frames starting at any moment on any channel: no stale packet is delivered, windows keep to their channels and length, hops spare a frame being received. |
| `MCRadioPreamblePin` | `FallThroughKeepsFrame` (violated) | the finding below |
| `MCOneWaySequence` | `NoReplay`, `ReservedBeforeUse`, `SkipBounded` | Two identities with reboots, failing flash and radio, seeds and configuration edits. |
| `MCOneWayAdoption` | `WindowHolds`, `ReportIsTrue`, `OwnVoice` | Three makes of remote, the report, the configuration made of it, and the frames the hub then sends. |
| `MCPairing` | `RegisteredIsKeyed`, `ToleratesLosses`, `OutcomeTruthful`, `HandsOver` | Repeated attempts on both kinds of radio with lost, late and foreign frames, refusals and transmit failures. |
| `MCKeyExtraction` | `WindowBounded`, `EndsForAReason`, `OneHubOneKey`, `OthersDoNotDisturb` | Two foreign hubs in any order against the responder and the timers of earlier cycles. |
| `MCManagementActions` | `RenameHonest`, `ReportsTrue` | Every action in any order against devices that answer, refuse, stay silent or send something else. |
| `MCFirmwareUpdate` | `OnlyLR1121Flashed`, `NeverSilentlyDeaf`, `ButtonRecovers`, `RewriteGuarded` | Every chip, build and image, with timeouts and power loss at every step. |
| `MCTuning` | `OneTruth`, `PasteKeepsTuning` | All parameters on each chip through YAML, UI, reboot and paste. |

Why the bounds are enough:

* `MCOperationQueue`: the rules look at the type and device of entries and at
  the first background one. Two devices, one 1W handle equal to a device id and
  three entries contain every pair of rules that meet, with a bystander.
* `MCHub`: three commands, presses or pairings and six ticks are enough for a
  command, a competing press and a failing follow-up with a back-off step inside
  one window of four ticks; the interval (two ticks) is longer than the STOP cap
  (one) and shorter than the longer back-offs, as in the code. The run stays clear
  of the wrap of `millis()` (see the observations). One device, of each of five
  bindings: devices share only the queue, whose per-device rules
  `MCOperationQueue` checks with two, and the theorems cover any number of them.
* `MCExchangeEngine`: three tries of which the budget may cut the last, two
  exchanges so that answers cross from one to the next, two answers in flight.
* `MCRadio`: one frame on the air at a time, with two ticks of preamble, one of
  body and four for the fixed-length reception of the soft PHY, against a holdoff
  and an early read of four, a dwell of two, a linger of five and a window of
  nine, so that a frame may begin before, inside and at the end of each of them.
  The state space is closed: there is no bound on how often anything happens.
* `MCOneWaySequence`: a ring of five with blocks of two, so blocks run out and
  the ring wraps within a few frames; one reboot and one wasted sequence meet a
  block in every state, and the theorems cover any number of reboots.
* `MCOneWayAdoption`: a remote with and one without MAC, a known and an unknown
  wrapping, a declared and an undeclared address, two entries so that derived
  addresses can collide; a window of three ticks can be re-armed inside.
* `MCPairing`: one tolerated loss of two, so both sides of the promise occur; two
  tries of every loop, so that a retry may be the last one or not; two answers
  in flight; one bystander's frame per attempt. Attempts are unlimited.
* `MCKeyExtraction`: two hubs make every "another hub" case; the auto-off
  (three ticks) is longer than the grace (two), which is longer than the
  mid-attempt hold (one), as in the code. Cycles are unlimited.
* `MCManagementActions`: one more responder than the list holds, one more index
  than a sweep may ask, three channels.
* `MCFirmwareUpdate`: one image for each bootloader, one the table does not know
  and none. Failures and power losses are unlimited.
* `MCTuning`: every parameter at both ends of its range and every option, from
  blocks of each kind, with three changes.

Where a model stops at a bound of time (`Hub`), the stuttering step is an action
of its own (`Horizon`), so deadlock is checked in every run.

### Fairness

Two properties need it, and both assume only that the code inside a blocking
call keeps running: `Termination` under `WF_vars(Blocking)` of `ExchangeEngine`,
and the end of an attempt in `HandsOver` under `WF_vars(HubSteps)` of `Pairing`.
Either is one C++ call on one thread with delays and polling loops and no lock
to wait for, so nothing but a crash stops it. Nothing is assumed of devices,
other hubs or the air.

### Finding

On the LR1121 the preamble interrupt is routed to the pin as well
(`radio_lr1121.h:101`). When preamble and sync bits are read together,
`check_for_packet` clears only the sync bit (`radio_soft_phy_driver_base.cpp:432`),
the line stays high, the later RX_DONE makes no edge, and when the holdoff
expires `maybe_hop` retunes over a received frame that nobody has read. The
comment beside it says that falling through "is not a lost frame".
`MCRadioPreamblePin` shows the steps. `IdleHopSparesFrame` in `MCRadio` is what
does hold: such a hop never happens on the SX1262, and on the LR1121 only after
RX_DONE.

### Observations

Met while modelling, described here only; the models contain the behaviour and
the properties are stated so that they hold beside it.

Queue and hub
* A position or tilt *merged* into a pending operation returns before
  `push_control_`, so the stale status poll stays queued
  (`operation_queue.cpp:46`, against `operation_queue.h:65`).
* Bursts of 1W frames that start exactly a quiet period apart restart the
  deferral of a background poll before its cap is looked at
  (`hub_status.cpp:408`, ADR 0013).
* The flush of a pairing request drops polls whose `next_update` was already
  consumed; the device then has an open window with nothing in it
  (`operation_queue.cpp:140`). `FollowUpNeverLost` excuses exactly such a device
  and so does not count this as lost.
* Deadlines are compared without regard to the wrap of `millis()`: a window
  opened in the ten minutes before it is expired from the start
  (`status_poll_policy.cpp:53`).
* `settle_delay_ms` cuts a hint longer than 3 s even when no interval is
  configured, while `docs/home_io_control.md:185` says the hint then "drives the
  interval directly".
* A status reply too short to use resets the failure streak but leaves the
  back-off it caused in `next_update`, so that poll comes later than the ceiling
  of ADR 0017 (`StatusUnusable`; `CadenceCeiling` excuses it).

Exchanges, radio
* With `exchange_total_budget_ms` tuned above the 4 s transmit timeout, a
  CMD_EXECUTE whose answer to the challenge was on the air but not signalled is
  sent, and may be executed, again; hence the condition in `AtMostOneExecution`.
* The "wall-clock ceiling" of `proto_timing.h:111` is consulted before a retry
  only: what bounds an exchange is the budget, one gap and the longest try, which
  is what `BlockingBounded` states.
* After a transmit timeout an LR1121 may read its own frame early (`FreshOnly`
  excepts it), and the SX1262's latch left set by a wait that spins makes it drop
  the preamble and sync flags of a frame that is arriving, so that a lingering
  window hops off it (`LingersOnPreamble` excepts what was dropped on the channel
  of the slice, `spec.dropped`, and nothing else).

1W
* After the 16-bit sequence wrapped, a reboot resumes from a high
  `initial_sequence`, behind the live counter; `NoReplay` holds up to the wrap.
* The comments at `hub_oneway_key_adoption.cpp:84` and `:109` say a 0x30 targets
  all classes, but the recorded enrollments and `create_1w_add_controller` have
  typed ones, so a key copy itself sets the observed class.
* A pasted report without `io_device_type` does not validate; a derived node ID
  may collide with a remote that no entity names.

Pairing, key extraction
* "Nothing at all was heard" can be advised although packets arrived that did
  not parse; a 0x3C that arrives a window late makes the key transfer answer a
  challenge that is no longer open (`ToleratesLosses` leaves late frames out).
* With two foreign hubs in one cycle the reported node ID may not belong to the
  owner of the key (`pairing_responder.cpp:49`, `hub_key_extraction.cpp:330`);
  hence the condition in `OneHubOneKey`: it speaks of cycles with one key-init.
  `OthersDoNotDisturb` begins once a key is extracted; before that, a key-init of
  a second hub in the middle of an attempt replaces the first hub's ID and
  challenge, and no property forbids it. A hub that starts over while its
  challenge is open is ignored until the window closes.

Management, firmware, tuning
* A rename to the name already cached counts as verified on any frame that is
  not an error (`management_actions.cpp:618`); hence the condition in
  `RenameHonest`.
* A target known to need another bootloader is flashed when the boot-time read
  failed (`hub_lr1121_firmware_update.cpp:644`, `lr1121_firmware_decisions.h:301`,
  ADR 0020); the chip then stays in its bootloader and the button works again.
  `OnlyLR1121Flashed` is about the chip family and does not catch it.
* The tuning snapshot leaves out the three `exchange_*` windows although
  `tuning_config.h` says it "Emits every non-default value"; `PasteKeepsTuning`
  excepts them, and would not notice that their lines are missing. It prints command tokens,
  destination and payload without quotes, so that YAML reads integers where
  `tuning.py:240` insists on strings: pasted verbatim such a line is rejected,
  while `docs/radio_diagnostics.md:481` says to paste it. A YAML command order the dropdown does not offer shows no state.

## 4. Proofs

Proved with TLAPS for all values of the constants that satisfy the named
assumptions of the modules, which only give types, non-empty ranges and the
orders the real values have; `TolerationAssumption` of `Pairing` says what
`Tolerated` means (fewer losses than retries and than discovery requests, so that
one of each is left) and `TuningAssumption` of `Tuning` that a block passed the
schema. Five theorems of `Hub` and one of `OneWaySequence` have a hypothesis
besides (`FirstHalfLap`, `WithinOneLap`): a counter has not come round, beyond
which the code's plain comparisons, or distances on a ring, mean nothing. Every
property of a passing run is the subject of a theorem but for the two about
termination (below).

**OperationQueue_proofs**: `BandsInOrder` (`BandOrder`), `NoPressLost`
(`OnewayPressesKept`), `CoalescingKeepsIntent` (`LatestIntentWins`) and
`NothingIsLost` (`NothingLostWithoutCause`), for any devices and handles and a
queue of any length.
Everything an `enqueue_*` does is one of three things: it replaces an entry by a
merge in its place, drops entries, or inserts one. `Carries` says what the last
two leave of a deque: an order-preserving bijection between the entries that
stay, before and after; `Pushed` adds where the new one comes to stand.
`PushCarries` and `DiscoverCarries` show that `push_control` and the flush of a
pairing request do this, by way of `Select`'s bijection of ranks (`Selects`), and
the rest of the proof speaks of `Carries` and `Pushed` only. `QueueInv` is the
inductive invariant:
  * `Banded`: `BandOrder` for every pair of entries. An insertion keeps it because
    `find_insert_position` looks for the *first* background entry, which is the
    right place only in a deque that is banded already.
  * `PressesEmbedded`: there is an order-preserving map from the presses not yet
    popped onto the 1W entries, and each stands for its press. The property compares
    `presses` with what `Select` picks; that two enumerations of the same indices in
    order are the same (`OneEnumeration`) makes this out of the map.
  * `CoversCoalesced`: a plain device never has a position and a tilt of their own
    pending, its merged operations are in front of the unmerged ones, and the last
    of each kind asks for what is wanted. `LatestIntentWins` is the last part alone,
    which no merge would preserve: it changes the *first* partner it finds.

  `NothingLostWithoutCause` is a property of steps, shown per `enqueue_*` from
  `Carries`: what is dropped is a poll, by a command of its own device or by
  pairing, and a merge leaves an entry for the same device in its place.

**Hub_proofs**: `Invariance` (`Spec => []IInv`), and from it `FollowUpSafe`,
`NothingStale`, `PredictionsSafe`, `CadenceSafe` and `StopSafe`, for any number
of devices, any bindings, intervals, hints and back-off tables, any queue length.
A sixth, `PollsYield`, needs no hypothesis: the hub's own queue keeps the bands
(`BandOrder`), so a status or name request is dispatched only when no command,
press or pairing waits (`CommandsFirst`). It carries the lemmas of
`OperationQueue_proofs` to everything the hub does with the deque.
The hypothesis `FirstHalfLap` says that `millis()`, and every time the policy adds
to it, is below half of the 32-bit range; around the wrap deadlines are compared
plainly, and `CadenceCeiling` compares on the ring.
None of the first five is inductive. `IInv` is `TypeInv` and, for each device,
`DeviceInv(d)`, which holds at every `pc`, not only between runs of `loop()`:
  * a scheduled poll is within the ceiling unless failures postponed it;
  * an open window has something in it (a scheduled or queued poll, a timeout, a
    queued command);
  * a window that is set is open, except in the last part of `loop()`, after the
    exchange took its time and before what ran out is cleared - the one place
    where a stale deadline exists;
  * a prediction is backed, or its command is still queued;
  * the device is where the hub has it and the entity shows it there (`Settled`),
    or it is tracked, or it is about to be commanded.

  The last clause is what carries `NoSilentStaleness`: "shows the right thing" is
  too weak to survive a step, since the next callback is computed from the record
  and not from what is shown, so `AtRest` also pins the record.
  Most steps disturb one device. `Carried` says what a step has to leave of the
  others (record, tracking, timeout, and a queue that still holds what it held
  for them), and `Placed` what it has to bring about for its own. Under these
  lie three groups of lemmas about the operators: of the queue (`Selects`: what
  `Select` keeps, in order and once, which is a bijection between ranks and
  kept indices; `PushHolds`: a pushed operation is held, and only polls of its
  own device may go), of the policy (`Replies`, `Updates`, `Arms`, `Fails`: each
  outcome either schedules the next poll within the ceiling, or a retry inside the
  window, or clears the tracking), and of the devices (`Withdraws`: a rollback
  shows what was observed; `Decodes`: a device taken for stopped after a plausible
  report really is where it says; `NotifyRests`: every kind of entity shows that).

**ExchangeEngine_proofs**: `Invariance` (`Spec => []IInv`), and from it
`ActsOnce`, `FailureIsHonest`, `BlocksBriefly`, `ReadsPersist`. The
strengthening has three parts. `NotYetActed`: up to the transmission of the
answer the device has not acted on this CMD_EXECUTE (or the budget exceeds the
transmit timeout and one timed out); this is what makes a retry safe. It is
preserved because the only ways back to a new try are the ones before the
answer left, and after a transmit timeout the budget is used up.
`OnSchedule`: per stage, an upper bound of `elapsed` plus what is left of the
window; the bound of the whole exchange follows stage by stage. `Counting`: the
try index stays in range and there is no outcome while an exchange runs.
`ExchangesRunDown` is the deductive part of `Termination`: `StepsLeft`, a bound
on the steps until `loop()` has control again, is a natural number, every step
of the engine makes it smaller, and nothing the device does makes it larger
(`RunsDown`). With the fairness of `Blocking` this is why an exchange ends.
The second part is about `ManagementActions`: `RenamesAreHonest` (`RenameHonest`)
and `ReportsAreTrue` (`ReportsTrue`), for any devices, names, channels and
limits. An action is many exchanges, so `ActionsInv` says what is known between
them. `Renaming`: the hub learns no name while a rename is under way, so what is
compared at the end is what it knew at the beginning. `Listing`: the list holds
exactly who answered, until it is full and somebody else did. `Sweeping`: the
indices asked are those from the first up to the next one.

**Radio_proofs**: `OnlyFreshPackets` (`FreshOnly`), `WindowsKeepToTheirSpec`
(`WindowKept`), `IdleHopIsSafe` (`IdleHopSparesFrame`), `LingeringIsSafe`
(`LingersOnPreamble`), for any lengths of frame, holdoff, dwell, linger and window
in the order the drivers have them. `BufInv`: only an LR1121 finds its own
transmission where it reads. `SyncInv`: the sync bit belongs to a reception in
progress, which is at least as old as an early read has waited. `NoteInv`: a
reception `loop()` knows of is younger than its holdoff, or complete. `ListenInv`
ties the preamble bit in a window to a frame on the channel, up to what a
spinning SX1262 dropped.
The second part is about `Tuning`: `OneTruthHolds` (`OneTruth`) and
`SnapshotBringsBack` (`PasteKeepsTuning`), for any set of blocks that the schema
lets through and any number of changes, over the tables as they are. `TuningInv`
says that every field of `tuning_` holds a value the setters can produce (`Fields`),
which is narrower than the field's type and is what the snapshot can write and the
schema will read. The rest is shown per parameter: a getter reads its own field, every
number the driver copies is flagged `to_radio` (`Flagged`), and what the snapshot emits is validated and generated back to what it
was emitted from.

**OneWay_proofs**, `OneWaySequence`: `TypeCorrect`, `NeverReplayed` (`NoReplay`),
`DurableFirst` (`ReservedBeforeUse`). `NoReplay` is not inductive: a state may
hold a counter behind the last sequence sent and only the next step shows it.
`IInv` adds `Ledger(i)`: for an identity that has not wrapped, a block that is
not used up lies below the value in flash, the last sequence sent lies below the
flash and below `next`, and a staged value never undercuts `next` (unless a
failed `seed()` is outstanding); and `InFlightOrdered`: the sequence that is out
lies above the last one sent and below both `next` and the flash. A reboot sets
`next` to at least the flash value, hence above everything sent.
`SkipsStayBounded` (`SkipBounded`) has one hypothesis, `WithinOneLap`: what the
reboots and wasted sequences that the bounds allow may skip is less than one lap
of the ring. Without it a distance on the ring means nothing. Its invariant
`SkipInv` follows the end of the reserved block instead of `next`: the flash is at
most a stride beyond it, and it is ahead of the last sequence sent by at most the
`Allowance` used up so far (one, a stride per reboot, one per wasted sequence).
Distances add up as long as their sum stays within the lap (`DistancesAdd`).

**OneWay_proofs**, `OneWayAdoption`: `ReportsAreTrue`, `ArmedWindow`. `ClockInv`: while
armed exactly one timer is pending and it and the age of the window run in step,
whatever earlier armings left behind. `ObservedInv`: the class kept for a report
was heard from the node it is kept for since the switch was turned on. That a
verified MAC names the right key rests on two lemmas about frames: what the
listener receives is what the remote sent but for the trailer, and a MAC
verifies under no other key.
`VoiceIsOwn` (`OwnVoice`) takes a frame from the builder to the receiver: it is
within the lengths the header can carry and the probe accepts, `parse` returns the
payload that was built, and what validation leaves in `oneway_controllers:` gives
every identity an address of its own, also when it is derived. `ClassInv` says
that the class a report carries is one the wire has, which with the recorded
`enrollment_classes` makes the classes that are swept the identity's own.

**Pairing_proofs**: `RegisteredHoldsTheKey` (`RegisteredIsKeyed`),
`ReportsWhatHappened` (`OutcomeTruthful`), and `KeepsTheContract`: every step of
the engine is a step of `KeyHandover` or a stutter, from an initial state of it,
the safety half of `HandsOver`. They hold for any number of devices, nonces,
tries and log entries. `TargetInv`: an exchange has a target, and one that is being
configured has confirmed, which it does only with the key. `ReportInv`: what the
log says it heard was heard, the advice was drawn from that log, and nothing is
reported before the end. The device side is part of the argument: a device sends a
confirmation only after it stored a key, whichever attempt that was in.
`SurvivesLosses` (`ToleratesLosses`) is a ledger (`LedgerInv`): in an attempt in
which nothing else went wrong, every retry that was spent is paid for by a loss.
The discovery requests and key exchanges before this one are at most the losses
so far; what the hub waits for is either due (it comes last and on time, and
nothing else of its sender is under way) or has been paid for; and the target can
make sense of the key it is sent, because it has one already or its last challenge
is the one the hub uses (`Understood`). As long as the losses do not exceed
`Tolerated` no loop can run out of tries, so the attempt can only end with a
registration.
`AttemptsRunDown` (`AttemptRunsDown`) is the deductive part of the end that
`HandsOver` promises. `Calls` counts the transmissions and windows that the loops
still allow: discovery commands times attempts, then key exchanges times key-inits
times the tries of a key, which weigh less than one key-init. It is a natural
number, and every step of the hub makes it smaller, or receives a frame that is
ignored and leaves one less on the air; nothing that is heard, lost or answered by
others makes it larger.

**KeyExtraction_proofs**: `WindowIsBounded`, `CycleEndsForAReason`,
`OneHubOwnKey`, `OthersLeaveItAlone`, for any number of hubs. `ArmedInv` and
`GraceInv` tie each timer to the time since arming and since progress: a timer
left by an earlier cycle is always overwritten before the state in which its
callback would act. `HoldInv` bounds the hold by the time since the last answer.
`OneHubOneKey` needs `AskedInv` - only a hub that asked in this cycle holds a
challenge of it, because arming draws an ID nobody knows and a 0x28 starts a hub
afresh - and `ChallengeInv` - as long as a single hub asks, that challenge is
the responder's own. That an unused challenge exists is a counting argument
(`FreshExists`).

**FirmwareUpdate_proofs**: `OtherChipsUntouched`, `NeverDeaf`, `FlashableAgain`,
`RewriteOnlyWhereItMay`, for every set of versions and every compatibility
table. `FamilyInv`: a chip of another family keeps its own bootloader and a whole
image. `ReadInv`: what the hub believes of the bootloader is what a chip of that
family says, unless the reset missed the bootloader and the image answered
(`Missed`), which leaves "wrong chip" as the verdict; on an LR1121 this, and
"bootloader too old", stand only on a chip that boots its image. `FlashInv`: such a chip
does not get past the check of what entering the bootloader read. `DeafInv`: a hub
that is initialised and idle has a configured radio. `RewriteInv`: from the
arming to 0x8100 the switch, the build and the image that was checked stay, and
flash is erased and written only in a bootloader (`Loading`).
The lemmas about the chip say what a reset, a boot strap and a boot leave
unchanged, with a bootloader that was being written coming out old, new or
broken.

Only model-checked, and why:
* `Termination`, and the half of `HandsOver` that says an attempt ends: liveness
  and ENABLED are out of the prover's reach. `ExchangesRunDown` and
  `AttemptsRunDown` prove what they rest on, that the work left can only run down.
* The finding is an execution, which TLC shows; there is nothing to prove.
* That the operators of `StatusPollPolicy` and the deadlines of `Hub` behave
  around the wrap of `millis()`: they do not (see the observations), so the
  theorems stop at `FirstHalfLap`.

## 5. Not modelled, and what is left

* `Hub`: setup, link health and the diagnostic sensors; the wrap of `millis()`
  beyond the observation above.
* `DeviceRegistry`: registration, renaming and the table of linked remotes.
* `ExchangeEngine::authenticate_request` appears only by its verdict, as an
  accepted or ignored status update in `Hub`.
* 1W transmitter: the timing of bursts and the diagnostics sensor.
* Radio drivers: listen-before-talk, BUSY timeouts, register sequences, SPI
  framing, byte-level UART coding, the SX1276's CRC error path.
* Protocol layer: AES and CRC arithmetic, which the golden-frame corpus pins, and
  the decoders of status payloads beyond what `Hub` and `ManagementActions` use.
* Entities and code generation beyond tuning, firmware images and 1W
  controllers; log and advice texts; the capture tooling under `scripts/`.

What is worth doing next: `Hub` around the wrap of `millis()`, once its comparisons are made on the
ring; `authenticate_request` as a component of its own, with the listen windows of
`Radio`; and the registration and renaming of devices.
