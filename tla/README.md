# Verification of canbox-core

canbox-core sits between the comfort CAN bus of a car (PSA, chiefly the
Peugeot 407) and an aftermarket Android head unit on a serial line. It decodes
the car's frames, switches the head unit's power, illumination and reverse
lines, tells the head unit what changed, and turns the head unit's wishes back
into key presses on the bus. Where the car has no factory multifunction display (MDF) it plays that
one too. This directory holds TLA+ models of its parts, the
TLC runs that check them and the TLAPS proofs about them. Paths below are
relative to the repository.

## 1. The system

The firmware is one main loop (`src/main.c`, `src/main_esp32.c`): take one frame
from the receive ring, drain the UART, call `can_router_periodic_100ms` ten
times a second, feed the watchdog, and enter deep sleep while the bus sleeps.
Interrupts only fill rings. All application state is file-scope.

| Component | State | Operations | Interacts with |
|---|---|---|---|
| Receive ring (`core/ring_buffer.c`) | `head`, `tail`, slots | push, pop, init | pushed by the CAN and UART interrupts, popped by the loop, re-initialised by `hal_can_init` |
| Router (`core/can_router.c`) | current state, last sent state, timers, sleep flag | `process_can`, `periodic_100ms`, full and partial pushes, queries | calls profile, arbiter, head unit protocol; drives GPIO |
| PSA profile (`profiles/profile_psa.c`) | ignition sources, manual ACC, journal context | one decoder per CAN identifier, `psa_init` | writes the router's state; re-initialised by a handshake |
| Source arbiter (`profiles/psa_source_arbiter.c`) | sync state, actual, reported, target, retries, timers, override, pending list | hears 0x165, head unit commands, tick | sends 0x21F key pulses, opens or closes the router's 0x84 filter |
| RD4 decoders (`profiles/psa_407_rd4_audio.c`) | radio, presets, text, CD | frames 0x165 to 0x3A5 | call the arbiter |
| Alerts (`profiles/psa_407_alerts.c`) | reassembly buffer, previous list | 0x120, 0x1A1, query | router compares lists and answers |
| Car configuration (`profiles/psa_407_car_config.c`) | cached settings, MDF presence, rolling counters | 0x260, 0x361, 0x525, downlink settings, tick | sends 0x15B and the virtual MDF frame |
| Telemetry, trip, TPMS, body, climate, radar | last values, trip button phases | decoders | dirty flags read by the router |
| Hiworld link (`protocols/hiworld_connection.c`, `proto_hiworld*.c`) | link state, model, heartbeat step, two byte parsers | 0x24 and the downlink commands | handshake selects the profile, re-initialises CAN, pushes everything |
| Raise and Bagoo links (`protocols/proto_raise*.c`, `proto_bagoo*.c`, `canbox_parser.c`) | byte parsers | packets | same router operations |
| HAL (`hal/`) | registers, tick, wake flags | CAN, UART, GPIO, deep sleep | interrupts |
| Bootloader (`nuc131_hiworld_bootloader/`) | flash, boot token | update dialogue | started by command 0xE0 through a reboot |

What is hard here:

* **Concurrency.** Interrupts run between any two statements of the loop; the
  ring has no lock. Handlers block in `hal_delay_ms` while frames arrive.
* **Three parties, one radio.** Driver, head unit and factory radio all move
  the audio source, and a key pulse of the box looks like one of the driver.
* **Change detection.** Each output is written only on a difference from what
  was last sent. Sleep, wake-up and handshake change one side of the
  comparison and not the other.
* **Order and loss.** One derived value (power) is made of three frames that
  come in any order, or stop coming. Pulses are refused by a busy controller.
* **Restarts.** The head unit reboots unannounced, the MCU resets, the
  bootloader loses power half-way.

The correctness properties of each part are those of section 3; every hazard,
with its line and the properties aimed at it, is in `PROJECT.json`.

## 2. Modules

| Module | Models | Shape |
|---|---|---|
| `LossyFifo` | what a bounded queue between two parties promises | abstract specification |
| `RingBuffer` | `ring_buffer.c` used by an interrupt and the loop | one action per access the other side can observe; refines `LossyFifo` |
| `RouterPower` | power, illumination, reverse and standby lines; ignition derivation; silence watchdog | one action per handler, arbitrary frames |
| `ParkedCar` | `RouterPower` in a car whose frames tell the truth, with a head unit that announces itself at any moment | EXTENDS `RouterPower`, adds car, driver, battery saving, fairness |
| `SourceArbiter` | source arbiter, 0x84 filter and pushes, radio, driver, head unit | handlers as functions of the arbiter record, one action per handler |
| `Bootloader` | the bootloader's update dialogue, flash, boot token and ACC line; flashing tool, faulty line, power losses, user | one action per step of `iap_run` that power or line can cut, one per step of the tool |
| `HiworldLink` | what the head unit displays against what the router knows: command 0x24, its two answers, pushes on change, repetitions, restarts and losses | one action per handler; the display as a set of stale topics |
| `CarConfig` | the car's settings: cache, adoption from 0x260, requests 0x15B, display, MDF, BSI | one action per handler and kind of setting; the status as a record of what the code tells apart |
| `AlertJournal` | alarms of the car: reassembly of 0x120, the alarm on display, comparison of lists, the head unit's query and its timeout | one action per frame, query and tick; a segment as the alarm bits in it |
| `TripComputer` | the emulated factory display towards the trip computer: page and reset pulse in 0x167, the button, command 0x1B | one action per sample of the button, tick and command; frames may be lost |
| `TripPages` | the figures of the trip computer on their way to the head unit | EXTENDS `TripComputer`, adds figures, copies, telemetry and fairness |
| `BodyEvents` | what is sent the moment it changes: keys, doors, climate, tyres, radar, angle; the climate demand 0x1ED on the way back | one action per frame; decoders, then the router as a chain of operators |
| `RadioMedia` | station, presets, text, CD and volume from the radio's frames to the head unit, through the arbiter's filter, the router's copy and the adapter's copy | one action per frame, query and resync; the router as a chain of operators |
| `LowLevelProofs` | theorems about `RingBuffer` (with its refinement of `LossyFifo`) and `Bootloader` | |
| `RouterPowerProofs` | theorems about `RouterPower` and `ParkedCar` | |
| `HeadUnitProofs` | theorems about `RadioMedia` and `HiworldLink`, what the head unit is shown | |
| `SourceArbiterProofs`, `CarConfigProofs`, `AlertJournalProofs`, `TripProofs`, `BodyEventsProofs` | theorems about the module of that name (`TripProofs`: `TripComputer` and `TripPages`) | |

How they correspond to the code:

* **RingBuffer.** `PushStart` is the test of the two counters, `PushTear` and
  `PushFill` the `memcpy` with its half-copied moment, `PushPublish` the store
  to `head`; `PopStart`, `PopCopy`, `PopAdvance` likewise. `ResetHead` and
  `ResetTail` are the two stores of `ring_buffer_init` when a handshake
  re-initialises the live ring. An interrupt runs to completion before the loop
  goes on, so a reset never cuts a push in two; a push may cut a reset.
* **RouterPower.** `Derive` is `psa_update_derived_power_state`, the `Decode...`
  operators are the profile's decoders including their DLC checks, `ProcessCan`
  the whole of `can_router_process_can` as far as the lines go. The frame
  contents are reduced to the booleans these functions look at. `FallAsleep` and
  `TickQuiet` are the watchdog, `NoteBusActivity` a rejected frame or
  `can_router_notify_wake`, `Handshake` is `vehicle_profile_set_active`,
  `Restart` a reset of the MCU.
* **SourceArbiter.** Each handler of the arbiter is an operator from the
  arbiter record to a new record and the flags "pulse" and "push". Ticks stand
  for `hal_get_tick_ms`; `age` and `settle` are `now - state_timer_ms` and the
  remainder of the settling window. `Frame165` chains decoder, arbiter and the
  router's push on change, as `can_router_process_can` does. `Repeat` is a 0x84
  the change detection does not remember (heartbeat, 60 s resync). The radio
  executes pulses from `wire` in its own time; a lost pulse never gets there.

* **Bootloader.** `Boot`, `Rescue` and `LeaveWindow` are the start of `iap_run`
  and its 50 ms window; `Prompt...` the password loop with the battery
  safeguard, `ReadHeader` to `ProgramFails` the record loop in the order of its
  checks, `EndSession` the code after each `break`. A record is one slot; it is
  programmed in two steps, the first words and the rest, since the first words
  of slot 1 are all the vector check looks at. `StartTool` to `Fail` are
  `tools/flash_hiworld_serial.py`. `AppTrigger` is command 0xE0 in the
  application; an image that is not whole may obey it, ignore it, crash
  (`AppCrash`) or hang until its plug is pulled (`Replug`).

* **HiworldLink.** `link` is the connection context with the rotation step; a
  topic is a frame type (or the two of the settings, the four of the discovery).
  `RebootAssumed` is the test of `handle_parsed_command`, `AnswerReboot` its case
  A with `can_router_trigger_full_state_push`, `AnswerSteady` its case B.
  `CanChange` is a frame of the car that changes a topic, with the push on
  change; `Tick` lets one unit of time pass and does what
  `can_router_periodic_100ms` repeats in it. The head unit is the environment:
  it announces itself, restarts, is set to another model and loses frames.

* **CarConfig.** `Toggled`, `FollowMe`, `Brightness` and `Profile` are the branches of
  `psa_car_config_apply_downlink` that send 0x15B (all settings with a bit of
  their own are one); `Send` is the rest of the way through
  `psa_set_car_config` and `can_router_set_car_config`, with the failing
  `hal_can_send`. `Adopt260` and `Ignore260` are the two outcomes of
  `psa_decode_bsi_profiles_0x260_profile`. The BSI is free to accept a request or not.

* **AlertJournal.** `Take` is `psa_process_journal_0x120`: blocks of seven bytes
  under their own header, or a message of four segments. `RouteJournal`
  is what the router does with a complete list, the toasts of new alarms included
  (`ToastNews`), `RouteLive` what it does with
  the alarm of 0x1A1, whose decoder is `Decode`. Toast and alarm on display go out in one and
  the same frame, so that on the head unit they share one popup; `toast` and `over`
  remember which it was and what the car displayed when it came. `Query`, `Tick` and
  `NeedsList` share the pending query. The BSI settles what it reports with
  the first segment of a journal and may break one off to answer a query.

* **TripComputer, TripPages.** `screen` is the virtual MDF with its timers,
  `button` what `psa_trip_decode_frame` remembers. `PressSeen`, `HoldSeen` and
  `ReleaseSeen` are its branches; `Tick` is the 0x167 part of
  `psa_car_config_periodic_100ms`, where several frames of one tick
  carry the same reset bit and are one. `Resetting` with `ResetFrame` is
  `psa_trip_send_reset`. The BSI takes a reset bit it did not see before as a
  request. In `TripPages` the actions of the button are joined with the figures
  in the same frame 0x221: `Figures221` chains decoder and router. `Marked` is the
  telemetry frame writing into the copy that the pages are compared with.

* **BodyEvents.** `dec` is the memory of the decoders, `KeyAfter`, `TipAfter` and
  `ButtonAfter` their edges, `Synthesized` a pressure made up from the state of a
  tyre. `Route` is `can_router_process_can` for these parts: `TellKeys` to
  `TellRadar` in the order of its blocks, each with its own comparison; the
  `Send...` operators are the adapter's messages, with the conditions they have.
  `Syncs`, `Commands` and the tick are the climate demand.

* **RadioMedia.** `Frame165` to `Frame1E5` are the decoders (`Decoded225` and the
  like: the state decoded, before it is routed), `RouteRadio` to
  `RouteAudio` the blocks of the router with the flags they clear whether or not
  they send, `PushMedia` is `can_router_push_radio_and_media_state`, `Send...` the
  adapter, which copies what it sends (`cached`) and answers from the copy
  (`QueryResume`, `QueryTuner`, `QueryCd`). `Heard` is what `SourceArbiter` allows
  on a 0x165: which filter follows and whether a push goes with it.

## 3. Runs

| Run | Question | Result |
|---|---|---|
| `ring` | Is the lock-free ring a queue, with wrapping counters and live re-initialisation? | holds |
| `parked` | Does a truthful car power the head unit when key and knob say so, and otherwise only after an announcement, and does battery saving win? | holds |
| `arbiter` | Do head unit, driver and radio converge, and is nothing passing ever shown? | holds |
| `bootloader` | Can accidents of line, power and flash fake a success, undo an acknowledged record, drain the battery or lock the user out? | holds |
| `link` | Does the head unit's display heal after losses and restarts, and is the full burst kept for real faults? | holds |
| `config` | Do the settings of user, MDF and BSI stay together, whatever is refused or re-announced? | holds |
| `alerts` | Does the head unit list the alarms of the car, and pop up the one on display beside the toasts of the journal, whatever is lost, cut short, timed out or restarted? | holds |
| `trip` | Is a trip reset when and only when somebody asked, and do the pages follow the figures? | holds |
| `body` | Is what is sent on difference alone ever stuck or stale, also where two parts share a message, and does the climate demand stay neutral? | holds |
| `media` | Does the head unit show what the radio does, behind a filter that holds messages back? | holds |
| `fuel_lamp` | Is the fuel lamp lit only while a low fuel alert is active? | **violated** |
| `config_reverted` | Are user settings "never reverted" by the BSI's static status? | **violated** |

Properties worth naming:

* `ImplementsFifo`: every behaviour of the ring is one of `LossyFifo` under the
  mapping `queue <- Pending`. This covers tearing, duplication, reordering and
  unjustified refusals at once. `EventuallyDrained` adds progress.
* `HuPowerFollowsState` and `NoPhantomTrigger` relate the pins, driven from
  differences, to the state; they are about the memory of the change detection.
  `PowerHasCause`, `KeyPowersHu`, `KnobPowersHu`,
  `SilenceSleeps` are the same promises seen from the driver's seat. `PowerHasCause`
  knows two causes with the key off: the knob, pressed since the key was turned off, and
  (`announced`) a head unit that announced itself beside a playing radio, until
  the box hears the radio with the key on or it is switched off. The second is no
  wish of anybody, see the divergences below. Key on or off, there is no power while
  the battery is saved, in whatever order the frames of key, radio and economy came.
* `NoPassingSource` and `ShownWhenUnfiltered` together: the head unit's source
  changes only in sync, and in sync it is right. `EventuallyTruthful` closes
  the loop: once everybody is at rest and the radio is on, the head unit shows
  what plays.
* `ListNotForgotten`, `WaitKnowsItsPulse` are the arbiter's bookkeeping over its
  six exits.
* `SuccessMeansImage` and `AckedIsWritten` relate what the tool believes to what
  is in the flash, over sessions that broke off anywhere. Both are stated for a
  key that came through: it is under no checksum, and a damaged one makes the
  box write, verify and acknowledge garbage.
* `LeftAlone`: without a tool, the box ends up in the image it holds for valid,
  or without ACC. `EventuallyUpdated`: no accident makes the box unreachable for
  a user who keeps starting the tool and pulls the plug of a box that hangs; it
  rests on the rescue window, the only way past an image that looks valid.

* `FourBeatsHeal` holds wherever in the rotation the fault happened and whether
  or not a reboot was assumed in between. `BurstHasReason` is the other half: a punctual head unit never
  causes a profile reset. `EventuallyInSync` adds what is in no rotation (tyre
  pressures) and what the repetitions must not undo.

* `NoChoiceLost` covers the read-modify-write of whole status frames over any
  mix of refused requests and profile choices; `StaleOnlyAfterRefusal` ties the
  display to the cache. `EventuallyAdopted`: with an MDF the BSI has the last word.

* `ListIsCurrent` and `PopupFollows` relate the head unit to the box over messages
  sent on change only. `PopupFollows` allows a toast of the journal over the display, since
  the code sends it so, but no toast over an alarm that was displayed or changed
  after it, and nothing but a toast on a screen without alarm; `WholeJournalTaken` says that leftovers of broken transfers
  never spoil a journal of which every segment arrived, although nothing clears
  the set of blocks received. `EventuallyListed` closes the loop to the BSI.
* `NoUnaskedReset` counts requests against resets: a trip's figures are gone for
  good. `ResetArrives` is the other half, with up to two frames of the
  pulse lost. `PageAnnounced` makes a long press reset the trip that is on display.
  `PagesFollow` names exactly how far the instant page may lag, which is where the
  telemetry frame and the page turn meet in one copy. `EventuallyClosed`: the
  display closes and the reset bit goes back.
* `NoStuckKey` covers keys that overlap and share one place; `ShownIsCurrent` and
  `MeasuredStays` the copies and the latch of the tyres. Key and steering angle are two
  messages of one command, each with the other's bytes blank, while the router compares them
  apart; `ShownIsCurrent` says that of the two the head unit shows the one that
  changed last (`newest`, taken from the driver's side and not from the router's copy), the
  other at rest, and that a new reverse starts with the angle. `NoUnaskedClimate`: the
  demand that is repeated for ever is never one the box made up, given that 0x1E3
  comes more often than the demand (`StatusTicks < DemandTicks`).
* `NoGhostPlayback` follows the CD's "play" through every way of leaving the CD.
  `WholeTransfers` is about lists and texts assembled from frames.
  `TruthfulAtRest`: at rest, the radio settled and heard, the filter open, and neither
  the frames of station, volume and tone nor the resync changing a thing
  (`AtRest`), the display is right; so nothing held back, not believed or overtaken is
  forgotten. It stands for the liveness property, which TLC cannot check
  in useful time on these states; that frames and resync keep coming is
  what they do in the code, ten times a second and once a minute.

### Bounds

* `ring`: 2 slots, counters modulo 6, three elements. Full, empty, wrapped and
  unequally wrapped counters all occur; `Wrap` is a multiple of `Capacity`
  and larger, as 2^32 is of a power of two.
* `parked`: `SilenceTicks` 3 instead of 30. Frames have every content
  and every length at which a decoder behaves differently. Nothing else is
  bounded; the state is finite by itself.
* `arbiter`: three installed sources (with four, the CDC adds only steps), three
  retries instead of eight, 2 ticks for 650 and 800 ms, 1 for the settling window,
  at most two pulses under way (`MaxWire`; a pulse beyond that counts as lost) and three acts of driver and
  head unit (`MaxActs`). Three acts allow a request, a competing press and a
  pre-empting request, or a knob turned in between. The windows keep the order
  settle < confirm <= debounce of the code.
* `bootloader`: four slots in pages of two (128-byte records in pages of 512 bytes, 448
  slots in the code), an old image of four records, a new one of three, so that
  an update ends inside a page and old records remain behind it; two prompts
  instead of 300, two faults, three bytes in the tool's buffer. Two faults allow
  an accident in the attempt that repairs an earlier one.

* `link`: two car models; the unit of time is the heartbeat period, so a lost
  heartbeat exceeds the gap, a punctual one just does not; resync every two units
  and tyre refresh every unit instead of twenty and ten (their ratio is the
  code's); two faults (losses, restarts, re-selections), so that the recovery from
  one is hit by another.

* `config`: two settings, an MDF absent after two units instead of 3 s, four acts
  (settings, profile choices, handshakes, changes at the BSI); four allow a choice, a
  refusal, a handshake and a further choice. The low bits of byte 2 are kept in full.

* `alerts`: four alarm bits in four bytes, two of which report the same alarm, so that a
  journal spans every block; a list of two instead of ten, so that it brings two new alarms
  at once, whose order decides the toast, or overflows and lists an old alarm as
  new; two ticks of patience instead of five; three acts (alarms, losses,
  queries, restarts). Three allow a journal cut short by a query while an alarm
  changes, with a restart on top. Frames 0x1A1 are not counted among the acts. One alarm
  is displayed with details, the others without; low fuel is left to the run `fuel_lamp`.

* `trip`: a long press of one tick, a pulse of three as in the code, four ticks until
  the page closes and two between announcements; two frames lost, so that a
  pulse of three frames still arrives; three acts (presses, commands, handshakes,
  key, MDF, new figures). Three allow a reset, a page turn within its pulse, and a
  key turned off between.

* `body`: parts that share a message or a block of the router move together in one behaviour
  (`Scopes`), keys with reverse and steering since both go out as Cmd 0x11; the others go
  through separate blocks, decoders and messages. Four acts: in reverse a key pressed, the wheel turned
  and the key released. Three stalk keys with both volume keys allow
  the chord and a key beside it. `demand` ticks keep the order of the code (200 and 500 ms).

* `media`: three sources, transfers of three frames (up to ten in the code), three acts
  within the parts named in a scope; each scope joins parts that share state
  (source, filter, CD and head unit; station and list; list and text; and so on).
  The arbiter's filter closes and opens freely, so its timers need no bound here.

### Fairness

* `RingBuffer`: an interrupt that has begun ends, the loop keeps popping. No
  fairness for arrivals.
* `ParkedCar`: the car's frames and the 100 ms tick keep coming; neither driver
  nor head unit ever has to act.
* `SourceArbiter`: the main loop ticks (with and without the resync due), the
  radio broadcasts 0x165 and works off the pulses it received. Pulses may all be
  lost, and nobody has to press anything.
* `Bootloader`: the box and a tool once started go on, and the tool's timeouts
  expire. What the user does is no fairness of the specification: `Persistent` is
  the premise of `EventuallyUpdated`, and says that the user tries again and again, that a
  trigger now and then falls into the rescue window, and that a box that hangs is replugged.

* `HiworldLink`: time goes on, and a head unit that is up announces itself.
  Neither car nor user has to do anything; that the head unit stays up in the end
  is the premise of `EventuallyInSync`.

* `CarConfig`: BSI and MDF keep broadcasting. `EventuallyAdopted` has as its premise
  that the user's profile stays the active one and the MDF plugged in.

* `AlertJournal`: a BSI that talks goes on with its journal (`bsi.talks /\ Frame120`);
  whether it talks is chosen once. Queries, alarms and restarts need not happen.

* `TripPages`: time goes on (`PagesTick`). Nobody has to press or ask for anything, and
  frames may all be lost up to the bound.

* `BodyEvents` and `RadioMedia` state safety only.

Deadlock is checked in every run.

### What the violations show

* **The fuel lamp stays lit** (`psa_407_alerts.c:262`): the end of an alert clears its
  number before `profile_psa.c:230` asks whether it was the low fuel alert.

* **Settings reverted** (`profile_psa.c:356`): a handshake makes the box forget
  the user's settings, and the next 0x260 brings back the BSI's.

### Divergences and observations without a run

Power and links:

* Lights on before and after a bus sleep leave ILL low (`can_router.c:635`): the sleep
  writes the lines, the change detection is not told. REVERSE alike.
* A knob nobody pressed: `psa_init` on a command 0x24 makes the profile forget that the radio
  plays (`profile_psa.c:349`). In a parked car the next frame that derives the power state
  then has a rising edge, and the head unit stays powered as long as the radio plays.
  `profile_psa.c:166` says of that edge "User explicitly pushed RD4 power knob while key is
  OFF". With the key on the first such frame takes the radio for known, so
  that only an announcement just before the key is turned off has the same effect.
* The fourth heartbeat answered while the bus sleeps blanks the source until the
  60 s resync (`can_router.c:608`).

Source arbiter:

* Asked for the source that plays, within the settling time after a switch, the box
  pulses away from it (`psa_source_arbiter.c:243`); the routing document says the
  request concludes at once.
* The header speaks of "waiting up to 650 ms" where a radio that is present but
  off keeps a switch waiting without limit (`psa_source_arbiter.c:428`); rule F2 of
  the routing document gives 5 retries and 350 ms, the code 8 and 650; the retry
  counter is not reset when a switch is pre-empted; rule F1 forbids any 0x84 during
  a switch, yet the full push of a handshake is not filtered (`can_router.c:558`).

Radio and CD:

* A CD state that arrives while the radio is muted is sent, since that block of the
  router checks the filter only (`can_router.c:500`): "playing" can stay beside another source
  until the next CD state. Answers about the CD before any report of it (0x0F, 0x11, 0x12), or of a
  changer before the first 0x165, are alike. `NoGhostPlayback` excepts both.
* The CD changer is source 0x31, while the router shows CD states for 0x20 and 0x30 only.
* Leaving the CD writes "pause" over "eject"; a handshake forgets that no disc is in.
* Beside a factory display a transfer whose first frame the box missed goes on, and can
  tear the list of an earlier one.
* An empty text is never sent, and the RDS text indicator outlives a new frequency
  by one 0x225.
* With the radio switched off while a tone menu is open the menu is repeated at 1 Hz,
  since 0x1E5 is ignored then.

Keys, tyres and climate:

* Steering straightened, key released: a key frame in reverse makes the angle on
  the head unit zero until the wheel is turned (`proto_hiworld_adapter.c:203`), and an angle frame
  releases a held key (282), since both are Cmd 0x11. `doc/CANBOX_SPEC_HIWORLD_407_05_STEERING_ANGLE_SAS.md`
  has bytes 6 and 7 of that frame be the angle (20) and byte 2 the key, 0 "when idle" (58). What
  holds nevertheless is in `ShownIsCurrent` and `NoStuckKey`.
* A key shown over a handshake stays on display until a further key is pressed and
  released.
* `doc/CANBOX_SPEC_HIWORLD_407_01_STEERING_STALK_KEYS.md:49` asks for a debounce of about 80 ms
  around the mute chord; the code has none, so the second volume key may follow the
  first as a step of the volume.
* `doc/CANBOX_SPEC_HIWORLD_407_03_TPMS_TIRE_PRESSURE.md:61` has the latch of the tyre pressures
  hold once set; in the code a handshake resets it, and pressures made up from
  0x1E1 show until the next measured ones.
* A handshake makes a factory display count as absent until it is heard again, and a climate
  command before the next 0x1E3 rides on defaults.

Alerts and trips:

* Blocks received are never cleared: after the first journal each single block
  makes a list, mixed from two journals until the last block. The ISO-TP form has
  no timeout.
* An alarm new in the journal pops up as a toast (`can_router.c:367`); when it leaves the journal only the
  list is sent (383), and the toast stays until an alarm is displayed, changes or, by
  its number, is dismissed. `doc/CANBOX_SPEC_HIWORLD_407_12_ALERTS_DIAGNOSTICS.md:308` has a
  dismissal frame sent "When an alert clears"; that is so for the alarm of 0x1A1 only.
* A toast covers the alarm the car displays, with its door or tyre, until that changes. With
  more alarms than the list holds (10), an old one that moves up into it pops up as new.
* With the key off a reset pulse freezes with its bit set, and goes on
  when the key returns.
* After a page turn the consumption on the instant page can be stale until it
  changes, since telemetry marks it as sent.

Settings and bootloader:

* Brightness and follow-me-home delay share bits of byte 2 (`psa_407_car_config.c:232`,
  245), so that setting one changes the other.
* An update that breaks off after its first words leaves a partial image that the
  vector check accepts (`hiworld_iap_nuc131.c:381`), where
  `BOOTLOADER_REPLACEMENT.md` has the box stay in the bootloader; it gives a listen window of
  500 ms and a prompt a second (50 and 100 ms in the code, 221, 250) and says that the
  box never halts, where the code lets go of ACC after 300 prompts; `jump_to_app`
  leaves out the range check of the reset vector that `iap_run` makes (392).

## 4. Proofs

`tlapm` proves, for every value of the constants that satisfies the named
assumptions:

| Module | Theorems | Inductive invariant |
|---|---|---|
| `LowLevelProofs`, ring | `TypeCorrect`, `CountBounded`, `RaceFree`, `RingImplementsFifo` | the counters a side has read are the counters it owns (`pHead = head` while pushing, `cTail = tail` while popping), the distance is at most `Capacity`, and while a push is under way strictly less; `ResetInv` says that during a re-initialisation the ring holds only what was pushed since; `HeldInv` adds, for the refinement, that the slot at the head holds what is about to be published and the one at the tail what was copied out |
| `LowLevelProofs`, bootloader | `UpdateTypeCorrect`, `AckedStaysWritten`, `SuccessIsImage` | `BootInv`: a request of the tool, the work on it and its answer never coexist (`OneRequest`, and for the two steps before it `TriggerInv`, `UnlockInv`), what was acknowledged is written while the session lasts (`WrittenInv`), only the first record of a page erases (`EraseInv`), the end comes after the last record (`DoneInv`) |
| `RouterPowerProofs` | `TypeCorrect`, `PowerFollowsState`, `EconomyWins`, `PowerNeedsRadio`, `TriggersHonest`, `SleepIsDark` | the pins are what the remembered state says, or low where sleep has forced them; the manual ACC implies a radio that is on |
| `RouterPowerProofs`, in the car | `ParkedIsRouter`, `ParkedPowerHasCause` | `CauseInv`: of a radio it knows to play the profile remembers so, unless a head unit made it forget (`announced`); a radio playing with the key off that neither knob nor announcement accounts for is known to the box and does not power the head unit; a manual ACC has no ignition |
| `HeadUnitProofs`, link | `TypeCorrect`, `BurstsHaveReasons`, `RotationHeals`, `FourBeatsSuffice`, `RebootsHeal` | `RecentFresh` and `InTouchAtWork`, see below |
| `HeadUnitProofs`, media | `MediaTypeCorrect`, `NoGhostShown`, `TransfersAreWhole`, `TruthfulWhenAtRest` | `MediaInv`: `Honest` (the adapter's copies are what is on display; a CD shown playing is one the router remembers as the source reported last, and then the head unit shows the CD or a muted radio; the volume shown is the one sent last), `Settled` (with the filter open the source reported last is the radio's, unless it is muted) and `TransferInv` (what a receive context holds is of the transfer on the wire) |
| `CarConfigProofs` | `TypeCorrect`, `ChoicesKept`, `DisplayFollowsCache` | inductive as they stand, given the types; that decoding twice is decoding once carries the display |
| `SourceArbiterProofs` | `TypeCorrect`, `DeferredListKept`, `SwitchKnowsItsPulse`, `ShownIsTrue`, `NoPassingSourceShown` | `Sound` (the arbiter record: a switch has a target, tries left and the source it pulsed from; in sync nothing is deferred) and `TruthInv` (a source decoded is the one the arbiter heard; with the filter lifted the change detection has nothing left to tell; the head unit shows what it remembers, or was blanked) |
| `AlertJournalProofs` | `TypeCorrect`, `ListFollows`, `PopupIsDisplay`, `WholeJournalsCount` | `ScanInv` (what the next list is compared with is the list), `LiveInv` (what was told last is the display whenever it is lit) and `TpInv` (of a journal no segment was missed of, the transfer holds what the BSI reports so far and waits for its next segment) |
| `TripProofs` | `BoxInvariant`, `TypeCorrect`, `NoTripResetUnasked`, `PageIsAnnounced`, `ResetsArrive`, `PagesKeepUp` | `Credit` (a reset bit the BSI has not seen is covered by a request), `DueInv` (while a reset is due, every frame of its pulse so far was lost) and `CopyInv` (the copy is exact for the trips, and for the instant page until the button turns it) |
| `BodyEventsProofs` | `TypeCorrect`, `TellsAll`, `KeysReleased`, `MeasuredWins`, `ClimateAsAsked` | `RouterInv` (the copy compared with is the present state, and what the head unit was told: tyres once they are known, the angle while reversing, and of key and angle the one that changed last), `KeyInv` and `PanelInv` (what is on display a decoder holds), `TyreInv`, `ClimInv` (a demand the box learned is what is wanted or what is) and `CountInv` (before that the count of the demand is no older than the last status, so the demand is not due) |

The properties are not inductive as they stand. `NoSlotRace`, for one, needs
that the producer's stale copy of `tail` is only ever too old, which makes it
see a fuller ring than there is; `ShownWhenUnfiltered` needs to know that no
handler lifts the filter without a push, and that a repeated source does not
lift it either (`NoQuietLift`, `HearSame`). `NoGhostPlayback` needs the adapter's copies,
from which a query is answered long after the state has moved on. The assumptions are those the code
makes: a capacity that divides the word size (`ring_buffer_init` insists on a
power of two), positive limits, at least one installed source, a head unit that announces
itself no later than the gap. `ResetsArrive` has one of its own, that fewer frames are
lost than a pulse of the reset bit has. `ParkedPowerHasCause`
has none: the announcements are in the model and in the invariant.

The refinement `RingImplementsFifo` maps the queue to the slots between the counters. Each
step of the ring is a step of `LossyFifo` or a stutter: the publication is the entry, the
advance of the tail the exit, a refusal a refusal, and the first store of a re-initialisation
empties what the queue holds. `ParkedIsRouter` is of the same kind: the box in the car
behaves as `RouterPower` does, so that everything proved of arbitrary frames holds there.

`TruthfulWhenAtRest` rests on two kinds of facts. What no frame and no resync changes is what
they would make of it: if the resync changes nothing, the display equals what the
resync sends, and if a frame changes nothing, the copy equals what the frame says (`SendMediaShows`,
`Decoded225Facts` and its like). The volume, which a resync leaves out while the
volume or a menu is on display, takes the invariant: what was sent last is shown.

`HeadUnitProofs`, `LowLevelProofs` and `RouterPowerProofs` each have the theorems of two modules that are
neighbours in the system; the sections of the proofs do not depend on each other, but for
`ParkedCar`, which builds on `RouterPower`.

Proved and not checked by a run of their own: the type invariants, `BoundedCount` of the
ring, `EconomyCutsPower`, `AccNeedsRadio` and `AsleepMeansDark` of `RouterPower`,
`ParkedIsRouter`, and `RebootHeals` (the burst alone is as good as four beats).

Model-checked only: the liveness properties, `LeftAlone` of the bootloader among them.
TLAPS has no say about liveness under fairness. Every safety invariant and action property that a
passing run checks is the statement of a theorem.

In `HeadUnitProofs` the four beats rest on `RecentFresh`: the topics of the
last `clean` quarters of the rotation are fresh, wherever it stands; a burst
makes that true of all of them, a loss sets `clean` to zero. The bursts rest on
`InTouch`: without a fault the link counts its silence no longer than the head
unit does. Both hold for any timing with `LateUnits <= GapUnits`.

Modules with theorems contain no `CASE` expression: tlapm 1.4.5 with its SMT
backend accepts the equality of any two of them.

## 5. Not modelled

* **Raise and Bagoo links.** Other wire formats for the same router operations,
  chosen by build or board: stateless builders and byte parsers. The models
  follow the Hiworld adapter, the default. The byte parsers of all three links,
  with Hiworld's two in tandem, are left out with them: what they do is a walk over
  bytes, and every model above starts from whole commands.
* **Builders** (`hiworld_psa_builders.c`, `raise_psa_builders.c`): stateless, covered by
  unit tests, and for the most part not called by the Hiworld adapter, which
  serialises the state itself. Older decoders that only tests call (0x1A0, 0x396
  and their kind) have no place in the firmware's behaviour.
* **Arithmetic of the decoders**: speeds, temperatures, fuel, scaling. Where a value decides
  something (a pressure made up, a volume of zero) it is in the model.
* **Menu mask 0x361** and the constant contents of 0x0DF, 0x525 and 0x3F6.
* **HAL, board and clocks**: registers, GPIO, bus-off, the ESP32 and Linux drivers, and the
  race between the decision to sleep and a frame in flight, which lies in the
  interrupt controller. Handlers that block in `hal_delay_ms` make the ring overflow;
  the models let frames be lost without counting milliseconds.
* **Start-up assembly and vendor data.**

Assumptions of the models about their surroundings: the radio names its source
(ten times a second) before the driver's next press, and the bus falls silent only
after the radio was reported off (`RadioMedia`); a head unit has no power while the box sleeps;
a tyre system that measures pressures does not stop (`BodyEvents`); 0x221 comes
more often than a finger moves (`TripComputer`).
