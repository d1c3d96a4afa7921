--------------------------- MODULE SourceArbiter ---------------------------
(***************************************************************************)
(* profiles/psa_source_arbiter.c between the head unit, which asks for an  *)
(* audio source, and the factory radio (RD4), whose only control is the    *)
(* SOURCE key of the stalk: one pulse on CAN 0x21F steps it to its next    *)
(* source.  The arbiter pulses until 0x165 confirms the target, waits out  *)
(* the driver's own key presses, and keeps intermediate sources from the   *)
(* head unit (the 0x84 filter of core/can_router.c).                       *)
(*                                                                         *)
(* Time advances in ticks of 100 ms.  hal_delay_ms inside a handler is not *)
(* modelled; pulses may be lost (the result of hal_can_send is ignored)    *)
(* and are executed by the radio in its own time.                          *)
(***************************************************************************)
EXTENDS Naturals

CONSTANTS Installed,     \* the sources this radio steps through
          MaxRetries,    \* PSA_RD4_MAX_SWITCH_RETRIES (8)
          ConfirmTicks,  \* PSA_RD4_WAIT_CONFIRM_TIMEOUT_MS (650 ms: 7)
          DebounceTicks, \* settling of the driver's presses (800 ms: 8)
          SettleTicks,   \* PSA_RD4_POST_TARGET_SETTLE_MS (400 ms: 4)
          MaxWire,       \* bound: key pulses the radio has not executed yet
          MaxActs        \* bound: acts of driver and head unit

Sources == {"TUNER", "CD", "CDC", "AUX"}
Wishes == {"TUNER", "CD", "AUX"}      \* what command 0xAD can ask for
None == "none"                        \* PSA_RD4_SRC 0: off, or between two sources

ASSUME ArbiterAssumption ==
  /\ Installed \subseteq Sources /\ Installed # {}
  /\ MaxRetries \in Nat \ {0}
  /\ ConfirmTicks \in Nat \ {0} /\ DebounceTicks \in Nat \ {0} /\ SettleTicks \in Nat
  /\ MaxWire \in Nat \ {0} /\ MaxActs \in Nat

VARIABLES arb,       \* s_arbiter, and the age of its timers in ticks
          radio,     \* s_current_state.media.radio as last decoded
          sent,      \* s_last_sent_state.media.radio
          shown,     \* the source the head unit was told last
          asleep,    \* can_router_is_bus_sleeping
          rd4,       \* the radio itself
          wire,      \* key pulses on their way to it
          acts       \* acts so far

box == <<arb, radio, sent, shown, asleep>>
vars == <<box, rd4, wire, acts>>

MaxTicks == IF ConfirmTicks > DebounceTicks THEN ConfirmTicks ELSE DebounceTicks

-----------------------------------------------------------------------------
(* The radio's cycle over its installed sources.                           *)
Order == <<"TUNER", "CD", "CDC", "AUX">>
Position(s) == CHOOSE i \in 1 .. 4 : Order[i] = s
NextSource(s) ==
  LET step(k) == Order[((Position(s) - 1 + k) % 4) + 1]
      k == CHOOSE n \in 1 .. 4 : step(n) \in Installed /\ \A m \in 1 .. n - 1 : step(m) \notin Installed
  IN  step(k)

-----------------------------------------------------------------------------
(* What a handler does to the arbiter a, and whether it pulses the key or  *)
(* pushes the radio state (0x84) on its way.                               *)
Quietly(a) == [arb |-> a, pulse |-> FALSE, push |-> FALSE]
Pulsing(a) == [arb |-> a, pulse |-> TRUE, push |-> FALSE]
Pushing(a) == [arb |-> a, pulse |-> FALSE, push |-> TRUE]

(* Mutant: the deferred request survives.                                  *)
IdleKeepsList(a, s) == [a EXCEPT !.sync = "IDLE", !.reported = s, !.target = None]

(* The episode ends on source s; every such exit takes up a deferred       *)
(* station-list request.                                                   *)
Idle(a, s) ==
  [a EXCEPT !.sync = "IDLE", !.reported = s, !.target = None, !.pendingList = FALSE]

(* Mutant: it forgets where it pulsed from.                                *)
RetryForgets(a) ==
  IF a.retry + 1 >= MaxRetries
  THEN Pushing([Idle(a, a.actual) EXCEPT !.retry = a.retry + 1])
  ELSE Pulsing([a EXCEPT !.retry = a.retry + 1, !.age = 0])

(* One more step towards the target, or the end of the retries.            *)
Retry(a) ==
  IF a.retry + 1 >= MaxRetries
  THEN Pushing([Idle(a, a.actual) EXCEPT !.retry = a.retry + 1])
  ELSE Pulsing([a EXCEPT !.retry = a.retry + 1, !.lastPulse = a.actual, !.age = 0])

-----------------------------------------------------------------------------
(* psa_source_arbiter_process_can_0x165: the radio is off or between two   *)
(* sources.                                                                *)
HearOff(a) ==
  LET b == [a EXCEPT !.actual = None, !.pendingList = FALSE, !.override = FALSE, !.settle = 0]
  IN  IF a.sync = "WAIT_CONFIRM"
      THEN Quietly([b EXCEPT !.lastPulse = None, !.age = 0])
      ELSE Quietly([b EXCEPT !.sync = "IDLE", !.target = None, !.retry = 0, !.reported = None])

(* In sync so far: another source than the reported one is the driver's,   *)
(* unless the target was reached only just now.                            *)
HearIdle(a, s) ==
  IF s = a.reported \/ a.settle > 0
  THEN Quietly([a EXCEPT !.actual = s])
  ELSE Quietly([a EXCEPT !.actual = s, !.sync = "DEBOUNCE", !.age = 0, !.override = (s # "AUX")])

HearDebounce(a, s) ==
  Quietly([a EXCEPT !.actual = s, !.age = IF s # a.actual THEN 0 ELSE @, !.override = (s # "AUX")])

HearWait(a, s) ==
  LET b == [a EXCEPT !.actual = s]
  IN  IF s = a.lastPulse THEN Quietly(b)
      ELSE IF s = a.target
      THEN Pushing([Idle(b, s) EXCEPT !.retry = 0, !.settle = SettleTicks])
      ELSE IF a.retry + 1 >= MaxRetries
      THEN Pushing([Retry(b).arb EXCEPT !.settle = 0])
      ELSE Retry(b)

Hear(a, s) ==
  IF s = None THEN HearOff(a)
  ELSE IF a.reported = None /\ a.sync = "IDLE"
  THEN Quietly([a EXCEPT !.actual = s, !.reported = s, !.settle = 0, !.pendingList = FALSE])
  ELSE IF a.sync = "IDLE" THEN HearIdle(a, s)
  ELSE IF a.sync = "DEBOUNCE" THEN HearDebounce(a, s)
  ELSE HearWait(a, s)

(* psa_source_arbiter_switch_source                                        *)
StartSwitch(a, t) ==
  LET b == [a EXCEPT !.target = t, !.retry = 0, !.lastPulse = a.actual, !.age = 0]
  IN  IF radio.present
      THEN Pulsing([b EXCEPT !.sync = "WAIT_CONFIRM"])
      ELSE [arb |-> [b EXCEPT !.sync = "IDLE", !.reported = t, !.pendingList = FALSE],
            pulse |-> TRUE, push |-> TRUE]

SwitchSource(a, t) ==
  IF a.actual = t /\ a.reported = t THEN Pushing(Idle(a, t))
  ELSE IF a.sync # "IDLE" /\ a.actual = t THEN Pushing([Idle(a, t) EXCEPT !.retry = 0])
  ELSE IF a.sync = "WAIT_CONFIRM" THEN Quietly([a EXCEPT !.target = t])
  ELSE StartSwitch(a, t)

(* Mutant: the settled source is not pushed.                               *)
CheckTimersSilent(a) ==
  IF a.sync = "DEBOUNCE" /\ a.age >= DebounceTicks
  THEN Quietly([Idle(a, a.actual) EXCEPT !.target = a.target])
  ELSE IF a.sync = "WAIT_CONFIRM" /\ a.age >= ConfirmTicks
  THEN IF radio.present /\ a.actual = None THEN Quietly([a EXCEPT !.age = 0]) ELSE Retry(a)
  ELSE Quietly(a)

(* psa_source_arbiter_tick_100ms, once the timers have moved.              *)
CheckTimers(a) ==
  IF a.sync = "DEBOUNCE" /\ a.age >= DebounceTicks
  THEN Pushing([Idle(a, a.actual) EXCEPT !.target = a.target])
  ELSE IF a.sync = "WAIT_CONFIRM" /\ a.age >= ConfirmTicks
  THEN IF radio.present /\ a.actual = None THEN Quietly([a EXCEPT !.age = 0]) ELSE Retry(a)
  ELSE Quietly(a)

(* Mutant: open while the driver is still choosing.                        *)
FilteredOnlyWaiting(a) == a.sync = "WAIT_CONFIRM"

(* psa_source_arbiter_is_source_filtered                                   *)
Filtered(a) == a.sync # "IDLE" \/ (a.reported # None /\ a.actual # a.reported)

-----------------------------------------------------------------------------
Init ==
  /\ arb = [sync |-> "IDLE", actual |-> None, reported |-> None, target |-> None,
            lastPulse |-> None, retry |-> 0, age |-> 0, settle |-> 0,
            pendingList |-> FALSE, override |-> FALSE]
  /\ radio = [present |-> FALSE, source |-> None]
  /\ sent = radio
  /\ shown = None
  /\ asleep = FALSE
  /\ rd4 \in [on : BOOLEAN, source : Installed, changing : {FALSE}]
  /\ wire = 0
  /\ acts = 0

(* A pulse is not sent while the bus sleeps, and may be lost.              *)
SendPulse(pulse) ==
  wire' \in IF pulse /\ ~asleep THEN {wire, IF wire < MaxWire THEN wire + 1 ELSE wire}
            ELSE {wire}

(* can_router_push_radio_and_media_state, with no radio on the bus yet the *)
(* AUX the head unit asked for.                                            *)
PushRadio(a, r) ==
  IF ~r.present /\ a.reported = "AUX" THEN shown' = "AUX" /\ sent' = sent
  ELSE shown' = r.source /\ sent' = r

NoPush == UNCHANGED <<shown, sent>>

(* The periodic repetitions of 0x84, which the change detection does not   *)
(* remember: the 60 s resync, which a radio that is off does not get, and  *)
(* the head unit's fourth heartbeat.                                       *)
Repeat(a) == shown' = (IF Filtered(a) THEN shown ELSE radio.source) /\ sent' = sent
Resync(a) == IF radio.source = None THEN Repeat(a) \/ NoPush ELSE Repeat(a)

Handle(result) ==
  /\ arb' = result.arb
  /\ SendPulse(result.pulse)
  /\ IF result.push THEN PushRadio(result.arb, radio) ELSE NoPush

(* CAN 0x165: decoded, arbitrated, and pushed on change unless filtered or *)
(* muted.  Between two sources the radio is muted and the decoder keeps    *)
(* the old one, or the frame names none.                                   *)
Hears(s, mute) ==
  LET r == [present |-> TRUE, source |-> s]
      result == Hear(arb, s)
  IN  /\ radio' = r
      /\ asleep' = FALSE
      /\ arb' = result.arb
      /\ SendPulse(result.pulse)
      /\ IF result.push \/ (r # sent /\ ~mute /\ ~Filtered(result.arb))
         THEN PushRadio(result.arb, r) ELSE NoPush
      /\ UNCHANGED <<rd4, acts>>

Frame165 ==
  \/ ~rd4.on /\ Hears(None, FALSE)
  \/ rd4.on /\ ~rd4.changing /\ Hears(rd4.source, FALSE)
  \/ rd4.on /\ rd4.changing /\ (Hears(None, FALSE) \/ Hears(radio.source, TRUE))

(* Mutant: the window after a reached target never closes.                 *)
AgedForever(a) == [a EXCEPT !.age = IF @ < MaxTicks THEN @ + 1 ELSE @]

Aged(a) ==
  [a EXCEPT !.age = IF @ < MaxTicks THEN @ + 1 ELSE @,
            !.settle = IF @ > 0 THEN @ - 1 ELSE 0]

(* The arbiter's part of can_router_periodic_100ms, and once in 600 calls  *)
(* the resync (a push just made is only repeated by it).                   *)
Tick(due) ==
  LET result == CheckTimers(Aged(arb))
  IN  /\ ~asleep
      /\ IF due /\ ~result.push
         THEN arb' = result.arb /\ SendPulse(result.pulse) /\ Resync(result.arb)
         ELSE Handle(result)
      /\ UNCHANGED <<radio, asleep, rd4, acts>>

(* The silence watchdog of can_router_periodic_100ms (RouterPower); the    *)
(* radio is off then and the arbiter is not told.                          *)
FallAsleep ==
  /\ ~rd4.on /\ ~asleep
  /\ asleep' = TRUE
  /\ radio' = [radio EXCEPT !.source = None]
  /\ UNCHANGED <<arb, sent, shown, rd4, wire, acts>>

(* Any other frame, or the ignition line, wakes the box.                   *)
Wake ==
  /\ asleep
  /\ asleep' = FALSE
  /\ UNCHANGED <<arb, radio, sent, shown, rd4, wire, acts>>

-----------------------------------------------------------------------------
(* The head unit: command 0xAD (02 audio start and stop, 03 switch), 0x0F  *)
(* (station list), 0xF1 type 09 (a SOURCE pulse of its own), 0x24.         *)
Act == acts < MaxActs /\ acts' = acts + 1

HuCommand(result) ==
  /\ Act
  /\ Handle(result)
  /\ UNCHANGED <<radio, asleep, rd4>>

AudioStart ==
  /\ ~arb.override /\ arb.sync # "DEBOUNCE"
  /\ HuCommand(SwitchSource(arb, "AUX"))
AudioStop == HuCommand(Quietly([arb EXCEPT !.override = FALSE]))
Select(t) == HuCommand(SwitchSource([arb EXCEPT !.override = FALSE], t))
QueryStations == arb.sync # "IDLE" /\ HuCommand(Quietly([arb EXCEPT !.pendingList = TRUE]))

BandCycle ==
  /\ ~asleep /\ Act
  /\ SendPulse(TRUE)
  /\ UNCHANGED <<box, rd4>>

(* can_router_trigger_full_state_push on a handshake: no filter.           *)
Announce ==
  /\ Act
  /\ PushRadio(arb, radio)
  /\ UNCHANGED <<arb, radio, asleep, rd4, wire>>

(* Every fourth 0x24 of a head unit already known.                         *)
Heartbeat ==
  /\ Repeat(arb)
  /\ UNCHANGED <<arb, radio, asleep, rd4, wire, acts>>

-----------------------------------------------------------------------------
(* The radio and the driver's keys.                                        *)
StepSource == [rd4 EXCEPT !.source = NextSource(@), !.changing = TRUE]

ExecutePulse ==
  /\ wire > 0 /\ ~rd4.changing
  /\ wire' = wire - 1
  /\ rd4' = IF rd4.on THEN StepSource ELSE rd4
  /\ UNCHANGED <<box, acts>>

FinishChange ==
  /\ rd4.changing
  /\ rd4' = [rd4 EXCEPT !.changing = FALSE]
  /\ UNCHANGED <<box, wire, acts>>

DriverPress ==
  /\ Act
  /\ rd4.on /\ ~rd4.changing
  /\ rd4' = StepSource
  /\ UNCHANGED <<box, wire>>

PowerKnob ==
  /\ Act
  /\ rd4' = [rd4 EXCEPT !.on = ~@, !.changing = FALSE]
  /\ UNCHANGED <<box, wire>>

Next ==
  \/ Frame165 \/ (\E due \in BOOLEAN : Tick(due)) \/ FallAsleep \/ Wake
  \/ AudioStart \/ AudioStop \/ (\E t \in Wishes : Select(t)) \/ QueryStations
  \/ BandCycle \/ Announce \/ Heartbeat
  \/ ExecutePulse \/ FinishChange \/ DriverPress \/ PowerKnob

(* The main loop ticks, every 600th time with a resync, and the radio      *)
(* broadcasts 0x165 and works off its keys; driver and head unit owe       *)
(* nothing.                                                                *)
Fairness ==
  /\ WF_vars(Frame165) /\ WF_vars(ExecutePulse) /\ WF_vars(FinishChange)
  /\ \A due \in BOOLEAN : WF_vars(Tick(due))
Spec == Init /\ [][Next]_vars
FairSpec == Spec /\ Fairness

-----------------------------------------------------------------------------
Arbiter ==
  [sync : {"IDLE", "WAIT_CONFIRM", "DEBOUNCE"},
   actual : Sources \cup {None}, reported : Sources \cup {None},
   target : Wishes \cup {None}, lastPulse : Sources \cup {None},
   retry : 0 .. MaxRetries, age : 0 .. MaxTicks, settle : 0 .. SettleTicks,
   pendingList : BOOLEAN, override : BOOLEAN]

TypeOK ==
  /\ arb \in Arbiter
  /\ radio \in [present : BOOLEAN, source : Sources \cup {None}]
  /\ sent \in [present : BOOLEAN, source : Sources \cup {None}]
  /\ shown \in Sources \cup {None}
  /\ asleep \in BOOLEAN
  /\ rd4 \in [on : BOOLEAN, source : Installed, changing : BOOLEAN]
  /\ wire \in 0 .. MaxWire /\ acts \in 0 .. MaxActs

(* A station list deferred behind a switch is taken up or dropped at every *)
(* way out of it (confirmed, given up, preempted, debounced, radio off):   *)
(* in sync nothing is left pending, for nothing would ever look at it.     *)
ListNotForgotten == arb.pendingList => arb.sync # "IDLE"

(* While a switch is under way the arbiter remembers the source it last    *)
(* heard as the one it pulsed from, so a repeated 0x165 never counts as    *)
(* the answer to a pulse, and it still has a target to reach.              *)
WaitKnowsItsPulse ==
  arb.sync = "WAIT_CONFIRM" => arb.lastPulse = arb.actual /\ arb.target # None

(* No source the box only passes through reaches the head unit: except for *)
(* the push of a new handshake, 0x84 changes only once the arbiter is back *)
(* in sync.                                                                *)
NoPassingSource == [][shown' # shown => arb'.sync = "IDLE" \/ Announce]_vars

(* With the filter lifted the head unit never shows a wrong source: it     *)
(* shows the one the radio last reported, whichever of the six ways out of *)
(* a switch was taken, or none, if it was told so while the bus slept.     *)
ShownWhenUnfiltered ==
  (~Filtered(arb) /\ radio.source # None) => shown \in {radio.source, None}

(* Driver and head unit at rest and the radio on: the head unit ends up    *)
(* showing the source that plays, however many pulses were lost or late.   *)
EventuallyTruthful == <>[](rd4.on) => <>[](shown = rd4.source)
=============================================================================
