---------------------------- MODULE HiworldLink ----------------------------
(***************************************************************************)
(* What the head unit displays against what the router knows, over the     *)
(* Hiworld link.  Frames to the head unit are never acknowledged; a lost   *)
(* one is made good by repetition only:                                    *)
(*   - the head unit announces its car model (command 0x24) every 3 s.     *)
(*     hiworld_connection.c answers the first one, one with another model  *)
(*     and one after a long silence with everything it has, any other one  *)
(*     with the next quarter of a rotation;                                *)
(*   - the router repeats some topics on timers (core/can_router.c).       *)
(* A topic is stale when the head unit does not show what the router       *)
(* knows.  Radio and CD belong to SourceArbiter, which decides when they   *)
(* may be shown at all; alerts have a query of their own; telemetry runs   *)
(* at 5 Hz; trip pages are sent on change only.                            *)
(***************************************************************************)
EXTENDS Naturals

CONSTANTS Models,        \* the car models the head unit can be set to
          BeatUnits,     \* the head unit announces itself this often (3 s)
          LateUnits,     \* and never later than this (at most 4500 ms)
          GapUnits,      \* a longer silence means it rebooted (4500 ms)
          ResyncUnits,   \* bulk resync (60 s; smaller in the runs)
          TpmsUnits,     \* tyre refresh (30 s; smaller in the runs)
          MaxFaults      \* bound: reboots, new selections, losses

ASSUME LinkAssumption ==
  /\ Models # {} /\ 0 \notin Models
  /\ BeatUnits \in Nat \ {0} /\ LateUnits \in Nat /\ GapUnits \in Nat
  /\ BeatUnits <= LateUnits
  /\ ResyncUnits \in Nat \ {0} /\ TpmsUnits \in Nat \ {0}
  /\ MaxFaults \in Nat

(* A head unit that is never later than the gap is not taken for rebooted. *)
ASSUME PunctualAssumption == LateUnits <= GapUnits

Topics == {"discovery", "settings", "climate", "doors", "audio", "tpms"}
Unheard == {"audio", "tpms"}   \* sent only once the car has reported them
NoModel == 0
AudioModes == {"idle", "volume", "menu"}

VARIABLES link,       \* hiworld_connection_ctx_t and s_024_rr_step
          car,        \* of s_current_state: what the pushes depend on
          timer,      \* bulk resync and tyre refresh
          hu,         \* the head unit
          stale,      \* topics it does not show as the router knows them
          faults,     \* faults so far
          clean,      \* announcements answered since the last fault (at most 4)
          excuse      \* a fault since the last answered announcement

linkVars == <<link, car, timer>>
vars == <<linkVars, hu, stale, faults, clean, excuse>>

Known == (Topics \ Unheard) \cup car.heard

Init ==
  /\ link = [active |-> FALSE, model |-> NoModel, silence |-> 0, rr |-> 0]
  /\ car = [heard |-> {}, open |-> FALSE, audio |-> "idle", asleep |-> FALSE]
  /\ timer = [resync |-> 0, tpms |-> 0]
  /\ hu \in [up : {FALSE}, beat : {BeatUnits}, want : Models]
  /\ stale = Topics \ Unheard
  /\ faults = 0 /\ clean = 0 /\ excuse = TRUE

-----------------------------------------------------------------------------
(* Pushing the topics sent while the router knows those of known: a head   *)
(* unit that listens shows them, except the lost ones.                     *)
Displayed(sent, lost) == IF hu.up THEN (stale \ sent) \cup lost ELSE stale \cup sent

Losses(sent) == IF hu.up /\ faults < MaxFaults THEN SUBSET sent ELSE {{}}

Push(sent, lost) ==
  /\ stale' = Displayed(sent, lost)
  /\ faults' = IF lost = {} THEN faults ELSE faults + 1

(* The announcement was answered; so far nothing of the answer was lost.   *)
Counted(lost) ==
  /\ clean' = IF lost # {} THEN 0 ELSE IF clean < 4 THEN clean + 1 ELSE 4
  /\ excuse' = FALSE

-----------------------------------------------------------------------------
(* Mutant: a heartbeat that is only just in time counts as a reboot.       *)
RebootAssumedEarly(m) ==
  \/ ~link.active
  \/ link.model # m
  \/ link.silence >= GapUnits

(* handle_parsed_command, 0x24: which answer it gets.                      *)
RebootAssumed(m) ==
  \/ ~link.active
  \/ link.model # m
  \/ link.silence > GapUnits

(* Case A: discovery, then can_router_trigger_full_state_push.             *)
FullPush == Known \cap {"discovery", "settings", "climate", "doors", "audio"}

AnswerReboot(m) ==
  /\ RebootAssumed(m)
  /\ link' = [active |-> TRUE, model |-> m, silence |-> 0, rr |-> 0]
  /\ timer' = [timer EXCEPT !.resync = 0]
  /\ \E lost \in Losses(FullPush) : Push(FullPush, lost) /\ Counted(lost)
  /\ UNCHANGED car

(* Case B: the quarters of the rotation; the fourth is the radio header.   *)
TopicsOf(rr) ==
  {t \in Topics : \/ rr = 0 /\ t = "discovery"
                  \/ rr = 1 /\ t = "settings"
                  \/ rr = 2 /\ t \in {"climate", "doors", "audio"}}

(* Mutant: the third quarter forgets the climate.                          *)
QuarterForgets(rr) == Known \cap (TopicsOf(rr) \ {"climate"})
Quarter(rr) == Known \cap TopicsOf(rr)

NextQuarter(rr) == (rr + 1) % 4

AnswerSteady(m) ==
  /\ ~RebootAssumed(m)
  /\ link' = [link EXCEPT !.silence = 0, !.rr = NextQuarter(link.rr)]
  /\ \E lost \in Losses(Quarter(link.rr)) : Push(Quarter(link.rr), lost) /\ Counted(lost)
  /\ UNCHANGED <<car, timer>>

(* The head unit announces itself; the announcement arrives, or is lost on *)
(* the way (or fails its checksum).                                        *)
Announce ==
  /\ hu.up /\ hu.beat >= BeatUnits
  /\ hu' = [hu EXCEPT !.beat = 0]
  /\ \/ AnswerReboot(hu.want)
     \/ AnswerSteady(hu.want)
     \/ /\ faults < MaxFaults
        /\ faults' = faults + 1
        /\ excuse' = TRUE
        /\ UNCHANGED <<linkVars, stale, clean>>

-----------------------------------------------------------------------------
(* can_router_process_can: the car reports another value of topic t, which *)
(* is pushed at once; or a frame that tells nothing new, which only wakes  *)
(* the router.                                                             *)
CanWakes ==
  /\ car.asleep
  /\ car' = [car EXCEPT !.asleep = FALSE]
  /\ UNCHANGED <<link, timer, hu, stale, faults, clean, excuse>>

CanChange(t) ==
  /\ \E open \in BOOLEAN, mode \in AudioModes :
       /\ t # "doors" => open = car.open
       /\ t # "audio" => mode = car.audio
       /\ car' = [heard |-> car.heard \cup ({t} \cap Unheard),
                  open |-> open, audio |-> mode, asleep |-> FALSE]
  /\ \E lost \in Losses({t}) :
       /\ Push({t}, lost)
       /\ clean' = IF lost # {} THEN 0 ELSE clean
  /\ UNCHANGED <<link, timer, hu, excuse>>

(* Mutant: the tyres are not repeated.                                     *)
RepeatsNoTyres ==
  Known \cap UNION {
    IF car.open THEN {"doors"} ELSE {},
    IF car.audio = "menu" THEN {"audio"} ELSE {},
    IF timer.resync + 1 >= ResyncUnits
    THEN {"doors", "settings"} \cup (IF car.audio = "idle" THEN {"audio"} ELSE {})
    ELSE {}}

(* can_router_periodic_100ms, many times over: what falls due in one unit.   *)
Repeats ==
  Known \cap UNION {
    IF car.open THEN {"doors"} ELSE {},
    IF car.audio = "menu" THEN {"audio"} ELSE {},
    IF timer.tpms + 1 >= TpmsUnits THEN {"tpms"} ELSE {},
    IF timer.resync + 1 >= ResyncUnits
    THEN {"doors", "settings"} \cup (IF car.audio = "idle" THEN {"audio"} ELSE {})
    ELSE {}}

(* Asleep the router does nothing, and in the deep sleep of the MCU not    *)
(* even the clock has to go on.                                            *)
Tick ==
  /\ hu.up => hu.beat < LateUnits
  /\ hu' = [hu EXCEPT !.beat = IF @ < LateUnits THEN @ + 1 ELSE @]
  /\ \E aged \in IF car.asleep THEN BOOLEAN ELSE {TRUE} :
       link' = [link EXCEPT !.silence = IF aged /\ @ <= GapUnits THEN @ + 1 ELSE @]
  /\ \/ /\ car.asleep
        /\ UNCHANGED <<timer, stale, faults, clean>>
     \/ /\ ~car.asleep
        /\ timer' = [resync |-> (timer.resync + 1) % ResyncUnits,
                     tpms |-> (timer.tpms + 1) % TpmsUnits]
        /\ \E lost \in Losses(Repeats) :
             /\ Push(Repeats, lost)
             /\ clean' = IF lost # {} THEN 0 ELSE clean
  /\ UNCHANGED <<car, excuse>>

(* The bus fell silent: the router cuts the head unit's power and sleeps.  *)
FallAsleep ==
  /\ ~car.asleep
  /\ car' = [car EXCEPT !.asleep = TRUE]
  /\ hu' = [hu EXCEPT !.up = FALSE]
  /\ stale' = IF hu.up THEN stale \cup Known ELSE stale
  /\ clean' = 0 /\ excuse' = TRUE
  /\ UNCHANGED <<link, timer, faults>>

(* The box itself restarts (watchdog, firmware update): it knows nothing   *)
(* of the car, and the head unit still shows what it was told.             *)
BoxRestarts ==
  /\ faults < MaxFaults
  /\ link' = [active |-> FALSE, model |-> NoModel, silence |-> 0, rr |-> 0]
  /\ car' = [heard |-> {}, open |-> FALSE, audio |-> "idle", asleep |-> FALSE]
  /\ timer' = [resync |-> 0, tpms |-> 0]
  /\ stale' = Topics \ Unheard
  /\ faults' = faults + 1 /\ clean' = 0 /\ excuse' = TRUE
  /\ UNCHANGED hu

-----------------------------------------------------------------------------
(* The head unit: it stops (and forgets what it showed), boots, and takes  *)
(* another car model from its menu.  Nothing keeps it from being back      *)
(* before its next announcement is due: the restart of an app.             *)
HuStops ==
  /\ hu.up /\ faults < MaxFaults
  /\ hu' = [hu EXCEPT !.up = FALSE]
  /\ stale' = stale \cup Known
  /\ faults' = faults + 1 /\ clean' = 0 /\ excuse' = TRUE
  /\ UNCHANGED linkVars

(* Booted, it announces itself within a period.                            *)
HuBoots ==
  /\ ~hu.up /\ ~car.asleep
  /\ hu' = [hu EXCEPT !.up = TRUE, !.beat = BeatUnits]
  /\ UNCHANGED <<linkVars, stale, faults, clean, excuse>>

HuSelects(m) ==
  /\ hu.up /\ m # hu.want /\ faults < MaxFaults
  /\ hu' = [hu EXCEPT !.want = m]
  /\ faults' = faults + 1 /\ excuse' = TRUE
  /\ UNCHANGED <<linkVars, stale, clean>>

Next ==
  \/ Announce \/ Tick \/ FallAsleep \/ BoxRestarts \/ CanWakes
  \/ \E t \in Topics \ {"discovery"} : CanChange(t)
  \/ HuStops \/ HuBoots \/ \E m \in Models : HuSelects(m)

(* The timer runs, and a head unit that is up keeps announcing itself.     *)
Spec == Init /\ [][Next]_vars /\ WF_vars(Tick) /\ WF_vars(Announce)

-----------------------------------------------------------------------------
TypeOK ==
  /\ link \in [active : BOOLEAN, model : Models \cup {NoModel},
               silence : 0 .. GapUnits + 1, rr : 0 .. 3]
  /\ car \in [heard : SUBSET Unheard, open : BOOLEAN, audio : AudioModes, asleep : BOOLEAN]
  /\ timer \in [resync : 0 .. ResyncUnits - 1, tpms : 0 .. TpmsUnits - 1]
  /\ hu \in [up : BOOLEAN, beat : 0 .. LateUnits, want : Models]
  /\ stale \subseteq Known
  /\ faults \in 0 .. MaxFaults /\ clean \in 0 .. 4 /\ excuse \in BOOLEAN

Rotated == {"discovery", "settings", "climate", "doors", "audio"}

(* Four answered announcements heal everything in the rotation: whatever   *)
(* was lost or forgotten before, at whichever quarter the rotation was,    *)
(* and however often the router assumed a reboot in between.               *)
FourBeatsHeal == clean = 4 => stale \cap Rotated = {}

(* The answer to one announcement after a silence as long as a reboot, or   *)
(* with another model, is as good as four.                                 *)
RebootHeals ==
  [][ RebootAssumed(hu.want) /\ link'.active /\ link'.silence = 0 /\ faults' = faults
        => stale' \cap Rotated = {} ]_link

(* The burst of everything, and the profile reset that comes with it, has  *)
(* a reason: a punctual head unit that neither restarted nor changed its   *)
(* model, and whose announcements arrive, gets the rotation only.          *)
BurstHasReason == hu.up /\ RebootAssumed(hu.want) => excuse

(* Once faults are over and the head unit stays up, everything is shown as *)
(* the router knows it, and stays so.                                      *)
EventuallyInSync == <>[]hu.up => <>[](stale = {})
=============================================================================
