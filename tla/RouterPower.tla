---------------------------- MODULE RouterPower ----------------------------
(***************************************************************************)
(* The power, illumination and reverse lines of the box: the path of a CAN *)
(* frame through can_router_process_can and the PSA profile's derivation   *)
(* of the ignition state (profiles/profile_psa.c), the silence watchdog of *)
(* can_router_periodic_100ms, the wake-up by the deep-sleep code, and the  *)
(* re-initialisation of the profile when the head unit announces its car.  *)
(*                                                                         *)
(* Frames may carry any content in any order: this is the code against an  *)
(* arbitrary bus.  ParkedCar puts a car that tells the truth around it.    *)
(***************************************************************************)
EXTENDS Naturals

CONSTANT SilenceTicks    \* 100 ms ticks of silence before sleep (30 in the code)

ASSUME SilenceAssumption == SilenceTicks \in Nat \ {0}

VARIABLES car,       \* s_current_state: what the frames said
          psa,       \* the file-scope variables of profile_psa.c
          sent,      \* s_last_sent_state: what the pins were last driven from
          pins,      \* the output lines
          quiet,     \* s_can_inactivity_ticks
          sleeping   \* s_can_bus_sleeping

vars == <<car, psa, sent, pins, quiet, sleeping>>

-----------------------------------------------------------------------------
(* The frames.  A frame shorter than a field needs leaves that field as it *)
(* was; 0x165 is reduced to the states its first three bytes distinguish:  *)
(* all zero (a warm reset of the radio), standby, display without audio,   *)
(* and audio on (or the short mute of a source change).                    *)
Frame036 == [id : {"036"}, dlc : 1 .. 5,
             reverse : BOOLEAN, eco : BOOLEAN, night : BOOLEAN, key : BOOLEAN]
Frame0F6 == [id : {"0F6"}, dlc : {7, 8}, reverse : BOOLEAN, key : BOOLEAN]
Frame128 == [id : {"128"}, dlc : {4, 5}, ext : BOOLEAN]
Frame165 == [id : {"165"}, radio : {"zero", "standby", "display", "on"}]
Frame == Frame036 \cup Frame0F6 \cup Frame128 \cup Frame165

-----------------------------------------------------------------------------
RadioOn(c) == c.present /\ c.powered /\ ~c.sleep

(* Mutants: level-triggered; without the rising edge.                      *)
ManualAccByLevel(c, p) == ~c.eco /\ ~c.ign /\ RadioOn(c)
ManualAccNoEdge(c, p) == ~c.eco /\ ~c.ign /\ RadioOn(c) /\ p.manual /\ ~p.prevIgn

(* s_rd4_manual_acc: the driver switched the factory radio on while the    *)
(* key is off.  It is set by a rising edge and kept while the radio stays  *)
(* on, unless this very update sees the key turned off.                    *)
ManualAcc(c, p) ==
  /\ ~c.eco
  /\ ~c.ign
  /\ RadioOn(c)
  /\ ~p.prevRd4 \/ (p.manual /\ ~p.prevIgn)

(* Mutant: radio standby before the key.                                   *)
IgnitionStateRadioFirst(c, p) ==
  IF c.eco \/ c.sleep THEN "OFF"
  ELSE IF c.ign THEN "ON"
  ELSE IF ManualAcc(c, p) THEN "ACC"
  ELSE "OFF"

(* Mutant: the key before the battery.                                     *)
IgnitionStateKeyFirst(c, p) ==
  IF c.ign THEN "ON"
  ELSE IF c.eco THEN "OFF"
  ELSE IF ManualAcc(c, p) THEN "ACC"
  ELSE "OFF"

IgnitionState(c, p) ==
  IF c.eco THEN "OFF"
  ELSE IF c.ign THEN "ON"
  ELSE IF ManualAcc(c, p) THEN "ACC"
  ELSE "OFF"

(* psa_update_derived_power_state on the car c and profile p just decoded. *)
Derive(c, p) ==
  [car |-> [c EXCEPT !.acc = IgnitionState(c, p)],
   psa |-> [p EXCEPT !.manual = ManualAcc(c, p),
                     !.prevIgn = c.ign,
                     !.prevRd4 = RadioOn(c)]]

-----------------------------------------------------------------------------
(* The decoders of the profile: the car and the profile after the frame.   *)
Decode036(f, c, p) ==
  LET q == [p EXCEPT !.rev036 = f.reverse]
      ReverseGear == IF p.have0f6 THEN p.rev0f6 ELSE f.reverse
      KeyOn == IF p.have0f6 THEN p.ign0f6 ELSE f.key
  IN  IF f.dlc < 2 THEN [car |-> c, psa |-> p]
      ELSE Derive([c EXCEPT !.reverse = ReverseGear,
                            !.eco = IF f.dlc >= 3 THEN f.eco ELSE @,
                            !.night = IF f.dlc >= 4 THEN f.night ELSE @,
                            !.ign = IF f.dlc >= 5 THEN KeyOn ELSE @], q)

Decode0F6(f, c, p) ==
  IF f.dlc < 8 THEN [car |-> c, psa |-> p]
  ELSE Derive([c EXCEPT !.ign = f.key, !.reverse = f.reverse],
              [p EXCEPT !.have0f6 = TRUE, !.ign0f6 = f.key, !.rev0f6 = f.reverse])

Decode128(f, c, p) ==
  [car |-> IF f.dlc >= 5 THEN [c EXCEPT !.ext = f.ext] ELSE c, psa |-> p]

Decode165(f, c, p) ==
  Derive(IF f.radio = "zero" THEN c
         ELSE [c EXCEPT !.present = TRUE,
                        !.sleep = (f.radio = "standby"),
                        !.powered = (f.radio = "on")], p)

Decode(f, c, p) ==
  IF f.id = "036" THEN Decode036(f, c, p)
  ELSE IF f.id = "0F6" THEN Decode0F6(f, c, p)
  ELSE IF f.id = "128" THEN Decode128(f, c, p)
  ELSE Decode165(f, c, p)

-----------------------------------------------------------------------------
Lit(c) == c.ext \/ c.night
HuWanted(c) == c.acc # "OFF"

(* Mutant: the line is raised and never lowered.                           *)
DriveOnlyUp(pin, wanted, last) == IF wanted /\ ~last THEN TRUE ELSE pin

(* Each line is written only when its input differs from what the line was *)
(* last driven from.                                                       *)
Drive(pin, wanted, last) == IF wanted # last THEN wanted ELSE pin

NewCar ==
  [ign |-> FALSE, eco |-> FALSE, present |-> FALSE, powered |-> FALSE, sleep |-> FALSE,
   reverse |-> FALSE, ext |-> FALSE, night |-> FALSE, acc |-> "OFF"]

NewProfile ==
  [have0f6 |-> FALSE, ign0f6 |-> FALSE, rev0f6 |-> FALSE, rev036 |-> FALSE,
   prevIgn |-> FALSE, prevRd4 |-> FALSE, manual |-> FALSE]

NewSent == [hu |-> FALSE, ill |-> FALSE, reverse |-> FALSE]
NewPins == [hu |-> FALSE, ill |-> FALSE, reverse |-> FALSE, standby |-> FALSE]

Init ==
  /\ car = NewCar
  /\ psa = NewProfile
  /\ sent = NewSent
  /\ pins = NewPins
  /\ quiet = 0
  /\ sleeping = FALSE

-----------------------------------------------------------------------------
(* Any frame on the bus wakes the transceiver and restarts the watchdog.   *)
BusActivity ==
  /\ quiet' = 0
  /\ sleeping' = FALSE

Standby == IF sleeping THEN FALSE ELSE pins.standby

(* can_router_process_can, a frame of the profile.                         *)
ProcessCan(f) ==
  LET new == Decode(f, car, psa)
  IN  /\ BusActivity
      /\ car' = new.car
      /\ psa' = new.psa
      /\ pins' = [hu |-> Drive(pins.hu, HuWanted(new.car), sent.hu),
                  ill |-> Drive(pins.ill, Lit(new.car), sent.ill),
                  reverse |-> Drive(pins.reverse, new.car.reverse, sent.reverse),
                  standby |-> Standby]
      /\ sent' = [hu |-> HuWanted(new.car), ill |-> Lit(new.car),
                  reverse |-> new.car.reverse]

(* An extended or unmapped identifier, rejected by the bitmask, or         *)
(* can_router_notify_wake after a wake-up by CAN or key: nothing but the   *)
(* wake-up itself.                                                         *)
NoteBusActivity ==
  /\ BusActivity
  /\ pins' = [pins EXCEPT !.standby = Standby]
  /\ UNCHANGED <<car, psa, sent>>

(* The watchdog part of can_router_periodic_100ms.                         *)
TickQuiet ==
  /\ quiet + 1 < SilenceTicks
  /\ quiet' = quiet + 1
  /\ UNCHANGED <<car, psa, sent, pins, sleeping>>

(* Mutant: the watchdog waits for a count the clamped counter never        *)
(* reaches.                                                                *)
FallAsleepNever ==
  /\ quiet > SilenceTicks
  /\ ~sleeping
  /\ quiet' = SilenceTicks
  /\ sleeping' = TRUE
  /\ car' = [car EXCEPT !.ign = FALSE, !.powered = FALSE, !.sleep = FALSE,
                        !.eco = FALSE, !.acc = "OFF"]
  /\ pins' = [pins EXCEPT !.standby = TRUE]
  /\ UNCHANGED <<psa, sent>>

FallAsleep ==
  /\ quiet + 1 >= SilenceTicks
  /\ ~sleeping
  /\ quiet' = SilenceTicks
  /\ sleeping' = TRUE
  /\ car' = [car EXCEPT !.ign = FALSE, !.powered = FALSE, !.sleep = FALSE,
                        !.eco = FALSE, !.acc = "OFF"]
  /\ sent' = [sent EXCEPT !.hu = FALSE]
  /\ pins' = [hu |-> FALSE, ill |-> FALSE, reverse |-> FALSE, standby |-> TRUE]
  /\ UNCHANGED psa

(* vehicle_profile_set_active on the head unit's first 0x24, on its reboot *)
(* or on a change of car: the profile forgets, the router does not.        *)
Handshake ==
  /\ psa' = NewProfile
  /\ UNCHANGED <<car, sent, pins, quiet, sleeping>>

(* A reset of the MCU (watchdog, brown-out, firmware update).              *)
Restart ==
  /\ car' = NewCar
  /\ psa' = NewProfile
  /\ sent' = NewSent
  /\ pins' = NewPins
  /\ quiet' = 0
  /\ sleeping' = FALSE

Next ==
  \/ \E f \in Frame : ProcessCan(f)
  \/ NoteBusActivity
  \/ TickQuiet
  \/ FallAsleep
  \/ Handshake
  \/ Restart

Spec == Init /\ [][Next]_vars

-----------------------------------------------------------------------------
Car == [ign : BOOLEAN, eco : BOOLEAN, present : BOOLEAN, powered : BOOLEAN,
        sleep : BOOLEAN, reverse : BOOLEAN, ext : BOOLEAN, night : BOOLEAN,
        acc : {"OFF", "ACC", "ON"}]
Profile == [have0f6 : BOOLEAN, ign0f6 : BOOLEAN, rev0f6 : BOOLEAN, rev036 : BOOLEAN,
            prevIgn : BOOLEAN, prevRd4 : BOOLEAN, manual : BOOLEAN]

TypeOK ==
  /\ car \in Car
  /\ psa \in Profile
  /\ sent \in [hu : BOOLEAN, ill : BOOLEAN, reverse : BOOLEAN]
  /\ pins \in [hu : BOOLEAN, ill : BOOLEAN, reverse : BOOLEAN, standby : BOOLEAN]
  /\ quiet \in 0 .. SilenceTicks
  /\ sleeping \in BOOLEAN

(* The change detection never loses a power edge: over any mix of frames,  *)
(* silence, wake-ups, re-handshakes, the head unit is powered exactly when *)
(* the derived ignition state is ACC or ON.                                *)
HuPowerFollowsState == pins.hu = HuWanted(car)

(* Battery protection wins over the key, over the radio and over every     *)
(* order in which their frames arrive: while the BSI last reported economy *)
(* mode the head unit has no power.                                        *)
EconomyCutsPower == pins.hu => ~car.eco

(* With the key off the head unit is powered only while the last radio     *)
(* frame said it is on: neither a forgotten manual switch-on nor a         *)
(* re-initialised profile keeps the power up.                              *)
AccNeedsRadio == (pins.hu /\ ~car.ign) => RadioOn(car)

(* A trigger line left high would light the screen or hold the camera      *)
(* picture: each is high only while its input is.                          *)
NoPhantomTrigger == (pins.ill => Lit(car)) /\ (pins.reverse => car.reverse)

(* Asleep, every consumer is off and the transceiver is in standby; awake  *)
(* the transceiver is on.                                                  *)
AsleepMeansDark ==
  /\ sleeping => ~pins.hu /\ ~pins.ill /\ ~pins.reverse
  /\ pins.standby = sleeping
=============================================================================
