----------------------------- MODULE ParkedCar -----------------------------
(***************************************************************************)
(* RouterPower on the comfort bus of a real car: the frames tell the truth *)
(* about the key and the factory radio, they keep coming while the bus is  *)
(* awake, and the BSI lets the bus fall silent only with everything off.   *)
(* With the battery low the BSI enters economy mode, which lasts until the *)
(* engine runs; the radio is off in it.                                    *)
(* The driver is slow: between two acts of the driver the frames have told *)
(* the box of the first.  The head unit may announce itself at any moment. *)
(*                                                                         *)
(* The car, the driver and the head unit are external; the box is the      *)
(* actions of RouterPower, whole.                                          *)
(***************************************************************************)
EXTENDS RouterPower

VARIABLES key,        \* the ignition key is on
          radio,      \* the factory radio plays
          knob,       \* ghost: it was switched on by its knob, key off
          economy,    \* the BSI saves the battery
          alive,      \* the bus is awake
          announced   \* ghost: the head unit announced itself while the radio
                      \* played, and the box has not heard the radio since
                      \* with the key on

carVars == <<key, radio, knob, economy, alive, announced>>
allVars == <<vars, carVars>>

ParkedInit ==
  /\ Init
  /\ key = FALSE /\ radio = FALSE /\ knob = FALSE /\ economy = FALSE /\ alive = TRUE
  /\ announced = FALSE

(* What the frames say; the lights may be on at any time, the reverse gear *)
(* is in only with the key on.                                             *)
TrueFrame(id, reverse, light) ==
  IF id = "036"
  THEN [id |-> "036", dlc |-> 5, reverse |-> reverse, eco |-> economy, night |-> light,
        key |-> key]
  ELSE IF id = "0F6" THEN [id |-> "0F6", dlc |-> 8, reverse |-> reverse, key |-> key]
  ELSE IF id = "128" THEN [id |-> "128", dlc |-> 5, ext |-> light]
  ELSE [id |-> "165", radio |-> IF radio THEN "on" ELSE "standby"]

FrameIds == {"036", "0F6", "128", "165"}

(* The box knows of the driver's last act.                                 *)
Heard == car.ign = key /\ car.eco = economy /\ RadioOn(car) = radio

Send(id) ==
  /\ alive
  /\ \E reverse, light \in BOOLEAN :
       (reverse => key) /\ ProcessCan(TrueFrame(id, reverse, light))
  /\ announced' = (announced /\ ~(id = "165" /\ key))
  /\ UNCHANGED <<key, radio, knob, economy, alive>>

TurnKey ==
  /\ alive /\ Heard
  /\ key' = ~key
  /\ knob' = FALSE
  /\ UNCHANGED <<radio, economy, alive, announced, vars>>

(* With the key on the radio follows its knob too; pressed on a silent bus *)
(* it wakes the bus.                                                       *)
PressKnob ==
  /\ Heard \/ ~alive
  /\ ~economy
  /\ radio' = ~radio
  /\ knob' = (~radio /\ ~key)
  /\ alive' = TRUE
  /\ announced' = FALSE
  /\ UNCHANGED <<key, economy, vars>>

SaveBattery ==
  /\ alive /\ Heard /\ ~key /\ ~economy
  /\ economy' = TRUE
  /\ radio' = FALSE /\ knob' = FALSE /\ announced' = FALSE
  /\ UNCHANGED <<key, alive, vars>>

StartEngine ==
  /\ alive /\ Heard /\ key /\ economy
  /\ economy' = FALSE
  /\ UNCHANGED <<key, radio, knob, alive, announced, vars>>

(* A door, the remote control: the bus wakes with everything still off.    *)
BusWakes ==
  /\ ~alive
  /\ alive' = TRUE
  /\ UNCHANGED <<key, radio, knob, economy, announced, vars>>

BusSleeps ==
  /\ alive /\ Heard /\ ~key /\ ~radio
  /\ alive' = FALSE
  /\ UNCHANGED <<key, radio, knob, economy, announced, vars>>

(* While the bus is awake its frames are at most 200 ms apart, far less    *)
(* than the watchdog waits.                                                *)
Tick ==
  /\ TickQuiet \/ (~alive /\ FallAsleep)
  /\ UNCHANGED carVars

(* Its first 0x24, its reboot or another car chosen, the key on or off.    *)
HeadUnitAnnounces ==
  /\ Handshake
  /\ announced' = (announced \/ radio)
  /\ UNCHANGED <<key, radio, knob, economy, alive>>

ParkedNext ==
  \/ \E id \in FrameIds : Send(id)
  \/ TurnKey \/ PressKnob \/ SaveBattery \/ StartEngine
  \/ BusWakes \/ BusSleeps
  \/ Tick
  \/ HeadUnitAnnounces

(* Frames and ticks come by themselves; nobody has to touch the car.       *)
Fairness ==
  /\ \A id \in FrameIds : WF_allVars(Send(id))
  /\ WF_allVars(Tick)

ParkedSpec == ParkedInit /\ [][ParkedNext]_allVars /\ Fairness

-----------------------------------------------------------------------------
ParkedTypeOK ==
  /\ TypeOK
  /\ key \in BOOLEAN /\ radio \in BOOLEAN /\ knob \in BOOLEAN
  /\ economy \in BOOLEAN /\ alive \in BOOLEAN /\ announced \in BOOLEAN

(* Power with the key off has a cause: the driver switched the radio on    *)
(* after the key was turned off, or the head unit made the profile forget  *)
(* that the radio was on, and the radio's next frame looked like the knob. *)
(* A radio merely still playing is no cause, over whatever sleep, wake-up, *)
(* battery saving and order of frames.  Key on or off, there is none while *)
(* the battery is saved, whichever of key, radio and economy the box heard *)
(* of last.                                                                *)
PowerHasCause ==
  pins.hu => /\ ~car.eco
             /\ Heard /\ ~key => knob \/ announced

(* The key, and with the key off the knob, power the head unit, unless the *)
(* battery is being saved.                                                 *)
KeyPowersHu == (alive /\ key) ~> (pins.hu \/ ~key \/ economy)
KnobPowersHu == (radio /\ knob) ~> (pins.hu \/ ~radio \/ ~knob)

(* The bus silent: the box sleeps.                                         *)
SilenceSleeps == ~alive ~> (sleeping \/ alive)
=============================================================================
