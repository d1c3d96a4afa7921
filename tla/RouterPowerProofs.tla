------------------------- MODULE RouterPowerProofs -------------------------
(***************************************************************************)
(* RouterPower for every watchdog limit: the safety properties of the      *)
(* power, illumination and reverse lines; and ParkedCar, the same box on   *)
(* the bus of a real car.                                                  *)
(***************************************************************************)
EXTENDS ParkedCar, TLAPS

(* What the change detection remembers is what the last frame or the       *)
(* watchdog left: all three inputs, and the level of the power line.       *)
SentInv ==
  /\ pins.hu = sent.hu
  /\ sent.hu = HuWanted(car)
  /\ sent.ill = Lit(car)
  /\ sent.reverse = car.reverse

(* The two other lines may be low although their input is on (after a      *)
(* sleep), never high although it is off.                                  *)
LineInv == (pins.ill => sent.ill) /\ (pins.reverse => sent.reverse)

(* The derived state is justified by the frames it was derived from.       *)
Justified(c) == c.acc # "OFF" => ~c.eco /\ (c.ign \/ RadioOn(c))

IInv == TypeOK /\ SentInv /\ LineInv /\ Justified(car) /\ AsleepMeansDark

-----------------------------------------------------------------------------
(* psa_update_derived_power_state turns any decoded car into a justified   *)
(* one.                                                                    *)
LEMMA DeriveJustified ==
  ASSUME NEW c \in Car, NEW p \in Profile
  PROVE  /\ Derive(c, p).car \in Car
         /\ Derive(c, p).psa \in Profile
         /\ Justified(Derive(c, p).car)
<1>1. IgnitionState(c, p) \in {"OFF", "ACC", "ON"}
  BY DEF IgnitionState
<1>2. IgnitionState(c, p) # "OFF" => ~c.eco /\ (c.ign \/ RadioOn(c))
  BY DEF IgnitionState, ManualAcc
<1>3. ManualAcc(c, p) \in BOOLEAN /\ RadioOn(c) \in BOOLEAN
  BY DEF ManualAcc, RadioOn
<1>4. Derive(c, p).car \in Car /\ Derive(c, p).psa \in Profile
  BY <1>1, <1>3 DEF Derive, Car, Profile
<1>5. Justified(Derive(c, p).car)
  BY <1>2 DEF Derive, Car, Justified, RadioOn
<1>. QED BY <1>4, <1>5

(* Every decoder keeps the car justified, the ones that do not derive      *)
(* because they touch nothing the derivation reads.                        *)
LEMMA DecodeJustified ==
  ASSUME NEW f \in Frame, NEW c \in Car, NEW p \in Profile, Justified(c)
  PROVE  /\ Decode(f, c, p).car \in Car
         /\ Decode(f, c, p).psa \in Profile
         /\ Justified(Decode(f, c, p).car)
<1>1. CASE f \in Frame036
  <2>1. Decode(f, c, p) = Decode036(f, c, p)
    BY <1>1 DEF Decode, Frame036
  <2>2. CASE f.dlc < 2
    BY <2>1, <2>2 DEF Decode036
  <2>3. CASE ~(f.dlc < 2)
    <3> DEFINE q == [p EXCEPT !.rev036 = f.reverse]
               d == [c EXCEPT !.reverse = IF p.have0f6 THEN p.rev0f6 ELSE f.reverse,
                              !.eco = IF f.dlc >= 3 THEN f.eco ELSE @,
                              !.night = IF f.dlc >= 4 THEN f.night ELSE @,
                              !.ign = IF f.dlc >= 5
                                      THEN IF p.have0f6 THEN p.ign0f6 ELSE f.key ELSE @]
    <3>1. q \in Profile
      BY <1>1 DEF Profile, Frame036
    <3>2. d \in Car
      BY <1>1 DEF Car, Profile, Frame036
    <3>3. Decode(f, c, p) = Derive(d, q)
      BY <2>1, <2>3 DEF Decode036
    <3>. QED BY <3>1, <3>2, <3>3, DeriveJustified
  <2>. QED BY <2>2, <2>3
<1>2. CASE f \in Frame0F6
  <2>1. Decode(f, c, p) = Decode0F6(f, c, p)
    BY <1>2 DEF Decode, Frame0F6
  <2>2. CASE f.dlc < 8
    BY <2>1, <2>2 DEF Decode0F6
  <2>3. CASE ~(f.dlc < 8)
    <3> DEFINE q == [p EXCEPT !.have0f6 = TRUE, !.ign0f6 = f.key, !.rev0f6 = f.reverse]
               d == [c EXCEPT !.ign = f.key, !.reverse = f.reverse]
    <3>1. q \in Profile /\ d \in Car
      BY <1>2 DEF Profile, Car, Frame0F6
    <3>2. Decode(f, c, p) = Derive(d, q)
      BY <2>1, <2>3 DEF Decode0F6
    <3>. QED BY <3>1, <3>2, DeriveJustified
  <2>. QED BY <2>2, <2>3
<1>3. CASE f \in Frame128
  <2>1. Decode(f, c, p) = Decode128(f, c, p)
    BY <1>3 DEF Decode, Frame128
  <2>2. [c EXCEPT !.ext = f.ext] \in Car /\ Justified([c EXCEPT !.ext = f.ext])
    BY <1>3 DEF Car, Frame128, Justified, RadioOn
  <2>. QED BY <2>1, <2>2 DEF Decode128
<1>4. CASE f \in Frame165
  <2> DEFINE d == [c EXCEPT !.present = TRUE,
                            !.sleep = (f.radio = "standby"),
                            !.powered = (f.radio = "on")]
  <2>1. Decode(f, c, p) = Decode165(f, c, p)
    BY <1>4 DEF Decode, Frame165
  <2>2. d \in Car
    BY DEF Car
  <2>3. Decode(f, c, p) = Derive(c, p) \/ Decode(f, c, p) = Derive(d, p)
    BY <2>1 DEF Decode165
  <2>. QED BY <2>2, <2>3, DeriveJustified
<1>. QED BY <1>1, <1>2, <1>3, <1>4 DEF Frame

-----------------------------------------------------------------------------
Sent == [hu : BOOLEAN, ill : BOOLEAN, reverse : BOOLEAN]
Pins == [hu : BOOLEAN, ill : BOOLEAN, reverse : BOOLEAN, standby : BOOLEAN]

(* The watchdog's two ends are values of its counter.                      *)
LEMMA QuietStart == 0 \in 0 .. SilenceTicks /\ SilenceTicks \in 0 .. SilenceTicks
  BY SilenceAssumption

LEMMA InitIInv == Init => IInv
<1> SUFFICES ASSUME Init PROVE IInv
  OBVIOUS
<1>1. TypeOK
  <2>1. NewCar \in Car /\ NewProfile \in Profile
    BY DEF NewCar, NewProfile, Car, Profile
  <2>2. NewSent \in Sent /\ NewPins \in Pins
    BY DEF NewSent, NewPins, Sent, Pins
  <2>. QED BY <2>1, <2>2, QuietStart DEF Init, TypeOK, Sent, Pins
<1>2. SentInv /\ LineInv /\ Justified(car) /\ AsleepMeansDark
  BY DEF Init, NewCar, NewSent, NewPins, SentInv, LineInv, Justified, AsleepMeansDark,
         HuWanted, Lit
<1>. QED BY <1>1, <1>2 DEF IInv

(* A frame drives each line whose input changed, from the decoded car.     *)
LEMMA ProcessCanIInv ==
  ASSUME IInv, NEW f \in Frame, ProcessCan(f)
  PROVE  IInv'
<1> DEFINE new == Decode(f, car, psa)
<1>1. new.car \in Car /\ new.psa \in Profile /\ Justified(new.car)
  BY DecodeJustified DEF IInv, TypeOK
<1> HIDE DEF new
<1>2. /\ car' = new.car /\ psa' = new.psa /\ quiet' = 0 /\ sleeping' = FALSE
      /\ sent' = [hu |-> HuWanted(new.car), ill |-> Lit(new.car),
                  reverse |-> new.car.reverse]
      /\ pins' = [hu |-> Drive(pins.hu, HuWanted(new.car), sent.hu),
                  ill |-> Drive(pins.ill, Lit(new.car), sent.ill),
                  reverse |-> Drive(pins.reverse, new.car.reverse, sent.reverse),
                  standby |-> Standby]
  BY DEF ProcessCan, BusActivity, new
<1>3. HuWanted(new.car) \in BOOLEAN /\ Lit(new.car) \in BOOLEAN
  BY DEF HuWanted, Lit
<1>4. sent' \in Sent
  BY <1>1, <1>2, <1>3 DEF Car, Sent
<1>5. pins' \in Pins
  BY <1>1, <1>2, <1>3 DEF Drive, Standby, IInv, TypeOK, Car, Pins
<1>6. TypeOK'
  <2>1. sleeping' \in BOOLEAN
    BY <1>2
  <2>2. quiet' \in 0 .. SilenceTicks
    BY <1>2, QuietStart
  <2>. QED BY <1>1, <1>2, <1>4, <1>5, <2>1, <2>2 DEF TypeOK, Sent, Pins
<1>7. pins.hu = sent.hu /\ (pins.ill => sent.ill) /\ (pins.reverse => sent.reverse)
  BY DEF IInv, SentInv, LineInv
<1>8. SentInv'
  BY <1>2, <1>7 DEF SentInv, Drive
<1>9. LineInv'
  BY <1>2, <1>7 DEF LineInv, Drive
<1>10. AsleepMeansDark'
  <2>1. Standby = FALSE
    BY DEF IInv, AsleepMeansDark, Standby
  <2>2. pins'.standby = FALSE /\ sleeping' = FALSE
    BY <1>2, <2>1
  <2>. QED BY <2>2 DEF AsleepMeansDark
<1>11. Justified(car)'
  BY <1>1, <1>2 DEF Justified, RadioOn
<1>. QED BY <1>6, <1>8, <1>9, <1>10, <1>11 DEF IInv

LEMMA NextIInv == IInv /\ [Next]_vars => IInv'
<1> SUFFICES ASSUME IInv, [Next]_vars PROVE IInv'
  OBVIOUS
<1>1. ASSUME NEW f \in Frame, ProcessCan(f) PROVE IInv'
  BY <1>1, ProcessCanIInv
<1>2. CASE NoteBusActivity
  <2>1. TypeOK'
    <3>1. pins' \in Pins
      BY <1>2 DEF NoteBusActivity, Standby, IInv, TypeOK, Pins
    <3>2. quiet' = 0 /\ sleeping' = FALSE /\ UNCHANGED <<car, psa, sent>>
      BY <1>2 DEF NoteBusActivity, BusActivity
    <3>. QED BY <3>1, <3>2, QuietStart DEF IInv, TypeOK, Pins
  <2>2. pins'.hu = pins.hu /\ pins'.ill = pins.ill /\ pins'.reverse = pins.reverse
    BY <1>2 DEF NoteBusActivity, IInv, TypeOK
  <2>3. SentInv' /\ LineInv' /\ Justified(car)'
    BY <1>2, <2>2 DEF NoteBusActivity, IInv, SentInv, LineInv, Justified, RadioOn, HuWanted, Lit
  <2>4. AsleepMeansDark'
    BY <1>2 DEF NoteBusActivity, BusActivity, Standby, IInv, TypeOK, AsleepMeansDark
  <2>. QED BY <2>1, <2>3, <2>4 DEF IInv
<1>3. CASE TickQuiet
  <2>1. TypeOK'
    BY <1>3, SilenceAssumption DEF TickQuiet, IInv, TypeOK
  <2>. QED
    BY <1>3, <2>1 DEF TickQuiet, IInv, SentInv, LineInv, Justified, AsleepMeansDark, RadioOn,
                      HuWanted, Lit
<1>4. CASE FallAsleep
  <2>1. /\ car' = [car EXCEPT !.ign = FALSE, !.powered = FALSE, !.sleep = FALSE,
                              !.eco = FALSE, !.acc = "OFF"]
        /\ sent' = [sent EXCEPT !.hu = FALSE]
        /\ pins' = [hu |-> FALSE, ill |-> FALSE, reverse |-> FALSE, standby |-> TRUE]
        /\ sleeping' = TRUE /\ quiet' = SilenceTicks /\ psa' = psa
    BY <1>4 DEF FallAsleep
  <2>2. TypeOK'
    <3>1. car' \in Car
      BY <2>1 DEF IInv, TypeOK, Car
    <3>2. sent' \in Sent /\ pins' \in Pins
      BY <2>1 DEF IInv, TypeOK, Sent, Pins
    <3>. QED BY <2>1, <3>1, <3>2, QuietStart DEF IInv, TypeOK, Sent, Pins
  <2>3. SentInv' /\ LineInv' /\ Justified(car)'
    BY <2>1 DEF IInv, TypeOK, Car, SentInv, LineInv, Justified, HuWanted, Lit
  <2>4. AsleepMeansDark'
    BY <2>1 DEF AsleepMeansDark
  <2>. QED BY <2>2, <2>3, <2>4 DEF IInv
<1>5. CASE Handshake
  <2>1. TypeOK'
    BY <1>5 DEF Handshake, NewProfile, IInv, TypeOK, Profile
  <2>. QED
    BY <1>5, <2>1 DEF Handshake, IInv, SentInv, LineInv, Justified, AsleepMeansDark, RadioOn,
                      HuWanted, Lit
<1>6. CASE Restart
  <2>1. TypeOK'
    <3>1. NewCar \in Car /\ NewProfile \in Profile
      BY DEF NewCar, NewProfile, Car, Profile
    <3>2. NewSent \in Sent /\ NewPins \in Pins
      BY DEF NewSent, NewPins, Sent, Pins
    <3>. QED BY <1>6, <3>1, <3>2, QuietStart DEF Restart, TypeOK, Sent, Pins
  <2>2. SentInv' /\ LineInv' /\ Justified(car)' /\ AsleepMeansDark'
    BY <1>6 DEF Restart, NewCar, NewSent, NewPins, SentInv, LineInv, Justified,
                AsleepMeansDark, HuWanted, Lit
  <2>. QED BY <2>1, <2>2 DEF IInv
<1>7. CASE UNCHANGED vars
  BY <1>7 DEF vars, IInv, TypeOK, SentInv, LineInv, Justified, AsleepMeansDark, RadioOn,
              HuWanted, Lit
<1>. QED BY <1>1, <1>2, <1>3, <1>4, <1>5, <1>6, <1>7 DEF Next

-----------------------------------------------------------------------------
(* The state of router and profile keeps its type.                         *)
THEOREM TypeCorrect == Spec => []TypeOK
<1>1. IInv => TypeOK
  BY DEF IInv
<1>. QED BY InitIInv, NextIInv, <1>1, PTL DEF Spec

(* The change detection of can_router_process_can never loses a power edge *)
(* to a frame, the watchdog, a wake-up, a re-handshake or a reset.         *)
THEOREM PowerFollowsState == Spec => []HuPowerFollowsState
<1>1. IInv => HuPowerFollowsState
  BY DEF IInv, SentInv, HuPowerFollowsState
<1>. QED BY InitIInv, NextIInv, <1>1, PTL DEF Spec

(* Economy mode of the BSI wins over the key and the radio.                *)
THEOREM EconomyWins == Spec => []EconomyCutsPower
<1>1. IInv => EconomyCutsPower
  BY DEF IInv, SentInv, Justified, HuWanted, EconomyCutsPower
<1>. QED BY InitIInv, NextIInv, <1>1, PTL DEF Spec

(* With the key off, power rests on what the radio last said.              *)
THEOREM PowerNeedsRadio == Spec => []AccNeedsRadio
<1>1. IInv => AccNeedsRadio
  BY DEF IInv, SentInv, Justified, HuWanted, AccNeedsRadio
<1>. QED BY InitIInv, NextIInv, <1>1, PTL DEF Spec

(* No trigger line is high without its input.                              *)
THEOREM TriggersHonest == Spec => []NoPhantomTrigger
<1>1. IInv => NoPhantomTrigger
  BY DEF IInv, SentInv, LineInv, NoPhantomTrigger
<1>. QED BY InitIInv, NextIInv, <1>1, PTL DEF Spec

(* Asleep means dark, and the transceiver follows the sleep flag.          *)
THEOREM SleepIsDark == Spec => []AsleepMeansDark
<1>1. IInv => AsleepMeansDark
  BY DEF IInv
<1>. QED BY InitIInv, NextIInv, <1>1, PTL DEF Spec

-----------------------------------------------------------------------------
(* On the bus of a real car: the box remembers of a playing radio that it  *)
(* plays, unless the head unit made it forget; and with the key off and no *)
(* cause it wants no power but what a key still thought to be on asks for. *)
CauseInv ==
  /\ radio /\ RadioOn(car) /\ ~announced => psa.prevRd4
  /\ ~key /\ radio /\ ~knob /\ ~announced
     => RadioOn(car) /\ ~psa.manual /\ (HuWanted(car) => car.ign)
  /\ psa.manual => ~car.ign
  /\ ~alive => ~RadioOn(car) /\ ~radio /\ ~key

CarTypeOK ==
  /\ key \in BOOLEAN /\ radio \in BOOLEAN /\ knob \in BOOLEAN
  /\ economy \in BOOLEAN /\ alive \in BOOLEAN /\ announced \in BOOLEAN

ParkedInv == IInv /\ CarTypeOK /\ CauseInv

(* The car sends frames the box knows.                                     *)
LEMMA TrueFrameIsFrame ==
  ASSUME NEW id \in FrameIds, NEW reverse \in BOOLEAN, NEW light \in BOOLEAN, CarTypeOK
  PROVE  TrueFrame(id, reverse, light) \in Frame
<1>1. 5 \in 1 .. 5 /\ 8 \in {7, 8} /\ 5 \in {4, 5}
  OBVIOUS
<1>2. CASE id = "036"
  BY <1>1, <1>2 DEF TrueFrame, CarTypeOK, Frame, Frame036
<1>3. CASE id = "0F6"
  BY <1>1, <1>3 DEF TrueFrame, CarTypeOK, Frame, Frame0F6
<1>4. CASE id = "128"
  BY <1>1, <1>4 DEF TrueFrame, CarTypeOK, Frame, Frame128
<1>5. CASE id = "165"
  <2>1. (IF radio THEN "on" ELSE "standby") \in {"zero", "standby", "display", "on"}
    OBVIOUS
  <2>. QED BY <1>5, <2>1 DEF TrueFrame, Frame, Frame165
<1>. QED BY <1>2, <1>3, <1>4, <1>5 DEF FrameIds

(* psa_update_derived_power_state leaves the profile in step with the      *)
(* radio, and asks for power with the key off only by a manual switch-on:  *)
(* a rising edge of the radio, or one seen before.                         *)
InStep(new, p) ==
  /\ new.psa.prevRd4 = RadioOn(new.car)
  /\ new.psa.manual => RadioOn(new.car) /\ ~new.car.ign /\ (~p.prevRd4 \/ p.manual)
  /\ HuWanted(new.car) /\ ~new.car.ign => new.psa.manual

LEMMA DeriveInStep ==
  ASSUME NEW c \in Car, NEW p \in Profile
  PROVE  InStep(Derive(c, p), p) /\ RadioOn(Derive(c, p).car) = RadioOn(c)
<1>1. /\ Derive(c, p).car = [c EXCEPT !.acc = IgnitionState(c, p)]
      /\ Derive(c, p).psa = [p EXCEPT !.manual = ManualAcc(c, p),
                                      !.prevIgn = c.ign, !.prevRd4 = RadioOn(c)]
  BY DEF Derive
<1>2. /\ Derive(c, p).car.ign = c.ign /\ Derive(c, p).car.acc = IgnitionState(c, p)
      /\ RadioOn(Derive(c, p).car) = RadioOn(c)
  BY <1>1 DEF Car, RadioOn
<1>3. Derive(c, p).psa.manual = ManualAcc(c, p) /\ Derive(c, p).psa.prevRd4 = RadioOn(c)
  BY <1>1 DEF Profile
<1>4. ManualAcc(c, p) => RadioOn(c) /\ ~c.ign /\ (~p.prevRd4 \/ p.manual)
  BY DEF ManualAcc
<1>5. IgnitionState(c, p) # "OFF" /\ ~c.ign => ManualAcc(c, p)
  BY DEF IgnitionState
<1>. QED BY <1>2, <1>3, <1>4, <1>5 DEF InStep, HuWanted

(* A true frame either touches nothing the derivation reads, or ends with  *)
(* the derivation; only 0x165 changes what is known of the radio.          *)
LEMMA TrueFrameDecoded ==
  ASSUME NEW id \in FrameIds, NEW reverse \in BOOLEAN, NEW light \in BOOLEAN,
         car \in Car, psa \in Profile, CarTypeOK,
         NEW new, new = Decode(TrueFrame(id, reverse, light), car, psa)
  PROVE  /\ RadioOn(new.car) \in {RadioOn(car), radio}
         /\ id = "165" => InStep(new, psa) /\ RadioOn(new.car) = radio
         /\ id # "165" => RadioOn(new.car) = RadioOn(car)
         /\ \/ InStep(new, psa)
            \/ /\ new.psa = psa
               /\ new.car.ign = car.ign /\ new.car.acc = car.acc
               /\ RadioOn(new.car) = RadioOn(car)
<1> DEFINE f == TrueFrame(id, reverse, light)
<1>1. CASE id = "036"
  <2> DEFINE q == [psa EXCEPT !.rev036 = f.reverse]
             d == [car EXCEPT !.reverse = IF psa.have0f6 THEN psa.rev0f6 ELSE f.reverse,
                              !.eco = IF f.dlc >= 3 THEN f.eco ELSE @,
                              !.night = IF f.dlc >= 4 THEN f.night ELSE @,
                              !.ign = IF f.dlc >= 5
                                      THEN IF psa.have0f6 THEN psa.ign0f6 ELSE f.key ELSE @]
  <2>1. /\ f.id = "036" /\ f.dlc = 5 /\ f.reverse \in BOOLEAN /\ f.eco \in BOOLEAN
        /\ f.night \in BOOLEAN /\ f.key \in BOOLEAN
    BY <1>1 DEF TrueFrame, CarTypeOK
  <2>2. new = Derive(d, q)
    BY <2>1 DEF Decode, Decode036
  <2>3. q \in Profile /\ q.prevRd4 = psa.prevRd4 /\ q.manual = psa.manual
    BY <2>1 DEF Profile
  <2>4. d \in Car /\ RadioOn(d) = RadioOn(car)
    BY <2>1 DEF Car, Profile, RadioOn
  <2> HIDE DEF d, q
  <2>5. InStep(new, q) /\ RadioOn(new.car) = RadioOn(d)
    BY <2>2, <2>3, <2>4, DeriveInStep
  <2>. QED BY <1>1, <2>3, <2>4, <2>5 DEF InStep
<1>2. CASE id = "0F6"
  <2> DEFINE q == [psa EXCEPT !.have0f6 = TRUE, !.ign0f6 = f.key, !.rev0f6 = f.reverse]
             d == [car EXCEPT !.ign = f.key, !.reverse = f.reverse]
  <2>1. f.id = "0F6" /\ f.dlc = 8 /\ f.reverse \in BOOLEAN /\ f.key \in BOOLEAN
    BY <1>2 DEF TrueFrame, CarTypeOK
  <2>2. new = Derive(d, q)
    BY <2>1 DEF Decode, Decode0F6
  <2>3. q \in Profile /\ q.prevRd4 = psa.prevRd4 /\ q.manual = psa.manual
    BY <2>1 DEF Profile
  <2>4. d \in Car /\ RadioOn(d) = RadioOn(car)
    BY <2>1 DEF Car, RadioOn
  <2> HIDE DEF d, q
  <2>5. InStep(new, q) /\ RadioOn(new.car) = RadioOn(d)
    BY <2>2, <2>3, <2>4, DeriveInStep
  <2>. QED BY <1>2, <2>3, <2>4, <2>5 DEF InStep
<1>3. CASE id = "128"
  <2>1. f.id = "128"
    BY <1>3 DEF TrueFrame
  <2>2. new.psa = psa /\ (new.car = car \/ new.car = [car EXCEPT !.ext = f.ext])
    BY <2>1 DEF Decode, Decode128
  <2>. QED BY <1>3, <2>2 DEF Car, RadioOn
<1>4. CASE id = "165"
  <2> DEFINE d == [car EXCEPT !.present = TRUE,
                              !.sleep = (f.radio = "standby"),
                              !.powered = (f.radio = "on")]
  <2>1. f.id = "165" /\ f.radio = IF radio THEN "on" ELSE "standby"
    BY <1>4 DEF TrueFrame
  <2>2. new = Derive(d, psa)
    BY <2>1 DEF Decode, Decode165
  <2>3. d \in Car /\ RadioOn(d) = radio
    BY <2>1 DEF Car, RadioOn, CarTypeOK
  <2> HIDE DEF d
  <2>4. InStep(new, psa) /\ RadioOn(new.car) = RadioOn(d)
    BY <2>2, <2>3, DeriveInStep
  <2>. QED BY <1>4, <2>3, <2>4
<1>. QED BY <1>1, <1>2, <1>3, <1>4 DEF FrameIds

(* A frame of the real car keeps the cause: only the radio's own frame     *)
(* makes it come on in the box, and a radio remembered to be on makes no   *)
(* edge.                                                                   *)
LEMMA SendKeepsCause ==
  ASSUME ParkedInv, NEW id \in FrameIds, Send(id)
  PROVE  ParkedInv'
<1>1. PICK reverse \in BOOLEAN, light \in BOOLEAN : ProcessCan(TrueFrame(id, reverse, light))
  BY DEF Send
<1>2. /\ alive /\ UNCHANGED <<key, radio, knob, economy, alive>>
      /\ announced' = (announced /\ ~(id = "165" /\ key))
  BY DEF Send
<1> DEFINE f == TrueFrame(id, reverse, light)
           new == Decode(f, car, psa)
<1>3. IInv'
  BY <1>1, TrueFrameIsFrame, ProcessCanIInv DEF ParkedInv
<1>4. CarTypeOK'
  BY <1>2 DEF ParkedInv, CarTypeOK
<1>5. car' = new.car /\ psa' = new.psa
  BY <1>1 DEF ProcessCan
<1>6. /\ id = "165" => InStep(new, psa) /\ RadioOn(new.car) = radio
      /\ id # "165" => RadioOn(new.car) = RadioOn(car)
      /\ \/ InStep(new, psa)
         \/ /\ new.psa = psa
            /\ new.car.ign = car.ign /\ new.car.acc = car.acc
            /\ RadioOn(new.car) = RadioOn(car)
  BY TrueFrameDecoded DEF ParkedInv, IInv, TypeOK
<1> HIDE DEF new
<1>7. CauseInv'
  <2>1. RadioOn(car)' = RadioOn(new.car) /\ HuWanted(car)' = HuWanted(new.car)
    BY <1>5 DEF RadioOn, HuWanted
  <2>2. HuWanted(new.car) = (new.car.acc # "OFF") /\ HuWanted(car) = (car.acc # "OFF")
    BY DEF HuWanted
  <2>3. radio /\ RadioOn(new.car) /\ ~announced' => psa'.prevRd4
    BY <1>2, <1>5, <1>6 DEF ParkedInv, CauseInv, InStep
  <2>4. ~key /\ radio /\ ~knob /\ ~announced'
        => RadioOn(new.car) /\ ~psa'.manual /\ (HuWanted(new.car) => car'.ign)
    BY <1>2, <1>5, <1>6, <2>2 DEF ParkedInv, CauseInv, InStep
  <2>5. psa'.manual => ~car'.ign
    BY <1>5, <1>6 DEF ParkedInv, CauseInv, InStep
  <2>. QED BY <1>2, <2>1, <2>3, <2>4, <2>5 DEF CauseInv
<1>. QED BY <1>3, <1>4, <1>7 DEF ParkedInv

LEMMA ParkedInitInv == ParkedInit => ParkedInv
<1> SUFFICES ASSUME ParkedInit PROVE ParkedInv
  OBVIOUS
<1>1. IInv
  BY InitIInv DEF ParkedInit
<1>2. CarTypeOK /\ CauseInv
  BY DEF ParkedInit, Init, NewCar, NewProfile, CarTypeOK, CauseInv, RadioOn, HuWanted
<1>. QED BY <1>1, <1>2 DEF ParkedInv

LEMMA ParkedNextInv == ParkedInv /\ [ParkedNext]_allVars => ParkedInv'
<1> SUFFICES ASSUME ParkedInv, [ParkedNext]_allVars PROVE ParkedInv'
  OBVIOUS
<1> USE DEF ParkedInv
<1>1. ASSUME NEW id \in FrameIds, Send(id) PROVE ParkedInv'
  BY <1>1, SendKeepsCause
<1>2. ASSUME UNCHANGED vars PROVE IInv' /\ RadioOn(car)' = RadioOn(car) /\ HuWanted(car)' = HuWanted(car)
  BY <1>2, NextIInv DEF vars, RadioOn, HuWanted
<1>3. CASE TurnKey
  <2>1. CarTypeOK'
    BY <1>3 DEF TurnKey, CarTypeOK
  <2>. QED
    BY <1>2, <1>3, <2>1 DEF TurnKey, Heard, CarTypeOK, CauseInv, vars
<1>4. CASE PressKnob
  <2>1. CarTypeOK'
    BY <1>4 DEF PressKnob, CarTypeOK
  <2>. QED
    BY <1>2, <1>4, <2>1 DEF PressKnob, Heard, CarTypeOK, CauseInv, vars
<1>5. CASE SaveBattery
  <2>1. CarTypeOK'
    BY <1>5 DEF SaveBattery, CarTypeOK
  <2>. QED
    BY <1>2, <1>5, <2>1 DEF SaveBattery, CauseInv, vars
<1>6. CASE StartEngine \/ BusWakes \/ BusSleeps
  <2>1. CarTypeOK'
    BY <1>6 DEF StartEngine, BusWakes, BusSleeps, CarTypeOK
  <2>. QED
    BY <1>2, <1>6, <2>1 DEF StartEngine, BusWakes, BusSleeps, Heard, CarTypeOK, CauseInv, vars
<1>7. CASE Tick
  <2>1. UNCHANGED <<key, radio, knob, economy, alive, announced>>
    BY <1>7 DEF Tick, carVars
  <2>2. IInv'
    BY <1>7, NextIInv DEF Tick, Next
  <2>3. CarTypeOK'
    BY <2>1 DEF CarTypeOK
  <2>4. CASE TickQuiet
    BY <2>1, <2>2, <2>3, <2>4 DEF TickQuiet, CauseInv, RadioOn, HuWanted
  <2>5. CASE ~alive /\ FallAsleep
    <3>1. /\ car' = [car EXCEPT !.ign = FALSE, !.powered = FALSE, !.sleep = FALSE,
                                !.eco = FALSE, !.acc = "OFF"]
          /\ psa' = psa
      BY <2>5 DEF FallAsleep
    <3>2. car'.powered = FALSE /\ car'.acc = "OFF"
      BY <3>1 DEF IInv, TypeOK, Car
    <3>3. RadioOn(car)' = FALSE /\ HuWanted(car)' = FALSE
      BY <3>2 DEF RadioOn, HuWanted
    <3>4. ~key /\ ~radio /\ ~alive
      BY <2>5 DEF CauseInv
    <3>5. car'.ign = FALSE
      BY <3>1 DEF IInv, TypeOK, Car
    <3>6. CauseInv'
      BY <2>1, <3>3, <3>4, <3>5 DEF CauseInv
    <3>. QED BY <2>2, <2>3, <3>6
  <2>. QED BY <1>7, <2>4, <2>5 DEF Tick
<1>8. CASE HeadUnitAnnounces
  <2>1. /\ Handshake /\ announced' = (announced \/ radio)
        /\ UNCHANGED <<key, radio, knob, economy, alive>>
    BY <1>8 DEF HeadUnitAnnounces
  <2>2. IInv'
    BY <2>1, NextIInv DEF Next
  <2>3. CarTypeOK'
    BY <2>1 DEF CarTypeOK
  <2>4. psa'.manual = FALSE /\ car' = car
    BY <2>1 DEF Handshake, NewProfile
  <2>. QED BY <2>1, <2>2, <2>3, <2>4 DEF CauseInv, RadioOn, HuWanted
<1>9. CASE UNCHANGED allVars
  BY <1>2, <1>9 DEF allVars, carVars, vars, CarTypeOK, CauseInv
<1>. QED
  BY <1>1, <1>3, <1>4, <1>5, <1>6, <1>7, <1>8, <1>9 DEF ParkedNext

(* The box in the real car is the box of RouterPower: every step of the    *)
(* composition is one of its steps or leaves it alone, so all that is      *)
(* proved of the power lines holds in the car.                             *)
THEOREM ParkedIsRouter == ParkedSpec => Spec
<1>1. ParkedInit => Init /\ CarTypeOK
  BY DEF ParkedInit, CarTypeOK
<1>2. CarTypeOK /\ [ParkedNext]_allVars => CarTypeOK'
  <2> SUFFICES ASSUME CarTypeOK, [ParkedNext]_allVars PROVE CarTypeOK'
    OBVIOUS
  <2>1. ASSUME NEW id \in FrameIds, Send(id) PROVE CarTypeOK'
    BY <2>1 DEF Send, carVars, CarTypeOK
  <2>2. CASE TurnKey \/ PressKnob
    BY <2>2 DEF TurnKey, PressKnob, CarTypeOK
  <2>3. CASE SaveBattery \/ StartEngine \/ BusWakes \/ BusSleeps
    BY <2>3 DEF SaveBattery, StartEngine, BusWakes, BusSleeps, CarTypeOK
  <2>4. CASE Tick \/ HeadUnitAnnounces \/ UNCHANGED allVars
    BY <2>4 DEF Tick, HeadUnitAnnounces, allVars, carVars, CarTypeOK
  <2>. QED BY <2>1, <2>2, <2>3, <2>4 DEF ParkedNext
<1>3. CarTypeOK /\ [ParkedNext]_allVars => [Next]_vars
  <2> SUFFICES ASSUME CarTypeOK, [ParkedNext]_allVars PROVE [Next]_vars
    OBVIOUS
  <2>1. ASSUME NEW id \in FrameIds, Send(id) PROVE Next
    <3>1. PICK reverse \in BOOLEAN, light \in BOOLEAN : ProcessCan(TrueFrame(id, reverse, light))
      BY <2>1 DEF Send
    <3>. QED BY <3>1, TrueFrameIsFrame DEF Next
  <2>2. CASE TurnKey \/ PressKnob \/ SaveBattery \/ StartEngine \/ BusWakes \/ BusSleeps
    BY <2>2 DEF TurnKey, PressKnob, SaveBattery, StartEngine, BusWakes, BusSleeps
  <2>3. CASE Tick \/ HeadUnitAnnounces \/ UNCHANGED allVars
    BY <2>3 DEF Tick, HeadUnitAnnounces, allVars, Next
  <2>. QED BY <2>1, <2>2, <2>3 DEF ParkedNext
<1>. QED BY <1>1, <1>2, <1>3, PTL DEF ParkedSpec, Spec

(* In a real car, whatever the head unit announces and when: power with    *)
(* the key off has a cause.  The driver switched the radio on after the    *)
(* key was turned off, or psa_init wiped the memory of a playing radio.    *)
(* And whatever the key says, there is none while the battery is saved.    *)
THEOREM ParkedPowerHasCause == ParkedSpec => []PowerHasCause
<1>1. ParkedInv => PowerHasCause
  <2> SUFFICES ASSUME ParkedInv, pins.hu
               PROVE  /\ ~car.eco
                      /\ Heard /\ ~key => knob \/ announced
    BY DEF PowerHasCause
  <2>0. ~car.eco
    BY DEF ParkedInv, IInv, SentInv, Justified, HuWanted
  <2> SUFFICES ASSUME Heard, ~key PROVE knob \/ announced
    BY <2>0
  <2>1. HuWanted(car) /\ ~car.ign /\ car.acc # "OFF"
    BY DEF ParkedInv, IInv, SentInv, Heard, HuWanted
  <2>2. RadioOn(car) /\ radio
    BY <2>1 DEF ParkedInv, IInv, Justified, Heard
  <2>. QED BY <2>1, <2>2 DEF ParkedInv, CauseInv
<1>. QED BY ParkedInitInv, ParkedNextInv, <1>1, PTL DEF ParkedSpec
=============================================================================
