-------------------------- MODULE CarConfigProofs --------------------------
(***************************************************************************)
(* CarConfig for any set of settings: no request forgets an earlier        *)
(* choice, and the display lags behind the cache after a refusal only.     *)
(***************************************************************************)
EXTENDS CarConfig, TLAPS

LEMMA DecodeType ==
  ASSUME NEW c \in Status, NEW old \in Decoded
  PROVE  Decode(c, old) \in Decoded
<1>1. DelaySec(c.nibble) \in {0, 15, 30, 60}  BY DEF DelaySec
<1>2. c.on \in SUBSET Settings  BY DEF Status
<1> QED  BY <1>1, <1>2 DEF Decode, Decoded

(* Decoding the same status again changes nothing.                         *)
LEMMA DecodeTwice ==
  ASSUME NEW c, NEW old
  PROVE  Decode(c, Decode(c, old)) = Decode(c, old)
  BY DEF Decode

LEMMA FactoryType == ASSUME NEW on \in SUBSET Settings PROVE Factory(on) \in Status
  BY DEF Factory, Status, Profiles, Bits

(* The requests are complete status frames; each changes its own setting.  *)
LEMMA ToggledType ==
  ASSUME cache \in Status, NEW s \in Settings, NEW val \in BOOLEAN
  PROVE  /\ Toggled(s, val) \in Status
         /\ Toggled(s, val).on = IF val THEN cache.on \cup {s} ELSE cache.on \ {s}
<1>1. 1 \in Profiles  BY DEF Profiles
<1> QED  BY <1>1 DEF Toggled, Status

LEMMA FollowMeType ==
  ASSUME cache \in Status, NEW bit \in {0, 1, 2, 4}
  PROVE  FollowMe(bit) \in Status /\ FollowMe(bit).on = cache.on
<1>1. 1 \in Profiles  BY DEF Profiles
<1>2. ((cache.nibble \ {1, 2, 4}) \cup (IF bit = 0 THEN {1} ELSE {bit})) \in SUBSET Bits
  BY DEF Status, Bits
<1>3. (bit # 0) \in BOOLEAN  OBVIOUS
<1> QED  BY <1>1, <1>2, <1>3 DEF FollowMe, Status

LEMMA BrightnessType ==
  ASSUME cache \in Status, NEW bits \in SUBSET Bits
  PROVE  Brightness(bits) \in Status /\ Brightness(bits).on = cache.on
<1>1. 1 \in Profiles  BY DEF Profiles
<1> QED  BY <1>1 DEF Brightness, Status

LEMMA ProfileType ==
  ASSUME cache \in Status, NEW p \in Profiles
  PROVE  Profile(p) \in Status /\ Profile(p).on = cache.on
  BY DEF Profile, Status

LEMMA SendType ==
  ASSUME TypeOK, NEW req \in Status, Send(req)
  PROVE  /\ cache' \in Status /\ valid' \in BOOLEAN /\ cfg' \in Decoded
         /\ bsi' \in Status /\ refused' \in BOOLEAN /\ mdf' \in 0 .. MdfUnits
         /\ plugged' \in BOOLEAN
<1>1. Decode(req, cfg) \in Decoded  BY DecodeType DEF TypeOK
<1> QED  BY <1>1 DEF Send, TypeOK

LEMMA ActType == ASSUME TypeOK, Act PROVE acts' \in 0 .. MaxActs
  BY ConfigAssumption DEF Act, TypeOK

(* Every frame kept or sent is a complete status, every age in its range.  *)
THEOREM TypeCorrect == Spec => []TypeOK
<1> USE ConfigAssumption
<1>1. Init => TypeOK
  <2> SUFFICES ASSUME Init PROVE TypeOK  OBVIOUS
  <2>1. cache \in Status /\ bsi \in Status
    BY FactoryType DEF Init, DefaultCache
  <2>2. cfg \in Decoded  BY DEF Init, Decoded
  <2>3. MdfUnits \in 0 .. MdfUnits /\ 0 \in 0 .. MaxActs  OBVIOUS
  <2>4. chosen \in [Settings -> {"none", "on", "off"}]  BY DEF Init
  <2> QED  BY <2>1, <2>2, <2>3, <2>4 DEF Init, TypeOK
<1>2. TypeOK /\ [Next]_vars => TypeOK'
  <2> SUFFICES ASSUME TypeOK, [Next]_vars PROVE TypeOK'  OBVIOUS
  <2>1. CASE Adopt260
    <3>1. cache' \in Status /\ valid' \in BOOLEAN
      BY <2>1 DEF Adopt260, TakeStatus, TypeOK
    <3>2. Decode(cache', cfg) \in Decoded  BY <3>1, DecodeType DEF TypeOK
    <3>3. cfg' \in Decoded  BY <2>1, <3>2 DEF Adopt260, TakeStatus, TypeOK
    <3>4. session' \subseteq Settings /\ refused' \in BOOLEAN
      BY <2>1 DEF Adopt260, TypeOK
    <3> QED  BY <2>1, <3>1, <3>3, <3>4 DEF Adopt260, TypeOK
  <2>2. CASE Frame525
    BY <2>2 DEF Frame525, ghosts, TypeOK
  <2>3. CASE Tick
    <3>1. mdf' \in 0 .. MdfUnits  BY <2>3 DEF Tick, Older, TypeOK
    <3> QED  BY <2>3, <3>1 DEF Tick, ghosts, TypeOK
  <2>4. CASE Handshake
    <3>1. cache' \in Status  BY <2>4, FactoryType DEF Handshake, DefaultCache
    <3>2. acts' \in 0 .. MaxActs  BY <2>4, ActType DEF Handshake
    <3>3. MdfUnits \in 0 .. MdfUnits  OBVIOUS
    <3> QED  BY <2>4, <3>1, <3>2, <3>3 DEF Handshake, TypeOK
  <2>5. CASE BsiChanges
    <3>1. bsi' \in Status
      <4>1. Factory({}) \in Status /\ Factory(Settings) \in Status  BY FactoryType
      <4>2. 3 - bsi.id \in Profiles  BY DEF TypeOK, Status, Profiles
      <4>3. [bsi EXCEPT !.id = 3 - bsi.id] \in Status  BY <4>2 DEF TypeOK, Status
      <4> QED  BY <2>5, <4>1, <4>3 DEF BsiChanges
    <3>2. acts' \in 0 .. MaxActs  BY <2>5, ActType DEF BsiChanges
    <3> QED  BY <2>5, <3>1, <3>2 DEF BsiChanges, box, ghosts, TypeOK
  <2>6. ASSUME NEW s \in Settings, NEW val \in BOOLEAN, SetToggle(s, val) PROVE TypeOK'
    <3>1. Toggled(s, val) \in Status  BY ToggledType DEF TypeOK
    <3>2. Send(Toggled(s, val)) /\ acts' \in 0 .. MaxActs  BY <2>6, ActType DEF SetToggle
    <3>3. chosen' \in [Settings -> {"none", "on", "off"}] /\ session' \subseteq Settings
      BY <2>6 DEF SetToggle, TypeOK
    <3> QED  BY <3>1, <3>2, <3>3, SendType DEF TypeOK
  <2>7. ASSUME NEW bit \in {0, 1, 2, 4}, SetFollowMe(bit) PROVE TypeOK'
    <3>1. FollowMe(bit) \in Status  BY FollowMeType DEF TypeOK
    <3>2. Send(FollowMe(bit)) /\ acts' \in 0 .. MaxActs  BY <2>7, ActType DEF SetFollowMe
    <3> QED  BY <2>7, <3>1, <3>2, SendType DEF SetFollowMe, TypeOK
  <2>8. ASSUME NEW bits \in SUBSET Bits, SetBrightness(bits) PROVE TypeOK'
    <3>1. Brightness(bits) \in Status  BY BrightnessType DEF TypeOK
    <3>2. Send(Brightness(bits)) /\ acts' \in 0 .. MaxActs  BY <2>8, ActType DEF SetBrightness
    <3> QED  BY <2>8, <3>1, <3>2, SendType DEF SetBrightness, TypeOK
  <2>9. ASSUME NEW p \in Profiles, SelectProfile(p) PROVE TypeOK'
    <3>1. Profile(p) \in Status  BY ProfileType DEF TypeOK
    <3>2. Send(Profile(p)) /\ acts' \in 0 .. MaxActs  BY <2>9, ActType DEF SelectProfile
    <3> QED  BY <2>9, <3>1, <3>2, SendType DEF SelectProfile, TypeOK
  <2>10. CASE UNCHANGED vars
    BY <2>10 DEF vars, box, ghosts, TypeOK
  <2>11. {{}, {1, 2}, Bits} \subseteq SUBSET Bits  BY DEF Bits
  <2> QED
    BY <2>1, <2>2, <2>3, <2>4, <2>5, <2>6, <2>7, <2>8, <2>9, <2>10, <2>11
    DEF Next, Frame260, Ignore260
<1> QED  BY <1>1, <1>2, PTL DEF Spec

-----------------------------------------------------------------------------
(* Read, modify, write: a request carries every choice made since the last *)
(* status was adopted (psa_car_config_apply_downlink).                     *)
THEOREM ChoicesKept == Spec => []NoChoiceLost
<1>1. Init => NoChoiceLost  BY DEF Init, NoChoiceLost
<1>2. TypeOK /\ NoChoiceLost /\ [Next]_vars => NoChoiceLost'
  <2> SUFFICES ASSUME TypeOK, NoChoiceLost, [Next]_vars PROVE NoChoiceLost'  OBVIOUS
  <2>0. ASSUME session' = session, chosen' = chosen, cache'.on = cache.on
        PROVE  NoChoiceLost'
    BY <2>0 DEF NoChoiceLost
  <2>1. CASE Adopt260
    <3>1. CASE bsi.id = 1
      BY <2>1, <3>1 DEF Adopt260, NoChoiceLost
    <3>2. CASE bsi.id # 1
      BY <2>0, <2>1, <3>2 DEF Adopt260, TakeStatus
    <3> QED  BY <3>1, <3>2
  <2>2. CASE Frame525 \/ Tick \/ BsiChanges \/ UNCHANGED vars
    BY <2>0, <2>2 DEF Frame525, Tick, BsiChanges, vars, box, ghosts
  <2>3. CASE Handshake
    BY <2>3 DEF Handshake, NoChoiceLost
  <2>4. ASSUME NEW s \in Settings, NEW val \in BOOLEAN, SetToggle(s, val) PROVE NoChoiceLost'
    <3>1. cache'.on = IF val THEN cache.on \cup {s} ELSE cache.on \ {s}
      BY <2>4, ToggledType DEF SetToggle, Send, TypeOK
    <3>2. chosen' = [chosen EXCEPT ![s] = IF val THEN "on" ELSE "off"]
      BY <2>4 DEF SetToggle
    <3>3. session' = session \cup {s} /\ session \subseteq Settings
      BY <2>4 DEF SetToggle, TypeOK
    <3>4. ASSUME NEW t \in session' PROVE t \in cache'.on <=> chosen'[t] = "on"
      <4>1. CASE t = s
        BY <3>1, <3>2, <4>1 DEF TypeOK
      <4>2. CASE t # s
        <5>1. t \in session /\ t \in Settings  BY <3>3, <3>4, <4>2
        <5>2. chosen'[t] = chosen[t]  BY <3>2, <4>2, <5>1 DEF TypeOK
        <5>3. t \in cache'.on <=> t \in cache.on  BY <3>1, <4>2
        <5> QED  BY <5>1, <5>2, <5>3 DEF NoChoiceLost
      <4> QED  BY <4>1, <4>2
    <3> QED  BY <3>4 DEF NoChoiceLost
  <2>5. ASSUME NEW bit \in {0, 1, 2, 4}, SetFollowMe(bit) PROVE NoChoiceLost'
    BY <2>0, <2>5, FollowMeType DEF SetFollowMe, Send, TypeOK
  <2>6. ASSUME NEW bits \in SUBSET Bits, SetBrightness(bits) PROVE NoChoiceLost'
    BY <2>0, <2>6, BrightnessType DEF SetBrightness, Send, TypeOK
  <2>7. ASSUME NEW p \in Profiles, SelectProfile(p) PROVE NoChoiceLost'
    BY <2>0, <2>7, ProfileType DEF SelectProfile, Send, TypeOK
  <2>8. {{}, {1, 2}, Bits} \subseteq SUBSET Bits  BY DEF Bits
  <2> QED
    BY <2>1, <2>2, <2>3, <2>4, <2>5, <2>6, <2>7, <2>8 DEF Next, Frame260, Ignore260
<1> QED  BY <1>1, <1>2, TypeCorrect, PTL DEF Spec

-----------------------------------------------------------------------------
(* What is displayed is what the cache says, up to refused requests        *)
(* (psa_set_car_config).                                                   *)
THEOREM DisplayFollowsCache == Spec => []StaleOnlyAfterRefusal
<1>1. Init => StaleOnlyAfterRefusal  BY DEF Init, StaleOnlyAfterRefusal
<1>2. StaleOnlyAfterRefusal /\ [Next]_vars => StaleOnlyAfterRefusal'
  <2> SUFFICES ASSUME StaleOnlyAfterRefusal, [Next]_vars PROVE StaleOnlyAfterRefusal'
    OBVIOUS
  <2>0. ASSUME NEW req, Send(req) PROVE StaleOnlyAfterRefusal'
    <3>1. CASE cfg' = Decode(req, cfg)
      <4>1. cfg' = Decode(req, cfg')  BY <3>1, DecodeTwice
      <4> QED  BY <2>0, <4>1 DEF Send, StaleOnlyAfterRefusal
    <3>2. CASE refused'
      BY <3>2 DEF StaleOnlyAfterRefusal
    <3> QED  BY <2>0, <3>1, <3>2 DEF Send
  <2>1. CASE Adopt260
    <3>1. CASE valid'
      <4>1. cfg' = Decode(cache', cfg)  BY <2>1, <3>1 DEF Adopt260, TakeStatus
      <4>2. cfg' = Decode(cache', cfg')  BY <4>1, DecodeTwice
      <4> QED  BY <4>2 DEF StaleOnlyAfterRefusal
    <3>2. CASE ~valid'
      BY <3>2 DEF StaleOnlyAfterRefusal
    <3> QED  BY <3>1, <3>2
  <2>2. CASE Frame525 \/ Tick \/ BsiChanges \/ UNCHANGED vars
    BY <2>2 DEF Frame525, Tick, BsiChanges, vars, box, ghosts, StaleOnlyAfterRefusal, Decode
  <2>3. CASE Handshake
    BY <2>3 DEF Handshake, StaleOnlyAfterRefusal
  <2> QED
    BY <2>0, <2>1, <2>2, <2>3
    DEF Next, Frame260, Ignore260, SetToggle, SetFollowMe, SetBrightness, SelectProfile
<1> QED  BY <1>1, <1>2, PTL DEF Spec
=============================================================================
