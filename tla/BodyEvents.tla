----------------------------- MODULE BodyEvents -----------------------------
(***************************************************************************)
(* What the box tells the head unit the moment it changes: keys of the     *)
(* stalk and the console, doors, climate, tyres, parking radar and the     *)
(* steering angle (profiles/psa_407_hvac_body.c, psa_407_telemetry.c and   *)
(* profile_psa.c decode them, core/can_router.c compares with what was     *)
(* sent last).  And the way back for the climate: without a factory        *)
(* display (MDF) the box repeats a demand 0x1ED to the climate computer,   *)
(* made from its status and the head unit's commands                       *)
(* (profiles/psa_407_car_config.c).                                        *)
(*                                                                         *)
(* Every value of a sensor is one of a few; the four tyres and the six     *)
(* zones of the radar go the same way and are one each.  The head unit     *)
(* does not restart here (HiworldLink repeats to it all it needs), but it  *)
(* announces itself, which re-initialises the decoders.                    *)
(***************************************************************************)
EXTENDS Naturals

CONSTANTS Stalk,        \* the keys of CAN 0x21F in use
          ButtonCount,  \* the buttons of the console, by their place in k_console_map
          DemandTicks,  \* 0x1ED is repeated so often (500 ms: 5)
          StatusTicks,  \* and 0x1E3 comes so often (200 ms: 2)
          Scopes,       \* bound: the parts of the car that change in one behaviour
          MaxActs       \* bound: acts of the driver, the car and the head unit

Volume == {"volUp", "volDown"}
Place == [mute |-> 1, volUp |-> 2, volDown |-> 3, next |-> 4, prev |-> 5, src |-> 6]
Tips == {"trip", "left"}
Buttons == 1 .. ButtonCount
None == "none"
Parts == {"keys", "console", "doors", "climate", "tyres", "reverse"}

ASSUME BodyAssumption ==
  /\ Stalk \subseteq DOMAIN Place \ {"mute"}
  /\ ButtonCount \in Nat /\ MaxActs \in Nat /\ Scopes \subseteq SUBSET Parts
  /\ StatusTicks \in Nat \ {0} /\ DemandTicks \in Nat /\ StatusTicks < DemandTicks

VARIABLES car,     \* what sensors and climate computer send next
          dec,     \* the decoders' memory: g_stalk_state, g_console_state,
                   \* s_has_direct_pressures
          cur,     \* s_current_state
          last,    \* s_last_sent_state
          synced,  \* s_angle_reverse_synced
          hu,      \* what the head unit was told last
         newest,  \* which the driver changed last, "key" or "angle" (ghost)
          demand,  \* s_mdf_1ed_state, s_mdf_1ed_init and the 500 ms count
          mdf,     \* psa_car_config_is_mdf_present
          age,     \* ticks since 0x1E3
          ghost,   \* see Init
          scope,   \* the parts that change
          acts     \* acts so far

router == <<cur, last, synced, hu, newest>>
vars == <<car, dec, router, demand, mdf, age, ghost, scope, acts>>

Climate == [ac : BOOLEAN, dual : BOOLEAN]
AllOn == [ac |-> TRUE, dual |-> TRUE]

(* psa_stalk_init, psa_console_init, psa_tpms_init *)
NewDecoders == [stalk |-> {}, tips |-> {}, rotary |-> FALSE, button |-> 0, direct |-> FALSE]
(* psa_car_config_init *)
NewDemand == [is |-> AllOn, known |-> FALSE, count |-> 0]

Untold == [key |-> None, panel |-> 0, doors |-> {}, climate |-> AllOn, rear |-> FALSE,
           tyres |-> [valid |-> FALSE, bar |-> 0, alarm |-> 0],
           radar |-> 7, reverse |-> FALSE, angle |-> 0]

Init ==
  /\ \E c \in Climate :
       /\ car = [keys |-> {}, buttons |-> {}, turn |-> None, doors |-> {}, climate |-> c,
                 rear |-> FALSE, tyre |-> "standby", bar |-> 0, radar |-> 7,
                 reverse |-> FALSE, angle |-> 0, on |-> TRUE]
       (* held: shown over a handshake; buttons: in the last 0x3E5; bar:   *)
       (* measured last, 0 if never since the handshake; wanted: the       *)
       (* climate; blind: changed when the box could not know the rest.    *)
       /\ ghost = [held |-> {}, buttons |-> {}, bar |-> 0, wanted |-> c, blind |-> FALSE]
  /\ dec = NewDecoders
  /\ cur = Untold /\ last = Untold /\ synced = FALSE /\ hu = Untold /\ newest = "key"
  /\ demand = NewDemand /\ mdf \in BOOLEAN /\ age = 0
  /\ scope \in Scopes /\ acts = 0

-----------------------------------------------------------------------------
(* The adapter's messages to the head unit: each tells all of one part of  *)
(* the state, those of the tyres only when something is known of them.     *)
(* Key and steering angle share one message, Cmd 0x11: the one of the key  *)
(* carries no angle, and the one of the angle no key.                      *)
SendWheelKey(h, c) == [h EXCEPT !.key = c.key, !.angle = 0]
SendPanelKey(h, c) == [h EXCEPT !.panel = c.panel]
SendDoors(h, c) == [h EXCEPT !.doors = c.doors]
SendClimate(h, c) == [h EXCEPT !.climate = c.climate, !.rear = c.rear]
SendPressures(h, c) ==
  IF c.tyres.valid THEN [h EXCEPT !.tyres.valid = TRUE, !.tyres.bar = c.tyres.bar] ELSE h
SendAlarms(h, c) ==
  IF c.tyres.valid THEN [h EXCEPT !.tyres.valid = TRUE, !.tyres.alarm = c.tyres.alarm] ELSE h
SendSteeringAngle(h, c) == [h EXCEPT !.key = None, !.angle = c.angle]
SendRadar(h, c) == [h EXCEPT !.radar = c.radar]

(* can_router_process_can: what differs from the state sent last is sent.  *)
(* A turn of the rotary key is pressed and released at once.               *)
Scrolls == {"up", "down"}
Settled(c) == [c EXCEPT !.key = IF @ \in Scrolls THEN None ELSE @]

TellKeys(h, c) ==
  LET g == IF c.key # last.key THEN SendWheelKey(h, Settled(c)) ELSE h
  IN  IF c.panel # last.panel THEN SendPanelKey(g, c) ELSE g

TellDoors(h, c) == IF c.doors # last.doors THEN SendDoors(h, c) ELSE h

TellClimate(h, c) ==
  IF c.climate # last.climate \/ c.rear # last.rear THEN SendClimate(h, c) ELSE h

(* Pressures and alarms are two messages; the first time both are sent.    *)
(* Mutant: new pressures keep new alarms from being sent.                  *)
News(f, c) == ~last.tyres.valid \/ c.tyres[f] # last.tyres[f]
TellTyresOne(h, c) ==
  IF News("bar", c) THEN SendPressures(h, c)
  ELSE IF News("alarm", c) THEN SendAlarms(h, c) ELSE h
TellTyres(h, c) ==
  LET g == IF News("bar", c) THEN SendPressures(h, c) ELSE h
  IN  IF News("alarm", c) THEN SendAlarms(g, c) ELSE g

(* The steering angle is sent in reverse only, and again in every reverse. *)
Steers(c) == c.reverse /\ (c.angle # last.angle \/ ~synced)
TellAngle(h, c) == IF Steers(c) THEN SendSteeringAngle(h, c) ELSE h

TellRadar(h, c) == IF c.radar # last.radar THEN SendRadar(h, c) ELSE h

(* What the driver changed last of the two that share a message.           *)
Newest(c) ==
  IF c.reverse /\ (~cur.reverse \/ c.angle # cur.angle) THEN "angle"
  ELSE IF c.key # cur.key THEN "key" ELSE newest

Route(c) ==
  LET inside == TellTyres(TellClimate(TellDoors(TellKeys(hu, c), c), c), c)
  IN /\ hu' = TellRadar(TellAngle(inside, c), c)
     /\ cur' = Settled(c)
     /\ last' = [Settled(c) EXCEPT !.angle = IF Steers(c) THEN @ ELSE last.angle,
                                   !.tyres = IF c.tyres.valid THEN @ ELSE last.tyres]
     /\ synced' = c.reverse
     /\ newest' = Newest(c)

Takes(c, d) == dec' = d /\ Route(c) /\ UNCHANGED <<demand, mdf, scope, acts>>

-----------------------------------------------------------------------------
(* CAN 0x21F (psa_decode_stalk_0x21f, stalk_key_cb).  Both volume keys     *)
(* together are the mute key, and neither counts by itself until both were *)
(* seen apart again.                                                       *)
Chord(keys) == Volume \subseteq keys
Seen(keys) == IF Chord(keys) THEN (keys \ Volume) \cup {"mute"} ELSE keys

Changed(now) ==
  {k \in DOMAIN Place : (k \in Seen(now)) # (k \in Seen(dec.stalk))}
  \ (IF Chord(now) \/ Chord(dec.stalk) THEN Volume ELSE {})

(* The head unit is told of one key: the change handled last decides, and  *)
(* the release of any key releases it.  Mutant: only its own release does, *)
(* as for the tips.                                                        *)
KeyAfterOwn(now) ==
  LET k == CHOOSE k \in Changed(now) : \A j \in Changed(now) : Place[j] <= Place[k]
  IN IF Changed(now) = {} THEN cur.key
     ELSE IF k \in Seen(now) THEN k ELSE IF cur.key = k THEN None ELSE cur.key

KeyAfter(now) ==
  LET k == CHOOSE k \in Changed(now) : \A j \in Changed(now) : Place[j] <= Place[k]
  IN IF Changed(now) = {} THEN cur.key ELSE IF k \in Seen(now) THEN k ELSE None

Forgets(key, panel) ==
  [ghost EXCEPT !.held = @ \ ((IF key # hu.key THEN {"key"} ELSE {})
                              \cup (IF panel # hu.panel THEN {"panel"} ELSE {}))]

(* The first position of the rotary key is only remembered.                *)
Frame21F ==
  LET now == car.keys \cap Stalk
      key == IF dec.rotary /\ car.turn # None THEN car.turn ELSE KeyAfter(now)
  IN /\ Takes([cur EXCEPT !.key = key], [dec EXCEPT !.stalk = now, !.rotary = TRUE])
     /\ car' = [car EXCEPT !.turn = None]
     /\ ghost' = Forgets(hu'.key, hu.panel)
     /\ UNCHANGED age

(* CAN 0x221, psa_stalk_process_tip_0x221: a tip is released only if it is *)
(* the key on display.                                                     *)
TipAfter(now) ==
  IF "trip" \in now \ dec.tips THEN "trip"
  ELSE IF "left" \in now \ dec.tips THEN "left"
  ELSE IF cur.key \in dec.tips \ now THEN None
  ELSE cur.key

Frame221 ==
  LET now == car.keys \cap Tips
  IN /\ Takes([cur EXCEPT !.key = TipAfter(now)], [dec EXCEPT !.tips = now])
     /\ ghost' = Forgets(hu'.key, hu.panel)
     /\ UNCHANGED <<car, age>>

(* CAN 0x3E5 (psa_decode_console_0x3e5, console_key_cb): the button on     *)
(* display as long as it is held, then the first other one.                *)
ButtonAfter(now) ==
  IF dec.button \in now THEN dec.button
  ELSE IF now = {} THEN 0 ELSE CHOOSE b \in now : \A c \in now : b <= c

Frame3E5 ==
  LET b == ButtonAfter(car.buttons)
  IN /\ Takes([cur EXCEPT !.panel = IF b = dec.button THEN @ ELSE b],
              [dec EXCEPT !.button = b])
     /\ ghost' = [Forgets(hu.key, hu'.panel) EXCEPT !.buttons = car.buttons]
     /\ UNCHANGED <<car, age>>

-----------------------------------------------------------------------------
(* CAN 0x220, 0x1D0, 0x0E1, 0x10B, and reverse from 0x0F6 or 0x036.        *)
Plain(c) == Takes(c, dec) /\ UNCHANGED <<car, ghost, age>>
Frame220 == Plain([cur EXCEPT !.doors = car.doors])
Frame1D0 == Plain([cur EXCEPT !.rear = car.rear])
Frame0E1 == Plain([cur EXCEPT !.radar = car.radar])
Frame10B == Plain([cur EXCEPT !.angle = car.angle])
FrameGear == Plain([cur EXCEPT !.reverse = car.reverse])

(* CAN 0x3A1: measured pressures, once known not touched by 0x1E1.         *)
Frame3A1 ==
  /\ car.bar # 0
  /\ Takes([cur EXCEPT !.tyres.bar = car.bar, !.tyres.valid = TRUE],
           [dec EXCEPT !.direct = TRUE])
  /\ ghost' = [ghost EXCEPT !.bar = car.bar]
  /\ UNCHANGED <<car, age>>

(* CAN 0x1E1: the state of a tyre, and a pressure to go with it.  Tyres on *)
(* standby are ignored until something is known of them.                   *)
AlarmOf == [ok |-> 0, low |-> 1, flat |-> 2, standby |-> 3]
BarOf == [ok |-> 24, low |-> 17, flat |-> 8, standby |-> 0]

(* Mutant: the pressure that goes with the state is always taken.          *)
SynthesizedAlways(t, tyre) == [valid |-> TRUE, alarm |-> AlarmOf[tyre], bar |-> BarOf[tyre]]

Synthesized(t, tyre) ==
  [valid |-> TRUE, alarm |-> AlarmOf[tyre], bar |-> IF dec.direct THEN t.bar ELSE BarOf[tyre]]

Frame1E1 ==
  IF ~cur.tyres.valid /\ car.tyre = "standby" THEN Plain(cur)
  ELSE Plain([cur EXCEPT !.tyres = Synthesized(@, car.tyre)])

-----------------------------------------------------------------------------
(* psa_clim_sync_1ed_from_1e3.  Mutant: beside an MDF only.                *)
SyncsBesideMdf == mdf
Syncs == ~demand.known \/ mdf

(* CAN 0x1E3: the climate on display; the demand follows it until known.   *)
Frame1E3 ==
  /\ car.on
  /\ dec' = dec /\ Route([cur EXCEPT !.climate = car.climate])
  /\ demand' = IF Syncs THEN [demand EXCEPT !.is = car.climate, !.known = TRUE] ELSE demand
  /\ ghost' = [ghost EXCEPT !.blind = @ /\ ~Syncs]
  /\ age' = 0
  /\ UNCHANGED <<car, mdf, scope, acts>>

(* psa_clim_send_1ed: the result of hal_can_send decides nothing.          *)
Demands(d) == car' \in {car, [car EXCEPT !.climate = d]}

(* psa_car_config_periodic_100ms, its 0x1ED part.  0x1E3 is in time.       *)
Tick ==
  /\ "climate" \in scope
  /\ car.on => age < StatusTicks
  /\ age' = IF car.on THEN age + 1 ELSE 0
  /\ IF mdf THEN UNCHANGED <<car, demand>>
     ELSE IF ~car.on THEN demand' = [demand EXCEPT !.count = 0] /\ car' = car
     ELSE IF demand.count + 1 < DemandTicks
     THEN demand' = [demand EXCEPT !.count = @ + 1] /\ car' = car
     ELSE demand' = [demand EXCEPT !.count = 0] /\ Demands(demand.is)
  /\ UNCHANGED <<dec, router, mdf, ghost, scope, acts>>

-----------------------------------------------------------------------------
Act(part) ==
  /\ part \in scope
  /\ acts < MaxActs /\ acts' = acts + 1
  /\ UNCHANGED scope

(* The head unit's commands 0x3B and 0x7D for compressor and zones         *)
(* (psa_car_config_apply_downlink).                                        *)
Commands(f, val) ==
  /\ Act("climate")
  /\ demand' = [demand EXCEPT !.is[f] = val, !.known = TRUE]
  /\ Demands(demand'.is)
  /\ ghost' = [ghost EXCEPT !.wanted[f] = val, !.blind = @ \/ ~demand.known]
  /\ UNCHANGED <<dec, router, mdf, age>>

(* The same on a real MDF.                                                 *)
MdfCommands(c) ==
  /\ Act("climate") /\ mdf
  /\ car' = [car EXCEPT !.climate = c]
  /\ ghost' = [ghost EXCEPT !.wanted = c, !.blind = TRUE]
  /\ UNCHANGED <<dec, router, demand, mdf, age>>

(* 0x525 is heard, or has not been for 3 s, in which 0x1E3 came.           *)
MdfComesOrGoes ==
  /\ Act("climate") /\ mdf' = ~mdf
  /\ mdf => car.on /\ demand.known /\ ~ghost.blind
  /\ UNCHANGED <<car, dec, router, demand, age, ghost>>

(* psa_init.  The MDF counts as absent until it is heard again.            *)
Handshake ==
  /\ \E part \in Parts : Act(part)
  /\ dec' = NewDecoders /\ demand' = NewDemand /\ mdf' = FALSE
  /\ ghost' = [ghost EXCEPT !.held = {"key", "panel"}, !.bar = 0]
  /\ UNCHANGED <<car, router, age>>

Flip(set, x) == IF x \in set THEN set \ {x} ELSE set \cup {x}

(* The driver and the car.  Measured pressures do not stop.                *)
Happens(part, c) ==
  Act(part) /\ car' = c /\ UNCHANGED <<dec, router, demand, mdf, age, ghost>>

Drives ==
  \/ \E k \in Stalk \cup Tips : Happens("keys", [car EXCEPT !.keys = Flip(@, k)])
  \/ \E t \in Scrolls : Happens("keys", [car EXCEPT !.turn = t])
  \/ \E b \in Buttons : Happens("console", [car EXCEPT !.buttons = Flip(@, b)])
  \/ \E d \in {"driver", "boot"} : Happens("doors", [car EXCEPT !.doors = Flip(@, d)])
  \/ \E t \in DOMAIN BarOf : Happens("tyres", [car EXCEPT !.tyre = t])
  \/ \E b \in {20, 23} : Happens("tyres", [car EXCEPT !.bar = b])
  \/ \E a \in {0, 9} : Happens("reverse", [car EXCEPT !.angle = a])
  \/ \E z \in {0, 3, 7} : Happens("reverse", [car EXCEPT !.radar = z])
  \/ Happens("reverse", [car EXCEPT !.reverse = ~@])
  \/ Happens("climate", [car EXCEPT !.rear = ~@])
  \/ Happens("climate", [car EXCEPT !.on = ~@])

Frame ==
  \/ Frame21F \/ Frame221 \/ Frame3E5
  \/ Frame220 \/ Frame1D0 \/ Frame0E1 \/ Frame10B \/ FrameGear
  \/ Frame3A1 \/ Frame1E1 \/ Frame1E3

Next ==
  \/ Frame \/ Tick \/ Drives
  \/ \E f \in {"ac", "dual"}, val \in BOOLEAN : Commands(f, val)
  \/ \E c \in Climate : MdfCommands(c)
  \/ MdfComesOrGoes \/ Handshake

Spec == Init /\ [][Next]_vars

-----------------------------------------------------------------------------
Told == [key : Stalk \cup Tips \cup {"mute", None}, panel : Buttons \cup {0},
         doors : SUBSET {"driver", "boot"}, climate : Climate, rear : BOOLEAN,
         tyres : [valid : BOOLEAN, bar : {0, 8, 17, 20, 23, 24}, alarm : 0 .. 3],
         radar : {0, 3, 7}, reverse : BOOLEAN, angle : {0, 9}]

TypeOK ==
  /\ dec \in [stalk : SUBSET Stalk, tips : SUBSET Tips, rotary : BOOLEAN,
              button : Buttons \cup {0}, direct : BOOLEAN]
  /\ cur \in Told /\ last \in Told /\ hu \in Told /\ synced \in BOOLEAN
  /\ newest \in {"key", "angle"}
  /\ demand \in [is : Climate, known : BOOLEAN, count : 0 .. DemandTicks - 1]
  /\ mdf \in BOOLEAN /\ age \in 0 .. StatusTicks /\ acts \in 0 .. MaxActs

(* No key is stuck: what the head unit takes for pressed was pressed in    *)
(* the last frame of its kind, however keys overlap and share their one    *)
(* place on display.  A key shown over a handshake is the exception: the   *)
(* decoders forgot it, and its release goes unseen.                        *)
NoStuckKey ==
  /\ hu.key = None \/ hu.key \in Seen(dec.stalk) \cup dec.tips \/ "key" \in ghost.held
  /\ hu.panel = 0 \/ hu.panel \in ghost.buttons \/ "panel" \in ghost.held

(* The head unit was told the present state although only differences to a *)
(* copy are sent, and of the tyres and the steering angle only parts.  Of  *)
(* key and angle, which share a message, it was told the one that changed  *)
(* last and, with it, that the other is at rest: a key frame in reverse    *)
(* straightens the steering on display, and turning the wheel there        *)
(* releases a held key.  Reverse begins with the angle, whatever was told  *)
(* before.                                                                 *)
ShownIsCurrent ==
  /\ \A f \in {"doors", "climate", "rear", "radar", "panel"} : hu[f] = cur[f]
  /\ cur.tyres.valid => hu.tyres = cur.tyres
  /\ newest = "key" => hu.key = cur.key /\ hu.angle = 0
  /\ newest = "angle" => hu.key = None /\ (cur.reverse => hu.angle = cur.angle)

(* Once pressures were measured, the head unit shows what was measured     *)
(* last and never a pressure made up for a tyre's state, unless it         *)
(* announced itself since.                                                 *)
MeasuredStays == ghost.bar # 0 => hu.tyres.bar = ghost.bar

(* The repeated demand changes nothing in the climate that nobody asked    *)
(* for: not after a handshake, when the box starts from defaults, and not  *)
(* when an MDF goes.  The exception is a command given before the box      *)
(* learned the rest from 0x1E3.                                            *)
NoUnaskedClimate ==
  [][ ghost'.blind \/
      \A f \in {"ac", "dual"} :
        car'.climate[f] = car.climate[f] \/ car'.climate[f] = ghost'.wanted[f] ]_vars
=============================================================================
