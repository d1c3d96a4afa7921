-------------------------- MODULE BodyEventsProofs --------------------------
(***************************************************************************)
(* BodyEvents for any keys of the stalk, buttons of the console, periods   *)
(* and parts that change: the head unit was told the present state, no key *)
(* sticks, measured pressures win, and the climate demand asks for nothing *)
(* unasked.                                                                *)
(***************************************************************************)
EXTENDS BodyEvents, WellFoundedInduction, TLAPS

Keys == Stalk \cup Tips \cup {"mute", None}
Tyres == [valid : BOOLEAN, bar : {0, 8, 17, 20, 23, 24}, alarm : 0 .. 3]

(* What the decoders hand to the router; a turn is a key for that long.    *)
Fresh == [key : Keys \cup Scrolls, panel : Buttons \cup {0},
          doors : SUBSET {"driver", "boot"}, climate : Climate, rear : BOOLEAN,
          tyres : Tyres, radar : {0, 3, 7}, reverse : BOOLEAN, angle : {0, 9}]

Fields == {"key", "panel", "doors", "climate", "rear", "tyres", "radar", "reverse", "angle"}

(* g is h but for some fields.                                             *)
Keeps(g, h, changed) == g \in Told /\ \A f \in Fields \ changed : g[f] = h[f]

(* A message changes the part of the display it tells of.                  *)
LEMMA SetBase ==
  ASSUME NEW h \in Told, NEW x \in Keys, NEW a \in {0, 9}
  PROVE  /\ Keeps([h EXCEPT !.key = x, !.angle = a], h, {"key", "angle"})
         /\ [h EXCEPT !.key = x, !.angle = a].key = x
         /\ [h EXCEPT !.key = x, !.angle = a].angle = a
  BY DEF Told, Keys, Keeps, Fields
LEMMA SetPanel ==
  ASSUME NEW h \in Told, NEW x \in Buttons \cup {0}
  PROVE  Keeps([h EXCEPT !.panel = x], h, {"panel"}) /\ [h EXCEPT !.panel = x].panel = x
  BY DEF Told, Keeps, Fields
LEMMA SetBar ==
  ASSUME NEW h \in Told, NEW x \in {0, 8, 17, 20, 23, 24}
  PROVE  /\ Keeps([h EXCEPT !.tyres.valid = TRUE, !.tyres.bar = x], h, {"tyres"})
         /\ [h EXCEPT !.tyres.valid = TRUE, !.tyres.bar = x].tyres
              = [valid |-> TRUE, bar |-> x, alarm |-> h.tyres.alarm]
  BY DEF Told, Keeps, Fields
LEMMA Smallest ==
  ASSUME NEW S \in SUBSET Nat, S # {} PROVE \E x \in S : \A y \in S : x <= y
<1>1. S \subseteq Nat  OBVIOUS
<1> DEFINE R == OpToRel(<, Nat)
<1>2. R = {p \in Nat \X Nat : p[1] < p[2]}  BY DEF OpToRel
<1>3. IsWellFoundedOn(R, Nat)  BY NatLessThanWellFounded
<1> HIDE DEF R
<1>4. PICK x \in S : \A y \in S : <<y, x>> \notin R
  BY <1>1, <1>3, WFMin
<1>5. ASSUME NEW y \in S PROVE x <= y
  <2>1. x \in Nat /\ y \in Nat  BY <1>1
  <2>2. ~(y < x)
    <3>1. <<y, x>> \notin R  BY <1>4
    <3>2. <<y, x>> \in Nat \X Nat /\ <<y, x>>[1] = y /\ <<y, x>>[2] = x  BY <2>1
    <3> QED  BY <1>2, <3>1, <3>2
  <2> QED  BY <2>1, <2>2
<1> QED  BY <1>5
LEMMA SetDoors ==
  ASSUME NEW h \in Told, NEW x \in SUBSET {"driver", "boot"}
  PROVE  Keeps([h EXCEPT !.doors = x], h, {"doors"}) /\ [h EXCEPT !.doors = x].doors = x
  BY DEF Told, Keeps, Fields
LEMMA SetClimate ==
  ASSUME NEW h \in Told, NEW c \in Fresh
  PROVE  /\ Keeps(SendClimate(h, c), h, {"climate", "rear"})
         /\ SendClimate(h, c).climate = c.climate
         /\ SendClimate(h, c).rear = c.rear
  BY DEF SendClimate, Told, Fresh, Keeps, Fields
LEMMA SetAlarm ==
  ASSUME NEW h \in Told, NEW x \in 0 .. 3
  PROVE  /\ Keeps([h EXCEPT !.tyres.valid = TRUE, !.tyres.alarm = x], h, {"tyres"})
         /\ [h EXCEPT !.tyres.valid = TRUE, !.tyres.alarm = x].tyres
              = [valid |-> TRUE, bar |-> h.tyres.bar, alarm |-> x]
  BY DEF Told, Keeps, Fields
LEMMA SetTyres ==
  ASSUME NEW h \in Told, NEW x \in Tyres
  PROVE  Keeps([h EXCEPT !.tyres = x], h, {"tyres"}) /\ [h EXCEPT !.tyres = x].tyres = x
  BY DEF Told, Tyres, Keeps, Fields
LEMMA SetRadar ==
  ASSUME NEW h \in Told, NEW x \in {0, 3, 7}
  PROVE  Keeps([h EXCEPT !.radar = x], h, {"radar"}) /\ [h EXCEPT !.radar = x].radar = x
  BY DEF Told, Keeps, Fields
LEMMA SetAngle ==
  ASSUME NEW h \in Told, NEW x \in {0, 9}
  PROVE  Keeps([h EXCEPT !.angle = x], h, {"angle"}) /\ [h EXCEPT !.angle = x].angle = x
  BY DEF Told, Keeps, Fields

(* A turn is released at once.                                             *)
LEMMA SettledType ==
  ASSUME NEW c \in Fresh
  PROVE  /\ Settled(c) \in Told
         /\ \A f \in Fields \ {"key"} : Settled(c)[f] = c[f]
         /\ Settled(c).key = IF c.key \in Scrolls THEN None ELSE c.key
<1> DEFINE x == IF c.key \in Scrolls THEN None ELSE c.key
<1>1. x \in Keys  BY DEF Fresh, Keys, None
<1>2. Settled(c) = [c EXCEPT !.key = x]  BY DEF Settled
<1> HIDE DEF x
<1>3. /\ [c EXCEPT !.key = x] \in Told /\ [c EXCEPT !.key = x].key = x
      /\ \A f \in Fields \ {"key"} : [c EXCEPT !.key = x][f] = c[f]
  BY <1>1 DEF Fresh, Told, Keys, Tyres, Fields
<1> QED  BY <1>2, <1>3 DEF x

-----------------------------------------------------------------------------
(* The copy the router compares with is what the head unit was told, and   *)
(* the present state in all that is told on every change; tyres once they  *)
(* are known, the angle while reversing, and of key and angle the one that *)
(* changed last.                                                           *)
RouterInv ==
  /\ cur \in Told /\ last \in Told /\ hu \in Told /\ synced \in BOOLEAN
  /\ newest \in {"key", "angle"}
  /\ \A f \in {"panel", "doors", "climate", "rear", "radar"} :
       hu[f] = last[f] /\ last[f] = cur[f]
  /\ last.key = cur.key
  /\ synced = cur.reverse
  /\ synced => last.angle = cur.angle
  /\ newest = "key" => hu.key = cur.key /\ hu.angle = 0
  /\ newest = "angle" => hu.key = None /\ (synced => hu.angle = cur.angle)
  /\ last.tyres.valid => hu.tyres = last.tyres
  /\ cur.tyres.valid => last.tyres = cur.tyres

LEMMA KeysTold ==
  ASSUME RouterInv, NEW h \in Told, NEW c \in Fresh, \A f \in Fields : h[f] = hu[f]
  PROVE  /\ Keeps(TellKeys(h, c), h, {"key", "panel", "angle"})
         /\ TellKeys(h, c).key = IF c.key # last.key THEN Settled(c).key ELSE hu.key
         /\ TellKeys(h, c).angle = IF c.key # last.key THEN 0 ELSE hu.angle
         /\ TellKeys(h, c).panel = c.panel
<1> DEFINE g == IF c.key # last.key THEN SendWheelKey(h, Settled(c)) ELSE h
<1>1. Settled(c).key \in Keys  BY SettledType DEF Told, Keys
<1>2. h.key = hu.key /\ h.angle = hu.angle /\ h.panel = last.panel  BY DEF RouterInv, Fields
<1>3. /\ Keeps(g, h, {"key", "angle"})
      /\ g.key = IF c.key # last.key THEN Settled(c).key ELSE hu.key
      /\ g.angle = IF c.key # last.key THEN 0 ELSE hu.angle
  <2>1. CASE c.key # last.key
    <3>1. g = [h EXCEPT !.key = Settled(c).key, !.angle = 0]  BY <2>1 DEF SendWheelKey
    <3> HIDE DEF g
    <3> QED  BY <1>1, <2>1, <3>1, SetBase
  <2>2. CASE c.key = last.key  BY <1>2, <2>2 DEF Keeps
  <2> QED  BY <2>1, <2>2
<1>4. TellKeys(h, c) = IF c.panel # last.panel THEN SendPanelKey(g, c) ELSE g
  BY DEF TellKeys
<1> HIDE DEF g
<1>5. c.panel \in Buttons \cup {0}  BY DEF Fresh
<1>6. CASE c.panel # last.panel
  BY <1>3, <1>4, <1>5, <1>6, SetPanel DEF SendPanelKey, Keeps, Fields
<1>7. CASE c.panel = last.panel
  BY <1>2, <1>3, <1>4, <1>7 DEF Keeps, Fields
<1> QED  BY <1>6, <1>7

LEMMA TyresTold ==
  ASSUME RouterInv, NEW h \in Told, NEW c \in Fresh, h.tyres = hu.tyres
  PROVE  /\ Keeps(TellTyres(h, c), h, {"tyres"})
         /\ c.tyres.valid => TellTyres(h, c).tyres = c.tyres
         /\ ~c.tyres.valid => TellTyres(h, c).tyres = hu.tyres
<1> DEFINE g == IF News("bar", c) THEN SendPressures(h, c) ELSE h
<1>1. c.tyres \in Tyres /\ h.tyres \in Tyres /\ last.tyres \in Tyres
  BY DEF Fresh, Told, Tyres, RouterInv
<1>2. TellTyres(h, c) = IF News("alarm", c) THEN SendAlarms(g, c) ELSE g  BY DEF TellTyres
<1>3. Keeps(h, h, {"tyres"})  BY DEF Keeps
<1>4. CASE ~c.tyres.valid
  BY <1>2, <1>3, <1>4 DEF SendPressures, SendAlarms
<1>5. CASE c.tyres.valid
  <2>1. /\ Keeps(g, h, {"tyres"}) /\ g.tyres.bar = c.tyres.bar
        /\ ~last.tyres.valid \/ g.tyres.alarm = last.tyres.alarm
        /\ g.tyres.valid
    <3>1. CASE News("bar", c)
      <4>1. g = [h EXCEPT !.tyres.valid = TRUE, !.tyres.bar = c.tyres.bar]
        BY <1>5, <3>1 DEF SendPressures
      <4>2. c.tyres.bar \in {0, 8, 17, 20, 23, 24}  BY <1>1 DEF Tyres
      <4> HIDE DEF g
      <4>3. g.tyres = [valid |-> TRUE, bar |-> c.tyres.bar, alarm |-> h.tyres.alarm]
            /\ Keeps(g, h, {"tyres"})
        BY <4>1, <4>2, SetBar
      <4> QED  BY <4>3 DEF RouterInv
    <3>2. CASE ~News("bar", c)
      <4>1. last.tyres.valid /\ c.tyres.bar = last.tyres.bar  BY <3>2 DEF News
      <4> QED  BY <1>3, <3>2, <4>1 DEF RouterInv
    <3> QED  BY <3>1, <3>2
  <2> HIDE DEF g
  <2>2. g \in Told /\ g.tyres \in Tyres  BY <2>1 DEF Keeps, Told, Tyres
  <2>3. CASE News("alarm", c)
    <3>1. TellTyres(h, c) = [g EXCEPT !.tyres.valid = TRUE, !.tyres.alarm = c.tyres.alarm]
      BY <1>2, <1>5, <2>3 DEF SendAlarms
    <3> DEFINE x == c.tyres.alarm
               t == [g EXCEPT !.tyres.valid = TRUE, !.tyres.alarm = x]
    <3>2. x \in 0 .. 3  BY <1>1 DEF Tyres
    <3> HIDE DEF x
    <3>3. /\ Keeps(t, g, {"tyres"})
          /\ t.tyres = [valid |-> TRUE, bar |-> g.tyres.bar, alarm |-> x]
      BY <2>2, <3>2, SetAlarm
    <3>4. t = TellTyres(h, c)  BY <3>1 DEF x
    <3> HIDE DEF t
    <3>5. /\ Keeps(TellTyres(h, c), g, {"tyres"})
          /\ TellTyres(h, c).tyres = [valid |-> TRUE, bar |-> g.tyres.bar, alarm |-> c.tyres.alarm]
      BY <3>3, <3>4 DEF x
    <3>6. TellTyres(h, c).tyres = c.tyres  BY <1>1, <1>5, <2>1, <3>5 DEF Tyres
    <3> QED  BY <1>5, <2>1, <3>5, <3>6 DEF Keeps
  <2>4. CASE ~News("alarm", c)
    <3>1. last.tyres.valid /\ c.tyres.alarm = last.tyres.alarm /\ TellTyres(h, c) = g
      BY <1>2, <2>4 DEF News
    <3>2. g.tyres = c.tyres  BY <1>1, <1>5, <2>1, <2>2, <3>1 DEF Tyres
    <3> QED  BY <1>5, <2>1, <3>1, <3>2
  <2> QED  BY <2>3, <2>4
<1> QED  BY <1>1, <1>4, <1>5 DEF Tyres

LEMMA NoScroll == ASSUME NEW h \in Told PROVE h.key \notin Scrolls
  BY BodyAssumption DEF Told, Scrolls, Tips, None, Place

(* The router sends on, whatever was decoded, what the head unit does not  *)
(* know yet.                                                               *)
LEMMA RouteStep ==
  ASSUME RouterInv, NEW c \in Fresh, Route(c)
  PROVE  /\ RouterInv'
         /\ \A f \in Fields \ {"key"} : cur'[f] = c[f]
         /\ cur'.key = IF c.key \in Scrolls THEN None ELSE c.key
         /\ c.key = cur.key /\ c.angle = cur.angle /\ c.reverse = cur.reverse
              => hu'.key = hu.key
<1> DEFINE h1 == TellKeys(hu, c)
           h2 == TellDoors(h1, c)
           h3 == TellClimate(h2, c)
           h4 == TellTyres(h3, c)
           h5 == TellAngle(h4, c)
           h6 == TellRadar(h5, c)
<1>1. hu' = h6 /\ cur' = Settled(c) /\ synced' = c.reverse /\ newest' = Newest(c)  BY DEF Route
<1>2. /\ cur' \in Told /\ \A f \in Fields \ {"key"} : cur'[f] = c[f]
      /\ cur'.key = IF c.key \in Scrolls THEN None ELSE c.key
  BY <1>1, SettledType
<1>3. /\ last' \in Told
      /\ \A f \in Fields \ {"angle", "tyres"} : last'[f] = cur'[f]
      /\ last'.angle = IF Steers(c) THEN c.angle ELSE last.angle
      /\ last'.tyres = IF c.tyres.valid THEN c.tyres ELSE last.tyres
  <2> DEFINE x == IF Steers(c) THEN Settled(c).angle ELSE last.angle
             y == IF c.tyres.valid THEN Settled(c).tyres ELSE last.tyres
             a == [Settled(c) EXCEPT !.angle = x]
  <2>1. Settled(c).angle = c.angle /\ Settled(c).tyres = c.tyres  BY SettledType DEF Fields
  <2>2. x \in {0, 9} /\ y \in Tyres  BY <2>1 DEF Fresh, RouterInv, Told, Tyres
  <2>3. last' = [a EXCEPT !.tyres = y]  BY DEF Route
  <2> HIDE DEF x, y
  <2>4. Keeps(a, Settled(c), {"angle"}) /\ a.angle = x  BY <1>1, <1>2, <2>2, SetAngle
  <2> HIDE DEF a
  <2>5. Keeps(last', a, {"tyres"}) /\ last'.tyres = y  BY <2>2, <2>3, <2>4, SetTyres DEF Keeps
  <2> QED  BY <1>1, <2>1, <2>4, <2>5 DEF x, y, Keeps, Fields
<1>4. hu \in Told /\ hu.doors = last.doors /\ hu.climate = last.climate /\ hu.rear = last.rear
      /\ hu.radar = last.radar
  BY DEF RouterInv
<1>5. /\ Keeps(h1, hu, {"key", "panel", "angle"}) /\ h1.panel = c.panel
      /\ h1.key = IF c.key # last.key THEN cur'.key ELSE hu.key
      /\ h1.angle = IF c.key # last.key THEN 0 ELSE hu.angle
  <2>1. Settled(c).key = cur'.key  BY <1>1
  <2> QED  BY <2>1, KeysTold DEF RouterInv
<1> HIDE DEF h1
<1>6. Keeps(h2, h1, {"doors"}) /\ h2.doors = c.doors
  <2>1. c.doors \in SUBSET {"driver", "boot"}  BY DEF Fresh
  <2>2. CASE c.doors # last.doors
    <3>1. h2 = [h1 EXCEPT !.doors = c.doors]  BY <2>2 DEF TellDoors, SendDoors
    <3>2. h1 \in Told  BY <1>5 DEF Keeps
    <3> HIDE DEF h2
    <3> QED  BY <2>1, <3>1, <3>2, SetDoors
  <2>3. CASE c.doors = last.doors
    BY <1>4, <1>5, <2>3 DEF TellDoors, Keeps, Fields
  <2> QED  BY <2>2, <2>3
<1> HIDE DEF h2
<1>7. Keeps(h3, h2, {"climate", "rear"}) /\ h3.climate = c.climate /\ h3.rear = c.rear
  <2>1. c.climate \in Climate /\ c.rear \in BOOLEAN  BY DEF Fresh
  <2>2. CASE c.climate # last.climate \/ c.rear # last.rear
    <3>1. h3 = SendClimate(h2, c)  BY <2>2 DEF TellClimate
    <3> HIDE DEF h3
    <3> QED  BY <1>6, <3>1, SetClimate DEF Keeps
  <2>3. CASE c.climate = last.climate /\ c.rear = last.rear
    BY <1>4, <1>5, <1>6, <2>3 DEF TellClimate, Keeps, Fields
  <2> QED  BY <2>2, <2>3
<1> HIDE DEF h3
<1>8. Keeps(h4, h3, {"tyres"})
      /\ h4.tyres = IF c.tyres.valid THEN c.tyres ELSE hu.tyres
  <2>1. h3 \in Told /\ h3.tyres = hu.tyres  BY <1>5, <1>6, <1>7 DEF Keeps, Fields
  <2> QED  BY <2>1, TyresTold
<1> HIDE DEF h4
<1>9. /\ Keeps(h5, h4, {"key", "angle"})
      /\ h5.key = IF Steers(c) THEN None ELSE h1.key
      /\ h5.angle = IF Steers(c) THEN c.angle ELSE h1.angle
  <2>1. c.angle \in {0, 9} /\ None \in Keys  BY DEF Fresh, Keys
  <2>2. CASE Steers(c)
    <3>1. h5 = [h4 EXCEPT !.key = None, !.angle = c.angle]
      BY <2>2 DEF TellAngle, SendSteeringAngle
    <3>2. h4 \in Told  BY <1>8 DEF Keeps
    <3> DEFINE a == c.angle
    <3>3. a \in {0, 9}  BY <2>1
    <3> HIDE DEF h5, a
    <3>4. /\ Keeps(h5, h4, {"key", "angle"}) /\ h5.key = None /\ h5.angle = a
      BY <2>1, <3>1, <3>2, <3>3, SetBase DEF a
    <3> QED  BY <2>2, <3>4 DEF a
  <2>3. CASE ~Steers(c)
    BY <1>6, <1>7, <1>8, <2>3 DEF TellAngle, Keeps, Fields
  <2> QED  BY <2>2, <2>3
<1> HIDE DEF h5
<1>10. Keeps(h6, h5, {"radar"}) /\ h6.radar = c.radar
  <2>1. c.radar \in {0, 3, 7}  BY DEF Fresh
  <2>2. CASE c.radar # last.radar
    <3>1. h6 = [h5 EXCEPT !.radar = c.radar]  BY <2>2 DEF TellRadar, SendRadar
    <3> HIDE DEF h6
    <3> QED  BY <1>9, <2>1, <2>2, <3>1, SetRadar DEF Keeps
  <2>3. CASE c.radar = last.radar
    BY <1>4, <1>5, <1>6, <1>7, <1>8, <1>9, <2>3 DEF TellRadar, Keeps, Fields
  <2> QED  BY <2>2, <2>3
<1> HIDE DEF h6
<1>11. /\ hu' \in Told /\ hu'.panel = c.panel /\ hu'.doors = c.doors
       /\ hu'.climate = c.climate /\ hu'.rear = c.rear /\ hu'.radar = c.radar
       /\ hu'.tyres = IF c.tyres.valid THEN c.tyres ELSE hu.tyres
       /\ hu'.key = IF Steers(c) THEN None ELSE IF c.key # last.key THEN cur'.key ELSE hu.key
       /\ hu'.angle = IF Steers(c) THEN c.angle ELSE IF c.key # last.key THEN 0 ELSE hu.angle
  BY <1>1, <1>5, <1>6, <1>7, <1>8, <1>9, <1>10 DEF Keeps, Fields
<1>12. synced' \in BOOLEAN /\ synced' = cur'.reverse /\ synced' = c.reverse
  BY <1>1, <1>2 DEF Fresh, Fields
<1>13. /\ \A f \in {"panel", "doors", "climate", "rear", "radar"} :
            hu'[f] = last'[f] /\ last'[f] = cur'[f]
       /\ last'.key = cur'.key
  BY <1>2, <1>3, <1>11 DEF Fields
<1>14. /\ newest' \in {"key", "angle"}
       /\ synced' => last'.angle = cur'.angle
       /\ newest' = "key" => hu'.key = cur'.key /\ hu'.angle = 0
       /\ newest' = "angle" => hu'.key = None /\ (synced' => hu'.angle = cur'.angle)
       /\ c.key = cur.key /\ c.angle = cur.angle /\ c.reverse = cur.reverse => hu'.key = hu.key
  <2>1. cur'.angle = c.angle  BY <1>2 DEF Fields
  <2>2. Steers(c) <=> c.reverse /\ (~cur.reverse \/ c.angle # cur.angle)
    BY DEF Steers, RouterInv
  <2>3. CASE Steers(c)
    <3>1. newest' = "angle"  BY <1>1, <2>2, <2>3 DEF Newest
    <3> QED  BY <1>3, <1>11, <2>1, <2>2, <2>3, <3>1
  <2>4. CASE ~Steers(c)
    <3>1. synced' => last'.angle = cur'.angle /\ cur'.angle = cur.angle /\ synced
      BY <1>3, <1>12, <2>1, <2>2, <2>4 DEF RouterInv
    <3>2. CASE c.key # cur.key
      <4>1. newest' = "key"  BY <1>1, <2>2, <2>4, <3>2 DEF Newest
      <4> QED  BY <1>11, <2>4, <3>1, <3>2, <4>1 DEF RouterInv
    <3>3. CASE c.key = cur.key
      <4>1. newest' = newest  BY <1>1, <2>2, <2>4, <3>3 DEF Newest
      <4>2. cur'.key = cur.key  BY <1>2, <3>3, NoScroll DEF RouterInv
      <4>3. hu'.key = hu.key /\ hu'.angle = hu.angle  BY <1>11, <2>4, <3>3 DEF RouterInv
      <4> QED  BY <3>1, <4>1, <4>2, <4>3 DEF RouterInv
    <3> QED  BY <3>2, <3>3
  <2> QED  BY <2>3, <2>4
<1>15. /\ last'.tyres.valid => hu'.tyres = last'.tyres
       /\ cur'.tyres.valid => last'.tyres = cur'.tyres
  <2>1. cur'.tyres = c.tyres  BY <1>2 DEF Fields
  <2> QED  BY <1>3, <1>11, <2>1 DEF RouterInv
<1> QED  BY <1>2, <1>3, <1>11, <1>12, <1>13, <1>14, <1>15 DEF RouterInv

-----------------------------------------------------------------------------
CarType == [keys : SUBSET (Stalk \cup Tips), buttons : SUBSET Buttons, turn : Scrolls \cup {None},
            doors : SUBSET {"driver", "boot"}, climate : Climate, rear : BOOLEAN,
            tyre : {"ok", "low", "flat", "standby"}, bar : {0, 20, 23}, radar : {0, 3, 7},
            reverse : BOOLEAN, angle : {0, 9}, on : BOOLEAN]
DecType == [stalk : SUBSET Stalk, tips : SUBSET Tips, rotary : BOOLEAN,
            button : Buttons \cup {0}, direct : BOOLEAN]
GhostType == [held : SUBSET {"key", "panel"}, buttons : SUBSET Buttons, bar : {0, 20, 23},
              wanted : Climate, blind : BOOLEAN]
DemandType == [is : Climate, known : BOOLEAN, count : 0 .. DemandTicks - 1]

(* A key on display is one a decoder holds.                                *)
KeyInv == cur.key = None \/ cur.key \in Seen(dec.stalk) \cup dec.tips \/ "key" \in ghost.held
PanelInv == \/ "panel" \in ghost.held
            \/ cur.panel = dec.button /\ (cur.panel = 0 \/ cur.panel \in ghost.buttons)

(* A pressure once measured is the present one.                            *)
TyreInv == ghost.bar # 0 => dec.direct /\ cur.tyres.valid /\ cur.tyres.bar = ghost.bar

FramesInv == /\ car \in CarType /\ dec \in DecType /\ ghost \in GhostType
             /\ RouterInv /\ KeyInv /\ PanelInv /\ TyreInv

LEMMA FreshOfTold == ASSUME NEW c \in Told PROVE c \in Fresh /\ c.key \notin Scrolls
<1>1. \A k \in Keys : k \notin Scrolls
  BY BodyAssumption DEF Keys, Scrolls, Tips, None, Place
<1> QED  BY <1>1 DEF Told, Fresh, Keys, Tyres

(* What a frame leaves alone.                                              *)
LEMMA QuietFrame ==
  ASSUME FramesInv, NEW c \in Told, Keeps(c, cur, Fields \ {"key", "panel", "tyres"}),
         Route(c), dec' = dec, car' = car, ghost' \in GhostType,
         ghost'.held = ghost.held, ghost'.buttons = ghost.buttons, ghost'.bar = ghost.bar
  PROVE  FramesInv'
<1>1. c.key = cur.key /\ c.panel = cur.panel /\ c.tyres = cur.tyres  BY DEF Keeps, Fields
<1>2. /\ RouterInv' /\ \A f \in Fields \ {"key"} : cur'[f] = c[f]
      /\ cur'.key = c.key
  BY FreshOfTold, RouteStep DEF FramesInv
<1>3. cur'.key = cur.key /\ cur'.panel = cur.panel /\ cur'.tyres = cur.tyres
  BY <1>1, <1>2 DEF Fields
<1> QED  BY <1>2, <1>3 DEF FramesInv, KeyInv, PanelInv, TyreInv, Seen, Chord

LEMMA PlainFrame ==
  ASSUME FramesInv, NEW c \in Told, Keeps(c, cur, Fields \ {"key", "panel", "tyres"}), Plain(c)
  PROVE  FramesInv'
  BY QuietFrame DEF Plain, Takes, FramesInv

LEMMA PlainFrames ==
  ASSUME FramesInv, Frame220 \/ Frame1D0 \/ Frame0E1 \/ Frame10B \/ FrameGear
  PROVE  FramesInv'
<1>1. cur \in Told /\ car \in CarType  BY DEF FramesInv, RouterInv
<1>2. CASE Frame220
  <2>1. car.doors \in SUBSET {"driver", "boot"}  BY <1>1 DEF CarType
  <2> DEFINE c == [cur EXCEPT !.doors = car.doors]
  <2>2. Keeps(c, cur, {"doors"})  BY <1>1, <2>1, SetDoors
  <2>3. Plain(c)  BY <1>2 DEF Frame220
  <2> HIDE DEF c
  <2> QED  BY <2>2, <2>3, PlainFrame DEF Keeps, Fields
<1>3. CASE Frame1D0
  <2> DEFINE c == [cur EXCEPT !.rear = car.rear]
  <2>1. Keeps(c, cur, {"rear"})  BY <1>1 DEF Told, CarType, Keeps, Fields
  <2>2. Plain(c)  BY <1>3 DEF Frame1D0
  <2> HIDE DEF c
  <2> QED  BY <2>1, <2>2, PlainFrame DEF Keeps, Fields
<1>4. CASE Frame0E1
  <2> DEFINE c == [cur EXCEPT !.radar = car.radar]
  <2>1. Keeps(c, cur, {"radar"})  BY <1>1 DEF Told, CarType, Keeps, Fields
  <2>2. Plain(c)  BY <1>4 DEF Frame0E1
  <2> HIDE DEF c
  <2> QED  BY <2>1, <2>2, PlainFrame DEF Keeps, Fields
<1>5. CASE Frame10B
  <2> DEFINE c == [cur EXCEPT !.angle = car.angle]
  <2>1. Keeps(c, cur, {"angle"})  BY <1>1 DEF Told, CarType, Keeps, Fields
  <2>2. Plain(c)  BY <1>5 DEF Frame10B
  <2> HIDE DEF c
  <2> QED  BY <2>1, <2>2, PlainFrame DEF Keeps, Fields
<1>6. CASE FrameGear
  <2> DEFINE c == [cur EXCEPT !.reverse = car.reverse]
  <2>1. Keeps(c, cur, {"reverse"})  BY <1>1 DEF Told, CarType, Keeps, Fields
  <2>2. Plain(c)  BY <1>6 DEF FrameGear
  <2> HIDE DEF c
  <2> QED  BY <2>1, <2>2, PlainFrame DEF Keeps, Fields
<1> QED  BY <1>2, <1>3, <1>4, <1>5, <1>6

-----------------------------------------------------------------------------
(* The tyres.                                                              *)
LEMMA TyreFrames == ASSUME FramesInv, Frame3A1 \/ Frame1E1 PROVE FramesInv'
<1>1. /\ cur \in Told /\ car \in CarType /\ dec \in DecType /\ ghost \in GhostType
      /\ cur.tyres \in Tyres
  BY DEF FramesInv, RouterInv, Told, Tyres
<1>2. CASE Frame3A1
  <2> DEFINE x == car.bar
             c == [cur EXCEPT !.tyres.bar = x, !.tyres.valid = TRUE]
             d == [dec EXCEPT !.direct = TRUE]
             g == [ghost EXCEPT !.bar = x]
  <2>1. x \in {20, 23} /\ Route(c) /\ dec' = d /\ ghost' = g /\ car' = car
    BY <1>1, <1>2 DEF CarType, Frame3A1, Takes
  <2> HIDE DEF x
  <2>2. Keeps(c, cur, {"tyres"}) /\ c.tyres.bar = x /\ c.tyres.valid
    BY <1>1, <2>1 DEF Told, Keeps, Fields
  <2>3. d \in DecType /\ d.direct /\ d.stalk = dec.stalk /\ d.tips = dec.tips
        /\ d.button = dec.button
    BY <1>1 DEF DecType
  <2>4. g \in GhostType /\ g.bar = x /\ g.held = ghost.held /\ g.buttons = ghost.buttons
    BY <1>1, <2>1 DEF GhostType
  <2> HIDE DEF c, d, g
  <2>5. /\ RouterInv' /\ cur'.tyres = c.tyres /\ cur'.panel = cur.panel /\ cur'.key = cur.key
    BY <2>1, <2>2, FreshOfTold, RouteStep DEF FramesInv, Keeps, Fields
  <2> QED  BY <1>1, <2>1, <2>2, <2>3, <2>4, <2>5
            DEF FramesInv, KeyInv, PanelInv, TyreInv, Seen, Chord
<1>3. CASE Frame1E1
  <2>1. CASE Plain(cur)  BY <1>1, <2>1, PlainFrame DEF Keeps
  <2>2. CASE Plain([cur EXCEPT !.tyres = Synthesized(@, car.tyre)])
    <3> DEFINE x == Synthesized(cur.tyres, car.tyre)
               c == [cur EXCEPT !.tyres = x]
    <3>1. x \in Tyres /\ x.valid /\ (dec.direct => x.bar = cur.tyres.bar)
      <4>1. AlarmOf[car.tyre] \in 0 .. 3 /\ BarOf[car.tyre] \in {0, 8, 17, 24}
        BY <1>1 DEF CarType, AlarmOf, BarOf
      <4> QED  BY <1>1, <4>1 DEF Synthesized, Tyres
    <3>2. Route(c) /\ dec' = dec /\ ghost' = ghost /\ car' = car  BY <2>2 DEF Plain, Takes
    <3> HIDE DEF x
    <3>3. Keeps(c, cur, {"tyres"}) /\ c.tyres = x  BY <1>1, <3>1, SetTyres
    <3> HIDE DEF c
    <3>4. /\ RouterInv' /\ cur'.tyres = x /\ cur'.panel = cur.panel /\ cur'.key = cur.key
      BY <3>2, <3>3, FreshOfTold, RouteStep DEF FramesInv, Keeps, Fields
    <3> QED  BY <1>1, <3>1, <3>2, <3>4
              DEF FramesInv, KeyInv, PanelInv, TyreInv, Seen, Chord
  <2> QED  BY <1>3, <2>1, <2>2 DEF Frame1E1
<1> QED  BY <1>2, <1>3

-----------------------------------------------------------------------------
(* The keys.  A key a decoder forgot over a handshake stays held until the *)
(* display changes.                                                        *)
LEMMA ForgetsType ==
  ASSUME ghost \in GhostType, NEW k, NEW p
  PROVE  /\ Forgets(k, p) \in GhostType
         /\ Forgets(k, p).buttons = ghost.buttons /\ Forgets(k, p).bar = ghost.bar
         /\ Forgets(k, p).wanted = ghost.wanted /\ Forgets(k, p).blind = ghost.blind
         /\ k = hu.key => ("key" \in Forgets(k, p).held <=> "key" \in ghost.held)
         /\ p = hu.panel => ("panel" \in Forgets(k, p).held <=> "panel" \in ghost.held)
<1> DEFINE x == ghost.held \ ((IF k # hu.key THEN {"key"} ELSE {})
                              \cup (IF p # hu.panel THEN {"panel"} ELSE {}))
<1>1. x \in SUBSET {"key", "panel"}  BY DEF GhostType
<1>2. /\ k = hu.key => ("key" \in x <=> "key" \in ghost.held)
      /\ p = hu.panel => ("panel" \in x <=> "panel" \in ghost.held)
  OBVIOUS
<1>3. Forgets(k, p) = [ghost EXCEPT !.held = x]  BY DEF Forgets
<1> HIDE DEF x
<1> QED  BY <1>1, <1>2, <1>3 DEF GhostType

(* The keys in a frame: a key shown but in none of them is not there       *)
(* because nothing changed.                                                *)
LEMMA SeenType ==
  ASSUME NEW now \in SUBSET Stalk
  PROVE  Seen(now) \in SUBSET (Stalk \cup {"mute"}) /\ Seen(now) \subseteq DOMAIN Place
<1>1. Stalk \subseteq DOMAIN Place /\ "mute" \in DOMAIN Place
  BY BodyAssumption DEF Place
<1> QED  BY <1>1 DEF Seen

LEMMA StalkKey ==
  ASSUME dec.stalk \in SUBSET Stalk, NEW now \in SUBSET Stalk
  PROVE  \/ KeyAfter(now) = cur.key /\ \A k \in Seen(dec.stalk) : k \in Seen(now)
         \/ KeyAfter(now) \in Seen(now) \cup {None}
<1>1. CASE Changed(now) # {}
  <2> DEFINE k == CHOOSE k \in Changed(now) : \A j \in Changed(now) : Place[j] <= Place[k]
  <2>1. KeyAfter(now) = IF k \in Seen(now) THEN k ELSE None  BY <1>1 DEF KeyAfter
  <2> QED  BY <2>1
<1>2. CASE Changed(now) = {}
  <2>1. KeyAfter(now) = cur.key  BY <1>2 DEF KeyAfter
  <2>2. ASSUME NEW k \in Seen(dec.stalk), k \notin Seen(now) PROVE FALSE
    <3>1. k \in DOMAIN Place  BY SeenType
    <3>2. k \in Volume /\ (Chord(now) \/ Chord(dec.stalk))
      BY <1>2, <2>2, <3>1 DEF Changed
    <3>3. ~Chord(dec.stalk)  BY <2>2, <3>2 DEF Seen, Volume
    <3>4. "mute" \in Seen(now) /\ "mute" \notin Seen(dec.stalk)
      BY <3>2, <3>3, BodyAssumption DEF Seen
    <3>5. "mute" \in DOMAIN Place /\ "mute" \notin Volume  BY DEF Place, Volume
    <3> QED  BY <1>2, <3>4, <3>5 DEF Changed
  <2> QED  BY <2>1, <2>2
<1> QED  BY <1>1, <1>2

LEMMA KeyFrames == ASSUME FramesInv, Frame21F \/ Frame221 PROVE FramesInv'
<1>1. /\ cur \in Told /\ car \in CarType /\ dec \in DecType /\ ghost \in GhostType
      /\ cur.key \in Keys
  BY DEF FramesInv, RouterInv, Told, Keys
<1> DEFINE Key(x) == [cur EXCEPT !.key = x]
<1>2. ASSUME NEW x \in Keys \cup Scrolls, Route(Key(x))
      PROVE  /\ RouterInv' /\ cur'.key = IF x \in Scrolls THEN None ELSE x
             /\ cur'.tyres = cur.tyres /\ cur'.panel = cur.panel
             /\ x = cur.key => hu'.key = hu.key
  <2> DEFINE c == Key(x)
  <2>1. /\ c \in Fresh /\ c.key = x /\ c.tyres = cur.tyres /\ c.panel = cur.panel
        /\ c.angle = cur.angle /\ c.reverse = cur.reverse
    BY <1>1 DEF Told, Fresh, Keys, Tyres
  <2>2. Route(c)  BY <1>2
  <2> HIDE DEF c
  <2>3. /\ RouterInv' /\ cur'.key = IF x \in Scrolls THEN None ELSE x
        /\ cur'.tyres = cur.tyres /\ cur'.panel = cur.panel
        /\ x = cur.key => hu'.key = hu.key
    BY <2>1, <2>2, RouteStep DEF FramesInv, Fields
  <2> QED  BY <2>3
<1>3. CASE Frame21F
  <2> DEFINE now == car.keys \cap Stalk
             key == IF dec.rotary /\ car.turn # None THEN car.turn ELSE KeyAfter(now)
             d == [dec EXCEPT !.stalk = now, !.rotary = TRUE]
  <2>1. /\ Route(Key(key)) /\ dec' = d /\ car' = [car EXCEPT !.turn = None]
        /\ ghost' = Forgets(hu'.key, hu.panel)
    BY <1>3 DEF Frame21F, Takes
  <2>2. now \in SUBSET Stalk /\ dec.stalk \in SUBSET Stalk  BY <1>1 DEF DecType
  <2>3. car' \in CarType  BY <1>1, <2>1 DEF CarType
  <2>4. /\ d \in DecType /\ d.stalk = now /\ d.tips = dec.tips
        /\ d.direct = dec.direct /\ d.button = dec.button
    BY <1>1, <2>2 DEF DecType
  <2>5. key \in Keys \cup Scrolls
        /\ \/ key \in Scrolls \cup {None} \cup Seen(now)
           \/ key = cur.key /\ \A k \in Seen(dec.stalk) : k \in Seen(now)
    <3>1. CASE dec.rotary /\ car.turn # None
      BY <1>1, <3>1 DEF CarType
    <3>2. CASE ~(dec.rotary /\ car.turn # None)
      <4>1. key = KeyAfter(now)  BY <3>2
      <4> HIDE DEF key, now
      <4> QED  BY <1>1, <2>2, <4>1, StalkKey, SeenType DEF Keys
    <3> QED  BY <3>1, <3>2
  <2> HIDE DEF key, d, now, Key
  <2>6. /\ RouterInv' /\ cur'.key = IF key \in Scrolls THEN None ELSE key
        /\ cur'.tyres = cur.tyres /\ cur'.panel = cur.panel
        /\ key = cur.key => hu'.key = hu.key
    BY <1>2, <2>1, <2>5
  <2>7. /\ ghost' \in GhostType /\ ghost'.buttons = ghost.buttons /\ ghost'.bar = ghost.bar
        /\ hu'.key = hu.key => ("key" \in ghost'.held <=> "key" \in ghost.held)
        /\ "panel" \in ghost'.held <=> "panel" \in ghost.held
    BY <1>1, <2>1, ForgetsType
  <2>8. PanelInv' /\ TyreInv'
    BY <2>1, <2>4, <2>6, <2>7 DEF FramesInv, PanelInv, TyreInv
  <2>9. KeyInv'
    <3>1. dec'.stalk = now /\ dec'.tips = dec.tips  BY <2>1, <2>4
    <3>2. CASE key \in Scrolls \cup {None}  BY <2>6, <3>2 DEF KeyInv
    <3>3. CASE key \in Seen(now)
      BY <2>6, <3>1, <3>3 DEF KeyInv
    <3>4. CASE key = cur.key /\ \A k \in Seen(dec.stalk) : k \in Seen(now)
      <4>1. cur'.key = cur.key  BY <1>1, <2>6, <3>4, FreshOfTold
      <4> QED  BY <1>1, <2>6, <2>7, <3>1, <3>4, <4>1 DEF FramesInv, KeyInv
    <3> QED  BY <2>5, <3>2, <3>3, <3>4
  <2> QED  BY <2>1, <2>3, <2>4, <2>6, <2>7, <2>8, <2>9 DEF FramesInv
<1>4. CASE Frame221
  <2> DEFINE now == car.keys \cap Tips
             key == TipAfter(now)
             d == [dec EXCEPT !.tips = now]
  <2>1. /\ Route(Key(key)) /\ dec' = d /\ car' = car /\ ghost' = Forgets(hu'.key, hu.panel)
    BY <1>4 DEF Frame221, Takes
  <2>2. /\ d \in DecType /\ d.stalk = dec.stalk /\ d.tips = now
        /\ d.direct = dec.direct /\ d.button = dec.button
    BY <1>1 DEF DecType
  <2>3. /\ key \in Keys
        /\ key \in now \cup {None} \/ (key = cur.key /\ key \notin dec.tips \ now)
    BY <1>1 DEF TipAfter, Keys, Tips
  <2> HIDE DEF key, d, now, Key
  <2>4. key \notin Scrolls
    BY <2>3, BodyAssumption DEF Keys, Scrolls, Tips, None, Place
  <2>5. /\ RouterInv' /\ cur'.key = key
        /\ cur'.tyres = cur.tyres /\ cur'.panel = cur.panel
        /\ key = cur.key => hu'.key = hu.key
    BY <1>2, <2>1, <2>3, <2>4
  <2>6. /\ ghost' \in GhostType /\ ghost'.buttons = ghost.buttons /\ ghost'.bar = ghost.bar
        /\ hu'.key = hu.key => ("key" \in ghost'.held <=> "key" \in ghost.held)
        /\ "panel" \in ghost'.held <=> "panel" \in ghost.held
    BY <1>1, <2>1, ForgetsType
  <2>7. PanelInv' /\ TyreInv'
    BY <2>1, <2>2, <2>5, <2>6 DEF FramesInv, PanelInv, TyreInv
  <2>8. dec'.tips = now /\ Seen(dec'.stalk) = Seen(dec.stalk)  BY <2>1, <2>2
  <2>9. KeyInv'
    <3>1. CASE key \in now \cup {None}  BY <2>5, <2>8, <3>1 DEF KeyInv
    <3>2. CASE key = cur.key /\ key \notin dec.tips \ now
      BY <1>1, <2>5, <2>6, <2>8, <3>2 DEF FramesInv, KeyInv, Seen, Chord
    <3> QED  BY <2>3, <3>1, <3>2
  <2> QED  BY <1>1, <2>1, <2>2, <2>5, <2>6, <2>7, <2>9 DEF FramesInv
<1> QED  BY <1>3, <1>4

(* The console.                                                            *)
LEMMA ButtonType ==
  ASSUME dec \in DecType, NEW now \in SUBSET Buttons
  PROVE  ButtonAfter(now) \in now \cup {0}
<1>1. CASE dec.button \in now  BY <1>1 DEF ButtonAfter
<1>2. CASE dec.button \notin now /\ now = {}  BY <1>2 DEF ButtonAfter
<1>3. CASE dec.button \notin now /\ now # {}
  <2>1. now \in SUBSET Nat  BY BodyAssumption DEF Buttons
  <2>2. \E b \in now : \A c \in now : b <= c  BY <1>3, <2>1, Smallest
  <2>3. (CHOOSE b \in now : \A c \in now : b <= c) \in now  BY <2>2
  <2> QED  BY <1>3, <2>3 DEF ButtonAfter
<1> QED  BY <1>1, <1>2, <1>3

LEMMA ConsoleFrame == ASSUME FramesInv, Frame3E5 PROVE FramesInv'
<1>1. /\ cur \in Told /\ car \in CarType /\ dec \in DecType /\ ghost \in GhostType
      /\ cur.panel = hu.panel /\ car.buttons \in SUBSET Buttons
  BY DEF FramesInv, RouterInv, CarType
<1> DEFINE b == ButtonAfter(car.buttons)
           x == IF b = dec.button THEN cur.panel ELSE b
           c == [cur EXCEPT !.panel = x]
           d == [dec EXCEPT !.button = b]
           f == Forgets(hu.key, hu'.panel)
<1>2. b \in car.buttons \cup {0} /\ b \in Buttons \cup {0}  BY <1>1, ButtonType
<1>3. x \in Buttons \cup {0}  BY <1>1, <1>2 DEF Told
<1>4. /\ Route(c) /\ dec' = d /\ car' = car /\ ghost' = [f EXCEPT !.buttons = car.buttons]
  BY DEF Frame3E5, Takes
<1> HIDE DEF b
<1>5. /\ d \in DecType /\ d.button = b /\ d.stalk = dec.stalk /\ d.tips = dec.tips
      /\ d.direct = dec.direct
  BY <1>1, <1>2 DEF DecType
<1> HIDE DEF d
<1>6. (b = dec.button => x = cur.panel) /\ (b # dec.button => x = b)  OBVIOUS
<1> HIDE DEF x
<1>7. Keeps(c, cur, {"panel"}) /\ c.panel = x  BY <1>1, <1>3, SetPanel
<1> HIDE DEF c
<1>8. /\ RouterInv' /\ cur'.key = cur.key /\ cur'.tyres = cur.tyres
      /\ cur'.panel = x
  BY <1>4, <1>7, FreshOfTold, RouteStep DEF FramesInv, Keeps, Fields
<1>9. hu'.panel = x  BY <1>8 DEF RouterInv
<1>10. /\ f \in GhostType /\ f.bar = ghost.bar
       /\ "key" \in f.held <=> "key" \in ghost.held
       /\ x = cur.panel => ("panel" \in f.held <=> "panel" \in ghost.held)
  BY <1>1, <1>9, ForgetsType
<1> HIDE DEF f
<1>11. /\ ghost' \in GhostType /\ ghost'.bar = ghost.bar /\ ghost'.buttons = car.buttons
       /\ "key" \in ghost'.held <=> "key" \in ghost.held
       /\ x = cur.panel => ("panel" \in ghost'.held <=> "panel" \in ghost.held)
  BY <1>1, <1>4, <1>10 DEF GhostType
<1>12. KeyInv' /\ TyreInv'
  BY <1>4, <1>5, <1>8, <1>11 DEF FramesInv, KeyInv, TyreInv, Seen, Chord
<1>13. PanelInv'
  <2>1. dec'.button = b  BY <1>4, <1>5
  <2>2. CASE b # dec.button
    BY <1>2, <1>6, <1>8, <1>11, <2>1, <2>2 DEF PanelInv
  <2>3. CASE b = dec.button /\ "panel" \in ghost.held
    BY <1>6, <1>11, <2>3 DEF PanelInv
  <2>4. CASE b = dec.button /\ "panel" \notin ghost.held
    <3>1. cur.panel = b  BY <2>4 DEF FramesInv, PanelInv
    <3> QED  BY <1>2, <1>6, <1>8, <1>11, <2>1, <2>4, <3>1 DEF PanelInv
  <2> QED  BY <2>2, <2>3, <2>4
<1> QED  BY <1>1, <1>4, <1>5, <1>8, <1>11, <1>12, <1>13 DEF FramesInv

-----------------------------------------------------------------------------
(* Once the box learned the climate, its demand is what is wanted or what  *)
(* is; before that it comes too late to be sent.                           *)
ClimInv == ~ghost.blind /\ demand.known =>
             \A f \in {"ac", "dual"} : demand.is[f] \in {ghost.wanted[f], car.climate[f]}
CountInv == ~demand.known /\ ~mdf => demand.count <= age

ClimateInv == /\ demand \in DemandType /\ mdf \in BOOLEAN /\ age \in 0 .. StatusTicks
              /\ ClimInv /\ CountInv

Inv == FramesInv /\ ClimateInv /\ acts \in 0 .. MaxActs

(* What a step that leaves the demand alone must leave alone.              *)
LEMMA QuietClimate ==
  ASSUME ClimateInv, UNCHANGED <<demand, mdf, age>>, car'.climate = car.climate,
         ghost'.wanted = ghost.wanted, ghost'.blind = ghost.blind
  PROVE  ClimateInv'
  BY DEF ClimateInv, ClimInv, CountInv

(* The repeated demand and what follows from it.                           *)
Asked(f) == car'.climate[f] = car.climate[f] \/ car'.climate[f] = ghost'.wanted[f]

LEMMA QuietFrames ==
  ASSUME FramesInv, ClimateInv,
         \/ Frame21F \/ Frame221 \/ Frame3E5 \/ Frame220 \/ Frame1D0 \/ Frame0E1
         \/ Frame10B \/ FrameGear \/ Frame3A1 \/ Frame1E1
  PROVE  /\ FramesInv' /\ ClimateInv' /\ acts' = acts /\ car'.climate = car.climate
<1>1. FramesInv'  BY PlainFrames, TyreFrames, KeyFrames, ConsoleFrame
<1>2. car \in CarType /\ ghost \in GhostType  BY DEF FramesInv
<1>3. UNCHANGED <<demand, mdf, age, acts>>
  BY DEF Frame21F, Frame221, Frame3E5, Frame220, Frame1D0, Frame0E1, Frame10B,
         FrameGear, Frame3A1, Frame1E1, Plain, Takes
<1>4. car'.climate = car.climate
  BY <1>2 DEF CarType, Frame21F, Frame221, Frame3E5, Frame220, Frame1D0, Frame0E1, Frame10B,
         FrameGear, Frame3A1, Frame1E1, Plain
<1>5. ghost'.wanted = ghost.wanted /\ ghost'.blind = ghost.blind
  <2>1. CASE Frame21F \/ Frame221  BY <1>2, <2>1, ForgetsType DEF Frame21F, Frame221
  <2>2. CASE Frame3E5
    <3> DEFINE g == Forgets(hu.key, hu'.panel)
    <3>1. g \in GhostType /\ g.wanted = ghost.wanted /\ g.blind = ghost.blind
      BY <1>2, ForgetsType
    <3>2. ghost' = [g EXCEPT !.buttons = car.buttons]  BY <2>2 DEF Frame3E5
    <3> HIDE DEF g
    <3> QED  BY <3>1, <3>2 DEF GhostType
  <2>3. CASE Frame3A1  BY <1>2, <2>3 DEF Frame3A1, GhostType
  <2>4. CASE Frame220 \/ Frame1D0 \/ Frame0E1 \/ Frame10B \/ FrameGear \/ Frame1E1
    BY <2>4 DEF Frame220, Frame1D0, Frame0E1, Frame10B, FrameGear, Frame1E1, Plain
  <2> QED  BY <2>1, <2>2, <2>3, <2>4
<1> QED  BY <1>1, <1>3, <1>4, <1>5, QuietClimate

LEMMA StatusFrame ==
  ASSUME FramesInv, ClimateInv, Frame1E3
  PROVE  FramesInv' /\ ClimateInv' /\ acts' = acts /\ car' = car
<1>1. /\ cur \in Told /\ car \in CarType /\ ghost \in GhostType /\ car.climate \in Climate
      /\ demand \in DemandType
  BY DEF FramesInv, RouterInv, CarType, ClimateInv
<1> DEFINE c == [cur EXCEPT !.climate = car.climate]
           w == ghost.blind /\ ~Syncs
<1>2. /\ dec' = dec /\ Route(c) /\ ghost' = [ghost EXCEPT !.blind = w] /\ age' = 0
      /\ UNCHANGED <<car, mdf, acts>>
      /\ demand' = IF Syncs THEN [demand EXCEPT !.is = car.climate, !.known = TRUE] ELSE demand
  BY DEF Frame1E3
<1>3. Keeps(c, cur, {"climate"})  BY <1>1 DEF Told, Keeps, Fields
<1>4. w \in BOOLEAN  BY <1>1 DEF GhostType
<1>5. w <=> ghost.blind /\ ~Syncs  OBVIOUS
<1> HIDE DEF c, w
<1>6. /\ ghost' \in GhostType /\ ghost'.held = ghost.held /\ ghost'.buttons = ghost.buttons
      /\ ghost'.bar = ghost.bar /\ ghost'.wanted = ghost.wanted /\ ghost'.blind = w
  BY <1>1, <1>2, <1>4 DEF GhostType
<1>7. FramesInv'
  BY <1>2, <1>3, <1>6, QuietFrame DEF Keeps, Fields
<1>8. demand' \in DemandType /\ demand'.known
  BY <1>1, <1>2 DEF DemandType, Syncs
<1>9. ClimInv'
  <2>1. CASE Syncs
    <3>1. demand'.is = car.climate  BY <1>1, <1>2, <2>1 DEF DemandType
    <3> QED  BY <1>2, <3>1 DEF ClimInv
  <2>2. CASE ~Syncs
    BY <1>2, <1>5, <1>6, <2>2 DEF ClimateInv, ClimInv
  <2> QED  BY <2>1, <2>2
<1>10. CountInv'  BY <1>8 DEF CountInv
<1>11. age' \in 0 .. StatusTicks /\ mdf' \in BOOLEAN
  BY <1>2, BodyAssumption DEF ClimateInv
<1> QED  BY <1>2, <1>7, <1>8, <1>9, <1>10, <1>11 DEF ClimateInv

(* A demand is what the box knows to be wanted or so already.              *)
LEMMA TickStep ==
  ASSUME FramesInv, ClimateInv, Tick
  PROVE  /\ FramesInv' /\ ClimateInv' /\ acts' = acts
         /\ ghost'.blind \/ \A f \in {"ac", "dual"} : Asked(f)
<1>1. /\ car \in CarType /\ demand \in DemandType /\ age \in 0 .. StatusTicks /\ mdf \in BOOLEAN
  BY DEF FramesInv, ClimateInv
<1>2. /\ UNCHANGED <<dec, router, mdf, ghost, acts>>
      /\ car.on => age < StatusTicks
      /\ age' = IF car.on THEN age + 1 ELSE 0
  BY DEF Tick
<1>3. age' \in 0 .. StatusTicks  BY <1>1, <1>2, BodyAssumption
<1>4. ASSUME car' \in CarType PROVE FramesInv'
  BY <1>2, <1>4 DEF FramesInv, router, RouterInv, KeyInv, PanelInv, TyreInv, Seen, Chord
<1>5. CASE car' = car
  <2>1. demand' \in DemandType /\ demand'.is = demand.is /\ demand'.known = demand.known
    BY <1>1, <1>5, BodyAssumption DEF Tick, DemandType
  <2>2. ClimInv'  BY <1>2, <1>5, <2>1 DEF ClimateInv, ClimInv
  <2>3. CountInv'
    <3> SUFFICES ASSUME ~demand.known, ~mdf PROVE demand'.count <= age'
      BY <1>2, <2>1 DEF CountInv
    <3>1. demand.count <= age /\ demand.count \in Nat
      BY <1>1 DEF ClimateInv, CountInv, DemandType
    <3>2. CASE ~car.on
      BY <1>1, <1>2, <3>2 DEF Tick, DemandType
    <3>3. CASE car.on /\ demand.count + 1 < DemandTicks
      <4>1. demand'.count = demand.count + 1  BY <1>1, <3>3 DEF Tick, DemandType
      <4> QED  BY <1>1, <1>2, <3>1, <3>3, <4>1
    <3>4. CASE car.on /\ ~(demand.count + 1 < DemandTicks)
      <4>1. demand'.count = 0  BY <1>1, <3>4 DEF Tick, DemandType
      <4> QED  BY <1>3, <4>1
    <3> QED  BY <3>2, <3>3, <3>4
  <2> QED  BY <1>1, <1>2, <1>3, <1>4, <1>5, <2>1, <2>2, <2>3 DEF ClimateInv, Asked
<1>6. CASE car' # car
  <2>1. /\ car.on /\ ~mdf /\ ~(demand.count + 1 < DemandTicks)
        /\ demand' = [demand EXCEPT !.count = 0]
        /\ car' = [car EXCEPT !.climate = demand.is]
    BY <1>1, <1>6 DEF Tick, Demands
  <2>2. demand.known
    BY <1>1, <1>2, <2>1, BodyAssumption DEF ClimateInv, CountInv, DemandType
  <2>3. /\ demand' \in DemandType /\ demand'.is = demand.is /\ demand'.known = demand.known
    BY <1>1, <2>1, BodyAssumption DEF DemandType
  <2>4. car' \in CarType /\ car'.climate = demand.is
    BY <1>1, <2>1 DEF CarType, DemandType
  <2>5. ghost'.blind \/ \A f \in {"ac", "dual"} : Asked(f)
    BY <1>2, <2>2, <2>4 DEF ClimateInv, ClimInv, Asked
  <2>6. ClimInv' /\ CountInv'
    BY <1>2, <2>2, <2>3, <2>4 DEF ClimInv, CountInv
  <2> QED  BY <1>1, <1>2, <1>3, <1>4, <2>3, <2>4, <2>5, <2>6 DEF ClimateInv
<1> QED  BY <1>5, <1>6

(* Of a command the rest of the demand is what it was.                     *)
LEMMA CommandStep ==
  ASSUME FramesInv, ClimateInv, NEW f \in {"ac", "dual"}, NEW val \in BOOLEAN, Commands(f, val)
  PROVE  /\ FramesInv' /\ ClimateInv'
         /\ ghost'.blind \/ \A e \in {"ac", "dual"} : Asked(e)
<1>1. /\ car \in CarType /\ demand \in DemandType /\ age \in 0 .. StatusTicks /\ mdf \in BOOLEAN
      /\ ghost \in GhostType
  BY DEF FramesInv, ClimateInv
<1> DEFINE i == [demand.is EXCEPT ![f] = val]
           w == [ghost.wanted EXCEPT ![f] = val]
           b == ghost.blind \/ ~demand.known
<1>2. /\ i \in Climate /\ i[f] = val /\ \A e \in {"ac", "dual"} \ {f} : i[e] = demand.is[e]
  BY <1>1 DEF DemandType, Climate
<1>3. /\ w \in Climate /\ w[f] = val /\ \A e \in {"ac", "dual"} \ {f} : w[e] = ghost.wanted[e]
  BY <1>1 DEF GhostType, Climate
<1>4. b \in BOOLEAN  BY <1>1 DEF GhostType, DemandType
<1>5. /\ demand' = [demand EXCEPT !.is = i, !.known = TRUE]
      /\ ghost' = [ghost EXCEPT !.wanted = w, !.blind = b]
      /\ Demands(demand'.is) /\ UNCHANGED <<dec, router, mdf, age>>
  BY DEF Commands
<1>6. b <=> ghost.blind \/ ~demand.known  OBVIOUS
<1> HIDE DEF i, w, b
<1>7. demand' \in DemandType /\ demand'.is = i /\ demand'.known  BY <1>1, <1>2, <1>5 DEF DemandType
<1>8. /\ ghost' \in GhostType /\ ghost'.wanted = w /\ ghost'.blind = b
      /\ ghost'.held = ghost.held /\ ghost'.buttons = ghost.buttons /\ ghost'.bar = ghost.bar
  BY <1>1, <1>3, <1>4, <1>5 DEF GhostType
<1>9. car' \in CarType /\ (car'.climate = car.climate \/ car'.climate = i)
  BY <1>1, <1>2, <1>5, <1>7 DEF Demands, CarType
<1>10. ASSUME ~b, NEW e \in {"ac", "dual"}
       PROVE  i[e] \in {w[e], car.climate[e]}
  BY <1>2, <1>3, <1>6, <1>10 DEF ClimateInv, ClimInv
<1>11. ClimInv' /\ CountInv'
  BY <1>7, <1>8, <1>9, <1>10 DEF ClimInv, CountInv
<1>12. ghost'.blind \/ \A e \in {"ac", "dual"} : Asked(e)
  BY <1>8, <1>9, <1>10 DEF Asked
<1>13. FramesInv'
  BY <1>5, <1>8, <1>9 DEF FramesInv, router, RouterInv, KeyInv, PanelInv, TyreInv, Seen, Chord
<1> QED  BY <1>1, <1>5, <1>7, <1>11, <1>12, <1>13 DEF ClimateInv

(* What driver and car do, but for the climate.                            *)
LEMMA HappensStep ==
  ASSUME FramesInv, ClimateInv, NEW part, NEW c \in CarType, c.climate = car.climate,
         Happens(part, c)
  PROVE  FramesInv' /\ ClimateInv' /\ car'.climate = car.climate
<1>1. /\ car' = c /\ UNCHANGED <<dec, cur, last, synced, hu, newest, demand, mdf, age, ghost>>
  BY DEF Happens, router
<1>2. ClimateInv'  BY <1>1, QuietClimate
<1>3. FramesInv'
  BY <1>1 DEF FramesInv, RouterInv, KeyInv, PanelInv, TyreInv, Seen, Chord
<1> QED  BY <1>1, <1>2, <1>3

LEMMA DrivesStep ==
  ASSUME FramesInv, ClimateInv, Drives
  PROVE  FramesInv' /\ ClimateInv' /\ car'.climate = car.climate
<1>1. car \in CarType  BY DEF FramesInv
<1> DEFINE OK(c) == c \in CarType /\ c.climate = car.climate
<1>2. ASSUME NEW k \in Stalk \cup Tips PROVE OK([car EXCEPT !.keys = Flip(@, k)])
  BY <1>1 DEF CarType, Flip
<1>3. ASSUME NEW t \in Scrolls PROVE OK([car EXCEPT !.turn = t])  BY <1>1 DEF CarType
<1>4. ASSUME NEW b \in Buttons PROVE OK([car EXCEPT !.buttons = Flip(@, b)])
  BY <1>1 DEF CarType, Flip
<1>5. ASSUME NEW d \in {"driver", "boot"} PROVE OK([car EXCEPT !.doors = Flip(@, d)])
  BY <1>1 DEF CarType, Flip
<1>6. ASSUME NEW t \in DOMAIN BarOf PROVE OK([car EXCEPT !.tyre = t])
  BY <1>1 DEF CarType, BarOf
<1>7. ASSUME NEW b \in {20, 23} PROVE OK([car EXCEPT !.bar = b])  BY <1>1 DEF CarType
<1>8. ASSUME NEW a \in {0, 9} PROVE OK([car EXCEPT !.angle = a])  BY <1>1 DEF CarType
<1>9. ASSUME NEW z \in {0, 3, 7} PROVE OK([car EXCEPT !.radar = z])  BY <1>1 DEF CarType
<1>10. OK([car EXCEPT !.reverse = ~@])  BY <1>1 DEF CarType
<1>11. OK([car EXCEPT !.rear = ~@])  BY <1>1 DEF CarType
<1>12. OK([car EXCEPT !.on = ~@])  BY <1>1 DEF CarType
<1>13. PICK part, c : Happens(part, c) /\ OK(c)
  <2> HIDE DEF OK
  <2> QED
    BY <1>2, <1>3, <1>4, <1>5, <1>6, <1>7, <1>8, <1>9, <1>10, <1>11, <1>12 DEF Drives
<1> QED  BY <1>13, HappensStep

(* A real MDF commands without the box, comes and goes; the head unit's    *)
(* announcement starts the decoders over.                                  *)
LEMMA MdfStep ==
  ASSUME FramesInv, ClimateInv, MdfComesOrGoes \/ \E c \in Climate : MdfCommands(c)
  PROVE  /\ FramesInv' /\ ClimateInv'
         /\ ghost'.blind \/ car'.climate = car.climate
<1>1. car \in CarType /\ ghost \in GhostType  BY DEF FramesInv
<1>2. ASSUME NEW c \in Climate, MdfCommands(c)
      PROVE  FramesInv' /\ ClimateInv' /\ ghost'.blind
  <2>1. /\ car' = [car EXCEPT !.climate = c]
        /\ ghost' = [ghost EXCEPT !.wanted = c, !.blind = TRUE]
        /\ UNCHANGED <<dec, cur, last, synced, hu, newest, demand, mdf, age>>
    BY <1>2 DEF MdfCommands, router
  <2>2. car' \in CarType  BY <1>1, <2>1 DEF CarType
  <2>3. /\ ghost' \in GhostType /\ ghost'.blind
        /\ ghost'.held = ghost.held /\ ghost'.buttons = ghost.buttons /\ ghost'.bar = ghost.bar
    BY <1>1, <2>1 DEF GhostType
  <2>4. FramesInv'
    BY <2>1, <2>2, <2>3 DEF FramesInv, RouterInv, KeyInv, PanelInv, TyreInv, Seen, Chord
  <2>5. ClimateInv'  BY <2>1, <2>3 DEF ClimateInv, ClimInv, CountInv
  <2> QED  BY <2>3, <2>4, <2>5
<1>3. ASSUME MdfComesOrGoes PROVE FramesInv' /\ ClimateInv' /\ car' = car
  <2>1. /\ mdf' = ~mdf /\ (mdf => demand.known)
        /\ UNCHANGED <<car, dec, cur, last, synced, hu, newest, demand, age, ghost>>
    BY <1>3 DEF MdfComesOrGoes, router
  <2>2. FramesInv'
    BY <2>1 DEF FramesInv, RouterInv, KeyInv, PanelInv, TyreInv, Seen, Chord
  <2>3. mdf' \in BOOLEAN  BY <2>1
  <2>4. ClimInv'  BY <2>1 DEF ClimateInv, ClimInv
  <2>5. CountInv'  BY <2>1 DEF ClimateInv, CountInv
  <2> QED  BY <2>1, <2>2, <2>3, <2>4, <2>5 DEF ClimateInv
<1> QED  BY <1>2, <1>3

LEMMA NewTypes ==
  /\ NewDecoders \in DecType /\ NewDemand \in DemandType
  /\ ~NewDemand.known /\ NewDemand.count = 0
  BY BodyAssumption DEF NewDecoders, DecType, NewDemand, DemandType, AllOn, Climate

LEMMA HandshakeStep ==
  ASSUME FramesInv, ClimateInv, Handshake
  PROVE  FramesInv' /\ ClimateInv' /\ car' = car
<1>1. car \in CarType /\ ghost \in GhostType  BY DEF FramesInv
<1>2. /\ dec' = NewDecoders /\ demand' = NewDemand /\ mdf' = FALSE
      /\ ghost' = [ghost EXCEPT !.held = {"key", "panel"}, !.bar = 0]
      /\ UNCHANGED <<car, cur, last, synced, hu, newest, age>>
  BY DEF Handshake, router
<1>3. ghost' \in GhostType /\ ghost'.held = {"key", "panel"} /\ ghost'.bar = 0
  BY <1>1, <1>2 DEF GhostType
<1>4. FramesInv'
  BY <1>2, <1>3, NewTypes DEF FramesInv, RouterInv, KeyInv, PanelInv, TyreInv
<1>5. age' \in 0 .. StatusTicks /\ 0 <= age'  BY <1>2 DEF ClimateInv
<1>6. ClimateInv'
  BY <1>2, <1>5, NewTypes DEF ClimateInv, ClimInv, CountInv
<1> QED  BY <1>2, <1>4, <1>6

LEMMA InvInit == Init => Inv
<1> SUFFICES ASSUME Init PROVE Inv  OBVIOUS
<1>1. PICK c \in Climate :
        /\ car = [keys |-> {}, buttons |-> {}, turn |-> None, doors |-> {}, climate |-> c,
                  rear |-> FALSE, tyre |-> "standby", bar |-> 0, radar |-> 7,
                  reverse |-> FALSE, angle |-> 0, on |-> TRUE]
        /\ ghost = [held |-> {}, buttons |-> {}, bar |-> 0, wanted |-> c, blind |-> FALSE]
  BY DEF Init
<1>2. car \in CarType /\ ghost \in GhostType /\ ghost.bar = 0
  BY <1>1 DEF CarType, GhostType
<1>3. Untold \in Told  BY DEF Untold, Told, AllOn, Climate
<1>4. /\ Untold.key = None /\ Untold.panel = 0 /\ Untold.reverse = FALSE
      /\ Untold.tyres.valid = FALSE /\ Untold.angle = 0
  BY DEF Untold
<1>5. /\ dec = NewDecoders /\ cur = Untold /\ last = Untold /\ synced = FALSE /\ hu = Untold
      /\ newest = "key"
      /\ demand = NewDemand /\ mdf \in BOOLEAN /\ age = 0 /\ acts = 0
  BY DEF Init
<1>6. RouterInv  BY <1>3, <1>4, <1>5 DEF RouterInv
<1>7. dec.button = 0  BY <1>5 DEF NewDecoders
<1>8. FramesInv
  BY <1>2, <1>4, <1>5, <1>6, <1>7, NewTypes DEF FramesInv, KeyInv, PanelInv, TyreInv
<1>9. ClimateInv
  BY <1>5, NewTypes, BodyAssumption DEF ClimateInv, ClimInv, CountInv
<1>10. acts \in 0 .. MaxActs  BY <1>5, BodyAssumption
<1> QED  BY <1>8, <1>9, <1>10 DEF Inv

LEMMA InvStep ==
  ASSUME Inv, [Next]_vars
  PROVE  Inv' /\ (ghost'.blind \/ \A f \in {"ac", "dual"} : Asked(f))
<1>1. FramesInv /\ ClimateInv /\ acts \in 0 .. MaxActs  BY DEF Inv
<1>2. ASSUME NEW part, Act(part) PROVE acts' \in 0 .. MaxActs
  BY <1>1, <1>2, BodyAssumption DEF Act
<1>3. CASE Frame
  <2>1. CASE Frame1E3  BY <1>1, <2>1, StatusFrame DEF Inv, Asked
  <2>2. CASE ~Frame1E3
    <3>1. \/ Frame21F \/ Frame221 \/ Frame3E5 \/ Frame220 \/ Frame1D0 \/ Frame0E1
          \/ Frame10B \/ FrameGear \/ Frame3A1 \/ Frame1E1
      BY <1>3, <2>2 DEF Frame
    <3>2. FramesInv' /\ ClimateInv' /\ acts' = acts /\ car'.climate = car.climate
      BY <1>1, <3>1, QuietFrames
    <3> QED  BY <1>1, <3>2 DEF Inv, Asked
  <2> QED  BY <2>1, <2>2
<1>4. CASE Tick  BY <1>1, <1>4, TickStep DEF Inv
<1>5. CASE Drives
  <2>1. acts' \in 0 .. MaxActs  BY <1>2, <1>5 DEF Drives, Happens
  <2> QED  BY <1>1, <1>5, <2>1, DrivesStep DEF Inv, Asked
<1>6. ASSUME NEW f \in {"ac", "dual"}, NEW val \in BOOLEAN, Commands(f, val)
      PROVE  Inv' /\ (ghost'.blind \/ \A e \in {"ac", "dual"} : Asked(e))
  <2>1. acts' \in 0 .. MaxActs  BY <1>2, <1>6 DEF Commands
  <2> QED  BY <1>1, <1>6, <2>1, CommandStep DEF Inv
<1>7. CASE MdfComesOrGoes \/ \E c \in Climate : MdfCommands(c)
  <2>1. acts' \in 0 .. MaxActs  BY <1>2, <1>7 DEF MdfComesOrGoes, MdfCommands
  <2> QED  BY <1>1, <1>7, <2>1, MdfStep DEF Inv, Asked
<1>8. CASE Handshake
  <2>1. acts' \in 0 .. MaxActs  BY <1>2, <1>8 DEF Handshake
  <2> QED  BY <1>1, <1>8, <2>1, HandshakeStep DEF Inv, Asked
<1>9. CASE UNCHANGED vars
  <2>1. UNCHANGED <<car, dec, cur, last, synced, hu, newest, demand, mdf, age, ghost, acts>>
    BY <1>9 DEF vars, router
  <2>2. FramesInv'
    BY <1>1, <2>1 DEF FramesInv, RouterInv, KeyInv, PanelInv, TyreInv, Seen, Chord
  <2>3. ClimateInv'  BY <1>1, <2>1, QuietClimate
  <2> QED  BY <1>1, <2>1, <2>2, <2>3 DEF Inv, Asked
<1> QED  BY <1>3, <1>4, <1>5, <1>6, <1>7, <1>8, <1>9 DEF Next

-----------------------------------------------------------------------------
(* The inductive invariant holds.                                          *)
LEMMA Always == Spec => []Inv
<1>1. Inv /\ [Next]_vars => Inv'  BY InvStep
<1> QED  BY <1>1, InvInit, PTL DEF Spec

(* Decoders, router, demand and counts keep their types.                   *)
THEOREM TypeCorrect == Spec => []TypeOK
<1>1. Inv => TypeOK
  BY DEF Inv, FramesInv, ClimateInv, RouterInv, TypeOK, DecType, DemandType
<1> QED  BY <1>1, Always, PTL

(* The head unit was told the present state (can_router_process_can): the  *)
(* copy it is compared with never runs ahead of what was sent, and of key  *)
(* and angle, which share Cmd 0x11, the one that changed last was sent     *)
(* last.                                                                   *)
THEOREM TellsAll == Spec => []ShownIsCurrent
<1>1. Inv => ShownIsCurrent
  <2> SUFFICES ASSUME Inv PROVE ShownIsCurrent  OBVIOUS
  <2>1. RouterInv  BY DEF Inv, FramesInv
  <2> QED  BY <2>1 DEF RouterInv, ShownIsCurrent
<1> QED  BY <1>1, Always, PTL

(* Keys and buttons on display were pressed in the last frame of their     *)
(* kind (stalk_key_cb, console_key_cb, psa_stalk_process_tip_0x221).       *)
THEOREM KeysReleased == Spec => []NoStuckKey
<1>1. Inv => NoStuckKey
  <2> SUFFICES ASSUME Inv PROVE NoStuckKey  OBVIOUS
  <2>1. RouterInv /\ KeyInv /\ PanelInv  BY DEF Inv, FramesInv
  <2>2. hu.key \in {cur.key, None} /\ hu.panel = cur.panel  BY <2>1 DEF RouterInv
  <2> QED  BY <2>1, <2>2 DEF KeyInv, PanelInv, NoStuckKey
<1> QED  BY <1>1, Always, PTL

(* No pressure made up from 0x1E1 replaces one measured in 0x3A1.          *)
THEOREM MeasuredWins == Spec => []MeasuredStays
<1>1. Inv => MeasuredStays
  <2> SUFFICES ASSUME Inv PROVE MeasuredStays  OBVIOUS
  <2>1. RouterInv /\ TyreInv  BY DEF Inv, FramesInv
  <2> QED  BY <2>1 DEF RouterInv, TyreInv, MeasuredStays
<1> QED  BY <1>1, Always, PTL

(* The demand 0x1ED repeated every DemandTicks asks for nothing unasked,   *)
(* because the status 0x1E3 is heard before the first one is due.          *)
THEOREM ClimateAsAsked == Spec => NoUnaskedClimate
<1>1. Inv /\ [Next]_vars =>
        [ ghost'.blind \/
          \A f \in {"ac", "dual"} :
            car'.climate[f] = car.climate[f] \/ car'.climate[f] = ghost'.wanted[f] ]_vars
  BY InvStep DEF Asked
<1> QED  BY <1>1, Always, PTL DEF Spec, NoUnaskedClimate
=============================================================================
