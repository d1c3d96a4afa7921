----------------------------- MODULE TripProofs -----------------------------
(***************************************************************************)
(* The trip computer for every length of a press, of a pulse and of a      *)
(* page, and any number of frames lost: no trip is reset unasked, every    *)
(* reset arrives as long as the pulse is longer than what may be lost, the *)
(* BSI knows the page, and the head unit's pages follow the figures.       *)
(***************************************************************************)
EXTENDS TripPages, TLAPS

(* What TripPages adds to TripComputer leaves button, screen and BSI alone. *)
Idles == UNCHANGED <<box, finger, bsi, count, ghost>> /\ acts' \in {acts, acts + 1} /\ acts' <= MaxActs

LEMMA PagesStep == ASSUME PagesTypeOK, [PagesNext]_allVars PROVE Next \/ Idles
<1>0. acts \in Nat /\ acts <= MaxActs
  BY TripAssumption DEF PagesTypeOK, TypeOK
<1>1. CASE Figures221
  BY <1>0, <1>1 DEF Figures221, Next, Idles, vars
<1>2. ASSUME NEW k \in Trips, FiguresTrip(k) PROVE Idles
  BY <1>0, <1>2 DEF FiguresTrip, Idles, vars
<1>3. CASE Telemetry
  BY <1>0, <1>3 DEF Telemetry, Idles, vars
<1>4. CASE PagesTick \/ HuRestarts \/ Others
  BY <1>4 DEF PagesTick, HuRestarts, Others, Next
<1>5. CASE Drives
  BY <1>0, <1>5, TripAssumption DEF Drives, Act, Idles
<1>6. CASE UNCHANGED allVars
  BY <1>0, <1>6 DEF allVars, vars, Idles
<1> QED  BY <1>1, <1>2, <1>3, <1>4, <1>5, <1>6 DEF PagesNext

-----------------------------------------------------------------------------
(* The screen of the virtual MDF stays a screen, whatever happens to it.   *)
LEMMA PageAfterType == ASSUME NEW p \in Pages PROVE PageAfter(p) \in Shown
<1> DEFINE Q(q) == \/ p \in {"idle", "trip2"} /\ q = "instant"
                   \/ p = "instant" /\ q = "trip1"
                   \/ p = "trip1" /\ q = "trip2"
<1>1. \E q \in Pages \ {"idle"} : Q(q)  BY DEF Pages, Trips
<1>2. PageAfter(p) = CHOOSE q \in Pages \ {"idle"} : Q(q)  BY DEF PageAfter
<1> HIDE DEF Q
<1> QED  BY <1>1, <1>2 DEF Shown

LEMMA ResettingType ==
  ASSUME screen \in Screen, NEW k \in Trips
  PROVE  /\ Resetting(screen, k) \in Screen
         /\ Resetting(screen, k).reset = k /\ Resetting(screen, k).page = k
         /\ Resetting(screen, k).pulse = PulseTicks
<1>2. PulseTicks \in 0 .. PulseTicks /\ IdleTicks \in 0 .. IdleTicks  BY TripAssumption
<1>3. k \in Pages  BY DEF Pages
<1> QED  BY <1>2, <1>3 DEF Screen, Resetting

LEMMA CycledType ==
  ASSUME screen \in Screen
  PROVE  /\ Cycled(screen) \in Screen
         /\ Cycled(screen).reset = screen.reset /\ Cycled(screen).pulse = screen.pulse
         /\ Cycled(screen).page \in Shown
<1> DEFINE p == PageAfter(screen.viewed)
<1>1. p \in Pages /\ p \in Shown  BY PageAfterType DEF Screen, Shown
<1> DEFINE a == [screen EXCEPT !.page = p]
           b == [a EXCEPT !.viewed = p]
<1>2. a \in Screen /\ a.page = p /\ a.reset = screen.reset /\ a.pulse = screen.pulse
  BY <1>1 DEF Screen
<1>3. b \in Screen /\ b.page = p /\ b.reset = a.reset /\ b.pulse = a.pulse
  BY <1>1, <1>2 DEF Screen
<1>4. Cycled(screen) = [b EXCEPT !.idle = IdleTicks]  BY DEF Cycled
<1>5. IdleTicks \in 0 .. IdleTicks  BY TripAssumption
<1> HIDE DEF a, b, p
<1> QED  BY <1>1, <1>2, <1>3, <1>4, <1>5 DEF Screen

LEMMA TickedType ==
  ASSUME screen \in Screen
  PROVE  /\ Ticked(screen) \in Screen
         /\ Ticked(screen).reset \in {screen.reset, None}
         /\ screen.pulse > 1 => /\ Ticked(screen).reset = screen.reset
                                /\ Ticked(screen).pulse = screen.pulse - 1
         /\ ~SendsInTick(screen) => /\ Ticked(screen).page = screen.page
                                    /\ Ticked(screen).reset = screen.reset
                                    /\ Ticked(screen).pulse = 0 /\ screen.pulse = 0
<1> DEFINE a == PulseOver(screen)
           b == PageOver(a)
<1>1. /\ a \in Screen /\ a.reset \in {screen.reset, None} /\ a.idle = screen.idle
      /\ a.page = screen.page
      /\ screen.pulse > 1 => a.reset = screen.reset /\ a.pulse = screen.pulse - 1
      /\ screen.pulse = 0 => a = screen
  <2>1. CASE screen.pulse = 0  BY <2>1 DEF PulseOver
  <2>2. CASE screen.pulse # 0
    <3> DEFINE c == [screen EXCEPT !.pulse = @ - 1]
               r == IF screen.pulse = 1 THEN None ELSE screen.reset
    <3>1. screen.pulse - 1 \in 0 .. PulseTicks  BY <2>2, TripAssumption DEF Screen
    <3>2. /\ c \in Screen /\ c.pulse = screen.pulse - 1 /\ c.reset = screen.reset
          /\ c.idle = screen.idle /\ c.page = screen.page
      BY <3>1 DEF Screen
    <3>3. a = [c EXCEPT !.reset = r]  BY <2>2, <3>2 DEF PulseOver
    <3>4. r \in Trips \cup {None}  BY DEF Screen
    <3> HIDE DEF c, r, a
    <3>5. /\ a \in Screen /\ a.pulse = c.pulse /\ a.reset = r
          /\ a.idle = c.idle /\ a.page = c.page
      BY <3>2, <3>3, <3>4 DEF Screen
    <3> QED  BY <2>2, <3>2, <3>5 DEF r
  <2> QED  BY <2>1, <2>2
<1>2. /\ b \in Screen /\ b.reset = a.reset /\ b.pulse = a.pulse
      /\ a.idle # 1 => b.page = a.page
  <2> HIDE DEF a
  <2>1. CASE a.idle = 0  BY <1>1, <2>1 DEF PageOver
  <2>2. CASE a.idle # 0
    <3> DEFINE c == [a EXCEPT !.idle = @ - 1]
               q == IF a.idle = 1 THEN "idle" ELSE a.page
    <3>1. a.idle - 1 \in 0 .. IdleTicks  BY <1>1, <2>2, TripAssumption DEF Screen
    <3>2. c \in Screen /\ c.pulse = a.pulse /\ c.reset = a.reset /\ c.page = a.page
      BY <1>1, <3>1 DEF Screen
    <3>3. b = [c EXCEPT !.page = q]  BY <2>2, <3>2 DEF PageOver
    <3>4. q \in Pages  BY <1>1 DEF Screen, Pages
    <3> HIDE DEF b, c, q
    <3>5. b \in Screen /\ b.pulse = c.pulse /\ b.reset = c.reset /\ b.page = q
      BY <3>2, <3>3, <3>4 DEF Screen
    <3> QED  BY <3>2, <3>5 DEF q
  <2> QED  BY <2>1, <2>2
<1>3. /\ PeriodOver(b) \in Screen /\ PeriodOver(b).reset = b.reset
      /\ PeriodOver(b).pulse = b.pulse /\ PeriodOver(b).page = b.page
  <2>1. b.period + 1 \in Nat /\ PeriodTicks \in Nat /\ PeriodTicks > 0
    BY <1>2, TripAssumption DEF Screen
  <2>2. (b.period + 1) % PeriodTicks \in 0 .. PeriodTicks - 1  BY <2>1
  <2> HIDE DEF b
  <2> QED  BY <1>2, <2>2 DEF PeriodOver, Screen
<1>4. Ticked(screen) = PeriodOver(b)  BY DEF Ticked
<1> HIDE DEF a, b
<1>5. ~SendsInTick(screen) => screen.pulse = 0 /\ screen.idle # 1
  BY DEF SendsInTick, Screen
<1> QED  BY <1>1, <1>2, <1>3, <1>4, <1>5

-----------------------------------------------------------------------------
(* The frame 0x167, heard or lost.                                         *)
BsiFrame == [page : Pages, reset : Trips \cup {None}]
Ghost == [told : BOOLEAN, due : Trips \cup {None}, effects : 0 .. 1, lost : 0 .. MaxLost]

LEMMA SentType ==
  ASSUME TypeOK, NEW s \in Screen, NEW f \in BsiFrame, NEW g \in Ghost,
         SendsFrame(s, f, g)
  PROVE  /\ screen' \in Screen /\ bsi' \in BsiFrame /\ ghost' \in Ghost
         /\ pulses' \in [Trips -> Nat]
         /\ ghost'.effects = g.effects
<1>1. CASE Heard(f, g)
  <2> DEFINE a == [g EXCEPT !.told = TRUE]
             d == IF g.due = f.reset THEN None ELSE g.due
  <2>1. a \in Ghost /\ a.effects = g.effects /\ a.due = g.due  BY DEF Ghost
  <2>2. ghost' = [a EXCEPT !.due = d]  BY <1>1, <2>1 DEF Heard
  <2>3. d \in Trips \cup {None}  BY DEF Ghost
  <2>4. ghost' \in Ghost /\ ghost'.effects = g.effects
    <3> HIDE DEF a, d
    <3> QED  BY <2>1, <2>2, <2>3 DEF Ghost
  <2>5. f.reset # None => f.reset \in Trips  BY DEF BsiFrame
  <2>6. pulses' \in [Trips -> Nat]  BY <1>1, <2>5 DEF Heard, TypeOK
  <2> QED  BY <1>1, <2>4, <2>6 DEF Heard, SendsFrame
<1>2. CASE Lost(g)
  <2> DEFINE a == [g EXCEPT !.told = FALSE]
  <2>1. a \in Ghost /\ a.effects = g.effects /\ a.lost = g.lost  BY DEF Ghost
  <2>2. ghost' = [a EXCEPT !.lost = @ + 1]  BY <1>2 DEF Lost
  <2>3. g.lost + 1 \in 0 .. MaxLost  BY <1>2, TripAssumption DEF Lost, Ghost
  <2>4. ghost' \in Ghost /\ ghost'.effects = g.effects
    <3> HIDE DEF a
    <3> QED  BY <2>1, <2>2, <2>3 DEF Ghost
  <2> QED  BY <1>2, <2>4 DEF Lost, SendsFrame, TypeOK, BsiFrame
<1> QED  BY <1>1, <1>2 DEF SendsFrame

-----------------------------------------------------------------------------
(* What a step can do to page, reset bit and requests: send the screen     *)
(* with its reset bit as it was, send it after a tick, ask for a reset,    *)
(* leave all that alone, or forget it.                                     *)
Repeating == \E s \in Screen :
  /\ Sends(s, ghost) /\ asked' = asked
  /\ s.reset = screen.reset /\ s.pulse = screen.pulse
Ticking == SendsInTick(screen) /\ Sends(Ticked(screen), ghost) /\ asked' = asked
Asking == \E k \in Trips, g \in Ghost :
  /\ SendsFrame(Resetting(screen, k), ResetFrame(k), g)
  /\ g.due = k /\ g.lost = ghost.lost /\ g.told = ghost.told
  /\ asked' = [asked EXCEPT ![k] = @ + 1]
Resting ==
  /\ UNCHANGED <<bsi, pulses>>
  /\ screen' \in Screen
  /\ screen'.page = screen.page /\ screen'.reset = screen.reset /\ screen'.pulse = screen.pulse
  /\ asked' \in [Trips -> Nat] /\ \A k \in Trips : asked'[k] >= asked[k]
  /\ ghost' \in Ghost
  /\ ghost'.told = ghost.told /\ ghost'.lost = ghost.lost /\ ghost'.due \in {ghost.due, None}
Forgetting ==
  /\ UNCHANGED <<bsi, pulses, asked>>
  /\ screen' = NewScreen
  /\ ghost' \in Ghost /\ ghost'.told = FALSE /\ ghost'.due = None

(* A press not yet acted on has reset nothing.                             *)
OneEffect == ~button.done => ghost.effects = 0

LEMMA Kept ==
  ASSUME TypeOK, NEW g \in Ghost, Keeps(screen, g), asked' = asked,
         g.told = ghost.told, g.lost = ghost.lost, g.due = ghost.due
  PROVE  Resting
  BY DEF Keeps, Resting, TypeOK

LEMMA SendResetEffect ==
  ASSUME TypeOK, NEW k \in Trips, NEW g \in Ghost, SendReset(k, g),
         g.told = ghost.told, g.lost = ghost.lost, g.due = ghost.due,
         asked' = [asked EXCEPT ![k] = @ + 1]
  PROVE  Asking \/ Resting
<1>1. CASE mdf
  <2>1. asked' \in [Trips -> Nat] /\ \A j \in Trips : asked'[j] >= asked[j]  BY DEF TypeOK
  <2> QED  BY <1>1, <2>1 DEF SendReset, Keeps, Resting, TypeOK
<1>2. CASE ~mdf
  <2> DEFINE h == [g EXCEPT !.due = k]
  <2>1. h \in Ghost /\ h.due = k /\ h.lost = g.lost /\ h.told = g.told  BY DEF Ghost
  <2>2. SendsFrame(Resetting(screen, k), ResetFrame(k), h)  BY <1>2 DEF SendReset
  <2> QED  BY <2>1, <2>2 DEF Asking
<1> QED  BY <1>1, <1>2

LEMMA FrameEffect ==
  ASSUME TypeOK, OneEffect, Frame221 PROVE Repeating \/ Asking \/ Resting
<1>0. ghost \in Ghost  BY DEF TypeOK, Ghost
<1>1. CASE PressSeen
  <2> DEFINE g == [ghost EXCEPT !.effects = 0]
  <2>1. g \in Ghost /\ g.told = ghost.told /\ g.lost = ghost.lost /\ g.due = ghost.due
    BY <1>0 DEF Ghost
  <2> QED  BY <1>1, <2>1, Kept DEF PressSeen
<1>2. CASE HoldSeen
  <2>1. CASE Nothing(button) \/ (Keeps(screen, ghost) /\ asked' = asked)
    BY <1>0, <2>1, Kept DEF Nothing
  <2>2. CASE ~(button.done \/ button.age < LongTicks) /\ ~mdf /\ screen.page \in Trips
    <3> DEFINE k == screen.page
               g == [ghost EXCEPT !.effects = 1]
    <3>1. g \in Ghost /\ g.told = ghost.told /\ g.lost = ghost.lost /\ g.due = ghost.due
      BY <1>0 DEF Ghost
    <3>2. ghost.effects = 0  BY <2>2 DEF OneEffect
    <3>3. SendReset(k, g) /\ asked' = [asked EXCEPT ![k] = @ + 1 - ghost.effects]
      BY <1>2, <2>2 DEF HoldSeen
    <3>4. asked' = [asked EXCEPT ![k] = @ + 1]  BY <2>2, <3>2, <3>3 DEF TypeOK
    <3> QED  BY <2>2, <3>1, <3>3, <3>4, SendResetEffect
  <2> QED  BY <1>2, <2>1, <2>2 DEF HoldSeen
<1>3. CASE ReleaseSeen
  <2>1. CASE Keeps(screen, ghost)  BY <1>0, <1>3, <2>1, Kept DEF ReleaseSeen
  <2>2. CASE Sends(Cycled(screen), ghost)
    BY <1>3, <2>2, CycledType DEF ReleaseSeen, Repeating, TypeOK
  <2> QED  BY <1>3, <2>1, <2>2 DEF ReleaseSeen
<1> QED  BY <1>1, <1>2, <1>3 DEF Frame221

LEMMA TickEffect == ASSUME TypeOK, Tick PROVE Ticking \/ Resting
<1>0. ghost \in Ghost /\ screen \in Screen  BY DEF TypeOK, Ghost
<1>1. asked' = asked /\ asked \in [Trips -> Nat]  BY DEF Tick, TypeOK
<1>2. CASE Keeps(screen, ghost)  BY <1>0, <1>1, <1>2, Kept
<1>3. CASE Keeps([screen EXCEPT !.period = 0], ghost)
  <2> DEFINE s == [screen EXCEPT !.period = 0]
  <2>1. 0 \in 0 .. PeriodTicks - 1  BY TripAssumption
  <2>2. s \in Screen /\ s.page = screen.page /\ s.reset = screen.reset /\ s.pulse = screen.pulse
    BY <1>0, <2>1 DEF Screen
  <2> QED  BY <1>0, <1>1, <1>3, <2>2 DEF Keeps, Resting
<1>4. CASE SendsInTick(screen) /\ Sends(Ticked(screen), ghost)
  BY <1>1, <1>4 DEF Ticking
<1>5. CASE ~SendsInTick(screen) /\ Keeps(Ticked(screen), ghost)
  BY <1>0, <1>1, <1>5, TickedType DEF Keeps, Resting
<1> QED  BY <1>2, <1>3, <1>4, <1>5 DEF Tick

LEMMA HuResetsEffect ==
  ASSUME TypeOK, NEW c \in Commands, HuResets(c) PROVE Asking \/ Resting
<1>0. ghost \in Ghost  BY DEF TypeOK, Ghost
<1>1. Wanted(c) \in Trips  BY DEF HuResets, Wanted, Trips, None
<1>2. asked' = [asked EXCEPT ![Wanted(c)] = @ + 1]  BY DEF HuResets
<1>3. CASE power = "asleep"
  <2>1. asked' \in [Trips -> Nat] /\ \A j \in Trips : asked'[j] >= asked[j]
    BY <1>1, <1>2 DEF TypeOK
  <2> QED  BY <1>0, <1>3, <2>1 DEF HuResets, Keeps, Resting, TypeOK
<1>4. CASE power # "asleep"
  BY <1>0, <1>1, <1>2, <1>4, SendResetEffect DEF HuResets
<1> QED  BY <1>3, <1>4

LEMMA OtherEffect ==
  ASSUME TypeOK, Press \/ Release \/ Handshake \/ MdfComesOrGoes \/ Idles
                 \/ \E p \in {"on", "off", "asleep"} : PowerChanges(p)
  PROVE  Forgetting \/ Resting
<1>0. ghost \in Ghost /\ screen \in Screen /\ asked \in [Trips -> Nat]
  BY DEF TypeOK, Ghost
<1>1. CASE Press \/ Release \/ Idles
  BY <1>0, <1>1 DEF Press, Release, Idles, box, count, Resting
<1>2. CASE Handshake
  <2> DEFINE a == [ghost EXCEPT !.told = FALSE]
             b == [a EXCEPT !.due = None]
  <2>1. a \in Ghost /\ a.told = FALSE  BY <1>0 DEF Ghost
  <2>2. b \in Ghost /\ b.told = FALSE /\ b.due = None  BY <2>1 DEF Ghost
  <2>3. ghost' = [b EXCEPT !.effects = 0]  BY <1>2 DEF Handshake, Forgets
  <2>4. ghost' \in Ghost /\ ghost'.told = FALSE /\ ghost'.due = None
    <3> HIDE DEF a, b
    <3> QED  BY <2>2, <2>3 DEF Ghost
  <2> QED  BY <1>2, <2>4 DEF Handshake, Forgets, count, Forgetting
<1>3. CASE MdfComesOrGoes \/ \E p \in {"on", "off", "asleep"} : PowerChanges(p)
  <2>1. ghost' \in {[ghost EXCEPT !.due = None], ghost}
    BY <1>0, <1>3 DEF MdfComesOrGoes, PowerChanges, Ghost
  <2>2. /\ ghost' \in Ghost /\ ghost'.told = ghost.told /\ ghost'.lost = ghost.lost
        /\ ghost'.due \in {ghost.due, None}
    BY <1>0, <2>1 DEF Ghost
  <2> QED  BY <1>0, <1>3, <2>2 DEF MdfComesOrGoes, PowerChanges, count, Resting
<1> QED  BY <1>1, <1>2, <1>3

LEMMA Effects ==
  ASSUME TypeOK, OneEffect, Next \/ Idles
  PROVE  Repeating \/ Ticking \/ Asking \/ Resting \/ Forgetting
  BY FrameEffect, TickEffect, HuResetsEffect, OtherEffect DEF Next

-----------------------------------------------------------------------------
(* Types.                                                                  *)
LEMMA AskingType ==
  ASSUME TypeOK, NEW k \in Trips
  PROVE  Resetting(screen, k) \in Screen /\ ResetFrame(k) \in BsiFrame
<1>1. screen \in Screen  BY DEF TypeOK
<1> QED  BY <1>1, ResettingType DEF ResetFrame, BsiFrame, Pages

LEMMA FrameType == ASSUME NEW s \in Screen PROVE Frame167(s) \in BsiFrame
  BY DEF Frame167, Screen, BsiFrame

LEMMA EffectType ==
  ASSUME TypeOK, Repeating \/ Ticking \/ Asking \/ Resting \/ Forgetting
  PROVE  /\ screen' \in Screen /\ bsi' \in BsiFrame /\ ghost' \in Ghost
         /\ pulses' \in [Trips -> Nat] /\ asked' \in [Trips -> Nat]
<1>0. /\ ghost \in Ghost /\ screen \in Screen /\ bsi \in BsiFrame
      /\ asked \in [Trips -> Nat] /\ pulses \in [Trips -> Nat]
  BY DEF TypeOK, Ghost, BsiFrame
<1>1. CASE Repeating
  BY <1>0, <1>1, SentType, FrameType DEF Repeating, Sends
<1>2. CASE Ticking
  BY <1>0, <1>2, SentType, FrameType, TickedType DEF Ticking, Sends
<1>3. CASE Asking
  BY <1>0, <1>3, SentType, AskingType DEF Asking
<1>4. CASE Resting
  BY <1>0, <1>4 DEF Resting
<1>5. CASE Forgetting
  <2>1. NewScreen \in Screen  BY TripAssumption DEF NewScreen, Screen, Pages
  <2> QED  BY <1>0, <1>5, <2>1 DEF Forgetting
<1> QED  BY <1>1, <1>2, <1>3, <1>4, <1>5

LEMMA ButtonType ==
  ASSUME TypeOK, Next \/ Idles
  PROVE  /\ button' \in [prev : BOOLEAN, age : 0 .. LongTicks, done : BOOLEAN]
         /\ mdf' \in BOOLEAN /\ power' \in {"on", "off", "asleep"} /\ finger' \in BOOLEAN
         /\ acts' \in 0 .. MaxActs
<1> DEFINE Button == [prev : BOOLEAN, age : 0 .. LongTicks, done : BOOLEAN]
<1>0. /\ button \in Button /\ mdf \in BOOLEAN /\ power \in {"on", "off", "asleep"}
      /\ finger \in BOOLEAN /\ acts \in 0 .. MaxActs
      /\ 0 \in 0 .. LongTicks /\ MaxActs \in Nat
  BY TripAssumption DEF TypeOK
<1>1. CASE Frame221
  <2>1. button' \in {[prev |-> TRUE, age |-> 0, done |-> FALSE], button,
                     [button EXCEPT !.done = TRUE], [[button EXCEPT !.prev = FALSE] EXCEPT !.age = 0]}
    BY <1>1 DEF Frame221, PressSeen, HoldSeen, ReleaseSeen, Nothing
  <2>2. [prev |-> TRUE, age |-> 0, done |-> FALSE] \in Button  BY <1>0
  <2>3. [button EXCEPT !.done = TRUE] \in Button  BY <1>0
  <2>4. [[button EXCEPT !.prev = FALSE] EXCEPT !.age = 0] \in Button
    <3> DEFINE b == [button EXCEPT !.prev = FALSE]
    <3>1. b \in Button  BY <1>0
    <3> HIDE DEF b
    <3>2. [b EXCEPT !.age = 0] \in Button  BY <1>0, <3>1
    <3> QED  BY <3>2 DEF b
  <2>5. button' \in Button  BY <1>0, <2>1, <2>2, <2>3, <2>4
  <2> QED  BY <1>0, <1>1, <2>5 DEF Frame221
<1>2. CASE Tick
  <2>1. Aged(button) \in Button  BY <1>0, TripAssumption DEF Aged
  <2> QED  BY <1>0, <1>2, <2>1 DEF Tick
<1>3. ASSUME Act PROVE acts' \in 0 .. MaxActs
  BY <1>0, <1>3 DEF Act
<1>4. CASE Press \/ Release \/ MdfComesOrGoes \/ Idles
           \/ (\E c \in Commands : HuResets(c))
           \/ \E p \in {"on", "off", "asleep"} : PowerChanges(p)
  <2>1. CASE Press \/ Release  BY <1>0, <1>3, <2>1 DEF Press, Release, box
  <2>2. CASE MdfComesOrGoes  BY <1>0, <1>3, <2>2 DEF MdfComesOrGoes
  <2>3. CASE Idles
    <3>1. acts' \in 0 .. MaxActs  BY <1>0, <2>3 DEF Idles
    <3> QED  BY <1>0, <2>3, <3>1 DEF Idles, box
  <2>4. ASSUME NEW c \in Commands, HuResets(c)
        PROVE  UNCHANGED <<button, mdf, power, finger>> /\ Act
    BY <2>4 DEF HuResets
  <2>5. ASSUME NEW p \in {"on", "off", "asleep"}, PowerChanges(p)
        PROVE  UNCHANGED <<button, mdf, finger>> /\ power' = p /\ Act
    BY <2>5 DEF PowerChanges
  <2> QED  BY <1>0, <1>3, <1>4, <2>1, <2>2, <2>3, <2>4, <2>5
<1>5. CASE Handshake
  BY <1>0, <1>3, <1>5 DEF Handshake, Forgets, NewButton
<1> QED  BY <1>1, <1>2, <1>4, <1>5 DEF Next

LEMMA OneEffectKept ==
  ASSUME TypeOK, OneEffect, Next \/ Idles PROVE OneEffect'
<1>0. /\ ghost \in Ghost /\ screen \in Screen
      /\ button \in [prev : BOOLEAN, age : 0 .. LongTicks, done : BOOLEAN]
  BY DEF TypeOK, Ghost
<1>1. ASSUME NEW k \in Trips, NEW g \in Ghost, SendReset(k, g)
      PROVE  ghost'.effects = g.effects
  <2> DEFINE h == [g EXCEPT !.due = k]
  <2>1. h \in Ghost /\ h.effects = g.effects  BY DEF Ghost
  <2>2. CASE mdf  BY <1>1, <2>2 DEF SendReset, Keeps
  <2>3. CASE ~mdf
    <3>1. SendsFrame(Resetting(screen, k), ResetFrame(k), h)  BY <1>1, <2>3 DEF SendReset
    <3> QED  BY <2>1, <3>1, SentType, AskingType
  <2> QED  BY <2>2, <2>3
<1>2. ASSUME NEW s \in Screen, Sends(s, ghost) PROVE ghost'.effects = ghost.effects
  BY <1>0, <1>2, SentType, FrameType DEF Sends
<1>3. CASE Frame221
  <2>1. CASE PressSeen
    BY <1>0, <2>1 DEF PressSeen, Keeps, Ghost, OneEffect
  <2>2. CASE HoldSeen
    BY <1>0, <2>2 DEF HoldSeen, Nothing, Keeps, OneEffect
  <2>3. CASE ReleaseSeen
    <3>1. ghost'.effects = ghost.effects
      BY <1>0, <1>2, <2>3, CycledType DEF ReleaseSeen, Keeps
    <3> QED  BY <1>0, <2>3, <3>1 DEF ReleaseSeen, OneEffect
  <2> QED  BY <1>3, <2>1, <2>2, <2>3 DEF Frame221
<1>4. CASE Tick
  <2>1. ghost'.effects = ghost.effects
    BY <1>0, <1>2, <1>4, TickedType DEF Tick, Keeps
  <2>2. button'.done = button.done  BY <1>0, <1>4 DEF Tick, Aged
  <2> QED  BY <2>1, <2>2 DEF OneEffect
<1>5. ASSUME NEW c \in Commands, HuResets(c) PROVE OneEffect'
  <2>1. Wanted(c) \in Trips  BY <1>5 DEF HuResets, Wanted, Trips, None
  <2>2. ghost'.effects = ghost.effects
    BY <1>0, <1>1, <1>5, <2>1 DEF HuResets, Keeps
  <2> QED  BY <1>5, <2>2 DEF HuResets, OneEffect
<1>6. CASE Press \/ Release \/ Idles
  BY <1>6 DEF Press, Release, Idles, box, OneEffect
<1>7. CASE Handshake
  <2>1. ghost'.effects = 0  BY <1>0, <1>7 DEF Handshake, Forgets, Ghost
  <2> QED  BY <2>1 DEF OneEffect
<1>8. CASE MdfComesOrGoes \/ \E p \in {"on", "off", "asleep"} : PowerChanges(p)
  <2>1. ghost'.effects = ghost.effects /\ button' = button
    BY <1>0, <1>8 DEF MdfComesOrGoes, PowerChanges, Ghost
  <2> QED  BY <2>1 DEF OneEffect
<1> QED  BY <1>3, <1>4, <1>5, <1>6, <1>7, <1>8 DEF Next

LEMMA BoxType == ASSUME TypeOK, OneEffect, Next \/ Idles PROVE TypeOK'
<1>1. /\ screen' \in Screen /\ bsi' \in BsiFrame /\ ghost' \in Ghost
      /\ pulses' \in [Trips -> Nat] /\ asked' \in [Trips -> Nat]
  BY Effects, EffectType
<1> QED  BY <1>1, ButtonType DEF TypeOK, BsiFrame, Ghost

-----------------------------------------------------------------------------
(* The inductive invariant.  A reset bit the BSI has not seen yet is       *)
(* covered by a request it was not asked for yet.                          *)
Credit == \A k \in Trips :
  /\ pulses[k] <= asked[k]
  /\ (screen.reset = k /\ bsi.reset # k) => pulses[k] < asked[k]

IInv == TypeOK /\ OneEffect /\ Credit /\ PageAnnounced

LEMMA CreditKept ==
  ASSUME TypeOK, Credit, Repeating \/ Ticking \/ Asking \/ Resting \/ Forgetting
  PROVE  Credit'
<1>0. /\ asked \in [Trips -> Nat] /\ pulses \in [Trips -> Nat] /\ screen \in Screen
      /\ screen.reset \in Trips \cup {None} /\ None \notin Trips
  BY DEF TypeOK, Screen, Trips, None
(* The frame repeats the reset bit or takes it back.                       *)
<1>1. ASSUME NEW s \in Screen, Sends(s, ghost), asked' = asked, s.reset \in {screen.reset, None}
      PROVE  Credit'
  <2>1. screen' = s /\ Frame167(s).reset = s.reset  BY <1>1 DEF Sends, SendsFrame, Frame167
  <2>2. CASE Heard(Frame167(s), ghost)
    <3>1. bsi'.reset = s.reset  BY <2>1, <2>2 DEF Heard
    <3>2. ASSUME NEW k \in Trips PROVE pulses'[k] <= asked'[k]
      <4>1. CASE s.reset = k /\ bsi.reset # k
        BY <1>0, <1>1, <2>1, <2>2, <4>1 DEF Heard, Credit
      <4>2. CASE ~(s.reset = k /\ bsi.reset # k)
        BY <1>0, <1>1, <2>1, <2>2, <4>2 DEF Heard, Credit
      <4> QED  BY <4>1, <4>2
    <3> QED  BY <2>1, <3>1, <3>2 DEF Credit
  <2>3. CASE Lost(ghost)
    BY <1>0, <1>1, <2>1, <2>3 DEF Lost, Credit
  <2> QED  BY <1>1, <2>2, <2>3 DEF Sends, SendsFrame
<1>2. CASE Repeating
  BY <1>1, <1>2 DEF Repeating
<1>3. CASE Ticking
  BY <1>0, <1>1, <1>3, TickedType DEF Ticking
(* The frame sets it, for one more request.                                *)
<1>4. CASE Asking
  <2>1. PICK k \in Trips, g \in Ghost :
          /\ SendsFrame(Resetting(screen, k), ResetFrame(k), g)
          /\ asked' = [asked EXCEPT ![k] = @ + 1]
    BY <1>4 DEF Asking
  <2>2. screen'.reset = k /\ ResetFrame(k).reset = k
    BY <1>0, <2>1, ResettingType DEF SendsFrame, ResetFrame
  <2>3. CASE Heard(ResetFrame(k), g)
    <3>1. bsi'.reset = k  BY <2>2, <2>3 DEF Heard
    <3>2. ASSUME NEW j \in Trips PROVE pulses'[j] <= asked'[j]
      <4>1. CASE j = k
        BY <1>0, <2>1, <2>2, <2>3, <4>1 DEF Heard, Credit
      <4>2. CASE j # k
        BY <1>0, <2>1, <2>2, <2>3, <4>2 DEF Heard, Credit
      <4> QED  BY <4>1, <4>2
    <3> QED  BY <2>2, <3>1, <3>2 DEF Credit
  <2>4. CASE Lost(g)
    <3>1. pulses' = pulses  BY <2>4 DEF Lost
    <3> QED  BY <1>0, <2>1, <2>2, <3>1 DEF Credit
  <2> QED  BY <2>1, <2>3, <2>4 DEF SendsFrame
<1>5. CASE Resting
  <2>1. /\ pulses' = pulses /\ bsi' = bsi /\ screen'.reset = screen.reset
        /\ asked' \in [Trips -> Nat] /\ \A k \in Trips : asked'[k] >= asked[k]
    BY <1>5 DEF Resting
  <2> QED  BY <1>0, <2>1 DEF Credit
<1>6. CASE Forgetting
  BY <1>0, <1>6 DEF Forgetting, NewScreen, Credit
<1> QED  BY <1>2, <1>3, <1>4, <1>5, <1>6

LEMMA AnnouncedKept ==
  ASSUME TypeOK, PageAnnounced, Repeating \/ Ticking \/ Asking \/ Resting \/ Forgetting
  PROVE  PageAnnounced'
<1>0. screen \in Screen /\ ghost \in Ghost  BY DEF TypeOK, Ghost
<1>1. ASSUME NEW s \in Screen, NEW f, NEW g \in Ghost, SendsFrame(s, f, g), f.page = s.page
      PROVE  PageAnnounced'
  <2>1. CASE Heard(f, g)
    BY <1>1, <2>1 DEF SendsFrame, Heard, PageAnnounced
  <2>2. CASE Lost(g)
    <3>1. ghost'.told = FALSE  BY <2>2 DEF Lost, Ghost
    <3> QED  BY <3>1 DEF PageAnnounced
  <2> QED  BY <1>1, <2>1, <2>2 DEF SendsFrame
<1>2. CASE Repeating \/ Ticking
  BY <1>0, <1>1, <1>2, TickedType DEF Repeating, Ticking, Sends, Frame167
<1>3. CASE Asking
  <2>1. PICK k \in Trips, g \in Ghost : SendsFrame(Resetting(screen, k), ResetFrame(k), g)
    BY <1>3 DEF Asking
  <2> QED  BY <1>0, <1>1, <2>1, ResettingType DEF ResetFrame
<1>4. CASE Resting \/ Forgetting
  BY <1>4 DEF Resting, Forgetting, PageAnnounced
<1> QED  BY <1>2, <1>3, <1>4

-----------------------------------------------------------------------------
(* The figures' part of the types.                                         *)
Note == [fuel : {0, 1, 9}, rest : {0, 1, 9}]

LEMMA SendsPageType ==
  ASSUME PagesTypeOK, NEW k \in Shown, SendsPage(k), trip' \in [Shown -> Figures \cup {Blank}]
  PROVE  shown' \in [Shown -> Figures \cup {Blank}] /\ sent' \in [Shown -> Note]
<1>1. Figures \cup {Blank} \subseteq Note  BY DEF Figures, Blank, Note
<1>2. trip'[k] \in Figures \cup {Blank}  OBVIOUS
<1>3. shown \in [Shown -> Figures \cup {Blank}] /\ sent \in [Shown -> Note]
  BY DEF PagesTypeOK, Note
<1> QED  BY <1>1, <1>2, <1>3 DEF SendsPage, SendTrip

LEMMA MarkedType ==
  ASSUME PagesTypeOK, trip' = trip PROVE Marked(sent) \in [Shown -> Note]
<1>1. /\ trip.instant \in Figures \cup {Blank} /\ sent.instant \in Note
      /\ "instant" \in Shown /\ sent \in [Shown -> Note]
  BY DEF PagesTypeOK, Note, Shown, Pages
<1>2. trip.instant.fuel \in {0, 1, 9}  BY <1>1 DEF Figures, Blank
<1>3. [sent.instant EXCEPT !.fuel = trip.instant.fuel] \in Note  BY <1>1, <1>2 DEF Note
<1>4. Marked(sent) = [sent EXCEPT !["instant"] = [sent.instant EXCEPT !.fuel = trip.instant.fuel]]
  BY <1>1 DEF Marked
<1> QED  BY <1>1, <1>3, <1>4

LEMMA TurnedToType ==
  ASSUME PagesTypeOK, Figures221 PROVE TurnedTo \in Shown
<1>0. "instant" \in Shown /\ screen \in Screen  BY DEF Shown, Pages, PagesTypeOK, TypeOK
<1>1. CASE ~finger /\ button.prev /\ ~button.done /\ ~mdf
  <2>1. ReleaseSeen
    BY <1>1 DEF Figures221, Frame221, PressSeen, HoldSeen
  <2>2. screen' = Cycled(screen)
    BY <1>1, <2>1 DEF ReleaseSeen, Sends, SendsFrame
  <2> QED  BY <1>0, <1>1, <2>2, CycledType DEF TurnedTo
<1>2. CASE ~(~finger /\ button.prev /\ ~button.done /\ ~mdf)
  BY <1>0, <1>2 DEF TurnedTo
<1> QED  BY <1>1, <1>2

LEMMA PagesType ==
  ASSUME PagesTypeOK, [PagesNext]_allVars
  PROVE  /\ drive' \in [Shown -> Figures]
         /\ {trip', shown'} \subseteq [Shown -> Figures \cup {Blank}]
         /\ sent' \in [Shown -> [fuel : {0, 1, 9}, rest : {0, 1, 9}]]
         /\ turned' \in [last : BOOLEAN, since : BOOLEAN]
<1>0. /\ drive \in [Shown -> Figures]
      /\ trip \in [Shown -> Figures \cup {Blank}] /\ shown \in [Shown -> Figures \cup {Blank}]
      /\ sent \in [Shown -> Note] /\ turned \in [last : BOOLEAN, since : BOOLEAN]
      /\ "instant" \in Shown /\ Trips \subseteq Shown
  BY DEF PagesTypeOK, Note, Shown, Pages, Trips
<1>1. CASE Figures221
  <2>1. trip' \in [Shown -> Figures \cup {Blank}]  BY <1>0, <1>1 DEF Figures221
  <2>2. shown' \in [Shown -> Figures \cup {Blank}] /\ sent' \in [Shown -> Note]
    BY <1>1, <2>1, TurnedToType, SendsPageType DEF Figures221
  <2>3. turned' \in [last : BOOLEAN, since : BOOLEAN]
    <3>1. PICK away \in BOOLEAN, d \in BOOLEAN :
            turned' = [last |-> away, since |-> away \/ (turned.since /\ ~d)]
      BY <1>1 DEF Figures221
    <3> QED  BY <3>1
  <2> QED  BY <1>0, <1>1, <2>1, <2>2, <2>3 DEF Figures221, Note
<1>2. ASSUME NEW k \in Trips, FiguresTrip(k)
      PROVE  /\ drive' = drive /\ turned' = turned
             /\ trip' \in [Shown -> Figures \cup {Blank}]
             /\ shown' \in [Shown -> Figures \cup {Blank}] /\ sent' \in [Shown -> Note]
  <2>1. trip' \in [Shown -> Figures \cup {Blank}]  BY <1>0, <1>2 DEF FiguresTrip
  <2> QED  BY <1>0, <1>2, <2>1, SendsPageType DEF FiguresTrip
<1>3. CASE Telemetry \/ PagesTick
  BY <1>0, <1>3, MarkedType DEF Telemetry, PagesTick, Note
<1>4. CASE Drives
  <2>1. PICK k \in Shown :
          drive' \in {[drive EXCEPT ![k].fuel = 1 - @], [drive EXCEPT ![k].rest = 1 - @]}
    BY <1>4 DEF Drives
  <2>2. drive[k] \in Figures  BY <1>0
  <2>3. /\ [drive[k] EXCEPT !.fuel = 1 - @] \in Figures
        /\ [drive[k] EXCEPT !.rest = 1 - @] \in Figures
    BY <2>2 DEF Figures
  <2>4. drive' \in [Shown -> Figures]  BY <1>0, <2>1, <2>3
  <2> QED  BY <1>0, <1>4, <2>4 DEF Drives, Note
<1>5. CASE HuRestarts
  <2>1. [k \in Shown |-> Blank] \in [Shown -> Figures \cup {Blank}]  OBVIOUS
  <2> QED  BY <1>0, <1>5, <2>1 DEF HuRestarts, Note
<1>6. CASE Others \/ UNCHANGED allVars
  BY <1>0, <1>6 DEF Others, allVars, pages, Note
<1> QED  BY <1>0, <1>1, <1>2, <1>3, <1>4, <1>5, <1>6 DEF PagesNext, Note

-----------------------------------------------------------------------------
(* The types, and what keeps the reset bit and the page honest: a bit the  *)
(* BSI has not seen yet is covered by a request nobody was served for.     *)
THEOREM BoxInvariant == PagesSpec => [](PagesTypeOK /\ IInv)
<1>1. PagesInit => PagesTypeOK /\ IInv
  <2> SUFFICES ASSUME PagesInit PROVE PagesTypeOK /\ IInv  OBVIOUS
  <2>1. NewScreen \in Screen  BY TripAssumption DEF NewScreen, Screen, Pages
  <2>2. NewButton \in [prev : BOOLEAN, age : 0 .. LongTicks, done : BOOLEAN]
    BY TripAssumption DEF NewButton
  <2>3. GhostInit \in Ghost  BY TripAssumption DEF GhostInit, Ghost
  <2>4. TypeOK
    <3>1. [page |-> "idle", reset |-> None] \in BsiFrame  BY DEF BsiFrame, Pages
    <3>2. [k \in Trips |-> 0] \in [Trips -> Nat] /\ 0 \in 0 .. MaxActs  BY TripAssumption
    <3> QED  BY <2>1, <2>2, <2>3, <3>1, <3>2 DEF PagesInit, Init, TypeOK, BsiFrame, Ghost
  <2>5. OneEffect /\ Credit /\ PageAnnounced
    BY DEF PagesInit, Init, OneEffect, Credit, PageAnnounced, NewScreen, NewButton, GhostInit, None
  <2>6. /\ Blank \in Figures \cup {Blank}
        /\ [fuel |-> 0, rest |-> 0] \in Figures
        /\ Blank \in [fuel : {0, 1, 9}, rest : {0, 1, 9}]
    BY DEF Blank, Figures
  <2> QED  BY <2>4, <2>5, <2>6 DEF PagesInit, PagesTypeOK, IInv
<1>2. PagesTypeOK /\ IInv /\ [PagesNext]_allVars => PagesTypeOK' /\ IInv'
  <2> SUFFICES ASSUME PagesTypeOK, IInv, [PagesNext]_allVars PROVE PagesTypeOK' /\ IInv'
    OBVIOUS
  <2>1. Next \/ Idles  BY PagesStep
  <2>2. IInv'
    BY <2>1, Effects, BoxType, OneEffectKept, CreditKept, AnnouncedKept DEF IInv
  <2>3. /\ drive' \in [Shown -> Figures]
        /\ {trip', shown'} \subseteq [Shown -> Figures \cup {Blank}]
        /\ sent' \in [Shown -> [fuel : {0, 1, 9}, rest : {0, 1, 9}]]
        /\ turned' \in [last : BOOLEAN, since : BOOLEAN]
    BY PagesType
  <2> QED  BY <2>2, <2>3 DEF PagesTypeOK, IInv
<1> QED  BY <1>1, <1>2, PTL DEF PagesSpec

(* What the variables of a page and of the display hold, for any timing.   *)
THEOREM TypeCorrect == PagesSpec => []PagesTypeOK
  BY BoxInvariant, PTL

(* No trip is reset more often than somebody wanted it (psa_trip_send_reset *)
(* and the pulse of psa_car_config_periodic_100ms).                        *)
THEOREM NoTripResetUnasked == PagesSpec => []NoUnaskedReset
<1>1. IInv => NoUnaskedReset  BY DEF IInv, Credit, NoUnaskedReset
<1> QED  BY <1>1, BoxInvariant, PTL

(* Only a lost frame or a forgotten page keeps the BSI from knowing the    *)
(* page on display.                                                        *)
THEOREM PageIsAnnounced == PagesSpec => []PageAnnounced
<1>1. IInv => PageAnnounced  BY DEF IInv
<1> QED  BY <1>1, BoxInvariant, PTL

-----------------------------------------------------------------------------
(* While a reset is due, every frame of its pulse so far was lost.         *)
DueInv ==
  ghost.due # None =>
    /\ screen.reset = ghost.due /\ screen.pulse > 0
    /\ ghost.lost + screen.pulse >= PulseTicks + 1

LEMMA DueKept ==
  ASSUME MaxLost < PulseTicks, TypeOK, TypeOK', DueInv,
         Repeating \/ Ticking \/ Asking \/ Resting \/ Forgetting
  PROVE  DueInv'
<1>0. /\ screen \in Screen /\ ghost \in Ghost /\ screen' \in Screen /\ ghost' \in Ghost
      /\ PulseTicks \in Nat /\ MaxLost \in Nat
  BY TripAssumption DEF TypeOK, Ghost
<1>1. ASSUME NEW s \in Screen, NEW f, NEW g \in Ghost, SendsFrame(s, f, g)
      PROVE  /\ screen' = s
             /\ \/ ghost'.lost = g.lost /\ ghost'.due = IF g.due = f.reset THEN None ELSE g.due
                \/ ghost'.lost = g.lost + 1 /\ ghost'.due = g.due
  <2>1. CASE Heard(f, g)
    <3> DEFINE a == [g EXCEPT !.told = TRUE]
    <3>1. a \in Ghost /\ a.due = g.due /\ a.lost = g.lost  BY DEF Ghost
    <3>2. ghost' = [a EXCEPT !.due = IF g.due = f.reset THEN None ELSE g.due]
      BY <2>1, <3>1 DEF Heard
    <3> HIDE DEF a
    <3> QED  BY <1>1, <3>1, <3>2 DEF SendsFrame, Ghost
  <2>2. CASE Lost(g)
    <3> DEFINE a == [g EXCEPT !.told = FALSE]
    <3>1. a \in Ghost /\ a.due = g.due /\ a.lost = g.lost  BY DEF Ghost
    <3>2. ghost' = [a EXCEPT !.lost = @ + 1]  BY <2>2 DEF Lost
    <3> HIDE DEF a
    <3> QED  BY <1>1, <3>1, <3>2 DEF SendsFrame, Ghost
  <2> QED  BY <1>1, <2>1, <2>2 DEF SendsFrame
<1>2. CASE Repeating
  <2>1. PICK s \in Screen :
          Sends(s, ghost) /\ s.reset = screen.reset /\ s.pulse = screen.pulse
    BY <1>2 DEF Repeating
  <2>2. Frame167(s).reset = screen.reset  BY <2>1 DEF Frame167
  <2> QED  BY <1>0, <1>1, <2>1, <2>2 DEF Sends, DueInv, Screen, Ghost
(* The frame of the tick repeats the bit, or it was the last of a pulse    *)
(* every frame of which would have had to be lost.                         *)
<1>3. CASE Ticking
  <2>1. CASE ghost.due = None
    BY <1>0, <1>1, <1>3, <2>1, TickedType DEF Ticking, Sends, DueInv, Ghost
  <2>2. CASE ghost.due # None
    <3>1. screen.pulse > 1
      BY <1>0, <2>2 DEF DueInv, Ghost, Screen
    <3>2. /\ Ticked(screen) \in Screen /\ Ticked(screen).reset = screen.reset
          /\ Ticked(screen).pulse = screen.pulse - 1
      BY <1>0, <3>1, TickedType
    <3>3. Frame167(Ticked(screen)).reset = screen.reset  BY <3>2 DEF Frame167
    <3> QED  BY <1>0, <1>1, <1>3, <2>2, <3>1, <3>2, <3>3 DEF Ticking, Sends, DueInv, Ghost, Screen
  <2> QED  BY <2>1, <2>2
<1>4. CASE Asking
  <2>1. PICK k \in Trips, g \in Ghost :
          SendsFrame(Resetting(screen, k), ResetFrame(k), g) /\ g.due = k
    BY <1>4 DEF Asking
  <2>2. ResetFrame(k).reset = k  BY DEF ResetFrame
  <2>3. screen'.reset = k /\ screen'.pulse = PulseTicks  BY <1>0, <1>1, <2>1, ResettingType
  <2>4. ghost'.due # None => ghost'.due = k /\ ghost'.lost = g.lost + 1
    BY <1>0, <1>1, <2>1, <2>2, ResettingType
  <2>5. PulseTicks > 0 /\ g.lost \in Nat  BY TripAssumption DEF Ghost
  <2> QED  BY <1>0, <2>3, <2>4, <2>5 DEF DueInv
<1>5. CASE Resting \/ Forgetting
  BY <1>5 DEF Resting, Forgetting, DueInv
<1> QED  BY <1>2, <1>3, <1>4, <1>5

(* A pulse longer than what may be lost always arrives: when its bit goes  *)
(* back, the BSI has seen it, or an MDF, the key or a restart cut in.      *)
THEOREM ResetsArrive == ASSUME MaxLost < PulseTicks PROVE PagesSpec => []ResetArrives
<1>1. PagesInit => DueInv  BY DEF PagesInit, Init, GhostInit, DueInv
<1>2. (PagesTypeOK /\ IInv) /\ (PagesTypeOK /\ IInv)' /\ DueInv /\ [PagesNext]_allVars
      => DueInv'
  <2> SUFFICES ASSUME PagesTypeOK, IInv, IInv', DueInv, [PagesNext]_allVars PROVE DueInv'
    OBVIOUS
  <2>1. Next \/ Idles  BY PagesStep
  <2> QED  BY <2>1, Effects, DueKept DEF IInv
<1>3. DueInv => ResetArrives  BY DEF DueInv, ResetArrives
<1> QED  BY <1>1, <1>2, <1>3, BoxInvariant, PTL DEF PagesSpec

-----------------------------------------------------------------------------
(* The copy of what was sent: with the trips it is exact; with the instant *)
(* page it is, in all but the consumption, until the button turns the page *)
(* in the same frame.                                                      *)
CopyInv ==
  /\ \A k \in Trips : shown[k] # Blank => shown[k] = trip[k] /\ sent[k] = shown[k]
  /\ shown["instant"] # Blank =>
       /\ trip["instant"] # Blank
       /\ sent["instant"].rest = shown["instant"].rest
       /\ shown["instant"].rest = trip["instant"].rest \/ turned.last
       /\ turned.since \/ (shown["instant"] = trip["instant"] /\ sent["instant"] = shown["instant"])
       /\ turned.last => turned.since

LEMMA CopyKept ==
  ASSUME PagesTypeOK, CopyInv, [PagesNext]_allVars PROVE CopyInv'
<1>0. /\ drive \in [Shown -> Figures] /\ Blank \notin Figures
      /\ trip \in [Shown -> Figures \cup {Blank}] /\ shown \in [Shown -> Figures \cup {Blank}]
      /\ sent \in [Shown -> Note] /\ turned \in [last : BOOLEAN, since : BOOLEAN]
      /\ Shown = {"instant"} \cup Trips /\ "instant" \notin Trips
  BY DEF PagesTypeOK, Note, Shown, Pages, Trips, Blank, Figures
<1>1. ASSUME NEW k \in Shown, SendsPage(k), trip'[k] \in Figures
      PROVE  \/ /\ Differs(k) /\ shown' = [shown EXCEPT ![k] = trip'[k]]
                /\ sent' = [sent EXCEPT ![k] = trip'[k]]
             \/ ~Differs(k) /\ UNCHANGED <<shown, sent>> /\ sent[k] = trip'[k]
  BY <1>0, <1>1 DEF SendsPage, SendTrip, Differs
<1>2. CASE Figures221
  <2>1. /\ trip' = [trip EXCEPT !["instant"] = drive["instant"]]
        /\ SendsPage(TurnedTo) /\ TurnedTo \in Shown
    BY <1>2, TurnedToType DEF Figures221
  <2>2. trip'["instant"] = drive["instant"] /\ drive["instant"] \in Figures
    BY <1>0, <2>1
  <2>3. \A k \in Trips : trip'[k] = trip[k]  BY <1>0, <2>1
  <2>4. CASE TurnedTo = "instant"
    <3>1. turned' = [last |-> FALSE, since |-> turned.since /\ ~Differs("instant")]
      BY <1>2, <2>4 DEF Figures221
    <3> QED  BY <1>0, <1>1, <2>1, <2>2, <2>3, <2>4, <3>1 DEF CopyInv
  <2>5. CASE TurnedTo \in Trips
    <3>1. turned'.last /\ turned'.since  BY <1>0, <1>2, <2>5 DEF Figures221
    <3>2. SendsPage(TurnedTo) /\ trip'[TurnedTo] = trip[TurnedTo]  BY <2>1, <2>3, <2>5
    <3>3. CASE Differs(TurnedTo)
      <4>1. /\ shown' = [shown EXCEPT ![TurnedTo] = trip'[TurnedTo]]
            /\ sent' = [sent EXCEPT ![TurnedTo] = trip'[TurnedTo]]
        BY <3>2, <3>3 DEF SendsPage, SendTrip, Differs
      <4> QED  BY <1>0, <2>2, <2>3, <2>5, <3>1, <4>1 DEF CopyInv
    <3>4. CASE ~Differs(TurnedTo)
      <4>1. UNCHANGED <<shown, sent>>  BY <3>2, <3>4 DEF SendsPage
      <4> QED  BY <1>0, <2>2, <2>3, <3>1, <4>1 DEF CopyInv
    <3> QED  BY <3>3, <3>4
  <2> QED  BY <1>0, <2>1, <2>4, <2>5
<1>3. ASSUME NEW k \in Trips, FiguresTrip(k) PROVE CopyInv'
  <2>1. trip' = [trip EXCEPT ![k] = drive[k]] /\ SendsPage(k) /\ turned' = turned
    BY <1>3 DEF FiguresTrip
  <2>2. trip'[k] = drive[k] /\ trip'[k] \in Figures  BY <1>0, <2>1
  <2> QED  BY <1>0, <1>1, <2>1, <2>2 DEF CopyInv
<1>4. ASSUME trip' = trip, shown' = shown, turned' = turned, sent' = Marked(sent) PROVE CopyInv'
  <2>1. /\ sent' \in [Shown -> Note]
        /\ sent' = [sent EXCEPT !["instant"] = [sent["instant"] EXCEPT !.fuel = trip["instant"].fuel]]
    BY <1>0, <1>4, MarkedType DEF Marked
  <2>2. \A k \in Trips : sent'[k] = sent[k]  BY <1>0, <2>1
  <2>3. sent'["instant"] = [sent["instant"] EXCEPT !.fuel = trip["instant"].fuel]  BY <1>0, <2>1
  <2>4. sent'["instant"].rest = sent["instant"].rest  BY <1>0, <2>3 DEF Note
  <2>5. sent["instant"] = trip["instant"] => sent'["instant"] = sent["instant"]
    BY <1>0, <2>3 DEF Note
  <2> QED  BY <1>4, <2>2, <2>4, <2>5 DEF CopyInv
<1>5. CASE Telemetry \/ PagesTick
  <2>1. CASE sent' = sent
    BY <1>5, <2>1 DEF Telemetry, PagesTick, CopyInv
  <2> QED  BY <1>4, <1>5, <2>1 DEF Telemetry, PagesTick
<1>6. CASE HuRestarts
  BY <1>0, <1>6 DEF HuRestarts, CopyInv
<1>7. CASE Drives \/ Others \/ UNCHANGED allVars
  BY <1>7 DEF Drives, Others, allVars, pages, CopyInv
<1> QED  BY <1>2, <1>3, <1>5, <1>6, <1>7 DEF PagesNext

(* The pages on the head unit follow the figures, although only changes    *)
(* are sent and telemetry writes into the copy they are compared with.     *)
THEOREM PagesKeepUp == PagesSpec => []PagesFollow
<1>1. PagesInit => CopyInv
  BY DEF PagesInit, CopyInv, Shown, Pages, Trips
<1>2. PagesTypeOK /\ CopyInv /\ [PagesNext]_allVars => CopyInv'
  BY CopyKept
<1>3. CopyInv => PagesFollow  BY DEF CopyInv, PagesFollow
<1> QED  BY <1>1, <1>2, <1>3, TypeCorrect, PTL DEF PagesSpec
=============================================================================
