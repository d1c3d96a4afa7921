---------------------------- MODULE TripComputer ----------------------------
(***************************************************************************)
(* The trip computer without a factory display (MDF) on the bus: the box   *)
(* plays the display towards the body computer (BSI), which counts the     *)
(* trips.  It announces the page on display and asks for resets in CAN     *)
(* 0x167 (profiles/psa_407_car_config.c); the page is chosen and a trip    *)
(* reset with the button at the end of the stalk, sampled by 0x221         *)
(* (profiles/psa_407_telemetry.c), or by the head unit's command 0x1B      *)
(* (protocols/proto_hiworld_adapter.c).                                    *)
(*                                                                         *)
(* With a real MDF on the bus the box keeps still.                         *)
(***************************************************************************)
EXTENDS Naturals

CONSTANTS LongTicks,    \* a press this long is a long one (2000 ms: 20)
          PulseTicks,   \* ticks of a reset pulse (300 ms: 3)
          IdleTicks,    \* a page stays on display so long (7 s: 70)
          PeriodTicks,  \* the page is announced again so often (1 s: 10)
          MaxLost,      \* bound: frames 0x167 that never reach the BSI
          MaxActs       \* bound: presses, commands, restarts

ASSUME TripAssumption ==
  /\ LongTicks \in Nat \ {0} /\ PulseTicks \in Nat \ {0, 1} /\ IdleTicks \in Nat \ {0}
  /\ PeriodTicks \in Nat \ {0} /\ MaxLost \in Nat /\ MaxActs \in Nat

Trips == {"trip1", "trip2"}
Pages == {"idle", "instant"} \cup Trips
None == "none"

VARIABLES screen,   \* the virtual MDF: s_mdf_trip_page_mask and its companions
          button,   \* s_prev_trip_btn, the age of the press, long press handled
          mdf,      \* psa_car_config_is_mdf_present
          power,    \* "on", "off" (key and radio off), "asleep" (bus silent)
          finger,   \* the driver holds the button
          bsi,      \* the BSI: the page and the reset bit it heard last
          pulses,   \* how often the BSI was asked to reset a trip
          asked,    \* how often driver or head unit asked for it
          ghost,    \* see GhostInit
          acts      \* acts so far

box == <<screen, button, mdf, power>>
count == <<pulses, asked>>
vars == <<box, finger, bsi, count, ghost, acts>>

-----------------------------------------------------------------------------
(* psa_car_config_init and psa_trip_init                                   *)
NewScreen == [page |-> "idle", viewed |-> "idle", reset |-> None, pulse |-> 0,
              idle |-> 0, period |-> 0]
NewButton == [prev |-> FALSE, age |-> 0, done |-> FALSE]

(* told: the BSI heard the last 0x167 since the box forgot its page; due:  *)
(* a reset accepted and not heard by the BSI; effects: resets of the press *)
(* under way; lost: frames lost so far.                                    *)
GhostInit == [told |-> FALSE, due |-> None, effects |-> 0, lost |-> 0]

Init ==
  /\ screen = NewScreen /\ button = NewButton
  /\ mdf \in BOOLEAN /\ power \in {"on", "off"} /\ finger = FALSE
  /\ bsi = [page |-> "idle", reset |-> None]
  /\ pulses = [k \in Trips |-> 0] /\ asked = [k \in Trips |-> 0]
  /\ ghost = GhostInit /\ acts = 0

-----------------------------------------------------------------------------
(* psa_car_config_send_0x167: page and reset bit of screen s, heard or     *)
(* lost; the results of hal_can_send are ignored.  The BSI takes a reset   *)
(* bit it did not see before as a new request.                             *)
Frame167(s) == [page |-> s.page, reset |-> s.reset]

Heard(f, g) ==
  /\ bsi' = f
  /\ pulses' = IF f.reset # None /\ f.reset # bsi.reset
               THEN [pulses EXCEPT ![f.reset] = @ + 1] ELSE pulses
  /\ ghost' = [g EXCEPT !.told = TRUE, !.due = IF @ = f.reset THEN None ELSE @]

Lost(g) ==
  /\ g.lost < MaxLost
  /\ ghost' = [g EXCEPT !.told = FALSE, !.lost = @ + 1]
  /\ UNCHANGED <<bsi, pulses>>

SendsFrame(s, f, g) == screen' = s /\ (Heard(f, g) \/ Lost(g))
Sends(s, g) == SendsFrame(s, Frame167(s), g)
Keeps(s, g) == screen' = s /\ ghost' = g /\ UNCHANGED <<bsi, pulses>>

-----------------------------------------------------------------------------
(* psa_car_config_cycle_trip_page: on from the page viewed last, even if   *)
(* it has closed meanwhile.                                                *)
PageAfter(page) ==
  CHOOSE p \in Pages \ {"idle"} :
    \/ page \in {"idle", "trip2"} /\ p = "instant"
    \/ page = "instant" /\ p = "trip1"
    \/ page = "trip1" /\ p = "trip2"

Cycled(s) ==
  [s EXCEPT !.page = PageAfter(s.viewed), !.viewed = PageAfter(s.viewed), !.idle = IdleTicks]

(* Mutant: one frame and no pulse.                                         *)
ResettingOnce(s, k) ==
  [page |-> k, viewed |-> k, reset |-> k, pulse |-> 1, idle |-> IdleTicks, period |-> s.period]

(* psa_car_config_set_trip_reset *)
Resetting(s, k) ==
  [page |-> k, viewed |-> k, reset |-> k, pulse |-> PulseTicks, idle |-> IdleTicks,
   period |-> s.period]

(* build_psa_trip_reset_frame: a frame 0x167 of its own.                   *)
ResetFrame(k) == [page |-> k, reset |-> k]

(* psa_trip_send_reset: refused beside a real MDF.                         *)
SendReset(k, g) ==
  IF mdf THEN Keeps(screen, g)
  ELSE SendsFrame(Resetting(screen, k), ResetFrame(k), [g EXCEPT !.due = k])

(* CAN 0x221, the button's part of psa_trip_decode_frame.                  *)
Nothing(b) == button' = b /\ Keeps(screen, ghost) /\ asked' = asked

PressSeen ==
  /\ finger /\ ~button.prev
  /\ button' = [prev |-> TRUE, age |-> 0, done |-> FALSE]
  /\ Keeps(screen, [ghost EXCEPT !.effects = 0])
  /\ asked' = asked

(* Mutant: the long press is not marked as handled.                        *)
HoldSeenAgain ==
  /\ finger /\ button.prev /\ button' = button
  /\ IF button.age >= LongTicks /\ ~mdf /\ screen.page \in Trips
     THEN /\ SendReset(screen.page, [ghost EXCEPT !.effects = 1])
          /\ asked' = [asked EXCEPT ![screen.page] = @ + 1 - ghost.effects]
     ELSE Keeps(screen, ghost) /\ asked' = asked

(* Held long enough, it resets the trip on display, if one is.  One press  *)
(* asks for one reset.                                                     *)
HoldSeen ==
  /\ finger /\ button.prev
  /\ IF button.done \/ button.age < LongTicks THEN Nothing(button)
     ELSE /\ button' = [button EXCEPT !.done = TRUE]
          /\ IF ~mdf /\ screen.page \in Trips
             THEN /\ SendReset(screen.page, [ghost EXCEPT !.effects = 1])
                  /\ asked' = [asked EXCEPT ![screen.page] = @ + 1 - ghost.effects]
             ELSE Keeps(screen, ghost) /\ asked' = asked

(* Released early, it turns the page.                                      *)
ReleaseSeen ==
  /\ ~finger /\ button.prev
  /\ button' = [button EXCEPT !.prev = FALSE, !.age = 0]
  /\ IF ~button.done /\ ~mdf
     THEN Sends(Cycled(screen), ghost)
     ELSE Keeps(screen, ghost)
  /\ asked' = asked

Frame221 ==
  /\ power # "asleep"
  /\ PressSeen \/ HoldSeen \/ ReleaseSeen
  /\ UNCHANGED <<mdf, power, finger, acts>>

-----------------------------------------------------------------------------
(* psa_car_config_periodic_100ms: the pulse, the page's time, the period.  *)
PulseOver(s) ==
  IF s.pulse = 0 THEN s
  ELSE [s EXCEPT !.pulse = @ - 1, !.reset = IF s.pulse = 1 THEN None ELSE @]

(* Mutant: the page never closes.                                          *)
PageOverNever(s) == [s EXCEPT !.idle = IF @ = 0 THEN 0 ELSE @ - 1]

PageOver(s) ==
  IF s.idle = 0 THEN s
  ELSE [s EXCEPT !.idle = @ - 1, !.page = IF s.idle = 1 THEN "idle" ELSE @]

PeriodOver(s) == [s EXCEPT !.period = (@ + 1) % PeriodTicks]

(* Whether the tick sends 0x167; several in one tick carry the same reset  *)
(* bit, and the last one has the page.  Mutant: the page closes silently.  *)
SendsSilently(s) == s.pulse > 0 \/ PeriodOver(s).period = 0
SendsInTick(s) == s.pulse > 0 \/ s.idle = 1 \/ PeriodOver(s).period = 0

Ticked(s) == PeriodOver(PageOver(PulseOver(s)))

Aged(b) == IF b.prev /\ b.age < LongTicks THEN [b EXCEPT !.age = @ + 1] ELSE b

(* With key and radio off only the period starts over: pulse and page stay *)
(* as they are.                                                            *)
Tick ==
  /\ button' = Aged(button)
  /\ IF mdf \/ power = "asleep" THEN Keeps(screen, ghost)
     ELSE IF power = "off" THEN Keeps([screen EXCEPT !.period = 0], ghost)
     ELSE IF SendsInTick(screen) THEN Sends(Ticked(screen), ghost)
     ELSE Keeps(Ticked(screen), ghost)
  /\ UNCHANGED <<mdf, power, finger, asked, acts>>

-----------------------------------------------------------------------------
Act == acts < MaxActs /\ acts' = acts + 1

(* The driver's finger is slower than 0x221.                               *)
Press ==
  /\ Act /\ power # "asleep"
  /\ ~finger /\ ~button.prev
  /\ finger' = TRUE
  /\ UNCHANGED <<box, bsi, count, ghost>>

Release ==
  /\ finger /\ button.prev
  /\ finger' = FALSE
  /\ UNCHANGED <<box, bsi, count, ghost, acts>>

(* Command 0x1B in its two forms: four bytes with the trip to reset in the *)
(* second one (0 when only the page was turned), two bytes with a page and *)
(* an action.                                                              *)
Commands == [long : {TRUE}, page : {1, 2, 3}, arg : {0, 2, 3}]
            \cup [long : {FALSE}, page : {1, 2, 3}, arg : {0, 1}]
Wanted(c) ==
  IF c.long
  THEN IF c.arg = 2 THEN "trip1" ELSE IF c.arg = 3 THEN "trip2" ELSE None
  ELSE IF c.arg # 1 THEN None ELSE IF c.page = 3 THEN "trip2" ELSE "trip1"

(* psa_reset_trip: refused while the bus sleeps.                           *)
HuResets(c) ==
  /\ Act
  /\ Wanted(c) # None
  /\ asked' = [asked EXCEPT ![Wanted(c)] = @ + 1]
  /\ IF power = "asleep" THEN Keeps(screen, ghost) ELSE SendReset(Wanted(c), ghost)
  /\ UNCHANGED <<button, mdf, power, finger>>

(* What the box forgets it does not announce: on the head unit's           *)
(* announcement (psa_init) and after a reset of the MCU.                   *)
Forgets(m) ==
  /\ screen' = NewScreen /\ button' = NewButton /\ mdf' = m
  /\ ghost' = [ghost EXCEPT !.told = FALSE, !.due = None, !.effects = 0]
  /\ UNCHANGED <<power, finger, bsi, count>>
Handshake == Act /\ Forgets(FALSE)

(* 0x525 is heard, or has not been for 3 s.                                *)
MdfComesOrGoes ==
  /\ Act
  /\ mdf' = ~mdf
  /\ ghost' = [ghost EXCEPT !.due = None]
  /\ UNCHANGED <<screen, button, power, finger, bsi, count>>

PowerChanges(p) ==
  /\ Act /\ p # power
  /\ power' = p
  /\ p = "asleep" => ~finger
  /\ ghost' = [ghost EXCEPT !.due = IF p = "on" THEN @ ELSE None]
  /\ UNCHANGED <<screen, button, mdf, finger, bsi, count>>

Next ==
  \/ Frame221 \/ Tick
  \/ Press \/ Release \/ (\E c \in Commands : HuResets(c))
  \/ Handshake \/ MdfComesOrGoes
  \/ \E p \in {"on", "off", "asleep"} : PowerChanges(p)

Spec == Init /\ [][Next]_vars
FairSpec == Spec /\ WF_vars(Tick)

-----------------------------------------------------------------------------
Screen == [page : Pages, viewed : Pages, reset : Trips \cup {None},
           pulse : 0 .. PulseTicks, idle : 0 .. IdleTicks, period : 0 .. PeriodTicks - 1]

TypeOK ==
  /\ screen \in Screen
  /\ button \in [prev : BOOLEAN, age : 0 .. LongTicks, done : BOOLEAN]
  /\ mdf \in BOOLEAN /\ power \in {"on", "off", "asleep"} /\ finger \in BOOLEAN
  /\ bsi \in [page : Pages, reset : Trips \cup {None}]
  /\ pulses \in [Trips -> Nat] /\ asked \in [Trips -> Nat]
  /\ ghost \in [told : BOOLEAN, due : Trips \cup {None}, effects : 0 .. 1, lost : 0 .. MaxLost]
  /\ acts \in 0 .. MaxActs

(* A trip's counters are gone for good once reset: the BSI is never asked  *)
(* to reset a trip more often than somebody wanted it, whatever pulse was  *)
(* lost in part, frozen with the key off, overtaken by a page turn or by   *)
(* the reset of the other trip.                                            *)
NoUnaskedReset == \A k \in Trips : pulses[k] <= asked[k]

(* A reset asked for arrives although two of its frames are lost: when the *)
(* pulse is over the BSI heard it, unless the box was re-initialised,      *)
(* switched off or an MDF came.                                            *)
ResetArrives == screen.reset # ghost.due => ghost.due = None

(* The page the BSI was told is the page the box means; so a long press    *)
(* resets the trip the driver sees.  Only a lost frame and a box that      *)
(* forgot its page get in between.                                         *)
PageAnnounced == ghost.told => bsi.page = screen.page

(* Left alone with the key on, the display closes: the BSI hears the idle  *)
(* page without a reset bit in the end, and it stays so.                   *)
EventuallyClosed ==
  <>[](power = "on" /\ ~mdf) => <>[](bsi = [page |-> "idle", reset |-> None])
=============================================================================
