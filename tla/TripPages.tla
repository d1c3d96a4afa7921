------------------------------ MODULE TripPages ------------------------------
(***************************************************************************)
(* The figures of the trip computer on their way from the BSI to the head  *)
(* unit, together with the button and the display of TripComputer: CAN     *)
(* 0x221 carries the instantaneous figures and the button, 0x2A1 and 0x261 *)
(* carry the trips (profiles/psa_407_telemetry.c).  The router sends a     *)
(* page of the head unit when its figures changed, and writes down what it *)
(* sent; the telemetry frame 0x1A repeats the instantaneous consumption    *)
(* and shares that note (core/can_router.c).                               *)
(***************************************************************************)
EXTENDS TripComputer

VARIABLES drive,  \* the BSI: the figures it measures
          trip,   \* s_current_state.trip; Blank: not valid yet
          sent,   \* s_last_sent_state.trip; rest 9: not valid
          shown,  \* the head unit: its three pages
          turned  \* the last 0x221 turned the page away from the instant one,
                  \* and the instant page was not sent since

pages == <<drive, trip, sent, shown, turned>>
allVars == <<vars, pages>>

Shown == Pages \ {"idle"}

(* The figures of a page: the consumption, and the others.                 *)
Figures == [fuel : {0, 1}, rest : {0, 1}]
Blank == [fuel |-> 9, rest |-> 9]

PagesInit ==
  /\ Init
  /\ drive = [k \in Shown |-> [fuel |-> 0, rest |-> 0]]
  /\ trip = [k \in Shown |-> Blank]
  /\ sent = [k \in Shown |-> Blank]
  /\ shown = [k \in Shown |-> Blank]
  /\ turned = [last |-> FALSE, since |-> FALSE]

-----------------------------------------------------------------------------
(* The message of a page has all its figures, once they are valid.         *)
SendTrip(k) == IF trip'[k] = Blank THEN shown ELSE [shown EXCEPT ![k] = trip'[k]]

(* One page is due after a frame (dirty.trip_page); it is sent if its      *)
(* figures are valid and not those sent last.                              *)
Differs(k) == trip'[k] # Blank /\ trip'[k] # sent[k]

SendsPage(k) ==
  IF Differs(k)
  THEN /\ shown' = SendTrip(k)
       /\ sent' = [sent EXCEPT ![k] = trip'[k]]
  ELSE UNCHANGED <<shown, sent>>

(* Mutant: the note is taken for all the figures.                          *)
MarkedAll(s) == trip'

(* A telemetry frame 0x1A leaves the note that its consumption was sent.   *)
Marked(s) == [s EXCEPT !.instant.fuel = trip'.instant.fuel]

(* CAN 0x221: button and figures.  The page is the one the button turned   *)
(* to, else the instant one.                                               *)
TurnedTo == IF ~finger /\ button.prev /\ ~button.done /\ ~mdf THEN screen'.page ELSE "instant"

Figures221 ==
  /\ \/ Frame221
     \/ power # "asleep" /\ ~finger /\ ~button.prev /\ UNCHANGED vars
  /\ trip' = [trip EXCEPT !.instant = drive.instant]
  /\ SendsPage(TurnedTo)
  /\ turned' = LET away == TurnedTo # "instant"
               IN [last |-> away,
                   since |-> away \/ (turned.since /\ ~Differs("instant"))]
  /\ UNCHANGED drive

(* CAN 0x2A1 and 0x261.                                                    *)
FiguresTrip(k) ==
  /\ power # "asleep"
  /\ trip' = [trip EXCEPT ![k] = drive[k]]
  /\ SendsPage(k)
  /\ UNCHANGED <<vars, drive, turned>>

(* CAN 0x0B6, 0x0F6 or 0x161 with speed or revolutions changed enough, the *)
(* key on.                                                                 *)
Telemetry ==
  /\ power = "on"
  /\ UNCHANGED <<vars, drive, trip, shown, turned>>
  /\ sent' = Marked(sent)

(* With the key on every second tick sends telemetry too, unless a frame   *)
(* just did.                                                               *)
PagesTick ==
  /\ Tick
  /\ UNCHANGED <<drive, trip, shown, turned>>
  /\ \/ sent' = sent
     \/ power = "on" /\ sent' = Marked(sent)

-----------------------------------------------------------------------------
Drives ==
  /\ Act
  /\ \E k \in Shown :
       drive' \in {[drive EXCEPT ![k].fuel = 1 - @], [drive EXCEPT ![k].rest = 1 - @]}
  /\ UNCHANGED <<box, finger, bsi, count, ghost, trip, sent, shown, turned>>

(* The head unit restarts with blank pages; its announcement re-inits the  *)
(* profile, and nothing of the trip pages is sent again.                   *)
HuRestarts ==
  /\ Handshake
  /\ shown' = [k \in Shown |-> Blank]
  /\ UNCHANGED <<drive, trip, sent, turned>>

Others ==
  /\ \/ Press \/ Release \/ (\E c \in Commands : HuResets(c))
     \/ Handshake \/ MdfComesOrGoes
     \/ \E p \in {"on", "off", "asleep"} : PowerChanges(p)
  /\ UNCHANGED pages

PagesNext ==
  \/ Figures221 \/ (\E k \in Trips : FiguresTrip(k)) \/ Telemetry \/ PagesTick
  \/ Drives \/ HuRestarts \/ Others

PagesSpec == PagesInit /\ [][PagesNext]_allVars
FairPagesSpec == PagesSpec /\ WF_allVars(PagesTick)

-----------------------------------------------------------------------------
PagesTypeOK ==
  /\ TypeOK
  /\ drive \in [Shown -> Figures]
  /\ {trip, shown} \subseteq [Shown -> Figures \cup {Blank}]
  /\ sent \in [Shown -> [fuel : {0, 1, 9}, rest : {0, 1, 9}]]
  /\ turned \in [last : BOOLEAN, since : BOOLEAN]

(* A page on the head unit has the figures of the last frame, blank pages  *)
(* of a restarted head unit apart, although only changes are sent and the  *)
(* telemetry frame writes into the note of what was sent.  The instant     *)
(* page lags after a release of the button, whose frame sends the page     *)
(* turned to instead: for that frame, and in the consumption, which        *)
(* telemetry marks as sent, until the next figures are different.          *)
PagesFollow ==
  /\ \A k \in Trips : shown[k] \in {trip[k], Blank}
  /\ shown.instant # Blank =>
       /\ shown.instant.rest = trip.instant.rest \/ turned.last
       /\ shown.instant = trip.instant \/ turned.since
=============================================================================
