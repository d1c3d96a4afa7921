---------------------------- MODULE AlertJournal ----------------------------
(***************************************************************************)
(* The warnings of the car between the body computer (BSI) and the head    *)
(* unit: the journal of active alarms in the segments of CAN 0x120, the    *)
(* alarm on display in 0x1A1, and the head unit's query for the journal    *)
(* with its timeout (profiles/psa_407_alerts.c, core/can_router.c and the  *)
(* alert part of protocols/proto_hiworld_adapter.c as it is built by       *)
(* default, with the extended alert frame 0xEA).                           *)
(*                                                                         *)
(* The journal is 21 bytes of alarm bits; a bit is named by its byte.  One *)
(* alarm may have several bits.                                            *)
(***************************************************************************)
EXTENDS Naturals, FiniteSets

CONSTANTS Bits,        \* the bytes that hold an alarm bit here
          Shared,      \* the bits that all report one and the same alarm
          Unmapped,    \* the bits no alarm belongs to
          LowFuel,     \* the alarms that light the fuel lamp
          Diagnosis,   \* the alarms 0x00F0 and 0x00F1, shown without details
          Capacity,    \* CANBOX_MAX_ACTIVE_ALERTS (10)
          QueryTicks,  \* patience with the BSI's answer (500 ms: 5)
          MaxActs      \* bound: changes of the alarms, losses, queries, restarts

Blank == 21            \* CAN alarm 0x0000, and no alarm at all

(* Alarm_BitToIndex_Tab and Alarm_IndexToPointer_Tab: the alarm of a bit,  *)
(* named by one of its bits.                                               *)
AlarmOf(bit) ==
  IF bit \in Shared THEN CHOOSE b \in Shared : \A c \in Shared : b <= c ELSE bit
Alarms == {AlarmOf(bit) : bit \in Bits \ Unmapped}

ASSUME JournalAssumption ==
  /\ Bits \subseteq 0 .. 20
  /\ Shared \subseteq Bits \ Unmapped /\ Unmapped \subseteq Bits
  /\ LowFuel \subseteq Alarms /\ Diagnosis \subseteq Alarms
  /\ Capacity \in Nat \ {0} /\ QueryTicks \in Nat \ {0} /\ MaxActs \in Nat

VARIABLES tp,        \* s_journal_ctx
          alerts,    \* s_current_state.alerts and .fuel_low_warning
          last,      \* s_last_sent_state.alerts.realtime_alert
          scan,      \* s_initial_alerts_scanned and s_prev_alert_items
          query,     \* s_bsi_alert_query_pending and its ticks
          asleep,    \* can_router_is_bus_sleeping
          bsi,       \* the BSI: its alarm bits, the journal it sends and how far
          hu,        \* the head unit: its list and its popup
          acts       \* acts so far

box == <<tp, alerts, last, scan, query, asleep>>
vars == <<box, bsi, hu, acts>>

-----------------------------------------------------------------------------
NoAlert == [active |-> FALSE, id |-> Blank, detail |-> 0]

(* psa_journal_iso_tp_init *)
NewTransfer == [buffer |-> {}, got |-> {}, busy |-> FALSE, seq |-> 0]
NewAlerts == [items |-> {}, live |-> NoAlert, lamp |-> FALSE]

(* The head unit: its list and its popup, and whether the box told it of   *)
(* them.  Ghosts: the popup is a toast of the journal, and what the car    *)
(* displayed when it came.                                                 *)
NewHu == [list |-> {}, listed |-> FALSE, popup |-> NoAlert, told |-> FALSE,
          toast |-> FALSE, over |-> NoAlert]

(* The first segment of a journal.                                         *)
First(mode) == IF mode = "blocks" THEN 1 ELSE 0

(* What the head unit shows is known to match only once the box told it.   *)
Init ==
  /\ tp = NewTransfer
  /\ alerts = NewAlerts /\ last = NoAlert
  /\ scan = [done |-> FALSE, prev |-> {}]
  /\ query = [pending |-> FALSE, ticks |-> 0]
  /\ asleep = FALSE
  /\ \E mode \in {"blocks", "isotp"}, talks \in BOOLEAN :
       bsi = [on |-> {}, out |-> {}, next |-> First(mode), whole |-> FALSE,
              mode |-> mode, talks |-> talks]
  /\ hu = [NewHu EXCEPT !.told = TRUE]
  /\ acts = 0

-----------------------------------------------------------------------------
(* psa_journal_extract_codes: in the order of the bits, each alarm once,   *)
(* and no more of them than fit.                                           *)
Reported(bits) == {AlarmOf(bit) : bit \in bits \ Unmapped}

Extract(bits) ==
  Reported({bit \in bits : Cardinality(Reported({c \in bits : c < bit})) < Capacity})

(* The segments.  A block holds 7 bytes under its own header; in an ISO-TP *)
(* message the first frame holds 6 bytes and three more hold the rest.     *)
BlockOf(bit) == bit \div 7 + 1
ChunkOf(bit) == (bit + 1) \div 7
SegmentOf(mode, bit) == IF mode = "blocks" THEN BlockOf(bit) ELSE ChunkOf(bit)

Stored(buffer, mode, k, bits) ==
  {bit \in buffer : SegmentOf(mode, bit) # k} \cup {bit \in bits : SegmentOf(mode, bit) = k}

(* psa_process_journal_0x120: what segment k makes of the transfer, and    *)
(* whether a list is complete with it.  Nothing ever clears the set of     *)
(* blocks received.                                                        *)
TakeBlock(t, k, bits) ==
  LET got == t.got \cup {k}
  IN  [tp |-> [t EXCEPT !.buffer = Stored(t.buffer, "blocks", k, bits), !.got = got],
       complete |-> got = 1 .. 3]

(* Mutant: a new first frame does not break off the old transfer.          *)
TakeFrameBusy(t, k, bits) ==
  IF k = 0
  THEN [tp |-> IF t.busy THEN t
               ELSE [t EXCEPT !.buffer = Stored(t.buffer, "isotp", 0, bits), !.busy = TRUE, !.seq = 1],
        complete |-> FALSE]
  ELSE IF ~t.busy THEN [tp |-> t, complete |-> FALSE]
  ELSE IF k # t.seq THEN [tp |-> [t EXCEPT !.busy = FALSE], complete |-> FALSE]
  ELSE [tp |-> [t EXCEPT !.buffer = Stored(t.buffer, "isotp", k, bits),
                         !.busy = k # 3, !.seq = k + 1],
        complete |-> k = 3]

TakeFrame(t, k, bits) ==
  IF k = 0
  THEN [tp |-> [t EXCEPT !.buffer = Stored(t.buffer, "isotp", 0, bits), !.busy = TRUE, !.seq = 1],
        complete |-> FALSE]
  ELSE IF ~t.busy THEN [tp |-> t, complete |-> FALSE]
  ELSE IF k # t.seq THEN [tp |-> [t EXCEPT !.busy = FALSE], complete |-> FALSE]
  ELSE [tp |-> [t EXCEPT !.buffer = Stored(t.buffer, "isotp", k, bits),
                         !.busy = k # 3, !.seq = k + 1],
        complete |-> k = 3]

Take(t, mode, k, bits) ==
  IF mode = "blocks" THEN TakeBlock(t, k, bits) ELSE TakeFrame(t, k, bits)

(* psa_decode_alert_message_0x1a1: an alarm, the gap between two of them   *)
(* in the cockpit's check sequence, or the end of the display.             *)
Decode(m, old) ==
  IF m.byte2 = "display" /\ m.id # Blank
  THEN [active |-> TRUE, id |-> m.id, detail |-> IF m.id \in Diagnosis THEN 0 ELSE m.detail]
  ELSE IF m.id = Blank /\ m.byte2 # "zero"
  THEN [active |-> TRUE, id |-> Blank, detail |-> 0]
  ELSE [old EXCEPT !.active = FALSE, !.id = Blank]

(* psa_decode_alert_message_0x1a1_profile: the lamp follows an alert that  *)
(* names the low fuel.                                                     *)
LampAfter(live, lamp) == IF live.id \in LowFuel THEN live.active ELSE lamp

-----------------------------------------------------------------------------
(* hiworld_send_alerts_summary and hiworld_send_alert_single, 0xEA: the    *)
(* list, a popup, the dismissal of the popup it names.                     *)
Listing(h, items) == [h EXCEPT !.list = items, !.listed = TRUE]
Popping(h, alert) ==
  [h EXCEPT !.popup = alert, !.told = TRUE, !.toast = FALSE, !.over = NoAlert]
Toasting(h, alarm, live) ==
  [h EXCEPT !.popup = [active |-> TRUE, id |-> alarm, detail |-> 0], !.told = TRUE,
            !.toast = TRUE, !.over = live]
Dismissing(h, alert) == IF h.popup.id = alert.id THEN Popping(h, NoAlert) ELSE h

(* Mutant: an alarm that is gone leaves the list as it was.                *)
NeedsListNewOnly(items) == items \ scan.prev # {} \/ query.pending

(* The router's part of a complete list: the first one is taken in         *)
(* silently, later ones are compared with the one before.                  *)
NeedsList(items) == ~scan.done \/ items # scan.prev \/ query.pending

(* The items of a list are in the order of their lowest bits set.          *)
Before(a, b, bits) ==
  \E bit \in bits \ Unmapped :
    AlarmOf(bit) = a /\ \A c \in bits \ Unmapped : AlarmOf(c) = b => bit < c

(* Each alarm new since the list before is sent in a frame of its own, the *)
(* same as an alarm on display, so that the last of them is the popup.     *)
Fresh(items) == IF scan.done THEN items \ scan.prev ELSE {}

ToastNews(bits, items) ==
  IF Fresh(items) = {} THEN hu' = IF NeedsList(items) THEN Listing(hu, items) ELSE hu
  ELSE \E alarm \in Fresh(items) :
         /\ \A other \in Fresh(items) \ {alarm} : Before(other, alarm, bits)
         /\ hu' = Listing(Toasting(hu, alarm, alerts.live), items)

RouteJournal(bits) ==
  LET items == Extract(bits)
  IN  /\ alerts' = [alerts EXCEPT !.items = items]
      /\ scan' = [done |-> TRUE, prev |-> items]
      /\ last' = alerts.live
      /\ ToastNews(bits, items)
      /\ query' = [query EXCEPT !.pending = IF NeedsList(items) THEN FALSE ELSE @]

(* The router's part of a displayed alarm: pushed on change, dismissed     *)
(* once.                                                                   *)
(* Mutant: of a changed alarm only the number is looked at.                *)
IsNewsById(live) == ~last.active \/ live.id # last.id
IsNews(live) == ~last.active \/ live.id # last.id \/ live.detail # last.detail

RouteLive(live) ==
  /\ last' = IF live.active \/ last.active THEN live ELSE last
  /\ hu' = IF live.active THEN IF IsNews(live) THEN Popping(hu, live) ELSE hu
           ELSE IF last.active THEN Listing(Dismissing(hu, last), alerts.items)
           ELSE hu

-----------------------------------------------------------------------------
Act == acts < MaxActs /\ acts' = acts + 1

(* The BSI (external): an alarm comes or goes.                             *)
AlarmChanges(bit) ==
  /\ Act
  /\ bsi' = [bsi EXCEPT !.on = IF bit \in @ THEN @ \ {bit} ELSE @ \cup {bit}]
  /\ UNCHANGED <<box, hu>>

(* It broadcasts its journal again and again; what it reports is settled   *)
(* with the first segment.  Ghost: whole, no segment of it was missed.     *)
Starting == bsi.next = First(bsi.mode)
Journal == IF Starting THEN bsi.on ELSE bsi.out
SentOne(arrived) ==
  [bsi EXCEPT !.out = IF bsi.next = 3 THEN {} ELSE Journal,
              !.next = IF bsi.next = 3 THEN First(bsi.mode) ELSE @ + 1,
              !.whole = arrived /\ (@ \/ Starting)]
StartedOver == [bsi EXCEPT !.out = {}, !.next = First(bsi.mode), !.whole = FALSE]

LoseSegment ==
  /\ Act
  /\ bsi' = SentOne(FALSE)
  /\ UNCHANGED <<box, hu>>

(* CAN 0x120: psa_decode_alert_journal_0x120_profile and the router.       *)
Frame120 ==
  LET taken == Take(tp, bsi.mode, bsi.next, Journal)
  IN  /\ asleep' = FALSE
      /\ bsi' = SentOne(TRUE)
      /\ tp' = taken.tp
      /\ IF taken.complete THEN RouteJournal(taken.tp.buffer)
         ELSE UNCHANGED <<alerts, scan, last, query, hu>>
      /\ UNCHANGED acts

(* CAN 0x1A1.                                                              *)
Frame1A1(m) ==
  LET live == Decode(m, alerts.live)
  IN  /\ asleep' = FALSE
      /\ alerts' = [alerts EXCEPT !.live = live, !.lamp = LampAfter(live, @)]
      /\ RouteLive(live)
      /\ UNCHANGED <<tp, scan, query, bsi, acts>>

(* The query's part of can_router_periodic_100ms: out of patience the head *)
(* unit gets the list as it is.                                            *)
Tick ==
  /\ ~asleep
  /\ query.pending
  /\ LET ticks == IF query.ticks > 0 THEN query.ticks - 1 ELSE 0
     IN  /\ query' = [pending |-> ticks # 0, ticks |-> ticks]
         /\ hu' = IF ticks = 0 THEN Listing(hu, alerts.items) ELSE hu
  /\ UNCHANGED <<tp, alerts, last, scan, asleep, bsi, acts>>

(* Command 0x2F: can_router_query_alert_journal answers at once with what  *)
(* it has, and asks the BSI (0x39B) unless the bus sleeps; the BSI may     *)
(* break off a journal to answer.                                          *)
Query ==
  /\ Act
  /\ hu' = Listing(hu, alerts.items)
  /\ query' = [pending |-> TRUE, ticks |-> QueryTicks]
  /\ bsi' \in IF asleep THEN {bsi} ELSE {bsi, StartedOver}
  /\ UNCHANGED <<tp, alerts, last, scan, asleep>>

FallAsleep ==
  /\ ~asleep
  /\ asleep' = TRUE
  /\ UNCHANGED <<tp, alerts, last, scan, query, bsi, hu, acts>>

(* can_router_notify_wake, or any other frame.                             *)
Wake ==
  /\ asleep
  /\ asleep' = FALSE
  /\ UNCHANGED <<tp, alerts, last, scan, query, bsi, hu, acts>>

(* psa_init on the head unit's announcement: the transfer is forgotten.    *)
Handshake ==
  /\ Act
  /\ tp' = NewTransfer
  /\ bsi' = [bsi EXCEPT !.whole = FALSE]
  /\ UNCHANGED <<alerts, last, scan, query, asleep, hu>>

BoxRestarts ==
  /\ Act
  /\ tp' = NewTransfer /\ alerts' = NewAlerts /\ last' = NoAlert
  /\ scan' = [done |-> FALSE, prev |-> {}]
  /\ query' = [pending |-> FALSE, ticks |-> 0]
  /\ asleep' = FALSE
  /\ bsi' = [bsi EXCEPT !.whole = FALSE]
  /\ hu' = [hu EXCEPT !.listed = FALSE, !.told = FALSE]

HuRestarts ==
  /\ Act
  /\ hu' = NewHu
  /\ UNCHANGED <<box, bsi>>

(* Byte 2 asks for the display, is zero, or holds a priority only; details *)
(* come with a displayed alarm.                                            *)
Messages ==
  [id : Alarms, byte2 : {"display"}, detail : {0, 1}]
  \cup [id : Alarms, byte2 : {"priority"}, detail : {0}]
  \cup [id : {Blank}, byte2 : {"display", "priority", "zero"}, detail : {0}]

Next ==
  \/ \E bit \in Bits : AlarmChanges(bit)
  \/ LoseSegment \/ Frame120 \/ (\E m \in Messages : Frame1A1(m))
  \/ Tick \/ Query \/ FallAsleep \/ Wake
  \/ Handshake \/ BoxRestarts \/ HuRestarts

Spec == Init /\ [][Next]_vars

(* A BSI that talks goes on with its journal.                              *)
FairSpec == Spec /\ WF_vars(bsi.talks /\ Frame120)

-----------------------------------------------------------------------------
Live == [active : BOOLEAN, id : Alarms \cup {Blank}, detail : {0, 1}]

TypeOK ==
  /\ tp \in [buffer : SUBSET Bits, got : SUBSET (1 .. 3), busy : BOOLEAN, seq : 0 .. 4]
  /\ alerts \in [items : SUBSET Alarms, live : Live, lamp : BOOLEAN]
  /\ last \in Live
  /\ scan \in [done : BOOLEAN, prev : SUBSET Alarms]
  /\ query \in [pending : BOOLEAN, ticks : 0 .. QueryTicks]
  /\ asleep \in BOOLEAN
  /\ bsi \in [on : SUBSET Bits, out : SUBSET Bits, next : 0 .. 3, whole : BOOLEAN,
              mode : {"blocks", "isotp"}, talks : BOOLEAN]
  /\ hu \in [list : SUBSET Alarms, listed : BOOLEAN, popup : Live, told : BOOLEAN,
             toast : BOOLEAN, over : Live]
  /\ acts \in 0 .. MaxActs

(* Once the head unit was given a list it shows the one the box decoded    *)
(* last, though lists are sent on change only, whatever answers, timeouts  *)
(* and journals crossed each other.                                        *)
ListIsCurrent == hu.listed => hu.list = alerts.items

(* What covers the screen: the alarm the car displays, with its door or    *)
(* tyre, or nothing when it displays none.  A toast of the journal may     *)
(* cover that, yet only what was on display when it came: an alarm         *)
(* displayed or changed since shows, though only changes are sent and the  *)
(* toast itself is never taken into account.                               *)
PopupFollows ==
  hu.told =>
    IF hu.toast THEN alerts.live.active => alerts.live = hu.over
    ELSE IF alerts.live.active THEN hu.popup = alerts.live
    ELSE ~hu.popup.active

(* A journal of which every segment arrived is the list, whatever was left *)
(* over of journals cut short, lost in part or restarted before it.        *)
WholeJournalTaken ==
  [][ bsi.next = 3 /\ bsi'.next # 3 /\ bsi'.whole => alerts'.items = Extract(bsi.out) ]_vars

(* With a BSI that goes on talking, a head unit that has its list in the   *)
(* end shows the BSI's alarms.                                             *)
EventuallyListed ==
  <>[](bsi.talks /\ hu.listed) => <>[](hu.list = Extract(bsi.on))

(* include/core/can_router.h says of the lamp: "true if low fuel warning   *)
(* alert is active".                                                       *)
LampMeansAlert == alerts.lamp => alerts.live.active
=============================================================================
