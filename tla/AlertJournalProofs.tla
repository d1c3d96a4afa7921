------------------------- MODULE AlertJournalProofs -------------------------
(***************************************************************************)
(* AlertJournal for any alarms, any capacity of the list and any patience  *)
(* with the BSI: list and popup of the head unit are those decoded last,   *)
(* and a journal that arrived whole is the list.                           *)
(***************************************************************************)
EXTENDS AlertJournal, TLAPS

Transfer == [buffer : SUBSET Bits, got : SUBSET (1 .. 3), busy : BOOLEAN, seq : 0 .. 4]
Bsi == [on : SUBSET Bits, out : SUBSET Bits, next : 0 .. 3, whole : BOOLEAN,
        mode : {"blocks", "isotp"}, talks : BOOLEAN]
Hu == [list : SUBSET Alarms, listed : BOOLEAN, popup : Live, told : BOOLEAN,
       toast : BOOLEAN, over : Live]
AlertsType == [items : SUBSET Alarms, live : Live, lamp : BOOLEAN]

LEMMA NoAlertType == NoAlert \in Live
  BY DEF NoAlert, Live

LEMMA ExtractType == ASSUME NEW bits \in SUBSET Bits PROVE Extract(bits) \in SUBSET Alarms
  BY DEF Extract, Reported, Alarms

(* Every alarm bit is in one of the segments.                              *)
LEMMA Segments ==
  ASSUME NEW bit \in Bits
  PROVE  BlockOf(bit) \in 1 .. 3 /\ ChunkOf(bit) \in 0 .. 3
<1>1. bit \in 0 .. 20  BY JournalAssumption
<1> QED  BY <1>1 DEF BlockOf, ChunkOf

LEMMA StoredType ==
  ASSUME NEW b \in SUBSET Bits, NEW bits \in SUBSET Bits, NEW mode, NEW k
  PROVE  Stored(b, mode, k, bits) \in SUBSET Bits
  BY DEF Stored

LEMMA TakeType ==
  ASSUME NEW t \in Transfer, NEW mode \in {"blocks", "isotp"}, NEW k \in 0 .. 3,
         mode = "blocks" => k # 0, NEW bits \in SUBSET Bits
  PROVE  Take(t, mode, k, bits).tp \in Transfer
<1>1. CASE mode = "blocks"
  <2> DEFINE s == Stored(t.buffer, "blocks", k, bits)
             a == [t EXCEPT !.buffer = s]
  <2>1. s \in SUBSET Bits  BY StoredType DEF Transfer
  <2>2. a \in Transfer  BY <2>1 DEF Transfer
  <2>3. t.got \cup {k} \in SUBSET (1 .. 3)  BY <1>1 DEF Transfer
  <2>4. Take(t, mode, k, bits).tp = [a EXCEPT !.got = t.got \cup {k}]
    BY <1>1 DEF Take, TakeBlock
  <2> HIDE DEF a, s
  <2> QED  BY <2>2, <2>3, <2>4 DEF Transfer
<1>2. CASE mode = "isotp"
  <2> DEFINE s == Stored(t.buffer, "isotp", k, bits)
             a == [t EXCEPT !.buffer = s]
  <2>1. s \in SUBSET Bits  BY StoredType DEF Transfer
  <2>2. a \in Transfer  BY <2>1 DEF Transfer
  <2>3. ASSUME NEW busy \in BOOLEAN, NEW n \in 0 .. 4
        PROVE  [[a EXCEPT !.busy = busy] EXCEPT !.seq = n] \in Transfer
    <3> DEFINE c == [a EXCEPT !.busy = busy]
    <3>1. c \in Transfer  BY <2>2 DEF Transfer
    <3> HIDE DEF c
    <3>2. [c EXCEPT !.seq = n] \in Transfer  BY <3>1 DEF Transfer
    <3> QED  BY <3>2 DEF c
  <2>4. CASE k = 0
    <3>1. Take(t, mode, k, bits).tp = [[a EXCEPT !.busy = TRUE] EXCEPT !.seq = 1]
      BY <1>2, <2>4 DEF Take, TakeFrame
    <3>2. TRUE \in BOOLEAN /\ 1 \in 0 .. 4  OBVIOUS
    <3> HIDE DEF a
    <3> QED  BY <2>3, <3>1, <3>2
  <2>5. CASE k # 0 /\ t.busy /\ k = t.seq
    <3>1. Take(t, mode, k, bits).tp = [[a EXCEPT !.busy = (k # 3)] EXCEPT !.seq = k + 1]
      BY <1>2, <2>5 DEF Take, TakeFrame
    <3>2. (k # 3) \in BOOLEAN /\ k + 1 \in 0 .. 4  OBVIOUS
    <3> HIDE DEF a
    <3> QED  BY <2>3, <3>1, <3>2
  <2>6. CASE k # 0 /\ ~(t.busy /\ k = t.seq)
    <3>1. Take(t, mode, k, bits).tp \in {t, [t EXCEPT !.busy = FALSE]}
      BY <1>2, <2>6 DEF Take, TakeFrame
    <3>2. [t EXCEPT !.busy = FALSE] \in Transfer  BY DEF Transfer
    <3> QED  BY <3>1, <3>2
  <2> QED  BY <2>4, <2>5, <2>6
<1> QED  BY <1>1, <1>2

LEMMA DecodeType ==
  ASSUME NEW m \in Messages, NEW old \in Live PROVE Decode(m, old) \in Live
<1>1. m.id \in Alarms \cup {Blank} /\ m.detail \in {0, 1}  BY DEF Messages
<1>2. CASE m.byte2 = "display" /\ m.id # Blank
  BY <1>1, <1>2 DEF Decode, Live
<1>3. CASE ~(m.byte2 = "display" /\ m.id # Blank) /\ m.id = Blank /\ m.byte2 # "zero"
  BY <1>3 DEF Decode, Live
<1>4. CASE ~(m.byte2 = "display" /\ m.id # Blank) /\ ~(m.id = Blank /\ m.byte2 # "zero")
  <2> DEFINE a == [old EXCEPT !.active = FALSE]
  <2>1. a \in Live  BY DEF Live
  <2>2. Decode(m, old) = [a EXCEPT !.id = Blank]  BY <1>4 DEF Decode
  <2> HIDE DEF a
  <2> QED  BY <2>1, <2>2 DEF Live
<1> QED  BY <1>2, <1>3, <1>4

LEMMA ListingFacts ==
  ASSUME NEW h \in Hu, NEW items \in SUBSET Alarms
  PROVE  /\ Listing(h, items) \in Hu /\ Listing(h, items).list = items
         /\ Listing(h, items).popup = h.popup /\ Listing(h, items).told = h.told
         /\ Listing(h, items).toast = h.toast /\ Listing(h, items).over = h.over
<1> DEFINE a == [h EXCEPT !.list = items]
<1>1. /\ a \in Hu /\ a.list = items /\ a.popup = h.popup /\ a.told = h.told
      /\ a.toast = h.toast /\ a.over = h.over
  BY DEF Hu
<1>2. Listing(h, items) = [a EXCEPT !.listed = TRUE]  BY DEF Listing
<1> HIDE DEF a
<1> QED  BY <1>1, <1>2 DEF Hu

(* A popup and a toast differ only in what the ghosts note of them.        *)
Shows(h, p, toast, over) ==
  [h EXCEPT !.popup = p, !.told = TRUE, !.toast = toast, !.over = over]

LEMMA ShowsFacts ==
  ASSUME NEW h \in Hu, NEW p \in Live, NEW t \in BOOLEAN, NEW o \in Live
  PROVE  /\ Shows(h, p, t, o) \in Hu
         /\ Shows(h, p, t, o).list = h.list /\ Shows(h, p, t, o).listed = h.listed
         /\ Shows(h, p, t, o).popup = p
         /\ Shows(h, p, t, o).toast = t /\ Shows(h, p, t, o).over = o
<1> DEFINE a == [h EXCEPT !.popup = p]
           b == [a EXCEPT !.told = TRUE]
           c == [b EXCEPT !.toast = t]
<1>1. a \in Hu /\ a.list = h.list /\ a.listed = h.listed /\ a.popup = p  BY DEF Hu
<1>2. Shows(h, p, t, o) = [c EXCEPT !.over = o]  BY DEF Shows
<1> HIDE DEF a
<1>3. b \in Hu /\ b.list = h.list /\ b.listed = h.listed /\ b.popup = p  BY <1>1 DEF Hu
<1> HIDE DEF b
<1>4. c \in Hu /\ c.list = h.list /\ c.listed = h.listed /\ c.popup = p /\ c.toast = t
  BY <1>3 DEF Hu
<1> HIDE DEF c
<1> QED  BY <1>2, <1>4 DEF Hu

LEMMA PoppingFacts ==
  ASSUME NEW h \in Hu, NEW alert \in Live
  PROVE  /\ Popping(h, alert) \in Hu /\ Popping(h, alert).popup = alert
         /\ Popping(h, alert).toast = FALSE
         /\ Popping(h, alert).list = h.list /\ Popping(h, alert).listed = h.listed
<1> DEFINE t == FALSE
<1>1. Popping(h, alert) = Shows(h, alert, t, NoAlert)  BY DEF Popping, Shows
<1>2. t \in BOOLEAN /\ t = FALSE  OBVIOUS
<1> HIDE DEF t
<1> QED  BY <1>1, <1>2, ShowsFacts, NoAlertType

LEMMA ToastingFacts ==
  ASSUME NEW h \in Hu, NEW alarm \in Alarms, NEW live \in Live
  PROVE  /\ Toasting(h, alarm, live) \in Hu /\ Toasting(h, alarm, live).toast = TRUE
         /\ Toasting(h, alarm, live).over = live
<1> DEFINE p == [active |-> TRUE, id |-> alarm, detail |-> 0]
<1> DEFINE t == TRUE
<1>1. Toasting(h, alarm, live) = Shows(h, p, t, live)  BY DEF Toasting, Shows
<1>2. p \in Live  BY DEF Live
<1>3. t \in BOOLEAN /\ t = TRUE  OBVIOUS
<1> HIDE DEF p, t
<1>4. /\ Shows(h, p, t, live) \in Hu
      /\ Shows(h, p, t, live).toast = t /\ Shows(h, p, t, live).over = live
  <2>1. h \in Hu /\ p \in Live /\ t \in BOOLEAN /\ live \in Live  BY <1>2, <1>3
  <2> QED  BY <2>1, ShowsFacts
<1>5. t = TRUE  BY <1>3
<1> QED  BY <1>1, <1>4, <1>5

(* A segment that is taken is stored; the message goes on with the next.   *)
LEMMA TakeStores ==
  ASSUME NEW t \in Transfer, NEW mode \in {"blocks", "isotp"}, NEW k \in 0 .. 3,
         NEW bits \in SUBSET Bits,
         mode = "isotp" => k = 0 \/ (t.busy /\ t.seq = k)
  PROVE  /\ Take(t, mode, k, bits).tp.buffer = Stored(t.buffer, mode, k, bits)
         /\ mode = "blocks" =>
              /\ Take(t, mode, k, bits).tp.got = t.got \cup {k}
              /\ Take(t, mode, k, bits).complete = (t.got \cup {k} = 1 .. 3)
         /\ mode = "isotp" =>
              /\ k # 3 => Take(t, mode, k, bits).tp.busy /\ Take(t, mode, k, bits).tp.seq = k + 1
              /\ Take(t, mode, k, bits).complete = (k = 3)
<1> DEFINE s == Stored(t.buffer, mode, k, bits)
           a == [t EXCEPT !.buffer = s]
<1>1. s \in SUBSET Bits  BY StoredType DEF Transfer
<1>2. a \in Transfer /\ a.buffer = s /\ a.got = t.got  BY <1>1 DEF Transfer
<1>3. ASSUME mode = "blocks"
      PROVE  /\ Take(t, mode, k, bits).tp = [a EXCEPT !.got = t.got \cup {k}]
             /\ Take(t, mode, k, bits).complete = (t.got \cup {k} = 1 .. 3)
  BY <1>3 DEF Take, TakeBlock
<1>4. ASSUME mode = "isotp"
      PROVE  /\ Take(t, mode, k, bits).tp = [[a EXCEPT !.busy = (k # 3)] EXCEPT !.seq = k + 1]
             /\ Take(t, mode, k, bits).complete = (k = 3)
  <2>1. CASE k = 0
    <3>1. /\ Take(t, mode, k, bits).tp = [[a EXCEPT !.busy = TRUE] EXCEPT !.seq = 1]
          /\ Take(t, mode, k, bits).complete = FALSE
      BY <1>4, <2>1 DEF Take, TakeFrame
    <3>2. (k # 3) = TRUE /\ (k = 3) = FALSE /\ k + 1 = 1  BY <2>1
    <3> HIDE DEF a
    <3> QED  BY <3>1, <3>2
  <2>2. CASE k # 0  BY <1>4, <2>2 DEF Take, TakeFrame
  <2> QED  BY <2>1, <2>2
<1> HIDE DEF a
<1>5. [a EXCEPT !.got = t.got \cup {k}].buffer = s
      /\ [a EXCEPT !.got = t.got \cup {k}].got = t.got \cup {k}
  BY <1>2 DEF Transfer
<1> DEFINE c == [a EXCEPT !.busy = (k # 3)]
<1>6. c \in Transfer /\ c.buffer = s /\ c.busy = (k # 3)  BY <1>2 DEF Transfer
<1> HIDE DEF c
<1>7. [c EXCEPT !.seq = k + 1].buffer = s /\ [c EXCEPT !.seq = k + 1].busy = (k # 3)
      /\ [c EXCEPT !.seq = k + 1].seq = k + 1
  BY <1>6 DEF Transfer
<1>8. CASE mode = "blocks"  BY <1>3, <1>5, <1>8
<1>9. CASE mode = "isotp"  BY <1>4, <1>7, <1>9 DEF c
<1> QED  BY <1>8, <1>9

-----------------------------------------------------------------------------
(* A journal of blocks has no segment 0.                                   *)
NextInv == bsi.mode = "blocks" => bsi.next # 0

(* What the router compares the next list with is the list.                *)
ScanInv == scan.done => scan.prev = alerts.items

(* What the change detection compares the next display with is the display.*)
LiveInv == /\ last.active = alerts.live.active
           /\ last.active => last = alerts.live

(* Of a journal no segment was missed of, the transfer holds what the BSI  *)
(* reports so far, and waits for the segment the BSI sends next.           *)
TpInv ==
  bsi.whole =>
    /\ \A bit \in Bits : SegmentOf(bsi.mode, bit) < bsi.next =>
                           (bit \in tp.buffer <=> bit \in bsi.out)
    /\ bsi.mode = "blocks" => \A k \in 1 .. 3 : k < bsi.next => k \in tp.got
    /\ bsi.mode = "isotp" /\ bsi.next # 0 => tp.busy /\ tp.seq = bsi.next

LEMMA SentType ==
  ASSUME TypeOK, NextInv, NEW arrived \in BOOLEAN
  PROVE  /\ SentOne(arrived) \in Bsi
         /\ SentOne(arrived).mode = bsi.mode
         /\ SentOne(arrived).mode = "blocks" => SentOne(arrived).next # 0
         /\ SentOne(arrived).next =
              IF bsi.next = 3 THEN First(bsi.mode) ELSE bsi.next + 1
         /\ SentOne(arrived).out = IF bsi.next = 3 THEN {} ELSE Journal
         /\ SentOne(arrived).whole = (arrived /\ (bsi.whole \/ Starting))
         /\ Journal \in SUBSET Bits
<1> DEFINE o == IF bsi.next = 3 THEN {} ELSE Journal
           n == IF bsi.next = 3 THEN First(bsi.mode) ELSE bsi.next + 1
           w == arrived /\ (bsi.whole \/ Starting)
           a == [bsi EXCEPT !.out = o]
           b == [a EXCEPT !.next = n]
<1>1. bsi \in Bsi  BY DEF TypeOK, Bsi
<1>2. Journal \in SUBSET Bits  BY <1>1 DEF Journal, Bsi
<1>3. n \in 0 .. 3 /\ (bsi.mode = "blocks" => n # 0)  BY <1>1 DEF Bsi, First, NextInv
<1>4. w \in BOOLEAN  BY <1>1 DEF Bsi, Starting
<1>5. SentOne(arrived) = [b EXCEPT !.whole = w]  BY DEF SentOne
<1>6. o \in SUBSET Bits  BY <1>2
<1> HIDE DEF o, n, w
<1>7. a \in Bsi /\ a.out = o /\ a.mode = bsi.mode  BY <1>1, <1>6 DEF Bsi
<1> HIDE DEF a
<1>8. b \in Bsi /\ b.out = o /\ b.next = n /\ b.mode = bsi.mode  BY <1>7, <1>3 DEF Bsi
<1> HIDE DEF b
<1>9. /\ SentOne(arrived) \in Bsi /\ SentOne(arrived).out = o /\ SentOne(arrived).next = n
      /\ SentOne(arrived).mode = bsi.mode /\ SentOne(arrived).whole = w
  BY <1>8, <1>4, <1>5 DEF Bsi
<1> QED  BY <1>9, <1>2, <1>3 DEF o, n, w

LEMMA StartedType ==
  ASSUME TypeOK
  PROVE  /\ StartedOver \in Bsi /\ StartedOver.whole = FALSE
         /\ StartedOver.mode = bsi.mode /\ StartedOver.next = First(bsi.mode)
<1> DEFINE a == [bsi EXCEPT !.out = {}]
           b == [a EXCEPT !.next = First(bsi.mode)]
<1>1. a \in Bsi /\ a.mode = bsi.mode  BY DEF TypeOK, Bsi
<1>2. First(bsi.mode) \in 0 .. 3  BY DEF First
<1>3. StartedOver = [b EXCEPT !.whole = FALSE]  BY DEF StartedOver
<1> HIDE DEF a
<1>4. b \in Bsi /\ b.mode = bsi.mode /\ b.next = First(bsi.mode)  BY <1>1, <1>2 DEF Bsi
<1> HIDE DEF b
<1> QED  BY <1>3, <1>4 DEF Bsi

-----------------------------------------------------------------------------
Inv == TypeOK /\ NextInv /\ ScanInv /\ LiveInv /\ ListIsCurrent /\ PopupFollows /\ TpInv

Query0 == [pending : BOOLEAN, ticks : 0 .. QueryTicks]
Scan == [done : BOOLEAN, prev : SUBSET Alarms]

(* The part of the state behind the transfer, and what holds of it.        *)
RouterInv ==
  /\ alerts \in AlertsType /\ last \in Live /\ scan \in Scan /\ query \in Query0 /\ hu \in Hu
  /\ ScanInv /\ LiveInv /\ ListIsCurrent /\ PopupFollows

LinkInv == tp \in Transfer /\ bsi \in Bsi /\ NextInv /\ TpInv

LEMMA Parts == Inv <=> RouterInv /\ LinkInv /\ asleep \in BOOLEAN /\ acts \in 0 .. MaxActs
  BY DEF Inv, TypeOK, RouterInv, LinkInv, Transfer, Bsi, Hu, AlertsType, Query0, Scan

(* A complete list reaches the head unit unless it is the one the head     *)
(* unit was given last.                                                    *)
LEMMA RouteJournalStep ==
  ASSUME RouterInv, NEW bits \in SUBSET Bits, RouteJournal(bits)
  PROVE  RouterInv' /\ alerts'.items = Extract(bits)
<1> USE DEF RouterInv
<1> DEFINE items == Extract(bits)
<1>0. items \in SUBSET Alarms  BY ExtractType
<1>7. /\ alerts' = [alerts EXCEPT !.items = items]
      /\ scan' = [done |-> TRUE, prev |-> items]
      /\ last' = alerts.live
      /\ query' = [query EXCEPT !.pending = IF NeedsList(items) THEN FALSE ELSE @]
      /\ ToastNews(bits, items)
  BY DEF RouteJournal
<1> HIDE DEF items
<1>1. alerts' \in AlertsType /\ alerts'.items = items /\ alerts'.live = alerts.live
  BY <1>0, <1>7 DEF AlertsType
<1>2. scan' \in Scan /\ scan'.done /\ scan'.prev = items  BY <1>0, <1>7 DEF Scan
<1>3. last' = alerts'.live /\ last' \in Live  BY <1>1, <1>7 DEF AlertsType
<1>4. query' \in Query0
  <2> DEFINE p == IF NeedsList(items) THEN FALSE ELSE query.pending
  <2>1. p \in BOOLEAN  BY DEF Query0
  <2>2. query' = [query EXCEPT !.pending = p]  BY <1>7
  <2> HIDE DEF p
  <2> QED  BY <2>1, <2>2 DEF Query0
<1>5. hu' \in Hu /\ (hu'.listed => hu'.list = items) /\ PopupFollows'
  <2>1. CASE Fresh(items) = {}
    <3>1. hu' = IF NeedsList(items) THEN Listing(hu, items) ELSE hu
      BY <1>7, <2>1 DEF ToastNews
    <3>2. /\ hu' \in Hu /\ hu'.popup = hu.popup /\ hu'.told = hu.told
          /\ hu'.toast = hu.toast /\ hu'.over = hu.over
      BY <1>0, <3>1, ListingFacts
    <3>3. CASE NeedsList(items)
      <4>1. hu'.list = items  BY <1>0, <3>1, <3>3, ListingFacts
      <4> QED  BY <1>1, <3>2, <4>1 DEF PopupFollows
    <3>4. CASE ~NeedsList(items)
      <4>1. scan.done /\ items = scan.prev /\ hu' = hu  BY <3>1, <3>4 DEF NeedsList
      <4>2. hu'.listed => hu'.list = items  BY <4>1 DEF ScanInv, ListIsCurrent
      <4> QED  BY <1>1, <3>2, <4>2 DEF PopupFollows
    <3> QED  BY <3>3, <3>4
  <2>2. CASE Fresh(items) # {}
    <3>1. PICK alarm \in Fresh(items) : hu' = Listing(Toasting(hu, alarm, alerts.live), items)
      BY <1>7, <2>2 DEF ToastNews
    <3>2. alarm \in Alarms  BY <1>0, <3>1 DEF Fresh
    <3> DEFINE t == Toasting(hu, alarm, alerts.live)
    <3>3. alerts.live \in Live  BY DEF AlertsType
    <3>4. t \in Hu /\ t.toast = TRUE /\ t.over = alerts.live
      BY <3>2, <3>3, ToastingFacts
    <3>5. hu' = Listing(t, items)  BY <3>1
    <3> HIDE DEF t
    <3>6. hu' \in Hu /\ hu'.list = items /\ hu'.toast = TRUE /\ hu'.over = alerts.live
      BY <1>0, <3>4, <3>5, ListingFacts
    <3> QED  BY <1>1, <3>6 DEF PopupFollows
  <2> QED  BY <2>1, <2>2
<1> QED
  BY <1>1, <1>2, <1>3, <1>4, <1>5 DEF ScanInv, LiveInv, ListIsCurrent, items

(* A displayed alarm reaches the head unit unless it is the one the box    *)
(* told it last; its end takes away the popup that shows it.               *)
LEMMA RouteLiveStep ==
  ASSUME RouterInv, NEW live \in Live, UNCHANGED <<scan, query>>,
         alerts' = [alerts EXCEPT !.live = live, !.lamp = LampAfter(live, @)],
         RouteLive(live)
  PROVE  RouterInv'
<1> USE DEF RouterInv
<1>1. alerts' \in AlertsType /\ alerts'.live = live /\ alerts'.items = alerts.items
  <2> DEFINE a == [alerts EXCEPT !.live = live]
             l == LampAfter(live, alerts.lamp)
  <2>1. a \in AlertsType /\ a.live = live /\ a.items = alerts.items  BY DEF AlertsType
  <2>2. l \in BOOLEAN  BY DEF LampAfter, Live, AlertsType
  <2>3. alerts' = [a EXCEPT !.lamp = l]  OBVIOUS
  <2> HIDE DEF a, l
  <2> QED  BY <2>1, <2>2, <2>3 DEF AlertsType
<1>2. last' \in Live /\ LiveInv'
  <2>1. CASE live.active \/ last.active
    <3>1. last' = live  BY <2>1 DEF RouteLive
    <3> QED  BY <1>1, <3>1 DEF LiveInv
  <2>2. CASE ~live.active /\ ~last.active
    <3>1. last' = last  BY <2>2 DEF RouteLive
    <3>2. live.active = FALSE /\ last.active = FALSE  BY <2>2 DEF Live
    <3> QED  BY <1>1, <3>1, <3>2 DEF LiveInv
  <2> QED  BY <2>1, <2>2
<1>3. ScanInv' /\ scan' \in Scan /\ query' \in Query0  BY <1>1 DEF ScanInv
<1>4. live.active => /\ hu' \in Hu
                     /\ hu'.list = hu.list /\ hu'.listed = hu.listed
                     /\ hu'.told => IF hu'.toast THEN live = hu'.over ELSE hu'.popup = live
  <2> SUFFICES ASSUME live.active
               PROVE  /\ hu' \in Hu /\ hu'.list = hu.list /\ hu'.listed = hu.listed
                      /\ hu'.told => IF hu'.toast THEN live = hu'.over ELSE hu'.popup = live
    OBVIOUS
  <2>1. CASE IsNews(live)
    <3>1. hu' = Popping(hu, live)  BY <2>1 DEF RouteLive
    <3> QED  BY <3>1, PoppingFacts
  <2>2. CASE ~IsNews(live)
    <3>1. hu' = hu /\ last.active /\ live.id = last.id /\ live.detail = last.detail
      BY <2>2 DEF RouteLive, IsNews
    <3>2. live = last /\ last = alerts.live  BY <3>1 DEF Live, LiveInv
    <3> QED  BY <3>1, <3>2 DEF PopupFollows
  <2> QED  BY <2>1, <2>2
<1>5. ~live.active /\ last.active =>
        /\ hu' \in Hu /\ hu'.list = alerts.items
        /\ hu'.told => hu'.toast \/ ~hu'.popup.active
  <2> SUFFICES ASSUME ~live.active, last.active
               PROVE  /\ hu' \in Hu /\ hu'.list = alerts.items
                      /\ hu'.told => hu'.toast \/ ~hu'.popup.active
    OBVIOUS
  <2> DEFINE d == Dismissing(hu, last)
  <2>1. alerts.items \in SUBSET Alarms /\ last = alerts.live /\ alerts.live.active
    BY DEF AlertsType, LiveInv
  <2>2. d = IF hu.popup.id = last.id THEN Popping(hu, NoAlert) ELSE hu
    BY DEF Dismissing
  <2>3. hu' = Listing(d, alerts.items)  BY DEF RouteLive
  <2> HIDE DEF d
  <2>4. d \in Hu  BY <2>2, PoppingFacts, NoAlertType
  <2>5. /\ hu' \in Hu /\ hu'.list = alerts.items
        /\ hu'.popup = d.popup /\ hu'.told = d.told /\ hu'.toast = d.toast
    BY <2>1, <2>3, <2>4, ListingFacts
  <2>6. CASE hu.popup.id = last.id
    <3>1. d.popup = NoAlert  BY <2>2, <2>6, PoppingFacts, NoAlertType
    <3> QED  BY <2>5, <3>1 DEF NoAlert
  <2>7. CASE hu.popup.id # last.id
    <3>1. hu.told => hu.toast \/ hu.popup = last  BY <2>1 DEF PopupFollows
    <3> QED  BY <2>2, <2>5, <2>7, <3>1
  <2> QED  BY <2>5, <2>6, <2>7
<1>6. ~live.active /\ ~last.active => hu' = hu /\ ~alerts.live.active
  BY DEF RouteLive, LiveInv
<1>7. ListIsCurrent'  BY <1>1, <1>4, <1>5, <1>6 DEF ListIsCurrent
<1>8. PopupFollows'  BY <1>1, <1>4, <1>5, <1>6 DEF PopupFollows
<1> QED  BY <1>1, <1>2, <1>3, <1>4, <1>5, <1>6, <1>7, <1>8

-----------------------------------------------------------------------------
(* A segment that arrives is the one the transfer waits for, unless one of *)
(* its journal was missed; with the last the buffer is what was reported.  *)
LEMMA SegmentStep ==
  ASSUME LinkInv, TypeOK, Frame120
  PROVE  /\ LinkInv'
         /\ Take(tp, bsi.mode, bsi.next, Journal).tp.buffer \in SUBSET Bits
         /\ bsi.next = 3 /\ bsi.whole =>
              /\ Take(tp, bsi.mode, bsi.next, Journal).complete
              /\ Take(tp, bsi.mode, bsi.next, Journal).tp.buffer = bsi.out
<1> USE DEF LinkInv
<1> DEFINE taken == Take(tp, bsi.mode, bsi.next, Journal)
<1>1. /\ tp' = taken.tp /\ bsi' = SentOne(TRUE)  BY DEF Frame120
<1>2. /\ bsi' \in Bsi /\ bsi'.mode = bsi.mode /\ NextInv'
      /\ bsi'.next = IF bsi.next = 3 THEN First(bsi.mode) ELSE bsi.next + 1
      /\ bsi'.out = IF bsi.next = 3 THEN {} ELSE Journal
      /\ bsi'.whole = (bsi.whole \/ Starting)
      /\ Journal \in SUBSET Bits
  BY <1>1, SentType DEF NextInv
<1>3. bsi.mode \in {"blocks", "isotp"} /\ bsi.next \in 0 .. 3 /\ bsi.whole \in BOOLEAN
  BY DEF Bsi
<1>4. tp' \in Transfer  BY <1>1, <1>2, <1>3, TakeType DEF NextInv
<1>5. ASSUME bsi'.whole
      PROVE  /\ bsi.mode = "isotp" => bsi.next = 0 \/ (tp.busy /\ tp.seq = bsi.next)
             /\ \A bit \in Bits : SegmentOf(bsi.mode, bit) < bsi.next =>
                                    (bit \in tp.buffer <=> bit \in Journal)
             /\ bsi.mode = "blocks" => \A k \in 1 .. 3 : k < bsi.next => k \in tp.got
  <2>1. CASE Starting
    <3>1. bsi.next = First(bsi.mode)  BY <2>1 DEF Starting
    <3>2. \A bit \in Bits : SegmentOf(bsi.mode, bit) \in 0 .. 3
                            /\ (bsi.mode = "blocks" => SegmentOf(bsi.mode, bit) # 0)
      BY <1>3, Segments DEF SegmentOf
    <3> QED  BY <1>3, <3>1, <3>2 DEF First
  <2>2. CASE ~Starting
    <3>1. bsi.whole /\ Journal = bsi.out  BY <1>2, <1>5, <2>2 DEF Journal
    <3> QED  BY <3>1 DEF TpInv
  <2> QED  BY <2>1, <2>2
<1>6. ASSUME bsi'.whole
      PROVE  /\ taken.tp.buffer = Stored(tp.buffer, bsi.mode, bsi.next, Journal)
             /\ bsi.mode = "blocks" =>
                  taken.tp.got = tp.got \cup {bsi.next}
                  /\ taken.complete = (tp.got \cup {bsi.next} = 1 .. 3)
             /\ bsi.mode = "isotp" =>
                  /\ bsi.next # 3 => taken.tp.busy /\ taken.tp.seq = bsi.next + 1
                  /\ taken.complete = (bsi.next = 3)
  <2>1. bsi.mode = "isotp" => bsi.next = 0 \/ (tp.busy /\ tp.seq = bsi.next)
    BY <1>5, <1>6
  <2> HIDE DEF taken
  <2> QED  BY <1>2, <1>3, <2>1, TakeStores DEF taken
<1> HIDE DEF taken
<1>7. ASSUME bsi'.whole, NEW bit \in Bits, SegmentOf(bsi.mode, bit) < bsi.next + 1
      PROVE  bit \in taken.tp.buffer <=> bit \in Journal
  <2>1. SegmentOf(bsi.mode, bit) \in 0 .. 3  BY <1>3, Segments DEF SegmentOf
  <2>2. CASE SegmentOf(bsi.mode, bit) = bsi.next
    BY <1>6, <1>7, <2>2 DEF Stored
  <2>3. CASE SegmentOf(bsi.mode, bit) # bsi.next
    <3>1. SegmentOf(bsi.mode, bit) < bsi.next  BY <1>3, <1>7, <2>1, <2>3
    <3>2. bit \in tp.buffer <=> bit \in Journal  BY <1>5, <1>7, <3>1
    <3> QED  BY <1>6, <1>7, <2>3, <3>2 DEF Stored
  <2> QED  BY <2>2, <2>3
<1>8. TpInv'
  <2> SUFFICES ASSUME bsi'.whole
               PROVE  /\ \A bit \in Bits : SegmentOf(bsi'.mode, bit) < bsi'.next =>
                                             (bit \in tp'.buffer <=> bit \in bsi'.out)
                      /\ bsi'.mode = "blocks" =>
                           \A k \in 1 .. 3 : k < bsi'.next => k \in tp'.got
                      /\ bsi'.mode = "isotp" /\ bsi'.next # 0 =>
                           tp'.busy /\ tp'.seq = bsi'.next
    BY DEF TpInv, SegmentOf, BlockOf, ChunkOf
  <2>1. CASE bsi.next = 3
    <3>1. bsi'.next = First(bsi.mode)  BY <1>2, <2>1
    <3>2. \A bit \in Bits : SegmentOf(bsi.mode, bit) \in 0 .. 3
                            /\ (bsi.mode = "blocks" => SegmentOf(bsi.mode, bit) # 0)
      BY <1>3, Segments DEF SegmentOf
    <3> QED  BY <1>2, <1>3, <3>1, <3>2 DEF First
  <2>2. CASE bsi.next # 3
    <3>1. bsi'.next = bsi.next + 1 /\ bsi'.out = Journal  BY <1>2, <2>2
    <3>2. \A bit \in Bits : SegmentOf(bsi'.mode, bit) < bsi'.next =>
                              (bit \in tp'.buffer <=> bit \in bsi'.out)
      BY <1>1, <1>2, <1>7, <3>1
    <3>3. bsi.mode = "blocks" => \A k \in 1 .. 3 : k < bsi.next + 1 => k \in tp'.got
      BY <1>1, <1>3, <1>5, <1>6
    <3>4. bsi.mode = "isotp" => tp'.busy /\ tp'.seq = bsi.next + 1  BY <1>1, <1>6, <2>2
    <3> QED  BY <1>2, <3>1, <3>2, <3>3, <3>4
  <2> QED  BY <2>1, <2>2
<1>9. ASSUME bsi.next = 3, bsi.whole
      PROVE  taken.complete /\ taken.tp.buffer = bsi.out
  <2>1. bsi'.whole  BY <1>2, <1>9
  <2>2. Journal = bsi.out  BY <1>3, <1>9 DEF Journal, Starting, First
  <2>3. \A bit \in Bits : SegmentOf(bsi.mode, bit) < 4
    BY <1>3, Segments DEF SegmentOf
  <2>4. taken.tp.buffer \in SUBSET Bits /\ bsi.out \in SUBSET Bits
    BY <1>1, <1>4 DEF Transfer, Bsi
  <2>5. taken.tp.buffer = bsi.out  BY <1>7, <1>9, <2>1, <2>2, <2>3, <2>4
  <2>6. CASE bsi.mode = "blocks"
    <3>1. tp.got \in SUBSET (1 .. 3)  BY DEF Transfer
    <3>2. \A k \in 1 .. 3 : k < 3 => k \in tp.got  BY <1>5, <1>9, <2>1, <2>6
    <3>3. tp.got \cup {3} = 1 .. 3  BY <3>1, <3>2
    <3> QED  BY <1>6, <1>9, <2>1, <2>5, <2>6, <3>3
  <2>7. CASE bsi.mode = "isotp"  BY <1>6, <1>9, <2>1, <2>5, <2>7
  <2> QED  BY <1>3, <2>6, <2>7
<1>10. taken.tp.buffer \in SUBSET Bits  BY <1>1, <1>4 DEF Transfer
<1> QED  BY <1>2, <1>4, <1>8, <1>9, <1>10 DEF taken

(* A step that neither hears the alarms nor tells of them changes at most  *)
(* what the BSI is about to report.                                        *)
LEMMA QuietLink ==
  ASSUME LinkInv, tp' = tp, bsi' \in Bsi, bsi'.mode = bsi.mode, bsi'.next = bsi.next,
         bsi'.out = bsi.out, bsi'.whole = bsi.whole
  PROVE  LinkInv'
  BY DEF LinkInv, NextInv, TpInv, SegmentOf, BlockOf, ChunkOf

LEMMA BrokenLink ==
  ASSUME tp' \in Transfer, bsi' \in Bsi, ~bsi'.whole, NextInv' PROVE LinkInv'
  BY DEF LinkInv, TpInv

LEMMA QuietRouter ==
  ASSUME RouterInv, UNCHANGED <<alerts, last, scan, query, hu>> PROVE RouterInv'
  BY DEF RouterInv, ScanInv, LiveInv, ListIsCurrent, PopupFollows

(* A list sent again is the list.                                          *)
LEMMA ListedAgain ==
  ASSUME RouterInv, UNCHANGED <<alerts, last, scan>>, query' \in Query0,
         hu' \in {hu, Listing(hu, alerts.items)}
  PROVE  RouterInv'
<1> USE DEF RouterInv
<1>1. alerts.items \in SUBSET Alarms  BY DEF AlertsType
<1>2. CASE hu' = hu  BY <1>2 DEF ScanInv, LiveInv, ListIsCurrent, PopupFollows
<1>3. CASE hu' = Listing(hu, alerts.items)
  <2>1. /\ hu' \in Hu /\ hu'.list = alerts.items
        /\ hu'.popup = hu.popup /\ hu'.told = hu.told
        /\ hu'.toast = hu.toast /\ hu'.over = hu.over
    BY <1>1, <1>3, ListingFacts
  <2> QED  BY <2>1 DEF ScanInv, LiveInv, ListIsCurrent, PopupFollows
<1> QED  BY <1>2, <1>3

LEMMA InvInit == Init => Inv
<1> SUFFICES ASSUME Init PROVE Inv  OBVIOUS
<1>1. NoAlert \in Live /\ ~NoAlert.active  BY NoAlertType DEF NoAlert
<1>2. /\ tp = NewTransfer /\ acts = 0 /\ asleep = FALSE
      /\ alerts = NewAlerts /\ last = NoAlert
      /\ scan = [done |-> FALSE, prev |-> {}]
      /\ query = [pending |-> FALSE, ticks |-> 0]
      /\ hu = [NewHu EXCEPT !.told = TRUE]
  BY DEF Init
<1>3. NewTransfer \in Transfer  BY DEF NewTransfer, Transfer
<1>4. acts \in 0 .. MaxActs  BY <1>2, JournalAssumption
<1>5. bsi \in Bsi /\ NextInv /\ ~bsi.whole
  <2>1. PICK mode \in {"blocks", "isotp"}, talks \in BOOLEAN :
          bsi = [on |-> {}, out |-> {}, next |-> First(mode), whole |-> FALSE,
                 mode |-> mode, talks |-> talks]
    BY DEF Init
  <2>2. First(mode) \in 0 .. 3 /\ (mode = "blocks" => First(mode) # 0)  BY DEF First
  <2> QED  BY <2>1, <2>2 DEF Bsi, NextInv
<1>6. query \in Query0 /\ scan \in Scan /\ hu \in Hu
  <2>1. NewHu \in Hu  BY <1>1 DEF NewHu, Hu
  <2>2. hu \in Hu  BY <1>2, <2>1 DEF Hu
  <2> QED  BY <1>2, <2>2, JournalAssumption DEF Query0, Scan
<1>7. alerts \in AlertsType /\ alerts.live = NoAlert /\ alerts.items = {}
  BY <1>1, <1>2 DEF NewAlerts, AlertsType
<1>8. RouterInv
  <2>1. /\ NewHu.listed = FALSE /\ NewHu.popup = NoAlert /\ NewHu.toast = FALSE
        /\ NewHu \in Hu
    BY <1>1 DEF NewHu, Hu
  <2>2. hu.listed = FALSE /\ hu.popup = NoAlert /\ hu.toast = FALSE
    BY <1>2, <2>1 DEF Hu
  <2> QED
    BY <1>1, <1>2, <1>6, <2>2, <1>7 DEF RouterInv, ScanInv, LiveInv, ListIsCurrent, PopupFollows
<1>9. LinkInv  BY <1>2, <1>3, <1>5 DEF LinkInv, TpInv
<1> QED  BY <1>2, <1>4, <1>8, <1>9, Parts

LEMMA InvStep == Inv /\ [Next]_vars => Inv'
<1> SUFFICES ASSUME Inv, [Next]_vars PROVE Inv'  OBVIOUS
<1>1. /\ RouterInv /\ LinkInv /\ TypeOK /\ NextInv /\ asleep \in BOOLEAN /\ acts \in 0 .. MaxActs
  BY Parts DEF Inv
<1>2. bsi \in Bsi /\ tp \in Transfer  BY <1>1 DEF LinkInv
<1>3. Act => acts' \in 0 .. MaxActs  BY <1>1, JournalAssumption DEF Act
<1>4. ASSUME RouterInv', LinkInv', asleep' \in BOOLEAN, acts' \in 0 .. MaxActs PROVE Inv'
  BY <1>4, Parts DEF Inv, RouterInv, LinkInv, TypeOK, Transfer, Bsi, Hu, AlertsType, Query0, Scan
<1>5. ASSUME NEW bit \in Bits, AlarmChanges(bit) PROVE Inv'
  <2> DEFINE o == IF bit \in bsi.on THEN bsi.on \ {bit} ELSE bsi.on \cup {bit}
  <2>1. bsi' = [bsi EXCEPT !.on = o]  BY <1>5 DEF AlarmChanges
  <2>2. o \in SUBSET Bits  BY <1>2 DEF Bsi
  <2> HIDE DEF o
  <2>3. /\ bsi' \in Bsi /\ bsi'.mode = bsi.mode /\ bsi'.next = bsi.next
        /\ bsi'.out = bsi.out /\ bsi'.whole = bsi.whole
    BY <1>2, <2>1, <2>2 DEF Bsi
  <2>4. LinkInv'  BY <1>1, <1>5, <2>3, QuietLink DEF AlarmChanges, box
  <2>5. RouterInv'  BY <1>1, <1>5, QuietRouter DEF AlarmChanges, box
  <2> QED  BY <1>1, <1>3, <1>4, <1>5, <2>4, <2>5 DEF AlarmChanges, box
<1>6. CASE LoseSegment
  <2>1. bsi' \in Bsi /\ ~bsi'.whole /\ NextInv'
    BY <1>1, <1>6, SentType DEF LoseSegment, NextInv
  <2>2. LinkInv'  BY <1>2, <1>6, <2>1, BrokenLink DEF LoseSegment, box
  <2>3. RouterInv'  BY <1>1, <1>6, QuietRouter DEF LoseSegment, box
  <2> QED  BY <1>1, <1>3, <1>4, <1>6, <2>2, <2>3 DEF LoseSegment, box
<1>7. CASE Frame120
  <2> DEFINE taken == Take(tp, bsi.mode, bsi.next, Journal)
  <2>1. LinkInv' /\ taken.tp.buffer \in SUBSET Bits  BY <1>1, <1>7, SegmentStep
  <2>2. RouterInv'
    <3>1. CASE taken.complete
      <4>1. RouteJournal(taken.tp.buffer)  BY <1>7, <3>1 DEF Frame120
      <4> HIDE DEF taken
      <4> QED  BY <1>1, <2>1, <4>1, RouteJournalStep
    <3>2. CASE ~taken.complete
      <4>1. UNCHANGED <<alerts, last, scan, query, hu>>  BY <1>7, <3>2 DEF Frame120
      <4> QED  BY <1>1, <4>1, QuietRouter
    <3> QED  BY <3>1, <3>2
  <2> QED  BY <1>1, <1>4, <1>7, <2>1, <2>2 DEF Frame120
<1>8. ASSUME NEW m \in Messages, Frame1A1(m) PROVE Inv'
  <2>1. alerts.live \in Live  BY <1>1 DEF RouterInv, AlertsType
  <2>2. Decode(m, alerts.live) \in Live  BY <2>1, DecodeType
  <2>3. RouterInv'  BY <1>1, <1>8, <2>2, RouteLiveStep DEF Frame1A1
  <2>4. LinkInv'  BY <1>1, <1>2, <1>8, QuietLink DEF Frame1A1
  <2> QED  BY <1>1, <1>4, <1>8, <2>3, <2>4 DEF Frame1A1
<1>9. CASE Tick
  <2>1. query' \in Query0
    BY <1>1, <1>9, JournalAssumption DEF Tick, RouterInv, Query0
  <2>2. RouterInv'  BY <1>1, <1>9, <2>1, ListedAgain DEF Tick
  <2>3. LinkInv'  BY <1>1, <1>2, <1>9, QuietLink DEF Tick
  <2> QED  BY <1>1, <1>4, <1>9, <2>2, <2>3 DEF Tick
<1>10. CASE Query
  <2>1. query' \in Query0  BY <1>10, JournalAssumption DEF Query, Query0
  <2>2. RouterInv'  BY <1>1, <1>10, <2>1, ListedAgain DEF Query
  <2>3. CASE bsi' = bsi
    <3>1. LinkInv'  BY <1>1, <1>2, <1>10, <2>3, QuietLink DEF Query
    <3> QED  BY <1>1, <1>3, <1>4, <1>10, <2>2, <3>1 DEF Query
  <2>4. CASE bsi' = StartedOver
    <3>1. /\ bsi' \in Bsi /\ ~bsi'.whole
          /\ bsi'.mode = bsi.mode /\ bsi'.next = First(bsi.mode)
      BY <1>1, <2>4, StartedType
    <3>2. NextInv'  BY <3>1 DEF NextInv, First
    <3>3. LinkInv'  BY <1>2, <1>10, <3>1, <3>2, BrokenLink DEF Query
    <3> QED  BY <1>1, <1>3, <1>4, <1>10, <2>2, <3>3 DEF Query
  <2> QED  BY <1>10, <2>3, <2>4 DEF Query
<1>11. CASE FallAsleep \/ Wake \/ UNCHANGED vars
  <2>1. /\ asleep' \in BOOLEAN /\ acts' = acts
        /\ UNCHANGED <<tp, alerts, last, scan, query, bsi, hu>>
    BY <1>1, <1>11 DEF FallAsleep, Wake, vars, box
  <2>2. RouterInv'  BY <1>1, <2>1, QuietRouter
  <2>3. LinkInv'  BY <1>1, <1>2, <2>1, QuietLink
  <2> QED  BY <1>1, <1>4, <2>1, <2>2, <2>3
<1>12. CASE Handshake \/ BoxRestarts
  <2>1. bsi' = [bsi EXCEPT !.whole = FALSE] /\ tp' = NewTransfer /\ Act
        /\ asleep' \in BOOLEAN
    BY <1>1, <1>12 DEF Handshake, BoxRestarts
  <2>2. bsi' \in Bsi /\ ~bsi'.whole /\ NextInv'  BY <1>1, <1>2, <2>1 DEF Bsi, NextInv
  <2>3. tp' \in Transfer  BY <2>1 DEF NewTransfer, Transfer
  <2>4. LinkInv'  BY <2>2, <2>3, BrokenLink
  <2>5. RouterInv'
    <3>1. CASE Handshake
      <4>1. UNCHANGED <<alerts, last, scan, query, hu>>  BY <3>1 DEF Handshake
      <4> QED  BY <1>1, <4>1, QuietRouter
    <3>2. CASE BoxRestarts
      <4> DEFINE a == [hu EXCEPT !.listed = FALSE]
      <4>1. hu' = [a EXCEPT !.told = FALSE]  BY <3>2 DEF BoxRestarts
      <4>2. a \in Hu /\ ~a.listed  BY <1>1 DEF RouterInv, Hu
      <4> HIDE DEF a
      <4>3. hu' \in Hu /\ ~hu'.listed /\ ~hu'.told  BY <4>1, <4>2 DEF Hu
      <4>4. /\ alerts' \in AlertsType /\ last' \in Live /\ scan' \in Scan /\ query' \in Query0
            /\ last' = alerts'.live /\ ~scan'.done
        BY <3>2, NoAlertType, JournalAssumption
           DEF BoxRestarts, NewAlerts, AlertsType, Scan, Query0
      <4> QED
        BY <4>3, <4>4 DEF RouterInv, ScanInv, LiveInv, ListIsCurrent, PopupFollows
    <3> QED  BY <1>12, <3>1, <3>2
  <2> QED  BY <1>3, <1>4, <2>1, <2>4, <2>5
<1>13. CASE HuRestarts
  <2>1. hu' \in Hu /\ ~hu'.listed /\ ~hu'.told
    BY <1>13, NoAlertType DEF HuRestarts, NewHu, Hu
  <2>2. UNCHANGED <<tp, alerts, last, scan, query, asleep, bsi>> /\ Act
    BY <1>13 DEF HuRestarts, box
  <2>3. RouterInv'
    BY <1>1, <2>1, <2>2 DEF RouterInv, ScanInv, LiveInv, ListIsCurrent, PopupFollows
  <2>4. LinkInv'  BY <1>1, <1>2, <2>2, QuietLink
  <2> QED  BY <1>1, <1>3, <1>4, <2>2, <2>3, <2>4
<1> QED
  BY <1>5, <1>6, <1>7, <1>8, <1>9, <1>10, <1>11, <1>12, <1>13 DEF Next

-----------------------------------------------------------------------------
(* The journal, the display, the query and the BSI keep their types.       *)
THEOREM TypeCorrect == Spec => []TypeOK
<1>1. Inv => TypeOK  BY DEF Inv
<1> QED  BY <1>1, InvInit, InvStep, PTL DEF Spec

(* A head unit with a list has the one the box decoded last: a list the    *)
(* router keeps to itself is equal to the one before it.                   *)
THEOREM ListFollows == Spec => []ListIsCurrent
<1>1. Inv => ListIsCurrent  BY DEF Inv
<1> QED  BY <1>1, InvInit, InvStep, PTL DEF Spec

(* The popup is the alarm on display, or a toast of the journal over what  *)
(* was displayed when it came: the router compares with what it told last, *)
(* which is the display whenever it is lit.                                *)
THEOREM PopupIsDisplay == Spec => []PopupFollows
<1>1. Inv => PopupFollows  BY DEF Inv
<1> QED  BY <1>1, InvInit, InvStep, PTL DEF Spec

(* A journal without a gap becomes the list, in both transports and        *)
(* whatever the transfer held before its first segment.                    *)
THEOREM WholeJournalsCount == Spec => WholeJournalTaken
<1> DEFINE Taken == bsi.next = 3 /\ bsi'.next # 3 /\ bsi'.whole => alerts'.items = Extract(bsi.out)
<1>1. Inv /\ [Next]_vars => [Taken]_vars
  <2> SUFFICES ASSUME Inv, Next, bsi.next = 3, bsi'.next # 3, bsi'.whole
               PROVE  alerts'.items = Extract(bsi.out)
    OBVIOUS
  <2>1. RouterInv /\ LinkInv /\ TypeOK /\ NextInv /\ bsi \in Bsi
    BY Parts DEF Inv, LinkInv
  <2>2. CASE Frame120
    <3> DEFINE taken == Take(tp, bsi.mode, bsi.next, Journal)
    <3>1. bsi.whole
      <4>1. bsi'.whole = (bsi.whole \/ Starting)  BY <2>1, <2>2, SentType DEF Frame120
      <4>2. ~Starting  BY DEF Starting, First
      <4> QED  BY <4>1, <4>2
    <3>2. taken.complete /\ taken.tp.buffer = bsi.out
      BY <2>1, <2>2, <3>1, SegmentStep
    <3>3. RouteJournal(taken.tp.buffer)  BY <2>2, <3>2 DEF Frame120
    <3> HIDE DEF taken
    <3>4. RouteJournal(bsi.out)  BY <3>2, <3>3
    <3>5. bsi.out \in SUBSET Bits  BY <2>1 DEF Bsi
    <3> QED  BY <2>1, <3>4, <3>5, RouteJournalStep
  <2>3. CASE LoseSegment
    BY <2>1, <2>3, SentType DEF LoseSegment
  <2>4. CASE Query
    <3>1. bsi' = bsi \/ ~bsi'.whole  BY <2>1, <2>4, StartedType DEF Query
    <3> QED  BY <3>1
  <2>5. CASE Handshake \/ BoxRestarts
    BY <2>1, <2>5 DEF Handshake, BoxRestarts, Bsi
  <2>6. ASSUME NEW bit \in Bits, AlarmChanges(bit) PROVE bsi'.next = bsi.next
    BY <2>1, <2>6 DEF AlarmChanges, Bsi
  <2>7. CASE (\E m \in Messages : Frame1A1(m)) \/ Tick \/ FallAsleep \/ Wake \/ HuRestarts
    BY <2>7 DEF Frame1A1, Tick, FallAsleep, Wake, HuRestarts
  <2> QED  BY <2>2, <2>3, <2>4, <2>5, <2>6, <2>7 DEF Next
<1> QED  BY <1>1, InvInit, InvStep, PTL DEF Spec, WholeJournalTaken
=============================================================================
