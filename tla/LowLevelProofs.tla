--------------------------- MODULE LowLevelProofs ---------------------------
(***************************************************************************)
(* What lies below frames and commands: the receive ring and the firmware  *)
(* update.  Of RingBuffer, for every capacity and counter width: the       *)
(* types, the bound on the counters, the absence of a race on the slots,   *)
(* and that it implements LossyFifo.  Of Bootloader, for every size of     *)
(* flash, page, image and buffer and every number of faults: that what was *)
(* acknowledged is written, and that success means the whole image.        *)
(***************************************************************************)
EXTENDS RingBuffer, Bootloader, TLAPS

(***************************************************************************)
(* The receive ring.                                                       *)
(***************************************************************************)

(* A push in progress works on the current head, of a ring with room for   *)
(* it: only the main loop moves the tail meanwhile, and only forwards.     *)
PushInv == pcP # "idle" => pHead = head /\ Count(head, tail) < Capacity

(* A pop in progress works on the current tail, of a ring that is not      *)
(* empty: only the interrupt moves the head meanwhile.                     *)
PopInv == pcC # "idle" => cTail = tail /\ head # tail /\ ~resetting

(* While the ring is re-initialised the head stays behind the old tail, or *)
(* counts from the new one: a push either is refused against the old tail  *)
(* or leaves no more elements than the new one allows.                     *)
ResetInv ==
  resetting => /\ tail = 0 \/ head < tail
               /\ head = 0 \/ Count(head, tail) <= Capacity

IInv == TypeOK /\ BoundedCount /\ PushInv /\ PopInv /\ ResetInv

-----------------------------------------------------------------------------
(* The masked index of ring_buffer.c always names a slot.                  *)
LEMMA IndexIsSlot == \A n \in 0 .. Wrap - 1 : Index(n) \in 0 .. Capacity - 1
  BY RingAssumption DEF Index

(* A position is a whole number of turns round the ring plus its slot.     *)
LEMMA IndexSplits ==
  ASSUME NEW a \in Nat
  PROVE  \E q \in Int : /\ Capacity * q \in Int
                        /\ a = Capacity * q + Index(a)
                        /\ Index(a) \in 0 .. Capacity - 1
<1>1. a = Capacity * (a \div Capacity) + Index(a)
  BY RingAssumption DEF Index
<1>2. a \div Capacity \in Int /\ Index(a) \in 0 .. Capacity - 1
  BY RingAssumption DEF Index
<1>3. Capacity * (a \div Capacity) \in Int
  BY <1>2, RingAssumption
<1>. QED BY <1>1, <1>2, <1>3

(* A multiple of the capacity is no distance between two slots.            *)
LEMMA NoMultipleBetween ==
  ASSUME NEW c \in Nat \ {0}, NEW x \in Int, NEW y \in Int,
         c * x - c * y > 0, c * x - c * y < c
  PROVE  FALSE
<1>1. c * (x - y) = c * x - c * y
  OBVIOUS
<1>2. CASE x - y <= 0
  <2>1. c * (x - y) <= 0
    BY <1>2
  <2>. QED BY <1>1, <2>1
<1>3. CASE x - y >= 1
  <2>1. c * (x - y) >= c
    BY <1>3
  <2>. QED BY <1>1, <2>1
<1>. QED BY <1>2, <1>3

(* The slot is determined by the position, however its turns are counted.  *)
LEMMA SlotIsUnique ==
  ASSUME NEW c \in Nat \ {0}, NEW x \in Int, NEW y \in Int,
         NEW r \in 0 .. c - 1, NEW s \in 0 .. c - 1, c * x + r = c * y + s
  PROVE  r = s
<1>1. c * x \in Int /\ c * y \in Int
  OBVIOUS
<1>2. c * x - c * y = s - r
  BY <1>1
<1>3. CASE r < s
  BY <1>2, <1>3, NoMultipleBetween
<1>4. CASE s < r
  <2>1. c * y - c * x > 0 /\ c * y - c * x < c
    BY <1>1, <1>2, <1>4
  <2>. QED BY <2>1, NoMultipleBetween
<1>. QED BY <1>3, <1>4

(* Two positions less than a ring apart, the counters not having wrapped   *)
(* between them, have different slots.                                     *)
LEMMA NearIndicesDiffer ==
  ASSUME NEW a \in Nat, NEW b \in Nat, b < a, a - b < Capacity
  PROVE  Index(a) # Index(b)
<1>1. PICK qa \in Int : Capacity * qa \in Int /\ a = Capacity * qa + Index(a)
                       /\ Index(a) \in 0 .. Capacity - 1
  BY IndexSplits
<1>2. PICK qb \in Int : Capacity * qb \in Int /\ b = Capacity * qb + Index(b)
                       /\ Index(b) \in 0 .. Capacity - 1
  BY IndexSplits
<1>3. SUFFICES ASSUME Index(a) = Index(b) PROVE FALSE
  OBVIOUS
<1>4. Capacity * qa - Capacity * qb = a - b
  <2>1. PICK r \in 0 .. Capacity - 1, m \in Int, n \in Int :
             /\ a = m + r /\ m = Capacity * qa
             /\ b = n + r /\ n = Capacity * qb
    BY <1>1, <1>2, <1>3
  <2>2. m - n = a - b
    BY <2>1, RingAssumption
  <2>. QED BY <2>1, <2>2
<1>. QED BY <1>4, NoMultipleBetween, RingAssumption

(* Positions a whole number of turns apart share a slot.                   *)
LEMMA WholeTurnsShareSlot ==
  ASSUME NEW a \in Nat, NEW b \in Nat, NEW k \in Int, b = a + Capacity * k
  PROVE  Index(b) = Index(a)
<1>1. PICK qa \in Int : Capacity * qa \in Int /\ a = Capacity * qa + Index(a)
                       /\ Index(a) \in 0 .. Capacity - 1
  BY IndexSplits
<1>2. PICK qb \in Int : Capacity * qb \in Int /\ b = Capacity * qb + Index(b)
                       /\ Index(b) \in 0 .. Capacity - 1
  BY IndexSplits
<1>3. PICK q \in Int : Capacity * q = Capacity * qa + Capacity * k
  <2>1. Capacity * (qa + k) = Capacity * qa + Capacity * k
    BY RingAssumption
  <2>. QED BY <2>1
<1>4. b = Capacity * q + Index(a)
  <2>1. Capacity * k \in Int
    BY RingAssumption
  <2>. QED BY <1>1, <1>3, <2>1, RingAssumption
<1>5. Capacity * q + Index(a) = Capacity * qb + Index(b)
  BY <1>2, <1>4
<1>. QED BY <1>1, <1>2, <1>5, SlotIsUnique, RingAssumption

(* The counter width is a multiple of the capacity, so the position after  *)
(* the wrap-around continues in the next slot.                             *)
LEMMA WrapKeepsIndex ==
  ASSUME NEW a \in Nat, NEW b \in Nat, b = a + Wrap
  PROVE  Index(b) = Index(a)
<1>1. PICK k \in Int : Wrap = Capacity * k
  BY RingAssumption
<1>. QED BY <1>1, WholeTurnsShareSlot

(* Counter values that bracket fewer elements than the ring holds, and at  *)
(* least one, are slots apart.                                             *)
LEMMA CountSeparatesSlots ==
  ASSUME NEW h \in 0 .. Wrap - 1, NEW t \in 0 .. Wrap - 1,
         h # t, Count(h, t) < Capacity
  PROVE  Index(h) # Index(t)
<1>1. CASE h >= t
  BY <1>1, NearIndicesDiffer, RingAssumption DEF Count
<1>2. CASE h < t
  <2>1. PICK n \in Nat : n = h + Wrap /\ t < n /\ n - t < Capacity
    BY <1>2, RingAssumption DEF Count
  <2>2. Index(n) # Index(t)
    BY <2>1, NearIndicesDiffer, RingAssumption
  <2>. QED BY <2>1, <2>2, WrapKeepsIndex, RingAssumption
<1>. QED BY <1>1, <1>2, RingAssumption

-----------------------------------------------------------------------------
(* Every step preserves the invariant, the two halves of a                 *)
(* re-initialisation of the live ring included.                            *)
LEMMA InitIInv == Init => IInv
<1> SUFFICES ASSUME Init PROVE IInv
  OBVIOUS
<1>1. TypeOK
  <2>1. slots \in [0 .. Capacity - 1 -> Data \cup {NoData, Torn}]
    BY DEF Init
  <2>2. 0 \in 0 .. Wrap - 1
    BY RingAssumption
  <2>. QED BY <2>1, <2>2 DEF Init, TypeOK
<1>2. BoundedCount
  BY RingAssumption DEF Init, BoundedCount, Count
<1>3. PushInv /\ PopInv /\ ResetInv
  BY DEF Init, PushInv, PopInv, ResetInv
<1>. QED BY <1>1, <1>2, <1>3 DEF IInv

LEMMA NextIInv == IInv /\ [Next]_vars => IInv'
<1> SUFFICES ASSUME IInv, [Next]_vars PROVE IInv'
  OBVIOUS
<1> USE RingAssumption DEF IInv
<1>1. CASE PushRefused
  BY <1>1 DEF PushRefused, consumerVars, TypeOK, BoundedCount, PushInv, PopInv, ResetInv
<1>2. ASSUME NEW d \in Data, PushStart(d) PROVE IInv'
  <2>1. TypeOK'
    BY <1>2 DEF PushStart, consumerVars, TypeOK
  <2>2. PushInv'
    BY <1>2 DEF PushStart, consumerVars, TypeOK, PushInv, IsFull, Count
  <2>. QED
    BY <1>2, <2>1, <2>2 DEF PushStart, consumerVars, BoundedCount, PopInv, ResetInv
<1>3. CASE PushTear
  BY <1>3 DEF PushTear, consumerVars, TypeOK, BoundedCount, PushInv, PopInv, ResetInv
<1>4. CASE PushFill
  BY <1>4 DEF PushFill, consumerVars, TypeOK, BoundedCount, PushInv, PopInv, ResetInv
<1>5. CASE PushPublish
  <2>1. TypeOK'
    BY <1>5 DEF PushPublish, consumerVars, TypeOK, Succ
  <2>2. BoundedCount' /\ PopInv' /\ ResetInv'
    BY <1>5 DEF PushPublish, consumerVars, TypeOK, PushInv, BoundedCount, PopInv, ResetInv,
                Succ, Count
  <2>. QED
    BY <1>5, <2>1, <2>2 DEF PushPublish, PushInv
<1>6. CASE PopStart
  BY <1>6 DEF PopStart, producerVars, IsEmpty, TypeOK, BoundedCount, PushInv, PopInv, ResetInv
<1>7. CASE PopCopy
  <2>1. slots[Index(cTail)] \in Data \cup {NoData, Torn}
    BY IndexIsSlot DEF TypeOK
  <2>2. TypeOK'
    BY <1>7, <2>1 DEF PopCopy, producerVars, TypeOK
  <2>. QED
    BY <1>7, <2>2 DEF PopCopy, producerVars, BoundedCount, PushInv, PopInv, ResetInv
<1>8. CASE PopAdvance
  <2>1. TypeOK'
    BY <1>8 DEF PopAdvance, producerVars, TypeOK, Succ
  <2>2. BoundedCount' /\ PushInv'
    BY <1>8 DEF PopAdvance, producerVars, TypeOK, BoundedCount, PushInv, PopInv, Succ, Count
  <2>. QED
    BY <1>8, <2>1, <2>2 DEF PopAdvance, producerVars, PopInv, ResetInv
<1>9. CASE ResetHead
  BY <1>9 DEF ResetHead, producerVars, consumerVars, TypeOK, BoundedCount, PushInv, PopInv,
              ResetInv
<1>10. CASE ResetTail
  <2>1. TypeOK'
    <3>1. 0 \in 0 .. Wrap - 1
      BY RingAssumption
    <3>2. resetting' = FALSE /\ tail' = 0 /\ head' = head /\ slots' = slots
      BY <1>10 DEF ResetTail
    <3>3. UNCHANGED <<pcP, pHead, pItem, verdict, pcC, cTail, cItem, out>>
      BY <1>10 DEF ResetTail, producerVars, consumerVars
    <3>. QED BY <3>1, <3>2, <3>3 DEF TypeOK
  <2>2. head <= Capacity
    BY <1>10 DEF ResetTail, TypeOK, ResetInv, Count
  <2>3. BoundedCount'
    BY <1>10, <2>2 DEF ResetTail, TypeOK, BoundedCount, Count
  <2>4. pcP' = "idle" /\ pcC' = "idle" /\ ~resetting'
    <3>1. resetting /\ pcP = "idle" /\ ~resetting'
      BY <1>10 DEF ResetTail
    <3>2. pcP' = pcP /\ pcC' = pcC
      BY <1>10 DEF ResetTail, producerVars, consumerVars
    <3>. QED BY <3>1, <3>2 DEF PopInv
  <2>. QED
    BY <2>1, <2>3, <2>4 DEF PushInv, PopInv, ResetInv
<1>11. CASE UNCHANGED vars
  BY <1>11 DEF vars, producerVars, consumerVars, TypeOK, BoundedCount, PushInv, PopInv, ResetInv
<1>. QED
  BY <1>1, <1>2, <1>3, <1>4, <1>5, <1>6, <1>7, <1>8, <1>9, <1>10, <1>11
     DEF Next, Push, Pop

-----------------------------------------------------------------------------
(* The interrupt and the main loop never corrupt each other's counters:    *)
(* every variable of ring_buffer.c keeps its type.                         *)
THEOREM TypeCorrect == Spec => []TypeOK
<1>1. IInv => TypeOK
  BY DEF IInv
<1>. QED BY InitIInv, NextIInv, <1>1, PTL DEF Spec

(* Whatever the interleaving of interrupt and main loop, for every         *)
(* capacity and counter width, the ring never holds more than it has slots.*)
THEOREM CountBounded == Spec => []BoundedCount
<1>1. IInv => BoundedCount
  BY DEF IInv
<1>. QED BY InitIInv, NextIInv, <1>1, PTL DEF Spec

(* The interrupt never writes the slot the main loop copies out of.        *)
THEOREM RaceFree == Spec => []NoSlotRace
<1>1. IInv => NoSlotRace
  <2>1. SUFFICES ASSUME IInv, pcP \in {"copy", "fill"}, pcC = "copy"
                 PROVE  Index(pHead) # Index(cTail)
    BY DEF NoSlotRace
  <2>2. pHead = head /\ cTail = tail /\ head # tail /\ Count(head, tail) < Capacity
    BY <2>1 DEF IInv, PushInv, PopInv
  <2>. QED
    BY <2>1, <2>2, CountSeparatesSlots DEF IInv, TypeOK
<1>. QED BY InitIInv, NextIInv, <1>1, PTL DEF Spec

-----------------------------------------------------------------------------
(* What the two sides hold in their registers: the interrupt has copied    *)
(* the element into the slot at the head before it publishes, and nothing  *)
(* touches the slot at the tail between the copy out of it and the advance.*)
HeldInv ==
  /\ pcP # "idle" => pItem \in Data
  /\ pcP = "publish" => slots[Index(head)] = pItem
  /\ pcC = "advance" => cItem = slots[Index(tail)]

QueueInv == IInv /\ HeldInv

(* The position Count elements after the tail has the slot of the head,    *)
(* also when the counters have wrapped in between.                         *)
LEMMA CountReachesHead ==
  ASSUME NEW h \in 0 .. Wrap - 1, NEW t \in 0 .. Wrap - 1
  PROVE  /\ Count(h, t) \in Nat
         /\ Index(t + Count(h, t)) = Index(h)
<1>1. CASE h >= t
  BY <1>1, RingAssumption DEF Count
<1>2. CASE h < t
  <2>1. Count(h, t) \in Nat /\ t + Count(h, t) = h + Wrap /\ t + Count(h, t) \in Nat
    BY <1>2, RingAssumption DEF Count
  <2>. QED BY <2>1, WrapKeepsIndex
<1>. QED BY <1>1, <1>2, RingAssumption

(* A push fills a slot that holds no pending element.                      *)
LEMMA PushOutsidePending ==
  ASSUME NEW h \in 0 .. Wrap - 1, NEW t \in 0 .. Wrap - 1, Count(h, t) < Capacity,
         NEW i \in 1 .. Count(h, t)
  PROVE  Index(t + i - 1) # Index(h)
<1>1. PICK n \in Nat : n = t + Count(h, t)
  BY CountReachesHead, RingAssumption
<1>2. t + i - 1 \in Nat /\ t + i - 1 < n /\ n - (t + i - 1) < Capacity
  BY <1>1, CountReachesHead, RingAssumption
<1>3. Index(n) # Index(t + i - 1)
  BY <1>1, <1>2, NearIndicesDiffer
<1>. QED BY <1>1, <1>3, CountReachesHead

(* Publishing one element makes the ring one element longer.               *)
LEMMA CountAfterPush ==
  ASSUME NEW h \in 0 .. Wrap - 1, NEW t \in 0 .. Wrap - 1, Count(h, t) < Capacity
  PROVE  Count(Succ(h), t) = Count(h, t) + 1
BY RingAssumption DEF Count, Succ

(* Advancing over one element makes it one shorter, and the slots of the   *)
(* others keep their order.                                                *)
LEMMA CountAfterPop ==
  ASSUME NEW h \in 0 .. Wrap - 1, NEW t \in 0 .. Wrap - 1, h # t
  PROVE  Count(h, Succ(t)) = Count(h, t) - 1
BY RingAssumption DEF Count, Succ

LEMMA SuccKeepsOrder ==
  ASSUME NEW t \in 0 .. Wrap - 1, NEW i \in Nat
  PROVE  Index(Succ(t) + i) = Index(t + 1 + i)
<1>1. CASE t + 1 = Wrap
  <2>1. t + 1 + i = i + Wrap /\ Succ(t) + i = i
    BY <1>1, RingAssumption DEF Succ
  <2>2. t + 1 + i \in Nat
    BY RingAssumption
  <2>. QED BY <2>1, <2>2, WrapKeepsIndex
<1>2. CASE t + 1 # Wrap
  BY <1>2 DEF Succ
<1>. QED BY <1>1, <1>2

-----------------------------------------------------------------------------
(* Sequences given by their elements.                                      *)
LEMMA SeqOfElements ==
  ASSUME NEW S, NEW m \in Nat, NEW s \in [1 .. m -> S]
  PROVE  s \in Seq(S) /\ Len(s) = m
OBVIOUS

LEMMA SameElements ==
  ASSUME NEW S, NEW s \in Seq(S), NEW t \in Seq(S), Len(s) = Len(t),
         \A i \in 1 .. Len(s) : s[i] = t[i]
  PROVE  s = t
OBVIOUS

LEMMA LongerByOne ==
  ASSUME NEW S, NEW m \in Nat, NEW s \in [1 .. m -> S], NEW e \in S,
         NEW t \in [1 .. m + 1 -> S], t[m + 1] = e, \A i \in 1 .. m : t[i] = s[i]
  PROVE  t = Append(s, e)
<1>1. s \in Seq(S) /\ Len(s) = m
  BY SeqOfElements
<1>2. t \in Seq(S) /\ Len(t) = m + 1
  BY SeqOfElements
<1>3. /\ Append(s, e) \in Seq(S) /\ Len(Append(s, e)) = m + 1
      /\ Append(s, e)[m + 1] = e
      /\ \A i \in 1 .. m : Append(s, e)[i] = s[i]
  BY <1>1
<1>4. \A i \in 1 .. m + 1 : t[i] = Append(s, e)[i]
  BY <1>3
<1>. QED BY <1>2, <1>3, <1>4, SameElements

LEMMA ShorterByOne ==
  ASSUME NEW S, NEW m \in Nat \ {0}, NEW s \in [1 .. m -> S],
         NEW t \in [1 .. m - 1 -> S], \A i \in 1 .. m - 1 : t[i] = s[i + 1]
  PROVE  s # <<>> /\ Head(s) = s[1] /\ t = Tail(s)
<1>1. s \in Seq(S) /\ Len(s) = m
  BY SeqOfElements
<1>2. t \in Seq(S) /\ Len(t) = m - 1
  BY SeqOfElements
<1>3. /\ Tail(s) \in Seq(S) /\ Len(Tail(s)) = m - 1
      /\ Head(s) = s[1] /\ s # <<>>
      /\ \A i \in 1 .. m - 1 : Tail(s)[i] = s[i + 1]
  BY <1>1
<1>. QED BY <1>2, <1>3, SameElements

-----------------------------------------------------------------------------
(* The pending elements in one form: as many as lie between the head and   *)
(* the position the main loop pops from next, which is 0 as soon as a      *)
(* re-initialisation has begun.                                            *)
Element == Data \cup {NoData, Torn}
Oldest == IF resetting THEN 0 ELSE tail
Waiting == Count(head, Oldest)

PendingShape ==
  /\ Oldest \in 0 .. Wrap - 1 /\ Waiting \in Nat /\ Waiting <= Capacity
  /\ Pending = [i \in 1 .. Waiting |-> slots[Index(Oldest + i - 1)]]
  /\ Pending \in [1 .. Waiting -> Element]
  /\ Len(Pending) = Waiting

LEMMA PendingIs == IInv => PendingShape
<1> SUFFICES ASSUME IInv PROVE PendingShape
  OBVIOUS
<1> USE RingAssumption
<1>1. TypeOK
  BY DEF IInv
<1>2. Oldest \in 0 .. Wrap - 1
  BY <1>1 DEF TypeOK, Oldest
<1>3. Waiting \in Nat
  BY <1>1, <1>2, CountReachesHead DEF TypeOK, Waiting
<1>4. Waiting <= Capacity
  BY <1>1 DEF IInv, BoundedCount, ResetInv, TypeOK, Waiting, Oldest, Count
<1>5. Pending = [i \in 1 .. Waiting |-> slots[Index(Oldest + i - 1)]]
  <2>1. CASE resetting
    <3>1. Waiting = head /\ Oldest = 0
      BY <1>1, <2>1 DEF TypeOK, Waiting, Oldest, Count
    <3>2. \A i \in 1 .. head : 0 + i - 1 = i - 1
      BY <1>1 DEF TypeOK
    <3>. QED BY <2>1, <3>1, <3>2 DEF Pending
  <2>2. CASE ~resetting
    BY <2>2 DEF Pending, Waiting, Oldest
  <2>. QED BY <2>1, <2>2
<1>6. \A i \in 1 .. Waiting : slots[Index(Oldest + i - 1)] \in Element
  <2>1. SUFFICES ASSUME NEW i \in 1 .. Waiting PROVE Index(Oldest + i - 1) \in 0 .. Capacity - 1
    BY <1>1 DEF TypeOK, Element
  <2>. QED BY <1>2, <1>3, IndexSplits
<1>7. Pending \in [1 .. Waiting -> Element]
  BY <1>5, <1>6
<1>. QED BY <1>2, <1>3, <1>4, <1>5, <1>7, SeqOfElements DEF PendingShape

LEMMA PendingStaysSo == IInv' => PendingShape'
  BY PendingIs, PTL

(* While a push is under way there is room for its element.                *)
LEMMA RoomForPush ==
  ASSUME IInv, pcP # "idle"
  PROVE  pHead = head /\ Waiting < Capacity
BY RingAssumption DEF IInv, PushInv, ResetInv, TypeOK, Waiting, Oldest, Count

(* A step that moves neither counter leaves the pending elements, if it    *)
(* writes no slot of theirs.                                               *)
LEMMA PendingKept ==
  ASSUME IInv, IInv', UNCHANGED <<head, tail, resetting>>,
         \A i \in 1 .. Waiting :
           slots'[Index(Oldest + i - 1)] = slots[Index(Oldest + i - 1)]
  PROVE  Pending' = Pending
<1>1. Waiting' = Waiting /\ Oldest' = Oldest
  BY DEF Waiting, Oldest
<1>2. PendingShape /\ PendingShape'
  BY PendingIs, PendingStaysSo
<1>3. \A i \in 1 .. Waiting :
        slots'[Index(Oldest' + i - 1)] = slots[Index(Oldest + i - 1)]
  BY <1>1
<1>. QED BY <1>1, <1>2, <1>3 DEF PendingShape

-----------------------------------------------------------------------------
LEMMA InitQueueInv == Init => QueueInv
  BY InitIInv DEF QueueInv, HeldInv, Init

LEMMA NextQueueInv == QueueInv /\ [Next]_vars => QueueInv'
<1> SUFFICES ASSUME QueueInv, [Next]_vars PROVE QueueInv'
  OBVIOUS
<1> USE DEF QueueInv
<1>1. IInv'
  BY NextIInv
<1>2. SUFFICES HeldInv'
  BY <1>1
<1> USE DEF HeldInv
<1>3. CASE PushRefused
  BY <1>3 DEF PushRefused, consumerVars
<1>4. ASSUME NEW d \in Data, PushStart(d) PROVE HeldInv'
  BY <1>4 DEF PushStart, consumerVars
<1>5. ASSUME pcP # "idle", NEW e, slots' = [slots EXCEPT ![Index(pHead)] = e]
      PROVE  /\ slots'[Index(head)] = e
             /\ pcC # "idle" => slots'[Index(tail)] = slots[Index(tail)]
  <2>1. pHead = head /\ Count(head, tail) < Capacity
    BY <1>5 DEF IInv, PushInv
  <2>2. Index(head) \in 0 .. Capacity - 1 /\ slots \in [0 .. Capacity - 1 -> Data \cup {NoData, Torn}]
    BY IndexIsSlot DEF IInv, TypeOK
  <2>3. pcC # "idle" => Index(head) # Index(tail)
    BY <2>1, CountSeparatesSlots DEF IInv, PopInv, TypeOK
  <2>. QED BY <1>5, <2>1, <2>2, <2>3
<1>6. CASE PushTear
  BY <1>5, <1>6 DEF PushTear, consumerVars
<1>7. CASE PushFill
  BY <1>5, <1>7 DEF PushFill, consumerVars
<1>8. CASE PushPublish
  BY <1>8 DEF PushPublish, consumerVars
<1>9. CASE PopStart
  BY <1>9 DEF PopStart, producerVars
<1>10. CASE PopCopy
  BY <1>10 DEF PopCopy, producerVars, IInv, PopInv
<1>11. CASE PopAdvance
  BY <1>11 DEF PopAdvance, producerVars
<1>12. CASE ResetHead
  BY <1>12 DEF ResetHead, producerVars, consumerVars
<1>13. CASE ResetTail
  BY <1>13 DEF ResetTail, producerVars, consumerVars, IInv, PopInv
<1>14. CASE UNCHANGED vars
  BY <1>14 DEF vars, producerVars, consumerVars
<1>. QED
  BY <1>3, <1>4, <1>6, <1>7, <1>8, <1>9, <1>10, <1>11, <1>12, <1>13, <1>14
     DEF Next, Push, Pop

-----------------------------------------------------------------------------
(* Each step of the ring is a step of the queue, or none.                  *)
LEMMA PushStepsQuietly ==
  ASSUME IInv, IInv', PushTear \/ PushFill
  PROVE  UNCHANGED Fifo!fifoVars
<1>1. pcP # "idle" /\ UNCHANGED <<head, tail, resetting, verdict, out>>
  BY DEF PushTear, PushFill, consumerVars
<1>2. \E e : slots' = [slots EXCEPT ![Index(head)] = e]
  BY <1>1, RoomForPush DEF PushTear, PushFill
<1>3. ASSUME NEW i \in 1 .. Waiting
      PROVE  slots'[Index(Oldest + i - 1)] = slots[Index(Oldest + i - 1)]
  <2>1. Oldest \in 0 .. Wrap - 1 /\ head \in 0 .. Wrap - 1 /\ Count(head, Oldest) < Capacity
    BY <1>1, PendingIs, RoomForPush DEF PendingShape, IInv, TypeOK, Waiting
  <2>2. Index(Oldest + i - 1) # Index(head)
    BY <2>1, PushOutsidePending DEF Waiting
  <2>3. slots \in [0 .. Capacity - 1 -> Element]
    BY DEF IInv, TypeOK, Element
  <2>4. Index(Oldest + i - 1) \in 0 .. Capacity - 1
    BY <2>1, PendingIs, IndexSplits, RingAssumption DEF PendingShape
  <2>. QED BY <1>2, <2>2, <2>3, <2>4
<1>4. Pending' = Pending
  BY <1>1, <1>3, PendingKept
<1>. QED BY <1>1, <1>4 DEF Fifo!fifoVars

LEMMA PublishAccepts ==
  ASSUME QueueInv, IInv', PushPublish
  PROVE  Fifo!Accept(pItem)
<1>1. PendingShape /\ PendingShape'
  BY PendingIs, PendingStaysSo DEF QueueInv
<1>2. pHead = head /\ Waiting < Capacity
  BY RoomForPush DEF QueueInv, PushPublish
<1>3. head' = Succ(head) /\ verdict' = "taken" /\ UNCHANGED <<tail, slots, out, resetting>>
  BY <1>2 DEF PushPublish, consumerVars
<1>4. Oldest' = Oldest /\ Waiting' = Waiting + 1
  BY <1>1, <1>2, <1>3, CountAfterPush DEF PendingShape, Oldest, Waiting, QueueInv, IInv, TypeOK
<1>5. Pending'[Waiting + 1] = pItem
  <2>1. Index(Oldest + (Waiting + 1) - 1) = Index(head)
    <3>1. Oldest + (Waiting + 1) - 1 = Oldest + Waiting
      BY <1>1, RingAssumption DEF PendingShape
    <3>. QED BY <1>1, <3>1, CountReachesHead DEF PendingShape, Waiting, QueueInv, IInv, TypeOK
  <2>2. slots[Index(head)] = pItem
    BY DEF QueueInv, HeldInv, PushPublish
  <2>3. Waiting + 1 \in 1 .. Waiting'
    BY <1>1, <1>4 DEF PendingShape
  <2>. QED BY <1>1, <1>3, <1>4, <2>1, <2>2, <2>3 DEF PendingShape
<1>6. \A i \in 1 .. Waiting : Pending'[i] = Pending[i]
  BY <1>1, <1>3, <1>4 DEF PendingShape
<1>7. pItem \in Data
  BY DEF QueueInv, HeldInv, PushPublish
<1>8. Pending' = Append(Pending, pItem)
  <2>1. pItem \in Element /\ Waiting \in Nat
    BY <1>1, <1>7 DEF PendingShape, Element
  <2>2. Pending \in [1 .. Waiting -> Element] /\ Pending' \in [1 .. Waiting + 1 -> Element]
    <3>1. Element' = Element
      BY DEF Element
    <3>. QED BY <1>1, <1>4, <3>1 DEF PendingShape
  <2>. QED BY <1>5, <1>6, <2>1, <2>2, LongerByOne
<1>. QED BY <1>1, <1>2, <1>3, <1>8 DEF Fifo!Accept, PendingShape

LEMMA AdvanceDelivers ==
  ASSUME QueueInv, IInv', PopAdvance
  PROVE  Fifo!Deliver
<1>1. PendingShape /\ PendingShape'
  BY PendingIs, PendingStaysSo DEF QueueInv
<1>2. /\ cTail = tail /\ head # tail /\ ~resetting
      /\ cItem = slots[Index(tail)]
  BY DEF QueueInv, IInv, HeldInv, PopInv, PopAdvance
<1>3. tail' = Succ(tail) /\ out' = cItem /\ UNCHANGED <<head, slots, verdict, resetting>>
  BY <1>2 DEF PopAdvance, producerVars
<1>4. head \in 0 .. Wrap - 1 /\ tail \in 0 .. Wrap - 1
  BY DEF QueueInv, IInv, TypeOK
<1>5. Oldest = tail /\ Oldest' = Succ(tail)
  BY <1>2, <1>3 DEF Oldest
<1>6. Waiting \in Nat \ {0} /\ Waiting' = Waiting - 1
  <2>1. Waiting' = Waiting - 1
    BY <1>2, <1>3, <1>4, <1>5, CountAfterPop DEF Waiting
  <2>. QED BY <1>1, <2>1 DEF PendingShape
<1>7. Pending[1] = slots[Index(tail)]
  <2>1. tail + 1 - 1 = tail /\ 1 \in 1 .. Waiting
    BY <1>4, <1>6
  <2>. QED BY <1>1, <1>5, <2>1 DEF PendingShape
<1>8. ASSUME NEW i \in 1 .. Waiting - 1 PROVE Pending'[i] = Pending[i + 1]
  <2>1. i \in 1 .. Waiting' /\ i + 1 \in 1 .. Waiting /\ i - 1 \in Nat
    BY <1>6
  <2>2. Index(Succ(tail) + (i - 1)) = Index(tail + 1 + (i - 1))
    BY <1>4, <2>1, SuccKeepsOrder
  <2>3. Succ(tail) + (i - 1) = Succ(tail) + i - 1 /\ tail + 1 + (i - 1) = tail + (i + 1) - 1
    BY <1>4, <2>1 DEF Succ
  <2>4. Pending'[i] = slots'[Index(Oldest' + i - 1)] /\ Pending[i + 1] = slots[Index(Oldest + (i + 1) - 1)]
    BY <1>1, <2>1 DEF PendingShape
  <2>. QED BY <1>3, <1>5, <2>2, <2>3, <2>4
<1>9. Pending # <<>> /\ Head(Pending) = Pending[1] /\ Pending' = Tail(Pending)
  <2>1. Pending \in [1 .. Waiting -> Element] /\ Pending' \in [1 .. Waiting - 1 -> Element]
    <3>1. Element' = Element
      BY DEF Element
    <3>. QED BY <1>1, <1>6, <3>1 DEF PendingShape
  <2>. QED BY <1>6, <1>8, <2>1, ShorterByOne
<1>. QED BY <1>2, <1>3, <1>7, <1>9 DEF Fifo!Deliver

LEMMA ResetClears ==
  ASSUME QueueInv, IInv'
  PROVE  /\ ResetHead => Fifo!BeginClear
         /\ ResetTail => Fifo!EndClear
<1>1. PendingShape /\ PendingShape'
  BY PendingIs, PendingStaysSo DEF QueueInv
<1>2. ASSUME ResetHead PROVE Fifo!BeginClear
  <2>1. ~resetting /\ resetting' = TRUE /\ head' = 0 /\ UNCHANGED <<verdict, out>>
    BY <1>2 DEF ResetHead, producerVars, consumerVars
  <2>2. Pending' = [i \in 1 .. 0 |-> slots'[Index(i - 1)]]
    BY <2>1 DEF Pending
  <2>3. Pending' = <<>>
    BY <2>2
  <2>. QED BY <2>1, <2>3 DEF Fifo!BeginClear
<1>3. ASSUME ResetTail PROVE Fifo!EndClear
  <2>1. /\ resetting /\ resetting' = FALSE /\ tail' = 0
        /\ UNCHANGED <<head, slots, verdict, out>>
    BY <1>3 DEF ResetTail, producerVars, consumerVars
  <2>2. Oldest' = Oldest /\ Waiting' = Waiting
    BY <2>1 DEF Oldest, Waiting
  <2>3. Pending' = Pending
    BY <1>1, <2>1, <2>2 DEF PendingShape
  <2>. QED BY <2>1, <2>3 DEF Fifo!EndClear
<1>. QED BY <1>2, <1>3

(* A full ring, or one being re-initialised, refuses; every other step     *)
(* that only prepares is none of the queue.                                *)
LEMMA OtherSteps ==
  ASSUME QueueInv, IInv'
  PROVE  /\ PushRefused => Fifo!Refuse
         /\ (\E d \in Data : PushStart(d)) \/ PopStart \/ PopCopy \/ UNCHANGED vars
              => UNCHANGED Fifo!fifoVars
<1>1. ASSUME PushRefused PROVE Fifo!Refuse
  <2>1. /\ Count(head, tail) >= Capacity /\ verdict' = "refused"
        /\ UNCHANGED <<head, tail, slots, out, resetting>>
    BY <1>1 DEF PushRefused, IsFull, consumerVars
  <2>2. PendingShape
    BY PendingIs DEF QueueInv
  <2>3. ~resetting => Len(Pending) = Capacity
    BY <2>1, <2>2, RingAssumption DEF PendingShape, Waiting, Oldest
  <2>4. Pending' = Pending
    BY <2>1, PendingKept DEF QueueInv
  <2>. QED BY <2>1, <2>3, <2>4 DEF Fifo!Refuse
<1>2. ASSUME (\E d \in Data : PushStart(d)) \/ PopStart \/ PopCopy \/ UNCHANGED vars
      PROVE  UNCHANGED Fifo!fifoVars
  <2>1. UNCHANGED <<head, tail, slots, resetting, verdict, out>>
    BY <1>2 DEF PushStart, PopStart, PopCopy, vars, producerVars, consumerVars
  <2>2. Pending' = Pending
    BY <2>1, PendingKept DEF QueueInv
  <2>. QED BY <2>1, <2>2 DEF Fifo!fifoVars
<1>. QED BY <1>1, <1>2

(* The ring of ring_buffer.c, filled by the interrupt and drained by the   *)
(* main loop without a lock, is a bounded first-in first-out queue that    *)
(* refuses only when it is full or being re-initialised: for every         *)
(* capacity, counter width and interleaving.                               *)
THEOREM RingImplementsFifo == Spec => ImplementsFifo
<1>1. Init => Fifo!Init
  <2> SUFFICES ASSUME Init PROVE Fifo!Init
    OBVIOUS
  <2>1. IInv /\ Waiting = 0
    BY InitIInv, RingAssumption DEF Init, Waiting, Oldest, Count
  <2>2. Pending = <<>>
    BY <2>1, PendingIs DEF PendingShape
  <2>. QED BY <2>2 DEF Init, Fifo!Init
<1>2. QueueInv /\ [Next]_vars => [Fifo!Next]_(Fifo!fifoVars)
  <2> SUFFICES ASSUME QueueInv, [Next]_vars PROVE [Fifo!Next]_(Fifo!fifoVars)
    OBVIOUS
  <2>1. IInv /\ IInv'
    BY NextIInv DEF QueueInv
  <2>2. CASE PushTear \/ PushFill
    BY <2>1, <2>2, PushStepsQuietly
  <2>3. CASE PushPublish
    <3>1. Fifo!Accept(pItem) /\ pItem \in Data
      BY <2>1, <2>3, PublishAccepts DEF QueueInv, HeldInv, PushPublish
    <3>. QED BY <3>1 DEF Fifo!Next
  <2>4. CASE PopAdvance
    BY <2>1, <2>4, AdvanceDelivers DEF Fifo!Next
  <2>5. CASE ResetHead \/ ResetTail
    BY <2>1, <2>5, ResetClears DEF Fifo!Next
  <2>6. CASE PushRefused \/ (\E d \in Data : PushStart(d)) \/ PopStart \/ PopCopy \/ UNCHANGED vars
    BY <2>1, <2>6, OtherSteps DEF Fifo!Next
  <2>. QED BY <2>2, <2>3, <2>4, <2>5, <2>6 DEF Next, Push, Pop
<1>. QED
  BY InitQueueInv, NextQueueInv, <1>1, <1>2, PTL DEF Spec, ImplementsFifo, Fifo!Spec

-----------------------------------------------------------------------------
(***************************************************************************)
(* The firmware update.                                                    *)
(***************************************************************************)

Byte == {"U", "BS", "S", "T", "C", "P", "E"}
Ack == {"S", "E"}

(* Which bytes are under way to the tool, and how often.                   *)
Has(r, B) == \E i \in DOMAIN r : r[i] \in B
AtMostOne(r, B) == \A i, j \in DOMAIN r : r[i] \in B /\ r[j] \in B => i = j

LEMMA ByteSequence ==
  ASSUME NEW r \in Seq(Byte)
  PROVE  /\ DOMAIN r = 1 .. Len(r) /\ Len(r) \in Nat
         /\ \A i \in DOMAIN r : r[i] \in Byte
         /\ r = <<>> <=> Len(r) = 0
         /\ \A B : ~Has(<<>>, B) /\ AtMostOne(<<>>, B)
BY DEF Has, AtMostOne

(* A byte more: the box answers.                                           *)
LEMMA AppendBytes ==
  ASSUME NEW r \in Seq(Byte), NEW b \in Byte, NEW B
  PROVE  /\ Append(r, b) \in Seq(Byte) /\ Len(Append(r, b)) = Len(r) + 1
         /\ Has(Append(r, b), B) => Has(r, B) \/ b \in B
         /\ ~Has(r, B) => AtMostOne(Append(r, b), B)
         /\ AtMostOne(r, B) /\ b \notin B => AtMostOne(Append(r, b), B)
<1>1. /\ Append(r, b) \in Seq(Byte) /\ Len(Append(r, b)) = Len(r) + 1
      /\ DOMAIN Append(r, b) = 1 .. Len(r) + 1 /\ DOMAIN r = 1 .. Len(r)
      /\ Append(r, b)[Len(r) + 1] = b
      /\ \A i \in 1 .. Len(r) : Append(r, b)[i] = r[i]
  OBVIOUS
<1>2. \A i \in DOMAIN Append(r, b) : i \in DOMAIN r \/ i = Len(r) + 1
  BY <1>1
<1>3. Has(Append(r, b), B) => Has(r, B) \/ b \in B
  BY <1>1, <1>2 DEF Has
<1>4. ~Has(r, B) => AtMostOne(Append(r, b), B)
  BY <1>1, <1>2 DEF Has, AtMostOne
<1>5. AtMostOne(r, B) /\ b \notin B => AtMostOne(Append(r, b), B)
  BY <1>1, <1>2 DEF AtMostOne
<1>. QED BY <1>1, <1>3, <1>4, <1>5

(* A byte less: the tool reads, or the line loses one.                     *)
LEMMA TailBytes ==
  ASSUME NEW r \in Seq(Byte), r # <<>>, NEW B
  PROVE  /\ Tail(r) \in Seq(Byte) /\ Len(Tail(r)) = Len(r) - 1
         /\ Has(Tail(r), B) => Has(r, B)
         /\ AtMostOne(r, B) => AtMostOne(Tail(r), B)
         /\ Head(r) \in B => Has(r, B)
         /\ Head(r) \in B /\ AtMostOne(r, B) => ~Has(Tail(r), B)
<1>1. /\ Tail(r) \in Seq(Byte) /\ Len(Tail(r)) = Len(r) - 1 /\ Len(r) \in Nat \ {0}
      /\ DOMAIN Tail(r) = 1 .. Len(r) - 1 /\ DOMAIN r = 1 .. Len(r)
      /\ Head(r) = r[1]
      /\ \A i \in 1 .. Len(r) - 1 : Tail(r)[i] = r[i + 1]
  OBVIOUS
<1>2. \A i \in DOMAIN Tail(r) : i \in Nat \ {0} /\ i + 1 \in DOMAIN r /\ Tail(r)[i] = r[i + 1]
  BY <1>1
<1>3. 1 \in DOMAIN r
  BY <1>1
<1>4. Has(Tail(r), B) => Has(r, B)
  BY <1>2 DEF Has
<1>5. AtMostOne(r, B) => AtMostOne(Tail(r), B)
  <2> SUFFICES ASSUME AtMostOne(r, B), NEW i \in DOMAIN Tail(r), NEW j \in DOMAIN Tail(r),
                      Tail(r)[i] \in B, Tail(r)[j] \in B
               PROVE  i = j
    BY DEF AtMostOne
  <2>1. i + 1 = j + 1
    BY <1>2 DEF AtMostOne
  <2>. QED BY <1>2, <2>1
<1>6. Head(r) \in B => Has(r, B)
  BY <1>1, <1>3 DEF Has
<1>7. Head(r) \in B /\ AtMostOne(r, B) => ~Has(Tail(r), B)
  <2> SUFFICES ASSUME r[1] \in B, AtMostOne(r, B), NEW i \in DOMAIN Tail(r), Tail(r)[i] \in B
               PROVE  FALSE
    BY <1>1 DEF Has
  <2>1. i + 1 = 1
    BY <1>2, <1>3 DEF AtMostOne
  <2>. QED BY <1>2, <2>1
<1>. QED BY <1>1, <1>4, <1>5, <1>6, <1>7

(* What the box says arrives as one byte more, or not at all.              *)
LEMMA SayBytes ==
  ASSUME NEW b \in Byte, reply \in Seq(Byte), Len(reply) <= MaxReply, Say(b), NEW B
  PROVE  /\ reply' \in Seq(Byte) /\ Len(reply') <= MaxReply
         /\ Has(reply', B) => Has(reply, B) \/ (b \in B /\ Listening)
         /\ ~Has(reply, B) => AtMostOne(reply', B)
         /\ AtMostOne(reply, B) /\ b \notin B => AtMostOne(reply', B)
<1>1. CASE Listening /\ Len(reply) < MaxReply
  <2>1. reply' = Append(reply, b)
    BY <1>1 DEF Say
  <2>2. Len(reply) \in Nat /\ MaxReply \in Nat
    BY LimitsPositive, ByteSequence
  <2>3. Len(reply) + 1 <= MaxReply
    BY <1>1, <2>2
  <2>. QED BY <1>1, <2>1, <2>3, AppendBytes
<1>2. CASE ~(Listening /\ Len(reply) < MaxReply)
  <2>1. reply' = reply
    BY <1>2 DEF Say
  <2>2. ~Has(reply, B) => AtMostOne(reply, B)
    BY DEF Has, AtMostOne
  <2>. QED BY <2>1, <2>2
<1>. QED BY <1>1, <1>2

-----------------------------------------------------------------------------
(* Quotient and remainder.                                                 *)
LEMMA Division ==
  ASSUME NEW c \in Nat \ {0}, NEW a \in Nat
  PROVE  /\ a \div c \in Int /\ c * (a \div c) \in Int
         /\ a = c * (a \div c) + (a % c)
         /\ a % c \in 0 .. c - 1
<1>1. a = c * (a \div c) + (a % c)
  OBVIOUS
<1>2. a \div c \in Int /\ a % c \in 0 .. c - 1
  OBVIOUS
<1>3. c * (a \div c) \in Int
  BY <1>2
<1>. QED BY <1>1, <1>2, <1>3

(* Erasing the page a record begins takes no earlier record away.          *)
LEMMA ErasedPageIsAhead ==
  ASSUME NEW k \in 1 .. Slots, PageStart(k), NEW j \in 1 .. Slots, j < k
  PROVE  j \notin Page(k)
<1>1. SUFFICES ASSUME (j - 1) \div PageRecs = (k - 1) \div PageRecs PROVE FALSE
  BY DEF Page
<1>2. PageRecs \in Nat \ {0} /\ j - 1 \in Nat /\ k - 1 \in Nat
  BY SizesFit
<1>3. PICK a \in Nat, b \in Nat : a = j - 1 /\ b = k - 1
  BY <1>2
<1>4. /\ a = PageRecs * (a \div PageRecs) + (a % PageRecs) /\ a % PageRecs \in Nat
      /\ b = PageRecs * (b \div PageRecs) + (b % PageRecs)
      /\ PageRecs * (b \div PageRecs) \in Int
  BY <1>2, Division
<1>5. a \div PageRecs = b \div PageRecs /\ b % PageRecs = 0 /\ a < b
  BY <1>1, <1>3 DEF PageStart
<1>6. PICK m \in Int : m = PageRecs * (b \div PageRecs)
  BY <1>4
<1>7. a = m + (a % PageRecs) /\ b = m + 0
  BY <1>4, <1>5, <1>6
<1>. QED BY <1>4, <1>5, <1>7

-----------------------------------------------------------------------------
(* Where the update stands.  Free: the box writes no record and expects    *)
(* none.                                                                   *)
Free == {"reset", "listen", "prompt", "app"}
Writing == {"erase", "program", "write"}
Carries == line.kind \in {"header", "data"}
Written(f, n) == \A k \in 1 .. n : f[k] = "new"

(* A prompt the tool has yet to answer shows that the box left whatever    *)
(* session it was in.                                                      *)
TriggerInv ==
  phase = "trigger" =>
    /\ line.kind \notin {"password", "header", "data"}
    /\ pc \in Free \/ ~Has(reply, {"U"})

UnlockInv ==
  phase = "unlock" =>
    /\ line.kind \notin {"trigger", "header", "data"}
    /\ pc \in Free \/ (pc = "session" /\ line = Nothing)
    /\ ~Has(reply, Ack)

(* A record, the work on it and its acknowledgement never coexist: what    *)
(* the tool hears is about the record it sent last.                        *)
OneRequest ==
  phase = "stream" =>
    /\ line.kind \notin {"trigger", "password"}
    /\ Carries => pc \notin Writing /\ ~Has(reply, Ack) /\ line.seq = next
    /\ line.kind = "header" => next = 0
    /\ pc \in Writing => ~Has(reply, Ack) /\ work = next
    /\ AtMostOne(reply, Ack)

(* The records up to the last acknowledged one are in the flash, as long   *)
(* as the box has stayed in the session; after the last of all, for good.  *)
WrittenInv ==
  phase = "stream" =>
    /\ key = "right" /\ pc \notin Free =>
         Written(flash, next - 1) /\ (Has(reply, {"S"}) => Written(flash, next))
    /\ Has(reply, {"E"}) => pc \in Free /\ (key = "right" => Written(flash, NewSize))

(* Only the first record of a page erases it.                              *)
EraseInv == pc = "erase" => PageStart(work)

DoneInv ==
  phase = "done" =>
    /\ pc \in Free /\ line.kind \notin {"trigger", "password", "header", "data"}
    /\ key = "right" => Written(flash, NewSize)

BootInv ==
  UpdateTypeOK /\ TriggerInv /\ UnlockInv /\ OneRequest /\ WrittenInv /\ EraseInv /\ DoneInv

-----------------------------------------------------------------------------
LEMMA LineItems ==
  /\ \A k \in {"none", "trigger", "password", "scraps"} : Bytes(k) \in Item
  /\ \A k \in 0 .. NewSize : Record(k) \in Item
  /\ Nothing \in Item
<1>1. 0 \in 0 .. NewSize
  BY SizesFit
<1>. QED BY <1>1 DEF Bytes, Record, Nothing, Item

LEMMA UpdateInitInv == UpdateInit => BootInv
<1> SUFFICES ASSUME UpdateInit PROVE BootInv
  OBVIOUS
<1>1. UpdateTypeOK
  <2>1. flash \in [1 .. Slots -> Content]
    BY DEF UpdateInit, Content
  <2>2. 0 \in 0 .. NewSize /\ 0 \in 0 .. IdleLimit /\ 0 \in 0 .. MaxFaults /\ 1 \in 1 .. Slots
    BY SizesFit, LimitsPositive
  <2>3. <<>> \in Seq(Byte) /\ Len(<<>>) <= MaxReply
    BY LimitsPositive
  <2>. QED BY <2>1, <2>2, <2>3, LineItems DEF UpdateInit, UpdateTypeOK, Byte
<1>. QED BY <1>1 DEF UpdateInit, BootInv, TriggerInv, UnlockInv, OneRequest, WrittenInv, EraseInv, DoneInv

(* What is left alone by most steps.                                       *)
LEMMA UpdateTypes ==
  ASSUME UpdateTypeOK, [UpdateNext]_updateVars
  PROVE  UpdateTypeOK'
<1> USE SizesFit, LimitsPositive DEF UpdateTypeOK, memory, box, host
<1>0. /\ Nothing \in Item /\ Record(0) \in Item /\ (next < NewSize => Record(next + 1) \in Item)
      /\ \A k \in {"none", "trigger", "password", "scraps"} : Bytes(k) \in Item
  BY LineItems
<1>1. /\ \A b \in Byte : Say(b) => reply' \in Seq(Byte) /\ Len(reply') <= MaxReply
      /\ reply # <<>> => Tail(reply) \in Seq(Byte) /\ Len(Tail(reply)) <= MaxReply
      /\ <<>> \in Seq(Byte) /\ Len(<<>>) <= MaxReply
      /\ Byte = {"U", "BS", "S", "T", "C", "P", "E"}
  <2>1. reply \in Seq(Byte)
    BY DEF Byte
  <2>2. Len(reply) \in Nat
    BY <2>1, ByteSequence
  <2>. QED BY <2>1, <2>2, SayBytes, TailBytes DEF Byte
<1>2. Valid(flash) \in BOOLEAN /\ Counted(idle) \in 0 .. IdleLimit /\ 0 \in 0 .. IdleLimit
  BY DEF Valid, Counted
<1>3. CASE Boot
  BY <1>0, <1>2, <1>3 DEF Boot
<1>4. CASE Rescue \/ LeaveWindow
  BY <1>0, <1>2, <1>4 DEF Rescue, LeaveWindow
<1>5. CASE PromptUnanswered
  BY <1>1, <1>2, <1>5 DEF PromptUnanswered, Prompt
<1>6. CASE PromptPassword
  BY <1>0, <1>1, <1>6 DEF PromptPassword
<1>7. CASE PromptOther
  <2>1. idle' \in 0 .. IdleLimit
    BY <1>2, <1>7 DEF PromptOther
  <2>2. reply' \in Seq(Byte) /\ Len(reply') <= MaxReply
    BY <1>1, <1>7 DEF PromptOther, Prompt
  <2>3. /\ line' = Nothing
        /\ UNCHANGED <<flash, token, pc, appValid, acc, key, work, phase, next, faults>>
    BY <1>7 DEF PromptOther
  <2>4. reply' \in Seq({"U", "BS", "S", "T", "C", "P", "E"})
    BY <2>2 DEF Byte
  <2>. QED BY <1>0, <2>1, <2>2, <2>3, <2>4
<1>8. CASE ReadHeader
  BY <1>0, <1>1, <1>8 DEF ReadHeader
<1>9. CASE Timeout
  BY <1>0, <1>1, <1>2, <1>9 DEF Timeout, EndSession
<1>10. CASE Refuse
  BY <1>0, <1>1, <1>2, <1>10 DEF Refuse, EndSession
<1>11. CASE Accept
  BY <1>0, <1>11 DEF Accept, InFlash
<1>12. CASE Erase
  BY <1>12 DEF Erase, Content
<1>13. CASE ProgramHead
  BY <1>13 DEF ProgramHead, Content, Undefined
<1>14. CASE ProgramRest
  <2>1. flash' \in [1 .. Slots -> Content]
    BY <1>14 DEF ProgramRest, Content
  <2>2. Valid(flash') \in BOOLEAN
    BY DEF Valid
  <2>. QED BY <1>1, <1>14, <2>1, <2>2 DEF ProgramRest
<1>15. CASE ProgramFails
  <2>1. flash' \in [1 .. Slots -> Content]
    BY <1>15 DEF ProgramFails, Content
  <2>2. Valid(flash') \in BOOLEAN
    BY DEF Valid
  <2>3. faults' \in 0 .. MaxFaults
    BY <1>15 DEF ProgramFails
  <2>. QED BY <1>1, <1>2, <1>15, <2>1, <2>2, <2>3 DEF ProgramFails, EndSession
<1>16. CASE AppTrigger \/ AppIgnores \/ AppCrash \/ Replug
  BY <1>0, <1>16 DEF AppTrigger, AppIgnores, AppCrash, Replug
<1>17. CASE StartTool \/ RepeatTrigger \/ SendPassword
  <2>1. line' \in Item
    BY <1>0, <1>17 DEF StartTool, RepeatTrigger, SendPassword, Send
  <2>2. 0 \in 0 .. NewSize
    OBVIOUS
  <2>. QED BY <1>1, <1>17, <2>1, <2>2 DEF StartTool, RepeatTrigger, SendPassword
<1>18. CASE SkipByte
  BY <1>1, <1>18 DEF SkipByte
<1>19. CASE SendHeader
  BY <1>0, <1>1, <1>19 DEF SendHeader, Send, Hear
<1>20. CASE SendRecord
  BY <1>0, <1>1, <1>20 DEF SendRecord, Send, Hear
<1>21. CASE Succeed \/ Fail
  BY <1>1, <1>21 DEF Succeed, Fail
<1>22. CASE Fault
  <2>1. faults' \in 0 .. MaxFaults
    BY <1>22 DEF Fault
  <2>2. CASE LoseBytes
    BY <1>0, <2>1, <2>2 DEF LoseBytes
  <2>3. CASE Damage
    BY <2>1, <2>3 DEF Damage, Item
  <2>4. CASE LoseReply
    BY <1>1, <2>1, <2>4 DEF LoseReply
  <2>5. CASE PowerLoss
    <3>1. flash' \in [1 .. Slots -> Content]
      BY <2>5 DEF PowerLoss, Content, Undefined
    <3>. QED BY <2>1, <2>5, <3>1 DEF PowerLoss
  <2>. QED BY <1>22, <2>2, <2>3, <2>4, <2>5 DEF Fault
<1>23. CASE UNCHANGED updateVars
  BY <1>23 DEF updateVars
<1>. QED
  BY <1>3, <1>4, <1>5, <1>6, <1>7, <1>8, <1>9, <1>10, <1>11, <1>12, <1>13, <1>14, <1>15,
     <1>16, <1>17, <1>18, <1>19, <1>20, <1>21, <1>22, <1>23 DEF UpdateNext, Step, Tool

(* The box and the accidents: the tool stays in its phase.                 *)
LEMMA SayUpdates ==
  ASSUME UpdateTypeOK, NEW b \in Byte, Say(b)
  PROVE  /\ b # "U" => (Has(reply', {"U"}) => Has(reply, {"U"}))
         /\ b \notin Ack => (Has(reply', Ack) => Has(reply, Ack))
         /\ b # "S" => (Has(reply', {"S"}) => Has(reply, {"S"}))
         /\ b # "E" => (Has(reply', {"E"}) => Has(reply, {"E"}))
         /\ AtMostOne(reply, Ack) /\ (b \notin Ack \/ ~Has(reply, Ack)) => AtMostOne(reply', Ack)
BY SayBytes DEF UpdateTypeOK, Byte, Ack

LEMMA HasMore == \A r : Has(r, {"S"}) \/ Has(r, {"E"}) <=> Has(r, Ack)
BY DEF Has, Ack

LEMMA BoxKeepsInv ==
  ASSUME BootInv, Step \/ AppCrash \/ Replug
  PROVE  BootInv'
<1> USE DEF memory, box, host, Free, Writing, Carries
<1>1. UpdateTypeOK' /\ UpdateTypeOK
  BY UpdateTypes DEF BootInv, UpdateNext
<1>2. UNCHANGED <<phase, next>>
  BY DEF Step, Boot, Rescue, LeaveWindow, PromptUnanswered, PromptPassword, PromptOther,
         ReadHeader, Timeout, Refuse, Accept, Erase, ProgramHead, ProgramRest, ProgramFails,
         AppTrigger, AppIgnores, AppCrash, Replug
<1>3. Nothing.kind = "none"
  BY DEF Nothing, Bytes
<1>4. SUFFICES TriggerInv' /\ UnlockInv' /\ OneRequest' /\ WrittenInv' /\ EraseInv' /\ DoneInv'
  BY <1>1 DEF BootInv
<1> USE <1>1, <1>2, <1>3 DEF BootInv, TriggerInv, UnlockInv, OneRequest, WrittenInv, EraseInv, DoneInv
<1>5. CASE Boot
  BY <1>5 DEF Boot
<1>6. CASE Rescue \/ LeaveWindow
  BY <1>6 DEF Rescue, LeaveWindow
<1>7. CASE PromptUnanswered \/ PromptOther
  <2>1. /\ Has(reply', Ack) => Has(reply, Ack)
        /\ Has(reply', {"S"}) => Has(reply, {"S"})
        /\ Has(reply', {"E"}) => Has(reply, {"E"})
        /\ AtMostOne(reply, Ack) => AtMostOne(reply', Ack)
    <3>1. Say("U") \/ UNCHANGED reply
      BY <1>7 DEF PromptUnanswered, PromptOther, Prompt
    <3>. QED BY <3>1, SayUpdates DEF Byte, Ack
  <2>. QED BY <1>7, <2>1 DEF PromptUnanswered, PromptOther
<1>8. CASE PromptPassword
  <2>1. /\ Has(reply', Ack) => Has(reply, Ack)
        /\ Has(reply', {"S"}) => Has(reply, {"S"})
        /\ Has(reply', {"E"}) => Has(reply, {"E"})
        /\ AtMostOne(reply, Ack) => AtMostOne(reply', Ack)
    BY <1>8, SayUpdates DEF PromptPassword, Byte, Ack
  <2>. QED BY <1>8, <2>1 DEF PromptPassword
<1>9. CASE ReadHeader
  <2>1. Has(reply', {"E"}) => Has(reply, {"E"})
    BY <1>9, SayUpdates DEF ReadHeader, Byte
  <2>2. AtMostOne(reply, Ack) /\ ~Has(reply, Ack) => AtMostOne(reply', Ack)
    BY <1>9, SayUpdates DEF ReadHeader, Byte
  <2>3. Has(reply', {"U"}) => Has(reply, {"U"})
    BY <1>9, SayUpdates DEF ReadHeader, Byte
  <2>4. phase = "stream" => next = 0 /\ Written(flash, next - 1)' /\ Written(flash, next)'
    BY <1>9 DEF ReadHeader, Written
  <2>. QED BY <1>9, <2>1, <2>2, <2>3, <2>4, HasMore DEF ReadHeader
<1>10. CASE Timeout \/ Refuse
  <2>1. pc' \in Free /\ line'.kind = "none" /\ UNCHANGED <<flash, key>>
    BY <1>10 DEF Timeout, Refuse, EndSession
  <2>2. /\ Has(reply', Ack) => Has(reply, Ack)
        /\ Has(reply', {"E"}) => Has(reply, {"E"})
        /\ AtMostOne(reply, Ack) => AtMostOne(reply', Ack)
    BY <1>10, SayUpdates DEF Timeout, Refuse, Byte, Ack
  <2>3. phase # "done"
    BY <1>10 DEF Timeout, Refuse
  <2>. QED BY <2>1, <2>2, <2>3
<1>11. CASE Accept
  <2>1. /\ line.kind = "data" /\ pc = "session" /\ work' = line.seq /\ pc' \in Writing
        /\ line' = Nothing /\ UNCHANGED <<flash, key, reply>>
    BY <1>11 DEF Accept
  <2>2. EraseInv'
    BY <1>11 DEF Accept, PageStart
  <2>. QED BY <2>1, <2>2, HasMore
<1>12. CASE Erase
  <2>1. pc = "erase" /\ pc' = "program" /\ UNCHANGED <<key, work, line, reply>>
    BY <1>12 DEF Erase
  <2>2. ASSUME phase = "stream", Written(flash, next - 1) PROVE Written(flash', next - 1)
    <3>1. work = next /\ PageStart(work) /\ work \in 1 .. Slots
      BY <2>1, <2>2 DEF UpdateTypeOK
    <3>2. \A k \in 1 .. work - 1 : k \in 1 .. Slots /\ k \notin Page(work)
      BY <3>1, ErasedPageIsAhead, SizesFit
    <3>3. flash' = [k \in 1 .. Slots |-> IF k \in Page(work) THEN "blank" ELSE flash[k]]
      BY <1>12 DEF Erase
    <3>. QED BY <2>2, <3>1, <3>2, <3>3 DEF Written
  <2>. QED BY <2>1, <2>2, HasMore
<1>13. ASSUME NEW c, flash' = [flash EXCEPT ![work] = c], phase = "stream", pc \in Writing,
              Written(flash, next - 1)
       PROVE  Written(flash', next - 1) /\ (c = "new" => Written(flash', next))
  <2>1. work = next /\ work \in 1 .. Slots /\ flash \in [1 .. Slots -> Content]
    BY <1>13 DEF UpdateTypeOK
  <2>2. \A k \in 1 .. next - 1 : k \in 1 .. Slots /\ k # work
    BY <2>1, SizesFit
  <2>3. \A k \in 1 .. next : k \in 1 .. next - 1 \/ k = work
    BY <2>1
  <2>. QED BY <1>13, <2>1, <2>2, <2>3 DEF Written
<1>14. CASE ProgramHead
  <2>1. pc = "program" /\ pc' = "write" /\ UNCHANGED <<key, work, line, reply>>
    BY <1>14 DEF ProgramHead
  <2>2. \E c : flash' = [flash EXCEPT ![work] = c]
    BY <1>14 DEF ProgramHead
  <2>. QED BY <1>13, <2>1, <2>2, HasMore
<1>15. CASE ProgramRest
  <2>1. pc = "write" /\ UNCHANGED <<key, work, line>>
    BY <1>15 DEF ProgramRest
  <2>2. key = "right" => flash' = [flash EXCEPT ![work] = "new"]
    BY <1>15 DEF ProgramRest
  <2>3. key = "right" /\ phase = "stream" => Written(flash', next - 1) /\ Written(flash', next)
    BY <1>13, <2>1, <2>2
  <2>4. phase \in {"trigger", "stream"} \/ phase = "idle"
    BY <2>1 DEF UpdateTypeOK
  <2>5. CASE work = NewSize
    <3>1. Say("E") /\ pc' \in Free
      BY <1>15, <2>5 DEF ProgramRest
    <3>2. /\ Has(reply', {"U"}) => Has(reply, {"U"})
          /\ Has(reply', {"S"}) => Has(reply, {"S"})
          /\ ~Has(reply, Ack) /\ AtMostOne(reply, Ack) => AtMostOne(reply', Ack)
      BY <3>1, SayUpdates DEF Byte
    <3>. QED BY <2>1, <2>3, <2>4, <2>5, <3>1, <3>2, HasMore
  <2>6. CASE work # NewSize
    <3>1. Say("S") /\ pc' = "session"
      BY <1>15, <2>6 DEF ProgramRest
    <3>2. /\ Has(reply', {"U"}) => Has(reply, {"U"})
          /\ Has(reply', {"E"}) => Has(reply, {"E"})
          /\ ~Has(reply, Ack) /\ AtMostOne(reply, Ack) => AtMostOne(reply', Ack)
      BY <3>1, SayUpdates DEF Byte
    <3>. QED BY <2>1, <2>3, <2>4, <2>6, <3>1, <3>2, HasMore
  <2>. QED BY <2>5, <2>6
<1>16. CASE ProgramFails
  <2>1. pc \in {"program", "write"} /\ pc' \in Free /\ UNCHANGED <<key, work, line>> /\ Say("P")
    BY <1>16 DEF ProgramFails, EndSession
  <2>2. /\ Has(reply', Ack) => Has(reply, Ack)
        /\ AtMostOne(reply, Ack) => AtMostOne(reply', Ack)
    BY <2>1, SayUpdates DEF Byte, Ack
  <2>3. phase \in {"trigger", "stream"} \/ phase = "idle"
    BY <2>1 DEF UpdateTypeOK
  <2>. QED BY <2>1, <2>2, <2>3, HasMore
<1>17. CASE AppTrigger \/ AppIgnores \/ AppCrash \/ Replug
  BY <1>17 DEF AppTrigger, AppIgnores, AppCrash, Replug
<1>. QED
  BY <1>5, <1>6, <1>7, <1>8, <1>9, <1>10, <1>11, <1>12, <1>14, <1>15, <1>16, <1>17
     DEF Step

LEMMA TailUpdates ==
  ASSUME UpdateTypeOK, reply # <<>>, reply' = Tail(reply)
  PROVE  /\ \A B : Has(reply', B) => Has(reply, B)
         /\ \A B : AtMostOne(reply, B) => AtMostOne(reply', B)
         /\ \A B : Head(reply) \in B => Has(reply, B)
         /\ \A B : Head(reply) \in B /\ AtMostOne(reply, B) => ~Has(reply', B)
BY TailBytes DEF UpdateTypeOK, Byte

(* The tool moves on only with what it hears; the box stays as it is.      *)
LEMMA ToolKeepsInv ==
  ASSUME BootInv, StartTool \/ RepeatTrigger \/ Tool \/ Fail
  PROVE  BootInv'
<1> USE DEF memory, box, host, Free, Writing, Carries
<1>1. UpdateTypeOK' /\ UpdateTypeOK
  BY UpdateTypes DEF BootInv, UpdateNext
<1>2. UNCHANGED <<flash, pc, key, work>>
  BY DEF StartTool, RepeatTrigger, Tool, Fail, SendPassword, SkipByte, SendHeader, SendRecord,
         Succeed
<1>3. /\ Nothing.kind = "none" /\ Bytes("trigger").kind = "trigger"
      /\ Bytes("password").kind = "password"
      /\ Record(0).kind = "header" /\ Record(0).seq = 0
      /\ Record(next + 1).seq = next + 1 /\ Record(next + 1).kind = "data"
  BY <1>1 DEF Nothing, Bytes, Record, UpdateTypeOK
<1>4. \A B : ~Has(<<>>, B) /\ AtMostOne(<<>>, B)
  BY DEF Has, AtMostOne
<1>5. SUFFICES TriggerInv' /\ UnlockInv' /\ OneRequest' /\ WrittenInv' /\ EraseInv' /\ DoneInv'
  BY <1>1 DEF BootInv
<1> USE <1>1, <1>2, <1>3, <1>4 DEF BootInv, TriggerInv, UnlockInv, OneRequest, WrittenInv, EraseInv, DoneInv
<1>6. EraseInv'
  BY DEF PageStart
<1>7. CASE StartTool
  BY <1>6, <1>7 DEF StartTool, Send
<1>8. CASE RepeatTrigger
  BY <1>6, <1>8 DEF RepeatTrigger, Send
<1>9. CASE SendPassword
  <2>1. Has(reply, {"U"})
    BY <1>9, ByteSequence DEF SendPassword, Hear, Has, UpdateTypeOK, Byte
  <2>. QED BY <1>6, <1>9, <2>1 DEF SendPassword, Send
<1>10. CASE SkipByte
  <2>1. reply # <<>> /\ reply' = Tail(reply) /\ phase \in {"trigger", "unlock"}
        /\ UNCHANGED <<line, phase, next>>
    BY <1>10 DEF SkipByte
  <2>. QED BY <1>6, <2>1, TailUpdates
<1>11. CASE SendHeader
  <2>1. /\ phase = "unlock" /\ phase' = "stream" /\ next' = 0 /\ line' = Record(0)
        /\ reply # <<>> /\ reply' = Tail(reply)
    BY <1>11 DEF SendHeader, Send, Hear
  <2>2. ~Has(reply', Ack)
    BY <2>1, TailUpdates
  <2>3. AtMostOne(reply', Ack)
    BY <2>2 DEF Has, AtMostOne
  <2>4. Written(flash, next - 1)'
    BY <2>1 DEF Written
  <2>. QED BY <1>6, <2>1, <2>2, <2>3, <2>4, HasMore
<1>12. CASE SendRecord
  <2>1. /\ phase = "stream" /\ phase' = phase /\ next' = next + 1 /\ line' = Record(next + 1)
        /\ reply # <<>> /\ reply' = Tail(reply) /\ Head(reply) \in {"S"} /\ Head(reply) \in Ack
        /\ line = Nothing
    BY <1>12 DEF SendRecord, Send, Hear, Ack
  <2>2. Has(reply, {"S"}) /\ Has(reply, Ack) /\ ~Has(reply', Ack) /\ AtMostOne(reply', Ack)
    BY <2>1, TailUpdates
  <2>3. next' - 1 = next
    BY <2>1 DEF UpdateTypeOK
  <2>4. pc \notin Writing
    BY <2>1, <2>2
  <2>. QED BY <1>6, <2>1, <2>2, <2>3, <2>4, HasMore
<1>13. CASE Succeed
  <2>1. /\ phase = "stream" /\ phase' = "done" /\ reply # <<>> /\ Head(reply) \in {"E"}
        /\ UNCHANGED <<line, next>>
    BY <1>13 DEF Succeed, Hear
  <2>2. Has(reply, {"E"}) /\ Has(reply, Ack)
    <3>1. Head(reply) = reply[1] /\ 1 \in DOMAIN reply
      BY <2>1, ByteSequence DEF UpdateTypeOK, Byte
    <3>2. Has(reply, {"E"})
      BY <2>1, <3>1 DEF Has
    <3>. QED BY <3>2, HasMore
  <2>. QED BY <1>6, <2>1, <2>2
<1>14. CASE Fail
  BY <1>6, <1>14 DEF Fail
<1>. QED
  BY <1>7, <1>8, <1>9, <1>10, <1>11, <1>12, <1>13, <1>14 DEF Tool

(* What is lost, damaged or cut short takes no acknowledged record away.   *)
LEMMA FaultKeepsInv ==
  ASSUME BootInv, Fault
  PROVE  BootInv'
<1> USE DEF memory, box, host, Free, Writing, Carries
<1>1. UpdateTypeOK' /\ UpdateTypeOK
  BY UpdateTypes DEF BootInv, UpdateNext
<1>2. UNCHANGED <<key, work, phase, next>>
  BY DEF Fault, LoseBytes, Damage, LoseReply, PowerLoss
<1>3. \A k \in {"none", "scraps"} : Bytes(k).kind = k
  BY DEF Bytes
<1>4. SUFFICES TriggerInv' /\ UnlockInv' /\ OneRequest' /\ WrittenInv' /\ EraseInv' /\ DoneInv'
  BY <1>1 DEF BootInv
<1> USE <1>1, <1>2, <1>3 DEF BootInv, TriggerInv, UnlockInv, OneRequest, WrittenInv, EraseInv, DoneInv
<1>5. CASE LoseBytes
  <2>1. line'.kind \in {"none", "scraps"} /\ UNCHANGED <<flash, pc, reply>>
    BY <1>5 DEF LoseBytes
  <2>2. phase = "unlock" => pc # "session"
    BY <1>5 DEF LoseBytes
  <2>. QED BY <2>1, <2>2 DEF PageStart
<1>6. CASE Damage
  <2>1. PICK k \in {line.kind, "data"} : line' = [line EXCEPT !.kind = k, !.sound = FALSE]
    BY <1>6 DEF Damage
  <2>2. /\ line.kind \in {"header", "data"} /\ line'.kind \in {line.kind, "data"}
        /\ line'.seq = line.seq
        /\ UNCHANGED <<flash, pc, reply>>
    BY <1>6, <2>1 DEF Damage, UpdateTypeOK, Item
  <2>. QED BY <2>2 DEF PageStart
<1>7. CASE LoseReply
  <2>1. reply # <<>> /\ reply' = Tail(reply) /\ UNCHANGED <<flash, pc, line>>
    BY <1>7 DEF LoseReply
  <2>. QED BY <2>1, TailUpdates DEF PageStart
<1>8. CASE PowerLoss
  <2>1. pc' = "reset" /\ UNCHANGED <<line, reply>> /\ (pc # "erase" => flash' = flash)
    BY <1>8 DEF PowerLoss
  <2>. QED BY <2>1, HasMore DEF PageStart
<1>. QED BY <1>5, <1>6, <1>7, <1>8 DEF Fault

LEMMA UpdateNextInv == BootInv /\ [UpdateNext]_updateVars => BootInv'
<1> SUFFICES ASSUME BootInv, [UpdateNext]_updateVars PROVE BootInv'
  OBVIOUS
<1>1. CASE UNCHANGED updateVars
  <2>1. UpdateTypeOK'
    BY UpdateTypes DEF BootInv
  <2>. QED
    BY <1>1, <2>1 DEF updateVars, memory, box, host, BootInv, TriggerInv, UnlockInv, OneRequest,
                      WrittenInv, EraseInv, DoneInv, Carries, PageStart
<1>. QED BY <1>1, BoxKeepsInv, ToolKeepsInv, FaultKeepsInv DEF UpdateNext

-----------------------------------------------------------------------------
(* Box, line and tool keep their types through every accident.             *)
THEOREM UpdateTypeCorrect == UpdateSpec => []UpdateTypeOK
<1>1. BootInv => UpdateTypeOK
  BY DEF BootInv
<1>. QED BY UpdateInitInv, UpdateNextInv, <1>1, PTL DEF UpdateSpec

(* A record the tool has seen acknowledged is in the flash as long as the  *)
(* session lasts: for every size of partition, page and image and any      *)
(* number of faults.                                                       *)
THEOREM AckedStaysWritten == UpdateSpec => []AckedIsWritten
<1>1. BootInv => AckedIsWritten
  BY DEF BootInv, WrittenInv, Written, AckedIsWritten, Free
<1>. QED BY UpdateInitInv, UpdateNextInv, <1>1, PTL DEF UpdateSpec

(* When the tool reports success, and the key of the image came through,   *)
(* the whole image is in the flash.                                        *)
THEOREM SuccessIsImage == UpdateSpec => []SuccessMeansImage
<1>1. BootInv => SuccessMeansImage
  BY DEF BootInv, DoneInv, Written, SuccessMeansImage, Installed
<1>. QED BY UpdateInitInv, UpdateNextInv, <1>1, PTL DEF UpdateSpec
=============================================================================
