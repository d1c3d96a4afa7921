----------------------------- MODULE RingBuffer -----------------------------
(***************************************************************************)
(* src/core/ring_buffer.c as the MCU drivers use it: the receive interrupt *)
(* is the only producer, the main loop the only consumer, no lock between  *)
(* them.  A push and a pop are split at every access the other side can    *)
(* observe: the check of the two counters, the copy of the element (torn   *)
(* until it is complete), the publication of the counter.  head and tail   *)
(* are free-running counters that wrap at Wrap (2^32 on the targets).      *)
(*                                                                         *)
(* The main loop also re-initialises the live ring (hal_can_init, called   *)
(* when the head unit announces a car) while the interrupt stays enabled.  *)
(* An interrupt runs to completion before the main loop continues, so the  *)
(* two stores of ring_buffer_init never interrupt a push; a push may fall  *)
(* between them.                                                           *)
(***************************************************************************)
EXTENDS Integers, Sequences

CONSTANTS Data,      \* the frames or bytes that arrive
          Capacity,  \* slots of the ring
          Wrap,      \* the counters count modulo Wrap
          NoData,    \* no element
          Torn       \* content of a slot whose copy is under way

(* ring_buffer_init refuses a capacity that is not a power of two; what    *)
(* the masked index needs of it is that Capacity divides Wrap.             *)
ASSUME RingAssumption ==
  /\ Capacity \in Nat \ {0}
  /\ Wrap \in Nat
  /\ Wrap > Capacity
  /\ Wrap % Capacity = 0
  /\ NoData \notin Data
  /\ Torn \notin Data
  /\ Torn # NoData

VARIABLES head, tail, slots,             \* ring_buffer_t
          pcP, pHead, pItem, verdict,    \* the interrupt: locals of push, its result
          pcC, cTail, cItem, out,        \* the main loop: locals of pop, its result
          resetting                      \* between the two stores of init

producerVars == <<pcP, pHead, pItem, verdict>>
consumerVars == <<pcC, cTail, cItem, out>>
vars == <<head, tail, slots, producerVars, consumerVars, resetting>>

Index(n) == n % Capacity
Succ(n) == IF n + 1 = Wrap THEN 0 ELSE n + 1

(* head - tail in the unsigned arithmetic of size_t.                       *)
Count(h, t) == IF h >= t THEN h - t ELSE h - t + Wrap

IsFull(h, t) == Count(h, t) >= Capacity
IsEmpty(h, t) == h = t

Init ==
  /\ head = 0 /\ tail = 0
  /\ slots = [i \in 0 .. Capacity - 1 |-> NoData]
  /\ pcP = "idle" /\ pHead = 0 /\ pItem = NoData /\ verdict = "none"
  /\ pcC = "idle" /\ cTail = 0 /\ cItem = NoData /\ out = NoData
  /\ resetting = FALSE

-----------------------------------------------------------------------------
(* ring_buffer_push                                                        *)
PushRefused ==
  /\ pcP = "idle"
  /\ IsFull(head, tail)
  /\ verdict' = "refused"
  /\ UNCHANGED <<head, tail, slots, pcP, pHead, pItem, consumerVars, resetting>>

(* Mutant: the counter is published before the element is copied.          *)
PushStartPublishes(d) ==
  /\ pcP = "idle"
  /\ ~IsFull(head, tail)
  /\ pcP' = "copy"
  /\ pHead' = head
  /\ pItem' = d
  /\ head' = Succ(head)
  /\ UNCHANGED <<tail, slots, verdict, consumerVars, resetting>>

PushStart(d) ==
  /\ pcP = "idle"
  /\ ~IsFull(head, tail)
  /\ pcP' = "copy"
  /\ pHead' = head
  /\ pItem' = d
  /\ UNCHANGED <<head, tail, slots, verdict, consumerVars, resetting>>

PushTear ==
  /\ pcP = "copy"
  /\ pcP' = "fill"
  /\ slots' = [slots EXCEPT ![Index(pHead)] = Torn]
  /\ UNCHANGED <<head, tail, pHead, pItem, verdict, consumerVars, resetting>>

PushFill ==
  /\ pcP = "fill"
  /\ pcP' = "publish"
  /\ slots' = [slots EXCEPT ![Index(pHead)] = pItem]
  /\ UNCHANGED <<head, tail, pHead, pItem, verdict, consumerVars, resetting>>

PushPublish ==
  /\ pcP = "publish"
  /\ pcP' = "idle"
  /\ head' = Succ(pHead)
  /\ verdict' = "taken"
  /\ UNCHANGED <<tail, slots, pHead, pItem, consumerVars, resetting>>

-----------------------------------------------------------------------------
(* ring_buffer_pop; on an empty ring it returns false and changes nothing. *)
(* Mutant: the slot is freed before it is copied out.                      *)
PopStartFrees ==
  /\ pcC = "idle" /\ ~resetting
  /\ ~IsEmpty(head, tail)
  /\ pcC' = "copy"
  /\ cTail' = tail
  /\ tail' = Succ(tail)
  /\ UNCHANGED <<head, slots, producerVars, cItem, out, resetting>>

PopStart ==
  /\ pcC = "idle" /\ ~resetting
  /\ ~IsEmpty(head, tail)
  /\ pcC' = "copy"
  /\ cTail' = tail
  /\ UNCHANGED <<head, tail, slots, producerVars, cItem, out, resetting>>

PopCopy ==
  /\ pcC = "copy"
  /\ pcC' = "advance"
  /\ cItem' = slots[Index(cTail)]
  /\ UNCHANGED <<head, tail, slots, producerVars, cTail, out, resetting>>

(* Mutant: the element is handed out and stays in the ring.                *)
PopAdvanceStuck ==
  /\ pcC = "advance"
  /\ pcC' = "idle"
  /\ out' = cItem
  /\ UNCHANGED <<head, tail, slots, producerVars, cTail, cItem, resetting>>

PopAdvance ==
  /\ pcC = "advance"
  /\ pcC' = "idle"
  /\ tail' = Succ(cTail)
  /\ out' = cItem
  /\ UNCHANGED <<head, slots, producerVars, cTail, cItem, resetting>>

-----------------------------------------------------------------------------
(* ring_buffer_init on a ring in use, from the main loop between two pops. *)
ResetHead ==
  /\ pcC = "idle" /\ pcP = "idle" /\ ~resetting
  /\ resetting' = TRUE
  /\ head' = 0
  /\ UNCHANGED <<tail, slots, producerVars, consumerVars>>

ResetTail ==
  /\ resetting /\ pcP = "idle"
  /\ resetting' = FALSE
  /\ tail' = 0
  /\ UNCHANGED <<head, slots, producerVars, consumerVars>>

-----------------------------------------------------------------------------
Push == PushRefused \/ (\E d \in Data : PushStart(d)) \/ PushTear \/ PushFill \/ PushPublish
Pop == PopStart \/ PopCopy \/ PopAdvance
Next == Push \/ Pop \/ ResetHead \/ ResetTail

Spec == Init /\ [][Next]_vars

(* The interrupt, once entered, runs to its end; the main loop keeps       *)
(* popping and completes a reset it has begun.  Arrivals are not fair.     *)
Fairness ==
  /\ WF_vars(PushTear) /\ WF_vars(PushFill) /\ WF_vars(PushPublish)
  /\ WF_vars(Pop) /\ WF_vars(ResetTail)

FairSpec == Spec /\ Fairness

-----------------------------------------------------------------------------
TypeOK ==
  /\ head \in 0 .. Wrap - 1 /\ tail \in 0 .. Wrap - 1
  /\ slots \in [0 .. Capacity - 1 -> Data \cup {NoData, Torn}]
  /\ pcP \in {"idle", "copy", "fill", "publish"}
  /\ pHead \in 0 .. Wrap - 1
  /\ pItem \in Data \cup {NoData}
  /\ verdict \in {"none", "taken", "refused"}
  /\ pcC \in {"idle", "copy", "advance"}
  /\ cTail \in 0 .. Wrap - 1
  /\ cItem \in Data \cup {NoData, Torn}
  /\ out \in Data \cup {NoData, Torn}
  /\ resetting \in BOOLEAN

(* The counters never drift further apart than the ring has slots, across  *)
(* their wrap-around and across a re-initialisation of the live ring:      *)
(* otherwise ring_buffer_pop would hand out slots overwritten since.       *)
BoundedCount == ~resetting => Count(head, tail) <= Capacity

(* The interrupt never writes the slot the main loop is copying out of,    *)
(* although neither side takes a lock.                                     *)
NoSlotRace ==
  ~(/\ pcP \in {"copy", "fill"}
    /\ pcC = "copy"
    /\ Index(pHead) = Index(cTail))

(* The elements accepted and not yet delivered, oldest first.  While the   *)
(* ring is re-initialised the survivors are those pushed since head was    *)
(* cleared.                                                                *)
Pending ==
  IF resetting THEN [i \in 1 .. head |-> slots[Index(i - 1)]]
  ELSE [i \in 1 .. Count(head, tail) |-> slots[Index(tail + i - 1)]]

(* The ring implements the bounded lossy queue: no element is torn,        *)
(* duplicated, reordered or lost once accepted, and a push is refused only *)
(* when the ring holds Capacity elements or is being re-initialised.       *)
Fifo == INSTANCE LossyFifo WITH queue <- Pending, open <- ~resetting
ImplementsFifo == Fifo!Spec

(* Whatever position the interrupt has published, the main loop gets       *)
(* there, unless the ring is re-initialised meanwhile.                     *)
EventuallyDrained ==
  \A n \in 0 .. Wrap - 1 : (head = n) ~> (tail = n \/ resetting)
=============================================================================
