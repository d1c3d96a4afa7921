------------------------------ MODULE LossyFifo ------------------------------
(***************************************************************************)
(* What a receive ring promises to the driver that fills it and to the     *)
(* main loop that drains it: a bounded first-in first-out queue that       *)
(* refuses the newest element when it is full, and that may refuse         *)
(* elements while the driver re-initialises it (open = FALSE).             *)
(***************************************************************************)
EXTENDS Naturals, Sequences

CONSTANTS Data,      \* the frames or bytes that arrive
          Capacity,  \* the number of slots
          NoData     \* "nothing delivered yet"

VARIABLES queue,     \* accepted and not yet delivered, oldest first
          verdict,   \* what the last push returned
          out,       \* what the last pop delivered
          open       \* FALSE while the ring is being re-initialised

fifoVars == <<queue, verdict, out, open>>

Init ==
  /\ queue = <<>>
  /\ verdict = "none"
  /\ out = NoData
  /\ open = TRUE

Accept(d) ==
  /\ Len(queue) < Capacity
  /\ queue' = Append(queue, d)
  /\ verdict' = "taken"
  /\ UNCHANGED <<out, open>>

Refuse ==
  /\ Len(queue) = Capacity \/ ~open
  /\ verdict' = "refused"
  /\ UNCHANGED <<queue, out, open>>

Deliver ==
  /\ open
  /\ queue # <<>>
  /\ out' = Head(queue)
  /\ queue' = Tail(queue)
  /\ UNCHANGED <<verdict, open>>

BeginClear ==
  /\ open
  /\ open' = FALSE
  /\ queue' = <<>>
  /\ UNCHANGED <<verdict, out>>

EndClear ==
  /\ ~open
  /\ open' = TRUE
  /\ UNCHANGED <<queue, verdict, out>>

Next ==
  \/ \E d \in Data : Accept(d)
  \/ Refuse
  \/ Deliver
  \/ BeginClear
  \/ EndClear

Spec == Init /\ [][Next]_fifoVars
=============================================================================
