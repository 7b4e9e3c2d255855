----------------------------- MODULE DropOldest -----------------------------
(***************************************************************************)
(* What vts_fifo.h promises: a bounded queue that delivers its messages in *)
(* the order they were put, and makes room by dropping the oldest, only    *)
(* when it is full.  Message k is the k-th one put.                        *)
(***************************************************************************)
EXTENDS Naturals, Sequences

CONSTANT Capacity

VARIABLES
  n,     \* messages put so far
  q,     \* the queue
  hand,  \* the message taken and not delivered yet, or 0
  log,   \* the messages delivered
  closed \* the queue was released, with what it still held

vars == <<n, q, hand, log, closed>>

Init == n = 0 /\ q = <<>> /\ hand = 0 /\ log = <<>> /\ closed = FALSE

Put ==
  /\ Len(q) < Capacity
  /\ n' = n + 1
  /\ q' = Append(q, n + 1)
  /\ UNCHANGED <<hand, log, closed>>

Drop ==
  /\ Len(q) = Capacity
  /\ q' = Tail(q)
  /\ UNCHANGED <<n, hand, log, closed>>

Take ==
  /\ hand = 0
  /\ q # <<>>
  /\ hand' = Head(q)
  /\ q' = Tail(q)
  /\ UNCHANGED <<n, log, closed>>

Deliver ==
  /\ hand # 0
  /\ log' = Append(log, hand)
  /\ hand' = 0
  /\ UNCHANGED <<n, q, closed>>

Close ==
  /\ hand = 0
  /\ closed' = TRUE
  /\ q' = <<>>
  /\ UNCHANGED <<n, hand, log>>

Next == ~closed /\ (Put \/ Drop \/ Take \/ Deliver \/ Close)

Spec == Init /\ [][Next]_vars

=============================================================================
