----------------------------- MODULE VtsFifoRef -----------------------------
(***************************************************************************)
(* The ring of VtsFifo implements the bounded queue DropOldest, as long as *)
(* no pop overlaps a push that drops.  A put is the store of tail, a take  *)
(* the store of head by pop, a drop the free of the oldest message.        *)
(***************************************************************************)
EXTENDS VtsFifo

\* Slots at head whose message is already gone from the abstract queue.
Skip == IF ppc \in {"dropnull", "drophead"} THEN 1 ELSE 0

\* The i-th message of the queue: the oldest is in out while its slot is empty.
Nth(i) ==
  LET j == (head + Skip + i - 1) % Cap
  IN  IF j = head /\ cpc = "sethead" THEN out ELSE buf[j]

Queue ==
  IF released THEN <<>> ELSE [i \in 1 .. Depth(head, tail) - Skip |-> Nth(i)]

Abs == INSTANCE DropOldest WITH
  Capacity <- Cap - 1,
  n <- Published,
  q <- Queue,
  hand <- IF cpc \in {"loadm", "storem", "log"} THEN out ELSE NULL,
  closed <- released

(* The ring behaves as the queue the header describes: messages leave it in *)
(* the order they entered it, and one is dropped only when Cap - 1 are in.  *)
ImplementsDropOldest == Abs!Spec

=============================================================================
