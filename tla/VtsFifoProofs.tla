--------------------------- MODULE VtsFifoProofs ---------------------------
(***************************************************************************)
(* Proofs about VtsFifo, for every capacity and every number of messages:  *)
(* the type invariant of the calm regime, the safety of the ring, and that *)
(* it implements the bounded queue.                                        *)
(***************************************************************************)
EXTENDS VtsFifoRef, TLAPS

-----------------------------------------------------------------------------
(* The inductive invariant.                                                 *)

\* Between the load of head and the store of tail.
PrePublish == ppc \in {"loadm", "drop", "dropnull", "drophead", "store", "settail"}

\* The producer: a push that goes on to store has room; a push that drops
\* holds the current head and has the ring to itself.
ProducerInv ==
  /\ PrePublish => np > 0
  /\ ppc \in {"store", "settail"} => next_idx(tail) # head
  /\ ppc = "loadm" /\ next_idx(tail) # pHead => next_idx(tail) # head
  /\ Dropping => pHead = head /\ next_idx(tail) = head /\ ~InPop

\* The consumer: inside pop its copy of head is current, and what it holds is
\* the oldest message until it stores head, and an older one afterwards.
ConsumerInv ==
  /\ InPop => cHead = head
  /\ cpc \in {"read", "null", "sethead"} => head # tail
  /\ cpc \in {"null", "sethead"} => out = Oldest
  /\ Holding => out \in 1 .. Oldest - 1

\* What was logged is older than what is held, and what is held older than
\* what is in the ring.
LogInv ==
  /\ LogInOrder
  /\ \A i \in 1 .. Len(log) : log[i] < Oldest
  /\ cpc \in {"loadm", "storem", "log"} => \A i \in 1 .. Len(log) : log[i] < out

\* A message that has left the ring was logged, is about to be, or was pushed
\* out by Cap - 1 younger ones.
DropInv ==
  \A k \in 1 .. Oldest - 1 :
    \/ k \in Logged
    \/ cpc \in {"loadm", "storem", "log"} /\ k = out
    \/ k + Cap - 1 <= np

CalmInv ==
  /\ TypeOK
  /\ Oldest >= 1
  /\ released => cpc = "done" /\ ppc = "done"
  /\ ProducerInv
  /\ ConsumerInv
  /\ RingHolds
  /\ EachFreedOnce
  /\ LogInv
  /\ DropInv

-----------------------------------------------------------------------------
(* Arithmetic of the indices: vts_fifo_depth counts the steps of next_idx.  *)

(* next_idx stays in the ring.                                              *)
LEMMA NextIdx ==
  \A i \in Idx : next_idx(i) \in Idx
BY CapAssumption DEF Idx, next_idx

(* vts_fifo_depth is less than the capacity.                                *)
LEMMA DepthType ==
  \A h, t \in Idx : Depth(h, t) \in Idx
BY CapAssumption DEF Idx, Depth

(* vts_fifo_depth is 0 exactly when pop finds the ring empty.               *)
LEMMA DepthZero ==
  \A h, t \in Idx : (Depth(h, t) = 0) <=> (h = t)
BY CapAssumption DEF Idx, Depth

(* push finds the ring full exactly when Cap - 1 slots are in use.          *)
LEMMA DepthFull ==
  \A h, t \in Idx : (next_idx(t) = h) <=> (Depth(h, t) = Cap - 1)
BY CapAssumption DEF Idx, Depth, next_idx

(* Moving tail on, in a ring that is not full, adds one slot.               *)
LEMMA DepthTail ==
  \A h, t \in Idx : next_idx(t) # h => Depth(h, next_idx(t)) = Depth(h, t) + 1
BY CapAssumption DEF Idx, Depth, next_idx

(* Moving head on brings every slot one nearer, and the old head last.      *)
LEMMA DepthHead ==
  \A h, j \in Idx :
    Depth(next_idx(h), j) = IF j = h THEN Cap - 1 ELSE Depth(h, j) - 1
BY CapAssumption DEF Idx, Depth, next_idx

(* Two slots are not at the same distance from head.                        *)
LEMMA DepthInjective ==
  \A h, i, j \in Idx : Depth(h, i) = Depth(h, j) => i = j
BY CapAssumption DEF Idx, Depth

(* Every distance is that of some slot.                                     *)
LEMMA DepthOnto ==
  \A h \in Idx, d \in Idx : \E j \in Idx : Depth(h, j) = d
<1> SUFFICES ASSUME NEW h \in Idx, NEW d \in Idx
             PROVE  \E j \in Idx : Depth(h, j) = d
  OBVIOUS
<1>1. CASE h + d < Cap
  <2>1. h + d \in Idx /\ Depth(h, h + d) = d
    BY <1>1, CapAssumption DEF Idx, Depth
  <2> QED BY <2>1
<1>2. CASE ~(h + d < Cap)
  <2>1. h + d - Cap \in Idx /\ Depth(h, h + d - Cap) = d
    BY <1>2, CapAssumption DEF Idx, Depth
  <2> QED BY <2>1
<1> QED BY <1>1, <1>2

(* vts_fifo_init establishes the invariant.                                 *)
THEOREM CalmInit == Init => CalmInv
<1> SUFFICES ASSUME Init PROVE CalmInv
  OBVIOUS
<1> USE CapAssumption, MaxMsgAssumption
<1>0. 0 \in Idx /\ Depth(0, 0) = 0
  BY DEF Idx, Depth
<1>1. TypeOK
  BY <1>0 DEF Init, TypeOK, NULL
<1>2. Published = 0 /\ Oldest = 1
  BY <1>0 DEF Init, Published, Oldest
<1>3. ProducerInv /\ ConsumerInv
  BY DEF Init, ProducerInv, ConsumerInv, PrePublish, Dropping, InPop, Holding
<1>4. RingHolds
  BY <1>0, DepthType DEF Init, RingHolds, Live, Idx
<1>5. EachFreedOnce
  BY <1>2 DEF Init, EachFreedOnce, Holding
<1>6. LogInv /\ DropInv
  BY <1>2 DEF Init, LogInv, DropInv, LogInOrder, Logged
<1> QED BY <1>1, <1>2, <1>3, <1>4, <1>5, <1>6 DEF CalmInv, Init

(* The producer's steps leave the consumer and main alone.                   *)
LEMMA PushSteps ==
  ASSUME PushLoad \/ Pushing \/ RecvExit
  PROVE  ppc # "done" /\ UNCHANGED cvars /\ UNCHANGED mvars
<1>1. CASE PushLoad \/ PushLoadM \/ DropFree \/ DropNull \/ DropHead \/ PushStore
  BY <1>1 DEF PushLoad, PushLoadM, DropFree, DropNull, DropHead, PushStore
<1>2. CASE PushTail \/ PushStoreM \/ DepthLoadM \/ DepthLoad \/ DepthStore \/ RecvExit
  BY <1>2 DEF PushTail, PushStoreM, DepthLoadM, DepthLoad, DepthStore, RecvExit
<1> QED BY <1>1, <1>2, Zenon DEF Pushing

(* The consumer's steps leave the producer and main alone.                   *)
LEMMA PopSteps ==
  ASSUME PopLoadHead \/ Popping
  PROVE  cpc # "done" /\ UNCHANGED pvars /\ UNCHANGED mvars
<1>1. CASE PopLoadHead \/ CoordsStop \/ PopLoadTail \/ PopRead \/ PopNull
  BY <1>1 DEF PopLoadHead, CoordsStop, PopLoadTail, PopRead, PopNull
<1>2. CASE PopHead \/ PopLoadM \/ PopStoreM \/ CoordsLog \/ CoordsFree
  BY <1>2 DEF PopHead, PopLoadM, PopStoreM, CoordsLog, CoordsFree
<1> QED BY <1>1, <1>2, Zenon DEF Popping

(* Each load and store of push, pop and their callers keeps the types.      *)
LEMMA TypeStep == CalmInv /\ CalmNext => TypeOK'
<1> SUFFICES ASSUME CalmInv, CalmNext PROVE TypeOK'
  OBVIOUS
<1> USE CapAssumption, MaxMsgAssumption, NextIdx, DepthType DEF CalmInv, TypeOK, NULL
<1>1. CASE PushLoad
  BY <1>1 DEF PushLoad, cvars, mvars
<1>2. CASE PushLoadM
  BY <1>2 DEF PushLoadM, cvars, mvars
<1>3. CASE DropFree
  BY <1>3 DEF DropFree, cvars, mvars
<1>4. CASE DropNull
  BY <1>4 DEF DropNull, cvars, mvars
<1>5. CASE DropHead
  BY <1>5 DEF DropHead, cvars, mvars
<1>6. CASE PushStore
  BY <1>6 DEF PushStore, cvars, mvars, ProducerInv, PrePublish, Msg
<1>7. CASE PushTail
  BY <1>7 DEF PushTail, cvars, mvars
<1>8. CASE PushStoreM \/ DepthLoadM \/ DepthLoad \/ DepthStore \/ RecvExit
  BY <1>8 DEF PushStoreM, DepthLoadM, DepthLoad, DepthStore, RecvExit, cvars, mvars
<1>9. CASE PopLoadHead \/ CoordsStop \/ PopLoadTail
  <2>1. CASE PopLoadHead
    BY <2>1 DEF PopLoadHead, pvars, mvars
  <2>2. CASE CoordsStop
    BY <2>2 DEF CoordsStop, pvars, mvars
  <2>3. CASE PopLoadTail
    BY <2>3 DEF PopLoadTail, AfterNull, pvars, mvars
  <2> QED BY <1>9, <2>1, <2>2, <2>3, Zenon
<1>10. CASE PopRead
  BY <1>10 DEF PopRead, pvars, mvars
<1>11. CASE PopNull
  BY <1>11 DEF PopNull, pvars, mvars
<1>12. CASE PopHead \/ PopLoadM \/ PopStoreM
  BY <1>12 DEF PopHead, PopLoadM, PopStoreM, AfterNull, pvars, mvars
<1>13. CASE CoordsLog
  <2>1. out \in Msg
    BY <1>13 DEF CoordsLog, ConsumerInv, Holding
  <2> QED BY <1>13, <2>1 DEF CoordsLog, pvars, mvars
<1>14. CASE CoordsFree
  <2>1. out \in Msg
    BY <1>14 DEF CoordsFree, ConsumerInv, Holding
  <2> QED BY <1>14, <2>1 DEF CoordsFree, pvars, mvars
<1>15. CASE on_sig
  BY <1>15 DEF on_sig, pvars, cvars
<1>16. CASE vts_fifo_free
  BY <1>16 DEF vts_fifo_free, pvars, cvars
<1> QED BY <1>1, <1>2, <1>3, <1>4, <1>5, <1>6, <1>7, <1>8, <1>9, <1>10, <1>11, <1>12,
          <1>13, <1>14, <1>15, <1>16 DEF CalmNext, Pushing, Popping, Main

(* The message numbers derived from the indices are integers.              *)
LEMMA OldestType == TypeOK => Published \in Int /\ Depth(head, tail) \in Nat /\ Oldest \in Int
<1> SUFFICES ASSUME TypeOK PROVE Published \in Int /\ Depth(head, tail) \in Nat /\ Oldest \in Int
  OBVIOUS
<1>1. Depth(head, tail) \in Idx
  BY DepthType DEF TypeOK
<1>2. Depth(head, tail) \in Nat
  BY <1>1, CapAssumption DEF Idx
<1>3. Published \in Int
  BY MaxMsgAssumption DEF TypeOK, Published
<1> QED BY <1>2, <1>3 DEF Oldest

(* Only the stores of head move the oldest message on.                      *)
LEMMA OldestStep ==
  ASSUME CalmInv, CalmNext
  PROVE  /\ DropHead \/ PopHead => Oldest' = Oldest + 1 /\ Published' = Published
         /\ ~(DropHead \/ PopHead) => Oldest' = Oldest
<1> USE CapAssumption, MaxMsgAssumption DEF CalmInv, TypeOK, Oldest
<1>0. Depth(head, tail) \in Idx /\ Published \in Int
  BY DepthType DEF Published
<1>1. CASE DropHead
  <2>1. pHead = head /\ head # tail
    BY <1>1, DepthFull, DepthZero DEF DropHead, ProducerInv, Dropping, Idx
  <2>2. Depth(head', tail') = Depth(head, tail) - 1
    BY <1>1, <2>1, DepthHead DEF DropHead
  <2>3. Published' = Published
    BY <1>1 DEF DropHead, Published
  <2>4. QED BY <1>0, <1>1, <2>2, <2>3 DEF Idx
<1>2. CASE PopHead
  <2>1. cHead = head /\ head # tail
    BY <1>2 DEF PopHead, ConsumerInv, InPop
  <2>2. Depth(head', tail') = Depth(head, tail) - 1
    BY <1>2, <2>1, DepthHead DEF PopHead
  <2>3. Published' = Published
    BY <1>2 DEF PopHead, Published, pvars
  <2>4. QED BY <1>0, <1>2, <2>2, <2>3 DEF Idx
<1>3. CASE PushTail
  <2>1. next_idx(tail) # head
    BY <1>3 DEF PushTail, ProducerInv
  <2>2. Depth(head', tail') = Depth(head, tail) + 1
    BY <1>3, <2>1, DepthTail DEF PushTail
  <2>3. Published' = Published + 1
    BY <1>3 DEF PushTail, Published
  <2>4. ~DropHead /\ ~PopHead
    BY <1>3 DEF PushTail, DropHead, PopHead, cvars
  <2>5. QED BY <1>0, <2>2, <2>3, <2>4 DEF Idx
<1>4. CASE PushLoad \/ (Pushing /\ ~DropHead /\ ~PushTail) \/ RecvExit
  <2>1. head' = head /\ tail' = tail /\ Published' = Published
    BY <1>4 DEF PushLoad, Pushing, PushLoadM, DropFree, DropNull, PushStore, PushStoreM,
               DepthLoadM, DepthLoad, DepthStore, RecvExit, Published
  <2>2. ~DropHead /\ ~PopHead
    BY <1>4 DEF PushLoad, Pushing, PushLoadM, DropFree, DropNull, PushStore, PushStoreM,
               DepthLoadM, DepthLoad, DepthStore, RecvExit, DropHead, PopHead, cvars
  <2>3. QED BY <2>1, <2>2
<1>5. CASE PopLoadHead \/ (Popping /\ ~PopHead) \/ Main
  <2>1. head' = head /\ tail' = tail /\ Published' = Published
    BY <1>5 DEF PopLoadHead, Popping, CoordsStop, PopLoadTail, PopRead, PopNull, PopLoadM,
               PopStoreM, CoordsLog, CoordsFree, Main, on_sig, vts_fifo_free, Published, pvars
  <2>2. ~DropHead
    BY <1>5 DEF PopLoadHead, Popping, CoordsStop, PopLoadTail, PopRead, PopNull, PopLoadM,
               PopStoreM, CoordsLog, CoordsFree, Main, on_sig, vts_fifo_free, DropHead, pvars
  <2>3. ~PopHead
    BY <1>5 DEF PopLoadHead, Popping, CoordsStop, PopLoadTail, PopRead, PopNull, PopLoadM,
               PopStoreM, CoordsLog, CoordsFree, Main, on_sig, vts_fifo_free, PopHead, cvars
  <2>4. QED BY <2>1, <2>2, <2>3
<1>6. QED BY <1>1, <1>2, <1>3, <1>4, <1>5 DEF CalmNext, Pushing, Popping

(* A push that found room keeps it, and one that drops keeps the ring to    *)
(* itself, whatever pop does meanwhile.                                     *)
LEMMA ProducerStep == CalmInv /\ CalmNext => ProducerInv'
<1> SUFFICES ASSUME CalmInv, CalmNext PROVE ProducerInv'
  OBVIOUS
<1> USE CapAssumption, MaxMsgAssumption DEF CalmInv, TypeOK, ProducerInv, PrePublish, Dropping, InPop
<1>1. CASE (~Full \/ ~InPop) /\ PushLoad
  BY <1>1 DEF PushLoad, Full, cvars, mvars
<1>2. CASE PushLoadM \/ DropFree \/ DropNull
  BY <1>2 DEF PushLoadM, DropFree, DropNull, cvars, mvars
<1>3. CASE DropHead
  <2>1. next_idx(tail) # next_idx(head)
    BY <1>3 DEF DropHead, next_idx, Idx
  <2> QED BY <1>3, <2>1 DEF DropHead, cvars, mvars
<1>4. CASE PushStore \/ PushTail \/ PushStoreM \/ DepthLoadM \/ DepthLoad \/ DepthStore \/ RecvExit
  BY <1>4 DEF PushStore, PushTail, PushStoreM, DepthLoadM, DepthLoad, DepthStore, RecvExit
<1>5. CASE ~Dropping /\ PopLoadHead
  BY <1>5 DEF PopLoadHead, pvars, mvars
<1>6. CASE PopHead
  <2>1. cHead = head /\ head # tail
    BY <1>6 DEF PopHead, ConsumerInv
  <2>2. next_idx(tail) # next_idx(head)
    BY <2>1 DEF next_idx, Idx
  <2> QED BY <1>6, <2>1, <2>2 DEF PopHead, pvars, mvars
<1>7. CASE Popping /\ ~PopHead
  BY <1>7 DEF Popping, CoordsStop, PopLoadTail, PopRead, PopNull, PopLoadM, PopStoreM,
             CoordsLog, CoordsFree, AfterNull, pvars, mvars
<1>8. CASE Main
  BY <1>8 DEF Main, on_sig, vts_fifo_free, pvars, cvars
<1> QED BY <1>1, <1>2, <1>3, <1>4, <1>5, <1>6, <1>7, <1>8 DEF CalmNext, Pushing

(* Inside pop the copy of head stays current and the message read is the    *)
(* oldest one, whatever push does meanwhile.                                *)
LEMMA ConsumerStep == CalmInv /\ CalmNext => ConsumerInv'
<1> SUFFICES ASSUME CalmInv, CalmNext PROVE ConsumerInv'
  OBVIOUS
<1> USE CapAssumption, MaxMsgAssumption DEF CalmInv, TypeOK, ConsumerInv, Holding, InPop
<1>0. Oldest \in Int
  BY OldestType
<1>1. CASE PushLoad \/ (Pushing /\ ~DropHead /\ ~PushTail) \/ RecvExit
  <2>1. head' = head /\ tail' = tail /\ UNCHANGED cvars
    BY <1>1 DEF PushLoad, Pushing, PushLoadM, DropFree, DropNull, PushStore, PushStoreM,
               DepthLoadM, DepthLoad, DepthStore, RecvExit
  <2>2. ~DropHead /\ ~PopHead
    BY <1>1, <2>1 DEF PushLoad, Pushing, PushLoadM, DropFree, DropNull, PushStore, PushStoreM,
               DepthLoadM, DepthLoad, DepthStore, RecvExit, DropHead, PopHead, cvars
  <2> QED BY <2>1, <2>2, OldestStep DEF cvars
<1>2. CASE PushTail
  <2>1. ~DropHead /\ ~PopHead
    BY <1>2 DEF PushTail, DropHead, PopHead, cvars
  <2>2. Oldest' = Oldest
    BY <2>1, OldestStep
  <2>3. next_idx(tail) # head
    BY <1>2 DEF PushTail, ProducerInv
  <2> QED BY <1>2, <2>2, <2>3 DEF PushTail, cvars
<1>3. CASE DropHead
  <2>1. ~InPop
    BY <1>3 DEF DropHead, ProducerInv, Dropping
  <2>2. Oldest' = Oldest + 1
    BY <1>3, OldestStep
  <2> QED BY <1>0, <1>3, <2>1, <2>2 DEF DropHead, cvars
<1>4. CASE PopHead
  <2>1. Oldest' = Oldest + 1
    BY <1>4, OldestStep
  <2> QED BY <1>0, <1>4, <2>1 DEF PopHead
<1>5. CASE PopRead
  <2>1. Oldest' = Oldest
    BY <1>5, OldestStep DEF PopRead, PopHead, DropHead, pvars
  <2>2. Live(head) /\ Depth(head, head) = 0
    <3>1. head # tail
      BY <1>5 DEF PopRead
    <3>2. Depth(head, tail) # 0 /\ Depth(head, head) = 0
      BY <3>1, DepthZero
    <3> QED BY <3>2, OldestType DEF Live
  <2>3. ~released /\ cpc # "sethead" /\ ppc # "drophead"
    BY <1>5 DEF PopRead, ProducerInv, Dropping
  <2>4. buf[head] = Oldest
    BY <1>0, <2>2, <2>3 DEF RingHolds
  <2> QED BY <1>5, <2>1, <2>4 DEF PopRead
<1>6. CASE PopLoadHead \/ (Popping /\ ~PopHead /\ ~PopRead) \/ Main
  <2>1. ~DropHead
    BY <1>6 DEF PopLoadHead, Popping, CoordsStop, PopLoadTail, PopNull, PopLoadM,
               PopStoreM, CoordsLog, CoordsFree, Main, on_sig, vts_fifo_free, DropHead, pvars
  <2>2. ~PopHead
    BY <1>6 DEF PopLoadHead, Main, on_sig, vts_fifo_free, PopHead, cvars
  <2>3. Oldest' = Oldest
    BY <2>1, <2>2, OldestStep
  <2> QED BY <1>6, <2>3 DEF PopLoadHead, Popping, CoordsStop, PopLoadTail, PopNull, PopLoadM,
               PopStoreM, CoordsLog, CoordsFree, Main, on_sig, vts_fifo_free, AfterNull, cvars
<1> QED BY <1>1, <1>2, <1>3, <1>4, <1>5, <1>6 DEF CalmNext, Pushing, Popping

(* Each step keeps the messages of the ring in their slots.                 *)
LEMMA RingStep == CalmInv /\ CalmNext => RingHolds'
<1> SUFFICES ASSUME CalmInv, CalmNext, ~released' PROVE RingHolds'
  BY DEF RingHolds
<1> USE CapAssumption, MaxMsgAssumption DEF CalmInv, NULL
<1>0. /\ Published \in Int /\ Depth(head, tail) \in Nat /\ Oldest \in Int
      /\ \A j \in Idx : Depth(head, j) \in Nat /\ Depth(head, j) < Cap
  <2>1. \A j \in Idx : Depth(head, j) \in Idx
    BY DepthType DEF TypeOK
  <2>2. \A d \in Idx : d \in Nat /\ d < Cap
    BY DEF Idx
  <2> QED BY <2>1, <2>2, OldestType
<1>1. CASE PushLoad \/ PushLoadM \/ DropFree \/ PushStoreM \/ DepthLoadM \/ DepthLoad
           \/ DepthStore \/ RecvExit
  <2>1. /\ UNCHANGED <<head, tail, buf, cvars, released>>
        /\ ppc \notin {"drophead", "settail"} /\ ppc' \notin {"drophead", "settail"}
    BY <1>1 DEF PushLoad, PushLoadM, DropFree, PushStoreM, DepthLoadM, DepthLoad, DepthStore,
               RecvExit, mvars
  <2>2. Oldest' = Oldest
    BY <2>1, OldestStep DEF DropHead, PopHead, cvars
  <2> QED BY <2>1, <2>2 DEF RingHolds, Live, cvars
<1>2. CASE DropNull
  <2>1. pHead = head /\ next_idx(tail) = head /\ ~InPop
    BY <1>2 DEF DropNull, ProducerInv, Dropping
  <2>2. Depth(head, head) = 0 /\ Depth(head, tail) = Cap - 1
    BY <2>1, DepthZero, DepthFull DEF TypeOK
  <2>3. Oldest' = Oldest
    BY <1>2, OldestStep DEF DropNull, DropHead, PopHead, cvars
  <2> QED BY <1>0, <1>2, <2>1, <2>2, <2>3 DEF DropNull, RingHolds, Live, TypeOK, InPop, cvars, mvars
<1>3. CASE DropHead
  <2>1. pHead = head /\ next_idx(tail) = head /\ ~InPop
    BY <1>3 DEF DropHead, ProducerInv, Dropping
  <2>2. Depth(head, head) = 0 /\ Depth(head, tail) = Cap - 1 /\ head # tail
    BY <2>1, DepthZero, DepthFull DEF TypeOK
  <2>3. Oldest' = Oldest + 1
    BY <1>3, OldestStep
  <2>4. \A j \in Idx : Depth(head', j) = IF j = head THEN Cap - 1 ELSE Depth(head, j) - 1
    BY <1>3, <2>1, DepthHead DEF DropHead, TypeOK
  <2>5. Depth(head', tail') = Depth(head, tail) - 1
    BY <1>3, <2>2, <2>4 DEF DropHead, TypeOK
  <2>6. /\ buf' = buf /\ tail' = tail /\ ~released
        /\ cpc' # "sethead" /\ ppc = "drophead" /\ ppc' = "store"
    BY <1>3, <2>1 DEF DropHead, InPop, cvars, mvars
  <2> SUFFICES ASSUME NEW j \in Idx
               PROVE  buf[j] = IF Depth(head', j) < Depth(head', tail')
                               THEN Oldest' + Depth(head', j) ELSE NULL
    BY <2>6 DEF RingHolds, Live
  <2>7. buf[j] = IF Depth(head, j) < Depth(head, tail)
                 THEN IF j = head THEN NULL ELSE Oldest + Depth(head, j)
                 ELSE NULL
    BY <2>6 DEF RingHolds, Live
  <2>8. CASE j = head
    BY <1>0, <2>2, <2>4, <2>5, <2>7, <2>8
  <2>9. CASE j # head
    BY <1>0, <2>2, <2>3, <2>4, <2>5, <2>7, <2>9
  <2> QED BY <2>8, <2>9
<1>4. CASE PushStore
  <2>1. Oldest' = Oldest
    BY <1>4, OldestStep DEF PushStore, DropHead, PopHead, cvars
  <2> QED BY <1>0, <1>4, <2>1 DEF PushStore, RingHolds, Live, TypeOK, cvars, mvars
<1>5. CASE PushTail
  <2>1. Oldest' = Oldest
    BY <1>5, OldestStep DEF PushTail, DropHead, PopHead, cvars
  <2>2. Depth(head', tail') = Depth(head, tail) + 1
    BY <1>5, DepthTail DEF PushTail, ProducerInv, TypeOK
  <2>3. \A j \in Idx : Depth(head, j) = Depth(head, tail) => j = tail
    BY DepthInjective DEF TypeOK
  <2>4. np = Oldest + Depth(head, tail)
    BY <1>0, <1>5 DEF PushTail, Oldest, Published, TypeOK
  <2>5. cpc = "sethead" => head # tail
    BY DEF ConsumerInv
  <2> QED BY <1>0, <1>5, <2>1, <2>2, <2>3, <2>4, <2>5
          DEF PushTail, RingHolds, Live, TypeOK, cvars, mvars
<1>6. CASE PopNull
  <2>1. cHead = head /\ head # tail
    BY <1>6 DEF PopNull, ConsumerInv, InPop
  <2>2. Depth(head, head) = 0 /\ Depth(head, tail) # 0
    BY <2>1, DepthZero DEF TypeOK
  <2>3. Oldest' = Oldest
    BY <1>6, OldestStep DEF PopNull, DropHead, PopHead, pvars
  <2>4. ppc # "drophead"
    BY <1>6 DEF PopNull, ProducerInv, Dropping, InPop
  <2> QED BY <1>0, <1>6, <2>1, <2>2, <2>3, <2>4 DEF PopNull, RingHolds, Live, TypeOK, pvars, mvars
<1>7. CASE PopHead
  <2>1. cHead = head /\ head # tail
    BY <1>7 DEF PopHead, ConsumerInv, InPop
  <2>2. Depth(head, head) = 0 /\ Depth(head, tail) # 0
    BY <2>1, DepthZero DEF TypeOK
  <2>3. Oldest' = Oldest + 1
    BY <1>7, OldestStep
  <2>4. \A j \in Idx : Depth(head', j) = IF j = head THEN Cap - 1 ELSE Depth(head, j) - 1
    BY <1>7, <2>1, DepthHead DEF PopHead, TypeOK
  <2>5. Depth(head', tail') = Depth(head, tail) - 1
    BY <1>7, <2>1, <2>4 DEF PopHead, TypeOK
  <2>6. ppc # "drophead"
    BY <1>7 DEF PopHead, ProducerInv, Dropping, InPop
  <2>7. Depth(head, tail) < Cap
    BY <1>0 DEF TypeOK
  <2>8. /\ buf' = buf /\ tail' = tail /\ ~released
        /\ cpc = "sethead" /\ cpc' = "loadm" /\ ppc' = ppc /\ np' = np
    BY <1>7 DEF PopHead, pvars, mvars
  <2> SUFFICES ASSUME NEW j \in Idx
               PROVE  buf[j] = IF Depth(head', j) < Depth(head', tail')
                               THEN Oldest' + Depth(head', j)
                               ELSE IF j = tail /\ ppc = "settail" THEN np ELSE NULL
    BY <2>6, <2>8 DEF RingHolds, Live
  <2>9. buf[j] = IF Depth(head, j) < Depth(head, tail)
                 THEN IF j = head THEN NULL ELSE Oldest + Depth(head, j)
                 ELSE IF j = tail /\ ppc = "settail" THEN np ELSE NULL
    BY <2>8 DEF RingHolds, Live
  <2>10. CASE j = head
    BY <1>0, <2>1, <2>2, <2>4, <2>5, <2>7, <2>9, <2>10
  <2>11. CASE j # head
    BY <1>0, <2>2, <2>3, <2>4, <2>5, <2>9, <2>11
  <2> QED BY <2>10, <2>11
<1>8. CASE PopLoadHead \/ (Popping /\ ~PopHead /\ ~PopNull) \/ on_sig
  <2>1. UNCHANGED <<head, tail, buf, pvars, released>>
    BY <1>8 DEF PopLoadHead, Popping, CoordsStop, PopLoadTail, PopRead, PopLoadM, PopStoreM,
               CoordsLog, CoordsFree, on_sig, mvars
  <2>2. (cpc # "sethead" /\ cpc' # "sethead") \/ cpc' = cpc
    BY <1>8 DEF PopLoadHead, Popping, CoordsStop, PopLoadTail, PopRead, PopLoadM, PopStoreM,
               CoordsLog, CoordsFree, on_sig, AfterNull, cvars
  <2>3. ~DropHead /\ ~PopHead
    BY <1>8, <2>1 DEF DropHead, PopHead, pvars, on_sig, PopLoadHead, cvars
  <2>4. Oldest' = Oldest
    BY <2>3, OldestStep
  <2> QED BY <2>1, <2>2, <2>4 DEF RingHolds, Live, pvars
<1>9. CASE vts_fifo_free
  BY <1>9 DEF vts_fifo_free
<1> QED BY <1>1, <1>2, <1>3, <1>4, <1>5, <1>6, <1>7, <1>8, <1>9
        DEF CalmNext, Pushing, Popping, Main

(* Each step keeps the account of what was freed.                           *)
LEMMA FreedStep == CalmInv /\ CalmNext => EachFreedOnce'
<1> SUFFICES ASSUME CalmInv, CalmNext PROVE EachFreedOnce'
  OBVIOUS
<1> USE CapAssumption, MaxMsgAssumption DEF CalmInv, NULL
<1>0. /\ Published \in Int /\ Depth(head, tail) \in Nat /\ Oldest \in Int /\ Oldest >= 1
      /\ np \in Nat
  BY OldestType DEF TypeOK
<1>1. CASE PushLoad \/ PushLoadM \/ DropNull \/ PushStore \/ PushTail \/ PushStoreM
           \/ DepthLoadM \/ DepthLoad \/ DepthStore \/ RecvExit
  <2>1. /\ UNCHANGED <<freed, cvars, released>>
        /\ ppc \in {"dropnull", "drophead"} <=> ppc' \in {"dropnull", "drophead"}
        /\ ~released
    BY <1>1 DEF PushLoad, PushLoadM, DropNull, PushStore, PushTail, PushStoreM, DepthLoadM,
               DepthLoad, DepthStore, RecvExit, mvars
  <2>2. Oldest' = Oldest
    BY <1>1, OldestStep DEF PushLoad, PushLoadM, DropNull, PushStore, PushTail, PushStoreM,
               DepthLoadM, DepthLoad, DepthStore, RecvExit, DropHead, PopHead, cvars
  <2> QED BY <2>1, <2>2 DEF EachFreedOnce, Holding, cvars
<1>2. CASE DropFree
  <2>1. pHead = head /\ next_idx(tail) = head /\ ~InPop /\ ~released
    BY <1>2 DEF DropFree, ProducerInv, Dropping
  <2>2. Depth(head, head) = 0 /\ Depth(head, tail) = Cap - 1
    BY <2>1, DepthZero, DepthFull DEF TypeOK
  <2>3. buf[head] = Oldest
    BY <1>0, <1>2, <2>1, <2>2 DEF DropFree, RingHolds, Live, TypeOK, InPop
  <2>4. Oldest' = Oldest
    BY <1>2, OldestStep DEF DropFree, DropHead, PopHead, cvars
  <2>5. freed = (1 .. Oldest - 1) \ (IF Holding THEN {out} ELSE {})
    BY <1>2, <2>1 DEF DropFree, EachFreedOnce
  <2>6. Holding => out # Oldest
    BY <1>0 DEF ConsumerInv
  <2>7. freed' = (1 .. Oldest) \ (IF Holding THEN {out} ELSE {})
    BY <1>0, <1>2, <2>1, <2>3, <2>5, <2>6 DEF DropFree
  <2> QED BY <1>2, <2>1, <2>4, <2>7 DEF DropFree, EachFreedOnce, Holding, cvars, mvars
<1>3. CASE DropHead
  <2>1. Oldest' = Oldest + 1
    BY <1>3, OldestStep
  <2>2. ~released
    BY <1>3 DEF DropHead
  <2> QED BY <1>0, <1>3, <2>1, <2>2 DEF DropHead, EachFreedOnce, Holding, cvars, mvars
<1>4. CASE PopHead
  <2>1. Oldest' = Oldest + 1 /\ out = Oldest
    BY <1>4, OldestStep DEF PopHead, ConsumerInv
  <2>2. ~released /\ ppc \notin {"dropnull", "drophead"}
    BY <1>4 DEF PopHead, ProducerInv, Dropping, InPop
  <2>3. freed = 1 .. Oldest - 1
    BY <1>4, <2>2 DEF PopHead, EachFreedOnce, Holding
  <2>4. freed = (1 .. Oldest) \ {Oldest}
    BY <1>0, <2>3
  <2> QED BY <1>0, <1>4, <2>1, <2>2, <2>4 DEF PopHead, EachFreedOnce, Holding, pvars, mvars
<1>5. CASE CoordsFree
  <2>1. Oldest' = Oldest
    BY <1>5, OldestStep DEF CoordsFree, DropHead, PopHead, pvars
  <2>2. out \in 1 .. Oldest - 1 /\ ~released
    BY <1>5 DEF CoordsFree, ConsumerInv, Holding
  <2> QED BY <1>0, <1>5, <2>1, <2>2 DEF CoordsFree, EachFreedOnce, Holding, pvars, mvars
<1>6. CASE PopLoadHead \/ (Popping /\ ~PopHead /\ ~CoordsFree) \/ on_sig
  <2>1. UNCHANGED <<freed, pvars, released>>
    BY <1>6 DEF PopLoadHead, Popping, CoordsStop, PopLoadTail, PopRead, PopNull, PopLoadM,
               PopStoreM, CoordsLog, on_sig, mvars
  <2>2. (Holding <=> Holding') /\ (Holding => out' = out)
    <3>1. cpc = "storem" => out # 0
      BY DEF ConsumerInv, Holding
    <3> QED BY <1>6, <3>1 DEF PopLoadHead, Popping, CoordsStop, PopLoadTail, PopRead, PopNull,
               PopLoadM, PopStoreM, CoordsLog, on_sig, Holding, AfterNull, cvars
  <2>3. ~DropHead /\ ~PopHead
    BY <1>6, <2>1 DEF DropHead, PopHead, pvars, on_sig, PopLoadHead, cvars
  <2>4. Oldest' = Oldest
    BY <2>3, OldestStep, Zenon
  <2> QED BY <2>1, <2>2, <2>4 DEF EachFreedOnce, pvars
<1>7. CASE vts_fifo_free
  <2>1. cpc = "done" /\ ppc = "done" /\ ~released
    BY <1>7 DEF vts_fifo_free
  <2>2. freed = 1 .. Oldest - 1
    BY <2>1 DEF EachFreedOnce, Holding
  <2>3. np = Oldest + Depth(head, tail) - 1
    BY <1>0, <2>1 DEF Oldest, Published
  <2> DEFINE ring == {buf[j] : j \in {i \in Idx : Live(i)}}
  <2>4. \A j \in Idx : Depth(head, j) \in Nat
    <3>1. \A j \in Idx : Depth(head, j) \in Idx
      BY DepthType DEF TypeOK
    <3> QED BY <3>1 DEF Idx
  <2>5. \A j \in Idx : Live(j) => buf[j] = Oldest + Depth(head, j)
    BY <2>1 DEF RingHolds
  <2>6. ring \subseteq Oldest .. np
    BY <1>0, <2>3, <2>4, <2>5 DEF Live
  <2>7. Oldest .. np \subseteq ring
    <3> SUFFICES ASSUME NEW k \in Oldest .. np PROVE k \in ring
      OBVIOUS
    <3>1. Depth(head, tail) \in Idx
      BY DepthType DEF TypeOK
    <3>2. k - Oldest \in Idx /\ k - Oldest < Depth(head, tail)
      BY <1>0, <2>3, <3>1 DEF Idx
    <3>3. PICK j \in Idx : Depth(head, j) = k - Oldest
      BY <3>2, DepthOnto DEF TypeOK
    <3>4. Live(j) /\ buf[j] = k
      BY <1>0, <2>5, <3>2, <3>3 DEF Live
    <3> QED BY <3>4
  <2>8. freed' = 1 .. np
    <3>1. freed' = freed \cup (ring \ {0})
      BY <1>7 DEF vts_fifo_free
    <3>2. ring = Oldest .. np
      BY <2>6, <2>7
    <3> HIDE DEF ring
    <3>3. freed' = (1 .. Oldest - 1) \cup ((Oldest .. np) \ {0})
      BY <2>2, <3>1, <3>2
    <3> QED BY <1>0, <2>3, <3>3
  <2> QED BY <1>7, <2>1, <2>8, Zenon DEF vts_fifo_free, EachFreedOnce, Holding, pvars, cvars
<1> QED BY <1>1, <1>2, <1>3, <1>4, <1>5, <1>6, <1>7 DEF CalmNext, Pushing, Popping, Main

(* Each step keeps the log in order and accounts for what was dropped.      *)
LEMMA LogStep == CalmInv /\ CalmNext => LogInv' /\ DropInv'
<1> SUFFICES ASSUME CalmInv, CalmNext PROVE LogInv' /\ DropInv'
  OBVIOUS
<1> USE CapAssumption, MaxMsgAssumption DEF CalmInv
<1>0. /\ Published \in Int /\ Oldest \in Int /\ Oldest >= 1 /\ np \in Nat
      /\ log \in Seq(Nat) /\ \A i \in 1 .. Len(log) : log[i] \in Nat
  BY OldestType DEF TypeOK, Msg
<1>1. CASE PushLoad \/ (Pushing /\ ~DropHead) \/ RecvExit
  <2>1. UNCHANGED cvars /\ np' \in Nat /\ np' >= np
    BY <1>0, <1>1 DEF PushLoad, Pushing, PushLoadM, DropFree, DropNull, PushStore, PushTail,
               PushStoreM, DepthLoadM, DepthLoad, DepthStore, RecvExit
  <2>2. Oldest' = Oldest
    BY <1>1, OldestStep DEF PushLoad, Pushing, PushLoadM, DropFree, DropNull, PushStore, PushTail,
               PushStoreM, DepthLoadM, DepthLoad, DepthStore, RecvExit, DropHead, PopHead, cvars
  <2>3. LogInv'
    BY <2>1, <2>2 DEF LogInv, LogInOrder, cvars
  <2>4. DropInv'
    <3>1. Logged' = Logged
      BY <2>1 DEF Logged, cvars
    <3>2. \A k \in Int : k + Cap - 1 <= np => k + Cap - 1 <= np'
      BY <1>0, <2>1
    <3> QED BY <1>0, <2>1, <2>2, <3>1, <3>2 DEF DropInv, cvars
  <2> QED BY <2>3, <2>4
<1>2. CASE DropHead
  <2>1. Oldest' = Oldest + 1
    BY <1>2, OldestStep
  <2>2. Depth(head, tail) = Cap - 1 /\ Published = np - 1
    BY <1>2, DepthFull DEF DropHead, ProducerInv, Dropping, Published, TypeOK
  <2>3. Oldest + Cap - 1 <= np
    BY <1>0, <2>2 DEF Oldest
  <2>4. LogInv'
    BY <1>0, <1>2, <2>1 DEF DropHead, LogInv, LogInOrder, cvars
  <2>5. DropInv'
    BY <1>0, <1>2, <2>1, <2>3 DEF DropHead, DropInv, Logged, cvars
  <2> QED BY <2>4, <2>5
<1>3. CASE PopHead
  <2>1. Oldest' = Oldest + 1 /\ out = Oldest
    BY <1>3, OldestStep DEF PopHead, ConsumerInv
  <2>2. LogInv'
    BY <1>0, <1>3, <2>1 DEF PopHead, LogInv, LogInOrder
  <2>3. DropInv'
    <3>1. Logged' = Logged /\ np' = np
      BY <1>3 DEF PopHead, Logged, pvars
    <3>2. \A k \in 1 .. Oldest : k = Oldest \/ k \in 1 .. Oldest - 1
      BY <1>0
    <3> QED BY <1>0, <1>3, <2>1, <3>1, <3>2 DEF PopHead, DropInv
  <2> QED BY <2>2, <2>3
<1>4. CASE CoordsLog
  <2>1. Oldest' = Oldest /\ np' = np
    BY <1>4, OldestStep DEF CoordsLog, DropHead, PopHead, pvars
  <2>2. out \in Nat /\ out < Oldest
    BY <1>0, <1>4 DEF CoordsLog, ConsumerInv, Holding
  <2>3. /\ Len(log') = Len(log) + 1
        /\ log'[Len(log) + 1] = out
        /\ \A i \in 1 .. Len(log) : log'[i] = log[i]
    BY <1>0, <1>4, <2>2 DEF CoordsLog
  <2>4. LogInv'
    BY <1>0, <1>4, <2>1, <2>2, <2>3 DEF CoordsLog, LogInv, LogInOrder
  <2>5. Logged' = Logged \cup {out}
    BY <1>0, <2>3 DEF Logged
  <2>6. DropInv'
    BY <1>4, <2>1, <2>5 DEF CoordsLog, DropInv
  <2> QED BY <2>4, <2>6
<1>5. CASE PopLoadHead \/ (Popping /\ ~PopHead /\ ~CoordsLog) \/ Main
  <2>1. np' = np /\ log' = log
    BY <1>5 DEF PopLoadHead, Popping, CoordsStop, PopLoadTail, PopRead, PopNull, PopLoadM,
               PopStoreM, CoordsFree, Main, on_sig, vts_fifo_free, pvars, cvars
  <2>2. ~DropHead
    BY <1>5 DEF PopLoadHead, Popping, CoordsStop, PopLoadTail, PopRead, PopNull, PopLoadM,
               PopStoreM, CoordsFree, Main, on_sig, vts_fifo_free, DropHead, pvars
  <2>3. Oldest' = Oldest
    BY <1>5, <2>2, OldestStep DEF PopLoadHead, Main, on_sig, vts_fifo_free, PopHead, cvars
  <2> DEFINE carrying == cpc \in {"loadm", "storem", "log"}
  <2>4. carrying' <=> carrying
    <3>1. cpc = "storem" => out # 0
      BY DEF ConsumerInv, Holding
    <3> QED BY <1>5, <3>1 DEF PopLoadHead, Popping, CoordsStop, PopLoadTail, PopRead, PopNull,
               PopLoadM, PopStoreM, CoordsFree, Main, on_sig, vts_fifo_free, AfterNull, NULL, cvars
  <2>5. carrying => out' = out
    BY <1>5 DEF PopLoadHead, Popping, CoordsStop, PopLoadTail, PopRead, PopNull,
               PopLoadM, PopStoreM, CoordsFree, Main, on_sig, vts_fifo_free, cvars
  <2> QED BY <2>1, <2>3, <2>4, <2>5 DEF LogInv, DropInv, LogInOrder, Logged
<1> QED BY <1>1, <1>2, <1>3, <1>4, <1>5 DEF CalmNext, Pushing, Popping

(* Every step of the calm regime preserves the invariant: whatever the      *)
(* capacity, push and pop keep the ring, the consumer's message, the heap   *)
(* and the log in step with each other.                                     *)
THEOREM CalmStep == CalmInv /\ [CalmNext]_vars => CalmInv'
<1> SUFFICES ASSUME CalmInv, [CalmNext]_vars PROVE CalmInv'
  OBVIOUS
<1>1. CASE CalmNext
  <2>1. (Oldest >= 1)'
    BY <1>1, OldestStep, OldestType DEF CalmInv
  <2>2. (released => cpc = "done" /\ ppc = "done")'
    <3>1. CASE PushLoad \/ Pushing \/ RecvExit
      BY <3>1, PushSteps, Zenon DEF CalmInv, mvars
    <3>2. CASE PopLoadHead \/ Popping
      BY <3>2, PopSteps, Zenon DEF CalmInv, mvars
    <3>3. CASE Main
      BY <3>3, Zenon DEF CalmInv, Main, on_sig, vts_fifo_free, pvars, cvars
    <3> QED BY <1>1, <3>1, <3>2, <3>3, Zenon DEF CalmNext
  <2> QED BY <1>1, <2>1, <2>2, TypeStep, ProducerStep, ConsumerStep, RingStep, FreedStep, LogStep
          DEF CalmInv
<1>2. CASE UNCHANGED vars
  BY <1>2 DEF CalmInv, TypeOK, ProducerInv, ConsumerInv, RingHolds, EachFreedOnce, LogInv, DropInv,
     LogInOrder, Logged, PrePublish, Dropping, InPop, Holding, Oldest, Published, Live,
     vars, pvars, cvars, mvars
<1> QED BY <1>1, <1>2

(* In the calm regime the variables keep their types: an index never leaves *)
(* the ring, and the depth of a full ring is still a slot number.           *)
THEOREM CalmType == CalmSpec => []TypeOK
<1>1. CalmInv => TypeOK
  BY DEF CalmInv
<1> QED BY <1>1, CalmInit, CalmStep, PTL DEF CalmSpec

(* The ring holds exactly the youngest messages published, oldest first,    *)
(* whatever the interleaving of push and pop.                               *)
THEOREM CalmRing == CalmSpec => []RingHolds
<1>1. CalmInv => RingHolds
  BY DEF CalmInv
<1> QED BY <1>1, CalmInit, CalmStep, PTL DEF CalmSpec

(* A message leaves the heap once, after it left the ring and the           *)
(* consumer's hands, and vts_fifo_free leaves none behind.                  *)
THEOREM CalmFreed == CalmSpec => []EachFreedOnce
<1>1. CalmInv => EachFreedOnce
  BY DEF CalmInv
<1> QED BY <1>1, CalmInit, CalmStep, PTL DEF CalmSpec

(* What pop returns is owned by the consumer alone until it frees it.       *)
THEOREM CalmOwned == CalmSpec => []PopReturnsOwned
<1>1. CalmInv => PopReturnsOwned
  <2> SUFFICES ASSUME CalmInv, Holding \/ cpc = "sethead" PROVE out \notin freed
    BY DEF PopReturnsOwned
  <2>1. Oldest \in Int
    BY OldestType DEF CalmInv
  <2>2. CASE Holding
    BY <2>2 DEF CalmInv, EachFreedOnce
  <2>3. CASE cpc = "sethead"
    <3>1. ~released /\ ppc \notin {"dropnull", "drophead"} /\ out = Oldest
      BY <2>3 DEF CalmInv, ProducerInv, ConsumerInv, Dropping, InPop
    <3> QED BY <2>1, <2>3, <3>1 DEF CalmInv, EachFreedOnce, Holding
  <2> QED BY <2>2, <2>3
<1> QED BY <1>1, CalmInit, CalmStep, PTL DEF CalmSpec

(* Messages are logged at most once and in the order they were pushed.      *)
THEOREM CalmOrder == CalmSpec => []LogInOrder
<1>1. CalmInv => LogInOrder
  BY DEF CalmInv, LogInv
<1> QED BY <1>1, CalmInit, CalmStep, PTL DEF CalmSpec

(* A message that never reaches the log was the oldest of a full ring when  *)
(* it was dropped: Cap - 1 younger ones have been pushed since.             *)
THEOREM CalmDrops == CalmSpec => []DropsOnlyOldest
<1>1. CalmInv => DropsOnlyOldest
  <2> SUFFICES ASSUME CalmInv, ppc = "idle", cpc = "idle",
                      NEW k \in (1 .. np) \ (Logged \cup InRing)
               PROVE  k + Cap - 1 <= np
    BY DEF DropsOnlyOldest
  <2> USE CapAssumption, MaxMsgAssumption DEF CalmInv
  <2>0. Depth(head, tail) \in Idx /\ Oldest \in Int /\ np \in Nat
    BY OldestType, DepthType DEF TypeOK
  <2>1. np = Oldest + Depth(head, tail) - 1
    BY <2>0 DEF Oldest, Published, Idx
  <2>2. CASE k < Oldest
    BY <2>0, <2>2 DEF DropInv
  <2>3. CASE k >= Oldest
    <3>1. k - Oldest \in Idx /\ k - Oldest < Depth(head, tail)
      BY <2>0, <2>1, <2>3 DEF Idx
    <3>2. PICK j \in Idx : Depth(head, j) = k - Oldest
      BY <3>1, DepthOnto DEF TypeOK
    <3>3. Live(j)
      BY <3>1, <3>2 DEF Live
    <3>4. buf[j] = k
      BY <2>0, <3>2, <3>3 DEF RingHolds
    <3> QED BY <3>3, <3>4 DEF InRing
  <2> QED BY <2>0, <2>2, <2>3
<1> QED BY <1>1, CalmInit, CalmStep, PTL DEF CalmSpec

-----------------------------------------------------------------------------
(* The ring implements the queue of vts_fifo.h.                             *)

\* The first message of the queue, if it has one.
First == Oldest + Skip

(* The slots at a distance from head.                                       *)
LEMMA SlotAt ==
  ASSUME NEW h \in Idx, NEW d \in Idx
  PROVE  (h + d) % Cap \in Idx /\ Depth(h, (h + d) % Cap) = d
<1>1. CASE h + d < Cap
  <2>1. (h + d) % Cap = h + d
    BY <1>1, CapAssumption DEF Idx
  <2> QED BY <1>1, <2>1, CapAssumption DEF Idx, Depth
<1>2. CASE ~(h + d < Cap)
  <2>1. (h + d) % Cap = h + d - Cap
    BY <1>2, CapAssumption DEF Idx
  <2> QED BY <1>2, <2>1, CapAssumption DEF Idx, Depth
<1> QED BY <1>1, <1>2

(* The queue is the messages from the first to the one published last: the  *)
(* oldest is in out while its slot is empty, and is not counted when a push *)
(* has freed it.                                                            *)
LEMMA QueueIs ==
  CalmInv /\ ~released =>
    /\ First \in Int /\ Published \in Int /\ Published + 1 - First \in Nat
    /\ Queue = [i \in 1 .. Published + 1 - First |-> First - 1 + i]
<1> SUFFICES ASSUME CalmInv, ~released
             PROVE  /\ First \in Int /\ Published \in Int /\ Published + 1 - First \in Nat
                    /\ Queue = [i \in 1 .. Published + 1 - First |-> First - 1 + i]
  OBVIOUS
<1>1. /\ Published \in Int /\ Depth(head, tail) \in Idx /\ Oldest \in Int /\ Skip \in {0, 1}
      /\ head \in Idx /\ Oldest = Published - Depth(head, tail) + 1
  BY OldestType, DepthType DEF CalmInv, TypeOK, Skip, Oldest
<1>2. Skip = 1 => Depth(head, tail) = Cap - 1 /\ ~InPop
  BY DepthFull DEF CalmInv, TypeOK, Skip, ProducerInv, Dropping
<1>3. Depth(head, tail) - Skip \in Nat /\ Published + 1 - First = Depth(head, tail) - Skip
  BY <1>1, <1>2, CapAssumption DEF First, Idx
<1>4. ASSUME NEW i \in 1 .. Depth(head, tail) - Skip PROVE Nth(i) = First - 1 + i
  <2> DEFINE d == Skip + i - 1
             j == (head + Skip + i - 1) % Cap
  <2>1. d \in Idx /\ d < Depth(head, tail) /\ head + Skip + i - 1 = head + d
    BY <1>1, <1>3, CapAssumption DEF Idx
  <2>2. j \in Idx /\ Depth(head, j) = d
    BY <1>1, <2>1, SlotAt
  <2> HIDE DEF j
  <2>3. Live(j)
    BY <2>1, <2>2 DEF Live
  <2>4. CASE j = head /\ cpc = "sethead"
    <3>1. out = Oldest /\ Skip = 0
      BY <1>1, <1>2, <2>4 DEF CalmInv, ConsumerInv, InPop
    <3>2. d = 0
      BY <1>1, <2>2, <2>4, DepthZero
    <3> QED BY <1>1, <2>4, <3>1, <3>2 DEF Nth, First, j
  <2>5. CASE ~(j = head /\ cpc = "sethead")
    <3>1. ~(j = head /\ ppc = "drophead")
      <4> SUFFICES ASSUME j = head, ppc = "drophead" PROVE FALSE
        OBVIOUS
      <4>1. d = 0 /\ Skip = 1
        BY <1>1, <2>2, DepthZero DEF Skip
      <4> QED BY <4>1
    <3>2. buf[j] = Oldest + d
      BY <2>2, <2>3, <2>5, <3>1 DEF CalmInv, RingHolds
    <3> QED BY <1>1, <2>5, <3>2 DEF Nth, First, j
  <2> QED BY <2>4, <2>5
<1> QED BY <1>1, <1>3, <1>4 DEF Queue, First

\* What the consumer holds between pop and the log.
InHand == IF cpc \in {"loadm", "storem", "log"} THEN out ELSE NULL

(* A step that the queue does not see.                                      *)
LEMMA QueueCalm ==
  ASSUME CalmInv, CalmInv', First' = First, Published' = Published,
         UNCHANGED <<log, released>>, InHand' = InHand
  PROVE  UNCHANGED Abs!vars
<1>1. CASE released
  BY <1>1 DEF Queue, Abs!vars, InHand
<1>2. CASE ~released
  <2>1. Queue = [i \in 1 .. Published + 1 - First |-> First - 1 + i]
    BY <1>2, QueueIs
  <2>2. (CalmInv /\ ~released => Queue = [i \in 1 .. Published + 1 - First |-> First - 1 + i])'
    BY QueueIs, PTL
  <2>3. Queue' = Queue
    BY <1>2, <2>1, <2>2
  <2> QED BY <2>3 DEF Abs!vars, InHand
<1> QED BY <1>1, <1>2

(* The first message of a full queue leaves it when a push frees it.        *)
LEMMA DropsFirst ==
  ASSUME CalmInv, CalmInv', CalmNext, DropFree
  PROVE  Abs!Next
<1>1. /\ ppc = "drop" /\ ppc' = "dropnull" /\ ~released /\ ~released'
      /\ UNCHANGED <<log, released>> /\ InHand' = InHand
  BY DEF DropFree, CalmInv, cvars, mvars, InHand
<1>2. Oldest' = Oldest /\ Published' = Published
  BY <1>1, OldestStep DEF DropFree, DropHead, PopHead, cvars, pvars, Published
<1>3. Skip = 0 /\ Skip' = 1 /\ Depth(head, tail) = Cap - 1
  BY <1>1, DepthFull DEF Skip, CalmInv, TypeOK, ProducerInv, Dropping
<1>4. /\ First \in Int /\ Published \in Int /\ Published + 1 - First \in Nat
      /\ Queue = [i \in 1 .. Published + 1 - First |-> First - 1 + i]
  BY <1>1, QueueIs
<1>5. (CalmInv /\ ~released => Queue = [i \in 1 .. Published + 1 - First |-> First - 1 + i])'
  BY QueueIs, PTL
<1>6. First' = First + 1 /\ Published + 1 - First = Cap - 1
  BY <1>2, <1>3, <1>4, OldestType, CapAssumption DEF First, Oldest, CalmInv
<1>7. Queue' = [i \in 1 .. Published - First |-> First + i]
  BY <1>1, <1>2, <1>4, <1>5, <1>6
<1>8. Len(Queue) = Cap - 1 /\ Queue \in Seq(Int) /\ Queue # <<>>
  BY <1>4, <1>6, CapAssumption
<1>9. Tail(Queue) = [i \in 1 .. Published - First |-> First + i]
  BY <1>4, <1>6, <1>8, CapAssumption
<1> QED BY <1>1, <1>2, <1>7, <1>8, <1>9 DEF Abs!Next, Abs!Drop, InHand

(* The message that PushTail publishes is the last of the queue.            *)
LEMMA PutsLast ==
  ASSUME CalmInv, CalmInv', CalmNext, PushTail
  PROVE  Abs!Next
<1>1. /\ ppc = "settail" /\ ppc' = "storem" /\ ~released /\ ~released'
      /\ UNCHANGED <<log, released>> /\ InHand' = InHand
  BY DEF PushTail, CalmInv, cvars, mvars, InHand
<1>2. Published = np - 1 /\ Published' = np /\ np \in Int
  BY <1>1 DEF PushTail, Published, CalmInv, TypeOK
<1>3. Oldest' = Oldest
  BY <1>1, OldestStep DEF PushTail, DropHead, PopHead, cvars, pvars
<1>4. Skip = 0 /\ Skip' = 0 /\ Depth(head, tail) < Cap - 1
  <2>1. Depth(head, tail) # Cap - 1 /\ Depth(head, tail) \in Idx
    BY <1>1, DepthFull, DepthType DEF CalmInv, TypeOK, ProducerInv
  <2> QED BY <1>1, <2>1, CapAssumption DEF Skip, Idx
<1>5. /\ First \in Int /\ Published \in Int /\ Published + 1 - First \in Nat
      /\ Queue = [i \in 1 .. Published + 1 - First |-> First - 1 + i]
  BY <1>1, QueueIs
<1>6. (CalmInv /\ ~released => Queue = [i \in 1 .. Published + 1 - First |-> First - 1 + i])'
  BY QueueIs, PTL
<1>7. First' = First /\ Published + 1 - First < Cap - 1
  BY <1>3, <1>4, <1>5, OldestType, CapAssumption DEF First, Oldest, CalmInv
<1>8. Queue' = [i \in 1 .. Published + 2 - First |-> First - 1 + i]
  BY <1>1, <1>2, <1>5, <1>6, <1>7
<1>9. Len(Queue) < Cap - 1 /\ Queue \in Seq(Int)
  BY <1>5, <1>7
<1>10. Append(Queue, Published + 1) = [i \in 1 .. Published + 2 - First |-> First - 1 + i]
  BY <1>5, <1>9
<1> QED BY <1>1, <1>2, <1>8, <1>9, <1>10 DEF Abs!Next, Abs!Put, InHand

(* pop takes the first message of the queue when it stores head.            *)
LEMMA TakesFirst ==
  ASSUME CalmInv, CalmInv', CalmNext, PopHead
  PROVE  Abs!Next
<1>1. /\ cpc = "sethead" /\ cpc' = "loadm" /\ out' = out /\ ~released /\ ~released'
      /\ UNCHANGED <<log, released>> /\ InHand = NULL /\ InHand' = out
  BY DEF PopHead, CalmInv, mvars, InHand
<1>2. Oldest' = Oldest + 1 /\ Published' = Published
  BY OldestStep
<1>3. Skip = 0 /\ Skip' = 0 /\ out = Oldest /\ Depth(head, tail) # 0 /\ Oldest \in Int /\ Oldest >= 1
  BY <1>1, DepthZero, OldestType DEF Skip, CalmInv, TypeOK, ProducerInv, ConsumerInv, Dropping, InPop,
     PopHead, pvars
<1>4. /\ First \in Int /\ Published \in Int /\ Published + 1 - First \in Nat
      /\ Queue = [i \in 1 .. Published + 1 - First |-> First - 1 + i]
  BY <1>1, QueueIs
<1>5. (CalmInv /\ ~released => Queue = [i \in 1 .. Published + 1 - First |-> First - 1 + i])'
  BY QueueIs, PTL
<1>6. First = out /\ First' = First + 1 /\ Published + 1 - First # 0
  BY <1>2, <1>3, <1>4, OldestType DEF First, Oldest, CalmInv
<1>7. Queue' = [i \in 1 .. Published - First |-> First + i]
  BY <1>1, <1>2, <1>4, <1>5, <1>6
<1>8. Queue \in Seq(Int) /\ Len(Queue) = Published + 1 - First /\ Queue # <<>> /\ Head(Queue) = out
  BY <1>4, <1>6
<1>9. Tail(Queue) = [i \in 1 .. Published - First |-> First + i]
  BY <1>4, <1>6, <1>8
<1> QED BY <1>1, <1>2, <1>7, <1>8, <1>9 DEF Abs!Next, Abs!Take, InHand, NULL

(* The other steps of both threads publish nothing and take nothing out.     *)
LEMMA OtherSteps ==
  ASSUME CalmInv, CalmNext, ~(DropFree \/ PushTail \/ PopHead \/ CoordsLog \/ vts_fifo_free)
  PROVE  /\ log' = log /\ released' = released /\ InHand' = InHand /\ Published' = Published
         /\ DropHead \/ Skip' = Skip
<1>1. CASE PushLoad \/ Pushing \/ RecvExit
  <2>1. log' = log /\ released' = released /\ InHand' = InHand
    BY <1>1, PushSteps DEF cvars, mvars, InHand
  <2>2. np \in Int
    BY DEF CalmInv, TypeOK
  <2>3. CASE PushLoad \/ PushLoadM \/ DropNull \/ DropHead \/ PushStore
    BY <2>1, <2>2, <2>3 DEF PushLoad, PushLoadM, DropNull, DropHead, PushStore, Published, Skip
  <2>4. CASE PushStoreM \/ DepthLoadM \/ DepthLoad \/ DepthStore \/ RecvExit
    BY <2>1, <2>4 DEF PushStoreM, DepthLoadM, DepthLoad, DepthStore, RecvExit, Published, Skip
  <2> QED BY <1>1, <2>3, <2>4, Zenon DEF Pushing
<1>2. CASE PopLoadHead \/ Popping
  <2>1. released' = released /\ Published' = Published /\ Skip' = Skip
    BY <1>2, PopSteps DEF pvars, mvars, Published, Skip
  <2>2. cpc = "storem" => out # NULL
    BY DEF CalmInv, ConsumerInv, Holding, NULL
  <2>3. CASE PopLoadHead \/ CoordsStop \/ PopLoadTail \/ PopRead \/ PopNull
    <3>1. log' = log /\ InHand' = InHand
      BY <2>3 DEF PopLoadHead, CoordsStop, PopLoadTail, PopRead, PopNull, AfterNull, InHand
    <3> QED BY <2>1, <3>1, Zenon
  <2>4. CASE PopLoadM \/ PopStoreM \/ CoordsFree
    <3>1. log' = log /\ InHand' = InHand
      BY <2>2, <2>4 DEF PopLoadM, PopStoreM, CoordsFree, InHand
    <3> QED BY <2>1, <3>1, Zenon
  <2> QED BY <1>2, <2>3, <2>4, Zenon DEF Popping
<1>3. CASE on_sig
  BY <1>3 DEF on_sig, pvars, cvars, InHand, Published, Skip
<1> QED BY <1>1, <1>2, <1>3, Zenon DEF CalmNext, Main

(* What the steps of both threads and of main are to the queue.             *)
LEMMA QueueStep ==
  ASSUME CalmInv, CalmInv', [CalmNext]_vars
  PROVE  [Abs!Next]_Abs!vars
<1>1. CASE UNCHANGED vars
  <2>1. First' = First /\ Published' = Published /\ UNCHANGED <<log, released>> /\ InHand' = InHand
    BY <1>1 DEF vars, pvars, cvars, mvars, First, Oldest, Published, Skip, InHand
  <2> QED BY <2>1, QueueCalm
<1>2. CASE CalmNext /\ (DropFree \/ PushTail \/ PopHead)
  BY <1>2, DropsFirst, PutsLast, TakesFirst
<1>3. CASE CalmNext /\ CoordsLog
  <2>1. /\ cpc = "log" /\ cpc' = "free" /\ log' = Append(log, out) /\ InHand = out /\ InHand' = NULL
        /\ UNCHANGED released /\ ~released /\ out # NULL
    BY <1>3 DEF CoordsLog, CalmInv, ConsumerInv, Holding, InHand, mvars, NULL
  <2>2. Published' = Published /\ Queue' = Queue
    BY <1>3 DEF CoordsLog, Published, Queue, Nth, Skip, pvars, mvars
  <2> QED BY <2>1, <2>2 DEF Abs!Next, Abs!Deliver, InHand, NULL
<1>4. CASE CalmNext /\ vts_fifo_free
  <2>1. /\ InHand = NULL /\ InHand' = NULL /\ ~released /\ released'
        /\ log' = log /\ Published' = Published
    BY <1>4 DEF vts_fifo_free, InHand, Published, pvars, cvars
  <2> QED BY <2>1 DEF Abs!Next, Abs!Close, Queue, InHand, NULL
<1>5. CASE CalmNext /\ ~(DropFree \/ PushTail \/ PopHead \/ CoordsLog \/ vts_fifo_free)
  <2>1. /\ log' = log /\ released' = released /\ InHand' = InHand /\ Published' = Published
        /\ DropHead \/ Skip' = Skip
    BY <1>5, OtherSteps, Zenon
  <2>2. First' = First
    <3>1. CASE DropHead
      <4>1. Oldest' = Oldest + 1 /\ Oldest \in Int
        BY <1>5, <3>1, OldestStep, OldestType DEF CalmInv
      <4> QED BY <3>1, <4>1 DEF First, Skip, DropHead
    <3>2. CASE ~DropHead
      <4>1. Oldest' = Oldest
        BY <1>5, <3>2, OldestStep
      <4> QED BY <2>1, <3>2, <4>1 DEF First
    <3> QED BY <3>1, <3>2
  <2> QED BY <2>1, <2>2, QueueCalm
<1> QED BY <1>1, <1>2, <1>3, <1>4, <1>5

(* The ring, whose pushes and pops are made of loads and stores that        *)
(* interleave, is the bounded queue vts_fifo.h describes: for every         *)
(* capacity, as long as no push that drops overlaps a pop.                  *)
THEOREM RingIsQueue == CalmSpec => ImplementsDropOldest
<1>1. Init => Abs!Init
  <2> SUFFICES ASSUME Init PROVE Abs!Init
    OBVIOUS
  <2>1. Published = 0 /\ Depth(head, tail) = 0 /\ Skip = 0
    BY DEF Init, Published, Skip, Depth
  <2>2. 1 .. Depth(head, tail) - Skip = {}
    BY <2>1
  <2>3. Queue = <<>>
    BY <2>2 DEF Init, Queue
  <2> QED BY <2>1, <2>3 DEF Init, Abs!Init, NULL
<1>2. CalmInv /\ [CalmNext]_vars => CalmInv' /\ [Abs!Next]_Abs!vars
  BY CalmStep, QueueStep
<1> QED BY <1>1, <1>2, CalmInit, PTL DEF CalmSpec, ImplementsDropOldest, Abs!Spec

=============================================================================
