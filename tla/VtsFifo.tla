------------------------------ MODULE VtsFifo ------------------------------
(***************************************************************************)
(* The ring of messages between the VTS receiver thread (the only caller   *)
(* of vts_fifo_push_spsc, through handle_line) and the coordinates thread  *)
(* (the only caller of vts_fifo_pop_spsc): userspace/vts/src/fifo.c and    *)
(* the loop of threads_coords.c.                                           *)
(*                                                                         *)
(* Every load and store of shared memory is a step of its own.  The k-th   *)
(* message pushed is the number k, which stands for the block strdup       *)
(* allocates for it; NULL is 0.                                            *)
(***************************************************************************)
EXTENDS Integers, Sequences

CONSTANTS
  Cap,      \* slots of the ring: vts_fifo_init's cap, option -c of vts
  MaxMsg    \* bound: number of messages the receiver pushes

\* With one slot the ring would be full and empty at once (main.c passes any cap).
ASSUME CapAssumption == Cap \in Nat /\ Cap >= 2
ASSUME MaxMsgAssumption == MaxMsg \in Nat

VARIABLES
  head, tail,  \* the two atomic indices of vts_fifo_t
  buf,         \* the slots
  max_depth,   \* the one field of the metrics that the code ever changes
  freed,       \* the messages given back to the allocator
  np,          \* messages pushed so far, the one in progress included
  ppc, pHead, pM,       \* push: control point, its locals head and m (or d)
  cpc, cHead, cM, out,  \* pop: control point, its locals head, m and out
  draining,    \* thr_coords has left its main loop for the drain loop
  log,         \* what the coordinates thread wrote to the log
  g_stop, released  \* the stop flag; main has called vts_fifo_free

pvars == <<np, ppc, pHead, pM>>
cvars == <<cpc, cHead, cM, out, draining, log>>
mvars == <<g_stop, released>>
vars == <<head, tail, buf, max_depth, freed, pvars, cvars, mvars>>

NULL == 0
Idx == 0 .. Cap - 1
Msg == 1 .. MaxMsg

next_idx(i) == IF i + 1 = Cap THEN 0 ELSE i + 1

\* vts_fifo_depth, of the indices it has loaded.
Depth(h, t) == IF t >= h THEN t - h ELSE Cap - (h - t)

\* vts_fifo_init
Init ==
  /\ head = 0 /\ tail = 0
  /\ buf = [i \in Idx |-> NULL]
  /\ max_depth = 0
  /\ freed = {}
  /\ np = 0 /\ ppc = "idle" /\ pHead = 0 /\ pM = 0
  /\ cpc = "idle" /\ cHead = 0 /\ cM = 0 /\ out = NULL
  /\ draining = FALSE /\ log = <<>>
  /\ g_stop = FALSE /\ released = FALSE

-----------------------------------------------------------------------------
(* vts_fifo_push_spsc.  Only the producer writes tail, so its load of tail  *)
(* is the variable itself.                                                  *)

PushLoad ==
  /\ ppc = "idle"
  /\ np < MaxMsg
  /\ np' = np + 1
  /\ pHead' = head
  /\ ppc' = "loadm"
  /\ UNCHANGED <<head, tail, buf, max_depth, freed, pM, cvars, mvars>>

\* Faulty: the ring taken for full one message early.
PushLoadM_Early ==
  /\ ppc = "loadm"
  /\ pM' = max_depth
  /\ ppc' = IF next_idx(next_idx(tail)) = pHead THEN "drop" ELSE "store"
  /\ UNCHANGED <<head, tail, buf, max_depth, freed, np, pHead, cvars, mvars>>

PushLoadM ==
  /\ ppc = "loadm"
  /\ pM' = max_depth
  /\ ppc' = IF next_idx(tail) = pHead THEN "drop" ELSE "store"
  /\ UNCHANGED <<head, tail, buf, max_depth, freed, np, pHead, cvars, mvars>>

\* Faulty: the dropped message is not freed.
DropFree_Leak ==
  /\ ppc = "drop"
  /\ freed' = freed
  /\ ppc' = "dropnull"
  /\ UNCHANGED <<head, tail, buf, max_depth, np, pHead, pM, cvars, mvars>>

\* Faulty: the wrong message is freed.
DropFree_Second ==
  /\ ppc = "drop"
  /\ freed' = freed \cup ({buf[next_idx(pHead)]} \ {NULL})
  /\ ppc' = "dropnull"
  /\ UNCHANGED <<head, tail, buf, max_depth, np, pHead, pM, cvars, mvars>>

\* free(q->buf[head]): freeing NULL does nothing.
DropFree ==
  /\ ppc = "drop"
  /\ freed' = freed \cup ({buf[pHead]} \ {NULL})
  /\ ppc' = "dropnull"
  /\ UNCHANGED <<head, tail, buf, max_depth, np, pHead, pM, cvars, mvars>>

DropNull ==
  /\ ppc = "dropnull"
  /\ buf' = [buf EXCEPT ![pHead] = NULL]
  /\ ppc' = "drophead"
  /\ UNCHANGED <<head, tail, max_depth, freed, np, pHead, pM, cvars, mvars>>

\* Faulty: head is not advanced past the dropped message.
DropHead_Stay ==
  /\ ppc = "drophead"
  /\ head' = pHead
  /\ ppc' = "store"
  /\ UNCHANGED <<tail, buf, max_depth, freed, np, pHead, pM, cvars, mvars>>

DropHead ==
  /\ ppc = "drophead"
  /\ head' = next_idx(pHead)
  /\ ppc' = "store"
  /\ UNCHANGED <<tail, buf, max_depth, freed, np, pHead, pM, cvars, mvars>>

PushStore ==
  /\ ppc = "store"
  /\ buf' = [buf EXCEPT ![tail] = np]
  /\ ppc' = "settail"
  /\ UNCHANGED <<head, tail, max_depth, freed, np, pHead, pM, cvars, mvars>>

PushTail ==
  /\ ppc = "settail"
  /\ tail' = next_idx(tail)
  /\ ppc' = "storem"
  /\ UNCHANGED <<head, buf, max_depth, freed, np, pHead, pM, cvars, mvars>>

\* The statements m.drops; and m.pushes; change nothing: the old m is stored.
PushStoreM ==
  /\ ppc = "storem"
  /\ max_depth' = pM
  /\ ppc' = "depthm"
  /\ UNCHANGED <<head, tail, buf, freed, np, pHead, pM, cvars, mvars>>

\* metrics_update_depth: load m, load head and tail, store if deeper.
DepthLoadM ==
  /\ ppc = "depthm"
  /\ pM' = max_depth
  /\ ppc' = "depth"
  /\ UNCHANGED <<head, tail, buf, max_depth, freed, np, pHead, cvars, mvars>>

DepthLoad ==
  /\ ppc = "depth"
  /\ IF Depth(head, tail) > pM
     THEN pM' = Depth(head, tail) /\ ppc' = "depthstore"
     ELSE pM' = pM /\ ppc' = "idle"
  /\ UNCHANGED <<head, tail, buf, max_depth, freed, np, pHead, cvars, mvars>>

DepthStore ==
  /\ ppc = "depthstore"
  /\ max_depth' = pM
  /\ ppc' = "idle"
  /\ UNCHANGED <<head, tail, buf, freed, np, pHead, pM, cvars, mvars>>

Pushing ==
  \/ PushLoadM \/ DropFree \/ DropNull \/ DropHead \/ PushStore
  \/ PushTail \/ PushStoreM \/ DepthLoadM \/ DepthLoad \/ DepthStore

\* thr_recv tests g_stop between two reads of the pipe: the lines of the
\* last read are still pushed after a stop.
RecvExit ==
  /\ ppc = "idle"
  /\ g_stop
  /\ ppc' = "done"
  /\ UNCHANGED <<head, tail, buf, max_depth, freed, np, pHead, pM, cvars, mvars>>

-----------------------------------------------------------------------------
(* vts_fifo_pop_spsc and the two loops of thr_coords around it.             *)

PopLoadHead ==
  /\ cpc = "idle"
  /\ draining \/ ~g_stop
  /\ cHead' = head
  /\ cpc' = "loadtail"
  /\ UNCHANGED <<head, tail, buf, max_depth, freed, pvars, cM, out, draining, log, mvars>>

\* while(!g_stop) ends; the drain loop follows (its i is never incremented,
\* so only an empty ring ends it).
CoordsStop ==
  /\ cpc = "idle"
  /\ g_stop /\ ~draining
  /\ draining' = TRUE
  /\ UNCHANGED <<head, tail, buf, max_depth, freed, pvars, cpc, cHead, cM, out, log, mvars>>

\* Faulty: the drain loop polls an empty ring again.
AfterNull_Poll == "idle"

\* Where thr_coords goes on a NULL result: it sleeps and polls again, or ends.
AfterNull == IF draining THEN "done" ELSE "idle"

PopLoadTail ==
  /\ cpc = "loadtail"
  /\ cpc' = IF cHead = tail THEN AfterNull ELSE "read"
  /\ UNCHANGED <<head, tail, buf, max_depth, freed, pvars, cHead, cM, out, draining, log, mvars>>

PopRead ==
  /\ cpc = "read"
  /\ out' = buf[cHead]
  /\ cpc' = "null"
  /\ UNCHANGED <<head, tail, buf, max_depth, freed, pvars, cHead, cM, draining, log, mvars>>

\* Faulty: the slot is not cleared.
PopNull_Keep ==
  /\ cpc = "null"
  /\ buf' = buf
  /\ cpc' = "sethead"
  /\ UNCHANGED <<head, tail, max_depth, freed, pvars, cHead, cM, out, draining, log, mvars>>

\* Faulty: pop returns before it consumes.
PopNull_Peek ==
  /\ cpc = "null"
  /\ buf' = buf
  /\ cpc' = "loadm"
  /\ UNCHANGED <<head, tail, max_depth, freed, pvars, cHead, cM, out, draining, log, mvars>>

PopNull ==
  /\ cpc = "null"
  /\ buf' = [buf EXCEPT ![cHead] = NULL]
  /\ cpc' = "sethead"
  /\ UNCHANGED <<head, tail, max_depth, freed, pvars, cHead, cM, out, draining, log, mvars>>

PopHead ==
  /\ cpc = "sethead"
  /\ head' = next_idx(cHead)
  /\ cpc' = "loadm"
  /\ UNCHANGED <<tail, buf, max_depth, freed, pvars, cHead, cM, out, draining, log, mvars>>

PopLoadM ==
  /\ cpc = "loadm"
  /\ cM' = max_depth
  /\ cpc' = "storem"
  /\ UNCHANGED <<head, tail, buf, max_depth, freed, pvars, cHead, out, draining, log, mvars>>

\* m.pops; changes nothing either.
PopStoreM ==
  /\ cpc = "storem"
  /\ max_depth' = cM
  /\ cpc' = IF out = NULL THEN AfterNull ELSE "log"
  /\ UNCHANGED <<head, tail, buf, freed, pvars, cHead, cM, out, draining, log, mvars>>

\* vts_log_write("%s\n", msg)
CoordsLog ==
  /\ cpc = "log"
  /\ log' = Append(log, out)
  /\ cpc' = "free"
  /\ UNCHANGED <<head, tail, buf, max_depth, freed, pvars, cHead, cM, out, draining, mvars>>

\* Faulty: the logged message is not freed.
CoordsFree_Leak ==
  /\ cpc = "free"
  /\ freed' = freed
  /\ out' = NULL
  /\ cpc' = "idle"
  /\ UNCHANGED <<head, tail, buf, max_depth, pvars, cHead, cM, draining, log, mvars>>

CoordsFree ==
  /\ cpc = "free"
  /\ freed' = freed \cup {out}
  /\ out' = NULL
  /\ cpc' = "idle"
  /\ UNCHANGED <<head, tail, buf, max_depth, pvars, cHead, cM, draining, log, mvars>>

Popping ==
  \/ CoordsStop \/ PopLoadTail \/ PopRead \/ PopNull \/ PopHead
  \/ PopLoadM \/ PopStoreM \/ CoordsLog \/ CoordsFree

-----------------------------------------------------------------------------
(* main: the signal handler, and the end of vts_threads_join_all.           *)

on_sig ==
  /\ ~g_stop
  /\ g_stop' = TRUE
  /\ UNCHANGED <<head, tail, buf, max_depth, freed, pvars, cvars, released>>

\* The slots from head to tail.
Live(j) == Depth(head, j) < Depth(head, tail)

\* Both threads joined: nobody else touches the ring.
vts_fifo_free ==
  /\ cpc = "done" /\ ppc = "done"
  /\ ~released
  /\ released' = TRUE
  /\ freed' = freed \cup ({buf[j] : j \in {i \in Idx : Live(i)}} \ {NULL})
  /\ buf' = [j \in Idx |-> NULL]
  /\ UNCHANGED <<head, tail, max_depth, pvars, cvars, g_stop>>

Main == on_sig \/ vts_fifo_free

Next == PushLoad \/ Pushing \/ RecvExit \/ PopLoadHead \/ Popping \/ Main

Spec == Init /\ [][Next]_vars

-----------------------------------------------------------------------------
(* The calm regime: a push that finds the ring full, and so drops, does not *)
(* overlap a pop.  It is what the ring needs of its environment and what    *)
(* the code does nothing to enforce; a load that never fills the ring is a  *)
(* special case, and so is a consumer stalled outside pop (in nanosleep or  *)
(* in vts_log_write) while the ring overflows.                              *)

Full == next_idx(tail) = head
InPop == cpc \in {"loadtail", "read", "null", "sethead"}
Dropping ==
  \/ ppc = "loadm" /\ next_idx(tail) = pHead
  \/ ppc \in {"drop", "dropnull", "drophead"}

CalmNext ==
  \/ (~Full \/ ~InPop) /\ PushLoad
  \/ ~Dropping /\ PopLoadHead
  \/ Pushing \/ RecvExit \/ Popping \/ Main

CalmSpec == Init /\ [][CalmNext]_vars

\* Both threads and main are scheduled; lines and the signal may never come.
Fairness ==
  /\ WF_vars(Pushing)
  /\ WF_vars(RecvExit)
  /\ WF_vars((~Dropping /\ PopLoadHead) \/ Popping)
  /\ WF_vars(vts_fifo_free)

FairCalmSpec == CalmSpec /\ Fairness

-----------------------------------------------------------------------------
TypeOK ==
  /\ head \in Idx /\ tail \in Idx
  /\ buf \in [Idx -> Msg \cup {NULL}]
  /\ max_depth \in Idx
  /\ freed \in SUBSET Msg
  /\ np \in 0 .. MaxMsg
  /\ ppc \in {"idle", "loadm", "drop", "dropnull", "drophead", "store", "settail",
              "storem", "depthm", "depth", "depthstore", "done"}
  /\ pHead \in Idx /\ pM \in Idx
  /\ cpc \in {"idle", "loadtail", "read", "null", "sethead", "loadm", "storem",
              "log", "free", "done"}
  /\ cHead \in Idx /\ cM \in Idx
  /\ out \in Msg \cup {NULL}
  /\ log \in Seq(Msg)
  /\ draining \in BOOLEAN /\ g_stop \in BOOLEAN /\ released \in BOOLEAN

\* Messages PushTail has published, and the oldest one the ring still holds.
Published ==
  IF ppc \in {"loadm", "drop", "dropnull", "drophead", "store", "settail"}
  THEN np - 1 ELSE np
Oldest == Published - Depth(head, tail) + 1

(* The slots from head to tail hold the youngest messages published, oldest *)
(* first, and the others hold NULL: but for the slot being emptied at head  *)
(* by PopNull or DropNull and the slot at tail filled and not yet published.*)
RingHolds ==
  ~released =>
    \A j \in Idx :
      buf[j] = IF Live(j)
               THEN IF j = head /\ (cpc = "sethead" \/ ppc = "drophead") THEN NULL
                    ELSE Oldest + Depth(head, j)
               ELSE IF j = tail /\ ppc = "settail" THEN np ELSE NULL

\* Where the consumer owns the message in out.
Holding == cpc \in {"loadm", "storem", "log", "free"}

(* vts_fifo.h: "pop: returns owned pointer (malloc) or NULL if empty": a    *)
(* message that the consumer has taken is never freed under its feet.       *)
PopReturnsOwned ==
  Holding \/ cpc = "sethead" => out \notin freed

(* Between the calls of strdup and free: every message that has left the    *)
(* ring was given back to the allocator, except the one in the consumer's   *)
(* hands; none that is in the ring was (no leak, no use after free).        *)
EachFreedOnce ==
  LET gone == IF released THEN np
              ELSE IF ppc \in {"dropnull", "drophead"} THEN Oldest ELSE Oldest - 1
  IN  freed = (1 .. gone) \ (IF Holding THEN {out} ELSE {})

(* A message is never logged twice and never after a younger one.           *)
LogInOrder ==
  \A i, j \in 1 .. Len(log) : i < j => log[i] < log[j]

Logged == {log[i] : i \in 1 .. Len(log)}
InRing == {buf[j] : j \in {i \in Idx : Live(i)}}

(* vts_fifo.h: "Drop-oldest on full": between calls, a message that is      *)
(* neither logged nor still in the ring was pushed out by Cap - 1 younger   *)
(* ones.                                                                    *)
DropsOnlyOldest ==
  ppc = "idle" /\ cpc = "idle" =>
    \A k \in (1 .. np) \ (Logged \cup InRing) : k + Cap - 1 <= np

(* Every block a push allocates is given back in the end, by the consumer   *)
(* after logging it, by a push that drops it or by vts_fifo_free.           *)
EveryMessageFreed ==
  \A k \in Msg : np = k ~> k \in freed

(* After a signal both threads leave their loops and the ring is released:  *)
(* the drain loop, which has no counter, ends.                              *)
StopReleases == g_stop ~> released

=============================================================================
