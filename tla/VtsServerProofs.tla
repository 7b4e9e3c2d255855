-------------------------- MODULE VtsServerProofs --------------------------
(***************************************************************************)
(* The request path of the daemon, for any number of workers, clients,     *)
(* descriptors and requests.  First the queue: no wakeup is lost.  Then    *)
(* the requests: each is in one place, and goes through the log, with its  *)
(* own result, before it is answered.  Last, who can end the daemon: only  *)
(* a client that left without an answer it was owed.                       *)
(***************************************************************************)
EXTENDS VtsServer, FiniteSetTheorems, WellFoundedInduction, TLAPS

\* The types the queue depends on.
QueueType ==
  /\ queue \in Seq([n : Nat, fd : Int])
  /\ wst \in [Workers -> States]
  /\ reqs \in Seq([client : Clients \cup {Nobody}, payload : Payloads])
  /\ inflight \in [Clients -> Seq(Nat)]
  /\ conn \in [Fds -> Clients \cup {Nobody}]

\* The inductive invariant.
QueueInv ==
  /\ QueueType
  /\ Len(queue) <= QUEUE_DEPTH
  /\ NoLostWakeup

\* The workers in a control point, by themselves.
Loopers == In({"loop"})
Waiters == In({"wait"})

(* Sets of workers are finite, so their sizes are numbers.                  *)
LEMMA WorkersFinite ==
  \A s : IsFiniteSet(In(s)) /\ Cardinality(In(s)) \in Nat
<1> TAKE s
<1>1. In(s) \subseteq Workers
  BY DEF In
<1>2. IsFiniteSet(In(s))
  BY <1>1, ServerAssumption, FS_Subset
<1> QED BY <1>2, FS_CardinalityType

(* A worker that leaves or enters worker_fn's loop changes the number of    *)
(* workers there by one.                                                    *)
LEMMA LoopersStep ==
  ASSUME QueueType, NEW w \in Workers, NEW t \in States, wst' = [wst EXCEPT ![w] = t]
  PROVE  /\ wst' \in [Workers -> States]
         /\ wst[w] = "loop" /\ t # "loop" =>
              Cardinality(Loopers') = Cardinality(Loopers) - 1
         /\ wst[w] # "loop" /\ t = "loop" =>
              Cardinality(Loopers') = Cardinality(Loopers) + 1
         /\ wst[w] # "loop" /\ t # "loop" => Loopers' = Loopers
         /\ t # "wait" => Waiters' \subseteq Waiters
<1> USE DEF QueueType
<1>1. wst' \in [Workers -> States] /\ wst'[w] = t /\ \A v \in Workers \ {w} : wst'[v] = wst[v]
  OBVIOUS
<1>2. IsFiniteSet(Loopers)
  BY WorkersFinite DEF Loopers
<1>3. ASSUME wst[w] = "loop", t # "loop"
      PROVE  Cardinality(Loopers') = Cardinality(Loopers) - 1
  <2>1. Loopers' = Loopers \ {w} /\ w \in Loopers
    BY <1>1, <1>3 DEF Loopers, In
  <2> QED BY <1>2, <2>1, FS_RemoveElement, Zenon
<1>4. ASSUME wst[w] # "loop", t = "loop"
      PROVE  Cardinality(Loopers') = Cardinality(Loopers) + 1
  <2>1. Loopers' = Loopers \cup {w} /\ w \notin Loopers
    BY <1>1, <1>4 DEF Loopers, In
  <2> QED BY <1>2, <2>1, FS_AddElement, Zenon
<1>5. ASSUME wst[w] # "loop", t # "loop"
      PROVE  Loopers' = Loopers
  BY <1>1, <1>5 DEF Loopers, In
<1>6. ASSUME t # "wait"
      PROVE  Waiters' \subseteq Waiters
  BY <1>1, <1>6 DEF Waiters, In
<1> QED BY <1>1, <1>3, <1>4, <1>5, <1>6

(* req_queue_push keeps the queue within its depth, and wakes a worker for  *)
(* the item it adds if any waits.                                           *)
LEMMA PushStep ==
  ASSUME QueueInv, NEW item \in [n : Nat, fd : Int], req_queue_push(item)
  PROVE  /\ queue' \in Seq([n : Nat, fd : Int])
         /\ wst' \in [Workers -> States]
         /\ Len(queue') <= QUEUE_DEPTH
         /\ NoLostWakeup'
<1> DEFINE Items == [n : Nat, fd : Int]
           full == qlen >= QUEUE_DEPTH /\ queue # <<>>
           rest == IF full THEN Tail(queue) ELSE queue
<1>0. /\ queue \in Seq(Items) /\ Len(queue) \in Nat /\ Len(queue) <= QUEUE_DEPTH
      /\ qlen = Len(queue) /\ QUEUE_DEPTH \in Nat /\ QUEUE_DEPTH >= 1
      /\ wst \in [Workers -> States]
      /\ Waiters # {} => Len(queue) <= Cardinality(Loopers)
  BY ServerAssumption DEF QueueInv, QueueType, NoLostWakeup, Waiters, Loopers
<1>1. rest \in Seq(Items) /\ Len(rest) <= Len(queue) /\ Len(rest) < QUEUE_DEPTH
  <2>1. CASE full
    BY <1>0, <2>1
  <2>2. CASE ~full
    <3>1. qlen < QUEUE_DEPTH
      BY <1>0, <2>2
    <3> QED BY <1>0, <2>2, <3>1
  <2> QED BY <2>1, <2>2
<1>2. queue' = Append(rest, item) /\ qlen' = (IF full THEN qlen - 1 ELSE qlen) + 1 /\ Signal
  BY DEF req_queue_push
<1>3. queue' \in Seq(Items) /\ Len(queue') = Len(rest) + 1
  BY <1>1, <1>2
<1>4. qlen' = Len(queue')
  <2>1. CASE full
    BY <1>0, <1>2, <1>3, <2>1
  <2>2. CASE ~full
    BY <1>0, <1>2, <1>3, <2>2
  <2> QED BY <2>1, <2>2
<1>5. Len(queue') <= QUEUE_DEPTH
  BY <1>0, <1>1, <1>3
<1>6. wst' \in [Workers -> States] /\ (Waiters' # {} => Len(queue') <= Cardinality(Loopers'))
  <2>1. CASE Waiters = {}
    <3>1. wst' = wst
      BY <1>2, <2>1 DEF Signal, Waiters, In
    <3>2. Waiters' = {}
      BY <2>1, <3>1 DEF Waiters, In
    <3> QED BY <1>0, <3>1, <3>2
  <2>2. CASE Waiters # {}
    <3>1. PICK w \in Workers : wst[w] = "wait" /\ wst' = [wst EXCEPT ![w] = "loop"]
      BY <1>2, <2>2 DEF Signal, Waiters, In
    <3>2. "loop" \in States
      BY DEF States
    <3>3. wst' \in [Workers -> States] /\ Cardinality(Loopers') = Cardinality(Loopers) + 1
      BY <3>1, <3>2, LoopersStep, Zenon DEF QueueInv
    <3>4. Cardinality(Loopers) \in Nat
      BY WorkersFinite DEF Loopers
    <3>5. Len(queue') <= Cardinality(Loopers')
      <4>1. Len(rest) \in Nat /\ Len(rest) <= Len(queue)
        BY <1>1
      <4> HIDE DEF rest
      <4>2. Len(queue') <= Len(queue) + 1
        BY <1>0, <1>3, <4>1
      <4>3. Len(queue) <= Cardinality(Loopers)
        BY <1>0, <2>2
      <4>4. Len(queue') \in Nat
        BY <1>3, <4>1
      <4> QED BY <1>0, <3>3, <3>4, <4>2, <4>3, <4>4
    <3> QED BY <3>3, <3>5
  <2> QED BY <2>1, <2>2
<1> QED BY <1>3, <1>4, <1>5, <1>6 DEF NoLostWakeup, Waiters, Loopers

(* The steps of a worker that touch neither the queue nor its loop.         *)
LEMMA BusyStep ==
  ASSUME QueueInv, NEW w \in Workers,
         ProcessCli(w) \/ DedupFind(w) \/ DedupPut(w) \/ LogResult(w) \/ SendHeader(w)
  PROVE  QueueInv'
<1>1. PICK t \in States \ {"loop", "wait"} : wst' = [wst EXCEPT ![w] = t]
  BY Zenon DEF ProcessCli, DedupFind, DedupPut, LogResult, SendHeader, States
<1>2. wst[w] # "loop"
  BY Zenon DEF ProcessCli, DedupFind, DedupPut, LogResult, SendHeader
<1>3. /\ queue' = queue /\ qlen' = qlen /\ reqs' = reqs
      /\ inflight' = inflight /\ conn' = conn
  BY Zenon DEF ProcessCli, DedupFind, DedupPut, LogResult, SendHeader, Write, qvars, nvars
<1>4. wst' \in [Workers -> States] /\ Loopers' = Loopers /\ Waiters' \subseteq Waiters
  BY <1>1, <1>2, LoopersStep, Zenon DEF QueueInv
<1> QED BY <1>3, <1>4 DEF QueueInv, QueueType, NoLostWakeup, Loopers, Waiters

(* The steps of worker_fn's loop: a worker goes to sleep on an empty queue  *)
(* only, takes an item with it, and comes back after its answer.            *)
LEMMA LoopStep ==
  ASSUME QueueInv, NEW w \in Workers,
         WorkerWait(w) \/ WorkerTake(w) \/ SpuriousWakeup(w) \/ SendBody(w)
  PROVE  QueueInv'
<1>0. /\ queue \in Seq([n : Nat, fd : Int]) /\ Len(queue) \in Nat
      /\ Len(queue) <= QUEUE_DEPTH /\ QUEUE_DEPTH \in Nat
      /\ qlen = Len(queue)
      /\ Waiters # {} => Len(queue) <= Cardinality(Loopers)
      /\ Cardinality(Loopers) \in Nat /\ Cardinality(Loopers') \in Nat
  <2>1. Cardinality(In({"loop"})) \in Nat
    BY WorkersFinite
  <2>2. IsFiniteSet(In({"loop"})')
    <3>1. In({"loop"})' \subseteq Workers
      BY DEF In
    <3> QED BY <3>1, ServerAssumption, FS_Subset
  <2>3. Cardinality(In({"loop"})') \in Nat
    BY <2>2, FS_CardinalityType
  <2> QED BY <2>1, <2>3, ServerAssumption
          DEF QueueInv, QueueType, NoLostWakeup, Waiters, Loopers
<1>1. reqs' = reqs /\ inflight' = inflight /\ conn' = conn
  BY Zenon DEF WorkerWait, WorkerTake, SpuriousWakeup, SendBody, Write, nvars
<1>2. CASE WorkerWait(w)
  <2>1. wst' = [wst EXCEPT ![w] = "wait"] /\ queue' = queue /\ qlen' = qlen /\ queue = <<>>
    BY <1>2 DEF WorkerWait, qvars
  <2>2. wst' \in [Workers -> States]
    BY <2>1 DEF QueueInv, QueueType, States
  <2>3. Len(queue') <= Cardinality(Loopers')
    BY <1>0, <2>1
  <2> QED BY <1>1, <2>1, <2>2, <2>3 DEF QueueInv, QueueType, NoLostWakeup, Loopers
<1>3. CASE WorkerTake(w)
  <2>1. /\ wst' = [wst EXCEPT ![w] = "process"] /\ wst[w] = "loop"
        /\ queue' = Tail(queue) /\ qlen' = qlen - 1 /\ queue # <<>>
    BY <1>3 DEF WorkerTake
  <2>2. queue' \in Seq([n : Nat, fd : Int]) /\ Len(queue') = Len(queue) - 1
    BY <1>0, <2>1
  <2>3. /\ wst' \in [Workers -> States] /\ Cardinality(Loopers') = Cardinality(Loopers) - 1
        /\ Waiters' \subseteq Waiters
    <3>1. "process" \in States
      BY DEF States
    <3> QED BY <2>1, <3>1, LoopersStep, Zenon DEF QueueInv
  <2>4. Waiters' # {} => Len(queue') <= Cardinality(Loopers')
    <3>1. Waiters' # {} => Len(queue) <= Cardinality(Loopers)
      BY <1>0, <2>3
    <3>2. Len(queue') = Len(queue) - 1 /\ Cardinality(Loopers') = Cardinality(Loopers) - 1
      BY <2>2, <2>3
    <3>3. Len(queue) \in Nat /\ Cardinality(Loopers) \in Nat
      BY <1>0
    <3> QED BY <3>1, <3>2, <3>3
  <2>5. qlen' = Len(queue') /\ Len(queue') <= QUEUE_DEPTH
    BY <1>0, <2>1, <2>2
  <2> QED BY <1>1, <2>2, <2>3, <2>4, <2>5
          DEF QueueInv, QueueType, NoLostWakeup, Loopers, Waiters
<1>4. CASE SpuriousWakeup(w) \/ SendBody(w)
  <2>1. /\ wst' = [wst EXCEPT ![w] = "loop"] /\ wst[w] # "loop"
        /\ queue' = queue /\ qlen' = qlen
    BY <1>4 DEF SpuriousWakeup, SendBody, qvars
  <2>2. /\ wst' \in [Workers -> States] /\ Cardinality(Loopers') = Cardinality(Loopers) + 1
        /\ Waiters' \subseteq Waiters
    <3>1. "loop" \in States
      BY DEF States
    <3> QED BY <2>1, <3>1, LoopersStep, Zenon DEF QueueInv
  <2>3. Waiters' # {} => Len(queue') <= Cardinality(Loopers')
    BY <1>0, <2>1, <2>2
  <2> QED BY <1>1, <2>1, <2>2, <2>3 DEF QueueInv, QueueType, NoLostWakeup, Loopers, Waiters
<1> QED BY <1>2, <1>3, <1>4

(* The network thread: a frame or a datagram becomes one item.              *)
LEMMA NetworkStep ==
  ASSUME QueueInv,
         Network \/ \E p \in Payloads : Datagram(p)
  PROVE  QueueInv'
<1>1. ASSUME NEW f \in Fds, ReadFrame(f) PROVE QueueInv'
  <2>1. /\ conn[f] \in Clients /\ inflight[conn[f]] # <<>>
        /\ inflight' = [inflight EXCEPT ![conn[f]] = Tail(@)]
        /\ req_queue_push(Item(Head(inflight[conn[f]]), f))
        /\ reqs' = reqs /\ conn' = conn
    BY <1>1 DEF ReadFrame, QueueInv, QueueType
  <2>2. inflight[conn[f]] \in Seq(Nat)
    BY <2>1 DEF QueueInv, QueueType
  <2>3. Head(inflight[conn[f]]) \in Nat /\ Tail(inflight[conn[f]]) \in Seq(Nat)
    BY <2>1, <2>2
  <2>4. Item(Head(inflight[conn[f]]), f) \in [n : Nat, fd : Int]
    BY <2>3, ServerAssumption DEF Item
  <2>5. inflight' \in [Clients -> Seq(Nat)]
    BY <2>1, <2>3 DEF QueueInv, QueueType
  <2> QED BY <2>1, <2>4, <2>5, PushStep DEF QueueInv, QueueType
<1>2. ASSUME NEW f \in Fds, CloseConn(f) PROVE QueueInv'
  <2>1. /\ conn[f] \in Clients
        /\ conn' = [conn EXCEPT ![f] = Nobody]
        /\ inflight' = [inflight EXCEPT ![conn[f]] = <<>>]
        /\ queue' = queue /\ qlen' = qlen /\ wst' = wst /\ reqs' = reqs
    BY <1>2 DEF CloseConn, QueueInv, QueueType, qvars, wvars
  <2>2. conn' \in [Fds -> Clients \cup {Nobody}]
    BY <2>1 DEF QueueInv, QueueType
  <2>3. inflight' \in [Clients -> Seq(Nat)]
    BY <2>1 DEF QueueInv, QueueType
  <2> QED BY <2>1, <2>2, <2>3 DEF QueueInv, QueueType, NoLostWakeup, In
<1>3. ASSUME NEW p \in Payloads, Datagram(p) PROVE QueueInv'
  <2>1. /\ reqs' = Append(reqs, [client |-> Nobody, payload |-> p])
        /\ req_queue_push(Item(Len(reqs) + 1, UDP))
        /\ inflight' = inflight /\ conn' = conn
    BY <1>3 DEF Datagram, nvars
  <2>2. Item(Len(reqs) + 1, UDP) \in [n : Nat, fd : Int]
    BY DEF QueueInv, QueueType, Item, UDP
  <2>3. reqs' \in Seq([client : Clients \cup {Nobody}, payload : Payloads])
    BY <2>1 DEF QueueInv, QueueType
  <2> QED BY <2>1, <2>2, <2>3, PushStep DEF QueueInv, QueueType
<1> QED BY <1>1, <1>2, <1>3 DEF Network

(* What the clients do leaves the queue and the workers alone.              *)
LEMMA ClientStep ==
  ASSUME QueueInv, NEW c \in Clients,
         Accept(c) \/ ClientClose(c) \/ \E p \in Payloads : SendRequest(c, p)
  PROVE  QueueInv'
<1>1. queue' = queue /\ qlen' = qlen /\ wst' = wst
  BY Zenon DEF Accept, ClientClose, SendRequest, qvars, wvars
<1>2. CASE Accept(c)
  <2>1. conn' \in [Fds -> Clients \cup {Nobody}]
    BY <1>2, Zenon DEF Accept, QueueInv, QueueType
  <2>2. reqs' = reqs /\ inflight' = inflight
    BY <1>2 DEF Accept
  <2> QED BY <1>1, <2>1, <2>2 DEF QueueInv, QueueType, NoLostWakeup, In
<1>3. CASE ClientClose(c)
  BY <1>1, <1>3 DEF ClientClose, QueueInv, QueueType, NoLostWakeup, In
<1>4. ASSUME NEW p \in Payloads, SendRequest(c, p) PROVE QueueInv'
  <2>1. /\ reqs' = Append(reqs, [client |-> c, payload |-> p])
        /\ inflight' = [inflight EXCEPT ![c] = Append(@, Len(reqs) + 1)]
        /\ conn' = conn
    BY <1>4 DEF SendRequest
  <2>2. reqs' \in Seq([client : Clients \cup {Nobody}, payload : Payloads])
    BY <2>1 DEF QueueInv, QueueType
  <2>3. Append(inflight[c], Len(reqs) + 1) \in Seq(Nat)
    BY DEF QueueInv, QueueType
  <2>4. inflight' \in [Clients -> Seq(Nat)]
    BY <2>1, <2>3 DEF QueueInv, QueueType
  <2> QED BY <1>1, <2>1, <2>2, <2>4 DEF QueueInv, QueueType, NoLostWakeup, In
<1> QED BY <1>2, <1>3, <1>4

(* Every step of the daemon and of its clients keeps the queue's invariant. *)
LEMMA QueueStep == QueueInv /\ [Next]_vars => QueueInv'
<1> SUFFICES ASSUME QueueInv, [Next]_vars PROVE QueueInv'
  OBVIOUS
<1>1. CASE UNCHANGED vars
  BY <1>1 DEF vars, qvars, wvars, nvars, QueueInv, QueueType, NoLostWakeup, In
<1>2. CASE Next
  <2>1. ASSUME NEW w \in Workers, Work(w) \/ SpuriousWakeup(w) PROVE QueueInv'
    BY <2>1, BusyStep, LoopStep DEF Work
  <2> QED BY <1>2, <2>1, NetworkStep, ClientStep DEF Next, Environment
<1> QED BY <1>1, <1>2

(* The queue starts empty.                                                  *)
LEMMA QueueInit == Init => QueueInv
<1> SUFFICES ASSUME Init PROVE QueueInv
  OBVIOUS
<1>1. In({"wait"}) = {}
  BY DEF Init, In
<1>2. QueueType
  BY DEF Init, QueueType, States
<1> QED BY <1>1, <1>2, ServerAssumption DEF Init, QueueInv, NoLostWakeup

(* No wakeup is lost between req_queue_push and worker_fn, and qlen always  *)
(* counts the list, for any number of workers.                              *)
THEOREM WakeupsKept == Spec => []NoLostWakeup
<1>1. QueueInv => NoLostWakeup
  BY DEF QueueInv
<1> QED BY <1>1, QueueInit, QueueStep, PTL DEF Spec

-----------------------------------------------------------------------------
(* Where the requests are, and what the workers do with them.               *)

Items == [n : Nat, fd : Int]
Results == {None, "0", "1001", "1002", "1003", "1100", "OK", "ERR"}
Parts == [kind : {"header", "body"}, n : Nat, result : Results]
Ids == {None} \cup {ReqId(p) : p \in Payloads}

\* The control points of a worker that has an item.
Working == {"process", "put", "log", "header", "body"}

ServerType ==
  /\ QueueInv
  /\ job \in [Workers -> Items] /\ res \in [Workers -> Results]
  /\ dedup_tab \in [0 .. DEDUP_MAX - 1 -> [id : Ids, result : Results]]
  /\ dedup_pos \in 0 .. DEDUP_MAX - 1
  /\ cst \in [Clients -> {"new", "open", "closed"}]
  /\ stream \in [Clients -> Seq(Parts)]

\* Every request that was sent is in at most one place: on its way to the
\* server, in the queue, or in the hands of a worker.
OwnInv ==
  /\ \A i \in DOMAIN queue : queue[i].n \in DOMAIN reqs
  /\ \A w \in Workers : IF wst[w] \in Working THEN job[w].n \in DOMAIN reqs ELSE job[w].n = 0
  /\ \A c \in Clients : \A i \in DOMAIN inflight[c] : inflight[c][i] \in Sent(c)
  /\ \A i, j \in DOMAIN queue : queue[i].n = queue[j].n => i = j
  /\ \A v, w \in Workers : job[v].n = job[w].n => v = w \/ job[v].n = 0
  /\ \A c \in Clients : \A i, j \in DOMAIN inflight[c] : inflight[c][i] = inflight[c][j] => i = j
  /\ \A w \in Workers : \A i \in DOMAIN queue : job[w].n # queue[i].n
  /\ \A c \in Clients : \A i \in DOMAIN inflight[c] :
       /\ \A j \in DOMAIN queue : inflight[c][i] # queue[j].n
       /\ \A w \in Workers : inflight[c][i] # job[w].n

\* A legacy answer that is on its way out has been logged.
LogInv ==
  /\ LoggedFirst
  /\ \A c \in Clients : \A i \in DOMAIN stream[c] : stream[c][i].n \in DOMAIN reqs
  /\ \A w \in Workers :
       wst[w] \in {"header", "body"} /\ Payload(w) \notin CliRequests
         => Recorded(job[w].n, res[w])

\* Legacy requests with one id, unless it is empty, are one request.
IdsTellResults ==
  \A p, q \in Payloads \ CliRequests :
    ReqId(p) = ReqId(q) /\ ReqId(p) # "" => Success(p) = Success(q)

\* Results in hand, in the ring and in the log are the requests' own.
ResultInv ==
  /\ \A w \in Workers :
       wst[w] \in {"put", "log"} =>
         Payload(w) \notin CliRequests /\ res[w] = Success(Payload(w))
  /\ \A i \in DOMAIN dedup_tab :
       dedup_tab[i].id # None =>
         /\ dedup_tab[i].id # ""
         /\ \E p \in Payloads \ CliRequests :
              dedup_tab[i].id = ReqId(p) /\ dedup_tab[i].result = Success(p)
  /\ \A a \in reqlog : a.n \in DOMAIN reqs /\ a.result = Success(reqs[a.n].payload)

(* handle_cli answers with one of the codes of vts_protocol.h.              *)
LEMMA CliCodes == \A p \in Payloads : handle_cli(p).code \in Results
<1> TAKE p \in Payloads
<1> DEFINE name == Fields[p]["name"]
<1>1. room_create(rooms, name).rc \in {"ok", "exists", "full"}
  BY DEF room_create
<1>2. room_delete(rooms, name).rc \in {"ok", "notfound"}
  BY DEF room_delete
<1> HIDE DEF name
<1> QED BY <1>1, <1>2 DEF handle_cli, Results, name

(* A write reaches the client the descriptor leads to, or nobody.           *)
LEMMA WriteStep ==
  ASSUME ServerType, NEW fd \in Int, NEW part \in Parts, Write(fd, part)
  PROVE  /\ cst' = cst /\ inflight' = inflight /\ conn' = conn
         /\ stream' \in [Clients -> Seq(Parts)]
         /\ \/ stream' = stream
            \/ \E c \in Clients :
                 /\ fd \in Fds /\ conn[fd] = c /\ cst[c] = "open"
                 /\ stream' = [stream EXCEPT ![c] = Append(@, part)]
<1>0. stream \in [Clients -> Seq(Parts)]
  BY DEF ServerType
<1>1. CASE fd \notin Fds \/ conn[fd] = Nobody
  <2>1. UNCHANGED nvars
    BY <1>1, Zenon DEF Write
  <2> QED BY <1>0, <2>1 DEF nvars
<1>2. CASE fd \in Fds /\ conn[fd] # Nobody
  <2>1. conn[fd] \in Clients
    BY <1>2 DEF ServerType, QueueInv, QueueType
  <2>2. \/ /\ cst[conn[fd]] = "open"
           /\ stream' = [stream EXCEPT ![conn[fd]] = Append(@, part)]
           /\ UNCHANGED <<cst, inflight, rst, conn, alive>>
        \/ UNCHANGED <<cst, inflight, stream, conn>>
    BY <1>2, Zenon DEF Write
  <2>3. Append(stream[conn[fd]], part) \in Seq(Parts)
    BY <1>0, <2>1
  <2> QED BY <1>0, <1>2, <2>1, <2>2, <2>3, Zenon
<1> QED BY <1>1, <1>2

(* What a worker is about to write is a part of an answer.                  *)
LEMMA PartType ==
  ASSUME ServerType, NEW w \in Workers, NEW kind \in {"header", "body"}
  PROVE  Part(w, kind) \in Parts /\ job[w].fd \in Int
BY DEF ServerType, Part, Parts, Items

(* The smallest descriptor or slot is one of them.                          *)
LEMMA MinIn ==
  ASSUME NEW S \in SUBSET Nat, S # {}
  PROVE  Min(S) \in S
<1> DEFINE R == {ss \in Nat \X Nat : ss[1] < ss[2]}
<1>1. IsWellFoundedOn(R, Nat)
  BY NatLessThanWellFounded DEF OpToRel
<1>2. PICK x \in S : \A y \in S : ~(<<y, x>> \in R)
  <2> HIDE DEF R
  <2> QED BY <1>1, WFMin, Zenon
<1>3. \A y \in S : x <= y
  <2> SUFFICES ASSUME NEW y \in S PROVE ~(y < x)
    OBVIOUS
  <2>1. y < x => <<y, x>> \in R
    OBVIOUS
  <2> QED BY <1>2, <2>1
<1> QED BY <1>3, Zenon DEF Min

(* The request a worker has is one that was sent.                           *)
LEMMA PayloadType ==
  ASSUME ServerType, OwnInv, NEW w \in Workers, wst[w] \in Working
  PROVE  Payload(w) \in Payloads /\ job[w].n \in DOMAIN reqs
<1>1. reqs \in Seq([client : Clients \cup {Nobody}, payload : Payloads])
  BY DEF ServerType, QueueInv, QueueType
<1>2. job[w].n \in DOMAIN reqs
  BY DEF OwnInv
<1>3. reqs[job[w].n] \in [client : Clients \cup {Nobody}, payload : Payloads]
  <2> DEFINE Sent1 == [client : Clients \cup {Nobody}, payload : Payloads]
  <2> HIDE DEF Sent1
  <2>1. reqs \in Seq(Sent1)
    BY <1>1 DEF Sent1
  <2>2. reqs[job[w].n] \in Sent1
    BY <1>2, <2>1
  <2> QED BY <2>2 DEF Sent1
<1> QED BY <1>2, <1>3 DEF Payload

(* The types of the worker, the ring and the clients.                       *)
LEMMA TypeStep == ServerType /\ OwnInv /\ [Next]_vars => ServerType'
<1> SUFFICES ASSUME ServerType, OwnInv, [Next]_vars PROVE ServerType'
  OBVIOUS
<1> DEFINE Rest == /\ job' \in [Workers -> Items] /\ res' \in [Workers -> Results]
                   /\ dedup_tab' \in [0 .. DEDUP_MAX - 1 -> [id : Ids, result : Results]]
                   /\ dedup_pos' \in 0 .. DEDUP_MAX - 1
                   /\ cst' \in [Clients -> {"new", "open", "closed"}]
                   /\ stream' \in [Clients -> Seq(Parts)]
<1>0. /\ QueueInv'
      /\ job \in [Workers -> Items] /\ res \in [Workers -> Results]
      /\ dedup_tab \in [0 .. DEDUP_MAX - 1 -> [id : Ids, result : Results]]
      /\ dedup_pos \in 0 .. DEDUP_MAX - 1
      /\ cst \in [Clients -> {"new", "open", "closed"}]
      /\ stream \in [Clients -> Seq(Parts)]
  BY QueueStep DEF ServerType
<1>1. ASSUME NEW w \in Workers, WorkerWait(w) \/ SpuriousWakeup(w) \/ LogResult(w) PROVE Rest
  <2>1. UNCHANGED <<job, res, dedup_tab, dedup_pos, cst, stream>>
    BY <1>1 DEF WorkerWait, SpuriousWakeup, LogResult, dvars, nvars
  <2> QED BY <1>0, <2>1
<1>2. ASSUME NEW w \in Workers, WorkerTake(w) PROVE Rest
  <2>1. /\ queue # <<>> /\ job' = [job EXCEPT ![w] = Head(queue)]
        /\ UNCHANGED <<res, dedup_tab, dedup_pos, cst, stream>>
    BY <1>2 DEF WorkerTake, dvars, nvars
  <2>2. queue \in Seq(Items)
    BY DEF ServerType, QueueInv, QueueType, Items
  <2>3. Head(queue) \in Items
    BY <2>1, <2>2
  <2> QED BY <1>0, <2>1, <2>3
<1>3. ASSUME NEW w \in Workers, ProcessCli(w) PROVE Rest
  <2>1. /\ wst[w] \in Working /\ res' = [res EXCEPT ![w] = handle_cli(Payload(w)).code]
        /\ UNCHANGED <<job, dedup_tab, dedup_pos, cst, stream>>
    BY <1>3 DEF ProcessCli, dvars, nvars, Working
  <2>2. handle_cli(Payload(w)).code \in Results
    BY <2>1, CliCodes, PayloadType
  <2> QED BY <1>0, <2>1, <2>2
<1>4. ASSUME NEW w \in Workers, DedupFind(w) PROVE Rest
  <2> DEFINE id == ReqId(Payload(w))
             hit == id # "" /\ Slots(id) # {}
  <2>1. /\ res' = [res EXCEPT ![w] = IF hit THEN dedup_tab[Min(Slots(id))].result
                                     ELSE Success(Payload(w))]
        /\ UNCHANGED <<job, dedup_tab, dedup_pos, cst, stream>>
    BY <1>4, Zenon DEF DedupFind, dvars, nvars
  <2>2. hit => dedup_tab[Min(Slots(id))].result \in Results
    <3>1. Slots(id) \in SUBSET Nat /\ Slots(id) \subseteq 0 .. DEDUP_MAX - 1
      BY <1>0, ServerAssumption DEF Slots
    <3> QED BY <1>0, <3>1, MinIn, Zenon
  <2>3. Success(Payload(w)) \in Results
    BY DEF Success, Results
  <2> HIDE DEF hit, id
  <2> QED BY <1>0, <2>1, <2>2, <2>3
<1>5. ASSUME NEW w \in Workers, DedupPut(w) PROVE Rest
  <2> DEFINE id == ReqId(Payload(w))
  <2>1. UNCHANGED <<job, res, cst, stream>>
    BY <1>5, Zenon DEF DedupPut, nvars
  <2>2. CASE id = ""
    BY <1>0, <1>5, <2>1, <2>2, Zenon DEF DedupPut, dvars
  <2>3. CASE id # ""
    <3>1. /\ dedup_tab' = [dedup_tab EXCEPT ![dedup_pos] = [id |-> id, result |-> res[w]]]
          /\ dedup_pos' = (dedup_pos + 1) % DEDUP_MAX /\ wst[w] \in Working
      BY <1>5, <2>3, Zenon DEF DedupPut, Working
    <3>2. dedup_pos' \in 0 .. DEDUP_MAX - 1
      BY <1>0, <3>1, ServerAssumption
    <3>3. id \in Ids
      BY <3>1, PayloadType DEF Ids
    <3> HIDE DEF id
    <3> QED BY <1>0, <2>1, <3>1, <3>2, <3>3
  <2> QED BY <2>2, <2>3, Zenon
<1>6. ASSUME NEW w \in Workers, SendHeader(w) PROVE Rest
  <2>1. Write(job[w].fd, Part(w, "header")) /\ UNCHANGED <<job, res, dedup_tab, dedup_pos>>
    BY <1>6 DEF SendHeader, dvars
  <2>2. cst' = cst /\ stream' \in [Clients -> Seq(Parts)]
    BY <2>1, PartType, WriteStep
  <2> QED BY <1>0, <2>1, <2>2
<1>7. ASSUME NEW w \in Workers, SendBody(w) PROVE Rest
  <2>1. /\ Write(job[w].fd, Part(w, "body")) /\ UNCHANGED <<dedup_tab, dedup_pos>>
        /\ job' = [job EXCEPT ![w] = NoItem] /\ res' = [res EXCEPT ![w] = None]
    BY <1>7 DEF SendBody, dvars
  <2>2. cst' = cst /\ stream' \in [Clients -> Seq(Parts)]
    BY <2>1, PartType, WriteStep
  <2>3. NoItem \in Items /\ None \in Results
    BY DEF NoItem, Item, Items, UDP, Results
  <2> QED BY <1>0, <2>1, <2>2, <2>3
<1>8. ASSUME NEW f \in Fds, ReadFrame(f) \/ CloseConn(f) PROVE Rest
  <2>1. UNCHANGED <<job, res, dedup_tab, dedup_pos, cst, stream>>
    BY <1>8 DEF ReadFrame, CloseConn, req_queue_push, dvars, wvars
  <2> QED BY <1>0, <2>1
<1>9. CASE Environment
  <2>1. UNCHANGED <<job, res, dedup_tab, dedup_pos, stream>>
    BY <1>9, Zenon DEF Environment, Accept, ClientClose, SendRequest, Datagram, req_queue_push,
                wvars, dvars, nvars
  <2>2. \/ cst' = cst
        \/ \E c \in Clients : cst' = [cst EXCEPT ![c] = "open"] \/ cst' = [cst EXCEPT ![c] = "closed"]
    BY <1>9, Zenon DEF Environment, Accept, ClientClose, SendRequest, Datagram, nvars
  <2>3. cst' \in [Clients -> {"new", "open", "closed"}]
    BY <1>0, <2>2, Zenon
  <2> QED BY <1>0, <2>1, <2>3 DEF ServerType
<1>10. CASE UNCHANGED vars
  BY <1>0, <1>10 DEF vars, wvars, dvars, nvars, ServerType
<1>11. CASE Next
  <2>1. Rest => ServerType'
    BY <1>0 DEF ServerType
  <2> HIDE DEF Rest
  <2>2. ASSUME NEW w \in Workers, Work(w) \/ SpuriousWakeup(w) PROVE Rest
    BY <2>2, <1>1, <1>2, <1>3, <1>4, <1>5, <1>6, <1>7 DEF Work
  <2>3. CASE Network
    BY <2>1, <2>3, <1>8, Zenon DEF Network
  <2> QED BY <1>11, <2>1, <2>2, <2>3, <1>9 DEF Next
<1> QED BY <1>10, <1>11

\* The queue after item was pushed and its d oldest items were dropped.
Pushed(item, d) ==
  /\ d <= Len(queue) /\ Len(queue') = Len(queue) - d + 1
  /\ DOMAIN queue' = 1 .. Len(queue) - d + 1
  /\ queue'[Len(queue) - d + 1] = item
  /\ \A i \in 1 .. Len(queue) - d : i + d \in DOMAIN queue /\ queue'[i] = queue[i + d]

(* What req_queue_push does to the queue: the item is last, and the others  *)
(* are the ones that were there, but for the oldest when it was full.       *)
LEMMA PushShape ==
  ASSUME ServerType, NEW item \in Items, req_queue_push(item)
  PROVE  /\ job' = job /\ res' = res
         /\ \E d \in {0, 1} : Pushed(item, d)
         /\ \A w \in Workers : wst'[w] = wst[w] \/ {wst[w], wst'[w]} \cap Working = {}
<1>1. queue \in Seq(Items) /\ wst \in [Workers -> States]
  BY DEF ServerType, QueueInv, QueueType, Items
<1> DEFINE full == qlen >= QUEUE_DEPTH /\ queue # <<>>
<1>2. job' = job /\ res' = res /\ Signal
  BY DEF req_queue_push
<1>3. \A w \in Workers : wst'[w] = wst[w] \/ {wst[w], wst'[w]} \cap Working = {}
  <2>1. CASE wst' = wst
    BY <2>1
  <2>2. CASE \E v \in Workers : wst[v] = "wait" /\ wst' = [wst EXCEPT ![v] = "loop"]
    <3>1. PICK v \in Workers : wst[v] = "wait" /\ wst' = [wst EXCEPT ![v] = "loop"]
      BY <2>2, Zenon
    <3>2. wst'[v] = "loop" /\ \A w \in Workers \ {v} : wst'[w] = wst[w]
      BY <1>1, <3>1
    <3> QED BY <3>1, <3>2 DEF Working
  <2> QED BY <1>2, <2>1, <2>2 DEF Signal
<1>4. CASE full
  <2>1. queue' = Append(Tail(queue), item)
    BY <1>4 DEF req_queue_push
  <2>2. /\ Tail(queue) \in Seq(Items) /\ Len(Tail(queue)) = Len(queue) - 1 /\ Len(queue) >= 1
        /\ \A i \in 1 .. Len(queue) - 1 : Tail(queue)[i] = queue[i + 1]
    BY <1>1, <1>4
  <2>3. /\ Len(queue') = Len(queue) /\ queue'[Len(queue)] = item
        /\ \A i \in 1 .. Len(queue) - 1 : queue'[i] = queue[i + 1]
        /\ queue' \in Seq(Items)
    BY <1>1, <2>1, <2>2
  <2>4. Pushed(item, 1)
    BY <1>1, <2>2, <2>3 DEF Pushed
  <2> QED BY <1>2, <1>3, <2>4
<1>5. CASE ~full
  <2>1. queue' = Append(queue, item)
    BY <1>5 DEF req_queue_push
  <2>2. Pushed(item, 0)
    BY <1>1, <2>1 DEF Pushed
  <2> QED BY <1>2, <1>3, <2>2
<1> QED BY <1>4, <1>5

(* The steps of a worker between taking an item and answering it leave      *)
(* every request where it is.                                               *)
LEMMA InnerOwn ==
  ASSUME ServerType, OwnInv, UNCHANGED <<queue, job, inflight, reqs>>,
         \A v \in Workers : wst'[v] \in Working <=> wst[v] \in Working
  PROVE  OwnInv'
<1>1. \A c \in Clients : Sent(c)' = Sent(c)
  BY Zenon DEF Sent
<1> QED BY <1>1 DEF OwnInv

(* worker_fn takes the oldest item, and frees it after its answer.          *)
LEMMA TakeOwn ==
  ASSUME ServerType, OwnInv, NEW w \in Workers, WorkerTake(w)
  PROVE  OwnInv'
<1>1. /\ queue \in Seq(Items) /\ wst \in [Workers -> States] /\ job \in [Workers -> Items]
      /\ \A c \in Clients : inflight[c] \in Seq(Nat)
  BY DEF ServerType, QueueInv, QueueType, Items
<1>2. /\ queue # <<>> /\ queue' = Tail(queue) /\ wst' = [wst EXCEPT ![w] = "process"]
      /\ job' = [job EXCEPT ![w] = Head(queue)] /\ inflight' = inflight /\ reqs' = reqs
  BY DEF WorkerTake, nvars
<1>3. /\ Len(queue) >= 1 /\ 1 \in DOMAIN queue /\ DOMAIN queue' = 1 .. Len(queue) - 1
      /\ \A i \in DOMAIN queue' : i + 1 \in DOMAIN queue /\ queue'[i] = queue[i + 1]
      /\ \A i \in DOMAIN queue' : i \in Nat
  BY <1>1, <1>2
<1>4. /\ job'[w] = queue[1] /\ \A v \in Workers \ {w} : job'[v] = job[v]
      /\ wst'[w] = "process" /\ \A v \in Workers \ {w} : wst'[v] = wst[v]
  BY <1>1, <1>2
<1>5. \A c \in Clients : Sent(c)' = Sent(c)
  BY <1>2 DEF Sent
<1>6. \A i \in DOMAIN queue' : i + 1 # 1
  BY <1>3
<1>7. \A i \in DOMAIN queue' : queue'[i].n # queue[1].n
  BY <1>3, <1>6 DEF OwnInv
<1>8. \A i, j \in DOMAIN queue' : queue'[i].n = queue'[j].n => i = j
  BY <1>3 DEF OwnInv
<1>9. \A v \in Workers : IF wst'[v] \in Working THEN job'[v].n \in DOMAIN reqs' ELSE job'[v].n = 0
  BY <1>2, <1>3, <1>4 DEF OwnInv, Working
<1>10. \A u, v \in Workers : job'[u].n = job'[v].n => u = v \/ job'[u].n = 0
  BY <1>3, <1>4 DEF OwnInv
<1>11. \A v \in Workers : \A i \in DOMAIN queue' : job'[v].n # queue'[i].n
  BY <1>3, <1>4, <1>7 DEF OwnInv
<1>12. \A c \in Clients : \A i \in DOMAIN inflight[c] : \A v \in Workers : inflight[c][i] # job'[v].n
  BY <1>3, <1>4 DEF OwnInv
<1> QED BY <1>2, <1>3, <1>5, <1>8, <1>9, <1>10, <1>11, <1>12 DEF OwnInv

(* The answered item is freed.                                              *)
LEMMA FreeOwn ==
  ASSUME ServerType, OwnInv, NEW w \in Workers, SendBody(w)
  PROVE  OwnInv'
<1>1. wst \in [Workers -> States] /\ job \in [Workers -> Items]
  BY DEF ServerType, QueueInv, QueueType
<1>2. /\ wst' = [wst EXCEPT ![w] = "loop"] /\ job' = [job EXCEPT ![w] = NoItem]
      /\ queue' = queue /\ reqs' = reqs
  BY DEF SendBody, qvars
<1>3. inflight' = inflight
  BY PartType, WriteStep DEF SendBody
<1>4. /\ job'[w].n = 0 /\ \A v \in Workers \ {w} : job'[v] = job[v]
      /\ wst'[w] = "loop" /\ \A v \in Workers \ {w} : wst'[v] = wst[v]
  BY <1>1, <1>2 DEF NoItem, Item
<1>5. \A c \in Clients : Sent(c)' = Sent(c)
  BY <1>2 DEF Sent
<1>6. \A n \in DOMAIN reqs : n # 0
  BY DEF ServerType, QueueInv, QueueType
<1>7. \A v \in Workers : IF wst'[v] \in Working THEN job'[v].n \in DOMAIN reqs' ELSE job'[v].n = 0
  BY <1>2, <1>4 DEF OwnInv, Working
<1>8. \A u, v \in Workers : job'[u].n = job'[v].n => u = v \/ job'[u].n = 0
  BY <1>4 DEF OwnInv
<1>9. \A v \in Workers : \A i \in DOMAIN queue : job'[v].n # queue[i].n
  BY <1>4, <1>6 DEF OwnInv
<1>10. \A c \in Clients : \A i \in DOMAIN inflight[c] : \A v \in Workers : inflight[c][i] # job'[v].n
  BY <1>4, <1>6 DEF OwnInv, Sent
<1> QED BY <1>2, <1>3, <1>5, <1>7, <1>8, <1>9, <1>10 DEF OwnInv

(* A request that is nowhere else goes into the queue.                      *)
LEMMA PushOwn ==
  ASSUME ServerType, OwnInv, NEW item \in Items, req_queue_push(item),
         item.n \in DOMAIN reqs', item.n # 0, DOMAIN reqs \subseteq DOMAIN reqs',
         \A i \in DOMAIN queue : queue[i].n # item.n,
         \A w \in Workers : job[w].n # item.n
  PROVE  /\ \A i \in DOMAIN queue' : queue'[i].n = item.n \/ \E j \in DOMAIN queue : queue'[i] = queue[j]
         /\ \A i \in DOMAIN queue' : queue'[i].n \in DOMAIN reqs'
         /\ \A w \in Workers : IF wst'[w] \in Working THEN job'[w].n \in DOMAIN reqs' ELSE job'[w].n = 0
         /\ \A i, j \in DOMAIN queue' : queue'[i].n = queue'[j].n => i = j
         /\ \A v, w \in Workers : job'[v].n = job'[w].n => v = w \/ job'[v].n = 0
         /\ \A w \in Workers : \A i \in DOMAIN queue' : job'[w].n # queue'[i].n
<1>1. PICK d \in {0, 1} : Pushed(item, d)
  BY PushShape
<1>2. /\ job' = job /\ \A w \in Workers : wst'[w] = wst[w] \/ {wst[w], wst'[w]} \cap Working = {}
  BY PushShape
<1>3. Len(queue) \in Nat /\ DOMAIN queue = 1 .. Len(queue)
  BY DEF ServerType, QueueInv, QueueType
<1>4. \A i \in DOMAIN queue' :
        \/ i = Len(queue) - d + 1 /\ queue'[i] = item
        \/ i # Len(queue) - d + 1 /\ i + d \in DOMAIN queue /\ queue'[i] = queue[i + d]
  BY <1>1, <1>3 DEF Pushed
<1>5. \A i \in DOMAIN queue' : queue'[i].n = item.n \/ \E j \in DOMAIN queue : queue'[i] = queue[j]
  BY <1>4, Zenon
<1>6. \A i \in DOMAIN queue' : queue'[i].n \in DOMAIN reqs'
  BY <1>5 DEF OwnInv
<1>7. \A i, j \in DOMAIN queue' : queue'[i].n = queue'[j].n => i = j
  <2> SUFFICES ASSUME NEW i \in DOMAIN queue', NEW j \in DOMAIN queue', queue'[i].n = queue'[j].n
               PROVE  i = j
    OBVIOUS
  <2>0. i \in Int /\ j \in Int
    BY <1>1, <1>3 DEF Pushed
  <2>1. CASE i = Len(queue) - d + 1
    BY <1>4, <2>1
  <2>2. CASE i # Len(queue) - d + 1
    <3>1. i + d \in DOMAIN queue /\ queue'[i] = queue[i + d]
      BY <1>4, <2>2
    <3>2. j + d \in DOMAIN queue /\ queue'[j] = queue[j + d]
      BY <1>4, <3>1, Zenon
    <3>3. i + d = j + d
      BY <3>1, <3>2, Zenon DEF OwnInv
    <3> QED BY <2>0, <3>3
  <2> QED BY <2>1, <2>2
<1>8. \A w \in Workers : \A i \in DOMAIN queue' : job'[w].n # queue'[i].n
  BY <1>2, <1>5 DEF OwnInv
<1>9. \A w \in Workers : IF wst'[w] \in Working THEN job'[w].n \in DOMAIN reqs' ELSE job'[w].n = 0
  BY <1>2, Zenon DEF OwnInv
<1>10. \A v, w \in Workers : job'[v].n = job'[w].n => v = w \/ job'[v].n = 0
  BY <1>2, Zenon DEF OwnInv
<1> QED BY <1>5, <1>6, <1>7, <1>8, <1>9, <1>10, Zenon

(* handle_frame moves a request from the connection into the queue.         *)
LEMMA FrameOwn ==
  ASSUME ServerType, OwnInv, NEW f \in Fds, ReadFrame(f)
  PROVE  OwnInv'
<1> DEFINE c == conn[f]
           n == Head(inflight[c])
<1>1. /\ c \in Clients /\ inflight[c] # <<>> /\ inflight \in [Clients -> Seq(Nat)]
      /\ inflight' = [inflight EXCEPT ![c] = Tail(@)]
      /\ req_queue_push(Item(n, f)) /\ reqs' = reqs
  BY DEF ReadFrame, ServerType, QueueInv, QueueType
<1> HIDE DEF c
<1>2. /\ n = inflight[c][1] /\ 1 \in DOMAIN inflight[c] /\ n \in Nat
      /\ \A i \in DOMAIN Tail(inflight[c]) :
           i \in Nat /\ i + 1 # 1 /\ i + 1 \in DOMAIN inflight[c] /\ Tail(inflight[c])[i] = inflight[c][i + 1]
  <2>1. inflight[c] \in Seq(Nat)
    BY <1>1
  <2> QED BY <1>1, <2>1
<1> HIDE DEF n
<1>3. n \in DOMAIN reqs /\ n # 0
  <2>1. n \in DOMAIN reqs
    BY <1>1, <1>2, Zenon DEF OwnInv, Sent
  <2> QED BY <2>1 DEF ServerType, QueueInv, QueueType
<1>4. Item(n, f) \in Items /\ Item(n, f).n = n
  BY <1>2, ServerAssumption DEF Item, Items
<1>5. /\ \A i \in DOMAIN queue : queue[i].n # n
      /\ \A w \in Workers : job[w].n # n
  BY <1>1, <1>2 DEF OwnInv
<1>6. job' = job
  BY <1>1, <1>4, PushShape, Zenon
<1>7. \A d \in Clients : \A i \in DOMAIN inflight'[d] :
        /\ inflight'[d][i] # n
        /\ \E j \in DOMAIN inflight[d] : inflight'[d][i] = inflight[d][j]
        /\ \A k \in DOMAIN inflight'[d] : inflight'[d][i] = inflight'[d][k] => i = k
  <2> TAKE d \in Clients
  <2>1. CASE d = c
    <3>1. inflight'[d] = Tail(inflight[c])
      BY <1>1, <2>1
    <3>2. inflight[d] = inflight[c]
      BY <2>1, Zenon
    <3>3. \A i \in DOMAIN inflight'[d] : inflight'[d][i] # n
      BY <1>1, <1>2, <3>1 DEF OwnInv
    <3>4. \A i, k \in DOMAIN inflight'[d] : inflight'[d][i] = inflight'[d][k] => i = k
      <4> SUFFICES ASSUME NEW i \in DOMAIN inflight'[d], NEW k \in DOMAIN inflight'[d],
                          inflight'[d][i] = inflight'[d][k]
                   PROVE  i = k
        BY Zenon
      <4>1. i + 1 = k + 1 /\ i \in Nat /\ k \in Nat
        BY <1>1, <1>2, <3>1 DEF OwnInv
      <4> QED BY <4>1
    <3> QED BY <1>2, <3>1, <3>2, <3>3, <3>4
  <2>2. CASE d # c
    <3>1. inflight'[d] = inflight[d]
      BY <1>1, <2>2, Zenon
    <3>2. n \in Sent(c) /\ \A i \in DOMAIN inflight[d] : inflight[d][i] \in Sent(d)
      BY <1>1, <1>2 DEF OwnInv
    <3>3. Sent(c) \cap Sent(d) = {}
      BY <2>2 DEF Sent
    <3>4. \A i \in DOMAIN inflight[d] : inflight[d][i] # n
      BY <3>2, <3>3
    <3> QED BY <3>1, <3>4 DEF OwnInv
  <2> QED BY <2>1, <2>2, Zenon
<1>8. \A d \in Clients : Sent(d)' = Sent(d)
  BY <1>1, Zenon DEF Sent
<1>9. \A d \in Clients : \A i \in DOMAIN inflight'[d] :
        /\ inflight'[d][i] \in Sent(d)
        /\ \A j \in DOMAIN queue : inflight'[d][i] # queue[j].n
        /\ \A w \in Workers : inflight'[d][i] # job[w].n
  BY <1>7 DEF OwnInv
<1>10. /\ \A i \in DOMAIN queue' : queue'[i].n = n \/ \E j \in DOMAIN queue : queue'[i] = queue[j]
       /\ \A i \in DOMAIN queue' : queue'[i].n \in DOMAIN reqs'
       /\ \A w \in Workers : IF wst'[w] \in Working THEN job'[w].n \in DOMAIN reqs' ELSE job'[w].n = 0
       /\ \A i, j \in DOMAIN queue' : queue'[i].n = queue'[j].n => i = j
       /\ \A v, w \in Workers : job'[v].n = job'[w].n => v = w \/ job'[v].n = 0
       /\ \A w \in Workers : \A i \in DOMAIN queue' : job'[w].n # queue'[i].n
  BY <1>1, <1>3, <1>4, <1>5, PushOwn, Zenon
<1>11. \A d \in Clients : \A i \in DOMAIN inflight'[d] : \A j \in DOMAIN queue' : inflight'[d][i] # queue'[j].n
  BY <1>7, <1>9, <1>10
<1> QED BY <1>6, <1>7, <1>8, <1>9, <1>10, <1>11 DEF OwnInv

(* A new request has a number of its own.                                   *)
LEMMA NewRequest ==
  ASSUME ServerType, OwnInv, NEW c \in Clients \cup {Nobody}, NEW p \in Payloads,
         reqs' = Append(reqs, [client |-> c, payload |-> p])
  PROVE  /\ Len(reqs) + 1 \in Nat \ {0} /\ Len(reqs) + 1 \notin DOMAIN reqs
         /\ DOMAIN reqs' = DOMAIN reqs \cup {Len(reqs) + 1}
         /\ \A n \in DOMAIN reqs : reqs'[n] = reqs[n]
         /\ reqs'[Len(reqs) + 1] = [client |-> c, payload |-> p]
         /\ \A d \in Clients : Sent(d)' = Sent(d) \cup IF d = c THEN {Len(reqs) + 1} ELSE {}
         /\ \A i \in DOMAIN queue : queue[i].n # Len(reqs) + 1
         /\ \A w \in Workers : job[w].n # Len(reqs) + 1
         /\ \A d \in Clients : \A i \in DOMAIN inflight[d] : inflight[d][i] # Len(reqs) + 1
<1> DEFINE Rs == [client : Clients \cup {Nobody}, payload : Payloads]
           r == [client |-> c, payload |-> p]
<1>1. reqs \in Seq(Rs) /\ r \in Rs
  BY DEF ServerType, QueueInv, QueueType
<1>2. r.client = c
  BY Zenon
<1> HIDE DEF Rs, r
<1>3. /\ Len(reqs) + 1 \in Nat \ {0} /\ Len(reqs) + 1 \notin DOMAIN reqs
      /\ DOMAIN reqs' = DOMAIN reqs \cup {Len(reqs) + 1}
      /\ \A n \in DOMAIN reqs : reqs'[n] = reqs[n]
      /\ reqs'[Len(reqs) + 1] = r
  BY <1>1 DEF r
<1>4. \A d \in Clients : Sent(d)' = Sent(d) \cup IF d = c THEN {Len(reqs) + 1} ELSE {}
  BY <1>2, <1>3, Zenon DEF Sent
<1>5. \A i \in DOMAIN queue : queue[i].n # Len(reqs) + 1
  BY <1>3, Zenon DEF OwnInv
<1>6. \A w \in Workers : job[w].n # Len(reqs) + 1
  BY <1>3, Zenon DEF OwnInv
<1>7. \A d \in Clients : \A i \in DOMAIN inflight[d] : inflight[d][i] # Len(reqs) + 1
  <2>1. \A d \in Clients : \A i \in DOMAIN inflight[d] : inflight[d][i] \in Sent(d)
    BY Zenon DEF OwnInv
  <2>2. \A d \in Clients : Len(reqs) + 1 \notin Sent(d)
    BY <1>3, Zenon DEF Sent
  <2> QED BY <2>1, <2>2, Zenon
<1> QED BY <1>3, <1>4, <1>5, <1>6, <1>7, Zenon DEF r

(* A client's request is first on its way to the server.                    *)
LEMMA SendOwn ==
  ASSUME ServerType, OwnInv, NEW c \in Clients, NEW p \in Payloads, SendRequest(c, p)
  PROVE  OwnInv'
<1> DEFINE n == Len(reqs) + 1
<1>1. /\ reqs' = Append(reqs, [client |-> c, payload |-> p])
      /\ inflight' = [inflight EXCEPT ![c] = Append(@, n)]
      /\ queue' = queue /\ wst' = wst /\ job' = job
  BY DEF SendRequest, qvars, wvars
<1>2. inflight \in [Clients -> Seq(Nat)]
  BY Zenon DEF ServerType, QueueInv, QueueType
<1>3. /\ n \in Nat /\ n \notin DOMAIN reqs /\ DOMAIN reqs' = DOMAIN reqs \cup {n}
      /\ \A d \in Clients : Sent(d)' = Sent(d) \cup IF d = c THEN {n} ELSE {}
      /\ \A i \in DOMAIN queue : queue[i].n # n
      /\ \A w \in Workers : job[w].n # n
      /\ \A d \in Clients : \A i \in DOMAIN inflight[d] : inflight[d][i] # n
  BY <1>1, NewRequest, Zenon
<1> HIDE DEF n
<1>4. /\ \A i \in DOMAIN inflight'[c] :
           \/ i = Len(inflight[c]) + 1 /\ inflight'[c][i] = n
           \/ i \in DOMAIN inflight[c] /\ inflight'[c][i] = inflight[c][i]
      /\ \A d \in Clients \ {c} : inflight'[d] = inflight[d]
  <2>1. inflight[c] \in Seq(Nat) /\ inflight'[c] = Append(inflight[c], n)
    BY <1>1, <1>2, Zenon
  <2>2. \A i \in DOMAIN inflight'[c] :
           \/ i = Len(inflight[c]) + 1 /\ inflight'[c][i] = n
           \/ i \in DOMAIN inflight[c] /\ inflight'[c][i] = inflight[c][i]
    BY <1>3, <2>1
  <2> QED BY <1>1, <1>2, <2>2
<1>5. \A d \in Clients : \A i, j \in DOMAIN inflight'[d] : inflight'[d][i] = inflight'[d][j] => i = j
  <2> TAKE d \in Clients
  <2>0. \A i, j \in DOMAIN inflight[d] : inflight[d][i] = inflight[d][j] => i = j
    BY Zenon DEF OwnInv
  <2>1. CASE d = c
    <3>1. \A i \in DOMAIN inflight[d] : inflight[d][i] # n
      BY <1>3, Zenon
    <3> QED BY <1>4, <2>0, <2>1, <3>1
  <2>2. CASE d # c
    BY <1>4, <2>0, <2>2, Zenon
  <2> QED BY <2>1, <2>2
<1>6. \A d \in Clients : \A i \in DOMAIN inflight'[d] : inflight'[d][i] \in Sent(d)'
  <2> TAKE d \in Clients
  <2>1. CASE d = c
    BY <1>3, <1>4, <2>1, Zenon DEF OwnInv
  <2>2. CASE d # c
    BY <1>3, <1>4, <2>2, Zenon DEF OwnInv
  <2> QED BY <2>1, <2>2
<1>7. \A d \in Clients : \A i \in DOMAIN inflight'[d] :
        /\ \A j \in DOMAIN queue : inflight'[d][i] # queue[j].n
        /\ \A w \in Workers : inflight'[d][i] # job[w].n
  <2> TAKE d \in Clients
  <2>0. \A i \in DOMAIN inflight[d] : /\ \A j \in DOMAIN queue : inflight[d][i] # queue[j].n
                                    /\ \A w \in Workers : inflight[d][i] # job[w].n
    BY Zenon DEF OwnInv
  <2>1. CASE d = c
    <3>1. /\ \A j \in DOMAIN queue : queue[j].n # n
          /\ \A w \in Workers : job[w].n # n
      BY <1>3, Zenon
    <3> SUFFICES ASSUME NEW i \in DOMAIN inflight'[c]
                 PROVE  /\ \A j \in DOMAIN queue : inflight'[c][i] # queue[j].n
                        /\ \A w \in Workers : inflight'[c][i] # job[w].n
      BY <2>1, Zenon
    <3>2. CASE inflight'[c][i] = n
      BY <3>1, <3>2, Zenon
    <3>3. CASE i \in DOMAIN inflight[c] /\ inflight'[c][i] = inflight[c][i]
      BY <2>0, <2>1, <3>3, Zenon
    <3> QED BY <1>4, <3>2, <3>3, Zenon
  <2>2. CASE d # c
    BY <1>4, <2>0, <2>2, Zenon
  <2> QED BY <2>1, <2>2, Zenon
<1>8. /\ \A i \in DOMAIN queue : queue[i].n \in DOMAIN reqs'
      /\ \A w \in Workers : IF wst[w] \in Working THEN job[w].n \in DOMAIN reqs' ELSE job[w].n = 0
  BY <1>3, Zenon DEF OwnInv
<1>9. /\ \A i, j \in DOMAIN queue : queue[i].n = queue[j].n => i = j
      /\ \A v, w \in Workers : job[v].n = job[w].n => v = w \/ job[v].n = 0
      /\ \A w \in Workers : \A i \in DOMAIN queue : job[w].n # queue[i].n
  BY Zenon DEF OwnInv
<1>10. queue' = queue /\ wst' = wst /\ job' = job
  BY <1>1
<1>11. \A d \in Clients : \A i \in DOMAIN inflight'[d] :
         /\ \A j \in DOMAIN queue' : inflight'[d][i] # queue'[j].n
         /\ \A w \in Workers : inflight'[d][i] # job'[w].n
  BY <1>7, <1>10, Zenon
<1>12. /\ \A i \in DOMAIN queue' : queue'[i].n \in DOMAIN reqs'
       /\ \A w \in Workers : IF wst'[w] \in Working THEN job'[w].n \in DOMAIN reqs' ELSE job'[w].n = 0
  BY <1>8, <1>10, Zenon
<1>13. /\ \A i, j \in DOMAIN queue' : queue'[i].n = queue'[j].n => i = j
       /\ \A v, w \in Workers : job'[v].n = job'[w].n => v = w \/ job'[v].n = 0
       /\ \A w \in Workers : \A i \in DOMAIN queue' : job'[w].n # queue'[i].n
  BY <1>9, <1>10, Zenon
<1> QED BY <1>5, <1>6, <1>11, <1>12, <1>13, Zenon DEF OwnInv

(* A datagram goes into the queue at once.                                  *)
LEMMA DatagramOwn ==
  ASSUME ServerType, OwnInv, NEW p \in Payloads, Datagram(p)
  PROVE  OwnInv'
<1> DEFINE n == Len(reqs) + 1
<1>1. /\ reqs' = Append(reqs, [client |-> Nobody, payload |-> p])
      /\ req_queue_push(Item(n, UDP)) /\ inflight' = inflight
  BY DEF Datagram, nvars
<1>2. /\ n \in Nat /\ n # 0 /\ DOMAIN reqs' = DOMAIN reqs \cup {n}
      /\ \A d \in Clients : Sent(d) \subseteq Sent(d)'
      /\ \A i \in DOMAIN queue : queue[i].n # n
      /\ \A w \in Workers : job[w].n # n
      /\ \A d \in Clients : \A i \in DOMAIN inflight[d] : inflight[d][i] # n
  BY <1>1, NewRequest, Zenon
<1> HIDE DEF n
<1>3. Item(n, UDP) \in Items /\ Item(n, UDP).n = n
  BY <1>2 DEF Item, Items, UDP
<1>4. job' = job
  BY <1>1, <1>3, PushShape, Zenon
<1>5. /\ \A i \in DOMAIN queue' : queue'[i].n = n \/ \E j \in DOMAIN queue : queue'[i] = queue[j]
      /\ \A i \in DOMAIN queue' : queue'[i].n \in DOMAIN reqs'
      /\ \A w \in Workers : IF wst'[w] \in Working THEN job'[w].n \in DOMAIN reqs' ELSE job'[w].n = 0
      /\ \A i, j \in DOMAIN queue' : queue'[i].n = queue'[j].n => i = j
      /\ \A v, w \in Workers : job'[v].n = job'[w].n => v = w \/ job'[v].n = 0
      /\ \A w \in Workers : \A i \in DOMAIN queue' : job'[w].n # queue'[i].n
  BY <1>1, <1>2, <1>3, PushOwn, Zenon
<1>6. \A d \in Clients : \A i \in DOMAIN inflight[d] :
        /\ inflight[d][i] \in Sent(d) /\ \A j \in DOMAIN queue : inflight[d][i] # queue[j].n
        /\ \A w \in Workers : inflight[d][i] # job[w].n
  BY Zenon DEF OwnInv
<1>7. inflight' = inflight
  BY <1>1
<1>8. \A d \in Clients : \A i \in DOMAIN inflight'[d] :
        /\ inflight'[d][i] \in Sent(d)' /\ \A j \in DOMAIN queue' : inflight'[d][i] # queue'[j].n
        /\ \A w \in Workers : inflight'[d][i] # job'[w].n
  <2> SUFFICES ASSUME NEW d \in Clients, NEW i \in DOMAIN inflight[d]
               PROVE  /\ inflight[d][i] \in Sent(d)' /\ \A j \in DOMAIN queue' : inflight[d][i] # queue'[j].n
                      /\ \A w \in Workers : inflight[d][i] # job[w].n
    BY <1>4, <1>7, Zenon
  <2>1. inflight[d][i] \in Sent(d)' /\ \A w \in Workers : inflight[d][i] # job[w].n
    BY <1>2, <1>6, Zenon
  <2>2. ASSUME NEW j \in DOMAIN queue' PROVE inflight[d][i] # queue'[j].n
    <3>1. queue'[j].n = n \/ \E k \in DOMAIN queue : queue'[j] = queue[k]
      BY <1>5, Zenon
    <3>2. inflight[d][i] # n /\ \A k \in DOMAIN queue : inflight[d][i] # queue[k].n
      BY <1>2, <1>6, Zenon
    <3> QED BY <3>1, <3>2, Zenon
  <2> QED BY <2>1, <2>2, Zenon
<1>9. \A d \in Clients : \A i, j \in DOMAIN inflight'[d] : inflight'[d][i] = inflight'[d][j] => i = j
  BY <1>7, Zenon DEF OwnInv
<1> QED BY <1>5, <1>8, <1>9, Zenon DEF OwnInv

(* No step puts a request in two places.                                    *)
LEMMA OwnStep == ServerType /\ OwnInv /\ [Next]_vars => OwnInv'
<1> SUFFICES ASSUME ServerType, OwnInv, [Next]_vars PROVE OwnInv'
  OBVIOUS
<1>0. wst \in [Workers -> States]
  BY DEF ServerType, QueueInv, QueueType
<1>1. ASSUME NEW w \in Workers, WorkerWait(w) \/ SpuriousWakeup(w) PROVE OwnInv'
  <2>1. UNCHANGED <<queue, job, inflight, reqs>>
    BY <1>1 DEF WorkerWait, SpuriousWakeup, qvars, nvars
  <2>2. /\ wst[w] \in {"loop", "wait"}
        /\ wst' = [wst EXCEPT ![w] = "wait"] \/ wst' = [wst EXCEPT ![w] = "loop"]
    BY <1>1 DEF WorkerWait, SpuriousWakeup
  <2>3. \A v \in Workers : wst'[v] \in Working <=> wst[v] \in Working
    BY <1>0, <2>2 DEF Working
  <2> QED BY <2>1, <2>3, InnerOwn
<1>2. ASSUME NEW w \in Workers,
             ProcessCli(w) \/ DedupFind(w) \/ DedupPut(w) \/ LogResult(w) \/ SendHeader(w)
      PROVE  OwnInv'
  <2>1. UNCHANGED <<queue, job, inflight, reqs>>
    <3>1. UNCHANGED <<queue, job, reqs>>
      BY <1>2, Zenon DEF ProcessCli, DedupFind, DedupPut, LogResult, SendHeader, qvars
    <3>2. CASE SendHeader(w)
      BY <3>1, <3>2, PartType, WriteStep DEF SendHeader
    <3>3. CASE ~SendHeader(w)
      BY <1>2, <3>1, <3>3, Zenon DEF ProcessCli, DedupFind, DedupPut, LogResult, nvars
    <3> QED BY <3>2, <3>3
  <2>2. wst[w] \in Working
    BY <1>2, Zenon DEF ProcessCli, DedupFind, DedupPut, LogResult, SendHeader, Working
  <2>3. \E t \in Working : wst' = [wst EXCEPT ![w] = t]
    BY <1>2, Zenon DEF ProcessCli, DedupFind, DedupPut, LogResult, SendHeader, Working
  <2>4. \A v \in Workers : wst'[v] \in Working <=> wst[v] \in Working
    BY <1>0, <2>2, <2>3, Zenon
  <2> QED BY <2>1, <2>4, InnerOwn
<1>3. ASSUME NEW f \in Fds, CloseConn(f) PROVE OwnInv'
  <2>1. /\ UNCHANGED <<queue, job, wst, reqs>> /\ inflight \in [Clients -> Seq(Nat)]
        /\ \E c \in Clients : inflight' = [inflight EXCEPT ![c] = <<>>]
    BY <1>3, Zenon DEF CloseConn, qvars, wvars, ServerType, QueueInv, QueueType
  <2>2. \A c \in Clients : inflight'[c] = inflight[c] \/ inflight'[c] = <<>>
    BY <2>1
  <2>3. \A c \in Clients : Sent(c)' = Sent(c)
    BY <2>1 DEF Sent
  <2>4. \A c \in Clients : \A i \in DOMAIN inflight'[c] : inflight'[c] = inflight[c]
    BY <2>2
  <2> QED BY <2>1, <2>3, <2>4 DEF OwnInv
<1>4. ASSUME NEW c \in Clients, Accept(c) \/ ClientClose(c) PROVE OwnInv'
  <2>1. UNCHANGED <<queue, job, inflight, reqs, wst>>
    BY <1>4 DEF Accept, ClientClose, qvars, wvars
  <2> QED BY <2>1, InnerOwn
<1>5. CASE UNCHANGED vars
  <2>1. UNCHANGED <<queue, job, inflight, reqs, wst>>
    BY <1>5 DEF vars, qvars, wvars, nvars
  <2> QED BY <2>1, InnerOwn
<1>6. CASE Next
  <2>1. ASSUME NEW w \in Workers, Work(w) \/ SpuriousWakeup(w) PROVE OwnInv'
    BY <2>1, <1>1, <1>2, TakeOwn, FreeOwn DEF Work
  <2>2. CASE Network
    BY <2>2, <1>3, FrameOwn DEF Network
  <2>3. CASE Environment
    BY <2>3, <1>4, SendOwn, DatagramOwn DEF Environment
  <2> QED BY <1>6, <2>1, <2>2, <2>3 DEF Next
<1> QED BY <1>5, <1>6

(* The program starts with no request anywhere.                             *)
LEMMA ServerInit == Init => ServerType /\ OwnInv
<1> SUFFICES ASSUME Init PROVE ServerType /\ OwnInv
  OBVIOUS
<1>1. QueueInv
  BY QueueInit
<1>2. ServerType
  <2>1. job \in [Workers -> Items] /\ res \in [Workers -> Results]
    BY DEF Init, Items, Results, NoItem, Item, UDP
  <2>2. Unused \in [id : Ids, result : Results]
    BY DEF Unused, Ids, Results
  <2>3. dedup_tab \in [0 .. DEDUP_MAX - 1 -> [id : Ids, result : Results]]
    BY <2>2 DEF Init
  <2>4. dedup_pos \in 0 .. DEDUP_MAX - 1
    BY ServerAssumption DEF Init
  <2>5. cst \in [Clients -> {"new", "open", "closed"}] /\ stream \in [Clients -> Seq(Parts)]
    BY DEF Init
  <2> QED BY <1>1, <2>1, <2>3, <2>4, <2>5, Zenon DEF ServerType
<1>3. /\ DOMAIN queue = {} /\ \A c \in Clients : DOMAIN inflight[c] = {}
      /\ \A w \in Workers : wst[w] \notin Working /\ job[w].n = 0
  BY DEF Init, NoItem, Item, Working
<1>4. OwnInv
  BY <1>3 DEF OwnInv
<1> QED BY <1>2, <1>4

(* The places of the requests in every state.                               *)
LEMMA OwnAlways == Spec => [](ServerType /\ OwnInv)
<1> QED BY ServerInit, TypeStep, OwnStep, PTL DEF Spec

(* A work item is in the queue once, or in the hands of one worker, and     *)
(* req_queue_push keeps the queue within QUEUE_DEPTH, for any number of     *)
(* workers, clients and requests.                                           *)
THEOREM ItemsOwned == Spec => []OneOwner
<1>1. ServerType /\ OwnInv => OneOwner
  <2> SUFFICES ASSUME ServerType, OwnInv PROVE OneOwner
    OBVIOUS
  <2>1. /\ Len(queue) \in Nat /\ DOMAIN queue = 1 .. Len(queue) /\ Len(queue) <= QUEUE_DEPTH
    BY DEF ServerType, QueueInv, QueueType
  <2>2. Cardinality(Queued) = Len(queue)
    <3> DEFINE f == [i \in 1 .. Len(queue) |-> queue[i].n]
    <3>1. f \in Bijection(1 .. Len(queue), Queued)
      <4>1. f \in [1 .. Len(queue) -> Queued]
        BY <2>1, Zenon DEF Queued
      <4>2. \A i, j \in 1 .. Len(queue) : f[i] = f[j] => i = j
        BY <2>1 DEF OwnInv
      <4>3. \A n \in Queued : \E i \in 1 .. Len(queue) : f[i] = n
        BY <2>1 DEF Queued
      <4> HIDE DEF f
      <4> QED BY <4>1, <4>2, <4>3 DEF Bijection, Injection, Surjection, IsInjective
    <3> HIDE DEF f
    <3>2. ExistsBijection(1 .. Len(queue), Queued)
      BY <3>1, Zenon DEF ExistsBijection
    <3> QED BY <2>1, <3>2, FS_CountingElements
  <2>3. \A w \in Workers : Held(w) \cap Queued = {}
    BY DEF OwnInv, Held, Queued
  <2>4. \A v, w \in Workers : v # w => Held(v) \cap Held(w) = {}
    BY DEF OwnInv, Held
  <2> QED BY <2>1, <2>2, <2>3, <2>4 DEF OneOwner
<1> QED BY <1>1, OwnAlways, PTL

(* Requests are never forgotten or changed.                                 *)
LEMMA ReqsGrow ==
  ASSUME ServerType, OwnInv, [Next]_vars
  PROVE  \A n \in DOMAIN reqs : n \in DOMAIN reqs' /\ reqs'[n] = reqs[n]
<1>1. CASE reqs' = reqs
  BY <1>1, Zenon
<1>2. ASSUME NEW c \in Clients \cup {Nobody}, NEW p \in Payloads,
             reqs' = Append(reqs, [client |-> c, payload |-> p])
      PROVE  \A n \in DOMAIN reqs : n \in DOMAIN reqs' /\ reqs'[n] = reqs[n]
  BY <1>2, NewRequest
<1>3. CASE Environment
  BY <1>1, <1>2, <1>3, Zenon DEF Environment, Accept, ClientClose, SendRequest, Datagram
<1>4. CASE Network
  BY <1>1, <1>4 DEF Network, ReadFrame, CloseConn
<1>5. ASSUME NEW w \in Workers, Work(w) \/ SpuriousWakeup(w)
      PROVE  reqs' = reqs
  BY <1>5, Zenon DEF Work, WorkerWait, WorkerTake, ProcessCli, DedupFind, DedupPut, LogResult,
              SendHeader, SendBody, SpuriousWakeup
<1>6. CASE UNCHANGED vars
  BY <1>1, <1>6 DEF vars
<1> QED BY <1>1, <1>3, <1>4, <1>5, <1>6 DEF Next

\* The steps that neither write, nor log, nor make an answer.
Quiet ==
  /\ stream' = stream /\ reqlog' = reqlog
  /\ \A v \in Workers : wst'[v] \in {"put", "log", "header", "body"} =>
       \/ wst'[v] = wst[v] /\ job'[v] = job[v] /\ res'[v] = res[v]
       \/ /\ wst[v] = "process" /\ wst'[v] \in {"put", "log"} /\ DedupFind(v)
       \/ /\ wst[v] = "put" /\ wst'[v] = "log" /\ DedupPut(v)

(* Only these steps make an answer or send a part of it.                    *)
LEMMA QuietStep ==
  ASSUME ServerType, [Next]_vars
  PROVE  \/ Quiet
         \/ \E w \in Workers : ProcessCli(w) \/ LogResult(w) \/ SendHeader(w) \/ SendBody(w)
<1>0. wst \in [Workers -> States] /\ job \in [Workers -> Items] /\ res \in [Workers -> Results]
  BY DEF ServerType, QueueInv, QueueType
<1>1. ASSUME NEW w \in Workers, WorkerWait(w) \/ SpuriousWakeup(w) PROVE Quiet
  <2>1. /\ UNCHANGED <<stream, reqlog, job, res>>
        /\ wst' = [wst EXCEPT ![w] = "wait"] \/ wst' = [wst EXCEPT ![w] = "loop"]
    BY <1>1 DEF WorkerWait, SpuriousWakeup, lvars, nvars
  <2> QED BY <1>0, <2>1 DEF Quiet
<1>2. ASSUME NEW w \in Workers, WorkerTake(w) PROVE Quiet
  <2>1. /\ UNCHANGED <<stream, reqlog, res>> /\ wst' = [wst EXCEPT ![w] = "process"]
        /\ job' = [job EXCEPT ![w] = Head(queue)]
    BY <1>2 DEF WorkerTake, lvars, nvars
  <2> QED BY <1>0, <2>1 DEF Quiet
<1>3. ASSUME NEW w \in Workers, DedupFind(w) PROVE Quiet
  <2>1. /\ UNCHANGED <<stream, reqlog, job>> /\ wst[w] = "process"
        /\ wst' = [wst EXCEPT ![w] = "put"] \/ wst' = [wst EXCEPT ![w] = "log"]
    BY <1>3, Zenon DEF DedupFind, lvars, nvars
  <2>2. \A v \in Workers \ {w} : res'[v] = res[v]
    BY <1>0, <1>3, Zenon DEF DedupFind
  <2> QED BY <1>0, <1>3, <2>1, <2>2 DEF Quiet
<1>4. ASSUME NEW w \in Workers, DedupPut(w) PROVE Quiet
  <2>1. /\ UNCHANGED <<stream, reqlog, job, res>> /\ wst[w] = "put"
        /\ wst' = [wst EXCEPT ![w] = "log"]
    BY <1>4, Zenon DEF DedupPut, lvars, nvars
  <2> QED BY <1>0, <1>4, <2>1 DEF Quiet
<1>5. ASSUME NEW item, req_queue_push(item), UNCHANGED <<stream, reqlog>> PROVE Quiet
  <2>1. job' = job /\ res' = res
    BY <1>5 DEF req_queue_push
  <2>2. wst' = wst \/ \E w \in Workers : wst' = [wst EXCEPT ![w] = "loop"]
    BY <1>5 DEF req_queue_push, Signal
  <2> QED BY <1>0, <1>5, <2>1, <2>2 DEF Quiet
<1>6. ASSUME UNCHANGED <<stream, reqlog, wst, job, res>> PROVE Quiet
  BY <1>6 DEF Quiet
<1>7. CASE Environment
  <2>1. UNCHANGED <<stream, reqlog>>
    BY <1>7, Zenon DEF Environment, Accept, ClientClose, SendRequest, Datagram, lvars, nvars
  <2>2. \/ UNCHANGED <<wst, job, res>> \/ \E item : req_queue_push(item)
    BY <1>7, Zenon DEF Environment, Accept, ClientClose, SendRequest, Datagram, wvars
  <2> QED BY <1>5, <1>6, <2>1, <2>2
<1>8. CASE Network
  <2>1. UNCHANGED <<stream, reqlog>>
    BY <1>8, Zenon DEF Network, ReadFrame, CloseConn, lvars
  <2>2. \/ UNCHANGED <<wst, job, res>> \/ \E item : req_queue_push(item)
    BY <1>8 DEF Network, ReadFrame, CloseConn, wvars
  <2> QED BY <1>5, <1>6, <2>1, <2>2
<1>9. CASE UNCHANGED vars
  BY <1>6, <1>9 DEF vars, lvars, nvars, wvars
<1>10. ASSUME NEW w \in Workers, Work(w) \/ SpuriousWakeup(w)
       PROVE  Quiet \/ ProcessCli(w) \/ LogResult(w) \/ SendHeader(w) \/ SendBody(w)
  BY <1>1, <1>2, <1>3, <1>4, <1>10 DEF Work
<1> QED BY <1>7, <1>8, <1>9, <1>10 DEF Next

(* What a worker has said is in the log before it is on the wire.           *)
LEMMA LogStep == ServerType /\ OwnInv /\ LogInv /\ [Next]_vars => LogInv'
<1> SUFFICES ASSUME ServerType, OwnInv, LogInv, [Next]_vars PROVE LogInv'
  OBVIOUS
<1>0. wst \in [Workers -> States] /\ job \in [Workers -> Items] /\ res \in [Workers -> Results]
  BY DEF ServerType, QueueInv, QueueType
<1> DEFINE Grow == \A n \in DOMAIN reqs : n \in DOMAIN reqs' /\ reqs'[n] = reqs[n]
           Told(v) == wst[v] \in {"header", "body"} /\ Payload(v) \notin CliRequests
                        => Recorded(job[v].n, res[v])
           Same(v) == wst'[v] = wst[v] /\ job'[v] = job[v] /\ res'[v] = res[v]
<1>1. Grow
  BY ReqsGrow, Zenon
<1>2. ASSUME reqlog \subseteq reqlog', NEW v \in Workers, Same(v) PROVE Told(v)'
  <2>1. Told(v)
    BY Zenon DEF LogInv
  <2>2. wst[v] \in {"header", "body"} => job[v].n \in DOMAIN reqs
    BY DEF OwnInv, Working
  <2>3. wst[v] \in {"header", "body"} => Payload(v)' = Payload(v)
    BY <1>1, <1>2, <2>2, Zenon DEF Payload
  <2>4. Recorded(job[v].n, res[v]) => Recorded(job[v].n, res[v])'
    BY <1>2, Zenon DEF Recorded
  <2> QED BY <1>2, <2>1, <2>3, <2>4, Zenon
<1>3. ASSUME reqlog \subseteq reqlog', stream' = stream
      PROVE  /\ LoggedFirst'
             /\ \A c \in Clients : \A i \in DOMAIN stream'[c] : stream'[c][i].n \in DOMAIN reqs'
  BY <1>1, <1>3, Zenon DEF LogInv, LoggedFirst, Recorded
<1>4. ASSUME Quiet PROVE LogInv'
  <2>1. \A v \in Workers : Told(v)'
    <3> TAKE v \in Workers
    <3>1. CASE wst'[v] \in {"header", "body"}
      <4>1. Same(v) /\ reqlog \subseteq reqlog'
        BY <1>4, <3>1, Zenon DEF Quiet
      <4> QED BY <1>2, <4>1, Zenon
    <3>2. CASE wst'[v] \notin {"header", "body"}
      BY <3>2, Zenon
    <3> QED BY <3>1, <3>2, Zenon
  <2>2. reqlog \subseteq reqlog' /\ stream' = stream
    BY <1>4, Zenon DEF Quiet
  <2> QED BY <1>3, <2>1, <2>2, Zenon DEF LogInv
<1>5. ASSUME NEW w \in Workers, ProcessCli(w) PROVE LogInv'
  <2>1. /\ UNCHANGED <<stream, reqlog, reqs, job>> /\ Payload(w) \in CliRequests
        /\ \A v \in Workers \ {w} : wst'[v] = wst[v] /\ res'[v] = res[v]
    BY <1>0, <1>5, Zenon DEF ProcessCli, lvars, nvars
  <2>2. Payload(w)' = Payload(w)
    BY <2>1, Zenon DEF Payload
  <2>3. \A v \in Workers : Told(v)'
    BY <1>2, <2>1, <2>2, Zenon
  <2> QED BY <1>3, <2>1, <2>3, Zenon DEF LogInv
<1>6. ASSUME NEW w \in Workers, LogResult(w) PROVE LogInv'
  <2>1. /\ UNCHANGED <<stream, reqs, job, res>>
        /\ reqlog' = reqlog \cup {[n |-> job[w].n, result |-> res[w], line |-> g_logf']}
        /\ \A v \in Workers \ {w} : wst'[v] = wst[v]
    BY <1>0, <1>6, Zenon DEF LogResult, nvars
  <2>2. \A v \in Workers \ {w} : Told(v)'
    BY <1>2, <2>1, Zenon
  <2>3. Told(w)'
    <3> DEFINE b == [n |-> job[w].n, result |-> res[w], line |-> g_logf']
    <3>1. b.n = job[w].n /\ b.result = res[w] /\ b \in reqlog'
      BY <2>1, Zenon
    <3> HIDE DEF b
    <3>2. Recorded(job[w].n, res[w])'
      BY <2>1, <3>1, Zenon DEF Recorded
    <3> QED BY <3>2, Zenon
  <2> QED BY <1>3, <2>1, <2>2, <2>3, Zenon DEF LogInv
<1>7. ASSUME NEW w \in Workers, NEW kind \in {"header", "body"}, wst[w] = kind,
             Write(job[w].fd, Part(w, kind)), UNCHANGED <<reqlog, reqs>>
      PROVE  /\ LoggedFirst'
             /\ \A c \in Clients : \A i \in DOMAIN stream'[c] : stream'[c][i].n \in DOMAIN reqs'
  <2>1. CASE stream' = stream
    BY <1>3, <1>7, <2>1, Zenon
  <2>2. CASE stream' # stream
    <3>1. Part(w, kind) \in Parts /\ job[w].fd \in Int
      BY PartType, Zenon
    <3>2. PICK c \in Clients : stream' = [stream EXCEPT ![c] = Append(@, Part(w, kind))]
      BY <1>7, <2>2, <3>1, WriteStep
    <3>3. stream \in [Clients -> Seq(Parts)]
      BY DEF ServerType
    <3>4. /\ \A d \in Clients \ {c} : stream'[d] = stream[d]
          /\ \A i \in DOMAIN stream'[c] :
               \/ stream'[c][i] = Part(w, kind)
               \/ i \in DOMAIN stream[c] /\ stream'[c][i] = stream[c][i]
      <4>1. stream[c] \in Seq(Parts) /\ stream'[c] = Append(stream[c], Part(w, kind))
        BY <3>2, <3>3, Zenon
      <4>2. \A i \in DOMAIN stream'[c] :
               \/ stream'[c][i] = Part(w, kind)
               \/ i \in DOMAIN stream[c] /\ stream'[c][i] = stream[c][i]
        BY <3>1, <4>1
      <4> QED BY <3>2, <3>3, <4>2
    <3>5. \A d \in Clients : \A i \in DOMAIN stream'[d] :
            \/ stream'[d][i] = Part(w, kind)
            \/ i \in DOMAIN stream[d] /\ stream'[d][i] = stream[d][i]
      BY <3>4, Zenon
    <3>6. /\ job[w].n \in DOMAIN reqs
          /\ Payload(w) \notin CliRequests => Recorded(job[w].n, res[w])
      BY <1>7, Zenon DEF OwnInv, LogInv, Working
    <3>7. Part(w, kind).n = job[w].n /\ Part(w, kind).result = res[w]
      BY Zenon DEF Part
    <3>8. \A d \in Clients : \A i \in DOMAIN stream'[d] : stream'[d][i].n \in DOMAIN reqs'
      BY <1>7, <3>5, <3>6, <3>7, Zenon DEF LogInv
    <3>9. LoggedFirst'
      <4>1. \A n, r : Recorded(n, r)' = Recorded(n, r)
        BY <1>7, Zenon DEF Recorded
      <4>2. ASSUME NEW d \in Clients, NEW i \in DOMAIN stream'[d]
            PROVE  LET a == stream'[d][i]
                   IN  reqs[a.n].payload \notin CliRequests => Recorded(a.n, a.result)
        <5>1. CASE stream'[d][i] = Part(w, kind)
          BY <3>6, <3>7, <5>1, Zenon DEF Payload
        <5>2. CASE i \in DOMAIN stream[d] /\ stream'[d][i] = stream[d][i]
          BY <5>2, Zenon DEF LogInv, LoggedFirst
        <5> QED BY <3>5, <5>1, <5>2, Zenon
      <4> QED BY <1>7, <4>1, <4>2, Zenon DEF LoggedFirst, Recorded
    <3> QED BY <3>8, <3>9, Zenon
  <2> QED BY <2>1, <2>2, Zenon
<1>8. ASSUME NEW w \in Workers, SendHeader(w) PROVE LogInv'
  <2>1. /\ wst[w] = "header" /\ Write(job[w].fd, Part(w, "header"))
        /\ UNCHANGED <<reqlog, reqs, job, res>> /\ \A v \in Workers \ {w} : wst'[v] = wst[v]
    BY <1>0, <1>8, Zenon DEF SendHeader, lvars
  <2>2. \A v \in Workers : Told(v)'
    <3>1. Told(w)'
      BY <2>1, Zenon DEF LogInv, Payload, Recorded
    <3> QED BY <1>2, <2>1, <3>1, Zenon
  <2> QED BY <1>7, <2>1, <2>2, Zenon DEF LogInv
<1>9. ASSUME NEW w \in Workers, SendBody(w) PROVE LogInv'
  <2>1. /\ wst[w] = "body" /\ Write(job[w].fd, Part(w, "body")) /\ wst'[w] = "loop"
        /\ UNCHANGED <<reqlog, reqs>>
        /\ \A v \in Workers \ {w} : wst'[v] = wst[v] /\ job'[v] = job[v] /\ res'[v] = res[v]
    BY <1>0, <1>9, Zenon DEF SendBody, lvars
  <2>2. \A v \in Workers : Told(v)'
    BY <1>2, <2>1
  <2> QED BY <1>7, <2>1, <2>2, Zenon DEF LogInv
<1> QED BY <1>4, <1>5, <1>6, <1>8, <1>9, QuietStep

(* An answer on its way out, or out, has been through the log.              *)
LEMMA LogAlways == Spec => []LogInv
<1>1. Init => LogInv
  BY DEF Init, LogInv, LoggedFirst
<1> QED BY <1>1, OwnAlways, LogStep, PTL DEF Spec

(* No client has an answer to a legacy request that log_write_req_result    *)
(* has not recorded with the same result, whatever the interleaving.        *)
THEOREM AnswersLogged == Spec => []LoggedFirst
<1>1. LogInv => LoggedFirst
  BY DEF LogInv
<1> QED BY <1>1, LogAlways, PTL

(* The ring is written by dedup_put only, with the result in hand.          *)
LEMMA RingStep ==
  ASSUME ServerType, [Next]_vars
  PROVE  \/ dedup_tab' = dedup_tab
         \/ \E w \in Workers :
              /\ wst[w] = "put" /\ ReqId(Payload(w)) # ""
              /\ dedup_tab' = [dedup_tab EXCEPT ![dedup_pos] =
                                 [id |-> ReqId(Payload(w)), result |-> res[w]]]
<1>1. ASSUME NEW w \in Workers, DedupPut(w)
      PROVE  \/ dedup_tab' = dedup_tab
             \/ /\ wst[w] = "put" /\ ReqId(Payload(w)) # ""
                /\ dedup_tab' = [dedup_tab EXCEPT ![dedup_pos] =
                                   [id |-> ReqId(Payload(w)), result |-> res[w]]]
  BY <1>1, Zenon DEF DedupPut, dvars
<1>2. ASSUME NEW w \in Workers, Work(w) \/ SpuriousWakeup(w), ~DedupPut(w)
      PROVE  dedup_tab' = dedup_tab
  BY <1>2, Zenon DEF Work, WorkerWait, WorkerTake, ProcessCli, DedupFind, LogResult,
              SendHeader, SendBody, SpuriousWakeup, dvars
<1>3. CASE Network
  BY <1>3, Zenon DEF Network, ReadFrame, CloseConn, dvars
<1>4. CASE Environment
  BY <1>4, Zenon DEF Environment, Accept, ClientClose, SendRequest, Datagram, dvars
<1>5. CASE UNCHANGED vars
  BY <1>5, Zenon DEF vars, dvars
<1> QED BY <1>1, <1>2, <1>3, <1>4, <1>5, Zenon DEF Next

(* dedup_find gives a legacy request the result it would have itself.       *)
LEMMA FoundResult ==
  ASSUME IdsTellResults, ServerType, OwnInv, ResultInv, NEW w \in Workers, DedupFind(w)
  PROVE  /\ Payload(w) \notin CliRequests /\ Payload(w)' = Payload(w)
         /\ res'[w] = Success(Payload(w))
<1> DEFINE id == ReqId(Payload(w))
           hit == id # "" /\ Slots(id) # {}
<1>1. /\ Payload(w) \notin CliRequests /\ wst[w] \in Working /\ reqs' = reqs /\ job' = job
      /\ res' = [res EXCEPT ![w] = IF hit THEN dedup_tab[Min(Slots(id))].result
                                   ELSE Success(Payload(w))]
  BY Zenon DEF DedupFind, Working
<1>2. Payload(w) \in Payloads \ CliRequests
  BY <1>1, PayloadType, Zenon
<1>3. Payload(w)' = Payload(w)
  BY <1>1, Zenon DEF Payload
<1>4. id # None
  BY DEF ReqId, None
<1>5. ASSUME hit PROVE dedup_tab[Min(Slots(id))].result = Success(Payload(w))
  <2>1. Slots(id) \in SUBSET Nat
    BY ServerAssumption DEF Slots, ServerType
  <2>2. PICK i \in DOMAIN dedup_tab : i = Min(Slots(id)) /\ dedup_tab[i].id = id
    BY <1>5, <2>1, MinIn, Zenon DEF Slots
  <2>3. PICK p \in Payloads \ CliRequests : id = ReqId(p) /\ dedup_tab[i].result = Success(p)
    BY <1>4, <2>2, Zenon DEF ResultInv
  <2>4. Success(p) = Success(Payload(w))
    BY <1>2, <1>5, <2>3, Zenon DEF IdsTellResults
  <2> QED BY <2>2, <2>3, <2>4
<1>6. res \in [Workers -> Results]
  BY DEF ServerType
<1> HIDE DEF hit, id
<1> QED BY <1>1, <1>3, <1>5, <1>6

(* Every step keeps the results of the requests apart.                      *)
LEMMA ResultStep ==
  ASSUME IdsTellResults, ServerType, OwnInv, ResultInv, [Next]_vars
  PROVE  ResultInv'
<1> DEFINE Fit(v) == wst[v] \in {"put", "log"} =>
                       Payload(v) \notin CliRequests /\ res[v] = Success(Payload(v))
           Same(v) == wst'[v] = wst[v] /\ job'[v] = job[v] /\ res'[v] = res[v]
<1>0. wst \in [Workers -> States] /\ job \in [Workers -> Items] /\ res \in [Workers -> Results]
  BY Zenon DEF ServerType, QueueInv, QueueType
<1>1. \A n \in DOMAIN reqs : n \in DOMAIN reqs' /\ reqs'[n] = reqs[n]
  BY ReqsGrow
<1>2. ASSUME NEW v \in Workers, Same(v) PROVE Fit(v)'
  <2>1. wst[v] \in {"put", "log"} => Payload(v)' = Payload(v)
    BY <1>1, <1>2, Zenon DEF Payload, OwnInv, Working
  <2> QED BY <1>2, <2>1, Zenon DEF ResultInv
<1>3. \A v \in Workers : Fit(v)'
  <2>1. ASSUME Quiet, NEW v \in Workers, wst'[v] \in {"put", "log"} PROVE Fit(v)'
    <3>1. CASE Same(v)
      BY <1>2, <3>1, Zenon
    <3>2. CASE DedupFind(v)
      BY <3>2, FoundResult, Zenon
    <3>3. CASE wst[v] = "put" /\ DedupPut(v)
      <4>1. res' = res /\ job' = job /\ reqs' = reqs
        BY <3>3, Zenon DEF DedupPut
      <4>2. Payload(v)' = Payload(v) /\ Payload(v) \notin CliRequests /\ res[v] = Success(Payload(v))
        BY <3>3, <4>1, Zenon DEF ResultInv, Payload
      <4> QED BY <4>1, <4>2
    <3> QED BY <2>1, <3>1, <3>2, <3>3, Zenon DEF Quiet
  <2>2. ASSUME NEW w \in Workers, ProcessCli(w) \/ LogResult(w) \/ SendHeader(w) \/ SendBody(w)
        PROVE  wst'[w] \notin {"put", "log"} /\ \A v \in Workers \ {w} : Same(v)
    <3>1. CASE ProcessCli(w)
      BY <1>0, <3>1, Zenon DEF ProcessCli
    <3>2. CASE LogResult(w)
      BY <1>0, <3>2, Zenon DEF LogResult
    <3>3. CASE SendHeader(w)
      BY <1>0, <3>3, Zenon DEF SendHeader
    <3>4. CASE SendBody(w)
      BY <1>0, <3>4, Zenon DEF SendBody
    <3> QED BY <2>2, <3>1, <3>2, <3>3, <3>4, Zenon
  <2>3. ASSUME NEW w \in Workers, ProcessCli(w) \/ LogResult(w) \/ SendHeader(w) \/ SendBody(w),
               NEW v \in Workers
        PROVE  Fit(v)'
    <3>1. CASE v = w
      BY <2>2, <2>3, <3>1, Zenon
    <3>2. CASE v # w
      BY <1>2, <2>2, <2>3, <3>2
    <3> QED BY <3>1, <3>2, Zenon
  <2> HIDE DEF Same
  <2> QED BY <2>1, <2>3, QuietStep, Zenon
<1>4. \A i \in DOMAIN dedup_tab' :
        dedup_tab'[i].id # None =>
          /\ dedup_tab'[i].id # ""
          /\ \E p \in Payloads \ CliRequests :
               dedup_tab'[i].id = ReqId(p) /\ dedup_tab'[i].result = Success(p)
  <2>1. CASE dedup_tab' = dedup_tab
    BY <2>1, Zenon DEF ResultInv
  <2>2. CASE dedup_tab' # dedup_tab
    <3>1. PICK w \in Workers :
            /\ wst[w] = "put" /\ ReqId(Payload(w)) # ""
            /\ dedup_tab' = [dedup_tab EXCEPT ![dedup_pos] =
                               [id |-> ReqId(Payload(w)), result |-> res[w]]]
      BY <2>2, RingStep, Zenon
    <3>2. Payload(w) \in Payloads \ CliRequests /\ res[w] = Success(Payload(w))
      BY <3>1, PayloadType, Zenon DEF ResultInv, Working
    <3>3. \A i \in DOMAIN dedup_tab' :
            \/ dedup_tab'[i] = [id |-> ReqId(Payload(w)), result |-> res[w]]
            \/ i \in DOMAIN dedup_tab /\ dedup_tab'[i] = dedup_tab[i]
      BY <3>1, Zenon DEF ServerType
    <3>4. ReqId(Payload(w)) # ""
      BY <3>1, Zenon
    <3> TAKE i \in DOMAIN dedup_tab'
    <3>5. CASE dedup_tab'[i] = [id |-> ReqId(Payload(w)), result |-> res[w]]
      <4>1. dedup_tab'[i].id = ReqId(Payload(w)) /\ dedup_tab'[i].result = Success(Payload(w))
        BY <3>2, <3>5
      <4> QED BY <3>2, <3>4, <4>1, Zenon
    <3>6. CASE i \in DOMAIN dedup_tab /\ dedup_tab'[i] = dedup_tab[i]
      BY <3>6, Zenon DEF ResultInv
    <3> QED BY <3>3, <3>5, <3>6, Zenon
  <2> QED BY <2>1, <2>2, Zenon
<1>5. \A a \in reqlog' : a.n \in DOMAIN reqs' /\ a.result = Success(reqs'[a.n].payload)
  <2>1. CASE reqlog' = reqlog
    BY <1>1, <2>1, Zenon DEF ResultInv
  <2>2. ASSUME NEW w \in Workers, LogResult(w)
        PROVE  \A a \in reqlog' : a.n \in DOMAIN reqs' /\ a.result = Success(reqs'[a.n].payload)
    <3>1. /\ reqlog' = reqlog \cup {[n |-> job[w].n, result |-> res[w], line |-> g_logf']}
          /\ wst[w] = "log" /\ reqs' = reqs
      BY <2>2 DEF LogResult
    <3>2. job[w].n \in DOMAIN reqs /\ res[w] = Success(reqs[job[w].n].payload)
      BY <3>1, Zenon DEF ResultInv, OwnInv, Working, Payload
    <3>3. \A a \in reqlog : a.n \in DOMAIN reqs' /\ a.result = Success(reqs'[a.n].payload)
      BY <3>1, Zenon DEF ResultInv
    <3> DEFINE b == [n |-> job[w].n, result |-> res[w], line |-> g_logf']
    <3>4. b.n = job[w].n /\ b.result = res[w]
      BY Zenon
    <3> HIDE DEF b
    <3>5. b.n \in DOMAIN reqs' /\ b.result = Success(reqs'[b.n].payload)
      BY <3>1, <3>2, <3>4, Zenon
    <3>6. reqlog' = reqlog \cup {b}
      BY <3>1, Zenon DEF b
    <3> QED BY <3>3, <3>5, <3>6, Zenon
  <2>3. ASSUME NEW w \in Workers, ProcessCli(w) \/ SendHeader(w) \/ SendBody(w)
        PROVE  reqlog' = reqlog
    BY <2>3 DEF ProcessCli, SendHeader, SendBody, lvars
  <2> QED BY <2>1, <2>2, <2>3, QuietStep DEF Quiet
<1> QED BY <1>3, <1>4, <1>5, Zenon DEF ResultInv

(* handle_legacy logs "ERR" for op "FAIL" and "OK" for any other, and the   *)
(* dedup ring never changes that, if legacy requests with the same id ask   *)
(* for the same thing: for any size of the ring and any two lookups and     *)
(* insertions that overlap between its two critical sections.               *)
THEOREM ResultsOwn ==
  ASSUME IdsTellResults
  PROVE  Spec => []OkUnlessFail
<1>1. Init => ResultInv
  <2> SUFFICES ASSUME Init PROVE ResultInv
    OBVIOUS
  <2>1. \A i \in DOMAIN dedup_tab : dedup_tab[i].id = None
    BY DEF Init, Unused
  <2> QED BY <2>1, Zenon DEF Init, ResultInv
<1>2. ResultInv => OkUnlessFail
  BY Zenon DEF ResultInv, OkUnlessFail
<1>3. ServerType /\ OwnInv /\ ResultInv /\ [Next]_vars => ResultInv'
  BY ResultStep
<1>4. Spec => []ResultInv
  BY <1>1, <1>3, OwnAlways, PTL DEF Spec
<1> QED BY <1>2, <1>4, PTL

-----------------------------------------------------------------------------
(* What a write to a connection that has been reset means.                  *)

\* No client has the body of the answer to request n.
Owed(n) == \A c \in Clients : \A i \in Answers(c) : stream[c][i].n # n

\* The descriptor of an item leads to the client of the request, or that
\* client has left.
Rightful(n, fd) ==
  fd \in Fds => /\ reqs[n].client \in Clients
                /\ conn[fd] = reqs[n].client \/ cst[reqs[n].client] = "closed"

\* The queue and the workers have an item for request n and descriptor fd.
Have(n, fd) ==
  \/ \E i \in DOMAIN queue : queue[i].n = n /\ queue[i].fd = fd
  \/ \E w \in Workers : wst[w] \in Working /\ job[w].n = n /\ job[w].fd = fd

\* What is still to be answered has not been answered.
LeaverInv ==
  /\ \A n \in DOMAIN reqs : \A fd \in Int : Have(n, fd) => Rightful(n, fd) /\ Owed(n)
  /\ \A c \in Clients : \A i \in DOMAIN inflight[c] : Owed(inflight[c][i])
  /\ KilledByLeaver

(* A descriptor changes hands only after its client has left, and a client  *)
(* that has left does not come back.                                        *)
LEMMA HandsStep ==
  ASSUME ServerType, [Next]_vars
  PROVE  /\ \A f \in Fds : \/ conn'[f] = conn[f] \/ conn[f] = Nobody
                           \/ cst[conn[f]] = "closed"
         /\ \A c \in Clients : cst[c] = "closed" => cst'[c] = "closed"
<1>0. conn \in [Fds -> Clients \cup {Nobody}] /\ cst \in [Clients -> {"new", "open", "closed"}]
  BY Zenon DEF ServerType, QueueInv, QueueType
<1> DEFINE Goal == /\ \A f \in Fds : \/ conn'[f] = conn[f] \/ conn[f] = Nobody
                                     \/ cst[conn[f]] = "closed"
                   /\ \A c \in Clients : cst[c] = "closed" => cst'[c] = "closed"
<1>1. ASSUME UNCHANGED <<conn, cst>> PROVE Goal
  BY <1>1, Zenon
<1>2. ASSUME NEW c \in Clients, Accept(c) PROVE Goal
  <2> DEFINE free == {f \in Fds : conn[f] = Nobody}
  <2>1. /\ cst[c] = "new" /\ free # {} /\ conn' = [conn EXCEPT ![Min(free)] = c]
        /\ cst' = [cst EXCEPT ![c] = "open"]
    BY <1>2, Zenon DEF Accept
  <2>2. Min(free) \in free
    BY <2>1, ServerAssumption, MinIn
  <2>3. conn[Min(free)] = Nobody
    BY <2>2, Zenon
  <2> HIDE DEF free
  <2>4. "closed" # "new"
    OBVIOUS
  <2> QED BY <1>0, <2>1, <2>3, <2>4, Zenon
<1>3. ASSUME NEW c \in Clients, ClientClose(c) PROVE Goal
  <2>1. conn' = conn /\ cst' = [cst EXCEPT ![c] = "closed"]
    BY <1>3, Zenon DEF ClientClose
  <2>2. \A d \in Clients : cst'[d] = "closed" \/ cst'[d] = cst[d]
    BY <1>0, <2>1, Zenon
  <2> QED BY <2>1, <2>2, Zenon
<1>4. ASSUME NEW f \in Fds, CloseConn(f) PROVE Goal
  <2>1. /\ cst[conn[f]] = "closed" /\ cst' = cst
        /\ conn' = [conn EXCEPT ![f] = Nobody]
    BY <1>4, Zenon DEF CloseConn
  <2>2. \A g \in Fds \ {f} : conn'[g] = conn[g]
    BY <1>0, <2>1, Zenon
  <2> QED BY <2>1, <2>2, Zenon
<1>5. ASSUME NEW w \in Workers, Work(w) \/ SpuriousWakeup(w) PROVE UNCHANGED <<conn, cst>>
  BY <1>5, Zenon DEF Work, WorkerWait, WorkerTake, ProcessCli, DedupFind, DedupPut, LogResult,
              SendHeader, SendBody, SpuriousWakeup, Write, nvars
<1>6. ASSUME NEW f \in Fds, ReadFrame(f) PROVE UNCHANGED <<conn, cst>>
  BY <1>6, Zenon DEF ReadFrame
<1>7. ASSUME NEW p \in Payloads,
             Datagram(p) \/ \E c \in Clients : SendRequest(c, p)
      PROVE  UNCHANGED <<conn, cst>>
  BY <1>7, Zenon DEF Datagram, SendRequest, nvars
<1>8. ASSUME UNCHANGED vars PROVE Goal
  BY <1>1, <1>8, Zenon DEF vars, nvars
<1> HIDE DEF Goal
<1>9. Goal
  BY <1>1, <1>2, <1>3, <1>4, <1>5, <1>6, <1>7, <1>8, Zenon DEF Next, Network, Environment
<1> QED BY <1>9, Zenon DEF Goal

(* So an item keeps its claim to its descriptor.                            *)
LEMMA ClaimKept ==
  ASSUME ServerType, OwnInv, [Next]_vars, NEW n \in DOMAIN reqs, NEW fd, Rightful(n, fd)
  PROVE  Rightful(n, fd)'
<1>1. reqs'[n] = reqs[n]
  BY ReqsGrow, Zenon
<1>2. Nobody \notin Clients
  BY ServerAssumption, Zenon
<1>3. ASSUME fd \in Fds
      PROVE  /\ reqs[n].client \in Clients
             /\ conn'[fd] = reqs[n].client \/ cst'[reqs[n].client] = "closed"
  <2>1. /\ conn'[fd] = conn[fd] \/ conn[fd] = Nobody \/ cst[conn[fd]] = "closed"
        /\ \A c \in Clients : cst[c] = "closed" => cst'[c] = "closed"
    BY <1>3, HandsStep, Zenon
  <2> QED BY <1>2, <1>3, <2>1, Zenon DEF Rightful
<1> QED BY <1>1, <1>3, Zenon DEF Rightful

(* An answer is complete only when its worker writes the body.              *)
LEMMA OwedStep ==
  ASSUME ServerType, [Next]_vars, NEW n, Owed(n),
         \A w \in Workers : SendBody(w) => job[w].n # n
  PROVE  Owed(n)'
<1>1. CASE stream' = stream
  BY <1>1, Zenon DEF Owed, Answers
<1>2. ASSUME NEW w \in Workers, NEW kind \in {"header", "body"},
             Write(job[w].fd, Part(w, kind)), stream' # stream,
             kind = "body" => job[w].n # n
      PROVE  Owed(n)'
  <2>1. Part(w, kind) \in Parts /\ job[w].fd \in Int
    BY PartType, Zenon
  <2>2. PICK c \in Clients : stream' = [stream EXCEPT ![c] = Append(@, Part(w, kind))]
    BY <1>2, <2>1, WriteStep
  <2>3. stream \in [Clients -> Seq(Parts)]
    BY DEF ServerType
  <2>4. stream[c] \in Seq(Parts) /\ stream'[c] = Append(stream[c], Part(w, kind))
    BY <2>2, <2>3, Zenon
  <2>5. \A i \in DOMAIN stream'[c] :
          \/ stream'[c][i] = Part(w, kind)
          \/ i \in DOMAIN stream[c] /\ stream'[c][i] = stream[c][i]
    BY <2>1, <2>4
  <2>6. \A d \in Clients \ {c} : stream'[d] = stream[d]
    BY <2>2, <2>3, Zenon
  <2>7. Part(w, kind).n = job[w].n /\ Part(w, kind).kind = kind
    BY Zenon DEF Part
  <2> QED BY <1>2, <2>5, <2>6, <2>7, Zenon DEF Owed, Answers
<1>3. ASSUME NEW w \in Workers, SendHeader(w), stream' # stream PROVE Owed(n)'
  BY <1>2, <1>3, "header" # "body" DEF SendHeader
<1>4. ASSUME NEW w \in Workers, SendBody(w), stream' # stream PROVE Owed(n)'
  BY <1>2, <1>4, Zenon DEF SendBody
<1>5. ASSUME NEW w \in Workers, ProcessCli(w) \/ LogResult(w) PROVE stream' = stream
  BY <1>5, Zenon DEF ProcessCli, LogResult, nvars
<1> QED BY <1>1, <1>3, <1>4, <1>5, QuietStep, Zenon DEF Quiet

(* Items come from the queue, and there from a connection or a datagram.    *)
LEMMA HaveStep ==
  ASSUME ServerType, OwnInv, [Next]_vars, NEW n, NEW fd \in Int, Have(n, fd)'
  PROVE  \/ Have(n, fd) /\ \A w \in Workers : SendBody(w) => job[w].n # n
         \/ \E f \in Fds : /\ fd = f /\ conn[f] \in Clients /\ conn'[f] = conn[f]
                           /\ \E i \in DOMAIN inflight[conn[f]] : n = inflight[conn[f]][i]
                           /\ UNCHANGED <<stream, reqs>>
         \/ fd = UDP /\ n = Len(reqs) + 1 /\ stream' = stream
<1>0. /\ queue \in Seq(Items) /\ wst \in [Workers -> States] /\ job \in [Workers -> Items]
      /\ inflight \in [Clients -> Seq(Nat)] /\ conn \in [Fds -> Clients \cup {Nobody}]
      /\ reqs \in Seq([client : Clients \cup {Nobody}, payload : Payloads])
  BY DEF ServerType, QueueInv, QueueType, Items
<1> DEFINE Old == Have(n, fd) /\ \A w \in Workers : SendBody(w) => job[w].n # n
<1>1. ASSUME UNCHANGED <<queue, job>>, \A v \in Workers : wst'[v] \in Working => wst[v] \in Working
      PROVE  Have(n, fd)
  BY <1>1, Zenon DEF Have
<1>2. ASSUME NEW w \in Workers, WorkerTake(w) PROVE Have(n, fd)
  <2>1. /\ queue # <<>> /\ queue' = Tail(queue) /\ job' = [job EXCEPT ![w] = Head(queue)]
        /\ wst' = [wst EXCEPT ![w] = "process"]
    BY <1>2, Zenon DEF WorkerTake
  <2>2. /\ \A i \in DOMAIN queue' : \E j \in DOMAIN queue : queue'[i] = queue[j]
        /\ \E j \in DOMAIN queue : Head(queue) = queue[j]
    <3>1. \A i \in DOMAIN queue' : i + 1 \in DOMAIN queue /\ queue'[i] = queue[i + 1]
      BY <1>0, <2>1
    <3>2. 1 \in DOMAIN queue /\ Head(queue) = queue[1]
      BY <1>0, <2>1
    <3> QED BY <3>1, <3>2
  <2>3. job'[w] = Head(queue) /\ \A v \in Workers \ {w} : job'[v] = job[v] /\ wst'[v] = wst[v]
    BY <1>0, <2>1, Zenon
  <2>4. ASSUME NEW i \in DOMAIN queue', queue'[i].n = n, queue'[i].fd = fd PROVE Have(n, fd)
    BY <2>2, <2>4, Zenon DEF Have
  <2>5. ASSUME NEW v \in Workers, wst'[v] \in Working, job'[v].n = n, job'[v].fd = fd
        PROVE  Have(n, fd)
    <3>1. CASE v = w
      BY <2>2, <2>3, <2>5, <3>1, Zenon DEF Have
    <3>2. CASE v # w
      BY <2>3, <2>5, <3>2, Zenon DEF Have
    <3> QED BY <3>1, <3>2, Zenon
  <2>6. \/ \E i \in DOMAIN queue' : queue'[i].n = n /\ queue'[i].fd = fd
        \/ \E v \in Workers : wst'[v] \in Working /\ job'[v].n = n /\ job'[v].fd = fd
    BY Zenon DEF Have
  <2> QED BY <2>4, <2>5, <2>6, Zenon
<1>3. ASSUME NEW item \in Items, req_queue_push(item)
      PROVE  Have(n, fd) \/ (n = item.n /\ fd = item.fd)
  <2>1. PICK d \in {0, 1} : Pushed(item, d)
    BY <1>3, PushShape, Zenon
  <2>2. \A i \in DOMAIN queue' : queue'[i] = item \/ \E j \in DOMAIN queue : queue'[i] = queue[j]
    BY <1>0, <2>1 DEF Pushed
  <2>3. job' = job /\ \A w \in Workers : wst'[w] \in Working => wst[w] \in Working
    BY <1>3, PushShape
  <2>4. ASSUME NEW i \in DOMAIN queue', queue'[i].n = n, queue'[i].fd = fd
        PROVE  Have(n, fd) \/ (n = item.n /\ fd = item.fd)
    <3>1. CASE queue'[i] = item
      BY <2>4, <3>1
    <3>2. CASE \E j \in DOMAIN queue : queue'[i] = queue[j]
      BY <2>4, <3>2, Zenon DEF Have
    <3> QED BY <2>2, <3>1, <3>2, Zenon
  <2>5. ASSUME NEW v \in Workers, wst'[v] \in Working, job'[v].n = n, job'[v].fd = fd
        PROVE  Have(n, fd)
    BY <2>3, <2>5, Zenon DEF Have
  <2>6. \/ \E i \in DOMAIN queue' : queue'[i].n = n /\ queue'[i].fd = fd
        \/ \E v \in Workers : wst'[v] \in Working /\ job'[v].n = n /\ job'[v].fd = fd
    BY Zenon DEF Have
  <2> QED BY <2>4, <2>5, <2>6, Zenon
<1>4. ASSUME NEW w \in Workers, SendBody(w) PROVE Old
  <2>1. /\ queue' = queue /\ wst[w] \in Working /\ wst'[w] \notin Working
        /\ \A v \in Workers \ {w} : job'[v] = job[v] /\ wst'[v] = wst[v]
    BY <1>0, <1>4 DEF SendBody, qvars, Working
  <2>2. PICK k \in (DOMAIN queue) \cup (Workers \ {w}) :
          \/ k \in DOMAIN queue /\ queue[k].n = n /\ queue[k].fd = fd
          \/ k \in Workers \ {w} /\ wst[k] \in Working /\ job[k].n = n /\ job[k].fd = fd
    BY <2>1, Zenon DEF Have
  <2>3. Have(n, fd)
    BY <2>2, Zenon DEF Have
  <2>4. n # job[w].n
    <3>1. \A v \in Workers : wst[v] \in Working => job[v].n # 0
      BY <1>0 DEF OwnInv
    <3> QED BY <2>2, <3>1, Zenon DEF OwnInv
  <2>5. ASSUME NEW v \in Workers, SendBody(v) PROVE v = w
    <3>1. wst[v] = "body" /\ wst[w] = "body" /\ wst' = [wst EXCEPT ![v] = "loop"]
          /\ wst' = [wst EXCEPT ![w] = "loop"]
      BY <1>4, <2>5, Zenon DEF SendBody
    <3>2. v # w => wst'[v] = "body" /\ wst'[v] = "loop"
      BY <1>0, <3>1, Zenon
    <3> QED BY <3>2
  <2> QED BY <2>3, <2>4, <2>5, Zenon
<1>5. ASSUME NEW f \in Fds, ReadFrame(f)
      PROVE  \/ Have(n, fd)
             \/ /\ fd = f /\ conn[f] \in Clients /\ conn' = conn
                /\ \E i \in DOMAIN inflight[conn[f]] : n = inflight[conn[f]][i]
                /\ UNCHANGED <<stream, reqs>>
  <2>1. /\ conn[f] \in Clients /\ inflight[conn[f]] # <<>> /\ UNCHANGED <<conn, stream, reqs>>
        /\ req_queue_push(Item(Head(inflight[conn[f]]), f))
    BY <1>0, <1>5, Zenon DEF ReadFrame
  <2>2. 1 \in DOMAIN inflight[conn[f]] /\ Head(inflight[conn[f]]) = inflight[conn[f]][1]
        /\ Head(inflight[conn[f]]) \in Nat
    <3>1. inflight[conn[f]] \in Seq(Nat)
      BY <1>0, <2>1, Zenon
    <3> QED BY <2>1, <3>1
  <2>3. /\ Item(Head(inflight[conn[f]]), f) \in Items
        /\ Item(Head(inflight[conn[f]]), f).n = Head(inflight[conn[f]])
        /\ Item(Head(inflight[conn[f]]), f).fd = f
    BY <2>2, ServerAssumption DEF Item, Items
  <2> QED BY <1>3, <2>1, <2>2, <2>3, Zenon
<1>6. ASSUME NEW p \in Payloads, Datagram(p)
      PROVE  Have(n, fd) \/ (fd = UDP /\ n = Len(reqs) + 1 /\ stream' = stream)
  <2>1. req_queue_push(Item(Len(reqs) + 1, UDP)) /\ stream' = stream
    BY <1>6, Zenon DEF Datagram, nvars
  <2>2. /\ Item(Len(reqs) + 1, UDP) \in Items /\ Item(Len(reqs) + 1, UDP).n = Len(reqs) + 1
        /\ Item(Len(reqs) + 1, UDP).fd = UDP
    BY <1>0 DEF Item, Items, UDP
  <2> QED BY <1>3, <2>1, <2>2, Zenon
<1>7. ASSUME NEW w \in Workers, ProcessCli(w) \/ DedupFind(w) \/ DedupPut(w) \/ LogResult(w)
                                  \/ SendHeader(w) \/ WorkerWait(w) \/ SpuriousWakeup(w)
      PROVE  Have(n, fd)
  <2>1. UNCHANGED <<queue, job>>
    BY <1>7, Zenon DEF ProcessCli, DedupFind, DedupPut, LogResult, SendHeader, WorkerWait,
                SpuriousWakeup, qvars
  <2>2. /\ wst[w] \in Working \/ wst'[w] \notin Working
        /\ \A v \in Workers \ {w} : wst'[v] = wst[v]
    BY <1>0, <1>7, Zenon DEF ProcessCli, DedupFind, DedupPut, LogResult, SendHeader, WorkerWait,
                SpuriousWakeup, Working
  <2> QED BY <1>1, <2>1, <2>2, Zenon
<1>8. ASSUME UNCHANGED <<queue, job, wst>> PROVE Have(n, fd)
  BY <1>1, <1>8, Zenon
<1>9. ASSUME NEW c \in Clients, Accept(c) \/ ClientClose(c) \/ \E p \in Payloads : SendRequest(c, p)
      PROVE  UNCHANGED <<queue, job, wst>>
  BY <1>9, Zenon DEF Accept, ClientClose, SendRequest, qvars, wvars
<1>10. ASSUME NEW f \in Fds, CloseConn(f) PROVE UNCHANGED <<queue, job, wst>>
  BY <1>10, Zenon DEF CloseConn, qvars, wvars
<1>11. CASE UNCHANGED vars
  <2>1. UNCHANGED <<queue, job, wst>>
    BY <1>11, Zenon DEF vars, qvars, wvars
  <2> QED BY <1>4, <1>8, <2>1, Zenon
<1>12. CASE \E w \in Workers : SendBody(w)
  BY <1>4, <1>12, Zenon
<1>13. CASE Next /\ ~\E w \in Workers : SendBody(w)
  BY <1>2, <1>5, <1>6, <1>7, <1>8, <1>9, <1>10, <1>13, Zenon DEF Next, Work, Network, Environment
<1> QED BY <1>11, <1>12, <1>13, Zenon

(* A request on its way to the server was there, or is new.                 *)
LEMMA InflightStep ==
  ASSUME ServerType, [Next]_vars, NEW c \in Clients, NEW i \in DOMAIN inflight'[c]
  PROVE  \/ \E j \in DOMAIN inflight[c] : inflight'[c][i] = inflight[c][j]
         \/ inflight'[c][i] = Len(reqs) + 1 /\ stream' = stream
<1> DEFINE Old(d) == \A k \in DOMAIN inflight'[d] : \E j \in DOMAIN inflight[d] :
                       inflight'[d][k] = inflight[d][j]
<1>0. inflight \in [Clients -> Seq(Nat)] /\ conn \in [Fds -> Clients \cup {Nobody}]
  BY DEF ServerType, QueueInv, QueueType
<1>1. ASSUME inflight' = inflight PROVE Old(c)
  BY <1>1, Zenon
<1>2. ASSUME NEW f \in Fds, ReadFrame(f) \/ CloseConn(f) PROVE Old(c)
  <2>1. PICK d \in Clients : \/ inflight' = [inflight EXCEPT ![d] = Tail(@)] /\ inflight[d] # <<>>
                             \/ inflight' = [inflight EXCEPT ![d] = <<>>]
    BY <1>0, <1>2, Zenon DEF ReadFrame, CloseConn
  <2>2. CASE c # d
    BY <1>0, <2>1, <2>2
  <2>3. CASE c = d /\ inflight'[c] = <<>>
    BY <2>3
  <2>4. CASE c = d /\ inflight'[c] = Tail(inflight[c]) /\ inflight[c] # <<>>
    <3>1. inflight[c] \in Seq(Nat)
      BY <1>0, Zenon
    <3>2. \A k \in DOMAIN inflight'[c] :
            k + 1 \in DOMAIN inflight[c] /\ inflight'[c][k] = inflight[c][k + 1]
      BY <2>4, <3>1
    <3> QED BY <3>2
  <2> QED BY <1>0, <2>1, <2>2, <2>3, <2>4
<1>3. ASSUME NEW d \in Clients, NEW p \in Payloads, SendRequest(d, p)
      PROVE  /\ stream' = stream
             /\ inflight'[c][i] = Len(reqs) + 1
                  \/ \E j \in DOMAIN inflight[c] : inflight'[c][i] = inflight[c][j]
  <2>1. stream' = stream /\ inflight' = [inflight EXCEPT ![d] = Append(@, Len(reqs) + 1)]
    BY <1>3, Zenon DEF SendRequest
  <2>2. CASE c # d
    BY <1>0, <2>1, <2>2
  <2>3. CASE c = d
    <3>1. inflight[c] \in Seq(Nat) /\ inflight'[c] = Append(inflight[c], Len(reqs) + 1)
      BY <1>0, <2>1, <2>3, Zenon
    <3>2. Len(reqs) + 1 \in Nat
      BY DEF ServerType, QueueInv, QueueType
    <3>3. \A k \in DOMAIN inflight'[c] :
            \/ inflight'[c][k] = Len(reqs) + 1
            \/ k \in DOMAIN inflight[c] /\ inflight'[c][k] = inflight[c][k]
      BY <3>1, <3>2
    <3> QED BY <2>1, <3>3, Zenon
  <2> QED BY <2>2, <2>3, Zenon
<1>4. ASSUME NEW w \in Workers, Work(w) \/ SpuriousWakeup(w) PROVE inflight' = inflight
  BY <1>4, Zenon DEF Work, WorkerWait, WorkerTake, ProcessCli, DedupFind, DedupPut, LogResult,
              SendHeader, SendBody, SpuriousWakeup, Write, nvars
<1>5. ASSUME NEW d \in Clients, Accept(d) \/ ClientClose(d) PROVE inflight' = inflight
  BY <1>5, Zenon DEF Accept, ClientClose
<1>6. ASSUME NEW p \in Payloads, Datagram(p) PROVE inflight' = inflight
  BY <1>6, Zenon DEF Datagram, nvars
<1>7. ASSUME UNCHANGED vars PROVE inflight' = inflight
  BY <1>7, Zenon DEF vars, nvars
<1>8. \/ Old(c)
      \/ \E d \in Clients : \E p \in Payloads : SendRequest(d, p)
  <2> HIDE DEF Old
  <2> QED BY <1>1, <1>2, <1>4, <1>5, <1>6, <1>7, Zenon DEF Next, Network, Environment
<1> QED BY <1>3, <1>8, Zenon

(* SIGPIPE is raised by a worker that writes to a client that has left.     *)
LEMMA KillStep ==
  ASSUME ServerType, [Next]_vars, alive, ~alive'
  PROVE  \E w \in Workers : /\ wst[w] \in Working /\ stream' = stream /\ reqs' = reqs
                            /\ job[w].fd \in Fds /\ conn[job[w].fd] \in Clients
                            /\ cst[conn[job[w].fd]] = "closed" /\ cst' = cst
<1>0. conn \in [Fds -> Clients \cup {Nobody}]
  BY Zenon DEF ServerType, QueueInv, QueueType
<1>1. ASSUME NEW w \in Workers, Work(w) \/ SpuriousWakeup(w)
      PROVE  SendHeader(w) \/ SendBody(w)
  BY <1>1, Zenon DEF Work, WorkerWait, WorkerTake, ProcessCli, DedupFind, DedupPut, LogResult,
              SpuriousWakeup, nvars
<1>2. ~Network /\ ~Environment /\ ~UNCHANGED vars
  BY Zenon DEF Network, ReadFrame, CloseConn, Environment, Accept, ClientClose, SendRequest,
          Datagram, vars, nvars
<1>3. PICK w \in Workers : SendHeader(w) \/ SendBody(w)
  BY <1>1, <1>2, Zenon DEF Next
<1>4. /\ wst[w] \in Working /\ reqs' = reqs
      /\ \E part : Write(job[w].fd, part)
  BY <1>3, Zenon DEF SendHeader, SendBody, Working
<1>5. /\ job[w].fd \in Fds /\ conn[job[w].fd] # Nobody /\ cst[conn[job[w].fd]] = "closed"
      /\ stream' = stream /\ cst' = cst
  BY <1>4, Zenon DEF Write, nvars
<1> QED BY <1>0, <1>4, <1>5, Zenon

(* Every step keeps track of who has left without an answer.                *)
LEMMA LeaverStep ==
  ServerType /\ OwnInv /\ LogInv /\ LeaverInv /\ [Next]_vars => LeaverInv'
<1> SUFFICES ASSUME ServerType, OwnInv, LogInv, LeaverInv, [Next]_vars PROVE LeaverInv'
  OBVIOUS
<1>0. \A c \in Clients : \A i \in DOMAIN inflight[c] :
        /\ Owed(inflight[c][i]) /\ inflight[c][i] \in Sent(c)
        /\ \A w \in Workers : inflight[c][i] # job[w].n
  <2>1. \A c \in Clients : \A i \in DOMAIN inflight[c] : Owed(inflight[c][i])
    BY Zenon DEF LeaverInv
  <2>2. \A c \in Clients : \A i \in DOMAIN inflight[c] :
          inflight[c][i] \in Sent(c) /\ \A w \in Workers : inflight[c][i] # job[w].n
    BY Zenon DEF OwnInv
  <2> QED BY <2>1, <2>2, Zenon
<1>1. /\ Len(reqs) + 1 \notin DOMAIN reqs /\ UDP \notin Fds
      /\ \A w \in Workers : job[w].fd \in Int
  BY ServerAssumption DEF ServerType, QueueInv, QueueType, UDP, Items
<1>2. \A n : stream' = stream /\ Owed(n) => Owed(n)'
  BY Zenon DEF Owed, Answers
<1>3. Owed(Len(reqs) + 1)
  BY <1>1, Zenon DEF Owed, LogInv, Answers
<1>4. \A n \in DOMAIN reqs : n \in DOMAIN reqs' /\ reqs'[n] = reqs[n]
  BY ReqsGrow
<1>5. \A n, fd : Have(n, fd) => n \in DOMAIN reqs
  BY Zenon DEF Have, OwnInv
<1>6. ASSUME NEW n \in DOMAIN reqs', NEW fd \in Int, Have(n, fd)'
      PROVE  Rightful(n, fd)' /\ Owed(n)'
  <2>1. CASE Have(n, fd) /\ \A w \in Workers : SendBody(w) => job[w].n # n
    <3>1. n \in DOMAIN reqs /\ Rightful(n, fd) /\ Owed(n)
      BY <1>5, <1>6, <2>1, Zenon DEF LeaverInv
    <3> QED BY <2>1, <3>1, ClaimKept, OwedStep, Zenon
  <2>2. CASE \E f \in Fds : /\ fd = f /\ conn[f] \in Clients /\ conn'[f] = conn[f]
                            /\ \E i \in DOMAIN inflight[conn[f]] : n = inflight[conn[f]][i]
                            /\ UNCHANGED <<stream, reqs>>
    <3>1. PICK f \in Fds : /\ fd = f /\ conn[f] \in Clients /\ conn'[f] = conn[f]
                           /\ \E i \in DOMAIN inflight[conn[f]] : n = inflight[conn[f]][i]
                           /\ stream' = stream /\ reqs' = reqs
      BY <2>2, Zenon
    <3>2. Owed(n) /\ n \in Sent(conn[f])
      BY <1>0, <3>1, Zenon
    <3>3. Rightful(n, fd)'
      BY <3>1, <3>2, Zenon DEF Rightful, Sent
    <3> QED BY <1>2, <3>1, <3>2, <3>3, Zenon
  <2>3. CASE fd = UDP /\ n = Len(reqs) + 1 /\ stream' = stream
    <3>1. Rightful(n, fd)'
      BY <1>1, <2>3, Zenon DEF Rightful
    <3> QED BY <1>2, <1>3, <2>3, <3>1, Zenon
  <2> QED BY <1>6, <2>1, <2>2, <2>3, HaveStep, Zenon
<1>7. ASSUME NEW c \in Clients, NEW i \in DOMAIN inflight'[c], NEW n, n = inflight'[c][i]
      PROVE  Owed(n)'
  <2>1. CASE \E j \in DOMAIN inflight[c] : n = inflight[c][j]
    <3>1. Owed(n) /\ \A w \in Workers : job[w].n # n
      BY <1>0, <2>1, Zenon
    <3> QED BY <3>1, OwedStep, Zenon
  <2>2. CASE n = Len(reqs) + 1 /\ stream' = stream
    BY <1>2, <1>3, <2>2, Zenon
  <2> QED BY <1>7, <2>1, <2>2, InflightStep, Zenon
<1>8. KilledByLeaver'
  <2>1. CASE alive'
    BY <2>1, Zenon DEF KilledByLeaver
  <2>2. CASE ~alive /\ ~alive'
    <3>1. UNCHANGED vars
      BY <2>2, Zenon DEF Next
    <3> QED BY <3>1, Zenon DEF LeaverInv, KilledByLeaver, Unanswered, Answers, vars, nvars
  <2>3. CASE alive /\ ~alive'
    <3>1. PICK w \in Workers : /\ wst[w] \in Working /\ stream' = stream /\ reqs' = reqs
                               /\ job[w].fd \in Fds /\ conn[job[w].fd] \in Clients
                               /\ cst[conn[job[w].fd]] = "closed" /\ cst' = cst
      BY <2>3, KillStep, Zenon
    <3>2. PICK n \in DOMAIN reqs : Have(n, job[w].fd)
      BY <3>1, Zenon DEF OwnInv, Have
    <3>3. Owed(n) /\ reqs[n].client \in Clients /\ cst[reqs[n].client] = "closed"
      BY <1>1, <3>1, <3>2, Zenon DEF LeaverInv, Rightful
    <3>4. Nobody \notin Clients
      BY ServerAssumption, Zenon
    <3>5. Unanswered(n)
      BY <3>2, <3>3, <3>4, Zenon DEF Unanswered, Owed
    <3>6. Unanswered(n)'
      BY <3>1, <3>5, Zenon DEF Unanswered, Answers
    <3> QED BY <3>1, <3>2, <3>3, <3>6, Zenon DEF KilledByLeaver
  <2> QED BY <2>1, <2>2, <2>3, Zenon
<1>9. (\A c \in Clients : \A i \in DOMAIN inflight[c] : Owed(inflight[c][i]))'
  BY <1>7, Zenon DEF Owed
<1> QED BY <1>6, <1>8, <1>9, Zenon DEF LeaverInv

(* The daemon dies of SIGPIPE only when a client has closed its connection  *)
(* without the answer to one of its requests: clients that wait for their   *)
(* answers never end it, even when descriptors are reused for others.       *)
THEOREM DiesOfLeavers == Spec => []KilledByLeaver
<1>1. Init => LeaverInv
  <2> SUFFICES ASSUME Init PROVE LeaverInv
    OBVIOUS
  <2>1. queue = <<>> /\ alive /\ \A w \in Workers : wst[w] \notin Working
    BY DEF Init, Working
  <2>2. \A n, fd : ~Have(n, fd)
    BY <2>1 DEF Have
  <2>3. \A c \in Clients : DOMAIN inflight[c] = {}
    BY DEF Init
  <2> QED BY <2>1, <2>2, <2>3, Zenon DEF LeaverInv, KilledByLeaver
<1>2. LeaverInv => KilledByLeaver
  BY Zenon DEF LeaverInv
<1> QED BY <1>1, <1>2, OwnAlways, LogAlways, LeaverStep, PTL DEF Spec

============================================================================
