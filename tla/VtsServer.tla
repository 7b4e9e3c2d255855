----------------------------- MODULE VtsServer -----------------------------
(***************************************************************************)
(* The request path of the VTS daemon: the network thread of net_server.c, *)
(* which turns frames and datagrams into work items, the bounded work      *)
(* queue, and the worker threads of req_handler.c, which answer on the     *)
(* file descriptor the item carries.  A critical section is one step, and  *)
(* so is a write to a socket; a frame is two writes, its header and its    *)
(* body.  The clients, the sockets and the file descriptor table are the   *)
(* environment.                                                            *)
(***************************************************************************)
EXTENDS VtsJson, RoomTable, Integers, FiniteSets

CONSTANTS
  Workers,      \* the WORKER_COUNT threads
  Clients,      \* TCP clients, each of which connects once
  Fds,          \* descriptors accept can return
  Text,         \* requests the clients send: a name for each, and its text
  QUEUE_DEPTH, DEDUP_MAX,
  Window,       \* requests a client sends before it waits for an answer
  Patient,      \* clients close only when every request was answered
  MaxReq        \* bound: number of requests sent

Nobody == "nobody"

ASSUME ServerAssumption ==
  /\ IsFiniteSet(Workers) /\ Fds \subseteq Nat /\ Nobody \notin Clients
  /\ QUEUE_DEPTH \in Nat \ {0} /\ DEDUP_MAX \in Nat \ {0}
  /\ Window \in Nat /\ MaxReq \in Nat /\ Patient \in BOOLEAN

VARIABLES
  queue, qlen,         \* qhead ... qtail, and the counter kept beside it
  wst, job, res,       \* each worker: control point, work item, answer
  dedup_tab, dedup_pos,
  rooms,               \* the registry
  g_logf, reqlog,      \* log_write_req_result: its file is open; its calls, each
                       \* of which wrote a line or did not
  reqs,                \* the requests sent: who, and what
  cst, inflight, stream, rst,  \* each client: its state, the frames on their way
                       \* to the server, what it received, a reset by its side
  conn,                \* descriptor table: the client a descriptor leads to
  alive                \* the process has not been killed

qvars == <<queue, qlen>>
wvars == <<wst, job, res>>
dvars == <<dedup_tab, dedup_pos>>
nvars == <<cst, inflight, stream, rst, conn, alive>>
lvars == <<g_logf, reqlog>>
vars == <<qvars, wvars, dvars, rooms, lvars, reqs, nvars>>

Payloads == DOMAIN Text

UDP == -1
Item(n, fd) == [n |-> n, fd |-> fd]
NoItem == Item(0, UDP)
Unused == [id |-> None, result |-> None]

Init ==
  /\ queue = <<>> /\ qlen = 0
  /\ wst = [w \in Workers |-> "loop"]
  /\ job = [w \in Workers |-> NoItem]
  /\ res = [w \in Workers |-> None]
  /\ dedup_tab = [i \in 0 .. DEDUP_MAX - 1 |-> Unused] /\ dedup_pos = 0
  /\ rooms = <<>>
  /\ g_logf = FALSE /\ reqlog = {}
  /\ reqs = <<>>
  /\ cst = [c \in Clients |-> "new"]
  /\ inflight = [c \in Clients |-> <<>>]
  /\ stream = [c \in Clients |-> <<>>]
  /\ rst = [c \in Clients |-> FALSE]
  /\ conn = [f \in Fds |-> Nobody]
  /\ alive = TRUE

-----------------------------------------------------------------------------
(* The work queue.                                                          *)

\* Faulty: no worker is woken.
Signal_None == wst' = wst

\* Faulty: only the first item is signalled.
Signal_First ==
  LET waiting == {w \in Workers : wst[w] = "wait"}
  IN  IF waiting = {} \/ queue # <<>> THEN wst' = wst
      ELSE \E w \in waiting : wst' = [wst EXCEPT ![w] = "loop"]

\* pthread_cond_signal: wakes one of the waiting workers, if any.
Signal ==
  LET waiting == {w \in Workers : wst[w] = "wait"}
  IN  IF waiting = {} THEN wst' = wst
      ELSE \E w \in waiting : wst' = [wst EXCEPT ![w] = "loop"]

\* A full queue loses its oldest item.
req_queue_push(item) ==
  LET full == qlen >= QUEUE_DEPTH /\ queue # <<>>
      rest == IF full THEN Tail(queue) ELSE queue
  IN  /\ queue' = Append(rest, item)
      /\ qlen' = (IF full THEN qlen - 1 ELSE qlen) + 1
      /\ Signal
      /\ UNCHANGED <<job, res>>

\* worker_fn: under qlock, wait while there is no work, else take the oldest.
WorkerWait(w) ==
  /\ wst[w] = "loop"
  /\ queue = <<>>
  /\ wst' = [wst EXCEPT ![w] = "wait"]
  /\ UNCHANGED <<qvars, job, res, dvars, rooms, lvars, reqs, nvars>>

\* Faulty: the item stays in the queue.
WorkerTake_Peek(w) ==
  /\ wst[w] = "loop"
  /\ queue # <<>>
  /\ job' = [job EXCEPT ![w] = Head(queue)]
  /\ queue' = queue
  /\ qlen' = qlen
  /\ wst' = [wst EXCEPT ![w] = "process"]
  /\ UNCHANGED <<res, dvars, rooms, lvars, reqs, nvars>>

WorkerTake(w) ==
  /\ wst[w] = "loop"
  /\ queue # <<>>
  /\ job' = [job EXCEPT ![w] = Head(queue)]
  /\ queue' = Tail(queue)
  /\ qlen' = qlen - 1
  /\ wst' = [wst EXCEPT ![w] = "process"]
  /\ UNCHANGED <<res, dvars, rooms, lvars, reqs, nvars>>

\* pthread_cond_wait may return without a signal; the loop tests again.
SpuriousWakeup(w) ==
  /\ wst[w] = "wait"
  /\ wst' = [wst EXCEPT ![w] = "loop"]
  /\ UNCHANGED <<qvars, job, res, dvars, rooms, lvars, reqs, nvars>>

-----------------------------------------------------------------------------
(* process_one.                                                             *)

Payload(w) == reqs[job[w].n].payload

\* What json_get_str finds in each request, and which go to handle_cli.
Fields ==
  [p \in Payloads |-> [key \in {"cmd", "target", "name", "req_id", "op"} |->
                         json_get_str(Text[p], key)]]
CliRequests == {p \in Payloads : IsCli(Text[p])}

\* handle_cli: the answer code, and the registry after it.
handle_cli(p) ==
  LET cmd == Fields[p]["cmd"]
      target == Fields[p]["target"]
      name == Fields[p]["name"]
      created == room_create(rooms, name)
      deleted == room_delete(rooms, name)
      Answer(code) == [code |-> code, rooms |-> rooms]
  IN  CASE cmd = None \/ target = None \/ name = None -> Answer("1001")
        [] target # "room" -> Answer("1001")
        [] cmd = "create" ->
             [code  |-> CASE created.rc = "ok" -> "0"
                          [] created.rc = "exists" -> "1003"
                          [] created.rc = "full" -> "1100",
              rooms |-> created.rooms]
        [] cmd = "delete" ->
             [code  |-> IF deleted.rc = "ok" THEN "0" ELSE "1002",
              rooms |-> deleted.rooms]
        [] cmd \in {"start", "stop", "edit", "show"} ->
             Answer(IF room_exists(rooms, name) THEN "0" ELSE "1002")
        [] OTHER -> Answer("1001")

ProcessCli(w) ==
  /\ wst[w] = "process"
  /\ Payload(w) \in CliRequests
  /\ LET a == handle_cli(Payload(w))
     IN  res' = [res EXCEPT ![w] = a.code] /\ rooms' = a.rooms
  /\ wst' = [wst EXCEPT ![w] = "header"]
  /\ UNCHANGED <<qvars, job, dvars, lvars, reqs, nvars>>

\* handle_legacy: the request id and the result it computes for itself.
ReqId(p) == LET id == Fields[p]["req_id"] IN IF id = None THEN "noid" ELSE id
Op(p) == LET op == Fields[p]["op"] IN IF op = None THEN "NOP" ELSE op
Success(p) == IF Op(p) = "FAIL" THEN "ERR" ELSE "OK"

\* Faulty: any used slot matches.
Slots_Any(id) == {i \in DOMAIN dedup_tab : dedup_tab[i].id # None}

\* The slots dedup_find accepts.
Slots(id) == {i \in DOMAIN dedup_tab : dedup_tab[i].id = id}

\* Faulty: a repeated answer is not logged.
DedupFind_NoLog(w) ==
  LET id == ReqId(Payload(w))
      hit == id # "" /\ Slots(id) # {}
  IN  /\ wst[w] = "process"
      /\ Payload(w) \notin CliRequests
      /\ res' = [res EXCEPT ![w] = IF hit THEN dedup_tab[Min(Slots(id))].result
                                   ELSE Success(Payload(w))]
      /\ wst' = [wst EXCEPT ![w] = IF hit THEN "header" ELSE "put"]
      /\ UNCHANGED <<qvars, job, dvars, rooms, lvars, reqs, nvars>>

\* First critical section of handle_legacy; dedup_find takes the first match.
DedupFind(w) ==
  LET id == ReqId(Payload(w))
      hit == id # "" /\ Slots(id) # {}
  IN  /\ wst[w] = "process"
      /\ Payload(w) \notin CliRequests
      /\ res' = [res EXCEPT ![w] = IF hit THEN dedup_tab[Min(Slots(id))].result
                                   ELSE Success(Payload(w))]
      /\ wst' = [wst EXCEPT ![w] = IF hit THEN "log" ELSE "put"]
      /\ UNCHANGED <<qvars, job, dvars, rooms, lvars, reqs, nvars>>

\* Second critical section: dedup_put, in the next slot of the ring.
DedupPut(w) ==
  LET id == ReqId(Payload(w))
  IN  /\ wst[w] = "put"
      /\ IF id = "" THEN UNCHANGED dvars
         ELSE /\ dedup_tab' = [dedup_tab EXCEPT ![dedup_pos] = [id |-> id, result |-> res[w]]]
              /\ dedup_pos' = (dedup_pos + 1) % DEDUP_MAX
      /\ wst' = [wst EXCEPT ![w] = "log"]
      /\ UNCHANGED <<qvars, job, res, rooms, lvars, reqs, nvars>>

\* log_write_req_result: without an open file it tries to open it, and without
\* success it writes nothing.
LogResult(w) ==
  /\ wst[w] = "log"
  /\ g_logf' \in {g_logf, TRUE}
  /\ reqlog' = reqlog \cup {[n |-> job[w].n, result |-> res[w], line |-> g_logf']}
  /\ wst' = [wst EXCEPT ![w] = "header"]
  /\ UNCHANGED <<qvars, job, res, dvars, rooms, reqs, nvars>>

\* write(fd, ...) as the kernel sees it.  A descriptor nobody has open: EBADF.
\* A peer that has closed answers the first write with a reset; after the
\* reset a write raises SIGPIPE, which nothing in the daemon ignores.
Write(fd, part) ==
  IF fd \notin Fds THEN UNCHANGED nvars
  ELSE IF conn[fd] = Nobody THEN UNCHANGED nvars
  ELSE LET c == conn[fd]
       IN  \/ /\ cst[c] = "open"
              /\ stream' = [stream EXCEPT ![c] = Append(@, part)]
              /\ UNCHANGED <<cst, inflight, rst, conn, alive>>
           \/ /\ cst[c] = "closed"
              /\ rst' = [rst EXCEPT ![c] = TRUE]
              /\ alive' \in {TRUE, ~rst[c]}
              /\ UNCHANGED <<cst, inflight, stream, conn>>

Part(w, kind) == [kind |-> kind, n |-> job[w].n, result |-> res[w]]

\* send_length_prefixed: two calls of write_full, whose results are ignored.
SendHeader(w) ==
  /\ wst[w] = "header"
  /\ Write(job[w].fd, Part(w, "header"))
  /\ wst' = [wst EXCEPT ![w] = "body"]
  /\ UNCHANGED <<qvars, job, res, dvars, rooms, lvars, reqs>>

\* The item is freed and the worker returns to its loop.
SendBody(w) ==
  /\ wst[w] = "body"
  /\ Write(job[w].fd, Part(w, "body"))
  /\ wst' = [wst EXCEPT ![w] = "loop"]
  /\ job' = [job EXCEPT ![w] = NoItem]
  /\ res' = [res EXCEPT ![w] = None]
  /\ UNCHANGED <<qvars, dvars, rooms, lvars, reqs>>

Work(w) ==
  \/ WorkerWait(w) \/ WorkerTake(w)
  \/ ProcessCli(w) \/ DedupFind(w) \/ DedupPut(w) \/ LogResult(w)
  \/ SendHeader(w) \/ SendBody(w)

-----------------------------------------------------------------------------
(* The network thread.                                                      *)

\* accept returns the lowest free descriptor.
Accept(c) ==
  LET free == {f \in Fds : conn[f] = Nobody}
  IN  /\ cst[c] = "new"
      /\ free # {}
      /\ conn' = [conn EXCEPT ![Min(free)] = c]
      /\ cst' = [cst EXCEPT ![c] = "open"]
      /\ UNCHANGED <<qvars, wvars, dvars, rooms, lvars, reqs, inflight, stream, rst, alive>>

\* Faulty: the item carries the first connection of the list.
ReadFrame_First(f) ==
  LET c == conn[f]
  IN  /\ c # Nobody
      /\ inflight[c] # <<>>
      /\ inflight' = [inflight EXCEPT ![c] = Tail(@)]
      /\ req_queue_push(Item(Head(inflight[c]), Min({g \in Fds : conn[g] # Nobody})))
      /\ UNCHANGED <<dvars, rooms, lvars, reqs, cst, stream, rst, conn, alive>>

\* read_from_conn and handle_frame: one complete frame.
ReadFrame(f) ==
  LET c == conn[f]
  IN  /\ c # Nobody
      /\ inflight[c] # <<>>
      /\ inflight' = [inflight EXCEPT ![c] = Tail(@)]
      /\ req_queue_push(Item(Head(inflight[c]), f))
      /\ UNCHANGED <<dvars, rooms, lvars, reqs, cst, stream, rst, conn, alive>>

\* The peer closed: what it sent is read first, unless a reset discarded it.
CloseConn(f) ==
  LET c == conn[f]
  IN  /\ c # Nobody
      /\ cst[c] = "closed"
      /\ inflight[c] = <<>> \/ rst[c]
      /\ conn' = [conn EXCEPT ![f] = Nobody]
      /\ inflight' = [inflight EXCEPT ![c] = <<>>]
      /\ UNCHANGED <<qvars, wvars, dvars, rooms, lvars, reqs, cst, stream, rst, alive>>

\* Faulty: the item of a datagram carries the descriptor of a connection.
Datagram_Conn(p) ==
  /\ Len(reqs) < MaxReq
  /\ reqs' = Append(reqs, [client |-> Nobody, payload |-> p])
  /\ req_queue_push(Item(Len(reqs) + 1, Min(Fds)))
  /\ UNCHANGED <<dvars, rooms, lvars, nvars>>

\* A datagram is a request with no way to answer it.
Datagram(p) ==
  /\ Len(reqs) < MaxReq
  /\ reqs' = Append(reqs, [client |-> Nobody, payload |-> p])
  /\ req_queue_push(Item(Len(reqs) + 1, UDP))
  /\ UNCHANGED <<dvars, rooms, lvars, nvars>>

Network == \E f \in Fds : ReadFrame(f) \/ CloseConn(f)

-----------------------------------------------------------------------------
(* The clients.                                                             *)

Sent(c) == {n \in DOMAIN reqs : reqs[n].client = c}
Answers(c) == {i \in DOMAIN stream[c] : stream[c][i].kind = "body"}
Outstanding(c) == Cardinality(Sent(c)) - Cardinality(Answers(c))

SendRequest(c, p) ==
  /\ cst[c] = "open"
  /\ Outstanding(c) < Window
  /\ Len(reqs) < MaxReq
  /\ reqs' = Append(reqs, [client |-> c, payload |-> p])
  /\ inflight' = [inflight EXCEPT ![c] = Append(@, Len(reqs) + 1)]
  /\ UNCHANGED <<qvars, wvars, dvars, rooms, lvars, cst, stream, rst, conn, alive>>

\* Done, or (SO_RCVTIMEO) tired of waiting.
ClientClose(c) ==
  /\ cst[c] = "open"
  /\ Patient => Outstanding(c) = 0
  /\ cst' = [cst EXCEPT ![c] = "closed"]
  /\ UNCHANGED <<qvars, wvars, dvars, rooms, lvars, reqs, inflight, stream, rst, conn, alive>>

Environment ==
  \/ \E c \in Clients : Accept(c) \/ ClientClose(c) \/ \E p \in Payloads : SendRequest(c, p)
  \/ \E p \in Payloads : Datagram(p)

-----------------------------------------------------------------------------
Next ==
  /\ alive
  /\ \/ \E w \in Workers : Work(w) \/ SpuriousWakeup(w)
     \/ Network
     \/ Environment

Spec == Init /\ [][Next]_vars

\* The network thread and each worker are scheduled; clients owe nothing.
FairSpec ==
  Spec /\ WF_vars(alive /\ Network) /\ \A w \in Workers : WF_vars(alive /\ Work(w))

-----------------------------------------------------------------------------
States == {"loop", "wait", "process", "put", "log", "header", "body"}
In(states) == {w \in Workers : wst[w] \in states}

(* A worker waits only if every queued item has a worker of its own on the  *)
(* way to qlock: no wakeup is lost between push's signal and worker_fn's    *)
(* test, and the counter qlen never drifts from the list.                   *)
NoLostWakeup ==
  /\ qlen = Len(queue)
  /\ In({"wait"}) # {} => Len(queue) <= Cardinality(In({"loop"}))

\* The requests in the queue and in the hands of the workers.
Queued == {queue[i].n : i \in DOMAIN queue}
Held(w) == {job[w].n} \ {0}

(* An item is in one place: handed to one worker, or still queued, once;    *)
(* and req_queue_push never lets the queue outgrow QUEUE_DEPTH.             *)
OneOwner ==
  /\ Len(queue) <= QUEUE_DEPTH
  /\ Cardinality(Queued) = Len(queue)
  /\ \A w \in Workers : Held(w) \cap Queued = {}
  /\ \A v, w \in Workers : v # w => Held(v) \cap Held(w) = {}

(* vts_protocol.h: "Frame: 4-byte BE length, then payload bytes": what a    *)
(* client receives is headers each followed by its own body.                *)
FrameIntegrity ==
  \A c \in Clients :
    \A i \in DOMAIN stream[c] :
      IF i % 2 = 1 THEN stream[c][i].kind = "header"
      ELSE stream[c][i] = [stream[c][i - 1] EXCEPT !.kind = "body"]

(* net_server.c, handle_frame: "origin fd = c->fd": an answer goes to the   *)
(* client that sent the request.                                            *)
ReplyToOrigin ==
  \A c \in Clients : \A i \in DOMAIN stream[c] : stream[c][i].n \in Sent(c)

\* log_write_req_result was called for request n with result r.
Recorded(n, r) == \E e \in reqlog : e.n = n /\ e.result = r

(* A legacy answer reaches its client only after log_write_req_result was   *)
(* called with the same result for it, from either path of handle_legacy.   *)
(* The call has then written its line, unless the log could not be opened.  *)
LoggedFirst ==
  \A c \in Clients : \A i \in DOMAIN stream[c] :
    LET a == stream[c][i]
    IN  reqs[a.n].payload \notin CliRequests => Recorded(a.n, a.result)

(* req_handler.c, handle_legacy: every op other than "FAIL" counts as OK,   *)
(* and the dedup ring never answers a request with another one's result.    *)
OkUnlessFail ==
  \A a \in reqlog : a.result = Success(reqs[a.n].payload)

\* The client of request n has not got the answer to it.
Unanswered(n) ==
  /\ n \in DOMAIN reqs
  /\ reqs[n].client # Nobody
  /\ \A i \in Answers(reqs[n].client) : stream[reqs[n].client][i].n # n

(* SIGPIPE, which the daemon does not ignore (io_util.h, write_full), ends   *)
(* it only if a client has left without the answer to a request of its own:  *)
(* no client that waits brings it down, whatever happens to the others.     *)
KilledByLeaver ==
  alive \/ \E n \in DOMAIN reqs : Unanswered(n) /\ cst[reqs[n].client] = "closed"

(* A request sent over TCP is answered in the end, if its client waits and  *)
(* the queue never overflows: no wakeup, frame or item is lost on the way.  *)
EveryRequestAnswered == \A n \in 1 .. MaxReq : Unanswered(n) ~> ~Unanswered(n)

=============================================================================
