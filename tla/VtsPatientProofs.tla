-------------------------- MODULE VtsPatientProofs --------------------------
(***************************************************************************)
(* The request path of the daemon with clients that wait for each answer,  *)
(* for any number of workers, clients, descriptors and requests: their     *)
(* frames are whole and their answers are their own.                       *)
(***************************************************************************)
EXTENDS VtsServerProofs

\* The client of a request, and a request that can be answered on fd.
Owner(n) == reqs[n].client
Ready(n, fd) ==
  IF Owner(n) = Nobody THEN fd = UDP
  ELSE fd \in Fds /\ conn[fd] = Owner(n) /\ cst[Owner(n)] = "open"

\* The requests of a client the daemon has still to answer.
Placed(c) ==
  {n \in Sent(c) : \/ \E i \in DOMAIN inflight[c] : inflight[c][i] = n
                   \/ \E i \in DOMAIN queue : queue[i].n = n
                   \/ \E w \in Workers : job[w].n = n}

\* Items lead to a client that is still there.
ReadyInv ==
  /\ \A i \in DOMAIN queue : Ready(queue[i].n, queue[i].fd)
  /\ \A w \in Workers : wst[w] \in Working => Ready(job[w].n, job[w].fd)
  /\ \A c \in Clients : inflight[c] # <<>> => cst[c] = "open"

\* A client waits for one answer at most.
CountInv(c) ==
  /\ Outstanding(c) \in {0, 1}
  /\ Placed(c) # {} => Outstanding(c) = 1
  /\ \A m, n \in Placed(c) : m = n

\* A header without a body belongs to a worker that is about to write it.
StreamInv ==
  /\ FrameIntegrity /\ ReplyToOrigin
  /\ \A c \in Clients :
       Len(stream[c]) % 2 = 1 => \E w \in Workers : wst[w] = "body" /\ Owner(job[w].n) = c
  /\ \A w \in Workers : \A c \in Clients :
       wst[w] = "body" /\ Owner(job[w].n) = c =>
         Len(stream[c]) % 2 = 1 /\ stream[c][Len(stream[c])] = Part(w, "header")

\* Clients that send one request at a time and wait for its answer.
PatientInv == alive /\ ReadyInv /\ (\A c \in Clients : CountInv(c)) /\ StreamInv
-----------------------------------------------------------------------------
(* The requests and the answers of a client can be counted.                 *)
LEMMA Counts ==
  ASSUME ServerType, NEW c \in Clients
  PROVE  /\ IsFiniteSet(Sent(c)) /\ Cardinality(Sent(c)) \in Nat
         /\ IsFiniteSet(Answers(c)) /\ Cardinality(Answers(c)) \in Nat
<1>1. Len(reqs) \in Nat /\ DOMAIN reqs = 1 .. Len(reqs)
  BY DEF ServerType, QueueInv, QueueType
<1>2. Len(stream[c]) \in Nat /\ DOMAIN stream[c] = 1 .. Len(stream[c])
  BY DEF ServerType
<1>3. IsFiniteSet(1 .. Len(reqs)) /\ IsFiniteSet(1 .. Len(stream[c]))
  BY <1>1, <1>2, FS_Interval
<1>4. Sent(c) \subseteq 1 .. Len(reqs) /\ Answers(c) \subseteq 1 .. Len(stream[c])
  BY <1>1, <1>2 DEF Sent, Answers
<1>5. IsFiniteSet(Sent(c)) /\ IsFiniteSet(Answers(c))
  BY <1>3, <1>4, FS_Subset
<1> QED BY <1>5, FS_CardinalityType

(* A step that sends and answers nothing, and brings no request back.       *)
LEMMA CountKept ==
  ASSUME NEW c \in Clients, CountInv(c), Sent(c)' = Sent(c), Answers(c)' = Answers(c),
         Placed(c)' \subseteq Placed(c)
  PROVE  CountInv(c)'
<1>1. Outstanding(c)' = Outstanding(c)
  BY DEF Outstanding
<1> QED BY <1>1 DEF CountInv

(* A step that writes nothing.                                              *)
LEMMA StreamKept ==
  ASSUME ServerType, OwnInv, StreamInv, stream' = stream,
         \A n \in DOMAIN reqs : n \in DOMAIN reqs' /\ reqs'[n] = reqs[n],
         \A v \in Workers : wst'[v] = "body" <=> wst[v] = "body",
         \A v \in Workers : wst[v] = "body" => job'[v] = job[v] /\ res'[v] = res[v]
  PROVE  StreamInv'
<1>1. \A v \in Workers : wst[v] = "body" => Owner(job[v].n)' = Owner(job[v].n)
  BY DEF OwnInv, Owner, Working
<1>2. FrameIntegrity' /\ ReplyToOrigin'
  <2>1. \A c \in Clients : Sent(c) \subseteq Sent(c)'
    BY DEF Sent
  <2> QED BY <2>1 DEF StreamInv, FrameIntegrity, ReplyToOrigin
<1>3. \A v \in Workers : wst[v] = "body" => Part(v, "header")' = Part(v, "header")
  BY DEF Part
<1> QED BY <1>1, <1>2, <1>3, Zenon DEF StreamInv

(* No request is brought back when no place has a new one.                  *)
LEMMA PlacedShrinks ==
  ASSUME NEW c \in Clients, Sent(c)' = Sent(c),
         \A n \in Sent(c) :
           (\/ \E i \in DOMAIN inflight'[c] : inflight'[c][i] = n
            \/ \E i \in DOMAIN queue' : queue'[i].n = n
            \/ \E w \in Workers : job'[w].n = n) =>
           (\/ \E i \in DOMAIN inflight[c] : inflight[c][i] = n
            \/ \E i \in DOMAIN queue : queue[i].n = n
            \/ \E w \in Workers : job[w].n = n)
  PROVE  Placed(c)' \subseteq Placed(c)
BY DEF Placed

(* The steps of a worker between taking an item and writing.                *)
LEMMA InnerPatient ==
  ASSUME ServerType, OwnInv, PatientInv, UNCHANGED <<queue, job, reqs, nvars>>,
         \A v \in Workers : /\ wst'[v] \in Working <=> wst[v] \in Working
                            /\ wst'[v] = "body" <=> wst[v] = "body"
                            /\ wst[v] = "body" => res'[v] = res[v]
  PROVE  PatientInv'
<1>1. UNCHANGED <<cst, inflight, stream, conn, alive>>
  BY DEF nvars
<1>2. ReadyInv'
  BY <1>1 DEF PatientInv, ReadyInv, Ready, Owner
<1>3. \A c \in Clients : CountInv(c)'
  <2> TAKE c \in Clients
  <2>1. Sent(c)' = Sent(c) /\ Answers(c)' = Answers(c)
    BY <1>1 DEF Sent, Answers
  <2>2. Placed(c)' \subseteq Placed(c)
    BY <1>1, <2>1, PlacedShrinks
  <2> QED BY <2>1, <2>2, CountKept DEF PatientInv
<1>4. StreamInv'
  BY <1>1, StreamKept DEF PatientInv
<1> QED BY <1>1, <1>2, <1>3, <1>4 DEF PatientInv

(* worker_fn takes an item with its client.                                 *)
LEMMA TakePatient ==
  ASSUME ServerType, OwnInv, PatientInv, NEW w \in Workers, WorkerTake(w)
  PROVE  PatientInv'
<1>1. queue \in Seq(Items) /\ wst \in [Workers -> States] /\ job \in [Workers -> Items]
  BY DEF ServerType, QueueInv, QueueType, Items
<1>2. /\ queue # <<>> /\ queue' = Tail(queue) /\ wst' = [wst EXCEPT ![w] = "process"]
      /\ wst[w] = "loop" /\ job' = [job EXCEPT ![w] = Head(queue)]
      /\ UNCHANGED <<reqs, res, cst, inflight, stream, conn, alive>>
  BY DEF WorkerTake, nvars
<1>3. /\ 1 \in DOMAIN queue
      /\ \A i \in DOMAIN queue' : i + 1 \in DOMAIN queue /\ queue'[i] = queue[i + 1]
  BY <1>1, <1>2
<1>4. /\ job'[w] = queue[1] /\ \A v \in Workers \ {w} : job'[v] = job[v]
      /\ wst'[w] = "process" /\ \A v \in Workers \ {w} : wst'[v] = wst[v]
  BY <1>1, <1>2
<1>5. ReadyInv'
  <2>1. \A n, fd : Ready(n, fd)' = Ready(n, fd)
    BY <1>2 DEF Ready, Owner
  <2>2. \A i \in DOMAIN queue' : Ready(queue'[i].n, queue'[i].fd)
    BY <1>3 DEF PatientInv, ReadyInv
  <2>3. \A v \in Workers : wst'[v] \in Working => Ready(job'[v].n, job'[v].fd)
    BY <1>3, <1>4 DEF PatientInv, ReadyInv
  <2>4. \A c \in Clients : inflight'[c] # <<>> => cst'[c] = "open"
    BY <1>2 DEF PatientInv, ReadyInv
  <2> QED BY <2>1, <2>2, <2>3, <2>4 DEF ReadyInv
<1>6. \A c \in Clients : CountInv(c)'
  <2> TAKE c \in Clients
  <2>1. Sent(c)' = Sent(c) /\ Answers(c)' = Answers(c)
    BY <1>2 DEF Sent, Answers
  <2>2. Placed(c)' \subseteq Placed(c)
    <3>1. \A n : (\E i \in DOMAIN queue' : queue'[i].n = n) => \E i \in DOMAIN queue : queue[i].n = n
      BY <1>3
    <3>2. \A n : (\E v \in Workers : job'[v].n = n) =>
                   (\E i \in DOMAIN queue : queue[i].n = n) \/ \E v \in Workers : job[v].n = n
      BY <1>3, <1>4
    <3> QED BY <1>2, <2>1, <3>1, <3>2, PlacedShrinks, Zenon
  <2> QED BY <2>1, <2>2, CountKept DEF PatientInv
<1>7. StreamInv'
  BY <1>2, <1>4, StreamKept, Zenon DEF PatientInv
<1> QED BY <1>2, <1>5, <1>6, <1>7 DEF PatientInv

(* A worker's write goes to the client that sent the request, who is there. *)
LEMMA PatientWrite ==
  ASSUME ServerType, OwnInv, PatientInv, NEW w \in Workers, wst[w] \in Working,
         NEW part, Write(job[w].fd, part)
  PROVE  /\ UNCHANGED <<cst, inflight, conn, alive>>
         /\ IF Owner(job[w].n) = Nobody THEN stream' = stream
            ELSE stream' = [stream EXCEPT ![Owner(job[w].n)] = Append(@, part)]
<1>1. Ready(job[w].n, job[w].fd)
  BY DEF PatientInv, ReadyInv
<1>2. CASE Owner(job[w].n) = Nobody
  <2>1. job[w].fd \notin Fds
    BY <1>1, <1>2, ServerAssumption DEF Ready, UDP
  <2>2. UNCHANGED nvars
    BY <2>1 DEF Write
  <2> QED BY <1>2, <2>2 DEF nvars
<1>3. CASE Owner(job[w].n) # Nobody
  <2>1. /\ job[w].fd \in Fds /\ conn[job[w].fd] = Owner(job[w].n)
        /\ cst[Owner(job[w].n)] = "open"
    BY <1>1, <1>3 DEF Ready
  <2> QED BY <1>3, <2>1 DEF Write
<1> QED BY <1>2, <1>3

(* The owner of a worker's request is a client or nobody, and a client has  *)
(* one worker at most.                                                      *)
LEMMA OneWorker ==
  ASSUME ServerType, OwnInv, PatientInv, NEW w \in Workers, wst[w] \in Working
  PROVE  /\ Owner(job[w].n) \in Clients \cup {Nobody}
         /\ Owner(job[w].n) \in Clients => job[w].n \in Placed(Owner(job[w].n))
         /\ \A v \in Workers : wst[v] \in Working /\ Owner(job[v].n) = Owner(job[w].n)
                                 /\ Owner(job[w].n) \in Clients => v = w
<1> DEFINE Rs == [client : Clients \cup {Nobody}, payload : Payloads]
<1>1. reqs \in Seq(Rs) /\ \A n \in DOMAIN reqs : n # 0
  BY DEF ServerType, QueueInv, QueueType
<1>2. \A v \in Workers : wst[v] \in Working => job[v].n \in DOMAIN reqs
  BY DEF OwnInv
<1>3. \A v \in Workers : wst[v] \in Working => reqs[job[v].n] \in Rs
  <2> HIDE DEF Rs
  <2> QED BY <1>1, <1>2
<1>4. Owner(job[w].n) \in Clients \cup {Nobody}
  BY <1>3 DEF Owner
<1>5. \A v \in Workers : wst[v] \in Working /\ Owner(job[v].n) \in Clients
                           => job[v].n \in Placed(Owner(job[v].n))
  BY <1>2 DEF Placed, Sent, Owner
<1>6. ASSUME NEW v \in Workers, wst[v] \in Working, Owner(job[v].n) = Owner(job[w].n),
             Owner(job[w].n) \in Clients
      PROVE  v = w
  <2>1. job[v].n = job[w].n
    BY <1>5, <1>6 DEF PatientInv, CountInv
  <2> QED BY <1>1, <1>2, <1>6, <2>1, Zenon DEF OwnInv
<1> QED BY <1>4, <1>5, <1>6

(* Headers are at odd places.                                               *)
LEMMA Parity == \A k \in Nat : (k + 1) % 2 = 1 <=> ~(k % 2 = 1)
OBVIOUS

(* Appending a part keeps the frames before it.                             *)
LEMMA FramesGrow ==
  ASSUME StreamInv, NEW o \in Clients, stream[o] \in Seq(Parts), NEW part \in Parts,
         stream'[o] = Append(stream[o], part),
         \A c \in Clients \ {o} : stream'[c] = stream[c],
         \A c \in Clients : Sent(c)' = Sent(c),
         part.n \in Sent(o),
         LET k == Len(stream[o])
         IN  IF (k + 1) % 2 = 1 THEN part.kind = "header"
             ELSE part = [stream[o][k] EXCEPT !.kind = "body"]
  PROVE  FrameIntegrity' /\ ReplyToOrigin'
<1> DEFINE k == Len(stream[o])
<1>1. /\ k \in Nat /\ DOMAIN stream[o] = 1 .. k /\ DOMAIN stream'[o] = 1 .. k + 1
      /\ stream'[o][k + 1] = part
      /\ \A i \in 1 .. k : stream'[o][i] = stream[o][i]
  OBVIOUS
<1> HIDE DEF k
<1>2. FrameIntegrity'
  <2> SUFFICES ASSUME NEW c \in Clients, NEW i \in DOMAIN stream'[c]
               PROVE  IF i % 2 = 1 THEN stream'[c][i].kind = "header"
                      ELSE stream'[c][i] = [stream'[c][i - 1] EXCEPT !.kind = "body"]
    BY Zenon DEF FrameIntegrity
  <2>1. CASE c # o
    BY <2>1 DEF StreamInv, FrameIntegrity
  <2>2. CASE c = o /\ i = k + 1
    <3>1. IF (k + 1) % 2 = 1 THEN part.kind = "header"
          ELSE part = [stream[o][k] EXCEPT !.kind = "body"]
      BY Zenon DEF k
    <3>2. CASE (k + 1) % 2 = 1
      BY <1>1, <2>2, <3>1, <3>2
    <3>3. CASE ~((k + 1) % 2 = 1)
      <4>1. k \in 1 .. k /\ i - 1 = k
        BY <1>1, <2>2, <3>3
      <4>2. stream'[o][i - 1] = stream[o][k]
        BY <1>1, <4>1
      <4> QED BY <1>1, <2>2, <3>1, <3>3, <4>2, Zenon
    <3> QED BY <3>2, <3>3
  <2>3. CASE c = o /\ i # k + 1
    <3>1. i \in 1 .. k /\ i \in DOMAIN stream[o]
      BY <1>1, <2>3
    <3>2. IF i % 2 = 1 THEN stream[o][i].kind = "header"
          ELSE stream[o][i] = [stream[o][i - 1] EXCEPT !.kind = "body"]
      BY <3>1 DEF StreamInv, FrameIntegrity
    <3>3. stream'[o][i] = stream[o][i]
      BY <1>1, <3>1
    <3>4. CASE i % 2 = 1
      BY <2>3, <3>2, <3>3, <3>4
    <3>5. CASE ~(i % 2 = 1)
      <4>1. i - 1 \in 1 .. k
        <5>1. i # 1
          BY <3>5
        <5> QED BY <1>1, <3>1, <5>1
      <4>2. stream'[o][i - 1] = stream[o][i - 1]
        BY <1>1, <4>1
      <4> QED BY <2>3, <3>2, <3>3, <3>5, <4>2, Zenon
    <3> QED BY <3>4, <3>5
  <2> QED BY <2>1, <2>2, <2>3
<1>3. ReplyToOrigin'
  <2> SUFFICES ASSUME NEW c \in Clients, NEW i \in DOMAIN stream'[c]
               PROVE  stream'[c][i].n \in Sent(c)
    BY DEF ReplyToOrigin
  <2>1. CASE c # o
    BY <2>1 DEF StreamInv, ReplyToOrigin
  <2>2. CASE c = o /\ i = k + 1
    BY <1>1, <2>2
  <2>3. CASE c = o /\ i # k + 1
    <3>1. i \in 1 .. k /\ i \in DOMAIN stream[o]
      BY <1>1, <2>3
    <3> QED BY <1>1, <2>3, <3>1 DEF StreamInv, ReplyToOrigin
  <2> QED BY <2>1, <2>2, <2>3
<1> QED BY <1>2, <1>3

(* send_length_prefixed, first write: the header starts a new frame.        *)
LEMMA HeaderPatient ==
  ASSUME ServerType, OwnInv, PatientInv, NEW w \in Workers, SendHeader(w)
  PROVE  PatientInv'
<1> DEFINE o == Owner(job[w].n)
           h == Part(w, "header")
<1>0. /\ wst \in [Workers -> States] /\ stream \in [Clients -> Seq(Parts)] /\ h \in Parts
      /\ h.kind = "header" /\ h.n = job[w].n
  BY PartType, Zenon DEF ServerType, QueueInv, QueueType, Part
<1>1. /\ wst[w] = "header" /\ wst[w] \in Working /\ wst' = [wst EXCEPT ![w] = "body"]
      /\ Write(job[w].fd, h) /\ UNCHANGED <<queue, job, res, reqs>>
  BY DEF SendHeader, qvars, Working
<1>2. /\ UNCHANGED <<cst, inflight, conn, alive>>
      /\ IF o = Nobody THEN stream' = stream ELSE stream' = [stream EXCEPT ![o] = Append(@, h)]
  BY <1>1, PatientWrite
<1>3. /\ o \in Clients \cup {Nobody} /\ (o \in Clients => job[w].n \in Placed(o))
      /\ \A v \in Workers : wst[v] \in Working /\ Owner(job[v].n) = o /\ o \in Clients => v = w
  BY <1>1, OneWorker
<1>4. wst'[w] = "body" /\ \A v \in Workers \ {w} : wst'[v] = wst[v]
  BY <1>0, <1>1, Zenon
<1>5. ReadyInv'
  <2>1. \A n, fd : Ready(n, fd)' = Ready(n, fd)
    BY <1>1, <1>2 DEF Ready, Owner
  <2>2. \A v \in Workers : wst'[v] \in Working => wst[v] \in Working
    BY <1>1, <1>4
  <2> QED BY <1>1, <1>2, <2>1, <2>2, Zenon DEF PatientInv, ReadyInv
<1>6. /\ \A v \in Workers : Owner(job[v].n)' = Owner(job[v].n)
      /\ \A c \in Clients : Sent(c)' = Sent(c)
      /\ \A v \in Workers : Part(v, "header")' = Part(v, "header")
  BY <1>1 DEF Owner, Sent, Part
<1> HIDE DEF o, h
<1>7. CASE o = Nobody
  <2>0. stream' = stream
    BY <1>2, <1>7, Zenon
  <2>1. \A c \in Clients : CountInv(c)'
    <3> TAKE c \in Clients
    <3>1. Answers(c)' = Answers(c)
      BY <2>0 DEF Answers
    <3>2. Placed(c)' \subseteq Placed(c)
      BY <1>1, <1>2, <1>6, PlacedShrinks
    <3> QED BY <1>6, <3>1, <3>2, CountKept, Zenon DEF PatientInv
  <2>2. StreamInv'
    <3>1. FrameIntegrity' /\ ReplyToOrigin'
      BY <1>6, <2>0 DEF PatientInv, StreamInv, FrameIntegrity, ReplyToOrigin
    <3>2. ASSUME NEW v \in Workers, NEW c \in Clients, wst'[v] = "body", Owner(job[v].n) = c
          PROVE  v # w /\ wst[v] = "body"
      <4>1. c # o
        BY <1>7, ServerAssumption
      <4> QED BY <1>4, <3>2, <4>1 DEF o
    <3>3. \A c \in Clients : Len(stream'[c]) % 2 = 1 =>
            \E v \in Workers : wst'[v] = "body" /\ Owner(job[v].n)' = c
      BY <1>1, <1>4, <1>6, <2>0, Zenon DEF PatientInv, StreamInv
    <3>4. \A v \in Workers : \A c \in Clients :
            wst'[v] = "body" /\ Owner(job[v].n)' = c =>
              Len(stream'[c]) % 2 = 1 /\ stream'[c][Len(stream'[c])] = Part(v, "header")'
      BY <1>1, <1>6, <2>0, <3>2, Zenon DEF PatientInv, StreamInv
    <3> QED BY <3>1, <3>3, <3>4, Zenon DEF StreamInv
  <2> QED BY <1>2, <1>5, <2>1, <2>2 DEF PatientInv
<1>8. CASE o # Nobody
  <2>0. /\ o \in Clients /\ stream[o] \in Seq(Parts) /\ stream'[o] = Append(stream[o], h)
        /\ \A c \in Clients \ {o} : stream'[c] = stream[c]
    BY <1>0, <1>2, <1>3, <1>8
  <2>1. ~(Len(stream[o]) % 2 = 1)
    <3> SUFFICES ASSUME Len(stream[o]) % 2 = 1 PROVE FALSE
      BY Zenon
    <3>1. PICK v \in Workers : wst[v] = "body" /\ Owner(job[v].n) = o
      BY <2>0, Zenon DEF PatientInv, StreamInv
    <3>2. v = w
      BY <1>3, <2>0, <3>1 DEF Working
    <3> QED BY <1>1, <3>1, <3>2
  <2>2. /\ Len(stream[o]) \in Nat /\ DOMAIN stream[o] = 1 .. Len(stream[o])
        /\ Len(stream'[o]) = Len(stream[o]) + 1 /\ DOMAIN stream'[o] = 1 .. Len(stream[o]) + 1
        /\ stream'[o][Len(stream[o]) + 1] = h
        /\ \A i \in DOMAIN stream[o] : stream'[o][i] = stream[o][i]
    BY <1>0, <2>0
  <2>3. Len(stream'[o]) % 2 = 1
    <3>1. Len(stream[o]) \in Nat /\ Len(stream'[o]) = Len(stream[o]) + 1
      BY <2>2, Zenon
    <3> QED BY <2>1, <3>1, Parity, Zenon
  <2>4. \A c \in Clients : CountInv(c)'
    <3> TAKE c \in Clients
    <3>1. Answers(c)' = Answers(c)
      <4>1. CASE c = o
        <5>1. \A i \in DOMAIN stream'[o] : stream'[o][i].kind = "body" <=>
                i \in DOMAIN stream[o] /\ stream[o][i].kind = "body"
          BY <1>0, <2>2
        <5>2. DOMAIN stream[o] \subseteq DOMAIN stream'[o]
          BY <2>2
        <5> QED BY <4>1, <5>1, <5>2 DEF Answers
      <4>2. CASE c # o
        BY <2>0, <4>2, Zenon DEF Answers
      <4> QED BY <4>1, <4>2
    <3>2. Placed(c)' \subseteq Placed(c)
      BY <1>1, <1>2, <1>6, PlacedShrinks
    <3> QED BY <1>6, <3>1, <3>2, CountKept DEF PatientInv
  <2>5. StreamInv'
    <3>1. FrameIntegrity' /\ ReplyToOrigin'
      <4>1. h.n \in Sent(o)
        BY <1>0, <1>3, <2>0 DEF Placed
      <4>2. (Len(stream[o]) + 1) % 2 = 1
        BY <2>2, <2>3, Zenon
      <4> QED BY <1>0, <1>6, <2>0, <4>1, <4>2, FramesGrow, Zenon DEF PatientInv
    <3>3. \A c \in Clients : Len(stream'[c]) % 2 = 1 =>
            \E v \in Workers : wst'[v] = "body" /\ Owner(job[v].n)' = c
      <4> TAKE c \in Clients
      <4>1. CASE c = o
        BY <1>1, <1>4, <1>6, <4>1 DEF o
      <4>2. CASE c # o
        BY <1>1, <1>4, <1>6, <2>0, <4>2, Zenon DEF PatientInv, StreamInv
      <4> QED BY <4>1, <4>2
    <3>4. ASSUME NEW v \in Workers, NEW c \in Clients, wst'[v] = "body", Owner(job[v].n) = c
          PROVE  Len(stream'[c]) % 2 = 1 /\ stream'[c][Len(stream'[c])] = Part(v, "header")
      <4>1. CASE v = w
        BY <2>2, <2>3, <3>4, <4>1, Zenon DEF o, h
      <4>2. CASE v # w
        <5>1. wst[v] = "body" /\ c # o
          BY <1>3, <1>4, <2>0, <3>4, <4>2 DEF Working
        <5> QED BY <2>0, <3>4, <5>1, Zenon DEF PatientInv, StreamInv
      <4> QED BY <4>1, <4>2, Zenon
    <3> QED BY <1>1, <1>6, <3>1, <3>3, <3>4, Zenon DEF StreamInv
  <2> QED BY <1>2, <1>5, <2>4, <2>5 DEF PatientInv
<1> QED BY <1>7, <1>8

(* send_length_prefixed, second write: the body follows its own header, and *)
(* the client has its answer.                                               *)
LEMMA BodyPatient ==
  ASSUME ServerType, OwnInv, PatientInv, NEW w \in Workers, SendBody(w)
  PROVE  PatientInv'
<1> DEFINE o == Owner(job[w].n)
           b == Part(w, "body")
<1>0. /\ wst \in [Workers -> States] /\ stream \in [Clients -> Seq(Parts)] /\ b \in Parts
      /\ job \in [Workers -> Items] /\ res \in [Workers -> Results]
      /\ b.kind = "body" /\ b.n = job[w].n /\ b = [Part(w, "header") EXCEPT !.kind = "body"]
  BY PartType DEF ServerType, QueueInv, QueueType, Part
<1>1. /\ wst[w] = "body" /\ wst[w] \in Working /\ wst' = [wst EXCEPT ![w] = "loop"]
      /\ job' = [job EXCEPT ![w] = NoItem] /\ res' = [res EXCEPT ![w] = None]
      /\ Write(job[w].fd, b) /\ UNCHANGED <<queue, reqs>>
  BY DEF SendBody, qvars, Working
<1>2. /\ UNCHANGED <<cst, inflight, conn, alive>>
      /\ IF o = Nobody THEN stream' = stream ELSE stream' = [stream EXCEPT ![o] = Append(@, b)]
  BY <1>1, PatientWrite, Zenon
<1>3. /\ o \in Clients \cup {Nobody} /\ (o \in Clients => job[w].n \in Placed(o))
      /\ \A v \in Workers : wst[v] \in Working /\ Owner(job[v].n) = o /\ o \in Clients => v = w
  BY <1>1, OneWorker
<1>4. /\ wst'[w] = "loop" /\ job'[w].n = 0
      /\ \A v \in Workers \ {w} : wst'[v] = wst[v] /\ job'[v] = job[v] /\ res'[v] = res[v]
  BY <1>0, <1>1, Zenon DEF NoItem, Item
<1>5. ReadyInv'
  <2>1. \A n, fd : Ready(n, fd)' = Ready(n, fd)
    BY <1>1, <1>2 DEF Ready, Owner
  <2>2. \A v \in Workers : wst'[v] \in Working => wst[v] \in Working /\ job'[v] = job[v]
    BY <1>4 DEF Working
  <2> QED BY <1>1, <1>2, <2>1, <2>2 DEF PatientInv, ReadyInv
<1>6. /\ \A v \in Workers \ {w} : /\ Owner(job[v].n)' = Owner(job[v].n)
                                  /\ Part(v, "header")' = Part(v, "header")
      /\ \A c \in Clients : Sent(c)' = Sent(c)
  BY <1>1, <1>4, Zenon DEF Owner, Sent, Part
<1>7. \A c \in Clients : Placed(c)' \subseteq Placed(c) \ {job[w].n}
  <2> SUFFICES ASSUME NEW c \in Clients, NEW n \in Placed(c)' PROVE n \in Placed(c) /\ n # job[w].n
    OBVIOUS
  <2>1. \A m \in DOMAIN reqs : m # 0
    BY DEF ServerType, QueueInv, QueueType
  <2>2. n \in Sent(c) /\ n # 0 /\ n \in DOMAIN reqs
    BY <1>6, <2>1, Zenon DEF Placed, Sent
  <2>3. CASE \E i \in DOMAIN inflight[c] : inflight[c][i] = n
    BY <2>2, <2>3 DEF Placed, OwnInv
  <2>4. CASE \E i \in DOMAIN queue : queue[i].n = n
    BY <2>2, <2>4, Zenon DEF Placed, OwnInv
  <2>5. CASE \E v \in Workers : job'[v].n = n
    <3>1. PICK v \in Workers : job'[v].n = n
      BY <2>5
    <3>2. v # w /\ job[v].n = n
      BY <1>4, <2>2, <3>1
    <3> QED BY <2>2, <3>2 DEF Placed, OwnInv
  <2> QED BY <1>1, <1>2, <2>3, <2>4, <2>5, Zenon DEF Placed
<1> HIDE DEF o, b
<1>8. ASSUME NEW v \in Workers, NEW c \in Clients, wst'[v] = "body", Owner(job[v].n)' = c
      PROVE  v # w /\ wst[v] = "body" /\ Owner(job[v].n) = c /\ c # o
  <2>1. v # w
    BY <1>4, <1>8, Zenon
  <2>2. wst[v] = "body" /\ Owner(job[v].n) = c
    BY <1>4, <1>6, <1>8, <2>1, Zenon
  <2> QED BY <1>3, <2>1, <2>2, Zenon DEF Working
<1>9. CASE o = Nobody
  <2>0. stream' = stream
    BY <1>2, <1>9
  <2>1. \A c \in Clients : CountInv(c)'
    <3> TAKE c \in Clients
    <3>1. Answers(c)' = Answers(c)
      BY <2>0 DEF Answers
    <3>2. Placed(c)' \subseteq Placed(c)
      BY <1>7, Zenon
    <3> QED BY <1>6, <3>1, <3>2, CountKept, Zenon DEF PatientInv
  <2>2. StreamInv'
    <3>1. FrameIntegrity' /\ ReplyToOrigin'
      BY <1>6, <2>0 DEF PatientInv, StreamInv, FrameIntegrity, ReplyToOrigin
    <3>2. \A c \in Clients : Len(stream'[c]) % 2 = 1 =>
            \E v \in Workers : wst'[v] = "body" /\ Owner(job[v].n)' = c
      <4> SUFFICES ASSUME NEW c \in Clients, Len(stream'[c]) % 2 = 1
                   PROVE  \E v \in Workers : wst'[v] = "body" /\ Owner(job[v].n)' = c
        BY Zenon
      <4>1. PICK v \in Workers : wst[v] = "body" /\ Owner(job[v].n) = c
        BY <2>0, Zenon DEF PatientInv, StreamInv
      <4>2. v # w
        BY <1>9, <4>1, ServerAssumption DEF o
      <4> QED BY <1>4, <1>6, <4>1, <4>2
    <3>3. \A v \in Workers : \A c \in Clients :
            wst'[v] = "body" /\ Owner(job[v].n)' = c =>
              Len(stream'[c]) % 2 = 1 /\ stream'[c][Len(stream'[c])] = Part(v, "header")'
      <4> SUFFICES ASSUME NEW v \in Workers, NEW c \in Clients,
                          wst'[v] = "body", Owner(job[v].n)' = c
                   PROVE  /\ Len(stream'[c]) % 2 = 1
                          /\ stream'[c][Len(stream'[c])] = Part(v, "header")'
        BY Zenon
      <4>1. v # w /\ wst[v] = "body" /\ Owner(job[v].n) = c /\ c # o
        BY <1>8
      <4>2. Len(stream[c]) % 2 = 1 /\ stream[c][Len(stream[c])] = Part(v, "header")
        BY <4>1, Zenon DEF PatientInv, StreamInv
      <4> QED BY <1>6, <2>0, <4>1, <4>2, Zenon
    <3> QED BY <3>1, <3>2, <3>3, Zenon DEF StreamInv
  <2> QED BY <1>2, <1>5, <2>1, <2>2 DEF PatientInv
<1>10. CASE o # Nobody
  <2>0. /\ o \in Clients /\ stream[o] \in Seq(Parts) /\ stream'[o] = Append(stream[o], b)
        /\ \A c \in Clients \ {o} : stream'[c] = stream[c]
    BY <1>0, <1>2, <1>3, <1>10
  <2>1. Len(stream[o]) % 2 = 1 /\ stream[o][Len(stream[o])] = Part(w, "header")
    BY <1>1, <2>0, Zenon DEF PatientInv, StreamInv, o
  <2>2. /\ Len(stream[o]) \in Nat /\ DOMAIN stream[o] = 1 .. Len(stream[o])
        /\ Len(stream'[o]) = Len(stream[o]) + 1 /\ DOMAIN stream'[o] = 1 .. Len(stream[o]) + 1
        /\ stream'[o][Len(stream[o]) + 1] = b
        /\ \A i \in DOMAIN stream[o] : stream'[o][i] = stream[o][i]
    BY <1>0, <2>0
  <2>3. ~((Len(stream[o]) + 1) % 2 = 1)
    <3>1. Len(stream[o]) \in Nat
      BY <2>2
    <3> QED BY <2>1, <3>1, Parity, Zenon
  <2>4. \A c \in Clients : CountInv(c)'
    <3> TAKE c \in Clients
    <3>1. CASE c # o
      <4>1. Answers(c)' = Answers(c)
        BY <2>0, <3>1 DEF Answers
      <4>2. Placed(c)' \subseteq Placed(c)
        BY <1>7
      <4> QED BY <1>6, <4>1, <4>2, CountKept DEF PatientInv
    <3>2. CASE c = o
      <4>1. Outstanding(c) = 1 /\ Placed(c)' = {}
        <5>1. job[w].n \in Placed(c) /\ Placed(c)' \subseteq Placed(c) \ {job[w].n}
          BY <1>3, <1>7, <3>2, Zenon
        <5> QED BY <5>1 DEF PatientInv, CountInv
      <4>2. Answers(c)' = Answers(c) \cup {Len(stream[c]) + 1} /\ Len(stream[c]) + 1 \notin Answers(c)
        <5>1. \A i \in DOMAIN stream'[c] : stream'[c][i].kind = "body" <=>
                i = Len(stream[c]) + 1 \/ (i \in DOMAIN stream[c] /\ stream[c][i].kind = "body")
          <6> TAKE i \in DOMAIN stream'[c]
          <6>1. CASE i = Len(stream[c]) + 1
            BY <1>0, <2>2, <3>2, <6>1, Zenon
          <6>2. CASE i # Len(stream[c]) + 1
            <7>1. i \in DOMAIN stream[c]
              BY <2>2, <3>2, <6>2
            <7>2. stream'[c][i] = stream[c][i]
              BY <2>2, <3>2, <7>1, Zenon
            <7> QED BY <6>2, <7>1, <7>2, Zenon
          <6> QED BY <6>1, <6>2
        <5>2. DOMAIN stream'[c] = DOMAIN stream[c] \cup {Len(stream[c]) + 1}
              /\ Len(stream[c]) + 1 \notin DOMAIN stream[c]
          BY <2>2, <3>2
        <5> HIDE DEF o
        <5> QED BY <5>1, <5>2 DEF Answers
      <4>3. Cardinality(Answers(c)') = Cardinality(Answers(c)) + 1
        BY <4>2, Counts, FS_AddElement, Zenon
      <4>4. Outstanding(c)' = Cardinality(Sent(c)) - Cardinality(Answers(c)')
        BY <1>6 DEF Outstanding
      <4>5. Outstanding(c) = Cardinality(Sent(c)) - Cardinality(Answers(c))
        BY DEF Outstanding
      <4>6. Cardinality(Sent(c)) \in Nat /\ Cardinality(Answers(c)) \in Nat
        BY Counts
      <4>7. Outstanding(c)' = 0
        BY <4>1, <4>3, <4>4, <4>5, <4>6
      <4> QED BY <4>1, <4>7 DEF CountInv
    <3> QED BY <3>1, <3>2, Zenon
  <2>5. StreamInv'
    <3>1. FrameIntegrity' /\ ReplyToOrigin'
      <4>1. b.n \in Sent(o)
        BY <1>0, <1>3, <2>0 DEF Placed
      <4>2. b = [stream[o][Len(stream[o])] EXCEPT !.kind = "body"]
        BY <1>0, <2>1, Zenon
      <4> QED BY <1>0, <1>6, <2>0, <2>3, <4>1, <4>2, FramesGrow, Zenon DEF PatientInv
    <3>2. \A c \in Clients : Len(stream'[c]) % 2 = 1 =>
            \E v \in Workers : wst'[v] = "body" /\ Owner(job[v].n)' = c
      <4> SUFFICES ASSUME NEW c \in Clients, Len(stream'[c]) % 2 = 1
                   PROVE  \E v \in Workers : wst'[v] = "body" /\ Owner(job[v].n)' = c
        BY Zenon
      <4>1. c # o
        BY <2>2, <2>3, Zenon
      <4>2. PICK v \in Workers : wst[v] = "body" /\ Owner(job[v].n) = c
        BY <2>0, <4>1, Zenon DEF PatientInv, StreamInv
      <4>3. v # w
        BY <4>1, <4>2 DEF o
      <4> QED BY <1>4, <1>6, <4>2, <4>3
    <3>3. \A v \in Workers : \A c \in Clients :
            wst'[v] = "body" /\ Owner(job[v].n)' = c =>
              Len(stream'[c]) % 2 = 1 /\ stream'[c][Len(stream'[c])] = Part(v, "header")'
      <4> SUFFICES ASSUME NEW v \in Workers, NEW c \in Clients,
                          wst'[v] = "body", Owner(job[v].n)' = c
                   PROVE  /\ Len(stream'[c]) % 2 = 1
                          /\ stream'[c][Len(stream'[c])] = Part(v, "header")'
        BY Zenon
      <4>1. v # w /\ wst[v] = "body" /\ Owner(job[v].n) = c /\ c # o
        BY <1>8
      <4>2. Len(stream[c]) % 2 = 1 /\ stream[c][Len(stream[c])] = Part(v, "header")
        BY <4>1, Zenon DEF PatientInv, StreamInv
      <4> QED BY <1>6, <2>0, <4>1, <4>2, Zenon
    <3> QED BY <3>1, <3>2, <3>3, Zenon DEF StreamInv
  <2> QED BY <1>2, <1>5, <2>4, <2>5 DEF PatientInv
<1> QED BY <1>9, <1>10

(* A request that is already placed, or has no client, goes into the queue. *)
LEMMA PushPatient ==
  ASSUME ServerType, OwnInv, PatientInv, NEW item \in Items, req_queue_push(item),
         UNCHANGED <<cst, stream, conn, alive>>,
         \A n \in DOMAIN reqs : n \in DOMAIN reqs' /\ reqs'[n] = reqs[n],
         \A c \in Clients : Sent(c)' = Sent(c),
         Ready(item.n, item.fd)',
         \A c \in Clients : \A i \in DOMAIN inflight'[c] :
           \E j \in DOMAIN inflight[c] : inflight'[c][i] = inflight[c][j],
         \A c \in Clients : inflight'[c] # <<>> => inflight[c] # <<>>,
         \A c \in Clients : item.n \in Sent(c) => item.n \in Placed(c)
  PROVE  PatientInv'
<1>1. PICK d \in {0, 1} : Pushed(item, d)
  BY PushShape
<1>2. /\ job' = job /\ res' = res
      /\ \A w \in Workers : wst'[w] = wst[w] \/ {wst[w], wst'[w]} \cap Working = {}
  BY PushShape, Zenon
<1>3. Len(queue) \in Nat /\ DOMAIN queue = 1 .. Len(queue)
  BY DEF ServerType, QueueInv, QueueType
<1>4. \A i \in DOMAIN queue' : queue'[i] = item \/ \E j \in DOMAIN queue : queue'[i] = queue[j]
  BY <1>1, <1>3 DEF Pushed
<1>5. ReadyInv'
  <2>1. ASSUME NEW i \in DOMAIN queue' PROVE Ready(queue[i].n, queue[i].fd)'
    <3>1. CASE queue'[i] = item
      BY <3>1, Zenon DEF Ready, Owner
    <3>2. CASE queue'[i] # item
      <4>1. PICK j \in DOMAIN queue : queue'[i] = queue[j]
        BY <1>4, <2>1, <3>2, Zenon
      <4>2. Ready(queue[j].n, queue[j].fd) /\ queue[j].n \in DOMAIN reqs
        BY Zenon DEF PatientInv, ReadyInv, OwnInv
      <4> QED BY <4>1, <4>2, Zenon DEF Ready, Owner
    <3> QED BY <3>1, <3>2, Zenon
  <2>2. ASSUME NEW w \in Workers, wst'[w] \in Working PROVE Ready(job[w].n, job[w].fd)'
    <3>1. wst[w] \in Working
      BY <1>2, <2>2, Zenon
    <3>2. Ready(job[w].n, job[w].fd) /\ job[w].n \in DOMAIN reqs
      BY <3>1, Zenon DEF PatientInv, ReadyInv, OwnInv
    <3> QED BY <1>2, <3>2, Zenon DEF Ready, Owner
  <2>3. \A c \in Clients : inflight'[c] # <<>> => cst'[c] = "open"
    BY Zenon DEF PatientInv, ReadyInv
  <2> QED BY <2>1, <2>2, <2>3, Zenon DEF ReadyInv
<1>6. \A c \in Clients : CountInv(c)'
  <2> TAKE c \in Clients
  <2>1. Answers(c)' = Answers(c)
    BY Zenon DEF Answers
  <2>2. Placed(c)' \subseteq Placed(c)
    <3>1. ASSUME NEW n \in Sent(c),
                 \/ \E i \in DOMAIN inflight'[c] : inflight'[c][i] = n
                 \/ \E i \in DOMAIN queue' : queue'[i].n = n
                 \/ \E w \in Workers : job'[w].n = n
          PROVE  n \in Placed(c)
      <4>1. CASE \E i \in DOMAIN inflight'[c] : inflight'[c][i] = n
        BY <3>1, <4>1 DEF Placed
      <4>2. CASE \E i \in DOMAIN queue' : queue'[i].n = n
        BY <1>4, <3>1, <4>2 DEF Placed
      <4>3. CASE \E w \in Workers : job'[w].n = n
        BY <1>2, <3>1, <4>3, Zenon DEF Placed
      <4> QED BY <3>1, <4>1, <4>2, <4>3, Zenon
    <3> QED BY <3>1, Zenon DEF Placed
  <2> QED BY <2>1, <2>2, CountKept DEF PatientInv
<1>7. StreamInv'
  <2>1. \A v \in Workers : wst'[v] = "body" <=> wst[v] = "body"
    BY <1>2, Zenon DEF Working
  <2> QED BY <1>2, <2>1, StreamKept DEF PatientInv
<1> QED BY <1>5, <1>6, <1>7, Zenon DEF PatientInv

(* handle_frame gives the item the descriptor of its client.                *)
LEMMA FramePatient ==
  ASSUME ServerType, OwnInv, PatientInv, NEW f \in Fds, ReadFrame(f)
  PROVE  PatientInv'
<1>1. PICK c \in Clients, n \in Nat : c = conn[f] /\ n = Head(inflight[c]) /\ inflight[c] # <<>>
  <2>1. conn[f] \in Clients /\ inflight[conn[f]] # <<>>
    BY DEF ReadFrame, ServerType, QueueInv, QueueType
  <2>2. inflight[conn[f]] \in Seq(Nat)
    BY <2>1, Zenon DEF ServerType, QueueInv, QueueType
  <2>3. Head(inflight[conn[f]]) \in Nat
    BY <2>1, <2>2
  <2> QED BY <2>1, <2>3
<1>2. /\ inflight' = [inflight EXCEPT ![c] = Tail(@)] /\ req_queue_push(Item(n, f))
      /\ UNCHANGED <<cst, stream, conn, alive, reqs>>
  BY <1>1 DEF ReadFrame
<1>3. inflight \in [Clients -> Seq(Nat)]
  BY DEF ServerType, QueueInv, QueueType
<1>4. /\ 1 \in DOMAIN inflight[c] /\ inflight[c][1] = n
      /\ \A i \in DOMAIN Tail(inflight[c]) :
           i + 1 \in DOMAIN inflight[c] /\ Tail(inflight[c])[i] = inflight[c][i + 1]
  <2>1. inflight[c] \in Seq(Nat)
    BY <1>3
  <2> QED BY <1>1, <2>1
<1>5. n \in Sent(c)
  BY <1>4 DEF OwnInv
<1>6. Item(n, f) \in Items /\ Item(n, f).n = n /\ Item(n, f).fd = f
  BY ServerAssumption DEF Item, Items
<1>7. \A d \in Clients : Sent(d)' = Sent(d)
  BY <1>2 DEF Sent
<1>8. \A d \in Clients : n \in Sent(d) => n \in Placed(d)
  <2>1. \A d \in Clients : n \in Sent(d) => d = c
    BY <1>5, Zenon DEF Sent
  <2> QED BY <1>4, <1>5, <2>1 DEF Placed
<1>9. Ready(Item(n, f).n, Item(n, f).fd)'
  <2>1. cst[c] = "open" /\ reqs[n].client = c
    BY <1>1, <1>5, Zenon DEF PatientInv, ReadyInv, Sent
  <2> QED BY <1>1, <1>2, <1>6, <2>1, ServerAssumption, Zenon DEF Ready, Owner
<1>10. \A d \in Clients : /\ inflight'[d] # <<>> => inflight[d] # <<>>
                          /\ \A i \in DOMAIN inflight'[d] :
                               \E j \in DOMAIN inflight[d] : inflight'[d][i] = inflight[d][j]
  <2> TAKE d \in Clients
  <2>1. CASE d = c
    <3>1. inflight'[d] = Tail(inflight[c])
      BY <1>2, <1>3, <2>1, Zenon
    <3> QED BY <1>1, <1>4, <2>1, <3>1, Zenon
  <2>2. CASE d # c
    <3>1. inflight'[d] = inflight[d]
      BY <1>2, <1>3, <2>2, Zenon
    <3> QED BY <3>1
  <2> QED BY <2>1, <2>2
<1> QED BY <1>2, <1>6, <1>7, <1>8, <1>9, <1>10, PushPatient, Zenon

(* A datagram has nobody to answer.                                         *)
LEMMA DatagramPatient ==
  ASSUME ServerType, OwnInv, PatientInv, NEW p \in Payloads, Datagram(p)
  PROVE  PatientInv'
<1>1. PICK n \in Nat : n = Len(reqs) + 1
  BY DEF ServerType, QueueInv, QueueType
<1>2. /\ reqs' = Append(reqs, [client |-> Nobody, payload |-> p])
      /\ req_queue_push(Item(n, UDP))
      /\ UNCHANGED <<cst, inflight, stream, conn, alive>>
  BY <1>1, Zenon DEF Datagram, nvars
<1>3. /\ n \notin DOMAIN reqs /\ reqs'[n] = [client |-> Nobody, payload |-> p]
      /\ \A m \in DOMAIN reqs : m \in DOMAIN reqs' /\ reqs'[m] = reqs[m]
      /\ \A d \in Clients : Sent(d)' = Sent(d)
  <2>1. \A d \in Clients : d # Nobody
    BY ServerAssumption
  <2>2. Nobody \in Clients \cup {Nobody}
    BY Zenon
  <2>3. /\ n \notin DOMAIN reqs /\ reqs'[n] = [client |-> Nobody, payload |-> p]
        /\ DOMAIN reqs' = DOMAIN reqs \cup {n}
        /\ \A m \in DOMAIN reqs : reqs'[m] = reqs[m]
        /\ \A d \in Clients : Sent(d)' = Sent(d) \cup IF d = Nobody THEN {n} ELSE {}
    BY <1>1, <1>2, <2>2, NewRequest
  <2>4. \A d \in Clients : Sent(d)' = Sent(d)
    BY <2>1, <2>3, Zenon
  <2> QED BY <2>3, <2>4
<1>4. Item(n, UDP) \in Items /\ Item(n, UDP).n = n /\ Item(n, UDP).fd = UDP
  BY DEF Item, Items, UDP
<1>5. Ready(Item(n, UDP).n, Item(n, UDP).fd)'
  <2>1. reqs'[n].client = Nobody
    BY <1>3
  <2> QED BY <1>4, <2>1, Zenon DEF Ready, Owner
<1>6. \A d \in Clients : n \notin Sent(d)
  BY <1>3 DEF Sent
<1> QED BY <1>2, <1>3, <1>4, <1>5, <1>6, PushPatient, Zenon

\* The request is in the queue or in the hands of a worker.
InHand(n) == (\E i \in DOMAIN queue : queue[i].n = n) \/ (\E w \in Workers : job[w].n = n)

(* A step that leaves the items alone, and each ready to be answered.       *)
LEMMA ReadyKept ==
  ASSUME OwnInv, ReadyInv, UNCHANGED <<queue, wst, job>>,
         \A n \in DOMAIN reqs : \A fd : Ready(n, fd) /\ InHand(n) => Ready(n, fd)',
         \A c \in Clients : inflight'[c] # <<>> => cst'[c] = "open"
  PROVE  ReadyInv'
<1>1. ASSUME NEW i \in DOMAIN queue' PROVE Ready(queue[i].n, queue[i].fd)'
  <2>1. PICK n, fd : n = queue[i].n /\ fd = queue[i].fd
    BY Zenon
  <2>2. n \in DOMAIN reqs /\ Ready(n, fd) /\ InHand(n)
    BY <1>1, <2>1, Zenon DEF OwnInv, ReadyInv, InHand
  <2>3. Ready(n, fd)'
    BY <2>2, Zenon
  <2>4. n = queue'[i].n /\ fd = queue'[i].fd
    BY <2>1
  <2> QED BY <2>3, <2>4 DEF Ready, Owner
<1>2. ASSUME NEW w \in Workers, wst'[w] \in Working PROVE Ready(job[w].n, job[w].fd)'
  <2>1. PICK n, fd : n = job[w].n /\ fd = job[w].fd
    BY Zenon
  <2>2. n \in DOMAIN reqs /\ Ready(n, fd) /\ InHand(n)
    BY <1>2, <2>1, Zenon DEF OwnInv, ReadyInv, InHand
  <2>3. Ready(n, fd)'
    BY <2>2, Zenon
  <2>4. n = job'[w].n /\ fd = job'[w].fd
    BY <2>1
  <2> QED BY <2>3, <2>4 DEF Ready, Owner
<1> QED BY <1>1, <1>2, Zenon DEF ReadyInv

(* net_close_conn: a descriptor is closed when no item carries it.          *)
LEMMA ClosePatient ==
  ASSUME ServerType, OwnInv, PatientInv, NEW f \in Fds, CloseConn(f)
  PROVE  PatientInv'
<1>1. PICK c \in Clients : c = conn[f]
  <2>1. conn[f] # Nobody /\ conn[f] \in Clients \cup {Nobody}
    BY DEF CloseConn, ServerType, QueueInv, QueueType
  <2> QED BY <2>1, Zenon
<1>2. /\ cst[c] = "closed" /\ conn' = [conn EXCEPT ![f] = Nobody]
      /\ inflight' = [inflight EXCEPT ![c] = <<>>]
      /\ UNCHANGED <<queue, wst, job, res, reqs, cst, stream, alive>>
  BY <1>1 DEF CloseConn, qvars, wvars
<1>3. /\ inflight \in [Clients -> Seq(Nat)] /\ conn \in [Fds -> Clients \cup {Nobody}]
  BY DEF ServerType, QueueInv, QueueType
<1>4. \A d \in Clients : inflight'[d] = inflight[d] \/ inflight'[d] = <<>>
  BY <1>2, <1>3
<1>5. \A n \in DOMAIN reqs : \A fd : Ready(n, fd) => Ready(n, fd)'
  <2> SUFFICES ASSUME NEW n \in DOMAIN reqs, NEW fd, Ready(n, fd) PROVE Ready(n, fd)'
    OBVIOUS
  <2>1. CASE Owner(n) = Nobody
    BY <1>2, <2>1, Zenon DEF Ready, Owner
  <2>2. CASE Owner(n) # Nobody
    <3>1. fd \in Fds /\ conn[fd] = Owner(n) /\ cst[Owner(n)] = "open"
      BY <2>2 DEF Ready
    <3>2. fd # f
      BY <1>1, <1>2, <3>1, Zenon
    <3>3. conn'[fd] = conn[fd]
      BY <1>2, <1>3, <3>1, <3>2, Zenon
    <3> QED BY <1>2, <2>2, <3>1, <3>3, Zenon DEF Ready, Owner
  <2> QED BY <2>1, <2>2
<1>6. ReadyInv'
  <2>1. \A d \in Clients : inflight'[d] # <<>> => cst'[d] = "open"
    BY <1>2, <1>4 DEF PatientInv, ReadyInv
  <2> QED BY <1>2, <1>5, <2>1, ReadyKept, Zenon DEF PatientInv
<1>7. \A d \in Clients : CountInv(d)'
  <2> TAKE d \in Clients
  <2>1. Sent(d)' = Sent(d) /\ Answers(d)' = Answers(d)
    BY <1>2, Zenon DEF Sent, Answers
  <2>2. Placed(d)' \subseteq Placed(d)
    BY <1>2, <1>4, <2>1, PlacedShrinks
  <2> QED BY <2>1, <2>2, CountKept DEF PatientInv
<1>8. StreamInv'
  BY <1>2, StreamKept, Zenon DEF PatientInv
<1> QED BY <1>2, <1>6, <1>7, <1>8 DEF PatientInv

(* accept gives a new client a descriptor no item carries.                  *)
LEMMA AcceptPatient ==
  ASSUME ServerType, OwnInv, PatientInv, NEW c \in Clients, Accept(c)
  PROVE  PatientInv'
<1> DEFINE free == {f \in Fds : conn[f] = Nobody}
<1>1. PICK m \in free : m = Min(free)
  <2>1. free \in SUBSET Nat /\ free # {}
    BY ServerAssumption, Zenon DEF Accept
  <2> HIDE DEF free
  <2> QED BY <2>1, MinIn, Zenon
<1>2. /\ cst[c] = "new" /\ conn' = [conn EXCEPT ![m] = c] /\ cst' = [cst EXCEPT ![c] = "open"]
      /\ UNCHANGED <<queue, wst, job, res, reqs, inflight, stream, alive>>
  BY <1>1 DEF Accept, qvars, wvars
<1>3. /\ conn \in [Fds -> Clients \cup {Nobody}] /\ cst \in [Clients -> {"new", "open", "closed"}]
      /\ reqs \in Seq([client : Clients \cup {Nobody}, payload : Payloads])
  BY DEF ServerType, QueueInv, QueueType
<1>4. \A d \in Clients : cst[d] = "open" => cst'[d] = "open"
  BY <1>2, <1>3
<1>5. ASSUME NEW n, NEW fd, Ready(n, fd) PROVE Ready(n, fd)'
  <2>1. CASE Owner(n) = Nobody
    BY <1>2, <1>5, <2>1, Zenon DEF Ready, Owner
  <2>2. CASE Owner(n) # Nobody
    <3>1. fd \in Fds /\ conn[fd] = Owner(n) /\ cst[Owner(n)] = "open"
      BY <1>5, <2>2 DEF Ready
    <3>2. fd # m /\ Owner(n) \in Clients
      BY <1>1, <1>3, <2>2, <3>1, Zenon
    <3>3. conn'[fd] = conn[fd] /\ cst'[Owner(n)] = "open"
      BY <1>2, <1>3, <1>4, <3>1, <3>2, Zenon
    <3> QED BY <1>2, <2>2, <3>1, <3>3, Zenon DEF Ready, Owner
  <2> QED BY <2>1, <2>2
<1>6. ReadyInv'
  <2>1. \A d \in Clients : inflight'[d] # <<>> => cst'[d] = "open"
    BY <1>2, <1>4 DEF PatientInv, ReadyInv
  <2> QED BY <1>2, <1>5, <2>1, ReadyKept, Zenon DEF PatientInv
<1>7. \A d \in Clients : CountInv(d)'
  <2> TAKE d \in Clients
  <2>1. Sent(d)' = Sent(d) /\ Answers(d)' = Answers(d)
    BY <1>2, Zenon DEF Sent, Answers
  <2>2. Placed(d)' \subseteq Placed(d)
    BY <1>2, <2>1, PlacedShrinks, Zenon
  <2> QED BY <2>1, <2>2, CountKept DEF PatientInv
<1>8. StreamInv'
  BY <1>2, StreamKept, Zenon DEF PatientInv
<1> QED BY <1>2, <1>6, <1>7, <1>8 DEF PatientInv

(* A client that may have one request out sends the next one when it has    *)
(* the answer to the last.                                                  *)
LEMMA SendPatient ==
  ASSUME Window <= 1, ServerType, OwnInv, PatientInv,
         NEW c \in Clients, NEW p \in Payloads, SendRequest(c, p)
  PROVE  PatientInv'
<1>1. PICK n \in Nat : n = Len(reqs) + 1
  BY DEF ServerType, QueueInv, QueueType
<1>2. /\ cst[c] = "open" /\ Outstanding(c) < Window
      /\ reqs' = Append(reqs, [client |-> c, payload |-> p])
      /\ inflight' = [inflight EXCEPT ![c] = Append(@, n)]
      /\ UNCHANGED <<queue, wst, job, res, cst, stream, conn, alive>>
  BY <1>1, Zenon DEF SendRequest, qvars, wvars
<1>3. /\ n \notin DOMAIN reqs /\ \A m \in DOMAIN reqs : m \in DOMAIN reqs' /\ reqs'[m] = reqs[m]
      /\ \A d \in Clients : Sent(d)' = Sent(d) \cup IF d = c THEN {n} ELSE {}
      /\ \A i \in DOMAIN queue : queue[i].n # n
      /\ \A w \in Workers : job[w].n # n
  BY <1>1, <1>2, NewRequest, Zenon
<1>4. inflight \in [Clients -> Seq(Nat)]
  BY Zenon DEF ServerType, QueueInv, QueueType
<1>5. /\ \A i \in DOMAIN inflight'[c] :
           \/ inflight'[c][i] = n
           \/ i \in DOMAIN inflight[c] /\ inflight'[c][i] = inflight[c][i]
      /\ \A d \in Clients \ {c} : inflight'[d] = inflight[d]
  <2>1. inflight[c] \in Seq(Nat) /\ inflight'[c] = Append(inflight[c], n)
    BY <1>2, <1>4, Zenon
  <2>2. \A i \in DOMAIN inflight'[c] :
           \/ inflight'[c][i] = n
           \/ i \in DOMAIN inflight[c] /\ inflight'[c][i] = inflight[c][i]
    BY <2>1
  <2> QED BY <1>2, <1>4, <2>2, Zenon
<1>6. ReadyInv'
  <2>1. \A m \in DOMAIN reqs : \A fd : Ready(m, fd) => Ready(m, fd)'
    BY <1>2, <1>3, Zenon DEF Ready, Owner
  <2>2. \A d \in Clients : inflight'[d] # <<>> => cst'[d] = "open"
    BY <1>2, <1>5, Zenon DEF PatientInv, ReadyInv
  <2> QED BY <1>2, <2>1, <2>2, ReadyKept, Zenon DEF PatientInv
<1>7. Answers(c)' = Answers(c) /\ \A d \in Clients : Answers(d)' = Answers(d)
  BY <1>2, Zenon DEF Answers
<1>8. CountInv(c)'
  <2>1. Outstanding(c) = 0 /\ Placed(c) = {}
    <3>1. Outstanding(c) \in {0, 1} /\ (Placed(c) # {} => Outstanding(c) = 1)
      BY DEF PatientInv, CountInv
    <3>2. Outstanding(c) < 1
      BY <1>2, <3>1, ServerAssumption
    <3> QED BY <3>1, <3>2
  <2>2. Sent(c)' = Sent(c) \cup {n} /\ n \notin Sent(c)
    BY <1>3 DEF Sent
  <2>3. Cardinality(Sent(c)') = Cardinality(Sent(c)) + 1
    BY <2>2, Counts, FS_AddElement, Zenon
  <2>4. Outstanding(c)' = Cardinality(Sent(c)') - Cardinality(Answers(c))
    BY <1>7 DEF Outstanding
  <2>5. Outstanding(c)' = 1
    <3>1. Cardinality(Sent(c)) \in Nat /\ Cardinality(Answers(c)) \in Nat
      BY Counts
    <3>2. Outstanding(c) = Cardinality(Sent(c)) - Cardinality(Answers(c))
      BY Zenon DEF Outstanding
    <3> QED BY <2>1, <2>3, <2>4, <3>1, <3>2
  <2>6. Placed(c)' \subseteq {n}
    <3> SUFFICES ASSUME NEW m \in Placed(c)', m # n PROVE FALSE
      BY Zenon
    <3>1. m \in Sent(c)
      BY <2>2, Zenon DEF Placed
    <3>2. \/ \E i \in DOMAIN inflight'[c] : inflight'[c][i] = m
          \/ \E i \in DOMAIN queue : queue[i].n = m
          \/ \E w \in Workers : job[w].n = m
      BY <1>2, Zenon DEF Placed
    <3>3. \/ \E i \in DOMAIN inflight[c] : inflight[c][i] = m
          \/ \E i \in DOMAIN queue : queue[i].n = m
          \/ \E w \in Workers : job[w].n = m
      BY <1>5, <3>2, Zenon
    <3> QED BY <2>1, <3>1, <3>3 DEF Placed
  <2> QED BY <2>5, <2>6 DEF CountInv
<1>9. ASSUME NEW d \in Clients, d # c PROVE CountInv(d)'
  <2>1. Sent(d)' = Sent(d)
    BY <1>3, <1>9, Zenon
  <2>2. inflight'[d] = inflight[d]
    BY <1>5, <1>9
  <2>3. Placed(d)' \subseteq Placed(d)
    BY <1>2, <2>1, <2>2, PlacedShrinks, Zenon
  <2> QED BY <1>7, <2>1, <2>3, CountKept DEF PatientInv
<1>10. StreamInv'
  BY <1>2, <1>3, StreamKept, Zenon DEF PatientInv
<1> QED BY <1>2, <1>6, <1>8, <1>9, <1>10, Zenon DEF PatientInv

(* A client leaves when nothing of it is left in the daemon.                *)
LEMMA LeavePatient ==
  ASSUME Patient, ServerType, OwnInv, PatientInv, NEW c \in Clients, ClientClose(c)
  PROVE  PatientInv'
<1>1. /\ Outstanding(c) = 0 /\ cst' = [cst EXCEPT ![c] = "closed"]
      /\ UNCHANGED <<queue, wst, job, res, reqs, inflight, stream, conn, alive>>
  BY DEF ClientClose, qvars, wvars
<1>2. Placed(c) = {}
  BY <1>1 DEF PatientInv, CountInv
<1>3. \A d \in Clients \ {c} : cst'[d] = cst[d]
  BY <1>1 DEF ServerType
<1>4. ASSUME NEW n \in DOMAIN reqs, NEW fd, Ready(n, fd), InHand(n) PROVE Ready(n, fd)'
  <2>1. Owner(n) # c
    BY <1>2, <1>4 DEF InHand, Placed, Sent, Owner
  <2>2. CASE Owner(n) = Nobody
    BY <1>1, <1>4, <2>2, Zenon DEF Ready, Owner
  <2>3. CASE Owner(n) # Nobody
    <3>1. fd \in Fds /\ conn[fd] = Owner(n) /\ cst[Owner(n)] = "open"
      BY <1>4, <2>3, Zenon DEF Ready
    <3>2. Owner(n) \in Clients
      BY <2>3, <3>1 DEF ServerType, QueueInv, QueueType
    <3> QED BY <1>1, <1>3, <2>1, <2>3, <3>1, <3>2, Zenon DEF Ready, Owner
  <2> QED BY <2>2, <2>3, Zenon
<1>5. ReadyInv'
  <2>1. inflight[c] = <<>>
    <3> SUFFICES ASSUME inflight[c] # <<>> PROVE FALSE
      BY Zenon
    <3>1. 1 \in DOMAIN inflight[c]
      <4>1. inflight[c] \in Seq(Nat)
        BY Zenon DEF ServerType, QueueInv, QueueType
      <4> QED BY <4>1
    <3> QED BY <1>2, <3>1 DEF OwnInv, Placed
  <2>2. \A d \in Clients : inflight'[d] # <<>> => cst'[d] = "open"
    BY <1>1, <1>3, <2>1 DEF PatientInv, ReadyInv
  <2> QED BY <1>1, <1>4, <2>2, ReadyKept, Zenon DEF PatientInv
<1>6. \A d \in Clients : CountInv(d)'
  <2> TAKE d \in Clients
  <2>1. Sent(d)' = Sent(d) /\ Answers(d)' = Answers(d)
    BY <1>1, Zenon DEF Sent, Answers
  <2>2. Placed(d)' \subseteq Placed(d)
    BY <1>1, <2>1, PlacedShrinks, Zenon
  <2> QED BY <2>1, <2>2, CountKept DEF PatientInv
<1>7. StreamInv'
  BY <1>1, StreamKept DEF PatientInv
<1> QED BY <1>1, <1>5, <1>6, <1>7, Zenon DEF PatientInv

(* Every step keeps one request of each client at most in the daemon.       *)
LEMMA PatientStep ==
  ASSUME Patient, Window <= 1, ServerType, OwnInv, PatientInv, [Next]_vars
  PROVE  PatientInv'
<1>0. wst \in [Workers -> States] /\ res \in [Workers -> Results]
  BY Zenon DEF ServerType, QueueInv, QueueType
<1>1. ASSUME NEW w \in Workers, WorkerWait(w) \/ SpuriousWakeup(w) PROVE PatientInv'
  <2>1. UNCHANGED <<queue, job, reqs, nvars, res>>
    BY <1>1 DEF WorkerWait, SpuriousWakeup, qvars
  <2>2. /\ wst[w] \in {"loop", "wait"} /\ wst'[w] \in {"loop", "wait"}
        /\ \A v \in Workers \ {w} : wst'[v] = wst[v]
    BY <1>0, <1>1 DEF WorkerWait, SpuriousWakeup
  <2>3. \A v \in Workers : /\ wst'[v] \in Working <=> wst[v] \in Working
                           /\ wst'[v] = "body" <=> wst[v] = "body"
    BY <2>2, Zenon DEF Working
  <2> QED BY <2>1, <2>3, InnerPatient, Zenon
<1>2. ASSUME NEW w \in Workers, ProcessCli(w) \/ DedupFind(w) \/ DedupPut(w) \/ LogResult(w)
      PROVE  PatientInv'
  <2>1. UNCHANGED <<queue, job, reqs, nvars>>
    BY <1>2, Zenon DEF ProcessCli, DedupFind, DedupPut, LogResult, qvars
  <2>2. /\ wst[w] \in Working \ {"body"} /\ wst'[w] \in Working \ {"body"}
        /\ \A v \in Workers \ {w} : wst'[v] = wst[v]
    <3>1. wst[w] \in Working \ {"body"}
      BY <1>2, Zenon DEF ProcessCli, DedupFind, DedupPut, LogResult, Working
    <3>2. PICK t \in Working \ {"body"} : wst' = [wst EXCEPT ![w] = t]
      BY <1>2, Zenon DEF ProcessCli, DedupFind, DedupPut, LogResult, Working
    <3> QED BY <1>0, <3>1, <3>2
  <2>3. \A v \in Workers \ {w} : res'[v] = res[v]
    <3>1. CASE ProcessCli(w)
      BY <1>0, <3>1 DEF ProcessCli
    <3>2. CASE DedupFind(w)
      BY <1>0, <3>2, Zenon DEF DedupFind
    <3>3. CASE DedupPut(w) \/ LogResult(w)
      BY <3>3, Zenon DEF DedupPut, LogResult
    <3> QED BY <1>2, <3>1, <3>2, <3>3, Zenon
  <2>4. \A v \in Workers : /\ wst'[v] \in Working <=> wst[v] \in Working
                           /\ wst'[v] = "body" <=> wst[v] = "body"
                           /\ wst[v] = "body" => res'[v] = res[v]
    BY <2>2, <2>3, Zenon
  <2> QED BY <2>1, <2>4, InnerPatient
<1>3. CASE UNCHANGED vars
  BY <1>3, InnerPatient DEF vars, qvars, wvars
<1>4. CASE Next
  <2>1. ASSUME NEW w \in Workers, Work(w) \/ SpuriousWakeup(w) PROVE PatientInv'
    BY <2>1, <1>1, <1>2, TakePatient, HeaderPatient, BodyPatient, Zenon DEF Work
  <2>2. CASE Network
    BY <2>2, FramePatient, ClosePatient, Zenon DEF Network
  <2>3. CASE Environment
    BY <2>3, AcceptPatient, SendPatient, LeavePatient, DatagramPatient, Zenon DEF Environment
  <2> QED BY <1>4, <2>1, <2>2, <2>3, Zenon DEF Next
<1> QED BY <1>3, <1>4

(* Clients that wait for each answer find the daemon's side in order.       *)
LEMMA PatientAlways ==
  ASSUME Patient, Window <= 1
  PROVE  Spec => []PatientInv
<1>1. Init => PatientInv
  <2> SUFFICES ASSUME Init PROVE PatientInv
    OBVIOUS
  <2>1. /\ DOMAIN queue = {} /\ reqs = <<>> /\ alive
        /\ \A w \in Workers : wst[w] = "loop" /\ job[w].n = 0
        /\ \A c \in Clients : inflight[c] = <<>> /\ stream[c] = <<>>
    BY DEF Init, NoItem, Item
  <2>2. ReadyInv
    BY <2>1 DEF ReadyInv, Working
  <2>3. \A c \in Clients : CountInv(c)
    <3> TAKE c \in Clients
    <3>1. Sent(c) = {} /\ Answers(c) = {} /\ Placed(c) = {}
      BY <2>1 DEF Sent, Answers, Placed
    <3>2. Cardinality({}) = 0
      BY FS_EmptySet
    <3>3. Outstanding(c) = 0
      BY <3>1, <3>2 DEF Outstanding
    <3> QED BY <3>1, <3>3 DEF CountInv
  <2>4. StreamInv
    <3>1. \A c \in Clients : DOMAIN stream[c] = {} /\ Len(stream[c]) = 0
      BY <2>1
    <3>2. FrameIntegrity /\ ReplyToOrigin
      BY <3>1 DEF FrameIntegrity, ReplyToOrigin
    <3>3. ~(0 % 2 = 1)
      OBVIOUS
    <3>4. \A c \in Clients : ~(Len(stream[c]) % 2 = 1)
      BY <3>1, <3>3, Zenon
    <3>5. \A w \in Workers : wst[w] # "body"
      BY <2>1
    <3> QED BY <3>2, <3>4, <3>5, Zenon DEF StreamInv
  <2> QED BY <2>1, <2>2, <2>3, <2>4, Zenon DEF PatientInv
<1>2. ServerType /\ OwnInv /\ PatientInv /\ [Next]_vars => PatientInv'
  BY PatientStep
<1> QED BY <1>1, <1>2, OwnAlways, PTL DEF Spec

(* What a client receives is whole frames, each header followed by its own  *)
(* body, although any worker may write to any connection and no lock        *)
(* covers the two writes of send_length_prefixed: enough is that a client   *)
(* waits for each answer before it sends again or closes.                   *)
THEOREM FramesWhole ==
  ASSUME Patient, Window <= 1
  PROVE  Spec => []FrameIntegrity
<1>1. PatientInv => FrameIntegrity
  BY Zenon DEF PatientInv, StreamInv
<1> QED BY <1>1, PatientAlways, PTL

(* Under the same condition an answer goes to the client that sent the      *)
(* request: a descriptor is not reused while an item carries it.            *)
THEOREM RepliesHome ==
  ASSUME Patient, Window <= 1
  PROVE  Spec => []ReplyToOrigin
<1>1. PatientInv => ReplyToOrigin
  BY DEF PatientInv, StreamInv
<1> QED BY <1>1, PatientAlways, PTL

=============================================================================
