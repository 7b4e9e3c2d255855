----------------------------- MODULE NetFraming -----------------------------
(***************************************************************************)
(* One TCP connection of net_server.c: read_from_conn cuts the bytes of a  *)
(* non-blocking, edge-triggered socket into frames, keeping a partly read  *)
(* header or payload in struct conn from one event to the next.  A byte is *)
(* a digit of base Base, and a header HEADER of them.                      *)
(***************************************************************************)
EXTENDS Integers, Sequences, SequencesExt

CONSTANTS Base, HEADER, MAX_FRAME,
          MaxBytes     \* bound: bytes a peer sends

ASSUME FramingAssumption ==
  {Base, HEADER, MAX_FRAME} \subseteq Nat \ {0} /\ Base > 1 /\ MaxBytes \in Nat

VARIABLES
  sent,          \* what the peer sends before it closes
  wire, sock,    \* the bytes on their way, and in the socket's buffer
  fin,           \* the peer's close, or its reset, has arrived
  edge,          \* epoll has an event to report
  loop,          \* the network thread is inside read_from_conn
  header, plen, payload,  \* struct conn; plen = 0: no payload expected
  frames,        \* the payloads given to req_queue_push
  open,          \* the connection is still in g_conns
  failed         \* history: a read, or the malloc for a payload, failed

cvars == <<header, plen, payload>>
vars == <<sent, wire, sock, fin, edge, loop, cvars, frames, open, failed>>

Bytes == 0 .. Base - 1

Init ==
  /\ sent \in BoundedSeq(Bytes, MaxBytes)
  /\ wire = sent /\ sock = <<>>
  /\ fin = FALSE /\ edge = FALSE /\ loop = FALSE
  /\ header = <<>> /\ plen = 0 /\ payload = <<>>
  /\ frames = <<>>
  /\ open = TRUE /\ failed = FALSE

-----------------------------------------------------------------------------
\* The kernel: bytes, then the close, arrive in order, each with an event.
Arrive(k) ==
  /\ open
  /\ k \in 1 .. Len(wire)
  /\ sock' = sock \o SubSeq(wire, 1, k)
  /\ wire' = SubSeq(wire, k + 1, Len(wire))
  /\ edge' = TRUE
  /\ UNCHANGED <<sent, fin, loop, cvars, frames, open, failed>>

ArriveFin ==
  /\ open /\ wire = <<>> /\ ~fin
  /\ fin' = TRUE /\ edge' = TRUE
  /\ UNCHANGED <<sent, wire, sock, loop, cvars, frames, open, failed>>

\* Faulty: a connection that was closed is dropped unread.
Event_HupFirst ==
  /\ open /\ edge /\ ~loop
  /\ edge' = FALSE /\ loop' = ~fin /\ open' = ~fin
  /\ UNCHANGED <<sent, wire, sock, fin, cvars, frames, failed>>

\* epoll_wait reports the connection.
Event ==
  /\ open /\ edge /\ ~loop
  /\ edge' = FALSE /\ loop' = TRUE
  /\ UNCHANGED <<sent, wire, sock, fin, cvars, frames, open, failed>>

\* ntohl of the header.
Length(h) ==
  LET value[k \in 0 .. Len(h)] == IF k = 0 THEN 0 ELSE value[k - 1] * Base + h[k]
  IN  value[Len(h)]

\* read returns as much as it was asked for, or what there is.
Take(want) == SubSeq(sock, 1, IF Len(sock) < want THEN Len(sock) ELSE want)
Left(want) == SubSeq(sock, Len(Take(want)) + 1, Len(sock))

\* conn_free: a payload half read is freed with the connection.
Drop == open' = FALSE /\ loop' = FALSE /\ payload' = <<>>

ReadHeader ==
  LET want == HEADER - Len(header)
      h == header \o Take(want)
      n == Length(h)
  IN  /\ loop /\ want > 0 /\ sock # <<>>
      /\ header' = h
      /\ sock' = Left(want)
      /\ IF Len(h) < HEADER THEN UNCHANGED <<plen, payload, loop, open, failed>>
         ELSE IF n = 0 \/ n > MAX_FRAME THEN Drop /\ UNCHANGED <<plen, failed>>
         ELSE /\ plen' = n
              /\ \/ payload' = <<>> /\ UNCHANGED <<loop, open, failed>>
                 \/ Drop /\ failed' = TRUE
      /\ UNCHANGED <<sent, wire, fin, edge, frames>>

\* Faulty: the bytes already read are asked for again.
ReadPayload_Whole ==
  LET want == plen
      p == payload \o Take(want)
  IN  /\ loop /\ Len(header) = HEADER /\ sock # <<>>
      /\ sock' = Left(want)
      /\ IF Len(p) < plen
         THEN payload' = p /\ UNCHANGED <<header, plen, frames>>
         ELSE /\ frames' = Append(frames, p)
              /\ header' = <<>> /\ plen' = 0 /\ payload' = <<>>
      /\ UNCHANGED <<sent, wire, fin, edge, loop, open, failed>>

\* Faulty: one frame is read per event.
ReadPayload_OneFrame ==
  LET want == plen - Len(payload)
      p == payload \o Take(want)
  IN  /\ loop /\ Len(header) = HEADER /\ sock # <<>>
      /\ sock' = Left(want)
      /\ IF Len(p) < plen
         THEN payload' = p /\ UNCHANGED <<header, plen, frames>>
         ELSE /\ frames' = Append(frames, p)
              /\ header' = <<>> /\ plen' = 0 /\ payload' = <<>>
      /\ loop' = (Len(p) < plen)
      /\ UNCHANGED <<sent, wire, fin, edge, open, failed>>

\* The whole payload goes to the queue, and the header is due again.
ReadPayload ==
  LET want == plen - Len(payload)
      p == payload \o Take(want)
  IN  /\ loop /\ Len(header) = HEADER /\ sock # <<>>
      /\ sock' = Left(want)
      /\ IF Len(p) < plen
         THEN payload' = p /\ UNCHANGED <<header, plen, frames>>
         ELSE /\ frames' = Append(frames, p)
              /\ header' = <<>> /\ plen' = 0 /\ payload' = <<>>
      /\ UNCHANGED <<sent, wire, fin, edge, loop, open, failed>>

\* read finds nothing: EAGAIN, or the end of the stream.
NothingToRead ==
  /\ loop /\ sock = <<>>
  /\ IF fin THEN Drop ELSE loop' = FALSE /\ UNCHANGED <<open, payload>>
  /\ UNCHANGED <<sent, wire, sock, fin, edge, header, plen, frames, failed>>

\* read fails otherwise, whatever there is in the socket.
ReadError ==
  /\ loop
  /\ Drop /\ failed' = TRUE
  /\ UNCHANGED <<sent, wire, sock, fin, edge, header, plen, frames>>

Kernel == ArriveFin \/ \E k \in 1 .. MaxBytes : Arrive(k)
read_from_conn == ReadHeader \/ ReadPayload \/ NothingToRead \/ ReadError

Next == Kernel \/ Event \/ read_from_conn

\* TCP delivers what was sent, and the network thread runs.
Spec == Init /\ [][Next]_vars /\ WF_vars(Kernel) /\ WF_vars(Event) /\ WF_vars(read_from_conn)

-----------------------------------------------------------------------------
\* Where the frame behind byte p of s ends, or p: there is no whole one, or its
\* length is refused.
Cut(s, p) ==
  LET n == Length(SubSeq(s, p + 1, p + HEADER))
  IN  IF p + HEADER > Len(s) THEN p
      ELSE IF n = 0 \/ n > MAX_FRAME \/ p + HEADER + n > Len(s) THEN p
      ELSE p + HEADER + n

\* Where the k-th frame of s ends.
Ends(s) ==
  LET end[k \in 0 .. Len(s)] == IF k = 0 THEN 0 ELSE Cut(s, end[k - 1])
  IN  end

\* The frames of a whole stream: what a reader that sees it at once would cut.
Frames(s) ==
  LET end == Ends(s)
  IN  [k \in {k \in 1 .. Len(s) : end[k] # end[k - 1]} |-> SubSeq(s, end[k - 1] + HEADER + 1, end[k])]

(* However the stream is chopped into reads, what read_from_conn has handed *)
(* over is a beginning of what the whole stream holds, and what it keeps in *)
(* struct conn is where the next frame starts: no byte is lost or shifted.  *)
FramesExact ==
  /\ IsPrefix(frames, Frames(sent))
  /\ open => Frames(header \o payload \o sock \o wire) =
               SubSeq(Frames(sent), Len(frames) + 1, Len(Frames(sent)))

(* Bytes in the socket are never forgotten: while some wait, the thread is  *)
(* reading or an event is due.  An edge is reported once only, so this      *)
(* rests on the loop going on until read says EAGAIN.                       *)
NoLostEdge == open /\ (sock # <<>> \/ fin) => loop \/ edge

(* Every whole frame of the stream is handed over before the connection is  *)
(* closed, unless a read or an allocation fails, and the connection is      *)
(* closed in the end.                                                       *)
AllFramesThenClosed == <>(~open /\ (failed \/ frames = Frames(sent)))

=============================================================================
