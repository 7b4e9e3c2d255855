------------------------------ MODULE VtsRecv ------------------------------
(***************************************************************************)
(* The receiver thread of threads_recv.c: a named pipe and its writers,    *)
(* the epoll set, and the splitter that cuts the bytes into lines and puts *)
(* them in the ring.  The i-th byte written is the number i, or Newline.   *)
(* The ring is the queue that VtsFifo is shown to implement.               *)
(***************************************************************************)
EXTENDS Naturals, Sequences, FiniteSets

CONSTANTS
  LineSize,    \* sizeof(line)
  QueueCap,    \* messages the ring holds
  MaxWriters,  \* bound: writers that have the pipe open at a time
  MaxBytes     \* bound: bytes written

ASSUME RecvAssumption ==
  LineSize \in Nat \ {0, 1} /\ QueueCap \in Nat \ {0} /\ {MaxWriters, MaxBytes} \subseteq Nat

VARIABLES
  g_stop,
  rpc,             \* control point of thr_recv
  open, reg,       \* the thread has the pipe open; epoll watches that descriptor
  writers, came,   \* writers that have the pipe open; one came since the thread's open
  pipe, n,         \* the bytes in the pipe; how many were ever written
  buf, line,       \* what read returned and is not split yet; line[0 .. lpos - 1]
  got, hung,       \* history: all the bytes read; the pipe was closed and opened again
  lines, q, lost   \* history: the lines pushed; the ring; the lines it dropped

fdvars == <<open, reg>>
pvars == <<writers, came, pipe, n>>
svars == <<buf, line, got, hung>>
qvars == <<lines, q, lost>>
rvars == <<g_stop, rpc, fdvars, pvars, svars, qvars>>

Newline == 0

RecvInit ==
  /\ g_stop = FALSE
  /\ rpc = "none"
  /\ open = FALSE /\ reg = FALSE
  /\ writers = 0 /\ came = FALSE
  /\ pipe = <<>> /\ n = 0
  /\ buf = <<>> /\ line = <<>>
  /\ got = <<>> /\ hung = FALSE /\ lines = <<>> /\ q = <<>> /\ lost = {}

-----------------------------------------------------------------------------
(* The processes that write to the pipe.                                    *)

\* open(O_WRONLY) waits for a reader.
WriterOpen ==
  /\ open
  /\ writers < MaxWriters
  /\ writers' = writers + 1
  /\ came' = TRUE
  /\ UNCHANGED <<g_stop, rpc, fdvars, pipe, n, svars, qvars>>

\* Without a reader a write raises SIGPIPE instead, and the writer is gone.
WriterWrite ==
  /\ open
  /\ writers > 0
  /\ n < MaxBytes
  /\ n' = n + 1
  /\ \E b \in {n + 1, Newline} : pipe' = Append(pipe, b)
  /\ UNCHANGED <<g_stop, rpc, fdvars, writers, came, svars, qvars>>

\* A pipe that nobody has open keeps nothing.
Held(contents, readers, others) == IF readers \/ others > 0 THEN contents ELSE <<>>

WriterClose ==
  /\ writers > 0
  /\ writers' = writers - 1
  /\ pipe' = Held(pipe, open, writers - 1)
  /\ UNCHANGED <<g_stop, rpc, fdvars, came, n, svars, qvars>>

Writer == WriterOpen \/ WriterWrite \/ WriterClose

-----------------------------------------------------------------------------
(* The thread.                                                              *)

\* What epoll reports of a pipe: readable, and hung up.
PollIn == pipe # <<>>
PollHup == came /\ writers = 0

\* EPOLL_CTL_MOD changes an entry of the set and adds none.
EpollMod(watched) == watched

\* Faulty: the entry is changed instead of added.
EpollAdd_Mod(watched) == EpollMod(watched)

EpollAdd(watched) == TRUE

\* open_fifo_ro and EPOLL_CTL_ADD; a failure ends the thread.
RecvOpen ==
  /\ rpc = "start"
  /\ \/ rpc' = "wait" /\ open' = TRUE /\ reg' = EpollAdd(reg) /\ came' = (writers > 0)
     \/ rpc' = "gone" /\ UNCHANGED <<open, reg, came>>
  /\ UNCHANGED <<g_stop, writers, pipe, n, svars, qvars>>

\* close takes the descriptor out of the epoll set.
CloseFd ==
  /\ open' = FALSE /\ reg' = FALSE
  /\ pipe' = Held(pipe, FALSE, writers)

\* The loop's test, and the end of the thread.
RecvTest ==
  /\ rpc = "wait"
  /\ ~g_stop
  /\ rpc' = "poll"
  /\ UNCHANGED <<g_stop, fdvars, pvars, svars, qvars>>

RecvStop ==
  /\ rpc = "wait"
  /\ g_stop
  /\ rpc' = "gone"
  /\ CloseFd
  /\ UNCHANGED <<g_stop, writers, came, n, svars, qvars>>

\* epoll_wait: its time is up, or one of its two kinds of event.
RecvTimeout ==
  /\ rpc = "poll"
  /\ ~(reg /\ (PollIn \/ PollHup))
  /\ rpc' = "wait"
  /\ UNCHANGED <<g_stop, fdvars, pvars, svars, qvars>>

RecvHup ==
  /\ rpc = "poll"
  /\ reg /\ PollHup
  /\ rpc' = "reopen"
  /\ hung' = TRUE
  /\ CloseFd
  /\ UNCHANGED <<g_stop, writers, came, n, buf, line, got, qvars>>

RecvReady ==
  /\ rpc = "poll"
  /\ reg /\ PollIn /\ ~PollHup
  /\ rpc' = "read"
  /\ UNCHANGED <<g_stop, fdvars, pvars, svars, qvars>>

\* open_fifo_ro again; after a failure the thread sleeps for 100000 seconds.
RecvReopen ==
  /\ rpc = "reopen"
  /\ \/ rpc' = "wait" /\ open' = TRUE /\ came' = (writers > 0)
     \/ rpc' = "sleep" /\ UNCHANGED <<open, came>>
  /\ reg' = EpollMod(reg)
  /\ UNCHANGED <<g_stop, writers, pipe, n, svars, qvars>>

\* Faulty: it tries to open the pipe until it succeeds.
RecvWake_Retry ==
  /\ rpc = "sleep"
  /\ rpc' = "reopen"
  /\ UNCHANGED <<g_stop, fdvars, pvars, svars, qvars>>

RecvWake ==
  /\ rpc = "sleep"
  /\ rpc' = "wait"
  /\ UNCHANGED <<g_stop, fdvars, pvars, svars, qvars>>

\* read takes all there is.  EAGAIN and end of file are for a pipe with a
\* second reader: alone, the thread finds the bytes epoll reported.
RecvRead ==
  /\ rpc = "read"
  /\ IF pipe # <<>>
     THEN /\ rpc' = "split" /\ buf' = pipe /\ got' = got \o pipe /\ pipe' = <<>>
          /\ UNCHANGED <<fdvars, hung>>
     ELSE IF writers > 0
     THEN rpc' = "wait" /\ UNCHANGED <<buf, got, hung, pipe, fdvars>>
     ELSE rpc' = "reopen" /\ hung' = TRUE /\ CloseFd /\ UNCHANGED <<buf, got>>
  /\ UNCHANGED <<g_stop, writers, came, n, line, qvars>>

\* handle_line and vts_fifo_push_spsc: a full ring drops its oldest line.
handle_line(l) ==
  /\ lines' = Append(lines, l)
  /\ q' = Append(IF Len(q) < QueueCap THEN q ELSE Tail(q), Len(lines) + 1)
  /\ lost' = IF Len(q) < QueueCap THEN lost ELSE lost \cup {Head(q)}

\* Faulty: the test for a full line comes after the byte is stored.
EndsLine_Late(b) == b = Newline \/ Len(line) = LineSize

\* A newline ends a line, and so does a byte for which there is no room.
EndsLine(b) == b = Newline \/ Len(line) = LineSize - 1

\* One turn of the splitter's loop.
RecvSplit ==
  /\ rpc = "split"
  /\ buf # <<>>
  /\ buf' = Tail(buf)
  /\ rpc' = IF Len(buf) = 1 THEN "wait" ELSE "split"
  /\ IF ~EndsLine(Head(buf))
     THEN line' = Append(line, Head(buf)) /\ UNCHANGED qvars
     ELSE /\ line' = <<>>
          /\ IF line # <<>> THEN handle_line(line) ELSE UNCHANGED qvars
  /\ UNCHANGED <<g_stop, fdvars, pvars, got, hung>>

Receiver ==
  \/ RecvOpen \/ RecvTest \/ RecvStop \/ RecvTimeout \/ RecvHup \/ RecvReady
  \/ RecvReopen \/ RecvWake \/ RecvRead \/ RecvSplit

=============================================================================
