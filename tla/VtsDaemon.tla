----------------------------- MODULE VtsDaemon -----------------------------
(***************************************************************************)
(* The VTS daemon from start to exit: main.c's bootstrap, its wait for a   *)
(* signal and its shutdown, around the receiver thread (VtsRecv), the      *)
(* coordinates thread, which takes lines from the ring to the log, and the *)
(* workers' results in the same log (VtsLog).                              *)
(***************************************************************************)
EXTENDS VtsRecv, VtsLog, FiniteSetsExt

VARIABLES
  mpc,    \* control point of main
  cpc,    \* thr_coords: its loop, its drain loop, or not running
  hand,   \* the line thr_coords has popped and not yet logged, or 0
  net,    \* net_thread: not started, running, cancelled
  early   \* history: the lines in the ring or before it when g_stop was set

mvars == <<mpc, net, early>>
cvars == <<cpc, hand>>
vars == <<rvars, lvars, mvars, cvars>>

Init ==
  /\ RecvInit /\ LogInit
  /\ mpc = "recv" /\ cpc = "none" /\ hand = 0 /\ net = "none" /\ early = 0

\* main has not returned, and vts_log_write has not crashed the process.
Running == mpc # "exit" /\ lpc # "crash"

-----------------------------------------------------------------------------
(* main: vts_threads_start, the network thread, the wait.                   *)

\* pthread_create succeeds, or main returns 1 and the process ends.
StartRecv ==
  /\ mpc = "recv"
  /\ \/ mpc' = "coords" /\ rpc' = "start"
     \/ mpc' = "exit" /\ UNCHANGED rpc
  /\ UNCHANGED <<g_stop, fdvars, pvars, svars, qvars, lvars, cvars, net, early>>

StartCoords ==
  /\ mpc = "coords"
  /\ \/ mpc' = "net" /\ cpc' = "loop"
     \/ mpc' = "exit" /\ UNCHANGED cpc
  /\ UNCHANGED <<rvars, lvars, hand, net, early>>

StartNet ==
  /\ mpc = "net"
  /\ \/ mpc' = "test" /\ net' = "running"
     \/ mpc' = "exit" /\ UNCHANGED net
  /\ UNCHANGED <<rvars, lvars, cvars, early>>

\* while (!g_stop) pause(): the test and the call are two steps.
MainTest ==
  /\ mpc = "test"
  /\ mpc' = IF g_stop THEN "join" ELSE "gap"
  /\ UNCHANGED <<rvars, lvars, cvars, net, early>>

MainPause ==
  /\ mpc = "gap"
  /\ mpc' = "pause"
  /\ UNCHANGED <<rvars, lvars, cvars, net, early>>

\* SIGINT or SIGTERM: the handler sets the flag, and pause returns.
on_sig ==
  /\ Running
  /\ g_stop' = TRUE
  /\ early' = IF g_stop THEN early ELSE Len(lines)
  /\ mpc' = IF mpc = "pause" THEN "test" ELSE mpc
  /\ UNCHANGED <<rpc, fdvars, pvars, svars, qvars, lvars, cvars, net>>

\* vts_threads_join_all: g_stop is set, so that the loop before the joins is
\* not entered; the coordinates thread first, then the receiver, then the ring.
JoinCoords ==
  /\ mpc = "join"
  /\ cpc = "gone"
  /\ mpc' = "join2"
  /\ UNCHANGED <<rvars, lvars, cvars, net, early>>

JoinRecv ==
  /\ mpc = "join2"
  /\ rpc = "gone"
  /\ q' = <<>>
  /\ mpc' = "cancel"
  /\ UNCHANGED <<g_stop, rpc, fdvars, pvars, svars, lines, lost, lvars, cvars, net, early>>

\* pthread_cancel and pthread_join; the network thread waits in epoll_wait.
CancelNet ==
  /\ mpc = "cancel"
  /\ net' = "gone"
  /\ mpc' = "exit"
  /\ UNCHANGED <<rvars, lvars, cvars, early>>

Main ==
  /\ Running
  /\ \/ StartRecv \/ StartCoords \/ StartNet \/ MainTest \/ MainPause
     \/ JoinCoords \/ JoinRecv \/ CancelNet

-----------------------------------------------------------------------------
(* thr_coords: a turn takes a line and logs it.  Without a line the loop    *)
(* sleeps and tests again, and the drain loop ends.                         *)

CoordsPop ==
  /\ cpc \in {"loop", "drain"}
  /\ cpc = "loop" => ~g_stop
  /\ hand = 0 /\ lpc = "idle"
  /\ q # <<>>
  /\ hand' = Head(q) /\ q' = Tail(q)
  /\ UNCHANGED <<g_stop, rpc, fdvars, pvars, svars, lines, lost, lvars, mvars, cpc>>

CoordsLog ==
  /\ hand # 0
  /\ LogLine(hand)
  /\ hand' = 0
  /\ UNCHANGED <<rvars, mvars, cpc>>

CoordsCrash == hand # 0 /\ LogCrash /\ UNCHANGED <<rvars, mvars, cvars>>

CoordsRotate == Rotation /\ UNCHANGED <<rvars, mvars, cvars>>

\* Faulty: what is left in the ring is not logged.
CoordsStop_NoDrain ==
  /\ cpc = "loop"
  /\ hand = 0 /\ lpc = "idle"
  /\ g_stop
  /\ cpc' = "gone"
  /\ UNCHANGED <<rvars, lvars, mvars, hand>>

CoordsStop ==
  /\ cpc = "loop"
  /\ hand = 0 /\ lpc = "idle"
  /\ g_stop
  /\ cpc' = "drain"
  /\ UNCHANGED <<rvars, lvars, mvars, hand>>

CoordsDrained ==
  /\ cpc = "drain"
  /\ hand = 0 /\ lpc = "idle"
  /\ q = <<>>
  /\ cpc' = "gone"
  /\ UNCHANGED <<rvars, lvars, mvars, hand>>

Coords == CoordsPop \/ CoordsLog \/ CoordsCrash \/ CoordsRotate \/ CoordsStop \/ CoordsDrained

-----------------------------------------------------------------------------
RecvStep == Running /\ Receiver /\ UNCHANGED <<lvars, mvars, cvars>>
CoordsStep == Running /\ Coords
\* The workers run on after the network thread was cancelled.
WorkerStep ==
  /\ Running /\ net # "none"
  /\ log_write_req_result
  /\ UNCHANGED <<rvars, mvars, cvars>>
WriterStep == Running /\ Writer /\ UNCHANGED <<lvars, mvars, cvars>>

Next == Main \/ on_sig \/ RecvStep \/ CoordsStep \/ WorkerStep \/ WriterStep

\* The daemon's threads are scheduled; writers, clients and signals owe nothing.
Spec ==
  /\ Init /\ [][Next]_vars
  /\ WF_vars(Main) /\ WF_vars(RecvStep) /\ WF_vars(CoordsStep)

-----------------------------------------------------------------------------
\* The bytes the splitter has seen, and where it should have cut them.
Seen == SubSeq(got, 1, Len(got) - Len(buf))
LastNewline(p) == Max({0} \cup {i \in DOMAIN Seen : i < p /\ Seen[i] = Newline})
Cuts == {p \in DOMAIN Seen : Seen[p] = Newline \/ (p - LastNewline(p)) % LineSize = 0}
\* The cut before p; the cuts that end a line, for empty ones are not pushed;
\* and how many do up to p.
Before(p) == Max({0} \cup {c \in Cuts : c < p})
Ends == {p \in Cuts : p > Before(p) + 1}
Rank(p) == Cardinality({e \in Ends : e <= p})

(* The lines in the ring's history are what was written to the pipe, cut at *)
(* every newline and, in between, at every LineSize-th byte, which is       *)
(* dropped; empty lines are not pushed.  No byte is lost, doubled or        *)
(* reordered before the last one read, however reads and writers fall.      *)
LinesCut ==
  /\ Len(lines) = Cardinality(Ends)
  /\ \A p \in Ends : lines[Rank(p)] = [i \in 1 .. p - Before(p) - 1 |-> Before(p) + i]

(* Every byte written to the pipe is read, until the first time that all    *)
(* its writers have left, or the daemon is stopped or crashes.  After that  *)
(* time the thread's descriptor is not in the epoll set: nothing is read.   *)
BytesRead == (pipe # <<>>) ~> (pipe = <<>> \/ PollHup \/ hung \/ g_stop \/ ~Running)

Said == {said[i].line : i \in DOMAIN said}

(* threads_coords.c: "drain quickly on shutdown": when the daemon has shut  *)
(* down, every line that was in the ring when the signal came is in the     *)
(* log, or was dropped to make room; only later ones are freed unlogged.    *)
LoggedBeforeExit ==
  mpc = "exit" /\ net = "gone" => 1 .. early \subseteq Said \cup lost

(* The daemon ends once the signal has set g_stop, unless the signal came   *)
(* between main's test of the flag and pause: both threads see the flag, no *)
(* join waits for ever, and the drain loop ends though its counter stands.  *)
SignalStops == (g_stop /\ mpc \notin {"gap", "pause"}) ~> ~Running

=============================================================================
