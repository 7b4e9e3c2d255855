-------------------------- MODULE VtsDaemonProofs --------------------------
(***************************************************************************)
(* The daemon, for any line size, ring size, number of writers, bytes and  *)
(* results and any rotation limit: what was in the ring at the signal is   *)
(* logged before the exit, and the splitter cuts the bytes where it should.*)
(***************************************************************************)
EXTENDS VtsLogProofs, FiniteSetTheorems

-----------------------------------------------------------------------------
(* The drain.                                                               *)

\* Every line is in the ring, in thr_coords's hands, logged or dropped until
\* main frees the ring, which it does after thr_coords has ended.
CoordsInv ==
  /\ early <= Len(lines)
  /\ mpc \in {"recv", "coords"} => cpc = "none"
  /\ cpc \in {"drain", "gone"} => g_stop
  /\ mpc \in {"join2", "cancel"} \/ net = "gone" => cpc = "gone"
  /\ mpc \notin {"cancel", "exit"} =>
       1 .. Len(lines) \subseteq InRing \cup {hand} \cup Said \cup lost
  /\ cpc = "gone" => 1 .. early \subseteq Said \cup lost

\* Every step of the daemon keeps the account of the lines.
LEMMA CoordsInvStep ==
  RecvType /\ DaemonType /\ CoordsInv /\ [Next]_vars => CoordsInv'
<1> SUFFICES ASSUME RecvType, DaemonType, CoordsInv, [Next]_vars
             PROVE  CoordsInv'
  OBVIOUS
<1>t. Len(lines) \in Nat
  BY DEF RecvType
<1>1. CASE RecvStep
  <2>1. UNCHANGED <<g_stop, hand, early, rot, said, mpc, cpc, net>>
    BY <1>1 DEF RecvStep, Receiver, RecvOpen, RecvTest, RecvStop, RecvTimeout,
       RecvHup, RecvReady, RecvReopen, RecvWake, RecvRead, RecvSplit, lvars, mvars, cvars
  <2>2. Said' = Said
    BY <2>1 DEF Said
  <2>3. CASE RecvSplit
    <3>1. /\ q' \in Seq(Nat) /\ \A k \in DOMAIN q' : q'[k] # 0
          /\ Len(lines') \in {Len(lines), Len(lines) + 1}
          /\ InRing \cup lost \subseteq InRing' \cup lost'
          /\ 1 .. Len(lines') \subseteq InRing' \cup 1 .. Len(lines)
          /\ lost \subseteq lost'
      BY <2>3, PushFacts
    <3>3. early' <= Len(lines')
      BY <2>1, <3>1, <1>t DEF CoordsInv, DaemonType
    <3>4. ASSUME mpc \notin {"cancel", "exit"}
          PROVE  1 .. Len(lines') \subseteq InRing' \cup {hand'} \cup Said' \cup lost'
      <4>1. 1 .. Len(lines) \subseteq InRing \cup {hand} \cup Said \cup lost
        BY <3>4 DEF CoordsInv
      <4> QED
        BY <4>1, <3>1, <2>1, <2>2
    <3>5. cpc = "gone" => 1 .. early \subseteq Said' \cup lost'
      BY <3>1, <2>2 DEF CoordsInv
    <3> QED
      BY <2>1, <2>2, <3>1, <3>3, <3>4, <3>5 DEF CoordsInv
  <2>4. CASE UNCHANGED qvars
    BY <2>1, <2>2, <2>4 DEF qvars, CoordsInv, DaemonType, InRing
  <2> QED
    BY <1>1, <2>3, <2>4 DEF RecvStep, Receiver, RecvOpen, RecvTest, RecvStop, RecvTimeout,
       RecvHup, RecvReady, RecvReopen, RecvWake, RecvRead
<1>2. CASE WriterStep \/ CoordsCrash \/ CoordsRotate \/ WorkerStep \/ UNCHANGED vars
  <2>1. /\ UNCHANGED <<g_stop, hand, early, said, mpc, cpc, net, q, lines, lost>>
        /\ rot' \in {rot, rot + 1}
    BY <1>2 DEF WriterStep, Writer, WriterOpen, WriterWrite, WriterClose, CoordsCrash, LogCrash,
       CoordsRotate, Rotation, LogStat, LogRename, LogReopen, WorkerStep, log_write_req_result,
       vars, rvars, lvars, mvars, cvars, qvars
  <2>2. Said' = Said /\ InRing' = InRing
    BY <2>1 DEF Said, InRing
  <2>3. rot' \in Nat
    BY <2>1 DEF DaemonType
  <2> QED
    BY <2>1, <2>2, <2>3 DEF CoordsInv, DaemonType
<1>3. CASE StartRecv \/ StartCoords \/ StartNet \/ MainTest \/ MainPause \/ JoinCoords \/ CancelNet
  <2>1. UNCHANGED <<g_stop, hand, early, rot, said, q, lines, lost>>
    BY <1>3 DEF StartRecv, StartCoords, StartNet, MainTest, MainPause, JoinCoords, CancelNet,
       rvars, lvars, cvars, qvars
  <2>2. Said' = Said /\ InRing' = InRing
    BY <2>1 DEF Said, InRing
  <2>4. /\ mpc \notin {"cancel", "exit"} \/ mpc' = "exit"
        /\ mpc' \in {"recv", "coords"} => cpc' = "none"
        /\ cpc' \in {"drain", "gone"} => cpc' = cpc
        /\ mpc' \in {"join2", "cancel"} \/ net' = "gone" => cpc' = "gone"
    BY <1>3 DEF StartRecv, StartCoords, StartNet, MainTest, MainPause, JoinCoords, CancelNet,
       rvars, lvars, cvars, CoordsInv
  <2> QED
    BY <2>1, <2>2, <2>4 DEF CoordsInv
<1>4. CASE JoinRecv
  <2>1. /\ UNCHANGED <<g_stop, hand, early, rot, said, lines, lost, cpc, net>>
        /\ mpc = "join2" /\ q' = <<>> /\ mpc' = "cancel"
    BY <1>4 DEF JoinRecv, lvars, cvars
  <2>2. Said' = Said
    BY <2>1 DEF Said
  <2> QED
    BY <2>1, <2>2 DEF CoordsInv, DaemonType
<1>5. CASE on_sig
  <2>1. /\ UNCHANGED <<hand, rot, said, q, lines, lost, cpc, net>>
        /\ g_stop' = TRUE
        /\ early' = IF g_stop THEN early ELSE Len(lines)
        /\ mpc' = IF mpc = "pause" THEN "test" ELSE mpc
    BY <1>5 DEF on_sig, lvars, cvars, qvars
  <2>2. Said' = Said /\ InRing' = InRing
    BY <2>1 DEF Said, InRing
  <2>3. early' <= Len(lines) /\ early' \in Nat /\ (cpc = "gone" => early' = early)
    BY <2>1, <1>t DEF CoordsInv, DaemonType
  <2> QED
    BY <2>1, <2>2, <2>3 DEF CoordsInv, DaemonType
<1>6. CASE CoordsStep /\ CoordsPop
  <2>1. /\ UNCHANGED <<g_stop, early, rot, said, lines, lost, cpc, mpc, net>>
        /\ cpc \in {"loop", "drain"} /\ hand = 0 /\ q # <<>>
        /\ hand' = Head(q) /\ q' = Tail(q)
    BY <1>6 DEF CoordsPop, lvars, mvars
  <2>2. /\ q' \in Seq(Nat) /\ \A k \in DOMAIN q' : q'[k] # 0
        /\ hand' \in Nat
    BY <2>1 DEF DaemonType
  <2>3. InRing \subseteq InRing' \cup {hand'}
    <3>1. q \in Seq(Nat) /\ q # <<>>
      BY <2>1 DEF DaemonType
    <3>2. ASSUME NEW k \in DOMAIN q, k # 1
          PROVE  k - 1 \in DOMAIN Tail(q) /\ Tail(q)[k - 1] = q[k]
      BY <3>1, <3>2
    <3>3. q[1] = Head(q)
      BY <3>1
    <3> QED
      BY <2>1, <3>2, <3>3 DEF InRing
  <2>4. Said' = Said
    BY <2>1 DEF Said
  <2>5. 0 \notin 1 .. Len(lines)
    BY <1>t
  <2> QED
    BY <2>1, <2>2, <2>3, <2>4, <2>5 DEF CoordsInv, DaemonType
<1>7. CASE CoordsStep /\ CoordsLog
  <2>1. /\ UNCHANGED <<g_stop, early, q, lines, lost, cpc, mpc, net>>
        /\ hand' = 0 /\ LogLine(hand)
    BY <1>7 DEF CoordsLog, rvars, mvars, qvars
  <2>2. said' \in Seq(Line) /\ Said' = Said \cup {hand} /\ rot' = rot
    BY <2>1, SaidFacts DEF DaemonType
  <2>3. InRing' = InRing
    BY <2>1 DEF InRing
  <2> QED
    BY <2>1, <2>2, <2>3 DEF CoordsInv, DaemonType
<1>8. CASE CoordsStep /\ (CoordsStop \/ CoordsDrained)
  <2>1. /\ UNCHANGED <<g_stop, early, rot, said, q, lines, lost, mpc, net, hand>>
        /\ mpc # "exit" /\ hand = 0
        /\ \/ cpc = "loop" /\ g_stop /\ cpc' = "drain"
           \/ cpc = "drain" /\ q = <<>> /\ cpc' = "gone"
    BY <1>8 DEF CoordsStep, Running, CoordsStop, CoordsDrained, rvars, lvars, mvars, qvars
  <2>2. Said' = Said /\ InRing' = InRing
    BY <2>1 DEF Said, InRing
  <2>3. cpc = "drain" => 1 .. early \subseteq Said \cup lost
    <3> SUFFICES ASSUME cpc = "drain" PROVE 1 .. early \subseteq Said \cup lost
      OBVIOUS
    <3>1. q = <<>> /\ mpc \notin {"cancel", "exit"}
      BY <2>1 DEF CoordsInv
    <3>2. InRing = {}
      BY <3>1 DEF InRing
    <3>3. 1 .. Len(lines) \subseteq {hand} \cup Said \cup lost
      BY <3>1, <3>2 DEF CoordsInv
    <3>4. 1 .. early \subseteq 1 .. Len(lines) /\ 0 \notin 1 .. early
      BY <1>t DEF CoordsInv, DaemonType
    <3> QED
      BY <3>3, <3>4, <2>1
  <2> QED
    BY <2>1, <2>2, <2>3 DEF CoordsInv, DaemonType
<1> QED
  BY <1>1, <1>2, <1>3, <1>4, <1>5, <1>6, <1>7, <1>8 DEF Next, Main, CoordsStep, Coords

\* The account holds at the start.
LEMMA CoordsStart == Init => CoordsInv
<1> SUFFICES ASSUME Init PROVE CoordsInv
  OBVIOUS
<1>1. 1 .. Len(lines) = {} /\ Len(lines) = 0
  BY DEF Init, RecvInit
<1> QED
  BY <1>1 DEF Init, RecvInit, CoordsInv

\* The types and the account of the lines, always.
LEMMA DaemonAlways == Spec => [](RecvType /\ DaemonType /\ CoordsInv)
BY TypesAlways, CoordsStart, CoordsInvStep, PTL DEF Spec

\* "drain quickly on shutdown" (threads_coords.c): after a regular exit every
\* line that was in the ring at the signal is logged or was dropped.
THEOREM DrainsAll == Spec => []LoggedBeforeExit
<1>1. DaemonType /\ CoordsInv => LoggedBeforeExit
  BY DEF CoordsInv, LoggedBeforeExit
<1> QED
  BY <1>1, DaemonAlways, PTL

-----------------------------------------------------------------------------
(* The splitter.                                                            *)

\* What is in the pipe follows what was read while epoll watches it, for it is
\* closed, and may lose bytes, only when it is watched no more; and what is in
\* buf is the end of what was read.
FeedInv ==
  /\ mpc = "recv" => rpc = "none"
  /\ rpc \in {"none", "start"} => ~open /\ n = 0 /\ got = <<>> /\ pipe = <<>>
  /\ rpc = "read" => reg
  /\ reg => /\ open /\ Len(got) + Len(pipe) = n
            /\ \A i \in DOMAIN pipe : pipe[i] \in {Len(got) + i, Newline}
  /\ rpc # "split" => buf = <<>>
  /\ \A i \in DOMAIN got : got[i] \in {i, Newline}
  /\ Len(buf) <= Len(got)
  /\ \A i \in DOMAIN buf : buf[i] = got[Len(got) - Len(buf) + i]

\* Where the line in hand begins, after the latest cut.
Begin == Len(Seen) - Len(line)

\* The line in hand is what came since the latest cut, and that is a multiple of
\* LineSize after the latest newline.
SplitInv ==
  /\ LinesCut
  /\ Len(line) < LineSize
  /\ Begin \in Cuts \cup {0} /\ \A c \in Cuts : c <= Begin
  /\ \A i \in 1 .. Len(line) : line[i] = Begin + i
  /\ LastNewline(Len(Seen) + 1) \in Nat
  /\ \E k \in Nat : Begin = LastNewline(Len(Seen) + 1) + k * LineSize

\* An upper bound in a set of numbers is its Max.
LEMMA MaxIs ==
  ASSUME NEW S, S \subseteq Nat, NEW m \in S, \A y \in S : y <= m
  PROVE  Max(S) = m
<1>1. m \in S /\ \A y \in S : m >= y
  <2>1. \A y \in S : y \in Nat /\ m \in Nat
    BY Zenon
  <2> QED
    BY <2>1
<1>2. Max(S) \in S /\ \A y \in S : Max(S) >= y
  BY <1>1, Zenon DEF Max
<1>3. Max(S) \in Nat /\ m \in Nat /\ Max(S) >= m /\ m >= Max(S)
  BY <1>1, <1>2, Zenon
<1> QED
  BY <1>3

\* EndsLine's test of the room in line is the reference's test of the position.
LEMMA CutEvery ==
  ASSUME NEW z \in Nat, NEW k \in Nat, NEW w \in 0 .. LineSize - 1
  PROVE  (z + k * LineSize + w + 1 - z) % LineSize = 0 <=> w = LineSize - 1
<1>0. LineSize \in Nat /\ LineSize > 1
  BY RecvAssumption
<1>1. k * LineSize \in Nat
  BY <1>0
<1>2. z + k * LineSize + w + 1 - z = k * LineSize + (w + 1)
  BY <1>0, <1>1
<1>3. CASE w = LineSize - 1
  <2>1. k * LineSize + (w + 1) = (k + 1) * LineSize
    BY <1>0, <1>3
  <2> QED
    BY <1>0, <1>2, <1>3, <2>1
<1>4. CASE w # LineSize - 1
  <2>1. w + 1 \in 1 .. LineSize - 1
    BY <1>0, <1>4
  <2>2. (k * LineSize + (w + 1)) % LineSize = w + 1
    BY <1>0, <1>1, <2>1
  <2> QED
    BY <1>0, <1>2, <1>4, <2>1, <2>2
<1> QED
  BY <1>3, <1>4

\* The splitter's next byte: one more is seen, and it has its number.
LEMMA ByteSeen ==
  ASSUME RecvType, FeedInv, RecvSplit
  PROVE  LET b == Head(buf) w == Len(Seen) IN
         /\ w \in Nat /\ Seen \in Seq(Nat) /\ DOMAIN Seen = 1 .. w
         /\ b \in {w + 1, Newline} /\ Len(Seen') = w + 1 /\ DOMAIN Seen' = 1 .. w + 1
         /\ Seen'[w + 1] = b /\ \A i \in 1 .. w : Seen'[i] = Seen[i]
<1> DEFINE m == Len(got) - Len(buf)
<1>1. /\ got \in Seq(Nat) /\ buf \in Seq(Nat) /\ buf # <<>> /\ Len(buf) <= Len(got)
      /\ buf' = Tail(buf) /\ got' = got
  BY DEF RecvType, FeedInv, RecvSplit
<1>2. m \in Nat /\ m + 1 <= Len(got) /\ Len(got) \in Nat /\ Len(got') - Len(buf') = m + 1
  BY <1>1
<1>3. Head(buf) = got[m + 1]
  <2>1. 1 \in DOMAIN buf /\ Head(buf) = buf[1]
    BY <1>1
  <2> QED
    BY <2>1 DEF FeedInv
<1>4. got[m + 1] \in {m + 1, Newline}
  BY <1>1, <1>2 DEF FeedInv
<1>5. Seen = SubSeq(got, 1, m) /\ Seen' = SubSeq(got, 1, m + 1)
  BY <1>1, <1>2 DEF Seen
<1> HIDE DEF m
<1>6. /\ SubSeq(got, 1, m) \in Seq(Nat) /\ Len(SubSeq(got, 1, m)) = m
      /\ DOMAIN SubSeq(got, 1, m) = 1 .. m /\ \A i \in 1 .. m : SubSeq(got, 1, m)[i] = got[i]
  BY <1>1, <1>2
<1>7. /\ Len(SubSeq(got, 1, m + 1)) = m + 1 /\ DOMAIN SubSeq(got, 1, m + 1) = 1 .. m + 1
      /\ \A i \in 1 .. m + 1 : SubSeq(got, 1, m + 1)[i] = got[i]
  BY <1>1, <1>2
<1>8. m + 1 \in 1 .. m + 1 /\ \A i \in 1 .. m : i \in 1 .. m + 1
  BY <1>2
<1> QED
  BY <1>2, <1>3, <1>4, <1>5, <1>6, <1>7, <1>8

\* The cuts after the next byte: those before it, and that byte if EndsLine.
LEMMA CutsAfter ==
  ASSUME RecvType, FeedInv, SplitInv, RecvSplit
  PROVE  LET b == Head(buf) w == Len(Seen) IN
         /\ Cuts' = Cuts \cup IF EndsLine(b) THEN {w + 1} ELSE {}
         /\ Cuts \subseteq 1 .. w
         /\ b # Newline => LastNewline(Len(Seen) + 1)' = LastNewline(w + 1)
         /\ b = Newline => LastNewline(Len(Seen) + 1)' = w + 1
<1>0. PICK b, w, v : b = Head(buf) /\ w = Len(Seen) /\ v = Len(Seen) + 1
  BY Zenon
<1>1. /\ w \in Nat /\ v = w + 1 /\ v \in Nat /\ Seen \in Seq(Nat) /\ DOMAIN Seen = 1 .. w
      /\ b \in {v, Newline} /\ Len(Seen') = v /\ DOMAIN Seen' = 1 .. v
      /\ Seen'[v] = b /\ \A i \in 1 .. w : Seen'[i] = Seen[i]
  BY <1>0, ByteSeen
<1>2. ASSUME NEW p \in 1 .. v PROVE LastNewline(p)' = LastNewline(p)
  <2>1. \A i : i \in 1 .. v /\ i < p <=> i \in 1 .. w /\ i < p
    BY <1>1
  <2>2. {i \in 1 .. v : i < p /\ Seen'[i] = Newline} = {i \in 1 .. w : i < p /\ Seen[i] = Newline}
    BY <1>1, <2>1, Zenon
  <2> QED
    BY <1>1, <2>2, Zenon DEF LastNewline
<1>3. ASSUME NEW p \in 1 .. w PROVE p \in Cuts' <=> p \in Cuts
  <2>1. p \in 1 .. v
    BY <1>1
  <2> QED
    BY <1>1, <1>2, <2>1, Zenon DEF Cuts, Newline
<1>4. v \in Cuts' <=> b = Newline \/ (v - LastNewline(v)) % LineSize = 0
  <2>1. v \in 1 .. v
    BY <1>1
  <2>2. LastNewline(v)' = LastNewline(v)
    BY <1>2, <2>1, Zenon
  <2>3. v \in DOMAIN Seen' /\ Seen'[v] = b
    BY <1>1, <2>1, Zenon
  <2>4. v \in Cuts' <=> Seen'[v] = Newline \/ (v - LastNewline(v)') % LineSize = 0
    BY <2>3, Zenon DEF Cuts
  <2>5. (v - LastNewline(v)') % LineSize = (v - LastNewline(v)) % LineSize
    BY <2>2, Zenon
  <2> QED
    BY <2>3, <2>4, <2>5, Zenon
<1>5. (v - LastNewline(v)) % LineSize = 0 <=> Len(line) = LineSize - 1
  <2>1. PICK k \in Nat : Begin = LastNewline(v) + k * LineSize
    BY <1>0 DEF SplitInv
  <2>2. LastNewline(v) \in Nat /\ LineSize \in Nat /\ Len(line) \in 0 .. LineSize - 1 /\ Len(line) \in Nat
    BY <1>0, RecvAssumption DEF SplitInv, RecvType
  <2>3. w = LastNewline(v) + k * LineSize + Len(line)
    BY <1>0, <1>1, <2>1, <2>2 DEF Begin
  <2> DEFINE z == LastNewline(v)
  <2>4. v - z = z + k * LineSize + Len(line) + 1 - z
    BY <1>1, <2>2, <2>3
  <2>5. (z + k * LineSize + Len(line) + 1 - z) % LineSize = 0 <=> Len(line) = LineSize - 1
    BY <2>2, CutEvery, Zenon
  <2> QED
    BY <2>4, <2>5, Zenon
<1>6. v \in Cuts' <=> EndsLine(b)
  BY <1>4, <1>5, Zenon DEF EndsLine
<1>7. Cuts \subseteq 1 .. w /\ Cuts' \subseteq 1 .. v
  BY <1>1, Zenon DEF Cuts
<1>8. Cuts' = Cuts \cup IF EndsLine(b) THEN {v} ELSE {}
  <2>1. \A p \in 1 .. v : p \in 1 .. w \/ p = v
    BY <1>1
  <2>2. v \notin Cuts /\ \A p \in 1 .. w : p # v /\ p \in 1 .. v
    BY <1>1, <1>7
  <2> QED
    BY <1>3, <1>6, <1>7, <2>1, <2>2, Zenon
<1>9. LastNewline(Len(Seen) + 1)' = Max({0} \cup {i \in 1 .. v : Seen'[i] = Newline})
  <2>1. {i \in 1 .. v : i < Len(Seen') + 1 /\ Seen'[i] = Newline} = {i \in 1 .. v : Seen'[i] = Newline}
    BY <1>1
  <2> QED
    BY <1>1, <2>1, Zenon DEF LastNewline
<1>10. LastNewline(v) = Max({0} \cup {i \in 1 .. w : Seen[i] = Newline})
  <2>1. {i \in 1 .. w : i < v /\ Seen[i] = Newline} = {i \in 1 .. w : Seen[i] = Newline}
    BY <1>1
  <2> QED
    BY <1>1, <2>1, Zenon DEF LastNewline
<1>11. CASE b # Newline
  <2>1. {i \in 1 .. v : Seen'[i] = Newline} = {i \in 1 .. w : Seen[i] = Newline}
    <3>1. \A i : i \in 1 .. v <=> i \in 1 .. w \/ i = v
      BY <1>1
    <3> QED
      BY <1>1, <1>11, <3>1, Zenon
  <2> QED
    BY <1>0, <1>7, <1>8, <1>9, <1>10, <1>11, <2>1, Zenon
<1>12. CASE b = Newline
  <2> DEFINE S == {0} \cup {i \in 1 .. v : Seen'[i] = Newline}
  <2>1. S \subseteq Nat /\ v \in S /\ \A y \in S : y <= v
    BY <1>1, <1>12
  <2> HIDE DEF S
  <2>2. Max(S) = v
    BY <2>1, MaxIs, Zenon
  <2> QED
    BY <1>0, <1>7, <1>8, <1>9, <1>12, <2>2, Zenon DEF S
<1> QED
  BY <1>11, <1>12, Zenon

\* The numbers up to w, and the next.
LEMMA NextNumber ==
  ASSUME NEW w \in Nat, NEW v, v = w + 1
  PROVE  /\ v \in 1 .. v /\ \A p \in 1 .. v : ~(v < p)
         /\ \A p \in 1 .. w : p \in 1 .. v /\ p # v /\ p <= v /\ ~(v <= p) /\ p <= p
         /\ v <= v /\ 0 \in Nat /\ 0 <= 0
         /\ \A p \in 1 .. w : p \in Nat /\ p < v /\ 0 <= p
OBVIOUS

\* A cut at v, behind all others, leaves the ones before as they are, and ends a
\* line if the one in hand is not empty.
LEMMA EndsAfter ==
  ASSUME NEW w \in Nat, NEW v, v = w + 1, Cuts \subseteq 1 .. w, Cuts' = Cuts \cup {v},
         NEW m, m \in Cuts \cup {0}, \A c \in Cuts : c <= m
  PROVE  /\ \A p \in 1 .. v : Before(p)' = Before(p)
         /\ Before(v) = m
         /\ Ends \subseteq 1 .. w
         /\ Ends' = Ends \cup IF v > m + 1 THEN {v} ELSE {}
<1>1. ASSUME NEW p \in 1 .. v PROVE Before(p)' = Before(p)
  <2>1. ~(v < p)
    BY NextNumber, Zenon
  <2>2. {c \in Cuts' : c < p} = {c \in Cuts : c < p}
    BY <2>1, Zenon
  <2> QED
    BY <2>2, Zenon DEF Before
<1>2. Before(v) = m
  <2> DEFINE S == {0} \cup {c \in Cuts : c < v}
  <2>0. 0 \in Nat /\ 0 <= 0 /\ \A p \in 1 .. w : p \in Nat /\ p < v /\ 0 <= p
    BY NextNumber, Zenon
  <2>1. S \subseteq Nat /\ m \in S /\ \A y \in S : y <= m
    BY <2>0, Zenon
  <2> HIDE DEF S
  <2>2. Max(S) = m
    BY <2>1, MaxIs, Zenon
  <2> QED
    BY <2>2, Zenon DEF Before, S
<1>3. Ends \subseteq 1 .. w
  BY Zenon DEF Ends
<1>4. v \in 1 .. v /\ \A p \in 1 .. w : p \in 1 .. v /\ p # v
  BY NextNumber, Zenon
<1>5. Before(v)' = m
  BY <1>1, <1>2, <1>4, Zenon
<1>6. ASSUME NEW p PROVE p \in Ends' <=> p \in Ends \/ (p = v /\ v > m + 1)
  <2>1. p \in Ends' <=> p \in Cuts' /\ p > Before(p)' + 1
    BY Zenon DEF Ends
  <2>2. p \in Ends <=> p \in Cuts /\ p > Before(p) + 1
    BY Zenon DEF Ends
  <2>3. CASE p = v
    BY <1>3, <1>4, <1>5, <2>1, <2>3, Zenon
  <2>4. CASE p \in Cuts
    <3>1. Before(p)' = Before(p) /\ p # v
      BY <1>1, <1>4, <2>4, Zenon
    <3> QED
      BY <2>1, <2>2, <2>4, <3>1, Zenon
  <2>5. CASE p # v /\ p \notin Cuts
    BY <2>1, <2>2, <2>5, Zenon
  <2> QED
    BY <2>3, <2>4, <2>5, Zenon
<1> QED
  BY <1>1, <1>2, <1>3, <1>6, Zenon

\* A line that ends behind all others is the next one.
LEMMA RankAfter ==
  ASSUME NEW w \in Nat, NEW v, v = w + 1, Ends \subseteq 1 .. w, Ends' = Ends \cup {v}
  PROVE  /\ Cardinality(Ends) \in Nat /\ Cardinality(Ends') = Cardinality(Ends) + 1
         /\ Rank(v)' = Cardinality(Ends) + 1
         /\ \A p \in Ends : Rank(p)' = Rank(p) /\ Rank(p) \in 1 .. Cardinality(Ends)
<1>1. IsFiniteSet(Ends)
  <2>1. IsFiniteSet(1 .. w)
    BY FS_Interval
  <2> QED
    BY <2>1, FS_Subset, Zenon
<1>0. v <= v /\ \A p \in 1 .. w : p # v /\ p <= v /\ ~(v <= p) /\ p <= p
  BY NextNumber, Zenon
<1>2. v \notin Ends /\ \A p \in Ends : p \in 1 .. w /\ p <= v /\ ~(v <= p) /\ p <= p
  BY <1>0, Zenon
<1>3. Cardinality(Ends) \in Nat /\ Cardinality(Ends \cup {v}) = Cardinality(Ends) + 1
  BY <1>1, <1>2, FS_AddElement, FS_CardinalityType
<1>4. {e \in Ends' : e <= v} = Ends \cup {v}
  BY <1>0, <1>2, Zenon
<1>5. Rank(v)' = Cardinality(Ends) + 1
  BY <1>3, <1>4, Zenon DEF Rank
<1>6. ASSUME NEW p \in Ends PROVE Rank(p)' = Rank(p) /\ Rank(p) \in 1 .. Cardinality(Ends)
  <2> DEFINE S == {e \in Ends : e <= p}
  <2>1. {e \in Ends' : e <= p} = S
    BY <1>2, Zenon
  <2>2. p \in S /\ S \subseteq Ends
    BY <1>2, Zenon
  <2>3. IsFiniteSet(S) /\ Cardinality(S) <= Cardinality(Ends)
    BY <1>1, <2>2, FS_Subset, Zenon
  <2>4. Rank(p)' = Cardinality(S) /\ Rank(p) = Cardinality(S)
    BY <2>1, Zenon DEF Rank
  <2> HIDE DEF S
  <2>5. Cardinality(S) \in Nat /\ Cardinality(S) # 0
    BY <2>2, <2>3, FS_CardinalityType, FS_EmptySet, Zenon
  <2> QED
    BY <1>3, <2>3, <2>4, <2>5
<1> QED
  BY <1>3, <1>5, <1>6, Zenon

\* Without a new cut or line, the lines are the same.
LEMMA CutsCalm ==
  ASSUME LinesCut, Cuts' = Cuts, lines' = lines
  PROVE  LinesCut'
<1>1. ASSUME NEW p PROVE Before(p)' = Before(p)
  BY Zenon DEF Before
<1>2. Ends' = Ends
  BY <1>1, Zenon DEF Ends
<1>3. ASSUME NEW p PROVE Rank(p)' = Rank(p)
  BY <1>2, Zenon DEF Rank
<1> QED
  BY <1>1, <1>2, <1>3, Zenon DEF LinesCut

\* A step that keeps the bytes seen, the line in hand and the lines pushed.
LEMMA SplitCalm ==
  ASSUME SplitInv, Seen' = Seen, line' = line, lines' = lines
  PROVE  SplitInv'
<1>1. ASSUME NEW p PROVE LastNewline(p)' = LastNewline(p)
  BY Zenon DEF LastNewline
<1>2. Cuts' = Cuts
  BY <1>1, Zenon DEF Cuts
<1>3. Begin' = Begin
  BY Zenon DEF Begin
<1>4. LastNewline(Len(Seen) + 1)' = LastNewline(Len(Seen) + 1)
  BY Zenon DEF LastNewline
<1>5. LinesCut'
  BY <1>2, CutsCalm, Zenon DEF SplitInv
<1> QED
  BY <1>2, <1>3, <1>4, <1>5, Zenon DEF SplitInv

\* The splitter's turn cuts where the reference does.
LEMMA SplitTurn ==
  ASSUME RecvType, FeedInv, SplitInv, RecvSplit
  PROVE  SplitInv'
<1>0. PICK b, w, v : b = Head(buf) /\ w = Len(Seen) /\ v = w + 1
  BY Zenon
<1>1. w \in Nat /\ v \in Nat /\ v = w + 1 /\ b \in {v, Newline} /\ Len(Seen') = v
  BY <1>0, ByteSeen
<1>2. /\ Cuts' = Cuts \cup IF EndsLine(b) THEN {v} ELSE {}
      /\ Cuts \subseteq 1 .. w
      /\ b # Newline => LastNewline(Len(Seen) + 1)' = LastNewline(v)
      /\ b = Newline => LastNewline(Len(Seen) + 1)' = v
  BY <1>0, CutsAfter, Zenon
<1>3. /\ line \in Seq(Nat) /\ Len(line) \in Nat /\ lines \in Seq(Seq(Nat))
      /\ LineSize \in Nat /\ LineSize > 1
  BY RecvAssumption DEF RecvType
<1>4. PICK m : m = Begin
  BY Zenon
<1>5. /\ LinesCut /\ Len(line) < LineSize /\ m \in Cuts \cup {0} /\ \A c \in Cuts : c <= m
      /\ \A i \in 1 .. Len(line) : line[i] = m + i
      /\ LastNewline(v) \in Nat
  BY <1>0, <1>4, Zenon DEF SplitInv
<1>6. PICK k \in Nat : m = LastNewline(v) + k * LineSize
  BY <1>0, <1>4, Zenon DEF SplitInv
<1>7. m \in Nat /\ w = m + Len(line)
  <2>1. m = w - Len(line)
    BY <1>0, <1>4, Zenon DEF Begin
  <2>2. m \in Nat
    BY <1>1, <1>2, <1>5
  <2> QED
    BY <1>1, <1>3, <2>1, <2>2
<1>8. CASE ~EndsLine(b)
  <2>1. line' = Append(line, b) /\ lines' = lines /\ Cuts' = Cuts
    BY <1>0, <1>2, <1>8 DEF RecvSplit, qvars
  <2>2. b = v /\ b # Newline /\ Len(line) # LineSize - 1
    BY <1>1, <1>8, Zenon DEF EndsLine
  <2>3. /\ Len(line') = Len(line) + 1 /\ line'[Len(line) + 1] = v
        /\ \A i \in 1 .. Len(line) : line'[i] = line[i]
    BY <1>1, <1>3, <2>1, <2>2
  <2>4. \A i \in 1 .. Len(line') : line'[i] = m + i
    <3>1. \A i \in 1 .. Len(line) + 1 : i \in 1 .. Len(line) \/ i = Len(line) + 1
      BY <1>3
    <3>2. v = m + (Len(line) + 1)
      BY <1>1, <1>3, <1>7
    <3> QED
      BY <1>5, <2>3, <3>1, <3>2, Zenon
  <2>5. Begin' = m /\ Len(line') < LineSize
    BY <1>1, <1>3, <1>5, <1>7, <2>2, <2>3 DEF Begin
  <2>6. LinesCut'
    BY <1>5, <2>1, CutsCalm, Zenon
  <2> QED
    BY <1>2, <1>5, <1>6, <2>1, <2>2, <2>4, <2>5, <2>6, Zenon DEF SplitInv
<1>9. CASE EndsLine(b)
  <2>1. line' = <<>> /\ Cuts' = Cuts \cup {v}
    BY <1>0, <1>2, <1>9 DEF RecvSplit
  <2>2. Len(line') = 0 /\ Begin' = v
    BY <1>1, <2>1 DEF Begin
  <2>3. \A c \in Cuts' : c <= v
    BY <1>1, <1>2, <2>1
  <2>4. LastNewline(Len(Seen) + 1)' \in Nat /\ \E j \in Nat : v = LastNewline(Len(Seen) + 1)' + j * LineSize
    <3>1. CASE b = Newline
      <4>1. v = v + 0 * LineSize /\ 0 \in Nat
        BY <1>1, <1>3
      <4> QED
        BY <1>1, <1>2, <3>1, <4>1, Zenon
    <3>2. CASE b # Newline
      <4>1. Len(line) = LineSize - 1
        BY <1>9, <3>2, Zenon DEF EndsLine
      <4>2. k + 1 \in Nat /\ (k + 1) * LineSize = k * LineSize + LineSize /\ k * LineSize \in Nat
        BY <1>3
      <4>3. v = LastNewline(v) + (k + 1) * LineSize
        <5>1. v = m + LineSize
          BY <1>1, <1>3, <1>7, <4>1
        <5>2. LastNewline(v) + (k * LineSize + LineSize) = (LastNewline(v) + k * LineSize) + LineSize
          <6>1. LastNewline(v) \in Nat
            BY <1>5, Zenon
          <6> QED
            BY <1>3, <4>2, <6>1
        <5> QED
          BY <1>6, <4>2, <5>1, <5>2, Zenon
      <4> QED
        BY <1>2, <1>5, <3>2, <4>2, <4>3, Zenon
    <3> QED
      BY <3>1, <3>2, Zenon
  <2>5. /\ \A p \in 1 .. v : Before(p)' = Before(p)
        /\ Before(v) = m
        /\ Ends \subseteq 1 .. w
        /\ Ends' = Ends \cup IF v > m + 1 THEN {v} ELSE {}
    BY <1>1, <1>2, <1>5, <2>1, EndsAfter, Zenon
  <2>6. \A p \in 1 .. w : p \in 1 .. v
    BY <1>1, NextNumber, Zenon
  <2>7. LinesCut'
    <3>1. CASE line = <<>>
      <4>1. lines' = lines /\ ~(v > m + 1)
        BY <1>0, <1>1, <1>3, <1>7, <1>9, <3>1 DEF RecvSplit, qvars
      <4>2. Ends' = Ends
        BY <2>5, <4>1, Zenon
      <4>3. \A p \in Ends : Before(p)' = Before(p) /\ Rank(p)' = Rank(p)
        BY <2>5, <2>6, <4>2, Zenon DEF Rank
      <4> QED
        BY <1>5, <4>1, <4>2, <4>3, Zenon DEF LinesCut
    <3>2. CASE line # <<>>
      <4>1. lines' = Append(lines, line)
        BY <1>0, <1>9, <3>2 DEF RecvSplit, handle_line
      <4>2. Len(line) # 0 /\ v > m + 1
        BY <1>1, <1>3, <1>7, <3>2
      <4>3. Ends' = Ends \cup {v}
        BY <2>5, <4>2, Zenon
      <4>4. /\ Cardinality(Ends) \in Nat /\ Cardinality(Ends') = Cardinality(Ends) + 1
            /\ Rank(v)' = Cardinality(Ends) + 1
            /\ \A p \in Ends : Rank(p)' = Rank(p) /\ Rank(p) \in 1 .. Cardinality(Ends)
        BY <1>1, <2>5, <4>3, RankAfter, Zenon
      <4>5. Len(lines) = Cardinality(Ends)
        BY <1>5, Zenon DEF LinesCut
      <4>6. /\ Len(lines') = Len(lines) + 1 /\ lines'[Len(lines) + 1] = line
            /\ \A i \in 1 .. Len(lines) : lines'[i] = lines[i]
        <5> DEFINE T == Seq(Nat)
        <5>1. lines \in Seq(T) /\ line \in T
          BY <1>3, Zenon
        <5> HIDE DEF T
        <5> QED
          BY <4>1, <5>1
      <4>7. line = [i \in 1 .. v - m - 1 |-> m + i]
        <5>1. v - m - 1 = Len(line) /\ DOMAIN line = 1 .. Len(line)
          BY <1>1, <1>3, <1>7
        <5>2. line = [i \in DOMAIN line |-> line[i]]
          BY <1>3
        <5> QED
          BY <1>5, <5>1, <5>2
      <4>8. v \in 1 .. v /\ Before(v)' = m
        BY <1>1, <2>5, NextNumber, Zenon
      <4>9. ASSUME NEW p \in Ends
            PROVE  lines'[Rank(p)'] = [i \in 1 .. p - Before(p)' - 1 |-> Before(p)' + i]
        <5>1. Before(p)' = Before(p) /\ Rank(p)' = Rank(p) /\ Rank(p) \in 1 .. Len(lines)
          BY <2>5, <2>6, <4>4, <4>5, Zenon
        <5>2. lines[Rank(p)] = [i \in 1 .. p - Before(p) - 1 |-> Before(p) + i]
          BY <1>5, Zenon DEF LinesCut
        <5> QED
          BY <4>6, <5>1, <5>2, Zenon
      <4>10. lines'[Rank(v)'] = [i \in 1 .. v - Before(v)' - 1 |-> Before(v)' + i]
        BY <4>4, <4>5, <4>6, <4>7, <4>8, Zenon
      <4>11. Len(lines') = Cardinality(Ends')
        BY <4>4, <4>5, <4>6, Zenon
      <4> QED
        BY <4>3, <4>9, <4>10, <4>11, Zenon DEF LinesCut
    <3> QED
      BY <3>1, <3>2, Zenon
  <2>8. /\ Len(line') < LineSize /\ \A i \in 1 .. Len(line') : line'[i] = v + i
        /\ v \in Cuts' \cup {0}
    <3>1. 1 .. 0 = {} /\ 0 < LineSize
      BY <1>3
    <3> QED
      BY <2>1, <2>2, <3>1
  <2> QED
    BY <2>2, <2>3, <2>4, <2>7, <2>8, Zenon DEF SplitInv
<1> QED
  BY <1>8, <1>9, Zenon

\* What the threads and the writers do to the pipe, what was read and buf.
LEMMA FeedStep == RecvType /\ FeedInv /\ [Next]_vars => FeedInv'
<1> SUFFICES ASSUME RecvType, FeedInv, [Next]_vars PROVE FeedInv'
  OBVIOUS
<1>1. CASE RecvStep
  <2>1. UNCHANGED mpc
    BY <1>1 DEF RecvStep, mvars
  <2>2. CASE RecvSplit
    <3>1. /\ rpc = "split" /\ rpc' \in {"wait", "split"} /\ (rpc' = "wait" <=> Len(buf) = 1)
          /\ buf # <<>> /\ buf' = Tail(buf) /\ UNCHANGED <<open, reg, n, got, pipe>>
      BY <2>2 DEF RecvSplit, fdvars, pvars
    <3>2. buf \in Seq(Nat) /\ got \in Seq(Nat)
      BY DEF RecvType
    <3>3. /\ Len(buf') = Len(buf) - 1 /\ \A i \in 1 .. Len(buf) - 1 : buf'[i] = buf[i + 1]
          /\ DOMAIN buf' = 1 .. Len(buf) - 1 /\ (Len(buf) = 1 => buf' = <<>>)
      <4>1. buf # <<>> /\ buf' = Tail(buf)
        BY <3>1, Zenon
      <4> QED
        BY <3>2, <4>1
    <3>4. \A i \in DOMAIN buf' : buf'[i] = got[Len(got) - Len(buf') + i]
      <4> SUFFICES ASSUME NEW i \in 1 .. Len(buf) - 1 PROVE buf[i + 1] = got[Len(got) - (Len(buf) - 1) + i]
        BY <3>3, Zenon
      <4>1. i + 1 \in DOMAIN buf /\ Len(got) - (Len(buf) - 1) + i = Len(got) - Len(buf) + (i + 1)
        BY <3>2
      <4> QED
        BY <4>1, Zenon DEF FeedInv
    <3>5. Len(buf') <= Len(got')
      BY <3>1, <3>2, <3>3 DEF FeedInv
    <3> QED
      BY <2>1, <3>1, <3>3, <3>4, <3>5, Zenon DEF FeedInv
  <2>3. CASE RecvRead
    <3>1. /\ rpc = "read" /\ reg /\ open /\ buf = <<>> /\ Len(got) + Len(pipe) = n
          /\ \A i \in DOMAIN pipe : pipe[i] \in {Len(got) + i, Newline}
          /\ \A i \in DOMAIN got : got[i] \in {i, Newline}
          /\ mpc' # "recv" /\ n' = n
      BY <2>1, <2>3 DEF RecvRead, FeedInv
    <3>2. got \in Seq(Nat) /\ pipe \in Seq(Nat)
      BY DEF RecvType
    <3>3. CASE pipe # <<>>
      <4>1. /\ rpc' = "split" /\ buf' = pipe /\ got' = got \o pipe /\ pipe' = <<>>
            /\ open' = open /\ reg' = reg
        BY <2>3, <3>3 DEF RecvRead, fdvars
      <4>2. /\ Len(got') = Len(got) + Len(pipe) /\ DOMAIN got' = 1 .. Len(got) + Len(pipe)
            /\ \A i \in 1 .. Len(got) : got'[i] = got[i]
            /\ \A i \in 1 .. Len(pipe) : got'[Len(got) + i] = pipe[i]
        BY <3>2, <4>1
      <4>3. \A i \in DOMAIN got' : got'[i] \in {i, Newline}
        <5> SUFFICES ASSUME NEW i \in 1 .. Len(got) + Len(pipe) PROVE got'[i] \in {i, Newline}
          BY <4>2, Zenon
        <5>1. CASE i \in 1 .. Len(got)
          <6>1. i \in DOMAIN got
            BY <3>2, <5>1
          <6> QED
            BY <3>1, <4>2, <5>1, <6>1, Zenon
        <5>2. CASE i \notin 1 .. Len(got)
          <6>1. i - Len(got) \in 1 .. Len(pipe) /\ Len(got) + (i - Len(got)) = i
            BY <3>2, <5>2
          <6>2. got'[i] = pipe[i - Len(got)] /\ i - Len(got) \in DOMAIN pipe
            <7>1. DOMAIN pipe = 1 .. Len(pipe)
              BY <3>2
            <7>2. got'[Len(got) + (i - Len(got))] = pipe[i - Len(got)]
              BY <4>2, <6>1, Zenon
            <7> QED
              BY <6>1, <7>1, <7>2, Zenon
          <6> QED
            BY <3>1, <6>1, <6>2, Zenon
        <5> QED
          BY <5>1, <5>2, Zenon
      <4>4. /\ Len(buf') <= Len(got') /\ Len(got') + Len(pipe') = n
            /\ \A i \in DOMAIN pipe' : pipe'[i] \in {Len(got') + i, Newline}
        BY <3>1, <3>2, <4>1, <4>2
      <4>5. \A i \in DOMAIN buf' : buf'[i] = got'[Len(got') - Len(buf') + i]
        <5>1. Len(got') - Len(buf') = Len(got) /\ DOMAIN buf' = 1 .. Len(pipe)
          BY <3>2, <4>1, <4>2
        <5> QED
          BY <4>1, <4>2, <5>1, Zenon
      <4> QED
        BY <3>1, <4>1, <4>3, <4>4, <4>5 DEF FeedInv
    <3>4. CASE pipe = <<>>
      <4>1. /\ buf' = buf /\ got' = got /\ rpc' \in {"wait", "reopen"}
            /\ \/ UNCHANGED <<pipe, open, reg>>
               \/ open' = FALSE /\ reg' = FALSE
        BY <2>3, <3>4, Zenon DEF RecvRead, CloseFd, fdvars
      <4> QED
        BY <3>1, <4>1, Zenon DEF FeedInv
    <3> QED
      BY <3>3, <3>4, Zenon
  <2>4. CASE RecvStop \/ RecvHup
    <3>1. /\ rpc \in {"wait", "poll"} /\ rpc' \in {"gone", "reopen"} /\ open' = FALSE /\ reg' = FALSE
          /\ UNCHANGED <<n, buf, got>>
      BY <2>4 DEF RecvStop, RecvHup, CloseFd, svars
    <3> QED
      BY <2>1, <3>1 DEF FeedInv
  <2>5. CASE RecvOpen
    <3>1. /\ rpc = "start" /\ UNCHANGED <<pipe, n, buf, got>>
          /\ \/ rpc' = "wait" /\ open' = TRUE /\ reg' = TRUE
             \/ rpc' = "gone" /\ UNCHANGED <<open, reg>>
      BY <2>5 DEF RecvOpen, EpollAdd, svars
    <3>2. got = <<>> /\ pipe = <<>> /\ n = 0 /\ Len(got) + Len(pipe) = n /\ DOMAIN pipe = {} /\ mpc # "recv"
      BY <3>1 DEF FeedInv
    <3> QED
      BY <2>1, <3>1, <3>2 DEF FeedInv
  <2>6. CASE RecvTest \/ RecvTimeout \/ RecvReady \/ RecvWake
    <3>1. /\ rpc \in {"wait", "poll", "sleep"} /\ rpc' \in {"read", "poll", "wait"} /\ (rpc' = "read" => reg)
          /\ UNCHANGED <<pipe, n, buf, got, reg, open>>
      BY <2>6 DEF RecvTest, RecvTimeout, RecvReady, RecvWake, svars, fdvars, pvars
    <3> QED
      BY <2>1, <3>1 DEF FeedInv
  <2>7. CASE RecvReopen
    <3>1. /\ rpc = "reopen" /\ rpc' \in {"wait", "sleep"} /\ (open' = TRUE \/ open' = open)
          /\ UNCHANGED <<pipe, n, buf, got, reg>>
      BY <2>7 DEF RecvReopen, EpollMod, svars
    <3> QED
      BY <2>1, <3>1 DEF FeedInv
  <2> QED
    BY <1>1, <2>2, <2>3, <2>4, <2>5, <2>6, <2>7 DEF RecvStep, Receiver
<1>2. CASE WriterStep
  <2>1. UNCHANGED <<mpc, rpc, open, reg, buf, got>>
    BY <1>2 DEF WriterStep, Writer, WriterOpen, WriterWrite, WriterClose, mvars, fdvars, svars
  <2>2. CASE WriterWrite
    <3>1. open /\ n' = n + 1
      BY <2>2 DEF WriterWrite
    <3>2. PICK b \in {n + 1, Newline} : pipe' = Append(pipe, b)
      BY <2>2 DEF WriterWrite
    <3>3. pipe \in Seq(Nat) /\ got \in Seq(Nat) /\ n \in Nat /\ b \in Nat
      BY <3>2 DEF RecvType, Newline
    <3>4. /\ Len(pipe') = Len(pipe) + 1 /\ DOMAIN pipe' = 1 .. Len(pipe) + 1 /\ pipe'[Len(pipe) + 1] = b
          /\ \A i \in 1 .. Len(pipe) : pipe'[i] = pipe[i]
      BY <3>2, <3>3
    <3>5. ASSUME reg
          PROVE  Len(got) + Len(pipe') = n + 1 /\ \A i \in DOMAIN pipe' : pipe'[i] \in {Len(got) + i, Newline}
      <4>1. Len(got) + Len(pipe) = n /\ \A i \in 1 .. Len(pipe) : pipe[i] \in {Len(got) + i, Newline}
        BY <3>3, <3>5 DEF FeedInv
      <4>2. Len(got) + (Len(pipe) + 1) = n + 1
        BY <3>3, <4>1
      <4>3. \A i \in 1 .. Len(pipe) + 1 : i \in 1 .. Len(pipe) \/ i = Len(pipe) + 1
        BY <3>3
      <4> QED
        BY <3>2, <3>4, <4>1, <4>2, <4>3, Zenon
    <3>6. rpc \notin {"none", "start"}
      BY <3>1 DEF FeedInv
    <3> QED
      BY <2>1, <3>1, <3>5, <3>6, Zenon DEF FeedInv
  <2>3. CASE WriterOpen \/ WriterClose
    <3>1. n' = n /\ pipe' \in {pipe, <<>>} /\ (open => pipe' = pipe)
      BY <2>3 DEF WriterOpen, WriterClose, Held
    <3> QED
      BY <2>1, <3>1 DEF FeedInv
  <2> QED
    BY <1>2, <2>2, <2>3 DEF WriterStep, Writer
<1>3. CASE StartRecv
  <2>1. /\ mpc = "recv" /\ mpc' # "recv" /\ rpc' \in {"start", rpc}
        /\ UNCHANGED <<open, reg, n, pipe, got, buf>>
    BY <1>3 DEF StartRecv, fdvars, pvars, svars
  <2> QED
    BY <2>1 DEF FeedInv
<1>4. CASE (Main /\ ~StartRecv) \/ on_sig \/ CoordsStep \/ WorkerStep \/ UNCHANGED vars
  <2>1. UNCHANGED <<rpc, open, reg, n, pipe, got, buf>> /\ (mpc' = "recv" => mpc = "recv")
    BY <1>4 DEF Main, StartCoords, StartNet, MainTest, MainPause, JoinCoords, JoinRecv,
       CancelNet, on_sig, CoordsStep, Coords, CoordsPop, CoordsLog, CoordsCrash, CoordsRotate,
       CoordsStop, CoordsDrained, WorkerStep, vars, rvars, svars, qvars, pvars, fdvars, mvars
  <2> QED
    BY <2>1, Zenon DEF FeedInv
<1> QED
  BY <1>1, <1>2, <1>3, <1>4 DEF Next, Main

\* Whoever takes a step, the lines are cut where the reference cuts.
LEMMA SplitStep == RecvType /\ FeedInv /\ SplitInv /\ [Next]_vars => SplitInv'
<1> SUFFICES ASSUME RecvType, FeedInv, SplitInv, [Next]_vars PROVE SplitInv'
  OBVIOUS
<1>1. CASE RecvSplit
  BY <1>1, SplitTurn, Zenon
<1>2. CASE RecvStep /\ RecvRead /\ pipe # <<>>
  <2>1. buf = <<>> /\ buf' = pipe /\ got' = got \o pipe /\ UNCHANGED <<line, lines>>
    BY <1>2 DEF RecvRead, FeedInv, qvars
  <2>2. got \in Seq(Nat) /\ pipe \in Seq(Nat)
    BY DEF RecvType
  <2>3. /\ Len(got) - Len(buf) = Len(got) /\ Len(got') - Len(buf') = Len(got)
    BY <2>1, <2>2
  <2>4. SubSeq(got \o pipe, 1, Len(got)) = got /\ SubSeq(got, 1, Len(got)) = got
    BY <2>2
  <2>5. Seen' = Seen
    BY <2>1, <2>3, <2>4, Zenon DEF Seen
  <2> QED
    BY <2>1, <2>5, SplitCalm, Zenon
<1>3. CASE ~RecvSplit /\ ~(RecvRead /\ pipe # <<>>)
  <2>1. UNCHANGED <<buf, got, line, lines>>
    <3>1. CASE RecvStep
      BY <1>3, <3>1, Zenon DEF RecvStep, Receiver, RecvOpen, RecvTest, RecvStop, RecvTimeout,
         RecvHup, RecvReady, RecvReopen, RecvWake, RecvRead, CloseFd, svars, qvars
    <3>2. CASE WriterStep
      BY <3>2, Zenon DEF WriterStep, Writer, WriterOpen, WriterWrite, WriterClose, svars, qvars
    <3>3. CASE Main \/ on_sig \/ CoordsStep \/ WorkerStep \/ UNCHANGED vars
      BY <3>3 DEF Main, StartRecv, StartCoords, StartNet, MainTest, MainPause, JoinCoords, JoinRecv,
         CancelNet, on_sig, CoordsStep, Coords, CoordsPop, CoordsLog, CoordsCrash, CoordsRotate,
         CoordsStop, CoordsDrained, WorkerStep, vars, rvars, svars, qvars, pvars
    <3> QED
      BY <3>1, <3>2, <3>3 DEF Next
  <2>2. Seen' = Seen
    BY <2>1, Zenon DEF Seen
  <2> QED
    BY <2>1, <2>2, SplitCalm, Zenon
<1>4. RecvRead => RecvStep \/ ~(pipe # <<>>)
  <2>1. ASSUME RecvRead, pipe # <<>> PROVE RecvStep
    <3>1. rpc = "read" /\ rpc' = "split"
      BY <2>1 DEF RecvRead
    <3>2. CASE WriterStep
      BY <3>1, <3>2 DEF WriterStep, Writer, WriterOpen, WriterWrite, WriterClose
    <3>3. CASE Main \/ on_sig \/ CoordsStep \/ WorkerStep \/ UNCHANGED vars
      BY <3>1, <3>3 DEF Main, StartRecv, StartCoords, StartNet, MainTest, MainPause, JoinCoords, JoinRecv,
         CancelNet, on_sig, CoordsStep, Coords, CoordsPop, CoordsLog, CoordsCrash, CoordsRotate,
         CoordsStop, CoordsDrained, WorkerStep, vars, rvars
    <3> QED
      BY <3>2, <3>3 DEF Next
  <2> QED
    BY <2>1, Zenon
<1> QED
  BY <1>1, <1>2, <1>3, <1>4, Zenon

\* Nothing is seen at the start.
LEMMA SplitStart == Init => FeedInv /\ SplitInv
<1> SUFFICES ASSUME Init PROVE FeedInv /\ SplitInv
  OBVIOUS
<1>1. /\ mpc = "recv" /\ rpc = "none" /\ open = FALSE /\ reg = FALSE /\ n = 0
      /\ pipe = <<>> /\ got = <<>> /\ buf = <<>> /\ line = <<>> /\ lines = <<>>
  BY DEF Init, RecvInit
<1>2. FeedInv
  BY <1>1 DEF FeedInv
<1>3. Seen = <<>>
  BY <1>1 DEF Seen
<1>4. Cuts = {} /\ Ends = {}
  BY <1>3 DEF Cuts, Ends
<1>5. LinesCut
  <2>1. Cardinality(Ends) = 0
    BY <1>4, FS_EmptySet, Zenon
  <2> QED
    BY <1>1, <1>4, <2>1 DEF LinesCut
<1>6. Begin = 0 /\ Len(line) = 0 /\ Len(Seen) = 0
  BY <1>1, <1>3 DEF Begin
<1>7. LastNewline(Len(Seen) + 1) = 0
  <2>1. Max({0}) = 0
    BY MaxIs
  <2>2. {0} \cup {i \in DOMAIN Seen : i < Len(Seen) + 1 /\ Seen[i] = Newline} = {0}
    BY <1>3
  <2> QED
    BY <2>1, <2>2, Zenon DEF LastNewline
<1>8. 0 = 0 + 0 * LineSize /\ 0 \in Nat /\ 0 < LineSize /\ 1 .. 0 = {}
  BY RecvAssumption
<1>9. SplitInv
  BY <1>4, <1>5, <1>6, <1>7, <1>8, Zenon DEF SplitInv
<1> QED
  BY <1>2, <1>9

\* threads_recv.c's splitter, for every LineSize and any number of writers and
\* bytes: the lines pushed are the bytes read, cut at every newline and at every
\* LineSize-th byte between two of them, however reads and writes fall.
THEOREM CutsRight == Spec => []LinesCut
<1>1. RecvType /\ FeedInv /\ SplitInv /\ [Next]_vars => (FeedInv /\ SplitInv)'
  BY FeedStep, SplitStep
<1>2. SplitInv => LinesCut
  BY Zenon DEF SplitInv
<1> QED
  BY <1>1, <1>2, SplitStart, DaemonAlways, PTL DEF Spec

=============================================================================
