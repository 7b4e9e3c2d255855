---------------------------- MODULE VtsLogProofs ----------------------------
(***************************************************************************)
(* The daemon's log, for any rotation limit and any number of lines and    *)
(* results: the three files have the lines of the last three rotations, in *)
(* order, and the workers' results stay with the file first opened.        *)
(***************************************************************************)
EXTENDS VtsDaemon, TLAPS

Line == [line : Int, at : Int]

\* The types of the receiver's side.
RecvType ==
  /\ n \in Nat
  /\ pipe \in Seq(Nat) /\ buf \in Seq(Nat) /\ got \in Seq(Nat)
  /\ line \in Seq(Nat) /\ lines \in Seq(Seq(Nat))

\* The types of the ring, of the line in thr_coords's hands and of what it logged;
\* the number of a line in the ring is not 0.
DaemonType ==
  /\ g_stop \in BOOLEAN
  /\ hand \in Nat /\ early \in Nat
  /\ q \in Seq(Nat) /\ \A k \in DOMAIN q : q[k] # 0
  /\ rot \in Nat /\ said \in Seq(Line)

InRing == {q[k] : k \in DOMAIN q}

-----------------------------------------------------------------------------
(* The receiver.                                                            *)

\* The bytes on both sides of read are numbers, and so are those of the lines:
\* whichever thread of the daemon, or writer, takes a step.
LEMMA RecvTypeStep == RecvType /\ [Next]_vars => RecvType'
<1> SUFFICES ASSUME RecvType, [Next]_vars PROVE RecvType'
  OBVIOUS
<1>h. Held(pipe, FALSE, writers) \in Seq(Nat) /\ Held(pipe, open, writers - 1) \in Seq(Nat)
  BY DEF Held, RecvType
<1>1. CASE RecvStep
  <2>1. CASE RecvSplit
    <3>1. /\ buf # <<>> /\ buf' = Tail(buf)
          /\ line' \in {Append(line, Head(buf)), <<>>}
          /\ lines' \in {lines, Append(lines, line)}
          /\ UNCHANGED <<n, pipe, got>>
      BY <2>1 DEF RecvSplit, handle_line, qvars, pvars
    <3>2. Tail(buf) \in Seq(Nat) /\ Head(buf) \in Nat
      BY <3>1 DEF RecvType
    <3>3. Append(line, Head(buf)) \in Seq(Nat) /\ <<>> \in Seq(Nat)
      BY <3>2 DEF RecvType
    <3>4. Append(lines, line) \in Seq(Seq(Nat))
      BY DEF RecvType
    <3> QED
      BY <3>1, <3>2, <3>3, <3>4, Zenon DEF RecvType
  <2>2. CASE RecvRead
    <3>1. /\ buf' \in {buf, pipe} /\ got' \in {got, got \o pipe}
          /\ \/ pipe' \in {<<>>, pipe}
             \/ pipe' = Held(pipe, FALSE, writers)
          /\ UNCHANGED <<n, line, lines>>
      BY <2>2, Zenon DEF RecvRead, CloseFd, qvars, fdvars
    <3>2. got \o pipe \in Seq(Nat) /\ <<>> \in Seq(Nat)
      BY DEF RecvType
    <3>3. pipe' \in Seq(Nat)
      BY <3>1, <3>2, <1>h, Zenon DEF RecvType
    <3>4. buf' \in Seq(Nat) /\ got' \in Seq(Nat)
      BY <3>1, <3>2, Zenon DEF RecvType
    <3> QED
      BY <3>1, <3>3, <3>4 DEF RecvType
  <2>3. CASE RecvStop \/ RecvHup
    <3>1. pipe' = Held(pipe, FALSE, writers) /\ UNCHANGED <<n, line, lines, buf, got>>
      BY <2>3, Zenon DEF RecvStop, RecvHup, CloseFd, svars, qvars
    <3> QED
      BY <3>1, <1>h, Zenon DEF RecvType
  <2>4. CASE RecvOpen \/ RecvTest \/ RecvTimeout \/ RecvReady \/ RecvReopen \/ RecvWake
    <3>1. UNCHANGED <<n, line, lines, buf, got, pipe>>
      BY <2>4 DEF RecvOpen, RecvTest, RecvTimeout, RecvReady, RecvReopen, RecvWake, svars, qvars, pvars
    <3> QED
      BY <3>1 DEF RecvType
  <2> QED
    BY <1>1, <2>1, <2>2, <2>3, <2>4 DEF RecvStep, Receiver
<1>2. CASE WriterStep
  <2>1. CASE WriterWrite
    <3>1. n' = n + 1 /\ UNCHANGED <<line, lines, buf, got>>
      BY <2>1 DEF WriterWrite, svars, qvars
    <3>2. PICK b \in {n + 1, Newline} : pipe' = Append(pipe, b)
      BY <2>1 DEF WriterWrite
    <3>3. b \in Nat
      BY <3>2 DEF RecvType, Newline
    <3>4. Append(pipe, b) \in Seq(Nat)
      BY <3>3 DEF RecvType
    <3> QED
      BY <3>1, <3>2, <3>4 DEF RecvType
  <2>2. CASE WriterOpen \/ WriterClose
    <3>1. /\ pipe' = pipe \/ pipe' = Held(pipe, open, writers - 1)
          /\ UNCHANGED <<n, line, lines, buf, got>>
      BY <2>2 DEF WriterOpen, WriterClose, svars, qvars
    <3> QED
      BY <3>1, <1>h DEF RecvType
  <2> QED
    BY <1>2, <2>1, <2>2 DEF WriterStep, Writer
<1>3. CASE Main \/ on_sig \/ CoordsStep \/ WorkerStep \/ UNCHANGED vars
  <2>1. UNCHANGED <<n, line, lines, buf, got, pipe>>
    BY <1>3 DEF Main, StartRecv, StartCoords, StartNet, MainTest, MainPause, JoinCoords, JoinRecv,
       CancelNet, on_sig, CoordsStep, Coords, CoordsPop, CoordsLog, CoordsCrash, CoordsRotate,
       CoordsStop, CoordsDrained, WorkerStep, vars, rvars, svars, qvars, pvars
  <2> QED
    BY <2>1 DEF RecvType
<1> QED
  BY <1>1, <1>2, <1>3 DEF Next

-----------------------------------------------------------------------------
(* The ring and the line in thr_coords's hands.                             *)

\* The receiver's push: the new line's number enters the ring, and only the
\* oldest may leave it, into lost.
LEMMA PushFacts ==
  ASSUME DaemonType, RecvType, RecvSplit
  PROVE  /\ q' \in Seq(Nat) /\ \A k \in DOMAIN q' : q'[k] # 0
         /\ Len(lines') \in {Len(lines), Len(lines) + 1}
         /\ InRing \cup lost \subseteq InRing' \cup lost'
         /\ 1 .. Len(lines') \subseteq InRing' \cup 1 .. Len(lines)
         /\ lost \subseteq lost'
<1>1. CASE UNCHANGED qvars
  BY <1>1 DEF qvars, DaemonType, RecvType, InRing
<1>2. CASE handle_line(line)
  <2> DEFINE kept == IF Len(q) < QueueCap THEN q ELSE Tail(q)
  <2>1. lines' = Append(lines, line) /\ q' = Append(kept, Len(lines) + 1)
    BY <1>2 DEF handle_line
  <2>2. lost' = IF Len(q) < QueueCap THEN lost ELSE lost \cup {Head(q)}
    BY <1>2 DEF handle_line
  <2>3. Len(lines) \in Nat /\ Len(lines') = Len(lines) + 1
    BY <2>1 DEF RecvType
  <2>4. Len(q) < QueueCap \/ q # <<>>
    BY RecvAssumption DEF DaemonType
  <2>5. kept \in Seq(Nat)
    BY <2>4 DEF DaemonType
  <2>6. \A k \in DOMAIN kept : kept[k] # 0
    BY <2>4 DEF DaemonType
  <2>7. InRing \subseteq {kept[k] : k \in DOMAIN kept} \cup lost'
    <3>1. CASE Len(q) < QueueCap
      BY <3>1 DEF InRing
    <3>2. CASE ~(Len(q) < QueueCap)
      <4>1. q \in Seq(Nat) /\ q # <<>> /\ kept = Tail(q) /\ lost' = lost \cup {Head(q)}
        BY <3>2, <2>4, <2>2 DEF DaemonType
      <4>2. ASSUME NEW k \in DOMAIN q, k # 1
            PROVE  k - 1 \in DOMAIN Tail(q) /\ Tail(q)[k - 1] = q[k]
        BY <4>1, <4>2
      <4>3. q[1] = Head(q)
        BY <4>1
      <4>4. ASSUME NEW k \in DOMAIN q PROVE q[k] \in {kept[j] : j \in DOMAIN kept} \cup lost'
        <5>1. CASE k = 1
          BY <4>1, <4>3, <5>1, Zenon
        <5>2. CASE k # 1
          BY <4>1, <4>2, <5>2, Zenon
        <5> QED BY <5>1, <5>2, Zenon
      <4> QED
        BY <4>1, <4>4, Zenon DEF InRing
    <3> QED
      BY <3>1, <3>2
  <2> HIDE DEF kept
  <2>8. q' \in Seq(Nat) /\ \A k \in DOMAIN q' : q'[k] # 0
    BY <2>1, <2>3, <2>5, <2>6
  <2>9. InRing' = {kept[k] : k \in DOMAIN kept} \cup {Len(lines) + 1}
    <3>1. DOMAIN q' = 1 .. Len(kept) + 1 /\ DOMAIN kept = 1 .. Len(kept) /\ Len(kept) \in Nat
      BY <2>1, <2>3, <2>5
    <3>2. q'[Len(kept) + 1] = Len(lines) + 1 /\ \A k \in DOMAIN kept : q'[k] = kept[k]
      BY <2>1, <2>3, <2>5
    <3> QED
      BY <3>1, <3>2 DEF InRing
  <2>10. 1 .. Len(lines') = 1 .. Len(lines) \cup {Len(lines) + 1}
    BY <2>3
  <2>11. lost \subseteq lost'
    BY <2>2
  <2> QED
    BY <2>3, <2>7, <2>8, <2>9, <2>10, <2>11
<1> QED
  BY <1>1, <1>2 DEF RecvSplit

\* What vts_log_write adds to the lines said.
LEMMA SaidFacts ==
  ASSUME DaemonType, NEW k \in Nat, LogLine(k)
  PROVE  said' \in Seq(Line) /\ Said' = Said \cup {k} /\ rot' = rot
<1>1. said' = Append(said, [line |-> k, at |-> rot]) /\ rot' = rot
  BY DEF LogLine
<1>2. said \in Seq(Line) /\ [line |-> k, at |-> rot] \in Line
  BY DEF DaemonType, Line
<1>3. said' \in Seq(Line) /\ DOMAIN said' = 1 .. Len(said) + 1 /\ DOMAIN said = 1 .. Len(said) /\ Len(said) \in Nat
  BY <1>1, <1>2
<1>4. said'[Len(said) + 1] = [line |-> k, at |-> rot] /\ \A j \in DOMAIN said : said'[j] = said[j]
  BY <1>1, <1>2
<1>5. said'[Len(said) + 1].line = k
  BY <1>4
<1> QED
  BY <1>1, <1>3, <1>4, <1>5 DEF Said

\* The types are kept by the steps of all the threads.
LEMMA DaemonTypeStep == RecvType /\ DaemonType /\ [Next]_vars => DaemonType'
<1> SUFFICES ASSUME RecvType, DaemonType, [Next]_vars PROVE DaemonType'
  OBVIOUS
<1>1. CASE RecvStep
  <2>1. UNCHANGED <<g_stop, hand, early, rot, said>>
    BY <1>1 DEF RecvStep, Receiver, RecvOpen, RecvTest, RecvStop, RecvTimeout,
       RecvHup, RecvReady, RecvReopen, RecvWake, RecvRead, RecvSplit, lvars, mvars, cvars
  <2>2. CASE RecvSplit
    <3>1. q' \in Seq(Nat) /\ \A k \in DOMAIN q' : q'[k] # 0
      BY <2>2, PushFacts
    <3> QED BY <2>1, <3>1 DEF DaemonType
  <2>3. CASE UNCHANGED qvars
    BY <2>1, <2>3 DEF qvars, DaemonType
  <2> QED
    BY <1>1, <2>2, <2>3 DEF RecvStep, Receiver, RecvOpen, RecvTest, RecvStop, RecvTimeout,
       RecvHup, RecvReady, RecvReopen, RecvWake, RecvRead
<1>2. CASE WriterStep \/ CoordsCrash \/ CoordsRotate \/ WorkerStep \/ UNCHANGED vars
  <2>1. UNCHANGED <<g_stop, hand, early, said, q>> /\ rot' \in {rot, rot + 1}
    BY <1>2 DEF WriterStep, Writer, WriterOpen, WriterWrite, WriterClose, CoordsCrash, LogCrash,
       CoordsRotate, Rotation, LogStat, LogRename, LogReopen, WorkerStep, log_write_req_result, vars, rvars, lvars, mvars,
       cvars, qvars
  <2> QED BY <2>1 DEF DaemonType
<1>3. CASE StartRecv \/ StartCoords \/ StartNet \/ MainTest \/ MainPause \/ JoinCoords \/ CancelNet
           \/ (CoordsStep /\ (CoordsStop \/ CoordsDrained))
  <2>1. UNCHANGED <<g_stop, hand, early, rot, said, q>>
    BY <1>3 DEF StartRecv, StartCoords, StartNet, MainTest, MainPause, JoinCoords, CancelNet,
       CoordsStop, CoordsDrained, rvars, lvars, mvars, cvars, qvars
  <2> QED BY <2>1 DEF DaemonType
<1>4. CASE JoinRecv
  <2>1. UNCHANGED <<g_stop, hand, early, rot, said>> /\ q' = <<>>
    BY <1>4 DEF JoinRecv, lvars, cvars
  <2> QED BY <2>1 DEF DaemonType
<1>5. CASE on_sig
  <2>1. /\ UNCHANGED <<hand, rot, said, q>> /\ g_stop' = TRUE
        /\ early' = IF g_stop THEN early ELSE Len(lines)
    BY <1>5 DEF on_sig, lvars, cvars, qvars
  <2> QED BY <2>1 DEF DaemonType, RecvType
<1>6. CASE CoordsStep /\ CoordsPop
  <2>1. /\ UNCHANGED <<g_stop, early, rot, said>>
        /\ q # <<>> /\ hand' = Head(q) /\ q' = Tail(q)
    BY <1>6 DEF CoordsPop, lvars, mvars
  <2> QED BY <2>1 DEF DaemonType
<1>7. CASE CoordsStep /\ CoordsLog
  <2>1. UNCHANGED <<g_stop, early, q>> /\ hand' = 0 /\ LogLine(hand)
    BY <1>7 DEF CoordsLog, rvars, mvars, qvars
  <2>2. said' \in Seq(Line) /\ rot' = rot
    BY <2>1, SaidFacts DEF DaemonType
  <2> QED BY <2>1, <2>2 DEF DaemonType
<1> QED
  BY <1>1, <1>2, <1>3, <1>4, <1>5, <1>6, <1>7 DEF Next, Main, CoordsStep, Coords

\* The types hold at the start.
LEMMA TypesStart == Init => RecvType /\ DaemonType
<1> SUFFICES ASSUME Init PROVE RecvType /\ DaemonType
  OBVIOUS
<1>1. RecvType
  BY DEF Init, RecvInit, RecvType
<1>2. said = [f \in 1 .. Left |-> [line |-> f - Left, at |-> f - Left]]
  BY Zenon DEF Init, LogInit
<1>3. said \in Seq(Line)
  BY <1>2, LogAssumption DEF Line
<1>r. rot = 0
  BY DEF Init, LogInit
<1>g. g_stop \in BOOLEAN
  BY Zenon DEF Init, RecvInit
<1>q. q = <<>> /\ hand = 0 /\ early = 0
  BY DEF Init, RecvInit
<1>4. DaemonType
  BY <1>3, <1>r, <1>g, <1>q DEF DaemonType
<1> QED BY <1>1, <1>4

\* The types of the daemon, always.
LEMMA TypesAlways == Spec => [](RecvType /\ DaemonType)
BY TypesStart, RecvTypeStep, DaemonTypeStep, PTL DEF Spec

-----------------------------------------------------------------------------
(* The files of the log.                                                    *)

Entry == {"line", "result"} \X Int
File == [made : Int, text : Seq(Entry)]
LogNames == {LOG0, LOG1, LOG2}

LogType ==
  /\ file \in Seq(File)
  /\ name \in [LogNames -> 0 .. Len(file)]
  /\ fp \in 0 .. Len(file) /\ g_logf \in 0 .. Len(file)
  /\ lpc \in {"idle", "stat", "rename", "reopen", "crash"}
  /\ results \in Nat /\ muted \in Nat

\* The name under which a file made up to two rotations ago is found.
Place(f) ==
  IF lpc # "rename" THEN rot - file[f].made
  ELSE IF file[f].made = rot - 1 THEN LOG0 ELSE LOG2

\* fp is the file called LOG0 or closed, and the files made up to two rotations
\* ago have the names in order; the first rename leaves the newest with LOG0.
NamesInv ==
  /\ lpc \in {"idle", "stat"} /\ fp # NoFile => name[LOG0] = fp
  /\ lpc \in {"rename", "reopen"} => fp = NoFile
  /\ lpc = "stat" => fp # NoFile
  /\ lpc = "rename" => name[LOG0] # NoFile
  /\ \A f \in DOMAIN file :
       /\ file[f].made <= IF lpc = "rename" THEN rot - 1 ELSE rot
       /\ file[f].made >= rot - 2 => name[Place(f)] = f

HasEntry(f, x) == \E k \in DOMAIN file[f].text : file[f].text[k] = x
HasResult(f, r) == \E k \in DOMAIN file[f].text : file[f].text[k] = <<"result", r>>

\* The workers' handle has one file for good, and all the results since it was
\* opened are in it.
ResultsInv ==
  /\ muted <= results
  /\ g_logf = NoFile => muted = results
  /\ \A f \in DOMAIN file : \A r \in Int :
       HasResult(f, r) <=> (f = g_logf /\ r \in muted + 1 .. results)

\* What fopen(LOG0, "a") gives: the files there were, and at most a new one,
\* empty and called LOG0, if no file was.
LEMMA OpenFacts ==
  ASSUME LogType, rot \in Nat, NEW h \in 0 .. Len(file)
  PROVE  /\ Files(h) \in Seq(File)
         /\ Len(Files(h)) \in Nat /\ Len(file) <= Len(Files(h))
         /\ DOMAIN Files(h) = 1 .. Len(Files(h)) /\ DOMAIN file = 1 .. Len(file)
         /\ Target(h) \in DOMAIN Files(h)
         /\ \A f \in DOMAIN file : Files(h)[f] = file[f]
         /\ \A f \in DOMAIN Files(h) \ DOMAIN file :
              /\ f = Target(h) /\ h = NoFile /\ name[LOG0] = NoFile
              /\ Files(h)[f].made = rot /\ Files(h)[f].text = <<>>
         /\ Names(h) \in [LogNames -> 0 .. Len(Files(h))]
         /\ h = NoFile => Names(h)[LOG0] = Target(h)
         /\ h # NoFile => Names(h) = name /\ Target(h) = h
         /\ name[LOG0] # NoFile => Names(h) = name
         /\ \A k \in LogNames : k # LOG0 => Names(h)[k] = name[k]
<1> DEFINE new == [made |-> rot, text |-> <<>>]
<1>1. /\ file \in Seq(File) /\ Len(file) \in Nat /\ DOMAIN file = 1 .. Len(file)
      /\ name \in [LogNames -> 0 .. Len(file)] /\ LOG0 \in LogNames
  BY DEF LogType, LogNames
<1>2. new \in File /\ new.made = rot /\ new.text = <<>>
  BY DEF File
<1>3. CASE Target(h) \in DOMAIN file
  <2>1. Files(h) = file
    BY <1>3 DEF Files
  <2>2. /\ h = NoFile => name[LOG0] = Target(h)
        /\ h # NoFile => Target(h) = h
    BY <1>1, <1>3 DEF Target
  <2> QED
    BY <2>1, <2>2, <1>1, <1>3 DEF Names
<1>4. CASE Target(h) \notin DOMAIN file
  <2>1. h = NoFile /\ name[LOG0] = NoFile /\ Target(h) = Len(file) + 1
    BY <1>4, <1>1 DEF Target, NoFile
  <2>2. Files(h) = Append(file, new)
    BY <1>4 DEF Files
  <2> HIDE DEF new
  <2>3. /\ Files(h) \in Seq(File) /\ Len(Files(h)) = Len(file) + 1
        /\ DOMAIN Files(h) = 1 .. Len(file) + 1
        /\ Files(h)[Len(file) + 1] = new
        /\ \A f \in DOMAIN file : Files(h)[f] = file[f]
    BY <2>2, <1>1, <1>2
  <2>4. Names(h) = [name EXCEPT ![LOG0] = Len(file) + 1]
    BY <2>1 DEF Names
  <2>5. /\ Names(h) \in [LogNames -> 0 .. Len(file) + 1]
        /\ Names(h)[LOG0] = Len(file) + 1
        /\ \A k \in LogNames : k # LOG0 => Names(h)[k] = name[k]
    BY <2>4, <1>1
  <2>6. DOMAIN Files(h) \ DOMAIN file = {Len(file) + 1}
    BY <2>3, <1>1
  <2> QED
    BY <2>1, <2>3, <2>5, <2>6, <1>1, <1>2
<1> QED
  BY <1>3, <1>4

\* What a write adds: one entry, at the end of the file that the handle has.
LEMMA WriteFacts ==
  ASSUME LogType, rot \in Nat, NEW h \in 0 .. Len(file), NEW e \in Entry, WriteTo(h, e)
  PROVE  /\ file' \in Seq(File) /\ Len(file') = Len(Files(h))
         /\ DOMAIN file' = DOMAIN Files(h)
         /\ \A f \in DOMAIN file' : file'[f].made = Files(h)[f].made
         /\ \A f \in DOMAIN file' : f # Target(h) => file'[f].text = Files(h)[f].text
         /\ file'[Target(h)].text = Append(Files(h)[Target(h)].text, e)
         /\ name' = Names(h)
<1> DEFINE T == Target(h)
           F == Files(h)
<1>1. F \in Seq(File) /\ T \in DOMAIN F
  BY OpenFacts
<1>2. /\ file' = [F EXCEPT ![T].text = Append(@, e)]
      /\ name' = Names(h)
  BY DEF WriteTo
<1> HIDE DEF T, F
<1>3. F[T] \in File
  BY <1>1
<1>4. Append(F[T].text, e) \in Seq(Entry)
  BY <1>3 DEF File
<1>5. [F[T] EXCEPT !.text = Append(@, e)] \in File
  BY <1>3, <1>4, Zenon DEF File
<1>6. file' = [F EXCEPT ![T] = [F[T] EXCEPT !.text = Append(@, e)]]
  BY <1>2
<1>7. /\ file' \in Seq(File) /\ Len(file') = Len(F) /\ DOMAIN file' = DOMAIN F
      /\ \A f \in DOMAIN F : f # T => file'[f] = F[f]
      /\ file'[T] = [F[T] EXCEPT !.text = Append(@, e)]
  BY <1>1, <1>5, <1>6
<1>8. file'[T].made = F[T].made /\ file'[T].text = Append(F[T].text, e)
  BY <1>7, <1>3 DEF File
<1> QED
  BY <1>2, <1>7, <1>8 DEF T, F

\* Opening the log under its name keeps the order of the files: a file made now
\* is the first of this rotation, and none is made between the two renames.
LEMMA OpenNames ==
  ASSUME LogType, NamesInv, rot \in Nat, NEW h \in 0 .. Len(file),
         name' = Names(h), rot' = rot, lpc' = "rename" <=> lpc = "rename",
         DOMAIN file' = DOMAIN Files(h),
         \A f \in DOMAIN file' : file'[f].made = Files(h)[f].made
  PROVE  \A f \in DOMAIN file' :
           /\ file'[f].made <= IF lpc' = "rename" THEN rot' - 1 ELSE rot'
           /\ file'[f].made >= rot' - 2 => name'[Place(f)'] = f
<1> SUFFICES ASSUME NEW f \in DOMAIN file'
             PROVE  /\ file'[f].made <= IF lpc' = "rename" THEN rot' - 1 ELSE rot'
                    /\ file'[f].made >= rot' - 2 => name'[Place(f)'] = f
  OBVIOUS
<1>n. LOG0 = 0 /\ LOG1 = 1 /\ LOG2 = 2 /\ LogNames = 0 .. 2
  BY DEF LOG0, LOG1, LOG2, LogNames
<1>1. CASE f \in DOMAIN file
  <2>1. file'[f].made = file[f].made /\ file[f].made \in Int
    <3>1. Files(h)[f] = file[f]
      BY <1>1, OpenFacts
    <3>2. file[f] \in File
      BY <1>1 DEF LogType
    <3> QED
      BY <3>1, <3>2 DEF File
  <2>2. Place(f)' = Place(f)
    BY <2>1 DEF Place
  <2>3. /\ file[f].made <= IF lpc = "rename" THEN rot - 1 ELSE rot
        /\ file[f].made >= rot - 2 => name[Place(f)] = f
    BY <1>1 DEF NamesInv
  <2>4. file[f].made >= rot - 2 => Place(f) \in LogNames
    BY <2>1, <2>3, <1>n DEF Place
  <2>5. f # NoFile
    BY <1>1 DEF LogType, NoFile
  <2>6. \A k \in LogNames : name[k] = f => name'[k] = f
    BY <2>5, OpenFacts
  <2> QED
    BY <2>1, <2>2, <2>3, <2>4, <2>6
<1>2. CASE f \notin DOMAIN file
  <2>1. f = Target(h) /\ h = NoFile /\ name[LOG0] = NoFile /\ file'[f].made = rot
    BY <1>2, OpenFacts
  <2>2. lpc # "rename"
    BY <2>1 DEF NamesInv
  <2>3. name'[LOG0] = f
    BY <2>1, OpenFacts
  <2>4. Place(f)' = LOG0
    BY <2>1, <2>2, <1>n DEF Place
  <2> QED
    BY <2>1, <2>2, <2>3, <2>4
<1> QED
  BY <1>1, <1>2

\* The entries of the files after a write: those there were, and the one written.
LEMMA EntryAfter ==
  ASSUME LogType, rot \in Nat, NEW h \in 0 .. Len(file), NEW e \in Entry, WriteTo(h, e),
         NEW f \in DOMAIN file', NEW x
  PROVE  HasEntry(f, x)' <=> \/ f \in DOMAIN file /\ HasEntry(f, x)
                             \/ f = Target(h) /\ e = x
<1> DEFINE old == Files(h)[f].text
<1>1. old \in Seq(Entry)
  <2>1. Files(h)[f] \in File
    BY WriteFacts, OpenFacts
  <2> QED
    BY <2>1 DEF File
<1>2. (\E k \in DOMAIN old : old[k] = x) <=> f \in DOMAIN file /\ HasEntry(f, x)
  <2>1. CASE f \in DOMAIN file
    BY <2>1, OpenFacts DEF HasEntry
  <2>2. CASE f \notin DOMAIN file
    <3>1. old = <<>>
      BY <2>2, OpenFacts, WriteFacts
    <3> QED
      BY <3>1, <2>2
  <2> QED
    BY <2>1, <2>2
<1>3. HasEntry(f, x)' <=> \E k \in DOMAIN file'[f].text : file'[f].text[k] = x
  BY DEF HasEntry
<1>t. /\ f # Target(h) => file'[f].text = old
      /\ f = Target(h) => file'[f].text = Append(old, e)
  BY WriteFacts
<1> HIDE DEF old
<1>4. CASE f # Target(h)
  BY <1>t, <1>2, <1>3, <1>4
<1>5. CASE f = Target(h)
  <2>1. file'[f].text = Append(old, e)
    BY <1>5, <1>t
  <2>2. /\ DOMAIN Append(old, e) = 1 .. Len(old) + 1 /\ DOMAIN old = 1 .. Len(old) /\ Len(old) \in Nat
        /\ Append(old, e)[Len(old) + 1] = e
        /\ \A k \in DOMAIN old : Append(old, e)[k] = old[k]
    BY <1>1
  <2>3. (\E k \in DOMAIN Append(old, e) : Append(old, e)[k] = x)
          <=> (\E k \in DOMAIN old : old[k] = x) \/ e = x
    BY <2>2
  <2> QED
    BY <1>2, <1>3, <1>5, <2>1, <2>3
<1> QED
  BY <1>4, <1>5

\* The results in the files after a write: those there were, and the one written.
LEMMA HasAfter ==
  ASSUME LogType, rot \in Nat, NEW h \in 0 .. Len(file), NEW e \in Entry, WriteTo(h, e),
         NEW f \in DOMAIN file', NEW r \in Int
  PROVE  HasResult(f, r)' <=> \/ f \in DOMAIN file /\ HasResult(f, r)
                              \/ f = Target(h) /\ e = <<"result", r>>
<1>1. HasEntry(f, <<"result", r>>)' <=> \/ f \in DOMAIN file /\ HasEntry(f, <<"result", r>>)
                                        \/ f = Target(h) /\ e = <<"result", r>>
  BY EntryAfter
<1>2. /\ HasResult(f, r)' <=> HasEntry(f, <<"result", r>>)'
      /\ HasResult(f, r) <=> HasEntry(f, <<"result", r>>)
  BY Zenon DEF HasEntry, HasResult
<1> QED
  BY <1>1, <1>2

LogInv == LogType /\ NamesInv /\ ResultsInv

\* vts_log_write up to the flush.
LEMMA LineStep ==
  ASSUME LogInv, rot \in Nat, NEW k \in Nat, LogLine(k)
  PROVE  LogInv'
<1> USE DEF LogInv
<1>1. /\ lpc = "idle" /\ fp' = Target(fp) /\ WriteTo(fp, <<"line", k>>) /\ lpc' = "stat"
      /\ UNCHANGED <<g_logf, rot, results, muted>>
  BY DEF LogLine
<1>2. fp \in 0 .. Len(file) /\ <<"line", k>> \in Entry
  BY DEF LogType, Entry
<1>o. /\ Len(Files(fp)) \in Nat /\ Len(file) <= Len(Files(fp))
      /\ DOMAIN Files(fp) = 1 .. Len(Files(fp)) /\ Target(fp) \in DOMAIN Files(fp)
      /\ Names(fp) \in [LogNames -> 0 .. Len(Files(fp))]
      /\ fp = NoFile => Names(fp)[LOG0] = Target(fp)
      /\ fp # NoFile => Names(fp) = name /\ Target(fp) = fp
      /\ DOMAIN file = 1 .. Len(file)
  BY <1>2, OpenFacts, Zenon
<1>d. Len(file) \in Nat
  BY DEF LogType
<1>w. /\ file' \in Seq(File) /\ Len(file') = Len(Files(fp)) /\ DOMAIN file' = DOMAIN Files(fp)
      /\ \A f \in DOMAIN file' : file'[f].made = Files(fp)[f].made
      /\ name' = Names(fp)
  BY <1>1, <1>2, WriteFacts
<1>3. LogType'
  BY <1>1, <1>o, <1>d, <1>w DEF LogType
<1>4. \A f \in DOMAIN file' :
        /\ file'[f].made <= IF lpc' = "rename" THEN rot' - 1 ELSE rot'
        /\ file'[f].made >= rot' - 2 => name'[Place(f)'] = f
  BY <1>1, <1>2, <1>w, OpenNames
<1>5. NamesInv'
  BY <1>1, <1>o, <1>w, <1>4 DEF NamesInv, NoFile
<1>6. ResultsInv'
  <2>1. \A f \in DOMAIN file' : \A r \in Int :
          HasResult(f, r)' <=> f \in DOMAIN file /\ HasResult(f, r)
    <3>1. \A r : <<"line", k>> # <<"result", r>>
      OBVIOUS
    <3> QED
      BY <1>1, <1>2, <3>1, HasAfter
  <2>2. g_logf # NoFile => g_logf \in DOMAIN file
    BY <1>o DEF LogType, NoFile
  <2>3. \A r \in Int : r \in muted + 1 .. results => g_logf # NoFile
    BY DEF ResultsInv, LogType
  <2> QED
    BY <1>1, <2>1, <2>2, <2>3 DEF ResultsInv
<1> QED
  BY <1>3, <1>5, <1>6

\* log_write_req_result without a log to write to.
LEMMA MutedStep ==
  ASSUME LogInv, g_logf = NoFile, results' = results + 1, muted' = results + 1,
         UNCHANGED <<name, file, fp, g_logf, lpc, rot>>
  PROVE  LogInv'
<1>1. results \in Nat /\ muted = results
  BY DEF LogInv, LogType, ResultsInv
<1>2. LogType'
  BY <1>1 DEF LogInv, LogType
<1>3. \A f : Place(f)' = Place(f)
  BY DEF Place
<1>4. NamesInv'
  BY <1>3 DEF LogInv, NamesInv
<1>5. \A f, r : HasResult(f, r)' <=> HasResult(f, r)
  BY DEF HasResult
<1>6. \A r \in Int : r \notin muted + 1 .. results /\ r \notin muted' + 1 .. results'
  BY <1>1
<1>7. ResultsInv'
  BY <1>1, <1>5, <1>6 DEF LogInv, ResultsInv
<1> QED BY <1>2, <1>4, <1>7 DEF LogInv

\* log_write_req_result: the first call that opens the log settles the file of all
\* that follow.
LEMMA ResultStep ==
  ASSUME LogInv, rot \in Nat, log_write_req_result, UNCHANGED muted
  PROVE  LogInv'
<1> USE DEF LogInv
<1> DEFINE e == <<"result", results + 1>>
<1>0. results \in Nat /\ muted \in Nat /\ muted <= results
  BY DEF LogType, ResultsInv
<1>1. /\ results' = results + 1 /\ g_logf' = Target(g_logf) /\ WriteTo(g_logf, e)
      /\ UNCHANGED <<fp, lpc, rot, muted>>
  <2>1. ~(g_logf = NoFile /\ muted' = results + 1)
    BY <1>0 DEF ResultsInv
  <2> QED BY <2>1 DEF log_write_req_result
<1>2. g_logf \in 0 .. Len(file) /\ e \in Entry
  BY DEF LogType, Entry
<1>e. \A r : e = <<"result", r>> <=> r = results + 1
  OBVIOUS
<1> HIDE DEF e
<1>o. /\ Len(Files(g_logf)) \in Nat /\ Len(file) <= Len(Files(g_logf))
      /\ DOMAIN Files(g_logf) = 1 .. Len(Files(g_logf)) /\ Target(g_logf) \in DOMAIN Files(g_logf)
      /\ Names(g_logf) \in [LogNames -> 0 .. Len(Files(g_logf))]
      /\ name[LOG0] # NoFile => Names(g_logf) = name
      /\ g_logf # NoFile => Target(g_logf) = g_logf
      /\ DOMAIN file = 1 .. Len(file)
  BY <1>2, OpenFacts, Zenon
<1>d. Len(file) \in Nat
  BY DEF LogType
<1>w. /\ file' \in Seq(File) /\ Len(file') = Len(Files(g_logf)) /\ DOMAIN file' = DOMAIN Files(g_logf)
      /\ \A f \in DOMAIN file' : file'[f].made = Files(g_logf)[f].made
      /\ name' = Names(g_logf)
  BY <1>1, <1>2, WriteFacts
<1>3. LogType'
  BY <1>1, <1>o, <1>d, <1>w DEF LogType
<1>4. \A f \in DOMAIN file' :
        /\ file'[f].made <= IF lpc' = "rename" THEN rot' - 1 ELSE rot'
        /\ file'[f].made >= rot' - 2 => name'[Place(f)'] = f
  BY <1>1, <1>2, <1>w, OpenNames
<1>5. NamesInv'
  BY <1>1, <1>o, <1>w, <1>4 DEF NamesInv, NoFile
<1>6. ResultsInv'
  <2>1. \A f \in DOMAIN file' : \A r \in Int :
          HasResult(f, r)' <=> \/ f \in DOMAIN file /\ HasResult(f, r)
                               \/ f = Target(g_logf) /\ r = results + 1
    BY <1>1, <1>2, <1>e, HasAfter
  <2>2. g_logf # NoFile => g_logf \in DOMAIN file
    BY <1>o DEF LogType, NoFile
  <2>3. \A r \in Int : r \in muted + 1 .. results => g_logf # NoFile
    BY DEF ResultsInv, LogType
  <2>4. \A r \in Int :
          r \in muted + 1 .. results + 1 <=> r \in muted + 1 .. results \/ r = results + 1
    BY <1>0
  <2>5. \A f \in DOMAIN file' : \A r \in Int :
          HasResult(f, r)' <=> (f = Target(g_logf) /\ r \in muted + 1 .. results + 1)
    BY <1>o, <2>1, <2>2, <2>3, <2>4 DEF ResultsInv
  <2> QED
    BY <1>0, <1>1, <1>o, <2>5 DEF ResultsInv, NoFile
<1> QED
  BY <1>3, <1>5, <1>6

\* The first rename: the file two rotations old takes the place of the oldest.
LEMMA StatStep ==
  ASSUME LogInv, rot \in Nat, LogStat
  PROVE  LogInv'
<1> USE DEF LogInv
<1>n. LOG0 = 0 /\ LOG1 = 1 /\ LOG2 = 2 /\ LogNames = 0 .. 2 /\ NoFile = 0
  BY DEF LOG0, LOG1, LOG2, LogNames, NoFile
<1>1. /\ lpc = "stat"
      /\ \/ /\ lpc' = "rename" /\ fp' = NoFile /\ rot' = rot + 1
            /\ name' = IF name[LOG1] = NoFile THEN name
                       ELSE [name EXCEPT ![LOG2] = name[LOG1], ![LOG1] = NoFile]
         \/ lpc' = "idle" /\ UNCHANGED <<fp, rot, name>>
      /\ UNCHANGED <<file, g_logf, results, muted>>
  BY DEF LogStat, Rename, Older
<1>2. ResultsInv'
  BY <1>1, Zenon DEF ResultsInv, HasResult
<1>3. CASE lpc' = "idle"
  <2>1. \A f : Place(f)' = Place(f)
    BY <1>1, <1>3 DEF Place
  <2> QED
    BY <1>1, <1>2, <1>3, <2>1 DEF LogType, NamesInv
<1>4. CASE lpc' = "rename"
  <2>1. /\ fp' = NoFile /\ rot' = rot + 1
        /\ name' = IF name[LOG1] = NoFile THEN name
                   ELSE [name EXCEPT ![LOG2] = name[LOG1], ![LOG1] = NoFile]
    BY <1>1, <1>4
  <2>2. name \in [0 .. 2 -> 0 .. Len(file)] /\ Len(file) \in Nat
    BY <1>n DEF LogType
  <2>3. name' \in [0 .. 2 -> 0 .. Len(file)] /\ name'[0] = name[0] /\ (name[1] # 0 => name'[2] = name[1])
    BY <2>1, <2>2, <1>n
  <2>4. LogType'
    BY <1>1, <1>4, <1>n, <2>1, <2>2, <2>3 DEF LogType
  <2>5. name[0] # NoFile
    BY <1>1, <1>n DEF NamesInv
  <2>6. ASSUME NEW f \in DOMAIN file
        PROVE  file[f].made <= rot' - 1 /\ (file[f].made >= rot' - 2 => name'[Place(f)'] = f)
    <3>1. file[f] \in File /\ f # 0
      BY DEF LogType
    <3>2. file[f].made \in Int
      BY <3>1 DEF File
    <3>3. file[f].made <= rot /\ (file[f].made >= rot - 2 => name[rot - file[f].made] = f)
      BY <1>1 DEF NamesInv, Place
    <3>4. Place(f)' = IF file[f].made = rot THEN 0 ELSE 2
      BY <1>1, <1>4, <2>1, <1>n DEF Place
    <3> QED
      BY <2>1, <2>3, <3>1, <3>2, <3>3, <3>4
  <2>7. NamesInv'
    BY <1>1, <1>4, <1>n, <2>1, <2>3, <2>5, <2>6, Zenon DEF NamesInv
  <2> QED
    BY <1>2, <2>4, <2>7
<1> QED
  BY <1>1, <1>3, <1>4

\* The second rename: LOG0 is free for the file of the new rotation.
LEMMA RenameStep ==
  ASSUME LogInv, rot \in Nat, LogRename
  PROVE  LogInv'
<1> USE DEF LogInv
<1>n. LOG0 = 0 /\ LOG1 = 1 /\ LOG2 = 2 /\ LogNames = 0 .. 2 /\ NoFile = 0
  BY DEF LOG0, LOG1, LOG2, LogNames, NoFile
<1>1. /\ lpc = "rename" /\ lpc' = "reopen"
      /\ name' = IF name[LOG0] = NoFile THEN name
                 ELSE [name EXCEPT ![LOG1] = name[LOG0], ![LOG0] = NoFile]
      /\ UNCHANGED <<file, fp, g_logf, rot, results, muted>>
  BY DEF LogRename, Rename
<1>2. ResultsInv'
  BY <1>1, Zenon DEF ResultsInv, HasResult
<1>3. name \in [0 .. 2 -> 0 .. Len(file)] /\ Len(file) \in Nat /\ name[0] # 0
  BY <1>n, <1>1 DEF LogType, NamesInv
<1>4. name' \in [0 .. 2 -> 0 .. Len(file)] /\ name'[1] = name[0] /\ name'[2] = name[2]
  BY <1>1, <1>3, <1>n
<1>5. LogType'
  BY <1>1, <1>n, <1>3, <1>4 DEF LogType
<1>6. ASSUME NEW f \in DOMAIN file
      PROVE  file[f].made <= rot /\ (file[f].made >= rot - 2 => name'[Place(f)'] = f)
  <2>1. file[f] \in File
    BY DEF LogType
  <2>2. file[f].made \in Int
    BY <2>1 DEF File
  <2>3. /\ file[f].made <= rot - 1
        /\ file[f].made >= rot - 2 => name[IF file[f].made = rot - 1 THEN 0 ELSE 2] = f
    BY <1>1, <1>n DEF NamesInv, Place
  <2>4. Place(f)' = rot - file[f].made
    BY <1>1 DEF Place
  <2> QED
    BY <1>4, <2>2, <2>3, <2>4
<1>7. NamesInv'
  BY <1>1, <1>6, Zenon DEF NamesInv
<1> QED
  BY <1>2, <1>5, <1>7

\* A failure to open the log: the process ends, or the next line tries again.
LEMMA FailStep ==
  ASSUME LogInv, UNCHANGED <<name, file, fp, g_logf, rot, results, muted>>,
         \/ lpc = "idle" /\ lpc' = "crash"
         \/ lpc = "reopen" /\ lpc' = "idle"
  PROVE  LogInv'
<1>1. LogType'
  BY DEF LogInv, LogType
<1>2. \A f : Place(f)' = Place(f)
  BY DEF Place
<1>3. NamesInv'
  BY <1>2 DEF LogInv, NamesInv
<1>4. ResultsInv'
  BY Zenon DEF LogInv, ResultsInv, HasResult
<1> QED BY <1>1, <1>3, <1>4 DEF LogInv

\* The reopening: a file that a worker made meanwhile is found.
LEMMA ReopenStep ==
  ASSUME LogInv, rot \in Nat, LogReopen, ~UNCHANGED <<fp, file, name>>
  PROVE  LogInv'
<1> USE DEF LogInv
<1>1. /\ lpc = "reopen" /\ fp' = Target(fp) /\ file' = Files(fp) /\ name' = Names(fp) /\ lpc' = "idle"
      /\ UNCHANGED <<g_logf, rot, results, muted>>
  BY DEF LogReopen
<1>2. fp \in 0 .. Len(file) /\ fp = NoFile
  BY <1>1 DEF LogType, NamesInv
<1>o. /\ Files(fp) \in Seq(File)
      /\ Len(Files(fp)) \in Nat /\ Len(file) <= Len(Files(fp))
      /\ DOMAIN Files(fp) = 1 .. Len(Files(fp)) /\ Target(fp) \in DOMAIN Files(fp)
      /\ Names(fp) \in [LogNames -> 0 .. Len(Files(fp))]
      /\ fp = NoFile => Names(fp)[LOG0] = Target(fp)
      /\ DOMAIN file = 1 .. Len(file)
  BY <1>2, OpenFacts, Zenon
<1>d. Len(file) \in Nat
  BY DEF LogType
<1>3. LogType'
  BY <1>1, <1>o, <1>d DEF LogType
<1>4. \A f \in DOMAIN file' :
        /\ file'[f].made <= IF lpc' = "rename" THEN rot' - 1 ELSE rot'
        /\ file'[f].made >= rot' - 2 => name'[Place(f)'] = f
  BY <1>1, <1>2, OpenNames
<1>5. NamesInv'
  BY <1>1, <1>2, <1>o, <1>4 DEF NamesInv, NoFile
<1>6. ResultsInv'
  <2>1. ASSUME NEW f \in DOMAIN file', NEW r \in Int
        PROVE  HasResult(f, r)' <=> f \in DOMAIN file /\ HasResult(f, r)
    <3>1. CASE f \in DOMAIN file
      BY <3>1, <1>1, <1>2, OpenFacts DEF HasResult
    <3>2. CASE f \notin DOMAIN file
      <4>1. file'[f].text = <<>>
        BY <3>2, <1>1, <1>2, OpenFacts
      <4> QED
        BY <3>2, <4>1 DEF HasResult
    <3> QED
      BY <3>1, <3>2
  <2>2. g_logf # NoFile => g_logf \in DOMAIN file
    BY <1>o DEF LogType, NoFile
  <2>3. \A r \in Int : r \in muted + 1 .. results => g_logf # NoFile
    BY DEF ResultsInv, LogType
  <2> QED
    BY <1>1, <2>1, <2>2, <2>3 DEF ResultsInv
<1> QED
  BY <1>3, <1>5, <1>6

\* The log is kept by the steps of all the threads.
LEMMA LogStep == LogInv /\ DaemonType /\ [Next]_vars => LogInv'
<1> SUFFICES ASSUME LogInv, DaemonType, [Next]_vars PROVE LogInv'
  OBVIOUS
<1>t. rot \in Nat /\ hand \in Nat
  BY DEF DaemonType
<1>1. CASE CoordsStep /\ CoordsLog
  BY <1>1, <1>t, LineStep DEF CoordsLog
<1>2. CASE CoordsStep /\ CoordsRotate
  <2>1. CASE LogReopen /\ UNCHANGED <<fp, file, name>>
    BY <2>1, FailStep DEF LogReopen
  <2> QED BY <1>2, <1>t, <2>1, StatStep, RenameStep, ReopenStep DEF CoordsRotate, Rotation
<1>3. CASE WorkerStep
  <2>1. CASE UNCHANGED muted
    BY <1>3, <1>t, <2>1, ResultStep DEF WorkerStep
  <2>2. CASE ~UNCHANGED muted
    BY <1>3, <2>2, MutedStep DEF WorkerStep, log_write_req_result
  <2> QED BY <2>1, <2>2
<1>6. CASE CoordsStep /\ CoordsCrash
  BY <1>6, FailStep DEF CoordsCrash, LogCrash
<1>4. CASE UNCHANGED lvars
  <2>1. \A f : Place(f)' = Place(f)
    BY <1>4 DEF Place, lvars
  <2>2. \A f, r : HasResult(f, r)' <=> HasResult(f, r)
    BY <1>4 DEF HasResult, lvars
  <2> QED
    BY <1>4, <2>1, <2>2 DEF lvars, LogInv, LogType, NamesInv, ResultsInv
<1>5. \/ CoordsStep /\ (CoordsLog \/ CoordsRotate \/ CoordsCrash)
      \/ WorkerStep \/ UNCHANGED lvars
  BY DEF Next, Main, StartRecv, StartCoords, StartNet, MainTest, MainPause, JoinCoords, JoinRecv,
     CancelNet, on_sig, RecvStep, CoordsStep, Coords, CoordsPop, CoordsStop, CoordsDrained,
     WriterStep, vars
<1> QED
  BY <1>1, <1>2, <1>3, <1>4, <1>5, <1>6

\* The log at the start: the files of an earlier daemon, if any.
LEMMA LogStart == Init => LogInv
<1> SUFFICES ASSUME Init PROVE LogInv
  OBVIOUS
<1>n. LOG0 = 0 /\ LOG1 = 1 /\ LOG2 = 2 /\ LogNames = 0 .. 2 /\ NoFile = 0
  BY DEF LOG0, LOG1, LOG2, LogNames, NoFile
<1>0. Left \in Nat /\ Left <= 3
  BY LogAssumption
<1>1. /\ file = [f \in 1 .. Left |-> [made |-> f - Left, text |-> <<<<"line", f - Left>>>>]]
      /\ name = [k \in {LOG0, LOG1, LOG2} |-> IF k < Left THEN Left - k ELSE NoFile]
  BY Zenon DEF Init, LogInit
<1>2. /\ fp = NoFile /\ g_logf = NoFile /\ lpc = "idle"
      /\ rot = 0 /\ results = 0 /\ muted = 0
  BY DEF Init, LogInit
<1>3. ASSUME NEW f \in 1 .. Left
      PROVE  /\ file[f] \in File /\ file[f].made = f - Left
             /\ DOMAIN file[f].text = {1} /\ file[f].text[1] = <<"line", f - Left>>
  <2>1. file[f] = [made |-> f - Left, text |-> <<<<"line", f - Left>>>>] /\ f - Left \in Int
    BY <1>0, <1>1
  <2>2. <<"line", f - Left>> \in Entry
    BY <2>1 DEF Entry
  <2>3. <<<<"line", f - Left>>>> \in Seq(Entry)
    BY <2>2
  <2> QED
    BY <2>1, <2>3 DEF File
<1>4. file \in Seq(File) /\ Len(file) = Left /\ DOMAIN file = 1 .. Left
  <2> DEFINE old(f) == [made |-> f - Left, text |-> <<<<"line", f - Left>>>>]
  <2>0. file = [f \in 1 .. Left |-> old(f)]
    BY <1>1
  <2> HIDE DEF old
  <2>1. file \in [1 .. Left -> File]
    BY <2>0, <1>3
  <2> QED
    BY <1>0, <2>1
<1>5. /\ name \in [0 .. 2 -> 0 .. Left]
      /\ \A k \in 0 .. 2 : name[k] = IF k < Left THEN Left - k ELSE 0
  BY <1>0, <1>1, <1>n
<1>6. LogType
  BY <1>2, <1>4, <1>5, <1>n DEF LogType
<1>7. ASSUME NEW f \in DOMAIN file
      PROVE  file[f].made <= rot /\ (file[f].made >= rot - 2 => name[Place(f)] = f)
  BY <1>0, <1>2, <1>3, <1>4, <1>5 DEF Place
<1>8. NamesInv
  BY <1>2, <1>7 DEF NamesInv
<1>9. ResultsInv
  <2>1. ASSUME NEW f \in DOMAIN file, NEW r \in Int PROVE ~HasResult(f, r)
    BY <1>3, <1>4 DEF HasResult
  <2> QED
    BY <1>2, <2>1 DEF ResultsInv
<1> QED
  BY <1>6, <1>8, <1>9 DEF LogInv

-----------------------------------------------------------------------------
(* The lines in the log.                                                    *)

\* Lines are logged in the order of their numbers: those in the ring are younger
\* than the one in thr_coords's hands, and that one is younger than the logged.
OrderInv ==
  /\ hand <= Len(lines)
  /\ \A i \in DOMAIN q : hand < q[i] /\ q[i] <= Len(lines)
  /\ \A i, j \in DOMAIN q : i < j => q[i] < q[j]
  /\ \A i \in DOMAIN said :
       /\ said[i].line <= Len(lines) /\ said[i].at <= rot
       /\ hand # 0 => said[i].line < hand
       /\ \A j \in DOMAIN q : said[i].line < q[j]
       /\ \A j \in DOMAIN said :
            i < j => said[i].line < said[j].line /\ said[i].at <= said[j].at

SaidAt(k, m) == \E i \in DOMAIN said : said[i].line = k /\ said[i].at = m
Sorted(text) ==
  \A i, j \in DOMAIN text : i < j /\ text[i][1] = text[j][1] => text[i][2] < text[j][2]

\* A file has the lines logged in its rotation, and they are in order, as are its
\* results.
TextsSorted == \A f \in DOMAIN file : Sorted(file[f].text)
TextsSaid ==
  \A f \in DOMAIN file : \A k \in Int : HasEntry(f, <<"line", k>>) <=> SaidAt(k, file[f].made)

\* Each of the last three rotations that has lines has a file.
SaidFiled ==
  \A i \in DOMAIN said :
    said[i].at >= rot - 2 => \E f \in DOMAIN file : file[f].made = said[i].at

\* The names have files of the last three rotations only, each in its place, and
\* none is skipped.
NamesPlaced ==
  /\ \A k \in LogNames :
       name[k] # NoFile => file[name[k]].made >= rot - 2 /\ Place(name[k]) = k
  /\ lpc # "rename" /\ name[LOG1] = NoFile => name[LOG2] = NoFile

LinesInv == TextsSorted /\ TextsSaid /\ SaidFiled /\ NamesPlaced

\* The order is kept by a push, which may drop the oldest line of the ring.
LEMMA OrderPush ==
  ASSUME DaemonType, RecvType, OrderInv, NEW l, handle_line(l), UNCHANGED <<hand, said, rot>>
  PROVE  OrderInv'
<1> DEFINE r == IF Len(q) < QueueCap THEN q ELSE Tail(q)
           m == Len(lines) + 1
<1>1. /\ q \in Seq(Nat) /\ Len(lines) \in Nat /\ lines' = Append(lines, l) /\ Len(lines') = m
      /\ q' = Append(r, m) /\ hand \in Nat
  BY DEF handle_line, DaemonType, RecvType
<1>2. r = q \/ (q # <<>> /\ r = Tail(q))
  <2>1. q = <<>> => Len(q) < QueueCap
    BY RecvAssumption
  <2> QED BY <2>1, Zenon
<1> HIDE DEF r, m
<1>3. PICK d \in {0, 1} : /\ r \in Seq(Nat) /\ Len(r) = Len(q) - d
                          /\ \A i \in 1 .. Len(r) : i + d \in DOMAIN q /\ r[i] = q[i + d]
  <2>1. CASE r = q
    <3>1. Len(q) = Len(q) - 0 /\ \A i \in 1 .. Len(q) : i + 0 \in DOMAIN q /\ q[i] = q[i + 0]
      BY <1>1
    <3> QED BY <1>1, <2>1, <3>1, Zenon
  <2>2. CASE q # <<>> /\ r = Tail(q)
    <3>1. /\ Tail(q) \in Seq(Nat) /\ Len(Tail(q)) = Len(q) - 1
          /\ \A i \in 1 .. Len(Tail(q)) : i + 1 \in DOMAIN q /\ Tail(q)[i] = q[i + 1]
      BY <1>1, <2>2
    <3> QED BY <2>2, <3>1, Zenon
  <2> QED BY <1>2, <2>1, <2>2
<1>4. m = Len(lines) + 1 /\ m \in Nat /\ Len(r) \in Nat /\ d \in Nat
  BY <1>1, <1>3 DEF m
<1>5. /\ DOMAIN q' = 1 .. Len(r) + 1
      /\ q'[Len(r) + 1] = m
      /\ \A i \in 1 .. Len(r) : q'[i] = q[i + d] /\ i + d \in DOMAIN q
  BY <1>1, <1>3, <1>4
<1>6. \A i \in DOMAIN q : q[i] \in Nat /\ hand < q[i] /\ q[i] < m
  BY <1>1, <1>4 DEF OrderInv
<1>7. \A i \in DOMAIN q' : q'[i] = m \/ \E k \in DOMAIN q : q'[i] = q[k]
  BY <1>4, <1>5
<1>h. hand \in Nat /\ hand < m /\ hand <= m
  BY <1>1, <1>4 DEF OrderInv
<1>8. ASSUME NEW i \in DOMAIN q' PROVE hand < q'[i] /\ q'[i] <= m
  <2>1. \A k \in DOMAIN q : hand < q[k] /\ q[k] <= m
    BY <1>4, <1>6
  <2>2. hand < m /\ m <= m
    BY <1>4, <1>h
  <2> QED BY <1>7, <2>1, <2>2, Zenon
<1>9. ASSUME NEW i \in DOMAIN q', NEW j \in DOMAIN q', i < j PROVE q'[i] < q'[j]
  <2>1. i \in 1 .. Len(r) /\ q'[i] = q[i + d] /\ i + d \in DOMAIN q
    BY <1>4, <1>5, <1>9
  <2>2. CASE j = Len(r) + 1
    BY <1>5, <1>6, <2>1, <2>2
  <2>3. CASE j # Len(r) + 1
    <3>1. j \in 1 .. Len(r) /\ i + d < j + d
      BY <1>4, <1>5, <1>9, <2>1, <2>3
    <3>3. q'[j] = q[j + d] /\ j + d \in DOMAIN q
      BY <1>5, <3>1, Zenon
    <3>2. \A x, y \in DOMAIN q : x < y => q[x] < q[y]
      BY Zenon DEF OrderInv
    <3> QED BY <2>1, <3>1, <3>2, <3>3, Zenon
  <2> QED BY <2>2, <2>3
<1>10. ASSUME NEW i \in DOMAIN said
       PROVE  /\ said[i].line <= m /\ \A j \in DOMAIN q' : said[i].line < q'[j]
  <2>1. said[i] \in Line
    BY DEF DaemonType
  <2>2. said[i].line \in Int /\ said[i].line < m
    BY <1>1, <1>4, <2>1 DEF Line, OrderInv
  <2>3. \A k \in DOMAIN q : said[i].line < q[k]
    BY DEF OrderInv
  <2> QED BY <1>4, <1>7, <2>2, <2>3
<1>11. ASSUME NEW i \in DOMAIN said
       PROVE  /\ said[i].at <= rot
              /\ hand # 0 => said[i].line < hand
              /\ \A j \in DOMAIN said :
                   i < j => said[i].line < said[j].line /\ said[i].at <= said[j].at
  BY Zenon DEF OrderInv
<1>12. Len(lines') = m /\ hand' = hand /\ said' = said /\ rot' = rot
  BY <1>1
<1> QED BY <1>h, <1>8, <1>9, <1>10, <1>11, <1>12, Zenon DEF OrderInv

\* The line that thr_coords takes is the oldest in the ring.
LEMMA OrderPop ==
  ASSUME DaemonType, RecvType, OrderInv, hand = 0, q # <<>>, hand' = Head(q), q' = Tail(q),
         UNCHANGED <<lines, said, rot>>
  PROVE  OrderInv'
<1>1. /\ q \in Seq(Nat) /\ 1 \in DOMAIN q /\ hand' = q[1] /\ q' \in Seq(Nat) /\ hand' \in Nat
      /\ \A i \in DOMAIN q' : i + 1 \in DOMAIN q /\ 1 < i + 1 /\ q'[i] = q[i + 1]
      /\ \A i, j \in DOMAIN q' : i < j => i + 1 < j + 1
  BY DEF DaemonType
<1>2. hand' <= Len(lines)
  BY <1>1 DEF OrderInv
<1>3. \A i \in DOMAIN q' : hand' < q'[i] /\ q'[i] <= Len(lines)
  BY <1>1 DEF OrderInv
<1>4. \A i, j \in DOMAIN q' : i < j => q'[i] < q'[j]
  BY <1>1 DEF OrderInv
<1>5. \A i \in DOMAIN said : said[i].line < hand' /\ \A j \in DOMAIN q' : said[i].line < q'[j]
  BY <1>1 DEF OrderInv
<1> QED BY <1>2, <1>3, <1>4, <1>5 DEF OrderInv

\* The line that is logged is the youngest in the log.
LEMMA OrderLog ==
  ASSUME DaemonType, RecvType, OrderInv, hand # 0, LogLine(hand), hand' = 0,
         UNCHANGED <<lines, q>>
  PROVE  OrderInv'
<1> DEFINE e == [line |-> hand, at |-> rot]
<1>1. /\ said \in Seq(Line) /\ e \in Line /\ said' = Append(said, e) /\ rot' = rot
      /\ e.line = hand /\ e.at = rot /\ hand \in Nat /\ rot \in Nat /\ q \in Seq(Nat)
      /\ Len(lines) \in Nat
  BY DEF LogLine, DaemonType, RecvType, Line
<1> HIDE DEF e
<1>2. /\ Len(said) \in Nat /\ DOMAIN said' = 1 .. Len(said) + 1 /\ said'[Len(said) + 1] = e
      /\ \A i \in 1 .. Len(said) : said'[i] = said[i] /\ i \in DOMAIN said
  BY <1>1
<1>3. \A j \in DOMAIN q : 0 < q[j] /\ hand < q[j] /\ q[j] <= Len(lines)
  BY <1>1 DEF OrderInv
<1>4. \A i \in DOMAIN said' : i \in 1 .. Len(said) \/ i = Len(said) + 1
  BY <1>2
<1>5. ASSUME NEW i \in DOMAIN said'
      PROVE  /\ said'[i].line <= Len(lines) /\ said'[i].at <= rot
             /\ \A j \in DOMAIN q : said'[i].line < q[j]
  <2>1. CASE i \in 1 .. Len(said)
    BY <1>2, <2>1 DEF OrderInv
  <2>2. CASE i = Len(said) + 1
    BY <1>1, <1>2, <1>3, <2>2 DEF OrderInv
  <2> QED BY <1>4, <2>1, <2>2
<1>6. ASSUME NEW i \in DOMAIN said', NEW j \in DOMAIN said', i < j
      PROVE  said'[i].line < said'[j].line /\ said'[i].at <= said'[j].at
  <2>1. i \in 1 .. Len(said)
    BY <1>2, <1>6
  <2>2. CASE j \in 1 .. Len(said)
    BY <1>2, <1>6, <2>1, <2>2 DEF OrderInv
  <2>3. CASE j = Len(said) + 1
    BY <1>1, <1>2, <2>1, <2>3 DEF OrderInv
  <2> QED BY <1>4, <2>2, <2>3
<1>7. 0 <= Len(lines) /\ \A i, j \in DOMAIN q : i < j => q[i] < q[j]
  BY <1>1 DEF OrderInv
<1> QED BY <1>1, <1>3, <1>5, <1>6, <1>7 DEF OrderInv

\* The order is kept by the steps of all the threads.
LEMMA OrderStep == DaemonType /\ RecvType /\ OrderInv /\ [Next]_vars => OrderInv'
<1> SUFFICES ASSUME DaemonType, RecvType, OrderInv, [Next]_vars PROVE OrderInv'
  OBVIOUS
<1>1. CASE RecvStep /\ ~UNCHANGED qvars
  <2>1. handle_line(line)
    BY <1>1 DEF RecvStep, Receiver, RecvOpen, RecvTest, RecvStop, RecvTimeout,
       RecvHup, RecvReady, RecvReopen, RecvWake, RecvRead, RecvSplit
  <2>2. UNCHANGED <<hand, said, rot>>
    BY <1>1 DEF RecvStep, lvars, cvars
  <2> QED BY <2>1, <2>2, OrderPush
<1>2. CASE CoordsStep /\ CoordsPop
  BY <1>2, OrderPop DEF CoordsPop, lvars
<1>3. CASE CoordsStep /\ CoordsLog
  BY <1>3, OrderLog DEF CoordsLog, rvars, qvars
<1>4. CASE JoinRecv
  <2>1. q' = <<>> /\ UNCHANGED <<hand, lines, said, rot>>
    BY <1>4 DEF JoinRecv, cvars, lvars
  <2>2. DOMAIN q' = {}
    BY <2>1
  <2> QED BY <2>1, <2>2 DEF OrderInv
<1>5. CASE UNCHANGED <<hand, lines, q, said>> /\ rot' \in {rot, rot + 1}
  <2>1. ASSUME NEW i \in DOMAIN said PROVE said[i].at <= rot'
    <3>1. said[i] \in Line /\ rot \in Nat
      BY DEF DaemonType
    <3>2. said[i].at \in Int /\ said[i].at <= rot
      BY <3>1 DEF OrderInv, Line
    <3> QED BY <1>5, <3>1, <3>2
  <2> QED BY <1>5, <2>1 DEF OrderInv
<1>6. CASE RecvStep /\ UNCHANGED qvars
  BY <1>5, <1>6 DEF RecvStep, lvars, cvars, qvars
<1>7. CASE CoordsStep /\ (CoordsRotate \/ CoordsCrash)
  BY <1>5, <1>7 DEF CoordsRotate, Rotation, LogStat, LogRename, LogReopen, CoordsCrash, LogCrash,
     rvars, cvars, qvars
<1>8. CASE WorkerStep \/ WriterStep
  BY <1>5, <1>8 DEF WorkerStep, log_write_req_result, WriterStep, Writer, WriterOpen, WriterWrite,
     WriterClose, rvars, lvars, cvars, qvars
<1>9. CASE CoordsStep /\ (CoordsStop \/ CoordsDrained)
  BY <1>5, <1>9 DEF CoordsStop, CoordsDrained, rvars, lvars, qvars
<1>10. CASE on_sig \/ StartRecv \/ StartCoords \/ StartNet \/ MainTest \/ MainPause \/ JoinCoords
            \/ CancelNet \/ UNCHANGED vars
  BY <1>5, <1>10 DEF on_sig, StartRecv, StartCoords, StartNet, MainTest, MainPause, JoinCoords,
     CancelNet, vars, rvars, lvars, cvars, qvars
<1> QED
  BY <1>1, <1>2, <1>3, <1>4, <1>6, <1>7, <1>8, <1>9, <1>10 DEF Next, Main, CoordsStep, Coords

\* Append adds one place behind the others.
LEMMA AppendPlaces ==
  ASSUME NEW S, NEW text \in Seq(S), NEW e \in S
  PROVE  /\ Len(text) \in Nat /\ DOMAIN text = 1 .. Len(text)
         /\ DOMAIN Append(text, e) = 1 .. Len(text) + 1 /\ Append(text, e)[Len(text) + 1] = e
         /\ \A i \in DOMAIN text : Append(text, e)[i] = text[i]
  OBVIOUS

\* A text stays sorted if what is added is younger than the others of its kind.
LEMMA SortedAppend ==
  ASSUME NEW text \in Seq(Entry), NEW e \in Entry, Sorted(text),
         \A i \in DOMAIN text : text[i][1] = e[1] => text[i][2] < e[2]
  PROVE  Sorted(Append(text, e))
<1> DEFINE t == Append(text, e)
           n1 == Len(text) + 1
<1>1. /\ Len(text) \in Nat /\ DOMAIN text = 1 .. Len(text) /\ DOMAIN t = 1 .. n1 /\ t[n1] = e
      /\ \A i \in DOMAIN text : t[i] = text[i]
  BY AppendPlaces
<1> HIDE DEF t
<1> SUFFICES ASSUME NEW i \in DOMAIN t, NEW j \in DOMAIN t, i < j, t[i][1] = t[j][1]
             PROVE  t[i][2] < t[j][2]
  BY Zenon DEF Sorted, t
<1>2. i \in DOMAIN text /\ (j \in DOMAIN text \/ j = n1)
  BY <1>1
<1> HIDE DEF n1
<1>3. CASE j \in DOMAIN text
  BY <1>1, <1>2, <1>3, Zenon DEF Sorted
<1>4. CASE j = n1
  BY <1>1, <1>2, <1>4, Zenon
<1> QED BY <1>2, <1>3, <1>4

\* A new file is the first of its rotation: no line of that rotation was logged.
LEMMA NewFile ==
  ASSUME LogInv, LinesInv, rot \in Nat, NEW h \in 0 .. Len(file),
         NEW f \in DOMAIN Files(h) \ DOMAIN file, NEW k
  PROVE  ~SaidAt(k, rot)
<1> SUFFICES ASSUME NEW i \in DOMAIN said, said[i].at = rot PROVE FALSE
  BY Zenon DEF SaidAt
<1>1. name[LOG0] = NoFile
  BY OpenFacts DEF LogInv
<1>2. PICK g \in DOMAIN file : file[g].made = rot
  BY DEF LinesInv, SaidFiled
<1>3. lpc # "rename" /\ name[Place(g)] = g
  BY <1>2 DEF LogInv, NamesInv
<1>4. Place(g) = LOG0
  BY <1>2, <1>3 DEF Place, LOG0
<1>5. g # NoFile
  BY DEF LogInv, LogType, NoFile
<1> QED BY <1>1, <1>3, <1>4, <1>5

\* Opening the log leaves the names to the files that had them, and LOG0 to a file
\* made now if it was free.
LEMMA OpenPlaces ==
  ASSUME LogInv, LinesInv, rot \in Nat, NEW h \in 0 .. Len(file),
         name' = Names(h), rot' = rot, lpc' = "rename" <=> lpc = "rename",
         DOMAIN file' = DOMAIN Files(h),
         \A f \in DOMAIN file' : file'[f].made = Files(h)[f].made
  PROVE  /\ NamesPlaced'
         /\ \A f \in DOMAIN file : f \in DOMAIN file' /\ file'[f].made = file[f].made
<1>n. LOG0 = 0 /\ LOG1 = 1 /\ LOG2 = 2 /\ LogNames = 0 .. 2 /\ NoFile = 0
  BY DEF LOG0, LOG1, LOG2, LogNames, NoFile
<1>1. name'[LOG1] = name[LOG1] /\ name'[LOG2] = name[LOG2]
  BY <1>n, OpenFacts DEF LogInv
<1>2. \A f \in DOMAIN file : f \in DOMAIN file' /\ file'[f].made = file[f].made
  BY OpenFacts DEF LogInv
<1>3. ASSUME NEW k \in LogNames, name'[k] # NoFile
      PROVE  file'[name'[k]].made >= rot' - 2 /\ Place(name[k])' = k
  <2>1. CASE name'[k] = name[k]
    <3>1. name[k] \in DOMAIN file
      BY <1>3, <2>1, <1>n DEF LogInv, LogType
    <3>2. file[name[k]].made >= rot - 2 /\ Place(name[k]) = k
      BY <1>3, <2>1, Zenon DEF LinesInv, NamesPlaced
    <3>3. Place(name[k])' = Place(name[k])
      BY <1>2, <2>1, <3>1 DEF Place
    <3> QED BY <1>2, <2>1, <3>1, <3>2, <3>3
  <2>2. CASE name'[k] # name[k]
    <3>1. k = LOG0 /\ name[LOG0] = NoFile /\ h = NoFile
      BY <2>2, OpenFacts DEF LogInv
    <3>2. name'[k] = Target(h) /\ Target(h) = Len(file) + 1
      BY <3>1, OpenFacts DEF Target, LogInv
    <3>3. Target(h) \in DOMAIN Files(h) \ DOMAIN file
      <4>1. Target(h) \in DOMAIN Files(h)
        BY OpenFacts DEF LogInv
      <4>2. Target(h) \notin DOMAIN file
        BY <3>2 DEF LogInv, LogType
      <4> QED BY <4>1, <4>2, Zenon
    <3>4. file'[name'[k]].made = rot
      <4>1. Files(h)[Target(h)].made = rot
        BY <3>3, OpenFacts DEF LogInv
      <4>2. Target(h) \in DOMAIN file'
        BY <3>3, Zenon
      <4> QED BY <3>2, <4>1, <4>2, Zenon
    <3>5. lpc' # "rename"
      BY <3>1 DEF LogInv, NamesInv
    <3>6. Place(name[k])' = rot' - file'[name'[k]].made
      BY <3>5 DEF Place
    <3> QED BY <3>1, <3>4, <3>6, <1>n
  <2> QED BY <2>1, <2>2
<1>4. lpc' # "rename" /\ name'[LOG1] = NoFile => name'[LOG2] = NoFile
  BY <1>1, Zenon DEF LinesInv, NamesPlaced
<1> QED BY <1>2, <1>3, <1>4, Zenon DEF NamesPlaced

\* A write of a result or of a line younger than those in its file leaves the
\* results and the lines of every file in order.
LEMMA SortedWritten ==
  ASSUME LogInv, LinesInv, rot \in Nat, NEW h \in 0 .. Len(file), NEW e \in Entry, WriteTo(h, e),
         \A f \in DOMAIN file : \A k \in Int : f = Target(h) /\ HasEntry(f, <<e[1], k>>) => k < e[2]
  PROVE  TextsSorted'
<1> DEFINE T == Target(h)
           old(f) == Files(h)[f].text
<1>1. LogType
  BY DEF LogInv
<1>2. /\ DOMAIN file' = DOMAIN Files(h) /\ T \in DOMAIN file'
      /\ \A f \in DOMAIN file' : f # T => file'[f].text = old(f)
      /\ file'[T].text = Append(old(T), e)
  BY <1>1, WriteFacts, OpenFacts
<1>3. /\ \A f \in DOMAIN file : Files(h)[f] = file[f]
      /\ \A f \in DOMAIN Files(h) \ DOMAIN file : old(f) = <<>>
  BY <1>1, OpenFacts
<1>4. Files(h) \in Seq(File)
  BY <1>1, OpenFacts
<1> HIDE DEF T
<1>5. ASSUME NEW f \in DOMAIN file' PROVE Sorted(old(f)) /\ old(f) \in Seq(Entry)
  <2>1. Files(h)[f] \in File
    BY <1>2, <1>4
  <2>2. old(f) \in Seq(Entry)
    BY <2>1 DEF File
  <2>3. CASE f \in DOMAIN file
    <3>1. Sorted(file[f].text)
      BY <2>3, Zenon DEF LinesInv, TextsSorted
    <3> QED BY <1>3, <2>2, <2>3, <3>1, Zenon
  <2>4. CASE f \notin DOMAIN file
    <3>1. DOMAIN old(f) = {}
      BY <1>2, <1>3, <2>4
    <3> QED BY <2>2, <3>1, Zenon DEF Sorted
  <2> QED BY <2>3, <2>4
<1>6. ASSUME NEW i \in DOMAIN old(T), old(T)[i][1] = e[1] PROVE old(T)[i][2] < e[2]
  <2> DEFINE x == old(T)[i]
  <2>1. old(T) \in Seq(Entry)
    BY <1>2, <1>5, Zenon
  <2>2. x \in Entry /\ x[1] = e[1]
    BY <1>6, <2>1
  <2>3. T \in DOMAIN file
    <3> SUFFICES ASSUME T \notin DOMAIN file PROVE FALSE
      OBVIOUS
    <3>1. DOMAIN old(T) = {}
      BY <1>2, <1>3
    <3> QED BY <1>6, <3>1, Zenon
  <2>4. HasEntry(T, x)
    BY <1>3, <1>6, <2>3, Zenon DEF HasEntry
  <2> HIDE DEF x
  <2>5. x[2] \in Int /\ x = <<e[1], x[2]>>
    BY <2>2 DEF Entry
  <2>6. x[2] < e[2]
    BY <1>6, <2>3, <2>4, <2>5, Zenon DEF T
  <2> QED BY <2>6 DEF x
<1> HIDE DEF old
<1>7. Sorted(Append(old(T), e))
  BY <1>2, <1>5, <1>6, SortedAppend
<1>8. \A f \in DOMAIN file' : Sorted(file'[f].text)
  BY <1>2, <1>5, <1>7, Zenon
<1> QED BY <1>8, Zenon DEF TextsSorted, Sorted

\* What a write to h means for the lines said: an entry that is a line was said in
\* the rotation of its file, and nothing else was.
Says(h, e) ==
  /\ \A f \in DOMAIN file' : \A k \in Int :
       SaidAt(k, file[f].made)' <=> SaidAt(k, file'[f].made) \/ (f = Target(h) /\ e = <<"line", k>>)
  /\ \A i \in DOMAIN said' :
       \/ i \in DOMAIN said /\ said'[i] = said[i]
       \/ said'[i].at = file'[Target(h)].made

\* A write after which each file has the lines of its rotation, in order.
LEMMA LinesWritten ==
  ASSUME LogInv, LinesInv, rot \in Nat, NEW h \in 0 .. Len(file), NEW e \in Entry, WriteTo(h, e),
         rot' = rot, lpc' = "rename" <=> lpc = "rename", TextsSorted', Says(h, e)
  PROVE  LinesInv'
<1>t. LogType
  BY Zenon DEF LogInv
<1>1. /\ DOMAIN file' = DOMAIN Files(h) /\ name' = Names(h) /\ Target(h) \in DOMAIN file'
      /\ \A f \in DOMAIN file' : file'[f].made = Files(h)[f].made
  <2>1. Target(h) \in DOMAIN Files(h)
    BY <1>t, OpenFacts, Zenon
  <2> QED BY <1>t, <2>1, WriteFacts, Zenon
<1>2. NamesPlaced' /\ \A f \in DOMAIN file : f \in DOMAIN file' /\ file'[f].made = file[f].made
  BY <1>1, OpenPlaces, Zenon
<1>3. ASSUME NEW f \in DOMAIN file', f \notin DOMAIN file, NEW k PROVE ~SaidAt(k, file'[f].made)
  <2>1. f \in DOMAIN Files(h) \ DOMAIN file
    BY <1>1, <1>3, Zenon
  <2>2. file'[f].made = rot
    <3>1. Files(h)[f].made = rot
      BY <1>t, <2>1, OpenFacts
    <3> QED BY <1>1, <1>3, <3>1, Zenon
  <2>3. ~SaidAt(k, rot)
    BY <2>1, NewFile
  <2> QED BY <2>2, <2>3, Zenon
<1>4. ASSUME NEW f \in DOMAIN file', NEW k \in Int
      PROVE  HasEntry(f, <<"line", k>>)' <=> SaidAt(k, file[f].made)'
  <2>1. HasEntry(f, <<"line", k>>)' <=> \/ f \in DOMAIN file /\ HasEntry(f, <<"line", k>>)
                                        \/ f = Target(h) /\ e = <<"line", k>>
    BY <1>t, EntryAfter
  <2>2. SaidAt(k, file[f].made)' <=> SaidAt(k, file'[f].made) \/ (f = Target(h) /\ e = <<"line", k>>)
    BY Zenon DEF Says
  <2>3. ASSUME f \in DOMAIN file PROVE HasEntry(f, <<"line", k>>) <=> SaidAt(k, file'[f].made)
    <3>1. HasEntry(f, <<"line", k>>) <=> SaidAt(k, file[f].made)
      BY <2>3, Zenon DEF LinesInv, TextsSaid
    <3> QED BY <1>2, <2>3, <3>1, Zenon
  <2>4. f \notin DOMAIN file => ~SaidAt(k, file'[f].made)
    BY <1>3, Zenon
  <2>5. CASE f \in DOMAIN file
    BY <2>1, <2>2, <2>3, <2>5, Zenon
  <2>6. CASE f \notin DOMAIN file
    BY <2>1, <2>2, <2>4, <2>6, Zenon
  <2> QED BY <2>5, <2>6, Zenon
<1>5. TextsSaid'
  BY <1>4, Zenon DEF TextsSaid
<1>6. ASSUME NEW i \in DOMAIN said', said'[i].at >= rot - 2
      PROVE  \E f \in DOMAIN file' : file'[f].made = said'[i].at
  <2>1. CASE i \in DOMAIN said /\ said'[i] = said[i]
    BY <1>2, <1>6, <2>1, Zenon DEF LinesInv, SaidFiled
  <2>2. CASE said'[i].at = file'[Target(h)].made
    BY <1>1, <2>2, Zenon
  <2> QED BY <2>1, <2>2, Zenon DEF Says
<1>7. SaidFiled'
  BY <1>6, Zenon DEF SaidFiled
<1> QED
  BY <1>2, <1>5, <1>7 DEF LinesInv

\* The file that vts_log_write adds to is the one made in this rotation.
LEMMA CurrentFile ==
  ASSUME LogInv, LinesInv, rot \in Nat, lpc = "idle",
         NEW f \in DOMAIN Files(fp)
  PROVE  Files(fp)[f].made = rot <=> f = Target(fp)
<1>n. LOG0 = 0 /\ LOG0 \in LogNames /\ NoFile = 0
  BY DEF LOG0, LogNames, NoFile
<1>1. fp \in 0 .. Len(file) /\ name[LOG0] \in 0 .. Len(file)
  BY <1>n DEF LogInv, LogType
<1>2. CASE f \notin DOMAIN file
  BY <1>1, <1>2, OpenFacts DEF LogInv
<1>3. CASE f \in DOMAIN file
  <2>1. Files(fp)[f] = file[f] /\ f # NoFile
    BY <1>1, <1>3, <1>n, OpenFacts DEF LogInv, LogType
  <2>2. file[f] \in File
    BY <1>3 DEF LogInv, LogType
  <2>3. file[f].made \in Int /\ Place(f) = rot - file[f].made
    BY <2>2 DEF File, Place
  <2>4. ASSUME file[f].made = rot PROVE f = Target(fp)
    <3>1. Place(f) = LOG0
      BY <2>3, <2>4, <1>n
    <3>2. name[LOG0] = f
      BY <1>3, <2>4, <3>1 DEF LogInv, NamesInv
    <3> QED BY <2>1, <3>2 DEF LogInv, NamesInv, Target
  <2>5. ASSUME f = Target(fp) PROVE file[f].made = rot
    <3>1. f # Len(file) + 1
      BY <1>3 DEF LogInv, LogType
    <3>2. name[LOG0] = f
      BY <2>5, <3>1 DEF LogInv, NamesInv, Target
    <3>3. Place(f) = LOG0
      BY <2>1, <3>2, <1>n, Zenon DEF LinesInv, NamesPlaced
    <3> QED BY <2>3, <3>3, <1>n
  <2> QED BY <2>1, <2>4, <2>5
<1> QED BY <1>2, <1>3

\* vts_log_write: the line is younger than those of the file it goes to.
LEMMA LinesLog ==
  ASSUME LogInv, LinesInv, OrderInv, DaemonType, hand # 0, LogLine(hand)
  PROVE  LinesInv'
<1> DEFINE e == <<"line", hand>>
           new == [line |-> hand, at |-> rot]
<1>1. /\ WriteTo(fp, e) /\ said' = Append(said, new) /\ rot' = rot
      /\ lpc = "idle" /\ lpc' = "stat"
  BY DEF LogLine
<1>2. /\ fp \in 0 .. Len(file) /\ rot \in Nat /\ hand \in Nat /\ said \in Seq(Line)
  BY DEF LogInv, LogType, DaemonType
<1>3. e \in Entry /\ e[1] = "line" /\ e[2] = hand /\ \A k : e = <<"line", k>> <=> k = hand
  BY <1>2 DEF Entry
<1>4. new.line = hand /\ new.at = rot
  OBVIOUS
<1> HIDE DEF e, new
<1>5. /\ DOMAIN said = 1 .. Len(said) /\ DOMAIN said' = 1 .. Len(said) + 1 /\ Len(said) \in Nat
      /\ said'[Len(said) + 1] = new
      /\ \A i \in DOMAIN said : said'[i] = said[i]
  BY <1>1, <1>2
<1>6. /\ DOMAIN file' = DOMAIN Files(fp) /\ Target(fp) \in DOMAIN file'
      /\ \A f \in DOMAIN file' : file'[f].made = Files(fp)[f].made
  BY <1>1, <1>2, <1>3, WriteFacts, OpenFacts DEF LogInv
<1>7. \A f \in DOMAIN file' : file'[f].made = rot <=> f = Target(fp)
  BY <1>1, <1>2, <1>6, CurrentFile
<1>8. ASSUME NEW f \in DOMAIN file, NEW k \in Int, HasEntry(f, <<"line", k>>) PROVE k < e[2]
  <2>1. SaidAt(k, file[f].made)
    BY <1>8, Zenon DEF LinesInv, TextsSaid
  <2> QED BY <1>3, <2>1 DEF SaidAt, OrderInv
<1>9. ASSUME NEW f \in DOMAIN file', NEW k \in Int
      PROVE  SaidAt(k, file[f].made)' <=> SaidAt(k, file'[f].made) \/ (f = Target(fp) /\ e = <<"line", k>>)
  <2> DEFINE m == file'[f].made
  <2>0. SaidAt(k, file[f].made)' <=> \E i \in DOMAIN said' : said'[i].line = k /\ said'[i].at = m
    BY DEF SaidAt
  <2>1. f = Target(fp) <=> m = rot
    BY <1>7
  <2> HIDE DEF m
  <2>2. (\E i \in DOMAIN said' : said'[i].line = k /\ said'[i].at = m)
          <=> (\E i \in DOMAIN said : said[i].line = k /\ said[i].at = m) \/ (k = hand /\ m = rot)
    BY <1>4, <1>5
  <2> QED BY <1>3, <2>0, <2>1, <2>2, Zenon DEF SaidAt, m
<1>10. ASSUME NEW i \in DOMAIN said'
       PROVE  \/ i \in DOMAIN said /\ said'[i] = said[i]
              \/ said'[i].at = file'[Target(fp)].made
  BY <1>4, <1>5, <1>6, <1>7
<1>11. lpc' = "rename" <=> lpc = "rename"
  BY <1>1
<1>12. TextsSorted'
  BY <1>1, <1>2, <1>3, <1>8, SortedWritten
<1>13. Says(fp, e)
  BY <1>9, <1>10, Zenon DEF Says
<1> QED
  BY <1>1, <1>2, <1>3, <1>11, <1>12, <1>13, LinesWritten

\* log_write_req_result adds no line.
LEMMA LinesResult ==
  ASSUME LogInv, LinesInv, rot \in Nat, log_write_req_result, UNCHANGED muted
  PROVE  LinesInv'
<1> DEFINE e == <<"result", results + 1>>
<1>2. g_logf \in 0 .. Len(file) /\ results \in Nat
  BY DEF LogInv, LogType
<1>1. WriteTo(g_logf, e) /\ said' = said /\ rot' = rot /\ lpc' = lpc
  <2>1. ~(g_logf = NoFile /\ muted' = results + 1)
    BY <1>2 DEF LogInv, ResultsInv
  <2> QED BY <2>1 DEF log_write_req_result
<1>3. e \in Entry /\ e[1] = "result" /\ e[2] = results + 1 /\ \A k : e # <<"line", k>>
  BY <1>2 DEF Entry
<1>6. ASSUME NEW f \in DOMAIN file, NEW k \in Int, HasEntry(f, <<e[1], k>>) PROVE k < e[2]
  <2>1. HasResult(f, k)
    BY <1>6 DEF HasEntry, HasResult
  <2>2. k \in muted + 1 .. results
    BY <2>1 DEF LogInv, ResultsInv
  <2> QED BY <1>2, <2>2
<1> HIDE DEF e
<1>4. Says(g_logf, e)
  <2>1. \A f \in DOMAIN file' : \A k \in Int : SaidAt(k, file[f].made)' <=> SaidAt(k, file'[f].made)
    BY <1>1 DEF SaidAt
  <2> QED BY <1>1, <1>3, <2>1, Zenon DEF Says
<1>5. TextsSorted'
  BY <1>1, <1>2, <1>3, <1>6, SortedWritten
<1> QED
  BY <1>1, <1>2, <1>3, <1>4, <1>5, LinesWritten

\* What is in the files stays with them when they are renamed.
LEMMA LinesRenamed ==
  ASSUME LinesInv, rot \in Nat, said \in Seq(Line), UNCHANGED <<file, said>>, rot' \in {rot, rot + 1}
  PROVE  TextsSorted' /\ TextsSaid' /\ SaidFiled'
<1>1. TextsSorted'
  BY DEF LinesInv, TextsSorted, Sorted
<1>2. TextsSaid'
  BY Zenon DEF LinesInv, TextsSaid, HasEntry, SaidAt
<1>3. ASSUME NEW i \in DOMAIN said', said'[i].at >= rot' - 2
      PROVE  \E f \in DOMAIN file' : file'[f].made = said'[i].at
  <2>1. said[i] \in Line
    OBVIOUS
  <2>2. said[i].at \in Int
    BY <2>1 DEF Line
  <2>3. said[i].at >= rot - 2
    BY <1>3, <2>2
  <2> QED BY <2>3, Zenon DEF LinesInv, SaidFiled
<1> QED BY <1>1, <1>2, <1>3, Zenon DEF SaidFiled

\* The first rename loses the lines of the rotation three ago, and no others.
LEMMA LinesStat ==
  ASSUME LogInv, LinesInv, DaemonType, LogStat
  PROVE  LinesInv'
<1>n. LOG0 = 0 /\ LOG1 = 1 /\ LOG2 = 2 /\ LogNames = 0 .. 2 /\ NoFile = 0
  BY DEF LOG0, LOG1, LOG2, LogNames, NoFile
<1>1. /\ lpc = "stat"
      /\ \/ /\ lpc' = "rename" /\ rot' = rot + 1
            /\ name' = IF name[1] = 0 THEN name ELSE [name EXCEPT ![2] = name[1], ![1] = 0]
         \/ lpc' = "idle" /\ UNCHANGED <<rot, name>>
      /\ UNCHANGED <<file, said>>
  BY <1>n DEF LogStat, Rename, Older
<1>2. /\ rot \in Nat /\ said \in Seq(Line) /\ file \in Seq(File)
      /\ name \in [0 .. 2 -> 0 .. Len(file)] /\ Len(file) \in Nat
  BY <1>n DEF DaemonType, LogInv, LogType
<1>3. rot' \in {rot, rot + 1}
  BY <1>1
<1>4. ASSUME NEW k \in 0 .. 2, name[k] # 0
      PROVE  name[k] \in DOMAIN file /\ file[name[k]].made = rot - k /\ rot - k \in Int
  <2>1. name[k] \in DOMAIN file
    BY <1>2, <1>4
  <2>2. file[name[k]] \in File
    BY <1>2, <2>1
  <2>3. file[name[k]].made \in Int
    BY <2>2 DEF File
  <2>4. rot - file[name[k]].made = k
    BY <1>1, <1>4, <1>n DEF LinesInv, NamesPlaced, Place
  <2> QED BY <1>2, <2>1, <2>3, <2>4
<1>5. name[1] = 0 => name[2] = 0
  BY <1>1, <1>n DEF LinesInv, NamesPlaced
<1>6. ASSUME NEW k \in 0 .. 2, name'[k] # 0
      PROVE  file[name'[k]].made >= rot' - 2 /\ Place(name[k])' = k
  <2>1. CASE lpc' = "idle"
    <3>1. UNCHANGED <<rot, name>>
      BY <1>1, <2>1
    <3>2. Place(name[k])' = rot - file[name[k]].made
      BY <1>1, <2>1, <3>1 DEF Place
    <3> QED BY <1>2, <1>4, <1>6, <3>1, <3>2
  <2>2. CASE lpc' = "rename"
    <3>1. /\ rot' = rot + 1
          /\ name' = IF name[1] = 0 THEN name ELSE [name EXCEPT ![2] = name[1], ![1] = 0]
      BY <1>1, <2>2
    <3>2. \/ k = 0 /\ name'[k] = name[0] /\ name[0] # 0
          \/ k = 2 /\ name'[k] = name[1] /\ name[1] # 0
      BY <1>2, <1>5, <1>6, <3>1
    <3>3. Place(name[k])' = IF file[name'[k]].made = rot' - 1 THEN 0 ELSE 2
      BY <1>1, <1>n, <2>2 DEF Place
    <3>4. CASE k = 0 /\ name'[k] = name[0] /\ name[0] # 0
      <4>1. file[name'[k]].made = rot
        BY <1>2, <1>4, <3>4
      <4> QED BY <1>2, <3>1, <3>3, <3>4, <4>1
    <3>5. CASE k = 2 /\ name'[k] = name[1] /\ name[1] # 0
      <4>1. file[name'[k]].made = rot - 1
        BY <1>2, <1>4, <3>5
      <4> QED BY <1>2, <3>1, <3>3, <3>5, <4>1
    <3> QED BY <3>2, <3>4, <3>5
  <2> QED BY <1>1, <2>1, <2>2
<1>7. NamesPlaced'
  BY <1>1, <1>5, <1>6, <1>n DEF NamesPlaced
<1> QED
  BY <1>1, <1>2, <1>3, <1>7, LinesRenamed DEF LinesInv

\* The second rename leaves the lines of the last rotation with LOG1.
LEMMA LinesRename ==
  ASSUME LogInv, LinesInv, DaemonType, LogRename
  PROVE  LinesInv'
<1>n. LOG0 = 0 /\ LOG1 = 1 /\ LOG2 = 2 /\ LogNames = 0 .. 2 /\ NoFile = 0
  BY DEF LOG0, LOG1, LOG2, LogNames, NoFile
<1>1. /\ lpc = "rename" /\ lpc' = "reopen" /\ UNCHANGED <<file, said, rot>>
      /\ name' = IF name[0] = 0 THEN name ELSE [name EXCEPT ![1] = name[0], ![0] = 0]
  BY <1>n DEF LogRename, Rename
<1>2. /\ rot \in Nat /\ said \in Seq(Line) /\ file \in Seq(File) /\ rot' \in {rot, rot + 1}
      /\ name \in [0 .. 2 -> 0 .. Len(file)] /\ Len(file) \in Nat /\ name[0] # 0
  BY <1>1, <1>n DEF DaemonType, LogInv, LogType, NamesInv
<1>4. ASSUME NEW k \in 0 .. 2, name[k] # 0
      PROVE  file[name[k]].made = IF k = 0 THEN rot - 1 ELSE rot - 2
  <2>1. name[k] \in DOMAIN file
    BY <1>2, <1>4
  <2>2. file[name[k]] \in File
    BY <1>2, <2>1
  <2>3. file[name[k]].made \in Int
    BY <2>2 DEF File
  <2>4. file[name[k]].made <= rot - 1
    BY <1>1, <2>1 DEF LogInv, NamesInv
  <2>5. file[name[k]].made >= rot - 2 /\ k = IF file[name[k]].made = rot - 1 THEN 0 ELSE 2
    BY <1>1, <1>4, <1>n DEF LinesInv, NamesPlaced, Place
  <2> QED BY <1>2, <2>3, <2>4, <2>5
<1>5. name[1] = 0
  <2> SUFFICES ASSUME name[1] # 0 PROVE FALSE
    OBVIOUS
  <2> QED BY <1>1, <1>n DEF LinesInv, NamesPlaced, Place
<1>6. ASSUME NEW k \in 0 .. 2, name'[k] # 0
      PROVE  file[name'[k]].made >= rot' - 2 /\ Place(name[k])' = k
  <2>1. \/ k = 1 /\ name'[k] = name[0]
        \/ k = 2 /\ name'[k] = name[2] /\ name[2] # 0
    BY <1>1, <1>2, <1>6
  <2>2. Place(name[k])' = rot - file[name'[k]].made
    BY <1>1 DEF Place
  <2>3. file[name'[k]].made = rot - k
    BY <1>2, <1>4, <2>1
  <2> QED BY <1>1, <1>2, <2>2, <2>3
<1>7. NamesPlaced'
  <2>1. name'[1] # 0
    BY <1>1, <1>2
  <2> QED BY <1>1, <1>6, <1>n, <2>1 DEF NamesPlaced
<1> QED
  BY <1>1, <1>2, <1>7, LinesRenamed, Zenon DEF LinesInv

\* The reopening: the new file has no lines, and no line of its rotation was logged.
LEMMA LinesReopen ==
  ASSUME LogInv, LinesInv, DaemonType, LogReopen, ~UNCHANGED <<fp, file, name>>
  PROVE  LinesInv'
<1>1. /\ lpc = "reopen" /\ lpc' = "idle" /\ file' = Files(fp) /\ name' = Names(fp)
      /\ said' = said /\ rot' = rot
  BY DEF LogReopen
<1>2. fp \in 0 .. Len(file) /\ rot \in Nat /\ LogType
  BY DEF LogInv, LogType, DaemonType
<1>3. NamesPlaced' /\ \A f \in DOMAIN file : f \in DOMAIN file' /\ file'[f].made = file[f].made
  BY <1>1, <1>2, OpenPlaces
<1>4. \A f \in DOMAIN file : file'[f] = file[f]
  BY <1>1, <1>2, OpenFacts
<1>5. ASSUME NEW f \in DOMAIN file', f \notin DOMAIN file
      PROVE  DOMAIN file'[f].text = {} /\ \A k : ~SaidAt(k, file'[f].made)
  <2>1. f \in DOMAIN Files(fp) \ DOMAIN file
    BY <1>1, <1>5, Zenon
  <2>2. file'[f].text = <<>> /\ file'[f].made = rot
    BY <1>1, <1>2, <2>1, OpenFacts
  <2>3. \A k : ~SaidAt(k, rot)
    BY <1>2, <2>1, NewFile
  <2> QED BY <2>2, <2>3
<1>6. TextsSorted'
  <2>1. ASSUME NEW f \in DOMAIN file' PROVE Sorted(file'[f].text)
    <3>1. CASE f \in DOMAIN file
      BY <1>4, <3>1, Zenon DEF LinesInv, TextsSorted
    <3>2. CASE f \notin DOMAIN file
      BY <1>5, <3>2, Zenon DEF Sorted
    <3> QED BY <3>1, <3>2
  <2> QED BY <2>1, Zenon DEF TextsSorted, Sorted
<1>7. ASSUME NEW f \in DOMAIN file', NEW k \in Int
      PROVE  HasEntry(f, <<"line", k>>)' <=> SaidAt(k, file[f].made)'
  <2>1. SaidAt(k, file[f].made)' <=> SaidAt(k, file'[f].made)
    BY <1>1 DEF SaidAt
  <2>2. CASE f \in DOMAIN file
    <3>1. HasEntry(f, <<"line", k>>)' <=> HasEntry(f, <<"line", k>>)
      BY <1>4, <2>2, Zenon DEF HasEntry
    <3>2. HasEntry(f, <<"line", k>>) <=> SaidAt(k, file[f].made)
      BY <2>2, Zenon DEF LinesInv, TextsSaid
    <3> QED BY <1>3, <2>1, <2>2, <3>1, <3>2, Zenon
  <2>3. CASE f \notin DOMAIN file
    <3>1. ~HasEntry(f, <<"line", k>>)'
      BY <1>5, <2>3, Zenon DEF HasEntry
    <3> QED BY <1>5, <2>1, <2>3, <3>1, Zenon
  <2> QED BY <2>2, <2>3, Zenon
<1>8. TextsSaid'
  BY <1>7, Zenon DEF TextsSaid
<1>9. SaidFiled'
  BY <1>1, <1>3, Zenon DEF LinesInv, SaidFiled
<1> QED
  BY <1>3, <1>6, <1>8, <1>9 DEF LinesInv

\* The lines of the log are kept by the steps of all the threads.
LEMMA LinesStep == LogInv /\ DaemonType /\ OrderInv /\ LinesInv /\ [Next]_vars => LinesInv'
<1> SUFFICES ASSUME LogInv, DaemonType, OrderInv, LinesInv, [Next]_vars PROVE LinesInv'
  OBVIOUS
<1>1. CASE CoordsStep /\ CoordsLog
  BY <1>1, LinesLog DEF CoordsLog
<1>4. CASE UNCHANGED <<file, said, rot, name>> /\ (lpc' = "rename" <=> lpc = "rename")
  <2>1. \A f : Place(f)' = Place(f)
    BY <1>4 DEF Place
  <2>2. rot' \in {rot, rot + 1} /\ rot \in Nat /\ said \in Seq(Line)
    BY <1>4 DEF DaemonType
  <2>3. NamesPlaced'
    BY <1>4, <2>1 DEF LinesInv, NamesPlaced, Place
  <2> QED BY <1>4, <2>2, <2>3, LinesRenamed DEF LinesInv
<1>2. CASE CoordsStep /\ CoordsRotate
  <2>1. CASE LogReopen /\ UNCHANGED <<fp, file, name>>
    BY <1>4, <2>1 DEF LogReopen
  <2> QED BY <1>2, <2>1, LinesStat, LinesRename, LinesReopen DEF CoordsRotate, Rotation
<1>3. CASE WorkerStep
  <2>1. CASE UNCHANGED muted
    BY <1>3, <2>1, LinesResult DEF WorkerStep, DaemonType
  <2>2. CASE ~UNCHANGED muted
    BY <1>3, <1>4, <2>2 DEF WorkerStep, log_write_req_result
  <2> QED BY <2>1, <2>2
<1>6. CASE (CoordsStep /\ CoordsCrash) \/ UNCHANGED lvars
  BY <1>4, <1>6 DEF CoordsCrash, LogCrash, lvars
<1>5. \/ CoordsStep /\ (CoordsLog \/ CoordsRotate \/ CoordsCrash)
      \/ WorkerStep \/ UNCHANGED lvars
  BY DEF Next, Main, StartRecv, StartCoords, StartNet, MainTest, MainPause, JoinCoords, JoinRecv,
     CancelNet, on_sig, RecvStep, CoordsStep, Coords, CoordsPop, CoordsStop, CoordsDrained,
     WriterStep, vars
<1> QED
  BY <1>1, <1>2, <1>3, <1>5, <1>6

\* The lines at the start: one for each file of an earlier daemon.
LEMMA LinesStart == Init => OrderInv /\ LinesInv
<1> SUFFICES ASSUME Init PROVE OrderInv /\ LinesInv
  OBVIOUS
<1>n. LOG0 = 0 /\ LOG1 = 1 /\ LOG2 = 2 /\ LogNames = 0 .. 2 /\ NoFile = 0
  BY DEF LOG0, LOG1, LOG2, LogNames, NoFile
<1>0. Left \in Nat
  BY LogAssumption
<1>1. /\ file = [f \in 1 .. Left |-> [made |-> f - Left, text |-> <<<<"line", f - Left>>>>]]
      /\ name = [k \in {LOG0, LOG1, LOG2} |-> IF k < Left THEN Left - k ELSE NoFile]
      /\ said = [f \in 1 .. Left |-> [line |-> f - Left, at |-> f - Left]]
  BY Zenon DEF Init, LogInit
<1>2. lpc = "idle" /\ rot = 0 /\ hand = 0 /\ lines = <<>> /\ q = <<>>
  BY Zenon DEF Init, LogInit, RecvInit
<1>3. DOMAIN file = 1 .. Left /\ DOMAIN said = 1 .. Left
  BY <1>1
<1>4. ASSUME NEW f \in 1 .. Left
      PROVE  /\ said[f].line = f - Left /\ said[f].at = f - Left
             /\ file[f].made = f - Left
             /\ DOMAIN file[f].text = {1} /\ file[f].text[1] = <<"line", f - Left>>
  <2>1. file[f] = [made |-> f - Left, text |-> <<<<"line", f - Left>>>>]
    BY <1>1
  <2>2. said[f] = [line |-> f - Left, at |-> f - Left]
    BY <1>1
  <2>3. file[f].made = f - Left
    BY <2>1
  <2>4. said[f].line = f - Left /\ said[f].at = f - Left
    BY <2>2
  <2>5. file[f].text = <<<<"line", f - Left>>>>
    BY <2>1
  <2>6. DOMAIN file[f].text = {1} /\ file[f].text[1] = <<"line", f - Left>>
    BY <2>5
  <2> QED BY <2>3, <2>4, <2>6
<1>5. OrderInv
  <2>1. DOMAIN q = {} /\ Len(lines) = 0
    BY <1>2
  <2> QED BY <1>0, <1>2, <1>3, <1>4, <2>1 DEF OrderInv
<1>6. ASSUME NEW f \in DOMAIN file
      PROVE  /\ Sorted(file[f].text)
             /\ \A k \in Int : HasEntry(f, <<"line", k>>) <=> SaidAt(k, file[f].made)
  <2>1. Sorted(file[f].text)
    BY <1>3, <1>4 DEF Sorted
  <2>2. ASSUME NEW k \in Int PROVE HasEntry(f, <<"line", k>>) <=> k = f - Left
    BY <1>3, <1>4 DEF HasEntry
  <2>3. ASSUME NEW k \in Int PROVE SaidAt(k, file[f].made) <=> k = f - Left
    BY <1>3, <1>4 DEF SaidAt
  <2> QED BY <2>1, <2>2, <2>3
<1>7. \A i \in DOMAIN said : \E f \in DOMAIN file : file[f].made = said[i].at
  BY <1>3, <1>4
<1>8. ASSUME NEW k \in LogNames, name[k] # NoFile
      PROVE  file[name[k]].made >= rot - 2 /\ Place(name[k]) = k
  <2>1. k < Left /\ name[k] = Left - k /\ k \in 0 .. 2
    BY <1>1, <1>8, <1>n
  <2>2. file[name[k]].made = 0 - k
    BY <1>0, <1>4, <2>1
  <2> QED BY <1>2, <2>1, <2>2 DEF Place
<1>9. name[LOG1] = NoFile => name[LOG2] = NoFile
  BY <1>0, <1>1, <1>n
<1>10. TextsSorted /\ TextsSaid
  BY <1>6, Zenon DEF TextsSorted, TextsSaid
<1>11. SaidFiled
  BY <1>7, Zenon DEF SaidFiled
<1>12. NamesPlaced
  BY <1>8, <1>9, Zenon DEF NamesPlaced
<1> QED BY <1>5, <1>10, <1>11, <1>12 DEF LinesInv

\* Of the lines of two rotations, those of the earlier one have the lower numbers.
LEMMA EarlierIsLower ==
  ASSUME OrderInv, DaemonType, NEW k, NEW m, NEW k1, NEW m1, SaidAt(k, m), SaidAt(k1, m1), m < m1
  PROVE  k < k1
<1>1. PICK i \in DOMAIN said : said[i].line = k /\ said[i].at = m
  BY DEF SaidAt
<1>2. PICK j \in DOMAIN said : said[j].line = k1 /\ said[j].at = m1
  BY DEF SaidAt
<1>3. DOMAIN said = 1 .. Len(said) /\ said[i] \in Line /\ said[j] \in Line
  BY DEF DaemonType
<1>4. m \in Int /\ m1 \in Int
  BY <1>1, <1>2, <1>3 DEF Line
<1>5. i # j
  BY <1>1, <1>2, <1>4
<1>6. ~(j < i)
  BY <1>1, <1>2, <1>4 DEF OrderInv
<1>7. i < j
  BY <1>3, <1>5, <1>6
<1> QED BY <1>1, <1>2, <1>7 DEF OrderInv

\* Where the text of each file begins in what the reader finds.
Ahead(k) ==
  IF k = LOG2 THEN 0
  ELSE IF k = LOG1 THEN Len(Text(LOG2)) ELSE Len(Text(LOG2)) + Len(Text(LOG1))

\* What the reader finds is the texts of the three files, each in its place.
LEMMA FoundIs ==
  ASSUME \A k \in LogNames : Text(k) \in Seq(Entry)
  PROVE  /\ \A k \in LogNames : \A i \in DOMAIN Text(k) :
              Ahead(k) + i \in DOMAIN Found /\ Found[Ahead(k) + i] = Text(k)[i]
         /\ \A p \in DOMAIN Found : \E k \in LogNames :
              p - Ahead(k) \in DOMAIN Text(k) /\ Found[p] = Text(k)[p - Ahead(k)]
         /\ DOMAIN Found \subseteq Nat
         /\ \A k \in LogNames : DOMAIN Text(k) \subseteq Nat /\ Ahead(k) \in Nat
         /\ \A k, m \in LogNames : k < m => \A i \in DOMAIN Text(m) : Ahead(m) + i <= Ahead(k)
<1>n. LOG0 = 0 /\ LOG1 = 1 /\ LOG2 = 2 /\ LogNames = {0, 1, 2}
  BY DEF LOG0, LOG1, LOG2, LogNames
<1> DEFINE A == Text(2)
           B == Text(1)
           C == Text(0)
           a == Len(A)
           b == Len(B)
           c == Len(C)
<1>1. A \in Seq(Entry) /\ B \in Seq(Entry) /\ C \in Seq(Entry)
  BY <1>n
<1>2. Found = (A \o B) \o C
  BY <1>n DEF Found
<1>b. Ahead(2) = 0 /\ Ahead(1) = a /\ Ahead(0) = a + b
  BY <1>n DEF Ahead
<1> HIDE DEF A, B, C
<1>3. /\ a \in Nat /\ b \in Nat /\ c \in Nat
      /\ DOMAIN A = 1 .. a /\ DOMAIN B = 1 .. b /\ DOMAIN C = 1 .. c
  BY <1>1
<1>4. /\ A \o B \in Seq(Entry) /\ Len(A \o B) = a + b
      /\ \A i \in 1 .. a + b : (A \o B)[i] = IF i <= a THEN A[i] ELSE B[i - a]
  BY <1>1
<1> DEFINE D == A \o B
<1>e. D \in Seq(Entry) /\ Len(D) = a + b /\ Found = D \o C
  BY <1>2, <1>4
<1> HIDE DEF D
<1>5. /\ DOMAIN Found = 1 .. a + b + c
      /\ \A i \in 1 .. a + b + c : Found[i] = IF i <= a + b THEN D[i] ELSE C[i - (a + b)]
  BY <1>1, <1>2, <1>4 DEF D
<1>d. \A i \in 1 .. a + b : D[i] = IF i <= a THEN A[i] ELSE B[i - a]
  BY <1>4 DEF D
<1> HIDE DEF a, b, c
<1>6. ASSUME NEW i \in 1 .. a + b + c
      PROVE  Found[i] = IF i <= a THEN A[i] ELSE IF i <= a + b THEN B[i - a] ELSE C[i - (a + b)]
  <2>1. CASE i <= a + b
    <3>1. i \in 1 .. a + b /\ (i <= a => i <= a + b)
      BY <1>3, <2>1
    <3> QED BY <1>5, <1>d, <2>1, <3>1
  <2>2. CASE ~(i <= a + b)
    BY <1>3, <1>5, <2>2
  <2> QED BY <2>1, <2>2
<1>7. /\ \A i \in DOMAIN A : i \in DOMAIN Found /\ Found[i] = A[i]
      /\ \A i \in DOMAIN B : a + i \in DOMAIN Found /\ Found[a + i] = B[i]
      /\ \A i \in DOMAIN C : a + b + i \in DOMAIN Found /\ Found[a + b + i] = C[i]
  <2>1. ASSUME NEW i \in DOMAIN A PROVE i \in DOMAIN Found /\ Found[i] = A[i]
    BY <1>3, <1>5, <1>6
  <2>2. ASSUME NEW i \in DOMAIN B PROVE a + i \in DOMAIN Found /\ Found[a + i] = B[i]
    <3>1. a + i \in 1 .. a + b + c /\ ~(a + i <= a) /\ a + i <= a + b /\ (a + i) - a = i
      BY <1>3
    <3> QED BY <1>5, <1>6, <3>1
  <2>3. ASSUME NEW i \in DOMAIN C PROVE a + b + i \in DOMAIN Found /\ Found[a + b + i] = C[i]
    <3>1. /\ a + b + i \in 1 .. a + b + c /\ ~(a + b + i <= a) /\ ~(a + b + i <= a + b)
          /\ (a + b + i) - (a + b) = i
      BY <1>3
    <3> QED BY <1>5, <1>6, <3>1
  <2> QED BY <2>1, <2>2, <2>3
<1>8. ASSUME NEW p \in DOMAIN Found
      PROVE  \/ p - 0 \in DOMAIN A /\ Found[p] = A[p - 0]
             \/ p - a \in DOMAIN B /\ Found[p] = B[p - a]
             \/ p - (a + b) \in DOMAIN C /\ Found[p] = C[p - (a + b)]
  BY <1>3, <1>5, <1>6
<1>9. \A k \in LogNames : \A i \in DOMAIN Text(k) :
        Ahead(k) + i \in DOMAIN Found /\ Found[Ahead(k) + i] = Text(k)[i]
  BY <1>3, <1>7, <1>b, <1>n DEF A, B, C
<1>10. \A p \in DOMAIN Found : \E k \in LogNames :
         p - Ahead(k) \in DOMAIN Text(k) /\ Found[p] = Text(k)[p - Ahead(k)]
  BY <1>8, <1>b, <1>n DEF A, B, C
<1>11. DOMAIN Found \subseteq Nat /\ \A k \in LogNames : DOMAIN Text(k) \subseteq Nat /\ Ahead(k) \in Nat
  BY <1>3, <1>5, <1>b, <1>n DEF A, B, C
<1>12. ASSUME NEW k \in LogNames, NEW m \in LogNames, k < m, NEW i \in DOMAIN Text(m)
       PROVE  Ahead(m) + i <= Ahead(k)
  <2>1. (m = 1 /\ k = 0) \/ (m = 2 /\ k = 1) \/ (m = 2 /\ k = 0)
    BY <1>12, <1>n
  <2> QED BY <1>3, <1>12, <1>b, <2>1 DEF A, B, C
<1> QED BY <1>9, <1>10, <1>11, <1>12

\* The rotation in which the file under a name was made.
Age(k) == IF lpc # "rename" THEN rot - k ELSE IF k = LOG0 THEN rot - 1 ELSE rot - 2

\* The lines under a name are in order, and were logged in the rotation of its file.
LEMMA TextIs ==
  ASSUME LogInv, LinesInv, rot \in Nat, NEW k \in LogNames
  PROVE  /\ Text(k) \in Seq(Entry) /\ Sorted(Text(k))
         /\ \A i \in DOMAIN Text(k) : Text(k)[i][1] = "line" =>
              /\ Text(k)[i][2] \in Int /\ name[k] # NoFile
              /\ SaidAt(Text(k)[i][2], Age(k)) /\ Age(k) >= rot - 2
<1>1. CASE name[k] = NoFile
  <2>1. Text(k) = <<>> /\ DOMAIN <<>> = {}
    BY <1>1 DEF Text
  <2> QED BY <2>1 DEF Sorted
<1>2. CASE name[k] # NoFile
  <2> DEFINE f == name[k]
  <2>1. f \in DOMAIN file /\ file[f] \in File
    BY <1>2 DEF LogInv, LogType, NoFile
  <2>2. Text(k) = file[f].text /\ file[f].text \in Seq(Entry) /\ file[f].made \in Int
    BY <1>2, <2>1 DEF Text, File
  <2>3. file[f].made >= rot - 2 /\ Place(f) = k
    BY <1>2, Zenon DEF LinesInv, NamesPlaced
  <2>4. file[f].made <= IF lpc = "rename" THEN rot - 1 ELSE rot
    BY <2>1 DEF LogInv, NamesInv
  <2>5. file[f].made = Age(k)
    <3>1. CASE lpc # "rename"
      BY <2>2, <2>3, <3>1 DEF Place, Age
    <3>2. CASE lpc = "rename"
      BY <2>2, <2>3, <2>4, <3>2 DEF Place, Age, LOG0, LOG2
    <3> QED BY <3>1, <3>2
  <2> HIDE DEF f
  <2>6. ASSUME NEW i \in DOMAIN Text(k), Text(k)[i][1] = "line"
        PROVE  Text(k)[i][2] \in Int /\ SaidAt(Text(k)[i][2], Age(k))
    <3>1. Text(k)[i] \in Entry
      BY <2>2
    <3>2. Text(k)[i][2] \in Int /\ Text(k)[i] = <<"line", Text(k)[i][2]>>
      BY <2>6, <3>1 DEF Entry
    <3>3. HasEntry(f, <<"line", Text(k)[i][2]>>)
      BY <2>2, <3>2 DEF HasEntry
    <3> QED BY <2>1, <2>5, <3>2, <3>3, Zenon DEF LinesInv, TextsSaid
  <2>7. Sorted(Text(k))
    BY <2>1, <2>2, Zenon DEF LinesInv, TextsSorted
  <2> QED BY <1>2, <2>2, <2>3, <2>5, <2>6, <2>7
<1> QED BY <1>1, <1>2

\* The lines of the last three rotations are under the three names.
LEMMA TextHas ==
  ASSUME LogInv, LinesInv, DaemonType, NEW j \in DOMAIN said, said[j].at >= rot - 2
  PROVE  \E k \in LogNames : \E i \in DOMAIN Text(k) : Text(k)[i] = <<"line", said[j].line>>
<1>1. said[j] \in Line /\ rot \in Nat
  BY DEF DaemonType
<1>2. said[j].line \in Int
  BY <1>1 DEF Line
<1>3. PICK f \in DOMAIN file : file[f].made = said[j].at
  BY Zenon DEF LinesInv, SaidFiled
<1>4. SaidAt(said[j].line, file[f].made)
  BY <1>3 DEF SaidAt
<1>5. HasEntry(f, <<"line", said[j].line>>)
  BY <1>2, <1>3, <1>4, Zenon DEF LinesInv, TextsSaid
<1>6. file[f] \in File /\ f # NoFile
  BY DEF LogInv, LogType, NoFile
<1>7. file[f].made \in Int
  BY <1>6 DEF File
<1>8. file[f].made <= rot /\ name[Place(f)] = f
  BY <1>1, <1>3, <1>7 DEF LogInv, NamesInv
<1>9. Place(f) \in LogNames
  BY <1>1, <1>3, <1>7, <1>8 DEF Place, LogNames, LOG0, LOG1, LOG2
<1>10. Text(Place(f)) = file[f].text
  BY <1>6, <1>8 DEF Text
<1> QED BY <1>5, <1>9, <1>10, Zenon DEF HasEntry

\* The invariants of the log, always.
LEMMA LogAlways == Spec => [](LogInv /\ OrderInv /\ LinesInv)
<1>1. Init => LogInv /\ OrderInv /\ LinesInv
  BY LogStart, LinesStart
<1>2. /\ LogInv /\ OrderInv /\ LinesInv /\ RecvType /\ DaemonType /\ [Next]_vars
           => (LogInv /\ OrderInv /\ LinesInv)'
  BY LogStep, OrderStep, LinesStep
<1> QED
  BY <1>1, <1>2, TypesAlways, PTL DEF Spec

\* Read from the oldest, the log has every line logged in the last three rotations,
\* once and in the order of the pushes, between any two steps of a rotation.
THEOREM LinesKept == Spec => []LinesFound
<1>1. LogInv /\ DaemonType /\ OrderInv /\ LinesInv => LinesFound
  <2> SUFFICES ASSUME LogInv, DaemonType, OrderInv, LinesInv PROVE LinesFound
    OBVIOUS
  <2>n. LOG0 = 0 /\ LOG1 = 1 /\ LOG2 = 2 /\ LogNames = {0, 1, 2}
    BY DEF LOG0, LOG1, LOG2, LogNames
  <2>r. rot \in Nat
    BY DEF DaemonType
  <2>t. \A k \in LogNames : Text(k) \in Seq(Entry)
    BY <2>r, TextIs
  <2>1. ASSUME NEW o \in LinePlaces, NEW p \in LinePlaces, o < p PROVE Found[o][2] < Found[p][2]
    <3>1. o \in DOMAIN Found /\ p \in DOMAIN Found /\ Found[o][1] = "line" /\ Found[p][1] = "line"
      BY DEF LinePlaces
    <3>2. PICK k \in LogNames : o - Ahead(k) \in DOMAIN Text(k) /\ Found[o] = Text(k)[o - Ahead(k)]
      BY <2>t, <3>1, FoundIs
    <3>3. PICK m \in LogNames : p - Ahead(m) \in DOMAIN Text(m) /\ Found[p] = Text(m)[p - Ahead(m)]
      BY <2>t, <3>1, FoundIs
    <3>4. o \in Nat /\ p \in Nat /\ Ahead(k) \in Nat /\ Ahead(m) \in Nat
      BY <2>t, <3>1, FoundIs
    <3>5. CASE k = m
      <4>1. o - Ahead(k) < p - Ahead(k)
        BY <2>1, <3>4
      <4>2. Sorted(Text(k))
        BY <2>r, TextIs
      <4> QED BY <3>1, <3>2, <3>3, <3>5, <4>1, <4>2 DEF Sorted
    <3>6. CASE k < m
      <4>1. Ahead(m) + (p - Ahead(m)) <= Ahead(k)
        BY <2>t, <3>3, <3>6, FoundIs
      <4>2. o - Ahead(k) \in Nat \ {0}
        BY <2>t, <3>2
      <4> QED BY <2>1, <3>4, <4>1, <4>2
    <3>7. CASE m < k
      <4>1. /\ SaidAt(Found[o][2], Age(k)) /\ name[k] # NoFile
            /\ SaidAt(Found[p][2], Age(m)) /\ name[m] # NoFile
        BY <2>r, <3>1, <3>2, <3>3, TextIs
      <4>2. lpc = "rename" => m = 0
        <5> SUFFICES ASSUME lpc = "rename", m # 0 PROVE FALSE
          OBVIOUS
        <5>1. m = 1
          BY <2>n, <3>7
        <5>2. Place(name[m]) = 1
          BY <4>1, <5>1, Zenon DEF LinesInv, NamesPlaced
        <5> QED BY <2>n, <5>2 DEF Place
      <4>3. Age(k) < Age(m)
        BY <2>n, <2>r, <3>7, <4>2 DEF Age
      <4> QED BY <4>1, <4>3, EarlierIsLower, Zenon
    <3> QED BY <2>n, <3>5, <3>6, <3>7
  <2>2. ASSUME NEW p \in LinePlaces
        PROVE  \E i \in {j \in DOMAIN said : said[j].at >= rot - 2} : Found[p][2] = said[i].line
    <3>1. p \in DOMAIN Found /\ Found[p][1] = "line"
      BY DEF LinePlaces
    <3>2. PICK k \in LogNames : p - Ahead(k) \in DOMAIN Text(k) /\ Found[p] = Text(k)[p - Ahead(k)]
      BY <2>t, <3>1, FoundIs, Zenon
    <3>3. SaidAt(Found[p][2], Age(k)) /\ Age(k) >= rot - 2
      BY <2>r, <3>1, <3>2, TextIs, Zenon
    <3> QED BY <3>3, Zenon DEF SaidAt
  <2>3. ASSUME NEW j \in DOMAIN said, said[j].at >= rot - 2
        PROVE  \E p \in LinePlaces : Found[p][2] = said[j].line
    <3>1. PICK k \in LogNames : \E i \in DOMAIN Text(k) : Text(k)[i] = <<"line", said[j].line>>
      BY <2>3, TextHas
    <3>2. PICK i \in DOMAIN Text(k) : Text(k)[i] = <<"line", said[j].line>>
      BY <3>1
    <3>3. Ahead(k) + i \in DOMAIN Found /\ Found[Ahead(k) + i] = <<"line", said[j].line>>
      BY <2>t, <3>2, FoundIs, Zenon
    <3> QED BY <3>3 DEF LinePlaces
  <2> QED BY <2>1, <2>2, <2>3 DEF LinesFound
<1> QED
  BY <1>1, LogAlways, TypesAlways, PTL

\* Every result since log_write_req_result opened its handle is in the file it
\* opened, once and in order, and in no other; the k-th rotation after that file
\* was made leaves it the k-th name, and from the third on it has none.
THEOREM ResultsTracked == Spec => []ResultsPlaced
<1>1. LogInv /\ DaemonType /\ LinesInv => ResultsPlaced
  <2> SUFFICES ASSUME LogInv, DaemonType, LinesInv PROVE ResultsPlaced
    OBVIOUS
  <2>r. rot \in Nat
    BY DEF DaemonType
  <2>1. ASSUME NEW f \in DOMAIN file
        PROVE  file[f].text \in Seq(Entry) /\ file[f].made \in Int
    <3>1. file[f] \in File
      BY DEF LogInv, LogType
    <3> QED BY <3>1 DEF File
  <2>2. ASSUME NEW f \in DOMAIN file
        PROVE  {file[f].text[i][2] : i \in ResultPlaces(f)}
                 = IF f = g_logf THEN muted + 1 .. results ELSE {}
    <3>1. ASSUME NEW i \in ResultPlaces(f)
          PROVE  f = g_logf /\ file[f].text[i][2] \in muted + 1 .. results
      <4> DEFINE x == file[f].text[i]
      <4>1. i \in DOMAIN file[f].text /\ x \in Entry /\ x[1] = "result"
        BY <2>1 DEF ResultPlaces
      <4>2. x[2] \in Int /\ x = <<"result", x[2]>>
        BY <4>1 DEF Entry
      <4>3. HasResult(f, x[2])
        BY <4>1, <4>2, Zenon DEF HasResult
      <4> QED BY <4>2, <4>3, Zenon DEF LogInv, ResultsInv
    <3>2. ASSUME f = g_logf, NEW r \in muted + 1 .. results
          PROVE  \E i \in ResultPlaces(f) : file[f].text[i][2] = r
      <4>1. r \in Int
        BY DEF LogInv, LogType
      <4>2. PICK i \in DOMAIN file[f].text : file[f].text[i] = <<"result", r>>
        BY <3>2, <4>1, Zenon DEF LogInv, ResultsInv, HasResult
      <4>3. file[f].text[i][1] = "result" /\ file[f].text[i][2] = r
        BY <4>2
      <4> QED BY <4>3, Zenon DEF ResultPlaces
    <3>3. CASE f = g_logf
      BY <3>1, <3>2, <3>3
    <3>4. CASE f # g_logf
      BY <3>1, <3>4
    <3> QED BY <3>3, <3>4
  <2>3. ASSUME NEW f \in DOMAIN file, NEW i \in ResultPlaces(f), NEW j \in ResultPlaces(f), i < j
        PROVE  file[f].text[i][2] < file[f].text[j][2]
    <3>1. /\ i \in DOMAIN file[f].text /\ j \in DOMAIN file[f].text
          /\ file[f].text[i][1] = file[f].text[j][1]
      BY Zenon DEF ResultPlaces
    <3> QED BY <2>3, <3>1, Zenon DEF LinesInv, TextsSorted, Sorted
  <2>4. ASSUME g_logf # NoFile, lpc # "rename", NEW k \in DOMAIN name
        PROVE  name[k] = g_logf <=> k = rot - file[g_logf].made
    <3>1. g_logf \in DOMAIN file /\ k \in LogNames
      BY <2>4 DEF LogInv, LogType, NoFile
    <3>2. k \in 0 .. 2
      BY <3>1 DEF LogNames, LOG0, LOG1, LOG2
    <3>3. Place(g_logf) = rot - file[g_logf].made
      BY <2>4 DEF Place
    <3>4. ASSUME name[k] = g_logf PROVE k = rot - file[g_logf].made
      BY <2>4, <3>1, <3>3, <3>4, Zenon DEF LinesInv, NamesPlaced
    <3>5. ASSUME k = rot - file[g_logf].made PROVE name[k] = g_logf
      <4>1. file[g_logf].made >= rot - 2
        BY <2>1, <2>r, <3>1, <3>2, <3>5
      <4> QED BY <3>1, <3>3, <3>5, <4>1, Zenon DEF LogInv, NamesInv
    <3> QED BY <3>4, <3>5
  <2> QED BY <2>2, <2>3, <2>4, Zenon DEF ResultsPlaced
<1> QED
  BY <1>1, LogAlways, TypesAlways, PTL

=============================================================================
