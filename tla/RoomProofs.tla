----------------------------- MODULE RoomProofs -----------------------------
(***************************************************************************)
(* The room registry of req_handler.c implements a bounded set of rooms,   *)
(* for every MAX_ROOMS and every set of names, by itself and behind its    *)
(* clients; what the answers of the server say of it, for any number of    *)
(* attempts and command lines; and locgend beside the command line client: *)
(* the order in which it applies a file, what its store holds and its exit *)
(* code says, and the chain of fallbacks of its show.                      *)
(***************************************************************************)
EXTENDS RoomClients, FiniteSetTheorems, WellFoundedInduction, TLAPS

-----------------------------------------------------------------------------
(* The registry by itself.                                                  *)

\* The inductive invariant: Distinct, and that the count is that of the set.
RoomInv ==
  /\ TypeOK
  /\ Distinct
  /\ IsFiniteSet(Known) /\ Cardinality(Known) = Len(rooms)

(* room_exists searches exactly the rooms of the set.                       *)
LEMMA ExistsKnown ==
  \A name : room_exists(rooms, name) <=> name \in Known
BY DEF room_exists, Known

(* The set counts its rooms as the registry does.                           *)
LEMMA SameCardinality == Abs!Cardinality(Known) = Cardinality(Known)
BY DEF Abs!Cardinality, Cardinality

(* The position room_delete overwrites is the only one of its name.         *)
LEMMA FirstMatch ==
  ASSUME RoomInv, NEW name, room_exists(rooms, name)
  PROVE  LET d == CHOOSE k \in DOMAIN rooms :
                    rooms[k] = name /\ \A j \in 1 .. k - 1 : rooms[j] # name
         IN  d \in DOMAIN rooms /\ rooms[d] = name /\ \A j \in DOMAIN rooms : rooms[j] = name => j = d
<1>1. PICK k \in DOMAIN rooms : rooms[k] = name
  BY DEF room_exists
<1>2. \A j \in DOMAIN rooms : rooms[j] = name => j = k
  BY <1>1 DEF RoomInv, Distinct
<1>3. \A j \in 1 .. k - 1 : rooms[j] # name
  BY <1>1, <1>2 DEF RoomInv, TypeOK
<1> QED BY <1>1, <1>2, <1>3

(* room_create appends a room that is new, if there is room for it.         *)
LEMMA CreateStep ==
  ASSUME RoomInv, NEW name \in Names, Create(name)
  PROVE  RoomInv' /\ Abs!Create(name)
<1>0. /\ rooms \in Seq(Names) /\ Len(rooms) \in Nat /\ DOMAIN rooms = 1 .. Len(rooms)
      /\ IsFiniteSet(Known) /\ Cardinality(Known) = Len(rooms)
      /\ name \in Known <=> room_exists(rooms, name)
  BY ExistsKnown DEF RoomInv, TypeOK
<1>c. call' = <<"create", name>>
  BY DEF Create
<1>1. CASE room_exists(rooms, name)
  <2>1. rooms' = rooms /\ rc' = "exists"
    BY <1>1 DEF Create, room_create
  <2>2. Known' = Known
    BY <2>1 DEF Known
  <2>3. RoomInv'
    BY <2>1, <2>2 DEF RoomInv, TypeOK, Distinct
  <2> QED BY <1>c, <1>0, <1>1, <2>1, <2>2, <2>3 DEF Abs!Create
<1>2. CASE ~room_exists(rooms, name) /\ Len(rooms) >= MAX_ROOMS
  <2>1. rooms' = rooms /\ rc' = "full"
    BY <1>2 DEF Create, room_create
  <2>2. Known' = Known
    BY <2>1 DEF Known
  <2>3. RoomInv'
    BY <2>1, <2>2 DEF RoomInv, TypeOK, Distinct
  <2>4. name \notin Known /\ Cardinality(Known) >= MAX_ROOMS
    BY <1>0, <1>2
  <2> QED BY <1>c, SameCardinality, <2>1, <2>2, <2>3, <2>4 DEF Abs!Create
<1>3. CASE ~room_exists(rooms, name) /\ ~(Len(rooms) >= MAX_ROOMS)
  <2>1. rooms' = Append(rooms, name) /\ rc' = "ok"
    BY <1>3 DEF Create, room_create
  <2>2. /\ Len(rooms') = Len(rooms) + 1 /\ DOMAIN rooms' = 1 .. Len(rooms) + 1
        /\ rooms'[Len(rooms) + 1] = name
        /\ \A d \in 1 .. Len(rooms) : rooms'[d] = rooms[d]
        /\ rooms' \in Seq(Names)
    BY <1>0, <2>1
  <2>3. Known' = Known \cup {name}
    <3>1. \A x : x \in Known' <=> \E d \in 1 .. Len(rooms) + 1 : x = rooms'[d]
      BY <2>2 DEF Known
    <3>2. \A x : x \in Known <=> \E d \in 1 .. Len(rooms) : x = rooms[d]
      BY <1>0 DEF Known
    <3>3. \A d \in 1 .. Len(rooms) + 1 : d = Len(rooms) + 1 \/ d \in 1 .. Len(rooms)
      BY <1>0
    <3>4. \A d \in 1 .. Len(rooms) : d \in 1 .. Len(rooms) + 1
      BY <1>0
    <3>5. Len(rooms) + 1 \in 1 .. Len(rooms) + 1
      BY <1>0
    <3>6. \A x \in Known' : x \in Known \cup {name}
      BY <2>2, <3>1, <3>2, <3>3
    <3>7. \A x \in Known \cup {name} : x \in Known'
      BY <2>2, <3>1, <3>2, <3>4, <3>5
    <3> QED BY <3>6, <3>7
  <2>4. name \notin Known
    BY <1>0, <1>3
  <2>5. Distinct'
    <3>1. Len(rooms') <= MAX_ROOMS
      BY <1>0, <1>3, <2>2, MaxRoomsAssumption
    <3>2. \A d \in 1 .. Len(rooms) : rooms[d] # name
      BY <1>0, <2>4 DEF Known
    <3>3. \A d, j \in 1 .. Len(rooms) : rooms[d] = rooms[j] => d = j
      BY <1>0 DEF RoomInv, Distinct
    <3>4. \A d, j \in 1 .. Len(rooms) + 1 : rooms'[d] = rooms'[j] => d = j
      BY <1>0, <2>2, <3>2, <3>3
    <3> QED BY <2>2, <3>1, <3>4 DEF Distinct
  <2>6. IsFiniteSet(Known') /\ Cardinality(Known') = Len(rooms')
    <3>1. IsFiniteSet(Known \cup {name}) /\ Cardinality(Known \cup {name}) = Cardinality(Known) + 1
      BY <1>0, <2>4, FS_AddElement, Zenon
    <3> QED BY <1>0, <2>2, <2>3, <3>1
  <2>7. RoomInv'
    BY <2>1, <2>2, <2>5, <2>6 DEF RoomInv, TypeOK
  <2>8. ~(Cardinality(Known) >= MAX_ROOMS)
    BY <1>0, <1>3
  <2>9. Abs!Create(name)
    BY <1>c, SameCardinality, <2>1, <2>3, <2>4, <2>8 DEF Abs!Create
  <2> QED BY <2>7, <2>9
<1> QED BY <1>1, <1>2, <1>3

(* room_delete removes the room and no other, though it moves the last one. *)
LEMMA DeleteStep ==
  ASSUME RoomInv, NEW name \in Names, Delete(name)
  PROVE  RoomInv' /\ Abs!Delete(name)
<1> USE DEF RoomInv, TypeOK, Distinct
<1>c. call' = <<"delete", name>>
  BY DEF Delete
<1>1. CASE ~room_exists(rooms, name)
  <2>1. rooms' = rooms /\ rc' = "notfound"
    BY <1>1 DEF Delete, room_delete
  <2>2. Known' = Known
    BY <2>1 DEF Known
  <2>3. Known \ {name} = Known /\ name \notin Known
    BY <1>1, ExistsKnown
  <2> QED BY <1>c, <2>1, <2>2, <2>3 DEF Abs!Delete
<1>2. CASE room_exists(rooms, name)
  <2> DEFINE d == CHOOSE k \in DOMAIN rooms :
                    rooms[k] = name /\ \A j \in 1 .. k - 1 : rooms[j] # name
             last == Len(rooms)
  <2>1. /\ rooms' = [k \in 1 .. last - 1 |-> IF k = d THEN rooms[last] ELSE rooms[k]]
        /\ rc' = "ok"
    BY <1>2 DEF Delete, room_delete
  <2>2. d \in DOMAIN rooms /\ rooms[d] = name /\ \A j \in DOMAIN rooms : rooms[j] = name => j = d
    BY <1>2, FirstMatch
  <2> HIDE DEF d
  <2>3. DOMAIN rooms = 1 .. last /\ last \in Nat /\ last >= 1
    BY <2>2
  <2>4. rooms' \in Seq(Names) /\ Len(rooms') = last - 1 /\ DOMAIN rooms' = 1 .. last - 1
    BY <2>1, <2>3
  <2>5. \A k \in 1 .. last - 1 : rooms'[k] = IF k = d THEN rooms[last] ELSE rooms[k]
    BY <2>1
  <2>6. Known' = Known \ {name}
    <3>1. ASSUME NEW x \in Known' PROVE x \in Known \ {name}
      <4>1. PICK k \in 1 .. last - 1 : x = rooms'[k]
        BY <2>4 DEF Known
      <4>2. CASE k = d
        <5>1. x = rooms[last] /\ last \in 1 .. last /\ last # d
          BY <2>3, <2>5, <4>1, <4>2
        <5> QED BY <2>2, <2>3, <5>1, Zenon DEF Known
      <4>3. CASE k # d
        <5>1. x = rooms[k] /\ k \in 1 .. last
          BY <2>3, <2>5, <4>1, <4>3
        <5> QED BY <2>2, <2>3, <4>3, <5>1, Zenon DEF Known
      <4> QED BY <4>2, <4>3
    <3>2. ASSUME NEW x \in Known \ {name} PROVE x \in Known'
      <4>1. PICK k \in 1 .. last : x = rooms[k] /\ k # d
        BY <2>2, <2>3, Zenon DEF Known
      <4>2. CASE k = last
        <5>1. d \in 1 .. last - 1
          BY <2>2, <2>3, <4>1, <4>2
        <5>2. rooms'[d] = x
          BY <2>5, <4>1, <4>2, <5>1
        <5> QED BY <2>4, <5>1, <5>2, Zenon DEF Known
      <4>3. CASE k # last
        <5>1. k \in 1 .. last - 1
          BY <2>3, <4>3
        <5>2. rooms'[k] = x
          BY <2>5, <4>1, <5>1
        <5> QED BY <2>4, <5>1, <5>2 DEF Known
      <4> QED BY <4>2, <4>3
    <3> QED BY <3>1, <3>2
  <2>7. Distinct'
    <3>1. Len(rooms') <= MAX_ROOMS
      BY <2>3, <2>4, MaxRoomsAssumption
    <3>2. ASSUME NEW j \in 1 .. last - 1, NEW k \in 1 .. last - 1, rooms'[j] = rooms'[k]
          PROVE  j = k
      BY <2>2, <2>3, <2>5, <3>2
    <3> QED BY <2>4, <3>1, <3>2
  <2>8. name \in Known
    BY <1>2, ExistsKnown
  <2>9. IsFiniteSet(Known') /\ Cardinality(Known') = Len(rooms')
    BY <2>4, <2>6, <2>8, FS_RemoveElement, Zenon
  <2>10. RoomInv'
    BY <2>1, <2>4, <2>7, <2>9, Zenon
  <2>11. Abs!Delete(name)
    BY <1>c, <2>1, <2>6, <2>8 DEF Abs!Delete
  <2> QED BY <2>10, <2>11
<1> QED BY <1>1, <1>2

(* Every call keeps the invariant and is a call on the set.                 *)
LEMMA RoomStep ==
  RoomInv /\ [Next]_vars => RoomInv' /\ [Abs!Next]_<<Known, call, rc>>
<1> SUFFICES ASSUME RoomInv, [Next]_vars PROVE RoomInv' /\ [Abs!Next]_<<Known, call, rc>>
  OBVIOUS
<1>1. CASE Next
  <2>1. PICK name \in Names : Create(name) \/ Delete(name) \/ Exists(name)
    BY <1>1 DEF Next
  <2>2. CASE Create(name)
    BY <2>2, CreateStep DEF Abs!Next
  <2>3. CASE Delete(name)
    BY <2>3, DeleteStep DEF Abs!Next
  <2>4. CASE Exists(name)
    <3>1. rooms' = rooms /\ rc' \in {"ok", "notfound"} /\ Known' = Known
      BY <2>4 DEF Exists, Known
    <3>2. RoomInv'
      BY <3>1 DEF RoomInv, TypeOK, Distinct
    <3>3. Abs!Exists(name)
      BY <2>4, <3>1, ExistsKnown DEF Exists, Abs!Exists
    <3> QED BY <3>2, <3>3 DEF Abs!Next
  <2> QED BY <2>1, <2>2, <2>3, <2>4
<1>2. CASE UNCHANGED vars
  BY <1>2 DEF vars, RoomInv, TypeOK, Distinct, Known
<1> QED BY <1>1, <1>2

(* An empty registry satisfies the invariant and is the empty set.          *)
LEMMA RoomInit == Init => RoomInv /\ Abs!Init
<1> SUFFICES ASSUME Init PROVE RoomInv /\ Abs!Init
  OBVIOUS
<1>1. Known = {}
  BY DEF Init, Known
<1> QED BY <1>1, FS_EmptySet, MaxRoomsAssumption DEF Init, RoomInv, TypeOK, Distinct, Abs!Init

(* No sequence of create and delete lists a room twice or overruns the      *)
(* array of req_handler.c.                                                  *)
THEOREM RoomsDistinct == Spec => []Distinct
<1>1. RoomInv => Distinct
  BY DEF RoomInv
<1> QED BY <1>1, RoomInit, RoomStep, PTL DEF Spec

(* The registry, with its move of the last entry into the hole, implements  *)
(* the bounded set: every call has the effect and the code of the set's.    *)
THEOREM RegistryImplementsSet == Spec => ImplementsSet
<1> QED BY RoomInit, RoomStep, PTL DEF Spec, ImplementsSet, Abs!Spec

-----------------------------------------------------------------------------
(* Sessions: requests carry the numbers of the attempt that sent them.      *)

Points == {"idle", "connect", "wait", "retry", "ok", "failed"}

SessionType ==
  /\ st \in [Procs -> Points]
  /\ no \in [Procs -> Nat] /\ try \in [Procs -> Nat]
  /\ DOMAIN req = Procs /\ DOMAIN inbox = Procs
  /\ \A b \in atServer : /\ b.by \in Procs /\ b.no \in Nat /\ b.try \in Nat \ {0}
                         /\ b = [by |-> b.by, no |-> b.no, try |-> b.try, req |-> b.req]

\* An answer is on the connection only while it may be read or was; a request at
\* the server is of a past attempt or of this one, which has its number alone.
SessionInv ==
  /\ \A u \in Procs :
       /\ st[u] \in {"idle", "connect", "retry", "failed"} => inbox[u] = Nothing
       /\ st[u] = "ok" => inbox[u] # Nothing
       /\ st[u] # "idle" => try[u] # 0
  /\ \A b \in atServer :
       /\ Awaited(b) => inbox[b.by] = Nothing
       /\ b.no <= no[b.by]
       /\ b.no = no[b.by] /\ st[b.by] # "idle" =>
            /\ b.req = req[b.by]
            /\ b.try <= try[b.by]
            /\ st[b.by] = "connect" => b.try < try[b.by]
  /\ \A b, c \in atServer : b.by = c.by /\ b.no = c.no /\ b.try = c.try => b = c

\* What a step of the system does to the sessions.
SessionStep ==
  \/ \E u \in Procs : (\E r : Ask(u, r)) \/ Session(u) \/ Return(u)
  \/ \E a \in atServer : (\E code : code # Nothing /\ Answer(a, code)) \/ Lose(a)
  \/ UNCHANGED svars

\* The sessions are kept whatever the programs and the server do.
LEMMA SessionKept ==
  SessionType /\ SessionInv /\ SessionStep => SessionType' /\ SessionInv'
<1> SUFFICES ASSUME SessionType, SessionInv, SessionStep PROVE SessionType' /\ SessionInv'
  OBVIOUS
<1>1. ASSUME NEW u \in Procs, NEW r, Ask(u, r) PROVE SessionType' /\ SessionInv'
  <2>1. /\ st[u] = "idle"
        /\ st' = [st EXCEPT ![u] = "connect"] /\ req' = [req EXCEPT ![u] = r]
        /\ no' = [no EXCEPT ![u] = @ + 1] /\ try' = [try EXCEPT ![u] = 1]
        /\ UNCHANGED <<inbox, atServer>>
    BY <1>1 DEF Ask
  <2>2. SessionType'
    BY <2>1 DEF SessionType, Points
  <2>3. \A b \in atServer : b.by = u => b.no < no'[u]
    BY <2>1 DEF SessionType, SessionInv, Awaited
  <2>4. SessionInv'
    BY <2>1, <2>3 DEF SessionInv, SessionType, Awaited
  <2> QED
    BY <2>2, <2>4
<1>2. ASSUME NEW u \in Procs, Connect(u) PROVE SessionType' /\ SessionInv'
  <2> DEFINE a == [by |-> u, no |-> no[u], try |-> try[u], req |-> req[u]]
  <2>1. CASE st' = [st EXCEPT ![u] = "retry"] /\ UNCHANGED atServer
    <3>1. st[u] = "connect" /\ UNCHANGED <<req, no, try, inbox, atServer>>
      BY <1>2, <2>1 DEF Connect
    <3> QED
      BY <2>1, <3>1, Zenon DEF SessionType, SessionInv, Points, Awaited
  <2>2. CASE st' = [st EXCEPT ![u] = "wait"] /\ atServer' = atServer \cup {a}
    <3>1. st[u] = "connect" /\ UNCHANGED <<req, no, try, inbox>>
      BY <1>2 DEF Connect
    <3>2. a.by = u /\ a.no = no[u] /\ a.try = try[u] /\ a.req = req[u]
          /\ a = [by |-> a.by, no |-> a.no, try |-> a.try, req |-> a.req]
      OBVIOUS
    <3> HIDE DEF a
    <3>3. SessionType'
      <4>1. st' \in [Procs -> Points]
        BY <2>2 DEF SessionType, Points
      <4>2. a.by \in Procs /\ a.no \in Nat /\ a.try \in Nat \ {0}
        BY <3>1, <3>2 DEF SessionType, SessionInv, Awaited
      <4> QED
        BY <2>2, <3>1, <3>2, <4>1, <4>2 DEF SessionType
    <3>4. \A b \in atServer : ~(b.by = u /\ b.no = a.no /\ b.try = a.try)
      BY <3>1, <3>2 DEF SessionInv, SessionType, Awaited
    <3>5. \A b, c \in atServer' : b.by = c.by /\ b.no = c.no /\ b.try = c.try => b = c
      BY <2>2, <3>2, <3>4 DEF SessionInv
    <3>6. \A b \in atServer' :
            /\ b.no <= no'[b.by]
            /\ b.no = no'[b.by] /\ st'[b.by] # "idle" =>
                 /\ b.req = req'[b.by] /\ b.try <= try'[b.by]
                 /\ st'[b.by] = "connect" => b.try < try'[b.by]
      BY <2>2, <3>1, <3>2 DEF SessionInv, SessionType, Awaited
    <3>7. \A w \in Procs :
            /\ st'[w] \in {"idle", "connect", "retry", "failed"} => inbox'[w] = Nothing
            /\ st'[w] = "ok" => inbox'[w] # Nothing
            /\ st'[w] # "idle" => try'[w] # 0
      BY <2>2, <3>1 DEF SessionInv, SessionType, Awaited
    <3>8. \A b \in atServer' : st'[b.by] = "wait" /\ no'[b.by] = b.no /\ try'[b.by] = b.try => inbox'[b.by] = Nothing
      <4>1. inbox[u] = Nothing
        BY <3>1 DEF SessionInv
      <4>2. \A b \in atServer : b.by # u => st'[b.by] = st[b.by]
        BY <2>2 DEF SessionType
      <4>3. \A b \in atServer : st[b.by] = "wait" /\ no[b.by] = b.no /\ try[b.by] = b.try => inbox[b.by] = Nothing
        BY DEF SessionInv, Awaited
      <4> QED
        BY <2>2, <3>1, <3>2, <4>1, <4>2, <4>3
    <3> QED
      BY <3>3, <3>5, <3>6, <3>7, <3>8 DEF SessionInv, Awaited
  <2> QED
    BY <1>2, <2>1, <2>2 DEF Connect
<1>3. ASSUME NEW u \in Procs, Receive(u) \/ Timeout(u) \/ Retry(u)
      PROVE  SessionType' /\ SessionInv'
  <2>1. CASE Receive(u)
    BY <2>1 DEF Receive, SessionType, SessionInv, Points, Awaited
  <2>2. CASE Timeout(u)
    <3>1. /\ st[u] = "wait" /\ st' = [st EXCEPT ![u] = "retry"]
          /\ inbox' = [inbox EXCEPT ![u] = Nothing] /\ UNCHANGED <<req, no, try, atServer>>
      BY <2>2 DEF Timeout
    <3> QED
      BY <3>1 DEF SessionType, SessionInv, Points, Awaited
  <2>3. CASE Retry(u)
    <3>1. /\ st[u] = "retry" /\ UNCHANGED <<req, no, inbox, atServer>>
          /\ \/ st' = [st EXCEPT ![u] = "connect"] /\ try' = [try EXCEPT ![u] = @ + 1]
             \/ st' = [st EXCEPT ![u] = "failed"] /\ UNCHANGED try
      BY <2>3, Zenon DEF Retry
    <3>2. CASE st' = [st EXCEPT ![u] = "connect"] /\ try' = [try EXCEPT ![u] = @ + 1]
      <4>1. SessionType'
        BY <3>1, <3>2 DEF SessionType, Points
      <4> QED
        BY <3>1, <3>2, <4>1 DEF SessionType, SessionInv, Points, Awaited
    <3>3. CASE st' = [st EXCEPT ![u] = "failed"] /\ UNCHANGED try
      BY <3>1, <3>3, Zenon DEF SessionType, SessionInv, Points, Awaited
    <3> QED
      BY <3>1, <3>2, <3>3
  <2> QED
    BY <1>3, <2>1, <2>2, <2>3, Zenon
<1>4. ASSUME NEW u \in Procs, Return(u) PROVE SessionType' /\ SessionInv'
  <2>1. /\ st' = [st EXCEPT ![u] = "idle"] /\ inbox' = [inbox EXCEPT ![u] = Nothing]
        /\ req' = [req EXCEPT ![u] = Nothing] /\ try' = [try EXCEPT ![u] = 0]
        /\ UNCHANGED <<no, atServer>>
    BY <1>4 DEF Return
  <2>2. SessionType'
    BY <2>1 DEF SessionType, Points
  <2> QED
    BY <2>1, <2>2 DEF SessionType, SessionInv, Awaited
<1>5. ASSUME NEW a \in atServer, NEW code, code # Nothing, Answer(a, code)
      PROVE  SessionType' /\ SessionInv'
  <2>1. /\ atServer' = atServer \ {a}
        /\ inbox' = IF Awaited(a) THEN [inbox EXCEPT ![a.by] = code] ELSE inbox
        /\ UNCHANGED <<st, req, no, try>>
    BY <1>5 DEF Answer
  <2>2. CASE Awaited(a)
    <3>1. st[a.by] = "wait" /\ inbox' = [inbox EXCEPT ![a.by] = code]
      BY <2>1, <2>2, Zenon DEF Awaited
    <3> QED
      BY <1>5, <2>1, <3>1 DEF SessionType, SessionInv, Awaited
  <2>3. CASE ~Awaited(a)
    BY <2>1, <2>3, Zenon DEF SessionType, SessionInv, Awaited
  <2> QED
    BY <2>2, <2>3
<1>6. ASSUME NEW a \in atServer, Lose(a) PROVE SessionType' /\ SessionInv'
  BY <1>6, Zenon DEF Lose, SessionType, SessionInv, Awaited
<1>7. CASE UNCHANGED svars
  BY <1>7 DEF svars, SessionType, SessionInv, Awaited
<1> QED
  BY <1>1, <1>2, <1>3, <1>4, <1>5, <1>6, <1>7 DEF SessionStep, Session

-----------------------------------------------------------------------------
(* The server and the command line client.                                  *)

\* The requests of well-formed command lines.
CliReq == {build_payload(argv) : argv \in {x \in Argvs : Wellformed(x)}}

\* A behaviour has one user, who alone has requests.
CliInv ==
  /\ user \in {Cli, Loc} /\ (lp # "start" => user = Loc)
  /\ cp \in {"shell", "run"} /\ (cp = "shell" <=> st[Cli] = "idle")
  /\ \A u \in Procs : st[u] # "idle" => u = user
  /\ st[Cli] # "idle" => req[Cli] \in CliReq
  /\ \A b \in atServer : b.by = user /\ (b.by = Cli => b.req \in CliReq)

\* The room of a request has a name of the registry.
LEMMA CliReqName == \A p \in CliReq : p.name \in Names
<1> SUFFICES ASSUME NEW p \in CliReq PROVE p.name \in Names
  OBVIOUS
<1>1. PICK argv \in Argvs : Wellformed(argv) /\ p = build_payload(argv)
  BY DEF CliReq
<1>2. p.name = argv[3]
  BY <1>1, Zenon DEF build_payload
<1> QED
  BY <1>1, <1>2, ClientsAssumption

Codes == {"0", "1001", "1002", "1003", "1100"}

\* handle_cli: one call on the set of rooms, about the room of the request, and
\* an answer that is true of the room afterwards.
LEMMA ServeFacts ==
  ASSUME RoomInv, NEW a, a.req \in CliReq, ServeCli(a)
  PROVE  /\ RoomInv' /\ [Abs!Next]_<<Known, call, rc>>
         /\ \A r : r # a.req.name => (r \in Known' <=> r \in Known)
         /\ \E code \in Codes :
              /\ Answer(a, code)
              /\ Told(a.req.cmd, code) = "present" => a.req.name \in Known'
              /\ Told(a.req.cmd, code) = "absent" => a.req.name \notin Known'
              /\ code = "1003" => a.req.name \in Known
<1> DEFINE p == a.req
           code == IF p.target # "room" THEN "1001" ELSE CodeOf(rc')
<1>1. Answer(a, code)
  BY DEF ServeCli
<1>2. p.name \in Names
  BY CliReqName, Zenon
<1>3. CASE p.target # "room"
  <2>1. UNCHANGED vars /\ code = "1001"
    BY <1>3, Zenon DEF ServeCli
  <2>2. Known' = Known /\ RoomInv' /\ UNCHANGED <<Known, call, rc>>
    BY <2>1 DEF vars, RoomInv, TypeOK, Distinct, Known
  <2>3. Told(p.cmd, "1001") = "nothing"
    BY Zenon DEF Told
  <2> QED
    BY <1>1, <2>1, <2>2, <2>3 DEF Codes
<1>4. CASE p.target = "room" /\ p.cmd = "create"
  <2>1. Create(p.name) /\ code = CodeOf(rc')
    BY <1>4 DEF ServeCli
  <2>2. RoomInv' /\ Abs!Create(p.name)
    BY <1>2, <2>1, CreateStep
  <2> HIDE DEF code, p
  <2>3. [Abs!Next]_<<Known, call, rc>>
    BY <1>2, <2>2 DEF Abs!Next
  <2>4. CASE rc' = "exists" /\ Known' = Known /\ p.name \in Known
    <3>1. code = "1003"
      BY <2>1, <2>4 DEF CodeOf
    <3>2. Told(p.cmd, code) = "present"
      BY <1>4, <3>1 DEF Told
    <3> QED
      BY <1>1, <2>2, <2>3, <2>4, <3>1, <3>2 DEF Codes, p
  <2>5. CASE rc' = "full" /\ Known' = Known
    <3>1. code = "1100"
      BY <2>1, <2>5 DEF CodeOf
    <3>2. Told(p.cmd, code) = "nothing"
      BY <3>1 DEF Told
    <3> QED
      BY <1>1, <2>2, <2>3, <2>5, <3>1, <3>2, Zenon DEF Codes, p
  <2>6. CASE rc' = "ok" /\ Known' = Known \cup {p.name}
    <3>1. code = "0"
      BY <2>1, <2>6 DEF CodeOf
    <3>2. Told(p.cmd, code) = "present"
      BY <1>4, <3>1 DEF Told
    <3> QED
      BY <1>1, <2>2, <2>3, <2>6, <3>1, <3>2 DEF Codes, p
  <2> QED
    BY <2>2, <2>4, <2>5, <2>6 DEF Abs!Create
<1>5. CASE p.target = "room" /\ p.cmd = "delete"
  <2>1. Delete(p.name) /\ code = CodeOf(rc')
    BY <1>5 DEF ServeCli
  <2>2. RoomInv' /\ Abs!Delete(p.name)
    BY <1>2, <2>1, DeleteStep
  <2> HIDE DEF code, p
  <2>3. [Abs!Next]_<<Known, call, rc>>
    BY <1>2, <2>2 DEF Abs!Next
  <2>4. Known' = Known \ {p.name} /\ rc' \in {"ok", "notfound"}
    BY <2>2 DEF Abs!Delete
  <2>5. code \in {"0", "1002"}
    BY <2>1, <2>4 DEF CodeOf
  <2>6. Told(p.cmd, code) = "absent"
    BY <1>5, <2>5 DEF Told
  <2> QED
    BY <1>1, <2>2, <2>3, <2>4, <2>5, <2>6 DEF Codes, p
<1>6. CASE p.target = "room" /\ p.cmd \notin {"create", "delete"}
  <2>1. Exists(p.name) /\ code = CodeOf(rc')
    BY <1>6 DEF ServeCli
  <2> HIDE DEF code, p
  <2>2. rooms' = rooms /\ Known' = Known /\ rc' = IF p.name \in Known THEN "ok" ELSE "notfound"
    BY <2>1, ExistsKnown DEF Exists, Known
  <2>3. RoomInv'
    BY <2>2 DEF RoomInv, TypeOK, Distinct
  <2>4. Abs!Exists(p.name)
    BY <2>1, <2>2 DEF Exists, Abs!Exists
  <2>5. [Abs!Next]_<<Known, call, rc>>
    BY <1>2, <2>4 DEF Abs!Next
  <2>6. code = IF p.name \in Known THEN "0" ELSE "1002"
    BY <2>1, <2>2 DEF CodeOf
  <2>7. Told(p.cmd, code) = IF p.name \in Known THEN "present" ELSE "absent"
    BY <1>6, <2>6 DEF Told
  <2> QED
    BY <1>1, <2>2, <2>3, <2>5, <2>6, <2>7 DEF Codes, p
<1> QED
  BY <1>3, <1>4, <1>5, <1>6

\* The server answers the user's requests; only those of the command line client
\* reach the registry.
LEMMA ServerKinds ==
  ASSUME RoomInv, CliInv, Server
  PROVE  \E a \in atServer :
           \/ a.by = Cli /\ a.req \in CliReq /\ ServeCli(a)
           \/ a.by = Loc /\ ServeLoc(a)
           \/ Lost(a)
BY DEF Server, CliInv, ServeCli, ServeLoc

\* What each step of the system does to the sessions.
LEMMA SysSessions ==
  ASSUME RoomInv, CliInv, [SysNext]_sysvars
  PROVE  SessionStep
<1>1. CASE RunCommand \/ EndCommand
  <2>1. (\E r : Ask(Cli, r)) \/ Return(Cli) \/ UNCHANGED svars
    BY <1>1, Zenon DEF RunCommand, EndCommand, CliLocal, CliSend, CliPrint, CliError
  <2> QED
    BY <2>1, CliAssumption DEF SessionStep
<1>2. CASE RunLocgend \/ Locgend \/ Drivers
  <2>1. (\E r : Ask(Loc, r)) \/ Return(Loc) \/ UNCHANGED svars
    BY <1>2 DEF RunLocgend, Locgend, Drivers, LocApply, LocOne, LocShow, LocAsk, LocAnswered,
       LocFailed, LocDone, LocStatus, LocRoot, LocRead, ProcChange
  <2> QED
    BY <2>1, LocAssumption, Zenon DEF SessionStep
<1>3. CASE Session(Cli) \/ Session(Loc)
  BY <1>3, CliAssumption, LocAssumption DEF SessionStep
<1>4. CASE Server
  <2>1. PICK a \in atServer :
           \/ a.by = Cli /\ a.req \in CliReq /\ ServeCli(a)
           \/ a.by = Loc /\ ServeLoc(a)
           \/ Lost(a)
    BY <1>4, ServerKinds
  <2>2. CASE a.by = Cli /\ a.req \in CliReq /\ ServeCli(a)
    <3>1. PICK code \in Codes : Answer(a, code)
      BY <2>2, ServeFacts
    <3>2. code # Nothing
      BY DEF Codes, Nothing
    <3> QED
      BY <3>1, <3>2 DEF SessionStep
  <2>3. CASE ServeLoc(a)
    BY <2>3 DEF ServeLoc, Nothing, SessionStep
  <2>4. CASE Lost(a)
    BY <2>4 DEF Lost, SessionStep
  <2> QED
    BY <2>1, <2>2, <2>3, <2>4
<1>5. CASE UNCHANGED sysvars
  BY <1>5 DEF sysvars, SessionStep
<1> QED
  BY <1>1, <1>2, <1>3, <1>4, <1>5 DEF SysNext, CliStep, LocStep

\* The registry is called by handle_cli alone.
LEMMA RegistryStep ==
  RoomInv /\ CliInv /\ [SysNext]_sysvars => RoomInv' /\ [Abs!Next]_<<Known, call, rc>>
<1> SUFFICES ASSUME RoomInv, CliInv, [SysNext]_sysvars
             PROVE  RoomInv' /\ [Abs!Next]_<<Known, call, rc>>
  OBVIOUS
<1>1. CASE UNCHANGED vars
  BY <1>1 DEF vars, RoomInv, TypeOK, Distinct, Known
<1>2. CASE Server
  <2>1. PICK a \in atServer :
           \/ a.by = Cli /\ a.req \in CliReq /\ ServeCli(a)
           \/ a.by = Loc /\ ServeLoc(a)
           \/ Lost(a)
    BY <1>2, ServerKinds
  <2>2. CASE a.by = Cli /\ a.req \in CliReq /\ ServeCli(a)
    BY <2>2, ServeFacts
  <2>3. CASE ServeLoc(a) \/ Lost(a)
    <3>1. UNCHANGED vars
      BY <2>3 DEF ServeLoc, Lost
    <3> QED
      BY <3>1, <1>1
  <2> QED
    BY <2>1, <2>2, <2>3
<1>3. UNCHANGED vars \/ Server
  BY Zenon DEF SysNext, RunCommand, CliStep, EndCommand, RunLocgend, LocStep, Drivers, sysvars
<1> QED
  BY <1>1, <1>2, <1>3

\* One user, through every step.
LEMMA CliInvStep ==
  RoomInv /\ SessionType /\ CliInv /\ [SysNext]_sysvars => CliInv'
<1> SUFFICES ASSUME RoomInv, SessionType, CliInv, [SysNext]_sysvars PROVE CliInv'
  OBVIOUS
<1>a. Cli \in Procs /\ Loc \in Procs /\ Cli # Loc
  BY CliAssumption, LocAssumption, ClientsAssumption
<1>1. ASSUME NEW argv \in Argvs, RunCommand, CliSend(argv) PROVE CliInv'
  <2>1. /\ user = Cli /\ cp' = "run" /\ Wellformed(argv) /\ UNCHANGED <<user, atServer, lp>>
        /\ st' = [st EXCEPT ![Cli] = "connect"] /\ req' = [req EXCEPT ![Cli] = build_payload(argv)]
    BY <1>1 DEF RunCommand, CliSend, Ask, locvars
  <2>2. build_payload(argv) \in CliReq
    BY <2>1, Zenon DEF CliReq
  <2> QED
    BY <1>a, <2>1, <2>2, Zenon DEF CliInv, SessionType
<1>2. CASE RunCommand /\ \E argv \in Argvs : CliLocal(argv)
  <2>1. UNCHANGED <<user, cp, st, req, atServer, lp>>
    BY <1>2 DEF RunCommand, CliLocal, svars, locvars
  <2> QED
    BY <2>1 DEF CliInv
<1>3. CASE EndCommand
  <2>1. /\ cp' = "shell" /\ UNCHANGED <<user, atServer, lp>>
        /\ st' = [st EXCEPT ![Cli] = "idle"]
    BY <1>3 DEF EndCommand, CliPrint, CliError, Return, locvars
  <2> QED
    BY <1>a, <2>1 DEF CliInv, SessionType
<1>4. ASSUME NEW u \in {Cli, Loc}, Session(u), UNCHANGED <<cvars, locvars, hvars>> PROVE CliInv'
  <2>1. st[u] # "idle" /\ UNCHANGED <<user, cp, req, lp>>
    BY <1>4 DEF Session, Connect, Receive, Timeout, Retry, cvars, hvars, locvars
  <2>2. u = user
    BY <1>a, <2>1, Zenon DEF CliInv
  <2>3. PICK s \in Points \ {"idle"} : st' = [st EXCEPT ![u] = s]
    BY <1>4, Zenon DEF Session, Connect, Receive, Timeout, Retry, Points
  <2>4. \A b \in atServer' : b \in atServer \/ b = [by |-> u, no |-> no[u], try |-> try[u], req |-> req[u]]
    BY <1>4, Zenon DEF Session, Connect, Receive, Timeout, Retry
  <2>5. \A b \in atServer' : b \in atServer \/ (b.by = u /\ b.req = req[u])
    BY <2>4
  <2>6. u = Cli => req[u] \in CliReq
    BY <2>1, Zenon DEF CliInv
  <2> QED
    BY <1>a, <2>1, <2>2, <2>3, <2>5, <2>6, Zenon DEF CliInv, SessionType
<1>5. CASE RunLocgend \/ (Locgend /\ UNCHANGED <<cvars, hvars>>)
  <2>1. UNCHANGED <<user, cp, atServer>>
    BY <1>5, Zenon DEF RunLocgend, Locgend, LocApply, LocOne, LocShow, LocAsk, LocAnswered, LocFailed,
       LocDone, LocStatus, LocRoot, LocRead, Ask, Return, svars, cvars, hvars
  <2>u. user = Loc
    BY <1>5, Zenon DEF RunLocgend, Locgend, LocAsk, LocAnswered, LocFailed, LocDone, LocStatus, LocRoot,
       LocRead, CliInv
  <2>2. CASE UNCHANGED svars
    BY <2>1, <2>2, <2>u, Zenon DEF CliInv, svars
  <2>3. ASSUME NEW r, Ask(Loc, r) PROVE CliInv'
    BY <1>a, <2>u, <2>1, <2>3, Zenon DEF Ask, CliInv, SessionType
  <2>4. CASE Return(Loc)
    BY <1>a, <2>u, <2>1, <2>4, Zenon DEF Return, CliInv, SessionType
  <2> QED
    BY <1>5, <2>2, <2>3, <2>4, Zenon DEF RunLocgend, Locgend, LocApply, LocOne, LocShow, LocAsk,
       LocAnswered, LocFailed, LocDone, LocStatus, LocRoot, LocRead
<1>6. CASE Server
  <2>1. PICK a \in atServer : (\E code : Answer(a, code)) \/ Lose(a)
    BY <1>6 DEF Server, ServeCli, ServeLoc, Lost
  <2>2. UNCHANGED <<st, req>> /\ atServer' \subseteq atServer
    BY <2>1 DEF Answer, Lose
  <2>3. UNCHANGED <<user, cp, lp>>
    BY <1>6 DEF Server, ServeCli, ServeLoc, Lost, cvars, hvars, locvars
  <2> QED
    BY <2>2, <2>3 DEF CliInv
<1>7. CASE UNCHANGED sysvars \/ Drivers
  <2>1. UNCHANGED <<user, cp, st, req, atServer, lp>>
    BY <1>7 DEF sysvars, Drivers, ProcChange, svars, cvars, hvars, locvars
  <2> QED
    BY <2>1 DEF CliInv
<1> QED
  BY <1>1, <1>2, <1>3, <1>4, <1>5, <1>6, <1>7, Zenon DEF SysNext, RunCommand, CliStep, LocStep

-----------------------------------------------------------------------------
(* What the answers say.                                                    *)

\* A request of the command line client about the room is at the server.
Pending(r) == \E b \in atServer : b.by = Cli /\ b.req.name = r

Agrees(what, r) ==
  /\ what = "present" => r \in Known
  /\ what = "absent" => r \notin Known

\* As long as none overtook another, no request about a room is left when it has
\* been answered, from the answer on its connection to the next command.
ToldInv ==
  /\ told \in [Names -> {"present", "absent", "nothing"}]
  /\ ordered => \A r \in Names : told[r] # "nothing" => ~Pending(r) /\ Agrees(told[r], r)
  /\ st[Cli] # "idle" => told[req[Cli].name] = "nothing"
  /\ ordered /\ inbox[Cli] # Nothing =>
       ~Pending(req[Cli].name) /\ Agrees(Told(req[Cli].cmd, inbox[Cli]), req[Cli].name)

\* A command that began without its room, and with no request about it under way,
\* finds the room only if it made it with an earlier attempt.
FreshInv ==
  st[Cli] # "idle" /\ ~before =>
    /\ \A b \in atServer : b.by = Cli /\ b.req.name = req[Cli].name => b.no = no[Cli]
    /\ try[Cli] = 1 => inbox[Cli] # "1003"
    /\ try[Cli] = 1 /\ st[Cli] \in {"connect", "wait"} /\ inbox[Cli] = Nothing =>
         req[Cli].name \notin Known

\* What the two invariants see of a step that is not the client's or handle_cli's.
CliCalm ==
  /\ UNCHANGED <<told, ordered, before, rooms>>
  /\ st'[Cli] = st[Cli] /\ req'[Cli] = req[Cli] /\ no'[Cli] = no[Cli]
  /\ try'[Cli] = try[Cli] /\ inbox'[Cli] = inbox[Cli]
  /\ \A b \in atServer' : b.by = Cli => b \in atServer

\* Such a step keeps them.
LEMMA CalmKeeps ==
  ASSUME ToldInv, FreshInv, CliCalm
  PROVE  ToldInv' /\ FreshInv'
<1>1. Known' = Known /\ \A r : Pending(r)' => Pending(r)
  BY DEF CliCalm, Known, Pending
<1>2. \A what, r : Agrees(what, r)' <=> Agrees(what, r)
  BY <1>1 DEF Agrees
<1>3. Told(req[Cli].cmd, inbox[Cli])' = Told(req[Cli].cmd, inbox[Cli])
  BY Zenon DEF CliCalm, Told
<1>4. ToldInv'
  BY <1>1, <1>2, <1>3, Zenon DEF CliCalm, ToldInv
<1>5. FreshInv'
  BY <1>1 DEF CliCalm, FreshInv
<1> QED
  BY <1>4, <1>5, Zenon

\* The steps of the command line client.
LEMMA CommandKeeps ==
  ASSUME SessionType, SessionInv, CliInv, ToldInv, FreshInv, RunCommand \/ EndCommand
  PROVE  ToldInv' /\ FreshInv'
<1>a. Cli \in Procs
  BY CliAssumption
<1>1. ASSUME NEW argv \in Argvs, RunCommand, CliSend(argv),
             before' = (room_exists(rooms, argv[3]) \/ \E a \in atServer : a.req.name = argv[3]),
             told' = [told EXCEPT ![argv[3]] = "nothing"]
      PROVE  ToldInv' /\ FreshInv'
  <2>1. /\ user = Cli /\ Wellformed(argv) /\ UNCHANGED <<ordered, rooms, inbox, atServer>>
        /\ st[Cli] = "idle" /\ st' = [st EXCEPT ![Cli] = "connect"]
        /\ req' = [req EXCEPT ![Cli] = build_payload(argv)] /\ try' = [try EXCEPT ![Cli] = 1]
    BY <1>1 DEF RunCommand, CliSend, Ask, vars
  <2>2. build_payload(argv).name = argv[3] /\ argv[3] \in Names
    BY <2>1, ClientsAssumption, Zenon DEF build_payload
  <2>3. req'[Cli].name = argv[3] /\ st'[Cli] = "connect" /\ inbox'[Cli] = Nothing /\ try'[Cli] = 1
    BY <1>a, <2>1, <2>2, Zenon DEF SessionType, SessionInv
  <2>4. Known' = Known /\ \A r : Pending(r)' <=> Pending(r)
    BY <2>1 DEF Known, Pending
  <2>5. \A what, r : Agrees(what, r)' <=> Agrees(what, r)
    BY <2>4, Zenon DEF Agrees
  <2>6. ToldInv'
    BY <1>1, <2>1, <2>2, <2>3, <2>4, <2>5, Zenon DEF ToldInv
  <2>7. ~before' => argv[3] \notin Known /\ \A b \in atServer : b.req.name # argv[3]
    BY <1>1, ExistsKnown, Zenon
  <2>8. inbox'[Cli] # "1003"
    BY <2>3 DEF Nothing
  <2>9. FreshInv'
    <3> SUFFICES ASSUME ~before' PROVE FreshInv'
      BY Zenon DEF FreshInv
    <3>1. req'[Cli].name \notin Known'
      BY <2>3, <2>4, <2>7, Zenon
    <3>2. \A b \in atServer' : b.req.name # req'[Cli].name
      BY <2>1, <2>3, <2>7, Zenon
    <3> QED
      BY <2>8, <3>1, <3>2, Zenon DEF FreshInv
  <2> QED
    BY <2>6, <2>9, Zenon
<1>2. CASE RunCommand /\ UNCHANGED <<svars, before, told>>
  <2>1. CliCalm
    BY <1>2, Zenon DEF RunCommand, vars, svars, CliCalm
  <2> QED
    BY <2>1, CalmKeeps, Zenon
<1>3. CASE EndCommand
  <2>1. /\ st' = [st EXCEPT ![Cli] = "idle"] /\ inbox' = [inbox EXCEPT ![Cli] = Nothing]
        /\ UNCHANGED <<ordered, rooms, atServer>>
        /\ \/ st[Cli] = "ok" /\ told' = [told EXCEPT ![req[Cli].name] = Told(req[Cli].cmd, inbox[Cli])]
           \/ told' = told
    BY <1>3 DEF EndCommand, CliPrint, CliError, Return, vars
  <2>2. st'[Cli] = "idle" /\ inbox'[Cli] = Nothing
    <3>1. Cli \in DOMAIN st /\ Cli \in DOMAIN inbox
      BY <1>a, Zenon DEF SessionType
    <3> QED
      BY <2>1, <3>1, Zenon
  <2>3. Known' = Known /\ \A r : Pending(r)' <=> Pending(r)
    BY <2>1 DEF Known, Pending
  <2>4. \A what, r : Agrees(what, r)' <=> Agrees(what, r)
    BY <2>3, Zenon DEF Agrees
  <2>5. FreshInv'
    BY <2>2, Zenon DEF FreshInv
  <2>6. CASE told' = told
    BY <2>1, <2>2, <2>3, <2>4, <2>5, <2>6, Zenon DEF ToldInv
  <2>7. CASE st[Cli] = "ok" /\ told' = [told EXCEPT ![req[Cli].name] = Told(req[Cli].cmd, inbox[Cli])]
    <3>1. Told(req[Cli].cmd, inbox[Cli]) \in {"present", "absent", "nothing"}
      BY Zenon DEF Told
    <3>2. inbox[Cli] # Nothing
      BY <1>a, <2>7 DEF SessionInv
    <3>3. told' \in [Names -> {"present", "absent", "nothing"}]
      BY <2>7, <3>1, Zenon DEF ToldInv
    <3>4. ASSUME ordered, NEW r \in Names, told'[r] # "nothing"
          PROVE  ~Pending(r) /\ Agrees(told'[r], r)
      BY <2>7, <3>2, <3>4 DEF ToldInv
    <3> QED
      BY <2>1, <2>2, <2>3, <2>4, <2>5, <3>3, <3>4, Zenon DEF ToldInv
  <2> QED
    BY <2>1, <2>6, <2>7
<1> QED
  BY <1>1, <1>2, <1>3, Zenon DEF RunCommand, CliLocal

\* The client's attempts: the room it asks about has no answer in force.
LEMMA AttemptKeeps ==
  ASSUME SessionType, SessionInv, CliInv, ToldInv, FreshInv, Session(Cli),
         UNCHANGED <<told, ordered, before, rooms>>
  PROVE  ToldInv' /\ FreshInv'
<1>a. Cli \in Procs
  BY CliAssumption
<1>k. Known' = Known
  BY DEF Known
<1>g. \A what, r : Agrees(what, r)' <=> Agrees(what, r)
  BY <1>k DEF Agrees
<1>1. CASE Connect(Cli)
  <2>1. /\ st[Cli] = "connect" /\ st'[Cli] \in {"wait", "retry"}
        /\ UNCHANGED <<req, no, try, inbox>>
    BY <1>a, <1>1, Zenon DEF Connect, SessionType
  <2>2. \A b \in atServer' : b \in atServer \/ b = [by |-> Cli, no |-> no[Cli], try |-> try[Cli], req |-> req[Cli]]
    BY <1>1, Zenon DEF Connect
  <2>3. \A b \in atServer' : b \in atServer \/ (b.no = no[Cli] /\ b.req = req[Cli])
    BY <2>2
  <2>4. \A r : Pending(r)' => Pending(r) \/ r = req[Cli].name
    BY <2>3, Zenon DEF Pending
  <2>5. inbox[Cli] = Nothing
    BY <1>a, <2>1, Zenon DEF SessionInv
  <2>6. ToldInv'
    BY <1>g, <2>1, <2>4, <2>5, Zenon DEF ToldInv
  <2>7. FreshInv'
    BY <1>k, <2>1, <2>3, <2>5, Zenon DEF FreshInv, Nothing
  <2> QED
    BY <2>6, <2>7, Zenon
<1>2. CASE Receive(Cli)
  <2>1. /\ st[Cli] = "wait" /\ st'[Cli] = "ok" /\ UNCHANGED <<req, no, try, inbox, atServer>>
    BY <1>a, <1>2, Zenon DEF Receive, SessionType
  <2>2. \A r : Pending(r)' <=> Pending(r)
    BY <2>1, Zenon DEF Pending
  <2>3. Told(req[Cli].cmd, inbox[Cli])' = Told(req[Cli].cmd, inbox[Cli])
    BY <2>1, Zenon DEF Told
  <2> QED
    BY <1>k, <1>g, <2>1, <2>2, <2>3, Zenon DEF ToldInv, FreshInv
<1>3. CASE Timeout(Cli)
  <2>1. /\ st[Cli] = "wait" /\ st'[Cli] = "retry" /\ inbox'[Cli] = Nothing
        /\ UNCHANGED <<req, no, try, atServer>>
    BY <1>a, <1>3, Zenon DEF Timeout, SessionType
  <2>2. \A r : Pending(r)' <=> Pending(r)
    BY <2>1, Zenon DEF Pending
  <2> QED
    BY <1>k, <1>g, <2>1, <2>2, Zenon DEF ToldInv, FreshInv, Nothing
<1>4. CASE Retry(Cli)
  <2>1. /\ st[Cli] = "retry" /\ UNCHANGED <<req, no, inbox, atServer>>
        /\ \/ st'[Cli] = "connect" /\ try'[Cli] = try[Cli] + 1
           \/ st'[Cli] = "failed" /\ try' = try
    BY <1>a, <1>4, Zenon DEF Retry, SessionType
  <2>2. try[Cli] \in Nat \ {0} /\ inbox[Cli] = Nothing
    BY <1>a, <2>1, Zenon DEF SessionType, SessionInv
  <2>3. \A r : Pending(r)' <=> Pending(r)
    BY <2>1, Zenon DEF Pending
  <2>4. ToldInv'
    BY <1>g, <2>1, <2>2, <2>3, Zenon DEF ToldInv
  <2>5. try'[Cli] # 1 \/ (st'[Cli] = "failed" /\ try'[Cli] = try[Cli])
    BY <2>1, <2>2
  <2>6. inbox'[Cli] # "1003"
    BY <2>1, <2>2, Zenon DEF Nothing
  <2>7. st[Cli] # "idle" /\ UNCHANGED <<before, req, no, atServer>>
    BY <2>1, Zenon
  <2>8. FreshInv'
    BY <2>1, <2>5, <2>6, <2>7 DEF FreshInv
  <2> QED
    BY <2>4, <2>8
<1> QED
  BY <1>1, <1>2, <1>3, <1>4 DEF Session

\* handle_cli: the request it answers is the latest about its room.
LEMMA ServeKeeps ==
  ASSUME RoomInv, SessionType, SessionInv, CliInv, ToldInv, FreshInv,
         NEW a \in atServer, a.by = Cli, a.req \in CliReq, ServeCli(a)
  PROVE  ToldInv' /\ FreshInv'
<1> DEFINE r0 == a.req.name
<1>a. Cli \in Procs /\ DOMAIN inbox = Procs
  BY CliAssumption DEF SessionType
<1>1. PICK code \in Codes :
        /\ Answer(a, code)
        /\ Told(a.req.cmd, code) = "present" => r0 \in Known'
        /\ Told(a.req.cmd, code) = "absent" => r0 \notin Known'
        /\ code = "1003" => r0 \in Known
  BY ServeFacts
<1>2. \A r : r # r0 => (r \in Known' <=> r \in Known)
  BY ServeFacts
<1>3. /\ atServer' = atServer \ {a} /\ UNCHANGED <<st, req, no, try, told, before>>
      /\ inbox' = IF Awaited(a) THEN [inbox EXCEPT ![a.by] = code] ELSE inbox
      /\ ordered' = (ordered /\ ~Overtakes(a))
  BY <1>1, Zenon DEF Answer, ServeCli
<1>4. code # Nothing
  BY DEF Codes, Nothing
<1>5. Pending(r0)
  BY DEF Pending
<1>6. \A r : Pending(r)' => Pending(r)
  BY <1>3 DEF Pending
<1>7. \A what, r : r # r0 => (Agrees(what, r)' <=> Agrees(what, r))
  BY <1>2 DEF Agrees
<1>8. Agrees(Told(a.req.cmd, code), r0)'
  <2>1. (Told(a.req.cmd, code) = "present" => r0 \in Known') /\ (Told(a.req.cmd, code) = "absent" => r0 \notin Known')
    BY <1>1
  <2>2. Agrees(Told(a.req.cmd, code), r0)' <=>
          (Told(a.req.cmd, code) = "present" => r0 \in Known') /\ (Told(a.req.cmd, code) = "absent" => r0 \notin Known')
    BY DEF Agrees
  <2> QED
    BY <2>1, <2>2, Zenon
<1> HIDE DEF r0
<1>9. ASSUME ordered', NEW r \in Names, told[r] # "nothing"
      PROVE  ~Pending(r)' /\ Agrees(told[r], r)'
  BY <1>3, <1>5, <1>6, <1>7, <1>9, Zenon DEF ToldInv
<1>10. CASE Awaited(a)
  <2>1. /\ st[Cli] = "wait" /\ no[Cli] = a.no /\ try[Cli] = a.try
        /\ inbox'[Cli] = code /\ inbox[Cli] = Nothing
    BY <1>a, <1>3, <1>10, Zenon DEF Awaited, SessionInv
  <2>2. req[Cli] = a.req /\ req[Cli].name = r0
    BY <2>1, Zenon DEF SessionInv, r0
  <2>3. ASSUME ordered', NEW b \in atServer', b.by = Cli, b.req.name = r0 PROVE FALSE
    <3>1. b \in atServer /\ b # a /\ ~Overtakes(a)
      BY <1>3, <2>3, Zenon
    <3>2. ~(b.no < a.no) /\ ~(b.no = a.no /\ b.try < a.try)
      BY <2>3, <3>1, Zenon DEF Overtakes, r0
    <3>3. b.no \in Nat /\ a.no \in Nat /\ b.try \in Nat /\ a.try \in Nat
      BY <3>1, Zenon DEF SessionType
    <3>4. b.no <= a.no
      BY <2>1, <2>3, <3>1 DEF SessionInv
    <3>5. b.no = a.no
      BY <3>2, <3>3, <3>4
    <3>6. b.try <= a.try
      BY <2>1, <2>3, <3>1, <3>5, Zenon DEF SessionInv
    <3>7. ~(b.try < a.try)
      BY <3>2, <3>5, Zenon
    <3>8. b.try = a.try
      BY <3>3, <3>6, <3>7
    <3> QED
      BY <2>3, <3>1, <3>5, <3>8, Zenon DEF SessionInv
  <2>4. ordered' => ~Pending(req[Cli].name)'
    BY <2>2, <2>3, <1>3 DEF Pending
  <2>5. Told(req[Cli].cmd, inbox[Cli])' = Told(a.req.cmd, code)
    BY <2>1, <2>2, <1>3, Zenon DEF Told
  <2>6. ToldInv'
    BY <1>3, <1>8, <1>9, <2>2, <2>4, <2>5, Zenon DEF ToldInv
  <2>7. FreshInv'
    <3>1. ASSUME ~before, try[Cli] = 1 PROVE inbox'[Cli] # "1003"
      BY <1>1, <2>1, <2>2, <3>1, Zenon DEF FreshInv
    <3> QED
      BY <1>3, <1>4, <2>1, <3>1, Zenon DEF FreshInv
  <2> QED
    BY <2>6, <2>7, Zenon
<1>11. CASE ~Awaited(a)
  <2>1. inbox' = inbox
    BY <1>3, <1>11
  <2>2. Told(req[Cli].cmd, inbox[Cli])' = Told(req[Cli].cmd, inbox[Cli])
    BY <1>3, <2>1, Zenon DEF Told
  <2>3. ordered /\ inbox[Cli] # Nothing => req[Cli].name # r0
    BY <1>5 DEF ToldInv
  <2>4. ToldInv'
    BY <1>3, <1>6, <1>7, <1>9, <2>1, <2>2, <2>3, Zenon DEF ToldInv
  <2>5. ASSUME ~before, try[Cli] = 1, st[Cli] \in {"connect", "wait"}
        PROVE  req[Cli].name # r0
    <3> SUFFICES ASSUME req[Cli].name = r0 PROVE FALSE
      OBVIOUS
    <3>1. a.no = no[Cli]
      BY <2>5, Zenon DEF FreshInv, r0
    <3>2. a.try \in Nat \ {0} /\ a.try <= try[Cli] /\ (st[Cli] = "connect" => a.try < try[Cli])
      BY <2>5, <3>1, Zenon DEF SessionInv, SessionType
    <3> QED
      BY <1>11, <2>5, <3>1, <3>2 DEF Awaited
  <2>6. FreshInv'
    BY <1>2, <1>3, <2>1, <2>5, Zenon DEF FreshInv
  <2> QED
    BY <2>4, <2>6
<1> QED
  BY <1>10, <1>11, Zenon

\* The two invariants, through every step of the system.
LEMMA ToldStep ==
  RoomInv /\ SessionType /\ SessionInv /\ CliInv /\ ToldInv /\ FreshInv /\ [SysNext]_sysvars
    => ToldInv' /\ FreshInv'
<1> SUFFICES ASSUME RoomInv, SessionType, SessionInv, CliInv, ToldInv, FreshInv, [SysNext]_sysvars
             PROVE  ToldInv' /\ FreshInv'
  OBVIOUS
<1>a. Cli \in Procs /\ Loc \in Procs /\ Cli # Loc
  BY CliAssumption, LocAssumption, ClientsAssumption
<1>1. CASE RunCommand \/ EndCommand
  BY <1>1, CommandKeeps
<1>2. CASE Session(Cli) /\ UNCHANGED <<vars, hvars>>
  BY <1>2, AttemptKeeps DEF vars, hvars
<1>3. CASE Server
  <2>1. PICK a \in atServer :
           \/ a.by = Cli /\ a.req \in CliReq /\ ServeCli(a)
           \/ a.by = Loc /\ ServeLoc(a)
           \/ Lost(a)
    BY <1>3, ServerKinds
  <2>2. CASE a.by = Cli /\ a.req \in CliReq /\ ServeCli(a)
    BY <2>2, ServeKeeps
  <2>3. CASE a.by = Loc /\ ServeLoc(a)
    <3>1. CliCalm
      BY <1>a, <2>3, Zenon DEF ServeLoc, Answer, CliCalm, vars, SessionType
    <3> QED
      BY <3>1, CalmKeeps, Zenon
  <2>4. CASE Lost(a)
    <3>1. CliCalm
      BY <2>4 DEF Lost, Lose, CliCalm, vars, hvars
    <3> QED
      BY <3>1, CalmKeeps
  <2> QED
    BY <2>1, <2>2, <2>3, <2>4
<1>4. CASE (RunLocgend \/ Locgend \/ Drivers) /\ UNCHANGED <<vars, hvars>>
  <2>1. (\E r : Ask(Loc, r)) \/ Return(Loc) \/ UNCHANGED svars
    BY <1>4, Zenon DEF RunLocgend, Locgend, Drivers, LocApply, LocOne, LocShow, LocAsk, LocAnswered,
       LocFailed, LocDone, LocStatus, LocRoot, LocRead, ProcChange
  <2>2. CliCalm
    BY <1>a, <1>4, <2>1, Zenon DEF Ask, Return, svars, vars, hvars, CliCalm, SessionType
  <2> QED
    BY <2>2, CalmKeeps, Zenon
<1>5. CASE Session(Loc) /\ UNCHANGED <<vars, hvars>>
  <2>1. \A b \in atServer' : b \in atServer \/ b = [by |-> Loc, no |-> no[Loc], try |-> try[Loc], req |-> req[Loc]]
    BY <1>5, Zenon DEF Session, Connect, Receive, Timeout, Retry
  <2>2. \A b \in atServer' : b.by = Cli => b \in atServer
    BY <1>a, <2>1
  <2>3. /\ st'[Cli] = st[Cli] /\ req' = req /\ no' = no
        /\ try'[Cli] = try[Cli] /\ inbox'[Cli] = inbox[Cli]
    BY <1>a, <1>5, Zenon DEF Session, Connect, Receive, Timeout, Retry, SessionType
  <2>4. CliCalm
    BY <1>5, <2>2, <2>3, Zenon DEF CliCalm, vars, hvars
  <2> QED
    BY <2>4, CalmKeeps
<1>6. CASE UNCHANGED sysvars
  <2>1. CliCalm
    BY <1>6 DEF sysvars, CliCalm, vars, hvars, svars
  <2> QED
    BY <2>1, CalmKeeps
<1> QED
  BY <1>1, <1>2, <1>3, <1>4, <1>5, <1>6, Zenon DEF SysNext, CliStep, LocStep, RunLocgend, Drivers

-----------------------------------------------------------------------------
(* The system.                                                              *)

SysInv ==
  /\ RoomInv /\ SessionType /\ SessionInv /\ CliInv
  /\ ToldInv /\ FreshInv

\* The registry, the clients and the sessions begin in the invariant.
LEMMA SysStart == SysInit => SysInv /\ Abs!Init
<1> SUFFICES ASSUME SysInit PROVE SysInv /\ Abs!Init
  OBVIOUS
<1>0. Cli \in Procs /\ Loc \in Procs
  BY CliAssumption, LocAssumption
<1>1. RoomInv /\ Abs!Init
  BY RoomInit DEF SysInit
<1>2. /\ atServer = {} /\ st = [u \in Procs |-> "idle"] /\ no = [u \in Procs |-> 0]
      /\ try = [u \in Procs |-> 0] /\ inbox = [u \in Procs |-> Nothing]
      /\ req = [u \in Procs |-> Nothing]
  BY Zenon DEF SysInit, SessionInit
<1>3. SessionType /\ SessionInv
  BY <1>2, Zenon DEF SessionType, SessionInv, Points
<1>4. CliInv
  BY <1>0, <1>2, Zenon DEF SysInit, CliInit, LocInit, CliInv
<1>5. ToldInv /\ FreshInv
  BY <1>0, <1>2 DEF SysInit, ToldInv, FreshInv
<1> QED
  BY <1>1, <1>3, <1>4, <1>5 DEF SysInv

\* Every step keeps it, and is a call on the set or none.
LEMMA SysStep == SysInv /\ [SysNext]_sysvars => SysInv' /\ [Abs!Next]_<<Known, call, rc>>
<1> SUFFICES ASSUME SysInv, [SysNext]_sysvars PROVE SysInv' /\ [Abs!Next]_<<Known, call, rc>>
  OBVIOUS
<1>1. /\ RoomInv /\ SessionType /\ SessionInv /\ CliInv
      /\ ToldInv /\ FreshInv
  BY DEF SysInv
<1>2. RoomInv' /\ [Abs!Next]_<<Known, call, rc>>
  BY <1>1, RegistryStep
<1>3. SessionType' /\ SessionInv'
  BY <1>1, SysSessions, SessionKept
<1>4. CliInv' /\ ToldInv' /\ FreshInv'
  BY <1>1, CliInvStep, ToldStep
<1> QED
  BY <1>2, <1>3, <1>4 DEF SysInv

\* So it always holds.
LEMMA SysAlways == SysSpec => []SysInv
BY SysStart, SysStep, PTL DEF SysSpec

(* The registry is the bounded set also behind its clients: what they send, *)
(* late, repeated or lost, reaches it as whole calls, and locgend's         *)
(* requests leave it alone (req_handler.c, handle_cli and handle_legacy).   *)
THEOREM SetBehindClients == SysSpec => ImplementsSet
BY SysStart, SysStep, PTL DEF SysSpec, ImplementsSet, Abs!Spec

(* What the command line client was last told of a room stays true until    *)
(* its next command about it, unless a request was overtaken                *)
(* (system_monitor.c, send_req).                                            *)
THEOREM AnswersTrue == SysSpec => []AnswersStayTrue
<1>1. SysInv => AnswersStayTrue
  BY ExistsKnown, Zenon DEF SysInv, ToldInv, Agrees, AnswersStayTrue
<1> QED
  BY <1>1, SysAlways, PTL

(* "Already exists" for a room that was not there is the answer to a second *)
(* attempt (req_handler.c, room_create; system_monitor.c, send_req).        *)
THEOREM ExistsFromRetry == SysSpec => []ExistsExplained
<1>1. SysInv => ExistsExplained
  <2> SUFFICES ASSUME SysInv, st[Cli] = "ok", inbox[Cli] = "1003", ~before PROVE try[Cli] >= 2
    BY Zenon DEF ExistsExplained
  <2>1. try[Cli] # 1
    BY Zenon DEF SysInv, FreshInv
  <2>2. try[Cli] \in Nat /\ try[Cli] # 0
    BY CliAssumption DEF SysInv, SessionType, SessionInv
  <2> QED
    BY <2>1, <2>2
<1> QED
  BY <1>1, SysAlways, PTL


-----------------------------------------------------------------------------
(* Loops: induction on 0 .. n with a set in the place of a predicate.       *)

\* A set with 0, and with k + 1 for each of its k below n, holds 0 .. n: what a
\* loop that counts to n keeps, it has at the end.
LEMMA Counting ==
  ASSUME NEW n \in Nat, NEW P, 0 \in P, \A k \in 0 .. n - 1 : k \in P => k + 1 \in P
  PROVE  0 .. n \subseteq P
<1> SUFFICES ASSUME NEW k \in 0 .. n, k \notin P PROVE FALSE
  OBVIOUS
<1> DEFINE Bad == {m \in 0 .. n : m \notin P}
<1>1. Bad \subseteq Nat /\ Bad # {}
  OBVIOUS
<1>2. IsWellFoundedOn(OpToRel(<, Nat), Nat)
  BY NatLessThanWellFounded
<1>3. PICK m \in Bad : \A j \in Bad : <<j, m>> \notin OpToRel(<, Nat)
  BY <1>1, <1>2, WFMin
<1>4. m \in Nat /\ m # 0 /\ m \in 0 .. n
  OBVIOUS
<1>5. m - 1 \in 0 .. n - 1 /\ m - 1 \notin P
  BY <1>4
<1>6. m - 1 \in Bad /\ <<m - 1, m>> \in OpToRel(<, Nat)
  BY <1>4, <1>5 DEF OpToRel
<1> QED
  BY <1>3, <1>6

\* F[k] is the value a loop has built after k of its n turns: base, and g of the
\* turn and the value before.
Builds(F, n, S, base, g) ==
  /\ F \in [0 .. n -> S]
  /\ F[0] = base
  /\ \A k \in 1 .. n : F[k] = g[<<k, F[k - 1]>>]

\* A loop of n turns that starts from base and turns a value of S into another
\* has a result: the recursive function that models it exists.
LEMMA Defining ==
  ASSUME NEW n \in Nat, NEW S, NEW base \in S, NEW g \in [(1 .. n) \X S -> S]
  PROVE  \E F : Builds(F, n, S, base, g)
<1> DEFINE Good(m, F) == F[0] = base /\ \A k \in 1 .. m : F[k] = g[<<k, F[k - 1]>>]
           P == {m \in 0 .. n : \E F \in [0 .. m -> S] : Good(m, F)}
<1>1. 0 \in P
  <2> DEFINE F == [k \in 0 .. 0 |-> base]
  <2>1. F \in [0 .. 0 -> S] /\ F[0] = base
    OBVIOUS
  <2> HIDE DEF F
  <2>2. Good(0, F) /\ 0 \in 0 .. n
    BY <2>1
  <2> QED
    BY <2>1, <2>2
<1>2. ASSUME NEW m \in 0 .. n - 1, m \in P PROVE m + 1 \in P
  <2>1. PICK F \in [0 .. m -> S] : Good(m, F)
    BY <1>2
  <2> DEFINE G == [k \in 0 .. m + 1 |-> IF k <= m THEN F[k] ELSE g[<<m + 1, F[m]>>]]
  <2>2. m \in Nat /\ m + 1 \in 1 .. n /\ F[m] \in S
    OBVIOUS
  <2>3. g[<<m + 1, F[m]>>] \in S
    BY <2>2
  <2>4. G \in [0 .. m + 1 -> S]
    BY <2>2, <2>3
  <2>5. (\A k \in 0 .. m : G[k] = F[k]) /\ G[m + 1] = g[<<m + 1, F[m]>>]
    BY <2>2
  <2> HIDE DEF G
  <2>6. G[0] = base
    BY <2>1, <2>2, <2>5
  <2>7. \A k \in 1 .. m + 1 : G[k] = g[<<k, G[k - 1]>>]
    <3> SUFFICES ASSUME NEW k \in 1 .. m + 1 PROVE G[k] = g[<<k, G[k - 1]>>]
      OBVIOUS
    <3>1. CASE k = m + 1
      BY <2>2, <2>5, <3>1
    <3>2. CASE k \in 1 .. m
      <4>1. k \in 0 .. m /\ k - 1 \in 0 .. m
        BY <2>2, <3>2
      <4> QED
        BY <2>1, <2>5, <3>2, <4>1
    <3> QED
      BY <2>2, <3>1, <3>2
  <2> QED
    BY <2>2, <2>4, <2>6, <2>7
<1> HIDE DEF P
<1>3. 0 .. n \subseteq P
  BY <1>1, <1>2, Counting
<1>4. n \in P
  BY <1>3
<1> QED
  BY <1>4 DEF P, Builds
-----------------------------------------------------------------------------
(* locgend.                                                                 *)

\* loc_load_rooms_xml returns a list, whatever the document.
LEMMA LoadType ==
  ASSUME NEW tags \in Documents
  PROVE  Len(loc_load_rooms_xml(tags)) \in Nat
         /\ DOMAIN loc_load_rooms_xml(tags) = 1 .. Len(loc_load_rooms_xml(tags))
<1> DEFINE scanned == {k \in DOMAIN tags : \A o \in {x \in DOMAIN tags : ~tags[x].closed} : k < o}
           m == Cardinality(scanned)
           R == {RoomOf(tags[k]) : k \in 1 .. m}
           Step(F) == [k \in 0 .. m |-> IF k = 0 THEN <<>>
                                        ELSE IF IsRoom(tags[k]) THEN Append(F[k - 1], RoomOf(tags[k]))
                                        ELSE F[k - 1]]
           list == CHOOSE F : F = Step(F)
           g == [x \in (1 .. m) \X Seq(R) |-> IF IsRoom(tags[x[1]]) THEN Append(x[2], RoomOf(tags[x[1]])) ELSE x[2]]
<1>1. loc_load_rooms_xml(tags) = list[m]
  BY DEF loc_load_rooms_xml
<1>2. m \in Nat
  <2>1. Len(tags) \in Nat /\ DOMAIN tags = 1 .. Len(tags)
    BY LocAssumption
  <2>2. IsFiniteSet(1 .. Len(tags))
    BY <2>1, FS_Interval
  <2>3. IsFiniteSet(scanned)
    BY <2>1, <2>2, FS_Subset
  <2> QED
    BY <2>3, FS_CardinalityType
<1> HIDE DEF m
<1>3. g \in [(1 .. m) \X Seq(R) -> Seq(R)]
  <2>1. ASSUME NEW k \in 1 .. m, NEW s \in Seq(R) PROVE Append(s, RoomOf(tags[k])) \in Seq(R)
    OBVIOUS
  <2> QED
    BY <2>1
<1>g. \A k \in 1 .. m : \A s \in Seq(R) :
        g[<<k, s>>] = IF IsRoom(tags[k]) THEN Append(s, RoomOf(tags[k])) ELSE s
  OBVIOUS
<1>e. <<>> \in Seq(R)
  OBVIOUS
<1> DEFINE S == Seq(R)
           none == <<>>
<1>s. none \in S /\ g \in [(1 .. m) \X S -> S]
  BY <1>3, <1>e
<1> DEFINE Turn(k, s) == IF IsRoom(tags[k]) THEN Append(s, RoomOf(tags[k])) ELSE s
<1>a. \A k \in 1 .. m : \A s \in S : Turn(k, s) \in S
  OBVIOUS
<1>q. \A s \in S : Len(s) \in Nat /\ DOMAIN s = 1 .. Len(s)
  OBVIOUS
<1>t. \A F : Step(F) = [k \in 0 .. m |-> IF k = 0 THEN none ELSE Turn(k, F[k - 1])]
  OBVIOUS
<1>u. \A k \in 1 .. m : \A s \in S : g[<<k, s>>] = Turn(k, s)
  BY <1>g, Zenon
<1> HIDE DEF g, R, S, none, Step, scanned, list, Turn
<1>4. PICK F : Builds(F, m, S, none, g)
  BY <1>2, <1>s, Defining, Zenon
<1>5. F = Step(F)
  <2>0. F \in [0 .. m -> S] /\ F[0] = none /\ \A k \in 1 .. m : F[k] = g[<<k, F[k - 1]>>]
    BY <1>4 DEF Builds
  <2>1. ASSUME NEW k \in 1 .. m PROVE F[k] = Turn(k, F[k - 1])
    <3>1. F[k - 1] \in S
      BY <1>2, <2>0
    <3> QED
      BY <2>0, <1>u, <3>1, Zenon
  <2>2. \A k \in 0 .. m : F[k] = IF k = 0 THEN none ELSE Turn(k, F[k - 1])
    BY <1>2, <2>0, <2>1
  <2>3. F = [k \in 0 .. m |-> IF k = 0 THEN none ELSE Turn(k, F[k - 1])]
    BY <2>0, <2>2
  <2> QED
    BY <1>t, <2>3, Zenon
<1>6. list = Step(list)
  BY <1>5 DEF list
<1>7. list[0] = none /\ \A k \in 0 .. m - 1 : list[k + 1] = Turn(k + 1, list[k])
  BY <1>2, <1>6, <1>t
<1> DEFINE P == {k \in 0 .. m : list[k] \in S}
<1>8. 0 \in P
  BY <1>2, <1>7, <1>s
<1>9. ASSUME NEW k \in 0 .. m - 1, k \in P PROVE k + 1 \in P
  <2>1. k + 1 \in 1 .. m
    BY <1>2
  <2> QED
    BY <1>2, <1>7, <1>9, <1>a, <2>1
<1>10. 0 .. m \subseteq P
  <2> HIDE DEF P
  <2> QED BY <1>2, <1>8, <1>9, Counting
<1>11. list[m] \in S
  BY <1>2, <1>10
<1> QED
  BY <1>1, <1>11, <1>q

\* Where locgend is, the number of its request, and the requests processed.
LocInv ==
  /\ i \in Nat \ {0} /\ no[Loc] \in {i - 1, i} /\ Len(todo) \in Nat
  /\ lp = "asked" <=> st[Loc] # "idle"
  /\ lp = "asked" => no[Loc] = i /\ i <= Len(todo)
  /\ lp = "apply" => no[Loc] = i - 1 /\ i - 1 <= Len(todo)
  /\ lp \in {"start", "libpm", "root", "read"} => i = 1 /\ no[Loc] = 0 /\ todo = <<>>
  /\ lp = "exit" /\ lexit = 0 => todo = <<>> \/ Len(todo) <= i - 1
  /\ done \subseteq 1 .. no[Loc] /\ 1 .. i - 1 \subseteq done
  /\ inbox[Loc] # Nothing => no[Loc] \in done
  /\ \A b \in atServer : b.by = Loc => b.no # 0

\* A step that leaves locgend's variables and number alone, and gives it no answer.
LocCalm ==
  /\ UNCHANGED <<lp, lexit, todo, i, done>>
  /\ no'[Loc] = no[Loc] /\ (st'[Loc] # "idle" <=> st[Loc] # "idle")
  /\ inbox'[Loc] # Nothing => inbox[Loc] # Nothing
  /\ \A b \in atServer' : b.by = Loc => b \in atServer \/ (b.no = no[Loc] /\ st[Loc] # "idle")

\* Such a step keeps what is known of locgend.
LEMMA LocCalmKeeps == LocInv /\ LocCalm => LocInv'
<1> SUFFICES ASSUME LocInv, LocCalm PROVE LocInv'
  OBVIOUS
<1>1. \A b \in atServer' : b.by = Loc => b.no # 0
  BY DEF LocInv, LocCalm
<1> QED
  BY <1>1 DEF LocInv, LocCalm

\* The attempts of a request, and the other program, leave locgend where it is.
LEMMA OthersCalm ==
  ASSUME SessionType,
         \/ RunCommand \/ CliStep \/ Drivers
         \/ Session(Loc) /\ UNCHANGED <<locvars, done>>
         \/ \E a \in atServer : Lost(a) \/ (a.by = Cli /\ ServeCli(a))
         \/ UNCHANGED sysvars
  PROVE  LocCalm
<1>0. Cli # Loc /\ Cli \in Procs /\ Loc \in Procs
  BY ClientsAssumption, CliAssumption, LocAssumption
<1>1. ASSUME NEW u \in Procs, Session(u), UNCHANGED <<locvars, done>> PROVE LocCalm
  <2>1. CASE Connect(u)
    <3>1. CASE st' = [st EXCEPT ![u] = "wait"]
               /\ atServer' = atServer \cup {[by |-> u, no |-> no[u], try |-> try[u], req |-> req[u]]}
      BY <1>0, <1>1, <2>1, <3>1 DEF Connect, LocCalm, SessionType, Points, locvars, gvars
    <3>2. CASE st' = [st EXCEPT ![u] = "retry"] /\ UNCHANGED atServer
      BY <1>0, <1>1, <2>1, <3>2 DEF Connect, LocCalm, SessionType, Points, locvars, gvars
    <3> QED
      BY <2>1, <3>1, <3>2 DEF Connect
  <2>2. CASE Receive(u)
    BY <1>0, <1>1, <2>2 DEF Receive, LocCalm, SessionType, Points, locvars, gvars
  <2>3. CASE Timeout(u)
    BY <1>0, <1>1, <2>3 DEF Timeout, LocCalm, SessionType, Points, locvars, gvars
  <2>4. CASE Retry(u)
    BY <1>0, <1>1, <2>4, Zenon DEF Retry, LocCalm, SessionType, Points, locvars, gvars
  <2> QED
    BY <1>1, <2>1, <2>2, <2>3, <2>4, Zenon DEF Session
<1>2. ASSUME RunCommand \/ EndCommand PROVE LocCalm
  <2>1. UNCHANGED <<locvars, done>>
    BY <1>2, Zenon DEF RunCommand, EndCommand
  <2>2. (\E r : Ask(Cli, r)) \/ Return(Cli) \/ UNCHANGED svars
    BY <1>2, Zenon DEF RunCommand, EndCommand, CliLocal, CliSend, CliPrint, CliError
  <2>3. no'[Loc] = no[Loc] /\ st'[Loc] = st[Loc] /\ inbox'[Loc] = inbox[Loc] /\ atServer' = atServer
    BY <1>0, <2>2, Zenon DEF Ask, Return, svars, SessionType
  <2> QED
    BY <2>1, <2>3 DEF LocCalm, locvars, gvars
<1>3. ASSUME NEW a \in atServer, Lost(a) PROVE LocCalm
  BY <1>3, Zenon DEF Lost, Lose, LocCalm, locvars, gvars, hvars
<1>4. ASSUME NEW a \in atServer, a.by = Cli, ServeCli(a) PROVE LocCalm
  <2>1. /\ UNCHANGED <<locvars, done, st, no>> /\ atServer' = atServer \ {a}
        /\ \/ inbox' = inbox
           \/ \E code : inbox' = [inbox EXCEPT ![a.by] = code]
    BY <1>4, Zenon DEF ServeCli, Answer
  <2>2. inbox'[Loc] = inbox[Loc]
    BY <1>0, <1>4, <2>1, Zenon DEF SessionType
  <2> QED
    BY <2>1, <2>2 DEF LocCalm, locvars, gvars
<1>5. ASSUME Drivers \/ UNCHANGED sysvars PROVE LocCalm
  BY <1>5 DEF Drivers, ProcChange, LocCalm, sysvars, svars, locvars, gvars, hvars
<1> QED
  BY <1>0, <1>1, <1>2, <1>3, <1>4, <1>5 DEF CliStep, hvars

\* locgend asks for one room after the other, and only after an answer.
LEMMA LocInvStep ==
  ASSUME SessionType, SessionInv, LocInv, [SysNext]_sysvars
  PROVE  LocInv'
<1>0. Cli # Loc /\ Loc \in Procs /\ no[Loc] \in Nat
  BY ClientsAssumption, LocAssumption DEF SessionType
<1>1. ASSUME LocApply, UNCHANGED hvars PROVE LocInv'
  <2>1. lp = "start" /\ UNCHANGED <<i, st, no, inbox, atServer, done>>
    BY <1>1 DEF LocApply, svars, hvars
  <2>2. ASSUME NEW tags \in Documents, lp' = "apply",
               todo' = [k \in DOMAIN loc_load_rooms_xml(tags) |-> ApplyRequest(loc_load_rooms_xml(tags)[k])]
        PROVE  LocInv'
    <3>1. Len(todo') \in Nat
      BY <2>2, LoadType
    <3> QED
      BY <2>1, <2>2, <3>1 DEF LocInv
  <2>3. CASE lp' = "exit" /\ UNCHANGED todo
    BY <2>1, <2>3 DEF LocInv
  <2> QED
    BY <1>1, <2>2, <2>3 DEF LocApply
<1>2. ASSUME LocOne, UNCHANGED hvars PROVE LocInv'
  <2>1. PICK r : Ask(Loc, r) /\ todo' = <<r>>
    BY <1>2 DEF LocOne
  <2>2. /\ lp = "start" /\ lp' = "asked" /\ UNCHANGED <<i, lexit, inbox, atServer, done>>
        /\ no'[Loc] = no[Loc] + 1 /\ st'[Loc] = "connect"
    BY <1>0, <1>2, <2>1 DEF LocOne, Ask, hvars, SessionType
  <2>3. Len(todo') = 1
    BY <2>1, Zenon
  <2>a. i = 1 /\ no[Loc] = 0
    BY <2>2 DEF LocInv
  <2>b. st[Loc] = "idle"
    BY <2>1, Zenon DEF Ask
  <2>4. i = 1 /\ no[Loc] = 0 /\ inbox[Loc] = Nothing /\ no'[Loc] = 1
    <3>1. inbox[Loc] = Nothing
      BY <1>0, <2>b, Zenon DEF SessionInv
    <3>2. no'[Loc] = 0 + 1
      BY <2>2, <2>a, Zenon
    <3> QED BY <2>a, <3>1, <3>2
  <2>5. done' \subseteq 1 .. no'[Loc] /\ 1 .. i' - 1 \subseteq done'
    <3>1. i' = 1 /\ no[Loc] = 0 /\ no'[Loc] = 1 /\ done' = done
      BY <2>2, <2>4, Zenon
    <3>2. done \subseteq 1 .. no[Loc]
      BY Zenon DEF LocInv
    <3> QED BY <3>1, <3>2
  <2> QED
    BY <2>2, <2>3, <2>4, <2>5 DEF LocInv
<1>3. ASSUME LocAsk, UNCHANGED hvars PROVE LocInv'
  <2>2. /\ lp = "apply" /\ lp' = "asked" /\ UNCHANGED <<i, lexit, inbox, atServer, done, todo>>
        /\ no'[Loc] = no[Loc] + 1 /\ st'[Loc] = "connect" /\ st[Loc] = "idle" /\ i <= Len(todo)
    BY <1>0, <1>3, Zenon DEF LocAsk, Ask, hvars, SessionType
  <2>3. no[Loc] = i - 1 /\ i \in Nat
    BY <2>2 DEF LocInv
  <2>4. no'[Loc] = i /\ inbox[Loc] = Nothing
    <3>1. inbox[Loc] = Nothing
      BY <1>0, <2>2, Zenon DEF SessionInv
    <3> QED BY <2>2, <2>3, <3>1
  <2>5. done' \subseteq 1 .. no'[Loc] /\ 1 .. i' - 1 \subseteq done'
    BY <1>0, <2>2, <2>4 DEF LocInv
  <2> QED
    BY <2>2, <2>4, <2>5 DEF LocInv
<1>4. ASSUME LocAnswered \/ LocFailed, UNCHANGED hvars PROVE LocInv'
  <2>1. /\ lp = "asked" /\ UNCHANGED <<no, atServer, done, todo>>
        /\ st'[Loc] = "idle" /\ inbox'[Loc] = Nothing
    BY <1>0, <1>4, Zenon DEF LocAnswered, LocFailed, Return, hvars, SessionType
  <2>2. CASE st[Loc] = "ok" /\ i' = i + 1 /\ lp' = "apply" /\ UNCHANGED lexit
    <3>1. no[Loc] = i /\ i \in done
      BY <1>0, <2>1, <2>2, Zenon DEF LocInv, SessionInv
    <3>2. 1 .. i' - 1 \subseteq done'
      BY <2>1, <2>2, <3>1 DEF LocInv
    <3> QED
      BY <2>1, <2>2, <3>1, <3>2 DEF LocInv
  <2>3. CASE lp' = "exit" /\ lexit' = 2 /\ UNCHANGED i
    BY <2>1, <2>3 DEF LocInv
  <2> QED
    BY <1>4, <2>2, <2>3, Zenon DEF LocAnswered, LocFailed
<1>5. ASSUME LocDone \/ LocStatus \/ LocRoot \/ LocRead \/ LocShow, UNCHANGED hvars PROVE LocInv'
  <2>1. UNCHANGED <<i, st, no, inbox, atServer, done, todo>>
    BY <1>5, Zenon DEF LocDone, LocStatus, LocRoot, LocRead, LocShow, svars, gvars, hvars
  <2>2. \/ lp = "apply" /\ lp' = "exit" /\ Len(todo) < i
        \/ lp \in {"start", "libpm", "root", "read"} /\ lp' \in {"libpm", "root", "read", "exit"}
    BY <1>5, Zenon DEF LocDone, LocStatus, LocRoot, LocRead, LocShow, Shown, LocInv
  <2>3. CASE lp = "apply" /\ lp' = "exit" /\ Len(todo) < i
    BY <2>1, <2>3 DEF LocInv
  <2>4. CASE lp \in {"start", "libpm", "root", "read"} /\ lp' \in {"libpm", "root", "read", "exit"}
    BY <2>1, <2>4, Zenon DEF LocInv
  <2> QED
    BY <2>2, <2>3, <2>4, Zenon
<1>6. ASSUME NEW a \in atServer, a.by = Loc, ServeLoc(a) PROVE LocInv'
  <2>1. /\ UNCHANGED <<lp, lexit, todo, i, st, no>>
        /\ done' = done \cup {a.no} /\ atServer' = atServer \ {a}
        /\ inbox' = IF Awaited(a) THEN [inbox EXCEPT ![a.by] = "OK"] ELSE inbox
    BY <1>6 DEF ServeLoc, Answer, locvars, gvars
  <2>2. a.no \in 1 .. no[Loc]
    <3>1. a.no # 0
      BY <1>6, Zenon DEF LocInv
    <3>2. a.no <= no[Loc]
      BY <1>6, Zenon DEF SessionInv
    <3>3. a.no \in Nat /\ no[Loc] \in Nat
      BY <1>0, <1>6 DEF SessionType
    <3> QED BY <3>1, <3>2, <3>3
  <2>3. inbox'[Loc] # Nothing => no'[Loc] \in done'
    BY <1>0, <1>6, <2>1 DEF LocInv, Awaited
  <2>4. done' \subseteq 1 .. no'[Loc] /\ 1 .. i' - 1 \subseteq done'
    BY <2>1, <2>2, Zenon DEF LocInv
  <2> QED
    BY <2>1, <2>3, <2>4 DEF LocInv
<1>7. CASE Server
  <2>1. PICK a \in atServer : (a.by = Cli /\ ServeCli(a)) \/ (a.by = Loc /\ ServeLoc(a)) \/ Lost(a)
    BY <1>7, Zenon DEF Server, ServeCli, ServeLoc
  <2>2. CASE a.by = Loc /\ ServeLoc(a)
    BY <1>6, <2>2
  <2>3. CASE (a.by = Cli /\ ServeCli(a)) \/ Lost(a)
    BY <2>3, OthersCalm, LocCalmKeeps, Zenon
  <2> QED
    BY <2>1, <2>2, <2>3
<1>8. CASE RunCommand \/ CliStep \/ Drivers \/ UNCHANGED sysvars
  BY <1>8, OthersCalm, LocCalmKeeps
<1>9. CASE RunLocgend
  BY <1>1, <1>2, <1>5, <1>9, Zenon DEF RunLocgend
<1>10. CASE LocStep
  BY <1>3, <1>4, <1>5, <1>10, OthersCalm, LocCalmKeeps, Zenon DEF LocStep, Locgend, hvars
<1> QED
  BY <1>7, <1>8, <1>9, <1>10 DEF SysNext

\* r was asked for among the first m requests, and was the last one with its id.
Latest(r, m) ==
  \E k \in 1 .. m : todo[k].room = r /\ \A l \in 1 .. m : todo[l].room.id = r.id => l <= k

Asked == {todo[k].room : k \in 1 .. Len(todo)}

\* The store: the rooms asked for, one per id.
StoreInv ==
  /\ store \in Seq(Asked)
  /\ lp \notin {"apply", "asked"} => store = <<>>
  /\ \A j \in DOMAIN store : Latest(store[j], no[Loc])
  /\ \A j, k \in DOMAIN store : store[k].id = store[j].id => k = j

\* A step that touches neither the store nor the requests keeps the store's.
LEMMA StoreCalm ==
  ASSUME StoreInv, UNCHANGED <<todo, store>>, no'[Loc] = no[Loc],
         lp' \notin {"apply", "asked"} => lp \notin {"apply", "asked"}
  PROVE  StoreInv'
BY Zenon DEF StoreInv, Latest, Asked

\* An empty store has nothing to say.
LEMMA StoreEmpty == ASSUME store' = <<>> PROVE StoreInv'
<1>1. store' \in Seq(Asked')
  OBVIOUS
<1>2. DOMAIN store' = {}
  OBVIOUS
<1> QED
  BY <1>1, <1>2 DEF StoreInv

\* room_store_put overwrites the room with the same id, if there is one.
LEMMA StorePut ==
  ASSUME LocInv, StoreInv, lp = "apply", i <= Len(todo), UNCHANGED todo, no'[Loc] = i,
         lp' = "asked", store' = room_store_put(store, todo[i].room)
  PROVE  StoreInv'
<1> DEFINE r == todo[i].room
<1>1. i \in 1 .. Len(todo) /\ no[Loc] = i - 1 /\ r \in Asked /\ Asked' = Asked
  BY DEF LocInv, Asked
<1>2. Len(store) \in Nat /\ DOMAIN store = 1 .. Len(store)
  BY DEF StoreInv
<1>3. Latest(r, i)
  BY <1>1 DEF Latest
<1> HIDE DEF r
<1>4. ASSUME NEW x, Latest(x, i - 1), x.id # r.id PROVE Latest(x, i)
  <2>1. PICK k \in 1 .. i - 1 : todo[k].room = x /\ \A l \in 1 .. i - 1 : todo[l].room.id = x.id => l <= k
    BY <1>4 DEF Latest
  <2>2. \A l \in 1 .. i : todo[l].room.id = x.id => l <= k
    BY <1>1, <1>4, <2>1 DEF r
  <2>3. k \in 1 .. i
    BY <1>1
  <2> QED
    BY <2>1, <2>2, <2>3 DEF Latest
<1>5. CASE \E k \in DOMAIN store : store[k].id = r.id
  <2>1. store' = [k \in DOMAIN store |-> IF store[k].id = r.id THEN r ELSE store[k]]
    BY <1>5 DEF room_store_put, r
  <2>2. \A k \in DOMAIN store : store[k] \in Asked
    BY DEF StoreInv
  <2>3. store' \in Seq(Asked)
    BY <1>1, <1>2, <2>1, <2>2
  <2>4. DOMAIN store' = DOMAIN store /\ \A k \in DOMAIN store : store'[k].id = store[k].id
    BY <2>1
  <2>5. \A j \in DOMAIN store : Latest(store'[j], i)
    BY <1>1, <1>3, <1>4, <2>1, Zenon DEF StoreInv
  <2>6. \A j \in DOMAIN store' : Latest(store[j], no[Loc])'
    BY <2>4, <2>5, Zenon DEF Latest
  <2> QED
    BY <1>1, <2>3, <2>4, <2>6 DEF StoreInv
<1>6. CASE ~\E k \in DOMAIN store : store[k].id = r.id
  <2>1. store' = <<r>> \o store
    BY <1>6 DEF room_store_put, r
  <2>2. store' \in Seq(Asked)
    BY <1>1, <2>1 DEF StoreInv
  <2>3. /\ DOMAIN store' = 1 .. Len(store) + 1 /\ store'[1] = r
        /\ \A j \in 2 .. Len(store) + 1 : store'[j] = store[j - 1]
    BY <1>1, <1>2, <2>1 DEF StoreInv
  <2>4. \A j \in 2 .. Len(store) + 1 : store'[j].id # r.id /\ Latest(store'[j], i)
    BY <1>1, <1>2, <1>4, <1>6, <2>3 DEF StoreInv
  <2>5. \A j \in DOMAIN store' : Latest(store[j], no[Loc])'
    <3>1. \A j \in 1 .. Len(store) + 1 : Latest(store'[j], i)
      BY <1>2, <1>3, <2>3, <2>4
    <3> QED
      BY <2>3, <3>1, Zenon DEF Latest
  <2>6. \A j, k \in DOMAIN store' : store'[k].id = store'[j].id => k = j
    <3>1. \A j, k \in 2 .. Len(store) + 1 : store'[k].id = store'[j].id => k = j
      <4> SUFFICES ASSUME NEW j \in 2 .. Len(store) + 1, NEW k \in 2 .. Len(store) + 1,
                          store'[k].id = store'[j].id
                   PROVE  k = j
        BY Zenon
      <4>1. \A x, y \in 1 .. Len(store) : store[y].id = store[x].id => y = x
        BY <1>2 DEF StoreInv
      <4>2. j - 1 \in 1 .. Len(store) /\ k - 1 \in 1 .. Len(store)
        BY <1>2
      <4>3. store[k - 1].id = store[j - 1].id
        BY <2>3, Zenon
      <4>4. k - 1 = j - 1
        BY <4>1, <4>2, <4>3, Zenon
      <4> QED BY <1>2, <4>4
    <3> QED
      BY <1>2, <2>3, <2>4, <3>1
  <2> QED
    BY <1>1, <2>2, <2>5, <2>6, Zenon DEF StoreInv
<1> QED
  BY <1>5, <1>6

\* The store holds one room per id, the last one asked for.
LEMMA StoreStep ==
  ASSUME SessionType, SessionInv, LocInv, StoreInv, [SysNext]_sysvars
  PROVE  StoreInv'
<1>0. Cli # Loc /\ Loc \in Procs /\ no[Loc] \in Nat
  BY ClientsAssumption, LocAssumption DEF SessionType
<1>1. ASSUME LocApply \/ LocOne \/ LocShow PROVE StoreInv'
  <2>1. store' = store /\ lp = "start"
    BY <1>1 DEF LocApply, LocOne, LocShow, gvars
  <2> QED
    BY <2>1, StoreEmpty, Zenon DEF StoreInv
<1>2. ASSUME LocAsk PROVE StoreInv'
  <2>1. /\ lp = "apply" /\ i <= Len(todo) /\ UNCHANGED todo /\ lp' = "asked"
        /\ store' = room_store_put(store, todo[i].room) /\ no'[Loc] = no[Loc] + 1
    BY <1>0, <1>2, Zenon DEF LocAsk, Ask, SessionType
  <2>2. no'[Loc] = i
    BY <2>1 DEF LocInv
  <2> QED
    BY <2>1, <2>2, StorePut, Zenon
<1>3. ASSUME LocAnswered PROVE StoreInv'
  BY <1>3, StoreCalm DEF LocAnswered, Return
<1>4. ASSUME LocFailed \/ LocDone PROVE StoreInv'
  BY <1>4, StoreEmpty, Zenon DEF LocFailed, LocDone
<1>5. ASSUME LocStatus \/ LocRoot \/ LocRead PROVE StoreInv'
  BY <1>5, StoreCalm, Zenon DEF LocStatus, LocRoot, LocRead, gvars, svars
<1>6. ASSUME LocCalm, UNCHANGED store PROVE StoreInv'
  BY <1>6, StoreCalm DEF LocCalm
<1>7. CASE Server
  <2>1. UNCHANGED <<locvars, no>>
    BY <1>7 DEF Server, ServeCli, ServeLoc, Lost, Answer, Lose
  <2> QED
    BY <2>1, StoreCalm DEF locvars, gvars
<1>8. CASE RunCommand \/ CliStep \/ Drivers \/ UNCHANGED sysvars
  <2>1. UNCHANGED store
    BY <1>8, Zenon DEF RunCommand, CliStep, EndCommand, Drivers, ProcChange, sysvars, locvars, gvars
  <2> QED
    BY <1>6, <1>8, <2>1, OthersCalm
<1>9. CASE RunLocgend
  BY <1>1, <1>9 DEF RunLocgend
<1>10. CASE LocStep
  <2>1. CASE Session(Loc) /\ UNCHANGED <<vars, cvars, locvars, hvars>>
    <3>1. UNCHANGED <<store, locvars, done>>
      BY <2>1 DEF locvars, gvars, hvars
    <3> QED
      BY <1>6, <2>1, <3>1, OthersCalm, Zenon
  <2>2. CASE Locgend
    BY <1>2, <1>3, <1>4, <1>5, <2>2, Zenon DEF Locgend
  <2> QED
    BY <1>10, <2>1, <2>2 DEF LocStep
<1> QED
  BY <1>7, <1>8, <1>9, <1>10 DEF SysNext

\* The exit codes of apply_from_xml and the store say what was asked for.
LEMMA OrderHolds ==
  ASSUME SessionType, SessionInv, LocInv, StoreInv PROVE ApplyInOrder
<1>1. Loc \in Procs /\ no[Loc] \in Nat /\ no[Loc] <= i /\ i \in Nat
  BY LocAssumption DEF SessionType, LocInv
<1>2. lp = "exit" /\ lexit = 0 /\ todo # <<>> => 1 .. Len(todo) \subseteq done
  BY <1>1 DEF LocInv
<1>3. lp = "exit" /\ lexit = 2 => 1 .. i - 1 \subseteq done
  BY DEF LocInv
<1>4. done \subseteq 1 .. i
  BY <1>1 DEF LocInv
<1>5. \A a \in atServer : a.by = Loc => a.no <= i
  BY <1>1 DEF SessionInv, SessionType
<1>6. ASSUME NEW j \in DOMAIN store
      PROVE  LET same == {k \in 1 .. no[Loc] : todo[k].room.id = store[j].id}
             IN  store[j] = todo[CHOOSE k \in same : \A l \in same : l <= k].room
  <2> DEFINE same == {k \in 1 .. no[Loc] : todo[k].room.id = store[j].id}
             c == CHOOSE k \in same : \A l \in same : l <= k
  <2>1. PICK k \in 1 .. no[Loc] :
           todo[k].room = store[j] /\ \A l \in 1 .. no[Loc] : todo[l].room.id = store[j].id => l <= k
    BY Zenon DEF StoreInv, Latest
  <2>2. k \in same /\ \A l \in same : l <= k
    BY <2>1, Zenon
  <2>3. same \subseteq Nat
    BY <1>1
  <2> HIDE DEF same
  <2>4. c \in same /\ \A l \in same : l <= c
    BY <2>2, Zenon
  <2> HIDE DEF c
  <2>5. c = k
    BY <2>2, <2>3, <2>4
  <2>6. store[j] = todo[c].room
    BY <2>1, <2>5
  <2> QED
    BY <2>6, Zenon DEF same, c
<1>7. \A j, k \in DOMAIN store : store[k].id = store[j].id => k = j
  BY DEF StoreInv
<1> QED
  BY <1>2, <1>3, <1>4, <1>5, <1>6, <1>7, Zenon DEF ApplyInOrder

-----------------------------------------------------------------------------
(* mem_show_snapshot.                                                       *)

\* Nothing under the roots passed over, nor in the places passed over.
ShowInv ==
  /\ lp \in {"start", "apply", "asked", "libpm"} => probe = 0
  /\ lp = "root" => probe \in 1 .. 4
  /\ lp = "read" => probe \in 1 .. 5 /\ root \in {"pm", "env", "pm_drv"}
  /\ proc \in Layouts
  /\ steady /\ lp = "root" => \A k \in 1 .. probe - 1 : Directory \notin proc[Roots[k]]
  /\ steady /\ lp = "read" =>
       /\ \A k \in 1 .. probe - 1 : k \notin proc[root]
       /\ proc[root] \subseteq {Directory} => Hidden
  /\ ShowFindsDriver

\* The roots, and what is under them.
LEMMA RootFacts ==
  /\ Len(Roots) = 3 /\ Roots[1] = "pm" /\ Roots[2] = "env" /\ Roots[3] = "pm_drv"
  /\ \A p \in Layouts : \A r \in {"pm", "env", "pm_drv"} :
       p[r] \subseteq 0 .. 4 /\ (Directory \notin p[r] => p[r] = {})
<1>1. Len(Roots) = 3 /\ Roots[1] = "pm" /\ Roots[2] = "env" /\ Roots[3] = "pm_drv"
  BY DEF Roots
<1>2. ASSUME NEW p \in Layouts, NEW r \in {"pm", "env", "pm_drv"}
      PROVE  p[r] \subseteq 0 .. 4 /\ (Directory \notin p[r] => p[r] = {})
  <2>1. CASE r = "pm"
    BY <2>1 DEF Layouts, Directory, TypedData, TypedStatus
  <2>2. CASE r = "env"
    BY <2>2 DEF Layouts, Directory, TypedStatus, FlatStatus
  <2>3. CASE r = "pm_drv"
    BY <2>3 DEF Layouts, Directory, FlatData, FlatStatus
  <2> QED
    BY <2>1, <2>2, <2>3
<1> QED
  BY <1>1, <1>2

\* The search passes over nothing that is not hidden.
LEMMA ShowStep == ASSUME ShowInv, [SysNext]_sysvars PROVE ShowInv'
<1>1. ASSUME UNCHANGED mvars,
             \/ lp' = lp /\ UNCHANGED lexit
             \/ /\ lp \in {"start", "apply", "asked", "libpm"}
                /\ lp' \in {"apply", "asked", "exit"}
      PROVE  ShowInv'
  <2>1. UNCHANGED <<root, probe, proc, steady>> /\ (Hidden' <=> Hidden)
    BY <1>1 DEF mvars, Hidden
  <2> QED
    BY <1>1, <2>1 DEF ShowInv, ShowFindsDriver
<1>2. ASSUME LocShow PROVE ShowInv'
  BY <1>2 DEF LocShow, ShowInv, ShowFindsDriver
<1>3. ASSUME LocStatus PROVE ShowInv'
  <2>1. lp = "libpm" /\ UNCHANGED <<root, proc, steady>>
    BY <1>3, Zenon DEF LocStatus
  <2>2. CASE lp' = "exit" /\ lexit' = 0 /\ UNCHANGED probe
    BY <2>1, <2>2 DEF ShowInv, ShowFindsDriver
  <2>3. CASE lp' = "root" /\ probe' = 1 /\ UNCHANGED <<lexit, shown>>
    BY <2>1, <2>3 DEF ShowInv, ShowFindsDriver
  <2> QED
    BY <1>3, <2>2, <2>3, Zenon DEF LocStatus, Shown
<1>4. ASSUME LocRoot PROVE ShowInv'
  <2>1. lp = "root" /\ UNCHANGED <<lexit, proc, steady>> /\ probe \in 1 .. 4
    BY <1>4, Zenon DEF LocRoot, ShowInv
  <2>0. /\ DOMAIN Roots = 1 .. 3 /\ \A k \in 1 .. 3 : Roots[k] \in {"pm", "env", "pm_drv"}
        /\ \A k \in 1 .. 3 : Directory \notin proc[Roots[k]] => proc[Roots[k]] = {}
    <3>1. \A k \in 1 .. 3 : Roots[k] \in {"pm", "env", "pm_drv"}
      BY RootFacts
    <3>2. DOMAIN Roots = 1 .. 3
      BY DEF Roots
    <3> QED
      BY <3>1, <3>2, RootFacts, Zenon DEF ShowInv
  <2>2. CASE probe > 3 /\ root' = "pm" /\ probe' = 1 /\ lp' = "read"
    <3>1. steady => \A k \in 1 .. 3 : proc[Roots[k]] = {}
      BY <2>0, <2>1, <2>2 DEF ShowInv
    <3>2. steady => Hidden'
      BY <2>0, <2>1, <3>1 DEF Hidden
    <3> QED
      BY <2>1, <2>2, <3>2 DEF ShowInv, ShowFindsDriver
  <2>3. CASE /\ probe <= 3 /\ Directory \in proc[Roots[probe]]
             /\ root' = Roots[probe] /\ probe' = 1 /\ lp' = "read"
    <3>1. root' \in {"pm", "env", "pm_drv"}
      BY <2>0, <2>1, <2>3
    <3>2. steady => \A k \in 1 .. probe - 1 : proc[Roots[k]] = {}
      BY <2>0, <2>1, <2>3 DEF ShowInv
    <3>3. ASSUME steady, proc[Roots[probe]] \subseteq {Directory} PROVE Hidden
      <4>1. proc[Roots[probe]] = {Directory}
        BY <2>3, <3>3
      <4> QED
        BY <2>0, <2>1, <2>3, <3>2, <3>3, <4>1 DEF Hidden
    <3>4. steady' /\ proc'[root'] \subseteq {Directory} => Hidden'
      BY <2>1, <2>3, <3>3 DEF Hidden
    <3> QED
      BY <2>1, <2>3, <3>1, <3>4 DEF ShowInv, ShowFindsDriver
  <2>4. CASE /\ probe <= 3 /\ Directory \notin proc[Roots[probe]]
             /\ probe' = probe + 1 /\ UNCHANGED <<root, lp>>
    BY <2>1, <2>4 DEF ShowInv, ShowFindsDriver
  <2> QED
    BY <1>4, <2>1, <2>2, <2>3, <2>4, RootFacts DEF LocRoot
<1>5. ASSUME LocRead PROVE ShowInv'
  <2>1. lp = "read" /\ UNCHANGED <<root, proc, steady>> /\ probe \in 1 .. 5
    BY <1>5, Zenon DEF LocRead, ShowInv
  <2>2. CASE probe > 4 /\ lp' = "exit" /\ lexit' = 2 /\ UNCHANGED <<probe, shown>>
    <3>1. proc[root] \subseteq 0 .. 4
      BY <2>1, RootFacts, Zenon DEF ShowInv
    <3>2. steady => proc[root] \subseteq {Directory}
      BY <2>1, <2>2, <3>1 DEF ShowInv, Directory
    <3>3. steady => Hidden'
      BY <2>1, <3>2, Zenon DEF ShowInv, Hidden
    <3> QED
      BY <2>1, <2>2, <3>3, Zenon DEF ShowInv, ShowFindsDriver, Hidden
  <2>3. CASE lp' = "exit" /\ lexit' = 0
    BY <2>1, <2>3 DEF ShowInv, ShowFindsDriver
  <2>4. CASE probe <= 4 /\ probe \notin proc[root] /\ probe' = probe + 1 /\ UNCHANGED <<lp, lexit, shown>>
    <3>1. Hidden' <=> Hidden
      BY <2>1 DEF Hidden
    <3> QED
      BY <2>1, <2>4, <3>1 DEF ShowInv, ShowFindsDriver
  <2> QED
    BY <1>5, <2>1, <2>2, <2>3, <2>4 DEF LocRead, LastPlace, FlatStatus, Shown
<1>6. ASSUME ProcChange PROVE ShowInv'
  BY <1>6, Zenon DEF ProcChange, ShowInv, ShowFindsDriver
<1>7. ASSUME LocApply \/ LocOne \/ LocAsk \/ LocAnswered \/ LocFailed \/ LocDone PROVE ShowInv'
  BY <1>1, <1>7 DEF LocApply, LocOne, LocAsk, LocAnswered, LocFailed, LocDone
<1>8. ASSUME UNCHANGED locvars PROVE ShowInv'
  BY <1>1, <1>8 DEF locvars
<1>9. CASE Server
  BY <1>8, <1>9 DEF Server, ServeCli, ServeLoc, Lost
<1>10. CASE RunCommand \/ CliStep \/ UNCHANGED sysvars
  BY <1>8, <1>10, Zenon DEF RunCommand, CliStep, EndCommand, sysvars
<1>11. CASE RunLocgend
  BY <1>2, <1>7, <1>11, Zenon DEF RunLocgend
<1>12. CASE LocStep
  BY <1>3, <1>4, <1>5, <1>7, <1>8, <1>12, Zenon DEF LocStep, Locgend
<1> QED
  BY <1>6, <1>9, <1>10, <1>11, <1>12, Zenon DEF SysNext, Drivers

-----------------------------------------------------------------------------
(* One run of locgend.                                                      *)

RunInv == LocInv /\ StoreInv /\ ShowInv

\* It begins with nothing to do, and with nothing found.
LEMMA RunStart == SysInit => RunInv
<1> SUFFICES ASSUME SysInit PROVE RunInv
  OBVIOUS
<1>0. Loc \in Procs
  BY LocAssumption
<1>2. /\ atServer = {} /\ st = [u \in Procs |-> "idle"] /\ no = [u \in Procs |-> 0]
      /\ inbox = [u \in Procs |-> Nothing]
  BY Zenon DEF SysInit, SessionInit
<1>6. /\ lp = "start" /\ i = 1 /\ todo = <<>> /\ store = <<>> /\ probe = 0 /\ done = {}
      /\ proc = [pm |-> {}, env |-> {}, pm_drv |-> {}]
  BY Zenon DEF SysInit, LocInit
<1>7. LocInv
  <2>1. Len(todo) \in Nat
    BY <1>6
  <2>2. done \subseteq 1 .. no[Loc] /\ 1 .. i - 1 \subseteq done
    BY <1>0, <1>2, <1>6
  <2>3. todo = <<>>
    BY <1>6
  <2> QED
    BY <1>0, <1>2, <1>6, <2>1, <2>2, <2>3 DEF LocInv
<1>8. StoreInv
  <2>1. store \in Seq(Asked)
    BY <1>6
  <2>2. DOMAIN store = {} /\ store = <<>>
    BY <1>6
  <2> QED
    BY <2>1, <2>2 DEF StoreInv
<1>9. ShowInv
  <2>1. proc \in Layouts
    BY <1>6 DEF Layouts
  <2> QED
    BY <1>6, <2>1, Zenon DEF ShowInv, ShowFindsDriver
<1> QED
  BY <1>7, <1>8, <1>9 DEF RunInv

\* Every step of the system keeps it.
LEMMA RunAlways == SysSpec => []RunInv
<1>1. SysInv /\ RunInv /\ [SysNext]_sysvars => RunInv'
  BY LocInvStep, StoreStep, ShowStep DEF SysInv, RunInv
<1> QED
  BY <1>1, RunStart, SysAlways, PTL DEF SysSpec

(* loc_main.c, apply_from_xml: the exit code says which rooms were carried  *)
(* out, and room_store.c keeps the last room of each id.                    *)
THEOREM FileInOrder == SysSpec => []ApplyInOrder
<1>1. SysInv /\ RunInv => ApplyInOrder
  BY OrderHolds DEF SysInv, RunInv
<1> QED
  BY <1>1, SysAlways, RunAlways, PTL

(* room_mem_reader.c, mem_show_snapshot: the chain of fallbacks finds a     *)
(* driver that is there during the whole call, unless an earlier root       *)
(* exists as a directory without a file, which hides the later ones.        *)
THEOREM DriverFound == SysSpec => []ShowFindsDriver
<1>1. RunInv => ShowFindsDriver
  BY DEF RunInv, ShowInv
<1> QED
  BY <1>1, RunAlways, PTL

=============================================================================
