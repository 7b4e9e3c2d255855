----------------------------- MODULE RoomTable -----------------------------
(***************************************************************************)
(* The in-memory room registry of req_handler.c: the names g_rooms[0 ..    *)
(* g_room_count - 1], as a sequence.  Each function runs under rooms_lock  *)
(* from its first line to its return.                                      *)
(***************************************************************************)
EXTENDS Naturals, Sequences

CONSTANT MAX_ROOMS
ASSUME MaxRoomsAssumption == MAX_ROOMS \in Nat

room_exists(rooms, name) == \E i \in DOMAIN rooms : rooms[i] = name

\* The registry after the call, and the return code.
room_create(rooms, name) ==
  IF room_exists(rooms, name) THEN [rooms |-> rooms, rc |-> "exists"]
  ELSE IF Len(rooms) >= MAX_ROOMS THEN [rooms |-> rooms, rc |-> "full"]
  ELSE [rooms |-> Append(rooms, name), rc |-> "ok"]

\* Faulty: a room that is not there is deleted, too.
room_delete_Silent(rooms, name) ==
  IF ~room_exists(rooms, name) THEN [rooms |-> rooms, rc |-> "ok"]
  ELSE LET i == CHOOSE k \in DOMAIN rooms :
                  rooms[k] = name /\ \A j \in 1 .. k - 1 : rooms[j] # name
           last == Len(rooms)
       IN  [rooms |-> [k \in 1 .. last - 1 |-> IF k = i THEN rooms[last] ELSE rooms[k]],
            rc    |-> "ok"]

\* The first match is overwritten by the last entry, and the count drops.
room_delete(rooms, name) ==
  IF ~room_exists(rooms, name) THEN [rooms |-> rooms, rc |-> "notfound"]
  ELSE LET i == CHOOSE k \in DOMAIN rooms :
                  rooms[k] = name /\ \A j \in 1 .. k - 1 : rooms[j] # name
           last == Len(rooms)
       IN  [rooms |-> [k \in 1 .. last - 1 |-> IF k = i THEN rooms[last] ELSE rooms[k]],
            rc    |-> "ok"]

=============================================================================
