---------------------------- MODULE RoomRegistry ----------------------------
(***************************************************************************)
(* The registry of RoomTable as the workers of req_handler.c call it, one  *)
(* call at a time under rooms_lock, and the set of rooms it implements.    *)
(***************************************************************************)
EXTENDS RoomTable, FiniteSets

CONSTANT Names  \* room names; main's NUL-terminated strings below 64 bytes

VARIABLES rooms, call, rc  \* the registry; the last call and its return code

vars == <<rooms, call, rc>>

Init == rooms = <<>> /\ call = <<>> /\ rc = "ok"

Create(name) ==
  LET r == room_create(rooms, name)
  IN  call' = <<"create", name>> /\ rooms' = r.rooms /\ rc' = r.rc

Delete(name) ==
  LET r == room_delete(rooms, name)
  IN  call' = <<"delete", name>> /\ rooms' = r.rooms /\ rc' = r.rc

Exists(name) ==
  /\ call' = <<"exists", name>>
  /\ rc' = IF room_exists(rooms, name) THEN "ok" ELSE "notfound"
  /\ UNCHANGED rooms

Next == \E name \in Names : Create(name) \/ Delete(name) \/ Exists(name)

Spec == Init /\ [][Next]_vars

-----------------------------------------------------------------------------
TypeOK ==
  /\ rooms \in Seq(Names)
  /\ rc \in {"ok", "exists", "full", "notfound"}

(* The array never lists a room twice and never outgrows MAX_ROOMS, though  *)
(* room_delete fills the hole with the last entry.                          *)
Distinct ==
  /\ Len(rooms) <= MAX_ROOMS
  /\ \A i, j \in DOMAIN rooms : rooms[i] = rooms[j] => i = j

Known == {rooms[i] : i \in DOMAIN rooms}

Abs == INSTANCE RoomSet WITH known <- Known

(* The array behaves as a bounded set: a deleted room is gone, the others   *)
(* stay, and every return code tells the truth.                             *)
ImplementsSet == Abs!Spec

=============================================================================
