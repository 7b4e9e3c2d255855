------------------------------- MODULE LocGen -------------------------------
(***************************************************************************)
(* One run of locgend (loc_main.c): applying the rooms of an XML file to   *)
(* VTS one after the other, a single room request, or a snapshot read from *)
(* procfs by the chain of fallbacks of room_mem_reader.c.                  *)
(***************************************************************************)
EXTENDS VtsSession, Sequences

CONSTANTS
  Loc,       \* the process
  Documents  \* XML files it may be given: sequences of tags that begin with "<room"

ASSUME LocAssumption ==
  /\ Loc \in Procs
  /\ Documents \subseteq Seq([id : STRING, type : STRING, state : STRING, closed : BOOLEAN])

VARIABLES
  lp, lexit,     \* control point of main, and its exit code once lp = "exit"
  todo, i,       \* the requests to make, and the next one
  store,         \* room_store.c: the list from g_head on
  root, probe,   \* mem_show_snapshot: the root chosen, the next place to look
  proc, steady,  \* what is readable at each root; unchanged during the call
  shown          \* the place whose contents were shown

gvars == <<todo, i, store>>
mvars == <<root, probe, proc, steady, shown>>
locvars == <<lp, lexit, gvars, mvars>>

-----------------------------------------------------------------------------
(* xml_loader.c and room_store.c.                                           *)

room_state_from_str(s) == IF s = "started" THEN "started" ELSE "stopped"

\* An element without id or type is skipped, as is "<rooms>".
IsRoom(t) == t.id # "" /\ t.type # ""

RoomOf(t) == [id |-> t.id, type |-> t.type, state |-> room_state_from_str(t.state)]

\* A tag that is not closed ends the scan; list[k] is the list after k tags.
loc_load_rooms_xml(tags) ==
  LET open == {k \in DOMAIN tags : ~tags[k].closed}
      scanned == {k \in DOMAIN tags : \A o \in open : k < o}
      list[k \in 0 .. Cardinality(scanned)] ==
        IF k = 0 THEN <<>>
        ELSE IF IsRoom(tags[k]) THEN Append(list[k - 1], RoomOf(tags[k])) ELSE list[k - 1]
  IN  list[Cardinality(scanned)]

\* The node with the same id is overwritten, or a new one becomes the head.
room_store_put(list, r) ==
  IF \E k \in DOMAIN list : list[k].id = r.id
  THEN [k \in DOMAIN list |-> IF list[k].id = r.id THEN r ELSE list[k]]
  ELSE <<r>> \o list

-----------------------------------------------------------------------------
(* main and apply_from_xml.                                                 *)

\* vts_apply_room, vts_delete_room, vts_show_room: what they send.
ApplyRequest(r) == [op |-> "room.apply", room |-> r]
IdRequest(op, id) == [op |-> op, room |-> [id |-> id]]

\* locgend --config file --apply, up to the loop; a file that is missing or
\* empty, and wrong arguments, are exit code 1.
LocApply ==
  /\ lp = "start"
  /\ \/ \E tags \in Documents :
          LET list == loc_load_rooms_xml(tags)
          IN  /\ todo' = [k \in DOMAIN list |-> ApplyRequest(list[k])]
              /\ lp' = "apply"
              /\ UNCHANGED lexit
     \/ lp' = "exit" /\ lexit' = 1 /\ UNCHANGED todo
  /\ UNCHANGED <<i, store, mvars, svars>>

\* locgend create, edit, delete and show: one request, and no store.
LocOne ==
  /\ lp = "start"
  /\ \E r \in {ApplyRequest([id |-> "a", type |-> "cpu", state |-> room_state_from_str("on")]),
             IdRequest("room.delete", "a"), IdRequest("room.show", "a")} :
       Ask(Loc, r) /\ todo' = <<r>>
  /\ lp' = "asked"
  /\ UNCHANGED <<lexit, i, store, mvars>>

\* One turn of the loop: into the store, then to the server.
LocAsk ==
  /\ lp = "apply"
  /\ i <= Len(todo)
  /\ store' = room_store_put(store, todo[i].room)
  /\ Ask(Loc, todo[i])
  /\ lp' = "asked"
  /\ UNCHANGED <<todo, i, lexit, mvars>>

\* Any answer will do.
LocAnswered ==
  /\ lp = "asked"
  /\ st[Loc] = "ok"
  /\ Return(Loc)
  /\ i' = i + 1
  /\ lp' = "apply"
  /\ UNCHANGED <<todo, store, lexit, mvars>>

\* Faulty: the room is skipped.
LocFailed_Skip ==
  /\ lp = "asked"
  /\ st[Loc] = "failed"
  /\ Return(Loc)
  /\ i' = i + 1
  /\ lp' = "apply"
  /\ UNCHANGED <<todo, store, lexit, mvars>>

\* The first failure ends the run.
LocFailed ==
  /\ lp = "asked"
  /\ st[Loc] = "failed"
  /\ Return(Loc)
  /\ lp' = "exit" /\ lexit' = 2 /\ store' = <<>>
  /\ UNCHANGED <<todo, i, mvars>>

LocDone ==
  /\ lp = "apply"
  /\ i > Len(todo)
  /\ lp' = "exit" /\ lexit' = 0 /\ store' = <<>>
  /\ UNCHANGED <<todo, i, mvars, svars>>

-----------------------------------------------------------------------------
(* locgend show --via libpm: mem_show_snapshot.                             *)

Roots == <<"pm", "env", "pm_drv">>  \* /proc/pm, $PM_PROC_ROOT, /proc/pm_drv

\* What access may find readable at a root: the directory itself and, below it,
\* the places where a file is tried, in the order in which they are.
Directory == 0
TypedData == 1
TypedStatus == 2
FlatData == 3
FlatStatus == 4

\* No directory, one without files of this type, or one with a driver's files:
\* per type, or one pair for all.
Layouts ==
  [pm     : {{}, {Directory}, {Directory, TypedData, TypedStatus}, {Directory, TypedData}},
   env    : {{}, {Directory}, {Directory, TypedStatus}, {Directory, FlatStatus}},
   pm_drv : {{}, {Directory, FlatStatus}, {Directory, FlatData, FlatStatus}}]

LocInit ==
  /\ lp = "start" /\ lexit = 0
  /\ todo = <<>> /\ i = 1 /\ store = <<>>
  /\ root = Nothing /\ probe = 0 /\ steady = TRUE /\ shown = 0
  /\ proc = [pm |-> {}, env |-> {}, pm_drv |-> {}]

\* pm_read_status first; it may fail for reasons of its own.
LocShow ==
  /\ lp = "start"
  /\ proc' \in Layouts
  /\ lp' = "libpm"
  /\ UNCHANGED <<lexit, gvars, root, probe, steady, shown, svars>>

Shown(at) == lp' = "exit" /\ lexit' = 0 /\ shown' = at

LocStatus ==
  /\ lp = "libpm"
  /\ \/ TypedStatus \in proc.pm /\ Shown(TypedStatus) /\ UNCHANGED probe
     \/ lp' = "root" /\ probe' = 1 /\ UNCHANGED <<lexit, shown>>
  /\ UNCHANGED <<gvars, root, proc, steady, svars>>

\* get_proc_root: one access per root, of the directory and not of a file in it;
\* without any it is /proc/pm after all.
LocRoot ==
  /\ lp = "root"
  /\ IF probe > Len(Roots) THEN root' = "pm" /\ probe' = 1 /\ lp' = "read"
     ELSE IF Directory \in proc[Roots[probe]] THEN root' = Roots[probe] /\ probe' = 1 /\ lp' = "read"
     ELSE probe' = probe + 1 /\ UNCHANGED <<root, lp>>
  /\ UNCHANGED <<lexit, gvars, proc, steady, shown, svars>>

\* Faulty: the files of the old layout are not tried.
LastPlace_New == TypedStatus

LastPlace == FlatStatus

\* access and try_read_file, place by place.
LocRead ==
  /\ lp = "read"
  /\ IF probe > LastPlace THEN lp' = "exit" /\ lexit' = 2 /\ UNCHANGED <<probe, shown>>
     ELSE IF probe \in proc[root] THEN Shown(probe) /\ UNCHANGED probe
     ELSE probe' = probe + 1 /\ UNCHANGED <<lp, lexit, shown>>
  /\ UNCHANGED <<gvars, root, proc, steady, svars>>

\* A driver is loaded or unloaded meanwhile (once in a call).
ProcChange ==
  /\ lp \in {"libpm", "root", "read"}
  /\ steady
  /\ proc' \in Layouts \ {proc}
  /\ steady' = FALSE
  /\ UNCHANGED <<lp, lexit, gvars, root, probe, shown, svars>>

Locgend ==
  \/ LocAsk \/ LocAnswered \/ LocFailed \/ LocDone
  \/ LocStatus \/ LocRoot \/ LocRead

=============================================================================
