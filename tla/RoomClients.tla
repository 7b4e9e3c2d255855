---------------------------- MODULE RoomClients ----------------------------
(***************************************************************************)
(* The room registry and the programs that ask for rooms: a user of the    *)
(* command line client, or locgend.  Between them requests are late, lost, *)
(* or overtaken by a retry.  The two programs share no state (locgend's    *)
(* requests are answered by the legacy handler, which leaves the registry  *)
(* alone), so a behaviour has a user of one of them.                       *)
(***************************************************************************)
EXTENDS RoomRegistry, SystemMonitor, LocGen

\* Two programs; the rooms on the command lines have names the registry can hold.
ASSUME ClientsAssumption ==
  /\ Cli # Loc
  /\ \A argv \in Argvs : Wellformed(argv) => argv[3] \in Names

VARIABLES
  user,      \* the program this behaviour runs
  ordered,   \* no request overtook an earlier one about the same room
  before,    \* as the command began: its room was there, or might come late
  told,      \* each room: what the last answer about it said
  done       \* the requests of locgend that handle_legacy has processed

hvars == <<user, ordered, before, told, done>>
sysvars == <<vars, svars, cvars, locvars, hvars>>

SysInit ==
  /\ Init /\ SessionInit /\ CliInit /\ LocInit
  /\ user \in {Cli, Loc}
  /\ ordered = TRUE
  /\ before = FALSE
  /\ told = [r \in Names |-> "nothing"]
  /\ done = {}

-----------------------------------------------------------------------------
(* The server.                                                              *)

\* Faulty: every failure of room_create is "Already exists".
CodeOf_Exists(r) ==
  CASE r = "ok" -> "0"
    [] r = "notfound" -> "1002"
    [] r \in {"exists", "full"} -> "1003"

CodeOf(r) ==
  CASE r = "ok" -> "0"
    [] r = "notfound" -> "1002"
    [] r = "exists" -> "1003"
    [] r = "full" -> "1100"

\* An earlier request about the same room is still on its way.
Overtakes(a) ==
  \E b \in atServer :
    /\ b.by = a.by /\ b.req.name = a.req.name
    /\ b.no < a.no \/ (b.no = a.no /\ b.try < a.try)

\* handle_cli, for the requests the client can build.
ServeCli(a) ==
  LET p == a.req
  IN  /\ a \in atServer /\ a.by = Cli
      /\ IF p.target # "room" THEN UNCHANGED vars
         ELSE CASE p.cmd = "create" -> Create(p.name)
                [] p.cmd = "delete" -> Delete(p.name)
                [] OTHER -> Exists(p.name)
      /\ Answer(a, IF p.target # "room" THEN "1001" ELSE CodeOf(rc'))
      /\ ordered' = (ordered /\ ~Overtakes(a))
      /\ UNCHANGED <<cvars, locvars, user, before, told, done>>

\* handle_legacy: no "op", so the result is OK; no room is made or deleted.
ServeLoc(a) ==
  /\ a \in atServer /\ a.by = Loc
  /\ Answer(a, "OK")
  /\ done' = done \cup {a.no}
  /\ UNCHANGED <<vars, cvars, locvars, user, ordered, before, told>>

Lost(a) == Lose(a) /\ UNCHANGED <<vars, cvars, locvars, hvars>>

Server == \E a \in atServer : ServeCli(a) \/ ServeLoc(a) \/ Lost(a)

-----------------------------------------------------------------------------
(* The programs.                                                            *)

\* What an answer says about its room, in the state it was given.
Told(cmd, ans) ==
  CASE cmd = "delete" /\ ans \in {"0", "1002"} -> "absent"
    [] cmd # "delete" /\ ans = "1002" -> "absent"
    [] cmd # "delete" /\ ans \in {"0", "1003"} -> "present"
    [] OTHER -> "nothing"

RunCommand ==
  /\ user = Cli
  /\ \E argv \in Argvs :
       \/ CliLocal(argv) /\ UNCHANGED <<before, told>>
       \/ /\ CliSend(argv)
          /\ before' = \/ room_exists(rooms, argv[3])
                       \/ \E a \in atServer : a.req.name = argv[3]
          /\ told' = [told EXCEPT ![argv[3]] = "nothing"]
  /\ UNCHANGED <<vars, locvars, user, ordered, done>>

EndCommand ==
  /\ \/ CliPrint /\ told' = [told EXCEPT ![req[Cli].name] = Told(req[Cli].cmd, inbox[Cli])]
     \/ CliError /\ UNCHANGED told
  /\ before' = FALSE
  /\ UNCHANGED <<vars, locvars, user, ordered, done>>

CliStep ==
  \/ EndCommand
  \/ Session(Cli) /\ UNCHANGED <<vars, cvars, locvars, hvars>>

RunLocgend ==
  /\ user = Loc
  /\ LocApply \/ LocOne \/ LocShow
  /\ UNCHANGED <<vars, cvars, hvars>>

LocStep ==
  \/ Locgend /\ UNCHANGED <<vars, cvars, hvars>>
  \/ Session(Loc) /\ UNCHANGED <<vars, cvars, locvars, hvars>>

Drivers == ProcChange /\ UNCHANGED <<vars, cvars, hvars>>

SysNext ==
  \/ RunCommand \/ CliStep
  \/ RunLocgend \/ LocStep \/ Drivers
  \/ Server

\* A started client runs on: its waits end with an answer or with SO_RCVTIMEO.
SysSpec ==
  /\ SysInit /\ [][SysNext]_sysvars
  /\ WF_sysvars(CliStep) /\ WF_sysvars(LocStep)

-----------------------------------------------------------------------------
(* What the last answer about a room said of it stays true until the next  *)
(* command about it, though requests are repeated, late or lost; unless a   *)
(* request overtook an earlier one about the room (system_monitor.c,        *)
(* send_req: an attempt given up is not taken back).                        *)
AnswersStayTrue ==
  ordered => \A r \in Names :
    /\ told[r] = "present" => room_exists(rooms, r)
    /\ told[r] = "absent" => ~room_exists(rooms, r)

(* handle_cli answers "Already exists" to a create of a room that was not   *)
(* there only if it repeats an attempt that made the room.                  *)
ExistsExplained ==
  (st[Cli] = "ok" /\ inbox[Cli] = "1003" /\ ordered /\ ~before) => try[Cli] >= 2

(* loc_main.c, apply_from_xml: exit code 0 means handle_legacy has answered *)
(* the request for every room of the file, 2 that it has for those before   *)
(* the failing one and none after it was sent; the store holds one room per *)
(* id, the last one seen.                                                   *)
ApplyInOrder ==
  /\ lp = "exit" /\ lexit = 0 /\ todo # <<>> => 1 .. Len(todo) \subseteq done
  /\ lp = "exit" /\ lexit = 2 => 1 .. i - 1 \subseteq done
  /\ done \subseteq 1 .. i /\ \A a \in atServer : a.by = Loc => a.no <= i
  /\ \A j \in DOMAIN store :
       LET same == {k \in 1 .. no[Loc] : todo[k].room.id = store[j].id}
       IN  /\ store[j] = todo[CHOOSE k \in same : \A l \in same : l <= k].room
           /\ \A k \in DOMAIN store : store[k].id = store[j].id => k = j

\* No root has a file, but for those behind one that is a directory without any.
Hidden ==
  \A k \in DOMAIN Roots :
    proc[Roots[k]] \subseteq {Directory} \/ \E j \in 1 .. k - 1 : proc[Roots[j]] = {Directory}

(* room_mem_reader.c, mem_show_snapshot: if nothing comes or goes under     *)
(* /proc during the call, show fails only when every driver that is there   *)
(* is hidden: get_proc_root settles for the first root whose directory      *)
(* exists, and looks no further when there is no file for the type in it.   *)
ShowFindsDriver ==
  (lp = "exit" /\ lexit = 2 /\ probe > 0 /\ steady) => Hidden

(* system_monitor.c and loc_main.c: every command ends, whatever the server *)
(* does or fails to do.                                                     *)
ClientsEnd ==
  /\ cp = "run" ~> cp = "shell"
  /\ lp # "start" ~> lp = "exit"

=============================================================================
