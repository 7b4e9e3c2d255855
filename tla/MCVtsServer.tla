---------------------------- MODULE MCVtsServer ----------------------------
(***************************************************************************)
(* Instances of VtsServer for TLC: the requests each run's clients send.   *)
(***************************************************************************)
EXTENDS VtsServer, TLC

\* A request of each kind.
MCBoth ==
  [create |-> CliPayload("create", "room", "r1"), apply |-> ApplyPayload("r1", "cpu", "started")]

\* For handle_legacy: loc_gen's request, whose req_id is read as "room", one
\* that fails, and one with an empty id.
MCLegacy ==
  [apply |-> ApplyPayload("r1", "cpu", "started"), fail |-> LegacyPayload("t1", "FAIL"),
   noid |-> LegacyPayload("", "PING")]

\* One request, as a client that retries it sends it.
MCRetry == [show |-> RoomPayload("room.show", "r1")]

MCSymmetry == Permutations(Workers) \cup Permutations(Clients)

=============================================================================
