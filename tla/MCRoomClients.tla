--------------------------- MODULE MCRoomClients ---------------------------
(***************************************************************************)
(* An instance of RoomClients for TLC.                                     *)
(***************************************************************************)
EXTENDS RoomClients

MCAttempts == [u \in Procs |-> 2]

Of(cmd, name) == <<cmd, "room", name>>

MCArgvs ==
  {<<>>, <<"help">>, <<"edit", "room", "r1">>, <<"create", "disk", "r1">>,
   <<"edit", "room", "r1", "--set", "k", "v">>}
  \cup {Of("create", r) : r \in Names} \cup {Of("delete", "r1")}

Tag(id, type, state) == [id |-> id, type |-> type, state |-> state, closed |-> TRUE]

\* A root element and three rooms, two of one id; an untyped one; a file cut off.
MCDocuments ==
  {<<Tag("", "", ""), Tag("a", "cpu", "started"), Tag("b", "mem", ""), Tag("a", "cpu", "stopped")>>,
   <<Tag("a", "", "started"), Tag("b", "mem", "started")>>,
   <<Tag("a", "cpu", "started"), [Tag("b", "mem", "") EXCEPT !.closed = FALSE], Tag("c", "mem", "")>>}

=============================================================================
