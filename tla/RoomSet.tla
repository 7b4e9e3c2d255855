------------------------------ MODULE RoomSet ------------------------------
(***************************************************************************)
(* What the room registry promises its callers: a set of at most MAX_ROOMS *)
(* names, and return codes that say what each call found.                  *)
(***************************************************************************)
EXTENDS Naturals, FiniteSets

CONSTANTS Names, MAX_ROOMS

VARIABLES known, call, rc  \* the rooms; the last call and its return code

Init == known = {} /\ call = <<>> /\ rc = "ok"

Create(name) ==
  /\ call' = <<"create", name>>
  /\ IF name \in known THEN rc' = "exists" /\ known' = known
     ELSE IF Cardinality(known) >= MAX_ROOMS THEN rc' = "full" /\ known' = known
     ELSE rc' = "ok" /\ known' = known \cup {name}

Delete(name) ==
  /\ call' = <<"delete", name>>
  /\ rc' = IF name \in known THEN "ok" ELSE "notfound"
  /\ known' = known \ {name}

Exists(name) ==
  /\ call' = <<"exists", name>>
  /\ rc' = IF name \in known THEN "ok" ELSE "notfound"
  /\ known' = known

Next == \E name \in Names : Create(name) \/ Delete(name) \/ Exists(name)

Spec == Init /\ [][Next]_<<known, call, rc>>

=============================================================================
