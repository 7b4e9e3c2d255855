----------------------------- MODULE VtsSession -----------------------------
(***************************************************************************)
(* How a client process gets one request answered: send_req of the CLI and *)
(* vts_cmd_with_retry of loc_gen.  Each attempt is a connection of its own *)
(* with one frame each way; an attempt that fails or is not answered in    *)
(* time is abandoned, and the same request is sent again.  What was sent   *)
(* may still be at the server then: it is carried out later, or lost.      *)
(***************************************************************************)
EXTENDS Naturals, FiniteSets

CONSTANTS
  Procs,      \* the client processes
  Attempts    \* how often each sends a request: retry_max + 1 for the CLI, 5 for loc_gen

ASSUME SessionAssumption == Attempts \in [Procs -> Nat \ {0}]

VARIABLES
  st,         \* each process: where it is in the attempt
  req, no,    \* its request, and the number of that request
  try,        \* attempts made
  inbox,      \* the answer on the connection of this attempt, or Nothing
  atServer    \* the requests sent and neither carried out nor lost

svars == <<st, req, no, try, inbox, atServer>>

Nothing == "nothing"

SessionInit ==
  /\ st = [u \in Procs |-> "idle"]
  /\ req = [u \in Procs |-> Nothing]
  /\ no = [u \in Procs |-> 0]
  /\ try = [u \in Procs |-> 0]
  /\ inbox = [u \in Procs |-> Nothing]
  /\ atServer = {}

\* The call of send_req or vts_cmd_with_retry.
Ask(u, r) ==
  /\ st[u] = "idle"
  /\ st' = [st EXCEPT ![u] = "connect"]
  /\ req' = [req EXCEPT ![u] = r]
  /\ no' = [no EXCEPT ![u] = @ + 1]
  /\ try' = [try EXCEPT ![u] = 1]
  /\ UNCHANGED <<inbox, atServer>>

\* getaddrinfo, socket, connect and the two writes: any may fail.
Connect(u) ==
  /\ st[u] = "connect"
  /\ \/ /\ st' = [st EXCEPT ![u] = "wait"]
        /\ atServer' = atServer \cup {[by |-> u, no |-> no[u], try |-> try[u], req |-> req[u]]}
     \/ st' = [st EXCEPT ![u] = "retry"] /\ UNCHANGED atServer
  /\ UNCHANGED <<req, no, try, inbox>>

\* The answer is read in full: the call returns 0.
Receive(u) ==
  /\ st[u] = "wait"
  /\ inbox[u] # Nothing
  /\ st' = [st EXCEPT ![u] = "ok"]
  /\ UNCHANGED <<req, no, try, inbox, atServer>>

\* Faulty: no SO_RCVTIMEO; the read blocks.
Timeout_Never(u) == FALSE /\ UNCHANGED svars

\* SO_RCVTIMEO, or the server closed: the connection and what is on it are gone.
Timeout(u) ==
  /\ st[u] = "wait"
  /\ st' = [st EXCEPT ![u] = "retry"]
  /\ inbox' = [inbox EXCEPT ![u] = Nothing]
  /\ UNCHANGED <<req, no, try, atServer>>

\* The pause and the next attempt, or the end of the loop.
Retry(u) ==
  /\ st[u] = "retry"
  /\ IF try[u] < Attempts[u]
     THEN st' = [st EXCEPT ![u] = "connect"] /\ try' = [try EXCEPT ![u] = @ + 1]
     ELSE st' = [st EXCEPT ![u] = "failed"] /\ UNCHANGED try
  /\ UNCHANGED <<req, no, inbox, atServer>>

\* The caller has seen the result.
Return(u) ==
  /\ st[u] \in {"ok", "failed"}
  /\ st' = [st EXCEPT ![u] = "idle"]
  /\ inbox' = [inbox EXCEPT ![u] = Nothing]
  /\ req' = [req EXCEPT ![u] = Nothing]
  /\ try' = [try EXCEPT ![u] = 0]
  /\ UNCHANGED <<no, atServer>>

Session(u) == Connect(u) \/ Receive(u) \/ Timeout(u) \/ Retry(u)

-----------------------------------------------------------------------------
(* The server's side, as the client sees it.                                *)

\* Faulty: any connection of the process will do.
Awaited_Any(a) == st[a.by] = "wait"

\* The attempt the process waits for is this one.
Awaited(a) == st[a.by] = "wait" /\ no[a.by] = a.no /\ try[a.by] = a.try

\* The server has carried out a: the answer goes down a's connection.
Answer(a, code) ==
  /\ atServer' = atServer \ {a}
  /\ inbox' = IF Awaited(a) THEN [inbox EXCEPT ![a.by] = code] ELSE inbox
  /\ UNCHANGED <<st, req, no, try>>

\* The queue overflows, or the connection is reset before it is read.
Lose(a) ==
  /\ a \in atServer
  /\ atServer' = atServer \ {a}
  /\ UNCHANGED <<st, req, no, try, inbox>>

=============================================================================
