--------------------------- MODULE SystemMonitor ---------------------------
(***************************************************************************)
(* The command line client (system_monitor.c): a user who runs one command *)
(* after the other, each a process that turns its arguments into at most   *)
(* one request and its outcome into an exit code.                          *)
(***************************************************************************)
EXTENDS VtsSession, Sequences

CONSTANTS
  Cli,      \* the process
  Argvs,    \* the command lines used, without the program's name
  MaxCmds   \* bound: commands run

ASSUME CliAssumption == Cli \in Procs /\ MaxCmds \in Nat

VARIABLES cp, cmds, exit  \* control point, commands run, the last exit code

cvars == <<cp, cmds, exit>>

CliInit == cp = "shell" /\ cmds = 0 /\ exit = 0

\* Whether the arguments make a request.
Wellformed(argv) ==
  /\ Len(argv) >= 3
  /\ \/ argv[1] \in {"create", "delete", "start", "stop", "show"}
     \/ argv[1] = "edit" /\ Len(argv) >= 6 /\ argv[4] = "--set"

build_payload(argv) == [cmd |-> argv[1], target |-> argv[2], name |-> argv[3]]

\* Commands that end before they reach the server.
CliLocal(argv) ==
  /\ cp = "shell"
  /\ cmds < MaxCmds
  /\ ~Wellformed(argv)
  /\ cmds' = cmds + 1
  /\ exit' = IF argv = <<>> THEN 2 ELSE IF argv[1] = "help" THEN 0 ELSE 3
  /\ UNCHANGED <<cp, svars>>

CliSend(argv) ==
  /\ cp = "shell"
  /\ cmds < MaxCmds
  /\ Wellformed(argv)
  /\ cmds' = cmds + 1
  /\ Ask(Cli, build_payload(argv))
  /\ cp' = "run" /\ exit' = 0

\* Whatever the server answered is printed, and is a success.
CliPrint ==
  /\ cp = "run"
  /\ st[Cli] = "ok"
  /\ Return(Cli)
  /\ exit' = 0
  /\ cp' = "shell"
  /\ UNCHANGED cmds

\* ERROR 1100 or 1101.
CliError ==
  /\ cp = "run"
  /\ st[Cli] = "failed"
  /\ Return(Cli)
  /\ exit' = 4
  /\ cp' = "shell"
  /\ UNCHANGED cmds

=============================================================================
