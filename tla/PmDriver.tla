------------------------------ MODULE PmDriver ------------------------------
(***************************************************************************)
(* The kernel module my_driver: the delayed work pm_work that samples      *)
(* every CPU (pm_core.c, pm_cpu.c), the procfs files that switch it and    *)
(* show its samples (pm_procfs.c), and loading and unloading.  A sample is *)
(* the number of the update that took it; the interval is left out.        *)
(***************************************************************************)
EXTENDS Integers, Sequences, FiniteSets

CONSTANTS NCpu, Writers,  \* CPUs, and processes that write to config
          MaxWrites, MaxTicks  \* bounds: writes made, runs of pm_work

ASSUME DriverAssumption == NCpu \in Nat \ {0} /\ MaxWrites \in Nat /\ MaxTicks \in Nat

VARIABLES
  module,             \* no, exiting, removing, unloaded, failed or live
  entries,            \* procfs entries of the module
  pm_enabled,
  pending, tick,      \* pm_work: queued or its timer set; where pm_tick is
  cancelling,         \* who is inside cancel_delayed_work_sync
  wpc, writes,        \* each writer in cfg_write, and the writes so far
  pm_seq, snap, ticks,
  rpc, rseq, lines    \* one reader in stat_show, and what it has printed

dvars == <<module, entries>>
kvars == <<pm_enabled, pending, tick, cancelling>>
wvars == <<wpc, writes>>
svars == <<pm_seq, snap, ticks>>
rvars == <<rpc, rseq, lines>>
vars == <<dvars, kvars, wvars, svars, rvars>>

Cpus == 1 .. NCpu
Exit == "exit"

Init ==
  /\ module = "no" /\ entries = {}
  /\ pm_enabled = FALSE /\ pending = FALSE /\ tick = "idle" /\ cancelling = {}
  /\ wpc = [w \in Writers |-> "idle"] /\ writes = 0
  /\ pm_seq = 0 /\ snap = [c \in Cpus |-> 0] /\ ticks = 0
  /\ rpc = "idle" /\ rseq = 0 /\ lines = <<>>

-----------------------------------------------------------------------------
(* Linux: the work item.  A cancel takes it off the queue, keeps it from    *)
(* being queued again, and waits for the run that may be under way.         *)

schedule_delayed_work == pending' = (pending \/ cancelling = {})

CancelBegin(who) ==
  /\ cancelling = {}
  /\ pending' = FALSE /\ cancelling' = {who}
  /\ UNCHANGED <<pm_enabled, tick>>

CancelEnd(who) ==
  /\ cancelling = {who} /\ tick = "idle"
  /\ cancelling' = {}
  /\ UNCHANGED <<pm_enabled, pending, tick>>

RunWork ==
  /\ pending /\ tick = "idle" /\ ticks < MaxTicks
  /\ pending' = FALSE /\ tick' = "test" /\ ticks' = ticks + 1
  /\ UNCHANGED <<dvars, pm_enabled, cancelling, wvars, pm_seq, snap, rvars>>

-----------------------------------------------------------------------------
(* pm_tick and pm_update_fake.                                              *)

Test ==
  /\ tick = "test"
  /\ IF pm_enabled THEN tick' = "update" /\ pm_seq' = pm_seq + 1
     ELSE tick' = "idle" /\ UNCHANGED pm_seq
  /\ UNCHANGED <<dvars, pm_enabled, pending, cancelling, wvars, snap, ticks, rvars>>

\* The next CPU of for_each_online_cpu; after the last, write_sequnlock.
Update ==
  LET cpu == Cardinality({c \in Cpus : snap[c] = ticks}) + 1
  IN  /\ tick = "update"
      /\ snap' = [snap EXCEPT ![cpu] = ticks]
      /\ IF cpu < NCpu THEN UNCHANGED <<tick, pm_seq>>
         ELSE tick' = "again" /\ pm_seq' = pm_seq + 1
      /\ UNCHANGED <<dvars, pm_enabled, pending, cancelling, wvars, ticks, rvars>>

\* Faulty: the work does not queue itself.
Again_Once ==
  /\ tick = "again"
  /\ pending' = pending
  /\ tick' = "idle"
  /\ UNCHANGED <<dvars, pm_enabled, cancelling, wvars, svars, rvars>>

Again ==
  /\ tick = "again"
  /\ schedule_delayed_work
  /\ tick' = "idle"
  /\ UNCHANGED <<dvars, pm_enabled, cancelling, wvars, svars, rvars>>

pm_tick == Test \/ Update \/ Again

-----------------------------------------------------------------------------
(* cfg_write.  A write may be to a file opened before; remove_proc_subtree  *)
(* waits for those inside, and lets none in afterwards.                     *)

Callable(entry) == entry \in entries /\ module # "failed"

WriteOne(w) ==
  /\ wpc[w] = "idle" /\ Callable("config") /\ writes < MaxWrites
  /\ writes' = writes + 1
  /\ pm_enabled' = TRUE
  /\ wpc' = [wpc EXCEPT ![w] = IF pm_enabled THEN "idle" ELSE "schedule"]
  /\ UNCHANGED <<dvars, pending, tick, cancelling, svars, rvars>>

Schedule(w) ==
  /\ wpc[w] = "schedule"
  /\ schedule_delayed_work
  /\ wpc' = [wpc EXCEPT ![w] = "idle"]
  /\ UNCHANGED <<dvars, pm_enabled, tick, cancelling, writes, svars, rvars>>

WriteZero(w) ==
  /\ wpc[w] = "idle" /\ Callable("config") /\ writes < MaxWrites
  /\ writes' = writes + 1
  /\ pm_enabled' = FALSE
  /\ wpc' = [wpc EXCEPT ![w] = "cancel"]
  /\ UNCHANGED <<dvars, pending, tick, cancelling, svars, rvars>>

\* Faulty: cancel_delayed_work, which does not wait for the run under way.
Cancel_NoSync(w) ==
  /\ wpc[w] = "cancel" /\ cancelling = {}
  /\ pending' = FALSE
  /\ wpc' = [wpc EXCEPT ![w] = "idle"]
  /\ UNCHANGED <<dvars, pm_enabled, tick, cancelling, writes, svars, rvars>>

Cancel(w) ==
  /\ \/ wpc[w] = "cancel" /\ CancelBegin(w) /\ wpc' = [wpc EXCEPT ![w] = "wait"]
     \/ wpc[w] = "wait" /\ CancelEnd(w) /\ wpc' = [wpc EXCEPT ![w] = "idle"]
  /\ UNCHANGED <<dvars, writes, svars, rvars>>

cfg_write(w) == WriteOne(w) \/ Schedule(w) \/ WriteZero(w) \/ Cancel(w)

-----------------------------------------------------------------------------
(* stat_show: what a pass has printed stays when the pass is repeated.      *)

ReadBegin ==
  /\ \/ rpc = "idle" /\ Callable("status")
     \/ rpc = "again"
  /\ pm_seq % 2 = 0
  /\ rseq' = pm_seq /\ rpc' = "read"
  /\ UNCHANGED <<dvars, kvars, wvars, svars, lines>>

ReadCpu ==
  LET cpu == (Len(lines) % NCpu) + 1
  IN  /\ rpc = "read"
      /\ lines' = Append(lines, [cpu |-> cpu, sample |-> snap[cpu]])
      /\ rpc' = IF cpu < NCpu THEN rpc ELSE "retry"
      /\ UNCHANGED <<dvars, kvars, wvars, svars, rseq>>

\* Faulty: the sequence is not tested.
ReadRetry_Never ==
  /\ rpc = "retry"
  /\ rpc' = "done"
  /\ UNCHANGED <<dvars, kvars, wvars, svars, rseq, lines>>

ReadRetry ==
  /\ rpc = "retry"
  /\ rpc' = IF pm_seq = rseq THEN "done" ELSE "again"
  /\ UNCHANGED <<dvars, kvars, wvars, svars, rseq, lines>>

stat_show == ReadBegin \/ ReadCpu \/ ReadRetry

-----------------------------------------------------------------------------
(* mydrv_init and mydrv_exit.  pmfs_init stops at the first entry it cannot *)
(* create and leaves the earlier ones.                                      *)

mydrv_init ==
  /\ module = "no"
  /\ \E made \in {{}, {"pm_drv"}, {"pm_drv", "config"}, {"pm_drv", "config", "status"}} :
       /\ entries' = made
       /\ module' = IF "status" \in made THEN "live" ELSE "failed"
  /\ UNCHANGED <<kvars, wvars, svars, rvars>>

\* Faulty: the work is not cancelled.
mydrv_exit_NoCancel ==
  \/ /\ module = "live" /\ module' = "removing"
     /\ UNCHANGED <<entries, kvars, wvars, svars, rvars>>
  \/ /\ module = "exiting" /\ CancelEnd(Exit) /\ module' = "removing"
     /\ UNCHANGED <<entries, wvars, svars, rvars>>
  \/ /\ module = "removing"
     /\ \A w \in Writers : wpc[w] = "idle"
     /\ rpc \in {"idle", "done"}
     /\ entries' = {} /\ module' = "unloaded"
     /\ UNCHANGED <<kvars, wvars, svars, rvars>>

mydrv_exit ==
  \/ /\ module = "live" /\ CancelBegin(Exit) /\ module' = "exiting"
     /\ UNCHANGED <<entries, wvars, svars, rvars>>
  \/ /\ module = "exiting" /\ CancelEnd(Exit) /\ module' = "removing"
     /\ UNCHANGED <<entries, wvars, svars, rvars>>
  \/ /\ module = "removing"
     /\ \A w \in Writers : wpc[w] = "idle"
     /\ rpc \in {"idle", "done"}
     /\ entries' = {} /\ module' = "unloaded"
     /\ UNCHANGED <<kvars, wvars, svars, rvars>>

Next ==
  \/ RunWork \/ pm_tick
  \/ \E w \in Writers : cfg_write(w)
  \/ stat_show
  \/ mydrv_init \/ mydrv_exit

Spec == Init /\ [][Next]_vars

\* The regime in which a write to config overlaps neither another one nor
\* unloading.
Busy == {w \in Writers : wpc[w] # "idle"}
SerialNext ==
  /\ Next
  /\ writes' > writes => Busy = {} /\ module = "live"
  /\ module' = "exiting" => Busy = {}
SerialSpec == Init /\ [][SerialNext]_vars

-----------------------------------------------------------------------------
Active == pending \/ tick # "idle"

(* README, FR2: "Writing 1 to procfs must enable monitoring": when nobody   *)
(* is inside cfg_write and the driver is enabled, pm_work is queued or      *)
(* running, so that samples keep coming.                                    *)
EnabledSamples == module = "live" /\ Busy = {} /\ pm_enabled => Active

(* README, FR2: "... and writing 0 must disable it": once a write of 0 has  *)
(* returned pm_work is neither queued nor running, although it queues       *)
(* itself, until the next write of 1.                                       *)
DisabledQuiet == Busy = {} /\ ~pm_enabled => ~Active

(* When mydrv_exit has returned nothing of the module is queued or running  *)
(* and no procfs entry leads into it.                                       *)
UnloadedQuiet == module = "unloaded" => ~Active /\ entries = {}

(* procfs_contract.md: reads use the seqlock: the last pass stat_show makes *)
(* shows every CPU, in order, as one update left them.                      *)
LastPassWhole ==
  rpc = "done" =>
    LET first == Len(lines) - NCpu
    IN  /\ first >= 0
        /\ \A c \in Cpus : lines[first + c] = [cpu |-> c, sample |-> lines[first + 1].sample]

=============================================================================
