# Process Monitor: TLA+ models, checks and proofs

This directory models the parts of Process Monitor in which threads, clients,
timers and failures meet. TLC checks each model on a small instance; TLAPS
proves the central invariants for every value of the constants.
`PROJECT.json` gives, for every definition, the source lines it models.

## The system

| Part | Source | What it does |
|---|---|---|
| Kernel driver | `kernel/my_driver/src` | A delayed work samples every CPU under a seqlock. `/proc/pm_drv/config` switches it, `/proc/pm_drv/status` shows the samples. |
| libpm | `userspace/libpm` | Reads and writes procfs nodes without blocking, with retries, backoff and a circuit breaker; a key=value parser. |
| VTS daemon: pipe path | `threads_recv.c`, `fifo.c`, `threads_coords.c`, `log_write.c` | The receiver thread reads lines from a named pipe into a ring; the coordinates thread takes them out and logs them. |
| VTS daemon: request path | `net_server.c`, `req_handler.c` | One network thread cuts TCP streams into frames (and takes datagrams); a bounded queue hands them to 8 workers, which answer on the descriptor in the item. |
| VTS daemon: main | `main.c`, `vts_config.c` | Starts and stops the above. |
| CLI client | `cli/src/system_monitor.c` | One request per connection, with retries. |
| loc_gen | `userspace/loc_gen` | Reads rooms from XML and applies them to VTS; shows samples through libpm. |
| Tests, scripts | `tests`, `scripts`, `kernel/my_driver/selftests` | Load generators, unit tests, end-to-end runner. |

The pipe path and the request path share only the log file and the process.
The CLI and loc_gen meet the daemon in one request per connection; both give up
after a timeout and send the same request again on a new connection.
The driver and libpm meet in procfs: libpm expects `/proc/pm/<node>/<file>`,
the driver offers `/proc/pm_drv/{config,status}`.

## Modules

| Module | Models | State and actions |
|---|---|---|
| `VtsFifo` | `fifo.c`, the loop of `thr_coords`, the end of `main` | Every load and store of `head`, `tail`, `buf` and the metrics is an action: `PushLoad` ... `DepthStore` are push, `PopLoadHead` ... `PopStoreM` pop, `CoordsLog` and `CoordsFree` the consumer, `vts_fifo_free` the release. Message k stands for the block `strdup` gives it, `freed` for the blocks given back. |
| `DropOldest`, `VtsFifoRef` | what `vts_fifo.h` promises; the mapping | A bounded queue that drops its oldest message when full, and the ring as an implementation of it. |
| `VtsFifoProofs` | | Proofs about `VtsFifo`. |
| `RoomTable` | `room_exists`, `room_create`, `room_delete` | Pure operators from registry to registry and return code. |
| `RoomRegistry`, `RoomSet` | the registry as called | The array, and the bounded set it implements. |
| `VtsSession` | `send_req` of the CLI, `vts_cmd_with_retry` of loc_gen | One request of a client process over several attempts: `Connect`, then `Receive` or `Timeout`, then `Retry`. `atServer` holds what was sent and neither carried out nor lost, attempts that were given up included. |
| `SystemMonitor` | `build_payload` and `main` of the CLI | Commands one after the other: `CliLocal` ends without the server, `CliSend` asks, `CliPrint` and `CliError` end with exit code 0 and 4. |
| `LocGen` | `loc_main.c`, `xml_loader.c`, `room_store.c`, `room_mem_reader.c` | One run of locgend. A document is its sequence of tags that begin with `<room`, each with id, type and state, or not closed. `LocAsk`, `LocAnswered`, `LocFailed` and `LocDone` are the loop of `apply_from_xml`; `LocStatus`, `LocRoot` and `LocRead` are `mem_show_snapshot`: a root is tested for its directory (`Directory`), then the files under it, numbered in the order they are tried. |
| `RoomClients`, `MCRoomClients` | the registry and its clients | Composes the four above: the server answers any request at hand (`ServeCli`, which works on the registry, `ServeLoc`, which does not) or loses it. |
| `RoomProofs` | | Proofs about the registry, by itself and behind its clients, and about the clients. |
| `VtsRecv` | `threads_recv.c` | The pipe, its writers, the epoll set and the splitter. The test of `g_stop` (`RecvTest`, `RecvStop`) and `epoll_wait` (`RecvTimeout`, `RecvHup`, `RecvReady`) are steps of their own. The i-th byte written is the number i or a newline, so that a line shows which bytes it is made of. |
| `VtsLog` | `log_write.c` | Files are numbers, `LOG0` to `LOG2` names for them; `fp` and `g_logf` are the two handles. Each rename is a step. Opening may fail: a result is then not written (`muted`), and a line ends the process (`LogCrash`), since `vts_log_write` hands NULL to `vfprintf`. |
| `VtsDaemon` | `main.c`, `threads_coords.c` | Composes `VtsRecv` and `VtsLog` with the start, the wait for a signal, the shutdown, and the thread between the ring and the log. |
| `VtsLogProofs`, `VtsDaemonProofs` | | Proofs about the lines and the results in the log; about the splitter and the drain at the shutdown. |
| `VtsJson` | `json_get_str`; the payloads of the clients | A payload is its sequence of quoted strings, punctuation and numbers, so that the scan for `"key"`, colon, next string behaves as in the code, misreadings included: loc_gen's numeric `req_id` is read as the name of the field after it. |
| `VtsServer`, `MCVtsServer` | queue, workers, dedup ring, both handlers; connections and descriptors | One action per critical section and per socket write. `Accept`, `ReadFrame`, `CloseConn` and `Datagram` are the network thread, `SendRequest` and `ClientClose` the clients. `conn` is the descriptor table. |
| `VtsServerProofs`, `VtsPatientProofs` | | Proofs about the queue, the workers, the dedup ring, the log and the end of the daemon by SIGPIPE, with any clients; and about streams and descriptors, with clients that wait. |
| `NetFraming` | `read_from_conn`, the epoll loop for one connection | Bytes arrive in any pieces; `ReadHeader` and `ReadPayload` are the two reads (the first with an allocation that may fail), `NothingToRead` is EAGAIN or end of stream, `ReadError` any other error. |
| `NetFramingProofs` | | Proofs about `NetFraming`. |
| `LibPm` | `procfs_io.c`, `circuit_breaker.c`, `backoff.h` | `Call`, `Open`, `Poll`, `Transfer` and `Retry` are the stages of the loop; `now` is the clock, in units of which `MS` make a millisecond. |
| `PmDriver` | `pm_core.c`, `pm_cpu.c`, `pm_procfs.c` | `pm_tick` in three steps, `cfg_write` by any number of writers, `stat_show` by one reader, loading (with failure) and unloading. The Linux work item is external: queueing is refused while a cancel is under way, and a cancel waits for the run. |
| `PmProofs` | | Proofs about `LibPm`, then about `PmDriver`. |

`VtsServer` composes `VtsJson` and `RoomTable`; it takes frames whole, which
`NetFramingProofs` justifies by proving that frames arrive whole and in order. What
`json_get_str` finds in each request is computed once (`Fields`).
`VtsDaemon` uses a queue that drops its oldest line in place of the ring, which
`VtsFifoProofs` justifies in the calm regime (`RingIsQueue`), and `RoomClients` puts in place of
`VtsServer` what a client can tell of it: a request is carried out in one step,
at any later time and in any order (there are eight workers), or never.
Definitions marked `Faulty` are variants of the definition they precede, each
with one plausible mistake; they are not part of a specification and show that
a property can fail.

## Runs

Runs that pass:

| Run | Shows | Bounds |
|---|---|---|
| `fifo_calm` | When no push that drops overlaps a pop: the slots hold exactly the youngest messages (`RingHolds`), a message taken by pop is not freed under the consumer (`PopReturnsOwned`), nothing is leaked or freed early (`EachFreedOnce`, `EveryMessageFreed`), the log is in order, only the oldest are dropped, a stop releases the ring (`StopReleases`), and the ring implements `DropOldest`. | 3 slots, 5 messages: the ring fills, wraps and drops more than once. |
| `room_clients` | With requests that are late, lost, repeated or overtaken: the array implements a bounded set with truthful return codes (`ImplementsSet`); what the last answer said of a room stays true until the next command about it, unless a request overtook an earlier one (`AnswersStayTrue`); "Already exists" for a new room means that an earlier attempt made it (`ExistsExplained`); the exit code of an apply says how far it came (`ApplyInOrder`); `show --via libpm` fails only if no driver is there or an earlier root without files hides it (`ShowFindsDriver`); every command ends (`ClientsEnd`). | 3 names, 2 places (full; the hole filled), 3 commands of 9 kinds, 2 attempts; three documents (two rooms of one id, an untyped one, a file cut off); `/proc/pm` and the root of the environment absent, empty or filled, `/proc/pm_drv` absent or filled, one change of procfs during a call. |
| `srv_patient` | Both kinds of request over two connections, and datagrams, when clients wait: whole frames (`FrameIntegrity`), answers to the sender only (`ReplyToOrigin`), and every request of a client is answered (`EveryRequestAnswered`). | 2 workers, 2 clients with one request outstanding, 3 requests, a queue of 3 (it cannot overflow), 1 room, a dedup ring of 1 (what it answers is the question of `srv_legacy`). |
| `srv_legacy` | Clients that leave early: no lost wakeup and an exact `qlen` (`NoLostWakeup`), one owner for each item (`OneOwner`), a call of `log_write_req_result` before the answer (`LoggedFirst`), results never mixed up (`OkUnlessFail`); SIGPIPE ends the daemon only if a client has left without an answer it was owed (`KilledByLeaver`). | The same with one descriptor, which the clients get one after the other, beside datagrams; queue of 2 (it overflows), dedup ring of 2 (it wraps). |
| `net_framing` | What is handed over is always a beginning of the frames of the whole stream (`FramesExact`, against the reference `Frames`); bytes in the socket are never forgotten (`NoLostEdge`); all frames are handed over, then the connection closes, unless a read or an allocation fails (`AllFramesThenClosed`). | All streams of up to 8 binary bytes, headers of 2: two frames of every length, frames of length 0 and above the maximum, unfinished ones. |
| `libpm` | The breaker opens only after enough failures in a row and then rests for its period; a call is over within twice its timeout plus one pause (a millisecond, if that is longer); statistics equal what callers saw; every call returns. | 4 calls, threshold 2, half-open period and timeout 2 ms of 2 units, backoff 1 to 3. |
| `pm_driver` | When writes overlap neither each other nor unloading: enabled means work queued or running, disabled and unloaded mean neither, and the last pass of a read is one update of all CPUs. | 2 CPUs, 2 writers, 4 writes, 4 samples. |
| `vts_daemon` | The lines pushed are the bytes written, cut where they should be (`LinesCut`, against a definition of the cuts by position); rotation leaves out no line of the last two files and the current one (`LinesFound`); the results are all in the file that `log_write_req_result` opened first, which has the name its age gives it (`ResultsPlaced`); lines pushed before the signal are logged before the exit (`LoggedBeforeExit`); bytes are read until the first time all writers have left (`BytesRead`); a signal ends the daemon, but for the gap named below (`SignalStops`). | Lines of 2 bytes, 4 bytes, one writer at a time (the thread can tell only whether there is any), a ring of 1, rotation after every line, 2 results, two files of an earlier daemon: two rotations, the first without and the second with a file to lose, and results at any moment between them. More rotations and other files are left to the proofs. |

Deadlock is not checked: in every run a bound, a stop or an exit ends the
behaviour. Symmetry is used in `srv_legacy`, for workers and for clients; neither
is ever compared or chosen by order.

Runs that fail, and what they disagree with:

| Run | Property | What happens |
|---|---|---|
| `fifo_owned` | `PopReturnsOwned`, from `vts_fifo.h:26` | Without the calm regime, a push on a full ring frees the message a pop has just read. |
| `srv_reuse` | `ReplyToOrigin`, from `net_server.c:102` | A client leaves, its descriptor number is given to the next one, and the next one gets its answer. |
| `libpm_streak` | `StreakOpens`, from `libpm.h:29` and `tests/libpm/test_cb.c:17` | Failures of `open` are not recorded by the breaker, so the path that does not exist in that test never trips it. |
| `pm_race` | `EnabledSamples`, from `README.md:37` | A write of 0 clears the flag; a write of 1 sets it and queues the work; the first write's cancel removes it. |

### The regimes

Some properties hold only in an environment or up to an event, and each
restriction is needed:

- *Calm* (`CalmSpec`): a push that will drop does not start during a pop and
  no pop starts during it. With the default capacity of 65536 and a consumer
  that keeps up the ring never fills, which is a special case; the code does
  nothing to enforce it. `fifo_owned` is what happens otherwise.
- *One request outstanding, clients wait* (`Window = 1`, `Patient`) in
  `srv_patient`: it is how the CLI and loc_gen behave unless they time out. With
  two outstanding, two workers write to one socket and their headers and bodies
  interleave; a client that leaves early leads to `srv_reuse`.
- *Killed by those who leave* (`KilledByLeaver`): a client that times out and
  closes before its answer makes the first write of the answer meet a reset and
  the second raise SIGPIPE, which nothing in the daemon ignores or handles. All
  clients of the repository set SO_RCVTIMEO (`system_monitor.c:41`,
  `vts_adapter.c:43`, `stress_client.c:69`), so one slow answer can end the
  daemon, against NFR2 of `README.md:55` (fault-tolerant). The model has this
  behaviour, in `srv_legacy`; the property says that it is the only cause.
- *A log that opens* (`LoggedFirst`): an answer is preceded by the call that
  logs it. The call writes nothing as long as `logs/vts.log` cannot be opened
  (`log_write.c:51`; the daemon does not make the directory), and the answer is
  sent all the same. `vts_log_write` has no such test: there the first line ends
  the process, which `BytesRead`, `LoggedBeforeExit` and `SignalStops` allow for.
- *Not hidden* (`ShowFindsDriver`): `get_proc_root` takes the first root whose
  directory exists. If `/proc/pm` or `$PM_PROC_ROOT` has no file for the type,
  `show` fails although `/proc/pm_drv` has one.
- *Serial* (`SerialSpec`): writes to `config` do not overlap each other or
  unloading. `pm_race` is what happens otherwise.
- *In order* (`ordered` in `AnswersStayTrue` and `ExistsExplained`): no request
  of the CLI is carried out before an earlier one about the same room. Nothing
  enforces it: a create that was given up, carried out after the room was
  deleted, brings the room back.
- *Until all writers have left* (`BytesRead`): `close` takes the descriptor
  out of the epoll set, and `EPOLL_CTL_MOD` (`threads_recv.c:59`) does not put
  the new one in. From then on the thread reads nothing, although the comment in
  line 54 expects the next writer.
- *Not between test and pause* (`SignalStops`): a signal in this gap of
  `main.c:100` sets the flag, and main sleeps until another one comes.
- *Pushed before the signal* (`LoggedBeforeExit`): the coordinates thread is
  joined first, so a line the receiver pushes after the drain is freed unlogged.
- *In the first file* (`ResultsPlaced`): `log_write_req_result` never reopens
  its handle, so its results follow the file through its renames, and are lost
  to a reader from the third rotation on, when the file has no name, those
  written later included. `scripts/check_log_rotation.sh:56-63` expects new
  `result=OK` lines in `vts.log` after a rotation; they are in `vts.log.1`.

## Fairness

- `VtsFifo`: both threads and `main` are scheduled (weak fairness of their
  steps). Lines and the signal may never come: `PushLoad` and `on_sig` have no
  fairness.
- `VtsServer`: weak fairness of the network thread and of each worker's
  steps. Mutexes are held for one step, and a worker that waits owes nothing.
  Clients owe nothing.
- `VtsDaemon`: main and the two threads are scheduled. `epoll_wait` and sleeps
  end (one of the sleeps takes 100000 seconds). Writers, workers and signals owe
  nothing.
- `RoomClients`: a started client goes on; its waits end with an answer or with
  SO_RCVTIMEO. The server owes nothing.
- `NetFraming`: TCP delivers what was sent, and the network thread runs.
- `LibPm`: a call that has begun goes on; system calls return, since files
  are opened with O_NONBLOCK and poll has a timeout.

## Proofs

All are checked by TLAPS, for every value of the constants that satisfies the
named assumptions of the modules; the bounds on commands, messages, bytes or
writes that TLC needs are constants too, so the theorems hold for every bound.
A property is seldom inductive. Each paragraph names the invariant that is, and
why it says more than the property. `PROJECT.json` lists the theorems.

**The ring (`VtsFifoProofs`).** From `CapAssumption` (at least 2 slots) and
`MaxMsgAssumption`: `CalmSpec` implies always `TypeOK`, `RingHolds`,
`EachFreedOnce`, `PopReturnsOwned`, `LogInOrder` and `DropsOnlyOldest`.
`CalmInv` adds what the two threads know of each other: while a
push drops, `pHead` is still `head` and no pop is under way; while a pop is
under way `cHead` is still `head`; `out` holds the oldest message until pop
stores `head` and an older one afterwards; and the log and the drops together
account for every message that has left. `RingHolds` gives `EachFreedOnce` the
identity of the message a drop frees, and the lemmas on `Depth` (it is a
bijection from slots to distances from head) carry `RingHolds` over each move
of an index. `RingIsQueue` proves that the ring implements `DropOldest`: the
queue is the messages from the oldest in the ring to the youngest published,
`DropFree` is its `Drop`, `PushTail` its `Put`, `PopHead` its `Take`,
`CoordsLog` its `Deliver` and `vts_fifo_free` its `Close`; every other step of
the two threads stutters. `VtsDaemon` may then have that queue for its ring.

**The registry (`RoomProofs`, first part).** For every set of names and
`MAX_ROOMS`: no duplicates (`RoomsDistinct`), and refinement of `RoomSet`
(`RegistryImplementsSet`). Deletion is the work: the array without its i-th
entry and with the last in its place has exactly the other names, which needs
`Distinct`; the test for a full array maps to the cardinality of the set, which
needs it too.

**The clients (`RoomProofs`, the rest).** For any number of names, attempts,
commands, documents and rooms in them, and a server that serves requests late,
in any order, or never: the registry is still the bounded set
(`SetBehindClients`), `AnswersStayTrue`, `ExistsExplained`, `ApplyInOrder` and
`ShowFindsDriver`. `SysInv` is the invariant of the first three. `SessionInv`
ties the requests at the server to the attempts that sent them: an attempt has
one, and it is unanswered while its client waits. `ToldInv` says that a room
whose answer is known has no request left at the server, as long as none
overtook another; `FreshInv` that a room that was not there when the command
began can only be found by a second attempt. For `ApplyInOrder`, `LocInv`
follows the numbers of locgend's requests (all before the current one are
done), and `StoreInv` says that the store has one room per id and for each id
the latest. `ShowInv` keeps, for `ShowFindsDriver`, that the roots passed over have
no directory and the places passed over no file, if procfs does not change, and
that a root taken without files hides what is behind it. The
assumptions say that the two clients are different processes and that
well-formed commands name rooms of the registry.

**The request path, any clients (`VtsServerProofs`).** For every finite set of
workers, every queue depth, dedup ring, window and number of descriptors, and
clients that come, send and leave as they like: `NoLostWakeup`, `OneOwner`,
`LoggedFirst`, `OkUnlessFail` and `KilledByLeaver`. `QueueInv` is the invariant for the first: a
push adds one item and moves one waiting worker to the loop; a worker that
starts to wait sees an empty queue; one that takes an item takes itself and the
item out of the count. `OwnInv` extends `OneOwner` to the requests that are
still on a connection, since an item that enters the queue must be in no other
place yet. `LogInv` adds to `LoggedFirst` the answers workers are about to
write. `OkUnlessFail` has a hypothesis, `IdsTellResults`: legacy requests with
one id, not empty, ask for the same thing. It is the meaning of a request id;
with two different requests of one id the dedup ring answers the second with
the result of the first, as it should. Under it `ResultInv` says that every
result in a worker's hands, in the ring and in the log is that of its request.
`LeaverInv` is behind `KilledByLeaver`: the descriptor of an item is still its
client's, or has been given away because that client has left; and a request
on a connection, in the queue or in a worker's hands has not been answered. A
write to a closed connection is then for a client that has left and is owed it,
or for the successor of one on its descriptor.

**The request path, patient clients (`VtsPatientProofs`).** If clients wait for
each answer before they send again or close (`Patient`, `Window <= 1`):
`FrameIntegrity` and `ReplyToOrigin`. `PatientInv` adds `ReadyInv`,
that the descriptor in every item leads to the client that sent the request,
and that this client is there; `CountInv`, that a client has at most one
request unanswered, counted as a difference of two cardinalities and found in
one place; and `StreamInv`, that a header without its body belongs to exactly
one worker, about to write it. Why two writes without a lock do no harm is in
`CountInv`: a second worker would need a second unanswered request.

**Framing (`NetFramingProofs`).** From `FramingAssumption`, for every stream,
size of the header, base and largest frame, and every way TCP divides the
stream: `FramesExact` and `NoLostEdge`. The reference `Frames` cuts the whole
stream, and the ends of its frames are a recursive function of the number of
cuts (`Ends`). `WholeFrames` shows that it cuts something the first m times and
nothing afterwards; `CutShift` that a cut depends only on the bytes behind it.
`CutInv` is the invariant: the frames handed over are the first that are cut,
and the header and payload in `struct conn`, the socket's buffer and the bytes
under way are together what is left of the stream behind them. It needs
`ConnInv`: `plen` is the length in the header once the header is complete, and
a complete payload has been handed over. When the connection is closed for a
bad length, or by its peer, `Ends` cuts no further there.

**The log (`VtsLogProofs`).** For every line size, ring, number of writers,
bytes, lines, results and rotations:

- `ResultsPlaced`. `NamesInv` gives each file made in the last two rotations its
  name at every step between the renames; `ResultsInv` says that the workers'
  handle has had one file since it was opened, with every result since then and
  no other file with any. It holds whichever opens and writes fail.
- `LinesFound`. `OrderInv` says that lines reach the log in the order they were
  pushed: what was said is older than the line in hand, that one is older than
  the ring, and the rotations they were said in never decrease. `LinesInv` ties
  files to lines: the lines of a text ascend (`TextsSorted`), a file has
  exactly the lines said in the rotation it was made in (`TextsSaid`), each of
  the last three rotations that has lines has a file (`SaidFiled`), and every
  name with a file has one of these rotations, in the place its age gives it
  (`NamesPlaced`). The reader who
  concatenates the three texts then finds what `LinesFound` says. `TextsSaid`
  holds at every step since a new file is made, by whichever thread, only after
  the rename took the last one's name away, and a rotation begins there.

**The pipe and the ring's consumer (`VtsDaemonProofs`).** For the same constants,
from the types proved in `VtsLogProofs`:

- `LinesCut`. The reference gives the cuts by position: after every newline and
  every `LineSize` bytes between two. `FeedInv` follows the bytes from the
  writers through the pipe to the buffer; `SplitInv` says that the line in hand
  begins at the latest cut, a multiple of `LineSize` after the latest newline.
- `LoggedBeforeExit`. `CoordsInv`: until the ring is freed, which is after the
  coordinates thread has ended, every line is in the ring, in that thread's
  hands, logged or dropped; the thread ends with the ring empty.

**libpm (`PmProofs`, first part).** From `CfgAssumption`, for every configuration and any
number of calls: `OpensOnlyOnStreak`, `CallBounded`, `StatsMatchReturns` and
`RestsAfterTrip`. `BreakerInv` relates the breaker's count to the callers'
failures and its opening time to the clock; `ClockInv` bounds the clock at each
label of the retry loop, by the last test of the deadline, one pause and one
poll. `CfgAssumption` admits a timeout of 0, for which the bound is the
millisecond in which the call began.

**The driver (`PmProofs`, the rest).** For any number of CPUs, writers, writes and
samples: `EnabledSamples`, `DisabledQuiet` and `UnloadedQuiet` under
`SerialSpec`, and `LastPassWhole` under `Spec`. `SwitchInv` says, for each
place in `cfg_write` and in loading and unloading, what is known of the work
item; that `pm_tick` queues itself is harmless since a cancel under way refuses
it. For `LastPassWhole` the invariant relates what the reader has copied so far
to the sequence number it started with.

### Only model-checked

- Liveness under fairness (`EveryMessageFreed`, `StopReleases`, `ClientsEnd`,
  `EveryRequestAnswered`, `SignalStops`, `BytesRead` and the like): the prover
  has no rules for fairness.

Every other property of a passing run is also a theorem.

## Abstractions

- Names and payloads are small sets; truncation of names at 63 bytes is left
  out, and so is the text of answers beyond code or result.
- Sockets accept every write in full; EAGAIN on a full socket buffer is not
  modelled, nor failure of malloc outside `read_from_conn`.
- `LibPm` has timeouts up to `INT_MAX` milliseconds. `pm_cfg` holds 32 bits
  without sign, and `procfs_io.c:54` and `86` cast them to the int poll takes: a
  larger one is negative there, and poll waits until the node is ready.
- Memory is sequentially consistent. The indices are accessed with acquire and
  release, and each thread's accesses to slots are ordered by them.
- The sampling interval is left out of `PmDriver`, `io_retry` out of `LibPm`
  (it counts without bound), and system calls other than poll and usleep take
  no time.
- In `VtsFifo` a line is any next message; how lines are cut from the pipe is
  in `VtsRecv`, where `read` returns all there is and the log's size is counted
  in lines.
- The pauses between attempts have no length. In the code they are
  `sleep(backoff_ms*1000)` and `sleep(us)`, that is hours: `ClientsEnd` says that
  a command ends, not when.
- loc_gen's requests are answered by the legacy handler, which leaves the
  registry alone (`ServeLoc`), although `loc_main.c:10` speaks of creating rooms;
  the two clients share nothing else, so each behaviour of `RoomClients` has a
  user of one of them.

## Not modelled

- `vts_config.c`: read when the daemon has already stopped, and used by nothing.
- `vts_net.h`: declarations without definitions. Among them are functions to
  save and load the dedup table, so a restarted daemon knows no earlier request.
- `parser.c` (`pm_parse_kv`), `compat_shim.c`, and `room_store_del`, `_get` and
  `_all`: called by nothing.
- The sampling interval of the driver, the setup of sockets and the end of the
  network loop after a failed `epoll_wait`.
- Self-tests, scripts: no state of their own.
- `pm_mem.c`, `pm_inf.c` are empty; `my_driver.mod.c` and `build/` are generated.

## Plan

Models: the sampling interval of the driver, which `cfg_write` changes without a
lock; partial writes and EAGAIN on the sockets of the request path.
