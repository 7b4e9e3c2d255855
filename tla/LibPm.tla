------------------------------- MODULE LibPm -------------------------------
(***************************************************************************)
(* libpm's access to a node of /proc/pm: read_text_file and                *)
(* write_text_file of procfs_io.c, with their retry loop (backoff.h) and   *)
(* the circuit breaker (circuit_breaker.c) in front of it.  The two        *)
(* functions differ only in the call they make.  The library has no lock   *)
(* and one caller.  open, read and write take no time, poll takes up to    *)
(* its timeout and usleep exactly its argument.                            *)
(***************************************************************************)
EXTENDS Integers, FiniteSetsExt

CONSTANTS
  MS,                               \* clock units (microseconds) in a millisecond
  timeout_ms, backoff_init_us, backoff_max_us,
  breaker_fail_n, breaker_half_ms,  \* the pm_cfg
  MaxCalls                          \* bound: calls of the library

\* Bound: poll takes timeout_ms as an int.  A larger one is negative there and
\* poll waits without limit.
INT_MAX == 2147483647

ASSUME CfgAssumption ==
  /\ MS \in Nat \ {0} /\ timeout_ms \in Nat /\ timeout_ms <= INT_MAX
  /\ {backoff_init_us, backoff_max_us, breaker_fail_n, breaker_half_ms, MaxCalls}
       \subseteq Nat

VARIABLES
  now,        \* CLOCK_MONOTONIC
  cb,         \* g_cb
  stats,      \* g_stats, but for io_retry
  pc,         \* where the call is
  t0, cur_us, \* its start and its backoff
  returned,   \* how often each code was returned
  fails,      \* calls that failed since one did not, or the breaker closed
  last_trip   \* when the breaker last opened

libvars == <<now, cb, stats, pc, t0, cur_us, returned, fails, last_trip>>

Ms(t) == t \div MS
Codes == {"PM_OK", "PM_AGAIN", "PM_TIMEOUT", "PM_IOERR"}

\* Zero selects a default in pm_breaker_init and pm_backoff_init.
trip_threshold == IF breaker_fail_n = 0 THEN 8 ELSE breaker_fail_n
half_open_ms == IF breaker_half_ms = 0 THEN 200 ELSE breaker_half_ms
init_us == IF backoff_init_us = 0 THEN 100 ELSE backoff_init_us
max_us == IF backoff_max_us = 0 THEN 20000 ELSE backoff_max_us

\* The longest pause.
Pause == IF init_us > max_us THEN init_us ELSE max_us

pm_init ==
  /\ cb = [fail_n |-> 0, open |-> FALSE, open_until |-> 0]
  /\ stats = [io_ok |-> 0, io_timeout |-> 0, io_err |-> 0, breaker_trips |-> 0]

LibInit ==
  /\ pm_init
  /\ now = 0 /\ t0 = 0 /\ cur_us = 0
  /\ pc = "idle"
  /\ returned = [r \in Codes |-> 0]
  /\ fails = 0
  /\ last_trip = -half_open_ms

-----------------------------------------------------------------------------
\* The breaker after pm_breaker_allow has let a call through.
Closed == [cb EXCEPT !.open = FALSE, !.fail_n = IF cb.open THEN 0 ELSE @]

pm_breaker_allow == ~cb.open \/ Ms(now') >= cb.open_until

\* Faulty: a success does not reset the count.
pm_breaker_record_Sticky(ok) ==
  IF ok THEN cb
  ELSE IF cb.fail_n + 1 >= trip_threshold
    THEN [fail_n |-> 0, open |-> TRUE, open_until |-> Ms(now') + half_open_ms]
    ELSE [cb EXCEPT !.fail_n = @ + 1]

\* Faulty: half_open_ms is not added.
pm_breaker_record_Now(ok) ==
  IF ok THEN [cb EXCEPT !.fail_n = 0]
  ELSE IF cb.fail_n + 1 >= trip_threshold
    THEN [fail_n |-> 0, open |-> TRUE, open_until |-> Ms(now')]
    ELSE [cb EXCEPT !.fail_n = @ + 1]

\* The breaker after a success, or after a failure at time now'.
pm_breaker_record(ok) ==
  IF ok THEN [cb EXCEPT !.fail_n = 0]
  ELSE IF cb.fail_n + 1 >= trip_threshold
    THEN [fail_n |-> 0, open |-> TRUE, open_until |-> Ms(now') + half_open_ms]
    ELSE [cb EXCEPT !.fail_n = @ + 1]

\* The call returns rc with the breaker as b.
Return(rc, b) ==
  /\ pc' = "idle"
  /\ cb' = b
  /\ returned' = [returned EXCEPT ![rc] = @ + 1]
  /\ fails' = IF rc \in {"PM_OK", "PM_AGAIN"} THEN 0 ELSE fails + 1
  /\ last_trip' = IF b.open /\ ~cb.open THEN Ms(now') ELSE last_trip
  /\ t0' = 0 /\ cur_us' = 0

Count(counter) == stats' = [stats EXCEPT ![counter] = @ + 1]

\* The caller calls the library d units after its last call.
Call(d) ==
  /\ pc = "idle"
  /\ MapThenSumSet(LAMBDA r : returned[r], Codes) < MaxCalls
  /\ now' = now + d
  /\ \/ /\ ~pm_breaker_allow
        /\ Count("breaker_trips")
        /\ pc' = pc /\ cb' = cb
        /\ returned' = [returned EXCEPT !["PM_AGAIN"] = @ + 1]
        /\ UNCHANGED <<t0, cur_us, fails, last_trip>>
     \/ /\ pm_breaker_allow
        /\ cb' = Closed
        /\ fails' = IF cb.open THEN 0 ELSE fails
        /\ pc' = "open"
        /\ t0' = Ms(now') /\ cur_us' = init_us
        /\ UNCHANGED <<stats, returned, last_trip>>

Goto(label) == pc' = label /\ UNCHANGED <<cb, stats, t0, cur_us, returned, fails, last_trip>>

\* open: EAGAIN and EMFILE are retried; any other error is returned as it is.
Open ==
  /\ pc = "open"
  /\ now' = now
  /\ \/ Goto("poll")
     \/ Goto("retry")
     \/ Return("PM_IOERR", cb) /\ UNCHANGED stats

\* poll: ready, interrupted, failed, or timed out.
Poll ==
  /\ pc = "poll"
  /\ \/ \E d \in 0 .. timeout_ms * MS : now' = now + d /\ (Goto("io") \/ Goto("retry"))
     \/ now' = now /\ Return("PM_IOERR", pm_breaker_record(FALSE)) /\ UNCHANGED stats
     \/ /\ now' = now + timeout_ms * MS
        /\ Count("io_timeout")
        /\ Return("PM_TIMEOUT", pm_breaker_record(FALSE))

\* read or write.  EAGAIN and EINTR are retried.  A short write sets no errno:
\* what an earlier call left there decides between the last two.
Transfer ==
  /\ pc = "io"
  /\ now' = now
  /\ \/ Count("io_ok") /\ Return("PM_OK", pm_breaker_record(TRUE))
     \/ Goto("retry")
     \/ Count("io_err") /\ Return("PM_IOERR", pm_breaker_record(FALSE))

\* Faulty: the pause is not capped.
pm_backoff_next_NoCap(v) == v * 2

\* pm_backoff_next: the pause after one of v.
pm_backoff_next(v) == IF v * 2 > max_us THEN max_us ELSE v * 2

\* Faulty: the last timeout is not counted.
Retry_Uncounted ==
  /\ pc = "retry"
  /\ \/ /\ Ms(now) - t0 >= timeout_ms
        /\ now' = now
        /\ stats' = stats
        /\ Return("PM_TIMEOUT", pm_breaker_record(FALSE))
     \/ /\ Ms(now) - t0 < timeout_ms
        /\ now' = now + cur_us
        /\ cur_us' = pm_backoff_next(cur_us)
        /\ pc' = "open"
        /\ UNCHANGED <<cb, stats, t0, returned, fails, last_trip>>

\* Faulty: no pause before the next attempt.
Retry_Spin ==
  /\ pc = "retry"
  /\ \/ /\ Ms(now) - t0 >= timeout_ms
        /\ now' = now
        /\ Count("io_timeout")
        /\ Return("PM_TIMEOUT", pm_breaker_record(FALSE))
     \/ /\ Ms(now) - t0 < timeout_ms
        /\ now' = now
        /\ cur_us' = pm_backoff_next(cur_us)
        /\ pc' = "open"
        /\ UNCHANGED <<cb, stats, t0, returned, fails, last_trip>>

Retry ==
  /\ pc = "retry"
  /\ \/ /\ Ms(now) - t0 >= timeout_ms
        /\ now' = now
        /\ Count("io_timeout")
        /\ Return("PM_TIMEOUT", pm_breaker_record(FALSE))
     \/ /\ Ms(now) - t0 < timeout_ms
        /\ now' = now + cur_us
        /\ cur_us' = pm_backoff_next(cur_us)
        /\ pc' = "open"
        /\ UNCHANGED <<cb, stats, t0, returned, fails, last_trip>>

Step == Open \/ Poll \/ Transfer \/ Retry

LibNext ==
  \/ \E d \in 0 .. half_open_ms * MS : Call(d)
  \/ Step

LibSpec == LibInit /\ [][LibNext]_libvars
FairSpec == LibSpec /\ WF_libvars(Step)

-----------------------------------------------------------------------------
(* The breaker is open only after trip_threshold calls in a row failed: no  *)
(* stale failure count survives a success or a half-open trial.             *)
OpensOnlyOnStreak == cb.open => fails >= trip_threshold

(* libpm.h, pm_cfg.breaker_fail_n: that many failures in a row open the     *)
(* circuit ("n lần lỗi liên tiếp => open circuit").                         *)
StreakOpens == pc = "idle" /\ fails >= trip_threshold => cb.open

(* Once pm_breaker_record has opened the breaker no call touches the node   *)
(* for half_open_ms, whatever the calls in between return.                  *)
RestsAfterTrip ==
  [][pc = "idle" /\ pc' # "idle" => Ms(now') >= last_trip + half_open_ms]_libvars

(* A call is over within twice its timeout and one pause: the retry loop    *)
(* tests the clock before it sleeps, so the last poll may start late, and   *)
(* the pauses double no further than backoff_max_us.  The clock is read in  *)
(* whole milliseconds: where every pause is shorter, one of those more.     *)
CallBounded ==
  pc # "idle" =>
    now < MS * (t0 + 2 * timeout_ms)
            + (IF Pause > MS THEN Pause ELSE MS)

(* g_stats agrees with what the callers saw, on every path of the loop.     *)
(* Failures of open and poll are the ones io_err does not count.            *)
StatsMatchReturns ==
  /\ stats.io_ok = returned["PM_OK"]
  /\ stats.io_timeout = returned["PM_TIMEOUT"]
  /\ stats.breaker_trips = returned["PM_AGAIN"]
  /\ stats.io_err <= returned["PM_IOERR"]

(* Every call returns, however often it is told to try again.               *)
CallReturns == pc # "idle" ~> pc = "idle"

=============================================================================
