------------------------------ MODULE PmProofs ------------------------------
(***************************************************************************)
(* The power monitor on both sides of /proc.  The kernel driver, for any   *)
(* number of CPUs, writers, writes and samples: monitoring is on when it   *)
(* should be and off when it should be, as long as writes to config do not *)
(* overlap, and a read of status ends with a whole update, whatever the    *)
(* writers do.  libpm's retry loop and circuit breaker, for every pm_cfg   *)
(* and any number of calls.                                                *)
(***************************************************************************)
EXTENDS PmDriver, LibPm, FiniteSetTheorems, TLAPS

-----------------------------------------------------------------------------
(* libpm.                                                                   *)

Labels == {"idle", "open", "poll", "io", "retry"}
Counters == {"io_ok", "io_timeout", "io_err", "breaker_trips"}

LibType ==
  /\ now \in Nat /\ t0 \in Nat /\ cur_us \in Nat /\ fails \in Nat
  /\ cb \in [fail_n : Nat, open : BOOLEAN, open_until : Nat]
  /\ stats \in [Counters -> Nat]
  /\ pc \in Labels
  /\ returned \in [Codes -> Nat]
  /\ last_trip \in Int

\* The longest pause, or a millisecond where that is longer.
Slack == IF Pause > MS THEN Pause ELSE MS

\* Why the breaker is open or closed: it counts no failure the callers did not
\* see, a call that is under way has closed it, and it closes no earlier than
\* half_open_ms after it opened.
BreakerInv ==
  /\ pc # "idle" => ~cb.open
  /\ IF cb.open THEN fails >= trip_threshold /\ cb.open_until = last_trip + half_open_ms
                ELSE cb.fail_n <= fails /\ Ms(now) >= last_trip + half_open_ms

\* How late a call is at each label: the clock was tested one pause before
\* open, and one poll more before the transfer.
ClockInv ==
  /\ cur_us <= Pause
  /\ pc \in {"open", "poll"} => now < MS * t0 + MS * timeout_ms + Slack
  /\ pc \in {"io", "retry"} => now < MS * t0 + MS * timeout_ms + MS * timeout_ms + Slack

(* The configuration after pm_init's defaults.                              *)
LEMMA CfgTypes ==
  /\ MS \in Nat /\ MS >= 1 /\ timeout_ms \in Nat
  /\ MS * timeout_ms \in Nat
  /\ trip_threshold \in Nat /\ trip_threshold >= 1
  /\ half_open_ms \in Nat /\ half_open_ms >= 1
  /\ init_us \in Nat /\ max_us \in Nat /\ Pause \in Nat /\ init_us <= Pause /\ max_us <= Pause
  /\ Slack \in Nat /\ MS <= Slack /\ Pause <= Slack
<1>1. MS \in Nat /\ MS >= 1 /\ timeout_ms \in Nat
  BY CfgAssumption
<1>2. MS * timeout_ms \in Nat
  BY <1>1
<1>3. /\ backoff_init_us \in Nat /\ backoff_max_us \in Nat
      /\ breaker_fail_n \in Nat /\ breaker_half_ms \in Nat
  BY CfgAssumption
<1>4. trip_threshold \in Nat /\ trip_threshold >= 1 /\ half_open_ms \in Nat /\ half_open_ms >= 1
  BY <1>3 DEF trip_threshold, half_open_ms
<1>5. init_us \in Nat /\ max_us \in Nat
  BY <1>3 DEF init_us, max_us
<1>6. Pause \in Nat /\ init_us <= Pause /\ max_us <= Pause
  BY <1>5 DEF Pause
<1>7. Slack \in Nat /\ MS <= Slack /\ Pause <= Slack
  BY <1>1, <1>6 DEF Slack
<1> QED BY <1>1, <1>2, <1>4, <1>5, <1>6, <1>7

(* now_ms is the clock in whole milliseconds.                               *)
LEMMA MsBounds ==
  ASSUME NEW t \in Nat
  PROVE  Ms(t) \in Nat /\ MS * Ms(t) <= t /\ t < MS * Ms(t) + MS
<1>1. MS \in Nat /\ MS >= 1
  BY CfgTypes
<1> QED BY <1>1 DEF Ms

(* The clock in milliseconds never runs backwards.                          *)
LEMMA MsMonotone ==
  ASSUME NEW t \in Nat, NEW u \in Nat, t <= u
  PROVE  Ms(t) <= Ms(u)
<1> DEFINE a == Ms(t)
           b == Ms(u)
<1>1. MS \in Nat /\ MS >= 1
  BY CfgTypes
<1>2. a \in Nat /\ b \in Nat /\ MS * a <= t /\ u < MS * b + MS
  BY MsBounds
<1> HIDE DEF a, b
<1>3. MS * a < MS * (b + 1)
  BY <1>1, <1>2
<1>4. a < b + 1
  BY <1>1, <1>2, <1>3
<1>5. a <= b
  BY <1>2, <1>4
<1> QED BY <1>5 DEF a, b

(* pm_init leaves a closed breaker and cleared counters.                    *)
LEMMA InitInv == LibInit => LibType /\ BreakerInv /\ ClockInv /\ StatsMatchReturns
<1> SUFFICES ASSUME LibInit PROVE LibType /\ BreakerInv /\ ClockInv /\ StatsMatchReturns
  OBVIOUS
<1> USE CfgTypes DEF LibInit, pm_init
<1>1. LibType
  BY DEF LibType, Labels, Counters
<1>2. BreakerInv
  BY MsBounds DEF BreakerInv
<1>3. ClockInv
  BY DEF ClockInv
<1>4. StatsMatchReturns
  BY DEF StatsMatchReturns, Codes
<1> QED BY <1>1, <1>2, <1>3, <1>4

(* A call begins, or the breaker refuses it.                                *)
LEMMA CallStep ==
  ASSUME LibType, BreakerInv, ClockInv, StatsMatchReturns,
         NEW d \in 0 .. half_open_ms * MS, Call(d)
  PROVE  LibType' /\ BreakerInv' /\ ClockInv' /\ StatsMatchReturns'
<1> USE CfgTypes
<1>0. now' = now + d /\ now' \in Nat /\ now <= now'
  BY DEF Call, LibType
<1>1. Ms(now) \in Nat /\ Ms(now') \in Nat /\ Ms(now) <= Ms(now')
  BY <1>0, MsBounds, MsMonotone DEF LibType
<1>2. CASE ~pm_breaker_allow
  <2>1. /\ pc' = pc /\ cb' = cb /\ cb.open /\ pc = "idle"
        /\ stats' = [stats EXCEPT !["breaker_trips"] = @ + 1]
        /\ returned' = [returned EXCEPT !["PM_AGAIN"] = @ + 1]
        /\ UNCHANGED <<t0, cur_us, fails, last_trip>>
    BY <1>2 DEF Call, pm_breaker_allow, Count
  <2>2. LibType'
    BY <1>0, <2>1 DEF LibType, Codes, Counters
  <2>3. BreakerInv'
    BY <2>1 DEF BreakerInv
  <2>4. ClockInv'
    BY <2>1 DEF ClockInv
  <2>5. StatsMatchReturns'
    BY <2>1 DEF StatsMatchReturns, LibType, Codes, Counters
  <2> QED BY <2>2, <2>3, <2>4, <2>5
<1>3. CASE pm_breaker_allow
  <2>1. /\ pc = "idle" /\ cb' = Closed /\ pc' = "open"
        /\ fails' = IF cb.open THEN 0 ELSE fails
        /\ t0' = Ms(now') /\ cur_us' = init_us
        /\ UNCHANGED <<stats, returned, last_trip>>
    BY <1>3 DEF Call
  <2>2. cb' \in [fail_n : Nat, open : BOOLEAN, open_until : Nat] /\ ~cb'.open
        /\ cb'.fail_n = IF cb.open THEN 0 ELSE cb.fail_n
    BY <2>1, Zenon DEF Closed, LibType
  <2>3. LibType'
    BY <1>0, <1>1, <2>1, <2>2 DEF LibType, Labels
  <2>4. Ms(now') >= last_trip + half_open_ms
    BY <1>1, <1>3 DEF pm_breaker_allow, BreakerInv, LibType
  <2>5. BreakerInv'
    BY <2>1, <2>2, <2>4 DEF BreakerInv, LibType
  <2>6. now' < MS * t0' + MS
    BY <1>0, <2>1, MsBounds
  <2>7. ClockInv'
    BY <1>0, <1>1, <2>1, <2>6 DEF ClockInv
  <2>8. StatsMatchReturns'
    BY <2>1 DEF StatsMatchReturns
  <2> QED BY <2>3, <2>5, <2>7, <2>8
<1> QED BY <1>2, <1>3

(* A call that goes on leaves the breaker and the counters alone.           *)
LEMMA GoOn ==
  ASSUME LibType, BreakerInv, StatsMatchReturns, pc # "idle",
         now' \in Nat, now <= now',
         pc' \in Labels, cur_us' \in Nat,
         UNCHANGED <<cb, stats, t0, returned, fails, last_trip>>
  PROVE  LibType' /\ BreakerInv' /\ StatsMatchReturns'
<1>1. Ms(now) \in Nat /\ Ms(now') \in Nat /\ Ms(now) <= Ms(now')
  BY MsBounds, MsMonotone DEF LibType
<1>2. LibType'
  BY DEF LibType
<1>3. BreakerInv'
  BY <1>1, CfgTypes DEF BreakerInv, LibType
<1>4. StatsMatchReturns'
  BY DEF StatsMatchReturns
<1> QED BY <1>2, <1>3, <1>4

(* A call that returns: pm_breaker_record opens the breaker only if the     *)
(* failures it has counted, all of which the callers saw, reach the         *)
(* threshold; open's own error path leaves it as it is.                     *)
LEMMA ReturnStep ==
  ASSUME LibType, BreakerInv, pc # "idle",
         now' \in Nat, now <= now',
         \/ Return("PM_OK", pm_breaker_record(TRUE))
         \/ Return("PM_TIMEOUT", pm_breaker_record(FALSE))
         \/ Return("PM_IOERR", pm_breaker_record(FALSE))
         \/ Return("PM_IOERR", cb),
         stats' \in [Counters -> Nat]
  PROVE  LibType' /\ BreakerInv' /\ ClockInv'
<1> USE CfgTypes
<1>1. Ms(now) \in Nat /\ Ms(now') \in Nat /\ Ms(now) <= Ms(now')
  BY MsBounds, MsMonotone DEF LibType
<1>2. pc' = "idle" /\ t0' = 0 /\ cur_us' = 0 /\ ~cb.open
  BY Zenon DEF Return, BreakerInv
<1>3. ClockInv'
  BY <1>2 DEF ClockInv
<1>4. returned' \in [Codes -> Nat]
  <2>1. \A c \in Codes : [returned EXCEPT ![c] = @ + 1] \in [Codes -> Nat]
    BY DEF LibType
  <2>2. PICK c \in Codes : returned' = [returned EXCEPT ![c] = @ + 1]
    <3>1. CASE Return("PM_OK", pm_breaker_record(TRUE))
      BY <3>1 DEF Return, Codes
    <3>2. CASE Return("PM_TIMEOUT", pm_breaker_record(FALSE))
      BY <3>2 DEF Return, Codes
    <3>3. CASE Return("PM_IOERR", pm_breaker_record(FALSE))
      BY <3>3 DEF Return, Codes
    <3>4. CASE Return("PM_IOERR", cb)
      BY <3>4 DEF Return, Codes
    <3> QED BY <3>1, <3>2, <3>3, <3>4, Zenon
  <2> QED BY <2>1, <2>2
<1>5. CASE Return("PM_OK", pm_breaker_record(TRUE))
  <2>1. cb' = [cb EXCEPT !.fail_n = 0] /\ fails' = 0
    BY <1>5 DEF Return, pm_breaker_record
  <2>2. cb' \in [fail_n : Nat, open : BOOLEAN, open_until : Nat] /\ ~cb'.open /\ cb'.fail_n = 0
    BY <1>2, <2>1 DEF LibType
  <2>3. last_trip' = last_trip
    BY <1>5, <2>1, <2>2 DEF Return
  <2>4. LibType'
    BY <1>2, <1>4, <2>1, <2>2, <2>3 DEF LibType, Labels
  <2>5. BreakerInv'
    BY <1>1, <1>2, <2>1, <2>2, <2>3 DEF BreakerInv, LibType
  <2> QED BY <1>3, <2>4, <2>5
<1>6. CASE \/ Return("PM_TIMEOUT", pm_breaker_record(FALSE))
           \/ Return("PM_IOERR", pm_breaker_record(FALSE))
  <2>0. fails' = fails + 1
    BY <1>6, Zenon DEF Return
  <2>1. /\ cb' = pm_breaker_record(FALSE)
        /\ last_trip' = IF cb'.open /\ ~cb.open THEN Ms(now') ELSE last_trip
    BY <1>6, Zenon DEF Return
  <2>2. CASE cb.fail_n + 1 >= trip_threshold
    <3>1. cb' = [fail_n |-> 0, open |-> TRUE, open_until |-> Ms(now') + half_open_ms]
      BY <2>1, <2>2 DEF pm_breaker_record
    <3>2. /\ cb' \in [fail_n : Nat, open : BOOLEAN, open_until : Nat]
          /\ cb'.open /\ cb'.open_until = Ms(now') + half_open_ms
      BY <1>1, <3>1
    <3>3. last_trip' = Ms(now')
      BY <1>2, <2>1, <3>2
    <3>4. fails' >= trip_threshold
      BY <1>2, <2>0, <2>2 DEF BreakerInv, LibType
    <3>5. LibType'
      BY <1>1, <1>2, <1>4, <2>0, <3>2, <3>3 DEF LibType, Labels
    <3>6. BreakerInv'
      BY <1>2, <3>2, <3>3, <3>4 DEF BreakerInv
    <3> QED BY <1>3, <3>5, <3>6
  <2>3. CASE ~(cb.fail_n + 1 >= trip_threshold)
    <3>1. cb' = [cb EXCEPT !.fail_n = @ + 1]
      BY <2>1, <2>3 DEF pm_breaker_record
    <3>2. /\ cb' \in [fail_n : Nat, open : BOOLEAN, open_until : Nat]
          /\ ~cb'.open /\ cb'.fail_n = cb.fail_n + 1
      BY <1>2, <3>1 DEF LibType
    <3>3. last_trip' = last_trip
      BY <2>1, <3>2
    <3>4. LibType'
      BY <1>2, <1>4, <2>0, <3>2, <3>3 DEF LibType, Labels
    <3>5. BreakerInv'
      BY <1>1, <1>2, <2>0, <3>2, <3>3 DEF BreakerInv, LibType
    <3> QED BY <1>3, <3>4, <3>5
  <2> QED BY <2>2, <2>3
<1>7. CASE Return("PM_IOERR", cb)
  <2>1. cb' = cb /\ fails' = fails + 1 /\ last_trip' = last_trip
    BY <1>7 DEF Return
  <2>2. LibType'
    BY <1>2, <1>4, <2>1 DEF LibType, Labels
  <2>3. BreakerInv'
    BY <1>1, <1>2, <2>1 DEF BreakerInv, LibType
  <2> QED BY <1>3, <2>2, <2>3
<1> QED BY <1>5, <1>6, <1>7, Zenon

(* Every step of the retry loop.                                            *)
LEMMA LoopStep ==
  ASSUME LibType, BreakerInv, ClockInv, StatsMatchReturns, Step
  PROVE  LibType' /\ BreakerInv' /\ ClockInv' /\ StatsMatchReturns'
<1> USE CfgTypes
<1>0. now \in Nat /\ t0 \in Nat /\ cur_us \in Nat /\ MS * t0 \in Nat
  BY DEF LibType
<1>1. CASE Open
  <2>1. pc = "open" /\ now' = now
    BY <1>1 DEF Open
  <2>2. CASE Goto("poll") \/ Goto("retry")
    <3>1. /\ pc' \in {"poll", "retry"}
          /\ UNCHANGED <<cb, stats, t0, cur_us, returned, fails, last_trip>>
      BY <2>2 DEF Goto
    <3>2. ClockInv'
      BY <1>0, <2>1, <3>1 DEF ClockInv
    <3> QED BY <1>0, <2>1, <3>1, <3>2, GoOn DEF Labels
  <2>3. CASE Return("PM_IOERR", cb) /\ UNCHANGED stats
    <3>1. LibType' /\ BreakerInv' /\ ClockInv'
      BY <1>0, <2>1, <2>3, ReturnStep DEF LibType
    <3>2. StatsMatchReturns'
      BY <2>3 DEF Return, StatsMatchReturns, LibType, Codes, Counters
    <3> QED BY <3>1, <3>2
  <2> QED BY <1>1, <2>2, <2>3 DEF Open
<1>2. CASE Poll
  <2>1. pc = "poll"
    BY <1>2 DEF Poll
  <2>2. ASSUME NEW d \in 0 .. timeout_ms * MS, now' = now + d, Goto("io") \/ Goto("retry")
        PROVE  LibType' /\ BreakerInv' /\ ClockInv' /\ StatsMatchReturns'
    <3>1. /\ pc' \in {"io", "retry"}
          /\ UNCHANGED <<cb, stats, t0, cur_us, returned, fails, last_trip>>
      BY <2>2 DEF Goto
    <3>2. d \in Nat /\ d <= MS * timeout_ms
      BY <2>2
    <3>3. ClockInv'
      BY <1>0, <2>1, <2>2, <3>1, <3>2 DEF ClockInv
    <3> QED BY <1>0, <2>1, <2>2, <3>1, <3>2, <3>3, GoOn DEF Labels
  <2>3. CASE now' = now /\ Return("PM_IOERR", pm_breaker_record(FALSE)) /\ UNCHANGED stats
    <3>1. LibType' /\ BreakerInv' /\ ClockInv'
      BY <1>0, <2>1, <2>3, ReturnStep DEF LibType
    <3>2. StatsMatchReturns'
      BY <2>3 DEF Return, StatsMatchReturns, LibType, Codes, Counters
    <3> QED BY <3>1, <3>2
  <2>4. CASE /\ now' = now + timeout_ms * MS
             /\ Count("io_timeout")
             /\ Return("PM_TIMEOUT", pm_breaker_record(FALSE))
    <3>0. now' \in Nat /\ now <= now'
      BY <1>0, <2>4
    <3>1. stats' \in [Counters -> Nat]
      BY <2>4 DEF Count, LibType, Counters
    <3>2. LibType' /\ BreakerInv' /\ ClockInv'
      BY <2>1, <2>4, <3>0, <3>1, ReturnStep
    <3>3. StatsMatchReturns'
      BY <2>4 DEF Count, Return, StatsMatchReturns, LibType, Codes, Counters
    <3> QED BY <3>2, <3>3
  <2> QED BY <1>2, <2>2, <2>3, <2>4, Zenon DEF Poll
<1>3. CASE Transfer
  <2>1. pc = "io" /\ now' = now
    BY <1>3 DEF Transfer
  <2>2. CASE Goto("retry")
    <3>1. pc' = "retry" /\ UNCHANGED <<cb, stats, t0, cur_us, returned, fails, last_trip>>
      BY <2>2 DEF Goto
    <3>2. ClockInv'
      BY <1>0, <2>1, <3>1 DEF ClockInv
    <3> QED BY <1>0, <2>1, <3>1, <3>2, GoOn DEF Labels
  <2>3. CASE Count("io_ok") /\ Return("PM_OK", pm_breaker_record(TRUE))
    <3>1. stats' \in [Counters -> Nat]
      BY <2>3 DEF Count, LibType, Counters
    <3>2. LibType' /\ BreakerInv' /\ ClockInv'
      BY <1>0, <2>1, <2>3, <3>1, ReturnStep
    <3>3. StatsMatchReturns'
      BY <2>3 DEF Count, Return, StatsMatchReturns, LibType, Codes, Counters
    <3> QED BY <3>2, <3>3
  <2>4. CASE Count("io_err") /\ Return("PM_IOERR", pm_breaker_record(FALSE))
    <3>1. stats' \in [Counters -> Nat]
      BY <2>4 DEF Count, LibType, Counters
    <3>2. LibType' /\ BreakerInv' /\ ClockInv'
      BY <1>0, <2>1, <2>4, <3>1, ReturnStep
    <3>3. StatsMatchReturns'
      BY <2>4 DEF Count, Return, StatsMatchReturns, LibType, Codes, Counters
    <3> QED BY <3>2, <3>3
  <2> QED BY <1>3, <2>2, <2>3, <2>4, Zenon DEF Transfer
<1>4. CASE Retry
  <2>1. pc = "retry"
    BY <1>4 DEF Retry
  <2>2. CASE /\ now' = now
             /\ Count("io_timeout")
             /\ Return("PM_TIMEOUT", pm_breaker_record(FALSE))
    <3>1. stats' \in [Counters -> Nat]
      BY <2>2 DEF Count, LibType, Counters
    <3>2. LibType' /\ BreakerInv' /\ ClockInv'
      BY <1>0, <2>1, <2>2, <3>1, ReturnStep
    <3>3. StatsMatchReturns'
      BY <2>2 DEF Count, Return, StatsMatchReturns, LibType, Codes, Counters
    <3> QED BY <3>2, <3>3
  <2>3. CASE /\ Ms(now) - t0 < timeout_ms
             /\ now' = now + cur_us
             /\ cur_us' = pm_backoff_next(cur_us)
             /\ pc' = "open"
             /\ UNCHANGED <<cb, stats, t0, returned, fails, last_trip>>
    <3>1. Ms(now) \in Nat /\ now < MS * Ms(now) + MS
      BY <1>0, MsBounds
    <3>2. Ms(now) + 1 <= t0 + timeout_ms
      BY <1>0, <2>3, <3>1
    <3>3. MS * (Ms(now) + 1) <= MS * (t0 + timeout_ms)
      BY <1>0, <3>1, <3>2
    <3>4. now < MS * t0 + MS * timeout_ms
      BY <1>0, <3>1, <3>3
    <3>5. cur_us' \in Nat /\ cur_us' <= Pause
      BY <1>0, <2>3 DEF pm_backoff_next
    <3>6. ClockInv'
      BY <1>0, <2>3, <3>4, <3>5 DEF ClockInv
    <3> QED BY <1>0, <2>1, <2>3, <3>5, <3>6, GoOn DEF Labels
  <2> QED BY <1>4, <2>2, <2>3, Zenon DEF Retry
<1> QED BY <1>1, <1>2, <1>3, <1>4 DEF Step

LibInv == LibType /\ BreakerInv /\ ClockInv /\ StatsMatchReturns

(* The invariant is inductive.                                              *)
LEMMA LibStep == LibInv /\ [LibNext]_libvars => LibInv'
<1> SUFFICES ASSUME LibInv, [LibNext]_libvars PROVE LibInv'
  OBVIOUS
<1>1. CASE UNCHANGED libvars
  BY <1>1 DEF libvars, LibInv, LibType, BreakerInv, ClockInv, StatsMatchReturns
<1>2. CASE LibNext
  BY <1>2, CallStep, LoopStep DEF LibNext, LibInv
<1> QED BY <1>1, <1>2

\* The invariant of a call and of the breaker, always.
LEMMA LibAlways == LibSpec => []LibInv
<1>1. LibInit => LibInv
  BY InitInv DEF LibInv
<1> QED BY <1>1, LibStep, PTL DEF LibSpec

(* The circuit breaker is open only after trip_threshold calls in a row     *)
(* failed, for every configuration: no count survives a success or a trial. *)
THEOREM BreakerOnStreak == LibSpec => []OpensOnlyOnStreak
<1>1. LibInv => OpensOnlyOnStreak
  BY DEF LibInv, BreakerInv, OpensOnlyOnStreak
<1> QED BY <1>1, LibAlways, PTL

(* A call of the library is over within twice its timeout and one pause     *)
(* (or one millisecond of the clock), however often it is retried and       *)
(* however the backoff is configured.                                       *)
THEOREM CallsBounded == LibSpec => []CallBounded
<1>1. LibInv => CallBounded
  <2> SUFFICES ASSUME LibInv, pc # "idle"
               PROVE  now < MS * (t0 + 2 * timeout_ms) + Slack
    BY DEF CallBounded, Slack
  <2>1. now \in Nat /\ t0 \in Nat /\ MS \in Nat /\ timeout_ms \in Nat /\ Slack \in Nat
    BY CfgTypes DEF LibInv, LibType
  <2>2. now < MS * t0 + MS * timeout_ms + MS * timeout_ms + Slack
    BY <2>1, CfgTypes DEF LibInv, LibType, Labels, ClockInv
  <2>3. MS * (t0 + 2 * timeout_ms) = MS * t0 + MS * timeout_ms + MS * timeout_ms
    BY <2>1
  <2> QED BY <2>2, <2>3
<1> QED BY <1>1, LibAlways, PTL

(* The counters of g_stats agree with what the callers saw, on every path.  *)
THEOREM StatsAgree == LibSpec => []StatsMatchReturns
<1>1. LibInv => StatsMatchReturns
  BY DEF LibInv
<1> QED BY <1>1, LibAlways, PTL

(* No call goes past an open breaker before half_open_ms have passed since  *)
(* it opened, whatever was called in between.                               *)
THEOREM RestKept == LibSpec => RestsAfterTrip
<1>1. LibInv /\ [LibNext]_libvars =>
        [pc = "idle" /\ pc' # "idle" => Ms(now') >= last_trip + half_open_ms]_libvars
  <2> SUFFICES ASSUME LibInv, LibNext, pc = "idle", pc' # "idle"
               PROVE  Ms(now') >= last_trip + half_open_ms
    OBVIOUS
  <2>1. PICK d \in 0 .. half_open_ms * MS : Call(d)
    BY DEF LibNext, Step, Open, Poll, Transfer, Retry
  <2>2. now' = now + d /\ pm_breaker_allow
    BY <2>1 DEF Call
  <2>3. Ms(now) \in Nat /\ Ms(now') \in Nat /\ Ms(now) <= Ms(now')
    BY <2>2, MsBounds, MsMonotone, CfgTypes DEF LibInv, LibType
  <2> QED BY <2>2, <2>3, CfgTypes DEF LibInv, LibType, BreakerInv, pm_breaker_allow
<1> QED BY <1>1, LibAlways, PTL DEF LibSpec, RestsAfterTrip

-----------------------------------------------------------------------------
(* The driver's switch.                                                     *)

\* The types of the switch: the module, the work item and the writers.
SwitchType ==
  /\ module \in {"no", "live", "failed", "exiting", "removing", "unloaded"}
  /\ pm_enabled \in BOOLEAN /\ pending \in BOOLEAN
  /\ tick \in {"idle", "test", "update", "again"}
  /\ wpc \in [Writers -> {"idle", "schedule", "cancel", "wait"}]
  /\ writes \in Nat

\* What each moment of loading, writing and unloading knows of the work item.
SwitchInv ==
  /\ module # "live" => Busy = {}
  /\ \A v, w \in Busy : v = w
  /\ module \in {"no", "failed"} => ~pm_enabled
  /\ module = "live" /\ Busy = {} => cancelling = {} /\ (Active <=> pm_enabled)
  /\ module # "live" /\ ~pm_enabled => ~Active
  /\ module = "exiting" => cancelling = {Exit} /\ ~pending
  /\ module \in {"removing", "unloaded"} => ~Active
  /\ module \in {"no", "failed"} => cancelling = {}
  /\ module = "unloaded" => entries = {}
  /\ \A w \in Writers :
       /\ wpc[w] = "schedule" => pm_enabled /\ cancelling = {}
       /\ wpc[w] = "cancel" => ~pm_enabled /\ cancelling = {}
       /\ wpc[w] = "wait" => ~pm_enabled /\ ~pending /\ cancelling = {w}

(* A writer that changes its place in cfg_write joins or leaves the writers *)
(* that are inside it.                                                      *)
LEMMA BusyStep ==
  ASSUME SwitchType, NEW w \in Writers,
         NEW s \in {"idle", "schedule", "cancel", "wait"}, wpc' = [wpc EXCEPT ![w] = s]
  PROVE  /\ wpc' \in [Writers -> {"idle", "schedule", "cancel", "wait"}]
         /\ wpc'[w] = s /\ \A v \in Writers \ {w} : wpc'[v] = wpc[v]
         /\ Busy' = IF s = "idle" THEN Busy \ {w} ELSE Busy \cup {w}
<1>1. /\ wpc' \in [Writers -> {"idle", "schedule", "cancel", "wait"}]
      /\ wpc'[w] = s /\ \A v \in Writers \ {w} : wpc'[v] = wpc[v]
  BY DEF SwitchType
<1>2. CASE s = "idle"
  BY <1>1, <1>2 DEF Busy
<1>3. CASE s # "idle"
  BY <1>1, <1>3 DEF Busy
<1> QED BY <1>1, <1>2, <1>3

(* pm_tick queues itself again exactly when nobody has cancelled it.        *)
LEMMA TickStep ==
  ASSUME SwitchType, SwitchInv, RunWork \/ pm_tick
  PROVE  SwitchType' /\ SwitchInv'
<1>1. /\ module' = module /\ entries' = entries /\ pm_enabled' = pm_enabled
      /\ cancelling' = cancelling /\ wpc' = wpc /\ writes' = writes
  <2>1. CASE RunWork
    BY <2>1 DEF RunWork, dvars, wvars
  <2>2. CASE Test
    BY <2>2 DEF Test, dvars, wvars
  <2>3. CASE Update
    BY <2>3 DEF Update, dvars, wvars
  <2>4. CASE Again
    BY <2>4 DEF Again, dvars, wvars
  <2> QED BY <2>1, <2>2, <2>3, <2>4 DEF pm_tick
<1>2. Busy' = Busy
  BY <1>1 DEF Busy
<1>3. CASE RunWork
  <2>1. pending /\ tick = "idle" /\ pending' = FALSE /\ tick' = "test"
    BY <1>3 DEF RunWork
  <2> QED BY <1>1, <1>2, <2>1, Zenon DEF SwitchType, SwitchInv, Active
<1>4. CASE Test
  BY <1>1, <1>2, <1>4 DEF Test, SwitchType, SwitchInv, Active
<1>5. CASE Update
  <2>1. tick = "update" /\ tick' \in {"update", "again"} /\ pending' = pending
    BY <1>5 DEF Update
  <2> QED BY <1>1, <1>2, <2>1 DEF SwitchType, SwitchInv, Active
<1>6. CASE Again
  <2>1. tick = "again" /\ tick' = "idle" /\ pending' = (pending \/ cancelling = {})
    BY <1>6 DEF Again, schedule_delayed_work
  <2> QED BY <1>1, <1>2, <2>1 DEF SwitchType, SwitchInv, Active
<1> QED BY <1>3, <1>4, <1>5, <1>6 DEF pm_tick

(* cfg_write, one writer at a time.                                         *)
LEMMA WriteStep ==
  ASSUME SwitchType, SwitchInv, NEW w \in Writers, cfg_write(w),
         writes' > writes => Busy = {} /\ module = "live"
  PROVE  SwitchType' /\ SwitchInv'
<1>0. module' = module /\ entries' = entries /\ tick' = tick
  BY DEF cfg_write, WriteOne, Schedule, WriteZero, Cancel, CancelBegin, CancelEnd, dvars
<1>1. CASE WriteOne(w)
  <2>1. /\ wpc[w] = "idle" /\ writes' = writes + 1 /\ pm_enabled' = TRUE
        /\ wpc' = [wpc EXCEPT ![w] = IF pm_enabled THEN "idle" ELSE "schedule"]
        /\ pending' = pending /\ cancelling' = cancelling
    BY <1>1 DEF WriteOne
  <2>2. Busy = {} /\ module = "live" /\ writes' \in Nat
    BY <2>1 DEF SwitchType
  <2>3. CASE pm_enabled
    <3>1. wpc' = [wpc EXCEPT ![w] = "idle"]
      BY <2>1, <2>3
    <3>2. wpc' = wpc
      BY <2>1, <3>1 DEF SwitchType
    <3>3. Busy' = Busy
      BY <3>2 DEF Busy
    <3> QED BY <1>0, <2>1, <2>2, <2>3, <3>2, <3>3 DEF SwitchType, SwitchInv, Active
  <2>4. CASE ~pm_enabled
    <3>1. wpc' = [wpc EXCEPT ![w] = "schedule"]
      BY <2>1, <2>4
    <3>2. /\ wpc' \in [Writers -> {"idle", "schedule", "cancel", "wait"}]
          /\ wpc'[w] = "schedule" /\ Busy' = {w}
          /\ \A v \in Writers \ {w} : wpc'[v] = "idle"
      BY <2>2, <3>1, BusyStep, Zenon DEF Busy
    <3>3. cancelling = {}
      BY <2>2 DEF SwitchInv
    <3> QED BY <1>0, <2>1, <2>2, <3>2, <3>3 DEF SwitchType, SwitchInv, Active
  <2> QED BY <2>3, <2>4
<1>2. CASE Schedule(w)
  <2>1. /\ wpc[w] = "schedule" /\ wpc' = [wpc EXCEPT ![w] = "idle"]
        /\ pending' = (pending \/ cancelling = {})
        /\ pm_enabled' = pm_enabled /\ cancelling' = cancelling /\ writes' = writes
    BY <1>2 DEF Schedule, schedule_delayed_work
  <2>2. pm_enabled /\ cancelling = {} /\ Busy = {w} /\ module = "live"
    BY <2>1 DEF SwitchInv, Busy
  <2>3. /\ wpc' \in [Writers -> {"idle", "schedule", "cancel", "wait"}]
        /\ Busy' = {} /\ \A v \in Writers : wpc'[v] = "idle"
    BY <2>1, <2>2, BusyStep, Zenon DEF Busy
  <2> QED BY <1>0, <2>1, <2>2, <2>3, Zenon DEF SwitchType, SwitchInv, Active
<1>3. CASE WriteZero(w)
  <2>1. /\ wpc[w] = "idle" /\ writes' = writes + 1 /\ pm_enabled' = FALSE
        /\ wpc' = [wpc EXCEPT ![w] = "cancel"]
        /\ pending' = pending /\ cancelling' = cancelling
    BY <1>3 DEF WriteZero
  <2>2. Busy = {} /\ module = "live" /\ writes' \in Nat
    BY <2>1 DEF SwitchType
  <2>3. /\ wpc' \in [Writers -> {"idle", "schedule", "cancel", "wait"}]
        /\ wpc'[w] = "cancel" /\ Busy' = {w}
        /\ \A v \in Writers \ {w} : wpc'[v] = "idle"
    BY <2>1, <2>2, BusyStep, Zenon DEF Busy
  <2>4. cancelling = {}
    BY <2>2 DEF SwitchInv
  <2> QED BY <1>0, <2>1, <2>2, <2>3, <2>4, Zenon DEF SwitchType, SwitchInv, Active
<1>4. CASE wpc[w] = "cancel" /\ CancelBegin(w) /\ wpc' = [wpc EXCEPT ![w] = "wait"] /\ writes' = writes
  <2>1. pending' = FALSE /\ cancelling' = {w} /\ pm_enabled' = pm_enabled
    BY <1>4 DEF CancelBegin
  <2>2. ~pm_enabled /\ Busy = {w} /\ module = "live"
    BY <1>4 DEF SwitchInv, Busy
  <2>3. /\ wpc' \in [Writers -> {"idle", "schedule", "cancel", "wait"}]
        /\ wpc'[w] = "wait" /\ Busy' = {w}
        /\ \A v \in Writers \ {w} : wpc'[v] = "idle"
    BY <1>4, <2>2, BusyStep, Zenon DEF Busy
  <2> QED BY <1>0, <1>4, <2>1, <2>2, <2>3, Zenon DEF SwitchType, SwitchInv, Active
<1>5. CASE wpc[w] = "wait" /\ CancelEnd(w) /\ wpc' = [wpc EXCEPT ![w] = "idle"] /\ writes' = writes
  <2>1. cancelling' = {} /\ tick = "idle" /\ pm_enabled' = pm_enabled /\ pending' = pending
    BY <1>5 DEF CancelEnd
  <2>2. ~pm_enabled /\ ~pending /\ Busy = {w} /\ module = "live"
    BY <1>5 DEF SwitchInv, Busy
  <2>3. /\ wpc' \in [Writers -> {"idle", "schedule", "cancel", "wait"}]
        /\ Busy' = {} /\ \A v \in Writers : wpc'[v] = "idle"
    BY <1>5, <2>2, BusyStep, Zenon DEF Busy
  <2> QED BY <1>0, <1>5, <2>1, <2>2, <2>3 DEF SwitchType, SwitchInv, Active
<1> QED BY <1>1, <1>2, <1>3, <1>4, <1>5 DEF cfg_write, Cancel

(* Loading starts nothing; unloading cancels the work and waits for it.     *)
LEMMA LoadStep ==
  ASSUME SwitchType, SwitchInv, mydrv_init \/ mydrv_exit,
         module' = "exiting" => Busy = {}
  PROVE  SwitchType' /\ SwitchInv'
<1>0. wpc' = wpc /\ writes' = writes /\ pm_enabled' = pm_enabled /\ tick' = tick
  BY DEF mydrv_init, mydrv_exit, CancelBegin, CancelEnd, kvars, wvars
<1>1. Busy' = Busy
  BY <1>0 DEF Busy
<1>2. CASE mydrv_init
  <2>1. /\ module = "no" /\ module' \in {"live", "failed"}
        /\ pending' = pending /\ cancelling' = cancelling
    BY <1>2 DEF mydrv_init, kvars
  <2> QED BY <1>0, <1>1, <2>1 DEF SwitchType, SwitchInv, Active
<1>3. CASE module = "live" /\ CancelBegin(Exit) /\ module' = "exiting" /\ entries' = entries
  <2>1. pending' = FALSE /\ cancelling' = {Exit} /\ Busy = {}
    BY <1>3 DEF CancelBegin
  <2>2. \A w \in Writers : wpc[w] = "idle"
    BY <2>1 DEF Busy
  <2> QED BY <1>0, <1>1, <1>3, <2>1, <2>2, Zenon DEF SwitchType, SwitchInv, Active
<1>4. CASE module = "exiting" /\ CancelEnd(Exit) /\ module' = "removing" /\ entries' = entries
  <2>1. cancelling' = {} /\ pending' = pending /\ tick = "idle" /\ Busy = {}
    BY <1>4 DEF CancelEnd, SwitchInv
  <2>2. \A w \in Writers : wpc[w] = "idle"
    BY <2>1 DEF Busy
  <2> QED BY <1>0, <1>1, <1>4, <2>1, <2>2 DEF SwitchType, SwitchInv, Active
<1>5. CASE /\ module = "removing" /\ module' = "unloaded" /\ entries' = {}
           /\ pending' = pending /\ cancelling' = cancelling
  BY <1>0, <1>1, <1>5 DEF SwitchType, SwitchInv, Active
<1> QED BY <1>2, <1>3, <1>4, <1>5 DEF mydrv_exit, kvars

(* The invariant of the switch is inductive when writes do not overlap.     *)
LEMMA SwitchStep == SwitchType /\ SwitchInv /\ [SerialNext]_vars => SwitchType' /\ SwitchInv'
<1> SUFFICES ASSUME SwitchType, SwitchInv, [SerialNext]_vars PROVE SwitchType' /\ SwitchInv'
  OBVIOUS
<1>1. CASE UNCHANGED vars \/ stat_show
  <2>1. UNCHANGED <<dvars, kvars, wvars>>
    BY <1>1 DEF vars, stat_show, ReadBegin, ReadCpu, ReadRetry
  <2> QED BY <2>1 DEF dvars, kvars, wvars, SwitchType, SwitchInv, Busy, Active
<1>2. CASE SerialNext
  <2>1. /\ Next
        /\ writes' > writes => Busy = {} /\ module = "live"
        /\ module' = "exiting" => Busy = {}
    BY <1>2 DEF SerialNext
  <2>2. CASE RunWork \/ pm_tick
    BY <2>2, TickStep
  <2>3. ASSUME NEW w \in Writers, cfg_write(w) PROVE SwitchType' /\ SwitchInv'
    BY <2>1, <2>3, WriteStep
  <2>4. CASE mydrv_init \/ mydrv_exit
    BY <2>1, <2>4, LoadStep
  <2> QED BY <1>1, <2>1, <2>2, <2>3, <2>4 DEF Next
<1> QED BY <1>1, <1>2

\* The types and the switch of the driver, always.
LEMMA SwitchAlways == SerialSpec => [](SwitchType /\ SwitchInv)
<1>1. Init => SwitchType /\ SwitchInv
  <2> SUFFICES ASSUME Init PROVE SwitchType /\ SwitchInv
    OBVIOUS
  <2>1. SwitchType /\ \A w \in Writers : wpc[w] = "idle"
    BY Zenon DEF Init, SwitchType
  <2>2. Busy = {}
    BY <2>1 DEF Busy
  <2> QED BY <2>1, <2>2 DEF Init, SwitchInv, Active
<1> QED BY <1>1, SwitchStep, PTL DEF SerialSpec

(* Enabled means sampling, once the write has returned and until the next.  *)
THEOREM SamplesWhenEnabled == SerialSpec => []EnabledSamples
<1>1. SwitchType /\ SwitchInv => EnabledSamples
  BY DEF SwitchInv, EnabledSamples
<1> QED BY <1>1, SwitchAlways, PTL

(* Disabled means neither queued nor running, although pm_tick queues       *)
(* itself.                                                                  *)
THEOREM QuietWhenDisabled == SerialSpec => []DisabledQuiet
<1>1. SwitchType /\ SwitchInv => DisabledQuiet
  BY DEF SwitchType, SwitchInv, DisabledQuiet
<1> QED BY <1>1, SwitchAlways, PTL

(* After mydrv_exit nothing of the module is queued, running or reachable.  *)
THEOREM QuietWhenUnloaded == SerialSpec => []UnloadedQuiet
<1>1. SwitchType /\ SwitchInv => UnloadedQuiet
  BY DEF SwitchInv, UnloadedQuiet
<1> QED BY <1>1, SwitchAlways, PTL

-----------------------------------------------------------------------------
(* The seqlock.                                                             *)

Line(c) == [cpu |-> c, sample |-> snap[c]]

SampleType ==
  /\ tick \in {"idle", "test", "update", "again"}
  /\ pm_seq \in Nat /\ ticks \in Nat /\ snap \in [Cpus -> Nat]
  /\ rpc \in {"idle", "read", "retry", "again", "done"} /\ rseq \in Nat
  /\ lines \in Seq([cpu : Cpus, sample : Nat])

\* The sampler: the sequence is odd during an update; then the first k CPUs
\* have the new sample and the others the old one, else all have the same.
SampleInv ==
  /\ tick = "update" <=> pm_seq % 2 = 1
  /\ tick = "update" =>
       \E k \in 0 .. NCpu - 1, old \in Nat :
         old # ticks /\ \A c \in Cpus : snap[c] = IF c <= k THEN ticks ELSE old
  /\ tick # "update" =>
       \E old \in Nat : /\ old <= ticks /\ (tick = "test" => old < ticks)
                        /\ \A c \in Cpus : snap[c] = old

\* The reader: as long as the sequence is the one it began with, the lines of
\* its pass are the samples the CPUs have.
ReadInv ==
  /\ rpc = "idle" => lines = <<>>
  /\ rpc \in {"again", "retry"} => Len(lines) % NCpu = 0
  /\ rpc \in {"read", "retry"} => rseq % 2 = 0 /\ rseq <= pm_seq
  /\ rpc = "read" /\ pm_seq = rseq =>
       \A c \in 1 .. Len(lines) % NCpu : lines[Len(lines) - (Len(lines) % NCpu) + c] = Line(c)
  /\ rpc = "retry" => Len(lines) >= NCpu
  /\ rpc = "retry" /\ pm_seq = rseq =>
       \A c \in Cpus : lines[Len(lines) - NCpu + c] = Line(c)
  /\ LastPassWhole

(* Counting modulo the number of CPUs.                                      *)
LEMMA ModStep ==
  ASSUME NEW n \in Nat
  PROVE  /\ n % NCpu \in 0 .. NCpu - 1 /\ n % NCpu <= n
         /\ (n + 1) % NCpu = IF (n % NCpu) + 1 = NCpu THEN 0 ELSE (n % NCpu) + 1
         /\ 0 % NCpu = 0
<1> DEFINE k == n % NCpu
           m == n \div NCpu
<1>1. NCpu \in Nat /\ NCpu >= 1
  BY DriverAssumption
<1>2. k \in 0 .. NCpu - 1 /\ m \in Nat /\ n = NCpu * m + k
  BY <1>1
<1>3. k <= n
  BY <1>1, <1>2
<1>4. (n + 1) % NCpu = IF k + 1 = NCpu THEN 0 ELSE k + 1
  <2>1. \A q \in Nat, r \in 0 .. NCpu - 1 : (NCpu * q + r) % NCpu = r
    BY <1>1
  <2>2. CASE k + 1 = NCpu
    <3>1. n + 1 = NCpu * (m + 1) + 0
      BY <1>1, <1>2, <2>2
    <3> QED BY <1>1, <1>2, <2>1, <2>2, <3>1
  <2>3. CASE k + 1 # NCpu
    <3>1. n + 1 = NCpu * m + (k + 1) /\ k + 1 \in 0 .. NCpu - 1
      BY <1>1, <1>2, <2>3
    <3> QED BY <1>1, <1>2, <2>1, <2>3, <3>1
  <2> QED BY <2>2, <2>3
<1>5. 0 % NCpu = 0
  BY <1>1
<1> QED BY <1>2, <1>3, <1>4, <1>5

(* The CPU that Update writes is the first that has the old sample.         *)
LEMMA NextCpu ==
  ASSUME SampleType, NEW k \in 0 .. NCpu - 1, NEW old \in Nat, old # ticks,
         \A c \in Cpus : snap[c] = IF c <= k THEN ticks ELSE old
  PROVE  Cardinality({c \in Cpus : snap[c] = ticks}) = k
<1>1. {c \in Cpus : snap[c] = ticks} = 1 .. k
  BY DriverAssumption DEF Cpus
<1>2. Cardinality(1 .. k) = k
  BY FS_Interval
<1> QED BY <1>1, <1>2, Zenon

(* The sampler keeps its own invariant, and every reader that overlaps it   *)
(* will see another sequence.                                               *)
LEMMA SamplerStep ==
  ASSUME SampleType, SampleInv, ReadInv, RunWork \/ pm_tick
  PROVE  SampleType' /\ SampleInv' /\ ReadInv'
<1>0. NCpu \in Nat /\ NCpu >= 1 /\ rpc' = rpc /\ rseq' = rseq /\ lines' = lines
  <2>1. CASE RunWork
    BY <2>1, DriverAssumption DEF RunWork, rvars
  <2>2. CASE Test
    BY <2>2, DriverAssumption DEF Test, rvars
  <2>3. CASE Update
    BY <2>3, DriverAssumption DEF Update, rvars
  <2>4. CASE Again
    BY <2>4, DriverAssumption DEF Again, rvars
  <2> QED BY <2>1, <2>2, <2>3, <2>4 DEF pm_tick
<1>1. LastPassWhole'
  BY <1>0 DEF ReadInv, LastPassWhole
<1>2. CASE RunWork
  <2>1. /\ tick = "idle" /\ tick' = "test" /\ ticks' = ticks + 1
        /\ pm_seq' = pm_seq /\ snap' = snap
    BY <1>2 DEF RunWork
  <2>2. SampleType'
    BY <1>0, <2>1 DEF SampleType
  <2>3. PICK old \in Nat : old <= ticks /\ \A c \in Cpus : snap[c] = old
    BY <2>1 DEF SampleInv
  <2>4. SampleInv'
    <3>1. old < ticks' /\ \A c \in Cpus : snap'[c] = old
      BY <2>1, <2>3 DEF SampleType
    <3>2. ~(pm_seq' % 2 = 1)
      BY <2>1 DEF SampleInv
    <3> QED BY <2>1, <3>1, <3>2 DEF SampleInv, SampleType
  <2>5. ReadInv'
    BY <1>0, <1>1, <2>1 DEF ReadInv, Line
  <2> QED BY <2>2, <2>4, <2>5
<1>3. CASE Test /\ ~pm_enabled
  <2>1. tick = "test" /\ tick' = "idle" /\ ticks' = ticks /\ pm_seq' = pm_seq /\ snap' = snap
    BY <1>3 DEF Test
  <2>2. SampleType'
    BY <1>0, <2>1 DEF SampleType
  <2>3. PICK old \in Nat : old <= ticks /\ \A c \in Cpus : snap[c] = old
    BY <2>1 DEF SampleInv
  <2>4. SampleInv'
    <3>1. old <= ticks' /\ \A c \in Cpus : snap'[c] = old
      BY <2>1, <2>3
    <3>2. ~(pm_seq' % 2 = 1)
      BY <2>1 DEF SampleInv
    <3> QED BY <2>1, <3>1, <3>2 DEF SampleInv
  <2>5. ReadInv'
    BY <1>0, <1>1, <2>1 DEF ReadInv, Line
  <2> QED BY <2>2, <2>4, <2>5
<1>4. CASE Test /\ pm_enabled
  <2>1. /\ tick = "test" /\ tick' = "update" /\ pm_seq' = pm_seq + 1
        /\ ticks' = ticks /\ snap' = snap
    BY <1>4 DEF Test
  <2>2. SampleType'
    BY <1>0, <2>1 DEF SampleType
  <2>3. PICK old \in Nat : old < ticks /\ \A c \in Cpus : snap[c] = old
    BY <2>1 DEF SampleInv
  <2>4. SampleInv'
    <3>1. old # ticks' /\ \A c \in Cpus : snap'[c] = IF c <= 0 THEN ticks' ELSE old
      BY <2>1, <2>3, <1>0 DEF SampleType, Cpus
    <3>2. pm_seq' % 2 = 1
      BY <2>1 DEF SampleInv, SampleType
    <3>3. 0 \in 0 .. NCpu - 1
      BY <1>0
    <3> QED BY <2>1, <3>1, <3>2, <3>3 DEF SampleInv
  <2>5. ReadInv'
    <3>1. rpc \in {"read", "retry"} => rseq <= pm_seq' /\ pm_seq' # rseq
      BY <2>1 DEF ReadInv, SampleType
    <3> QED BY <1>0, <1>1, <3>1 DEF ReadInv
  <2> QED BY <2>2, <2>4, <2>5
<1>5. CASE Update
  <2>0. tick = "update" /\ ticks' = ticks
    BY <1>5 DEF Update
  <2>1. PICK k \in 0 .. NCpu - 1, old \in Nat :
          old # ticks /\ \A c \in Cpus : snap[c] = IF c <= k THEN ticks ELSE old
    BY <2>0 DEF SampleInv
  <2>2. Cardinality({c \in Cpus : snap[c] = ticks}) = k
    BY <2>1, NextCpu
  <2>3. /\ snap' = [snap EXCEPT ![k + 1] = ticks]
        /\ IF k + 1 < NCpu THEN tick' = tick /\ pm_seq' = pm_seq
           ELSE tick' = "again" /\ pm_seq' = pm_seq + 1
    BY <1>5, <2>2, Zenon DEF Update
  <2>4. snap' \in [Cpus -> Nat] /\ \A c \in Cpus : snap'[c] = IF c <= k + 1 THEN ticks ELSE old
    BY <1>0, <2>1, <2>3 DEF SampleType, Cpus
  <2>5. pm_seq % 2 = 1 /\ (rpc \in {"read", "retry"} => rseq <= pm_seq /\ rseq # pm_seq)
    BY <2>0 DEF SampleInv, ReadInv, SampleType
  <2>6. CASE k + 1 < NCpu
    <3>1. tick' = "update" /\ pm_seq' = pm_seq
      BY <2>0, <2>3, <2>6
    <3>2. SampleType'
      BY <1>0, <2>0, <2>4, <3>1 DEF SampleType
    <3>3. SampleInv'
      <4>1. k + 1 \in 0 .. NCpu - 1
        BY <1>0, <2>6
      <4> QED BY <2>0, <2>1, <2>4, <2>5, <3>1, <4>1 DEF SampleInv
    <3>4. ReadInv'
      BY <1>0, <1>1, <2>5, <3>1 DEF ReadInv
    <3> QED BY <3>2, <3>3, <3>4
  <2>7. CASE ~(k + 1 < NCpu)
    <3>1. tick' = "again" /\ pm_seq' = pm_seq + 1
      BY <2>3, <2>7
    <3>2. SampleType'
      BY <1>0, <2>0, <2>4, <3>1 DEF SampleType
    <3>3. SampleInv'
      <4>1. \A c \in Cpus : snap'[c] = ticks
        BY <1>0, <2>4, <2>7 DEF Cpus
      <4>2. ~(pm_seq' % 2 = 1)
        BY <2>5, <3>1 DEF SampleType
      <4>3. ticks \in Nat /\ ticks <= ticks'
        BY <2>0 DEF SampleType
      <4> QED BY <3>1, <4>1, <4>2, <4>3 DEF SampleInv
    <3>4. ReadInv'
      <4>1. rpc \in {"read", "retry"} => rseq <= pm_seq' /\ pm_seq' # rseq
        BY <2>5, <3>1 DEF SampleType
      <4> QED BY <1>0, <1>1, <4>1 DEF ReadInv
    <3> QED BY <3>2, <3>3, <3>4
  <2> QED BY <2>6, <2>7
<1>6. CASE Again
  <2>1. tick = "again" /\ tick' = "idle" /\ UNCHANGED <<pm_seq, snap, ticks>>
    BY <1>6 DEF Again, svars
  <2>2. SampleType' /\ SampleInv'
    BY <1>0, <2>1 DEF SampleType, SampleInv
  <2>3. ReadInv'
    BY <1>0, <1>1, <2>1 DEF ReadInv, Line
  <2> QED BY <2>2, <2>3
<1> QED BY <1>2, <1>3, <1>4, <1>5, <1>6 DEF pm_tick

(* stat_show: a pass that ends with the sequence it began with has read     *)
(* one update.                                                              *)
LEMMA ReaderStep ==
  ASSUME SampleType, SampleInv, ReadInv, stat_show
  PROVE  SampleType' /\ SampleInv' /\ ReadInv'
<1> DEFINE n == Len(lines)
           k == n % NCpu
<1>0. NCpu \in Nat /\ NCpu >= 1 /\ n \in Nat /\ k \in 0 .. NCpu - 1 /\ k <= n
  <2>1. NCpu \in Nat /\ NCpu >= 1
    BY DriverAssumption
  <2>2. n \in Nat
    BY DEF SampleType
  <2>3. k \in 0 .. NCpu - 1 /\ k <= n
    <3> HIDE DEF n
    <3> QED BY <2>1, <2>2, ModStep, Zenon
  <2> QED BY <2>1, <2>2, <2>3
<1>1. UNCHANGED <<tick, pm_seq, snap, ticks>>
  <2>1. CASE ReadBegin
    BY <2>1 DEF ReadBegin, kvars, svars
  <2>2. CASE ReadCpu
    BY <2>2 DEF ReadCpu, kvars, svars
  <2>3. CASE ReadRetry
    BY <2>3 DEF ReadRetry, kvars, svars
  <2> QED BY <2>1, <2>2, <2>3 DEF stat_show
<1>2. SampleInv'
  BY <1>1 DEF SampleInv
<1>3. CASE ReadBegin
  <2>1. /\ rpc \in {"idle", "again"} /\ pm_seq % 2 = 0
        /\ rseq' = pm_seq /\ rpc' = "read" /\ lines' = lines
    BY <1>3 DEF ReadBegin
  <2>2. SampleType'
    BY <1>1, <2>1 DEF SampleType
  <2>3. k = 0
    BY <2>1, ModStep DEF ReadInv
  <2>4. ReadInv'
    BY <1>0, <1>1, <2>1, <2>3 DEF ReadInv, LastPassWhole, SampleType
  <2> QED BY <1>2, <2>2, <2>4
<1>4. CASE ReadCpu
  <2>1. /\ rpc = "read" /\ rseq' = rseq
        /\ lines' = Append(lines, Line(k + 1))
        /\ rpc' = IF k + 1 < NCpu THEN "read" ELSE "retry"
    BY <1>4 DEF ReadCpu, Line
  <2>2. k + 1 \in Cpus /\ Line(k + 1) \in [cpu : Cpus, sample : Nat]
    BY <1>0 DEF Cpus, Line, SampleType
  <2>3. /\ lines' \in Seq([cpu : Cpus, sample : Nat]) /\ Len(lines') = n + 1
        /\ lines'[n + 1] = Line(k + 1) /\ \A i \in 1 .. n : lines'[i] = lines[i]
    BY <2>1, <2>2 DEF SampleType
  <2>4. SampleType'
    BY <1>1, <2>1, <2>3 DEF SampleType
  <2>5. \A c \in 1 .. k + 1 : pm_seq = rseq => lines'[n - k + c] = Line(c)
    <3> SUFFICES ASSUME NEW c \in 1 .. k + 1, pm_seq = rseq PROVE lines'[n - k + c] = Line(c)
      OBVIOUS
    <3>1. CASE c = k + 1
      <4>1. n - k + c = n + 1
        BY <1>0, <3>1
      <4> QED BY <2>3, <3>1, <4>1
    <3>2. CASE c # k + 1
      <4>1. c \in 1 .. k /\ n - k + c \in 1 .. n
        BY <1>0, <3>2
      <4>2. lines[n - k + c] = Line(c)
        BY <2>1, <4>1 DEF ReadInv
      <4> QED BY <2>3, <4>1, <4>2
    <3> QED BY <3>1, <3>2
  <2>6. \A c \in Cpus : Line(c)' = Line(c)
    BY <1>1 DEF Line
  <2>7. (n + 1) % NCpu = IF k + 1 = NCpu THEN 0 ELSE k + 1
    BY <1>0, ModStep, Zenon
  <2> HIDE DEF k, n
  <2>8. CASE k + 1 < NCpu
    <3>1. rpc' = "read" /\ Len(lines') % NCpu = k + 1
      BY <1>0, <2>1, <2>3, <2>7, <2>8
    <3>2. Len(lines') - (k + 1) = n - k
      BY <1>0, <2>3
    <3>3. 1 .. k + 1 \subseteq Cpus
      BY <1>0, <2>8 DEF Cpus
    <3>4. pm_seq' = rseq' => \A c \in 1 .. k + 1 : lines'[Len(lines') - (k + 1) + c] = Line(c)'
      BY <1>1, <2>1, <2>5, <2>6, <3>2, <3>3, Zenon
    <3>5. rseq' % 2 = 0 /\ rseq' <= pm_seq'
      BY <1>1, <2>1 DEF ReadInv
    <3>6. ReadInv'
      BY <3>1, <3>4, <3>5 DEF ReadInv, LastPassWhole
    <3> QED BY <1>2, <2>4, <3>6
  <2>9. CASE ~(k + 1 < NCpu)
    <3>1. rpc' = "retry" /\ Len(lines') % NCpu = 0 /\ k + 1 = NCpu
      BY <1>0, <2>1, <2>3, <2>7, <2>9
    <3>2. Len(lines') - NCpu = n - k /\ Len(lines') >= NCpu
      BY <1>0, <2>3, <3>1
    <3>3. pm_seq' = rseq' => \A c \in Cpus : lines'[Len(lines') - NCpu + c] = Line(c)'
      BY <1>1, <2>1, <2>5, <2>6, <3>1, <3>2, Zenon DEF Cpus
    <3>4. rseq' % 2 = 0 /\ rseq' <= pm_seq'
      BY <1>1, <2>1 DEF ReadInv
    <3>5. ReadInv'
      BY <3>1, <3>2, <3>3, <3>4 DEF ReadInv, LastPassWhole
    <3> QED BY <1>2, <2>4, <3>5
  <2> QED BY <2>8, <2>9
<1>5. CASE ReadRetry /\ pm_seq = rseq
  <2>1. rpc = "retry" /\ rpc' = "done" /\ rseq' = rseq /\ lines' = lines
    BY <1>5 DEF ReadRetry
  <2>2. SampleType'
    BY <1>1, <2>1 DEF SampleType
  <2>3. tick # "update"
    BY <1>5, <2>1 DEF SampleInv, ReadInv, SampleType
  <2>4. PICK old \in Nat : \A c \in Cpus : snap[c] = old
    BY <2>3 DEF SampleInv
  <2>5. n >= NCpu /\ \A c \in Cpus : lines[n - NCpu + c] = [cpu |-> c, sample |-> old]
    BY <1>5, <2>1, <2>4 DEF ReadInv, Line
  <2>6. lines[n - NCpu + 1].sample = old
    <3>1. 1 \in Cpus
      BY <1>0 DEF Cpus
    <3>2. lines[n - NCpu + 1] = [cpu |-> 1, sample |-> old]
      BY <2>5, <3>1
    <3> QED BY <3>2
  <2>7. LastPassWhole'
    BY <1>0, <2>1, <2>5, <2>6 DEF LastPassWhole
  <2>8. ReadInv'
    BY <2>1, <2>7 DEF ReadInv
  <2> QED BY <1>2, <2>2, <2>8
<1>6. CASE ReadRetry /\ pm_seq # rseq
  <2>1. rpc = "retry" /\ rpc' = "again" /\ rseq' = rseq /\ lines' = lines
    BY <1>6 DEF ReadRetry
  <2>2. SampleType'
    BY <1>1, <2>1 DEF SampleType
  <2>3. ReadInv'
    BY <2>1 DEF ReadInv, LastPassWhole
  <2> QED BY <1>2, <2>2, <2>3
<1> QED BY <1>3, <1>4, <1>5, <1>6 DEF stat_show

(* Writers and loading do not touch the samples.                            *)
LEMMA OthersStep ==
  ASSUME SampleType, SampleInv, ReadInv,
         \/ \E w \in Writers : cfg_write(w)
         \/ mydrv_init \/ mydrv_exit \/ UNCHANGED vars
  PROVE  SampleType' /\ SampleInv' /\ ReadInv'
<1>1. UNCHANGED <<tick, svars, rvars>>
  <2>1. ASSUME NEW w \in Writers, cfg_write(w) PROVE UNCHANGED <<tick, svars, rvars>>
    BY <2>1 DEF cfg_write, WriteOne, Schedule, WriteZero, Cancel, CancelBegin, CancelEnd
  <2>2. CASE mydrv_init \/ mydrv_exit
    BY <2>2 DEF mydrv_init, mydrv_exit, CancelBegin, CancelEnd, kvars
  <2>3. CASE UNCHANGED vars
    BY <2>3 DEF vars, kvars
  <2> QED BY <2>1, <2>2, <2>3
<1>2. UNCHANGED <<tick, pm_seq, snap, ticks, rpc, rseq, lines>>
  BY <1>1 DEF svars, rvars
<1> QED BY <1>2 DEF SampleType, SampleInv, ReadInv, Line, LastPassWhole

(* The last pass of every read of status is one whole update, although      *)
(* samples are taken while it reads: the seqlock in pm_update_fake and      *)
(* stat_show does its work for any number of CPUs and any writers.          *)
THEOREM ReadsWhole == Spec => []LastPassWhole
<1>1. Init => SampleType /\ SampleInv /\ ReadInv
  <2> SUFFICES ASSUME Init PROVE SampleType /\ SampleInv /\ ReadInv
    OBVIOUS
  <2>1. SampleType
    BY DEF Init, SampleType
  <2>2. SampleInv
    BY DEF Init, SampleInv
  <2>3. ReadInv
    BY DEF Init, ReadInv, LastPassWhole
  <2> QED BY <2>1, <2>2, <2>3
<1>2. SampleType /\ SampleInv /\ ReadInv /\ [Next]_vars => SampleType' /\ SampleInv' /\ ReadInv'
  BY SamplerStep, ReaderStep, OthersStep DEF Next
<1>3. ReadInv => LastPassWhole
  BY DEF ReadInv
<1> QED BY <1>1, <1>2, <1>3, PTL DEF Spec

=============================================================================
