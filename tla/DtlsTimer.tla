------------------------------ MODULE DtlsTimer ------------------------------
(***************************************************************************)
(* The arithmetic of the DTLS retransmission timer (ssl/d1_lib.cc): a      *)
(* deadline kept in seconds and microseconds, with {0, 0} for "no timer",  *)
(* set from a wall clock that may be set forward and back, and the loop of *)
(* an application that asks for the time left, sleeps for that long by a   *)
(* clock of its own, and calls back.                                       *)
(***************************************************************************)
EXTENDS Integers

CONSTANTS
    Times,          \* instants [sec, usec] the clock may show
    Durations,      \* initial durations the application may choose, in ms
    Shifts          \* bound: how far the clock may be set while the application
                    \* sleeps, in usec

Second == 1000 * 1000       \* microseconds
Slack == 15 * 1000          \* microseconds that are rounded away
MaxTimeout == 60 * 1000     \* milliseconds, the longest doubled duration
MaxInitial == 1000 * 1000 * 1000 \* bound: doubling an unsigned int does not overflow

MaxUsec == Second - 1
Timeval == [sec : Nat, usec : 0 .. MaxUsec]

ASSUME TimesAssumption == \A t \in Times : t \in Timeval /\ t.sec > 0
ASSUME DurationsAssumption == Durations \subseteq 0 .. MaxInitial
ASSUME ShiftsAssumption == Shifts \subseteq Int

VARIABLES
    now,                            \* what ssl_get_current_time shows
    next_timeout,                   \* d1->next_timeout
    timeout_duration_ms,            \* d1->timeout_duration_ms
    initial_timeout_duration_ms,    \* ssl->initial_timeout_duration_ms
    started,                        \* history: the instant of dtls1_start_timer, in usec
    wake,                           \* history: until when the application was told to
                                    \* sleep for this deadline, in usec, or -1
    shift                           \* history: by how much the clock was set since then,
                                    \* in usec, negative if back

timer_vars == <<now, next_timeout, timeout_duration_ms, initial_timeout_duration_ms, started,
                wake, shift>>

Zero == [sec |-> 0, usec |-> 0]

TimerInit ==
    /\ now \in Times
    /\ next_timeout = Zero
    /\ timeout_duration_ms = 0
    /\ initial_timeout_duration_ms = 1000
    /\ started = 0
    /\ wake = -1
    /\ shift = 0

\* An instant or a length of time in microseconds.
Us(t) == t.sec * Second + t.usec

\* t plus ms milliseconds.
add_ms(t, ms) ==
    LET sec == t.sec + (ms \div 1000)
        usec == t.usec + (ms % 1000) * 1000
    IN  IF usec >= Second THEN [sec |-> sec + 1, usec |-> usec - Second]
                           ELSE [sec |-> sec, usec |-> usec]

\* Starts the timer with this duration, unless no timer runs yet: then the
\* duration is the initial one.
start_timer(duration) ==
    LET d == IF next_timeout = Zero THEN initial_timeout_duration_ms ELSE duration
    IN  /\ timeout_duration_ms' = d
        /\ next_timeout' = add_ms(now, d)
        /\ started' = Us(now)
        /\ wake' = -1 /\ shift' = 0
        /\ UNCHANGED <<now, initial_timeout_duration_ms>>

dtls1_start_timer == start_timer(timeout_duration_ms)

dtls1_stop_timer ==
    /\ next_timeout' = Zero
    /\ timeout_duration_ms' = initial_timeout_duration_ms
    /\ wake' = -1 /\ shift' = 0
    /\ UNCHANGED <<now, initial_timeout_duration_ms, started>>

\* next - t, borrowing a second if need be; only for next after t.
difference(next, t) ==
    IF next.usec >= t.usec
      THEN [sec |-> next.sec - t.sec, usec |-> next.usec - t.usec]
      ELSE [sec |-> next.sec - t.sec - 1, usec |-> Second + next.usec - t.usec]

not_after(next, t) ==
    next.sec < t.sec \/ (next.sec = t.sec /\ next.usec <= t.usec)

\* Mutant: rounds without a look at the seconds.
time_left_AnySecond(next, t) ==
    LET ret == difference(next, t)
    IN  IF not_after(next, t) \/ ret.usec < Slack THEN Zero ELSE ret

\* The time left, with less than 15 ms rounded to none.
time_left(next, t) ==
    LET ret == difference(next, t)
    IN  IF not_after(next, t) \/ (ret.sec = 0 /\ ret.usec < Slack) THEN Zero ELSE ret

\* The application asks how long it may sleep.
DTLSv1_get_timeout ==
    /\ next_timeout # Zero
    /\ wake' = Us(now) + Us(time_left(next_timeout, now))
    /\ shift' = 0
    /\ UNCHANGED <<now, next_timeout, timeout_duration_ms, initial_timeout_duration_ms, started>>

\* Mutant: the deadline is compared with the clock, without the rounding.
dtls1_is_timer_expired_Exact == next_timeout # Zero /\ not_after(next_timeout, now)

dtls1_is_timer_expired ==
    /\ next_timeout # Zero
    /\ LET left == time_left(next_timeout, now) IN ~(left.sec > 0 \/ left.usec > 0)

double_timeout(ms) == IF ms * 2 > MaxTimeout THEN MaxTimeout ELSE ms * 2

\* (If the timer has not expired, the call does nothing.)
DTLSv1_handle_timeout ==
    /\ dtls1_is_timer_expired
    /\ start_timer(double_timeout(timeout_duration_ms))

DTLSv1_set_initial_timeout_duration ==
    /\ initial_timeout_duration_ms' \in Durations
    /\ UNCHANGED <<now, next_timeout, timeout_duration_ms, started, wake, shift>>

\* Time passes.
Elapse ==
    /\ now' \in Times
    /\ Us(now') >= Us(now)
    /\ UNCHANGED <<next_timeout, timeout_duration_ms, initial_timeout_duration_ms, started, wake,
                   shift>>

\* The clock is set, forward or back.
SetClock ==
    /\ now' \in Times
    /\ shift' = IF wake = -1 THEN 0 ELSE shift + Us(now') - Us(now)
    /\ shift' \in Shifts
    /\ UNCHANGED <<next_timeout, timeout_duration_ms, initial_timeout_duration_ms, started, wake>>

TimerNext ==
    \/ dtls1_start_timer
    \/ dtls1_stop_timer
    \/ DTLSv1_get_timeout
    \/ DTLSv1_handle_timeout
    \/ DTLSv1_set_initial_timeout_duration
    \/ Elapse
    \/ SetClock

TimerSpec == TimerInit /\ [][TimerNext]_timer_vars

-----------------------------------------------------------------------------
(***************************************************************************)
(* Properties.                                                             *)
(***************************************************************************)
\* Times are kept normalised, with fewer than 1000000 microseconds
\* (struct OPENSSL_timeval).
TimerTypeOK ==
    /\ now \in Times
    /\ next_timeout \in Timeval
    /\ timeout_duration_ms \in Nat
    /\ initial_timeout_duration_ms \in Nat
    /\ started \in Nat
    /\ wake \in Int
    /\ shift \in Int

\* While a timer runs, its deadline is its start plus its duration, whatever
\* the carry between microseconds and seconds (dtls1_start_timer).
DeadlineExact ==
    next_timeout # Zero => Us(next_timeout) = started + timeout_duration_ms * 1000

\* The application sleeps, by a clock that nobody sets, for as long as
\* DTLSv1_get_timeout said, while the wall clock may be set.  If that was not
\* set back on the whole, the timer has expired when the application wakes up:
\* it need not ask again.  If it was set back, the application is told to
\* sleep again, but by no more than the clock was set back and the 15 ms that
\* are rounded away: the repetition of the flight is late by that at most.
WakesExpired ==
    wake # -1 /\ Us(now) - shift >= wake =>
        IF shift >= 0 THEN dtls1_is_timer_expired
        ELSE next_timeout # Zero /\ Us(time_left(next_timeout, now)) < Slack - shift

\* A flight is never repeated more than 15 ms before its deadline, however the
\* application polls (DTLSv1_handle_timeout).
NeverEarly ==
    [][DTLSv1_handle_timeout =>
          Us(now) + Slack > started + timeout_duration_ms * 1000]_timer_vars
=============================================================================
