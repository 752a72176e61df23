--------------------------- MODULE StatusPollPolicy ---------------------------
(***************************************************************************)
(* Poll scheduling and failure back-off (status_poll_policy.h / .cpp): the *)
(* operations of class StatusPollPolicy as operators on one PollTracking   *)
(* record.  A device without an entry in tracking_ is the record Untracked *)
(* with interval 0, which every operation treats alike.                    *)
(*                                                                         *)
(* Times are millis() values: natural numbers below Wrap (2^32 in the      *)
(* code), added modulo Wrap and compared as plain numbers.                 *)
(***************************************************************************)
EXTENDS Integers, Sequences

CONSTANTS
    Wrap,                               \* millis() and uint32_t sums wrap here
    MAX_TRACKED_STATUS_POLL_WINDOW_MS,
    SilentBackoff,                      \* STATUS_RETRY_AFTER_FAIL_MS, _STEP2.._STEP4, _MAX
    AuthBackoff,                        \* STATUS_AUTH_RETRY_AFTER_FAIL_MS, _STEP2, _MAX
    DEFAULT_SETTLE_POLL_DELAY_MS,
    STOP_SETTLE_POLL_CAP_MS

ASSUME PolicyAssumption ==
    /\ Wrap \in Nat \ {0}
    /\ MAX_TRACKED_STATUS_POLL_WINDOW_MS \in Nat \ {0}
    /\ SilentBackoff \in Seq(Nat \ {0}) /\ Len(SilentBackoff) > 0
    /\ AuthBackoff \in Seq(Nat \ {0}) /\ Len(AuthBackoff) > 0
    /\ DEFAULT_SETTLE_POLL_DELAY_MS \in Nat \ {0}
    /\ STOP_SETTLE_POLL_CAP_MS \in Nat \ {0}

MaxFailures == 255                      \* UINT8_MAX

Plus(t, ms) == (t + ms) % Wrap
Smaller(a, b) == IF a <= b THEN a ELSE b

\* Faulty variant: the device's hint replaces the configured interval.
settle_delay_ms_hint_first(interval, hint, cap_for_stop) ==
    LET base == IF hint # 0 THEN hint ELSE IF interval # 0 THEN interval ELSE DEFAULT_SETTLE_POLL_DELAY_MS
    IN  IF cap_for_stop THEN Smaller(base, STOP_SETTLE_POLL_CAP_MS) ELSE base

settle_delay_ms(interval, hint, cap_for_stop) ==
    LET base   == IF interval # 0 THEN interval ELSE DEFAULT_SETTLE_POLL_DELAY_MS
        hinted == IF hint # 0 THEN Smaller(base, hint) ELSE base
    IN  IF cap_for_stop THEN Smaller(hinted, STOP_SETTLE_POLL_CAP_MS) ELSE hinted

begin_tracking(t, initial_delay, now) ==
    [t EXCEPT !.poll_deadline = Plus(now, MAX_TRACKED_STATUS_POLL_WINDOW_MS),
              !.next_update = IF initial_delay = 0 THEN 0 ELSE Plus(now, initial_delay),
              !.status_poll_failures = 0,
              !.auth_poll_failures = 0]

\* clear(): interval_ms is configuration and stays.
clear(t) ==
    [t EXCEPT !.next_update = 0, !.poll_deadline = 0,
              !.status_poll_failures = 0, !.auth_poll_failures = 0]

set_next_update(t, abs_time) == [t EXCEPT !.next_update = abs_time]

is_tracking_active(t, now) == t.poll_deadline # 0 /\ now <= t.poll_deadline

clear_failure_streaks(t) == [t EXCEPT !.status_poll_failures = 0, !.auth_poll_failures = 0]

retry_delay_ms(failures, auth_like) ==
    LET steps == IF auth_like THEN AuthBackoff ELSE SilentBackoff
        step  == Smaller(failures, Len(steps))
    IN  steps[IF step = 0 THEN 1 ELSE step]

CountFailure(t, auth_like) ==
    LET Bump(n) == IF n < MaxFailures THEN n + 1 ELSE n
    IN  [t EXCEPT !.status_poll_failures = IF auth_like THEN 0 ELSE Bump(@),
                  !.auth_poll_failures = IF auth_like THEN Bump(@) ELSE 0]

BackoffAfter(t, auth_like) ==
    retry_delay_ms(IF auth_like THEN t.auth_poll_failures ELSE t.status_poll_failures, auth_like)

\* Faulty variant: the failure is counted and no retry scheduled.
on_exchange_failed_not_rescheduled(t, auth_like, now) ==
    LET counted == CountFailure(t, auth_like)
    IN  IF is_tracking_active(counted, now) /\ Plus(now, BackoffAfter(counted, auth_like)) <= counted.poll_deadline
        THEN counted
        ELSE clear(counted)

(***************************************************************************)
(* on_exchange_failed: count, then either back off inside the window or    *)
(* give tracking up.                                                       *)
(***************************************************************************)
on_exchange_failed(t, auth_like, now) ==
    LET counted == CountFailure(t, auth_like)
        retry   == Plus(now, BackoffAfter(counted, auth_like))
    IN  IF is_tracking_active(counted, now) /\ retry <= counted.poll_deadline
        THEN [counted EXCEPT !.next_update = retry]
        ELSE clear(counted)

(***************************************************************************)
(* pop_due_device scans tracking_ in key order (the device ids, which are  *)
(* numbers here): overdue entries whose window expired are cleared on the  *)
(* way, the first live one has its next_update consumed and is returned.   *)
(***************************************************************************)
IsDue(t, now) == t.next_update # 0 /\ now > t.next_update

DueDevices(tracking, now) ==
    LET live == {d \in DOMAIN tracking : IsDue(tracking[d], now) /\ is_tracking_active(tracking[d], now)}
    IN  {d \in live : \A e \in live : d <= e}

pop_due_device(tracking, now) ==
    LET due == DueDevices(tracking, now)
    IN  [d \in DOMAIN tracking |->
            IF d \in due THEN set_next_update(tracking[d], 0)
            ELSE IF IsDue(tracking[d], now) /\ \A e \in due : d < e THEN clear(tracking[d])
            ELSE tracking[d]]
=============================================================================
