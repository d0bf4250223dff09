--------------------------- MODULE RetentionClock ---------------------------
(***************************************************************************)
(* The exporter's retention clock (src/src/remote_export_state.rs).        *)
(*                                                                         *)
(* A remote host's wall clock may be wrong, and ageing a journal by a wrong *)
(* clock destroys history.  The exporter therefore ages by a persisted     *)
(* "trusted" time.  A small step forward is believed at once; a larger one *)
(* stays pending until several observations, spread over a long enough     *)
(* span, agree with it.  Times are natural numbers in an arbitrary unit.   *)
(***************************************************************************)
EXTENDS Naturals

CONSTANTS
    MaxForward,        \* RETENTION_CLOCK_MAX_UNCONFIRMED_FORWARD_HOURS (24 h)
    ConfirmSpan,       \* RETENTION_CLOCK_CONFIRMATION_HOURS (48 h)
    MinConfirmations   \* RETENTION_CLOCK_MIN_CONFIRMATIONS (3)

ASSUME ClockAssumption ==
    /\ MaxForward \in Nat
    /\ ConfirmSpan \in Nat
    /\ MinConfirmations \in Nat

\* The persisted clock.  confirmations = 0 is "nothing pending"; then both
\* pending times, None in the code, repeat the trusted time.
Clock == [trusted : Nat, started : Nat, last : Nat, confirmations : Nat]

CurrentClock(t) ==
    [trusted |-> t, started |-> t, last |-> t, confirmations |-> 0]

PendingClock(trusted, t) ==
    [trusted |-> trusted, started |-> t, last |-> t, confirmations |-> 1]

ExtendedClock(c, t) ==
    [trusted |-> c.trusted, started |-> c.started, last |-> t,
     confirmations |-> c.confirmations + 1]

IsPending(c) == c.confirmations > 0

\* What RetentionClock::validate accepts when a state file is read back.
ValidClock(c) ==
    IF IsPending(c) THEN c.started <= c.last /\ c.trusted < c.started
                    ELSE c.started = c.trusted /\ c.last = c.trusted

\* Slip: a reading before the last one still counts with the series.
ContinuesAnyway(c, t) == IsPending(c)

\* The observation t continues the pending series of c.
Continues(c, t) == IsPending(c) /\ t >= c.last

\* Slip: the span alone confirms, however few the readings.
ConfirmsBySpanAlone(c, t) == t >= c.started + ConfirmSpan

\* The observation t completes the pending series of c.
Confirms(c, t) ==
    /\ t >= c.started + ConfirmSpan
    /\ c.confirmations + 1 >= MinConfirmations

\* Slip: a reading that contradicts the pending series leaves it pending.
NextClockKeepsSeries(c, t) ==
    CASE t <= c.trusted -> c
      [] t > c.trusted /\ t <= c.trusted + MaxForward -> CurrentClock(t)
      [] t > c.trusted + MaxForward /\ ~Continues(c, t) ->
            PendingClock(c.trusted, t)
      [] t > c.trusted + MaxForward /\ Continues(c, t) /\ Confirms(c, t) ->
            CurrentClock(t)
      [] t > c.trusted + MaxForward /\ Continues(c, t) /\ ~Confirms(c, t) ->
            ExtendedClock(c, t)

\* next_retention_clock: the clock after one observation of the wall clock.
NextClock(c, t) ==
    CASE t <= c.trusted -> CurrentClock(c.trusted)
      [] t > c.trusted /\ t <= c.trusted + MaxForward -> CurrentClock(t)
      [] t > c.trusted + MaxForward /\ ~Continues(c, t) ->
            PendingClock(c.trusted, t)
      [] t > c.trusted + MaxForward /\ Continues(c, t) /\ Confirms(c, t) ->
            CurrentClock(t)
      [] t > c.trusted + MaxForward /\ Continues(c, t) /\ ~Confirms(c, t) ->
            ExtendedClock(c, t)

=============================================================================
