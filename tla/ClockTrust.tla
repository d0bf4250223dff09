----------------------------- MODULE ClockTrust -----------------------------
(***************************************************************************)
(* The retention clock of one journal under an unreliable wall clock:      *)
(* next_retention_clock of src/src/remote_export_state.rs, driven by       *)
(* arbitrary readings.  seen is the history of the readings, kept to say   *)
(* what evidence the trusted time rests on.                                *)
(***************************************************************************)
EXTENDS RetentionClock, Sequences

CONSTANTS
    MaxReading, \* bound: readings are 0..MaxReading
    MaxSeen     \* bound on the number of readings

ASSUME ClockTrustAssumption == MaxReading \in Nat /\ MaxSeen \in Nat

VARIABLES clock, seen

clockVars == <<clock, seen>>

\* The journal, and with it the clock, is created at the first reading.
ClockInit == \E t \in 0..MaxReading : clock = CurrentClock(t) /\ seen = <<t>>

\* One reconcile that is not skipped observes the wall clock once.
ObserveClock(t) ==
    /\ Len(seen) < MaxSeen
    /\ clock' = NextClock(clock, t)
    /\ seen' = Append(seen, t)

ClockNext == \E t \in 0..MaxReading : ObserveClock(t)

ClockSpec == ClockInit /\ [][ClockNext]_clockVars

-----------------------------------------------------------------------------

\* The last n readings of s never fall and all lie beyond what may be
\* believed at once from the trusted time `from'.
Corroborate(s, n, from) ==
    /\ n \in 1..Len(s)
    /\ \A i \in (Len(s) - n + 1)..Len(s) : s[i] > from + MaxForward
    /\ \A i \in (Len(s) - n + 1)..(Len(s) - 1) : s[i] <= s[i + 1]

\* Readings and clock are numbers, and the clock passes the checks made when
\* the state file is read back.
ClockTypeOK ==
    /\ clock \in Clock
    /\ ValidClock(clock)
    /\ seen \in Seq(Nat)

\* A pending series counts only readings that were really made, one after
\* the other with no contradicting reading in between, and starts and ends
\* with the ones the clock remembers (pending_started_at, pending_last_at,
\* pending_confirmations).
PendingIsWitnessed ==
    IsPending(clock) =>
        LET n == clock.confirmations IN
        /\ Corroborate(seen, n, clock.trusted)
        /\ clock.started = seen[Len(seen) - n + 1]
        /\ clock.last = seen[Len(seen)]

\* The trusted time ages the journal, and what it ages out is gone.  It never
\* moves back; and it moves further than MaxForward only on the evidence of
\* at least MinConfirmations (and never fewer than two) consecutive readings
\* that agree with each other and span at least ConfirmSpan: one wrong
\* reading, or several with a contradicting one between them, change nothing.
LeapsAreCorroborated ==
    [][/\ clock'.trusted >= clock.trusted
       /\ clock'.trusted > clock.trusted + MaxForward =>
            \E n \in 2..Len(seen') :
               /\ n >= MinConfirmations
               /\ Corroborate(seen', n, clock.trusted)
               /\ seen'[Len(seen')] >= seen'[Len(seen') - n + 1] + ConfirmSpan
      ]_clockVars

=============================================================================
