------------------------ MODULE ExportJournalProofs ------------------------
(***************************************************************************)
(* The exporter's journal is exact and durable for every set of keys and   *)
(* values and every choice of the limits, and the time it ages by rests on *)
(* the evidence of its readings.                                           *)
(***************************************************************************)
EXTENDS ExportJournal, ClockTrust, DeltaJournalProofs

-----------------------------------------------------------------------------
(* The journal. *)

\* The inductive invariant: a sound, complete journal within its limits.
Inv ==
    /\ Sound(journal)
    /\ BootstrapComplete(journal)
    /\ journal.seq - journal.floor <= MaxEntries
    /\ present \in BOOLEAN /\ anchored \in BOOLEAN
    /\ anchored => present

\* A fresh journal is within its limits.
LEMMA NewInv ==
    ASSUME NEW gen \in Nat, NEW t \in Nat
    PROVE  /\ Sound(NewJournal(gen, t))
           /\ BootstrapComplete(NewJournal(gen, t))
           /\ NewJournal(gen, t).seq - NewJournal(gen, t).floor <= MaxEntries
<1>1. NewJournal(gen, t).seq = 0 /\ NewJournal(gen, t).floor = 0
  BY DEF NewJournal
<1> QED
  BY <1>1, NewSound, JournalAssumption DEF JournalAssumption

\* The invariant holds initially.
LEMMA InitInv == Init => Inv
BY NewInv DEF Init, Inv

\* Every action of the namespace preserves the invariant.
LEMMA NextInv == Inv /\ [Next]_journalVars => Inv'
<1> SUFFICES ASSUME Inv, [Next]_journalVars PROVE Inv'
  OBVIOUS
<1>1. ASSUME NEW t \in 0..MaxTime, CreateState(t) PROVE Inv'
  <2>1. journal.gen + 1 \in Nat /\ t \in Nat
    BY BoundsAssumption, JournalFields DEF BoundsAssumption, Inv, Sound
  <2>2. journal' = NewJournal(journal.gen + 1, t)
    BY <1>1 DEF CreateState
  <2>3. Sound(journal') /\ BootstrapComplete(journal')
        /\ journal'.seq - journal'.floor <= MaxEntries
    BY <2>1, <2>2, NewInv
  <2> QED
    BY <1>1, <2>3 DEF Inv, CreateState
<1>2. ASSUME EnsureAnchor PROVE Inv'
  BY <1>2 DEF Inv, EnsureAnchor
<1>3. ASSUME NEW t \in 0..MaxTime, NEW d \in [Keys -> Contents],
             NEW m \in Modes, Reconcile(t, d, m)
      PROVE  Inv'
  <2>1. t \in Nat
    BY BoundsAssumption DEF BoundsAssumption
  <2>2. journal' \in Reconciled(journal, t, d, m)
    BY <1>3 DEF Reconcile
  <2>3. Sound(journal') /\ BootstrapComplete(journal')
        /\ journal'.seq - journal'.floor <= MaxEntries
    BY <2>1, <2>2, ReconcileSound DEF Inv
  <2> QED
    BY <1>3, <2>3 DEF Inv, Reconcile
<1>4. ASSUME SweepNamespace PROVE Inv'
  BY <1>4 DEF Inv, SweepNamespace
<1>5. CASE UNCHANGED journalVars
  BY <1>5 DEF Inv, journalVars
<1> QED
  BY <1>1, <1>2, <1>3, <1>4, <1>5 DEF Next

\* The invariant implies the four properties.
LEMMA InvExact ==
    ASSUME Inv
    PROVE  TypeOK /\ BootstrapExact /\ FollowerExact /\ DurableStateValid
<1>1. /\ Sound(journal) /\ IsJournal(journal) /\ journal.floor \in Nat
      /\ journal.seq \in Nat /\ journal.floor <= journal.seq
  BY JournalFields DEF Inv, Sound
<1>2. TypeOK
  BY <1>1 DEF Inv, TypeOK
<1>3. \A k \in CurrentKeys(journal) : journal.mat[k].last \in Retained(journal)
  BY DEF Inv, BootstrapComplete, UpsertRetained
<1>4. BootstrapExact
  <2> SUFFICES ASSUME NEW k \in Keys
               PROVE  Replay(journal, journal.floor, journal.seq, k)
                         = journal.mat[k].val
    BY DEF BootstrapExact
  <2>1. journal.mat[k].val = Absent \/ journal.floor < journal.mat[k].last
    BY <1>1, <1>3 DEF CurrentKeys, Retained
  <2> QED
    BY <1>1, <2>1, ReplayExact
<1>5. FollowerExact
  <2> SUFFICES ASSUME NEW k \in Keys
               PROVE  Replay(journal, 0, journal.seq, k) = journal.mat[k].val
    BY DEF FollowerExact
  <2>1. journal.mat[k].val = Absent \/ 0 < journal.mat[k].last
    BY <1>1, JournalFields DEF Sound, Tracks
  <2> QED
    BY <1>1, <2>1, ReplayExact
<1>6. Retained(journal) = {} => CurrentKeys(journal) = {}
  BY <1>3
<1>7. DurableStateValid
  BY <1>6 DEF DurableStateValid, Inv, Sound, Ordered
<1> QED
  BY <1>2, <1>4, <1>5, <1>7

\* Inv is an invariant of every behaviour of the namespace.
LEMMA JournalInv == Spec => []Inv
<1>1. Init => Inv
  BY InitInv
<1>2. Inv /\ [Next]_journalVars => Inv'
  BY NextInv
<1> QED
  BY <1>1, <1>2, PTL DEF Spec

\* Type correctness of the durable state.
THEOREM JournalTypeCorrect == Spec => []TypeOK
BY JournalInv, InvExact, PTL

\* A center that bootstraps at the retention floor always ends with exactly
\* the materialized set.
THEOREM BootstrapIsExact == Spec => []BootstrapExact
BY JournalInv, InvExact, PTL

\* A center that follows the journal from its beginning always ends with
\* exactly the materialized set.
THEOREM FollowerIsExact == Spec => []FollowerExact
BY JournalInv, InvExact, PTL

\* The exporter can always read its own state file back.
THEOREM StateStaysReadable == Spec => []DurableStateValid
BY JournalInv, InvExact, PTL

-----------------------------------------------------------------------------
(* The evidence behind the trusted time.  ClockTypeOK and PendingIsWitnessed  *)
(* are inductive together: the second says that the pending fields of the     *)
(* clock summarise the end of seen, which is what a confirming reading turns  *)
(* into the evidence for a leap.                                              *)

ClockInv == ClockTypeOK /\ PendingIsWitnessed

\* What a reading beyond the believable range does to a witnessed series: it
\* becomes the last element of a series one longer.
LEMMA SeriesGrows ==
    ASSUME NEW s \in Seq(Nat), NEW n \in Nat, NEW from \in Nat, NEW t \in Nat,
           Corroborate(s, n, from), s[Len(s)] <= t, t > from + MaxForward
    PROVE  /\ Corroborate(Append(s, t), n + 1, from)
           /\ Append(s, t)[Len(Append(s, t)) - (n + 1) + 1]
                 = s[Len(s) - n + 1]
           /\ Append(s, t)[Len(Append(s, t))] = t
<1> DEFINE u == Append(s, t)
<1>1. /\ u \in Seq(Nat) /\ Len(u) = Len(s) + 1 /\ u[Len(u)] = t
      /\ \A i \in 1..Len(s) : u[i] = s[i]
  OBVIOUS
<1>2. n \in 1..Len(s) /\ Len(s) \in Nat
  BY DEF Corroborate
<1> HIDE DEF u
<1>3. \A i \in (Len(u) - (n + 1) + 1)..Len(u) : u[i] > from + MaxForward
  <2> SUFFICES ASSUME NEW i \in (Len(u) - (n + 1) + 1)..Len(u)
               PROVE  u[i] > from + MaxForward
    OBVIOUS
  <2>1. CASE i = Len(u)
    BY <2>1, <1>1
  <2>2. CASE i # Len(u)
    <3>1. i \in (Len(s) - n + 1)..Len(s) /\ i \in 1..Len(s)
      BY <2>2, <1>1, <1>2
    <3> QED
      BY <3>1, <1>1 DEF Corroborate
  <2> QED
    BY <2>1, <2>2
<1>4. \A i \in (Len(u) - (n + 1) + 1)..(Len(u) - 1) : u[i] <= u[i + 1]
  <2> SUFFICES ASSUME NEW i \in (Len(u) - (n + 1) + 1)..(Len(u) - 1)
               PROVE  u[i] <= u[i + 1]
    OBVIOUS
  <2>1. CASE i = Len(s)
    BY <2>1, <1>1, <1>2
  <2>2. CASE i # Len(s)
    <3>1. i \in (Len(s) - n + 1)..(Len(s) - 1)
      BY <2>2, <1>1, <1>2
    <3>2. s[i] <= s[i + 1]
      BY <3>1 DEF Corroborate
    <3>3. i \in 1..Len(s) /\ i + 1 \in 1..Len(s)
      BY <3>1, <1>2
    <3> QED
      BY <3>2, <3>3, <1>1
  <2> QED
    BY <2>1, <2>2
<1>5. u[Len(u) - (n + 1) + 1] = s[Len(s) - n + 1]
  <2>1. Len(u) - (n + 1) + 1 = Len(s) - n + 1 /\ Len(s) - n + 1 \in 1..Len(s)
    BY <1>1, <1>2
  <2> QED
    BY <2>1, <1>1
<1> QED
  BY <1>1, <1>2, <1>3, <1>4, <1>5 DEF Corroborate, u

\* A reading beyond the believable range is by itself a series of one.
LEMMA SeriesStarts ==
    ASSUME NEW s \in Seq(Nat), NEW from \in Nat, NEW t \in Nat,
           t > from + MaxForward
    PROVE  /\ Corroborate(Append(s, t), 1, from)
           /\ Append(s, t)[Len(Append(s, t)) - 1 + 1] = t
           /\ Append(s, t)[Len(Append(s, t))] = t
<1> DEFINE u == Append(s, t)
<1>1. u \in Seq(Nat) /\ Len(u) = Len(s) + 1 /\ u[Len(u)] = t /\ Len(s) \in Nat
  OBVIOUS
<1> HIDE DEF u
<1>2. Len(u) - 1 + 1 = Len(u) /\ 1 \in 1..Len(u)
  BY <1>1
<1>3. \A i \in (Len(u) - 1 + 1)..Len(u) : i = Len(u)
  BY <1>1
<1> QED
  BY <1>1, <1>2, <1>3, ClockAssumption DEF Corroborate, ClockAssumption, u

\* The invariant holds of a new clock.
LEMMA ClockInitInv == ClockInit => ClockInv
<1> SUFFICES ASSUME NEW t \in 0..MaxReading, clock = CurrentClock(t), seen = <<t>>
             PROVE  ClockInv
  BY DEF ClockInit
<1>1. t \in Nat
  BY ClockTrustAssumption DEF ClockTrustAssumption
<1> QED
  BY <1>1 DEF ClockInv, ClockTypeOK, PendingIsWitnessed, CurrentClock, Clock, ValidClock,
              IsPending

\* A reading that follows a pending series and lies beyond the believable
\* range extends the evidence for it.
LEMMA Continuing ==
    ASSUME ClockInv, NEW t \in Nat, seen' = Append(seen, t),
           t > clock.trusted + MaxForward, Continues(clock, t)
    PROVE  LET n == clock.confirmations + 1 IN
           /\ n \in Nat /\ n >= 2 /\ n <= Len(seen')
           /\ Corroborate(seen', n, clock.trusted)
           /\ seen'[Len(seen') - n + 1] = clock.started
           /\ seen'[Len(seen')] = t
<1> DEFINE n == clock.confirmations
<1>1. /\ n \in Nat /\ n > 0 /\ clock.trusted \in Nat
      /\ Corroborate(seen, n, clock.trusted)
      /\ clock.started = seen[Len(seen) - n + 1]
      /\ seen[Len(seen)] <= t /\ seen \in Seq(Nat)
  BY DEF ClockInv, ClockTypeOK, PendingIsWitnessed, Clock, Continues, IsPending
<1>2. /\ Corroborate(seen', n + 1, clock.trusted)
      /\ seen'[Len(seen') - (n + 1) + 1] = clock.started
      /\ seen'[Len(seen')] = t
  <2> HIDE DEF n
  <2> QED
    BY <1>1, SeriesGrows
<1>3. n + 1 <= Len(seen')
  BY <1>2 DEF Corroborate
<1>4. n + 1 \in Nat /\ n + 1 >= 2
  <2>1. n \in Nat /\ n > 0
    BY <1>1
  <2> HIDE DEF n
  <2> QED
    BY <2>1
<1> QED
  BY <1>2, <1>3, <1>4, Zenon

\* Every reading preserves the invariant.
LEMMA ClockNextInv == ClockInv /\ [ClockNext]_clockVars => ClockInv'
<1> SUFFICES ASSUME ClockInv, [ClockNext]_clockVars PROVE ClockInv'
  OBVIOUS
<1>1. CASE UNCHANGED clockVars
  BY <1>1 DEF ClockInv, ClockTypeOK, PendingIsWitnessed, clockVars
<1>2. CASE ClockNext
  <2>1. PICK t \in 0..MaxReading : ObserveClock(t)
    BY <1>2 DEF ClockNext
  <2>2. t \in Nat /\ clock \in Clock /\ ValidClock(clock) /\ seen \in Seq(Nat)
    BY ClockTrustAssumption DEF ClockTrustAssumption, ClockInv, ClockTypeOK
  <2>3. clock' = NextClock(clock, t) /\ seen' = Append(seen, t)
    BY <2>1 DEF ObserveClock
  <2>4. ClockTypeOK'
    <3>1. clock' \in Clock /\ ValidClock(clock')
      BY <2>2, <2>3, NextClockType
    <3>2. seen' \in Seq(Nat)
      BY <2>2, <2>3
    <3> QED
      BY <3>1, <3>2 DEF ClockTypeOK
  <2>5. PendingIsWitnessed'
    <3>1. CASE t <= clock.trusted
      <4>1. clock' = CurrentClock(clock.trusted)
        BY <3>1, <2>2, <2>3, ClockAssumption
           DEF NextClock, Clock, ClockAssumption
      <4> QED
        BY <4>1 DEF CurrentClock, IsPending, PendingIsWitnessed
    <3>2. CASE t > clock.trusted /\ t <= clock.trusted + MaxForward
      <4>1. clock' = CurrentClock(t)
        BY <3>2, <2>2, <2>3, ClockAssumption
           DEF NextClock, Clock, ClockAssumption
      <4> QED
        BY <4>1 DEF CurrentClock, IsPending, PendingIsWitnessed
    <3>3. CASE t > clock.trusted + MaxForward /\ ~Continues(clock, t)
      <4>1. clock' = PendingClock(clock.trusted, t) /\ clock.trusted \in Nat
        BY <3>3, <2>2, <2>3, ClockAssumption DEF NextClock, Clock,
                                                 ClockAssumption
      <4> QED
        BY <4>1, <3>3, <2>2, <2>3, SeriesStarts
           DEF PendingClock, PendingIsWitnessed
    <3>4. CASE t > clock.trusted + MaxForward /\ Continues(clock, t)
      <4>1. CASE Confirms(clock, t)
        <5>1. clock' = CurrentClock(t)
          BY <3>4, <4>1, <2>2, <2>3, ClockAssumption
             DEF NextClock, Clock, ClockAssumption
        <5> QED
          BY <5>1 DEF CurrentClock, IsPending, PendingIsWitnessed
      <4>2. CASE ~Confirms(clock, t)
        <5>1. clock' = ExtendedClock(clock, t)
          BY <3>4, <4>2, <2>2, <2>3, ClockAssumption
             DEF NextClock, Clock, ClockAssumption
        <5> QED
          BY <5>1, <3>4, <2>2, <2>3, Continuing
             DEF ExtendedClock, PendingIsWitnessed
      <4> QED
        BY <4>1, <4>2
    <3> QED
      BY <3>1, <3>2, <3>3, <3>4, <2>2, ClockAssumption
         DEF Clock, ClockAssumption
  <2> QED
    BY <2>4, <2>5 DEF ClockInv
<1> QED
  BY <1>1, <1>2

\* ClockTypeOK and PendingIsWitnessed hold of every reachable state.
LEMMA ClockInductive == ClockSpec => []ClockInv
BY ClockInitInv, ClockNextInv, PTL DEF ClockSpec

\* Every clock that next_retention_clock reaches is one that validate accepts
\* when the state file is read back.
THEOREM ClockTypeCorrect == ClockSpec => []ClockTypeOK
<1>1. ClockInv => ClockTypeOK
  BY DEF ClockInv
<1> QED
  BY <1>1, ClockInductive, PTL

\* The pending series of every reachable clock is witnessed by the readings
\* really made.
THEOREM PendingWitnessed == ClockSpec => []PendingIsWitnessed
<1>1. ClockInv => PendingIsWitnessed
  BY DEF ClockInv
<1> QED
  BY <1>1, ClockInductive, PTL

\* One step leaps only on corroborated evidence.
LEMMA StepCorroborated ==
    ASSUME ClockInv, [ClockNext]_clockVars
    PROVE  [/\ clock'.trusted >= clock.trusted
            /\ clock'.trusted > clock.trusted + MaxForward =>
                 \E n \in 2..Len(seen') :
                    /\ n >= MinConfirmations
                    /\ Corroborate(seen', n, clock.trusted)
                    /\ seen'[Len(seen')] >= seen'[Len(seen') - n + 1]
                                              + ConfirmSpan
           ]_clockVars
<1> SUFFICES ASSUME ClockNext
             PROVE  /\ clock'.trusted >= clock.trusted
                    /\ clock'.trusted > clock.trusted + MaxForward =>
                         \E n \in 2..Len(seen') :
                            /\ n >= MinConfirmations
                            /\ Corroborate(seen', n, clock.trusted)
                            /\ seen'[Len(seen')] >=
                                 seen'[Len(seen') - n + 1] + ConfirmSpan
  OBVIOUS
<1>1. PICK t \in 0..MaxReading : ObserveClock(t)
  BY DEF ClockNext
<1>2. t \in Nat /\ clock \in Clock /\ ValidClock(clock) /\ seen \in Seq(Nat)
  BY ClockTrustAssumption DEF ClockTrustAssumption, ClockInv, ClockTypeOK
<1>3. clock' = NextClock(clock, t) /\ seen' = Append(seen, t)
  BY <1>1 DEF ObserveClock
<1>4. clock'.trusted >= clock.trusted
  BY <1>2, <1>3, NextClockType
<1>5. ASSUME clock'.trusted > clock.trusted + MaxForward
      PROVE  /\ t > clock.trusted + MaxForward
             /\ Continues(clock, t) /\ Confirms(clock, t)
  BY <1>5, <1>2, <1>3, ClockAssumption
     DEF NextClock, CurrentClock, PendingClock, ExtendedClock, Clock,
         ClockAssumption
<1>6. ASSUME clock'.trusted > clock.trusted + MaxForward
      PROVE  \E n \in 2..Len(seen') :
                /\ n >= MinConfirmations
                /\ Corroborate(seen', n, clock.trusted)
                /\ seen'[Len(seen')] >= seen'[Len(seen') - n + 1]
                                          + ConfirmSpan
  <2> DEFINE n == clock.confirmations + 1
  <2>1. /\ n \in Nat /\ n >= 2 /\ n <= Len(seen')
        /\ Corroborate(seen', n, clock.trusted)
        /\ seen'[Len(seen') - n + 1] = clock.started
        /\ seen'[Len(seen')] = t
    BY <1>5, <1>6, <1>2, <1>3, Continuing
  <2>2. t >= clock.started + ConfirmSpan /\ n >= MinConfirmations
    BY <1>5, <1>6 DEF Confirms
  <2>3. n \in 2..Len(seen')
    BY <2>1, <1>2, <1>3
  <2> HIDE DEF n
  <2> QED
    BY <2>1, <2>2, <2>3
<1> QED
  BY <1>4, <1>6

\* The trusted time of the journal never moves back and leaps only on the
\* evidence of enough consecutive agreeing readings over a long enough span.
THEOREM TrustedTime == ClockSpec => LeapsAreCorroborated
<1>1. ClockInv /\ [ClockNext]_clockVars =>
        [/\ clock'.trusted >= clock.trusted
         /\ clock'.trusted > clock.trusted + MaxForward =>
              \E n \in 2..Len(seen') :
                 /\ n >= MinConfirmations
                 /\ Corroborate(seen', n, clock.trusted)
                 /\ seen'[Len(seen')] >= seen'[Len(seen') - n + 1] + ConfirmSpan
        ]_clockVars
  BY StepCorroborated
<1> QED
  BY <1>1, ClockInductive, PTL DEF ClockSpec, LeapsAreCorroborated

=============================================================================
