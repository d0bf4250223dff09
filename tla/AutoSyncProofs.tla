--------------------------- MODULE AutoSyncProofs ---------------------------
(***************************************************************************)
(* Proofs about automatic synchronization, for any number of hosts, rows,  *)
(* intervals and backoff delays, and without a bound on disturbances other *)
(* than its being a number.                                                *)
(***************************************************************************)
EXTENDS AutoSync, TLAPS

-----------------------------------------------------------------------------
(* The health record. *)

\* A delay that runs down stays a delay.
LEMMA LessType ==
    /\ \A d \in Nat : Less(d) \in Nat
    /\ \A d \in Nat \union {NoTime} : Less(d) \in Nat \union {NoTime}
BY DEF Less, NoTime

\* One more failure is a streak of at least one.
LEMMA LongerType == \A n \in Streaks : Longer(n) \in Streaks /\ Longer(n) >= 1
BY RowAssumption DEF Streaks, Longer

\* A new record is a record, and none is about no source.
LEMMA NewHealthType ==
    /\ NoHealth \in Health
    /\ \A r \in Rows : NewHealth(PinOf[r]) \in Health /\ PinOf[r] # NoPin
BY RowAssumption DEF NoHealth, NewHealth, Health, Pins, Streaks, NoTime

\* What a write for row r does to the source and the pause.
LEMMA ResultEntryType ==
    ASSUME NEW e \in Health, NEW r \in Rows
    PROVE  /\ ResultEntry(e, r) \in Health
           /\ Known(ResultEntry(e, r))
           /\ ~Refuses(e, r) => ResultEntry(e, r).pin = PinOf[r]
           /\ Known(e) => ResultEntry(e, r) = e
BY NewHealthType DEF ResultEntry, Refuses, Known, NewHealth

\* Reconciling a record leaves it about the source of the configured row, and
\* keeps the pause of that row.
LEMMA ReconcileEntryType ==
    ASSUME NEW e \in Health, NEW r \in Rows
    PROVE  /\ ReconcileEntry(e, r) \in Health
           /\ ReconcileEntry(e, r).pin = PinOf[r]
           /\ PausedFor(e, r) /\ e.pin = PinOf[r] => ReconcileEntry(e, r) = e
<1> DEFINE kept == IF e.pin = PinOf[r] THEN e ELSE NewHealth(PinOf[r])
<1>1. kept \in Health /\ kept.pin = PinOf[r]
  BY NewHealthType DEF NewHealth
<1>2. [kept EXCEPT !.pause = NoRow] \in Health
      /\ [kept EXCEPT !.pause = NoRow].pin = PinOf[r]
  BY <1>1 DEF Health
<1>3. QED
  BY <1>1, <1>2 DEF ReconcileEntry

\* A success keeps the source, and pauses the row if it left a residual.
LEMMA RecordSuccessType ==
    ASSUME NEW e \in Health, NEW r \in Rows, NEW activity \in BOOLEAN,
           NEW uncertain \in BOOLEAN, NEW newer \in BOOLEAN,
           NEW wait \in Nat \union {NoTime}
    PROVE  LET w == RecordSuccess(e, r, activity, uncertain, newer, wait)
           IN  /\ w \in Health
               /\ w.pin = ResultEntry(e, r).pin
               /\ uncertain => w.pause = r
<1> DEFINE f == ResultEntry(e, r)
<1>1. f \in Health
  BY ResultEntryType
<1>2. Hysteresis \in Nat /\ 0 \in Streaks
  BY RowAssumption DEF Streaks
<1> HIDE DEF f
<1>3. QED
  BY <1>1, <1>2 DEF RecordSuccess, Health, f

\* A failure keeps the source, and the pause unless it is a residual.
LEMMA RecordFailureType ==
    ASSUME NEW e \in Health, NEW r \in Rows, NEW contained \in BOOLEAN,
           NEW wait \in Nat \union {NoTime}
    PROVE  LET w == RecordFailure(e, r, contained, wait)
           IN  /\ w \in Health
               /\ w.pin = ResultEntry(e, r).pin
               /\ contained => w.pause = r
               /\ ~contained => w.pause = ResultEntry(e, r).pause
<1> DEFINE f == ResultEntry(e, r)
<1>1. f \in Health /\ Longer(f.fails) \in Streaks
  BY ResultEntryType, LongerType DEF Health
<1> HIDE DEF f
<1>2. QED
  BY <1>1 DEF RecordFailure, Health, f

\* So does a refusal of the bandwidth ledger.
LEMMA RecordPauseType ==
    ASSUME NEW e \in Health, NEW r \in Rows, NEW hard \in BOOLEAN,
           NEW uncertain \in BOOLEAN
    PROVE  LET w == RecordPause(e, r, hard, uncertain)
           IN  /\ w \in Health
               /\ w.pin = ResultEntry(e, r).pin
               /\ w.pause = IF uncertain THEN r ELSE ResultEntry(e, r).pause
<1> DEFINE f == ResultEntry(e, r)
<1>1. f \in Health /\ ProbeInterval \in Nat
  BY ResultEntryType, RowAssumption
<1> HIDE DEF f
<1>2. QED
  BY <1>1 DEF RecordPause, Health, f

\* The pause is written for the row given, and cleared for any.
LEMMA ContainmentType ==
    ASSUME NEW e \in Health, NEW r \in Rows
    PROVE  /\ RecordContainment(e, r) \in Health
           /\ RecordContainment(e, r).pin = ResultEntry(e, r).pin
           /\ RecordContainment(e, r).pause = r
           /\ ClearContainment(e) \in Health
           /\ ClearContainment(e).pause = NoRow
<1> DEFINE f == ResultEntry(e, r)
<1>1. f \in Health
  BY ResultEntryType
<1> HIDE DEF f
<1>2. QED
  BY <1>1 DEF RecordContainment, ClearContainment, Health, f

\* Time and a claimed probe move only deadlines.
LEMMA ClockedType ==
    ASSUME NEW e \in Health
    PROVE  /\ HealthAfter(e) \in Health
           /\ HealthAfter(e).pin = e.pin /\ HealthAfter(e).pause = e.pause
           /\ ClaimProbe(e) \in Health
           /\ ClaimProbe(e).pin = e.pin /\ ClaimProbe(e).pause = e.pause
<1>1. /\ Less(e.wait) \in Nat \union {NoTime}
      /\ Less(e.probe) \in Nat \union {NoTime}
      /\ Less(e.active) \in Nat
      /\ ProbeInterval \in Nat
  BY LessType, RowAssumption DEF Health
<1>2. QED
  BY <1>1 DEF HealthAfter, ClaimProbe, Health

-----------------------------------------------------------------------------
(* The schedule. *)

\* Rounding up keeps a retry delay positive.
LEMMA RetryDelay ==
    ASSUME NEW b \in Nat \ {0}, NEW p \in 80..120
    PROVE  (b * p + 99) \div 100 \in Nat \ {0}
<1>1. b * p \in Nat /\ b * p >= 1
  OBVIOUS
<1>2. QED
  BY <1>1

\* Every delay an attempt may be followed by is positive.
LEMMA DelaysType ==
    ASSUME NEW outcome \in Outcomes, NEW fails \in Streaks, NEW active \in Nat,
           outcome \in Successes \union {"soft", "hard"} \/ fails >= 1
    PROVE  Delays(outcome, fails, active) \subseteq Nat \ {0}
<1>1. {ActiveInterval, IdleInterval, ProbeInterval} \subseteq Nat \ {0}
  BY RowAssumption, AutoSyncAssumption
<1>2. CASE outcome \in Successes \union {"soft", "hard"}
  BY <1>1, <1>2 DEF Delays, Successes
<1>3. CASE outcome \notin Successes \union {"soft", "hard"}
  <2>1. Backoff[fails] \in Nat \ {0}
    BY <1>3, RowAssumption DEF Streaks
  <2>2. RetryDelays(fails) \subseteq Nat \ {0}
    BY <2>1, RetryDelay DEF RetryDelays
  <2>3. QED
    BY <1>3, <2>2 DEF Delays, Successes
<1>4. QED
  BY <1>2, <1>3

\* A finished attempt leaves its host's schedule on the same row, and paused
\* or not due.
LEMMA AfterType ==
    ASSUME NEW s \in Schedule, NEW outcome \in Outcomes, NEW uncertain \in BOOLEAN,
           NEW t \in After(s, outcome, uncertain)
    PROVE  /\ t \in Schedule
           /\ t.row = s.row
           /\ t.paused \/ t.wait > 0
<1> DEFINE active == IF outcome = "changed" /\ ~uncertain THEN Hysteresis ELSE s.active
           fails  == CASE outcome \in Successes      -> 0
                       [] outcome \in {"soft", "hard"} -> s.fails
                       [] OTHER                      -> Longer(s.fails)
<1>1. active \in Nat
  BY RowAssumption DEF Schedule
<1>2. fails \in Streaks
      /\ (outcome \in Successes \union {"soft", "hard"} \/ fails >= 1)
  <2>1. s.fails \in Streaks /\ 0 \in Streaks
    BY RowAssumption DEF Schedule, Streaks
  <2>2. Longer(s.fails) \in Streaks /\ Longer(s.fails) >= 1
    BY <2>1, LongerType
  <2>3. QED
    BY <2>1, <2>2
<1>3. Delays(outcome, fails, active) \subseteq Nat \ {0}
  BY <1>1, <1>2, DelaysType
<1>4. CASE uncertain
  <2>1. t = Paused(s)
    BY <1>4 DEF After
  <2>2. 0 \in Streaks
    BY RowAssumption DEF Streaks
  <2>3. Paused(s) \in Schedule /\ Paused(s).row = s.row
    BY <2>2 DEF Paused, Schedule
  <2>4. Paused(s).paused = TRUE
    BY DEF Paused, Schedule
  <2>5. QED
    BY <2>1, <2>3, <2>4
<1>5. CASE ~uncertain
  <2>1. PICK d \in Delays(outcome, fails, active) :
            t = [s EXCEPT !.fails = fails, !.wait = d, !.active = active]
    BY <1>5 DEF After
  <2>2. d \in Nat /\ d > 0
    BY <1>3
  <2> HIDE DEF fails, active
  <2>3. QED
    BY <2>1, <2>2, <1>1, <1>2 DEF Schedule
<1>6. QED
  BY <1>4, <1>5

\* A tick gives every eligible host a schedule of its configured row, and the
\* other hosts none.
LEMMA ReconciledType ==
    ASSUME TypeOK, NEW h \in Hosts
    PROVE  /\ Reconciled(h) \in Schedule
           /\ Reconciled(h).row = IF h \in Eligible THEN rows[h] ELSE NoRow
<1>1. /\ health[h] \in Health /\ sched[h] \in Schedule
      /\ rows[h] \in Rows \union {NoRow} /\ 0 \in Streaks
  BY RowAssumption DEF TypeOK, Streaks
<1>2. ASSUME NEW s \in Schedule
      PROVE  /\ Paused(s) \in Schedule /\ Paused(s).row = s.row
             /\ Unpaused(s) \in Schedule /\ Unpaused(s).row = s.row
  BY <1>1 DEF Paused, Unpaused, Schedule
<1>3. ASSUME NEW r \in Rows \union {NoRow}
      PROVE  NewSchedule(r) \in Schedule /\ NewSchedule(r).row = r
  BY <1>1 DEF NewSchedule, Schedule
<1>4. KnownSchedule(sched[h], health[h]) \in Schedule
      /\ KnownSchedule(sched[h], health[h]).row = sched[h].row
  BY <1>1, <1>2 DEF KnownSchedule
<1>5. HasSeed(health[h], rows[h]) =>
         /\ Restored(health[h], rows[h]) \in Schedule
         /\ Restored(health[h], rows[h]).row = rows[h]
  BY <1>1 DEF HasSeed, Restored, NewSchedule, Schedule, Health
<1>6. FreshSchedule(health[h], rows[h]) \in Schedule
      /\ FreshSchedule(health[h], rows[h]).row = rows[h]
  BY <1>1, <1>2, <1>3, <1>5 DEF FreshSchedule
<1>7. QED
  BY <1>1, <1>3, <1>4, <1>6 DEF Reconciled, NoSchedule

-----------------------------------------------------------------------------
(* The invariant. *)

\* A sleeping worker has no attempt, and an attempt is of the row its host is
\* scheduled with.
AttemptInv ==
    /\ phase = "sleep" => attempt.host = 0
    /\ attempt.host # 0 => sched[attempt.host].row = attempt.row

\* A host without a record has no pause.
RecordInv(h) == ~Known(health[h]) => health[h].pause = NoRow

\* While a residual of the worker is owed a pause, the host is scheduled with
\* the row it was found with, if at all.
OwedInv(h) ==
    owed[h] \in {"worker", "unstored"} =>
        rows[h] # NoRow /\ sched[h].row \in {rows[h], NoRow}

\* Once the pause is in the file it is in force for that row, under that
\* row's source, and the only result that may still be written to the record
\* is of the attempt that found the residual.
PausedInv(h) ==
    owed[h] = "worker" =>
        /\ PausedFor(health[h], rows[h])
        /\ health[h].pin = PinOf[rows[h]]
        /\ attempt.host = h /\ phase # "settle" =>
              attempt.uncertain /\ attempt.row = rows[h]

HostInv(h) == RecordInv(h) /\ OwedInv(h) /\ PausedInv(h)

ResidualInv ==
    /\ TypeOK
    /\ AttemptInv
    /\ \A h \in Hosts : HostInv(h)

\* The recorder starts with nothing owed.
LEMMA ResidualInit == Init => ResidualInv
<1> SUFFICES ASSUME Init PROVE ResidualInv
  OBVIOUS
<1>1. NoHealth \in Health /\ NoHealth.pause = NoRow
  BY NewHealthType DEF NoHealth, NewHealth
<1>2. NoSchedule \in Schedule
  BY RowAssumption DEF NoSchedule, NewSchedule, Schedule, Streaks
<1>3. NoAttempt \in Attempt /\ NoAttempt.host = 0 /\ NoAttempt.accepted = FALSE
  BY AutoSyncAssumption DEF NoAttempt, Attempt
<1>4. TypeOK
  BY <1>1, <1>2, <1>3, AutoSyncAssumption DEF Init, TypeOK, Phases, Finders
<1>5. AttemptInv
  BY <1>3 DEF Init, AttemptInv
<1>6. \A h \in Hosts : HostInv(h)
  BY <1>1 DEF Init, HostInv, RecordInv, OwedInv, PausedInv
<1>7. QED
  BY <1>4, <1>5, <1>6 DEF ResidualInv

\* The heart of the matter: a host that is owed its stored pause is never due.
LEMMA OwedNotDue ==
    ASSUME ResidualInv, NEW h \in Due
    PROVE  owed[h] # "worker"
<1> SUFFICES ASSUME owed[h] = "worker" PROVE FALSE
  OBVIOUS
<1>1. h \in Hosts /\ h \in Eligible /\ ~Reconciled(h).paused
  BY DEF Due, Eligible
<1>2. PausedFor(health[h], rows[h]) /\ sched[h].row \in {rows[h], NoRow}
  BY <1>1 DEF ResidualInv, HostInv, OwedInv, PausedInv
<1>3. sched[h] \in Schedule /\ health[h] \in Health
  BY <1>1 DEF ResidualInv, TypeOK
<1>4. ASSUME NEW s \in Schedule
      PROVE  Paused(s).paused = TRUE
  BY DEF Paused, Schedule
<1>5. CASE sched[h].row = rows[h]
  <2>1. Reconciled(h) = Paused(sched[h])
    <3>1. Reconciled(h) = KnownSchedule(sched[h], health[h])
      BY <1>1, <1>2, <1>5 DEF Reconciled, PausedFor
    <3>2. PausedFor(health[h], sched[h].row)
      BY <1>2, <1>5
    <3>3. QED
      BY <3>1, <3>2 DEF KnownSchedule
  <2>2. Paused(sched[h]).paused = TRUE
    BY <1>3, <1>4
  <2>3. QED
    BY <1>1, <2>1, <2>2
<1>6. CASE sched[h].row = NoRow
  <2>1. rows[h] # NoRow
    BY <1>2 DEF PausedFor
  <2>2. Reconciled(h) = FreshSchedule(health[h], rows[h])
    BY <1>1, <1>6, <2>1 DEF Reconciled
  <2>3. PICK s \in Schedule : FreshSchedule(health[h], rows[h]) = Paused(s)
    <3>1. rows[h] \in Rows /\ 0 \in Streaks
      BY <1>1, <2>1, RowAssumption DEF ResidualInv, TypeOK, Streaks
    <3>2. NewSchedule(rows[h]) \in Schedule
      BY <3>1 DEF NewSchedule, Schedule
    <3>3. HasSeed(health[h], rows[h]) => Restored(health[h], rows[h]) \in Schedule
      BY <1>3, <3>1 DEF HasSeed, Restored, NewSchedule, Schedule, Health
    <3>4. QED
      BY <1>2, <3>2, <3>3 DEF FreshSchedule
  <2>4. QED
    BY <1>1, <1>4, <2>2, <2>3
<1>7. QED
  BY <1>2, <1>5, <1>6

-----------------------------------------------------------------------------
(* One lemma per group of actions: each keeps the invariant. *)

\* The values an idle worker has.
LEMMA IdleTypes ==
    /\ NoAttempt \in Attempt /\ NoAttempt.host = 0 /\ NoAttempt.accepted = FALSE
    /\ NoSchedule \in Schedule /\ NoSchedule.row = NoRow
    /\ 0 \in 0..N
BY RowAssumption, AutoSyncAssumption
   DEF NoAttempt, Attempt, NoSchedule, NewSchedule, Schedule, Streaks

\* A tick schedules hosts by their configured rows, and selects one that is
\* not owed a pause.
LEMMA TickStep ==
    ASSUME ResidualInv,
           TickDisabled \/ TickWaiting \/ \E h \in Hosts : TickSelect(h)
    PROVE  ResidualInv'
<1>1. TypeOK /\ AttemptInv /\ \A h \in Hosts : HostInv(h)
  BY DEF ResidualInv
<1>2. LastEligible \in 0..N
  BY <1>1, IdleTypes DEF TypeOK, LastEligible
<1>3. Schedules \in [Hosts -> Schedule]
      /\ \A h \in Hosts : Schedules[h].row \in {rows[h], NoRow}
  BY <1>1, ReconciledType DEF Schedules
<1>4. CASE TickDisabled
  <2>1. TypeOK'
    BY <1>1, <1>4, IdleTypes DEF TickDisabled, TypeOK, config, aux, Phases
  <2>2. AttemptInv'
    BY <1>4, IdleTypes DEF TickDisabled, AttemptInv
  <2>3. ASSUME NEW h \in Hosts PROVE HostInv(h)'
    <3>1. HostInv(h) /\ h # 0
      BY <1>1 DEF Hosts
    <3>2. QED
      BY <3>1, <1>4, IdleTypes
         DEF TickDisabled, HostInv, RecordInv, OwedInv, PausedInv, config, aux
  <2>4. QED
    BY <2>1, <2>2, <2>3 DEF ResidualInv, Hosts
<1>5. CASE TickWaiting
  <2>1. TypeOK'
    BY <1>1, <1>2, <1>3, <1>5, IdleTypes DEF TickWaiting, TypeOK, config, aux, Phases
  <2>2. AttemptInv'
    BY <1>5, IdleTypes DEF TickWaiting, AttemptInv
  <2>3. ASSUME NEW h \in Hosts PROVE HostInv(h)'
    <3>1. HostInv(h) /\ h # 0
      BY <1>1 DEF Hosts
    <3>2. QED
      BY <3>1, <1>3, <1>5, IdleTypes
         DEF TickWaiting, HostInv, RecordInv, OwedInv, PausedInv, config, aux
  <2>4. QED
    BY <2>1, <2>2, <2>3 DEF ResidualInv, Hosts
<1>6. ASSUME NEW h \in Hosts, TickSelect(h)
      PROVE  ResidualInv'
  <2>1. h \in Due /\ h \in Eligible /\ owed[h] # "worker"
    BY <1>6, OwedNotDue DEF TickSelect, Due
  <2>2. h \in 0..N /\ h # 0 /\ rows[h] \in Rows /\ rows[h] # NoRow
    BY <2>1, <1>1, RowAssumption, AutoSyncAssumption DEF Hosts, TypeOK, Eligible
  <2>3. /\ attempt' \in Attempt
        /\ attempt'.host = h /\ attempt'.row = rows[h] /\ attempt'.accepted = FALSE
    BY <1>6, <2>2 DEF TickSelect, NoAttempt, Attempt
  <2>4. TypeOK'
    BY <1>1, <1>2, <1>3, <1>6, <2>2, <2>3
       DEF TickSelect, TypeOK, config, aux, Phases
  <2>5. AttemptInv'
    <3>1. Schedules[h].row = rows[h]
      BY <2>1, <1>1, ReconciledType DEF Schedules
    <3>2. QED
      BY <1>6, <2>3, <3>1 DEF TickSelect, AttemptInv
  <2>6. ASSUME NEW g \in Hosts PROVE HostInv(g)'
    BY <1>1, <1>3, <1>6, <2>1, <2>3
       DEF TickSelect, HostInv, RecordInv, OwedInv, PausedInv, config, aux
  <2>7. QED
    BY <2>4, <2>5, <2>6 DEF ResidualInv, Hosts
<1>7. QED
  BY <1>4, <1>5, <1>6

\* A claimed probe moves one deadline.
LEMMA ProbeStep == ResidualInv /\ ClaimDueProbe => ResidualInv'
<1> SUFFICES ASSUME ResidualInv, ClaimDueProbe PROVE ResidualInv'
  OBVIOUS
<1>1. TypeOK /\ AttemptInv /\ \A h \in Hosts : HostInv(h)
  BY DEF ResidualInv
<1> DEFINE h == attempt.host
<1>2. h \in Hosts /\ health[h] \in Health
  BY <1>1 DEF ClaimDueProbe, TypeOK, Attempt, Hosts
<1>3. /\ ClaimProbe(health[h]) \in Health
      /\ ClaimProbe(health[h]).pin = health[h].pin
      /\ ClaimProbe(health[h]).pause = health[h].pause
  BY <1>2, ClockedType
<1>4. /\ attempt' \in Attempt /\ attempt'.host = h /\ attempt'.row = attempt.row
      /\ attempt'.accepted = attempt.accepted
      /\ attempt'.uncertain = attempt.uncertain
  BY <1>1 DEF ClaimDueProbe, TypeOK, Attempt
<1>5. /\ health' \in [Hosts -> Health]
      /\ \A g \in Hosts : /\ health'[g].pin = health[g].pin
                          /\ health'[g].pause = health[g].pause
  BY <1>1, <1>2, <1>3 DEF ClaimDueProbe, TypeOK
<1>6. TypeOK'
  BY <1>1, <1>4, <1>5 DEF ClaimDueProbe, TypeOK, config, scheduler, aux
<1>7. AttemptInv'
  BY <1>1, <1>4 DEF ClaimDueProbe, AttemptInv, scheduler
<1>8. ASSUME NEW g \in Hosts PROVE HostInv(g)'
  BY <1>1, <1>4, <1>5
     DEF ClaimDueProbe, HostInv, RecordInv, OwedInv, PausedInv, PausedFor, Known,
         config, scheduler, aux
<1>9. QED
  BY <1>6, <1>7, <1>8 DEF ResidualInv, Hosts

\* A residual is stored for the row it was found with; the attempt that found
\* it is the only one whose result may follow.
LEMMA ContainStep == ResidualInv /\ Contain => ResidualInv'
<1> SUFFICES ASSUME ResidualInv, Contain PROVE ResidualInv'
  OBVIOUS
<1>1. TypeOK /\ AttemptInv /\ \A h \in Hosts : HostInv(h)
  BY DEF ResidualInv
<1> DEFINE h == attempt.host
           r == attempt.row
<1>2. h \in Hosts /\ health[h] \in Health /\ r \in Rows
  BY <1>1 DEF Contain, TypeOK, Attempt, Hosts
<1>3. /\ RecordContainment(health[h], r) \in Health
      /\ RecordContainment(health[h], r).pin = ResultEntry(health[h], r).pin
      /\ RecordContainment(health[h], r).pause = r
      /\ ResultEntry(health[h], r).pin # NoPin
      /\ ~Refuses(health[h], r) => ResultEntry(health[h], r).pin = PinOf[r]
  BY <1>2, ContainmentType, ResultEntryType DEF Known
<1>4. /\ attempt' \in Attempt /\ attempt'.host = h /\ attempt'.row = r
      /\ attempt'.accepted = attempt.accepted
      /\ attempt'.uncertain = TRUE
  BY <1>1 DEF Contain, TypeOK, Attempt
<1>5. health' \in [Hosts -> Health]
  BY <1>1, <1>2, <1>3 DEF Contain, TypeOK
<1>6. owed' \in [Hosts -> Finders]
  BY <1>1, <1>2 DEF Contain, TypeOK, Finders
<1>7. TypeOK'
  BY <1>1, <1>4, <1>5, <1>6 DEF Contain, TypeOK, config, scheduler
<1>8. AttemptInv'
  BY <1>1, <1>4 DEF Contain, AttemptInv, scheduler
<1>9. ASSUME NEW g \in Hosts, g # h PROVE HostInv(g)'
  <2>1. health'[g] = health[g] /\ owed'[g] = owed[g]
    BY <1>1, <1>9 DEF Contain, TypeOK
  <2>2. QED
    BY <2>1, <1>1, <1>4, <1>9
       DEF Contain, HostInv, RecordInv, OwedInv, PausedInv, config, scheduler
<1>10. ASSUME NEW g \in Hosts, g = h PROVE HostInv(g)'
  <2>1. sched[g].row = r /\ phase = "ssh" /\ attempt.uncertain = FALSE
    BY <1>1, <1>2, <1>10 DEF Contain, AttemptInv, TypeOK, Hosts, Attempt
  <2>2. owed[g] # "worker"
    BY <1>1, <1>10, <2>1 DEF HostInv, PausedInv
  <2>3. CASE r # rows[g]
    <3>1. owed'[g] = owed[g] /\ owed[g] # "worker"
      BY <1>1, <1>10, <2>2, <2>3 DEF Contain
    <3>2. RecordInv(g)'
      BY <1>1, <1>10, <1>3 DEF Contain, TypeOK, HostInv, RecordInv, Known
    <3>3. OwedInv(g)'
      BY <1>1, <3>1 DEF Contain, HostInv, OwedInv, config, scheduler
    <3>4. QED
      BY <3>1, <3>2, <3>3 DEF HostInv, PausedInv
  <2>4. CASE r = rows[g] /\ Refuses(health[g], r)
    <3>1. owed'[g] = "unstored" /\ health' = health
      BY <1>1, <1>10, <2>4 DEF Contain, TypeOK
    <3>2. rows[g] # NoRow
      BY <1>2, <2>4, RowAssumption
    <3>3. QED
      BY <1>1, <2>1, <2>4, <3>1, <3>2
         DEF Contain, HostInv, RecordInv, OwedInv, PausedInv, config, scheduler
  <2>5. CASE r = rows[g] /\ ~Refuses(health[g], r)
    <3>1. owed'[g] = "worker" /\ health'[g] = RecordContainment(health[g], r)
      BY <1>1, <1>10, <2>5 DEF Contain, TypeOK
    <3>2. rows[g] # NoRow
      BY <1>2, <2>5, RowAssumption
    <3>3. QED
      BY <1>3, <1>4, <1>10, <2>1, <2>5, <3>1, <3>2
         DEF Contain, HostInv, RecordInv, OwedInv, PausedInv, PausedFor, Known,
             config, scheduler
  <2>6. QED
    BY <2>3, <2>4, <2>5
<1>11. QED
  BY <1>7, <1>8, <1>9, <1>10 DEF ResidualInv, Hosts

\* A residual whose pause cannot be written is owed a pause that is not stored.
LEMMA ContainUnwrittenStep == ResidualInv /\ ContainUnwritten => ResidualInv'
<1> SUFFICES ASSUME ResidualInv, ContainUnwritten PROVE ResidualInv'
  OBVIOUS
<1>1. TypeOK /\ AttemptInv /\ \A h \in Hosts : HostInv(h)
  BY DEF ResidualInv
<1> DEFINE h == attempt.host
           r == attempt.row
<1>2. h \in Hosts /\ r \in Rows
  BY <1>1 DEF ContainUnwritten, TypeOK, Attempt, Hosts
<1>3. /\ attempt' \in Attempt /\ attempt'.host = h /\ attempt'.row = r
      /\ attempt'.accepted = attempt.accepted
      /\ attempt'.uncertain = TRUE
  BY <1>1 DEF ContainUnwritten, TypeOK, Attempt
<1>4. owed' \in [Hosts -> Finders]
  BY <1>1, <1>2 DEF ContainUnwritten, TypeOK, Finders
<1>5. TypeOK'
  BY <1>1, <1>3, <1>4 DEF ContainUnwritten, Disturb, TypeOK, config, scheduler
<1>6. AttemptInv'
  BY <1>1, <1>3 DEF ContainUnwritten, AttemptInv, scheduler
<1>7. ASSUME NEW g \in Hosts, g # h PROVE HostInv(g)'
  <2>1. owed'[g] = owed[g]
    BY <1>1, <1>7 DEF ContainUnwritten, TypeOK
  <2>2. QED
    BY <2>1, <1>1, <1>3, <1>7
       DEF ContainUnwritten, HostInv, RecordInv, OwedInv, PausedInv, config, scheduler
<1>8. ASSUME NEW g \in Hosts, g = h PROVE HostInv(g)'
  <2>1. sched[g].row = r /\ phase = "ssh" /\ attempt.uncertain = FALSE
    BY <1>1, <1>2, <1>8 DEF ContainUnwritten, AttemptInv, TypeOK, Hosts, Attempt
  <2>2. owed[g] # "worker"
    BY <1>1, <1>8, <2>1 DEF HostInv, PausedInv
  <2>3. CASE r # rows[g]
    <3>1. owed'[g] = owed[g]
      BY <1>1, <1>8, <2>3 DEF ContainUnwritten, TypeOK
    <3>2. QED
      BY <1>1, <2>2, <3>1
         DEF ContainUnwritten, HostInv, RecordInv, OwedInv, PausedInv, config, scheduler
  <2>4. CASE r = rows[g]
    <3>1. owed'[g] = "unstored"
      BY <1>1, <1>8, <2>4 DEF ContainUnwritten, TypeOK
    <3>2. rows[g] # NoRow
      BY <1>2, <2>4, RowAssumption
    <3>3. QED
      BY <1>1, <2>1, <2>4, <3>1, <3>2
         DEF ContainUnwritten, HostInv, RecordInv, OwedInv, PausedInv, config, scheduler
  <2>5. QED
    BY <2>3, <2>4
<1>9. QED
  BY <1>5, <1>6, <1>7, <1>8 DEF ResidualInv, Hosts

\* Filing an outcome moves the delay and the streak of one schedule.
LEMMA FinishStep ==
    ASSUME ResidualInv, NEW outcome \in Outcomes, Finish(outcome)
    PROVE  ResidualInv'
<1>1. TypeOK /\ AttemptInv /\ \A h \in Hosts : HostInv(h)
  BY DEF ResidualInv
<1> DEFINE h == attempt.host
<1>2. h \in Hosts /\ h \in 0..N /\ sched[h] \in Schedule /\ attempt.uncertain \in BOOLEAN
  BY <1>1 DEF Finish, TypeOK, Attempt, Hosts
<1>3. PICK s \in After(sched[h], outcome, attempt.uncertain) :
          sched' = [sched EXCEPT ![h] = s]
  BY DEF Finish
<1>4. s \in Schedule /\ s.row = sched[h].row
  BY <1>2, <1>3, AfterType
<1>5. /\ sched' \in [Hosts -> Schedule]
      /\ \A g \in Hosts : sched'[g].row = sched[g].row
  BY <1>1, <1>2, <1>3, <1>4 DEF TypeOK
<1>6. /\ attempt' \in Attempt /\ attempt'.host = h /\ attempt'.row = attempt.row
      /\ attempt'.accepted = attempt.accepted
      /\ attempt'.uncertain = attempt.uncertain
  BY <1>1 DEF Finish, TypeOK, Attempt
<1>7. TypeOK'
  BY <1>1, <1>2, <1>5, <1>6, AutoSyncAssumption DEF Finish, TypeOK, config, aux, Phases
<1>8. AttemptInv'
  BY <1>1, <1>2, <1>5, <1>6 DEF Finish, AttemptInv
<1>9. ASSUME NEW g \in Hosts PROVE HostInv(g)'
  BY <1>1, <1>5, <1>6
     DEF Finish, HostInv, RecordInv, OwedInv, PausedInv, config, aux
<1>10. QED
  BY <1>7, <1>8, <1>9 DEF ResidualInv, Hosts

\* Reconciling the file with the configuration keeps the pauses that are owed.
LEMMA ReconcileHostsType ==
    ASSUME ResidualInv
    PROVE  LET H == ReconcileHosts(health, rows)
           IN  /\ H \in [Hosts -> Health]
               /\ \A h \in Hosts :
                     /\ H[h].pin = NoPin => H[h].pause = NoRow
                     /\ rows[h] # NoRow => H[h].pin = PinOf[rows[h]]
                     /\ owed[h] = "worker" => H[h] = health[h]
<1> DEFINE H == ReconcileHosts(health, rows)
<1>1. DOMAIN health = Hosts
  BY DEF ResidualInv, TypeOK
<1>2. H = [h \in Hosts |-> IF rows[h] = NoRow THEN health[h]
                           ELSE ReconcileEntry(health[h], rows[h])]
  BY <1>1 DEF ReconcileHosts
<1>3. ASSUME NEW h \in Hosts
      PROVE  /\ H[h] \in Health
             /\ H[h].pin = NoPin => H[h].pause = NoRow
             /\ rows[h] # NoRow => H[h].pin = PinOf[rows[h]]
             /\ owed[h] = "worker" => H[h] = health[h]
  <2>1. health[h] \in Health /\ rows[h] \in Rows \union {NoRow} /\ HostInv(h)
    BY DEF ResidualInv, TypeOK
  <2>2. CASE rows[h] = NoRow
    BY <1>2, <2>1, <2>2 DEF HostInv, RecordInv, Known
  <2>3. CASE rows[h] # NoRow
    <3>1. rows[h] \in Rows /\ PinOf[rows[h]] # NoPin
      BY <2>1, <2>3, RowAssumption
    <3>2. H[h] = ReconcileEntry(health[h], rows[h])
      BY <1>2, <2>3
    <3>3. QED
      BY <2>1, <3>1, <3>2, ReconcileEntryType DEF HostInv, PausedInv
  <2>4. QED
    BY <2>2, <2>3
<1>4. H \in [Hosts -> Health]
  BY <1>2, <1>3
<1>5. QED
  BY <1>3, <1>4

\* Both reconciliations of the health writer.
LEMMA ReconcileStep == ResidualInv /\ (LoadBefore \/ Settle) => ResidualInv'
<1> SUFFICES ASSUME ResidualInv, LoadBefore \/ Settle PROVE ResidualInv'
  OBVIOUS
<1>1. TypeOK /\ AttemptInv /\ \A h \in Hosts : HostInv(h)
  BY DEF ResidualInv
<1>2. /\ health' \in [Hosts -> Health]
      /\ \A h \in Hosts : /\ health'[h].pin = NoPin => health'[h].pause = NoRow
                          /\ owed[h] = "worker" => health'[h] = health[h]
  BY ReconcileHostsType DEF LoadBefore, Settle
<1>3. CASE LoadBefore
  <2>1. /\ attempt' \in Attempt /\ attempt'.host = attempt.host
        /\ attempt'.row = attempt.row /\ attempt'.uncertain = attempt.uncertain
        /\ attempt'.accepted => attempt.host # 0
    BY <1>1, <1>3 DEF LoadBefore, TypeOK, Attempt
  <2>2. TypeOK'
    BY <1>1, <1>2, <1>3, <2>1 DEF LoadBefore, TypeOK, config, scheduler, aux, Phases
  <2>3. AttemptInv'
    BY <1>1, <1>3, <2>1 DEF LoadBefore, AttemptInv, scheduler
  <2>4. ASSUME NEW g \in Hosts PROVE HostInv(g)'
    BY <1>1, <1>2, <1>3, <2>1
       DEF LoadBefore, HostInv, RecordInv, OwedInv, PausedInv, Known,
           config, scheduler, aux
  <2>5. QED
    BY <2>2, <2>3, <2>4 DEF ResidualInv, Hosts
<1>4. CASE Settle
  <2>1. TypeOK'
    BY <1>1, <1>2, <1>4, IdleTypes DEF Settle, TypeOK, config, scheduler, aux, Phases
  <2>2. AttemptInv'
    BY <1>4, IdleTypes DEF Settle, AttemptInv
  <2>3. ASSUME NEW g \in Hosts PROVE HostInv(g)'
    <3>1. HostInv(g) /\ g # 0
      BY <1>1 DEF Hosts
    <3>2. QED
      BY <3>1, <1>2, <1>4, IdleTypes
         DEF Settle, HostInv, RecordInv, OwedInv, PausedInv, Known,
             config, scheduler, aux
  <2>4. QED
    BY <2>1, <2>2, <2>3 DEF ResidualInv, Hosts
<1>5. QED
  BY <1>3, <1>4

\* What an accepted result writes: the source of the attempt's row, and the
\* pause of that row if the attempt found a residual and the file had it.
LEMMA RecordedType ==
    ASSUME NEW e \in Health, NEW a \in Attempt, a.row \in Rows,
           NEW wait \in Nat, ~Refuses(e, a.row),
           ~Known(e) => e.pause = NoRow
    PROVE  LET w == Recorded(e, a, wait)
           IN  /\ w \in Health
               /\ ~Known(w) => w.pause = NoRow
               /\ PausedFor(w, a.row) => w.pin = PinOf[a.row]
               /\ a.uncertain /\ PausedFor(e, a.row) => PausedFor(w, a.row)
<1> DEFINE f == ResultEntry(e, a.row)
<1>1. /\ f \in Health /\ f.pin = PinOf[a.row] /\ PinOf[a.row] # NoPin
      /\ e.pause # NoRow => f = e
  BY ResultEntryType, RowAssumption
<1>2. a.uncertain \in BOOLEAN /\ wait \in Nat \union {NoTime} /\ a.row # NoRow
  BY RowAssumption DEF Attempt
<1>3. CASE a.since = "result"
  <2>1. Recorded(e, a, wait) = e
    BY <1>3 DEF Recorded
  <2>2. PausedFor(e, a.row) => e.pin = PinOf[a.row]
    BY <1>1 DEF PausedFor
  <2>3. QED
    BY <2>1, <2>2
<1>4. CASE a.since # "result" /\ a.outcome \in Successes
  <2> DEFINE activity == a.outcome = "changed"
             newer    == a.since = "pause"
             w        == RecordSuccess(e, a.row, activity, a.uncertain, newer, wait)
  <2>1. Recorded(e, a, wait) = w
    <3>1. /\ ~(a.since = "result")
          /\ ~(a.since # "result" /\ a.outcome \in {"soft", "hard"})
      BY <1>4 DEF Successes
    <3>2. QED
      BY <1>4, <3>1, Zenon DEF Recorded
  <2>2. activity \in BOOLEAN /\ newer \in BOOLEAN
    OBVIOUS
  <2> HIDE DEF activity, newer
  <2>3. w \in Health /\ w.pin = f.pin /\ (a.uncertain => w.pause = a.row)
    BY <1>2, <2>2, RecordSuccessType
  <2> HIDE DEF w
  <2>4. QED
    BY <2>1, <2>3, <1>1, <1>2 DEF PausedFor, Known
<1>5. CASE a.since # "result" /\ a.outcome \in {"soft", "hard"}
  <2> DEFINE w == RecordPause(e, a.row, a.outcome = "hard", a.uncertain)
  <2>1. Recorded(e, a, wait) = w
    BY <1>5 DEF Recorded, Successes
  <2>2. w \in Health /\ w.pin = f.pin /\ (a.uncertain => w.pause = a.row)
    BY <1>2, RecordPauseType
  <2>3. QED
    BY <2>1, <2>2, <1>1, <1>2 DEF PausedFor, Known
<1>6. CASE a.since # "result" /\ a.outcome \notin Successes \union {"soft", "hard"}
  <2> DEFINE contained == a.outcome = "contained"
             rest == IF a.uncertain THEN NoTime ELSE wait
             w == RecordFailure(e, a.row, contained, rest)
  <2>1. Recorded(e, a, wait) = w
    <3>1. /\ ~(a.since # "result" /\ a.outcome \in Successes)
          /\ ~(a.since # "result" /\ a.outcome \in {"soft", "hard"})
          /\ ~(a.since = "result")
      BY <1>6
    <3>2. QED
      BY <3>1, Zenon DEF Recorded
  <2>2. contained \in BOOLEAN /\ rest \in Nat \union {NoTime}
    BY <1>2
  <2> HIDE DEF contained, rest
  <2>3. /\ w \in Health /\ w.pin = f.pin
        /\ (contained => w.pause = a.row) /\ (~contained => w.pause = f.pause)
    BY <1>2, <2>2, RecordFailureType
  <2> HIDE DEF w
  <2>4. QED
    BY <2>1, <2>2, <2>3, <1>1, <1>2 DEF PausedFor, Known
<1>7. QED
  BY <1>3, <1>4, <1>5, <1>6

\* A result written for the host with the residual is of the attempt that
\* found it, and keeps or stores the pause.
LEMMA RecordResultStep == ResidualInv /\ RecordResult => ResidualInv'
<1> SUFFICES ASSUME ResidualInv, RecordResult PROVE ResidualInv'
  OBVIOUS
<1>1. TypeOK /\ AttemptInv /\ \A h \in Hosts : HostInv(h)
  BY DEF ResidualInv
<1> DEFINE h == attempt.host
           w == Recorded(health[h], attempt, sched[h].wait)
<1>2. h # 0 /\ h \in Hosts
  BY <1>1 DEF RecordResult, TypeOK, Attempt, Hosts
<1>3. /\ health[h] \in Health /\ sched[h].wait \in Nat
      /\ attempt \in Attempt /\ attempt.row \in Rows
      /\ sched[h].row = attempt.row
  BY <1>1, <1>2 DEF TypeOK, Schedule, Attempt, AttemptInv
<1>4. /\ w \in Health
      /\ ~Known(w) => w.pause = NoRow
      /\ PausedFor(w, attempt.row) => w.pin = PinOf[attempt.row]
      /\ attempt.uncertain /\ PausedFor(health[h], attempt.row) =>
            PausedFor(w, attempt.row)
  <2>1. ~Known(health[h]) => health[h].pause = NoRow
    BY <1>1, <1>2 DEF HostInv, RecordInv
  <2>2. ~Refuses(health[h], attempt.row)
    BY DEF RecordResult
  <2>3. QED
    BY <1>3, <2>1, <2>2, RecordedType
<1> HIDE DEF w
<1>5. health' = [health EXCEPT ![h] = w]
  BY DEF RecordResult, w
<1>6. health' \in [Hosts -> Health]
  BY <1>1, <1>2, <1>4, <1>5 DEF TypeOK
<1>7. owed' \in [Hosts -> Finders] /\ excused' \subseteq Hosts
  BY <1>1, <1>2 DEF RecordResult, TypeOK, Finders
<1>8. TypeOK'
  BY <1>1, <1>6, <1>7 DEF RecordResult, TypeOK, config, scheduler, Phases
<1>9. AttemptInv'
  BY <1>1 DEF RecordResult, AttemptInv, scheduler
<1>10. ASSUME NEW g \in Hosts, g # h PROVE HostInv(g)'
  <2>1. health'[g] = health[g] /\ owed'[g] = owed[g]
    BY <1>1, <1>5, <1>10 DEF RecordResult, TypeOK
  <2>2. QED
    BY <2>1, <1>1, <1>10
       DEF RecordResult, HostInv, RecordInv, OwedInv, PausedInv, config, scheduler
<1>11. ASSUME NEW g \in Hosts, g = h PROVE HostInv(g)'
  <2>1. health'[g] = w /\ rows' = rows /\ sched' = sched /\ phase' = "settle"
    BY <1>1, <1>5, <1>11 DEF RecordResult, TypeOK, config, scheduler
  <2>2. RecordInv(g)'
    BY <1>4, <2>1 DEF RecordInv
  <2>3. owed'[g] = IF owed[g] = "unstored" /\ PausedFor(w, rows[g]) THEN "worker"
                   ELSE owed[g]
    BY <1>1, <1>11, <2>1 DEF RecordResult, TypeOK
  <2>4. OwedInv(g)'
    BY <1>1, <2>1, <2>3 DEF HostInv, OwedInv
  <2>5. ASSUME owed'[g] = "worker"
        PROVE  rows[g] = attempt.row /\ PausedFor(w, rows[g])
    <3>1. rows[g] = attempt.row
      <4>1. owed[g] \in {"worker", "unstored"}
        BY <2>3, <2>5
      <4>2. sched[g].row \in {rows[g], NoRow}
        BY <4>1, <1>1 DEF HostInv, OwedInv
      <4>3. QED
        BY <4>2, <1>3, <1>11, RowAssumption
    <3>2. CASE owed[g] = "worker"
      <4>1. PausedFor(health[h], attempt.row) /\ attempt.uncertain
        BY <3>1, <3>2, <1>1, <1>11 DEF RecordResult, HostInv, PausedInv
      <4>2. QED
        BY <3>1, <4>1, <1>4
    <3>3. CASE owed[g] # "worker"
      BY <2>3, <2>5, <3>1, <3>3
    <3>4. QED
      BY <3>1, <3>2, <3>3
  <2>6. PausedInv(g)'
    BY <2>1, <2>5, <1>4 DEF PausedInv
  <2>7. QED
    BY <2>2, <2>4, <2>6 DEF HostInv
<1>12. QED
  BY <1>8, <1>9, <1>10, <1>11 DEF ResidualInv, Hosts

\* A dropped result writes nothing.
LEMMA RecordNothingStep == ResidualInv /\ RecordNothing => ResidualInv'
<1> SUFFICES ASSUME ResidualInv, RecordNothing PROVE ResidualInv'
  OBVIOUS
<1>1. TypeOK'
  BY DEF ResidualInv, RecordNothing, TypeOK, config, scheduler, aux, Phases
<1>2. AttemptInv'
  BY DEF ResidualInv, RecordNothing, AttemptInv, scheduler
<1>3. ASSUME NEW g \in Hosts PROVE HostInv(g)'
  BY DEF ResidualInv, RecordNothing, HostInv, RecordInv, OwedInv, PausedInv,
         config, scheduler, aux
<1>4. QED
  BY <1>1, <1>2, <1>3 DEF ResidualInv, Hosts

\* A refused result writes nothing and ends the round.
LEMMA RecordRefusedStep == ResidualInv /\ RecordRefused => ResidualInv'
<1> SUFFICES ASSUME ResidualInv, RecordRefused PROVE ResidualInv'
  OBVIOUS
<1>1. TypeOK'
  BY IdleTypes DEF ResidualInv, RecordRefused, TypeOK, config, scheduler, aux, Phases
<1>2. AttemptInv'
  BY IdleTypes DEF RecordRefused, AttemptInv
<1>3. ASSUME NEW g \in Hosts PROVE HostInv(g)'
  <2>1. HostInv(g) /\ g # 0
    BY DEF ResidualInv, Hosts
  <2>2. QED
    BY <2>1, IdleTypes
       DEF RecordRefused, HostInv, RecordInv, OwedInv, PausedInv, config, scheduler, aux
<1>4. QED
  BY <1>1, <1>2, <1>3 DEF ResidualInv, Hosts

\* A round that fails writes nothing either.
LEMMA WriteFailsStep == ResidualInv /\ WriteFails => ResidualInv'
<1> SUFFICES ASSUME ResidualInv, WriteFails PROVE ResidualInv'
  OBVIOUS
<1>1. TypeOK'
  BY IdleTypes DEF ResidualInv, WriteFails, Disturb, TypeOK, config, scheduler, aux, Phases
<1>2. AttemptInv'
  BY IdleTypes DEF WriteFails, AttemptInv
<1>3. ASSUME NEW g \in Hosts PROVE HostInv(g)'
  <2>1. HostInv(g) /\ g # 0
    BY DEF ResidualInv, Hosts
  <2>2. QED
    BY <2>1, IdleTypes
       DEF WriteFails, HostInv, RecordInv, OwedInv, PausedInv, config, scheduler, aux
<1>4. QED
  BY <1>1, <1>2, <1>3 DEF ResidualInv, Hosts

\* A restart forgets schedules, not the file.
LEMMA RestartStep == ResidualInv /\ Restart => ResidualInv'
<1> SUFFICES ASSUME ResidualInv, Restart PROVE ResidualInv'
  OBVIOUS
<1>1. TypeOK'
  BY IdleTypes DEF ResidualInv, Restart, Disturb, TypeOK, config, aux, Phases
<1>2. AttemptInv'
  BY IdleTypes DEF Restart, AttemptInv
<1>3. ASSUME NEW g \in Hosts PROVE HostInv(g)'
  <2>1. HostInv(g) /\ g # 0
    BY DEF ResidualInv, Hosts
  <2>2. QED
    BY <2>1, IdleTypes
       DEF Restart, HostInv, RecordInv, OwedInv, PausedInv, config, aux
<1>4. QED
  BY <1>1, <1>2, <1>3 DEF ResidualInv, Hosts

\* Time moves only delays.
LEMMA TimeStep == ResidualInv /\ Time => ResidualInv'
<1> SUFFICES ASSUME ResidualInv, Time PROVE ResidualInv'
  OBVIOUS
<1>1. TypeOK /\ AttemptInv /\ \A h \in Hosts : HostInv(h)
  BY DEF ResidualInv
<1>2. /\ health' \in [Hosts -> Health]
      /\ \A h \in Hosts : /\ health'[h].pin = health[h].pin
                          /\ health'[h].pause = health[h].pause
  BY <1>1, ClockedType DEF Time, TypeOK
<1>3. /\ sched' \in [Hosts -> Schedule]
      /\ \A h \in Hosts : sched'[h].row = sched[h].row
  <2>1. ASSUME NEW s \in Schedule
        PROVE  /\ [s EXCEPT !.wait = Less(@), !.active = Less(@)] \in Schedule
               /\ [s EXCEPT !.wait = Less(@), !.active = Less(@)].row = s.row
    <3>1. Less(s.wait) \in Nat /\ Less(s.active) \in Nat
      BY LessType DEF Schedule
    <3>2. QED
      BY <3>1 DEF Schedule
  <2>2. QED
    BY <1>1, <2>1 DEF Time, TypeOK
<1>4. gap' \in Nat
  BY <1>1, LessType DEF Time, TypeOK
<1>5. TypeOK'
  BY <1>1, <1>2, <1>3, <1>4 DEF Time, TypeOK, config, aux
<1>6. AttemptInv'
  <2>1. attempt.host # 0 => attempt.host \in Hosts
    BY <1>1 DEF TypeOK, Attempt, Hosts
  <2>2. QED
    BY <1>1, <1>3, <2>1 DEF Time, AttemptInv
<1>7. ASSUME NEW g \in Hosts PROVE HostInv(g)'
  BY <1>1, <1>2, <1>3
     DEF Time, HostInv, RecordInv, OwedInv, PausedInv, PausedFor, Known, config, aux
<1>8. QED
  BY <1>5, <1>6, <1>7 DEF ResidualInv, Hosts

\* An edit ends what is owed for the host.
LEMMA EditStep ==
    ASSUME ResidualInv, NEW h \in Hosts, NEW r \in Rows \union {NoRow}, Edit(h, r)
    PROVE  ResidualInv'
<1>1. TypeOK /\ AttemptInv /\ \A g \in Hosts : HostInv(g)
  BY DEF ResidualInv
<1>2. /\ attempt' \in Attempt /\ attempt'.host = attempt.host
      /\ attempt'.row = attempt.row /\ attempt'.accepted = attempt.accepted
      /\ attempt'.uncertain = attempt.uncertain
  BY <1>1 DEF Edit, Outdate, TypeOK, Attempt
<1>3. TypeOK'
  BY <1>1, <1>2 DEF Edit, Disturb, TypeOK, Finders, scheduler
<1>4. AttemptInv'
  BY <1>1, <1>2 DEF Edit, AttemptInv, scheduler
<1>5. ASSUME NEW g \in Hosts PROVE HostInv(g)'
  <2>1. CASE g = h
    <3>1. owed'[g] = "none" /\ health' = health
      BY <1>1, <2>1 DEF Edit, TypeOK
    <3>2. QED
      BY <1>1, <3>1 DEF HostInv, RecordInv, OwedInv, PausedInv
  <2>2. CASE g # h
    <3>1. /\ owed'[g] = owed[g] /\ rows'[g] = rows[g] /\ health' = health
          /\ sched' = sched /\ phase' = phase
      BY <1>1, <2>2 DEF Edit, TypeOK, scheduler
    <3>2. QED
      BY <1>1, <1>2, <3>1 DEF HostInv, RecordInv, OwedInv, PausedInv
  <2>3. QED
    BY <2>1, <2>2
<1>6. QED
  BY <1>3, <1>4, <1>5 DEF ResidualInv, Hosts

\* The global switch changes no row and no record.
LEMMA ToggleStep == ResidualInv /\ Toggle => ResidualInv'
<1> SUFFICES ASSUME ResidualInv, Toggle PROVE ResidualInv'
  OBVIOUS
<1>1. TypeOK /\ AttemptInv /\ \A g \in Hosts : HostInv(g)
  BY DEF ResidualInv
<1>2. /\ attempt' \in Attempt /\ attempt'.host = attempt.host
      /\ attempt'.row = attempt.row /\ attempt'.accepted = attempt.accepted
      /\ attempt'.uncertain = attempt.uncertain
  BY <1>1 DEF Toggle, Outdate, TypeOK, Attempt
<1>3. TypeOK'
  BY <1>1, <1>2 DEF Toggle, Disturb, TypeOK, scheduler
<1>4. AttemptInv'
  BY <1>1, <1>2 DEF Toggle, AttemptInv, scheduler
<1>5. ASSUME NEW g \in Hosts PROVE HostInv(g)'
  BY <1>1, <1>2 DEF Toggle, HostInv, RecordInv, OwedInv, PausedInv, scheduler
<1>6. QED
  BY <1>3, <1>4, <1>5 DEF ResidualInv, Hosts

\* A manual command may mark the result on its way as overtaken, no more.
LEMMA OvertakesType ==
    ASSUME TypeOK, NEW h \in Hosts, NEW what \in {"pause", "result"}, Overtakes(h, what)
    PROVE  /\ attempt' \in Attempt /\ attempt'.host = attempt.host
           /\ attempt'.row = attempt.row /\ attempt'.accepted = attempt.accepted
           /\ attempt'.uncertain = attempt.uncertain
BY DEF Overtakes, TypeOK, Attempt

\* A manual test clears the pause and what is owed, or replaces both by its own.
LEMMA ManualTestStep ==
    ASSUME ResidualInv, NEW h \in Hosts, ManualTestOk(h) \/ ManualTestResidual(h)
    PROVE  ResidualInv'
<1>1. TypeOK /\ AttemptInv /\ \A g \in Hosts : HostInv(g)
  BY DEF ResidualInv
<1>2. /\ attempt' \in Attempt /\ attempt'.host = attempt.host
      /\ attempt'.row = attempt.row /\ attempt'.accepted = attempt.accepted
      /\ attempt'.uncertain = attempt.uncertain
  BY <1>1, OvertakesType DEF ManualTestOk, ManualTestResidual, TypeOK
<1>3. /\ health[h] \in Health /\ rows[h] \in Rows
      /\ rows' = rows /\ sched' = sched /\ phase' = phase
  BY <1>1 DEF ManualTestOk, ManualTestResidual, TypeOK, config, scheduler
<1>4. /\ ClearContainment(health[h]) \in Health
      /\ ClearContainment(health[h]).pause = NoRow
      /\ RecordContainment(health[h], rows[h]) \in Health
      /\ Known(RecordContainment(health[h], rows[h]))
  BY <1>3, ContainmentType, ResultEntryType DEF Known
<1>5. /\ health' \in [Hosts -> Health] /\ owed' \in [Hosts -> Finders]
      /\ excused' \subseteq Hosts
  BY <1>1, <1>4 DEF ManualTestOk, ManualTestResidual, TypeOK, Finders
<1>6. TypeOK'
  BY <1>1, <1>2, <1>5
     DEF ManualTestOk, ManualTestResidual, Disturb, TypeOK, config, scheduler
<1>7. AttemptInv'
  BY <1>1, <1>2, <1>3 DEF AttemptInv
<1>8. ASSUME NEW g \in Hosts PROVE HostInv(g)'
  <2>1. CASE g = h
    <3>1. owed'[g] \in {"none", "manual"}
      BY <1>1, <2>1 DEF ManualTestOk, ManualTestResidual, TypeOK
    <3>2. RecordInv(g)'
      BY <1>1, <1>4, <2>1
         DEF ManualTestOk, ManualTestResidual, TypeOK, HostInv, RecordInv
    <3>3. QED
      BY <3>1, <3>2 DEF HostInv, OwedInv, PausedInv
  <2>2. CASE g # h
    <3>1. owed'[g] = owed[g] /\ health'[g] = health[g]
      BY <1>1, <2>2 DEF ManualTestOk, ManualTestResidual, TypeOK
    <3>2. QED
      BY <1>1, <1>2, <1>3, <3>1 DEF HostInv, RecordInv, OwedInv, PausedInv
  <2>3. QED
    BY <2>1, <2>2
<1>9. QED
  BY <1>6, <1>7, <1>8 DEF ResidualInv, Hosts

\* A manual sync that does not succeed keeps the pause it finds.
LEMMA ManualRecordType ==
    ASSUME NEW e \in Health, NEW r \in Rows, NEW outcome \in ManualOutcomes,
           e.pin = PinOf[r]
    PROVE  /\ ManualRecord(e, r, outcome) \in Health
           /\ ManualRecord(e, r, outcome).pin = PinOf[r]
           /\ outcome \in {"failed", "hard"} => ManualRecord(e, r, outcome).pause = e.pause
<1>1. ResultEntry(e, r) = e /\ NoTime \in Nat \union {NoTime}
  BY RowAssumption, ResultEntryType DEF Known
<1>2. CASE outcome = "changed"
  <2> DEFINE w == RecordSuccess(e, r, TRUE, FALSE, FALSE, NoTime)
  <2>1. ManualRecord(e, r, outcome) = w
    BY <1>2 DEF ManualRecord
  <2>2. w \in Health /\ w.pin = ResultEntry(e, r).pin
    BY <1>1, RecordSuccessType
  <2>3. QED
    BY <1>1, <1>2, <2>1, <2>2
<1>3. CASE outcome = "uncertain"
  <2> DEFINE w == RecordSuccess(e, r, TRUE, TRUE, FALSE, NoTime)
  <2>1. ManualRecord(e, r, outcome) = w
    BY <1>3 DEF ManualRecord
  <2>2. w \in Health /\ w.pin = ResultEntry(e, r).pin
    BY <1>1, RecordSuccessType
  <2>3. QED
    BY <1>1, <1>3, <2>1, <2>2
<1>4. CASE outcome = "contained"
  <2> DEFINE w == RecordFailure(e, r, TRUE, NoTime)
  <2>1. ManualRecord(e, r, outcome) = w
    BY <1>4 DEF ManualRecord
  <2>2. w \in Health /\ w.pin = ResultEntry(e, r).pin
    BY <1>1, RecordFailureType
  <2>3. QED
    BY <1>1, <1>4, <2>1, <2>2
<1>5. CASE outcome = "failed"
  <2> DEFINE w == RecordFailure(e, r, FALSE, NoTime)
  <2>1. ManualRecord(e, r, outcome) = w
    BY <1>5 DEF ManualRecord
  <2>2. /\ w \in Health /\ w.pin = ResultEntry(e, r).pin
        /\ w.pause = ResultEntry(e, r).pause
    BY <1>1, RecordFailureType
  <2>3. QED
    BY <1>1, <2>1, <2>2
<1>6. CASE outcome = "hard"
  <2> DEFINE w == RecordPause(e, r, TRUE, FALSE)
  <2>1. ManualRecord(e, r, outcome) = w
    BY <1>6 DEF ManualRecord
  <2>2. /\ w \in Health /\ w.pin = ResultEntry(e, r).pin
        /\ w.pause = ResultEntry(e, r).pause
    BY <1>1, RecordPauseType
  <2>3. QED
    BY <1>1, <2>1, <2>2
<1>7. QED
  BY <1>2, <1>3, <1>4, <1>5, <1>6 DEF ManualOutcomes

\* A manual sync reconciles every record and writes that of its host.
LEMMA ManualSyncStep ==
    ASSUME ResidualInv, NEW h \in Hosts, NEW outcome \in ManualOutcomes,
           ManualSync(h, outcome)
    PROVE  ResidualInv'
<1>1. TypeOK /\ AttemptInv /\ \A g \in Hosts : HostInv(g)
  BY DEF ResidualInv
<1>2. /\ attempt' \in Attempt /\ attempt'.host = attempt.host
      /\ attempt'.row = attempt.row /\ attempt'.accepted = attempt.accepted
      /\ attempt'.uncertain = attempt.uncertain
  BY <1>1, OvertakesType DEF ManualSync
<1>3. rows[h] \in Rows /\ rows' = rows /\ sched' = sched /\ phase' = phase
  BY <1>1 DEF ManualSync, TypeOK, config, scheduler
<1> DEFINE H == ReconcileHosts(health, rows)
           w == ManualRecord(H[h], rows[h], outcome)
<1>4. /\ H \in [Hosts -> Health]
      /\ H[h].pin = PinOf[rows[h]]
      /\ \A g \in Hosts : /\ H[g].pin = NoPin => H[g].pause = NoRow
                          /\ owed[g] = "worker" => H[g] = health[g]
  BY <1>3, RowAssumption, ReconcileHostsType
<1>5. health' = [H EXCEPT ![h] = w]
  BY DEF ManualSync
<1> HIDE DEF H
<1>6. /\ w \in Health /\ w.pin = PinOf[rows[h]]
      /\ outcome \in {"failed", "hard"} => w.pause = H[h].pause
  BY <1>3, <1>4, ManualRecordType
<1> HIDE DEF w
<1>7. /\ health' \in [Hosts -> Health] /\ owed' \in [Hosts -> Finders]
      /\ excused' \subseteq Hosts
  <2>1. health' \in [Hosts -> Health]
    BY <1>4, <1>5, <1>6
  <2>2. owed' \in [Hosts -> Finders]
    BY <1>1 DEF ManualSync, TypeOK, Finders
  <2>3. excused' \subseteq Hosts
    BY <1>1 DEF ManualSync, TypeOK
  <2>4. QED
    BY <2>1, <2>2, <2>3
<1>8. TypeOK'
  BY <1>1, <1>2, <1>7 DEF ManualSync, Disturb, TypeOK, config, scheduler
<1>9. AttemptInv'
  BY <1>1, <1>2, <1>3 DEF AttemptInv
<1>10. ASSUME NEW g \in Hosts, g # h PROVE HostInv(g)'
  <2>1. owed'[g] = owed[g] /\ health'[g] = H[g]
    BY <1>1, <1>4, <1>5, <1>10 DEF ManualSync, TypeOK
  <2>2. QED
    BY <1>1, <1>2, <1>3, <1>4, <2>1
       DEF HostInv, RecordInv, OwedInv, PausedInv, Known
<1>11. HostInv(h)'
  <2>1. health'[h] = w
    BY <1>4, <1>5
  <2>2. RecordInv(h)'
    BY <1>3, <1>6, <2>1, RowAssumption DEF RecordInv, Known
  <2>3. owed'[h] \in {"worker", "unstored"} =>
            owed'[h] = owed[h] /\ outcome \in {"failed", "hard"}
    BY <1>1 DEF ManualSync, TypeOK, ManualOutcomes
  <2>4. OwedInv(h)'
    BY <1>1, <1>3, <2>3 DEF HostInv, OwedInv
  <2>5. PausedInv(h)'
    BY <1>1, <1>2, <1>3, <1>4, <1>6, <2>1, <2>3 DEF HostInv, PausedInv, PausedFor
  <2>6. QED
    BY <2>2, <2>4, <2>5 DEF HostInv
<1>12. QED
  BY <1>8, <1>9, <1>10, <1>11 DEF ResidualInv, Hosts

-----------------------------------------------------------------------------
(* The theorems. *)

\* Every step keeps the invariant.
LEMMA ResidualNext == ResidualInv /\ [Next]_vars => ResidualInv'
<1> SUFFICES ASSUME ResidualInv, [Next]_vars PROVE ResidualInv'
  OBVIOUS
<1>1. CASE Worker
  BY <1>1, TickStep, FinishStep, ReconcileStep, RecordResultStep, RecordNothingStep,
     RecordRefusedStep DEF Worker
<1>2. CASE ClaimDueProbe \/ Contain \/ ContainUnwritten \/ WriteFails \/ Restart \/ Time
  BY <1>2, ProbeStep, ContainStep, ContainUnwrittenStep, WriteFailsStep, RestartStep,
     TimeStep
<1>3. CASE User
  BY <1>3, EditStep, ToggleStep, ManualTestStep, ManualSyncStep DEF User
<1>4. CASE UNCHANGED vars
  <2>1. TypeOK'
    BY <1>4 DEF ResidualInv, TypeOK, vars, config, scheduler, aux
  <2>2. AttemptInv'
    BY <1>4 DEF ResidualInv, AttemptInv, vars, config, scheduler, aux
  <2>3. ASSUME NEW g \in Hosts PROVE HostInv(g)'
    BY <1>4 DEF ResidualInv, HostInv, RecordInv, OwedInv, PausedInv,
                vars, config, scheduler, aux
  <2>4. QED
    BY <2>1, <2>2, <2>3 DEF ResidualInv, Hosts
<1>5. QED
  BY <1>1, <1>2, <1>3, <1>4 DEF Next

\* The invariant holds in every reachable state.
LEMMA ResidualInvariant == Spec => []ResidualInv
BY ResidualInit, ResidualNext, PTL DEF Spec

\* The configuration, the health file, the schedules and the attempt of the
\* round keep their shapes whatever the worker, the user and the clock do: in
\* particular no delay and no streak leaves its range.
THEOREM AutoSyncTypeCorrect == Spec => []TypeOK
<1>1. ResidualInv => TypeOK
  BY DEF ResidualInv
<1>2. QED
  BY <1>1, ResidualInvariant, PTL

\* Once the pause for a residual of an automatic attempt is in the health file,
\* the worker does not contact that host again until the user edits, tests or
\* syncs it: for any number of hosts and rows, any intervals and any number of
\* edits, manual commands, restarts and failed writes of the health file.
THEOREM ResidualStops == Spec => ResidualStopsWorker
<1>1. ASSUME ResidualInv, Next, Connects
      PROVE  owed[attempt'.host] # "worker"
  <2>1. PICK h \in Hosts : TickSelect(h)
    BY <1>1 DEF Connects, Next, Worker, User, TickDisabled, TickWaiting, Finish,
            LoadBefore, RecordResult, RecordNothing, RecordRefused, Settle,
            ClaimDueProbe, Contain, Edit, Toggle, ManualTestOk, ManualTestResidual,
            ManualSync, Restart, Time, ContainUnwritten, WriteFails
  <2>2. h \in Due /\ attempt'.host = h
    BY <2>1 DEF TickSelect, NoAttempt
  <2>3. QED
    BY <1>1, <2>2, OwedNotDue
<1>2. ResidualInv /\ [Next]_vars =>
          [Connects => owed[attempt'.host] # "worker"]_vars
  BY <1>1
<1>3. QED
  BY <1>2, ResidualInvariant, PTL DEF Spec, ResidualStopsWorker

\* Between the end of an attempt and the next round the dispatch spacing is
\* whole and the attempted host is paused or not due.
LEMMA SpacedNext == ResidualInv /\ AttemptsAreSpaced /\ [Next]_vars => AttemptsAreSpaced'
<1> SUFFICES ASSUME ResidualInv, AttemptsAreSpaced, [Next]_vars,
                    phase' \in {"load", "record", "settle"}, attempt'.host # 0
             PROVE  /\ gap' = Spacing
                    /\ sched'[attempt'.host].paused \/ sched'[attempt'.host].wait > 0
  BY DEF AttemptsAreSpaced
<1>1. TypeOK
  BY DEF ResidualInv
<1>2. ASSUME NEW outcome \in Outcomes, Finish(outcome)
      PROVE  /\ gap' = Spacing
             /\ sched'[attempt'.host].paused \/ sched'[attempt'.host].wait > 0
  <2>1. attempt.host \in Hosts /\ sched[attempt.host] \in Schedule
        /\ attempt.uncertain \in BOOLEAN
    BY <1>1, <1>2 DEF Finish, TypeOK, Attempt, Hosts
  <2>2. PICK s \in After(sched[attempt.host], outcome, attempt.uncertain) :
            sched' = [sched EXCEPT ![attempt.host] = s]
    BY <1>2 DEF Finish
  <2>3. s.paused \/ s.wait > 0
    BY <2>1, <2>2, AfterType
  <2>4. attempt'.host = attempt.host /\ gap' = Spacing
    BY <1>1, <1>2 DEF Finish, TypeOK, Attempt
  <2>5. sched'[attempt'.host] = s
    BY <1>1, <2>1, <2>2, <2>4 DEF TypeOK
  <2>6. QED
    BY <2>3, <2>4, <2>5
<1>3. ASSUME gap' = gap, sched' = sched, attempt'.host = attempt.host,
             phase \in {"load", "record", "settle"}
      PROVE  /\ gap' = Spacing
             /\ sched'[attempt'.host].paused \/ sched'[attempt'.host].wait > 0
  BY <1>3 DEF AttemptsAreSpaced
<1>4. CASE LoadBefore \/ RecordResult \/ RecordNothing
  BY <1>1, <1>3, <1>4
     DEF LoadBefore, RecordResult, RecordNothing, TypeOK, Attempt, scheduler
<1>5. CASE TickDisabled \/ TickWaiting \/ RecordRefused \/ WriteFails \/ Settle \/ Restart
  BY <1>5, IdleTypes
     DEF TickDisabled, TickWaiting, RecordRefused, WriteFails, Settle, Restart
<1>6. CASE (\E h \in Hosts : TickSelect(h)) \/ ClaimDueProbe \/ Contain \/ Time
           \/ ContainUnwritten
  BY <1>6 DEF TickSelect, ClaimDueProbe, Contain, Time, ContainUnwritten
<1>7. CASE User
  <2>1. gap' = gap /\ sched' = sched /\ phase' = phase
    BY <1>7 DEF User, Edit, Toggle, ManualTestOk, ManualTestResidual, ManualSync, scheduler
  <2>2. attempt'.host = attempt.host
    <3>1. CASE attempt' = [attempt EXCEPT !.current = FALSE] \/ attempt' = attempt
      BY <1>1, <3>1 DEF TypeOK, Attempt
    <3>2. ASSUME NEW h \in Hosts, NEW what \in {"pause", "result"}, Overtakes(h, what)
          PROVE  attempt'.host = attempt.host
      BY <1>1, <3>2, OvertakesType
    <3>3. QED
      BY <1>7, <3>1, <3>2
         DEF User, Edit, Toggle, ManualTestOk, ManualTestResidual, ManualSync, Outdate
  <2>3. QED
    BY <1>3, <2>1, <2>2
<1>8. CASE UNCHANGED vars
  BY <1>3, <1>8 DEF vars, scheduler
<1>9. QED
  BY <1>2, <1>4, <1>5, <1>6, <1>7, <1>8 DEF Next, Worker

\* After an attempt nothing is due at once: the global spacing starts over, and
\* the attempted host is paused or has a positive delay, whatever intervals,
\* backoff table and activity window the delay comes from.
THEOREM AttemptsSpaced == Spec => []AttemptsAreSpaced
<1>1. Init => AttemptsAreSpaced
  BY DEF Init, AttemptsAreSpaced
<1>2. QED
  BY <1>1, SpacedNext, ResidualInvariant, PTL DEF Spec

-----------------------------------------------------------------------------
(* The deadlines of the health file. *)

\* What keeps the worker from a host before its stored deadline: a restart
\* will find the deadline under the source of the configured row, or the
\* schedule in memory is paused by the file or at least as late.
DeadlineHeld(h) ==
    /\ h \in Eligible
    /\ health[h].pin = PinOf[rows[h]]
    /\ health[h].probe = NoTime
    /\ \/ restore /\ sched[h].row = NoRow
       \/ /\ sched[h].row = rows[h]
          /\ \/ PausedFor(health[h], rows[h])
             \/ ~sched[h].paused /\ sched[h].wait >= health[h].wait

DeadlineInForce(h) ==
    h \notin excused /\ health[h].wait > 0 => DeadlineHeld(h)

\* The attempt in progress is of the configured row of an eligible host unless
\* that was edited since; until its result is recorded the host has no running
\* deadline, and only a residual of its own has paused its schedule.
Underway ==
    attempt.host # 0 =>
        /\ attempt.current \/ attempt.host \notin excused =>
              attempt.row = rows[attempt.host] /\ attempt.host \in Eligible
        /\ phase # "settle" /\ attempt.host \notin excused =>
              ~(health[attempt.host].wait > 0)
        /\ phase # "settle" /\ sched[attempt.host].paused => attempt.uncertain

DeadlineInv == Underway /\ \A h \in Hosts : DeadlineInForce(h)

\* The recorder starts without deadlines.
LEMMA DeadlineInit == Init => DeadlineInv
<1> SUFFICES ASSUME Init PROVE DeadlineInv
  OBVIOUS
<1>1. Underway
  BY DEF Init, Underway, NoAttempt
<1>2. ASSUME NEW h \in Hosts PROVE DeadlineInForce(h)
  BY DEF Init, DeadlineInForce, NoHealth, NewHealth, NoTime
<1>3. QED
  BY <1>1, <1>2 DEF DeadlineInv

\* A tick keeps a deadline: by the schedule it restores or the one it has.
LEMMA ReconciledHolds ==
    ASSUME ResidualInv, NEW h \in Hosts, health[h].wait > 0, DeadlineHeld(h)
    PROVE  /\ Reconciled(h).row = rows[h]
           /\ PausedFor(health[h], rows[h]) => Reconciled(h).paused
           /\ ~PausedFor(health[h], rows[h]) =>
                 ~Reconciled(h).paused /\ Reconciled(h).wait >= health[h].wait
<1>1. /\ sched[h] \in Schedule /\ health[h] \in Health /\ h \in Eligible
      /\ rows[h] \in Rows /\ rows[h] # NoRow
  BY RowAssumption, AutoSyncAssumption DEF ResidualInv, TypeOK, DeadlineHeld, Eligible
<1>2. Reconciled(h).row = rows[h]
  BY <1>1, ReconciledType DEF ResidualInv
<1>3. ASSUME NEW s \in Schedule PROVE Paused(s).paused
  BY DEF Paused, Schedule
<1>4. CASE restore /\ sched[h].row = NoRow
  <2> DEFINE s == Restored(health[h], rows[h])
  <2>1. HasSeed(health[h], rows[h])
    BY <1>1 DEF HasSeed, DeadlineHeld, NoTime, Health
  <2>2. health[h].probe = NoTime /\ health[h].wait \in Nat
    BY <1>1 DEF DeadlineHeld, Health, NoTime
  <2>3. s = [NewSchedule(rows[h]) EXCEPT !.fails = health[h].fails,
                 !.wait = health[h].wait, !.active = health[h].active]
    BY <2>2 DEF Restored
  <2>4. s \in Schedule /\ ~s.paused /\ s.wait = health[h].wait
    BY <1>1, <2>2, <2>3 DEF NewSchedule, Schedule, Health
  <2>5. Reconciled(h) = FreshSchedule(health[h], rows[h])
    BY <1>1, <1>4 DEF Reconciled
  <2>6. FreshSchedule(health[h], rows[h]) =
            IF PausedFor(health[h], rows[h]) THEN Paused(s) ELSE s
    BY <1>4, <2>1 DEF FreshSchedule
  <2> HIDE DEF s
  <2>7. health[h].wait \in Int
    BY <1>1 DEF Health, NoTime
  <2>8. QED
    BY <1>2, <1>3, <2>4, <2>5, <2>6, <2>7
<1>5. CASE /\ sched[h].row = rows[h]
           /\ \/ PausedFor(health[h], rows[h])
              \/ ~sched[h].paused /\ sched[h].wait >= health[h].wait
  <2>1. Reconciled(h) = KnownSchedule(sched[h], health[h])
    BY <1>1, <1>5 DEF Reconciled
  <2>2. PausedFor(health[h], rows[h]) =>
            KnownSchedule(sched[h], health[h]) = Paused(sched[h])
    BY <1>5 DEF KnownSchedule
  <2>3. ~PausedFor(health[h], rows[h]) =>
            KnownSchedule(sched[h], health[h]) = sched[h]
    BY <1>5 DEF KnownSchedule
  <2>4. QED
    BY <1>1, <1>2, <1>3, <1>5, <2>1, <2>2, <2>3
<1>6. QED
  BY <1>4, <1>5 DEF DeadlineHeld

\* So a host with a running deadline is not due.
LEMMA HeldNotDue ==
    ASSUME ResidualInv, NEW h \in Due, DeadlineInForce(h)
    PROVE  h \in excused \/ ~(health[h].wait > 0)
<1> SUFFICES ASSUME h \notin excused, health[h].wait > 0 PROVE FALSE
  OBVIOUS
<1>1. h \in Hosts /\ ~Reconciled(h).paused /\ Reconciled(h).wait = 0
  BY DEF Due, Eligible
<1>2. DeadlineHeld(h)
  BY DEF DeadlineInForce
<1>3. ~PausedFor(health[h], rows[h]) /\ Reconciled(h).wait >= health[h].wait
  BY <1>1, <1>2, ReconciledHolds
<1>4. health[h].wait \in Int
  BY <1>1 DEF ResidualInv, TypeOK, Health, NoTime
<1>5. QED
  BY <1>1, <1>3, <1>4

\* A step that is no tick and leaves the row, the schedule and the deadline of
\* a host alone keeps its deadline in force; what is left of the record may
\* only become more of a pause.
Lasts(h) ==
    health'[h].wait > 0 =>
        /\ health[h].wait > 0
        /\ health[h].pin = PinOf[rows[h]] /\ rows[h] \in Rows =>
              /\ health'[h].pin = health[h].pin
              /\ health'[h].wait = health[h].wait
              /\ health'[h].probe = health[h].probe
              /\ PausedFor(health[h], rows[h]) => PausedFor(health'[h], rows[h])

LEMMA InForceKept ==
    ASSUME NEW h \in Hosts, DeadlineInForce(h), Lasts(h),
           sched'[h] = sched[h], restore' = restore,
           h \notin excused' => h \notin excused /\ on' = on /\ rows'[h] = rows[h]
    PROVE  DeadlineInForce(h)'
<1> SUFFICES ASSUME h \notin excused', health'[h].wait > 0 PROVE DeadlineHeld(h)'
  BY DEF DeadlineInForce
<1>1. DeadlineHeld(h)
  BY DEF DeadlineInForce, Lasts
<1>2. rows[h] \in Rows
  BY <1>1, AutoSyncAssumption DEF DeadlineHeld, Eligible
<1>3. h \in Eligible'
  BY <1>1 DEF DeadlineHeld, Eligible
<1>4. /\ health'[h].pin = PinOf[rows'[h]]
      /\ health'[h].probe = NoTime
      /\ health'[h].wait = health[h].wait
      /\ PausedFor(health[h], rows[h]) => PausedFor(health'[h], rows'[h])
  BY <1>1, <1>2 DEF DeadlineHeld, Lasts
<1>5. QED
  BY <1>1, <1>3, <1>4 DEF DeadlineHeld

\* A step that leaves the attempt its host and row, and neither starts a
\* deadline nor pauses its schedule, keeps what is known of the attempt.
LEMMA UnderwayKept ==
    ASSUME ResidualInv, Underway,
           attempt'.host = attempt.host, attempt'.row = attempt.row,
           attempt.uncertain => attempt'.uncertain,
           attempt'.current => attempt.current,
           phase' # "settle" => phase # "settle",
           attempt.host # 0 =>
               /\ attempt.host \notin excused' => attempt.host \notin excused
               /\ attempt'.current \/ attempt.host \notin excused' =>
                     on' = on /\ rows'[attempt.host] = rows[attempt.host]
               /\ sched'[attempt.host].paused => sched[attempt.host].paused
               /\ health'[attempt.host].wait > 0 => health[attempt.host].wait > 0
    PROVE  Underway'
<1> SUFFICES ASSUME attempt.host # 0 PROVE Underway'
  BY DEF Underway
<1>1. attempt'.current \/ attempt'.host \notin excused' =>
          attempt'.row = rows'[attempt'.host] /\ attempt'.host \in Eligible'
  BY DEF Underway, Eligible
<1>2. QED
  BY <1>1 DEF Underway


\* A tick gives a host with a deadline a schedule that holds it, and the host
\* it selects has none that runs.
LEMMA TickDeadline ==
    ASSUME ResidualInv, ResidualInv', DeadlineInv,
           TickDisabled \/ TickWaiting \/ \E h \in Hosts : TickSelect(h)
    PROVE  DeadlineInv'
<1>1. UNCHANGED <<on, rows, health, excused>>
  BY DEF TickDisabled, TickWaiting, TickSelect, config, aux
<1>2. ASSUME NEW h \in Hosts PROVE DeadlineInForce(h)'
  <2> SUFFICES ASSUME h \notin excused, health[h].wait > 0 PROVE DeadlineHeld(h)'
    BY <1>1 DEF DeadlineInForce
  <2>1. DeadlineHeld(h)
    BY DEF DeadlineInv, DeadlineInForce
  <2>2. h \in Eligible /\ h \in Eligible'
    BY <1>1, <2>1 DEF DeadlineHeld, Eligible
  <2>3. sched'[h] = Reconciled(h)
    BY <2>2 DEF TickDisabled, TickWaiting, TickSelect, Schedules
  <2>4. QED
    BY <1>1, <2>1, <2>2, <2>3, ReconciledHolds DEF DeadlineHeld
<1>3. CASE TickDisabled \/ TickWaiting
  <2>1. Underway'
    BY <1>3, IdleTypes DEF TickDisabled, TickWaiting, Underway
  <2>2. QED
    BY <1>2, <2>1 DEF DeadlineInv, Hosts
<1>4. ASSUME NEW h \in Hosts, TickSelect(h) PROVE DeadlineInv'
  <2>1. h \in Due /\ h \in Eligible /\ ~Reconciled(h).paused
    BY <1>4 DEF TickSelect, Due
  <2>2. h \in Eligible'
    BY <1>1, <2>1 DEF Eligible
  <2>3. attempt'.host = h /\ attempt'.row = rows[h]
    BY <1>4 DEF TickSelect, NoAttempt
  <2>4. h \notin excused => ~(health[h].wait > 0)
    BY <2>1, HeldNotDue DEF DeadlineInv
  <2>5. ~sched'[h].paused
    BY <1>4, <2>1 DEF TickSelect, Schedules
  <2>6. Underway'
    BY <1>1, <2>2, <2>3, <2>4, <2>5 DEF Underway
  <2>7. QED
    BY <1>2, <2>6 DEF DeadlineInv, Hosts
<1>5. QED
  BY <1>3, <1>4

\* The executor writes only to the record of its own host, which has no
\* running deadline.
LEMMA ExecutorDeadline ==
    ASSUME ResidualInv, ResidualInv', DeadlineInv,
           ClaimDueProbe \/ Contain \/ ContainUnwritten
    PROVE  DeadlineInv'
<1> DEFINE h == attempt.host
<1>1. /\ UNCHANGED <<on, rows, sched, restore, phase, excused>>
      /\ phase = "ssh"
  BY DEF ClaimDueProbe, Contain, ContainUnwritten, config, scheduler, aux
<1>2. h \in Hosts /\ h # 0 /\ health[h] \in Health /\ attempt.row \in Rows
  BY <1>1, RowAssumption DEF ResidualInv, TypeOK, Attempt, Hosts
<1>3. /\ attempt'.host = h /\ attempt'.row = attempt.row
      /\ attempt.uncertain => attempt'.uncertain
      /\ attempt'.current = attempt.current
  BY DEF ClaimDueProbe, Contain, ContainUnwritten, ResidualInv, TypeOK, Attempt
<1>4. \A g \in Hosts : g # h => health'[g] = health[g]
  BY DEF ClaimDueProbe, Contain, ContainUnwritten, ResidualInv, TypeOK
<1>5. health'[h].wait > 0 => health[h].wait > 0
  <2>1. CASE health' = health
    BY <2>1
  <2>2. CASE health' = [health EXCEPT ![h] = ClaimProbe(@)]
    BY <1>2, <2>2 DEF ClaimProbe, Health, ResidualInv, TypeOK
  <2>3. CASE health' = [health EXCEPT ![h] = RecordContainment(@, attempt.row)]
    <3>1. health'[h].wait = ResultEntry(health[h], attempt.row).wait
      BY <1>2, <2>3, ResultEntryType
         DEF RecordContainment, Health, ResidualInv, TypeOK
    <3>2. QED
      BY <3>1 DEF ResultEntry, NewHealth, NoTime
  <2>4. QED
    BY <2>1, <2>2, <2>3 DEF ClaimDueProbe, Contain, ContainUnwritten
<1>6. Underway'
  <2>1. Underway
    BY DEF DeadlineInv
  <2> HIDE DEF h
  <2>2. QED
    BY <1>1, <1>3, <1>5, <2>1, UnderwayKept DEF h
<1>7. ASSUME NEW g \in Hosts PROVE DeadlineInForce(g)'
  <2>1. CASE g = h
    BY <1>1, <1>2, <1>5, <2>1 DEF DeadlineInv, Underway, DeadlineInForce
  <2>2. CASE g # h
    <3>1. Lasts(g)
      BY <1>4, <2>2 DEF Lasts
    <3>2. DeadlineInForce(g)
      BY DEF DeadlineInv
    <3>3. QED
      BY <1>1, <3>1, <3>2, InForceKept
  <2>3. QED
    BY <2>1, <2>2
<1>8. QED
  BY <1>6, <1>7 DEF DeadlineInv, Hosts

\* A filed outcome pauses the schedule only for a residual of the attempt.
LEMMA AfterPaused ==
    ASSUME NEW s \in Schedule, NEW outcome \in Outcomes,
           NEW uncertain \in BOOLEAN, ~uncertain,
           NEW t \in After(s, outcome, uncertain)
    PROVE  t.paused = s.paused
<1> DEFINE active == IF outcome = "changed" /\ ~uncertain THEN Hysteresis ELSE s.active
           fails  == CASE outcome \in Successes      -> 0
                       [] outcome \in {"soft", "hard"} -> s.fails
                       [] OTHER                      -> Longer(s.fails)
<1>1. PICK d \in Delays(outcome, fails, active) :
          t = [s EXCEPT !.fails = fails, !.wait = d, !.active = active]
  BY DEF After
<1> HIDE DEF active, fails
<1>2. QED
  BY <1>1 DEF Schedule

\* Filing an outcome moves the schedule of a host without a running deadline.
LEMMA FinishDeadline ==
    ASSUME ResidualInv, ResidualInv', DeadlineInv,
           NEW outcome \in Outcomes, Finish(outcome)
    PROVE  DeadlineInv'
<1> DEFINE h == attempt.host
<1>1. /\ UNCHANGED <<on, rows, health, restore, excused>>
      /\ phase = "ssh" /\ phase' = "load"
  BY DEF Finish, config, aux
<1>2. h \in Hosts /\ h # 0 /\ sched[h] \in Schedule /\ attempt.uncertain \in BOOLEAN
  BY <1>1 DEF ResidualInv, TypeOK, Attempt, Hosts
<1>3. PICK s \in After(sched[h], outcome, attempt.uncertain) :
          sched' = [sched EXCEPT ![h] = s]
  BY DEF Finish
<1>4. /\ sched'[h] = s
      /\ \A g \in Hosts : g # h => sched'[g] = sched[g]
  BY <1>2, <1>3 DEF ResidualInv, TypeOK
<1>5. /\ attempt'.host = h /\ attempt'.row = attempt.row
      /\ attempt'.uncertain = attempt.uncertain
      /\ attempt'.current = attempt.current
  BY DEF Finish, ResidualInv, TypeOK, Attempt
<1>6. s.paused => attempt.uncertain
  <2>1. sched[h].paused => attempt.uncertain
    BY <1>1, <1>2 DEF DeadlineInv, Underway
  <2>2. ~attempt.uncertain => s.paused = sched[h].paused
    BY <1>2, AfterPaused
  <2>3. QED
    BY <2>1, <2>2
<1>7. Underway'
  <2>1. Eligible' = Eligible
    BY <1>1 DEF Eligible
  <2>2. QED
    BY <1>1, <1>2, <1>4, <1>5, <1>6, <2>1 DEF DeadlineInv, Underway
<1>8. ASSUME NEW g \in Hosts PROVE DeadlineInForce(g)'
  <2>1. CASE g = h
    BY <1>1, <1>2, <2>1 DEF DeadlineInv, Underway, DeadlineInForce
  <2>2. CASE g # h
    <3>1. Lasts(g) /\ sched'[g] = sched[g]
      BY <1>1, <1>4, <2>2 DEF Lasts
    <3>2. DeadlineInForce(g)
      BY DEF DeadlineInv
    <3>3. QED
      BY <1>1, <3>1, <3>2, InForceKept
  <2>3. QED
    BY <2>1, <2>2
<1>9. QED
  BY <1>7, <1>8 DEF DeadlineInv, Hosts

\* Reconciling the file with the configuration keeps the deadline of a record
\* about the configured source.
LEMMA ReconcileLasts ==
    ASSUME ResidualInv, NEW h \in Hosts,
           NEW H, H = ReconcileHosts(health, rows), health'[h] = H[h]
    PROVE  Lasts(h)
<1>1. /\ health[h] \in Health /\ rows[h] \in Rows \union {NoRow}
      /\ DOMAIN health = Hosts
  BY DEF ResidualInv, TypeOK
<1>2. CASE rows[h] = NoRow
  <2>1. H[h] = health[h]
    BY <1>1, <1>2 DEF ReconcileHosts
  <2>2. QED
    BY <2>1 DEF Lasts
<1>3. CASE rows[h] # NoRow
  <2> DEFINE e == health[h]
             kept == IF e.pin = PinOf[rows[h]] THEN e ELSE NewHealth(PinOf[rows[h]])
  <2>1. H[h] = IF PausedFor(kept, rows[h]) THEN kept ELSE [kept EXCEPT !.pause = NoRow]
    BY <1>1, <1>3 DEF ReconcileHosts, ReconcileEntry
  <2>2. kept \in Health /\ rows[h] \in Rows
    BY <1>1, <1>3, NewHealthType
  <2>3. kept.wait > 0 => kept = e
    BY DEF NewHealth, NoTime
  <2>4. e.pin = PinOf[rows[h]] => kept = e
    OBVIOUS
  <2> HIDE DEF kept
  <2>5. /\ H[h].pin = kept.pin /\ H[h].wait = kept.wait /\ H[h].probe = kept.probe
        /\ PausedFor(kept, rows[h]) => H[h] = kept
    BY <2>1, <2>2 DEF Health
  <2>6. QED
    BY <2>3, <2>4, <2>5 DEF Lasts
<1>4. QED
  BY <1>2, <1>3


\* Both reconciliations of the health writer.
LEMMA ReconcileDeadline ==
    ASSUME ResidualInv, ResidualInv', DeadlineInv, LoadBefore \/ Settle
    PROVE  DeadlineInv'
<1>1. /\ UNCHANGED <<on, rows, sched, restore, excused>>
      /\ health' = ReconcileHosts(health, rows)
  BY DEF LoadBefore, Settle, config, scheduler, aux
<1>2. ASSUME NEW h \in Hosts PROVE Lasts(h) /\ DeadlineInForce(h)'
  <2>1. Lasts(h) /\ DeadlineInForce(h)
    BY <1>1, ReconcileLasts DEF DeadlineInv
  <2>2. QED
    BY <1>1, <2>1, InForceKept
<1>3. Underway'
  <2>1. CASE LoadBefore
    <3>1. /\ attempt'.host = attempt.host /\ attempt'.row = attempt.row
          /\ attempt'.uncertain = attempt.uncertain
          /\ attempt'.current = attempt.current
      BY <2>1 DEF LoadBefore, ResidualInv, TypeOK, Attempt
    <3>2. phase # "settle" /\ Underway
      BY <2>1 DEF LoadBefore, DeadlineInv
    <3>3. attempt.host # 0 =>
              (health'[attempt.host].wait > 0 => health[attempt.host].wait > 0)
      <4>1. attempt.host # 0 => attempt.host \in Hosts
        BY DEF ResidualInv, TypeOK, Attempt, Hosts
      <4>2. QED
        BY <1>2, <4>1 DEF Lasts
    <3>4. QED
      BY <1>1, <3>1, <3>2, <3>3, UnderwayKept
  <2>2. CASE Settle
    BY <2>2, IdleTypes DEF Settle, Underway
  <2>3. QED
    BY <2>1, <2>2
<1>4. QED
  BY <1>2, <1>3 DEF DeadlineInv, Hosts

\* The deadline an accepted result writes is the delay just filed, unless the
\* result leaves the deadline it finds.
LEMMA RecordedDeadline ==
    ASSUME NEW e \in Health, NEW a \in Attempt, a.row \in Rows,
           NEW wait \in Nat, ~Refuses(e, a.row),
           Recorded(e, a, wait).wait > 0
    PROVE  LET w == Recorded(e, a, wait)
           IN  \/ /\ w.wait = wait /\ ~a.uncertain
                  /\ w.probe = NoTime /\ w.pin = PinOf[a.row]
               \/ /\ e.wait > 0
                  /\ a.since = "result" \/ a.outcome \in {"soft", "hard"}
<1> DEFINE f == ResultEntry(e, a.row)
<1>1. /\ f \in Health /\ f.pin = PinOf[a.row]
      /\ f.wait > 0 => e.wait > 0
  <2>1. f \in Health /\ f.pin = PinOf[a.row]
    BY ResultEntryType
  <2>2. f.wait > 0 => e.wait > 0
    BY DEF ResultEntry, NewHealth, NoTime
  <2>3. QED
    BY <2>1, <2>2
<1> HIDE DEF f
<1>2. ~(NoTime > 0)
  BY DEF NoTime
<1>3. CASE a.since = "result"
  BY <1>3 DEF Recorded
<1>4. CASE a.since # "result" /\ a.outcome \in Successes
  <2> DEFINE activity == a.outcome = "changed"
             newer    == a.since = "pause"
             w        == RecordSuccess(e, a.row, activity, a.uncertain, newer, wait)
  <2>1. Recorded(e, a, wait) = w
    <3>1. /\ ~(a.since = "result")
          /\ ~(a.since # "result" /\ a.outcome \in {"soft", "hard"})
      BY <1>4 DEF Successes
    <3>2. QED
      BY <1>4, <3>1, Zenon DEF Recorded
  <2> HIDE DEF activity, newer
  <2>2. /\ w.pin = f.pin /\ w.probe = NoTime
        /\ w.wait = IF a.uncertain THEN NoTime ELSE wait
    BY <1>1 DEF RecordSuccess, Health, f
  <2> HIDE DEF w
  <2>3. QED
    BY <2>1, <2>2, <1>1, <1>2
<1>5. CASE a.since # "result" /\ a.outcome \in {"soft", "hard"}
  <2> DEFINE w == RecordPause(e, a.row, a.outcome = "hard", a.uncertain)
  <2>1. Recorded(e, a, wait) = w
    BY <1>5 DEF Recorded, Successes
  <2>2. w.wait = f.wait
    BY <1>1 DEF RecordPause, Health, f
  <2> HIDE DEF w
  <2>3. QED
    BY <1>1, <1>5, <2>1, <2>2
<1>6. CASE a.since # "result" /\ a.outcome \notin Successes \union {"soft", "hard"}
  <2> DEFINE contained == a.outcome = "contained"
             rest == IF a.uncertain THEN NoTime ELSE wait
             w == RecordFailure(e, a.row, contained, rest)
  <2>1. Recorded(e, a, wait) = w
    <3>1. /\ ~(a.since # "result" /\ a.outcome \in Successes)
          /\ ~(a.since # "result" /\ a.outcome \in {"soft", "hard"})
          /\ ~(a.since = "result")
      BY <1>6
    <3>2. QED
      BY <3>1, Zenon DEF Recorded
  <2> HIDE DEF contained
  <2>2. w.pin = f.pin /\ w.probe = NoTime /\ w.wait = rest
    BY <1>1 DEF RecordFailure, Health, f
  <2> HIDE DEF w
  <2>3. QED
    BY <2>1, <2>2, <1>1, <1>2
<1>7. QED
  BY <1>3, <1>4, <1>5, <1>6

\* A result brings its host under the deadline it writes: the schedule in
\* memory has just been given the same delay.
LEMMA RecordResultDeadline ==
    ASSUME ResidualInv, ResidualInv', DeadlineInv, RecordResult
    PROVE  DeadlineInv'
<1> DEFINE h == attempt.host
           w == Recorded(health[h], attempt, sched[h].wait)
<1>1. /\ UNCHANGED <<on, rows, sched, restore, attempt>>
      /\ phase = "record" /\ phase' = "settle"
      /\ ~Refuses(health[h], attempt.row)
      /\ health' = [health EXCEPT ![h] = w]
      /\ excused' = IF SetsDeadline(attempt) THEN excused \ {h} ELSE excused
  BY DEF RecordResult, config, scheduler
<1>2. /\ h \in Hosts /\ h # 0 /\ health[h] \in Health /\ attempt \in Attempt
      /\ sched[h] \in Schedule /\ sched[h].wait \in Nat /\ attempt.row \in Rows
  BY RowAssumption DEF RecordResult, ResidualInv, TypeOK, Attempt, Hosts, Schedule
<1>3. health'[h] = w /\ \A g \in Hosts : g # h => health'[g] = health[g]
  BY <1>1, <1>2 DEF ResidualInv, TypeOK
<1>4. attempt.current \/ h \notin excused =>
          attempt.row = rows[h] /\ h \in Eligible
  BY <1>2 DEF DeadlineInv, Underway
<1>5. h \notin excused' => attempt.current \/ h \notin excused
  BY <1>1 DEF SetsDeadline
<1> HIDE DEF w
<1>6. Underway'
  <2>1. Eligible' = Eligible
    BY <1>1 DEF Eligible
  <2>2. QED
    BY <1>1, <1>4, <1>5, <2>1 DEF Underway
<1>7. ASSUME NEW g \in Hosts, g = h PROVE DeadlineInForce(g)'
  <2> SUFFICES ASSUME g \notin excused', w.wait > 0 PROVE DeadlineHeld(g)'
    BY <1>1, <1>3, <1>7 DEF DeadlineInForce
  <2>1. attempt.row = rows[h] /\ h \in Eligible
    BY <1>4, <1>5, <1>7
  <2>2. \/ /\ w.wait = sched[h].wait /\ ~attempt.uncertain
           /\ w.probe = NoTime /\ w.pin = PinOf[attempt.row]
        \/ /\ health[h].wait > 0
           /\ attempt.since = "result" \/ attempt.outcome \in {"soft", "hard"}
    BY <1>1, <1>2, RecordedDeadline DEF w
  <2>3. ~(/\ health[h].wait > 0
          /\ attempt.since = "result" \/ attempt.outcome \in {"soft", "hard"})
    <3>1. attempt.since = "result" \/ attempt.outcome \in {"soft", "hard"} =>
              h \notin excused
      BY <1>1, <1>7 DEF SetsDeadline
    <3>2. h \notin excused => ~(health[h].wait > 0)
      BY <1>1, <1>2 DEF DeadlineInv, Underway
    <3>3. QED
      BY <3>1, <3>2
  <2>4. ~sched[h].paused
    BY <1>1, <1>2, <2>2, <2>3 DEF DeadlineInv, Underway
  <2>5. sched[h].row = rows[h]
    BY <1>2, <2>1 DEF ResidualInv, AttemptInv
  <2>6. h \in Eligible'
    BY <1>1, <2>1 DEF Eligible
  <2>7. QED
    BY <1>1, <1>2, <1>3, <1>7, <2>1, <2>2, <2>3, <2>4, <2>5, <2>6 DEF DeadlineHeld
<1>8. ASSUME NEW g \in Hosts, g # h PROVE DeadlineInForce(g)'
  <2>1. Lasts(g) /\ DeadlineInForce(g)
    BY <1>3, <1>8 DEF Lasts, DeadlineInv
  <2>2. g \notin excused' => g \notin excused
    BY <1>1, <1>8
  <2>3. QED
    BY <1>1, <2>1, <2>2, InForceKept
<1>9. QED
  BY <1>6, <1>7, <1>8 DEF DeadlineInv, Hosts

\* A round that ends without a record leaves the file and the schedules.
LEMMA UnrecordedDeadline ==
    ASSUME ResidualInv, ResidualInv', DeadlineInv,
           RecordNothing \/ RecordRefused \/ WriteFails
    PROVE  DeadlineInv'
<1>1. UNCHANGED <<on, rows, health, sched, restore, excused>>
  BY DEF RecordNothing, RecordRefused, WriteFails, config, scheduler, aux
<1>2. ASSUME NEW h \in Hosts PROVE DeadlineInForce(h)'
  <2>1. Lasts(h) /\ DeadlineInForce(h)
    BY <1>1 DEF Lasts, DeadlineInv
  <2>2. QED
    BY <1>1, <2>1, InForceKept
<1>3. Underway'
  <2>1. CASE RecordNothing
    BY <1>1, <2>1, UnderwayKept DEF RecordNothing, DeadlineInv
  <2>2. CASE RecordRefused \/ WriteFails
    BY <2>2, IdleTypes DEF RecordRefused, WriteFails, Underway
  <2>3. QED
    BY <2>1, <2>2
<1>4. QED
  BY <1>2, <1>3 DEF DeadlineInv, Hosts

\* A restart forgets the schedules and will restore them from the file.
LEMMA RestartDeadline ==
    ASSUME ResidualInv, ResidualInv', DeadlineInv, Restart
    PROVE  DeadlineInv'
<1>1. /\ UNCHANGED <<on, rows, health, excused>> /\ restore' = TRUE
      /\ attempt' = NoAttempt
      /\ \A h \in Hosts : sched'[h].row = NoRow
  BY IdleTypes DEF Restart, config, aux
<1>2. Underway'
  BY <1>1, IdleTypes DEF Underway
<1>3. ASSUME NEW h \in Hosts PROVE DeadlineInForce(h)'
  BY <1>1 DEF DeadlineInv, DeadlineInForce, DeadlineHeld, Eligible
<1>4. QED
  BY <1>2, <1>3 DEF DeadlineInv, Hosts

\* The deadline in the file and the one in memory run down together.
LEMMA TimeDeadline ==
    ASSUME ResidualInv, ResidualInv', DeadlineInv, Time
    PROVE  DeadlineInv'
<1>1. UNCHANGED <<on, rows, restore, phase, attempt, excused>>
  BY DEF Time, config, aux
<1>2. ASSUME NEW h \in Hosts
      PROVE  /\ health'[h].pin = health[h].pin /\ health'[h].pause = health[h].pause
             /\ health'[h].wait = Less(health[h].wait)
             /\ health'[h].probe = Less(health[h].probe)
             /\ sched'[h].row = sched[h].row /\ sched'[h].paused = sched[h].paused
             /\ sched'[h].wait = Less(sched[h].wait)
             /\ health[h].wait \in Int /\ sched[h].wait \in Nat
  <2>1. health[h] \in Health /\ sched[h] \in Schedule
    BY DEF ResidualInv, TypeOK
  <2>2. health'[h] = HealthAfter(health[h])
    BY DEF Time
  <2>3. sched'[h] = [sched[h] EXCEPT !.wait = Less(@), !.active = Less(@)]
    BY DEF Time
  <2>4. QED
    BY <2>1, <2>2, <2>3 DEF HealthAfter, Health, Schedule, NoTime
<1>3. ASSUME NEW h \in Hosts PROVE health'[h].wait > 0 => health[h].wait > 0
  BY <1>2 DEF Less
<1>4. Underway'
  <2>1. attempt.host # 0 => attempt.host \in Hosts
    BY DEF ResidualInv, TypeOK, Attempt, Hosts
  <2>2. Underway
    BY DEF DeadlineInv
  <2>3. QED
    BY <1>1, <1>2, <1>3, <2>1, <2>2, UnderwayKept
<1>5. ASSUME NEW h \in Hosts PROVE DeadlineInForce(h)'
  <2> SUFFICES ASSUME h \notin excused, health'[h].wait > 0 PROVE DeadlineHeld(h)'
    BY <1>1 DEF DeadlineInForce
  <2>1. DeadlineHeld(h)
    BY <1>3 DEF DeadlineInv, DeadlineInForce
  <2>2. h \in Eligible'
    BY <1>1, <2>1 DEF DeadlineHeld, Eligible
  <2>3. health'[h].probe = NoTime
    BY <1>2, <2>1 DEF DeadlineHeld, Less, NoTime
  <2>4. sched[h].wait >= health[h].wait => sched'[h].wait >= health'[h].wait
    BY <1>2 DEF Less
  <2>5. PausedFor(health[h], rows[h]) => PausedFor(health'[h], rows[h])
    BY <1>2 DEF PausedFor
  <2>6. QED
    BY <1>1, <1>2, <2>1, <2>2, <2>3, <2>4, <2>5 DEF DeadlineHeld
<1>6. QED
  BY <1>4, <1>5 DEF DeadlineInv, Hosts


\* An edit of the host or the switch excuses; other hosts are left alone.
LEMMA EditDeadline ==
    ASSUME ResidualInv, ResidualInv', DeadlineInv,
           Toggle \/ \E h \in Hosts, r \in Rows \union {NoRow} : Edit(h, r)
    PROVE  DeadlineInv'
<1>1. UNCHANGED <<health, sched, restore, phase>> /\ excused \subseteq excused'
  BY DEF Toggle, Edit, scheduler, ResidualInv, TypeOK
<1>2. /\ attempt'.host = attempt.host /\ attempt'.row = attempt.row
      /\ attempt'.uncertain = attempt.uncertain /\ ~attempt'.current
  BY DEF Toggle, Edit, Outdate, ResidualInv, TypeOK, Attempt
<1>3. ASSUME NEW g \in Hosts, g \notin excused'
      PROVE  on' = on /\ rows'[g] = rows[g]
  BY <1>3 DEF Toggle, Edit, ResidualInv, TypeOK
<1>4. Underway'
  <2>1. attempt.host # 0 => attempt.host \in Hosts
    BY DEF ResidualInv, TypeOK, Attempt, Hosts
  <2>2. Underway
    BY DEF DeadlineInv
  <2>3. QED
    BY <1>1, <1>2, <1>3, <2>1, <2>2, UnderwayKept
<1>5. ASSUME NEW g \in Hosts PROVE DeadlineInForce(g)'
  <2>1. Lasts(g) /\ DeadlineInForce(g)
    BY <1>1 DEF Lasts, DeadlineInv
  <2>2. QED
    BY <1>1, <1>3, <2>1, InForceKept
<1>6. QED
  BY <1>4, <1>5 DEF DeadlineInv, Hosts

\* A manual command excuses its host, or only pauses it; reconciling keeps the
\* deadlines of the others.
LEMMA ManualDeadline ==
    ASSUME ResidualInv, ResidualInv', DeadlineInv, NEW h \in Hosts,
           \/ ManualTestOk(h) \/ ManualTestResidual(h)
           \/ \E outcome \in ManualOutcomes : ManualSync(h, outcome)
    PROVE  DeadlineInv'
<1>1. /\ UNCHANGED <<on, rows, sched, restore, phase>> /\ excused \subseteq excused'
      /\ rows[h] \in Rows /\ health[h] \in Health
  BY DEF ManualTestOk, ManualTestResidual, ManualSync, config, scheduler,
         ResidualInv, TypeOK
<1>2. /\ attempt'.host = attempt.host /\ attempt'.row = attempt.row
      /\ attempt'.uncertain = attempt.uncertain
      /\ attempt'.current = attempt.current
  <2>1. CASE attempt' = attempt
    BY <2>1
  <2>2. ASSUME NEW what, attempt' = [attempt EXCEPT !.since = what]
        PROVE  /\ attempt'.host = attempt.host /\ attempt'.row = attempt.row
               /\ attempt'.uncertain = attempt.uncertain
               /\ attempt'.current = attempt.current
    BY <2>2 DEF ResidualInv, TypeOK, Attempt
  <2>3. QED
    BY <2>1, <2>2 DEF ManualTestOk, ManualTestResidual, ManualSync, Overtakes
<1>3. ASSUME NEW g \in Hosts PROVE g \in excused' \/ Lasts(g)
  <2>1. CASE ManualTestOk(h)
    BY <2>1 DEF ManualTestOk, Lasts, ResidualInv, TypeOK
  <2>2. CASE ManualTestResidual(h)
    <3>1. CASE health'[g] = health[g]
      BY <3>1 DEF Lasts
    <3>2. CASE g = h /\ health'[h] = RecordContainment(health[h], rows[h])
      <4> DEFINE f == ResultEntry(health[h], rows[h])
      <4>1. f \in Health /\ rows[h] # NoRow
        BY <1>1, ResultEntryType, RowAssumption
      <4>2. f.wait > 0 => f = health[h]
        BY DEF ResultEntry, NewHealth, NoTime
      <4>3. health'[h] = [f EXCEPT !.pause = rows[h]]
        BY <3>2 DEF RecordContainment
      <4> HIDE DEF f
      <4>4. /\ health'[h].pin = f.pin /\ health'[h].wait = f.wait
            /\ health'[h].probe = f.probe /\ PausedFor(health'[h], rows[h])
        BY <4>1, <4>3 DEF Health, PausedFor
      <4>5. QED
        BY <3>2, <4>2, <4>4 DEF Lasts
    <3>3. QED
      BY <2>2, <3>1, <3>2 DEF ManualTestResidual, ResidualInv, TypeOK
  <2>3. ASSUME NEW outcome \in ManualOutcomes, ManualSync(h, outcome)
        PROVE  g \in excused' \/ Lasts(g)
    <3> DEFINE H == ReconcileHosts(health, rows)
    <3>1. h \in excused'
      BY <2>3 DEF ManualSync
    <3>2. ASSUME g # h PROVE health'[g] = H[g]
      <4>1. health' = [H EXCEPT ![h] = ManualRecord(@, rows[h], outcome)]
        BY <2>3 DEF ManualSync
      <4>2. H \in [Hosts -> Health]
        BY ReconcileHostsType
      <4> HIDE DEF H
      <4>3. QED
        BY <3>2, <4>1, <4>2
    <3>3. QED
      BY <3>1, <3>2, ReconcileLasts
  <2>4. QED
    BY <2>1, <2>2, <2>3
<1>4. ASSUME NEW g \in Hosts PROVE DeadlineInForce(g)'
  <2>1. CASE g \in excused'
    BY <2>1 DEF DeadlineInForce
  <2>2. CASE g \notin excused'
    <3>1. Lasts(g) /\ DeadlineInForce(g)
      BY <1>3, <2>2 DEF DeadlineInv
    <3>2. QED
      BY <1>1, <3>1, InForceKept
  <2>3. QED
    BY <2>1, <2>2
<1>5. Underway'
  <2>1. attempt.host # 0 => attempt.host \in Hosts
    BY DEF ResidualInv, TypeOK, Attempt, Hosts
  <2>2. Underway /\ Eligible' = Eligible
    BY <1>1 DEF DeadlineInv, Eligible
  <2>3. attempt.host # 0 /\ attempt.host \notin excused' =>
            (health'[attempt.host].wait > 0 => health[attempt.host].wait > 0)
    BY <1>3, <2>1 DEF Lasts
  <2>4. QED
    BY <1>1, <1>2, <2>2, <2>3 DEF Underway
<1>6. QED
  BY <1>4, <1>5 DEF DeadlineInv, Hosts

\* Every step keeps the deadlines in force.
LEMMA DeadlineNext ==
    ResidualInv /\ DeadlineInv /\ [Next]_vars => DeadlineInv'
<1> SUFFICES ASSUME ResidualInv, DeadlineInv, [Next]_vars PROVE DeadlineInv'
  OBVIOUS
<1>1. ResidualInv'
  BY ResidualNext
<1>2. CASE Worker
  BY <1>1, <1>2, TickDeadline, FinishDeadline, ReconcileDeadline,
     RecordResultDeadline, UnrecordedDeadline DEF Worker
<1>3. CASE ClaimDueProbe \/ Contain \/ ContainUnwritten \/ WriteFails \/ Restart \/ Time
  BY <1>1, <1>3, ExecutorDeadline, UnrecordedDeadline, RestartDeadline, TimeDeadline
<1>4. CASE User
  BY <1>1, <1>4, EditDeadline, ManualDeadline DEF User
<1>5. CASE UNCHANGED vars
  BY <1>5 DEF DeadlineInv, Underway, DeadlineInForce, DeadlineHeld, Eligible,
              vars, config, scheduler, aux
<1>6. QED
  BY <1>2, <1>3, <1>4, <1>5 DEF Next

\* No attempt starts before the deadline the health file holds for its host,
\* whatever a restart forgets and whatever races the record of a result: for
\* any number of hosts and rows, any intervals and any number of disturbances.
THEOREM DeadlinesHold == Spec => DeadlineOutlivesRestart
<1>1. ASSUME ResidualInv, DeadlineInv, Next, Connects
      PROVE  \/ attempt'.host \in excused
             \/ health[attempt'.host].wait <= 0
  <2>1. PICK h \in Hosts : TickSelect(h)
    BY <1>1 DEF Connects, Next, Worker, User, TickDisabled, TickWaiting, Finish,
            LoadBefore, RecordResult, RecordNothing, RecordRefused, Settle,
            ClaimDueProbe, Contain, Edit, Toggle, ManualTestOk, ManualTestResidual,
            ManualSync, Restart, Time, ContainUnwritten, WriteFails
  <2>2. h \in Due /\ attempt'.host = h
    BY <2>1 DEF TickSelect, NoAttempt
  <2>3. h \in excused \/ ~(health[h].wait > 0)
    BY <1>1, <2>2, HeldNotDue DEF DeadlineInv
  <2>4. health[h].wait \in Int
    BY <1>1 DEF ResidualInv, TypeOK, Health, NoTime
  <2>5. QED
    BY <2>2, <2>3, <2>4
<1>2. ResidualInv /\ DeadlineInv /\ [Next]_vars =>
          [Connects => \/ attempt'.host \in excused
                       \/ health[attempt'.host].wait <= 0]_vars
  BY <1>1
<1>3. Spec => []DeadlineInv
  BY DeadlineInit, DeadlineNext, ResidualInvariant, PTL DEF Spec
<1>4. QED
  BY <1>2, <1>3, ResidualInvariant, PTL DEF Spec, DeadlineOutlivesRestart

=============================================================================
