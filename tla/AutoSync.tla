------------------------------ MODULE AutoSync ------------------------------
(***************************************************************************)
(* Automatic synchronization: the recorder's single worker thread          *)
(* (AutomaticRemoteSyncWorker) drives the scheduler                        *)
(* (remote_sync_scheduler.rs) and the executor (automatic_remote_sync.rs), *)
(* and persists what it learnt in the health file, while the user edits    *)
(* the configuration, tests and syncs hosts by hand, and the recorder is   *)
(* restarted.                                                              *)
(*                                                                         *)
(* One round of the worker is                                              *)
(*    sleep --Tick--> ssh --Finish--> load --> record --> settle --> sleep *)
(* where a tick that starts no attempt goes from sleep to load at once.    *)
(* The configuration and the health file are shared with other processes   *)
(* and may change between any two of these steps.                          *)
(*                                                                         *)
(* Time is what is left of each delay: `wait = 0' is `due_at <= now'.      *)
(***************************************************************************)
EXTENDS SyncHealth, FiniteSets

CONSTANTS
    N,               \* hosts, numbered in the order of the configuration
    Enabled,         \* the rows of enabled and paired hosts
    ActiveInterval,  \* active_interval_seconds
    IdleInterval,    \* idle_interval_seconds
    Spacing,         \* MIN_DISPATCH_SPACING
    MaxDisturb       \* bound: edits, manual operations and restarts

ASSUME AutoSyncAssumption ==
    /\ N \in Nat \ {0}
    /\ Enabled \subseteq Rows
    /\ {ActiveInterval, IdleInterval, Spacing} \subseteq Nat \ {0}
    /\ MaxDisturb \in Nat

VARIABLES
    on,       \* auto_sync_enabled
    rows,     \* the configured row of each host, NoRow when it is not configured
    health,   \* the health file
    sched,    \* RemoteSyncScheduler::hosts
    last,     \* last_dispatched_host, 0 for none
    gap,      \* what is left of the global dispatch spacing
    restore,  \* restore_durable_state
    phase,    \* where the worker is in its round
    attempt,  \* the attempt of this round
    left,     \* disturbances left
    owed,     \* who found the residual that the configured row of a host must
              \* be paused for: the worker, the worker with its pause not in
              \* the file yet ("unstored"), or a manual command (auxiliary)
    excused   \* hosts whose stored deadline no longer binds (auxiliary)

config    == <<on, rows>>
scheduler == <<sched, last, gap, restore>>
aux       == <<owed, excused>>
vars == <<config, health, scheduler, phase, attempt, left, aux>>

Hosts  == 1..N
Finders == {"none", "worker", "unstored", "manual"}
Phases == {"sleep", "ssh", "load", "record", "settle"}

\* What a finished attempt was: new data, more pages to fetch, nothing new;
\* a soft or hard bandwidth pause; an error, `contained' when the error is
\* that the SSH process tree may be alive.
Successes == {"changed", "more", "quiet"}
Outcomes  == Successes \union {"soft", "hard", "failed", "contained"}

\* A host's schedule: LastAttempt as the streak and the delay it determines.
Schedule ==
    [row    : Rows \union {NoRow},   \* configured_host, NoRow for no schedule
     paused : BOOLEAN,               \* ProcessContainmentPause
     fails  : Streaks,
     wait   : Nat,
     active : Nat]                   \* active_until

Attempt ==
    [host      : 0..N,                    \* 0 for a round without an attempt
     row       : Rows \union {NoRow},
     current   : BOOLEAN,                 \* config_revision is still the latest
     claimed   : BOOLEAN,                 \* a bandwidth probe was claimed
     uncertain : BOOLEAN,                 \* process_containment_uncertain
     accepted  : BOOLEAN,                 \* the health writer took the result
     since     : {"nothing", "pause", "result"},  \* what others wrote to the
                       \* host's record after the result got its time stamp
     outcome   : Outcomes \union {"none"}]

\* HostSchedule::new
NewSchedule(r) ==
    [row |-> r, paused |-> FALSE, fails |-> 0, wait |-> 0, active |-> 0]
NoSchedule == NewSchedule(NoRow)

NoAttempt ==
    [host |-> 0, row |-> NoRow, current |-> FALSE, claimed |-> FALSE,
     uncertain |-> FALSE, accepted |-> FALSE, since |-> "nothing",
     outcome |-> "none"]

Init ==
    /\ on \in BOOLEAN
    /\ rows \in [Hosts -> Rows \union {NoRow}]
    /\ health = [h \in Hosts |-> NoHealth]
    /\ sched = [h \in Hosts |-> NoSchedule]
    /\ last = 0
    /\ gap = 0
    /\ restore = TRUE
    /\ phase = "sleep"
    /\ attempt = NoAttempt
    /\ left = MaxDisturb
    /\ owed = [h \in Hosts |-> "none"]
    /\ excused = {}

-----------------------------------------------------------------------------
(* The scheduler. *)

Eligible == {h \in Hosts : on /\ rows[h] \in Enabled}

\* Slip: only the deadline of a bandwidth pause is restored.
HasSeedOfPause(e, r) == e.pin = PinOf[r] /\ e.probe # NoTime

\* The deadline and streak a restarted recorder finds in the health file, for
\* the exact source the row is paired with.
HasSeed(e, r) == e.pin = PinOf[r] /\ (e.probe # NoTime \/ e.wait # NoTime)
Restored(e, r) ==
    [NewSchedule(r) EXCEPT
        !.fails  = e.fails,
        !.wait   = IF e.probe # NoTime THEN e.probe ELSE e.wait,
        !.active = e.active]

\* ProcessContainmentPause and Never carry neither a streak nor a delay.
Paused(s)   == [s EXCEPT !.paused = TRUE, !.fails = 0, !.wait = 0]
Unpaused(s) == [s EXCEPT !.paused = FALSE, !.fails = 0, !.wait = 0]

\* reconcile_hosts, for a host that had this very row at the last tick,
KnownSchedule(s, e) ==
    CASE PausedFor(e, s.row)                           -> Paused(s)
      [] ~PausedFor(e, s.row) /\ Known(e) /\ s.paused   -> Unpaused(s)
      [] OTHER                                         -> s

\* Slip: the pauses in the file are applied only to hosts
\* that already have a schedule.
FreshScheduleUnpaused(e, r) ==
    IF restore /\ HasSeed(e, r) THEN Restored(e, r) ELSE NewSchedule(r)

\* for a host that had no schedule,
FreshSchedule(e, r) ==
    LET s == IF restore /\ HasSeed(e, r) THEN Restored(e, r) ELSE NewSchedule(r)
    IN  IF PausedFor(e, r) THEN Paused(s) ELSE s

\* for any host.
Reconciled(h) ==
    CASE h \notin Eligible                         -> NoSchedule
      [] h \in Eligible /\ sched[h].row = rows[h] -> KnownSchedule(sched[h], health[h])
      [] h \in Eligible /\ sched[h].row = NoRow   -> FreshSchedule(health[h], rows[h])
      [] OTHER                                    -> NewSchedule(rows[h])

\* Slip: the search always starts at the first host.
TurnFromFirst(from, h) == h

\* The schedules of this tick, and the hosts that are due by them.
Schedules == [h \in Hosts |-> Reconciled(h)]
Due == {h \in Eligible : gap = 0 /\ ~Reconciled(h).paused /\ Reconciled(h).wait = 0}

\* next_due_host_index: the due hosts are taken in turn after the last one.
Turn(from, h) == (h - from - 1 + N) % N
LastEligible == IF last \in Eligible THEN last ELSE 0
IsNext(h) == \A g \in Due : Turn(LastEligible, h) <= Turn(LastEligible, g)

TickDisabled ==
    /\ phase = "sleep"
    /\ Eligible = {}
    /\ sched' = [h \in Hosts |-> NoSchedule]
    /\ last' = 0
    /\ gap' = 0
    /\ restore' = FALSE
    /\ phase' = "load"
    /\ attempt' = NoAttempt
    /\ UNCHANGED <<config, health, left, aux>>

TickWaiting ==
    /\ phase = "sleep"
    /\ Eligible # {}
    /\ Due = {}
    /\ sched' = Schedules
    /\ last' = LastEligible
    /\ restore' = FALSE
    /\ phase' = "load"
    /\ attempt' = NoAttempt
    /\ UNCHANGED <<config, health, gap, left, aux>>

TickSelect(h) ==
    /\ phase = "sleep"
    /\ h \in Due
    /\ IsNext(h)
    /\ sched' = Schedules
    /\ last' = LastEligible
    /\ restore' = FALSE
    /\ phase' = "ssh"
    /\ attempt' = [NoAttempt EXCEPT !.host = h, !.row = rows[h], !.current = TRUE]
    /\ UNCHANGED <<config, health, gap, left, aux>>

\* retry_delay: a fixed percentage between 80 and 120 for each host and streak.
RetryDelays(n) == {(Backoff[n] * p + 99) \div 100 : p \in 80..120}

\* Slip: an activity window that is over still shortens the wait.
DelaysNoFilter(outcome, fails, active) ==
    CASE outcome \in Successes /\ (outcome = "more" \/ active > 0) ->
            {IF active < ActiveInterval THEN active ELSE ActiveInterval}
      [] outcome \in Successes /\ outcome # "more" /\ active = 0 -> {IdleInterval}
      [] outcome = "soft" -> {IdleInterval}
      [] outcome = "hard" ->
            {IF ProbeInterval < IdleInterval THEN ProbeInterval ELSE IdleInterval}
      [] OTHER -> RetryDelays(fails)

\* The delays due_at may give after an attempt of this outcome, when the
\* activity window has `active' left.
Delays(outcome, fails, active) ==
    CASE outcome \in Successes /\ (outcome = "more" \/ active > 0) ->
            {IF active > 0 /\ active < ActiveInterval THEN active ELSE ActiveInterval}
      [] outcome \in Successes /\ outcome # "more" /\ active = 0 -> {IdleInterval}
      [] outcome = "soft" -> {IdleInterval}
      [] outcome = "hard" ->
            {IF ProbeInterval < IdleInterval THEN ProbeInterval ELSE IdleInterval}
      [] OTHER -> RetryDelays(fails)

\* The schedules an attempt may leave.
After(s, outcome, uncertain) ==
    LET active == IF outcome = "changed" /\ ~uncertain THEN Hysteresis ELSE s.active
        fails  == CASE outcome \in Successes      -> 0
                    [] outcome \in {"soft", "hard"} -> s.fails
                    [] OTHER                      -> Longer(s.fails)
    IN  IF uncertain
        THEN {Paused(s)}
        ELSE {[s EXCEPT !.fails = fails, !.wait = d, !.active = active] :
                d \in Delays(outcome, fails, active)}

-----------------------------------------------------------------------------
(* The executor. *)

\* One of the bounded number of disturbances.
Disturb == left > 0 /\ left' = left - 1

\* The fixed-size probe of a hard bandwidth pause, when its deadline is due.
ClaimDueProbe ==
    LET h == attempt.host IN
    /\ phase = "ssh"
    /\ attempt.current
    /\ ~attempt.claimed /\ ~attempt.uncertain
    /\ health[h].pin = PinOf[attempt.row]
    /\ health[h].probe = 0
    /\ health' = [health EXCEPT ![h] = ClaimProbe(@)]
    /\ attempt' = [attempt EXCEPT !.claimed = TRUE]
    /\ UNCHANGED <<config, scheduler, phase, left, aux>>

\* An exchange of the attempt ended with its SSH process tree possibly alive:
\* the pause is stored at once, for the row the attempt was selected with.
Contain ==
    LET h == attempt.host IN
    /\ phase = "ssh"
    /\ ~attempt.uncertain
    /\ health' = IF Refuses(health[h], attempt.row)
                 THEN health
                 ELSE [health EXCEPT ![h] = RecordContainment(@, attempt.row)]
    /\ attempt' = [attempt EXCEPT !.uncertain = TRUE]
    /\ owed' = IF attempt.row # rows[h]
               THEN owed
               ELSE [owed EXCEPT ![h] =
                       IF Refuses(health[h], attempt.row) THEN "unstored" ELSE "worker"]
    /\ UNCHANGED <<config, scheduler, phase, left, excused>>

\* An I/O error of that write is ignored: only the attempt knows.
ContainUnwritten ==
    /\ Disturb
    /\ phase = "ssh"
    /\ ~attempt.uncertain
    /\ attempt' = [attempt EXCEPT !.uncertain = TRUE]
    /\ owed' = [owed EXCEPT ![attempt.host] =
                  IF attempt.row = rows[attempt.host] THEN "unstored" ELSE @]
    /\ UNCHANGED <<config, health, scheduler, phase, excused>>

Ends(outcome) ==
    /\ attempt.claimed => outcome = "hard"
    /\ outcome = "contained" => attempt.uncertain
    /\ outcome = "soft" => ~attempt.uncertain
    /\ outcome = "hard" /\ attempt.uncertain => attempt.claimed

\* The attempt returns and the scheduler files its outcome.
Finish(outcome) ==
    LET h == attempt.host IN
    /\ phase = "ssh"
    /\ Ends(outcome)
    /\ \E s \in After(sched[h], outcome, attempt.uncertain) :
          sched' = [sched EXCEPT ![h] = s]
    /\ last' = h
    /\ gap' = Spacing
    /\ attempt' = [attempt EXCEPT !.outcome = outcome]
    /\ phase' = "load"
    /\ UNCHANGED <<config, health, restore, left, aux>>

-----------------------------------------------------------------------------
(* The health writer (persist_automatic_remote_sync_health). *)

\* Loads the configuration, reconciles the file with it, and takes the result
\* only if no configuration was written since the attempt was selected; its
\* time stamp is read now.
LoadBefore ==
    /\ phase = "load"
    /\ health' = ReconcileHosts(health, rows)
    /\ attempt' = [attempt EXCEPT !.accepted = attempt.host # 0 /\ attempt.current]
    /\ phase' = "record"
    /\ UNCHANGED <<config, scheduler, left, aux>>

\* What the attempt makes of its host's record, `wait' the delay just filed;
\* nothing if a result with a later time stamp is there.
Recorded(e, a, wait) ==
    CASE a.since = "result" -> e
      [] a.since # "result" /\ a.outcome \in Successes ->
            RecordSuccess(e, a.row, a.outcome = "changed", a.uncertain,
                          a.since = "pause", wait)
      [] a.since # "result" /\ a.outcome \in {"soft", "hard"} ->
            RecordPause(e, a.row, a.outcome = "hard", a.uncertain)
      [] OTHER ->
            RecordFailure(e, a.row, a.outcome = "contained",
                          IF a.uncertain THEN NoTime ELSE wait)

\* The record has its host's next deadline from this attempt.
SetsDeadline(a) ==
    a.current /\ a.since # "result" /\ a.outcome \notin {"soft", "hard"}

RecordResult ==
    LET h == attempt.host IN
    /\ phase = "record"
    /\ attempt.accepted
    /\ ~Refuses(health[h], attempt.row)
    /\ health' = [health EXCEPT ![h] = Recorded(@, attempt, sched[h].wait)]
    /\ excused' = IF SetsDeadline(attempt) THEN excused \ {h} ELSE excused
    /\ owed' = [owed EXCEPT ![h] =
           IF @ = "unstored" /\ PausedFor(health'[h], rows[h]) THEN "worker" ELSE @]
    /\ phase' = "settle"
    /\ UNCHANGED <<config, scheduler, attempt, left>>

\* A late result is dropped,
RecordNothing ==
    /\ phase = "record"
    /\ ~attempt.accepted
    /\ phase' = "settle"
    /\ UNCHANGED <<config, health, scheduler, attempt, left, aux>>

\* and one whose source the file no longer has ends the round with an error.
RecordRefused ==
    /\ phase = "record"
    /\ attempt.accepted
    /\ Refuses(health[attempt.host], attempt.row)
    /\ phase' = "sleep"
    /\ attempt' = NoAttempt
    /\ UNCHANGED <<config, health, scheduler, left, aux>>

\* An I/O error of any of its loads and writes ends the round there; the
\* schedule in memory is all that remembers the attempt.
WriteFails ==
    /\ Disturb
    /\ phase \in {"load", "record", "settle"}
    /\ phase' = "sleep"
    /\ attempt' = NoAttempt
    /\ UNCHANGED <<config, health, scheduler, aux>>

\* Loads the configuration once more, so that a change racing the record wins.
Settle ==
    /\ phase = "settle"
    /\ health' = ReconcileHosts(health, rows)
    /\ phase' = "sleep"
    /\ attempt' = NoAttempt
    /\ UNCHANGED <<config, scheduler, left, aux>>

-----------------------------------------------------------------------------
(* The user, the clock and the recorder's process. *)

\* A manual command writes to the record of h while a result for h is on its
\* way there.
Overtakes(h, what) ==
    attempt' = IF phase = "record" /\ attempt.host = h /\ attempt.since # "result"
               THEN [attempt EXCEPT !.since = what]
               ELSE attempt

\* Any write of the configuration moves its revision.
Outdate == attempt' = [attempt EXCEPT !.current = FALSE]

\* The row of a host is edited, added or removed.
Edit(h, r) ==
    /\ Disturb
    /\ r # rows[h]
    /\ rows' = [rows EXCEPT ![h] = r]
    /\ Outdate
    /\ owed' = [owed EXCEPT ![h] = "none"]
    /\ excused' = excused \union {h}
    /\ UNCHANGED <<on, health, scheduler, phase>>

\* The global switch.
Toggle ==
    /\ Disturb
    /\ on' = ~on
    /\ Outdate
    /\ excused' = Hosts
    /\ UNCHANGED <<rows, health, scheduler, phase, owed>>

\* `remote test': no lease keeps it from running beside an attempt.
ManualTestOk(h) ==
    /\ Disturb
    /\ rows[h] # NoRow
    /\ ~Refuses(health[h], rows[h])
    /\ health' = [health EXCEPT ![h] = ClearContainment(@)]
    /\ owed' = [owed EXCEPT ![h] = "none"]
    /\ excused' = excused \union {h}
    /\ UNCHANGED <<config, scheduler, phase, attempt>>

ManualTestResidual(h) ==
    /\ Disturb
    /\ rows[h] # NoRow
    /\ health' = IF Refuses(health[h], rows[h])
                 THEN health
                 ELSE [health EXCEPT ![h] = RecordContainment(@, rows[h])]
    /\ owed' = [owed EXCEPT ![h] = "manual"]
    /\ Overtakes(h, "pause")
    /\ UNCHANGED <<config, scheduler, phase, excused>>

\* How `remote sync' ends: with new data, with new data and a residual of the
\* fact exchange, with an error, with a residual, or refused by the ledger.
ManualOutcomes == {"changed", "uncertain", "failed", "contained", "hard"}

ManualRecord(e, r, outcome) ==
    CASE outcome = "changed"   -> RecordSuccess(e, r, TRUE, FALSE, FALSE, NoTime)
      [] outcome = "uncertain" -> RecordSuccess(e, r, TRUE, TRUE, FALSE, NoTime)
      [] outcome = "contained" -> RecordFailure(e, r, TRUE, NoTime)
      [] outcome = "failed"    -> RecordFailure(e, r, FALSE, NoTime)
      [] OTHER                 -> RecordPause(e, r, TRUE, FALSE)

\* `remote sync': reconciles, exchanges and records, while the host's lease
\* keeps an automatic attempt of the same host out.  (A ledger pause that
\* falls between the time stamp of a result and its write is left out.)
ManualSync(h, outcome) ==
    LET H == ReconcileHosts(health, rows) IN
    /\ Disturb
    /\ rows[h] # NoRow
    /\ attempt.host = h => phase # "ssh" /\ (phase = "record" => outcome # "hard")
    /\ health' = [H EXCEPT ![h] = ManualRecord(@, rows[h], outcome)]
    /\ owed' = [owed EXCEPT ![h] =
           CASE outcome = "changed"                    -> "none"
             [] outcome \in {"uncertain", "contained"} -> "manual"
             [] OTHER                                  -> @]
    /\ excused' = excused \union {h}
    /\ Overtakes(h, "result")
    /\ UNCHANGED <<config, scheduler, phase>>

\* The recorder stops at any point and starts again with only its files.
Restart ==
    /\ Disturb
    /\ sched' = [h \in Hosts |-> NoSchedule]
    /\ last' = 0
    /\ gap' = 0
    /\ restore' = TRUE
    /\ phase' = "sleep"
    /\ attempt' = NoAttempt
    /\ UNCHANGED <<config, health, aux>>

\* Time passes while the worker sleeps or waits for SSH.
Time ==
    /\ phase \in {"sleep", "ssh"}
    /\ health' = [h \in Hosts |-> HealthAfter(health[h])]
    /\ sched' = [h \in Hosts |-> [sched[h] EXCEPT !.wait = Less(@), !.active = Less(@)]]
    /\ gap' = Less(gap)
    /\ UNCHANGED <<config, last, restore, phase, attempt, left, aux>>

Worker ==
    \/ TickDisabled \/ TickWaiting \/ \E h \in Hosts : TickSelect(h)
    \/ \E outcome \in Outcomes : Finish(outcome)
    \/ LoadBefore \/ RecordResult \/ RecordNothing \/ RecordRefused \/ Settle

User ==
    \/ \E h \in Hosts, r \in Rows \union {NoRow} : Edit(h, r)
    \/ Toggle
    \/ \E h \in Hosts : ManualTestOk(h) \/ ManualTestResidual(h)
    \/ \E h \in Hosts, outcome \in ManualOutcomes :
          ManualSync(h, outcome)

Next ==
    \/ Worker \/ ClaimDueProbe \/ Contain \/ User \/ Restart \/ Time
    \/ ContainUnwritten \/ WriteFails

Spec == Init /\ [][Next]_vars

\* The worker's thread runs, every exchange ends by its timeout, and time
\* passes; users, residuals, restarts and I/O errors are owed nothing.
FairSpec == Spec /\ WF_vars(Worker) /\ SF_vars(Time)

-----------------------------------------------------------------------------

\* Every variable has its shape, and an attempt in progress has its host.
TypeOK ==
    /\ on \in BOOLEAN
    /\ rows \in [Hosts -> Rows \union {NoRow}]
    /\ health \in [Hosts -> Health]
    /\ sched \in [Hosts -> Schedule]
    /\ last \in 0..N
    /\ gap \in Nat
    /\ restore \in BOOLEAN
    /\ phase \in Phases
    /\ attempt \in Attempt
    /\ left \in Nat
    /\ owed \in [Hosts -> Finders]
    /\ excused \subseteq Hosts
    /\ phase = "ssh" => attempt.host # 0
    /\ attempt.accepted => attempt.host # 0
    /\ attempt.host # 0 => attempt.row # NoRow

\* A step that starts an attempt.
Connects == phase = "sleep" /\ phase' = "ssh"

\* Once the pause for a residual of an automatic attempt is in the file, the
\* worker does not contact that host again, across rounds, restarts and
\* changes of the rest of the configuration, until the user edits the host or
\* tests or syncs it successfully (process_containment_paused_hosts,
\* reconcile_hosts, and the pause sync_host stores before anything else can
\* fail).
ResidualStopsWorker == [][Connects => owed[attempt'.host] # "worker"]_vars

\* No attempt starts before the deadline the health file holds for its host,
\* although a restart forgets every schedule: the stored deadline is restored
\* (restore_host_schedule).  Only an edit of the host, the global switch or a
\* manual operation lifts a deadline.
DeadlineOutlivesRestart ==
    [][Connects => \/ attempt'.host \in excused
                   \/ health[attempt'.host].wait <= 0]_vars

\* Attempts of any two hosts are Spacing apart, and an attempted host is never
\* due again at once (the debug_assert on next_eligible_in).
AttemptsAreSpaced ==
    phase \in {"load", "record", "settle"} /\ attempt.host # 0 =>
        /\ gap = Spacing
        /\ LET s == sched[attempt.host] IN s.paused \/ s.wait > 0

\* An eligible host with no pause in force is attempted again and again,
\* whatever the other hosts do (next_due_host_index takes turns).
Served ==
    \A h \in Hosts :
        <>[](h \in Eligible /\ ~PausedFor(health[h], rows[h]))
            => []<>(phase = "ssh" /\ attempt.host = h)

\* docs/remote-usage.md says of the pause after a failed process cleanup that
\* it "stops automatic connections for that exact host across restarts": the
\* worker starts no attempt of a row the file has a pause for,
PauseStopsConnections ==
    [][Connects => ~PausedFor(health[attempt'.host], rows[attempt'.host])]_vars

\* and none of a row it found a residual of itself, stored or not;
EveryResidualStopsWorker ==
    [][Connects => owed[attempt'.host] \notin {"worker", "unstored"}]_vars

\* and that "a successful explicit Test/Sync, or an intentional edit to that
\* host, clears it": no other step does.
PauseClearedExplicitly ==
    [][\A h \in Hosts :
          PausedFor(health[h], rows[h]) /\ ~PausedFor(health'[h], rows[h])
              => rows'[h] # rows[h] \/ ManualTestOk(h) \/ ManualSync(h, "changed")]_vars

=============================================================================
