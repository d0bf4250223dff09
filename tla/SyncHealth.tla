----------------------------- MODULE SyncHealth -----------------------------
(***************************************************************************)
(* The durable record the center keeps of each configured host             *)
(* (remote_sync_health.rs), as far as it steers automatic synchronization: *)
(* the source the record is about, the row whose SSH process tree could    *)
(* not be proved reclaimed, the failure streak and the deadlines.          *)
(*                                                                         *)
(* A host row of the configuration is one value of Rows: two rows are      *)
(* equal exactly when their fingerprints are.  Deadlines are kept as what  *)
(* is left of them, NoTime when there is none.                             *)
(***************************************************************************)
EXTENDS Integers, Sequences

CONSTANTS
    Rows,           \* the rows a host may have in the configuration
    PinOf,          \* PinOf[r]: the source generation row r is paired with
    NoRow,          \* no row: the host is not configured, or no pause
    NoPin,          \* no source: the file has no record of the host
    ProbeInterval,  \* REMOTE_SYNC_HARD_PAUSE_PROBE_INTERVAL_SECONDS
    Hysteresis,     \* AUTOMATIC_REMOTE_SYNC_ACTIVITY_HYSTERESIS
    Backoff         \* FAILURE_BACKOFF_SECONDS

ASSUME RowAssumption ==
    /\ NoRow \notin Rows
    /\ \A r \in Rows : PinOf[r] # NoPin
    /\ ProbeInterval \in Nat \ {0}
    /\ Hysteresis \in Nat \ {0}
    /\ Backoff \in Seq(Nat \ {0})
    /\ Len(Backoff) > 0

NoTime == -1

\* Streaks beyond the length of the backoff table all mean its last delay.
Streaks == 0..Len(Backoff)
Longer(n) == IF n < Len(Backoff) THEN n + 1 ELSE n

\* Slip: a delay that has run out keeps falling.
LessForever(d) == d - 1

\* What is left of a delay one unit of time later.
Less(d) == IF d > 0 THEN d - 1 ELSE d

Pins == {PinOf[r] : r \in Rows} \union {NoPin}

Health ==
    [pin    : Pins,                    \* source
     pause  : Rows \union {NoRow},     \* process_containment_host_fingerprint
     fails  : Streaks,                 \* consecutive_failures
     wait   : Nat \union {NoTime},     \* next_eligible_at
     probe  : Nat \union {NoTime},     \* budget_probe_due_at
     active : Nat]                     \* last_activity_at + hysteresis

\* RemoteSyncHostHealth::new
NewHealth(pin) ==
    [pin |-> pin, pause |-> NoRow, fails |-> 0, wait |-> NoTime,
     probe |-> NoTime, active |-> 0]

NoHealth == NewHealth(NoPin)

Known(e) == e.pin # NoPin

\* A pause is in force only for the exact row it was recorded with.
PausedFor(e, r) == e.pause # NoRow /\ e.pause = r

\* One host of reconcile_configured_hosts: a row with another source rotates
\* the record, and a pause of another row is dropped.
ReconcileEntry(e, r) ==
    LET kept == IF e.pin = PinOf[r] THEN e ELSE NewHealth(PinOf[r]) IN
    IF PausedFor(kept, r) THEN kept ELSE [kept EXCEPT !.pause = NoRow]

\* Hosts that left the configuration keep their record as it is.
ReconcileHosts(health, rows) ==
    [h \in DOMAIN health |->
        IF rows[h] = NoRow THEN health[h] ELSE ReconcileEntry(health[h], rows[h])]

\* The record a result for row r is written to, created on the first write;
\* a record about another source refuses the write.
Refuses(e, r) == Known(e) /\ e.pin # PinOf[r]
ResultEntry(e, r) == IF Known(e) THEN e ELSE NewHealth(PinOf[r])

\* An attempt of row r committed pages.  Success supersedes a pause that is
\* not `newer' than it, then records the residual of a secondary exchange of
\* its own.
RecordSuccess(e, r, activity, uncertain, newer, wait) ==
    [ResultEntry(e, r) EXCEPT
        !.pause  = CASE uncertain          -> r
                     [] ~uncertain /\ newer -> @
                     [] OTHER              -> NoRow,
        !.fails  = 0,
        !.wait   = IF uncertain THEN NoTime ELSE wait,
        !.probe  = NoTime,
        !.active = IF activity THEN Hysteresis ELSE @]

\* An attempt of row r failed, `contained' when its error is the residual.
RecordFailure(e, r, contained, wait) ==
    [ResultEntry(e, r) EXCEPT
        !.pause = IF contained THEN r ELSE @,
        !.fails = Longer(@),
        !.wait  = wait,
        !.probe = NoTime]

\* The bandwidth ledger refused an attempt of row r before SSH.
RecordPause(e, r, hard, uncertain) ==
    [ResultEntry(e, r) EXCEPT
        !.pause = IF uncertain THEN r ELSE @,
        !.probe = CASE ~hard              -> NoTime
                    [] hard /\ @ = NoTime -> ProbeInterval
                    [] OTHER              -> @]

\* record_process_containment_pause and clear_process_containment_pause
RecordContainment(e, r) == [ResultEntry(e, r) EXCEPT !.pause = r]
ClearContainment(e)     == [e EXCEPT !.pause = NoRow]

\* A due probe is claimed by moving its deadline before SSH starts.
ClaimProbe(e) == [e EXCEPT !.probe = ProbeInterval]

HealthAfter(e) ==
    [e EXCEPT !.wait = Less(@), !.probe = Less(@), !.active = Less(@)]

=============================================================================
