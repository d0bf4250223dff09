---------------------------- MODULE DeltaJournal ----------------------------
(***************************************************************************)
(* The durable delta journal of one exporter namespace, as a value and the *)
(* functions on it: src/src/remote_export_state.rs.                        *)
(*                                                                         *)
(* A remote host keeps a set of materialized records (one value per logical *)
(* key) and a journal of the changes that led to it.  Centers hold cursors *)
(* into the journal; a center with no usable cursor starts empty at the    *)
(* retention floor.  So the entries above the floor must by themselves     *)
(* rebuild the whole materialized set, whatever age and capacity pruning   *)
(* have dropped.                                                           *)
(*                                                                         *)
(* ExportJournal makes a state machine of one journal, DeltaSync connects  *)
(* journals to the center that reads them.                                 *)
(***************************************************************************)
EXTENDS RetentionClock, Integers, FiniteSets

CONSTANTS
    Keys,                 \* logical keys, in their sort order
    Values,               \* upsert contents: equal content, equal change id
    Absent,               \* no record; as an entry's value, a tombstone
    Expiry,               \* when the record of a key expires (expires_at)
    MaxEntries,           \* limits.maximum_entries
    Retention,            \* limits.retention_days
    MaintenanceInterval   \* RECONCILE_MAINTENANCE_INTERVAL_HOURS

ASSUME JournalAssumption ==
    /\ Keys \subseteq Int /\ IsFiniteSet(Keys)
    /\ Absent \notin Values
    /\ Expiry \in [Keys -> Nat]
    /\ MaxEntries \in Nat /\ Retention \in Nat /\ MaintenanceInterval \in Nat

Contents == Values \cup {Absent}

\* RemoteExportReconcileMode: what a key missing from the desired set means.
Modes == {"UpsertOnly", "Authoritative"}

(***************************************************************************)
(* log maps every sequence number ever used in this generation to  *)
(* its change.  The state file holds only the entries above floor, *)
(* with their committed_at in at; the log below the floor is       *)
(* history, kept to state what a center that read it has.  mat gives each  *)
(* key its current value and the sequence of the entry that last wrote it; *)
(* for an Absent key that sequence is history too.                         *)
(***************************************************************************)
Change == [key : Keys, val : Contents]

Record == [val : Contents, last : Nat]

\* The shape of StoredExportState.
IsJournal(J) ==
    /\ J \in [gen : Nat, floor : Nat, seq : Nat,
              log : [1..J.seq -> Change], at : [(J.floor + 1)..J.seq -> Nat],
              mat : [Keys -> Record], clock : Clock]
    /\ J.floor <= J.seq

\* StoredExportState::new
NewJournal(gen, t) ==
    [gen |-> gen, floor |-> 0, seq |-> 0, log |-> [s \in 1..0 |-> t],
     at |-> [s \in 1..0 |-> t],
     mat |-> [k \in Keys |-> [val |-> Absent, last |-> 0]],
     clock |-> CurrentClock(t)]

Retained(J) == (J.floor + 1)..J.seq

CurrentKeys(J) == {k \in Keys : J.mat[k].val # Absent}

\* entry_at_sequence(last_upsert_sequence) still holds the current content.
UpsertRetained(J, k) ==
    /\ J.mat[k].last \in Retained(J)
    /\ J.log[J.mat[k].last].key = k
    /\ J.log[J.mat[k].last].val = J.mat[k].val

\* materialized_bootstrap_is_complete
BootstrapComplete(J) ==
    \A k \in CurrentKeys(J) :
        /\ UpsertRetained(J, k)
        /\ \A s \in Retained(J) :
              s > J.mat[k].last => J.log[s].key # k \/ J.log[s].val # Absent

-----------------------------------------------------------------------------
(***************************************************************************)
(* The stages of reconcile_and_compact.                                    *)
(***************************************************************************)

\* Slip: the entries are dropped and the retention floor is not raised.
DropThroughKeepsFloor(J, n) ==
    [gen |-> J.gen, floor |-> J.floor, seq |-> J.seq, log |-> J.log,
     at |-> [s \in (n + 1)..J.seq |-> J.at[s]],
     mat |-> J.mat, clock |-> J.clock]

\* drop_oldest_entries: everything up to sequence n leaves the state file.
DropThrough(J, n) ==
    [gen |-> J.gen, floor |-> n, seq |-> J.seq, log |-> J.log,
     at |-> [s \in (n + 1)..J.seq |-> J.at[s]],
     mat |-> J.mat, clock |-> J.clock]

\* The journal after its retention clock has read t.
Ticked(J, t) ==
    [gen |-> J.gen, floor |-> J.floor, seq |-> J.seq, log |-> J.log,
     at |-> J.at, mat |-> J.mat, clock |-> NextClock(J.clock, t)]

\* partition_point over committed_at: n is the last entry before the cutoff.
AgeFloors(J) ==
    LET cutoff == J.clock.trusted - Retention IN
    {n \in J.floor..J.seq :
        /\ \A s \in (J.floor + 1)..n : J.at[s] < cutoff
        /\ n < J.seq => J.at[n + 1] >= cutoff}

\* advance_retention_and_prune_age
AgePruned(J, t) ==
    {DropThrough(Ticked(J, t), n) : n \in AgeFloors(Ticked(J, t))}

\* compact_to_limits: the entry limit forces out a prefix; the byte limit,
\* which depends on payload sizes the model leaves out, may force out more.
Compacted(J) ==
    {DropThrough(J, n) : n \in {m \in J.floor..J.seq : J.seq - m <= MaxEntries}}

\* The one order in which a batch of changes is appended: by logical key.
Orders(T) ==
    {ord \in [1..Cardinality(T) -> T] :
        \A i, j \in 1..Cardinality(T) : i < j => ord[i] < ord[j]}

\* Slip: a batch is stamped with the wall clock as it reads now.
StampNow(J, t) == t

\* committed_at of a batch never precedes an entry or the trusted time.
Stamp(J, t) ==
    LET newest == IF J.floor < J.seq THEN J.at[J.seq] ELSE t
        later(a, b) == IF a >= b THEN a ELSE b
    IN  later(later(newest, t), J.clock.trusted)

\* Slip: the record is journalled as it was before the merge.
BatchEntryUnmerged(J, vals, k) == [key |-> k, val |-> J.mat[k].val]

\* The entry that takes k to its content in vals; Absent makes it a tombstone.
BatchEntry(J, vals, k) == [key |-> k, val |-> vals[k]]

\* The sequence the batch ord gives to k.
BatchSequence(J, ord, k) ==
    J.seq + (CHOOSE i \in DOMAIN ord : ord[i] = k)

\* append_change_batch for the keys T, which take the contents vals, in the
\* order ord; the materialized set follows the batch.
AppendBatch(J, t, T, vals, ord) ==
    LET last == J.seq + Cardinality(T) IN
    [gen |-> J.gen, floor |-> J.floor, seq |-> last,
     log |-> [s \in 1..last |-> IF s <= J.seq
                               THEN J.log[s]
                               ELSE BatchEntry(J, vals, ord[s - J.seq])],
     at  |-> [s \in (J.floor + 1)..last |->
                IF s <= J.seq THEN J.at[s] ELSE Stamp(J, t)],
     mat |-> [k \in Keys |->
                IF k \in T
                THEN [val |-> vals[k], last |-> BatchSequence(J, ord, k)]
                ELSE J.mat[k]],
     clock |-> J.clock]

\* Current records whose time has come: they get an expiry tombstone, also
\* when the desired set still lists them.
Expired(J) == {k \in CurrentKeys(J) : Expiry[k] <= J.clock.trusted}

\* The content each key has after merging the desired set into J.
MergedContents(J, desired, mode) ==
    [k \in Keys |->
       CASE k \in Expired(J) -> Absent
         [] k \notin Expired(J) /\ desired[k] = Absent ->
               IF mode = "Authoritative" THEN Absent ELSE J.mat[k].val
         [] k \notin Expired(J) /\ desired[k] # Absent ->
               IF k \in CurrentKeys(J) \/ Expiry[k] > J.clock.trusted
               THEN desired[k] ELSE Absent]

\* The keys that need an entry: their content changes, or it stays but the
\* entry that carries it has been dropped.
Transitions(J, vals) ==
    {k \in Keys : \/ vals[k] # J.mat[k].val
                  \/ vals[k] # Absent /\ ~UpsertRetained(J, k)}

\* The merge loop of reconcile_and_compact and the append of its transitions.
Merged(J, t, desired, mode) ==
    LET vals == MergedContents(J, desired, mode)
        T    == Transitions(J, vals)
    IN  {AppendBatch(J, t, T, vals, ord) : ord \in Orders(T)}

\* Slip: what compaction dropped is not appended again.
RefreshedNever(J, t) == {J}

\* refresh_materialized_bootstrap_if_needed: re-append every current record.
\* When even that does not fit, the whole reconcile fails: the set is empty.
Refreshed(J, t) ==
    IF BootstrapComplete(J)
    THEN {J}
    ELSE LET T    == CurrentKeys(J)
             vals == [k \in Keys |-> J.mat[k].val]
         IN  {K \in UNION {Compacted(AppendBatch(J, t, T, vals, ord)) :
                             ord \in Orders(T)} : BootstrapComplete(K)}

-----------------------------------------------------------------------------

\* materialized_set_matches
SetMatches(J, desired) == \A k \in Keys : J.mat[k].val = desired[k]

\* reconcile_maintenance_due
MaintenanceDue(J, t) ==
    \/ /\ t <= J.clock.trusted + MaxForward
       /\ \E k \in CurrentKeys(J) : Expiry[k] <= t
    \/ IsPending(J.clock) /\ t < J.clock.last
    \/ t >= J.clock.last + MaintenanceInterval

\* The journals reconcile_materialized_records may leave behind.
Reconciled(J, t, desired, mode) ==
    IF SetMatches(J, desired) /\ ~MaintenanceDue(J, t)
    THEN {J}
    ELSE UNION {UNION {UNION {Refreshed(C, t) : C \in Compacted(M)} :
                         M \in Merged(A, t, desired, mode)} :
                  A \in AgePruned(J, t)}

-----------------------------------------------------------------------------
(***************************************************************************)
(* What a reader of the journal holds.                                     *)
(***************************************************************************)

\* The content of k after applying, to an empty store, the entries of J in
\* (lo, hi] in order.
Replay(J, lo, hi, k) ==
    LET S == {s \in (lo + 1)..hi : J.log[s].key = k}
    IN  IF S = {} THEN Absent
        ELSE J.log[CHOOSE s \in S : \A r \in S : r <= s].val

=============================================================================
