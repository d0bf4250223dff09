--------------------------- MODULE ExportJournal ---------------------------
(***************************************************************************)
(* The life of one exporter namespace (one source generation, redaction    *)
(* profile and revision tuple): src/src/remote_export_state.rs.            *)
(*                                                                         *)
(* Every mutation is made under the per-source OS lock on a private copy   *)
(* and published by one atomic file replacement, so each is one action; a  *)
(* failed one reloads the durable state and is a stuttering step.          *)
(***************************************************************************)
EXTENDS DeltaJournal

CONSTANTS
    MaxTime,              \* bound: wall-clock readings are 0..MaxTime
    MaxSeq,               \* bound on current_sequence
    MaxConfirmations,     \* bound on the pending confirmations
    MaxGen                \* bound on the generations created

ASSUME BoundsAssumption ==
    /\ MaxTime \in Nat /\ MaxSeq \in Nat
    /\ MaxConfirmations \in Nat /\ MaxGen \in Nat

VARIABLES
    journal,    \* StoredExportState, the contents of the state file
    present,    \* the state file exists
    anchored    \* the anchor file exists

journalVars == <<journal, present, anchored>>

\* Bounds of the model on one journal.
Bounded(J) == J.seq <= MaxSeq /\ J.clock.confirmations <= MaxConfirmations

-----------------------------------------------------------------------------

Init ==
    /\ journal = NewJournal(0, 0)
    /\ present = FALSE
    /\ anchored = FALSE

\* load_or_create_state finds neither file: a fresh random generation (here:
\* a number never used before) is written, then the anchor.  The process may
\* die in between.
CreateState(t) ==
    /\ ~present /\ ~anchored
    /\ journal.gen < MaxGen
    /\ journal' = NewJournal(journal.gen + 1, t)
    /\ present' = TRUE
    /\ UNCHANGED anchored

\* ensure_anchor, in the same call or in the next one after a crash.
EnsureAnchor ==
    /\ present /\ ~anchored
    /\ anchored' = TRUE
    /\ UNCHANGED <<journal, present>>

\* reconcile_materialized_records under the source lock.
Reconcile(t, desired, mode) ==
    /\ present /\ anchored
    /\ \E K \in Reconciled(journal, t, desired, mode) :
          Bounded(K) /\ journal' = K
    /\ UNCHANGED <<present, anchored>>

\* The namespace of a revision tuple no longer in use is swept away whole;
\* the tuple may come back with another build.
SweepNamespace ==
    /\ present
    /\ present' = FALSE
    /\ anchored' = FALSE
    /\ UNCHANGED journal

Next ==
    \/ \E t \in 0..MaxTime : CreateState(t)
    \/ EnsureAnchor
    \/ \E t \in 0..MaxTime, d \in [Keys -> Contents], m \in Modes :
          Reconcile(t, d, m)
    \/ SweepNamespace

Spec == Init /\ [][Next]_journalVars

-----------------------------------------------------------------------------

\* Every field of the durable state has its type and the floor never passes
\* the current sequence.
TypeOK ==
    /\ IsJournal(journal)
    /\ present \in BOOLEAN /\ anchored \in BOOLEAN
    /\ anchored => present

\* A center that starts with no cursor and reads the retained entries from
\* the retention floor ends with exactly the materialized set, however age
\* and capacity pruning have cut the journal (read_page at retention_floor).
BootstrapExact ==
    \A k \in Keys :
        Replay(journal, journal.floor, journal.seq, k) = journal.mat[k].val

\* A center that has applied every entry since the generation began holds
\* exactly the materialized set: no reconcile changes the set without
\* journalling the change, re-appended records included.
FollowerExact ==
    \A k \in Keys : Replay(journal, 0, journal.seq, k) = journal.mat[k].val

\* StoredExportState::validate accepts every state a reconcile leaves behind;
\* one that it refused would lock the exporter out of its own namespace.
DurableStateValid ==
    /\ journal.seq - journal.floor <= MaxEntries
    /\ \A s \in Retained(journal) :
          s + 1 \in Retained(journal) => journal.at[s] <= journal.at[s + 1]
    /\ Retained(journal) = {} => CurrentKeys(journal) = {}
    /\ BootstrapComplete(journal)
    /\ ValidClock(journal.clock)

=============================================================================
