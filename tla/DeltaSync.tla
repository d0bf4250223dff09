----------------------------- MODULE DeltaSync -----------------------------
(***************************************************************************)
(* One remote source synchronized into the center: the exporter's page     *)
(* (src/src/remote_exporter.rs) over the journals of DeltaJournal, the     *)
(* bounded run of src/src/remote_sync.rs over the phases of RemoteIngest,  *)
(* and the purge of src/src/remote_source_metadata.rs.                     *)
(*                                                                         *)
(* No local guard is held while the exporter works: between the request    *)
(* and the commit of its answer the remote may record more usage, lose the *)
(* namespace, change its revisions, and the center may purge the source.   *)
(* Time stands still here, so nothing expires; ExportJournal is about      *)
(* that.  A record's content is the number of times it has been written.   *)
(***************************************************************************)
EXTENDS RemoteIngest, Functions

CONSTANTS
    Scans,          \* the keys a rollout scan may cover; Keys: a full scan
    JournalGens,    \* bound: identities of journal generations (numbers)
    MaxSeq,         \* bound: sequence numbers of one journal
    MaxWrites       \* bound: records written on the remote host

ASSUME SyncAssumption ==
    /\ Scans \subseteq SUBSET Keys /\ Keys \in Scans
    /\ Absent = 0 /\ Values \subseteq Nat
    /\ JournalGens \subseteq Nat /\ {MaxSeq, MaxWrites} \subseteq Nat

\* DeltaCursor
Cursors == [gen : JournalGens, seq : Nat]

\* RemoteActiveManifest
Manifests == [hgen : HistGens, binding : Bindings]

\* StoredActiveGeneration
Actives == [hgen : HistGens, cursor : Cursors]

\* StoredBootstrap
Boots == [hgen : HistGens, expected : Manifests \cup {None},
          cursor : Cursors \cup {None}, ready : BOOLEAN]

\* StoredRemoteDeltaIngestState
IngestStates == [active : Actives \cup {None}, boot : Boots \cup {None},
                 retired : SUBSET HistGens]

\* A history generation of the catalog.
Generations == [binding : Bindings, rows : [Keys -> Contents]]

\* A page, or the refusal of an expired cursor.
Responses == [kind : {"page", "expired"}, next : Cursors, more : BOOLEAN,
              patch : UNION {[D -> Contents] : D \in SUBSET Keys}]

\* The run and its open local phase.
Runs == [pc : {"idle", "request", "answered", "activate", "retry", "cleanup",
               "forget", "decide", "publish", "finish"},
         op : {"none", "position", "commit", "restart", "restarted"},
         binding : Bindings \cup {None}, cursor : Cursors \cup {None},
         answer : Responses \cup {None}, todo : SUBSET HistGens,
         hgen : HistGens \cup {None}, fenced : BOOLEAN]

\* None stands for the absence of each of these, as in an Option.
ASSUME NoneAssumption ==
    None \notin Cursors \cup Manifests \cup Actives \cup Boots \cup IngestStates
                 \cup Responses

VARIABLES
    local,      \* what the remote host has recorded, per key
    journals,   \* the exporter namespace of each binding, or None
    agreed,     \* the binding that both installations speak now
    purge,      \* how far a purge of the source is: none, claimed, cleared
    calm        \* the environment has settled: no more faults or changes

envVars == <<local, journals, agreed, purge, calm>>
syncVars == <<ingest, manifest, catalog, run, local, journals, agreed, purge, calm>>

\* Journal generations some cursor or namespace still names.
NamedGens ==
    LET cursors == {run.cursor}
                   \cup (IF run.answer = None THEN {} ELSE {run.answer.next})
                   \cup UNION {{Position(State(b))}
                               \cup (IF State(b).active = None THEN {}
                                     ELSE {State(b).active.cursor}) :
                                 b \in {x \in Bindings : State(x) # None}}
    IN  {c.gen : c \in cursors \ {None}}
        \cup {journals[b].gen : b \in {x \in Bindings : journals[x] # None}}

\* load_or_create_state: the namespace, or a new one with a new generation
\* (random in the code).
Namespaces(b) ==
    IF journals[b] # None THEN {journals[b]}
    ELSE {NewJournal(g, 0) :
            g \in {x \in JournalGens \ NamedGens :
                     \A y \in JournalGens \ NamedGens : x <= y}}

-----------------------------------------------------------------------------
(***************************************************************************)
(* The exporter.                                                           *)
(***************************************************************************)

\* The net effect of the entries that follow sequence lo, up to n, as far as
\* the state file still has them.
Patch(J, lo, n) ==
    LET from == IF lo < J.floor THEN J.floor ELSE lo
    IN  [k \in {J.log[s].key : s \in (from + 1)..n} |-> Replay(J, from, n, k)]

\* Slip: the next cursor is the sequence that follows the page.
PageAtPast(J, c, n) ==
    [kind |-> "page", next |-> [gen |-> J.gen, seq |-> n + 1], more |-> n < J.seq,
     patch |-> Patch(J, c.seq, n)]

\* Slip: a page cut short by its size leaves the cursor at the journal's end.
PageAtEnd(J, c, n) ==
    [kind |-> "page", next |-> [gen |-> J.gen, seq |-> J.seq], more |-> FALSE,
     patch |-> Patch(J, c.seq, n)]

\* The page of the entries in (c.seq, n].
PageAt(J, c, n) ==
    [kind |-> "page", next |-> [gen |-> J.gen, seq |-> n], more |-> n < J.seq,
     patch |-> Patch(J, c.seq, n)]

\* CursorExpired, a failure that names the cursor it refuses.
ExpiredAnswer(c) == [kind |-> "expired", next |-> c, more |-> FALSE, patch |-> <<>>]

\* read_page finds the cursor expired: another generation, or below the floor.
CursorLapsed(J, c) == c.gen # J.gen \/ c.seq < J.floor

\* read_page: some entries if there are any; how many depends on their sizes.
\* A cursor ahead of the journal is an error.
Answers(J, c) ==
    IF CursorLapsed(J, c) THEN {ExpiredAnswer(c)}
    ELSE {PageAt(J, c, n) : n \in {m \in c.seq..J.seq : m = c.seq => c.seq = J.seq}}

\* The answer travels to a run that waits for it.
Answer(a) == run' = [run EXCEPT !.pc = "answered", !.answer = a]

Waiting == run.pc = "request" /\ run.binding = agreed

\* prepare_remote_delta_page: a cursor with entries behind it, or an expired
\* one, is answered from the journal as it is.
ServePending ==
    /\ Waiting /\ run.cursor # None
    /\ \E J \in Namespaces(agreed) :
          /\ CursorLapsed(J, run.cursor) \/ run.cursor.seq < J.seq
          /\ journals' = [journals EXCEPT ![agreed] = J]
          /\ \E a \in Answers(J, run.cursor) : Answer(a)
    /\ UNCHANGED <<ingest, manifest, catalog, local, agreed, purge, calm>>

\* filter_partial_export_records: a scan that covers only the keys in S.
Desired(S) == [k \in Keys |-> IF k \in S THEN local[k] ELSE Absent]

\* Slip: a record that the scan did not find is taken to be deleted.
ExportedAuthoritative(J, S) == Reconciled(J, 0, Desired(S), "Authoritative")

\* The journal after the records of a scan are merged into it.
Exported(J, S) == Reconciled(J, 0, Desired(S), "UpsertOnly")

\* prepare_remote_delta_page: otherwise the rollouts are scanned, the journal
\* is reconciled, and a request with no cursor starts at the retention floor.
ServeScan(S) ==
    /\ Waiting
    /\ \E J \in Namespaces(agreed) :
          /\ run.cursor # None =>
                ~CursorLapsed(J, run.cursor) /\ run.cursor.seq = J.seq
          /\ \E K \in Exported(J, S) :
                /\ K.seq <= MaxSeq
                /\ journals' = [journals EXCEPT ![agreed] = K]
                /\ \E a \in Answers(K, IF run.cursor # None THEN run.cursor
                                       ELSE [gen |-> K.gen, seq |-> K.floor]) :
                      Answer(a)
    /\ UNCHANGED <<ingest, manifest, catalog, local, agreed, purge, calm>>

-----------------------------------------------------------------------------
(***************************************************************************)
(* The bounded run around the local phases.                                *)
(***************************************************************************)

\* sync_remote_delta_bounded: preflight of a selected host.
Start ==
    /\ purge = "none"
    /\ StartRun(agreed)
    /\ UNCHANGED envVars

\* A step of the local phase that is open; the configuration lock and the
\* writer lease keep a purge out of it.
Phase == PhaseStep /\ UNCHANGED envVars

\* The answer opens a commit or a restart phase, if the host is still the one
\* that was selected (try_with_current_config) and the phase can lock.
Accept ==
    /\ run.pc = "answered" /\ ~run.fenced
    /\ run.answer.kind = "expired" => run.cursor # None
    /\ run' = [run EXCEPT !.pc = "activate",
                          !.op = IF run.answer.kind = "page"
                                 THEN "commit" ELSE "restart"]
    /\ UNCHANGED <<ingest, manifest, catalog>> /\ UNCHANGED envVars

\* The run cannot go on: its host was purged or speaks another binding now.
Refuse ==
    /\ \/ run.pc = "answered" /\ run.fenced
       \/ run.pc = "request" /\ run.binding # agreed
    /\ EndRun /\ UNCHANGED envVars

\* Death of the process, a transport error, a timeout or the page limit.
Abort ==
    /\ ~calm /\ run.pc # "idle"
    /\ EndRun /\ UNCHANGED envVars

-----------------------------------------------------------------------------
(***************************************************************************)
(* The environment.                                                        *)
(***************************************************************************)

\* Codex usage is recorded on the remote host.
LocalWrite(k) ==
    /\ ~calm
    /\ local[k] + 1 \in Values /\ SumFunction(local) < MaxWrites
    /\ local' = [local EXCEPT ![k] = @ + 1]
    /\ UNCHANGED centerVars /\ UNCHANGED <<journals, agreed, purge, calm>>

\* sweep_old_revision_state: a build with other revisions ran on the remote
\* host and removed the namespace of b, which it does not use.
SweepRevision(b) ==
    /\ ~calm
    /\ journals[b] # None
    /\ journals' = [journals EXCEPT ![b] = None]
    /\ UNCHANGED centerVars /\ UNCHANGED <<local, agreed, purge, calm>>

\* Another build or model catalog is installed at both ends.
SwitchBinding(b) ==
    /\ ~calm
    /\ agreed # b
    /\ agreed' = b
    /\ UNCHANGED centerVars /\ UNCHANGED <<local, journals, purge, calm>>

\* purge_detached_remote_source, once the host is no longer configured: a
\* durable marker claims the source, which cannot be paired again until the
\* purge is finished.  A run that waits for its answer is fenced off.
ClaimPurge ==
    /\ ~calm /\ purge = "none"
    /\ run.pc \in {"idle", "request", "answered"}
    /\ run' = IF run.pc = "idle" THEN run ELSE [run EXCEPT !.fenced = TRUE]
    /\ purge' = "claimed"
    /\ UNCHANGED <<ingest, manifest, catalog, local, journals, agreed, calm>>

\* Its second transaction: the ingest states of every binding go.  A purge
\* that dies here or before is resumed from the marker by a later call.
PurgeIngest ==
    /\ purge = "claimed"
    /\ ingest' = [b \in Bindings |-> None]
    /\ purge' = "cleared"
    /\ UNCHANGED <<manifest, catalog, run, local, journals, agreed, calm>>

\* Its last transaction removes the history and, with it, the marker.
PurgeHistory ==
    /\ purge = "cleared"
    /\ manifest' = None
    /\ catalog' = Without(catalog, DOMAIN catalog)
    /\ purge' = "none"
    /\ UNCHANGED <<ingest, run, local, journals, agreed, calm>>

\* From now on runs are scheduled and nothing fails (for liveness only).
Settle ==
    /\ ~calm /\ purge = "none"
    /\ calm' = TRUE
    /\ UNCHANGED centerVars /\ UNCHANGED <<local, journals, agreed, purge>>

-----------------------------------------------------------------------------

Init ==
    /\ ingest = [b \in Bindings |-> None]
    /\ manifest = None
    /\ catalog = [g \in {} |-> None]
    /\ run = Idle
    /\ local = [k \in Keys |-> Absent]
    /\ journals = [b \in Bindings |-> None]
    /\ agreed \in Bindings
    /\ purge = "none"
    /\ calm = FALSE

Progress ==
    \/ Start \/ Phase \/ Accept \/ Refuse 
    \/ ServePending \/ ServeScan(Keys)

Environment ==
    \/ (\E k \in Keys : LocalWrite(k))
    \/ (\E b \in Bindings : SweepRevision(b) \/ SwitchBinding(b))
    \/ (~calm /\ \E S \in Scans \ {Keys} : ServeScan(S))
    \/ Abort \/ ClaimPurge \/ PurgeIngest \/ PurgeHistory

Next == Progress \/ Environment

Spec == Init /\ [][Next]_syncVars

\* The recorder schedules every enabled host again and again (tick of
\* remote_sync_scheduler.rs), so an enabled step of a sync is taken; at some
\* point the environment settles.
FairSpec == Init /\ [][Next \/ Settle]_syncVars /\ WF_syncVars(Progress)

-----------------------------------------------------------------------------

\* What reports read of the source.
View ==
    IF manifest = None \/ manifest.hgen \notin DOMAIN catalog
    THEN EmptyRows ELSE catalog[manifest.hgen].rows

\* Every piece of durable and in-memory state has its shape, and the cursor a
\* run asks with is never ahead of the journal it points into (read_page would
\* answer it with an error for ever).
TypeOK ==
    /\ ingest \in [Bindings -> IngestStates \cup {None}]
    /\ manifest \in Manifests \cup {None}
    /\ DOMAIN catalog \subseteq HistGens
    /\ catalog \in [DOMAIN catalog -> Generations]
    /\ run \in Runs
    /\ local \in [Keys -> Contents] /\ agreed \in Bindings
    /\ purge \in {"none", "claimed", "cleared"} /\ calm \in BOOLEAN
    /\ journals = [b \in Bindings |-> journals[b]]
    /\ \A b \in Bindings : journals[b] # None =>
          /\ IsJournal(journals[b]) /\ journals[b].gen \in JournalGens
          /\ \A c \in {run.cursor} \ {None} :
                run.binding = b /\ c.gen = journals[b].gen => c.seq <= journals[b].seq

\* What is visible is exactly what the exporter's entries up to the saved
\* cursor say: no entry is lost, applied twice to another effect or applied
\* out of order, whatever crashed, was retried or was compacted in between.
VisibleExact ==
    \A b \in Bindings :
        LET S == State(b) IN
        /\ S # None /\ journals[b] # None
        /\ S.active # None
        /\ manifest = [hgen |-> S.active.hgen, binding |-> b]
        /\ S.active.cursor.gen = journals[b].gen
        => /\ S.active.cursor.seq <= journals[b].seq
           /\ \A k \in Keys :
                 View[k] = Replay(journals[b], 0, S.active.cursor.seq, k)

\* No generation is deleted while the manifest selects it or the ingest state
\* of any binding reads, fills or expects it, and a retirement queue never
\* holds one of those of its own state.
ReferencesHold ==
    /\ Selected(manifest) \subseteq DOMAIN catalog
    /\ \A b \in Bindings : State(b) # None =>
          /\ LiveGenerations(State(b)) \subseteq DOMAIN catalog
          /\ State(b).retired \cap LiveGenerations(State(b)) = {}

\* With one binding and full scans no record a reader has seen gets older or
\* vanishes, across expired cursors, lost namespaces, restarted bootstraps
\* and crashes; only a completed purge withdraws the source.
NeverRegresses ==
    [][manifest' # None => \A k \in Keys : View[k] <= View'[k]]_syncVars

\* Once the environment has settled, the repeated bounded runs make the whole
\* of what the remote has recorded visible, and it stays so.
Converges == calm ~> [](View = local)

\* Once both ends have settled on one binding, synchronizing brings the
\* source to it, which is what lifts remote_model_catalog_fingerprint_mismatch.
SettledBindingBecomesVisible ==
    calm ~> (manifest # None /\ manifest.binding = agreed)

\* Once settled, only the visible generation is kept: everything that crashes
\* and restarts left behind is collected.
GarbageGoes == calm ~> [](DOMAIN catalog = Selected(manifest))

\* The synchronized source implements a replica of the remote's usage.
Replica == INSTANCE UsageReplica
           WITH written <- local, seen <- View, epoch <- manifest

ImplementsReplica == Replica!Spec

=============================================================================
