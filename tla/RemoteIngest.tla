---------------------------- MODULE RemoteIngest ----------------------------
(***************************************************************************)
(* The center's side of a remote source: src/src/remote_ingest_state.rs,   *)
(* src/src/source_history/remote_generation.rs and the local phases of     *)
(* src/src/remote_sync.rs.                                                 *)
(*                                                                         *)
(* What readers see of a source is the history generation that the active  *)
(* manifest selects.  An ingest state per binding (source generation,      *)
(* revisions, redaction, range policy) remembers the journal cursor up to  *)
(* which the active generation is filled, and the generation a bootstrap   *)
(* is filling aside.  A local phase takes the writer lease and the ingest  *)
(* lock of the source and runs several SQL transactions; each transaction  *)
(* is an action, and the process may die between any two of them.          *)
(***************************************************************************)
EXTENDS DeltaJournal

CONSTANTS
    Bindings,       \* the bindings the two ends may agree on
    Rank,           \* the numeric revisions of a binding, as one number
    None,           \* no cursor, no generation, no manifest, no state
    HistGens,       \* bound: identities of history generations (numbers)
    MaxHistory,     \* MAX_REMOTE_HISTORY_GENERATIONS (32)
    SweepLimit      \* REMOTE_GENERATION_SWEEP_WORK_LIMIT (8)

ASSUME IngestAssumption ==
    /\ Rank \in [Bindings -> Nat]
    /\ HistGens \subseteq Nat
    /\ None \notin HistGens
    /\ MaxHistory \in Nat /\ SweepLimit \in Nat

VARIABLES
    ingest,     \* StoredRemoteDeltaIngestState of each binding
    manifest,   \* the active manifest: generation and binding
    catalog,    \* the history generations: binding and rows
    run         \* the sync run in progress and its open local phase

centerVars == <<ingest, manifest, catalog, run>>

EmptyRows == [k \in Keys |-> Absent]

NewIngest == [active |-> None, boot |-> None, retired |-> {}]

Idle ==
    [pc |-> "idle", op |-> "none", binding |-> None, cursor |-> None,
     answer |-> None, todo |-> {}, hgen |-> None, fenced |-> FALSE]

State(b) == ingest[b]

-----------------------------------------------------------------------------
(***************************************************************************)
(* References between ingest states and history generations.               *)
(***************************************************************************)

\* collect_state_history_generations
LiveGenerations(S) ==
    (IF S.active = None THEN {} ELSE {S.active.hgen})
    \cup (IF S.boot = None THEN {} ELSE {S.boot.hgen})
    \cup (IF S.boot = None \/ S.boot.expected = None
          THEN {} ELSE {S.boot.expected.hgen})

\* Slip: only the binding that is being synchronized is asked.
ProtectedOwn(states) ==
    IF run.binding = None THEN {} ELSE LiveGenerations(states[run.binding])

\* protected_history_generations: over the states of every binding.
Protected(states) ==
    UNION {LiveGenerations(states[b]) : b \in {x \in Bindings : states[x] # None}}

\* The generation the manifest selects, as a set.
Selected(m) == IF m = None THEN {} ELSE {m.hgen}

\* garbage_collect_remote_history_generation deletes g only when it is
\* neither selected nor protected.
Collectable(g, states, m) == g \notin Selected(m) \cup Protected(states)

Without(cat, S) == [g \in DOMAIN cat \ S |-> cat[g]]

\* A generation identity that nothing refers to: the code draws it at random.
Unused ==
    HistGens \ (DOMAIN catalog \cup Selected(manifest)
                \cup UNION {State(b).retired \cup LiveGenerations(State(b)) :
                              b \in {x \in Bindings : State(x) # None}})

\* Slip: the active cursor hides the bootstrap that replaces it.
PositionActiveFirst(S) ==
    IF S.active # None THEN S.active.cursor
    ELSE IF S.boot # None THEN S.boot.cursor ELSE None

\* next_request_position: the cursor from which the next page is asked.
Position(S) ==
    IF S.boot # None THEN S.boot.cursor
    ELSE IF S.active # None THEN S.active.cursor ELSE None

-----------------------------------------------------------------------------
(***************************************************************************)
(* Beginning and end of a run.                                             *)
(***************************************************************************)

\* A selected host is synchronized under binding b: the state is loaded or
\* created, and the preflight phase begins.
StartRun(b) ==
    /\ run.pc = "idle"
    /\ ingest' = [ingest EXCEPT ![b] = IF @ = None THEN NewIngest ELSE @]
    /\ run' = [Idle EXCEPT !.pc = "activate", !.op = "position", !.binding = b]
    /\ UNCHANGED <<manifest, catalog>>

\* An error, a limit or the death of the process ends the run wherever it is;
\* what its transactions have committed stays.
EndRun ==
    /\ run' = Idle
    /\ UNCHANGED <<ingest, manifest, catalog>>

-----------------------------------------------------------------------------
(***************************************************************************)
(* recover_locked: finish a bootstrap, retry retirements, sweep.           *)
(***************************************************************************)

\* activate_remote_history_generation accepts the bootstrap of S: the active
\* manifest is the one the bootstrap was started against, and its revisions
\* do not roll back.
ActivationAllowed(S, m, b) ==
    /\ m = S.boot.expected
    /\ m # None => Rank[b] >= Rank[m.binding]

Ready(S) == S.boot # None /\ S.boot.ready

\* commit_bootstrap_activation
Activated(S) ==
    [active |-> [hgen |-> S.boot.hgen, cursor |-> S.boot.cursor],
     boot |-> None,
     retired |-> S.retired \cup Selected(S.boot.expected)]

\* activate_remote_delta_bootstrap: manifest, state and the cleanup of the
\* replaced generation in one transaction.
Activate ==
    LET b == run.binding
        S == Activated(State(b))
        states == [ingest EXCEPT ![b] = S]
        m == [hgen |-> State(b).boot.hgen, binding |-> b]
        gone == {g \in Selected(State(b).boot.expected) : Collectable(g, states, m)}
    IN  /\ Ready(State(b)) /\ ActivationAllowed(State(b), manifest, b)
        /\ State(b).boot.hgen \in DOMAIN catalog
        /\ manifest' = m
        /\ ingest' = [states EXCEPT ![b] = [S EXCEPT !.retired = @ \ gone]]
        /\ catalog' = Without(catalog, gone)

\* The recovery at the start of every phase, when a bootstrap is complete.
RecoverActivate ==
    /\ run.pc = "activate"
    /\ Activate
    /\ run' = [run EXCEPT !.pc = "retry"]

\* Nothing to activate.
RecoverSkip ==
    /\ run.pc = "activate"
    /\ ~Ready(State(run.binding))
    /\ run' = [run EXCEPT !.pc = "retry"]
    /\ UNCHANGED <<ingest, manifest, catalog>>

\* Another binding has been activated meanwhile: the phase fails.
RecoverRefused ==
    /\ run.pc = "activate"
    /\ Ready(State(run.binding))
    /\ ~ActivationAllowed(State(run.binding), manifest, run.binding)
    /\ EndRun

\* retry_deferred_remote_generation_cleanup takes the first retirements.
BeginRetry ==
    /\ run.pc = "retry"
    /\ \E S \in SUBSET State(run.binding).retired :
          /\ Cardinality(S) <= SweepLimit
          /\ \A T \in SUBSET State(run.binding).retired :
                Cardinality(T) <= SweepLimit => Cardinality(T) <= Cardinality(S)
          /\ run' = [run EXCEPT !.pc = "cleanup", !.todo = S]
    /\ UNCHANGED <<ingest, manifest, catalog>>

\* cleanup_retired_generation_after_commit, first transaction.
Collect(g) ==
    /\ run.pc = "cleanup"
    /\ g \in run.todo
    /\ IF Collectable(g, ingest, manifest)
       THEN /\ catalog' = Without(catalog, {g})
            /\ run' = [run EXCEPT !.pc = "forget", !.hgen = g]
       ELSE /\ run' = [run EXCEPT !.todo = @ \ {g}]
            /\ UNCHANGED catalog
    /\ UNCHANGED <<ingest, manifest>>

\* Its second transaction: the retirement leaves the queue.
Forget ==
    /\ run.pc = "forget"
    /\ ingest' = [ingest EXCEPT ![run.binding].retired = @ \ {run.hgen}]
    /\ run' = [run EXCEPT !.pc = "cleanup", !.todo = @ \ {run.hgen}, !.hgen = None]
    /\ UNCHANGED <<manifest, catalog>>

\* Slip: leftovers are not looked for.
SweepNothing ==
    /\ run.pc = "cleanup" /\ run.todo = {} /\ run.op # "restarted"
    /\ run' = [run EXCEPT !.pc = "decide"]
    /\ UNCHANGED <<ingest, manifest, catalog>>

\* sweep_remote_history_generations: what a crash left unreferenced.
Sweep ==
    LET orphans == {g \in DOMAIN catalog : Collectable(g, ingest, manifest)} IN
    /\ run.pc = "cleanup" /\ run.todo = {} /\ run.op # "restarted"
    /\ \E S \in SUBSET orphans :
          /\ Cardinality(S) <= SweepLimit
          /\ S # orphans => Cardinality(S) = SweepLimit
          /\ catalog' = Without(catalog, S)
    /\ run' = [run EXCEPT !.pc = "decide"]
    /\ UNCHANGED <<ingest, manifest>>

-----------------------------------------------------------------------------
(***************************************************************************)
(* Bootstraps.                                                             *)
(***************************************************************************)

\* The phase returns the position of the next request.
ReturnPosition ==
    /\ run.pc = "decide" /\ run.op = "position"
    /\ State(run.binding).active # None \/ State(run.binding).boot # None
    /\ run' = [run EXCEPT !.pc = "request",
                          !.cursor = Position(State(run.binding))]
    /\ UNCHANGED <<ingest, manifest, catalog>>

\* create_fresh_bootstrap is called: there is no state yet, or the exporter
\* has expired the cursor the run asked with and it is still the position.
WantsBootstrap ==
    /\ run.pc = "decide"
    /\ \/ /\ run.op = "position"
          /\ State(run.binding).active = None /\ State(run.binding).boot = None
       \/ /\ run.op = "restart"
          /\ Position(State(run.binding)) = run.cursor

\* Its check of the active generation and the capacity of the catalog.
MayBootstrap ==
    /\ State(run.binding).active # None =>
          manifest = [hgen |-> State(run.binding).active.hgen,
                      binding |-> run.binding]
    /\ Cardinality(DOMAIN catalog) < MaxHistory

\* Its first transaction: ensure_remote_history_generation.
EnsureGeneration ==
    /\ WantsBootstrap /\ MayBootstrap
    /\ Unused # {}
    /\ LET g == CHOOSE x \in Unused : \A y \in Unused : x <= y IN
       /\ catalog' = [x \in DOMAIN catalog \cup {g} |->
                        IF x = g THEN [binding |-> run.binding, rows |-> EmptyRows]
                        ELSE catalog[x]]
       /\ run' = [run EXCEPT !.pc = "publish", !.hgen = g]
    /\ UNCHANGED <<ingest, manifest>>

\* Its second transaction: the state now fills the new generation; the one
\* it filled before is retired and, best effort, collected.
PublishBootstrap ==
    LET S == State(run.binding)
        old == IF S.boot = None THEN {} ELSE {S.boot.hgen}
    IN  /\ run.pc = "publish"
        /\ ingest' = [ingest EXCEPT ![run.binding] =
              [S EXCEPT !.boot = [hgen |-> run.hgen, expected |-> manifest,
                                  cursor |-> None, ready |-> FALSE],
                        !.retired = @ \cup old]]
        /\ run' = [run EXCEPT !.pc = "cleanup", !.op = "restarted",
                              !.hgen = None, !.todo = old]
        /\ UNCHANGED <<manifest, catalog>>

\* A fresh bootstrap is asked from no cursor.  After an expiry the run ends
\* here; after the preflight it goes on to its first exchange.
BootstrapReady ==
    /\ run.pc = "cleanup" /\ run.todo = {} /\ run.op = "restarted"
    /\ run' = IF run.answer = None
              THEN [run EXCEPT !.pc = "request", !.op = "position", !.cursor = None]
              ELSE Idle
    /\ UNCHANGED <<ingest, manifest, catalog>>

\* ensure_request_position: the position is no longer the one asked from.
RefuseMoved ==
    /\ run.pc = "decide" /\ run.op # "position"
    /\ Position(State(run.binding)) # run.cursor
    /\ EndRun

\* create_fresh_bootstrap fails: the active generation of this state is not
\* the one readers see, or the catalog is full.
RefuseBootstrap ==
    /\ WantsBootstrap /\ ~MayBootstrap
    /\ EndRun

-----------------------------------------------------------------------------
(***************************************************************************)
(* Pages.  A page gives the records it touches their contents.             *)
(***************************************************************************)

Patched(rows, patch) ==
    [k \in Keys |-> IF k \in DOMAIN patch THEN patch[k] ELSE rows[k]]

\* prepare_target: what the manifest has to be for a page to be applied.
ExpectedManifest(S, b) ==
    IF S.boot # None THEN S.boot.expected
    ELSE [hgen |-> S.active.hgen, binding |-> b]

\* The commit phase has come to its page.
AtPage ==
    /\ run.pc = "decide" /\ run.op = "commit"
    /\ Position(State(run.binding)) = run.cursor

\* Another binding's generation is visible now: the page is not applied.
RefusePage ==
    /\ AtPage
    /\ manifest # ExpectedManifest(State(run.binding), run.binding)
    /\ EndRun

\* Slip: one page completes the bootstrap.
StagedReady(boot, page) == [boot EXCEPT !.cursor = page.next, !.ready = TRUE]

\* mark_page_applied: the last page completes the bootstrap.
Staged(boot, page) == [boot EXCEPT !.cursor = page.next, !.ready = ~page.more]

\* apply_remote_history_generation_page and mark_page_applied in one
\* transaction.  A staged generation that is missing is made anew, empty.
ApplyStagedPage ==
    LET S == State(run.binding)
        page == run.answer
        rows == IF S.boot.hgen \in DOMAIN catalog
                THEN catalog[S.boot.hgen].rows ELSE EmptyRows
    IN  /\ AtPage
        /\ S.boot # None /\ manifest = ExpectedManifest(S, run.binding)
        /\ catalog' = [g \in DOMAIN catalog \cup {S.boot.hgen} |->
                         IF g = S.boot.hgen
                         THEN [binding |-> run.binding,
                               rows |-> Patched(rows, page.patch)]
                         ELSE catalog[g]]
        /\ ingest' = [ingest EXCEPT ![run.binding].boot = Staged(S.boot, page)]
        /\ run' = [run EXCEPT !.pc = "finish"]
        /\ UNCHANGED manifest

\* apply_remote_history_active_page and mark_page_applied in one transaction.
ApplyActivePage ==
    LET S == State(run.binding)
        page == run.answer
        g == S.active.hgen
    IN  /\ AtPage
        /\ S.boot = None /\ S.active # None
        /\ manifest = ExpectedManifest(S, run.binding)
        /\ g \in DOMAIN catalog
        /\ catalog' = [catalog EXCEPT ![g].rows = Patched(@, page.patch)]
        /\ ingest' = [ingest EXCEPT ![run.binding].active =
                         [hgen |-> g, cursor |-> page.next]]
        /\ run' = [run EXCEPT !.pc = "finish"]
        /\ UNCHANGED manifest

\* The run after a committed page: complete, or on to the next request.
Continued ==
    IF run.answer.more
    THEN [Idle EXCEPT !.pc = "request", !.op = "position",
                      !.binding = run.binding, !.cursor = run.answer.next,
                      !.fenced = run.fenced]
    ELSE Idle

\* The activation that ends the commit phase.
FinishActivate ==
    /\ run.pc = "finish"
    /\ Activate
    /\ run' = Continued

FinishSkip ==
    /\ run.pc = "finish"
    /\ ~Ready(State(run.binding))
    /\ run' = Continued
    /\ UNCHANGED <<ingest, manifest, catalog>>

\* The steps of an open local phase.
PhaseStep ==
    \/ RecoverActivate \/ RecoverSkip \/ RecoverRefused
    \/ BeginRetry \/ (\E g \in HistGens : Collect(g)) \/ Forget \/ Sweep
    \/ ReturnPosition \/ EnsureGeneration \/ PublishBootstrap
    \/ BootstrapReady \/ RefuseMoved \/ RefuseBootstrap \/ RefusePage
    \/ ApplyStagedPage \/ ApplyActivePage \/ FinishActivate \/ FinishSkip

=============================================================================
