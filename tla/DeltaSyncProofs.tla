-------------------------- MODULE DeltaSyncProofs --------------------------
(***************************************************************************)
(* The synchronization of a remote source, for every set of bindings, of   *)
(* records and of generations, and with crashes, lost namespaces, changed  *)
(* bindings and purges anywhere.                                           *)
(***************************************************************************)
EXTENDS DeltaSync, DeltaJournalProofs

-----------------------------------------------------------------------------
(***************************************************************************)
(* The run, the journals and the answer between them.                      *)
(***************************************************************************)

\* What the remote host, the two ends and a purge have.
EnvOK ==
    /\ local \in [Keys -> Contents] /\ agreed \in Bindings
    /\ purge \in {"none", "claimed", "cleared"} /\ calm \in BOOLEAN
    /\ journals = [b \in Bindings |-> journals[b]]

\* What the center stores.
StoreOK ==
    /\ ingest \in [Bindings -> IngestStates \cup {None}]
    /\ manifest \in Manifests \cup {None}
    /\ DOMAIN catalog \subseteq HistGens
    /\ catalog \in [DOMAIN catalog -> Generations]

\* A journal that reconciles have left behind.
JournalOK(J) ==
    /\ Sound(J) /\ BootstrapComplete(J)
    /\ J.seq - J.floor <= MaxEntries /\ J.gen \in JournalGens

JournalsOK == \A b \in Bindings : journals[b] # None => JournalOK(journals[b])

IsPage == run.answer # None /\ run.answer.kind = "page"

\* The configuration lock and the writer lease: an open local phase has its
\* ingest state, and no purge is in progress.
RunOK ==
    /\ run.pc = "idle" => run = Idle
    /\ run.pc # "idle" => run.binding \in Bindings
    /\ run.pc # "idle" /\ ~run.fenced => State(run.binding) # None /\ purge = "none"
    /\ run.fenced => run.pc \in {"request", "answered"}
    /\ purge = "cleared" => \A b \in Bindings : State(b) = None
    /\ run.pc \in {"request", "answered"} => run.op = "position"
    /\ run.pc = "answered" => run.answer # None
    /\ run.op = "position" /\ run.pc # "answered" => run.answer = None
    /\ run.pc = "finish" => run.op = "commit"
    /\ run.op = "commit" => IsPage
    /\ run.pc = "publish" => run.hgen \in HistGens

\* A bootstrap is complete only with a cursor.
ReadyOK ==
    \A b \in Bindings :
        State(b) # None /\ State(b).boot # None /\ State(b).boot.ready
            => State(b).boot.cursor # None

\* A cursor into the generation of J is not ahead of J.
Behind(c, J) == c # None /\ c.gen = J.gen => c.seq <= J.seq

PositionsOK ==
    \A b \in Bindings : State(b) # None /\ journals[b] # None =>
        Behind(Position(State(b)), journals[b])

CursorOK ==
    run.pc # "idle" /\ journals[run.binding] # None
        => Behind(run.cursor, journals[run.binding])

\* The page a is what J has after the cursor c, or after its floor.
PageFor(J, c, a) ==
    LET from == IF c # None THEN c ELSE [gen |-> J.gen, seq |-> J.floor]
    IN  /\ ~CursorLapsed(J, from)
        /\ \E n \in from.seq..J.seq : a = PageAt(J, from, n)

\* Between the serving of a page and its commit the journal stands still, or
\* is lost with its generation.
AnswerOK ==
    IsPage /\ journals[run.binding] # None
           /\ journals[run.binding].gen = run.answer.next.gen
        => PageFor(journals[run.binding], run.cursor, run.answer)

CenterOK == StoreOK /\ ReadyOK /\ PositionsOK

RunSide == run \in Runs /\ RunOK /\ CursorOK /\ AnswerOK

Base == EnvOK /\ JournalsOK /\ CenterOK /\ RunSide

\* A local phase is open.
InPhase == run.pc \notin {"idle", "request", "answered"}

\* The fields of an ingest state have their types.
LEMMA StateFields ==
    ASSUME StoreOK, NEW b \in Bindings, State(b) # None
    PROVE  /\ State(b) \in IngestStates
           /\ State(b).active \in Actives \cup {None}
           /\ State(b).boot \in Boots \cup {None}
           /\ State(b).retired \subseteq HistGens
           /\ State(b).boot # None =>
                 /\ State(b).boot.hgen \in HistGens
                 /\ State(b).boot.expected \in Manifests \cup {None}
                 /\ State(b).boot.cursor \in Cursors \cup {None}
                 /\ State(b).boot.ready \in BOOLEAN
           /\ State(b).active # None =>
                 State(b).active.hgen \in HistGens /\ State(b).active.cursor \in Cursors
           /\ Position(State(b)) \in Cursors \cup {None}
<1>1. State(b) \in IngestStates
  BY DEF StoreOK, State
<1>2. /\ State(b).active \in Actives \cup {None}
      /\ State(b).boot \in Boots \cup {None}
      /\ State(b).retired \subseteq HistGens
  BY <1>1 DEF IngestStates
<1>3. State(b).boot # None =>
                 /\ State(b).boot.hgen \in HistGens
                 /\ State(b).boot.expected \in Manifests \cup {None}
                 /\ State(b).boot.cursor \in Cursors \cup {None}
                 /\ State(b).boot.ready \in BOOLEAN
  BY <1>2 DEF Boots
<1>4. State(b).active # None =>
                 State(b).active.hgen \in HistGens /\ State(b).active.cursor \in Cursors
  BY <1>2 DEF Actives
<1> QED
  BY <1>1, <1>2, <1>3, <1>4 DEF Position

\* The fields of the run have their types.
LEMMA RunFields ==
    ASSUME run \in Runs
    PROVE  /\ run = [pc |-> run.pc, op |-> run.op, binding |-> run.binding,
                     cursor |-> run.cursor, answer |-> run.answer,
                     todo |-> run.todo, hgen |-> run.hgen, fenced |-> run.fenced]
           /\ run.cursor \in Cursors \cup {None}
           /\ run.answer \in Responses \cup {None}
           /\ run.todo \subseteq HistGens
           /\ run.hgen \in HistGens \cup {None} /\ run.fenced \in BOOLEAN
BY DEF Runs

\* What the exporter answers is a response; a page is one of the journal.
LEMMA AnswersType ==
    ASSUME NEW J, JournalOK(J), NEW c \in Cursors, NEW a \in Answers(J, c),
           c.gen = J.gen => c.seq <= J.seq
    PROVE  /\ a \in Responses /\ a # None
           /\ a.kind = "page" =>
                 /\ a.next.gen = J.gen /\ ~CursorLapsed(J, c)
                 /\ a.next.seq \in c.seq..J.seq
                 /\ \E n \in c.seq..J.seq : a = PageAt(J, c, n)
<1>1. /\ IsJournal(J) /\ J.gen \in JournalGens /\ J.seq \in Nat /\ J.floor \in Nat
      /\ J.log \in [1..J.seq -> Change]
  BY JournalFields DEF JournalOK, Sound
<1>2. c.gen \in JournalGens /\ c.seq \in Nat
  BY DEF Cursors
<1>3. CASE CursorLapsed(J, c)
  <2>1. a = ExpiredAnswer(c)
    BY <1>3 DEF Answers
  <2>2. <<>> \in [{} -> Contents] /\ {} \in SUBSET Keys
    OBVIOUS
  <2>3. <<>> \in UNION {[D -> Contents] : D \in SUBSET Keys}
    BY <2>2
  <2>4. a \in Responses /\ a.kind = "expired"
    BY <2>1, <2>3 DEF Responses, ExpiredAnswer
  <2> QED
    BY <2>4, NoneAssumption DEF NoneAssumption
<1>4. CASE ~CursorLapsed(J, c)
  <2>1. PICK n \in c.seq..J.seq : a = PageAt(J, c, n)
    BY <1>4 DEF Answers
  <2>2. n \in Nat /\ n <= J.seq
    BY <1>1, <1>2
  <2> DEFINE from == IF c.seq < J.floor THEN J.floor ELSE c.seq
             D == {J.log[s].key : s \in (from + 1)..n}
  <2>3. Patch(J, c.seq, n) = [k \in D |-> Replay(J, from, n, k)]
    BY DEF Patch
  <2>4. from \in Nat
    BY <1>1, <1>2
  <2>5. D \in SUBSET Keys
    <3> SUFFICES ASSUME NEW s \in (from + 1)..n PROVE J.log[s].key \in Keys
      OBVIOUS
    <3>1. s \in 1..J.seq
      BY <2>2, <2>4, <1>1
    <3> QED
      BY <3>1, <1>1 DEF Change
  <2>6. \A k \in D : Replay(J, from, n, k) \in Contents
    BY <1>1, <2>2, <2>4, ReplayType
  <2> HIDE DEF D, from
  <2>7. Patch(J, c.seq, n) \in [D -> Contents]
    BY <2>3, <2>6
  <2>8. Patch(J, c.seq, n) \in UNION {[E -> Contents] : E \in SUBSET Keys}
    BY <2>5, <2>7
  <2>9. /\ a.kind = "page" /\ a.next = [gen |-> J.gen, seq |-> n]
        /\ a \in Responses
    BY <1>1, <2>1, <2>2, <2>8 DEF PageAt, Responses, Cursors
  <2> QED
    BY <1>4, <2>1, <2>9, NoneAssumption DEF NoneAssumption
<1> QED
  BY <1>3, <1>4

\* An open phase goes on.
LEMMA RunStays ==
    ASSUME Base, UNCHANGED <<journals, purge>>, InPhase, run' \in Runs, InPhase',
           run'.binding = run.binding, run'.cursor = run.cursor,
           run'.answer = run.answer, run'.fenced = run.fenced,
           run'.pc = "finish" => run'.op = "commit",
           run'.pc = "publish" => run'.hgen \in HistGens,
           run'.op \in {"commit", "position"} => run.op = run'.op,
           ingest'[run.binding] # None
    PROVE  RunSide'
<1>1. run.binding \in Bindings /\ purge = "none" /\ ~run.fenced
  BY DEF Base, RunSide, RunOK, InPhase
<1>2. RunOK'
  BY <1>1 DEF Base, RunSide, RunOK, InPhase, IsPage, State
<1>3. CursorOK'
  BY DEF Base, RunSide, CursorOK, InPhase
<1>4. AnswerOK'
  BY DEF Base, RunSide, AnswerOK, IsPage
<1> QED
  BY <1>2, <1>3, <1>4 DEF RunSide

\* The idle run.
LEMMA IdleRun ==
    /\ Idle \in Runs /\ Idle.pc = "idle" /\ Idle.op = "none" /\ Idle.fenced = FALSE
    /\ Idle.answer = None /\ Idle.cursor = None
BY DEF Idle, Runs

\* The run ends.
LEMMA RunEnds ==
    ASSUME Base, UNCHANGED purge, run' = Idle,
           purge = "cleared" => UNCHANGED ingest
    PROVE  RunSide'
<1>1. RunOK'
  BY IdleRun DEF Base, RunSide, RunOK, IsPage, State
<1>2. CursorOK' /\ AnswerOK'
  BY IdleRun DEF CursorOK, AnswerOK, IsPage
<1> QED
  BY <1>1, <1>2, IdleRun DEF RunSide

\* An open phase ends with the next request.
LEMMA RunAsks ==
    ASSUME Base, UNCHANGED <<journals, purge>>, InPhase, run' \in Runs,
           run'.pc = "request", run'.op = "position", run'.binding = run.binding,
           run'.answer = None, run'.fenced = run.fenced,
           ingest'[run.binding] # None,
           journals[run.binding] # None =>
               Behind(run'.cursor, journals[run.binding])
    PROVE  RunSide'
<1>1. run.binding \in Bindings /\ purge = "none" /\ ~run.fenced
  BY DEF Base, RunSide, RunOK, InPhase
<1>2. RunOK'
  BY <1>1 DEF Base, RunSide, RunOK, InPhase, IsPage, State
<1>3. CursorOK'
  BY DEF CursorOK
<1>4. AnswerOK'
  BY DEF AnswerOK, IsPage
<1> QED
  BY <1>2, <1>3, <1>4 DEF RunSide

\* In an open phase the ingest state is there and the source is not purged.
LEMMA PhaseFacts ==
    ASSUME Base, InPhase
    PROVE  /\ run.binding \in Bindings /\ State(run.binding) # None
           /\ purge = "none" /\ run.fenced = FALSE
           /\ run.op = "commit" => run.answer \in Responses /\ run.answer.kind = "page"
<1>1. run \in Runs
  BY DEF Base, RunSide
<1> QED
  BY <1>1, RunFields DEF Base, RunSide, RunOK, InPhase, IsPage

\* The state of one binding is replaced.
LEMMA CenterUpdate ==
    ASSUME Base, UNCHANGED journals, NEW b \in Bindings, NEW S \in IngestStates,
           ingest' = [ingest EXCEPT ![b] = S],
           manifest' \in Manifests \cup {None},
           DOMAIN catalog' \subseteq HistGens,
           catalog' \in [DOMAIN catalog' -> Generations],
           S.boot # None /\ S.boot.ready => S.boot.cursor # None,
           journals[b] # None => Behind(Position(S), journals[b])
    PROVE  CenterOK' /\ ingest'[b] = S /\ S # None
<1>1. ingest \in [Bindings -> IngestStates \cup {None}]
  BY DEF Base, CenterOK, StoreOK
<1>2. /\ ingest' \in [Bindings -> IngestStates \cup {None}] /\ ingest'[b] = S
      /\ \A c \in Bindings \ {b} : ingest'[c] = ingest[c]
  BY <1>1
<1>3. ReadyOK'
  BY <1>2 DEF Base, CenterOK, ReadyOK, State
<1>4. PositionsOK'
  BY <1>2 DEF Base, CenterOK, PositionsOK, State
<1> QED
  BY <1>2, <1>3, <1>4, NoneAssumption DEF CenterOK, StoreOK, NoneAssumption

\* What the center stores is left alone, but for the catalog.
LEMMA CenterKept ==
    ASSUME Base, UNCHANGED <<ingest, manifest, journals>>,
           DOMAIN catalog' \subseteq HistGens,
           catalog' \in [DOMAIN catalog' -> Generations]
    PROVE  CenterOK'
BY DEF Base, CenterOK, StoreOK, ReadyOK, PositionsOK, State

\* Generations leave the catalog.
LEMMA WithoutType ==
    ASSUME StoreOK, NEW S
    PROVE  /\ DOMAIN Without(catalog, S) = DOMAIN catalog \ S
           /\ DOMAIN Without(catalog, S) \subseteq HistGens
           /\ Without(catalog, S) \in [DOMAIN Without(catalog, S) -> Generations]
           /\ \A g \in DOMAIN catalog \ S : Without(catalog, S)[g] = catalog[g]
BY DEF StoreOK, Without

\* activate_remote_delta_bootstrap, as what it does to the state of the
\* binding, to the manifest and to the catalog.
LEMMA ActivateEffect ==
    ASSUME Base, InPhase, Activate
    PROVE  LET b == run.binding
               S == State(b)
           IN  /\ S.boot # None /\ S.boot.ready /\ manifest = S.boot.expected
               /\ S.boot.hgen \in DOMAIN catalog
               /\ manifest' = [hgen |-> S.boot.hgen, binding |-> b]
               /\ \E gone \in SUBSET Selected(S.boot.expected) :
                    /\ ingest' = [ingest EXCEPT ![b] =
                         [active |-> [hgen |-> S.boot.hgen, cursor |-> S.boot.cursor],
                          boot |-> None,
                          retired |-> (S.retired \cup Selected(S.boot.expected)) \ gone]]
                    /\ catalog' = Without(catalog, gone)
                    /\ \A g \in gone :
                         /\ g # S.boot.hgen
                         /\ \A c \in Bindings \ {b} :
                               State(c) # None => g \notin LiveGenerations(State(c))
<1> DEFINE b == run.binding
           S == State(b)
           A == Activated(S)
           states == [ingest EXCEPT ![b] = A]
           m == [hgen |-> S.boot.hgen, binding |-> b]
           gone == {g \in Selected(S.boot.expected) : Collectable(g, states, m)}
<1>1. /\ b \in Bindings /\ S # None /\ StoreOK
      /\ ingest \in [Bindings -> IngestStates \cup {None}]
  BY PhaseFacts DEF Base, CenterOK, StoreOK
<1>2. /\ S.boot # None /\ S.boot.ready /\ manifest = S.boot.expected
      /\ S.boot.hgen \in DOMAIN catalog
      /\ manifest' = m
      /\ ingest' = [states EXCEPT ![b] = [A EXCEPT !.retired = @ \ gone]]
      /\ catalog' = Without(catalog, gone)
  BY DEF Activate, Ready, ActivationAllowed
<1>3. A = [active |-> [hgen |-> S.boot.hgen, cursor |-> S.boot.cursor],
           boot |-> None, retired |-> S.retired \cup Selected(S.boot.expected)]
  BY DEF Activated
<1>4. \A g \in gone :
         /\ g # S.boot.hgen
         /\ \A c \in Bindings \ {b} :
               State(c) # None => g \notin LiveGenerations(State(c))
  <2> SUFFICES ASSUME NEW g \in gone
               PROVE  /\ g # S.boot.hgen
                      /\ \A c \in Bindings \ {b} :
                            State(c) # None => g \notin LiveGenerations(State(c))
    OBVIOUS
  <2>1. g \notin Selected(m) /\ g \notin Protected(states)
    BY DEF Collectable
  <2>2. Selected(m) = {S.boot.hgen} /\ m # None
    <3>1. m \in Manifests
      BY <1>1, <1>2, StateFields DEF Manifests
    <3> QED
      BY <3>1, NoneAssumption DEF NoneAssumption, Selected
  <2>3. ASSUME NEW c \in Bindings \ {b}, State(c) # None
        PROVE  g \notin LiveGenerations(State(c))
    <3>1. states[c] = State(c)
      BY <1>1 DEF State
    <3>2. LiveGenerations(states[c]) \subseteq Protected(states)
      BY <2>3, <3>1 DEF Protected
    <3> QED
      BY <2>1, <3>1, <3>2
  <2> QED
    BY <2>1, <2>2, <2>3
<1>5. gone \in SUBSET Selected(S.boot.expected)
  OBVIOUS
<1> HIDE DEF gone
<1>6. ingest' = [ingest EXCEPT ![b] =
                  [active |-> [hgen |-> S.boot.hgen, cursor |-> S.boot.cursor],
                   boot |-> None,
                   retired |-> (S.retired \cup Selected(S.boot.expected)) \ gone]]
  <2>1. [A EXCEPT !.retired = @ \ gone] =
           [active |-> [hgen |-> S.boot.hgen, cursor |-> S.boot.cursor],
            boot |-> None,
            retired |-> (S.retired \cup Selected(S.boot.expected)) \ gone]
    BY <1>3
  <2> HIDE DEF A, S
  <2>2. [states EXCEPT ![b] = [A EXCEPT !.retired = @ \ gone]]
          = [ingest EXCEPT ![b] = [A EXCEPT !.retired = @ \ gone]]
    BY <1>1
  <2> QED
    BY <1>2, <2>1, <2>2
<1> QED
  BY <1>2, <1>4, <1>5, <1>6

\* The activation of a bootstrap keeps the shape of what is stored.
LEMMA ActivateCenter ==
    ASSUME Base, InPhase, Activate, UNCHANGED journals
    PROVE  CenterOK' /\ ingest'[run.binding] # None
<1> DEFINE b == run.binding
           S == State(b)
           T(gone) == [active |-> [hgen |-> S.boot.hgen, cursor |-> S.boot.cursor],
                       boot |-> None,
                       retired |-> (S.retired \cup Selected(S.boot.expected)) \ gone]
<1>1. b \in Bindings /\ S # None /\ StoreOK
  BY PhaseFacts DEF Base, CenterOK
<1>2. PICK gone \in SUBSET Selected(S.boot.expected) :
           ingest' = [ingest EXCEPT ![b] = T(gone)] /\ catalog' = Without(catalog, gone)
  BY ActivateEffect
<1>3. /\ S.boot # None /\ S.boot.ready
      /\ manifest' = [hgen |-> S.boot.hgen, binding |-> b]
  BY ActivateEffect
<1>4. /\ S.boot.hgen \in HistGens /\ S.boot.cursor \in Cursors
      /\ S.boot.expected \in Manifests \cup {None} /\ S.retired \subseteq HistGens
  BY <1>1, <1>3, StateFields DEF Base, CenterOK, ReadyOK
<1>5. Selected(S.boot.expected) \subseteq HistGens
  BY <1>4 DEF Selected, Manifests
<1>6. [hgen |-> S.boot.hgen, cursor |-> S.boot.cursor] \in Actives
  BY <1>4 DEF Actives
<1>7. T(gone) \in IngestStates /\ T(gone).boot = None
  BY <1>4, <1>5, <1>6 DEF IngestStates
<1>8. manifest' \in Manifests
  BY <1>1, <1>3, <1>4 DEF Manifests
<1>9. Position(T(gone)) = Position(S)
  BY <1>3, <1>6, NoneAssumption DEF Position, NoneAssumption
<1>10. journals[b] # None => Behind(Position(S), journals[b])
  BY <1>1 DEF Base, CenterOK, PositionsOK
<1> HIDE DEF T
<1> QED
  BY <1>1, <1>2, <1>7, <1>8, <1>9, <1>10, WithoutType, CenterUpdate

\* The page that a commit phase applies keeps its cursor behind the journal.
LEMMA PageBehind ==
    ASSUME Base, InPhase, run.op = "commit", journals[run.binding] # None
    PROVE  Behind(run.answer.next, journals[run.binding])
<1> DEFINE J == journals[run.binding]
<1>1. /\ run.binding \in Bindings /\ run.answer \in Responses
      /\ run.answer.kind = "page" /\ run.answer # None
  BY PhaseFacts, NoneAssumption DEF NoneAssumption
<1>2. JournalOK(J)
  BY <1>1 DEF Base, JournalsOK
<1>3. J.seq \in Nat /\ J.floor \in Nat /\ J.floor <= J.seq
  BY <1>2, JournalFields DEF JournalOK, Sound
<1>4. run.cursor \in Cursors \cup {None}
  BY RunFields DEF Base, RunSide
<1> SUFFICES ASSUME run.answer.next.gen = J.gen
             PROVE  run.answer.next.seq <= J.seq
  BY DEF Behind
<1>5. PageFor(J, run.cursor, run.answer)
  BY <1>1 DEF Base, RunSide, AnswerOK, IsPage
<1> DEFINE from == IF run.cursor # None THEN run.cursor
                   ELSE [gen |-> J.gen, seq |-> J.floor]
<1>6. PICK n \in from.seq..J.seq : run.answer = PageAt(J, from, n)
  BY <1>5 DEF PageFor
<1>7. from.seq \in Nat
  BY <1>3, <1>4 DEF Cursors
<1>8. run.answer.next.seq = n
  BY <1>6 DEF PageAt
<1> HIDE DEF from, J
<1> QED
  BY <1>3, <1>6, <1>7, <1>8

\* The run after a committed page.
LEMMA ContinuedSide ==
    ASSUME Base, UNCHANGED <<journals, purge>>, run.pc = "finish",
           run' = Continued, ingest'[run.binding] # None
    PROVE  RunSide'
<1>1. InPhase /\ run.op = "commit"
  BY DEF InPhase, Base, RunSide, RunOK
<1>2. run.answer \in Responses /\ run.binding \in Bindings /\ run.fenced = FALSE
      /\ purge = "none"
  BY <1>1, PhaseFacts
<1>3. run.answer.next \in Cursors
  BY <1>2 DEF Responses
<1>4. CASE run.answer.more
  <2>1. run' = [pc |-> "request", op |-> "position", binding |-> run.binding,
                cursor |-> run.answer.next, answer |-> None, todo |-> {},
                hgen |-> None, fenced |-> run.fenced]
    <3>1. run' = [Idle EXCEPT !.pc = "request", !.op = "position",
                              !.binding = run.binding, !.cursor = run.answer.next,
                              !.fenced = run.fenced]
      BY <1>4 DEF Continued
    <3> QED
      BY <3>1 DEF Idle
  <2>2. run' \in Runs
    <3>1. run.fenced \in BOOLEAN
      BY RunFields DEF Base, RunSide
    <3> QED
      BY <1>2, <1>3, <2>1, <3>1 DEF Runs
  <2>3. /\ run'.pc = "request" /\ run'.op = "position" /\ run'.answer = None
        /\ run'.binding = run.binding /\ run'.fenced = run.fenced
        /\ run'.cursor = run.answer.next
    BY <2>1
  <2>4. journals[run.binding] # None => Behind(run'.cursor, journals[run.binding])
    BY <1>1, <2>3, PageBehind
  <2> QED
    BY <1>1, <2>2, <2>3, <2>4, RunAsks
<1>5. CASE ~run.answer.more
  BY <1>2, <1>5, RunEnds DEF Continued
<1> QED
  BY <1>4, <1>5

\* ensure_remote_history_generation takes an identity that nothing refers to.
LEMMA EnsureEffect ==
    ASSUME EnsureGeneration
    PROVE  \E g \in Unused :
              /\ catalog' = [x \in DOMAIN catalog \cup {g} |->
                    IF x = g THEN [binding |-> run.binding, rows |-> EmptyRows]
                    ELSE catalog[x]]
              /\ run' = [run EXCEPT !.pc = "publish", !.hgen = g]
              /\ UNCHANGED <<ingest, manifest>>
<1> DEFINE g == CHOOSE x \in Unused : \A y \in Unused : x <= y
<1>1. Unused \in SUBSET Nat /\ Unused # {}
  BY IngestAssumption DEF IngestAssumption, Unused, EnsureGeneration
<1>2. \E x \in Unused : \A y \in Unused : x <= y
  BY <1>1, FirstExists
<1>3. g \in Unused
  BY <1>2
<1> HIDE DEF g
<1>4. /\ catalog' = [x \in DOMAIN catalog \cup {g} |->
              IF x = g THEN [binding |-> run.binding, rows |-> EmptyRows]
              ELSE catalog[x]]
      /\ run' = [run EXCEPT !.pc = "publish", !.hgen = g]
      /\ UNCHANGED <<ingest, manifest>>
  BY DEF EnsureGeneration, g
<1> QED
  BY <1>3, <1>4

\* A page gives contents to the records it touches.
LEMMA PatchedType ==
    ASSUME NEW rows \in [Keys -> Contents], NEW a \in Responses
    PROVE  Patched(rows, a.patch) \in [Keys -> Contents]
<1>1. PICK D \in SUBSET Keys : a.patch \in [D -> Contents]
  BY DEF Responses
<1> QED
  BY <1>1 DEF Patched

\* Every step of an open phase keeps Base.
LEMMA BasePhase ==
    ASSUME Base, PhaseStep, UNCHANGED envVars
    PROVE  Base'
<1> USE DEF envVars
<1>0. EnvOK' /\ JournalsOK'
  BY DEF Base, EnvOK, JournalsOK
<1>1. UNCHANGED <<journals, purge>> /\ run \in Runs /\ StoreOK
  BY DEF Base, CenterOK, RunSide
<1>2. DOMAIN catalog \subseteq HistGens /\ catalog \in [DOMAIN catalog -> Generations]
  BY <1>1 DEF StoreOK
<1>3. InPhase
  BY DEF PhaseStep, RecoverActivate, RecoverSkip, RecoverRefused, BeginRetry, Collect,
         Forget, Sweep, ReturnPosition, EnsureGeneration, WantsBootstrap,
         PublishBootstrap, BootstrapReady, RefuseMoved, RefuseBootstrap, RefusePage,
         ApplyStagedPage, ApplyActivePage, AtPage, FinishActivate, FinishSkip, InPhase
<1> DEFINE b == run.binding
           S == State(b)
<1>4. /\ b \in Bindings /\ S # None /\ ingest[b] # None /\ purge = "none"
      /\ run.fenced = FALSE
  BY <1>3, PhaseFacts DEF State
<1>5. ASSUME EndRun PROVE Base'
  BY <1>0, <1>1, <1>2, <1>5, RunEnds, CenterKept DEF EndRun, Base
<1>6. ASSUME RecoverActivate PROVE Base'
  <2>1. Activate /\ run' = [run EXCEPT !.pc = "retry"]
    BY <1>6 DEF RecoverActivate
  <2>2. CenterOK' /\ ingest'[b] # None
    BY <1>1, <1>3, <2>1, ActivateCenter
  <2>3. /\ run' \in Runs /\ InPhase' /\ run'.binding = b
        /\ run'.cursor = run.cursor /\ run'.answer = run.answer
        /\ run'.fenced = run.fenced /\ run'.pc = "retry" /\ run'.op = run.op
    BY <1>1, <2>1 DEF Runs, InPhase
  <2> QED
    BY <1>0, <1>1, <1>3, <2>2, <2>3, RunStays DEF Base
<1>7. ASSUME RecoverSkip PROVE Base'
  <2>1. /\ run' = [run EXCEPT !.pc = "retry"] /\ UNCHANGED <<ingest, manifest, catalog>>
    BY <1>7 DEF RecoverSkip
  <2>2. /\ run' \in Runs /\ InPhase' /\ run'.binding = b
        /\ run'.cursor = run.cursor /\ run'.answer = run.answer
        /\ run'.fenced = run.fenced /\ run'.pc = "retry" /\ run'.op = run.op
    BY <1>1, <2>1 DEF Runs, InPhase
  <2> QED
    BY <1>0, <1>1, <1>2, <1>3, <1>4, <2>1, <2>2, RunStays, CenterKept DEF Base
<1>8. ASSUME BeginRetry PROVE Base'
  <2>1. PICK T \in SUBSET S.retired : run' = [run EXCEPT !.pc = "cleanup", !.todo = T]
    BY <1>8 DEF BeginRetry
  <2>2. UNCHANGED <<ingest, manifest, catalog>>
    BY <1>8 DEF BeginRetry
  <2>3. T \subseteq HistGens
    BY <1>1, <1>4, StateFields
  <2>4. /\ run' \in Runs /\ InPhase' /\ run'.binding = b
        /\ run'.cursor = run.cursor /\ run'.answer = run.answer
        /\ run'.fenced = run.fenced /\ run'.pc = "cleanup" /\ run'.op = run.op
    BY <1>1, <2>1, <2>3 DEF Runs, InPhase
  <2> QED
    BY <1>0, <1>1, <1>2, <1>3, <1>4, <2>2, <2>4, RunStays, CenterKept DEF Base
<1>9. ASSUME NEW g \in HistGens, Collect(g) PROVE Base'
  <2>1. UNCHANGED <<ingest, manifest>>
    BY <1>9 DEF Collect
  <2>2. /\ DOMAIN catalog' \subseteq HistGens
        /\ catalog' \in [DOMAIN catalog' -> Generations]
    <3>1. catalog' = catalog \/ catalog' = Without(catalog, {g})
      BY <1>9 DEF Collect
    <3>2. CASE catalog' = catalog
      BY <1>2, <3>2
    <3>3. CASE catalog' = Without(catalog, {g})
      BY <1>1, <3>3, WithoutType
    <3> QED
      BY <3>1, <3>2, <3>3
  <2>3. \/ run' = [run EXCEPT !.pc = "forget", !.hgen = g]
        \/ run' = [run EXCEPT !.todo = @ \ {g}]
    BY <1>9 DEF Collect
  <2>4. run.pc = "cleanup"
    BY <1>9 DEF Collect
  <2>5. /\ run' \in Runs /\ InPhase' /\ run'.binding = b
        /\ run'.cursor = run.cursor /\ run'.answer = run.answer
        /\ run'.fenced = run.fenced /\ run'.op = run.op
        /\ run'.pc \notin {"finish", "publish"}
    BY <1>1, <2>3, <2>4 DEF Runs, InPhase
  <2> QED
    BY <1>0, <1>1, <1>3, <1>4, <2>1, <2>2, <2>5, RunStays, CenterKept DEF Base
<1>10. ASSUME Forget PROVE Base'
  <2>1. /\ ingest' = [ingest EXCEPT ![b].retired = @ \ {run.hgen}]
        /\ run' = [run EXCEPT !.pc = "cleanup", !.todo = @ \ {run.hgen}, !.hgen = None]
        /\ UNCHANGED <<manifest, catalog>>
    BY <1>10 DEF Forget
  <2> DEFINE T == [S EXCEPT !.retired = @ \ {run.hgen}]
  <2>2. ingest' = [ingest EXCEPT ![b] = T]
    BY <2>1 DEF State
  <2>3. S \in IngestStates
    BY <1>1, <1>4, StateFields
  <2>4. T \in IngestStates /\ T.boot = S.boot /\ T.active = S.active
    BY <2>3 DEF IngestStates
  <2>5. /\ T.boot # None /\ T.boot.ready => T.boot.cursor # None
        /\ journals[b] # None => Behind(Position(T), journals[b])
    BY <1>4, <2>4 DEF Base, CenterOK, ReadyOK, PositionsOK, Position
  <2> HIDE DEF T
  <2>6. CenterOK' /\ ingest'[b] # None
    BY <1>1, <1>2, <1>4, <2>1, <2>2, <2>4, <2>5, CenterUpdate DEF StoreOK
  <2>7. /\ run' \in Runs /\ InPhase' /\ run'.binding = b
        /\ run'.cursor = run.cursor /\ run'.answer = run.answer
        /\ run'.fenced = run.fenced /\ run'.pc = "cleanup" /\ run'.op = run.op
    BY <1>1, <2>1 DEF Runs, InPhase
  <2> QED
    BY <1>0, <1>1, <1>3, <2>6, <2>7, RunStays DEF Base
<1>11. ASSUME Sweep PROVE Base'
  <2>1. /\ UNCHANGED <<ingest, manifest>> /\ run' = [run EXCEPT !.pc = "decide"]
        /\ \E T : catalog' = Without(catalog, T)
    BY <1>11 DEF Sweep
  <2>2. /\ DOMAIN catalog' \subseteq HistGens
        /\ catalog' \in [DOMAIN catalog' -> Generations]
    BY <1>1, <2>1, WithoutType
  <2>3. /\ run' \in Runs /\ InPhase' /\ run'.binding = b
        /\ run'.cursor = run.cursor /\ run'.answer = run.answer
        /\ run'.fenced = run.fenced /\ run'.pc = "decide" /\ run'.op = run.op
    BY <1>1, <2>1 DEF Runs, InPhase
  <2> QED
    BY <1>0, <1>1, <1>3, <1>4, <2>1, <2>2, <2>3, RunStays, CenterKept DEF Base
<1>12. ASSUME ReturnPosition PROVE Base'
  <2>1. /\ UNCHANGED <<ingest, manifest, catalog>> /\ run.op = "position"
        /\ run' = [run EXCEPT !.pc = "request", !.cursor = Position(S)]
    BY <1>12 DEF ReturnPosition
  <2>2. Position(S) \in Cursors \cup {None}
    BY <1>1, <1>4, StateFields
  <2>3. run.answer = None
    BY <1>3, <2>1 DEF InPhase, Base, RunSide, RunOK
  <2>5. /\ run' \in Runs /\ run'.pc = "request" /\ run'.op = "position"
        /\ run'.binding = b /\ run'.answer = None
        /\ run'.fenced = run.fenced /\ run'.cursor = Position(S)
    BY <1>1, <2>1, <2>2, <2>3 DEF Runs
  <2>4. journals[b] # None => Behind(Position(S), journals[b])
    BY <1>4 DEF Base, CenterOK, PositionsOK
  <2> QED
    BY <1>0, <1>1, <1>2, <1>3, <1>4, <2>1, <2>5, <2>4, RunAsks, CenterKept DEF Base
<1>13. ASSUME EnsureGeneration PROVE Base'
  <2>1. PICK g \in Unused :
          /\ catalog' = [x \in DOMAIN catalog \cup {g} |->
                           IF x = g THEN [binding |-> b, rows |-> EmptyRows]
                           ELSE catalog[x]]
          /\ run' = [run EXCEPT !.pc = "publish", !.hgen = g]
          /\ UNCHANGED <<ingest, manifest>>
    BY <1>13, EnsureEffect
  <2>2. g \in HistGens
    BY DEF Unused
  <2>3. [binding |-> b, rows |-> EmptyRows] \in Generations
    BY <1>4 DEF Generations, EmptyRows, Contents
  <2>4. /\ DOMAIN catalog' \subseteq HistGens
        /\ catalog' \in [DOMAIN catalog' -> Generations]
    BY <1>2, <2>1, <2>2, <2>3
  <2>5. /\ run' \in Runs /\ InPhase' /\ run'.binding = b
        /\ run'.cursor = run.cursor /\ run'.answer = run.answer
        /\ run'.fenced = run.fenced /\ run'.pc = "publish" /\ run'.op = run.op
        /\ run'.hgen \in HistGens
    BY <1>1, <2>1, <2>2 DEF Runs, InPhase
  <2> QED
    BY <1>0, <1>1, <1>3, <1>4, <2>1, <2>4, <2>5, RunStays, CenterKept DEF Base
<1>14. ASSUME PublishBootstrap PROVE Base'
  <2> DEFINE old == IF S.boot = None THEN {} ELSE {S.boot.hgen}
             B == [hgen |-> run.hgen, expected |-> manifest,
                   cursor |-> None, ready |-> FALSE]
             T == [S EXCEPT !.boot = B, !.retired = @ \cup old]
  <2>1. /\ run.pc = "publish" /\ ingest' = [ingest EXCEPT ![b] = T]
        /\ run' = [run EXCEPT !.pc = "cleanup", !.op = "restarted",
                              !.hgen = None, !.todo = old]
        /\ UNCHANGED <<manifest, catalog>>
    BY <1>14 DEF PublishBootstrap
  <2>2. S \in IngestStates /\ old \subseteq HistGens
    BY <1>1, <1>4, StateFields
  <2>3. run.hgen \in HistGens
    BY <2>1 DEF Base, RunSide, RunOK
  <2>4. B \in Boots /\ manifest' \in Manifests \cup {None}
    BY <1>1, <2>1, <2>3 DEF Boots, StoreOK
  <2> HIDE DEF B, old
  <2>5. T \in IngestStates /\ T.boot = B
    BY <2>2, <2>4 DEF IngestStates
  <2>6. B.ready = FALSE /\ B # None /\ Position(T) = None
    <3>1. B.ready = FALSE /\ B.cursor = None
      BY DEF B
    <3>2. B # None
      BY <2>4, NoneAssumption DEF NoneAssumption
    <3> QED
      BY <2>5, <3>1, <3>2 DEF Position
  <2> HIDE DEF T
  <2>7. CenterOK' /\ ingest'[b] # None
    BY <1>1, <1>2, <1>4, <2>1, <2>4, <2>5, <2>6, CenterUpdate DEF Behind
  <2>8. /\ run' \in Runs /\ InPhase' /\ run'.binding = b
        /\ run'.cursor = run.cursor /\ run'.answer = run.answer
        /\ run'.fenced = run.fenced /\ run'.pc = "cleanup" /\ run'.op = "restarted"
    BY <1>1, <2>1, <2>2 DEF Runs, InPhase
  <2> QED
    BY <1>0, <1>1, <1>3, <2>7, <2>8, RunStays DEF Base
<1>15. ASSUME BootstrapReady PROVE Base'
  <2>1. UNCHANGED <<ingest, manifest, catalog>>
    BY <1>15 DEF BootstrapReady
  <2>2. CASE run.answer = None
    <3>1. run' = [run EXCEPT !.pc = "request", !.op = "position", !.cursor = None]
      BY <1>15, <2>2 DEF BootstrapReady
    <3>2. /\ run' \in Runs /\ run'.pc = "request" /\ run'.op = "position"
          /\ run'.binding = b /\ run'.answer = None
          /\ run'.fenced = run.fenced /\ run'.cursor = None
      BY <1>1, <2>2, <3>1 DEF Runs
    <3>3. Behind(run'.cursor, journals[b])
      BY <3>2 DEF Behind
    <3> QED
      BY <1>0, <1>1, <1>2, <1>3, <1>4, <2>1, <3>2, <3>3, RunAsks, CenterKept DEF Base
  <2>3. CASE run.answer # None
    BY <1>5, <1>15, <2>1, <2>3 DEF BootstrapReady, EndRun
  <2> QED
    BY <2>2, <2>3
<1>16. ASSUME ApplyStagedPage PROVE Base'
  <2> DEFINE T == [S EXCEPT !.boot = Staged(S.boot, run.answer)]
             rows == IF S.boot.hgen \in DOMAIN catalog
                     THEN catalog[S.boot.hgen].rows ELSE EmptyRows
  <2>1. /\ S.boot # None /\ run.op = "commit" /\ UNCHANGED manifest
        /\ ingest' = [ingest EXCEPT ![b].boot = Staged(S.boot, run.answer)]
        /\ run' = [run EXCEPT !.pc = "finish"]
        /\ catalog' = [g \in DOMAIN catalog \cup {S.boot.hgen} |->
                         IF g = S.boot.hgen
                         THEN [binding |-> b, rows |-> Patched(rows, run.answer.patch)]
                         ELSE catalog[g]]
    BY <1>16 DEF ApplyStagedPage, AtPage
  <2>2. /\ run.answer \in Responses /\ run.answer.next \in Cursors
        /\ run.answer.more \in BOOLEAN
    BY <1>3, <2>1, PhaseFacts DEF Responses
  <2>3. /\ S \in IngestStates /\ S.boot \in Boots /\ S.boot.hgen \in HistGens
    BY <1>1, <1>4, <2>1, StateFields
  <2>4. /\ Staged(S.boot, run.answer) \in Boots
        /\ Staged(S.boot, run.answer).cursor = run.answer.next
    BY <2>2, <2>3 DEF Boots, Staged
  <2>5. /\ T \in IngestStates /\ T.boot = Staged(S.boot, run.answer)
        /\ ingest' = [ingest EXCEPT ![b] = T]
    BY <2>1, <2>3, <2>4 DEF IngestStates, State
  <2>6. /\ run.answer.next # None /\ T.boot.cursor # None
        /\ Position(T) = run.answer.next
    BY <2>2, <2>4, <2>5, NoneAssumption DEF NoneAssumption, Position
  <2>7. journals[b] # None => Behind(Position(T), journals[b])
    BY <1>3, <2>1, <2>6, PageBehind
  <2>8. rows \in [Keys -> Contents]
    BY <1>2 DEF Generations, EmptyRows, Contents
  <2>9. [binding |-> b, rows |-> Patched(rows, run.answer.patch)] \in Generations
    BY <1>4, <2>2, <2>8, PatchedType DEF Generations
  <2> HIDE DEF T, rows
  <2>10. /\ DOMAIN catalog' \subseteq HistGens
         /\ catalog' \in [DOMAIN catalog' -> Generations]
    BY <1>2, <2>1, <2>3, <2>9
  <2>11. CenterOK' /\ ingest'[b] # None
    <3>1. manifest' \in Manifests \cup {None}
      BY <1>1, <2>1 DEF StoreOK
    <3>2. T.boot # None /\ T.boot.ready => T.boot.cursor # None
      BY <2>6
    <3> QED
      BY <1>1, <1>4, <2>5, <2>7, <2>10, <3>1, <3>2, CenterUpdate
  <2>12. /\ run' \in Runs /\ InPhase' /\ run'.binding = b
         /\ run'.cursor = run.cursor /\ run'.answer = run.answer
         /\ run'.fenced = run.fenced /\ run'.pc = "finish" /\ run'.op = run.op
    BY <1>1, <2>1 DEF Runs, InPhase
  <2> QED
    BY <1>0, <1>1, <1>3, <2>1, <2>11, <2>12, RunStays DEF Base
<1>17. ASSUME ApplyActivePage PROVE Base'
  <2> DEFINE A == [hgen |-> S.active.hgen, cursor |-> run.answer.next]
             T == [S EXCEPT !.active = A]
             g == S.active.hgen
  <2>1. /\ S.boot = None /\ S.active # None /\ run.op = "commit"
        /\ UNCHANGED manifest /\ g \in DOMAIN catalog
        /\ ingest' = [ingest EXCEPT ![b].active = A]
        /\ run' = [run EXCEPT !.pc = "finish"]
        /\ catalog' = [catalog EXCEPT ![g].rows = Patched(@, run.answer.patch)]
    BY <1>17 DEF ApplyActivePage, AtPage
  <2>2. run.answer \in Responses /\ run.answer.next \in Cursors
    BY <1>3, <2>1, PhaseFacts DEF Responses
  <2>3. S \in IngestStates /\ S.active.hgen \in HistGens
    BY <1>1, <1>4, <2>1, StateFields
  <2>4. A \in Actives
    BY <2>2, <2>3 DEF Actives
  <2>5. /\ T \in IngestStates /\ T.boot = None /\ T.active = A
        /\ ingest' = [ingest EXCEPT ![b] = T]
    BY <2>1, <2>3, <2>4 DEF IngestStates, State
  <2>6. Position(T) = run.answer.next
    BY <2>4, <2>5, NoneAssumption DEF NoneAssumption, Position
  <2>7. journals[b] # None => Behind(Position(T), journals[b])
    BY <1>3, <2>1, <2>6, PageBehind
  <2>8. catalog[g] \in Generations /\ catalog[g].rows \in [Keys -> Contents]
    BY <1>2, <2>1 DEF Generations
  <2>9. [catalog[g] EXCEPT !.rows = Patched(@, run.answer.patch)] \in Generations
    BY <2>2, <2>8, PatchedType DEF Generations
  <2> HIDE DEF T, A, g
  <2>10. /\ DOMAIN catalog' \subseteq HistGens
         /\ catalog' \in [DOMAIN catalog' -> Generations]
    BY <1>2, <2>1, <2>9
  <2>11. CenterOK' /\ ingest'[b] # None
    <3>1. manifest' \in Manifests \cup {None}
      BY <1>1, <2>1 DEF StoreOK
    <3> QED
      BY <1>1, <1>4, <2>5, <2>7, <2>10, <3>1, CenterUpdate
  <2>12. /\ run' \in Runs /\ InPhase' /\ run'.binding = b
         /\ run'.cursor = run.cursor /\ run'.answer = run.answer
         /\ run'.fenced = run.fenced /\ run'.pc = "finish" /\ run'.op = run.op
    BY <1>1, <2>1 DEF Runs, InPhase
  <2> QED
    BY <1>0, <1>1, <1>3, <2>1, <2>11, <2>12, RunStays DEF Base
<1>18. ASSUME FinishActivate PROVE Base'
  BY <1>0, <1>1, <1>3, <1>18, ActivateCenter, ContinuedSide DEF FinishActivate, Base
<1>19. ASSUME FinishSkip PROVE Base'
  BY <1>0, <1>1, <1>2, <1>3, <1>4, <1>19, CenterKept, ContinuedSide DEF FinishSkip, Base
<1> QED
  BY <1>5, <1>6, <1>7, <1>8, <1>9, <1>10, <1>11, <1>12, <1>13, <1>14, <1>15, <1>16,
     <1>17, <1>18, <1>19
  DEF PhaseStep, RecoverRefused, RefuseMoved, RefuseBootstrap, RefusePage

\* The generations that a new namespace avoids.
LEMMA NamedHolds ==
    /\ run.cursor # None => run.cursor.gen \in NamedGens
    /\ \A b \in Bindings : State(b) # None /\ Position(State(b)) # None =>
          Position(State(b)).gen \in NamedGens
    /\ \A b \in Bindings :
          State(b) # None /\ State(b).active # None /\ State(b).active.cursor # None =>
             State(b).active.cursor.gen \in NamedGens
BY DEF NamedGens

\* load_or_create_state: the namespace as it was, or one nobody has read.
LEMMA NamespaceOK ==
    ASSUME Base, NEW b \in Bindings, NEW J \in Namespaces(b)
    PROVE  /\ JournalOK(J)
           /\ State(b) # None => Behind(Position(State(b)), J)
           /\ run.binding = b /\ run.pc # "idle" => Behind(run.cursor, J)
           /\ journals[b] # None => J = journals[b]
           /\ journals[b] = None =>
                 \E g \in JournalGens \ NamedGens : J = NewJournal(g, 0)
<1>1. CASE journals[b] # None
  <2>1. J = journals[b]
    BY <1>1 DEF Namespaces
  <2> QED
    BY <1>1, <2>1 DEF Base, JournalsOK, CenterOK, PositionsOK, RunSide, CursorOK
<1>2. CASE journals[b] = None
  <2>1. PICK g \in JournalGens \ NamedGens : J = NewJournal(g, 0)
    BY <1>2 DEF Namespaces
  <2>2. g \in Nat /\ MaxEntries \in Nat
    BY SyncAssumption, JournalAssumption DEF SyncAssumption, JournalAssumption
  <2>3. Sound(J) /\ BootstrapComplete(J)
    BY <2>1, <2>2, NewSound
  <2>4. J.gen = g /\ J.seq = 0 /\ J.floor = 0
    BY <2>1 DEF NewJournal
  <2>5. JournalOK(J)
    BY <2>2, <2>3, <2>4 DEF JournalOK
  <2> QED
    BY <1>2, <2>1, <2>4, <2>5, NamedHolds DEF Behind
<1> QED
  BY <1>1, <1>2

\* The exporter answers a run that waits for it.
LEMMA ServeBase ==
    ASSUME Base, Waiting, NEW J \in Namespaces(agreed), NEW K, JournalOK(K),
           K.gen = J.gen, J.seq <= K.seq, NEW c, NEW a \in Answers(K, c),
           c = IF run.cursor # None THEN run.cursor
               ELSE [gen |-> K.gen, seq |-> K.floor],
           journals' = [journals EXCEPT ![agreed] = K], Answer(a),
           UNCHANGED <<ingest, manifest, catalog, local, agreed, purge, calm>>
    PROVE  /\ Base'
           /\ journals'[agreed] = K
           /\ \A b \in Bindings \ {agreed} : journals'[b] = journals[b]
           /\ a \in Responses /\ run'.answer = a /\ run'.cursor = run.cursor
           /\ run'.binding = run.binding
           /\ a.kind = "page" => PageFor(K, run.cursor, a)
<1>1. /\ agreed \in Bindings /\ run.binding = agreed /\ run.pc = "request"
      /\ run \in Runs
      /\ ingest \in [Bindings -> IngestStates \cup {None}] /\ StoreOK
  BY DEF Base, EnvOK, Waiting, RunSide, CenterOK, StoreOK
<1>2. /\ JournalOK(J)
      /\ State(agreed) # None => Behind(Position(State(agreed)), J)
      /\ Behind(run.cursor, J)
  BY <1>1, NamespaceOK
<1>3. /\ J.seq \in Nat /\ K.seq \in Nat /\ K.floor \in Nat /\ K.floor <= K.seq
      /\ K.gen \in JournalGens
  BY <1>2, JournalFields DEF JournalOK, Sound
<1>4. run.cursor \in Cursors \cup {None} /\ run.fenced \in BOOLEAN
  BY <1>1, RunFields
<1>5. c \in Cursors /\ (c.gen = K.gen => c.seq <= K.seq)
  <2>1. CASE run.cursor # None
    <3>1. c = run.cursor /\ c \in Cursors /\ c.seq \in Nat
      BY <1>4, <2>1 DEF Cursors
    <3> QED
      BY <1>2, <1>3, <2>1, <3>1 DEF Behind
  <2>2. CASE run.cursor = None
    BY <1>3, <2>2 DEF Cursors
  <2> QED
    BY <2>1, <2>2
<1>6. /\ a \in Responses /\ a # None
      /\ a.kind = "page" =>
            /\ a.next.gen = K.gen /\ ~CursorLapsed(K, c)
            /\ \E n \in c.seq..K.seq : a = PageAt(K, c, n)
  BY <1>5, AnswersType
<1>7. a.kind = "page" => PageFor(K, run.cursor, a)
  BY <1>6 DEF PageFor
<1>8. run' = [run EXCEPT !.pc = "answered", !.answer = a]
  BY DEF Answer
<1>9. /\ run' \in Runs /\ run'.pc = "answered" /\ run'.answer = a
      /\ run'.cursor = run.cursor /\ run'.binding = run.binding
      /\ run'.op = run.op /\ run'.fenced = run.fenced
  BY <1>1, <1>6, <1>8 DEF Runs
<1>10. journals'[agreed] = K /\ \A b \in Bindings \ {agreed} : journals'[b] = journals[b]
  BY <1>1 DEF Base, EnvOK
<1>11. EnvOK'
  BY <1>1, <1>10 DEF Base, EnvOK
<1>12. JournalsOK'
  BY <1>10 DEF Base, JournalsOK
<1>13. CenterOK'
  <2>1. StoreOK' /\ ReadyOK'
    BY DEF Base, CenterOK, StoreOK, ReadyOK, State
  <2>2. PositionsOK'
    <3> SUFFICES ASSUME NEW b \in Bindings, State(b) # None, journals'[b] # None
                 PROVE  Behind(Position(State(b)), journals'[b])
      BY DEF PositionsOK, State
    <3>1. CASE b = agreed
      <4>1. Position(State(b)) \in Cursors \cup {None}
        BY <1>1, StateFields
      <4>2. Position(State(b)) # None => Position(State(b)).seq \in Nat
        BY <4>1 DEF Cursors
      <4> QED
        BY <1>2, <1>3, <1>10, <3>1, <4>2 DEF Behind
    <3>2. CASE b # agreed
      BY <1>10, <3>2 DEF Base, CenterOK, PositionsOK
    <3> QED
      BY <3>1, <3>2
  <2> QED
    BY <2>1, <2>2 DEF CenterOK
<1>14. RunOK'
  BY <1>1, <1>6, <1>9 DEF Base, RunSide, RunOK, IsPage, State
<1>15. CursorOK'
  <2>1. run.cursor # None => c = run.cursor
    OBVIOUS
  <2> QED
    BY <1>1, <1>5, <1>9, <1>10, <2>1 DEF CursorOK, Behind
<1>16. AnswerOK'
  BY <1>1, <1>7, <1>9, <1>10 DEF AnswerOK, IsPage
<1> QED
  BY <1>6, <1>7, <1>9, <1>10, <1>11, <1>12, <1>13, <1>14, <1>15, <1>16 DEF Base, RunSide

\* What a scan makes of a namespace.
LEMMA ExportedOK ==
    ASSUME Base, NEW J, JournalOK(J), NEW S, NEW K \in Exported(J, S)
    PROVE  JournalOK(K) /\ Extends(J, K) /\ K.gen = J.gen /\ J.seq <= K.seq
<1>1. Desired(S) \in [Keys -> Contents]
  BY DEF Base, EnvOK, Desired, Contents
<1>2. K \in Reconciled(J, 0, Desired(S), "UpsertOnly")
  BY DEF Exported
<1>3. /\ Sound(K) /\ BootstrapComplete(K)
      /\ K.seq - K.floor <= MaxEntries /\ K.gen = J.gen
  BY <1>1, <1>2, ReconcileSound DEF JournalOK
<1>4. Extends(J, K)
  BY <1>1, <1>2, ReconcileExtends DEF JournalOK
<1> QED
  BY <1>3, <1>4 DEF JournalOK, Extends

\* A page served from the journal as it is, as one kind of serving.
LEMMA PendingServes ==
    ASSUME Base, ServePending
    PROVE  \E J \in Namespaces(agreed) : \E a \in Answers(J, run.cursor) :
             /\ Waiting /\ run.cursor # None /\ JournalOK(J)
             /\ journals' = [journals EXCEPT ![agreed] = J] /\ Answer(a)
             /\ UNCHANGED <<ingest, manifest, catalog, local, agreed, purge, calm>>
<1>1. PICK J \in Namespaces(agreed) :
         /\ journals' = [journals EXCEPT ![agreed] = J]
         /\ \E a \in Answers(J, run.cursor) : Answer(a)
  BY DEF ServePending
<1>2. JournalOK(J)
  BY NamespaceOK DEF Base, EnvOK
<1> QED
  BY <1>1, <1>2 DEF ServePending

\* A page served after a scan.
LEMMA ScanServes ==
    ASSUME Base, NEW S, ServeScan(S)
    PROVE  \E J \in Namespaces(agreed) : \E K \in Exported(J, S) :
             \E a \in Answers(K, IF run.cursor # None THEN run.cursor
                                 ELSE [gen |-> K.gen, seq |-> K.floor]) :
               /\ Waiting /\ JournalOK(J) /\ JournalOK(K) /\ Extends(J, K)
               /\ K.gen = J.gen /\ J.seq <= K.seq
               /\ run.cursor # None => ~CursorLapsed(J, run.cursor) /\ run.cursor.seq = J.seq
               /\ journals' = [journals EXCEPT ![agreed] = K] /\ Answer(a)
               /\ UNCHANGED <<ingest, manifest, catalog, local, agreed, purge, calm>>
<1>1. PICK J \in Namespaces(agreed) :
         /\ run.cursor # None => ~CursorLapsed(J, run.cursor) /\ run.cursor.seq = J.seq
         /\ \E K \in Exported(J, S) :
                /\ journals' = [journals EXCEPT ![agreed] = K]
                /\ \E a \in Answers(K, IF run.cursor # None THEN run.cursor
                                       ELSE [gen |-> K.gen, seq |-> K.floor]) :
                      Answer(a)
  BY DEF ServeScan
<1>2. PICK K \in Exported(J, S) :
         /\ journals' = [journals EXCEPT ![agreed] = K]
         /\ \E a \in Answers(K, IF run.cursor # None THEN run.cursor
                                ELSE [gen |-> K.gen, seq |-> K.floor]) : Answer(a)
  BY <1>1
<1>3. JournalOK(J)
  BY NamespaceOK DEF Base, EnvOK
<1>4. JournalOK(K) /\ Extends(J, K) /\ K.gen = J.gen /\ J.seq <= K.seq
  BY <1>3, ExportedOK
<1>5. Waiting /\ UNCHANGED <<ingest, manifest, catalog, local, agreed, purge, calm>>
  BY DEF ServeScan
<1> QED
  BY <1>1, <1>2, <1>3, <1>4, <1>5

\* The initial state.
LEMMA BaseInit ==
    ASSUME Init
    PROVE  Base
<1>1. run \in Runs /\ run.pc = "idle" /\ run = Idle /\ run.op = "none" /\ ~run.fenced
      /\ run.answer = None
  BY IdleRun DEF Init
<1>2. \A b \in Bindings : State(b) = None /\ journals[b] = None
  BY DEF Init, State
<1>3. EnvOK
  BY DEF Init, EnvOK, Contents
<1>4. StoreOK
  BY DEF Init, StoreOK
<1>5. JournalsOK /\ ReadyOK /\ PositionsOK
  BY <1>2 DEF JournalsOK, ReadyOK, PositionsOK
<1>6. RunOK /\ CursorOK /\ AnswerOK
  BY <1>1 DEF RunOK, CursorOK, AnswerOK, IsPage, Init
<1> QED
  BY <1>1, <1>3, <1>4, <1>5, <1>6 DEF Base, CenterOK, RunSide

\* The run asks no more or its first phase begins.
LEMMA StartBase ==
    ASSUME Base, Start
    PROVE  Base'
<1>1. /\ agreed \in Bindings /\ purge = "none" /\ run.pc = "idle"
      /\ ingest \in [Bindings -> IngestStates \cup {None}] /\ StoreOK
      /\ UNCHANGED <<manifest, catalog>> /\ UNCHANGED envVars
  BY DEF Base, EnvOK, CenterOK, StoreOK, Start, StartRun
<1> DEFINE T == IF ingest[agreed] = None THEN NewIngest ELSE ingest[agreed]
<1>2. /\ ingest' = [ingest EXCEPT ![agreed] = T]
      /\ run' = [Idle EXCEPT !.pc = "activate", !.op = "position", !.binding = agreed]
  BY DEF Start, StartRun
<1>3. NewIngest \in IngestStates /\ NewIngest.boot = None /\ NewIngest.active = None
  BY DEF NewIngest, IngestStates
<1>4. T \in IngestStates
  BY <1>1, <1>3
<1>5. /\ T.boot # None /\ T.boot.ready => T.boot.cursor # None
      /\ journals[agreed] # None => Behind(Position(T), journals[agreed])
  <2>1. CASE ingest[agreed] = None
    BY <1>3, <2>1 DEF Position, Behind
  <2>2. CASE ingest[agreed] # None
    BY <1>1, <2>2 DEF Base, CenterOK, ReadyOK, PositionsOK, State
  <2> QED
    BY <2>1, <2>2
<1> HIDE DEF T
<1>6. CenterOK' /\ ingest'[agreed] # None
  <2>1. UNCHANGED journals
    BY <1>1 DEF envVars
  <2> QED
    BY <1>1, <1>2, <1>4, <1>5, <2>1, CenterUpdate DEF StoreOK
<1>7. run' = [pc |-> "activate", op |-> "position", binding |-> agreed, cursor |-> None,
              answer |-> None, todo |-> {}, hgen |-> None, fenced |-> FALSE]
  BY <1>2 DEF Idle
<1>8. run' \in Runs
  BY <1>1, <1>7 DEF Runs
<1>9. RunOK'
  BY <1>1, <1>6, <1>7 DEF RunOK, IsPage, State, envVars
<1>10. CursorOK' /\ AnswerOK'
  BY <1>7 DEF CursorOK, AnswerOK, IsPage, Behind
<1>11. EnvOK' /\ JournalsOK'
  BY <1>1 DEF Base, EnvOK, JournalsOK, envVars
<1> QED
  BY <1>6, <1>8, <1>9, <1>10, <1>11 DEF Base, RunSide

\* Every step keeps Base.
LEMMA BaseNext ==
    ASSUME Base, [Next \/ Settle]_syncVars
    PROVE  Base'
<1>0. /\ run \in Runs /\ StoreOK /\ EnvOK /\ run.fenced \in BOOLEAN
      /\ DOMAIN catalog \subseteq HistGens /\ catalog \in [DOMAIN catalog -> Generations]
  BY RunFields DEF Base, CenterOK, RunSide, StoreOK
<1>1. ASSUME UNCHANGED syncVars PROVE Base'
  BY <1>1 DEF Base, EnvOK, JournalsOK, CenterOK, StoreOK, ReadyOK, PositionsOK, RunSide,
              RunOK, CursorOK, AnswerOK, IsPage, State, syncVars
<1>2. ASSUME Start PROVE Base'
  BY <1>2, StartBase
<1>3. ASSUME Phase PROVE Base'
  BY <1>3, BasePhase DEF Phase
<1>4. ASSUME Accept PROVE Base'
  <2>1. /\ run.pc = "answered" /\ ~run.fenced
        /\ run' = [run EXCEPT !.pc = "activate",
                              !.op = IF run.answer.kind = "page"
                                     THEN "commit" ELSE "restart"]
        /\ UNCHANGED <<ingest, manifest, catalog>> /\ UNCHANGED envVars
    BY <1>4 DEF Accept
  <2>2. /\ run' \in Runs /\ run'.pc = "activate" /\ run'.answer = run.answer
        /\ run'.cursor = run.cursor /\ run'.binding = run.binding
        /\ run'.fenced = run.fenced
        /\ run'.op = IF run.answer.kind = "page" THEN "commit" ELSE "restart"
    BY <1>0, <2>1 DEF Runs
  <2>3. RunOK'
    BY <2>1, <2>2 DEF Base, RunSide, RunOK, IsPage, State, envVars
  <2>4. CursorOK' /\ AnswerOK'
    BY <2>1, <2>2 DEF Base, RunSide, CursorOK, AnswerOK, IsPage, envVars
  <2>5. CenterOK'
    BY <1>0, <2>1, CenterKept DEF envVars
  <2>6. EnvOK' /\ JournalsOK'
    BY <2>1 DEF Base, EnvOK, JournalsOK, envVars
  <2> QED
    BY <2>2, <2>3, <2>4, <2>5, <2>6 DEF Base, RunSide
<1>5. ASSUME Refuse \/ Abort PROVE Base'
  <2>1. run' = Idle /\ UNCHANGED <<ingest, manifest, catalog>> /\ UNCHANGED envVars
    BY <1>5 DEF Refuse, Abort, EndRun
  <2>2. RunSide'
    BY <2>1, RunEnds DEF envVars
  <2>3. CenterOK'
    BY <1>0, <2>1, CenterKept DEF envVars
  <2>4. EnvOK' /\ JournalsOK'
    BY <2>1 DEF Base, EnvOK, JournalsOK, envVars
  <2> QED
    BY <2>2, <2>3, <2>4 DEF Base
<1>6. ASSUME ServePending PROVE Base'
  <2>1. PICK J \in Namespaces(agreed) : \E a \in Answers(J, run.cursor) :
             /\ Waiting /\ run.cursor # None /\ JournalOK(J)
             /\ journals' = [journals EXCEPT ![agreed] = J] /\ Answer(a)
             /\ UNCHANGED <<ingest, manifest, catalog, local, agreed, purge, calm>>
    BY <1>6, PendingServes
  <2>2. J.seq <= J.seq
    BY <2>1, JournalFields DEF JournalOK, Sound
  <2> QED
    BY <2>1, <2>2, ServeBase
<1>7. ASSUME NEW S, ServeScan(S) PROVE Base'
  BY <1>7, ScanServes, ServeBase
<1>8. ASSUME NEW k \in Keys, LocalWrite(k) PROVE Base'
  <2>1. /\ local' = [local EXCEPT ![k] = @ + 1] /\ local[k] + 1 \in Contents
        /\ UNCHANGED centerVars /\ UNCHANGED <<journals, agreed, purge, calm>>
    BY <1>8 DEF LocalWrite, Contents
  <2>2. EnvOK'
    BY <1>0, <2>1 DEF EnvOK
  <2> QED
    BY <2>1, <2>2 DEF Base, JournalsOK, CenterOK, StoreOK, ReadyOK, PositionsOK, RunSide,
              RunOK, CursorOK, AnswerOK, IsPage, State, centerVars
<1>9. ASSUME NEW b \in Bindings, SweepRevision(b) PROVE Base'
  <2>1. /\ journals' = [journals EXCEPT ![b] = None]
        /\ UNCHANGED centerVars /\ UNCHANGED <<local, agreed, purge, calm>>
    BY <1>9 DEF SweepRevision
  <2>2. journals'[b] = None /\ \A c \in Bindings \ {b} : journals'[c] = journals[c]
    BY <1>0, <2>1 DEF EnvOK
  <2>3. EnvOK'
    BY <1>0, <2>1 DEF EnvOK
  <2>4. JournalsOK' /\ CenterOK'
    BY <2>1, <2>2 DEF Base, JournalsOK, CenterOK, StoreOK, ReadyOK, PositionsOK, State,
                      centerVars
  <2>5. UNCHANGED <<ingest, run, purge>>
    BY <2>1 DEF centerVars
  <2>6. run.pc # "idle" => journals'[run.binding] \in {None, journals[run.binding]}
    BY <2>2 DEF Base, RunSide, RunOK
  <2>7. IsPage => run.pc # "idle"
    BY IdleRun DEF Base, RunSide, RunOK, IsPage
  <2>8. RunOK'
    BY <2>5 DEF Base, RunSide, RunOK, IsPage, State
  <2>9. CursorOK' /\ AnswerOK'
    BY <2>5, <2>6, <2>7 DEF Base, RunSide, CursorOK, AnswerOK, IsPage
  <2> QED
    BY <1>0, <2>3, <2>4, <2>5, <2>8, <2>9 DEF Base, RunSide
<1>10. ASSUME NEW b \in Bindings, SwitchBinding(b) PROVE Base'
  BY <1>10 DEF SwitchBinding, Base, EnvOK, JournalsOK, CenterOK, StoreOK, ReadyOK,
       PositionsOK, RunSide, RunOK, CursorOK, AnswerOK, IsPage, State, centerVars
<1>11. ASSUME ClaimPurge PROVE Base'
  <2>1. /\ run.pc \in {"idle", "request", "answered"}
        /\ run' = IF run.pc = "idle" THEN run ELSE [run EXCEPT !.fenced = TRUE]
        /\ purge' = "claimed"
        /\ UNCHANGED <<ingest, manifest, catalog, local, journals, agreed, calm>>
    BY <1>11 DEF ClaimPurge
  <2>2. /\ run' \in Runs /\ run'.pc = run.pc /\ run'.answer = run.answer
        /\ run'.cursor = run.cursor /\ run'.binding = run.binding
        /\ run'.op = run.op /\ run'.hgen = run.hgen
        /\ run.pc # "idle" => run'.fenced = TRUE
        /\ run.pc = "idle" => run' = run
    BY <1>0, <2>1 DEF Runs
  <2>3. RunOK'
    BY <2>1, <2>2 DEF Base, RunSide, RunOK, IsPage, State
  <2>4. CursorOK' /\ AnswerOK'
    BY <2>1, <2>2 DEF Base, RunSide, CursorOK, AnswerOK, IsPage
  <2>5. CenterOK'
    BY <1>0, <2>1, CenterKept
  <2>6. EnvOK' /\ JournalsOK'
    BY <2>1 DEF Base, EnvOK, JournalsOK
  <2> QED
    BY <2>2, <2>3, <2>4, <2>5, <2>6 DEF Base, RunSide
<1>12. ASSUME PurgeIngest PROVE Base'
  <2>1. /\ purge = "claimed" /\ purge' = "cleared" /\ ingest' = [b \in Bindings |-> None]
        /\ UNCHANGED <<manifest, catalog, run, local, journals, agreed, calm>>
    BY <1>12 DEF PurgeIngest
  <2>2. run.pc # "idle" => run.fenced
    BY <2>1 DEF Base, RunSide, RunOK
  <2>3. RunOK'
    BY <2>1, <2>2 DEF Base, RunSide, RunOK, IsPage, State
  <2>4. CursorOK' /\ AnswerOK'
    BY <2>1 DEF Base, RunSide, CursorOK, AnswerOK, IsPage
  <2>5. CenterOK'
    BY <2>1 DEF Base, CenterOK, StoreOK, ReadyOK, PositionsOK, State
  <2>6. EnvOK' /\ JournalsOK'
    BY <2>1 DEF Base, EnvOK, JournalsOK
  <2> QED
    BY <1>0, <2>1, <2>3, <2>4, <2>5, <2>6 DEF Base, RunSide
<1>13. ASSUME PurgeHistory PROVE Base'
  <2>1. /\ purge = "cleared" /\ purge' = "none" /\ manifest' = None
        /\ catalog' = Without(catalog, DOMAIN catalog)
        /\ UNCHANGED <<ingest, run, local, journals, agreed, calm>>
    BY <1>13 DEF PurgeHistory
  <2>2. run.pc # "idle" => run.fenced
    BY <2>1 DEF Base, RunSide, RunOK
  <2>3. RunOK'
    BY <2>1, <2>2 DEF Base, RunSide, RunOK, IsPage, State
  <2>4. CursorOK' /\ AnswerOK'
    BY <2>1 DEF Base, RunSide, CursorOK, AnswerOK, IsPage
  <2>5. StoreOK'
    <3>1. /\ DOMAIN catalog' \subseteq HistGens
          /\ catalog' \in [DOMAIN catalog' -> Generations]
      BY <1>0, <2>1, WithoutType
    <3> QED
      BY <2>1, <3>1 DEF Base, CenterOK, StoreOK
  <2>6. CenterOK'
    BY <2>1, <2>5 DEF Base, CenterOK, ReadyOK, PositionsOK, State
  <2>7. EnvOK' /\ JournalsOK'
    BY <2>1 DEF Base, EnvOK, JournalsOK
  <2> QED
    BY <1>0, <2>1, <2>3, <2>4, <2>6, <2>7 DEF Base, RunSide
<1>14. ASSUME Settle PROVE Base'
  BY <1>14 DEF Settle, Base, EnvOK, JournalsOK, CenterOK, StoreOK, ReadyOK,
       PositionsOK, RunSide, RunOK, CursorOK, AnswerOK, IsPage, State, centerVars
<1> QED
  BY <1>1, <1>2, <1>3, <1>4, <1>5, <1>6, <1>7, <1>8, <1>9, <1>10, <1>11, <1>12, <1>13,
     <1>14 DEF Next, Progress, Environment

\* The type invariant follows.
LEMMA BaseTypes == Base => TypeOK
<1> SUFFICES ASSUME Base PROVE TypeOK
  OBVIOUS
<1>1. \A b \in Bindings : journals[b] # None =>
          IsJournal(journals[b]) /\ journals[b].gen \in JournalGens
  BY DEF Base, JournalsOK, JournalOK, Sound
<1>2. ASSUME NEW b \in Bindings, journals[b] # None, run.cursor # None,
             run.binding = b, run.cursor.gen = journals[b].gen
      PROVE  run.cursor.seq <= journals[b].seq
  <2>1. run.pc # "idle"
    BY <1>2, IdleRun DEF Base, RunSide, RunOK
  <2> QED
    BY <1>2, <2>1 DEF Base, RunSide, CursorOK, Behind
<1> QED
  BY <1>1, <1>2 DEF Base, EnvOK, CenterOK, StoreOK, RunSide, TypeOK

\* TypeOK holds, with and without fairness: what is stored and what a run has
\* in memory keeps its shape, and no run asks with a cursor that is ahead of
\* the journal it points into (read_page would answer it with an error for ever).
THEOREM SyncTypeCorrect == (Spec \/ FairSpec) => []TypeOK
<1>1. Init => Base
  BY BaseInit
<1>2. Base /\ [Next \/ Settle]_syncVars => Base'
  BY BaseNext
<1>3. [Next]_syncVars => [Next \/ Settle]_syncVars
  OBVIOUS
<1> QED
  BY <1>1, <1>2, <1>3, BaseTypes, PTL DEF Spec, FairSpec

-----------------------------------------------------------------------------
(***************************************************************************)
(* Who refers to which history generation.                                 *)
(***************************************************************************)

\* The generation S has readers of, the one it fills, the one its bootstrap
\* was started against.
Reads(S) == IF S.active = None THEN {} ELSE {S.active.hgen}

Fills(S) == IF S.boot = None THEN {} ELSE {S.boot.hgen}

Awaits(S) == IF S.boot = None THEN {} ELSE Selected(S.boot.expected)

Held(S) == Reads(S) \cup Awaits(S) \cup S.retired

\* A generation that a bootstrap fills is in no other use, whatever the binding.
Exclusive ==
    \A b \in Bindings : State(b) # None =>
        /\ Fills(State(b)) \cap Selected(manifest) = {}
        /\ State(b).active = None => State(b).retired \cap Selected(manifest) = {}
        /\ \A c \in Bindings : State(c) # None =>
              /\ Fills(State(b)) \cap Held(State(c)) = {}
              /\ b # c => /\ Fills(State(b)) \cap Fills(State(c)) = {}
                          /\ Reads(State(b)) \cap Reads(State(c)) = {}

\* The generation that create_fresh_bootstrap has made and not yet published.
PublishOK ==
    run.pc = "publish" =>
        /\ run.hgen \in DOMAIN catalog /\ catalog[run.hgen].rows = EmptyRows
        /\ run.hgen \notin Selected(manifest)
        /\ \A b \in Bindings : State(b) # None =>
              run.hgen \notin Fills(State(b)) \cup Held(State(b))
        /\ State(run.binding).active # None =>
              manifest = [hgen |-> State(run.binding).active.hgen,
                          binding |-> run.binding]

Refs == ReferencesHold /\ Exclusive /\ PublishOK

\* What a state refers to.
LEMMA LiveParts ==
    ASSUME NEW S
    PROVE  LiveGenerations(S) = Reads(S) \cup Fills(S) \cup Awaits(S)
BY DEF LiveGenerations, Reads, Fills, Awaits, Selected

\* The state of one binding is replaced.
LEMMA OneState ==
    ASSUME StoreOK, NEW b \in Bindings, NEW T, ingest' = [ingest EXCEPT ![b] = T]
    PROVE  State(b)' = T /\ \A c \in Bindings \ {b} : State(c)' = State(c)
BY DEF StoreOK, State

\* No reference changes.
LEMMA RefsKept ==
    ASSUME Refs, UNCHANGED manifest, run'.pc # "publish",
           \A b \in Bindings : State(b)' # None =>
              /\ State(b) # None
              /\ (State(b)'.active = None) = (State(b).active = None)
              /\ Reads(State(b))' = Reads(State(b))
              /\ Fills(State(b))' = Fills(State(b))
              /\ Awaits(State(b))' = Awaits(State(b))
              /\ State(b)'.retired \subseteq State(b).retired,
           Selected(manifest) \subseteq DOMAIN catalog',
           \A b \in Bindings : State(b) # None =>
              LiveGenerations(State(b)) \subseteq DOMAIN catalog'
    PROVE  Refs'
<1>1. PublishOK'
  BY DEF PublishOK
<1>2. \A b \in Bindings : State(b)' # None =>
        /\ State(b) # None
        /\ LiveGenerations(State(b))' = LiveGenerations(State(b))
        /\ Held(State(b))' \subseteq Held(State(b))
        /\ State(b)'.retired \subseteq State(b).retired
  BY LiveParts DEF Held
<1>3. ReferencesHold'
  BY <1>2 DEF Refs, ReferencesHold
<1>4. Exclusive'
  BY <1>2 DEF Refs, Exclusive
<1> QED
  BY <1>1, <1>3, <1>4 DEF Refs

\* A bootstrap becomes the active generation.
LEMMA RefsActivate ==
    ASSUME Base, Refs, InPhase, Activate, run'.pc # "publish"
    PROVE  Refs'
<1>0. PICK b \in Bindings : b = run.binding
  BY PhaseFacts
<1> DEFINE S == State(b)
           T(gone) == [active |-> [hgen |-> S.boot.hgen, cursor |-> S.boot.cursor],
                       boot |-> None,
                       retired |-> (S.retired \cup Selected(S.boot.expected)) \ gone]
<1>1. S # None /\ StoreOK
  BY <1>0, PhaseFacts DEF Base, CenterOK
<1>2. PICK gone \in SUBSET Selected(S.boot.expected) :
           /\ ingest' = [ingest EXCEPT ![b] = T(gone)]
           /\ catalog' = Without(catalog, gone)
           /\ \A g \in gone :
                /\ g # S.boot.hgen
                /\ \A c \in Bindings \ {b} :
                      State(c) # None => g \notin LiveGenerations(State(c))
  BY <1>0, ActivateEffect
<1>3. /\ S.boot # None /\ S.boot.ready /\ manifest = S.boot.expected
      /\ S.boot.hgen \in DOMAIN catalog
      /\ manifest' = [hgen |-> S.boot.hgen, binding |-> b]
  BY <1>0, ActivateEffect
<1>4. /\ S.boot.hgen \in HistGens /\ S.boot.cursor \in Cursors
  BY <1>1, <1>3, StateFields DEF Base, CenterOK, ReadyOK
<1>5. [hgen |-> S.boot.hgen, cursor |-> S.boot.cursor] \in Actives
  BY <1>4 DEF Actives
<1>6. manifest' \in Manifests
  BY <1>1, <1>3, <1>4 DEF Manifests
<1>7. /\ T(gone).active # None /\ T(gone).boot = None
      /\ T(gone).retired = (S.retired \cup Selected(manifest)) \ gone
      /\ Reads(T(gone)) = {S.boot.hgen} /\ Fills(T(gone)) = {} /\ Awaits(T(gone)) = {}
      /\ Fills(S) = {S.boot.hgen} /\ Awaits(S) = Selected(manifest)
  BY <1>3, <1>5, NoneAssumption DEF NoneAssumption, Reads, Fills, Awaits
<1>8. Selected(manifest') = {S.boot.hgen}
  BY <1>3, <1>6, NoneAssumption DEF NoneAssumption, Selected
<1>9. DOMAIN catalog' = DOMAIN catalog \ gone
  BY <1>1, <1>2, WithoutType
<1>10. State(b)' = T(gone) /\ \A c \in Bindings \ {b} : State(c)' = State(c)
  BY <1>1, <1>2, OneState
<1>11. gone \subseteq Selected(manifest)
  BY <1>2, <1>3
<1>12. Selected(manifest)' = {S.boot.hgen}
  BY <1>8 DEF Selected
<1> DEFINE U == T(gone)
<1>13. /\ State(b)' = U /\ Reads(U) = {S.boot.hgen} /\ Fills(U) = {} /\ Awaits(U) = {}
       /\ U.retired = (S.retired \cup Selected(manifest)) \ gone /\ U.active # None
  BY <1>7, <1>10
<1> HIDE DEF U, T, S
<1>14. ReferencesHold'
  <2>1. Selected(manifest)' \subseteq DOMAIN catalog'
    BY <1>2, <1>3, <1>9, <1>12
  <2>2. ASSUME NEW c \in Bindings, State(c)' # None
        PROVE  /\ LiveGenerations(State(c)') \subseteq DOMAIN catalog'
               /\ State(c)'.retired \cap LiveGenerations(State(c)') = {}
    <3>1. CASE c = b
      <4>1. LiveGenerations(U) = {S.boot.hgen}
        BY <1>13, LiveParts
      <4>2. S.retired \cap {S.boot.hgen} = {} /\ Selected(manifest) \cap {S.boot.hgen} = {}
        BY <1>1, <1>7 DEF Refs, Exclusive, Held, S
      <4> QED
        BY <1>2, <1>3, <1>9, <1>13, <3>1, <4>1, <4>2
    <3>2. CASE c # b
      BY <1>2, <1>9, <1>10, <2>2, <3>2 DEF Refs, ReferencesHold
    <3> QED
      BY <3>1, <3>2
  <2> QED
    BY <2>1, <2>2 DEF ReferencesHold
<1>15. Exclusive'
  <2> SUFFICES ASSUME NEW x \in Bindings, State(x)' # None
               PROVE  /\ Fills(State(x)') \cap Selected(manifest)' = {}
                      /\ State(x)'.active = None =>
                            State(x)'.retired \cap Selected(manifest)' = {}
                      /\ \A c \in Bindings : State(c)' # None =>
                           /\ Fills(State(x)') \cap Held(State(c)') = {}
                           /\ x # c => /\ Fills(State(x)') \cap Fills(State(c)') = {}
                                       /\ Reads(State(x)') \cap Reads(State(c)') = {}
    BY DEF Exclusive
  <2>0. /\ Held(U) = {S.boot.hgen} \cup ((S.retired \cup Selected(manifest)) \ gone)
        /\ Held(S) = Reads(S) \cup Selected(manifest) \cup S.retired
        /\ S = State(b) /\ S # None /\ b \in Bindings
    BY <1>1, <1>7, <1>13 DEF Held, S
  <2>1. CASE x = b
    <3>1. ASSUME NEW c \in Bindings, State(c)' # None, c # b
          PROVE  Reads(U) \cap Reads(State(c)') = {}
      <4>1. State(c)' = State(c) /\ State(c) # None
        BY <1>10, <3>1
      <4>2. Fills(S) \cap Reads(State(c)) = {}
        BY <2>0, <3>1, <4>1 DEF Refs, Exclusive, Held
      <4> QED
        BY <1>7, <1>13, <4>1, <4>2
    <3> QED
      BY <1>13, <2>1, <3>1
  <2>2. CASE x # b
    <3>1. State(x)' = State(x) /\ State(x) # None
      BY <1>10, <2>2
    <3>2. /\ Fills(State(x)) \cap Fills(S) = {} /\ Fills(State(x)) \cap Held(S) = {}
          /\ Fills(S) \cap Held(State(x)) = {}
      BY <2>0, <2>2, <3>1 DEF Refs, Exclusive
    <3>3. /\ Fills(State(x)) \cap Selected(manifest)' = {}
          /\ State(x).retired \cap Selected(manifest)' = {}
          /\ Reads(State(x)) \cap Reads(U) = {}
          /\ Fills(State(x)) \cap Held(U) = {}
      BY <1>7, <1>12, <1>13, <2>0, <3>2 DEF Held
    <3>4. ASSUME NEW c \in Bindings, State(c)' # None
          PROVE  /\ Fills(State(x)) \cap Held(State(c)') = {}
                 /\ x # c => /\ Fills(State(x)) \cap Fills(State(c)') = {}
                             /\ Reads(State(x)) \cap Reads(State(c)') = {}
      <4>1. CASE c = b
        BY <1>13, <3>3, <4>1
      <4>2. CASE c # b
        BY <1>10, <3>1, <3>4, <4>2 DEF Refs, Exclusive
      <4> QED
        BY <4>1, <4>2
    <3> QED
      BY <3>1, <3>3, <3>4
  <2> QED
    BY <2>1, <2>2
<1> QED
  BY <1>14, <1>15 DEF Refs, PublishOK

\* A fresh bootstrap is published.
LEMMA RefsPublish ==
    ASSUME Base, Refs, PublishBootstrap
    PROVE  Refs'
<1>0. InPhase /\ run.pc = "publish"
  BY DEF InPhase, PublishBootstrap
<1>a. PICK b \in Bindings : b = run.binding
  BY <1>0, PhaseFacts
<1> DEFINE S == State(b)
           B == [hgen |-> run.hgen, expected |-> manifest, cursor |-> None,
                 ready |-> FALSE]
           old == IF S.boot = None THEN {} ELSE {S.boot.hgen}
           U == [S EXCEPT !.boot = B, !.retired = @ \cup old]
<1>1. S # None /\ StoreOK
  BY <1>0, <1>a, PhaseFacts DEF Base, CenterOK
<1>2. /\ ingest' = [ingest EXCEPT ![b] = U] /\ UNCHANGED <<manifest, catalog>>
      /\ run'.pc = "cleanup"
  <2>1. run \in Runs /\ run' = [run EXCEPT !.pc = "cleanup", !.op = "restarted",
                                         !.hgen = None, !.todo = old]
    BY <1>a DEF PublishBootstrap, Base, RunSide
  <2> QED
    BY <1>a, <2>1 DEF PublishBootstrap, Runs
<1>3. State(b)' = U /\ \A c \in Bindings \ {b} : State(c)' = State(c)
  BY <1>1, <1>2, OneState
<1>4. S \in IngestStates /\ B \in Boots
  <2>1. run.hgen \in HistGens /\ manifest \in Manifests \cup {None}
    BY <1>0, <1>1 DEF Base, RunSide, RunOK, StoreOK
  <2> QED
    BY <1>1, <2>1, StateFields DEF Boots
<1>5. /\ U.active = S.active /\ U.boot = B /\ U.retired = S.retired \cup Fills(S)
  BY <1>4 DEF IngestStates, Fills
<1>6. /\ Reads(U) = Reads(S) /\ Fills(U) = {run.hgen} /\ Awaits(U) = Selected(manifest)
  <2>1. B # None /\ B.hgen = run.hgen /\ B.expected = manifest
    BY <1>4, NoneAssumption DEF NoneAssumption
  <2> HIDE DEF U, B, S
  <2> QED
    BY <1>5, <2>1 DEF Reads, Fills, Awaits
<1>7. Selected(manifest)' = Selected(manifest) /\ DOMAIN catalog' = DOMAIN catalog
  BY <1>2
<1> DEFINE h == run.hgen
<1>8. /\ h \in DOMAIN catalog /\ h \notin Selected(manifest)
      /\ \A c \in Bindings : State(c) # None => h \notin Fills(State(c)) \cup Held(State(c))
      /\ S.active # None => Selected(manifest) = Reads(S)
  <2>1. S.active # None => manifest = [hgen |-> S.active.hgen, binding |-> b]
    BY <1>0, <1>a DEF Refs, PublishOK
  <2>2. S.active # None => manifest # None
    <3>1. S.active # None => manifest \in Manifests
      BY <1>1, <2>1, StateFields DEF Manifests
    <3> QED
      BY <3>1, NoneAssumption DEF NoneAssumption
  <2> QED
    BY <1>0, <2>1, <2>2 DEF Refs, PublishOK, Selected, Reads
<1> HIDE DEF U, B, old, S, h
<1>9. S = State(b) /\ S # None /\ b \in Bindings
  BY <1>1 DEF S
<1>10. /\ Fills(S) \cap Selected(manifest) = {} /\ Fills(S) \cap Held(S) = {}
       /\ S.active = None => S.retired \cap Selected(manifest) = {}
  BY <1>9 DEF Refs, Exclusive
<1>11. S.retired \cap Selected(manifest) = {}
  <2>1. S.retired \cap Reads(S) = {}
    BY <1>9, LiveParts DEF Refs, ReferencesHold
  <2> QED
    BY <1>8, <1>10, <2>1
<1>12. Held(U) = Reads(S) \cup Selected(manifest) \cup S.retired \cup Fills(S)
  BY <1>5, <1>6 DEF Held
<1>13. ReferencesHold'
  <2>1. ASSUME NEW c \in Bindings, State(c)' # None
        PROVE  /\ LiveGenerations(State(c)') \subseteq DOMAIN catalog'
               /\ State(c)'.retired \cap LiveGenerations(State(c)') = {}
    <3>1. CASE c = b
      <4>1. LiveGenerations(U) = Reads(S) \cup {h} \cup Selected(manifest)
        BY <1>6, LiveParts DEF h
      <4>2. /\ LiveGenerations(S) \subseteq DOMAIN catalog
            /\ S.retired \cap LiveGenerations(S) = {}
            /\ LiveGenerations(S) = Reads(S) \cup Fills(S) \cup Awaits(S)
        BY <1>9, LiveParts DEF Refs, ReferencesHold
      <4>3. Selected(manifest) \subseteq DOMAIN catalog
        BY DEF Refs, ReferencesHold
      <4>4. h \notin S.retired /\ h \notin Fills(S)
        BY <1>8, <1>9 DEF Held
      <4> QED
        BY <1>3, <1>5, <1>7, <1>8, <1>10, <1>11, <3>1, <4>1, <4>2, <4>3, <4>4 DEF Held
    <3>2. CASE c # b
      BY <1>3, <1>7, <2>1, <3>2 DEF Refs, ReferencesHold
    <3> QED
      BY <3>1, <3>2
  <2> QED
    BY <1>2, <2>1 DEF Refs, ReferencesHold
<1>14. Exclusive'
  <2> SUFFICES ASSUME NEW x \in Bindings, State(x)' # None
               PROVE  /\ Fills(State(x)') \cap Selected(manifest) = {}
                      /\ State(x)'.active = None =>
                            State(x)'.retired \cap Selected(manifest) = {}
                      /\ \A c \in Bindings : State(c)' # None =>
                           /\ Fills(State(x)') \cap Held(State(c)') = {}
                           /\ x # c => /\ Fills(State(x)') \cap Fills(State(c)') = {}
                                       /\ Reads(State(x)') \cap Reads(State(c)') = {}
    BY <1>7 DEF Exclusive
  <2>1. CASE x = b
    <3>1. ASSUME NEW c \in Bindings, State(c)' # None
          PROVE  /\ {h} \cap Held(State(c)') = {}
                 /\ b # c => /\ {h} \cap Fills(State(c)') = {}
                             /\ Reads(S) \cap Reads(State(c)') = {}
      <4>1. CASE c = b
        BY <1>3, <1>8, <1>9, <1>12, <4>1 DEF Held
      <4>2. CASE c # b
        BY <1>3, <1>8, <1>9, <3>1, <4>2 DEF Refs, Exclusive
      <4> QED
        BY <4>1, <4>2
    <3>2. Fills(U) = {h}
      BY <1>6 DEF h
    <3> QED
      BY <1>3, <1>5, <1>6, <1>8, <1>10, <1>11, <2>1, <3>1, <3>2
  <2>2. CASE x # b
    <3>1. State(x)' = State(x) /\ State(x) # None
      BY <1>3, <2>2
    <3>2. /\ Fills(State(x)) \cap Fills(S) = {} /\ Fills(State(x)) \cap Held(S) = {}
          /\ Fills(State(x)) \cap Selected(manifest) = {}
          /\ Reads(State(x)) \cap Reads(S) = {}
      BY <1>9, <2>2, <3>1 DEF Refs, Exclusive
    <3>3. Fills(State(x)) \cap Held(U) = {}
      BY <1>12, <3>2 DEF Held
    <3>4. Fills(State(x)) \cap Fills(U) = {} /\ Reads(State(x)) \cap Reads(U) = {}
      BY <1>6, <1>8, <3>1, <3>2 DEF h
    <3>5. ASSUME NEW c \in Bindings, State(c)' # None
          PROVE  /\ Fills(State(x)) \cap Held(State(c)') = {}
                 /\ x # c => /\ Fills(State(x)) \cap Fills(State(c)') = {}
                             /\ Reads(State(x)) \cap Reads(State(c)') = {}
      <4>1. CASE c = b
        BY <1>3, <3>3, <3>4, <4>1
      <4>2. CASE c # b
        BY <1>3, <3>1, <3>5, <4>2 DEF Refs, Exclusive
      <4> QED
        BY <4>1, <4>2
    <3> QED
      BY <3>1, <3>2, <3>5 DEF Refs, Exclusive
  <2> QED
    BY <2>1, <2>2
<1> QED
  BY <1>2, <1>13, <1>14 DEF Refs, PublishOK

\* Nothing but rows and the run changes.
LEMMA RefsSame ==
    ASSUME Refs, UNCHANGED <<ingest, manifest>>, DOMAIN catalog \subseteq DOMAIN catalog',
           run'.pc # "publish"
    PROVE  Refs'
<1>1. \A b \in Bindings : State(b)' = State(b)
  BY DEF State
<1>2. /\ Selected(manifest) \subseteq DOMAIN catalog'
      /\ \A b \in Bindings : State(b) # None =>
            LiveGenerations(State(b)) \subseteq DOMAIN catalog'
  BY DEF Refs, ReferencesHold
<1> QED
  BY <1>1, <1>2, RefsKept

\* Only generations that nothing refers to are deleted.
LEMMA RefsDelete ==
    ASSUME Base, Refs, UNCHANGED <<ingest, manifest>>, run'.pc # "publish",
           NEW gone, \A g \in gone : Collectable(g, ingest, manifest),
           catalog' = Without(catalog, gone)
    PROVE  Refs'
<1>1. \A b \in Bindings : State(b)' = State(b)
  BY DEF State
<1>2. DOMAIN catalog' = DOMAIN catalog \ gone
  BY WithoutType DEF Base, CenterOK
<1>3. gone \cap Selected(manifest) = {}
  BY DEF Collectable
<1>4. \A b \in Bindings : State(b) # None => gone \cap LiveGenerations(State(b)) = {}
  BY DEF Collectable, Protected, State
<1>5. /\ Selected(manifest) \subseteq DOMAIN catalog'
      /\ \A b \in Bindings : State(b) # None =>
            LiveGenerations(State(b)) \subseteq DOMAIN catalog'
  BY <1>2, <1>3, <1>4 DEF Refs, ReferencesHold
<1> QED
  BY <1>1, <1>5, RefsKept

\* The state of one binding changes, but not what it refers to.
LEMMA RefsRepositioned ==
    ASSUME Base, Refs, UNCHANGED manifest, run'.pc # "publish",
           NEW b \in Bindings, State(b) # None, NEW T,
           ingest' = [ingest EXCEPT ![b] = T],
           Reads(T) = Reads(State(b)), Fills(T) = Fills(State(b)),
           Awaits(T) = Awaits(State(b)), T.retired \subseteq State(b).retired,
           (T.active = None) = (State(b).active = None),
           DOMAIN catalog \subseteq DOMAIN catalog'
    PROVE  Refs'
<1>1. State(b)' = T /\ \A c \in Bindings \ {b} : State(c)' = State(c)
  BY OneState DEF Base, CenterOK
<1>2. /\ Selected(manifest) \subseteq DOMAIN catalog'
      /\ \A c \in Bindings : State(c) # None =>
            LiveGenerations(State(c)) \subseteq DOMAIN catalog'
  BY DEF Refs, ReferencesHold
<1>3. ASSUME NEW c \in Bindings, State(c)' # None
      PROVE  /\ State(c) # None /\ (State(c)'.active = None) = (State(c).active = None)
             /\ Reads(State(c))' = Reads(State(c))
             /\ Fills(State(c))' = Fills(State(c))
             /\ Awaits(State(c))' = Awaits(State(c))
             /\ State(c)'.retired \subseteq State(c).retired
  <2>1. CASE c = b
    BY <1>1, <2>1
  <2>2. CASE c # b
    BY <1>1, <1>3, <2>2
  <2> QED
    BY <2>1, <2>2
<1> QED
  BY <1>2, <1>3, RefsKept

\* Every step of an open phase keeps the references.
LEMMA RefsPhase ==
    ASSUME Base, Refs, PhaseStep, UNCHANGED envVars
    PROVE  Refs'
<1>1. run \in Runs /\ StoreOK
  BY DEF Base, CenterOK, RunSide
<1>2. InPhase
  BY DEF PhaseStep, RecoverActivate, RecoverSkip, RecoverRefused, BeginRetry, Collect,
         Forget, Sweep, ReturnPosition, EnsureGeneration, WantsBootstrap,
         PublishBootstrap, BootstrapReady, RefuseMoved, RefuseBootstrap, RefusePage,
         ApplyStagedPage, ApplyActivePage, AtPage, FinishActivate, FinishSkip, InPhase
<1>3. PICK b \in Bindings : b = run.binding /\ State(b) # None
  BY <1>2, PhaseFacts
<1> DEFINE S == State(b)
<1>4. S \in IngestStates
  BY <1>1, <1>3, StateFields
<1>5. ASSUME EndRun PROVE Refs'
  BY <1>5, IdleRun, RefsSame DEF EndRun
<1>6. ASSUME RecoverActivate PROVE Refs'
  <2>1. Activate /\ run'.pc = "retry"
    BY <1>1, <1>6 DEF RecoverActivate, Runs
  <2> QED
    BY <1>2, <2>1, RefsActivate
<1>7. ASSUME RecoverSkip \/ BeginRetry \/ ReturnPosition PROVE Refs'
  <2>1. /\ UNCHANGED <<ingest, manifest, catalog>>
        /\ run'.pc \in {"retry", "cleanup", "request"}
    BY <1>1, <1>7 DEF RecoverSkip, BeginRetry, ReturnPosition, Runs
  <2> QED
    BY <2>1, RefsSame
<1>9. ASSUME NEW g \in HistGens, Collect(g) PROVE Refs'
  <2>1. run.pc = "cleanup" /\ UNCHANGED <<ingest, manifest>>
    BY <1>9 DEF Collect
  <2>2. CASE Collectable(g, ingest, manifest)
    <3>1. catalog' = Without(catalog, {g}) /\ run'.pc = "forget"
      BY <1>1, <1>9, <2>2 DEF Collect, Runs
    <3> QED
      BY <2>1, <2>2, <3>1, RefsDelete
  <2>3. CASE ~Collectable(g, ingest, manifest)
    <3>1. catalog' = catalog /\ run'.pc = "cleanup"
      BY <1>1, <1>9, <2>1, <2>3 DEF Collect, Runs
    <3> QED
      BY <2>1, <3>1, RefsSame
  <2> QED
    BY <2>2, <2>3
<1>10. ASSUME Forget PROVE Refs'
  <2> DEFINE T == [S EXCEPT !.retired = @ \ {run.hgen}]
  <2>1. /\ ingest' = [ingest EXCEPT ![b] = T] /\ UNCHANGED <<manifest, catalog>>
        /\ run'.pc = "cleanup"
    BY <1>1, <1>3, <1>10 DEF Forget, State, Runs
  <2>2. /\ T.boot = S.boot /\ T.active = S.active /\ T.retired \subseteq S.retired
    BY <1>4 DEF IngestStates
  <2> HIDE DEF T
  <2>3. Reads(T) = Reads(S) /\ Fills(T) = Fills(S) /\ Awaits(T) = Awaits(S)
    BY <2>2 DEF Reads, Fills, Awaits
  <2> QED
    BY <1>3, <2>1, <2>2, <2>3, RefsRepositioned
<1>11. ASSUME Sweep PROVE Refs'
  <2>1. PICK T : /\ \A g \in T : Collectable(g, ingest, manifest)
                 /\ catalog' = Without(catalog, T)
    BY <1>11 DEF Sweep
  <2>2. UNCHANGED <<ingest, manifest>> /\ run'.pc = "decide"
    BY <1>1, <1>11 DEF Sweep, Runs
  <2> QED
    BY <2>1, <2>2, RefsDelete
<1>13. ASSUME EnsureGeneration PROVE Refs'
  <2>1. PICK g \in Unused :
          /\ catalog' = [x \in DOMAIN catalog \cup {g} |->
                           IF x = g THEN [binding |-> run.binding, rows |-> EmptyRows]
                           ELSE catalog[x]]
          /\ run' = [run EXCEPT !.pc = "publish", !.hgen = g]
          /\ UNCHANGED <<ingest, manifest>>
    BY <1>13, EnsureEffect
  <2>2. /\ DOMAIN catalog' = DOMAIN catalog \cup {g} /\ catalog'[g].rows = EmptyRows
        /\ run'.hgen = g /\ run'.binding = b
    BY <1>1, <1>3, <2>1 DEF Runs
  <2>3. \A c \in Bindings : State(c)' = State(c)
    BY <2>1 DEF State
  <2>4. ReferencesHold' /\ Exclusive'
    BY <2>1, <2>2, <2>3 DEF Refs, ReferencesHold, Exclusive
  <2>5. /\ g \notin Selected(manifest)
        /\ \A c \in Bindings : State(c) # None =>
              g \notin State(c).retired \cup LiveGenerations(State(c))
    BY <2>1 DEF Unused
  <2>6. \A c \in Bindings : State(c) # None => g \notin Fills(State(c)) \cup Held(State(c))
    BY <2>5, LiveParts DEF Held
  <2>7. S.active # None => manifest = [hgen |-> S.active.hgen, binding |-> b]
    BY <1>3, <1>13 DEF EnsureGeneration, MayBootstrap
  <2>8. PublishOK'
    <3>1. /\ g \in DOMAIN catalog' /\ catalog'[g].rows = EmptyRows
          /\ g \notin Selected(manifest)' /\ manifest' = manifest
          /\ \A c \in Bindings : State(c)' # None =>
                g \notin Fills(State(c)') \cup Held(State(c)')
          /\ State(b)' = S
      BY <2>1, <2>2, <2>3, <2>5, <2>6
    <3> QED
      BY <2>2, <2>7, <3>1 DEF PublishOK, State
  <2> QED
    BY <2>4, <2>8 DEF Refs
<1>14. ASSUME PublishBootstrap PROVE Refs'
  BY <1>14, RefsPublish
<1>15. ASSUME BootstrapReady PROVE Refs'
  <2>1. UNCHANGED <<ingest, manifest, catalog>> /\ run'.pc \in {"request", "idle"}
    BY <1>1, <1>15, IdleRun DEF BootstrapReady, Runs
  <2> QED
    BY <2>1, RefsSame
<1>16. ASSUME ApplyStagedPage PROVE Refs'
  <2> DEFINE T == [S EXCEPT !.boot = Staged(S.boot, run.answer)]
  <2>1. /\ S.boot # None /\ UNCHANGED manifest /\ run.op = "commit"
        /\ ingest' = [ingest EXCEPT ![b] = T]
        /\ DOMAIN catalog' = DOMAIN catalog \cup {S.boot.hgen}
        /\ run'.pc = "finish"
    BY <1>1, <1>3, <1>4, <1>16 DEF ApplyStagedPage, AtPage, State, Runs, IngestStates
  <2>2. S.boot \in Boots
    BY <1>1, <1>3, <2>1, StateFields
  <2>3. /\ run.answer.next \in Cursors /\ run.answer.more \in BOOLEAN
    BY <1>2, <2>1, PhaseFacts DEF Responses
  <2>4. /\ Staged(S.boot, run.answer) \in Boots
        /\ Staged(S.boot, run.answer).hgen = S.boot.hgen
        /\ Staged(S.boot, run.answer).expected = S.boot.expected
    BY <2>2, <2>3 DEF Boots, Staged
  <2>5. /\ T.boot = Staged(S.boot, run.answer) /\ T.active = S.active
        /\ T.retired = S.retired /\ T.boot # None
    BY <1>4, <2>4, NoneAssumption DEF NoneAssumption, IngestStates
  <2> HIDE DEF T
  <2>6. Reads(T) = Reads(S) /\ Fills(T) = Fills(S) /\ Awaits(T) = Awaits(S)
    BY <2>1, <2>4, <2>5 DEF Reads, Fills, Awaits
  <2> QED
    BY <1>3, <2>1, <2>5, <2>6, RefsRepositioned
<1>17. ASSUME ApplyActivePage PROVE Refs'
  <2> DEFINE A == [hgen |-> S.active.hgen, cursor |-> run.answer.next]
             T == [S EXCEPT !.active = A]
  <2>1. /\ S.boot = None /\ S.active # None /\ run.op = "commit" /\ UNCHANGED manifest
        /\ ingest' = [ingest EXCEPT ![b] = T]
        /\ DOMAIN catalog' = DOMAIN catalog /\ run'.pc = "finish"
    BY <1>1, <1>3, <1>4, <1>17 DEF ApplyActivePage, AtPage, State, Runs, IngestStates,
                                  StoreOK
  <2>2. run.answer.next \in Cursors /\ S.active.hgen \in HistGens
    BY <1>1, <1>2, <1>3, <2>1, PhaseFacts, StateFields DEF Responses
  <2>3. A # None /\ A.hgen = S.active.hgen
    <3>1. A \in Actives
      BY <2>2 DEF Actives
    <3> QED
      BY <3>1, NoneAssumption DEF NoneAssumption
  <2>4. T.active = A /\ T.boot = S.boot /\ T.retired = S.retired
    BY <1>4 DEF IngestStates
  <2> HIDE DEF T, A
  <2>5. Reads(T) = Reads(S) /\ Fills(T) = Fills(S) /\ Awaits(T) = Awaits(S)
    BY <2>1, <2>3, <2>4 DEF Reads, Fills, Awaits
  <2> QED
    BY <1>3, <2>1, <2>3, <2>4, <2>5, RefsRepositioned
<1>18. Continued.pc # "publish"
  BY IdleRun DEF Continued, Idle
<1>19. ASSUME FinishActivate PROVE Refs'
  BY <1>2, <1>18, <1>19, RefsActivate DEF FinishActivate
<1>20. ASSUME FinishSkip PROVE Refs'
  BY <1>18, <1>20, RefsSame DEF FinishSkip
<1> QED
  BY <1>5, <1>6, <1>7, <1>9, <1>10, <1>11, <1>13, <1>14, <1>15, <1>16,
     <1>17, <1>19, <1>20
  DEF PhaseStep, RecoverRefused, RefuseMoved, RefuseBootstrap, RefusePage

\* Every step keeps the references.
LEMMA RefsNext ==
    ASSUME Base, Refs, [Next \/ Settle]_syncVars
    PROVE  Refs'
<1>0. run \in Runs /\ StoreOK /\ EnvOK
  BY DEF Base, CenterOK, RunSide
<1>1. ASSUME UNCHANGED <<ingest, manifest, catalog, run>> PROVE Refs'
  BY <1>1 DEF Refs, ReferencesHold, Exclusive, PublishOK, State
<1>2. ASSUME Start PROVE Refs'
  <2>1. PICK b \in Bindings : b = agreed
    BY <1>0 DEF EnvOK
  <2> DEFINE T == IF ingest[b] = None THEN NewIngest ELSE ingest[b]
  <2>2. /\ ingest' = [ingest EXCEPT ![b] = T] /\ UNCHANGED <<manifest, catalog>>
        /\ run'.pc = "activate"
    BY <1>2, <2>1 DEF Start, StartRun, Idle
  <2>3. CASE ingest[b] = None
    <3>1. State(b)' = NewIngest /\ \A c \in Bindings \ {b} : State(c)' = State(c)
      BY <1>0, <2>2, <2>3, OneState
    <3>2. /\ Reads(NewIngest) = {} /\ Fills(NewIngest) = {} /\ Awaits(NewIngest) = {}
          /\ NewIngest.retired = {} /\ Held(NewIngest) = {}
          /\ LiveGenerations(NewIngest) = {}
      BY DEF NewIngest, Reads, Fills, Awaits, Held, LiveGenerations
    <3> HIDE DEF T
    <3>3. ReferencesHold'
      <4>1. \A c \in Bindings : State(c)' # None =>
               /\ LiveGenerations(State(c)') \subseteq DOMAIN catalog
               /\ State(c)'.retired \cap LiveGenerations(State(c)') = {}
        BY <3>1, <3>2 DEF Refs, ReferencesHold
      <4> QED
        BY <2>2, <4>1 DEF Refs, ReferencesHold
    <3>4. Exclusive'
      <4>1. ASSUME NEW x \in Bindings, State(x)' # None
            PROVE  /\ Fills(State(x)') \cap Selected(manifest) = {}
                   /\ State(x)'.active = None =>
                        State(x)'.retired \cap Selected(manifest) = {}
        BY <3>1, <3>2, <4>1 DEF Refs, Exclusive
      <4>2. ASSUME NEW x \in Bindings, State(x)' # None, NEW c \in Bindings,
                   State(c)' # None
            PROVE  /\ Fills(State(x)') \cap Held(State(c)') = {}
                   /\ x # c => /\ Fills(State(x)') \cap Fills(State(c)') = {}
                               /\ Reads(State(x)') \cap Reads(State(c)') = {}
        BY <3>1, <3>2, <4>2 DEF Refs, Exclusive
      <4> QED
        BY <2>2, <4>1, <4>2 DEF Exclusive
    <3> QED
      BY <2>2, <3>3, <3>4 DEF Refs, PublishOK
  <2>4. CASE ingest[b] # None
    <3>1. ingest' = ingest
      BY <1>0, <2>2, <2>4 DEF StoreOK
    <3> QED
      BY <2>2, <3>1, RefsSame
  <2> QED
    BY <2>3, <2>4
<1>3. ASSUME Phase PROVE Refs'
  BY <1>3, RefsPhase DEF Phase
<1>4. ASSUME Accept \/ Refuse \/ Abort \/ ServePending \/ (\E S : ServeScan(S))
             \/ ClaimPurge
      PROVE  Refs'
  <2>1. UNCHANGED <<ingest, manifest, catalog>>
    BY <1>4 DEF Accept, Refuse, Abort, EndRun, ServePending, ServeScan, ClaimPurge
  <2>2. run'.pc \in {"activate", "idle", "answered", "request"}
    BY <1>0, <1>4, IdleRun DEF Accept, Refuse, Abort, EndRun, ServePending, ServeScan,
         ClaimPurge, Answer, Runs
  <2> QED
    BY <2>1, <2>2, RefsSame
<1>5. ASSUME PurgeIngest PROVE Refs'
  <2>1. /\ \A b \in Bindings : State(b)' = None
        /\ UNCHANGED <<manifest, catalog, run>> /\ purge = "claimed"
    BY <1>5 DEF PurgeIngest, State
  <2>2. run.pc # "publish"
    BY <2>1 DEF Base, RunSide, RunOK
  <2> QED
    BY <2>1, <2>2 DEF Refs, ReferencesHold, Exclusive, PublishOK
<1>6. ASSUME PurgeHistory PROVE Refs'
  <2>1. purge = "cleared" /\ manifest' = None /\ UNCHANGED <<ingest, run>>
    BY <1>6 DEF PurgeHistory
  <2>2. \A b \in Bindings : State(b)' = None
    BY <2>1 DEF Base, RunSide, RunOK, State
  <2>3. run.pc # "publish"
    BY <2>1 DEF Base, RunSide, RunOK
  <2>4. Selected(manifest)' = {}
    BY <2>1 DEF Selected
  <2> QED
    BY <2>1, <2>2, <2>3, <2>4 DEF Refs, ReferencesHold, Exclusive, PublishOK
<1> QED
  BY <1>1, <1>2, <1>3, <1>4, <1>5, <1>6
  DEF Next, Progress, Environment, LocalWrite, SweepRevision, SwitchBinding, Settle,
      centerVars, syncVars

\* Nothing is referred to in the initial state.
LEMMA RefsInit ==
    ASSUME Init
    PROVE  Refs
<1>1. \A b \in Bindings : State(b) = None
  BY DEF Init, State
<1>2. Selected(manifest) = {} /\ run.pc = "idle"
  BY DEF Init, Selected, Idle
<1> QED
  BY <1>1, <1>2 DEF Refs, ReferencesHold, Exclusive, PublishOK

\* ReferencesHold: no generation is deleted while the manifest selects it or
\* the ingest state of any binding reads, fills or expects it, whatever the
\* bindings the two ends go through and wherever a run dies.
THEOREM ReferencesSafe == (Spec \/ FairSpec) => []ReferencesHold
<1>1. Init => Base /\ Refs
  BY BaseInit, RefsInit
<1>2. Base /\ Refs /\ [Next \/ Settle]_syncVars => (Base /\ Refs)'
  BY BaseNext, RefsNext
<1>3. [Next]_syncVars => [Next \/ Settle]_syncVars
  OBVIOUS
<1>4. Refs => ReferencesHold
  BY DEF Refs
<1> QED
  BY <1>1, <1>2, <1>3, <1>4, PTL DEF Spec, FairSpec

-----------------------------------------------------------------------------
(***************************************************************************)
(* What the generations hold.                                              *)
(***************************************************************************)

\* The rows are what the entries of J in (lo, n] say.
Holds(rows, J, lo, n) == \A k \in Keys : rows[k] = Replay(J, lo, n, k)

\* An active generation that follows J holds all of J up to its cursor.
ActiveExact(A, J, rows) ==
    A.cursor.gen = J.gen => A.cursor.seq <= J.seq /\ Holds(rows, J, 0, A.cursor.seq)

\* A generation being filled from J holds what J says between the floor it
\* started at and its cursor; once it is complete, all of J up to its cursor.
BootExact(B, J, rows) ==
    B.cursor # None /\ B.cursor.gen = J.gen =>
        /\ B.cursor.seq <= J.seq
        /\ \E lo \in 0..J.floor : lo <= B.cursor.seq /\ Holds(rows, J, lo, B.cursor.seq)
        /\ B.ready => Holds(rows, J, 0, B.cursor.seq)

StateExact(S, J, cat) ==
    /\ S.active # None => ActiveExact(S.active, J, cat[S.active.hgen].rows)
    /\ S.boot # None => BootExact(S.boot, J, cat[S.boot.hgen].rows)

\* A generation nothing has been applied to is empty.
StateFresh(S, cat) ==
    S.boot # None /\ S.boot.cursor = None => cat[S.boot.hgen].rows = EmptyRows

Exact ==
    \A b \in Bindings : State(b) # None =>
        /\ journals[b] # None => StateExact(State(b), journals[b], catalog)
        /\ StateFresh(State(b), catalog)

\* A journal that continues keeps what was read from it.
LEMMA StateExtends ==
    ASSUME NEW S \in IngestStates, NEW J, NEW K, JournalOK(J), JournalOK(K),
           Extends(J, K), NEW cat, StateExact(S, J, cat)
    PROVE  StateExact(S, K, cat)
<1>1. /\ J.seq \in Nat /\ K.seq \in Nat /\ J.floor \in Nat /\ K.floor \in Nat
      /\ J.gen = K.gen /\ J.seq <= K.seq /\ J.floor <= K.floor
  BY JournalFields DEF JournalOK, Sound, Extends
<1>2. ASSUME NEW rows, NEW lo \in Nat, NEW n \in 0..J.seq, Holds(rows, J, lo, n)
      PROVE  Holds(rows, K, lo, n)
  BY <1>1, <1>2, ReplayExtends DEF Holds
<1>3. ASSUME S.active # None
      PROVE  ActiveExact(S.active, K, cat[S.active.hgen].rows)
  <2>1. S.active.cursor.seq \in Nat
    BY <1>3 DEF IngestStates, Actives, Cursors
  <2>2. ActiveExact(S.active, J, cat[S.active.hgen].rows)
    BY <1>3 DEF StateExact
  <2>3. 0 \in Nat
    OBVIOUS
  <2> QED
    BY <1>1, <1>2, <2>1, <2>2, <2>3 DEF ActiveExact
<1>4. ASSUME S.boot # None
      PROVE  BootExact(S.boot, K, cat[S.boot.hgen].rows)
  <2> SUFFICES ASSUME S.boot.cursor # None, S.boot.cursor.gen = K.gen
               PROVE  /\ S.boot.cursor.seq <= K.seq
                      /\ \E lo \in 0..K.floor : lo <= S.boot.cursor.seq
                            /\ Holds(cat[S.boot.hgen].rows, K, lo, S.boot.cursor.seq)
                      /\ S.boot.ready =>
                            Holds(cat[S.boot.hgen].rows, K, 0, S.boot.cursor.seq)
    BY DEF BootExact
  <2>1. S.boot.cursor.seq \in Nat
    BY <1>4 DEF IngestStates, Boots, Cursors
  <2>2. BootExact(S.boot, J, cat[S.boot.hgen].rows)
    BY <1>4 DEF StateExact
  <2>3. S.boot.cursor.seq \in 0..J.seq
    BY <1>1, <2>1, <2>2 DEF BootExact
  <2>4. PICK lo \in 0..J.floor : lo <= S.boot.cursor.seq
             /\ Holds(cat[S.boot.hgen].rows, J, lo, S.boot.cursor.seq)
    BY <1>1, <2>2 DEF BootExact
  <2>5. Holds(cat[S.boot.hgen].rows, K, lo, S.boot.cursor.seq) /\ lo \in 0..K.floor
    BY <1>1, <1>2, <2>3, <2>4
  <2>6. ASSUME S.boot.ready
        PROVE  Holds(cat[S.boot.hgen].rows, K, 0, S.boot.cursor.seq)
    <3>1. Holds(cat[S.boot.hgen].rows, J, 0, S.boot.cursor.seq)
      BY <1>1, <2>2, <2>6 DEF BootExact
    <3> QED
      BY <1>2, <2>3, <3>1
  <2> QED
    BY <1>1, <2>3, <2>4, <2>5, <2>6
<1> QED
  BY <1>3, <1>4 DEF StateExact

\* A page takes what it follows on to where it ends.
LEMMA PagePatches ==
    ASSUME NEW J, JournalOK(J), NEW c \in Cursors, ~CursorLapsed(J, c),
           NEW n \in c.seq..J.seq, NEW lo \in 0..c.seq, NEW rows,
           Holds(rows, J, lo, c.seq)
    PROVE  Holds(Patched(rows, PageAt(J, c, n).patch), J, lo, n)
<1>1. J.seq \in Nat /\ c.seq \in Nat /\ n \in Nat /\ J.floor \in Nat
  BY JournalFields DEF JournalOK, Sound, Cursors
<1>2. ~(c.seq < J.floor)
  BY <1>1 DEF CursorLapsed
<1> DEFINE p == PageAt(J, c, n).patch
<1>3. p = [k \in {J.log[s].key : s \in (c.seq + 1)..n} |-> Replay(J, c.seq, n, k)]
  BY <1>2 DEF PageAt, Patch
<1>4. ASSUME NEW k \in Keys
      PROVE  Patched(rows, p)[k] = Replay(J, lo, n, k)
  <2>1. About(J, c.seq, n, k) = {} <=> k \notin DOMAIN p
    BY <1>3 DEF About
  <2>2. k \in DOMAIN p => p[k] = Replay(J, c.seq, n, k)
    BY <1>3
  <2>3. Patched(rows, p)[k] = IF k \in DOMAIN p THEN p[k] ELSE rows[k]
    BY DEF Patched
  <2>4. rows[k] = Replay(J, lo, c.seq, k)
    BY DEF Holds
  <2>5. /\ About(J, c.seq, n, k) = {} => Replay(J, lo, n, k) = Replay(J, lo, c.seq, k)
        /\ About(J, c.seq, n, k) # {} => Replay(J, lo, n, k) = Replay(J, c.seq, n, k)
    <3>1. c.seq \in 0..n
      BY <1>1
    <3> QED
      BY <1>1, <3>1, ReplayOn
  <2> HIDE DEF p
  <2> QED
    BY <2>1, <2>2, <2>3, <2>4, <2>5
<1> QED
  BY <1>4 DEF Holds

\* The end of the journal, read from the floor of some time, is all of it.
LEMMA PageCompletes ==
    ASSUME NEW J, JournalOK(J), NEW lo \in 0..J.floor, NEW rows,
           Holds(rows, J, lo, J.seq)
    PROVE  /\ Holds(rows, J, 0, J.seq)
           /\ \A k \in Keys : rows[k] = J.mat[k].val
<1>1. /\ Sound(J) /\ J.seq \in Nat /\ J.floor \in Nat /\ J.floor <= J.seq
      /\ \A k \in Keys : J.mat[k].last \in Nat
  BY JournalFields DEF JournalOK, Sound
<1>2. ASSUME NEW k \in Keys
      PROVE  /\ Replay(J, lo, J.seq, k) = J.mat[k].val
             /\ Replay(J, 0, J.seq, k) = J.mat[k].val
  <2>1. J.mat[k].val = Absent \/ J.floor < J.mat[k].last
    BY <1>1 DEF JournalOK, BootstrapComplete, CurrentKeys, UpsertRetained, Retained
  <2>2. J.mat[k].val = Absent \/ (lo < J.mat[k].last /\ 0 < J.mat[k].last)
    BY <1>1, <2>1
  <2>3. lo \in 0..J.seq /\ 0 \in 0..J.seq
    BY <1>1
  <2> QED
    BY <1>1, <2>2, <2>3, ReplayExact
<1> QED
  BY <1>2 DEF Holds

\* No generation in use changes.
LEMMA ExactKept ==
    ASSUME Exact, UNCHANGED <<ingest, journals>>,
           \A b \in Bindings : State(b) # None =>
              \A g \in Reads(State(b)) \cup Fills(State(b)) :
                 catalog'[g].rows = catalog[g].rows
    PROVE  Exact'
<1> SUFFICES ASSUME NEW b \in Bindings, State(b) # None
             PROVE  /\ journals[b] # None => StateExact(State(b), journals[b], catalog')
                    /\ StateFresh(State(b), catalog')
  BY DEF Exact, State
<1>1. /\ State(b).active # None =>
            catalog'[State(b).active.hgen].rows = catalog[State(b).active.hgen].rows
      /\ State(b).boot # None =>
            catalog'[State(b).boot.hgen].rows = catalog[State(b).boot.hgen].rows
  BY DEF Reads, Fills
<1>2. /\ journals[b] # None => StateExact(State(b), journals[b], catalog)
      /\ StateFresh(State(b), catalog)
  BY DEF Exact
<1> QED
  BY <1>1, <1>2 DEF StateExact, StateFresh

\* The state of one binding and the generations it uses change.
LEMMA ExactUpdate ==
    ASSUME Base, Exact, UNCHANGED journals, NEW b \in Bindings, NEW T,
           ingest' = [ingest EXCEPT ![b] = T],
           journals[b] # None => StateExact(T, journals[b], catalog'),
           StateFresh(T, catalog'),
           \A c \in Bindings \ {b} : State(c) # None =>
              \A g \in Reads(State(c)) \cup Fills(State(c)) :
                 catalog'[g].rows = catalog[g].rows
    PROVE  Exact'
<1>1. State(b)' = T /\ \A c \in Bindings \ {b} : State(c)' = State(c)
  BY OneState DEF Base, CenterOK
<1> SUFFICES ASSUME NEW c \in Bindings, State(c)' # None
             PROVE  /\ journals[c] # None => StateExact(State(c)', journals[c], catalog')
                    /\ StateFresh(State(c)', catalog')
  BY DEF Exact
<1>2. CASE c = b
  BY <1>1, <1>2
<1>3. CASE c # b
  <2>0. State(c)' = State(c) /\ State(c) # None
    BY <1>1, <1>3
  <2>1. /\ State(c).active # None =>
              catalog'[State(c).active.hgen].rows = catalog[State(c).active.hgen].rows
        /\ State(c).boot # None =>
              catalog'[State(c).boot.hgen].rows = catalog[State(c).boot.hgen].rows
    BY <1>3, <2>0 DEF Reads, Fills
  <2>2. /\ journals[c] # None => StateExact(State(c), journals[c], catalog)
        /\ StateFresh(State(c), catalog)
    BY <2>0 DEF Exact
  <2> QED
    BY <2>0, <2>1, <2>2 DEF StateExact, StateFresh
<1> QED
  BY <1>2, <1>3

\* A bootstrap becomes active with what it holds.
LEMMA ExactActivate ==
    ASSUME Base, Refs, Exact, InPhase, Activate, UNCHANGED journals
    PROVE  Exact'
<1>0. PICK b \in Bindings : b = run.binding
  BY PhaseFacts
<1> DEFINE S == State(b)
           T(gone) == [active |-> [hgen |-> S.boot.hgen, cursor |-> S.boot.cursor],
                       boot |-> None,
                       retired |-> (S.retired \cup Selected(S.boot.expected)) \ gone]
<1>1. S # None /\ StoreOK
  BY <1>0, PhaseFacts DEF Base, CenterOK
<1>2. PICK gone \in SUBSET Selected(S.boot.expected) :
           /\ ingest' = [ingest EXCEPT ![b] = T(gone)]
           /\ catalog' = Without(catalog, gone)
           /\ \A g \in gone :
                /\ g # S.boot.hgen
                /\ \A c \in Bindings \ {b} :
                      State(c) # None => g \notin LiveGenerations(State(c))
  BY <1>0, ActivateEffect
<1>3. S.boot # None /\ S.boot.ready /\ S.boot.hgen \in DOMAIN catalog
  BY <1>0, ActivateEffect
<1>4. S.boot.cursor # None
  BY <1>1, <1>3 DEF Base, CenterOK, ReadyOK
<1>5. \A g \in DOMAIN catalog \ gone : catalog'[g] = catalog[g]
  BY <1>1, <1>2, WithoutType
<1>6. catalog'[S.boot.hgen] = catalog[S.boot.hgen]
  BY <1>2, <1>3, <1>5
<1>7. \A c \in Bindings \ {b} : State(c) # None =>
         \A g \in Reads(State(c)) \cup Fills(State(c)) :
             catalog'[g].rows = catalog[g].rows
  BY <1>2, <1>5, LiveParts DEF Refs, ReferencesHold
<1>8. journals[b] # None => StateExact(T(gone), journals[b], catalog')
  <2> SUFFICES ASSUME journals[b] # None
               PROVE  ActiveExact(T(gone).active, journals[b], catalog'[S.boot.hgen].rows)
    BY DEF StateExact
  <2>1. BootExact(S.boot, journals[b], catalog[S.boot.hgen].rows)
    BY <1>1, <1>3 DEF Exact, StateExact
  <2> QED
    BY <1>3, <1>4, <1>6, <2>1 DEF ActiveExact, BootExact
<1>9. StateFresh(T(gone), catalog')
  BY DEF StateFresh
<1> HIDE DEF T
<1> QED
  BY <1>2, <1>7, <1>8, <1>9, ExactUpdate

\* Where the page that a commit phase has come to starts, and what it is.
LEMMA PageStarts ==
    ASSUME Base, AtPage, journals[run.binding] # None,
           journals[run.binding].gen = run.answer.next.gen
    PROVE  LET J == journals[run.binding]
               c == IF run.cursor # None THEN run.cursor
                    ELSE [gen |-> J.gen, seq |-> J.floor]
           IN  /\ JournalOK(J) /\ c \in Cursors /\ ~CursorLapsed(J, c)
               /\ \E n \in c.seq..J.seq : run.answer = PageAt(J, c, n)
<1> DEFINE J == journals[run.binding]
<1>1. InPhase /\ run.op = "commit"
  BY DEF AtPage, InPhase
<1>2. /\ run.binding \in Bindings /\ run.answer # None /\ run.answer.kind = "page"
  BY <1>1, PhaseFacts, NoneAssumption DEF NoneAssumption
<1>3. JournalOK(J)
  BY <1>2 DEF Base, JournalsOK
<1>4. PageFor(J, run.cursor, run.answer)
  BY <1>2 DEF Base, RunSide, AnswerOK, IsPage
<1>5. J.gen \in JournalGens /\ J.floor \in Nat
  BY <1>3, JournalFields DEF JournalOK, Sound
<1>6. run.cursor \in Cursors \cup {None}
  BY RunFields DEF Base, RunSide
<1> HIDE DEF J
<1>7. [gen |-> J.gen, seq |-> J.floor] \in Cursors
  BY <1>5 DEF Cursors
<1> QED
  BY <1>3, <1>4, <1>6, <1>7 DEF PageFor, J

\* apply_remote_history_generation_page, as what it does to the state of the
\* binding and to the catalog.
LEMMA StagedEffect ==
    ASSUME Base, Refs, ApplyStagedPage, NEW b \in Bindings, b = run.binding
    PROVE  LET S == State(b)
               T == [S EXCEPT !.boot = Staged(S.boot, run.answer)]
           IN  /\ InPhase /\ AtPage /\ S # None /\ S \in IngestStates
               /\ S.boot # None /\ S.boot.cursor = run.cursor
               /\ S.boot.hgen \in DOMAIN catalog
               /\ ingest' = [ingest EXCEPT ![b] = T]
               /\ T.active = S.active /\ T.boot # None
               /\ T.boot.hgen = S.boot.hgen /\ T.boot.cursor = run.answer.next
               /\ T.boot.ready = ~run.answer.more
               /\ UNCHANGED manifest /\ DOMAIN catalog' = DOMAIN catalog
               /\ \A g \in DOMAIN catalog \ {S.boot.hgen} : catalog'[g] = catalog[g]
               /\ catalog'[S.boot.hgen].rows =
                     Patched(catalog[S.boot.hgen].rows, run.answer.patch)
               /\ run' = [run EXCEPT !.pc = "finish"]
<1> DEFINE S == State(b)
           T == [S EXCEPT !.boot = Staged(S.boot, run.answer)]
<1>1. run \in Runs /\ StoreOK /\ AtPage /\ InPhase /\ S.boot # None
      /\ UNCHANGED manifest /\ run' = [run EXCEPT !.pc = "finish"]
  BY DEF Base, CenterOK, RunSide, ApplyStagedPage, AtPage, InPhase
<1>2. S # None /\ run.op = "commit"
  BY <1>1, PhaseFacts DEF AtPage
<1>3. S \in IngestStates /\ S.boot \in Boots
  BY <1>1, <1>2, StateFields
<1>4. ingest' = [ingest EXCEPT ![b] = T]
  BY <1>3 DEF ApplyStagedPage, State
<1>5. S.boot.hgen \in DOMAIN catalog
  BY <1>1, <1>2, LiveParts DEF Refs, ReferencesHold, Fills
<1>6. /\ run.answer.next \in Cursors /\ run.answer.more \in BOOLEAN
  BY <1>1, <1>2, PhaseFacts DEF Responses
<1>7. /\ Staged(S.boot, run.answer) \in Boots
      /\ Staged(S.boot, run.answer).hgen = S.boot.hgen
      /\ Staged(S.boot, run.answer).cursor = run.answer.next
      /\ Staged(S.boot, run.answer).ready = ~run.answer.more
  BY <1>3, <1>6 DEF Boots, Staged
<1>8. T.boot = Staged(S.boot, run.answer) /\ T.active = S.active
  BY <1>3 DEF IngestStates
<1>9. catalog' = [g \in DOMAIN catalog \cup {S.boot.hgen} |->
                    IF g = S.boot.hgen
                    THEN [binding |-> b,
                          rows |-> Patched(catalog[S.boot.hgen].rows, run.answer.patch)]
                    ELSE catalog[g]]
  BY <1>5 DEF ApplyStagedPage
<1>10. /\ DOMAIN catalog' = DOMAIN catalog
       /\ \A g \in DOMAIN catalog \ {S.boot.hgen} : catalog'[g] = catalog[g]
       /\ catalog'[S.boot.hgen].rows =
             Patched(catalog[S.boot.hgen].rows, run.answer.patch)
  BY <1>5, <1>9
<1>11. S.boot.cursor = run.cursor
  BY <1>1 DEF AtPage, Position
<1> HIDE DEF T
<1>12. /\ T.active = S.active /\ T.boot # None /\ T.boot.hgen = S.boot.hgen
       /\ T.boot.cursor = run.answer.next /\ T.boot.ready = ~run.answer.more
  BY <1>7, <1>8, NoneAssumption DEF NoneAssumption
<1> QED
  BY <1>1, <1>2, <1>3, <1>4, <1>5, <1>10, <1>11, <1>12 DEF T

\* apply_remote_history_active_page, likewise.
LEMMA ActiveEffect ==
    ASSUME Base, Refs, ApplyActivePage, NEW b \in Bindings, b = run.binding
    PROVE  LET S == State(b)
               A == [hgen |-> S.active.hgen, cursor |-> run.answer.next]
               T == [S EXCEPT !.active = A]
           IN  /\ InPhase /\ AtPage /\ S # None /\ S \in IngestStates
               /\ S.boot = None /\ S.active # None
               /\ S.active.cursor = run.cursor /\ run.cursor # None
               /\ S.active.hgen \in DOMAIN catalog
               /\ manifest = [hgen |-> S.active.hgen, binding |-> b]
               /\ ingest' = [ingest EXCEPT ![b] = T]
               /\ T.boot = None /\ T.active = A /\ A # None
               /\ UNCHANGED manifest /\ DOMAIN catalog' = DOMAIN catalog
               /\ \A g \in DOMAIN catalog \ {S.active.hgen} : catalog'[g] = catalog[g]
               /\ catalog'[S.active.hgen].rows =
                     Patched(catalog[S.active.hgen].rows, run.answer.patch)
               /\ run' = [run EXCEPT !.pc = "finish"]
<1> DEFINE S == State(b)
           A == [hgen |-> S.active.hgen, cursor |-> run.answer.next]
           T == [S EXCEPT !.active = A]
           g == S.active.hgen
<1>1. run \in Runs /\ StoreOK /\ AtPage /\ InPhase /\ S.boot = None /\ S.active # None
      /\ UNCHANGED manifest /\ run' = [run EXCEPT !.pc = "finish"]
      /\ g \in DOMAIN catalog
      /\ catalog' = [catalog EXCEPT ![g].rows = Patched(@, run.answer.patch)]
      /\ manifest = [hgen |-> g, binding |-> b]
  BY DEF Base, CenterOK, RunSide, ApplyActivePage, AtPage, InPhase, ExpectedManifest
<1>2. S # None /\ run.op = "commit"
  BY <1>1, PhaseFacts DEF AtPage
<1>3. S \in IngestStates /\ S.active.hgen \in HistGens /\ S.active.cursor \in Cursors
  BY <1>1, <1>2, StateFields
<1>4. ingest' = [ingest EXCEPT ![b] = T]
  BY <1>3 DEF ApplyActivePage, State
<1>5. run.answer.next \in Cursors
  BY <1>1, <1>2, PhaseFacts DEF Responses
<1>6. A # None
  <2>1. A \in Actives
    BY <1>3, <1>5 DEF Actives
  <2> QED
    BY <2>1, NoneAssumption DEF NoneAssumption
<1>7. T.boot = None /\ T.active = A
  BY <1>1, <1>3 DEF IngestStates
<1>8. S.active.cursor = run.cursor /\ run.cursor # None
  BY <1>1, <1>3, NoneAssumption DEF NoneAssumption, AtPage, Position
<1>9. catalog[g] \in Generations
  BY <1>1 DEF StoreOK
<1>10. /\ DOMAIN catalog' = DOMAIN catalog
       /\ \A x \in DOMAIN catalog \ {g} : catalog'[x] = catalog[x]
       /\ catalog'[g].rows = Patched(catalog[g].rows, run.answer.patch)
  BY <1>1, <1>9 DEF StoreOK, Generations
<1> QED
  BY <1>1, <1>2, <1>3, <1>4, <1>6, <1>7, <1>8, <1>10

\* A page of a bootstrap.
LEMMA ExactStaged ==
    ASSUME Base, Refs, Exact, ApplyStagedPage, UNCHANGED journals
    PROVE  Exact'
<1>0. PICK b \in Bindings : b = run.binding
  BY PhaseFacts DEF ApplyStagedPage, AtPage, InPhase
<1> DEFINE S == State(b)
           T == [S EXCEPT !.boot = Staged(S.boot, run.answer)]
           J == journals[b]
           rows == catalog[S.boot.hgen].rows
<1>1. /\ InPhase /\ AtPage /\ S # None /\ S \in IngestStates
      /\ S.boot # None /\ S.boot.cursor = run.cursor
      /\ S.boot.hgen \in DOMAIN catalog
      /\ ingest' = [ingest EXCEPT ![b] = T]
      /\ T.active = S.active /\ T.boot # None
      /\ T.boot.hgen = S.boot.hgen /\ T.boot.cursor = run.answer.next
      /\ T.boot.ready = ~run.answer.more
      /\ \A g \in DOMAIN catalog \ {S.boot.hgen} : catalog'[g] = catalog[g]
      /\ catalog'[S.boot.hgen].rows = Patched(rows, run.answer.patch)
  BY <1>0, StagedEffect
<1>2. \A c \in Bindings : State(c) # None =>
         /\ S.boot.hgen \notin Reads(State(c))
         /\ c # b => S.boot.hgen \notin Fills(State(c))
         /\ Reads(State(c)) \cup Fills(State(c)) \subseteq DOMAIN catalog
  <2>1. Fills(S) = {S.boot.hgen}
    BY <1>1 DEF Fills
  <2> QED
    BY <1>1, <2>1, LiveParts DEF Refs, Exclusive, ReferencesHold, Held
<1>3. \A c \in Bindings \ {b} : State(c) # None =>
         \A g \in Reads(State(c)) \cup Fills(State(c)) :
            catalog'[g].rows = catalog[g].rows
  BY <1>1, <1>2
<1>4. ASSUME J # None, run.answer.next.gen = J.gen
      PROVE  /\ run.answer.next.seq <= J.seq
             /\ \E lo \in 0..J.floor : lo <= run.answer.next.seq
                   /\ Holds(Patched(rows, run.answer.patch), J, lo, run.answer.next.seq)
             /\ ~run.answer.more =>
                   Holds(Patched(rows, run.answer.patch), J, 0, run.answer.next.seq)
  <2> DEFINE c == IF run.cursor # None THEN run.cursor
                  ELSE [gen |-> J.gen, seq |-> J.floor]
  <2>1. JournalOK(J) /\ c \in Cursors /\ ~CursorLapsed(J, c)
    BY <1>0, <1>1, <1>4, PageStarts
  <2>2. PICK n \in c.seq..J.seq : run.answer = PageAt(J, c, n)
    BY <1>0, <1>1, <1>4, PageStarts
  <2>3. /\ J.seq \in Nat /\ J.floor \in Nat /\ c.seq \in Nat /\ n \in Nat
        /\ c.gen = J.gen /\ J.floor <= c.seq
    BY <2>1, JournalFields DEF JournalOK, Sound, Cursors, CursorLapsed
  <2>4. run.answer.next.seq = n /\ (n < J.seq => run.answer.more)
    <3>1. run.answer.next = [gen |-> J.gen, seq |-> n]
      BY <2>2 DEF PageAt
    <3>2. ASSUME n < J.seq PROVE run.answer.more
      <4>1. (n < J.seq) = TRUE
        BY <3>2
      <4>2. run.answer = [kind |-> "page", next |-> [gen |-> J.gen, seq |-> n],
                          more |-> TRUE, patch |-> Patch(J, c.seq, n)]
        BY <2>2, <4>1 DEF PageAt
      <4> QED
        BY <4>2
    <3> QED
      BY <3>1, <3>2
  <2>5. \E lo \in 0..J.floor : Holds(rows, J, lo, c.seq)
    <3>1. CASE run.cursor # None
      <4>1. BootExact(S.boot, J, rows)
        BY <1>1, <1>4 DEF Exact, StateExact
      <4>2. S.boot.cursor = c
        BY <1>1, <3>1
      <4> HIDE DEF c
      <4> QED
        BY <1>1, <2>3, <3>1, <4>1, <4>2 DEF BootExact
    <3>2. CASE run.cursor = None
      <4>1. rows = EmptyRows
        BY <1>1, <3>2 DEF Exact, StateFresh
      <4>2. c.seq = J.floor
        BY <3>2
      <4>3. \A k \in Keys : About(J, J.floor, J.floor, k) = {}
        BY <2>3 DEF About
      <4>4. \A k \in Keys : Replay(J, J.floor, J.floor, k) = Absent
        BY <4>3, ReplayNone
      <4>5. Holds(EmptyRows, J, J.floor, J.floor)
        BY <4>4 DEF Holds, EmptyRows
      <4>6. J.floor \in 0..J.floor
        BY <2>3
      <4> QED
        BY <4>1, <4>2, <4>5, <4>6
    <3> QED
      BY <3>1, <3>2
  <2> HIDE DEF c, rows, J
  <2>6. PICK lo \in 0..J.floor : Holds(rows, J, lo, c.seq)
    BY <2>5
  <2>7. lo \in 0..c.seq
    BY <2>3
  <2>8. Holds(Patched(rows, run.answer.patch), J, lo, n)
    BY <2>1, <2>2, <2>6, <2>7, PagePatches
  <2>9. n = J.seq => Holds(Patched(rows, run.answer.patch), J, 0, n)
    BY <2>1, <2>8, PageCompletes
  <2>10. ~run.answer.more => n = J.seq
    BY <2>3, <2>4
  <2>11. n <= J.seq /\ lo <= n
    BY <2>3, <2>7
  <2> QED
    BY <2>4, <2>8, <2>9, <2>10, <2>11
<1>5. J # None => StateExact(T, J, catalog')
  <2> SUFFICES ASSUME J # None PROVE StateExact(T, J, catalog')
    OBVIOUS
  <2>1. BootExact(T.boot, J, catalog'[T.boot.hgen].rows)
    BY <1>1, <1>4 DEF BootExact
  <2>2. S.active # None => ActiveExact(S.active, J, catalog'[S.active.hgen].rows)
    <3> SUFFICES ASSUME S.active # None
                 PROVE  ActiveExact(S.active, J, catalog'[S.active.hgen].rows)
      OBVIOUS
    <3>1. catalog'[S.active.hgen] = catalog[S.active.hgen]
      BY <1>1, <1>2 DEF Reads
    <3> QED
      BY <1>1, <3>1 DEF Exact, StateExact
  <2> HIDE DEF T
  <2> QED
    BY <1>1, <2>1, <2>2 DEF StateExact, T
<1>6. StateFresh(T, catalog')
  <2>1. run.answer.next # None
    BY <1>1, PhaseFacts, NoneAssumption DEF NoneAssumption, Responses, AtPage
  <2> QED
    BY <1>1, <2>1 DEF StateFresh
<1> HIDE DEF T
<1> QED
  BY <1>1, <1>3, <1>5, <1>6, ExactUpdate

\* A page of an active generation.
LEMMA ExactActive ==
    ASSUME Base, Refs, Exact, ApplyActivePage, UNCHANGED journals
    PROVE  Exact'
<1>0. PICK b \in Bindings : b = run.binding
  BY PhaseFacts DEF ApplyActivePage, AtPage, InPhase
<1> DEFINE S == State(b)
           A == [hgen |-> S.active.hgen, cursor |-> run.answer.next]
           T == [S EXCEPT !.active = A]
           J == journals[b]
           rows == catalog[S.active.hgen].rows
<1>1. /\ InPhase /\ AtPage /\ S # None /\ S \in IngestStates
      /\ S.boot = None /\ S.active # None
      /\ S.active.cursor = run.cursor /\ run.cursor # None
      /\ S.active.hgen \in DOMAIN catalog
      /\ ingest' = [ingest EXCEPT ![b] = T]
      /\ T.boot = None /\ T.active = A /\ A # None
      /\ \A g \in DOMAIN catalog \ {S.active.hgen} : catalog'[g] = catalog[g]
      /\ catalog'[S.active.hgen].rows = Patched(rows, run.answer.patch)
  BY <1>0, ActiveEffect
<1>2. \A c \in Bindings \ {b} : State(c) # None =>
         \A g \in Reads(State(c)) \cup Fills(State(c)) :
            catalog'[g].rows = catalog[g].rows
  <2>1. Reads(S) = {S.active.hgen} /\ Reads(S) \subseteq Held(S)
    BY <1>1 DEF Reads, Held
  <2>2. \A c \in Bindings \ {b} : State(c) # None =>
           /\ S.active.hgen \notin Reads(State(c)) \cup Fills(State(c))
           /\ Reads(State(c)) \cup Fills(State(c)) \subseteq DOMAIN catalog
    BY <1>1, <2>1, LiveParts DEF Refs, Exclusive, ReferencesHold
  <2> QED
    BY <1>1, <2>2
<1>3. ASSUME J # None, run.answer.next.gen = J.gen
      PROVE  /\ run.answer.next.seq <= J.seq
             /\ Holds(Patched(rows, run.answer.patch), J, 0, run.answer.next.seq)
  <2> DEFINE c == run.cursor
  <2>1. JournalOK(J) /\ c \in Cursors /\ ~CursorLapsed(J, c)
    BY <1>0, <1>1, <1>3, PageStarts
  <2>2. PICK n \in c.seq..J.seq : run.answer = PageAt(J, c, n)
    BY <1>0, <1>1, <1>3, PageStarts
  <2>3. J.seq \in Nat /\ c.seq \in Nat /\ n \in Nat /\ c.gen = J.gen /\ 0 \in 0..c.seq
    BY <2>1, JournalFields DEF JournalOK, Sound, Cursors, CursorLapsed
  <2>4. run.answer.next.seq = n
    BY <2>2 DEF PageAt
  <2>5. Holds(rows, J, 0, c.seq)
    <3>1. ActiveExact(S.active, J, rows)
      BY <1>1, <1>3 DEF Exact, StateExact
    <3> QED
      BY <1>1, <2>3, <3>1 DEF ActiveExact
  <2> HIDE DEF c, rows, J
  <2>6. Holds(Patched(rows, run.answer.patch), J, 0, n)
    BY <2>1, <2>2, <2>3, <2>5, PagePatches
  <2> QED
    BY <2>3, <2>4, <2>6
<1>4. J # None => StateExact(T, J, catalog')
  BY <1>1, <1>3 DEF StateExact, ActiveExact
<1>5. StateFresh(T, catalog')
  BY <1>1 DEF StateFresh
<1> HIDE DEF T
<1> QED
  BY <1>1, <1>2, <1>4, <1>5, ExactUpdate

\* Every step of an open phase keeps what the generations hold.
LEMMA ExactPhase ==
    ASSUME Base, Refs, Exact, PhaseStep, UNCHANGED envVars
    PROVE  Exact'
<1>1. run \in Runs /\ StoreOK /\ UNCHANGED journals
  BY DEF Base, CenterOK, RunSide, envVars
<1>2. InPhase
  BY DEF PhaseStep, RecoverActivate, RecoverSkip, RecoverRefused, BeginRetry, Collect,
         Forget, Sweep, ReturnPosition, EnsureGeneration, WantsBootstrap,
         PublishBootstrap, BootstrapReady, RefuseMoved, RefuseBootstrap, RefusePage,
         ApplyStagedPage, ApplyActivePage, AtPage, FinishActivate, FinishSkip, InPhase
<1>3. PICK b \in Bindings : b = run.binding /\ State(b) # None
  BY <1>2, PhaseFacts
<1> DEFINE S == State(b)
<1>4. S \in IngestStates
  BY <1>1, <1>3, StateFields
<1>5. \A c \in Bindings : State(c) # None =>
         /\ Reads(State(c)) \cup Fills(State(c)) \subseteq LiveGenerations(State(c))
         /\ Reads(State(c)) \cup Fills(State(c)) \subseteq DOMAIN catalog
  BY LiveParts DEF Refs, ReferencesHold
<1>6. ASSUME UNCHANGED <<ingest, catalog>> PROVE Exact'
  BY <1>1, <1>6, ExactKept
<1>7. ASSUME NEW gone, \A g \in gone : Collectable(g, ingest, manifest),
             catalog' = Without(catalog, gone), UNCHANGED ingest
      PROVE  Exact'
  <2>1. \A g \in DOMAIN catalog \ gone : catalog'[g] = catalog[g]
    BY <1>1, <1>7, WithoutType
  <2>2. \A c \in Bindings : State(c) # None => gone \cap LiveGenerations(State(c)) = {}
    BY <1>7 DEF Collectable, Protected, State
  <2> QED
    BY <1>1, <1>5, <1>7, <2>1, <2>2, ExactKept
<1>8. ASSUME NEW g \in HistGens, Collect(g) PROVE Exact'
  BY <1>6, <1>7, <1>8 DEF Collect
<1>9. ASSUME Sweep PROVE Exact'
  <2>1. PICK T : /\ \A g \in T : Collectable(g, ingest, manifest)
                 /\ catalog' = Without(catalog, T)
    BY <1>9 DEF Sweep
  <2> QED
    BY <1>7, <1>9, <2>1 DEF Sweep
<1>10. ASSUME Forget PROVE Exact'
  <2> DEFINE T == [S EXCEPT !.retired = @ \ {run.hgen}]
  <2>1. ingest' = [ingest EXCEPT ![b] = T] /\ UNCHANGED <<manifest, catalog>>
    BY <1>3, <1>10 DEF Forget, State
  <2>2. T.boot = S.boot /\ T.active = S.active
    BY <1>4 DEF IngestStates
  <2>3. /\ journals[b] # None => StateExact(T, journals[b], catalog')
        /\ StateFresh(T, catalog')
    BY <1>3, <2>1, <2>2 DEF Exact, StateExact, StateFresh
  <2> HIDE DEF T
  <2> QED
    BY <1>1, <2>1, <2>3, ExactUpdate
<1>11. ASSUME EnsureGeneration PROVE Exact'
  <2>1. PICK g \in Unused :
          /\ catalog' = [x \in DOMAIN catalog \cup {g} |->
                           IF x = g THEN [binding |-> run.binding, rows |-> EmptyRows]
                           ELSE catalog[x]]
          /\ UNCHANGED <<ingest, manifest>>
    BY <1>11, EnsureEffect
  <2>2. g \notin DOMAIN catalog
    BY DEF Unused
  <2>3. \A x \in DOMAIN catalog : catalog'[x] = catalog[x]
    BY <2>1, <2>2
  <2> QED
    BY <1>1, <1>5, <2>1, <2>3, ExactKept
<1>12. ASSUME PublishBootstrap PROVE Exact'
  <2> DEFINE B == [hgen |-> run.hgen, expected |-> manifest, cursor |-> None,
                   ready |-> FALSE]
             old == IF S.boot = None THEN {} ELSE {S.boot.hgen}
             T == [S EXCEPT !.boot = B, !.retired = @ \cup old]
  <2>1. /\ run.pc = "publish" /\ ingest' = [ingest EXCEPT ![b] = T]
        /\ UNCHANGED <<manifest, catalog>>
    BY <1>3, <1>12 DEF PublishBootstrap
  <2>2. T.boot = B /\ T.active = S.active /\ B.cursor = None /\ B.hgen = run.hgen
    BY <1>4 DEF IngestStates
  <2>3. catalog[run.hgen].rows = EmptyRows
    BY <2>1 DEF Refs, PublishOK
  <2> HIDE DEF T, B, old
  <2>4. /\ journals[b] # None => StateExact(T, journals[b], catalog')
        /\ StateFresh(T, catalog')
    BY <1>3, <2>1, <2>2, <2>3 DEF Exact, StateExact, BootExact, StateFresh
  <2> QED
    BY <1>1, <2>1, <2>4, ExactUpdate
<1>13. ASSUME Activate PROVE Exact'
  BY <1>1, <1>2, <1>13, ExactActivate
<1>14. ASSUME ApplyStagedPage \/ ApplyActivePage PROVE Exact'
  BY <1>1, <1>14, ExactStaged, ExactActive
<1> QED
  BY <1>6, <1>8, <1>9, <1>10, <1>11, <1>12, <1>13, <1>14
  DEF PhaseStep, RecoverActivate, RecoverSkip, RecoverRefused, BeginRetry, ReturnPosition,
      BootstrapReady, RefuseMoved, RefuseBootstrap, RefusePage, FinishActivate, FinishSkip,
      EndRun

\* The exporter's work keeps what the generations hold.
LEMMA ExactServe ==
    ASSUME Base, Exact, NEW J \in Namespaces(agreed), NEW K, JournalOK(K), Extends(J, K),
           journals' = [journals EXCEPT ![agreed] = K],
           UNCHANGED <<ingest, catalog>>
    PROVE  /\ Exact'
           /\ State(agreed) # None => StateExact(State(agreed), K, catalog)
<1>1. PICK b \in Bindings : b = agreed
  BY DEF Base, EnvOK
<1>2. /\ journals'[b] = K /\ \A c \in Bindings \ {b} : journals'[c] = journals[c]
      /\ JournalOK(J) /\ StoreOK
  BY <1>1, NamespaceOK DEF Base, EnvOK, CenterOK
<1>3. State(b) # None => StateExact(State(b), K, catalog)
  <2> SUFFICES ASSUME State(b) # None PROVE StateExact(State(b), K, catalog)
    OBVIOUS
  <2>1. State(b) \in IngestStates
    BY <1>2, StateFields
  <2>2. CASE journals[b] # None
    <3>1. J = journals[b]
      BY <1>1, <2>2, NamespaceOK
    <3> QED
      BY <1>2, <2>1, <2>2, <3>1, StateExtends DEF Exact
  <2>3. CASE journals[b] = None
    <3>1. PICK g \in JournalGens \ NamedGens : J = NewJournal(g, 0)
      BY <1>1, <2>3, NamespaceOK
    <3>2. K.gen \notin NamedGens
      BY <3>1 DEF Extends, NewJournal
    <3>3. State(b).active # None => State(b).active.cursor # None
      BY <1>2, StateFields, NoneAssumption DEF NoneAssumption
    <3> QED
      BY <3>2, <3>3, NamedHolds DEF StateExact, ActiveExact, BootExact, Position
  <2> QED
    BY <2>2, <2>3
<1>4. ASSUME NEW c \in Bindings, State(c) # None
      PROVE  /\ journals'[c] # None => StateExact(State(c), journals'[c], catalog)
             /\ StateFresh(State(c), catalog)
  BY <1>2, <1>3, <1>4 DEF Exact
<1>5. Exact'
  BY <1>4 DEF Exact, State
<1> QED
  BY <1>1, <1>3, <1>5

\* A journal continues itself.
LEMMA ExtendsSelf ==
    ASSUME NEW J, JournalOK(J)
    PROVE  Extends(J, J)
BY JournalFields DEF Extends, JournalOK, Sound

\* Every step keeps what the generations hold.
LEMMA ExactNext ==
    ASSUME Base, Refs, Exact, [Next \/ Settle]_syncVars
    PROVE  Exact'
<1>0. StoreOK /\ EnvOK
  BY DEF Base, CenterOK
<1>1. ASSUME UNCHANGED <<ingest, catalog, journals>> PROVE Exact'
  BY <1>1, ExactKept
<1>2. ASSUME Start PROVE Exact'
  <2>1. PICK b \in Bindings : b = agreed
    BY <1>0 DEF EnvOK
  <2> DEFINE T == IF ingest[b] = None THEN NewIngest ELSE ingest[b]
  <2>2. /\ ingest' = [ingest EXCEPT ![b] = T] /\ UNCHANGED <<manifest, catalog, journals>>
    BY <1>2, <2>1 DEF Start, StartRun, envVars
  <2>3. CASE ingest[b] = None
    <3>1. T.active = None /\ T.boot = None
      BY <2>3 DEF NewIngest
    <3> HIDE DEF T
    <3>2. StateExact(T, journals[b], catalog') /\ StateFresh(T, catalog')
      BY <3>1 DEF StateExact, StateFresh
    <3> QED
      BY <2>2, <3>2, ExactUpdate
  <2>4. CASE ingest[b] # None
    <3>1. ingest' = ingest
      BY <1>0, <2>2, <2>4 DEF StoreOK
    <3> QED
      BY <1>1, <2>2, <3>1
  <2> QED
    BY <2>3, <2>4
<1>3. ASSUME Phase PROVE Exact'
  BY <1>3, ExactPhase DEF Phase
<1>4. ASSUME ServePending PROVE Exact'
  BY <1>4, PendingServes, ExtendsSelf, ExactServe
<1>5. ASSUME NEW S, ServeScan(S) PROVE Exact'
  BY <1>5, ScanServes, ExactServe
<1>6. ASSUME NEW b \in Bindings, SweepRevision(b) PROVE Exact'
  <2>1. /\ journals' = [journals EXCEPT ![b] = None] /\ UNCHANGED <<ingest, catalog>>
    BY <1>6 DEF SweepRevision, centerVars
  <2>2. journals'[b] = None /\ \A c \in Bindings \ {b} : journals'[c] = journals[c]
    BY <1>0, <2>1 DEF EnvOK
  <2>3. \A c \in Bindings : journals'[c] # None => journals'[c] = journals[c]
    BY <2>2
  <2> QED
    BY <2>1, <2>3 DEF Exact, State
<1>7. ASSUME PurgeIngest PROVE Exact'
  BY <1>7 DEF PurgeIngest, Exact, State
<1>8. ASSUME PurgeHistory PROVE Exact'
  <2>1. purge = "cleared" /\ UNCHANGED ingest
    BY <1>8 DEF PurgeHistory
  <2>2. \A b \in Bindings : State(b)' = None
    BY <2>1 DEF Base, RunSide, RunOK, State
  <2> QED
    BY <2>2 DEF Exact
<1> QED
  BY <1>1, <1>2, <1>3, <1>4, <1>5, <1>6, <1>7, <1>8
  DEF Next, Progress, Environment, Accept, Refuse, Abort, EndRun, LocalWrite,
      SwitchBinding, ClaimPurge, Settle, centerVars, envVars, syncVars

\* The invariant up to here.
Kept == Base /\ Refs /\ Exact

LEMMA KeptInit ==
    ASSUME Init
    PROVE  Kept
<1>1. Exact
  BY DEF Init, Exact, State
<1> QED
  BY <1>1, BaseInit, RefsInit DEF Kept

LEMMA KeptNext ==
    ASSUME Kept, [Next \/ Settle]_syncVars
    PROVE  Kept'
BY BaseNext, RefsNext, ExactNext DEF Kept

\* What readers see is the generation that the manifest selects.
LEMMA ViewSelected ==
    ASSUME Base, Refs
    PROVE  /\ manifest # None =>
                 manifest.hgen \in DOMAIN catalog /\ View = catalog[manifest.hgen].rows
           /\ manifest = None => View = EmptyRows
           /\ View \in [Keys -> Contents]
<1>1. manifest # None => manifest.hgen \in DOMAIN catalog
  BY DEF Refs, ReferencesHold, Selected
<1>2. \A g \in DOMAIN catalog : catalog[g].rows \in [Keys -> Contents]
  BY DEF Base, CenterOK, StoreOK, Generations
<1>3. EmptyRows \in [Keys -> Contents]
  BY DEF EmptyRows, Contents
<1> QED
  BY <1>1, <1>2, <1>3 DEF View

\* VisibleExact: what is visible is exactly what the exporter's entries up to
\* the saved cursor say, whatever crashed, was retried, was compacted or was
\* lost in between.
THEOREM VisibleIsExact == (Spec \/ FairSpec) => []VisibleExact
<1>1. Init => Kept
  BY KeptInit
<1>2. Kept /\ [Next \/ Settle]_syncVars => Kept'
  BY KeptNext
<1>3. [Next]_syncVars => [Next \/ Settle]_syncVars
  OBVIOUS
<1>4. Kept => VisibleExact
  <2> SUFFICES ASSUME Kept, NEW b \in Bindings, State(b) # None, journals[b] # None,
                      State(b).active # None,
                      manifest = [hgen |-> State(b).active.hgen, binding |-> b],
                      State(b).active.cursor.gen = journals[b].gen
               PROVE  /\ State(b).active.cursor.seq <= journals[b].seq
                      /\ \A k \in Keys :
                           View[k] = Replay(journals[b], 0, State(b).active.cursor.seq, k)
    BY DEF VisibleExact
  <2>1. manifest # None
    <3>1. State(b).active.hgen \in HistGens
      BY StateFields DEF Kept, Base, CenterOK
    <3>2. manifest \in Manifests
      BY <3>1 DEF Manifests
    <3> QED
      BY <3>2, NoneAssumption DEF NoneAssumption
  <2>2. View = catalog[State(b).active.hgen].rows
    BY <2>1, ViewSelected DEF Kept
  <2>3. ActiveExact(State(b).active, journals[b], catalog[State(b).active.hgen].rows)
    BY DEF Kept, Exact, StateExact
  <2> QED
    BY <2>2, <2>3 DEF ActiveExact, Holds
<1> QED
  BY <1>1, <1>2, <1>3, <1>4, PTL DEF Spec, FairSpec

-----------------------------------------------------------------------------
(***************************************************************************)
(* Versions: a record's content is the number of its writes, so newer is   *)
(* larger.                                                                 *)
(***************************************************************************)

\* What the remote host has of each record that does not expire at once.
Offered == [k \in Keys |-> IF Expiry[k] > 0 THEN local[k] ELSE Absent]

\* The current content of k.
Current(J, k) == J.mat[k].val

\* The key of entry s.
KeyOf(J, s) == J.log[s].key

\* Along the log of J each record only gets newer, up to what top has.
Versioned(J, top) ==
    /\ J.clock.trusted = 0
    /\ \A k \in Keys : Current(J, k) <= top[k]
    /\ \A s \in 1..J.seq : Content(J, s) <= Current(J, KeyOf(J, s))
    /\ \A r, s \in 1..J.seq :
          r <= s /\ KeyOf(J, r) = KeyOf(J, s) => Content(J, r) <= Content(J, s)

\* Contents are numbers.
LEMMA ContentsNat == (\A v \in Contents : v \in Nat) /\ Absent = 0 /\ Absent \in Contents
BY SyncAssumption DEF SyncAssumption, Contents

\* The parts of a sound journal, through the operators above.
LEMMA JournalParts ==
    ASSUME NEW J, IsJournal(J)
    PROVE  /\ \A s \in 1..J.seq : KeyOf(J, s) \in Keys /\ Content(J, s) \in Contents
           /\ \A k \in Keys : Current(J, k) \in Contents
           /\ J.seq \in Nat /\ J.floor \in Nat
<1>1. /\ J.log \in [1..J.seq -> Change] /\ J.seq \in Nat /\ J.floor \in Nat
      /\ \A k \in Keys : J.mat[k].val \in Contents
  BY JournalFields
<1> QED
  BY <1>1 DEF KeyOf, Content, Current, Change

\* Versions depend on the log and the materialized set alone.
LEMMA SameVersions ==
    ASSUME NEW J, NEW K, NEW top, Versioned(J, top), K.log = J.log, K.mat = J.mat,
           K.seq = J.seq, K.clock.trusted = 0
    PROVE  Versioned(K, top)
BY DEF Versioned, Current, KeyOf, Content

\* A batch of contents that are not older.
LEMMA AppendVersioned ==
    ASSUME NEW J, Sound(J), NEW top \in [Keys -> Nat], Versioned(J, top), NEW t \in Nat,
           NEW T \in SUBSET Keys, NEW vals \in [Keys -> Contents],
           \A k \in Keys : Current(J, k) <= vals[k] /\ vals[k] <= top[k],
           NEW ord \in Orders(T)
    PROVE  /\ Versioned(AppendBatch(J, t, T, vals, ord), top)
           /\ \A k \in Keys : Current(AppendBatch(J, t, T, vals, ord), k) =
                 IF k \in T THEN vals[k] ELSE Current(J, k)
<1> DEFINE K == AppendBatch(J, t, T, vals, ord)
           n == Cardinality(T)
<1>1. /\ n \in Nat /\ ord \in [1..n -> T]
      /\ \A i, j \in 1..n : ord[i] = ord[j] => i = j
  BY OrderOnto
<1>2. /\ J.seq \in Nat
      /\ \A s \in 1..J.seq : KeyOf(J, s) \in Keys /\ Content(J, s) \in Contents
      /\ \A k \in Keys : Current(J, k) \in Contents
  BY JournalParts DEF Sound
<1>3. K.seq = J.seq + n /\ K.clock = J.clock
  BY DEF AppendBatch
<1>4. \A k \in Keys : Current(K, k) = IF k \in T THEN vals[k] ELSE Current(J, k)
  BY DEF AppendBatch, Current
<1>5. \A s \in 1..J.seq : KeyOf(K, s) = KeyOf(J, s) /\ Content(K, s) = Content(J, s)
  <2> SUFFICES ASSUME NEW s \in 1..J.seq
               PROVE  KeyOf(K, s) = KeyOf(J, s) /\ Content(K, s) = Content(J, s)
    OBVIOUS
  <2>1. K.log[s] = J.log[s]
    BY <1>1, <1>2 DEF AppendBatch
  <2> QED
    BY <2>1 DEF KeyOf, Content
<1>6. \A s \in (J.seq + 1)..(J.seq + n) :
         /\ s - J.seq \in 1..n
         /\ KeyOf(K, s) = ord[s - J.seq] /\ Content(K, s) = vals[ord[s - J.seq]]
  <2> SUFFICES ASSUME NEW s \in (J.seq + 1)..(J.seq + n)
               PROVE  /\ s - J.seq \in 1..n
                      /\ KeyOf(K, s) = ord[s - J.seq]
                      /\ Content(K, s) = vals[ord[s - J.seq]]
    OBVIOUS
  <2>1. s \in 1..(J.seq + n) /\ ~(s <= J.seq) /\ s - J.seq \in 1..n
    BY <1>1, <1>2
  <2>2. K.log[s] = BatchEntry(J, vals, ord[s - J.seq])
    BY <2>1 DEF AppendBatch
  <2> QED
    BY <2>1, <2>2 DEF KeyOf, Content, BatchEntry
<1> HIDE DEF K, n
<1>7. \A s \in 1..K.seq : s \in 1..J.seq \/ s \in (J.seq + 1)..(J.seq + n)
  BY <1>1, <1>2, <1>3
<1>8. \A k \in Keys : Current(J, k) <= Current(K, k) /\ Current(K, k) \in Nat
                      /\ Current(K, k) <= top[k] /\ vals[k] \in Nat
  <2> SUFFICES ASSUME NEW k \in Keys
               PROVE  /\ Current(J, k) <= Current(K, k) /\ Current(K, k) \in Nat
                      /\ Current(K, k) <= top[k] /\ vals[k] \in Nat
    OBVIOUS
  <2>1. Current(J, k) \in Contents /\ vals[k] \in Contents
    BY <1>2
  <2>2. Current(J, k) \in Nat /\ vals[k] \in Nat
    BY <2>1, ContentsNat
  <2>3. Current(J, k) <= top[k]
    BY DEF Versioned
  <2>4. Current(K, k) = IF k \in T THEN vals[k] ELSE Current(J, k)
    BY <1>4
  <2> QED
    BY <2>2, <2>3, <2>4
<1>9. \A s \in 1..K.seq : Content(K, s) <= Current(K, KeyOf(K, s))
  <2> SUFFICES ASSUME NEW s \in 1..K.seq PROVE Content(K, s) <= Current(K, KeyOf(K, s))
    OBVIOUS
  <2>1. CASE s \in 1..J.seq
    <3>1. KeyOf(J, s) \in Keys /\ Content(J, s) <= Current(J, KeyOf(J, s))
      BY <1>2, <2>1 DEF Versioned
    <3>2. Content(J, s) \in Nat /\ Current(J, KeyOf(J, s)) \in Nat
      BY <1>2, <2>1, <3>1, ContentsNat
    <3> QED
      BY <1>5, <1>8, <2>1, <3>1, <3>2
  <2>2. CASE s \in (J.seq + 1)..(J.seq + n)
    <3>1. ord[s - J.seq] \in T /\ ord[s - J.seq] \in Keys
      BY <1>1, <1>6, <2>2
    <3> QED
      BY <1>4, <1>6, <1>8, <2>2, <3>1
  <2> QED
    BY <1>7, <2>1, <2>2
<1>10. \A r, s \in 1..K.seq :
          r <= s /\ KeyOf(K, r) = KeyOf(K, s) => Content(K, r) <= Content(K, s)
  <2> SUFFICES ASSUME NEW r \in 1..K.seq, NEW s \in 1..K.seq, r <= s,
                      KeyOf(K, r) = KeyOf(K, s)
               PROVE  Content(K, r) <= Content(K, s)
    OBVIOUS
  <2>1. CASE s \in 1..J.seq
    <3>1. r \in 1..J.seq
      BY <1>2, <2>1
    <3> QED
      BY <1>5, <2>1, <3>1 DEF Versioned
  <2>2. CASE r \in 1..J.seq /\ s \in (J.seq + 1)..(J.seq + n)
    <3>1. /\ KeyOf(J, r) \in Keys /\ Content(J, r) <= Current(J, KeyOf(J, r))
          /\ Content(J, r) \in Nat /\ Current(J, KeyOf(J, r)) \in Nat
      BY <1>2, <2>2, ContentsNat DEF Versioned
    <3>2. KeyOf(J, r) = ord[s - J.seq]
      BY <1>5, <1>6, <2>2
    <3>3. Current(J, KeyOf(J, r)) <= vals[KeyOf(J, r)] /\ vals[KeyOf(J, r)] \in Nat
      BY <1>8, <3>1
    <3> QED
      BY <1>5, <1>6, <2>2, <3>1, <3>2, <3>3
  <2>3. CASE r \in (J.seq + 1)..(J.seq + n) /\ s \in (J.seq + 1)..(J.seq + n)
    <3>1. ord[r - J.seq] = ord[s - J.seq] /\ ord[r - J.seq] \in Keys
      BY <1>1, <1>6, <2>3
    <3> QED
      BY <1>6, <1>8, <2>3, <3>1
  <2>4. r \in (J.seq + 1)..(J.seq + n) => ~(s \in 1..J.seq)
    BY <1>2
  <2> QED
    BY <1>7, <2>1, <2>2, <2>3, <2>4
<1>11. K.clock.trusted = 0
  BY <1>3 DEF Versioned
<1>12. Versioned(K, top)
  BY <1>8, <1>9, <1>10, <1>11 DEF Versioned
<1> QED
  BY <1>4, <1>12 DEF K

\* A scan offers nothing older than what is current, and nothing expires.
LEMMA MergedVersions ==
    ASSUME NEW J, IsJournal(J), Versioned(J, Offered), EnvOK, NEW S
    PROVE  LET vals == MergedContents(J, Desired(S), "UpsertOnly") IN
           /\ \A k \in Keys : Current(J, k) <= vals[k] /\ vals[k] <= Offered[k]
           /\ \A k \in Keys : k \in S => vals[k] = Offered[k]
<1> SUFFICES ASSUME NEW k \in Keys
             PROVE  LET v == MergedContents(J, Desired(S), "UpsertOnly")[k] IN
                    /\ Current(J, k) <= v /\ v <= Offered[k]
                    /\ k \in S => v = Offered[k]
  OBVIOUS
<1> DEFINE v == MergedContents(J, Desired(S), "UpsertOnly")[k]
<1>1. /\ Current(J, k) \in Nat /\ local[k] \in Nat /\ Offered[k] \in Nat
      /\ Expiry[k] \in Nat /\ Absent = 0 /\ Current(J, k) <= Offered[k]
  BY JournalParts, ContentsNat, JournalAssumption
  DEF Versioned, EnvOK, Offered, JournalAssumption
<1>2. Offered[k] = IF Expiry[k] > 0 THEN local[k] ELSE 0
  BY <1>1 DEF Offered
<1>3. J.clock.trusted = 0
  BY DEF Versioned
<1>4. k \in CurrentKeys(J) <=> Current(J, k) # 0
  BY <1>1 DEF CurrentKeys, Current
<1>5. k \notin Expired(J)
  BY <1>1, <1>2, <1>3, <1>4 DEF Expired
<1>6. Desired(S)[k] = IF k \in S THEN local[k] ELSE 0
  BY <1>1 DEF Desired
<1>7. /\ Desired(S)[k] = 0 => v = Current(J, k)
      /\ Desired(S)[k] # 0 =>
            v = IF k \in CurrentKeys(J) \/ Expiry[k] > 0 THEN Desired(S)[k] ELSE 0
  BY <1>1, <1>3, <1>5 DEF MergedContents, Current
<1> HIDE DEF v
<1>8. /\ Current(J, k) <= v /\ v <= Offered[k]
      /\ k \in S => v = Offered[k]
  BY <1>1, <1>2, <1>4, <1>6, <1>7
<1> QED
  BY <1>8 DEF v

\* The journal after a scan; a full scan brings all there is.
LEMMA ExportedVersioned ==
    ASSUME EnvOK, NEW J, JournalOK(J), Versioned(J, Offered), NEW S,
           NEW K \in Exported(J, S)
    PROVE  /\ Versioned(K, Offered)
           /\ \A k \in Keys : Current(J, k) <= Current(K, k)
           /\ \A k \in Keys : k \in S => Current(K, k) = Offered[k]
<1> DEFINE desired == Desired(S)
<1>0. /\ Sound(J) /\ desired \in [Keys -> Contents] /\ Offered \in [Keys -> Nat]
      /\ 0 \in Nat /\ IsJournal(J)
  BY ContentsNat DEF EnvOK, Desired, JournalOK, Offered, Sound
<1>00. \A k \in Keys : Current(J, k) \in Nat
  BY <1>0, JournalParts, ContentsNat
<1>1. CASE SetMatches(J, desired) /\ ~MaintenanceDue(J, 0)
  <2>1. K = J
    BY <1>1 DEF Exported, Reconciled
  <2>2. ASSUME NEW k \in Keys, k \in S PROVE Current(J, k) = Offered[k]
    <3>1. Current(J, k) = local[k] /\ local[k] \in Nat
      BY <1>0, <1>1, <2>2, ContentsNat DEF SetMatches, Current, Desired, EnvOK
    <3>2. Current(J, k) <= Offered[k]
      BY DEF Versioned
    <3>3. Offered[k] = IF Expiry[k] > 0 THEN local[k] ELSE 0
      BY ContentsNat DEF Offered
    <3> QED
      BY <3>1, <3>2, <3>3
  <2> QED
    BY <1>00, <2>1, <2>2
<1>2. CASE ~(SetMatches(J, desired) /\ ~MaintenanceDue(J, 0))
  <2>a. PICK A \in AgePruned(J, 0) :
             \E M \in Merged(A, 0, desired, "UpsertOnly") :
             \E C \in Compacted(M) : K \in Refreshed(C, 0)
    BY <1>2 DEF Exported, Reconciled
  <2>b. PICK M \in Merged(A, 0, desired, "UpsertOnly") :
             \E C \in Compacted(M) : K \in Refreshed(C, 0)
    BY <2>a
  <2>c. PICK C \in Compacted(M) : K \in Refreshed(C, 0)
    BY <2>b
  <2>1. Sound(A)
    BY <1>0, AgeExtends
  <2>2. A.log = J.log /\ A.mat = J.mat /\ A.seq = J.seq /\ A.clock.trusted = 0
    <3>1. NextClock(J.clock, 0).trusted = 0
      <4>1. J.clock.trusted = 0
        BY DEF Versioned
      <4> QED
        BY <4>1, ClockAssumption DEF NextClock, CurrentClock, ClockAssumption
    <3> QED
      BY <3>1 DEF AgePruned, DropThrough, Ticked
  <2>3. Versioned(A, Offered) /\ \A k \in Keys : Current(A, k) = Current(J, k)
    BY <2>2, SameVersions DEF Current
  <2> DEFINE vals == MergedContents(A, desired, "UpsertOnly")
             T    == Transitions(A, vals)
  <2>4. vals \in [Keys -> Contents] /\ T \in SUBSET Keys
    BY <1>0, <2>1, MergedType DEF Sound, Transitions
  <2>5. PICK ord \in Orders(T) : M = AppendBatch(A, 0, T, vals, ord)
    BY DEF Merged
  <2>6. /\ \A k \in Keys : Current(A, k) <= vals[k] /\ vals[k] <= Offered[k]
        /\ \A k \in Keys : k \in S => vals[k] = Offered[k]
    BY <2>1, <2>3, MergedVersions DEF Sound
  <2>7. \A k \in Keys : k \notin T => vals[k] = Current(A, k)
    BY DEF Transitions, Current
  <2> HIDE DEF vals, T
  <2>8. /\ Versioned(M, Offered)
        /\ \A k \in Keys : Current(M, k) = vals[k]
    BY <1>0, <2>1, <2>3, <2>4, <2>5, <2>6, <2>7, AppendVersioned
  <2>9. Sound(M)
    BY <1>0, <2>1, MergeExtends
  <2>10. C.log = M.log /\ C.mat = M.mat /\ C.seq = M.seq /\ C.clock = M.clock
    BY DEF Compacted, DropThrough
  <2>11. Versioned(C, Offered) /\ \A k \in Keys : Current(C, k) = vals[k]
    <3>1. C.clock.trusted = 0
      BY <2>8, <2>10 DEF Versioned
    <3> QED
      BY <2>8, <2>10, <3>1, SameVersions DEF Current
  <2>12. Sound(C)
    BY <2>9, CompactSound
  <2>13. Versioned(K, Offered) /\ \A k \in Keys : Current(K, k) = vals[k]
    <3>1. CASE BootstrapComplete(C)
      BY <2>c, <2>11, <3>1 DEF Refreshed
    <3>2. CASE ~BootstrapComplete(C)
      <4> DEFINE U == CurrentKeys(C)
                 now == [k \in Keys |-> C.mat[k].val]
      <4>1. PICK o \in Orders(U) : K \in Compacted(AppendBatch(C, 0, U, now, o))
        BY <2>c, <3>2 DEF Refreshed
      <4>2. U \in SUBSET Keys /\ now \in [Keys -> Contents]
        BY <2>12, JournalFields DEF Sound, CurrentKeys
      <4>3. \A k \in Keys : now[k] = Current(C, k)
        BY DEF Current
      <4> HIDE DEF U, now
      <4>4. \A k \in Keys : Current(C, k) <= now[k] /\ now[k] <= Offered[k]
        <5> SUFFICES ASSUME NEW k \in Keys
                     PROVE  Current(C, k) <= now[k] /\ now[k] <= Offered[k]
          OBVIOUS
        <5>1. vals[k] \in Nat
          BY <2>4, ContentsNat
        <5> QED
          BY <2>6, <2>11, <4>3, <5>1
      <4> DEFINE N == AppendBatch(C, 0, U, now, o)
      <4>5. Versioned(N, Offered) /\ \A k \in Keys : Current(N, k) = Current(C, k)
        BY <1>0, <2>11, <2>12, <4>2, <4>3, <4>4, AppendVersioned
      <4> HIDE DEF N
      <4>6. K.log = N.log /\ K.mat = N.mat /\ K.seq = N.seq /\ K.clock = N.clock
        BY <4>1 DEF Compacted, DropThrough, N
      <4>7. K.clock.trusted = 0
        BY <4>5, <4>6 DEF Versioned
      <4> QED
        BY <2>11, <4>5, <4>6, <4>7, SameVersions DEF Current
    <3> QED
      BY <3>1, <3>2
  <2> QED
    BY <2>3, <2>6, <2>13
<1> QED
  BY <1>1, <1>2

\* A new namespace has no records.
LEMMA NewVersioned ==
    ASSUME NEW g, EnvOK
    PROVE  Versioned(NewJournal(g, 0), Offered)
<1> DEFINE J == NewJournal(g, 0)
<1>1. /\ J.clock.trusted = 0 /\ J.seq = 0 /\ \A k \in Keys : Current(J, k) = 0
  BY ContentsNat DEF NewJournal, CurrentClock, Current
<1>2. \A k \in Keys : Offered[k] \in Nat
  BY ContentsNat DEF Offered, EnvOK
<1> HIDE DEF J
<1>3. 1..J.seq = {}
  BY <1>1
<1>4. Versioned(J, Offered)
  BY <1>1, <1>2, <1>3 DEF Versioned
<1> QED
  BY <1>4 DEF J

\* What readers of a journal hold is not older than what they held.
LEMMA ReplayVersions ==
    ASSUME NEW J, IsJournal(J), NEW top \in [Keys -> Nat], Versioned(J, top),
           NEW k \in Keys, NEW hi \in 0..J.seq, NEW mid \in 0..hi, NEW lo \in 0..mid
    PROVE  /\ Replay(J, mid, hi, k) \in Nat /\ Replay(J, mid, hi, k) <= top[k]
           /\ Replay(J, mid, hi, k) <= Current(J, k)
           /\ About(J, mid, hi, k) # {} =>
                 Replay(J, lo, mid, k) <= Replay(J, mid, hi, k)
<1>0. /\ \A s \in 1..J.seq : KeyOf(J, s) \in Keys /\ Content(J, s) \in Contents
      /\ Current(J, k) \in Contents /\ J.seq \in Nat
  BY JournalParts
<1>1. /\ J.seq \in Nat /\ hi \in Nat /\ mid \in Nat /\ lo \in Nat
      /\ \A s \in 1..J.seq : Content(J, s) \in Nat
      /\ Current(J, k) \in Nat
  <2>1. /\ \A s \in 1..J.seq : Content(J, s) \in Nat
        /\ Current(J, k) \in Nat
    BY <1>0, ContentsNat
  <2> QED
    BY <1>0, <2>1
<1>2. \A x \in Nat, y \in 0..J.seq : \A s \in About(J, x, y, k) :
         s \in 1..J.seq /\ KeyOf(J, s) = k /\ x < s /\ s <= y
  BY <1>1 DEF About, KeyOf
<1>3. ASSUME NEW x \in Nat, NEW y \in 0..J.seq, About(J, x, y, k) # {}
      PROVE  \E s \in About(J, x, y, k) : Replay(J, x, y, k) = Content(J, s)
  <2>1. PICK s \in About(J, x, y, k) : \A r \in About(J, x, y, k) : r <= s
    BY <1>1, <1>3, AboutLast
  <2> QED
    BY <1>1, <2>1, ReplayLast
<1>4. ASSUME NEW x \in Nat, NEW y \in 0..J.seq
      PROVE  Replay(J, x, y, k) \in Nat /\ Replay(J, x, y, k) <= Current(J, k)
  <2>1. CASE About(J, x, y, k) = {}
    <3>1. Replay(J, x, y, k) = 0
      BY <2>1, ReplayNone, ContentsNat
    <3> QED
      BY <1>1, <3>1
  <2>2. CASE About(J, x, y, k) # {}
    <3>1. PICK s \in About(J, x, y, k) : Replay(J, x, y, k) = Content(J, s)
      BY <1>3, <2>2
    <3>2. s \in 1..J.seq /\ KeyOf(J, s) = k
      BY <1>2, <3>1
    <3> QED
      BY <1>1, <3>1, <3>2 DEF Versioned
  <2> QED
    BY <2>1, <2>2
<1>5. Current(J, k) <= top[k] /\ top[k] \in Nat
  BY DEF Versioned
<1>6. ASSUME About(J, mid, hi, k) # {}
      PROVE  Replay(J, lo, mid, k) <= Replay(J, mid, hi, k)
  <2>1. PICK s \in About(J, mid, hi, k) : Replay(J, mid, hi, k) = Content(J, s)
    BY <1>1, <1>3, <1>6
  <2>2. s \in 1..J.seq /\ KeyOf(J, s) = k /\ mid < s
    BY <1>1, <1>2, <2>1
  <2>3. CASE About(J, lo, mid, k) = {}
    <3>1. Replay(J, lo, mid, k) = 0
      BY <2>3, ReplayNone, ContentsNat
    <3> QED
      BY <1>1, <2>1, <2>2, <3>1
  <2>4. CASE About(J, lo, mid, k) # {}
    <3>0. mid \in 0..J.seq
      BY <1>1
    <3>1. PICK r \in About(J, lo, mid, k) : Replay(J, lo, mid, k) = Content(J, r)
      BY <1>1, <1>3, <2>4, <3>0
    <3>2. r \in 1..J.seq /\ KeyOf(J, r) = k /\ r <= mid
      BY <1>1, <1>2, <3>0, <3>1
    <3>3. r <= s
      BY <1>1, <2>2, <3>2
    <3> QED
      BY <2>1, <2>2, <3>1, <3>2, <3>3 DEF Versioned
  <2> QED
    BY <2>3, <2>4
<1>7. Replay(J, mid, hi, k) \in Nat /\ Replay(J, mid, hi, k) <= Current(J, k)
  BY <1>1, <1>4
<1> QED
  BY <1>1, <1>5, <1>6, <1>7

\* f gives no record a newer content than top has.
Below(f, top) == \A k \in DOMAIN f : f[k] <= top[k]

VersionsOK == \A b \in Bindings : journals[b] # None => Versioned(journals[b], Offered)

RowsOK == \A g \in DOMAIN catalog : Below(catalog[g].rows, Offered)

\* The generation that the next page of S goes to.
Target(S) == IF S.boot # None THEN S.boot.hgen ELSE S.active.hgen

\* S still asks from the cursor c.
Atop(S, c) == S # None /\ c # None /\ Position(S) = c

\* The patch takes no record of rows back.
Newer(rows, patch) == \A k \in DOMAIN patch : rows[k] <= patch[k]

\* The run carries a page that it has not finished with.
Paged == (run.pc = "answered" \/ run.op = "commit") /\ IsPage

\* The page on its way takes the generation it is meant for forward, whatever
\* has become of the journal it was read from.
PatchOK ==
    Paged =>
        /\ Below(run.answer.patch, Offered)
        /\ Atop(State(run.binding), run.cursor) =>
              Newer(catalog[Target(State(run.binding))].rows, run.answer.patch)

Versions == VersionsOK /\ RowsOK /\ PatchOK

\* What is offered are numbers.
LEMMA OfferedType ==
    ASSUME EnvOK
    PROVE  /\ Offered \in [Keys -> Nat]
           /\ \A k \in Keys : local[k] \in Nat /\ Offered[k] <= local[k]
<1> SUFFICES ASSUME NEW k \in Keys
             PROVE  local[k] \in Nat /\ Offered[k] \in Nat /\ Offered[k] <= local[k]
  BY DEF Offered
<1>1. local[k] \in Contents
  BY DEF EnvOK
<1>2. local[k] \in Nat /\ Offered[k] \in {local[k], 0}
  BY <1>1, ContentsNat DEF Offered
<1> QED
  BY <1>2

\* A patch on top of rows.
LEMMA PatchedRows ==
    ASSUME NEW rows \in [Keys -> Contents], NEW a \in Responses
    PROVE  /\ Newer(Patched(rows, a.patch), a.patch)
           /\ \A top : Below(rows, top) /\ Below(a.patch, top) =>
                         Below(Patched(rows, a.patch), top)
           /\ Newer(rows, a.patch) =>
                 \A k \in Keys : rows[k] <= Patched(rows, a.patch)[k]
<1>1. PICK D \in SUBSET Keys : a.patch \in [D -> Contents]
  BY DEF Responses
<1> DEFINE p == a.patch
<1>2. /\ DOMAIN p = D /\ DOMAIN Patched(rows, p) = Keys /\ DOMAIN rows = Keys
      /\ \A k \in D : p[k] \in Nat /\ Patched(rows, p)[k] = p[k]
      /\ \A k \in Keys : rows[k] \in Nat
      /\ \A k \in Keys \ D : Patched(rows, p)[k] = rows[k]
  <2>1. \A k \in D : p[k] \in Contents
    BY <1>1
  <2>2. \A k \in Keys : rows[k] \in Contents
    OBVIOUS
  <2>3. /\ \A k \in D : Patched(rows, p)[k] = p[k]
        /\ \A k \in Keys \ D : Patched(rows, p)[k] = rows[k]
        /\ DOMAIN p = D /\ DOMAIN Patched(rows, p) = Keys /\ DOMAIN rows = Keys
    BY <1>1 DEF Patched
  <2> QED
    BY <2>1, <2>2, <2>3, ContentsNat
<1> HIDE DEF p
<1>3. Newer(Patched(rows, p), p)
  BY <1>2 DEF Newer
<1>4. \A top : Below(rows, top) /\ Below(p, top) => Below(Patched(rows, p), top)
  BY <1>2 DEF Below
<1>5. Newer(rows, p) => \A k \in Keys : rows[k] <= Patched(rows, p)[k]
  BY <1>2 DEF Newer
<1> QED
  BY <1>3, <1>4, <1>5 DEF p

\* The generations that are left hold what they held.
LEMMA RowsKept ==
    ASSUME RowsOK, UNCHANGED local,
           \A g \in DOMAIN catalog' :
              \/ g \in DOMAIN catalog /\ catalog'[g].rows = catalog[g].rows
              \/ Below(catalog'[g].rows, Offered)
    PROVE  RowsOK'
<1>1. Offered' = Offered
  BY DEF Offered
<1> QED
  BY <1>1 DEF RowsOK

\* The page on its way stays what it is.
LEMMA PatchKept ==
    ASSUME PatchOK, UNCHANGED local, NEW b, b = run.binding,
           Paged' => /\ Paged
                     /\ run'.answer = run.answer /\ run'.cursor = run.cursor
                     /\ run'.binding = run.binding
                     /\ Atop(State(b)', run.cursor) =>
                           /\ Atop(State(b), run.cursor)
                           /\ catalog'[Target(State(b)')].rows
                                = catalog[Target(State(b))].rows
    PROVE  PatchOK'
<1>1. Offered' = Offered
  BY DEF Offered
<1> SUFFICES ASSUME Paged'
             PROVE  /\ Below(run.answer.patch, Offered)
                    /\ Atop(State(b)', run.cursor) =>
                          Newer(catalog'[Target(State(b)')].rows, run.answer.patch)
  BY <1>1 DEF PatchOK, State
<1> QED
  BY DEF PatchOK

\* A state that asks from a cursor has a generation for its pages.
LEMMA TargetLive ==
    ASSUME NEW S, NEW c, Atop(S, c)
    PROVE  Target(S) \in Reads(S) \cup Fills(S)
BY DEF Atop, Target, Position, Reads, Fills

\* Every step of an open phase keeps the versions.
LEMMA VersionsPhase ==
    ASSUME Base, Refs, Versions, PhaseStep, UNCHANGED envVars
    PROVE  Versions'
<1>1. run \in Runs /\ StoreOK /\ UNCHANGED <<journals, local>> /\ EnvOK
  BY DEF Base, CenterOK, RunSide, envVars
<1>2. InPhase
  BY DEF PhaseStep, RecoverActivate, RecoverSkip, RecoverRefused, BeginRetry, Collect,
         Forget, Sweep, ReturnPosition, EnsureGeneration, WantsBootstrap,
         PublishBootstrap, BootstrapReady, RefuseMoved, RefuseBootstrap, RefusePage,
         ApplyStagedPage, ApplyActivePage, AtPage, FinishActivate, FinishSkip, InPhase
<1>3. PICK b \in Bindings : b = run.binding /\ State(b) # None
  BY <1>2, PhaseFacts
<1> DEFINE S == State(b)
<1>4. S \in IngestStates /\ Offered' = Offered
  BY <1>1, <1>3, StateFields DEF Offered
<1>5. VersionsOK'
  BY <1>1, <1>4 DEF Versions, VersionsOK
<1>6. /\ RowsOK /\ PatchOK
      /\ \A c \in Bindings : State(c) # None =>
            /\ Reads(State(c)) \cup Fills(State(c)) \subseteq LiveGenerations(State(c))
            /\ Reads(State(c)) \cup Fills(State(c)) \subseteq DOMAIN catalog
  BY LiveParts DEF Versions, Refs, ReferencesHold
<1>7. ASSUME run' = Idle \/ run' = Continued PROVE PatchOK'
  <2>1. run'.pc # "answered" /\ run'.op # "commit"
    <3>1. CASE run' = Idle
      BY <3>1, IdleRun
    <3>2. CASE run' = Continued /\ run.answer.more
      BY <3>2 DEF Continued, Idle
    <3>3. CASE run' = Continued /\ ~run.answer.more
      BY <3>3, IdleRun DEF Continued
    <3> QED
      BY <1>7, <3>1, <3>2, <3>3
  <2> QED
    BY <2>1 DEF PatchOK, Paged
<1>8. ASSUME UNCHANGED catalog PROVE RowsOK'
  BY <1>1, <1>6, <1>8, RowsKept
<1>9. ASSUME EndRun \/ FinishSkip PROVE Versions'
  BY <1>5, <1>7, <1>8, <1>9 DEF EndRun, FinishSkip, Versions
<1>10. ASSUME RecoverSkip \/ BeginRetry \/ ReturnPosition PROVE Versions'
  <2>1. UNCHANGED <<ingest, catalog>> /\ State(b)' = S
    BY <1>10 DEF RecoverSkip, BeginRetry, ReturnPosition, State
  <2>2. /\ run'.answer = run.answer /\ run'.binding = run.binding /\ run'.op = run.op
        /\ run'.pc # "answered"
        /\ run.op = "commit" => run'.cursor = run.cursor
    BY <1>1, <1>10 DEF RecoverSkip, BeginRetry, ReturnPosition, Runs
  <2>3. PatchOK'
    BY <1>1, <1>3, <1>6, <2>1, <2>2, PatchKept DEF Paged, IsPage
  <2> QED
    BY <1>5, <1>8, <2>1, <2>3 DEF Versions
<1>11. ASSUME NEW gone, \A g \in gone : Collectable(g, ingest, manifest),
              catalog' = Without(catalog, gone), UNCHANGED ingest,
              run'.answer = run.answer, run'.binding = run.binding, run'.op = run.op,
              run'.pc # "answered", run'.cursor = run.cursor
       PROVE  Versions'
  <2>1. /\ DOMAIN catalog' = DOMAIN catalog \ gone
        /\ \A g \in DOMAIN catalog \ gone : catalog'[g] = catalog[g]
    BY <1>1, <1>11, WithoutType
  <2>2. gone \cap LiveGenerations(S) = {}
    BY <1>3, <1>11 DEF Collectable, Protected, State
  <2>3. State(b)' = S
    BY <1>11 DEF State
  <2>4. Atop(S, run.cursor) => catalog'[Target(S)].rows = catalog[Target(S)].rows
    BY <1>3, <1>6, <2>1, <2>2, TargetLive
  <2>5. PatchOK'
    BY <1>1, <1>3, <1>6, <1>11, <2>3, <2>4, PatchKept DEF Paged, IsPage
  <2>6. RowsOK'
    BY <1>1, <1>6, <2>1, RowsKept
  <2> QED
    BY <1>5, <2>5, <2>6 DEF Versions
<1>12. ASSUME NEW g \in HistGens, Collect(g) PROVE Versions'
  <2>1. /\ run.pc = "cleanup" /\ UNCHANGED ingest
        /\ run'.answer = run.answer /\ run'.binding = run.binding /\ run'.op = run.op
        /\ run'.pc # "answered" /\ run'.cursor = run.cursor
    BY <1>1, <1>12 DEF Collect, Runs
  <2>2. CASE Collectable(g, ingest, manifest)
    BY <1>11, <1>12, <2>1, <2>2 DEF Collect
  <2>3. CASE ~Collectable(g, ingest, manifest)
    <3>1. UNCHANGED catalog /\ State(b)' = S
      BY <1>12, <2>1, <2>3 DEF Collect, State
    <3>2. PatchOK'
      BY <1>1, <1>3, <1>6, <2>1, <3>1, PatchKept DEF Paged, IsPage
    <3> QED
      BY <1>5, <1>8, <3>1, <3>2 DEF Versions
  <2> QED
    BY <2>2, <2>3
<1>13. ASSUME Sweep PROVE Versions'
  <2>1. PICK T : /\ \A g \in T : Collectable(g, ingest, manifest)
                 /\ catalog' = Without(catalog, T)
    BY <1>13 DEF Sweep
  <2>2. /\ UNCHANGED ingest
        /\ run'.answer = run.answer /\ run'.binding = run.binding /\ run'.op = run.op
        /\ run'.pc # "answered" /\ run'.cursor = run.cursor
    BY <1>1, <1>13 DEF Sweep, Runs
  <2> QED
    BY <1>11, <2>1, <2>2
<1>14. ASSUME Forget PROVE Versions'
  <2> DEFINE T == [S EXCEPT !.retired = @ \ {run.hgen}]
  <2>1. ingest' = [ingest EXCEPT ![b] = T] /\ UNCHANGED <<manifest, catalog>>
    BY <1>3, <1>14 DEF Forget, State
  <2>2. T.boot = S.boot /\ T.active = S.active
    BY <1>4 DEF IngestStates
  <2>3. State(b)' = T
    BY <1>1, <2>1, OneState
  <2>4. /\ run'.answer = run.answer /\ run'.binding = run.binding /\ run'.op = run.op
        /\ run'.pc # "answered" /\ run'.cursor = run.cursor
    BY <1>1, <1>14 DEF Forget, Runs
  <2> HIDE DEF T
  <2>5. Atop(T, run.cursor) => Atop(S, run.cursor)
    BY <1>3, <2>2 DEF Atop, Position
  <2>6. Target(T) = Target(S)
    BY <2>2 DEF Target
  <2>7. PatchOK'
    BY <1>1, <1>3, <1>6, <2>1, <2>3, <2>4, <2>5, <2>6, PatchKept DEF Paged, IsPage
  <2> QED
    BY <1>5, <1>8, <2>1, <2>7 DEF Versions
<1>15. ASSUME EnsureGeneration PROVE Versions'
  <2>1. PICK g \in Unused :
          /\ catalog' = [x \in DOMAIN catalog \cup {g} |->
                           IF x = g THEN [binding |-> run.binding, rows |-> EmptyRows]
                           ELSE catalog[x]]
          /\ run' = [run EXCEPT !.pc = "publish", !.hgen = g]
    BY <1>15, EnsureEffect
  <2>2. run.op # "commit"
    BY <1>15 DEF EnsureGeneration, WantsBootstrap
  <2>3. PatchOK'
    BY <1>1, <2>1, <2>2 DEF PatchOK, Paged, Runs
  <2>4. Below(EmptyRows, Offered)
    BY <1>1, OfferedType, ContentsNat DEF Below, EmptyRows
  <2>5. \A x \in DOMAIN catalog' :
           \/ x \in DOMAIN catalog /\ catalog'[x].rows = catalog[x].rows
           \/ catalog'[x].rows = EmptyRows
    BY <2>1
  <2>6. RowsOK'
    BY <1>1, <1>6, <2>4, <2>5, RowsKept
  <2> QED
    BY <1>5, <2>3, <2>6 DEF Versions
<1>16. ASSUME PublishBootstrap PROVE Versions'
  <2>1. UNCHANGED catalog /\ run'.op = "restarted" /\ run'.pc = "cleanup"
    BY <1>1, <1>16 DEF PublishBootstrap, Runs
  <2>2. PatchOK'
    BY <2>1 DEF PatchOK, Paged
  <2> QED
    BY <1>5, <1>8, <2>1, <2>2 DEF Versions
<1>17. ASSUME BootstrapReady PROVE Versions'
  <2>1. UNCHANGED catalog /\ run'.op \in {"position", "none"} /\ run'.pc # "answered"
    BY <1>1, <1>17, IdleRun DEF BootstrapReady, Runs
  <2>2. PatchOK'
    BY <2>1 DEF PatchOK, Paged
  <2> QED
    BY <1>5, <1>8, <2>1, <2>2 DEF Versions
<1>18. ASSUME Activate, run' = Continued \/ run' = [run EXCEPT !.pc = "retry"]
       PROVE  Versions'
  <2> DEFINE T(gone) == [active |-> [hgen |-> S.boot.hgen, cursor |-> S.boot.cursor],
                         boot |-> None,
                         retired |-> (S.retired \cup Selected(S.boot.expected)) \ gone]
  <2>1. PICK gone \in SUBSET Selected(S.boot.expected) :
           /\ ingest' = [ingest EXCEPT ![b] = T(gone)]
           /\ catalog' = Without(catalog, gone)
           /\ \A g \in gone : g # S.boot.hgen
    BY <1>2, <1>3, <1>18, ActivateEffect
  <2>2. S.boot # None /\ S.boot.ready /\ S.boot.hgen \in DOMAIN catalog
    BY <1>2, <1>3, <1>18, ActivateEffect
  <2>3. /\ DOMAIN catalog' = DOMAIN catalog \ gone
        /\ \A g \in DOMAIN catalog \ gone : catalog'[g] = catalog[g]
    BY <1>1, <2>1, WithoutType
  <2>4. RowsOK'
    BY <1>1, <1>6, <2>3, RowsKept
  <2>5. CASE run' = Continued
    BY <1>5, <1>7, <2>4, <2>5 DEF Versions
  <2>6. CASE run' = [run EXCEPT !.pc = "retry"]
    <3>1. /\ run'.answer = run.answer /\ run'.binding = run.binding /\ run'.op = run.op
          /\ run'.pc # "answered" /\ run'.cursor = run.cursor
      BY <1>1, <2>6 DEF Runs
    <3>2. State(b)' = T(gone)
      BY <1>1, <2>1, OneState
    <3>3. /\ S.boot.hgen \in HistGens /\ S.boot.cursor \in Cursors
      BY <1>1, <1>3, <2>2, StateFields DEF Base, CenterOK, ReadyOK
    <3>4. T(gone).active # None
      <4>1. T(gone).active \in Actives
        BY <3>3 DEF Actives
      <4> QED
        BY <4>1, NoneAssumption DEF NoneAssumption
    <3>5. /\ Target(T(gone)) = S.boot.hgen /\ Target(S) = S.boot.hgen
          /\ Position(T(gone)) = Position(S)
      BY <2>2, <3>4 DEF Target, Position
    <3>6. catalog'[S.boot.hgen] = catalog[S.boot.hgen]
      BY <2>1, <2>2, <2>3
    <3> HIDE DEF T
    <3>7. PatchOK'
      BY <1>1, <1>3, <1>6, <3>1, <3>2, <3>5, <3>6, PatchKept DEF Paged, IsPage, Atop
    <3> QED
      BY <1>5, <2>4, <3>7 DEF Versions
  <2> QED
    BY <1>18, <2>5, <2>6
<1>19. ASSUME NEW g \in DOMAIN catalog, NEW T, run.op = "commit",
              State(b)' = T, T # None => Target(T) = g,
              DOMAIN catalog' = DOMAIN catalog,
              \A x \in DOMAIN catalog \ {g} : catalog'[x] = catalog[x],
              catalog'[g].rows = Patched(catalog[g].rows, run.answer.patch),
              run' = [run EXCEPT !.pc = "finish"]
       PROVE  Versions'
  <2>1. run.answer \in Responses /\ run.answer # None /\ run.answer.kind = "page"
    BY <1>2, <1>19, PhaseFacts, NoneAssumption DEF NoneAssumption
  <2>2. catalog[g].rows \in [Keys -> Contents]
    BY <1>1 DEF StoreOK, Generations
  <2>3. Below(run.answer.patch, Offered)
    BY <1>6, <1>19, <2>1 DEF PatchOK, Paged, IsPage
  <2>4. Below(catalog'[g].rows, Offered) /\ Newer(catalog'[g].rows, run.answer.patch)
    BY <1>6, <1>19, <2>1, <2>2, <2>3, PatchedRows DEF RowsOK
  <2>5. RowsOK'
    BY <1>1, <1>6, <1>19, <2>4, RowsKept
  <2>6. /\ run'.answer = run.answer /\ run'.binding = b
    BY <1>1, <1>3, <1>19 DEF Runs
  <2>7. Atop(State(b)', run'.cursor) =>
           Newer(catalog'[Target(State(b)')].rows, run.answer.patch)
    BY <1>19, <2>4 DEF Atop
  <2>8. PatchOK'
    BY <1>4, <2>3, <2>6, <2>7 DEF PatchOK, State
  <2> QED
    BY <1>5, <2>5, <2>8 DEF Versions
<1>20. ASSUME ApplyStagedPage PROVE Versions'
  <2> DEFINE T == [S EXCEPT !.boot = Staged(S.boot, run.answer)]
  <2>1. /\ AtPage /\ S.boot.hgen \in DOMAIN catalog
        /\ ingest' = [ingest EXCEPT ![b] = T]
        /\ T.boot # None /\ T.boot.hgen = S.boot.hgen
        /\ DOMAIN catalog' = DOMAIN catalog
        /\ \A g \in DOMAIN catalog \ {S.boot.hgen} : catalog'[g] = catalog[g]
        /\ catalog'[S.boot.hgen].rows =
              Patched(catalog[S.boot.hgen].rows, run.answer.patch)
        /\ run' = [run EXCEPT !.pc = "finish"]
    BY <1>3, <1>20, StagedEffect
  <2> HIDE DEF T
  <2>2. State(b)' = T /\ Target(T) = S.boot.hgen /\ run.op = "commit"
    BY <1>1, <2>1, OneState DEF Target, AtPage
  <2> QED
    BY <1>19, <2>1, <2>2
<1>21. ASSUME ApplyActivePage PROVE Versions'
  <2> DEFINE T == [S EXCEPT !.active = [hgen |-> S.active.hgen,
                                       cursor |-> run.answer.next]]
  <2>1. /\ AtPage /\ S.active.hgen \in DOMAIN catalog
        /\ ingest' = [ingest EXCEPT ![b] = T]
        /\ T.boot = None /\ T.active = [hgen |-> S.active.hgen, cursor |-> run.answer.next]
        /\ DOMAIN catalog' = DOMAIN catalog
        /\ \A g \in DOMAIN catalog \ {S.active.hgen} : catalog'[g] = catalog[g]
        /\ catalog'[S.active.hgen].rows =
              Patched(catalog[S.active.hgen].rows, run.answer.patch)
        /\ run' = [run EXCEPT !.pc = "finish"]
    BY <1>3, <1>21, ActiveEffect
  <2> HIDE DEF T
  <2>2. State(b)' = T /\ run.op = "commit"
    BY <1>1, <2>1, OneState DEF AtPage
  <2>3. Target(T) = S.active.hgen
    BY <2>1 DEF Target
  <2> QED
    BY <1>19, <2>1, <2>2, <2>3
<1> QED
  BY <1>9, <1>10, <1>12, <1>13, <1>14, <1>15, <1>16, <1>17, <1>18, <1>20, <1>21
  DEF PhaseStep, RecoverActivate, RecoverRefused, FinishActivate, RefuseMoved,
      RefuseBootstrap, RefusePage

\* A page is not older than what it goes on top of, nor newer than the remote.
LEMMA PageVersions ==
    ASSUME EnvOK, NEW K, JournalOK(K), Versioned(K, Offered),
           NEW c \in Cursors, ~CursorLapsed(K, c), NEW n \in c.seq..K.seq
    PROVE  /\ Below(PageAt(K, c, n).patch, Offered)
           /\ \A rows : \A lo \in 0..c.seq :
                 Holds(rows, K, lo, c.seq) => Newer(rows, PageAt(K, c, n).patch)
<1>1. K.seq \in Nat /\ c.seq \in Nat /\ n \in Nat /\ K.floor \in Nat /\ IsJournal(K)
      /\ K.log \in [1..K.seq -> Change]
  BY JournalFields DEF JournalOK, Sound, Cursors
<1>2. ~(c.seq < K.floor)
  BY <1>1 DEF CursorLapsed
<1> DEFINE p == PageAt(K, c, n).patch
<1>3. p = [k \in {K.log[s].key : s \in (c.seq + 1)..n} |-> Replay(K, c.seq, n, k)]
  BY <1>2 DEF PageAt, Patch
<1>4. DOMAIN p = {K.log[s].key : s \in (c.seq + 1)..n}
  BY <1>3
<1>5. ASSUME NEW k \in DOMAIN p
      PROVE  k \in Keys /\ p[k] = Replay(K, c.seq, n, k) /\ About(K, c.seq, n, k) # {}
  <2>1. PICK s \in (c.seq + 1)..n : k = K.log[s].key
    BY <1>4, <1>5
  <2>2. s \in 1..K.seq
    BY <1>1
  <2>3. k \in Keys
    BY <1>1, <2>1, <2>2 DEF Change
  <2>4. s \in About(K, c.seq, n, k)
    BY <2>1 DEF About
  <2>5. p[k] = Replay(K, c.seq, n, k)
    BY <1>3, <1>4, <1>5
  <2> QED
    BY <2>3, <2>4, <2>5
<1> HIDE DEF p
<1>6. n \in 0..K.seq /\ c.seq \in 0..n /\ Offered \in [Keys -> Nat]
  BY <1>1, OfferedType
<1>7. Below(p, Offered)
  <2> SUFFICES ASSUME NEW k \in DOMAIN p PROVE p[k] <= Offered[k]
    BY DEF Below
  <2>1. 0 \in 0..c.seq
    BY <1>1
  <2> QED
    BY <1>1, <1>5, <1>6, <2>1, ReplayVersions
<1>8. ASSUME NEW rows, NEW lo \in 0..c.seq, Holds(rows, K, lo, c.seq)
      PROVE  Newer(rows, p)
  <2> SUFFICES ASSUME NEW k \in DOMAIN p PROVE rows[k] <= p[k]
    BY DEF Newer
  <2>1. rows[k] = Replay(K, lo, c.seq, k)
    BY <1>5, <1>8 DEF Holds
  <2> QED
    BY <1>1, <1>5, <1>6, <2>1, ReplayVersions
<1> QED
  BY <1>7, <1>8 DEF p

\* The exporter's answer keeps the versions.
LEMMA VersionsServe ==
    ASSUME Kept, Versions, Waiting, NEW J \in Namespaces(agreed), NEW K, JournalOK(K),
           Extends(J, K), K.gen = J.gen, J.seq <= K.seq,
           Versioned(J, Offered) => Versioned(K, Offered),
           NEW c, NEW a \in Answers(K, c),
           c = IF run.cursor # None THEN run.cursor
               ELSE [gen |-> K.gen, seq |-> K.floor],
           journals' = [journals EXCEPT ![agreed] = K], Answer(a),
           UNCHANGED <<ingest, manifest, catalog, local, agreed, purge, calm>>
    PROVE  Versions' /\ Versioned(K, Offered)
<1>1. /\ journals'[agreed] = K
      /\ \A b \in Bindings \ {agreed} : journals'[b] = journals[b]
      /\ a \in Responses /\ run'.answer = a /\ run'.cursor = run.cursor
      /\ run'.binding = run.binding
      /\ a.kind = "page" => PageFor(K, run.cursor, a)
  BY ServeBase DEF Kept
<1>2. PICK b \in Bindings : b = agreed /\ b = run.binding
  BY DEF Kept, Base, EnvOK, Waiting
<1>3. EnvOK /\ Offered' = Offered
  BY DEF Kept, Base, Offered
<1>4. Versioned(K, Offered)
  <2>1. CASE journals[b] # None
    <3>1. J = journals[b]
      BY <1>2, <2>1, NamespaceOK DEF Kept
    <3> QED
      BY <2>1, <3>1 DEF Versions, VersionsOK
  <2>2. CASE journals[b] = None
    <3>1. PICK g \in JournalGens \ NamedGens : J = NewJournal(g, 0)
      BY <1>2, <2>2, NamespaceOK DEF Kept
    <3> QED
      BY <1>3, <3>1, NewVersioned
  <2> QED
    BY <2>1, <2>2
<1>5. VersionsOK'
  BY <1>1, <1>2, <1>3, <1>4 DEF Versions, VersionsOK
<1>6. RowsOK'
  BY <1>3, RowsKept DEF Versions
<1>7. PatchOK'
  <2> SUFFICES ASSUME a.kind = "page"
               PROVE  /\ Below(a.patch, Offered)
                      /\ Atop(State(b), run.cursor) =>
                            Newer(catalog[Target(State(b))].rows, a.patch)
    BY <1>1, <1>2, <1>3 DEF PatchOK, Paged, IsPage, State
  <2>1. ~CursorLapsed(K, c) /\ \E n \in c.seq..K.seq : a = PageAt(K, c, n)
    BY <1>1 DEF PageFor
  <2>2. PICK n \in c.seq..K.seq : a = PageAt(K, c, n)
    BY <2>1
  <2>3. c \in Cursors
    <3>1. run.cursor \in Cursors \cup {None}
      BY RunFields DEF Kept, Base, RunSide
    <3>2. [gen |-> K.gen, seq |-> K.floor] \in Cursors
      BY JournalFields DEF JournalOK, Sound, Cursors
    <3> QED
      BY <3>1, <3>2
  <2>4. /\ Below(a.patch, Offered)
        /\ \A rows : \A lo \in 0..c.seq : Holds(rows, K, lo, c.seq) => Newer(rows, a.patch)
    BY <1>3, <1>4, <2>1, <2>2, <2>3, PageVersions
  <2>5. ASSUME Atop(State(b), run.cursor)
        PROVE  Newer(catalog[Target(State(b))].rows, a.patch)
    <3> DEFINE S == State(b)
               rows == catalog[Target(S)].rows
    <3>1. /\ S # None /\ run.cursor # None /\ Position(S) = run.cursor /\ c = run.cursor
      BY <2>5 DEF Atop
    <3>2. StateExact(S, K, catalog)
      BY <1>2, <3>1, ExactServe DEF Kept
    <3>3. c.gen = K.gen /\ c.seq \in Nat
      BY <2>1, <2>3 DEF CursorLapsed, Cursors
    <3>4. \E lo \in 0..c.seq : Holds(rows, K, lo, c.seq)
      <4>1. CASE S.boot # None
        <5>1. BootExact(S.boot, K, rows) /\ S.boot.cursor = c
          BY <3>1, <3>2, <4>1 DEF StateExact, Target, Position
        <5>2. PICK lo \in 0..K.floor : lo <= c.seq /\ Holds(rows, K, lo, c.seq)
          BY <3>1, <3>3, <5>1 DEF BootExact
        <5>3. lo \in 0..c.seq
          BY <3>3, <5>2, JournalFields DEF JournalOK, Sound
        <5> QED
          BY <5>2, <5>3
      <4>2. CASE S.boot = None
        <5>1. S.active # None /\ S.active.cursor = c
          BY <3>1, <4>2 DEF Position
        <5>2. ActiveExact(S.active, K, rows)
          BY <3>2, <4>2, <5>1 DEF StateExact, Target
        <5>3. Holds(rows, K, 0, c.seq) /\ 0 \in 0..c.seq
          BY <3>3, <5>1, <5>2 DEF ActiveExact
        <5> QED
          BY <5>3
      <4> QED
        BY <4>1, <4>2
    <3> QED
      BY <2>4, <3>4
  <2> QED
    BY <2>4, <2>5
<1> QED
  BY <1>4, <1>5, <1>6, <1>7 DEF Versions

\* The remote has more; what there is stays below it.
LEMMA OfferedGrows ==
    ASSUME EnvOK, NEW k \in Keys, local' = [local EXCEPT ![k] = @ + 1]
    PROVE  /\ \A x \in Keys : /\ Offered[x] \in Nat /\ Offered'[x] \in Nat
                              /\ Offered[x] <= Offered'[x]
<1> SUFFICES ASSUME NEW x \in Keys
             PROVE  /\ Offered[x] \in Nat /\ Offered'[x] \in Nat
                    /\ Offered[x] <= Offered'[x]
  OBVIOUS
<1>1. /\ local[x] \in Nat
      /\ local'[x] = IF x = k THEN local[x] + 1 ELSE local[x]
  BY OfferedType DEF EnvOK
<1>2. /\ Offered[x] = IF Expiry[x] > 0 THEN local[x] ELSE 0
      /\ Offered'[x] = IF Expiry[x] > 0 THEN local'[x] ELSE 0
  BY ContentsNat DEF Offered
<1> QED
  BY <1>1, <1>2

\* Every step keeps the versions.
LEMMA VersionsNext ==
    ASSUME Kept, Versions, [Next \/ Settle]_syncVars
    PROVE  Versions'
<1>0. Base /\ Refs /\ Exact /\ StoreOK /\ EnvOK /\ run \in Runs
  BY DEF Kept, Base, CenterOK, RunSide
<1>1. ASSUME UNCHANGED <<ingest, catalog, run, journals, local>> PROVE Versions'
  BY <1>1 DEF Versions, VersionsOK, RowsOK, PatchOK, Paged, IsPage, Offered, State
<1>2. ASSUME Start PROVE Versions'
  <2>1. /\ UNCHANGED <<catalog, journals, local>>
        /\ run' = [Idle EXCEPT !.pc = "activate", !.op = "position", !.binding = agreed]
    BY <1>2 DEF Start, StartRun, envVars
  <2>2. run'.pc = "activate" /\ run'.op = "position"
    BY <2>1 DEF Idle
  <2> QED
    BY <2>1, <2>2 DEF Versions, VersionsOK, RowsOK, PatchOK, Paged, Offered
<1>3. ASSUME Phase PROVE Versions'
  BY <1>0, <1>3, VersionsPhase DEF Phase
<1>4. ASSUME Accept \/ ClaimPurge PROVE Versions'
  <2>1. UNCHANGED <<ingest, catalog, journals, local>>
    BY <1>4 DEF Accept, ClaimPurge, envVars
  <2>2. /\ run'.answer = run.answer /\ run'.cursor = run.cursor
        /\ run'.binding = run.binding
        /\ Paged' => Paged
    <3>1. CASE Accept
      <4>1. /\ run.pc = "answered" /\ run'.answer = run.answer
            /\ run'.cursor = run.cursor /\ run'.binding = run.binding
        BY <1>0, <3>1 DEF Accept, Runs
      <4> QED
        BY <4>1 DEF Paged, IsPage
    <3>2. CASE ClaimPurge
      <4>1. /\ run'.answer = run.answer /\ run'.cursor = run.cursor
            /\ run'.binding = run.binding /\ run'.pc = run.pc /\ run'.op = run.op
        BY <1>0, <3>2 DEF ClaimPurge, Runs
      <4> QED
        BY <4>1 DEF Paged, IsPage
    <3> QED
      BY <1>4, <3>1, <3>2
  <2>3. \A x : State(x)' = State(x)
    BY <2>1 DEF State
  <2>4. PatchOK'
    BY <2>1, <2>2, <2>3, PatchKept DEF Versions
  <2> QED
    BY <2>1, <2>4 DEF Versions, VersionsOK, RowsOK, Offered
<1>5. ASSUME Refuse \/ Abort PROVE Versions'
  <2>1. run' = Idle /\ UNCHANGED <<ingest, catalog, journals, local>>
    BY <1>5 DEF Refuse, Abort, EndRun, envVars
  <2> QED
    BY <2>1, IdleRun DEF Versions, VersionsOK, RowsOK, PatchOK, Paged, Offered
<1>6. ASSUME ServePending PROVE Versions'
  <2>1. PICK J \in Namespaces(agreed) : \E a \in Answers(J, run.cursor) :
             /\ Waiting /\ run.cursor # None /\ JournalOK(J)
             /\ journals' = [journals EXCEPT ![agreed] = J] /\ Answer(a)
             /\ UNCHANGED <<ingest, manifest, catalog, local, agreed, purge, calm>>
    BY <1>0, <1>6, PendingServes
  <2>2. J.seq <= J.seq /\ Extends(J, J)
    BY <2>1, JournalFields, ExtendsSelf DEF JournalOK, Sound
  <2> QED
    BY <2>1, <2>2, VersionsServe
<1>7. ASSUME NEW S, ServeScan(S) PROVE Versions'
  <2>1. PICK J \in Namespaces(agreed) : \E K \in Exported(J, S) :
             \E a \in Answers(K, IF run.cursor # None THEN run.cursor
                                 ELSE [gen |-> K.gen, seq |-> K.floor]) :
               /\ Waiting /\ JournalOK(J) /\ JournalOK(K) /\ Extends(J, K)
               /\ K.gen = J.gen /\ J.seq <= K.seq
               /\ journals' = [journals EXCEPT ![agreed] = K] /\ Answer(a)
               /\ UNCHANGED <<ingest, manifest, catalog, local, agreed, purge, calm>>
    BY <1>0, <1>7, ScanServes
  <2>2. PICK K \in Exported(J, S) :
             \E a \in Answers(K, IF run.cursor # None THEN run.cursor
                                 ELSE [gen |-> K.gen, seq |-> K.floor]) :
               /\ Waiting /\ JournalOK(J) /\ JournalOK(K) /\ Extends(J, K)
               /\ K.gen = J.gen /\ J.seq <= K.seq
               /\ journals' = [journals EXCEPT ![agreed] = K] /\ Answer(a)
               /\ UNCHANGED <<ingest, manifest, catalog, local, agreed, purge, calm>>
    BY <2>1
  <2>3. Versioned(J, Offered) => Versioned(K, Offered)
    BY <1>0, <2>2, ExportedVersioned
  <2> QED
    BY <2>2, <2>3, VersionsServe
<1>8. ASSUME NEW k \in Keys, LocalWrite(k) PROVE Versions'
  <2>1. /\ local' = [local EXCEPT ![k] = @ + 1]
        /\ UNCHANGED <<ingest, catalog, run, journals>>
    BY <1>8 DEF LocalWrite, centerVars
  <2>2. \A x \in Keys : /\ Offered[x] \in Nat /\ Offered'[x] \in Nat
                        /\ Offered[x] <= Offered'[x]
    BY <1>0, <2>1, OfferedGrows
  <2>3. ASSUME NEW f, DOMAIN f \subseteq Keys, \A x \in DOMAIN f : f[x] \in Nat,
               Below(f, Offered)
        PROVE  Below(f, Offered')
    BY <2>2, <2>3 DEF Below
  <2>4. VersionsOK'
    <3> SUFFICES ASSUME NEW b \in Bindings, journals[b] # None
                 PROVE  Versioned(journals[b], Offered')
      BY <2>1 DEF VersionsOK
    <3>1. Versioned(journals[b], Offered)
      BY DEF Versions, VersionsOK
    <3>2. \A x \in Keys : Current(journals[b], x) \in Nat
      BY <1>0, JournalParts, ContentsNat DEF Base, JournalsOK, JournalOK, Sound
    <3>3. \A x \in Keys : Current(journals[b], x) <= Offered'[x]
      BY <2>2, <3>1, <3>2 DEF Versioned
    <3> QED
      BY <3>1, <3>3 DEF Versioned
  <2>5. RowsOK'
    <3> SUFFICES ASSUME NEW g \in DOMAIN catalog
                 PROVE  Below(catalog[g].rows, Offered')
      BY <2>1 DEF RowsOK
    <3>1. catalog[g].rows \in [Keys -> Contents]
      BY <1>0 DEF StoreOK, Generations
    <3>2. /\ DOMAIN catalog[g].rows \subseteq Keys
          /\ \A x \in DOMAIN catalog[g].rows : catalog[g].rows[x] \in Nat
      BY <3>1, ContentsNat
    <3> QED
      BY <2>3, <3>2 DEF Versions, RowsOK
  <2>6. PatchOK'
    <3> SUFFICES ASSUME Paged
                 PROVE  /\ Below(run.answer.patch, Offered')
                        /\ Atop(State(run.binding), run.cursor) =>
                              Newer(catalog[Target(State(run.binding))].rows,
                                    run.answer.patch)
      BY <2>1 DEF PatchOK, Paged, IsPage, State
    <3>1. run.answer \in Responses
      BY <1>0, RunFields DEF Paged, IsPage
    <3>2. PICK D \in SUBSET Keys : run.answer.patch \in [D -> Contents]
      BY <3>1 DEF Responses
    <3>3. /\ DOMAIN run.answer.patch \subseteq Keys
          /\ \A x \in DOMAIN run.answer.patch : run.answer.patch[x] \in Nat
      BY <3>2, ContentsNat
    <3> QED
      BY <2>3, <3>3 DEF Versions, PatchOK
  <2> QED
    BY <2>4, <2>5, <2>6 DEF Versions
<1>9. ASSUME NEW b \in Bindings, SweepRevision(b) PROVE Versions'
  <2>1. /\ journals' = [journals EXCEPT ![b] = None]
        /\ UNCHANGED <<ingest, catalog, run, local>>
    BY <1>9 DEF SweepRevision, centerVars
  <2>2. \A c \in Bindings : journals'[c] # None => journals'[c] = journals[c]
    BY <1>0, <2>1 DEF EnvOK
  <2>3. VersionsOK'
    BY <2>1, <2>2 DEF Versions, VersionsOK, Offered
  <2> QED
    BY <2>1, <2>3 DEF Versions, RowsOK, PatchOK, Paged, IsPage, Offered, State
<1>10. ASSUME PurgeIngest PROVE Versions'
  <2>1. /\ \A b \in Bindings : State(b)' = None
        /\ UNCHANGED <<catalog, run, journals, local>>
    BY <1>10 DEF PurgeIngest, State
  <2>2. Paged => run.binding \in Bindings
    BY <1>0, IdleRun DEF Paged, Base, RunSide, RunOK
  <2>3. Paged => ~Atop(State(run.binding)', run.cursor)
    BY <2>1, <2>2 DEF Atop
  <2>4. PatchOK'
    BY <2>1, <2>3 DEF Versions, PatchOK, Paged, IsPage, Offered, State
  <2> QED
    BY <2>1, <2>4 DEF Versions, VersionsOK, RowsOK, Offered
<1>11. ASSUME PurgeHistory PROVE Versions'
  <2>1. /\ purge = "cleared" /\ catalog' = Without(catalog, DOMAIN catalog)
        /\ UNCHANGED <<ingest, run, journals, local>>
    BY <1>11 DEF PurgeHistory
  <2>2. \A b \in Bindings : State(b) = None
    BY <1>0, <2>1 DEF Base, RunSide, RunOK
  <2>3. Paged => run.binding \in Bindings
    BY <1>0, IdleRun DEF Paged, Base, RunSide, RunOK
  <2>4. Paged => ~Atop(State(run.binding), run.cursor)
    BY <2>2, <2>3 DEF Atop
  <2>5. PatchOK'
    BY <2>1, <2>4 DEF Versions, PatchOK, Paged, IsPage, Offered, State
  <2>6. DOMAIN catalog' = {}
    BY <2>1 DEF Without
  <2> QED
    BY <2>1, <2>5, <2>6 DEF Versions, VersionsOK, RowsOK, Offered
<1> QED
  BY <1>1, <1>2, <1>3, <1>4, <1>5, <1>6, <1>7, <1>8, <1>9, <1>10, <1>11
  DEF Next, Progress, Environment, SwitchBinding, Settle, centerVars, syncVars

\* Nothing has been written or read in the initial state.
LEMMA VersionsInit ==
    ASSUME Init
    PROVE  Versions
BY IdleRun DEF Init, Versions, VersionsOK, RowsOK, PatchOK, Paged

\* What readers see while the manifest and its generation stay.
LEMMA ViewKept ==
    ASSUME UNCHANGED manifest,
           manifest # None =>
              /\ manifest.hgen \in DOMAIN catalog /\ manifest.hgen \in DOMAIN catalog'
              /\ catalog'[manifest.hgen].rows = catalog[manifest.hgen].rows
    PROVE  View' = View
BY DEF View

\* What readers see after a phase step: nothing new, newer records of the same
\* generation, or another generation with records the remote host has had.
LEMMA PhaseView ==
    ASSUME Kept, Versions, PhaseStep, UNCHANGED envVars
    PROVE  \/ UNCHANGED manifest /\ View' = View
           \/ /\ UNCHANGED manifest /\ manifest # None
              /\ \A k \in Keys : View[k] <= View'[k]
           \/ Activate /\ manifest' # manifest /\ manifest' # None
<1>0. Base /\ Refs
  BY DEF Kept
<1>1. Base /\ Refs /\ run \in Runs /\ StoreOK
  BY <1>0 DEF Base, CenterOK, RunSide
<1>2. InPhase
  BY DEF PhaseStep, RecoverActivate, RecoverSkip, RecoverRefused, BeginRetry, Collect,
         Forget, Sweep, ReturnPosition, EnsureGeneration, WantsBootstrap,
         PublishBootstrap, BootstrapReady, RefuseMoved, RefuseBootstrap, RefusePage,
         ApplyStagedPage, ApplyActivePage, AtPage, FinishActivate, FinishSkip, InPhase
<1>3. PICK b \in Bindings : b = run.binding /\ State(b) # None
  BY <1>1, <1>2, PhaseFacts
<1> DEFINE S == State(b)
<1>4. manifest # None => manifest.hgen \in DOMAIN catalog
  BY <1>1, ViewSelected
<1>5. ASSUME UNCHANGED <<manifest, catalog>> PROVE View' = View
  BY <1>5 DEF View
<1>6. ASSUME NEW gone, \A g \in gone : Collectable(g, ingest, manifest),
             catalog' = Without(catalog, gone), UNCHANGED manifest
      PROVE  View' = View
  <2>1. manifest # None => manifest.hgen \notin gone
    BY <1>6 DEF Collectable, Selected
  <2>2. /\ DOMAIN catalog' = DOMAIN catalog \ gone
        /\ \A g \in DOMAIN catalog \ gone : catalog'[g] = catalog[g]
    BY <1>1, <1>6, WithoutType
  <2> QED
    BY <1>4, <1>6, <2>1, <2>2, ViewKept
<1>7. ASSUME NEW g \in HistGens, Collect(g)
      PROVE  UNCHANGED manifest /\ View' = View
  <2>1. CASE Collectable(g, ingest, manifest)
    BY <1>6, <1>7, <2>1 DEF Collect
  <2>2. CASE ~Collectable(g, ingest, manifest)
    BY <1>5, <1>7, <2>2 DEF Collect
  <2> QED
    BY <2>1, <2>2
<1>8. ASSUME Sweep PROVE UNCHANGED manifest /\ View' = View
  <2>1. PICK T : /\ \A g \in T : Collectable(g, ingest, manifest)
                 /\ catalog' = Without(catalog, T)
    BY <1>8 DEF Sweep
  <2> QED
    BY <1>6, <1>8, <2>1 DEF Sweep
<1>9. ASSUME EnsureGeneration PROVE UNCHANGED manifest /\ View' = View
  <2>1. PICK g \in Unused :
          /\ catalog' = [x \in DOMAIN catalog \cup {g} |->
                           IF x = g THEN [binding |-> run.binding, rows |-> EmptyRows]
                           ELSE catalog[x]]
          /\ UNCHANGED manifest
    BY <1>9, EnsureEffect
  <2>2. g \notin DOMAIN catalog
    BY DEF Unused
  <2>3. \A x \in DOMAIN catalog : x \in DOMAIN catalog' /\ catalog'[x] = catalog[x]
    BY <2>1, <2>2
  <2> QED
    BY <1>4, <2>1, <2>3, ViewKept
<1>10. ASSUME Activate PROVE manifest' # manifest /\ manifest' # None
  <2>1. /\ S.boot # None /\ manifest' = [hgen |-> S.boot.hgen, binding |-> b]
    BY <1>1, <1>2, <1>3, <1>10, ActivateEffect
  <2>2. S.boot.hgen \in HistGens
    BY <1>1, <1>3, <2>1, StateFields
  <2>3. manifest' \in Manifests
    BY <2>1, <2>2 DEF Manifests
  <2>4. S.boot.hgen \notin Selected(manifest)
    BY <1>1, <1>3, <2>1 DEF Refs, Exclusive, Fills
  <2> QED
    BY <2>1, <2>3, <2>4, NoneAssumption DEF NoneAssumption, Selected
<1>11. ASSUME ApplyStagedPage PROVE UNCHANGED manifest /\ View' = View
  <2>1. /\ S.boot # None /\ UNCHANGED manifest /\ DOMAIN catalog' = DOMAIN catalog
        /\ \A g \in DOMAIN catalog \ {S.boot.hgen} : catalog'[g] = catalog[g]
    BY <1>1, <1>3, <1>11, StagedEffect
  <2>2. S.boot.hgen \notin Selected(manifest)
    BY <1>1, <1>3, <2>1 DEF Refs, Exclusive, Fills
  <2> QED
    BY <1>4, <2>1, <2>2, ViewKept DEF Selected
<1>12. ASSUME ApplyActivePage
       PROVE  /\ UNCHANGED manifest /\ manifest # None
              /\ \A k \in Keys : View[k] <= View'[k]
  <2> DEFINE g == S.active.hgen
  <2>1. /\ AtPage /\ S.boot = None /\ S.active # None /\ S.active.cursor = run.cursor
        /\ run.cursor # None /\ g \in DOMAIN catalog
        /\ manifest = [hgen |-> g, binding |-> b] /\ UNCHANGED manifest
        /\ DOMAIN catalog' = DOMAIN catalog
        /\ catalog'[g].rows = Patched(catalog[g].rows, run.answer.patch)
    BY <1>1, <1>3, <1>12, ActiveEffect
  <2>2. g \in HistGens
    BY <1>1, <1>3, <2>1, StateFields
  <2>3. manifest \in Manifests
    BY <2>1, <2>2 DEF Manifests
  <2>4. manifest # None
    BY <2>3, NoneAssumption DEF NoneAssumption
  <2>5. View = catalog[g].rows /\ View' = catalog'[g].rows
    BY <2>1, <2>4 DEF View
  <2>6. /\ run.op = "commit" /\ run.answer \in Responses
        /\ run.answer # None /\ run.answer.kind = "page"
    BY <1>1, <1>2, <2>1, PhaseFacts, NoneAssumption DEF NoneAssumption, AtPage
  <2>7. Atop(S, run.cursor) /\ Target(S) = g
    BY <1>3, <2>1 DEF Atop, Target, Position
  <2>8. Newer(catalog[g].rows, run.answer.patch)
    BY <1>1, <1>3, <2>6, <2>7 DEF Versions, PatchOK, Paged, IsPage
  <2>9. catalog[g].rows \in [Keys -> Contents]
    BY <1>1, <2>1 DEF StoreOK, Generations
  <2>10. \A k \in Keys : catalog[g].rows[k] <= Patched(catalog[g].rows, run.answer.patch)[k]
    BY <2>6, <2>8, <2>9, PatchedRows
  <2> QED
    BY <2>1, <2>4, <2>5, <2>10
<1>13. ASSUME \/ EndRun \/ RecoverSkip \/ BeginRetry \/ Forget \/ ReturnPosition
              \/ PublishBootstrap \/ BootstrapReady \/ FinishSkip
       PROVE  UNCHANGED manifest /\ View' = View
  BY <1>5, <1>13 DEF EndRun, RecoverSkip, BeginRetry, Forget, ReturnPosition,
     PublishBootstrap, BootstrapReady, FinishSkip
<1> QED
  BY <1>7, <1>8, <1>9, <1>10, <1>11, <1>12, <1>13
  DEF PhaseStep, RecoverActivate, RecoverRefused, RefuseMoved, RefuseBootstrap,
      RefusePage, FinishActivate

\* What readers see the remote host has had.
ViewHad ==
    \A k \in Keys : /\ View[k] \in Nat /\ 0 <= View[k] /\ View[k] <= local[k]
                    /\ View[k] <= Offered[k]

LEMMA ViewBelow ==
    ASSUME Kept, Versions
    PROVE  ViewHad
<1>1. Base /\ Refs /\ EnvOK
  BY DEF Kept, Base
<1> SUFFICES ASSUME NEW k \in Keys
             PROVE  View[k] \in Nat /\ View[k] <= local[k] /\ View[k] <= Offered[k]
  BY DEF ViewHad
<1>2. View \in [Keys -> Contents]
  BY <1>1, ViewSelected
<1>3. View[k] \in Nat /\ DOMAIN View = Keys
  BY <1>2, ContentsNat
<1>4. Offered[k] \in Nat /\ local[k] \in Nat /\ Offered[k] <= local[k]
  BY <1>1, OfferedType
<1>5. View[k] <= Offered[k]
  <2>1. CASE manifest = None
    <3>1. View[k] = 0
      BY <1>1, <2>1, ViewSelected, ContentsNat DEF EmptyRows
    <3> QED
      BY <1>4, <3>1
  <2>2. CASE manifest # None
    <3>1. Below(View, Offered)
      BY <1>1, <2>2, ViewSelected DEF Versions, RowsOK
    <3> QED
      BY <1>3, <3>1 DEF Below
  <2> QED
    BY <2>1, <2>2
<1> QED
  BY <1>3, <1>4, <1>5

\* Every step of the synchronization is a step of the replica, or none.
LEMMA ReplicaStep ==
    ASSUME Kept, Versions, ViewHad', [Next \/ Settle]_syncVars
    PROVE  [Replica!Next]_(Replica!replicaVars)
<1>1. Base /\ Refs /\ EnvOK
  BY DEF Kept, Base
<1>2. ASSUME UNCHANGED <<local, manifest>>, View' = View
      PROVE  [Replica!Next]_(Replica!replicaVars)
  BY <1>2 DEF Replica!replicaVars
<1>3. ASSUME UNCHANGED <<manifest, catalog>> PROVE View' = View
  BY <1>3 DEF View
<1>4. ASSUME Phase PROVE [Replica!Next]_(Replica!replicaVars)
  <2>1. PhaseStep /\ UNCHANGED envVars /\ UNCHANGED local
    BY <1>4 DEF Phase, envVars
  <2>2. \A k \in Keys : 0 <= View'[k] /\ View'[k] <= local'[k]
    BY DEF ViewHad
  <2>3. CASE UNCHANGED manifest /\ View' = View
    BY <1>2, <2>1, <2>3
  <2>4. CASE /\ UNCHANGED manifest /\ manifest # None
             /\ \A k \in Keys : View[k] <= View'[k]
    <3>1. Replica!Advance
      BY <2>1, <2>2, <2>4 DEF Replica!Advance
    <3> QED
      BY <3>1 DEF Replica!Next
  <2>5. CASE manifest' # manifest /\ manifest' # None
    <3>1. Replica!Replace
      BY <2>1, <2>2, <2>5 DEF Replica!Replace
    <3> QED
      BY <3>1 DEF Replica!Next
  <2> QED
    BY <2>1, <2>3, <2>4, <2>5, PhaseView
<1>5. ASSUME NEW k \in Keys, LocalWrite(k) PROVE [Replica!Next]_(Replica!replicaVars)
  <2>1. View' = View
    BY <1>3, <1>5 DEF LocalWrite, centerVars
  <2>2. Replica!Write(k)
    BY <1>5, <2>1 DEF LocalWrite, centerVars, Replica!Write
  <2> QED
    BY <2>2 DEF Replica!Next
<1>6. ASSUME PurgeHistory PROVE [Replica!Next]_(Replica!replicaVars)
  <2>1. manifest' = None /\ UNCHANGED local
    BY <1>6 DEF PurgeHistory
  <2>2. View' = [k \in Keys |-> 0]
    BY <2>1, ContentsNat DEF View, EmptyRows
  <2>3. CASE manifest = None
    BY <1>2, <2>1, <2>3 DEF View
  <2>4. CASE manifest # None
    <3>1. Replica!Withdraw
      BY <2>1, <2>2, <2>4 DEF Replica!Withdraw
    <3> QED
      BY <3>1 DEF Replica!Next
  <2> QED
    BY <2>3, <2>4
<1>7. ASSUME \/ Start \/ Accept \/ Refuse \/ Abort \/ ServePending
             \/ (\E S : ServeScan(S))
             \/ (\E b \in Bindings : SweepRevision(b) \/ SwitchBinding(b))
             \/ ClaimPurge \/ PurgeIngest \/ Settle
      PROVE  [Replica!Next]_(Replica!replicaVars)
  <2>1. UNCHANGED <<local, manifest, catalog>>
    BY <1>7 DEF Start, StartRun, Accept, Refuse, Abort, EndRun, ServePending, ServeScan,
       SweepRevision, SwitchBinding, ClaimPurge, PurgeIngest, Settle, centerVars, envVars
  <2> QED
    BY <1>2, <1>3, <2>1
<1>8. ASSUME UNCHANGED syncVars PROVE [Replica!Next]_(Replica!replicaVars)
  BY <1>2, <1>3, <1>8 DEF syncVars
<1> QED
  BY <1>4, <1>5, <1>6, <1>7, <1>8 DEF Next, Progress, Environment

\* ImplementsReplica: a synchronized source is a replica of the remote's usage.
\* Readers see records the remote host has had, within a generation each record
\* only gets newer, and a generation replaces another as a whole.
THEOREM SyncImplementsReplica == (Spec \/ FairSpec) => ImplementsReplica
<1> DEFINE Inv == Kept /\ Versions
<1>1. Init => Inv
  BY KeptInit, VersionsInit
<1>2. Inv /\ [Next \/ Settle]_syncVars => Inv'
  BY KeptNext, VersionsNext
<1>3. [Next]_syncVars => [Next \/ Settle]_syncVars
  OBVIOUS
<1>4. Init => Replica!Init
  BY ContentsNat DEF Init, Replica!Init, View, EmptyRows
<1>5. Inv => ViewHad
  BY ViewBelow
<1>6. Inv /\ ViewHad' /\ [Next \/ Settle]_syncVars
        => [Replica!Next]_(Replica!replicaVars)
  BY ReplicaStep
<1> QED
  BY <1>1, <1>2, <1>3, <1>4, <1>5, <1>6, PTL DEF Spec, FairSpec, ImplementsReplica, Replica!Spec


-----------------------------------------------------------------------------
(***************************************************************************)
(* With one binding and full scans nothing that readers see gets older,    *)
(* not even when a bootstrap replaces the visible generation.              *)
(***************************************************************************)

\* One binding, and every scan covers all records.
Steady == Scans = {Keys} /\ \A b, c \in Bindings : b = c

\* The rows, or the journal J, are not behind what readers see.
Covers(view, rows) == \A k \in Keys : view[k] <= rows[k]

Reaches(view, J) == \A k \in Keys : view[k] <= Current(J, k)

\* A bootstrap that is complete may replace what readers see, and the journal
\* that it has started to follow takes it there.
BootAhead(B, rows, J, view) ==
    /\ B.ready => Covers(view, rows)
    /\ B.cursor # None /\ J # None /\ B.cursor.gen = J.gen => Reaches(view, J)

\* The page a for the bootstrap B: the last one makes it complete, whatever
\* has become of its journal.
PageAhead(B, rows, J, view, c, a) ==
    c = B.cursor =>
        /\ ~a.more => Covers(view, Patched(rows, a.patch))
        /\ J # None /\ J.gen = a.next.gen => Reaches(view, J)

Ahead ==
    \A b \in Bindings : State(b) # None /\ State(b).boot # None =>
        /\ BootAhead(State(b).boot, catalog[State(b).boot.hgen].rows, journals[b], View)
        /\ Paged /\ run.binding = b =>
              PageAhead(State(b).boot, catalog[State(b).boot.hgen].rows, journals[b],
                        View, run.cursor, run.answer)

\* Neither a bootstrap nor what readers see changes.
LEMMA AheadKept ==
    ASSUME Ahead, View' = View,
           \A b \in Bindings : journals'[b] \in {journals[b], None},
           \A b \in Bindings : State(b)' # None /\ State(b)'.boot # None =>
              /\ State(b) # None /\ State(b)'.boot = State(b).boot
              /\ catalog'[State(b).boot.hgen].rows = catalog[State(b).boot.hgen].rows,
           Paged' => /\ Paged
                     /\ run'.answer = run.answer /\ run'.cursor = run.cursor
                     /\ run'.binding = run.binding
    PROVE  Ahead'
<1> SUFFICES ASSUME NEW b \in Bindings, State(b)' # None, State(b)'.boot # None
             PROVE  /\ BootAhead(State(b).boot, catalog[State(b).boot.hgen].rows,
                                 journals'[b], View)
                    /\ Paged' /\ run'.binding = b =>
                         PageAhead(State(b).boot, catalog[State(b).boot.hgen].rows,
                                   journals'[b], View, run.cursor, run.answer)
  BY DEF Ahead
<1> DEFINE B == State(b).boot
           rows == catalog[B.hgen].rows
<1>1. State(b) # None /\ B # None
  OBVIOUS
<1>2. /\ BootAhead(B, rows, journals[b], View)
      /\ Paged /\ run.binding = b =>
            PageAhead(B, rows, journals[b], View, run.cursor, run.answer)
  BY <1>1 DEF Ahead
<1>3. CASE journals'[b] = journals[b]
  BY <1>2, <1>3
<1>4. CASE journals'[b] = None
  BY <1>2, <1>4 DEF BootAhead, PageAhead
<1> QED
  BY <1>3, <1>4

\* The bootstrap of a state, and its generation.
LEMMA FilledThere ==
    ASSUME Refs, NEW b \in Bindings, State(b) # None, State(b).boot # None
    PROVE  State(b).boot.hgen \in DOMAIN catalog /\ State(b).boot.hgen \in Fills(State(b))
BY LiveParts DEF Refs, ReferencesHold, Fills

\* Patching twice with the same page is patching once.
LEMMA PatchedTwice ==
    ASSUME NEW rows, NEW p
    PROVE  Patched(Patched(rows, p), p) = Patched(rows, p)
BY DEF Patched

\* Every step of an open phase keeps the bootstrap ahead.
LEMMA AheadPhase ==
    ASSUME Steady, Kept, Versions, Ahead, PhaseStep, UNCHANGED envVars
    PROVE  Ahead'
<1>0. Base /\ Refs /\ UNCHANGED journals
  BY DEF Kept, envVars
<1>1. run \in Runs /\ StoreOK
  BY <1>0 DEF Base, CenterOK, RunSide
<1>2. InPhase
  BY DEF PhaseStep, RecoverActivate, RecoverSkip, RecoverRefused, BeginRetry, Collect,
         Forget, Sweep, ReturnPosition, EnsureGeneration, WantsBootstrap,
         PublishBootstrap, BootstrapReady, RefuseMoved, RefuseBootstrap, RefusePage,
         ApplyStagedPage, ApplyActivePage, AtPage, FinishActivate, FinishSkip, InPhase
<1>3. PICK b \in Bindings : b = run.binding /\ State(b) # None
  BY <1>0, <1>2, PhaseFacts
<1> DEFINE S == State(b)
<1>4. S \in IngestStates /\ \A x \in Bindings : x = b
  BY <1>1, <1>3, StateFields DEF Steady
<1>5. S.boot # None => S.boot.hgen \in DOMAIN catalog /\ S.boot.hgen \in LiveGenerations(S)
  BY <1>0, <1>3, FilledThere, LiveParts
<1>6. ASSUME State(b)'.boot = None \/ State(b)' = None PROVE Ahead'
  BY <1>4, <1>6 DEF Ahead
<1>7. ASSUME UNCHANGED manifest, State(b)' # None, State(b)'.boot = S.boot, View' = View,
             S.boot # None => catalog'[S.boot.hgen].rows = catalog[S.boot.hgen].rows,
             Paged' => /\ Paged
                       /\ run'.answer = run.answer /\ run'.cursor = run.cursor
                       /\ run'.binding = run.binding
      PROVE  Ahead'
  <2>1. \A x \in Bindings : journals'[x] \in {journals[x], None}
    BY <1>0
  <2>2. \A x \in Bindings : State(x)' # None /\ State(x)'.boot # None =>
           /\ State(x) # None /\ State(x)'.boot = State(x).boot
           /\ catalog'[State(x).boot.hgen].rows = catalog[State(x).boot.hgen].rows
    BY <1>3, <1>4, <1>7
  <2> QED
    BY <1>7, <2>1, <2>2, AheadKept
<1>8. ASSUME run' = Idle \/ run' = Continued PROVE ~Paged'
  <2>1. CASE run' = Idle
    BY <2>1, IdleRun DEF Paged
  <2>2. CASE run' = Continued /\ run.answer.more
    <3>1. run'.pc # "answered" /\ run'.op # "commit"
      BY <2>2 DEF Continued, Idle
    <3> QED
      BY <3>1 DEF Paged
  <2>3. CASE run' = Continued /\ ~run.answer.more
    BY <2>3, IdleRun DEF Continued, Paged
  <2> QED
    BY <1>8, <2>1, <2>2, <2>3
<1>9. ASSUME UNCHANGED <<ingest, manifest, catalog>>
      PROVE  /\ UNCHANGED manifest /\ State(b)' # None /\ State(b)'.boot = S.boot
             /\ View' = View
             /\ S.boot # None => catalog'[S.boot.hgen].rows = catalog[S.boot.hgen].rows
  BY <1>3, <1>9 DEF State, View
<1>10. ASSUME EndRun \/ FinishSkip PROVE Ahead'
  BY <1>7, <1>8, <1>9, <1>10 DEF EndRun, FinishSkip
<1>11. ASSUME RecoverSkip \/ BeginRetry PROVE Ahead'
  <2>1. /\ run'.answer = run.answer /\ run'.cursor = run.cursor
        /\ run'.binding = run.binding /\ run'.op = run.op /\ run'.pc # "answered"
    BY <1>1, <1>11 DEF RecoverSkip, BeginRetry, Runs
  <2>2. Paged' => Paged
    BY <2>1 DEF Paged, IsPage
  <2> QED
    BY <1>7, <1>9, <1>11, <2>1, <2>2 DEF RecoverSkip, BeginRetry
<1>12. ASSUME ReturnPosition \/ BootstrapReady PROVE Ahead'
  <2>1. run'.pc # "answered" /\ run'.op # "commit"
    BY <1>1, <1>12, IdleRun DEF ReturnPosition, BootstrapReady, Runs
  <2>2. ~Paged'
    BY <2>1 DEF Paged
  <2> QED
    BY <1>7, <1>9, <1>12, <2>2 DEF ReturnPosition, BootstrapReady
<1>13. ASSUME Forget PROVE Ahead'
  <2> DEFINE T == [S EXCEPT !.retired = @ \ {run.hgen}]
  <2>1. ingest' = [ingest EXCEPT ![b] = T] /\ UNCHANGED <<manifest, catalog>>
    BY <1>3, <1>13 DEF Forget, State
  <2>2. T.boot = S.boot /\ T \in IngestStates
    BY <1>4 DEF IngestStates
  <2>3. State(b)' = T
    BY <1>1, <2>1, OneState
  <2>4. /\ run'.answer = run.answer /\ run'.cursor = run.cursor
        /\ run'.binding = run.binding /\ run'.op = run.op /\ run'.pc # "answered"
    BY <1>1, <1>13 DEF Forget, Runs
  <2>5. Paged' => Paged
    BY <2>4 DEF Paged, IsPage
  <2>6. View' = View
    BY <2>1 DEF View
  <2> HIDE DEF T
  <2> QED
    BY <1>7, <2>1, <2>2, <2>3, <2>4, <2>5, <2>6, NoneAssumption DEF NoneAssumption
<1>14. ASSUME NEW gone, \A g \in gone : Collectable(g, ingest, manifest),
              catalog' = Without(catalog, gone), UNCHANGED <<ingest, manifest>>,
              run'.answer = run.answer, run'.cursor = run.cursor,
              run'.binding = run.binding, run'.op = run.op, run'.pc # "answered"
       PROVE  Ahead'
  <2>1. /\ DOMAIN catalog' = DOMAIN catalog \ gone
        /\ \A g \in DOMAIN catalog \ gone : catalog'[g] = catalog[g]
    BY <1>1, <1>14, WithoutType
  <2>2. gone \cap LiveGenerations(S) = {} /\ gone \cap Selected(manifest) = {}
    BY <1>3, <1>14 DEF Collectable, Protected, State
  <2>3. manifest # None => manifest.hgen \in DOMAIN catalog /\ manifest.hgen \notin gone
    BY <1>0, <2>2, ViewSelected DEF Selected
  <2>4. View' = View
    BY <1>14, <2>1, <2>3, ViewKept
  <2>5. State(b)' = S
    BY <1>14 DEF State
  <2>6. Paged' => Paged
    BY <1>14 DEF Paged, IsPage
  <2> QED
    BY <1>3, <1>5, <1>7, <1>14, <2>1, <2>2, <2>4, <2>5, <2>6
<1>15. ASSUME NEW g \in HistGens, Collect(g) PROVE Ahead'
  <2>1. /\ run.pc = "cleanup" /\ UNCHANGED <<ingest, manifest>>
        /\ run'.answer = run.answer /\ run'.cursor = run.cursor
        /\ run'.binding = run.binding /\ run'.op = run.op /\ run'.pc # "answered"
    BY <1>1, <1>15 DEF Collect, Runs
  <2>2. CASE Collectable(g, ingest, manifest)
    BY <1>14, <1>15, <2>1, <2>2 DEF Collect
  <2>3. CASE ~Collectable(g, ingest, manifest)
    <3>1. UNCHANGED catalog
      BY <1>15, <2>3 DEF Collect
    <3>2. Paged' => Paged
      BY <2>1 DEF Paged, IsPage
    <3> QED
      BY <1>7, <1>9, <2>1, <3>1, <3>2
  <2> QED
    BY <2>2, <2>3
<1>16. ASSUME Sweep PROVE Ahead'
  <2>1. PICK T : /\ \A g \in T : Collectable(g, ingest, manifest)
                 /\ catalog' = Without(catalog, T)
    BY <1>16 DEF Sweep
  <2>2. /\ UNCHANGED <<ingest, manifest>>
        /\ run'.answer = run.answer /\ run'.cursor = run.cursor
        /\ run'.binding = run.binding /\ run'.op = run.op /\ run'.pc # "answered"
    BY <1>1, <1>16 DEF Sweep, Runs
  <2> QED
    BY <1>14, <2>1, <2>2
<1>17. ASSUME EnsureGeneration PROVE Ahead'
  <2>1. PICK g \in Unused :
          /\ catalog' = [x \in DOMAIN catalog \cup {g} |->
                           IF x = g THEN [binding |-> run.binding, rows |-> EmptyRows]
                           ELSE catalog[x]]
          /\ run' = [run EXCEPT !.pc = "publish", !.hgen = g]
          /\ UNCHANGED <<ingest, manifest>>
    BY <1>17, EnsureEffect
  <2>2. g \notin DOMAIN catalog
    BY DEF Unused
  <2>3. \A x \in DOMAIN catalog : x \in DOMAIN catalog' /\ catalog'[x] = catalog[x]
    BY <2>1, <2>2
  <2>4. manifest # None => manifest.hgen \in DOMAIN catalog
    BY <1>0, ViewSelected
  <2>5. View' = View
    BY <2>1, <2>3, <2>4, ViewKept
  <2>6. run'.pc = "publish" /\ run'.op = run.op /\ run.op # "commit"
    BY <1>1, <1>17, <2>1 DEF EnsureGeneration, WantsBootstrap, Runs
  <2>7. ~Paged' /\ State(b)' = S
    BY <2>1, <2>6 DEF Paged, State
  <2> QED
    BY <1>3, <1>5, <1>7, <2>1, <2>3, <2>5, <2>7
<1>18. ASSUME PublishBootstrap PROVE Ahead'
  <2> DEFINE B == [hgen |-> run.hgen, expected |-> manifest, cursor |-> None,
                   ready |-> FALSE]
             T == [S EXCEPT !.boot = B,
                            !.retired = @ \cup (IF S.boot = None THEN {} ELSE {S.boot.hgen})]
  <2>1. ingest' = [ingest EXCEPT ![b] = T]
    BY <1>3, <1>18 DEF PublishBootstrap
  <2>2. run'.op = "restarted" /\ run'.pc = "cleanup"
    BY <1>1, <1>18 DEF PublishBootstrap, Runs
  <2>3. State(b)' = T
    BY <1>1, <2>1, OneState
  <2>4. T.boot = B
    BY <1>4 DEF IngestStates
  <2>5. State(b)'.boot.cursor = None /\ State(b)'.boot.ready = FALSE
    BY <2>3, <2>4
  <2>6. ~Paged'
    BY <2>2 DEF Paged
  <2> QED
    BY <1>4, <2>5, <2>6 DEF Ahead, BootAhead
<1>19. ASSUME Activate PROVE Ahead'
  <2> DEFINE T(gone) == [active |-> [hgen |-> S.boot.hgen, cursor |-> S.boot.cursor],
                         boot |-> None,
                         retired |-> (S.retired \cup Selected(S.boot.expected)) \ gone]
  <2>1. PICK gone \in SUBSET Selected(S.boot.expected) :
           ingest' = [ingest EXCEPT ![b] = T(gone)]
    BY <1>0, <1>2, <1>3, <1>19, ActivateEffect
  <2>2. State(b)' = T(gone)
    BY <1>1, <2>1, OneState
  <2> QED
    BY <1>6, <2>2
<1>20. ASSUME ApplyActivePage PROVE Ahead'
  <2> DEFINE T == [S EXCEPT !.active = [hgen |-> S.active.hgen,
                                       cursor |-> run.answer.next]]
  <2>1. ingest' = [ingest EXCEPT ![b] = T] /\ T.boot = None
    BY <1>0, <1>3, <1>20, ActiveEffect
  <2>2. State(b)' = T
    BY <1>1, <2>1, OneState
  <2> QED
    BY <1>6, <2>1, <2>2
<1>21. ASSUME ApplyStagedPage PROVE Ahead'
  <2> DEFINE T == [S EXCEPT !.boot = Staged(S.boot, run.answer)]
             rows == catalog[S.boot.hgen].rows
  <2>1. /\ AtPage /\ S.boot # None /\ S.boot.hgen \in DOMAIN catalog
        /\ S.boot.cursor = run.cursor
        /\ ingest' = [ingest EXCEPT ![b] = T]
        /\ T.boot # None /\ T.boot.hgen = S.boot.hgen
        /\ T.boot.cursor = run.answer.next /\ T.boot.ready = ~run.answer.more
        /\ UNCHANGED manifest /\ DOMAIN catalog' = DOMAIN catalog
        /\ \A g \in DOMAIN catalog \ {S.boot.hgen} : catalog'[g] = catalog[g]
        /\ catalog'[S.boot.hgen].rows = Patched(rows, run.answer.patch)
        /\ run' = [run EXCEPT !.pc = "finish"]
    BY <1>0, <1>3, <1>21, StagedEffect
  <2> HIDE DEF T
  <2>2. State(b)' = T /\ run.op = "commit"
    BY <1>1, <2>1, OneState DEF AtPage
  <2>3. S.boot.hgen \notin Selected(manifest)
    BY <1>0, <1>3, <2>1 DEF Refs, Exclusive, Fills
  <2>4. manifest # None => manifest.hgen \in DOMAIN catalog
    BY <1>0, ViewSelected
  <2>5. View' = View
    BY <2>1, <2>3, <2>4, ViewKept DEF Selected
  <2>6. run.answer \in Responses /\ run.answer # None /\ run.answer.kind = "page"
    BY <1>0, <1>2, <2>2, PhaseFacts, NoneAssumption DEF NoneAssumption
  <2>7. PageAhead(S.boot, rows, journals[b], View, run.cursor, run.answer)
    BY <1>3, <2>1, <2>2, <2>6 DEF Ahead, Paged, IsPage
  <2>8. run'.answer = run.answer /\ run'.cursor = run.cursor
    BY <1>1, <2>1 DEF Runs
  <2>9. BootAhead(T.boot, Patched(rows, run.answer.patch), journals[b], View)
    BY <2>1, <2>7 DEF PageAhead, BootAhead
  <2>10. PageAhead(T.boot, Patched(rows, run.answer.patch), journals[b], View,
                   run.cursor, run.answer)
    BY <2>1, <2>7, PatchedTwice DEF PageAhead
  <2> QED
    BY <1>0, <1>4, <2>1, <2>2, <2>5, <2>8, <2>9, <2>10 DEF Ahead
<1> QED
  BY <1>10, <1>11, <1>12, <1>13, <1>15, <1>16, <1>17, <1>18, <1>19, <1>20, <1>21
  DEF PhaseStep, RecoverActivate, RecoverRefused, FinishActivate, RefuseMoved,
      RefuseBootstrap, RefusePage


\* A page of a bootstrap takes it on from the floor it started at.
LEMMA PageFills ==
    ASSUME NEW J, JournalOK(J), NEW B, NEW rows, BootExact(B, J, rows),
           B.cursor = None => rows = EmptyRows,
           NEW c \in Cursors, ~CursorLapsed(J, c),
           c = IF B.cursor # None THEN B.cursor ELSE [gen |-> J.gen, seq |-> J.floor],
           NEW n \in c.seq..J.seq
    PROVE  \E lo \in 0..J.floor : Holds(Patched(rows, PageAt(J, c, n).patch), J, lo, n)
<1>1. /\ J.seq \in Nat /\ J.floor \in Nat /\ c.seq \in Nat /\ n \in Nat
      /\ c.gen = J.gen /\ J.floor <= c.seq
  BY JournalFields DEF JournalOK, Sound, Cursors, CursorLapsed
<1>2. \E lo \in 0..J.floor : Holds(rows, J, lo, c.seq)
  <2>1. CASE B.cursor # None
    BY <1>1, <2>1 DEF BootExact
  <2>2. CASE B.cursor = None
    <3>1. rows = EmptyRows /\ c.seq = J.floor
      BY <2>2
    <3>2. \A k \in Keys : About(J, J.floor, J.floor, k) = {}
      BY <1>1 DEF About
    <3>3. \A k \in Keys : Replay(J, J.floor, J.floor, k) = Absent
      BY <3>2, ReplayNone
    <3>4. Holds(EmptyRows, J, J.floor, J.floor) /\ J.floor \in 0..J.floor
      BY <1>1, <3>3 DEF Holds, EmptyRows
    <3> QED
      BY <3>1, <3>4
  <2> QED
    BY <2>1, <2>2
<1>3. PICK lo \in 0..J.floor : Holds(rows, J, lo, c.seq)
  BY <1>2
<1>4. lo \in 0..c.seq
  BY <1>1
<1> QED
  BY <1>3, <1>4, PagePatches

\* The last page of a journal says so.
LEMMA LastPage ==
    ASSUME NEW J, JournalOK(J), NEW c \in Cursors, NEW n \in c.seq..J.seq,
           ~PageAt(J, c, n).more
    PROVE  n = J.seq
<1>1. J.seq \in Nat /\ n \in Nat /\ n <= J.seq
  BY JournalFields DEF JournalOK, Sound, Cursors
<1>2. ASSUME n < J.seq PROVE FALSE
  <2>1. (n < J.seq) = TRUE
    BY <1>2
  <2>2. PageAt(J, c, n) = [kind |-> "page", next |-> [gen |-> J.gen, seq |-> n],
                           more |-> TRUE, patch |-> Patch(J, c.seq, n)]
    BY <2>1 DEF PageAt
  <2> QED
    BY <2>2
<1> QED
  BY <1>1, <1>2

\* The exporter's answer keeps the bootstrap ahead: it has scanned everything,
\* or it reads on in a journal that the bootstrap follows already.
LEMMA AheadServe ==
    ASSUME Steady, Kept, Versions, Ahead, Waiting, NEW J \in Namespaces(agreed), NEW K,
           JournalOK(K), Extends(J, K), K.gen = J.gen, J.seq <= K.seq,
           \/ \A k \in Keys : Current(K, k) = Offered[k]
           \/ K = J /\ run.cursor # None,
           NEW c, NEW a \in Answers(K, c),
           c = IF run.cursor # None THEN run.cursor
               ELSE [gen |-> K.gen, seq |-> K.floor],
           journals' = [journals EXCEPT ![agreed] = K], Answer(a),
           UNCHANGED <<ingest, manifest, catalog, local, agreed, purge, calm>>
    PROVE  Ahead'
<1>0. Base /\ Refs /\ Exact /\ ViewHad
  BY ViewBelow DEF Kept
<1>1. /\ journals'[agreed] = K /\ run'.answer = a /\ run'.cursor = run.cursor
      /\ run'.binding = run.binding
      /\ a.kind = "page" => PageFor(K, run.cursor, a)
  BY <1>0, ServeBase
<1>2. PICK b \in Bindings : b = agreed /\ b = run.binding /\ \A x \in Bindings : x = b
  BY <1>0 DEF Base, EnvOK, Waiting, Steady
<1>3. View' = View
  BY DEF View
<1> DEFINE B == State(b).boot
           rows == catalog[B.hgen].rows
<1> SUFFICES ASSUME State(b) # None, B # None
             PROVE  /\ BootAhead(B, rows, K, View)
                    /\ Paged' => PageAhead(B, rows, K, View, run.cursor, a)
  BY <1>1, <1>2, <1>3 DEF Ahead, State
<1>4. BootAhead(B, rows, journals[b], View)
  BY DEF Ahead
<1>5. (\A k \in Keys : Current(K, k) = Offered[k]) => Reaches(View, K)
  BY <1>0 DEF ViewHad, Reaches
<1>6. ASSUME B.cursor # None, B.cursor.gen = K.gen PROVE Reaches(View, K)
  <2>1. CASE K = J /\ journals[b] # None
    <3>1. K = journals[b]
      BY <1>0, <1>2, <2>1, NamespaceOK
    <3> QED
      BY <1>4, <1>6, <2>1, <3>1 DEF BootAhead
  <2>2. CASE journals[b] = None
    <3>1. PICK g \in JournalGens \ NamedGens : J = NewJournal(g, 0)
      BY <1>0, <1>2, <2>2, NamespaceOK
    <3>2. K.gen \notin NamedGens
      BY <3>1 DEF NewJournal
    <3>3. B.cursor.gen \in NamedGens
      BY <1>6, NamedHolds DEF Position
    <3> QED
      BY <1>6, <3>2, <3>3
  <2> QED
    BY <1>5, <2>1, <2>2
<1>7. BootAhead(B, rows, K, View)
  BY <1>4, <1>6 DEF BootAhead
<1>8. ASSUME Paged', run.cursor = B.cursor
      PROVE  /\ ~a.more => Covers(View, Patched(rows, a.patch))
             /\ Reaches(View, K)
  <2>1. a.kind = "page"
    BY <1>1, <1>8 DEF Paged, IsPage
  <2>2. ~CursorLapsed(K, c) /\ \E n \in c.seq..K.seq : a = PageAt(K, c, n)
    BY <1>1, <2>1 DEF PageFor
  <2>3. PICK n \in c.seq..K.seq : a = PageAt(K, c, n)
    BY <2>2
  <2>4. c \in Cursors
    <3>1. run.cursor \in Cursors \cup {None}
      BY <1>0, RunFields DEF Base, RunSide
    <3>2. [gen |-> K.gen, seq |-> K.floor] \in Cursors
      BY JournalFields DEF JournalOK, Sound, Cursors
    <3> QED
      BY <3>1, <3>2
  <2>5. Reaches(View, K)
    <3>1. CASE run.cursor # None
      <4>1. B.cursor # None /\ B.cursor.gen = K.gen
        BY <1>8, <2>2, <3>1 DEF CursorLapsed
      <4> QED
        BY <1>6, <4>1
    <3>2. CASE run.cursor = None
      BY <1>5, <3>2
    <3> QED
      BY <3>1, <3>2
  <2>6. StateExact(State(b), K, catalog) /\ StateFresh(State(b), catalog)
    BY <1>0, <1>2, ExactServe DEF Exact
  <2>7. BootExact(B, K, rows) /\ (B.cursor = None => rows = EmptyRows)
    BY <2>6 DEF StateExact, StateFresh
  <2>8. PICK lo \in 0..K.floor : Holds(Patched(rows, a.patch), K, lo, n)
    BY <1>8, <2>2, <2>3, <2>4, <2>7, PageFills
  <2>9. ASSUME ~a.more PROVE Covers(View, Patched(rows, a.patch))
    <3>1. n = K.seq
      BY <2>3, <2>4, <2>9, LastPage
    <3>2. \A k \in Keys : Patched(rows, a.patch)[k] = Current(K, k)
      BY <2>8, <3>1, PageCompletes DEF Current
    <3> QED
      BY <2>5, <3>2 DEF Covers, Reaches
  <2> QED
    BY <2>5, <2>9
<1> QED
  BY <1>7, <1>8 DEF PageAhead

\* Every step keeps the bootstrap ahead.
LEMMA AheadNext ==
    ASSUME Steady, Kept, Versions, Ahead, [Next \/ Settle]_syncVars
    PROVE  Ahead'
<1>0. Base /\ Refs
  BY DEF Kept
<1>1. StoreOK /\ EnvOK /\ run \in Runs
  BY <1>0 DEF Base, CenterOK, RunSide
<1>2. ASSUME UNCHANGED <<ingest, manifest, catalog>>,
             \A b \in Bindings : journals'[b] \in {journals[b], None},
             Paged' => /\ Paged
                       /\ run'.answer = run.answer /\ run'.cursor = run.cursor
                       /\ run'.binding = run.binding
      PROVE  Ahead'
  <2>1. View' = View /\ \A x : State(x)' = State(x)
    BY <1>2 DEF View, State
  <2> QED
    BY <1>2, <2>1, AheadKept
<1>3. ASSUME UNCHANGED <<ingest, manifest, catalog, run, journals>> PROVE Ahead'
  BY <1>2, <1>3 DEF Paged, IsPage
<1>4. ASSUME Start PROVE Ahead'
  <2>1. PICK b \in Bindings : b = agreed
    BY <1>1 DEF EnvOK
  <2>2. /\ UNCHANGED <<manifest, catalog, journals>>
        /\ run' = [Idle EXCEPT !.pc = "activate", !.op = "position", !.binding = agreed]
        /\ ingest' = [ingest EXCEPT ![b] = IF @ = None THEN NewIngest ELSE @]
    BY <1>4, <2>1 DEF Start, StartRun, envVars
  <2>3. run'.pc = "activate" /\ run'.op = "position"
    BY <2>2 DEF Idle
  <2>4. ~Paged' /\ View' = View
    BY <2>2, <2>3 DEF Paged, View
  <2>5. State(b)' = IF State(b) = None THEN NewIngest ELSE State(b)
    BY <1>1, <2>2 DEF StoreOK, State
  <2>6. \A x \in Bindings : x = b
    BY DEF Steady
  <2>7. \A x \in Bindings : State(x)' # None /\ State(x)'.boot # None =>
           State(x) # None /\ State(x)'.boot = State(x).boot
    BY <2>5, <2>6 DEF NewIngest
  <2> QED
    BY <2>2, <2>4, <2>7, AheadKept
<1>5. ASSUME Phase PROVE Ahead'
  BY <1>5, AheadPhase DEF Phase
<1>6. ASSUME Accept PROVE Ahead'
  <2>1. /\ UNCHANGED <<ingest, manifest, catalog, journals>> /\ run.pc = "answered"
        /\ run'.answer = run.answer /\ run'.cursor = run.cursor
        /\ run'.binding = run.binding
    BY <1>1, <1>6 DEF Accept, Runs, envVars
  <2>2. Paged' => Paged
    BY <2>1 DEF Paged, IsPage
  <2> QED
    BY <1>2, <2>1, <2>2
<1>7. ASSUME ClaimPurge PROVE Ahead'
  <2>1. /\ UNCHANGED <<ingest, manifest, catalog, journals>>
        /\ run'.answer = run.answer /\ run'.cursor = run.cursor
        /\ run'.binding = run.binding /\ run'.pc = run.pc /\ run'.op = run.op
    BY <1>1, <1>7 DEF ClaimPurge, Runs
  <2>2. Paged' => Paged
    BY <2>1 DEF Paged, IsPage
  <2> QED
    BY <1>2, <2>1, <2>2
<1>8. ASSUME Refuse \/ Abort PROVE Ahead'
  <2>1. run' = Idle /\ UNCHANGED <<ingest, manifest, catalog, journals>>
    BY <1>8 DEF Refuse, Abort, EndRun, envVars
  <2>2. ~Paged'
    BY <2>1, IdleRun DEF Paged
  <2> QED
    BY <1>2, <2>1, <2>2
<1>9. ASSUME ServePending PROVE Ahead'
  <2>1. PICK J \in Namespaces(agreed) : \E a \in Answers(J, run.cursor) :
             /\ Waiting /\ run.cursor # None /\ JournalOK(J)
             /\ journals' = [journals EXCEPT ![agreed] = J] /\ Answer(a)
             /\ UNCHANGED <<ingest, manifest, catalog, local, agreed, purge, calm>>
    BY <1>0, <1>9, PendingServes
  <2>2. J.seq <= J.seq /\ Extends(J, J)
    BY <2>1, JournalFields, ExtendsSelf DEF JournalOK, Sound
  <2> QED
    BY <2>1, <2>2, AheadServe
<1>10. ASSUME ServeScan(Keys) PROVE Ahead'
  <2>1. PICK J \in Namespaces(agreed) : \E K \in Exported(J, Keys) :
             \E a \in Answers(K, IF run.cursor # None THEN run.cursor
                                 ELSE [gen |-> K.gen, seq |-> K.floor]) :
               /\ Waiting /\ JournalOK(J) /\ JournalOK(K) /\ Extends(J, K)
               /\ K.gen = J.gen /\ J.seq <= K.seq
               /\ journals' = [journals EXCEPT ![agreed] = K] /\ Answer(a)
               /\ UNCHANGED <<ingest, manifest, catalog, local, agreed, purge, calm>>
    BY <1>0, <1>10, ScanServes
  <2>2. PICK K \in Exported(J, Keys) :
             \E a \in Answers(K, IF run.cursor # None THEN run.cursor
                                 ELSE [gen |-> K.gen, seq |-> K.floor]) :
               /\ Waiting /\ JournalOK(J) /\ JournalOK(K) /\ Extends(J, K)
               /\ K.gen = J.gen /\ J.seq <= K.seq
               /\ journals' = [journals EXCEPT ![agreed] = K] /\ Answer(a)
               /\ UNCHANGED <<ingest, manifest, catalog, local, agreed, purge, calm>>
    BY <2>1
  <2>3. Versioned(J, Offered)
    <3>1. PICK b \in Bindings : b = agreed
      BY <1>1 DEF EnvOK
    <3>2. CASE journals[b] # None
      <4>1. J = journals[b]
        BY <1>0, <3>1, <3>2, NamespaceOK
      <4> QED
        BY <3>2, <4>1 DEF Versions, VersionsOK
    <3>3. CASE journals[b] = None
      <4>1. PICK g \in JournalGens \ NamedGens : J = NewJournal(g, 0)
        BY <1>0, <3>1, <3>3, NamespaceOK
      <4> QED
        BY <1>1, <4>1, NewVersioned
    <3> QED
      BY <3>2, <3>3
  <2>4. \A k \in Keys : Current(K, k) = Offered[k]
    BY <1>1, <2>2, <2>3, ExportedVersioned
  <2> QED
    BY <2>2, <2>4, AheadServe
<1>11. ASSUME NEW b \in Bindings, SweepRevision(b) PROVE Ahead'
  <2>1. /\ journals' = [journals EXCEPT ![b] = None]
        /\ UNCHANGED <<ingest, manifest, catalog, run>>
    BY <1>11 DEF SweepRevision, centerVars
  <2>2. \A c \in Bindings : journals'[c] \in {journals[c], None}
    BY <1>1, <2>1 DEF EnvOK
  <2> QED
    BY <1>2, <2>1, <2>2 DEF Paged, IsPage
<1>12. ASSUME PurgeIngest PROVE Ahead'
  <2>1. \A b \in Bindings : State(b)' = None
    BY <1>12 DEF PurgeIngest, State
  <2> QED
    BY <2>1 DEF Ahead
<1>13. ASSUME PurgeHistory PROVE Ahead'
  <2>1. purge = "cleared" /\ UNCHANGED ingest
    BY <1>13 DEF PurgeHistory
  <2>2. \A b \in Bindings : State(b)' = None
    BY <1>0, <2>1 DEF Base, RunSide, RunOK, State
  <2> QED
    BY <2>2 DEF Ahead
<1>14. ASSUME NEW k \in Keys, LocalWrite(k) PROVE Ahead'
  BY <1>3, <1>14 DEF LocalWrite, centerVars
<1>15. Scans \ {Keys} = {}
  BY DEF Steady
<1> QED
  BY <1>3, <1>4, <1>5, <1>6, <1>7, <1>8, <1>9, <1>10, <1>11, <1>12, <1>13, <1>14, <1>15
  DEF Next, Progress, Environment, SwitchBinding, Settle, centerVars, syncVars

\* A step that leaves the source visible takes no record back.
LEMMA StepForward ==
    ASSUME Kept, Versions, Ahead, [Next \/ Settle]_syncVars, manifest' # None
    PROVE  \A k \in Keys : View[k] <= View'[k]
<1>0. Base /\ Refs /\ ViewHad
  BY ViewBelow DEF Kept
<1>1. ASSUME View' = View PROVE \A k \in Keys : View[k] <= View'[k]
  <2>1. \A k \in Keys : View[k] \in Nat
    BY <1>0 DEF ViewHad
  <2> QED
    BY <1>1, <2>1
<1>2. ASSUME Activate, InPhase PROVE \A k \in Keys : View[k] <= View'[k]
  <2>1. PICK b \in Bindings : b = run.binding /\ State(b) # None
    BY <1>0, <1>2, PhaseFacts
  <2> DEFINE B == State(b).boot
  <2>2. /\ B # None /\ B.ready /\ B.hgen \in DOMAIN catalog
        /\ manifest' = [hgen |-> B.hgen, binding |-> b]
    BY <1>0, <1>2, <2>1, ActivateEffect
  <2>3. PICK gone \in SUBSET Selected(B.expected) :
           catalog' = Without(catalog, gone) /\ \A g \in gone : g # B.hgen
    BY <1>0, <1>2, <2>1, ActivateEffect
  <2>4. B.hgen \in DOMAIN catalog' /\ catalog'[B.hgen] = catalog[B.hgen]
    BY <1>0, <2>2, <2>3, WithoutType DEF Base, CenterOK
  <2>5. View' = catalog[B.hgen].rows
    BY <2>2, <2>4 DEF View
  <2>6. Covers(View, catalog[B.hgen].rows)
    BY <2>1, <2>2 DEF Ahead, BootAhead
  <2> QED
    BY <2>5, <2>6 DEF Covers
<1>3. ASSUME Phase PROVE \A k \in Keys : View[k] <= View'[k]
  <2>1. PhaseStep /\ UNCHANGED envVars
    BY <1>3 DEF Phase
  <2>2. InPhase
    BY <2>1
    DEF PhaseStep, RecoverActivate, RecoverSkip, RecoverRefused, BeginRetry, Collect,
        Forget, Sweep, ReturnPosition, EnsureGeneration, WantsBootstrap,
        PublishBootstrap, BootstrapReady, RefuseMoved, RefuseBootstrap, RefusePage,
        ApplyStagedPage, ApplyActivePage, AtPage, FinishActivate, FinishSkip, InPhase
  <2> QED
    BY <1>1, <1>2, <2>1, <2>2, PhaseView
<1>4. ASSUME UNCHANGED <<manifest, catalog>> PROVE \A k \in Keys : View[k] <= View'[k]
  BY <1>1, <1>4 DEF View
<1>5. ASSUME \/ Start \/ Accept \/ Refuse \/ Abort \/ ServePending
             \/ (\E S : ServeScan(S)) \/ (\E k \in Keys : LocalWrite(k))
             \/ (\E b \in Bindings : SweepRevision(b) \/ SwitchBinding(b))
             \/ ClaimPurge \/ PurgeIngest \/ Settle \/ UNCHANGED syncVars
      PROVE  UNCHANGED <<manifest, catalog>>
  BY <1>5 DEF Start, StartRun, Accept, Refuse, Abort, EndRun, ServePending, ServeScan,
     LocalWrite, SweepRevision, SwitchBinding, ClaimPurge, PurgeIngest, Settle,
     centerVars, envVars, syncVars
<1>6. ~PurgeHistory
  BY DEF PurgeHistory
<1> QED
  BY <1>3, <1>4, <1>5, <1>6 DEF Next, Progress, Environment

\* NeverRegresses: with one binding and full scans no record that readers have
\* seen gets older or vanishes, across expired cursors, lost namespaces,
\* restarted bootstraps and crashes; only a completed purge withdraws the source.
THEOREM ViewNeverRegresses ==
    ASSUME Steady
    PROVE  (Spec \/ FairSpec) => NeverRegresses
<1> DEFINE Inv == Kept /\ Versions /\ Ahead
<1>1. Init => Inv
  <2>1. Init => Ahead
    BY DEF Init, Ahead, State
  <2> QED
    BY <2>1, KeptInit, VersionsInit
<1>2. Inv /\ [Next \/ Settle]_syncVars => Inv'
  BY KeptNext, VersionsNext, AheadNext
<1>3. [Next]_syncVars => [Next \/ Settle]_syncVars
  OBVIOUS
<1>4. Inv /\ [Next \/ Settle]_syncVars
        => [manifest' # None => \A k \in Keys : View[k] <= View'[k]]_syncVars
  BY StepForward
<1> QED
  BY <1>1, <1>2, <1>3, <1>4, PTL DEF Spec, FairSpec, NeverRegresses


=============================================================================
