------------------------- MODULE DeltaJournalProofs -------------------------
(***************************************************************************)
(* What the stages of a reconcile preserve, for every journal.             *)
(*                                                                         *)
(* Tracks is the heart of the matter: `last' points to the newest entry of *)
(* a key in the whole log of the generation, and that entry carries the    *)
(* key's current content.  Pruning does not touch it and an appended batch *)
(* restores it, so it survives every stage; together with a complete       *)
(* bootstrap it says what readers of the journal end up with.              *)
(***************************************************************************)
EXTENDS DeltaJournal, FiniteSetTheorems, WellFoundedInduction, Functions, TLAPS

Tracks(J) ==
    \A k \in Keys :
        /\ J.mat[k].last <= J.seq
        /\ J.mat[k].last = 0 => J.mat[k].val = Absent
        /\ J.mat[k].last > 0 => J.log[J.mat[k].last].key = k
        /\ J.mat[k].last > 0 => J.log[J.mat[k].last].val = J.mat[k].val
        /\ \A s \in 1..J.seq : s > J.mat[k].last => J.log[s].key # k

\* committed_at never falls from one retained entry to the next.
Ordered(J) ==
    \A s \in Retained(J) : s + 1 \in Retained(J) => J.at[s] <= J.at[s + 1]

\* What every stage of a reconcile keeps.
Sound(J) == IsJournal(J) /\ Tracks(J) /\ Ordered(J) /\ ValidClock(J.clock)

\* The fields of a journal have their types.
LEMMA JournalFields ==
    ASSUME NEW J, IsJournal(J)
    PROVE  /\ J.gen \in Nat /\ J.floor \in Nat /\ J.seq \in Nat
           /\ J.floor <= J.seq
           /\ J.log \in [1..J.seq -> Change]
           /\ J.at \in [(J.floor + 1)..J.seq -> Nat]
           /\ J.mat \in [Keys -> Record]
           /\ \A k \in Keys : J.mat[k].val \in Contents /\ J.mat[k].last \in Nat
           /\ J.clock \in Clock /\ J.clock.trusted \in Nat
BY DEF IsJournal, Record, Clock

\* StoredExportState::new is sound and complete.
LEMMA NewSound ==
    ASSUME NEW gen \in Nat, NEW t \in Nat
    PROVE  /\ Sound(NewJournal(gen, t))
           /\ BootstrapComplete(NewJournal(gen, t))
<1> DEFINE J == NewJournal(gen, t)
<1>1. IsJournal(J)
  <2>1. [s \in 1..0 |-> t] \in [1..0 -> Change] /\ 0 + 1 = 1
    OBVIOUS
  <2>2. [s \in 1..0 |-> t] \in [1..0 -> Nat]
    OBVIOUS
  <2>3. [k \in Keys |-> [val |-> Absent, last |-> 0]] \in [Keys -> Record]
    BY DEF Record, Contents
  <2>4. CurrentClock(t) \in Clock
    BY DEF CurrentClock, Clock
  <2> QED
    BY <2>1, <2>2, <2>3, <2>4 DEF NewJournal, IsJournal
<1>2. Tracks(J)
  BY DEF NewJournal, Tracks
<1>3. Ordered(J) /\ ValidClock(J.clock)
  BY DEF NewJournal, Ordered, Retained, ValidClock, CurrentClock, IsPending
<1>4. BootstrapComplete(J)
  BY DEF NewJournal, BootstrapComplete, CurrentKeys
<1> QED
  BY <1>1, <1>2, <1>3, <1>4 DEF Sound

\* drop_oldest_entries keeps a journal sound wherever it cuts.
LEMMA DropSound ==
    ASSUME NEW J, Sound(J), NEW n \in J.floor..J.seq
    PROVE  /\ Sound(DropThrough(J, n))
           /\ DropThrough(J, n).seq = J.seq
           /\ DropThrough(J, n).floor = n
           /\ DropThrough(J, n).clock = J.clock
           /\ DropThrough(J, n).gen = J.gen
           /\ DropThrough(J, n).mat = J.mat
<1> DEFINE K == DropThrough(J, n)
<1>1. IsJournal(J) /\ n \in Nat
  BY JournalFields DEF Sound
<1>2. /\ K.gen = J.gen /\ K.floor = n /\ K.seq = J.seq /\ K.log = J.log
      /\ K.mat = J.mat /\ K.clock = J.clock
      /\ K.at = [s \in (n + 1)..J.seq |-> J.at[s]]
  BY DEF DropThrough
<1>3. [s \in (n + 1)..J.seq |-> J.at[s]] \in [(n + 1)..J.seq -> Nat]
  BY <1>1, JournalFields
<1>4. IsJournal(K)
  BY <1>1, <1>3, JournalFields DEF DropThrough, IsJournal
<1> HIDE DEF K
<1>5. Tracks(K)
  BY <1>2 DEF Tracks, Sound
<1>6. Ordered(K)
  <2> SUFFICES ASSUME NEW s \in Retained(K), s + 1 \in Retained(K)
               PROVE  K.at[s] <= K.at[s + 1]
    BY DEF Ordered
  <2>1. s \in (n + 1)..J.seq /\ s + 1 \in (n + 1)..J.seq
    BY <1>2 DEF Retained
  <2>2. s \in Retained(J) /\ s + 1 \in Retained(J)
    BY <2>1, <1>1, JournalFields DEF Retained
  <2>3. J.at[s] <= J.at[s + 1]
    BY <2>2 DEF Sound, Ordered
  <2> QED
    BY <2>1, <2>3, <1>2
<1> QED
  BY <1>2, <1>4, <1>5, <1>6 DEF Sound, K

\* next_retention_clock maps a clock that the state file may hold to another
\* one, and never moves the trusted time back.
LEMMA NextClockType ==
    ASSUME NEW c \in Clock, ValidClock(c), NEW t \in Nat
    PROVE  /\ NextClock(c, t) \in Clock
           /\ ValidClock(NextClock(c, t))
           /\ NextClock(c, t).trusted >= c.trusted
<1> USE ClockAssumption DEF ClockAssumption
<1>1. CASE t <= c.trusted
  BY <1>1 DEF NextClock, CurrentClock, Clock, ValidClock, IsPending
<1>2. CASE t > c.trusted /\ t <= c.trusted + MaxForward
  BY <1>2 DEF NextClock, CurrentClock, Clock, ValidClock, IsPending
<1>3. CASE t > c.trusted + MaxForward /\ ~Continues(c, t)
  <2>1. NextClock(c, t) = PendingClock(c.trusted, t)
    BY <1>3 DEF NextClock, Clock
  <2> QED
    BY <1>3, <2>1 DEF PendingClock, Clock, ValidClock, IsPending
<1>4. CASE t > c.trusted + MaxForward /\ Continues(c, t) /\ Confirms(c, t)
  <2>1. NextClock(c, t) = CurrentClock(t)
    BY <1>4 DEF NextClock, Clock
  <2> QED
    BY <1>4, <2>1 DEF CurrentClock, Clock, ValidClock, IsPending
<1>5. CASE t > c.trusted + MaxForward /\ Continues(c, t) /\ ~Confirms(c, t)
  <2>1. NextClock(c, t) = ExtendedClock(c, t)
    BY <1>5 DEF NextClock, Clock
  <2>2. c.started <= t /\ c.trusted < c.started
    BY <1>5 DEF Continues, ValidClock, Clock, IsPending
  <2> QED
    BY <2>1, <2>2 DEF Clock, ValidClock, IsPending, ExtendedClock
<1> QED
  BY <1>1, <1>2, <1>3, <1>4, <1>5 DEF Clock

\* Reading the wall clock keeps a journal sound.
LEMMA TickSound ==
    ASSUME NEW J, Sound(J), NEW t \in Nat
    PROVE  Sound(Ticked(J, t)) /\ Ticked(J, t).gen = J.gen
<1> DEFINE K == Ticked(J, t)
<1>1. /\ K.gen = J.gen /\ K.floor = J.floor /\ K.seq = J.seq /\ K.log = J.log
      /\ K.mat = J.mat /\ K.at = J.at /\ K.clock = NextClock(J.clock, t)
  BY DEF Ticked
<1>2. NextClock(J.clock, t) \in Clock /\ ValidClock(NextClock(J.clock, t))
  BY JournalFields, NextClockType DEF Sound
<1>3. IsJournal(K)
  BY <1>2, JournalFields DEF Sound, Ticked, IsJournal
<1> HIDE DEF K
<1>4. Tracks(K) /\ Ordered(K)
  BY <1>1 DEF Sound, Tracks, Ordered, Retained
<1> QED
  BY <1>1, <1>2, <1>3, <1>4 DEF Sound, K

\* A batch order lists every key of the batch exactly once.
LEMMA OrderOnto ==
    ASSUME NEW T \in SUBSET Keys, NEW ord \in Orders(T)
    PROVE  /\ Cardinality(T) \in Nat
           /\ ord \in [1..Cardinality(T) -> T]
           /\ \A k \in T : \E i \in 1..Cardinality(T) : ord[i] = k
           /\ \A i, j \in 1..Cardinality(T) : ord[i] = ord[j] => i = j
<1> DEFINE n == Cardinality(T)
<1>1. IsFiniteSet(T)
  BY FS_Subset, JournalAssumption DEF JournalAssumption
<1>2. n \in Nat
  BY <1>1, FS_CardinalityType
<1>3. ord \in [1..n -> T]
  BY DEF Orders
<1>4. \A i, j \in 1..n : i < j => ord[i] < ord[j]
  BY DEF Orders
<1>5. \A i \in 1..n : ord[i] \in Int
  BY <1>3, JournalAssumption DEF JournalAssumption
<1> HIDE DEF n
<1>6. \A i, j \in 1..n : ord[i] = ord[j] => i = j
  <2> SUFFICES ASSUME NEW i \in 1..n, NEW j \in 1..n, i # j
               PROVE  ord[i] # ord[j]
    OBVIOUS
  <2>1. CASE i < j
    BY <2>1, <1>4, <1>5
  <2>2. CASE j < i
    BY <2>2, <1>4, <1>5
  <2> QED
    BY <2>1, <2>2, <1>2
<1>7. ord \in Injection(1..n, T)
  BY <1>3, <1>6 DEF Injection, IsInjective
<1>8. Cardinality(1..n) = Cardinality(T)
  BY <1>2, FS_Interval DEF n
<1>9. ord \in Surjection(1..n, T)
  BY <1>1, <1>7, <1>8, FS_Injection
<1> QED
  BY <1>2, <1>3, <1>6, <1>9 DEF Surjection, n

\* The stamp of a batch is not before the newest retained entry.
LEMMA StampLate ==
    ASSUME NEW J, IsJournal(J), NEW t \in Nat
    PROVE  /\ Stamp(J, t) \in Nat
           /\ J.floor < J.seq => J.at[J.seq] <= Stamp(J, t)
<1>1. J.floor < J.seq => J.at[J.seq] \in Nat
  BY JournalFields
<1> QED
  BY <1>1, JournalFields DEF Stamp

\* append_change_batch keeps a journal sound, and its keys take their new
\* contents.
LEMMA AppendSound ==
    ASSUME NEW J, Sound(J), NEW t \in Nat, NEW T \in SUBSET Keys,
           NEW vals \in [Keys -> Contents], NEW ord \in Orders(T)
    PROVE  /\ Sound(AppendBatch(J, t, T, vals, ord))
           /\ AppendBatch(J, t, T, vals, ord).gen = J.gen
<1> DEFINE n == Cardinality(T)
           K == AppendBatch(J, t, T, vals, ord)
           pos(k) == BatchSequence(J, ord, k)
<1>1. /\ IsJournal(J) /\ J.floor \in Nat /\ J.seq \in Nat /\ J.floor <= J.seq
      /\ J.gen \in Nat /\ J.clock \in Clock
      /\ J.log \in [1..J.seq -> Change] /\ J.mat \in [Keys -> Record]
      /\ J.at \in [(J.floor + 1)..J.seq -> Nat]
      /\ \A k \in Keys : J.mat[k].val \in Contents /\ J.mat[k].last \in Nat
  BY JournalFields DEF Sound
<1>2. /\ n \in Nat /\ ord \in [1..n -> T]
      /\ \A k \in T : \E i \in 1..n : ord[i] = k
      /\ \A i, j \in 1..n : ord[i] = ord[j] => i = j
  BY OrderOnto
<1>3. /\ K.gen = J.gen /\ K.floor = J.floor /\ K.seq = J.seq + n
      /\ K.log = [s \in 1..(J.seq + n) |->
                     IF s <= J.seq THEN J.log[s]
                     ELSE BatchEntry(J, vals, ord[s - J.seq])]
      /\ K.at = [s \in (J.floor + 1)..(J.seq + n) |->
                     IF s <= J.seq THEN J.at[s] ELSE Stamp(J, t)]
      /\ K.mat = [k \in Keys |->
                     IF k \in T THEN [val |-> vals[k], last |-> pos(k)]
                     ELSE J.mat[k]]
      /\ K.clock = J.clock
      /\ K = [gen |-> K.gen, floor |-> K.floor, seq |-> K.seq, log |-> K.log,
              at |-> K.at, mat |-> K.mat, clock |-> K.clock]
  BY DEF AppendBatch
<1>4. \A k \in T : /\ pos(k) - J.seq \in 1..n
                    /\ ord[pos(k) - J.seq] = k
                    /\ pos(k) \in (J.seq + 1)..(J.seq + n)
  <2> SUFFICES ASSUME NEW k \in T
               PROVE  /\ pos(k) - J.seq \in 1..n
                      /\ ord[pos(k) - J.seq] = k
                      /\ pos(k) \in (J.seq + 1)..(J.seq + n)
    OBVIOUS
  <2> DEFINE i == CHOOSE i \in DOMAIN ord : ord[i] = k
  <2>1. i \in 1..n /\ ord[i] = k
    BY <1>2
  <2>2. pos(k) = J.seq + i
    BY DEF BatchSequence
  <2> HIDE DEF i, pos, n
  <2> QED
    BY <2>1, <2>2, <1>1, <1>2
<1> HIDE DEF K, pos, n
<1>5. \A s \in 1..J.seq : s \in 1..(J.seq + n) /\ K.log[s] = J.log[s]
  BY <1>1, <1>2, <1>3
<1>6. \A s \in (J.seq + 1)..(J.seq + n) :
         /\ s \in 1..(J.seq + n)
         /\ s - J.seq \in 1..n
         /\ K.log[s].key = ord[s - J.seq]
         /\ K.log[s].val = vals[ord[s - J.seq]]
         /\ K.log[s] \in Change
  <2> SUFFICES ASSUME NEW s \in (J.seq + 1)..(J.seq + n)
               PROVE  /\ s \in 1..(J.seq + n)
                      /\ s - J.seq \in 1..n
                      /\ K.log[s].key = ord[s - J.seq]
                      /\ K.log[s].val = vals[ord[s - J.seq]]
                      /\ K.log[s] \in Change
    OBVIOUS
  <2>1. s \in 1..(J.seq + n) /\ s - J.seq \in 1..n /\ ~(s <= J.seq)
    BY <1>1, <1>2
  <2>2. K.log[s] = [key |-> ord[s - J.seq], val |-> vals[ord[s - J.seq]]]
    BY <2>1, <1>3 DEF BatchEntry
  <2>3. ord[s - J.seq] \in Keys /\ vals[ord[s - J.seq]] \in Contents
    BY <2>1, <1>2
  <2> QED
    BY <2>1, <2>2, <2>3 DEF Change
<1>7. \A k \in Keys :
         /\ k \in T => /\ K.mat[k].val = vals[k]
                       /\ K.mat[k].last = pos(k)
                       /\ K.mat[k] \in Record
         /\ k \notin T => K.mat[k] = J.mat[k]
  <2> SUFFICES ASSUME NEW k \in Keys
               PROVE  /\ k \in T => /\ K.mat[k].val = vals[k]
                                    /\ K.mat[k].last = pos(k)
                                    /\ K.mat[k] \in Record
                      /\ k \notin T => K.mat[k] = J.mat[k]
    OBVIOUS
  <2>1. CASE k \in T
    <3>1. K.mat[k] = [val |-> vals[k], last |-> pos(k)]
      BY <2>1, <1>3
    <3>2. pos(k) \in Nat /\ vals[k] \in Contents
      BY <2>1, <1>1, <1>2, <1>4
    <3> QED
      BY <2>1, <3>1, <3>2 DEF Record
  <2>2. CASE k \notin T
    BY <2>2, <1>3
  <2> QED
    BY <2>1, <2>2
<1>8. IsJournal(K)
  <2>1. K.log \in [1..K.seq -> Change]
    <3>1. \A s \in 1..K.seq : K.log[s] \in Change
      <4> SUFFICES ASSUME NEW s \in 1..K.seq PROVE K.log[s] \in Change
        OBVIOUS
      <4>1. CASE s <= J.seq
        BY <4>1, <1>1, <1>2, <1>3, <1>5
      <4>2. CASE s > J.seq
        <5>1. s \in (J.seq + 1)..(J.seq + n)
          BY <4>2, <1>1, <1>2, <1>3
        <5> QED
          BY <5>1, <1>6
      <4> QED
        BY <4>1, <4>2, <1>1
    <3> QED
      BY <3>1, <1>3
  <2>2. K.at \in [(K.floor + 1)..K.seq -> Nat]
    BY <1>1, <1>2, <1>3, StampLate
  <2>3. K.mat \in [Keys -> Record]
    <3>1. \A k \in Keys : K.mat[k] \in Record
      BY <1>7, <1>1
    <3> QED
      BY <3>1, <1>3
  <2>4. K.seq \in Nat /\ K.floor <= K.seq
    BY <1>1, <1>2, <1>3
  <2> QED
    BY <2>1, <2>2, <2>3, <2>4, <1>1, <1>3 DEF IsJournal
<1>9. Tracks(K)
  <2> SUFFICES ASSUME NEW k \in Keys
               PROVE  /\ K.mat[k].last <= K.seq
                      /\ K.mat[k].last = 0 => K.mat[k].val = Absent
                      /\ K.mat[k].last > 0 => K.log[K.mat[k].last].key = k
                      /\ K.mat[k].last > 0 =>
                            K.log[K.mat[k].last].val = K.mat[k].val
                      /\ \A s \in 1..K.seq :
                            s > K.mat[k].last => K.log[s].key # k
    BY DEF Tracks
  <2>1. CASE k \in T
    <3>1. K.mat[k].last = pos(k) /\ K.mat[k].val = vals[k]
      BY <2>1, <1>7
    <3>2. /\ pos(k) \in (J.seq + 1)..(J.seq + n) /\ pos(k) > 0
          /\ pos(k) <= K.seq
      BY <2>1, <1>4, <1>3, <1>1, <1>2
    <3>3. K.log[pos(k)].key = k /\ K.log[pos(k)].val = vals[k]
      BY <2>1, <3>2, <1>4, <1>6
    <3>4. ASSUME NEW s \in 1..K.seq, s > pos(k) PROVE K.log[s].key # k
      <4>1. s \in (J.seq + 1)..(J.seq + n)
        BY <3>2, <3>4, <1>1, <1>2, <1>3
      <4>2. s - J.seq # pos(k) - J.seq
        BY <3>4, <4>1, <3>2, <1>1, <1>2
      <4>3. ord[s - J.seq] # k
        BY <4>1, <4>2, <1>2, <1>4, <1>6, <2>1
      <4> QED
        BY <4>1, <4>3, <1>6
    <3> QED
      BY <3>1, <3>2, <3>3, <3>4, <1>1
  <2>2. CASE k \notin T
    <3>1. K.mat[k] = J.mat[k]
      BY <2>2, <1>7
    <3>2. /\ J.mat[k].last <= J.seq
          /\ J.mat[k].last = 0 => J.mat[k].val = Absent
          /\ J.mat[k].last > 0 => J.log[J.mat[k].last].key = k
          /\ J.mat[k].last > 0 => J.log[J.mat[k].last].val = J.mat[k].val
          /\ \A s \in 1..J.seq : s > J.mat[k].last => J.log[s].key # k
      BY DEF Sound, Tracks
    <3>3. J.mat[k].last > 0 => J.mat[k].last \in 1..J.seq
      BY <3>2, <1>1
    <3>4. J.mat[k].last <= K.seq
      BY <3>2, <1>1, <1>2, <1>3
    <3>5. ASSUME NEW s \in 1..K.seq, s > J.mat[k].last PROVE K.log[s].key # k
      <4>1. CASE s <= J.seq
        BY <4>1, <3>2, <3>5, <1>1, <1>5
      <4>2. CASE s > J.seq
        <5>1. s \in (J.seq + 1)..(J.seq + n)
          BY <4>2, <1>1, <1>2, <1>3
        <5>2. ord[s - J.seq] \in T
          BY <5>1, <1>2, <1>6
        <5> QED
          BY <5>1, <5>2, <1>6, <2>2
      <4> QED
        BY <4>1, <4>2, <1>1, <1>2, <1>3
    <3> QED
      BY <3>1, <3>2, <3>3, <3>4, <3>5, <1>5
  <2> QED
    BY <2>1, <2>2
<1>10. Ordered(K)
  <2> SUFFICES ASSUME NEW s \in Retained(K), s + 1 \in Retained(K)
               PROVE  K.at[s] <= K.at[s + 1]
    BY DEF Ordered
  <2>1. /\ s \in (J.floor + 1)..(J.seq + n)
        /\ s + 1 \in (J.floor + 1)..(J.seq + n)
    BY <1>3 DEF Retained
  <2>2. /\ K.at[s] = IF s <= J.seq THEN J.at[s] ELSE Stamp(J, t)
        /\ K.at[s + 1] = IF s + 1 <= J.seq THEN J.at[s + 1] ELSE Stamp(J, t)
    BY <2>1, <1>3
  <2>3. CASE s + 1 <= J.seq
    <3>1. s \in Retained(J) /\ s + 1 \in Retained(J)
      BY <2>1, <2>3, <1>1, <1>2 DEF Retained
    <3>2. J.at[s] <= J.at[s + 1]
      BY <3>1 DEF Sound, Ordered
    <3> QED
      BY <2>2, <2>3, <3>2, <2>1, <1>1, <1>2
  <2>4. CASE s = J.seq
    <3>1. J.floor < J.seq
      BY <2>1, <2>4, <1>1, <1>2
    <3>2. K.at[s] = J.at[J.seq] /\ K.at[s + 1] = Stamp(J, t)
      BY <2>2, <2>4, <1>1
    <3> QED
      BY <3>1, <3>2, <1>1, StampLate
  <2>5. CASE s > J.seq
    <3>1. K.at[s] = Stamp(J, t) /\ K.at[s + 1] = Stamp(J, t)
      BY <2>1, <2>2, <2>5, <1>1, <1>2
    <3> QED
      BY <3>1, <1>1, StampLate
  <2> QED
    BY <2>1, <2>3, <2>4, <2>5, <1>1, <1>2
<1> QED
  BY <1>3, <1>8, <1>9, <1>10 DEF Sound, K

\* compact_to_limits keeps a journal sound and within the entry limit.
LEMMA CompactSound ==
    ASSUME NEW J, Sound(J), NEW C \in Compacted(J)
    PROVE  Sound(C) /\ C.seq - C.floor <= MaxEntries /\ C.gen = J.gen
<1>1. PICK n \in J.floor..J.seq : J.seq - n <= MaxEntries /\ C = DropThrough(J, n)
  BY DEF Compacted
<1> QED
  BY <1>1, DropSound

\* The merge of a desired set gives every key a content.
LEMMA MergedType ==
    ASSUME NEW J, IsJournal(J), NEW desired \in [Keys -> Contents], NEW mode
    PROVE  MergedContents(J, desired, mode) \in [Keys -> Contents]
<1> SUFFICES ASSUME NEW k \in Keys
             PROVE  MergedContents(J, desired, mode)[k] \in Contents
  BY DEF MergedContents
<1>1. Absent \in Contents /\ desired[k] \in Contents /\ J.mat[k].val \in Contents
  BY JournalFields DEF Contents
<1>2. CASE k \in Expired(J)
  BY <1>1, <1>2 DEF MergedContents
<1>3. CASE k \notin Expired(J) /\ desired[k] = Absent
  BY <1>1, <1>3 DEF MergedContents
<1>4. CASE k \notin Expired(J) /\ desired[k] # Absent
  BY <1>1, <1>4 DEF MergedContents
<1> QED
  BY <1>2, <1>3, <1>4

\* refresh_materialized_bootstrap_if_needed leaves a complete journal.
LEMMA RefreshSound ==
    ASSUME NEW J, Sound(J), J.seq - J.floor <= MaxEntries, NEW t \in Nat,
           NEW K \in Refreshed(J, t)
    PROVE  /\ Sound(K) /\ BootstrapComplete(K)
           /\ K.seq - K.floor <= MaxEntries /\ K.gen = J.gen
<1>1. CASE BootstrapComplete(J)
  BY <1>1 DEF Refreshed
<1>2. CASE ~BootstrapComplete(J)
  <2> DEFINE T == CurrentKeys(J)
             vals == [k \in Keys |-> J.mat[k].val]
  <2>1. PICK ord \in Orders(T) : K \in Compacted(AppendBatch(J, t, T, vals, ord))
    BY <1>2 DEF Refreshed
  <2>2. BootstrapComplete(K)
    BY <1>2 DEF Refreshed
  <2>3. T \in SUBSET Keys /\ vals \in [Keys -> Contents]
    BY JournalFields DEF Sound, CurrentKeys
  <2> HIDE DEF T, vals
  <2>4. /\ Sound(AppendBatch(J, t, T, vals, ord))
        /\ AppendBatch(J, t, T, vals, ord).gen = J.gen
    BY <2>3, AppendSound
  <2> QED
    BY <2>1, <2>2, <2>4, CompactSound
<1> QED
  BY <1>1, <1>2

\* A reconcile leaves a sound journal, complete and within the entry limit,
\* of the same generation.
THEOREM ReconcileSound ==
    ASSUME NEW J, Sound(J), BootstrapComplete(J), J.seq - J.floor <= MaxEntries,
           NEW t \in Nat, NEW desired \in [Keys -> Contents], NEW mode,
           NEW K \in Reconciled(J, t, desired, mode)
    PROVE  /\ Sound(K) /\ BootstrapComplete(K)
           /\ K.seq - K.floor <= MaxEntries /\ K.gen = J.gen
<1>1. CASE SetMatches(J, desired) /\ ~MaintenanceDue(J, t)
  BY <1>1 DEF Reconciled
<1>2. CASE ~(SetMatches(J, desired) /\ ~MaintenanceDue(J, t))
  <2>1. PICK A \in AgePruned(J, t) :
             \E M \in Merged(A, t, desired, mode) :
             \E C \in Compacted(M) : K \in Refreshed(C, t)
    BY <1>2 DEF Reconciled
  <2>2. Sound(A) /\ A.gen = J.gen
    <3>1. Sound(Ticked(J, t)) /\ Ticked(J, t).gen = J.gen
      BY TickSound
    <3>2. PICK n \in Ticked(J, t).floor..Ticked(J, t).seq :
               A = DropThrough(Ticked(J, t), n)
      BY DEF AgePruned, AgeFloors
    <3> QED
      BY <3>1, <3>2, DropSound
  <2>3. PICK M \in Merged(A, t, desired, mode) :
             \E C \in Compacted(M) : K \in Refreshed(C, t)
    BY <2>1
  <2>4. Sound(M) /\ M.gen = J.gen
    <3> DEFINE vals == MergedContents(A, desired, mode)
               T    == Transitions(A, vals)
    <3>1. vals \in [Keys -> Contents]
      BY <2>2, MergedType DEF Sound
    <3>2. T \in SUBSET Keys
      BY DEF Transitions
    <3>3. PICK ord \in Orders(T) : M = AppendBatch(A, t, T, vals, ord)
      BY DEF Merged
    <3> HIDE DEF T, vals
    <3> QED
      BY <2>2, <3>1, <3>2, <3>3, AppendSound
  <2>5. PICK C \in Compacted(M) : K \in Refreshed(C, t)
    BY <2>3
  <2>6. Sound(C) /\ C.seq - C.floor <= MaxEntries /\ C.gen = J.gen
    BY <2>4, <2>5, CompactSound
  <2> QED
    BY <2>5, <2>6, RefreshSound
<1> QED
  BY <1>1, <1>2

\* Reading a sound journal from any point that is not after the newest entry
\* of a key, or from the beginning, ends with the current content of the key.
THEOREM ReplayExact ==
    ASSUME NEW J, Sound(J), NEW k \in Keys, NEW lo \in 0..J.seq,
           J.mat[k].val = Absent \/ lo < J.mat[k].last
    PROVE  Replay(J, lo, J.seq, k) = J.mat[k].val
<1> DEFINE S == {s \in (lo + 1)..J.seq : J.log[s].key = k}
           p == J.mat[k].last
<1>1. /\ p \in Nat /\ J.seq \in Nat /\ p <= J.seq /\ lo \in Nat
      /\ p = 0 => J.mat[k].val = Absent
      /\ p > 0 => J.log[p].key = k /\ J.log[p].val = J.mat[k].val
      /\ \A s \in 1..J.seq : s > p => J.log[s].key # k
  BY JournalFields DEF Sound, Tracks
<1> HIDE DEF p
<1>2. CASE lo < p
  <2>1. p \in S
    BY <1>1, <1>2
  <2>2. \A r \in S : r <= p
    BY <1>1
  <2>3. (CHOOSE s \in S : \A r \in S : r <= s) = p
    <3>1. \A s \in S : (\A r \in S : r <= s) => s = p
      BY <2>1, <2>2, <1>1
    <3> HIDE DEF S
    <3> QED
      BY <3>1, <2>1, <2>2
  <2>4. S # {}
    BY <2>1
  <2> HIDE DEF S
  <2>5. Replay(J, lo, J.seq, k) = J.log[p].val
    BY <2>3, <2>4 DEF Replay, S
  <2> QED
    BY <2>5, <1>1, <1>2
<1>3. CASE ~(lo < p)
  <2>1. S = {}
    BY <1>1, <1>3
  <2>2. J.mat[k].val = Absent
    BY <1>3 DEF p
  <2> QED
    BY <2>1, <2>2 DEF Replay
<1> QED
  BY <1>2, <1>3

-----------------------------------------------------------------------------
(***************************************************************************)
(* What a reconcile leaves alone: the entries that readers have followed.  *)
(***************************************************************************)

\* K continues J: the same generation, the same entries and perhaps more.
Extends(J, K) ==
    /\ K.gen = J.gen /\ J.seq <= K.seq /\ J.floor <= K.floor
    /\ \A s \in 1..J.seq : K.log[s] = J.log[s]

LEMMA ExtendsTransitive ==
    ASSUME NEW J, NEW K, NEW L, IsJournal(J), IsJournal(K), IsJournal(L),
           Extends(J, K), Extends(K, L)
    PROVE  Extends(J, L)
<1>1. /\ {J.seq, K.seq, L.seq, J.floor, K.floor, L.floor} \subseteq Nat
  BY JournalFields
<1>2. \A s \in 1..J.seq : s \in 1..K.seq
  BY <1>1 DEF Extends
<1> QED
  BY <1>1, <1>2 DEF Extends

\* append_change_batch only adds entries.
LEMMA AppendExtends ==
    ASSUME NEW J, Sound(J), NEW t \in Nat, NEW T \in SUBSET Keys,
           NEW vals \in [Keys -> Contents], NEW ord \in Orders(T)
    PROVE  Extends(J, AppendBatch(J, t, T, vals, ord))
<1> DEFINE n == Cardinality(T)
           K == AppendBatch(J, t, T, vals, ord)
<1>1. n \in Nat /\ J.seq \in Nat /\ J.floor \in Nat
  BY OrderOnto, JournalFields DEF Sound
<1>2. /\ K.gen = J.gen /\ K.floor = J.floor /\ K.seq = J.seq + n
      /\ K.log = [s \in 1..(J.seq + n) |->
                    IF s <= J.seq THEN J.log[s]
                    ELSE BatchEntry(J, vals, ord[s - J.seq])]
  BY DEF AppendBatch
<1> HIDE DEF n, K
<1>3. \A s \in 1..J.seq : s \in 1..(J.seq + n) /\ K.log[s] = J.log[s]
  BY <1>1, <1>2
<1> QED
  BY <1>1, <1>2, <1>3 DEF Extends, K

\* compact_to_limits keeps the history of the journal.
LEMMA CompactExtends ==
    ASSUME NEW J, Sound(J), NEW C \in Compacted(J)
    PROVE  Extends(J, C)
<1>1. PICK n \in J.floor..J.seq : C = DropThrough(J, n)
  BY DEF Compacted
<1>2. C.log = J.log /\ C.gen = J.gen /\ C.seq = J.seq /\ C.floor = n
  BY <1>1 DEF DropThrough
<1> QED
  BY <1>1, <1>2, JournalFields DEF Extends, Sound

\* refresh_materialized_bootstrap_if_needed only adds and drops entries.
LEMMA RefreshExtends ==
    ASSUME NEW J, Sound(J), NEW t \in Nat, NEW K \in Refreshed(J, t)
    PROVE  Extends(J, K)
<1>1. CASE BootstrapComplete(J)
  BY <1>1, JournalFields DEF Refreshed, Extends, Sound
<1>2. CASE ~BootstrapComplete(J)
  <2> DEFINE T == CurrentKeys(J)
             vals == [k \in Keys |-> J.mat[k].val]
  <2>1. PICK ord \in Orders(T) : K \in Compacted(AppendBatch(J, t, T, vals, ord))
    BY <1>2 DEF Refreshed
  <2>2. T \in SUBSET Keys /\ vals \in [Keys -> Contents]
    BY JournalFields DEF Sound, CurrentKeys
  <2> HIDE DEF T, vals
  <2>3. Sound(AppendBatch(J, t, T, vals, ord))
    BY <2>2, AppendSound
  <2>4. Sound(K)
    BY <2>1, <2>3, CompactSound
  <2>5. /\ Extends(J, AppendBatch(J, t, T, vals, ord))
        /\ Extends(AppendBatch(J, t, T, vals, ord), K)
    BY <2>1, <2>2, <2>3, AppendExtends, CompactExtends
  <2> QED
    BY <2>3, <2>4, <2>5, ExtendsTransitive DEF Sound
<1> QED
  BY <1>1, <1>2

\* The clock reading and the age pruning that begin a reconcile.
LEMMA AgeExtends ==
    ASSUME NEW J, Sound(J), NEW t \in Nat, NEW A \in AgePruned(J, t)
    PROVE  Sound(A) /\ Extends(J, A)
<1>1. Sound(Ticked(J, t))
  BY TickSound
<1>2. PICK n \in Ticked(J, t).floor..Ticked(J, t).seq :
           A = DropThrough(Ticked(J, t), n)
  BY DEF AgePruned, AgeFloors
<1>3. Sound(A)
  BY <1>1, <1>2, DropSound
<1>4. /\ A.log = J.log /\ A.gen = J.gen /\ A.seq = J.seq /\ A.floor = n
      /\ n \in J.floor..J.seq
  BY <1>2 DEF DropThrough, Ticked
<1> QED
  BY <1>3, <1>4, JournalFields DEF Extends, Sound

\* The merge of the desired set.
LEMMA MergeExtends ==
    ASSUME NEW J, Sound(J), NEW t \in Nat, NEW desired \in [Keys -> Contents],
           NEW mode, NEW M \in Merged(J, t, desired, mode)
    PROVE  Sound(M) /\ Extends(J, M)
<1> DEFINE vals == MergedContents(J, desired, mode)
           T    == Transitions(J, vals)
<1>1. vals \in [Keys -> Contents] /\ T \in SUBSET Keys
  BY MergedType DEF Sound, Transitions
<1>2. PICK ord \in Orders(T) : M = AppendBatch(J, t, T, vals, ord)
  BY DEF Merged
<1> HIDE DEF T, vals
<1> QED
  BY <1>1, <1>2, AppendSound, AppendExtends

\* A reconcile never rewrites an entry and never lowers the floor: a cursor
\* into the journal keeps its meaning.
THEOREM ReconcileExtends ==
    ASSUME NEW J, Sound(J), NEW t \in Nat, NEW desired \in [Keys -> Contents],
           NEW mode, NEW K \in Reconciled(J, t, desired, mode)
    PROVE  Extends(J, K)
<1>1. CASE SetMatches(J, desired) /\ ~MaintenanceDue(J, t)
  BY <1>1, JournalFields DEF Reconciled, Extends, Sound
<1>2. CASE ~(SetMatches(J, desired) /\ ~MaintenanceDue(J, t))
  <2>a. PICK A \in AgePruned(J, t) :
             \E M \in Merged(A, t, desired, mode) :
             \E C \in Compacted(M) : K \in Refreshed(C, t)
    BY <1>2 DEF Reconciled
  <2>b. PICK M \in Merged(A, t, desired, mode) :
             \E C \in Compacted(M) : K \in Refreshed(C, t)
    BY <2>a
  <2>1. PICK C \in Compacted(M) : K \in Refreshed(C, t)
    BY <2>b
  <2>2. Sound(A) /\ Extends(J, A)
    BY AgeExtends
  <2>3. Sound(M) /\ Extends(A, M)
    BY <2>2, MergeExtends
  <2>4. Sound(C) /\ Extends(M, C) /\ C.seq - C.floor <= MaxEntries
    BY <2>3, CompactSound, CompactExtends
  <2>5. Sound(K) /\ Extends(C, K)
    BY <2>1, <2>4, RefreshSound, RefreshExtends
  <2>6. IsJournal(J) /\ IsJournal(A) /\ IsJournal(M) /\ IsJournal(C) /\ IsJournal(K)
    BY <2>2, <2>3, <2>4, <2>5 DEF Sound
  <2>7. Extends(J, M)
    BY <2>2, <2>3, <2>6, ExtendsTransitive
  <2>8. Extends(J, C)
    BY <2>4, <2>6, <2>7, ExtendsTransitive
  <2> QED
    BY <2>5, <2>6, <2>8, ExtendsTransitive
<1> QED
  BY <1>1, <1>2

-----------------------------------------------------------------------------
(***************************************************************************)
(* What a reader that applies the entries up to a sequence number holds.   *)
(***************************************************************************)

\* A non-empty set of natural numbers has a first one.
LEMMA FirstExists ==
    ASSUME NEW T \in SUBSET Nat, T # {}
    PROVE  \E m \in T : \A i \in T : m <= i
<1>1. PICK m \in T : \A i \in T : <<i, m>> \notin OpToRel(<, Nat)
  BY WFMin, NatLessThanWellFounded, Zenon
<1>2. \A i, j \in Nat : i < j => <<i, j>> \in OpToRel(<, Nat)
  BY Zenon DEF OpToRel
<1>3. \A i \in T : ~(i < m)
  BY <1>1, <1>2
<1> QED
  BY <1>3

\* A non-empty set of sequence numbers below a bound has a last one.
LEMMA LastExists ==
    ASSUME NEW n \in Nat, NEW S \in SUBSET (1..n), S # {}
    PROVE  \E s \in S : \A r \in S : r <= s
<1> DEFINE T == {n - s : s \in S}
<1>1. T \subseteq Nat /\ T # {}
  <2>1. \A s \in S : s \in Nat /\ s <= n
    OBVIOUS
  <2>2. \A s \in S : n - s \in Nat
    BY <2>1
  <2>3. PICK s \in S : TRUE
    OBVIOUS
  <2>4. n - s \in T
    BY <2>3
  <2> QED
    BY <2>2, <2>4
<1>2. PICK m \in T : \A i \in T : m <= i
  <2> HIDE DEF T
  <2> QED
    BY <1>1, FirstExists
<1>3. PICK s \in S : m = n - s
  OBVIOUS
<1>4. \A r \in S : n - s <= n - r
  BY <1>2, <1>3
<1> QED
  BY <1>4

\* The entries of J about k after sequence lo, up to hi.
About(J, lo, hi, k) == {s \in (lo + 1)..hi : J.log[s].key = k}

\* The content of entry s.
Content(J, s) == J.log[s].val

\* Replay is the content of the last of them.
LEMMA ReplayLast ==
    ASSUME NEW J, NEW lo \in Nat, NEW hi \in Nat, NEW k
    PROVE  \A s \in About(J, lo, hi, k) :
              (\A r \in About(J, lo, hi, k) : r <= s)
                 => Replay(J, lo, hi, k) = Content(J, s)
<1> SUFFICES ASSUME NEW s \in About(J, lo, hi, k),
                    \A r \in About(J, lo, hi, k) : r <= s
             PROVE  Replay(J, lo, hi, k) = J.log[s].val
  BY DEF Content
<1> DEFINE S == About(J, lo, hi, k)
<1>1. s \in S /\ S \subseteq Nat /\ S # {} /\ \A r \in S : r <= s
  BY DEF About
<1>2. \A x \in S : (\A r \in S : r <= x) => x = s
  BY <1>1
<1>3. Replay(J, lo, hi, k) =
         IF S = {} THEN Absent ELSE J.log[CHOOSE x \in S : \A r \in S : r <= x].val
  BY DEF Replay, About
<1> HIDE DEF S
<1>4. (CHOOSE x \in S : \A r \in S : r <= x) = s
  BY <1>1, <1>2
<1> QED
  BY <1>1, <1>3, <1>4

\* With no entry about k there is no record.
LEMMA ReplayNone ==
    ASSUME NEW J, NEW lo, NEW hi, NEW k, About(J, lo, hi, k) = {}
    PROVE  Replay(J, lo, hi, k) = Absent
BY DEF Replay, About

\* Either there is no entry about k, or there is a last one.
LEMMA AboutLast ==
    ASSUME NEW J, NEW lo \in Nat, NEW hi \in Nat, NEW k
    PROVE  \/ About(J, lo, hi, k) = {}
           \/ \E s \in About(J, lo, hi, k) : \A r \in About(J, lo, hi, k) : r <= s
<1>1. About(J, lo, hi, k) \in SUBSET (1..hi)
  BY DEF About
<1> QED
  BY <1>1, LastExists

\* Later entries do not change what the earlier ones say.
LEMMA ReplayExtends ==
    ASSUME NEW J, NEW K, Extends(J, K), NEW lo \in Nat, J.seq \in Nat,
           NEW hi \in 0..J.seq, NEW k
    PROVE  Replay(K, lo, hi, k) = Replay(J, lo, hi, k)
<1>1. \A s \in (lo + 1)..hi : K.log[s] = J.log[s]
  BY DEF Extends
<1>2. About(K, lo, hi, k) = About(J, lo, hi, k)
  BY <1>1 DEF About
<1>3. CASE About(J, lo, hi, k) = {}
  BY <1>2, <1>3, ReplayNone
<1>4. CASE About(J, lo, hi, k) # {}
  <2>1. PICK s \in About(J, lo, hi, k) : \A r \in About(J, lo, hi, k) : r <= s
    BY <1>4, AboutLast
  <2>2. s \in (lo + 1)..hi
    BY DEF About
  <2>3. hi \in Nat
    OBVIOUS
  <2>4. Replay(J, lo, hi, k) = Content(J, s)
    BY <2>1, <2>3, ReplayLast
  <2>5. /\ s \in About(K, lo, hi, k)
        /\ \A r \in About(K, lo, hi, k) : r <= s
    BY <2>1, <1>2
  <2>6. Replay(K, lo, hi, k) = Content(K, s)
    BY <2>3, <2>5, ReplayLast
  <2> QED
    BY <2>2, <2>4, <2>6, <1>1 DEF Content
<1> QED
  BY <1>3, <1>4

\* Reading on from mid: the entries about k after mid win, and without one
\* what was read before stays.
LEMMA ReplayOn ==
    ASSUME NEW J, NEW hi \in Nat, NEW mid \in 0..hi, NEW lo \in 0..mid, NEW k
    PROVE  /\ About(J, mid, hi, k) = {} =>
                 Replay(J, lo, hi, k) = Replay(J, lo, mid, k)
           /\ About(J, mid, hi, k) # {} =>
                 Replay(J, lo, hi, k) = Replay(J, mid, hi, k)
<1>1. ASSUME About(J, mid, hi, k) = {}
      PROVE  Replay(J, lo, hi, k) = Replay(J, lo, mid, k)
  <2>1. About(J, lo, hi, k) = About(J, lo, mid, k)
    BY <1>1 DEF About
  <2>2. CASE About(J, lo, mid, k) = {}
    BY <2>1, <2>2, ReplayNone
  <2>3. CASE About(J, lo, mid, k) # {}
    <3>1. mid \in Nat /\ lo \in Nat
      OBVIOUS
    <3>2. PICK s \in About(J, lo, mid, k) : \A r \in About(J, lo, mid, k) : r <= s
      BY <2>3, <3>1, AboutLast
    <3>3. Replay(J, lo, mid, k) = Content(J, s)
      BY <3>1, <3>2, ReplayLast
    <3>4. s \in About(J, lo, hi, k) /\ \A r \in About(J, lo, hi, k) : r <= s
      BY <3>2, <2>1
    <3> QED
      BY <3>1, <3>3, <3>4, ReplayLast
  <2> QED
    BY <2>2, <2>3
<1>2. ASSUME About(J, mid, hi, k) # {}
      PROVE  Replay(J, lo, hi, k) = Replay(J, mid, hi, k)
  <2>1. PICK s \in About(J, mid, hi, k) : \A r \in About(J, mid, hi, k) : r <= s
    BY <1>2, AboutLast
  <2>2. s \in About(J, lo, hi, k) /\ \A r \in About(J, lo, hi, k) : r <= s
    <3>1. s \in About(J, lo, hi, k) /\ s > mid
      BY DEF About
    <3>2. ASSUME NEW r \in About(J, lo, hi, k) PROVE r <= s
      <4>1. CASE r > mid
        BY <4>1, <2>1 DEF About
      <4>2. CASE ~(r > mid)
        BY <4>2, <3>1 DEF About
      <4> QED
        BY <4>1, <4>2
    <3> QED
      BY <3>1, <3>2
  <2> QED
    BY <2>1, <2>2, ReplayLast
<1> QED
  BY <1>1, <1>2

\* What a replay says is a content.
LEMMA ReplayType ==
    ASSUME NEW J, IsJournal(J), NEW lo \in Nat, NEW hi \in 0..J.seq, NEW k
    PROVE  Replay(J, lo, hi, k) \in Contents
<1>1. J.seq \in Nat /\ J.log \in [1..J.seq -> Change]
  BY JournalFields
<1>2. CASE About(J, lo, hi, k) = {}
  BY <1>2, ReplayNone DEF Contents
<1>3. CASE About(J, lo, hi, k) # {}
  <2>1. PICK s \in About(J, lo, hi, k) : \A r \in About(J, lo, hi, k) : r <= s
    BY <1>1, <1>3, AboutLast
  <2>2. s \in 1..J.seq
    BY <1>1 DEF About
  <2>3. Content(J, s) \in Contents
    BY <1>1, <2>2 DEF Change, Content
  <2> QED
    BY <1>1, <2>1, <2>3, ReplayLast
<1> QED
  BY <1>2, <1>3

=============================================================================
