----------------------- MODULE BandwidthLedgerProofs -----------------------
(***************************************************************************)
(* The bandwidth budget is kept for every choice of the limits.            *)
(*                                                                         *)
(* The sums of the model are folds, about which nothing can be proved by   *)
(* induction here.  They are first shown equal to the number of elements   *)
(* of a set, one cell <<x, i>> for each unit i of the weight of x, so that *)
(* the theorems on cardinality give the laws of addition.                  *)
(*                                                                         *)
(* The ledger's sum alone is not inductive: a settlement or a merge moves  *)
(* bytes to a later time.  The invariant compares, for every time that the *)
(* window reaches, the charges of the attempts started after it with the   *)
(* bytes of the entries dated after it; an open attempt counts with its    *)
(* whole grant.                                                            *)
(***************************************************************************)
EXTENDS BandwidthLedger, FiniteSetTheorems, FunctionTheorems, TLAPS

-----------------------------------------------------------------------------
(* Sums as cardinalities. *)

\* w[x] cells for each x of S, and the sum of w over S.
Cells(w, S)  == UNION {{x} \X (1..w[x]) : x \in S}
Weight(w, S) == Cardinality(Cells(w, S))

\* The cells of one element are as many as its weight.
LEMMA CellsOfOne ==
    ASSUME NEW w, NEW x, w[x] \in Nat
    PROVE  /\ IsFiniteSet(Cells(w, {x}))
           /\ Weight(w, {x}) = w[x]
<1>1. Cells(w, {x}) = {x} \X (1..w[x])
  BY DEF Cells
<1>2. IsFiniteSet(1..w[x]) /\ Cardinality(1..w[x]) = w[x]
  BY FS_Interval
<1>3. IsFiniteSet({x}) /\ Cardinality({x}) = 1
  BY FS_Singleton
<1>4. /\ IsFiniteSet({x} \X (1..w[x]))
      /\ Cardinality({x} \X (1..w[x])) = Cardinality({x}) * Cardinality(1..w[x])
  BY <1>2, <1>3, FS_Product
<1>5. Cardinality({x} \X (1..w[x])) = w[x]
  BY <1>2, <1>3, <1>4
<1> QED
  BY <1>1, <1>4, <1>5 DEF Weight

\* A finite set has finitely many cells.
LEMMA CellsFinite ==
    ASSUME NEW w, NEW S, IsFiniteSet(S), \A x \in S : w[x] \in Nat
    PROVE  IsFiniteSet(Cells(w, S)) /\ Weight(w, S) \in Nat
<1> DEFINE P == {{x} \X (1..w[x]) : x \in S}
           f == [x \in S |-> {x} \X (1..w[x])]
<1>1. f \in Surjection(S, P)
  <2>1. f \in [S -> P] /\ \A p \in P : \E x \in S : f[x] = p
    OBVIOUS
  <2> QED
    BY <2>1, Fun_IsSurj
<1>2. IsFiniteSet(P)
  BY <1>1, FS_Surjection
<1>3. \A p \in P : IsFiniteSet(p)
  <2> SUFFICES ASSUME NEW x \in S PROVE IsFiniteSet({x} \X (1..w[x]))
    OBVIOUS
  <2>1. IsFiniteSet(Cells(w, {x})) /\ Cells(w, {x}) = {x} \X (1..w[x])
    BY CellsOfOne DEF Cells
  <2> QED
    BY <2>1
<1>4. IsFiniteSet(UNION P)
  BY <1>2, <1>3, FS_UNION
<1> QED
  BY <1>4, FS_CardinalityType DEF Cells, Weight

\* Nothing weighs nothing.
LEMMA WeightEmpty == \A w : Weight(w, {}) = 0
<1>1. \A w : Cells(w, {}) = {}
  BY DEF Cells
<1> QED
  BY <1>1, FS_EmptySet DEF Weight

\* Weights of disjoint sets add up.
LEMMA WeightUnion ==
    ASSUME NEW w, NEW S, NEW T, IsFiniteSet(S), IsFiniteSet(T), S \cap T = {},
           \A x \in S \union T : w[x] \in Nat
    PROVE  Weight(w, S \union T) = Weight(w, S) + Weight(w, T)
<1>1. Cells(w, S \union T) = Cells(w, S) \union Cells(w, T)
  BY DEF Cells
<1>2. Cells(w, S) \cap Cells(w, T) = {}
  BY DEF Cells
<1>3. /\ IsFiniteSet(Cells(w, S)) /\ IsFiniteSet(Cells(w, T))
      /\ Weight(w, S) \in Nat /\ Weight(w, T) \in Nat
  BY CellsFinite
<1>4. /\ Cardinality(Cells(w, S) \union Cells(w, T)) =
           Cardinality(Cells(w, S)) + Cardinality(Cells(w, T))
              - Cardinality(Cells(w, S) \cap Cells(w, T))
  BY <1>3, FS_Union
<1>5. Cardinality(Cells(w, S) \cap Cells(w, T)) = 0
  BY <1>2, FS_EmptySet
<1>6. Weight(w, S \union T) = Weight(w, S) + Weight(w, T) - 0
  BY <1>1, <1>4, <1>5 DEF Weight
<1> QED
  BY <1>3, <1>6

\* Taking one element out takes its weight away.
LEMMA WeightRemove ==
    ASSUME NEW w, NEW S, IsFiniteSet(S), NEW x \in S, \A y \in S : w[y] \in Nat
    PROVE  /\ Weight(w, S) = w[x] + Weight(w, S \ {x})
           /\ Weight(w, S \ {x}) \in Nat
<1>1. S = {x} \union (S \ {x}) /\ {x} \cap (S \ {x}) = {}
  OBVIOUS
<1>2. IsFiniteSet({x}) /\ IsFiniteSet(S \ {x})
  BY FS_Singleton, FS_RemoveElement
<1>3. Weight(w, {x} \union (S \ {x})) = Weight(w, {x}) + Weight(w, S \ {x})
  BY <1>1, <1>2, WeightUnion
<1>4. Weight(w, {x}) = w[x]
  BY CellsOfOne
<1>5. Weight(w, S \ {x}) \in Nat
  BY <1>2, CellsFinite
<1> QED
  BY <1>1, <1>3, <1>4, <1>5

\* A larger set with larger weights weighs at least as much.
LEMMA WeightMonotone ==
    ASSUME NEW w, NEW v, NEW S, NEW T, S \subseteq T, IsFiniteSet(T),
           \A x \in T : v[x] \in Nat,
           \A x \in S : w[x] \in Nat /\ w[x] <= v[x]
    PROVE  Weight(w, S) <= Weight(v, T)
<1>1. Cells(w, S) \subseteq Cells(v, T)
  BY DEF Cells
<1>2. IsFiniteSet(Cells(v, T))
  BY CellsFinite
<1> QED
  BY <1>1, <1>2, FS_Subset DEF Weight

\* The sum depends only on the weights of its elements.
LEMMA WeightSame ==
    ASSUME NEW w, NEW v, NEW S, \A x \in S : w[x] = v[x]
    PROVE  Weight(w, S) = Weight(v, S)
<1>1. Cells(w, S) = Cells(v, S)
  BY DEF Cells
<1> QED
  BY <1>1 DEF Weight

\* A finite set cannot be taken apart for ever: a family of subsets of a finite
\* set that is not empty has a member none of whose strict subsets belongs to it.
LEMMA SmallestSubset ==
    ASSUME NEW S, IsFiniteSet(S), NEW F, F \subseteq SUBSET S, F # {}
    PROVE  \E T \in F : \A U \in F : U \subseteq T => U = T
<1>1. FiniteSubsetsOf(S) = SUBSET S
  BY FS_FiniteSubsetsOfFinite
<1>2. IsWellFoundedOn(StrictSubsetOrdering(S), SUBSET S)
  BY <1>1, FS_StrictSubsetOrderingWellFounded
<1>3. PICK T \in F : \A U \in F : ~(<<U, T>> \in StrictSubsetOrdering(S))
  BY <1>2, WFMin
<1>4. ASSUME NEW U \in F, U \subseteq T, U # T PROVE FALSE
  <2>1. U \in SUBSET S /\ T \in SUBSET S
    OBVIOUS
  <2>2. <<U, T>> \in StrictSubsetOrdering(S)
    BY <2>1, <1>4 DEF StrictSubsetOrdering
  <2> QED
    BY <2>2, <1>3
<1> QED
  BY <1>4

\* Whatever order the elements are taken in, the sum is the weight.
LEMMA FoldIsWeight ==
    ASSUME NEW w, NEW S, IsFiniteSet(S), \A x \in S : w[x] \in Nat,
           NEW it, it[{}] = 0,
           \A s \in SUBSET S :
              s # {} => \E x \in s : it[s] = w[x] + it[s \ {x}]
    PROVE  it[S] = Weight(w, S)
<1> DEFINE F == {s \in SUBSET S : it[s] # Weight(w, s)}
<1> SUFFICES ASSUME F # {} PROVE FALSE
  OBVIOUS
<1>1. PICK s \in F : \A u \in F : u \subseteq s => u = s
  <2>1. F \subseteq SUBSET S
    OBVIOUS
  <2> HIDE DEF F
  <2> QED
    BY <2>1, SmallestSubset
<1>2. s # {}
  BY WeightEmpty
<1>3. PICK x \in s : it[s] = w[x] + it[s \ {x}]
  BY <1>2
<1>4. it[s \ {x}] = Weight(w, s \ {x})
  BY <1>1
<1>5. IsFiniteSet(s)
  BY FS_Subset
<1>6. Weight(w, s) = w[x] + Weight(w, s \ {x})
  BY <1>5, WeightRemove
<1> QED
  BY <1>3, <1>4, <1>6

\* The bytes of a set of entries.
EntryBytes == [e \in Entry |-> e.bytes]

\* The fold of the model takes some element out each time; the weights satisfy
\* its recursion, which has one solution.
LEMMA BytesWeight ==
    ASSUME NEW E, E \subseteq Entry, IsFiniteSet(E)
    PROVE  Bytes(E) = Weight(EntryBytes, E)
<1> DEFINE pick(s) == CHOOSE x \in s : TRUE
           body(s, it) == IF s = {} THEN 0 ELSE pick(s).bytes + it[s \ {pick(s)}]
           sum == CHOOSE it : it = [s \in SUBSET E |-> body(s, it)]
           known == [s \in SUBSET E |-> Weight(EntryBytes, s)]
<1>1. Bytes(E) = sum[E]
  BY Zenon DEF Bytes, MapThenSumSet, MapThenFoldSet
<1>2. \A x \in E : EntryBytes[x] = x.bytes /\ EntryBytes[x] \in Nat
  BY DEF EntryBytes, Entry
<1>3. ASSUME NEW s \in SUBSET E PROVE Weight(EntryBytes, s) = body(s, known)
  <2>1. CASE s = {}
    BY <2>1, WeightEmpty
  <2>2. CASE s # {}
    <3>1. pick(s) \in s /\ s \ {pick(s)} \in SUBSET E
      BY <2>2
    <3>2. IsFiniteSet(s)
      BY FS_Subset
    <3> HIDE DEF pick
    <3>3. Weight(EntryBytes, s) = EntryBytes[pick(s)] + Weight(EntryBytes, s \ {pick(s)})
      BY <3>1, <3>2, <1>2, WeightRemove
    <3> QED
      BY <3>1, <3>3, <1>2, <2>2
  <2> QED
    BY <2>1, <2>2
<1>4. known = [s \in SUBSET E |-> body(s, known)]
  <2> HIDE DEF body
  <2> QED
    BY <1>3
<1>5. sum = [s \in SUBSET E |-> body(s, sum)]
  <2> HIDE DEF body, known
  <2> QED
    BY <1>4
<1> HIDE DEF sum
<1>6. sum[{}] = 0
  BY <1>5
<1>7. ASSUME NEW s \in SUBSET E, s # {}
      PROVE  \E x \in s : sum[s] = EntryBytes[x] + sum[s \ {x}]
  <2>1. pick(s) \in s
    BY <1>7
  <2> HIDE DEF pick
  <2>2. sum[s] = pick(s).bytes + sum[s \ {pick(s)}]
    BY <1>5, <1>7
  <2> QED
    BY <2>1, <2>2, <1>2
<1>8. sum[E] = Weight(EntryBytes, E)
  BY <1>2, <1>6, <1>7, FoldIsWeight
<1> QED
  BY <1>1, <1>8

\* What each attempt has moved.
MovedBytes == [a \in DOMAIN attempts |-> attempts[a].moved]

\* The same for what the attempts have moved.
LEMMA MovedWeight ==
    ASSUME NEW A, A \subseteq DOMAIN attempts, IsFiniteSet(A),
           attempts \in Seq(Attempt)
    PROVE  Moved(A) = Weight(MovedBytes, A)
<1> DEFINE pick(s) == CHOOSE x \in s : TRUE
           body(s, it) == IF s = {} THEN 0
                          ELSE attempts[pick(s)].moved + it[s \ {pick(s)}]
           sum == CHOOSE it : it = [s \in SUBSET A |-> body(s, it)]
           known == [s \in SUBSET A |-> Weight(MovedBytes, s)]
<1>1. Moved(A) = sum[A]
  BY Zenon DEF Moved, MapThenSumSet, MapThenFoldSet
<1>2. \A x \in A : MovedBytes[x] = attempts[x].moved /\ MovedBytes[x] \in Nat
  <2> SUFFICES ASSUME NEW x \in A
               PROVE  MovedBytes[x] = attempts[x].moved /\ MovedBytes[x] \in Nat
    OBVIOUS
  <2>1. attempts[x] \in Attempt
    OBVIOUS
  <2>2. attempts[x].moved \in Nat
    BY <2>1 DEF Attempt
  <2> QED
    BY <2>2 DEF MovedBytes
<1>3. ASSUME NEW s \in SUBSET A PROVE Weight(MovedBytes, s) = body(s, known)
  <2>1. CASE s = {}
    BY <2>1, WeightEmpty
  <2>2. CASE s # {}
    <3>1. pick(s) \in s /\ s \ {pick(s)} \in SUBSET A
      BY <2>2
    <3>2. IsFiniteSet(s)
      BY FS_Subset
    <3> HIDE DEF pick
    <3>3. Weight(MovedBytes, s) = MovedBytes[pick(s)] + Weight(MovedBytes, s \ {pick(s)})
      BY <3>1, <3>2, <1>2, WeightRemove
    <3> QED
      BY <3>1, <3>3, <1>2, <2>2
  <2> QED
    BY <2>1, <2>2
<1>4. known = [s \in SUBSET A |-> body(s, known)]
  <2> HIDE DEF body
  <2> QED
    BY <1>3
<1>5. sum = [s \in SUBSET A |-> body(s, sum)]
  <2> HIDE DEF body, known
  <2> QED
    BY <1>4
<1> HIDE DEF sum
<1>6. sum[{}] = 0
  BY <1>5
<1>7. ASSUME NEW s \in SUBSET A, s # {}
      PROVE  \E x \in s : sum[s] = MovedBytes[x] + sum[s \ {x}]
  <2>1. pick(s) \in s
    BY <1>7
  <2> HIDE DEF pick
  <2>2. sum[s] = attempts[pick(s)].moved + sum[s \ {pick(s)}]
    BY <1>5, <1>7
  <2> QED
    BY <2>1, <2>2, <1>2
<1>8. sum[A] = Weight(MovedBytes, A)
  BY <1>2, <1>6, <1>7, FoldIsWeight
<1> QED
  BY <1>1, <1>8

\* If every element of A is sent to one of B that weighs as much as all that are
\* sent to it, then B weighs as much as A.
LEMMA WeightByParts ==
    ASSUME NEW A, NEW B, IsFiniteSet(A), IsFiniteSet(B), NEW h \in [A -> B],
           NEW w, NEW v, \A x \in A : w[x] \in Nat, \A b \in B : v[b] \in Nat,
           \A b \in B : Weight(w, {x \in A : h[x] = b}) <= v[b]
    PROVE  Weight(w, A) <= Weight(v, B)
<1> DEFINE into(T) == {x \in A : h[x] \in T}
           part(b) == {x \in A : h[x] = b}
           F == {T \in SUBSET B : ~(Weight(w, into(T)) <= Weight(v, T))}
<1>1. F \subseteq SUBSET B
  OBVIOUS
<1>2. ASSUME F # {} PROVE FALSE
  <2>1. PICK T \in F : \A U \in F : U \subseteq T => U = T
    <3> HIDE DEF F
    <3> QED
      BY <1>1, <1>2, SmallestSubset
  <2>2. IsFiniteSet(T) /\ T \in SUBSET B
    BY FS_Subset
  <2>3. T # {}
    <3>1. into({}) = {}
      OBVIOUS
    <3>2. Weight(w, into({})) <= Weight(v, {})
      BY <3>1, WeightEmpty
    <3> QED
      BY <3>2
  <2>4. PICK b \in T : TRUE
    BY <2>3
  <2>5. Weight(w, into(T \ {b})) <= Weight(v, T \ {b})
    BY <2>1
  <2>6. /\ Weight(v, T) = v[b] + Weight(v, T \ {b})
        /\ Weight(v, T \ {b}) \in Nat
    BY <2>2, WeightRemove
  <2>7. Weight(w, into(T)) = Weight(w, part(b)) + Weight(w, into(T \ {b}))
    <3>1. into(T) = part(b) \union into(T \ {b})
      OBVIOUS
    <3>2. part(b) \cap into(T \ {b}) = {}
      OBVIOUS
    <3>3. IsFiniteSet(part(b)) /\ IsFiniteSet(into(T \ {b}))
      BY FS_Subset
    <3>4. \A x \in part(b) \union into(T \ {b}) : w[x] \in Nat
      OBVIOUS
    <3> HIDE DEF into, part, F
    <3>5. Weight(w, part(b) \union into(T \ {b})) = Weight(w, part(b)) + Weight(w, into(T \ {b}))
      BY <3>2, <3>3, <3>4, WeightUnion
    <3> QED
      BY <3>1, <3>5
  <2>8. /\ Weight(w, part(b)) \in Nat
        /\ Weight(w, into(T \ {b})) \in Nat /\ v[b] \in Nat
    <3>1. IsFiniteSet(part(b)) /\ IsFiniteSet(into(T \ {b}))
      BY FS_Subset
    <3> QED
      BY <3>1, CellsFinite
  <2>9. Weight(w, part(b)) <= v[b]
    OBVIOUS
  <2>10. Weight(w, into(T)) <= Weight(v, T)
    BY <2>5, <2>6, <2>7, <2>8, <2>9
  <2> QED
    BY <2>10
<1>3. Weight(w, into(B)) <= Weight(v, B)
  BY <1>2
<1>4. into(B) = A
  OBVIOUS
<1> QED
  BY <1>3, <1>4

-----------------------------------------------------------------------------
(* Earliest and latest. *)

\* A set of numbers that is not empty has a least element.
LEMMA LeastExists ==
    ASSUME NEW T, T \subseteq Nat, T # {}
    PROVE  \E x \in T : \A y \in T : x <= y
<1>1. IsWellFoundedOn(OpToRel(<, Nat), Nat)
  BY NatLessThanWellFounded
<1>2. PICK x \in T : \A y \in T : ~(<<y, x>> \in OpToRel(<, Nat))
  BY <1>1, WFMin
<1>3. ASSUME NEW y \in T PROVE x <= y
  <2>1. ~(y < x)
    BY <1>2 DEF OpToRel
  <2> QED
    BY <2>1
<1> QED
  BY <1>3

\* One that is bounded has a greatest.
LEMMA GreatestExists ==
    ASSUME NEW T, T \subseteq Nat, T # {}, NEW m \in Nat, \A x \in T : x <= m
    PROVE  \E x \in T : \A y \in T : y <= x
<1> DEFINE U == {u \in Nat : m - u \in T}
<1>1. U \subseteq Nat /\ U # {}
  <2>1. PICK x \in T : TRUE
    OBVIOUS
  <2>2. m - x \in Nat /\ m - (m - x) = x
    BY <2>1
  <2> QED
    BY <2>2
<1>2. PICK u \in U : \A y \in U : u <= y
  <2> HIDE DEF U
  <2> QED
    BY <1>1, LeastExists
<1>3. ASSUME NEW y \in T PROVE y <= m - u
  <2>1. y \in Nat /\ m - y \in Nat /\ m - (m - y) = y
    OBVIOUS
  <2>2. m - y \in U
    BY <2>1
  <2>3. u <= m - y /\ u \in Nat
    BY <2>2, <1>2
  <2> QED
    BY <2>1, <2>3
<1> QED
  BY <1>2, <1>3

\* Min and Max are elements of their sets.
LEMMA MinMember ==
    ASSUME NEW T, T \subseteq Nat, T # {}
    PROVE  Min(T) \in T /\ \A y \in T : Min(T) <= y
BY LeastExists DEF Min

\* (With a bound, as for the dates of entries.)
LEMMA MaxMember ==
    ASSUME NEW T, T \subseteq Nat, T # {}, NEW m \in Nat, \A x \in T : x <= m
    PROVE  Max(T) \in T /\ \A y \in T : y <= Max(T)
<1>1. PICK x \in T : \A y \in T : y <= x
  BY GreatestExists
<1>2. \A y \in T : x >= y
  BY <1>1
<1>3. Max(T) \in T /\ \A y \in T : Max(T) >= y
  BY <1>2, Zenon DEF Max
<1> QED
  BY <1>3

\* The first of some entries is one of them.
LEMMA FirstMember ==
    ASSUME NEW E, E \subseteq Entry, E # {}, BudgetAssumption
    PROVE  First(E) \in E
<1> DEFINE T == {e.at : e \in E}
<1>1. T \subseteq Nat /\ T # {}
  BY DEF Entry, Times
<1>2. PICK t \in T : \A y \in T : t <= y
  <2> HIDE DEF T
  <2> QED
    BY <1>1, LeastExists
<1> DEFINE I == {e.id : e \in {f \in E : f.at = t}}
<1>3. I \subseteq Nat /\ I # {}
  BY DEF Entry
<1>4. PICK i \in I : \A y \in I : i <= y
  <2> HIDE DEF I
  <2> QED
    BY <1>3, LeastExists
<1>5. PICK e \in E : e.at = t /\ e.id = i
  OBVIOUS
<1>6. ASSUME NEW f \in E PROVE e.at < f.at \/ (e.at = f.at /\ e.id <= f.id)
  <2>1. e.at \in Nat /\ f.at \in Nat /\ e.at <= f.at
    BY <1>1, <1>2, <1>5
  <2>2. CASE f.at = t
    BY <2>2, <1>4, <1>5
  <2>3. CASE f.at # t
    BY <2>1, <2>3, <1>5
  <2> QED
    BY <2>2, <2>3
<1> QED
  BY <1>5, <1>6 DEF First

-----------------------------------------------------------------------------
(* Merging the charges of one minute. *)

\* Entries that the ledger's validation accepts.
ValidEntries(E) ==
    /\ E \subseteq Entry
    /\ \A e, f \in E : e.id = f.id => e = f

\* The entry that carries e after a merge.
LatestOf(e, E) == Max({f.at : f \in MinuteOf(e, E)})

MergeOf(e, E) ==
    [First(MinuteOf(e, E)) EXCEPT
        !.bytes = Bytes(MinuteOf(e, E)), !.at = LatestOf(e, E)]

CarrierOf(e, E) == IF e.kind = "reserved" THEN e ELSE MergeOf(e, E)

\* The entries of a source that are dated after t.
After(E, s, t) == {e \in E : e.src = s /\ e.at > t}

\* The fields of an entry.
LEMMA EntryFields ==
    ASSUME NEW e \in Entry
    PROVE  /\ e.id \in 1..MaxAttempts /\ e.src \in Sources /\ e.at \in Times
           /\ e.bytes \in Nat \ {0} /\ e.kind \in {"reserved", "committed"}
           /\ e.id \in Nat /\ e.at \in Nat /\ e.at <= MaxTime /\ e.bytes \in Nat
<1>1. /\ e.id \in 1..MaxAttempts /\ e.src \in Sources /\ e.at \in Times
      /\ e.bytes \in Nat \ {0} /\ e.kind \in {"reserved", "committed"}
  BY DEF Entry
<1>2. MaxTime \in Nat /\ MaxAttempts \in Nat
  BY BudgetAssumption DEF BudgetAssumption
<1> QED
  BY <1>1, <1>2 DEF Times

\* The weight of an entry.
LEMMA EntryWeights == \A e \in Entry : EntryBytes[e] = e.bytes /\ EntryBytes[e] \in Nat
BY EntryFields DEF EntryBytes

\* Identifiers are bounded, so a valid ledger is finite.
LEMMA ValidFinite ==
    ASSUME NEW E, ValidEntries(E)
    PROVE  IsFiniteSet(E)
<1> DEFINE f == [e \in E |-> e.id]
<1>1. f \in [E -> 1..MaxAttempts]
  BY EntryFields DEF ValidEntries
<1>2. \A e, g \in E : f[e] = f[g] => e = g
  BY DEF ValidEntries
<1>3. f \in Injection(E, 1..MaxAttempts)
  BY <1>1, <1>2, Fun_IsInj
<1>4. IsFiniteSet(1..MaxAttempts)
  BY BudgetAssumption, FS_Interval DEF BudgetAssumption
<1> QED
  BY <1>3, <1>4, FS_Injection

\* Part of a valid ledger is valid.
LEMMA ValidPart ==
    ASSUME NEW E, ValidEntries(E), NEW F, F \subseteq E
    PROVE  ValidEntries(F) /\ IsFiniteSet(F)
<1>1. ValidEntries(F)
  BY DEF ValidEntries
<1> QED
  BY <1>1, ValidFinite

\* The committed charges of one minute: they include the one they are named
\* after, have a first and a latest one, and a positive sum.
LEMMA MinuteFacts ==
    ASSUME NEW E, ValidEntries(E), NEW e \in E, e.kind = "committed"
    PROVE  /\ MinuteOf(e, E) \subseteq E /\ MinuteOf(e, E) \subseteq Entry
           /\ IsFiniteSet(MinuteOf(e, E))
           /\ e \in MinuteOf(e, E)
           /\ First(MinuteOf(e, E)) \in MinuteOf(e, E)
           /\ \A f \in MinuteOf(e, E) : f.kind = "committed" /\ f.src = e.src
           /\ Bytes(MinuteOf(e, E)) = Weight(EntryBytes, MinuteOf(e, E))
           /\ Bytes(MinuteOf(e, E)) \in Nat \ {0}
           /\ \E f \in MinuteOf(e, E) : LatestOf(e, E) = f.at
           /\ \A f \in MinuteOf(e, E) : f.at <= LatestOf(e, E)
<1> DEFINE B == MinuteOf(e, E)
           T == {g.at : g \in B}
<1>1. /\ B \subseteq E /\ B \subseteq Entry /\ e \in B
      /\ \A f \in B : f.kind = "committed" /\ f.src = e.src
  BY DEF MinuteOf, ValidEntries
<1>2. IsFiniteSet(B)
  BY <1>1, ValidPart
<1> HIDE DEF B
<1>3. First(B) \in B
  BY <1>1, FirstMember, BudgetAssumption
<1>4. Bytes(B) = Weight(EntryBytes, B)
  BY <1>1, <1>2, BytesWeight
<1>5. Weight(EntryBytes, B) \in Nat \ {0}
  <2>1. \A x \in B : EntryBytes[x] \in Nat
    BY <1>1, EntryWeights
  <2>2. /\ Weight(EntryBytes, B) = EntryBytes[e] + Weight(EntryBytes, B \ {e})
        /\ Weight(EntryBytes, B \ {e}) \in Nat
    BY <1>1, <1>2, <2>1, WeightRemove
  <2>3. EntryBytes[e] \in Nat \ {0}
    BY <1>1, EntryWeights, EntryFields
  <2> QED
    BY <2>2, <2>3
<1>6. Max(T) \in T /\ \A y \in T : y <= Max(T)
  <2>1. T \subseteq Nat /\ T # {} /\ \A x \in T : x <= MaxTime
    BY <1>1, EntryFields
  <2>2. MaxTime \in Nat
    BY BudgetAssumption DEF BudgetAssumption
  <2> HIDE DEF T
  <2> QED
    BY <2>1, <2>2, MaxMember
<1> QED
  BY <1>1, <1>2, <1>3, <1>4, <1>5, <1>6 DEF B, LatestOf

\* What the entry that carries a charge looks like.
LEMMA MergeOfFacts ==
    ASSUME NEW E, ValidEntries(E), NEW e \in E, e.kind = "committed"
    PROVE  LET m == MergeOf(e, E) IN
           /\ m \in Entry
           /\ m.id = First(MinuteOf(e, E)).id
           /\ m.src = e.src /\ m.kind = "committed"
           /\ m.bytes = Weight(EntryBytes, MinuteOf(e, E))
           /\ \E f \in MinuteOf(e, E) : m.at = f.at
           /\ \A f \in MinuteOf(e, E) : f.at <= m.at
<1> DEFINE p == First(MinuteOf(e, E))
           b == Bytes(MinuteOf(e, E))
           t == LatestOf(e, E)
           m == MergeOf(e, E)
<1>1. p \in Entry /\ p.src = e.src /\ p.kind = "committed" /\ p.id = p.id
  BY MinuteFacts
<1>2. b \in Nat \ {0} /\ b = Weight(EntryBytes, MinuteOf(e, E))
  BY MinuteFacts
<1>3. (\E f \in MinuteOf(e, E) : t = f.at) /\ \A f \in MinuteOf(e, E) : f.at <= t
  BY MinuteFacts
<1>4. t \in Times
  BY <1>3, MinuteFacts, EntryFields
<1>5. m = [p EXCEPT !.bytes = b, !.at = t]
  BY DEF MergeOf
<1> HIDE DEF p, b, t, m
<1>6. /\ m \in Entry /\ m.id = p.id /\ m.src = p.src /\ m.kind = p.kind
      /\ m.bytes = b /\ m.at = t
  BY <1>1, <1>2, <1>4, <1>5 DEF Entry
<1> QED
  BY <1>1, <1>2, <1>3, <1>6 DEF m, p

\* Charges carried by entries of the same identifier are of the same minute.
LEMMA SameMinute ==
    ASSUME NEW E, ValidEntries(E),
           NEW e \in E, e.kind = "committed", NEW f \in E, f.kind = "committed",
           First(MinuteOf(e, E)).id = First(MinuteOf(f, E)).id
    PROVE  MinuteOf(e, E) = MinuteOf(f, E) /\ MergeOf(e, E) = MergeOf(f, E)
<1>1. First(MinuteOf(e, E)) \in E /\ First(MinuteOf(f, E)) \in E
  BY MinuteFacts
<1>2. First(MinuteOf(e, E)) = First(MinuteOf(f, E))
  BY <1>1 DEF ValidEntries
<1>3. First(MinuteOf(e, E)) \in MinuteOf(e, E) /\ First(MinuteOf(e, E)) \in MinuteOf(f, E)
  BY <1>2, MinuteFacts
<1>4. e.src = f.src /\ e.at \div Minute = f.at \div Minute
  BY <1>3 DEF MinuteOf
<1>5. MinuteOf(e, E) = MinuteOf(f, E)
  BY <1>4 DEF MinuteOf
<1> QED
  BY <1>5 DEF MergeOf, LatestOf

\* A merge replaces every entry by its carrier.
LEMMA MergedImage ==
    ASSUME NEW E, ValidEntries(E)
    PROVE  Merged(E) = {CarrierOf(e, E) : e \in E}
<1>1. \A e \in E : e.kind = "reserved" \/ e.kind = "committed"
  BY EntryFields DEF ValidEntries
<1>2. Merged(E) = {e \in E : e.kind = "reserved"} \union
                  {MergeOf(e, E) : e \in {f \in E : f.kind = "committed"}}
  BY DEF Merged, MergeOf, LatestOf
<1> QED
  BY <1>1, <1>2 DEF CarrierOf

\* What the carrier of an entry keeps of it.
LEMMA CarrierFacts ==
    ASSUME NEW E, ValidEntries(E), NEW e \in E
    PROVE  LET c == CarrierOf(e, E) IN
           /\ c \in Entry /\ c.src = e.src /\ c.kind = e.kind
           /\ e.at <= c.at
           /\ \E f \in E : c.at = f.at
           /\ \E f \in E : c.id = f.id
           /\ c.kind = "reserved" => c = e
<1>1. CASE e.kind = "reserved"
  <2>1. CarrierOf(e, E) = e
    BY <1>1 DEF CarrierOf
  <2>2. e \in Entry /\ e.at \in Nat
    BY EntryFields DEF ValidEntries
  <2> QED
    BY <2>1, <2>2
<1>2. CASE e.kind = "committed"
  <2>1. CarrierOf(e, E) = MergeOf(e, E)
    BY <1>2 DEF CarrierOf
  <2>2. e \in MinuteOf(e, E) /\ MinuteOf(e, E) \subseteq E /\ First(MinuteOf(e, E)) \in E
    BY <1>2, MinuteFacts
  <2> QED
    BY <1>2, <2>1, <2>2, MergeOfFacts
<1> QED
  BY <1>1, <1>2, EntryFields DEF ValidEntries

\* A merge keeps a valid ledger valid and adds no entry to it.
LEMMA MergedValid ==
    ASSUME NEW E, ValidEntries(E)
    PROVE  /\ ValidEntries(Merged(E))
           /\ Cardinality(Merged(E)) <= Cardinality(E)
           /\ \A s \in Sources :
                 Cardinality(Of(Merged(E), s)) <= Cardinality(Of(E, s))
<1> DEFINE h == [e \in E |-> CarrierOf(e, E)]
<1>1. Merged(E) = {CarrierOf(e, E) : e \in E}
  BY MergedImage
<1>2. IsFiniteSet(E)
  BY ValidFinite
<1>3. ValidEntries(Merged(E))
  <2>1. Merged(E) \subseteq Entry
    BY <1>1, CarrierFacts
  <2>2. ASSUME NEW e \in E, NEW f \in E, CarrierOf(e, E).id = CarrierOf(f, E).id
        PROVE  CarrierOf(e, E) = CarrierOf(f, E)
    <3>1. CASE e.kind = "reserved" /\ f.kind = "reserved"
      BY <2>2, <3>1 DEF CarrierOf, ValidEntries
    <3>2. CASE e.kind = "committed" /\ f.kind = "committed"
      <4>1. CarrierOf(e, E) = MergeOf(e, E) /\ CarrierOf(f, E) = MergeOf(f, E)
        BY <3>2 DEF CarrierOf
      <4>2. First(MinuteOf(e, E)).id = First(MinuteOf(f, E)).id
        BY <2>2, <3>2, <4>1, MergeOfFacts
      <4> QED
        BY <3>2, <4>1, <4>2, SameMinute
    <3>3. ASSUME NEW x \in E, NEW y \in E, x.kind = "reserved", y.kind = "committed",
                 CarrierOf(x, E).id = CarrierOf(y, E).id
          PROVE  FALSE
      <4>1. CarrierOf(x, E) = x /\ CarrierOf(y, E) = MergeOf(y, E)
        BY <3>3 DEF CarrierOf
      <4>2. x.id = First(MinuteOf(y, E)).id
        BY <3>3, <4>1, MergeOfFacts
      <4>3. First(MinuteOf(y, E)) \in E /\ First(MinuteOf(y, E)).kind = "committed"
        BY <3>3, MinuteFacts
      <4> QED
        BY <3>3, <4>2, <4>3 DEF ValidEntries
    <3>4. /\ e.kind = "reserved" \/ e.kind = "committed"
          /\ f.kind = "reserved" \/ f.kind = "committed"
      BY EntryFields DEF ValidEntries
    <3> QED
      BY <2>2, <3>1, <3>2, <3>3, <3>4
  <2> QED
    BY <1>1, <2>1, <2>2 DEF ValidEntries
<1>4. Cardinality(Merged(E)) <= Cardinality(E)
  <2>1. h \in [E -> Merged(E)] /\ \A m \in Merged(E) : \E e \in E : h[e] = m
    BY <1>1
  <2>2. h \in Surjection(E, Merged(E))
    BY <2>1, Fun_IsSurj
  <2> QED
    BY <1>2, <2>2, FS_Surjection
<1>5. ASSUME NEW s \in Sources
      PROVE  Cardinality(Of(Merged(E), s)) <= Cardinality(Of(E, s))
  <2> DEFINE k == [e \in Of(E, s) |-> CarrierOf(e, E)]
  <2>1. \A e \in E : CarrierOf(e, E).src = e.src
    BY CarrierFacts
  <2>2. /\ k \in [Of(E, s) -> Of(Merged(E), s)]
        /\ \A m \in Of(Merged(E), s) : \E e \in Of(E, s) : k[e] = m
    BY <1>1, <2>1 DEF Of
  <2>3. k \in Surjection(Of(E, s), Of(Merged(E), s))
    BY <2>2, Fun_IsSurj
  <2>4. IsFiniteSet(Of(E, s))
    BY ValidPart DEF Of
  <2> QED
    BY <2>3, <2>4, FS_Surjection
<1> QED
  BY <1>3, <1>4, <1>5

\* A merge may move bytes to a later time of their source, and loses none.
LEMMA MergedKeeps ==
    ASSUME NEW E, ValidEntries(E), NEW s, NEW t \in Int
    PROVE  Weight(EntryBytes, After(E, s, t)) <= Weight(EntryBytes, After(Merged(E), s, t))
<1> DEFINE A == After(E, s, t)
           B == After(Merged(E), s, t)
           h == [e \in A |-> CarrierOf(e, E)]
<1>1. Merged(E) = {CarrierOf(e, E) : e \in E} /\ ValidEntries(Merged(E))
  BY MergedImage, MergedValid
<1>2. A \subseteq E /\ A \subseteq Entry /\ B \subseteq Merged(E) /\ B \subseteq Entry
  BY <1>1 DEF After, ValidEntries
<1>3. IsFiniteSet(A) /\ IsFiniteSet(B)
  BY <1>1, <1>2, ValidPart
<1>4. h \in [A -> B]
  <2> SUFFICES ASSUME NEW e \in A PROVE CarrierOf(e, E) \in B
    OBVIOUS
  <2>1. e \in E /\ e.src = s /\ e.at > t /\ e.at \in Nat
    BY <1>2, EntryFields DEF After
  <2>2. /\ CarrierOf(e, E) \in Entry /\ CarrierOf(e, E).src = s
        /\ e.at <= CarrierOf(e, E).at
    BY <2>1, CarrierFacts
  <2>3. CarrierOf(e, E).at \in Nat
    BY <2>2, EntryFields
  <2> QED
    BY <1>1, <2>1, <2>2, <2>3 DEF After
<1>5. (\A x \in A : EntryBytes[x] \in Nat) /\ (\A x \in B : EntryBytes[x] \in Nat)
  BY <1>2, EntryWeights
<1>6. ASSUME NEW b \in B
      PROVE  Weight(EntryBytes, {x \in A : h[x] = b}) <= EntryBytes[b]
  <2> DEFINE P == {x \in A : h[x] = b}
  <2> SUFFICES Weight(EntryBytes, P) <= EntryBytes[b]
    OBVIOUS
  <2>1. EntryBytes[b] = b.bytes /\ EntryBytes[b] \in Nat
    BY <1>2, EntryWeights
  <2>2. CASE P = {}
    <3> HIDE DEF P
    <3>1. Weight(EntryBytes, P) = 0
      BY <2>2, WeightEmpty
    <3> QED
      BY <2>1, <3>1
  <2>3. ASSUME NEW e \in P, e.kind = "reserved" PROVE Weight(EntryBytes, P) <= EntryBytes[b]
    <3>1. \A x \in P : x \in E /\ CarrierOf(x, E) = b
      BY <1>2
    <3>2. b = e /\ b.kind = "reserved"
      BY <3>1, <2>3 DEF CarrierOf
    <3>3. ASSUME NEW x \in P PROVE x = e
      <4>1. x \in E /\ CarrierOf(x, E) = b
        BY <3>1
      <4> HIDE DEF P
      <4> QED
        BY <4>1, <3>2, CarrierFacts
    <3>4. P = {e}
      BY <3>3
    <3> HIDE DEF P
    <3>5. Weight(EntryBytes, P) = EntryBytes[e]
      BY <3>2, <3>4, <2>1, CellsOfOne
    <3> QED
      BY <3>2, <3>5, <2>1
  <2>4. ASSUME NEW e \in P, e.kind = "committed" PROVE Weight(EntryBytes, P) <= EntryBytes[b]
    <3>1. \A x \in P : x \in E /\ CarrierOf(x, E) = b
      BY <1>2
    <3>2. e \in E /\ b = MergeOf(e, E) /\ b.kind = "committed"
      <4>1. e \in E /\ CarrierOf(e, E) = b
        BY <3>1
      <4>2. b = MergeOf(e, E)
        BY <4>1, <2>4 DEF CarrierOf
      <4> HIDE DEF P
      <4>3. b.kind = "committed"
        BY <4>1, <2>4, CarrierFacts
      <4> QED
        BY <4>1, <4>2, <4>3
    <3>3. b.bytes = Weight(EntryBytes, MinuteOf(e, E)) /\ b.id = First(MinuteOf(e, E)).id
      BY <3>2, <2>4, MergeOfFacts
    <3>4. ASSUME NEW x \in P PROVE x \in MinuteOf(e, E)
      <4>1. x \in E /\ x.kind = "committed" /\ MergeOf(x, E) = b
        <5>1. x \in E /\ CarrierOf(x, E) = b
          BY <3>1
        <5> HIDE DEF P
        <5>2. CarrierOf(x, E).kind = x.kind
          BY <5>1, CarrierFacts
        <5>3. x.kind = "committed"
          BY <5>1, <5>2, <3>2
        <5> QED
          BY <5>1, <5>3 DEF CarrierOf
      <4>2. First(MinuteOf(x, E)).id = First(MinuteOf(e, E)).id
        BY <4>1, <3>3, MergeOfFacts
      <4>3. MinuteOf(x, E) = MinuteOf(e, E)
        BY <4>1, <4>2, <3>2, <2>4, SameMinute
      <4> QED
        BY <4>1, <4>3, MinuteFacts
    <3>5. P \subseteq MinuteOf(e, E)
      BY <3>4
    <3>6. IsFiniteSet(MinuteOf(e, E)) /\ MinuteOf(e, E) \subseteq Entry
      BY <3>2, <2>4, MinuteFacts
    <3>7. \A x \in MinuteOf(e, E) : EntryBytes[x] \in Nat /\ EntryBytes[x] <= EntryBytes[x]
      BY <3>6, EntryWeights
    <3> HIDE DEF P
    <3>8. Weight(EntryBytes, P) <= Weight(EntryBytes, MinuteOf(e, E))
      BY <3>5, <3>6, <3>7, WeightMonotone
    <3> QED
      BY <3>3, <3>8, <2>1
  <2>5. \A e \in P : e.kind = "reserved" \/ e.kind = "committed"
    BY <1>2, EntryFields
  <2> QED
    BY <2>2, <2>3, <2>4, <2>5
<1> HIDE DEF A, B, h
<1>7. Weight(EntryBytes, A) <= Weight(EntryBytes, B)
  BY <1>3, <1>4, <1>5, <1>6, WeightByParts
<1> QED
  BY <1>7 DEF A, B

-----------------------------------------------------------------------------
(* Sums over a ledger. *)

\* The sum of a source is the weight of its entries, pruned or not.
LEMMA RollingWeight ==
    ASSUME NEW E, ValidEntries(E), NEW s
    PROVE  /\ Bytes(Of(E, s)) = Weight(EntryBytes, Of(E, s))
           /\ Bytes(Of(E, s)) \in Nat
           /\ \A t : /\ Bytes({e \in Of(E, s) : e.at > t}) = Weight(EntryBytes, After(E, s, t))
                     /\ Bytes({e \in Of(E, s) : e.at > t}) \in Nat
<1>1. ASSUME NEW F, F \subseteq E
      PROVE  Bytes(F) = Weight(EntryBytes, F) /\ Bytes(F) \in Nat
  <2>1. IsFiniteSet(F) /\ F \subseteq Entry
    BY <1>1, ValidPart DEF ValidEntries
  <2>2. \A x \in F : EntryBytes[x] \in Nat
    BY <2>1, EntryWeights
  <2> QED
    BY <2>1, <2>2, BytesWeight, CellsFinite
<1>2. Of(E, s) \subseteq E
  BY DEF Of
<1>3. ASSUME NEW t
      PROVE  /\ {e \in Of(E, s) : e.at > t} = After(E, s, t)
             /\ After(E, s, t) \subseteq E
  BY DEF Of, After
<1> QED
  BY <1>1, <1>2, <1>3

\* resume_below names the first time at which enough has expired.
LEMMA ResumeFirst ==
    ASSUME NEW L, ValidEntries(L.entries), NEW s, NEW limit \in Nat \ {0},
           Rolling(L, s) >= limit
    PROVE  \E r \in ResumeBelow(L, s, limit) :
              /\ r \in Nat
              /\ Rolling(Pruned(L, r), s) < limit
              /\ \A t \in Int : t < r => Rolling(Pruned(L, t), s) >= limit
<1> DEFINE E == Of(L.entries, s)
           left(t) == Bytes({e \in E : e.at > t})
           at == {e.at : e \in {f \in E : left(f.at) < limit}}
<1>1. E \subseteq Entry /\ \A e \in E : e.at \in Nat /\ e.at <= MaxTime
  BY EntryFields DEF Of, ValidEntries
<1>2. MaxTime \in Nat /\ Window \in Nat
  BY BudgetAssumption DEF BudgetAssumption
<1>3. Bytes(E) >= limit /\ Bytes(E) \in Nat /\ \A t : left(t) \in Nat
  BY RollingWeight DEF Rolling
<1>4. Bytes({}) = 0
  <2>1. IsFiniteSet({}) /\ {} \subseteq Entry
    BY FS_EmptySet
  <2> QED
    BY <2>1, BytesWeight, WeightEmpty
<1>5. ASSUME NEW t PROVE Rolling(Pruned(L, t), s) = left(t - Window)
  <2>1. Of(Pruned(L, t).entries, s) = {e \in E : e.at > t - Window}
    BY DEF Of, Pruned
  <2> QED
    BY <2>1 DEF Rolling
<1>6. ResumeBelow(L, s, limit) = IF at = {} THEN {} ELSE {Min(at) + Window}
  BY DEF ResumeBelow
<1>7. E # {}
  BY <1>3, <1>4
<1>8. at # {}
  <2> DEFINE T == {e.at : e \in E}
  <2>1. T \subseteq Nat /\ T # {} /\ \A x \in T : x <= MaxTime
    BY <1>1, <1>7
  <2>2. PICK m \in T : \A y \in T : y <= m
    <3> HIDE DEF T
    <3> QED
      BY <2>1, <1>2, GreatestExists
  <2>3. PICK e \in E : e.at = m
    OBVIOUS
  <2>4. {f \in E : f.at > m} = {}
    BY <1>1, <2>1, <2>2
  <2>5. left(e.at) = 0
    BY <1>4, <2>3, <2>4
  <2>6. left(e.at) < limit
    BY <2>5
  <2> HIDE DEF left, E, T
  <2> QED
    BY <2>6
<1>9. at \subseteq Nat
  BY <1>1
<1> DEFINE p == Min(at)
<1>10. p \in at /\ p \in Nat /\ \A y \in at : p <= y
  <2> HIDE DEF at
  <2> QED
    BY <1>8, <1>9, MinMember
<1>11. left(p) < limit
  BY <1>10
<1> DEFINE r == p + Window
<1>12. Rolling(Pruned(L, r), s) < limit
  <2>1. r - Window = p
    BY <1>2, <1>10
  <2> QED
    BY <1>5, <1>11, <2>1
<1>13. ASSUME NEW t \in Int, t < r PROVE Rolling(Pruned(L, t), s) >= limit
  <2> DEFINE u == t - Window
             G == {e.at : e \in {f \in E : f.at <= u}}
  <2>1. u \in Int /\ u < p
    BY <1>2, <1>10, <1>13
  <2> HIDE DEF u, p, r, at
  <2>2. CASE G = {}
    <3>1. {e \in E : e.at > u} = E
      BY <1>1, <2>1, <2>2
    <3>2. left(u) >= limit
      BY <1>3, <3>1
    <3> QED
      BY <1>5, <3>2 DEF u
  <2>3. CASE G # {}
    <3>1. G \subseteq Nat /\ \A x \in G : x <= MaxTime /\ x <= u
      BY <1>1
    <3>2. PICK m \in G : \A y \in G : y <= m
      <4> HIDE DEF G
      <4> QED
        BY <2>3, <3>1, <1>2, GreatestExists
    <3>3. PICK f \in E : f.at = m /\ m <= u /\ m \in Nat
      BY <3>1
    <3>4. ASSUME NEW e \in E PROVE e.at > u <=> e.at > m
      <4>1. e.at \in Nat
        BY <1>1
      <4>2. e.at <= u => e.at <= m
        BY <3>2
      <4> HIDE DEF E, G
      <4> QED
        BY <4>1, <4>2, <2>1, <3>3
    <3>5. {e \in E : e.at > u} = {e \in E : e.at > m}
      BY <3>4
    <3>6. m \notin at
      BY <1>10, <2>1, <3>3
    <3>7. ~(left(f.at) < limit)
      BY <3>3, <3>6 DEF at
    <3>8. left(u) = left(f.at)
      BY <3>3, <3>5
    <3>9. left(u) >= limit
      BY <3>7, <3>8, <1>3
    <3> QED
      BY <1>5, <3>9 DEF u
  <2> QED
    BY <2>2, <2>3
<1> HIDE DEF at
<1>14. r \in ResumeBelow(L, s, limit) /\ r \in Nat
  BY <1>2, <1>6, <1>8, <1>10
<1> QED
  BY <1>12, <1>13, <1>14

-----------------------------------------------------------------------------
(* The inductive invariant, of a ledger with observed time o and entries E    *)
(* and the attempts A.                                                        *)

\* An open attempt is charged with its whole grant, one that has ended with
\* what it moved.
Charge(a)   == IF a.open THEN a.granted ELSE a.moved
ChargeOf(A) == [i \in DOMAIN A |-> Charge(A[i])]

StartedAfter(A, s, t) == {i \in DOMAIN A : A[i].src = s /\ A[i].at > t}

StartedIn(A, s, K, t) ==
    {i \in DOMAIN A : /\ A[i].src = s
                      /\ A[i].kind \in K
                      /\ A[i].at \in t - Window + 1..t}

\* The ledger is valid, and every reservation in it is that of its attempt.
Known(o, E, A) ==
    /\ o \in Times /\ ValidEntries(E) /\ A \in Seq(Attempt)
    /\ \A e \in E : e.at <= o
    /\ Cardinality(E) <= MaxEntries
    /\ \A s \in Sources : Cardinality(Of(E, s)) <= MaxPerSource
    /\ Len(A) <= MaxAttempts
    /\ \A e \in E : e.id \in DOMAIN A
    /\ \A i \in DOMAIN A : A[i].open => A[i].moved <= A[i].granted
    /\ \A e \in E : e.kind = "reserved" =>
          /\ A[e.id].src = e.src /\ A[e.id].at = e.at
          /\ A[e.id].open => A[e.id].granted = e.bytes

\* From any time that the window still reaches, the entries dated later carry
\* the charges of the attempts started later.
Covered(o, E, A) ==
    \A s \in Sources, t \in Int :
        t >= o - Window =>
            Weight(ChargeOf(A), StartedAfter(A, s, t)) <= Weight(EntryBytes, After(E, s, t))

\* No window is overcharged.
Bounded(A) ==
    \A s \in Sources, t \in Times :
        /\ Weight(ChargeOf(A), StartedIn(A, s, Kinds \ Unlimited, t)) <= Hard
        /\ Weight(ChargeOf(A), StartedIn(A, s, {"bulk"}, t)) <= Soft

Inv ==
    /\ Known(ledger.observed, ledger.entries, attempts)
    /\ Covered(ledger.observed, ledger.entries, attempts)
    /\ Bounded(attempts)

\* The constants are numbers.
LEMMA Numbers ==
    /\ Window \in Nat \ {0} /\ Hard \in Nat \ {0} /\ Soft \in Nat \ {0}
    /\ MinGrant \in Nat \ {0} /\ ProbeBytes \in Nat \ {0} /\ Requests \subseteq Nat
    /\ MaxPerSource \in Nat /\ MaxEntries \in Nat /\ MaxTime \in Nat /\ MaxAttempts \in Nat
BY BudgetAssumption DEF BudgetAssumption

\* The fields of an attempt.
LEMMA AttemptFields ==
    ASSUME NEW a \in Attempt
    PROVE  /\ a.src \in Sources /\ a.kind \in Kinds /\ a.at \in Times /\ a.at \in Nat
           /\ a.granted \in Nat /\ a.moved \in Nat /\ a.open \in BOOLEAN
           /\ Charge(a) \in Nat
<1>1. /\ a.src \in Sources /\ a.kind \in Kinds /\ a.at \in Times
      /\ a.granted \in Nat /\ a.moved \in Nat /\ a.open \in BOOLEAN
  BY DEF Attempt
<1> QED
  BY <1>1, Numbers DEF Charge, Times

\* The attempts are finitely many, with numbers for their charges.
LEMMA AttemptsFinite ==
    ASSUME NEW A \in Seq(Attempt), NEW S, S \subseteq DOMAIN A
    PROVE  /\ IsFiniteSet(S)
           /\ \A i \in S : /\ A[i] \in Attempt
                           /\ ChargeOf(A)[i] = Charge(A[i])
                           /\ ChargeOf(A)[i] \in Nat
           /\ Weight(ChargeOf(A), S) \in Nat
<1>1. DOMAIN A = 1..Len(A) /\ Len(A) \in Nat
  OBVIOUS
<1>2. IsFiniteSet(S)
  <2>1. IsFiniteSet(1..Len(A)) /\ S \in SUBSET (1..Len(A))
    BY <1>1, FS_Interval
  <2> QED
    BY <2>1, FS_Subset
<1>3. ASSUME NEW i \in S
      PROVE  A[i] \in Attempt /\ ChargeOf(A)[i] = Charge(A[i]) /\ ChargeOf(A)[i] \in Nat
  <2>1. A[i] \in Attempt
    OBVIOUS
  <2>2. ChargeOf(A)[i] = Charge(A[i])
    BY DEF ChargeOf
  <2> QED
    BY <2>1, <2>2, AttemptFields
<1> QED
  BY <1>2, <1>3, CellsFinite

\* The entries after a time are finitely many, with numbers for their bytes.
LEMMA AfterFinite ==
    ASSUME NEW E, ValidEntries(E), NEW s, NEW t
    PROVE  /\ IsFiniteSet(After(E, s, t))
           /\ After(E, s, t) \subseteq E /\ After(E, s, t) \subseteq Entry
           /\ \A e \in After(E, s, t) : EntryBytes[e] = e.bytes /\ EntryBytes[e] \in Nat
           /\ Weight(EntryBytes, After(E, s, t)) \in Nat
<1>1. After(E, s, t) \subseteq E /\ After(E, s, t) \subseteq Entry
  BY DEF After, ValidEntries
<1>2. IsFiniteSet(After(E, s, t))
  BY <1>1, ValidPart
<1>3. \A e \in After(E, s, t) : EntryBytes[e] = e.bytes /\ EntryBytes[e] \in Nat
  BY <1>1, EntryWeights
<1> QED
  BY <1>1, <1>2, <1>3, CellsFinite

\* The properties follow.
LEMMA InvValid == Inv => LedgerValid
BY DEF Inv, Known, ValidEntries, LedgerValid

\* What an attempt has moved is never more than its charge.
LEMMA MovedIsCharged ==
    ASSUME NEW o, NEW E, Known(o, E, attempts), NEW S, S \subseteq DOMAIN attempts
    PROVE  Moved(S) <= Weight(ChargeOf(attempts), S) /\ Moved(S) \in Nat
<1>1. /\ attempts \in Seq(Attempt)
      /\ \A i \in DOMAIN attempts :
            attempts[i].open => attempts[i].moved <= attempts[i].granted
  BY DEF Known
<1>2. /\ IsFiniteSet(S)
      /\ \A i \in S : /\ attempts[i] \in Attempt
                      /\ ChargeOf(attempts)[i] = Charge(attempts[i])
                      /\ ChargeOf(attempts)[i] \in Nat
  BY <1>1, AttemptsFinite
<1>3. ASSUME NEW i \in S
      PROVE  MovedBytes[i] \in Nat /\ MovedBytes[i] <= ChargeOf(attempts)[i]
  <2>1. MovedBytes[i] = attempts[i].moved /\ attempts[i].moved \in Nat
    BY <1>2, AttemptFields DEF MovedBytes
  <2> QED
    BY <1>1, <1>2, <2>1 DEF Charge
<1>4. Moved(S) = Weight(MovedBytes, S)
  BY <1>1, <1>2, MovedWeight
<1>5. Weight(MovedBytes, S) <= Weight(ChargeOf(attempts), S)
  BY <1>2, <1>3, WeightMonotone
<1>6. Weight(MovedBytes, S) \in Nat
  BY <1>2, <1>3, CellsFinite
<1> QED
  BY <1>4, <1>5, <1>6

\* A charge dated within the window is in the sum.
LEMMA InvCovers == Inv => LedgerCovers
<1> SUFFICES ASSUME Inv, NEW s \in Sources
             PROVE  Moved({a \in DOMAIN attempts :
                              attempts[a].src = s /\ attempts[a].at > ledger.observed - Window})
                        <= Rolling(ledger, s)
  BY DEF LedgerCovers
<1> DEFINE t == ledger.observed - Window
           S == StartedAfter(attempts, s, t)
           E == ledger.entries
<1>1. Known(ledger.observed, E, attempts) /\ ValidEntries(E) /\ attempts \in Seq(Attempt)
  BY DEF Inv, Known
<1>2. t \in Int /\ t >= ledger.observed - Window
  BY <1>1, Numbers DEF Known, Times
<1>3. Weight(ChargeOf(attempts), S) <= Weight(EntryBytes, After(E, s, t))
  BY <1>2 DEF Inv, Covered
<1>4. S \subseteq DOMAIN attempts
  BY DEF StartedAfter
<1>5. Moved(S) <= Weight(ChargeOf(attempts), S) /\ Moved(S) \in Nat
  <2> HIDE DEF S
  <2> QED
    BY <1>1, <1>4, MovedIsCharged
<1>6. Weight(EntryBytes, After(E, s, t)) <= Rolling(ledger, s)
  <2>1. After(E, s, t) \subseteq Of(E, s)
    BY DEF After, Of
  <2>2. IsFiniteSet(Of(E, s)) /\ Of(E, s) \subseteq Entry
    BY <1>1, ValidPart DEF Of, ValidEntries
  <2>3. \A x \in Of(E, s) : EntryBytes[x] \in Nat /\ EntryBytes[x] <= EntryBytes[x]
    BY <2>2, EntryWeights
  <2>4. Weight(EntryBytes, After(E, s, t)) <= Weight(EntryBytes, Of(E, s))
    <3> HIDE DEF t, E
    <3> QED
      BY <2>1, <2>2, <2>3, WeightMonotone
  <2>5. Rolling(ledger, s) = Weight(EntryBytes, Of(E, s))
    BY <1>1, RollingWeight DEF Rolling
  <2> QED
    BY <2>4, <2>5
<1>7. /\ Weight(ChargeOf(attempts), S) \in Nat
      /\ Weight(EntryBytes, After(E, s, t)) \in Nat
      /\ Rolling(ledger, s) \in Nat
  BY <1>1, <1>4, AttemptsFinite, AfterFinite, RollingWeight DEF Rolling
<1>8. Moved(S) <= Rolling(ledger, s)
  <2> HIDE DEF S, E, t
  <2> QED
    BY <1>3, <1>5, <1>6, <1>7
<1> QED
  BY <1>8 DEF StartedAfter

\* What moved is no more than what was charged.
LEMMA InvBounded == Inv => WindowBounded
<1> SUFFICES ASSUME Inv, NEW s \in Sources, NEW t \in Times
             PROVE  /\ Moved(StartedIn(attempts, s, Kinds \ Unlimited, t)) <= Hard
                    /\ Moved(StartedIn(attempts, s, {"bulk"}, t)) <= Soft
  BY DEF WindowBounded, StartedIn
<1>1. Known(ledger.observed, ledger.entries, attempts) /\ attempts \in Seq(Attempt)
  BY DEF Inv, Known
<1>2. \A K : StartedIn(attempts, s, K, t) \subseteq DOMAIN attempts
  BY DEF StartedIn
<1>3. \A K : LET S == StartedIn(attempts, s, K, t) IN
             /\ Moved(S) <= Weight(ChargeOf(attempts), S)
             /\ Moved(S) \in Nat /\ Weight(ChargeOf(attempts), S) \in Nat
  BY <1>1, <1>2, MovedIsCharged, AttemptsFinite
<1>4. /\ Weight(ChargeOf(attempts), StartedIn(attempts, s, Kinds \ Unlimited, t)) <= Hard
      /\ Weight(ChargeOf(attempts), StartedIn(attempts, s, {"bulk"}, t)) <= Soft
  BY DEF Inv, Bounded
<1> QED
  BY <1>3, <1>4, Numbers

\* The claim about resume_below holds of any valid ledger.
LEMMA InvResume == Inv => ResumeIsFirst
<1> SUFFICES ASSUME Inv, NEW s \in Sources, NEW limit \in {Soft, Hard},
                    Rolling(ledger, s) >= limit
             PROVE  \E r \in ResumeBelow(ledger, s, limit) :
                       /\ Rolling(Pruned(ledger, r), s) < limit
                       /\ \A t \in ledger.observed..r - 1 :
                             Rolling(Pruned(ledger, t), s) >= limit
  BY DEF ResumeIsFirst
<1>1. ValidEntries(ledger.entries) /\ limit \in Nat \ {0} /\ ledger.observed \in Int
  BY Numbers DEF Inv, Known, Times
<1>2. PICK r \in ResumeBelow(ledger, s, limit) :
              /\ r \in Nat
              /\ Rolling(Pruned(ledger, r), s) < limit
              /\ \A t \in Int : t < r => Rolling(Pruned(ledger, t), s) >= limit
  BY <1>1, ResumeFirst
<1>3. \A t \in ledger.observed..r - 1 : t \in Int /\ t < r
  BY <1>1, <1>2
<1> QED
  BY <1>2, <1>3

-----------------------------------------------------------------------------
(* The steps of an operation. *)

\* Part of the ledger has at most its entries, of every source.
LEMMA PartKnown ==
    ASSUME NEW o, NEW E, NEW A, Known(o, E, A), NEW F, F \subseteq E,
           NEW q \in Times, q >= o
    PROVE  Known(q, F, A)
<1>1. ValidEntries(E) /\ IsFiniteSet(E) /\ ValidEntries(F) /\ IsFiniteSet(F)
  BY ValidFinite, ValidPart DEF Known
<1>2. o \in Nat /\ q \in Nat /\ \A e \in E : e.at <= o /\ e.at \in Nat
  BY <1>1, EntryFields, Numbers DEF Known, Times, ValidEntries
<1>3. \A e \in F : e.at <= q
  BY <1>2
<1>4. Cardinality(F) <= MaxEntries
  <2>1. Cardinality(F) <= Cardinality(E) /\ Cardinality(E) <= MaxEntries
    BY <1>1, FS_Subset DEF Known
  <2> QED
    BY <1>1, <2>1, FS_CardinalityType, Numbers
<1>5. ASSUME NEW s \in Sources PROVE Cardinality(Of(F, s)) <= MaxPerSource
  <2>1. Of(F, s) \subseteq Of(E, s) /\ Of(E, s) \subseteq E
    BY DEF Of
  <2>2. IsFiniteSet(Of(E, s)) /\ IsFiniteSet(Of(F, s))
    BY <1>1, <2>1, ValidPart
  <2>3. Cardinality(Of(F, s)) <= Cardinality(Of(E, s))
    BY <2>1, <2>2, FS_Subset
  <2>4. Cardinality(Of(E, s)) <= MaxPerSource
    BY DEF Known
  <2> QED
    BY <2>2, <2>3, <2>4, FS_CardinalityType, Numbers
<1> QED
  BY <1>1, <1>3, <1>4, <1>5 DEF Known

\* A later observed time leaves fewer charges to cover.
LEMMA LaterCovered ==
    ASSUME NEW o, NEW E, NEW A, Known(o, E, A), Covered(o, E, A), NEW q \in Times, q >= o
    PROVE  Covered(q, E, A)
<1>1. o \in Nat /\ q \in Nat /\ Window \in Nat
  BY Numbers DEF Known, Times
<1>2. \A t \in Int : t >= q - Window => t >= o - Window
  BY <1>1
<1> QED
  BY <1>2 DEF Covered

\* advance_clock_and_prune drops only what no window reaches.
LEMMA PruneStep ==
    ASSUME NEW o, NEW E, NEW A, Known(o, E, A), Covered(o, E, A), NEW q \in Times, q >= o
    PROVE  LET F == {e \in E : e.at > q - Window} IN Known(q, F, A) /\ Covered(q, F, A)
<1> DEFINE F == {e \in E : e.at > q - Window}
<1>1. Known(q, F, A)
  BY PartKnown
<1>2. Covered(q, E, A)
  BY LaterCovered
<1>3. ASSUME NEW s \in Sources, NEW t \in Int, t >= q - Window
      PROVE  After(F, s, t) = After(E, s, t)
  <2>1. q \in Nat /\ Window \in Nat /\ \A e \in E : e.at \in Nat
    BY Numbers, EntryFields DEF Known, Times, ValidEntries
  <2>2. \A e \in E : e.at > t => e.at > q - Window
    BY <1>3, <2>1
  <2> QED
    BY <2>2 DEF After
<1>4. Covered(q, F, A)
  BY <1>2, <1>3 DEF Covered
<1> QED
  BY <1>1, <1>4

\* A merge changes nothing that matters.
LEMMA MergeStep ==
    ASSUME NEW o, NEW E, NEW A, Known(o, E, A), Covered(o, E, A)
    PROVE  Known(o, Merged(E), A) /\ Covered(o, Merged(E), A)
<1>1. ValidEntries(E) /\ ValidEntries(Merged(E))
  BY MergedValid DEF Known
<1>2. IsFiniteSet(E) /\ IsFiniteSet(Merged(E))
  BY <1>1, ValidFinite
<1>3. Cardinality(Merged(E)) <= MaxEntries
  <2>1. Cardinality(Merged(E)) <= Cardinality(E) /\ Cardinality(E) <= MaxEntries
    BY <1>1, MergedValid DEF Known
  <2> QED
    BY <1>2, <2>1, FS_CardinalityType, Numbers
<1>4. ASSUME NEW s \in Sources PROVE Cardinality(Of(Merged(E), s)) <= MaxPerSource
  <2>1. Of(E, s) \subseteq E /\ Of(Merged(E), s) \subseteq Merged(E)
    BY DEF Of
  <2>2. IsFiniteSet(Of(E, s)) /\ IsFiniteSet(Of(Merged(E), s))
    BY <1>1, <2>1, ValidPart
  <2>3. /\ Cardinality(Of(Merged(E), s)) <= Cardinality(Of(E, s))
        /\ Cardinality(Of(E, s)) <= MaxPerSource
    BY <1>1, MergedValid DEF Known
  <2> QED
    BY <2>2, <2>3, FS_CardinalityType, Numbers
<1>5. ASSUME NEW m \in Merged(E)
      PROVE  /\ m.at <= o /\ m.id \in DOMAIN A
             /\ m.kind = "reserved" => m \in E
  <2>1. PICK e \in E : m = CarrierOf(e, E)
    BY <1>1, MergedImage
  <2>2. /\ \E f \in E : m.at = f.at
        /\ \E f \in E : m.id = f.id
        /\ m.kind = "reserved" => m = e
    BY <1>1, <2>1, CarrierFacts
  <2> QED
    BY <2>2 DEF Known
<1>6. Known(o, Merged(E), A)
  BY <1>1, <1>3, <1>4, <1>5 DEF Known
<1>7. ASSUME NEW s \in Sources, NEW t \in Int, t >= o - Window
      PROVE  Weight(ChargeOf(A), StartedAfter(A, s, t))
                <= Weight(EntryBytes, After(Merged(E), s, t))
  <2>1. Weight(ChargeOf(A), StartedAfter(A, s, t)) <= Weight(EntryBytes, After(E, s, t))
    BY <1>7 DEF Covered
  <2>2. Weight(EntryBytes, After(E, s, t)) <= Weight(EntryBytes, After(Merged(E), s, t))
    BY <1>1, MergedKeeps
  <2>3. /\ Weight(EntryBytes, After(E, s, t)) \in Nat
        /\ Weight(EntryBytes, After(Merged(E), s, t)) \in Nat
    BY <1>1, AfterFinite
  <2>4. StartedAfter(A, s, t) \subseteq DOMAIN A /\ A \in Seq(Attempt)
    BY DEF StartedAfter, Known
  <2>5. Weight(ChargeOf(A), StartedAfter(A, s, t)) \in Nat
    BY <2>4, AttemptsFinite
  <2> QED
    BY <2>1, <2>2, <2>3, <2>5
<1>8. Covered(o, Merged(E), A)
  BY <1>7 DEF Covered
<1> QED
  BY <1>6, <1>8

\* Attempts whose charges have not risen: the same ones, at most as dear.
NoDearer(A, B) ==
    /\ B \in Seq(Attempt) /\ DOMAIN B = DOMAIN A
    /\ \A i \in DOMAIN A :
          /\ B[i].src = A[i].src /\ B[i].kind = A[i].kind /\ B[i].at = A[i].at
          /\ Charge(B[i]) <= Charge(A[i])

\* Their charges sum to no more.
LEMMA NoDearerWeight ==
    ASSUME NEW A \in Seq(Attempt), NEW B, NoDearer(A, B), NEW S, S \subseteq DOMAIN A
    PROVE  Weight(ChargeOf(B), S) <= Weight(ChargeOf(A), S)
<1>1. B \in Seq(Attempt) /\ DOMAIN B = DOMAIN A
  BY DEF NoDearer
<1>2. IsFiniteSet(S) /\ \A i \in S : ChargeOf(A)[i] = Charge(A[i]) /\ ChargeOf(A)[i] \in Nat
  BY AttemptsFinite
<1>3. \A i \in S : ChargeOf(B)[i] = Charge(B[i]) /\ ChargeOf(B)[i] \in Nat
  BY <1>1, AttemptsFinite
<1>4. \A i \in S : ChargeOf(B)[i] <= ChargeOf(A)[i]
  BY <1>2, <1>3 DEF NoDearer
<1> QED
  BY <1>2, <1>3, <1>4, WeightMonotone

\* They overcharge no window,
LEMMA NoDearerBounded ==
    ASSUME NEW A \in Seq(Attempt), NEW B, NoDearer(A, B), Bounded(A)
    PROVE  Bounded(B)
<1> SUFFICES ASSUME NEW s \in Sources, NEW t \in Times
             PROVE  /\ Weight(ChargeOf(B), StartedIn(B, s, Kinds \ Unlimited, t)) <= Hard
                    /\ Weight(ChargeOf(B), StartedIn(B, s, {"bulk"}, t)) <= Soft
  BY DEF Bounded
<1>1. \A K : StartedIn(B, s, K, t) = StartedIn(A, s, K, t)
  BY DEF StartedIn, NoDearer
<1>2. \A K : StartedIn(A, s, K, t) \subseteq DOMAIN A
  BY DEF StartedIn
<1>3. B \in Seq(Attempt) /\ DOMAIN B = DOMAIN A
  BY DEF NoDearer
<1>4. ASSUME NEW K
      PROVE  LET S == StartedIn(A, s, K, t) IN
             /\ Weight(ChargeOf(B), S) <= Weight(ChargeOf(A), S)
             /\ Weight(ChargeOf(B), S) \in Nat /\ Weight(ChargeOf(A), S) \in Nat
  BY <1>2, <1>3, NoDearerWeight, AttemptsFinite
<1>5. /\ Weight(ChargeOf(A), StartedIn(A, s, Kinds \ Unlimited, t)) <= Hard
      /\ Weight(ChargeOf(A), StartedIn(A, s, {"bulk"}, t)) <= Soft
  BY DEF Bounded
<1> QED
  BY <1>1, <1>4, <1>5, Numbers

\* and the ledger still covers them.
LEMMA NoDearerCovered ==
    ASSUME NEW o, NEW E, NEW A, Known(o, E, A), Covered(o, E, A), NEW B, NoDearer(A, B)
    PROVE  Covered(o, E, B)
<1> SUFFICES ASSUME NEW s \in Sources, NEW t \in Int, t >= o - Window
             PROVE  Weight(ChargeOf(B), StartedAfter(B, s, t)) <= Weight(EntryBytes, After(E, s, t))
  BY DEF Covered
<1>1. StartedAfter(B, s, t) = StartedAfter(A, s, t) /\ StartedAfter(A, s, t) \subseteq DOMAIN A
  BY DEF StartedAfter, NoDearer
<1>2. /\ A \in Seq(Attempt) /\ B \in Seq(Attempt) /\ DOMAIN B = DOMAIN A /\ ValidEntries(E)
  BY DEF NoDearer, Known
<1>3. Weight(ChargeOf(B), StartedAfter(A, s, t)) <= Weight(ChargeOf(A), StartedAfter(A, s, t))
  BY <1>1, <1>2, NoDearerWeight
<1>4. Weight(ChargeOf(A), StartedAfter(A, s, t)) <= Weight(EntryBytes, After(E, s, t))
  BY DEF Covered
<1>5. /\ Weight(ChargeOf(B), StartedAfter(A, s, t)) \in Nat
      /\ Weight(ChargeOf(A), StartedAfter(A, s, t)) \in Nat
      /\ Weight(EntryBytes, After(E, s, t)) \in Nat
  BY <1>1, <1>2, AttemptsFinite, AfterFinite
<1> QED
  BY <1>1, <1>3, <1>4, <1>5

\* What an entry adds to the bytes of source s after t.
Share(c, s, t) == IF c.src = s /\ c.at > t THEN c.bytes ELSE 0

\* One more entry, of an identifier that is not in use.
LEMMA AddedWeight ==
    ASSUME NEW G, ValidEntries(G), NEW c \in Entry, \A e \in G : e.id # c.id,
           NEW s, NEW t
    PROVE  Weight(EntryBytes, After(G \union {c}, s, t)) =
              Weight(EntryBytes, After(G, s, t)) + Share(c, s, t)
<1>1. /\ IsFiniteSet(After(G, s, t)) /\ After(G, s, t) \subseteq G
      /\ \A e \in After(G, s, t) : EntryBytes[e] \in Nat
      /\ Weight(EntryBytes, After(G, s, t)) \in Nat
  BY AfterFinite
<1>2. EntryBytes[c] = c.bytes /\ EntryBytes[c] \in Nat
  BY EntryWeights
<1>3. CASE c.src = s /\ c.at > t
  <2>1. After(G \union {c}, s, t) = After(G, s, t) \union {c}
    BY <1>3 DEF After
  <2>2. After(G, s, t) \cap {c} = {} /\ IsFiniteSet({c})
    BY <1>1, FS_Singleton
  <2>3. Weight(EntryBytes, After(G, s, t) \union {c}) =
           Weight(EntryBytes, After(G, s, t)) + Weight(EntryBytes, {c})
    BY <1>1, <1>2, <2>2, WeightUnion
  <2>4. Weight(EntryBytes, {c}) = c.bytes
    BY <1>2, CellsOfOne
  <2> QED
    BY <1>3, <2>1, <2>3, <2>4 DEF Share
<1>4. CASE ~(c.src = s /\ c.at > t)
  <2>1. After(G \union {c}, s, t) = After(G, s, t)
    BY <1>4 DEF After
  <2> QED
    BY <1>1, <1>4, <2>1 DEF Share
<1> QED
  BY <1>3, <1>4

\* It keeps the ledger valid if there is room for it.
LEMMA AddedKnown ==
    ASSUME NEW o, NEW G, NEW A, Known(o, G, A), NEW c \in Entry,
           \A e \in G : e.id # c.id, c.at <= o, c.id \in DOMAIN A,
           Cardinality(G) < MaxEntries, Cardinality(Of(G, c.src)) < MaxPerSource,
           c.kind = "reserved" =>
              /\ A[c.id].src = c.src /\ A[c.id].at = c.at
              /\ A[c.id].open => A[c.id].granted = c.bytes
    PROVE  Known(o, G \union {c}, A)
<1>1. ValidEntries(G) /\ IsFiniteSet(G)
  BY ValidFinite DEF Known
<1>2. ValidEntries(G \union {c})
  BY <1>1 DEF ValidEntries
<1>3. Cardinality(G \union {c}) <= MaxEntries
  <2>1. Cardinality(G) \in Nat
    BY <1>1, FS_CardinalityType
  <2>2. Cardinality(G \union {c}) = Cardinality(G) + 1
    BY <1>1, FS_AddElement
  <2> QED
    BY <2>1, <2>2, Numbers
<1>4. ASSUME NEW s \in Sources PROVE Cardinality(Of(G \union {c}, s)) <= MaxPerSource
  <2>1. Of(G, s) \subseteq G /\ IsFiniteSet(Of(G, s))
    BY <1>1, ValidPart DEF Of
  <2>2. Cardinality(Of(G, s)) \in Nat
    BY <2>1, FS_CardinalityType
  <2>3. CASE c.src = s
    <3>1. Of(G \union {c}, s) = Of(G, s) \union {c} /\ c \notin Of(G, s)
      BY <2>3 DEF Of
    <3>2. Cardinality(Of(G, s) \union {c}) = Cardinality(Of(G, s)) + 1
      BY <2>1, <3>1, FS_AddElement
    <3>3. Cardinality(Of(G, s)) < MaxPerSource
      BY <2>3
    <3>4. Cardinality(Of(G \union {c}, s)) = Cardinality(Of(G, s)) + 1
      BY <3>1, <3>2
    <3>5. MaxPerSource \in Nat
      BY Numbers
    <3> QED
      BY <2>2, <3>3, <3>4, <3>5
  <2>4. CASE c.src # s
    <3>1. Of(G \union {c}, s) = Of(G, s)
      BY <2>4 DEF Of
    <3> QED
      BY <3>1 DEF Known
  <2> QED
    BY <2>3, <2>4
<1> QED
  BY <1>2, <1>3, <1>4 DEF Known

\* The attempts after one more is admitted.
LEMMA AppendFields ==
    ASSUME NEW A \in Seq(Attempt), NEW x \in Attempt
    PROVE  LET B == Append(A, x) IN
           /\ B \in Seq(Attempt) /\ Len(B) = Len(A) + 1 /\ Len(A) \in Nat
           /\ DOMAIN A = 1..Len(A) /\ DOMAIN B = DOMAIN A \union {Len(A) + 1}
           /\ Len(A) + 1 \notin DOMAIN A
           /\ \A i \in DOMAIN A : B[i] = A[i]
           /\ B[Len(A) + 1] = x
OBVIOUS

\* One more attempt adds its own charge.
LEMMA AppendWeight ==
    ASSUME NEW A \in Seq(Attempt), NEW x \in Attempt, NEW S, S \subseteq DOMAIN A
    PROVE  LET B == Append(A, x) IN
           /\ Weight(ChargeOf(B), S) = Weight(ChargeOf(A), S)
           /\ Weight(ChargeOf(B), S \union {Len(A) + 1}) = Weight(ChargeOf(A), S) + Charge(x)
<1> DEFINE B == Append(A, x)
           n == Len(A) + 1
<1>1. /\ B \in Seq(Attempt) /\ DOMAIN B = DOMAIN A \union {n} /\ n \notin DOMAIN A
      /\ (\A i \in DOMAIN A : B[i] = A[i]) /\ B[n] = x
  BY AppendFields
<1> HIDE DEF B, n
<1>2. ChargeOf(B)[n] = Charge(x) /\ Charge(x) \in Nat
  BY <1>1, AttemptFields DEF ChargeOf
<1>3. \A i \in S : ChargeOf(B)[i] = ChargeOf(A)[i]
  BY <1>1 DEF ChargeOf
<1>4. Weight(ChargeOf(B), S) = Weight(ChargeOf(A), S)
  BY <1>3, WeightSame
<1>5. IsFiniteSet(S) /\ \A i \in S : ChargeOf(A)[i] \in Nat
  BY AttemptsFinite
<1>6. S \cap {n} = {} /\ IsFiniteSet({n}) /\ \A i \in S \union {n} : ChargeOf(B)[i] \in Nat
  BY <1>1, <1>2, <1>3, <1>5, FS_Singleton
<1>7. Weight(ChargeOf(B), S \union {n}) = Weight(ChargeOf(B), S) + Weight(ChargeOf(B), {n})
  BY <1>5, <1>6, WeightUnion
<1>8. Weight(ChargeOf(B), {n}) = Charge(x)
  BY <1>2, CellsOfOne
<1> QED
  BY <1>4, <1>7, <1>8 DEF B, n

\* A new attempt and its reservation.
LEMMA BeginStep ==
    ASSUME NEW o, NEW E, NEW A, Known(o, E, A), Covered(o, E, A),
           NEW x \in Attempt, x.open, x.at = o, x.moved = 0, x.granted > 0,
           Len(A) + 1 <= MaxAttempts,
           Cardinality(E) < MaxEntries, Cardinality(Of(E, x.src)) < MaxPerSource,
           NEW c \in Entry, c.id = Len(A) + 1, c.src = x.src, c.at = o,
           c.bytes = x.granted, c.kind = "reserved"
    PROVE  /\ Known(o, E \union {c}, Append(A, x))
           /\ Covered(o, E \union {c}, Append(A, x))
<1> DEFINE B == Append(A, x)
           n == Len(A) + 1
<1>1. A \in Seq(Attempt) /\ ValidEntries(E) /\ (\A e \in E : e.id \in DOMAIN A)
  BY DEF Known
<1>2. /\ B \in Seq(Attempt) /\ Len(B) = n
      /\ DOMAIN B = DOMAIN A \union {n} /\ n \notin DOMAIN A
      /\ (\A i \in DOMAIN A : B[i] = A[i]) /\ B[n] = x
  BY <1>1, AppendFields
<1> HIDE DEF B
<1>3. \A e \in E : e.id # c.id
  BY <1>1, <1>2
<1>4. x.moved <= x.granted /\ o \in Nat
  BY AttemptFields
<1>5. Known(o, E, B)
  <2>1. \A e \in E : e.id \in DOMAIN B /\ B[e.id] = A[e.id]
    BY <1>1, <1>2
  <2>2. \A i \in DOMAIN B : B[i].open => B[i].moved <= B[i].granted
    BY <1>2, <1>4 DEF Known
  <2> HIDE DEF n
  <2> QED
    BY <1>2, <2>1, <2>2 DEF Known, n
<1>6. Known(o, E \union {c}, B)
  <2>1. c.id \in DOMAIN B /\ B[c.id] = x /\ c.at <= o
    BY <1>2, <1>4
  <2> QED
    BY <1>3, <1>5, <2>1, AddedKnown
<1>7. ASSUME NEW s \in Sources, NEW t \in Int, t >= o - Window
      PROVE  Weight(ChargeOf(B), StartedAfter(B, s, t))
                <= Weight(EntryBytes, After(E \union {c}, s, t))
  <2> DEFINE S == StartedAfter(A, s, t)
  <2>1. S \subseteq DOMAIN A
    BY DEF StartedAfter
  <2>2. Weight(ChargeOf(A), S) <= Weight(EntryBytes, After(E, s, t))
    BY <1>7 DEF Covered
  <2>3. /\ Weight(ChargeOf(A), S) \in Nat /\ Weight(EntryBytes, After(E, s, t)) \in Nat
    BY <1>1, <2>1, AttemptsFinite, AfterFinite
  <2>4. Weight(EntryBytes, After(E \union {c}, s, t)) =
           Weight(EntryBytes, After(E, s, t)) + Share(c, s, t)
    BY <1>1, <1>3, AddedWeight
  <2>5. /\ Weight(ChargeOf(B), S) = Weight(ChargeOf(A), S)
        /\ Weight(ChargeOf(B), S \union {n}) = Weight(ChargeOf(A), S) + Charge(x)
    <3> HIDE DEF S
    <3> QED
      BY <1>1, <2>1, AppendWeight DEF B
  <2>6. Charge(x) = c.bytes /\ c.bytes \in Nat
    BY AttemptFields DEF Charge
  <2>7. CASE x.src = s /\ x.at > t
    <3>1. StartedAfter(B, s, t) = S \union {n}
      BY <1>2, <2>7 DEF StartedAfter
    <3> HIDE DEF S
    <3> QED
      BY <2>2, <2>3, <2>4, <2>5, <2>6, <2>7, <3>1 DEF Share
  <2>8. CASE ~(x.src = s /\ x.at > t)
    <3>1. StartedAfter(B, s, t) = S
      BY <1>2, <2>8 DEF StartedAfter
    <3> HIDE DEF S
    <3> QED
      BY <2>2, <2>3, <2>4, <2>5, <2>8, <3>1 DEF Share
  <2> QED
    BY <2>7, <2>8
<1>8. Covered(o, E \union {c}, B)
  BY <1>7 DEF Covered
<1> QED
  BY <1>6, <1>8 DEF B

\* A new attempt overcharges no window if its grant fits beside the charges that
\* are less than a window old.
LEMMA BeginBounded ==
    ASSUME NEW A \in Seq(Attempt), Bounded(A), NEW x \in Attempt,
           x.kind \notin Unlimited =>
              Weight(ChargeOf(A), StartedAfter(A, x.src, x.at - Window)) + Charge(x)
                 <= LimitOf(x.kind)
    PROVE  Bounded(Append(A, x))
<1> DEFINE B == Append(A, x)
           n == Len(A) + 1
<1>1. /\ B \in Seq(Attempt)
      /\ DOMAIN B = DOMAIN A \union {n} /\ n \notin DOMAIN A
      /\ (\A i \in DOMAIN A : B[i] = A[i]) /\ B[n] = x
  BY AppendFields
<1> HIDE DEF B
<1> SUFFICES ASSUME NEW s \in Sources, NEW t \in Times,
                    NEW K \in {Kinds \ Unlimited, {"bulk"}}
             PROVE  Weight(ChargeOf(B), StartedIn(B, s, K, t))
                       <= (IF K = {"bulk"} THEN Soft ELSE Hard)
  <2>1. "plain" \in Kinds \ Unlimited /\ "plain" \notin {"bulk"}
    BY DEF Kinds, Unlimited
  <2>2. Kinds \ Unlimited # {"bulk"}
    BY <2>1
  <2> HIDE DEF n
  <2> QED
    BY <2>2 DEF Bounded, B
<1> DEFINE S == StartedIn(A, s, K, t)
           cap == IF K = {"bulk"} THEN Soft ELSE Hard
<1>2. S \subseteq DOMAIN A
  BY DEF StartedIn
<1>3. /\ Weight(ChargeOf(B), S) = Weight(ChargeOf(A), S)
      /\ Weight(ChargeOf(B), S \union {n}) = Weight(ChargeOf(A), S) + Charge(x)
  <2> HIDE DEF S
  <2> QED
    BY <1>2, AppendWeight DEF B
<1>4. Weight(ChargeOf(A), S) <= cap
  BY DEF Bounded
<1>5. CASE ~(x.src = s /\ x.kind \in K /\ x.at \in t - Window + 1..t)
  <2>1. StartedIn(B, s, K, t) = S
    BY <1>1, <1>5 DEF StartedIn
  <2> QED
    BY <1>3, <1>4, <2>1
<1>6. CASE x.src = s /\ x.kind \in K /\ x.at \in t - Window + 1..t
  <2>1. StartedIn(B, s, K, t) = S \union {n}
    BY <1>1, <1>6 DEF StartedIn
  <2>2. t \in Nat /\ x.at \in Nat /\ Window \in Nat /\ x.at <= t
    BY <1>6, Numbers, AttemptFields DEF Times
  <2>3. x.kind \notin Unlimited
    BY <1>6 DEF Unlimited
  <2> DEFINE R == StartedAfter(A, s, x.at - Window)
  <2>4. R \subseteq DOMAIN A
    BY DEF StartedAfter
  <2>5. S \subseteq R
    <3> SUFFICES ASSUME NEW i \in S PROVE A[i].at > x.at - Window
      BY DEF StartedIn, StartedAfter
    <3>1. A[i].at \in t - Window + 1..t
      BY DEF StartedIn
    <3> QED
      BY <2>2, <3>1
  <2>6. Weight(ChargeOf(A), R) + Charge(x) <= LimitOf(x.kind)
    BY <1>6, <2>3
  <2>7. IsFiniteSet(R) /\ \A i \in R : ChargeOf(A)[i] \in Nat /\ ChargeOf(A)[i] <= ChargeOf(A)[i]
    <3>1. IsFiniteSet(R) /\ \A i \in R : ChargeOf(A)[i] \in Nat
      <4> HIDE DEF R
      <4> QED
        BY <2>4, AttemptsFinite
    <3> HIDE DEF R
    <3> QED
      BY <3>1
  <2>8. Weight(ChargeOf(A), S) <= Weight(ChargeOf(A), R)
    <3> HIDE DEF R, S
    <3> QED
      BY <2>5, <2>7, WeightMonotone
  <2>9. LimitOf(x.kind) \in Nat /\ LimitOf(x.kind) <= cap
    <3>1. CASE K = {"bulk"}
      BY <1>6, <3>1, Numbers DEF LimitOf
    <3>2. CASE K # {"bulk"}
      BY <3>2, Numbers DEF LimitOf
    <3> QED
      BY <3>1, <3>2
  <2>10. /\ Weight(ChargeOf(A), S) \in Nat /\ Weight(ChargeOf(A), R) \in Nat
         /\ Charge(x) \in Nat /\ cap \in Nat
    <3>1. Weight(ChargeOf(A), S) \in Nat /\ Weight(ChargeOf(A), R) \in Nat
      BY <1>2, <2>4, AttemptsFinite
    <3>2. Charge(x) \in Nat /\ cap \in Nat
      BY AttemptFields, Numbers
    <3> QED
      BY <3>1, <3>2
  <2> HIDE DEF R, S, cap
  <2>11. Weight(ChargeOf(A), S) + Charge(x) <= cap
    BY <2>6, <2>8, <2>9, <2>10
  <2>12. Weight(ChargeOf(B), StartedIn(B, s, K, t)) <= cap
    BY <1>3, <2>1, <2>11
  <2> QED
    BY <2>12 DEF cap
<1> QED
  BY <1>5, <1>6

\* The end of an attempt: its charge falls from the grant to what it moved.
Ended(A, a) == [A EXCEPT ![a].open = FALSE, ![a].granted = 0]

\* The attempts after one has ended.
LEMMA EndedFields ==
    ASSUME NEW A \in Seq(Attempt), NEW a \in DOMAIN A
    PROVE  LET B == Ended(A, a) IN
           /\ B \in Seq(Attempt) /\ DOMAIN B = DOMAIN A /\ Len(B) = Len(A)
           /\ \A i \in DOMAIN A :
                 /\ B[i] \in Attempt
                 /\ i # a => B[i] = A[i]
                 /\ B[i].src = A[i].src /\ B[i].kind = A[i].kind /\ B[i].at = A[i].at
                 /\ B[i].moved = A[i].moved
           /\ ~B[a].open /\ Charge(B[a]) = A[a].moved
<1> DEFINE x == [A[a] EXCEPT !.open = FALSE, !.granted = 0]
           B == Ended(A, a)
<1>1. A[a] \in Attempt /\ DOMAIN A = 1..Len(A) /\ Len(A) \in Nat
  OBVIOUS
<1>2. /\ x \in Attempt /\ x.src = A[a].src /\ x.kind = A[a].kind /\ x.at = A[a].at
      /\ x.moved = A[a].moved /\ x.open = FALSE
  BY <1>1 DEF Attempt
<1>3. B = [A EXCEPT ![a] = x]
  BY DEF Ended
<1> HIDE DEF x, B
<1>4. /\ B \in Seq(Attempt) /\ DOMAIN B = DOMAIN A /\ Len(B) = Len(A) /\ B[a] = x
      /\ \A i \in DOMAIN A : (i # a => B[i] = A[i]) /\ B[i] \in Attempt
  BY <1>2, <1>3
<1>5. \A i \in DOMAIN A : /\ B[i].src = A[i].src /\ B[i].kind = A[i].kind
                          /\ B[i].at = A[i].at /\ B[i].moved = A[i].moved
  BY <1>2, <1>4
<1>6. Charge(B[a]) = A[a].moved
  BY <1>2, <1>4 DEF Charge
<1> QED
  BY <1>2, <1>4, <1>5, <1>6 DEF B

\* Ending an attempt makes none dearer and leaves the ledger valid.
LEMMA EndedNoDearer ==
    ASSUME NEW o, NEW E, NEW A, Known(o, E, A), NEW a \in DOMAIN A, A[a].open
    PROVE  NoDearer(A, Ended(A, a)) /\ Known(o, E, Ended(A, a))
<1> DEFINE B == Ended(A, a)
<1>1. A \in Seq(Attempt) /\ A[a].moved <= A[a].granted /\ A[a] \in Attempt
  BY DEF Known
<1>2. /\ B \in Seq(Attempt) /\ DOMAIN B = DOMAIN A /\ Len(B) = Len(A)
      /\ \A i \in DOMAIN A :
            /\ B[i] \in Attempt
            /\ i # a => B[i] = A[i]
            /\ B[i].src = A[i].src /\ B[i].kind = A[i].kind /\ B[i].at = A[i].at
            /\ B[i].moved = A[i].moved
      /\ ~B[a].open /\ Charge(B[a]) = A[a].moved
  BY <1>1, EndedFields
<1> HIDE DEF B
<1>3. ASSUME NEW i \in DOMAIN A PROVE Charge(B[i]) <= Charge(A[i])
  <2>1. A[i] \in Attempt /\ Charge(A[i]) \in Nat
    BY <1>1, AttemptFields
  <2>2. CASE i = a
    BY <1>1, <1>2, <2>2 DEF Charge
  <2>3. CASE i # a
    BY <1>2, <2>1, <2>3
  <2> QED
    BY <2>2, <2>3
<1>4. NoDearer(A, B)
  BY <1>2, <1>3 DEF NoDearer
<1>5. \A i \in DOMAIN B : B[i].open => i # a /\ B[i] = A[i]
  BY <1>2
<1>6. \A i \in DOMAIN B : B[i].open => B[i].moved <= B[i].granted
  BY <1>2, <1>5 DEF Known
<1>7. ASSUME NEW e \in E, e.kind = "reserved"
      PROVE  /\ B[e.id].src = e.src /\ B[e.id].at = e.at
             /\ B[e.id].open => B[e.id].granted = e.bytes
  <2>1. /\ e.id \in DOMAIN A /\ A[e.id].src = e.src /\ A[e.id].at = e.at
        /\ A[e.id].open => A[e.id].granted = e.bytes
    BY <1>7 DEF Known
  <2> QED
    BY <1>2, <1>5, <2>1
<1>8. Known(o, E, B)
  BY <1>2, <1>6, <1>7 DEF Known
<1> QED
  BY <1>4, <1>8 DEF B

\* Taking a reservation out when its attempt ends leaves at most what the
\* attempt moved uncovered.
LEMMA Released ==
    ASSUME NEW o, NEW E, NEW A, Known(o, E, A), Covered(o, E, A),
           NEW a \in DOMAIN A, A[a].open,
           NEW r \in E, r.kind = "reserved", r.id = a,
           NEW s \in Sources, NEW t \in Int, t >= o - Window
    PROVE  Weight(ChargeOf(Ended(A, a)), StartedAfter(Ended(A, a), s, t)) <=
              Weight(EntryBytes, After(E \ {r}, s, t))
                 + (IF r.src = s /\ r.at > t THEN A[a].moved ELSE 0)
<1> DEFINE B == Ended(A, a)
           S == StartedAfter(A, s, t)
           G == E \ {r}
<1>1. /\ A \in Seq(Attempt) /\ A[a] \in Attempt /\ ValidEntries(E) /\ r \in Entry
      /\ A[a].src = r.src /\ A[a].at = r.at /\ A[a].granted = r.bytes
  BY DEF Known, ValidEntries
<1>2. A[a].moved \in Nat /\ A[a].granted \in Nat /\ A[a].moved <= A[a].granted
  BY <1>1, AttemptFields DEF Known
<1>3. /\ B \in Seq(Attempt) /\ DOMAIN B = DOMAIN A
      /\ \A i \in DOMAIN A :
            /\ i # a => B[i] = A[i]
            /\ B[i].src = A[i].src /\ B[i].at = A[i].at
      /\ Charge(B[a]) = A[a].moved
  BY <1>1, EndedFields
<1> HIDE DEF B
<1>4. StartedAfter(B, s, t) = S /\ S \subseteq DOMAIN A
  BY <1>3 DEF StartedAfter
<1>5. /\ IsFiniteSet(S)
      /\ \A i \in S : ChargeOf(A)[i] = Charge(A[i]) /\ ChargeOf(A)[i] \in Nat
      /\ Weight(ChargeOf(A), S) \in Nat
  <2> HIDE DEF S
  <2> QED
    BY <1>1, <1>4, AttemptsFinite
<1>6. \A i \in S : ChargeOf(B)[i] = Charge(B[i]) /\ ChargeOf(B)[i] \in Nat
  <2> HIDE DEF S
  <2> QED
    BY <1>3, <1>4, AttemptsFinite
<1>7. \A i \in S \ {a} : ChargeOf(B)[i] = ChargeOf(A)[i]
  BY <1>3, <1>4, <1>5, <1>6
<1>8. Weight(ChargeOf(B), S \ {a}) = Weight(ChargeOf(A), S \ {a})
  <2> HIDE DEF S
  <2> QED
    BY <1>7, WeightSame
<1>9. Weight(ChargeOf(A), S) <= Weight(EntryBytes, After(E, s, t))
  BY DEF Covered
<1>10. /\ Weight(EntryBytes, After(E, s, t)) = Weight(EntryBytes, After(G, s, t)) + Share(r, s, t)
       /\ Weight(EntryBytes, After(G, s, t)) \in Nat
  <2>1. ValidEntries(G) /\ G \union {r} = E /\ \A e \in G : e.id # r.id
    BY <1>1 DEF ValidEntries
  <2> HIDE DEF G
  <2>2. Weight(EntryBytes, After(G \union {r}, s, t)) =
           Weight(EntryBytes, After(G, s, t)) + Share(r, s, t)
    BY <1>1, <2>1, AddedWeight
  <2> QED
    BY <2>1, <2>2, AfterFinite
<1>11. CASE r.src = s /\ r.at > t
  <2>1. a \in S
    BY <1>1, <1>11 DEF StartedAfter
  <2> HIDE DEF S, G
  <2>2. /\ Weight(ChargeOf(A), S) = ChargeOf(A)[a] + Weight(ChargeOf(A), S \ {a})
        /\ Weight(ChargeOf(A), S \ {a}) \in Nat
    BY <1>5, <2>1, WeightRemove
  <2>3. Weight(ChargeOf(B), S) = ChargeOf(B)[a] + Weight(ChargeOf(B), S \ {a})
    BY <1>5, <1>6, <2>1, WeightRemove
  <2>4. ChargeOf(A)[a] = r.bytes /\ ChargeOf(B)[a] = A[a].moved
    BY <1>1, <1>3, <1>5, <1>6, <2>1 DEF Charge
  <2>5. Share(r, s, t) = r.bytes /\ r.bytes \in Nat
    BY <1>1, <1>2, <1>11 DEF Share
  <2>6. Weight(ChargeOf(B), S) <= Weight(EntryBytes, After(G, s, t)) + A[a].moved
    BY <1>2, <1>8, <1>9, <1>10, <2>2, <2>3, <2>4, <2>5
  <2> QED
    BY <1>4, <1>11, <2>6 DEF B, G
<1>12. CASE ~(r.src = s /\ r.at > t)
  <2>1. S \ {a} = S
    BY <1>1, <1>12 DEF StartedAfter
  <2>2. Share(r, s, t) = 0
    BY <1>12 DEF Share
  <2> HIDE DEF S, G
  <2>3. Weight(ChargeOf(B), S) <= Weight(EntryBytes, After(G, s, t)) + 0
    BY <1>5, <1>8, <1>9, <1>10, <2>1, <2>2
  <2> QED
    BY <1>4, <1>12, <2>3 DEF B, G
<1> QED
  BY <1>11, <1>12

\* An attempt that moved nothing gives its whole reservation back.
LEMMA CancelStep ==
    ASSUME NEW o, NEW E, NEW A, Known(o, E, A), Covered(o, E, A),
           NEW a \in DOMAIN A, A[a].open, A[a].moved = 0,
           NEW r \in E, r.kind = "reserved", r.id = a,
           NEW q \in Times, q >= o
    PROVE  Known(q, E \ {r}, Ended(A, a)) /\ Covered(q, E \ {r}, Ended(A, a))
<1>1. Known(o, E, Ended(A, a))
  BY EndedNoDearer
<1>2. Known(o, E \ {r}, Ended(A, a)) /\ Known(q, E \ {r}, Ended(A, a))
  <2>1. o \in Times /\ o >= o
    BY Numbers DEF Known, Times
  <2> QED
    BY <1>1, <2>1, PartKnown
<1>3. ValidEntries(E \ {r})
  BY <1>2 DEF Known
<1>4. ASSUME NEW s \in Sources, NEW t \in Int, t >= o - Window
      PROVE  Weight(ChargeOf(Ended(A, a)), StartedAfter(Ended(A, a), s, t)) <=
                Weight(EntryBytes, After(E \ {r}, s, t))
  <2>1. Weight(ChargeOf(Ended(A, a)), StartedAfter(Ended(A, a), s, t)) <=
           Weight(EntryBytes, After(E \ {r}, s, t))
              + (IF r.src = s /\ r.at > t THEN A[a].moved ELSE 0)
    BY <1>4, Released
  <2>2. Weight(EntryBytes, After(E \ {r}, s, t)) \in Nat
    BY <1>3, AfterFinite
  <2> QED
    BY <2>1, <2>2
<1>5. Covered(o, E \ {r}, Ended(A, a))
  BY <1>4 DEF Covered
<1> QED
  BY <1>2, <1>5, LaterCovered

\* An attempt that moved something is charged with it, now or later.
LEMMA ChargeStep ==
    ASSUME NEW o, NEW E, NEW A, Known(o, E, A), Covered(o, E, A),
           NEW a \in DOMAIN A, A[a].open,
           NEW r \in E, r.kind = "reserved", r.id = a,
           NEW q \in Times, q >= o,
           NEW c \in Entry, c.id = a, c.src = r.src, c.bytes = A[a].moved,
           c.kind = "committed", c.at >= r.at, c.at <= q
    PROVE  LET F == (E \ {r}) \union {c} IN
           Known(q, F, Ended(A, a)) /\ Covered(q, F, Ended(A, a))
<1> DEFINE G == E \ {r}
           B == Ended(A, a)
<1>1. Known(o, E, B)
  BY EndedNoDearer
<1>2. Known(o, G, B) /\ Known(q, G, B)
  <2>1. o \in Times /\ o >= o
    BY Numbers DEF Known, Times
  <2> HIDE DEF B
  <2> QED
    BY <1>1, <2>1, PartKnown
<1>3. ValidEntries(G) /\ IsFiniteSet(E) /\ r \in Entry /\ ValidEntries(E)
  BY <1>2, ValidFinite DEF Known, ValidEntries
<1>4. \A e \in G : e.id # c.id
  BY <1>3 DEF ValidEntries
<1>5. Cardinality(G) < MaxEntries
  <2>1. Cardinality(G) = Cardinality(E) - 1 /\ Cardinality(E) \in Nat
    BY <1>3, FS_RemoveElement, FS_CardinalityType
  <2>2. Cardinality(E) <= MaxEntries
    BY DEF Known
  <2> QED
    BY <2>1, <2>2, Numbers
<1>6. Cardinality(Of(G, c.src)) < MaxPerSource
  <2>1. Of(G, c.src) = Of(E, c.src) \ {r} /\ r \in Of(E, c.src) /\ Of(E, c.src) \subseteq E
    BY DEF Of
  <2>2. IsFiniteSet(Of(E, c.src))
    BY <1>3, <2>1, ValidPart
  <2>3. /\ Cardinality(Of(E, c.src) \ {r}) = Cardinality(Of(E, c.src)) - 1
        /\ Cardinality(Of(E, c.src)) \in Nat
    BY <2>1, <2>2, FS_RemoveElement, FS_CardinalityType
  <2>4. Cardinality(Of(E, c.src)) <= MaxPerSource
    BY EntryFields DEF Known
  <2>5. Cardinality(Of(G, c.src)) = Cardinality(Of(E, c.src)) - 1
    BY <2>1, <2>3
  <2>6. MaxPerSource \in Nat
    BY Numbers
  <2> QED
    BY <2>3, <2>4, <2>5, <2>6
<1>7. c.id \in DOMAIN B
  BY EndedFields DEF Known
<1>8. Known(q, G \union {c}, B)
  <2> HIDE DEF G, B
  <2> QED
    BY <1>2, <1>4, <1>5, <1>6, <1>7, AddedKnown
<1>9. ASSUME NEW s \in Sources, NEW t \in Int, t >= o - Window
      PROVE  Weight(ChargeOf(B), StartedAfter(B, s, t)) <=
                Weight(EntryBytes, After(G \union {c}, s, t))
  <2>1. Weight(ChargeOf(B), StartedAfter(B, s, t)) <=
           Weight(EntryBytes, After(G, s, t)) + (IF r.src = s /\ r.at > t THEN A[a].moved ELSE 0)
    BY <1>9, Released
  <2>2. /\ StartedAfter(B, s, t) \subseteq DOMAIN B /\ B \in Seq(Attempt)
    BY <1>2 DEF StartedAfter, Known
  <2> HIDE DEF G, B
  <2>3. Weight(EntryBytes, After(G \union {c}, s, t)) =
           Weight(EntryBytes, After(G, s, t)) + Share(c, s, t)
    BY <1>3, <1>4, AddedWeight
  <2>4. Weight(EntryBytes, After(G, s, t)) \in Nat
    BY <1>3, AfterFinite
  <2>5. Weight(ChargeOf(B), StartedAfter(B, s, t)) \in Nat
    BY <2>2, AttemptsFinite
  <2>6. c.bytes \in Nat /\ c.at \in Nat /\ r.at \in Nat
    BY <1>3, EntryFields
  <2>7. CASE r.src = s /\ r.at > t
    <3>1. Share(c, s, t) = A[a].moved
      BY <2>6, <2>7 DEF Share
    <3> QED
      BY <2>1, <2>3, <2>7, <3>1
  <2>8. CASE ~(r.src = s /\ r.at > t)
    <3>1. Share(c, s, t) \in Nat
      BY <2>6 DEF Share
    <3> QED
      BY <2>1, <2>3, <2>4, <2>5, <2>8, <3>1
  <2> QED
    BY <2>7, <2>8
<1>10. Covered(o, G \union {c}, B)
  BY <1>9 DEF Covered
<1>11. Covered(q, G \union {c}, B)
  <2>1. o \in Nat /\ q \in Nat /\ Window \in Nat
    BY Numbers DEF Known, Times
  <2>2. \A t \in Int : t >= q - Window => t >= o - Window
    BY <2>1
  <2> HIDE DEF G, B
  <2> QED
    BY <1>10, <2>2 DEF Covered
<1> QED
  BY <1>8, <1>11

-----------------------------------------------------------------------------
(* Every action preserves the invariant. *)

\* The invariant holds of the empty ledger.
LEMMA InitInv == Init => Inv
<1> SUFFICES ASSUME Init PROVE Inv
  OBVIOUS
<1>1. ledger.observed = 0 /\ ledger.entries = {} /\ attempts = <<>>
  BY DEF Init
<1>2. ValidEntries({}) /\ 0 \in Times
  BY Numbers DEF ValidEntries, Times
<1>3. Cardinality({}) = 0 /\ \A s : Of({}, s) = {}
  BY FS_EmptySet DEF Of
<1>4. Known(0, {}, <<>>)
  BY <1>2, <1>3, Numbers DEF Known
<1>5. /\ \A s, t : StartedAfter(<<>>, s, t) = {} /\ After({}, s, t) = {}
      /\ \A s, K, t : StartedIn(<<>>, s, K, t) = {}
  BY DEF StartedAfter, After, StartedIn
<1> DEFINE none == <<>>
<1>6. Covered(0, {}, none)
  <2> SUFFICES ASSUME NEW s, NEW t
               PROVE  Weight(ChargeOf(none), StartedAfter(none, s, t))
                         <= Weight(EntryBytes, After({}, s, t))
    BY DEF Covered
  <2>1. Weight(ChargeOf(none), {}) = 0 /\ Weight(EntryBytes, {}) = 0
    BY WeightEmpty
  <2>2. StartedAfter(none, s, t) = {} /\ After({}, s, t) = {}
    BY <1>5
  <2> HIDE DEF none
  <2> QED
    BY <2>1, <2>2
<1>7. Bounded(none)
  <2> SUFFICES ASSUME NEW s, NEW t
               PROVE  /\ Weight(ChargeOf(none), StartedIn(none, s, Kinds \ Unlimited, t)) <= Hard
                      /\ Weight(ChargeOf(none), StartedIn(none, s, {"bulk"}, t)) <= Soft
    BY DEF Bounded
  <2>1. Weight(ChargeOf(none), {}) = 0
    BY WeightEmpty
  <2>2. \A K : StartedIn(none, s, K, t) = {}
    BY <1>5
  <2>3. 0 <= Hard /\ 0 <= Soft
    BY Numbers
  <2> HIDE DEF none
  <2> QED
    BY <2>1, <2>2, <2>3
<1> QED
  BY <1>1, <1>4, <1>6, <1>7 DEF Inv

\* A grant fits in what the limit of its kind leaves, and in the ledger.
LEMMA GrantFits ==
    ASSUME NEW M, ValidEntries(M.entries), NEW s, NEW kind, NEW q \in Nat,
           Grant(M, s, kind, q) # 0
    PROVE  /\ Grant(M, s, kind, q) \in Nat \ {0}
           /\ kind \notin Unlimited =>
                 Rolling(M, s) + Grant(M, s, kind, q) <= LimitOf(kind)
           /\ ~(Cardinality(M.entries) >= MaxEntries)
           /\ ~(Cardinality(Of(M.entries, s)) >= MaxPerSource)
<1> DEFINE room  == LimitOf(kind) - Rolling(M, s)
           grant == IF kind \in Unlimited \/ q <= room THEN q ELSE room
           least == IF kind = "probe" THEN ProbeBytes ELSE MinGrant
           full  == \/ Cardinality(M.entries) >= MaxEntries
                    \/ Cardinality(Of(M.entries, s)) >= MaxPerSource
<1>1. Grant(M, s, kind, q) = IF full \/ grant < least THEN 0 ELSE grant
  BY DEF Grant
<1>2. ~full /\ ~(grant < least) /\ Grant(M, s, kind, q) = grant
  BY <1>1
<1>3. Rolling(M, s) \in Nat /\ LimitOf(kind) \in Nat /\ least \in Nat \ {0}
  BY RollingWeight, Numbers DEF Rolling, LimitOf
<1>4. room \in Int /\ grant \in Int
  BY <1>3
<1>5. grant >= least
  <2> HIDE DEF grant, least
  <2> QED
    BY <1>2, <1>3, <1>4
<1>6. grant \in Nat \ {0}
  <2> HIDE DEF grant, least
  <2> QED
    BY <1>3, <1>4, <1>5
<1>7. kind \notin Unlimited => grant <= room
  BY <1>3
<1> HIDE DEF grant, full
<1>8. kind \notin Unlimited => Rolling(M, s) + grant <= LimitOf(kind)
  BY <1>3, <1>4, <1>7
<1> QED
  BY <1>2, <1>6, <1>8 DEF full

\* begin_attempt_inner
LEMMA BeginInv ==
    ASSUME Inv, NEW s \in Sources, NEW kind \in Kinds,
           NEW q \in Requests \union {ProbeBytes}, NEW now \in Times,
           Begin(s, kind, q, now)
    PROVE  Inv'
<1> DEFINE o == ledger.observed
           E == {e \in ledger.entries : e.at > now - Window}
           F == Merged(E)
           M == [[observed |-> now, entries |-> E] EXCEPT !.entries = Merged(@)]
           g == Grant(M, s, kind, q)
           x == [src |-> s, kind |-> kind, at |-> now, granted |-> g, moved |-> 0,
                 open |-> TRUE]
           c == [id |-> Len(attempts) + 1, src |-> s, at |-> now, bytes |-> g,
                 kind |-> "reserved"]
<1>1. /\ ~ClockAnomaly(ledger, now)
      /\ \/ g = 0 /\ ledger' = M /\ attempts' = attempts
         \/ /\ g # 0 /\ Len(attempts) + 1 <= MaxAttempts
            /\ ledger' = [M EXCEPT !.entries = @ \union {c}]
            /\ attempts' = Append(attempts, x)
  BY DEF Begin, Pruned
<1>2. /\ Known(o, ledger.entries, attempts) /\ Covered(o, ledger.entries, attempts)
      /\ Bounded(attempts) /\ o \in Nat /\ now \in Nat /\ attempts \in Seq(Attempt)
  BY Numbers DEF Inv, Known, Times
<1>3. now >= o
  BY <1>1, <1>2 DEF ClockAnomaly
<1>4. Known(now, E, attempts) /\ Covered(now, E, attempts)
  BY <1>2, <1>3, PruneStep
<1>5. M.observed = now /\ M.entries = F
  OBVIOUS
<1> HIDE DEF E
<1>6. Known(now, F, attempts) /\ Covered(now, F, attempts)
  BY <1>4, MergeStep
<1>7. CASE ledger' = M /\ attempts' = attempts
  BY <1>2, <1>5, <1>6, <1>7 DEF Inv
<1>8. CASE /\ g # 0 /\ Len(attempts) + 1 <= MaxAttempts
           /\ ledger' = [M EXCEPT !.entries = @ \union {c}]
           /\ attempts' = Append(attempts, x)
  <2>1. ledger'.observed = now /\ ledger'.entries = F \union {c}
    BY <1>8
  <2>2. q \in Nat /\ ValidEntries(F)
    BY <1>6, Numbers DEF Known
  <2>3. /\ g \in Nat \ {0}
        /\ kind \notin Unlimited => Rolling(M, s) + g <= LimitOf(kind)
        /\ ~(Cardinality(F) >= MaxEntries)
        /\ ~(Cardinality(Of(F, s)) >= MaxPerSource)
    <3> HIDE DEF M
    <3> QED
      BY <1>5, <1>8, <2>2, GrantFits
  <2>4. Rolling(M, s) = Bytes(Of(F, s))
    BY <1>5 DEF Rolling
  <2> HIDE DEF M, g, F
  <2>5. x \in Attempt /\ c \in Entry
    <3>1. Len(attempts) + 1 \in 1..MaxAttempts
      BY <1>2, <1>8, Numbers
    <3> QED
      BY <2>3, <3>1 DEF Attempt, Entry
  <2>6. Cardinality(F) < MaxEntries /\ Cardinality(Of(F, s)) < MaxPerSource
    <3>1. IsFiniteSet(F) /\ IsFiniteSet(Of(F, s))
      BY <2>2, ValidFinite, ValidPart DEF Of
    <3>2. Cardinality(F) \in Nat /\ Cardinality(Of(F, s)) \in Nat
      BY <3>1, FS_CardinalityType
    <3> QED
      BY <2>3, <3>2, Numbers
  <2>7. Known(now, F \union {c}, Append(attempts, x)) /\ Covered(now, F \union {c}, Append(attempts, x))
    <3>1. /\ x.open /\ x.at = now /\ x.moved = 0 /\ x.granted > 0 /\ x.src = s
          /\ c.id = Len(attempts) + 1 /\ c.src = x.src /\ c.at = now
          /\ c.bytes = x.granted /\ c.kind = "reserved"
      BY <2>3
    <3> HIDE DEF x, c
    <3> QED
      BY <1>6, <1>8, <2>5, <2>6, <3>1, BeginStep
  <2>8. kind \notin Unlimited =>
           Weight(ChargeOf(attempts), StartedAfter(attempts, s, now - Window)) + g <= LimitOf(kind)
    <3> DEFINE t == now - Window
               S == StartedAfter(attempts, s, t)
    <3>1. t \in Int /\ t >= now - Window
      BY <1>2, Numbers
    <3>2. Weight(ChargeOf(attempts), S) <= Weight(EntryBytes, After(F, s, t))
      BY <1>6, <3>1 DEF Covered
    <3>3. Weight(EntryBytes, After(F, s, t)) <= Bytes(Of(F, s))
      <4>1. After(F, s, t) \subseteq Of(F, s)
        BY DEF After, Of
      <4>2. IsFiniteSet(Of(F, s)) /\ Of(F, s) \subseteq Entry
        BY <2>2, ValidPart DEF Of, ValidEntries
      <4>3. \A e \in Of(F, s) : EntryBytes[e] \in Nat
        BY <4>2, EntryWeights
      <4>4. \A e \in Of(F, s) : EntryBytes[e] \in Nat /\ EntryBytes[e] <= EntryBytes[e]
        BY <4>3
      <4>5. Weight(EntryBytes, After(F, s, t)) <= Weight(EntryBytes, Of(F, s))
        <5> HIDE DEF t
        <5> QED
          BY <4>1, <4>2, <4>4, WeightMonotone
      <4> QED
        BY <2>2, <4>5, RollingWeight
    <3>4. /\ Weight(ChargeOf(attempts), S) \in Nat
          /\ Weight(EntryBytes, After(F, s, t)) \in Nat
          /\ Bytes(Of(F, s)) \in Nat
      <4>1. S \subseteq DOMAIN attempts
        BY DEF StartedAfter
      <4> HIDE DEF S, t
      <4> QED
        BY <1>2, <2>2, <4>1, AttemptsFinite, AfterFinite, RollingWeight
    <3>5. LimitOf(kind) \in Nat
      BY Numbers DEF LimitOf
    <3>6. ASSUME kind \notin Unlimited
          PROVE  Weight(ChargeOf(attempts), S) + g <= LimitOf(kind)
      <4>1. Bytes(Of(F, s)) + g <= LimitOf(kind)
        BY <2>3, <2>4, <3>6
      <4> HIDE DEF S, t
      <4> QED
        BY <2>3, <3>2, <3>3, <3>4, <3>5, <4>1
    <3> QED
      BY <3>6
  <2>9. Bounded(Append(attempts, x))
    <3>1. x.src = s /\ x.kind = kind /\ x.at = now /\ Charge(x) = g
      BY DEF Charge
    <3> HIDE DEF x
    <3> QED
      BY <1>2, <2>5, <2>8, <3>1, BeginBounded
  <2> QED
    BY <1>8, <2>1, <2>7, <2>9 DEF Inv
<1> QED
  BY <1>1, <1>7, <1>8

\* usage and check
LEMMA ObserveInv ==
    ASSUME Inv, NEW now \in Times, Observe(now)
    PROVE  Inv'
<1>1. /\ Known(ledger.observed, ledger.entries, attempts)
      /\ Covered(ledger.observed, ledger.entries, attempts)
      /\ Bounded(attempts) /\ ledger.observed \in Nat /\ now \in Nat
  BY Numbers DEF Inv, Known, Times
<1>2. now >= ledger.observed
  BY <1>1 DEF Observe, ClockAnomaly
<1>3. /\ ledger'.observed = now /\ attempts' = attempts
      /\ ledger'.entries = {e \in ledger.entries : e.at > now - Window}
  BY DEF Observe, Pruned
<1>4. LET F == {e \in ledger.entries : e.at > now - Window} IN
      Known(now, F, attempts) /\ Covered(now, F, attempts)
  BY <1>1, <1>2, PruneStep
<1> QED
  BY <1>1, <1>3, <1>4 DEF Inv

\* A failure, a refused settlement or a crash: the reservation stays.
LEMMA FailInv ==
    ASSUME Inv, NEW a \in DOMAIN attempts, Fail(a)
    PROVE  Inv'
<1>1. /\ Known(ledger.observed, ledger.entries, attempts)
      /\ Covered(ledger.observed, ledger.entries, attempts)
      /\ Bounded(attempts) /\ attempts \in Seq(Attempt)
  BY DEF Inv, Known
<1>2. attempts[a].open /\ ledger' = ledger /\ attempts' = Ended(attempts, a)
  BY DEF Fail, Close, Ended
<1>3. /\ NoDearer(attempts, Ended(attempts, a))
      /\ Known(ledger.observed, ledger.entries, Ended(attempts, a))
  BY <1>1, <1>2, EndedNoDearer
<1>4. /\ Bounded(Ended(attempts, a))
      /\ Covered(ledger.observed, ledger.entries, Ended(attempts, a))
  BY <1>1, <1>3, NoDearerBounded, NoDearerCovered
<1> QED
  BY <1>2, <1>3, <1>4 DEF Inv

\* An open attempt is charged with its grant whatever it moves.
LEMMA TransferInv ==
    ASSUME Inv, NEW a \in DOMAIN attempts, NEW b \in 1..attempts[a].granted, Transfer(a, b)
    PROVE  Inv'
<1> DEFINE B == attempts'
           x == [attempts[a] EXCEPT !.moved = b]
<1>1. /\ Known(ledger.observed, ledger.entries, attempts)
      /\ Covered(ledger.observed, ledger.entries, attempts)
      /\ Bounded(attempts) /\ attempts \in Seq(Attempt) /\ attempts[a] \in Attempt
  BY DEF Inv, Known
<1>2. /\ attempts[a].open /\ ledger' = ledger
      /\ attempts' = [attempts EXCEPT ![a] = x]
  BY DEF Transfer
<1>3. b \in Nat /\ b <= attempts[a].granted
  BY <1>1, AttemptFields
<1>4. /\ x \in Attempt /\ x.src = attempts[a].src /\ x.kind = attempts[a].kind
      /\ x.at = attempts[a].at /\ x.granted = attempts[a].granted /\ x.moved = b
      /\ x.open = attempts[a].open
  BY <1>1, <1>3 DEF Attempt
<1> HIDE DEF x
<1>5. /\ B \in Seq(Attempt) /\ DOMAIN B = DOMAIN attempts /\ Len(B) = Len(attempts)
      /\ B[a] = x /\ \A i \in DOMAIN attempts : i # a => B[i] = attempts[i]
  BY <1>1, <1>2, <1>4
<1>6. \A i \in DOMAIN attempts :
         /\ B[i].src = attempts[i].src /\ B[i].kind = attempts[i].kind
         /\ B[i].at = attempts[i].at /\ B[i].granted = attempts[i].granted
         /\ B[i].open = attempts[i].open
  BY <1>4, <1>5
<1>7. ASSUME NEW i \in DOMAIN attempts
      PROVE  /\ Charge(B[i]) <= Charge(attempts[i])
             /\ B[i].open => B[i].moved <= B[i].granted
  <2>1. Charge(attempts[i]) \in Nat
    BY <1>1, AttemptFields
  <2>2. CASE i = a
    <3>1. Charge(B[a]) = attempts[a].granted /\ Charge(attempts[a]) = attempts[a].granted
      BY <1>2, <1>4, <1>5 DEF Charge
    <3>2. B[a].moved = b /\ B[a].granted = attempts[a].granted
      BY <1>4, <1>5
    <3> QED
      BY <1>3, <2>1, <2>2, <3>1, <3>2
  <2>3. CASE i # a
    BY <1>1, <1>5, <2>1, <2>3 DEF Known
  <2> QED
    BY <2>2, <2>3
<1> HIDE DEF B
<1>8. NoDearer(attempts, B)
  BY <1>5, <1>6, <1>7 DEF NoDearer
<1>9. Known(ledger.observed, ledger.entries, B)
  <2>1. ASSUME NEW e \in ledger.entries, e.kind = "reserved"
        PROVE  /\ B[e.id].src = e.src /\ B[e.id].at = e.at
               /\ B[e.id].open => B[e.id].granted = e.bytes
    <3>1. /\ e.id \in DOMAIN attempts /\ attempts[e.id].src = e.src
          /\ attempts[e.id].at = e.at
          /\ attempts[e.id].open => attempts[e.id].granted = e.bytes
      BY <1>1, <2>1 DEF Known
    <3> QED
      BY <1>6, <3>1
  <2> QED
    BY <1>1, <1>5, <1>7, <2>1 DEF Known
<1>10. Bounded(B) /\ Covered(ledger.observed, ledger.entries, B)
  BY <1>1, <1>8, NoDearerBounded, NoDearerCovered
<1> QED
  BY <1>2, <1>9, <1>10 DEF Inv, B

\* Identifiers are unique, so an attempt has one reservation at most.
LEMMA OneReservation ==
    ASSUME Inv, NEW a, Reservation(a) # {}
    PROVE  \E r \in ledger.entries : r.kind = "reserved" /\ r.id = a /\ Reservation(a) = {r}
<1>1. PICK r \in ledger.entries : r.kind = "reserved" /\ r.id = a
  BY DEF Reservation
<1>2. \A e \in ledger.entries : e.id = a => e = r
  BY <1>1 DEF Inv, Known, ValidEntries
<1>3. Reservation(a) = {r}
  BY <1>1, <1>2 DEF Reservation
<1> QED
  BY <1>1, <1>3

\* The times an end of an attempt at now observes and dates its charge with.
LEMMA EndTimes ==
    ASSUME Inv, NEW a \in DOMAIN attempts, NEW now \in Times
    PROVE  LET at == Later(now, attempts[a].at)
               q  == Later(ledger.observed, at)
           IN  /\ at \in Times /\ at \in Nat /\ at >= attempts[a].at
               /\ q \in Times /\ q >= ledger.observed /\ at <= q
<1>1. attempts[a] \in Attempt /\ ledger.observed \in Times
  BY DEF Inv, Known
<1>2. attempts[a].at \in Times
  BY <1>1, AttemptFields
<1> QED
  BY <1>1, <1>2, Numbers DEF Later, Times

\* cancel_attempt
LEMMA CancelInv ==
    ASSUME Inv, NEW a \in DOMAIN attempts, NEW now \in Times, Cancel(a, now)
    PROVE  Inv'
<1> DEFINE q == Later(ledger.observed, Later(now, attempts[a].at))
<1>1. /\ Known(ledger.observed, ledger.entries, attempts)
      /\ Covered(ledger.observed, ledger.entries, attempts)
      /\ Bounded(attempts) /\ attempts \in Seq(Attempt)
  BY DEF Inv, Known
<1>2. /\ attempts[a].open /\ attempts[a].moved = 0 /\ Reservation(a) # {}
      /\ ledger' = [observed |-> q, entries |-> ledger.entries \ Reservation(a)]
      /\ attempts' = Ended(attempts, a)
  BY DEF Cancel, Close, Ended
<1>3. PICK r \in ledger.entries : r.kind = "reserved" /\ r.id = a /\ Reservation(a) = {r}
  BY <1>2, OneReservation
<1>4. q \in Times /\ q >= ledger.observed
  BY EndTimes
<1> HIDE DEF q
<1>5. /\ Known(q, ledger.entries \ {r}, Ended(attempts, a))
      /\ Covered(q, ledger.entries \ {r}, Ended(attempts, a))
  BY <1>1, <1>2, <1>3, <1>4, CancelStep
<1>6. Bounded(Ended(attempts, a))
  BY <1>1, <1>2, EndedNoDearer, NoDearerBounded
<1>7. ledger'.observed = q /\ ledger'.entries = ledger.entries \ {r}
  BY <1>2, <1>3
<1> QED
  BY <1>2, <1>5, <1>6, <1>7 DEF Inv

\* complete_attempt
LEMMA SettleInv ==
    ASSUME Inv, NEW a \in DOMAIN attempts, NEW now \in Times, Settle(a, now)
    PROVE  Inv'
<1> DEFINE at == Later(now, attempts[a].at)
           q  == Later(ledger.observed, at)
           m  == attempts[a].moved
           X  == {[e EXCEPT !.at = at, !.bytes = m, !.kind = "committed"] :
                     e \in {r \in Reservation(a) : m > 0}}
           F  == (ledger.entries \ Reservation(a)) \union X
<1>1. /\ Known(ledger.observed, ledger.entries, attempts)
      /\ Covered(ledger.observed, ledger.entries, attempts)
      /\ Bounded(attempts) /\ attempts \in Seq(Attempt) /\ attempts[a] \in Attempt
  BY DEF Inv, Known
<1>2. /\ attempts[a].open /\ Reservation(a) # {}
      /\ ledger' = [observed |-> q, entries |-> Merged(F)]
      /\ attempts' = Ended(attempts, a)
  BY DEF Settle, Close, Ended
<1>3. PICK r \in ledger.entries : r.kind = "reserved" /\ r.id = a /\ Reservation(a) = {r}
  BY <1>2, OneReservation
<1>4. /\ at \in Times /\ at \in Nat /\ at >= attempts[a].at
      /\ q \in Times /\ q >= ledger.observed /\ at <= q
  BY EndTimes
<1>5. m \in Nat /\ r \in Entry /\ attempts[a].at = r.at
  BY <1>1, <1>3, AttemptFields DEF Known, ValidEntries
<1>6. Known(q, F, Ended(attempts, a)) /\ Covered(q, F, Ended(attempts, a))
  <2>1. CASE m = 0
    <3>1. F = ledger.entries \ {r}
      BY <1>3, <2>1
    <3> HIDE DEF F, q
    <3> QED
      BY <1>1, <1>2, <1>3, <1>4, <2>1, <3>1, CancelStep
  <2>2. CASE m > 0
    <3> DEFINE c == [r EXCEPT !.at = at, !.bytes = m, !.kind = "committed"]
    <3>1. X = {c}
      BY <1>3, <2>2
    <3>2. F = (ledger.entries \ {r}) \union {c}
      BY <1>3, <3>1
    <3> HIDE DEF F, X, q, at, m
    <3>3. /\ c \in Entry /\ c.id = a /\ c.src = r.src /\ c.bytes = m
          /\ c.kind = "committed" /\ c.at = at
      <4>1. m \in Nat \ {0}
        BY <1>5, <2>2
      <4>2. r \in Entry /\ at \in Times /\ r.id = a
        BY <1>3, <1>4, <1>5
      <4>3. c = [r EXCEPT !.at = at, !.bytes = m, !.kind = "committed"]
        OBVIOUS
      <4> HIDE DEF c
      <4> QED
        BY <4>1, <4>2, <4>3 DEF Entry
    <3>4. c.at >= r.at /\ c.at <= q
      BY <1>4, <1>5, <3>3
    <3> HIDE DEF c
    <3>5. LET H == (ledger.entries \ {r}) \union {c} IN
          Known(q, H, Ended(attempts, a)) /\ Covered(q, H, Ended(attempts, a))
      BY <1>1, <1>2, <1>3, <1>4, <3>3, <3>4, ChargeStep DEF m
    <3> QED
      BY <3>2, <3>5
  <2> HIDE DEF F, q, m
  <2> QED
    BY <1>5, <2>1, <2>2
<1> HIDE DEF F, q
<1>7. Known(q, Merged(F), Ended(attempts, a)) /\ Covered(q, Merged(F), Ended(attempts, a))
  BY <1>6, MergeStep
<1>8. Bounded(Ended(attempts, a))
  BY <1>1, <1>2, EndedNoDearer, NoDearerBounded
<1>9. ledger'.observed = q /\ ledger'.entries = Merged(F)
  BY <1>2
<1> QED
  BY <1>2, <1>7, <1>8, <1>9 DEF Inv

\* Every step preserves the invariant.
LEMMA NextInv == Inv /\ [Next]_vars => Inv'
<1> SUFFICES ASSUME Inv, [Next]_vars PROVE Inv'
  OBVIOUS
<1>1. CASE UNCHANGED vars
  BY <1>1 DEF Inv, vars
<1>2. CASE Next
  BY <1>2, BeginInv, TransferInv, SettleInv, CancelInv, FailInv, ObserveInv DEF Next
<1> QED
  BY <1>1, <1>2

\* The invariant holds of every reachable ledger.
LEMMA Inductive == Spec => []Inv
BY InitInv, NextInv, PTL DEF Spec

\* Whatever the limits, and however attempts, failures and readings of the clock
\* interleave, the ledger that an operation writes is one that validate accepts.
THEOREM LedgerStaysValid == Spec => []LedgerValid
BY Inductive, InvValid, PTL

\* No byte moved in the last window is missing from the ledger of its source.
THEOREM LedgerCoversTraffic == Spec => []LedgerCovers
BY Inductive, InvCovers, PTL

\* The attempts started within any one window move no more than the limits.
THEOREM BudgetIsKept == Spec => []WindowBounded
BY Inductive, InvBounded, PTL

\* A paused source is told the first time at which it is below its limit.
THEOREM ResumeTimeIsFirst == Spec => []ResumeIsFirst
BY Inductive, InvResume, PTL

=============================================================================
