--------------------------- MODULE BandwidthLedger ---------------------------
(***************************************************************************)
(* The rolling bandwidth budget of each source (remote_bandwidth_budget.rs *)
(* and its callers in remote_sync_attempt.rs, automatic_remote_sync.rs and *)
(* cli.rs).  An attempt reserves its whole allowance before SSH starts and *)
(* is settled to what it really cost afterwards; an attempt that fails or  *)
(* whose process dies leaves its reservation charged until it expires.     *)
(*                                                                         *)
(* Every operation reads the file, works on a copy and replaces the file   *)
(* under one exclusive lock, so it is one action; attempts of several      *)
(* processes interleave between them.  Each operation reads the wall       *)
(* clock, which may have been set to anything.                             *)
(***************************************************************************)
EXTENDS Integers, Sequences, FiniteSetsExt

CONSTANTS
    Sources,        \* the sources, by node identifier
    Window,         \* REMOTE_BANDWIDTH_WINDOW_HOURS
    Minute,         \* the length of a merge bucket
    Soft,           \* REMOTE_BANDWIDTH_SOFT_LIMIT_BYTES
    Hard,           \* REMOTE_BANDWIDTH_HARD_LIMIT_BYTES
    Requests,       \* what ordinary attempts ask for, transport included
    MinGrant,       \* the smallest useful grant of such an attempt
    ProbeBytes,     \* the fixed size of a probe
    MaxPerSource,   \* MAX_ENTRIES_PER_SOURCE
    MaxEntries,     \* MAX_LEDGER_ENTRIES
    MaxTime,        \* bound: readings of the clock
    MaxAttempts     \* bound: attempts admitted

ASSUME BudgetAssumption ==
    /\ {Window, Minute, Hard, Soft, MinGrant, ProbeBytes} \subseteq Nat \ {0}
    /\ Requests \subseteq Nat /\ \A q \in Requests : q >= MinGrant
    /\ {MaxPerSource, MaxEntries, MaxTime, MaxAttempts} \subseteq Nat

VARIABLES
    ledger,     \* the file: [observed, entries]
    attempts    \* every attempt admitted so far, with what it really moved

vars == <<ledger, attempts>>

\* RemoteBandwidthTransferKind; "plain" is an automatic increment or a manual
\* sync, which the ledger treats alike.
Kinds     == {"bulk", "plain", "override", "probe"}
Unlimited == {"override", "probe"}
Times     == 0..MaxTime

\* LedgerEntry: id names the attempt a reservation belongs to.
Entry ==
    [id : 1..MaxAttempts, src : Sources, at : Times, bytes : Nat \ {0},
     kind : {"reserved", "committed"}]

Attempt ==
    [src : Sources, kind : Kinds, at : Times, granted : Nat, moved : Nat,
     open : BOOLEAN]

Init ==
    /\ ledger = [observed |-> 0, entries |-> {}]
    /\ attempts = <<>>

Bytes(E)      == MapThenSumSet(LAMBDA e : e.bytes, E)
Of(E, s)      == {e \in E : e.src = s}
Rolling(L, s) == Bytes(Of(L.entries, s))

-----------------------------------------------------------------------------
(* The ledger. *)

\* Slip: only the entries are compared with the clock.
EntriesAhead(L, now) == \E e \in L.entries : e.at > now

\* clock_anomaly_at: the file knows a later time than the clock shows.
ClockAnomaly(L, now) == L.observed > now \/ \E e \in L.entries : e.at > now

\* advance_clock_and_prune
Pruned(L, now) ==
    [observed |-> now, entries |-> {e \in L.entries : e.at > now - Window}]

First(E) ==
    CHOOSE e \in E : \A f \in E : e.at < f.at \/ (e.at = f.at /\ e.id <= f.id)

\* The committed charges of one source and minute.
MinuteOf(e, E) ==
    {f \in E : f.kind = "committed" /\ f.src = e.src /\ f.at \div Minute = e.at \div Minute}

\* Slip: a merged charge keeps the time of its first part.
MergedEarly(E) ==
    {e \in E : e.kind = "reserved"} \union
    {[First(MinuteOf(e, E)) EXCEPT !.bytes = Bytes(MinuteOf(e, E))] :
        e \in {f \in E : f.kind = "committed"}}

\* merge_committed_minute_buckets: one charge, dated at its latest part.
Merged(E) ==
    {e \in E : e.kind = "reserved"} \union
    {[First(MinuteOf(e, E)) EXCEPT
        !.bytes = Bytes(MinuteOf(e, E)),
        !.at    = Max({f.at : f \in MinuteOf(e, E)})] :
        e \in {f \in E : f.kind = "committed"}}

\* Slip: a charge that brings the sum down to the threshold is enough.
ResumeAtLimit(L, s, limit) ==
    LET left(t) == Bytes({e \in Of(L.entries, s) : e.at > t})
        at == {e.at : e \in {f \in Of(L.entries, s) : left(f.at) <= limit}}
    IN  IF at = {} THEN {} ELSE {Min(at) + Window}

\* resume_below: the first expiry that brings the sum below a limit, if any.
ResumeBelow(L, s, limit) ==
    LET left(t) == Bytes({e \in Of(L.entries, s) : e.at > t})
        at == {e.at : e \in {f \in Of(L.entries, s) : left(f.at) < limit}}
    IN  IF at = {} THEN {} ELSE {Min(at) + Window}

LimitOf(kind) == IF kind = "bulk" /\ Soft < Hard THEN Soft ELSE Hard

\* How much of a request is granted, 0 for a pause.
Grant(L, s, kind, requested) ==
    LET room  == LimitOf(kind) - Rolling(L, s)
        grant == IF kind \in Unlimited \/ requested <= room THEN requested ELSE room
        least == IF kind = "probe" THEN ProbeBytes ELSE MinGrant
        full  == \/ Cardinality(L.entries) >= MaxEntries
                 \/ Cardinality(Of(L.entries, s)) >= MaxPerSource
    IN  IF full \/ grant < least THEN 0 ELSE grant

-----------------------------------------------------------------------------
(* Its operations. *)

\* begin_attempt_inner: a pause leaves the pruned and merged ledger.
Begin(s, kind, requested, now) ==
    LET L == Pruned(ledger, now)
        M == [L EXCEPT !.entries = Merged(@)]
        g == Grant(M, s, kind, requested)
        n == Len(attempts) + 1
    IN
    /\ ~ClockAnomaly(ledger, now)
    /\ kind = "probe" <=> requested = ProbeBytes
    /\ \/ /\ g = 0
          /\ ledger' = M
          /\ UNCHANGED attempts
       \/ /\ g > 0
          /\ n <= MaxAttempts
          /\ ledger' = [M EXCEPT !.entries = @ \union
                {[id |-> n, src |-> s, at |-> now, bytes |-> g, kind |-> "reserved"]}]
          /\ attempts' = Append(attempts,
                [src |-> s, kind |-> kind, at |-> now, granted |-> g, moved |-> 0,
                 open |-> TRUE])

\* The exchanges of an attempt, which is given its grant as a limit.
Transfer(a, b) ==
    /\ attempts[a].open
    /\ attempts[a].moved = 0
    /\ attempts' = [attempts EXCEPT ![a].moved = b]
    /\ UNCHANGED ledger

\* find_reservation
Reservation(a) == {e \in ledger.entries : e.kind = "reserved" /\ e.id = a}

Later(s, t) == IF s < t THEN t ELSE s

Close(a) == attempts' = [attempts EXCEPT ![a].open = FALSE, ![a].granted = 0]

\* Slip: the time of the last completion replaces the one observed.
SettleObserved(a, now) ==
    LET at == Later(now, attempts[a].at) IN
    /\ attempts[a].open
    /\ Reservation(a) # {}
    /\ ledger' =
          [observed |-> at,
           entries  |-> Merged((ledger.entries \ Reservation(a)) \union
              {[e EXCEPT !.at = at, !.bytes = attempts[a].moved, !.kind = "committed"] :
                  e \in {r \in Reservation(a) : attempts[a].moved > 0}})]
    /\ Close(a)

\* complete_attempt after a success: the reservation becomes a charge of what
\* was moved, dated now but not before the attempt.
Settle(a, now) ==
    LET at == Later(now, attempts[a].at) IN
    /\ attempts[a].open
    /\ Reservation(a) # {}
    /\ ledger' =
          [observed |-> Later(ledger.observed, at),
           entries  |-> Merged((ledger.entries \ Reservation(a)) \union
              {[e EXCEPT !.at = at, !.bytes = attempts[a].moved, !.kind = "committed"] :
                  e \in {r \in Reservation(a) : attempts[a].moved > 0}})]
    /\ Close(a)

\* cancel_attempt, when the error proves that no transport was started.
Cancel(a, now) ==
    /\ attempts[a].open
    /\ attempts[a].moved = 0
    /\ Reservation(a) # {}
    /\ ledger' =
          [observed |-> Later(ledger.observed, Later(now, attempts[a].at)),
           entries  |-> ledger.entries \ Reservation(a)]
    /\ Close(a)

\* The attempt fails after its transport was started, its settlement is
\* refused, or its process dies: the reservation stays.
Fail(a) ==
    /\ attempts[a].open
    /\ Close(a)
    /\ UNCHANGED ledger

\* usage and check, for a status report.
Observe(now) ==
    /\ ~ClockAnomaly(ledger, now)
    /\ ledger' = Pruned(ledger, now)
    /\ UNCHANGED attempts

Next ==
    \/ \E s \in Sources, kind \in Kinds, q \in Requests \union {ProbeBytes}, now \in Times :
          Begin(s, kind, q, now)
    \/ \E a \in DOMAIN attempts :
          \/ \E b \in 1..attempts[a].granted : Transfer(a, b)
          \/ \E now \in Times : Settle(a, now) \/ Cancel(a, now)
          \/ Fail(a)
    \/ \E now \in Times : Observe(now)

Spec == Init /\ [][Next]_vars

-----------------------------------------------------------------------------

\* The ledger is one its own validation accepts (validate), so no operation is
\* ever refused by it: nothing in it is later than the observed time, and
\* neither the source nor the file has more entries than its limit.
LedgerValid ==
    /\ ledger.observed \in Times
    /\ ledger.entries \subseteq Entry
    /\ attempts \in Seq(Attempt)
    /\ \A e \in ledger.entries : e.at <= ledger.observed
    /\ \A e, f \in ledger.entries : e.id = f.id => e = f
    /\ Cardinality(ledger.entries) <= MaxEntries
    /\ \A s \in Sources : Cardinality(Of(ledger.entries, s)) <= MaxPerSource

Moved(A) == MapThenSumSet(LAMBDA a : attempts[a].moved, A)

\* The bytes of every attempt are in the ledger for a whole window, whatever
\* failed, died, was settled out of order or was merged with others.
LedgerCovers ==
    \A s \in Sources :
        Moved({a \in DOMAIN attempts :
                  attempts[a].src = s /\ attempts[a].at > ledger.observed - Window})
            <= Rolling(ledger, s)

\* The attempts that start within one window of the wall clock move no more
\* than the hard limit, and bulk attempts no more than the soft one, however
\* many processes ask at once and however the clock is set.  Overrides and
\* probes do not count, as the user or the probe's fixed size allows them.
WindowBounded ==
    \A s \in Sources, t \in Times :
        LET started(K) ==
                {a \in DOMAIN attempts : /\ attempts[a].src = s
                                         /\ attempts[a].kind \in K
                                         /\ attempts[a].at \in t - Window + 1..t}
        IN  /\ Moved(started(Kinds \ Unlimited)) <= Hard
            /\ Moved(started({"bulk"})) <= Soft

\* The time a paused source is told to resume at (resume_below) is the first at
\* which its sum is below the limit, if nothing else happens.
ResumeIsFirst ==
    \A s \in Sources, limit \in {Soft, Hard} :
        Rolling(ledger, s) >= limit =>
            \E r \in ResumeBelow(ledger, s, limit) :
                /\ Rolling(Pruned(ledger, r), s) < limit
                /\ \A t \in ledger.observed..r - 1 : Rolling(Pruned(ledger, t), s) >= limit

=============================================================================
