---------------------------- MODULE SessionDelete ----------------------------
(***************************************************************************)
(* Deleting Codex sessions while keeping their usage (session_delete.rs,   *)
(* deleted_sessions.rs, tui/session_management.rs).  A monitor captures    *)
(* the usage of a session and of its spawned descendants, stores it in the *)
(* deletion ledger, asks the App Server once to delete the tree, and       *)
(* records for each member what it can verify.  What stays unresolved is   *)
(* checked again, read-only, at later refreshes.                           *)
(*                                                                         *)
(* Several monitors run against one Codex home.  Sessions go on writing,   *)
(* spawn children and may be restored from a backup at another path; the   *)
(* server may handle a request late, in part or never, and its answer may  *)
(* be lost; a monitor may die anywhere.                                    *)
(***************************************************************************)
EXTENDS Integers, Sequences, FiniteSets

CONSTANTS
    Threads,        \* sessions
    Parent,         \* the root each session was spawned by, itself for a root
    Monitors,       \* processes
    MaxPending,     \* MAX_PENDING_RECEIPTS, the same as MAX_DELETION_THREADS
    MaxEvents,      \* bound: usage events ever written
    MaxOps,         \* bound: deletions prepared
    MaxRestores     \* bound: files restored from a backup

ASSUME DeleteAssumption ==
    /\ IsFiniteSet(Threads) /\ Threads # {}
    /\ Parent \in [Threads -> Threads]
    /\ \A t \in Threads : Parent[Parent[t]] = Parent[t]
    /\ {MaxPending, MaxEvents, MaxOps, MaxRestores} \subseteq Nat

Paths == {"home", "copy"}

VARIABLES
    wrote,      \* the session of each usage event, in the order of writing
    file,       \* file[q][t]: the events in t's rollout at path q, {} for none
    index,      \* the sessions the App Server lists
    saved,      \* the ledger: the current operation, status and events per session
    lock,       \* operation.lock: its holders
    job,        \* what each monitor is doing
    requests,   \* delete requests the server may still act on: [op, root]
    ops,        \* operations prepared
    restores,   \* files restored
    late,       \* history: events written while such a request was under way
    gone        \* history: sessions without a file at some time since recorded

vars == <<wrote, file, index, saved, lock, job, requests, ops, restores, late, gone>>

-----------------------------------------------------------------------------

Events   == 1..MaxEvents
Ops      == 0..MaxOps
Captures == [Paths -> [Threads -> SUBSET Events]]

\* DeletionStatus
Statuses == {"none", "pending", "failed", "unknown", "partial", "deleted"}

\* DeletedSessionRecord, with the operation that last wrote it.
Saved == [op : Ops, status : Statuses, events : SUBSET Events]

Steps == {"idle", "prepared", "checked", "recorded", "failing", "waiting",
          "answered", "marking", "verifying", "scanning", "confirming"}

Replies == {"none", "ok", "error"}

\* PreparedSessionDeletion and the progress of its execution; a reconciliation
\* uses todo for the receipts it still considers.
Job ==
    [step : Steps, op : Ops, root : Threads, tree : SUBSET Threads,
     capture : Captures, reply : Replies, owners : SUBSET Threads, todo : SUBSET Threads]

NoCapture == [q \in Paths |-> [t \in Threads |-> {}]]

NoJob ==
    [step |-> "idle", op |-> 0, root |-> CHOOSE t \in Threads : TRUE, tree |-> {},
     capture |-> NoCapture, reply |-> "none", owners |-> {}, todo |-> {}]

TypeOK ==
    /\ wrote \in Seq(Threads) /\ Len(wrote) <= MaxEvents
    /\ file \in Captures
    /\ index \subseteq Threads
    /\ saved \in [Threads -> Saved]
    /\ lock \subseteq Monitors
    /\ job \in [Monitors -> Job]
    /\ requests \subseteq [op : Ops, root : Threads]
    /\ ops \in Ops
    /\ restores \in 0..MaxRestores
    /\ late \subseteq Events
    /\ gone \subseteq Threads

\* The steps taken with operation.lock held.
Locked == Steps \ {"idle", "prepared"}

Init ==
    /\ wrote = <<>>
    /\ file = NoCapture
    /\ index = {}
    /\ saved = [t \in Threads |-> [op |-> 0, status |-> "none", events |-> {}]]
    /\ lock = {}
    /\ job = [m \in Monitors |-> NoJob]
    /\ requests = {}
    /\ ops = 0
    /\ restores = 0
    /\ late = {}
    /\ gone = Threads

-----------------------------------------------------------------------------
(* Reading sessions. *)

\* A session with its spawned descendants.
Tree(r) == {t \in Threads : t = r \/ Parent[t] = r}

\* fresh_tree: the listed members of a tree, all of them with a log.
Listed(r) == Tree(r) \intersect index

OnDisk(t) == \E q \in Paths : file[q][t] # {}

\* discover_session_capture_files: the scan is refused when it finds a session
\* spawned by one of the targets that is no target itself.
ScanAllowed(T) == \A t \in Threads \ T : Parent[t] \in T => ~OnDisk(t)

\* remaining_owned_threads
Owned(T) == {t \in T : OnDisk(t)}

Captured(T) == [q \in Paths |-> [t \in Threads |-> IF t \in T THEN file[q][t] ELSE {}]]

\* validate_unchanged, and the comparison of a new fresh_tree with the first
LogsUnchanged(m) == ScanAllowed(job[m].tree) /\ Captured(job[m].tree) = job[m].capture
TreeUnchanged(m) == Listed(job[m].root) = job[m].tree

Unresolved(t) == saved[t].status \in {"pending", "unknown", "partial"}

\* What thread/read may answer.  A session that is only not loaded is no proof
\* of anything, and any call may fail.
Reads(t) == {"error", "unloaded", IF t \in index THEN "found" ELSE "missing"}

Ended(m) ==
    /\ job' = [job EXCEPT ![m] = NoJob]
    /\ lock' = lock \ {m}

Disk == <<wrote, file, index, restores, late>>

-----------------------------------------------------------------------------
(* Preparation and execution. *)

\* prepare_session_delete: nothing is locked or written.
Prepare(m, r) ==
    /\ job[m].step = "idle" /\ ops < MaxOps
    /\ r \in index
    /\ \A t \in Listed(r) : file["home"][t] # {}
    /\ ScanAllowed(Listed(r))
    /\ ops' = ops + 1
    /\ job' = [job EXCEPT ![m] = [NoJob EXCEPT !.step = "prepared", !.op = ops',
                                               !.root = r, !.tree = Listed(r),
                                               !.capture = Captured(Listed(r))]]
    /\ UNCHANGED <<Disk, saved, lock, requests, gone>>

\* The user cancels, or the first checks of the execution fail.
Withdraw(m) ==
    /\ job[m].step = "prepared"
    /\ job' = [job EXCEPT ![m] = NoJob]
    /\ UNCHANGED <<Disk, saved, lock, requests, ops, gone>>

\* Slip: only the ledger's own lock is used.
BeginUnlocked(m) ==
    /\ job[m].step = "prepared"
    /\ TreeUnchanged(m) /\ LogsUnchanged(m)
    /\ lock' = lock \union {m}
    /\ job' = [job EXCEPT ![m].step = "checked"]
    /\ UNCHANGED <<Disk, saved, requests, ops, gone>>

\* execute_session_delete up to the checks of execute_with_client
Begin(m) ==
    /\ job[m].step = "prepared"
    /\ lock = {}
    /\ TreeUnchanged(m) /\ LogsUnchanged(m)
    /\ lock' = lock \union {m}
    /\ job' = [job EXCEPT ![m].step = "checked"]
    /\ UNCHANGED <<Disk, saved, requests, ops, gone>>

\* Slip: the usage of the whole tree goes to each member.
MergedTree(t, m) == saved[t].events \union UNION {job[m].capture[q][u] : q \in Paths, u \in Threads}

\* merge_saved_record
Merged(t, m) == saved[t].events \union UNION {job[m].capture[q][t] : q \in Paths}

\* Slip: only the operation itself is counted.
FitsAlone(T) == Cardinality(T) <= MaxPending

\* The capacity check in the ledger's transaction.
Fits(T) == Cardinality(T \union {t \in Threads : Unresolved(t)}) <= MaxPending

\* prepare_delete: one transaction for all members.
Record(m) ==
    LET T == job[m].tree IN
    /\ job[m].step = "checked"
    /\ Fits(T)
    /\ saved' = [t \in Threads |->
          IF t \in T
          THEN [op |-> job[m].op, status |-> "pending", events |-> Merged(t, m)]
          ELSE saved[t]]
    /\ gone' = (gone \ T) \union {t \in T : ~OnDisk(t)}
    /\ job' = [job EXCEPT ![m].step = "recorded"]
    /\ UNCHANGED <<Disk, lock, requests, ops>>

\* A check, the transaction or one of the members' outcomes fails.
GiveUp(m) ==
    /\ job[m].step \in {"checked", "failing", "marking", "verifying", "scanning", "confirming"}
    /\ Ended(m)
    /\ UNCHANGED <<Disk, saved, requests, ops, gone>>

\* The final validation fails: no request is sent.
FinalFails(m) ==
    /\ job[m].step = "recorded"
    /\ job' = [job EXCEPT ![m].step = "failing", ![m].todo = job[m].tree]
    /\ UNCHANGED <<Disk, saved, lock, requests, ops, gone>>

\* Slip: the request is sent without looking again.
SendUnchecked(m) ==
    /\ job[m].step = "recorded"
    /\ requests' = requests \union {[op |-> job[m].op, root |-> job[m].root]}
    /\ job' = [job EXCEPT ![m].step = "waiting"]
    /\ UNCHANGED <<Disk, saved, lock, ops, gone>>

\* The final validation and thread/delete.
Send(m) ==
    /\ job[m].step = "recorded"
    /\ TreeUnchanged(m) /\ LogsUnchanged(m)
    /\ requests' = requests \union {[op |-> job[m].op, root |-> job[m].root]}
    /\ job' = [job EXCEPT ![m].step = "waiting"]
    /\ UNCHANGED <<Disk, saved, lock, ops, gone>>

\* The answer: success, once the server is done with the request, or an error
\* or a timeout, after which it may still be at work.
Answer(m, reply) ==
    /\ job[m].step = "waiting"
    /\ reply = "ok" => \A r \in requests : r.op # job[m].op
    /\ job' = [job EXCEPT ![m].step = "answered", ![m].reply = reply]
    /\ UNCHANGED <<Disk, saved, lock, requests, ops, gone>>

\* remaining_owned_threads; a scan that fails counts everything as owned.
Scan(m, O) ==
    /\ job[m].step = "answered"
    /\ O = job[m].tree \/ (ScanAllowed(job[m].tree) /\ O = Owned(job[m].tree))
    /\ job' = [job EXCEPT ![m].step = "marking", ![m].owners = O, ![m].todo = job[m].tree]
    /\ UNCHANGED <<Disk, saved, lock, requests, ops, gone>>

\* set_deletion_outcome refuses an operation that is no longer the current one.
Current(m, t) == saved[t].op = job[m].op

Marked(m, t, status) ==
    /\ saved' = [saved EXCEPT ![t].status = status]
    /\ IF job[m].todo = {t}
       THEN Ended(m)
       ELSE /\ job' = [job EXCEPT ![m].todo = @ \ {t}]
            /\ UNCHANGED lock
    /\ UNCHANGED <<Disk, requests, ops, gone>>

MarkFailed(m, t) ==
    /\ job[m].step = "failing" /\ t \in job[m].todo
    /\ Current(m, t)
    /\ Marked(m, t, "failed")

\* Slip: only the captured paths are looked at.
OutcomeByPath(m, t, read) ==
    LET ok      == job[m].reply = "ok"
        missing == read = "missing" \/ (ok /\ read = "unloaded")
        absent  == \A q \in Paths : job[m].capture[q][t] # {} => file[q][t] = {}
    IN  CASE ok /\ missing /\ absent -> "deleted"
          [] ok /\ read = "found"    -> "partial"
          [] OTHER                  -> "unknown"

\* The outcome of one member from what was read of it.
Outcome(m, t, read) ==
    LET ok      == job[m].reply = "ok"
        missing == read = "missing" \/ (ok /\ read = "unloaded")
        absent  == /\ t \notin job[m].owners
                   /\ \A q \in Paths : job[m].capture[q][t] # {} => file[q][t] = {}
    IN  CASE ok /\ missing /\ absent -> "deleted"
          [] ok /\ read = "found"    -> "partial"
          [] OTHER                  -> "unknown"

Mark(m, t, read) ==
    /\ job[m].step = "marking" /\ t \in job[m].todo
    /\ Current(m, t)
    /\ Marked(m, t, Outcome(m, t, read))

\* The process dies; the operating system releases its lock.
Crash(m) ==
    /\ job[m].step # "idle"
    /\ job' = [job EXCEPT ![m] = NoJob]
    /\ lock' = lock \ {m}
    /\ UNCHANGED <<Disk, saved, requests, ops, gone>>

-----------------------------------------------------------------------------
(* Reconciliation at a refresh.  The refresh asks for it when the rollout     *)
(* cache, which may lag behind, has no log of some unresolved session.        *)

\* reconcile_pending_deletions
Verify(m) ==
    /\ job[m].step = "idle"
    /\ lock = {}
    /\ \E t \in Threads : Unresolved(t)
    /\ lock' = lock \union {m}
    /\ job' = [job EXCEPT ![m] = [NoJob EXCEPT !.step = "verifying",
                                               !.tree = {t \in Threads : Unresolved(t)}]]
    /\ UNCHANGED <<Disk, saved, requests, ops, gone>>

\* persisted_threads and thread/read of each: C are the ones found missing.
VerifyIndex(m, C) ==
    /\ job[m].step = "verifying"
    /\ C # {} /\ C \subseteq job[m].tree \ index
    /\ job' = [job EXCEPT ![m].step = "scanning", ![m].todo = C]
    /\ UNCHANGED <<Disk, saved, lock, requests, ops, gone>>

\* Slip: one session that is left on disk stops the verification of all.
VerifyFilesAll(m) ==
    /\ job[m].step = "scanning"
    /\ ScanAllowed(job[m].tree)
    /\ Owned(job[m].tree) = {}
    /\ job' = [job EXCEPT ![m].step = "confirming"]
    /\ UNCHANGED <<Disk, saved, lock, requests, ops, gone>>

\* The complete scan for owners.
VerifyFiles(m) ==
    /\ job[m].step = "scanning"
    /\ ScanAllowed(job[m].tree)
    /\ job[m].todo \ Owned(job[m].tree) # {}
    /\ job' = [job EXCEPT ![m].step = "confirming", ![m].todo = @ \ Owned(job[m].tree)]
    /\ UNCHANGED <<Disk, saved, lock, requests, ops, gone>>

\* The receipts were read under the lock, so each still has its operation.
Confirm(m, t) ==
    /\ job[m].step = "confirming" /\ t \in job[m].todo
    /\ Marked(m, t, "deleted")

-----------------------------------------------------------------------------
(* The App Server and the sessions. *)

\* The server removes the log or the entry of one member.
ServerDelete(r, t) ==
    /\ t \in Tree(r.root)
    /\ \/ /\ file["home"][t] # {}
          /\ file' = [file EXCEPT !["home"][t] = {}]
          /\ gone' = IF file["copy"][t] = {} THEN gone \union {t} ELSE gone
          /\ UNCHANGED index
       \/ /\ t \in index
          /\ index' = index \ {t}
          /\ UNCHANGED <<file, gone>>
    /\ UNCHANGED <<wrote, restores, late, saved, lock, job, requests, ops>>

\* It is done with a request, or fails, or never received it.
ServerEnd(r) ==
    /\ requests' = requests \ {r}
    /\ UNCHANGED <<Disk, saved, lock, job, ops, gone>>

\* A session writes an event; the first one creates its log.
Write(t) ==
    LET e == Len(wrote) + 1 IN
    /\ e <= MaxEvents
    /\ Parent[t] = t \/ OnDisk(Parent[t]) \/ OnDisk(t)
    /\ wrote' = Append(wrote, t)
    /\ file' = [file EXCEPT !["home"][t] = @ \union {e}]
    /\ index' = index \union {t}
    /\ late' = IF \E r \in requests : t \in Tree(r.root) THEN late \union {e} ELSE late
    /\ UNCHANGED <<restores, saved, lock, job, requests, ops, gone>>

\* A backup of a session is restored at another path.
Restore(t) ==
    LET written == {e \in 1..Len(wrote) : wrote[e] = t} IN
    /\ restores < MaxRestores
    /\ written # {} /\ file["copy"][t] = {}
    /\ restores' = restores + 1
    /\ file' = [file EXCEPT !["copy"][t] = written]
    /\ UNCHANGED <<wrote, index, late, saved, lock, job, requests, ops, gone>>

-----------------------------------------------------------------------------

Monitor(m) ==
    \/ \E r \in Threads : Prepare(m, r)
    \/ Withdraw(m) \/ Begin(m) \/ Record(m) \/ GiveUp(m)
    \/ FinalFails(m) \/ Send(m)
    \/ \E reply \in {"ok", "error"} : Answer(m, reply)
    \/ \E t \in Threads : MarkFailed(m, t) \/ \E read \in Reads(t) : Mark(m, t, read)
    \/ Crash(m)
    \/ Verify(m) \/ VerifyFiles(m)
    \/ \E C \in SUBSET Threads : VerifyIndex(m, C) \/ Scan(m, C)
    \/ \E t \in Threads : Confirm(m, t)

Server == \E r \in requests : ServerEnd(r) \/ \E t \in Threads : ServerDelete(r, t)

Sessions == \E t \in Threads : Write(t) \/ Restore(t)

Next == (\E m \in Monitors : Monitor(m)) \/ Server \/ Sessions

Spec == Init /\ [][Next]_vars

\* Refreshes keep coming, which takes a user who closes the dialog, and each
\* monitor goes on with what it has begun; the failures of the server and of
\* scans are not repeated for ever.
Fairness ==
    \A m \in Monitors :
        /\ WF_vars(Begin(m) \/ Withdraw(m) \/ Record(m) \/ FinalFails(m) \/ Answer(m, "error")
                   \/ \E O \in SUBSET Threads : Scan(m, O)
                   \/ \E t \in Threads :
                         MarkFailed(m, t) \/ \E read \in Reads(t) : Mark(m, t, read))
        /\ WF_vars(GiveUp(m))
        /\ SF_vars(Verify(m))
        /\ SF_vars(VerifyIndex(m, job[m].tree \ index))
        /\ SF_vars(VerifyFiles(m))
        /\ SF_vars(\E t \in Threads : Confirm(m, t))

FairSpec == Spec /\ Fairness

-----------------------------------------------------------------------------

\* overlay_deleted_sessions: the live events and the saved ones, each once.
Shown(t) == saved[t].events \union UNION {file[q][t] : q \in Paths}

\* No usage is lost: whatever was written before the final validation of a
\* deletion is in the logs or in the ledger, whichever requests the server acts
\* on late or in part and wherever a monitor dies.  Events written while a
\* request is under way are the ones the README excludes.
UsageRetained == \A e \in 1..Len(wrote) : e \in Shown(wrote[e]) \/ e \in late

\* Nothing is counted twice: what is shown of a session, restored and deleted
\* again as it may be, are its own events.
CountedOnce == \A t \in Threads : Shown(t) \subseteq {e \in 1..Len(wrote) : wrote[e] = t}

\* A session is recorded as deleted only if, since its usage was recorded, all
\* its files were absent at some time, restored copies included.
DeletedMeansGone == \A t \in Threads : saved[t].status = "deleted" => t \in gone

\* An operation is never overtaken: until its last outcome is stored, it is the
\* current one of its members, so none is refused after the server was asked.
OutcomesStorable ==
    \A m \in Monitors :
        job[m].step \in {"recorded", "failing", "waiting", "answered", "marking"} =>
            \A t \in job[m].tree : Current(m, t)

\* The unresolved sessions stay within what one verification can handle; with
\* one more, none of them could ever be verified again.
VerificationPossible == Cardinality({t \in Threads : Unresolved(t)}) <= MaxPending

\* A deletion whose outcome is open is resolved by the refreshes once the
\* session has neither a log nor an entry, unless a session spawned by an
\* unresolved one is left on disk, which stops every verification.
ReceiptsResolve ==
    \A t \in Threads :
        <>[](/\ ~OnDisk(t) /\ t \notin index
             /\ ScanAllowed({u \in Threads : Unresolved(u)})) =>
            <>[](~Unresolved(t))

=============================================================================
