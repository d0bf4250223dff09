------------------------- MODULE SessionDeleteProofs -------------------------
(***************************************************************************)
(* Proofs about SessionDelete, for any number of sessions, monitors,       *)
(* events, operations and restored files.                                  *)
(***************************************************************************)
EXTENDS SessionDelete, FiniteSetTheorems, TLAPS

\* The conditions on what one monitor is doing.
Executing == {"recorded", "failing", "waiting", "answered", "marking"}
Holding   == Executing \union {"prepared", "checked"}

\* operation.lock keeps executions and verifications of all monitors apart,
\* whichever of them die.
OneOperation ==
    /\ \A m \in Monitors : m \in lock <=> job[m].step \in Locked
    /\ \A m, n \in lock : m = n

Own(t) == {e \in 1..Len(wrote) : wrote[e] = t}

\* Logs, captures and the ledger hold each session's own events.
OwnInv ==
    \A t \in Threads :
        /\ saved[t].events \subseteq Own(t)
        /\ \A q \in Paths : file[q][t] \subseteq Own(t)
        /\ \A q \in Paths, m \in Monitors : job[m].capture[q][t] \subseteq Own(t)

JobInv(m) ==
    /\ job[m].step \in Holding => job[m].root \in job[m].tree
    /\ job[m].step \in Executing =>
          \A t \in job[m].tree : saved[t].op = job[m].op
    /\ job[m].step = "recorded" =>
          \A t \in job[m].tree, q \in Paths : job[m].capture[q][t] \subseteq saved[t].events
    /\ job[m].step \in {"recorded", "waiting", "answered"} =>
          \A t \in job[m].tree : saved[t].status = "pending"
    /\ job[m].step = "marking" => \A t \in job[m].todo : saved[t].status = "pending"
    /\ job[m].step = "marking" => job[m].tree \ job[m].owners \subseteq gone
    /\ job[m].step \in {"marking", "scanning"} => job[m].todo \subseteq job[m].tree
    /\ job[m].step = "confirming" => job[m].todo \subseteq gone

AbsentInv ==
    \A t \in Threads : (~OnDisk(t) \/ saved[t].status = "deleted") => t \in gone

\* What the server may still delete is saved or late.
RequestInv ==
    \A r \in requests : \A t \in Tree(r.root) :
        file["home"][t] \subseteq saved[t].events \union late

-----------------------------------------------------------------------------
(* The shape of the state. *)

LEMMA Bounds == {MaxPending, MaxEvents, MaxOps, MaxRestores} \subseteq Nat
BY DeleteAssumption

LEMMA NoJobType == NoJob \in Job
BY DeleteAssumption DEF NoJob, Job, NoCapture, Steps, Replies, Captures, Ops

LEMMA StepNames ==
    /\ {"idle", "prepared", "checked", "recorded", "failing", "waiting",
        "answered", "marking", "verifying", "scanning", "confirming"} \subseteq Steps
    /\ {"none", "ok", "error"} \subseteq Replies
BY DEF Steps, Replies

\* What the fields of a job hold.
LEMMA JobTree ==
    ASSUME job \in [Monitors -> Job], NEW m \in Monitors
    PROVE  /\ job[m].tree \in SUBSET Threads
           /\ job[m].todo \in SUBSET Threads
           /\ job[m].root \in Threads
           /\ job[m].op \in Ops
           /\ job[m].step \in Steps
           /\ job[m].capture \in Captures
BY DEF Job

LEMMA CapturedType ==
    ASSUME TypeOK, NEW T \in SUBSET Threads
    PROVE  Captured(T) \in Captures
BY DEF Captures, Captured, TypeOK

LEMMA InitType == Init => TypeOK
<1> SUFFICES ASSUME Init PROVE TypeOK
  OBVIOUS
<1>1. NoJob \in Job
  BY NoJobType
<1>2. file \in Captures
  BY DEF Captures, Init, NoCapture
<1>3. saved \in [Threads -> Saved]
  BY Bounds DEF Ops, Init, Saved, Statuses
<1>4. wrote \in Seq(Threads) /\ Len(wrote) = 0
  BY DEF Init
<1> QED
  BY <1>1, <1>2, <1>3, <1>4, Bounds DEF Ops, Init, TypeOK

LEMMA MonitorType ==
    ASSUME TypeOK, NEW m \in Monitors, Monitor(m)
    PROVE  TypeOK'
<1> USE DEF TypeOK
<1>0. NoJob \in Job
  BY NoJobType
<1>a. job[m].tree \in SUBSET Threads /\ job[m].todo \in SUBSET Threads
  BY DEF Job
<1>1. ASSUME NEW r \in Threads, Prepare(m, r) PROVE TypeOK'
  <2>1. Listed(r) \in SUBSET Threads
    BY DEF Listed, Tree
  <2>2. Captured(Listed(r)) \in Captures
    BY <2>1, CapturedType
  <2>3. ops' \in Ops
    BY <1>1, Bounds DEF Prepare, Ops
  <2>4. job' \in [Monitors -> Job]
    BY <1>0, <1>1, <2>1, <2>2, <2>3, StepNames DEF Prepare, Job
  <2> QED
    BY <1>1, <2>3, <2>4 DEF Prepare, Disk
<1>2. CASE Withdraw(m)
  BY <1>0, <1>2 DEF Withdraw, Disk
<1>3. CASE Begin(m)
  BY <1>3, StepNames DEF Job, Begin, Disk
<1>4. CASE Record(m)
  <2>1. \A t \in Threads : Merged(t, m) \in SUBSET Events
    BY DEF Merged, Saved, Job, Paths, Captures
  <2>2. saved' \in [Threads -> Saved]
    BY <1>4, <2>1 DEF Record, Saved, Statuses, Job
  <2>3. job' \in [Monitors -> Job] /\ gone' \subseteq Threads
    BY <1>4, StepNames DEF Job, Record
  <2> QED
    BY <1>4, <2>2, <2>3 DEF Record, Disk
<1>5. CASE GiveUp(m)
  BY <1>0, <1>5 DEF GiveUp, Ended, Disk
<1>6. CASE FinalFails(m)
  <2>1. job' \in [Monitors -> Job]
    BY <1>6, <1>a, StepNames DEF Job, FinalFails
  <2> QED
    BY <1>6, <2>1 DEF FinalFails, Disk
<1>7. CASE Send(m)
  BY <1>7, JobTree, StepNames DEF Job, Send, Disk
<1>8. ASSUME NEW O \in SUBSET Threads, Scan(m, O) PROVE TypeOK'
  <2> DEFINE j == [job[m] EXCEPT !.step = "marking", !.owners = O, !.todo = job[m].tree]
  <2>0. job' = [job EXCEPT ![m] = j]
    BY <1>8 DEF Scan
  <2>a. j \in Job
    BY <1>a, StepNames DEF Job
  <2>1. job' \in [Monitors -> Job]
    BY <2>0, <2>a
  <2> QED
    BY <1>8, <2>1 DEF Scan, Disk
<1>9. ASSUME NEW y \in {"ok", "error"}, Answer(m, y) PROVE TypeOK'
  BY <1>9, StepNames DEF Job, Answer, Disk
<1>10. ASSUME NEW t \in Threads, NEW s \in Statuses, Marked(m, t, s) PROVE TypeOK'
  <2>1. saved' \in [Threads -> Saved]
    BY <1>10 DEF Marked, Saved
  <2>a. job[m].todo \ {t} \in SUBSET Threads
    BY <1>a
  <2>b. [job EXCEPT ![m].todo = job[m].todo \ {t}] \in [Monitors -> Job]
    BY <2>a DEF Job
  <2>2. job' \in [Monitors -> Job] /\ lock' \subseteq Monitors
    BY <1>0, <1>10, <2>b DEF Marked, Ended
  <2> QED
    BY <1>10, <2>1, <2>2 DEF Marked, Disk
<1>11. ASSUME NEW t \in Threads, MarkFailed(m, t) PROVE TypeOK'
  BY <1>10, <1>11 DEF MarkFailed, Statuses
<1>12. ASSUME NEW t \in Threads, NEW read \in Reads(t), Mark(m, t, read) PROVE TypeOK'
  <2>1. Outcome(m, t, read) \in Statuses
    BY DEF Outcome, Statuses
  <2> QED
    BY <1>10, <1>12, <2>1 DEF Mark
<1>13. CASE Crash(m)
  BY <1>0, <1>13 DEF Crash, Disk
<1>14. CASE Verify(m)
  BY <1>0, <1>14, StepNames DEF Verify, Job, Disk
<1>15. CASE VerifyFiles(m)
  <2>1. job[m].todo \ Owned(job[m].tree) \in SUBSET Threads
    BY <1>a
  <2>2. job' \in [Monitors -> Job]
    BY <1>15, <2>1, StepNames DEF Job, VerifyFiles
  <2> QED
    BY <1>15, <2>2 DEF VerifyFiles, Disk
<1>16. ASSUME NEW C \in SUBSET Threads, VerifyIndex(m, C) PROVE TypeOK'
  BY <1>16, StepNames DEF Job, VerifyIndex, Disk
<1>17. ASSUME NEW t \in Threads, Confirm(m, t) PROVE TypeOK'
  BY <1>10, <1>17 DEF Confirm, Statuses
<1> QED
  BY <1>1, <1>2, <1>3, <1>4, <1>5, <1>6, <1>7, <1>8, <1>9, <1>11, <1>12, <1>13,
     <1>14, <1>15, <1>16, <1>17 DEF Monitor

LEMMA NextType ==
    ASSUME TypeOK, [Next]_vars
    PROVE  TypeOK'
<1>1. ASSUME NEW m \in Monitors, Monitor(m) PROVE TypeOK'
  BY <1>1, MonitorType
<1> USE DEF TypeOK
<1>2. ASSUME NEW r \in requests, ServerEnd(r) PROVE TypeOK'
  BY <1>2 DEF ServerEnd, Disk
<1>3. ASSUME NEW r \in requests, NEW t \in Threads, ServerDelete(r, t) PROVE TypeOK'
  BY <1>3 DEF ServerDelete, Paths, Captures
<1>4. ASSUME NEW t \in Threads, Write(t) PROVE TypeOK'
  <2>1. Len(wrote) + 1 \in Events
    BY <1>4, Bounds DEF Write, Events
  <2>2. file' \in Captures /\ late' \subseteq Events
    BY <1>4, <2>1 DEF Write, Paths, Captures
  <2>3. wrote' \in Seq(Threads) /\ Len(wrote') <= MaxEvents
    BY <1>4, Bounds DEF Write
  <2> QED
    BY <1>4, <2>2, <2>3 DEF Write
<1>5. ASSUME NEW t \in Threads, Restore(t) PROVE TypeOK'
  <2>1. {e \in 1..Len(wrote) : wrote[e] = t} \subseteq Events
    BY Bounds DEF Events
  <2>2. file' \in Captures
    BY <1>5, <2>1 DEF Restore, Paths, Captures
  <2>3. restores' \in 0..MaxRestores
    BY <1>5, Bounds DEF Restore
  <2> QED
    BY <1>5, <2>2, <2>3 DEF Restore
<1>6. CASE UNCHANGED vars
  BY <1>6 DEF vars
<1> QED
  BY <1>1, <1>2, <1>3, <1>4, <1>5, <1>6 DEF Next, Server, Sessions

-----------------------------------------------------------------------------
(* The lock, and what the jobs rely on. *)

LEMMA LockInit == Init => OneOperation
BY DEF Init, OneOperation, Locked, NoJob

LEMMA LockStep ==
    ASSUME TypeOK, OneOperation, [Next]_vars
    PROVE  OneOperation'
<1> USE DEF TypeOK, OneOperation, Locked, Steps
<1>1. ASSUME NEW m \in Monitors, Monitor(m) PROVE OneOperation'
  <2>0. NoJob.step = "idle"
    BY DEF NoJob
  <2>1. ASSUME Ended(m) PROVE OneOperation'
    BY <2>0, <2>1 DEF Ended
  <2>2. ASSUME UNCHANGED lock, \A n \in Monitors \ {m} : job'[n] = job[n],
               job[m].step \in Locked <=> job'[m].step \in Locked
        PROVE  OneOperation'
    BY <2>2
  <2>3. ASSUME NEW r \in Threads, Prepare(m, r) PROVE OneOperation'
    BY <2>2, <2>3 DEF Prepare
  <2>4. CASE Withdraw(m)
    BY <2>0, <2>2, <2>4 DEF Withdraw
  <2>5. CASE Begin(m)
    BY <2>5 DEF Begin
  <2>6. CASE Record(m)
    BY <2>2, <2>6 DEF Record
  <2>7. CASE GiveUp(m)
    BY <2>1, <2>7 DEF GiveUp
  <2>8. CASE FinalFails(m)
    BY <2>2, <2>8 DEF FinalFails
  <2>9. CASE Send(m)
    BY <2>2, <2>9 DEF Send
  <2>10. ASSUME NEW O \in SUBSET Threads, Scan(m, O) PROVE OneOperation'
    BY <2>2, <2>10 DEF Scan
  <2>11. ASSUME NEW y \in {"ok", "error"}, Answer(m, y) PROVE OneOperation'
    BY <2>2, <2>11 DEF Answer
  <2>12. ASSUME NEW t \in Threads, NEW s, Marked(m, t, s) PROVE OneOperation'
    <3>1. CASE job[m].todo = {t}
      BY <2>1, <2>12, <3>1 DEF Marked
    <3>2. CASE job[m].todo # {t}
      <4>1. job' = [job EXCEPT ![m].todo = @ \ {t}] /\ UNCHANGED lock
        BY <2>12, <3>2 DEF Marked
      <4>2. job'[m].step = job[m].step
        BY <4>1 DEF Job
      <4> QED
        BY <2>2, <4>1, <4>2
    <3> QED
      BY <3>1, <3>2
  <2>13. CASE \E t \in Threads : \/ MarkFailed(m, t) \/ Confirm(m, t)
                                 \/ \E read \in Reads(t) : Mark(m, t, read)
    BY <2>12, <2>13 DEF MarkFailed, Confirm, Mark
  <2>14. CASE Crash(m)
    BY <2>0, <2>14 DEF Crash
  <2>15. CASE Verify(m)
    BY <2>15 DEF Verify, NoJob
  <2>16. CASE VerifyFiles(m)
    BY <2>2, <2>16 DEF VerifyFiles
  <2>17. ASSUME NEW C \in SUBSET Threads, VerifyIndex(m, C) PROVE OneOperation'
    BY <2>2, <2>17 DEF VerifyIndex
  <2> QED
    BY <1>1, <2>3, <2>4, <2>5, <2>6, <2>7, <2>8, <2>9, <2>10, <2>11, <2>13, <2>14,
       <2>15, <2>16, <2>17 DEF Monitor
<1>2. CASE Server \/ Sessions \/ UNCHANGED vars
  BY <1>2 DEF Server, Sessions, ServerEnd, ServerDelete, Write, Restore, vars
<1> QED
  BY <1>1, <1>2 DEF Next

\* Every step of a monitor leaves the disk alone; it leaves the ledger, gone and
\* the requests alone too, or records, sends or marks one member.
Marks(m) ==
    \E t \in Threads :
        \/ MarkFailed(m, t)
        \/ Confirm(m, t)
        \/ \E read \in Reads(t) : Mark(m, t, read)

LEMMA MonitorFrame ==
    ASSUME TypeOK, NEW m \in Monitors, Monitor(m)
    PROVE  /\ UNCHANGED <<wrote, file, index, late>>
           /\ \A n \in Monitors \ {m} : job'[n] = job[n]
           /\ UNCHANGED <<saved, gone, requests>> \/ Record(m) \/ Send(m) \/ Marks(m)
<1> USE DEF TypeOK, Disk
<1>1. CASE \E r \in Threads : Prepare(m, r)
  BY <1>1 DEF Prepare
<1>2. CASE Withdraw(m) \/ Begin(m) \/ GiveUp(m) \/ FinalFails(m) \/ Crash(m)
  BY <1>2 DEF Withdraw, Begin, GiveUp, Ended, FinalFails, Crash
<1>3. CASE Record(m)
  BY <1>3 DEF Record
<1>4. CASE Send(m)
  BY <1>4 DEF Send
<1>5. CASE \E y \in {"ok", "error"} : Answer(m, y)
  BY <1>5 DEF Answer
<1>6. CASE \E O \in SUBSET Threads : Scan(m, O)
  BY <1>6 DEF Scan
<1>7. CASE Verify(m) \/ VerifyFiles(m) \/ \E C \in SUBSET Threads : VerifyIndex(m, C)
  BY <1>7 DEF Verify, VerifyFiles, VerifyIndex
<1>8. CASE Marks(m)
  BY <1>8 DEF Marks, MarkFailed, Confirm, Mark, Marked, Ended
<1> QED
  BY <1>1, <1>2, <1>3, <1>4, <1>5, <1>6, <1>7, <1>8 DEF Monitor, Marks

-----------------------------------------------------------------------------
(* Own events. *)


LEMMA OwnInit == Init => OwnInv
BY DEF Init, OwnInv, NoJob, NoCapture

\* The captures of the jobs after a step of a monitor.
LEMMA CaptureFrame ==
    ASSUME TypeOK, NEW m \in Monitors, Monitor(m), NEW n \in Monitors
    PROVE  \/ job'[n].capture = job[n].capture
           \/ job'[n].capture = NoCapture
           \/ \E r \in Threads : job'[n].capture = Captured(Listed(r))
<1> USE DEF TypeOK
<1>0. NoJob.capture = NoCapture
  BY DEF NoJob
<1>1. CASE n # m
  BY <1>1, MonitorFrame
<1>2. CASE \E r \in Threads : Prepare(m, r)
  BY <1>1, <1>2 DEF Prepare, NoJob
<1>3. CASE Withdraw(m) \/ GiveUp(m) \/ Crash(m)
  BY <1>0, <1>1, <1>3 DEF Withdraw, GiveUp, Crash, Ended
<1>4. CASE Begin(m) \/ Record(m) \/ FinalFails(m) \/ Send(m) \/ VerifyFiles(m)
  BY <1>1, <1>4 DEF Begin, Record, FinalFails, Send, VerifyFiles, Job
<1>5. CASE \E y \in {"ok", "error"} : Answer(m, y)
  BY <1>1, <1>5 DEF Answer, Job
<1>6. CASE \E O \in SUBSET Threads : Scan(m, O) \/ VerifyIndex(m, O)
  BY <1>1, <1>6 DEF Scan, VerifyIndex, Job
<1>7. CASE Verify(m)
  BY <1>0, <1>1, <1>7 DEF Verify, NoJob
<1>8. CASE Marks(m)
  <2>1. PICK t \in Threads, s \in Statuses : Marked(m, t, s)
    BY <1>8 DEF Marks, MarkFailed, Confirm, Mark, Outcome, Statuses
  <2>2. \/ job' = [job EXCEPT ![m] = NoJob]
        \/ job' = [job EXCEPT ![m].todo = @ \ {t}]
    BY <2>1 DEF Marked, Ended
  <2> QED
    BY <1>0, <1>1, <2>2 DEF Job
<1> QED
  BY <1>2, <1>3, <1>4, <1>5, <1>6, <1>7, <1>8 DEF Monitor, Marks

LEMMA OwnStep ==
    ASSUME TypeOK, OwnInv, [Next]_vars
    PROVE  OwnInv'
<1> USE DEF TypeOK
<1>1. ASSUME NEW m \in Monitors, Monitor(m) PROVE OwnInv'
  <2>1. UNCHANGED <<wrote, file>>
    BY <1>1, MonitorFrame
  <2>2. \A t \in Threads : Own(t)' = Own(t)
    BY <2>1 DEF Own
  <2>3. ASSUME NEW t \in Threads PROVE saved'[t].events \subseteq Own(t)
    <3>1. CASE UNCHANGED saved
      BY <3>1 DEF OwnInv
    <3>2. CASE Record(m)
      BY <3>2 DEF Record, Merged, OwnInv, Saved
    <3>3. CASE Send(m)
      BY <3>3 DEF Send, OwnInv
    <3>4. CASE Marks(m)
      <4>1. PICK u \in Threads, s \in Statuses : Marked(m, u, s)
        BY <3>4 DEF Marks, MarkFailed, Confirm, Mark, Outcome, Statuses
      <4>2. saved'[t].events = saved[t].events
        BY <4>1 DEF Marked, Saved
      <4> QED
        BY <4>2 DEF OwnInv
    <3> QED
      BY <1>1, <3>1, <3>2, <3>3, <3>4, MonitorFrame
  <2>4. ASSUME NEW t \in Threads, NEW q \in Paths, NEW n \in Monitors
        PROVE  job'[n].capture[q][t] \subseteq Own(t)
    <3>1. CASE job'[n].capture = job[n].capture
      BY <3>1 DEF OwnInv
    <3>2. CASE job'[n].capture = NoCapture
      BY <3>2 DEF NoCapture
    <3>3. ASSUME NEW r \in Threads, job'[n].capture = Captured(Listed(r))
          PROVE  job'[n].capture[q][t] \subseteq Own(t)
      BY <3>3 DEF Captured, OwnInv
    <3> QED
      BY <1>1, <3>1, <3>2, <3>3, CaptureFrame
  <2> QED
    BY <2>1, <2>2, <2>3, <2>4 DEF OwnInv
<1>2. ASSUME NEW r \in requests, ServerEnd(r) PROVE OwnInv'
  BY <1>2 DEF ServerEnd, Disk, OwnInv, Own
<1>3. ASSUME NEW r \in requests, NEW u \in Threads, ServerDelete(r, u) PROVE OwnInv'
  <2>1. \A t \in Threads, q \in Paths : file'[q][t] \subseteq file[q][t]
    BY <1>3 DEF ServerDelete, Captures, Paths
  <2> QED
    BY <1>3, <2>1 DEF ServerDelete, OwnInv, Own
<1>4. ASSUME NEW u \in Threads, Write(u) PROVE OwnInv'
  <2>1. \A t \in Threads : Own(t) \subseteq Own(t)'
    BY <1>4 DEF Write, Own
  <2>2. Len(wrote) + 1 \in Own(u)'
    BY <1>4 DEF Write, Own
  <2>3. \A t \in Threads, q \in Paths : file'[q][t] \subseteq Own(t)'
    BY <1>4, <2>1, <2>2 DEF Write, OwnInv, Captures, Paths
  <2> QED
    BY <1>4, <2>1, <2>3 DEF Write, OwnInv
<1>5. ASSUME NEW u \in Threads, Restore(u) PROVE OwnInv'
  <2>1. \A t \in Threads : Own(t)' = Own(t)
    BY <1>5 DEF Restore, Own
  <2>2. \A t \in Threads, q \in Paths : file'[q][t] \subseteq Own(t)
    BY <1>5 DEF Restore, OwnInv, Own, Captures, Paths
  <2> QED
    BY <1>5, <2>1, <2>2 DEF Restore, OwnInv
<1>6. CASE UNCHANGED vars
  BY <1>6 DEF vars, OwnInv, Own
<1> QED
  BY <1>1, <1>2, <1>3, <1>4, <1>5, <1>6 DEF Next, Server, Sessions

-----------------------------------------------------------------------------
(* The progress of the jobs. *)


LEMMA JobInit == Init => \A m \in Monitors : JobInv(m)
BY DEF Init, JobInv, NoJob, Holding, Executing

LEMMA AbsentInit == Init => AbsentInv
BY DEF Init, AbsentInv

\* The step of the monitor itself.
LEMMA JobOwnStep ==
    ASSUME TypeOK, OneOperation, AbsentInv, NEW m \in Monitors, JobInv(m), Monitor(m)
    PROVE  JobInv(m)'
<1> USE DEF TypeOK, JobInv, Holding, Executing
<1>0. NoJob.step = "idle"
  BY DEF NoJob
<1>1. ASSUME job'[m] = NoJob PROVE JobInv(m)'
  BY <1>0, <1>1
<1>2. ASSUME NEW r \in Threads, Prepare(m, r) PROVE JobInv(m)'
  BY <1>2 DEF Prepare, Listed, Tree
<1>3. CASE Withdraw(m) \/ GiveUp(m) \/ Crash(m)
  BY <1>1, <1>3 DEF Withdraw, GiveUp, Crash, Ended
<1>4. CASE Begin(m)
  BY <1>4 DEF Begin, Job
<1>5. CASE Record(m)
  <2>1. job'[m] = [job[m] EXCEPT !.step = "recorded"] /\ job[m].step = "checked"
    BY <1>5 DEF Record
  <2>2. \A t \in job[m].tree : /\ saved'[t].op = job[m].op
                               /\ saved'[t].status = "pending"
                               /\ saved'[t].events = Merged(t, m)
    BY <1>5 DEF Record, Job
  <2>3. \A t \in job[m].tree, q \in Paths : job[m].capture[q][t] \subseteq Merged(t, m)
    BY DEF Merged
  <2> QED
    BY <2>1, <2>2, <2>3 DEF Job
<1>6. CASE FinalFails(m) \/ Send(m)
  BY <1>6 DEF FinalFails, Send, Job
<1>7. ASSUME NEW y \in {"ok", "error"}, Answer(m, y) PROVE JobInv(m)'
  BY <1>7 DEF Answer, Job
<1>8. ASSUME NEW O \in SUBSET Threads, Scan(m, O) PROVE JobInv(m)'
  <2>1. job[m].tree \subseteq Threads
    BY DEF Job
  <2>2. job[m].tree \ O \subseteq gone
    BY <1>8, <2>1 DEF Scan, Owned, AbsentInv
  <2>3. job'[m] = [job[m] EXCEPT !.step = "marking", !.owners = O, !.todo = job[m].tree]
    BY <1>8 DEF Scan
  <2>4. UNCHANGED <<saved, gone>> /\ job[m].step = "answered"
    BY <1>8 DEF Scan
  <2> QED
    BY <2>1, <2>2, <2>3, <2>4 DEF Job
<1>9. ASSUME NEW t \in Threads, NEW s \in Statuses, Marked(m, t, s),
             job[m].step \in {"failing", "marking", "confirming"}
      PROVE  JobInv(m)'
  <2>1. CASE job[m].todo = {t}
    BY <1>1, <1>9, <2>1 DEF Marked, Ended
  <2>2. CASE job[m].todo # {t}
    <3>1. job'[m] = [job[m] EXCEPT !.todo = @ \ {t}] /\ UNCHANGED gone
      BY <1>9, <2>2 DEF Marked
    <3>2. \A u \in Threads : saved'[u].op = saved[u].op /\ (u # t => saved'[u] = saved[u])
      BY <1>9 DEF Marked, Saved
    <3>3. job[m].tree \subseteq Threads
      BY DEF Job
    <3> QED
      BY <1>9, <3>1, <3>2, <3>3 DEF Job
  <2> QED
    BY <2>1, <2>2
<1>10. CASE Marks(m)
  BY <1>9, <1>10 DEF Marks, MarkFailed, Confirm, Mark, Outcome, Statuses
<1>11. CASE Verify(m)
  BY <1>11 DEF Verify, NoJob
<1>12. CASE VerifyFiles(m)
  <2>1. job[m].tree \subseteq Threads /\ job[m].todo \subseteq Threads
    BY DEF Job
  <2>2. job'[m] = [job[m] EXCEPT !.step = "confirming", !.todo = @ \ Owned(job[m].tree)]
    BY <1>12 DEF VerifyFiles
  <2>3. job[m].todo \subseteq job[m].tree
    BY <1>12 DEF VerifyFiles
  <2>4. job[m].todo \ Owned(job[m].tree) \subseteq gone
    BY <2>1, <2>3 DEF Owned, AbsentInv
  <2>5. UNCHANGED gone
    BY <1>12 DEF VerifyFiles
  <2> QED
    BY <2>2, <2>4, <2>5 DEF Job
<1>13. ASSUME NEW C \in SUBSET Threads, VerifyIndex(m, C) PROVE JobInv(m)'
  BY <1>13 DEF VerifyIndex, Job
<1> QED
  BY <1>2, <1>3, <1>4, <1>5, <1>6, <1>7, <1>8, <1>10, <1>11, <1>12, <1>13
     DEF Monitor, Marks

\* The ledger and gone change only in the step of the one that holds the lock.
LEMMA LockedChange ==
    ASSUME TypeOK, NEW m \in Monitors, Monitor(m)
    PROVE  UNCHANGED <<saved, gone>> \/ job[m].step \in Locked
<1>1. CASE UNCHANGED <<saved, gone>>
  BY <1>1
<1>2. CASE Record(m) \/ Send(m)
  BY <1>2 DEF Record, Send, Locked, Steps
<1>3. CASE Marks(m)
  BY <1>3 DEF Marks, MarkFailed, Confirm, Mark, Locked, Steps
<1> QED
  BY <1>1, <1>2, <1>3, MonitorFrame

LEMMA JobStep ==
    ASSUME TypeOK, OneOperation, AbsentInv, \A n \in Monitors : JobInv(n), [Next]_vars,
           NEW n \in Monitors
    PROVE  JobInv(n)'
<1>1. ASSUME NEW m \in Monitors, Monitor(m) PROVE JobInv(n)'
  <2>1. CASE n = m
    BY <1>1, <2>1, JobOwnStep
  <2>2. CASE n # m
    <3>1. job'[n] = job[n]
      BY <1>1, <2>2, MonitorFrame
    <3>2. CASE UNCHANGED <<saved, gone>>
      BY <3>1, <3>2 DEF JobInv
    <3>3. CASE job[m].step \in Locked
      <4>1. job[n].step \notin Locked
        BY <2>2, <3>3 DEF OneOperation
      <4>2. job[n].step \in {"idle", "prepared"}
        BY <4>1 DEF Locked, TypeOK, Job
      <4> QED
        BY <3>1, <4>2 DEF JobInv, Holding, Executing
    <3> QED
      BY <1>1, <3>2, <3>3, LockedChange
  <2> QED
    BY <2>1, <2>2
<1>2. CASE Server \/ Sessions \/ UNCHANGED vars
  <2>1. UNCHANGED <<job, saved>> /\ gone \subseteq gone'
    BY <1>2 DEF Server, Sessions, ServerEnd, ServerDelete, Write, Restore, vars
  <2> QED
    BY <2>1 DEF JobInv
<1> QED
  BY <1>1, <1>2 DEF Next

LEMMA AbsentStep ==
    ASSUME TypeOK, AbsentInv, \A m \in Monitors : JobInv(m), [Next]_vars
    PROVE  AbsentInv'
<1> USE DEF TypeOK
<1>1. ASSUME NEW m \in Monitors, Monitor(m) PROVE AbsentInv'
  <2>0. UNCHANGED file
    BY <1>1, MonitorFrame
  <2>1. CASE UNCHANGED <<saved, gone>>
    BY <2>0, <2>1 DEF AbsentInv, OnDisk
  <2>2. CASE Record(m)
    <3>1. \A t \in job[m].tree : saved'[t].status = "pending"
      BY <2>2 DEF Record, Job
    <3>2. \A t \in Threads \ job[m].tree : saved'[t] = saved[t]
      BY <2>2 DEF Record
    <3>3. gone' = (gone \ job[m].tree) \union {t \in job[m].tree : ~OnDisk(t)}
      BY <2>2 DEF Record
    <3> QED
      BY <2>0, <3>1, <3>2, <3>3 DEF AbsentInv, OnDisk
  <2>3. CASE Send(m)
    BY <2>0, <2>3 DEF Send, AbsentInv, OnDisk
  <2>4. ASSUME NEW t \in Threads, NEW s \in Statuses, Marked(m, t, s), s = "deleted" => t \in gone
        PROVE  AbsentInv'
    <3>1. UNCHANGED gone /\ saved' = [saved EXCEPT ![t].status = s]
      BY <2>4 DEF Marked
    <3>2. \A u \in Threads : saved'[u].status = IF u = t THEN s ELSE saved[u].status
      BY <3>1 DEF Saved
    <3> QED
      BY <2>0, <2>4, <3>1, <3>2 DEF AbsentInv, OnDisk
  <2>5. ASSUME NEW t \in Threads, NEW read, Mark(m, t, read) PROVE AbsentInv'
    <3>1. Outcome(m, t, read) = "deleted" => t \notin job[m].owners
      BY DEF Outcome
    <3>2. t \in job[m].tree
      BY <2>5 DEF Mark, JobInv
    <3>3. job[m].tree \ job[m].owners \subseteq gone
      BY <2>5 DEF Mark, JobInv
    <3>4. Outcome(m, t, read) \in Statuses
      BY DEF Outcome, Statuses
    <3> QED
      BY <2>4, <2>5, <3>1, <3>2, <3>3, <3>4 DEF Mark
  <2>6. ASSUME NEW t \in Threads, Confirm(m, t) PROVE AbsentInv'
    BY <2>4, <2>6 DEF Confirm, JobInv, Statuses
  <2>7. ASSUME NEW t \in Threads, MarkFailed(m, t) PROVE AbsentInv'
    BY <2>4, <2>7 DEF MarkFailed, Statuses
  <2> QED
    BY <1>1, <2>1, <2>2, <2>3, <2>5, <2>6, <2>7, MonitorFrame DEF Marks
<1>2. ASSUME NEW r \in requests, ServerEnd(r) PROVE AbsentInv'
  BY <1>2 DEF ServerEnd, Disk, AbsentInv, OnDisk
<1>3. ASSUME NEW r \in requests, NEW t \in Threads, ServerDelete(r, t) PROVE AbsentInv'
  BY <1>3 DEF ServerDelete, AbsentInv, OnDisk, Captures, Paths
<1>4. ASSUME NEW t \in Threads, Write(t) PROVE AbsentInv'
  <2>1. \A u \in Threads : OnDisk(u) => OnDisk(u)'
    BY <1>4 DEF Write, OnDisk, Captures, Paths
  <2> QED
    BY <1>4, <2>1 DEF Write, AbsentInv
<1>5. ASSUME NEW t \in Threads, Restore(t) PROVE AbsentInv'
  <2>1. \A u \in Threads : OnDisk(u) => OnDisk(u)'
    BY <1>5 DEF Restore, OnDisk, Captures, Paths
  <2> QED
    BY <1>5, <2>1 DEF Restore, AbsentInv
<1>6. CASE UNCHANGED vars
  BY <1>6 DEF vars, AbsentInv, OnDisk
<1> QED
  BY <1>1, <1>2, <1>3, <1>4, <1>5, <1>6 DEF Next, Server, Sessions

-----------------------------------------------------------------------------
(* Retained usage. *)


LEMMA RetainedInit == Init => RequestInv /\ UsageRetained
BY DEF Init, RequestInv, UsageRetained

\* No step of a monitor takes an event out of the ledger.
LEMMA SavedGrows ==
    ASSUME TypeOK, NEW m \in Monitors, Monitor(m), NEW t \in Threads
    PROVE  saved[t].events \subseteq saved'[t].events
<1> USE DEF TypeOK
<1>1. CASE UNCHANGED saved
  BY <1>1
<1>2. CASE Record(m)
  BY <1>2 DEF Record, Merged, Saved
<1>3. CASE Send(m)
  BY <1>3 DEF Send
<1>4. CASE Marks(m)
  <2>1. PICK u \in Threads, s \in Statuses : Marked(m, u, s)
    BY <1>4 DEF Marks, MarkFailed, Confirm, Mark, Outcome, Statuses
  <2> QED
    BY <2>1 DEF Marked, Saved
<1> QED
  BY <1>1, <1>2, <1>3, <1>4, MonitorFrame

\* At the moment of the request, all logs the server will delete are saved.
LEMMA SendCovered ==
    ASSUME TypeOK, NEW m \in Monitors, JobInv(m), Send(m), NEW t \in Tree(job[m].root)
    PROVE  file["home"][t] \subseteq saved[t].events
<1> USE DEF TypeOK
<1>0. t \in Threads /\ job[m].root \in Threads /\ job[m].tree \subseteq Threads
  BY DEF Tree, Job
<1>1. CASE t \in job[m].tree
  <2>1. job[m].capture = Captured(job[m].tree)
    BY DEF Send, LogsUnchanged
  <2>2. job[m].capture["home"][t] = file["home"][t]
    BY <1>0, <1>1, <2>1 DEF Captured, Paths
  <2>3. job[m].capture["home"][t] \subseteq saved[t].events
    BY <1>1 DEF Send, JobInv, Paths
  <2> QED
    BY <2>2, <2>3
<1>2. CASE t \notin job[m].tree
  <2>1. job[m].root \in job[m].tree
    BY DEF Send, JobInv, Holding, Executing
  <2>2. Parent[t] = job[m].root
    BY <1>2, <2>1 DEF Tree
  <2>3. ~OnDisk(t)
    BY <1>0, <1>2, <2>1, <2>2 DEF Send, LogsUnchanged, ScanAllowed
  <2> QED
    BY <2>3 DEF OnDisk, Paths
<1> QED
  BY <1>1, <1>2

LEMMA RequestStep ==
    ASSUME TypeOK, \A m \in Monitors : JobInv(m), RequestInv, [Next]_vars
    PROVE  RequestInv'
<1> USE DEF TypeOK
<1>t. \A r : Tree(r)' = Tree(r) /\ Tree(r) \subseteq Threads
  BY DEF Tree
<1>1. ASSUME NEW m \in Monitors, Monitor(m) PROVE RequestInv'
  <2>1. UNCHANGED <<file, late>>
    BY <1>1, MonitorFrame
  <2>2. \A t \in Threads : saved[t].events \subseteq saved'[t].events
    BY <1>1, SavedGrows
  <2>3. CASE UNCHANGED requests
    BY <1>t, <2>1, <2>2, <2>3 DEF RequestInv
  <2>4. CASE Send(m)
    <3>1. \A t \in Tree(job[m].root) : file["home"][t] \subseteq saved[t].events
      BY <2>4, SendCovered
    <3>2. requests' = requests \union {[op |-> job[m].op, root |-> job[m].root]}
      BY <2>4 DEF Send
    <3> QED
      BY <1>t, <2>1, <2>2, <3>1, <3>2 DEF RequestInv
  <2>5. CASE Record(m)
    BY <2>3, <2>5 DEF Record
  <2>6. CASE Marks(m)
    BY <2>3, <2>6 DEF Marks, MarkFailed, Confirm, Mark, Marked
  <2> QED
    BY <1>1, <2>3, <2>4, <2>5, <2>6, MonitorFrame
<1>2. ASSUME NEW r \in requests, ServerEnd(r) PROVE RequestInv'
  BY <1>t, <1>2 DEF ServerEnd, Disk, RequestInv
<1>3. ASSUME NEW r \in requests, NEW t \in Threads, ServerDelete(r, t) PROVE RequestInv'
  <2>1. \A u \in Threads : file'["home"][u] \subseteq file["home"][u]
    BY <1>3 DEF ServerDelete, Captures, Paths
  <2>2. UNCHANGED <<requests, saved, late>>
    BY <1>3 DEF ServerDelete
  <2> QED
    BY <1>t, <2>1, <2>2 DEF RequestInv
<1>4. ASSUME NEW t \in Threads, Write(t) PROVE RequestInv'
  <2>1. \A u \in Threads :
           file'["home"][u] = IF u = t THEN file["home"][u] \union {Len(wrote) + 1}
                                       ELSE file["home"][u]
    BY <1>4 DEF Write, Captures, Paths
  <2>2. UNCHANGED <<requests, saved>>
    BY <1>4 DEF Write
  <2>3. \A r \in requests : t \in Tree(r.root) => late' = late \union {Len(wrote) + 1}
    BY <1>4 DEF Write
  <2>4. late \subseteq late'
    BY <1>4 DEF Write
  <2>5. ASSUME NEW r \in requests, NEW u \in Tree(r.root)
        PROVE  file'["home"][u] \subseteq saved[u].events \union late'
    <3>1. file["home"][u] \subseteq saved[u].events \union late
      BY DEF RequestInv
    <3> QED
      BY <1>t, <2>1, <2>3, <2>4, <3>1
  <2> QED
    BY <1>t, <2>2, <2>5 DEF RequestInv
<1>5. ASSUME NEW t \in Threads, Restore(t) PROVE RequestInv'
  <2>1. \A u \in Threads : file'["home"][u] = file["home"][u]
    BY <1>5 DEF Restore, Captures, Paths
  <2> QED
    BY <1>t, <1>5, <2>1 DEF Restore, RequestInv
<1>6. CASE UNCHANGED vars
  BY <1>t, <1>6 DEF vars, RequestInv
<1> QED
  BY <1>1, <1>2, <1>3, <1>4, <1>5, <1>6 DEF Next, Server, Sessions

LEMMA RetainedStep ==
    ASSUME TypeOK, RequestInv, UsageRetained, [Next]_vars
    PROVE  UsageRetained'
<1> USE DEF TypeOK
<1>0. \A e \in 1..Len(wrote) : wrote[e] \in Threads
  OBVIOUS
<1>1. ASSUME NEW m \in Monitors, Monitor(m) PROVE UsageRetained'
  <2>1. UNCHANGED <<wrote, file, late>>
    BY <1>1, MonitorFrame
  <2>2. \A t \in Threads : saved[t].events \subseteq saved'[t].events
    BY <1>1, SavedGrows
  <2> QED
    BY <1>0, <2>1, <2>2 DEF UsageRetained, Shown
<1>2. ASSUME NEW r \in requests, ServerEnd(r) PROVE UsageRetained'
  BY <1>2 DEF ServerEnd, Disk, UsageRetained, Shown
<1>3. ASSUME NEW r \in requests, NEW t \in Threads, ServerDelete(r, t) PROVE UsageRetained'
  <2>1. UNCHANGED <<wrote, saved, late>>
    BY <1>3 DEF ServerDelete
  <2>2. file["home"][t] \subseteq saved[t].events \union late
    BY <1>3 DEF ServerDelete, RequestInv
  <2>3. \A u \in Threads, q \in Paths :
           file'[q][u] = file[q][u] \/ (q = "home" /\ u = t)
    BY <1>3 DEF ServerDelete, Captures, Paths
  <2>4. ASSUME NEW e \in 1..Len(wrote) PROVE e \in Shown(wrote[e])' \/ e \in late'
    <3>1. wrote[e] \in Threads
      BY <1>0
    <3>2. CASE \E q \in Paths : e \in file[q][wrote[e]]
      BY <2>1, <2>2, <2>3, <3>1, <3>2 DEF Shown
    <3>3. CASE e \in saved[wrote[e]].events \/ e \in late
      BY <2>1, <3>3 DEF Shown
    <3> QED
      BY <3>2, <3>3 DEF UsageRetained, Shown
  <2> QED
    BY <2>1, <2>4 DEF UsageRetained
<1>4. ASSUME NEW t \in Threads, Write(t) PROVE UsageRetained'
  <2>1. \A u \in Threads, q \in Paths : file[q][u] \subseteq file'[q][u]
    BY <1>4 DEF Write, Captures, Paths
  <2>2. Len(wrote) + 1 \in file'["home"][t]
    BY <1>4 DEF Write, Captures, Paths
  <2>3. wrote' = Append(wrote, t) /\ UNCHANGED saved /\ late \subseteq late'
    BY <1>4 DEF Write
  <2>4. ASSUME NEW e \in 1..Len(wrote') PROVE e \in Shown(wrote[e])' \/ e \in late'
    <3>1. CASE e = Len(wrote) + 1
      BY <2>2, <2>3, <3>1 DEF Shown, Paths
    <3>2. CASE e \in 1..Len(wrote)
      BY <1>0, <2>1, <2>3, <3>2 DEF Shown, UsageRetained
    <3> QED
      BY <2>3, <3>1, <3>2
  <2> QED
    BY <2>4 DEF UsageRetained
<1>5. ASSUME NEW t \in Threads, Restore(t) PROVE UsageRetained'
  <2>1. \A u \in Threads, q \in Paths : file[q][u] \subseteq file'[q][u]
    BY <1>5 DEF Restore, Captures, Paths
  <2> QED
    BY <1>0, <1>5, <2>1 DEF Restore, UsageRetained, Shown
<1>6. CASE UNCHANGED vars
  BY <1>6 DEF vars, UsageRetained, Shown
<1> QED
  BY <1>1, <1>2, <1>3, <1>4, <1>5, <1>6 DEF Next, Server, Sessions

-----------------------------------------------------------------------------
(* The theorems. *)

Inv ==
    /\ TypeOK /\ OneOperation /\ OwnInv /\ AbsentInv
    /\ RequestInv /\ UsageRetained
    /\ \A m \in Monitors : JobInv(m)

LEMMA Inductive == Spec => []Inv
<1>1. Init => Inv
  BY InitType, LockInit, OwnInit, AbsentInit, JobInit, RetainedInit DEF Inv
<1>2. Inv /\ [Next]_vars => Inv'
  BY NextType, LockStep, OwnStep, AbsentStep, JobStep, RequestStep, RetainedStep DEF Inv
<1> QED
  BY <1>1, <1>2, PTL DEF Spec

\* No usage is lost (execute_with_client, prepare_delete): what was written
\* before the final validation of a deletion is in a log or in the ledger.
THEOREM UsageIsRetained == Spec => []UsageRetained
<1>1. Inv => UsageRetained
  BY DEF Inv
<1> QED
  BY <1>1, Inductive, PTL

\* What is shown of a session are its own events (merge_saved_record,
\* overlay_deleted_sessions).
THEOREM UsageCountedOnce == Spec => []CountedOnce
<1>1. Inv => CountedOnce
  BY DEF Inv, OwnInv, Own, CountedOnce, Shown
<1> QED
  BY <1>1, Inductive, PTL

\* A session recorded as deleted had no file left, restored copies included
\* (execute_with_client, reconcile_with_client).
THEOREM DeletedIsGone == Spec => []DeletedMeansGone
<1>1. Inv => DeletedMeansGone
  BY DEF Inv, AbsentInv, DeletedMeansGone
<1> QED
  BY <1>1, Inductive, PTL

\* No outcome is refused because another operation took over a member
\* (set_deletion_outcome, acquire_operation_lock).
THEOREM OutcomesAreStorable == Spec => []OutcomesStorable
<1>1. Inv => OutcomesStorable
  BY DEF Inv, JobInv, Executing, OutcomesStorable, Current
<1> QED
  BY <1>1, Inductive, PTL

Open == {t \in Threads : Unresolved(t)}

LEMMA OpenStep ==
    ASSUME TypeOK, \A m \in Monitors : JobInv(m), VerificationPossible, [Next]_vars
    PROVE  VerificationPossible'
<1> USE DEF TypeOK
<1>0. IsFiniteSet(Open) /\ Cardinality(Open) <= MaxPending
  BY DeleteAssumption, FS_Subset DEF Open, VerificationPossible
<1>a. ASSUME Open' \subseteq Open PROVE VerificationPossible'
  <2>1. IsFiniteSet(Open') /\ Cardinality(Open') <= Cardinality(Open)
    BY <1>0, <1>a, FS_Subset
  <2>2. Cardinality(Open) \in Nat /\ Cardinality(Open') \in Nat
    BY <1>0, <2>1, FS_CardinalityType
  <2>3. Cardinality(Open') <= MaxPending
    BY <1>0, <2>1, <2>2, Bounds
  <2> QED
    BY <2>3 DEF Open, VerificationPossible
<1>1. ASSUME NEW m \in Monitors, Monitor(m) PROVE VerificationPossible'
  <2>1. CASE UNCHANGED saved
    BY <1>a, <2>1 DEF Open, Unresolved
  <2>2. CASE Send(m)
    BY <2>1, <2>2 DEF Send
  <2>3. CASE Record(m)
    <3> DEFINE T == job[m].tree \union Open
    <3>1. T \subseteq Threads
      BY DEF Open, Job
    <3>2. IsFiniteSet(T)
      BY <3>1, DeleteAssumption, FS_Subset
    <3>3. Cardinality(T) <= MaxPending
      BY <2>3 DEF Record, Fits, Open
    <3>4. Open' \subseteq T
      BY <2>3 DEF Record, Open, Unresolved
    <3>5. Cardinality(Open') <= Cardinality(T) /\ IsFiniteSet(Open')
      BY <3>2, <3>4, FS_Subset
    <3>6. Cardinality(Open') <= MaxPending
      BY <3>2, <3>3, <3>5, FS_CardinalityType, Bounds
    <3> QED
      BY <3>6 DEF Open, VerificationPossible
  <2>4. CASE Marks(m)
    <3>1. PICK t \in Threads, s \in Statuses :
             Marked(m, t, s) /\ (Unresolved(t) \/ s \in {"failed", "deleted"})
      <4>1. ASSUME NEW t \in Threads, NEW read, Mark(m, t, read)
            PROVE  Unresolved(t) /\ Outcome(m, t, read) \in Statuses
        BY <4>1 DEF Mark, JobInv, Unresolved, Outcome, Statuses
      <4>2. CASE \E t \in Threads : MarkFailed(m, t) \/ Confirm(m, t)
        BY <4>2 DEF MarkFailed, Confirm, Statuses
      <4>3. CASE \E t \in Threads : \E read \in Reads(t) : Mark(m, t, read)
        BY <4>1, <4>3 DEF Mark
      <4> QED
        BY <2>4, <4>2, <4>3 DEF Marks
    <3>2. saved' = [saved EXCEPT ![t].status = s]
      BY <3>1 DEF Marked
    <3>3. Open' \subseteq Open
      BY <3>1, <3>2 DEF Open, Unresolved, Saved
    <3> QED
      BY <1>a, <3>3
  <2> QED
    BY <1>1, <2>1, <2>2, <2>3, <2>4, MonitorFrame
<1>2. CASE Server \/ Sessions \/ UNCHANGED vars
  <2>1. UNCHANGED saved
    BY <1>2 DEF Server, Sessions, ServerEnd, ServerDelete, Write, Restore, vars
  <2> QED
    BY <1>a, <2>1 DEF Open, Unresolved
<1> QED
  BY <1>1, <1>2 DEF Next

\* The open deletions stay within what one verification can handle
\* (prepare_delete_with_budget, pending_deletion_receipts_in_database).
THEOREM VerificationStaysPossible == Spec => []VerificationPossible
<1>1. Init => VerificationPossible
  <2> SUFFICES ASSUME Init PROVE VerificationPossible
    OBVIOUS
  <2>1. {t \in Threads : Unresolved(t)} = {}
    BY DEF Init, Unresolved
  <2> QED
    BY <2>1, FS_EmptySet, Bounds DEF VerificationPossible
<1>2. Inv /\ VerificationPossible /\ [Next]_vars => VerificationPossible'
  BY OpenStep DEF Inv
<1> QED
  BY <1>1, <1>2, Inductive, PTL DEF Spec

=============================================================================
