------------------------ MODULE RecorderServiceProofs ------------------------
(***************************************************************************)
(* Proofs about RecorderService, for any number of versions and options.   *)
(***************************************************************************)
EXTENDS RecorderService, TLAPS

\* The inductive invariant.

\* A definition of before these rules is on disk, loaded or running.
AnyLegacy == Legacy(unit) \/ Legacy(loaded) \/ Legacy(proc)

\* It is what is registered, or the blocker tells of it; after the history was
\* touched there is none.
FenceOK ==
    /\ AnyLegacy => blocker # "none" \/ Legacy(unit)
    /\ history # "v1" => ~AnyLegacy
    /\ cutover = "yes" => history # "v1"

\* A replacement is fenced while it changes anything, and each of its steps
\* finds what the step before it left, whatever the manager does meanwhile.
ReplacingOK ==
    /\ op.kind \notin {"install", "uninstall", "upgrade"} =>
          op.step \in {"unmarked", "disabled", "starting", "enabled", "started"}
    /\ op.kind = "start" => op.step \notin {"unmarked", "disabled"}
    /\ ~Legacy(op.target)
    /\ Gated => blocker = "new"
    /\ op.step \in {"disabled", "stopped", "written", "staged", "trusted"} => enabled = "no"
    /\ op.step \in {"stopped", "written", "staged", "trusted"} => proc = Unused
    /\ Replacing /\ op.step \in {"written", "staged", "trusted", "starting", "enabled", "started"} =>
          unit = op.target
    /\ op.step \in {"staged", "trusted"} => loaded = unit
    /\ op.step = "cleaned" => unit = Unused /\ loaded = Unused /\ proc = Unused

\* An upgrade follows its journal.
UpgradeOK ==
    /\ Pending
    /\ op.target = journal.target /\ op.enable = journal.enabled
    /\ op.step = "starting" => op.enable = "yes"
    /\ op.step = "enabled" => op.enable = "yes" /\ enabled = "yes"
    /\ op.step = "started" => enabled = op.enable

OpOK ==
    /\ op # Unused => ReplacingOK
    /\ op # Unused /\ op.kind = "upgrade" => UpgradeOK

\* An unfinished journal has the intent of the registration it started from.
JournalOK ==
    Pending =>
        /\ intent # Unused
        /\ intent.least <= journal.target.version
        /\ intent.opts = journal.target.opts
        /\ intent.enabled = journal.enabled

IInv == TypeOK /\ OpOK /\ FenceOK /\ JournalOK

-----------------------------------------------------------------------------
(* The shape of commands. *)

LEMMA Fields ==
    ASSUME NEW c \in Command
    PROVE  /\ c.kind \in Kinds
           /\ c.step \in Steps
           /\ c.target \in Maybe(Defs)
           /\ c.enable \in Flag
BY DEF Command

\* A command changes only its step as it goes on.
LEMMA ToKeeps ==
    ASSUME op \in Command, NEW s \in Steps, To(s)
    PROVE  /\ op' \in Command
           /\ op'.step = s
           /\ op'.kind = op.kind
           /\ op'.target = op.target
           /\ op'.enable = op.enable
BY DEF Command, To

LEMMA NewFields ==
    ASSUME NEW k \in Kinds, NEW s \in Steps, NEW t \in Maybe(Defs), NEW e \in Flag
    PROVE  LET c == NewCommand(k, s, t, e)
           IN  c \in Command /\ c.kind = k /\ c.step = s /\ c.target = t /\ c.enable = e
BY DEF Command, NewCommand

-----------------------------------------------------------------------------
(* The steps of commands. *)

LEMMA FenceStep == ASSUME IInv, Fence PROVE IInv'
<1>1. op \in Command
  BY DEF IInv, TypeOK, Maybe, Fence, At
<1>2. /\ op' \in Command
      /\ op'.step = "fenced"
      /\ op'.kind = op.kind /\ op'.target = op.target /\ op'.enable = op.enable
  <2>1. "fenced" \in Steps /\ To("fenced")
    BY DEF Steps, Fence
  <2>. QED  BY <1>1, <2>1, ToKeeps
<1>3. TypeOK'
  BY <1>2 DEF IInv, TypeOK, Maybe, Fence, Rest, Flag
<1>4. OpOK'
  BY <1>1, <1>2, Fields DEF IInv, TypeOK, OpOK, ReplacingOK, UpgradeOK, Gated, Replacing,
     Pending, Legacy, Maybe, Fence, At, Rest
<1>5. FenceOK'
  BY <1>1, <1>2 DEF IInv, OpOK, ReplacingOK, Gated, Replacing, FenceOK, AnyLegacy,
     Legacy, Fence, At, Rest
<1>6. JournalOK'
  BY DEF IInv, JournalOK, Pending, Fence, Rest
<1>. QED  BY <1>3, <1>4, <1>5, <1>6 DEF IInv

LEMMA UnmarkStep == ASSUME IInv, Unmark PROVE IInv'
<1>1. op \in Command
  BY DEF IInv, TypeOK, Maybe, Unmark, At
<1>2. /\ op' \in Command
      /\ op'.step = "unmarked"
      /\ op'.kind = op.kind /\ op'.target = op.target /\ op'.enable = op.enable
  <2>1. "unmarked" \in Steps /\ To("unmarked")
    BY DEF Steps, Unmark
  <2>. QED  BY <1>1, <2>1, ToKeeps
<1>3. TypeOK'
  BY <1>2 DEF IInv, TypeOK, Maybe, Unmark, Rest, Flag
<1>4. OpOK'
  BY <1>1, <1>2, Fields DEF IInv, TypeOK, OpOK, ReplacingOK, UpgradeOK, Gated, Replacing,
     Pending, Legacy, Maybe, Unmark, At, Rest
<1>5. FenceOK'
  BY <1>1, <1>2 DEF IInv, OpOK, ReplacingOK, Gated, Replacing, FenceOK, AnyLegacy,
     Legacy, Unmark, At, Rest
<1>6. JournalOK'
  BY DEF IInv, JournalOK, Pending, Unmark, Rest
<1>. QED  BY <1>3, <1>4, <1>5, <1>6 DEF IInv

LEMMA DisableStep == ASSUME IInv, Disable PROVE IInv'
<1>1. op \in Command
  BY DEF IInv, TypeOK, Maybe, Disable, At
<1>2. /\ op' \in Command
      /\ op'.step = "disabled"
      /\ op'.kind = op.kind /\ op'.target = op.target /\ op'.enable = op.enable
  <2>1. "disabled" \in Steps /\ To("disabled")
    BY DEF Steps, Disable
  <2>. QED  BY <1>1, <2>1, ToKeeps
<1>3. TypeOK'
  BY <1>2 DEF IInv, TypeOK, Maybe, Disable, Rest, Flag
<1>4. OpOK'
  BY <1>1, <1>2, Fields DEF IInv, TypeOK, OpOK, ReplacingOK, UpgradeOK, Gated, Replacing,
     Pending, Legacy, Maybe, Disable, At, Rest
<1>5. FenceOK'
  BY <1>1, <1>2 DEF IInv, OpOK, ReplacingOK, Gated, Replacing, FenceOK, AnyLegacy,
     Legacy, Disable, At, Rest
<1>6. JournalOK'
  BY DEF IInv, JournalOK, Pending, Disable, Rest
<1>. QED  BY <1>3, <1>4, <1>5, <1>6 DEF IInv

LEMMA WriteUnitStep == ASSUME IInv, WriteUnit PROVE IInv'
<1>1. op \in Command
  BY DEF IInv, TypeOK, Maybe, WriteUnit, At
<1>2. /\ op' \in Command
      /\ op'.step = "written"
      /\ op'.kind = op.kind /\ op'.target = op.target /\ op'.enable = op.enable
  <2>1. "written" \in Steps /\ To("written")
    BY DEF Steps, WriteUnit
  <2>. QED  BY <1>1, <2>1, ToKeeps
<1>3. TypeOK'
  BY <1>1, <1>2, Fields DEF IInv, TypeOK, Maybe, WriteUnit, Rest, Flag
<1>4. OpOK'
  BY <1>1, <1>2, Fields DEF IInv, TypeOK, OpOK, ReplacingOK, UpgradeOK, Gated, Replacing,
     Pending, Legacy, Maybe, WriteUnit, At, Rest
<1>5. FenceOK'
  BY <1>1, <1>2 DEF IInv, OpOK, ReplacingOK, Gated, Replacing, FenceOK, AnyLegacy,
     Legacy, WriteUnit, At, Rest
<1>6. JournalOK'
  BY DEF IInv, JournalOK, Pending, WriteUnit, Rest
<1>. QED  BY <1>3, <1>4, <1>5, <1>6 DEF IInv

LEMMA ReloadStep == ASSUME IInv, Reload PROVE IInv'
<1>1. op \in Command
  BY DEF IInv, TypeOK, Maybe, Reload, At
<1>2. /\ op' \in Command
      /\ op'.step = "staged"
      /\ op'.kind = op.kind /\ op'.target = op.target /\ op'.enable = op.enable
  <2>1. "staged" \in Steps /\ To("staged")
    BY DEF Steps, Reload
  <2>. QED  BY <1>1, <2>1, ToKeeps
<1>3. TypeOK'
  BY <1>2 DEF IInv, TypeOK, Maybe, Reload, Rest, Flag
<1>4. OpOK'
  BY <1>1, <1>2, Fields DEF IInv, TypeOK, OpOK, ReplacingOK, UpgradeOK, Gated, Replacing,
     Pending, Legacy, Maybe, Reload, At, Rest
<1>5. FenceOK'
  BY <1>1, <1>2 DEF IInv, OpOK, ReplacingOK, Gated, Replacing, FenceOK, AnyLegacy,
     Legacy, Reload, At, Rest
<1>6. JournalOK'
  BY DEF IInv, JournalOK, Pending, Reload, Rest
<1>. QED  BY <1>3, <1>4, <1>5, <1>6 DEF IInv

LEMMA TrustStep == ASSUME IInv, Trust PROVE IInv'
<1>1. op \in Command
  BY DEF IInv, TypeOK, Maybe, Trust, At
<1>2. /\ op' \in Command
      /\ op'.step = "trusted"
      /\ op'.kind = op.kind /\ op'.target = op.target /\ op'.enable = op.enable
  <2>1. "trusted" \in Steps /\ To("trusted")
    BY DEF Steps, Trust
  <2>. QED  BY <1>1, <2>1, ToKeeps
<1>3. TypeOK'
  BY <1>2 DEF IInv, TypeOK, Maybe, Trust, Rest, Flag
<1>4. OpOK'
  BY <1>1, <1>2, Fields DEF IInv, TypeOK, OpOK, ReplacingOK, UpgradeOK, Gated, Replacing,
     Pending, Legacy, Maybe, Trust, At, Rest
<1>5. FenceOK'
  BY <1>1, <1>2 DEF IInv, OpOK, ReplacingOK, Gated, Replacing, FenceOK, AnyLegacy,
     Legacy, Trust, At, Rest
<1>6. JournalOK'
  BY DEF IInv, JournalOK, Pending, Trust, Rest
<1>. QED  BY <1>3, <1>4, <1>5, <1>6 DEF IInv

LEMMA EnableStep == ASSUME IInv, Enable PROVE IInv'
<1>1. op \in Command
  BY DEF IInv, TypeOK, Maybe, Enable, At
<1>2. /\ op' \in Command
      /\ op'.step = "enabled"
      /\ op'.kind = op.kind /\ op'.target = op.target /\ op'.enable = op.enable
  <2>1. "enabled" \in Steps /\ To("enabled")
    BY DEF Steps, Enable
  <2>. QED  BY <1>1, <2>1, ToKeeps
<1>3. TypeOK'
  BY <1>2 DEF IInv, TypeOK, Maybe, Enable, Rest, Flag
<1>4. OpOK'
  BY <1>1, <1>2, Fields DEF IInv, TypeOK, OpOK, ReplacingOK, UpgradeOK, Gated, Replacing,
     Pending, Legacy, Maybe, Enable, At, Rest
<1>5. FenceOK'
  BY <1>1, <1>2 DEF IInv, OpOK, ReplacingOK, Gated, Replacing, FenceOK, AnyLegacy,
     Legacy, Enable, At, Rest
<1>6. JournalOK'
  BY DEF IInv, JournalOK, Pending, Enable, Rest
<1>. QED  BY <1>3, <1>4, <1>5, <1>6 DEF IInv

LEMMA StartUnitStep == ASSUME IInv, StartUnit PROVE IInv'
<1>1. op \in Command
  BY DEF IInv, TypeOK, Maybe, StartUnit, At
<1>2. /\ op' \in Command
      /\ op'.step = "started"
      /\ op'.kind = op.kind /\ op'.target = op.target /\ op'.enable = op.enable
  <2>1. "started" \in Steps /\ To("started")
    BY DEF Steps, StartUnit
  <2>. QED  BY <1>1, <2>1, ToKeeps
<1>3. TypeOK'
  BY <1>2 DEF IInv, TypeOK, Maybe, StartUnit, Rest, Flag
<1>4. OpOK'
  BY <1>1, <1>2, Fields DEF IInv, TypeOK, OpOK, ReplacingOK, UpgradeOK, Gated, Replacing,
     Pending, Legacy, Maybe, StartUnit, At, Rest
<1>5. FenceOK'
  BY <1>1, <1>2 DEF IInv, OpOK, ReplacingOK, Gated, Replacing, FenceOK, AnyLegacy,
     Legacy, StartUnit, At, Rest
<1>6. JournalOK'
  BY DEF IInv, JournalOK, Pending, StartUnit, Rest
<1>. QED  BY <1>3, <1>4, <1>5, <1>6 DEF IInv

LEMMA FailStep == ASSUME IInv, Fail PROVE IInv'
<1>1. op \in Command
  BY DEF IInv, TypeOK, Maybe, Fail, Gated, Replacing
<1>2. /\ op' \in Command
      /\ op'.step = "failing"
      /\ op'.kind = op.kind /\ op'.target = op.target /\ op'.enable = op.enable
  <2>1. "failing" \in Steps /\ To("failing")
    BY DEF Steps, Fail
  <2>. QED  BY <1>1, <2>1, ToKeeps
<1>3. TypeOK'
  BY <1>2 DEF IInv, TypeOK, Maybe, Fail, Rest, Flag
<1>4. OpOK'
  BY <1>1, <1>2, Fields DEF IInv, TypeOK, OpOK, ReplacingOK, UpgradeOK, Gated, Replacing,
     Pending, Legacy, Maybe, Fail, At, Rest
<1>5. FenceOK'
  BY <1>1, <1>2 DEF IInv, OpOK, ReplacingOK, Gated, Replacing, FenceOK, AnyLegacy,
     Legacy, Fail, At, Rest
<1>6. JournalOK'
  BY DEF IInv, JournalOK, Pending, Fail, Rest
<1>. QED  BY <1>3, <1>4, <1>5, <1>6 DEF IInv

LEMMA CleanupStep == ASSUME IInv, Cleanup PROVE IInv'
<1>1. op \in Command
  BY DEF IInv, TypeOK, Maybe, Cleanup, At
<1>2. /\ op' \in Command
      /\ op'.step = "cleaned"
      /\ op'.kind = op.kind /\ op'.target = op.target /\ op'.enable = op.enable
  <2>1. "cleaned" \in Steps /\ To("cleaned")
    BY DEF Steps, Cleanup
  <2>. QED  BY <1>1, <2>1, ToKeeps
<1>3. TypeOK'
  BY <1>2 DEF IInv, TypeOK, Maybe, Cleanup, Rest, Flag
<1>4. OpOK'
  BY <1>1, <1>2, Fields DEF IInv, TypeOK, OpOK, ReplacingOK, UpgradeOK, Gated, Replacing,
     Pending, Legacy, Maybe, Cleanup, At, Rest
<1>5. FenceOK'
  BY <1>1, <1>2 DEF IInv, OpOK, ReplacingOK, Gated, Replacing, FenceOK, AnyLegacy,
     Legacy, Cleanup, At, Rest
<1>6. JournalOK'
  BY DEF IInv, JournalOK, Pending, Cleanup, Rest
<1>. QED  BY <1>3, <1>4, <1>5, <1>6 DEF IInv

LEMMA StopStep == ASSUME IInv, Stop PROVE IInv'
<1>1. op \in Command
  BY DEF IInv, TypeOK, Maybe, Stop, At
<1> DEFINE s == CASE op.kind = "stop"    -> "started"
                [] op.kind = "restart" -> "starting"
                [] OTHER               -> "stopped"
<1>2. /\ op' \in Command
      /\ op'.step = s
      /\ op'.kind = op.kind /\ op'.target = op.target /\ op'.enable = op.enable
  <2>1. s \in Steps /\ To(s)
    BY DEF Steps, Stop
  <2> HIDE DEF s
  <2>. QED  BY <1>1, <2>1, ToKeeps
<1>3. TypeOK'
  BY <1>2 DEF IInv, TypeOK, Maybe, Stop, Rest, Flag
<1>4. OpOK'
  <2>1. CASE Replacing
    <3>1. op'.step = "stopped"
      BY <1>2, <2>1 DEF Replacing
    <3>. QED
      BY <1>2, <2>1, <3>1 DEF IInv, OpOK, ReplacingOK, UpgradeOK, Gated, Replacing,
         Pending, Legacy, Stop, At, Rest
  <2>2. CASE ~Replacing
    <3>1. op.kind \in {"stop", "restart"} /\ op # Unused
      BY <1>1, <2>2, Fields DEF IInv, OpOK, ReplacingOK, Replacing, Kinds, Stop, At
    <3>2. op'.step \in {"started", "starting"}
      BY <1>2, <3>1
    <3>. QED
      BY <1>2, <3>1, <3>2 DEF IInv, OpOK, ReplacingOK, Gated, Replacing, Legacy, Stop, Rest
  <2>. QED  BY <2>1, <2>2
<1>5. FenceOK'
  BY <1>1, <1>2, Fields DEF IInv, OpOK, ReplacingOK, Gated, Replacing, FenceOK,
     AnyLegacy, Legacy, Stop, At, Rest
<1>6. JournalOK'
  BY DEF IInv, JournalOK, Pending, Stop, Rest
<1>. QED  BY <1>3, <1>4, <1>5, <1>6 DEF IInv

LEMMA UnfenceStep == ASSUME IInv, Unfence PROVE IInv'
<1>1. op \in Command
  BY DEF IInv, TypeOK, Maybe, Unfence, At
<1> DEFINE s == IF op.enable = "yes" THEN "starting" ELSE "started"
<1>2. /\ op' \in Command
      /\ op'.step = s
      /\ op'.kind = op.kind /\ op'.target = op.target /\ op'.enable = op.enable
  <2>1. s \in Steps /\ To(s)
    BY DEF Steps, Unfence
  <2> HIDE DEF s
  <2>. QED  BY <1>1, <2>1, ToKeeps
<1>3. TypeOK'
  BY <1>2 DEF IInv, TypeOK, Maybe, Unfence, Rest, Flag
<1>4. OpOK'
  BY <1>1, <1>2, Fields DEF IInv, TypeOK, OpOK, ReplacingOK, UpgradeOK, Gated, Replacing,
     Pending, Legacy, Maybe, Flag, Unfence, At, Rest
<1>5. FenceOK'
  BY <1>1, <1>2, Fields DEF IInv, OpOK, ReplacingOK, Gated, Replacing, FenceOK,
     AnyLegacy, Legacy, Unfence, At, Rest
<1>6. JournalOK'
  BY DEF IInv, JournalOK, Pending, Unfence, Rest
<1>. QED  BY <1>3, <1>4, <1>5, <1>6 DEF IInv

LEMMA ClearFenceStep ==
    ASSUME IInv, ClearFence
    PROVE  IInv'
<1>1. TypeOK'
  BY DEF IInv, TypeOK, Maybe, ClearFence, Ended, Flag, Rest
<1>2. OpOK'
  BY DEF OpOK, ClearFence, Ended
<1>3. FenceOK'
  BY DEF IInv, TypeOK, OpOK, ReplacingOK, Gated, Replacing, FenceOK, AnyLegacy, Legacy,
     ClearFence, At, Rest
<1>4. JournalOK'
  BY DEF IInv, OpOK, UpgradeOK, JournalOK, Pending, ClearFence, Rest
<1>. QED  BY <1>1, <1>2, <1>3, <1>4 DEF IInv

LEMMA CleanupUnprovenStep ==
    ASSUME IInv, NEW u \in BOOLEAN, NEW p \in BOOLEAN, NEW e \in BOOLEAN, NEW l \in BOOLEAN,
           CleanupUnproven(u, p, e, l)
    PROVE  IInv'
<1>1. TypeOK'
  BY DEF IInv, TypeOK, Maybe, CleanupUnproven, Ended, Flag, Rest, Partly
<1>2. OpOK'
  BY DEF OpOK, CleanupUnproven, Ended
<1>3. FenceOK'
  BY DEF IInv, TypeOK, OpOK, ReplacingOK, Gated, Replacing, FenceOK, AnyLegacy, Legacy,
     CleanupUnproven, At, Rest, Partly
<1>4. JournalOK'
  BY DEF IInv, OpOK, UpgradeOK, JournalOK, Pending, CleanupUnproven, Rest, Partly
<1>. QED  BY <1>1, <1>2, <1>3, <1>4 DEF IInv

LEMMA InterruptStep ==
    ASSUME IInv, Interrupt
    PROVE  IInv'
<1>1. TypeOK'
  BY DEF IInv, TypeOK, Maybe, Interrupt, Ended, Flag, Frame
<1>2. OpOK'
  BY DEF OpOK, Interrupt, Ended
<1>3. FenceOK'
  BY DEF IInv, TypeOK, OpOK, ReplacingOK, Gated, Replacing, FenceOK, AnyLegacy, Legacy,
     Interrupt, At, Frame
<1>4. JournalOK'
  BY DEF IInv, OpOK, UpgradeOK, JournalOK, Pending, Interrupt, Frame
<1>. QED  BY <1>1, <1>2, <1>3, <1>4 DEF IInv

LEMMA LoginStep ==
    ASSUME IInv, Login
    PROVE  IInv'
<1>1. TypeOK'
  BY DEF IInv, TypeOK, Maybe, Login, Ended, Flag
<1>2. OpOK'
  BY DEF OpOK, Login, Ended
<1>3. FenceOK'
  BY DEF IInv, TypeOK, OpOK, ReplacingOK, Gated, Replacing, FenceOK, AnyLegacy, Legacy,
     Login, At
<1>4. JournalOK'
  BY DEF IInv, OpOK, UpgradeOK, JournalOK, Pending, Login
<1>. QED  BY <1>1, <1>2, <1>3, <1>4 DEF IInv

LEMMA FinishStep == ASSUME IInv, Finish PROVE IInv'
<1>1. CASE op.kind = "upgrade"
  <2>1. journal \in Journal /\ journal' = [journal EXCEPT !.phase = "complete"]
    BY <1>1 DEF IInv, TypeOK, OpOK, UpgradeOK, Pending, Maybe, Finish, At, Completed
  <2>2. journal' \in Journal /\ journal'.phase = "complete"
    BY <2>1 DEF Journal
  <2>3. TypeOK'
    BY <1>1, <2>2 DEF IInv, TypeOK, Maybe, Finish, Ended
  <2>4. JournalOK'
    BY <2>2 DEF JournalOK, Pending
  <2>. QED  BY <2>3, <2>4 DEF IInv, OpOK, FenceOK, AnyLegacy, Legacy, Finish, Ended
<1>2. CASE op.kind # "upgrade"
  <2>1. journal' = Unused \/ UNCHANGED <<journal, intent>>
    BY <1>2 DEF Finish
  <2>2. TypeOK'
    BY <1>2 DEF IInv, TypeOK, Maybe, Finish, Ended
  <2>3. JournalOK'
    BY <2>1 DEF IInv, JournalOK, Pending
  <2>. QED  BY <2>2, <2>3 DEF IInv, OpOK, FenceOK, AnyLegacy, Legacy, Finish, Ended
<1>. QED  BY <1>1, <1>2

-----------------------------------------------------------------------------
(* The manager, the recorder and the history. *)

LEMMA AutostartStep == ASSUME IInv, Autostart PROVE IInv'
<1>1. TypeOK'
  BY DEF IInv, TypeOK, Maybe, Flag, Autostart, Cmd
<1>2. OpOK'
  BY DEF IInv, OpOK, ReplacingOK, UpgradeOK, Gated, Replacing, Pending, Legacy,
     Autostart, Cmd
<1>3. FenceOK'
  BY DEF IInv, FenceOK, AnyLegacy, Legacy, Autostart, Cmd
<1>4. JournalOK'
  BY DEF IInv, JournalOK, Pending, Autostart, Cmd
<1>. QED  BY <1>1, <1>2, <1>3, <1>4 DEF IInv

LEMMA RestartStep == ASSUME IInv, Restart PROVE IInv'
<1>1. TypeOK'
  BY DEF IInv, TypeOK, Maybe, Flag, Restart, Cmd
<1>2. OpOK'
  BY DEF IInv, OpOK, ReplacingOK, UpgradeOK, Gated, Replacing, Pending, Legacy, Restart, Cmd
<1>3. FenceOK'
  BY DEF IInv, FenceOK, AnyLegacy, Legacy, Restart, Cmd
<1>4. JournalOK'
  BY DEF IInv, JournalOK, Pending, Restart, Cmd
<1>. QED  BY <1>1, <1>2, <1>3, <1>4 DEF IInv

LEMMA ActivateStep == ASSUME IInv, Activate PROVE IInv'
<1>1. TypeOK'
  BY DEF IInv, TypeOK, Maybe, Flag, Activate, Cmd
<1>2. OpOK'
  BY DEF IInv, OpOK, ReplacingOK, UpgradeOK, Gated, Replacing, Pending, Legacy, Activate,
     Cmd
<1>3. FenceOK'
  BY DEF IInv, FenceOK, AnyLegacy, Legacy, Activate, Cmd
<1>4. JournalOK'
  BY DEF IInv, JournalOK, Pending, Activate, Cmd
<1>. QED  BY <1>1, <1>2, <1>3, <1>4 DEF IInv

LEMMA ExitStep == ASSUME IInv, Exit PROVE IInv'
<1>1. TypeOK'
  BY DEF IInv, TypeOK, Maybe, Flag, Exit, Cmd
<1>2. OpOK'
  BY DEF IInv, OpOK, ReplacingOK, UpgradeOK, Gated, Replacing, Pending, Legacy, Exit, Cmd
<1>3. FenceOK'
  BY DEF IInv, FenceOK, AnyLegacy, Legacy, Exit, Cmd
<1>4. JournalOK'
  BY DEF IInv, JournalOK, Pending, Exit, Cmd
<1>. QED  BY <1>1, <1>2, <1>3, <1>4 DEF IInv

LEMMA BeginCutoverStep == ASSUME IInv, BeginCutover PROVE IInv'
<1>1. TypeOK'
  BY DEF IInv, TypeOK, Maybe, Flag, BeginCutover, Cmd
<1>2. OpOK'
  BY DEF IInv, OpOK, ReplacingOK, UpgradeOK, Gated, Replacing, Pending, Legacy,
     BeginCutover, Cmd
<1>3. FenceOK'
  BY DEF IInv, FenceOK, Trusted, Absent, Registered, AnyLegacy, Legacy, BeginCutover, Cmd
<1>4. JournalOK'
  BY DEF IInv, JournalOK, Pending, BeginCutover, Cmd
<1>. QED  BY <1>1, <1>2, <1>3, <1>4 DEF IInv

LEMMA EndCutoverStep == ASSUME IInv, NEW h \in {"migrating", "v2"}, EndCutover(h) PROVE IInv'
<1>1. TypeOK'
  BY DEF IInv, TypeOK, Maybe, Flag, EndCutover, Cmd
<1>2. OpOK'
  BY DEF IInv, OpOK, ReplacingOK, UpgradeOK, Gated, Replacing, Pending, Legacy,
     EndCutover, Cmd
<1>3. FenceOK'
  BY DEF IInv, FenceOK, AnyLegacy, Legacy, EndCutover, Cmd
<1>4. JournalOK'
  BY DEF IInv, JournalOK, Pending, EndCutover, Cmd
<1>. QED  BY <1>1, <1>2, <1>3, <1>4 DEF IInv

LEMMA SettleStep == ASSUME IInv, Settle PROVE IInv'
<1>1. TypeOK'
  BY DEF IInv, TypeOK, Maybe, Flag, Settle, Frame
<1>2. OpOK'
  BY DEF IInv, OpOK, ReplacingOK, UpgradeOK, Gated, Replacing, Pending, Legacy, Settle,
     Frame
<1>3. FenceOK'
  BY DEF IInv, FenceOK, AnyLegacy, Legacy, Settle, Frame
<1>4. JournalOK'
  BY DEF IInv, JournalOK, Pending, Settle, Frame
<1>. QED  BY <1>1, <1>2, <1>3, <1>4 DEF IInv

-----------------------------------------------------------------------------
(* The beginning of the commands. *)

\* A command that begins leaves everything else as it is.
LEMMA BeginStep ==
    ASSUME IInv, NEW k \in Kinds \ {"upgrade"}, NEW s \in Steps,
           NEW t \in Maybe(Defs), NEW e \in Flag,
           op' = NewCommand(k, s, t, e), ~Legacy(t),
           k \in {"install", "uninstall"} => s = "begin",
           k = "start" => s = "starting",
           k \in {"stop", "restart"} => s = "unmarked",
           UNCHANGED <<Frame, fresh, blocker, journal, intent, settled>>
    PROVE  IInv'
<1>1. op' \in Command /\ op'.kind = k /\ op'.step = s /\ op'.target = t
  BY NewFields
<1>2. TypeOK'
  BY <1>1 DEF IInv, TypeOK, Maybe, Frame
<1>3. OpOK'
  BY <1>1 DEF OpOK, ReplacingOK, Gated, Replacing, Kinds, Legacy
<1>4. FenceOK' /\ JournalOK'
  BY DEF IInv, FenceOK, AnyLegacy, Legacy, JournalOK, Pending, Frame
<1>. QED  BY <1>2, <1>3, <1>4 DEF IInv

LEMMA VersionBounds ==
    /\ Versions \subseteq 0..MaxVersion
    /\ Versions \subseteq Nat
    /\ \A v \in Versions : v # 0
BY ServiceAssumption DEF Versions

LEMMA InstallStep ==
    ASSUME IInv, NEW v \in Versions, NEW o \in Options, Install(v, o)
    PROVE  IInv'
<1> DEFINE t == [version |-> v, opts |-> o]
<1>1. t \in Maybe(Defs) /\ ~Legacy(t)
  BY VersionBounds DEF Maybe, Defs, Legacy
<1>2. op' = NewCommand("install", "begin", t, "yes")
  BY DEF Install
<1>3. UNCHANGED <<Frame, fresh, blocker, journal, intent, settled>>
  BY DEF Install
<1> HIDE DEF t
<1>. QED  BY <1>1, <1>2, <1>3, BeginStep DEF Kinds, Steps, Flag

LEMMA UninstallStep ==
    ASSUME IInv, NEW v \in Versions, Uninstall(v)
    PROVE  IInv'
<1>1. Unused \in Maybe(Defs) /\ ~Legacy(Unused)
  BY DEF Maybe, Legacy
<1>2. op' = NewCommand("uninstall", "begin", Unused, "no")
  BY DEF Uninstall
<1>3. UNCHANGED <<Frame, fresh, blocker, journal, intent, settled>>
  BY DEF Uninstall
<1>. QED  BY <1>1, <1>2, <1>3, BeginStep DEF Kinds, Steps, Flag

LEMMA LifecycleStep ==
    ASSUME IInv, NEW v \in Versions, NEW k \in {"start", "stop", "restart"}, Lifecycle(v, k)
    PROVE  IInv'
<1> DEFINE s == IF k = "start" THEN "starting" ELSE "unmarked"
<1>1. unit \in Maybe(Defs) /\ ~Legacy(unit)
  BY DEF IInv, TypeOK, Lifecycle, Registered
<1>2. op' = NewCommand(k, s, unit, "yes")
  BY DEF Lifecycle
<1>3. UNCHANGED <<Frame, fresh, blocker, journal, intent, settled>>
  BY DEF Lifecycle
<1>4. k = "start" => s = "starting"
  OBVIOUS
<1>5. k \in {"stop", "restart"} => s = "unmarked"
  OBVIOUS
<1>6. s \in Steps /\ k \in Kinds \ {"upgrade"}
  BY DEF Steps, Kinds
<1> HIDE DEF s
<1>. QED  BY <1>1, <1>2, <1>3, <1>4, <1>5, <1>6, BeginStep DEF Flag

\* An upgrade that begins follows the journal it saves, or only completes one.
LEMMA JournalStep ==
    ASSUME IInv, NEW j \in Journal, NEW i \in Intent,
           j.phase = "pending", j.target.version # 0,
           i.least <= j.target.version, i.opts = j.target.opts, i.enabled = j.enabled,
           intent' = i, op = Unused,
           (Completed(j) /\ UNCHANGED op) \/ Prepared(j),
           blocker' \in {"none", "old", "new"}, blocker' = "none" => blocker = "none",
           fresh' \in {"no", fresh},
           UNCHANGED <<Frame, settled>>
    PROVE  IInv'
<1>1. CASE Completed(j) /\ UNCHANGED op
  <2>1. journal' \in Journal /\ journal'.phase = "complete"
    BY <1>1 DEF Completed, Journal
  <2>2. TypeOK'
    BY <1>1, <2>1 DEF IInv, TypeOK, Maybe, Frame, Flag
  <2>3. OpOK' /\ JournalOK'
    BY <1>1, <2>1 DEF OpOK, JournalOK, Pending
  <2>4. FenceOK'
    BY DEF IInv, TypeOK, FenceOK, AnyLegacy, Legacy, Frame
  <2>. QED  BY <2>2, <2>3, <2>4 DEF IInv
<1>2. CASE Prepared(j)
  <2>0. j.target \in Maybe(Defs) /\ j.enabled \in Flag /\ ~Legacy(j.target)
    BY DEF Journal, Maybe, Legacy
  <2>1. /\ op' \in Command /\ op'.kind = "upgrade" /\ op'.step = "begin"
        /\ op'.target = j.target /\ op'.enable = j.enabled
    BY <1>2, <2>0, NewFields DEF Prepared, Kinds, Steps
  <2>2. TypeOK'
    BY <1>2, <2>1 DEF IInv, TypeOK, Maybe, Frame, Flag, Prepared
  <2>3. journal' = j /\ journal' # Unused /\ intent' # Unused
    BY <1>2, ServiceAssumption DEF Prepared
  <2>4. OpOK'
    BY <2>0, <2>1, <2>3 DEF OpOK, ReplacingOK, UpgradeOK, Pending, Gated, Replacing, Legacy
  <2>5. JournalOK'
    BY <2>3 DEF JournalOK, Pending
  <2>6. FenceOK'
    BY DEF IInv, TypeOK, FenceOK, AnyLegacy, Legacy, Frame
  <2>. QED  BY <2>2, <2>4, <2>5, <2>6 DEF IInv
<1>. QED  BY <1>1, <1>2

LEMMA UpgradeStep ==
    ASSUME IInv, NEW v \in Versions, Upgrade(v)
    PROVE  IInv'
<1> DEFINE j == [target |-> [unit EXCEPT !.version = v], prev |-> unit,
                 enabled |-> enabled, phase |-> "pending"]
           i == [opts |-> unit.opts, enabled |-> enabled, least |-> v]
<1>1. unit \in Defs /\ enabled \in Flag
  BY DEF IInv, TypeOK, Maybe, Upgrade, Registered
<1>2. [unit EXCEPT !.version = v] \in Defs /\ [unit EXCEPT !.version = v].version = v
      /\ [unit EXCEPT !.version = v].opts = unit.opts /\ unit.opts \in Options
  BY <1>1, VersionBounds DEF Defs
<1>3. j \in Journal /\ j.phase = "pending" /\ j.enabled = enabled
      /\ j.target.version = v /\ j.target.opts = unit.opts
  BY <1>1, <1>2 DEF Journal
<1>4. i \in Intent /\ i.opts = unit.opts /\ i.enabled = enabled /\ i.least = v
  BY <1>1, <1>2 DEF Intent
<1>5. (Completed(j) /\ UNCHANGED op) \/ Prepared(j)
  BY DEF Upgrade
<1>6. /\ intent' = i /\ op = Unused /\ fresh' = "no"
      /\ UNCHANGED <<Frame, settled>>
  BY DEF Upgrade
<1>7. blocker' \in {"none", "old", "new"} /\ (blocker' = "none" => blocker = "none")
  BY DEF Upgrade
<1>8. v # 0 /\ v <= v
  BY VersionBounds
<1> HIDE DEF i, j
<1>. QED  BY <1>3, <1>4, <1>5, <1>6, <1>7, <1>8, JournalStep

LEMMA ResumeStep ==
    ASSUME IInv, NEW v \in Versions, Resume(v)
    PROVE  IInv'
<1> DEFINE i == [intent EXCEPT !.least = IF @ < v THEN v ELSE @]
<1>1. journal \in Journal /\ journal.phase = "pending"
  BY DEF IInv, TypeOK, Maybe, Resume, Pending
<1>2. intent \in Intent
  BY DEF IInv, TypeOK, Maybe, JournalOK, Resume
<1>3. /\ intent.least <= journal.target.version
      /\ intent.opts = journal.target.opts /\ intent.enabled = journal.enabled
  BY DEF IInv, JournalOK, Resume
<1>4. journal.target \in Defs /\ journal.target.version \in Nat /\ intent.least \in Versions
  BY <1>1, <1>2, ServiceAssumption DEF Journal, Defs, Intent
<1>5. v >= journal.target.version
  BY DEF Resume, MayRead, Pending
<1>6. i \in Intent /\ i.least = v /\ i.opts = intent.opts /\ i.enabled = intent.enabled
  BY <1>2, <1>3, <1>4, <1>5, VersionBounds DEF Intent
<1>7. intent' = i /\ op = Unused /\ UNCHANGED <<Frame, fresh, blocker, settled>>
  BY DEF Resume
<1>8. blocker' \in {"none", "old", "new"} /\ (blocker' = "none" => blocker = "none")
  BY <1>7 DEF IInv, TypeOK
<1>9. v # 0 /\ v <= v
  BY VersionBounds
<1>10. CASE journal.target.version = v /\ Completed(journal) /\ UNCHANGED op
  <2> HIDE DEF i
  <2>. QED  BY <1>1, <1>3, <1>6, <1>7, <1>8, <1>9, <1>10, JournalStep
<1>11. CASE Prepared(Resumed(v))
  <2>1. unit = Unused \/ unit \in Defs
    BY DEF IInv, TypeOK, Maybe
  <2>2. /\ Resumed(v) \in Journal /\ Resumed(v).phase = "pending"
        /\ Resumed(v).target.version = v /\ Resumed(v).target.opts = journal.target.opts
        /\ Resumed(v).enabled = journal.enabled
    BY <1>1, <2>1, VersionBounds DEF Resumed, Journal, Defs
  <2> HIDE DEF i
  <2>. QED  BY <1>3, <1>6, <1>7, <1>8, <1>9, <1>11, <2>2, JournalStep
<1>. QED  BY <1>10, <1>11 DEF Resume

-----------------------------------------------------------------------------
(* What a step may change. *)

\* Only WriteUnit puts another definition in place.
LEMMA OnlyWritten ==
    ASSUME Next, unit' # unit, unit' # Unused
    PROVE  WriteUnit
<1>1. ~User /\ ~Retry
  BY DEF User, Install, Uninstall, Lifecycle, Retry, Upgrade, Resume, Frame
<1>2. ~Startup /\ ~Settle /\ ~Login
  BY DEF Startup, Autostart, Activate, BeginCutover, EndCutover, Settle, Login, Frame
<1>3. ~Faults
  BY <1>2 DEF Faults, Fail, Interrupt, Exit, Restart, EndCutover, CleanupUnproven,
     Partly, Frame
<1>4. Progress
  BY <1>1, <1>2, <1>3 DEF Next
<1>. QED
  BY <1>4 DEF Progress, Fence, Unmark, Disable, Stop, Reload, Trust, Unfence, Enable,
     StartUnit, Finish, Cleanup, ClearFence

\* Only these complete a journal.
LEMMA OnlyCompleted ==
    ASSUME IInv, Next, Pending, journal' # Unused, journal'.phase = "complete"
    PROVE  (\E v \in Versions : Resume(v)) \/ Finish
<1>1. journal' # journal
  BY DEF Pending
<1>2. ~User /\ ~\E v \in Versions : Upgrade(v)
  BY <1>1 DEF User, Install, Uninstall, Lifecycle, Upgrade
<1>3. ~Startup /\ ~Settle /\ ~Login
  BY <1>1 DEF Startup, Autostart, Activate, BeginCutover, EndCutover, Settle, Login, Cmd
<1>4. ~Faults
  BY <1>1, <1>3 DEF Faults, Fail, Interrupt, Exit, Restart, EndCutover, CleanupUnproven, Cmd
<1>5. Progress \/ \E v \in Versions : Resume(v)
  BY <1>2, <1>3, <1>4 DEF Next, Retry
<1>. QED
  BY <1>1, <1>5 DEF Progress, Fence, Unmark, Disable, Stop, WriteUnit, Reload, Trust,
     Unfence,
     Enable, StartUnit, Cleanup, ClearFence

\* What a completed upgrade has registered is what its journal says.
LEMMA CompletedAsPlanned ==
    ASSUME IInv, Next, Pending, journal' # Unused, journal'.phase = "complete"
    PROVE  unit.opts = journal.target.opts /\ enabled = journal.enabled
<1>1. CASE \E v \in Versions : Resume(v)
  <2>1. PICK v \in Versions : Resume(v)
    BY <1>1
  <2>2. CASE unit = journal.target /\ enabled = journal.enabled
    BY <2>2
  <2>3. CASE Prepared(Resumed(v))
    <3>1. journal \in Journal /\ journal' = Resumed(v)
      BY <2>3 DEF IInv, TypeOK, Maybe, Pending, Prepared
    <3>2. Resumed(v).phase = journal.phase
      BY <3>1 DEF Resumed, Journal
    <3>. QED  BY <3>1, <3>2 DEF Pending
  <2>. QED  BY <2>1, <2>2, <2>3 DEF Resume
<1>2. CASE Finish
  <2>1. op.kind = "upgrade"
    BY <1>2 DEF Finish, Pending
  <2>. QED
    BY <1>2, <2>1 DEF IInv, OpOK, ReplacingOK, UpgradeOK, Replacing, Finish, At
<1>. QED  BY <1>1, <1>2, OnlyCompleted

-----------------------------------------------------------------------------
(* The theorems. *)

LEMMA InitOK == Init => IInv
<1> SUFFICES ASSUME Init PROVE IInv
  OBVIOUS
<1>1. TypeOK
  BY DEF Init, TypeOK, Maybe, Flag
<1>2. OpOK /\ JournalOK /\ FenceOK
  BY DEF Init, OpOK, JournalOK, Pending, FenceOK, AnyLegacy, Legacy
<1>. QED  BY <1>1, <1>2 DEF IInv

LEMMA StepOK == IInv /\ [Next]_vars => IInv'
<1> SUFFICES ASSUME IInv, [Next]_vars PROVE IInv'
  OBVIOUS
<1>1. CASE User
  BY <1>1, InstallStep, UninstallStep, LifecycleStep DEF User
<1>2. CASE Retry
  BY <1>2, UpgradeStep, ResumeStep DEF Retry
<1>3. CASE Progress
  BY <1>3, FenceStep, UnmarkStep, DisableStep, StopStep, WriteUnitStep, ReloadStep,
     TrustStep, UnfenceStep, EnableStep, StartUnitStep, FinishStep, CleanupStep,
     ClearFenceStep DEF Progress
<1>4. CASE Startup
  BY <1>4, AutostartStep, ActivateStep, BeginCutoverStep, EndCutoverStep DEF Startup
<1>5. CASE Faults
  BY <1>5, FailStep, InterruptStep, ExitStep, RestartStep, LoginStep, EndCutoverStep,
     CleanupUnprovenStep DEF Faults
<1>6. CASE Settle \/ Login
  BY <1>6, SettleStep, LoginStep
<1>7. CASE UNCHANGED vars
  BY <1>7 DEF IInv, TypeOK, OpOK, ReplacingOK, UpgradeOK, Gated, Replacing, FenceOK,
     AnyLegacy, Legacy, JournalOK, Pending, vars
<1>. QED  BY <1>1, <1>2, <1>3, <1>4, <1>5, <1>6, <1>7 DEF Next

\* The registration, the journal and the recorder's process keep their shape.
THEOREM TypeCorrect == Spec => []TypeOK
<1>1. Spec => []IInv
  BY InitOK, StepOK, PTL DEF Spec
<1>2. IInv => TypeOK
  BY DEF IInv
<1>. QED  BY <1>1, <1>2, PTL

\* replace_service_checked and ensure_v2_active: no recorder of before the rules
\* is left once the history is initialized, with crashes and unproven cleanups
\* anywhere.
THEOREM FencedTheorem == Spec => []LegacyFenced
<1>1. Spec => []IInv
  BY InitOK, StepOK, PTL DEF Spec
<1>2. IInv => LegacyFenced
  BY DEF IInv, FenceOK, AnyLegacy, LegacyFenced
<1>. QED  BY <1>1, <1>2, PTL

\* validate_journal's floor: no retry of an upgrade, by whichever candidate,
\* registers something older than what an earlier one had prepared.
THEOREM ForwardTheorem == Spec => ForwardOnly
<1>1. Spec => []IInv
  BY InitOK, StepOK, PTL DEF Spec
<1>2. IInv /\ [Next]_vars
        => [op # Unused /\ op.kind = "upgrade" /\ unit' # unit /\ unit' # Unused
              => unit'.version >= intent.least]_vars
  <2> SUFFICES ASSUME IInv, Next, op # Unused, op.kind = "upgrade", unit' # unit,
     unit' # Unused
               PROVE  unit'.version >= intent.least
    OBVIOUS
  <2>1. unit' = journal.target
    BY OnlyWritten DEF IInv, OpOK, UpgradeOK, WriteUnit
  <2>2. intent \in Intent /\ journal \in Journal /\ intent.least <= journal.target.version
    BY DEF IInv, TypeOK, Maybe, OpOK, UpgradeOK, JournalOK, Pending
  <2>3. intent.least \in Nat /\ journal.target.version \in Nat
    BY <2>2, ServiceAssumption DEF Intent, Versions, Journal, Defs
  <2>. QED  BY <2>1, <2>2, <2>3
<1>. QED  BY <1>1, <1>2, PTL DEF Spec, ForwardOnly

\* upgrade_registered_recorder_checked: a completed upgrade keeps the options and
\* the enablement, after any number of interrupted attempts.
THEOREM IntentTheorem == Spec => IntentKept
<1>1. Spec => []IInv
  BY InitOK, StepOK, PTL DEF Spec
<1>2. IInv /\ [Next]_vars
        => [Pending /\ journal' # Unused /\ journal'.phase = "complete"
              => unit.opts = intent.opts /\ enabled = intent.enabled]_vars
  BY CompletedAsPlanned DEF IInv, JournalOK
<1>. QED  BY <1>1, <1>2, PTL DEF Spec, IntentKept

-----------------------------------------------------------------------------
(* The commands as RecorderUpgrade sees them. *)

\* Only an uninstall has nothing to register.
TargetOK ==
    op # Unused => /\ op.kind = "uninstall" => op.target = Unused
                   /\ op.kind # "uninstall" => op.target # Unused

\* The registered version, the planned one, the floor and the command.
RegOf == IF unit = Unused THEN Unused ELSE unit.version

PlanOf == IF Pending THEN journal.target.version ELSE Unused

FloorOf == IF journal = Unused THEN 0 ELSE journal.target.version

VersionOf(t) == IF t = Unused THEN MaxVersion ELSE t.version

CmdOf == IF ~Replacing THEN Unused ELSE [kind |-> op.kind, v |-> VersionOf(op.target)]

LEMMA Distinct ==
    /\ \A d \in Defs : d # Unused /\ d.version # Unused /\ d.version \in 0..MaxVersion
    /\ \A j \in Journal : j # Unused /\ j.target \in Defs
    /\ \A k \in Kinds : \A v \in 0..MaxVersion : [kind |-> k, v |-> v] # Unused
    /\ MaxVersion \in 0..MaxVersion /\ MaxVersion \in Versions
    /\ \A v \in Versions : v \in 0..MaxVersion
<1>1. \A d \in Defs : d.version \in 0..MaxVersion
  BY DEF Defs
<1>2. \A j \in Journal : j.target \in Defs
  BY DEF Journal
<1>3. \A k \in Kinds : \A v \in 0..MaxVersion :
         [kind |-> k, v |-> v] \in [kind : Kinds, v : 0..MaxVersion]
  OBVIOUS
<1>4. /\ Unused \notin Defs /\ Unused \notin Journal /\ Unused \notin 0..MaxVersion
      /\ Unused \notin [kind : Kinds, v : 0..MaxVersion] /\ MaxVersion \in Nat \ {0}
  BY ServiceAssumption DEF ServiceAssumption
<1>5. MaxVersion \in 0..MaxVersion /\ MaxVersion \in Versions
      /\ \A v \in Versions : v \in 0..MaxVersion
  BY <1>4 DEF Versions
<1>. QED  BY <1>1, <1>2, <1>3, <1>4, <1>5

\* A command that replaces is one to RecorderUpgrade.
LEMMA CmdThere ==
    ASSUME IInv, Replacing
    PROVE  /\ op \in Command /\ CmdOf # Unused
           /\ CmdOf.kind = op.kind /\ CmdOf.v = VersionOf(op.target)
           /\ VersionOf(op.target) \in 0..MaxVersion
<1>1. op \in Command
  BY DEF IInv, TypeOK, Maybe, Replacing
<1>2. op.kind \in Kinds /\ op.target \in Maybe(Defs)
  BY <1>1, Fields
<1>3. VersionOf(op.target) \in 0..MaxVersion
  BY <1>2, Distinct DEF VersionOf, Maybe
<1>4. CmdOf = [kind |-> op.kind, v |-> VersionOf(op.target)]
  BY DEF CmdOf
<1>. QED  BY <1>1, <1>2, <1>3, <1>4, Distinct

\* What the upgrade machine is shown.
LEMMA Shown ==
    /\ Upgrading!recorder = <<RegOf, PlanOf, FloorOf, CmdOf>>
    /\ Upgrading!recorder' = <<RegOf', PlanOf', FloorOf', CmdOf'>>
BY DEF Upgrading!recorder, RegOf, PlanOf, FloorOf, CmdOf, VersionOf

UpgradeMove == [Upgrading!RecorderNext]_(Upgrading!recorder)

LEMMA MoveStutters ==
    ASSUME UNCHANGED <<RegOf, PlanOf, FloorOf, CmdOf>>
    PROVE  UpgradeMove
BY Shown DEF UpgradeMove

LEMMA MoveBegins ==
    ASSUME NEW v \in Versions, CmdOf = Unused, UNCHANGED <<RegOf, PlanOf, FloorOf>>,
           \/ CmdOf' = [kind |-> "install", v |-> v]
           \/ CmdOf' = [kind |-> "uninstall", v |-> v] /\ v >= FloorOf
    PROVE  UpgradeMove
<1>1. Upgrading!BeginInstall(v) \/ Upgrading!BeginUninstall(v)
  BY DEF Upgrading!BeginInstall, Upgrading!BeginUninstall, RegOf, PlanOf, FloorOf, CmdOf,
     VersionOf
<1>2. v \in Upgrading!Versions
  BY DEF Upgrading!Versions, Versions
<1>. QED  BY <1>1, <1>2 DEF UpgradeMove, Upgrading!RecorderNext

LEMMA MoveUpgrades ==
    ASSUME NEW v \in Versions, CmdOf = Unused, UNCHANGED RegOf, v >= FloorOf,
           RegOf # Unused => v >= RegOf, RegOf = Unused => PlanOf # Unused /\ v >= PlanOf,
           FloorOf' = v,
           \/ PlanOf' = v /\ CmdOf' = [kind |-> "upgrade", v |-> v]
           \/ PlanOf' = Unused /\ UNCHANGED CmdOf /\ RegOf = v
    PROVE  UpgradeMove
<1>1. Upgrading!MayUpgrade(v)
  BY DEF Upgrading!MayUpgrade, RegOf, PlanOf, FloorOf
<1>2. Upgrading!BeginUpgrade(v) \/ Upgrading!UpgradeAtOnce(v)
  BY <1>1 DEF Upgrading!BeginUpgrade, Upgrading!UpgradeAtOnce, RegOf, PlanOf, FloorOf,
     CmdOf, VersionOf
<1>3. v \in Upgrading!Versions
  BY DEF Upgrading!Versions, Versions
<1>. QED  BY <1>2, <1>3 DEF UpgradeMove, Upgrading!RecorderNext

LEMMA MoveGoesOn ==
    ASSUME CmdOf # Unused, UNCHANGED <<PlanOf, FloorOf>>,
           \/ UNCHANGED CmdOf /\ CmdOf.kind # "uninstall" /\ RegOf' = CmdOf.v
           \/ UNCHANGED CmdOf /\ RegOf' = Unused
           \/ CmdOf' = Unused /\ RegOf' \in {RegOf, Unused}
    PROVE  UpgradeMove
<1>1. Upgrading!Put \/ Upgrading!Lose \/ Upgrading!Stop
  BY DEF Upgrading!Put, Upgrading!Lose, Upgrading!Stop, RegOf, PlanOf, FloorOf, CmdOf,
     VersionOf
<1>. QED  BY <1>1 DEF UpgradeMove, Upgrading!RecorderNext

LEMMA MoveFinishes ==
    ASSUME CmdOf # Unused, UNCHANGED RegOf, PlanOf' = Unused, CmdOf' = Unused,
           CmdOf.kind = "uninstall" => RegOf = Unused,
           CmdOf.kind # "uninstall" => RegOf = CmdOf.v,
           CmdOf.kind = "upgrade" => FloorOf' = FloorOf,
           CmdOf.kind # "upgrade" => FloorOf' = 0
    PROVE  UpgradeMove
<1>1. Upgrading!Finish
  BY DEF Upgrading!Finish, RegOf, PlanOf, FloorOf, CmdOf, VersionOf
<1>. QED  BY <1>1 DEF UpgradeMove, Upgrading!RecorderNext


\* A command that goes on is the same command.
LEMMA MoveSameCommand ==
    ASSUME IInv, UNCHANGED <<unit, journal>>, op # Unused, NEW s \in Steps, To(s)
    PROVE  UpgradeMove
<1>1. op \in Command
  BY DEF IInv, TypeOK, Maybe
<1>2. /\ op' \in Command /\ op'.kind = op.kind /\ op'.target = op.target
  BY <1>1, ToKeeps
<1>3. op' # Unused
  BY <1>2, ServiceAssumption DEF ServiceAssumption
<1>4. UNCHANGED <<RegOf, PlanOf, FloorOf>>
  BY DEF RegOf, PlanOf, FloorOf, Pending
<1>5. UNCHANGED CmdOf
  BY <1>2, <1>3 DEF CmdOf, Replacing, VersionOf
<1>. QED  BY <1>4, <1>5, MoveStutters

\* What is registered, planned and under way does not change.
LEMMA MoveSame ==
    ASSUME UNCHANGED <<unit, journal, op>>
    PROVE  UpgradeMove
<1>1. UNCHANGED <<RegOf, PlanOf, FloorOf, CmdOf>>
  BY DEF RegOf, PlanOf, FloorOf, Pending, CmdOf, Replacing, VersionOf
<1>. QED  BY <1>1, MoveStutters

\* A command ends, or its process dies.
LEMMA MoveEnds ==
    ASSUME IInv, UNCHANGED journal, unit' \in {unit, Unused}, op' = Unused,
           unit' # unit => Replacing
    PROVE  UpgradeMove
<1>1. UNCHANGED <<PlanOf, FloorOf>> /\ CmdOf' = Unused
  BY DEF PlanOf, FloorOf, Pending, CmdOf, Replacing
<1>2. RegOf' \in {RegOf, Unused} /\ (unit' = unit => RegOf' = RegOf)
  BY DEF RegOf
<1>3. CASE Replacing
  BY <1>1, <1>2, <1>3, CmdThere, MoveGoesOn
<1>4. CASE ~Replacing
  BY <1>1, <1>2, <1>4, MoveStutters DEF CmdOf
<1>. QED  BY <1>3, <1>4

\* The commands that a user gives.
LEMMA UserMoves ==
    ASSUME IInv, User
    PROVE  UpgradeMove
<1>1. CmdOf = Unused /\ UNCHANGED <<unit, journal>> /\ op = Unused
  BY DEF User, Install, Uninstall, Lifecycle, Frame, CmdOf, Replacing
<1>2. UNCHANGED <<RegOf, PlanOf, FloorOf>>
  BY <1>1 DEF RegOf, PlanOf, FloorOf, Pending
<1>3. ASSUME NEW v \in Versions, NEW o \in Options, Install(v, o) PROVE UpgradeMove
  <2> DEFINE t == [version |-> v, opts |-> o]
             c == NewCommand("install", "begin", t, "yes")
  <2>1. t \in Defs /\ t.version = v
    BY Distinct DEF Defs
  <2>2. op' = c
    BY <1>3 DEF Install
  <2>3. c \in Command /\ c.kind = "install" /\ c.target = t
    <3> HIDE DEF t
    <3>1. "install" \in Kinds /\ "begin" \in Steps /\ "yes" \in Flag /\ t \in Maybe(Defs)
      BY <2>1 DEF Kinds, Steps, Flag, Maybe
    <3>. QED  BY <3>1, NewFields
  <2>4. c # Unused /\ t # Unused
    BY <2>1, <2>3, Distinct, ServiceAssumption DEF ServiceAssumption
  <2> HIDE DEF t, c
  <2>5. CmdOf' = [kind |-> "install", v |-> v]
    BY <2>1, <2>2, <2>3, <2>4 DEF CmdOf, Replacing, VersionOf
  <2>. QED  BY <1>1, <1>2, <2>5, MoveBegins
<1>4. ASSUME NEW v \in Versions, Uninstall(v) PROVE UpgradeMove
  <2> DEFINE c == NewCommand("uninstall", "begin", Unused, "no")
  <2>1. op' = c
    BY <1>4 DEF Uninstall
  <2>2. c \in Command /\ c.kind = "uninstall" /\ c.target = Unused
    <3>1. /\ "uninstall" \in Kinds /\ "begin" \in Steps /\ "no" \in Flag
          /\ Unused \in Maybe(Defs)
      BY DEF Kinds, Steps, Flag, Maybe
    <3>. QED  BY <3>1, NewFields
  <2>3. c # Unused
    BY <2>2, ServiceAssumption DEF ServiceAssumption
  <2> HIDE DEF c
  <2>4. CmdOf' = [kind |-> "uninstall", v |-> MaxVersion]
    BY <2>1, <2>2, <2>3 DEF CmdOf, Replacing, VersionOf
  <2>5. MaxVersion >= FloorOf
    <3>1. journal # Unused => journal.target.version \in 0..MaxVersion
      BY Distinct DEF IInv, TypeOK, Maybe
    <3>2. MaxVersion \in Nat
      BY ServiceAssumption DEF ServiceAssumption
    <3>. QED  BY <3>1, <3>2 DEF FloorOf
  <2>. QED  BY <1>1, <1>2, <2>4, <2>5, Distinct, MoveBegins
<1>5. ASSUME NEW v \in Versions, NEW k \in {"start", "stop", "restart"}, Lifecycle(v, k)
      PROVE  UpgradeMove
  <2> DEFINE s == IF k = "start" THEN "starting" ELSE "unmarked"
             c == NewCommand(k, s, unit, "yes")
  <2>1. op' = c
    BY <1>5 DEF Lifecycle
  <2>2. c.kind = k
    BY DEF NewCommand
  <2> HIDE DEF c
  <2>3. CmdOf' = Unused
    BY <2>1, <2>2 DEF CmdOf, Replacing
  <2>. QED  BY <1>1, <1>2, <2>3, MoveStutters
<1>. QED  BY <1>3, <1>4, <1>5 DEF User

\* A journal for version v is prepared, or completed at once.
LEMMA JournalMoves ==
    ASSUME IInv, NEW v \in Versions, op = Unused, UNCHANGED unit,
           MayRead(v), NoDowngrade(v), unit # Unused \/ Pending,
           NEW j \in Journal, j.target.version = v,
           \/ Completed(j) /\ UNCHANGED op /\ unit = j.target
           \/ Prepared(j) /\ j.phase = "pending"
    PROVE  UpgradeMove
<1>1. CmdOf = Unused /\ UNCHANGED RegOf
  BY DEF CmdOf, Replacing, RegOf
<1>2. j # Unused /\ j.target \in Defs /\ j.target # Unused /\ v # Unused
  BY Distinct
<1>3. v >= FloorOf
  BY DEF MayRead, FloorOf, Versions
<1>4. /\ RegOf # Unused => v >= RegOf
      /\ RegOf = Unused => PlanOf # Unused /\ v >= PlanOf
  <2>1. CASE unit # Unused
    <3>1. unit.version # Unused
      BY <2>1, Distinct DEF IInv, TypeOK, Maybe
    <3>. QED  BY <2>1, <3>1 DEF RegOf, NoDowngrade
  <2>2. CASE unit = Unused
    <3>1. journal.target.version # Unused
      BY <2>2, Distinct DEF IInv, TypeOK, Maybe, Pending
    <3>. QED  BY <2>2, <3>1 DEF RegOf, PlanOf, NoDowngrade
  <2>. QED  BY <2>1, <2>2
<1>5. CASE Completed(j) /\ UNCHANGED op /\ unit = j.target
  <2> DEFINE d == [j EXCEPT !.phase = "complete"]
  <2>1. d \in Journal /\ d.phase = "complete" /\ d.target = j.target
    BY DEF Journal
  <2>2. journal' = d /\ d # Unused
    BY <1>5, <2>1, Distinct DEF Completed
  <2> HIDE DEF d
  <2>3. FloorOf' = v /\ PlanOf' = Unused
    BY <2>1, <2>2 DEF FloorOf, PlanOf, Pending
  <2>4. UNCHANGED CmdOf /\ RegOf = v
    BY <1>2, <1>5 DEF CmdOf, Replacing, VersionOf, RegOf
  <2>. QED  BY <1>1, <1>3, <1>4, <2>3, <2>4, MoveUpgrades
<1>6. CASE Prepared(j) /\ j.phase = "pending"
  <2> DEFINE c == NewCommand("upgrade", "begin", j.target, j.enabled)
  <2>1. journal' = j /\ op' = c
    BY <1>6 DEF Prepared
  <2>2. c \in Command /\ c.kind = "upgrade" /\ c.target = j.target
    <3>1. /\ "upgrade" \in Kinds /\ "begin" \in Steps /\ j.enabled \in Flag
          /\ j.target \in Maybe(Defs)
      BY DEF Kinds, Steps, Maybe, Journal
    <3>. QED  BY <3>1, NewFields
  <2>3. c # Unused
    BY <2>2, ServiceAssumption DEF ServiceAssumption
  <2> HIDE DEF c
  <2>4. FloorOf' = v /\ PlanOf' = v
    BY <1>2, <1>6, <2>1 DEF FloorOf, PlanOf, Pending
  <2>5. CmdOf' = [kind |-> "upgrade", v |-> v]
    BY <1>2, <2>1, <2>2, <2>3 DEF CmdOf, Replacing, VersionOf
  <2>. QED  BY <1>1, <1>3, <1>4, <2>4, <2>5, MoveUpgrades
<1>. QED  BY <1>5, <1>6

\* The upgrade, at first and again.
LEMMA RetryMoves ==
    ASSUME IInv, Retry
    PROVE  UpgradeMove
<1>1. ASSUME NEW v \in Versions, Upgrade(v) PROVE UpgradeMove
  <2> DEFINE j == [target |-> [unit EXCEPT !.version = v], prev |-> unit,
                   enabled |-> enabled, phase |-> "pending"]
  <2>1. unit \in Defs /\ unit # Unused /\ enabled \in Flag
    BY <1>1 DEF Upgrade, Registered, IInv, TypeOK, Maybe
  <2>2. [unit EXCEPT !.version = v] \in Defs /\ [unit EXCEPT !.version = v].version = v
    BY <2>1, VersionBounds DEF Defs
  <2>3. j \in Journal /\ j.phase = "pending" /\ j.target.version = v
    BY <2>1, <2>2 DEF Journal
  <2>4. (Completed(j) /\ UNCHANGED op /\ unit = j.target) \/ Prepared(j)
    BY <1>1 DEF Upgrade
  <2>5. op = Unused /\ UNCHANGED unit /\ MayRead(v) /\ NoDowngrade(v)
    BY <1>1 DEF Upgrade, Frame
  <2> HIDE DEF j
  <2>. QED  BY <2>1, <2>3, <2>4, <2>5, JournalMoves
<1>2. ASSUME NEW v \in Versions, Resume(v) PROVE UpgradeMove
  <2>1. /\ op = Unused /\ UNCHANGED unit /\ MayRead(v) /\ NoDowngrade(v) /\ Pending
        /\ journal \in Journal /\ journal.phase = "pending"
    BY <1>2 DEF Resume, Frame, Pending, IInv, TypeOK, Maybe
  <2>2. CASE /\ journal.target.version = v /\ Completed(journal) /\ UNCHANGED op
             /\ unit = journal.target
    BY <2>1, <2>2, JournalMoves
  <2>3. CASE Prepared(Resumed(v))
    <3>1. unit = Unused \/ unit \in Defs
      BY DEF IInv, TypeOK, Maybe
    <3>2. /\ Resumed(v) \in Journal /\ Resumed(v).phase = "pending"
          /\ Resumed(v).target.version = v
      BY <2>1, <3>1, VersionBounds DEF Resumed, Journal, Defs
    <3>. QED  BY <2>1, <2>3, <3>2, JournalMoves
  <2>. QED  BY <1>2, <2>2, <2>3 DEF Resume
<1>. QED  BY <1>1, <1>2 DEF Retry

\* A command's own steps.
LEMMA ProgressMoves ==
    ASSUME IInv, TargetOK, Progress
    PROVE  UpgradeMove
<1>0. /\ op # Unused /\ op \in Command /\ op.kind \in Kinds
      /\ op.target \in Maybe(Defs) /\ ReplacingOK
  <2>1. op # Unused
    BY DEF Progress, Fence, Unmark, Disable, Stop, WriteUnit, Reload, Trust, Unfence,
       Enable, StartUnit, Finish, Cleanup, ClearFence, At
  <2>. QED  BY <2>1, Fields DEF IInv, TypeOK, Maybe, OpOK
<1>1. ASSUME \/ Fence \/ Unmark \/ Disable \/ Stop \/ Reload \/ Trust \/ Unfence \/ Enable
             \/ StartUnit
      PROVE  UpgradeMove
  <2>1. UNCHANGED <<unit, journal>>
    BY <1>1 DEF Fence, Unmark, Disable, Stop, Reload, Trust, Unfence, Enable, StartUnit
  <2>2. \E s \in Steps : To(s)
    BY <1>1 DEF Fence, Unmark, Disable, Stop, Reload, Trust, Unfence, Enable, StartUnit,
       Steps
  <2>. QED  BY <1>0, <2>1, <2>2, MoveSameCommand
<1>2. ASSUME WriteUnit \/ Cleanup PROVE UpgradeMove
  <2>1. op.step \in {"stopped", "failing"} /\ UNCHANGED journal
    BY <1>2 DEF WriteUnit, Cleanup, At, Rest
  <2>2. Replacing
    BY <1>0, <2>1 DEF ReplacingOK, Replacing
  <2>3. /\ op' \in Command /\ op'.kind = op.kind /\ op'.target = op.target
    <3>1. \E s \in Steps : To(s)
      BY <1>2 DEF WriteUnit, Cleanup, Steps
    <3>. QED  BY <1>0, <3>1, ToKeeps
  <2>4. op' # Unused
    BY <2>3, ServiceAssumption DEF ServiceAssumption
  <2>5. UNCHANGED <<PlanOf, FloorOf, CmdOf>>
    BY <1>0, <2>1, <2>3, <2>4 DEF PlanOf, FloorOf, Pending, CmdOf, Replacing, VersionOf
  <2>6. CASE WriteUnit /\ op.kind # "uninstall"
    <3>1. unit' = op.target /\ op.target # Unused
      BY <1>0, <2>6 DEF WriteUnit, TargetOK
    <3>2. RegOf' = CmdOf.v /\ CmdOf.kind # "uninstall"
      BY <2>2, <2>6, <3>1, CmdThere DEF RegOf, VersionOf
    <3>. QED  BY <2>2, <2>5, <3>2, CmdThere, MoveGoesOn
  <2>7. CASE Cleanup \/ op.kind = "uninstall"
    <3>1. unit' = Unused
      BY <1>0, <1>2, <2>7 DEF WriteUnit, Cleanup, TargetOK
    <3>. QED  BY <2>2, <2>5, <3>1, CmdThere, MoveGoesOn DEF RegOf
  <2>. QED  BY <1>2, <2>6, <2>7
<1>3. ASSUME ClearFence PROVE UpgradeMove
  BY <1>3, MoveEnds DEF ClearFence, Ended
<1>4. ASSUME Finish PROVE UpgradeMove
  <2>1. At("started") /\ op' = Unused /\ UNCHANGED unit
    BY <1>4 DEF Finish, Ended
  <2>2. CmdOf' = Unused /\ UNCHANGED RegOf
    BY <2>1 DEF CmdOf, Replacing, RegOf
  <2>3. CASE ~Replacing
    <3>1. UNCHANGED journal
      BY <1>0, <1>4, <2>3 DEF Finish, Replacing
    <3>. QED  BY <2>1, <3>1, MoveEnds
  <2>4. CASE Replacing
    <3>1. unit = op.target
      BY <1>0, <2>1, <2>4 DEF ReplacingOK, At
    <3>2. /\ CmdOf.kind = "uninstall" => RegOf = Unused
          /\ CmdOf.kind # "uninstall" => RegOf = CmdOf.v
      BY <1>0, <2>4, <3>1, CmdThere DEF RegOf, TargetOK, VersionOf
    <3>3. CASE op.kind = "upgrade"
      <4> DEFINE d == [journal EXCEPT !.phase = "complete"]
      <4>1. Pending /\ journal \in Journal
        BY <1>0, <3>3 DEF IInv, OpOK, UpgradeOK, TypeOK, Maybe, Pending
      <4>2. d \in Journal /\ d.phase = "complete" /\ d.target = journal.target
        BY <4>1 DEF Journal
      <4>3. journal' = d /\ d # Unused
        BY <1>4, <3>3, <4>2, Distinct DEF Finish, Completed
      <4> HIDE DEF d
      <4>4. PlanOf' = Unused /\ FloorOf' = FloorOf
        BY <4>1, <4>2, <4>3 DEF PlanOf, FloorOf, Pending
      <4>. QED  BY <2>2, <2>4, <3>2, <3>3, <4>4, CmdThere, MoveFinishes
    <3>4. CASE op.kind # "upgrade"
      <4>1. journal' = Unused
        BY <1>4, <2>4, <3>4 DEF Finish, Replacing
      <4>2. PlanOf' = Unused /\ FloorOf' = 0
        BY <4>1 DEF PlanOf, FloorOf, Pending
      <4>. QED  BY <2>2, <2>4, <3>2, <3>4, <4>2, CmdThere, MoveFinishes
    <3>. QED  BY <3>3, <3>4
  <2>. QED  BY <2>3, <2>4
<1>. QED  BY <1>1, <1>2, <1>3, <1>4 DEF Progress

\* What the manager, the recorder and failures do.
LEMMA OtherMoves ==
    ASSUME IInv, Startup \/ Faults \/ Settle \/ Login
    PROVE  UpgradeMove
<1>1. ASSUME Startup \/ Settle \/ Exit \/ Restart \/ (\E h : EndCutover(h)) PROVE UpgradeMove
  <2>1. UNCHANGED <<unit, journal, op>>
    BY <1>1 DEF Startup, Autostart, Activate, BeginCutover, EndCutover, Settle, Exit,
       Restart, Cmd, Frame
  <2>. QED  BY <2>1, MoveSame
<1>2. ASSUME Fail PROVE UpgradeMove
  <2>1. /\ UNCHANGED <<unit, journal>> /\ op # Unused /\ To("failing")
        /\ "failing" \in Steps
    BY <1>2 DEF Fail, Gated, Replacing, Steps
  <2>. QED  BY <2>1, MoveSameCommand
<1>3. ASSUME Interrupt \/ Login PROVE UpgradeMove
  BY <1>3, MoveEnds DEF Interrupt, Login, Ended, Frame
<1>4. ASSUME NEW u \in BOOLEAN, NEW p \in BOOLEAN, NEW e \in BOOLEAN, NEW l \in BOOLEAN,
             CleanupUnproven(u, p, e, l)
      PROVE  UpgradeMove
  <2>1. /\ UNCHANGED journal /\ unit' \in {unit, Unused} /\ op' = Unused
        /\ op # Unused /\ op.step = "failing"
    BY <1>4 DEF CleanupUnproven, Partly, Ended, At
  <2>2. Replacing
    BY <2>1, Fields DEF IInv, OpOK, ReplacingOK, Replacing, TypeOK, Maybe
  <2>. QED  BY <2>1, <2>2, MoveEnds
<1>. QED  BY <1>1, <1>2, <1>3, <1>4 DEF Faults

\* Only an uninstall has nothing to register, all along.
LEMMA TargetStep ==
    ASSUME IInv, TargetOK, [Next]_vars
    PROVE  TargetOK'
<1>1. ASSUME UNCHANGED op \/ op' = Unused PROVE TargetOK'
  BY <1>1 DEF TargetOK
<1>2. ASSUME op # Unused, NEW s \in Steps, To(s) PROVE TargetOK'
  <2>1. op \in Command
    BY <1>2 DEF IInv, TypeOK, Maybe
  <2>2. op'.kind = op.kind /\ op'.target = op.target
    BY <1>2, <2>1, ToKeeps
  <2>. QED  BY <1>2, <2>2 DEF TargetOK
<1>3. ASSUME Progress PROVE TargetOK'
  <2>1. op # Unused
    BY <1>3 DEF Progress, Fence, Unmark, Disable, Stop, WriteUnit, Reload, Trust, Unfence,
       Enable, StartUnit, Finish, Cleanup, ClearFence, At
  <2>2. op' = Unused \/ \E s \in Steps : To(s)
    BY <1>3 DEF Progress, Fence, Unmark, Disable, Stop, WriteUnit, Reload, Trust, Unfence,
       Enable, StartUnit, Finish, Cleanup, ClearFence, Ended, Steps
  <2>. QED  BY <1>1, <1>2, <2>1, <2>2
<1>4. ASSUME NEW k, NEW s, NEW t, NEW e, op' = NewCommand(k, s, t, e),
             k = "uninstall" => t = Unused, k # "uninstall" => t # Unused
      PROVE  TargetOK'
  <2>1. op'.kind = k /\ op'.target = t
    BY <1>4 DEF NewCommand
  <2>. QED  BY <1>4, <2>1 DEF TargetOK
<1>5. ASSUME User PROVE TargetOK'
  <2>1. ASSUME NEW v \in Versions, NEW o \in Options, Install(v, o) PROVE TargetOK'
    <3>1. [version |-> v, opts |-> o] \in Defs
      BY Distinct DEF Defs
    <3>2. [version |-> v, opts |-> o] # Unused
      BY <3>1, Distinct
    <3>. QED  BY <1>4, <2>1, <3>2 DEF Install
  <2>2. ASSUME NEW v \in Versions, Uninstall(v) PROVE TargetOK'
    BY <1>4, <2>2 DEF Uninstall
  <2>3. ASSUME NEW v \in Versions, NEW k \in {"start", "stop", "restart"}, Lifecycle(v, k)
        PROVE  TargetOK'
    BY <1>4, <2>3 DEF Lifecycle, Registered
  <2>. QED  BY <1>5, <2>1, <2>2, <2>3 DEF User
<1>6. ASSUME NEW j \in Journal, Prepared(j) PROVE TargetOK'
  <2>1. j.target # Unused
    BY Distinct
  <2>. QED  BY <1>4, <1>6, <2>1 DEF Prepared
<1>7. ASSUME Retry PROVE TargetOK'
  <2>1. ASSUME NEW v \in Versions, Upgrade(v) PROVE TargetOK'
    <3> DEFINE j == [target |-> [unit EXCEPT !.version = v], prev |-> unit,
                     enabled |-> enabled, phase |-> "pending"]
    <3>1. unit \in Defs /\ enabled \in Flag
      BY <2>1 DEF Upgrade, Registered, IInv, TypeOK, Maybe
    <3>2. [unit EXCEPT !.version = v] \in Defs
      BY <3>1, VersionBounds DEF Defs
    <3>3. j \in Journal
      BY <3>1, <3>2 DEF Journal
    <3>4. UNCHANGED op \/ Prepared(j)
      BY <2>1 DEF Upgrade
    <3> HIDE DEF j
    <3>. QED  BY <1>1, <1>6, <3>3, <3>4
  <2>2. ASSUME NEW v \in Versions, Resume(v) PROVE TargetOK'
    <3>1. journal \in Journal /\ (unit = Unused \/ unit \in Defs)
      BY <2>2 DEF Resume, Pending, IInv, TypeOK, Maybe
    <3>2. Resumed(v) \in Journal
      BY <3>1, VersionBounds DEF Resumed, Journal, Defs
    <3>3. UNCHANGED op \/ Prepared(Resumed(v))
      BY <2>2 DEF Resume
    <3>. QED  BY <1>1, <1>6, <3>2, <3>3
  <2>. QED  BY <1>7, <2>1, <2>2 DEF Retry
<1>8. ASSUME Startup \/ Settle \/ Login PROVE TargetOK'
  BY <1>1, <1>8 DEF Startup, Autostart, Activate, BeginCutover, EndCutover, Settle, Login,
     Cmd
<1>9. ASSUME Faults PROVE TargetOK'
  <2>1. ASSUME Fail PROVE TargetOK'
    BY <1>2, <2>1 DEF Fail, Gated, Replacing, Steps
  <2>2. ASSUME \/ Interrupt \/ Exit \/ Restart \/ Login \/ EndCutover("migrating")
               \/ \E u, p, e, l \in BOOLEAN : CleanupUnproven(u, p, e, l)
        PROVE  TargetOK'
    BY <1>1, <2>2 DEF Interrupt, Exit, Restart, Login, EndCutover, CleanupUnproven, Ended,
       Cmd
  <2>. QED  BY <1>9, <2>1, <2>2 DEF Faults
<1>. QED  BY <1>1, <1>3, <1>5, <1>7, <1>8, <1>9 DEF Next, vars

\* ImplementsUpgrade: whatever happens to a command, the registered version, the
\* unfinished upgrade and the floor change only as RecorderUpgrade allows, which
\* is what the application's update is built on.
THEOREM ServiceImplementsUpgrade == Spec => ImplementsUpgrade
<1> DEFINE Inv == IInv /\ TargetOK
<1>1. Init => Inv
  BY InitOK DEF Init, TargetOK
<1>2. Inv /\ [Next]_vars => Inv'
  BY StepOK, TargetStep
<1>3. Init => Upgrading!RecorderInit
  <2> SUFFICES ASSUME Init PROVE Upgrading!RecorderInit
    OBVIOUS
  <2>1. RegOf \in {Unused, 0} /\ PlanOf = Unused /\ FloorOf = 0 /\ CmdOf = Unused
    BY DEF Init, RegOf, PlanOf, FloorOf, CmdOf, Pending, Replacing
  <2>. QED  BY <2>1 DEF Upgrading!RecorderInit, RegOf, PlanOf, FloorOf, CmdOf, VersionOf
<1>4. Inv /\ [Next]_vars => UpgradeMove
  <2> SUFFICES ASSUME Inv, [Next]_vars PROVE UpgradeMove
    OBVIOUS
  <2>1. CASE UNCHANGED vars
    BY <2>1, MoveSame DEF vars
  <2>. QED  BY <2>1, UserMoves, RetryMoves, ProgressMoves, OtherMoves DEF Next
<1>. QED  BY <1>1, <1>2, <1>3, <1>4, PTL
          DEF Spec, ImplementsUpgrade, Upgrading!RecorderSpec, UpgradeMove


=============================================================================
