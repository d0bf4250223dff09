--------------------------- MODULE AppUpdateProofs ---------------------------
(***************************************************************************)
(* Proofs about AppUpdate, for any number of versions and files.           *)
(***************************************************************************)
EXTENDS AppUpdate, TLAPS

\* The inductive invariant.

\* What a service command is about to register is on disk too.
ReferencesOK ==
    /\ ReferencesIntact
    /\ cmd # None /\ cmd.kind # "uninstall" => cmd.v \in bins

\* An update works on its journal, and a prune on what nothing refers to.
ActOK ==
    act # None =>
        /\ act.step = "prune" => cmd = None /\ act.v \notin Referenced
        /\ act.step # "prune" => Unfinished /\ upd.target = act.v
        /\ act.step = "upgrading" => cmd # None /\ cmd.kind = "upgrade" /\ cmd.v = act.v

\* The registration is the one the plan was made for, or the one it leads to;
\* both have the plan's launcher.
PlanOK ==
    Unfinished /\ upd.plan # None =>
        /\ cli \in {upd.plan.prevReg, Desired(upd.plan, upd.target)}
        /\ upd.plan.prevReg # None => upd.plan.prevReg.launcher = upd.plan.launcher

\* What the steps of activate_cli have achieved.
EntryOK ==
    /\ EntryIsLauncher
    /\ act # None =>
          /\ act.step \in {"cli", "backed", "checked", "register"} => upd.plan # None
          /\ act.step \in {"backed", "checked"} =>
                /\ upd.plan.prevReg = None
                /\ upd.plan.prev \in Files => upd.plan.prev \in backups
          /\ act.step = "checked" => act.seen = upd.plan.prev
          /\ act.step = "register" /\ touched = "no" => entry = upd.plan.launcher

IInv == TypeOK /\ ReferencesOK /\ ActOK /\ PlanOK /\ EntryOK

-----------------------------------------------------------------------------
(* The shapes of the records. *)

LEMMA Distinct ==
    /\ None \notin Files /\ None \notin Versions /\ None # 0 /\ 0 \notin Versions
    /\ Files \intersect Versions = {}
    /\ None \notin Registration /\ None \notin Plan /\ None \notin Journal
    /\ None \notin Action /\ None \notin RecorderCommand
BY UpdateAssumption DEF Versions

LEMMA ActFields ==
    ASSUME NEW a \in Action
    PROVE  a.v \in Versions /\ a.step \in Steps /\ a.seen \in Contents
BY DEF Action

LEMMA NewAct ==
    ASSUME NEW v \in Versions, NEW s \in Steps, NEW c \in Contents
    PROVE  LET a == [v |-> v, step |-> s, seen |-> c]
           IN  a \in Action /\ a # None /\ a.v = v /\ a.step = s /\ a.seen = c
BY Distinct DEF Action

LEMMA ToKeeps ==
    ASSUME act \in Action, NEW s \in Steps, To(s)
    PROVE  /\ act' \in Action /\ act' # None
           /\ act'.v = act.v /\ act'.step = s /\ act'.seen = act.seen
BY Distinct DEF Action, To

LEMMA JournalFields ==
    ASSUME NEW j \in Journal
    PROVE  /\ j.target \in Versions /\ j.plan \in Plan \union {None}
           /\ j.phase \in {"pending", "complete"}
           /\ [j EXCEPT !.phase = "complete"] \in Journal
           /\ [j EXCEPT !.phase = "complete"].phase = "complete"
BY DEF Journal

LEMMA PlanFields ==
    ASSUME NEW p \in Plan, NEW v \in Versions
    PROVE  /\ p.prev \in Contents /\ p.launcher \in Versions
           /\ p.prevReg \in Registration \union {None}
           /\ Desired(p, v) \in Registration
           /\ Desired(p, v).launcher = p.launcher /\ Desired(p, v).selected = v
BY DEF Plan, Desired, Registration

LEMMA RegistrationFields ==
    ASSUME NEW r \in Registration
    PROVE  r.launcher \in Versions /\ r.selected \in Versions
BY DEF Registration

LEMMA CommandFields ==
    ASSUME NEW k \in {"install", "uninstall", "upgrade"}, NEW v \in Versions
    PROVE  LET c == [kind |-> k, v |-> v]
           IN  c \in RecorderCommand /\ c # None /\ c.kind = k /\ c.v = v
BY Distinct DEF RecorderCommand

LEMMA RecorderTyped == ASSUME RecorderType, RecorderNext PROVE RecorderType'
<1>1. MaxVersion \in Nat /\ Versions \subseteq 0..MaxVersion
  BY UpdateAssumption DEF Versions
<1>2. ASSUME NEW v \in Versions, BeginInstall(v) \/ BeginUninstall(v) \/ BeginUpgrade(v) \/ UpgradeAtOnce(v)
      PROVE  RecorderType'
  BY <1>1, <1>2, CommandFields
  DEF RecorderType, BeginInstall, BeginUninstall, BeginUpgrade, UpgradeAtOnce
<1>3. ASSUME cmd \in RecorderCommand, Put \/ Lose \/ Finish \/ Stop
      PROVE  RecorderType'
  <2>1. cmd.v \in Versions
    BY <1>3 DEF RecorderCommand
  <2>2. 0 \in 0..MaxVersion
    BY <1>1
  <2>3. CASE Put \/ Lose
    BY <1>1, <1>3, <2>1, <2>3 DEF RecorderType, Put, Lose
  <2>4. CASE Finish
    BY <1>3, <2>2, <2>4 DEF RecorderType, Finish
  <2>5. CASE Stop
    BY <1>3, <2>5 DEF RecorderType, Stop
  <2>. QED  BY <1>3, <2>3, <2>4, <2>5
<1>. QED  BY <1>2, <1>3 DEF RecorderNext, RecorderType, Put, Lose, Finish, Stop

LEMMA PlaceInv == ASSUME IInv, NEW v \in Versions, Place(v) PROVE IInv'
<1>0. TypeOK /\ ReferencesOK /\ ActOK /\ PlanOK /\ EntryOK
  BY DEF IInv
<1>3. TypeOK'
  BY <1>0, Distinct, JournalFields
  DEF TypeOK, RecorderType, recorder, AtStep, Place, Flag, Contents
<1>4. ReferencesOK'
  BY <1>0, Distinct, ActFields, JournalFields, PlanFields, CommandFields
  DEF TypeOK, ReferencesOK, ReferencesIntact, ActOK, Referenced, Selected, Target, Unfinished,
      recorder, AtStep, Place
<1>5. ActOK'
  BY <1>0, Distinct, ActFields, JournalFields, CommandFields
  DEF TypeOK, ActOK, Referenced, Selected, Target, Unfinished, recorder, AtStep, Place
<1>6. PlanOK'
  BY <1>0, Distinct, JournalFields, PlanFields
  DEF TypeOK, ActOK, PlanOK, Desired, Unfinished, recorder, AtStep, Place
<1>7. EntryOK'
  BY <1>0, Distinct, JournalFields, PlanFields
  DEF TypeOK, ActOK, PlanOK, EntryOK, EntryIsLauncher, Unfinished, Contents, recorder, AtStep,
      Place
<1>. QED  BY <1>3, <1>4, <1>5, <1>6, <1>7 DEF IInv

LEMMA UpdateRecorderInv == ASSUME IInv, UpdateRecorder PROVE IInv'
<1>0. TypeOK /\ ReferencesOK /\ ActOK /\ PlanOK /\ EntryOK
  BY DEF IInv
<1>1. act \in Action
  BY <1>0 DEF TypeOK, AtStep, UpdateRecorder
<1>2. /\ act' \in Action /\ act' # None
      /\ act'.v = act.v /\ act'.step = "upgrading" /\ act'.seen = act.seen
  <2>1. "upgrading" \in Steps /\ To("upgrading")
    BY DEF Steps, AfterRecorder, UpdateRecorder
  <2>. QED  BY <1>1, <2>1, ToKeeps
<1>r. RecorderType'
  <2>1. RecorderNext
    BY <1>0, <1>1, ActFields DEF RecorderNext, UpdateRecorder, BeginUpgrade, Rest
  <2>2. RecorderType
    BY <1>0 DEF TypeOK
  <2>. QED  BY <2>1, <2>2, RecorderTyped DEF RecorderType, recorder
<1>3. TypeOK'
  BY <1>0, Distinct, <1>1, <1>2, <1>r, JournalFields
  DEF TypeOK, recorder, AtStep, UpdateRecorder, BeginUpgrade, Rest, Flag, Contents
<1>4. ReferencesOK'
  BY <1>0, Distinct, <1>1, <1>2, ActFields, JournalFields, PlanFields, CommandFields
  DEF TypeOK, ReferencesOK, ReferencesIntact, ActOK, Referenced, Selected, Target, Unfinished,
      recorder, AtStep, UpdateRecorder, BeginUpgrade, Rest
<1>5. ActOK'
  BY <1>0, Distinct, <1>1, <1>2, ActFields, JournalFields, CommandFields
  DEF TypeOK, ActOK, Referenced, Selected, Target, Unfinished, recorder, AtStep, UpdateRecorder,
      BeginUpgrade, Rest
<1>6. PlanOK'
  BY <1>0, Distinct, <1>1, <1>2, JournalFields, PlanFields
  DEF TypeOK, ActOK, PlanOK, Desired, Unfinished, recorder, AtStep, UpdateRecorder,
      BeginUpgrade, Rest
<1>7. EntryOK'
  BY <1>0, Distinct, <1>1, <1>2, JournalFields, PlanFields
  DEF TypeOK, ActOK, PlanOK, EntryOK, EntryIsLauncher, Unfinished, Contents, recorder, AtStep,
      UpdateRecorder, BeginUpgrade, Rest
<1>. QED  BY <1>3, <1>4, <1>5, <1>6, <1>7 DEF IInv

LEMMA RecorderAtOnceInv == ASSUME IInv, RecorderAtOnce PROVE IInv'
<1>0. TypeOK /\ ReferencesOK /\ ActOK /\ PlanOK /\ EntryOK
  BY DEF IInv
<1>1. act \in Action
  BY <1>0 DEF TypeOK, AtStep, RecorderAtOnce
<1>2. /\ act' \in Action /\ act' # None
      /\ act'.v = act.v /\ act'.step = AfterRecorder /\ act'.seen = act.seen
  <2>1. AfterRecorder \in Steps /\ To(AfterRecorder)
    BY DEF Steps, AfterRecorder, RecorderAtOnce
  <2>. QED  BY <1>1, <2>1, ToKeeps
<1>r. RecorderType'
  <2>1. RecorderNext \/ UNCHANGED recorder
    BY <1>0, <1>1, ActFields DEF RecorderNext, RecorderAtOnce, UpgradeAtOnce, Rest
  <2>2. RecorderType
    BY <1>0 DEF TypeOK
  <2>. QED  BY <2>1, <2>2, RecorderTyped DEF RecorderType, recorder
<1>3. TypeOK'
  BY <1>0, Distinct, <1>1, <1>2, <1>r, JournalFields
  DEF TypeOK, recorder, AtStep, RecorderAtOnce, UpgradeAtOnce, Rest, Flag, Contents
<1>4. ReferencesOK'
  BY <1>0, Distinct, <1>1, <1>2, ActFields, JournalFields, PlanFields, CommandFields
  DEF TypeOK, ReferencesOK, ReferencesIntact, ActOK, Referenced, Selected, Target, Unfinished,
      recorder, AtStep, RecorderAtOnce, UpgradeAtOnce, Rest
<1>5. ActOK'
  BY <1>0, Distinct, <1>1, <1>2, ActFields, JournalFields, CommandFields
  DEF TypeOK, ActOK, Referenced, Selected, Target, Unfinished, recorder, AtStep, RecorderAtOnce,
      UpgradeAtOnce, Rest, AfterRecorder
<1>6. PlanOK'
  BY <1>0, Distinct, <1>1, <1>2, JournalFields, PlanFields
  DEF TypeOK, ActOK, PlanOK, Desired, Unfinished, recorder, AtStep, RecorderAtOnce,
      UpgradeAtOnce, Rest
<1>7. EntryOK'
  BY <1>0, Distinct, <1>1, <1>2, JournalFields, PlanFields
  DEF TypeOK, ActOK, PlanOK, EntryOK, EntryIsLauncher, Unfinished, Contents, recorder, AtStep,
      RecorderAtOnce, UpgradeAtOnce, Rest, AfterRecorder
<1>. QED  BY <1>3, <1>4, <1>5, <1>6, <1>7 DEF IInv

LEMMA RecorderUpdatedInv == ASSUME IInv, RecorderUpdated PROVE IInv'
<1>0. TypeOK /\ ReferencesOK /\ ActOK /\ PlanOK /\ EntryOK
  BY DEF IInv
<1>1. act \in Action
  BY <1>0 DEF TypeOK, AtStep, RecorderUpdated
<1>2. /\ act' \in Action /\ act' # None
      /\ act'.v = act.v /\ act'.step = AfterRecorder /\ act'.seen = act.seen
  <2>1. AfterRecorder \in Steps /\ To(AfterRecorder)
    BY DEF Steps, AfterRecorder, RecorderUpdated
  <2>. QED  BY <1>1, <2>1, ToKeeps
<1>r. RecorderType'
  <2>1. RecorderNext
    BY <1>0, <1>1, ActFields DEF RecorderNext, RecorderUpdated, Finish, Rest
  <2>2. RecorderType
    BY <1>0 DEF TypeOK
  <2>. QED  BY <2>1, <2>2, RecorderTyped DEF RecorderType, recorder
<1>3. TypeOK'
  BY <1>0, Distinct, <1>1, <1>2, <1>r, JournalFields
  DEF TypeOK, recorder, AtStep, RecorderUpdated, Finish, Rest, Flag, Contents
<1>4. ReferencesOK'
  BY <1>0, Distinct, <1>1, <1>2, ActFields, JournalFields, PlanFields, CommandFields
  DEF TypeOK, ReferencesOK, ReferencesIntact, ActOK, Referenced, Selected, Target, Unfinished,
      recorder, AtStep, RecorderUpdated, Finish, Rest
<1>5. ActOK'
  BY <1>0, Distinct, <1>1, <1>2, ActFields, JournalFields, CommandFields
  DEF TypeOK, ActOK, Referenced, Selected, Target, Unfinished, recorder, AtStep,
      RecorderUpdated, Finish, Rest, AfterRecorder
<1>6. PlanOK'
  BY <1>0, Distinct, <1>1, <1>2, JournalFields, PlanFields
  DEF TypeOK, ActOK, PlanOK, Desired, Unfinished, recorder, AtStep, RecorderUpdated, Finish,
      Rest
<1>7. EntryOK'
  BY <1>0, Distinct, <1>1, <1>2, JournalFields, PlanFields
  DEF TypeOK, ActOK, PlanOK, EntryOK, EntryIsLauncher, Unfinished, Contents, recorder, AtStep,
      RecorderUpdated, Finish, Rest, AfterRecorder
<1>. QED  BY <1>3, <1>4, <1>5, <1>6, <1>7 DEF IInv

LEMMA LaunchedInv == ASSUME IInv, Launched PROVE IInv'
<1>0. TypeOK /\ ReferencesOK /\ ActOK /\ PlanOK /\ EntryOK
  BY DEF IInv
<1>1. act \in Action
  BY <1>0 DEF TypeOK, AtStep, Launched
<1>2. /\ act' \in Action /\ act' # None
      /\ act'.v = act.v /\ act'.step = "register" /\ act'.seen = act.seen
  <2>1. "register" \in Steps /\ To("register")
    BY DEF Steps, AfterRecorder, Launched
  <2>. QED  BY <1>1, <2>1, ToKeeps
<1>3. TypeOK'
  BY <1>0, Distinct, <1>1, <1>2, JournalFields
  DEF TypeOK, RecorderType, recorder, AtStep, Launched, Rest, Flag, Contents
<1>4. ReferencesOK'
  BY <1>0, Distinct, <1>1, <1>2, ActFields, JournalFields, PlanFields, CommandFields
  DEF TypeOK, ReferencesOK, ReferencesIntact, ActOK, Referenced, Selected, Target, Unfinished,
      recorder, AtStep, Launched, Rest
<1>5. ActOK'
  BY <1>0, Distinct, <1>1, <1>2, ActFields, JournalFields, CommandFields
  DEF TypeOK, ActOK, Referenced, Selected, Target, Unfinished, recorder, AtStep, Launched, Rest
<1>6. PlanOK'
  BY <1>0, Distinct, <1>1, <1>2, JournalFields, PlanFields
  DEF TypeOK, ActOK, PlanOK, Desired, Unfinished, recorder, AtStep, Launched, Rest
<1>7. EntryOK'
  BY <1>0, Distinct, <1>1, <1>2, JournalFields, PlanFields
  DEF TypeOK, ActOK, PlanOK, EntryOK, EntryIsLauncher, Unfinished, Contents, recorder, AtStep,
      Launched, Rest
<1>. QED  BY <1>3, <1>4, <1>5, <1>6, <1>7 DEF IInv

LEMMA BackupInv == ASSUME IInv, Backup PROVE IInv'
<1>0. TypeOK /\ ReferencesOK /\ ActOK /\ PlanOK /\ EntryOK
  BY DEF IInv
<1>1. act \in Action
  BY <1>0 DEF TypeOK, AtStep, Backup
<1>2. /\ act' \in Action /\ act' # None
      /\ act'.v = act.v /\ act'.step = "backed" /\ act'.seen = act.seen
  <2>1. "backed" \in Steps /\ To("backed")
    BY DEF Steps, AfterRecorder, Backup
  <2>. QED  BY <1>1, <2>1, ToKeeps
<1>3. TypeOK'
  BY <1>0, Distinct, <1>1, <1>2, JournalFields
  DEF TypeOK, RecorderType, recorder, AtStep, Backup, Flag, Contents
<1>4. ReferencesOK'
  BY <1>0, Distinct, <1>1, <1>2, ActFields, JournalFields, PlanFields, CommandFields
  DEF TypeOK, ReferencesOK, ReferencesIntact, ActOK, Referenced, Selected, Target, Unfinished,
      recorder, AtStep, Backup
<1>5. ActOK'
  BY <1>0, Distinct, <1>1, <1>2, ActFields, JournalFields, CommandFields
  DEF TypeOK, ActOK, Referenced, Selected, Target, Unfinished, recorder, AtStep, Backup
<1>6. PlanOK'
  BY <1>0, Distinct, <1>1, <1>2, JournalFields, PlanFields
  DEF TypeOK, ActOK, PlanOK, Desired, Unfinished, recorder, AtStep, Backup
<1>7. EntryOK'
  BY <1>0, Distinct, <1>1, <1>2, JournalFields, PlanFields
  DEF TypeOK, ActOK, PlanOK, EntryOK, EntryIsLauncher, Unfinished, Contents, recorder, AtStep,
      Backup
<1>. QED  BY <1>3, <1>4, <1>5, <1>6, <1>7 DEF IInv

LEMMA LookInv == ASSUME IInv, Look PROVE IInv'
<1>0. TypeOK /\ ReferencesOK /\ ActOK /\ PlanOK /\ EntryOK
  BY DEF IInv
<1>1. act \in Action
  BY <1>0 DEF TypeOK, AtStep, Look
<1>2. /\ act' \in Action /\ act' # None
      /\ act'.v = act.v /\ act'.step = "checked" /\ act'.seen = entry
  BY <1>0, <1>1, Distinct DEF Look, TypeOK, Action, Steps
<1>3. TypeOK'
  BY <1>0, Distinct, <1>1, <1>2, JournalFields
  DEF TypeOK, RecorderType, recorder, AtStep, Look, Rest, Flag, Contents
<1>4. ReferencesOK'
  BY <1>0, Distinct, <1>1, <1>2, ActFields, JournalFields, PlanFields, CommandFields
  DEF TypeOK, ReferencesOK, ReferencesIntact, ActOK, Referenced, Selected, Target, Unfinished,
      recorder, AtStep, Look, Rest
<1>5. ActOK'
  BY <1>0, Distinct, <1>1, <1>2, ActFields, JournalFields, CommandFields
  DEF TypeOK, ActOK, Referenced, Selected, Target, Unfinished, recorder, AtStep, Look, Rest
<1>6. PlanOK'
  BY <1>0, Distinct, <1>1, <1>2, JournalFields, PlanFields
  DEF TypeOK, ActOK, PlanOK, Desired, Unfinished, recorder, AtStep, Look, Rest
<1>7. EntryOK'
  BY <1>0, Distinct, <1>1, <1>2, JournalFields, PlanFields
  DEF TypeOK, ActOK, PlanOK, EntryOK, EntryIsLauncher, Unfinished, Contents, recorder, AtStep,
      Look, Rest
<1>. QED  BY <1>3, <1>4, <1>5, <1>6, <1>7 DEF IInv

LEMMA PublishInv == ASSUME IInv, Publish PROVE IInv'
<1>0. TypeOK /\ ReferencesOK /\ ActOK /\ PlanOK /\ EntryOK
  BY DEF IInv
<1>1. act \in Action
  BY <1>0 DEF TypeOK, AtStep, Publish
<1>2. /\ act' \in Action /\ act' # None
      /\ act'.v = act.v /\ act'.step = "register" /\ act'.seen = act.seen
  <2>1. "register" \in Steps /\ To("register")
    BY DEF Steps, AfterRecorder, Publish
  <2>. QED  BY <1>1, <2>1, ToKeeps
<1>p. upd \in Journal /\ upd.plan \in Plan /\ act.v \in Versions /\ upd.target = act.v
  BY <1>0, <1>1, ActFields, JournalFields
  DEF TypeOK, ActOK, EntryOK, Unfinished, AtStep, Publish
<1>q. /\ upd.plan.launcher \in Versions /\ Desired(upd.plan, act.v) \in Registration
      /\ Desired(upd.plan, act.v).launcher = upd.plan.launcher
      /\ Desired(upd.plan, act.v).selected = act.v
  BY <1>p, PlanFields
<1>3. TypeOK'
  BY <1>0, Distinct, <1>1, <1>2, <1>p, <1>q, JournalFields
  DEF TypeOK, RecorderType, recorder, AtStep, Publish, Flag, Contents
<1>4. ReferencesOK'
  BY <1>0, Distinct, <1>1, <1>2, <1>p, <1>q, ActFields, JournalFields, PlanFields, CommandFields
  DEF TypeOK, ReferencesOK, ReferencesIntact, ActOK, Referenced, Selected, Target, Unfinished,
      recorder, AtStep, Publish
<1>5. ActOK'
  BY <1>0, Distinct, <1>1, <1>2, <1>p, <1>q, ActFields, JournalFields, CommandFields
  DEF TypeOK, ActOK, Referenced, Selected, Target, Unfinished, recorder, AtStep, Publish
<1>6. PlanOK'
  BY <1>0, Distinct, <1>1, <1>2, <1>p, <1>q, JournalFields, PlanFields
  DEF TypeOK, ActOK, PlanOK, Desired, Unfinished, recorder, AtStep, Publish
<1>7. EntryOK'
  BY <1>0, Distinct, <1>1, <1>2, <1>p, <1>q, JournalFields, PlanFields
  DEF TypeOK, ActOK, PlanOK, EntryOK, EntryIsLauncher, Unfinished, Contents, recorder, AtStep,
      Publish
<1>. QED  BY <1>3, <1>4, <1>5, <1>6, <1>7 DEF IInv

LEMMA RegisterInv == ASSUME IInv, Register PROVE IInv'
<1>0. TypeOK /\ ReferencesOK /\ ActOK /\ PlanOK /\ EntryOK
  BY DEF IInv
<1>1. act \in Action
  BY <1>0 DEF TypeOK, AtStep, Register
<1>2. /\ act' \in Action /\ act' # None
      /\ act'.v = act.v /\ act'.step = "verify" /\ act'.seen = act.seen
  <2>1. "verify" \in Steps /\ To("verify")
    BY DEF Steps, AfterRecorder, Register
  <2>. QED  BY <1>1, <2>1, ToKeeps
<1>p. upd \in Journal /\ upd.plan \in Plan /\ act.v \in Versions /\ upd.target = act.v
  BY <1>0, <1>1, ActFields, JournalFields
  DEF TypeOK, ActOK, EntryOK, Unfinished, AtStep, Register
<1>q. /\ upd.plan.launcher \in Versions /\ Desired(upd.plan, act.v) \in Registration
      /\ Desired(upd.plan, act.v).launcher = upd.plan.launcher
      /\ Desired(upd.plan, act.v).selected = act.v
  BY <1>p, PlanFields
<1>3. TypeOK'
  BY <1>0, Distinct, <1>1, <1>2, <1>p, <1>q, JournalFields
  DEF TypeOK, RecorderType, recorder, AtStep, Register, Flag, Contents
<1>4. ReferencesOK'
  BY <1>0, Distinct, <1>1, <1>2, <1>p, <1>q, ActFields, JournalFields, PlanFields, CommandFields
  DEF TypeOK, ReferencesOK, ReferencesIntact, ActOK, Referenced, Selected, Target, Unfinished,
      recorder, AtStep, Register
<1>5. ActOK'
  BY <1>0, Distinct, <1>1, <1>2, <1>p, <1>q, ActFields, JournalFields, CommandFields
  DEF TypeOK, ActOK, Referenced, Selected, Target, Unfinished, recorder, AtStep, Register
<1>6. PlanOK'
  BY <1>0, Distinct, <1>1, <1>2, <1>p, <1>q, JournalFields, PlanFields
  DEF TypeOK, ActOK, PlanOK, Desired, Unfinished, recorder, AtStep, Register
<1>7. EntryOK'
  BY <1>0, Distinct, <1>1, <1>2, <1>p, <1>q, JournalFields, PlanFields
  DEF TypeOK, ActOK, PlanOK, EntryOK, EntryIsLauncher, Unfinished, Contents, recorder, AtStep,
      Register
<1>. QED  BY <1>3, <1>4, <1>5, <1>6, <1>7 DEF IInv

LEMMA CompleteInv == ASSUME IInv, Complete PROVE IInv'
<1>0. TypeOK /\ ReferencesOK /\ ActOK /\ PlanOK /\ EntryOK
  BY DEF IInv
<1>1. act \in Action /\ upd \in Journal /\ upd.phase = "pending"
  BY <1>0 DEF TypeOK, ActOK, Unfinished, AtStep, Complete
<1>2. upd' \in Journal /\ upd'.phase = "complete"
  BY <1>1, JournalFields DEF Complete
<1>3. TypeOK'
  BY <1>0, Distinct, <1>1, <1>2, JournalFields
  DEF TypeOK, RecorderType, recorder, AtStep, Complete, Flag, Contents
<1>4. ReferencesOK'
  BY <1>0, Distinct, <1>1, <1>2, ActFields, JournalFields, PlanFields, CommandFields
  DEF TypeOK, ReferencesOK, ReferencesIntact, ActOK, Referenced, Selected, Target, Unfinished,
      recorder, AtStep, Complete
<1>5. ActOK'
  BY <1>0, Distinct, <1>1, <1>2, ActFields, JournalFields, CommandFields
  DEF TypeOK, ActOK, Referenced, Selected, Target, Unfinished, recorder, AtStep, Complete
<1>6. PlanOK'
  BY <1>0, Distinct, <1>1, <1>2, JournalFields, PlanFields
  DEF TypeOK, ActOK, PlanOK, Desired, Unfinished, recorder, AtStep, Complete
<1>7. EntryOK'
  BY <1>0, Distinct, <1>1, <1>2, JournalFields, PlanFields
  DEF TypeOK, ActOK, PlanOK, EntryOK, EntryIsLauncher, Unfinished, Contents, recorder, AtStep,
      Complete
<1>. QED  BY <1>3, <1>4, <1>5, <1>6, <1>7 DEF IInv

LEMMA AbortInv == ASSUME IInv, Abort PROVE IInv'
<1>0. TypeOK /\ ReferencesOK /\ ActOK /\ PlanOK /\ EntryOK
  BY DEF IInv
<1>r. RecorderType'
  <2>1. RecorderNext \/ UNCHANGED recorder
    BY <1>0 DEF RecorderNext, Abort, Stop, Rest
  <2>2. RecorderType
    BY <1>0 DEF TypeOK
  <2>. QED  BY <2>1, <2>2, RecorderTyped DEF RecorderType, recorder
<1>3. TypeOK'
  BY <1>0, Distinct, <1>r, JournalFields
  DEF TypeOK, recorder, AtStep, Abort, Stop, Rest, Flag, Contents
<1>4. ReferencesOK'
  BY <1>0, Distinct, ActFields, JournalFields, PlanFields, CommandFields
  DEF TypeOK, ReferencesOK, ReferencesIntact, ActOK, Referenced, Selected, Target, Unfinished,
      recorder, AtStep, Abort, Stop, Rest
<1>5. ActOK'
  BY <1>0, Distinct, ActFields, JournalFields, CommandFields
  DEF TypeOK, ActOK, Referenced, Selected, Target, Unfinished, recorder, AtStep, Abort, Stop,
      Rest
<1>6. PlanOK'
  BY <1>0, Distinct, JournalFields, PlanFields
  DEF TypeOK, ActOK, PlanOK, Desired, Unfinished, recorder, AtStep, Abort, Stop, Rest
<1>7. EntryOK'
  BY <1>0, Distinct, JournalFields, PlanFields
  DEF TypeOK, ActOK, PlanOK, EntryOK, EntryIsLauncher, Unfinished, Contents, recorder, AtStep,
      Abort, Stop, Rest
<1>. QED  BY <1>3, <1>4, <1>5, <1>6, <1>7 DEF IInv

LEMMA PruneInv == ASSUME IInv, NEW v \in Versions, NEW c \in Versions, Prune(v, c) PROVE IInv'
<1>0. TypeOK /\ ReferencesOK /\ ActOK /\ PlanOK /\ EntryOK
  BY DEF IInv
<1>2. /\ act' \in Action /\ act' # None
      /\ act'.v = v /\ act'.step = "prune"
  BY NewAct DEF Prune, Steps, Contents
<1>3. TypeOK'
  BY <1>0, Distinct, <1>2, JournalFields
  DEF TypeOK, RecorderType, recorder, AtStep, Prune, Rest, Flag, Contents
<1>4. ReferencesOK'
  BY <1>0, Distinct, <1>2, ActFields, JournalFields, PlanFields, CommandFields
  DEF TypeOK, ReferencesOK, ReferencesIntact, ActOK, Referenced, Selected, Target, Unfinished,
      recorder, AtStep, Prune, Rest
<1>5. ActOK'
  BY <1>0, Distinct, <1>2, ActFields, JournalFields, CommandFields
  DEF TypeOK, ActOK, Referenced, Selected, Target, Unfinished, recorder, AtStep, Prune, Rest
<1>6. PlanOK'
  BY <1>0, Distinct, <1>2, JournalFields, PlanFields
  DEF TypeOK, ActOK, PlanOK, Desired, Unfinished, recorder, AtStep, Prune, Rest
<1>7. EntryOK'
  BY <1>0, Distinct, <1>2, JournalFields, PlanFields
  DEF TypeOK, ActOK, PlanOK, EntryOK, EntryIsLauncher, Unfinished, Contents, recorder, AtStep,
      Prune, Rest
<1>. QED  BY <1>3, <1>4, <1>5, <1>6, <1>7 DEF IInv

LEMMA RemoveInv == ASSUME IInv, Remove PROVE IInv'
<1>0. TypeOK /\ ReferencesOK /\ ActOK /\ PlanOK /\ EntryOK
  BY DEF IInv
<1>3. TypeOK'
  BY <1>0, Distinct, JournalFields
  DEF TypeOK, RecorderType, recorder, AtStep, Remove, Flag, Contents
<1>4. ReferencesOK'
  BY <1>0, Distinct, ActFields, JournalFields, PlanFields, CommandFields
  DEF TypeOK, ReferencesOK, ReferencesIntact, ActOK, Referenced, Selected, Target, Unfinished,
      recorder, AtStep, Remove
<1>5. ActOK'
  BY <1>0, Distinct, ActFields, JournalFields, CommandFields
  DEF TypeOK, ActOK, Referenced, Selected, Target, Unfinished, recorder, AtStep, Remove
<1>6. PlanOK'
  BY <1>0, Distinct, JournalFields, PlanFields
  DEF TypeOK, ActOK, PlanOK, Desired, Unfinished, recorder, AtStep, Remove
<1>7. EntryOK'
  BY <1>0, Distinct, JournalFields, PlanFields
  DEF TypeOK, ActOK, PlanOK, EntryOK, EntryIsLauncher, Unfinished, Contents, recorder, AtStep,
      Remove
<1>. QED  BY <1>3, <1>4, <1>5, <1>6, <1>7 DEF IInv

LEMMA ServiceInv == ASSUME IInv, NEW v \in Versions, Service(v) PROVE IInv'
<1>0. TypeOK /\ ReferencesOK /\ ActOK /\ PlanOK /\ EntryOK
  BY DEF IInv
<1>r. RecorderType'
  <2>1. RecorderNext
    BY <1>0
    DEF RecorderNext, Service, BeginInstall, BeginUninstall, BeginUpgrade, UpgradeAtOnce,
        Others, Ours
  <2>2. RecorderType
    BY <1>0 DEF TypeOK
  <2>. QED  BY <2>1, <2>2, RecorderTyped DEF RecorderType, recorder
<1>3. TypeOK'
  BY <1>0, Distinct, <1>r, JournalFields
  DEF TypeOK, recorder, AtStep, Service, BeginInstall, BeginUninstall, BeginUpgrade,
      UpgradeAtOnce, Others, Ours, Flag, Contents
<1>4. ReferencesOK'
  BY <1>0, Distinct, ActFields, JournalFields, PlanFields, CommandFields
  DEF TypeOK, ReferencesOK, ReferencesIntact, ActOK, Referenced, Selected, Target, Unfinished,
      recorder, AtStep, Service, BeginInstall, BeginUninstall, BeginUpgrade, UpgradeAtOnce,
      Others, Ours
<1>5. ActOK'
  BY <1>0, Distinct, ActFields, JournalFields, CommandFields
  DEF TypeOK, ActOK, Referenced, Selected, Target, Unfinished, recorder, AtStep, Service,
      BeginInstall, BeginUninstall, BeginUpgrade, UpgradeAtOnce, Others, Ours
<1>6. PlanOK'
  BY <1>0, Distinct, JournalFields, PlanFields
  DEF TypeOK, ActOK, PlanOK, Desired, Unfinished, recorder, AtStep, Service, BeginInstall,
      BeginUninstall, BeginUpgrade, UpgradeAtOnce, Others, Ours
<1>7. EntryOK'
  BY <1>0, Distinct, JournalFields, PlanFields
  DEF TypeOK, ActOK, PlanOK, EntryOK, EntryIsLauncher, Unfinished, Contents, recorder, AtStep,
      Service, BeginInstall, BeginUninstall, BeginUpgrade, UpgradeAtOnce, Others, Ours
<1>. QED  BY <1>3, <1>4, <1>5, <1>6, <1>7 DEF IInv

LEMMA ServiceStepInv == ASSUME IInv, ServiceStep PROVE IInv'
<1>0. TypeOK /\ ReferencesOK /\ ActOK /\ PlanOK /\ EntryOK
  BY DEF IInv
<1>r. RecorderType'
  <2>1. RecorderNext
    BY <1>0 DEF RecorderNext, ServiceStep, Put, Lose, Others
  <2>2. RecorderType
    BY <1>0 DEF TypeOK
  <2>. QED  BY <2>1, <2>2, RecorderTyped DEF RecorderType, recorder
<1>3. TypeOK'
  BY <1>0, Distinct, <1>r, JournalFields
  DEF TypeOK, recorder, AtStep, ServiceStep, Put, Lose, Others, Flag, Contents
<1>4. ReferencesOK'
  BY <1>0, Distinct, ActFields, JournalFields, PlanFields, CommandFields
  DEF TypeOK, ReferencesOK, ReferencesIntact, ActOK, Referenced, Selected, Target, Unfinished,
      recorder, AtStep, ServiceStep, Put, Lose, Others
<1>5. ActOK'
  BY <1>0, Distinct, ActFields, JournalFields, CommandFields
  DEF TypeOK, ActOK, Referenced, Selected, Target, Unfinished, recorder, AtStep, ServiceStep,
      Put, Lose, Others
<1>6. PlanOK'
  BY <1>0, Distinct, JournalFields, PlanFields
  DEF TypeOK, ActOK, PlanOK, Desired, Unfinished, recorder, AtStep, ServiceStep, Put, Lose,
      Others
<1>7. EntryOK'
  BY <1>0, Distinct, JournalFields, PlanFields
  DEF TypeOK, ActOK, PlanOK, EntryOK, EntryIsLauncher, Unfinished, Contents, recorder, AtStep,
      ServiceStep, Put, Lose, Others
<1>. QED  BY <1>3, <1>4, <1>5, <1>6, <1>7 DEF IInv

LEMMA ServiceEndInv == ASSUME IInv, ServiceEnd PROVE IInv'
<1>0. TypeOK /\ ReferencesOK /\ ActOK /\ PlanOK /\ EntryOK
  BY DEF IInv
<1>r. RecorderType'
  <2>1. RecorderNext
    BY <1>0 DEF RecorderNext, ServiceEnd, Finish, Stop, Others, Ours
  <2>2. RecorderType
    BY <1>0 DEF TypeOK
  <2>. QED  BY <2>1, <2>2, RecorderTyped DEF RecorderType, recorder
<1>3. TypeOK'
  BY <1>0, Distinct, <1>r, JournalFields
  DEF TypeOK, recorder, AtStep, ServiceEnd, Finish, Stop, Others, Ours, Flag, Contents
<1>4. ReferencesOK'
  BY <1>0, Distinct, ActFields, JournalFields, PlanFields, CommandFields
  DEF TypeOK, ReferencesOK, ReferencesIntact, ActOK, Referenced, Selected, Target, Unfinished,
      recorder, AtStep, ServiceEnd, Finish, Stop, Others, Ours
<1>5. ActOK'
  BY <1>0, Distinct, ActFields, JournalFields, CommandFields
  DEF TypeOK, ActOK, Referenced, Selected, Target, Unfinished, recorder, AtStep, ServiceEnd,
      Finish, Stop, Others, Ours
<1>6. PlanOK'
  BY <1>0, Distinct, JournalFields, PlanFields
  DEF TypeOK, ActOK, PlanOK, Desired, Unfinished, recorder, AtStep, ServiceEnd, Finish, Stop,
      Others, Ours
<1>7. EntryOK'
  BY <1>0, Distinct, JournalFields, PlanFields
  DEF TypeOK, ActOK, PlanOK, EntryOK, EntryIsLauncher, Unfinished, Contents, recorder, AtStep,
      ServiceEnd, Finish, Stop, Others, Ours
<1>. QED  BY <1>3, <1>4, <1>5, <1>6, <1>7 DEF IInv

LEMMA TouchInv == ASSUME IInv, NEW f \in Files \union {None}, Touch(f) PROVE IInv'
<1>0. TypeOK /\ ReferencesOK /\ ActOK /\ PlanOK /\ EntryOK
  BY DEF IInv
<1>3. TypeOK'
  BY <1>0, Distinct, JournalFields
  DEF TypeOK, RecorderType, recorder, AtStep, Touch, Flag, Contents
<1>4. ReferencesOK'
  BY <1>0, Distinct, ActFields, JournalFields, PlanFields, CommandFields
  DEF TypeOK, ReferencesOK, ReferencesIntact, ActOK, Referenced, Selected, Target, Unfinished,
      recorder, AtStep, Touch
<1>5. ActOK'
  BY <1>0, Distinct, ActFields, JournalFields, CommandFields
  DEF TypeOK, ActOK, Referenced, Selected, Target, Unfinished, recorder, AtStep, Touch
<1>6. PlanOK'
  BY <1>0, Distinct, JournalFields, PlanFields
  DEF TypeOK, ActOK, PlanOK, Desired, Unfinished, recorder, AtStep, Touch
<1>7. EntryOK'
  BY <1>0, Distinct, JournalFields, PlanFields
  DEF TypeOK, ActOK, PlanOK, EntryOK, EntryIsLauncher, Unfinished, Contents, recorder, AtStep,
      Touch
<1>. QED  BY <1>3, <1>4, <1>5, <1>6, <1>7 DEF IInv

LEMMA SettleInv == ASSUME IInv, Settle PROVE IInv'
<1>0. TypeOK /\ ReferencesOK /\ ActOK /\ PlanOK /\ EntryOK
  BY DEF IInv
<1>3. TypeOK'
  BY <1>0, Distinct, JournalFields
  DEF TypeOK, RecorderType, recorder, AtStep, Settle, Flag, Contents
<1>4. ReferencesOK'
  BY <1>0, Distinct, ActFields, JournalFields, PlanFields, CommandFields
  DEF TypeOK, ReferencesOK, ReferencesIntact, ActOK, Referenced, Selected, Target, Unfinished,
      recorder, AtStep, Settle
<1>5. ActOK'
  BY <1>0, Distinct, ActFields, JournalFields, CommandFields
  DEF TypeOK, ActOK, Referenced, Selected, Target, Unfinished, recorder, AtStep, Settle
<1>6. PlanOK'
  BY <1>0, Distinct, JournalFields, PlanFields
  DEF TypeOK, ActOK, PlanOK, Desired, Unfinished, recorder, AtStep, Settle
<1>7. EntryOK'
  BY <1>0, Distinct, JournalFields, PlanFields
  DEF TypeOK, ActOK, PlanOK, EntryOK, EntryIsLauncher, Unfinished, Contents, recorder, AtStep,
      Settle
<1>. QED  BY <1>3, <1>4, <1>5, <1>6, <1>7 DEF IInv

LEMMA ApplyInv ==
    ASSUME IInv, NEW v \in Versions, NEW node \in BOOLEAN, NEW adopt \in BOOLEAN,
           Apply(v, node, adopt)
    PROVE  IInv'
<1>0. TypeOK /\ ReferencesOK /\ ActOK /\ PlanOK /\ EntryOK
  BY DEF IInv
<1>1. act' \in Action /\ act' # None /\ act'.v = v /\ act'.step = "recorder"
  BY NewAct DEF Apply, Steps, Contents
<1>2. /\ upd' \in Journal
      /\ upd'.target = v /\ upd'.phase = "pending"
      /\ upd'.plan \in Plan \union {None}
      /\ upd'.plan # None =>
            /\ cli \in {upd'.plan.prevReg, Desired(upd'.plan, v)}
            /\ upd'.plan.prevReg # None => upd'.plan.prevReg.launcher = upd'.plan.launcher
  <2>1. CASE Unfinished
    <3>1. upd \in Journal /\ upd.target = v /\ upd.phase = "pending" /\ upd' = upd
      BY <1>0, <2>1 DEF TypeOK, Apply, Unfinished
    <3>2. upd.plan \in Plan \union {None}
      BY <3>1, JournalFields
    <3>. QED  BY <1>0, <2>1, <3>1, <3>2 DEF PlanOK
  <2>2. CASE ~Unfinished
    <3>1. cli # None => cli \in Registration /\ cli.launcher \in Versions
      BY <1>0, RegistrationFields DEF TypeOK
    <3>2. /\ NewPlan(v) \in Plan
          /\ NewPlan(v).prevReg = cli
          /\ cli # None => NewPlan(v).launcher = cli.launcher
      BY <1>0, <3>1 DEF TypeOK, NewPlan, Plan
    <3>3. PICK p \in Plan \union {None} :
             /\ upd' = [target |-> v, plan |-> p, phase |-> "pending"]
             /\ p \in {NewPlan(v), None}
      BY <2>2, <3>2 DEF Apply
    <3>4. upd' \in Journal /\ upd'.target = v /\ upd'.phase = "pending" /\ upd'.plan = p
      BY <3>3 DEF Journal
    <3>. QED  BY <3>2, <3>3, <3>4
  <2>. QED  BY <2>1, <2>2
<1>3. TypeOK'
  BY <1>0, <1>1, <1>2 DEF TypeOK, RecorderType, recorder, Apply
<1>4. ReferencesOK'
  BY <1>0, <1>1, <1>2 DEF ReferencesOK, ReferencesIntact, Selected, Target, Unfinished, recorder, Apply
<1>5. ActOK'
  BY <1>1, <1>2, Distinct DEF ActOK, Unfinished
<1>6. PlanOK'
  BY <1>2 DEF PlanOK, Apply, Desired
<1>7. EntryOK'
  BY <1>0, <1>1 DEF EntryOK, EntryIsLauncher, Apply
<1>. QED  BY <1>3, <1>4, <1>5, <1>6, <1>7 DEF IInv

-----------------------------------------------------------------------------
(* The invariant, and the theorems. *)

LEMMA InitOK == Init => IInv
<1> SUFFICES ASSUME Init PROVE IInv
  OBVIOUS
<1>1. MaxVersion \in Nat /\ 0 \in 0..MaxVersion
  BY UpdateAssumption
<1>2. TypeOK
  BY <1>1 DEF Init, RecorderInit, TypeOK, RecorderType, Contents, Flag
<1>3. ReferencesOK
  BY DEF Init, RecorderInit, ReferencesOK, ReferencesIntact, Selected, Target, Unfinished
<1>4. ActOK /\ PlanOK /\ EntryOK
  BY DEF Init, ActOK, PlanOK, EntryOK, EntryIsLauncher, Unfinished
<1>. QED  BY <1>2, <1>3, <1>4 DEF IInv

LEMMA StepOK == IInv /\ [Next]_vars => IInv'
<1> SUFFICES ASSUME IInv, [Next]_vars PROVE IInv'
  OBVIOUS
<1>1. CASE \E v \in Versions, node, adopt \in BOOLEAN : Apply(v, node, adopt)
  BY <1>1, ApplyInv
<1>2. CASE Progress
  <2>1. CASE AtStep("upgrading") /\ Put /\ UNCHANGED Others
    BY <2>1, ServiceStepInv DEF ServiceStep
  <2>. QED
    BY <1>2, <2>1, UpdateRecorderInv, RecorderAtOnceInv, RecorderUpdatedInv, LaunchedInv, BackupInv,
       LookInv, PublishInv, RegisterInv, CompleteInv, RemoveInv DEF Progress
<1>3. CASE Settle
  BY <1>3, SettleInv
<1>4. CASE Disturbance
  BY <1>4, AbortInv, ServiceStepInv, ServiceEndInv, PlaceInv, ServiceInv, PruneInv, TouchInv
  DEF Disturbance
<1>5. CASE UNCHANGED vars
  BY <1>5 DEF vars, recorder, IInv, TypeOK, RecorderType, ReferencesOK, ReferencesIntact, ActOK, PlanOK,
     EntryOK, EntryIsLauncher, Unfinished, Referenced, Selected, Target, Desired
<1>. QED  BY <1>1, <1>2, <1>3, <1>4, <1>5 DEF Next

LEMMA Inductive == Spec => []IInv
BY InitOK, StepOK, PTL DEF Spec

\* Type correctness of the update, the recorder's registration and the journals.
THEOREM UpdateTypeCorrect == Spec => []TypeOK
<1>1. IInv => TypeOK
  BY DEF IInv
<1>. QED  BY <1>1, Inductive, PTL

\* No version that the recorder, the command entry, an unfinished update or an
\* unfinished upgrade of the recorder refers to is removed: prune_at reads the
\* references under both locks, and every command that makes a new one finds its
\* version under one of them.
THEOREM ReferencesTheorem == Spec => []ReferencesIntact
<1>1. IInv => ReferencesIntact
  BY DEF IInv, ReferencesOK
<1>. QED  BY <1>1, Inductive, PTL

\* The file at the registered command entry is its launcher, wherever an update
\* died in activate_cli, as long as nobody else changes the entry.
THEOREM LauncherTheorem == Spec => []EntryIsLauncher
<1>1. IInv => EntryIsLauncher
  BY DEF IInv, EntryOK
<1>. QED  BY <1>1, Inductive, PTL

\* activate_cli replaces a user's file only after it was kept.
THEOREM KeptTheorem == Spec => UserFileKept
<1> DEFINE Kept == (entry \in Files /\ entry' \in Versions /\ entry = act.seen) => entry \in backups
<1>1. ASSUME IInv, Next, entry \in Files, entry' \in Versions, entry = act.seen
      PROVE  entry \in backups
  <2>1. Publish
    <3>1. entry' # entry
      BY <1>1, Distinct
    <3>2. ASSUME NEW f \in Files \union {None}, Touch(f) PROVE FALSE
      BY <1>1, <3>2, Distinct DEF Touch
    <3>. QED
      BY <1>1, <3>1, <3>2 DEF Next, Progress, Disturbance, Apply, UpdateRecorder, RecorderAtOnce, RecorderUpdated,
         Launched, Backup, Look, Register, Complete, Remove, Abort, ServiceStep, ServiceEnd, Place,
         Service, Prune, Settle, Rest, Others
  <2>. QED  BY <1>1, <2>1 DEF IInv, EntryOK, Publish, AtStep
<1>2. IInv /\ [Next]_vars => [Kept]_vars
  BY <1>1
<1>. QED  BY <1>2, Inductive, PTL DEF Spec, UserFileKept

=============================================================================
