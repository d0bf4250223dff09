------------------------------ MODULE AppUpdate ------------------------------
(***************************************************************************)
(* The update of the application on one machine (update.rs): immutable     *)
(* versions beside each other, the recorder registered with one of them,   *)
(* and a stable command entry whose registration selects one.  An update   *)
(* journal keeps target, scope and the plan for the entry from before the  *)
(* recorder is touched until both are at the target; prune removes         *)
(* versions.  Both hold the update lock; service commands that are given   *)
(* directly do not, they share only the recorder's mutation lock.          *)
(*                                                                         *)
(* The user's own file may be at the entry, and change at any time.  A     *)
(* file's hash is its identity: that of version v is v.                    *)
(***************************************************************************)
EXTENDS RecorderUpgrade

CONSTANT Files      \* what the user may have at the command entry

Contents == Files \union Versions \union {None}

VARIABLES
    bins,       \* the versions whose executable is on disk
    entry,      \* the file at the command entry
    backups,    \* the user's files that were kept when the entry was adopted
    cli,        \* the registration of the entry: its launcher and the version selected
    upd,        \* the update journal
    act,        \* the update or prune that holds the update lock
    touched,    \* history: "yes" once somebody else changed the entry
    settled     \* "yes" once nothing fails and the user only retries the update

vars == <<recorder, bins, entry, backups, cli, upd, act, touched, settled>>

Flag == {"yes", "no"}

Registration == [launcher : Versions, selected : Versions]

\* CliPlan: what was at the entry and how it was registered
Plan == [prev : Contents, launcher : Versions, prevReg : Registration \union {None}]

Journal == [target : Versions, plan : Plan \union {None}, phase : {"pending", "complete"}]

Steps == {"recorder", "upgrading", "cli", "backed", "checked", "register", "verify", "prune"}

\* seen is what was at the entry at the last look before it is replaced.
Action == [v : Versions, step : Steps, seen : Contents]

ASSUME UpdateAssumption ==
    /\ MaxVersion \in Nat \ {0}
    /\ Files \intersect (0..MaxVersion) = {}
    /\ None \notin Files \union 0..MaxVersion \union Registration \union Plan \union Journal
                  \union Action \union RecorderCommand

TypeOK ==
    /\ RecorderType
    /\ bins \subseteq Versions
    /\ entry \in Contents
    /\ backups \subseteq Files
    /\ cli \in Registration \union {None}
    /\ upd \in Journal \union {None}
    /\ act \in Action \union {None}
    /\ touched \in Flag /\ settled \in Flag

Init ==
    /\ RecorderInit
    /\ bins = {}
    /\ entry \in Files \union {None}
    /\ backups = {}
    /\ cli = None /\ upd = None /\ act = None
    /\ touched = "no" /\ settled = "no"

Unfinished == upd # None /\ upd.phase = "pending"

-----------------------------------------------------------------------------
(* The update, up to the recorder. *)

\* install_bytes
Place(v) ==
    /\ act = None
    /\ bins' = bins \union {v}
    /\ UNCHANGED <<recorder, entry, backups, cli, upd, act, touched, settled>>

\* Slip: what is at the entry becomes the launcher.
NewPlanOfEntry(v) == [prev |-> entry, launcher |-> entry, prevReg |-> cli]

\* plan_cli: whose the entry is; a user's file only with --adopt.
NewPlan(v) ==
    [prev |-> entry, launcher |-> IF cli = None THEN v ELSE cli.launcher, prevReg |-> cli]

MayPlan(adopt) ==
    IF cli = None THEN entry = None \/ adopt ELSE entry = cli.launcher

Desired(p, v) == [launcher |-> p.launcher, selected |-> v]

\* Slip: only the file that was there before is accepted.
PlanHoldsAsMade(p, v) == entry = p.prev /\ cli = p.prevReg

\* validate_cli_plan
PlanHolds(p, v) ==
    /\ entry \in {p.prev, p.launcher}
    /\ cli \in {p.prevReg, Desired(p, v)}

\* apply_at up to the upgrade of the recorder; node says whether the scope has
\* the command entry.
Apply(v, node, adopt) ==
    /\ act = None
    /\ v \in bins
    /\ cli # None => v >= cli.selected
    /\ IF Unfinished
       THEN /\ upd.target = v /\ node = (upd.plan # None)
            /\ upd.plan # None => PlanHolds(upd.plan, v)
            /\ UNCHANGED upd
       ELSE /\ node => MayPlan(adopt)
            /\ upd' = [target |-> v, plan |-> IF node THEN NewPlan(v) ELSE None,
                       phase |-> "pending"]
    /\ act' = [v |-> v, step |-> "recorder", seen |-> None]
    /\ UNCHANGED <<recorder, bins, entry, backups, cli, touched, settled>>

AtStep(step) == act # None /\ act.step = step

To(step) == act' = [act EXCEPT !.step = step]

Rest == <<bins, entry, backups, cli, upd, touched, settled>>

AfterRecorder == IF upd.plan = None THEN "verify" ELSE "cli"

UpdateRecorder ==
    /\ AtStep("recorder")
    /\ BeginUpgrade(act.v)
    /\ To("upgrading")
    /\ UNCHANGED Rest

\* It is at the version already, or there is none.
RecorderAtOnce ==
    /\ AtStep("recorder")
    /\ \/ UpgradeAtOnce(act.v)
       \/ /\ cmd = None /\ reg = None /\ plan = None /\ act.v >= floor
          /\ UNCHANGED recorder
    /\ To(AfterRecorder)
    /\ UNCHANGED Rest

RecorderUpdated ==
    /\ AtStep("upgrading")
    /\ Finish
    /\ To(AfterRecorder)
    /\ UNCHANGED Rest

-----------------------------------------------------------------------------
(* activate_cli *)

\* The entry is the launcher already.
Launched ==
    /\ AtStep("cli")
    /\ PlanHolds(upd.plan, act.v)
    /\ entry = upd.plan.launcher
    /\ To("register")
    /\ UNCHANGED <<recorder, Rest>>

\* Slip: the file that is replaced is not kept.
BackupNothing ==
    /\ AtStep("cli")
    /\ PlanHolds(upd.plan, act.v)
    /\ entry # upd.plan.launcher /\ upd.plan.prevReg = None
    /\ To("backed")
    /\ UNCHANGED <<recorder, Rest>>

\* The file that is to be replaced is kept.
Backup ==
    /\ AtStep("cli")
    /\ PlanHolds(upd.plan, act.v)
    /\ entry # upd.plan.launcher /\ upd.plan.prevReg = None
    /\ backups' = backups \union ({upd.plan.prev} \intersect Files)
    /\ To("backed")
    /\ UNCHANGED <<recorder, bins, entry, cli, upd, touched, settled>>

\* publish_entry: the last look, and then the replacement of what is there
Look ==
    /\ AtStep("backed")
    /\ entry = upd.plan.prev
    /\ act' = [act EXCEPT !.step = "checked", !.seen = entry]
    /\ UNCHANGED <<recorder, Rest>>

Publish ==
    /\ AtStep("checked")
    /\ entry' = upd.plan.launcher
    /\ To("register")
    /\ UNCHANGED <<recorder, bins, backups, cli, upd, touched, settled>>

\* Slip: the version is selected before the launcher is there.
RegisterFirst ==
    /\ act # None /\ act.step \in {"cli", "register"}
    /\ upd.plan # None
    /\ cli' = Desired(upd.plan, act.v)
    /\ To("verify")
    /\ UNCHANGED <<recorder, bins, entry, backups, upd, touched, settled>>

Register ==
    /\ AtStep("register")
    /\ cli' = Desired(upd.plan, act.v)
    /\ To("verify")
    /\ UNCHANGED <<recorder, bins, entry, backups, upd, touched, settled>>

Verified(p, v) == PlanHolds(p, v) /\ entry = p.launcher /\ v \in bins

Complete ==
    /\ AtStep("verify")
    /\ upd.plan # None => Verified(upd.plan, act.v)
    /\ upd' = [upd EXCEPT !.phase = "complete"]
    /\ act' = None
    /\ UNCHANGED <<recorder, bins, entry, backups, cli, touched, settled>>

\* A step of an update or prune fails or its process dies, with the recorder's
\* command if that is under way.
Abort ==
    /\ act # None
    /\ IF act.step = "upgrading" THEN Stop ELSE UNCHANGED recorder
    /\ act' = None
    /\ UNCHANGED Rest

-----------------------------------------------------------------------------
(* prune_at, of a version that nothing refers to. *)

Selected == IF cli = None THEN {} ELSE {cli.selected}
Target   == IF Unfinished THEN {upd.target} ELSE {}

\* Slip: an unfinished upgrade of the recorder does not refer to its target.
ReferencedByRegistrations == {reg} \union Selected \union Target

Referenced == {reg, plan} \union Selected \union Target

\* c is the version that runs it; both locks are held to the end.
Prune(v, c) ==
    /\ act = None /\ cmd = None
    /\ v \in bins /\ v # c /\ c >= floor
    /\ v \notin Referenced
    /\ act' = [v |-> v, step |-> "prune", seen |-> None]
    /\ UNCHANGED <<recorder, Rest>>

Remove ==
    /\ AtStep("prune")
    /\ bins' = bins \ {act.v}
    /\ act' = None
    /\ UNCHANGED <<recorder, entry, backups, cli, upd, touched, settled>>

-----------------------------------------------------------------------------
(* Service commands given directly, and the user. *)

Ours == AtStep("upgrading") \/ AtStep("prune")

Others == <<bins, entry, backups, cli, upd, act, touched, settled>>

\* validate_options: an executable that is registered is there.
Service(v) ==
    /\ ~Ours
    /\ \/ BeginUninstall(v) \/ UpgradeAtOnce(v)
       \/ v \in bins /\ (BeginInstall(v) \/ BeginUpgrade(v))
    /\ UNCHANGED Others

\* The command under way, whoever gave it, replaces the registration.
ServiceStep == (Put \/ Lose) /\ UNCHANGED Others

ServiceEnd == ~Ours /\ (Finish \/ Stop) /\ UNCHANGED Others

\* Another installer, or the user.
Touch(f) ==
    /\ entry # f
    /\ entry' = f
    /\ touched' = "yes"
    /\ UNCHANGED <<recorder, bins, backups, cli, upd, act, settled>>

Settle ==
    /\ settled = "no"
    /\ settled' = "yes"
    /\ UNCHANGED <<recorder, bins, entry, backups, cli, upd, act, touched>>

-----------------------------------------------------------------------------

Progress ==
    \/ UpdateRecorder \/ RecorderAtOnce \/ (AtStep("upgrading") /\ Put /\ UNCHANGED Others)
    \/ RecorderUpdated \/ Launched \/ Backup \/ Look \/ Publish \/ Register \/ Complete \/ Remove

Disturbance ==
    \/ Abort \/ ServiceStep \/ ServiceEnd
    \/ \E v \in Versions : Place(v) \/ Service(v)
    \/ \E v, c \in Versions : Prune(v, c)
    \/ \E f \in Files \union {None} : Touch(f)

Next ==
    \/ \E v \in Versions, node, adopt \in BOOLEAN : Apply(v, node, adopt)
    \/ Progress \/ Settle
    \/ settled = "no" /\ Disturbance

Spec == Init /\ [][Next]_vars

\* From some time on nothing fails and the unfinished update is retried; the
\* update goes on and puts its version in place.
Fairness ==
    /\ WF_vars(\E v \in Versions, node \in BOOLEAN : Unfinished /\ Apply(v, node, TRUE))
    /\ WF_vars(Progress /\ ~(AtStep("upgrading") /\ Put /\ reg = cmd.v))

FairSpec == Spec /\ Fairness

-----------------------------------------------------------------------------

\* Nothing that is registered, selected or planned is removed: with a missing
\* executable neither the recorder nor the command starts, and no later update
\* could tell which version it has to replace.
ReferencesIntact ==
    {reg, plan} \union Selected \union Target \subseteq bins \union {None, 0}

\* The user's file at the entry is replaced only when it is kept, unless it
\* was put there in the instant between the last look and the replacement.
UserFileKept ==
    [][(entry \in Files /\ entry' \in Versions /\ entry = act.seen) => entry \in backups]_vars

\* The registered entry is its launcher, wherever an update died, unless
\* somebody else changed it.
EntryIsLauncher == cli # None /\ touched = "no" => entry = cli.launcher

\* An unfinished update is finished by retrying it, unless the entry or the
\* recorder was changed by others.
MayRetry(v) == v >= floor /\ (reg # None => v >= reg)

UpdateFinishes ==
    /\ settled = "yes" /\ Unfinished /\ touched = "no"
    /\ MayRetry(upd.target)
    /\ cmd # None => AtStep("upgrading")
    ~> ~Unfinished

\* "Retry the same update": the candidate of an unfinished update is let
\* through by the recorder's version fence.
RetryPossible == Unfinished => MayRetry(upd.target)

=============================================================================
