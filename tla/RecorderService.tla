--------------------------- MODULE RecorderService ---------------------------
(***************************************************************************)
(* The registration of the background recorder with the user's service     *)
(* manager, and its replacement (service.rs, service/upgrade.rs,           *)
(* service/recorder_coordination.rs), as on Linux with systemd.  A         *)
(* command stops the registered recorder, writes another definition, binds *)
(* a trust marker to it, and starts it; an upgrade keeps a journal from    *)
(* which any later candidate goes on.  A durable blocker and a gate keep   *)
(* recorders and the first history initialization out meanwhile.           *)
(*                                                                         *)
(* Every command of the manager may fail, the process that runs a command  *)
(* may die between any two steps, and the recorder may be started, exit    *)
(* and be restarted by the manager at any time.  A definition of version 0 *)
(* belongs to a release that knows nothing of gate, marker and blocker.    *)
(***************************************************************************)
EXTENDS Integers

CONSTANTS
    MaxVersion,     \* the newest candidate
    Options,        \* what a definition says besides its executable
    Unused          \* no definition

Versions == 1..MaxVersion
Defs     == [version : 0..MaxVersion, opts : Options]

Maybe(S) == S \union {Unused}

Flag == {"yes", "no"}

Journal == [target : Defs, prev : Defs, enabled : Flag, phase : {"pending", "complete"}]

Kinds == {"install", "uninstall", "upgrade", "start", "stop", "restart"}

Steps == {"begin", "fenced", "unmarked", "disabled", "stopped", "written", "staged",
          "trusted", "starting", "enabled", "started", "failing", "cleaned"}

\* target is what is to be registered, enable whether it is to be started.
Command == [kind : Kinds, step : Steps, target : Maybe(Defs), enable : Flag]

Intent == [opts : Options, enabled : Flag, least : Versions]

ASSUME ServiceAssumption ==
    /\ MaxVersion \in Nat \ {0}
    /\ Options # {}
    /\ Unused \notin Defs \union Journal \union Command \union Intent
    /\ Unused \notin 0..MaxVersion
    /\ Unused \notin [kind : Kinds, v : 0..MaxVersion]

VARIABLES
    unit,       \* the definition on disk
    loaded,     \* the definition the manager has loaded
    enabled,    \* "yes" if the manager starts it at login
    proc,       \* the definition of the process it runs
    active,     \* "yes" if that process has passed the gate and records
    fresh,      \* "yes" if it did so since the journal was prepared
    marker,     \* the definition the trust marker is bound to
    blocker,    \* the blocker: "none", or "old" or "new" as it is older than the journal
    journal,    \* the upgrade journal
    op,         \* the command under way, one by the mutation lock
    history,    \* the state of the history: "v1", "migrating", "v2"
    cutover,    \* "yes" while some process initializes it
    intent,     \* history: what the registration was when the upgrade was prepared
    settled     \* "yes" once nothing fails and the user only retries the upgrade

vars == <<unit, loaded, enabled, proc, active, fresh, marker, blocker, journal, op,
          history, cutover, intent, settled>>

TypeOK ==
    /\ {unit, loaded, proc, marker} \subseteq Maybe(Defs)
    /\ {enabled, active, fresh, cutover, settled} \subseteq Flag
    /\ blocker \in {"none", "old", "new"}
    /\ journal \in Maybe(Journal)
    /\ op \in Maybe(Command)
    /\ history \in {"v1", "migrating", "v2"}
    /\ intent \in Maybe(Intent)
    /\ proc = Unused => active = "no"
    /\ active = "no" => fresh = "no"

\* Nothing is registered, or a release of before these rules.
Init ==
    /\ unit \in {Unused} \union {d \in Defs : d.version = 0}
    /\ loaded = unit /\ proc = unit
    /\ enabled = IF unit = Unused THEN "no" ELSE "yes"
    /\ active = enabled
    /\ fresh = "no"
    /\ marker = Unused
    /\ blocker = "none"
    /\ journal = Unused
    /\ op = Unused
    /\ history \in {"v1"} \union (IF unit = Unused THEN {"v2"} ELSE {})
    /\ cutover = "no"
    /\ intent = Unused
    /\ settled = "no"

Legacy(d) == d # Unused /\ d.version = 0

-----------------------------------------------------------------------------
(* What a command sees. *)

\* current_user_service_definition_observation: a definition of this
\* application that the manager has loaded as it is on disk, or none at all.
Registered   == unit # Unused /\ ~Legacy(unit) /\ loaded = unit
Absent       == unit = Unused /\ loaded = Unused
Unverifiable == ~Registered /\ ~Absent

\* ensure_service_definition_is_trusted_at
Trusted == Absent \/ (Registered /\ marker = unit)

Pending == journal # Unused /\ journal.phase = "pending"

\* Slip: a journal of a newer candidate is not respected.
MayReadAny(v) == TRUE

\* validate_journal: its floor is the version of the candidate that saved it.
MayRead(v) == journal # Unused => v >= journal.target.version

\* Slip: a definition that a failed replacement removed is a changed one.
ResumableIfPresent == unit \in {journal.prev, journal.target}

\* validate_resume_registration
Resumable == unit \in {Unused, journal.prev, journal.target}

\* recover_interrupted_registration: the manager does not agree with the disk,
\* but the blocker proves that the journal's replacement got this far.
Recoverable ==
    /\ Pending /\ blocker = "new"
    /\ unit # Unused /\ ~Legacy(unit) /\ Resumable
    /\ enabled = "no" /\ proc = Unused

\* read_registration_during_upgrade
Known == ~Unverifiable \/ Recoverable

\* ready_status: the manager runs the recorder of this definition, and it has
\* saved a heartbeat.
Ready(d, new) == proc = d /\ active = "yes" /\ (new => fresh = "yes")

-----------------------------------------------------------------------------
(* The beginning of the commands. *)

Frame == <<unit, loaded, enabled, proc, active, marker, history, cutover>>

NewCommand(kind, step, target, enable) ==
    [kind |-> kind, step |-> step, target |-> target, enable |-> enable]

\* install
Install(v, o) ==
    /\ op = Unused
    /\ op' = NewCommand("install", "begin", [version |-> v, opts |-> o], "yes")
    /\ UNCHANGED <<Frame, fresh, blocker, journal, intent, settled>>

\* registered_options_for_mutation
MayUninstall(v) ==
    /\ MayRead(v) /\ Known
    /\ IF Pending THEN Resumable ELSE Trusted

\* uninstall
Uninstall(v) ==
    /\ op = Unused
    /\ MayUninstall(v)
    /\ op' = NewCommand("uninstall", "begin", Unused, "no")
    /\ UNCHANGED <<Frame, fresh, blocker, journal, intent, settled>>

\* Slip: only the unfinished upgrade is compared, not what is registered.
NoDowngradeOfJournal(v) == Pending => v >= journal.target.version

\* inspect_update_identities and ensure_not_downgrade
NoDowngrade(v) ==
    IF unit # Unused THEN v >= unit.version ELSE Pending => v >= journal.target.version

\* complete_upgrade
Completed(j) == journal' = [j EXCEPT !.phase = "complete"]

\* A journal is saved and the replacement begins.
Prepared(j) ==
    /\ journal' = j
    /\ op' = NewCommand("upgrade", "begin", j.target, j.enabled)

\* upgrade_registered_recorder_checked without an unfinished journal; the
\* registration is taken over with its options and its enablement.
Upgrade(v) ==
    LET j == [target |-> [unit EXCEPT !.version = v], prev |-> unit,
              enabled |-> enabled, phase |-> "pending"]
    IN
    /\ op = Unused /\ ~Pending
    /\ MayRead(v) /\ Registered /\ NoDowngrade(v)
    /\ fresh' = "no"
    /\ blocker' = IF blocker = "none" THEN "none" ELSE "old"
    /\ intent' = [opts |-> unit.opts, enabled |-> enabled, least |-> v]
    /\ IF j.target = unit /\ (enabled = "no" \/ Ready(unit, FALSE))
       THEN Completed(j) /\ UNCHANGED op
       ELSE Prepared(j)
    /\ UNCHANGED <<Frame, settled>>

\* Slip: the enablement is read from what the interrupted upgrade left.
ResumedAsFound(v) ==
    [journal EXCEPT !.prev = IF unit = Unused THEN @ ELSE unit,
                    !.target.version = v,
                    !.enabled = IF unit = Unused THEN @ ELSE enabled]

\* The journal of a candidate that goes on with an unfinished upgrade.
Resumed(v) ==
    [journal EXCEPT !.prev = IF unit = Unused THEN @ ELSE unit, !.target.version = v]

\* The same with an unfinished journal.
Resume(v) ==
    /\ op = Unused /\ Pending
    /\ MayRead(v) /\ Known /\ NoDowngrade(v) /\ Resumable
    /\ intent' = [intent EXCEPT !.least = IF @ < v THEN v ELSE @]
    /\ IF /\ journal.target.version = v /\ unit = journal.target
          /\ enabled = journal.enabled
          /\ enabled = "no" \/ Ready(unit, TRUE)
       THEN Completed(journal) /\ UNCHANGED op
       ELSE Prepared(Resumed(v))
    /\ UNCHANGED <<Frame, fresh, blocker, settled>>

\* start_registered, stop_registered and restart_registered
Lifecycle(v, kind) ==
    /\ op = Unused /\ ~Pending
    /\ MayRead(v) /\ Registered /\ Trusted
    /\ kind = "restart" => enabled = "yes"
    /\ op' = NewCommand(kind, IF kind = "start" THEN "starting" ELSE "unmarked", unit, "yes")
    /\ UNCHANGED <<Frame, fresh, blocker, journal, intent, settled>>

-----------------------------------------------------------------------------
(* replace_service_checked, step by step. *)

Replacing == op # Unused /\ op.kind \in {"install", "uninstall", "upgrade"}

\* The steps taken with the exclusive side of the cutover gate.
Gated ==
    /\ Replacing
    /\ op.step \in {"fenced", "unmarked", "disabled", "stopped", "written", "staged",
                    "trusted", "failing", "cleaned"}

At(step) == op # Unused /\ op.step = step

To(step) == op' = [op EXCEPT !.step = step]

Ended == op' = Unused

Rest == <<history, cutover, intent, settled>>

\* The gate, the preflight of an upgrade, and the blocker.
Fence ==
    /\ At("begin")
    /\ cutover = "no"
    /\ op.kind = "upgrade" => Known /\ Resumable
    /\ blocker' = "new"
    /\ To("fenced")
    /\ UNCHANGED <<unit, loaded, enabled, proc, active, fresh, marker, journal, Rest>>

\* remove_current_service_definition_marker
Unmark ==
    /\ At("fenced")
    /\ marker' = Unused
    /\ To("unmarked")
    /\ UNCHANGED <<unit, loaded, enabled, proc, active, fresh, blocker, journal, Rest>>

\* disable_registration
Disable ==
    /\ At("unmarked")
    /\ enabled' = "no"
    /\ To("disabled")
    /\ UNCHANGED <<unit, loaded, proc, active, fresh, marker, blocker, journal, Rest>>

\* Slip: the status of the stopped recorder is left behind.
StopKeepsStatus ==
    /\ At("disabled")
    /\ proc' = Unused
    /\ To(CASE op.kind = "stop"    -> "started"
            [] op.kind = "restart" -> "starting"
            [] OTHER               -> "stopped")
    /\ UNCHANGED <<unit, loaded, enabled, active, fresh, marker, blocker, journal, Rest>>

\* The stop, the proofs that nothing runs, and the removal of the status.
Stop ==
    /\ At("disabled")
    /\ proc' = Unused /\ active' = "no" /\ fresh' = "no"
    /\ To(CASE op.kind = "stop"    -> "started"
            [] op.kind = "restart" -> "starting"
            [] OTHER               -> "stopped")
    /\ UNCHANGED <<unit, loaded, enabled, marker, blocker, journal, Rest>>

\* install_systemd_registration, or the removal
WriteUnit ==
    /\ At("stopped")
    /\ unit' = op.target
    /\ To("written")
    /\ UNCHANGED <<loaded, enabled, proc, active, fresh, marker, blocker, journal, Rest>>

\* daemon-reload, and the check that the new definition is not started yet
Reload ==
    /\ At("written")
    /\ loaded' = unit
    /\ proc = Unused
    /\ To("staged")
    /\ UNCHANGED <<unit, enabled, proc, active, fresh, marker, blocker, journal, Rest>>

\* persist_current_service_definition_marker
Trust ==
    /\ At("staged")
    /\ IF op.kind = "uninstall"
       THEN UNCHANGED marker
       ELSE Registered /\ unit = op.target /\ marker' = unit
    /\ To("trusted")
    /\ UNCHANGED <<unit, loaded, enabled, proc, active, fresh, blocker, journal, Rest>>

\* clear_recorder_cutover_blocker; the gate is left.
Unfence ==
    /\ At("trusted")
    /\ blocker' = "none"
    /\ To(IF op.enable = "yes" THEN "starting" ELSE "started")
    /\ UNCHANGED <<unit, loaded, enabled, proc, active, fresh, marker, journal, Rest>>

Enable ==
    /\ At("starting")
    /\ enabled' = "yes"
    /\ To("enabled")
    /\ UNCHANGED <<unit, loaded, proc, active, fresh, marker, blocker, journal, Rest>>

\* A replacement restarts the service; service start leaves a running one alone.
StartUnit ==
    /\ At("enabled")
    /\ IF op.kind = "start" /\ proc # Unused
       THEN UNCHANGED <<proc, active, fresh>>
       ELSE proc' = loaded /\ active' = "no" /\ fresh' = "no"
    /\ To("started")
    /\ UNCHANGED <<unit, loaded, enabled, marker, blocker, journal, Rest>>

\* The journal is cleared, or completed once the recorder is ready.
Finish ==
    /\ At("started")
    /\ CASE op.kind = "upgrade" -> /\ op.enable = "yes" => Ready(op.target, TRUE)
                                   /\ Completed(journal)
                                   /\ UNCHANGED intent
         [] op.kind \in {"install", "uninstall"} -> journal' = Unused /\ intent' = Unused
         [] OTHER -> UNCHANGED <<journal, intent>>
    /\ Ended
    /\ UNCHANGED <<unit, loaded, enabled, proc, active, fresh, marker, blocker, history,
                   cutover, settled>>

\* A step fails after the blocker and the marker were written.
Fail ==
    /\ Gated
    /\ op.step \notin {"fenced", "failing", "cleaned"}
    /\ To("failing")
    /\ UNCHANGED <<unit, loaded, enabled, proc, active, fresh, marker, blocker, journal, Rest>>

\* cleanup_systemd_registration_at, with every effect verified
Cleanup ==
    /\ At("failing")
    /\ unit' = Unused /\ loaded' = Unused /\ enabled' = "no"
    /\ proc' = Unused /\ active' = "no" /\ fresh' = "no"
    /\ To("cleaned")
    /\ UNCHANGED <<marker, blocker, journal, Rest>>

ClearFence ==
    /\ At("cleaned")
    /\ marker' = Unused /\ blocker' = "none"
    /\ Ended
    /\ UNCHANGED <<unit, loaded, enabled, proc, active, fresh, journal, Rest>>

\* The effects of a cleanup that is not proven complete: any of them.
Partly(keepUnit, keepProc, keepEnabled, keepLoaded) ==
    /\ unit' = IF keepUnit THEN unit ELSE Unused
    /\ loaded' = IF keepLoaded THEN loaded ELSE unit'
    /\ enabled' = IF keepEnabled THEN enabled ELSE "no"
    /\ IF keepProc
       THEN UNCHANGED <<proc, active, fresh>>
       ELSE proc' = Unused /\ active' = "no" /\ fresh' = "no"

\* Slip: the blocker is cleared after any cleanup.
CleanupClears(keepUnit, keepProc, keepEnabled, keepLoaded) ==
    /\ At("failing")
    /\ Partly(keepUnit, keepProc, keepEnabled, keepLoaded)
    /\ Ended
    /\ marker' = Unused /\ blocker' = "none"
    /\ UNCHANGED <<journal, Rest>>

\* finish_failed_service_replacement after such a cleanup: the blocker stays.
CleanupUnproven(keepUnit, keepProc, keepEnabled, keepLoaded) ==
    /\ At("failing")
    /\ Partly(keepUnit, keepProc, keepEnabled, keepLoaded)
    /\ Ended
    /\ UNCHANGED <<marker, blocker, journal, Rest>>

\* The process dies, or a step fails that is followed by no cleanup.
Interrupt ==
    /\ op # Unused
    /\ Ended
    /\ UNCHANGED <<Frame, fresh, blocker, journal, intent, settled>>

-----------------------------------------------------------------------------
(* The manager, the recorder, and the initialization of the history. *)

Cmd == <<marker, blocker, journal, op, intent, settled>>

\* The manager starts an enabled definition at login or after a failure.
Autostart ==
    /\ enabled = "yes" /\ loaded # Unused /\ proc = Unused
    /\ proc' = loaded
    /\ active' = IF Legacy(loaded) THEN "yes" ELSE "no"
    /\ UNCHANGED <<unit, loaded, enabled, fresh, history, cutover, Cmd>>

\* The manager restarts a recorder that failed, an enabled one or not.
Restart ==
    /\ proc # Unused /\ loaded # Unused
    /\ proc' = loaded
    /\ active' = IF Legacy(loaded) THEN "yes" ELSE "no"
    /\ fresh' = "no"
    /\ UNCHANGED <<unit, loaded, enabled, history, cutover, Cmd>>

\* acquire_service_recorder_activation_gate, up to the first heartbeat
Activate ==
    /\ proc # Unused /\ active = "no"
    /\ ~Gated /\ blocker = "none" /\ Trusted
    /\ history = "v2"
    /\ active' = "yes" /\ fresh' = "yes"
    /\ UNCHANGED <<unit, loaded, enabled, proc, history, cutover, Cmd>>

\* The recorder is refused, fails or is stopped.
Exit ==
    /\ proc # Unused
    /\ proc' = Unused /\ active' = "no" /\ fresh' = "no"
    /\ UNCHANGED <<unit, loaded, enabled, history, cutover, Cmd>>

\* The user logs in again: the manager reads the definition from the disk.
Login ==
    /\ proc' = Unused /\ active' = "no" /\ fresh' = "no"
    /\ loaded' = unit
    /\ op' = Unused
    /\ UNCHANGED <<unit, enabled, marker, blocker, journal, intent, settled, history, cutover>>

\* ensure_v2_active of any process, with the shared side of the gate
BeginCutover ==
    /\ cutover = "no" /\ history # "v2"
    /\ ~Gated /\ blocker = "none" /\ Trusted
    /\ cutover' = "yes" /\ history' = "migrating"
    /\ UNCHANGED <<unit, loaded, enabled, proc, active, fresh, Cmd>>

\* It is done, or its process dies.
EndCutover(h) ==
    /\ cutover = "yes"
    /\ cutover' = "no" /\ history' = h
    /\ UNCHANGED <<unit, loaded, enabled, proc, active, fresh, Cmd>>

\* From here on the user only retries the upgrade, and nothing fails.
Settle ==
    /\ settled = "no"
    /\ settled' = "yes"
    /\ UNCHANGED <<Frame, fresh, blocker, journal, op, intent>>

-----------------------------------------------------------------------------

User ==
    \/ \E v \in Versions :
          \/ \E o \in Options : Install(v, o)
          \/ Uninstall(v)
          \/ \E kind \in {"start", "stop", "restart"} : Lifecycle(v, kind)

Retry == \E v \in Versions : Upgrade(v) \/ Resume(v)

Progress ==
    \/ Fence \/ Unmark \/ Disable \/ Stop \/ WriteUnit \/ Reload \/ Trust \/ Unfence
    \/ Enable \/ StartUnit \/ Finish \/ Cleanup \/ ClearFence

Startup == Autostart \/ Activate \/ BeginCutover \/ EndCutover("v2")

Faults ==
    \/ Fail \/ Interrupt \/ Exit \/ Restart \/ Login \/ EndCutover("migrating")
    \/ \E u, p, e, l \in BOOLEAN : CleanupUnproven(u, p, e, l)

Next ==
    \/ settled = "no" /\ (User \/ Faults)
    \/ Retry \/ Progress \/ Startup \/ Settle
    \/ op = Unused /\ Login

Spec == Init /\ [][Next]_vars

\* From some time on nothing fails and the upgrade is retried with the newest
\* candidate; commands, the manager and a started recorder go on, and the user
\* logs in some time.
Fairness ==
    /\ WF_vars(Resume(MaxVersion))
    /\ WF_vars(Progress)
    /\ WF_vars(Startup)
    /\ WF_vars(op = Unused /\ Login)

FairSpec == Spec /\ Fairness

-----------------------------------------------------------------------------

\* Once the initialization of the history has begun, no recorder of a release
\* that would write to the old one runs or can be started, wherever commands
\* died and whatever a cleanup left behind.
LegacyFenced ==
    history # "v1" => ~Legacy(unit) /\ ~Legacy(loaded) /\ ~Legacy(proc)

\* An upgrade registers nothing older than what an upgrade before it had
\* prepared, unless the user installed or removed the service in between.
ForwardOnly ==
    [][op # Unused /\ op.kind = "upgrade" /\ unit' # unit /\ unit' # Unused
          => unit'.version >= intent.least]_vars

\* A completed upgrade has the options and the enablement of the registration
\* it started from, through all its retries.
IntentKept ==
    [][Pending /\ journal' # Unused /\ journal'.phase = "complete"
          => unit.opts = intent.opts /\ enabled = intent.enabled]_vars

\* An unfinished upgrade is finished by retrying it, whatever commands died
\* before and whatever a failed replacement removed, unless another definition
\* was installed over it.
UpgradeFinishes ==
    /\ settled = "yes" /\ Pending
    /\ unit \in {Unused, journal.prev, journal.target}
    /\ op # Unused => op.kind # "install"
    ~> ~Pending

\* What the commands promise to the rest of the application.  The version that
\* a command's candidate has only matters for what it registers and plans.
Upgrading ==
    INSTANCE RecorderUpgrade WITH
        None  <- Unused,
        reg   <- IF unit = Unused THEN Unused ELSE unit.version,
        plan  <- IF Pending THEN journal.target.version ELSE Unused,
        floor <- IF journal = Unused THEN 0 ELSE journal.target.version,
        cmd   <- IF ~Replacing THEN Unused
                 ELSE [kind |-> op.kind,
                       v |-> IF op.target = Unused THEN MaxVersion ELSE op.target.version]

\* Whatever happens to a command, what is registered, planned and fenced changes
\* as RecorderUpgrade allows.
ImplementsUpgrade == Upgrading!RecorderSpec

\* A completed upgrade leaves a trusted definition and no blocker, so that the
\* recorder can be started.
CompletedIsTrusted ==
    [][Pending /\ journal' # Unused /\ journal'.phase = "complete"
          => Trusted /\ blocker = "none"]_vars

\* The message of the blocker: uninstalling the service is a way out of it.
BlockerCanBeRemoved ==
    op = Unused /\ blocker # "none" => \E v \in Versions : MayUninstall(v)

=============================================================================
