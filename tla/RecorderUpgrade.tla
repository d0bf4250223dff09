--------------------------- MODULE RecorderUpgrade ---------------------------
(***************************************************************************)
(* What the commands on the recorder's registration promise to the rest of *)
(* the application: which version is registered, which version an          *)
(* unfinished upgrade is going to, and which candidates may go on.         *)
(* RecorderService implements it; AppUpdate is built on it.                *)
(***************************************************************************)
EXTENDS Integers

CONSTANTS
    MaxVersion,
    None

Versions == 1..MaxVersion

VARIABLES
    reg,        \* the version registered, 0 for a release of before the journal
    plan,       \* the version of an unfinished upgrade
    floor,      \* the oldest version that may read the journal
    cmd         \* the command that holds the mutation lock

recorder == <<reg, plan, floor, cmd>>

RecorderCommand == [kind : {"install", "uninstall", "upgrade"}, v : Versions]

RecorderType ==
    /\ reg \in 0..MaxVersion \union {None}
    /\ plan \in Versions \union {None}
    /\ floor \in 0..MaxVersion
    /\ cmd \in RecorderCommand \union {None}

RecorderInit ==
    /\ reg \in {None, 0}
    /\ plan = None
    /\ floor = 0
    /\ cmd = None

\* An older candidate than the registered, the planned or a former one is
\* refused.
MayUpgrade(v) ==
    /\ v >= floor
    /\ IF reg # None THEN v >= reg ELSE plan # None => v >= plan

BeginInstall(v) ==
    /\ cmd = None
    /\ cmd' = [kind |-> "install", v |-> v]
    /\ UNCHANGED <<reg, plan, floor>>

BeginUninstall(v) ==
    /\ cmd = None
    /\ v >= floor
    /\ cmd' = [kind |-> "uninstall", v |-> v]
    /\ UNCHANGED <<reg, plan, floor>>

BeginUpgrade(v) ==
    /\ cmd = None
    /\ reg # None \/ plan # None
    /\ MayUpgrade(v)
    /\ plan' = v /\ floor' = v
    /\ cmd' = [kind |-> "upgrade", v |-> v]
    /\ UNCHANGED reg

\* Nothing is left to do.
UpgradeAtOnce(v) ==
    /\ cmd = None
    /\ reg = v
    /\ MayUpgrade(v)
    /\ plan' = None /\ floor' = v
    /\ UNCHANGED <<reg, cmd>>

Put ==
    /\ cmd # None /\ cmd.kind # "uninstall"
    /\ reg' = cmd.v
    /\ UNCHANGED <<plan, floor, cmd>>

Lose ==
    /\ cmd # None
    /\ reg' = None
    /\ UNCHANGED <<plan, floor, cmd>>

Finish ==
    /\ cmd # None
    /\ reg = IF cmd.kind = "uninstall" THEN None ELSE cmd.v
    /\ plan' = None
    /\ floor' = IF cmd.kind = "upgrade" THEN floor ELSE 0
    /\ cmd' = None
    /\ UNCHANGED reg

\* The command fails, or its process dies.
Stop ==
    /\ cmd # None
    /\ cmd' = None
    /\ reg' \in {reg, None}
    /\ UNCHANGED <<plan, floor>>

RecorderNext ==
    \/ \E v \in Versions :
          BeginInstall(v) \/ BeginUninstall(v) \/ BeginUpgrade(v) \/ UpgradeAtOnce(v)
    \/ Put \/ Lose \/ Finish \/ Stop

RecorderSpec == RecorderInit /\ [][RecorderNext]_recorder

=============================================================================
