---------------------------- MODULE UsageReplica ----------------------------
(***************************************************************************)
(* What the synchronization of a remote source promises its readers: every *)
(* record they see is one the remote really had, and as long as they read  *)
(* the same generation a record only ever gets newer.  A generation        *)
(* replaces another as a whole.                                            *)
(***************************************************************************)
EXTENDS Naturals

CONSTANTS
    Keys,       \* the records
    None        \* no generation is visible

VARIABLES
    written,    \* how often the remote has written each record
    seen,       \* the version of each record that readers see, 0 for none
    epoch       \* the generation readers see

replicaVars == <<written, seen, epoch>>

Init ==
    /\ written = [k \in Keys |-> 0]
    /\ seen = [k \in Keys |-> 0]
    /\ epoch = None

Write(k) ==
    /\ written' = [written EXCEPT ![k] = @ + 1]
    /\ UNCHANGED <<seen, epoch>>

\* Readers see newer records of the same generation.
Advance ==
    /\ epoch # None /\ epoch' = epoch
    /\ \A k \in Keys : seen[k] <= seen'[k] /\ seen'[k] <= written[k]
    /\ UNCHANGED written

\* Readers see another generation, with records the remote has had.
Replace ==
    /\ epoch' # epoch /\ epoch' # None
    /\ \A k \in Keys : 0 <= seen'[k] /\ seen'[k] <= written[k]
    /\ UNCHANGED written

\* The source is purged.
Withdraw ==
    /\ epoch # None /\ epoch' = None
    /\ seen' = [k \in Keys |-> 0]
    /\ UNCHANGED written

Next == (\E k \in Keys : Write(k)) \/ Advance \/ Replace \/ Withdraw

Spec == Init /\ [][Next]_replicaVars
=============================================================================
