---------------------------- MODULE MCDeltaSync ----------------------------
(* Small instances of DeltaSync for TLC. *)
EXTENDS DeltaSync, TLC

MCKeys == {1, 2}
MCOneKey == {1}
MCVersions == 1..2
MCOneVersion == {1}
MCExpiry == [k \in Keys |-> 9]
MCRank == [b \in Bindings |-> 1]
MCFullScans == {Keys}
MCPartialScans == {Keys, {}}
MCHistGens == 1..4
MCFewHistGens == 1..3
MCJournalGens == 1..4
MCFewJournalGens == 1..3
MCSymmetry == Permutations(Bindings)
=============================================================================
