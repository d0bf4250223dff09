-------------------------- MODULE MCExportJournal --------------------------
(* A small instance of ExportJournal for TLC. *)
EXTENDS ExportJournal, TLC

CONSTANTS v1, v2

MCKeys == {1, 2}
MCValues == {v1, v2}
MCExpiry == [k \in MCKeys |-> IF k = 1 THEN 2 ELSE 9]

MCSymmetry == Permutations(MCValues)
=============================================================================
