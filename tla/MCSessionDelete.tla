--------------------------- MODULE MCSessionDelete ---------------------------
EXTENDS SessionDelete, TLC

CONSTANTS a, b, c, m1, m2

\* One session that spawns another, and one on its own.
MCParent == [t \in Threads |-> IF t = c THEN c ELSE a]

\* The monitors are alike.
MCSymmetry == Permutations(Monitors)

=============================================================================
