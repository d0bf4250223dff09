----------------------------- MODULE MCAutoSync -----------------------------
EXTENDS AutoSync

CONSTANTS r1, r2, rotated, off

\* Two rows of one source, the row of the same host paired with another
\* generation of its source, and the first row disabled.
MCPinOf == [r \in Rows |-> IF r = rotated THEN "second" ELSE "first"]
MCBackoff == <<1, 3>>
=============================================================================
