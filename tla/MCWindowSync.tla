---------------------------- MODULE MCWindowSync ----------------------------
EXTENDS WindowSync, TLC

CONSTANTS r1, r2, v1, v2

\* Runs are interchangeable, and so are contents.
MCSymmetry == Permutations(Runs) \cup Permutations(Values)

\* The recent days alone, a window with an end only, and none.
MCManualWindows == {[start |-> 2, end |-> None], [start |-> None, end |-> 2]}
=============================================================================
