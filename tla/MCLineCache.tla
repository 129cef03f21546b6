---------------------------- MODULE MCLineCache -----------------------------
EXTENDS LineCacheHistory
CONSTANTS a, b
MCSelOf == [m \in {a, b} |-> m]
=============================================================================
