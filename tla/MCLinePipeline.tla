--------------------------- MODULE MCLinePipeline ---------------------------
EXTENDS LinePipeline
CONSTANTS a, b
MCSelOf == [m \in {a, b} |-> m]
=============================================================================
