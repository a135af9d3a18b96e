--------------------------- MODULE MCProcessTest ---------------------------
EXTENDS ProcessTest

CONSTANTS c1, d1, d2

MCCode == {c1}
MCData == {d1, d2}
=============================================================================
