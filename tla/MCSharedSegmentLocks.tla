------------------------ MODULE MCSharedSegmentLocks ------------------------
EXTENDS SharedSegmentLocks

CONSTANTS s, t
=============================================================================
