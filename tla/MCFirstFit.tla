----------------------------- MODULE MCFirstFit -----------------------------
EXTENDS FirstFit

\* Sizes of which some divide the space exactly and some do not.
MCBytesOf ==
  [pmtTable |-> 3, diskTable |-> 2, pageDirectory |-> 2, pageTable |-> 4,
   SharedSegment |-> 1]

MCKinds == DOMAIN MCBytesOf
=============================================================================
