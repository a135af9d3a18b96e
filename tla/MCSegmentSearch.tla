--------------------------- MODULE MCSegmentSearch --------------------------
EXTENDS SegmentSearch

\* Every size up to one page more than the address space has.
MCSizes == 1 .. MAX_PMT_TABLES * MAX_PMT_ENTRIES + 1

\* The sizes that do not fit into the signed counter.
MCHugeSizes == HalfRange .. 2 * HalfRange - 1
=============================================================================
