-------------------------- MODULE MCSharedSegments --------------------------
EXTENDS SharedSegments

CONSTANTS a, b, s

\* Programs' initial data; stores of b are told apart from it.
MCImage == [page \in Pages |-> a]
=============================================================================
