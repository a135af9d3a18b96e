------------------------------- MODULE MCMain -------------------------------
EXTENDS Main

CONSTANTS a, b

\* Programs' initial data; stores of b are told apart from it.
MCImage == [page \in Pages |-> a]
=============================================================================
