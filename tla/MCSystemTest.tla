---------------------------- MODULE MCSystemTest ----------------------------
EXTENDS SystemTest

CONSTANTS a, b

\* Programs' initial data: neighbouring pages differ, where there are two values.
MCImage ==
  [page \in Pages |-> IF page % 2 = 1 /\ b \in Values THEN b ELSE a]
=============================================================================
