--------------------------- MODULE FifoReplacement --------------------------
(***************************************************************************)
(* First-in first-out page replacement: a page is loaded when it is not in *)
(* memory, and while memory is full the longest resident page makes room.  *)
(***************************************************************************)
EXTENDS Naturals, Sequences

CONSTANTS Page, Capacity

VARIABLE resident  \* the pages in memory, longest resident first

Absent(page) == \A i \in DOMAIN resident : resident[i] # page

Init == resident = <<>>

Load(page) ==
  /\ Len(resident) < Capacity
  /\ Absent(page)
  /\ resident' = Append(resident, page)

Replace(page) ==
  /\ Len(resident) = Capacity
  /\ Absent(page)
  /\ resident' = Append(Tail(resident), page)

Next == \E page \in Page : Load(page) \/ Replace(page)

Spec == Init /\ [][Next]_resident
=============================================================================
