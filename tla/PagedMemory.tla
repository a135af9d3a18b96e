----------------------------- MODULE PagedMemory ----------------------------
(***************************************************************************)
(* What virtual memory promises a program: a store in which every address  *)
(* that was given out holds what was last written to it.  Frames, clusters *)
(* and page faults do not appear.                                          *)
(***************************************************************************)
CONSTANTS Addresses, Values,
          Junk,     \* the contents of an address nobody has written
          nullptr   \* not given out; also: no fetch is being answered

VARIABLES store, reply

Init ==
  /\ store = [addr \in Addresses |-> nullptr]
  /\ reply = nullptr

Allocate(addr) ==
  /\ store[addr] = nullptr
  /\ \E contents \in Values \union {Junk} :
       store' = [store EXCEPT ![addr] = contents]
  /\ UNCHANGED reply

Write(addr) ==
  /\ store[addr] # nullptr
  /\ \E contents \in Values : store' = [store EXCEPT ![addr] = contents]
  /\ UNCHANGED reply

\* A fetch of an address nobody has written may answer anything.
Read(addr) ==
  /\ reply = nullptr
  /\ store[addr] # nullptr
  /\ \E contents \in Values \union {Junk} :
       /\ store[addr] # Junk => contents = store[addr]
       /\ reply' = <<addr, contents>>
  /\ UNCHANGED store

Done == reply # nullptr /\ reply' = nullptr /\ UNCHANGED store

Next ==
  \/ \E addr \in Addresses : Allocate(addr) \/ Write(addr) \/ Read(addr)
  \/ Done

Spec == Init /\ [][Next]_<<store, reply>>
=============================================================================
