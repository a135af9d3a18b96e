---------------------------- MODULE ProcessTest ----------------------------
(***************************************************************************)
(* The program every thread of the test runs (ProcessTest::run) and the    *)
(* copy of memory it checks against.  A batch of accesses is drawn whole,  *)
(* and the copy written while it is drawn; then SystemTest::doInstruction  *)
(* executes it, one access at a time, and asserts on every access that     *)
(* reads.  The virtual memory below it is taken to be a perfect one: what  *)
(* is asked here is whether the test is right about such a memory.  The    *)
(* other processes have memories and copies of their own.                  *)
(***************************************************************************)
EXTENDS Integers, Sequences

CONSTANTS
  Code,       \* the addresses of the code segment
  Data,       \* those of the data segments
  Values,     \* what a byte may hold
  Segments,   \* how many segments there are: checkMemory.size()
  Rounds      \* bound: 1 << POWER_OF_NUMBER_OF_INSTRUCTIONS in the program

ASSUME ProcessTestAssumption ==
  /\ Code \intersect Data = {}
  /\ Segments \in Nat /\ Segments > 2
  /\ Rounds \in Nat \ {0}

Addresses == Code \union Data

VARIABLES
  pc,        \* "draw", "execute", "finished", or "abort": the assertion failed
  round, j,  \* the counters of run's two loops; j is also the batch's length
  batch,     \* the accesses drawn and not yet executed
  copy,      \* checkMemory: the copy of memory ...
  dirty,     \*   ... and the flags that say where it counts
  memory     \* the virtual memory

vars == <<pc, round, j, batch, copy, dirty, memory>>

Access ==
  [address: Addresses, type: {"EXECUTE", "READ", "WRITE"}, value: Values]

TypeOK ==
  /\ pc \in {"draw", "execute", "finished", "abort"}
  /\ round \in 0 .. Rounds
  /\ j \in 2 .. Segments - 1
  /\ batch \in Seq(Access)
  /\ Len(batch) <= j
  /\ copy \in [Addresses -> Values]
  /\ dirty \in [Addresses -> BOOLEAN]
  /\ memory \in [Addresses -> Values]

\* addCodeSegment loads what the copy holds and marks it dirty; addDataSegment
\* allocates a copy, and a segment, of which neither is initialised.
Init ==
  /\ pc = "draw"
  /\ round = 0
  /\ j = 2
  /\ batch = <<>>
  /\ copy \in [Addresses -> Values]
  /\ dirty = [a \in Addresses |-> a \in Code]
  /\ memory \in [Addresses -> Values]
  /\ \A a \in Code : memory[a] = copy[a]

-----------------------------------------------------------------------------
(* Drawing a batch *)

readFromAddress(a) == copy[a]

\* Mutant of writeToAddress: the copy is not written.
writeToAddressNot(a, value) == UNCHANGED copy

writeToAddress(a, value) == copy' = [copy EXCEPT ![a] = value]

Drawn(a, type, value) ==
  batch' = Append(batch, [address |-> a, type |-> type, value |-> value])

\* numbers[0]: an instruction is fetched.
DrawCode ==
  /\ pc = "draw"
  /\ batch = <<>>
  /\ \E a \in Code : Drawn(a, "EXECUTE", readFromAddress(a))
  /\ UNCHANGED <<pc, round, j, copy, dirty, memory>>

\* Mutant of Open: one access too many is drawn.
OpenLonger == pc = "draw" /\ batch # <<>> /\ Len(batch) <= j

Open == pc = "draw" /\ batch # <<>> /\ Len(batch) < j

Writes(k) == (k + j) % 3 # 0

\* numbers[k], k = Len(batch): the copy is written when the access is drawn.
DrawWrite ==
  /\ Open
  /\ Writes(Len(batch))
  /\ \E a \in Data, value \in Values :
       writeToAddress(a, value) /\ Drawn(a, "WRITE", value)
  /\ UNCHANGED <<pc, round, j, dirty, memory>>

DrawRead ==
  /\ Open
  /\ ~Writes(Len(batch))
  /\ \E a \in Data : Drawn(a, "READ", readFromAddress(a))
  /\ UNCHANGED <<pc, round, j, copy, dirty, memory>>

CallDoInstruction ==
  /\ pc = "draw"
  /\ Len(batch) = j
  /\ pc' = "execute"
  /\ UNCHANGED <<round, j, batch, copy, dirty, memory>>

-----------------------------------------------------------------------------
(* Executing it *)

Executing == pc = "execute" /\ batch # <<>>

\* Mutant of Passes: what was fetched is checked, initialised or not.
PassesIfFetched(access) == memory[access.address] = access.value

\* The assertion of checkValue.  The value that was fetched is not looked at.
Passes(access) == dirty[access.address] => copy[access.address] = access.value

Fetch ==
  /\ Executing
  /\ Head(batch).type \in {"EXECUTE", "READ"}
  /\ \/ /\ Passes(Head(batch))
        /\ batch' = Tail(batch)
        /\ UNCHANGED pc
     \/ /\ ~Passes(Head(batch))
        /\ pc' = "abort"
        /\ UNCHANGED batch
  /\ UNCHANGED <<round, j, copy, dirty, memory>>

\* Mutant of Stored: the byte the copy holds by now is stored.
StoredFromCopy(access) == copy[access.address]

Stored(access) == access.value

Store ==
  /\ Executing
  /\ Head(batch).type = "WRITE"
  /\ memory' = [memory EXCEPT ![Head(batch).address] = Stored(Head(batch))]
  /\ dirty' = [dirty EXCEPT ![Head(batch).address] = TRUE]
  /\ batch' = Tail(batch)
  /\ UNCHANGED <<pc, round, j, copy>>

\* doInstruction returns OK: the next batch, of the next round after the
\* longest one.
NextBatch ==
  /\ pc = "execute"
  /\ batch = <<>>
  /\ IF j + 1 < Segments THEN j' = j + 1 /\ UNCHANGED round
                         ELSE j' = 2 /\ round' = round + 1
  /\ pc' = IF round' = Rounds THEN "finished" ELSE "draw"
  /\ UNCHANGED <<batch, copy, dirty, memory>>

Over == pc \in {"finished", "abort"} /\ UNCHANGED vars

Next ==
  \/ DrawCode \/ DrawWrite \/ DrawRead \/ CallDoInstruction
  \/ Fetch \/ Store \/ NextBatch
  \/ Over

Spec == Init /\ [][Next]_vars

-----------------------------------------------------------------------------
\* Between two batches the copy is right about every byte it counts for,
\* although it was written long before the memory was
\* (ProcessTest.cpp:141-166).
CopyIsMemory ==
  batch = <<>> /\ pc # "abort" =>
    \A a \in Addresses : dirty[a] => copy[a] = memory[a]

\* Whenever the test is about to check a byte, memory holds what the batch
\* says it should: an assertion on the byte that was fetched would never fail
\* (SystemTest.cpp:35-36 drops it).
ExpectedIsMemory ==
  Executing /\ Head(batch).type # "WRITE" /\ dirty[Head(batch).address] =>
    memory[Head(batch).address] = Head(batch).value

\* The assertion fails for one reason only: the same batch writes the byte
\* again after it reads it, and the copy is already past that write
\* (ProcessTest.cpp:152, 155 and 204).
AbortsOnlyIfRewritten ==
  pc = "abort" =>
    \E i \in 2 .. Len(batch) :
      batch[i].type = "WRITE" /\ batch[i].address = Head(batch).address

\* The assertion in checkValue holds, the memory being perfect
\* (ProcessTest.cpp:203-204).
AssertionHolds == pc # "abort"
=============================================================================
