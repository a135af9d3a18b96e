------------------------------ MODULE FirstFit ------------------------------
(***************************************************************************)
(* The memory for the kernel's own tables (pmtSpace) and its allocator     *)
(* firstFit.  Everything the kernel keeps about pages is carved out of     *)
(* this space: the frame table and the disk table when the kernel is       *)
(* constructed, a page directory for every process, a page table for every *)
(* directory entry in use, a record for every shared segment.  Nothing is  *)
(* ever given back.                                                        *)
(***************************************************************************)
EXTENDS Integers, Sequences, FiniteSets, SequencesExt

CONSTANTS
  Spaces,       \* bound: the sizes of pmtSpace the kernel is given
  Kinds,        \* what the space is asked for
  BytesOf       \* kind -> the bytes it takes

ASSUME SpaceAssumption ==
  /\ Spaces \subseteq Nat \ {0}
  /\ Kinds = {"pmtTable", "diskTable", "pageDirectory", "pageTable",
              "SharedSegment"}
  /\ BytesOf \in [Kinds -> Nat \ {0}]

VARIABLES
  pmtBytes,       \* pmtSpaceSize * PAGE_SIZE
  freePMTChunks,  \* the list of free chunks
  given,          \* what has been handed out, with its place
  state,          \* "boot", "run", an exit(1) taken, or a write through null
  failed          \* the request that was not met, or "none"

vars == <<pmtBytes, freePMTChunks, given, state, failed>>

Chunk  == [startingAddress: Nat, size: Nat \ {0}]
Region == [kind: Kinds, startingAddress: Nat, size: Nat \ {0}]

TypeOK ==
  /\ pmtBytes \in Spaces
  /\ freePMTChunks \in Seq(Chunk)
  /\ given \subseteq Region
  /\ state \in {"boot", "run", "exit", "nullWrite"}
  /\ failed \in Kinds \union {"none"}

Init ==
  /\ pmtBytes \in Spaces
  /\ freePMTChunks = <<[startingAddress |-> 0, size |-> pmtBytes]>>
  /\ given = {}
  /\ state = "boot"
  /\ failed = "none"

-----------------------------------------------------------------------------
(* firstFit *)

Fits(bytes) == {i \in DOMAIN freePMTChunks : freePMTChunks[i].size >= bytes}

\* Mutant of Remainder: the rest starts where the chunk did.
RemainderOverlaps(chunk, bytes) ==
  [startingAddress |-> chunk.startingAddress, size |-> chunk.size - bytes]

Remainder(chunk, bytes) ==
  [startingAddress |-> chunk.startingAddress + bytes,
   size |-> chunk.size - bytes]

\* Mutant of Carve: the chunk stays in the list.
CarveKeepsChunk(i, bytes) ==
  freePMTChunks' = IF freePMTChunks[i].size = bytes THEN freePMTChunks
                   ELSE Append(freePMTChunks, Remainder(freePMTChunks[i], bytes))

\* Mutant of Carve: a chunk that fits exactly leaves an empty one behind.
CarveEmptyRest(i, bytes) ==
  freePMTChunks' = Append(RemoveAt(freePMTChunks, i),
                          Remainder(freePMTChunks[i], bytes))

\* A chunk that is too long is cut, and the rest goes to the end of the list.
Carve(i, bytes) ==
  LET chunk == freePMTChunks[i]
      rest  == RemoveAt(freePMTChunks, i)
  IN  freePMTChunks' = IF chunk.size = bytes THEN rest
                       ELSE Append(rest, Remainder(chunk, bytes))

firstFit(kind) ==
  \E i \in Fits(BytesOf[kind]) :
    /\ \A j \in Fits(BytesOf[kind]) : i <= j
    /\ Carve(i, BytesOf[kind])
    /\ given' = given \union
         {[kind |-> kind, size |-> BytesOf[kind],
           startingAddress |-> freePMTChunks[i].startingAddress]}
    /\ UNCHANGED <<pmtBytes, failed>>

\* Mutant of firstFitNull: chunks that just fit are passed over.
firstFitNullEarly(kind) ==
  /\ freePMTChunks # <<>>
  /\ \A i \in DOMAIN freePMTChunks : freePMTChunks[i].size <= BytesOf[kind]

firstFitNull(kind) == freePMTChunks # <<>> /\ Fits(BytesOf[kind]) = {}

\* An empty list ends the program in firstFit itself.
firstFitExit == freePMTChunks = <<>>

-----------------------------------------------------------------------------
(* The callers *)

Has(kind) == \E r \in given : r.kind = kind

Stop(how, kind) ==
  /\ state' = how
  /\ failed' = kind
  /\ UNCHANGED <<pmtBytes, freePMTChunks, given>>

\* KernelSystem's constructor: the frame table, then the disk table.
Construct ==
  /\ state = "boot"
  /\ LET kind == IF Has("pmtTable") THEN "diskTable" ELSE "pmtTable"
     IN  \/ /\ firstFit(kind)
            /\ state' = IF kind = "diskTable" THEN "run" ELSE "boot"
         \/ (firstFitNull(kind) \/ firstFitExit) /\ Stop("exit", kind)

\* KernelProcess::setSystem, which looks at the result.
SetSystem ==
  /\ state = "run"
  /\ \/ firstFit("pageDirectory") /\ UNCHANGED state
     \/ /\ firstFitNull("pageDirectory") \/ firstFitExit
        /\ Stop("exit", "pageDirectory")

\* createSegment, loadSegment, clone and createSharedSegment open page tables,
\* and createSharedSegment makes a record: none of them looks at the result.
Unchecked(kind) ==
  /\ state = "run"
  /\ Has("pageDirectory")
  /\ \/ firstFit(kind) /\ UNCHANGED state
     \/ firstFitNull(kind) /\ Stop("nullWrite", kind)
     \/ firstFitExit /\ Stop("exit", kind)

OpenTable  == Unchecked("pageTable")
MakeRecord == Unchecked("SharedSegment")

Over == state \in {"exit", "nullWrite"} /\ UNCHANGED vars

Next == Construct \/ SetSystem \/ OpenTable \/ MakeRecord \/ Over

Spec == Init /\ [][Next]_vars

-----------------------------------------------------------------------------
Bytes(r) == r.startingAddress .. r.startingAddress + r.size - 1

Free == {freePMTChunks[i] : i \in DOMAIN freePMTChunks}

\* No byte of pmtSpace belongs to two tables, nor to a table and a free chunk,
\* and every table lies inside the space: page tables of different processes
\* cannot write to each other (KernelSystem.cpp:136-171).
NoOverlap ==
  /\ \A r, other \in given :
       r # other => Bytes(r) \intersect Bytes(other) = {}
  /\ \A r \in given, chunk \in Free : Bytes(r) \intersect Bytes(chunk) = {}
  /\ \A r \in given \union Free : Bytes(r) \subseteq 0 .. pmtBytes - 1

\* Nothing is given back, so the free space is one chunk behind all tables:
\* the allocator never fragments it and loses no byte.
OneChunk ==
  /\ Len(freePMTChunks) <= 1
  /\ \A b \in 0 .. pmtBytes - 1 : \E r \in given \union Free : b \in Bytes(r)

\* A request fails, and a null table is written to, only when all of the free
\* bytes together would not do (KernelProcess.cpp:111, 257, 553, 726, 793, 888
\* and 951 use the result unchecked).
NullOnlyWhenSpent ==
  failed # "none" =>
    Cardinality(UNION {Bytes(r) : r \in given}) + BytesOf[failed] > pmtBytes
=============================================================================
