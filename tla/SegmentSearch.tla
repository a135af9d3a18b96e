---------------------------- MODULE SegmentSearch ---------------------------
(***************************************************************************)
(* The loop with which createSegment and loadSegment look for room: it     *)
(* walks the page directory from the segment's first page, a whole table   *)
(* at a time where there is none yet, one entry at a time where there is,  *)
(* and counts down a signed counter.                                       *)
(*                                                                         *)
(* KernelProcess has the loop as the closed form canAllocate.  Here it is  *)
(* run step by step over an arbitrary page directory.                      *)
(***************************************************************************)
EXTENDS Integers

CONSTANTS
  MAX_PMT_TABLES,   \* entries of the page directory
  MAX_PMT_ENTRIES,  \* entries of a page table
  HalfRange,        \* a signed long goes from -HalfRange to HalfRange - 1
  Sizes             \* bound: the values of segmentSize, an unsigned long

ASSUME SearchAssumption ==
  /\ MAX_PMT_TABLES \in Nat \ {0}
  /\ MAX_PMT_ENTRIES \in Nat \ {0}
  /\ HalfRange \in Nat \ {0}
  /\ Sizes \subseteq 1 .. 2 * HalfRange - 1

Dirs  == 0 .. MAX_PMT_TABLES - 1
Pages == 0 .. MAX_PMT_TABLES * MAX_PMT_ENTRIES - 1

VARIABLES
  tables,  \* directory entries that have a page table
  taken,   \* pages whose entry is initialised
  start,   \* the page the segment is to begin at
  size,    \* segmentSize
  pc,      \* "search", then "granted" (canAllocate) or "refused"
  tempCurrentDir, tempCurrentPage, tempCounter

input == <<tables, taken, start, size>>
vars  == <<input, pc, tempCurrentDir, tempCurrentPage, tempCounter>>

\* The conversion in "signed long tempCounter = segmentSize".
AsSigned(n) == IF n < HalfRange THEN n ELSE n - 2 * HalfRange

Init ==
  /\ tables \in SUBSET Dirs
  /\ taken \in SUBSET {q \in Pages : q \div MAX_PMT_ENTRIES \in tables}
  /\ start \in Pages
  /\ size \in Sizes
  /\ pc = "search"
  /\ tempCurrentDir = start \div MAX_PMT_ENTRIES
  /\ tempCurrentPage = start % MAX_PMT_ENTRIES
  /\ tempCounter = AsSigned(size)

Current == tempCurrentDir * MAX_PMT_ENTRIES + tempCurrentPage

Searching == pc = "search" /\ tempCounter > 0

\* Mutant of NextDir: one directory entry too many is entered.
NextDirLate ==
  /\ tempCurrentPage' = 0
  /\ tempCurrentDir' = tempCurrentDir + 1
  /\ pc' = IF tempCurrentDir = MAX_PMT_TABLES THEN "refused" ELSE "search"

\* The search gives up when it steps past the last directory entry, whether or
\* not it needs another page.
NextDir ==
  /\ tempCurrentPage' = 0
  /\ tempCurrentDir' = tempCurrentDir + 1
  /\ pc' = IF tempCurrentDir + 1 = MAX_PMT_TABLES THEN "refused" ELSE "search"

\* Mutant of SkipTable: the entries in front of the first page are counted too.
SkipTableWhole ==
  /\ Searching
  /\ tempCurrentDir \notin tables
  /\ tempCounter' = tempCounter - MAX_PMT_ENTRIES
  /\ NextDir
  /\ UNCHANGED input

\* Mutant of SkipTable: the loop continues before it has moved on.
SkipTableStuck ==
  /\ Searching
  /\ tempCurrentDir \notin tables
  /\ UNCHANGED vars

\* No page table here: all of its entries are free.
SkipTable ==
  /\ Searching
  /\ tempCurrentDir \notin tables
  /\ tempCounter' = tempCounter - (MAX_PMT_ENTRIES - tempCurrentPage)
  /\ NextDir
  /\ UNCHANGED input

\* Mutant of FreeEntry: the index runs on past the end of the table.
FreeEntryNoWrap ==
  /\ Searching
  /\ tempCurrentDir \in tables
  /\ Current \notin taken
  /\ tempCounter' = tempCounter - 1
  /\ tempCurrentPage' = tempCurrentPage + 1
  /\ UNCHANGED <<input, tempCurrentDir, pc>>

\* Mutant of IsFree: an initialised entry counts as free.
IsFreeAlways(q) == TRUE

IsFree(q) == q \notin taken

FreeEntry ==
  /\ Searching
  /\ tempCurrentDir \in tables
  /\ IsFree(Current)
  /\ tempCounter' = tempCounter - 1
  /\ \/ tempCurrentPage + 1 = MAX_PMT_ENTRIES /\ NextDir
     \/ /\ tempCurrentPage + 1 # MAX_PMT_ENTRIES
        /\ tempCurrentPage' = tempCurrentPage + 1
        /\ UNCHANGED <<tempCurrentDir, pc>>
  /\ UNCHANGED input

TakenEntry ==
  /\ Searching
  /\ tempCurrentDir \in tables
  /\ ~IsFree(Current)
  /\ pc' = "refused"
  /\ UNCHANGED <<input, tempCurrentDir, tempCurrentPage, tempCounter>>

Grant ==
  /\ pc = "search"
  /\ tempCounter <= 0
  /\ pc' = "granted"
  /\ UNCHANGED <<input, tempCurrentDir, tempCurrentPage, tempCounter>>

Over == pc # "search" /\ UNCHANGED vars

Next == SkipTable \/ FreeEntry \/ TakenEntry \/ Grant \/ Over

Spec == Init /\ [][Next]_vars

\* The loop is sequential code: it runs on.
FairSpec == Spec /\ WF_vars(Next)

-----------------------------------------------------------------------------
TypeOK ==
  /\ tables \in SUBSET Dirs
  /\ taken \in SUBSET Pages
  /\ start \in Pages
  /\ size \in Sizes
  /\ pc \in {"search", "granted", "refused"}
  /\ tempCurrentDir \in Nat
  /\ tempCurrentPage \in 0 .. MAX_PMT_ENTRIES - 1
  /\ tempCounter \in Int

\* The same page directory as process 0 of KernelProcess has it.
Process ==
  INSTANCE KernelProcess WITH
    MaxProcesses <- 1, processVMSpaceSize <- 1, numOfClusters <- 1,
    Values <- {}, Junk <- 0, nullptr <- 0, wild <- 0, SegmentSizes <- Sizes,
    Image <- 0, MaxQueue <- 0,
    pmtTable <- 0, fifoQueue <- 0, diskTable <- 0, memory <- 0,
    partition <- 0, listOfProcesses <- {0}, PID <- 1, exited <- "no",
    segment <- 0, fault <- 0,
    pageDirectory <- [p \in {0} |-> tables],
    pmt <- [pd \in {0} \X Pages |-> [init |-> pd[2] \in taken]]

\* The search never leaves the page directory: the entry it looks at next is
\* one of it (KernelProcess.cpp:62 indexes pageDirectory unchecked).
InsideDirectory == pc = "search" => tempCurrentDir \in Dirs

\* The loop answers as canAllocate does, on which the model of createSegment
\* and loadSegment rests (KernelProcess.cpp:60-97).
AnswersAsClosedForm ==
  /\ pc = "granted" => Process!canAllocate(0, start, size)
  /\ pc = "refused" => ~Process!canAllocate(0, start, size)

\* A segment that is granted has size free entries from its first page on
\* (KernelProcess.cpp:49, "Find if it has continuous segmentSize free entries
\* inside PMT for segment allocation").
GrantedIsFree ==
  pc = "granted" => \A q \in start .. start + size - 1 : q \in Pages \ taken

\* The search comes to an end (KernelProcess.cpp:60).
SearchEnds == <>(pc # "search")
=============================================================================
