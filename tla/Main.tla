-------------------------------- MODULE Main --------------------------------
(***************************************************************************)
(* The repository's test program (main.cpp).  The main thread constructs   *)
(* one process after the other -- a code segment is loaded, data segments  *)
(* are created -- and starts a thread for each as soon as it is complete,  *)
(* so that later processes are constructed while earlier ones run.  Each   *)
(* thread executes its instructions and ends; main joins the threads in    *)
(* order and destroys their processes.                                     *)
(***************************************************************************)
EXTENDS SystemTest

CONSTANTS
  SegmentSize,   \* pages of a segment (100 in the source)
  DataSegments,  \* data segments of a process (10 in the source)
  Instructions   \* instructions a thread executes before it ends

\* The segments fit in front of the last directory entry (1111 pages of 127 *
\* 128 in the source), so that none of them is refused.
ASSUME ProgramAssumption ==
  /\ SegmentSize \in Nat \ {0}
  /\ DataSegments \in Nat
  /\ Instructions \in Nat
  /\ 1 + DataSegments * (SegmentSize + 1) + SegmentSize
       <= (MAX_PMT_TABLES - 1) * MAX_PMT_ENTRIES

VARIABLES
  built,    \* segments the process under construction has been given
  started,  \* processes whose thread has been started
  left      \* process -> instructions its thread has yet to execute

mainVars == <<vars, built, started, left>>

MainTypeOK ==
  /\ TypeOK
  /\ built \in 0 .. 1 + DataSegments
  /\ started \in SUBSET Processes
  /\ left \in [Processes -> 0 .. Instructions]

MainInit ==
  /\ Init
  /\ built = 0
  /\ started = {}
  /\ left = [p \in Processes |-> Instructions]

\* Segments lie one page apart, behind an unused first page.
SegmentStart(k) == 1 + k * (SegmentSize + 1)
SegmentPages(k) == SegmentStart(k) .. SegmentStart(k) + SegmentSize - 1
CodePages == SegmentPages(0)
DataPages == UNION {SegmentPages(k) : k \in 1 .. DataSegments}

-----------------------------------------------------------------------------
(* The main thread *)

UnderConstruction == {p \in listOfProcesses : p \notin started}

NewProcess ==
  /\ segment = Idle
  /\ UnderConstruction = {}
  /\ CreateProcess
  /\ built' = 0
  /\ UNCHANGED <<started, left>>

\* addCodeSegment, then addDataSegment
AddSegment ==
  /\ segment = Idle
  /\ built <= DataSegments
  /\ \E p \in UnderConstruction :
       \/ /\ built = 0
          /\ LoadSegment(p, SegmentStart(0), SegmentSize, "EXECUTE")
       \/ /\ built > 0
          /\ CreateSegment(p, SegmentStart(built), SegmentSize, "READ_WRITE")
  /\ built' = built + 1
  /\ UNCHANGED <<started, left>>

BuildSegment == SegmentStep /\ UNCHANGED <<built, started, left>>

StartThread ==
  /\ exited = "no"
  /\ segment = Idle
  /\ built = 1 + DataSegments
  /\ \E p \in UnderConstruction : started' = started \union {p}
  /\ UNCHANGED <<vars, built, left>>

\* The thread of p has returned from ProcessTest::run.
Finished(p) ==
  /\ left[p] = 0
  /\ instruction # Idle => instruction.p # p

JoinAndDelete ==
  /\ PID = MaxProcesses
  /\ UnderConstruction = {}
  /\ \E p \in listOfProcesses :
       /\ \A other \in listOfProcesses : p <= other
       /\ Finished(p)
       /\ DestroyProcess(p)
  /\ UNCHANGED <<built, started, left>>

MainThread ==
  NewProcess \/ AddSegment \/ BuildSegment \/ StartThread \/ JoinAndDelete

-----------------------------------------------------------------------------
(* The thread of process p *)

\* Mutant of Count: one instruction too many.
CountOnceMore(p) == left[p] >= 0 /\ left' = [left EXCEPT ![p] = @ - 1]

Count(p) == left[p] > 0 /\ left' = [left EXCEPT ![p] = @ - 1]

Instruct(p) ==
  /\ p \in started
  /\ Count(p)
  /\ \/ \E page \in CodePages : Begin(p, page, "EXECUTE", Junk)
     \/ \E page \in DataPages :
          \/ Begin(p, page, "READ", Junk)
          \/ \E val \in Values : Begin(p, page, "WRITE", val)
  /\ UNCHANGED <<built, started>>

Execute(p) ==
  /\ instruction # Idle
  /\ instruction.p = p
  /\ InstructionStep
  /\ UNCHANGED <<built, started, left>>

ProcessThread(p) == Instruct(p) \/ Execute(p)

-----------------------------------------------------------------------------
MainNext ==
  \/ MainThread
  \/ \E p \in Processes : ProcessThread(p)
  \/ Over /\ UNCHANGED <<built, started, left>>

\* The operating system runs every thread that can run.
MainFairness ==
  /\ WF_mainVars(MainThread)
  /\ \A p \in Processes : WF_mainVars(ProcessThread(p))

MainSpec == MainInit /\ [][MainNext]_mainVars /\ MainFairness

-----------------------------------------------------------------------------
\* The test program comes to an end: no lock is kept, no loop of a segment call
\* or a fault goes on for ever, no thread waits for one that never returns.
Terminates ==
  <>(exited # "no" \/ (PID = MaxProcesses /\ listOfProcesses = {}))

\* A fault that was served is over: the access that is repeated after
\* pageFault answers OK (SystemTest.cpp:31 and 50: assert (success == OK)).
RetrySucceeds == exited # "assert"
=============================================================================
