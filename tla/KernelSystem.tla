---------------------------- MODULE KernelSystem ----------------------------
(***************************************************************************)
(* The kernel side of the virtual memory manager: the frame table          *)
(* (pmtTable) and its FIFO replacement queue, the disk table, the page     *)
(* descriptors that processes and kernel share, the list of processes and  *)
(* the memory-access check (class KernelSystem).                           *)
(*                                                                         *)
(* Every operator here is the body of a method that runs under one of the  *)
(* kernel's mutexes, so it is one atomic step.  The modules that EXTEND    *)
(* this one combine the operators into the calls a program makes.          *)
(***************************************************************************)
EXTENDS Integers, Sequences, FiniteSets

CONSTANTS
  MaxProcesses,       \* bound: how many processes are ever created
  processVMSpaceSize, \* number of frames of physical memory
  numOfClusters,      \* number of clusters of the paging partition
  MAX_PMT_TABLES,     \* entries of a page directory (128 in the source)
  MAX_PMT_ENTRIES,    \* entries of a page table (128 in the source)
  Values,             \* what a program may store in a page
  Junk,               \* bytes nobody has written yet
  nullptr,            \* the null pointer
  wild                \* a field of malloc'ed memory nobody has initialised

Processes == 0 .. MaxProcesses - 1
Frames    == 0 .. processVMSpaceSize - 1
Clusters  == 0 .. numOfClusters - 1
Dirs      == 0 .. MAX_PMT_TABLES - 1
NumPages  == MAX_PMT_TABLES * MAX_PMT_ENTRIES
Pages     == 0 .. NumPages - 1
Contents  == Values \union {Junk}
AccessType == {"READ", "WRITE", "READ_WRITE", "EXECUTE"}

\* A page descriptor is known by the process and the virtual page it maps.
PageDescr == Processes \X Pages

ASSUME SizeAssumption ==
  /\ MaxProcesses \in Nat \ {0}
  /\ processVMSpaceSize \in Nat \ {0}
  /\ numOfClusters \in Nat \ {0}
  /\ MAX_PMT_TABLES \in Nat \ {0}
  /\ MAX_PMT_ENTRIES \in Nat \ {0}

ASSUME SentinelAssumption ==
  /\ Junk \notin Values
  /\ nullptr \notin PageDescr \union Frames \union Contents
  /\ wild \notin Contents \union AccessType \union {nullptr}

\* The directory entry and the table entry a virtual page is found at.
DirOf(page)   == page \div MAX_PMT_ENTRIES
EntryOf(page) == page % MAX_PMT_ENTRIES

-----------------------------------------------------------------------------
VARIABLES
  pmtTable,        \* frame -> is it free, and the descriptor it holds
  fifoQueue,       \* frames in the order replacePage takes them
  diskTable,       \* cluster -> is it free
  memory,          \* frame -> contents
  partition,       \* cluster -> contents
  pageDirectory,   \* process -> directory entries that have a page table
  pmt,             \* page descriptor -> its fields
  listOfProcesses, \* processes the kernel knows
  PID,             \* next process id
  exited           \* "no", or the exit(1) the program took

kernelVars == <<pmtTable, fifoQueue, diskTable, memory, partition,
                pageDirectory, pmt, listOfProcesses, PID, exited>>

SysPageDescriptor == [free: BOOLEAN, pageDescr: PageDescr \union {nullptr}]

PageDescriptor ==
  [init: BOOLEAN, valid: BOOLEAN, dirty: BOOLEAN,
   rwe: AccessType \union {wild}, numOfPages: Nat,
   block: Frames \union {nullptr}, disk: Clusters,
   sourceAddress: Contents \union {nullptr, wild}]

\* An entry of a page table that has just been carved out of pmtSpace.
FreshEntry ==
  [init |-> FALSE, valid |-> FALSE, dirty |-> FALSE, rwe |-> wild,
   numOfPages |-> 0, block |-> nullptr, disk |-> 0, sourceAddress |-> wild]

ExitReasons ==
  {"no", "empty segment", "no space", "segment not found", "not the head",
   "access violation", "unknown process", "disk full", "assert",
   "wild pointer", "other rights", "no owner", "not shared"}

KernelTypeOK ==
  /\ pmtTable \in [Frames -> SysPageDescriptor]
  /\ fifoQueue \in Seq(Frames)
  /\ diskTable \in [Clusters -> BOOLEAN]
  /\ memory \in [Frames -> Contents]
  /\ partition \in [Clusters -> Contents]
  /\ pageDirectory \in [Processes -> SUBSET Dirs]
  /\ pmt \in [PageDescr -> PageDescriptor]
  /\ listOfProcesses \in SUBSET Processes
  /\ PID \in 0 .. MaxProcesses
  /\ exited \in ExitReasons

KernelInit ==
  /\ pmtTable = [f \in Frames |-> [free |-> TRUE, pageDescr |-> nullptr]]
  /\ fifoQueue = <<>>
  /\ diskTable = [c \in Clusters |-> TRUE]
  /\ memory = [f \in Frames |-> Junk]
  /\ partition = [c \in Clusters |-> Junk]
  /\ pageDirectory = [p \in Processes |-> {}]
  /\ pmt = [pd \in PageDescr |-> FreshEntry]
  /\ listOfProcesses = {}
  /\ PID = 0
  /\ exited = "no"

\* exit(1), a failed assert or a crash: the program is gone, nothing follows.
Exit(reason) ==
  /\ exited' = reason
  /\ UNCHANGED <<pmtTable, fifoQueue, diskTable, memory, partition,
                 pageDirectory, pmt, listOfProcesses, PID>>

-----------------------------------------------------------------------------
(* Disk table *)

FreeClusters == {c \in Clusters \ {0} : diskTable[c]}

\* Cluster 0 is never handed out: disk = 0 means "not on disk".
getFreeCluster(c) ==
  /\ c \in FreeClusters
  /\ \A other \in FreeClusters : c <= other
  /\ diskTable' = [diskTable EXCEPT ![c] = FALSE]

setFreeCluster(c) ==
  diskTable' = [diskTable EXCEPT ![c] = TRUE]

-----------------------------------------------------------------------------
(* Frame table *)

FreeFrames == {f \in Frames : pmtTable[f].free}

\* The page replacePage would put out.
Victim == pmtTable[Head(fifoQueue)].pageDescr

\* Mutant of PutOut: the victim stays valid.
PutOutValid(descriptors, victim, c) == [descriptors EXCEPT ![victim].disk = c]

PutOut(descriptors, victim, c) ==
  [descriptors EXCEPT ![victim].valid = FALSE, ![victim].disk = c]

\* Frame f leaves memory.  A dirty page goes to a new cluster; a clean one is
\* only marked as not on disk.
pageOut(victim, descriptors, f) ==
  \/ /\ descriptors[victim].dirty
     /\ \E c \in Clusters :
          /\ getFreeCluster(c)
          /\ partition' = [partition EXCEPT ![c] = memory[f]]
          /\ pmt' = PutOut(descriptors, victim, c)
  \/ /\ ~descriptors[victim].dirty
     /\ pmt' = PutOut(descriptors, victim, 0)
     /\ UNCHANGED <<diskTable, partition>>

\* Mutant of requeue: the frame is not queued again.
requeueNot == fifoQueue' = Tail(fifoQueue)

\* Mutant of requeue: the frame stays first in the queue.
requeueFirst == UNCHANGED fifoQueue

requeue == fifoQueue' = Append(Tail(fifoQueue), Head(fifoQueue))

replacePage(pd, descriptors, f) ==
  /\ fifoQueue # <<>>
  /\ f = Head(fifoQueue)
  /\ requeue
  /\ pageOut(Victim, descriptors, f)
  /\ pmtTable' = [pmtTable EXCEPT ![f].pageDescr = pd]

\* Mutant of enqueue: the push is forgotten.
enqueueNot(f) == UNCHANGED fifoQueue

enqueue(f) == fifoQueue' = Append(fifoQueue, f)

takeFreeFrame(pd, descriptors, f) ==
  /\ f \in FreeFrames
  /\ \A other \in FreeFrames : f <= other
  /\ pmtTable' = [pmtTable EXCEPT ![f] = [free |-> FALSE, pageDescr |-> pd]]
  /\ enqueue(f)
  /\ pmt' = descriptors
  /\ UNCHANGED <<diskTable, partition>>

\* Mutant of getFreeFrame: a page is replaced while frames are free.
getFreeFrameEager(pd, descriptors, f) ==
  /\ \/ takeFreeFrame(pd, descriptors, f)
     \/ replacePage(pd, descriptors, f)
  /\ UNCHANGED <<memory, listOfProcesses, PID, exited>>

\* getFreeFrame returns frame f for descriptor pd.  "descriptors" is pmt with
\* the fields the caller has set just before the call.
getFreeFrame(pd, descriptors, f) ==
  /\ \/ takeFreeFrame(pd, descriptors, f)
     \/ FreeFrames = {} /\ replacePage(pd, descriptors, f)
  /\ UNCHANGED <<memory, listOfProcesses, PID, exited>>

\* The same call when the victim is dirty and no cluster is left.
DiskIsFull(descriptors) ==
  /\ FreeFrames = {}
  /\ fifoQueue # <<>>
  /\ descriptors[Victim].dirty
  /\ FreeClusters = {}

\* Mutant of freePMTEntry: the frame stays taken.
freePMTEntryKeepsFrame(f) ==
  pmtTable' = [pmtTable EXCEPT ![f].pageDescr = nullptr]

\* freePMTEntry leaves fifoQueue alone.
freePMTEntry(f) ==
  pmtTable' = [pmtTable EXCEPT ![f] = [free |-> TRUE, pageDescr |-> nullptr]]

-----------------------------------------------------------------------------
(* Processes *)

createProcess ==
  /\ exited = "no"
  /\ PID < MaxProcesses
  /\ listOfProcesses' = listOfProcesses \union {PID}
  /\ PID' = PID + 1
  /\ pageDirectory' = [pageDirectory EXCEPT ![PID] = {}]
  /\ UNCHANGED <<pmtTable, fifoQueue, diskTable, memory, partition, pmt,
                 exited>>

\* ~KernelProcess: frames and clusters of the process stay as they are.
removeProcess(p) ==
  /\ exited = "no"
  /\ p \in listOfProcesses
  /\ listOfProcesses' = listOfProcesses \ {p}
  /\ UNCHANGED <<pmtTable, fifoQueue, diskTable, memory, partition,
                 pageDirectory, pmt, PID, exited>>

-----------------------------------------------------------------------------
(* access(): the check the hardware makes before every memory reference *)

HasTable(pd) == DirOf(pd[2]) \in pageDirectory[pd[1]]
Mapped(pd)   == HasTable(pd) /\ pmt[pd].init

\* Mutant of Permits: any page may be written.
PermitsWrite(rights, type) ==
  \/ rights = type
  \/ type \in {"READ", "WRITE"}

Permits(rights, type) ==
  \/ rights = type
  \/ rights = "READ_WRITE" /\ type \in {"READ", "WRITE"}

\* What access() answers; every other outcome ends the program.
accessStatus(pd, type) ==
  IF pd[1] \notin listOfProcesses THEN "unknown process"
  ELSE IF ~Mapped(pd) \/ ~Permits(pmt[pd].rwe, type) THEN "access violation"
  ELSE IF pmt[pd].valid THEN "OK" ELSE "PAGE_FAULT"

\* An access that answers OK; a write marks the page dirty.
accessOK(pd, type) ==
  /\ accessStatus(pd, type) = "OK"
  /\ pmt' = IF type = "WRITE" THEN [pmt EXCEPT ![pd].dirty = TRUE] ELSE pmt
  /\ UNCHANGED <<pmtTable, fifoQueue, diskTable, memory, partition,
                 pageDirectory, listOfProcesses, PID, exited>>
=============================================================================
