---------------------------- MODULE CloneProcess ----------------------------
(***************************************************************************)
(* Cloning a process (KernelSystem::cloneProcess, KernelProcess::clone):   *)
(* the new process gets page tables of its own, a frame of its own for     *)
(* every page that is in memory and a cluster of its own for every page    *)
(* that is on disk.  The programs are those of SystemTest's SerialSpec,    *)
(* which may now also clone a process between two calls.                   *)
(***************************************************************************)
EXTENDS SystemTest

\* Bound: how many directory entries past the last one the loop reads before the
\* program dies of what it finds there.
CONSTANT MaxBehind

ASSUME BehindAssumption == MaxBehind \in Nat \ {0}

\* The clone call in progress, or Idle: the parent, the new process, the
\* directory index of the loop, the table being copied, the entry in it and
\* the frame the entry's page has got.
VARIABLE clone

cloneVars == <<vars, clone>>

CloneCall ==
  [pc: {"dir", "entry", "copy"}, p: Processes, id: Processes,
   dir: 0 .. MAX_PMT_TABLES + MaxBehind, table: Dirs,
   entry: 0 .. MAX_PMT_ENTRIES - 1, frame: Frames]

CloneTypeOK ==
  /\ TypeOK
  /\ clone \in CloneCall \union {Idle}

CloneInit == Init /\ clone = Idle

\* The entry that is copied, and the entry of the clone it is copied to.
Original == <<clone.p, clone.table * MAX_PMT_ENTRIES + clone.entry>>
Copy     == <<clone.id, Original[2]>>

\* cloneProcess takes the next id; clone() constructs the process and gives it
\* an empty page directory.
StartClone(p) ==
  /\ exited = "no"
  /\ p \in listOfProcesses
  /\ PID < MaxProcesses
  /\ PID' = PID + 1
  /\ clone' = [pc |-> "dir", p |-> p, id |-> PID, dir |-> 0, table |-> 0,
               entry |-> 0, frame |-> 0]
  /\ UNCHANGED <<pmtTable, fifoQueue, diskTable, memory, partition,
                 pageDirectory, pmt, listOfProcesses, exited, callVars,
                 testVars>>

\* The end of an iteration of the outer loop: past the last directory entry the
\* call is done.
NextTable(dir) ==
  clone' = [clone EXCEPT !.pc = "dir", !.dir = dir + 1]

SkipMissingTable ==
  /\ exited = "no"
  /\ clone.pc = "dir"
  /\ clone.dir < MAX_PMT_TABLES
  /\ clone.dir \notin pageDirectory[clone.p]
  /\ NextTable(clone.dir)
  /\ UNCHANGED vars

CopyTable ==
  /\ exited = "no"
  /\ clone.pc = "dir"
  /\ clone.dir < MAX_PMT_TABLES
  /\ clone.dir \in pageDirectory[clone.p]
  /\ pageDirectory' =
       [pageDirectory EXCEPT ![clone.id] = @ \union {clone.dir}]
  /\ clone' = [clone EXCEPT !.pc = "entry", !.table = clone.dir, !.entry = 0]
  /\ UNCHANGED <<pmtTable, fifoQueue, diskTable, memory, partition, pmt,
                 listOfProcesses, PID, exited, callVars, testVars>>

\* Past the last directory entry: the index never meets MAX_PMT_TABLES again and
\* the call cannot return.  What is behind the directory reads as no table...
PassNothing ==
  /\ exited = "no"
  /\ clone.pc = "dir"
  /\ clone.dir > MAX_PMT_TABLES
  /\ clone.dir < MAX_PMT_TABLES + MaxBehind
  /\ NextTable(clone.dir)
  /\ UNCHANGED vars

\* ... or as the address of one, which the loop follows.
FollowWildPointer ==
  /\ exited = "no"
  /\ clone.pc = "dir"
  /\ clone.dir > MAX_PMT_TABLES
  /\ Exit("wild pointer")
  /\ UNCHANGED <<clone, callVars, testVars>>

\* Mutant of NextEntry: the inner loop runs once more.
NextEntryOnceMore(dir) ==
  IF clone.entry = MAX_PMT_ENTRIES THEN NextTable(dir)
  ELSE clone' = [clone EXCEPT !.pc = "entry", !.entry = @ + 1, !.dir = dir]

\* Mutant of NextEntry: the directory index is stepped with every entry.
NextEntryStepsDir(dir) ==
  IF clone.entry = MAX_PMT_ENTRIES - 1 THEN NextTable(dir)
  ELSE clone' = [clone EXCEPT !.pc = "entry", !.entry = @ + 1, !.dir = dir + 1]

\* On to the next entry of the table, or out of the inner loop.
NextEntry(dir) ==
  IF clone.entry = MAX_PMT_ENTRIES - 1 THEN NextTable(dir)
  ELSE clone' = [clone EXCEPT !.pc = "entry", !.entry = @ + 1, !.dir = dir]

\* Bound: two of the values that an entry of the clone may have that nobody has
\* set.  Its numOfPages is left 0: of such an entry only deleteSegment reads it,
\* and no program of CloneSpec deletes.
LeftOver ==
  {FreshEntry,
   [FreshEntry EXCEPT !.valid = TRUE, !.dirty = TRUE, !.rwe = "READ",
                      !.block = 0, !.disk = numOfClusters - 1]}

\* Of an uninitialised entry only "init" is copied, and the loop steps the
\* directory index of the outer one.
PassEntry ==
  /\ exited = "no"
  /\ clone.pc = "entry"
  /\ ~pmt[Original].init
  /\ \E rest \in LeftOver : pmt' = [pmt EXCEPT ![Copy] = rest]
  /\ UNCHANGED <<pmtTable, fifoQueue, diskTable, memory, partition,
                 pageDirectory, listOfProcesses, PID, exited, callVars,
                 testVars>>

SkipEntry ==
  /\ PassEntry
  /\ clone.dir + 1 < MAX_PMT_TABLES
  /\ NextEntry(clone.dir + 1)

\* The same at the last directory entry: the break leaves the inner loop only,
\* and the outer one steps the index once more, past MAX_PMT_TABLES.
LeaveDirectory ==
  /\ PassEntry
  /\ clone.dir + 1 = MAX_PMT_TABLES
  /\ NextTable(MAX_PMT_TABLES)

\* The fields of the clone's entry are those of the parent's.
Copied == [pmt EXCEPT ![Copy] = pmt[Original]]

\* Neither in memory nor on disk: there is nothing more to copy.
CopyEntry ==
  /\ exited = "no"
  /\ clone.pc = "entry"
  /\ pmt[Original].init /\ ~pmt[Original].valid /\ pmt[Original].disk = 0
  /\ pmt' = Copied
  /\ NextEntry(clone.dir)
  /\ UNCHANGED <<pmtTable, fifoQueue, diskTable, memory, partition,
                 pageDirectory, listOfProcesses, PID, exited, callVars,
                 testVars>>

\* Mutant of ClaimFrame: the parent's frame is shared.
ClaimFrameNot ==
  /\ exited = "no"
  /\ clone.pc = "entry"
  /\ pmt[Original].init /\ pmt[Original].valid
  /\ pmt' = Copied
  /\ NextEntry(clone.dir)
  /\ UNCHANGED <<pmtTable, fifoQueue, diskTable, memory, partition,
                 pageDirectory, listOfProcesses, PID, exited, callVars,
                 testVars>>

\* A page in memory gets a frame, which is registered for the parent's entry.
ClaimFrame ==
  /\ exited = "no"
  /\ clone.pc = "entry"
  /\ pmt[Original].init /\ pmt[Original].valid
  /\ \E f \in Frames :
       /\ getFreeFrame(Original, Copied, f)
       /\ clone' = [clone EXCEPT !.pc = "copy", !.frame = f]
  /\ UNCHANGED <<pageDirectory, callVars, testVars>>

CopyPage ==
  /\ exited = "no"
  /\ clone.pc = "copy"
  /\ pmt' = [pmt EXCEPT ![Copy].block = clone.frame]
  /\ memory' = [memory EXCEPT ![clone.frame] = memory[pmt[Original].block]]
  /\ NextEntry(clone.dir)
  /\ UNCHANGED <<pmtTable, fifoQueue, diskTable, partition, pageDirectory,
                 listOfProcesses, PID, exited, callVars, testVars>>

\* A page on disk gets a cluster.
CopyCluster ==
  /\ exited = "no"
  /\ clone.pc = "entry"
  /\ pmt[Original].init /\ ~pmt[Original].valid /\ pmt[Original].disk # 0
  /\ \E c \in Clusters :
       /\ getFreeCluster(c)
       /\ partition' = [partition EXCEPT ![c] = partition[pmt[Original].disk]]
       /\ pmt' = [Copied EXCEPT ![Copy].disk = c]
  /\ NextEntry(clone.dir)
  /\ UNCHANGED <<pmtTable, fifoQueue, memory, pageDirectory, listOfProcesses,
                 PID, exited, callVars, testVars>>

CloneDiskFull ==
  /\ exited = "no"
  /\ clone.pc = "entry"
  /\ pmt[Original].init
  /\ \/ pmt[Original].valid /\ DiskIsFull(pmt)
     \/ /\ ~pmt[Original].valid
        /\ pmt[Original].disk # 0
        /\ FreeClusters = {}
  /\ Exit("disk full")
  /\ UNCHANGED <<clone, callVars, testVars>>

\* The process is entered into the list.  To the program its pages hold what
\* the parent's do.
FinishClone ==
  /\ exited = "no"
  /\ clone.pc = "dir"
  /\ clone.dir = MAX_PMT_TABLES
  /\ listOfProcesses' = listOfProcesses \union {clone.id}
  /\ lastWritten' = [pd \in PageDescr |->
                       IF pd[1] = clone.id THEN lastWritten[<<clone.p, pd[2]>>]
                       ELSE lastWritten[pd]]
  /\ clone' = Idle
  /\ UNCHANGED <<pmtTable, fifoQueue, diskTable, memory, partition,
                 pageDirectory, pmt, PID, exited, callVars, instruction>>

CloneStep ==
  \/ SkipMissingTable
  \/ CopyTable
  \/ SkipEntry
  \/ LeaveDirectory
  \/ PassNothing
  \/ FollowWildPointer
  \/ CopyEntry
  \/ ClaimFrame
  \/ CopyPage
  \/ CopyCluster
  \/ CloneDiskFull
  \/ FinishClone

\* Bound: a program makes no further call once MaxProcesses have been created.
CloneOver ==
  /\ exited # "no" \/ (Quiet /\ clone = Idle /\ PID = MaxProcesses)
  /\ UNCHANGED cloneVars

CloneNext ==
  \/ /\ Quiet /\ clone = Idle /\ PID < MaxProcesses
     /\ \/ (GrowingCall \/ BeginAny) /\ UNCHANGED clone
        \/ \E p \in Processes : StartClone(p)
  \/ (SegmentStep \/ InstructionStep) /\ UNCHANGED clone
  \/ CloneStep
  \/ CloneOver

CloneSpec == CloneInit /\ [][CloneNext]_cloneVars

\* The same when only the last process created is a clone: the frames of a clone
\* are registered for its parent, so replacement takes them without telling the
\* clone, and a later clone of that clone is then a copy of somebody else's page
\* (configuration MCCloneRegistered).
LastCloneNext ==
  /\ CloneNext
  /\ clone = Idle /\ clone' # Idle => PID' = MaxProcesses

LastCloneSpec == CloneInit /\ [][LastCloneNext]_cloneVars

-----------------------------------------------------------------------------
\* The clone call of process id, cloned from p, is returning.
Returns(p, id) == clone # Idle /\ clone' = Idle /\ clone.p = p /\ clone.id = id

TablesFull(p) ==
  \A q \in Pages : HasTable(<<p, q>>) => pmt[<<p, q>>].init

SamePlace(pd, other) ==
  /\ pmt[pd].valid = pmt[other].valid
  /\ IF pmt[pd].valid THEN pmt[pd].block = pmt[other].block
     ELSE pmt[pd].disk # 0 /\ pmt[pd].disk = pmt[other].disk

CopiedWhole(p, id) ==
  \A q \in Pages :
    Mapped(<<p, q>>) =>
      /\ Mapped(<<id, q>>)
      /\ lastWritten[<<p, q>>] \in Values =>
           ContentsOf(<<id, q>>) = ContentsOf(<<p, q>>)
      /\ ~SamePlace(<<id, q>>, <<p, q>>)

\* The uninitialised entries of the table that is being copied which the inner
\* loop has passed.
Gaps ==
  {e \in 0 .. clone.entry - 1 :
     ~pmt[<<clone.p, clone.table * MAX_PMT_ENTRIES + e>>].init}

\* The directory index of clone()'s outer loop is ahead of the table that is
\* being copied by exactly the uninitialised entries passed in it, as the inner
\* loop steps the same variable for each of them (KernelProcess.cpp:556-558):
\* the tables it is ahead of are never copied.  It leaves the directory, and
\* the call never returns, only when a table of the parent is not full.
IndexCountsGaps ==
  clone # Idle =>
    /\ clone.pc \in {"entry", "copy"} =>
         clone.dir = clone.table + Cardinality(Gaps)
    /\ clone.dir > MAX_PMT_TABLES => ~TablesFull(clone.p)

\* When cloneProcess returns, the clone has the pages of its parent, each with
\* what was last written to the parent's, wherever the two are kept by then,
\* and none is kept in one place for both, provided every table of the parent
\* is full: only then does the loop count its tables right
\* (KernelProcess.cpp:542-588).
CloneIsCopy ==
  [][\A p, id \in Processes :
       Returns(p, id) /\ TablesFull(p) => CopiedWhole(p, id)']_cloneVars

-----------------------------------------------------------------------------
(* What comments of the source say and the code does not do *)

\* The address space is cloned, whatever pages it has (KernelProcess.cpp:534,
\* "Clone the virtual address space (tables)").
AddressSpaceCloned ==
  [][\A p, id \in Processes :
       Returns(p, id) =>
         \A q \in Pages : Mapped(<<p, q>>) => Mapped(<<id, q>>)']_cloneVars
=============================================================================
