---------------------------- MODULE KernelProcess ---------------------------
(***************************************************************************)
(* What a process asks of the kernel (class KernelProcess): create, load   *)
(* and delete a segment, serve a page fault, translate an address.         *)
(*                                                                         *)
(* A call runs under the mutex of its process's page directory, but        *)
(* releases the kernel's own mutexes between the pages it works on, so it  *)
(* is a sequence of steps.  "segment" is the segment call in progress,     *)
(* "fault" the pageFault call in progress; either is Idle when there is    *)
(* none.                                                                   *)
(***************************************************************************)
EXTENDS KernelSystem

CONSTANTS
  SegmentSizes,  \* bound: the segment sizes, in pages, programs ask for
  Image,         \* page -> contents, what loadSegment is given to load
  MaxQueue       \* bound on the length fifoQueue may reach after deletions

ASSUME InputAssumption ==
  /\ SegmentSizes \subseteq Nat
  /\ Image \in [Pages -> Values]
  /\ MaxQueue \in Nat

VARIABLES segment, fault

callVars == <<segment, fault>>

Idle == [pc |-> "idle"]

\* The page a segment call works on, how many it has left, whether the page's
\* table was opened by this very call, and the frame getFreeFrame returned.
SegmentCall ==
  [pc: {"alloc", "fill", "free"},
   op: {"createSegment", "loadSegment", "deleteSegment"},
   p: Processes, page: Pages, left: Nat \ {0}, size: Nat,
   flags: AccessType, fresh: BOOLEAN, frame: Frames]

FaultCall ==
  [pc: {"copy", "validate"}, p: Processes, page: Pages, frame: Frames,
   from: {"disk", "source", "empty"}]

ProcessTypeOK ==
  /\ segment \in SegmentCall \union {Idle}
  /\ segment # Idle => segment.page + segment.left <= NumPages
  /\ fault \in FaultCall \union {Idle}

ProcessInit == segment = Idle /\ fault = Idle

\* mutex_pageDirectory of process p is held by a call in progress.
SegmentHolds(p) == segment # Idle /\ segment.p = p
FaultHolds(p)   == fault # Idle /\ fault.p = p

Descr(call) == <<call.p, call.page>>

-----------------------------------------------------------------------------
(* createSegment and loadSegment: the search *)

\* The search walks size pages from "page" and must meet no initialised entry.
\* Entering a directory entry past the last one is refused, and both branches
\* of the loop step to the next entry before they look at the counter: a
\* segment that reaches the end of the address space is refused, and so is one
\* that ends anywhere in the last directory entry while that has no table.
canAllocate(p, page, size) ==
  LET last == page + size - 1
  IN  /\ last < NumPages - 1
      /\ \A q \in page .. last : ~Mapped(<<p, q>>)
      /\ HasTable(<<p, last>>) \/ DirOf(last) # MAX_PMT_TABLES - 1

StartSegment(op, p, page, size, flags) ==
  /\ exited = "no"
  /\ segment = Idle
  /\ ~FaultHolds(p)
  /\ p \in listOfProcesses
  /\ size > 0
  /\ canAllocate(p, page, size)
  /\ segment' = [pc |-> "alloc", op |-> op, p |-> p, page |-> page,
                 left |-> size, size |-> size, flags |-> flags,
                 fresh |-> FALSE, frame |-> 0]
  /\ UNCHANGED <<kernelVars, fault>>

createSegment(p, page, size, flags) ==
  StartSegment("createSegment", p, page, size, flags)

loadSegment(p, page, size, flags) ==
  StartSegment("loadSegment", p, page, size, flags)

\* Both calls end the program when the range is empty or cannot be had.
RefuseSegment(p, page, size) ==
  /\ exited = "no"
  /\ segment = Idle
  /\ ~FaultHolds(p)
  /\ p \in listOfProcesses
  /\ \/ size = 0 /\ Exit("empty segment")
     \/ size > 0 /\ ~canAllocate(p, page, size) /\ Exit("no space")
  /\ UNCHANGED callVars

-----------------------------------------------------------------------------
(* createSegment and loadSegment: the pages, one at a time *)

\* The rights the current entry has until FillCreatedPage or FillLoadedPage sets
\* them: in an entry nobody has used, whatever the memory held.  "wild" stands
\* for any value that is not an AccessType.
FoundRights ==
  LET rights == pmt[Descr(segment)].rwe
  IN  IF rights = wild THEN AccessType \union {wild} ELSE {rights}

\* The fields of the current entry that are set before its frame is asked for;
\* from here on it is initialised, and others may look at its rights.
Claimed(rights) ==
  LET head == segment.left = segment.size
      size == IF head THEN segment.size ELSE pmt[Descr(segment)].numOfPages
  IN  [pmt EXCEPT ![Descr(segment)] =
         [@ EXCEPT !.init = TRUE, !.valid = TRUE, !.dirty = FALSE,
                   !.rwe = rights, !.numOfPages = size]]

OpenTable ==
  pageDirectory' =
    [pageDirectory EXCEPT ![segment.p] = @ \union {DirOf(segment.page)}]

AllocPage ==
  /\ exited = "no"
  /\ segment.pc = "alloc"
  /\ OpenTable
  /\ \E rights \in FoundRights, f \in Frames :
       /\ getFreeFrame(Descr(segment), Claimed(rights), f)
       /\ segment' = [segment EXCEPT
            !.pc = "fill",
            !.frame = f,
            !.fresh = \/ ~HasTable(Descr(segment))
                      \/ @ /\ EntryOf(segment.page) # 0]
  /\ UNCHANGED fault

AllocPageDiskFull ==
  /\ exited = "no"
  /\ segment.pc = "alloc"
  /\ \E rights \in FoundRights : DiskIsFull(Claimed(rights))
  /\ Exit("disk full")
  /\ UNCHANGED callVars

\* Mutant of NextPage: the loop runs once more.
NextPageOnceMore ==
  segment' = IF segment.left = 0 THEN Idle
             ELSE [segment EXCEPT !.pc = "alloc",
                                  !.page = @ + 1,
                                  !.left = @ - 1]

\* Mutant of NextPage: the counter is not decremented.
NextPageStuck ==
  segment' = [segment EXCEPT !.pc = "alloc"]

\* On to the next page; after the last one the call returns OK.
NextPage ==
  segment' = IF segment.left = 1 THEN Idle
             ELSE [segment EXCEPT !.pc = "alloc",
                                  !.page = @ + 1,
                                  !.left = @ - 1]

Filled ==
  [pmt EXCEPT ![Descr(segment)] =
     [@ EXCEPT !.block = segment.frame, !.rwe = segment.flags]]

FillCreatedPage ==
  /\ exited = "no"
  /\ segment.pc = "fill"
  /\ segment.op = "createSegment"
  /\ pmt' = [Filled EXCEPT ![Descr(segment)].sourceAddress = nullptr]
  /\ NextPage
  /\ UNCHANGED <<pmtTable, fifoQueue, diskTable, memory, partition,
                 pageDirectory, listOfProcesses, PID, exited, fault>>

\* The first entries of the tables other than the one of pd.
OtherTables(pd) ==
  {x \in PageDescr : /\ HasTable(x)
                     /\ EntryOf(x[2]) = 0
                     /\ <<x[1], DirOf(x[2])>> # <<pd[1], DirOf(pd[2])>>}

\* The entries that "pmt[tempCurrentPage].sourceAddress = ..." may hit.  In a
\* table the call has opened it is the page's own entry.  In a table that was
\* there before, tempCurrentPage has already been incremented: the next entry,
\* or, past the end of the table, whatever lies behind it in pmtSpace: the
\* first entry of another table, or memory that is not modelled ({}: padding,
\* the rest of the chunk, the page directory of a later process).
SourceTargets ==
  LET pd == Descr(segment)
  IN  IF segment.fresh THEN {{pd}}
      ELSE IF EntryOf(segment.page) < MAX_PMT_ENTRIES - 1
        THEN {{<<segment.p, segment.page + 1>>}}
      ELSE {{}} \union {{other} : other \in OtherTables(pd)}

FillLoadedPage ==
  /\ exited = "no"
  /\ segment.pc = "fill"
  /\ segment.op = "loadSegment"
  /\ \E hit \in SourceTargets :
       pmt' = [pd \in PageDescr |->
                 IF pd \in hit
                 THEN [Filled[pd] EXCEPT !.sourceAddress = Image[segment.page]]
                 ELSE Filled[pd]]
  /\ memory' = [memory EXCEPT ![segment.frame] = Image[segment.page]]
  /\ NextPage
  /\ UNCHANGED <<pmtTable, fifoQueue, diskTable, partition,
                 pageDirectory, listOfProcesses, PID, exited, fault>>

-----------------------------------------------------------------------------
(* deleteSegment: tempCounter starts at 1 and is never set from numOfPages,  *)
(* so the loop body runs once, for the head of the segment                   *)

deleteSegment(p, page) ==
  /\ exited = "no"
  /\ segment = Idle
  /\ ~FaultHolds(p)
  /\ p \in listOfProcesses
  /\ HasTable(<<p, page>>)
  /\ pmt[<<p, page>>].numOfPages # 0
  /\ Len(fifoQueue) + Cardinality(FreeFrames) < MaxQueue
  /\ segment' = [pc |-> "free", op |-> "deleteSegment", p |-> p,
                 page |-> page, left |-> 1, size |-> pmt[<<p, page>>].numOfPages,
                 flags |-> "READ", fresh |-> FALSE,
                 frame |-> pmt[<<p, page>>].block]
  /\ UNCHANGED <<kernelVars, fault>>

RefuseDelete(p, page) ==
  /\ exited = "no"
  /\ segment = Idle
  /\ ~FaultHolds(p)
  /\ p \in listOfProcesses
  /\ \/ ~HasTable(<<p, page>>) /\ Exit("segment not found")
     \/ /\ HasTable(<<p, page>>)
        /\ pmt[<<p, page>>].numOfPages = 0
        /\ Exit("not the head")
  /\ UNCHANGED callVars

\* The frame freed is the one read from "block" when the call started; the
\* cluster of a page that is on disk is forgotten, not freed.
FreePage ==
  /\ exited = "no"
  /\ segment.pc = "free"
  /\ freePMTEntry(segment.frame)
  /\ pmt' = [pmt EXCEPT ![Descr(segment)] =
               [@ EXCEPT !.init = FALSE, !.valid = FALSE, !.dirty = FALSE,
                         !.block = nullptr, !.disk = 0, !.numOfPages = 0,
                         !.sourceAddress = nullptr]]
  /\ segment' = Idle
  /\ UNCHANGED <<fifoQueue, diskTable, memory, partition, pageDirectory,
                 listOfProcesses, PID, exited, fault>>

-----------------------------------------------------------------------------
(* pageFault *)

pageFault(p, page) ==
  /\ exited = "no"
  /\ fault = Idle
  /\ ~SegmentHolds(p)
  /\ pmt[<<p, page>>].init
  /\ \E f \in Frames :
       /\ getFreeFrame(<<p, page>>, pmt, f)
       /\ fault' = [pc |-> "copy", p |-> p, page |-> page, frame |-> f,
                    from |-> "empty"]
  /\ UNCHANGED <<pageDirectory, segment>>

pageFaultRefused(p, page) ==
  /\ exited = "no"
  /\ fault = Idle
  /\ ~SegmentHolds(p)
  /\ \/ ~pmt[<<p, page>>].init /\ Exit("access violation")
     \/ pmt[<<p, page>>].init /\ DiskIsFull(pmt) /\ Exit("disk full")
  /\ UNCHANGED callVars

\* Mutant of Origins: a page that was loaded is always read from its source.
OriginsStale(pd) ==
  IF pmt[pd].sourceAddress \in Contents
    THEN {<<"source", pmt[pd].sourceAddress>>}
  ELSE IF pmt[pd].disk # 0 THEN {<<"disk", partition[pmt[pd].disk]>>}
  ELSE {<<"empty", memory[fault.frame]>>}

\* Where a page is read from and what that gives: its cluster, the place
\* loadSegment took it from, or, for an empty page, what the frame contains.  A
\* source address nobody has initialised may be anything.
Origins(pd) ==
  LET source == pmt[pd].sourceAddress
  IN  IF pmt[pd].disk # 0 THEN {<<"disk", partition[pmt[pd].disk]>>}
      ELSE IF source \in Contents THEN {<<"source", source>>}
      ELSE {<<"empty", memory[fault.frame]>>}
             \union (IF source = wild THEN {"source"} \X Contents ELSE {})

CopyIn ==
  /\ exited = "no"
  /\ fault.pc = "copy"
  /\ \E origin \in Origins(Descr(fault)) :
       /\ memory' = [memory EXCEPT ![fault.frame] = origin[2]]
       /\ fault' = [fault EXCEPT !.pc = "validate", !.from = origin[1]]
  /\ UNCHANGED <<pmtTable, fifoQueue, diskTable, partition, pageDirectory,
                 pmt, listOfProcesses, PID, exited, segment>>

CopyInCrash ==
  /\ exited = "no"
  /\ fault.pc = "copy"
  /\ pmt[Descr(fault)].disk = 0
  /\ pmt[Descr(fault)].sourceAddress = wild
  /\ Exit("wild pointer")
  /\ UNCHANGED callVars

\* Mutant of Validated: a page read from disk counts as clean.
ValidatedClean(entry) ==
  [entry EXCEPT !.dirty = FALSE, !.block = fault.frame, !.valid = TRUE,
                !.disk = 0]

\* Mutant of Validated: the page is not marked valid.
ValidatedNot(entry) ==
  [entry EXCEPT !.dirty = fault.from = "disk", !.block = fault.frame,
                !.disk = 0]

\* A page that came from disk stays dirty: memory has its only copy now.  An
\* empty page keeps "disk", as the code returns early for it.
Validated(entry) ==
  [entry EXCEPT !.dirty = fault.from = "disk",
                !.block = fault.frame,
                !.valid = TRUE,
                !.disk = IF fault.from = "empty" THEN @ ELSE 0]

\* Mutant of GiveClusterBack: the cluster stays taken.
GiveClusterBackNot(pd) == UNCHANGED diskTable

GiveClusterBack(pd) ==
  IF fault.from = "disk" THEN setFreeCluster(pmt[pd].disk)
  ELSE UNCHANGED diskTable

\* The page is in: give its cluster back and validate the entry.
Validate ==
  /\ exited = "no"
  /\ fault.pc = "validate"
  /\ GiveClusterBack(Descr(fault))
  /\ pmt' = [pmt EXCEPT ![Descr(fault)] = Validated(@)]
  /\ fault' = Idle
  /\ UNCHANGED <<pmtTable, fifoQueue, memory, partition, pageDirectory,
                 listOfProcesses, PID, exited, segment>>

-----------------------------------------------------------------------------
(* getPhysicalAddress: the frame of a page, or the end of the program *)

Translatable(pd) == Mapped(pd) /\ pmt[pd].valid

getPhysicalAddress(pd) == pmt[pd].block
=============================================================================
