----------------------------- MODULE SystemTest -----------------------------
(***************************************************************************)
(* Programs running on the kernel.  One thread executes instructions       *)
(* (SystemTest::doInstruction: access, page fault, access again, translate,*)
(* touch memory); all of them run under one mutex, so at most one          *)
(* instruction is in progress.  Another thread constructs processes and    *)
(* their segments (ProcessTest's constructor, called by main) and takes no *)
(* such mutex.                                                             *)
(*                                                                         *)
(* The specifications differ in who may interleave with whom and in which  *)
(* calls a program makes:                                                  *)
(*   SerialSpec   one call or instruction at a time, segments only added   *)
(*                the way ProcessTest adds them;                           *)
(*   ApiSpec      every call with every argument, still one at a time;     *)
(*   Spec         every call with every argument, instructions interleaved *)
(*                with segment calls.                                      *)
(***************************************************************************)
EXTENDS KernelProcess

VARIABLES
  instruction,  \* the instruction in progress, or Idle
  lastWritten   \* history: what a page was last given by loadSegment or a
                \* store, Junk while nothing was, nullptr out of any segment

vars == <<kernelVars, callVars, instruction, lastWritten>>

Instruction ==
  [pc: {"access", "fault", "retry", "translate", "touch", "check"},
   p: Processes, page: Pages, type: {"READ", "WRITE", "EXECUTE"},
   val: Contents, frame: Frames]

TypeOK ==
  /\ KernelTypeOK
  /\ ProcessTypeOK
  /\ instruction \in Instruction \union {Idle}
  /\ lastWritten \in [PageDescr -> Contents \union {nullptr}]

Init ==
  /\ KernelInit
  /\ ProcessInit
  /\ instruction = Idle
  /\ lastWritten = [pd \in PageDescr |-> nullptr]

testVars == <<instruction, lastWritten>>

-----------------------------------------------------------------------------
(* Constructing processes and segments *)

CreateProcess == createProcess /\ UNCHANGED <<callVars, testVars>>

\* delete process[i], after its thread has been joined
DestroyProcess(p) ==
  /\ removeProcess(p)
  /\ ~SegmentHolds(p)
  /\ instruction # Idle => instruction.p # p
  /\ UNCHANGED <<callVars, testVars>>

CreateSegment(p, page, size, flags) ==
  createSegment(p, page, size, flags) /\ UNCHANGED testVars

LoadSegment(p, page, size, flags) ==
  loadSegment(p, page, size, flags) /\ UNCHANGED testVars

RefusedSegment(p, page, size) ==
  RefuseSegment(p, page, size) /\ UNCHANGED testVars

ClaimPage == (AllocPage \/ AllocPageDiskFull) /\ UNCHANGED testVars

Expect(contents) ==
  /\ lastWritten' = [lastWritten EXCEPT ![Descr(segment)] = contents]
  /\ UNCHANGED instruction

AddPage ==
  \/ FillCreatedPage /\ Expect(Junk)
  \/ FillLoadedPage /\ Expect(Image[segment.page])

DeleteSegment(p, page) == deleteSegment(p, page) /\ UNCHANGED testVars

RefusedDelete(p, page) == RefuseDelete(p, page) /\ UNCHANGED testVars

\* To the program the whole segment is gone when deleteSegment returns.
RemovePages ==
  /\ FreePage
  /\ lastWritten' =
       [pd \in PageDescr |->
          IF /\ pd[1] = segment.p
             /\ pd[2] \in segment.page .. segment.page + segment.size - 1
          THEN nullptr ELSE lastWritten[pd]]
  /\ UNCHANGED instruction

-----------------------------------------------------------------------------
(* doInstruction *)

At(pc) == exited = "no" /\ instruction.pc = pc

Begin(p, page, type, val) ==
  /\ exited = "no"
  /\ instruction = Idle
  /\ instruction' = [pc |-> "access", p |-> p, page |-> page, type |-> type,
                     val |-> val, frame |-> 0]
  /\ UNCHANGED <<kernelVars, callVars, lastWritten>>

Goto(pc) == instruction' = [instruction EXCEPT !.pc = pc]

Access ==
  LET status == accessStatus(Descr(instruction), instruction.type)
  IN  /\ At("access") \/ At("retry")
      /\ \/ /\ accessOK(Descr(instruction), instruction.type)
            /\ Goto("translate")
         \/ /\ status = "PAGE_FAULT"
            /\ instruction.pc = "access"
            /\ Goto("fault")
            /\ UNCHANGED kernelVars
         \/ /\ status = "PAGE_FAULT"
            /\ instruction.pc = "retry"
            /\ Exit("assert")
            /\ UNCHANGED instruction
         \/ /\ status \in {"access violation", "unknown process"}
            /\ Exit(status)
            /\ UNCHANGED instruction
      /\ UNCHANGED <<callVars, lastWritten>>

HandleFault ==
  /\ At("fault")
  /\ \/ pageFault(instruction.p, instruction.page)
     \/ pageFaultRefused(instruction.p, instruction.page)
     \/ CopyIn
     \/ CopyInCrash
  /\ UNCHANGED testVars

FaultServed ==
  /\ At("fault")
  /\ Validate
  /\ Goto("retry")
  /\ UNCHANGED lastWritten

Translate ==
  /\ At("translate")
  /\ ~SegmentHolds(instruction.p)
  /\ \/ /\ Translatable(Descr(instruction))
        /\ instruction' = [instruction EXCEPT
             !.pc = "touch",
             !.frame = getPhysicalAddress(Descr(instruction))]
        /\ UNCHANGED kernelVars
     \/ /\ ~Translatable(Descr(instruction))
        /\ Exit("access violation")
        /\ UNCHANGED instruction
  /\ UNCHANGED <<callVars, lastWritten>>

Store ==
  /\ At("touch")
  /\ instruction.type = "WRITE"
  /\ memory' = [memory EXCEPT ![instruction.frame] = instruction.val]
  /\ lastWritten' =
       [lastWritten EXCEPT ![Descr(instruction)] = instruction.val]
  /\ instruction' = Idle
  /\ UNCHANGED <<pmtTable, fifoQueue, diskTable, partition, pageDirectory,
                 pmt, listOfProcesses, PID, exited, callVars>>

Fetch ==
  /\ At("touch")
  /\ instruction.type # "WRITE"
  /\ instruction' = [instruction EXCEPT !.pc = "check",
                                        !.val = memory[instruction.frame]]
  /\ UNCHANGED <<kernelVars, callVars, lastWritten>>

CheckValue ==
  /\ At("check")
  /\ instruction' = Idle
  /\ UNCHANGED <<kernelVars, callVars, lastWritten>>

-----------------------------------------------------------------------------
(* Specifications *)

SegmentStep == ClaimPage \/ AddPage \/ RemovePages

InstructionStep ==
  Access \/ HandleFault \/ FaultServed \/ Translate \/ Store \/ Fetch
    \/ CheckValue

\* The instructions a program may be made of; only a WRITE carries a value.
BeginAny ==
  \E p \in Processes, page \in Pages :
    \/ \E val \in Values : Begin(p, page, "WRITE", val)
    \/ \E type \in {"READ", "EXECUTE"} : Begin(p, page, type, Junk)

\* The program is over after an exit, or when its last process is destroyed.
Over ==
  /\ \/ exited # "no"
     \/ PID = MaxProcesses /\ listOfProcesses = {}
  /\ UNCHANGED vars

\* The calls of ProcessTest's constructor and destructor: the code segment is
\* loaded into a new process, data segments follow where there is room.
GrowingCall ==
  \/ CreateProcess
  \/ \E p \in Processes :
       \/ DestroyProcess(p)
       \/ \E page \in Pages, size \in SegmentSizes :
            \/ CreateSegment(p, page, size, "READ_WRITE")
            \/ /\ pageDirectory[p] = {}
               /\ \E flags \in {"EXECUTE", "READ_WRITE"} :
                    LoadSegment(p, page, size, flags)

AnyCall ==
  \/ CreateProcess
  \/ \E p \in Processes :
       \/ DestroyProcess(p)
       \/ \E page \in Pages :
            \/ DeleteSegment(p, page)
            \/ RefusedDelete(p, page)
            \/ \E size \in SegmentSizes :
                 \/ RefusedSegment(p, page, size)
                 \/ \E flags \in {"EXECUTE", "READ_WRITE"} :
                      \/ CreateSegment(p, page, size, flags)
                      \/ LoadSegment(p, page, size, flags)

Quiet == segment = Idle /\ instruction = Idle

SerialNext ==
  \/ Quiet /\ (GrowingCall \/ BeginAny)
  \/ SegmentStep
  \/ InstructionStep
  \/ Over

SerialSpec == Init /\ [][SerialNext]_vars

ApiNext ==
  \/ Quiet /\ (AnyCall \/ BeginAny)
  \/ SegmentStep
  \/ InstructionStep
  \/ Over

ApiSpec == Init /\ [][ApiNext]_vars

Next ==
  \/ AnyCall
  \/ BeginAny
  \/ SegmentStep
  \/ InstructionStep
  \/ Over

Spec == Init /\ [][Next]_vars

-----------------------------------------------------------------------------
(* Safety of the frame table, whoever interleaves with whom *)

Queued == {fifoQueue[i] : i \in DOMAIN fifoQueue}

\* Every frame in use has a descriptor and is waiting in the replacement queue:
\* replacePage never finds the queue empty and never dereferences a null
\* descriptor (KernelSystem.cpp:330, 341), whatever was freed in between.
VictimIsReal ==
  /\ \A f \in Frames : pmtTable[f].free <=> pmtTable[f].pageDescr = nullptr
  /\ \A f \in Frames : ~pmtTable[f].free => f \in Queued

-----------------------------------------------------------------------------
(* Safety of paging, for a serial program whose segments only grow *)

\* The page a call is working on: between getFreeFrame and the assignment of
\* "block" the frame table already names it.
InTransit(pd) ==
  \/ segment.pc = "fill" /\ pd = Descr(segment)
  \/ fault # Idle /\ pd = Descr(fault)

HeldBy(f, pd) == ~pmtTable[f].free /\ pmtTable[f].pageDescr = pd

\* A valid page is in memory: its frame is in use and the frame table names
\* this very page as the one it holds.  Hence no two valid pages share a frame.
ValidIsResident ==
  \A pd \in PageDescr :
    Mapped(pd) /\ pmt[pd].valid /\ ~InTransit(pd) =>
      /\ pmt[pd].block \in Frames
      /\ HeldBy(pmt[pd].block, pd)

\* Why it holds.  One call or instruction runs at a time and none deletes; the
\* frame of a page in transit is already registered for it; the page being
\* faulted in is invalid.  So replacePage invalidates the only page that could
\* still be valid in the frame it hands out.
OneAtATime ==
  /\ segment # Idle => instruction = Idle /\ segment.pc # "free"
  /\ fault # Idle => /\ instruction.pc = "fault"
                     /\ Descr(fault) = Descr(instruction)

ResidencyInv ==
  /\ OneAtATime
  /\ segment.pc = "fill" => HeldBy(segment.frame, Descr(segment))
  /\ fault # Idle => HeldBy(fault.frame, Descr(fault))
  /\ instruction.pc = "fault" => ~pmt[Descr(instruction)].valid
  /\ \A pd \in PageDescr :
       pmt[pd].init /\ pmt[pd].valid /\ ~InTransit(pd) =>
         HeldBy(pmt[pd].block, pd)

\* Where the contents of a page are.
ContentsOf(pd) ==
  IF pmt[pd].valid THEN memory[pmt[pd].block]
  ELSE IF pmt[pd].disk # 0 THEN partition[pmt[pd].disk]
  ELSE pmt[pd].sourceAddress

\* Paging loses nothing: whatever was last stored into or loaded for a page is
\* what its frame, its cluster or its source holds.
NothingLost ==
  \A pd \in PageDescr :
    lastWritten[pd] \in Values /\ ~InTransit(pd) =>
      ContentsOf(pd) = lastWritten[pd]

\* Clusters and paged-out pages are in one-to-one correspondence: a cluster is
\* taken exactly while one page, not in memory, is stored in it.  No cluster
\* leaks through eviction and fault, and none is handed out twice.
OnDisk(pd) == pmt[pd].init /\ ~pmt[pd].valid /\ pmt[pd].disk # 0

ClustersOwned ==
  /\ \A c \in Clusters :
       ~diskTable[c] => \E pd \in PageDescr : OnDisk(pd) /\ pmt[pd].disk = c
  /\ \A pd \in PageDescr : OnDisk(pd) => ~diskTable[pmt[pd].disk]
  /\ \A pd, other \in PageDescr :
       OnDisk(pd) /\ OnDisk(other) /\ pmt[pd].disk = pmt[other].disk =>
         pd = other

\* "Disk full" ends the program only when every frame and every usable cluster
\* really holds a page.
InitialisedPages == {pd \in PageDescr : pmt[pd].init}

DiskFullIsReal ==
  exited = "disk full" =>
    Cardinality(InitialisedPages) >= processVMSpaceSize + numOfClusters - 1

\* The frames in use are queued once each, so a full round of replacements
\* visits every frame.
QueuedOnce ==
  /\ Len(fifoQueue) = Cardinality(Frames \ FreeFrames)
  /\ Queued = Frames \ FreeFrames

\* A page leaves memory only when every frame is taken.
NeverPagedOutEarly ==
  (\E pd \in PageDescr : Mapped(pd) /\ ~pmt[pd].valid) => FreeFrames = {}

\* An access is never answered OK and then refused: the program is not stopped
\* by the assert after a served fault, nor by an address that no longer
\* translates (SystemTest.cpp:31, KernelProcess.cpp:497).
FaultServedOnce ==
  /\ exited # "assert"
  /\ instruction.pc = "translate" => Translatable(Descr(instruction))

\* Code stays what the program file gave for it: from the moment loadSegment has
\* filled a page mapped EXECUTE, its contents - in its frame, in its cluster, at
\* its source address, also while a fault brings it back - are those of its place
\* in the file, whatever the other pages of this and other processes store.
CodeIsAsLoaded ==
  \A pd \in PageDescr :
    lastWritten[pd] # nullptr /\ pmt[pd].rwe = "EXECUTE" =>
      ContentsOf(pd) = Image[pd[2]]

-----------------------------------------------------------------------------
(* What comments of the source say and the code does not do *)

\* deleteSegment deletes the segment: no page stays initialised after the
\* program's segment is gone (KernelProcess.cpp:353 says that the loop counter
\* "is initialized inside loop from descriptor->numOfPages").
WholeSegmentDeleted ==
  \A pd \in PageDescr :
    lastWritten[pd] = nullptr /\ Mapped(pd) =>
      segment.pc = "fill" /\ pd = Descr(segment)

\* Replacement takes the page that was loaded longest ago: a page that has just
\* been loaded is not the next to go while there are others (KernelSystem.cpp:
\* 183, "to keep track of oldest page loaded into memory").
NewestNotNext ==
  [][\A f \in Frames :
       /\ pmtTable'[f].pageDescr \notin {nullptr, pmtTable[f].pageDescr}
       /\ \E other \in Frames \ {f} : ~pmtTable[other].free
       => Head(fifoQueue') # f]_vars

\* A segment is refused for want of space only when some entry is taken: the
\* empty address space has room anywhere for the sizes asked for, all 2^7
\* directory entries being usable (KernelProcess.cpp:10, VA(7:7:10)).
NoSpaceIsReal == exited = "no space" => InitialisedPages # {}

-----------------------------------------------------------------------------
(* What serial programs see *)

\* A paged memory is a memory: every fetch returns what was last written.
Memory ==
  INSTANCE PagedMemory WITH
    Addresses <- PageDescr,
    store <- lastWritten,
    reply <- IF instruction.pc = "check"
             THEN <<Descr(instruction), instruction.val>> ELSE nullptr

ActsAsMemory == Memory!Spec

\* The pages in memory, longest resident first: what replacePage maintains.
Resident ==
  [i \in DOMAIN fifoQueue |-> pmtTable[fifoQueue[i]].pageDescr]

Replacement ==
  INSTANCE FifoReplacement WITH
    Page <- PageDescr, Capacity <- processVMSpaceSize, resident <- Resident

ReplacesOldest == Replacement!Spec
=============================================================================
