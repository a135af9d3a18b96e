---------------------------- MODULE MemoryProofs ----------------------------
(***************************************************************************)
(* Proofs about serial programs (SerialSpec of module SystemTest): a valid *)
(* page is in the frame its descriptor names, paging loses nothing,        *)
(* clusters are owned by one page each, and the programs see a memory      *)
(* (PagedMemory), however many processes compete for however few frames    *)
(* and clusters.  Then proofs about serial programs that clone a process   *)
(* (CloneSpec and LastCloneSpec of CloneProcess): what a clone has is what *)
(* its parent has.                                                         *)
(***************************************************************************)
EXTENDS CloneProcess, SystemTestProofs

-----------------------------------------------------------------------------
(* Residency *)

\* What serial programs do, any program may do.
LEMMA SerialStep == [SerialNext]_vars => [Next]_vars
  <1>1. GrowingCall => AnyCall
    BY DEF GrowingCall, AnyCall
  <1> QED
    BY <1>1 DEF SerialNext, Next

\* A serial program is one of the programs TypeInv is about.
LEMMA SerialTypeInv == SerialSpec => []TypeInv
  BY InitTypeInv, NextTypeInv, SerialStep, PTL DEF SerialSpec

\* The frame handed out is registered for the page that asked for it, and the
\* page it held before is no longer valid.
LEMMA GetFreeFrameResident ==
  ASSUME KernelTypeOK, NEW pd \in PageDescr, NEW f \in Frames,
         NEW descriptors \in [PageDescr -> PageDescriptor],
         getFreeFrame(pd, descriptors, f)
  PROVE  /\ HeldBy(f, pd)'
         /\ \A g \in Frames \ {f} : pmtTable'[g] = pmtTable[g]
         /\ \A x \in PageDescr :
              /\ pmt'[x].init = descriptors[x].init
              /\ pmt'[x].block = descriptors[x].block
              /\ pmt'[x].valid => descriptors[x].valid /\ ~HeldBy(f, x)
  <1>0. pmtTable \in [Frames -> SysPageDescriptor]
    BY DEF KernelTypeOK
  <1>1. CASE takeFreeFrame(pd, descriptors, f)
    <2>1. pmtTable[f].free /\ pmt' = descriptors
      BY <1>1 DEF takeFreeFrame, FreeFrames
    <2>2. pmtTable' = [pmtTable EXCEPT ![f] = [free |-> FALSE, pageDescr |-> pd]]
      BY <1>1 DEF takeFreeFrame
    <2> QED
      BY <1>0, <2>1, <2>2 DEF HeldBy
  <1>2. CASE FreeFrames = {} /\ replacePage(pd, descriptors, f)
    <2>1. Victim = pmtTable[f].pageDescr
      BY <1>2 DEF replacePage, Victim
    <2>2. /\ pmtTable' = [pmtTable EXCEPT ![f].pageDescr = pd]
          /\ \E c : pmt' = PutOut(descriptors, Victim, c)
      BY <1>2 DEF replacePage, pageOut
    <2>3. ~pmtTable[f].free /\ pmtTable[f] \in SysPageDescriptor
      BY <1>0, <1>2 DEF FreeFrames
    <2>5. /\ HeldBy(f, pd)'
          /\ \A g \in Frames \ {f} : pmtTable'[g] = pmtTable[g]
      BY <1>0, <2>2, <2>3 DEF HeldBy, SysPageDescriptor
    <2>6. \A x \in PageDescr :
            /\ pmt'[x].init = descriptors[x].init
            /\ pmt'[x].block = descriptors[x].block
            /\ pmt'[x].valid => descriptors[x].valid /\ x # pmtTable[f].pageDescr
      BY <2>1, <2>2 DEF PutOut, PageDescriptor
    <2> QED
      BY <2>5, <2>6 DEF HeldBy
  <1> QED
    BY <1>1, <1>2 DEF getFreeFrame

-----------------------------------------------------------------------------
(* ResidencyInv is inductive: one lemma per kind of step *)

\* A step that moves no page: the fields it depends on stay.
LEMMA ResidencyKept ==
  ASSUME ResidencyInv, UNCHANGED <<pmtTable, fault, segment>>, OneAtATime',
         \A x \in PageDescr : /\ pmt'[x].init = pmt[x].init
                              /\ pmt'[x].valid = pmt[x].valid
                              /\ pmt'[x].block = pmt[x].block,
         instruction'.pc = "fault" => ~pmt'[Descr(instruction')].valid
  PROVE  ResidencyInv'
  BY DEF ResidencyInv, HeldBy, InTransit, Descr

\* A call gets a frame for page pd and has it in transit from then on.
LEMMA FrameTaken ==
  ASSUME TypeInv, ResidencyInv, segment.pc # "fill", fault = Idle,
         NEW pd \in PageDescr, NEW f \in Frames,
         NEW descriptors \in [PageDescr -> PageDescriptor],
         getFreeFrame(pd, descriptors, f),
         \A x \in PageDescr \ {pd} : descriptors[x] = pmt[x]
  PROVE  /\ HeldBy(f, pd)'
         /\ \A x \in PageDescr \ {pd} :
              pmt'[x].init /\ pmt'[x].valid => HeldBy(pmt[x].block, x)'
  <1>1. /\ HeldBy(f, pd)'
        /\ \A g \in Frames \ {f} : pmtTable'[g] = pmtTable[g]
        /\ \A x \in PageDescr :
              /\ pmt'[x].init = descriptors[x].init
              /\ pmt'[x].block = descriptors[x].block
              /\ pmt'[x].valid => descriptors[x].valid /\ ~HeldBy(f, x)
    BY GetFreeFrameResident DEF TypeInv, TypeOK
  <1>2. ASSUME NEW x \in PageDescr \ {pd}, pmt'[x].init, pmt'[x].valid
        PROVE  HeldBy(pmt[x].block, x)'
    <2>1. pmt[x].init /\ pmt[x].valid /\ ~HeldBy(f, x) /\ ~InTransit(x)
      BY <1>1, <1>2 DEF InTransit
    <2>2. HeldBy(pmt[x].block, x) /\ pmt[x].block \in Frames \ {f}
      BY <2>1 DEF ResidencyInv, TypeInv, BlocksAssigned
    <2> QED
      BY <1>1, <2>1, <2>2 DEF HeldBy, GetFreeFrameResident
  <1> QED
    BY <1>1, <1>2

\* The calls that begin leave pages and frames alone.
LEMMA CallsResidency ==
  ASSUME TypeInv, ResidencyInv, Quiet, GrowingCall \/ BeginAny
  PROVE  ResidencyInv'
  <1>1. segment = Idle /\ instruction = Idle /\ fault = Idle
    BY DEF Quiet, ResidencyInv, OneAtATime, Idle
  <1>2. UNCHANGED <<pmtTable, pmt, fault>>
    BY DEF GrowingCall, BeginAny, CreateProcess, createProcess, DestroyProcess,
           removeProcess, CreateSegment, createSegment, LoadSegment,
           loadSegment, StartSegment, Begin, kernelVars, callVars
  <1>3. /\ segment' # Idle => segment'.pc = "alloc"
        /\ segment' # Idle => instruction' = Idle
        /\ instruction'.pc # "fault"
    BY <1>1 DEF GrowingCall, BeginAny, CreateProcess, createProcess, DestroyProcess,
           removeProcess, CreateSegment, createSegment, LoadSegment,
           loadSegment, StartSegment, Begin, callVars, testVars, Idle
  <1>4. segment'.pc # "fill" /\ segment'.pc # "free"
    BY <1>3 DEF Idle
  <1> QED
    BY <1>1, <1>2, <1>3, <1>4 DEF ResidencyInv, OneAtATime, HeldBy, InTransit, Idle

\* A step of a segment call.
LEMMA SegmentStepResidency ==
  ASSUME TypeInv, ResidencyInv, SegmentStep
  PROVE  ResidencyInv'
  <1>0. /\ segment # Idle /\ segment \in SegmentCall /\ Descr(segment) \in PageDescr
        /\ instruction = Idle /\ fault = Idle /\ segment.pc # "free"
    <2>0. segment.pc \in {"alloc", "fill", "free"}
      BY DEF SegmentStep, ClaimPage, AllocPage, AllocPageDiskFull, AddPage,
             FillCreatedPage, FillLoadedPage, RemovePages, FreePage
    <2>1. segment # Idle
      BY <2>0 DEF Idle
    <2>2. instruction = Idle /\ segment.pc # "free" /\ fault = Idle
      BY <2>1 DEF ResidencyInv, OneAtATime, Idle
    <2> QED
      BY <2>1, <2>2 DEF TypeInv, TypeOK, ProcessTypeOK, SegmentCall, Descr, PageDescr
  <1> PICK pd \in PageDescr : pd = Descr(segment)
    BY <1>0
  <1>1. CASE AllocPage /\ UNCHANGED testVars
    <2>1. PICK rights \in AccessType \union {wild}, f \in Frames :
            /\ getFreeFrame(pd, Claimed(rights), f)
            /\ segment' = [segment EXCEPT
                 !.pc = "fill",
                 !.frame = f,
                 !.fresh = \/ ~HasTable(Descr(segment))
                           \/ @ /\ EntryOf(segment.page) # 0]
      BY <1>0, <1>1, FoundRightsType DEF AllocPage, TypeInv, TypeOK
    <2>2. /\ Claimed(rights) \in [PageDescr -> PageDescriptor]
          /\ \A x \in PageDescr \ {pd} : Claimed(rights)[x] = pmt[x]
          /\ Claimed(rights)[pd].block = pmt[pd].block
      BY <1>0, <2>1, ClaimedType DEF TypeInv, TypeOK
    <2>3. /\ HeldBy(f, pd)'
          /\ \A x \in PageDescr \ {pd} :
               pmt'[x].init /\ pmt'[x].valid => HeldBy(pmt[x].block, x)'
          /\ \A x \in PageDescr \ {pd} : pmt'[x].block = pmt[x].block
      <3>1. segment.pc # "fill"
        BY <1>0, <1>1, FoundRightsType DEF AllocPage, TypeInv, TypeOK
      <3>2. \A x \in PageDescr : pmt'[x].block = Claimed(rights)[x].block
        BY <1>0, <2>1, <2>2, GetFreeFrameResident DEF TypeInv, TypeOK
      <3> QED
        BY <1>0, <2>1, <2>2, <3>1, <3>2, FrameTaken
    <2>4. /\ segment'.pc = "fill" /\ segment'.frame = f
          /\ Descr(segment') = pd /\ segment' # Idle
      BY <1>0, <2>1 DEF SegmentCall, Descr, Idle
    <2>5. instruction' = Idle /\ fault' = Idle
      BY <1>0, <1>1 DEF AllocPage, testVars
    <2> QED
      BY <2>3, <2>4, <2>5 DEF ResidencyInv, OneAtATime, InTransit, HeldBy, Idle, Descr
  <1>2. CASE AllocPageDiskFull /\ UNCHANGED testVars
    BY <1>2, ResidencyKept
       DEF AllocPageDiskFull, Exit, callVars, testVars, ResidencyInv, OneAtATime
  <1>3. CASE AddPage
    <2>1. /\ segment.pc = "fill" /\ NextPage
          /\ UNCHANGED <<pmtTable, fault, instruction>>
      BY <1>3 DEF AddPage, FillCreatedPage, FillLoadedPage, Expect
    <2>2. /\ segment'.pc \notin {"fill", "free"}
      BY <1>0, <2>1 DEF NextPage, Idle, SegmentCall
    <2>3. \A x \in PageDescr :
            /\ pmt'[x].init = pmt[x].init
            /\ pmt'[x].valid = pmt[x].valid
            /\ pmt'[x].block = IF x = pd THEN segment.frame ELSE pmt[x].block
      BY <1>0, <1>3, AddedPage DEF TypeInv, TypeOK
    <2>4. \A x \in PageDescr :
            pmt'[x].init /\ pmt'[x].valid => HeldBy(pmt'[x].block, x)
      BY <1>0, <2>1, <2>3 DEF ResidencyInv, InTransit
    <2> QED
      BY <1>0, <2>1, <2>2, <2>4
         DEF ResidencyInv, OneAtATime, InTransit, HeldBy, Idle
  <1>4. CASE RemovePages
    BY <1>0, <1>4 DEF RemovePages, FreePage
  <1> QED
    BY <1>1, <1>2, <1>3, <1>4 DEF SegmentStep, ClaimPage

\* access changes no valid flag and no block.
LEMMA AccessResidency ==
  ASSUME TypeInv, ResidencyInv, Access
  PROVE  ResidencyInv'
  <1>0. instruction.pc \in {"access", "retry"}
    BY DEF Access, At
  <1>1. /\ instruction.pc # "fault" /\ instruction # Idle
        /\ UNCHANGED <<segment, fault, pmtTable>>
    <2>1. instruction.pc # "fault" /\ instruction # Idle
      BY <1>0 DEF Idle
    <2>2. UNCHANGED <<segment, fault>>
      BY DEF Access, callVars
    <2>3. UNCHANGED pmtTable
      BY DEF Access, accessOK, kernelVars, Exit
    <2> QED
      BY <2>1, <2>2, <2>3
  <1>2. segment = Idle /\ fault = Idle
    BY <1>1 DEF ResidencyInv, OneAtATime
  <1>3. OneAtATime'
    BY <1>1, <1>2 DEF OneAtATime
  <1>4. \A x \in PageDescr : /\ pmt'[x].init = pmt[x].init
                             /\ pmt'[x].valid = pmt[x].valid
                             /\ pmt'[x].block = pmt[x].block
    <2>1. CASE accessOK(Descr(instruction), instruction.type)
      BY <2>1 DEF accessOK, TypeInv, TypeOK, KernelTypeOK, PageDescriptor
    <2>2. CASE UNCHANGED pmt
      BY <2>2
    <2> QED
      BY <2>1, <2>2 DEF Access, kernelVars, Exit
  <1>5. ASSUME instruction'.pc = "fault" PROVE ~pmt'[Descr(instruction')].valid
    <2>1. instruction \in Instruction
      BY <1>1 DEF TypeInv, TypeOK
    <2>2. /\ accessStatus(Descr(instruction), instruction.type) = "PAGE_FAULT"
          /\ Goto("fault") /\ UNCHANGED kernelVars
      BY <1>1, <1>5, <2>1 DEF Access, Goto, Instruction
    <2>3. Descr(instruction') = Descr(instruction)
      BY <2>1, <2>2 DEF Goto, Descr, Instruction
    <2> QED
      BY <2>2, <2>3 DEF accessStatus, kernelVars
  <1> QED
    BY <1>1, <1>3, <1>4, <1>5, ResidencyKept

\* The first two phases of pageFault.
LEMMA HandleFaultResidency ==
  ASSUME TypeInv, ResidencyInv, HandleFault
  PROVE  ResidencyInv'
  <1>1. /\ instruction.pc = "fault" /\ instruction \in Instruction
        /\ instruction' = instruction
        /\ Descr(instruction) \in PageDescr
    BY DEF HandleFault, At, testVars, TypeInv, TypeOK, Idle, Instruction, Descr,
           PageDescr
  <1>2. segment = Idle /\ segment.pc # "fill"
    BY <1>1 DEF ResidencyInv, OneAtATime, Idle
  <1> PICK pd \in PageDescr :
        pd = Descr(instruction) /\ pd = <<instruction.p, instruction.page>>
    BY <1>1 DEF Descr
  <1>3. CASE pageFault(instruction.p, instruction.page)
    <2>1. /\ fault = Idle /\ segment' = segment
          /\ ~SegmentHolds(instruction.p)
      BY <1>3 DEF pageFault
    <2>2. PICK f \in Frames :
            /\ getFreeFrame(pd, pmt, f)
            /\ fault' = [pc |-> "copy", p |-> instruction.p,
                         page |-> instruction.page, frame |-> f,
                         from |-> "empty"]
      BY <1>3 DEF pageFault
    <2>3. pmt \in [PageDescr -> PageDescriptor]
      BY DEF TypeInv, TypeOK, KernelTypeOK
    <2>4. /\ HeldBy(f, pd)'
          /\ \A x \in PageDescr \ {pd} :
               pmt'[x].init /\ pmt'[x].valid => HeldBy(pmt[x].block, x)'
      BY <1>2, <2>1, <2>2, <2>3, FrameTaken
    <2>5. \A x \in PageDescr : /\ pmt'[x].block = pmt[x].block
                               /\ pmt'[x].valid => pmt[x].valid
      BY <2>2, <2>3, GetFreeFrameResident DEF TypeInv, TypeOK
    <2>6. Descr(fault') = pd /\ fault'.frame = f /\ fault' # Idle
      BY <2>2 DEF Descr, Idle
    <2>7. ~pmt'[pd].valid
      BY <1>1, <2>5 DEF ResidencyInv
    <2> QED
      BY <1>1, <1>2, <2>1, <2>4, <2>5, <2>6, <2>7
         DEF ResidencyInv, OneAtATime, InTransit, HeldBy, Idle, Descr
  <1>4. CASE CopyIn
    <2>1. /\ fault # Idle /\ fault \in FaultCall
          /\ UNCHANGED <<pmtTable, pmt, segment>>
      BY <1>4 DEF CopyIn, Idle, TypeInv, TypeOK, ProcessTypeOK
    <2>2. /\ fault' # Idle /\ fault'.frame = fault.frame
          /\ Descr(fault') = Descr(fault)
      BY <1>4, <2>1 DEF CopyIn, FaultCall, Descr, Idle
    <2> QED
      BY <1>1, <1>2, <2>1, <2>2
         DEF ResidencyInv, OneAtATime, InTransit, HeldBy, Idle
  <1>5. CASE pageFaultRefused(instruction.p, instruction.page) \/ CopyInCrash
    BY <1>1, <1>5, ResidencyKept
       DEF pageFaultRefused, CopyInCrash, Exit, callVars, ResidencyInv, OneAtATime
  <1> QED
    BY <1>3, <1>4, <1>5 DEF HandleFault

\* The page becomes valid in the frame that is registered for it.
LEMMA FaultServedResidency ==
  ASSUME TypeInv, ResidencyInv, FaultServed
  PROVE  ResidencyInv'
  <1>1. /\ fault # Idle /\ Descr(fault) \in PageDescr
        /\ fault' = Idle /\ UNCHANGED <<pmtTable, segment>>
    BY DEF FaultServed, Validate, Idle, TypeInv, TypeOK, ProcessTypeOK,
           FaultCall, Descr, PageDescr
  <1>2. instruction # Idle /\ instruction'.pc = "retry" /\ segment = Idle
    BY <1>1 DEF FaultServed, At, Idle, Goto, ResidencyInv, OneAtATime, TypeInv,
                TypeOK, Instruction
  <1>3. \A x \in PageDescr :
          IF x = Descr(fault) THEN pmt'[x].block = fault.frame
          ELSE pmt'[x] = pmt[x]
    BY <1>1 DEF FaultServed, Validate, Validated, TypeInv, TypeOK, KernelTypeOK,
                PageDescriptor
  <1>4. \A x \in PageDescr :
          pmt'[x].init /\ pmt'[x].valid => HeldBy(pmt'[x].block, x)
    BY <1>1, <1>2, <1>3 DEF ResidencyInv, InTransit, Idle
  <1> QED
    BY <1>1, <1>2, <1>4 DEF ResidencyInv, OneAtATime, HeldBy, InTransit, Idle

\* Every step keeps ResidencyInv.
LEMMA SerialResidency ==
  TypeInv /\ ResidencyInv /\ [SerialNext]_vars => ResidencyInv'
  <1> SUFFICES ASSUME TypeInv, ResidencyInv, [SerialNext]_vars
               PROVE  ResidencyInv'
    OBVIOUS
  <1>1. CASE Translate \/ Store \/ Fetch \/ CheckValue
    <2>0. instruction.pc \in {"translate", "touch", "check"}
      BY <1>1 DEF Translate, Store, Fetch, CheckValue, At
    <2>1. instruction # Idle /\ instruction.pc # "fault"
      BY <2>0 DEF Idle
    <2>2. UNCHANGED <<pmtTable, pmt, segment, fault>>
      BY <1>1 DEF Translate, Store, Fetch, CheckValue, Exit, kernelVars,
                  callVars
    <2>3. segment = Idle /\ fault = Idle
      BY <2>1 DEF ResidencyInv, OneAtATime
    <2>4. instruction \in Instruction
      BY <2>1 DEF TypeInv, TypeOK
    <2>5. instruction'.pc # "fault"
      <3>1. Translate => instruction'.pc # "fault"
        BY <2>1, <2>4 DEF Translate, Instruction
      <3>2. Fetch => instruction'.pc # "fault"
        BY <2>4 DEF Fetch, Instruction
      <3>3. Store \/ CheckValue => instruction'.pc # "fault"
        BY DEF Store, CheckValue, Idle
      <3> QED
        BY <1>1, <3>1, <3>2, <3>3
    <2> QED
      BY <2>2, <2>3, <2>5, ResidencyKept DEF OneAtATime
  <1>2. CASE UNCHANGED vars
    BY <1>2, ResidencyKept DEF vars, kernelVars, callVars, ResidencyInv, OneAtATime
  <1> QED
    BY <1>1, <1>2, CallsResidency, SegmentStepResidency, AccessResidency,
       HandleFaultResidency, FaultServedResidency
       DEF SerialNext, InstructionStep, Over

\* The invariant that carries the proof: one call at a time, pages in transit
\* and valid pages registered in the frame table, the page a fault brings in
\* invalid until it is there.
THEOREM SerialResidencyInv == SerialSpec => [](TypeInv /\ ResidencyInv)
  <1>1. Init => ResidencyInv
    BY DEF Init, KernelInit, ProcessInit, ResidencyInv, OneAtATime, InTransit,
           FreshEntry, Idle
  <1> QED
    BY <1>1, SerialTypeInv, SerialResidency, PTL DEF SerialSpec

-----------------------------------------------------------------------------
(* The inductive invariant, next to TypeInv, ResidencyInv and GrowingInv *)

\* What doInstruction may rely on, from the access that answered OK to the
\* memory reference.
InstructionInv ==
  LET pd == Descr(instruction)
  IN  /\ instruction # Idle /\ instruction.type = "WRITE" =>
           instruction.val \in Values
      /\ instruction.pc \in {"retry", "translate", "touch"} =>
           pmt[pd].init /\ pmt[pd].valid
      /\ instruction.pc \in {"translate", "touch"} =>
           /\ Permits(pmt[pd].rwe, instruction.type)
           /\ instruction.type = "WRITE" => pmt[pd].dirty
      /\ instruction.pc = "touch" => instruction.frame = pmt[pd].block

\* A program loads a segment only into an empty process, so every table a load
\* meets was opened by this very load: the source address of a page goes to the
\* entry of that page.
LoadInv ==
  segment # Idle /\ segment.op = "loadSegment" =>
    /\ segment.pc = "alloc" =>
         \A d \in pageDirectory[segment.p] :
           \/ d < DirOf(segment.page)
           \/ /\ d = DirOf(segment.page)
              /\ EntryOf(segment.page) # 0 /\ segment.fresh
    /\ segment.pc = "fill" =>
         /\ segment.fresh
         /\ \A d \in pageDirectory[segment.p] : d <= DirOf(segment.page)

\* A cluster is named by a page that is out of memory, and by no other.
DiskInv ==
  /\ \A pd \in PageDescr : pmt[pd].disk # 0 =>
       pmt[pd].init /\ ~pmt[pd].valid /\ ~diskTable[pmt[pd].disk]
  /\ \A pd, other \in PageDescr :
       pmt[pd].disk # 0 /\ pmt[pd].disk = pmt[other].disk => pd = other
  /\ \A c \in Clusters : ~diskTable[c] =>
       c # 0 /\ \E pd \in PageDescr : pmt[pd].disk = c
  /\ fault.pc = "validate" =>
       (fault.from = "disk" <=> pmt[Descr(fault)].disk # 0)

BeingFilled(pd) == segment.pc = "fill" /\ pd = Descr(segment)

\* What is in memory is what was written; so is what is out of memory; a page
\* that is not dirty has it at its source as well.
ContentsInv ==
  /\ \A pd \in PageDescr :
       lastWritten[pd] # nullptr <=> pmt[pd].init /\ ~BeingFilled(pd)
  /\ \A pd \in PageDescr : lastWritten[pd] \in Values =>
       /\ ContentsOf(pd) = lastWritten[pd]
       /\ pmt[pd].valid /\ ~pmt[pd].dirty =>
            pmt[pd].sourceAddress = lastWritten[pd]
  /\ fault.pc = "validate" /\ lastWritten[Descr(fault)] \in Values =>
       /\ memory[fault.frame] = lastWritten[Descr(fault)]
       /\ fault.from # "empty"

MemoryInv == InstructionInv /\ LoadInv /\ DiskInv /\ ContentsInv

SerialInv ==
  TypeInv /\ VictimIsReal /\ ResidencyInv /\ GrowingInv /\ MemoryInv

-----------------------------------------------------------------------------
(* Lemmas *)

\* The page after the last of a table is the first of a later table.
LEMMA EntryAfter ==
  ASSUME NEW page \in Nat
  PROVE  /\ DirOf(page) \in Nat /\ DirOf(page + 1) \in Nat
         /\ EntryOf(page + 1) = 0 => DirOf(page) < DirOf(page + 1)
         /\ EntryOf(page + 1) # 0 => DirOf(page + 1) = DirOf(page)
  <1>1. PICK m \in Nat \ {0} : m = MAX_PMT_ENTRIES
    BY SizeAssumption
  <1>2. PICK q \in Nat, r \in 0 .. m - 1 :
          q = page \div m /\ r = page % m /\ page = q * m + r
    BY <1>1
  <1>3. PICK s \in Nat, u \in 0 .. m - 1 :
          /\ s = (page + 1) \div m /\ u = (page + 1) % m
          /\ page + 1 = s * m + u
    BY <1>1
  <1>4. s * m + u = q * m + r + 1
    BY <1>2, <1>3
  <1>5. \A a, b \in Nat : a < b => a * m + m <= b * m
    <2> SUFFICES ASSUME NEW a \in Nat, NEW b \in Nat, a < b
                 PROVE  a * m + m <= b * m
      OBVIOUS
    <2>1. PICK d \in Nat : b = a + 1 + d
      <3>1. b - a - 1 \in Nat /\ b = a + 1 + (b - a - 1)
        OBVIOUS
      <3> QED
        BY <3>1
    <2>2. b * m = a * m + m + d * m /\ d * m \in Nat
      BY <1>1, <2>1
    <2>3. a * m \in Nat
      BY <1>1
    <2> QED
      BY <1>1, <2>2, <2>3
  <1>6. /\ q * m \in Nat /\ s * m \in Nat
        /\ s < q => s * m + m <= q * m
        /\ q < s => q * m + m <= s * m
    BY <1>1, <1>5
  <1>7. PICK x \in Nat, y \in Nat : x = q * m /\ y = s * m
    BY <1>6
  <1>8. ~(s < q)
    <2> SUFFICES ASSUME s < q PROVE FALSE
      OBVIOUS
    <2>1. y + u = x + r + 1 /\ y + m <= x
      BY <1>4, <1>6, <1>7
    <2> QED
      BY <1>1, <1>2, <1>3, <1>7, <2>1
  <1>9. u # 0 => ~(q < s)
    <2> SUFFICES ASSUME u # 0, q < s PROVE FALSE
      OBVIOUS
    <2>1. y + u = x + r + 1 /\ x + m <= y
      BY <1>4, <1>6, <1>7
    <2> QED
      BY <1>1, <1>2, <1>3, <1>7, <2>1
  <1>10. u = 0 => s # q
    <2> SUFFICES ASSUME u = 0, s = q PROVE FALSE
      OBVIOUS
    <2>1. x + u = x + r + 1
      BY <1>4, <1>7
    <2> QED
      BY <1>2, <1>7, <2>1
  <1> QED
    BY <1>1, <1>2, <1>3, <1>8, <1>9, <1>10 DEF DirOf, EntryOf

\* What putting a page out changes.
LEMMA PutOutFields ==
  ASSUME NEW descriptors \in [PageDescr -> PageDescriptor],
         NEW victim \in PageDescr, NEW c, NEW x \in PageDescr
  PROVE  LET y == PutOut(descriptors, victim, c)[x]
         IN  /\ y.init = descriptors[x].init
             /\ y.valid = (descriptors[x].valid /\ x # victim)
             /\ y.dirty = descriptors[x].dirty
             /\ y.block = descriptors[x].block
             /\ y.sourceAddress = descriptors[x].sourceAddress
             /\ y.disk = IF x = victim THEN c ELSE descriptors[x].disk
  <1> PICK entry : entry = descriptors[x] /\ entry \in PageDescriptor
    OBVIOUS
  <1>1. PutOut(descriptors, victim, c)[x] =
          IF x = victim THEN [entry EXCEPT !.valid = FALSE, !.disk = c] ELSE entry
    BY DEF PutOut
  <1>2. CASE x = victim
    BY <1>1, <1>2 DEF PageDescriptor
  <1>3. CASE x # victim
    BY <1>1, <1>3 DEF PageDescriptor
  <1> QED
    BY <1>2, <1>3

\* The three ways a frame is had: it was free, its page goes to a cluster, its
\* page is dropped.
LEMMA FrameCases ==
  ASSUME KernelTypeOK, VictimIsReal, NEW pd \in PageDescr, NEW f \in Frames,
         NEW descriptors \in [PageDescr -> PageDescriptor],
         getFreeFrame(pd, descriptors, f)
  PROVE  \/ /\ pmt' = descriptors /\ UNCHANGED <<diskTable, partition>>
            /\ \A x \in PageDescr : ~HeldBy(f, x)
         \/ \E v \in PageDescr, c \in Clusters :
              /\ \A x \in PageDescr : HeldBy(f, x) <=> x = v
              /\ pmt' = PutOut(descriptors, v, c)
              /\ \/ /\ descriptors[v].dirty /\ c # 0 /\ diskTable[c]
                    /\ diskTable' = [diskTable EXCEPT ![c] = FALSE]
                    /\ partition' = [partition EXCEPT ![c] = memory[f]]
                 \/ /\ ~descriptors[v].dirty /\ c = 0
                    /\ UNCHANGED <<diskTable, partition>>
  <1>1. CASE takeFreeFrame(pd, descriptors, f)
    BY <1>1 DEF takeFreeFrame, HeldBy, FreeFrames
  <1>2. CASE FreeFrames = {} /\ replacePage(pd, descriptors, f)
    <2>1. Victim = pmtTable[f].pageDescr /\ pageOut(Victim, descriptors, f)
      BY <1>2 DEF replacePage, Victim
    <2>2. ~pmtTable[f].free /\ Victim \in PageDescr
      BY <1>2, <2>1 DEF FreeFrames, VictimIsReal, KernelTypeOK, SysPageDescriptor
    <2>3. PICK v \in PageDescr : v = Victim
      BY <2>2
    <2>4. \A x \in PageDescr : HeldBy(f, x) <=> x = v
      BY <2>1, <2>2, <2>3 DEF HeldBy
    <2>5. 0 \in Clusters
      BY SizeAssumption DEF Clusters
    <2> QED
      BY <2>1, <2>3, <2>4, <2>5 DEF pageOut, getFreeCluster, FreeClusters
  <1> QED
    BY <1>1, <1>2 DEF getFreeFrame

\* Paging out loses nothing: the victim's contents are in its cluster or at its
\* source, the page that gets the frame and the others are as they were.
LEMMA FrameTakenMemory ==
  ASSUME SerialInv, fault = Idle, segment.pc # "fill", NEW pd \in PageDescr,
         NEW f \in Frames, NEW descriptors \in [PageDescr -> PageDescriptor],
         getFreeFrame(pd, descriptors, f),
         \A x \in PageDescr \ {pd} : descriptors[x] = pmt[x],
         \A g \in Frames : ~HeldBy(g, pd),
         descriptors[pd].disk = pmt[pd].disk, descriptors[pd].init,
         descriptors[pd].disk # 0 => descriptors[pd] = pmt[pd]
  PROVE  /\ \A x \in PageDescr : pmt'[x].disk # 0 =>
              pmt'[x].init /\ ~pmt'[x].valid /\ ~diskTable'[pmt'[x].disk]
         /\ \A x, other \in PageDescr :
              pmt'[x].disk # 0 /\ pmt'[x].disk = pmt'[other].disk => x = other
         /\ \A c \in Clusters : ~diskTable'[c] =>
              c # 0 /\ \E x \in PageDescr : pmt'[x].disk = c
         /\ \A x \in PageDescr \ {pd} : lastWritten[x] \in Values =>
              /\ ContentsOf(x)' = lastWritten[x]
              /\ pmt'[x].valid /\ ~pmt'[x].dirty =>
                   pmt'[x].sourceAddress = lastWritten[x]
         /\ pmt'[pd].disk = pmt[pd].disk
         /\ pmt'[pd].sourceAddress = descriptors[pd].sourceAddress
         /\ pmt'[pd].valid = descriptors[pd].valid
         /\ pmt[pd].disk # 0 => partition'[pmt[pd].disk] = partition[pmt[pd].disk]
         /\ \A x \in PageDescr : pmt'[x].init = descriptors[x].init
  <1> USE DEF SerialInv, MemoryInv
  <1>1. /\ \A x \in PageDescr : pmt[x].disk # 0 =>
             pmt[x].init /\ ~pmt[x].valid /\ ~diskTable[pmt[x].disk]
        /\ \A x, other \in PageDescr :
             pmt[x].disk # 0 /\ pmt[x].disk = pmt[other].disk => x = other
        /\ \A c \in Clusters : ~diskTable[c] =>
             c # 0 /\ \E x \in PageDescr : pmt[x].disk = c
    BY DEF DiskInv
  <1>2. \A x \in PageDescr : lastWritten[x] \in Values =>
          /\ pmt[x].valid => memory[pmt[x].block] = lastWritten[x]
          /\ ~pmt[x].valid /\ pmt[x].disk # 0 =>
               partition[pmt[x].disk] = lastWritten[x]
          /\ ~pmt[x].valid /\ pmt[x].disk = 0 =>
               pmt[x].sourceAddress = lastWritten[x]
          /\ pmt[x].valid /\ ~pmt[x].dirty =>
               pmt[x].sourceAddress = lastWritten[x]
    BY DEF ContentsInv, ContentsOf
  <1>3. /\ memory' = memory
        /\ diskTable \in [Clusters -> BOOLEAN]
        /\ partition \in [Clusters -> Contents]
        /\ pmt \in [PageDescr -> PageDescriptor]
        /\ \A x \in PageDescr : pmt[x].disk \in Clusters
    BY DEF getFreeFrame, TypeInv, TypeOK, KernelTypeOK, PageDescriptor
  <1>4. CASE /\ pmt' = descriptors /\ UNCHANGED <<diskTable, partition>>
    <2>1. \A x \in PageDescr \ {pd} : pmt'[x] = pmt[x]
      BY <1>4
    <2>2. \A x \in PageDescr : pmt'[x].disk = pmt[x].disk
      BY <1>4
    <2>3. \A x \in PageDescr : pmt'[x].disk # 0 => pmt'[x] = pmt[x]
      BY <1>4
    <2>4. \A x \in PageDescr \ {pd} : ContentsOf(x)' = ContentsOf(x)
      BY <1>3, <1>4, <2>1 DEF ContentsOf
    <2> QED
      BY <1>1, <1>2, <1>4, <2>1, <2>2, <2>3, <2>4 DEF ContentsInv
  <1>5. ASSUME NEW v \in PageDescr, NEW c \in Clusters,
               \A x \in PageDescr : HeldBy(f, x) <=> x = v,
               pmt' = PutOut(descriptors, v, c),
               \/ /\ descriptors[v].dirty /\ c # 0 /\ diskTable[c]
                  /\ diskTable' = [diskTable EXCEPT ![c] = FALSE]
                  /\ partition' = [partition EXCEPT ![c] = memory[f]]
               \/ /\ ~descriptors[v].dirty /\ c = 0
                  /\ UNCHANGED <<diskTable, partition>>
        PROVE  /\ \A x \in PageDescr : pmt'[x].disk # 0 =>
                    pmt'[x].init /\ ~pmt'[x].valid /\ ~diskTable'[pmt'[x].disk]
               /\ \A x, other \in PageDescr :
                    pmt'[x].disk # 0 /\ pmt'[x].disk = pmt'[other].disk => x = other
               /\ \A k \in Clusters : ~diskTable'[k] =>
                    k # 0 /\ \E x \in PageDescr : pmt'[x].disk = k
               /\ \A x \in PageDescr \ {pd} : lastWritten[x] \in Values =>
                    /\ ContentsOf(x)' = lastWritten[x]
                    /\ pmt'[x].valid /\ ~pmt'[x].dirty =>
                         pmt'[x].sourceAddress = lastWritten[x]
               /\ pmt'[pd].disk = pmt[pd].disk
               /\ pmt'[pd].sourceAddress = descriptors[pd].sourceAddress
               /\ pmt'[pd].valid = descriptors[pd].valid
               /\ pmt[pd].disk # 0 => partition'[pmt[pd].disk] = partition[pmt[pd].disk]
               /\ \A x \in PageDescr : pmt'[x].init = descriptors[x].init
    <2>1. \A x \in PageDescr :
            /\ pmt'[x].init = descriptors[x].init
            /\ pmt'[x].valid = (descriptors[x].valid /\ x # v)
            /\ pmt'[x].dirty = descriptors[x].dirty
            /\ pmt'[x].block = descriptors[x].block
            /\ pmt'[x].sourceAddress = descriptors[x].sourceAddress
            /\ pmt'[x].disk = IF x = v THEN c ELSE descriptors[x].disk
      BY <1>5, PutOutFields
    <2>2. HeldBy(f, v) /\ v # pd /\ descriptors[v] = pmt[v]
      BY <1>5
    <2>3. pmt[v].init /\ pmt[v].valid /\ pmt[v].disk = 0
      BY <1>1, <2>2 DEF GrowingInv, HoldersInv
    <2>4. pmt[v].block = f
      <3>1. ~InTransit(v)
        BY DEF InTransit
      <3>2. HeldBy(pmt[v].block, v) /\ pmt[v].block \in Frames
        BY <2>3, <3>1 DEF ResidencyInv, TypeInv, BlocksAssigned
      <3> QED
        BY <2>2, <3>2 DEF GrowingInv, HoldersInv
    <2>5. \A x \in PageDescr : pmt[x].disk # 0 =>
            pmt[x].disk # c /\ partition'[pmt[x].disk] = partition[pmt[x].disk]
      BY <1>1, <1>3, <1>5
    <2>6. \A k \in Clusters : ~diskTable'[k] <=> ~diskTable[k] \/ (c # 0 /\ k = c)
      BY <1>1, <1>3, <1>5
    <2>7. \A x \in PageDescr : pmt'[x].disk = IF x = v THEN c ELSE pmt[x].disk
      BY <2>1, <2>2
    <2>8. ASSUME NEW x \in PageDescr, pmt'[x].disk # 0
          PROVE  pmt'[x].init /\ ~pmt'[x].valid /\ ~diskTable'[pmt'[x].disk]
      <3>1. CASE x = v
        BY <2>1, <2>2, <2>3, <2>6, <2>7, <2>8, <3>1, ZenonT(60)
      <3>2. CASE x # v
        <4>1. pmt[x].disk # 0 /\ descriptors[x] = pmt[x]
          BY <2>7, <2>8, <3>2
        <4> QED
          BY <1>1, <1>3, <2>1, <2>6, <2>7, <3>2, <4>1
      <3> QED
        BY <3>1, <3>2
    <2>9. ASSUME NEW x \in PageDescr, NEW other \in PageDescr,
                 pmt'[x].disk # 0, pmt'[x].disk = pmt'[other].disk
          PROVE  x = other
      BY <1>1, <2>5, <2>7, <2>9
    <2>10. ASSUME NEW k \in Clusters, ~diskTable'[k]
           PROVE  k # 0 /\ \E x \in PageDescr : pmt'[x].disk = k
      <3>1. CASE c # 0 /\ k = c
        BY <2>7, <3>1
      <3>2. CASE ~diskTable[k]
        <4>1. PICK x \in PageDescr : pmt[x].disk = k /\ k # 0
          BY <1>1, <3>2
        <4>2. x # v
          BY <2>3, <4>1
        <4> QED
          BY <2>7, <4>1, <4>2
      <3> QED
        BY <2>6, <2>10, <3>1, <3>2
    <2>11. ASSUME NEW x \in PageDescr \ {pd}, lastWritten[x] \in Values
           PROVE  /\ ContentsOf(x)' = lastWritten[x]
                  /\ pmt'[x].valid /\ ~pmt'[x].dirty =>
                       pmt'[x].sourceAddress = lastWritten[x]
      <3>0. /\ ContentsOf(x)' = IF pmt'[x].valid THEN memory[pmt'[x].block]
              ELSE IF pmt'[x].disk # 0 THEN partition'[pmt'[x].disk]
              ELSE pmt'[x].sourceAddress
            /\ descriptors[x] = pmt[x]
        BY <1>3 DEF ContentsOf
      <3>1. CASE x = v
        <4>1. c # 0 => partition'[c] = memory[f]
          BY <1>3, <1>5
        <4>2. c = 0 => ~pmt[v].dirty
          BY <1>5, <2>2
        <4> QED
          <5>1. pmt'[x].disk = c /\ ~pmt'[x].valid
            BY <2>1, <2>7, <3>1
          <5>2. pmt'[x].sourceAddress = pmt[x].sourceAddress
            BY <2>1, <3>0
          <5>3. /\ memory[f] = lastWritten[x]
                /\ ~pmt[v].dirty => pmt[v].sourceAddress = lastWritten[x]
            BY <1>2, <2>3, <2>4, <2>11, <3>1
          <5> QED
            BY <3>0, <3>1, <4>1, <4>2, <5>1, <5>2, <5>3
      <3>2. CASE x # v
        <4>0. pmt[x].valid \in BOOLEAN /\ pmt[x].dirty \in BOOLEAN
          BY <1>3 DEF PageDescriptor
        <4>1. /\ pmt'[x].valid = pmt[x].valid /\ pmt'[x].dirty = pmt[x].dirty
              /\ pmt'[x].block = pmt[x].block
              /\ pmt'[x].sourceAddress = pmt[x].sourceAddress
              /\ pmt'[x].disk = pmt[x].disk
          BY <2>1, <2>7, <3>0, <3>2, <4>0
        <4>2. pmt[x].disk # 0 => partition'[pmt[x].disk] = partition[pmt[x].disk]
          BY <2>5
        <4> QED
          BY <1>2, <2>11, <3>0, <4>1, <4>2
      <3> QED
        BY <3>1, <3>2
    <2>12. /\ pmt'[pd].disk = pmt[pd].disk
           /\ pmt'[pd].sourceAddress = descriptors[pd].sourceAddress
           /\ pmt'[pd].valid = descriptors[pd].valid
           /\ pmt[pd].disk # 0 => partition'[pmt[pd].disk] = partition[pmt[pd].disk]
           /\ \A x \in PageDescr : pmt'[x].init = descriptors[x].init
      <3>1. descriptors[pd].valid \in BOOLEAN
        BY DEF PageDescriptor
      <3> QED
        BY <2>1, <2>2, <2>5, <2>7, <3>1
    <2> QED
      BY <2>8, <2>9, <2>10, <2>11, <2>12
  <1> QED
    BY <1>4, <1>5, FrameCases DEF TypeInv, TypeOK

-----------------------------------------------------------------------------
(* MemoryInv is inductive: one lemma per kind of step *)

\* Nothing but the instruction, the segment call or the list of processes
\* changes.
LEMMA ContentsKept ==
  ASSUME DiskInv, ContentsInv,
         UNCHANGED <<pmt, diskTable, partition, memory, fault, lastWritten>>,
         \A pd \in PageDescr : BeingFilled(pd)' <=> BeingFilled(pd)
  PROVE  DiskInv' /\ ContentsInv'
  <1>1. DiskInv'
    BY DEF DiskInv, Descr
  <1>2. \A pd \in PageDescr : ContentsOf(pd)' = ContentsOf(pd)
    BY DEF ContentsOf
  <1>3. Descr(fault') = Descr(fault)
    BY DEF Descr
  <1>4. \A pd \in PageDescr :
          lastWritten'[pd] # nullptr <=> pmt'[pd].init /\ ~BeingFilled(pd)'
    BY DEF ContentsInv
  <1>5. \A pd \in PageDescr : lastWritten'[pd] \in Values =>
          /\ ContentsOf(pd)' = lastWritten'[pd]
          /\ pmt'[pd].valid /\ ~pmt'[pd].dirty =>
               pmt'[pd].sourceAddress = lastWritten'[pd]
    BY <1>2 DEF ContentsInv
  <1>6. fault'.pc = "validate" /\ lastWritten'[Descr(fault')] \in Values =>
          /\ memory'[fault'.frame] = lastWritten'[Descr(fault')]
          /\ fault'.from # "empty"
    BY <1>3 DEF ContentsInv
  <1> QED
    BY <1>1, <1>4, <1>5, <1>6 DEF ContentsInv

\* At rest in between: what a step of a segment call or an instruction finds.
LEMMA SegmentAlone ==
  ASSUME SerialInv, SegmentStep
  PROVE  /\ segment \in SegmentCall /\ segment # Idle
         /\ Descr(segment) \in PageDescr
         /\ segment.pc \in {"alloc", "fill"}
         /\ instruction = Idle /\ fault = Idle
  <1>1. segment.pc \in {"alloc", "fill", "free"}
    BY DEF SegmentStep, ClaimPage, AllocPage, AllocPageDiskFull, AddPage,
           FillCreatedPage, FillLoadedPage, RemovePages, FreePage
  <1>2. segment # Idle
    BY <1>1 DEF Idle
  <1>3. instruction = Idle /\ segment.pc # "free" /\ fault = Idle
    BY <1>2 DEF SerialInv, ResidencyInv, OneAtATime, Idle
  <1> QED
    BY <1>1, <1>2, <1>3 DEF SerialInv, TypeInv, TypeOK, ProcessTypeOK,
       SegmentCall, Descr, PageDescr

\* And the same for a step of an instruction.
LEMMA InstructionAlone ==
  ASSUME SerialInv, InstructionStep
  PROVE  /\ instruction \in Instruction /\ instruction # Idle
         /\ Descr(instruction) \in PageDescr
         /\ segment = Idle /\ segment.pc = "idle"
         /\ instruction.pc # "fault" => fault = Idle
  <1>1. instruction.pc \in {"access", "fault", "retry", "translate", "touch", "check"}
    BY DEF InstructionStep, Access, HandleFault, FaultServed, Translate, Store,
           Fetch, CheckValue, At
  <1>2. instruction # Idle
    BY <1>1 DEF Idle
  <1>3. segment = Idle /\ (instruction.pc # "fault" => fault = Idle)
    BY <1>2 DEF SerialInv, ResidencyInv, OneAtATime
  <1> QED
    BY <1>2, <1>3 DEF SerialInv, TypeInv, TypeOK, Instruction, Descr,
                      PageDescr, Idle

\* The calls that begin move no contents.
LEMMA CallsMemory ==
  ASSUME SerialInv, Quiet, GrowingCall \/ BeginAny
  PROVE  MemoryInv'
  <1> USE DEF SerialInv, MemoryInv
  <1>1. segment = Idle /\ instruction = Idle /\ fault = Idle
    BY DEF Quiet, ResidencyInv, OneAtATime, Idle
  <1>2. UNCHANGED <<pmt, diskTable, partition, memory, fault, lastWritten>>
    BY DEF GrowingCall, BeginAny, CreateProcess, createProcess, DestroyProcess,
           removeProcess, CreateSegment, createSegment, LoadSegment,
           loadSegment, StartSegment, Begin, kernelVars, callVars, testVars
  <1>3. /\ segment'.pc \in {"idle", "alloc"}
        /\ instruction' = Idle \/
             /\ instruction'.pc = "access"
             /\ instruction'.type = "WRITE" => instruction'.val \in Values
    BY <1>1 DEF GrowingCall, BeginAny, CreateProcess, createProcess, DestroyProcess,
           removeProcess, CreateSegment, createSegment, LoadSegment,
           loadSegment, StartSegment, Begin, callVars, testVars, Idle
  <1>4. DiskInv' /\ ContentsInv'
    <2>1. \A pd \in PageDescr : BeingFilled(pd)' <=> BeingFilled(pd)
      BY <1>1, <1>3 DEF BeingFilled, Idle
    <2> QED
      BY <1>2, <2>1, ContentsKept
  <1>5. InstructionInv'
    BY <1>3 DEF InstructionInv, Idle
  <1>6. LoadInv'
    <2>1. ASSUME NEW p \in Processes, NEW page \in Pages, NEW size, NEW flags,
                 LoadSegment(p, page, size, flags), pageDirectory[p] = {}
          PROVE  LoadInv'
      BY <2>1 DEF LoadSegment, loadSegment, StartSegment, LoadInv, kernelVars
    <2>2. ASSUME NEW p \in Processes, NEW page \in Pages, NEW size, NEW flags,
                 CreateSegment(p, page, size, flags)
          PROVE  LoadInv'
      BY <2>2 DEF CreateSegment, createSegment, StartSegment, LoadInv
    <2>3. ASSUME UNCHANGED segment PROVE LoadInv'
      BY <1>1, <2>3 DEF LoadInv
    <2>4. /\ CreateProcess => UNCHANGED segment
          /\ \A p \in Processes : DestroyProcess(p) => UNCHANGED segment
          /\ BeginAny => UNCHANGED segment
      BY DEF CreateProcess, DestroyProcess, BeginAny, Begin, callVars
    <2> QED
      BY <2>1, <2>2, <2>3, <2>4 DEF GrowingCall
  <1> QED
    BY <1>4, <1>5, <1>6

\* The frame for a page to be added: another page may go to the disk for it.
LEMMA AllocPageMemory ==
  ASSUME SerialInv, AllocPage, UNCHANGED testVars
  PROVE  MemoryInv'
  <1> USE DEF SerialInv, MemoryInv
  <1>1. /\ segment \in SegmentCall /\ segment # Idle /\ segment.pc = "alloc"
        /\ Descr(segment) \in PageDescr
        /\ instruction = Idle /\ fault = Idle
    BY SegmentAlone DEF SegmentStep, ClaimPage, AllocPage
  <1> PICK pd \in PageDescr : pd = Descr(segment)
    BY <1>1
  <1>2. /\ segment.p \in Processes /\ segment.page \in Pages
        /\ segment.page \in Nat /\ segment.left \in Nat \ {0}
        /\ pd = <<segment.p, segment.page>>
    BY <1>1 DEF SegmentCall, Descr, Pages
  <1>3. PICK rights \in AccessType \union {wild}, f \in Frames :
          /\ getFreeFrame(pd, Claimed(rights), f)
          /\ segment' = [segment EXCEPT
               !.pc = "fill",
               !.frame = f,
               !.fresh = \/ ~HasTable(Descr(segment))
                         \/ @ /\ EntryOf(segment.page) # 0]
          /\ OpenTable /\ fault' = fault
    BY <1>1, FoundRightsType DEF AllocPage, TypeInv, TypeOK
  <1>4. ~pmt[pd].init
    <2>1. segment.page \in PagesAhead \cap Pages
      BY <1>1, <1>2 DEF PagesAhead
    <2> QED
      BY <1>1, <1>2, <2>1 DEF GrowingInv, CallInv
  <1>5. pmt[pd].disk = 0 /\ lastWritten[pd] = nullptr
    BY <1>4 DEF DiskInv, ContentsInv
  <1>6. /\ Claimed(rights) \in [PageDescr -> PageDescriptor]
        /\ \A x \in PageDescr \ {pd} : Claimed(rights)[x] = pmt[x]
        /\ Claimed(rights)[pd].init /\ Claimed(rights)[pd].disk = pmt[pd].disk
    BY <1>1, <1>3, ClaimedType DEF TypeInv, TypeOK
  <1>7. \A g \in Frames : ~HeldBy(g, pd)
    BY <1>4 DEF GrowingInv, HoldersInv
  <1>8. /\ \A x \in PageDescr : pmt'[x].disk # 0 =>
              pmt'[x].init /\ ~pmt'[x].valid /\ ~diskTable'[pmt'[x].disk]
        /\ \A x, other \in PageDescr :
              pmt'[x].disk # 0 /\ pmt'[x].disk = pmt'[other].disk => x = other
        /\ \A c \in Clusters : ~diskTable'[c] =>
              c # 0 /\ \E x \in PageDescr : pmt'[x].disk = c
        /\ \A x \in PageDescr \ {pd} : lastWritten[x] \in Values =>
              /\ ContentsOf(x)' = lastWritten[x]
              /\ pmt'[x].valid /\ ~pmt'[x].dirty =>
                   pmt'[x].sourceAddress = lastWritten[x]
        /\ \A x \in PageDescr : pmt'[x].init = Claimed(rights)[x].init
    <2>1. segment.pc # "fill" /\ (Claimed(rights)[pd].disk # 0 => Claimed(rights)[pd] = pmt[pd])
      BY <1>1, <1>5, <1>6
    <2> QED
      BY <1>1, <1>3, <1>6, <1>7, <2>1, FrameTakenMemory
  <1>9. /\ fault' = Idle /\ instruction' = Idle /\ lastWritten' = lastWritten
    BY <1>1, <1>3 DEF testVars
  <1>10. segment' \in SegmentCall /\ segment'.pc = "fill" /\ Descr(segment') = pd
         /\ segment'.p = segment.p /\ segment'.page = segment.page
         /\ segment'.op = segment.op
         /\ segment'.fresh = (~HasTable(pd) \/ (segment.fresh /\ EntryOf(segment.page) # 0))
    BY <1>1, <1>2, <1>3 DEF SegmentCall, Descr, HasTable
  <1>11. DiskInv'
    BY <1>8, <1>9 DEF DiskInv, Idle
  <1>12. ContentsInv'
    <2>1. nullptr \notin Values
      BY SentinelAssumption DEF Contents
    <2>2. \A x \in PageDescr : BeingFilled(x)' <=> x = pd
      BY <1>10 DEF BeingFilled
    <2>3. \A x \in PageDescr : lastWritten[x] # nullptr <=> pmt[x].init
      BY <1>1 DEF ContentsInv, BeingFilled
    <2>4. \A x \in PageDescr :
            lastWritten'[x] # nullptr <=> pmt'[x].init /\ ~BeingFilled(x)'
      BY <1>5, <1>6, <1>8, <1>9, <2>2, <2>3
    <2>5. \A x \in PageDescr : lastWritten'[x] \in Values =>
            /\ ContentsOf(x)' = lastWritten'[x]
            /\ pmt'[x].valid /\ ~pmt'[x].dirty =>
                 pmt'[x].sourceAddress = lastWritten'[x]
      BY <1>5, <1>8, <1>9, <2>1
    <2>6. fault'.pc # "validate"
      BY <1>9 DEF Idle
    <2> QED
      BY <2>4, <2>5, <2>6 DEF ContentsInv
  <1>13. InstructionInv'
    BY <1>9 DEF InstructionInv, Idle
  <1>14. LoadInv'
    <2> SUFFICES ASSUME segment.op = "loadSegment"
                 PROVE  /\ segment'.fresh
                        /\ \A d \in pageDirectory'[segment.p] : d <= DirOf(segment.page)
      BY <1>10 DEF LoadInv
    <2>1. \A d \in pageDirectory[segment.p] :
            \/ d < DirOf(segment.page)
            \/ /\ d = DirOf(segment.page)
               /\ EntryOf(segment.page) # 0 /\ segment.fresh
      BY <1>1 DEF LoadInv
    <2>2. /\ DirOf(segment.page) \in Nat
          /\ pageDirectory[segment.p] \subseteq Dirs
          /\ pageDirectory'[segment.p] =
               pageDirectory[segment.p] \union {DirOf(segment.page)}
      BY <1>2, <1>3, EntryAfter DEF OpenTable, TypeInv, TypeOK, KernelTypeOK
    <2>3. HasTable(pd) => segment.fresh /\ EntryOf(segment.page) # 0
      BY <1>2, <2>1, <2>2 DEF HasTable
    <2>4. segment'.fresh
      BY <1>10, <2>3
    <2>5. \A d \in pageDirectory'[segment.p] : d <= DirOf(segment.page)
      BY <2>1, <2>2 DEF Dirs
    <2> QED
      BY <2>4, <2>5
  <1> QED
    BY <1>11, <1>12, <1>13, <1>14

\* The page a call has just filled: its own entry and its own frame change, and
\* no other page is in that frame.
LEMMA FilledPage ==
  ASSUME SerialInv, AddPage
  PROVE  LET pd == Descr(segment)
         IN  /\ \A x \in PageDescr : /\ pmt'[x].init = pmt[x].init
                                     /\ pmt'[x].valid = pmt[x].valid
                                     /\ pmt'[x].dirty = pmt[x].dirty
                                     /\ pmt'[x].disk = pmt[x].disk
             /\ \A x \in PageDescr \ {pd} :
                  pmt'[x].block = pmt[x].block
                    /\ pmt'[x].sourceAddress = pmt[x].sourceAddress
             /\ pmt'[pd].block = segment.frame
             /\ \A x \in PageDescr : pmt'[x].rwe =
                  IF x = pd THEN segment.flags ELSE pmt[x].rwe
             /\ FillLoadedPage => pmt'[pd].sourceAddress = Image[segment.page]
  <1> USE DEF SerialInv, MemoryInv
  <1>1. /\ segment \in SegmentCall /\ segment # Idle /\ segment.pc = "fill"
        /\ Descr(segment) \in PageDescr
    <2>1. segment.pc = "fill"
      BY DEF AddPage, FillCreatedPage, FillLoadedPage
    <2> QED
      BY <2>1, SegmentAlone DEF SegmentStep
  <1> PICK pd \in PageDescr : pd = Descr(segment)
    BY <1>1
  <1>2. pmt \in [PageDescr -> PageDescriptor]
    BY DEF TypeInv, TypeOK, KernelTypeOK
  <1> DEFINE entry == [pmt[pd] EXCEPT !.block = segment.frame,
                                      !.rwe = segment.flags]
  <1>3. /\ entry \in PageDescriptor /\ entry.block = segment.frame
        /\ entry.init = pmt[pd].init /\ entry.valid = pmt[pd].valid
        /\ entry.dirty = pmt[pd].dirty /\ entry.disk = pmt[pd].disk
        /\ entry.rwe = segment.flags
    BY <1>1, <1>2, ZenonT(60) DEF PageDescriptor, SegmentCall
  <1>4. Filled = [pmt EXCEPT ![pd] = entry]
    BY DEF Filled
  <1>5. /\ Filled \in [PageDescr -> PageDescriptor]
        /\ \A x \in PageDescr : /\ Filled[x].init = pmt[x].init
                                /\ Filled[x].valid = pmt[x].valid
                                /\ Filled[x].dirty = pmt[x].dirty
                                /\ Filled[x].disk = pmt[x].disk
        /\ \A x \in PageDescr \ {pd} : Filled[x] = pmt[x]
        /\ Filled[pd].block = segment.frame /\ Filled[pd].rwe = segment.flags
    <2> HIDE DEF entry
    <2> QED
      BY <1>2, <1>3, <1>4
  <1>6. CASE FillCreatedPage
    <2>1. pmt' = [Filled EXCEPT ![pd].sourceAddress = nullptr] /\ ~FillLoadedPage
      BY <1>6 DEF FillCreatedPage, FillLoadedPage
    <2> QED
      BY <1>5, <2>1 DEF PageDescriptor
  <1>7. CASE FillLoadedPage
    <2>1. SourceTargets = {{pd}}
      BY <1>1, <1>7 DEF FillLoadedPage, LoadInv, SourceTargets
    <2>2. pmt' = [x \in PageDescr |->
                 IF x = pd
                 THEN [Filled[x] EXCEPT !.sourceAddress = Image[segment.page]]
                 ELSE Filled[x]]
      BY <1>7, <2>1 DEF FillLoadedPage
    <2> QED
      BY <1>5, <2>2 DEF PageDescriptor
  <1> QED
    BY <1>6, <1>7 DEF AddPage

\* The page is added, with Junk or with its part of the image.
LEMMA AddPageMemory ==
  ASSUME SerialInv, AddPage
  PROVE  MemoryInv'
  <1> USE DEF SerialInv, MemoryInv
  <1>1. /\ segment \in SegmentCall /\ segment # Idle /\ segment.pc = "fill"
        /\ Descr(segment) \in PageDescr
        /\ instruction = Idle /\ fault = Idle
    <2>1. segment.pc = "fill"
      BY DEF AddPage, FillCreatedPage, FillLoadedPage
    <2> QED
      BY <2>1, SegmentAlone DEF SegmentStep
  <1> PICK pd \in PageDescr : pd = Descr(segment)
    BY <1>1
  <1>2. /\ NextPage /\ UNCHANGED <<diskTable, partition, pageDirectory>>
        /\ fault' = Idle /\ instruction' = Idle
    BY <1>1 DEF AddPage, FillCreatedPage, FillLoadedPage, Expect
  <1>3. segment'.pc # "fill"
    BY <1>1, <1>2 DEF NextPage, SegmentCall, Idle
  <1>4. /\ \A x \in PageDescr : /\ pmt'[x].init = pmt[x].init
                                /\ pmt'[x].valid = pmt[x].valid
                                /\ pmt'[x].dirty = pmt[x].dirty
                                /\ pmt'[x].disk = pmt[x].disk
        /\ \A x \in PageDescr \ {pd} :
             pmt'[x].block = pmt[x].block
               /\ pmt'[x].sourceAddress = pmt[x].sourceAddress
        /\ pmt'[pd].block = segment.frame
        /\ FillLoadedPage => pmt'[pd].sourceAddress = Image[segment.page]
    BY FilledPage
  <1>5. DiskInv'
    BY <1>2, <1>4 DEF DiskInv, Idle
  <1>6. PICK contents \in Values \union {Junk} :
          /\ lastWritten' = [lastWritten EXCEPT ![pd] = contents]
          /\ contents \in Values =>
               contents = Image[segment.page] /\ FillLoadedPage
    <2>1. Image[segment.page] \in Values
      BY <1>1, InputAssumption DEF SegmentCall
    <2> QED
      BY <2>1, SentinelAssumption DEF AddPage, Expect
  <1>7. /\ lastWritten \in [PageDescr -> Contents \union {nullptr}]
        /\ contents # nullptr
        /\ memory \in [Frames -> Contents] /\ segment.frame \in Frames
    BY <1>1, SentinelAssumption
       DEF TypeInv, TypeOK, KernelTypeOK, SegmentCall, Contents
  <1>8. pmt[pd].init /\ pmt[pd].valid
    <2>1. HeldBy(segment.frame, pd)
      BY <1>1 DEF ResidencyInv
    <2> QED
      BY <1>1, <1>7, <2>1 DEF GrowingInv, HoldersInv
  <1>9. ASSUME NEW x \in PageDescr \ {pd}, lastWritten[x] \in Values
        PROVE  ContentsOf(x)' = ContentsOf(x)
    <2>1. ASSUME pmt[x].valid PROVE memory'[pmt[x].block] = memory[pmt[x].block]
      <3>1. pmt[x].init /\ ~InTransit(x)
        BY <1>1, <1>9, SentinelAssumption DEF ContentsInv, InTransit, Contents
      <3>2. HeldBy(pmt[x].block, x) /\ HeldBy(segment.frame, pd)
        BY <1>1, <2>1, <3>1 DEF ResidencyInv
      <3>3. pmt[x].block \in Frames /\ pmt[x].block # segment.frame
        BY <1>1, <3>1, <3>2 DEF HeldBy, TypeInv, BlocksAssigned
      <3> QED
        BY <1>7, <3>3 DEF AddPage, FillCreatedPage, FillLoadedPage
    <2> QED
      BY <1>2, <1>4, <2>1 DEF ContentsOf
  <1>10. ContentsInv'
    <2>1. \A x \in PageDescr : ~BeingFilled(x)' /\ (BeingFilled(x) <=> x = pd)
      BY <1>1, <1>3 DEF BeingFilled
    <2>2. \A x \in PageDescr :
            lastWritten'[x] # nullptr <=> pmt'[x].init /\ ~BeingFilled(x)'
      <3>1. \A x \in PageDescr \ {pd} : lastWritten'[x] = lastWritten[x]
        BY <1>6
      <3>2. lastWritten'[pd] = contents
        BY <1>6, <1>7
      <3> QED
        BY <1>4, <1>7, <1>8, <2>1, <3>1, <3>2 DEF ContentsInv
    <2>3. ASSUME NEW x \in PageDescr, lastWritten'[x] \in Values
          PROVE  /\ ContentsOf(x)' = lastWritten'[x]
                 /\ pmt'[x].valid /\ ~pmt'[x].dirty =>
                      pmt'[x].sourceAddress = lastWritten'[x]
      <3>1. CASE x # pd
        BY <1>4, <1>6, <1>9, <2>3, <3>1 DEF ContentsInv
      <3>2. CASE x = pd
        <4>1. /\ lastWritten'[pd] = Image[segment.page] /\ FillLoadedPage
              /\ pmt'[pd].sourceAddress = Image[segment.page]
          BY <1>4, <1>6, <1>7, <2>3, <3>2
        <4>2. memory'[segment.frame] = Image[segment.page]
          BY <1>7, <4>1 DEF FillLoadedPage
        <4> QED
          BY <1>4, <1>8, <3>2, <4>1, <4>2 DEF ContentsOf
      <3> QED
        BY <3>1, <3>2
    <2>4. fault'.pc # "validate"
      BY <1>2 DEF Idle
    <2> QED
      BY <2>2, <2>3, <2>4 DEF ContentsInv
  <1>11. InstructionInv'
    BY <1>2 DEF InstructionInv, Idle
  <1>12. LoadInv'
    <2> SUFFICES ASSUME segment' # Idle, segment'.op = "loadSegment"
                 PROVE  \A d \in pageDirectory'[segment'.p] :
                          \/ d < DirOf(segment'.page)
                          \/ /\ d = DirOf(segment'.page)
                             /\ EntryOf(segment'.page) # 0 /\ segment'.fresh
      BY <1>3 DEF LoadInv
    <2>1. /\ segment'.page = segment.page + 1 /\ segment'.p = segment.p
          /\ segment'.op = segment.op /\ segment'.fresh = segment.fresh
          /\ segment.page \in Nat /\ segment.p \in Processes
      BY <1>1, <1>2 DEF NextPage, SegmentCall, Pages
    <2>2. /\ segment.fresh
          /\ \A d \in pageDirectory[segment.p] : d <= DirOf(segment.page)
      BY <1>1, <2>1 DEF LoadInv
    <2>3. pageDirectory[segment.p] \subseteq Nat
      BY <2>1 DEF TypeInv, TypeOK, KernelTypeOK, Dirs
    <2> QED
      BY <1>2, <2>1, <2>2, <2>3, EntryAfter
  <1> QED
    BY <1>5, <1>10, <1>11, <1>12

\* A write is marked dirty before it happens.
LEMMA AccessMemory ==
  ASSUME SerialInv, Access
  PROVE  MemoryInv'
  <1> USE DEF SerialInv, MemoryInv
  <1>1. /\ instruction \in Instruction /\ instruction # Idle
        /\ Descr(instruction) \in PageDescr
        /\ segment = Idle /\ fault = Idle
        /\ instruction.pc \in {"access", "retry"}
    <2>1. instruction.pc \in {"access", "retry"}
      BY DEF Access, At
    <2> QED
      BY <2>1, InstructionAlone DEF InstructionStep
  <1> PICK pd \in PageDescr : pd = Descr(instruction)
    BY <1>1
  <1>2. pmt \in [PageDescr -> PageDescriptor]
    BY DEF TypeInv, TypeOK, KernelTypeOK
  <1>3. UNCHANGED <<segment, fault, lastWritten>>
    BY DEF Access, callVars
  <1>4. CASE accessOK(pd, instruction.type) /\ Goto("translate")
    <2>1. /\ pmt[pd].init /\ pmt[pd].valid
          /\ Permits(pmt[pd].rwe, instruction.type)
      BY <1>4 DEF accessOK, accessStatus, Mapped
    <2>2. /\ UNCHANGED <<diskTable, memory, partition, pageDirectory>>
          /\ pmt' = IF instruction.type = "WRITE"
                    THEN [pmt EXCEPT ![pd].dirty = TRUE] ELSE pmt
      BY <1>4 DEF accessOK
    <2>3. /\ \A x \in PageDescr :
               /\ pmt'[x].init = pmt[x].init /\ pmt'[x].valid = pmt[x].valid
               /\ pmt'[x].block = pmt[x].block /\ pmt'[x].disk = pmt[x].disk
               /\ pmt'[x].sourceAddress = pmt[x].sourceAddress
               /\ pmt'[x].rwe = pmt[x].rwe
               /\ ~pmt'[x].dirty => ~pmt[x].dirty
          /\ instruction.type = "WRITE" => pmt'[pd].dirty
      BY <1>2, <2>2 DEF PageDescriptor
    <2>4. /\ instruction'.pc = "translate" /\ instruction'.type = instruction.type
          /\ instruction'.val = instruction.val /\ Descr(instruction') = pd
      BY <1>1, <1>4 DEF Goto, Instruction, Descr
    <2>5. DiskInv'
      BY <1>1, <1>3, <2>2, <2>3 DEF DiskInv, Idle
    <2>6. \A x \in PageDescr : ContentsOf(x)' = ContentsOf(x)
      BY <2>2, <2>3 DEF ContentsOf
    <2>7. ContentsInv'
      BY <1>1, <1>3, <2>3, <2>6 DEF ContentsInv, BeingFilled, Idle
    <2>8. InstructionInv'
      BY <1>1, <2>1, <2>3, <2>4 DEF InstructionInv
    <2>9. LoadInv'
      BY <1>1, <1>3 DEF LoadInv
    <2> QED
      BY <2>5, <2>7, <2>8, <2>9
  <1>5. CASE ~(accessOK(pd, instruction.type) /\ Goto("translate"))
    <2>1. /\ UNCHANGED <<pmt, diskTable, memory, partition>>
          /\ Goto("fault") \/ UNCHANGED instruction
      BY <1>5 DEF Access, Exit, kernelVars
    <2>2. DiskInv' /\ ContentsInv'
      <3>1. \A x \in PageDescr : BeingFilled(x)' <=> BeingFilled(x)
        BY <1>3 DEF BeingFilled, Descr
      <3> QED
        BY <1>3, <2>1, <3>1, ContentsKept
    <2>3. LoadInv'
      BY <1>1, <1>3 DEF LoadInv
    <2>4. InstructionInv'
      <3>1. CASE Goto("fault")
        <4>1. /\ instruction'.pc = "fault" /\ instruction'.type = instruction.type
              /\ instruction'.val = instruction.val
          BY <1>1, <3>1 DEF Goto, Instruction
        <4> QED
          BY <1>1, <4>1 DEF InstructionInv
      <3>2. CASE UNCHANGED instruction
        <4>1. Descr(instruction)' = Descr(instruction)
          BY <3>2 DEF Descr
        <4> QED
          BY <2>1, <3>2, <4>1 DEF InstructionInv
      <3> QED
        BY <2>1, <3>1, <3>2
    <2> QED
      BY <2>2, <2>3, <2>4
  <1> QED
    BY <1>4, <1>5

\* The frame for a page that comes back, and its contents from cluster, source
\* or nowhere.
LEMMA HandleFaultMemory ==
  ASSUME SerialInv, HandleFault
  PROVE  MemoryInv'
  <1> USE DEF SerialInv, MemoryInv
  <1>1. /\ instruction \in Instruction /\ instruction # Idle
        /\ Descr(instruction) \in PageDescr
        /\ segment = Idle /\ segment.pc = "idle"
        /\ instruction.pc = "fault"
        /\ instruction' = instruction /\ lastWritten' = lastWritten
    BY InstructionAlone DEF InstructionStep, HandleFault, At, testVars
  <1> PICK pd \in PageDescr :
        pd = Descr(instruction) /\ pd = <<instruction.p, instruction.page>>
    BY <1>1 DEF Descr
  <1>2. pmt[pd].init /\ ~pmt[pd].valid
    BY <1>1 DEF GrowingInv, FaultInv
  <1>3. segment' = segment
    BY DEF HandleFault, pageFault, pageFaultRefused, CopyIn, CopyInCrash, callVars
  <1>4. InstructionInv' /\ LoadInv'
    BY <1>1, <1>3 DEF InstructionInv, LoadInv
  <1>5. \A x \in PageDescr : ~BeingFilled(x) /\ ~BeingFilled(x)'
    BY <1>1, <1>3 DEF BeingFilled
  <1>6. CASE pageFault(instruction.p, instruction.page)
    <2>1. PICK f \in Frames :
            /\ getFreeFrame(pd, pmt, f)
            /\ fault' = [pc |-> "copy", p |-> instruction.p,
                         page |-> instruction.page, frame |-> f,
                         from |-> "empty"]
      BY <1>6 DEF pageFault
    <2>2. fault = Idle /\ fault'.pc # "validate" /\ segment.pc # "fill"
      BY <1>1, <1>6, <2>1 DEF pageFault
    <2>3. pmt \in [PageDescr -> PageDescriptor]
      BY DEF TypeInv, TypeOK, KernelTypeOK
    <2>4. \A g \in Frames : ~HeldBy(g, pd)
      BY <1>2, <2>2 DEF GrowingInv, HoldersInv
    <2>5. /\ \A x \in PageDescr : pmt'[x].disk # 0 =>
                pmt'[x].init /\ ~pmt'[x].valid /\ ~diskTable'[pmt'[x].disk]
          /\ \A x, other \in PageDescr :
                pmt'[x].disk # 0 /\ pmt'[x].disk = pmt'[other].disk => x = other
          /\ \A c \in Clusters : ~diskTable'[c] =>
                c # 0 /\ \E x \in PageDescr : pmt'[x].disk = c
          /\ \A x \in PageDescr \ {pd} : lastWritten[x] \in Values =>
                /\ ContentsOf(x)' = lastWritten[x]
                /\ pmt'[x].valid /\ ~pmt'[x].dirty =>
                     pmt'[x].sourceAddress = lastWritten[x]
          /\ pmt'[pd].disk = pmt[pd].disk
          /\ pmt'[pd].sourceAddress = pmt[pd].sourceAddress
          /\ pmt'[pd].valid = pmt[pd].valid
          /\ pmt[pd].disk # 0 => partition'[pmt[pd].disk] = partition[pmt[pd].disk]
          /\ \A x \in PageDescr : pmt'[x].init = pmt[x].init
      BY <1>2, <2>1, <2>2, <2>3, <2>4, FrameTakenMemory
    <2>6. DiskInv'
      BY <2>2, <2>5 DEF DiskInv
    <2>7. lastWritten[pd] \in Values => ContentsOf(pd)' = lastWritten[pd]
      BY <1>2, <2>5 DEF ContentsInv, ContentsOf
    <2>8. ContentsInv'
      BY <1>1, <1>2, <1>5, <2>2, <2>5, <2>7 DEF ContentsInv
    <2> QED
      BY <1>4, <2>6, <2>8
  <1>7. CASE CopyIn
    <2>1. /\ UNCHANGED <<pmt, diskTable, partition>>
          /\ fault # Idle /\ fault \in FaultCall /\ fault.pc = "copy"
      BY <1>7 DEF CopyIn, Idle, TypeInv, TypeOK, ProcessTypeOK
    <2>2. PICK origin \in Origins(Descr(fault)) :
            /\ memory' = [memory EXCEPT ![fault.frame] = origin[2]]
            /\ fault' = [fault EXCEPT !.pc = "validate", !.from = origin[1]]
      BY <1>7 DEF CopyIn
    <2>3. Descr(fault) = pd
      BY <2>1 DEF GrowingInv, FaultInv
    <2>4. /\ fault'.pc = "validate" /\ fault'.from = origin[1]
          /\ fault'.frame = fault.frame /\ Descr(fault') = pd
          /\ fault.frame \in Frames /\ memory \in [Frames -> Contents]
      BY <2>1, <2>2, <2>3
         DEF FaultCall, Descr, TypeInv, TypeOK, KernelTypeOK
    <2>5. origin[1] = "disk" <=> pmt[pd].disk # 0
      BY <2>2, <2>3 DEF Origins
    <2>6. DiskInv'
      BY <2>1, <2>4, <2>5 DEF DiskInv
    <2>7. lastWritten[pd] \in Values =>
            origin[2] = lastWritten[pd] /\ origin[1] # "empty"
      BY <1>2, <2>2, <2>3 DEF ContentsInv, ContentsOf, Origins, Contents
    <2>8. ASSUME NEW x \in PageDescr, lastWritten[x] \in Values
          PROVE  ContentsOf(x)' = ContentsOf(x)
      <3>1. ASSUME pmt[x].valid PROVE memory'[pmt[x].block] = memory[pmt[x].block]
        <4>1. pmt[x].init /\ x # pd /\ ~InTransit(x)
          BY <1>1, <1>2, <2>3, <2>8, <3>1, SentinelAssumption
             DEF ContentsInv, InTransit, Contents
        <4>2. HeldBy(pmt[x].block, x) /\ HeldBy(fault.frame, pd)
          BY <2>1, <2>3, <3>1, <4>1 DEF ResidencyInv
        <4>3. pmt[x].block \in Frames /\ pmt[x].block # fault.frame
          BY <1>1, <4>1, <4>2 DEF HeldBy, TypeInv, BlocksAssigned
        <4> QED
          BY <2>2, <2>4, <4>3
      <3> QED
        BY <2>1, <3>1 DEF ContentsOf
    <2>9. memory'[fault.frame] = origin[2]
      BY <2>2, <2>4
    <2>10. ContentsInv'
      BY <1>1, <1>5, <2>1, <2>4, <2>7, <2>8, <2>9 DEF ContentsInv
    <2> QED
      BY <1>4, <2>6, <2>10
  <1>8. CASE pageFaultRefused(instruction.p, instruction.page) \/ CopyInCrash
    <2>1. UNCHANGED <<pmt, diskTable, partition, memory, fault>>
      BY <1>8 DEF pageFaultRefused, CopyInCrash, Exit, callVars
    <2> QED
      BY <1>1, <1>4, <1>5, <2>1, ContentsKept
  <1> QED
    BY <1>6, <1>7, <1>8 DEF HandleFault

\* The page is valid again and its cluster, if it had one, free.
LEMMA FaultServedMemory ==
  ASSUME SerialInv, FaultServed
  PROVE  MemoryInv'
  <1> USE DEF SerialInv, MemoryInv
  <1>1. /\ instruction \in Instruction /\ instruction # Idle
        /\ segment = Idle /\ segment.pc = "idle" /\ instruction.pc = "fault"
        /\ fault # Idle /\ fault \in FaultCall /\ fault.pc = "validate"
        /\ Descr(fault) = Descr(instruction) /\ Descr(fault) \in PageDescr
        /\ fault' = Idle /\ segment' = segment
        /\ UNCHANGED <<memory, partition, pageDirectory, lastWritten>>
    <2>1. fault.pc = "validate" /\ instruction.pc = "fault"
      BY DEF FaultServed, Validate, At
    <2>2. fault # Idle
      BY <2>1 DEF Idle
    <2> QED
      BY <2>1, <2>2, InstructionAlone
         DEF InstructionStep, FaultServed, Validate, GrowingInv, FaultInv,
             TypeInv, TypeOK, ProcessTypeOK
  <1> PICK pd \in PageDescr : pd = Descr(fault)
    BY <1>1
  <1>2. /\ pmt \in [PageDescr -> PageDescriptor] /\ fault.frame \in Frames
        /\ diskTable \in [Clusters -> BOOLEAN]
        /\ \A x \in PageDescr : pmt[x].disk \in Clusters
    BY <1>1 DEF TypeInv, TypeOK, KernelTypeOK, FaultCall, PageDescriptor
  <1>3. pmt[pd].init /\ ~pmt[pd].valid
    BY <1>1 DEF GrowingInv, FaultInv
  <1>4. fault.from = "disk" <=> pmt[pd].disk # 0
    BY <1>1 DEF DiskInv
  <1>5. /\ pmt'[pd].init /\ pmt'[pd].valid /\ pmt'[pd].disk = 0
        /\ pmt'[pd].block = fault.frame
        /\ pmt'[pd].dirty = (fault.from = "disk")
        /\ pmt'[pd].sourceAddress = pmt[pd].sourceAddress
        /\ \A x \in PageDescr \ {pd} : pmt'[x] = pmt[x]
    <2>1. pmt' = [pmt EXCEPT ![pd] = Validated(pmt[pd])]
      BY DEF FaultServed, Validate
    <2>2. /\ Validated(pmt[pd]).init = pmt[pd].init /\ Validated(pmt[pd]).valid
          /\ Validated(pmt[pd]).disk =
               IF fault.from = "empty" THEN pmt[pd].disk ELSE 0
          /\ Validated(pmt[pd]).block = fault.frame
          /\ Validated(pmt[pd]).dirty = (fault.from = "disk")
          /\ Validated(pmt[pd]).sourceAddress = pmt[pd].sourceAddress
      BY <1>2 DEF Validated, PageDescriptor
    <2> QED
      BY <1>2, <1>3, <1>4, <2>1, <2>2
  <1>6. \A c \in Clusters : ~diskTable'[c] <=>
          ~diskTable[c] /\ ~(pmt[pd].disk # 0 /\ c = pmt[pd].disk)
    BY <1>2, <1>4 DEF FaultServed, Validate, GiveClusterBack, setFreeCluster
  <1>7. DiskInv'
    <2>1. \A x \in PageDescr : pmt'[x].disk # 0 =>
            pmt'[x].init /\ ~pmt'[x].valid /\ ~diskTable'[pmt'[x].disk]
      BY <1>2, <1>5, <1>6 DEF DiskInv
    <2>2. \A x, other \in PageDescr :
            pmt'[x].disk # 0 /\ pmt'[x].disk = pmt'[other].disk => x = other
      BY <1>5 DEF DiskInv
    <2>3. ASSUME NEW c \in Clusters, ~diskTable'[c]
          PROVE  c # 0 /\ \E x \in PageDescr : pmt'[x].disk = c
      <3>1. PICK x \in PageDescr : pmt[x].disk = c /\ c # 0
        BY <1>6, <2>3 DEF DiskInv
      <3>2. x # pd
        BY <1>6, <2>3, <3>1
      <3> QED
        BY <1>5, <3>1, <3>2
    <2> QED
      BY <1>1, <2>1, <2>2, <2>3 DEF DiskInv, Idle
  <1>8. ContentsInv'
    <2>1. \A x \in PageDescr : ~BeingFilled(x) /\ ~BeingFilled(x)'
      BY <1>1 DEF BeingFilled
    <2>2. \A x \in PageDescr :
            lastWritten'[x] # nullptr <=> pmt'[x].init /\ ~BeingFilled(x)'
      BY <1>1, <1>3, <1>5, <2>1 DEF ContentsInv
    <2>3. ASSUME NEW x \in PageDescr, lastWritten'[x] \in Values
          PROVE  /\ ContentsOf(x)' = lastWritten'[x]
                 /\ pmt'[x].valid /\ ~pmt'[x].dirty =>
                      pmt'[x].sourceAddress = lastWritten'[x]
      <3>1. CASE x # pd
        <4>1. ContentsOf(x)' = ContentsOf(x)
          BY <1>1, <1>5, <3>1 DEF ContentsOf
        <4> QED
          BY <1>1, <1>5, <2>3, <3>1, <4>1 DEF ContentsInv
      <3>2. CASE x = pd
        <4>1. ContentsOf(pd)' = memory[fault.frame]
          BY <1>1, <1>5 DEF ContentsOf
        <4>2. memory[fault.frame] = lastWritten[pd]
          BY <1>1, <2>3, <3>2 DEF ContentsInv
        <4>3. pmt[pd].disk = 0 => pmt[pd].sourceAddress = lastWritten[pd]
          BY <1>1, <1>3, <2>3, <3>2 DEF ContentsInv, ContentsOf
        <4> QED
          BY <1>1, <1>4, <1>5, <3>2, <4>1, <4>2, <4>3
      <3> QED
        BY <3>1, <3>2
    <2> QED
      BY <1>1, <2>2, <2>3 DEF ContentsInv, Idle
  <1>9. InstructionInv'
    <2>1. /\ instruction'.pc = "retry" /\ instruction'.type = instruction.type
          /\ instruction'.val = instruction.val /\ Descr(instruction') = pd
      BY <1>1 DEF FaultServed, Goto, Instruction, Descr
    <2> QED
      BY <1>1, <1>5, <2>1 DEF InstructionInv
  <1>10. LoadInv'
    BY <1>1 DEF LoadInv
  <1> QED
    BY <1>7, <1>8, <1>9, <1>10

\* The memory reference finds the page where the translation found it.
LEMMA TouchMemory ==
  ASSUME SerialInv, Translate \/ Store \/ Fetch \/ CheckValue
  PROVE  MemoryInv'
  <1> USE DEF SerialInv, MemoryInv
  <1>1. /\ instruction \in Instruction /\ instruction # Idle
        /\ Descr(instruction) \in PageDescr
        /\ segment = Idle /\ segment.pc = "idle" /\ fault = Idle
    <2>1. instruction.pc \in {"translate", "touch", "check"}
      BY DEF Translate, Store, Fetch, CheckValue, At
    <2> QED
      BY <2>1, InstructionAlone DEF InstructionStep
  <1> PICK pd \in PageDescr : pd = Descr(instruction)
    BY <1>1
  <1>2. UNCHANGED <<pmt, diskTable, partition, segment, fault>>
    BY DEF Translate, Store, Fetch, CheckValue, kernelVars, callVars, Exit
  <1>3. LoadInv' /\ \A x \in PageDescr : BeingFilled(x)' <=> BeingFilled(x)
    BY <1>1, <1>2 DEF LoadInv, BeingFilled
  <1>4. CASE Store
    <2>1. /\ instruction.pc = "touch" /\ instruction.type = "WRITE"
          /\ memory' = [memory EXCEPT ![instruction.frame] = instruction.val]
          /\ lastWritten' = [lastWritten EXCEPT ![pd] = instruction.val]
          /\ instruction' = Idle
      BY <1>4 DEF Store, At
    <2>2. /\ instruction.val \in Values /\ instruction.frame \in Frames
          /\ instruction.frame = pmt[pd].block
          /\ pmt[pd].init /\ pmt[pd].valid /\ pmt[pd].dirty
          /\ memory \in [Frames -> Contents]
          /\ lastWritten \in [PageDescr -> Contents \union {nullptr}]
          /\ nullptr \notin Values
      BY <1>1, <2>1, SentinelAssumption
         DEF InstructionInv, Instruction, TypeInv, TypeOK, KernelTypeOK, Contents
    <2>3. ASSUME NEW x \in PageDescr, x # pd, lastWritten[x] \in Values
          PROVE  ContentsOf(x)' = ContentsOf(x)
      <3>1. ASSUME pmt[x].valid PROVE memory'[pmt[x].block] = memory[pmt[x].block]
        <4>1. pmt[x].init /\ ~InTransit(x) /\ ~InTransit(pd)
          BY <1>1, <2>2, <2>3 DEF ContentsInv, InTransit
        <4>2. HeldBy(pmt[x].block, x) /\ HeldBy(pmt[pd].block, pd)
          BY <2>2, <3>1, <4>1 DEF ResidencyInv
        <4>3. pmt[x].block \in Frames /\ pmt[x].block # instruction.frame
          BY <1>1, <2>2, <2>3, <4>1, <4>2 DEF HeldBy, TypeInv, BlocksAssigned
        <4> QED
          BY <2>1, <2>2, <4>3
      <3> QED
        BY <1>2, <3>1 DEF ContentsOf
    <2>4. DiskInv'
      BY <1>1, <1>2 DEF DiskInv, Idle
    <2>5. ContentsInv'
      <3>1. \A x \in PageDescr :
              lastWritten'[x] # nullptr <=> pmt'[x].init /\ ~BeingFilled(x)'
        BY <1>1, <1>2, <1>3, <2>1, <2>2 DEF ContentsInv, BeingFilled
      <3>2. ASSUME NEW x \in PageDescr, lastWritten'[x] \in Values
            PROVE  /\ ContentsOf(x)' = lastWritten'[x]
                   /\ pmt'[x].valid /\ ~pmt'[x].dirty =>
                        pmt'[x].sourceAddress = lastWritten'[x]
        <4>1. CASE x # pd
          BY <1>2, <2>1, <2>3, <3>2, <4>1 DEF ContentsInv
        <4>2. CASE x = pd
          BY <1>2, <2>1, <2>2, <4>2 DEF ContentsOf
        <4> QED
          BY <4>1, <4>2
      <3>3. fault'.pc # "validate"
        BY <1>1, <1>2 DEF Idle
      <3> QED
        BY <3>1, <3>2, <3>3 DEF ContentsInv
    <2>6. InstructionInv'
      BY <2>1 DEF InstructionInv, Idle
    <2> QED
      BY <1>3, <2>4, <2>5, <2>6
  <1>5. CASE ~Store
    <2>1. UNCHANGED <<memory, lastWritten>>
      BY <1>5 DEF Translate, Fetch, CheckValue, kernelVars, Exit
    <2>2. DiskInv' /\ ContentsInv'
      BY <1>2, <1>3, <2>1, ContentsKept
    <2>3. InstructionInv'
      <3>1. CASE Translate
        <4>1. CASE instruction' = [instruction EXCEPT
                     !.pc = "touch",
                     !.frame = getPhysicalAddress(Descr(instruction))]
          <5>1. /\ instruction'.pc = "touch" /\ instruction'.type = instruction.type
                /\ instruction'.val = instruction.val /\ Descr(instruction') = pd
                /\ instruction'.frame = pmt[pd].block
            BY <1>1, <4>1 DEF Instruction, Descr, getPhysicalAddress
          <5>2. instruction.pc = "translate"
            BY <3>1 DEF Translate, At
          <5> QED
            BY <1>1, <1>2, <5>1, <5>2 DEF InstructionInv
        <4>2. CASE UNCHANGED instruction
          <5>1. Descr(instruction)' = Descr(instruction)
            BY <4>2 DEF Descr
          <5> QED
            BY <1>2, <4>2, <5>1 DEF InstructionInv
        <4> QED
          BY <3>1, <4>1, <4>2 DEF Translate
      <3>2. CASE Fetch
        <4>1. instruction'.pc = "check" /\ instruction'.type # "WRITE"
          BY <1>1, <3>2 DEF Fetch, Instruction
        <4> QED
          BY <4>1 DEF InstructionInv
      <3>3. CASE CheckValue
        BY <3>3 DEF CheckValue, InstructionInv, Idle
      <3> QED
        BY <1>5, <3>1, <3>2, <3>3
    <2> QED
      BY <1>3, <2>2, <2>3
  <1> QED
    BY <1>4, <1>5

\* A serial program is one whose segments only grow.
LEMMA SerialGrows == [SerialNext]_vars => [GrowingNext]_vars
  <1>1. GrowingCall => \/ CreateProcess
                      \/ \E p \in Processes : DestroyProcess(p)
                      \/ StartAny
    BY InputAssumption DEF GrowingCall, StartAny, AccessType
  <1> QED
    BY <1>1 DEF SerialNext, GrowingNext

\* Every step keeps contents and clusters.
LEMMA SerialMemory ==
  ASSUME SerialInv, [SerialNext]_vars
  PROVE  MemoryInv'
  <1>1. CASE SegmentStep
    <2>1. CASE AllocPageDiskFull /\ UNCHANGED testVars
      <3>1. UNCHANGED <<pmt, diskTable, partition, memory, fault, lastWritten,
                        segment, instruction, pageDirectory>>
        BY <2>1 DEF AllocPageDiskFull, Exit, callVars, testVars
      <3>2. \A pd \in PageDescr : BeingFilled(pd)' <=> BeingFilled(pd)
        BY <3>1 DEF BeingFilled, Descr
      <3>3. DiskInv' /\ ContentsInv'
        BY <3>1, <3>2, ContentsKept DEF SerialInv, MemoryInv
      <3>4. InstructionInv' /\ LoadInv'
        BY <3>1 DEF SerialInv, MemoryInv, InstructionInv, LoadInv, Descr
      <3> QED
        BY <3>3, <3>4 DEF MemoryInv
    <2>2. ~RemovePages
      BY SegmentAlone, <1>1 DEF RemovePages, FreePage
    <2> QED
      BY <1>1, <2>1, <2>2, AllocPageMemory, AddPageMemory
         DEF SegmentStep, ClaimPage
  <1>2. CASE UNCHANGED vars
    <2>1. UNCHANGED <<pmt, diskTable, partition, memory, fault, lastWritten,
                      segment, instruction, pageDirectory>>
      BY <1>2 DEF vars, kernelVars, callVars
    <2>2. \A pd \in PageDescr : BeingFilled(pd)' <=> BeingFilled(pd)
      BY <2>1 DEF BeingFilled, Descr
    <2>3. DiskInv' /\ ContentsInv'
      BY <2>1, <2>2, ContentsKept DEF SerialInv, MemoryInv
    <2>4. InstructionInv' /\ LoadInv'
      BY <2>1 DEF SerialInv, MemoryInv, InstructionInv, LoadInv, Descr
    <2> QED
      BY <2>3, <2>4 DEF MemoryInv
  <1> QED
    BY <1>1, <1>2, CallsMemory, AccessMemory, HandleFaultMemory,
       FaultServedMemory, TouchMemory DEF SerialNext, InstructionStep, Over

\* At the start there are no contents to lose.
LEMMA InitMemory == Init => MemoryInv
  <1> SUFFICES ASSUME Init PROVE MemoryInv
    OBVIOUS
  <1>1. /\ segment = Idle /\ fault = Idle /\ instruction = Idle
        /\ \A c \in Clusters : diskTable[c]
        /\ \A pd \in PageDescr : /\ pmt[pd].disk = 0 /\ ~pmt[pd].init
                                 /\ lastWritten[pd] = nullptr
    BY DEF Init, KernelInit, ProcessInit, FreshEntry
  <1>2. nullptr \notin Values
    BY SentinelAssumption DEF Contents
  <1> QED
    BY <1>1, <1>2 DEF MemoryInv, InstructionInv, LoadInv, DiskInv, ContentsInv, Idle

\* The invariant holds at the start.
LEMMA InitSerial == Init => SerialInv
  <1>1. Init => ResidencyInv
    BY DEF Init, KernelInit, ProcessInit, ResidencyInv, OneAtATime, InTransit,
           FreshEntry, Idle
  <1>2. Init => VictimIsReal
    BY DEF Init, KernelInit, VictimIsReal, Queued
  <1> QED
    BY <1>1, <1>2, InitTypeInv, InitGrowing, InitMemory DEF SerialInv

\* Every step keeps the invariant.
LEMMA SerialInvStep ==
  SerialInv /\ [SerialNext]_vars => SerialInv' /\ [Replacement!Next]_Resident
  BY NextTypeInv, NextVictim, SerialStep, SerialResidency, SerialGrows,
     GrowingStep, SerialMemory DEF SerialInv

\* The invariant all the facts about serial programs follow from.
THEOREM SerialInvariant == SerialSpec => []SerialInv
  BY InitSerial, SerialInvStep, PTL DEF SerialSpec

-----------------------------------------------------------------------------
(* What follows from the invariant *)

\* Clusters and paged-out pages are in one-to-one correspondence.
THEOREM SerialClustersOwned == SerialSpec => []ClustersOwned
  <1>1. SerialInv => ClustersOwned
    BY DEF SerialInv, MemoryInv, DiskInv, ClustersOwned, OnDisk
  <1> QED
    BY <1>1, SerialInvariant, PTL

\* What was last written to a page is what its frame, its cluster or its source
\* holds, wherever paging has taken it.
THEOREM SerialNothingLost == SerialSpec => []NothingLost
  <1>1. SerialInv => NothingLost
    BY DEF SerialInv, MemoryInv, ContentsInv, NothingLost
  <1> QED
    BY <1>1, SerialInvariant, PTL

\* The assertion behind a repeated access (SystemTest.cpp:31, 50) has not failed.
NoAssert == exited # "assert"

\* An access that answered OK stays good until the memory reference, and the
\* access repeated after a fault finds the page in memory.
THEOREM SerialFaultServedOnce == SerialSpec => []FaultServedOnce
  <1>1. Init => NoAssert
    BY DEF Init, KernelInit, NoAssert
  <1>2. SerialInv /\ NoAssert /\ [SerialNext]_vars => NoAssert'
    <2> SUFFICES ASSUME SerialInv, exited # "assert", [SerialNext]_vars
                 PROVE  exited' # "assert"
      BY DEF NoAssert
    <2>1. CASE Access
      <3>1. /\ instruction.pc \in {"access", "retry"}
            /\ instruction.pc = "retry" => pmt[Descr(instruction)].valid
        BY <2>1 DEF Access, At, SerialInv, MemoryInv, InstructionInv
      <3>2. instruction.pc = "retry" =>
              accessStatus(Descr(instruction), instruction.type) # "PAGE_FAULT"
        BY <3>1 DEF accessStatus
      <3> QED
        BY <2>1, <3>1, <3>2 DEF Access, accessOK, kernelVars, Exit
    <2>2. CASE SegmentStep
      BY <2>2
         DEF SegmentStep, ClaimPage, AllocPage, getFreeFrame, AllocPageDiskFull,
             AddPage, FillCreatedPage, FillLoadedPage, RemovePages, FreePage, Exit
    <2>3. CASE HandleFault
      BY <2>3
         DEF HandleFault, pageFault, getFreeFrame, pageFaultRefused, CopyIn,
             CopyInCrash, Exit
    <2>4. CASE FaultServed \/ Translate \/ Store \/ Fetch \/ CheckValue
      BY <2>4
         DEF FaultServed, Validate, Translate, Store, Fetch, CheckValue,
             kernelVars, Exit
    <2>5. CASE GrowingCall \/ BeginAny
      BY <2>5
         DEF GrowingCall, CreateProcess, createProcess, DestroyProcess,
             removeProcess, CreateSegment, createSegment, LoadSegment,
             loadSegment, StartSegment, BeginAny, Begin, kernelVars
    <2> QED
      BY <2>1, <2>2, <2>3, <2>4, <2>5
         DEF SerialNext, InstructionStep, Over, vars, kernelVars
  <1>3. SerialInv /\ NoAssert => FaultServedOnce
    <2> SUFFICES ASSUME SerialInv, instruction.pc = "translate"
                 PROVE  Translatable(Descr(instruction))
      BY DEF FaultServedOnce, NoAssert
    <2>1. instruction # Idle
      BY DEF Idle
    <2>2. Descr(instruction) \in PageDescr
      BY <2>1 DEF SerialInv, TypeInv, TypeOK, Instruction, Descr, PageDescr
    <2> QED
      BY <2>2 DEF SerialInv, MemoryInv, InstructionInv, GrowingInv, TablesOpen,
                  Translatable, Mapped
  <1> QED
    BY <1>1, <1>2, <1>3, SerialInvariant, PTL DEF SerialSpec

\* Every frame taken and every usable cluster taken are that many pages: the
\* frames hold pages in memory, the clusters pages out of memory.
LEMMA EverywhereFull ==
  ASSUME SerialInv, fault = Idle, FreeFrames = {}, FreeClusters = {}
  PROVE  Cardinality(InitialisedPages) >= processVMSpaceSize + numOfClusters - 1
  <1>1. PICK F \in Nat \ {0}, C \in Nat \ {0} :
          F = processVMSpaceSize /\ C = numOfClusters
    BY SizeAssumption
  <1>2. \A f \in Frames : /\ pmtTable[f].pageDescr \in InitialisedPages
                          /\ pmt[pmtTable[f].pageDescr].valid
                          /\ HeldBy(f, pmtTable[f].pageDescr)
    <2> SUFFICES ASSUME NEW f \in Frames
                 PROVE  /\ pmtTable[f].pageDescr \in InitialisedPages
                        /\ pmt[pmtTable[f].pageDescr].valid
                        /\ HeldBy(f, pmtTable[f].pageDescr)
      OBVIOUS
    <2>1. ~pmtTable[f].free /\ pmtTable[f] \in SysPageDescriptor
      BY DEF FreeFrames, SerialInv, TypeInv, TypeOK, KernelTypeOK
    <2>2. pmtTable[f].pageDescr \in PageDescr
      BY <2>1 DEF SerialInv, VictimIsReal, SysPageDescriptor
    <2>3. HeldBy(f, pmtTable[f].pageDescr)
      BY <2>1 DEF HeldBy
    <2> QED
      BY <2>2, <2>3 DEF SerialInv, GrowingInv, HoldersInv, InitialisedPages
  <1>3. \A c \in Clusters \ {0} :
          \E pd \in InitialisedPages : pmt[pd].disk = c /\ ~pmt[pd].valid
    BY DEF FreeClusters, SerialInv, MemoryInv, DiskInv, InitialisedPages
  <1> DEFINE stored(c) == CHOOSE pd \in InitialisedPages :
                            pmt[pd].disk = c /\ ~pmt[pd].valid
             page(i) == IF i \in 1 .. F THEN pmtTable[i - 1].pageDescr
                        ELSE stored(i - F)
             places == 1 .. F + C - 1
             at == [i \in places |-> page(i)]
  <1>4. \A i \in 1 .. F : i - 1 \in Frames
    BY <1>1 DEF Frames
  <1>5. \A i \in places : i \notin 1 .. F => i - F \in Clusters \ {0}
    BY <1>1 DEF Clusters
  <1>6. \A c \in Clusters \ {0} : /\ stored(c) \in InitialisedPages
                                  /\ pmt[stored(c)].disk = c
                                  /\ ~pmt[stored(c)].valid
    BY <1>3
  <1> HIDE DEF stored
  <1>7. \A i \in places : page(i) \in InitialisedPages
    BY <1>2, <1>4, <1>5, <1>6
  <1>8. \A i, j \in places : page(i) = page(j) => i = j
    <2> SUFFICES ASSUME NEW i \in places, NEW j \in places, page(i) = page(j)
                 PROVE  i = j
      OBVIOUS
    <2>1. CASE i \in 1 .. F /\ j \in 1 .. F
      <3>1. /\ HeldBy(i - 1, page(i)) /\ HeldBy(j - 1, page(i))
            /\ page(i) \in PageDescr
        BY <1>2, <1>4, <2>1 DEF InitialisedPages
      <3>2. i - 1 = j - 1
        BY <1>4, <2>1, <3>1 DEF SerialInv, GrowingInv, HoldersInv
      <3> QED
        BY <2>1, <3>2
    <2>2. CASE i \notin 1 .. F /\ j \notin 1 .. F
      <3>1. i - F = j - F
        BY <1>5, <1>6, <2>2
      <3> QED
        BY <1>1, <3>1
    <2>3. CASE (i \in 1 .. F) # (j \in 1 .. F)
      BY <1>2, <1>4, <1>5, <1>6, <2>3
    <2> QED
      BY <2>1, <2>2, <2>3
  <1> HIDE DEF page
  <1>9. at \in Injection(places, InitialisedPages)
    BY <1>7, <1>8 DEF Injection, IsInjective
  <1>10. IsFiniteSet(InitialisedPages)
    <2>1. IsFiniteSet(Processes) /\ IsFiniteSet(Pages)
      <3>1. PICK n \in Nat, m \in Nat, k \in Nat :
              n = MaxProcesses /\ m = MAX_PMT_TABLES /\ k = MAX_PMT_ENTRIES
        BY SizeAssumption
      <3>2. n - 1 \in Int /\ m * k - 1 \in Int
        BY <3>1
      <3> QED
        BY <3>1, <3>2, FS_Interval DEF Processes, Pages, NumPages
    <2>2. IsFiniteSet(PageDescr)
      BY <2>1, FS_Product DEF PageDescr
    <2> QED
      BY <2>2, FS_Subset DEF InitialisedPages
  <1>11. Cardinality(places) <= Cardinality(InitialisedPages)
    BY <1>9, <1>10, FS_Injection
  <1>12. Cardinality(places) = F + C - 1
    <2>1. 1 \in Int /\ F + C - 1 \in Int /\ ~(1 > F + C - 1)
      BY <1>1
    <2>2. Cardinality(1 .. F + C - 1) = (F + C - 1) - 1 + 1
      BY <2>1, FS_Interval
    <2> QED
      BY <1>1, <2>2
  <1>13. Cardinality(InitialisedPages) \in Nat
    BY <1>10, FS_CardinalityType
  <1> QED
    BY <1>1, <1>11, <1>12, <1>13

\* "Disk full" ends the program only when all frames and all usable clusters
\* hold pages, whatever was replaced, stored and brought back before.
THEOREM SerialDiskFullIsReal == SerialSpec => []DiskFullIsReal
  <1>1. Init => DiskFullIsReal
    BY DEF Init, KernelInit, DiskFullIsReal
  <1>2. SerialInv /\ DiskFullIsReal /\ [SerialNext]_vars => DiskFullIsReal'
    <2> SUFFICES ASSUME SerialInv, DiskFullIsReal, [SerialNext]_vars,
                        exited' = "disk full"
                 PROVE  Cardinality(InitialisedPages')
                          >= processVMSpaceSize + numOfClusters - 1
      BY DEF DiskFullIsReal
    <2>1. CASE exited = "disk full"
      <3>1. UNCHANGED pmt
        BY <2>1, ZenonT(60)
           DEF SerialNext, vars, kernelVars, Over, GrowingCall, CreateProcess,
               createProcess, DestroyProcess, removeProcess, CreateSegment,
               createSegment, LoadSegment, loadSegment, StartSegment, BeginAny,
               Begin, SegmentStep, ClaimPage, AllocPage, AllocPageDiskFull,
               AddPage, FillCreatedPage, FillLoadedPage, RemovePages, FreePage,
               InstructionStep, Access, HandleFault, pageFault,
               pageFaultRefused, CopyIn, CopyInCrash, FaultServed, Validate,
               Translate, Store, Fetch, CheckValue, At
      <3> QED
        BY <2>1, <3>1 DEF DiskFullIsReal, InitialisedPages
    <2>2. CASE exited # "disk full"
      <3>1. /\ UNCHANGED pmt
            /\ fault = Idle /\ FreeFrames = {} /\ FreeClusters = {}
        <4>1. CASE SegmentStep
          <5>1. AllocPageDiskFull
            BY <2>2, <4>1
               DEF SegmentStep, ClaimPage, AllocPage, getFreeFrame, AddPage,
                   FillCreatedPage, FillLoadedPage, RemovePages, FreePage, Exit
          <5>2. fault = Idle
            BY <4>1, SegmentAlone
          <5> QED
            BY <5>1, <5>2 DEF AllocPageDiskFull, DiskIsFull, Exit
        <4>2. CASE HandleFault
          BY <2>2, <4>2
             DEF HandleFault, pageFault, getFreeFrame, pageFaultRefused, CopyIn,
                 CopyInCrash, Exit, DiskIsFull
        <4>3. CASE Access
          BY <2>2, <4>3 DEF Access, accessOK, accessStatus, kernelVars, Exit
        <4>4. CASE FaultServed \/ Translate \/ Store \/ Fetch \/ CheckValue
          BY <2>2, <4>4
             DEF FaultServed, Validate, Translate, Store, Fetch, CheckValue,
                 kernelVars, Exit
        <4>5. CASE GrowingCall \/ BeginAny
          BY <2>2, <4>5, ZenonT(60)
             DEF GrowingCall, CreateProcess, createProcess, DestroyProcess,
                 removeProcess, CreateSegment, createSegment, LoadSegment,
                 loadSegment, StartSegment, BeginAny, Begin, kernelVars
        <4>6. CASE Over \/ UNCHANGED vars
          BY <2>2, <4>6 DEF Over, vars, kernelVars
        <4> QED
          BY <4>1, <4>2, <4>3, <4>4, <4>5, <4>6 DEF SerialNext, InstructionStep
      <3> QED
        BY <3>1, EverywhereFull DEF InitialisedPages
    <2> QED
      BY <2>1, <2>2
  <1> QED
    BY <1>1, <1>2, SerialInvariant, PTL DEF SerialSpec

\* The pages in memory change the way first-in first-out replacement says.
THEOREM SerialReplacesOldest == SerialSpec => ReplacesOldest
  BY GrowingReplacementInit, SerialInvStep, SerialInvariant, PTL
     DEF SerialSpec, ReplacesOldest, Replacement!Spec

-----------------------------------------------------------------------------
(* What a step does to the contents of pages *)

\* lastWritten changes when a page is added and when one is stored into; the
\* rest of the steps leave it alone.
LEMMA WhatIsWritten ==
  ASSUME SerialInv, [SerialNext]_vars
  PROVE  \/ UNCHANGED lastWritten
         \/ /\ AddPage /\ UNCHANGED instruction /\ instruction = Idle
            /\ Descr(segment) \in PageDescr /\ BeingFilled(Descr(segment))
            /\ \E contents \in Values \union {Junk} :
                 lastWritten' =
                   [lastWritten EXCEPT ![Descr(segment)] = contents]
         \/ /\ Store /\ Descr(instruction) \in PageDescr
            /\ instruction.pc = "touch" /\ instruction.type = "WRITE"
            /\ instruction.val \in Values
            /\ instruction' = Idle
            /\ lastWritten' = [lastWritten EXCEPT
                 ![Descr(instruction)] = instruction.val]
  <1>1. CASE AddPage
    <2>1. segment.pc = "fill" /\ segment \in SegmentCall
          /\ Descr(segment) \in PageDescr /\ instruction = Idle
      <3>1. segment.pc = "fill"
        BY <1>1 DEF AddPage, FillCreatedPage, FillLoadedPage
      <3> QED
        BY <1>1, <3>1, SegmentAlone DEF SegmentStep
    <2>2. Image[segment.page] \in Values
      BY <2>1, InputAssumption DEF SegmentCall
    <2> QED
      BY <1>1, <2>1, <2>2 DEF AddPage, Expect, BeingFilled
  <1>2. CASE Store
    <2>1. instruction.pc = "touch" /\ instruction.type = "WRITE"
      BY <1>2 DEF Store, At
    <2>2. instruction # Idle
      BY <2>1 DEF Idle
    <2> QED
      BY <1>2, <2>1, <2>2, InstructionAlone
         DEF Store, InstructionStep, SerialInv, MemoryInv, InstructionInv
  <1>3. CASE RemovePages
    BY <1>3, SegmentAlone DEF SegmentStep, RemovePages, FreePage
  <1> QED
    BY <1>1, <1>2, <1>3
       DEF SerialNext, SegmentStep, ClaimPage, InstructionStep, Access,
           HandleFault, FaultServed, Translate, Fetch, CheckValue, Over, vars,
           GrowingCall, CreateProcess, DestroyProcess, CreateSegment,
           LoadSegment, BeginAny, Begin, testVars

-----------------------------------------------------------------------------
(* Code stays what was loaded *)

\* A page changes its rights only when it is added.
LEMMA RightsKept ==
  ASSUME SerialInv, [SerialNext]_vars, NEW pd \in PageDescr, ~BeingFilled(pd)'
  PROVE  pmt'[pd].rwe = pmt[pd].rwe \/ (AddPage /\ pd = Descr(segment))
  <1>0. KernelTypeOK /\ pmt \in [PageDescr -> PageDescriptor]
    BY DEF SerialInv, TypeInv, TypeOK, KernelTypeOK
  <1>1. CASE AllocPage /\ UNCHANGED testVars
    <2>1. /\ segment \in SegmentCall /\ Descr(segment) \in PageDescr
      BY <1>1, SegmentAlone DEF SegmentStep, ClaimPage
    <2>2. PICK rights \in AccessType \union {wild}, f \in Frames :
            /\ getFreeFrame(Descr(segment), Claimed(rights), f)
            /\ segment' = [segment EXCEPT
                 !.pc = "fill",
                 !.frame = f,
                 !.fresh = \/ ~HasTable(Descr(segment))
                           \/ @ /\ EntryOf(segment.page) # 0]
      BY <1>0, <1>1, <2>1, FoundRightsType DEF AllocPage
    <2>3. pd # Descr(segment)
      <3>1. segment'.pc = "fill" /\ Descr(segment)' = Descr(segment)
        BY <2>1, <2>2 DEF SegmentCall, Descr
      <3> QED
        BY <3>1 DEF BeingFilled
    <2>4. pmt'[pd].rwe = Claimed(rights)[pd].rwe /\ Claimed(rights)[pd] = pmt[pd]
      BY <1>0, <2>1, <2>2, <2>3, ClaimedType, GetFreeFrameType
    <2> QED
      BY <2>4
  <1>2. CASE AddPage
    BY <1>2, FilledPage
  <1>3. CASE Access
    <2>1. CASE accessOK(Descr(instruction), instruction.type)
      BY <1>0, <2>1 DEF accessOK, PageDescriptor
    <2>2. CASE ~accessOK(Descr(instruction), instruction.type)
      BY <1>3, <2>2 DEF Access, Exit, kernelVars
    <2> QED
      BY <2>1, <2>2
  <1>4. CASE HandleFault
    <2>1. CASE pageFault(instruction.p, instruction.page)
      <3>1. PICK x \in PageDescr, f \in Frames : getFreeFrame(x, pmt, f)
        <4>1. Descr(instruction) \in PageDescr
          BY <1>4, InstructionAlone DEF InstructionStep
        <4> QED
          BY <2>1, <4>1 DEF pageFault, Descr
      <3> QED
        BY <1>0, <3>1, GetFreeFrameType
    <2>2. CASE ~pageFault(instruction.p, instruction.page)
      BY <1>4, <2>2 DEF HandleFault, pageFaultRefused, CopyIn, CopyInCrash, Exit
    <2> QED
      BY <2>1, <2>2
  <1>5. CASE FaultServed
    <2>1. pmt' = [pmt EXCEPT ![Descr(fault)] = Validated(pmt[Descr(fault)])]
      BY <1>5 DEF FaultServed, Validate
    <2> QED
      BY <1>0, <2>1 DEF Validated, PageDescriptor
  <1>6. ~RemovePages
    BY SegmentAlone DEF SegmentStep, RemovePages, FreePage
  <1>7. CASE \/ AllocPageDiskFull \/ GrowingCall \/ BeginAny \/ Translate
             \/ Store \/ Fetch \/ CheckValue \/ Over \/ UNCHANGED vars
    BY <1>7 DEF AllocPageDiskFull, Exit, Translate, Store, Fetch, CheckValue,
       Over, vars, kernelVars, GrowingCall, CreateProcess, createProcess,
       DestroyProcess, removeProcess, CreateSegment, createSegment, LoadSegment,
       loadSegment, StartSegment, BeginAny, Begin
  <1> QED
    BY <1>1, <1>2, <1>3, <1>4, <1>5, <1>6, <1>7
       DEF SerialNext, SegmentStep, ClaimPage, InstructionStep

\* createSegment is never asked for code, and what a page mapped EXECUTE was
\* last given is its place in the program file.
FlagsInv ==
  segment # Idle /\ segment.op = "createSegment" => segment.flags # "EXECUTE"

CodeInv ==
  /\ SerialInv
  /\ FlagsInv
  /\ \A pd \in PageDescr :
       lastWritten[pd] # nullptr /\ pmt[pd].rwe = "EXECUTE" =>
         lastWritten[pd] = Image[pd[2]]

\* The flags of a call stay what it was called with.
LEMMA FlagsKept ==
  ASSUME SerialInv, FlagsInv, [SerialNext]_vars
  PROVE  FlagsInv'
  <1>1. CASE SegmentStep
    <2>1. segment \in SegmentCall /\ segment # Idle
      BY <1>1, SegmentAlone
    <2>2. \/ segment' = Idle
          \/ segment'.op = segment.op /\ segment'.flags = segment.flags
      BY <1>1, <2>1 DEF SegmentStep, ClaimPage, AllocPage, AllocPageDiskFull,
         AddPage, FillCreatedPage, FillLoadedPage, NextPage, RemovePages,
         FreePage, callVars, SegmentCall
    <2> QED
      BY <2>1, <2>2 DEF FlagsInv
  <1>2. ASSUME NEW p \in Processes, NEW page \in Pages, NEW size, NEW flags,
               \/ CreateSegment(p, page, size, "READ_WRITE")
               \/ LoadSegment(p, page, size, flags)
        PROVE  FlagsInv'
    BY <1>2 DEF CreateSegment, createSegment, LoadSegment, loadSegment,
                StartSegment, FlagsInv
  <1>3. ASSUME UNCHANGED segment
        PROVE  FlagsInv'
    BY <1>3 DEF FlagsInv
  <1>4. CASE InstructionStep
    BY <1>3, <1>4 DEF InstructionStep, Access, HandleFault, pageFault, CopyIn,
       pageFaultRefused, CopyInCrash, FaultServed, Validate, Translate, Store,
       Fetch, CheckValue, callVars
  <1> QED
    BY <1>1, <1>2, <1>3, <1>4
       DEF SerialNext, GrowingCall, CreateProcess, DestroyProcess, BeginAny,
           Begin, Over, vars, callVars

\* Every step keeps it: what is loaded is loaded from there, and a store needs
\* rights that EXECUTE does not give.
LEMMA CodeInvStep == CodeInv /\ [SerialNext]_vars => CodeInv'
  <1> SUFFICES ASSUME CodeInv, [SerialNext]_vars
               PROVE  CodeInv'
    OBVIOUS
  <1>1. SerialInv /\ FlagsInv /\ SerialInv' /\ FlagsInv'
    BY SerialInvStep, FlagsKept DEF CodeInv
  <1>2. ASSUME NEW pd \in PageDescr, lastWritten'[pd] # nullptr,
               pmt'[pd].rwe = "EXECUTE"
        PROVE  lastWritten'[pd] = Image[pd[2]]
    <2>1. ~BeingFilled(pd)'
      BY <1>1, <1>2 DEF SerialInv, MemoryInv, ContentsInv
    <2>2. lastWritten \in [PageDescr -> Contents \union {nullptr}]
      BY <1>1 DEF SerialInv, TypeInv, TypeOK
    <2>3. CASE AddPage /\ pd = Descr(segment)
      <3>1. segment \in SegmentCall /\ segment # Idle /\ pd[2] = segment.page
        BY <1>1, <2>3, SegmentAlone DEF SegmentStep, Descr
      <3>2. pmt'[pd].rwe = segment.flags
        BY <1>1, <2>3, FilledPage
      <3>3. ~FillCreatedPage
        BY <1>1, <1>2, <3>1, <3>2 DEF FillCreatedPage, FlagsInv
      <3>4. lastWritten' = [lastWritten EXCEPT ![pd] = Image[segment.page]]
        BY <2>3, <3>3 DEF AddPage, Expect
      <3> QED
        BY <2>2, <3>1, <3>4
    <2>4. CASE ~(AddPage /\ pd = Descr(segment))
      <3>1. pmt[pd].rwe = "EXECUTE"
        BY <1>1, <1>2, <2>1, <2>4, RightsKept
      <3>2. lastWritten'[pd] = lastWritten[pd]
        <4>1. CASE /\ Store /\ instruction.pc = "touch"
                   /\ instruction.type = "WRITE"
                   /\ lastWritten' = [lastWritten EXCEPT
                        ![Descr(instruction)] = instruction.val]
          <5>1. Permits(pmt[Descr(instruction)].rwe, "WRITE")
            BY <1>1, <4>1 DEF SerialInv, MemoryInv, InstructionInv
          <5>2. pd # Descr(instruction)
            BY <3>1, <5>1 DEF Permits
          <5> QED
            BY <2>2, <4>1, <5>2
        <4> QED
          BY <1>1, <2>2, <2>4, <4>1, WhatIsWritten
      <3> QED
        BY <1>2, <3>1, <3>2 DEF CodeInv
    <2> QED
      BY <2>3, <2>4
  <1> QED
    BY <1>1, <1>2 DEF CodeInv

\* Code stays what the program file gave for it, wherever paging takes it: no
\* page mapped EXECUTE ever holds anything else, while a fault brings it back
\* neither.
THEOREM SerialCodeIsAsLoaded == SerialSpec => []CodeIsAsLoaded
  <1>1. Init => CodeInv
    <2> SUFFICES ASSUME Init PROVE CodeInv
      OBVIOUS
    <2>1. segment = Idle /\ \A pd \in PageDescr : lastWritten[pd] = nullptr
      BY DEF Init, ProcessInit
    <2> QED
      BY <2>1, InitSerial DEF CodeInv, FlagsInv
  <1>2. CodeInv => CodeIsAsLoaded
    <2> SUFFICES ASSUME CodeInv, NEW pd \in PageDescr,
                        lastWritten[pd] # nullptr, pmt[pd].rwe = "EXECUTE"
                 PROVE  ContentsOf(pd) = Image[pd[2]]
      BY DEF CodeIsAsLoaded
    <2>1. lastWritten[pd] = Image[pd[2]]
      BY DEF CodeInv
    <2>2. Image[pd[2]] \in Values
      BY InputAssumption DEF PageDescr
    <2> QED
      BY <2>1, <2>2 DEF CodeInv, SerialInv, MemoryInv, ContentsInv
  <1> QED
    BY <1>1, <1>2, CodeInvStep, PTL DEF SerialSpec

-----------------------------------------------------------------------------
(* The programs see a memory *)

Reply ==
  IF instruction.pc = "check" THEN <<Descr(instruction), instruction.val>>
  ELSE nullptr

\* At the start the memory of PagedMemory is empty.
LEMMA MemoryStart == Init => Memory!Init
  BY DEF Init, Idle, Memory!Init

\* Every step is one of PagedMemory, or does not touch its memory.
LEMMA MemoryStep ==
  ASSUME SerialInv, [SerialNext]_vars
  PROVE  [Memory!Next]_<<lastWritten, Reply>>
  <1>0. lastWritten \in [PageDescr -> Contents \union {nullptr}]
    BY DEF SerialInv, TypeInv, TypeOK
  <1>1. CASE AddPage /\ UNCHANGED instruction
              /\ Descr(segment) \in PageDescr /\ BeingFilled(Descr(segment))
              /\ \E contents \in Values \union {Junk} :
                   lastWritten' = [lastWritten EXCEPT ![Descr(segment)] = contents]
    <2>1. Reply' = Reply
      BY <1>1 DEF Reply, Descr
    <2>2. lastWritten[Descr(segment)] = nullptr
      BY <1>1 DEF SerialInv, MemoryInv, ContentsInv
    <2>3. Memory!Allocate(Descr(segment))
      BY <1>1, <2>1, <2>2 DEF Memory!Allocate, Reply
    <2> QED
      BY <1>1, <2>3 DEF Memory!Next
  <1>2. CASE /\ Store /\ Descr(instruction) \in PageDescr
             /\ instruction.pc = "touch" /\ instruction.val \in Values
             /\ instruction' = Idle
             /\ lastWritten' = [lastWritten EXCEPT
                  ![Descr(instruction)] = instruction.val]
    <2>1. Reply' = nullptr /\ Reply = nullptr
      BY <1>2 DEF Reply, Idle
    <2>2. lastWritten[Descr(instruction)] # nullptr
      <3>1. instruction # Idle /\ ~BeingFilled(Descr(instruction))
        BY <1>2, InstructionAlone DEF InstructionStep, BeingFilled, Idle
      <3> QED
        BY <1>2, <3>1 DEF SerialInv, MemoryInv, ContentsInv, InstructionInv
    <2>3. Memory!Write(Descr(instruction))
      BY <1>2, <2>1, <2>2 DEF Memory!Write, Reply
    <2> QED
      BY <1>2, <2>3 DEF Memory!Next
  <1>3. CASE Fetch
    <2>1. /\ instruction.pc = "touch" /\ instruction \in Instruction
          /\ Descr(instruction) \in PageDescr
          /\ segment.pc = "idle"
      BY <1>3, InstructionAlone DEF InstructionStep, Fetch, At
    <2> PICK pd \in PageDescr : pd = Descr(instruction)
      BY <2>1
    <2>2. /\ UNCHANGED lastWritten
          /\ instruction' = [instruction EXCEPT !.pc = "check",
                                 !.val = memory[instruction.frame]]
      BY <1>3 DEF Fetch
    <2>3. /\ instruction'.pc = "check" /\ Descr(instruction') = pd
          /\ instruction'.val = memory[instruction.frame]
      BY <2>1, <2>2 DEF Instruction, Descr
    <2>4. /\ pmt[pd].init /\ pmt[pd].valid
          /\ instruction.frame = pmt[pd].block
      BY <2>1 DEF SerialInv, MemoryInv, InstructionInv
    <2>5. lastWritten[pd] # nullptr
      BY <2>1, <2>4 DEF SerialInv, MemoryInv, ContentsInv, BeingFilled
    <2>6. memory[instruction.frame] \in Values \union {Junk}
      BY <2>1 DEF SerialInv, TypeInv, TypeOK, KernelTypeOK, Instruction, Contents
    <2>7. lastWritten[pd] # Junk => memory[instruction.frame] = lastWritten[pd]
      BY <1>0, <2>4, <2>5
         DEF SerialInv, MemoryInv, ContentsInv, ContentsOf, Contents
    <2>8. Reply = nullptr /\ Reply' = <<pd, memory[instruction.frame]>>
      BY <2>1, <2>3 DEF Reply
    <2>9. Memory!Read(pd)
      BY <2>2, <2>5, <2>6, <2>7, <2>8 DEF Memory!Read, Reply
    <2> QED
      BY <2>9 DEF Memory!Next
  <1>4. CASE CheckValue
    <2>1. UNCHANGED lastWritten /\ Reply' = nullptr
      BY <1>4 DEF CheckValue, Reply, Idle
    <2>2. CASE Reply # nullptr
      BY <2>1, <2>2 DEF Memory!Next, Memory!Done, Reply
    <2>3. CASE Reply = nullptr
      BY <2>1, <2>3
    <2> QED
      BY <2>2, <2>3
  <1>5. CASE UNCHANGED lastWritten /\ ~Fetch /\ ~CheckValue
    <2>1. CASE UNCHANGED instruction
      BY <1>5, <2>1 DEF Reply, Descr
    <2>2. CASE instruction.pc # "check" /\ instruction'.pc # "check"
      BY <1>5, <2>2 DEF Reply
    <2>3. BeginAny => instruction.pc # "check" /\ instruction'.pc # "check"
      BY DEF BeginAny, Begin, Idle
    <2>4. Access => UNCHANGED instruction \/
                      (instruction.pc # "check" /\ instruction'.pc # "check")
      <3> SUFFICES ASSUME Access, ~UNCHANGED instruction
                   PROVE  instruction.pc # "check" /\ instruction'.pc # "check"
        OBVIOUS
      <3>1. instruction.pc \in {"access", "retry"} /\ instruction \in Instruction
        BY InstructionAlone DEF InstructionStep, Access, At
      <3>2. Goto("translate") \/ Goto("fault")
        BY DEF Access
      <3> QED
        BY <3>1, <3>2 DEF Goto, Instruction
    <2>5. FaultServed => instruction.pc # "check" /\ instruction'.pc # "check"
      <3> SUFFICES ASSUME FaultServed
                   PROVE  instruction.pc # "check" /\ instruction'.pc # "check"
        OBVIOUS
      <3>1. instruction.pc = "fault" /\ instruction \in Instruction
        BY InstructionAlone DEF InstructionStep, FaultServed, At
      <3> QED
        BY <3>1 DEF FaultServed, Goto, Instruction
    <2>6. Translate => UNCHANGED instruction \/
                         (instruction.pc # "check" /\ instruction'.pc # "check")
      <3> SUFFICES ASSUME Translate, ~UNCHANGED instruction
                   PROVE  instruction.pc # "check" /\ instruction'.pc # "check"
        OBVIOUS
      <3>1. instruction.pc = "translate" /\ instruction \in Instruction
        BY InstructionAlone DEF InstructionStep, Translate, At
      <3> QED
        BY <3>1 DEF Translate, Instruction
    <2>7. Store => instruction.pc # "check" /\ instruction'.pc # "check"
      BY DEF Store, At, Idle
    <2>8. SegmentStep \/ HandleFault \/ GrowingCall \/ Over \/ UNCHANGED vars
            => UNCHANGED instruction
      BY DEF SegmentStep, ClaimPage, AddPage, Expect, RemovePages, HandleFault,
             GrowingCall, CreateProcess, DestroyProcess, CreateSegment,
             LoadSegment, testVars, Over, vars
    <2> QED
      BY <1>5, <2>1, <2>2, <2>3, <2>4, <2>5, <2>6, <2>7, <2>8
         DEF SerialNext, InstructionStep
  <1> QED
    BY <1>1, <1>2, <1>3, <1>4, <1>5, WhatIsWritten

\* Paging is invisible: to the programs the pages they were given are a memory
\* in which every fetch returns what was last written.
THEOREM SerialActsAsMemory == SerialSpec => ActsAsMemory
  BY MemoryStart, MemoryStep, SerialInvariant, PTL
     DEF SerialSpec, ActsAsMemory, Memory!Spec, Reply

-----------------------------------------------------------------------------
(* Cloning.  A clone call runs alone, the tables and entries it copies are    *)
(* those of a directory and a table, and the entry whose page is being copied *)
(* stays initialised: the frame read from its "block" is one.                 *)

CloneInv ==
  /\ TypeInv
  /\ clone \in CloneCall \union {Idle}
  /\ clone # Idle =>
       /\ Quiet
       /\ clone.pc \in {"entry", "copy"} => clone.dir \in Dirs
       /\ clone.pc = "copy" => pmt[Original].init

\* The entries of the loop are entries, and copying one keeps descriptors
\* well-formed.
LEMMA CopiedEntry ==
  ASSUME KernelTypeOK, clone \in CloneCall
  PROVE  /\ Original \in PageDescr /\ Copy \in PageDescr
         /\ Copied \in [PageDescr -> PageDescriptor]
         /\ \A x \in PageDescr :
              Copied[x] = IF x = Copy THEN pmt[Original] ELSE pmt[x]
  <1> DEFINE q == clone.table * MAX_PMT_ENTRIES + clone.entry
  <1>1. /\ MAX_PMT_TABLES \in Nat \ {0} /\ MAX_PMT_ENTRIES \in Nat \ {0}
        /\ clone.table \in 0 .. MAX_PMT_TABLES - 1
        /\ clone.entry \in 0 .. MAX_PMT_ENTRIES - 1
        /\ clone.p \in Processes /\ clone.id \in Processes
    BY SizeAssumption DEF CloneCall, Dirs
  <1>2. q \in Pages
    BY <1>1, PageOfEntry DEF Dirs
  <1>3. Original \in PageDescr /\ Copy \in PageDescr
    BY <1>1, <1>2 DEF Original, Copy, PageDescr
  <1> QED
    BY <1>3 DEF Copied, KernelTypeOK

\* A directory entry and the one after it are within what the loop may index.
LEMMA DirIsIndex ==
  ASSUME NEW dir \in Dirs
  PROVE  /\ dir \in 0 .. MAX_PMT_TABLES + MaxBehind
         /\ dir + 1 \in 0 .. MAX_PMT_TABLES + MaxBehind
         /\ dir + 1 <= MAX_PMT_TABLES
  BY SizeAssumption, BehindAssumption DEF Dirs

\* On to the next entry or table.
LEMMA NextEntryInv ==
  ASSUME clone \in CloneCall, NEW dir \in Dirs, NextEntry(dir)
  PROVE  /\ clone' \in CloneCall /\ clone'.pc \in {"dir", "entry"}
         /\ clone'.pc = "entry" => clone'.dir \in Dirs
         /\ clone'.dir <= MAX_PMT_TABLES
  <1>1. /\ dir + 1 \in 0 .. MAX_PMT_TABLES + MaxBehind
        /\ dir <= MAX_PMT_TABLES /\ dir + 1 <= MAX_PMT_TABLES
    BY SizeAssumption, DirIsIndex DEF Dirs
  <1>2. CASE clone.entry = MAX_PMT_ENTRIES - 1
    BY <1>1, <1>2 DEF NextEntry, NextTable, CloneCall
  <1>3. CASE clone.entry # MAX_PMT_ENTRIES - 1
    <2>1. clone.entry + 1 \in 0 .. MAX_PMT_ENTRIES - 1
      BY <1>3, SizeAssumption DEF CloneCall
    <2> QED
      BY <1>1, <1>3, <2>1, DirIsIndex DEF NextEntry, CloneCall
  <1> QED
    BY <1>2, <1>3

\* A step of the programs does not take place inside a clone call.
LEMMA ProgramStepClone ==
  ASSUME CloneInv, SegmentStep \/ InstructionStep
  PROVE  clone = Idle
  <1>1. CASE SegmentStep
    <2>1. segment.pc \in {"alloc", "fill", "free"}
      <3>1. ClaimPage => segment.pc = "alloc"
        BY DEF ClaimPage, AllocPage, AllocPageDiskFull
      <3>2. AddPage => segment.pc = "fill"
        BY DEF AddPage, FillCreatedPage, FillLoadedPage
      <3>3. RemovePages => segment.pc = "free"
        BY DEF RemovePages, FreePage
      <3> QED
        BY <1>1, <3>1, <3>2, <3>3 DEF SegmentStep
    <2> QED
      BY <2>1 DEF CloneInv, Quiet, Idle
  <1>2. CASE InstructionStep
    <2>1. \E pc \in {"access", "fault", "retry", "translate", "touch", "check"} :
            At(pc)
      BY <1>2 DEF InstructionStep, Access, HandleFault, FaultServed, Translate,
                  Store, Fetch, CheckValue
    <2> QED
      BY <2>1 DEF CloneInv, Quiet, Idle, At
  <1> QED
    BY <1>1, <1>2

\* What a program does outside clone calls it may do in SystemTest.
LEMMA CloneProgramStep ==
  GrowingCall \/ BeginAny \/ SegmentStep \/ InstructionStep => Next
  <1>1. {"EXECUTE", "READ_WRITE"} = {"EXECUTE"} \union {"READ_WRITE"}
    OBVIOUS
  <1>2. GrowingCall => AnyCall
    BY <1>1 DEF GrowingCall, AnyCall
  <1> QED
    BY <1>2 DEF Next

\* A clone call begins, or its outer loop goes on.
LEMMA CloneDirInv ==
  ASSUME CloneInv,
         \/ (Quiet /\ clone = Idle /\ \E p \in Processes : StartClone(p))
         \/ SkipMissingTable \/ CopyTable \/ PassNothing \/ FinishClone
  PROVE  CloneInv' /\ UNCHANGED <<pmtTable, fifoQueue>>
  <1> USE DEF CloneInv, TypeInv, TypeOK
  <1>0. /\ 0 \in Dirs /\ 0 \in Frames /\ 0 \in 0 .. MAX_PMT_ENTRIES - 1
        /\ \A dir \in Dirs : /\ dir \in 0 .. MAX_PMT_TABLES + MaxBehind
                              /\ dir + 1 \in 0 .. MAX_PMT_TABLES + MaxBehind
    <2>1. 0 \in Dirs /\ 0 \in Frames /\ 0 \in 0 .. MAX_PMT_ENTRIES - 1
      BY SizeAssumption DEF Dirs, Frames
    <2> QED
      BY <2>1, DirIsIndex
  <1>1. ASSUME Quiet, clone = Idle, NEW p \in Processes, StartClone(p)
        PROVE  CloneInv' /\ UNCHANGED <<pmtTable, fifoQueue>>
    <2>1. PID \in Processes /\ PID + 1 \in 0 .. MaxProcesses
      BY <1>1, SizeAssumption DEF StartClone, KernelTypeOK, Processes
    <2>2. clone' \in CloneCall /\ clone'.pc = "dir"
      BY <1>0, <1>1, <2>1 DEF StartClone, CloneCall
    <2>3. KernelTypeOK' /\ UNCHANGED <<pmtTable, fifoQueue, callVars, testVars, pmt>>
      BY <1>1, <2>1 DEF StartClone, KernelTypeOK
    <2>4. TypeInv' /\ Quiet'
      BY <1>1, <2>3, QuietBlocks, QuietTypeInv DEF Quiet, callVars, testVars
    <2> QED
      BY <2>2, <2>3, <2>4
  <1>2. CASE SkipMissingTable
    <2>1. clone \in CloneCall /\ clone.dir \in Dirs
      BY <1>2, SizeAssumption, BehindAssumption
         DEF SkipMissingTable, Idle, CloneCall, Dirs
    <2>2. clone' \in CloneCall /\ clone'.pc = "dir"
      BY <1>0, <1>2, <2>1 DEF SkipMissingTable, NextTable, CloneCall
    <2>3. TypeInv'
      BY <1>2, NextTypeInv DEF SkipMissingTable
    <2> QED
      BY <1>2, <2>1, <2>2, <2>3
         DEF SkipMissingTable, vars, kernelVars, callVars, Quiet, Idle, CloneCall
  <1>3. CASE CopyTable
    <2>1. clone \in CloneCall /\ clone.dir \in Dirs /\ clone # Idle
      BY <1>3, SizeAssumption, BehindAssumption DEF CopyTable, Idle, CloneCall, Dirs
    <2>2. clone' \in CloneCall /\ clone'.pc = "entry" /\ clone'.dir \in Dirs
      BY <1>0, <1>3, <2>1 DEF CopyTable, CloneCall
    <2>3. KernelTypeOK' /\ UNCHANGED <<pmtTable, fifoQueue, callVars, testVars, pmt>>
      BY <1>3, <2>1 DEF CopyTable, KernelTypeOK, CloneCall
    <2>4. TypeInv' /\ Quiet'
      BY <2>1, <2>3, QuietBlocks, QuietTypeInv DEF Quiet, callVars, testVars
    <2> QED
      BY <2>2, <2>3, <2>4
  <1>4. CASE FinishClone
    <2>1. clone \in CloneCall /\ clone # Idle
      BY <1>4 DEF FinishClone, Idle, CloneCall
    <2>2. KernelTypeOK'
      BY <1>4, <2>1 DEF FinishClone, KernelTypeOK, CloneCall
    <2>3. lastWritten' \in [PageDescr -> Contents \union {nullptr}]
      <3>1. \A pd \in PageDescr : <<clone.p, pd[2]>> \in PageDescr
        BY <2>1 DEF CloneCall, PageDescr
      <3> QED
        BY <1>4, <3>1 DEF FinishClone
    <2>4. UNCHANGED <<pmtTable, fifoQueue, callVars, instruction, pmt>>
      BY <1>4 DEF FinishClone
    <2>5. TypeInv' /\ Quiet'
      BY <2>1, <2>2, <2>3, <2>4, QuietBlocks, QuietTypeInv DEF Quiet, callVars
    <2> QED
      BY <1>4, <2>4, <2>5 DEF FinishClone
  <1>5. CASE PassNothing
    <2>1. clone \in CloneCall /\ clone.dir + 1 \in 0 .. MAX_PMT_TABLES + MaxBehind
      BY <1>5, SizeAssumption, BehindAssumption DEF PassNothing, Idle, CloneCall
    <2>2. clone' \in CloneCall /\ clone'.pc = "dir"
      BY <1>5, <2>1 DEF PassNothing, NextTable, CloneCall
    <2>3. TypeInv'
      BY <1>5, NextTypeInv DEF PassNothing
    <2> QED
      BY <1>5, <2>1, <2>2, <2>3
         DEF PassNothing, vars, kernelVars, callVars, Quiet, Idle, CloneCall
  <1> QED
    BY <1>1, <1>2, <1>3, <1>4, <1>5

\* The page of an entry is copied.
LEMMA CloneEntryInv ==
  ASSUME CloneInv,
         \/ SkipEntry \/ LeaveDirectory
         \/ CopyEntry \/ ClaimFrame \/ CopyPage \/ CopyCluster
  PROVE  CloneInv' /\ (VictimIsReal => VictimIsReal')
  <1> USE DEF CloneInv, TypeInv, TypeOK
  <1>1. /\ clone \in CloneCall /\ clone # Idle /\ clone.pc \in {"entry", "copy"}
        /\ clone.dir \in Dirs /\ Quiet /\ segment = Idle /\ KernelTypeOK
    <2>1. clone.pc \in {"entry", "copy"}
      BY DEF SkipEntry, LeaveDirectory, PassEntry, CopyEntry, ClaimFrame, CopyPage,
             CopyCluster
    <2>2. clone # Idle
      BY <2>1 DEF Idle
    <2> QED
      BY <2>1, <2>2 DEF Quiet
  <1>2. /\ Original \in PageDescr /\ Copy \in PageDescr
        /\ Copied \in [PageDescr -> PageDescriptor]
        /\ \A x \in PageDescr :
             Copied[x] = IF x = Copy THEN pmt[Original] ELSE pmt[x]
    BY <1>1, CopiedEntry
  <1>3. /\ \A x \in PageDescr : EntryAssigned(pmt[x])
        /\ \A x \in PageDescr : EntryAssigned(Copied[x])
    BY <1>1, <1>2, QuietBlocks
  <1>4. ASSUME UNCHANGED <<pmtTable, fifoQueue>>
        PROVE  VictimIsReal => VictimIsReal'
    BY <1>4 DEF VictimIsReal, Queued
  <1>5. ASSUME PassEntry
        PROVE  /\ TypeInv' /\ Quiet'
               /\ VictimIsReal => VictimIsReal'
    <2>1. PICK rest \in LeftOver : pmt' = [pmt EXCEPT ![Copy] = rest]
      BY <1>5 DEF PassEntry
    <2>2. rest \in PageDescriptor /\ EntryAssigned(rest)
      <3>1. FreshEntry \in PageDescriptor /\ EntryAssigned(FreshEntry)
        BY SizeAssumption DEF FreshEntry, PageDescriptor, Clusters, EntryAssigned
      <3>2. 0 \in Frames /\ numOfClusters - 1 \in Clusters /\ "READ" \in AccessType
        BY SizeAssumption DEF Frames, Clusters, AccessType
      <3>3. ~FreshEntry.init
        BY DEF FreshEntry
      <3> DEFINE set == [FreshEntry EXCEPT !.valid = TRUE, !.dirty = TRUE,
                                           !.rwe = "READ", !.block = 0,
                                           !.disk = numOfClusters - 1]
      <3>4. set \in PageDescriptor
        BY <3>1, <3>2 DEF PageDescriptor
      <3>5. set.numOfPages = FreshEntry.numOfPages /\ set.init = FreshEntry.init
        BY <3>1 DEF PageDescriptor
      <3>6. EntryAssigned(set)
        BY <3>1, <3>3, <3>5 DEF EntryAssigned
      <3>7. rest = FreshEntry \/ rest = set
        BY DEF LeftOver
      <3> QED
        BY <3>1, <3>4, <3>6, <3>7
    <2>3. /\ pmt' \in [PageDescr -> PageDescriptor]
          /\ \A x \in PageDescr : EntryAssigned(pmt'[x])
      BY <1>1, <1>2, <1>3, <2>1, <2>2 DEF KernelTypeOK
    <2>4. UNCHANGED <<pmtTable, fifoQueue, segment, fault, instruction, lastWritten>>
      BY <1>5 DEF PassEntry, callVars, testVars
    <2>5. KernelTypeOK'
      BY <1>1, <1>5, <2>3 DEF PassEntry, KernelTypeOK
    <2>6. TypeInv'
      BY <1>1, <2>3, <2>4, <2>5, QuietTypeInv
    <2> QED
      BY <1>1, <1>4, <2>4, <2>6 DEF Quiet
  <1>11. CASE SkipEntry
    <2>1. clone.dir + 1 \in Dirs
      BY <1>1, <1>11, SizeAssumption DEF SkipEntry, Dirs
    <2>2. /\ clone' \in CloneCall /\ clone'.pc \in {"dir", "entry"}
          /\ clone'.pc = "entry" => clone'.dir \in Dirs
      BY <1>1, <1>11, <2>1, NextEntryInv DEF SkipEntry
    <2> QED
      BY <1>5, <1>11, <2>2 DEF SkipEntry
  <1>12. CASE LeaveDirectory
    <2>1. clone' \in CloneCall /\ clone'.pc = "dir"
      <3>1. MAX_PMT_TABLES + 1 \in 0 .. MAX_PMT_TABLES + MaxBehind
        BY SizeAssumption, BehindAssumption
      <3> QED
        BY <1>1, <1>12, <3>1 DEF LeaveDirectory, NextTable, CloneCall
    <2> QED
      BY <1>5, <1>12, <2>1 DEF LeaveDirectory
  <1>6. ASSUME NextEntry(clone.dir), TypeInv', Quiet'
        PROVE  CloneInv'
    BY <1>1, <1>6, NextEntryInv
  <1>7. CASE CopyEntry
    <2>1. /\ pmt' = Copied /\ NextEntry(clone.dir)
          /\ UNCHANGED <<pmtTable, fifoQueue, segment, fault, instruction,
                         lastWritten>>
      BY <1>7 DEF CopyEntry, callVars, testVars
    <2>2. KernelTypeOK'
      BY <1>2, <1>7 DEF CopyEntry, KernelTypeOK
    <2>3. TypeInv'
      BY <1>1, <1>3, <2>1, <2>2, QuietTypeInv
    <2> QED
      BY <1>1, <1>4, <1>6, <2>1, <2>3 DEF Quiet
  <1>8. CASE ClaimFrame
    <2>1. PICK f \in Frames :
            /\ getFreeFrame(Original, Copied, f)
            /\ clone' = [clone EXCEPT !.pc = "copy", !.frame = f]
      BY <1>8 DEF ClaimFrame
    <2>2. /\ FrameTableTypeOK'
          /\ \A x \in PageDescr :
               /\ pmt'[x].init = Copied[x].init
               /\ pmt'[x].numOfPages = Copied[x].numOfPages
               /\ pmt'[x].block = Copied[x].block
      BY <1>1, <1>2, <2>1, GetFreeFrameType
    <2>3. UNCHANGED <<memory, listOfProcesses, PID, exited, pageDirectory,
                      segment, fault, instruction, lastWritten>>
      BY <1>8, <2>1 DEF getFreeFrame, ClaimFrame, callVars, testVars
    <2>4. KernelTypeOK'
      BY <1>1, <2>2, <2>3 DEF KernelTypeOK, FrameTableTypeOK
    <2>5. \A x \in PageDescr : EntryAssigned(pmt'[x])
      BY <1>3, <2>2 DEF EntryAssigned
    <2>6. TypeInv' /\ Quiet'
      BY <1>1, <2>3, <2>4, <2>5, QuietTypeInv DEF Quiet
    <2>7. clone' \in CloneCall /\ clone'.dir \in Dirs
      BY <1>1, <2>1 DEF CloneCall
    <2>8. Original' = Original
      BY <1>1, <2>1 DEF Original, CloneCall
    <2>9. pmt'[Original].init
      <3>1. pmt[Original].init
        BY <1>8 DEF ClaimFrame
      <3> QED
        BY <1>2, <2>2, <3>1
    <2>10. VictimIsReal => VictimIsReal'
      BY <1>1, <1>2, <2>1, GetFreeFrameVictim
    <2> QED
      BY <2>6, <2>7, <2>8, <2>9, <2>10
  <1>9. CASE CopyPage
    <2>1. /\ pmt' = [pmt EXCEPT ![Copy].block = clone.frame]
          /\ memory' = [memory EXCEPT ![clone.frame] = memory[pmt[Original].block]]
          /\ NextEntry(clone.dir)
          /\ UNCHANGED <<pmtTable, fifoQueue, segment, fault, instruction,
                         lastWritten>>
      BY <1>9 DEF CopyPage, callVars, testVars
    <2>2. /\ clone.frame \in Frames /\ pmt[Original].block \in Frames
          /\ pmt[Copy] \in PageDescriptor
      BY <1>1, <1>2, <1>3, <1>9
         DEF CopyPage, CloneCall, EntryAssigned, KernelTypeOK
    <2>3. /\ pmt' \in [PageDescr -> PageDescriptor]
          /\ \A x \in PageDescr : EntryAssigned(pmt'[x])
      <3> DEFINE entry == [pmt[Copy] EXCEPT !.block = clone.frame]
      <3>1. /\ entry \in PageDescriptor
            /\ entry.init = pmt[Copy].init
            /\ entry.numOfPages = pmt[Copy].numOfPages
            /\ entry.block = clone.frame
        BY <2>2 DEF PageDescriptor
      <3>2. pmt' = [pmt EXCEPT ![Copy] = entry]
        BY <2>1
      <3> HIDE DEF entry
      <3> QED
        BY <1>1, <1>2, <1>3, <2>2, <3>1, <3>2 DEF KernelTypeOK, EntryAssigned
    <2>4. memory' \in [Frames -> Contents]
      BY <1>1, <2>1, <2>2 DEF KernelTypeOK
    <2>5. KernelTypeOK'
      BY <1>1, <1>9, <2>3, <2>4 DEF CopyPage, KernelTypeOK
    <2>6. TypeInv'
      BY <1>1, <2>1, <2>3, <2>5, QuietTypeInv
    <2> QED
      BY <1>1, <1>4, <1>6, <2>1, <2>6 DEF Quiet
  <1>10. CASE CopyCluster
    <2>1. PICK c \in Clusters :
            /\ getFreeCluster(c)
            /\ partition' = [partition EXCEPT ![c] = partition[pmt[Original].disk]]
            /\ pmt' = [Copied EXCEPT ![Copy].disk = c]
      BY <1>10 DEF CopyCluster
    <2>2. /\ NextEntry(clone.dir)
          /\ UNCHANGED <<pmtTable, fifoQueue, memory, segment, fault,
                         instruction, lastWritten>>
      BY <1>10 DEF CopyCluster, callVars, testVars
    <2>3. /\ Copied[Copy] = pmt[Original] /\ pmt[Original] \in PageDescriptor
          /\ pmt[Original].disk \in Clusters
      BY <1>1, <1>2 DEF KernelTypeOK, PageDescriptor
    <2>4. /\ pmt' \in [PageDescr -> PageDescriptor]
          /\ \A x \in PageDescr : EntryAssigned(pmt'[x])
      <3> DEFINE entry == [pmt[Original] EXCEPT !.disk = c]
      <3>1. /\ entry \in PageDescriptor
            /\ entry.init = pmt[Original].init
            /\ entry.numOfPages = pmt[Original].numOfPages
            /\ entry.block = pmt[Original].block
        BY <2>3 DEF PageDescriptor
      <3>2. pmt' = [Copied EXCEPT ![Copy] = entry]
        BY <2>1, <2>3
      <3> HIDE DEF entry
      <3> QED
        BY <1>2, <1>3, <3>1, <3>2 DEF EntryAssigned
    <2>5. partition' \in [Clusters -> Contents] /\ diskTable' \in [Clusters -> BOOLEAN]
      BY <1>1, <2>1, <2>3 DEF getFreeCluster, KernelTypeOK
    <2>6. KernelTypeOK'
      BY <1>1, <1>10, <2>4, <2>5 DEF CopyCluster, KernelTypeOK
    <2>7. TypeInv'
      BY <1>1, <2>2, <2>4, <2>6, QuietTypeInv
    <2> QED
      BY <1>1, <1>4, <1>6, <2>2, <2>7 DEF Quiet
  <1> QED
    BY <1>7, <1>8, <1>9, <1>10, <1>11, <1>12

\* A clone call that ends the program.
LEMMA CloneExitInv ==
  ASSUME CloneInv, FollowWildPointer \/ CloneDiskFull
  PROVE  CloneInv' /\ UNCHANGED <<pmtTable, fifoQueue>>
  <1>1. PICK reason \in ExitReasons : Exit(reason)
    BY DEF FollowWildPointer, CloneDiskFull, ExitReasons
  <1>2. UNCHANGED <<clone, callVars, testVars>>
    BY DEF FollowWildPointer, CloneDiskFull
  <1>3. TypeInv'
    BY <1>1, <1>2, ExitTypeInv DEF CloneInv
  <1>4. UNCHANGED <<pmt, pmtTable, fifoQueue>>
    BY <1>1 DEF Exit
  <1> QED
    BY <1>2, <1>3, <1>4 DEF CloneInv, callVars, testVars, Quiet, Original

\* Every step keeps the invariant and the frame table in order.
LEMMA CloneNextInv ==
  CloneInv /\ [CloneNext]_cloneVars =>
    CloneInv' /\ (VictimIsReal => VictimIsReal')
  <1> SUFFICES ASSUME CloneInv, [CloneNext]_cloneVars
               PROVE  CloneInv' /\ (VictimIsReal => VictimIsReal')
    OBVIOUS
  <1>1. ASSUME UNCHANGED <<pmtTable, fifoQueue>>
        PROVE  VictimIsReal => VictimIsReal'
    BY <1>1 DEF VictimIsReal, Queued
  <1>2. ASSUME GrowingCall \/ BeginAny \/ SegmentStep \/ InstructionStep,
               clone = Idle, UNCHANGED clone
        PROVE  CloneInv' /\ (VictimIsReal => VictimIsReal')
    BY <1>2, CloneProgramStep, NextTypeInv, NextVictim DEF CloneInv
  <1>3. ASSUME UNCHANGED cloneVars
        PROVE  CloneInv' /\ (VictimIsReal => VictimIsReal')
    <2>1. TypeInv' /\ UNCHANGED clone
      BY <1>3, NextTypeInv DEF CloneInv, cloneVars
    <2>2. UNCHANGED <<segment, instruction, pmt, pmtTable, fifoQueue>>
      BY <1>3 DEF cloneVars, vars, kernelVars, callVars
    <2> QED
      BY <1>1, <2>1, <2>2 DEF CloneInv, Quiet, Original
  <1>4. CASE CloneStep
    BY <1>1, <1>4, CloneDirInv, CloneEntryInv, CloneExitInv DEF CloneStep
  <1>5. CASE Quiet /\ clone = Idle /\ \E p \in Processes : StartClone(p)
    BY <1>1, <1>5, CloneDirInv
  <1>6. CASE (SegmentStep \/ InstructionStep) /\ UNCHANGED clone
    BY <1>2, <1>6, ProgramStepClone
  <1> QED
    BY <1>2, <1>3, <1>4, <1>5, <1>6 DEF CloneNext, CloneOver

\* The invariant holds at the start.
LEMMA CloneInitInv == CloneInit => CloneInv
  BY InitTypeInv DEF CloneInit, CloneInv

\* Cloning keeps every table well-formed, for any number of processes, frames,
\* clusters and pages: the tables and entries that clone() copies are those of a
\* directory and a table, and the frame whose contents are copied is one.  The
\* index it looks for tables with is bounded by MaxBehind alone: it may leave the
\* directory (see CloneIndex).
THEOREM CloneTypeCorrect == CloneSpec => []CloneTypeOK
  <1>1. CloneInv => CloneTypeOK
    BY DEF CloneInv, CloneTypeOK, TypeInv
  <1>2. CloneInv /\ [CloneNext]_cloneVars => CloneInv'
    BY CloneNextInv
  <1> QED
    BY <1>1, <1>2, CloneInitInv, PTL DEF CloneSpec

\* Cloning a process leaves no frame in use without a descriptor, and none that
\* replacement would not come to, although it registers the frames of the new
\* pages for the entries of the parent.
THEOREM CloneVictimReal == CloneSpec => []VictimIsReal
  <1>1. CloneInit => VictimIsReal
    BY DEF CloneInit, Init, KernelInit, VictimIsReal, Queued
  <1>2. CloneInv /\ [CloneNext]_cloneVars => CloneInv'
    BY CloneNextInv
  <1>3. CloneInv /\ VictimIsReal /\ [CloneNext]_cloneVars => VictimIsReal'
    BY CloneNextInv
  <1> QED
    BY <1>1, <1>2, <1>3, CloneInitInv, PTL DEF CloneSpec

-----------------------------------------------------------------------------
(* A clone is a copy.  The loop is followed page by page, through whatever    *)
(* replacements its own getFreeFrame causes.  A frame of the clone is         *)
(* registered for the parent's page, so if replacement came to it, it would   *)
(* put out the wrong page: it does not come to it during the call, since the  *)
(* frames the call has claimed are the last in the queue and the page that is *)
(* being copied has one before them.                                          *)

\* The page the loop has come to.
ClonePosition ==
  IF clone.pc = "dir" THEN clone.dir * MAX_PMT_ENTRIES ELSE Original[2]

\* The pages it has copied.
Passed(q) == q < ClonePosition /\ Mapped(<<clone.p, q>>)

\* The frames it has claimed.
OwnFrame(f) ==
  \/ \E q \in Pages : /\ Passed(q)
                      /\ pmt[<<clone.id, q>>].valid
                      /\ pmt[<<clone.id, q>>].block = f
  \/ clone.pc = "copy" /\ f = clone.frame

\* A table that is being copied is there, in the clone as well.
TableInv ==
  /\ fault = Idle
  /\ clone.pc \in {"entry", "copy"} =>
       /\ clone.table = clone.dir
       /\ clone.dir \in pageDirectory[clone.p]
       /\ clone.dir \in pageDirectory[clone.id]

\* Between getFreeFrame and the copy: the entry is that of a page in memory, the
\* frame is registered for the parent's page, and what is to be copied is still
\* where "block" of the parent's page says, even if that page has gone.
ClaimInv ==
  clone.pc = "copy" =>
    /\ pmt[Copy].init /\ pmt[Copy].valid
    /\ HeldBy(clone.frame, Original)
    /\ pmt[Original].valid => pmt[Original].block # clone.frame
    /\ lastWritten[Original] \in Values =>
         memory[pmt[Original].block] = lastWritten[Original]

\* A valid page that is not the clone's is in its frame; no frame is registered
\* for a page of the clone, and one the call has not claimed holds its page.
RegisteredInv ==
  /\ \A x \in PageDescr :
       x[1] # clone.id /\ pmt[x].init /\ pmt[x].valid => HeldBy(pmt[x].block, x)
  /\ \A f \in Frames, x \in PageDescr :
       HeldBy(f, x) => x[1] # clone.id /\ pmt[x].init
  /\ \A f \in Frames, x \in PageDescr :
       HeldBy(f, x) /\ ~OwnFrame(f) => pmt[x].valid /\ pmt[x].block = f

\* The frames claimed are the last in the queue.
ClaimedLast ==
  /\ QueuedOnce
  /\ QueueInjective
  /\ \A i, j \in DOMAIN fifoQueue :
       i < j /\ OwnFrame(fifoQueue[i]) => OwnFrame(fifoQueue[j])

\* A cluster is one page's, of a parent or of the clone.
CloneDiskInv ==
  /\ DiskInv
  /\ \A q \in Pages : q >= ClonePosition => pmt[<<clone.id, q>>].disk = 0

\* Nothing is lost of the processes that are there.
OthersContents ==
  \A x \in PageDescr : x[1] # clone.id /\ lastWritten[x] \in Values =>
    /\ pmt[x].init
    /\ ContentsOf(x) = lastWritten[x]
    /\ pmt[x].valid /\ ~pmt[x].dirty => pmt[x].sourceAddress = lastWritten[x]

\* The pages passed are copied, to places of their own.
CopiesInv ==
  \A q \in Pages : Passed(q) =>
    LET parent == <<clone.p, q>>
        copy   == <<clone.id, q>>
    IN  /\ Mapped(copy)
        /\ lastWritten[parent] \in Values => ContentsOf(copy) = lastWritten[parent]
        /\ pmt[copy].valid =>
             /\ HeldBy(pmt[copy].block, parent)
             /\ pmt[parent].valid => pmt[copy].block # pmt[parent].block

CopyingInv ==
  /\ TableInv
  /\ ClaimInv
  /\ RegisteredInv
  /\ ClaimedLast
  /\ CloneDiskInv
  /\ OthersContents
  /\ CopiesInv

\* While a process is cloned, what has been copied is a copy, and no step of the
\* call takes any of it away again; before, the program is a serial one.
CopyInv ==
  /\ CloneInv
  /\ VictimIsReal
  /\ clone = Idle /\ PID < MaxProcesses => SerialInv
  /\ clone # Idle => /\ clone.p # clone.id
                     /\ PID = MaxProcesses
                     /\ exited = "no" /\ TablesFull(clone.p) =>
                          CopyingInv /\ clone.dir <= MAX_PMT_TABLES

\* The table and the entry of a page that is given by them.
LEMMA EntryIsOfTable ==
  ASSUME NEW dir \in Nat, NEW entry \in 0 .. MAX_PMT_ENTRIES - 1
  PROVE  /\ DirOf(dir * MAX_PMT_ENTRIES + entry) = dir
         /\ EntryOf(dir * MAX_PMT_ENTRIES + entry) = entry
  <1>1. PICK m \in Nat \ {0} : m = MAX_PMT_ENTRIES
    BY SizeAssumption
  <1>2. PICK e \in Nat : e = entry /\ e < m
    BY <1>1
  <1>3. PICK page \in Nat : page = dir * m + e
    <2>1. dir * m + e \in Nat
      BY <1>1
    <2> QED
      BY <2>1
  <1>4. PICK d, r \in Nat :
          /\ d = DirOf(page) /\ r = EntryOf(page) /\ r < m
          /\ page = d * m + r
    <2>1. /\ DirOf(page) \in Nat /\ EntryOf(page) \in 0 .. m - 1
          /\ page = DirOf(page) * m + EntryOf(page)
      BY <1>1, EntryOfPage
    <2> QED
      BY <2>1
  <1>5. \A x, y \in Nat : x < y => x * m + m <= y * m
    <2> SUFFICES ASSUME NEW x \in Nat, NEW y \in Nat, x < y
                 PROVE  x * m + m <= y * m
      OBVIOUS
    <2>1. PICK z \in Nat : y = x + 1 + z
      <3>1. y - x - 1 \in Nat /\ y = x + 1 + (y - x - 1)
        OBVIOUS
      <3> QED
        BY <3>1
    <2>2. y * m = x * m + m + z * m /\ z * m \in Nat /\ x * m \in Nat
      BY <2>1
    <2> QED
      BY <2>2
  <1>6. PICK s, t \in Nat : s = dir * m /\ t = d * m
    <2>1. dir * m \in Nat /\ d * m \in Nat
      OBVIOUS
    <2> QED
      BY <2>1
  <1>7. /\ s + e = t + r
        /\ dir < d => s + m <= t
        /\ d < dir => t + m <= s
    BY <1>3, <1>4, <1>5, <1>6
  <1>8. ~(dir < d) /\ ~(d < dir)
    BY <1>2, <1>4, <1>7
  <1>9. dir = d
    BY <1>8
  <1>10. e = r
    BY <1>6, <1>7, <1>9
  <1> QED
    BY <1>1, <1>2, <1>3, <1>4, <1>9, <1>10

\* The entry that is copied is that of the page the loop has come to, which has
\* a table in parent and clone and is initialised.
LEMMA CloneAt ==
  ASSUME CloneInv, clone # Idle, TableInv, TablesFull(clone.p),
         clone.pc \in {"entry", "copy"}
  PROVE  /\ ClonePosition \in Pages
         /\ Original = <<clone.p, ClonePosition>>
         /\ Copy = <<clone.id, ClonePosition>>
         /\ Original \in PageDescr /\ Copy \in PageDescr
         /\ HasTable(Original) /\ HasTable(Copy)
         /\ pmt[Original].init
  <1>1. /\ clone \in CloneCall /\ clone.table = clone.dir
        /\ clone.dir \in pageDirectory[clone.p]
        /\ clone.dir \in pageDirectory[clone.id]
        /\ clone.dir \in Dirs /\ clone.entry \in 0 .. MAX_PMT_ENTRIES - 1
        /\ clone.p \in Processes /\ clone.id \in Processes
    BY DEF CloneInv, TableInv, CloneCall
  <1>2. PICK q : q = clone.table * MAX_PMT_ENTRIES + clone.entry
    OBVIOUS
  <1>3. q \in Pages /\ DirOf(q) = clone.dir
    <2>1. clone.dir \in Nat
      BY <1>1, SizeAssumption DEF Dirs
    <2> QED
      BY <1>1, <1>2, <2>1, PageOfEntry, EntryIsOfTable
  <1>4. Original = <<clone.p, q>> /\ Copy = <<clone.id, q>> /\ ClonePosition = q
    BY <1>2 DEF Original, Copy, ClonePosition
  <1>5. HasTable(<<clone.p, q>>) /\ HasTable(<<clone.id, q>>)
    BY <1>1, <1>3 DEF HasTable
  <1> QED
    BY <1>1, <1>3, <1>4, <1>5 DEF TablesFull, PageDescr

\* The loop goes on to the next page.
LEMMA ClonePositionNext ==
  ASSUME CloneInv, clone # Idle, clone.pc \in {"entry", "copy"}, TableInv,
         NextEntry(clone.dir)
  PROVE  /\ ClonePosition' = ClonePosition + 1
         /\ clone'.p = clone.p /\ clone'.id = clone.id
         /\ clone'.pc \in {"dir", "entry"}
         /\ clone'.pc = "entry" =>
              clone'.table = clone.dir /\ clone'.dir = clone.dir
  <1>1. clone \in CloneCall /\ clone.table = clone.dir
    BY DEF CloneInv, TableInv
  <1>2. PICK d, e, m \in Nat :
          d = clone.dir /\ e = clone.entry /\ m = MAX_PMT_ENTRIES
    BY <1>1, SizeAssumption DEF CloneInv, CloneCall, Dirs
  <1>3. ClonePosition = d * m + e
    BY <1>1, <1>2 DEF ClonePosition, Original
  <1>4. d * m \in Nat /\ (d + 1) * m = d * m + m
    BY <1>2
  <1>5. CASE clone.entry = MAX_PMT_ENTRIES - 1
    <2>1. clone' = [clone EXCEPT !.pc = "dir", !.dir = clone.dir + 1]
      BY <1>5 DEF NextEntry, NextTable
    <2>2. /\ clone'.pc = "dir" /\ clone'.dir = d + 1
          /\ clone'.p = clone.p /\ clone'.id = clone.id
      BY <1>1, <1>2, <2>1 DEF CloneCall
    <2>3. ClonePosition' = (d + 1) * m
      BY <1>2, <2>2 DEF ClonePosition
    <2>4. e = m - 1
      BY <1>2, <1>5
    <2> QED
      BY <1>3, <1>4, <2>2, <2>3, <2>4
  <1>6. CASE clone.entry # MAX_PMT_ENTRIES - 1
    <2>1. clone' = [clone EXCEPT !.pc = "entry", !.entry = clone.entry + 1,
                                 !.dir = clone.dir]
      BY <1>6 DEF NextEntry
    <2>2. /\ clone'.pc = "entry" /\ clone'.dir = d /\ clone'.table = d
          /\ clone'.p = clone.p /\ clone'.id = clone.id /\ clone'.entry = e + 1
      BY <1>1, <1>2, <2>1 DEF CloneCall
    <2>3. ClonePosition' = d * m + (e + 1)
      BY <1>2, <2>2 DEF ClonePosition, Original
    <2> QED
      BY <1>2, <1>3, <1>4, <2>2, <2>3
  <1> QED
    BY <1>5, <1>6

\* The call begins: nothing is copied, and what a serial program may rely on is
\* true of all processes, the clone having no pages.
LEMMA CopyStart ==
  ASSUME SerialInv, CloneInv, Quiet, clone = Idle, NEW p \in Processes,
         StartClone(p)
  PROVE  CopyingInv' /\ clone'.p # clone'.id /\ clone' # Idle
  <1>1. /\ clone'.pc = "dir" /\ clone'.p = p /\ clone'.id = PID
        /\ clone'.dir = 0 /\ clone' # Idle
    BY DEF StartClone, Idle
  <1>2. /\ UNCHANGED <<pmtTable, fifoQueue, diskTable, memory, partition,
                       pageDirectory, pmt, lastWritten, segment, fault>>
        /\ p \in listOfProcesses /\ segment = Idle /\ instruction = Idle
    BY DEF StartClone, callVars, testVars, Quiet
  <1>3. fault = Idle
    BY <1>2 DEF SerialInv, ResidencyInv, OneAtATime, Idle
  <1>4. /\ p # PID
        /\ \A pd \in PageDescr : pmt[pd].init => pd[1] # PID
        /\ PID \in Nat
    <2>1. /\ \A q \in listOfProcesses : q < PID
          /\ \A pd \in PageDescr : pmt[pd].init => pd[1] < PID
      BY DEF SerialInv, GrowingInv, TablesOpen
    <2>2. PID \in Nat
      BY SizeAssumption DEF SerialInv, TypeInv, TypeOK, KernelTypeOK
    <2> QED
      BY <1>2, <2>1, <2>2
  <1>5. ClonePosition' = 0
    BY <1>1, SizeAssumption DEF ClonePosition
  <1>6. /\ \A q \in Pages : ~(q < ClonePosition')
        /\ \A f : ~OwnFrame(f)'
    <2>1. \A q \in Pages : q \in Nat /\ ~(q < 0)
      BY SizeAssumption DEF Pages, NumPages
    <2>2. \A q \in Pages : ~(q < ClonePosition')
      BY <1>5, <2>1
    <2> QED
      BY <1>1, <2>2 DEF OwnFrame, Passed
  <1>7. /\ \A x \in PageDescr : pmt[x].init /\ pmt[x].valid =>
             HeldBy(pmt[x].block, x)
        /\ \A f \in Frames, x \in PageDescr : HeldBy(f, x) =>
             pmt[x].init /\ pmt[x].valid
        /\ \A f, g \in Frames, x \in PageDescr :
             HeldBy(f, x) /\ HeldBy(g, x) => f = g
    <2>1. \A x \in PageDescr : ~InTransit(x)
      BY <1>2, <1>3 DEF InTransit, Idle
    <2> QED
      BY <1>3, <2>1 DEF SerialInv, ResidencyInv, GrowingInv, HoldersInv
  <1>8. \A f \in Frames, x \in PageDescr : HeldBy(f, x) => pmt[x].block = f
    <2> SUFFICES ASSUME NEW f \in Frames, NEW x \in PageDescr, HeldBy(f, x)
                 PROVE  pmt[x].block = f
      OBVIOUS
    <2>1. pmt[x].init /\ HeldBy(pmt[x].block, x)
      BY <1>7
    <2>2. pmt[x].block \in Frames
      BY <1>2, <2>1 DEF SerialInv, TypeInv, BlocksAssigned, Idle
    <2> QED
      BY <1>7, <2>1, <2>2
  <1>9. TableInv' /\ ClaimInv'
    BY <1>1, <1>2, <1>3 DEF TableInv, ClaimInv
  <1>10. RegisteredInv'
    <2>1. \A f, x : HeldBy(f, x)' <=> HeldBy(f, x)
      BY <1>2 DEF HeldBy
    <2>2. \A x \in PageDescr : x[1] # clone'.id /\ pmt'[x].init /\ pmt'[x].valid =>
            HeldBy(pmt[x].block, x)'
      BY <1>2, <1>7 DEF HeldBy
    <2>3. \A f \in Frames, x \in PageDescr : HeldBy(f, x)' =>
            x[1] # clone'.id /\ pmt'[x].init
      BY <1>1, <1>2, <1>4, <1>7, <2>1
    <2>4. \A f \in Frames, x \in PageDescr : HeldBy(f, x)' =>
            pmt'[x].valid /\ pmt'[x].block = f
      BY <1>2, <1>7, <1>8, <2>1
    <2> QED
      BY <2>2, <2>3, <2>4 DEF RegisteredInv
  <1>11. ClaimedLast'
    <2>1. QueuedOnce' /\ QueueInjective'
      BY <1>2, FramesKept DEF SerialInv, GrowingInv
    <2>2. \A f : ~OwnFrame(f)'
      BY <1>6
    <2> QED
      BY <2>1, <2>2 DEF ClaimedLast
  <1>12. CloneDiskInv'
    <2>1. DiskInv'
      BY <1>2, <1>3 DEF SerialInv, MemoryInv, DiskInv, Idle
    <2>2. \A q \in Pages : pmt[<<PID, q>>].disk = 0
      <3> SUFFICES ASSUME NEW q \in Pages, pmt[<<PID, q>>].disk # 0
                   PROVE  FALSE
        OBVIOUS
      <3>1. <<PID, q>> \in PageDescr
        <4>1. PID \in Processes
          BY <1>4, SizeAssumption DEF StartClone, Processes
        <4> QED
          BY <4>1 DEF PageDescr
      <3>2. pmt[<<PID, q>>].init
        BY <3>1 DEF SerialInv, MemoryInv, DiskInv
      <3> QED
        BY <1>4, <3>1, <3>2
    <2> QED
      BY <1>1, <1>2, <2>1, <2>2 DEF CloneDiskInv
  <1>13. OthersContents'
    <2>1. \A x \in PageDescr : lastWritten[x] \in Values =>
            /\ pmt[x].init
            /\ ContentsOf(x) = lastWritten[x]
            /\ pmt[x].valid /\ ~pmt[x].dirty =>
                 pmt[x].sourceAddress = lastWritten[x]
      BY SentinelAssumption DEF SerialInv, MemoryInv, ContentsInv, Contents
    <2>2. \A x \in PageDescr : ContentsOf(x)' = ContentsOf(x)
      BY <1>2 DEF ContentsOf
    <2> QED
      BY <1>2, <2>1, <2>2 DEF OthersContents
  <1>14. CopiesInv'
    BY <1>6 DEF CopiesInv, Passed
  <1> QED
    BY <1>1, <1>4, <1>9, <1>10, <1>11, <1>12, <1>13, <1>14 DEF CopyingInv

\* A step that hands out no frame and does not touch what others have.
LEMMA FramesClaimed ==
  ASSUME RegisteredInv, ClaimedLast, UNCHANGED <<pmtTable, fifoQueue>>,
         fifoQueue \in Seq(Frames),
         clone'.id = clone.id,
         \A x \in PageDescr : x[1] # clone.id => pmt'[x] = pmt[x],
         \A f \in Frames : OwnFrame(f)' <=> OwnFrame(f)
  PROVE  RegisteredInv' /\ ClaimedLast'
  <1>1. /\ QueuedOnce' /\ QueueInjective'
        /\ \A f \in Frames, x \in PageDescr : HeldBy(f, x)' <=> HeldBy(f, x)
    BY FramesKept DEF ClaimedLast
  <1>2. RegisteredInv'
    <2>1. \A x \in PageDescr :
            x[1] # clone'.id /\ pmt'[x].init /\ pmt'[x].valid =>
              HeldBy(pmt[x].block, x)'
      BY DEF RegisteredInv, HeldBy
    <2>2. \A f \in Frames, x \in PageDescr :
            HeldBy(f, x)' => x[1] # clone'.id /\ pmt'[x].init
      BY <1>1 DEF RegisteredInv
    <2>3. \A f \in Frames, x \in PageDescr :
            HeldBy(f, x)' /\ ~OwnFrame(f)' => pmt'[x].valid /\ pmt'[x].block = f
      <3> SUFFICES ASSUME NEW f \in Frames, NEW x \in PageDescr,
                          HeldBy(f, x)', ~OwnFrame(f)'
                   PROVE  pmt'[x].valid /\ pmt'[x].block = f
        OBVIOUS
      <3>1. HeldBy(f, x) /\ ~OwnFrame(f)
        BY <1>1
      <3> QED
        BY <3>1 DEF RegisteredInv
    <2> QED
      BY <2>1, <2>2, <2>3 DEF RegisteredInv
  <1>3. ClaimedLast'
    <2> SUFFICES ASSUME NEW i \in DOMAIN fifoQueue', NEW j \in DOMAIN fifoQueue',
                        i < j, OwnFrame(fifoQueue[i])'
                 PROVE  OwnFrame(fifoQueue[j])'
      BY <1>1 DEF ClaimedLast
    <2>1. PICK f \in Frames, g \in Frames : f = fifoQueue[i] /\ g = fifoQueue[j]
      OBVIOUS
    <2>2. fifoQueue'[i] = f /\ fifoQueue'[j] = g
      BY <2>1
    <2>3. OwnFrame(f)'
      BY <2>2 DEF OwnFrame
    <2>4. OwnFrame(fifoQueue[i])
      BY <2>1, <2>3
    <2>5. OwnFrame(fifoQueue[j])
      BY <2>4 DEF ClaimedLast
    <2>6. OwnFrame(g)'
      BY <2>1, <2>5
    <2> QED
      BY <2>2, <2>6 DEF OwnFrame
  <1> QED
    BY <1>2, <1>3

\* The outer loop goes on: past a table the parent does not have, or into one.
LEMMA CopyMoves ==
  ASSUME CloneInv, clone # Idle, clone.p # clone.id, CopyingInv,
         SkipMissingTable \/ CopyTable
  PROVE  CopyingInv'
  <1>1. /\ clone \in CloneCall /\ clone.pc = "dir" /\ clone.dir \in Dirs
        /\ clone.p \in Processes /\ clone.id \in Processes
        /\ pageDirectory \in [Processes -> SUBSET Dirs]
        /\ fifoQueue \in Seq(Frames) /\ fault = Idle
    BY SizeAssumption
       DEF CloneInv, CloneCall, SkipMissingTable, CopyTable, Dirs, TypeInv, TypeOK,
           KernelTypeOK, CopyingInv, TableInv
  <1>2. PICK d, m \in Nat : d = clone.dir /\ m = MAX_PMT_ENTRIES
    BY <1>1, SizeAssumption DEF Dirs
  <1>3. /\ UNCHANGED <<pmtTable, fifoQueue, diskTable, memory, partition, pmt,
                       lastWritten, segment, fault>>
        /\ \A x \in Processes : x # clone.id => pageDirectory'[x] = pageDirectory[x]
        /\ \A x \in Processes : pageDirectory[x] \subseteq pageDirectory'[x]
    BY <1>1 DEF SkipMissingTable, CopyTable, vars, kernelVars, callVars, testVars
  <1>4. /\ clone'.p = clone.p /\ clone'.id = clone.id
        /\ \/ /\ clone'.pc = "dir" /\ clone'.dir = d + 1
              /\ d \notin pageDirectory[clone.p]
           \/ /\ clone'.pc = "entry" /\ clone'.dir = d /\ clone'.table = d
              /\ clone'.entry = 0
              /\ d \in pageDirectory[clone.p] /\ d \in pageDirectory'[clone.id]
    <2>1. CASE SkipMissingTable
      BY <1>1, <1>2, <2>1 DEF SkipMissingTable, NextTable, CloneCall
    <2>2. CASE CopyTable
      <3>1. /\ clone' = [clone EXCEPT !.pc = "entry", !.table = d, !.entry = 0]
            /\ pageDirectory' =
                 [pageDirectory EXCEPT ![clone.id] = @ \union {d}]
            /\ d \in pageDirectory[clone.p]
        BY <1>2, <2>2 DEF CopyTable
      <3>2. d \in pageDirectory'[clone.id]
        BY <1>1, <3>1
      <3> QED
        BY <1>1, <1>2, <3>1, <3>2 DEF CloneCall
    <2> QED
      BY <2>1, <2>2
  <1>5. /\ ClonePosition = d * m
        /\ \/ /\ ClonePosition' = d * m + m
              /\ d \notin pageDirectory[clone.p]
           \/ ClonePosition' = d * m
    <2>1. (d + 1) * m = d * m + m /\ d * m + 0 = d * m
      BY <1>2
    <2> QED
      BY <1>1, <1>2, <1>4, <2>1 DEF ClonePosition, Original
  <1>6. PICK n \in Nat : n = d * m
    <2>1. d * m \in Nat
      BY <1>2
    <2> QED
      BY <2>1
  <1>7. \A q \in Pages : /\ HasTable(<<clone.p, q>>)' <=> HasTable(<<clone.p, q>>)
                         /\ HasTable(<<clone.id, q>>) => HasTable(<<clone.id, q>>)'
    BY <1>1, <1>3, <1>4 DEF HasTable
  <1>8. \A q \in Pages : Passed(q)' <=> Passed(q)
    <2> SUFFICES ASSUME NEW q \in Pages
                 PROVE  Passed(q)' <=> Passed(q)
      OBVIOUS
    <2>1. q \in Nat
      BY SizeAssumption DEF Pages
    <2>2. Mapped(<<clone.p, q>>)' <=> Mapped(<<clone.p, q>>)
      BY <1>3, <1>4, <1>7 DEF Mapped
    <2>3. CASE ClonePosition' = d * m
      BY <1>4, <1>5, <2>2, <2>3 DEF Passed
    <2>4. CASE ClonePosition' = d * m + m /\ d \notin pageDirectory[clone.p]
      <3>1. CASE q < n
        BY <1>5, <1>6, <1>2, <2>1, <2>2, <2>4, <3>1 DEF Passed
      <3>2. CASE n <= q /\ q < n + m
        <4>1. PICK e \in 0 .. MAX_PMT_ENTRIES - 1 : q = n + e
          <5>1. q - n \in 0 .. m - 1 /\ q = n + (q - n)
            BY <1>2, <2>1, <3>2
          <5> QED
            BY <1>2, <5>1
        <4>2. DirOf(q) = d
          BY <1>2, <1>6, <4>1, EntryIsOfTable
        <4>3. ~Mapped(<<clone.p, q>>)
          BY <2>4, <4>2 DEF Mapped, HasTable
        <4> QED
          BY <2>2, <4>3 DEF Passed, Mapped
      <3>3. CASE n + m <= q
        BY <1>2, <1>5, <1>6, <2>1, <2>4, <3>3 DEF Passed
      <3> QED
        BY <1>2, <2>1, <3>1, <3>2, <3>3
    <2> QED
      BY <1>5, <2>3, <2>4
  <1>9. \A f : OwnFrame(f)' <=> OwnFrame(f)
    BY <1>1, <1>3, <1>4, <1>8 DEF OwnFrame
  <1>10. TableInv' /\ ClaimInv'
    BY <1>2, <1>3, <1>1, <1>4 DEF TableInv, ClaimInv
  <1>11. RegisteredInv' /\ ClaimedLast'
    BY <1>1, <1>3, <1>4, <1>9, FramesClaimed DEF CopyingInv
  <1>12. CloneDiskInv'
    <2>1. DiskInv'
      BY <1>1, <1>3 DEF CopyingInv, CloneDiskInv, DiskInv, Idle
    <2>2. \A q \in Pages : q >= ClonePosition' => q >= ClonePosition
      <3> SUFFICES ASSUME NEW q \in Pages, q >= ClonePosition'
                   PROVE  q >= ClonePosition
        OBVIOUS
      <3>1. q \in Nat
        BY SizeAssumption DEF Pages
      <3> QED
        BY <1>2, <1>5, <1>6, <3>1
    <2> QED
      BY <1>3, <1>4, <2>1, <2>2 DEF CopyingInv, CloneDiskInv
  <1>13. \A x : ContentsOf(x)' = ContentsOf(x)
    BY <1>3 DEF ContentsOf
  <1>14. OthersContents'
    BY <1>3, <1>4, <1>13 DEF CopyingInv, OthersContents
  <1>15. CopiesInv'
    <2> SUFFICES ASSUME NEW q \in Pages, Passed(q)'
                 PROVE  LET parent == <<clone.p, q>>
                            copy   == <<clone.id, q>>
                        IN  /\ Mapped(copy)'
                            /\ lastWritten[parent] \in Values =>
                                 ContentsOf(copy)' = lastWritten[parent]
                            /\ pmt[copy].valid =>
                                 /\ HeldBy(pmt[copy].block, parent)'
                                 /\ pmt[parent].valid =>
                                      pmt[copy].block # pmt[parent].block
      BY <1>3, <1>4 DEF CopiesInv, Mapped, HasTable, ContentsOf, HeldBy
    <2>1. Passed(q)
      BY <1>8
    <2>2. \A f, x : HeldBy(f, x)' <=> HeldBy(f, x)
      BY <1>3 DEF HeldBy
    <2>3. Mapped(<<clone.id, q>>)'
      BY <1>3, <1>4, <1>7, <2>1 DEF CopyingInv, CopiesInv, Mapped
    <2>4. pmt[<<clone.id, q>>].valid =>
            HeldBy(pmt[<<clone.id, q>>].block, <<clone.p, q>>)'
      BY <1>3, <1>4, <2>1 DEF CopyingInv, CopiesInv, HeldBy
    <2>5. ContentsOf(<<clone.id, q>>)' = ContentsOf(<<clone.id, q>>)
      BY <1>3, <1>4 DEF ContentsOf
    <2> QED
      BY <1>3, <1>4, <2>1, <2>3, <2>4, <2>5 DEF CopyingInv, CopiesInv, Mapped,
         HasTable, ContentsOf, HeldBy
  <1> QED
    BY <1>10, <1>11, <1>12, <1>14, <1>15 DEF CopyingInv

\* A page is copied: what others have, and the copies already made, stay as and
\* where they are.
LEMMA CopyPassed ==
  ASSUME CloneInv, clone # Idle, clone.p # clone.id, TablesFull(clone.p),
         CopyingInv, clone.pc \in {"entry", "copy"}, NextEntry(clone.dir),
         UNCHANGED <<pmtTable, fifoQueue, pageDirectory, lastWritten, fault>>,
         pmt' \in [PageDescr -> PageDescriptor],
         \A x \in PageDescr \ {Copy} : pmt'[x] = pmt[x],
         pmt'[Copy].init,
         pmt'[Copy].valid <=> clone.pc = "copy",
         clone.pc = "copy" => pmt'[Copy].block = clone.frame,
         \A x \in PageDescr : x = Copy /\ lastWritten[Original] \in Values =>
           ContentsOf(x)' = lastWritten[Original],
         \A x \in PageDescr \ {Copy} :
           \/ x[1] # clone.id /\ lastWritten[x] \in Values
           \/ x[1] = clone.id /\ Passed(x[2])
           => ContentsOf(x)' = ContentsOf(x),
         DiskInv'
  PROVE  CopyingInv'
  <1>1. /\ ClonePosition \in Pages /\ ClonePosition \in Nat
        /\ Original = <<clone.p, ClonePosition>>
        /\ Copy = <<clone.id, ClonePosition>>
        /\ Original \in PageDescr /\ Copy \in PageDescr
        /\ HasTable(Original) /\ HasTable(Copy)
        /\ pmt[Original].init
    BY CloneAt, SizeAssumption DEF CopyingInv, Pages
  <1>2. PICK n \in Pages : n = ClonePosition /\ n \in Nat
    BY <1>1
  <1>3. /\ ClonePosition' = n + 1
        /\ clone'.p = clone.p /\ clone'.id = clone.id
        /\ clone'.pc \in {"dir", "entry"}
        /\ clone'.pc = "entry" =>
             clone'.table = clone.dir /\ clone'.dir = clone.dir
    BY <1>2, ClonePositionNext DEF CopyingInv
  <1>4. /\ clone.p \in Processes /\ clone.id \in Processes
        /\ fifoQueue \in Seq(Frames) /\ fault = Idle
        /\ \A q \in Pages : q \in Nat
        /\ \A q \in Pages : <<clone.p, q>> \in PageDescr
                            /\ <<clone.id, q>> \in PageDescr
    BY SizeAssumption
       DEF CloneInv, CloneCall, TypeInv, TypeOK, KernelTypeOK, CopyingInv, TableInv,
           Pages, PageDescr
  <1>5. \A q \in Pages : /\ pmt'[<<clone.p, q>>] = pmt[<<clone.p, q>>]
                         /\ q # n => pmt'[<<clone.id, q>>] = pmt[<<clone.id, q>>]
    BY <1>1, <1>2, <1>4
  <1>6. \A q \in Pages : Passed(q)' <=> Passed(q) \/ q = n
    <2> SUFFICES ASSUME NEW q \in Pages
                 PROVE  Passed(q)' <=> Passed(q) \/ q = n
      OBVIOUS
    <2>1. Mapped(<<clone.p, q>>)' <=> Mapped(<<clone.p, q>>)
      BY <1>3, <1>5 DEF Mapped, HasTable
    <2>2. q = n => Mapped(<<clone.p, q>>)
      BY <1>1, <1>2 DEF Mapped
    <2>3. q < n + 1 <=> q < n \/ q = n
      BY <1>2, <1>4
    <2> QED
      BY <1>2, <1>3, <2>1, <2>2, <2>3 DEF Passed
  <1>7. \A q \in Pages : Passed(q) => q # n
    BY <1>2, <1>4 DEF Passed
  <1>8. \A f \in Frames : OwnFrame(f)' <=> OwnFrame(f)
    <2> SUFFICES ASSUME NEW f \in Frames
                 PROVE  OwnFrame(f)' <=> OwnFrame(f)
      OBVIOUS
    <2>1. ASSUME OwnFrame(f)' PROVE OwnFrame(f)
      <3>1. PICK q \in Pages : /\ Passed(q)'
                               /\ pmt'[<<clone.id, q>>].valid
                               /\ pmt'[<<clone.id, q>>].block = f
        BY <1>3, <2>1 DEF OwnFrame
      <3>2. CASE q = n
        BY <1>1, <1>2, <3>1, <3>2 DEF OwnFrame
      <3>3. CASE q # n
        BY <1>5, <1>6, <3>1, <3>3 DEF OwnFrame
      <3> QED
        BY <3>2, <3>3
    <2>2. ASSUME OwnFrame(f) PROVE OwnFrame(f)'
      <3>1. CASE clone.pc = "copy" /\ f = clone.frame
        <4>1. Passed(n)' /\ pmt'[<<clone.id, n>>].valid
              /\ pmt'[<<clone.id, n>>].block = f
          BY <1>1, <1>2, <1>6, <3>1
        <4> QED
          BY <1>3, <4>1 DEF OwnFrame
      <3>2. ASSUME NEW q \in Pages, Passed(q), pmt[<<clone.id, q>>].valid,
                   pmt[<<clone.id, q>>].block = f
            PROVE  OwnFrame(f)'
        <4>1. Passed(q)' /\ pmt'[<<clone.id, q>>] = pmt[<<clone.id, q>>]
          BY <1>5, <1>6, <1>7, <3>2
        <4> QED
          BY <1>3, <3>2, <4>1 DEF OwnFrame
      <3> QED
        BY <2>2, <3>1, <3>2 DEF OwnFrame
    <2> QED
      BY <2>1, <2>2
  <1>9. TableInv' /\ ClaimInv'
    BY <1>3, <1>4 DEF CopyingInv, TableInv, ClaimInv
  <1>10. RegisteredInv' /\ ClaimedLast'
    BY <1>1, <1>3, <1>4, <1>8, FramesClaimed DEF CopyingInv
  <1>11. CloneDiskInv'
    <2>1. ASSUME NEW q \in Pages, q >= n + 1
          PROVE  pmt'[<<clone.id, q>>].disk = 0
      <3>1. q >= ClonePosition /\ q # n
        BY <1>2, <1>4, <2>1
      <3> QED
        BY <1>5, <3>1 DEF CopyingInv, CloneDiskInv
    <2> QED
      BY <1>3, <2>1 DEF CloneDiskInv
  <1>12. OthersContents'
    <2>1. ASSUME NEW x \in PageDescr, x[1] # clone.id, lastWritten[x] \in Values
          PROVE  /\ pmt'[x].init
                 /\ ContentsOf(x)' = lastWritten[x]
                 /\ pmt'[x].valid /\ ~pmt'[x].dirty =>
                      pmt'[x].sourceAddress = lastWritten[x]
      <3>1. pmt'[x] = pmt[x] /\ ContentsOf(x)' = ContentsOf(x)
        BY <1>1, <2>1
      <3> QED
        BY <2>1, <3>1 DEF CopyingInv, OthersContents
    <2> QED
      BY <1>3, <2>1 DEF OthersContents
  <1>13. CopiesInv'
    <2> SUFFICES ASSUME NEW q \in Pages, Passed(q)'
                 PROVE  /\ Mapped(<<clone.id, q>>)'
                        /\ lastWritten[<<clone.p, q>>] \in Values =>
                             ContentsOf(<<clone.id, q>>)' = lastWritten[<<clone.p, q>>]
                        /\ pmt'[<<clone.id, q>>].valid =>
                             /\ HeldBy(pmt[<<clone.id, q>>].block, <<clone.p, q>>)'
                             /\ pmt'[<<clone.p, q>>].valid =>
                                  pmt'[<<clone.id, q>>].block # pmt'[<<clone.p, q>>].block
      BY <1>3 DEF CopiesInv, Mapped, HasTable, ContentsOf, HeldBy
    <2>1. ASSUME Mapped(<<clone.id, q>>) PROVE Mapped(<<clone.id, q>>)' \/ q = n
      BY <1>3, <1>5, <2>1 DEF Mapped, HasTable
    <2>2. CASE q = n
      <3>1. Mapped(<<clone.id, q>>)'
        BY <1>1, <1>2, <1>3, <2>2 DEF Mapped, HasTable
      <3>2. lastWritten[<<clone.p, q>>] \in Values =>
              ContentsOf(<<clone.id, q>>)' = lastWritten[<<clone.p, q>>]
        <4>1. Original = <<clone.p, q>> /\ Copy = <<clone.id, q>>
          BY <1>1, <1>2, <2>2
        <4>2. PICK x \in PageDescr : x = <<clone.id, q>>
          BY <1>4
        <4>3. lastWritten[Original] \in Values =>
                ContentsOf(x)' = lastWritten[Original]
          BY <4>1, <4>2
        <4> QED
          BY <1>3, <4>1, <4>2, <4>3 DEF ContentsOf
      <3>3. ASSUME pmt'[<<clone.id, q>>].valid
            PROVE  /\ HeldBy(pmt[<<clone.id, q>>].block, <<clone.p, q>>)'
                   /\ pmt'[<<clone.p, q>>].valid =>
                        pmt'[<<clone.id, q>>].block # pmt'[<<clone.p, q>>].block
        <4>1. /\ clone.pc = "copy" /\ pmt'[<<clone.id, q>>].block = clone.frame
              /\ Original = <<clone.p, q>>
          BY <1>1, <1>2, <2>2, <3>3
        <4>2. /\ HeldBy(clone.frame, <<clone.p, q>>)
              /\ pmt[<<clone.p, q>>].valid => pmt[<<clone.p, q>>].block # clone.frame
          BY <4>1 DEF CopyingInv, ClaimInv
        <4> QED
          BY <1>3, <1>5, <4>1, <4>2 DEF HeldBy
      <3> QED
        BY <3>1, <3>2, <3>3
    <2>3. CASE q # n
      <3>1. Passed(q) /\ pmt'[<<clone.id, q>>] = pmt[<<clone.id, q>>]
        BY <1>5, <1>6, <2>3
      <3>2. PICK x \in PageDescr : x = <<clone.id, q>> /\ x # Copy
        BY <1>1, <1>2, <1>4, <2>3
      <3>3. ContentsOf(x)' = ContentsOf(x)
        BY <3>1, <3>2
      <3>4. ContentsOf(<<clone.id, q>>)' = ContentsOf(<<clone.id, q>>)
        BY <1>3, <3>2, <3>3 DEF ContentsOf
      <3>5. /\ Mapped(<<clone.id, q>>)
            /\ lastWritten[<<clone.p, q>>] \in Values =>
                 ContentsOf(<<clone.id, q>>) = lastWritten[<<clone.p, q>>]
            /\ pmt[<<clone.id, q>>].valid =>
                 /\ HeldBy(pmt[<<clone.id, q>>].block, <<clone.p, q>>)
                 /\ pmt[<<clone.p, q>>].valid =>
                      pmt[<<clone.id, q>>].block # pmt[<<clone.p, q>>].block
        BY <3>1 DEF CopyingInv, CopiesInv
      <3>6. pmt[<<clone.id, q>>].valid =>
              HeldBy(pmt[<<clone.id, q>>].block, <<clone.p, q>>)'
        BY <1>3, <3>1, <3>5 DEF HeldBy
      <3> QED
        BY <1>5, <2>1, <2>3, <3>1, <3>4, <3>5, <3>6
    <2> QED
      BY <2>2, <2>3
  <1> QED
    BY <1>9, <1>10, <1>11, <1>12, <1>13 DEF CopyingInv

\* The entry of a page that is nowhere but at its source is copied.
LEMMA CopyEntryCopies ==
  ASSUME CloneInv, clone # Idle, clone.p # clone.id, TablesFull(clone.p),
         CopyingInv, CopyEntry
  PROVE  CopyingInv'
  <1>1. /\ clone.pc = "entry" /\ pmt' = Copied /\ NextEntry(clone.dir)
        /\ ~pmt[Original].valid /\ pmt[Original].disk = 0 /\ pmt[Original].init
        /\ UNCHANGED <<pmtTable, fifoQueue, pageDirectory, diskTable, memory,
                       partition, lastWritten, fault>>
    BY DEF CopyEntry, callVars, testVars
  <1>2. /\ Original \in PageDescr /\ Copy \in PageDescr
        /\ Copy = <<clone.id, ClonePosition>> /\ Original = <<clone.p, ClonePosition>>
        /\ ClonePosition \in Pages
    BY <1>1, CloneAt DEF CopyingInv
  <1>3. /\ pmt' \in [PageDescr -> PageDescriptor]
        /\ \A x \in PageDescr :
             pmt'[x] = IF x = Copy THEN pmt[Original] ELSE pmt[x]
    BY <1>1, CopiedEntry DEF CloneInv, TypeInv, TypeOK
  <1>4. pmt[Copy].disk = 0
    <2>1. ClonePosition >= ClonePosition
      BY <1>2, SizeAssumption DEF Pages
    <2> QED
      BY <1>2, <2>1 DEF CopyingInv, CloneDiskInv
  <1>5. \A x \in PageDescr : x = Copy /\ lastWritten[Original] \in Values =>
          ContentsOf(x)' = lastWritten[Original]
    <2>1. ASSUME lastWritten[Original] \in Values
          PROVE  pmt[Original].sourceAddress = lastWritten[Original]
      BY <1>1, <1>2, <2>1 DEF CopyingInv, OthersContents, ContentsOf
    <2> QED
      BY <1>1, <1>2, <1>3, <2>1 DEF ContentsOf
  <1>6. \A x \in PageDescr \ {Copy} : ContentsOf(x)' = ContentsOf(x)
    BY <1>1, <1>3 DEF ContentsOf
  <1>7. DiskInv'
    <2>1. \A x \in PageDescr : pmt'[x].disk = pmt[x].disk
      BY <1>1, <1>3, <1>4
    <2>2. \A x \in PageDescr : pmt[x].disk # 0 => pmt'[x] = pmt[x]
      BY <1>3, <1>4
    <2>3. fault' = Idle
      BY <1>1 DEF CopyingInv, TableInv
    <2> QED
      BY <1>1, <2>1, <2>2, <2>3 DEF CopyingInv, CloneDiskInv, DiskInv, Idle
  <1>8. /\ \A x \in PageDescr \ {Copy} : pmt'[x] = pmt[x]
        /\ pmt'[Copy] = pmt[Original]
    BY <1>2, <1>3
  <1>9. clone.pc # "copy"
    BY <1>1
  <1> QED
    BY <1>1, <1>3, <1>5, <1>6, <1>7, <1>8, <1>9, CopyPassed

\* The contents of the parent's page are copied into the frame claimed for them:
\* nobody else's page is there.
LEMMA CopyPageCopies ==
  ASSUME CloneInv, clone # Idle, clone.p # clone.id, TablesFull(clone.p),
         CopyingInv, CopyPage
  PROVE  CopyingInv'
  <1>1. /\ clone.pc = "copy" /\ NextEntry(clone.dir)
        /\ pmt' = [pmt EXCEPT ![Copy].block = clone.frame]
        /\ memory' = [memory EXCEPT ![clone.frame] = memory[pmt[Original].block]]
        /\ UNCHANGED <<pmtTable, fifoQueue, pageDirectory, diskTable,
                       partition, lastWritten, fault>>
    BY DEF CopyPage, callVars, testVars
  <1>2. /\ Original \in PageDescr /\ Copy \in PageDescr
        /\ Copy = <<clone.id, ClonePosition>> /\ Original = <<clone.p, ClonePosition>>
        /\ ClonePosition \in Pages
    BY <1>1, CloneAt DEF CopyingInv
  <1>3. /\ pmt \in [PageDescr -> PageDescriptor]
        /\ memory \in [Frames -> Contents]
        /\ clone.frame \in Frames
        /\ \A x \in PageDescr : pmt[x].init => pmt[x].block \in Frames
    <2>1. segment.pc # "fill"
      BY DEF CloneInv, Quiet, Idle
    <2> QED
      BY <2>1 DEF CloneInv, TypeInv, TypeOK, KernelTypeOK, BlocksAssigned, CloneCall
  <1>4. /\ pmt' \in [PageDescr -> PageDescriptor]
        /\ \A x \in PageDescr \ {Copy} : pmt'[x] = pmt[x]
        /\ pmt'[Copy].block = clone.frame
        /\ pmt'[Copy].init = pmt[Copy].init
        /\ pmt'[Copy].valid = pmt[Copy].valid
        /\ pmt'[Copy].disk = pmt[Copy].disk
    <2> PICK entry : entry = [pmt[Copy] EXCEPT !.block = clone.frame]
      OBVIOUS
    <2>1. /\ entry \in PageDescriptor /\ entry.block = clone.frame
          /\ entry.init = pmt[Copy].init /\ entry.valid = pmt[Copy].valid
          /\ entry.disk = pmt[Copy].disk
      <3>1. pmt[Copy] \in PageDescriptor
        BY <1>2, <1>3
      <3> QED
        BY <1>3, <3>1 DEF PageDescriptor
    <2>2. pmt' = [pmt EXCEPT ![Copy] = entry]
      BY <1>1
    <2> QED
      BY <1>2, <1>3, <2>1, <2>2
  <1>5. /\ pmt[Copy].init /\ pmt[Copy].valid
        /\ HeldBy(clone.frame, Original)
        /\ pmt[Original].valid => pmt[Original].block # clone.frame
        /\ lastWritten[Original] \in Values =>
             memory[pmt[Original].block] = lastWritten[Original]
    BY <1>1 DEF CopyingInv, ClaimInv
  <1>6. \A g \in Frames : g # clone.frame => memory'[g] = memory[g]
    BY <1>1, <1>3
  <1>7. \A x \in PageDescr : x = Copy /\ lastWritten[Original] \in Values =>
          ContentsOf(x)' = lastWritten[Original]
    <2>1. memory'[clone.frame] = memory[pmt[Original].block]
      BY <1>1, <1>3
    <2> QED
      BY <1>4, <1>5, <2>1 DEF ContentsOf
  <1>8. \A x \in PageDescr \ {Copy} :
          \/ x[1] # clone.id /\ lastWritten[x] \in Values
          \/ x[1] = clone.id /\ Passed(x[2])
          => ContentsOf(x)' = ContentsOf(x)
    <2> SUFFICES ASSUME NEW x \in PageDescr \ {Copy},
                        \/ x[1] # clone.id /\ lastWritten[x] \in Values
                        \/ x[1] = clone.id /\ Passed(x[2])
                 PROVE  ContentsOf(x)' = ContentsOf(x)
      OBVIOUS
    <2>1. pmt'[x] = pmt[x]
      BY <1>4
    <2>2. CASE ~pmt[x].valid
      BY <1>1, <2>1, <2>2 DEF ContentsOf
    <2>3. CASE pmt[x].valid /\ x[1] # clone.id /\ lastWritten[x] \in Values
      <3>1. pmt[x].init
        BY <2>3 DEF CopyingInv, OthersContents
      <3>2. HeldBy(pmt[x].block, x) /\ pmt[x].block \in Frames
        BY <1>3, <2>3, <3>1 DEF CopyingInv, RegisteredInv
      <3>3. pmt[x].block # clone.frame
        BY <1>5, <2>3, <3>2 DEF HeldBy
      <3> QED
        BY <1>6, <2>1, <2>3, <3>2, <3>3 DEF ContentsOf
    <2>4. CASE pmt[x].valid /\ x[1] = clone.id /\ Passed(x[2])
      <3>1. PICK q \in Pages : x = <<clone.id, q>> /\ Passed(q)
        BY <2>4 DEF PageDescr
      <3>2. /\ HeldBy(pmt[x].block, <<clone.p, q>>) /\ pmt[x].init
        BY <2>4, <3>1 DEF CopyingInv, CopiesInv, Mapped
      <3>3. q # ClonePosition
        BY <1>2, <3>1
      <3>4. pmt[x].block # clone.frame
        BY <1>2, <1>5, <3>2, <3>3 DEF HeldBy
      <3>5. pmt[x].block \in Frames
        BY <1>3, <3>2
      <3> QED
        BY <1>6, <2>1, <2>4, <3>4, <3>5 DEF ContentsOf
    <2> QED
      BY <2>2, <2>3, <2>4
  <1>9. DiskInv'
    <2>1. \A x \in PageDescr : /\ pmt'[x].disk = pmt[x].disk
                               /\ pmt'[x].init = pmt[x].init
                               /\ pmt'[x].valid = pmt[x].valid
      BY <1>4
    <2>2. fault' = Idle
      BY <1>1 DEF CopyingInv, TableInv
    <2> QED
      BY <1>1, <2>1, <2>2 DEF CopyingInv, CloneDiskInv, DiskInv, Idle
  <1> QED
    BY <1>1, <1>4, <1>5, <1>7, <1>8, <1>9, CopyPassed

\* A cluster is copied to one nobody had.
LEMMA CopyClusterCopies ==
  ASSUME CloneInv, clone # Idle, clone.p # clone.id, TablesFull(clone.p),
         CopyingInv, CopyCluster
  PROVE  CopyingInv'
  <1>1. /\ clone.pc = "entry" /\ NextEntry(clone.dir)
        /\ pmt[Original].init /\ ~pmt[Original].valid /\ pmt[Original].disk # 0
        /\ UNCHANGED <<pmtTable, fifoQueue, pageDirectory, memory, lastWritten,
                       fault>>
    BY DEF CopyCluster, callVars, testVars
  <1>2. PICK c \in Clusters :
          /\ c # 0 /\ diskTable[c] /\ diskTable' = [diskTable EXCEPT ![c] = FALSE]
          /\ partition' = [partition EXCEPT ![c] = partition[pmt[Original].disk]]
          /\ pmt' = [Copied EXCEPT ![Copy].disk = c]
    BY DEF CopyCluster, getFreeCluster, FreeClusters
  <1>3. /\ Original \in PageDescr /\ Copy \in PageDescr
        /\ Copy = <<clone.id, ClonePosition>> /\ Original = <<clone.p, ClonePosition>>
        /\ ClonePosition \in Pages /\ Copy # Original
    BY <1>1, CloneAt DEF CopyingInv
  <1>4. /\ pmt \in [PageDescr -> PageDescriptor]
        /\ diskTable \in [Clusters -> BOOLEAN]
        /\ partition \in [Clusters -> Contents]
        /\ \A x \in PageDescr : pmt[x].disk \in Clusters
    BY DEF CloneInv, TypeInv, TypeOK, KernelTypeOK, PageDescriptor
  <1>5. /\ Copied \in [PageDescr -> PageDescriptor]
        /\ \A x \in PageDescr :
             Copied[x] = IF x = Copy THEN pmt[Original] ELSE pmt[x]
    BY CopiedEntry DEF CloneInv, TypeInv, TypeOK
  <1>6. /\ pmt' \in [PageDescr -> PageDescriptor]
        /\ \A x \in PageDescr \ {Copy} : pmt'[x] = pmt[x]
        /\ pmt'[Copy].init = pmt[Original].init
        /\ pmt'[Copy].valid = pmt[Original].valid
        /\ pmt'[Copy].disk = c
    <2> PICK entry : entry = [pmt[Original] EXCEPT !.disk = c]
      OBVIOUS
    <2>1. /\ entry \in PageDescriptor /\ entry.disk = c
          /\ entry.init = pmt[Original].init /\ entry.valid = pmt[Original].valid
      <3>1. pmt[Original] \in PageDescriptor
        BY <1>3, <1>4
      <3> QED
        BY <3>1 DEF PageDescriptor
    <2>2. pmt' = [Copied EXCEPT ![Copy] = entry]
      BY <1>2, <1>3, <1>5
    <2> QED
      BY <1>3, <1>5, <2>1, <2>2
  <1>7. pmt[Copy].disk = 0
    <2>1. ClonePosition >= ClonePosition
      BY <1>3, SizeAssumption DEF Pages
    <2> QED
      BY <1>3, <2>1 DEF CopyingInv, CloneDiskInv
  <1>8. /\ \A x \in PageDescr : pmt[x].disk # 0 =>
             pmt[x].init /\ ~pmt[x].valid /\ ~diskTable[pmt[x].disk]
        /\ \A x, other \in PageDescr :
             pmt[x].disk # 0 /\ pmt[x].disk = pmt[other].disk => x = other
        /\ \A k \in Clusters : ~diskTable[k] =>
             k # 0 /\ \E x \in PageDescr : pmt[x].disk = k
    BY DEF CopyingInv, CloneDiskInv, DiskInv
  <1>9. \A x \in PageDescr : pmt[x].disk # c
    BY <1>2, <1>8
  <1>10. \A k \in Clusters : k # c =>
           partition'[k] = partition[k] /\ diskTable'[k] = diskTable[k]
    BY <1>2, <1>4
  <1>11. \A x \in PageDescr : x = Copy /\ lastWritten[Original] \in Values =>
           ContentsOf(x)' = lastWritten[Original]
    <2>1. ASSUME lastWritten[Original] \in Values
          PROVE  partition[pmt[Original].disk] = lastWritten[Original]
      BY <1>1, <1>3, <2>1 DEF CopyingInv, OthersContents, ContentsOf
    <2>2. partition'[c] = partition[pmt[Original].disk]
      BY <1>2, <1>4
    <2> QED
      BY <1>1, <1>2, <1>6, <2>1, <2>2 DEF ContentsOf
  <1>12. \A x \in PageDescr \ {Copy} : ContentsOf(x)' = ContentsOf(x)
    BY <1>1, <1>4, <1>6, <1>9, <1>10 DEF ContentsOf
  <1>13. DiskInv'
    <2>1. \A x \in PageDescr : pmt'[x].disk # 0 =>
            pmt'[x].init /\ ~pmt'[x].valid /\ ~diskTable'[pmt'[x].disk]
      <3>1. ~diskTable'[c]
        BY <1>2, <1>4
      <3>2. ASSUME NEW x \in PageDescr, x # Copy, pmt'[x].disk # 0
            PROVE  pmt'[x].init /\ ~pmt'[x].valid /\ ~diskTable'[pmt'[x].disk]
        <4>1. pmt'[x] = pmt[x] /\ pmt[x].disk \in Clusters /\ pmt[x].disk # c
          BY <1>4, <1>6, <1>9, <3>2
        <4> QED
          BY <1>8, <1>10, <3>2, <4>1
      <3>3. pmt'[Copy].init /\ ~pmt'[Copy].valid /\ ~diskTable'[pmt'[Copy].disk]
        BY <1>1, <1>6, <3>1
      <3> QED
        BY <3>2, <3>3
    <2>2. \A x, other \in PageDescr :
            pmt'[x].disk # 0 /\ pmt'[x].disk = pmt'[other].disk => x = other
      BY <1>6, <1>8, <1>9
    <2>3. ASSUME NEW k \in Clusters, ~diskTable'[k]
          PROVE  k # 0 /\ \E x \in PageDescr : pmt'[x].disk = k
      <3>1. CASE k = c
        BY <1>2, <1>3, <1>6, <3>1
      <3>2. CASE k # c
        <4>1. PICK x \in PageDescr : pmt[x].disk = k /\ k # 0
          BY <1>8, <1>10, <2>3, <3>2
        <4>2. x # Copy
          BY <1>7, <4>1
        <4> QED
          BY <1>6, <4>1, <4>2
      <3> QED
        BY <3>1, <3>2
    <2>4. fault' = Idle
      BY <1>1 DEF CopyingInv, TableInv
    <2> QED
      BY <2>1, <2>2, <2>3, <2>4 DEF DiskInv, Idle
  <1>14. clone.pc # "copy"
    BY <1>1
  <1> QED
    BY <1>1, <1>6, <1>11, <1>12, <1>13, <1>14, CopyPassed

\* Replacement does not come to a frame of the clone during the call: all those
\* behind it in the queue would be the clone's too, but the page that is being
\* copied has a frame that is not.
LEMMA ClaimedIsSpared ==
  ASSUME CloneInv, VictimIsReal, clone # Idle, TablesFull(clone.p), CopyingInv,
         clone.pc = "entry", pmt[Original].valid,
         NEW f \in Frames, NEW descriptors,
         getFreeFrame(Original, descriptors, f)
  PROVE  ~OwnFrame(f)
  <1> SUFFICES ASSUME OwnFrame(f) PROVE FALSE
    OBVIOUS
  <1>1. /\ ClonePosition \in Nat
        /\ Original = <<clone.p, ClonePosition>>
        /\ Original \in PageDescr /\ pmt[Original].init
        /\ Original[1] # clone.id
        /\ \A q \in Pages : q \in Nat
    <2>1. HeldBy(pmt[Original].block, Original) => Original[1] # clone.id
      <3>1. pmt[Original].block \in Frames
        BY CloneAt DEF CloneInv, TypeInv, BlocksAssigned, Quiet, Idle, CopyingInv
      <3> QED
        BY <3>1, CloneAt DEF CopyingInv, RegisteredInv
    <2>2. PICK q \in Pages : Passed(q) /\ pmt[<<clone.id, q>>].valid
                             /\ pmt[<<clone.id, q>>].block = f
      BY DEF OwnFrame
    <2>3. HeldBy(f, <<clone.p, q>>) /\ <<clone.p, q>> \in PageDescr
      BY <2>2 DEF CopyingInv, CopiesInv, PageDescr, CloneInv, CloneCall
    <2>4. clone.p # clone.id
      BY <2>3 DEF CopyingInv, RegisteredInv
    <2> QED
      BY <2>4, CloneAt, SizeAssumption DEF CopyingInv, Pages
  <1>2. PICK g \in Frames : g = pmt[Original].block
    BY <1>1 DEF CloneInv, TypeInv, BlocksAssigned, Quiet, Idle
  <1>3. HeldBy(g, Original)
    BY <1>1, <1>2 DEF CopyingInv, RegisteredInv
  <1>4. ASSUME NEW h \in Frames, OwnFrame(h)
        PROVE  h # g /\ ~pmtTable[h].free
    <2>1. PICK q \in Pages : Passed(q) /\ pmt[<<clone.id, q>>].valid
                             /\ pmt[<<clone.id, q>>].block = h
      BY <1>4 DEF OwnFrame
    <2>2. HeldBy(h, <<clone.p, q>>) /\ q # ClonePosition
      BY <1>1, <2>1 DEF CopyingInv, CopiesInv, Passed
    <2> QED
      BY <1>1, <1>3, <2>2 DEF HeldBy
  <1>5. ~pmtTable[f].free
    BY <1>4
  <1>6. fifoQueue # <<>> /\ f = Head(fifoQueue)
    BY <1>5 DEF getFreeFrame, takeFreeFrame, replacePage, FreeFrames
  <1>7. PICK n \in Nat : /\ n = Len(fifoQueue) /\ DOMAIN fifoQueue = 1 .. n
                         /\ fifoQueue \in Seq(Frames)
    BY DEF CloneInv, TypeInv, TypeOK, KernelTypeOK
  <1>8. n # 0 /\ fifoQueue[1] = f
    BY <1>6, <1>7
  <1>9. PICK j \in 1 .. n : fifoQueue[j] = g
    BY <1>3, <1>7 DEF HeldBy, VictimIsReal, Queued
  <1>10. f # g
    BY <1>4
  <1>11. 1 < j /\ 1 \in 1 .. n
    BY <1>7, <1>8, <1>9, <1>10
  <1>12. OwnFrame(g)
    BY <1>7, <1>8, <1>9, <1>11 DEF CopyingInv, ClaimedLast
  <1> QED
    BY <1>4, <1>12

\* What the claim of a frame changes: the frame is registered for the parent's
\* page, the page it held is no longer valid and is in a cluster or at its source.
LEMMA ClaimedFields ==
  ASSUME CloneInv, VictimIsReal, clone # Idle, TablesFull(clone.p), CopyingInv,
         clone.p # clone.id,
         clone.pc = "entry", pmt[Original].init, pmt[Original].valid,
         NEW f \in Frames, getFreeFrame(Original, Copied, f)
  PROVE  /\ ~OwnFrame(f)
         /\ \A g \in Frames, x \in PageDescr :
              HeldBy(g, x)' <=> IF g = f THEN x = Original ELSE HeldBy(g, x)
         /\ \A x \in PageDescr \ {Copy} :
              /\ pmt'[x].init = pmt[x].init
              /\ pmt'[x].valid <=> pmt[x].valid /\ ~HeldBy(f, x)
              /\ pmt'[x].block = pmt[x].block
         /\ pmt'[Copy].init /\ pmt'[Copy].valid
         /\ pmt[Copy].disk = 0
         /\ \A x \in PageDescr : HeldBy(f, x) =>
              pmt[x].valid /\ pmt[x].block = f /\ x[1] # clone.id
  <1>1. /\ Original \in PageDescr /\ Copy \in PageDescr
        /\ Copy = <<clone.id, ClonePosition>> /\ ClonePosition \in Pages
    BY CloneAt DEF CopyingInv
  <1>2. KernelTypeOK /\ clone \in CloneCall
    BY DEF CloneInv, TypeInv, TypeOK
  <1>3. /\ Copied \in [PageDescr -> PageDescriptor]
        /\ \A x \in PageDescr :
             Copied[x] = IF x = Copy THEN pmt[Original] ELSE pmt[x]
    BY <1>2, CopiedEntry
  <1>4. ~OwnFrame(f)
    BY ClaimedIsSpared
  <1>5. /\ \A g \in Frames, x \in PageDescr :
              HeldBy(g, x)' <=> IF g = f THEN x = Original ELSE HeldBy(g, x)
        /\ \A x \in PageDescr :
             /\ pmt'[x].init = Copied[x].init
             /\ pmt'[x].valid <=> Copied[x].valid /\ ~HeldBy(f, x)
    BY <1>1, <1>2, <1>3, FrameHandedOut
  <1>6. \A x \in PageDescr : pmt'[x].block = Copied[x].block
    BY <1>1, <1>2, <1>3, GetFreeFrameType
  <1>7. \A x \in PageDescr : HeldBy(f, x) =>
          pmt[x].valid /\ pmt[x].block = f /\ x[1] # clone.id
    BY <1>4 DEF CopyingInv, RegisteredInv
  <1>8. pmt[Copy].disk = 0
    <2>1. ClonePosition >= ClonePosition
      BY <1>1, SizeAssumption DEF Pages
    <2> QED
      BY <1>1, <2>1 DEF CopyingInv, CloneDiskInv
  <1>9. ~HeldBy(f, Copy)
    BY <1>1, <1>7
  <1>10. \A x \in PageDescr \ {Copy} : Copied[x] = pmt[x]
    BY <1>3
  <1>11. Copied[Copy] = pmt[Original]
    BY <1>1, <1>3
  <1> QED
    BY <1>1, <1>4, <1>5, <1>6, <1>7, <1>8, <1>9, <1>10, <1>11

\* Clusters and contents when a frame is claimed.
LEMMA ClaimedContents ==
  ASSUME CloneInv, VictimIsReal, clone # Idle, TablesFull(clone.p), CopyingInv,
         clone.p # clone.id,
         clone.pc = "entry", pmt[Original].init, pmt[Original].valid,
         NEW f \in Frames, getFreeFrame(Original, Copied, f),
         UNCHANGED <<fault, lastWritten>>
  PROVE  /\ DiskInv'
         /\ \A x \in PageDescr : x[1] # clone.id /\ lastWritten[x] \in Values =>
              /\ ContentsOf(x)' = lastWritten[x]
              /\ pmt'[x].valid /\ ~pmt'[x].dirty =>
                   pmt'[x].sourceAddress = lastWritten[x]
         /\ \A x \in PageDescr : x[1] = clone.id /\ x # Copy =>
              ContentsOf(x)' = ContentsOf(x) /\ pmt'[x].disk = pmt[x].disk
         /\ pmt'[Copy].disk = 0
  <1>1. /\ Original \in PageDescr /\ Copy \in PageDescr
        /\ Copy[1] = clone.id /\ Original[1] # clone.id
        /\ KernelTypeOK
    BY CloneAt DEF CopyingInv, CloneInv, TypeInv, TypeOK
  <1>2. /\ pmt \in [PageDescr -> PageDescriptor]
        /\ diskTable \in [Clusters -> BOOLEAN]
        /\ partition \in [Clusters -> Contents]
        /\ memory' = memory
        /\ \A x \in PageDescr : pmt[x].disk \in Clusters
    BY <1>1 DEF KernelTypeOK, PageDescriptor, getFreeFrame
  <1>3. /\ Copied \in [PageDescr -> PageDescriptor]
        /\ \A x \in PageDescr \ {Copy} : Copied[x] = pmt[x]
        /\ Copied[Copy] = pmt[Original]
    BY <1>1, CopiedEntry DEF CloneInv
  <1>4. /\ pmt[Copy].disk = 0
        /\ \A x \in PageDescr : HeldBy(f, x) =>
             pmt[x].valid /\ pmt[x].block = f /\ x[1] # clone.id
    BY ClaimedFields
  <1>5. /\ \A x \in PageDescr : pmt[x].disk # 0 =>
             pmt[x].init /\ ~pmt[x].valid /\ ~diskTable[pmt[x].disk]
        /\ \A x, other \in PageDescr :
             pmt[x].disk # 0 /\ pmt[x].disk = pmt[other].disk => x = other
        /\ \A k \in Clusters : ~diskTable[k] =>
             k # 0 /\ \E x \in PageDescr : pmt[x].disk = k
    BY DEF CopyingInv, CloneDiskInv, DiskInv
  <1>6. \A x \in PageDescr : x[1] # clone.id /\ lastWritten[x] \in Values =>
          /\ pmt[x].valid => memory[pmt[x].block] = lastWritten[x]
          /\ ~pmt[x].valid /\ pmt[x].disk # 0 =>
               partition[pmt[x].disk] = lastWritten[x]
          /\ ~pmt[x].valid /\ pmt[x].disk = 0 =>
               pmt[x].sourceAddress = lastWritten[x]
          /\ pmt[x].valid /\ ~pmt[x].dirty =>
               pmt[x].sourceAddress = lastWritten[x]
    BY DEF CopyingInv, OthersContents, ContentsOf
  <1>7. pmt[Original].disk = 0 /\ fault' = Idle
    BY <1>1, <1>5 DEF CopyingInv, TableInv
  <1>8. \A x \in PageDescr : Copied[x].disk = pmt[x].disk
    BY <1>1, <1>3, <1>4, <1>7
  <1>9. \A x \in PageDescr : pmt[x].disk # 0 => Copied[x] = pmt[x]
    BY <1>3, <1>4
  <1>10. CASE /\ pmt' = Copied /\ UNCHANGED <<diskTable, partition>>
    <2>1. DiskInv'
      BY <1>5, <1>7, <1>8, <1>9, <1>10 DEF DiskInv, Idle
    <2>2. \A x \in PageDescr \ {Copy} : pmt'[x] = pmt[x]
      BY <1>3, <1>10
    <2>3. \A x \in PageDescr \ {Copy} : ContentsOf(x)' = ContentsOf(x)
      BY <1>2, <1>10, <2>2 DEF ContentsOf
    <2>4. \A x \in PageDescr : x[1] # clone.id /\ lastWritten[x] \in Values =>
            ContentsOf(x) = lastWritten[x]
      BY <1>6 DEF ContentsOf
    <2> QED
      BY <1>1, <1>4, <1>6, <1>8, <1>10, <2>1, <2>2, <2>3, <2>4
  <1>11. ASSUME NEW v \in PageDescr, NEW c \in Clusters,
                \A x \in PageDescr : HeldBy(f, x) <=> x = v,
                pmt' = PutOut(Copied, v, c),
                \/ /\ Copied[v].dirty /\ c # 0 /\ diskTable[c]
                   /\ diskTable' = [diskTable EXCEPT ![c] = FALSE]
                   /\ partition' = [partition EXCEPT ![c] = memory[f]]
                \/ /\ ~Copied[v].dirty /\ c = 0
                   /\ UNCHANGED <<diskTable, partition>>
         PROVE  /\ DiskInv'
                /\ \A x \in PageDescr :
                     x[1] # clone.id /\ lastWritten[x] \in Values =>
                       /\ ContentsOf(x)' = lastWritten[x]
                       /\ pmt'[x].valid /\ ~pmt'[x].dirty =>
                            pmt'[x].sourceAddress = lastWritten[x]
                /\ \A x \in PageDescr : x[1] = clone.id /\ x # Copy =>
                     ContentsOf(x)' = ContentsOf(x) /\ pmt'[x].disk = pmt[x].disk
                /\ pmt'[Copy].disk = 0
    <2>1. \A x \in PageDescr :
            /\ pmt'[x].init = Copied[x].init
            /\ pmt'[x].valid <=> (Copied[x].valid /\ x # v)
            /\ pmt'[x].dirty <=> Copied[x].dirty
            /\ pmt'[x].block = Copied[x].block
            /\ pmt'[x].sourceAddress = Copied[x].sourceAddress
            /\ pmt'[x].disk = IF x = v THEN c ELSE Copied[x].disk
      <3>1. \A x \in PageDescr :
              /\ pmt'[x].init = Copied[x].init
              /\ pmt'[x].valid = (Copied[x].valid /\ x # v)
              /\ pmt'[x].dirty = Copied[x].dirty
              /\ pmt'[x].block = Copied[x].block
              /\ pmt'[x].sourceAddress = Copied[x].sourceAddress
              /\ pmt'[x].disk = IF x = v THEN c ELSE Copied[x].disk
        BY <1>3, <1>11, PutOutFields
      <3>2. \A x \in PageDescr : pmt'[x].valid <=> (Copied[x].valid /\ x # v)
        BY <3>1, Zenon
      <3>3. \A x \in PageDescr : pmt'[x].dirty <=> Copied[x].dirty
        BY <3>1, Zenon
      <3> QED
        BY <3>1, <3>2, <3>3
    <2>2. /\ pmt[v].valid /\ pmt[v].block = f /\ v[1] # clone.id /\ v # Copy
          /\ Copied[v] = pmt[v]
      BY <1>1, <1>3, <1>4, <1>11
    <2>3. pmt[v].disk = 0
      BY <1>5, <2>2
    <2>4. /\ \A k \in Clusters : k # c =>
               partition'[k] = partition[k] /\ diskTable'[k] = diskTable[k]
          /\ c # 0 => partition'[c] = memory[f] /\ ~diskTable'[c] /\ diskTable[c]
          /\ c # 0 <=> pmt[v].dirty
          /\ c = 0 => partition' = partition /\ diskTable' = diskTable
      BY <1>2, <1>11, <2>2
    <2>5. pmt[v].init
      BY <1>11 DEF CopyingInv, RegisteredInv
    <2>6. \A x \in PageDescr : pmt[x].disk # 0 => pmt[x].disk # c
      BY <1>5, <2>4
    <2>7. DiskInv'
      <3>1. ASSUME NEW x \in PageDescr, pmt'[x].disk # 0
            PROVE  pmt'[x].init /\ ~pmt'[x].valid /\ ~diskTable'[pmt'[x].disk]
        <4>1. CASE x = v
          BY <2>1, <2>2, <2>4, <2>5, <3>1, <4>1
        <4>2. CASE x # v
          <5>1. pmt'[x].disk = pmt[x].disk /\ pmt[x].disk # 0 /\ Copied[x] = pmt[x]
            BY <1>8, <1>9, <2>1, <3>1, <4>2
          <5>2. /\ pmt[x].init /\ ~pmt[x].valid /\ ~diskTable[pmt[x].disk]
                /\ pmt[x].disk \in Clusters /\ pmt[x].disk # c
            BY <1>2, <1>5, <2>6, <5>1
          <5>3. diskTable'[pmt[x].disk] = diskTable[pmt[x].disk]
            BY <2>4, <5>2
          <5> QED
            BY <2>1, <5>1, <5>2, <5>3
        <4> QED
          BY <4>1, <4>2
      <3>2. ASSUME NEW x \in PageDescr, NEW other \in PageDescr,
                   pmt'[x].disk # 0, pmt'[x].disk = pmt'[other].disk
            PROVE  x = other
        <4>1. \A y \in PageDescr :
                pmt'[y].disk = IF y = v THEN c ELSE pmt[y].disk
          BY <1>8, <2>1
        <4> QED
          BY <1>5, <2>6, <3>2, <4>1
      <3>3. ASSUME NEW k \in Clusters, ~diskTable'[k]
            PROVE  k # 0 /\ \E x \in PageDescr : pmt'[x].disk = k
        <4>1. CASE k = c /\ c # 0
          BY <2>1, <4>1
        <4>2. CASE k # c \/ c = 0
          <5>1. ~diskTable[k]
            BY <2>4, <3>3, <4>2
          <5>2. PICK x \in PageDescr : pmt[x].disk = k /\ k # 0
            BY <1>5, <5>1
          <5>3. x # v
            BY <2>3, <5>2
          <5> QED
            BY <1>8, <2>1, <5>2, <5>3
        <4> QED
          BY <4>1, <4>2
      <3> QED
        BY <1>7, <3>1, <3>2, <3>3 DEF DiskInv, Idle
    <2>8. ASSUME NEW x \in PageDescr, x[1] # clone.id, lastWritten[x] \in Values
          PROVE  /\ ContentsOf(x)' = lastWritten[x]
                 /\ pmt'[x].valid /\ ~pmt'[x].dirty =>
                      pmt'[x].sourceAddress = lastWritten[x]
      <3>1. Copied[x] = pmt[x]
        BY <1>1, <1>3, <2>8
      <3>2. CASE x = v
        <4>1. /\ ~pmt'[x].valid /\ pmt'[x].disk = c
              /\ pmt'[x].sourceAddress = pmt[x].sourceAddress
          BY <2>1, <3>1, <3>2
        <4>2. memory[f] = lastWritten[x]
          BY <1>6, <2>2, <2>8, <3>2
        <4>3. CASE c = 0
          <5>1. pmt[x].sourceAddress = lastWritten[x]
            BY <1>6, <2>2, <2>4, <2>8, <3>2, <4>3
          <5> QED
            BY <4>1, <4>3, <5>1 DEF ContentsOf
        <4>4. CASE c # 0
          BY <2>4, <4>1, <4>2, <4>4 DEF ContentsOf
        <4> QED
          BY <4>3, <4>4
      <3>3. CASE x # v
        <4>1. /\ pmt'[x].valid <=> pmt[x].valid
              /\ pmt'[x].dirty <=> pmt[x].dirty
              /\ pmt'[x].block = pmt[x].block /\ pmt'[x].disk = pmt[x].disk
              /\ pmt'[x].sourceAddress = pmt[x].sourceAddress
          BY <2>1, <3>1, <3>3
        <4>2. pmt[x].disk # 0 => partition'[pmt[x].disk] = partition[pmt[x].disk]
          BY <1>2, <2>4, <2>6
        <4> QED
          BY <1>2, <1>6, <2>8, <4>1, <4>2 DEF ContentsOf
      <3> QED
        BY <3>2, <3>3
    <2>9. ASSUME NEW x \in PageDescr, x[1] = clone.id, x # Copy
          PROVE  ContentsOf(x)' = ContentsOf(x) /\ pmt'[x].disk = pmt[x].disk
      <3>1. x # v /\ Copied[x] = pmt[x]
        BY <1>3, <2>2, <2>9
      <3>2. /\ pmt'[x].valid <=> pmt[x].valid
            /\ pmt'[x].disk = pmt[x].disk
            /\ pmt'[x].block = pmt[x].block
            /\ pmt'[x].sourceAddress = pmt[x].sourceAddress
        BY <2>1, <3>1
      <3>3. pmt[x].disk # 0 => partition'[pmt[x].disk] = partition[pmt[x].disk]
        BY <1>2, <2>4, <2>6
      <3> QED
        BY <1>2, <3>2, <3>3 DEF ContentsOf
    <2>10. pmt'[Copy].disk = 0
      BY <1>1, <1>4, <1>8, <2>1, <2>2
    <2> QED
      BY <2>7, <2>8, <2>9, <2>10
  <1> QED
    BY <1>1, <1>3, <1>10, <1>11, FrameCases

\* The frames claimed stay the last in the queue when one more is claimed.
LEMMA LastInQueue ==
  ASSUME fifoQueue \in Seq(Frames), QueuedOnce, QueueInjective,
         NEW claimed, NEW f \in Frames, NEW pd, NEW descriptors,
         getFreeFrame(pd, descriptors, f),
         \A i, j \in DOMAIN fifoQueue :
           i < j /\ fifoQueue[i] \in claimed => fifoQueue[j] \in claimed
  PROVE  \A i, j \in DOMAIN fifoQueue' :
           i < j /\ fifoQueue'[i] \in claimed \union {f} =>
             fifoQueue'[j] \in claimed \union {f}
  <1>1. PICK n \in Nat : n = Len(fifoQueue) /\ DOMAIN fifoQueue = 1 .. n
    OBVIOUS
  <1>2. CASE takeFreeFrame(pd, descriptors, f)
    <2>1. f \in FreeFrames /\ fifoQueue' = Append(fifoQueue, f)
      BY <1>2 DEF takeFreeFrame, enqueue
    <2>2. f \notin Queued
      BY <2>1 DEF QueuedOnce
    <2>3. \A i \in 1 .. n : fifoQueue[i] # f
      BY <1>1, <2>2 DEF Queued
    <2>4. /\ DOMAIN fifoQueue' = 1 .. n + 1
          /\ fifoQueue'[n + 1] = f
          /\ \A i \in 1 .. n : fifoQueue'[i] = fifoQueue[i]
      BY <1>1, <2>1
    <2> SUFFICES ASSUME NEW i \in 1 .. n + 1, NEW j \in 1 .. n + 1, i < j,
                        fifoQueue'[i] \in claimed \union {f}
                 PROVE  fifoQueue'[j] \in claimed \union {f}
      BY <2>4
    <2>5. CASE j = n + 1
      BY <2>4, <2>5
    <2>6. CASE j # n + 1
      <3>1. i \in 1 .. n /\ j \in 1 .. n
        BY <2>6
      <3>2. fifoQueue[i] \in claimed
        BY <2>3, <2>4, <3>1
      <3> QED
        BY <1>1, <2>4, <3>1, <3>2
    <2> QED
      BY <2>5, <2>6
  <1>3. CASE replacePage(pd, descriptors, f)
    <2>1. /\ fifoQueue # <<>> /\ f = Head(fifoQueue)
          /\ fifoQueue' = Append(Tail(fifoQueue), Head(fifoQueue))
      BY <1>3 DEF replacePage, requeue
    <2>2. /\ n # 0 /\ f = fifoQueue[1]
          /\ DOMAIN fifoQueue' = 1 .. n
          /\ fifoQueue'[n] = f
          /\ \A i \in 1 .. n - 1 : fifoQueue'[i] = fifoQueue[i + 1]
      BY <1>1, <2>1
    <2> SUFFICES ASSUME NEW i \in 1 .. n, NEW j \in 1 .. n, i < j,
                        fifoQueue'[i] \in claimed \union {f}
                 PROVE  fifoQueue'[j] \in claimed \union {f}
      BY <2>2
    <2>3. CASE j = n
      BY <2>2, <2>3
    <2>4. CASE j # n
      <3>1. /\ i \in 1 .. n - 1 /\ j \in 1 .. n - 1
            /\ 1 \in 1 .. n /\ i + 1 \in 1 .. n /\ j + 1 \in 1 .. n
            /\ i + 1 < j + 1 /\ i + 1 # 1
        BY <2>4
      <3>2. fifoQueue[i + 1] # f
        BY <1>1, <2>2, <3>1 DEF QueueInjective
      <3>3. fifoQueue[i + 1] \in claimed
        BY <2>2, <3>1, <3>2
      <3> QED
        BY <1>1, <2>2, <3>1, <3>3
    <2> QED
      BY <2>3, <2>4
  <1> QED
    BY <1>2, <1>3 DEF getFreeFrame

\* A frame is claimed for the page the loop has come to.
LEMMA ClaimFrameCopies ==
  ASSUME CloneInv, VictimIsReal, clone # Idle, clone.p # clone.id,
         TablesFull(clone.p), CopyingInv, ClaimFrame
  PROVE  CopyingInv'
  <1>1. /\ clone.pc = "entry" /\ pmt[Original].init /\ pmt[Original].valid
        /\ clone \in CloneCall /\ KernelTypeOK /\ fault = Idle
        /\ UNCHANGED <<pageDirectory, segment, fault, instruction, lastWritten>>
    BY DEF ClaimFrame, CloneInv, TypeInv, TypeOK, callVars, testVars, CopyingInv,
           TableInv
  <1>2. PICK f \in Frames :
          /\ getFreeFrame(Original, Copied, f)
          /\ clone' = [clone EXCEPT !.pc = "copy", !.frame = f]
    BY DEF ClaimFrame
  <1>3. PICK n \in Pages, p \in Processes, id \in Processes :
          /\ n = ClonePosition /\ p = clone.p /\ id = clone.id /\ n \in Nat
          /\ Original = <<p, n>> /\ Copy = <<id, n>>
          /\ <<p, n>> \in PageDescr /\ <<id, n>> \in PageDescr /\ p # id
    <2>1. /\ ClonePosition \in Pages
          /\ Original = <<clone.p, ClonePosition>>
          /\ Copy = <<clone.id, ClonePosition>>
          /\ Original \in PageDescr /\ Copy \in PageDescr
      BY <1>1, CloneAt DEF CopyingInv
    <2> QED
      BY <1>1, <2>1, SizeAssumption DEF CloneCall, Pages
  <1>4. /\ clone'.pc = "copy" /\ clone'.frame = f /\ clone'.p = p /\ clone'.id = id
        /\ clone'.dir = clone.dir /\ clone'.table = clone.table
        /\ clone'.entry = clone.entry
    BY <1>1, <1>2, <1>3 DEF CloneCall
  <1>5. Original' = <<p, n>> /\ Copy' = <<id, n>> /\ ClonePosition' = n
    BY <1>1, <1>3, <1>4 DEF Original, Copy, ClonePosition
  <1>6. /\ ~OwnFrame(f)
        /\ \A g \in Frames, x \in PageDescr :
             HeldBy(g, x)' <=> IF g = f THEN x = <<p, n>> ELSE HeldBy(g, x)
        /\ \A x \in PageDescr : x # <<id, n>> =>
             /\ pmt'[x].init = pmt[x].init
             /\ pmt'[x].valid <=> pmt[x].valid /\ ~HeldBy(f, x)
             /\ pmt'[x].block = pmt[x].block
        /\ pmt'[<<id, n>>].init /\ pmt'[<<id, n>>].valid
        /\ \A x \in PageDescr : HeldBy(f, x) =>
             pmt[x].valid /\ pmt[x].block = f /\ x[1] # id
    BY <1>1, <1>2, <1>3, ClaimedFields
  <1>7. /\ DiskInv'
        /\ \A x \in PageDescr : x[1] # id /\ lastWritten[x] \in Values =>
             /\ ContentsOf(x)' = lastWritten[x]
             /\ pmt'[x].valid /\ ~pmt'[x].dirty =>
                  pmt'[x].sourceAddress = lastWritten[x]
        /\ \A x \in PageDescr : x[1] = id /\ x # <<id, n>> =>
             ContentsOf(x)' = ContentsOf(x) /\ pmt'[x].disk = pmt[x].disk
        /\ pmt'[<<id, n>>].disk = 0
    BY <1>1, <1>2, <1>3, ClaimedContents
  <1>8. /\ \A q \in Pages : q \in Nat
        /\ \A q \in Pages : <<p, q>> \in PageDescr /\ <<id, q>> \in PageDescr
        /\ \A q \in Pages : <<p, q>> # <<id, n>>
        /\ \A q \in Pages : q # n => <<id, q>> # <<id, n>>
        /\ \A x \in PageDescr : x[1] # id => x # <<id, n>>
        /\ memory' = memory
    BY <1>2, <1>3, SizeAssumption DEF Pages, PageDescr, getFreeFrame
  <1>9. \A q \in Pages : /\ Passed(q)' <=> Passed(q)
                         /\ Passed(q) => q # n
    <2> SUFFICES ASSUME NEW q \in Pages
                 PROVE  (Passed(q)' <=> Passed(q)) /\ (Passed(q) => q # n)
      OBVIOUS
    <2>1. pmt'[<<p, q>>].init = pmt[<<p, q>>].init
      BY <1>6, <1>8
    <2>2. Passed(q) <=> q < n /\ DirOf(q) \in pageDirectory[p] /\ pmt[<<p, q>>].init
      BY <1>3 DEF Passed, Mapped, HasTable
    <2>3. Passed(q)' <=> q < n /\ DirOf(q) \in pageDirectory'[p]
                         /\ pmt'[<<p, q>>].init
      BY <1>4, <1>5 DEF Passed, Mapped, HasTable
    <2>4. q \in Nat
      BY <1>8
    <2> QED
      BY <1>1, <1>3, <2>1, <2>2, <2>3, <2>4
  <1>10. \A q \in Pages : Passed(q) =>
           /\ pmt'[<<id, q>>].init = pmt[<<id, q>>].init
           /\ pmt'[<<id, q>>].valid <=> pmt[<<id, q>>].valid
           /\ pmt'[<<id, q>>].block = pmt[<<id, q>>].block
    <2>1. \A q \in Pages : ~HeldBy(f, <<id, q>>)
      BY <1>6, <1>8
    <2> QED
      BY <1>6, <1>8, <1>9, <2>1
  <1>11. \A g \in Frames : OwnFrame(g)' <=> OwnFrame(g) \/ g = f
    BY <1>1, <1>3, <1>4, <1>9, <1>10 DEF OwnFrame
  <1>12. TableInv'
    <2>1. /\ clone.table = clone.dir /\ clone.dir \in pageDirectory[p]
          /\ clone.dir \in pageDirectory[id]
      BY <1>1, <1>3 DEF CopyingInv, TableInv
    <2> QED
      BY <1>1, <1>4, <2>1 DEF TableInv
  <1>13. /\ HeldBy(pmt[<<p, n>>].block, <<p, n>>)
         /\ pmt[<<p, n>>].block \in Frames
    BY <1>1, <1>3 DEF CopyingInv, RegisteredInv, CloneInv, TypeInv, BlocksAssigned,
                      Quiet, Idle
  <1>14. ClaimInv'
    <2>1. HeldBy(f, <<p, n>>)'
      BY <1>3, <1>6
    <2>2. HeldBy(clone.frame, Original)'
      BY <1>4, <1>5, <2>1 DEF HeldBy
    <2>3. pmt'[<<p, n>>].valid => pmt'[<<p, n>>].block # f
      BY <1>3, <1>6, <1>8, <1>13
    <2>4. pmt'[<<p, n>>].block = pmt[<<p, n>>].block
      BY <1>3, <1>6, <1>8
    <2>5. lastWritten[<<p, n>>] \in Values =>
            memory[pmt[<<p, n>>].block] = lastWritten[<<p, n>>]
      BY <1>1, <1>3 DEF CopyingInv, OthersContents, ContentsOf
    <2> QED
      BY <1>1, <1>4, <1>5, <1>6, <1>8, <2>2, <2>3, <2>4, <2>5 DEF ClaimInv
  <1>15. RegisteredInv'
    <2>1. ASSUME NEW x \in PageDescr, x[1] # id, pmt'[x].init, pmt'[x].valid
          PROVE  HeldBy(pmt[x].block, x)'
      <3>1. pmt[x].init /\ pmt[x].valid /\ ~HeldBy(f, x)
        BY <1>6, <1>8, <2>1
      <3>2. HeldBy(pmt[x].block, x) /\ pmt[x].block \in Frames
        BY <1>1, <1>3, <2>1, <3>1
           DEF CopyingInv, RegisteredInv, CloneInv, TypeInv, BlocksAssigned, Quiet,
               Idle
      <3>3. PICK g \in Frames : g = pmt[x].block /\ g # f
        BY <3>1, <3>2
      <3>4. HeldBy(g, x)'
        BY <1>6, <3>2, <3>3
      <3>5. pmt'[x].block = g
        BY <1>6, <1>8, <2>1, <3>3
      <3> QED
        BY <3>4, <3>5 DEF HeldBy
    <2>2. ASSUME NEW g \in Frames, NEW x \in PageDescr, HeldBy(g, x)'
          PROVE  x[1] # id /\ pmt'[x].init
      <3>1. CASE g = f
        BY <1>1, <1>3, <1>6, <1>8, <2>2, <3>1
      <3>2. CASE g # f
        <4>1. HeldBy(g, x)
          BY <1>6, <2>2, <3>2
        <4>2. x[1] # id /\ pmt[x].init
          BY <1>3, <4>1 DEF CopyingInv, RegisteredInv
        <4> QED
          BY <1>6, <1>8, <4>2
      <3> QED
        BY <3>1, <3>2
    <2>3. ASSUME NEW g \in Frames, NEW x \in PageDescr, HeldBy(g, x)',
                 ~OwnFrame(g)'
          PROVE  pmt'[x].valid /\ pmt'[x].block = g
      <3>1. g # f /\ ~OwnFrame(g)
        BY <1>11, <2>3
      <3>2. HeldBy(g, x)
        BY <1>6, <2>3, <3>1
      <3>3. pmt[x].valid /\ pmt[x].block = g /\ x[1] # id
        BY <1>3, <3>1, <3>2 DEF CopyingInv, RegisteredInv
      <3>4. ~HeldBy(f, x)
        BY <1>6, <3>1, <3>3
      <3> QED
        BY <1>6, <1>8, <3>3, <3>4
    <2>4. \A x \in PageDescr :
            x[1] # clone'.id /\ pmt'[x].init /\ pmt'[x].valid =>
              HeldBy(pmt[x].block, x)'
      BY <1>4, <2>1
    <2>5. \A g \in Frames, x \in PageDescr :
            HeldBy(g, x)' => x[1] # clone'.id /\ pmt'[x].init
      BY <1>4, <2>2
    <2> QED
      BY <2>3, <2>4, <2>5 DEF RegisteredInv
  <1>16. ClaimedLast'
    <2>1. /\ QueuedOnce /\ QueueInjective
          /\ \A i, j \in DOMAIN fifoQueue :
               i < j /\ OwnFrame(fifoQueue[i]) => OwnFrame(fifoQueue[j])
      BY DEF CopyingInv, ClaimedLast
    <2>2. QueuedOnce' /\ QueueInjective'
      <3>1. Original \in PageDescr /\ Copied \in [PageDescr -> PageDescriptor]
        BY <1>1, CopiedEntry
      <3> QED
        BY <1>1, <1>2, <2>1, <3>1, QueueKept
    <2>3. fifoQueue \in Seq(Frames) /\ fifoQueue' \in Seq(Frames)
      <3>1. fifoQueue \in Seq(Frames)
        BY <1>1 DEF KernelTypeOK
      <3>2. CloneInv'
        BY CloneEntryInv
      <3> QED
        BY <3>1, <3>2 DEF CloneInv, TypeInv, TypeOK, KernelTypeOK
    <2> DEFINE claimed == {g \in Frames : OwnFrame(g)}
    <2>4. \A i, j \in DOMAIN fifoQueue :
            i < j /\ fifoQueue[i] \in claimed => fifoQueue[j] \in claimed
      BY <2>1, <2>3
    <2> HIDE DEF claimed
    <2>5. \A i, j \in DOMAIN fifoQueue' :
            i < j /\ fifoQueue'[i] \in claimed \union {f} =>
              fifoQueue'[j] \in claimed \union {f}
      BY <1>2, <2>1, <2>3, <2>4, LastInQueue
    <2>6. \A g \in Frames : OwnFrame(g)' <=> g \in claimed \union {f}
      BY <1>11 DEF claimed
    <2>7. ASSUME NEW i \in DOMAIN fifoQueue', NEW j \in DOMAIN fifoQueue', i < j,
                 OwnFrame(fifoQueue[i])'
          PROVE  OwnFrame(fifoQueue[j])'
      <3>1. PICK g \in Frames, h \in Frames :
              g = fifoQueue'[i] /\ h = fifoQueue'[j]
        BY <2>3
      <3>2. OwnFrame(g)'
        BY <2>7, <3>1 DEF OwnFrame
      <3>3. h \in claimed \union {f}
        BY <2>5, <2>6, <2>7, <3>1, <3>2
      <3>4. OwnFrame(h)'
        BY <2>6, <3>3
      <3> QED
        BY <3>1, <3>4 DEF OwnFrame
    <2> QED
      BY <2>2, <2>7 DEF ClaimedLast
  <1>17. CloneDiskInv'
    <2>1. ASSUME NEW q \in Pages, q >= n
          PROVE  pmt'[<<id, q>>].disk = 0
      <3>1. CASE q = n
        BY <1>7, <3>1
      <3>2. CASE q # n
        <4>1. pmt[<<id, q>>].disk = 0
          BY <1>3, <2>1 DEF CopyingInv, CloneDiskInv
        <4> QED
          BY <1>7, <1>8, <3>2, <4>1
      <3> QED
        BY <3>1, <3>2
    <2> QED
      BY <1>4, <1>5, <1>7, <2>1 DEF CloneDiskInv
  <1>18. OthersContents'
    <2>1. ASSUME NEW x \in PageDescr, x[1] # id, lastWritten[x] \in Values
          PROVE  pmt'[x].init
      <3>1. pmt[x].init
        BY <1>3, <2>1 DEF CopyingInv, OthersContents
      <3> QED
        BY <1>6, <1>8, <2>1, <3>1
    <2> QED
      BY <1>1, <1>4, <1>7, <2>1 DEF OthersContents
  <1>19. CopiesInv'
    <2> SUFFICES ASSUME NEW q \in Pages, Passed(q)
                 PROVE  /\ Mapped(<<id, q>>)'
                        /\ lastWritten[<<p, q>>] \in Values =>
                             ContentsOf(<<id, q>>)' = lastWritten[<<p, q>>]
                        /\ pmt'[<<id, q>>].valid =>
                             /\ HeldBy(pmt[<<id, q>>].block, <<p, q>>)'
                             /\ pmt'[<<p, q>>].valid =>
                                  pmt'[<<id, q>>].block # pmt'[<<p, q>>].block
      <3>1. \A q \in Pages : Passed(q) <=> Passed(q)'
        BY <1>9
      <3>2. lastWritten' = lastWritten /\ clone'.p = p /\ clone'.id = id
        BY <1>1, <1>4
      <3> QED
        BY <3>1, <3>2 DEF CopiesInv, Mapped, HasTable, ContentsOf, HeldBy
    <2>1. /\ Mapped(<<id, q>>)
          /\ lastWritten[<<p, q>>] \in Values =>
               ContentsOf(<<id, q>>) = lastWritten[<<p, q>>]
          /\ pmt[<<id, q>>].valid =>
               /\ HeldBy(pmt[<<id, q>>].block, <<p, q>>)
               /\ pmt[<<p, q>>].valid =>
                    pmt[<<id, q>>].block # pmt[<<p, q>>].block
      BY <1>3 DEF CopyingInv, CopiesInv
    <2>2. Mapped(<<id, q>>)'
      BY <1>1, <1>10, <2>1 DEF Mapped, HasTable
    <2>3. lastWritten[<<p, q>>] \in Values =>
            ContentsOf(<<id, q>>)' = lastWritten[<<p, q>>]
      BY <1>7, <1>8, <1>9, <2>1
    <2>4. ASSUME pmt'[<<id, q>>].valid
          PROVE  HeldBy(pmt[<<id, q>>].block, <<p, q>>)'
      <3>1. pmt[<<id, q>>].valid /\ pmt[<<id, q>>].init
        BY <1>10, <2>1, <2>4 DEF Mapped
      <3>2. PICK g \in Frames : g = pmt[<<id, q>>].block
        <4>1. segment = Idle /\ BlocksAssigned
          BY DEF CloneInv, TypeInv, Quiet
        <4>2. segment.pc # "fill"
          BY <4>1 DEF Idle
        <4>3. pmt[<<id, q>>].block \in Frames
          BY <1>8, <3>1, <4>1, <4>2 DEF BlocksAssigned
        <4> QED
          BY <4>3
      <3>3. g # f
        <4>1. OwnFrame(g)
          BY <1>3, <3>1, <3>2 DEF OwnFrame
        <4> QED
          BY <1>6, <4>1
      <3>4. HeldBy(g, <<p, q>>)
        BY <2>1, <3>1, <3>2
      <3>5. HeldBy(g, <<p, q>>)'
        BY <1>6, <1>8, <3>3, <3>4
      <3>6. pmt'[<<id, q>>].block = g
        BY <1>10, <3>2
      <3> QED
        BY <3>5, <3>6 DEF HeldBy
    <2>5. ASSUME pmt'[<<id, q>>].valid, pmt'[<<p, q>>].valid
          PROVE  pmt'[<<id, q>>].block # pmt'[<<p, q>>].block
      <3>1. pmt[<<id, q>>].valid /\ pmt'[<<id, q>>].block = pmt[<<id, q>>].block
        BY <1>10, <2>5
      <3>2. pmt[<<p, q>>].valid /\ pmt'[<<p, q>>].block = pmt[<<p, q>>].block
        BY <1>6, <1>8, <2>5
      <3> QED
        BY <2>1, <3>1, <3>2
    <2> QED
      BY <2>2, <2>3, <2>4, <2>5
  <1> QED
    BY <1>12, <1>14, <1>15, <1>16, <1>17, <1>18, <1>19 DEF CopyingInv

\* While pages are copied the parent keeps its tables and pages.
LEMMA ParentKept ==
  ASSUME CloneInv, clone # Idle, clone.p # clone.id,
         \/ SkipMissingTable \/ CopyTable \/ SkipEntry \/ LeaveDirectory
         \/ PassNothing \/ CopyEntry \/ ClaimFrame \/ CopyPage \/ CopyCluster
  PROVE  /\ clone'.p = clone.p /\ clone'.id = clone.id
         /\ pageDirectory'[clone.p] = pageDirectory[clone.p]
         /\ \A q \in Pages :
              pmt'[<<clone.p, q>>].init = pmt[<<clone.p, q>>].init
         /\ TablesFull(clone.p)' => TablesFull(clone.p)
         /\ exited = "no" /\ PID' = PID /\ clone' # Idle
  <1>1. PICK p \in Processes, id \in Processes :
          p = clone.p /\ id = clone.id /\ p # id /\ clone \in CloneCall
    BY DEF CloneInv, CloneCall
  <1>2. /\ Copied \in [PageDescr -> PageDescriptor]
        /\ Copy \in PageDescr /\ Copy[1] = id
        /\ \A x \in PageDescr : x # Copy => Copied[x] = pmt[x]
        /\ pmt \in [PageDescr -> PageDescriptor]
        /\ pageDirectory \in [Processes -> SUBSET Dirs]
    <2>1. KernelTypeOK
      BY DEF CloneInv, TypeInv, TypeOK
    <2>2. Copied \in [PageDescr -> PageDescriptor] /\ Copy \in PageDescr
      BY <1>1, <2>1, CopiedEntry
    <2>3. \A x \in PageDescr : x # Copy => Copied[x] = pmt[x]
      BY <1>1, <2>1, CopiedEntry
    <2> QED
      BY <1>1, <2>1, <2>2, <2>3 DEF Copy, KernelTypeOK
  <1>3. \A q \in Pages : <<p, q>> \in PageDescr /\ <<p, q>> # Copy
    BY <1>1, <1>2 DEF PageDescr
  <1>4. pageDirectory'[p] = pageDirectory[p]
    BY <1>1, <1>2
       DEF SkipMissingTable, CopyTable, SkipEntry, LeaveDirectory, PassEntry,
           PassNothing, CopyEntry, ClaimFrame, CopyPage, CopyCluster, vars, kernelVars
  <1>5. \A q \in Pages : pmt'[<<p, q>>].init = pmt[<<p, q>>].init
    <2>1. CASE SkipMissingTable \/ CopyTable \/ PassNothing
      BY <2>1 DEF SkipMissingTable, CopyTable, PassNothing, vars, kernelVars
    <2>6. CASE SkipEntry \/ LeaveDirectory
      <3>1. PICK rest \in LeftOver : pmt' = [pmt EXCEPT ![Copy] = rest]
        BY <2>6 DEF SkipEntry, LeaveDirectory, PassEntry
      <3> QED
        BY <1>2, <1>3, <3>1
    <2>2. CASE CopyEntry
      BY <1>2, <1>3, <2>2 DEF CopyEntry
    <2>3. CASE ClaimFrame
      <3>1. PICK f \in Frames : getFreeFrame(Original, Copied, f)
        BY <2>3 DEF ClaimFrame
      <3>2. KernelTypeOK /\ Original \in PageDescr
        BY <1>1, CopiedEntry DEF CloneInv, TypeInv, TypeOK
      <3>3. \A x \in PageDescr : pmt'[x].init = Copied[x].init
        BY <1>2, <3>1, <3>2, GetFreeFrameType
      <3> QED
        BY <1>2, <1>3, <3>3
    <2>4. CASE CopyPage
      BY <1>2, <1>3, <2>4 DEF CopyPage
    <2>5. CASE CopyCluster
      <3>1. PICK c \in Clusters : pmt' = [Copied EXCEPT ![Copy].disk = c]
        BY <2>5 DEF CopyCluster
      <3> QED
        BY <1>2, <1>3, <3>1
    <2> QED
      BY <2>1, <2>2, <2>3, <2>4, <2>5, <2>6
  <1>6. clone'.p = p /\ clone'.id = id /\ clone' # Idle
    <2>1. clone'.p = p /\ clone'.id = id /\ clone'.pc \in {"dir", "entry", "copy"}
      BY <1>1
         DEF CloneCall, SkipMissingTable, CopyTable, SkipEntry, LeaveDirectory,
             PassEntry, PassNothing, CopyEntry, ClaimFrame, CopyPage, CopyCluster,
             NextEntry, NextTable
    <2> QED
      BY <2>1 DEF Idle
  <1>7. TablesFull(clone.p)' => TablesFull(p)
    BY <1>1, <1>4, <1>5, <1>6 DEF TablesFull, HasTable
  <1>8. exited = "no" /\ PID' = PID
    BY DEF SkipMissingTable, CopyTable, SkipEntry, LeaveDirectory, PassEntry,
           PassNothing, CopyEntry, ClaimFrame, CopyPage, CopyCluster, vars,
           kernelVars, getFreeFrame
  <1> QED
    BY <1>1, <1>4, <1>5, <1>6, <1>7, <1>8

\* Only LeaveDirectory takes the index out of the directory.
LEMMA IndexStays ==
  ASSUME CloneInv, clone # Idle,
         \/ SkipMissingTable \/ CopyTable \/ SkipEntry
         \/ CopyEntry \/ ClaimFrame \/ CopyPage \/ CopyCluster
  PROVE  clone'.dir <= MAX_PMT_TABLES
  <1>1. clone \in CloneCall
    BY DEF CloneInv
  <1>2. CASE SkipMissingTable \/ CopyTable
    <2>1. clone.dir \in Dirs
      BY <1>1, <1>2, SizeAssumption, BehindAssumption
         DEF SkipMissingTable, CopyTable, CloneCall, Dirs
    <2>2. clone'.dir \in {clone.dir, clone.dir + 1}
      BY <1>1, <1>2 DEF SkipMissingTable, CopyTable, NextTable, CloneCall
    <2> QED
      BY <2>1, <2>2, DirIsIndex, SizeAssumption DEF Dirs
  <1>3. CASE SkipEntry \/ CopyEntry \/ CopyPage \/ CopyCluster
    <2>1. clone.dir \in Dirs
      BY <1>3 DEF CloneInv, SkipEntry, PassEntry, CopyEntry, CopyPage, CopyCluster
    <2>2. \/ NextEntry(clone.dir)
          \/ clone.dir + 1 \in Dirs /\ NextEntry(clone.dir + 1)
      BY <1>3, <2>1, SizeAssumption
         DEF SkipEntry, CopyEntry, CopyPage, CopyCluster, Dirs
    <2> QED
      BY <1>1, <2>1, <2>2, NextEntryInv
  <1>4. CASE ClaimFrame
    <2>1. clone.dir \in Dirs
      BY <1>4 DEF CloneInv, ClaimFrame
    <2>2. clone'.dir = clone.dir
      BY <1>1, <1>4 DEF ClaimFrame, CloneCall
    <2> QED
      BY <2>1, <2>2, SizeAssumption DEF Dirs
  <1> QED
    BY <1>2, <1>3, <1>4

\* A step of the call that goes on.
LEMMA CopyGoesOn ==
  ASSUME CopyInv, clone # Idle,
         \/ SkipMissingTable \/ CopyTable \/ SkipEntry \/ LeaveDirectory
         \/ PassNothing \/ CopyEntry \/ ClaimFrame \/ CopyPage \/ CopyCluster
  PROVE  /\ clone' # Idle /\ clone'.p # clone'.id /\ PID' = MaxProcesses
         /\ exited' = "no" /\ TablesFull(clone.p)' =>
              CopyingInv' /\ clone'.dir <= MAX_PMT_TABLES
  <1>1. /\ CloneInv /\ VictimIsReal /\ clone.p # clone.id /\ PID = MaxProcesses
        /\ exited = "no" /\ TablesFull(clone.p) =>
             CopyingInv /\ clone.dir <= MAX_PMT_TABLES
    BY DEF CopyInv
  <1>2. /\ clone'.p = clone.p /\ clone'.id = clone.id
        /\ TablesFull(clone.p)' => TablesFull(clone.p)
        /\ exited = "no" /\ PID' = PID /\ clone' # Idle
    BY <1>1, ParentKept
  <1>3. ASSUME TablesFull(clone.p)
        PROVE  CopyingInv' /\ clone'.dir <= MAX_PMT_TABLES
    <2>1. CopyingInv /\ clone.dir <= MAX_PMT_TABLES
      BY <1>1, <1>2, <1>3
    <2>2. ~(SkipEntry \/ LeaveDirectory)
      <3> SUFFICES ASSUME SkipEntry \/ LeaveDirectory PROVE FALSE
        OBVIOUS
      <3>1. clone.pc = "entry" /\ ~pmt[Original].init
        BY DEF SkipEntry, LeaveDirectory, PassEntry
      <3> QED
        BY <1>1, <1>3, <2>1, <3>1, CloneAt DEF CopyingInv
    <2>3. ~PassNothing
      <3> SUFFICES ASSUME PassNothing PROVE FALSE
        OBVIOUS
      <3>1. clone.dir > MAX_PMT_TABLES
        BY DEF PassNothing
      <3> QED
        BY <1>1, <2>1, <3>1, SizeAssumption DEF CloneInv, CloneCall
    <2> QED
      BY <1>1, <1>3, <2>1, <2>2, <2>3, IndexStays, CopyMoves, CopyEntryCopies, ClaimFrameCopies,
         CopyPageCopies, CopyClusterCopies
  <1> QED
    BY <1>1, <1>2, <1>3

\* Nothing happens.
LEMMA CopyStays ==
  ASSUME CloneInv, CopyingInv, UNCHANGED cloneVars
  PROVE  CopyingInv'
  <1> USE DEF cloneVars, vars, kernelVars, callVars, testVars
  <1>1. /\ UNCHANGED <<pmtTable, fifoQueue, diskTable, memory, partition,
                       pageDirectory, pmt, fault, lastWritten, clone>>
    OBVIOUS
  <1>2. /\ Original' = Original /\ Copy' = Copy /\ ClonePosition' = ClonePosition
    BY <1>1 DEF Original, Copy, ClonePosition
  <1>3. TableInv' /\ ClaimInv'
    BY <1>1, <1>2 DEF CopyingInv, TableInv, ClaimInv, HeldBy
  <1>4. RegisteredInv' /\ ClaimedLast'
    <2>1. \A f \in Frames : OwnFrame(f)' <=> OwnFrame(f)
      BY <1>1, <1>2 DEF OwnFrame, Passed, Mapped, HasTable
    <2>2. fifoQueue \in Seq(Frames)
      BY DEF CloneInv, TypeInv, TypeOK, KernelTypeOK
    <2> QED
      BY <1>1, <2>1, <2>2, FramesClaimed DEF CopyingInv
  <1>5. CloneDiskInv'
    BY <1>1, <1>2 DEF CopyingInv, CloneDiskInv, DiskInv
  <1>6. OthersContents'
    BY <1>1, <1>2 DEF CopyingInv, OthersContents, ContentsOf
  <1>7. CopiesInv'
    BY <1>1, <1>2
       DEF CopyingInv, CopiesInv, ContentsOf, HeldBy, Passed, Mapped, HasTable
  <1> QED
    BY <1>3, <1>4, <1>5, <1>6, <1>7 DEF CopyingInv

\* Every step of a program whose last process is the only clone keeps the
\* invariant.
LEMMA CopyInvStep ==
  CopyInv /\ [LastCloneNext]_cloneVars => CopyInv'
  <1> SUFFICES ASSUME CopyInv, [LastCloneNext]_cloneVars
               PROVE  CopyInv'
    OBVIOUS
  <1>1. CloneInv' /\ VictimIsReal'
    BY CloneNextInv DEF CopyInv, LastCloneNext
  <1>2. CASE UNCHANGED cloneVars
    <2>1. UNCHANGED <<clone, PID, exited, vars>>
      BY <1>2 DEF cloneVars, vars, kernelVars
    <2>2. ASSUME clone = Idle, PID < MaxProcesses
          PROVE  SerialInv'
      BY <2>1, <2>2, SerialInvStep DEF CopyInv
    <2>3. TablesFull(clone.p)' => TablesFull(clone.p)
      BY <1>2
         DEF TablesFull, HasTable, cloneVars, vars, kernelVars
    <2> QED
      BY <1>1, <1>2, <2>1, <2>2, <2>3, CopyStays DEF CopyInv
  <1>3. CASE (SegmentStep \/ InstructionStep) /\ UNCHANGED clone
    <2>1. clone = Idle /\ clone' = Idle
      BY <1>3, ProgramStepClone DEF CopyInv
    <2>2. PID' = PID
      <3>1. SegmentStep => PID' = PID
        BY DEF SegmentStep, ClaimPage, AllocPage, getFreeFrame, AllocPageDiskFull,
               AddPage, FillCreatedPage, FillLoadedPage, RemovePages, FreePage, Exit
      <3>2. Access => PID' = PID
        BY DEF Access, accessOK, kernelVars, Exit
      <3>3. HandleFault \/ FaultServed => PID' = PID
        BY DEF HandleFault, pageFault, getFreeFrame, pageFaultRefused, CopyIn,
               CopyInCrash, FaultServed, Validate, Exit
      <3>4. Translate \/ Store \/ Fetch \/ CheckValue => PID' = PID
        BY DEF Translate, Store, Fetch, CheckValue, kernelVars, Exit
      <3> QED
        BY <1>3, <3>1, <3>2, <3>3, <3>4 DEF InstructionStep
    <2>3. PID < MaxProcesses => SerialInv'
      BY <1>3, <2>1, SerialInvStep DEF CopyInv, SerialNext
    <2> QED
      BY <1>1, <2>1, <2>2, <2>3 DEF CopyInv
  <1>4. CASE /\ Quiet /\ clone = Idle /\ PID < MaxProcesses
             /\ (GrowingCall \/ BeginAny) /\ UNCHANGED clone
    <2>1. SerialInv'
      BY <1>4, SerialInvStep DEF CopyInv, SerialNext
    <2> QED
      BY <1>1, <1>4, <2>1 DEF CopyInv
  <1>5. ASSUME Quiet, clone = Idle, PID < MaxProcesses,
               NEW p \in Processes, StartClone(p), LastCloneNext
        PROVE  CopyInv'
    <2>1. CopyingInv' /\ clone'.p # clone'.id /\ clone' # Idle
      BY <1>5, CopyStart DEF CopyInv
    <2>3. clone'.dir <= MAX_PMT_TABLES
      BY <1>5, SizeAssumption DEF StartClone
    <2>2. PID' = MaxProcesses
      BY <1>5, <2>1 DEF LastCloneNext
    <2> QED
      BY <1>1, <2>1, <2>2, <2>3 DEF CopyInv
  <1>6. CASE \/ SkipMissingTable \/ CopyTable \/ SkipEntry \/ LeaveDirectory
             \/ PassNothing \/ CopyEntry \/ ClaimFrame \/ CopyPage \/ CopyCluster
    <2>1. clone # Idle
      <3>1. clone.pc \in {"dir", "entry", "copy"}
        BY <1>6 DEF SkipMissingTable, CopyTable, SkipEntry, LeaveDirectory, PassEntry,
                    PassNothing, CopyEntry, ClaimFrame, CopyPage, CopyCluster
      <3> QED
        BY <3>1 DEF Idle
    <2> QED
      BY <1>1, <1>6, <2>1, CopyGoesOn DEF CopyInv
  <1>7. CASE FollowWildPointer \/ CloneDiskFull
    <2>1. clone # Idle
      <3>1. clone.pc \in {"dir", "entry"}
        BY <1>7 DEF FollowWildPointer, CloneDiskFull
      <3> QED
        BY <3>1 DEF Idle
    <2>2. UNCHANGED <<clone, PID>> /\ exited' # "no"
      BY <1>7 DEF FollowWildPointer, CloneDiskFull, Exit
    <2> QED
      BY <1>1, <2>1, <2>2 DEF CopyInv
  <1>8. CASE FinishClone
    <2>1. clone # Idle
      BY <1>8 DEF FinishClone, Idle
    <2>2. clone' = Idle /\ PID' = PID
      BY <1>8 DEF FinishClone
    <2>3. ~(PID' < MaxProcesses)
      BY <2>1, <2>2, SizeAssumption DEF CopyInv
    <2> QED
      BY <1>1, <2>2, <2>3 DEF CopyInv
  <1> QED
    BY <1>2, <1>3, <1>4, <1>5, <1>6, <1>7, <1>8
       DEF LastCloneNext, CloneNext, CloneStep, CloneOver

\* When the call returns all pages have been passed, and the clone is a copy.
LEMMA FinishCopies ==
  ASSUME CopyInv, FinishClone,
         NEW p \in Processes, NEW id \in Processes,
         clone.p = p, clone.id = id, TablesFull(p)
  PROVE  CopiedWhole(p, id)'
  <1>1. /\ clone # Idle /\ clone.pc = "dir" /\ clone.dir = MAX_PMT_TABLES
        /\ exited = "no"
        /\ UNCHANGED <<memory, partition, pageDirectory, pmt>>
        /\ lastWritten' = [pd \in PageDescr |->
                             IF pd[1] = id THEN lastWritten[<<p, pd[2]>>]
                             ELSE lastWritten[pd]]
    BY DEF FinishClone, Idle
  <1>2. CopyingInv /\ p # id
    BY <1>1 DEF CopyInv
  <1>3. \A q \in Pages : q < ClonePosition
    BY <1>1, SizeAssumption DEF ClonePosition, Pages, NumPages
  <1> SUFFICES ASSUME NEW q \in Pages, Mapped(<<p, q>>)'
               PROVE  /\ Mapped(<<id, q>>)'
                      /\ lastWritten'[<<p, q>>] \in Values =>
                           ContentsOf(<<id, q>>)' = ContentsOf(<<p, q>>)'
                      /\ ~SamePlace(<<id, q>>, <<p, q>>)'
    BY DEF CopiedWhole
  <1>4. Mapped(<<p, q>>)
    BY <1>1 DEF Mapped, HasTable
  <1>5. Passed(q)
    BY <1>3, <1>4 DEF Passed
  <1>6. <<p, q>> \in PageDescr /\ <<id, q>> \in PageDescr /\ <<p, q>> # <<id, q>>
    BY <1>2 DEF PageDescr
  <1>7. /\ Mapped(<<id, q>>)
        /\ lastWritten[<<p, q>>] \in Values =>
             ContentsOf(<<id, q>>) = lastWritten[<<p, q>>]
        /\ pmt[<<id, q>>].valid /\ pmt[<<p, q>>].valid =>
             pmt[<<id, q>>].block # pmt[<<p, q>>].block
    BY <1>2, <1>5 DEF CopyingInv, CopiesInv
  <1>8. Mapped(<<id, q>>)'
    BY <1>1, <1>7 DEF Mapped, HasTable
  <1>9. ASSUME lastWritten'[<<p, q>>] \in Values
        PROVE  ContentsOf(<<id, q>>)' = ContentsOf(<<p, q>>)'
    <2>1. lastWritten[<<p, q>>] \in Values
      BY <1>1, <1>2, <1>6, <1>9
    <2>2. ContentsOf(<<p, q>>) = lastWritten[<<p, q>>]
      BY <1>2, <1>6, <2>1 DEF CopyingInv, OthersContents
    <2>3. ContentsOf(<<id, q>>) = ContentsOf(<<p, q>>)
      BY <1>7, <2>1, <2>2
    <2> QED
      BY <1>1, <2>3 DEF ContentsOf
  <1>10. ~SamePlace(<<id, q>>, <<p, q>>)'
    <2>1. ~SamePlace(<<id, q>>, <<p, q>>)
      <3>1. pmt[<<id, q>>].disk # 0 =>
              pmt[<<id, q>>].disk # pmt[<<p, q>>].disk
        BY <1>2, <1>6 DEF CopyingInv, CloneDiskInv, DiskInv
      <3> QED
        BY <1>7, <3>1 DEF SamePlace
    <2> QED
      BY <1>1, <2>1 DEF SamePlace
  <1> QED
    BY <1>8, <1>9, <1>10

\* A clone call returns by FinishClone.
LEMMA ReturnCopies ==
  ASSUME CopyInv, [CloneNext]_cloneVars
  PROVE  [\A p, id \in Processes :
            Returns(p, id) /\ TablesFull(p) => CopiedWhole(p, id)']_cloneVars
  <1> SUFFICES ASSUME NEW p \in Processes, NEW id \in Processes,
                      Returns(p, id), TablesFull(p)
               PROVE  CopiedWhole(p, id)'
    OBVIOUS
  <1>1. clone # Idle /\ clone' = Idle /\ clone.p = p /\ clone.id = id
    BY DEF Returns
  <1>2. /\ clone' # clone
        /\ ~(\/ SkipMissingTable \/ CopyTable \/ SkipEntry \/ LeaveDirectory
             \/ PassNothing \/ CopyEntry \/ ClaimFrame \/ CopyPage \/ CopyCluster)
        /\ ~(FollowWildPointer \/ CloneDiskFull)
    BY <1>1, ParentKept DEF CopyInv, FollowWildPointer, CloneDiskFull
  <1>3. FinishClone
    BY <1>1, <1>2 DEF CloneNext, CloneStep, CloneOver, cloneVars
  <1> QED
    BY <1>1, <1>3, FinishCopies

\* The invariant holds at the start.
LEMMA CopyInitInv == CloneInit => CopyInv
  BY CloneInitInv, InitSerial DEF CloneInit, CopyInv, SerialInv

\* A clone is a copy, for any number of processes, frames, clusters and pages,
\* when it is the last process of a program: whatever is paged out or in while
\* it is made, its pages hold what was last written to its parent's, each in a
\* frame or cluster of its own.
THEOREM LastCloneIsCopy == LastCloneSpec => CloneIsCopy
  <1>1. [LastCloneNext]_cloneVars => [CloneNext]_cloneVars
    BY DEF LastCloneNext
  <1>2. CopyInv /\ [LastCloneNext]_cloneVars =>
          [\A p, id \in Processes :
             Returns(p, id) /\ TablesFull(p) => CopiedWhole(p, id)']_cloneVars
    BY <1>1, ReturnCopies
  <1> QED
    BY <1>2, CopyInitInv, CopyInvStep, PTL DEF LastCloneSpec, CloneIsCopy

-----------------------------------------------------------------------------
(* The index of clone()'s outer loop, whatever tables the parent has.  During *)
(* the call the parent's entries are not written, as the clone is another     *)
(* process, so the entries passed stay the ones that were found uninitialised.*)

\* What a process id is: below the next one, and the clone's not its parent's.
IdsInv ==
  /\ \A p \in listOfProcesses : p < PID
  /\ clone # Idle => clone.id < PID /\ clone.p # clone.id

CountInv ==
  /\ CloneInv
  /\ IdsInv
  /\ IndexCountsGaps
  /\ clone # Idle /\ clone.pc \in {"entry", "copy"} =>
       clone.table \in pageDirectory[clone.p]

\* What a program does between clone calls adds a process only as the next one.
LEMMA ProgramIds ==
  ASSUME CloneInv, IdsInv, clone = Idle, UNCHANGED clone,
         GrowingCall \/ BeginAny \/ SegmentStep \/ InstructionStep
  PROVE  IdsInv'
  <1>1. /\ PID \in 0 .. MaxProcesses /\ MaxProcesses \in Nat
        /\ listOfProcesses \subseteq Nat
    BY SizeAssumption
       DEF CloneInv, TypeInv, TypeOK, KernelTypeOK, Processes
  <1>2. CASE CreateProcess
    <2>1. listOfProcesses' = listOfProcesses \union {PID} /\ PID' = PID + 1
      BY <1>2 DEF CreateProcess, createProcess
    <2> QED
      BY <1>1, <2>1 DEF IdsInv
  <1>3. CASE ~CreateProcess
    <2>1. ASSUME GrowingCall
          PROVE  PID' = PID /\ listOfProcesses' \subseteq listOfProcesses
      BY <1>3, <2>1
         DEF GrowingCall, DestroyProcess, removeProcess, CreateSegment,
             createSegment, LoadSegment, loadSegment, StartSegment, RefuseSegment,
             Exit, kernelVars
    <2>2. ASSUME BeginAny
          PROVE  PID' = PID /\ listOfProcesses' \subseteq listOfProcesses
      BY <2>2 DEF BeginAny, Begin, kernelVars
    <2>3. ASSUME SegmentStep
          PROVE  PID' = PID /\ listOfProcesses' \subseteq listOfProcesses
      BY <2>3
         DEF SegmentStep, ClaimPage, AllocPage, getFreeFrame, AllocPageDiskFull,
             AddPage, FillCreatedPage, FillLoadedPage, RemovePages, FreePage, Exit
    <2>4. ASSUME Access \/ HandleFault \/ FaultServed
          PROVE  PID' = PID /\ listOfProcesses' \subseteq listOfProcesses
      BY <2>4
         DEF Access, accessOK, kernelVars, Exit, HandleFault, pageFault,
             getFreeFrame, pageFaultRefused, CopyIn, CopyInCrash, FaultServed,
             Validate
    <2>5. ASSUME Translate \/ Store \/ Fetch \/ CheckValue
          PROVE  PID' = PID /\ listOfProcesses' \subseteq listOfProcesses
      BY <2>5 DEF Translate, Store, Fetch, CheckValue, kernelVars, Exit
    <2> QED
      BY <2>1, <2>2, <2>3, <2>4, <2>5 DEF InstructionStep, IdsInv
  <1> QED
    BY <1>2, <1>3

\* A step of a clone call keeps parent and clone two processes.
LEMMA CloneIds ==
  ASSUME CloneInv, IdsInv,
         \/ clone = Idle /\ \E p \in Processes : StartClone(p)
         \/ CloneStep
  PROVE  IdsInv'
  <1>1. /\ PID \in 0 .. MaxProcesses /\ MaxProcesses \in Nat
        /\ listOfProcesses \subseteq Nat
    BY SizeAssumption DEF CloneInv, TypeInv, TypeOK, KernelTypeOK, Processes
  <1>2. ASSUME NEW p \in Processes, StartClone(p)
        PROVE  IdsInv'
    <2>1. /\ PID' = PID + 1 /\ listOfProcesses' = listOfProcesses
          /\ clone'.id = PID /\ clone'.p = p /\ p \in listOfProcesses
      BY <1>2 DEF StartClone
    <2> QED
      BY <1>1, <2>1 DEF IdsInv
  <1>3. CASE \/ SkipMissingTable \/ CopyTable \/ SkipEntry \/ LeaveDirectory
             \/ PassNothing \/ CopyEntry \/ ClaimFrame \/ CopyPage \/ CopyCluster
    <2>1. clone # Idle
      <3>1. clone.pc \in {"dir", "entry", "copy"}
        BY <1>3 DEF SkipMissingTable, CopyTable, SkipEntry, LeaveDirectory, PassEntry,
                    PassNothing, CopyEntry, ClaimFrame, CopyPage, CopyCluster
      <3> QED
        BY <3>1 DEF Idle
    <2>2. clone'.p = clone.p /\ clone'.id = clone.id /\ PID' = PID
      BY <1>3, <2>1, ParentKept DEF IdsInv
    <2>3. listOfProcesses' = listOfProcesses
      BY <1>3 DEF SkipMissingTable, CopyTable, SkipEntry, LeaveDirectory, PassEntry,
                  PassNothing, CopyEntry, ClaimFrame, CopyPage, CopyCluster, vars,
                  kernelVars, getFreeFrame
    <2> QED
      BY <2>1, <2>2, <2>3 DEF IdsInv
  <1>4. CASE FollowWildPointer \/ CloneDiskFull
    BY <1>4 DEF FollowWildPointer, CloneDiskFull, Exit, IdsInv
  <1>5. CASE FinishClone
    <2>1. /\ clone # Idle /\ clone' = Idle /\ PID' = PID
          /\ listOfProcesses' = listOfProcesses \union {clone.id}
      BY <1>5 DEF FinishClone, Idle
    <2> QED
      BY <1>1, <2>1 DEF IdsInv
  <1> QED
    BY <1>2, <1>3, <1>4, <1>5 DEF CloneStep

\* The next entry: the one that is passed counts when it is not initialised.
LEMMA GapsNext ==
  ASSUME CountInv, clone # Idle, clone.pc \in {"entry", "copy"},
         \A q \in Pages : pmt'[<<clone.p, q>>].init = pmt[<<clone.p, q>>].init,
         clone'.p = clone.p, clone'.table = clone.table,
         clone'.entry = clone.entry + 1
  PROVE  Cardinality(Gaps') =
           Cardinality(Gaps) + (IF pmt[Original].init THEN 0 ELSE 1)
  <1>1. PICK n \in Nat, t \in Dirs :
          /\ n = clone.entry /\ t = clone.table /\ n \in 0 .. MAX_PMT_ENTRIES - 1
    BY SizeAssumption DEF CountInv, CloneInv, CloneCall
  <1>2. \A e \in 0 .. n : t * MAX_PMT_ENTRIES + e \in Pages
    <2>1. \A e \in 0 .. n : e \in 0 .. MAX_PMT_ENTRIES - 1
      BY <1>1, SizeAssumption
    <2> QED
      BY <1>1, <2>1, PageOfEntry
  <1>3. Gaps = {e \in 0 .. n - 1 : ~pmt[<<clone.p, t * MAX_PMT_ENTRIES + e>>].init}
    BY <1>1 DEF Gaps
  <1>4. Gaps' = {e \in 0 .. n : ~pmt[<<clone.p, t * MAX_PMT_ENTRIES + e>>].init}
    <2>1. clone'.entry - 1 = n
      BY <1>1
    <2>2. Gaps' = {e \in 0 .. n :
                     ~pmt'[<<clone.p, t * MAX_PMT_ENTRIES + e>>].init}
      BY <1>1, <2>1 DEF Gaps
    <2> QED
      BY <1>2, <2>2
  <1>5. IsFiniteSet(Gaps) /\ n \notin Gaps /\ Cardinality(Gaps) \in Nat
    <2>1. IsFiniteSet(0 .. n - 1)
      BY <1>1, FS_Interval
    <2>2. Gaps \subseteq 0 .. n - 1
      BY <1>3
    <2>3. IsFiniteSet(Gaps)
      BY <2>1, <2>2, FS_Subset
    <2> QED
      BY <1>1, <2>2, <2>3, FS_CardinalityType
  <1>6. 0 .. n = (0 .. n - 1) \union {n}
    BY <1>1
  <1>7. Original = <<clone.p, t * MAX_PMT_ENTRIES + n>>
    BY <1>1 DEF Original
  <1>8. CASE pmt[Original].init
    <2>1. Gaps' = Gaps
      BY <1>3, <1>4, <1>6, <1>7, <1>8
    <2> QED
      BY <1>5, <1>8, <2>1
  <1>9. CASE ~pmt[Original].init
    <2>1. Gaps' = Gaps \union {n}
      BY <1>3, <1>4, <1>6, <1>7, <1>9
    <2> QED
      BY <1>5, <1>9, <2>1, FS_AddElement
  <1> QED
    BY <1>8, <1>9

\* An uninitialised entry is one of a table that is not full.
LEMMA GapFound ==
  ASSUME CountInv, clone # Idle, clone.pc \in {"entry", "copy"},
         ~pmt[Original].init
  PROVE  ~TablesFull(clone.p)
  <1>1. PICK e \in 0 .. MAX_PMT_ENTRIES - 1, t \in Dirs :
          e = clone.entry /\ t = clone.table
    BY DEF CountInv, CloneInv, CloneCall
  <1>2. PICK q : q = t * MAX_PMT_ENTRIES + e
    OBVIOUS
  <1>3. q \in Pages /\ DirOf(q) = t
    <2>1. t \in Nat
      BY SizeAssumption DEF Dirs
    <2> QED
      BY <1>2, <2>1, PageOfEntry, EntryIsOfTable
  <1>4. Original = <<clone.p, q>> /\ HasTable(<<clone.p, q>>)
    BY <1>1, <1>2, <1>3 DEF Original, HasTable, CountInv
  <1> QED
    BY <1>3, <1>4 DEF TablesFull

\* A step of the call that goes on keeps the count.
LEMMA CloneCounts ==
  ASSUME CountInv, clone # Idle,
         \/ SkipMissingTable \/ CopyTable \/ SkipEntry \/ LeaveDirectory
         \/ PassNothing \/ CopyEntry \/ ClaimFrame \/ CopyPage \/ CopyCluster
  PROVE  /\ clone'.pc \in {"entry", "copy"} =>
              /\ clone'.dir = clone'.table + Cardinality(Gaps')
              /\ clone'.table \in pageDirectory'[clone'.p]
         /\ clone'.dir > MAX_PMT_TABLES => ~TablesFull(clone.p)'
  <1>1. /\ clone'.p = clone.p
        /\ pageDirectory'[clone.p] = pageDirectory[clone.p]
        /\ \A q \in Pages : pmt'[<<clone.p, q>>].init = pmt[<<clone.p, q>>].init
        /\ TablesFull(clone.p)' => TablesFull(clone.p)
    BY ParentKept DEF CountInv, IdsInv
  <1>2. clone \in CloneCall
    BY DEF CountInv, CloneInv
  <1>3. PICK d \in Nat, t \in Nat, n \in Nat, k \in Nat :
          d = clone.dir /\ t = clone.table /\ n = clone.entry
          /\ k = MAX_PMT_TABLES
    BY <1>2, SizeAssumption, BehindAssumption DEF CloneCall, Dirs
  <1>4. ASSUME NEW dir \in Nat, NextEntry(dir), dir <= d + 1,
               clone.pc \in {"entry", "copy"},
               dir = d + (IF pmt[Original].init THEN 0 ELSE 1)
        PROVE  clone'.pc \in {"entry", "copy"} =>
                 /\ clone'.dir = clone'.table + Cardinality(Gaps')
                 /\ clone'.table \in pageDirectory'[clone'.p]
    <2>1. CASE clone.entry = MAX_PMT_ENTRIES - 1
      BY <1>2, <1>4, <2>1 DEF NextEntry, NextTable, CloneCall
    <2>2. CASE clone.entry # MAX_PMT_ENTRIES - 1
      <3>1. /\ clone'.entry = clone.entry + 1 /\ clone'.table = clone.table
            /\ clone'.dir = dir
        BY <1>2, <1>4, <2>2 DEF NextEntry, CloneCall
      <3>2. Cardinality(Gaps') =
              Cardinality(Gaps) + (IF pmt[Original].init THEN 0 ELSE 1)
        BY <1>1, <1>4, <3>1, GapsNext
      <3>3. d = t + Cardinality(Gaps)
        BY <1>3, <1>4 DEF CountInv, IndexCountsGaps
      <3>4. Cardinality(Gaps) \in Nat
        <4>1. IsFiniteSet(0 .. n - 1)
          BY <1>3, FS_Interval
        <4>2. Gaps \subseteq 0 .. n - 1
          BY <1>3 DEF Gaps
        <4> QED
          BY <4>1, <4>2, FS_Subset, FS_CardinalityType
      <3>5. dir = t + Cardinality(Gaps')
        BY <1>3, <1>4, <3>2, <3>3, <3>4
      <3> QED
        BY <1>1, <1>3, <1>4, <3>1, <3>5 DEF CountInv
    <2> QED
      BY <2>1, <2>2
  <1>5. ASSUME ~(LeaveDirectory \/ PassNothing)
        PROVE  ~(clone'.dir > MAX_PMT_TABLES)
    <2>1. clone'.dir <= MAX_PMT_TABLES
      BY <1>5, IndexStays DEF CountInv
    <2>2. clone' # Idle
      BY ParentKept DEF CountInv, IdsInv
    <2>3. CloneNext
      BY DEF CloneNext, CloneStep
    <2>4. clone' \in CloneCall
      BY <2>2, <2>3, CloneNextInv DEF CountInv, CloneInv
    <2> QED
      BY <1>3, <2>1, <2>4, SizeAssumption, BehindAssumption DEF CloneCall
  <1>6. CASE SkipMissingTable \/ PassNothing \/ LeaveDirectory
    <2>1. clone'.pc = "dir"
      BY <1>2, <1>6 DEF SkipMissingTable, PassNothing, LeaveDirectory, NextTable,
                        CloneCall
    <2>2. ASSUME PassNothing \/ LeaveDirectory
          PROVE  ~TablesFull(clone.p)
      <3>1. CASE PassNothing
        BY <3>1 DEF PassNothing, CountInv, IndexCountsGaps
      <3>2. CASE LeaveDirectory
        BY <3>2, GapFound DEF LeaveDirectory, PassEntry
      <3> QED
        BY <2>2, <3>1, <3>2
    <2> QED
      BY <1>1, <1>5, <1>6, <2>1, <2>2
  <1>7. CASE CopyTable
    <2>1. /\ clone'.entry = 0 /\ clone'.table = d /\ clone'.dir = d
          /\ d \in pageDirectory[clone.p]
      BY <1>2, <1>3, <1>7 DEF CopyTable, CloneCall
    <2>2. Gaps' = {}
      <3>1. clone'.entry - 1 = -1 /\ 0 .. -1 = {}
        BY <2>1
      <3> QED
        BY <3>1 DEF Gaps
    <2>3. Cardinality(Gaps') = 0
      BY <2>2, FS_EmptySet
    <2> QED
      BY <1>1, <1>3, <1>5, <1>7, <2>1, <2>3
         DEF CopyTable, LeaveDirectory, PassNothing, PassEntry
  <1>8. CASE SkipEntry
    BY <1>3, <1>4, <1>5, <1>8
       DEF SkipEntry, PassEntry, LeaveDirectory, PassNothing
  <1>9. CASE CopyEntry \/ CopyPage \/ CopyCluster
    <2>1. /\ clone.pc \in {"entry", "copy"} /\ NextEntry(clone.dir)
          /\ pmt[Original].init
      BY <1>9 DEF CopyEntry, CopyPage, CopyCluster, CountInv, CloneInv
    <2>2. ~(LeaveDirectory \/ PassNothing)
      BY <2>1, <1>9 DEF LeaveDirectory, PassNothing, PassEntry
    <2> QED
      BY <1>3, <1>4, <1>5, <2>1, <2>2
  <1>10. CASE ClaimFrame
    <2>1. /\ clone'.entry = clone.entry /\ clone'.table = clone.table
          /\ clone'.dir = clone.dir /\ clone.pc = "entry" /\ pmt[Original].init
      BY <1>2, <1>10 DEF ClaimFrame, CloneCall
    <2>2. Gaps' = Gaps
      <3>1. \A e \in 0 .. n - 1 : t * MAX_PMT_ENTRIES + e \in Pages
        <4>1. \A e \in 0 .. n - 1 : e \in 0 .. MAX_PMT_ENTRIES - 1
          BY <1>2, <1>3, SizeAssumption DEF CloneCall
        <4>2. t \in Dirs
          BY <1>2, <1>3 DEF CloneCall
        <4> QED
          BY <4>1, <4>2, PageOfEntry
      <3>2. Gaps' = {e \in 0 .. n - 1 :
                       ~pmt'[<<clone.p, t * MAX_PMT_ENTRIES + e>>].init}
        BY <1>1, <1>3, <2>1 DEF Gaps
      <3>3. Gaps = {e \in 0 .. n - 1 :
                      ~pmt[<<clone.p, t * MAX_PMT_ENTRIES + e>>].init}
        BY <1>3 DEF Gaps
      <3> QED
        BY <1>1, <3>1, <3>2, <3>3
    <2>3. ~(LeaveDirectory \/ PassNothing)
      BY <2>1 DEF LeaveDirectory, PassNothing, PassEntry
    <2> QED
      BY <1>1, <1>5, <2>1, <2>2, <2>3 DEF CountInv, IndexCountsGaps
  <1> QED
    BY <1>6, <1>7, <1>8, <1>9, <1>10

\* Every step keeps the invariant.
LEMMA CountInvStep == CountInv /\ [CloneNext]_cloneVars => CountInv'
  <1> SUFFICES ASSUME CountInv, [CloneNext]_cloneVars
               PROVE  CountInv'
    OBVIOUS
  <1>1. CloneInv'
    BY CloneNextInv DEF CountInv
  <1>2. CASE UNCHANGED cloneVars
    BY <1>1, <1>2
       DEF CountInv, IdsInv, IndexCountsGaps, Gaps, TablesFull, HasTable,
           cloneVars, vars, kernelVars
  <1>3. CASE /\ GrowingCall \/ BeginAny \/ SegmentStep \/ InstructionStep
             /\ UNCHANGED clone
             /\ (Quiet /\ clone = Idle) \/ SegmentStep \/ InstructionStep
    <2>1. clone = Idle /\ clone' = Idle
      BY <1>3, ProgramStepClone DEF CountInv
    <2> QED
      BY <1>1, <1>3, <2>1, ProgramIds DEF CountInv, IndexCountsGaps
  <1>4. CASE clone = Idle /\ \E p \in Processes : StartClone(p)
    <2>1. clone'.pc = "dir" /\ clone'.dir = 0
      BY <1>4 DEF StartClone
    <2>2. IdsInv'
      BY <1>4, CloneIds DEF CountInv
    <2> QED
      BY <1>1, <2>1, <2>2, SizeAssumption DEF CountInv, IndexCountsGaps
  <1>5. CASE \/ SkipMissingTable \/ CopyTable \/ SkipEntry \/ LeaveDirectory
             \/ PassNothing \/ CopyEntry \/ ClaimFrame \/ CopyPage \/ CopyCluster
    <2>1. clone # Idle
      <3>1. clone.pc \in {"dir", "entry", "copy"}
        BY <1>5 DEF SkipMissingTable, CopyTable, SkipEntry, LeaveDirectory, PassEntry,
                    PassNothing, CopyEntry, ClaimFrame, CopyPage, CopyCluster
      <3> QED
        BY <3>1 DEF Idle
    <2>2. IdsInv' /\ clone'.p = clone.p
      BY <1>5, <2>1, CloneIds, ParentKept DEF CountInv, IdsInv, CloneStep
    <2> QED
      BY <1>1, <1>5, <2>1, <2>2, CloneCounts DEF CountInv, IndexCountsGaps
  <1>6. CASE FollowWildPointer \/ CloneDiskFull
    <2>1. UNCHANGED <<clone, pmt, pageDirectory>>
      BY <1>6 DEF FollowWildPointer, CloneDiskFull, Exit
    <2>2. IdsInv'
      BY <1>6, CloneIds DEF CountInv, CloneStep
    <2> QED
      BY <1>1, <2>1, <2>2
         DEF CountInv, IndexCountsGaps, Gaps, TablesFull, HasTable
  <1>7. CASE FinishClone
    <2>1. clone' = Idle
      BY <1>7 DEF FinishClone
    <2>2. IdsInv'
      BY <1>7, CloneIds DEF CountInv, CloneStep
    <2> QED
      BY <1>1, <2>1, <2>2 DEF CountInv, IndexCountsGaps
  <1> QED
    BY <1>2, <1>3, <1>4, <1>5, <1>6, <1>7 DEF CloneNext, CloneStep, CloneOver

\* The index of clone()'s outer loop is ahead of the table being copied by the
\* uninitialised entries passed in it, and leaves the directory only when a
\* table of the parent is not full: for any number of processes, frames,
\* clusters and pages, and whatever has been cloned before.
THEOREM CloneIndex == CloneSpec => []IndexCountsGaps
  <1>1. CloneInit => CountInv
    BY CloneInitInv
       DEF CloneInit, CountInv, IdsInv, IndexCountsGaps, Init, KernelInit
  <1>2. CountInv => IndexCountsGaps
    BY DEF CountInv
  <1> QED
    BY <1>1, <1>2, CountInvStep, PTL DEF CloneSpec
=============================================================================
