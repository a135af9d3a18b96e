-------------------------- MODULE SystemTestProofs --------------------------
(***************************************************************************)
(* Proofs about the programs of SystemTest, for every value of the         *)
(* constants: first those about any program (Spec), then those about       *)
(* programs whose segments only grow.                                      *)
(***************************************************************************)
EXTENDS SystemTest, FiniteSetTheorems, SequenceTheorems, TLAPS

-----------------------------------------------------------------------------
(* Lemmas about the kernel's operators *)

\* Every page has a directory entry.
LEMMA DirOfPage == \A page \in Pages : DirOf(page) \in Dirs
  <1> SUFFICES ASSUME NEW page \in Pages PROVE DirOf(page) \in Dirs
    OBVIOUS
  <1> DEFINE q == page \div MAX_PMT_ENTRIES
  <1>1. /\ MAX_PMT_TABLES \in Nat /\ MAX_PMT_ENTRIES \in Nat \ {0}
        /\ page \in Nat /\ page < MAX_PMT_TABLES * MAX_PMT_ENTRIES
    BY SizeAssumption DEF Pages, NumPages
  <1>2. q \in Nat /\ q * MAX_PMT_ENTRIES <= page
    BY <1>1
  <1>3. q < MAX_PMT_TABLES
    BY <1>1, <1>2
  <1> QED
    BY <1>1, <1>2, <1>3 DEF DirOf, Dirs

\* Entry "entry" of table "dir" maps a page.
LEMMA PageOfEntry ==
  ASSUME NEW dir \in Dirs, NEW entry \in 0 .. MAX_PMT_ENTRIES - 1
  PROVE  dir * MAX_PMT_ENTRIES + entry \in Pages
  <1>1. PICK t, e, m, n \in Nat :
          t = dir /\ e = entry /\ m = MAX_PMT_TABLES /\ n = MAX_PMT_ENTRIES
    BY SizeAssumption DEF Dirs
  <1>2. t + 1 <= m /\ e < n
    BY <1>1 DEF Dirs
  <1>3. /\ (t + 1) * n <= m * n /\ (t + 1) * n = t * n + n
        /\ t * n \in Nat /\ m * n \in Nat
    BY <1>2
  <1>4. t * n + e \in Nat /\ t * n + e < m * n
    BY <1>2, <1>3
  <1> QED
    BY <1>1, <1>4 DEF Pages, NumPages

\* A page is where its directory entry and its table entry say.
LEMMA EntryOfPage ==
  ASSUME NEW page \in Nat
  PROVE  /\ DirOf(page) \in Nat /\ EntryOf(page) \in 0 .. MAX_PMT_ENTRIES - 1
         /\ page = DirOf(page) * MAX_PMT_ENTRIES + EntryOf(page)
  <1>1. PICK n \in Nat \ {0} : n = MAX_PMT_ENTRIES
    BY SizeAssumption
  <1>2. /\ page \div n \in Nat /\ page % n \in 0 .. n - 1
        /\ page = (page \div n) * n + (page % n)
    OBVIOUS
  <1> QED
    BY <1>1, <1>2 DEF DirOf, EntryOf

\* A directory entry that is met on the way from page start to page q is that
\* of a page between the two.
LEMMA DirReached ==
  ASSUME NEW start \in Nat, NEW q \in Nat, start <= q,
         NEW dir \in Nat, NEW entry \in Nat,
         DirOf(start) <= dir, dir * MAX_PMT_ENTRIES + entry <= q
  PROVE  \E page \in start .. q : DirOf(page) = dir
  <1>1. PICK n \in Nat \ {0} : n = MAX_PMT_ENTRIES
    BY SizeAssumption
  <1>2. PICK d, e \in Nat :
          d = DirOf(start) /\ e < n /\ start = d * n + e
    BY <1>1, EntryOfPage
  <1>3. CASE dir = d
    <2>1. start \in start .. q
      OBVIOUS
    <2> QED
      BY <1>2, <1>3, <2>1
  <1>4. CASE dir # d
    <2>1. d + 1 <= dir
      BY <1>2, <1>4
    <2>2. (d + 1) * n <= dir * n /\ (d + 1) * n = d * n + n /\ dir * n \in Nat
      BY <2>1
    <2>3. dir * n \in start .. q
      BY <1>1, <1>2, <2>2
    <2>4. (dir * n) \div n = dir
      <3>1. PICK x, r \in Nat : /\ x = (dir * n) \div n /\ r < n
                                /\ dir * n = x * n + r
        OBVIOUS
      <3>2. CASE x < dir
        <4>1. x + 1 <= dir
          BY <3>2
        <4>2. (x + 1) * n <= dir * n /\ (x + 1) * n = x * n + n
          BY <4>1
        <4> QED
          BY <3>1, <4>2
      <3>3. CASE x > dir
        <4>1. dir + 1 <= x
          BY <3>3
        <4>2. (dir + 1) * n <= x * n /\ (dir + 1) * n = dir * n + n
          BY <4>1
        <4> QED
          BY <3>1, <4>2
      <3> QED
        BY <3>1, <3>2, <3>3
    <2> QED
      BY <1>1, <2>3, <2>4 DEF DirOf
  <1> QED
    BY <1>3, <1>4

\* The part of KernelTypeOK getFreeFrame can disturb.
FrameTableTypeOK ==
  /\ pmtTable \in [Frames -> SysPageDescriptor]
  /\ fifoQueue \in Seq(Frames)
  /\ diskTable \in [Clusters -> BOOLEAN]
  /\ partition \in [Clusters -> Contents]
  /\ pmt \in [PageDescr -> PageDescriptor]

\* Putting a page out leaves descriptors well-formed.
LEMMA PutOutType ==
  ASSUME NEW descriptors \in [PageDescr -> PageDescriptor],
         NEW victim, NEW c \in Clusters
  PROVE  /\ PutOut(descriptors, victim, c) \in [PageDescr -> PageDescriptor]
         /\ \A x \in PageDescr :
              LET y == PutOut(descriptors, victim, c)[x]
              IN  /\ y.init = descriptors[x].init
                  /\ y.numOfPages = descriptors[x].numOfPages
                  /\ y.block = descriptors[x].block
                  /\ y.rwe = descriptors[x].rwe
  BY ZenonT(60) DEF PutOut, PageDescriptor

\* What getFreeFrame preserves, whichever way it finds the frame.
LEMMA GetFreeFrameType ==
  ASSUME KernelTypeOK, NEW pd \in PageDescr, NEW f \in Frames,
         NEW descriptors \in [PageDescr -> PageDescriptor],
         getFreeFrame(pd, descriptors, f)
  PROVE  /\ FrameTableTypeOK'
         /\ \A x \in PageDescr :
              /\ pmt'[x].init = descriptors[x].init
              /\ pmt'[x].numOfPages = descriptors[x].numOfPages
              /\ pmt'[x].block = descriptors[x].block
              /\ pmt'[x].rwe = descriptors[x].rwe
  <1>1. CASE takeFreeFrame(pd, descriptors, f)
    BY <1>1 DEF KernelTypeOK, FrameTableTypeOK, takeFreeFrame, enqueue,
                SysPageDescriptor
  <1>2. CASE replacePage(pd, descriptors, f)
    <2>1. fifoQueue' \in Seq(Frames) /\ pmtTable' \in [Frames -> SysPageDescriptor]
      BY <1>2 DEF KernelTypeOK, replacePage, requeue, SysPageDescriptor
    <2>2. 0 \in Clusters
      BY SizeAssumption DEF Clusters
    <2>3. \E c \in Clusters : pmt' = PutOut(descriptors, Victim, c)
      BY <1>2, <2>2 DEF replacePage, pageOut
    <2>4. /\ diskTable' \in [Clusters -> BOOLEAN]
          /\ partition' \in [Clusters -> Contents]
      BY <1>2 DEF replacePage, pageOut, getFreeCluster, KernelTypeOK
    <2> QED
      BY <2>1, <2>3, <2>4, PutOutType DEF FrameTableTypeOK
  <1> QED
    BY <1>1, <1>2 DEF getFreeFrame

-----------------------------------------------------------------------------
(* The invariant behind type correctness: deleteSegment and                  *)
(* getPhysicalAddress take the frame they hand on from "block", so an        *)
(* initialised entry, but for the one being filled, must have a frame there. *)

BlocksAssigned ==
  \A pd \in PageDescr :
    /\ pmt[pd].numOfPages # 0 => pmt[pd].init
    /\ pmt[pd].init /\ ~(segment.pc = "fill" /\ pd = Descr(segment)) =>
         pmt[pd].block \in Frames

TypeInv == TypeOK /\ BlocksAssigned

\* The invariant holds at the start.
LEMMA InitTypeInv == Init => TypeInv
  <1> SUFFICES ASSUME Init PROVE TypeInv
    OBVIOUS
  <1> USE DEF Init, KernelInit, ProcessInit
  <1>1. FreshEntry \in PageDescriptor
    BY SizeAssumption DEF FreshEntry, PageDescriptor, Clusters
  <1>2. KernelTypeOK
    BY <1>1, SizeAssumption
       DEF KernelTypeOK, SysPageDescriptor, Contents, ExitReasons
  <1>3. ProcessTypeOK
    BY DEF ProcessTypeOK, Idle
  <1>4. BlocksAssigned
    BY DEF BlocksAssigned, FreshEntry
  <1> QED
    BY <1>2, <1>3, <1>4 DEF TypeInv, TypeOK

\* Nothing the kernel or a call works with changes, but for the exit.
LEMMA ExitTypeInv ==
  ASSUME TypeInv, NEW reason \in ExitReasons, Exit(reason),
         UNCHANGED callVars, UNCHANGED testVars
  PROVE  TypeInv'
  BY DEF Exit, callVars, testVars, TypeInv, TypeOK, KernelTypeOK,
         ProcessTypeOK, BlocksAssigned, HasTable, Descr

\* What BlocksAssigned says of one entry, while no segment call runs.
EntryAssigned(entry) ==
  /\ entry.numOfPages # 0 => entry.init
  /\ entry.init => entry.block \in Frames

\* With no segment call in progress every entry is checked alike.
LEMMA QuietBlocks ==
  ASSUME segment = Idle
  PROVE  BlocksAssigned <=> \A pd \in PageDescr : EntryAssigned(pmt[pd])
  BY DEF BlocksAssigned, EntryAssigned, Idle

\* A step outside the programs' own that leaves the kernel well-formed.
LEMMA QuietTypeInv ==
  ASSUME TypeInv, segment = Idle, UNCHANGED <<segment, fault, instruction>>,
         KernelTypeOK', \A pd \in PageDescr : EntryAssigned(pmt'[pd]),
         lastWritten' \in [PageDescr -> Contents \union {nullptr}]
  PROVE  TypeInv'
  <1>1. ProcessTypeOK'
    BY DEF TypeInv, TypeOK, ProcessTypeOK
  <1>2. BlocksAssigned'
    BY DEF BlocksAssigned, EntryAssigned, Idle
  <1> QED
    BY <1>1, <1>2 DEF TypeInv, TypeOK

\* A segment call that begins is well-formed.
LEMMA StartedTypeInv ==
  ASSUME TypeInv, NEW p \in Processes, NEW page \in Pages, NEW size \in Nat,
         NEW flags \in AccessType, NEW op \in {"createSegment", "loadSegment"},
         StartSegment(op, p, page, size, flags), UNCHANGED testVars
  PROVE  TypeInv'
  <1> USE DEF TypeInv, TypeOK
  <1>1. /\ segment = Idle
        /\ segment' = [pc |-> "alloc", op |-> op, p |-> p, page |-> page,
               left |-> size, size |-> size, flags |-> flags,
               fresh |-> FALSE, frame |-> 0]
        /\ UNCHANGED <<kernelVars, fault, instruction, lastWritten>>
        /\ size > 0 /\ page + size - 1 < NumPages - 1
    BY DEF StartSegment, canAllocate, testVars
  <1>2. size \in Nat \ {0} /\ 0 \in Frames
    BY <1>1, SizeAssumption DEF Frames
  <1>3. segment' \in SegmentCall
    BY <1>1, <1>2 DEF SegmentCall
  <1>4. NumPages \in Nat /\ page \in Nat
    BY SizeAssumption DEF NumPages, Pages
  <1>5. ProcessTypeOK'
    BY <1>1, <1>2, <1>3, <1>4 DEF ProcessTypeOK
  <1>6. BlocksAssigned'
    BY <1>1 DEF BlocksAssigned, kernelVars, Idle
  <1> QED
    BY <1>1, <1>5, <1>6 DEF kernelVars, KernelTypeOK

\* The calls that begin.
LEMMA CallsTypeInv ==
  ASSUME TypeInv, AnyCall
  PROVE  TypeInv'
  <1> USE DEF TypeInv, TypeOK
  <1>1. CASE CreateProcess
    <2>1. PID \in Processes /\ PID + 1 \in 0 .. MaxProcesses
      BY <1>1, SizeAssumption
         DEF CreateProcess, createProcess, KernelTypeOK, Processes
    <2>2. KernelTypeOK'
      BY <1>1, <2>1 DEF CreateProcess, createProcess, KernelTypeOK
    <2>3. ProcessTypeOK' /\ BlocksAssigned'
      BY <1>1 DEF CreateProcess, createProcess, callVars, ProcessTypeOK,
                  BlocksAssigned, Descr
    <2> QED
      BY <1>1, <2>2, <2>3 DEF CreateProcess, testVars
  <1>2. ASSUME NEW p \in Processes, DestroyProcess(p)
        PROVE  TypeInv'
    BY <1>2 DEF DestroyProcess, removeProcess, callVars, testVars,
                KernelTypeOK, ProcessTypeOK, BlocksAssigned, Descr
  <1>3. ASSUME NEW p \in Processes, NEW page \in Pages, DeleteSegment(p, page)
        PROVE  TypeInv'
    <2>1. /\ segment = Idle
          /\ segment' = [pc |-> "free", op |-> "deleteSegment", p |-> p,
                 page |-> page, left |-> 1, size |-> pmt[<<p, page>>].numOfPages,
                 flags |-> "READ", fresh |-> FALSE,
                 frame |-> pmt[<<p, page>>].block]
          /\ UNCHANGED <<kernelVars, fault, instruction, lastWritten>>
          /\ pmt[<<p, page>>].numOfPages # 0
      BY <1>3 DEF DeleteSegment, deleteSegment, testVars
    <2>2. <<p, page>> \in PageDescr /\ pmt[<<p, page>>] \in PageDescriptor
      BY DEF PageDescr, KernelTypeOK
    <2>3. pmt[<<p, page>>].block \in Frames
      BY <2>1, <2>2 DEF BlocksAssigned, Idle
    <2>4. segment' \in SegmentCall
      BY <2>1, <2>2, <2>3 DEF SegmentCall, AccessType, PageDescriptor
    <2>5. page + 1 <= NumPages
      BY SizeAssumption DEF NumPages, Pages
    <2>6. ProcessTypeOK'
      BY <2>1, <2>4, <2>5 DEF ProcessTypeOK
    <2>7. BlocksAssigned'
      BY <2>1 DEF BlocksAssigned, kernelVars, Idle
    <2> QED
      BY <2>1, <2>6, <2>7 DEF kernelVars, KernelTypeOK
  <1>4. ASSUME NEW p \in Processes, NEW page \in Pages, RefusedDelete(p, page)
        PROVE  TypeInv'
    BY <1>4, ExitTypeInv DEF RefusedDelete, RefuseDelete, ExitReasons
  <1>5. ASSUME NEW p \in Processes, NEW page \in Pages, NEW size,
               RefusedSegment(p, page, size)
        PROVE  TypeInv'
    BY <1>5, ExitTypeInv DEF RefusedSegment, RefuseSegment, ExitReasons
  <1>6. ASSUME NEW p \in Processes, NEW page \in Pages,
               NEW size \in SegmentSizes, NEW flags \in {"EXECUTE", "READ_WRITE"},
               NEW op \in {"createSegment", "loadSegment"},
               StartSegment(op, p, page, size, flags), UNCHANGED testVars
        PROVE  TypeInv'
    BY <1>6, InputAssumption, StartedTypeInv DEF AccessType
  <1> QED
    BY <1>1, <1>2, <1>3, <1>4, <1>5, <1>6
       DEF AnyCall, CreateSegment, LoadSegment, createSegment, loadSegment

\* The rights an entry is found with.
LEMMA FoundRightsType ==
  ASSUME KernelTypeOK, segment \in SegmentCall
  PROVE  FoundRights \subseteq AccessType \union {wild}
  <1>1. Descr(segment) \in PageDescr
    BY DEF SegmentCall, Descr, PageDescr
  <1>2. pmt[Descr(segment)].rwe \in AccessType \union {wild}
    BY <1>1 DEF KernelTypeOK, PageDescriptor
  <1> QED
    BY <1>2 DEF FoundRights

\* The flags set before a frame is asked for leave descriptors well-formed.
LEMMA ClaimedType ==
  ASSUME KernelTypeOK, segment \in SegmentCall,
         NEW rights \in AccessType \union {wild}
  PROVE  /\ Claimed(rights) \in [PageDescr -> PageDescriptor]
         /\ \A x \in PageDescr :
              /\ Claimed(rights)[x].block = pmt[x].block
              /\ x = Descr(segment) => /\ Claimed(rights)[x].init
                                       /\ Claimed(rights)[x].valid
                                       /\ Claimed(rights)[x].disk = pmt[x].disk
              /\ x # Descr(segment) => Claimed(rights)[x] = pmt[x]
  <1> DEFINE pd == Descr(segment)
             size == IF segment.left = segment.size
                     THEN segment.size ELSE pmt[pd].numOfPages
             entry == [pmt[pd] EXCEPT !.init = TRUE, !.valid = TRUE,
                         !.dirty = FALSE, !.rwe = rights, !.numOfPages = size]
  <1>1. pd \in PageDescr
    BY DEF SegmentCall, Descr, PageDescr
  <1>2. pmt[pd] \in PageDescriptor /\ size \in Nat
    BY <1>1 DEF KernelTypeOK, SegmentCall, PageDescriptor
  <1>3. /\ entry \in PageDescriptor /\ entry.init /\ entry.valid
        /\ entry.block = pmt[pd].block /\ entry.disk = pmt[pd].disk
    <2> HIDE DEF size
    <2> QED
      BY <1>2 DEF PageDescriptor
  <1>4. Claimed(rights) = [pmt EXCEPT ![pd] = entry]
    BY DEF Claimed
  <1> HIDE DEF entry
  <1> QED
    BY <1>1, <1>3, <1>4 DEF KernelTypeOK

\* A page that is added gets the frame of the call; no entry but its own gets
\* another frame.
LEMMA AddedPage ==
  ASSUME KernelTypeOK, ProcessTypeOK, AddPage
  PROVE  /\ segment \in SegmentCall /\ Descr(segment) \in PageDescr
         /\ segment.pc = "fill" /\ Image[segment.page] \in Values
         /\ pmt' \in [PageDescr -> PageDescriptor]
         /\ \A x \in PageDescr :
              /\ pmt'[x].init = pmt[x].init
              /\ pmt'[x].valid = pmt[x].valid
              /\ pmt'[x].numOfPages = pmt[x].numOfPages
              /\ pmt'[x].block =
                   IF x = Descr(segment) THEN segment.frame ELSE pmt[x].block
  <1> DEFINE pd == Descr(segment)
             entry == [pmt[pd] EXCEPT !.block = segment.frame,
                                      !.rwe = segment.flags]
  <1>1. segment.pc = "fill"
    BY DEF AddPage, FillCreatedPage, FillLoadedPage
  <1>2. segment \in SegmentCall /\ pd \in PageDescr
    BY <1>1 DEF ProcessTypeOK, Idle, SegmentCall, Descr, PageDescr
  <1>3. Image[segment.page] \in Values
    BY <1>2, InputAssumption DEF SegmentCall
  <1>4. pmt[pd] \in PageDescriptor
    BY <1>2 DEF KernelTypeOK
  <1>5. /\ entry \in PageDescriptor /\ entry.block = segment.frame
        /\ entry.init = pmt[pd].init /\ entry.valid = pmt[pd].valid
        /\ entry.numOfPages = pmt[pd].numOfPages
    BY <1>2, <1>4 DEF PageDescriptor, SegmentCall
  <1>6. Filled = [pmt EXCEPT ![pd] = entry]
    BY DEF Filled
  <1>7. /\ Filled \in [PageDescr -> PageDescriptor]
        /\ \A x \in PageDescr :
             /\ Filled[x].init = pmt[x].init
             /\ Filled[x].valid = pmt[x].valid
             /\ Filled[x].numOfPages = pmt[x].numOfPages
             /\ Filled[x].block = IF x = pd THEN segment.frame ELSE pmt[x].block
    <2> HIDE DEF entry
    <2> QED
      BY <1>2, <1>5, <1>6 DEF KernelTypeOK
  <1>8. CASE FillCreatedPage
    <2>1. pmt' = [Filled EXCEPT ![pd].sourceAddress = nullptr]
      BY <1>8 DEF FillCreatedPage
    <2> QED
      BY <1>1, <1>2, <1>3, <1>7, <2>1 DEF PageDescriptor
  <1>9. CASE FillLoadedPage
    <2>1. PICK hit \in SourceTargets :
            pmt' = [x \in PageDescr |->
                 IF x \in hit
                 THEN [Filled[x] EXCEPT !.sourceAddress = Image[segment.page]]
                 ELSE Filled[x]]
      BY <1>9 DEF FillLoadedPage
    <2> QED
      BY <1>1, <1>2, <1>3, <1>7, <2>1 DEF PageDescriptor, Contents
  <1> QED
    BY <1>8, <1>9 DEF AddPage

\* A step of a segment call.
LEMMA SegmentStepTypeInv ==
  ASSUME TypeInv, SegmentStep
  PROVE  TypeInv'
  <1> USE DEF TypeInv, TypeOK
  <1> DEFINE pd == Descr(segment)
  <1>1. CASE AllocPage /\ UNCHANGED testVars
    <2>1. segment \in SegmentCall /\ pd \in PageDescr
      BY <1>1 DEF AllocPage, ProcessTypeOK, Idle, SegmentCall, Descr, PageDescr
    <2>2. PICK rights \in AccessType \union {wild}, f \in Frames :
            /\ getFreeFrame(pd, Claimed(rights), f)
            /\ segment' = [segment EXCEPT
                 !.pc = "fill",
                 !.frame = f,
                 !.fresh = \/ ~HasTable(Descr(segment))
                           \/ @ /\ EntryOf(segment.page) # 0]
      BY <1>1, <2>1, FoundRightsType DEF AllocPage
    <2>3. /\ Claimed(rights) \in [PageDescr -> PageDescriptor]
          /\ \A x \in PageDescr :
               /\ Claimed(rights)[x].block = pmt[x].block
               /\ x = pd => Claimed(rights)[x].init
               /\ x # pd => Claimed(rights)[x] = pmt[x]
      BY <2>1, <2>2, ClaimedType
    <2>4. /\ FrameTableTypeOK'
          /\ \A x \in PageDescr :
               /\ pmt'[x].init = Claimed(rights)[x].init
               /\ pmt'[x].numOfPages = Claimed(rights)[x].numOfPages
               /\ pmt'[x].block = Claimed(rights)[x].block
      BY <2>1, <2>2, <2>3, GetFreeFrameType
    <2>5. /\ UNCHANGED <<memory, listOfProcesses, PID, exited>>
          /\ UNCHANGED <<fault, instruction, lastWritten>>
          /\ OpenTable
      BY <1>1, <2>3 DEF getFreeFrame, AllocPage, testVars
    <2>6. pageDirectory' \in [Processes -> SUBSET Dirs]
      BY <2>1, <2>5, DirOfPage DEF OpenTable, KernelTypeOK, SegmentCall
    <2>7. KernelTypeOK'
      BY <2>4, <2>5, <2>6 DEF KernelTypeOK, FrameTableTypeOK
    <2>8. HasTable(Descr(segment)) \in BOOLEAN /\ segment.fresh \in BOOLEAN
      BY <2>1 DEF SegmentCall, HasTable
    <2>9. /\ segment' \in SegmentCall
          /\ segment'.page = segment.page /\ segment'.left = segment.left
          /\ segment'.p = segment.p /\ segment'.pc = "fill"
      BY <2>1, <2>2, <2>8 DEF SegmentCall
    <2>10. ProcessTypeOK'
      BY <2>1, <2>5, <2>9 DEF ProcessTypeOK, Idle, SegmentCall
    <2>11. BlocksAssigned'
      BY <1>1, <2>2, <2>3, <2>4, <2>9 DEF BlocksAssigned, Descr, AllocPage
    <2> QED
      BY <2>5, <2>7, <2>10, <2>11
  <1>2. CASE AllocPageDiskFull /\ UNCHANGED testVars
    BY <1>2, ExitTypeInv DEF AllocPageDiskFull, ExitReasons
  <1>3. CASE AddPage
    <2>0. /\ segment \in SegmentCall /\ segment.pc = "fill" /\ NextPage
          /\ UNCHANGED <<pmtTable, fifoQueue, diskTable, partition,
                         pageDirectory, listOfProcesses, PID, exited, fault,
                         instruction>>
          /\ \/ UNCHANGED memory
             \/ memory' = [memory EXCEPT ![segment.frame] = Image[segment.page]]
          /\ \E contents \in {Junk, Image[segment.page]} :
               lastWritten' = [lastWritten EXCEPT ![pd] = contents]
      BY <1>3, AddedPage DEF AddPage, FillCreatedPage, FillLoadedPage, Expect
    <2>1. KernelTypeOK'
      BY <1>3, <2>0, AddedPage DEF KernelTypeOK, Contents
    <2>2. NumPages \in Nat /\ segment # Idle
      BY <2>0, SizeAssumption DEF NumPages, Idle
    <2>3. ASSUME segment.left # 1
          PROVE  /\ segment' \in SegmentCall
                 /\ segment'.page + segment'.left <= NumPages
                 /\ segment'.pc = "alloc"
      <3>1. /\ segment.page \in Nat /\ segment.left \in Nat
            /\ segment.page + segment.left <= NumPages
            /\ segment.left > 1
        BY <2>0, <2>2, <2>3 DEF ProcessTypeOK, SegmentCall, Pages
      <3>2. segment.page + 1 \in Pages /\ segment.left - 1 \in Nat \ {0}
        BY <2>2, <3>1 DEF Pages
      <3>3. segment' = [segment EXCEPT !.pc = "alloc", !.page = @ + 1,
                                       !.left = @ - 1]
        BY <2>0, <2>3 DEF NextPage
      <3>4. segment' \in SegmentCall
        BY <2>0, <3>2, <3>3 DEF SegmentCall
      <3>5. /\ segment'.page = segment.page + 1
            /\ segment'.left = segment.left - 1
            /\ segment'.pc = "alloc"
        BY <2>0, <3>3 DEF SegmentCall
      <3> QED
        BY <2>2, <3>1, <3>4, <3>5
    <2>4. segment.left = 1 => segment' = Idle
      BY <2>0 DEF NextPage
    <2>5. ProcessTypeOK'
      BY <2>0, <2>3, <2>4 DEF ProcessTypeOK
    <2>6. segment'.pc # "fill" /\ segment.frame \in Frames
      BY <2>0, <2>3, <2>4 DEF Idle, SegmentCall
    <2>7. BlocksAssigned'
      BY <1>3, <2>0, <2>6, AddedPage DEF BlocksAssigned
    <2>8. lastWritten' \in [PageDescr -> Contents \union {nullptr}]
      BY <1>3, <2>0, AddedPage DEF Contents
    <2> QED
      BY <2>0, <2>1, <2>5, <2>7, <2>8
  <1>4. CASE RemovePages
    <2>1. segment \in SegmentCall /\ pd \in PageDescr /\ segment.frame \in Frames
      BY <1>4 DEF RemovePages, FreePage, ProcessTypeOK, Idle, SegmentCall,
                  Descr, PageDescr
    <2>2. pmt' \in [PageDescr -> PageDescriptor]
      <3> DEFINE entry == [pmt[pd] EXCEPT
               !.init = FALSE, !.valid = FALSE, !.dirty = FALSE,
               !.block = nullptr, !.disk = 0, !.numOfPages = 0,
               !.sourceAddress = nullptr]
      <3>1. pmt[pd] \in PageDescriptor /\ 0 \in Clusters
        BY <2>1, SizeAssumption DEF KernelTypeOK, Clusters
      <3>2. entry \in PageDescriptor
        BY <3>1 DEF PageDescriptor
      <3>3. pmt' = [pmt EXCEPT ![pd] = entry]
        BY <1>4 DEF RemovePages, FreePage
      <3> HIDE DEF entry
      <3> QED
        BY <3>2, <3>3 DEF KernelTypeOK
    <2>3. pmtTable' \in [Frames -> SysPageDescriptor]
      BY <1>4, <2>1 DEF RemovePages, FreePage, freePMTEntry, KernelTypeOK,
         SysPageDescriptor
    <2>4. KernelTypeOK'
      BY <1>4, <2>2, <2>3 DEF RemovePages, FreePage, KernelTypeOK
    <2>5. ProcessTypeOK'
      BY <1>4 DEF RemovePages, FreePage, ProcessTypeOK, Idle
    <2>6. lastWritten' \in [PageDescr -> Contents \union {nullptr}]
      BY <1>4 DEF RemovePages
    <2>7. BlocksAssigned'
      <3>1. \A x \in PageDescr :
              IF x = pd THEN ~pmt'[x].init /\ pmt'[x].numOfPages = 0
              ELSE pmt'[x] = pmt[x]
        BY <1>4, <2>1 DEF RemovePages, FreePage, KernelTypeOK, PageDescriptor
      <3> QED
        BY <1>4, <3>1 DEF BlocksAssigned, RemovePages, FreePage
    <2> QED
      BY <1>4, <2>4, <2>5, <2>6, <2>7 DEF RemovePages
  <1> QED
    BY <1>1, <1>2, <1>3, <1>4 DEF SegmentStep, ClaimPage

\* pageFault hands its frame on through "fault"; the entry of the page itself
\* is only written when it is validated.
LEMMA HandleFaultTypeInv ==
  ASSUME TypeInv, HandleFault
  PROVE  TypeInv'
  <1> USE DEF TypeInv, TypeOK
  <1> DEFINE p == instruction.p
             page == instruction.page
  <1>0. p \in Processes /\ page \in Pages /\ <<p, page>> \in PageDescr
    BY DEF HandleFault, At, Instruction, Idle, PageDescr
  <1>1. CASE pageFault(p, page) /\ UNCHANGED testVars
    <2>1. PICK f \in Frames :
            /\ getFreeFrame(<<p, page>>, pmt, f)
            /\ fault' = [pc |-> "copy", p |-> p, page |-> page, frame |-> f,
                         from |-> "empty"]
      BY <1>1 DEF pageFault
    <2>2. /\ FrameTableTypeOK'
          /\ \A x \in PageDescr :
              /\ pmt'[x].init = pmt[x].init
              /\ pmt'[x].numOfPages = pmt[x].numOfPages
              /\ pmt'[x].block = pmt[x].block
      BY <1>0, <2>1, GetFreeFrameType DEF KernelTypeOK
    <2>3. /\ UNCHANGED <<memory, listOfProcesses, PID, exited>>
          /\ UNCHANGED <<pageDirectory, segment, instruction, lastWritten>>
      BY <1>1, <2>1 DEF getFreeFrame, pageFault, testVars
    <2>4. KernelTypeOK'
      BY <2>2, <2>3 DEF KernelTypeOK, FrameTableTypeOK
    <2>5. fault' \in FaultCall
      BY <1>0, <2>1 DEF FaultCall
    <2>6. ProcessTypeOK' /\ BlocksAssigned'
      BY <2>2, <2>3, <2>5 DEF ProcessTypeOK, BlocksAssigned, Descr
    <2> QED
      BY <2>3, <2>4, <2>6
  <1>2. CASE pageFaultRefused(p, page) /\ UNCHANGED testVars
    BY <1>2, ExitTypeInv DEF pageFaultRefused, ExitReasons
  <1>3. CASE CopyIn /\ UNCHANGED testVars
    <2>1. fault \in FaultCall /\ Descr(fault) \in PageDescr
      BY <1>3 DEF CopyIn, ProcessTypeOK, FaultCall, Idle, Descr, PageDescr
    <2>2. ASSUME NEW origin \in Origins(Descr(fault))
          PROVE  /\ origin[1] \in {"disk", "source", "empty"}
                 /\ origin[2] \in Contents
      <3>1. /\ pmt[Descr(fault)] \in PageDescriptor
            /\ pmt[Descr(fault)].disk \in Clusters
        BY <2>1 DEF KernelTypeOK, PageDescriptor
      <3>2. /\ partition[pmt[Descr(fault)].disk] \in Contents
            /\ memory[fault.frame] \in Contents
        BY <2>1, <3>1 DEF KernelTypeOK, FaultCall
      <3> QED
        BY <2>2, <3>2 DEF Origins
    <2>3. PICK origin \in Origins(Descr(fault)) :
            /\ memory' = [memory EXCEPT ![fault.frame] = origin[2]]
            /\ fault' = [fault EXCEPT !.pc = "validate", !.from = origin[1]]
      BY <1>3 DEF CopyIn
    <2>4. memory' \in [Frames -> Contents] /\ fault' \in FaultCall
      BY <2>1, <2>2, <2>3 DEF KernelTypeOK, FaultCall
    <2> QED
      BY <1>3, <2>4 DEF CopyIn, testVars, KernelTypeOK, ProcessTypeOK,
                        BlocksAssigned, Descr
  <1>4. CASE CopyInCrash /\ UNCHANGED testVars
    BY <1>4, ExitTypeInv DEF CopyInCrash, ExitReasons
  <1> QED
    BY <1>1, <1>2, <1>3, <1>4 DEF HandleFault

\* The last phase of pageFault.
LEMMA FaultServedTypeInv ==
  ASSUME TypeInv, FaultServed
  PROVE  TypeInv'
  <1> USE DEF TypeInv, TypeOK
  <1> DEFINE pd == Descr(fault)
  <1>1. fault \in FaultCall /\ pd \in PageDescr
    BY DEF FaultServed, Validate, ProcessTypeOK, FaultCall, Idle, Descr,
           PageDescr
  <1>2. pmt[pd] \in PageDescriptor /\ 0 \in Clusters /\ fault.frame \in Frames
    BY <1>1, SizeAssumption DEF KernelTypeOK, Clusters, FaultCall
  <1>3. /\ Validated(pmt[pd]) \in PageDescriptor
        /\ Validated(pmt[pd]).init = pmt[pd].init
        /\ Validated(pmt[pd]).numOfPages = pmt[pd].numOfPages
        /\ Validated(pmt[pd]).block = fault.frame
    BY <1>2 DEF Validated, PageDescriptor
  <1>4. pmt' = [pmt EXCEPT ![pd] = Validated(pmt[pd])]
    BY DEF FaultServed, Validate
  <1>5. diskTable' \in [Clusters -> BOOLEAN]
    BY DEF FaultServed, Validate, GiveClusterBack, setFreeCluster,
           KernelTypeOK
  <1>6. pmt' \in [PageDescr -> PageDescriptor]
    BY <1>1, <1>3, <1>4 DEF KernelTypeOK
  <1>7. KernelTypeOK'
    BY <1>5, <1>6 DEF FaultServed, Validate, KernelTypeOK
  <1>8. ProcessTypeOK'
    BY DEF FaultServed, Validate, ProcessTypeOK
  <1>9. BlocksAssigned'
    BY <1>1, <1>2, <1>3, <1>4
       DEF FaultServed, Validate, BlocksAssigned, KernelTypeOK, Descr
  <1>10. instruction' \in Instruction \union {Idle}
    BY DEF FaultServed, Goto, At, Instruction, Idle
  <1> QED
    BY <1>7, <1>8, <1>9, <1>10 DEF FaultServed

\* A step of an instruction.
LEMMA InstructionStepTypeInv ==
  ASSUME TypeInv, InstructionStep
  PROVE  TypeInv'
  <1> USE DEF TypeInv, TypeOK
  <1>0. ASSUME instruction # Idle
        PROVE  /\ instruction \in Instruction
               /\ Descr(instruction) \in PageDescr
    BY <1>0 DEF Instruction, Descr, PageDescr
  <1>1. CASE Access
    <2>0. At("access") \/ At("retry")
      BY <1>1 DEF Access
    <2>1. instruction # Idle
      BY <2>0 DEF At, Idle
    <2>2. CASE accessOK(Descr(instruction), instruction.type) /\ Goto("translate")
      <3>1. instruction' \in Instruction
        BY <1>0, <2>1, <2>2 DEF Goto, Instruction
      <3>2. /\ pmt' \in [PageDescr -> PageDescriptor]
            /\ \A x \in PageDescr :
                 /\ pmt'[x].init = pmt[x].init
                 /\ pmt'[x].numOfPages = pmt[x].numOfPages
                 /\ pmt'[x].block = pmt[x].block
        <4> DEFINE pd == Descr(instruction)
                   entry == [pmt[pd] EXCEPT !.dirty = TRUE]
        <4>1. pd \in PageDescr /\ pmt[pd] \in PageDescriptor
          BY <1>0, <2>1 DEF KernelTypeOK
        <4>2. /\ entry \in PageDescriptor /\ entry.init = pmt[pd].init
              /\ entry.numOfPages = pmt[pd].numOfPages
              /\ entry.block = pmt[pd].block
          BY <4>1 DEF PageDescriptor
        <4>3. pmt' = [pmt EXCEPT ![pd] = entry] \/ pmt' = pmt
          BY <2>2 DEF accessOK
        <4> HIDE DEF pd, entry
        <4> QED
          BY <4>1, <4>2, <4>3 DEF KernelTypeOK
      <3> QED
        BY <1>1, <2>2, <3>1, <3>2
           DEF Access, accessOK, callVars, KernelTypeOK, ProcessTypeOK,
               BlocksAssigned, Descr
    <2>3. CASE Goto("fault") /\ UNCHANGED kernelVars
      BY <1>0, <1>1, <2>1, <2>3
         DEF Access, Goto, kernelVars, callVars, KernelTypeOK, ProcessTypeOK,
             BlocksAssigned, Instruction, Descr
    <2>4. CASE \E reason \in ExitReasons : Exit(reason) /\ UNCHANGED instruction
      BY <1>1, <2>4, ExitTypeInv DEF Access, testVars
    <2> QED
      BY <1>1, <2>2, <2>3, <2>4 DEF Access, ExitReasons
  <1>2. CASE Translate
    <2>0. At("translate")
      BY <1>2 DEF Translate
    <2>1. instruction # Idle
      BY <2>0 DEF At, Idle
    <2>2. ASSUME Translatable(Descr(instruction)),
                 instruction' = [instruction EXCEPT
                   !.pc = "touch",
                   !.frame = getPhysicalAddress(Descr(instruction))],
                 UNCHANGED kernelVars
          PROVE  TypeInv'
      <3>1. ~(segment.pc = "fill" /\ Descr(instruction) = Descr(segment))
        <4>1. ~SegmentHolds(instruction.p)
          BY <1>2 DEF Translate
        <4>2. segment.pc = "fill" => segment # Idle
          BY DEF Idle
        <4> QED
          BY <4>1, <4>2 DEF SegmentHolds, Descr
      <3>2. pmt[Descr(instruction)].block \in Frames
        BY <1>0, <2>1, <2>2, <3>1 DEF Translatable, Mapped, BlocksAssigned
      <3>3. instruction' \in Instruction
        BY <1>0, <2>1, <2>2, <3>2 DEF Instruction, getPhysicalAddress
      <3> QED
        BY <1>2, <2>2, <3>3
           DEF Translate, kernelVars, callVars, KernelTypeOK, ProcessTypeOK,
               BlocksAssigned, Descr
    <2>3. CASE Exit("access violation") /\ UNCHANGED instruction
      BY <1>2, <2>3, ExitTypeInv DEF Translate, testVars, ExitReasons
    <2> QED
      BY <1>2, <2>2, <2>3 DEF Translate
  <1>3. CASE Store
    <2>1. instruction \in Instruction /\ Descr(instruction) \in PageDescr
      BY <1>0, <1>3 DEF Store, At, Idle
    <2>2. memory' \in [Frames -> Contents]
      BY <1>3, <2>1 DEF Store, KernelTypeOK, Instruction
    <2>3. lastWritten' \in [PageDescr -> Contents \union {nullptr}]
      BY <1>3, <2>1 DEF Store, Instruction
    <2> QED
      BY <1>3, <2>2, <2>3
         DEF Store, callVars, KernelTypeOK, ProcessTypeOK, BlocksAssigned, Descr
  <1>4. CASE Fetch
    <2>1. instruction \in Instruction
      BY <1>0, <1>4 DEF Fetch, At, Idle
    <2>2. instruction' \in Instruction
      BY <1>4, <2>1 DEF Fetch, KernelTypeOK, Instruction
    <2> QED
      BY <1>4, <2>2
         DEF Fetch, kernelVars, callVars, KernelTypeOK, ProcessTypeOK,
             BlocksAssigned, Descr
  <1>5. CASE CheckValue
    BY <1>5 DEF CheckValue, kernelVars, callVars, KernelTypeOK, ProcessTypeOK,
                BlocksAssigned, Descr
  <1> QED
    BY <1>1, <1>2, <1>3, <1>4, <1>5, HandleFaultTypeInv, FaultServedTypeInv
       DEF InstructionStep

\* Every step keeps the invariant.
LEMMA NextTypeInv == TypeInv /\ [Next]_vars => TypeInv'
  <1> SUFFICES ASSUME TypeInv, [Next]_vars PROVE TypeInv'
    OBVIOUS
  <1>1. CASE BeginAny
    <2>1. instruction' \in Instruction
      BY <1>1, SizeAssumption
         DEF BeginAny, Begin, Instruction, Contents, Frames
    <2> QED
      BY <1>1, <2>1
         DEF BeginAny, Begin, TypeInv, TypeOK, kernelVars, callVars,
             KernelTypeOK, ProcessTypeOK, BlocksAssigned, Descr
  <1>2. CASE UNCHANGED vars
    BY <1>2 DEF vars, kernelVars, callVars, TypeInv, TypeOK, KernelTypeOK,
                ProcessTypeOK, BlocksAssigned, Descr
  <1> QED
    BY <1>1, <1>2, CallsTypeInv, SegmentStepTypeInv, InstructionStepTypeInv
       DEF Next, Over

\* Type correctness, for any number of processes, frames, clusters and pages,
\* and whoever interleaves with whom.
THEOREM TypeCorrect == Spec => []TypeOK
  <1>1. TypeInv => TypeOK
    BY DEF TypeInv
  <1> QED
    BY <1>1, InitTypeInv, NextTypeInv, PTL DEF Spec

-----------------------------------------------------------------------------
(* The replacement queue.  VictimIsReal is inductive once types are known:   *)
(* only getFreeFrame and freePMTEntry touch the frame table or the queue.    *)

\* A frame that is handed out has a descriptor and is queued.
LEMMA GetFreeFrameVictim ==
  ASSUME KernelTypeOK, VictimIsReal, NEW pd \in PageDescr, NEW f \in Frames,
         NEW descriptors, getFreeFrame(pd, descriptors, f)
  PROVE  VictimIsReal'
  <1>1. pd # nullptr
    BY SentinelAssumption
  <1>2. fifoQueue \in Seq(Frames) /\ pmtTable \in [Frames -> SysPageDescriptor]
    BY DEF KernelTypeOK
  <1>3. CASE takeFreeFrame(pd, descriptors, f)
    <2>1. /\ pmtTable' = [pmtTable EXCEPT ![f] = [free |-> FALSE, pageDescr |-> pd]]
          /\ fifoQueue' = Append(fifoQueue, f)
      BY <1>3 DEF takeFreeFrame, enqueue
    <2>2. Queued' = Queued \union {f}
      BY <1>2, <2>1 DEF Queued
    <2> QED
      BY <1>1, <1>2, <2>1, <2>2 DEF VictimIsReal
  <1>4. CASE FreeFrames = {} /\ replacePage(pd, descriptors, f)
    <2>1. /\ pmtTable' = [pmtTable EXCEPT ![f].pageDescr = pd]
          /\ fifoQueue # <<>>
          /\ fifoQueue' = Append(Tail(fifoQueue), Head(fifoQueue))
      BY <1>4 DEF replacePage, requeue
    <2>2. ASSUME NEW x \in Queued PROVE x \in Queued'
      <3>1. PICK j \in DOMAIN fifoQueue : x = fifoQueue[j]
        BY <2>2 DEF Queued
      <3>2. /\ Len(fifoQueue) \in Nat \ {0} /\ j \in 1 .. Len(fifoQueue)
            /\ DOMAIN fifoQueue' = 1 .. Len(fifoQueue)
            /\ fifoQueue'[Len(fifoQueue)] = fifoQueue[1]
            /\ \A i \in 1 .. Len(fifoQueue) - 1 :
                 fifoQueue'[i] = fifoQueue[i + 1]
        BY <1>2, <2>1
      <3>3. \E i \in DOMAIN fifoQueue' : fifoQueue'[i] = x
        <4>1. CASE j = 1
          BY <3>1, <3>2, <4>1
        <4>2. CASE j # 1
          <5>1. /\ j - 1 \in 1 .. Len(fifoQueue) - 1
                /\ j - 1 \in DOMAIN fifoQueue' /\ (j - 1) + 1 = j
            BY <3>2, <4>2
          <5> QED
            BY <3>1, <3>2, <5>1
        <4> QED
          BY <4>1, <4>2
      <3> QED
        BY <3>3 DEF Queued
    <2>3. ~pmtTable[f].free /\ pmtTable[f] \in SysPageDescriptor
      BY <1>2, <1>4 DEF FreeFrames
    <2>4. \A x \in Frames : /\ pmtTable'[x].free = pmtTable[x].free
                            /\ x # f => pmtTable'[x] = pmtTable[x]
                            /\ x = f => pmtTable'[x].pageDescr = pd
      BY <1>2, <2>1 DEF SysPageDescriptor
    <2> QED
      BY <1>1, <2>2, <2>3, <2>4 DEF VictimIsReal
  <1> QED
    BY <1>3, <1>4 DEF getFreeFrame

\* A frame that is freed has neither to have.
LEMMA FreePMTEntryVictim ==
  ASSUME KernelTypeOK, VictimIsReal, NEW f \in Frames, freePMTEntry(f),
         UNCHANGED fifoQueue
  PROVE  VictimIsReal'
  BY DEF freePMTEntry, VictimIsReal, Queued, KernelTypeOK

\* Every step keeps VictimIsReal.
LEMMA NextVictim == TypeInv /\ VictimIsReal /\ [Next]_vars => VictimIsReal'
  <1> SUFFICES ASSUME TypeInv, VictimIsReal, [Next]_vars PROVE VictimIsReal'
    OBVIOUS
  <1> USE DEF TypeInv, TypeOK
  <1>1. ASSUME UNCHANGED <<pmtTable, fifoQueue>> PROVE VictimIsReal'
    BY <1>1 DEF VictimIsReal, Queued
  <1>2. CASE AllocPage
    <2>1. Descr(segment) \in PageDescr
      BY <1>2 DEF AllocPage, ProcessTypeOK, SegmentCall, Idle, Descr, PageDescr
    <2> QED
      BY <1>2, <2>1, GetFreeFrameVictim DEF AllocPage
  <1>3. CASE HandleFault /\ pageFault(instruction.p, instruction.page)
    <2>1. <<instruction.p, instruction.page>> \in PageDescr
      BY <1>3 DEF HandleFault, At, Instruction, Idle, PageDescr
    <2> QED
      BY <1>3, <2>1, GetFreeFrameVictim DEF pageFault
  <1>4. CASE FreePage
    <2>1. segment.frame \in Frames
      BY <1>4 DEF FreePage, ProcessTypeOK, SegmentCall, Idle
    <2> QED
      BY <1>4, <2>1, FreePMTEntryVictim DEF FreePage
  <1>5. CASE AnyCall
    <2>1. CreateProcess => UNCHANGED <<pmtTable, fifoQueue>>
      BY DEF CreateProcess, createProcess
    <2>4. ASSUME NEW p \in Processes, DestroyProcess(p)
          PROVE  UNCHANGED <<pmtTable, fifoQueue>>
      BY <2>4 DEF DestroyProcess, removeProcess
    <2>2. ASSUME NEW p \in Processes, NEW page \in Pages
          PROVE  /\ DeleteSegment(p, page) => UNCHANGED <<pmtTable, fifoQueue>>
                 /\ RefusedDelete(p, page) => UNCHANGED <<pmtTable, fifoQueue>>
      BY DEF DeleteSegment, deleteSegment, RefusedDelete, RefuseDelete, Exit,
             kernelVars
    <2>3. ASSUME NEW p \in Processes, NEW page \in Pages, NEW size, NEW flags
          PROVE  /\ RefusedSegment(p, page, size) =>
                      UNCHANGED <<pmtTable, fifoQueue>>
                 /\ CreateSegment(p, page, size, flags) =>
                      UNCHANGED <<pmtTable, fifoQueue>>
                 /\ LoadSegment(p, page, size, flags) =>
                      UNCHANGED <<pmtTable, fifoQueue>>
      BY DEF RefusedSegment, RefuseSegment, CreateSegment, createSegment,
             LoadSegment, loadSegment, StartSegment, Exit, kernelVars
    <2> QED
      BY <1>1, <1>5, <2>1, <2>2, <2>3, <2>4 DEF AnyCall
  <1>6. CASE SegmentStep /\ ~AllocPage /\ ~FreePage
    BY <1>1, <1>6
       DEF SegmentStep, ClaimPage, AllocPageDiskFull, AddPage, FillCreatedPage,
           FillLoadedPage, RemovePages, Exit
  <1>7. CASE HandleFault /\ ~pageFault(instruction.p, instruction.page)
    BY <1>1, <1>7
       DEF HandleFault, pageFaultRefused, CopyIn, CopyInCrash, Exit
  <1>8. CASE InstructionStep /\ ~HandleFault
    BY <1>1, <1>8
       DEF InstructionStep, Access, accessOK, FaultServed, Validate, Translate,
           Store, Fetch, CheckValue, Exit, kernelVars
  <1>9. CASE BeginAny \/ Over \/ UNCHANGED vars
    BY <1>1, <1>9 DEF BeginAny, Begin, Over, vars, kernelVars
  <1>10. SegmentStep => AllocPage \/ FreePage \/ (SegmentStep /\ ~AllocPage /\ ~FreePage)
    OBVIOUS
  <1> QED
    BY <1>2, <1>3, <1>4, <1>5, <1>6, <1>7, <1>8, <1>9, <1>10
       DEF Next, InstructionStep

\* The queue always holds every frame in use and every frame in use has a
\* descriptor, for any number of processes and frames and whatever is deleted.
THEOREM VictimAlwaysReal == Spec => []VictimIsReal
  <1>1. Init => VictimIsReal
    BY DEF Init, KernelInit, VictimIsReal, Queued
  <1> QED
    BY <1>1, InitTypeInv, NextTypeInv, NextVictim, PTL DEF Spec

-----------------------------------------------------------------------------
(* Programs whose segments only grow: nothing is deleted, but segment calls   *)
(* and instructions interleave freely.  The serial program of SystemTest and  *)
(* the test program of Main are both of this kind.  The frames in use are     *)
(* queued once each, a page is out of memory only when every frame is taken,  *)
(* and the pages in memory change the way first-in first-out replacement says.*)

StartAny ==
  \E p \in Processes, page \in Pages, size \in Nat, flags \in AccessType :
    CreateSegment(p, page, size, flags) \/ LoadSegment(p, page, size, flags)

GrowingNext ==
  \/ CreateProcess
  \/ \E p \in Processes : DestroyProcess(p)
  \/ StartAny
  \/ BeginAny
  \/ SegmentStep
  \/ InstructionStep
  \/ Over

-----------------------------------------------------------------------------
(* The inductive invariant *)

QueueInjective ==
  \A i, j \in DOMAIN fifoQueue : fifoQueue[i] = fifoQueue[j] => i = j

\* A process that is gone does not come back: identifiers are not reused, so
\* createProcess never drops the tables of pages that are in use.
TablesOpen ==
  /\ \A p \in listOfProcesses : p < PID
  /\ segment # Idle => segment.p < PID
  /\ \A pd \in PageDescr : pmt[pd].init => pd[1] < PID /\ HasTable(pd)

\* The pages a segment call has yet to add.
PagesAhead ==
  (IF segment.pc = "fill" THEN segment.page + 1 ELSE segment.page)
    .. segment.page + segment.left - 1

CallInv ==
  /\ segment.pc # "free"
  /\ segment # Idle =>
       \A page \in PagesAhead \cap Pages : ~pmt[<<segment.p, page>>].init
  /\ segment.pc = "fill" => pmt[Descr(segment)].init

FaultInv ==
  /\ fault # Idle => /\ instruction.pc = "fault"
                     /\ Descr(fault) = Descr(instruction)
  /\ instruction.pc = "fault" => /\ pmt[Descr(instruction)].init
                                 /\ ~pmt[Descr(instruction)].valid

\* A page that has a frame is valid, or is being faulted in, and has no other.
HoldersInv ==
  /\ \A f \in Frames, pd \in PageDescr : HeldBy(f, pd) =>
       /\ pmt[pd].init
       /\ pmt[pd].valid \/ (fault # Idle /\ pd = Descr(fault))
  /\ \A f, g \in Frames, pd \in PageDescr :
       HeldBy(f, pd) /\ HeldBy(g, pd) => f = g

OutOnlyWhenFull ==
  (\E pd \in PageDescr : pmt[pd].init /\ ~pmt[pd].valid) => FreeFrames = {}

GrowingInv ==
  /\ QueuedOnce
  /\ QueueInjective
  /\ TablesOpen
  /\ CallInv
  /\ FaultInv
  /\ HoldersInv
  /\ OutOnlyWhenFull

\* At the start nothing is in use.
LEMMA InitGrowing == Init => GrowingInv
  <1> SUFFICES ASSUME Init PROVE GrowingInv
    OBVIOUS
  <1>1. /\ fifoQueue = <<>> /\ segment = Idle /\ fault = Idle
        /\ instruction = Idle /\ listOfProcesses = {}
        /\ \A f \in Frames : pmtTable[f].free
        /\ \A pd \in PageDescr : ~pmt[pd].init
    BY DEF Init, KernelInit, ProcessInit, FreshEntry
  <1>2. Queued = {} /\ Frames \ FreeFrames = {} /\ Len(fifoQueue) = 0
    BY <1>1 DEF Queued, FreeFrames
  <1>3. QueuedOnce
    BY <1>2, FS_EmptySet DEF QueuedOnce
  <1>4. QueueInjective /\ TablesOpen
    BY <1>1 DEF QueueInjective, TablesOpen
  <1>5. CallInv /\ FaultInv
    BY <1>1 DEF CallInv, FaultInv, Idle
  <1>6. HoldersInv /\ OutOnlyWhenFull
    BY <1>1 DEF HoldersInv, OutOnlyWhenFull, HeldBy
  <1> QED
    BY <1>3, <1>4, <1>5, <1>6 DEF GrowingInv

-----------------------------------------------------------------------------
(* What getFreeFrame does to the frame table and the queue *)

\* getFreeFrame hands f to pd: whoever held f is out of memory, nobody else
\* is concerned.
LEMMA FrameHandedOut ==
  ASSUME KernelTypeOK, NEW pd \in PageDescr, NEW f \in Frames,
         NEW descriptors \in [PageDescr -> PageDescriptor],
         getFreeFrame(pd, descriptors, f)
  PROVE  /\ \A g \in Frames, x \in PageDescr :
              HeldBy(g, x)' <=> IF g = f THEN x = pd ELSE HeldBy(g, x)
         /\ \A x \in PageDescr :
              /\ pmt'[x].init = descriptors[x].init
              /\ pmt'[x].valid <=> descriptors[x].valid /\ ~HeldBy(f, x)
         /\ FreeFrames' = FreeFrames \ {f}
         /\ f \in FreeFrames \/ FreeFrames = {}
  <1>0. pmtTable \in [Frames -> SysPageDescriptor]
    BY DEF KernelTypeOK
  <1>1. CASE takeFreeFrame(pd, descriptors, f)
    <2>1. pmtTable[f].free /\ pmt' = descriptors
      BY <1>1 DEF takeFreeFrame, FreeFrames
    <2>2. pmtTable' = [pmtTable EXCEPT ![f] = [free |-> FALSE, pageDescr |-> pd]]
      BY <1>1 DEF takeFreeFrame
    <2>3. FreeFrames' = FreeFrames \ {f} /\ f \in FreeFrames
      BY <1>0, <2>1, <2>2 DEF FreeFrames
    <2> QED
      BY <1>0, <2>1, <2>2, <2>3 DEF HeldBy
  <1>2. CASE FreeFrames = {} /\ replacePage(pd, descriptors, f)
    <2>1. Victim = pmtTable[f].pageDescr
      BY <1>2 DEF replacePage, Victim
    <2>2. /\ pmtTable' = [pmtTable EXCEPT ![f].pageDescr = pd]
          /\ \E c : pmt' = PutOut(descriptors, Victim, c)
      BY <1>2 DEF replacePage, pageOut
    <2>3. ~pmtTable[f].free /\ pmtTable[f] \in SysPageDescriptor
      BY <1>0, <1>2 DEF FreeFrames
    <2>4. \A g \in Frames : /\ pmtTable'[g].free = pmtTable[g].free
                            /\ g # f => pmtTable'[g] = pmtTable[g]
                            /\ g = f => pmtTable'[g].pageDescr = pd
      BY <1>0, <2>2 DEF SysPageDescriptor
    <2>5. FreeFrames' = FreeFrames \ {f}
      BY <1>2, <2>4 DEF FreeFrames
    <2>6. \A x \in PageDescr :
            /\ pmt'[x].init = descriptors[x].init
            /\ pmt'[x].valid <=> descriptors[x].valid /\ x # pmtTable[f].pageDescr
      BY <2>1, <2>2 DEF PutOut, PageDescriptor
    <2> QED
      BY <1>2, <2>3, <2>4, <2>5, <2>6 DEF HeldBy
  <1> QED
    BY <1>1, <1>2 DEF getFreeFrame

\* There are finitely many frames.
LEMMA FramesFinite ==
  /\ IsFiniteSet(Frames) /\ Cardinality(Frames) = processVMSpaceSize
  /\ \A S \in SUBSET Frames : IsFiniteSet(S) /\ Cardinality(S) \in Nat
  <1>1. IsFiniteSet(Frames) /\ Cardinality(Frames) = processVMSpaceSize
    BY SizeAssumption, FS_Interval DEF Frames
  <1> QED
    BY <1>1, FS_Subset, FS_CardinalityType

\* The queue grows by the frame that was free, or takes a turn.
LEMMA QueueKept ==
  ASSUME KernelTypeOK, QueuedOnce, QueueInjective, NEW pd \in PageDescr,
         NEW f \in Frames, NEW descriptors \in [PageDescr -> PageDescriptor],
         getFreeFrame(pd, descriptors, f)
  PROVE  QueuedOnce' /\ QueueInjective'
  <1>0. fifoQueue \in Seq(Frames) /\ FreeFrames' = FreeFrames \ {f}
    BY FrameHandedOut DEF KernelTypeOK
  <1>1. CASE takeFreeFrame(pd, descriptors, f)
    <2>1. f \in FreeFrames /\ fifoQueue' = Append(fifoQueue, f)
      BY <1>1 DEF takeFreeFrame, enqueue
    <2>2. f \notin Queued
      BY <2>1 DEF QueuedOnce
    <2>3. Queued' = Queued \union {f}
      BY <1>0, <2>1 DEF Queued
    <2>4. QueueInjective'
      <3>1. /\ Len(fifoQueue) \in Nat /\ DOMAIN fifoQueue = 1 .. Len(fifoQueue)
            /\ DOMAIN fifoQueue' = 1 .. Len(fifoQueue) + 1
            /\ fifoQueue'[Len(fifoQueue) + 1] = f
            /\ \A i \in 1 .. Len(fifoQueue) : fifoQueue'[i] = fifoQueue[i]
        BY <1>0, <2>1
      <3>2. \A i \in 1 .. Len(fifoQueue) : fifoQueue[i] # f
        BY <2>2, <3>1 DEF Queued
      <3>3. \A i \in 1 .. Len(fifoQueue) + 1 :
              i \in 1 .. Len(fifoQueue) \/ i = Len(fifoQueue) + 1
        BY <3>1
      <3> QED
        BY <3>1, <3>2, <3>3 DEF QueueInjective
    <2>5. Frames \ FreeFrames' = (Frames \ FreeFrames) \union {f}
      BY <1>0
    <2>6. IsFiniteSet(Frames \ FreeFrames) /\ f \notin Frames \ FreeFrames
      BY <2>1, FramesFinite
    <2>7. Cardinality(Frames \ FreeFrames') = Cardinality(Frames \ FreeFrames) + 1
      BY <2>5, <2>6, FS_AddElement
    <2>8. Len(fifoQueue') = Len(fifoQueue) + 1
      BY <1>0, <2>1
    <2> QED
      BY <2>3, <2>4, <2>5, <2>7, <2>8 DEF QueuedOnce
  <1>2. CASE FreeFrames = {} /\ replacePage(pd, descriptors, f)
    <2>1. /\ fifoQueue # <<>>
          /\ fifoQueue' = Append(Tail(fifoQueue), Head(fifoQueue))
          /\ FreeFrames' = FreeFrames
      BY <1>0, <1>2 DEF replacePage, requeue
    <2>2. PICK n \in Nat \ {0} :
            /\ Len(fifoQueue) = n /\ Len(fifoQueue') = n
            /\ DOMAIN fifoQueue = 1 .. n /\ DOMAIN fifoQueue' = 1 .. n
            /\ fifoQueue'[n] = fifoQueue[1]
            /\ \A i \in 1 .. n - 1 : fifoQueue'[i] = fifoQueue[i + 1]
      BY <1>0, <2>1
    <2> DEFINE turn(i) == IF i = n THEN 1 ELSE i + 1
    <2>3. \A i \in 1 .. n : turn(i) \in 1 .. n /\ fifoQueue'[i] = fifoQueue[turn(i)]
      BY <2>2
    <2>4. \A i, j \in 1 .. n : turn(i) = turn(j) => i = j
      BY <2>2
    <2>5. \A i \in 1 .. n : \E j \in 1 .. n : turn(j) = i
      <3> SUFFICES ASSUME NEW i \in 1 .. n PROVE \E j \in 1 .. n : turn(j) = i
        OBVIOUS
      <3>1. CASE i = 1
        <4> n \in 1 .. n /\ turn(n) = i
          BY <2>2, <3>1
        <4> QED
          OBVIOUS
      <3>2. CASE i # 1
        <4> i - 1 \in 1 .. n /\ turn(i - 1) = i
          BY <2>2, <3>2
        <4> QED
          OBVIOUS
      <3> QED
        BY <3>1, <3>2
    <2> HIDE DEF turn
    <2>6. QueueInjective'
      BY <2>2, <2>3, <2>4 DEF QueueInjective
    <2>7. Queued' = Queued
      <3>1. \A x \in Queued' : x \in Queued
        BY <2>2, <2>3 DEF Queued
      <3>2. \A x \in Queued : x \in Queued'
        <4> SUFFICES ASSUME NEW i \in 1 .. n PROVE fifoQueue[i] \in Queued'
          BY <2>2 DEF Queued
        <4>1. PICK k \in 1 .. n : turn(k) = i
          BY <2>5
        <4>2. k \in DOMAIN fifoQueue' /\ fifoQueue'[k] = fifoQueue[i]
          BY <2>2, <2>3, <4>1
        <4> QED
          BY <4>2 DEF Queued
      <3> QED
        BY <3>1, <3>2
    <2> QED
      BY <2>1, <2>2, <2>6, <2>7 DEF QueuedOnce
  <1> QED
    BY <1>1, <1>2 DEF getFreeFrame

\* The pages in memory change the way FifoReplacement says.
LEMMA ReplacementStep ==
  ASSUME KernelTypeOK, QueuedOnce, QueueInjective, NEW pd \in PageDescr,
         NEW f \in Frames, NEW descriptors \in [PageDescr -> PageDescriptor],
         getFreeFrame(pd, descriptors, f),
         \A g \in Frames : ~HeldBy(g, pd)
  PROVE  Replacement!Next
  <1>0. PICK n \in Nat :
          /\ Len(fifoQueue) = n /\ DOMAIN fifoQueue = 1 .. n
          /\ fifoQueue \in Seq(Frames)
          /\ pmtTable \in [Frames -> SysPageDescriptor]
          /\ FreeFrames \subseteq Frames
    BY DEF KernelTypeOK, FreeFrames
  <1>1. \A i \in 1 .. n : fifoQueue[i] \in Frames \ FreeFrames
    <2>1. \A i \in 1 .. n : fifoQueue[i] \in Queued
      BY <1>0 DEF Queued
    <2> QED
      BY <2>1 DEF QueuedOnce
  <1>2. PICK r \in Seq(PageDescr \union {nullptr}) :
          /\ r = Resident /\ Len(r) = n /\ DOMAIN r = 1 .. n
          /\ \A i \in 1 .. n : r[i] = pmtTable[fifoQueue[i]].pageDescr
    <2>1. Resident = [i \in 1 .. n |-> pmtTable[fifoQueue[i]].pageDescr]
      BY <1>0 DEF Resident
    <2>2. \A i \in 1 .. n :
            pmtTable[fifoQueue[i]].pageDescr \in PageDescr \union {nullptr}
      BY <1>0, <1>1 DEF SysPageDescriptor
    <2> QED
      BY <1>0, <2>1, <2>2
  <1>3. Replacement!Absent(pd)
    <2>1. \A i \in 1 .. n : r[i] # pd
      BY <1>0, <1>1, <1>2 DEF HeldBy, FreeFrames
    <2> QED
      BY <1>2, <2>1 DEF Replacement!Absent
  <1>4. n = Cardinality(Frames \ FreeFrames)
    BY <1>0 DEF QueuedOnce
  <1>5. CASE takeFreeFrame(pd, descriptors, f)
    <2>1. /\ f \in FreeFrames /\ fifoQueue' = Append(fifoQueue, f)
          /\ pmtTable' = [pmtTable EXCEPT ![f] = [free |-> FALSE, pageDescr |-> pd]]
      BY <1>5 DEF takeFreeFrame, enqueue
    <2>2. n < processVMSpaceSize
      <3>1. Frames \ FreeFrames \in SUBSET Frames /\ f \in FreeFrames
        BY <2>1
      <3>2. Frames \ FreeFrames # Frames
        BY <3>1
      <3>3. /\ Cardinality(Frames \ FreeFrames) <= Cardinality(Frames)
            /\ Cardinality(Frames \ FreeFrames) # Cardinality(Frames)
        BY <3>1, <3>2, FramesFinite, FS_Subset
      <3> QED
        BY <1>4, <3>1, <3>3, FramesFinite, SizeAssumption
    <2>3. PICK queue, table :
            /\ queue = fifoQueue' /\ table = pmtTable'
            /\ DOMAIN queue = 1 .. n + 1 /\ queue[n + 1] = f
            /\ \A i \in 1 .. n : queue[i] = fifoQueue[i] /\ queue[i] # f
            /\ \A i \in 1 .. n : table[queue[i]] = pmtTable[fifoQueue[i]]
            /\ table[f].pageDescr = pd
      <3>1. /\ DOMAIN fifoQueue' = 1 .. n + 1 /\ fifoQueue'[n + 1] = f
            /\ \A i \in 1 .. n : fifoQueue'[i] = fifoQueue[i]
        BY <1>0, <2>1
      <3>2. \A i \in 1 .. n : fifoQueue[i] # f
        BY <1>1, <2>1
      <3>3. /\ \A g \in Frames \ {f} : pmtTable'[g] = pmtTable[g]
            /\ pmtTable'[f].pageDescr = pd
        BY <1>0, <2>1
      <3> QED
        BY <1>1, <3>1, <3>2, <3>3
    <2>4. Resident' = [i \in 1 .. n + 1 |-> table[queue[i]].pageDescr]
      BY <2>3 DEF Resident
    <2>5. [i \in 1 .. n + 1 |-> table[queue[i]].pageDescr] = Append(r, pd)
      <3>1. \A i \in 1 .. n + 1 :
              table[queue[i]].pageDescr = IF i = n + 1 THEN pd ELSE r[i]
        BY <1>0, <1>2, <2>3
      <3> DEFINE s == [i \in 1 .. n + 1 |-> table[queue[i]].pageDescr]
                 t == Append(r, pd)
      <3>2. /\ s \in Seq(PageDescr \union {nullptr}) /\ Len(s) = n + 1
            /\ \A i \in 1 .. n + 1 : s[i] = IF i = n + 1 THEN pd ELSE r[i]
        BY <1>2, <3>1, SMTT(60)
      <3>3. /\ t \in Seq(PageDescr \union {nullptr}) /\ Len(t) = n + 1
            /\ \A i \in 1 .. n + 1 : t[i] = IF i = n + 1 THEN pd ELSE r[i]
        BY <1>2
      <3> HIDE DEF s, t
      <3>4. s = t
        BY <3>2, <3>3, SeqEqual
      <3> QED
        BY <3>4 DEF s, t
    <2> QED
      BY <1>2, <1>3, <2>2, <2>4, <2>5 DEF Replacement!Next, Replacement!Load
  <1>6. CASE FreeFrames = {} /\ replacePage(pd, descriptors, f)
    <2>1. /\ fifoQueue # <<>> /\ f = Head(fifoQueue)
          /\ fifoQueue' = Append(Tail(fifoQueue), Head(fifoQueue))
          /\ pmtTable' = [pmtTable EXCEPT ![f].pageDescr = pd]
      BY <1>6 DEF replacePage, requeue
    <2>2. n = processVMSpaceSize
      <3>1. Frames \ FreeFrames = Frames
        BY <1>6
      <3> QED
        BY <1>4, <3>1, FramesFinite
    <2>3. PICK queue, table :
            /\ queue = fifoQueue' /\ table = pmtTable'
            /\ DOMAIN queue = 1 .. n /\ queue[n] = f
            /\ \A i \in 1 .. n - 1 : table[queue[i]] = pmtTable[fifoQueue[i + 1]]
            /\ table[f].pageDescr = pd
      <3>1. /\ n # 0 /\ fifoQueue[1] = f
            /\ DOMAIN fifoQueue' = 1 .. n /\ fifoQueue'[n] = f
            /\ \A i \in 1 .. n - 1 :
                 /\ fifoQueue'[i] = fifoQueue[i + 1]
                 /\ i + 1 \in 1 .. n /\ i + 1 # 1 /\ 1 \in 1 .. n
        BY <1>0, <2>1
      <3>2. \A i \in 1 .. n - 1 : fifoQueue[i + 1] \in Frames \ {f}
        BY <1>0, <1>1, <3>1 DEF QueueInjective
      <3>3. /\ \A g \in Frames \ {f} : pmtTable'[g] = pmtTable[g]
            /\ pmtTable'[f].pageDescr = pd
        BY <1>0, <2>1 DEF SysPageDescriptor
      <3> QED
        BY <3>1, <3>2, <3>3
    <2>4. Resident' = [i \in 1 .. n |-> table[queue[i]].pageDescr]
      BY <2>3 DEF Resident
    <2>5. [i \in 1 .. n |-> table[queue[i]].pageDescr] = Append(Tail(r), pd)
      <3>0. n # 0
        BY <1>0, <2>1
      <3>1. \A i \in 1 .. n :
              table[queue[i]].pageDescr = IF i = n THEN pd ELSE r[i + 1]
        BY <1>0, <1>2, <2>3
      <3> DEFINE s == [i \in 1 .. n |-> table[queue[i]].pageDescr]
                 t == Append(Tail(r), pd)
      <3>2. /\ s \in Seq(PageDescr \union {nullptr}) /\ Len(s) = n
            /\ \A i \in 1 .. n : s[i] = IF i = n THEN pd ELSE r[i + 1]
        BY <1>2, <3>1
      <3>3. /\ t \in Seq(PageDescr \union {nullptr}) /\ Len(t) = n
            /\ \A i \in 1 .. n : t[i] = IF i = n THEN pd ELSE r[i + 1]
        BY <1>2, <3>0
      <3> HIDE DEF s, t
      <3>4. s = t
        BY <3>2, <3>3, SeqEqual
      <3> QED
        BY <3>4 DEF s, t
    <2> QED
      BY <1>2, <1>3, <2>2, <2>4, <2>5 DEF Replacement!Next, Replacement!Replace
  <1> QED
    BY <1>5, <1>6 DEF getFreeFrame

-----------------------------------------------------------------------------
(* GrowingInv is inductive: one lemma per kind of step *)

\* A step that leaves queue and frame table alone leaves what is said of them.
LEMMA FramesKept ==
  ASSUME QueuedOnce, QueueInjective, UNCHANGED <<pmtTable, fifoQueue>>
  PROVE  /\ QueuedOnce' /\ QueueInjective'
         /\ FreeFrames' = FreeFrames
         /\ \A f \in Frames, pd \in PageDescr : HeldBy(f, pd)' <=> HeldBy(f, pd)
  BY DEF QueuedOnce, QueueInjective, Queued, FreeFrames, HeldBy

\* A step that neither hands out a frame nor moves a segment call on.
LEMMA GrowingKept ==
  ASSUME GrowingInv, UNCHANGED <<pmtTable, fifoQueue, segment, pageDirectory, PID>>,
         listOfProcesses' \subseteq listOfProcesses,
         \A x \in PageDescr : /\ pmt'[x].init = pmt[x].init
                              /\ pmt'[x].valid = pmt[x].valid,
         fault # Idle => fault' # Idle /\ Descr(fault') = Descr(fault),
         segment \in SegmentCall \union {Idle}, FaultInv'
  PROVE  GrowingInv'
  <1>1. /\ QueuedOnce' /\ QueueInjective' /\ FreeFrames' = FreeFrames
        /\ \A f \in Frames, pd \in PageDescr : HeldBy(f, pd)' <=> HeldBy(f, pd)
    BY FramesKept DEF GrowingInv
  <1>2. TablesOpen'
    BY DEF GrowingInv, TablesOpen, HasTable
  <1>3. CallInv'
    <2>1. /\ segment.pc # "free"
          /\ segment # Idle =>
               \A page \in PagesAhead \cap Pages : ~pmt[<<segment.p, page>>].init
          /\ segment.pc = "fill" => pmt[Descr(segment)].init
      BY DEF GrowingInv, CallInv
    <2>2. /\ segment # Idle => segment.p \in Processes
          /\ segment.pc = "fill" => Descr(segment) \in PageDescr
          /\ \A p \in Processes, page \in Pages : <<p, page>> \in PageDescr
      BY DEF SegmentCall, Idle, Descr, PageDescr
    <2> QED
      BY <2>1, <2>2 DEF CallInv, PagesAhead, Descr
  <1>4. HoldersInv'
    BY <1>1 DEF GrowingInv, HoldersInv
  <1>5. OutOnlyWhenFull'
    BY <1>1 DEF GrowingInv, OutOnlyWhenFull
  <1> QED
    BY <1>1, <1>2, <1>3, <1>4, <1>5 DEF GrowingInv

\* The end of the program changes no table.
LEMMA ExitGrowing ==
  ASSUME TypeInv, GrowingInv, NEW reason, Exit(reason), UNCHANGED callVars,
         UNCHANGED instruction
  PROVE  GrowingInv'
  <1>1. FaultInv'
    BY DEF Exit, callVars, GrowingInv, FaultInv, Descr
  <1> QED
    BY <1>1, GrowingKept DEF Exit, callVars, TypeInv, TypeOK, ProcessTypeOK

\* A frame is handed out for a page that has none: to a segment call, which has
\* made it valid, or to a fault.
LEMMA FrameTakenGrowing ==
  ASSUME TypeInv, GrowingInv, NEW pd \in PageDescr, NEW f \in Frames,
         NEW descriptors \in [PageDescr -> PageDescriptor],
         getFreeFrame(pd, descriptors, f),
         \A x \in PageDescr \ {pd} : descriptors[x] = pmt[x],
         descriptors[pd].init,
         \A g \in Frames : ~HeldBy(g, pd),
         fault # Idle => fault' = fault,
         \/ descriptors[pd].valid
         \/ descriptors[pd] = pmt[pd] /\ fault' # Idle /\ Descr(fault') = pd
  PROVE  QueuedOnce' /\ QueueInjective' /\ HoldersInv' /\ OutOnlyWhenFull'
  <1>1. /\ \A g \in Frames, x \in PageDescr :
              HeldBy(g, x)' <=> IF g = f THEN x = pd ELSE HeldBy(g, x)
        /\ \A x \in PageDescr :
              /\ pmt'[x].init = descriptors[x].init
              /\ pmt'[x].valid <=> descriptors[x].valid /\ ~HeldBy(f, x)
        /\ FreeFrames' = FreeFrames \ {f}
        /\ f \in FreeFrames \/ FreeFrames = {}
    BY FrameHandedOut DEF TypeInv, TypeOK
  <1>2. QueuedOnce' /\ QueueInjective'
    BY QueueKept DEF TypeInv, TypeOK, GrowingInv
  <1>3. HoldersInv /\ OutOnlyWhenFull
    BY DEF GrowingInv
  <1>4. ASSUME NEW g \in Frames, NEW x \in PageDescr, HeldBy(g, x)'
        PROVE  /\ pmt'[x].init
               /\ pmt'[x].valid \/ (fault' # Idle /\ x = Descr(fault'))
    <2>1. CASE g = f
      BY <1>1, <1>4, <2>1
    <2>2. CASE g # f
      <3>1. HeldBy(g, x) /\ x # pd /\ ~HeldBy(f, x)
        BY <1>1, <1>3, <1>4, <2>2 DEF HoldersInv
      <3>2. /\ pmt[x].init
            /\ pmt[x].valid \/ (fault # Idle /\ x = Descr(fault))
        BY <1>3, <3>1 DEF HoldersInv
      <3> QED
        BY <1>1, <3>1, <3>2
    <2> QED
      BY <2>1, <2>2
  <1>5. ASSUME NEW g \in Frames, NEW h \in Frames, NEW x \in PageDescr,
               HeldBy(g, x)', HeldBy(h, x)'
        PROVE  g = h
    BY <1>1, <1>3, <1>5 DEF HoldersInv
  <1>6. HoldersInv'
    BY <1>4, <1>5 DEF HoldersInv
  <1>7. ASSUME NEW x \in PageDescr, pmt'[x].init, ~pmt'[x].valid
        PROVE  FreeFrames' = {}
    <2>1. CASE HeldBy(f, x)
      BY <1>1, <2>1 DEF HeldBy, FreeFrames
    <2>2. CASE ~HeldBy(f, x)
      <3>1. pmt[x].init /\ ~pmt[x].valid
        BY <1>1, <1>7, <2>2
      <3>2. FreeFrames = {}
        BY <1>3, <3>1 DEF OutOnlyWhenFull
      <3> QED
        BY <1>1, <3>2
    <2> QED
      BY <2>1, <2>2
  <1>8. OutOnlyWhenFull'
    BY <1>7 DEF OutOnlyWhenFull
  <1> QED
    BY <1>2, <1>6, <1>8

\* The calls that begin: a new process has no page, a segment call has only
\* free pages ahead of it.
LEMMA CallsGrowing ==
  ASSUME TypeInv, GrowingInv,
         \/ CreateProcess
         \/ \E p \in Processes : DestroyProcess(p)
         \/ StartAny
         \/ BeginAny
  PROVE  GrowingInv'
  <1> USE DEF TypeInv, TypeOK
  <1>1. CASE CreateProcess
    <2>1. /\ PID \in Nat /\ PID \in Processes /\ pageDirectory \in [Processes -> SUBSET Dirs]
          /\ listOfProcesses' = listOfProcesses \union {PID} /\ PID' = PID + 1
          /\ pageDirectory' = [pageDirectory EXCEPT ![PID] = {}]
          /\ listOfProcesses \subseteq Processes
          /\ UNCHANGED <<pmtTable, fifoQueue, pmt, callVars, instruction>>
      BY <1>1, SizeAssumption
         DEF CreateProcess, createProcess, testVars, KernelTypeOK, Processes
    <2>2. /\ QueuedOnce' /\ QueueInjective' /\ FreeFrames' = FreeFrames
          /\ \A f \in Frames, pd \in PageDescr : HeldBy(f, pd)' <=> HeldBy(f, pd)
      BY <2>1, FramesKept DEF GrowingInv
    <2>3. TablesOpen'
      <3>1. \A p \in listOfProcesses' : p < PID'
        BY <2>1 DEF GrowingInv, TablesOpen, Processes
      <3>2. segment' # Idle => segment'.p < PID'
        <4>1. segment # Idle => segment.p \in Nat /\ segment.p < PID
          BY DEF GrowingInv, TablesOpen, ProcessTypeOK, SegmentCall, Processes
        <4> QED
          BY <2>1, <4>1 DEF callVars
      <3>3. ASSUME NEW pd \in PageDescr, pmt'[pd].init
            PROVE  pd[1] < PID' /\ HasTable(pd)'
        <4>1. pd[1] \in Processes /\ pd[1] \in Nat
          BY DEF PageDescr, Processes
        <4>2. pd[1] < PID /\ HasTable(pd)
          BY <2>1, <3>3 DEF GrowingInv, TablesOpen
        <4> QED
          BY <2>1, <4>1, <4>2 DEF HasTable
      <3> QED
        BY <3>1, <3>2, <3>3 DEF TablesOpen
    <2>4. CallInv' /\ FaultInv'
      BY <2>1 DEF GrowingInv, CallInv, FaultInv, PagesAhead, callVars, Descr
    <2>5. HoldersInv' /\ OutOnlyWhenFull'
      BY <2>1, <2>2 DEF GrowingInv, HoldersInv, OutOnlyWhenFull, callVars, Descr
    <2> QED
      BY <2>2, <2>3, <2>4, <2>5 DEF GrowingInv
  <1>2. ASSUME NEW p \in Processes, DestroyProcess(p)
        PROVE  GrowingInv'
    <2>1. FaultInv'
      BY <1>2 DEF DestroyProcess, removeProcess, callVars, testVars, GrowingInv,
                  FaultInv, Descr
    <2> QED
      BY <1>2, <2>1, GrowingKept
         DEF DestroyProcess, removeProcess, callVars, testVars, ProcessTypeOK
  <1>3. ASSUME NEW p \in Processes, NEW page \in Pages, NEW size \in Nat,
               NEW flags \in AccessType, NEW op,
               StartSegment(op, p, page, size, flags), UNCHANGED testVars
        PROVE  GrowingInv'
    <2>1. /\ segment = Idle /\ p \in listOfProcesses /\ canAllocate(p, page, size)
          /\ segment' = [pc |-> "alloc", op |-> op, p |-> p, page |-> page,
                 left |-> size, size |-> size, flags |-> flags,
                 fresh |-> FALSE, frame |-> 0]
          /\ UNCHANGED <<kernelVars, fault, instruction>>
      BY <1>3 DEF StartSegment, testVars
    <2>2. /\ QueuedOnce' /\ QueueInjective' /\ FreeFrames' = FreeFrames
          /\ \A f \in Frames, pd \in PageDescr : HeldBy(f, pd)' <=> HeldBy(f, pd)
      BY <2>1, FramesKept DEF GrowingInv, kernelVars
    <2>3. TablesOpen'
      BY <2>1 DEF GrowingInv, TablesOpen, kernelVars, HasTable
    <2>4. CallInv'
      <3>1. /\ segment'.pc = "alloc" /\ segment'.p = p /\ segment'.page = page
            /\ segment'.left = size
        BY <2>1
      <3>2. PagesAhead' = page .. page + size - 1
        BY <3>1 DEF PagesAhead
      <3>3. \A q \in page .. page + size - 1 : ~Mapped(<<p, q>>)
        BY <2>1 DEF canAllocate
      <3>4. ASSUME NEW q \in Pages, pmt[<<p, q>>].init
            PROVE  Mapped(<<p, q>>)
        BY <3>4 DEF GrowingInv, TablesOpen, PageDescr, Mapped
      <3> QED
        BY <2>1, <3>1, <3>2, <3>3, <3>4 DEF CallInv, kernelVars
    <2>5. FaultInv' /\ HoldersInv' /\ OutOnlyWhenFull'
      BY <2>1, <2>2 DEF GrowingInv, FaultInv, HoldersInv, OutOnlyWhenFull,
                        kernelVars, Descr
    <2> QED
      BY <2>2, <2>3, <2>4, <2>5 DEF GrowingInv
  <1>4. CASE BeginAny
    <2>1. /\ instruction = Idle /\ instruction'.pc = "access"
          /\ UNCHANGED <<kernelVars, callVars>>
      BY <1>4 DEF BeginAny, Begin
    <2>2. fault = Idle
      BY <2>1 DEF GrowingInv, FaultInv, Idle
    <2>3. FaultInv'
      BY <2>1, <2>2 DEF FaultInv, callVars
    <2> QED
      BY <2>1, <2>2, <2>3, GrowingKept DEF kernelVars, callVars, ProcessTypeOK
  <1> QED
    BY <1>1, <1>2, <1>3, <1>4
       DEF StartAny, CreateSegment, createSegment, LoadSegment, loadSegment

\* A page that is being claimed has no frame: it was not initialised.
LEMMA AllocPageGrowing ==
  ASSUME TypeInv, GrowingInv, AllocPage, UNCHANGED testVars
  PROVE  GrowingInv' /\ Replacement!Next
  <1> USE DEF TypeInv, TypeOK
  <1>1. segment \in SegmentCall /\ segment # Idle /\ segment.pc = "alloc"
    BY DEF AllocPage, ProcessTypeOK, Idle
  <1> PICK pd \in PageDescr : pd = Descr(segment)
    BY <1>1 DEF SegmentCall, Descr, PageDescr
  <1>2. /\ segment.p \in Processes /\ segment.page \in Pages
        /\ segment.page \in Nat /\ segment.left \in Nat \ {0}
        /\ pd = <<segment.p, segment.page>>
    BY <1>1 DEF SegmentCall, Descr, Pages
  <1>3. PICK rights \in AccessType \union {wild}, f \in Frames :
          /\ getFreeFrame(pd, Claimed(rights), f)
          /\ segment' = [segment EXCEPT
               !.pc = "fill",
               !.frame = f,
               !.fresh = \/ ~HasTable(Descr(segment))
                         \/ @ /\ EntryOf(segment.page) # 0]
          /\ OpenTable /\ fault' = fault
    BY <1>1, FoundRightsType DEF AllocPage
  <1>4. /\ Claimed(rights) \in [PageDescr -> PageDescriptor]
        /\ \A x \in PageDescr \ {pd} : Claimed(rights)[x] = pmt[x]
        /\ Claimed(rights)[pd].init /\ Claimed(rights)[pd].valid
    BY <1>1, <1>3, ClaimedType
  <1>5. ~pmt[pd].init
    <2>1. segment.page \in PagesAhead \cap Pages
      BY <1>1, <1>2 DEF PagesAhead
    <2> QED
      BY <1>1, <1>2, <2>1 DEF GrowingInv, CallInv
  <1>6. \A g \in Frames : ~HeldBy(g, pd)
    BY <1>5 DEF GrowingInv, HoldersInv
  <1>7. Replacement!Next
    BY <1>3, <1>4, <1>6, ReplacementStep DEF GrowingInv
  <1>8. QueuedOnce' /\ QueueInjective' /\ HoldersInv' /\ OutOnlyWhenFull'
    BY <1>3, <1>4, <1>6, FrameTakenGrowing
  <1>9. \A x \in PageDescr :
          /\ pmt'[x].init <=> pmt[x].init \/ x = pd
          /\ x # pd => (pmt'[x].valid => pmt[x].valid)
    <2>1. \A x \in PageDescr : /\ pmt'[x].init = Claimed(rights)[x].init
                               /\ pmt'[x].valid => Claimed(rights)[x].valid
      BY <1>3, <1>4, FrameHandedOut
    <2> QED
      BY <1>4, <2>1
  <1>10. /\ segment' \in SegmentCall /\ segment' # Idle /\ segment'.pc = "fill"
         /\ segment'.p = segment.p /\ segment'.page = segment.page
         /\ segment'.left = segment.left /\ Descr(segment') = pd
    BY <1>1, <1>2, <1>3 DEF SegmentCall, Descr, HasTable, Idle
  <1>11. TablesOpen'
    <2>1. /\ UNCHANGED <<listOfProcesses, PID>>
          /\ pageDirectory \in [Processes -> SUBSET Dirs]
          /\ pageDirectory' = [pageDirectory EXCEPT
                 ![segment.p] = @ \union {DirOf(segment.page)}]
      BY <1>3 DEF getFreeFrame, KernelTypeOK, OpenTable
    <2>2. HasTable(pd)'
      BY <1>2, <2>1 DEF HasTable
    <2>3. \A x \in PageDescr : HasTable(x) => HasTable(x)'
      BY <1>2, <2>1 DEF HasTable, PageDescr
    <2> QED
      BY <1>1, <1>2, <1>9, <1>10, <2>1, <2>2, <2>3 DEF GrowingInv, TablesOpen
  <1>12. CallInv'
    <2>1. PagesAhead' = segment.page + 1 .. segment.page + segment.left - 1
      BY <1>10 DEF PagesAhead
    <2>2. PagesAhead = segment.page .. segment.page + segment.left - 1
      BY <1>1 DEF PagesAhead
    <2>3. \A page \in PagesAhead' \cap Pages :
            /\ page \in PagesAhead /\ <<segment.p, page>> # pd
            /\ <<segment.p, page>> \in PageDescr
      BY <1>2, <2>1, <2>2 DEF PageDescr
    <2> QED
      BY <1>1, <1>9, <1>10, <2>3 DEF GrowingInv, CallInv
  <1>13. FaultInv'
    <2>1. instruction.pc = "fault" => Descr(instruction) \in PageDescr
      BY DEF Instruction, Idle, Descr, PageDescr
    <2>2. UNCHANGED <<fault, instruction>>
      BY <1>3 DEF testVars
    <2>3. instruction.pc = "fault" =>
            pmt'[Descr(instruction)].init /\ ~pmt'[Descr(instruction)].valid
      BY <1>5, <1>9, <2>1 DEF GrowingInv, FaultInv
    <2> QED
      BY <2>2, <2>3 DEF GrowingInv, FaultInv, Descr
  <1> QED
    BY <1>7, <1>8, <1>11, <1>12, <1>13 DEF GrowingInv

\* createSegment and loadSegment fill the page whose frame they have.
LEMMA AddPageGrowing ==
  ASSUME TypeInv, GrowingInv, AddPage
  PROVE  GrowingInv' /\ UNCHANGED <<pmtTable, fifoQueue>>
  <1> USE DEF TypeInv, TypeOK
  <1>1. /\ segment \in SegmentCall /\ segment # Idle /\ segment.pc = "fill"
        /\ \A x \in PageDescr : /\ pmt'[x].init = pmt[x].init
                                /\ pmt'[x].valid = pmt[x].valid
    BY AddedPage DEF Idle
  <1>2. /\ NextPage
        /\ UNCHANGED <<pmtTable, fifoQueue, pageDirectory, listOfProcesses, PID,
                       fault, instruction>>
    BY DEF AddPage, FillCreatedPage, FillLoadedPage, Expect
  <1>3. /\ segment.p \in Processes /\ segment.page \in Nat
        /\ segment.left \in Nat \ {0}
    BY <1>1 DEF SegmentCall, Pages
  <1>4. segment' # Idle =>
          /\ segment'.pc = "alloc" /\ segment'.p = segment.p
          /\ segment'.page = segment.page + 1
          /\ segment'.left = segment.left - 1
    BY <1>1, <1>2 DEF NextPage, SegmentCall
  <1>5. /\ QueuedOnce' /\ QueueInjective' /\ FreeFrames' = FreeFrames
        /\ \A f \in Frames, pd \in PageDescr : HeldBy(f, pd)' <=> HeldBy(f, pd)
    BY <1>2, FramesKept DEF GrowingInv
  <1>6. TablesOpen'
    BY <1>1, <1>2, <1>4 DEF GrowingInv, TablesOpen, HasTable
  <1>7. CallInv'
    <2>1. segment'.pc \notin {"free", "fill"}
      BY <1>4 DEF Idle
    <2>2. ASSUME segment' # Idle, NEW page \in Pages, page \in PagesAhead'
          PROVE  ~pmt'[<<segment'.p, page>>].init
      <3>1. PagesAhead' = segment.page + 1 .. segment.page + 1 + (segment.left - 1) - 1
        BY <1>4, <2>1, <2>2 DEF PagesAhead
      <3>2. PagesAhead = segment.page + 1 .. segment.page + segment.left - 1
        BY <1>1 DEF PagesAhead
      <3>3. page \in PagesAhead
        BY <1>3, <2>2, <3>1, <3>2
      <3> QED
        BY <1>1, <1>3, <1>4, <2>2, <3>3 DEF GrowingInv, CallInv, PageDescr
    <2> QED
      BY <2>1, <2>2 DEF CallInv
  <1>8. FaultInv'
    <2>1. instruction.pc = "fault" => Descr(instruction) \in PageDescr
      BY DEF Instruction, Idle, Descr, PageDescr
    <2> QED
      BY <1>1, <1>2, <2>1 DEF GrowingInv, FaultInv, Descr
  <1>9. HoldersInv' /\ OutOnlyWhenFull'
    BY <1>1, <1>2, <1>5 DEF GrowingInv, HoldersInv, OutOnlyWhenFull, Descr
  <1> QED
    BY <1>2, <1>5, <1>6, <1>7, <1>8, <1>9 DEF GrowingInv

\* A step of a segment call.
LEMMA SegmentStepGrowing ==
  ASSUME TypeInv, GrowingInv, SegmentStep
  PROVE  /\ GrowingInv'
         /\ Replacement!Next \/ UNCHANGED <<pmtTable, fifoQueue>>
  <1>1. CASE AllocPage /\ UNCHANGED testVars
    BY <1>1, AllocPageGrowing
  <1>2. CASE AllocPageDiskFull /\ UNCHANGED testVars
    BY <1>2, ExitGrowing DEF AllocPageDiskFull, testVars, Exit
  <1>3. CASE AddPage
    BY <1>3, AddPageGrowing
  <1>4. CASE RemovePages
    BY <1>4 DEF RemovePages, FreePage, GrowingInv, CallInv
  <1> QED
    BY <1>1, <1>2, <1>3, <1>4 DEF SegmentStep, ClaimPage

\* The first two phases of pageFault: a frame, and the copy.
LEMMA HandleFaultGrowing ==
  ASSUME TypeInv, GrowingInv, HandleFault
  PROVE  /\ GrowingInv'
         /\ Replacement!Next \/ UNCHANGED <<pmtTable, fifoQueue>>
  <1> USE DEF TypeInv, TypeOK
  <1>1. /\ instruction.pc = "fault" /\ instruction' = instruction
        /\ instruction \in Instruction
    BY DEF HandleFault, At, testVars, Idle
  <1> PICK pd \in PageDescr :
        pd = Descr(instruction) /\ pd = <<instruction.p, instruction.page>>
    BY <1>1 DEF Instruction, Descr, PageDescr
  <1>2. pmt[pd].init /\ ~pmt[pd].valid
    BY <1>1 DEF GrowingInv, FaultInv
  <1>3. CASE pageFault(instruction.p, instruction.page)
    <2>1. PICK f \in Frames :
            /\ getFreeFrame(pd, pmt, f)
            /\ fault' = [pc |-> "copy", p |-> instruction.p,
                         page |-> instruction.page, frame |-> f,
                         from |-> "empty"]
      BY <1>3 DEF pageFault
    <2>2. /\ fault = Idle /\ fault' # Idle /\ Descr(fault') = pd
          /\ UNCHANGED <<pageDirectory, segment, listOfProcesses, PID>>
      BY <1>3, <2>1 DEF pageFault, getFreeFrame, Descr, Idle
    <2>3. pmt \in [PageDescr -> PageDescriptor]
      BY DEF KernelTypeOK
    <2>4. \A g \in Frames : ~HeldBy(g, pd)
      BY <1>2, <2>2 DEF GrowingInv, HoldersInv
    <2>5. Replacement!Next
      BY <2>1, <2>3, <2>4, ReplacementStep DEF GrowingInv
    <2>6. QueuedOnce' /\ QueueInjective' /\ HoldersInv' /\ OutOnlyWhenFull'
      BY <1>2, <2>1, <2>2, <2>3, <2>4, FrameTakenGrowing
    <2>7. \A x \in PageDescr : /\ pmt'[x].init = pmt[x].init
                               /\ pmt'[x].valid => pmt[x].valid
      BY <2>1, <2>3, FrameHandedOut
    <2>8. TablesOpen'
      BY <2>2, <2>7 DEF GrowingInv, TablesOpen, HasTable
    <2>9. CallInv'
      <3>1. /\ segment # Idle => segment.p \in Processes
            /\ segment.pc = "fill" => Descr(segment) \in PageDescr
        BY DEF ProcessTypeOK, SegmentCall, Idle, Descr, PageDescr
      <3>2. PagesAhead' = PagesAhead /\ Descr(segment)' = Descr(segment)
        BY <2>2 DEF PagesAhead, Descr
      <3> QED
        BY <2>2, <2>7, <3>1, <3>2 DEF GrowingInv, CallInv, PageDescr
    <2>10. FaultInv'
      BY <1>1, <1>2, <2>2, <2>7 DEF FaultInv, Descr
    <2> QED
      BY <2>5, <2>6, <2>8, <2>9, <2>10 DEF GrowingInv
  <1>4. CASE CopyIn
    <2>1. fault # Idle /\ fault \in FaultCall
      BY <1>4 DEF CopyIn, Idle, ProcessTypeOK
    <2>2. fault' # Idle /\ Descr(fault') = Descr(fault)
      BY <1>4, <2>1 DEF CopyIn, FaultCall, Descr, Idle
    <2>3. UNCHANGED <<pmtTable, fifoQueue, segment, pageDirectory, PID,
                      listOfProcesses, pmt>>
      BY <1>4 DEF CopyIn
    <2>4. FaultInv'
      BY <1>1, <2>1, <2>2, <2>3 DEF GrowingInv, FaultInv, Descr
    <2> QED
      BY <2>2, <2>3, <2>4, GrowingKept DEF ProcessTypeOK
  <1>5. CASE pageFaultRefused(instruction.p, instruction.page) \/ CopyInCrash
    <2>1. \E reason : Exit(reason)
      BY <1>5 DEF pageFaultRefused, CopyInCrash
    <2> QED
      BY <1>1, <1>5, <2>1, ExitGrowing DEF pageFaultRefused, CopyInCrash, Exit
  <1> QED
    BY <1>3, <1>4, <1>5 DEF HandleFault

\* The last phase of pageFault: the page becomes valid in its frame.
LEMMA FaultServedGrowing ==
  ASSUME TypeInv, GrowingInv, FaultServed
  PROVE  GrowingInv' /\ UNCHANGED <<pmtTable, fifoQueue>>
  <1> USE DEF TypeInv, TypeOK
  <1>1. /\ fault # Idle /\ fault \in FaultCall /\ fault' = Idle
        /\ instruction.pc = "fault" /\ instruction \in Instruction
        /\ UNCHANGED <<pmtTable, fifoQueue, pageDirectory, listOfProcesses, PID,
                       segment>>
    BY DEF FaultServed, Validate, At, Idle, ProcessTypeOK
  <1> PICK pd \in PageDescr : pd = Descr(fault)
    BY <1>1 DEF FaultCall, Descr, PageDescr
  <1>2. instruction'.pc = "retry"
    BY <1>1 DEF FaultServed, Goto, Instruction
  <1>3. /\ \A x \in PageDescr : pmt'[x].init = pmt[x].init
        /\ \A x \in PageDescr \ {pd} : pmt'[x].valid = pmt[x].valid
        /\ pmt'[pd].valid
    <2>1. pmt' = [pmt EXCEPT ![pd] = Validated(pmt[pd])]
      BY DEF FaultServed, Validate
    <2>2. /\ Validated(pmt[pd]).init = pmt[pd].init
          /\ Validated(pmt[pd]).valid
      BY DEF Validated, KernelTypeOK, PageDescriptor
    <2> QED
      BY <2>1, <2>2 DEF KernelTypeOK
  <1>4. /\ QueuedOnce' /\ QueueInjective' /\ FreeFrames' = FreeFrames
        /\ \A f \in Frames, x \in PageDescr : HeldBy(f, x)' <=> HeldBy(f, x)
    BY <1>1, FramesKept DEF GrowingInv
  <1>5. TablesOpen'
    BY <1>1, <1>3 DEF GrowingInv, TablesOpen, HasTable
  <1>6. CallInv'
    <2>1. /\ segment # Idle => segment.p \in Processes
          /\ segment.pc = "fill" => Descr(segment) \in PageDescr
      BY DEF ProcessTypeOK, SegmentCall, Idle, Descr, PageDescr
    <2>2. PagesAhead' = PagesAhead /\ Descr(segment)' = Descr(segment)
      BY <1>1 DEF PagesAhead, Descr
    <2> QED
      BY <1>1, <1>3, <2>1, <2>2 DEF GrowingInv, CallInv, PageDescr
  <1>7. FaultInv'
    BY <1>1, <1>2 DEF FaultInv
  <1>8. HoldersInv'
    <2>1. HoldersInv
      BY DEF GrowingInv
    <2>2. ASSUME NEW f \in Frames, NEW x \in PageDescr, HeldBy(f, x)
          PROVE  pmt'[x].init /\ pmt'[x].valid
      BY <1>3, <2>1, <2>2 DEF HoldersInv
    <2> QED
      BY <1>4, <2>1, <2>2 DEF HoldersInv
  <1>9. OutOnlyWhenFull'
    <2>1. \A x \in PageDescr :
            pmt'[x].init /\ ~pmt'[x].valid => pmt[x].init /\ ~pmt[x].valid
      BY <1>3
    <2> QED
      BY <1>4, <2>1 DEF GrowingInv, OutOnlyWhenFull
  <1> QED
    BY <1>1, <1>4, <1>5, <1>6, <1>7, <1>8, <1>9 DEF GrowingInv

\* access changes one dirty flag at most.
LEMMA AccessGrowing ==
  ASSUME TypeInv, GrowingInv, Access
  PROVE  GrowingInv' /\ UNCHANGED <<pmtTable, fifoQueue>>
  <1> USE DEF TypeInv, TypeOK
  <1>1. instruction.pc \in {"access", "retry"}
    BY DEF Access, At
  <1>2. instruction.pc # "fault" /\ instruction # Idle /\ instruction \in Instruction
    BY <1>1 DEF Idle
  <1>3. fault = Idle
    BY <1>2 DEF GrowingInv, FaultInv
  <1>4. /\ UNCHANGED <<pmtTable, fifoQueue, segment, fault, pageDirectory, PID,
                       listOfProcesses>>
        /\ \A x \in PageDescr : /\ pmt'[x].init = pmt[x].init
                                /\ pmt'[x].valid = pmt[x].valid
    <2>1. CASE accessOK(Descr(instruction), instruction.type)
      BY <2>1 DEF Access, callVars, accessOK, KernelTypeOK, PageDescriptor
    <2>2. CASE UNCHANGED <<pmtTable, fifoQueue, pageDirectory, PID,
                           listOfProcesses, pmt>>
      BY <2>2 DEF Access, callVars
    <2> QED
      BY <2>1, <2>2 DEF Access, kernelVars, Exit
  <1>5. ASSUME instruction'.pc = "fault"
        PROVE  /\ pmt'[Descr(instruction')].init
               /\ ~pmt'[Descr(instruction')].valid
    <2>1. /\ accessStatus(Descr(instruction), instruction.type) = "PAGE_FAULT"
          /\ Goto("fault") /\ UNCHANGED kernelVars
      BY <1>2, <1>5 DEF Access, Goto, Instruction
    <2>2. Descr(instruction') = Descr(instruction)
      BY <1>2, <2>1 DEF Goto, Descr, Instruction
    <2> QED
      BY <2>1, <2>2 DEF accessStatus, Mapped, kernelVars
  <1>6. FaultInv'
    BY <1>3, <1>4, <1>5 DEF FaultInv
  <1> QED
    BY <1>3, <1>4, <1>6, GrowingKept DEF ProcessTypeOK

\* From the translation to the check of the value, no table changes.
LEMMA TouchGrowing ==
  ASSUME TypeInv, GrowingInv, Translate \/ Store \/ Fetch \/ CheckValue
  PROVE  GrowingInv' /\ UNCHANGED <<pmtTable, fifoQueue>>
  <1> USE DEF TypeInv, TypeOK
  <1>1. instruction.pc \in {"translate", "touch", "check"}
    BY DEF Translate, Store, Fetch, CheckValue, At
  <1>2. instruction.pc # "fault" /\ instruction # Idle /\ instruction \in Instruction
    BY <1>1 DEF Idle
  <1>3. fault = Idle
    BY <1>2 DEF GrowingInv, FaultInv
  <1>4. UNCHANGED <<pmtTable, fifoQueue, segment, fault, pageDirectory, PID,
                    listOfProcesses, pmt>>
    BY DEF Translate, Store, Fetch, CheckValue, Exit, kernelVars, callVars
  <1>5. instruction'.pc # "fault"
    <2>1. Translate => instruction'.pc # "fault"
      BY <1>2 DEF Translate, Instruction
    <2>2. Fetch => instruction'.pc # "fault"
      BY <1>2 DEF Fetch, Instruction
    <2>3. Store \/ CheckValue => instruction'.pc # "fault"
      BY DEF Store, CheckValue, Idle
    <2> QED
      BY <2>1, <2>2, <2>3
  <1>6. FaultInv'
    BY <1>3, <1>4, <1>5 DEF FaultInv
  <1> QED
    BY <1>3, <1>4, <1>6, GrowingKept DEF ProcessTypeOK

\* One step: the invariant is kept, and what it does to the pages in memory is
\* a step of first-in first-out replacement, or nothing.
LEMMA GrowingStep ==
  ASSUME TypeInv, GrowingInv, [GrowingNext]_vars
  PROVE  GrowingInv' /\ [Replacement!Next]_Resident
  <1>1. ASSUME UNCHANGED <<pmtTable, fifoQueue>> PROVE Resident' = Resident
    BY <1>1 DEF Resident
  <1>2. CASE CreateProcess \/ (\E p \in Processes : DestroyProcess(p))
               \/ StartAny \/ BeginAny
    <2>1. UNCHANGED <<pmtTable, fifoQueue>>
      BY <1>2 DEF CreateProcess, createProcess, DestroyProcess, removeProcess,
           StartAny, CreateSegment, createSegment, LoadSegment, loadSegment,
           StartSegment, BeginAny, Begin, kernelVars
    <2> QED
      BY <1>1, <1>2, <2>1, CallsGrowing
  <1>3. CASE UNCHANGED vars
    <2>1. UNCHANGED <<pmtTable, fifoQueue, segment, pageDirectory, PID,
                      listOfProcesses, pmt, fault, instruction>>
      BY <1>3 DEF vars, kernelVars, callVars
    <2>2. FaultInv'
      BY <2>1 DEF GrowingInv, FaultInv, Descr
    <2> QED
      BY <1>1, <2>1, <2>2, GrowingKept DEF TypeInv, TypeOK, ProcessTypeOK
  <1>4. CASE SegmentStep
    BY <1>1, <1>4, SegmentStepGrowing
  <1>5. CASE InstructionStep
    BY <1>1, <1>5, HandleFaultGrowing, FaultServedGrowing, AccessGrowing,
       TouchGrowing DEF InstructionStep
  <1> QED
    BY <1>2, <1>3, <1>4, <1>5 DEF GrowingNext, Over

\* What the runs check follows from the invariant.
LEMMA GrowingFacts ==
  ASSUME TypeInv, GrowingInv
  PROVE  QueuedOnce /\ NeverPagedOutEarly
  BY DEF GrowingInv, OutOnlyWhenFull, NeverPagedOutEarly, Mapped

\* At the start no page is in memory.
LEMMA GrowingReplacementInit == Init => Replacement!Init
  BY DEF Init, KernelInit, Replacement!Init, Resident

\* A growing program is one of the programs TypeInv is about.
LEMMA GrowingTypeInv ==
  ASSUME TypeInv, [GrowingNext]_vars
  PROVE  TypeInv'
  <1>1. ASSUME NEW p \in Processes, NEW page \in Pages, NEW size \in Nat,
               NEW flags \in AccessType,
               CreateSegment(p, page, size, flags)
                 \/ LoadSegment(p, page, size, flags)
        PROVE  TypeInv'
    BY <1>1, StartedTypeInv
       DEF CreateSegment, createSegment, LoadSegment, loadSegment
  <1>2. CASE ~StartAny
    <2>1. CreateProcess \/ (\E p \in Processes : DestroyProcess(p)) => AnyCall
      BY DEF AnyCall
    <2> QED
      BY <1>2, <2>1, NextTypeInv DEF GrowingNext, Next
  <1> QED
    BY <1>1, <1>2 DEF StartAny
=============================================================================
