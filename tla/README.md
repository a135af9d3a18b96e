# Verification of the ProjekatOS2 virtual memory manager

ProjekatOS2 simulates the memory management of an operating system: processes
with two-level page tables, demand paging over a partition, first-in first-out
page replacement, segments, cloning, shared segments, and a multi-threaded test
program that runs ten processes on it. This directory holds TLA+ models of the
simulator, TLC configurations that check them, and theorems about them checked
by TLAPS.

## The system

| component | state | operations | source |
|---|---|---|---|
| frame table, FIFO replacement | `pmtTable`, `fifoQueue` (mutex_pmtTable) | `getFreeFrame`, `replacePage`, `freePMTEntry` | KernelSystem.cpp |
| disk table, partition | `diskTable` (mutex_diskTable), clusters | `getFreeCluster`, `setFreeCluster`, `readCluster`, `writeCluster` | KernelSystem.cpp, part.h |
| processes, access check | `listOfProcesses` (its mutex), `PID` | `createProcess`, `removeProcess`, `access` | KernelSystem.cpp |
| segments of a process | `pageDirectory` and its page tables (mutex_pageDirectory) | `createSegment`, `loadSegment`, `deleteSegment` | KernelProcess.cpp |
| page fault, translation | the same page tables, frames | `pageFault`, `getPhysicalAddress` | KernelProcess.cpp |
| page table allocator | `freePMTChunks` (its mutex) | `firstFit`, `periodicJob` (returns at once) | KernelSystem.cpp |
| cloning | a second set of page tables | `clone`, `cloneProcess` | KernelProcess.cpp, KernelSystem.cpp |
| shared segments | a list per process and one in the kernel (a mutex each) | `createSharedSegment`, `disconnectSharedSegment`, `deleteSharedSegment` | both |
| instruction execution | one mutex for all threads | `doInstruction` | SystemTest.cpp |
| test processes, main | threads, the program's own copy of memory | constructor, `run`, join, destructor | ProcessTest.cpp, main.cpp |
| facades, random numbers, early test program | none of their own | forwarding calls | Process.cpp, System.cpp, RandomNumberGenerator.cpp, test.cpp |

How they interact. A segment call takes the process's `mutex_pageDirectory`
for its whole duration and asks the kernel for one frame after another; each
`getFreeFrame` is atomic under `mutex_pmtTable` and may write, through
`replacePage`, to the descriptor of a page of *any* process, whose own mutex it
does not take. `pageFault` does the same for one page, then copies the contents
in and validates the descriptor after `mutex_pmtTable` has been released.
`doInstruction` calls `access`, `pageFault`, `access`, `getPhysicalAddress` and
then touches memory; only the mutex of SystemTest spans these calls, and the
main thread, which constructs later processes, does not take it. The
shared-segment calls take up to three kinds of mutex at once, in more than one
order, and a removal through the kernel calls back into every other process.

What is hard here: the unpinned frame between two calls; the three places a
page may be (frame, cluster, source) and the flags that tell them apart over a
long history of evictions and faults; a queue of frames that deletions do not
maintain; page loops that cross page tables, of one process or of two at a time;
the disk, or the space for page tables, running full; frames that several
processes map and one owns; the order of mutexes.

What makes each component correct:

* frame table - a frame in use has a descriptor and is queued, once; pages are
  replaced in the order they were loaded, and only when memory is full;
* disk table - a cluster is taken exactly while one page is stored in it; "disk
  full" is reported only when it is;
* paging - a valid page is in the frame its descriptor names, alone; nothing
  written is lost; a program cannot tell paged memory from memory;
* access - a page mapped EXECUTE has the contents it was loaded with, wherever
  paging has taken it; an access answered OK can be translated;
* segments - a granted segment has its pages free and inside the address space;
* allocator - page tables never overlap, and none is denied while there is room;
* clone - the clone has the parent's pages and contents, kept apart from them, as
  long as the parent's tables are full; otherwise the index of the directory runs
  ahead by exactly the gaps passed, and may leave the directory;
* shared segments - one name and creator are one segment, in one place for all who
  have it until its pages are replaced, and off every list when it is removed;
  only a removal through the kernel makes other calls wait for good;
* test program - it ends, and its assertion can be trusted.

## The modules

| module | models | role |
|---|---|---|
| `KernelSystem` | class KernelSystem: frames, clusters, processes, access | state and atomic operators |
| `KernelProcess` | segment calls, pageFault, getPhysicalAddress | calls as sequences of atomic steps |
| `SystemTest` | doInstruction, and who may call what | the state machine, its specifications and properties |
| `Main` | main.cpp and ProcessTest's constructor, threads and destructor | the closed program, with fairness |
| `PagedMemory` | what virtual memory promises a program | abstract specification |
| `FifoReplacement` | FIFO replacement | abstract specification |
| `CloneProcess` | cloneProcess and clone, on top of `SystemTest` | entry by entry |
| `SharedSegments` | the shared-segment calls and their pages, on top of `SystemTest` | one call at a time, page by page |
| `SharedSegmentLocks` | the same calls' mutexes and lists | concurrent threads |
| `SegmentSearch` | the search for room in createSegment and loadSegment | the loop, step by step |
| `FirstFit` | pmtSpace, firstFit and its callers | the allocator |
| `ProcessTest` | ProcessTest::run, its copy of memory, checkValue | the test over a perfect memory |
| `MC...` | the constant `Image`, the values a, b, names s, t, sizes | instances for TLC |
| `SystemTestProofs` | types and victims under `Spec`; the frame table of any program that deletes nothing | theorems |
| `MainProofs` | the test program, `MainSpec` | theorems |
| `MemoryProofs` | residency, contents and clusters under `SerialSpec`, the refinements; `CloneSpec`, `LastCloneSpec` | theorems |
| `SharingProofs` | `SharedSpec` and `DeleteSpec` | theorems |
| `SegmentSearchProofs`, `FirstFitProofs`, `ProcessTestProofs`, `SharedSegmentLocksProofs` | the module of the name | theorems |

`KernelProcess` EXTENDS `KernelSystem`, `SystemTest` EXTENDS it in turn, and
`Main`, `CloneProcess` and `SharedSegments` EXTEND `SystemTest`. `SystemTest`
instantiates the two abstract specifications with refinement mappings. The four
remaining models stand alone: `SharedSegmentLocks` is about what `SharedSegments`
leaves out and has no pages; `SegmentSearch` is the loop that `KernelProcess`
has in closed form; `FirstFit` is the memory in which everybody's tables are;
`ProcessTest` takes for granted what `PagedMemory` promises.

### State and code: kernel, processes, instructions

* A page descriptor is known by the pair of its process and its virtual page
  (`PageDescr`); `pmt` maps it to the fields of `struct PageDescriptor`. A
  virtual page is a number; `DirOf` and `EntryOf` are the two fields the masks
  cut out of an address. `pageDirectory[p]` is the set of directory entries
  that have a page table. Fields that the code leaves uninitialised when it
  carves a table out of `pmtSpace` have the value `wild`. `block` starts as
  `nullptr` there; it is never read before it is set.
* A frame is its index (`phyToNum`, `numToPhy`). The contents of a page, a
  frame or a cluster is one value. Bytes nobody has written are `Junk`.
* `sourceAddress` is represented by what the program's buffer holds at that
  address: the buffer of a loaded segment does not change while its process
  lives.
* `disk = 0` means "on no cluster", so cluster 0 is never handed out.
* `segment` is the segment call in progress with its loop variables; `fault` is
  the `pageFault` call in progress; `instruction` is the instruction in
  progress. Since all instructions run under SystemTest's mutex there is one at
  most. `mutex_pageDirectory` of p is held while `SegmentHolds(p)` or
  `FaultHolds(p)`.
* A segment call works on one page in two steps: `AllocPage` (the descriptor's
  flags, then `getFreeFrame`) and `FillCreatedPage` or `FillLoadedPage`
  (`block`, rights, source address, contents). `pageFault` has three:
  `pageFault` (init check, `getFreeFrame`), `CopyIn` and `Validate`. These are
  the points where the kernel's mutexes are free.
* `exit(1)`, a failed assert and a crash are the action `Exit(reason)`: the
  program is gone and only `Over` stutters. Dereferencing a null page table in
  `access` is treated as the end of the program like the exit beside it.
* `deleteSegment`'s loop runs once (its counter is 1 and only decremented), so
  it is one page. It reads `block` before it takes `mutex_pmtTable`: the frame
  freed is the one read when the call started.
* `lastWritten` is a history variable: what the program last gave a page.

### State and code: cloning and shared segments

* `clone` is the clone call in progress: the index of the loop over the page
  directory (`dir`), the table being copied (`table`), the entry in it. The two
  are kept apart because the code steps the *directory* index for every
  uninitialised entry of a table: past the last entry it leaves the inner loop
  (`LeaveDirectory`), is stepped once more, and never meets MAX_PMT_TABLES again.
  The outer loop then reads what lies behind the directory, which is no table
  (`PassNothing`) or is followed like one (`FollowWildPointer`, the end of the
  program); the call does not return. The fields of a clone's entry that nobody
  sets are any of `LeftOver`. A page in memory takes two steps, the frame
  (`ClaimFrame`) and the copy (`CopyPage`); a page on disk takes one
  (`CopyCluster`). The frame is registered for the parent's descriptor, as in
  the code.
* `sharing` is the shared-segment call in progress with its own index into the
  creator's table. That index may run past the table: what it reads there is the
  table that `firstFit` carved next, so `carved` keeps the order in which tables
  were carved. `home` is a history variable, the page an attached page was meant
  to be the same as.
* A removal goes through the processes in the order of the kernel's list, the
  caller last; each deletion is `deleteSegment` at the start address in the
  record, which is the creator's.
* In `SharedSegmentLocks` a thread is a program counter and what it has read
  (`gss`, the processes still to ask); a mutex is its holder. Ordinary calls
  stand for everything else a thread does under its own `mutex_pageDirectory`.
  Mutexes that are released before anything else is asked for cannot block
  anybody for ever and are left out. Names are compared as pointers, as in the
  code, and are model values.

### State and code: search, allocator, test

* `SegmentSearch` runs the loop at KernelProcess.cpp:60-97 over every page
  directory and every set of taken pages, with the signed counter of its width:
  `HalfRange` is where a signed long turns negative.
* `FirstFit` has `freePMTChunks` as a sequence of chunks with start and length,
  and what was handed out in `given`. Its callers differ in whether they look at
  the result; those that do not write through a null pointer.
* `ProcessTest` draws a batch access by access, writing the copy as it goes, and
  executes it afterwards. `copy` and `dirty` are `backup.first` and
  `backup.second`; `memory` is a perfect memory.

Abstractions that could hide something: the writes of `pageFault` after the
copy (445-476) are one step, although the kernel may replace a page between
them; `canAllocate` is the search in closed form, which `SegmentSearch` and its
theorem justify for sizes the signed counter can hold; the memory behind a page
table, which `loadSegment` may write to (324), is the first entry of another
table or is not modelled; `Process` and `System` only forward and are left out;
TRAP for an unaligned address changes nothing and is left out.

### The specifications

* `SerialSpec` - one call or instruction at a time; a process's code segment is
  loaded first and data segments are created afterwards, the way ProcessTest
  does it; nothing is deleted but processes. Here everything holds.
* `ApiSpec` - every call with every argument, `deleteSegment` included, still
  one at a time.
* `Spec` of `SystemTest` - every call with every argument, segment calls
  interleaved with instructions of other processes.
* `MainSpec` - the closed test program: the main thread builds processes while
  the threads of earlier ones execute.
* `CloneSpec` - the serial program that may also clone between two calls;
  `LastCloneSpec` - it clones once, the last process it creates.
* `SharedSpec`, `DeleteSpec`, `SharedApiSpec` - segments are shared for good;
  shared and removed, mapped at one address everywhere; the whole interface.
* `LocksSpec` - threads that create, attach, disconnect and delete at any time,
  beside ordinary calls, in whatever order the mutexes allow.
* `FairSpec` of `SegmentSearch`, `Spec` of `FirstFit` and of `ProcessTest`.

## The runs

| run | specification | shows |
|---|---|---|
| `serial` | SerialSpec: 2 processes, 1 frame, 2 usable clusters, 2 tables of 2 entries, segments of 2 pages, 2 values | residency, no lost contents, cluster ownership, "disk full" is real, code is as loaded; refines `PagedMemory` |
| `interleaved` | Spec: 2 processes, 1 frame, 1 usable cluster, 1 usable page each, sizes 0 and 1 | types and the victim, under every interleaving and any deletion |
| `main` | MainSpec: 2 processes, 2 frames, 5 usable clusters, 3 segments of 1 page, 2 instructions each | the queue under concurrency; refines `FifoReplacement`; termination |
| `clone` | CloneSpec: 2 processes, 2 frames, 3 usable clusters, 2 tables of 3 entries, sizes 1 to 3 | how far the directory's index runs ahead, and when it leaves; victims are real, a clone of full tables is a copy |
| `shared` | SharedSpec: 2 processes, 1 frame, 1 usable cluster, 2 tables of 3 entries, sizes 0, 2 and 3 | a page is attached where the creator's page is, and stays there with it until one of them is paged |
| `shared_delete` | DeleteSpec: 3 processes, 1 frame, 3 tables of 1 entry, size 2 | removal reaches every list, and the first page in every address space; the lists agree |
| `locks` | LocksSpec: 3 threads, 1 name, 2 calls each | who waits meets a removal that holds the kernel's mutex, and only that keeps calls from ending; one segment per name and creator |
| `segment_search` | FairSpec: 3 tables of 3 entries, every directory, every set of taken pages, sizes 1 to 10 | the loop ends, stays in the directory, answers as the closed form |
| `first_fit` | Spec: spaces of 2 to 17 bytes, five kinds of table | no overlap, one chunk, null only when spent |
| `process_test` | Spec: 3 addresses, 2 values, 6 segments, 2 rounds | the copy and the expectations are right; why the assertion can fail |
| `main_retry` | MainSpec | **violated**: the assert after a served fault (SystemTest.cpp:31) can fail |
| `locks_deadlock` | LocksSpec: 2 threads | **violated**: a removal waits for ever (KernelProcess.cpp:979) |

`main_retry` and `locks_deadlock` each check one property that an assert or a
comment of the source states and that the code does not have; PROJECT.json
quotes it. `main_retry` needs two threads: the main thread's `createSegment`
takes a frame between the fault and the repeated access. `locks_deadlock` needs
two: a removal holds its list and the kernel's, and another thread holds its
list and asks for the kernel's.

### Further configurations

Other questions, with a configuration each; run them with `tlc -config X.cfg M`.
The first passes; the others end in a counterexample, and each is a place where
the code does something else than the line beside it says.

| configuration | module | what it shows | where |
|---|---|---|---|
| `MCSerialOneProcess` | MCSystemTest | one process, 2 frames, 2 usable clusters, a segment of 3 pages that goes from one page table of 2 entries into the next: what `serial` and `main` check, first-in first-out order included | passes |
| `MCDeleteSegment` | MCSystemTest | `deleteSegment` deletes one page of the segment: its counter stays 1 | KernelProcess.cpp:353, "It is initialized inside loop from descriptor->numOfPages" |
| `MCDeletePagedOut` | MCSystemTest | it frees the frame a paged-out page had before, which is another page's by now | KernelProcess.cpp:383; KernelSystem.cpp:363, "Set flag to invalid to know it is not in memory" |
| `MCLoadSegment` | MCSystemTest | in a table that exists `sourceAddress` goes to the next entry; a page replaced while clean cannot be brought back | KernelProcess.cpp:324; KernelSystem.cpp:357, "must be returned from source address" |
| `MCNoSpace` | MCSystemTest | pages of the last directory entry can never be allocated | KernelProcess.cpp:66; line 49, "Find if it has continuous segmentSize free entries" |
| `MCReplaceAfterDelete` | MCSystemTest | a freed frame keeps its place in the queue: a new page is replaced before older ones | KernelSystem.cpp:202; line 183, "to keep track of oldest page loaded into memory" |
| `MCMainContents` | MCMain | the frame may be replaced between translation and store: the store goes to another page | SystemTest.cpp:54; ProcessTest.cpp:203-204 |
| `MCHugeSegment` | MCSegmentSearch | a size of 2^31 and more is negative: OK without a segment | KernelProcess.cpp:54 |
| `MCCloneTables` | MCCloneProcess | uninitialised entries step the directory index: tables are not cloned | KernelProcess.cpp:557; line 534, "Clone the virtual address space (tables)" |
| `MCCloneRegistered` | MCCloneProcess | the clone's frame is registered for the parent's page: when it is replaced, contents are lost | KernelProcess.cpp:569; KernelSystem.cpp:352 |
| `MCSharedEvicted` | MCSharedSegments | an attached page is not told when the creator's page is replaced | KernelProcess.cpp:744; KernelSystem.cpp:363 |
| `MCSharedTables` | MCSharedSegments | the creator's index wraps one entry late: what lies behind the table is copied | KernelProcess.cpp:750; line 599 |
| `MCSharedDisconnect` | MCSharedSegments | disconnecting frees the creator's frame | KernelProcess.cpp:989; line 986, "Otherwise just disconnect" |
| `MCSharedStart` | MCSharedSegments | the record of an attached segment has the creator's address: the removal ends the program | KernelProcess.cpp:797; line 988, "Delete segment from descriptors in table" |
| `MCLocksTwoCreators` | MCSharedSegmentLocks | two processes both find nothing and both create the segment | KernelProcess.cpp:597; line 596, "otherwise create it" |
| `MCLocksTwice` | MCSharedSegmentLocks | a segment attached twice stays listed after it is deleted | KernelProcess.cpp:1020; line 1010 |
| `MCProcessTestAssert` | MCProcessTest | the assertion compares a value read when the batch was drawn with a copy written when it was drawn | ProcessTest.cpp:203-204 |

### Properties, in words

* `ResidencyInv` - a valid page is in the frame its descriptor names and the
  frame table agrees, through every step of a fault.
* `NothingLost` - frame, cluster or source, whichever the flags select, holds
  what the program last wrote.
* `ClustersOwned` - clusters taken and pages paged out are in one-to-one
  correspondence.
* `DiskFullIsReal` - the program ends with "disk full" only when there are at
  least as many pages as frames and usable clusters.
* `QueuedOnce`, `VictimIsReal` - the queue holds every frame in use (once, when
  nothing is deleted), and every frame in use has a descriptor.
* `NeverPagedOutEarly` - no page is put out while a frame is free.
* `FaultServedOnce` - no access is answered OK and then refused.
* `CodeIsAsLoaded` - a page mapped EXECUTE holds what its image gave it, in its
  frame, on its cluster or at its source, and in the frame a fault has copied it
  to.
* `ActsAsMemory` - `PagedMemory`: `lastWritten` is its store and the value
  fetched its reply.
* `ReplacesOldest` - `FifoReplacement`: the pages of the queued frames, in
  order, are its list.
* `Terminates` - the test program ends.
* `IndexCountsGaps` - while a table is copied, the directory's index is ahead of
  it by the uninitialised entries passed in it, and past the directory only if
  some table of the parent is not full.
* `CloneIsCopy` - when `cloneProcess` returns, the clone of a process whose
  tables are full has its parent's pages and their contents, and no frame or
  cluster holds a page of both.
* `SharedUntilPaged` - a page is attached where the creator's page is, in its
  frame or out of memory, with its rights, as long as that one lies in the
  creator's first table; and the two stay in one place until a step puts one of
  them out or brings one in.
* `ListsAgree`, `HeadRemovedEverywhere` - the lists of processes and kernel agree
  between two calls; a removed segment is in no list, and its first page in no
  address space. The pages behind the first stay where they are: `deleteSegment`
  never sets its counter (KernelProcess.cpp:353).
* `WaitsMeetTheKernel` - of two threads one of which waits for the other, one holds
  the kernel's mutex: no two calls that create or attach block each other.
* `StuckBehindKernel` - all calls in progress end, unless the kernel's mutex is
  held for ever.
* `OneSegmentPerCreator` - the kernel's list has no two records of one name and one
  creator, with first creators and removals at any time.
* `AnswersAsClosedForm`, `GrantedIsFree`, `InsideDirectory`, `SearchEnds` - the
  search for room.
* `NoOverlap`, `OneChunk`, `NullOnlyWhenSpent` - page tables never share a byte;
  the free space is one chunk behind all tables; a request fails only when the
  bytes left would not do.
* `CopyIsMemory`, `ExpectedIsMemory`, `AbortsOnlyIfRewritten` - the test's copy
  is right between batches, what it expects of an access is what memory holds,
  and its assertion fails only where one batch writes a byte again after it has
  read it.

### Bounds

`MaxProcesses` processes are ever created; the source's ten differ only in
number, and two suffice for one page to push out another process's. With one or
two frames every allocation after the first or second is a replacement; fewer
clusters than pages make the disk run full. The pages of the last directory
entry can never be allocated (`MCNoSpace`), so a configuration has one directory
entry more than it uses; every passing run of the paging models has more usable
pages than frames. Two values tell initial data from stores, and one is enough where only
flags matter. `SegmentSizes` bounds what programs ask for: in `serial`
segments of two pages fill a table, in `clone` segments of one to three pages
leave tables of three entries partly full or fill them. A segment that goes from
one page table into the next is in `segment_search`, in `MCSerialOneProcess` and
in the theorems of `MemoryProofs`, which hold for all sizes; in `shared` shared
segments do so, at both ends, and in `shared_delete` tables of one entry make
every segment cross. `MaxBehind` is how many entries behind the page directory a
clone's index is followed: what it reads there may at each of them be taken for
the address of a table, so one would show the same. `LeftOver` has two of the
values an unset entry may have. `MaxQueue` bounds the queue, which deletions make grow: a deletion
happens only while the queue, should every free frame be pushed again, stays
below it. `Instructions` bounds the instructions of a thread (the source's is
64 * (2 + ... + 10)), `SegmentSize` and `DataSegments` the program's segments (100
pages and ten). `Main` assumes that the segments fit before the last directory
entry, as they do in the source. `Calls` bounds the shared-segment calls of a
thread: two are one to hold a mutex or a segment and one to ask for what another
holds, and a deadlock needs no more. `HalfRange` is 16 instead of 2^31, with sizes
on both sides of the address space's size. `Spaces` has sizes of `pmtSpace` at
which requests fit exactly, leave a rest, or fail at each of the places that ask.
`Rounds` bounds the rounds of `run`; 6 segments make batches of two to five
accesses, enough to write, read and write an address again.

Deadlock is checked in every run but `locks` and `locks_deadlock`, whose threads
really may all wait for each other: after the end of a program the next-state
relation stutters, and at any other point some step must be possible.

### Fairness

`Terminates` assumes weak fairness of the main thread and of each process's
thread: the operating system runs every thread that can run. No fairness of
locks is assumed. A thread that wants to begin an instruction can be held up by
others for ever only if these never stop, and the bound on instructions, which
is the source's loop bound, excludes that.

`StuckBehindKernel` and `DeletedEverywhere` assume weak fairness of every thread that
is inside a call, and nothing of one that is not: a program need not call. Again
no mutex is taken to be fair; with finitely many calls every mutex that is
released in the end stays free. `SearchEnds` assumes that the loop, which is
sequential code, runs on.

## What is proved

TLAPS checks the theorems for every value of the constants, from the named
assumptions of the modules: sizes are positive (`SizeAssumption`), null and wild
are not ordinary values (`SentinelAssumption`), segment sizes are natural numbers
and the image has a value for every page (`InputAssumption`), the test program's
segments fit (`ProgramAssumption`), and those of the small models. One hypothesis
comes on top, in `ClosedFormCorrect` and `GrantCorrect`: `SizesFit`, that the size
asked for fits the signed counter; `MCHugeSegment` shows that they need it.

* `TypeCorrect`: `Spec => []TypeOK`. `TypeOK` is not inductive: `deleteSegment`
  and `getPhysicalAddress` pass on whatever `block` holds, and that it is a
  frame needs `BlocksAssigned`: every initialised entry, but for the one being
  filled, has a frame, and only initialised entries have a number of pages.
  `TypeInv` is the conjunction. The proof has one lemma per group of actions;
  `GetFreeFrameType` states what `getFreeFrame` preserves and is used by both
  callers, `AddedPage` what the filling of a page does to the descriptors.
* `VictimAlwaysReal`: `Spec => []VictimIsReal`. Inductive given `TypeInv`; the
  two operators that touch the frame table or the queue are lemmas
  (`GetFreeFrameVictim`, `FreePMTEntryVictim`), all other actions leave both.
* `SerialResidencyInv`: `SerialSpec => []ResidencyInv`. That a valid page is in its
  frame alone is not inductive. `ResidencyInv` adds that calls do not overlap, that the frame of a page in transit is already registered for
  it, and that the page being faulted in is invalid. Then `getFreeFrame`
  invalidates the only page that could still be valid in the frame it hands
  out (`GetFreeFrameResident`, `FrameTaken`), and the fill or validation that
  follows puts the new page there.
* The second half of `SystemTestProofs` is about every program that deletes
  nothing, however its calls
  and instructions interleave (`GrowingNext`); the serial program and the test
  program are both such programs (`SerialGrows`, `MainGrows`). `GrowingInv` is
  its inductive invariant next to `TypeInv`: the queue has no frame twice and
  exactly the frames in use; what is initialised has a table and an owner that
  is not coming back; the pages a segment call has still to add are free
  (otherwise a page could be given a second frame); the frame of a page is
  registered once, and a registered page is valid or being faulted in; a page is
  out of memory only when all frames are taken. `GrowingStep` also shows that
  every step is a step of `FifoReplacement` or none: `getFreeFrame` either adds
  the page at the end or takes the first out, and the page it adds was not there.
* `MainTypeCorrect`, `MainQueuedOnce`, `MainNeverPagedOutEarly`,
  `MainReplacesOldest`: the same for `MainSpec`, any number of processes,
  segments, instructions, frames and clusters. That the program's segments lie
  in the address space (`SegmentsFit`) is arithmetic on `ProgramAssumption`.
* `SerialInvariant`: `SerialSpec => []SerialInv`. `SerialInv` is `TypeInv`,
  `VictimIsReal`, `ResidencyInv`, `GrowingInv` and, about contents, `MemoryInv`:
  `InstructionInv` (what an answered access guarantees up to the memory
  reference), `DiskInv` (a cluster is taken exactly while an invalid page names
  it, and no two name one), `LoadInv` (the tables a load meets were opened by the
  same load, so the source address goes to the right entry) and `ContentsInv`
  (what was last written is where the flags say, and a page that is not dirty
  has it at its source as well: that is why a clean victim may be dropped).
  From it follow `SerialClustersOwned`, `SerialNothingLost`,
  `SerialFaultServedOnce`, `SerialReplacesOldest`; `SerialCodeIsAsLoaded`, with
  `CodeInv`: the program never writes to a page mapped EXECUTE, so what it last
  gave the page is its image, and `ContentsInv` does the rest;
  `SerialDiskFullIsReal` by an injection of frames and clusters into the pages
  they hold (`EverywhereFull`); and the refinement `SerialActsAsMemory`:
  `SerialSpec` implements `PagedMemory` (`MemoryStart`, `MemoryStep`).
* `CloneTypeCorrect`, `CloneVictimReal`: `CloneInv` adds to `TypeInv` that a
  clone call runs alone, that its loop over the directory has not ended while
  there are entries to copy, and that the entry it copies is still initialised
  although the copy of its frame may push out other pages: only then is the
  frame that is read from `block` one. `CloneTypeCorrect` is about the tables and
  entries copied; that the index may leave the directory, and exactly how far it is
  ahead, is `CloneIndex`: `CountInv` follows the gaps (`Gaps`) through the inner
  loop.
* `LastCloneIsCopy`. Until the clone begins the program is a serial
  one and has `SerialInv`; from then on `CopyInv` follows the loop page by page.
  `ClonePosition` is the page it has come to: the tables being full, the two
  indexes that the code steps apart stay together (`TableInv`). The pages passed
  have their parent's contents (`CopiesInv`), which the replacements of the call's
  own `getFreeFrame` could undo in two ways. A frame of the clone is registered
  for the parent's page, so replacing it would put out the wrong page and leave
  the clone's valid; that is why its frames must be the last in the queue
  (`ClaimedLast`) and the frame of the page being copied before all of them. And a
  page may be put out between `getFreeFrame` and the copy, the one being copied
  included: then its frame is read after it has gone, which is right only because
  its contents are still there (`ClaimInv`: it is the clone that got the frame). `CloneDiskInv` keeps the clusters of both apart,
  `OthersContents` says that nobody else loses anything. After the call nothing of
  this is stable: `MCCloneRegistered` shows what the next replacement does. So the
  theorem is about the last process.
* `SharedTypeCorrect`, `DeleteTypeCorrect`, `SharedVictimReal`. `SharedInv` is
  inductive for every program. It says how far each call has come: a creation
  has its pages up to `Reached`; an attaching call has not gone further in the
  creator's tables than the creator's segment goes (`AttachInv`; the page and
  the index of the entry move apart where the index wraps late, so this is an
  inequality and the lemma `DirReached` turns it into a table there is); those
  who are to remove a segment list it. Next to it stands what the two kinds of
  program have: `HeadsMapped`, the first page of a known segment is there as
  long as its creator is, so that a removal finds a number of pages and a frame.
* `ListsAlwaysAgree`: `ListsInv` follows names and first pages through the calls.
  `NamesInv`: no list has a name twice, and what a process lists the kernel
  knows, with creator and address, or the process has still to delete it.
  `FirstPagesInv`: no two segments in a list begin at one address, and the page
  there is mapped, unless it has just been freed and the record is struck off
  next. `AddingInv` and `TakingInv` say what is new about a segment that is
  being added, and who still has one that is being removed.
* `RemovalReachesAll`: `DeleteSpec => HeadRemovedEverywhere`. That lists are
  cleared follows from `ListsInv`; that pages are needs that whoever has the
  first page of a segment is among those the kernel calls, although the kernel
  goes by the lists. `HomesInv` relates the two through `home`, the history of
  whose page an attached page is: an attached page stays at the creator's
  address (`HomeAddress`); the creator has all pages of a known segment, and
  nothing of somebody else's begins among them (`KnownPages`, `AddedPages`);
  whoever lists a segment has its first page from the creator (`ListedHome`);
  the page an attached one is the same as is the creator's own (`HomesKept`);
  whoever has the first page lists the segment (`HeadsListed`), and, once it is
  being removed everywhere, is still to be called (`HeadsGoing`).
* `SharedStaysShared`: `SharedSpec => SharedUntilPaged`. `AlikeInv` says what a page
  and its home have in common: the home is there as long as somebody is attached
  to it (`HomesThere`), only a creation has pages that are claimed and not filled
  (`OnlyCreated`) - such a page has another page's `block`, and nobody may have
  copied that - and the page a fault brings in is out of memory until it is there (`OutInv`). The creator
  has every page of a known segment (`AllThere`), and the entry an attaching call
  reads is that of the page it is to be the same as (`AtSource`, `SourceIsHome`), in
  all the ways the two loops step the index within the creator's first table. That
  other steps change neither of two entries unless they page one is `EntriesStay`
  and `NoneBroughtIn`.
* `SharedSegmentLocksProofs`, for any number of threads and every interleaving of
  creations, attachments and removals. `LocksTypeCorrect` needs that a removal
  deletes pages of others only while there are any left to ask. `LocksHeld`:
  `OwnerInv`, who owns a mutex is exactly who stands between taking it and giving
  it back. `WaitsOnlyAtKernel` follows: who waits for a thread that is not in the
  kernel would have to wait for a mutex that only its own process's thread or a
  removal takes. `LocksOneSegmentPerCreator`: what a thread has found of its own
  process in the kernel's list is still so when it inserts, since only this
  thread enters records of its process (`CreatorInv`).
* `SegmentSearchProofs`: `SearchTypeCorrect` and `Inside` for every size, also one
  the conversion to a signed counter changes; `ClosedFormCorrect` and
  `GrantCorrect` for those it leaves. The
  invariant of the loop says that all pages passed so far are free and that the
  pages passed and the counter add up to the size.
* `FirstFitProofs`: `TypeCorrect`, `TablesApart`, `NoFragments`, `NullIsReal`. That
  free space is one chunk that starts where the last table ends is what is
  inductive; the rest follows.
* `ProcessTestProofs`: `TypeCorrect`, `CopyCorrect`, `ExpectationCorrect`,
  `AbortCorrect`. The invariant relates the copy to memory through what is left
  of the batch: the copy at an address is what the last store to it that is
  still to come will put there, or what memory has.

That `ValidIsResident` does not hold for `ApiSpec` is what `MCDeletePagedOut`
shows; that the serial discipline is needed for `ResidencyInv` and `NothingLost`
is what `main_retry` and `MCMainContents` show; that a load must come first in
its process, for `LoadInv`, what `MCLoadSegment` shows.

`RemovalReachesAll` and `ListsAlwaysAgree` are about `DeleteSpec`, where a segment
is attached at its creator's address: elsewhere the program ends on removal
(`MCSharedStart`).

That an attached page is where the creator's is at all times does not hold of
`SharedSpec`, and `SharedUntilPaged` says less for that reason: in `MCSharedEvicted`
a page is replaced, in `MCSharedTables` an attaching call reads behind the creator's
first table, and each ends in a counterexample.

Nor does what one would like of concurrent calls: a name is one segment
(`MCLocksTwoCreators`), who lists a segment can look it up (`MCLocksTwice`), every
removal ends (`locks_deadlock`).

Every invariant and every action property of a passing run is stated by a theorem.
Only model-checked are `Terminates`, `StuckBehindKernel` and `SearchEnds`, liveness under
fairness, which is out of this prover's reach.

## What is not modelled

* `TRAP` for an address that is not page-aligned, in the segment calls: it
  changes no state.
* Cloning: the copy of the parent's list of shared segments
  (KernelProcess.cpp:535-537), and concurrent calls: `cloneProcess` takes no
  mutex of the list it changes, and a list that is changed while it is walked
  has no outcome a model could state.
* Shared segments: the counter in a record, which nobody reads; clones that
  share; concurrent calls with their pages (`SharedSegmentLocks` has concurrency,
  `SharedSegments` pages). No program in the repository clones or shares.
* `periodicJob` returns at once; its merging of chunks never runs.
* The heap: `pageFault` allocates a buffer it never frees (422). That a process
  which is destroyed gives back neither frames nor clusters is in the model,
  without a property.
* Partition failures: no caller looks at the results of `readCluster` and
  `writeCluster`. The partition itself is an external library.
* Facades, the stream operators, the early test program, and the arithmetic of
  the random numbers.

## Next

A common model of `SharedSegments` and `SharedSegmentLocks`: pages of segments that
are attached and removed by threads at the same time.
