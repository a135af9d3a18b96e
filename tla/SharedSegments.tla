--------------------------- MODULE SharedSegments ---------------------------
(***************************************************************************)
(* Shared segments: createSharedSegment, disconnectSharedSegment and       *)
(* deleteSharedSegment of KernelProcess with the list the kernel keeps.    *)
(* The first process to create a name gets pages of its own and is the     *)
(* segment's creator; the others copy its page descriptors.  Programs call *)
(* one at a time and execute instructions in between.  (Concurrent calls   *)
(* are the subject of SharedSegmentLocks.)                                 *)
(***************************************************************************)
EXTENDS SystemTest, SequencesExt

CONSTANT Names  \* names of shared segments, compared as pointers

VARIABLES
  listOfSharedSegments, \* process -> the records of its list
  systemSegments,       \* KernelSystem::listOfSharedSegments
  carved,               \* what firstFit gave out, one behind the other in
                        \* pmtSpace: a page table as <<process, directory
                        \* entry>>, all there is between tables as <<>>
  sharing,              \* the shared-segment call in progress, or Idle
  home                  \* history: the creator's page an attached page is to
                        \* be the same as, or nullptr

sharedVars == <<listOfSharedSegments, systemSegments, carved, sharing, home>>
allVars == <<vars, sharedVars>>

SharedSegment ==
  [name: Names, start: Pages, size: Nat \ {0}, flags: AccessType,
   pid: Processes]

CreateCall == [pc: {"create"}, p: Processes, record: SharedSegment]

\* The page to be mapped, how many are left, whether its table was opened by
\* this call; the table pointer pmt_ss, the creator's directory entry and the
\* index in the creator's table.
AttachCall ==
  [pc: {"attach", "publish"}, p: Processes, record: SharedSegment,
   page: Pages, left: Nat, asked: Nat \ {0}, fresh: BOOLEAN, table: Dirs,
   dir: Nat, entry: Nat]

\* The processes that still have to delete the segment.
RemoveCall ==
  [pc: {"remove", "removing"}, p: Processes, record: SharedSegment,
   todo: SUBSET Processes, everywhere: BOOLEAN]

SharedTypeOK ==
  /\ TypeOK
  /\ listOfSharedSegments \in [Processes -> Seq(SharedSegment)]
  /\ systemSegments \in Seq(SharedSegment)
  /\ sharing \in CreateCall \union AttachCall \union RemoveCall \union {Idle}
  /\ sharing.pc = "attach" =>
       sharing.dir \in pageDirectory[sharing.record.pid]
  /\ home \in [PageDescr -> PageDescr \union {nullptr}]
  /\ carved \in Seq((Processes \X Dirs) \union {<<>>})

SharedInit ==
  /\ Init
  /\ listOfSharedSegments = [p \in Processes |-> <<>>]
  /\ systemSegments = <<>>
  /\ carved = <<>>
  /\ sharing = Idle
  /\ home = [pd \in PageDescr |-> nullptr]

\* Searching a list by name: the first record that has it.
Listed(list, name) == \E i \in DOMAIN list : list[i].name = name
Position(list, name) ==
  SelectInSeq(list, LAMBDA record : record.name = name)
Named(list, name) == list[Position(list, name)]
Without(list, name) == RemoveAt(list, Position(list, name))

getSharedSegment(name) == Named(systemSegments, name)

\* The page table a step opens, if any, is carved off next.
CarveTable ==
  carved' = carved \o SetToSeq(
    {table \in Processes \X Dirs :
       table[2] \in pageDirectory'[table[1]] \ pageDirectory[table[1]]})

CarveOther ==
  carved' = IF carved # <<>> /\ Last(carved) = <<>> THEN carved
            ELSE Append(carved, <<>>)

SharedQuiet == exited = "no" /\ Quiet /\ sharing = Idle

-----------------------------------------------------------------------------
(* createSharedSegment: the name is new *)

NewShared(p, page, size, name, flags) ==
  /\ SharedQuiet
  /\ ~Listed(systemSegments, name)
  /\ \/ /\ createSegment(p, page, size, flags)
        /\ sharing' = [pc |-> "create", p |-> p,
                       record |-> [name |-> name, start |-> page,
                                   size |-> size, flags |-> flags, pid |-> p]]
     \/ RefuseSegment(p, page, size) /\ UNCHANGED sharing
  /\ UNCHANGED <<testVars, listOfSharedSegments, systemSegments, carved, home>>

\* The creator's pages.
PagesOf(record) ==
  {record.pid} \X (record.start .. record.start + record.size - 1)

\* Mutant of Publish: the kernel is not told.
PublishNot ==
  /\ exited = "no"
  /\ sharing.pc \in {"create", "publish"}
  /\ segment = Idle
  /\ listOfSharedSegments' =
       [listOfSharedSegments EXCEPT ![sharing.p] = Append(@, sharing.record)]
  /\ sharing' = Idle
  /\ CarveOther
  /\ UNCHANGED <<vars, home, systemSegments>>

\* The pages are there: the record goes to the process's list, that of a new
\* segment also to the kernel's.
Publish ==
  /\ exited = "no"
  /\ sharing.pc \in {"create", "publish"}
  /\ segment = Idle
  /\ listOfSharedSegments' =
       [listOfSharedSegments EXCEPT ![sharing.p] = Append(@, sharing.record)]
  /\ systemSegments' = IF sharing.pc = "create"
                       THEN Append(systemSegments, sharing.record)
                       ELSE systemSegments
  /\ home' = IF sharing.pc = "create"
             THEN [pd \in PageDescr |->
                     IF pd \in PagesOf(sharing.record) THEN nullptr
                     ELSE home[pd]]
             ELSE home
  /\ CarveOther
  /\ sharing' = Idle
  /\ UNCHANGED vars

-----------------------------------------------------------------------------
(* createSharedSegment: the name is known *)

Attach(p, page, size, name, flags) ==
  LET gss     == getSharedSegment(name)
      minSize == IF size > gss.size THEN gss.size ELSE size
  IN  /\ SharedQuiet
      /\ p \in listOfProcesses
      /\ Listed(systemSegments, name)
      /\ \/ size = 0 /\ Exit("empty segment") /\ UNCHANGED sharing
         \/ /\ size > 0 /\ flags # gss.flags
            /\ Exit("other rights") /\ UNCHANGED sharing
         \/ /\ size > 0 /\ flags = gss.flags /\ ~canAllocate(p, page, minSize)
            /\ Exit("no space") /\ UNCHANGED sharing
         \/ /\ size > 0 /\ flags = gss.flags /\ canAllocate(p, page, minSize)
            /\ gss.pid \notin listOfProcesses
            /\ Exit("no owner") /\ UNCHANGED sharing
         \/ /\ size > 0 /\ flags = gss.flags /\ canAllocate(p, page, minSize)
            /\ gss.pid \in listOfProcesses
            /\ sharing' = [pc |-> "attach", p |-> p,
                           record |-> [gss EXCEPT !.size = minSize],
                           page |-> page, left |-> minSize, asked |-> size,
                           fresh |-> FALSE, table |-> 0,
                           dir |-> DirOf(gss.start),
                           entry |-> EntryOf(gss.start)]
            /\ UNCHANGED kernelVars
      /\ UNCHANGED <<callVars, testVars, listOfSharedSegments, systemSegments,
                     carved, home>>

\* In a table the call opens, pmt_ss is the creator's table the loop started
\* with; in one that was there it is looked up again for every page.
InFresh ==
  \/ ~HasTable(Descr(sharing))
  \/ sharing.fresh /\ EntryOf(sharing.page) # 0

SourceTable ==
  IF InFresh /\ HasTable(Descr(sharing)) THEN sharing.table ELSE sharing.dir

\* What lies behind a page table in pmtSpace, an empty tuple for no table.
Behind(table) ==
  LET i == SelectInSeq(carved, LAMBDA object : object = table)
  IN  IF i < Len(carved) THEN carved[i + 1] ELSE <<>>

\* What pmt_ss[tempCurrentPage_ss] is.  The index may reach MAX_PMT_ENTRIES and
\* more; what is no table is then taken for an entry nobody has initialised.
SourceEntry ==
  LET inside == sharing.entry < MAX_PMT_ENTRIES
      own    == <<sharing.record.pid, SourceTable>>
      table  == IF inside THEN own ELSE Behind(own)
      entry  == IF inside THEN sharing.entry ELSE sharing.entry - MAX_PMT_ENTRIES
  IN  IF table = <<>> \/ entry >= MAX_PMT_ENTRIES THEN FreshEntry
      ELSE pmt[<<table[1], table[2] * MAX_PMT_ENTRIES + entry>>]

\* Mutant of Wraps: the index wraps one entry early.
WrapsEarly == sharing.entry + 2 = MAX_PMT_ENTRIES

\* The creator's index goes back to 0.  In a table the call has opened, the
\* index is compared with the table's size before it is stepped, else after.
Wraps ==
  IF InFresh THEN sharing.entry = MAX_PMT_ENTRIES
  ELSE sharing.entry + 1 = MAX_PMT_ENTRIES

\* Mutant of NextSource: the creator's index is not stepped.
NextSourceNot == <<sharing.dir, sharing.entry>>

NextSource ==
  IF Wraps THEN <<sharing.dir + 1, 0>> ELSE <<sharing.dir, sharing.entry + 1>>

Advance ==
  sharing' = [sharing EXCEPT
    !.pc = IF sharing.left = 1 THEN "publish" ELSE "attach",
    !.page = @ + 1, !.left = @ - 1,
    !.fresh = InFresh, !.table = SourceTable,
    !.dir = NextSource[1], !.entry = NextSource[2]]

\* One page: "dirty" is copied in a table that was there, "disk" never is.
AttachPage ==
  LET pd     == Descr(sharing)
      source == SourceEntry
      head   == sharing.left = sharing.record.size
      done   == sharing.record.size - sharing.left
  IN  /\ exited = "no"
      /\ sharing.pc = "attach"
      /\ pageDirectory' =
           [pageDirectory EXCEPT ![sharing.p] = @ \union {DirOf(sharing.page)}]
      /\ pmt' = [pmt EXCEPT ![pd] =
           [@ EXCEPT !.init = source.init,
                     !.valid = source.valid,
                     !.dirty = IF InFresh THEN pmt[pd].dirty ELSE source.dirty,
                     !.block = source.block,
                     !.rwe = source.rwe,
                     !.sourceAddress = source.sourceAddress,
                     !.numOfPages =
                       IF head THEN sharing.asked ELSE pmt[pd].numOfPages]]
      /\ home' = [home EXCEPT ![pd] =
                    <<sharing.record.pid, sharing.record.start + done>>]
      /\ CarveTable
      /\ Advance
      /\ UNCHANGED <<pmtTable, fifoQueue, diskTable, memory, partition,
                     listOfProcesses, PID, exited, callVars, testVars,
                     listOfSharedSegments, systemSegments>>

-----------------------------------------------------------------------------
(* disconnectSharedSegment and deleteSharedSegment *)

\* The processes of a removal delete the segment one after the other, in the
\* order of the kernel's list, the caller last.  Bound: as for deleteSegment.
Removal(p, name, others, everywhere) ==
  /\ Len(fifoQueue) + Cardinality(FreeFrames) + Cardinality(others) < MaxQueue
  /\ sharing' = [pc |-> "remove", p |-> p,
                 record |-> Named(listOfSharedSegments[p], name),
                 todo |-> others \union {p}, everywhere |-> everywhere]

\* Mutant of Others: the kernel stops after the first process.
OthersFirst(p, name) ==
  LET others == {q \in listOfProcesses \ {p} :
                   Listed(listOfSharedSegments[q], name)}
  IN  {q \in others : \A r \in others : q <= r}

\* Whom KernelSystem::deleteSharedSegment calls, as far as it does anything.
Others(p, name) ==
  {q \in listOfProcesses \ {p} : Listed(listOfSharedSegments[q], name)}

DisconnectShared(p, name) ==
  /\ SharedQuiet
  /\ p \in listOfProcesses
  /\ Listed(listOfSharedSegments[p], name)
  /\ \/ /\ Listed(systemSegments, name)
        /\ getSharedSegment(name).pid = p
        /\ Removal(p, name, Others(p, name), TRUE)
        /\ systemSegments' = Without(systemSegments, name)
        /\ UNCHANGED kernelVars
     \/ /\ Listed(systemSegments, name)
        /\ getSharedSegment(name).pid # p
        /\ Removal(p, name, {}, FALSE)
        /\ UNCHANGED <<kernelVars, systemSegments>>
  /\ UNCHANGED <<callVars, testVars, listOfSharedSegments,
                 carved, home>>

\* A record is left of a segment the kernel no longer knows.
DisconnectUnknown(p, name) ==
  /\ SharedQuiet
  /\ p \in listOfProcesses
  /\ Listed(listOfSharedSegments[p], name)
  /\ ~Listed(systemSegments, name)
  /\ Exit("not shared")
  /\ UNCHANGED <<callVars, testVars, sharedVars>>

DeleteShared(p, name) ==
  /\ SharedQuiet
  /\ p \in listOfProcesses
  /\ Listed(listOfSharedSegments[p], name)
  /\ \/ /\ Listed(systemSegments, name)
        /\ Removal(p, name, Others(p, name), TRUE)
        /\ systemSegments' = Without(systemSegments, name)
     \/ /\ ~Listed(systemSegments, name)
        /\ Removal(p, name, {}, FALSE)
        /\ UNCHANGED systemSegments
  /\ UNCHANGED <<kernelVars, callVars, testVars, listOfSharedSegments,
                 carved, home>>

Turn ==
  LET others == sharing.todo \ {sharing.p}
  IN  IF others = {} THEN sharing.p ELSE Min(others)

\* A process deletes the segment at the start address its record has.
DeletePages ==
  /\ sharing.pc = "remove"
  /\ LET start == Named(listOfSharedSegments[Turn], sharing.record.name).start
     IN  \/ /\ deleteSegment(Turn, start)
            /\ sharing' = [sharing EXCEPT !.pc = "removing"]
         \/ RefuseDelete(Turn, start) /\ UNCHANGED sharing
  /\ UNCHANGED <<testVars, listOfSharedSegments, systemSegments,
                 carved, home>>

Unlist ==
  /\ exited = "no"
  /\ sharing.pc = "removing"
  /\ segment = Idle
  /\ listOfSharedSegments' =
       [listOfSharedSegments EXCEPT ![Turn] = Without(@, sharing.record.name)]
  /\ sharing' = IF sharing.todo = {Turn} THEN Idle
                ELSE [sharing EXCEPT !.pc = "remove", !.todo = @ \ {Turn}]
  /\ UNCHANGED <<vars, systemSegments, carved, home>>

-----------------------------------------------------------------------------
(* Specifications *)

CreateShared(p, page, size, name, flags) ==
  \/ NewShared(p, page, size, name, flags)
  \/ Attach(p, page, size, name, flags)

SharedStep ==
  \/ Publish
  \/ AttachPage
  \/ DeletePages
  \/ Unlist
  \/ SegmentStep /\ CarveTable
     /\ UNCHANGED <<listOfSharedSegments, systemSegments, sharing, home>>
  \/ (InstructionStep \/ Over) /\ UNCHANGED sharedVars

\* The programs: processes come and go, share segments and touch the pages
\* they have.  (Other accesses end the program, as SystemTest shows.)
Touch(p, page) ==
  /\ Mapped(<<p, page>>)
  /\ \/ Begin(p, page, "READ", Junk)
     \/ \E val \in Values : Begin(p, page, "WRITE", val)

Programs ==
  /\ SharedQuiet
  /\ \/ CreateProcess /\ CarveOther
     \/ \E p \in Processes : DestroyProcess(p) /\ UNCHANGED carved
     \/ \E p \in listOfProcesses, page \in Pages :
          Touch(p, page) /\ UNCHANGED carved
  /\ UNCHANGED <<listOfSharedSegments, systemSegments, sharing, home>>

AnyCreateShared ==
  \E p \in Processes, page \in Pages, size \in SegmentSizes, name \in Names,
     flags \in {"EXECUTE", "READ_WRITE"} :
    CreateShared(p, page, size, name, flags)

\* Segments are shared for good.
SharedNext == Programs \/ AnyCreateShared \/ SharedStep

SharedSpec == SharedInit /\ [][SharedNext]_allVars

\* Segments are shared and deleted; they are mapped at one address everywhere.
SameAddress ==
  \E p \in Processes, page \in Pages, size \in SegmentSizes, name \in Names :
    /\ Listed(systemSegments, name) => page = getSharedSegment(name).start
    /\ CreateShared(p, page, size, name, "READ_WRITE")

AnyDelete ==
  \E p \in Processes, name \in Names :
    DisconnectShared(p, name) \/ DeleteShared(p, name)

DeleteNext == Programs \/ SameAddress \/ AnyDelete \/ SharedStep

DeleteSpec == SharedInit /\ [][DeleteNext]_allVars

\* The whole interface.
SharedApiNext ==
  \/ SharedNext
  \/ AnyDelete
  \/ \E p \in Processes, name \in Names : DisconnectUnknown(p, name)

SharedApiSpec == SharedInit /\ [][SharedApiNext]_allVars

-----------------------------------------------------------------------------
\* Two pages in one place: both are there, with the same rights, and they are
\* in the same frame or both out of memory.
InOnePlace(pd, other) ==
  /\ Mapped(pd) /\ Mapped(other)
  /\ pmt[pd].rwe = pmt[other].rwe
  /\ pmt[pd].valid = pmt[other].valid
  /\ pmt[pd].valid => pmt[pd].block = pmt[other].block

\* A step puts a page out or brings it in.
Paged(pd) == pmt'[pd].valid # pmt[pd].valid

\* A page of the segment that is being created.
BeingCreated(pd) == sharing.pc = "create" /\ pd \in PagesOf(sharing.record)

\* A step attaches pd, and what it should share is the creator's page "other".
AttachesTo(pd, other) ==
  LET done == sharing.record.size - sharing.left
  IN  /\ sharing.pc = "attach" /\ sharing' # sharing
      /\ pd = Descr(sharing)
      /\ other = <<sharing.record.pid, sharing.record.start + done>>

\* That page lies in the page table the creator's segment begins in.
InFirstTable ==
  EntryOf(sharing.record.start) + (sharing.record.size - sharing.left)
    < MAX_PMT_ENTRIES

\* Shared memory is shared, as far as the code sees to it: the page an attaching
\* call maps is the creator's page at the same distance from the start - as long
\* as that lies in the creator's first table, behind it the index of the creator's
\* entry is not always stepped right (KernelProcess.cpp:750-753, 779-790) - and
\* the two stay in one place, whatever is created, attached, evicted or faulted
\* in, until one of the two is itself put out or brought in, which nobody tells
\* the other.  (MCSharedTables and MCSharedEvicted show both limits.)
SharedUntilPaged ==
  [][\A pd, other \in PageDescr :
       /\ AttachesTo(pd, other) /\ InFirstTable => InOnePlace(pd, other)'
       /\ /\ home[pd] = other /\ home'[pd] = other
          /\ ~BeingCreated(pd) /\ InOnePlace(pd, other)
          => InOnePlace(pd, other)' \/ Paged(pd) \/ Paged(other)]_allVars

\* The kernel's list and those of the processes agree: a name stands for one
\* segment, its creator lists it, and whoever lists a name between two calls
\* can find the segment in the kernel's list, of the same creator.
ListsAgree ==
  sharing = Idle =>
    /\ \A i, j \in DOMAIN systemSegments :
         systemSegments[i].name = systemSegments[j].name => i = j
    /\ \A i \in DOMAIN systemSegments :
         Listed(listOfSharedSegments[systemSegments[i].pid],
                systemSegments[i].name)
    /\ \A p \in listOfProcesses :
         \A i \in DOMAIN listOfSharedSegments[p] :
           LET record == listOfSharedSegments[p][i]
           IN  /\ Listed(systemSegments, record.name)
               /\ getSharedSegment(record.name).pid = record.pid

\* When a call that deletes a segment everywhere returns, no list has it, and
\* its first page is gone from the address space of its creator and of all who
\* attached it.  (Only the first: the pages behind it stay, with their frames, as
\* deleteSegment never sets its counter from numOfPages, KernelProcess.cpp:353.)
HeadRemovedEverywhere ==
  [][sharing.pc = "removing" /\ sharing.everywhere /\ sharing' = Idle =>
       LET record == sharing.record
           head   == <<record.pid, record.start>>
       IN  \A p \in listOfProcesses :
             /\ ~Listed(listOfSharedSegments'[p], record.name)
             /\ \A page \in Pages :
                  LET pd == <<p, page>>
                  IN  pd = head \/ home[pd] = head =>
                        ~(HasTable(pd)' /\ pmt'[pd].init)]_allVars

-----------------------------------------------------------------------------
(* What does not hold *)

\* Shared memory is shared: between two calls an attached page is where the
\* creator's page is, with its rights, and not longer than the creator has it.
\* (It ends with the first page put out, and behind the creator's first table it
\* never begins.)
MappedAlike ==
  sharing = Idle =>
    \A pd \in {x \in PageDescr : home[x] # nullptr} :
      {pd[1], home[pd][1]} \subseteq listOfProcesses /\ Mapped(pd) =>
        /\ Mapped(home[pd])
        /\ pmt[pd].valid = pmt[home[pd]].valid
        /\ pmt[pd].valid => pmt[pd].block = pmt[home[pd]].block
        /\ pmt[pd].rwe = pmt[home[pd]].rwe

\* What comments of the source say and the code does not do.  Disconnecting takes
\* nothing from the others: the creator's pages that are in memory keep their
\* frames (KernelProcess.cpp:986, "Otherwise just disconnect").
CreatorKeepsFrames ==
  \A i \in DOMAIN systemSegments :
    LET record == systemSegments[i]
        pd     == <<record.pid, record.start>>
    IN  Mapped(pd) /\ pmt[pd].valid => HeldBy(pmt[pd].block, pd)

\* A segment that was attached can be deleted from the process's own tables
\* (KernelProcess.cpp:988, "Delete segment from descriptors in table").
RemovalFindsSegment ==
  exited \notin {"segment not found", "not the head"}
=============================================================================
