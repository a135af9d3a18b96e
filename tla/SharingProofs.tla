---------------------------- MODULE SharingProofs ----------------------------
(***************************************************************************)
(* Proofs about the shared-segment calls (SharedSpec and DeleteSpec of     *)
(* SharedSegments), for every value of the constants.  The invariants are  *)
(* SharedInv, ListsInv, HomesInv (a removal reaches all who attached) and  *)
(* AlikeInv (an attached page of the creator's first table is where the    *)
(* creator's is).                                                          *)
(***************************************************************************)
EXTENDS SharedSegments, SystemTestProofs

-----------------------------------------------------------------------------
(* Shared segments: lists of records, searched by name *)

\* Some process is the least of those that remain.
LEMMA MinOfNaturals ==
  ASSUME NEW S, S \subseteq Nat, S # {}
  PROVE  Min(S) \in S
  <1> DEFINE Less == {ss \in Nat \X Nat : ss[1] < ss[2]}
  <1>1. IsWellFoundedOn(Less, Nat)
    BY NatLessThanWellFounded DEF OpToRel
  <1>2. PICK x \in S : \A y \in S : <<y, x>> \notin Less
    <2> HIDE DEF Less
    <2> QED
      BY <1>1, WFMin
  <1>3. ASSUME NEW y \in S PROVE x <= y
    <2>1. <<y, x>> \in Nat \X Nat /\ ~(y < x)
      BY <1>2
    <2> QED
      BY <2>1
  <1> QED
    BY <1>3 DEF Min

\* No name is in a list twice.
Once(list) ==
  \A i, j \in DOMAIN list : list[i].name = list[j].name => i = j

\* Listed in terms of the records.
LEMMA ListedRecord ==
  ASSUME NEW list, NEW name
  PROVE  Listed(list, name) <=> \E record \in ToSet(list) : record.name = name
  BY DEF Listed, ToSet

\* The search finds a record of that name.
LEMMA PositionFound ==
  ASSUME NEW list \in Seq(SharedSegment), NEW name, Listed(list, name)
  PROVE  /\ Position(list, name) \in DOMAIN list
         /\ Position(list, name) \in 1 .. Len(list)
         /\ list[Position(list, name)].name = name
  <1> DEFINE I == {i \in 1 .. Len(list) : list[i].name = name}
  <1>1. I \subseteq Nat /\ I # {}
    BY DEF Listed
  <1>2. Min(I) \in I
    <2> HIDE DEF I
    <2> QED
      BY <1>1, MinOfNaturals
  <1>3. Position(list, name) = Min(I)
    BY <1>1 DEF Position, SelectInSeq
  <1> QED
    BY <1>2, <1>3

\* The record that is found by a listed name is in the list and has the name.
LEMMA NamedRecord ==
  ASSUME NEW list \in Seq(SharedSegment), NEW name, Listed(list, name)
  PROVE  /\ Named(list, name) \in ToSet(list)
         /\ Named(list, name) \in SharedSegment
         /\ Named(list, name).name = name
  BY PositionFound DEF Named, ToSet

\* Adding a record whose name is new.
LEMMA AppendedRecord ==
  ASSUME NEW list \in Seq(SharedSegment), NEW record \in SharedSegment
  PROVE  /\ Append(list, record) \in Seq(SharedSegment)
         /\ ToSet(Append(list, record)) = ToSet(list) \union {record}
         /\ Once(list) /\ ~Listed(list, record.name) =>
              Once(Append(list, record))
  <1> DEFINE longer == Append(list, record)
  <1>1. /\ longer \in Seq(SharedSegment)
        /\ Len(list) \in Nat /\ DOMAIN list = 1 .. Len(list)
        /\ DOMAIN longer = 1 .. Len(list) + 1
        /\ \A i \in 1 .. Len(list) : longer[i] = list[i]
        /\ longer[Len(list) + 1] = record
    OBVIOUS
  <1> HIDE DEF longer
  <1>2. ToSet(longer) = ToSet(list) \union {record}
    <2>1. ASSUME NEW x \in ToSet(longer)
          PROVE  x \in ToSet(list) \union {record}
      <3>1. PICK i \in 1 .. Len(list) + 1 : x = longer[i]
        BY <1>1, <2>1 DEF ToSet
      <3>2. i \in 1 .. Len(list) \/ i = Len(list) + 1
        BY <1>1
      <3> QED
        BY <1>1, <3>1, <3>2 DEF ToSet
    <2>2. ASSUME NEW x \in ToSet(list)
          PROVE  x \in ToSet(longer)
      <3>1. PICK i \in 1 .. Len(list) : x = list[i]
        BY <1>1, <2>2 DEF ToSet
      <3>2. i \in 1 .. Len(list) + 1
        BY <1>1
      <3> QED
        BY <1>1, <3>1, <3>2 DEF ToSet
    <2>3. record \in ToSet(longer)
      <3>1. Len(list) + 1 \in 1 .. Len(list) + 1
        BY <1>1
      <3> QED
        BY <1>1, <3>1 DEF ToSet
    <2> QED
      BY <2>1, <2>2, <2>3
  <1>3. ASSUME Once(list), ~Listed(list, record.name)
        PROVE  Once(longer)
    <2>1. \A i \in DOMAIN longer : i \in 1 .. Len(list) \/ i = Len(list) + 1
      BY <1>1
    <2>2. \A i \in 1 .. Len(list) : list[i].name # record.name
      BY <1>1, <1>3 DEF Listed
    <2> QED
      BY <1>1, <1>3, <2>1, <2>2 DEF Once
  <1> QED
    BY <1>1, <1>2, <1>3 DEF longer

\* Removing what is at one place of a list.
LEMMA RemovedPlace ==
  ASSUME NEW S, NEW s \in Seq(S), NEW k \in 1 .. Len(s),
         NEW r, r = RemoveAt(s, k)
  PROVE  /\ r \in Seq(S) /\ DOMAIN r = 1 .. Len(s) - 1
         /\ DOMAIN s = 1 .. Len(s) /\ Len(s) \in Nat
         /\ \A i \in 1 .. Len(s) - 1 : r[i] = IF i < k THEN s[i] ELSE s[i + 1]
  <1> DEFINE front == SubSeq(s, 1, k - 1)
             back  == SubSeq(s, k + 1, Len(s))
  <1>1. r = front \o back
    BY DEF RemoveAt
  <1>2. /\ front \in Seq(S) /\ Len(front) = k - 1
        /\ \A i \in 1 .. k - 1 : front[i] = s[i]
        /\ back \in Seq(S) /\ Len(back) = Len(s) - k
        /\ \A i \in 1 .. Len(s) - k : back[i] = s[k + i]
    OBVIOUS
  <1> HIDE DEF front, back
  <1>3. r \in Seq(S) /\ Len(r) = Len(front) + Len(back)
    BY ZenonT(40), <1>1, <1>2, ConcatProperties
  <1>4. \A i \in 1 .. Len(front) + Len(back) :
          r[i] = IF i <= Len(front) THEN front[i] ELSE back[i - Len(front)]
    BY <1>1, <1>2, ConcatProperties
  <1>5. /\ Len(r) = Len(s) - 1 /\ DOMAIN r = 1 .. Len(s) - 1
        /\ DOMAIN s = 1 .. Len(s) /\ Len(s) \in Nat
    BY <1>2, <1>3
  <1>6. ASSUME NEW i \in 1 .. Len(s) - 1
        PROVE  r[i] = IF i < k THEN s[i] ELSE s[i + 1]
    <2>1. i \in 1 .. Len(front) + Len(back) /\ (i <= Len(front) <=> i < k)
      BY <1>2
    <2>2. CASE i < k
      BY <1>2, <1>4, <2>1, <2>2
    <2>3. CASE ~(i < k)
      <3>1. i - Len(front) \in 1 .. Len(s) - k /\ k + (i - Len(front)) = i + 1
        BY <1>2, <2>3
      <3>2. back[i - Len(front)] = s[k + (i - Len(front))]
        BY <1>2, <3>1
      <3> QED
        BY <1>4, <2>1, <2>3, <3>1, <3>2
    <2> QED
      BY <2>2, <2>3
  <1> QED
    BY <1>3, <1>5, <1>6

\* Removing the record of a name.
LEMMA RemovedRecord ==
  ASSUME NEW list \in Seq(SharedSegment), NEW name, Listed(list, name)
  PROVE  /\ Without(list, name) \in Seq(SharedSegment)
         /\ ToSet(Without(list, name)) \subseteq ToSet(list)
         /\ \A record \in ToSet(list) :
              record.name # name => record \in ToSet(Without(list, name))
         /\ Once(list) => /\ Once(Without(list, name))
                          /\ ~Listed(Without(list, name), name)
  <1>1. PICK k \in 1 .. Len(list) :
          k = Position(list, name) /\ list[k].name = name
    BY PositionFound
  <1>2. PICK shorter : shorter = RemoveAt(list, k)
    OBVIOUS
  <1>3. /\ shorter \in Seq(SharedSegment) /\ DOMAIN shorter = 1 .. Len(list) - 1
        /\ DOMAIN list = 1 .. Len(list) /\ Len(list) \in Nat
        /\ \A i \in 1 .. Len(list) - 1 :
             shorter[i] = IF i < k THEN list[i] ELSE list[i + 1]
    BY <1>2, RemovedPlace
  <1>4. ToSet(shorter) \subseteq ToSet(list)
    <2>1. ASSUME NEW i \in 1 .. Len(list) - 1
          PROVE  \E j \in 1 .. Len(list) : shorter[i] = list[j]
      <3>1. i \in 1 .. Len(list) /\ i + 1 \in 1 .. Len(list)
        BY <1>3
      <3> QED
        BY <1>3, <3>1
    <2>2. ASSUME NEW x \in ToSet(shorter)
          PROVE  x \in ToSet(list)
      <3>1. PICK i \in 1 .. Len(list) - 1 : x = shorter[i]
        BY <1>3, <2>2 DEF ToSet
      <3>2. PICK j \in 1 .. Len(list) : x = list[j]
        BY <2>1, <3>1
      <3> QED
        BY <1>3, <3>2 DEF ToSet
    <2> QED
      BY <2>2
  <1>5. ASSUME NEW record \in ToSet(list), record.name # name
        PROVE  record \in ToSet(shorter)
    <2>1. PICK j \in 1 .. Len(list) : list[j] = record /\ j # k
      BY <1>1, <1>3, <1>5 DEF ToSet
    <2>2. IF j < k THEN j \in 1 .. Len(list) - 1 /\ shorter[j] = record
                   ELSE j - 1 \in 1 .. Len(list) - 1 /\ shorter[j - 1] = record
      BY <1>3, <2>1
    <2> QED
      BY <1>3, <2>2 DEF ToSet
  <1>6. ASSUME Once(list)
        PROVE  Once(shorter) /\ ~Listed(shorter, name)
    <2>1. ASSUME NEW i \in 1 .. Len(list) - 1
          PROVE  \E x \in 1 .. Len(list) :
                   /\ x = (IF i < k THEN i ELSE i + 1)
                   /\ x # k /\ shorter[i] = list[x]
      BY <1>3
    <2>2. Once(shorter)
      <3> SUFFICES ASSUME NEW i \in 1 .. Len(list) - 1,
                          NEW j \in 1 .. Len(list) - 1,
                          shorter[i].name = shorter[j].name
                   PROVE  i = j
        BY <1>3 DEF Once
      <3>1. PICK x \in 1 .. Len(list) :
              x = (IF i < k THEN i ELSE i + 1) /\ shorter[i] = list[x]
        BY <2>1
      <3>2. PICK y \in 1 .. Len(list) :
              y = (IF j < k THEN j ELSE j + 1) /\ shorter[j] = list[y]
        BY <2>1
      <3>3. x = y
        BY <1>3, <1>6, <3>1, <3>2 DEF Once
      <3> QED
        BY <1>3, <3>1, <3>2, <3>3
    <2>3. ASSUME NEW i \in 1 .. Len(list) - 1, shorter[i].name = name
          PROVE  FALSE
      <3>1. PICK x \in 1 .. Len(list) : x # k /\ shorter[i] = list[x]
        BY <2>1
      <3> QED
        BY <1>1, <1>3, <1>6, <2>3, <3>1 DEF Once
    <2> QED
      BY <1>3, <2>2, <2>3 DEF Listed
  <1>7. Without(list, name) = shorter
    BY <1>1, <1>2 DEF Without
  <1> QED
    BY <1>3, <1>4, <1>5, <1>6, <1>7

\* A finite set can be listed.
LEMMA SequenceOfSet ==
  ASSUME NEW S, IsFiniteSet(S)
  PROVE  SetToSeq(S) \in Seq(S)
  <1>1. Cardinality(S) \in Nat
    BY FS_CardinalityType
  <1>2. PICK f : f \in Bijection(1 .. Cardinality(S), S)
    BY FS_CardinalityType DEF ExistsBijection
  <1>3. f \in [1 .. Cardinality(S) -> S] /\ IsInjective(f)
    BY <1>2 DEF Bijection, Injection, IsInjective
  <1>4. SetToSeq(S) \in [1 .. Cardinality(S) -> S]
    BY <1>3 DEF SetToSeq
  <1> QED
    BY <1>1, <1>4

-----------------------------------------------------------------------------
(* The invariant of shared segments, whichever program shares them.  The     *)
(* records of known segments are of pages with tables; a creation has        *)
(* reached some page, an attaching call some page of the creator's, never    *)
(* further in the creator's tables than the creator's segment goes; and      *)
(* whoever is to remove a segment lists it.                                  *)

Known == ToSet(systemSegments)
ListOf(p) == ToSet(listOfSharedSegments[p])

SharingTyped ==
  /\ listOfSharedSegments \in [Processes -> Seq(SharedSegment)]
  /\ systemSegments \in Seq(SharedSegment)
  /\ sharing \in CreateCall \union AttachCall \union RemoveCall \union {Idle}
  /\ home \in [PageDescr -> PageDescr \union {nullptr}]
  /\ carved \in Seq((Processes \X Dirs) \union {<<>>})

AloneInv ==
  /\ sharing # Idle => instruction = Idle
  /\ segment # Idle => sharing.pc \in {"create", "removing"}
  /\ sharing.pc = "create" => segment.pc # "free"
  /\ sharing.pc = "removing" => segment.pc \in {"idle", "free"}

ListersInv ==
  /\ \A p \in Processes : listOfSharedSegments[p] # <<>> => p < PID
  /\ sharing # Idle => sharing.p < PID

HasPages(record) ==
  /\ record.pid < PID
  /\ record.start + record.size <= NumPages
  /\ \A page \in record.start .. record.start + record.size - 1 :
       HasTable(<<record.pid, page>>)

\* The page a creation has come to: those before it are there.
Reached ==
  IF segment = Idle THEN sharing.record.start + sharing.record.size
  ELSE IF segment.pc = "fill" THEN segment.page + 1
  ELSE segment.page

CreateInv ==
  sharing.pc = "create" =>
    /\ sharing.record.pid = sharing.p
    /\ sharing.p \in listOfProcesses
    /\ sharing.record.start + sharing.record.size <= NumPages
    /\ segment # Idle =>
         /\ segment.p = sharing.p
         /\ segment.page + segment.left =
              sharing.record.start + sharing.record.size
         /\ sharing.record.start <= segment.page
    /\ \A page \in sharing.record.start .. Reached - 1 :
         Mapped(<<sharing.p, page>>)

AttachInv ==
  sharing.pc = "attach" =>
    /\ HasPages(sharing.record)
    /\ sharing.left \in 1 .. sharing.record.size
    /\ sharing.page + sharing.left <= NumPages - 1
    /\ \A page \in sharing.page .. sharing.page + sharing.left - 1 :
         ~pmt[<<sharing.p, page>>].init
    /\ DirOf(sharing.record.start) <= sharing.dir
    /\ sharing.dir * MAX_PMT_ENTRIES + sharing.entry <=
         sharing.record.start + sharing.record.size - sharing.left
    /\ sharing.left = sharing.record.size =>
         /\ sharing.dir = DirOf(sharing.record.start)
         /\ sharing.entry = EntryOf(sharing.record.start)
         /\ ~sharing.fresh
         /\ pmt[<<sharing.record.pid, sharing.record.start>>].init

RemoveInv ==
  sharing.pc \in {"remove", "removing"} =>
    /\ sharing.todo # {}
    /\ \A p \in sharing.todo :
         Listed(listOfSharedSegments[p], sharing.record.name)

SharedInv ==
  /\ TypeInv
  /\ SharingTyped
  /\ TablesOpen
  /\ AloneInv
  /\ ListersInv
  /\ CreateInv
  /\ AttachInv
  /\ RemoveInv
  /\ \A record \in Known : HasPages(record)

\* The first page of a known segment is there, as long as its creator is:
\* "numOfPages" is never set in an entry that is not initialised, so
\* deleteSegment always has a frame to free.
HeadsMapped ==
  \A record \in Known :
    record.pid \in listOfProcesses => Mapped(<<record.pid, record.start>>)

\* The kinds of calls are told apart by where they are.
LEMMA SharingKinds ==
  ASSUME SharingTyped
  PROVE  /\ sharing.pc = "create" => sharing \in CreateCall
         /\ sharing.pc \in {"attach", "publish"} => sharing \in AttachCall
         /\ sharing.pc \in {"remove", "removing"} => sharing \in RemoveCall
         /\ sharing = Idle => sharing.pc = "idle"
         /\ sharing # Idle =>
              /\ sharing.pc \in {"create", "attach", "publish", "remove",
                                 "removing"}
              /\ sharing.p \in Processes /\ sharing.record \in SharedSegment
  BY DEF SharingTyped, CreateCall, AttachCall, RemoveCall, Idle

\* The same of a segment call.
LEMMA SegmentKinds ==
  ASSUME TypeInv
  PROVE  /\ segment = Idle <=> segment.pc = "idle"
         /\ segment # Idle =>
              /\ segment \in SegmentCall
              /\ segment.pc \in {"alloc", "fill", "free"}
              /\ Descr(segment) \in PageDescr
  BY DEF TypeInv, TypeOK, ProcessTypeOK, SegmentCall, Idle, Descr, PageDescr

\* A known segment's record, and what else the names in it are.
LEMMA KnownRecord ==
  ASSUME SharingTyped
  PROVE  /\ Known \subseteq SharedSegment
         /\ \A p \in Processes : ListOf(p) \subseteq SharedSegment
         /\ \A record \in SharedSegment :
              /\ record.start \in Nat /\ record.start \in Pages
              /\ record.size \in Nat \ {0}
              /\ record.pid \in Processes /\ record.pid \in Nat
              /\ <<record.pid, record.start>> \in PageDescr
              /\ record.start \in record.start .. record.start + record.size - 1
  <1>1. Known \subseteq SharedSegment
    BY DEF SharingTyped, Known, ToSet
  <1>2. \A p \in Processes : ListOf(p) \subseteq SharedSegment
    BY DEF SharingTyped, ListOf, ToSet
  <1>3. ASSUME NEW record \in SharedSegment
        PROVE  /\ record.start \in Nat /\ record.start \in Pages
               /\ record.size \in Nat \ {0}
               /\ record.pid \in Processes /\ record.pid \in Nat
               /\ <<record.pid, record.start>> \in PageDescr
               /\ record.start \in record.start .. record.start + record.size - 1
    BY DEF SharedSegment, Pages, Processes, PageDescr
  <1> QED
    BY <1>1, <1>2, <1>3

\* A step that leaves alone all the invariant speaks of.
LEMMA Untouched ==
  ASSUME SharedInv, TypeInv',
         UNCHANGED <<pageDirectory, pmt, PID, listOfProcesses, segment,
                     instruction, sharedVars>>
  PROVE  SharedInv' /\ (HeadsMapped => HeadsMapped')
  <1> USE DEF sharedVars
  <1>1. SharingTyped' /\ AloneInv' /\ ListersInv'
    BY DEF SharedInv, SharingTyped, AloneInv, ListersInv
  <1>2. TablesOpen'
    BY DEF SharedInv, TablesOpen, HasTable
  <1>3. CreateInv' /\ RemoveInv'
    BY DEF SharedInv, CreateInv, RemoveInv, Reached, Mapped, HasTable
  <1>4. AttachInv'
    BY DEF SharedInv, AttachInv, HasPages, HasTable
  <1>5. \A record \in Known' : HasPages(record)'
    BY DEF SharedInv, Known, HasPages, HasTable
  <1>6. HeadsMapped => HeadsMapped'
    BY DEF HeadsMapped, Known, Mapped, HasTable
  <1> QED
    BY <1>1, <1>2, <1>3, <1>4, <1>5, <1>6 DEF SharedInv

\* At the start nothing is shared.
LEMMA SharedInitInv == SharedInit => SharedInv /\ HeadsMapped
  <1> SUFFICES ASSUME SharedInit PROVE SharedInv /\ HeadsMapped
    OBVIOUS
  <1>1. TypeInv
    BY InitTypeInv DEF SharedInit
  <1>2. SharingTyped
    BY DEF SharedInit, SharingTyped, Idle
  <1>3. /\ segment = Idle /\ sharing = Idle /\ listOfProcesses = {}
        /\ \A pd \in PageDescr : ~pmt[pd].init
    BY DEF SharedInit, Init, KernelInit, ProcessInit, FreshEntry
  <1>4. TablesOpen /\ AloneInv /\ CreateInv /\ AttachInv /\ RemoveInv
    BY <1>3 DEF TablesOpen, AloneInv, CreateInv, AttachInv, RemoveInv, Idle
  <1>5. ListersInv /\ Known = {}
    BY DEF SharedInit, ListersInv, Known, ToSet
  <1> QED
    BY <1>1, <1>2, <1>4, <1>5 DEF SharedInv, HeadsMapped

-----------------------------------------------------------------------------
(* What the steps of the programs do to the pages *)

\* An instruction, page faults and replacements included, neither adds a page
\* nor takes one away.
LEMMA InstructionKeeps ==
  ASSUME TypeInv, InstructionStep
  PROVE  /\ instruction # Idle
         /\ UNCHANGED <<pageDirectory, PID, listOfProcesses, segment>>
         /\ \A pd \in PageDescr : pmt'[pd].init = pmt[pd].init
  <1>1. instruction # Idle /\ instruction \in Instruction
    <2>1. \E pc \in {"access", "fault", "retry", "translate", "touch", "check"} :
            At(pc)
      BY DEF InstructionStep, Access, HandleFault, FaultServed, Translate,
             Store, Fetch, CheckValue
    <2> QED
      BY <2>1 DEF TypeInv, TypeOK, Idle, At
  <1>2. pmt \in [PageDescr -> PageDescriptor]
    BY DEF TypeInv, TypeOK, KernelTypeOK
  <1>3. CASE Access
    <2>1. UNCHANGED segment
      BY <1>3 DEF Access, callVars
    <2>2. CASE accessOK(Descr(instruction), instruction.type)
      <3>1. /\ UNCHANGED <<pageDirectory, PID, listOfProcesses>>
            /\ \/ pmt' = [pmt EXCEPT ![Descr(instruction)].dirty = TRUE]
               \/ pmt' = pmt
        BY <2>2 DEF accessOK
      <3>2. \A pd \in PageDescr : pmt'[pd].init = pmt[pd].init
        BY <1>2, <3>1 DEF PageDescriptor
      <3> QED
        BY <1>1, <2>1, <3>1, <3>2
    <2>3. CASE ~accessOK(Descr(instruction), instruction.type)
      <3>1. UNCHANGED <<pageDirectory, PID, listOfProcesses, pmt>>
        BY <1>3, <2>3 DEF Access, Exit, kernelVars
      <3> QED
        BY <1>1, <2>1, <3>1
    <2> QED
      BY <2>2, <2>3
  <1>4. CASE HandleFault
    <2>1. CASE pageFault(instruction.p, instruction.page)
      <3>1. PICK f \in Frames :
              getFreeFrame(<<instruction.p, instruction.page>>, pmt, f)
        BY <2>1 DEF pageFault
      <3>2. <<instruction.p, instruction.page>> \in PageDescr
        BY <1>1 DEF Instruction, PageDescr
      <3>3. \A pd \in PageDescr : pmt'[pd].init = pmt[pd].init
        BY <1>2, <3>1, <3>2, GetFreeFrameType DEF TypeInv, TypeOK
      <3>4. UNCHANGED <<pageDirectory, PID, listOfProcesses, segment>>
        BY <2>1, <3>1 DEF pageFault, getFreeFrame
      <3> QED
        BY <1>1, <3>3, <3>4
    <2>2. CASE pageFaultRefused(instruction.p, instruction.page)
      BY <1>1, <2>2 DEF pageFaultRefused, Exit, callVars
    <2>3. CASE CopyIn
      BY <1>1, <2>3 DEF CopyIn
    <2>4. CASE CopyInCrash
      BY <1>1, <2>4 DEF CopyInCrash, Exit, callVars
    <2> QED
      BY <1>4, <2>1, <2>2, <2>3, <2>4 DEF HandleFault
  <1>5. CASE FaultServed
    <2>1. /\ pmt' = [pmt EXCEPT ![Descr(fault)] = Validated(@)]
          /\ UNCHANGED <<pageDirectory, PID, listOfProcesses, segment>>
      BY <1>5 DEF FaultServed, Validate
    <2>2. \A entry \in PageDescriptor : Validated(entry).init = entry.init
      BY DEF Validated, PageDescriptor
    <2> QED
      BY <1>1, <1>2, <2>1, <2>2
  <1>6. CASE Translate \/ Store \/ Fetch \/ CheckValue
    BY <1>1, <1>6
       DEF Translate, Store, Fetch, CheckValue, Exit, kernelVars, callVars
  <1> QED
    BY <1>1, <1>3, <1>4, <1>5, <1>6 DEF InstructionStep

\* A segment call claims the page it has come to ...
LEMMA AllocPageKeeps ==
  ASSUME TypeInv, AllocPage
  PROVE  /\ segment.pc = "alloc" /\ segment'.pc = "fill" /\ segment' # Idle
         /\ segment'.p = segment.p /\ segment'.page = segment.page
         /\ segment'.left = segment.left
         /\ UNCHANGED <<PID, listOfProcesses>>
         /\ pageDirectory' = [pageDirectory EXCEPT
              ![segment.p] = @ \union {DirOf(segment.page)}]
         /\ \A pd \in PageDescr :
              pmt'[pd].init = (pmt[pd].init \/ pd = Descr(segment))
  <1>1. segment.pc = "alloc"
    BY DEF AllocPage
  <1>2. segment \in SegmentCall /\ Descr(segment) \in PageDescr /\ KernelTypeOK
    BY <1>1, SegmentKinds DEF TypeInv, TypeOK
  <1>3. PICK rights \in AccessType \union {wild}, f \in Frames :
          /\ getFreeFrame(Descr(segment), Claimed(rights), f)
          /\ segment' = [segment EXCEPT
               !.pc = "fill",
               !.frame = f,
               !.fresh = \/ ~HasTable(Descr(segment))
                         \/ @ /\ EntryOf(segment.page) # 0]
    BY <1>2, FoundRightsType DEF AllocPage
  <1>4. /\ Claimed(rights) \in [PageDescr -> PageDescriptor]
        /\ \A x \in PageDescr :
             /\ x = Descr(segment) => Claimed(rights)[x].init
             /\ x # Descr(segment) => Claimed(rights)[x] = pmt[x]
    BY <1>2, <1>3, ClaimedType
  <1>5. \A x \in PageDescr : pmt'[x].init = Claimed(rights)[x].init
    BY <1>2, <1>3, <1>4, GetFreeFrameType
  <1>6. \A x \in PageDescr : pmt[x].init \in BOOLEAN /\ Claimed(rights)[x].init \in BOOLEAN
    BY <1>2, <1>4 DEF KernelTypeOK, PageDescriptor
  <1>7. /\ segment'.pc = "fill" /\ segment'.p = segment.p
        /\ segment'.page = segment.page /\ segment'.left = segment.left
    BY <1>2, <1>3 DEF SegmentCall
  <1>8. segment' # Idle
    BY <1>7 DEF Idle
  <1>9. UNCHANGED <<PID, listOfProcesses>> /\ OpenTable
    BY <1>3 DEF getFreeFrame, AllocPage
  <1>10. \A pd \in PageDescr :
           pmt'[pd].init = (pmt[pd].init \/ pd = Descr(segment))
    BY <1>4, <1>5, <1>6
  <1> QED
    BY <1>1, <1>7, <1>8, <1>9, <1>10 DEF OpenTable

\* ... and goes on to the next when it has filled it.
LEMMA AddPageKeeps ==
  ASSUME TypeInv, AddPage
  PROVE  /\ segment.pc = "fill"
         /\ UNCHANGED <<pageDirectory, PID, listOfProcesses>>
         /\ \A pd \in PageDescr : pmt'[pd].init = pmt[pd].init
         /\ segment.left = 1 => segment' = Idle
         /\ segment.left # 1 => /\ segment'.pc = "alloc" /\ segment' # Idle
                                /\ segment'.p = segment.p
                                /\ segment'.page = segment.page + 1
                                /\ segment'.left = segment.left - 1
  <1>1. KernelTypeOK /\ ProcessTypeOK
    BY DEF TypeInv, TypeOK
  <1>2. /\ segment \in SegmentCall /\ segment.pc = "fill"
        /\ \A pd \in PageDescr : pmt'[pd].init = pmt[pd].init
    BY <1>1, AddedPage
  <1>3. UNCHANGED <<pageDirectory, PID, listOfProcesses>> /\ NextPage
    BY DEF AddPage, FillCreatedPage, FillLoadedPage
  <1>4. segment.left = 1 => segment' = Idle
    BY <1>3 DEF NextPage
  <1>5. ASSUME segment.left # 1
        PROVE  /\ segment'.pc = "alloc" /\ segment'.p = segment.p
               /\ segment'.page = segment.page + 1
               /\ segment'.left = segment.left - 1
    <2>1. segment' = [segment EXCEPT !.pc = "alloc", !.page = @ + 1,
                                     !.left = @ - 1]
      BY <1>3, <1>5 DEF NextPage
    <2> QED
      BY <1>2, <2>1 DEF SegmentCall
  <1>6. segment.left # 1 => segment' # Idle
    BY <1>5 DEF Idle
  <1> QED
    BY <1>2, <1>3, <1>4, <1>5, <1>6

\* deleteSegment takes one page away.
LEMMA RemovePagesKeeps ==
  ASSUME TypeInv, RemovePages
  PROVE  /\ segment.pc = "free" /\ segment' = Idle
         /\ UNCHANGED <<pageDirectory, PID, listOfProcesses>>
         /\ \A pd \in PageDescr :
              pmt'[pd].init = (pmt[pd].init /\ pd # Descr(segment))
  <1> DEFINE pd == Descr(segment)
             entry == [pmt[pd] EXCEPT
               !.init = FALSE, !.valid = FALSE, !.dirty = FALSE,
               !.block = nullptr, !.disk = 0, !.numOfPages = 0,
               !.sourceAddress = nullptr]
  <1>1. /\ segment.pc = "free" /\ segment' = Idle
        /\ UNCHANGED <<pageDirectory, PID, listOfProcesses>>
        /\ pmt' = [pmt EXCEPT ![pd] = entry]
    BY DEF RemovePages, FreePage
  <1>2. pd \in PageDescr /\ pmt \in [PageDescr -> PageDescriptor]
    BY <1>1, SegmentKinds DEF TypeInv, TypeOK, KernelTypeOK
  <1>3. entry.init = FALSE
    BY <1>2 DEF PageDescriptor
  <1>4. \A x \in PageDescr : pmt[x].init \in BOOLEAN
    BY <1>2 DEF PageDescriptor
  <1> HIDE DEF entry
  <1>5. ASSUME NEW x \in PageDescr
        PROVE  pmt'[x].init = (pmt[x].init /\ x # pd)
    <2>1. CASE x = pd
      BY <1>1, <1>2, <1>3, <2>1
    <2>2. CASE x # pd
      BY <1>1, <1>2, <1>4, <2>2
    <2> QED
      BY <2>1, <2>2
  <1> QED
    BY <1>1, <1>5

-----------------------------------------------------------------------------
(* The steps of the programs keep the invariant *)

\* Tables are never taken away from a process that exists.
TablesStay ==
  /\ PID \in Nat /\ PID' \in Nat /\ PID <= PID'
  /\ \A pd \in PageDescr : pd[1] < PID /\ HasTable(pd) => HasTable(pd)'

\* A record keeps its pages as long as tables stay.
LEMMA RecordsStay ==
  ASSUME TablesStay, NEW record \in SharedSegment, HasPages(record)
  PROVE  HasPages(record)'
  <1>1. /\ record.pid \in Processes /\ record.pid \in Nat
        /\ record.start \in Nat /\ record.size \in Nat
    BY DEF SharedSegment, Pages, Processes
  <1>2. record.pid < PID' /\ record.start + record.size <= NumPages
    BY <1>1 DEF HasPages, TablesStay
  <1>3. ASSUME NEW page \in record.start .. record.start + record.size - 1
        PROVE  HasTable(<<record.pid, page>>)'
    <2>1. page \in Pages
      BY <1>1, <1>2, SizeAssumption DEF Pages, NumPages
    <2>2. <<record.pid, page>> \in PageDescr
      BY <1>1, <2>1 DEF PageDescr
    <2>3. HasTable(<<record.pid, page>>) /\ record.pid < PID
      BY DEF HasPages
    <2> QED
      BY <2>2, <2>3 DEF TablesStay
  <1> QED
    BY <1>2, <1>3 DEF HasPages

\* A step taken while no shared-segment call is in progress.
LEMMA BetweenCalls ==
  ASSUME SharedInv, TypeInv', TablesOpen', TablesStay,
         sharing = Idle, segment' = Idle,
         UNCHANGED <<listOfSharedSegments, systemSegments, sharing, home>>,
         carved' \in Seq((Processes \X Dirs) \union {<<>>})
  PROVE  SharedInv'
  <1>1. SharingTyped' /\ ListersInv'
    BY DEF SharedInv, SharingTyped, ListersInv, TablesStay, Processes
  <1>2. AloneInv' /\ CreateInv' /\ AttachInv' /\ RemoveInv'
    BY DEF AloneInv, CreateInv, AttachInv, RemoveInv, Idle
  <1>3. \A record \in Known' : HasPages(record)'
    BY RecordsStay, KnownRecord DEF SharedInv, Known
  <1> QED
    BY <1>1, <1>2, <1>3 DEF SharedInv

\* Known heads stay when no page of theirs goes and no creator comes back.
HeadsStay ==
  /\ listOfProcesses' \subseteq listOfProcesses \union {PID}
  /\ \A pd \in PageDescr : pd[1] < PID /\ pmt[pd].init => pmt'[pd].init

\* The first pages of known segments stay as long as nothing is taken away.
LEMMA HeadsMappedStay ==
  ASSUME SharedInv, HeadsMapped, HeadsStay, TablesStay, UNCHANGED systemSegments
  PROVE  HeadsMapped'
  <1> SUFFICES ASSUME NEW record \in Known, record.pid \in listOfProcesses'
               PROVE  Mapped(<<record.pid, record.start>>)'
    BY DEF HeadsMapped, Known
  <1> DEFINE pd == <<record.pid, record.start>>
  <1>1. pd \in PageDescr /\ pd[1] \in Nat /\ pd[1] < PID
    BY KnownRecord DEF SharedInv, HasPages
  <1>2. record.pid \in listOfProcesses
    BY <1>1 DEF HeadsStay, TablesStay
  <1>3. HasTable(pd) /\ pmt[pd].init
    BY <1>2 DEF HeadsMapped, Mapped
  <1> QED
    BY <1>1, <1>3 DEF HeadsStay, TablesStay, Mapped

\* Processes come and go and touch their pages.
LEMMA ProgramsInv ==
  ASSUME SharedInv, Programs
  PROVE  SharedInv' /\ TablesStay /\ HeadsStay /\ segment' = Idle
  <1>1. /\ sharing = Idle /\ segment = Idle /\ TypeInv
        /\ UNCHANGED <<listOfSharedSegments, systemSegments, sharing, home>>
    BY DEF Programs, SharedQuiet, Quiet, SharedInv
  <1>2. PID \in Nat /\ \A p \in Processes : p \in Nat
    BY <1>1 DEF TypeInv, TypeOK, KernelTypeOK, Processes
  <1>3. carved \in Seq((Processes \X Dirs) \union {<<>>})
    BY DEF SharedInv, SharingTyped
  <1>4. CASE CreateProcess /\ CarveOther
    <2>0. PID < MaxProcesses
      BY <1>4 DEF CreateProcess, createProcess
    <2>1. /\ listOfProcesses' = listOfProcesses \union {PID}
          /\ PID' = PID + 1 /\ PID \in Processes
          /\ pageDirectory' = [pageDirectory EXCEPT ![PID] = {}]
          /\ UNCHANGED <<pmt, segment>>
      BY <1>2, <1>4, <2>0, SizeAssumption
         DEF CreateProcess, createProcess, callVars, Processes
    <2>2. TypeInv'
      BY <1>1, <1>4, NextTypeInv DEF Next, AnyCall
    <2>3. \A pd \in PageDescr :
            pd[1] \in Processes /\ (pd[1] < PID => (HasTable(pd)' <=> HasTable(pd)))
      BY <1>1, <1>2, <2>1 DEF HasTable, PageDescr, TypeInv, TypeOK, KernelTypeOK
    <2>4. TablesStay /\ HeadsStay
      BY <1>2, <2>1, <2>3 DEF TablesStay, HeadsStay
    <2>5. TablesOpen'
      <3>1. \A p \in listOfProcesses' : p < PID'
        BY <1>1, <1>2, <2>1 DEF SharedInv, TablesOpen, TypeInv, TypeOK, KernelTypeOK
      <3>2. segment' = Idle
        BY <1>1, <2>1
      <3>3. ASSUME NEW pd \in PageDescr, pmt'[pd].init
            PROVE  pd[1] < PID' /\ HasTable(pd)'
        <4>1. pd[1] < PID /\ HasTable(pd)
          BY <2>1, <3>3 DEF SharedInv, TablesOpen
        <4>2. HasTable(pd)'
          BY <2>3, <4>1
        <4>3. pd[1] \in Nat
          BY <1>2, <2>3
        <4>4. pd[1] < PID'
          BY <1>2, <2>1, <4>1, <4>3
        <4> QED
          BY <4>2, <4>4
      <3> QED
        BY <3>1, <3>2, <3>3 DEF TablesOpen
    <2>6. carved' \in Seq((Processes \X Dirs) \union {<<>>})
      BY <1>3, <1>4 DEF CarveOther
    <2> QED
      BY <1>1, <2>1, <2>2, <2>4, <2>5, <2>6, BetweenCalls
  <1>5. ASSUME NEW p \in Processes, DestroyProcess(p), UNCHANGED carved
        PROVE  SharedInv' /\ TablesStay /\ HeadsStay /\ segment' = Idle
    <2>1. /\ listOfProcesses' \subseteq listOfProcesses
          /\ UNCHANGED <<pageDirectory, pmt, PID, segment>>
      BY <1>5 DEF DestroyProcess, removeProcess, callVars
    <2>2. TypeInv'
      BY <1>1, <1>5, NextTypeInv DEF Next, AnyCall
    <2>3. TablesStay /\ HeadsStay
      BY <1>2, <2>1 DEF TablesStay, HeadsStay, HasTable
    <2>4. TablesOpen'
      BY <2>1 DEF SharedInv, TablesOpen, HasTable
    <2> QED
      BY <1>1, <1>3, <1>5, <2>1, <2>2, <2>3, <2>4, BetweenCalls
  <1>6. ASSUME NEW p \in Processes, NEW page \in Pages, Touch(p, page),
               UNCHANGED carved
        PROVE  SharedInv' /\ TablesStay /\ HeadsStay /\ segment' = Idle
    <2>1. UNCHANGED <<listOfProcesses, pageDirectory, pmt, PID, segment>>
      BY <1>6 DEF Touch, Begin, kernelVars, callVars
    <2>2. BeginAny
      BY <1>6 DEF Touch, BeginAny
    <2>3. TypeInv'
      BY <1>1, <2>2, NextTypeInv DEF Next
    <2>4. TablesStay /\ HeadsStay
      BY <1>2, <2>1 DEF TablesStay, HeadsStay, HasTable
    <2>5. TablesOpen'
      BY <2>1 DEF SharedInv, TablesOpen, HasTable
    <2> QED
      BY <1>1, <1>3, <1>6, <2>1, <2>3, <2>4, <2>5, BetweenCalls
  <1>7. listOfProcesses \subseteq Processes
    BY <1>1 DEF TypeInv, TypeOK, KernelTypeOK
  <1> QED
    BY <1>4, <1>5, <1>6, <1>7 DEF Programs

\* An instruction goes on.
LEMMA InstructionInv ==
  ASSUME SharedInv, InstructionStep, UNCHANGED sharedVars
  PROVE  SharedInv' /\ TablesStay /\ HeadsStay /\ segment' = Idle
  <1>1. /\ instruction # Idle
        /\ UNCHANGED <<pageDirectory, PID, listOfProcesses, segment>>
        /\ \A pd \in PageDescr : pmt'[pd].init = pmt[pd].init
    BY InstructionKeeps DEF SharedInv
  <1>2. sharing = Idle /\ segment = Idle
    BY <1>1 DEF SharedInv, AloneInv, Idle
  <1>3. TypeInv'
    BY InstructionStepTypeInv DEF SharedInv
  <1>4. PID \in Nat
    BY DEF SharedInv, TypeInv, TypeOK, KernelTypeOK
  <1>5. TablesStay /\ HeadsStay
    BY <1>1, <1>4 DEF TablesStay, HeadsStay, HasTable
  <1>6. TablesOpen'
    BY <1>1 DEF SharedInv, TablesOpen, HasTable
  <1>7. carved \in Seq((Processes \X Dirs) \union {<<>>})
    BY DEF SharedInv, SharingTyped
  <1> QED
    BY <1>1, <1>2, <1>3, <1>5, <1>6, <1>7, BetweenCalls DEF sharedVars

\* What one may call size, and where a call begins, in numbers.
LEMMA CallNumbers ==
  /\ NumPages \in Nat
  /\ \A page \in Pages : page \in Nat /\ page < NumPages
  /\ \A p \in Processes : p \in Nat
  /\ \A size \in SegmentSizes : size \in Nat
  /\ 0 \in Frames /\ 0 \in Dirs
  BY SizeAssumption, InputAssumption DEF NumPages, Pages, Processes, Frames, Dirs

\* The pages and the list of processes stay as they are.
LEMMA PagesUnchanged ==
  ASSUME SharedInv, UNCHANGED <<pageDirectory, pmt, PID, listOfProcesses>>
  PROVE  TablesStay /\ HeadsStay
  <1>1. PID \in Nat
    BY DEF SharedInv, TypeInv, TypeOK, KernelTypeOK
  <1> QED
    BY <1>1 DEF TablesStay, HeadsStay, HasTable

\* A segment that is to be shared is created.
LEMMA NewSharedInv ==
  ASSUME SharedInv,
         NEW p \in Processes, NEW page \in Pages, NEW size \in SegmentSizes,
         NEW name \in Names, NEW flags \in {"EXECUTE", "READ_WRITE"},
         NewShared(p, page, size, name, flags)
  PROVE  SharedInv' /\ (HeadsMapped => HeadsMapped')
  <1>1. CASE RefuseSegment(p, page, size) /\ UNCHANGED sharing
    <2>1. \E reason \in ExitReasons : Exit(reason)
      BY <1>1 DEF RefuseSegment, ExitReasons
    <2>2. UNCHANGED <<callVars, testVars, sharedVars>>
      BY <1>1 DEF NewShared, RefuseSegment, sharedVars
    <2>3. TypeInv'
      BY <2>1, <2>2, ExitTypeInv DEF SharedInv
    <2> QED
      BY <2>1, <2>2, <2>3, Untouched DEF Exit, callVars, testVars
  <1>2. CASE createSegment(p, page, size, flags) /\ ~UNCHANGED sharing
    <2>1. /\ sharing = Idle /\ segment = Idle /\ instruction = Idle
          /\ size \in Nat \ {0} /\ p \in listOfProcesses
          /\ page + size - 1 < NumPages - 1
      BY <1>2, CallNumbers
         DEF NewShared, SharedQuiet, Quiet, createSegment, StartSegment,
             canAllocate
    <2>2. /\ segment' = [pc |-> "alloc", op |-> "createSegment", p |-> p,
                 page |-> page, left |-> size, size |-> size, flags |-> flags,
                 fresh |-> FALSE, frame |-> 0]
          /\ sharing' = [pc |-> "create", p |-> p,
                 record |-> [name |-> name, start |-> page, size |-> size,
                             flags |-> flags, pid |-> p]]
          /\ UNCHANGED <<kernelVars, fault, testVars, listOfSharedSegments,
                         systemSegments, carved, home>>
      BY <1>2 DEF NewShared, createSegment, StartSegment, RefuseSegment, callVars
    <2>3. UNCHANGED <<pageDirectory, pmt, PID, listOfProcesses, instruction>>
      BY <2>2 DEF kernelVars, testVars
    <2>4. TypeInv'
      BY <1>2, <2>1, <2>2, StartedTypeInv DEF createSegment, AccessType, SharedInv
    <2>5. sharing' \in CreateCall
      BY <2>1, <2>2 DEF CreateCall, SharedSegment, AccessType
    <2>6. SharingTyped'
      BY <2>2, <2>5 DEF SharedInv, SharingTyped
    <2>7. TablesOpen' /\ ListersInv'
      BY <2>1, <2>2, <2>3 DEF SharedInv, TablesOpen, ListersInv, HasTable
    <2>8. AloneInv' /\ AttachInv' /\ RemoveInv'
      BY <2>1, <2>2, <2>3 DEF AloneInv, AttachInv, RemoveInv
    <2>9. CreateInv'
      <3>1. /\ sharing'.record.pid = p /\ sharing'.p = p
            /\ sharing'.record.start = page /\ sharing'.record.size = size
            /\ segment'.p = p /\ segment'.page = page /\ segment'.left = size
            /\ segment'.pc = "alloc"
        BY <2>2
      <3>2. segment' # Idle
        BY <3>1 DEF Idle
      <3>3. Reached' = page /\ page \in Nat
        BY <3>1, <3>2, CallNumbers DEF Reached
      <3>4. page + size <= NumPages /\ page .. page - 1 = {}
        BY <2>1, <3>3, CallNumbers
      <3> QED
        BY <2>1, <2>3, <3>1, <3>2, <3>3, <3>4 DEF CreateInv
    <2>10. TablesStay /\ HeadsStay
      BY <2>3, PagesUnchanged
    <2>11. \A record \in Known' : HasPages(record)'
      BY <2>2, <2>10, RecordsStay, KnownRecord DEF SharedInv, Known
    <2>12. HeadsMapped => HeadsMapped'
      BY <2>2, <2>10, HeadsMappedStay
    <2> QED
      BY <2>4, <2>6, <2>7, <2>8, <2>9, <2>11, <2>12 DEF SharedInv
  <1>3. CASE createSegment(p, page, size, flags) /\ UNCHANGED sharing
    <2>1. sharing' # Idle
      BY <1>3 DEF NewShared, createSegment, StartSegment, RefuseSegment, Exit,
                  kernelVars, callVars, Idle
    <2> QED
      BY <1>3, <2>1 DEF NewShared, SharedQuiet
  <1> QED
    BY <1>1, <1>2, <1>3 DEF NewShared

\* A process asks for a segment that is known.
LEMMA AttachStartInv ==
  ASSUME SharedInv, HeadsMapped,
         NEW p \in Processes, NEW page \in Pages, NEW size \in SegmentSizes,
         NEW name \in Names, NEW flags, Attach(p, page, size, name, flags)
  PROVE  /\ SharedInv' /\ HeadsMapped'
         /\ UNCHANGED sharing \/ sharing'.pc = "attach"
  <1> DEFINE gss == getSharedSegment(name)
             minSize == IF size > gss.size THEN gss.size ELSE size
  <1>1. /\ sharing = Idle /\ segment = Idle /\ instruction = Idle
        /\ p \in listOfProcesses /\ Listed(systemSegments, name)
        /\ UNCHANGED <<callVars, testVars, listOfSharedSegments, systemSegments,
                       carved, home>>
    BY DEF Attach, SharedQuiet, Quiet
  <1>2. CASE \E reason \in ExitReasons : Exit(reason) /\ UNCHANGED sharing
    <2>1. UNCHANGED <<callVars, testVars, sharedVars>>
      BY <1>1, <1>2 DEF sharedVars
    <2>2. TypeInv'
      BY <1>2, <2>1, ExitTypeInv DEF SharedInv
    <2> QED
      BY <1>2, <2>1, <2>2, Untouched DEF Exit, callVars, testVars
  <1>3. CASE /\ size > 0 /\ flags = gss.flags /\ canAllocate(p, page, minSize)
             /\ gss.pid \in listOfProcesses
             /\ sharing' = [pc |-> "attach", p |-> p,
                            record |-> [gss EXCEPT !.size = minSize],
                            page |-> page, left |-> minSize, asked |-> size,
                            fresh |-> FALSE, table |-> 0,
                            dir |-> DirOf(gss.start),
                            entry |-> EntryOf(gss.start)]
             /\ UNCHANGED kernelVars
    <2>1. gss \in Known /\ gss \in SharedSegment
      BY <1>1, NamedRecord DEF SharedInv, SharingTyped, getSharedSegment, Known
    <2>2. /\ UNCHANGED <<pageDirectory, pmt, PID, listOfProcesses, segment,
                         instruction, fault>>
          /\ TypeInv
      BY <1>1, <1>3 DEF kernelVars, callVars, testVars, SharedInv
    <2>3. TypeInv'
      <3>1. UNCHANGED vars
        BY <1>1, <1>3 DEF vars, callVars, testVars
      <3> QED
        BY <2>2, <3>1, NextTypeInv
    <2>4. /\ size \in Nat \ {0} /\ gss.size \in Nat \ {0}
          /\ minSize \in Nat \ {0} /\ minSize <= gss.size
      BY <1>3, <2>1, CallNumbers DEF SharedSegment
    <2> HIDE DEF minSize
    <2>5. PICK record : record = [gss EXCEPT !.size = minSize]
      OBVIOUS
    <2>6. /\ record \in SharedSegment /\ record.start = gss.start
          /\ record.pid = gss.pid /\ record.size = minSize
      BY <2>1, <2>4, <2>5 DEF SharedSegment
    <2>7. /\ gss.start \in Nat /\ gss.start \in Pages /\ record.start \in Nat
          /\ DirOf(gss.start) \in Nat
          /\ EntryOf(gss.start) \in 0 .. MAX_PMT_ENTRIES - 1
          /\ EntryOf(gss.start) \in Nat
          /\ gss.start = DirOf(gss.start) * MAX_PMT_ENTRIES + EntryOf(gss.start)
      <3>1. gss.start \in Pages /\ gss.start \in Nat
        BY <2>1, CallNumbers DEF SharedSegment
      <3> HIDE DEF gss
      <3>2. /\ DirOf(gss.start) \in Nat
            /\ EntryOf(gss.start) \in 0 .. MAX_PMT_ENTRIES - 1
            /\ gss.start = DirOf(gss.start) * MAX_PMT_ENTRIES + EntryOf(gss.start)
        BY <3>1, EntryOfPage
      <3>3. EntryOf(gss.start) \in Nat
        BY <3>2, SizeAssumption
      <3> QED
        BY <2>6, <3>1, <3>2, <3>3
    <2> HIDE DEF gss
    <2>8. PICK d, e \in Nat : d = DirOf(gss.start) /\ e = EntryOf(gss.start)
      BY <2>7
    <2>9. sharing' = [pc |-> "attach", p |-> p, record |-> record,
                      page |-> page, left |-> minSize, asked |-> size,
                      fresh |-> FALSE, table |-> 0, dir |-> d, entry |-> e]
      BY <1>3, <2>5, <2>8
    <2>10. sharing' \in AttachCall
      BY <2>4, <2>6, <2>9, CallNumbers DEF AttachCall
    <2>11. SharingTyped'
      BY <1>1, <2>10 DEF SharedInv, SharingTyped
    <2>12. /\ sharing'.pc = "attach" /\ sharing'.p = p
           /\ sharing'.record = record /\ sharing'.page = page
           /\ sharing'.left = minSize /\ sharing'.fresh = FALSE
           /\ sharing'.dir = d /\ sharing'.entry = e
      BY <2>9
    <2>21. p < PID
      BY <1>1 DEF SharedInv, TablesOpen
    <2>13. AloneInv' /\ CreateInv' /\ RemoveInv' /\ ListersInv' /\ TablesOpen'
      <3>1. segment' = Idle /\ instruction' = Idle
        BY <1>1, <2>2
      <3> QED
        BY <1>1, <2>2, <2>12, <2>21, <3>1
           DEF SharedInv, AloneInv, CreateInv, RemoveInv, ListersInv, TablesOpen,
               HasTable
    <2>14. TablesStay /\ HeadsStay
      BY <2>2, PagesUnchanged
    <2>15. \A x \in Known' : HasPages(x)'
      BY <1>1, <2>14, RecordsStay, KnownRecord DEF SharedInv, Known
    <2>16. HasPages(record)
      <3>1. HasPages(gss)
        BY <2>1 DEF SharedInv
      <3>2. /\ record.start + record.size <= gss.start + gss.size
            /\ gss.start + gss.size \in Nat /\ record.start + record.size \in Nat
        BY <2>4, <2>6, <2>7
      <3>3. record.start + record.size <= NumPages
        BY <3>1, <3>2, CallNumbers DEF HasPages
      <3>4. \A x \in record.start .. record.start + record.size - 1 :
              x \in gss.start .. gss.start + gss.size - 1
        BY <2>4, <2>6, <2>7
      <3> QED
        BY <2>6, <3>1, <3>3, <3>4 DEF HasPages
    <2>17. HasPages(record)'
      BY <2>6, <2>14, <2>16, RecordsStay
    <2>18. /\ page + minSize - 1 < NumPages - 1
           /\ \A q \in page .. page + minSize - 1 : ~Mapped(<<p, q>>)
      BY <1>3 DEF canAllocate
    <2>19. \A q \in page .. page + minSize - 1 : ~pmt[<<p, q>>].init
      <3> SUFFICES ASSUME NEW q \in page .. page + minSize - 1
                   PROVE  ~pmt[<<p, q>>].init
        OBVIOUS
      <3>1. q \in Pages
        BY <2>4, <2>18, CallNumbers DEF Pages
      <3>2. <<p, q>> \in PageDescr
        BY <3>1 DEF PageDescr
      <3> QED
        BY <2>18, <3>2 DEF SharedInv, TablesOpen, Mapped
    <2>20. pmt[<<record.pid, record.start>>].init
      BY <1>3, <2>1, <2>6 DEF HeadsMapped, Mapped
    <2>22. page + minSize <= NumPages - 1
      BY <2>4, <2>18, CallNumbers
    <2>23. /\ record.start + record.size - minSize = record.start
           /\ minSize \in 1 .. record.size
      BY <2>4, <2>6, <2>7
    <2>24. AttachInv'
      <3>1. d * MAX_PMT_ENTRIES + e <= record.start
        BY <2>6, <2>7, <2>8
      <3>2. /\ d = DirOf(record.start) /\ e = EntryOf(record.start)
            /\ DirOf(record.start) <= d
        BY <2>6, <2>8
      <3>3. \A q \in page .. page + minSize - 1 : ~pmt'[<<p, q>>].init
        BY <2>2, <2>19
      <3>4. pmt'[<<record.pid, record.start>>].init
        BY <2>2, <2>20
      <3> QED
        BY <2>2, <2>12, <2>17, <2>22, <2>23, <3>1, <3>2, <3>3, <3>4
           DEF AttachInv
    <2>25. HeadsMapped'
      BY <1>1, <2>14, HeadsMappedStay
    <2> QED
      BY <2>3, <2>11, <2>12, <2>13, <2>15, <2>24, <2>25 DEF SharedInv
  <1> QED
    <2>1. {"empty segment", "other rights", "no space", "no owner"}
            \subseteq ExitReasons
      BY DEF ExitReasons
    <2> QED
      BY <1>2, <1>3, <2>1 DEF Attach

\* The pages are there: the record goes into the lists.
LEMMA PublishInv ==
  ASSUME SharedInv, Publish
  PROVE  SharedInv' /\ (HeadsMapped => HeadsMapped')
  <1> DEFINE p == sharing.p
             record == sharing.record
  <1>1. /\ sharing.pc \in {"create", "publish"} /\ segment = Idle
        /\ listOfSharedSegments' =
             [listOfSharedSegments EXCEPT ![p] = Append(@, record)]
        /\ systemSegments' = IF sharing.pc = "create"
                             THEN Append(systemSegments, record)
                             ELSE systemSegments
        /\ home' = IF sharing.pc = "create"
                   THEN [pd \in PageDescr |->
                           IF pd \in PagesOf(record) THEN nullptr ELSE home[pd]]
                   ELSE home
        /\ CarveOther /\ sharing' = Idle /\ UNCHANGED vars
    BY DEF Publish
  <1>2. /\ sharing # Idle /\ p \in Processes /\ record \in SharedSegment
        /\ SharingTyped
    <2>1. SharingTyped /\ sharing # Idle
      BY <1>1 DEF SharedInv, Idle
    <2> QED
      BY <2>1, SharingKinds
  <1>3. /\ UNCHANGED <<pageDirectory, pmt, PID, listOfProcesses, segment>>
        /\ TypeInv'
    BY <1>1, NextTypeInv DEF vars, kernelVars, callVars, SharedInv
  <1>4. SharingTyped'
    <2>1. carved' \in Seq((Processes \X Dirs) \union {<<>>})
      BY <1>1, <1>2 DEF CarveOther, SharingTyped
    <2>2. listOfSharedSegments' \in [Processes -> Seq(SharedSegment)]
      <3>1. Append(listOfSharedSegments[p], record) \in Seq(SharedSegment)
        BY <1>2, AppendedRecord DEF SharingTyped
      <3> QED
        BY <1>1, <1>2, <3>1 DEF SharingTyped
    <2>3. systemSegments' \in Seq(SharedSegment)
      BY <1>1, <1>2, AppendedRecord DEF SharingTyped
    <2>4. home' \in [PageDescr -> PageDescr \union {nullptr}]
      BY <1>1, <1>2 DEF SharingTyped
    <2> QED
      BY <1>1, <2>1, <2>2, <2>3, <2>4 DEF SharingTyped
  <1>5. TablesOpen'
    BY <1>3 DEF SharedInv, TablesOpen, HasTable
  <1>6. AloneInv' /\ CreateInv' /\ AttachInv' /\ RemoveInv'
    BY <1>1, <1>3 DEF AloneInv, CreateInv, AttachInv, RemoveInv, Idle
  <1>7. ListersInv'
    BY <1>1, <1>2, <1>3 DEF SharedInv, ListersInv, SharingTyped
  <1>8. ASSUME sharing.pc = "create"
        PROVE  HasPages(record) /\ Mapped(<<record.pid, record.start>>)
    <2>1. /\ record.pid = p /\ p < PID
          /\ record.start + record.size <= NumPages
          /\ \A page \in record.start .. record.start + record.size - 1 :
               Mapped(<<p, page>>)
      <3>1. /\ record.pid = p /\ record.start + record.size <= NumPages
            /\ \A page \in record.start .. Reached - 1 : Mapped(<<p, page>>)
        BY <1>8 DEF SharedInv, CreateInv
      <3>2. p < PID
        BY <1>2 DEF SharedInv, ListersInv
      <3>3. Reached = record.start + record.size
        BY <1>1 DEF Reached
      <3>4. record.start .. Reached - 1
              = record.start .. record.start + record.size - 1
        <4>1. record.start \in Nat /\ record.size \in Nat
          BY <1>2, KnownRecord
        <4> HIDE DEF record
        <4> QED
          BY <3>3, <4>1
      <3> QED
        BY <3>1, <3>2, <3>4
    <2>2. record.start \in record.start .. record.start + record.size - 1
      BY <1>2, KnownRecord
    <2> QED
      BY <2>1, <2>2 DEF HasPages, Mapped
  <1>9. Known' = IF sharing.pc = "create" THEN Known \union {record} ELSE Known
    BY <1>1, <1>2, AppendedRecord DEF Known, SharingTyped
  <1>10. TablesStay /\ HeadsStay
    BY <1>3, PagesUnchanged
  <1>11. \A x \in Known' : HasPages(x)'
    <2>1. \A x \in Known' : x \in SharedSegment /\ HasPages(x)
      BY <1>2, <1>8, <1>9, KnownRecord DEF SharedInv
    <2> QED
      BY <1>10, <2>1, RecordsStay
  <1>12. HeadsMapped => HeadsMapped'
    BY <1>3, <1>8, <1>9 DEF HeadsMapped, Mapped, HasTable
  <1> QED
    BY <1>3, <1>4, <1>5, <1>6, <1>7, <1>11, <1>12 DEF SharedInv

\* A removal begins.
LEMMA RemovalInv ==
  ASSUME SharedInv, SharedQuiet,
         NEW p \in listOfProcesses, NEW name \in Names,
         Listed(listOfSharedSegments[p], name),
         NEW others \in SUBSET {q \in listOfProcesses :
                                  Listed(listOfSharedSegments[q], name)},
         NEW everywhere \in BOOLEAN, Removal(p, name, others, everywhere),
         \/ UNCHANGED systemSegments
         \/ /\ Listed(systemSegments, name)
            /\ systemSegments' = Without(systemSegments, name),
         UNCHANGED <<kernelVars, callVars, testVars, listOfSharedSegments,
                     carved, home>>
  PROVE  SharedInv' /\ (HeadsMapped => HeadsMapped')
  <1> DEFINE record == Named(listOfSharedSegments[p], name)
  <1>1. /\ sharing = Idle /\ segment = Idle /\ instruction = Idle
        /\ UNCHANGED <<pageDirectory, pmt, PID, listOfProcesses, segment,
                       instruction>>
    BY DEF SharedQuiet, Quiet, kernelVars, callVars, testVars
  <1>2. p \in Processes /\ listOfProcesses \subseteq Processes /\ p < PID
    BY DEF SharedInv, TypeInv, TypeOK, KernelTypeOK, TablesOpen
  <1>3. record \in SharedSegment /\ record.name = name
    BY <1>2, NamedRecord DEF SharedInv, SharingTyped
  <1> HIDE DEF record
  <1>4. /\ sharing' = [pc |-> "remove", p |-> p, record |-> record,
                       todo |-> others \union {p}, everywhere |-> everywhere]
        /\ sharing'.pc = "remove" /\ sharing'.p = p
        /\ sharing'.record.name = name /\ sharing'.todo = others \union {p}
    BY <1>3 DEF Removal, record
  <1>5. sharing' \in RemoveCall
    BY <1>2, <1>3, <1>4 DEF RemoveCall
  <1>6. TypeInv'
    <2>1. UNCHANGED vars
      BY DEF vars, testVars
    <2> QED
      BY <2>1, NextTypeInv DEF SharedInv
  <1>7. systemSegments' \in Seq(SharedSegment) /\ Known' \subseteq Known
    BY RemovedRecord DEF SharedInv, SharingTyped, Known
  <1>8. SharingTyped'
    BY <1>5, <1>7 DEF SharedInv, SharingTyped
  <1>9. TablesOpen' /\ AloneInv' /\ CreateInv' /\ AttachInv'
    BY <1>1, <1>4 DEF SharedInv, TablesOpen, AloneInv, CreateInv, AttachInv,
                      HasTable
  <1>10. ListersInv' /\ RemoveInv'
    BY <1>1, <1>2, <1>4 DEF SharedInv, ListersInv, RemoveInv
  <1>11. TablesStay
    BY <1>1, PagesUnchanged
  <1>12. \A x \in Known' : HasPages(x)'
    BY <1>7, <1>11, RecordsStay, KnownRecord DEF SharedInv
  <1>13. HeadsMapped => HeadsMapped'
    BY <1>1, <1>7 DEF HeadsMapped, Mapped, HasTable
  <1> QED
    BY <1>6, <1>8, <1>9, <1>10, <1>12, <1>13 DEF SharedInv

\* A segment is disconnected or deleted.
LEMMA DeleteCallsInv ==
  ASSUME SharedInv, NEW p \in Processes, NEW name \in Names,
         DisconnectShared(p, name) \/ DeleteShared(p, name)
  PROVE  SharedInv' /\ (HeadsMapped => HeadsMapped')
  <1>1. /\ Others(p, name) \in SUBSET {q \in listOfProcesses :
                                         Listed(listOfSharedSegments[q], name)}
        /\ {} \in SUBSET {q \in listOfProcesses :
                            Listed(listOfSharedSegments[q], name)}
        /\ TRUE \in BOOLEAN /\ FALSE \in BOOLEAN
    BY DEF Others
  <1>2. CASE DisconnectShared(p, name)
    BY <1>1, <1>2, RemovalInv DEF DisconnectShared
  <1>3. CASE DeleteShared(p, name)
    BY <1>1, <1>3, RemovalInv DEF DeleteShared
  <1> QED
    BY <1>2, <1>3


-----------------------------------------------------------------------------
(* The steps of a segment that is being created or deleted *)

\* The tables a step opens can be listed.
LEMMA CarvedType ==
  ASSUME SharedInv, CarveTable
  PROVE  carved' \in Seq((Processes \X Dirs) \union {<<>>})
  <1> DEFINE opened == {table \in Processes \X Dirs :
                table[2] \in pageDirectory'[table[1]] \ pageDirectory[table[1]]}
  <1>1. IsFiniteSet(Processes) /\ IsFiniteSet(Dirs)
    BY SizeAssumption, FS_Interval DEF Processes, Dirs
  <1>2. IsFiniteSet(Processes \X Dirs)
    BY <1>1, FS_Product
  <1>3. IsFiniteSet(opened) /\ opened \subseteq Processes \X Dirs
    BY <1>2, FS_Subset
  <1>4. carved' = carved \o SetToSeq(opened)
    BY DEF CarveTable
  <1> HIDE DEF opened
  <1>5. PICK tables \in Seq(opened) : tables = SetToSeq(opened)
    BY <1>3, SequenceOfSet
  <1>6. tables \in Seq((Processes \X Dirs) \union {<<>>})
    BY <1>3, <1>5
  <1>7. carved \in Seq((Processes \X Dirs) \union {<<>>})
    BY DEF SharedInv, SharingTyped
  <1> QED
    BY <1>4, <1>5, <1>6, <1>7

\* A step of a segment call.
LEMMA SegmentStepInv ==
  ASSUME SharedInv, SegmentStep, CarveTable,
         UNCHANGED <<listOfSharedSegments, systemSegments, sharing, home>>
  PROVE  /\ SharedInv' /\ TablesStay
         /\ segment.pc # "free" => HeadsStay
  <1> DEFINE pd == Descr(segment)
             record == sharing.record
  <1>1. TypeInv /\ TypeInv' /\ TablesOpen
    BY SegmentStepTypeInv DEF SharedInv
  <1>2. SharingTyped'
    BY CarvedType DEF SharedInv, SharingTyped
  <1>3. /\ PID \in Nat /\ PID' \in Nat /\ \A p \in Processes : p \in Nat
        /\ pageDirectory \in [Processes -> SUBSET Dirs]
        /\ UNCHANGED instruction
    BY <1>1, CallNumbers
       DEF TypeInv, TypeOK, KernelTypeOK, SegmentStep, ClaimPage, AddPage,
           Expect, RemovePages, testVars
  <1>4. ASSUME TablesStay, TablesOpen', AloneInv', CreateInv',
               sharing.pc \in {"create", "removing"}
        PROVE  SharedInv'
    <2>1. ListersInv'
      <3>1. sharing.p \in Nat /\ sharing.p < PID
        BY <1>3, <1>4, SharingKinds DEF SharedInv, ListersInv, Idle
      <3>2. sharing.p < PID'
        BY <1>4, <3>1 DEF TablesStay
      <3>3. ASSUME NEW p \in Processes, listOfSharedSegments[p] # <<>>
            PROVE  p < PID'
        <4>1. p < PID
          BY <3>3 DEF SharedInv, ListersInv
        <4> QED
          BY <1>3, <1>4, <4>1 DEF TablesStay
      <3> QED
        BY <3>2, <3>3 DEF ListersInv
    <2>2. AttachInv' /\ RemoveInv'
      BY <1>4 DEF SharedInv, AttachInv, RemoveInv
    <2>3. \A x \in Known' : HasPages(x)'
      BY <1>4, RecordsStay, KnownRecord DEF SharedInv, Known
    <2> QED
      BY <1>1, <1>2, <1>4, <2>1, <2>2, <2>3 DEF SharedInv
  <1>5. CASE AllocPage
    <2>1. /\ segment.pc = "alloc" /\ segment'.pc = "fill" /\ segment' # Idle
          /\ segment'.p = segment.p /\ segment'.page = segment.page
          /\ segment'.left = segment.left
          /\ UNCHANGED <<PID, listOfProcesses>>
          /\ pageDirectory' = [pageDirectory EXCEPT
               ![segment.p] = @ \union {DirOf(segment.page)}]
          /\ \A x \in PageDescr : pmt'[x].init = (pmt[x].init \/ x = pd)
      BY <1>1, <1>5, AllocPageKeeps
    <2>2. /\ segment # Idle /\ pd \in PageDescr /\ segment.p \in Processes
          /\ segment.page \in Nat /\ pd = <<segment.p, segment.page>>
      BY <1>1, <2>1, SegmentKinds, CallNumbers DEF SegmentCall, Idle, Descr
    <2>3. sharing.pc = "create"
      BY <2>1, <2>2 DEF SharedInv, AloneInv
    <2>4. pd' = pd /\ HasTable(pd)' /\ \A x \in PageDescr : HasTable(x) => HasTable(x)'
      <3>1. pd' = pd /\ pd[1] = segment.p /\ pd[2] = segment.page
        BY <2>1, <2>2 DEF Descr
      <3>2. HasTable(pd)'
        BY <1>3, <2>1, <2>2, <3>1 DEF HasTable
      <3>3. ASSUME NEW x \in PageDescr
            PROVE  HasTable(x) => HasTable(x)'
        <4>1. x[1] \in Processes
          BY DEF PageDescr
        <4>2. pageDirectory[x[1]] \subseteq pageDirectory'[x[1]]
          BY <1>3, <2>1, <2>2, <4>1
        <4> QED
          BY <4>2 DEF HasTable
      <3> QED
        BY <3>1, <3>2, <3>3
    <2>5. TablesStay /\ HeadsStay
      <3>1. PID \in Nat /\ PID' = PID /\ listOfProcesses' = listOfProcesses
        BY <1>3, <2>1
      <3>2. \A x \in PageDescr : pmt[x].init => pmt'[x].init
        BY <2>1
      <3> QED
        BY <2>4, <3>1, <3>2 DEF TablesStay, HeadsStay
    <2>6. segment.p < PID
      BY <1>1, <2>2 DEF TablesOpen
    <2>7. TablesOpen'
      <3>1. ASSUME NEW x \in PageDescr, pmt'[x].init
            PROVE  x[1] < PID' /\ HasTable(x)'
        <4>1. CASE x = pd
          <5>1. HasTable(x)' /\ x[1] = segment.p
            BY <2>2, <2>4, <4>1
          <5> QED
            BY <2>1, <2>6, <5>1
        <4>2. CASE x # pd
          BY <1>1, <2>1, <2>4, <3>1, <4>2 DEF TablesOpen
        <4> QED
          BY <4>1, <4>2
      <3> QED
        BY <1>1, <2>1, <2>6, <3>1 DEF TablesOpen
    <2>8. AloneInv'
      BY <1>3, <2>1, <2>3 DEF SharedInv, AloneInv
    <2>9. CreateInv'
      <3>1. /\ record.pid = sharing.p /\ sharing.p \in listOfProcesses
            /\ record.start + record.size <= NumPages
            /\ segment.p = sharing.p
            /\ segment.page + segment.left = record.start + record.size
            /\ record.start <= segment.page
            /\ \A page \in record.start .. Reached - 1 :
                 Mapped(<<sharing.p, page>>)
        BY <2>2, <2>3 DEF SharedInv, CreateInv
      <3>2. Reached = segment.page /\ Reached' = segment.page + 1
        BY <2>1, <2>2 DEF Reached
      <3>3. record.start \in Nat /\ record.size \in Nat /\ NumPages \in Nat
        BY <2>3, SharingKinds, CallNumbers
           DEF SharedInv, CreateCall, SharedSegment
      <3>4. ASSUME NEW page \in record.start .. segment.page
            PROVE  Mapped(<<sharing.p, page>>)'
        <4>1. CASE page = segment.page
          <5>1. <<sharing.p, page>> = pd
            BY <2>2, <3>1, <4>1
          <5> QED
            <6>1. HasTable(<<sharing.p, page>>)' /\ pmt'[pd].init
              BY <2>1, <2>2, <2>4, <5>1
            <6>2. sharing' = sharing
              OBVIOUS
            <6> QED
              BY <5>1, <6>1, <6>2 DEF Mapped
        <4>2. CASE page # segment.page
          <5>1. page \in record.start .. segment.page - 1
            BY <2>2, <3>3, <4>2
          <5>2. Mapped(<<sharing.p, page>>)
            BY <3>1, <3>2, <5>1
          <5>3. page \in Nat /\ page <= segment.page
            BY <2>2, <3>3
          <5>4. segment.page \in Pages
            BY <1>1, <2>1, <2>2, SegmentKinds DEF SegmentCall
          <5>5. page \in Pages
            BY <2>2, <5>3, <5>4, CallNumbers DEF Pages
          <5>6. <<sharing.p, page>> \in PageDescr
            BY <2>2, <3>1, <5>5 DEF PageDescr
          <5> QED
            BY <2>1, <2>4, <5>2, <5>6 DEF Mapped
        <4> QED
          BY <4>1, <4>2
      <3>5. Reached' - 1 = segment.page
        BY <2>2, <3>2
      <3>6. \A page \in record.start .. Reached' - 1 :
              Mapped(<<sharing.p, page>>)'
        BY <3>4, <3>5
      <3> HIDE DEF record
      <3> QED
        BY <2>1, <3>1, <3>6 DEF CreateInv, record
    <2> QED
      BY <1>4, <2>3, <2>5, <2>7, <2>8, <2>9
  <1>6. CASE AllocPageDiskFull
    <2>1. /\ UNCHANGED <<pageDirectory, pmt, PID, listOfProcesses, segment>>
          /\ segment.pc = "alloc"
      BY <1>6 DEF AllocPageDiskFull, Exit, callVars
    <2>2. segment # Idle
      BY <2>1 DEF Idle
    <2>3. sharing.pc = "create"
      BY <2>1, <2>2 DEF SharedInv, AloneInv
    <2>4. TablesStay /\ HeadsStay
      BY <2>1, PagesUnchanged
    <2>5. TablesOpen'
      BY <1>1, <2>1 DEF TablesOpen, HasTable
    <2>6. AloneInv' /\ CreateInv'
      BY <1>3, <2>1 DEF SharedInv, AloneInv, CreateInv, Reached, Mapped, HasTable
    <2> QED
      BY <1>4, <2>3, <2>4, <2>5, <2>6
  <1>7. CASE AddPage
    <2>1. /\ segment.pc = "fill"
          /\ UNCHANGED <<pageDirectory, PID, listOfProcesses>>
          /\ \A x \in PageDescr : pmt'[x].init = pmt[x].init
          /\ segment.left = 1 => segment' = Idle
          /\ segment.left # 1 => /\ segment'.pc = "alloc" /\ segment' # Idle
                                 /\ segment'.p = segment.p
                                 /\ segment'.page = segment.page + 1
                                 /\ segment'.left = segment.left - 1
      BY <1>1, <1>7, AddPageKeeps
    <2>2. /\ segment # Idle /\ segment.p \in Processes
          /\ segment.page \in Nat /\ segment.left \in Nat \ {0}
      BY <1>1, <2>1, SegmentKinds, CallNumbers DEF SegmentCall, Idle
    <2>3. sharing.pc = "create"
      BY <2>1, <2>2 DEF SharedInv, AloneInv
    <2>4. TablesStay /\ HeadsStay
      BY <1>3, <2>1 DEF TablesStay, HeadsStay, HasTable
    <2>5. TablesOpen'
      <3>1. segment.p < PID
        BY <1>1, <2>2 DEF TablesOpen
      <3>2. segment' # Idle => segment'.p < PID'
        BY <2>1, <3>1
      <3> QED
        BY <1>1, <2>1, <3>2 DEF TablesOpen, HasTable
    <2>6. AloneInv'
      BY <1>3, <2>1, <2>3 DEF SharedInv, AloneInv, Idle
    <2>7. CreateInv'
      <3>1. /\ record.pid = sharing.p /\ sharing.p \in listOfProcesses
            /\ record.start + record.size <= NumPages
            /\ segment.p = sharing.p
            /\ segment.page + segment.left = record.start + record.size
            /\ record.start <= segment.page
            /\ \A page \in record.start .. Reached - 1 :
                 Mapped(<<sharing.p, page>>)
        BY <2>2, <2>3 DEF SharedInv, CreateInv
      <3>2. record.start \in Nat /\ record.size \in Nat /\ NumPages \in Nat
        BY <2>3, SharingKinds, CallNumbers
           DEF SharedInv, CreateCall, SharedSegment
      <3>3. Reached = segment.page + 1
        BY <2>1, <2>2 DEF Reached
      <3>4. Reached' = segment.page + 1
        <4>1. CASE segment.left = 1
          BY <2>1, <2>2, <3>1, <4>1 DEF Reached
        <4>2. CASE segment.left # 1
          BY <2>1, <4>2 DEF Reached
        <4> QED
          BY <4>1, <4>2
      <3>5. segment' # Idle =>
              /\ segment'.p = sharing.p
              /\ segment'.page + segment'.left = record.start + record.size
              /\ record.start <= segment'.page
        BY <2>1, <2>2, <3>1, <3>2
      <3>6. ASSUME NEW page \in record.start .. segment.page
            PROVE  Mapped(<<sharing.p, page>>)'
        <4>1. Mapped(<<sharing.p, page>>)
          BY <2>2, <3>1, <3>3
        <4>2. page \in Pages
          <5>1. segment.page \in Pages
            BY <1>1, <2>1, <2>2, SegmentKinds DEF SegmentCall
          <5> QED
            BY <2>2, <3>2, <5>1, CallNumbers DEF Pages
        <4>3. <<sharing.p, page>> \in PageDescr
          BY <2>2, <3>1, <4>2 DEF PageDescr
        <4> QED
          BY <2>1, <4>1, <4>3 DEF Mapped, HasTable
      <3>7. Reached' - 1 = segment.page
        BY <2>2, <3>4
      <3>8. \A page \in record.start .. Reached' - 1 :
              Mapped(<<sharing.p, page>>)'
        BY <3>6, <3>7
      <3> HIDE DEF record
      <3> QED
        BY <2>1, <3>1, <3>5, <3>8 DEF CreateInv, record
    <2> QED
      BY <1>4, <2>3, <2>4, <2>5, <2>6, <2>7
  <1>8. CASE RemovePages
    <2>1. /\ segment.pc = "free" /\ segment' = Idle
          /\ UNCHANGED <<pageDirectory, PID, listOfProcesses>>
          /\ \A x \in PageDescr : pmt'[x].init = (pmt[x].init /\ x # pd)
      BY <1>1, <1>8, RemovePagesKeeps
    <2>2. segment # Idle
      BY <2>1 DEF Idle
    <2>3. sharing.pc = "removing"
      BY <2>1, <2>2 DEF SharedInv, AloneInv
    <2>4. TablesStay
      BY <1>3, <2>1 DEF TablesStay, HasTable
    <2>5. TablesOpen'
      BY <1>1, <2>1 DEF TablesOpen, HasTable
    <2>6. AloneInv' /\ CreateInv'
      BY <1>3, <2>1, <2>3 DEF SharedInv, AloneInv, CreateInv, Idle
    <2> QED
      BY <1>4, <2>1, <2>3, <2>4, <2>5, <2>6
  <1> QED
    BY <1>5, <1>6, <1>7, <1>8 DEF SegmentStep, ClaimPage


-----------------------------------------------------------------------------
(* A page is attached *)

\* What lies behind a page table is a table or nothing.
LEMMA BehindType ==
  ASSUME SharingTyped, NEW table
  PROVE  Behind(table) \in (Processes \X Dirs) \union {<<>>}
  <1> DEFINE I == {i \in 1 .. Len(carved) : carved[i] = table}
             i == SelectInSeq(carved, LAMBDA object : object = table)
  <1>1. i \in Nat
    <2>1. CASE I = {}
      BY <2>1 DEF SelectInSeq
    <2>2. CASE I # {}
      <3>1. I \subseteq Nat
        OBVIOUS
      <3>2. Min(I) \in I
        <4> HIDE DEF I
        <4> QED
          BY <2>2, <3>1, MinOfNaturals
      <3>3. i = Min(I)
        BY <2>2 DEF SelectInSeq
      <3> QED
        BY <3>1, <3>2, <3>3
    <2> QED
      BY <2>1, <2>2
  <1>2. Behind(table) = IF i < Len(carved) THEN carved[i + 1] ELSE <<>>
    BY DEF Behind
  <1> HIDE DEF i
  <1>3. carved \in Seq((Processes \X Dirs) \union {<<>>})
    BY DEF SharingTyped
  <1>4. CASE i < Len(carved)
    <2>1. i + 1 \in 1 .. Len(carved)
      BY <1>1, <1>3, <1>4
    <2>2. carved[i + 1] \in (Processes \X Dirs) \union {<<>>}
      BY <1>3, <2>1
    <2> QED
      BY <1>2, <1>4, <2>2
  <1> QED
    BY <1>2, <1>4

\* Where an attaching call stands: at a page that is free, with the creator's
\* directory entry at a table the creator has.
LEMMA AttachFacts ==
  ASSUME SharedInv, sharing.pc = "attach"
  PROVE  /\ sharing \in AttachCall /\ sharing # Idle
         /\ segment = Idle /\ instruction = Idle
         /\ sharing.p \in Processes /\ sharing.p < PID
         /\ sharing.page \in Pages /\ sharing.page \in Nat
         /\ sharing.record \in SharedSegment
         /\ sharing.record.start \in Nat /\ sharing.record.size \in Nat
         /\ sharing.left \in Nat /\ sharing.left # 0
         /\ sharing.left <= sharing.record.size
         /\ sharing.page + sharing.left <= NumPages - 1
         /\ sharing.entry \in Nat /\ sharing.dir \in Dirs /\ sharing.dir \in Nat
         /\ sharing.dir \in pageDirectory[sharing.record.pid]
         /\ Descr(sharing) = <<sharing.p, sharing.page>>
         /\ Descr(sharing) \in PageDescr
         /\ ~pmt[Descr(sharing)].init /\ pmt[Descr(sharing)].numOfPages = 0
  <1> DEFINE record == sharing.record
  <1>1. sharing \in AttachCall /\ sharing # Idle
    BY SharingKinds DEF SharedInv, Idle
  <1>2. segment = Idle /\ instruction = Idle
    BY <1>1 DEF SharedInv, AloneInv
  <1>3. /\ sharing.p \in Processes /\ sharing.p < PID
        /\ sharing.page \in Pages /\ sharing.page \in Nat
        /\ record \in SharedSegment /\ sharing.left \in Nat
        /\ sharing.entry \in Nat /\ sharing.dir \in Nat
    BY <1>1, CallNumbers DEF SharedInv, ListersInv, AttachCall
  <1>4. record.start \in Nat /\ record.size \in Nat
    BY <1>3, CallNumbers DEF SharedSegment
  <1>5. /\ HasPages(record) /\ sharing.left \in 1 .. record.size
        /\ sharing.page + sharing.left <= NumPages - 1
        /\ \A page \in sharing.page .. sharing.page + sharing.left - 1 :
             ~pmt[<<sharing.p, page>>].init
        /\ DirOf(record.start) <= sharing.dir
        /\ sharing.dir * MAX_PMT_ENTRIES + sharing.entry <=
             record.start + record.size - sharing.left
    BY DEF SharedInv, AttachInv
  <1> HIDE DEF record
  <1>6. /\ sharing.left # 0 /\ sharing.left <= record.size
        /\ sharing.page \in sharing.page .. sharing.page + sharing.left - 1
    BY <1>3, <1>4, <1>5
  <1>7. /\ Descr(sharing) = <<sharing.p, sharing.page>>
        /\ Descr(sharing) \in PageDescr /\ ~pmt[Descr(sharing)].init
    BY <1>3, <1>5, <1>6 DEF Descr, PageDescr
  <1>8. pmt[Descr(sharing)].numOfPages = 0
    BY <1>7 DEF SharedInv, TypeInv, BlocksAssigned
  <1>9. sharing.dir \in pageDirectory[record.pid]
    <2>1. PICK q \in Nat : q = record.start + record.size - sharing.left
      BY <1>3, <1>4, <1>6
    <2>2. record.start <= q /\ q <= record.start + record.size - 1
      BY <1>3, <1>4, <1>6, <2>1
    <2>3. sharing.dir * MAX_PMT_ENTRIES + sharing.entry <= q
      BY <1>5, <2>1
    <2>4. PICK page \in record.start .. q : DirOf(page) = sharing.dir
      BY <1>3, <1>4, <1>5, <2>2, <2>3, DirReached
    <2>5. page \in record.start .. record.start + record.size - 1
      BY <1>4, <2>2, <2>4
    <2>6. HasTable(<<record.pid, page>>)
      BY <1>5, <2>5 DEF HasPages
    <2> QED
      BY <2>4, <2>6 DEF HasTable
  <1>10. sharing.dir \in Dirs
    <2>1. record.pid \in Processes
      BY <1>3 DEF SharedSegment
    <2> QED
      BY <1>9, <2>1 DEF SharedInv, TypeInv, TypeOK, KernelTypeOK
  <1> QED
    BY <1>1, <1>2, <1>3, <1>4, <1>5, <1>6, <1>7, <1>8, <1>9, <1>10 DEF record

\* What is copied is an entry, that of the segment's first page when the first
\* page is attached.
LEMMA SourceType ==
  ASSUME SharedInv, sharing.pc = "attach"
  PROVE  /\ SourceEntry \in PageDescriptor /\ EntryAssigned(SourceEntry)
         /\ sharing.left = sharing.record.size => SourceEntry.init
         /\ SourceTable \in Dirs
  <1> DEFINE record == sharing.record
             inside == sharing.entry < MAX_PMT_ENTRIES
             own    == <<record.pid, SourceTable>>
             table  == IF inside THEN own ELSE Behind(own)
             entry  == IF inside THEN sharing.entry
                       ELSE sharing.entry - MAX_PMT_ENTRIES
  <1>1. /\ sharing \in AttachCall /\ record \in SharedSegment
        /\ segment = Idle /\ sharing.dir \in Dirs /\ sharing.entry \in Nat
    BY AttachFacts
  <1>2. SourceTable \in Dirs
    BY <1>1 DEF SourceTable, AttachCall
  <1>3. own \in Processes \X Dirs
    BY <1>1, <1>2 DEF SharedSegment
  <1>4. Behind(own) \in (Processes \X Dirs) \union {<<>>}
    BY BehindType DEF SharedInv
  <1>5. table \in (Processes \X Dirs) \union {<<>>}
    BY <1>3, <1>4
  <1>6. entry \in Nat
    BY <1>1, SizeAssumption
  <1>7. FreshEntry \in PageDescriptor /\ EntryAssigned(FreshEntry)
    BY SizeAssumption DEF FreshEntry, PageDescriptor, Clusters, EntryAssigned
  <1>8. /\ pmt \in [PageDescr -> PageDescriptor]
        /\ \A pd \in PageDescr : EntryAssigned(pmt[pd])
    BY <1>1, QuietBlocks DEF SharedInv, TypeInv, TypeOK, KernelTypeOK
  <1>9. SourceEntry =
          IF table = <<>> \/ entry >= MAX_PMT_ENTRIES THEN FreshEntry
          ELSE pmt[<<table[1], table[2] * MAX_PMT_ENTRIES + entry>>]
    BY DEF SourceEntry
  <1> HIDE DEF table, entry
  <1>10. ASSUME table # <<>>, ~(entry >= MAX_PMT_ENTRIES)
         PROVE  <<table[1], table[2] * MAX_PMT_ENTRIES + entry>> \in PageDescr
    <2>1. table[1] \in Processes /\ table[2] \in Dirs
      BY <1>5, <1>10
    <2>2. entry \in 0 .. MAX_PMT_ENTRIES - 1
      BY <1>6, <1>10, SizeAssumption
    <2>3. table[2] * MAX_PMT_ENTRIES + entry \in Pages
      BY <2>1, <2>2, PageOfEntry
    <2> QED
      BY <2>1, <2>3 DEF PageDescr
  <1>11. SourceEntry \in PageDescriptor /\ EntryAssigned(SourceEntry)
    BY <1>7, <1>8, <1>9, <1>10
  <1>12. ASSUME sharing.left = record.size
         PROVE  SourceEntry.init
    <2>1. /\ sharing.dir = DirOf(record.start)
          /\ sharing.entry = EntryOf(record.start)
          /\ ~sharing.fresh
          /\ pmt[<<record.pid, record.start>>].init
      BY <1>12 DEF SharedInv, AttachInv
    <2>2. SourceTable = sharing.dir
      BY <2>1 DEF SourceTable, InFresh
    <2>3. record.start \in Nat
      BY AttachFacts
    <2>4. /\ DirOf(record.start) \in Nat
          /\ EntryOf(record.start) \in 0 .. MAX_PMT_ENTRIES - 1
          /\ record.start =
               DirOf(record.start) * MAX_PMT_ENTRIES + EntryOf(record.start)
      <3> HIDE DEF record
      <3> QED
        BY <2>3, EntryOfPage
    <2>5. inside /\ sharing.entry \in Nat
      BY <2>1, <2>4, SizeAssumption
    <2>6. table = <<record.pid, sharing.dir>> /\ entry = sharing.entry
      BY <2>2, <2>5 DEF table, entry
    <2>7. table # <<>> /\ ~(entry >= MAX_PMT_ENTRIES)
      BY <2>5, <2>6, SizeAssumption
    <2>8. <<table[1], table[2] * MAX_PMT_ENTRIES + entry>>
            = <<record.pid, record.start>>
      BY <2>1, <2>4, <2>6
    <2> QED
      BY <1>9, <2>1, <2>7, <2>8
  <1> QED
    BY <1>2, <1>11, <1>12

\* The creator's index never gets ahead of the pages.
LEMMA NextSourceReached ==
  ASSUME SharedInv, sharing.pc = "attach"
  PROVE  /\ NextSource[1] \in Nat /\ NextSource[2] \in Nat
         /\ DirOf(sharing.record.start) <= NextSource[1]
         /\ NextSource[1] * MAX_PMT_ENTRIES + NextSource[2] <=
              sharing.record.start + sharing.record.size - (sharing.left - 1)
  <1>1. PICK n, dir, entry, from, end \in Nat :
          /\ n = MAX_PMT_ENTRIES /\ dir = sharing.dir /\ entry = sharing.entry
          /\ from = DirOf(sharing.record.start)
          /\ end = sharing.record.start + sharing.record.size - sharing.left
    <2>1. /\ sharing.dir \in Nat /\ sharing.entry \in Nat
          /\ sharing.record.start \in Nat /\ sharing.record.size \in Nat
          /\ sharing.left \in Nat /\ sharing.left <= sharing.record.size
      BY AttachFacts
    <2>2. DirOf(sharing.record.start) \in Nat
      BY <2>1, EntryOfPage
    <2>3. sharing.record.start + sharing.record.size - sharing.left \in Nat
      BY <2>1
    <2> QED
      BY <2>1, <2>2, <2>3, SizeAssumption
  <1>2. from <= dir /\ dir * n + entry <= end
    BY <1>1 DEF SharedInv, AttachInv
  <1>3. sharing.record.start + sharing.record.size - (sharing.left - 1) = end + 1
    BY <1>1, AttachFacts
  <1>4. CASE Wraps
    <2>1. entry = n \/ entry + 1 = n
      BY <1>1, <1>4 DEF Wraps
    <2>2. NextSource[1] = dir + 1 /\ NextSource[2] = 0
      BY <1>1, <1>4 DEF NextSource
    <2>3. (dir + 1) * n = dir * n + n /\ dir * n \in Nat
      OBVIOUS
    <2>4. (dir + 1) * n + 0 <= end + 1
      BY <1>2, <2>1, <2>3
    <2> QED
      BY <1>1, <1>2, <1>3, <2>2, <2>4
  <1>5. CASE ~Wraps
    <2>1. NextSource[1] = dir /\ NextSource[2] = entry + 1
      BY <1>1, <1>5 DEF NextSource
    <2>2. dir * n \in Nat
      OBVIOUS
    <2>3. dir * n + (entry + 1) <= end + 1
      BY <1>2, <2>2
    <2> QED
      BY <1>1, <1>2, <1>3, <2>1, <2>3
  <1> QED
    BY <1>4, <1>5


\* A page of a shared segment is attached.
LEMMA AttachPageInv ==
  ASSUME SharedInv, AttachPage
  PROVE  /\ SharedInv' /\ TablesStay /\ HeadsStay
         /\ \A x \in PageDescr :
              /\ x # Descr(sharing) => pmt'[x].init = pmt[x].init
              /\ x = Descr(sharing) /\ sharing.left = sharing.record.size =>
                   Mapped(x)'
  <1> DEFINE source == SourceEntry
             head   == sharing.left = sharing.record.size
             done   == sharing.record.size - sharing.left
             entry  == [pmt[Descr(sharing)] EXCEPT !.init = source.init,
                          !.valid = source.valid,
                          !.dirty = IF InFresh THEN @ ELSE source.dirty,
                          !.block = source.block,
                          !.rwe = source.rwe,
                          !.sourceAddress = source.sourceAddress,
                          !.numOfPages = IF head THEN sharing.asked ELSE @]
  <1>1. /\ sharing.pc = "attach"
        /\ pageDirectory' =
             [pageDirectory EXCEPT ![sharing.p] = @ \union {DirOf(sharing.page)}]
        /\ pmt' = [pmt EXCEPT ![Descr(sharing)] = entry]
        /\ home' = [home EXCEPT ![Descr(sharing)] =
                      <<sharing.record.pid, sharing.record.start + done>>]
        /\ CarveTable /\ Advance
        /\ UNCHANGED <<pmtTable, fifoQueue, diskTable, memory, partition,
                       listOfProcesses, PID, exited, callVars, testVars,
                       listOfSharedSegments, systemSegments>>
    <2>1. pmt' = [pmt EXCEPT ![Descr(sharing)] = entry]
      BY DEF AttachPage
    <2> HIDE DEF entry
    <2> QED
      BY <2>1 DEF AttachPage
  <1>2. /\ sharing \in AttachCall /\ segment = Idle /\ instruction = Idle
        /\ sharing.p \in Processes /\ sharing.p < PID
        /\ sharing.record \in SharedSegment
        /\ Descr(sharing) = <<sharing.p, sharing.page>>
        /\ Descr(sharing) \in PageDescr /\ sharing.page \in Pages
        /\ ~pmt[Descr(sharing)].init /\ pmt[Descr(sharing)].numOfPages = 0
    BY <1>1, AttachFacts
  <1>3. /\ source \in PageDescriptor /\ EntryAssigned(source)
        /\ head => source.init
        /\ SourceTable \in Dirs
    BY <1>1, SourceType
  <1>4. /\ KernelTypeOK /\ PID \in Nat
        /\ pmt \in [PageDescr -> PageDescriptor]
        /\ pageDirectory \in [Processes -> SUBSET Dirs]
        /\ \A x \in PageDescr : EntryAssigned(pmt[x])
        /\ lastWritten \in [PageDescr -> Contents \union {nullptr}]
    BY <1>2, QuietBlocks DEF SharedInv, TypeInv, TypeOK, KernelTypeOK
  <1>5. InFresh \in BOOLEAN
    BY DEF InFresh, HasTable
  <1>6. /\ entry \in PageDescriptor
        /\ entry.init = source.init /\ entry.block = source.block
        /\ entry.numOfPages = IF head THEN sharing.asked ELSE 0
    <2>1. PICK e \in PageDescriptor, from \in PageDescriptor :
            e = pmt[Descr(sharing)] /\ from = source
      BY <1>2, <1>3, <1>4
    <2>2. PICK dirty \in BOOLEAN :
            dirty = IF InFresh THEN e.dirty ELSE from.dirty
      BY <1>5 DEF PageDescriptor
    <2>3. PICK pages \in Nat :
            pages = IF head THEN sharing.asked ELSE e.numOfPages
      BY <1>2 DEF PageDescriptor, AttachCall
    <2>4. entry = [e EXCEPT !.init = from.init, !.valid = from.valid,
                     !.dirty = dirty, !.block = from.block, !.rwe = from.rwe,
                     !.sourceAddress = from.sourceAddress,
                     !.numOfPages = pages]
      <3> HIDE DEF source, head
      <3> QED
        BY <2>1, <2>2, <2>3
    <2> HIDE DEF entry, source, head
    <2>5. /\ from.init \in BOOLEAN /\ from.valid \in BOOLEAN
          /\ from.block \in Frames \union {nullptr}
          /\ from.rwe \in AccessType \union {wild}
          /\ from.sourceAddress \in Contents \union {nullptr, wild}
      BY DEF PageDescriptor
    <2>6. /\ entry \in PageDescriptor
          /\ entry.init = from.init /\ entry.block = from.block
          /\ entry.numOfPages = pages
      BY <2>4, <2>5 DEF PageDescriptor
    <2> QED
      BY <1>2, <2>1, <2>3, <2>6
  <1>7. EntryAssigned(entry) /\ (head => entry.init)
    <2> HIDE DEF entry, source, head
    <2> QED
      BY <1>3, <1>6 DEF EntryAssigned
  <1> HIDE DEF entry
  <1>8. PICK pd \in PageDescr, p \in Processes, page \in Pages :
          /\ pd = Descr(sharing) /\ p = sharing.p /\ page = sharing.page
          /\ pd = <<p, page>>
    BY <1>2
  <1>9. /\ pmt' = [pmt EXCEPT ![pd] = entry] /\ ~pmt[pd].init
        /\ pageDirectory' = [pageDirectory EXCEPT ![p] = @ \union {DirOf(page)}]
        /\ DirOf(page) \in Dirs /\ p < PID
    BY <1>1, <1>2, <1>8, DirOfPage
  <1>10. KernelTypeOK'
    <2>1. pmt' \in [PageDescr -> PageDescriptor]
      BY <1>4, <1>6, <1>9
    <2>2. pageDirectory' \in [Processes -> SUBSET Dirs]
      BY <1>4, <1>9
    <2> QED
      BY <1>1, <1>4, <2>1, <2>2 DEF KernelTypeOK
  <1>11. /\ segment' = Idle /\ instruction' = Idle
         /\ UNCHANGED <<PID, listOfProcesses, listOfSharedSegments,
                        systemSegments, segment, fault, instruction,
                        lastWritten>>
    BY <1>1, <1>2 DEF callVars, testVars
  <1>12. TypeInv'
    <2>1. \A x \in PageDescr : EntryAssigned(pmt'[x])
      BY <1>4, <1>7, <1>9
    <2> QED
      BY <1>2, <1>4, <1>10, <1>11, <2>1, QuietTypeInv DEF SharedInv
  <1>13. /\ \A x \in PageDescr : x # pd => pmt'[x].init = pmt[x].init
         /\ head => pmt'[pd].init
    BY <1>4, <1>7, <1>9
  <1>14. HasTable(pd)' /\ \A x \in PageDescr : HasTable(x) => HasTable(x)'
    <2>1. HasTable(pd)'
      BY <1>4, <1>8, <1>9 DEF HasTable
    <2>2. ASSUME NEW x \in PageDescr
          PROVE  HasTable(x) => HasTable(x)'
      <3>1. x[1] \in Processes
        BY DEF PageDescr
      <3>2. pageDirectory[x[1]] \subseteq pageDirectory'[x[1]]
        BY <1>4, <1>9, <3>1
      <3> QED
        BY <3>2 DEF HasTable
    <2> QED
      BY <2>1, <2>2
  <1>15. TablesStay /\ HeadsStay
    <2>1. \A x \in PageDescr : pmt[x].init => pmt'[x].init
      BY <1>9, <1>13
    <2> QED
      BY <1>4, <1>11, <1>14, <2>1 DEF TablesStay, HeadsStay
  <1>16. TablesOpen'
    <2>1. ASSUME NEW x \in PageDescr, pmt'[x].init
          PROVE  x[1] < PID' /\ HasTable(x)'
      <3>1. CASE x = pd
        BY <1>8, <1>9, <1>11, <1>14, <3>1
      <3>2. CASE x # pd
        <4>1. x[1] < PID /\ HasTable(x)
          BY <1>13, <2>1, <3>2 DEF SharedInv, TablesOpen
        <4> QED
          BY <1>11, <1>14, <4>1
      <3> QED
        BY <3>1, <3>2
    <2> QED
      BY <1>11, <2>1 DEF SharedInv, TablesOpen
  <1>17. PICK record \in SharedSegment, left \in Nat, dir \in Nat, index \in Nat :
           /\ record = sharing.record /\ left = sharing.left
           /\ dir = NextSource[1] /\ index = NextSource[2]
           /\ left # 0 /\ left <= record.size
           /\ page + left <= NumPages - 1
           /\ record.start \in Nat /\ record.size \in Nat /\ page \in Nat
           /\ DirOf(record.start) <= dir
           /\ dir * MAX_PMT_ENTRIES + index <=
                record.start + record.size - (left - 1)
    BY <1>1, <1>8, AttachFacts, NextSourceReached
  <1>18. /\ sharing'.pc = (IF left = 1 THEN "publish" ELSE "attach")
         /\ sharing'.p = p /\ sharing'.record = record
         /\ sharing'.page = page + 1 /\ sharing'.left = left - 1
         /\ sharing'.dir = dir /\ sharing'.entry = index
         /\ sharing' \in AttachCall
    <2>1. sharing' = [sharing EXCEPT
            !.pc = IF left = 1 THEN "publish" ELSE "attach",
            !.page = page + 1, !.left = left - 1,
            !.fresh = InFresh, !.table = SourceTable,
            !.dir = dir, !.entry = index]
      BY <1>1, <1>8, <1>17 DEF Advance
    <2>2. page + 1 \in Pages /\ left - 1 \in Nat
      BY <1>17, CallNumbers DEF Pages
    <2>3. PICK pc \in {"attach", "publish"} :
            pc = IF left = 1 THEN "publish" ELSE "attach"
      OBVIOUS
    <2>4. sharing' = [sharing EXCEPT
            !.pc = pc, !.page = page + 1, !.left = left - 1,
            !.fresh = InFresh, !.table = SourceTable,
            !.dir = dir, !.entry = index]
      BY <2>1, <2>3
    <2>5. /\ sharing' \in AttachCall /\ sharing'.pc = pc
          /\ sharing'.p = sharing.p /\ sharing'.record = sharing.record
          /\ sharing'.page = page + 1 /\ sharing'.left = left - 1
          /\ sharing'.dir = dir /\ sharing'.entry = index
      <3>1. PICK fresh \in BOOLEAN, table \in Dirs :
              fresh = InFresh /\ table = SourceTable
        BY <1>3, <1>5
      <3> QED
        BY <1>2, <2>2, <2>4, <3>1 DEF AttachCall
    <2> QED
      BY <1>8, <1>17, <2>3, <2>5
  <1>19. /\ sharing'.pc \in {"attach", "publish"} /\ sharing' # Idle
         /\ sharing # Idle
    BY <1>1, <1>18 DEF Idle
  <1>20. SharingTyped'
    <2>1. home' \in [PageDescr -> PageDescr \union {nullptr}]
      <3>1. record.start + done \in Pages
        <4>1. record.start + record.size <= NumPages
          BY <1>1, <1>17 DEF SharedInv, AttachInv, HasPages
        <4> QED
          BY <1>17, <4>1, CallNumbers DEF Pages
      <3>2. <<record.pid, record.start + done>> \in PageDescr
        BY <3>1 DEF PageDescr, SharedSegment
      <3> QED
        BY <1>1, <1>17, <3>2 DEF SharedInv, SharingTyped
    <2> QED
      BY <1>1, <1>11, <1>18, <2>1, CarvedType DEF SharedInv, SharingTyped
  <1>21. AloneInv' /\ CreateInv' /\ RemoveInv'
    BY <1>11, <1>19 DEF AloneInv, CreateInv, RemoveInv
  <1>22. ListersInv'
    BY <1>9, <1>11, <1>18 DEF SharedInv, ListersInv
  <1>23. ASSUME left # 1
         PROVE  AttachInv'
    <2>1. HasPages(record)'
      <3>1. HasPages(record)
        BY <1>1, <1>17 DEF SharedInv, AttachInv
      <3> QED
        BY <1>15, <3>1, RecordsStay
    <2>2. left - 1 \in 1 .. record.size /\ left - 1 # record.size
      BY <1>17, <1>23
    <2>3. (page + 1) + (left - 1) <= NumPages - 1
      BY <1>17
    <2>4. \A q \in page + 1 .. (page + 1) + (left - 1) - 1 : ~pmt'[<<p, q>>].init
      <3> SUFFICES ASSUME NEW q \in page + 1 .. (page + 1) + (left - 1) - 1
                   PROVE  ~pmt'[<<p, q>>].init
        OBVIOUS
      <3>1. q \in page .. page + left - 1 /\ q # page /\ q \in Pages
        BY <1>17, CallNumbers DEF Pages
      <3>2. ~pmt[<<p, q>>].init
        BY <1>1, <1>8, <1>17, <3>1 DEF SharedInv, AttachInv
      <3>3. <<p, q>> \in PageDescr /\ <<p, q>> # pd
        BY <1>8, <3>1 DEF PageDescr
      <3> QED
        BY <1>13, <3>2, <3>3
    <2> QED
      BY <1>17, <1>18, <2>1, <2>2, <2>3, <2>4 DEF AttachInv
  <1>24. AttachInv'
    <2>1. CASE left = 1
      BY <1>18, <2>1 DEF AttachInv
    <2> QED
      BY <1>23, <2>1
  <1>25. \A x \in Known' : HasPages(x)'
    BY <1>11, <1>15, RecordsStay, KnownRecord DEF SharedInv, Known
  <1>26. SharedInv'
    BY <1>12, <1>16, <1>20, <1>21, <1>22, <1>24, <1>25 DEF SharedInv
  <1>27. ASSUME NEW x \in PageDescr, x = Descr(sharing), head
         PROVE  Mapped(x)'
    BY <1>8, <1>13, <1>14, <1>27 DEF Mapped
  <1> QED
    BY <1>8, <1>13, <1>15, <1>26, <1>27


-----------------------------------------------------------------------------
(* A segment is removed *)

\* There is a process whose turn it is, and it lists the segment.
LEMMA TurnFound ==
  ASSUME SharedInv, sharing.pc \in {"remove", "removing"}
  PROVE  /\ sharing \in RemoveCall /\ sharing # Idle
         /\ Turn \in sharing.todo /\ Turn \in Processes
         /\ Listed(listOfSharedSegments[Turn], sharing.record.name)
         /\ listOfSharedSegments[Turn] \in Seq(SharedSegment)
         /\ listOfSharedSegments \in [Processes -> Seq(SharedSegment)]
         /\ instruction = Idle
  <1>1. sharing \in RemoveCall /\ sharing # Idle
    BY SharingKinds DEF SharedInv, Idle
  <1>2. /\ sharing.todo # {} /\ sharing.todo \subseteq Processes
        /\ \A p \in sharing.todo :
             Listed(listOfSharedSegments[p], sharing.record.name)
    BY <1>1 DEF SharedInv, RemoveInv, RemoveCall
  <1>3. sharing.todo \subseteq Nat
    BY <1>2, CallNumbers
  <1>4. Turn \in sharing.todo
    <2> DEFINE others == sharing.todo \ {sharing.p}
    <2>1. CASE others = {}
      BY <1>2, <2>1 DEF Turn
    <2>2. CASE others # {}
      <3>1. others \subseteq Nat
        BY <1>3
      <3>2. Turn = Min(others)
        BY <2>2 DEF Turn
      <3>3. Min(others) \in others
        <4> HIDE DEF others
        <4> QED
          BY <2>2, <3>1, MinOfNaturals
      <3> QED
        BY <3>2, <3>3
    <2> QED
      BY <2>1, <2>2
  <1>5. /\ listOfSharedSegments \in [Processes -> Seq(SharedSegment)]
        /\ instruction = Idle
    BY <1>1 DEF SharedInv, SharingTyped, AloneInv
  <1> QED
    BY <1>1, <1>2, <1>4, <1>5

\* It frees the pages its record names ...
LEMMA DeletePagesInv ==
  ASSUME SharedInv, DeletePages
  PROVE  SharedInv' /\ TablesStay /\ HeadsStay
  <1> DEFINE start == Named(listOfSharedSegments[Turn], sharing.record.name).start
  <1>1. /\ sharing.pc = "remove"
        /\ UNCHANGED <<testVars, listOfSharedSegments, systemSegments, carved,
                       home>>
        /\ \/ /\ deleteSegment(Turn, start)
              /\ sharing' = [sharing EXCEPT !.pc = "removing"]
           \/ RefuseDelete(Turn, start) /\ UNCHANGED sharing
    BY DEF DeletePages
  <1>2. /\ sharing \in RemoveCall /\ sharing # Idle
        /\ Turn \in sharing.todo /\ Turn \in Processes
        /\ start \in Pages /\ instruction = Idle
    BY <1>1, TurnFound, NamedRecord DEF SharedSegment
  <1> HIDE DEF start
  <1>3. CASE deleteSegment(Turn, start)
    <2>1. /\ segment'.pc = "free" /\ segment'.p = Turn /\ segment' # Idle
          /\ Turn \in listOfProcesses
          /\ UNCHANGED <<pageDirectory, pmt, PID, listOfProcesses, instruction>>
      BY <1>1, <1>3 DEF deleteSegment, kernelVars, testVars, Idle
    <2>2. sharing' = [sharing EXCEPT !.pc = "removing"]
      <3>1. segment' # segment
        BY <1>3, <2>1 DEF deleteSegment, Idle
      <3> QED
        BY <1>1, <3>1 DEF RefuseDelete, callVars
    <2>3. /\ sharing' \in RemoveCall /\ sharing'.pc = "removing"
          /\ sharing'.p = sharing.p /\ sharing'.record = sharing.record
          /\ sharing'.todo = sharing.todo
      BY <1>2, <2>2 DEF RemoveCall
    <2>4. TypeInv'
      <3>1. DeleteSegment(Turn, start)
        BY <1>1, <1>3 DEF DeleteSegment
      <3> QED
        BY <1>2, <3>1, CallsTypeInv DEF SharedInv, AnyCall
    <2>5. SharingTyped'
      BY <1>1, <2>3 DEF SharedInv, SharingTyped
    <2>6. TablesStay /\ HeadsStay
      BY <2>1, PagesUnchanged
    <2>7. TablesOpen'
      BY <2>1 DEF SharedInv, TablesOpen, HasTable
    <2>8. AloneInv' /\ CreateInv' /\ AttachInv'
      BY <1>2, <2>1, <2>3 DEF AloneInv, CreateInv, AttachInv
    <2>9. ListersInv' /\ RemoveInv'
      BY <1>1, <1>2, <2>1, <2>3 DEF SharedInv, ListersInv, RemoveInv
    <2>10. \A x \in Known' : HasPages(x)'
      BY <1>1, <2>6, RecordsStay, KnownRecord DEF SharedInv, Known
    <2> QED
      BY <2>4, <2>5, <2>6, <2>7, <2>8, <2>9, <2>10 DEF SharedInv
  <1>4. CASE RefuseDelete(Turn, start) /\ UNCHANGED sharing
    <2>1. \E reason \in ExitReasons : Exit(reason)
      BY <1>4 DEF RefuseDelete, ExitReasons
    <2>2. UNCHANGED <<callVars, testVars, sharedVars>>
      BY <1>1, <1>4 DEF RefuseDelete, sharedVars
    <2>3. TypeInv'
      BY <2>1, <2>2, ExitTypeInv DEF SharedInv
    <2>4. UNCHANGED <<pageDirectory, pmt, PID, listOfProcesses, segment,
                      instruction>>
      BY <2>1, <2>2 DEF Exit, callVars, testVars
    <2> QED
      BY <2>2, <2>3, <2>4, Untouched, PagesUnchanged
  <1> QED
    BY <1>1, <1>3, <1>4

\* ... and strikes the record off its list.
LEMMA UnlistInv ==
  ASSUME SharedInv, Unlist
  PROVE  SharedInv' /\ TablesStay /\ HeadsStay
  <1> DEFINE name == sharing.record.name
  <1>1. /\ sharing.pc = "removing" /\ segment = Idle
        /\ listOfSharedSegments' =
             [listOfSharedSegments EXCEPT ![Turn] = Without(@, name)]
        /\ sharing' = IF sharing.todo = {Turn} THEN Idle
                      ELSE [sharing EXCEPT !.pc = "remove", !.todo = @ \ {Turn}]
        /\ UNCHANGED <<vars, systemSegments, carved, home>>
    BY DEF Unlist
  <1>2. /\ sharing \in RemoveCall /\ sharing # Idle
        /\ Turn \in sharing.todo /\ Turn \in Processes
        /\ Listed(listOfSharedSegments[Turn], name)
        /\ listOfSharedSegments[Turn] \in Seq(SharedSegment)
        /\ listOfSharedSegments \in [Processes -> Seq(SharedSegment)]
        /\ instruction = Idle
    BY <1>1, TurnFound
  <1>3. PICK t \in Processes : t = Turn
    BY <1>2
  <1>4. /\ UNCHANGED <<pageDirectory, pmt, PID, listOfProcesses, segment,
                       instruction>>
        /\ TypeInv'
    BY <1>1, NextTypeInv DEF vars, kernelVars, callVars, SharedInv
  <1>5. TablesStay /\ HeadsStay
    BY <1>4, PagesUnchanged
  <1>6. /\ listOfSharedSegments' \in [Processes -> Seq(SharedSegment)]
        /\ \A p \in Processes :
             p # t => listOfSharedSegments'[p] = listOfSharedSegments[p]
        /\ listOfSharedSegments[t] # <<>>
    <2>1. Without(listOfSharedSegments[t], name) \in Seq(SharedSegment)
      BY <1>2, <1>3, RemovedRecord
    <2>2. listOfSharedSegments[t] # <<>>
      BY <1>2, <1>3 DEF Listed
    <2> QED
      BY <1>1, <1>2, <1>3, <2>1, <2>2
  <1>7. \/ sharing' = Idle
        \/ /\ sharing' \in RemoveCall /\ sharing'.pc = "remove"
           /\ sharing'.p = sharing.p /\ sharing'.record = sharing.record
           /\ sharing'.todo = sharing.todo \ {t} /\ sharing'.todo # {}
    BY ZenonT(40), <1>1, <1>2, <1>3 DEF RemoveCall
  <1>8. SharingTyped'
    BY <1>1, <1>6, <1>7 DEF SharedInv, SharingTyped
  <1>9. TablesOpen'
    BY <1>4 DEF SharedInv, TablesOpen, HasTable
  <1>10. AloneInv' /\ CreateInv' /\ AttachInv'
    BY <1>1, <1>2, <1>4, <1>7 DEF AloneInv, CreateInv, AttachInv, Idle
  <1>11. ListersInv'
    <2>1. \A p \in Processes : listOfSharedSegments'[p] # <<>> => p < PID'
      BY <1>4, <1>6 DEF SharedInv, ListersInv
    <2>2. sharing' # Idle => sharing'.p < PID'
      BY <1>2, <1>4, <1>7 DEF SharedInv, ListersInv
    <2> QED
      BY <2>1, <2>2 DEF ListersInv
  <1>12. RemoveInv'
    <2>1. CASE sharing' = Idle
      BY <2>1 DEF RemoveInv, Idle
    <2>2. CASE sharing' # Idle
      <3>1. \A p \in sharing'.todo :
              Listed(listOfSharedSegments'[p], sharing.record.name)
        <4>1. \A p \in sharing.todo :
                p \in Processes /\ Listed(listOfSharedSegments[p], name)
          BY <1>1, <1>2 DEF SharedInv, RemoveInv, RemoveCall
        <4> QED
          BY <1>6, <1>7, <2>2, <4>1
      <3> QED
        BY <1>7, <2>2, <3>1 DEF RemoveInv
    <2> QED
      BY <2>1, <2>2
  <1>13. \A x \in Known' : HasPages(x)'
    BY <1>1, <1>5, RecordsStay, KnownRecord DEF SharedInv, Known
  <1> QED
    BY <1>4, <1>5, <1>8, <1>9, <1>10, <1>11, <1>12, <1>13 DEF SharedInv


-----------------------------------------------------------------------------
(* Segments shared for good *)

\* What the invariant is for: a call's pointers are to tables there are.
LEMMA SharedInvType == SharedInv => SharedTypeOK
  <1> SUFFICES ASSUME SharedInv PROVE SharedTypeOK
    OBVIOUS
  <1>1. sharing.pc = "attach" =>
          sharing.dir \in pageDirectory[sharing.record.pid]
    BY AttachFacts
  <1> QED
    BY <1>1 DEF SharedTypeOK, SharedInv, SharingTyped, TypeInv

\* A step of a call, an instruction or no step.
LEMMA SharedStepInv ==
  ASSUME SharedInv, SharedStep \/ UNCHANGED allVars
  PROVE  /\ SharedInv'
         /\ segment.pc # "free" => (HeadsMapped => HeadsMapped')
  <1>1. CASE Publish
    BY <1>1, PublishInv
  <1>2. CASE AttachPage
    <2>1. SharedInv' /\ TablesStay /\ HeadsStay /\ UNCHANGED systemSegments
      BY <1>2, AttachPageInv DEF AttachPage
    <2> QED
      BY <2>1, HeadsMappedStay
  <1>3. CASE DeletePages \/ Unlist
    <2>1. SharedInv' /\ TablesStay /\ HeadsStay /\ UNCHANGED systemSegments
      BY <1>3, DeletePagesInv, UnlistInv DEF DeletePages, Unlist
    <2> QED
      BY <2>1, HeadsMappedStay
  <1>4. CASE /\ SegmentStep /\ CarveTable
             /\ UNCHANGED <<listOfSharedSegments, systemSegments, sharing, home>>
    <2>1. SharedInv' /\ TablesStay /\ (segment.pc # "free" => HeadsStay)
      BY <1>4, SegmentStepInv
    <2> QED
      BY <1>4, <2>1, HeadsMappedStay
  <1>5. CASE InstructionStep /\ UNCHANGED sharedVars
    <2>1. SharedInv' /\ TablesStay /\ HeadsStay /\ UNCHANGED systemSegments
      BY <1>5, InstructionInv DEF sharedVars
    <2> QED
      BY <2>1, HeadsMappedStay
  <1>6. CASE UNCHANGED vars /\ UNCHANGED sharedVars
    <2>1. TypeInv'
      BY <1>6, NextTypeInv DEF SharedInv
    <2>2. UNCHANGED <<pageDirectory, pmt, PID, listOfProcesses, segment,
                      instruction>>
      BY <1>6 DEF vars, kernelVars, callVars
    <2> QED
      BY <1>6, <2>1, <2>2, Untouched
  <1> QED
    BY <1>1, <1>2, <1>3, <1>4, <1>5, <1>6 DEF SharedStep, Over, allVars

\* A process creates or attaches a segment.
LEMMA CreateSharedInv ==
  ASSUME SharedInv, HeadsMapped,
         NEW p \in Processes, NEW page \in Pages, NEW size \in SegmentSizes,
         NEW name \in Names, NEW flags \in {"EXECUTE", "READ_WRITE"},
         CreateShared(p, page, size, name, flags)
  PROVE  SharedInv' /\ HeadsMapped'
  BY NewSharedInv, AttachStartInv DEF CreateShared

\* Nothing is being removed.
NoRemoval == sharing.pc \notin {"remove", "removing"}

SharingInv == SharedInv /\ HeadsMapped /\ NoRemoval

\* Segments that are shared for good keep the invariant.
LEMMA SharingNextInv == SharingInv /\ [SharedNext]_allVars => SharingInv'
  <1> SUFFICES ASSUME SharedInv, HeadsMapped, NoRemoval, [SharedNext]_allVars
               PROVE  SharedInv' /\ HeadsMapped' /\ NoRemoval'
    BY DEF SharingInv
  <1>1. segment.pc # "free"
    <2>1. segment.pc = "free" => segment # Idle
      BY DEF Idle
    <2> QED
      BY <2>1 DEF SharedInv, AloneInv, NoRemoval
  <1>2. CASE Programs
    <2>1. SharedInv' /\ TablesStay /\ HeadsStay
      BY <1>2, ProgramsInv
    <2>2. UNCHANGED <<systemSegments, sharing>>
      BY <1>2 DEF Programs
    <2> QED
      BY <2>1, <2>2, HeadsMappedStay DEF NoRemoval
  <1>3. ASSUME NEW p \in Processes, NEW page \in Pages, NEW size \in SegmentSizes,
               NEW name \in Names, NEW flags \in {"EXECUTE", "READ_WRITE"},
               CreateShared(p, page, size, name, flags)
        PROVE  SharedInv' /\ HeadsMapped' /\ NoRemoval'
    <2>1. SharedInv' /\ HeadsMapped'
      BY <1>3, CreateSharedInv
    <2>2. CASE NewShared(p, page, size, name, flags)
      <3>1. UNCHANGED sharing \/ sharing'.pc = "create"
        BY <2>2 DEF NewShared
      <3> QED
        BY <2>1, <3>1 DEF NoRemoval
    <2>3. CASE Attach(p, page, size, name, flags)
      <3>1. UNCHANGED sharing \/ sharing'.pc = "attach"
        BY <1>3, <2>3, AttachStartInv
      <3> QED
        BY <2>1, <3>1 DEF NoRemoval
    <2> QED
      BY <1>3, <2>1, <2>2, <2>3 DEF CreateShared
  <1>4. CASE SharedStep \/ UNCHANGED allVars
    <2>1. SharedInv' /\ HeadsMapped'
      BY <1>1, <1>4, SharedStepInv
    <2>2. ~DeletePages /\ ~Unlist
      BY DEF DeletePages, Unlist, NoRemoval
    <2>3. Publish => NoRemoval'
      BY DEF Publish, NoRemoval, Idle
    <2>4. AttachPage => NoRemoval'
      <3>1. ASSUME AttachPage
            PROVE  sharing'.pc \in {"attach", "publish"}
        <4>1. sharing \in AttachCall /\ Advance
          BY <3>1, AttachFacts DEF AttachPage
        <4> QED
          BY <4>1 DEF Advance, AttachCall
      <3> QED
        BY <3>1 DEF NoRemoval
    <2>5. UNCHANGED sharing => NoRemoval'
      BY DEF NoRemoval
    <2> QED
      BY <1>4, <2>1, <2>2, <2>3, <2>4, <2>5 DEF SharedStep, sharedVars, allVars
  <1> QED
    BY <1>2, <1>3, <1>4 DEF SharedNext, AnyCreateShared

\* While segments are shared for good, a call that attaches a page stands at a
\* table of the creator's, whatever tables are opened meanwhile and whatever is
\* paged out: "pmt_ss" never runs off the creator's page directory.
THEOREM SharedTypeCorrect == SharedSpec => []SharedTypeOK
  <1>1. SharedInit => SharingInv
    <2>1. SharedInit => NoRemoval
      BY DEF SharedInit, NoRemoval, Idle
    <2> QED
      BY <2>1, SharedInitInv DEF SharingInv
  <1>2. SharingInv /\ [SharedNext]_allVars => SharingInv'
    BY SharingNextInv
  <1>3. SharingInv => SharedTypeOK
    BY SharedInvType DEF SharingInv
  <1> QED
    BY <1>1, <1>2, <1>3, PTL DEF SharedSpec

-----------------------------------------------------------------------------
(* Segments that are shared and deleted, at one address everywhere.  A name  *)
(* stands for one segment; a process that lists a segment finds it in the    *)
(* kernel's list too, unless it is one of those that are still to delete it; *)
(* the first pages of the segments it lists are there, and no two at one     *)
(* address.                                                                  *)

Alike(r, k) == r.name = k.name /\ r.pid = k.pid /\ r.start = k.start

Removing == sharing.pc \in {"remove", "removing"}

\* Process p has still to delete the segment of its record r.
Going(p, r) ==
  Removing /\ sharing.everywhere /\ p \in sharing.todo /\ Alike(r, sharing.record)

\* Process p has freed the first page and has still to strike r off.
Emptied(p, r) ==
  /\ sharing.pc = "removing" /\ segment = Idle
  /\ p = Turn /\ r.name = sharing.record.name

\* The names in the lists ...
NamesInv ==
  /\ Once(systemSegments)
  /\ \A p \in Processes : Once(listOfSharedSegments[p])
  /\ \A k \in Known : \E r \in ListOf(k.pid) : Alike(r, k)
  /\ \A p \in listOfProcesses : \A r \in ListOf(p) :
       (\E k \in Known : Alike(r, k)) \/ Going(p, r)

\* ... and the pages behind them.
FirstPagesInv ==
  /\ \A p \in Processes : \A r, x \in ListOf(p) : r.start = x.start => r = x
  /\ \A p \in listOfProcesses : \A r \in ListOf(p) :
       ~Emptied(p, r) => Mapped(<<p, r.start>>)

\* The segment a call adds to the caller's list is new to it ...
AddingInv ==
  sharing.pc \in {"create", "attach", "publish"} =>
    /\ sharing.p \in listOfProcesses
    /\ ~Listed(listOfSharedSegments[sharing.p], sharing.record.name)
    /\ \A x \in ListOf(sharing.p) : x.start # sharing.record.start
    /\ sharing.pc = "create" => ~Listed(systemSegments, sharing.record.name)
    /\ sharing.pc \in {"attach", "publish"} =>
         /\ \E k \in Known : Alike(sharing.record, k)
         /\ sharing.page + sharing.left =
              sharing.record.start + sharing.record.size
         /\ sharing.pc = "publish" => sharing.left = 0
         /\ sharing.left < sharing.record.size =>
              Mapped(<<sharing.p, sharing.record.start>>)

\* ... and one that is removed is known to no one else, or is the creator's.
TakingInv ==
  /\ Removing =>
       /\ sharing.todo \subseteq listOfProcesses
       /\ \A p \in sharing.todo :
            \E x \in ListOf(p) : Alike(x, sharing.record)
       /\ sharing.everywhere => ~Listed(systemSegments, sharing.record.name)
       /\ ~sharing.everywhere =>
            /\ sharing.todo = {sharing.p}
            /\ \E k \in Known : Alike(sharing.record, k) /\ k.pid # sharing.p
  /\ segment.pc = "free" =>
       segment.p = Turn /\ segment.page = sharing.record.start

ListsInv == NamesInv /\ FirstPagesInv /\ AddingInv /\ TakingInv

\* A name that is in a list once stands for one record.
LEMMA OnceNamed ==
  ASSUME NEW list \in Seq(SharedSegment), Once(list), NEW x \in ToSet(list)
  PROVE  /\ Listed(list, x.name)
         /\ Named(list, x.name) = x
         /\ \A y \in ToSet(list) : y.name = x.name => y = x
  <1>1. Listed(list, x.name)
    BY DEF Listed, ToSet
  <1>2. ASSUME NEW y \in ToSet(list), y.name = x.name
        PROVE  y = x
    BY <1>2 DEF Once, ToSet
  <1>3. Named(list, x.name) = x
    BY <1>1, <1>2, NamedRecord
  <1> QED
    BY <1>1, <1>2, <1>3

\* A segment that is being removed is none of its creator's that is known.
LEMMA NotRemoved ==
  ASSUME SharedInv, ListsInv, Removing, NEW k \in Known,
         k.pid = Turn, k.name = sharing.record.name
  PROVE  FALSE
  <1>1. systemSegments \in Seq(SharedSegment) /\ Turn \in sharing.todo
    BY TurnFound DEF SharedInv, SharingTyped, Removing
  <1>2. Listed(systemSegments, sharing.record.name) /\ Once(systemSegments)
    BY ListedRecord DEF ListsInv, NamesInv, Known
  <1>3. ~sharing.everywhere
    BY <1>2 DEF ListsInv, TakingInv
  <1>4. PICK other \in Known :
          Alike(sharing.record, other) /\ other.pid # sharing.p
    BY <1>3 DEF ListsInv, TakingInv
  <1>5. Turn = sharing.p
    BY <1>1, <1>3 DEF ListsInv, TakingInv
  <1>6. other = k
    BY <1>1, <1>2, <1>4, OnceNamed DEF Alike, Known
  <1> QED
    BY <1>4, <1>5, <1>6

\* So the first pages of the known segments are there.
LEMMA ListedHeads ==
  ASSUME SharedInv, ListsInv
  PROVE  HeadsMapped
  <1> SUFFICES ASSUME NEW k \in Known, k.pid \in listOfProcesses
               PROVE  Mapped(<<k.pid, k.start>>)
    BY DEF HeadsMapped
  <1>1. PICK r \in ListOf(k.pid) : Alike(r, k)
    BY DEF ListsInv, NamesInv
  <1>2. ~Emptied(k.pid, r)
    BY <1>1, NotRemoved DEF Emptied, Removing, Alike
  <1> QED
    BY <1>1, <1>2 DEF ListsInv, FirstPagesInv, Alike

\* At the start all lists are empty.
LEMMA ListsInit == SharedInit => ListsInv
  <1> SUFFICES ASSUME SharedInit PROVE ListsInv
    OBVIOUS
  <1>1. /\ systemSegments = <<>> /\ listOfSharedSegments = [p \in Processes |-> <<>>]
        /\ sharing.pc = "idle" /\ segment.pc = "idle" /\ listOfProcesses = {}
    BY DEF SharedInit, Init, KernelInit, ProcessInit, Idle
  <1>2. Known = {} /\ \A p \in Processes : ListOf(p) = {}
    BY <1>1 DEF Known, ListOf, ToSet
  <1>3. Once(systemSegments) /\ \A p \in Processes : Once(listOfSharedSegments[p])
    BY <1>1 DEF Once
  <1> QED
    BY <1>1, <1>2, <1>3
       DEF ListsInv, NamesInv, FirstPagesInv, AddingInv, TakingInv, Removing

\* What keeps the pages and the lists keeps the invariant of both, while
\* nothing is removed.
LEMMA ListsStay ==
  ASSUME SharedInv, SharedInv', NamesInv, FirstPagesInv, ~Removing, ~Removing',
         TablesStay, HeadsStay, UNCHANGED <<listOfSharedSegments, systemSegments>>
  PROVE  NamesInv' /\ FirstPagesInv'
  <1>1. /\ listOfProcesses' \subseteq Processes /\ PID \in Nat
        /\ \A p \in Processes : p \in Nat
        /\ \A p \in Processes : listOfSharedSegments[p] # <<>> => p < PID
    BY CallNumbers
       DEF SharedInv, TypeInv, TypeOK, KernelTypeOK, ListersInv
  <1>2. Known' = Known /\ \A p : ListOf(p)' = ListOf(p)
    BY DEF Known, ListOf
  <1>3. ASSUME NEW p \in listOfProcesses', NEW r \in ListOf(p)
        PROVE  /\ p \in listOfProcesses /\ p \in Processes /\ p < PID
               /\ r \in SharedSegment /\ <<p, r.start>> \in PageDescr
               /\ \E k \in Known : Alike(r, k)
               /\ Mapped(<<p, r.start>>)
    <2>1. p \in Processes /\ r \in SharedSegment /\ r.start \in Pages
      BY <1>1, KnownRecord DEF SharedInv
    <2>2. p < PID
      BY <1>1, <2>1 DEF ListOf, ToSet
    <2>3. p \in listOfProcesses
      BY <1>1, <2>1, <2>2 DEF HeadsStay
    <2>4. ~Going(p, r) /\ ~Emptied(p, r)
      BY DEF Going, Emptied, Removing
    <2> QED
      BY <2>1, <2>2, <2>3, <2>4 DEF NamesInv, FirstPagesInv, PageDescr
  <1>4. NamesInv'
    <2>1. Once(systemSegments') /\ \A p \in Processes : Once(listOfSharedSegments'[p])
      BY DEF NamesInv
    <2>2. \A k \in Known' : \E r \in ListOf(k.pid)' : Alike(r, k)
      BY <1>2 DEF NamesInv
    <2>3. \A p \in listOfProcesses' : \A r \in ListOf(p)' :
            \E k \in Known' : Alike(r, k)
      BY <1>2, <1>3
    <2> QED
      BY <2>1, <2>2, <2>3 DEF NamesInv
  <1>5. FirstPagesInv'
    <2>1. \A p \in Processes : \A r, x \in ListOf(p)' : r.start = x.start => r = x
      BY <1>2 DEF FirstPagesInv
    <2>2. ASSUME NEW p \in listOfProcesses', NEW r \in ListOf(p)'
          PROVE  Mapped(<<p, r.start>>)'
      <3>1. /\ p < PID /\ <<p, r.start>> \in PageDescr
            /\ HasTable(<<p, r.start>>) /\ pmt[<<p, r.start>>].init
        BY <1>2, <1>3 DEF Mapped
      <3> QED
        BY <3>1 DEF Mapped, TablesStay, HeadsStay
    <2> QED
      BY <2>1, <2>2 DEF FirstPagesInv
  <1> QED
    BY <1>4, <1>5


\* Between two calls nothing is on its way in or out.
LEMMA IdleLists ==
  ASSUME ListsInv, sharing = Idle, NEW p \in listOfProcesses, NEW r \in ListOf(p)
  PROVE  Mapped(<<p, r.start>>) /\ \E k \in Known : Alike(r, k)
  BY DEF ListsInv, NamesInv, FirstPagesInv, Going, Emptied, Removing, Idle

\* With no call in progress nothing is being added or taken away.
LEMMA IdleCalls ==
  ASSUME sharing' = Idle, segment'.pc # "free"
  PROVE  AddingInv' /\ TakingInv' /\ ~Removing'
  BY DEF AddingInv, TakingInv, Removing, Idle

\* The programs' other steps.
LEMMA ListsPrograms ==
  ASSUME SharedInv, ListsInv,
         Programs \/ (InstructionStep /\ UNCHANGED sharedVars)
  PROVE  ListsInv'
  <1>1. SharedInv' /\ TablesStay /\ HeadsStay /\ segment' = Idle
    BY ProgramsInv, InstructionInv
  <1>2. /\ sharing = Idle
        /\ UNCHANGED <<listOfSharedSegments, systemSegments, sharing>>
    <2>1. CASE Programs
      BY <2>1 DEF Programs, SharedQuiet
    <2>2. CASE InstructionStep /\ UNCHANGED sharedVars
      <3>1. instruction # Idle
        BY <2>2, InstructionKeeps DEF SharedInv
      <3> QED
        BY <2>2, <3>1 DEF SharedInv, AloneInv, sharedVars
    <2> QED
      BY <2>1, <2>2
  <1>3. AddingInv' /\ TakingInv' /\ ~Removing' /\ ~Removing
    BY <1>1, <1>2, IdleCalls DEF Removing, Idle
  <1>4. NamesInv' /\ FirstPagesInv'
    BY <1>1, <1>2, <1>3, ListsStay DEF ListsInv
  <1> QED
    BY <1>3, <1>4 DEF ListsInv

\* A segment cannot be created, nor attached at its address, by a process that
\* lists it or has another one there.
LEMMA NewToProcess ==
  ASSUME SharedInv, ListsInv, sharing = Idle,
         NEW p \in listOfProcesses, NEW page \in Pages, NEW size \in Nat \ {0},
         NEW name, canAllocate(p, page, size),
         Listed(systemSegments, name) => page = getSharedSegment(name).start
  PROVE  /\ ~Listed(listOfSharedSegments[p], name)
         /\ \A x \in ListOf(p) : x.start # page
  <1>1. ~Mapped(<<p, page>>)
    <2>1. page \in page .. page + size - 1
      BY CallNumbers
    <2> QED
      BY <2>1 DEF canAllocate
  <1>2. \A x \in ListOf(p) : x.start # page
    BY <1>1, IdleLists
  <1>3. ASSUME NEW x \in ListOf(p), x.name = name
        PROVE  FALSE
    <2>1. PICK k \in Known : Alike(x, k)
      BY IdleLists
    <2>2. Listed(systemSegments, name) /\ getSharedSegment(name) = k
      BY <1>3, <2>1, OnceNamed
         DEF Alike, ListsInv, NamesInv, Known, SharedInv, SharingTyped,
             getSharedSegment
    <2> QED
      BY <1>2, <2>1, <2>2 DEF Alike
  <1> QED
    BY <1>2, <1>3, ListedRecord DEF ListOf

\* A segment is created or attached.
LEMMA ListsCreateShared ==
  ASSUME SharedInv, ListsInv, SharedInv',
         NEW p \in Processes, NEW page \in Pages, NEW size \in SegmentSizes,
         NEW name \in Names, NEW flags \in {"EXECUTE", "READ_WRITE"},
         Listed(systemSegments, name) => page = getSharedSegment(name).start,
         CreateShared(p, page, size, name, flags)
  PROVE  ListsInv'
  <1>1. /\ sharing = Idle /\ segment = Idle
        /\ UNCHANGED <<listOfSharedSegments, systemSegments>>
    BY DEF CreateShared, NewShared, Attach, SharedQuiet, Quiet
  <1>2. UNCHANGED <<pageDirectory, pmt, PID, listOfProcesses>>
    <2>1. CASE NewShared(p, page, size, name, flags)
      <3>1. createSegment(p, page, size, flags) => UNCHANGED kernelVars
        BY DEF createSegment, StartSegment
      <3>2. RefuseSegment(p, page, size) => \E reason : Exit(reason)
        BY DEF RefuseSegment
      <3> QED
        BY <2>1, <3>1, <3>2 DEF NewShared, kernelVars, Exit
    <2>2. CASE Attach(p, page, size, name, flags)
      <3>1. UNCHANGED kernelVars \/ \E reason : Exit(reason)
        BY <2>2 DEF Attach
      <3> QED
        BY <3>1 DEF kernelVars, Exit
    <2> QED
      BY <2>1, <2>2 DEF CreateShared
  <1>3. TablesStay /\ HeadsStay
    BY <1>2, PagesUnchanged
  <1>4. ~Removing
    BY <1>1 DEF Removing, Idle
  <1>5. ASSUME AddingInv', TakingInv', ~Removing'
        PROVE  ListsInv'
    <2>1. NamesInv' /\ FirstPagesInv'
      BY <1>1, <1>3, <1>4, <1>5, ListsStay DEF ListsInv
    <2> QED
      BY <1>5, <2>1 DEF ListsInv
  <1>6. ASSUME UNCHANGED sharing, segment' = Idle
        PROVE  ListsInv'
    BY <1>1, <1>5, <1>6, IdleCalls DEF Idle
  <1>7. CASE NewShared(p, page, size, name, flags)
    <2>1. CASE RefuseSegment(p, page, size) /\ UNCHANGED sharing
      BY <1>1, <1>6, <2>1 DEF RefuseSegment, callVars
    <2>2. ASSUME createSegment(p, page, size, flags),
                 sharing' = [pc |-> "create", p |-> p,
                   record |-> [name |-> name, start |-> page, size |-> size,
                               flags |-> flags, pid |-> p]]
          PROVE  ListsInv'
      <3>1. /\ p \in listOfProcesses /\ size \in Nat \ {0}
            /\ canAllocate(p, page, size) /\ segment'.pc = "alloc"
        BY <2>2, CallNumbers DEF createSegment, StartSegment
      <3>2. /\ ~Listed(systemSegments, name)
            /\ ~Listed(listOfSharedSegments[p], name)
            /\ \A x \in ListOf(p) : x.start # page
        BY <1>1, <1>7, <3>1, NewToProcess DEF NewShared
      <3>3. /\ sharing'.pc = "create" /\ sharing'.p = p
            /\ sharing'.record.name = name /\ sharing'.record.start = page
        BY <2>2
      <3>4. ListOf(p)' = ListOf(p)
        BY <1>1 DEF ListOf
      <3>5. AddingInv'
        BY <1>1, <1>2, <3>1, <3>2, <3>3, <3>4 DEF AddingInv
      <3>6. TakingInv' /\ ~Removing'
        BY <3>1, <3>3 DEF TakingInv, Removing
      <3> QED
        BY <1>5, <3>5, <3>6
    <2> QED
      BY <1>7, <2>1, <2>2 DEF NewShared
  <1>8. CASE Attach(p, page, size, name, flags)
    <2> DEFINE gss == getSharedSegment(name)
               minSize == IF size > gss.size THEN gss.size ELSE size
    <2>1. /\ p \in listOfProcesses /\ Listed(systemSegments, name)
          /\ segment' = Idle
      BY <1>1, <1>8 DEF Attach, callVars
    <2>2. CASE UNCHANGED sharing
      BY <1>6, <2>1, <2>2
    <2>3. ASSUME size > 0, canAllocate(p, page, minSize),
                 sharing' = [pc |-> "attach", p |-> p,
                           record |-> [gss EXCEPT !.size = minSize],
                           page |-> page, left |-> minSize, asked |-> size,
                           fresh |-> FALSE, table |-> 0,
                           dir |-> DirOf(gss.start),
                           entry |-> EntryOf(gss.start)]
          PROVE  ListsInv'
      <3>1. gss \in Known /\ gss \in SharedSegment /\ gss.name = name
        BY <2>1, NamedRecord DEF SharedInv, SharingTyped, getSharedSegment, Known
      <3>2. minSize \in Nat \ {0}
        BY <2>3, <3>1, CallNumbers DEF SharedSegment
      <3>3. page = gss.start
        BY <2>1
      <3> HIDE DEF minSize, gss
      <3>4. /\ ~Listed(listOfSharedSegments[p], name)
            /\ \A x \in ListOf(p) : x.start # page
        BY <1>1, <2>1, <2>3, <3>2, NewToProcess
      <3>5. PICK record : record = [gss EXCEPT !.size = minSize]
        OBVIOUS
      <3>6. Alike(record, gss) /\ record.size = minSize /\ record.name = name
        BY <3>1, <3>5 DEF SharedSegment, Alike
      <3>7. /\ sharing'.pc = "attach" /\ sharing'.p = p
            /\ sharing'.record = record
            /\ sharing'.page = page /\ sharing'.left = minSize
        BY <2>3, <3>5
      <3>8. ListOf(p)' = ListOf(p) /\ Known' = Known
        BY <1>1 DEF ListOf, Known
      <3>9. ~(minSize < minSize)
        BY <3>2
      <3>10. AddingInv'
        BY <1>1, <1>2, <2>1, <3>1, <3>3, <3>4, <3>6, <3>7, <3>8, <3>9
           DEF AddingInv, Alike
      <3>11. TakingInv' /\ ~Removing'
        BY <2>1, <3>7 DEF TakingInv, Removing, Idle
      <3> QED
        BY <1>5, <3>10, <3>11
    <2> QED
      BY <1>8, <2>2, <2>3 DEF Attach
  <1> QED
    BY <1>7, <1>8 DEF CreateShared


\* The record of a segment whose pages are there goes into the lists.
LEMMA ListsPublish ==
  ASSUME SharedInv, ListsInv, Publish, SharedInv'
  PROVE  ListsInv'
  <1>1. PICK p \in Processes, record \in SharedSegment :
          p = sharing.p /\ record = sharing.record
    BY SharingKinds DEF SharedInv, Publish, Idle
  <1>2. /\ sharing.pc \in {"create", "publish"} /\ segment = Idle
        /\ listOfSharedSegments' =
             [listOfSharedSegments EXCEPT ![p] = Append(@, record)]
        /\ systemSegments' = IF sharing.pc = "create"
                             THEN Append(systemSegments, record)
                             ELSE systemSegments
        /\ sharing' = Idle
        /\ UNCHANGED <<pageDirectory, pmt, PID, listOfProcesses, segment>>
    BY <1>1 DEF Publish, vars, kernelVars, callVars
  <1>3. /\ systemSegments \in Seq(SharedSegment)
        /\ listOfSharedSegments \in [Processes -> Seq(SharedSegment)]
        /\ listOfProcesses \subseteq Processes
    BY DEF SharedInv, SharingTyped, TypeInv, TypeOK, KernelTypeOK
  <1>4. /\ p \in listOfProcesses
        /\ ~Listed(listOfSharedSegments[p], record.name)
        /\ \A x \in ListOf(p) : x.start # record.start
        /\ sharing.pc = "create" => ~Listed(systemSegments, record.name)
        /\ sharing.pc = "publish" => \E k \in Known : Alike(record, k)
    BY <1>1, <1>2 DEF ListsInv, AddingInv
  <1>5. Mapped(<<p, record.start>>)
    <2>1. CASE sharing.pc = "create"
      <3>1. \A page \in record.start .. Reached - 1 : Mapped(<<p, page>>)
        BY <1>1, <2>1 DEF SharedInv, CreateInv
      <3>2. Reached = record.start + record.size
        BY <1>1, <1>2 DEF Reached
      <3>3. record.start \in record.start .. Reached - 1
        <4>1. record.start \in Nat /\ record.size \in Nat \ {0}
          BY KnownRecord DEF SharedInv
        <4> QED
          BY <3>2, <4>1
      <3> QED
        BY <3>1, <3>3
    <2>2. CASE sharing.pc = "publish"
      <3>1. sharing.left = 0
        BY <2>2 DEF ListsInv, AddingInv
      <3>2. sharing.left < record.size
        BY <3>1 DEF SharedSegment
      <3> QED
        BY <1>1, <2>2, <3>2 DEF ListsInv, AddingInv
    <2> QED
      BY <1>2, <2>1, <2>2
  <1>6. /\ ListOf(p)' = ListOf(p) \union {record}
        /\ \A q \in Processes : q # p => ListOf(q)' = ListOf(q)
        /\ \A q \in Processes : Once(listOfSharedSegments'[q])
    <2>1. listOfSharedSegments'[p] = Append(listOfSharedSegments[p], record)
      BY <1>2, <1>3
    <2>2. \A q \in Processes :
            q # p => listOfSharedSegments'[q] = listOfSharedSegments[q]
      BY <1>2, <1>3
    <2>3. Once(listOfSharedSegments[p]) /\ listOfSharedSegments[p] \in Seq(SharedSegment)
      BY <1>3 DEF ListsInv, NamesInv
    <2>4. /\ ToSet(listOfSharedSegments'[p])
               = ToSet(listOfSharedSegments[p]) \union {record}
          /\ Once(listOfSharedSegments'[p])
      BY <1>4, <2>1, <2>3, AppendedRecord
    <2>5. \A q \in Processes : q # p => Once(listOfSharedSegments'[q])
      BY <2>2 DEF ListsInv, NamesInv
    <2> QED
      BY <2>2, <2>4, <2>5 DEF ListOf
  <1>7. /\ Known' = IF sharing.pc = "create" THEN Known \union {record} ELSE Known
        /\ Once(systemSegments')
    <2>1. Once(systemSegments)
      BY DEF ListsInv, NamesInv
    <2> QED
      BY <1>2, <1>3, <1>4, <2>1, AppendedRecord DEF Known
  <1>8. \A q \in Processes, r \in SharedSegment : ~Going(q, r) /\ ~Emptied(q, r)
    BY <1>2 DEF Going, Emptied, Removing
  <1>9. sharing.pc = "create" => record.pid = p
    BY <1>1 DEF SharedInv, CreateInv
  <1>10. Alike(record, record)
    BY DEF Alike
  <1>11. NamesInv'
    <2>1. ASSUME NEW k \in Known'
          PROVE  \E r \in ListOf(k.pid)' : Alike(r, k)
      <3>1. CASE k \in Known
        <4>1. k.pid \in Processes
          BY <3>1, KnownRecord DEF SharedInv
        <4>2. PICK r \in ListOf(k.pid) : Alike(r, k)
          BY <3>1 DEF ListsInv, NamesInv
        <4>3. r \in ListOf(k.pid)'
          BY <1>6, <4>1, <4>2
        <4> QED
          BY <4>2, <4>3
      <3>2. CASE k \notin Known
        BY <1>6, <1>7, <1>9, <1>10, <3>2
      <3> QED
        BY <3>1, <3>2
    <2>2. ASSUME NEW q \in listOfProcesses, NEW r \in ListOf(q)'
          PROVE  \E k \in Known' : Alike(r, k)
      <3>1. CASE r \in ListOf(q)
        <4>1. q \in Processes /\ r \in SharedSegment
          BY <1>3, <3>1, KnownRecord DEF SharedInv
        <4>2. PICK k \in Known : Alike(r, k)
          BY <1>8, <3>1, <4>1 DEF ListsInv, NamesInv
        <4>3. k \in Known'
          BY <1>7
        <4> QED
          BY <4>2, <4>3
      <3>2. CASE r \notin ListOf(q)
        <4>1. r = record
          BY <1>3, <1>6, <3>2
        <4>2. CASE sharing.pc = "create"
          BY <1>7, <1>10, <4>1, <4>2
        <4>3. CASE sharing.pc = "publish"
          BY <1>4, <1>7, <4>1, <4>3
        <4> QED
          BY <1>2, <4>2, <4>3
      <3> QED
        BY <3>1, <3>2
    <2> QED
      BY <1>2, <1>6, <1>7, <2>1, <2>2 DEF NamesInv
  <1>12. FirstPagesInv'
    <2>1. ASSUME NEW q \in Processes, NEW r \in ListOf(q)', NEW x \in ListOf(q)',
                 r.start = x.start
          PROVE  r = x
      <3>1. CASE q = p
        <4>1. /\ r \in ListOf(p) \/ r = record
              /\ x \in ListOf(p) \/ x = record
          BY <1>6, <3>1
        <4> QED
          BY <1>4, <2>1, <4>1 DEF ListsInv, FirstPagesInv
      <3>2. CASE q # p
        BY <1>6, <2>1, <3>2 DEF ListsInv, FirstPagesInv
      <3> QED
        BY <3>1, <3>2
    <2>2. ASSUME NEW q \in listOfProcesses, NEW r \in ListOf(q)'
          PROVE  Mapped(<<q, r.start>>)
      <3>1. CASE r \in ListOf(q)
        <4>1. q \in Processes /\ r \in SharedSegment
          BY <1>3, <3>1, KnownRecord DEF SharedInv
        <4> QED
          BY <1>8, <3>1, <4>1 DEF ListsInv, FirstPagesInv
      <3>2. CASE r \notin ListOf(q)
        <4>1. r = record /\ q = p
          BY <1>3, <1>6, <3>2
        <4> QED
          BY <1>5, <4>1
      <3> QED
        BY <3>1, <3>2
    <2>3. \A q \in listOfProcesses' : \A r \in ListOf(q)' : Mapped(<<q, r.start>>)'
      BY <1>2, <2>2 DEF Mapped, HasTable
    <2> QED
      BY <2>1, <2>3 DEF FirstPagesInv
  <1>13. AddingInv' /\ TakingInv'
    BY <1>2, IdleCalls DEF Idle
  <1> QED
    BY <1>11, <1>12, <1>13 DEF ListsInv

\* A page is attached.
LEMMA ListsAttachPage ==
  ASSUME SharedInv, ListsInv, AttachPage
  PROVE  ListsInv'
  <1>1. /\ SharedInv' /\ TablesStay /\ HeadsStay
        /\ \A x \in PageDescr :
             x = Descr(sharing) /\ sharing.left = sharing.record.size =>
               Mapped(x)'
    BY AttachPageInv
  <1>2. /\ sharing.pc = "attach" /\ Advance
        /\ UNCHANGED <<listOfProcesses, PID, callVars, listOfSharedSegments,
                       systemSegments>>
    BY DEF AttachPage
  <1>3. /\ sharing \in AttachCall /\ segment = Idle
        /\ sharing.p \in Processes /\ sharing.p < PID
        /\ sharing.page \in Nat /\ sharing.record \in SharedSegment
        /\ sharing.record.start \in Nat /\ sharing.record.size \in Nat
        /\ sharing.left \in Nat /\ sharing.left # 0
        /\ Descr(sharing) = <<sharing.p, sharing.page>>
        /\ Descr(sharing) \in PageDescr
    BY <1>2, AttachFacts
  <1>4. PICK p \in Processes, page \in Nat, left \in Nat, record \in SharedSegment :
          /\ p = sharing.p /\ page = sharing.page /\ left = sharing.left
          /\ record = sharing.record
    BY <1>3
  <1>5. /\ sharing'.pc = (IF left = 1 THEN "publish" ELSE "attach")
        /\ sharing'.p = p /\ sharing'.record = record
        /\ sharing'.page = page + 1 /\ sharing'.left = left - 1
    BY <1>2, <1>3, <1>4 DEF Advance, AttachCall
  <1>6. ~Removing /\ ~Removing'
    BY <1>2, <1>5 DEF Removing
  <1>7. NamesInv' /\ FirstPagesInv'
    BY <1>1, <1>2, <1>6, ListsStay DEF ListsInv
  <1>8. TakingInv'
    BY <1>2, <1>3, <1>6 DEF TakingInv, callVars, Idle
  <1>9. /\ p \in listOfProcesses
        /\ ~Listed(listOfSharedSegments[p], record.name)
        /\ \A x \in ListOf(p) : x.start # record.start
        /\ \E k \in Known : Alike(record, k)
        /\ page + left = record.start + record.size
        /\ left < record.size => Mapped(<<p, record.start>>)
    BY <1>2, <1>4 DEF ListsInv, AddingInv
  <1>10. Mapped(<<p, record.start>>)'
    <2>1. <<p, record.start>> \in PageDescr
      BY KnownRecord DEF SharedInv, PageDescr, SharedSegment
    <2>2. CASE left = record.size
      <3>1. page = record.start
        BY <1>3, <1>4, <1>9, <2>2
      <3>2. <<p, record.start>> = Descr(sharing)
        BY <1>3, <1>4, <3>1
      <3> QED
        BY <1>1, <1>4, <2>1, <2>2, <3>2
    <2>3. CASE left # record.size
      <3>1. left < record.size
        BY <1>2, <1>3, <1>4, <2>3 DEF SharedInv, AttachInv
      <3>2. p < PID /\ HasTable(<<p, record.start>>) /\ pmt[<<p, record.start>>].init
        BY <1>3, <1>4, <1>9, <3>1 DEF Mapped
      <3> QED
        BY <1>1, <2>1, <3>2 DEF Mapped, TablesStay, HeadsStay
    <2> QED
      BY <2>2, <2>3
  <1>11. AddingInv'
    <2>1. ListOf(p)' = ListOf(p) /\ Known' = Known
      BY <1>2 DEF ListOf, Known
    <2>2. (page + 1) + (left - 1) = record.start + record.size
      BY <1>3, <1>4, <1>9
    <2>3. left = 1 => left - 1 = 0
      OBVIOUS
    <2>4. sharing'.pc # "create" /\ (sharing'.pc = "publish" => left = 1)
      BY <1>5
    <2> QED
      BY <1>2, <1>5, <1>9, <1>10, <2>1, <2>2, <2>3, <2>4 DEF AddingInv
  <1> QED
    BY <1>7, <1>8, <1>11 DEF ListsInv


\* A page of a segment is claimed, filled or freed.
LEMMA ListsSegmentStep ==
  ASSUME SharedInv, ListsInv, SegmentStep, CarveTable,
         UNCHANGED <<listOfSharedSegments, systemSegments, sharing, home>>
  PROVE  ListsInv'
  <1>1. SharedInv' /\ TablesStay /\ (segment.pc # "free" => HeadsStay)
    BY SegmentStepInv
  <1>2. /\ TypeInv /\ Known' = Known /\ \A p : ListOf(p)' = ListOf(p)
        /\ UNCHANGED <<listOfSharedSegments, systemSegments, sharing>>
    BY DEF SharedInv, Known, ListOf
  <1>3. CASE ClaimPage \/ AddPage
    <2>1. segment.pc \in {"alloc", "fill"} /\ segment'.pc # "free"
      <3>1. AllocPage => segment.pc = "alloc" /\ segment'.pc = "fill"
        BY <1>2, AllocPageKeeps
      <3>2. AllocPageDiskFull => segment.pc = "alloc" /\ segment' = segment
        BY DEF AllocPageDiskFull, callVars
      <3>3. AddPage => segment.pc = "fill" /\ (segment' = Idle \/ segment'.pc = "alloc")
        BY <1>2, AddPageKeeps
      <3> QED
        BY <1>3, <3>1, <3>2, <3>3 DEF ClaimPage, Idle
    <2>2. segment # Idle
      BY <2>1 DEF Idle
    <2>3. sharing.pc = "create"
      BY <2>1, <2>2 DEF SharedInv, AloneInv
    <2>4. ~Removing /\ ~Removing' /\ HeadsStay
      BY <1>1, <1>2, <2>1, <2>3 DEF Removing
    <2>5. NamesInv' /\ FirstPagesInv'
      BY <1>1, <1>2, <2>4, ListsStay DEF ListsInv
    <2>6. listOfProcesses' = listOfProcesses
      BY <1>2, <1>3, AllocPageKeeps, AddPageKeeps
         DEF ClaimPage, AllocPageDiskFull, Exit
    <2>7. AddingInv'
      BY <1>2, <2>3, <2>6 DEF ListsInv, AddingInv
    <2>8. TakingInv'
      BY <2>1, <2>4 DEF TakingInv
    <2> QED
      BY <2>5, <2>7, <2>8 DEF ListsInv
  <1>4. CASE RemovePages
    <2>1. /\ segment.pc = "free" /\ segment' = Idle
          /\ UNCHANGED <<pageDirectory, PID, listOfProcesses>>
          /\ \A x \in PageDescr : pmt'[x].init = (pmt[x].init /\ x # Descr(segment))
      BY <1>2, <1>4, RemovePagesKeeps
    <2>2. segment # Idle
      BY <2>1 DEF Idle
    <2>3. sharing.pc = "removing"
      BY <2>1, <2>2 DEF SharedInv, AloneInv
    <2>4. /\ Turn \in sharing.todo /\ Turn \in Processes /\ Turn' = Turn
          /\ Descr(segment) = <<Turn, sharing.record.start>>
      BY <1>2, <2>1, <2>3, TurnFound DEF ListsInv, TakingInv, Turn, Descr
    <2>5. PICK own \in ListOf(Turn) : Alike(own, sharing.record)
      BY <2>3, <2>4 DEF ListsInv, TakingInv, Removing
    <2>6. \A p, r : Going(p, r)' <=> Going(p, r)
      BY <1>2 DEF Going, Removing
    <2>7. NamesInv'
      BY <1>2, <2>1, <2>6 DEF ListsInv, NamesInv
    <2>8. FirstPagesInv'
      <3>1. ASSUME NEW p \in listOfProcesses, NEW r \in ListOf(p), ~Emptied(p, r)'
            PROVE  Mapped(<<p, r.start>>)'
        <4>1. /\ p \in Processes /\ r \in SharedSegment
              /\ <<p, r.start>> \in PageDescr
          <5>1. p \in Processes
            BY <1>2 DEF TypeInv, TypeOK, KernelTypeOK
          <5> QED
            BY <5>1, KnownRecord DEF SharedInv, PageDescr
        <4>2. ~Emptied(p, r)
          BY <2>2 DEF Emptied
        <4>3. Mapped(<<p, r.start>>)
          BY <4>2 DEF ListsInv, FirstPagesInv
        <4>4. <<p, r.start>> # Descr(segment)
          <5> SUFFICES ASSUME p = Turn, r.start = sharing.record.start
                         PROVE  FALSE
            BY <2>4
          <5>1. r = own
            BY <2>4, <2>5 DEF ListsInv, FirstPagesInv, Alike
          <5> QED
            BY <1>2, <2>1, <2>3, <2>4, <2>5, <3>1, <5>1
               DEF Emptied, Alike
        <4> QED
          BY <2>1, <4>1, <4>3, <4>4 DEF Mapped, HasTable
      <3>2. \A p \in listOfProcesses' : \A r \in ListOf(p)' :
              ~Emptied(p, r)' => Mapped(<<p, r.start>>)'
        BY <1>2, <2>1, <3>1
      <3>3. \A p \in Processes : \A r, x \in ListOf(p)' : r.start = x.start => r = x
        BY <1>2 DEF ListsInv, FirstPagesInv
      <3> QED
        BY <3>2, <3>3 DEF FirstPagesInv
    <2>9. AddingInv'
      BY <1>2, <2>3 DEF AddingInv
    <2>10. TakingInv'
      BY <1>2, <2>1 DEF ListsInv, TakingInv, Removing, Idle
    <2> QED
      BY <2>7, <2>8, <2>9, <2>10 DEF ListsInv
  <1> QED
    BY <1>3, <1>4 DEF SegmentStep

\* A removal begins.
LEMMA ListsRemoval ==
  ASSUME SharedInv, SharedInv', ListsInv, SharedQuiet,
         NEW p \in listOfProcesses, NEW name \in Names,
         Listed(listOfSharedSegments[p], name),
         NEW others, NEW everywhere, Removal(p, name, others, everywhere),
         \/ /\ everywhere = TRUE /\ others = Others(p, name)
            /\ systemSegments' = Without(systemSegments, name)
         \/ /\ everywhere = FALSE /\ others = {}
            /\ getSharedSegment(name).pid # p
            /\ UNCHANGED systemSegments,
         UNCHANGED <<kernelVars, callVars, listOfSharedSegments>>
  PROVE  ListsInv'
  <1> DEFINE gss == getSharedSegment(name)
  <1>1. /\ sharing = Idle /\ segment = Idle /\ segment' = Idle
        /\ UNCHANGED <<pageDirectory, pmt, PID, listOfProcesses,
                       listOfSharedSegments>>
    BY DEF SharedQuiet, Quiet, kernelVars, callVars
  <1>2. /\ listOfProcesses \subseteq Processes
        /\ systemSegments \in Seq(SharedSegment)
        /\ listOfSharedSegments \in [Processes -> Seq(SharedSegment)]
        /\ Once(systemSegments)
    BY DEF SharedInv, TypeInv, TypeOK, KernelTypeOK, SharingTyped, ListsInv,
           NamesInv
  <1>3. ASSUME NEW q \in listOfProcesses, NEW r \in ListOf(q), r.name = name
        PROVE  Alike(r, gss) /\ gss \in Known /\ Listed(systemSegments, name)
    <2>1. PICK k \in Known : Alike(r, k)
      BY <1>1, <1>3, IdleLists
    <2>2. Listed(systemSegments, name) /\ gss = k
      BY <1>2, <1>3, <2>1, OnceNamed DEF Alike, Known, getSharedSegment
    <2> QED
      BY <2>1, <2>2
  <1>4. PICK record \in SharedSegment :
          /\ record = Named(listOfSharedSegments[p], name)
          /\ record \in ListOf(p) /\ record.name = name
    BY <1>2, NamedRecord DEF ListOf
  <1>5. Alike(record, gss) /\ gss \in Known /\ Listed(systemSegments, name)
    BY <1>3, <1>4
  <1> HIDE DEF gss
  <1>6. /\ sharing'.pc = "remove" /\ sharing'.p = p /\ sharing'.record = record
        /\ sharing'.todo = others \union {p} /\ sharing'.everywhere = everywhere
        /\ Removing'
    BY <1>4 DEF Removal, Removing
  <1>7. \A q : ListOf(q)' = ListOf(q)
    BY <1>1 DEF ListOf
  <1>8. /\ Once(systemSegments') /\ Known' \subseteq Known
        /\ \A k \in Known : k \in Known' \/ (everywhere = TRUE /\ k.name = name)
        /\ everywhere = TRUE => ~Listed(systemSegments', name)
    BY <1>2, <1>5, RemovedRecord DEF Known
  <1>9. \A q \in listOfProcesses : \A r \in ListOf(q) :
          r.name = name /\ everywhere = TRUE => q \in others \union {p}
    <2>1. ASSUME NEW q \in listOfProcesses, NEW r \in ListOf(q), r.name = name
          PROVE  Listed(listOfSharedSegments[q], name)
      BY <2>1, ListedRecord DEF ListOf
    <2> QED
      BY <2>1 DEF Others
  <1>10. NamesInv'
    <2>1. ASSUME NEW q \in listOfProcesses, NEW r \in ListOf(q)
          PROVE  (\E k \in Known' : Alike(r, k)) \/ Going(q, r)'
      <3>1. PICK k \in Known : Alike(r, k)
        BY <1>1, IdleLists
      <3>2. CASE k \in Known'
        BY <3>1, <3>2
      <3>3. CASE k \notin Known'
        <4>1. everywhere = TRUE /\ r.name = name
          BY <1>8, <3>1, <3>3 DEF Alike
        <4>2. q \in others \union {p}
          BY <1>9, <4>1
        <4>3. Alike(r, record)
          BY <1>3, <1>5, <4>1 DEF gss, Alike
        <4> QED
          BY <1>6, <4>1, <4>2, <4>3 DEF Going
      <3> QED
        BY <3>2, <3>3
    <2>2. \A k \in Known' : \E r \in ListOf(k.pid)' : Alike(r, k)
      BY <1>7, <1>8 DEF ListsInv, NamesInv
    <2>3. \A q \in Processes : Once(listOfSharedSegments'[q])
      BY <1>1 DEF ListsInv, NamesInv
    <2>4. \A q \in listOfProcesses' : \A r \in ListOf(q)' :
            (\E k \in Known' : Alike(r, k)) \/ Going(q, r)'
      BY <1>1, <1>7, <2>1
    <2> QED
      BY <1>8, <2>2, <2>3, <2>4 DEF NamesInv
  <1>11. FirstPagesInv'
    <2>1. \A q \in listOfProcesses : \A r \in ListOf(q) : Mapped(<<q, r.start>>)
      BY <1>1, IdleLists
    <2>2. \A q \in listOfProcesses' : \A r \in ListOf(q)' : Mapped(<<q, r.start>>)'
      BY <1>1, <1>7, <2>1 DEF Mapped, HasTable
    <2>3. \A q \in Processes : \A r, x \in ListOf(q)' : r.start = x.start => r = x
      BY <1>7 DEF ListsInv, FirstPagesInv
    <2> QED
      BY <2>2, <2>3 DEF FirstPagesInv
  <1>12. AddingInv'
    BY <1>6 DEF AddingInv
  <1>13. TakingInv'
    <2>1. others \union {p} \subseteq listOfProcesses
      BY DEF Others
    <2>2. ASSUME NEW q \in others \union {p}
          PROVE  \E x \in ListOf(q) : Alike(x, record)
      <3>1. CASE q = p
        BY <1>4, <3>1 DEF Alike
      <3>2. CASE q # p
        <4>1. q \in listOfProcesses /\ Listed(listOfSharedSegments[q], name)
          BY <3>2 DEF Others
        <4>2. PICK x \in ListOf(q) : x.name = name
          BY <4>1, ListedRecord DEF ListOf
        <4>3. Alike(x, record)
          BY <1>3, <1>5, <4>1, <4>2 DEF gss, Alike
        <4> QED
          BY <4>3
      <3> QED
        BY <3>1, <3>2
    <2>3. ASSUME everywhere # TRUE
          PROVE  /\ others \union {p} = {p}
                 /\ \E k \in Known' : Alike(record, k) /\ k.pid # p
      <3>1. gss.pid # p /\ others = {} /\ Known' = Known
        BY <2>3 DEF gss, Known
      <3> QED
        BY <1>5, <3>1
    <2>4. everywhere \in BOOLEAN
      OBVIOUS
    <2>5. segment'.pc # "free"
      BY <1>1 DEF Idle
    <2> QED
      BY ZenonT(40), <1>1, <1>4, <1>6, <1>7, <1>8, <2>1, <2>2, <2>3, <2>4, <2>5
         DEF TakingInv
  <1> QED
    BY <1>10, <1>11, <1>12, <1>13 DEF ListsInv

\* A segment is disconnected or deleted.
LEMMA ListsDelete ==
  ASSUME SharedInv, SharedInv', ListsInv, NEW p \in Processes, NEW name \in Names,
         DisconnectShared(p, name) \/ DeleteShared(p, name)
  PROVE  ListsInv'
  <1>1. /\ SharedQuiet /\ p \in listOfProcesses
        /\ Listed(listOfSharedSegments[p], name)
        /\ UNCHANGED <<kernelVars, callVars, listOfSharedSegments>>
    BY DEF DisconnectShared, DeleteShared
  <1>2. Listed(systemSegments, name)
    <2>1. PICK r \in ListOf(p) : r.name = name
      BY <1>1, ListedRecord DEF ListOf
    <2>2. PICK k \in Known : Alike(r, k)
      BY <1>1, IdleLists DEF SharedQuiet
    <2> QED
      BY <2>1, <2>2, ListedRecord DEF Known, Alike
  <1>3. \/ /\ Removal(p, name, Others(p, name), TRUE)
           /\ systemSegments' = Without(systemSegments, name)
        \/ /\ Removal(p, name, {}, FALSE)
           /\ getSharedSegment(name).pid # p
           /\ UNCHANGED systemSegments
    BY <1>2 DEF DisconnectShared, DeleteShared
  <1> QED
    BY <1>1, <1>3, ListsRemoval

\* A process whose turn it is frees the page ...
LEMMA ListsDeletePages ==
  ASSUME SharedInv, ListsInv, DeletePages
  PROVE  ListsInv'
  <1> DEFINE start == Named(listOfSharedSegments[Turn], sharing.record.name).start
  <1>1. /\ sharing.pc = "remove"
        /\ UNCHANGED <<listOfSharedSegments, systemSegments>>
        /\ \/ /\ deleteSegment(Turn, start)
              /\ sharing' = [sharing EXCEPT !.pc = "removing"]
           \/ RefuseDelete(Turn, start) /\ UNCHANGED sharing
    BY DEF DeletePages
  <1>2. /\ sharing \in RemoveCall /\ Turn \in sharing.todo /\ Turn \in Processes
        /\ listOfSharedSegments[Turn] \in Seq(SharedSegment)
        /\ segment = Idle
    <2>1. segment = Idle
      BY <1>1 DEF SharedInv, AloneInv
    <2> QED
      BY <1>1, <2>1, TurnFound
  <1>3. start = sharing.record.start
    <2>1. PICK x \in ListOf(Turn) : Alike(x, sharing.record)
      BY <1>1, <1>2 DEF ListsInv, TakingInv, Removing
    <2>2. Named(listOfSharedSegments[Turn], x.name) = x
      BY <1>2, OnceNamed DEF ListsInv, NamesInv, ListOf
    <2> QED
      BY <2>1, <2>2 DEF Alike
  <1> HIDE DEF start
  <1>4. /\ UNCHANGED <<pageDirectory, pmt, PID, listOfProcesses>>
        /\ sharing'.pc \in {"remove", "removing"}
        /\ sharing'.pc = "removing" => segment' # Idle
        /\ sharing'.p = sharing.p /\ sharing'.record = sharing.record
        /\ sharing'.todo = sharing.todo
        /\ sharing'.everywhere = sharing.everywhere
        /\ segment'.pc = "free" => /\ segment'.p = Turn
                                   /\ segment'.page = sharing.record.start
    <2>1. CASE /\ deleteSegment(Turn, start)
               /\ sharing' = [sharing EXCEPT !.pc = "removing"]
      <3>1. /\ segment'.pc = "free" /\ segment'.p = Turn /\ segment'.page = start
            /\ UNCHANGED <<pageDirectory, pmt, PID, listOfProcesses>>
        BY <2>1 DEF deleteSegment, kernelVars
      <3>2. /\ sharing'.pc = "removing" /\ sharing'.p = sharing.p
            /\ sharing'.record = sharing.record /\ sharing'.todo = sharing.todo
            /\ sharing'.everywhere = sharing.everywhere
        BY <1>2, <2>1 DEF RemoveCall
      <3> QED
        BY <1>3, <3>1, <3>2 DEF Idle
    <2>2. CASE RefuseDelete(Turn, start) /\ UNCHANGED sharing
      <3>1. UNCHANGED callVars /\ \E reason : Exit(reason)
        BY <2>2 DEF RefuseDelete
      <3>2. /\ UNCHANGED <<pageDirectory, pmt, PID, listOfProcesses>>
            /\ segment'.pc = "idle"
        BY <1>2, <3>1 DEF Exit, callVars, Idle
      <3> QED
        BY <1>1, <2>2, <3>2
    <2> QED
      BY <1>1, <2>1, <2>2
  <1>5. /\ Turn' = Turn /\ Known' = Known /\ \A q : ListOf(q)' = ListOf(q)
        /\ Removing /\ Removing'
    BY <1>1, <1>4 DEF Turn, Known, ListOf, Removing
  <1>6. \A q, r : Going(q, r)' <=> Going(q, r)
    BY <1>4, <1>5 DEF Going
  <1>7. NamesInv'
    BY <1>1, <1>4, <1>5, <1>6 DEF ListsInv, NamesInv
  <1>8. FirstPagesInv'
    <2>1. \A q, r : ~Emptied(q, r)
      BY <1>1 DEF Emptied
    <2>2. \A q \in listOfProcesses' : \A r \in ListOf(q)' : Mapped(<<q, r.start>>)'
      BY <1>4, <1>5, <2>1 DEF ListsInv, FirstPagesInv, Mapped, HasTable
    <2>3. \A q \in Processes : \A r, x \in ListOf(q)' : r.start = x.start => r = x
      BY <1>5 DEF ListsInv, FirstPagesInv
    <2> QED
      BY <2>2, <2>3 DEF FirstPagesInv
  <1>9. AddingInv'
    BY <1>4 DEF AddingInv
  <1>10. TakingInv'
    BY <1>1, <1>4, <1>5 DEF ListsInv, TakingInv
  <1> QED
    BY <1>7, <1>8, <1>9, <1>10 DEF ListsInv


\* ... and strikes the segment off its list.
LEMMA ListsUnlist ==
  ASSUME SharedInv, ListsInv, Unlist
  PROVE  ListsInv'
  <1> DEFINE name == sharing.record.name
  <1>1. /\ sharing.pc = "removing" /\ segment = Idle /\ segment' = Idle
        /\ listOfSharedSegments' =
             [listOfSharedSegments EXCEPT ![Turn] = Without(@, name)]
        /\ sharing' = IF sharing.todo = {Turn} THEN Idle
                      ELSE [sharing EXCEPT !.pc = "remove", !.todo = @ \ {Turn}]
        /\ UNCHANGED <<pageDirectory, pmt, PID, listOfProcesses, systemSegments>>
    BY DEF Unlist, vars, kernelVars, callVars
  <1>2. /\ sharing \in RemoveCall /\ Removing
        /\ Turn \in sharing.todo /\ Turn \in Processes
        /\ Listed(listOfSharedSegments[Turn], name)
        /\ listOfSharedSegments \in [Processes -> Seq(SharedSegment)]
        /\ listOfProcesses \subseteq Processes
    BY <1>1, TurnFound
       DEF Removing, SharedInv, TypeInv, TypeOK, KernelTypeOK
  <1>3. PICK t \in Processes : t = Turn
    BY <1>2
  <1>4. PICK record \in SharedSegment, p \in Processes, todo \in SUBSET Processes,
             everywhere \in BOOLEAN :
          /\ record = sharing.record /\ p = sharing.p /\ todo = sharing.todo
          /\ everywhere = sharing.everywhere
    BY <1>2 DEF RemoveCall
  <1>5. /\ listOfSharedSegments'[t] = Without(listOfSharedSegments[t], name)
        /\ \A q \in Processes :
             q # t => listOfSharedSegments'[q] = listOfSharedSegments[q]
    BY <1>1, <1>2, <1>3
  <1>6. /\ ListOf(t)' \subseteq ListOf(t)
        /\ \A r \in ListOf(t) : r.name # name => r \in ListOf(t)'
        /\ \A r \in ListOf(t)' : r.name # name
        /\ Once(listOfSharedSegments'[t])
    <2>1. Once(listOfSharedSegments[t]) /\ listOfSharedSegments[t] \in Seq(SharedSegment)
      BY <1>2 DEF ListsInv, NamesInv
    <2>2. Listed(listOfSharedSegments[t], name)
      BY <1>2, <1>3
    <2>3. PICK list : list = Without(listOfSharedSegments[t], name)
      OBVIOUS
    <2>4. /\ ToSet(list) \subseteq ToSet(listOfSharedSegments[t])
          /\ \A r \in ToSet(listOfSharedSegments[t]) :
               r.name # name => r \in ToSet(list)
          /\ Once(list) /\ ~Listed(list, name)
      BY <2>1, <2>2, <2>3, RemovedRecord
    <2> HIDE DEF name
    <2>5. \A r \in ToSet(list) : r.name # name
      BY <2>4, ListedRecord
    <2> QED
      BY <1>5, <2>3, <2>4, <2>5 DEF ListOf
  <1>7. /\ \A q \in Processes : ListOf(q)' \subseteq ListOf(q)
        /\ \A q \in Processes : q # t => ListOf(q)' = ListOf(q)
        /\ \A q \in Processes : Once(listOfSharedSegments'[q])
        /\ Known' = Known
    BY <1>1, <1>5, <1>6 DEF ListOf, Known, ListsInv, NamesInv
  <1>8. \/ todo = {t} /\ sharing' = Idle
        \/ /\ todo # {t} /\ sharing'.pc = "remove" /\ sharing'.p = p
           /\ sharing'.record = record /\ sharing'.todo = todo \ {t}
           /\ sharing'.everywhere = everywhere
    BY <1>1, <1>2, <1>3, <1>4 DEF RemoveCall
  <1>9. NamesInv'
    <2>1. ASSUME NEW k \in Known
          PROVE  \E r \in ListOf(k.pid)' : Alike(r, k)
      <3>1. k.pid \in Processes
        BY KnownRecord DEF SharedInv
      <3>2. PICK r \in ListOf(k.pid) : Alike(r, k)
        BY DEF ListsInv, NamesInv
      <3>3. k.pid = t => r.name # name
        BY <1>2, <1>3, <3>2, NotRemoved DEF Alike
      <3> QED
        BY <1>6, <1>7, <3>1, <3>2, <3>3
    <2>2. ASSUME NEW q \in listOfProcesses, NEW r \in ListOf(q)',
                 ~ \E k \in Known : Alike(r, k)
          PROVE  Going(q, r)'
      <3>1. q \in Processes /\ r \in ListOf(q)
        BY <1>2, <1>7
      <3>2. Going(q, r)
        BY <2>2, <3>1 DEF ListsInv, NamesInv
      <3>3. q \in todo /\ everywhere /\ Alike(r, record)
        BY <1>4, <3>2 DEF Going
      <3>4. q # t
        <4>1. ASSUME q = t
              PROVE  FALSE
          <5>1. r \in ListOf(t)'
            BY <2>2, <4>1
          <5>2. r.name # name
            BY <1>6, <5>1
          <5> QED
            BY <1>4, <3>3, <5>2 DEF Alike
        <4> QED
          BY <4>1
      <3> QED
        BY <1>8, <3>3, <3>4 DEF Going, Removing
    <2>3. \A q \in listOfProcesses' : \A r \in ListOf(q)' :
            (\E k \in Known' : Alike(r, k)) \/ Going(q, r)'
      BY <1>1, <1>7, <2>2
    <2>4. \A k \in Known' : \E r \in ListOf(k.pid)' : Alike(r, k)
      BY <1>7, <2>1
    <2>5. Once(systemSegments')
      BY <1>1 DEF ListsInv, NamesInv
    <2> QED
      BY <1>7, <2>3, <2>4, <2>5 DEF NamesInv
  <1>10. FirstPagesInv'
    <2>1. ASSUME NEW q \in listOfProcesses, NEW r \in ListOf(q)'
          PROVE  Mapped(<<q, r.start>>)
      <3>1. q \in Processes /\ r \in ListOf(q)
        BY <1>2, <1>7
      <3>2. ~Emptied(q, r)
        <4>1. ASSUME q = t
              PROVE  r.name # name
          <5>1. r \in ListOf(t)'
            BY <4>1
          <5> QED
            BY <1>6, <5>1
        <4> QED
          BY <1>3, <4>1 DEF Emptied
      <3> QED
        BY <3>1, <3>2 DEF ListsInv, FirstPagesInv
    <2>2. \A q \in listOfProcesses' : \A r \in ListOf(q)' : Mapped(<<q, r.start>>)'
      BY <1>1, <2>1 DEF Mapped, HasTable
    <2>3. \A q \in Processes : \A r, x \in ListOf(q)' : r.start = x.start => r = x
      BY <1>7 DEF ListsInv, FirstPagesInv
    <2> QED
      BY <2>2, <2>3 DEF FirstPagesInv
  <1>11. AddingInv'
    BY <1>8 DEF AddingInv, Idle
  <1>12. TakingInv'
    <2>1. CASE sharing' = Idle
      BY <1>1, <2>1, IdleCalls DEF Idle
    <2>2. CASE sharing' # Idle
      <3>1. /\ todo # {t} /\ sharing'.pc = "remove" /\ sharing'.p = p
            /\ sharing'.record = record /\ sharing'.todo = todo \ {t}
            /\ sharing'.everywhere = everywhere
        BY <1>8, <2>2
      <3>2. /\ todo \subseteq listOfProcesses /\ t \in todo
            /\ \A q \in todo : \E x \in ListOf(q) : Alike(x, record)
            /\ everywhere => ~Listed(systemSegments, record.name)
            /\ ~everywhere => todo = {p}
        BY <1>2, <1>3, <1>4 DEF ListsInv, TakingInv
      <3>3. everywhere
        BY <3>1, <3>2
      <3>4. \A q \in todo \ {t} : \E x \in ListOf(q)' : Alike(x, record)
        BY <1>7, <3>2
      <3>5. segment'.pc # "free"
        BY <1>1 DEF Idle
      <3> QED
        BY <1>1, <3>1, <3>2, <3>3, <3>4, <3>5 DEF TakingInv
    <2> QED
      BY <2>1, <2>2
  <1> QED
    BY <1>9, <1>10, <1>11, <1>12 DEF ListsInv

-----------------------------------------------------------------------------
(* All of it together *)

\* The invariant of a system in which segments are shared and deleted.
DeleteInv == SharedInv /\ HeadsMapped /\ ListsInv

\* Every step of a system that shares and deletes keeps it.
LEMMA DeleteNextInv == DeleteInv /\ [DeleteNext]_allVars => DeleteInv'
  <1> SUFFICES ASSUME SharedInv, HeadsMapped, ListsInv, [DeleteNext]_allVars
               PROVE  SharedInv' /\ ListsInv'
    <2>1. SharedInv' /\ ListsInv' => HeadsMapped'
      BY ListedHeads, PTL
    <2> QED
      BY <2>1 DEF DeleteInv
  <1>1. CASE Programs
    BY <1>1, ProgramsInv, ListsPrograms
  <1>2. CASE SameAddress
    <2>1. PICK p \in Processes, page \in Pages, size \in SegmentSizes,
               name \in Names :
            /\ Listed(systemSegments, name) => page = getSharedSegment(name).start
            /\ CreateShared(p, page, size, name, "READ_WRITE")
      BY <1>2 DEF SameAddress
    <2>2. "READ_WRITE" \in {"EXECUTE", "READ_WRITE"}
      OBVIOUS
    <2>3. SharedInv'
      BY <2>1, <2>2, CreateSharedInv
    <2> QED
      BY <2>1, <2>2, <2>3, ListsCreateShared
  <1>3. CASE AnyDelete
    <2>1. PICK p \in Processes, name \in Names :
            DisconnectShared(p, name) \/ DeleteShared(p, name)
      BY <1>3 DEF AnyDelete
    <2>2. SharedInv'
      BY <2>1, DeleteCallsInv
    <2> QED
      BY <2>1, <2>2, ListsDelete
  <1>4. CASE SharedStep
    <2>1. SharedInv'
      BY <1>4, SharedStepInv
    <2>2. CASE Publish
      BY <2>1, <2>2, ListsPublish
    <2>3. CASE AttachPage
      BY <2>1, <2>3, ListsAttachPage
    <2>4. CASE DeletePages
      BY <2>1, <2>4, ListsDeletePages
    <2>5. CASE Unlist
      BY <2>1, <2>5, ListsUnlist
    <2>6. CASE /\ SegmentStep /\ CarveTable
               /\ UNCHANGED <<listOfSharedSegments, systemSegments, sharing, home>>
      BY <2>1, <2>6, ListsSegmentStep
    <2>7. CASE InstructionStep /\ UNCHANGED sharedVars
      BY <2>1, <2>7, ListsPrograms
    <2>8. CASE Over /\ UNCHANGED sharedVars
      <3>1. UNCHANGED allVars
        BY <2>8 DEF Over, allVars
      <3> QED
        BY <2>1, <3>1 DEF allVars, vars, kernelVars, callVars, sharedVars,
                         ListsInv, NamesInv, FirstPagesInv, AddingInv,
                         TakingInv, Known, ListOf, Going, Emptied, Removing,
                         Turn, Mapped, HasTable
    <2> QED
      BY <1>4, <2>2, <2>3, <2>4, <2>5, <2>6, <2>7, <2>8 DEF SharedStep
  <1>5. CASE UNCHANGED allVars
    <2>1. SharedInv'
      BY <1>5, SharedStepInv
    <2> QED
      BY ZenonT(40), <1>5, <2>1
         DEF allVars, vars, kernelVars, callVars, sharedVars,
                       ListsInv, NamesInv, FirstPagesInv, AddingInv,
                       TakingInv, Known, ListOf, Going, Emptied, Removing,
                       Turn, Mapped, HasTable
  <1> QED
    BY <1>1, <1>2, <1>3, <1>4, <1>5 DEF DeleteNext

\* Between two calls the lists agree.
LEMMA DeleteInvAgree == DeleteInv => ListsAgree
  <1> SUFFICES ASSUME SharedInv, ListsInv, sharing = Idle
               PROVE  ListsAgree
    BY DEF DeleteInv, ListsAgree
  <1>1. /\ systemSegments \in Seq(SharedSegment) /\ Once(systemSegments)
        /\ listOfProcesses \subseteq Processes
    BY DEF SharedInv, SharingTyped, TypeInv, TypeOK, KernelTypeOK, ListsInv,
           NamesInv
  <1>2. ASSUME NEW i \in DOMAIN systemSegments
        PROVE  Listed(listOfSharedSegments[systemSegments[i].pid],
                      systemSegments[i].name)
    <2>1. systemSegments[i] \in Known
      BY DEF Known, ToSet
    <2>2. PICK r \in ListOf(systemSegments[i].pid) : Alike(r, systemSegments[i])
      BY <2>1 DEF ListsInv, NamesInv
    <2> QED
      BY <2>2, ListedRecord DEF ListOf, Alike
  <1>3. ASSUME NEW p \in listOfProcesses,
               NEW i \in DOMAIN listOfSharedSegments[p]
        PROVE  LET record == listOfSharedSegments[p][i]
               IN  /\ Listed(systemSegments, record.name)
                   /\ getSharedSegment(record.name).pid = record.pid
    <2>1. PICK record \in ListOf(p) : record = listOfSharedSegments[p][i]
      BY DEF ListOf, ToSet
    <2>2. PICK k \in Known : Alike(record, k)
      BY IdleLists
    <2>3. Listed(systemSegments, k.name) /\ getSharedSegment(k.name) = k
      BY <1>1, <2>2, OnceNamed DEF Known, getSharedSegment
    <2> QED
      BY <2>1, <2>2, <2>3 DEF Alike
  <1>4. \A i, j \in DOMAIN systemSegments :
          systemSegments[i].name = systemSegments[j].name => i = j
    BY <1>1 DEF Once
  <1> QED
    BY <1>2, <1>3, <1>4 DEF ListsAgree

\* The kernel's list of shared segments and the lists of the processes agree
\* between two calls, however processes create, attach, disconnect, delete and
\* die: a name stands for one segment, its creator lists it, and a process that
\* lists a name can look it up.
THEOREM ListsAlwaysAgree == DeleteSpec => []ListsAgree
  <1>1. SharedInit => DeleteInv
    BY SharedInitInv, ListsInit DEF DeleteInv
  <1>2. DeleteInv /\ [DeleteNext]_allVars => DeleteInv'
    BY DeleteNextInv
  <1>3. DeleteInv => ListsAgree
    BY DeleteInvAgree
  <1> QED
    BY <1>1, <1>2, <1>3, PTL DEF DeleteSpec

-----------------------------------------------------------------------------
(* The replacement queue while segments are shared *)

\* Whatever the interface of shared segments is asked for, the queue holds
\* every frame in use: only a claimed page, a page fault and a deleted page
\* touch it.
LEMMA SharingVictim ==
  TypeInv /\ VictimIsReal /\ [SharedApiNext]_allVars => VictimIsReal'
  <1> SUFFICES ASSUME TypeInv, VictimIsReal, [SharedApiNext]_allVars
               PROVE  VictimIsReal'
    OBVIOUS
  <1>1. ASSUME UNCHANGED <<pmtTable, fifoQueue>> PROVE VictimIsReal'
    BY <1>1 DEF VictimIsReal, Queued
  <1>2. ASSUME UNCHANGED kernelVars PROVE VictimIsReal'
    BY <1>1, <1>2 DEF kernelVars
  <1>3. CASE Programs
    <2>1. CASE CreateProcess
      BY <1>1, <2>1 DEF CreateProcess, createProcess
    <2>2. ASSUME NEW p \in Processes, DestroyProcess(p) PROVE VictimIsReal'
      BY <1>1, <2>2 DEF DestroyProcess, removeProcess
    <2>3. ASSUME NEW p \in listOfProcesses, NEW page \in Pages, Touch(p, page)
          PROVE  VictimIsReal'
      BY <1>2, <2>3 DEF Touch, Begin
    <2> QED
      BY <1>3, <2>1, <2>2, <2>3 DEF Programs
  <1>4. CASE AnyCreateShared
    <2>1. PICK p \in Processes, page \in Pages, size \in SegmentSizes,
               name \in Names, flags \in {"EXECUTE", "READ_WRITE"} :
            CreateShared(p, page, size, name, flags)
      BY <1>4 DEF AnyCreateShared
    <2>2. CASE NewShared(p, page, size, name, flags)
      BY <1>1, <2>2 DEF NewShared, createSegment, StartSegment, RefuseSegment,
                        Exit, kernelVars
    <2>3. CASE Attach(p, page, size, name, flags)
      BY <1>1, <2>3 DEF Attach, Exit, kernelVars
    <2> QED
      BY <2>1, <2>2, <2>3 DEF CreateShared
  <1>5. CASE AnyDelete
    <2>1. PICK p \in Processes, name \in Names :
            DisconnectShared(p, name) \/ DeleteShared(p, name)
      BY <1>5 DEF AnyDelete
    <2> QED
      BY <1>2, <2>1 DEF DisconnectShared, DeleteShared
  <1>6. CASE \E p \in Processes, name \in Names : DisconnectUnknown(p, name)
    BY <1>1, <1>6 DEF DisconnectUnknown, Exit
  <1>7. CASE Publish \/ AttachPage \/ Unlist
    BY <1>1, <1>7 DEF Publish, AttachPage, Unlist, vars, kernelVars
  <1>8. CASE DeletePages
    BY <1>1, <1>8
       DEF DeletePages, deleteSegment, RefuseDelete, Exit, kernelVars
  <1>9. CASE SegmentStep \/ InstructionStep \/ Over
    <2>1. [Next]_vars
      BY <1>9 DEF Next
    <2> QED
      BY <2>1, NextVictim
  <1>10. CASE UNCHANGED allVars
    BY <1>1, <1>10 DEF allVars, vars, kernelVars
  <1>11. SharedStep => \/ Publish \/ AttachPage \/ Unlist \/ DeletePages
                       \/ SegmentStep \/ InstructionStep \/ Over
    BY DEF SharedStep
  <1> QED
    BY <1>3, <1>4, <1>5, <1>6, <1>7, <1>8, <1>9, <1>10, <1>11
       DEF SharedApiNext, SharedNext

\* Programs that share at one address use a part of the interface.
LEMMA DeleteIsApi == DeleteNext => SharedApiNext
  BY DEF DeleteNext, SharedApiNext, SharedNext, SameAddress, AnyCreateShared

\* While segments are shared and deleted the state is well typed.
THEOREM DeleteTypeCorrect == DeleteSpec => []SharedTypeOK
  <1>1. SharedInit => DeleteInv
    BY SharedInitInv, ListsInit DEF DeleteInv
  <1>2. DeleteInv /\ [DeleteNext]_allVars => DeleteInv'
    BY DeleteNextInv
  <1>3. DeleteInv => SharedTypeOK
    BY SharedInvType DEF DeleteInv
  <1> QED
    BY <1>1, <1>2, <1>3, PTL DEF DeleteSpec

\* However segments are shared, disconnected and deleted, a replacement always
\* finds a victim: every frame in use is in the queue and has a descriptor.
THEOREM SharedVictimReal == DeleteSpec => []VictimIsReal
  <1>1. SharedInit => DeleteInv /\ VictimIsReal
    BY SharedInitInv, ListsInit
       DEF DeleteInv, SharedInit, Init, KernelInit, VictimIsReal, Queued
  <1>2. DeleteInv /\ [DeleteNext]_allVars => DeleteInv'
    BY DeleteNextInv
  <1>3. DeleteInv /\ VictimIsReal /\ [DeleteNext]_allVars => VictimIsReal'
    BY SharingVictim, DeleteIsApi DEF DeleteInv, SharedInv
  <1> QED
    BY <1>1, <1>2, <1>3, PTL DEF DeleteSpec

-----------------------------------------------------------------------------
(* Whose page an attached page is.  "home" names the creator's page; the     *)
(* invariant says that a page that is attached to a creator's page is there  *)
(* with it, and that whoever has a segment's first page lists the segment.   *)
(* So the processes that are called to remove a segment are all that have    *)
(* it.                                                                       *)

PagesIn(record) == record.start .. record.start + record.size - 1
HeadOf(record)  == <<record.pid, record.start>>

\* A page of the segment that is being created, its own home still unknown.
Creating(pd) ==
  /\ sharing.pc = "create"
  /\ pd[1] = sharing.record.pid /\ pd[2] \in PagesIn(sharing.record)

\* The segment that process p is attaching.
InCall(p, record) ==
  /\ sharing.pc \in {"attach", "publish"}
  /\ p = sharing.p /\ Alike(sharing.record, record)

\* Process p's page at a segment's first address is that segment's.
Attached(p, record) ==
  p = record.pid \/ home[<<p, record.start>>] = HeadOf(record)

\* Pages are attached at the creator's address.
HomeAddress ==
  \A pd \in PageDescr :
    home[pd] # nullptr => home[pd][2] = pd[2] /\ home[pd][1] < PID

\* The creator has all pages of a known segment, and has them of itself; none
\* of them but the first begins a segment it lists.
KnownPages ==
  \A k \in Known :
    /\ \A x \in ListOf(k.pid) : x.start \in PagesIn(k) => x.start = k.start
    /\ k.pid \in listOfProcesses =>
         \A page \in PagesIn(k) :
           pmt[<<k.pid, page>>].init /\ home[<<k.pid, page>>] = nullptr

\* What a call adds is apart from what the caller created and lists.
AddedPages ==
  sharing.pc \in {"create", "attach", "publish"} =>
    /\ \A k \in Known : k.pid = sharing.p => sharing.record.start \notin PagesIn(k)
    /\ sharing.pc = "create" =>
         \A x \in ListOf(sharing.p) : x.start \notin PagesIn(sharing.record)
    /\ sharing.pc \in {"attach", "publish"} =>
         /\ \E k \in Known :
              Alike(sharing.record, k) /\ sharing.record.size <= k.size
         /\ sharing.left < sharing.record.size =>
              home[<<sharing.p, sharing.record.start>>] = HeadOf(sharing.record)

\* Whoever lists a segment of another has its first page from there.
ListedHome ==
  \A p \in listOfProcesses : \A r \in ListOf(p) :
    p # r.pid => home[<<p, r.start>>] = HeadOf(r)

\* An attached page has a page to be the same as, which is its owner's own,
\* unless that one has just been removed and the attached one comes next.
HomesKept ==
  \A pd \in PageDescr :
    /\ home[pd] # nullptr /\ pmt[pd].init /\ ~Creating(pd)
    /\ pd[1] \in listOfProcesses /\ home[pd][1] \in listOfProcesses
    => \/ /\ pmt[home[pd]].init /\ home[home[pd]] = nullptr
          /\ ~Creating(home[pd])
       \/ Removing /\ sharing.everywhere /\ home[pd] = HeadOf(sharing.record)

\* Whoever has the first page of a known segment lists it ...
HeadsListed ==
  \A k \in Known : \A p \in listOfProcesses :
    /\ pmt[<<p, k.start>>].init /\ Attached(p, k)
    /\ ~Creating(<<p, k.start>>) /\ ~InCall(p, k)
    => \E r \in ListOf(p) : Alike(r, k)

\* ... and of one that is removed everywhere, is to delete it.
HeadsGoing ==
  Removing /\ sharing.everywhere =>
    \A p \in listOfProcesses :
      /\ pmt[<<p, sharing.record.start>>].init
      /\ Attached(p, sharing.record)
      => p \in sharing.todo

\* The process whose turn it is has freed the first page.
HeadGone ==
  sharing.pc = "removing" /\ segment = Idle =>
    ~pmt[<<Turn, sharing.record.start>>].init

HomesInv ==
  /\ HomeAddress /\ KnownPages /\ AddedPages /\ ListedHome
  /\ HomesKept /\ HeadsListed /\ HeadsGoing /\ HeadGone

\* At the start no page is there.
LEMMA HomesInit == SharedInit => HomesInv
  <1> SUFFICES ASSUME SharedInit PROVE HomesInv
    OBVIOUS
  <1>1. /\ \A pd \in PageDescr : home[pd] = nullptr
        /\ sharing.pc = "idle" /\ listOfProcesses = {} /\ systemSegments = <<>>
    BY DEF SharedInit, Init, KernelInit, Idle
  <1>2. Known = {}
    BY <1>1 DEF Known, ToSet
  <1> QED
    BY <1>1, <1>2
       DEF HomesInv, HomeAddress, KnownPages, AddedPages, ListedHome, HomesKept,
           HeadsListed, HeadsGoing, HeadGone, Removing

\* A page is there when its entry is initialised: its table is.
LEMMA MappedInit ==
  ASSUME SharedInv, NEW pd \in PageDescr
  PROVE  Mapped(pd) <=> pmt[pd].init
  BY DEF SharedInv, TablesOpen, Mapped

\* The pages of the records in the lists.
LEMMA RecordPages ==
  ASSUME SharedInv, NEW k, k \in Known \/ \E p \in Processes : k \in ListOf(p)
  PROVE  /\ k \in SharedSegment /\ k.pid \in Processes /\ k.start \in Pages
         /\ HeadOf(k) \in PageDescr /\ HeadOf(k) # nullptr
         /\ k.start \in PagesIn(k)
         /\ \A p \in Processes : <<p, k.start>> \in PageDescr
         /\ k \in Known =>
              /\ k.pid < PID
              /\ \A page \in PagesIn(k) : <<k.pid, page>> \in PageDescr
  <1>1. k \in SharedSegment
    BY KnownRecord DEF SharedInv
  <1>2. /\ k.pid \in Processes /\ k.start \in Pages /\ k.start \in Nat
        /\ k.size \in Nat \ {0} /\ k.start \in PagesIn(k)
    BY <1>1, CallNumbers DEF SharedSegment, PagesIn
  <1>3. ASSUME k \in Known
        PROVE  /\ k.pid < PID
               /\ \A page \in PagesIn(k) : <<k.pid, page>> \in PageDescr
    <2>1. k.pid < PID /\ k.start + k.size <= NumPages
      BY <1>3 DEF SharedInv, HasPages
    <2>2. \A page \in PagesIn(k) : page \in Pages
      BY <1>2, <2>1, CallNumbers DEF PagesIn, Pages
    <2> QED
      BY <1>2, <2>1, <2>2 DEF PageDescr
  <1>4. HeadOf(k) \in PageDescr /\ HeadOf(k) # nullptr
    BY <1>2, SentinelAssumption DEF HeadOf, PageDescr
  <1> QED
    BY <1>1, <1>2, <1>3, <1>4 DEF PageDescr

\* What a step leaves of the pages, the lists and their homes.  It may begin a
\* creation of pages that are not there, and forget segments.
LEMMA HomesStay ==
  ASSUME SharedInv, SharedInv', HomesInv, ~Removing, TablesStay, HeadsStay,
         UNCHANGED <<listOfSharedSegments, home>>, Known' \subseteq Known,
         \A pd \in PageDescr :
           pmt'[pd].init => pmt[pd].init \/ Creating(pd)',
         \A pd \in PageDescr : Creating(pd) => Creating(pd)',
         \A pd \in PageDescr : pmt[pd].init /\ ~Creating(pd) => ~Creating(pd)',
         \A p, k : InCall(p, k) => InCall(p, k)'
  PROVE  HomeAddress' /\ KnownPages' /\ ListedHome' /\ HomesKept' /\ HeadsListed'
  <1>1. \A p : ListOf(p)' = ListOf(p)
    BY DEF ListOf
  <1>2. /\ \A p \in listOfProcesses' : p \in listOfProcesses \/ p = PID
        /\ PID \in Nat /\ PID' \in Nat /\ PID <= PID'
        /\ \A p \in Processes : p \in Nat
        /\ listOfProcesses \subseteq Processes
        /\ listOfProcesses' \subseteq Processes
        /\ home \in [PageDescr -> PageDescr \union {nullptr}]
    BY CallNumbers
       DEF HeadsStay, TablesStay, SharedInv, TypeInv, TypeOK, KernelTypeOK,
           SharingTyped
  <1>3. \A pd \in PageDescr : pd[1] \in Processes /\ pd[2] \in Pages
    BY DEF PageDescr
  <1>4. HomeAddress'
    <2>1. ASSUME NEW pd \in PageDescr, home[pd] # nullptr
          PROVE  home[pd][2] = pd[2] /\ home[pd][1] < PID'
      <3>1. home[pd] \in PageDescr
        BY <1>2, <2>1
      <3>2. home[pd][2] = pd[2] /\ home[pd][1] < PID
        BY <2>1 DEF HomesInv, HomeAddress
      <3>3. home[pd][1] \in Nat
        BY <1>2, <1>3, <3>1
      <3> QED
        BY <1>2, <3>2, <3>3
    <2> QED
      BY <2>1 DEF HomeAddress
  <1>5. KnownPages'
    <2>1. ASSUME NEW k \in Known, k.pid \in listOfProcesses',
                 NEW page \in PagesIn(k)
          PROVE  pmt'[<<k.pid, page>>].init /\ home[<<k.pid, page>>] = nullptr
      <3>1. k.pid < PID /\ k.pid \in Processes /\ <<k.pid, page>> \in PageDescr
        BY RecordPages
      <3>2. k.pid \in listOfProcesses
        BY <1>2, <2>1, <3>1
      <3>3. pmt[<<k.pid, page>>].init /\ home[<<k.pid, page>>] = nullptr
        BY <3>2 DEF HomesInv, KnownPages
      <3> QED
        BY <3>1, <3>3 DEF HeadsStay
    <2>2. \A k \in Known : \A x \in ListOf(k.pid)' :
            x.start \in PagesIn(k) => x.start = k.start
      BY <1>1 DEF HomesInv, KnownPages
    <2> QED
      BY <2>1, <2>2 DEF KnownPages
  <1>6. ListedHome'
    <2>1. ASSUME NEW p \in listOfProcesses', NEW r \in ListOf(p), p # r.pid
          PROVE  home[<<p, r.start>>] = HeadOf(r)
      <3>1. p \in Processes /\ listOfSharedSegments[p] # <<>>
        BY <1>2 DEF ListOf, ToSet
      <3>2. p < PID
        BY <3>1 DEF SharedInv, ListersInv
      <3>3. p \in listOfProcesses
        BY <1>2, <3>1, <3>2
      <3> QED
        BY <2>1, <3>3 DEF HomesInv, ListedHome
    <2> QED
      BY <1>1, <2>1 DEF ListedHome, HeadOf
  <1>7. HomesKept'
    <2>1. ASSUME NEW pd \in PageDescr, home[pd] # nullptr, pmt'[pd].init,
                 ~Creating(pd)', pd[1] \in listOfProcesses',
                 home[pd][1] \in listOfProcesses'
          PROVE  /\ pmt'[home[pd]].init /\ home[home[pd]] = nullptr
                 /\ ~Creating(home[pd])'
      <3>1. PICK h \in PageDescr : h = home[pd]
        BY <1>2, <2>1
      <3>2. pmt[pd].init /\ ~Creating(pd)
        BY <2>1
      <3>3. pd[1] < PID /\ h[1] < PID
        BY <2>1, <3>1, <3>2
           DEF SharedInv, TablesOpen, HomesInv, HomeAddress
      <3>4. pd[1] \in listOfProcesses /\ h[1] \in listOfProcesses
        BY <1>2, <1>3, <2>1, <3>1, <3>3
      <3>5. pmt[h].init /\ home[h] = nullptr /\ ~Creating(h)
        BY <2>1, <3>1, <3>2, <3>4 DEF HomesInv, HomesKept
      <3>6. pmt'[h].init
        BY <3>3, <3>5 DEF HeadsStay
      <3>7. ~Creating(h)'
        BY <3>1, <3>5
      <3> QED
        BY <3>1, <3>5, <3>6, <3>7
    <2> QED
      BY <2>1 DEF HomesKept
  <1>8. HeadsListed'
    <2>1. ASSUME NEW k \in Known, NEW p \in listOfProcesses',
                 pmt'[<<p, k.start>>].init, Attached(p, k),
                 ~Creating(<<p, k.start>>)', ~InCall(p, k)'
          PROVE  \E r \in ListOf(p) : Alike(r, k)
      <3>1. PICK pd \in PageDescr : pd = <<p, k.start>>
        BY <1>2, RecordPages
      <3>2. pmt[pd].init /\ ~Creating(pd) /\ ~InCall(p, k)
        BY <2>1, <3>1
      <3>3. p \in listOfProcesses
        BY <1>2, <3>1, <3>2 DEF SharedInv, TablesOpen
      <3> QED
        BY <2>1, <3>1, <3>2, <3>3 DEF HomesInv, HeadsListed
    <2>2. \A k, p : Attached(p, k)' <=> Attached(p, k)
      BY DEF Attached, HeadOf
    <2>3. \A k, p : (\E r \in ListOf(p)' : Alike(r, k)) <=> \E r \in ListOf(p) : Alike(r, k)
      BY <1>1
    <2>4. ASSUME NEW k \in Known', NEW p \in listOfProcesses',
                 pmt'[<<p, k.start>>].init, Attached(p, k)',
                 ~Creating(<<p, k.start>>)', ~InCall(p, k)'
          PROVE  \E r \in ListOf(p)' : Alike(r, k)
      BY <2>1, <2>2, <2>3, <2>4
    <2> QED
      BY <2>4 DEF HeadsListed
  <1> QED
    BY <1>4, <1>5, <1>6, <1>7, <1>8

\* Between two calls nothing is added or taken.
LEMMA HomesIdle ==
  ASSUME sharing' = Idle
  PROVE  AddedPages' /\ HeadsGoing' /\ HeadGone'
  BY DEF AddedPages, HeadsGoing, HeadGone, Removing, Idle

\* The programs' other steps bring no pages and take none.
LEMMA HomesPrograms ==
  ASSUME SharedInv, SharedInv', HomesInv,
         Programs \/ (InstructionStep /\ UNCHANGED sharedVars)
  PROVE  HomesInv'
  <1>1. TablesStay /\ HeadsStay
    BY ProgramsInv, InstructionInv
  <1>2. /\ sharing = Idle
        /\ UNCHANGED <<listOfSharedSegments, systemSegments, sharing, home>>
    <2>1. CASE Programs
      BY <2>1 DEF Programs, SharedQuiet
    <2>2. CASE InstructionStep /\ UNCHANGED sharedVars
      <3>1. instruction # Idle
        BY <2>2, InstructionKeeps DEF SharedInv
      <3> QED
        BY <2>2, <3>1 DEF SharedInv, AloneInv, sharedVars
    <2> QED
      BY <2>1, <2>2
  <1>3. \A pd \in PageDescr : pmt'[pd].init = pmt[pd].init
    <2>1. CASE Programs
      <3>1. CreateProcess => UNCHANGED pmt
        BY DEF CreateProcess, createProcess
      <3>2. \A p \in Processes : DestroyProcess(p) => UNCHANGED pmt
        BY DEF DestroyProcess, removeProcess
      <3>3. \A p \in listOfProcesses, page \in Pages : Touch(p, page) => UNCHANGED pmt
        BY DEF Touch, Begin, kernelVars
      <3> QED
        BY <2>1, <3>1, <3>2, <3>3 DEF Programs
    <2>2. CASE InstructionStep /\ UNCHANGED sharedVars
      BY <2>2, InstructionKeeps DEF SharedInv
    <2> QED
      BY <2>1, <2>2
  <1>4. ~Removing /\ Known' = Known
    BY <1>2 DEF Removing, Known, Idle
  <1>5. \A pd : ~Creating(pd) /\ ~Creating(pd)'
    BY <1>2 DEF Creating, Idle
  <1>6. \A p, k : ~InCall(p, k)
    BY <1>2 DEF InCall, Idle
  <1>7. HomeAddress' /\ KnownPages' /\ ListedHome' /\ HomesKept' /\ HeadsListed'
    BY <1>1, <1>2, <1>3, <1>4, <1>5, <1>6, HomesStay
  <1> QED
    BY <1>2, <1>7, HomesIdle DEF HomesInv

\* A call that shares a segment changes no page before it goes on.
LEMMA CreateSharedPages ==
  ASSUME SharedInv,
         NEW p \in Processes, NEW page \in Pages, NEW size \in SegmentSizes,
         NEW name \in Names, NEW flags,
         CreateShared(p, page, size, name, flags)
  PROVE  /\ sharing = Idle /\ segment = Idle
         /\ UNCHANGED <<listOfSharedSegments, systemSegments, home>>
         /\ UNCHANGED <<pageDirectory, pmt, PID, listOfProcesses>>
  <1>1. CASE NewShared(p, page, size, name, flags)
    <2>1. createSegment(p, page, size, flags) => UNCHANGED kernelVars
      BY DEF createSegment, StartSegment
    <2>2. RefuseSegment(p, page, size) => \E reason : Exit(reason)
      BY DEF RefuseSegment
    <2> QED
      BY <1>1, <2>1, <2>2 DEF NewShared, SharedQuiet, Quiet, kernelVars, Exit
  <1>2. CASE Attach(p, page, size, name, flags)
    <2>1. UNCHANGED kernelVars \/ \E reason : Exit(reason)
      BY <1>2 DEF Attach
    <2> QED
      BY <1>2, <2>1 DEF Attach, SharedQuiet, Quiet, kernelVars, Exit
  <1> QED
    BY <1>1, <1>2 DEF CreateShared

\* What may be allocated is not there.
LEMMA FreeToAllocate ==
  ASSUME SharedInv, NEW p \in Processes, NEW page \in Pages,
         NEW size \in Nat \ {0}, canAllocate(p, page, size)
  PROVE  /\ \A q \in page .. page + size - 1 :
              <<p, q>> \in PageDescr /\ ~pmt[<<p, q>>].init
         /\ page \in page .. page + size - 1
  <1>1. page \in Nat /\ NumPages \in Nat
    BY CallNumbers
  <1>2. page + size - 1 < NumPages - 1
    BY DEF canAllocate
  <1>3. ASSUME NEW q \in page .. page + size - 1
        PROVE  <<p, q>> \in PageDescr /\ ~pmt[<<p, q>>].init
    <2>1. <<p, q>> \in PageDescr
      BY <1>1, <1>2 DEF PageDescr, Pages
    <2>2. ~Mapped(<<p, q>>)
      BY DEF canAllocate
    <2> QED
      BY <2>1, <2>2, MappedInit
  <1> QED
    BY <1>1, <1>3

\* The segments of a process begin at pages that are there, between two calls.
LEMMA ListedPages ==
  ASSUME SharedInv, ListsInv, HomesInv, sharing = Idle,
         NEW p \in listOfProcesses
  PROVE  /\ \A x \in ListOf(p) : pmt[<<p, x.start>>].init
         /\ \A k \in Known : k.pid = p =>
              \A q \in PagesIn(k) : pmt[<<p, q>>].init
  BY IdleLists DEF Mapped, HomesInv, KnownPages

\* A segment is created or attached.
LEMMA HomesCreateShared ==
  ASSUME SharedInv, SharedInv', ListsInv, HomesInv,
         NEW p \in Processes, NEW page \in Pages, NEW size \in SegmentSizes,
         NEW name \in Names, NEW flags \in {"EXECUTE", "READ_WRITE"},
         Listed(systemSegments, name) => page = getSharedSegment(name).start,
         CreateShared(p, page, size, name, flags)
  PROVE  HomesInv'
  <1>1. /\ sharing = Idle /\ segment = Idle
        /\ UNCHANGED <<listOfSharedSegments, systemSegments, home>>
        /\ UNCHANGED <<pageDirectory, pmt, PID, listOfProcesses>>
    BY CreateSharedPages
  <1>2. TablesStay /\ HeadsStay
    BY <1>1, PagesUnchanged
  <1>3. /\ ~Removing /\ Known' = Known /\ \A q : ListOf(q)' = ListOf(q)
        /\ \A pd : ~Creating(pd)
        /\ \A q, k : ~InCall(q, k)
    BY <1>1 DEF Removing, Known, ListOf, Creating, InCall, Idle
  <1>4. ASSUME \A pd \in PageDescr : pmt[pd].init => ~Creating(pd)',
               AddedPages', ~Removing'
        PROVE  HomesInv'
    <2>1. HomeAddress' /\ KnownPages' /\ ListedHome' /\ HomesKept' /\ HeadsListed'
      BY <1>1, <1>2, <1>3, <1>4, HomesStay
    <2>2. HeadsGoing' /\ HeadGone'
      BY <1>4 DEF HeadsGoing, HeadGone, Removing
    <2> QED
      BY <1>4, <2>1, <2>2 DEF HomesInv
  <1>5. CASE UNCHANGED sharing
    <2>1. \A pd : ~Creating(pd)'
      BY <1>1, <1>5 DEF Creating, Idle
    <2>2. AddedPages' /\ ~Removing'
      BY <1>1, <1>5 DEF AddedPages, Removing, Idle
    <2> QED
      BY <1>4, <2>1, <2>2
  <1>6. ASSUME createSegment(p, page, size, flags),
               sharing' = [pc |-> "create", p |-> p,
                 record |-> [name |-> name, start |-> page, size |-> size,
                             flags |-> flags, pid |-> p]]
        PROVE  HomesInv'
    <2>1. /\ p \in listOfProcesses /\ size \in Nat \ {0}
          /\ canAllocate(p, page, size)
      BY <1>6, CallNumbers DEF createSegment, StartSegment
    <2>2. /\ sharing'.pc = "create" /\ sharing'.p = p
          /\ sharing'.record.pid = p /\ sharing'.record.start = page
          /\ PagesIn(sharing'.record) = page .. page + size - 1
      BY <1>6 DEF PagesIn
    <2>3. /\ \A q \in page .. page + size - 1 : ~pmt[<<p, q>>].init
          /\ page \in page .. page + size - 1
      BY <2>1, FreeToAllocate
    <2>4. ASSUME NEW pd \in PageDescr, pmt[pd].init
          PROVE  ~Creating(pd)'
      <3>1. pd = <<pd[1], pd[2]>>
        BY DEF PageDescr
      <3> QED
        BY <2>2, <2>3, <2>4, <3>1 DEF Creating
    <2>5. AddedPages'
      BY ZenonT(40), <1>1, <1>3, <2>1, <2>2, <2>3, ListedPages
         DEF AddedPages, PagesIn
    <2>6. ~Removing'
      BY <2>2 DEF Removing
    <2> QED
      BY <1>4, <2>4, <2>5, <2>6
  <1>7. CASE Attach(p, page, size, name, flags) /\ ~UNCHANGED sharing
    <2> DEFINE gss == getSharedSegment(name)
               minSize == IF size > gss.size THEN gss.size ELSE size
    <2>1. /\ p \in listOfProcesses /\ Listed(systemSegments, name)
          /\ size > 0 /\ canAllocate(p, page, minSize)
          /\ sharing' = [pc |-> "attach", p |-> p,
                         record |-> [gss EXCEPT !.size = minSize],
                         page |-> page, left |-> minSize, asked |-> size,
                         fresh |-> FALSE, table |-> 0,
                         dir |-> DirOf(gss.start),
                         entry |-> EntryOf(gss.start)]
      BY <1>7 DEF Attach
    <2>2. gss \in Known /\ gss \in SharedSegment /\ page = gss.start
      BY <2>1, NamedRecord DEF SharedInv, SharingTyped, getSharedSegment, Known
    <2>3. minSize \in Nat \ {0} /\ minSize <= gss.size
      BY <2>1, <2>2, CallNumbers DEF SharedSegment
    <2> HIDE DEF minSize, gss
    <2>4. PICK record : record = [gss EXCEPT !.size = minSize]
      OBVIOUS
    <2>5. /\ Alike(record, gss) /\ record.size = minSize /\ record.start = page
      BY <2>2, <2>4 DEF SharedSegment, Alike
    <2>6. /\ sharing'.pc = "attach" /\ sharing'.p = p
          /\ sharing'.record = record /\ sharing'.left = minSize
      BY <2>1, <2>4
    <2>7. ~pmt[<<p, page>>].init
      BY <2>1, <2>3, FreeToAllocate
    <2>8. \A k \in Known : k.pid = p => page \notin PagesIn(k)
      BY <1>1, <2>1, <2>7, ListedPages
    <2>9. ~(minSize < minSize)
      BY <2>3
    <2>10. AddedPages'
      BY <1>3, <2>2, <2>3, <2>5, <2>6, <2>8, <2>9 DEF AddedPages, PagesIn, Alike
    <2>11. ~Removing' /\ \A pd : ~Creating(pd)'
      BY <2>6 DEF Removing, Creating
    <2> QED
      BY <1>4, <2>10, <2>11
  <1> QED
    BY <1>5, <1>6, <1>7 DEF CreateShared, NewShared

\* A removal finds its first page with those it is to be taken from.
LEMMA HomesRemoval ==
  ASSUME SharedInv, SharedInv', ListsInv, ListsInv', HomesInv,
         NEW p \in Processes, NEW name \in Names,
         DisconnectShared(p, name) \/ DeleteShared(p, name)
  PROVE  HomesInv'
  <1>1. /\ SharedQuiet /\ sharing = Idle /\ p \in listOfProcesses
        /\ Listed(listOfSharedSegments[p], name)
        /\ UNCHANGED <<kernelVars, listOfSharedSegments, home>>
        /\ UNCHANGED <<pageDirectory, pmt, PID, listOfProcesses>>
    BY DEF DisconnectShared, DeleteShared, SharedQuiet, kernelVars
  <1>2. /\ systemSegments \in Seq(SharedSegment)
        /\ listOfSharedSegments[p] \in Seq(SharedSegment)
        /\ listOfProcesses \subseteq Processes
        /\ Once(systemSegments)
    BY DEF SharedInv, SharingTyped, TypeInv, TypeOK, KernelTypeOK, ListsInv,
           NamesInv
  <1>3. PICK record \in SharedSegment :
          /\ record = Named(listOfSharedSegments[p], name)
          /\ record \in ListOf(p) /\ record.name = name
    BY <1>1, <1>2, NamedRecord DEF ListOf
  <1>4. PICK k \in Known : Alike(record, k)
    BY <1>1, <1>3, IdleLists
  <1>5. Listed(systemSegments, name)
    BY <1>3, <1>4, ListedRecord DEF Known, Alike
  <1>6. \/ /\ Removal(p, name, Others(p, name), TRUE)
           /\ systemSegments' = Without(systemSegments, name)
        \/ /\ Removal(p, name, {}, FALSE)
           /\ UNCHANGED systemSegments
    BY <1>5 DEF DisconnectShared, DeleteShared
  <1>7. /\ sharing'.pc = "remove" /\ sharing'.record = record
        /\ \/ sharing'.everywhere = TRUE /\ sharing'.todo = Others(p, name) \union {p}
           \/ sharing'.everywhere = FALSE
    BY <1>3, <1>6 DEF Removal
  <1>8. TablesStay /\ HeadsStay
    BY <1>1, PagesUnchanged
  <1>9. Known' \subseteq Known
    BY <1>2, <1>5, <1>6, RemovedRecord DEF Known
  <1>10. /\ ~Removing
         /\ \A pd : ~Creating(pd) /\ ~Creating(pd)'
         /\ \A q, x : ~InCall(q, x)
    BY <1>1, <1>7 DEF Removing, Creating, InCall, Idle
  <1>11. HomeAddress' /\ KnownPages' /\ ListedHome' /\ HomesKept' /\ HeadsListed'
    BY <1>1, <1>8, <1>9, <1>10, HomesStay
  <1>12. AddedPages' /\ HeadGone'
    BY <1>7 DEF AddedPages, HeadGone
  <1>13. HeadsGoing'
    <2>1. ASSUME NEW q \in listOfProcesses, sharing'.everywhere,
                 pmt[<<q, record.start>>].init, Attached(q, record)
          PROVE  q \in sharing'.todo
      <3>1. pmt[<<q, k.start>>].init /\ Attached(q, k)
        BY <1>4, <2>1 DEF Alike, Attached, HeadOf
      <3>2. PICK r \in ListOf(q) : Alike(r, k)
        BY <1>10, <3>1 DEF HomesInv, HeadsListed
      <3>3. r.name = name
        BY <1>3, <1>4, <3>2 DEF Alike
      <3>4. Listed(listOfSharedSegments[q], name)
        BY <3>2, <3>3, ListedRecord DEF ListOf
      <3> QED
        BY <1>7, <2>1, <3>4 DEF Others
    <2> SUFFICES ASSUME sharing'.everywhere, NEW q \in listOfProcesses',
                        pmt'[<<q, sharing'.record.start>>].init,
                        \/ q = sharing'.record.pid
                        \/ home'[<<q, sharing'.record.start>>] =
                             HeadOf(sharing.record)'
                 PROVE  q \in sharing'.todo
      BY DEF HeadsGoing, Attached
    <2>3. pmt[<<q, record.start>>].init /\ q \in listOfProcesses
      BY <1>1, <1>7
    <2>4. Attached(q, record)
      BY <1>1, <1>7 DEF Attached, HeadOf
    <2> QED
      BY <2>1, <2>3, <2>4
  <1> QED
    BY <1>11, <1>12, <1>13 DEF HomesInv

\* The call that frees a page is about to begin.
LEMMA HomesDeletePages ==
  ASSUME SharedInv, HomesInv, DeletePages
  PROVE  HomesInv'
  <1> DEFINE start == Named(listOfSharedSegments[Turn], sharing.record.name).start
  <1>1. /\ sharing.pc = "remove" /\ sharing \in RemoveCall /\ segment = Idle
    <2>1. sharing.pc = "remove"
      BY DEF DeletePages
    <2> QED
      BY <2>1, TurnFound DEF SharedInv, AloneInv
  <1>2. /\ UNCHANGED <<listOfSharedSegments, systemSegments, home>>
        /\ \/ /\ deleteSegment(Turn, start)
              /\ sharing' = [sharing EXCEPT !.pc = "removing"]
           \/ RefuseDelete(Turn, start) /\ UNCHANGED sharing
    BY DEF DeletePages
  <1> HIDE DEF start
  <1>3. /\ UNCHANGED <<pageDirectory, pmt, PID, listOfProcesses>>
        /\ sharing'.pc = "remove" \/ (sharing'.pc = "removing" /\ segment' # Idle)
        /\ sharing'.record = sharing.record /\ sharing'.todo = sharing.todo
        /\ sharing'.everywhere = sharing.everywhere
    <2>1. CASE /\ deleteSegment(Turn, start)
               /\ sharing' = [sharing EXCEPT !.pc = "removing"]
      <3>1. /\ segment'.pc = "free"
            /\ UNCHANGED <<pageDirectory, pmt, PID, listOfProcesses>>
        BY <2>1 DEF deleteSegment, kernelVars
      <3> QED
        BY <1>1, <2>1, <3>1 DEF RemoveCall, Idle
    <2>2. CASE RefuseDelete(Turn, start) /\ UNCHANGED sharing
      <3>1. \E reason : Exit(reason)
        BY <2>2 DEF RefuseDelete
      <3> QED
        BY <1>1, <2>2, <3>1 DEF Exit
    <2> QED
      BY <1>2, <2>1, <2>2
  <1>4. /\ Removing /\ Removing' /\ Known' = Known
        /\ \A q : ListOf(q)' = ListOf(q)
        /\ \A pd : ~Creating(pd) /\ ~Creating(pd)'
        /\ \A q, k : ~InCall(q, k) /\ ~InCall(q, k)'
    BY <1>1, <1>2, <1>3 DEF Removing, Known, ListOf, Creating, InCall
  <1>5. HomeAddress' /\ KnownPages' /\ AddedPages' /\ ListedHome'
    BY <1>2, <1>3, <1>4
       DEF HomesInv, HomeAddress, KnownPages, AddedPages, ListedHome, PagesIn,
           HeadOf
  <1>6. HomesKept'
    BY <1>2, <1>3, <1>4 DEF HomesInv, HomesKept, HeadOf
  <1>7. HeadsListed' /\ HeadsGoing'
    BY <1>2, <1>3, <1>4 DEF HomesInv, HeadsListed, HeadsGoing, Attached, HeadOf
  <1>8. HeadGone'
    BY <1>3 DEF HeadGone
  <1> QED
    BY <1>5, <1>6, <1>7, <1>8 DEF HomesInv

\* The record of a process that is to delete a segment.
LEMMA OwnRecord ==
  ASSUME SharedInv, ListsInv, Removing
  PROVE  /\ Turn \in sharing.todo /\ Turn \in listOfProcesses
         /\ Turn \in Processes
         /\ <<Turn, sharing.record.start>> \in PageDescr
         /\ \E own \in ListOf(Turn) : Alike(own, sharing.record)
  <1>1. Turn \in sharing.todo /\ Turn \in Processes /\ sharing \in RemoveCall
    BY TurnFound DEF Removing
  <1>2. sharing.record.start \in Pages
    BY <1>1 DEF RemoveCall, SharedSegment
  <1> QED
    BY <1>1, <1>2 DEF ListsInv, TakingInv, PageDescr

\* Freeing the first page: it is the creator's, then the attached ones go with
\* it, or an attached one, which is nobody's home.
LEMMA HomesRemovePages ==
  ASSUME SharedInv, ListsInv, HomesInv, RemovePages,
         UNCHANGED <<listOfSharedSegments, systemSegments, sharing, home>>
  PROVE  HomesInv'
  <1>1. /\ segment.pc = "free" /\ segment' = Idle
        /\ UNCHANGED <<PID, listOfProcesses>>
        /\ \A x \in PageDescr : pmt'[x].init = (pmt[x].init /\ x # Descr(segment))
    BY RemovePagesKeeps DEF SharedInv
  <1>2. segment # Idle /\ sharing.pc = "removing" /\ Removing
    BY <1>1 DEF SharedInv, AloneInv, Removing, Idle
  <1>3. PICK t \in listOfProcesses : t = Turn
    BY <1>2, OwnRecord
  <1>4. PICK start \in Pages : start = sharing.record.start
    BY <1>2, TurnFound DEF RemoveCall, SharedSegment
  <1>5. PICK own \in ListOf(t) : Alike(own, sharing.record)
    BY <1>2, <1>3, OwnRecord
  <1>6. PICK pd \in PageDescr : pd = <<t, start>>
    BY <1>2, <1>3, <1>4, OwnRecord
  <1>7. \A x \in PageDescr : pmt'[x].init <=> pmt[x].init /\ x # pd
    <2>1. Descr(segment) = pd
      BY <1>1, <1>3, <1>4, <1>6 DEF ListsInv, TakingInv, Descr
    <2>2. \A x \in PageDescr : pmt[x].init \in BOOLEAN /\ pmt'[x].init \in BOOLEAN
      BY <1>1 DEF SharedInv, TypeInv, TypeOK, KernelTypeOK, PageDescriptor
    <2> QED
      BY <1>1, <2>1, <2>2
  <1>8. /\ Known' = Known /\ Removing' /\ Turn' = Turn
        /\ \A q : ListOf(q)' = ListOf(q)
        /\ \A x : ~Creating(x) /\ ~Creating(x)'
        /\ \A q, k : ~InCall(q, k) /\ ~InCall(q, k)'
    BY <1>2 DEF Removing, Turn, Known, ListOf, Creating, InCall
  <1>9. listOfProcesses \subseteq Processes
    BY DEF SharedInv, TypeInv, TypeOK, KernelTypeOK
  <1>10. HomeAddress' /\ AddedPages' /\ ListedHome'
    BY <1>1, <1>2, <1>8 DEF HomesInv, HomeAddress, AddedPages, ListedHome, HeadOf
  <1>11. KnownPages'
    <2>1. ASSUME NEW k \in Known, k.pid \in listOfProcesses,
                 NEW page \in PagesIn(k)
          PROVE  pmt'[<<k.pid, page>>].init /\ home[<<k.pid, page>>] = nullptr
      <3>1. /\ pmt[<<k.pid, page>>].init /\ home[<<k.pid, page>>] = nullptr
            /\ <<k.pid, page>> \in PageDescr
        BY <2>1, RecordPages DEF HomesInv, KnownPages
      <3>2. ASSUME <<k.pid, page>> = pd
            PROVE  FALSE
        <4>1. k.pid = t /\ page = start
          BY <1>6, <3>2
        <4>2. own.start = k.start
          BY <1>4, <1>5, <4>1 DEF HomesInv, KnownPages, Alike
        <4>3. PICK y \in ListOf(t) : Alike(y, k)
          BY <4>1 DEF ListsInv, NamesInv
        <4>4. y = own
          BY <1>9, <4>2, <4>3 DEF ListsInv, FirstPagesInv, Alike
        <4>5. k.name = sharing.record.name
          BY <1>5, <4>3, <4>4 DEF Alike
        <4> QED
          BY <1>2, <1>3, <4>1, <4>5, NotRemoved
      <3> QED
        BY <1>7, <3>1, <3>2
    <2>2. \A k \in Known : \A x \in ListOf(k.pid) :
            x.start \in PagesIn(k) => x.start = k.start
      BY DEF HomesInv, KnownPages
    <2> QED
      BY <1>1, <1>8, <2>1, <2>2 DEF KnownPages
  <1>12. HomesKept'
    <2>1. ASSUME NEW x \in PageDescr, home[x] # nullptr, pmt'[x].init,
                 x[1] \in listOfProcesses, home[x][1] \in listOfProcesses
          PROVE  \/ /\ pmt'[home[x]].init /\ home[home[x]] = nullptr
                 \/ sharing.everywhere /\ home[x] = HeadOf(sharing.record)
      <3>1. PICK h \in PageDescr : h = home[x]
        BY <2>1 DEF SharedInv, SharingTyped
      <3>2. \/ pmt[h].init /\ home[h] = nullptr
            \/ sharing.everywhere /\ h = HeadOf(sharing.record)
        BY <1>7, <1>8, <2>1, <3>1 DEF HomesInv, HomesKept
      <3>3. CASE h = pd /\ home[pd] = nullptr
        <4>1. t = own.pid
          <5>1. t # own.pid => home[<<t, own.start>>] = HeadOf(own)
            BY DEF HomesInv, ListedHome
          <5>2. <<t, own.start>> = pd
            BY <1>4, <1>5, <1>6 DEF Alike
          <5>3. HeadOf(own) # nullptr
            BY <1>9, RecordPages
          <5> QED
            BY <3>3, <5>1, <5>2, <5>3
        <4>2. t = sharing.record.pid
          BY <1>5, <4>1 DEF Alike
        <4>3. sharing.everywhere
          <5> SUFFICES ASSUME ~sharing.everywhere PROVE FALSE
            OBVIOUS
          <5>1. /\ sharing.todo = {sharing.p}
                /\ \E k \in Known : Alike(sharing.record, k) /\ k.pid # sharing.p
            BY <1>2 DEF ListsInv, TakingInv
          <5>2. t = sharing.p
            BY <1>2, <1>3, <5>1, OwnRecord
          <5> QED
            BY <4>2, <5>1, <5>2 DEF Alike
        <4>4. h = HeadOf(sharing.record)
          BY <1>4, <1>6, <3>3, <4>2 DEF HeadOf
        <4> QED
          BY <3>1, <4>3, <4>4
      <3>4. CASE h # pd \/ home[pd] # nullptr
        BY <1>7, <3>1, <3>2, <3>4
      <3> QED
        BY <3>3, <3>4
    <2> QED
      BY <1>1, <1>8, <2>1 DEF HomesKept, HeadOf
  <1>13. HeadsListed' /\ HeadsGoing'
    <2>1. \A q \in Processes, k \in Known : <<q, k.start>> \in PageDescr
      BY RecordPages
    <2>2. \A q \in Processes : <<q, start>> \in PageDescr
      BY DEF PageDescr
    <2>3. \A q \in listOfProcesses, k \in Known :
            pmt'[<<q, k.start>>].init => pmt[<<q, k.start>>].init
      BY <1>7, <1>9, <2>1
    <2>4. \A q \in listOfProcesses :
            pmt'[<<q, start>>].init => pmt[<<q, start>>].init
      BY <1>7, <1>9, <2>2
    <2>5. HeadsListed'
      BY <1>1, <1>8, <2>3 DEF HomesInv, HeadsListed, Attached, HeadOf
    <2>6. HeadsGoing'
      <3> SUFFICES ASSUME sharing.everywhere, NEW q \in listOfProcesses,
                          pmt'[<<q, start>>].init,
                          Attached(q, sharing.record)
                   PROVE  q \in sharing.todo
        BY <1>1, <1>4 DEF HeadsGoing, Attached, HeadOf
      <3> QED
        BY <1>2, <1>4, <2>4 DEF HomesInv, HeadsGoing
    <2> QED
      BY <2>5, <2>6
  <1>14. HeadGone'
    BY <1>3, <1>4, <1>6, <1>7, <1>8 DEF HeadGone
  <1> QED
    BY <1>10, <1>11, <1>12, <1>13, <1>14 DEF HomesInv

\* A page of a segment is claimed, filled or freed.
LEMMA HomesSegmentStep ==
  ASSUME SharedInv, SharedInv', ListsInv, HomesInv, SegmentStep, CarveTable,
         UNCHANGED <<listOfSharedSegments, systemSegments, sharing, home>>
  PROVE  HomesInv'
  <1>1. TablesStay /\ (segment.pc # "free" => HeadsStay) /\ TypeInv
    BY SegmentStepInv DEF SharedInv
  <1>2. CASE ClaimPage \/ AddPage
    <2>1. /\ segment.pc \in {"alloc", "fill"}
          /\ \A pd \in PageDescr :
               pmt'[pd].init => pmt[pd].init \/ pd = Descr(segment)
          /\ AllocPage \/ AddPage \/ UNCHANGED pmt
          /\ listOfProcesses' = listOfProcesses
      <3>1. CASE AllocPage
        BY <1>1, <3>1, AllocPageKeeps
      <3>2. CASE AllocPageDiskFull
        BY <3>2 DEF AllocPageDiskFull, Exit
      <3>3. CASE AddPage
        BY <1>1, <3>3, AddPageKeeps
      <3> QED
        BY <1>2, <3>1, <3>2, <3>3 DEF ClaimPage
    <2>2. segment # Idle
      BY <2>1 DEF Idle
    <2>3. sharing.pc = "create"
      BY <2>1, <2>2 DEF SharedInv, AloneInv
    <2>4. Creating(Descr(segment))
      <3>1. /\ sharing.record.pid = segment.p
            /\ segment.page + segment.left =
                 sharing.record.start + sharing.record.size
            /\ sharing.record.start <= segment.page
        BY <2>2, <2>3 DEF SharedInv, CreateInv
      <3>2. segment.page \in Nat /\ segment.left \in Nat \ {0}
        BY <1>1, <2>2, SegmentKinds, CallNumbers DEF SegmentCall
      <3>3. sharing.record.start \in Nat /\ sharing.record.size \in Nat
        BY <2>3, SharingKinds, KnownRecord DEF SharedInv, Idle
      <3>4. segment.page \in PagesIn(sharing.record)
        BY <3>1, <3>2, <3>3 DEF PagesIn
      <3> QED
        BY <2>3, <3>1, <3>4 DEF Creating, Descr
    <2>5. /\ ~Removing /\ Known' = Known /\ HeadsStay
          /\ \A q : ListOf(q)' = ListOf(q)
          /\ \A pd : Creating(pd)' <=> Creating(pd)
          /\ \A q, k : InCall(q, k)' <=> InCall(q, k)
      BY <1>1, <2>1, <2>3 DEF Removing, Known, ListOf, Creating, InCall, Alike,
                              PagesIn
    <2>6. HomeAddress' /\ KnownPages' /\ ListedHome' /\ HomesKept' /\ HeadsListed'
      <3>1. \A pd \in PageDescr :
              pmt'[pd].init => pmt[pd].init \/ Creating(pd)'
        BY <2>1, <2>4, <2>5
      <3> QED
        BY <1>1, <2>5, <3>1, HomesStay
    <2>7. AddedPages' /\ HeadsGoing' /\ HeadGone'
      BY <2>3, <2>5
         DEF HomesInv, AddedPages, HeadsGoing, HeadGone, Removing, PagesIn, HeadOf
    <2> QED
      BY <2>6, <2>7 DEF HomesInv
  <1>3. CASE RemovePages
    BY <1>3, HomesRemovePages
  <1> QED
    BY <1>2, <1>3 DEF SegmentStep

\* The record of a segment whose pages are there goes into the lists.
LEMMA HomesPublish ==
  ASSUME SharedInv, SharedInv', ListsInv, ListsInv', HomesInv, Publish
  PROVE  HomesInv'
  <1>1. PICK p \in Processes, record \in SharedSegment :
          p = sharing.p /\ record = sharing.record
    BY SharingKinds DEF SharedInv, Publish, Idle
  <1>2. /\ sharing.pc \in {"create", "publish"} /\ segment = Idle
        /\ listOfSharedSegments' =
             [listOfSharedSegments EXCEPT ![p] = Append(@, record)]
        /\ systemSegments' = IF sharing.pc = "create"
                             THEN Append(systemSegments, record)
                             ELSE systemSegments
        /\ home' = IF sharing.pc = "create"
                   THEN [pd \in PageDescr |->
                           IF pd \in PagesOf(record) THEN nullptr ELSE home[pd]]
                   ELSE home
        /\ sharing' = Idle
        /\ UNCHANGED <<pageDirectory, pmt, PID, listOfProcesses, segment>>
    BY <1>1 DEF Publish, vars, kernelVars, callVars
  <1>3. /\ systemSegments \in Seq(SharedSegment)
        /\ listOfSharedSegments \in [Processes -> Seq(SharedSegment)]
        /\ listOfProcesses \subseteq Processes
        /\ home \in [PageDescr -> PageDescr \union {nullptr}]
        /\ ~Removing
    BY <1>2 DEF SharedInv, SharingTyped, TypeInv, TypeOK, KernelTypeOK, Removing
  <1>4. /\ Known' = IF sharing.pc = "create" THEN Known \union {record} ELSE Known
        /\ ListOf(p)' = ListOf(p) \union {record}
        /\ \A q \in Processes : q # p => ListOf(q)' = ListOf(q)
    <2>1. /\ listOfSharedSegments'[p] = Append(listOfSharedSegments[p], record)
          /\ \A q \in Processes :
               q # p => listOfSharedSegments'[q] = listOfSharedSegments[q]
          /\ listOfSharedSegments[p] \in Seq(SharedSegment)
      BY <1>2, <1>3
    <2> QED
      BY <1>2, <1>3, <2>1, AppendedRecord DEF Known, ListOf
  <1>5. /\ p \in listOfProcesses
        /\ \A k \in Known : k.pid = p => record.start \notin PagesIn(k)
        /\ sharing.pc = "create" =>
             /\ record.pid = p
             /\ \A x \in ListOf(p) : x.start \notin PagesIn(record)
             /\ \A page \in PagesIn(record) : Mapped(<<p, page>>)
        /\ sharing.pc = "publish" =>
             /\ \E k \in Known : Alike(record, k)
             /\ home[<<p, record.start>>] = HeadOf(record)
    <2>1. /\ p \in listOfProcesses
          /\ \A k \in Known : k.pid = p => record.start \notin PagesIn(k)
          /\ sharing.pc = "create" =>
               \A x \in ListOf(p) : x.start \notin PagesIn(record)
          /\ sharing.pc = "publish" => \E k \in Known : Alike(record, k)
      BY <1>1, <1>2 DEF ListsInv, AddingInv, HomesInv, AddedPages
    <2>2. ASSUME sharing.pc = "create"
          PROVE  /\ record.pid = p
                 /\ \A page \in PagesIn(record) : Mapped(<<p, page>>)
      <3>1. Reached = record.start + record.size
        BY <1>1, <1>2 DEF Reached
      <3>2. /\ sharing.record.pid = sharing.p
            /\ \A page \in sharing.record.start .. Reached - 1 :
                 Mapped(<<sharing.p, page>>)
        BY <2>2 DEF SharedInv, CreateInv
      <3>3. PagesIn(record) = sharing.record.start .. Reached - 1
        <4>1. record.start \in Nat /\ record.size \in Nat
          BY CallNumbers DEF SharedSegment
        <4> QED
          BY <1>1, <3>1, <4>1 DEF PagesIn
      <3> QED
        BY <1>1, <3>2, <3>3
    <2>3. ASSUME sharing.pc = "publish"
          PROVE  home[<<p, record.start>>] = HeadOf(record)
      <3>1. sharing.left = 0
        BY <2>3 DEF ListsInv, AddingInv
      <3>2. sharing.left < record.size
        BY <3>1 DEF SharedSegment
      <3> QED
        BY <1>1, <2>3, <3>2 DEF HomesInv, AddedPages
    <2> QED
      BY <2>1, <2>2, <2>3
  <1>6. \A pd \in PageDescr :
          home'[pd] = IF Creating(pd) THEN nullptr ELSE home[pd]
    <2>1. ASSUME NEW pd \in PageDescr
          PROVE  Creating(pd) <=> sharing.pc = "create" /\ pd \in PagesOf(record)
      <3>1. pd = <<pd[1], pd[2]>>
        BY DEF PageDescr
      <3> QED
        BY <1>1, <3>1 DEF Creating, PagesOf, PagesIn
    <2> QED
      BY <1>2, <2>1
  <1>7. /\ \A pd : ~Creating(pd)'
        /\ \A q, k : ~InCall(q, k)'
    BY <1>2 DEF Creating, InCall, Idle
  <1>8. HomeAddress'
    BY <1>2, <1>6 DEF HomesInv, HomeAddress
  <1>9. KnownPages'
    <2>1. ASSUME NEW k \in Known', NEW x \in ListOf(k.pid)',
                 x.start \in PagesIn(k)
          PROVE  x.start = k.start
      <3>1. CASE k \in Known /\ x \in ListOf(k.pid)
        BY <2>1, <3>1 DEF HomesInv, KnownPages
      <3>2. CASE k \in Known /\ x \notin ListOf(k.pid)
        <4>1. k.pid \in Processes
          BY <3>2, RecordPages
        <4>2. x = record /\ k.pid = p
          BY <1>4, <3>2, <4>1
        <4> QED
          BY <1>5, <2>1, <3>2, <4>2
      <3>3. CASE k \notin Known
        <4>1. k = record /\ sharing.pc = "create"
          BY <1>4, <3>3
        <4>2. x \in ListOf(p) \/ x = record
          BY <1>4, <1>5, <4>1
        <4> QED
          BY <1>5, <2>1, <4>1, <4>2
      <3> QED
        BY <3>1, <3>2, <3>3
    <2>2. ASSUME NEW k \in Known', k.pid \in listOfProcesses,
                 NEW page \in PagesIn(k)
          PROVE  pmt[<<k.pid, page>>].init /\ home'[<<k.pid, page>>] = nullptr
      <3>1. CASE k \in Known
        <4>1. <<k.pid, page>> \in PageDescr
          BY <3>1, RecordPages
        <4>2. pmt[<<k.pid, page>>].init /\ home[<<k.pid, page>>] = nullptr
          BY <2>2, <3>1 DEF HomesInv, KnownPages
        <4> QED
          BY <1>6, <4>1, <4>2
      <3>2. CASE k \notin Known
        <4>1. k = record /\ sharing.pc = "create"
          BY <1>4, <3>2
        <4>2. pmt[<<p, page>>].init /\ record.pid = p
          BY <1>5, <4>1 DEF Mapped
        <4>3. <<p, page>> \in PageDescr
          <5>1. record.start + record.size <= NumPages
            BY <1>1, <4>1 DEF SharedInv, CreateInv
          <5>2. record.start \in Nat /\ record.size \in Nat
            BY CallNumbers DEF SharedSegment
          <5>3. page \in Pages
            BY <4>1, <5>1, <5>2, CallNumbers DEF PagesIn, Pages
          <5> QED
            BY <5>3 DEF PageDescr
        <4>4. Creating(<<p, page>>)
          BY <1>1, <4>1, <4>2 DEF Creating
        <4> QED
          BY <1>6, <4>1, <4>2, <4>3, <4>4
      <3> QED
        BY <3>1, <3>2
    <2> QED
      BY <1>2, <2>1, <2>2 DEF KnownPages
  <1>10. ListedHome'
    <2>1. ASSUME NEW q \in listOfProcesses, NEW r \in ListOf(q)', q # r.pid
          PROVE  home'[<<q, r.start>>] = HeadOf(r)
      <3>1. CASE r \in ListOf(q)
        <4>1. <<q, r.start>> \in PageDescr
          BY <1>3, <3>1, RecordPages
        <4>2. home[<<q, r.start>>] = HeadOf(r)
          BY <2>1, <3>1 DEF HomesInv, ListedHome
        <4>3. ~Creating(<<q, r.start>>)
          BY <1>1, <1>5, <3>1 DEF Creating
        <4> QED
          BY <1>6, <4>1, <4>2, <4>3
      <3>2. CASE r \notin ListOf(q)
        <4>1. r = record /\ q = p
          BY <1>3, <1>4, <3>2
        <4>2. sharing.pc = "publish"
          BY <1>2, <1>5, <2>1, <4>1
        <4> QED
          BY <1>2, <1>5, <4>1, <4>2
      <3> QED
        BY <3>1, <3>2
    <2> QED
      BY <1>2, <2>1 DEF ListedHome, HeadOf
  <1>11. HomesKept'
    <2>1. ASSUME NEW pd \in PageDescr, home'[pd] # nullptr, pmt[pd].init,
                 pd[1] \in listOfProcesses, home'[pd][1] \in listOfProcesses
          PROVE  pmt[home'[pd]].init /\ home'[home'[pd]] = nullptr
      <3>1. home'[pd] = home[pd] /\ ~Creating(pd)
        BY <1>6, <2>1
      <3>2. PICK h \in PageDescr : h = home[pd]
        BY <1>3, <2>1, <3>1
      <3>3. pmt[h].init /\ home[h] = nullptr
        BY <1>3, <2>1, <3>1, <3>2 DEF HomesInv, HomesKept
      <3>4. home'[h] = nullptr
        BY <1>6, <3>3
      <3> QED
        BY <3>1, <3>2, <3>3, <3>4
    <2> QED
      BY <1>2, <1>7, <2>1 DEF HomesKept
  <1>12. HeadsListed'
    <2>1. ASSUME NEW k \in Known', NEW q \in listOfProcesses,
                 pmt[<<q, k.start>>].init, Attached(q, k)'
          PROVE  \E r \in ListOf(q)' : Alike(r, k)
      <3>1. CASE q = k.pid
        BY <2>1, <3>1 DEF ListsInv, NamesInv
      <3>2. CASE q # k.pid /\ k \in Known
        <4>1. PICK pd \in PageDescr : pd = <<q, k.start>>
          BY <1>3, <3>2, RecordPages
        <4>2. home'[pd] = HeadOf(k) /\ HeadOf(k) # nullptr
          BY <2>1, <3>2, <4>1, RecordPages DEF Attached, HeadOf
        <4>3. home[pd] = HeadOf(k) /\ ~Creating(pd)
          BY <1>6, <4>2
        <4>4. CASE InCall(q, k)
          <5>1. q = p /\ Alike(record, k)
            BY <1>1, <4>4 DEF InCall
          <5> QED
            BY <1>4, <5>1
        <4>5. CASE ~InCall(q, k)
          <5>1. PICK r \in ListOf(q) : Alike(r, k)
            BY <2>1, <3>2, <4>1, <4>3, <4>5 DEF HomesInv, HeadsListed, Attached
          <5>2. r \in ListOf(q)'
            BY <1>3, <1>4
          <5> QED
            BY <5>1, <5>2
        <4> QED
          BY <4>4, <4>5
      <3>3. CASE q # k.pid /\ k \notin Known
        <4>1. k = record /\ sharing.pc = "create" /\ record.pid = p /\ q # p
          BY <1>4, <1>5, <3>3
        <4>2. k.start \in PagesIn(k) /\ k.start \in Pages /\ HeadOf(k) \in PageDescr
          BY <4>1, KnownRecord DEF PagesIn, HeadOf, SharedInv
        <4>3. PICK pd \in PageDescr : pd = <<q, k.start>>
          BY <1>3, <4>2 DEF PageDescr
        <4>4. ~Creating(pd)
          BY <1>1, <4>1, <4>3 DEF Creating
        <4>5. home[pd] = HeadOf(k)
          BY <1>6, <2>1, <3>3, <4>3, <4>4 DEF Attached, HeadOf
        <4>6. HeadOf(k) # nullptr
          BY <4>2, SentinelAssumption
        <4>7. ~Creating(home[pd])
          <5>1. pd[1] \in listOfProcesses /\ home[pd][1] \in listOfProcesses
            BY <1>5, <4>1, <4>3, <4>5 DEF HeadOf
          <5>2. pmt[pd].init /\ home[pd] # nullptr
            BY <2>1, <4>3, <4>5, <4>6
          <5> QED
            BY <1>3, <4>4, <5>1, <5>2 DEF HomesInv, HomesKept
        <4> QED
          BY <1>1, <4>1, <4>2, <4>5, <4>7 DEF Creating, HeadOf
      <3> QED
        BY <3>1, <3>2, <3>3
    <2> QED
      BY <1>2, <2>1 DEF HeadsListed
  <1> QED
    BY <1>2, <1>8, <1>9, <1>10, <1>11, <1>12, HomesIdle DEF HomesInv

\* A page is attached.
LEMMA HomesAttachPage ==
  ASSUME SharedInv, ListsInv, ListsInv', HomesInv, AttachPage
  PROVE  HomesInv'
  <1>1. /\ SharedInv' /\ TablesStay /\ HeadsStay
        /\ \A x \in PageDescr :
             x # Descr(sharing) => pmt'[x].init = pmt[x].init
    BY AttachPageInv
  <1>2. /\ sharing.pc = "attach" /\ Advance
        /\ home' = [home EXCEPT ![Descr(sharing)] =
             <<sharing.record.pid,
               sharing.record.start + (sharing.record.size - sharing.left)>>]
        /\ UNCHANGED <<listOfProcesses, PID, callVars, listOfSharedSegments,
                       systemSegments>>
    BY DEF AttachPage
  <1>3. /\ sharing \in AttachCall /\ segment = Idle
        /\ sharing.p \in Processes /\ sharing.page \in Pages
        /\ sharing.record \in SharedSegment
        /\ sharing.left \in Nat /\ sharing.left # 0
        /\ sharing.left <= sharing.record.size
        /\ Descr(sharing) = <<sharing.p, sharing.page>>
        /\ ~pmt[Descr(sharing)].init
    BY <1>2, AttachFacts
  <1>4. PICK p \in Processes, page \in Pages, left \in Nat, record \in SharedSegment :
          /\ p = sharing.p /\ page = sharing.page /\ left = sharing.left
          /\ record = sharing.record
    BY <1>3
  <1>5. /\ sharing'.pc \in {"attach", "publish"}
        /\ sharing'.p = p /\ sharing'.record = record /\ sharing'.left = left - 1
    BY <1>2, <1>3, <1>4 DEF Advance, AttachCall
  <1>6. PICK pd \in PageDescr : pd = <<p, page>> /\ pd = Descr(sharing)
    BY <1>3, <1>4 DEF PageDescr
  <1>7. /\ page \in Nat /\ record.start \in Nat /\ record.size \in Nat
        /\ left # 0 /\ left <= record.size
        /\ page + left = record.start + record.size
        /\ record.pid < PID /\ record.pid \in Processes
    <2>1. page + left = record.start + record.size
      BY <1>2, <1>4 DEF ListsInv, AddingInv
    <2>2. record.pid < PID
      BY <1>2, <1>4 DEF SharedInv, AttachInv, HasPages
    <2> QED
      BY <1>3, <1>4, <2>1, <2>2, CallNumbers DEF SharedSegment
  <1>8. /\ home'[pd] = <<record.pid, page>>
        /\ \A x \in PageDescr : x # pd => home'[x] = home[x]
        /\ home \in [PageDescr -> PageDescr \union {nullptr}]
    <2>1. home \in [PageDescr -> PageDescr \union {nullptr}]
      BY DEF SharedInv, SharingTyped
    <2>2. record.start + (record.size - left) = page
      BY <1>7
    <2>3. home' = [home EXCEPT ![pd] = <<record.pid, page>>]
      BY <1>2, <1>4, <1>6, <2>2
    <2> QED
      BY <2>1, <2>3
  <1>9. /\ ~pmt[pd].init
        /\ \A x \in PageDescr : x # pd => pmt'[x].init = pmt[x].init
    BY <1>1, <1>3, <1>6
  <1>10. /\ ~Removing /\ ~Removing' /\ Known' = Known
         /\ \A q : ListOf(q)' = ListOf(q)
         /\ \A x : ~Creating(x) /\ ~Creating(x)'
         /\ \A q, k : InCall(q, k)' <=> q = p /\ Alike(record, k)
         /\ \A q, k : InCall(q, k) <=> q = p /\ Alike(record, k)
    BY <1>2, <1>4, <1>5 DEF Removing, Known, ListOf, Creating, InCall, Alike
  <1>11. listOfProcesses \subseteq Processes
    BY DEF SharedInv, TypeInv, TypeOK, KernelTypeOK
  <1>12. PICK own \in Known : Alike(record, own) /\ record.size <= own.size
    BY <1>2, <1>4 DEF HomesInv, AddedPages
  <1>13. page \in PagesIn(own) /\ own.pid = record.pid /\ own.start = record.start
    <2>1. own.pid = record.pid /\ own.start = record.start /\ own.size \in Nat
      BY <1>12, RecordPages DEF Alike, SharedSegment
    <2> QED
      BY <1>7, <1>12, <2>1 DEF PagesIn
  <1>14. HomeAddress'
    <2>1. home'[pd][2] = pd[2] /\ home'[pd][1] < PID
      BY <1>6, <1>7, <1>8
    <2>2. \A x \in PageDescr : x # pd /\ home'[x] # nullptr =>
            home'[x][2] = x[2] /\ home'[x][1] < PID
      BY <1>8 DEF HomesInv, HomeAddress
    <2> QED
      BY <1>2, <2>1, <2>2 DEF HomeAddress
  <1>15. KnownPages'
    <2>1. ASSUME NEW k \in Known, k.pid \in listOfProcesses, NEW y \in PagesIn(k)
          PROVE  pmt'[<<k.pid, y>>].init /\ home'[<<k.pid, y>>] = nullptr
      <3>1. /\ pmt[<<k.pid, y>>].init /\ home[<<k.pid, y>>] = nullptr
            /\ <<k.pid, y>> \in PageDescr
        BY <2>1, RecordPages DEF HomesInv, KnownPages
      <3>2. <<k.pid, y>> # pd
        BY <1>9, <3>1
      <3> QED
        BY <1>8, <1>9, <3>1, <3>2
    <2>2. \A k \in Known : \A x \in ListOf(k.pid) :
            x.start \in PagesIn(k) => x.start = k.start
      BY DEF HomesInv, KnownPages
    <2> QED
      BY <1>2, <1>10, <2>1, <2>2 DEF KnownPages
  <1>16. AddedPages'
    <2>1. home'[<<p, record.start>>] = HeadOf(record)
      <3>1. CASE left = record.size
        <4>1. page = record.start
          BY <1>7, <3>1
        <4> QED
          BY <1>6, <1>8, <4>1 DEF HeadOf
      <3>2. CASE left # record.size
        <4>1. left < record.size /\ page # record.start
          BY <1>7, <3>2
        <4>2. home[<<p, record.start>>] = HeadOf(record)
          BY <1>2, <1>4, <4>1 DEF HomesInv, AddedPages
        <4>3. <<p, record.start>> \in PageDescr /\ <<p, record.start>> # pd
          BY <1>6, <4>1 DEF PageDescr, SharedSegment
        <4> QED
          BY <1>8, <4>2, <4>3
      <3> QED
        BY <3>1, <3>2
    <2>2. \A k \in Known : k.pid = p => record.start \notin PagesIn(k)
      BY <1>2, <1>4 DEF HomesInv, AddedPages
    <2> QED
      BY <1>5, <1>10, <1>12, <2>1, <2>2 DEF AddedPages, HeadOf, PagesIn, Alike
  <1>17. ListedHome'
    <2>1. ASSUME NEW q \in listOfProcesses, NEW r \in ListOf(q), q # r.pid
          PROVE  home'[<<q, r.start>>] = HeadOf(r)
      <3>1. <<q, r.start>> \in PageDescr
        BY <1>11, RecordPages
      <3>2. pmt[<<q, r.start>>].init
        <4>1. ~Emptied(q, r)
          BY <1>10 DEF Emptied, Removing
        <4> QED
          BY <4>1 DEF ListsInv, FirstPagesInv, Mapped
      <3>3. <<q, r.start>> # pd
        BY <1>9, <3>2
      <3>4. home[<<q, r.start>>] = HeadOf(r)
        BY <2>1 DEF HomesInv, ListedHome
      <3> QED
        BY <1>8, <3>1, <3>3, <3>4
    <2> QED
      BY <1>2, <1>10, <2>1 DEF ListedHome, HeadOf
  <1>18. HomesKept'
    <2>1. ASSUME NEW x \in PageDescr, home'[x] # nullptr, pmt'[x].init,
                 x[1] \in listOfProcesses, home'[x][1] \in listOfProcesses
          PROVE  pmt'[home'[x]].init /\ home'[home'[x]] = nullptr
      <3>1. \E h \in PageDescr :
              h = home'[x] /\ pmt[h].init /\ home[h] = nullptr
        <4>1. CASE x = pd
          <5>1. own.pid \in listOfProcesses
            BY <1>8, <1>13, <2>1, <4>1
          <5>2. /\ pmt[<<own.pid, page>>].init /\ home[<<own.pid, page>>] = nullptr
                /\ <<own.pid, page>> \in PageDescr
            BY <1>13, <5>1, RecordPages DEF HomesInv, KnownPages
          <5> QED
            BY <1>8, <1>13, <4>1, <5>2
        <4>2. CASE x # pd
          <5>1. home'[x] = home[x] /\ pmt[x].init /\ home[x] \in PageDescr
            BY <1>8, <1>9, <2>1, <4>2
          <5> QED
            BY <1>10, <2>1, <5>1 DEF HomesInv, HomesKept
        <4> QED
          BY <4>1, <4>2
      <3>2. PICK h \in PageDescr :
              h = home'[x] /\ pmt[h].init /\ home[h] = nullptr
        BY <3>1
      <3>3. h # pd
        BY <1>9, <3>2
      <3> QED
        BY <1>8, <1>9, <3>2, <3>3
    <2> QED
      BY <1>2, <1>10, <2>1 DEF HomesKept
  <1>19. HeadsListed'
    <2>1. ASSUME NEW k \in Known, NEW q \in listOfProcesses,
                 pmt'[<<q, k.start>>].init, ~InCall(q, k)',
                 q # k.pid, home'[<<q, k.start>>] = HeadOf(k)
          PROVE  \E r \in ListOf(q) : Alike(r, k)
      <3>1. PICK x \in PageDescr : x = <<q, k.start>>
        BY <1>11, RecordPages
      <3>2. CASE x = pd
        <4>1. q = p /\ k.start = page /\ k.pid = own.pid
          BY <1>6, <1>8, <1>13, <2>1, <3>1, <3>2 DEF HeadOf
        <4>2. PICK y \in ListOf(k.pid) : Alike(y, k)
          BY DEF ListsInv, NamesInv
        <4>3. PICK z \in ListOf(k.pid) : Alike(z, own)
          BY <4>1 DEF ListsInv, NamesInv
        <4>4. y.start = own.start
          BY <1>13, <4>1, <4>2 DEF HomesInv, KnownPages, Alike
        <4>5. y = z
          BY <4>3, <4>4, RecordPages DEF ListsInv, FirstPagesInv, Alike
        <4>6. Alike(record, k)
          BY <1>12, <4>2, <4>3, <4>5 DEF Alike
        <4> QED
          BY <1>10, <2>1, <4>1, <4>6
      <3>3. CASE x # pd
        <4>1. home[x] = HeadOf(k) /\ pmt[x].init /\ ~InCall(q, k)
          BY <1>8, <1>9, <1>10, <2>1, <3>1, <3>3
        <4> QED
          BY <1>10, <3>1, <4>1 DEF HomesInv, HeadsListed, Attached
      <3> QED
        BY <3>2, <3>3
    <2>2. ASSUME NEW k \in Known, NEW q \in listOfProcesses, q = k.pid
          PROVE  \E r \in ListOf(q) : Alike(r, k)
      BY <2>2 DEF ListsInv, NamesInv
    <2> QED
      BY <1>2, <1>10, <2>1, <2>2 DEF HeadsListed, Attached, HeadOf
  <1>20. HeadsGoing' /\ HeadGone'
    BY <1>5, <1>10 DEF HeadsGoing, HeadGone
  <1> QED
    BY <1>14, <1>15, <1>16, <1>17, <1>18, <1>19, <1>20 DEF HomesInv

\* The process whose turn it is strikes the segment off its list.
LEMMA HomesUnlist ==
  ASSUME SharedInv, ListsInv, HomesInv, Unlist
  PROVE  HomesInv'
  <1> DEFINE name == sharing.record.name
  <1>1. /\ sharing.pc = "removing" /\ segment = Idle /\ Removing
        /\ listOfSharedSegments' =
             [listOfSharedSegments EXCEPT ![Turn] = Without(@, name)]
        /\ sharing' = IF sharing.todo = {Turn} THEN Idle
                      ELSE [sharing EXCEPT !.pc = "remove", !.todo = @ \ {Turn}]
        /\ UNCHANGED <<pageDirectory, pmt, PID, listOfProcesses, systemSegments,
                       home>>
    BY DEF Unlist, vars, kernelVars, callVars, Removing
  <1>2. /\ sharing \in RemoveCall
        /\ Turn \in sharing.todo /\ Turn \in listOfProcesses /\ Turn \in Processes
        /\ Listed(listOfSharedSegments[Turn], name)
        /\ listOfSharedSegments[Turn] \in Seq(SharedSegment)
        /\ listOfSharedSegments \in [Processes -> Seq(SharedSegment)]
        /\ listOfProcesses \subseteq Processes
    BY <1>1, TurnFound, OwnRecord
       DEF SharedInv, TypeInv, TypeOK, KernelTypeOK
  <1>3. PICK t \in listOfProcesses : t = Turn
    BY <1>2
  <1>4. PICK record \in SharedSegment, todo \in SUBSET Processes :
          record = sharing.record /\ todo = sharing.todo
    BY <1>2 DEF RemoveCall
  <1>5. PICK own \in ListOf(t) : Alike(own, record)
    BY <1>1, <1>3, <1>4, OwnRecord
  <1>6. /\ \A q \in Processes : ListOf(q)' \subseteq ListOf(q)
        /\ \A q \in Processes : q # t => ListOf(q)' = ListOf(q)
        /\ \A r \in ListOf(t) : r.name # name => r \in ListOf(t)'
    <2>1. /\ ToSet(Without(listOfSharedSegments[t], name))
               \subseteq ToSet(listOfSharedSegments[t])
          /\ \A r \in ToSet(listOfSharedSegments[t]) :
               r.name # name => r \in ToSet(Without(listOfSharedSegments[t], name))
      <3>1. Listed(listOfSharedSegments[t], name) /\ listOfSharedSegments[t] \in Seq(SharedSegment)
        BY <1>2, <1>3
      <3> HIDE DEF name
      <3> QED
        BY <3>1, RemovedRecord
    <2>2. /\ listOfSharedSegments'[t] = Without(listOfSharedSegments[t], name)
          /\ \A q \in Processes :
               q # t => listOfSharedSegments'[q] = listOfSharedSegments[q]
      BY <1>1, <1>2, <1>3
    <2> QED
      BY <2>1, <2>2 DEF ListOf
  <1>7. \/ todo = {t} /\ sharing' = Idle
        \/ /\ todo # {t} /\ sharing'.pc = "remove"
           /\ sharing'.record = record /\ sharing'.todo = todo \ {t}
           /\ sharing'.everywhere = sharing.everywhere
    BY <1>1, <1>2, <1>3, <1>4 DEF RemoveCall
  <1>8. /\ ~pmt[<<t, record.start>>].init
        /\ sharing.everywhere =>
             \A q \in listOfProcesses :
               pmt[<<q, record.start>>].init /\ Attached(q, record) =>
                 q \in todo \ {t}
    BY <1>1, <1>3, <1>4 DEF HomesInv, HeadGone, HeadsGoing
  <1>9. /\ Known' = Known
        /\ \A x : ~Creating(x) /\ ~Creating(x)'
        /\ \A q, k : ~InCall(q, k)
    BY <1>1, <1>7 DEF Known, Creating, InCall, Idle
  <1>10. HomeAddress'
    BY <1>1 DEF HomesInv, HomeAddress
  <1>11. KnownPages'
    <2>1. \A k \in Known : k.pid \in Processes
      BY RecordPages
    <2>2. \A k \in Known : \A x \in ListOf(k.pid)' :
            x.start \in PagesIn(k) => x.start = k.start
      BY <1>6, <2>1 DEF HomesInv, KnownPages
    <2> QED
      BY <1>1, <1>9, <2>2 DEF HomesInv, KnownPages
  <1>12. ListedHome'
    <2>1. \A p \in listOfProcesses : \A r \in ListOf(p)' :
            p # r.pid => home[<<p, r.start>>] = HeadOf(r)
      BY <1>2, <1>6 DEF HomesInv, ListedHome
    <2> QED
      BY <1>1, <2>1 DEF ListedHome, HeadOf
  <1>13. HomesKept'
    <2>1. ASSUME NEW x \in PageDescr, home[x] # nullptr, pmt[x].init,
                 x[1] \in listOfProcesses, home[x][1] \in listOfProcesses
          PROVE  \/ pmt[home[x]].init /\ home[home[x]] = nullptr
                 \/ /\ todo # {t} /\ sharing.everywhere
                    /\ home[x] = HeadOf(record)
      <3>1. \/ pmt[home[x]].init /\ home[home[x]] = nullptr
            \/ sharing.everywhere /\ home[x] = HeadOf(record)
        BY <1>4, <1>9, <2>1 DEF HomesInv, HomesKept
      <3>2. ASSUME sharing.everywhere, home[x] = HeadOf(record)
            PROVE  todo # {t}
        <4>1. x = <<x[1], record.start>>
          BY <2>1, <3>2 DEF HomesInv, HomeAddress, PageDescr, HeadOf
        <4>2. pmt[<<x[1], record.start>>].init /\ Attached(x[1], record)
          BY <2>1, <3>2, <4>1 DEF Attached
        <4> QED
          BY <1>8, <2>1, <3>2, <4>2
      <3> QED
        BY <3>1, <3>2
    <2> QED
      BY <1>1, <1>7, <1>9, <2>1 DEF HomesKept, Removing, HeadOf
  <1>14. HeadsListed'
    <2>1. ASSUME NEW k \in Known, NEW q \in listOfProcesses,
                 pmt[<<q, k.start>>].init, Attached(q, k)
          PROVE  \E r \in ListOf(q)' : Alike(r, k)
      <3>1. PICK r \in ListOf(q) : Alike(r, k)
        BY <1>9, <2>1 DEF HomesInv, HeadsListed
      <3>2. ASSUME q = t
            PROVE  r.name # name
        <4> SUFFICES ASSUME r.name = name PROVE FALSE
          OBVIOUS
        <4>1. Once(listOfSharedSegments[t]) /\ listOfSharedSegments[t] \in Seq(SharedSegment)
          BY <1>2, <1>3 DEF ListsInv, NamesInv
        <4>2. own.name = r.name
          BY <1>4, <1>5 DEF Alike
        <4>3. own = r
          BY <3>2, <4>1, <4>2, OnceNamed DEF ListOf
        <4>4. k.start = record.start
          BY <1>5, <3>1, <4>3 DEF Alike
        <4> QED
          BY <1>8, <2>1, <3>2, <4>4
      <3>3. r \in ListOf(q)'
        BY <1>2, <1>6, <3>2
      <3> QED
        BY <3>1, <3>3
    <2>2. \A q, k : Attached(q, k)' <=> Attached(q, k)
      BY <1>1 DEF Attached, HeadOf
    <2>3. ASSUME NEW k \in Known', NEW q \in listOfProcesses',
                 pmt'[<<q, k.start>>].init, Attached(q, k)'
          PROVE  \E r \in ListOf(q)' : Alike(r, k)
      BY <1>1, <1>9, <2>1, <2>2, <2>3
    <2> QED
      BY <2>3 DEF HeadsListed
  <1>15. HeadsGoing'
    <2>1. CASE sharing' = Idle
      BY <2>1, HomesIdle
    <2>2. CASE sharing' # Idle
      <3> SUFFICES ASSUME sharing.everywhere, NEW q \in listOfProcesses,
                          pmt[<<q, record.start>>].init, Attached(q, record)
                   PROVE  q \in todo \ {t}
        BY <1>1, <1>7, <2>2 DEF HeadsGoing, Attached, HeadOf
      <3> QED
        BY <1>8
    <2> QED
      BY <2>1, <2>2
  <1>16. AddedPages' /\ HeadGone'
    BY <1>7 DEF AddedPages, HeadGone, Idle
  <1> QED
    BY <1>10, <1>11, <1>12, <1>13, <1>14, <1>15, <1>16 DEF HomesInv

\* A step that changes nothing keeps it all.
LEMMA HomesStutter ==
  ASSUME HomesInv, UNCHANGED allVars
  PROVE  HomesInv'
  <1>1. /\ UNCHANGED <<pmt, home, sharing, segment, PID, listOfProcesses>>
        /\ UNCHANGED <<listOfSharedSegments, systemSegments>>
    BY DEF allVars, vars, kernelVars, callVars, sharedVars
  <1>2. Known' = Known /\ \A q : ListOf(q)' = ListOf(q)
    BY <1>1 DEF Known, ListOf
  <1>3. /\ (Removing' <=> Removing) /\ Turn' = Turn
        /\ \A x : Creating(x)' <=> Creating(x)
        /\ \A q, k : (InCall(q, k)' <=> InCall(q, k))
        /\ \A q, k : (Attached(q, k)' <=> Attached(q, k))
    <2>1. \A x : Creating(x)' <=> Creating(x)
      BY <1>1 DEF Creating, PagesIn
    <2>2. \A q, k : InCall(q, k)' <=> InCall(q, k)
      BY <1>1 DEF InCall, Alike
    <2>3. \A q, k : Attached(q, k)' <=> Attached(q, k)
      BY <1>1 DEF Attached, HeadOf
    <2> QED
      BY <1>1, <2>1, <2>2, <2>3 DEF Removing, Turn
  <1>4. HomeAddress' /\ KnownPages' /\ ListedHome'
    BY <1>1, <1>2
       DEF HomesInv, HomeAddress, KnownPages, ListedHome, PagesIn, HeadOf
  <1>5. AddedPages'
    BY <1>1, <1>2 DEF HomesInv, AddedPages, PagesIn, HeadOf, Alike
  <1>6. HomesKept'
    <2>1. ASSUME NEW x \in PageDescr, home[x] # nullptr, pmt[x].init,
                 ~Creating(x), x[1] \in listOfProcesses,
                 home[x][1] \in listOfProcesses
          PROVE  \/ /\ pmt[home[x]].init /\ home[home[x]] = nullptr
                    /\ ~Creating(home[x])
                 \/ Removing /\ sharing.everywhere
                    /\ home[x] = HeadOf(sharing.record)
      BY <2>1 DEF HomesInv, HomesKept
    <2>2. \A x : Creating(x)' <=> Creating(x)
      BY <1>3
    <2>3. \A x : Creating(home[x])' <=> Creating(home[x])
      BY <1>1 DEF Creating, PagesIn
    <2> QED
      BY <1>1, <1>3, <2>1, <2>2, <2>3 DEF HomesKept, HeadOf
  <1>7. HeadsListed'
    BY <1>1, <1>2, <1>3 DEF HomesInv, HeadsListed, Alike
  <1>8. HeadsGoing' /\ HeadGone'
    BY <1>1, <1>3 DEF HomesInv, HeadsGoing, HeadGone
  <1> QED
    BY <1>4, <1>5, <1>6, <1>7, <1>8 DEF HomesInv

\* Every step keeps what is said of the homes.
LEMMA HomesNextInv ==
  DeleteInv /\ HomesInv /\ [DeleteNext]_allVars => DeleteInv' /\ HomesInv'
  <1> SUFFICES ASSUME DeleteInv, HomesInv, [DeleteNext]_allVars
               PROVE  HomesInv'
    BY DeleteNextInv
  <1>1. SharedInv /\ SharedInv' /\ ListsInv /\ ListsInv'
    BY DeleteNextInv DEF DeleteInv
  <1>2. UNCHANGED allVars => HomesInv'
    BY HomesStutter
  <1>3. CASE Programs
    BY <1>1, <1>3, HomesPrograms
  <1>4. CASE SameAddress
    <2>1. PICK p \in Processes, page \in Pages, size \in SegmentSizes,
               name \in Names :
            /\ Listed(systemSegments, name) => page = getSharedSegment(name).start
            /\ CreateShared(p, page, size, name, "READ_WRITE")
      BY <1>4 DEF SameAddress
    <2>2. "READ_WRITE" \in {"EXECUTE", "READ_WRITE"}
      OBVIOUS
    <2> QED
      BY <1>1, <2>1, <2>2, HomesCreateShared
  <1>5. CASE AnyDelete
    <2>1. PICK p \in Processes, name \in Names :
            DisconnectShared(p, name) \/ DeleteShared(p, name)
      BY <1>5 DEF AnyDelete
    <2> QED
      BY <1>1, <2>1, HomesRemoval
  <1>6. CASE SharedStep
    <2>1. CASE Publish
      BY <1>1, <2>1, HomesPublish
    <2>2. CASE AttachPage
      BY <1>1, <2>2, HomesAttachPage
    <2>3. CASE DeletePages
      BY <1>1, <2>3, HomesDeletePages
    <2>4. CASE Unlist
      BY <1>1, <2>4, HomesUnlist
    <2>5. CASE /\ SegmentStep /\ CarveTable
               /\ UNCHANGED <<listOfSharedSegments, systemSegments, sharing, home>>
      BY <1>1, <2>5, HomesSegmentStep
    <2>6. CASE InstructionStep /\ UNCHANGED sharedVars
      BY <1>1, <2>6, HomesPrograms
    <2>7. CASE Over /\ UNCHANGED sharedVars
      <3>1. UNCHANGED allVars
        BY <2>7 DEF Over, allVars
      <3> QED
        BY <1>2, <3>1
    <2> QED
      BY <1>6, <2>1, <2>2, <2>3, <2>4, <2>5, <2>6, <2>7 DEF SharedStep
  <1> QED
    BY <1>2, <1>3, <1>4, <1>5, <1>6 DEF DeleteNext

\* A removal ends with the last process's striking off its record.
LEMMA RemovalEnds ==
  ASSUME [DeleteNext]_allVars, sharing.pc = "removing", sharing' = Idle
  PROVE  Unlist
  <1>1. sharing # Idle /\ sharing' # sharing
    BY DEF Idle
  <1>2. ~Programs
    BY <1>1 DEF Programs, SharedQuiet
  <1>3. ~SameAddress
    <2>1. ASSUME NEW p, NEW page, NEW size, NEW name, NEW flags,
                 CreateShared(p, page, size, name, flags)
          PROVE  SharedQuiet
      BY <2>1 DEF CreateShared, NewShared, Attach
    <2> QED
      BY <1>1, <2>1 DEF SameAddress, SharedQuiet
  <1>4. ~AnyDelete
    <2>1. ASSUME NEW p, NEW name,
                 DisconnectShared(p, name) \/ DeleteShared(p, name)
          PROVE  SharedQuiet
      BY <2>1 DEF DisconnectShared, DeleteShared
    <2> QED
      BY <1>1, <2>1 DEF AnyDelete, SharedQuiet
  <1>5. ~Publish /\ ~AttachPage /\ ~DeletePages
    BY DEF Publish, AttachPage, DeletePages
  <1> QED
    BY <1>1, <1>2, <1>3, <1>4, <1>5 DEF DeleteNext, SharedStep, allVars, sharedVars

\* When a removal ends, nobody has the segment.
LEMMA RemovalComplete ==
  ASSUME DeleteInv, HomesInv, [DeleteNext]_allVars,
         sharing.pc = "removing", sharing.everywhere, sharing' = Idle,
         NEW p \in listOfProcesses
  PROVE  LET record == sharing.record
             head   == <<record.pid, record.start>>
         IN  /\ ~Listed(listOfSharedSegments'[p], record.name)
             /\ \A page \in Pages :
                  LET pd == <<p, page>>
                  IN  pd = head \/ home[pd] = head =>
                        ~(HasTable(pd)' /\ pmt'[pd].init)
  <1> DEFINE name == sharing.record.name
  <1>1. /\ Unlist /\ Removing /\ segment = Idle
        /\ listOfSharedSegments' =
             [listOfSharedSegments EXCEPT ![Turn] = Without(@, name)]
        /\ sharing.todo = {Turn} /\ UNCHANGED pmt
    <2>1. Unlist
      BY RemovalEnds
    <2>2. sharing' = IF sharing.todo = {Turn} THEN Idle
                     ELSE [sharing EXCEPT !.pc = "remove", !.todo = @ \ {Turn}]
      BY <2>1 DEF Unlist
    <2>3. sharing.todo = {Turn}
      <3> SUFFICES ASSUME sharing.todo # {Turn} PROVE FALSE
        OBVIOUS
      <3>1. sharing \in RemoveCall
        BY TurnFound DEF DeleteInv
      <3>2. sharing'.pc = "remove"
        BY <2>2, <3>1 DEF RemoveCall
      <3> QED
        BY <3>2 DEF Idle
    <2> QED
      BY <2>1, <2>3 DEF Unlist, Removing, vars, kernelVars
  <1>2. SharedInv /\ ListsInv
    BY DEF DeleteInv
  <1>3. /\ Turn \in Processes /\ p \in Processes
        /\ listOfSharedSegments \in [Processes -> Seq(SharedSegment)]
        /\ Listed(listOfSharedSegments[Turn], name)
        /\ Once(listOfSharedSegments[Turn])
    BY <1>1, <1>2, TurnFound
       DEF SharedInv, TypeInv, TypeOK, KernelTypeOK, ListsInv, NamesInv
  <1>4. ~Listed(listOfSharedSegments'[p], name)
    <2>1. CASE p = Turn
      <3>1. /\ listOfSharedSegments'[p] = Without(listOfSharedSegments[p], name)
            /\ listOfSharedSegments[p] \in Seq(SharedSegment)
        BY <1>1, <1>3, <2>1
      <3> HIDE DEF name
      <3> QED
        BY <1>3, <2>1, <3>1, RemovedRecord
    <2>2. CASE p # Turn
      <3>1. listOfSharedSegments'[p] = listOfSharedSegments[p]
        BY <1>1, <1>3, <2>2
      <3>2. ASSUME NEW r \in ListOf(p), r.name = name
            PROVE  FALSE
        <4>1. ~Going(p, r)
          BY <1>1, <2>2 DEF Going
        <4>2. PICK k \in Known : Alike(r, k)
          BY <1>2, <4>1 DEF ListsInv, NamesInv
        <4>3. Listed(systemSegments, name)
          BY <3>2, <4>2, ListedRecord DEF Known, Alike
        <4> QED
          BY <1>1, <1>2, <4>3 DEF ListsInv, TakingInv
      <3> QED
        BY <3>1, <3>2, ListedRecord DEF ListOf
    <2> QED
      BY <2>1, <2>2
  <1>5. ASSUME NEW page \in Pages,
               \/ <<p, page>> = HeadOf(sharing.record)
               \/ home[<<p, page>>] = HeadOf(sharing.record)
        PROVE  ~pmt[<<p, page>>].init
    <2>1. page = sharing.record.start /\ Attached(p, sharing.record)
      <3>1. CASE <<p, page>> = HeadOf(sharing.record)
        BY <3>1 DEF HeadOf, Attached
      <3>2. CASE home[<<p, page>>] = HeadOf(sharing.record)
        <4>1. <<p, page>> \in PageDescr /\ HeadOf(sharing.record) # nullptr
          <5>1. PICK own \in ListOf(Turn) : Alike(own, sharing.record)
            BY <1>1, <1>2, OwnRecord
          <5>2. HeadOf(own) # nullptr
            BY <1>2, <1>3, RecordPages
          <5> QED
            BY <1>3, <5>1, <5>2 DEF PageDescr, Alike, HeadOf
        <4>2. home[<<p, page>>][2] = page
          BY <3>2, <4>1 DEF HomesInv, HomeAddress
        <4> QED
          BY <3>2, <4>2 DEF HeadOf, Attached
      <3> QED
        BY <1>5, <3>1, <3>2
    <2> SUFFICES ASSUME pmt[<<p, page>>].init PROVE FALSE
      OBVIOUS
    <2>2. p = Turn
      BY <1>1, <2>1 DEF HomesInv, HeadsGoing
    <2> QED
      BY <1>1, <2>1, <2>2 DEF HomesInv, HeadGone
  <1> QED
    BY <1>1, <1>4, <1>5 DEF HeadOf

\* When a call that deletes a segment everywhere returns, no list has it and no
\* process its first page, be it the creator or one that attached it.
THEOREM RemovalReachesAll == DeleteSpec => HeadRemovedEverywhere
  <1>1. SharedInit => DeleteInv /\ HomesInv
    BY SharedInitInv, ListsInit, HomesInit DEF DeleteInv
  <1>2. DeleteInv /\ HomesInv /\ [DeleteNext]_allVars => DeleteInv' /\ HomesInv'
    BY HomesNextInv
  <1>3. DeleteInv /\ HomesInv /\ [DeleteNext]_allVars =>
          [sharing.pc = "removing" /\ sharing.everywhere /\ sharing' = Idle =>
             LET record == sharing.record
                 head   == <<record.pid, record.start>>
             IN  \A p \in listOfProcesses :
                   /\ ~Listed(listOfSharedSegments'[p], record.name)
                   /\ \A page \in Pages :
                        LET pd == <<p, page>>
                        IN  pd = head \/ home[pd] = head =>
                              ~(HasTable(pd)' /\ pmt'[pd].init)]_allVars
    BY RemovalComplete
  <1> QED
    BY <1>1, <1>2, <1>3, PTL DEF DeleteSpec, HeadRemovedEverywhere

-----------------------------------------------------------------------------
(* Shared memory is shared until one of the sharers' pages moves.  A page    *)
(* that is there keeps its rights, and its frame as long as it is in memory; *)
(* the pages a creation still fills are nobody's home; all pages of a known  *)
(* segment are there; and the index of an attaching call in the creator's    *)
(* first table is that of the page it has come to.                           *)

\* The only segment calls are those that create a segment to be shared.
OnlyCreated ==
  segment # Idle => sharing.pc = "create" /\ segment.op = "createSegment"

\* What an attached page is to be the same as is there.
HomesThere ==
  \A pd, other \in PageDescr :
    home[pd] = other => pmt[other].init /\ ~Creating(other)

\* The creator has all of a segment's pages.
AllThere(record) ==
  \A page \in PagesIn(record) : pmt[<<record.pid, page>>].init

\* The creator's entry an attaching call is at.
AtSource ==
  sharing.pc = "attach" =>
    /\ AllThere(sharing.record)
    /\ InFirstTable =>
         /\ sharing.dir = DirOf(sharing.record.start)
         /\ sharing.entry = EntryOf(sharing.record.start)
                              + (sharing.record.size - sharing.left)
         /\ sharing.fresh => sharing.table = sharing.dir

\* The page that is being brought in is out of memory.
OutInv ==
  /\ instruction.pc = "fault" => ~pmt[Descr(instruction)].valid
  /\ fault # Idle =>
       instruction.pc = "fault" /\ Descr(fault) = Descr(instruction)

AlikeInv ==
  /\ OnlyCreated /\ HomesThere /\ AtSource /\ OutInv
  /\ \A record \in Known : AllThere(record)

\* No page that was there is taken away.
PagesStay == \A pd \in PageDescr : pmt[pd].init => pmt'[pd].init

\* What is there apart from the pages being created keeps its rights, and its
\* frame unless it is put out or brought in.
EntriesStay ==
  \A pd \in PageDescr :
    pmt[pd].init /\ ~Creating(pd) =>
      /\ ~Creating(pd)'
      /\ pmt'[pd].init
      /\ pmt'[pd].rwe = pmt[pd].rwe
      /\ pmt[pd].valid /\ pmt'[pd].valid => pmt'[pd].block = pmt[pd].block

\* At the start there is no page.
LEMMA AlikeInit == SharedInit => AlikeInv
  <1> SUFFICES ASSUME SharedInit PROVE AlikeInv
    OBVIOUS
  <1>1. /\ \A pd \in PageDescr : home[pd] = nullptr /\ ~pmt[pd].init
        /\ sharing = Idle /\ systemSegments = <<>> /\ segment = Idle
        /\ fault = Idle /\ instruction = Idle
    BY DEF SharedInit, Init, KernelInit, ProcessInit, FreshEntry
  <1>2. sharing.pc = "idle" /\ instruction.pc = "idle"
    BY <1>1 DEF Idle
  <1>3. Known = {}
    BY <1>1 DEF Known, ToSet
  <1>4. nullptr \notin PageDescr
    BY SentinelAssumption
  <1> QED
    BY <1>1, <1>2, <1>3, <1>4
       DEF AlikeInv, OutInv, OnlyCreated, HomesThere, AtSource

\* The pages of a segment's record.
LEMMA PagesInDescr ==
  ASSUME NEW record \in SharedSegment, HasPages(record),
         NEW page \in PagesIn(record)
  PROVE  <<record.pid, page>> \in PageDescr
  <1>1. /\ record.pid \in Processes /\ record.start \in Nat
        /\ record.size \in Nat /\ record.start + record.size <= NumPages
    BY CallNumbers DEF SharedSegment, HasPages
  <1>2. page \in Pages
    BY <1>1, CallNumbers DEF PagesIn, Pages
  <1> QED
    BY <1>1, <1>2 DEF PageDescr

\* A segment stays there.
LEMMA AllThereStays ==
  ASSUME PagesStay, NEW record \in SharedSegment, HasPages(record),
         AllThere(record)
  PROVE  AllThere(record)'
  <1>1. ASSUME NEW page \in PagesIn(record)
        PROVE  pmt'[<<record.pid, page>>].init
    <2>1. <<record.pid, page>> \in PageDescr /\ pmt[<<record.pid, page>>].init
      BY PagesInDescr DEF AllThere
    <2> QED
      BY <2>1 DEF PagesStay
  <1>2. PagesIn(record)' = PagesIn(record)
    BY DEF PagesIn
  <1> QED
    BY <1>1, <1>2 DEF AllThere

\* So do all that are known.
LEMMA KnownThereStay ==
  ASSUME SharedInv, PagesStay, AlikeInv, UNCHANGED systemSegments
  PROVE  \A record \in Known' : AllThere(record)'
  <1> SUFFICES ASSUME NEW record \in Known PROVE AllThere(record)'
    BY DEF Known
  <1>1. record \in SharedSegment /\ HasPages(record) /\ AllThere(record)
    BY KnownRecord DEF SharedInv, AlikeInv
  <1> QED
    BY <1>1, AllThereStays

\* And what attached pages are to be the same as.
LEMMA HomesThereStay ==
  ASSUME AlikeInv, EntriesStay, UNCHANGED home
  PROVE  HomesThere'
  <1> SUFFICES ASSUME NEW pd \in PageDescr, NEW other \in PageDescr,
                      home[pd] = other
               PROVE  pmt'[other].init /\ ~Creating(other)'
    BY DEF HomesThere
  <1>1. pmt[other].init /\ ~Creating(other)
    BY DEF AlikeInv, HomesThere
  <1> QED
    BY <1>1 DEF EntriesStay

\* getFreeFrame brings no page in, it may put one out.
LEMMA NoneBroughtIn ==
  ASSUME KernelTypeOK, NEW pd, NEW f,
         NEW descriptors \in [PageDescr -> PageDescriptor],
         getFreeFrame(pd, descriptors, f)
  PROVE  \A x \in PageDescr : pmt'[x].valid => descriptors[x].valid
  <1>1. CASE takeFreeFrame(pd, descriptors, f)
    BY <1>1 DEF takeFreeFrame
  <1>2. CASE replacePage(pd, descriptors, f)
    <2>1. PICK c : pmt' = PutOut(descriptors, Victim, c)
      BY <1>2 DEF replacePage, pageOut
    <2>2. ASSUME NEW x \in PageDescr
          PROVE  PutOut(descriptors, Victim, c)[x].valid => descriptors[x].valid
      BY DEF PutOut, PageDescriptor
    <2> QED
      BY <2>1, <2>2
  <1> QED
    BY <1>1, <1>2 DEF getFreeFrame

\* What an instruction does to the pages: the one it faults on is brought in,
\* maybe in another's place; rights and the frames of the rest stay.
LEMMA InstructionEntries ==
  ASSUME SharedInv, OutInv, InstructionStep
  PROVE  /\ OutInv'
         /\ \A x \in PageDescr :
              /\ pmt'[x].init = pmt[x].init /\ pmt'[x].rwe = pmt[x].rwe
              /\ pmt[x].valid => pmt'[x].block = pmt[x].block
  <1> DEFINE Kept(x) == /\ pmt'[x].init = pmt[x].init /\ pmt'[x].rwe = pmt[x].rwe
                        /\ pmt[x].valid => pmt'[x].block = pmt[x].block
  <1> SUFFICES OutInv' /\ \A x \in PageDescr : Kept(x)
    OBVIOUS
  <1>1. /\ instruction \in Instruction /\ instruction # Idle
        /\ KernelTypeOK /\ ProcessTypeOK
        /\ pmt \in [PageDescr -> PageDescriptor]
    <2>1. instruction # Idle /\ TypeOK
      BY InstructionKeeps DEF SharedInv, TypeInv
    <2> QED
      BY <2>1 DEF TypeOK, KernelTypeOK
  <1>2. PICK pd \in PageDescr :
          pd = Descr(instruction) /\ pd = <<instruction.p, instruction.page>>
    BY <1>1 DEF Instruction, Descr, PageDescr
  <1>3. CASE Access
    <2>1. instruction.pc # "fault" /\ fault = Idle /\ fault' = Idle
      BY <1>3 DEF Access, At, callVars, OutInv
    <2>2. CASE accessOK(pd, instruction.type) /\ Goto("translate")
      <3>1. \/ pmt' = [pmt EXCEPT ![pd].dirty = TRUE]
            \/ pmt' = pmt
        BY <2>2 DEF accessOK
      <3>2. instruction'.pc = "translate"
        BY <1>1, <2>2 DEF Goto, Instruction
      <3>3. \A x \in PageDescr : Kept(x)
        BY <1>1, <3>1 DEF PageDescriptor
      <3> QED
        BY <2>1, <3>2, <3>3 DEF OutInv
    <2>3. CASE /\ accessStatus(pd, instruction.type) = "PAGE_FAULT"
               /\ Goto("fault") /\ UNCHANGED pmt
      <3>1. ~pmt[pd].valid
        BY <2>3 DEF accessStatus
      <3>2. Descr(instruction') = pd
        BY <1>1, <1>2, <2>3 DEF Goto, Instruction, Descr
      <3> QED
        BY <2>1, <2>3, <3>1, <3>2 DEF OutInv
    <2>4. CASE UNCHANGED <<pmt, instruction>>
      BY <2>1, <2>4 DEF OutInv
    <2> QED
      BY <1>2, <1>3, <2>2, <2>3, <2>4 DEF Access, Exit, kernelVars
  <1>4. CASE HandleFault
    <2>1. /\ instruction.pc = "fault" /\ UNCHANGED instruction
          /\ ~pmt[pd].valid
      BY <1>2, <1>4 DEF HandleFault, At, testVars, OutInv
    <2>2. CASE pageFault(instruction.p, instruction.page)
      <3>1. PICK f \in Frames :
              /\ getFreeFrame(pd, pmt, f)
              /\ fault' = [pc |-> "copy", p |-> instruction.p,
                           page |-> instruction.page, frame |-> f,
                           from |-> "empty"]
        BY <1>2, <2>2 DEF pageFault
      <3>2. \A x \in PageDescr : Kept(x)
        BY <1>1, <3>1, GetFreeFrameType
      <3>3. ~pmt'[pd].valid
        BY <1>1, <2>1, <3>1, NoneBroughtIn
      <3>4. Descr(fault') = pd
        BY <1>2, <3>1 DEF Descr
      <3> QED
        BY <1>2, <2>1, <3>2, <3>3, <3>4 DEF OutInv
    <2>3. CASE UNCHANGED <<pmt, fault>>
      BY <2>1, <2>3 DEF OutInv
    <2>4. CASE CopyIn
      <3>1. UNCHANGED pmt /\ fault # Idle /\ fault \in FaultCall
        BY <1>1, <2>4 DEF CopyIn, ProcessTypeOK, Idle
      <3>2. Descr(fault') = Descr(fault)
        BY <2>4, <3>1 DEF CopyIn, FaultCall, Descr
      <3> QED
        BY <2>1, <3>1, <3>2 DEF OutInv
    <2> QED
      BY <1>4, <2>2, <2>3, <2>4
         DEF HandleFault, pageFaultRefused, CopyInCrash, Exit, callVars
  <1>5. CASE FaultServed
    <2>1. /\ pmt' = [pmt EXCEPT ![Descr(fault)] = Validated(@)]
          /\ fault # Idle /\ fault' = Idle /\ instruction.pc = "fault"
      BY <1>5 DEF FaultServed, Validate, At, Idle
    <2>2. instruction'.pc = "retry"
      BY <1>1, <1>5 DEF FaultServed, Goto, Instruction
    <2>3. Descr(fault) = pd /\ ~pmt[pd].valid
      BY <1>2, <2>1 DEF OutInv
    <2>4. /\ Validated(pmt[pd]).init = pmt[pd].init
          /\ Validated(pmt[pd]).rwe = pmt[pd].rwe
      BY <1>1 DEF Validated, PageDescriptor
    <2>5. \A x \in PageDescr : Kept(x)
      BY <1>1, <2>1, <2>3, <2>4
    <2> QED
      BY <2>1, <2>2, <2>5 DEF OutInv
  <1>6. CASE Translate \/ Store \/ Fetch \/ CheckValue
    <2>1. UNCHANGED <<pmt, fault>> /\ instruction.pc # "fault"
      BY <1>6 DEF Translate, Store, Fetch, CheckValue, At, Exit, kernelVars,
                  callVars
    <2>2. fault' = Idle
      BY <2>1 DEF OutInv
    <2>3. instruction'.pc # "fault"
      <3>1. CASE Translate
        BY <1>1, <2>1, <3>1 DEF Translate, Instruction
      <3>2. CASE Fetch
        BY <1>1, <3>2 DEF Fetch, Instruction
      <3>3. CASE Store \/ CheckValue
        BY <3>3 DEF Store, CheckValue, Idle
      <3> QED
        BY <1>6, <3>1, <3>2, <3>3
    <2> QED
      BY <2>1, <2>2, <2>3 DEF OutInv
  <1> QED
    BY <1>3, <1>4, <1>5, <1>6 DEF InstructionStep

\* The programs touch pages, and begin and end.
LEMMA AlikePrograms ==
  ASSUME SharedInv, AlikeInv,
         Programs \/ (InstructionStep /\ UNCHANGED sharedVars)
  PROVE  AlikeInv' /\ EntriesStay
  <1>1. /\ sharing.pc = "idle" /\ sharing'.pc = "idle"
        /\ UNCHANGED <<systemSegments, home>>
        /\ segment = Idle /\ segment' = Idle
    <2>1. /\ sharing = Idle /\ sharing' = Idle /\ UNCHANGED <<systemSegments, home>>
          /\ segment = Idle /\ segment' = Idle
      <3>1. CASE Programs
        BY <3>1, ProgramsInv DEF Programs, SharedQuiet, Quiet
      <3>2. CASE InstructionStep /\ UNCHANGED sharedVars
        <4>1. instruction # Idle /\ UNCHANGED segment
          BY <3>2, InstructionKeeps DEF SharedInv
        <4>2. sharing = Idle
          BY <4>1 DEF SharedInv, AloneInv
        <4>3. segment = Idle
          BY <4>2 DEF AlikeInv, OnlyCreated, Idle
        <4> QED
          BY <3>2, <4>1, <4>2, <4>3 DEF sharedVars
      <3> QED
        BY <3>1, <3>2
    <2> QED
      BY <2>1 DEF Idle
  <1>2. /\ OutInv'
        /\ \A pd \in PageDescr :
             /\ pmt'[pd].init = pmt[pd].init /\ pmt'[pd].rwe = pmt[pd].rwe
             /\ pmt[pd].valid => pmt'[pd].block = pmt[pd].block
    <2>1. CASE Programs
      <3>1. CASE CreateProcess \/ \E p \in Processes : DestroyProcess(p)
        <4>1. UNCHANGED <<pmt, fault, instruction>>
          BY <3>1 DEF CreateProcess, createProcess, DestroyProcess,
                      removeProcess, callVars, testVars
        <4> QED
          BY <4>1 DEF AlikeInv, OutInv
      <3>2. CASE \E p \in listOfProcesses, page \in Pages : Touch(p, page)
        <4>1. UNCHANGED <<pmt, fault>> /\ instruction'.pc = "access"
          BY <3>2 DEF Touch, Begin, kernelVars, callVars
        <4>2. fault = Idle
          <5>1. instruction = Idle
            BY <2>1 DEF Programs, SharedQuiet, Quiet
          <5> QED
            BY <5>1 DEF AlikeInv, OutInv, Idle
        <4> QED
          BY <4>1, <4>2 DEF OutInv
      <3> QED
        BY <2>1, <3>1, <3>2 DEF Programs
    <2>2. CASE InstructionStep /\ UNCHANGED sharedVars
      BY <2>2, InstructionEntries DEF AlikeInv
    <2> QED
      BY <2>1, <2>2
  <1>3. OnlyCreated' /\ AtSource'
    BY <1>1 DEF OnlyCreated, AtSource
  <1>4. PagesStay /\ EntriesStay
    BY <1>1, <1>2 DEF PagesStay, EntriesStay, Creating
  <1> QED
    BY <1>1, <1>2, <1>3, <1>4, HomesThereStay, KnownThereStay DEF AlikeInv

\* A call that shares a segment creates pages that are not there, or attaches
\* some of those the creator has.
LEMMA AlikeCreateShared ==
  ASSUME SharedInv, HeadsMapped, AlikeInv,
         NEW p \in Processes, NEW page \in Pages, NEW size \in SegmentSizes,
         NEW name \in Names, NEW flags \in {"EXECUTE", "READ_WRITE"},
         CreateShared(p, page, size, name, flags)
  PROVE  AlikeInv' /\ EntriesStay
  <1>1. /\ sharing = Idle /\ segment = Idle /\ sharing.pc = "idle"
        /\ UNCHANGED <<systemSegments, home, pmt>>
    BY CreateSharedPages DEF Idle
  <1>2. UNCHANGED <<fault, instruction>>
    BY DEF CreateShared, NewShared, Attach, createSegment, StartSegment,
           RefuseSegment, callVars, testVars
  <1>3. OutInv' /\ PagesStay
    BY <1>1, <1>2 DEF AlikeInv, OutInv, PagesStay
  <1>4. \A record \in Known' : AllThere(record)'
    BY <1>1, <1>3, KnownThereStay
  <1>5. CASE UNCHANGED <<sharing, segment>>
    <2>1. EntriesStay /\ OnlyCreated' /\ AtSource'
      BY <1>1, <1>5 DEF EntriesStay, Creating, OnlyCreated, AtSource
    <2> QED
      BY <1>1, <1>3, <1>4, <2>1, HomesThereStay DEF AlikeInv
  <1>6. CASE /\ createSegment(p, page, size, flags)
             /\ sharing' = [pc |-> "create", p |-> p,
                            record |-> [name |-> name, start |-> page,
                                        size |-> size, flags |-> flags,
                                        pid |-> p]]
    <2>1. /\ sharing'.pc = "create" /\ sharing'.record.pid = p
          /\ sharing'.record.start = page /\ sharing'.record.size = size
      BY <1>6
    <2>2. /\ size \in Nat \ {0} /\ canAllocate(p, page, size)
          /\ segment'.op = "createSegment"
      BY <1>6, CallNumbers DEF createSegment, StartSegment
    <2>3. OnlyCreated' /\ AtSource'
      BY <2>1, <2>2 DEF OnlyCreated, AtSource
    <2>4. EntriesStay
      <3>1. ASSUME NEW pd \in PageDescr, pmt[pd].init
            PROVE  ~Creating(pd)'
        <4>1. pd = <<pd[1], pd[2]>>
          BY DEF PageDescr
        <4>2. \A q \in page .. page + size - 1 : ~pmt[<<p, q>>].init
          BY <2>2, FreeToAllocate
        <4> QED
          BY <2>1, <3>1, <4>1, <4>2 DEF Creating, PagesIn
      <3> QED
        BY <1>1, <3>1 DEF EntriesStay
    <2> QED
      BY <1>1, <1>3, <1>4, <2>3, <2>4, HomesThereStay DEF AlikeInv
  <1>7. CASE /\ Attach(p, page, size, name, flags) /\ sharing' # sharing
    <2> DEFINE gss == getSharedSegment(name)
               minSize == IF size > gss.size THEN gss.size ELSE size
    <2>1. /\ Listed(systemSegments, name) /\ size > 0 /\ UNCHANGED segment
          /\ sharing' = [pc |-> "attach", p |-> p,
                         record |-> [gss EXCEPT !.size = minSize],
                         page |-> page, left |-> minSize, asked |-> size,
                         fresh |-> FALSE, table |-> 0,
                         dir |-> DirOf(gss.start),
                         entry |-> EntryOf(gss.start)]
      BY <1>7 DEF Attach, callVars
    <2>2. gss \in Known /\ gss \in SharedSegment
      BY <2>1, NamedRecord DEF SharedInv, SharingTyped, getSharedSegment, Known
    <2>3. PICK d : d = DirOf(gss.start)
      OBVIOUS
    <2>4. PICK e : e = EntryOf(gss.start)
      OBVIOUS
    <2>5. /\ size \in Nat /\ gss.size \in Nat /\ minSize \in Nat
          /\ minSize <= gss.size /\ gss.start \in Nat
      BY <2>1, <2>2, CallNumbers DEF SharedSegment
    <2>6. e \in Nat
      <3> HIDE DEF gss
      <3>1. EntryOf(gss.start) \in 0 .. MAX_PMT_ENTRIES - 1
        BY <2>5, EntryOfPage
      <3> QED
        BY <2>4, <3>1, SizeAssumption
    <2> HIDE DEF minSize
    <2>7. PICK record : record = [gss EXCEPT !.size = minSize]
      OBVIOUS
    <2>8. /\ record.start = gss.start /\ record.pid = gss.pid
          /\ record.size = minSize
      BY <2>2, <2>7 DEF SharedSegment
    <2>9. /\ sharing'.pc = "attach" /\ sharing'.record = record
          /\ sharing'.left = minSize /\ sharing'.fresh = FALSE
          /\ sharing'.dir = d /\ sharing'.entry = e
      BY <2>1, <2>3, <2>4, <2>7
    <2> HIDE DEF gss
    <2>10. AllThere(record)
      <3>1. AllThere(gss)
        BY <2>2 DEF AlikeInv
      <3>2. PagesIn(record) \subseteq PagesIn(gss)
        BY <2>5, <2>8 DEF PagesIn
      <3> QED
        BY <2>8, <3>1, <3>2 DEF AllThere
    <2>11. AllThere(record)'
      BY <1>1, <2>10 DEF AllThere, PagesIn
    <2>12. e = e + (record.size - minSize)
      BY <2>5, <2>6, <2>8
    <2>13. AtSource'
      BY <2>3, <2>4, <2>8, <2>9, <2>11, <2>12 DEF AtSource
    <2>14. OnlyCreated'
      BY <1>1, <2>1, <2>9 DEF OnlyCreated
    <2>15. EntriesStay
      BY <1>1, <2>9 DEF EntriesStay, Creating
    <2> QED
      BY <1>1, <1>3, <1>4, <2>13, <2>14, <2>15, HomesThereStay DEF AlikeInv
  <1> QED
    <2>1. CASE NewShared(p, page, size, name, flags)
      <3>1. RefuseSegment(p, page, size) => UNCHANGED segment
        BY DEF RefuseSegment, callVars
      <3> QED
        BY <1>5, <1>6, <2>1, <3>1 DEF NewShared
    <2>2. CASE Attach(p, page, size, name, flags)
      <3>1. UNCHANGED segment
        BY <2>2 DEF Attach, callVars
      <3> QED
        BY <1>5, <1>7, <2>2, <3>1
    <2> QED
      BY <2>1, <2>2 DEF CreateShared

\* The pages of a segment that is published are there.
LEMMA AlikePublish ==
  ASSUME SharedInv, AlikeInv, Publish
  PROVE  AlikeInv' /\ EntriesStay
  <1> DEFINE record == sharing.record
  <1>1. /\ sharing.pc \in {"create", "publish"} /\ segment = Idle
        /\ sharing' = Idle
        /\ systemSegments' = IF sharing.pc = "create"
                             THEN Append(systemSegments, record)
                             ELSE systemSegments
        /\ home' = IF sharing.pc = "create"
                   THEN [pd \in PageDescr |->
                           IF pd \in PagesOf(record) THEN nullptr ELSE home[pd]]
                   ELSE home
        /\ UNCHANGED <<pmt, fault, instruction, segment>>
    BY DEF Publish, vars, kernelVars, callVars
  <1>2. /\ sharing # Idle /\ sharing'.pc = "idle" /\ segment' = Idle
        /\ record \in SharedSegment
    <2>1. sharing # Idle /\ sharing'.pc = "idle" /\ segment' = Idle
      BY <1>1 DEF Idle
    <2> QED
      BY <2>1, SharingKinds DEF SharedInv
  <1>3. OutInv' /\ OnlyCreated' /\ AtSource' /\ EntriesStay
    BY <1>1, <1>2 DEF AlikeInv, OutInv, OnlyCreated, AtSource, EntriesStay,
                      Creating
  <1>4. HomesThere'
    <2> SUFFICES ASSUME NEW pd \in PageDescr, NEW other \in PageDescr,
                        home'[pd] = other
                 PROVE  pmt'[other].init /\ ~Creating(other)'
      BY DEF HomesThere
    <2>1. home[pd] = other
      <3>1. nullptr \notin PageDescr
        BY SentinelAssumption
      <3> QED
        BY <1>1, <3>1
    <2>2. pmt[other].init
      BY <2>1 DEF AlikeInv, HomesThere
    <2> QED
      BY <1>1, <1>2, <2>2 DEF Creating
  <1>5. sharing.pc = "create" => AllThere(record)
    <2> SUFFICES ASSUME sharing.pc = "create" PROVE AllThere(record)
      OBVIOUS
    <2>1. /\ record.pid = sharing.p /\ Reached = record.start + record.size
          /\ record.start + record.size <= NumPages
          /\ \A page \in record.start .. Reached - 1 : Mapped(<<sharing.p, page>>)
      BY <1>1 DEF SharedInv, CreateInv, Reached
    <2>2. ASSUME NEW page \in PagesIn(record)
          PROVE  pmt[<<record.pid, page>>].init
      <3>1. page \in record.start .. Reached - 1
        <4>1. record.start \in Nat /\ record.size \in Nat
          BY <1>2, CallNumbers DEF SharedSegment
        <4> QED
          BY <2>1, <4>1 DEF PagesIn
      <3>2. Mapped(<<sharing.p, page>>)
        BY <2>1, <3>1
      <3> QED
        BY <2>1, <3>2 DEF Mapped
    <2> QED
      BY <2>2 DEF AllThere
  <1>6. Known' \subseteq Known \union
          (IF sharing.pc = "create" THEN {record} ELSE {})
    <2>1. CASE sharing.pc = "create"
      <3>1. systemSegments \in Seq(SharedSegment)
        BY DEF SharedInv, SharingTyped
      <3>2. ToSet(Append(systemSegments, record)) =
              ToSet(systemSegments) \union {record}
        BY <1>2, <3>1, AppendedRecord
      <3> QED
        BY <1>1, <2>1, <3>2 DEF Known
    <2>2. CASE sharing.pc # "create"
      BY <1>1, <2>2 DEF Known
    <2> QED
      BY <2>1, <2>2
  <1>7. \A k \in Known' : AllThere(k)'
    <2> SUFFICES ASSUME NEW k \in Known' PROVE AllThere(k)'
      OBVIOUS
    <2>1. AllThere(k)
      <3>1. CASE k \in Known
        BY <3>1 DEF AlikeInv
      <3>2. CASE sharing.pc = "create" /\ k = record
        BY <1>5, <3>2
      <3> QED
        BY <1>6, <3>1, <3>2
    <2> QED
      BY <1>1, <2>1 DEF AllThere, PagesIn
  <1> QED
    BY <1>3, <1>4, <1>7 DEF AlikeInv

\* An attaching call that is in the creator's first table copies the entry of
\* the creator's page it has come to, and steps its index to the next.
LEMMA SourceIsHome ==
  ASSUME SharedInv, AlikeInv, sharing.pc = "attach", InFirstTable,
         NEW page, page = sharing.record.start
                            + (sharing.record.size - sharing.left)
  PROVE  /\ <<sharing.record.pid, page>> \in PageDescr
         /\ SourceEntry = pmt[<<sharing.record.pid, page>>]
         /\ SourceTable = sharing.dir
         /\ pmt[<<sharing.record.pid, page>>].init
         /\ EntryOf(sharing.record.start)
              + (sharing.record.size - sharing.left) + 1 < MAX_PMT_ENTRIES =>
              NextSource[1] = sharing.dir /\ NextSource[2] = sharing.entry + 1
  <1>1. /\ sharing.record \in SharedSegment /\ HasPages(sharing.record)
        /\ AllThere(sharing.record) /\ sharing.dir = DirOf(sharing.record.start)
        /\ sharing.entry = EntryOf(sharing.record.start)
                             + (sharing.record.size - sharing.left)
        /\ sharing.fresh => sharing.table = sharing.dir
    BY AttachFacts DEF AlikeInv, AtSource, SharedInv, AttachInv
  <1>2. PICK start, size, left, dir, e, n \in Nat :
          /\ start = sharing.record.start /\ size = sharing.record.size
          /\ left = sharing.left /\ dir = sharing.dir
          /\ e = EntryOf(sharing.record.start) /\ n = MAX_PMT_ENTRIES
          /\ left # 0 /\ left <= size /\ start = dir * n + e
    <2>1. /\ sharing.record.start \in Nat /\ sharing.record.size \in Nat
          /\ sharing.left \in Nat /\ sharing.left # 0
          /\ sharing.left <= sharing.record.size /\ sharing.dir \in Nat
      BY AttachFacts
    <2>2. /\ EntryOf(sharing.record.start) \in 0 .. MAX_PMT_ENTRIES - 1
          /\ sharing.record.start = DirOf(sharing.record.start) * MAX_PMT_ENTRIES
                                      + EntryOf(sharing.record.start)
      BY <2>1, EntryOfPage
    <2>3. EntryOf(sharing.record.start) \in Nat
      BY <2>2, SizeAssumption
    <2> QED
      BY <1>1, <2>1, <2>2, <2>3, SizeAssumption
  <1>3. e + (size - left) < n
    BY <1>2 DEF InFirstTable
  <1>4. /\ sharing.entry = e + (size - left) /\ sharing.entry \in Nat
        /\ sharing.entry < n
    <2>1. PICK entry : entry = sharing.entry
      OBVIOUS
    <2>2. entry = e + (size - left)
      BY <1>1, <1>2, <2>1
    <2>3. /\ size \in Nat /\ left \in Nat /\ e \in Nat /\ n \in Nat
          /\ left # 0 /\ left <= size
      BY <1>2
    <2>4. entry \in Nat /\ entry < n
      BY <1>3, <2>2, <2>3
    <2> QED
      BY <2>1, <2>2, <2>4
  <1>5. dir * n + sharing.entry = page /\ page = start + (size - left)
    <2>1. PICK m : m = dir * n
      OBVIOUS
    <2>2. m \in Nat
      BY <1>2, <2>1
    <2>3. page = start + (size - left) /\ start = m + e
      BY <1>2, <2>1
    <2>4. size \in Nat /\ left \in Nat /\ e \in Nat
      BY <1>2
    <2>5. m + (e + (size - left)) = (m + e) + (size - left)
      BY <2>2, <2>4
    <2> QED
      BY <1>4, <2>1, <2>3, <2>5
  <1>6. page \in PagesIn(sharing.record)
    BY <1>2, <1>5 DEF PagesIn
  <1>7. <<sharing.record.pid, page>> \in PageDescr
    BY <1>1, <1>6, PagesInDescr
  <1>8. pmt[<<sharing.record.pid, page>>].init
    BY <1>1, <1>6 DEF AllThere
  <1>9. SourceTable = sharing.dir
    BY <1>1 DEF SourceTable, InFresh
  <1>10. SourceEntry = pmt[<<sharing.record.pid, page>>]
    <2>1. PICK own : own = <<sharing.record.pid, sharing.dir>>
      OBVIOUS
    <2>2. own # <<>> /\ own[1] = sharing.record.pid /\ own[2] = sharing.dir
      BY <2>1
    <2>3. sharing.entry < MAX_PMT_ENTRIES /\ ~(sharing.entry >= MAX_PMT_ENTRIES)
      BY <1>2, <1>4
    <2>4. SourceEntry =
            pmt[<<own[1], own[2] * MAX_PMT_ENTRIES + sharing.entry>>]
      BY <1>9, <2>1, <2>2, <2>3 DEF SourceEntry
    <2> QED
      BY <1>2, <1>5, <2>2, <2>4
  <1>11. ASSUME e + (size - left) + 1 < n
         PROVE  NextSource[1] = sharing.dir /\ NextSource[2] = sharing.entry + 1
    <2>1. sharing.entry # n /\ sharing.entry + 1 # n
      <3>1. PICK entry \in Nat : entry = sharing.entry
        BY <1>4
      <3>2. entry = e + (size - left)
        BY <1>4, <3>1
      <3>3. /\ size \in Nat /\ left \in Nat /\ e \in Nat /\ n \in Nat
            /\ left <= size
        BY <1>2
      <3>4. entry # n /\ entry + 1 # n
        BY <1>11, <3>2, <3>3
      <3> QED
        BY <3>1, <3>4
    <2>2. ~Wraps
      BY <1>2, <2>1 DEF Wraps
    <2> QED
      BY <2>2 DEF NextSource
  <1> QED
    BY <1>2, <1>7, <1>8, <1>9, <1>10, <1>11

\* In the creator's first table the page attached is the same as its home.
LEMMA AlikeAttachPage ==
  ASSUME SharedInv, AlikeInv, AttachPage,
         NEW page, page = sharing.record.start
                            + (sharing.record.size - sharing.left)
  PROVE  /\ AlikeInv' /\ EntriesStay
         /\ InFirstTable =>
              LET pd    == Descr(sharing)
                  other == <<sharing.record.pid, page>>
              IN  /\ other \in PageDescr /\ pmt'[other].init
                  /\ pmt'[pd].init
                  /\ pmt'[pd].valid = pmt'[other].valid
                  /\ pmt'[pd].block = pmt'[other].block
                  /\ pmt'[pd].rwe = pmt'[other].rwe
  <1>1. /\ sharing.pc = "attach" /\ Advance
        /\ UNCHANGED <<systemSegments, segment, fault, instruction>>
    BY DEF AttachPage, callVars, testVars
  <1>2. /\ sharing \in AttachCall /\ segment = Idle /\ instruction = Idle
        /\ sharing.record \in SharedSegment /\ Descr(sharing) \in PageDescr
        /\ ~pmt[Descr(sharing)].init /\ sharing.left \in Nat
        /\ sharing.record.start \in Nat /\ sharing.record.size \in Nat
        /\ sharing.left # 0 /\ sharing.left <= sharing.record.size
        /\ sharing.entry \in Nat /\ sharing.dir \in Nat /\ sharing.dir \in Dirs
    BY <1>1, AttachFacts
  <1>3. PICK pd \in PageDescr : pd = Descr(sharing)
    BY <1>2
  <1>4. HasPages(sharing.record) /\ AllThere(sharing.record)
    BY <1>1 DEF SharedInv, AttachInv, AlikeInv, AtSource
  <1>5. PICK other \in PageDescr :
          other = <<sharing.record.pid, page>> /\ pmt[other].init
    <2>1. page \in PagesIn(sharing.record)
      BY <1>2 DEF PagesIn
    <2> QED
      BY <1>2, <1>4, <2>1, PagesInDescr DEF AllThere
  <1>6. /\ pmt \in [PageDescr -> PageDescriptor]
        /\ home \in [PageDescr -> PageDescr \union {nullptr}]
        /\ SourceEntry \in PageDescriptor
    BY <1>1, SourceType DEF SharedInv, TypeInv, TypeOK, KernelTypeOK, SharingTyped
  <1>7. home' = [home EXCEPT ![pd] = other]
    BY <1>3, <1>5 DEF AttachPage
  <1>8. PICK from \in PageDescriptor :
          /\ from = SourceEntry
          /\ pmt'[pd].init = from.init /\ pmt'[pd].valid = from.valid
          /\ pmt'[pd].block = from.block /\ pmt'[pd].rwe = from.rwe
          /\ \A x \in PageDescr : x # pd => pmt'[x] = pmt[x]
    <2>1. PICK from \in PageDescriptor : from = SourceEntry
      BY <1>6
    <2>2. PICK dirty :
            dirty = IF InFresh THEN pmt[pd].dirty ELSE from.dirty
      OBVIOUS
    <2>3. PICK asked :
            asked = IF sharing.left = sharing.record.size THEN sharing.asked
                    ELSE pmt[pd].numOfPages
      OBVIOUS
    <2>4. pmt' = [pmt EXCEPT ![pd] =
            [@ EXCEPT !.init = from.init, !.valid = from.valid, !.dirty = dirty,
                      !.block = from.block, !.rwe = from.rwe,
                      !.sourceAddress = from.sourceAddress,
                      !.numOfPages = asked]]
      BY <1>3, <2>1, <2>2, <2>3 DEF AttachPage
    <2> QED
      BY <1>6, <2>1, <2>4 DEF PageDescriptor
  <1>9. ~pmt[pd].init /\ other # pd
    BY <1>2, <1>3, <1>5
  <1>10. /\ sharing'.pc = (IF sharing.left = 1 THEN "publish" ELSE "attach")
         /\ sharing'.record = sharing.record /\ sharing'.left = sharing.left - 1
         /\ sharing'.table = SourceTable /\ sharing'.dir = NextSource[1]
         /\ sharing'.entry = NextSource[2]
    BY <1>1, <1>2 DEF Advance, AttachCall
  <1>11. sharing'.pc # "create" /\ sharing.pc # "create"
    BY <1>1, <1>10
  <1>12. PagesStay /\ EntriesStay
    BY <1>8, <1>9, <1>11 DEF PagesStay, EntriesStay, Creating
  <1>13. OutInv'
    <2>1. instruction.pc # "fault" /\ fault = Idle
      BY <1>2 DEF AlikeInv, OutInv, Idle
    <2> QED
      BY <1>1, <2>1 DEF OutInv
  <1>14. OnlyCreated'
    BY <1>1, <1>2 DEF OnlyCreated
  <1>15. HomesThere'
    <2> SUFFICES ASSUME NEW x \in PageDescr, NEW y \in PageDescr, home'[x] = y
                 PROVE  pmt'[y].init /\ ~Creating(y)'
      BY DEF HomesThere
    <2>1. ~Creating(y)'
      BY <1>11 DEF Creating
    <2>2. pmt[y].init
      <3>1. CASE x = pd
        BY <1>5, <1>6, <1>7, <3>1
      <3>2. CASE x # pd
        BY <1>6, <1>7, <3>2 DEF AlikeInv, HomesThere
      <3> QED
        BY <3>1, <3>2
    <2> QED
      BY <1>12, <2>1, <2>2 DEF PagesStay
  <1>16. AtSource'
    <2>1. CASE sharing.left = 1
      BY <1>10, <2>1 DEF AtSource
    <2>2. CASE sharing.left # 1
      <3>1. PICK record \in SharedSegment : record = sharing.record
        BY <1>2
      <3>2. AllThere(record)'
        BY <1>4, <1>12, <3>1, AllThereStays
      <3>3. PICK d, e : d = DirOf(record.start) /\ e = EntryOf(record.start)
        OBVIOUS
      <3>4. e \in Nat
        <4>1. EntryOf(record.start) \in 0 .. MAX_PMT_ENTRIES - 1
          BY <1>2, <3>1, EntryOfPage
        <4> QED
          BY <3>3, <4>1, SizeAssumption
      <3>5. /\ sharing'.pc = "attach" /\ sharing'.record = record
            /\ sharing'.left = sharing.left - 1
        BY <1>10, <2>2, <3>1
      <3>6. ASSUME e + (record.size - sharing'.left) < MAX_PMT_ENTRIES
            PROVE  /\ sharing'.dir = d /\ sharing'.table = d
                   /\ sharing'.entry = e + (record.size - sharing'.left)
        <4>1. PICK n, size, left \in Nat :
                /\ n = MAX_PMT_ENTRIES /\ size = record.size
                /\ left = sharing.left /\ left # 0 /\ left <= size
          BY <1>2, <3>1, SizeAssumption
        <4>2. e + (size - (left - 1)) < n
          BY <3>5, <3>6, <4>1
        <4>3. e + (size - left) < n /\ e + (size - left) + 1 < n
          BY <3>4, <4>1, <4>2
        <4>4. InFirstTable
          BY <3>1, <3>3, <4>1, <4>3 DEF InFirstTable
        <4>5. /\ SourceTable = sharing.dir /\ NextSource[1] = sharing.dir
              /\ NextSource[2] = sharing.entry + 1
          BY <1>1, <3>1, <3>3, <4>1, <4>3, <4>4, SourceIsHome
        <4>6. sharing.dir = d /\ sharing.entry = e + (size - left)
          BY <1>1, <3>1, <3>3, <4>1, <4>4 DEF AlikeInv, AtSource
        <4>7. sharing'.entry = e + (size - (left - 1))
          BY <1>10, <3>4, <4>1, <4>5, <4>6
        <4> QED
          BY <1>10, <3>5, <4>1, <4>5, <4>6, <4>7
      <3>7. InFirstTable' => e + (record.size - sharing'.left) < MAX_PMT_ENTRIES
        BY <3>3, <3>5 DEF InFirstTable
      <3> QED
        BY <3>2, <3>3, <3>5, <3>6, <3>7 DEF AtSource
    <2> QED
      BY <2>1, <2>2
  <1>17. \A k \in Known' : AllThere(k)'
    BY <1>1, <1>12, KnownThereStay
  <1>18. InFirstTable => from = pmt[other]
    BY <1>1, <1>5, <1>8, SourceIsHome
  <1> QED
    BY <1>3, <1>5, <1>8, <1>9, <1>12, <1>13, <1>14, <1>15, <1>16, <1>17, <1>18
       DEF AlikeInv

\* A creation works on a page of the segment that is being created.
LEMMA CreatingPage ==
  ASSUME SharedInv, OnlyCreated, segment # Idle
  PROVE  /\ segment \in SegmentCall /\ segment.op = "createSegment"
         /\ segment.pc \in {"alloc", "fill"} /\ sharing.pc = "create"
         /\ Descr(segment) \in PageDescr /\ Creating(Descr(segment))
  <1>1. /\ segment \in SegmentCall /\ Descr(segment) \in PageDescr
        /\ segment.pc \in {"alloc", "fill", "free"}
    BY SegmentKinds DEF SharedInv
  <1>2. sharing.pc = "create" /\ segment.op = "createSegment"
    BY DEF OnlyCreated
  <1>3. segment.pc # "free"
    BY <1>2 DEF SharedInv, AloneInv
  <1>4. sharing.record \in SharedSegment
    BY <1>2, SharingKinds DEF SharedInv, Idle
  <1>5. /\ sharing.record.start \in Nat /\ sharing.record.size \in Nat
        /\ segment.page \in Nat /\ segment.left \in Nat \ {0}
    BY <1>1, <1>4, CallNumbers DEF SharedSegment, SegmentCall
  <1>6. /\ sharing.record.pid = sharing.p /\ segment.p = sharing.p
        /\ segment.page + segment.left =
             sharing.record.start + sharing.record.size
        /\ sharing.record.start <= segment.page
    BY <1>2 DEF SharedInv, CreateInv
  <1>7. segment.page \in PagesIn(sharing.record)
    BY <1>5, <1>6 DEF PagesIn
  <1> QED
    BY <1>1, <1>2, <1>3, <1>6, <1>7 DEF Creating, Descr

\* A creation claims a frame and fills the page, for which another page may be
\* put out; nothing else changes but the page it works on.
LEMMA AlikeSegmentStep ==
  ASSUME SharedInv, AlikeInv, SegmentStep,
         UNCHANGED <<listOfSharedSegments, systemSegments, sharing, home>>
  PROVE  AlikeInv' /\ EntriesStay
  <1> DEFINE pd == Descr(segment)
  <1>1. segment # Idle
    <2>1. segment.pc \in {"alloc", "fill", "free"}
      BY DEF SegmentStep, ClaimPage, AllocPage, AllocPageDiskFull, AddPage,
             FillCreatedPage, FillLoadedPage, RemovePages, FreePage
    <2> QED
      BY <2>1 DEF Idle
  <1>2. /\ segment \in SegmentCall /\ segment.op = "createSegment"
        /\ segment.pc \in {"alloc", "fill"} /\ sharing.pc = "create"
        /\ pd \in PageDescr /\ Creating(pd)
    BY <1>1, CreatingPage DEF AlikeInv
  <1>3. KernelTypeOK /\ ProcessTypeOK /\ pmt \in [PageDescr -> PageDescriptor]
    BY DEF SharedInv, TypeInv, TypeOK, KernelTypeOK
  <1>4. UNCHANGED <<fault, instruction>>
    BY DEF SegmentStep, ClaimPage, AllocPage, AllocPageDiskFull, AddPage,
           FillCreatedPage, FillLoadedPage, Expect, RemovePages, FreePage,
           callVars, testVars
  <1>5. instruction = Idle
    <2>1. sharing # Idle
      BY <1>2 DEF Idle
    <2> QED
      BY <2>1 DEF SharedInv, AloneInv
  <1>6. \A x : Creating(x)' <=> Creating(x)
    BY DEF Creating
  <1>7. ASSUME \A x \in PageDescr : x # pd =>
                 /\ pmt'[x].init = pmt[x].init /\ pmt'[x].rwe = pmt[x].rwe
                 /\ pmt'[x].block = pmt[x].block,
               pmt[pd].init => pmt'[pd].init,
               segment' = Idle \/ segment'.op = "createSegment"
        PROVE  AlikeInv' /\ EntriesStay
    <2>1. PagesStay
      BY <1>7 DEF PagesStay
    <2>2. EntriesStay
      BY <1>2, <1>6, <1>7 DEF EntriesStay
    <2>3. OutInv'
      BY <1>4, <1>5 DEF AlikeInv, OutInv, Idle
    <2>4. OnlyCreated'
      BY <1>2, <1>7 DEF OnlyCreated
    <2>5. AtSource'
      BY <1>2 DEF AtSource
    <2> QED
      BY <2>1, <2>2, <2>3, <2>4, <2>5, HomesThereStay, KnownThereStay
         DEF AlikeInv
  <1>8. CASE AllocPage
    <2>1. PICK rights \in AccessType \union {wild}, f \in Frames :
            /\ getFreeFrame(pd, Claimed(rights), f)
            /\ segment' = [segment EXCEPT
                 !.pc = "fill",
                 !.frame = f,
                 !.fresh = \/ ~HasTable(pd)
                           \/ @ /\ EntryOf(segment.page) # 0]
      BY <1>2, <1>3, <1>8, FoundRightsType DEF AllocPage
    <2>2. segment'.op = segment.op
      BY <1>2, <2>1 DEF SegmentCall
    <2>3. /\ Claimed(rights) \in [PageDescr -> PageDescriptor]
          /\ \A x \in PageDescr : x # pd => Claimed(rights)[x] = pmt[x]
          /\ Claimed(rights)[pd].init
      BY <1>2, <1>3, <2>1, ClaimedType
    <2>4. \A x \in PageDescr :
            /\ pmt'[x].init = Claimed(rights)[x].init
            /\ pmt'[x].rwe = Claimed(rights)[x].rwe
            /\ pmt'[x].block = Claimed(rights)[x].block
      <3> HIDE DEF pd
      <3> QED
        BY <1>2, <1>3, <2>1, <2>3, GetFreeFrameType
    <2> HIDE DEF pd
    <2> QED
      BY <1>2, <1>7, <2>2, <2>3, <2>4
  <1>9. CASE AllocPageDiskFull
    <2>1. UNCHANGED <<pmt, segment>>
      BY <1>9 DEF AllocPageDiskFull, Exit, callVars
    <2> QED
      BY <1>2, <1>7, <2>1
  <1>10. CASE AddPage
    <2>1. /\ pmt' = [Filled EXCEPT ![pd].sourceAddress = nullptr]
          /\ NextPage
      BY <1>2, <1>10 DEF AddPage, FillCreatedPage, FillLoadedPage
    <2>2. \A x \in PageDescr : x # pd => pmt'[x] = pmt[x]
      BY <1>3, <2>1 DEF Filled
    <2>3. pmt'[pd].init = pmt[pd].init
      BY <1>2, <1>3, <1>10, AddedPage
    <2>4. segment' = Idle \/ segment'.op = segment.op
      BY <1>2, <2>1 DEF NextPage, SegmentCall
    <2> QED
      BY <1>2, <1>7, <2>2, <2>3, <2>4
  <1>11. ~RemovePages
    BY <1>2 DEF RemovePages, FreePage
  <1> QED
    BY <1>8, <1>9, <1>10, <1>11 DEF SegmentStep, ClaimPage

StayInv == SharingInv /\ AlikeInv

\* The steps of attaching calls are AttachPage's.
LEMMA AttachesOnly ==
  ASSUME [SharedNext]_allVars, sharing.pc = "attach", sharing' # sharing
  PROVE  AttachPage
  <1>1. sharing # Idle
    BY DEF Idle
  <1>2. ~Programs
    BY <1>1 DEF Programs, SharedQuiet
  <1>3. ~AnyCreateShared
    <2>1. ASSUME NEW p, NEW page, NEW size, NEW name, NEW flags,
                 CreateShared(p, page, size, name, flags)
          PROVE  SharedQuiet
      BY <2>1 DEF CreateShared, NewShared, Attach
    <2> QED
      BY <1>1, <2>1 DEF AnyCreateShared, SharedQuiet
  <1>4. ~Publish /\ ~DeletePages /\ ~Unlist
    BY DEF Publish, DeletePages, Unlist
  <1> QED
    BY <1>1, <1>2, <1>3, <1>4 DEF SharedNext, SharedStep, allVars, sharedVars

\* Every step keeps the invariant, and what is there as it is.
LEMMA StayNextInv ==
  StayInv /\ [SharedNext]_allVars => StayInv' /\ EntriesStay
  <1> SUFFICES ASSUME SharingInv, AlikeInv, [SharedNext]_allVars
               PROVE  AlikeInv' /\ EntriesStay
    BY SharingNextInv DEF StayInv
  <1>1. SharedInv /\ HeadsMapped /\ NoRemoval
    BY DEF SharingInv
  <1>2. CASE UNCHANGED allVars
    <2>1. /\ UNCHANGED <<sharing, home, systemSegments>>
          /\ UNCHANGED <<pmt, segment, fault, instruction>>
      BY <1>2 DEF allVars, sharedVars, vars, kernelVars, callVars
    <2>2. OutInv' /\ OnlyCreated' /\ PagesStay /\ EntriesStay
      BY <2>1 DEF AlikeInv, OutInv, OnlyCreated, PagesStay, EntriesStay,
                  Creating
    <2>3. AtSource'
      BY <2>1 DEF AlikeInv, AtSource, AllThere, PagesIn, InFirstTable
    <2> QED
      BY <1>1, <2>1, <2>2, <2>3, HomesThereStay, KnownThereStay DEF AlikeInv
  <1>3. CASE Programs
    BY <1>1, <1>3, AlikePrograms
  <1>4. CASE AnyCreateShared
    BY <1>1, <1>4, AlikeCreateShared DEF AnyCreateShared
  <1>5. CASE SharedStep
    <2>1. CASE Publish
      BY <1>1, <2>1, AlikePublish
    <2>2. CASE AttachPage
      BY <1>1, <2>2, AlikeAttachPage
    <2>3. ~DeletePages /\ ~Unlist
      BY <1>1 DEF NoRemoval, DeletePages, Unlist
    <2>4. CASE /\ SegmentStep /\ CarveTable
               /\ UNCHANGED <<listOfSharedSegments, systemSegments, sharing, home>>
      BY <1>1, <2>4, AlikeSegmentStep
    <2>5. CASE InstructionStep /\ UNCHANGED sharedVars
      BY <1>1, <2>5, AlikePrograms
    <2>6. CASE Over /\ UNCHANGED sharedVars
      BY <1>2, <2>6 DEF Over, allVars
    <2> QED
      BY <1>5, <2>1, <2>2, <2>3, <2>4, <2>5, <2>6 DEF SharedStep
  <1> QED
    BY <1>2, <1>3, <1>4, <1>5 DEF SharedNext

\* What a step does to a page and the page it is to be the same as.
LEMMA StaysInOnePlace ==
  ASSUME StayInv, [SharedNext]_allVars,
         NEW pd \in PageDescr, NEW other \in PageDescr
  PROVE  /\ AttachesTo(pd, other) /\ InFirstTable => InOnePlace(pd, other)'
         /\ /\ home[pd] = other /\ home'[pd] = other
            /\ ~BeingCreated(pd) /\ InOnePlace(pd, other)
            => InOnePlace(pd, other)' \/ Paged(pd) \/ Paged(other)
  <1>1. SharedInv /\ AlikeInv /\ SharedInv' /\ EntriesStay
    BY StayNextInv DEF StayInv, SharingInv
  <1>2. ASSUME NEW x \in PageDescr, pmt'[x].init
        PROVE  Mapped(x)'
    BY <1>1, <1>2 DEF SharedInv, TablesOpen, Mapped
  <1>3. ASSUME AttachesTo(pd, other), InFirstTable
        PROVE  InOnePlace(pd, other)'
    <2>1. sharing.pc = "attach" /\ pd = Descr(sharing) /\ AttachPage
      BY <1>3, AttachesOnly DEF AttachesTo
    <2>2. PICK page : page = sharing.record.start
                               + (sharing.record.size - sharing.left)
      OBVIOUS
    <2>3. other = <<sharing.record.pid, page>>
      BY <1>3, <2>2 DEF AttachesTo
    <2>4. /\ pmt'[other].init /\ pmt'[pd].init
          /\ pmt'[pd].valid = pmt'[other].valid
          /\ pmt'[pd].block = pmt'[other].block
          /\ pmt'[pd].rwe = pmt'[other].rwe
      BY <1>1, <1>3, <2>1, <2>2, <2>3, AlikeAttachPage
    <2> QED
      BY <1>2, <2>4 DEF InOnePlace
  <1>4. ASSUME home[pd] = other, home'[pd] = other, ~BeingCreated(pd),
               InOnePlace(pd, other), ~Paged(pd), ~Paged(other)
        PROVE  InOnePlace(pd, other)'
    <2>1. /\ pmt[pd].init /\ pmt[other].init /\ pmt[pd].rwe = pmt[other].rwe
          /\ pmt[pd].valid = pmt[other].valid
          /\ pmt[pd].valid => pmt[pd].block = pmt[other].block
      BY <1>4 DEF InOnePlace, Mapped
    <2>2. ~Creating(pd)
      <3>1. pd = <<pd[1], pd[2]>>
        BY DEF PageDescr
      <3> QED
        BY <1>4, <3>1 DEF BeingCreated, Creating, PagesOf, PagesIn
    <2>3. ~Creating(other)
      BY <1>1, <1>4 DEF AlikeInv, HomesThere
    <2>4. \A x \in {pd, other} :
            /\ pmt'[x].init /\ pmt'[x].rwe = pmt[x].rwe
            /\ pmt'[x].valid = pmt[x].valid
            /\ pmt[x].valid /\ pmt'[x].valid => pmt'[x].block = pmt[x].block
      BY <1>1, <1>4, <2>1, <2>2, <2>3 DEF EntriesStay, Paged
    <2>5. Mapped(pd)' /\ Mapped(other)'
      BY <1>2, <2>4
    <2> QED
      BY <2>1, <2>4, <2>5 DEF InOnePlace
  <1> QED
    BY <1>3, <1>4

\* What one process stores in a shared segment the others find, as far as the
\* code sees to it, whatever memory's size and whatever the programs do: an
\* attached page of the creator's first table is where the creator's page is,
\* in a frame or out of memory, and stays with it until one of the two is put
\* out or brought in.
THEOREM SharedStaysShared == SharedSpec => SharedUntilPaged
  <1>1. SharedInit => StayInv
    <2>1. SharedInit => NoRemoval
      BY DEF SharedInit, NoRemoval, Idle
    <2> QED
      BY <2>1, SharedInitInv, AlikeInit DEF StayInv, SharingInv
  <1>2. StayInv /\ [SharedNext]_allVars => StayInv'
    BY StayNextInv
  <1>3. StayInv /\ [SharedNext]_allVars =>
          [\A pd, other \in PageDescr :
             /\ AttachesTo(pd, other) /\ InFirstTable => InOnePlace(pd, other)'
             /\ /\ home[pd] = other /\ home'[pd] = other
                /\ ~BeingCreated(pd) /\ InOnePlace(pd, other)
                => InOnePlace(pd, other)' \/ Paged(pd) \/ Paged(other)]_allVars
    BY StaysInOnePlace
  <1> QED
    BY <1>1, <1>2, <1>3, PTL DEF SharedSpec, SharedUntilPaged
=============================================================================
