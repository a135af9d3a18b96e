------------------------ MODULE SegmentSearchProofs ------------------------
(***************************************************************************)
(* Proofs about the search for room, for page directories of any size and  *)
(* every segment whose size fits into the loop's signed counter.  That it  *)
(* answers as the closed form canAllocate is what lets KernelProcess make  *)
(* the search one step.                                                    *)
(***************************************************************************)
EXTENDS SegmentSearch, TLAPS

\* The sizes for which the conversion to a signed long changes nothing.
SizesFit == Sizes \subseteq 1 .. HalfRange - 1

Last == start + size - 1

\* canAllocate(0, start, size), with the page directory of this module.
Room ==
  /\ Last < MAX_PMT_TABLES * MAX_PMT_ENTRIES - 1
  /\ \A q \in start .. Last : q \notin taken
  /\ Last \div MAX_PMT_ENTRIES \in tables
     \/ Last \div MAX_PMT_ENTRIES # MAX_PMT_TABLES - 1

\* Only a directory entry with a page table has initialised entries.
TakenHaveTables == \A q \in taken : q \div MAX_PMT_ENTRIES \in tables

Typed == TypeOK /\ TakenHaveTables

\* Where the search stands: what it has counted off is what lies behind it,
\* all of it free, and it enters a directory entry that has no table at its
\* beginning, or began there.
Progress ==
  pc = "search" =>
    /\ tempCurrentDir \in Dirs
    /\ start <= Current
    /\ tempCounter = size - (Current - start)
    /\ \A q \in start .. Current - 1 : q \notin taken
    /\ tempCurrentDir \notin tables => Current = start \/ tempCurrentPage = 0

Answered == (pc = "granted" => Room) /\ (pc = "refused" => ~Room)

IInv == Typed /\ Progress /\ Answered

-----------------------------------------------------------------------------
\* A page's directory entry is the one whose entries it lies among.
LEMMA PageInDirectory ==
  ASSUME NEW d \in Int, NEW q \in Int,
         d * MAX_PMT_ENTRIES <= q,
         q < d * MAX_PMT_ENTRIES + MAX_PMT_ENTRIES
  PROVE  q \div MAX_PMT_ENTRIES = d
  BY SearchAssumption, Z3

\* Where a directory entry's pages are: behind those of the entries before it,
\* inside the address space.
LEMMA DirectoryPages ==
  ASSUME NEW d \in Dirs
  PROVE  /\ d * MAX_PMT_ENTRIES \in Nat
         /\ MAX_PMT_TABLES * MAX_PMT_ENTRIES \in Nat
         /\ (d + 1) * MAX_PMT_ENTRIES = d * MAX_PMT_ENTRIES + MAX_PMT_ENTRIES
         /\ d * MAX_PMT_ENTRIES + MAX_PMT_ENTRIES
              <= MAX_PMT_TABLES * MAX_PMT_ENTRIES
         /\ d + 1 = MAX_PMT_TABLES =>
              d * MAX_PMT_ENTRIES + MAX_PMT_ENTRIES
                = MAX_PMT_TABLES * MAX_PMT_ENTRIES
         /\ d + 1 # MAX_PMT_TABLES => d + 1 \in Dirs
<1>1. d \in Nat /\ d + 1 <= MAX_PMT_TABLES
  BY SearchAssumption DEF Dirs
<1>2. (d + 1) * MAX_PMT_ENTRIES = d * MAX_PMT_ENTRIES + MAX_PMT_ENTRIES
  BY <1>1, SearchAssumption
<1>3. (d + 1) * MAX_PMT_ENTRIES <= MAX_PMT_TABLES * MAX_PMT_ENTRIES
  BY <1>1, SearchAssumption
<1>4. d * MAX_PMT_ENTRIES \in Nat /\ MAX_PMT_TABLES * MAX_PMT_ENTRIES \in Nat
  BY <1>1, SearchAssumption
<1>5. d + 1 # MAX_PMT_TABLES => d + 1 \in Dirs
  BY <1>1, SearchAssumption DEF Dirs
<1> QED BY <1>1, <1>2, <1>3, <1>4, <1>5

\* A page is where its directory entry and its index say.
LEMMA PageSplit ==
  ASSUME NEW q \in Pages
  PROVE  \E d \in Dirs, r \in 0 .. MAX_PMT_ENTRIES - 1 :
           /\ d = q \div MAX_PMT_ENTRIES
           /\ r = q % MAX_PMT_ENTRIES
           /\ d * MAX_PMT_ENTRIES + r = q
<1>1. /\ MAX_PMT_ENTRIES \in Nat \ {0} /\ MAX_PMT_TABLES \in Nat \ {0}
      /\ q \in Nat /\ q < MAX_PMT_TABLES * MAX_PMT_ENTRIES
  BY SearchAssumption DEF Pages
<1>2. PICK d \in Int : d = q \div MAX_PMT_ENTRIES
  BY <1>1
<1>r. PICK r \in 0 .. MAX_PMT_ENTRIES - 1 : r = q % MAX_PMT_ENTRIES
  BY <1>1
<1>3. d * MAX_PMT_ENTRIES + r = q
  BY <1>1, <1>2, <1>r
<1>4. d >= 0
  BY <1>1, <1>3
<1>5. d < MAX_PMT_TABLES
  BY <1>1, <1>3
<1>6. d \in Dirs
  BY <1>1, <1>4, <1>5 DEF Dirs
<1> QED BY <1>2, <1>r, <1>3, <1>6

\* The definition of canAllocate, with the instance's own state put in
\* (KernelProcess.cpp:60-97).
LEMMA ClosedForm ==
  ASSUME Typed
  PROVE  Process!canAllocate(0, start, size) <=> Room
<1> DEFINE entry == [pd \in {0} \X Pages |-> [init |-> pd[2] \in taken]]
           directory == [p \in {0} |-> tables]
<1>1. /\ start \in Nat /\ Last \in Int
      /\ MAX_PMT_TABLES * MAX_PMT_ENTRIES \in Nat
  BY SearchAssumption DEF Typed, TypeOK, Pages, Last
<1>2. \A q \in Pages : entry[<<0, q>>].init <=> q \in taken
  OBVIOUS
<1>3. directory[0] = tables
  OBVIOUS
<1>4. \A q \in Pages : Process!HasTable(<<0, q>>)
                         <=> q \div MAX_PMT_ENTRIES \in tables
  BY <1>3 DEF Process!HasTable, Process!DirOf
<1>5. \A q \in Pages : Process!Mapped(<<0, q>>) <=> q \in taken
  BY <1>2, <1>4 DEF Process!Mapped, Typed, TakenHaveTables
<1>6. ASSUME Last < MAX_PMT_TABLES * MAX_PMT_ENTRIES - 1
      PROVE  start .. Last \subseteq Pages /\ Last \in Pages
  BY <1>1, <1>6, SearchAssumption DEF Pages, Last, Typed, TypeOK
<1>7. Process!canAllocate(0, start, size) <=>
        /\ Last < MAX_PMT_TABLES * MAX_PMT_ENTRIES - 1
        /\ \A q \in start .. Last : ~Process!Mapped(<<0, q>>)
        /\ \/ Process!HasTable(<<0, Last>>)
           \/ Last \div MAX_PMT_ENTRIES # MAX_PMT_TABLES - 1
  BY DEF Process!canAllocate, Process!NumPages, Process!DirOf, Last
<1> QED BY <1>4, <1>5, <1>6, <1>7 DEF Room

-----------------------------------------------------------------------------
\* The search begins at the segment's first page.
LEMMA InitInvariant ==
  ASSUME SizesFit, Init
  PROVE  IInv
<1>1. start \in Pages /\ size \in Sizes /\ pc = "search"
  BY DEF Init
<1>2. /\ tempCurrentDir \in Dirs
      /\ tempCurrentPage \in 0 .. MAX_PMT_ENTRIES - 1
      /\ Current = start
  <2>1. /\ tempCurrentDir = start \div MAX_PMT_ENTRIES
        /\ tempCurrentPage = start % MAX_PMT_ENTRIES
    BY DEF Init
  <2>2. PICK d \in Dirs, r \in 0 .. MAX_PMT_ENTRIES - 1 :
          d = tempCurrentDir /\ r = tempCurrentPage
          /\ d * MAX_PMT_ENTRIES + r = start
    BY <1>1, <2>1, PageSplit
  <2> QED BY <2>2 DEF Current
<1>3. tempCounter = size
  BY <1>1, SearchAssumption DEF Init, SizesFit, AsSigned
<1>4. size \in Nat /\ start \in Nat
  BY <1>1, SearchAssumption DEF Pages
<1>5. taken \subseteq Pages /\ TakenHaveTables /\ tables \subseteq Dirs
  BY DEF Init, TakenHaveTables
<1>6. Typed
  BY <1>1, <1>2, <1>3, <1>4, <1>5 DEF Typed, TypeOK, Dirs
<1>7. Progress
  BY <1>2, <1>3, <1>4 DEF Progress
<1> QED BY <1>1, <1>6, <1>7 DEF IInv, Answered

\* What stays as it is.
LEMMA InputKept ==
  ASSUME Typed, UNCHANGED input
  PROVE  /\ TakenHaveTables'
         /\ (Room' <=> Room)
         /\ tables' \in SUBSET Dirs /\ taken' \in SUBSET Pages
         /\ start' \in Pages /\ size' \in Sizes
  BY DEF Typed, TypeOK, TakenHaveTables, Room, Last, input

\* Stepping to the next directory entry, all entries of this one that the
\* search passes being free and counted off: the search goes on at the next
\* entry's beginning, or there is no next entry and then no room either
\* (KernelProcess.cpp:62-70 and 75-86).
LEMMA NextDirInvariant ==
  ASSUME IInv, Searching, NextDir, UNCHANGED input,
         tempCounter' = tempCounter - (MAX_PMT_ENTRIES - tempCurrentPage),
         \A q \in Current .. Current + (MAX_PMT_ENTRIES - tempCurrentPage) - 1 :
           q \notin taken,
         tempCurrentDir \in tables => tempCurrentPage + 1 = MAX_PMT_ENTRIES
  PROVE  IInv'
<1> PICK d \in Dirs : d = tempCurrentDir
  BY DEF IInv, Progress, Searching
<1> PICK r \in 0 .. MAX_PMT_ENTRIES - 1 : r = tempCurrentPage
  BY DEF IInv, Typed, TypeOK
<1> PICK base \in Nat : base = d * MAX_PMT_ENTRIES
  BY DirectoryPages
<1> DEFINE end == base + MAX_PMT_ENTRIES
<1>1. /\ MAX_PMT_ENTRIES \in Nat \ {0} /\ MAX_PMT_TABLES \in Nat \ {0}
      /\ start \in Nat /\ size \in Nat
  BY SearchAssumption DEF IInv, Typed, TypeOK, Pages
<1>2. /\ Current = base + r /\ start <= Current
      /\ tempCounter = size - (Current - start) /\ tempCounter > 0
      /\ \A q \in start .. Current - 1 : q \notin taken
  BY DEF Current, IInv, Progress, Searching
<1>3. (d + 1) * MAX_PMT_ENTRIES = end
  BY DirectoryPages
<1>4. Current + (MAX_PMT_ENTRIES - tempCurrentPage) = end
  BY <1>1, <1>2
<1>5. \A q \in start .. end - 1 : q \notin taken
  <2> SUFFICES ASSUME NEW q \in start .. end - 1 PROVE q \notin taken
    OBVIOUS
  <2>1. CASE q \in start .. Current - 1 BY <1>2, <2>1
  <2>2. CASE q \in Current .. end - 1
    <3>1. q \in Current .. Current + (MAX_PMT_ENTRIES - tempCurrentPage) - 1
      BY <1>1, <1>2, <1>4, <2>2
    <3> QED BY <3>1
  <2> QED BY <1>1, <1>2, <2>1, <2>2
<1>6. tempCounter' = size - (end - start)
  BY <1>1, <1>2, <1>4
<1>7. Typed'
  <2>1. tempCurrentDir' \in Nat BY DEF NextDir, Dirs
  <2>2. tempCurrentPage' \in 0 .. MAX_PMT_ENTRIES - 1 BY <1>1 DEF NextDir
  <2>3. tempCounter' \in Int BY <1>1, <1>6
  <2>4. pc' \in {"search", "granted", "refused"} BY DEF NextDir
  <2> QED BY <2>1, <2>2, <2>3, <2>4, InputKept DEF IInv, Typed, TypeOK
<1>8. CASE d + 1 # MAX_PMT_TABLES
  <2>1. pc' = "search" BY <1>8 DEF NextDir
  <2>2. tempCurrentDir' \in Dirs BY <1>8, DirectoryPages DEF NextDir
  <2>3. Current' = end /\ tempCurrentPage' = 0
    BY <1>1, <1>3 DEF Current, NextDir
  <2>4. start' = start /\ size' = size /\ taken' = taken BY DEF input
  <2>5. Progress'
    BY <1>1, <1>2, <1>5, <1>6, <2>1, <2>2, <2>3, <2>4 DEF Progress
  <2> QED BY <1>7, <2>1, <2>5 DEF IInv, Answered
<1>9. CASE d + 1 = MAX_PMT_TABLES
  <2>1. pc' = "refused" BY <1>9 DEF NextDir
  <2>2. end = MAX_PMT_TABLES * MAX_PMT_ENTRIES BY <1>9, DirectoryPages
  <2>3. Last >= Current /\ Last \in Nat BY <1>1, <1>2 DEF Last
  <2>4. ASSUME Room PROVE FALSE
    <3>1. Last < end - 1 BY <2>2, <2>4 DEF Room
    <3>2. Last \div MAX_PMT_ENTRIES = d
      BY <1>1, <1>2, <2>3, <3>1, PageInDirectory DEF Dirs
    <3>3. d \in tables BY <1>1, <1>9, <2>4, <3>2 DEF Room, Dirs
    <3>4. r + 1 = MAX_PMT_ENTRIES BY <3>3
    <3> QED BY <1>1, <1>2, <2>3, <3>1, <3>4
  <2> QED BY <1>7, <2>1, <2>4, InputKept DEF IInv, Progress, Answered
<1> QED BY <1>8, <1>9

\* Every step keeps the invariant: one step of the proof per action.
LEMMA NextInvariant ==
  ASSUME IInv, [Next]_vars
  PROVE  IInv'
<1>1. /\ MAX_PMT_ENTRIES \in Nat \ {0}
      /\ start \in Nat /\ size \in Nat
      /\ tempCurrentPage \in 0 .. MAX_PMT_ENTRIES - 1
  BY SearchAssumption DEF IInv, Typed, TypeOK, Pages
<1>2. CASE SkipTable
  <2>1. tempCurrentDir \in Dirs BY <1>2 DEF SkipTable, Searching, IInv, Progress
  <2>2. \A q \in Current .. Current + (MAX_PMT_ENTRIES - tempCurrentPage) - 1 :
          q \notin taken
    <3> SUFFICES ASSUME NEW q \in Current ..
                          Current + (MAX_PMT_ENTRIES - tempCurrentPage) - 1
                 PROVE  q \notin taken
      OBVIOUS
    <3>1. PICK base \in Nat : base = tempCurrentDir * MAX_PMT_ENTRIES
      BY <2>1, DirectoryPages
    <3>2. q \in base .. base + MAX_PMT_ENTRIES - 1
      BY <1>1, <3>1 DEF Current
    <3>3. PICK d \in Dirs : d = tempCurrentDir BY <2>1
    <3>4. q \in Int /\ d \in Int
          /\ d * MAX_PMT_ENTRIES <= q
          /\ q < d * MAX_PMT_ENTRIES + MAX_PMT_ENTRIES
      BY <1>1, <3>1, <3>2, <3>3 DEF Dirs
    <3>5. q \div MAX_PMT_ENTRIES = d
      BY <3>4, PageInDirectory
    <3> QED
      BY <1>2, <3>3, <3>5 DEF SkipTable, IInv, Typed, TakenHaveTables
  <2> QED BY <1>2, <2>2, NextDirInvariant DEF SkipTable
<1>3. CASE FreeEntry
  <2>1. Current \notin taken BY <1>3 DEF FreeEntry, IsFree
  <2>2. Current \in Int
    <3>1. tempCurrentDir \in Dirs
      BY <1>3 DEF FreeEntry, Searching, IInv, Progress
    <3> QED BY <1>1, <3>1, DirectoryPages DEF Current
  <2>3. CASE tempCurrentPage + 1 = MAX_PMT_ENTRIES /\ NextDir
    <3>1. MAX_PMT_ENTRIES - tempCurrentPage = 1 BY <1>1, <2>3
    <3>2. Current .. Current + (MAX_PMT_ENTRIES - tempCurrentPage) - 1 = {Current}
      BY <2>2, <3>1
    <3>3. tempCounter' = tempCounter - (MAX_PMT_ENTRIES - tempCurrentPage)
      BY <1>3, <3>1 DEF FreeEntry
    <3> QED BY <1>3, <2>1, <2>3, <3>2, <3>3, NextDirInvariant DEF FreeEntry
  <2>4. CASE /\ tempCurrentPage + 1 # MAX_PMT_ENTRIES
             /\ tempCurrentPage' = tempCurrentPage + 1
             /\ UNCHANGED <<tempCurrentDir, pc>>
    <3>1. tempCounter' = tempCounter - 1 /\ UNCHANGED input
      BY <1>3 DEF FreeEntry
    <3>2. /\ start <= Current /\ tempCounter = size - (Current - start)
          /\ \A q \in start .. Current - 1 : q \notin taken
          /\ tempCurrentDir \in Dirs /\ tempCurrentDir \in tables
      BY <1>3 DEF FreeEntry, Searching, IInv, Progress
    <3>3. Current' = Current + 1
      <4>1. PICK base \in Nat : base = tempCurrentDir * MAX_PMT_ENTRIES
        BY <3>2, DirectoryPages
      <4>2. base = tempCurrentDir' * MAX_PMT_ENTRIES BY <2>4, <4>1
      <4> QED BY <1>1, <2>4, <4>1, <4>2 DEF Current
    <3>4. \A q \in start .. Current : q \notin taken
      BY <1>1, <2>1, <2>2, <3>2
    <3>5. start' = start /\ size' = size /\ taken' = taken /\ tables' = tables
      BY <3>1 DEF input
    <3>6. tempCounter' = size - (Current' - start)
      BY <1>1, <2>2, <3>1, <3>2, <3>3
    <3>7. Progress'
      <4>1. \A q \in start .. Current' - 1 : q \notin taken
        BY <2>2, <3>3, <3>4
      <4>2. start <= Current' BY <1>1, <2>2, <3>2, <3>3
      <4> QED BY <2>4, <3>2, <3>5, <3>6, <4>1, <4>2 DEF Progress
    <3>8. tempCurrentPage' \in 0 .. MAX_PMT_ENTRIES - 1 BY <1>1, <2>4
    <3>9. tempCounter' \in Int BY <3>1 DEF IInv, Typed, TypeOK
    <3>10. Typed'
      BY <2>4, <3>1, <3>8, <3>9, InputKept DEF IInv, Typed, TypeOK
    <3>11. pc' = "search" BY <1>3, <2>4 DEF FreeEntry, Searching
    <3> QED BY <3>7, <3>10, <3>11 DEF IInv, Answered
  <2> QED BY <1>3, <2>3, <2>4 DEF FreeEntry
<1>4. CASE TakenEntry
  <2>1. /\ UNCHANGED <<tables, taken, start, size>> /\ pc' = "refused"
        /\ UNCHANGED <<tempCurrentDir, tempCurrentPage, tempCounter>>
    BY <1>4 DEF TakenEntry, input
  <2>2. Typed' BY <2>1 DEF IInv, Typed, TypeOK, TakenHaveTables
  <2>3. /\ Current \in taken /\ start <= Current
        /\ tempCounter = size - (Current - start) /\ tempCounter > 0
    BY <1>4 DEF TakenEntry, IsFree, Searching, IInv, Progress
  <2>4. Current \in start .. Last
    <3>1. Current \in Int BY <2>3 DEF IInv, Typed, TypeOK, Pages
    <3> QED BY <1>1, <2>3, <3>1 DEF Last
  <2>5. ~Room BY <2>3, <2>4 DEF Room
  <2>6. Room' <=> Room BY <2>1, InputKept DEF IInv, input
  <2> QED BY <2>1, <2>2, <2>5, <2>6 DEF IInv, Progress, Answered
<1>5. CASE Grant
  <2>1. /\ UNCHANGED <<tables, taken, start, size>> /\ pc' = "granted"
        /\ UNCHANGED <<tempCurrentDir, tempCurrentPage, tempCounter>>
    BY <1>5 DEF Grant, input
  <2>2. Typed' BY <2>1 DEF IInv, Typed, TypeOK, TakenHaveTables
  <2>3. /\ start <= Current /\ tempCounter = size - (Current - start)
        /\ tempCounter <= 0 /\ tempCurrentDir \in Dirs
        /\ \A q \in start .. Current - 1 : q \notin taken
        /\ tempCurrentDir \notin tables => Current = start \/ tempCurrentPage = 0
    BY <1>5 DEF Grant, IInv, Progress
  <2>4. PICK d \in Dirs : d = tempCurrentDir BY <2>3
  <2>5. PICK base \in Nat : base = d * MAX_PMT_ENTRIES
    BY DirectoryPages
  <2>6. Current = base + tempCurrentPage BY <2>4, <2>5 DEF Current
  <2>7. size > 0 BY SearchAssumption DEF IInv, Typed, TypeOK
  <2>8. Last < Current /\ Last \in Nat
    BY <1>1, <2>3, <2>6, <2>7 DEF Last
  <2>9. base + MAX_PMT_ENTRIES <= MAX_PMT_TABLES * MAX_PMT_ENTRIES
        /\ MAX_PMT_TABLES * MAX_PMT_ENTRIES \in Nat
    BY <2>5, DirectoryPages
  <2>10. Last < MAX_PMT_TABLES * MAX_PMT_ENTRIES - 1
    BY <1>1, <2>6, <2>8, <2>9
  <2>11. \A q \in start .. Last : q \notin taken
    BY <1>1, <2>3, <2>6, <2>8
  <2>12. ASSUME Last \div MAX_PMT_ENTRIES = MAX_PMT_TABLES - 1
         PROVE  Last \div MAX_PMT_ENTRIES \in tables
    <3>1. Last \in Pages BY <2>8, <2>9, <2>10 DEF Pages
    <3>2. PICK e \in Dirs, r \in 0 .. MAX_PMT_ENTRIES - 1 :
            /\ e = Last \div MAX_PMT_ENTRIES
            /\ e * MAX_PMT_ENTRIES + r = Last
      BY <3>1, PageSplit
    <3>3. e = MAX_PMT_TABLES - 1 BY <2>12, <3>2
    <3>4. e * MAX_PMT_ENTRIES + MAX_PMT_ENTRIES = MAX_PMT_TABLES * MAX_PMT_ENTRIES
      BY <3>3, DirectoryPages, SearchAssumption DEF Dirs
    <3>5. d = e
      <4> SUFFICES ASSUME d # e PROVE FALSE OBVIOUS
      <4>1. d + 1 <= e /\ d + 1 # MAX_PMT_TABLES
        BY <3>3, SearchAssumption DEF Dirs
      <4>2. d + 1 \in Dirs /\ (d + 1) * MAX_PMT_ENTRIES = base + MAX_PMT_ENTRIES
        BY <2>5, <4>1, DirectoryPages
      <4>3. (d + 1) * MAX_PMT_ENTRIES <= e * MAX_PMT_ENTRIES
        BY <1>1, <4>1 DEF Dirs
      <4> QED BY <1>1, <2>5, <2>6, <2>8, <3>2, <4>2, <4>3, DirectoryPages
    <3>6. tempCurrentPage # 0 /\ Current # start
      BY <1>1, <2>5, <2>6, <2>7, <2>8, <3>2, <3>5 DEF Last
    <3> QED BY <2>3, <2>4, <3>2, <3>5, <3>6
  <2>13. Room BY <2>10, <2>11, <2>12 DEF Room
  <2>14. Room' <=> Room BY <2>1, InputKept DEF IInv, input
  <2> QED BY <2>1, <2>2, <2>13, <2>14 DEF IInv, Progress, Answered
<1>6. CASE Over \/ UNCHANGED vars
  BY <1>6 DEF Over, vars, input, IInv, Typed, TypeOK, TakenHaveTables,
              Progress, Current, Answered, Room, Last
<1> QED BY <1>2, <1>3, <1>4, <1>5, <1>6 DEF Next

\* The invariant holds throughout, if no size is too long for the counter.
THEOREM Invariance == ASSUME SizesFit PROVE Spec => []IInv
<1>1. Init => IInv
  BY InitInvariant
<1>2. IInv /\ [Next]_vars => IInv'
  BY NextInvariant
<1> QED BY <1>1, <1>2, PTL DEF Spec

\* Whatever the size, also one the counter cannot hold: the loop's variables
\* keep to their types and the search to the page directory.
InsideInv == TypeOK /\ InsideDirectory

\* The search begins inside the directory ...
LEMMA InitInside == Init => InsideInv
<1> SUFFICES ASSUME Init PROVE InsideInv
  OBVIOUS
<1>1. start \in Pages /\ size \in Sizes /\ pc = "search"
  BY DEF Init
<1>2. /\ tempCurrentDir \in Dirs
      /\ tempCurrentPage \in 0 .. MAX_PMT_ENTRIES - 1
  BY <1>1, PageSplit DEF Init
<1>3. tempCounter \in Int
  BY <1>1, SearchAssumption DEF Init, AsSigned
<1>4. taken \subseteq Pages /\ tables \subseteq Dirs
  BY DEF Init
<1> QED BY <1>1, <1>2, <1>3, <1>4 DEF InsideInv, InsideDirectory, TypeOK, Dirs

\* ... and no step leaves it.
LEMMA NextInside == InsideInv /\ [Next]_vars => InsideInv'
<1> SUFFICES ASSUME InsideInv, [Next]_vars PROVE InsideInv'
  OBVIOUS
<1> USE SearchAssumption
<1>1. ASSUME UNCHANGED input, NextDir, tempCounter' \in Int, Searching
      PROVE  InsideInv'
  <2>1. tempCurrentDir \in Dirs
    BY <1>1 DEF InsideInv, InsideDirectory, Searching
  <2> QED BY <1>1, <2>1 DEF InsideInv, InsideDirectory, TypeOK, NextDir, input, Dirs
<1>2. CASE SkipTable
  <2>1. tempCounter' \in Int
    BY <1>2 DEF SkipTable, InsideInv, TypeOK
  <2> QED BY <1>1, <1>2, <2>1 DEF SkipTable
<1>3. CASE FreeEntry
  <2>1. tempCounter' \in Int
    BY <1>3 DEF FreeEntry, InsideInv, TypeOK
  <2>2. CASE NextDir
    BY <1>1, <1>3, <2>1, <2>2 DEF FreeEntry
  <2>3. CASE /\ tempCurrentPage + 1 # MAX_PMT_ENTRIES
             /\ tempCurrentPage' = tempCurrentPage + 1
             /\ UNCHANGED <<tempCurrentDir, pc>>
    BY <1>3, <2>1, <2>3
       DEF FreeEntry, Searching, InsideInv, InsideDirectory, TypeOK, input
  <2> QED BY <1>3, <2>2, <2>3 DEF FreeEntry
<1>4. CASE TakenEntry \/ Grant
  BY <1>4 DEF TakenEntry, Grant, InsideInv, InsideDirectory, TypeOK, input
<1>5. CASE Over \/ UNCHANGED vars
  BY <1>5 DEF Over, vars, input, InsideInv, InsideDirectory, TypeOK
<1> QED BY <1>2, <1>3, <1>4, <1>5 DEF Next

\* Every segment size: the loop's variables keep to their types, so the index
\* into the page table is one of its entries (KernelProcess.cpp:60-97).
THEOREM SearchTypeCorrect == Spec => []TypeOK
<1>1. InsideInv => TypeOK
  BY DEF InsideInv
<1> QED BY <1>1, InitInside, NextInside, PTL DEF Spec

\* Every segment size: the search stays inside the page directory
\* (KernelProcess.cpp:62).
THEOREM Inside == Spec => []InsideDirectory
<1>1. InsideInv => InsideDirectory
  BY DEF InsideInv
<1> QED BY <1>1, InitInside, NextInside, PTL DEF Spec

\* The loop answers as the closed form canAllocate, on which the model of
\* createSegment and loadSegment rests (KernelProcess.cpp:60-97).
THEOREM ClosedFormCorrect == ASSUME SizesFit PROVE Spec => []AnswersAsClosedForm
<1>1. IInv => AnswersAsClosedForm
  BY ClosedForm DEF IInv, Answered, AnswersAsClosedForm
<1>2. Spec => []IInv
  BY Invariance
<1> QED BY <1>1, <1>2, PTL

\* A segment that is granted lies in the address space and on free entries
\* (KernelProcess.cpp:49).
THEOREM GrantCorrect == ASSUME SizesFit PROVE Spec => []GrantedIsFree
<1>1. ASSUME Typed, Room
      PROVE  \A q \in start .. start + size - 1 : q \in Pages \ taken
  <2>1. start \in Nat /\ size \in Nat /\ MAX_PMT_TABLES * MAX_PMT_ENTRIES \in Nat
    BY <1>1, SearchAssumption DEF Typed, TypeOK, Pages
  <2> QED BY <1>1, <2>1 DEF Room, Last, Pages
<1>2. IInv => GrantedIsFree
  BY <1>1 DEF IInv, Answered, GrantedIsFree
<1>3. Spec => []IInv
  BY Invariance
<1> QED BY <1>2, <1>3, PTL
=============================================================================
