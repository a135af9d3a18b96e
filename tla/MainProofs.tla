------------------------------ MODULE MainProofs ------------------------------
(***************************************************************************)
(* Proofs about the test program (MainSpec of module Main), for any number *)
(* of processes, segments and instructions and any number of frames: it is *)
(* a program whose segments only grow, so GrowingInv holds of it.          *)
(***************************************************************************)
EXTENDS Main, SystemTestProofs

\* The segments lie inside the address space.
LEMMA SegmentsFit ==
  ASSUME NEW k \in 0 .. DataSegments
  PROVE  SegmentPages(k) \subseteq Pages /\ SegmentStart(k) \in Pages
  <1> DEFINE s == SegmentSize + 1
  <1>1. /\ k \in Nat /\ DataSegments \in Nat /\ k <= DataSegments
        /\ SegmentSize \in Nat \ {0} /\ s \in Nat
        /\ MAX_PMT_TABLES \in Nat \ {0} /\ MAX_PMT_ENTRIES \in Nat \ {0}
    BY ProgramAssumption, SizeAssumption
  <1>2. 1 + DataSegments * s + SegmentSize <= (MAX_PMT_TABLES - 1) * MAX_PMT_ENTRIES
    BY ProgramAssumption
  <1>3. /\ k * s <= DataSegments * s /\ k * s \in Nat /\ DataSegments * s \in Nat
        /\ (MAX_PMT_TABLES - 1) * MAX_PMT_ENTRIES <= NumPages
        /\ (MAX_PMT_TABLES - 1) * MAX_PMT_ENTRIES \in Nat /\ NumPages \in Nat
    <2>1. \A a, b, c \in Nat : a <= b => a * c <= b * c /\ a * c \in Nat
      OBVIOUS
    <2>2. MAX_PMT_TABLES - 1 \in Nat /\ MAX_PMT_TABLES - 1 <= MAX_PMT_TABLES
      BY <1>1
    <2> HIDE DEF s
    <2>3. /\ k * s <= DataSegments * s /\ k * s \in Nat
      BY <1>1, <2>1
    <2>4. DataSegments * s \in Nat
      BY <1>1, <2>1
    <2>5. /\ (MAX_PMT_TABLES - 1) * MAX_PMT_ENTRIES <= MAX_PMT_TABLES * MAX_PMT_ENTRIES
          /\ (MAX_PMT_TABLES - 1) * MAX_PMT_ENTRIES \in Nat
          /\ MAX_PMT_TABLES * MAX_PMT_ENTRIES \in Nat
      BY <1>1, <2>1, <2>2
    <2> QED
      BY <2>3, <2>4, <2>5 DEF NumPages
  <1>4. /\ SegmentStart(k) \in Nat /\ SegmentStart(k) + SegmentSize <= NumPages
    <2>1. SegmentStart(k) = 1 + k * s
      BY DEF SegmentStart
    <2> HIDE DEF s
    <2>2. PICK a, b, c \in Nat :
            /\ a = k * s /\ b = DataSegments * s
            /\ c = (MAX_PMT_TABLES - 1) * MAX_PMT_ENTRIES
      BY <1>3
    <2>3. 1 + b + SegmentSize <= c /\ a <= b /\ c <= NumPages
      BY <1>2, <1>3, <2>2
    <2> QED
      BY <1>1, <1>3, <2>1, <2>2, <2>3
  <1> QED
    BY <1>1, <1>3, <1>4 DEF SegmentPages, Pages

\* So do the addresses the threads draw.
LEMMA ProgramPages == CodePages \subseteq Pages /\ DataPages \subseteq Pages
  <1>1. 0 \in 0 .. DataSegments /\ 1 .. DataSegments \subseteq 0 .. DataSegments
    BY ProgramAssumption
  <1> QED
    BY <1>1, SegmentsFit DEF CodePages, DataPages

\* What the test program does, any program whose segments only grow may do.
LEMMA MainGrows == MainTypeOK /\ [MainNext]_mainVars => [GrowingNext]_vars
  <1> SUFFICES ASSUME MainTypeOK, [MainNext]_mainVars PROVE [GrowingNext]_vars
    OBVIOUS
  <1>1. CASE NewProcess \/ BuildSegment \/ StartThread
    BY <1>1 DEF NewProcess, BuildSegment, StartThread, GrowingNext
  <1>2. CASE AddSegment
    <2>1. PICK p \in UnderConstruction :
            \/ LoadSegment(p, SegmentStart(0), SegmentSize, "EXECUTE")
            \/ CreateSegment(p, SegmentStart(built), SegmentSize, "READ_WRITE")
      BY <1>2 DEF AddSegment
    <2>2. p \in Processes
      BY <2>1 DEF UnderConstruction, MainTypeOK, TypeOK, KernelTypeOK
    <2>3. 0 \in 0 .. DataSegments /\ built \in 0 .. DataSegments
      BY <1>2, ProgramAssumption DEF AddSegment, MainTypeOK
    <2>4. /\ SegmentStart(0) \in Pages /\ SegmentStart(built) \in Pages
          /\ SegmentSize \in Nat
      BY <2>3, SegmentsFit, ProgramAssumption
    <2> QED
      BY <2>1, <2>2, <2>4 DEF GrowingNext, StartAny, AccessType
  <1>3. CASE JoinAndDelete
    BY <1>3 DEF JoinAndDelete, GrowingNext, MainTypeOK, TypeOK, KernelTypeOK
  <1>4. ASSUME NEW p \in Processes, ProcessThread(p)
        PROVE  GrowingNext
    BY <1>4, ProgramPages
       DEF ProcessThread, Instruct, Execute, GrowingNext, BeginAny
  <1>5. CASE Over \/ UNCHANGED mainVars
    BY <1>5 DEF GrowingNext, mainVars
  <1> QED
    BY <1>1, <1>2, <1>3, <1>4, <1>5 DEF MainNext, MainThread

\* What is inductive of the test program.
MainInv == MainTypeOK /\ TypeInv /\ GrowingInv

\* Every step keeps the invariant and is one of FifoReplacement, or none.
LEMMA MainStep ==
  MainInv /\ [MainNext]_mainVars => MainInv' /\ [Replacement!Next]_Resident
  <1> SUFFICES ASSUME MainInv, [MainNext]_mainVars
               PROVE  MainInv' /\ [Replacement!Next]_Resident
    OBVIOUS
  <1> USE DEF MainInv
  <1>1. TypeInv' /\ GrowingInv' /\ [Replacement!Next]_Resident
    BY MainGrows, GrowingTypeInv, GrowingStep
  <1>2. built' \in 0 .. 1 + DataSegments
    BY ProgramAssumption
       DEF MainTypeOK, MainNext, MainThread, NewProcess, AddSegment,
           BuildSegment, StartThread, JoinAndDelete, ProcessThread, Instruct,
           Execute, mainVars
  <1>3. started' \in SUBSET Processes
    <2>1. UnderConstruction \subseteq Processes
      BY DEF UnderConstruction, MainTypeOK, TypeOK, KernelTypeOK
    <2> QED
      BY <2>1
         DEF MainTypeOK, MainNext, MainThread, NewProcess, AddSegment,
             BuildSegment, StartThread, JoinAndDelete, ProcessThread, Instruct,
             Execute, mainVars
  <1>4. left' \in [Processes -> 0 .. Instructions]
    <2>1. ASSUME NEW p \in Processes, Count(p)
          PROVE  left' \in [Processes -> 0 .. Instructions]
      <3>1. left[p] - 1 \in 0 .. Instructions
        BY <2>1, ProgramAssumption DEF MainTypeOK, Count
      <3> QED
        BY <2>1, <3>1 DEF MainTypeOK, Count
    <2> QED
      BY <2>1
         DEF MainTypeOK, MainNext, MainThread, NewProcess, AddSegment,
             BuildSegment, StartThread, JoinAndDelete, ProcessThread, Instruct,
             Execute, mainVars
  <1> QED
    BY <1>1, <1>2, <1>3, <1>4 DEF MainTypeOK, TypeInv

\* The test program starts like any other.
LEMMA MainStart == MainInit => MainInv /\ Replacement!Init
  BY InitTypeInv, InitGrowing, GrowingReplacementInit, ProgramAssumption
     DEF MainInit, MainInv, MainTypeOK, TypeInv

\* What is known of the threads, and of every program whose segments only grow,
\* holds of the test program.
THEOREM MainInvariant == MainSpec => []MainInv
  BY MainStart, MainStep, PTL DEF MainSpec

\* Type correctness of the test program.
THEOREM MainTypeCorrect == MainSpec => []MainTypeOK
  BY MainInvariant, PTL DEF MainInv

\* The frames in use are queued once each while threads page and the main
\* thread builds processes.
THEOREM MainQueuedOnce == MainSpec => []QueuedOnce
  <1>1. MainInv => QueuedOnce
    BY GrowingFacts DEF MainInv
  <1> QED
    BY <1>1, MainInvariant, PTL

\* No page leaves memory while a frame is free.
THEOREM MainNeverPagedOutEarly == MainSpec => []NeverPagedOutEarly
  <1>1. MainInv => NeverPagedOutEarly
    BY GrowingFacts DEF MainInv
  <1> QED
    BY <1>1, MainInvariant, PTL

\* The frame table and its queue implement first-in first-out replacement.
THEOREM MainReplacesOldest == MainSpec => ReplacesOldest
  BY MainStart, MainStep, MainInvariant, PTL
     DEF MainSpec, ReplacesOldest, Replacement!Spec
=============================================================================
