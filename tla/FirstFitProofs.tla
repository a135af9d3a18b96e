--------------------------- MODULE FirstFitProofs --------------------------
(***************************************************************************)
(* Proofs about the allocator of the kernel's tables, for a space of any   *)
(* size and tables of any length.  Everything below one frontier has been  *)
(* handed out, and what is free is the one chunk behind it.                *)
(***************************************************************************)
EXTENDS FirstFit, FiniteSetTheorems, TLAPS

Frontier ==
  IF freePMTChunks = <<>> THEN pmtBytes ELSE freePMTChunks[1].startingAddress

\* At most one chunk is free, and it reaches to the end of the space.
Single ==
  \/ freePMTChunks = <<>>
  \/ /\ Len(freePMTChunks) = 1
     /\ freePMTChunks[1].startingAddress + freePMTChunks[1].size = pmtBytes

\* What has been handed out lies below the frontier ...
Below == \A r \in given : r.startingAddress + r.size <= Frontier

\* ... apart from each other ...
Apart ==
  \A r, other \in given :
    \/ r = other
    \/ r.startingAddress + r.size <= other.startingAddress
    \/ other.startingAddress + other.size <= r.startingAddress

\* ... and without a gap.
Covered == \A b \in 0 .. Frontier - 1 : \E r \in given : b \in Bytes(r)

\* The request that failed is longer than what is free.
Spent == failed # "none" => BytesOf[failed] > pmtBytes - Frontier

IInv == TypeOK /\ Single /\ Below /\ Apart /\ Covered /\ Spent

-----------------------------------------------------------------------------
\* A sequence of one element: taking it out leaves none.
LEMMA OnlyElement ==
  ASSUME NEW S, NEW s \in Seq(S), Len(s) = 1
  PROVE  /\ s[1] \in S /\ DOMAIN s = {1} /\ s # <<>>
         /\ RemoveAt(s, 1) = <<>>
<1>1. DOMAIN s = {1}
  <2>1. DOMAIN s = 1 .. Len(s) OBVIOUS
  <2>2. 1 .. 1 = {1} OBVIOUS
  <2> QED BY <2>1, <2>2
<1>2. s[1] \in S
  OBVIOUS
<1>3. s # <<>>
  OBVIOUS
<1>4. SubSeq(s, 1, 1 - 1) = <<>> /\ SubSeq(s, 1 + 1, Len(s)) = <<>>
  OBVIOUS
<1> QED BY <1>1, <1>2, <1>3, <1>4 DEF RemoveAt

\* The frontier is a place in the space, behind which the free chunk lies.
LEMMA FrontierType ==
  ASSUME TypeOK, Single
  PROVE  /\ pmtBytes \in Nat /\ Frontier \in Nat /\ Frontier <= pmtBytes
         /\ freePMTChunks # <<>> =>
              /\ Len(freePMTChunks) = 1
              /\ freePMTChunks[1] \in Chunk
              /\ freePMTChunks[1].startingAddress = Frontier
              /\ freePMTChunks[1].size = pmtBytes - Frontier
              /\ freePMTChunks[1].size > 0
<1>1. pmtBytes \in Nat
  BY SpaceAssumption DEF TypeOK
<1>2. CASE freePMTChunks = <<>>
  BY <1>1, <1>2 DEF Frontier
<1>3. CASE freePMTChunks # <<>>
  <2>1. Len(freePMTChunks) = 1 BY <1>3 DEF Single
  <2>2. freePMTChunks[1] \in Chunk BY <2>1, OnlyElement DEF TypeOK
  <2>3. freePMTChunks[1].startingAddress + freePMTChunks[1].size = pmtBytes
    BY <1>3 DEF Single
  <2> QED BY <1>1, <1>3, <2>1, <2>2, <2>3 DEF Frontier, Chunk
<1> QED BY <1>2, <1>3

\* What firstFit does when it succeeds: the table it hands out begins at the
\* frontier, which moves behind it (KernelSystem.cpp:136-171).
LEMMA FirstFitCarves ==
  ASSUME IInv, NEW kind \in Kinds, firstFit(kind)
  PROVE  \E f \in Nat, n \in Nat \ {0} :
           /\ f = Frontier /\ n = BytesOf[kind] /\ f + n <= pmtBytes
           /\ given' = given \union
                {[kind |-> kind, size |-> n, startingAddress |-> f]}
           /\ Frontier' = f + n
           /\ Single'
           /\ freePMTChunks' \in Seq(Chunk)
           /\ UNCHANGED <<pmtBytes, failed>>
<1>1. PICK n \in Nat \ {0} : n = BytesOf[kind]
  BY SpaceAssumption
<1>2. PICK i \in Fits(n) :
        /\ Carve(i, n)
        /\ given' = given \union
             {[kind |-> kind, size |-> n,
               startingAddress |-> freePMTChunks[i].startingAddress]}
        /\ UNCHANGED <<pmtBytes, failed>>
  BY <1>1 DEF firstFit
<1>3. /\ i \in DOMAIN freePMTChunks /\ freePMTChunks[i].size >= n
      /\ freePMTChunks # <<>>
  <2>1. i \in DOMAIN freePMTChunks /\ freePMTChunks[i].size >= n
    BY <1>2 DEF Fits
  <2>2. DOMAIN <<>> = {}
    OBVIOUS
  <2> QED BY <2>1, <2>2
<1>4. /\ Len(freePMTChunks) = 1 /\ freePMTChunks[1] \in Chunk
      /\ freePMTChunks[1].startingAddress = Frontier
      /\ freePMTChunks[1].size = pmtBytes - Frontier
      /\ pmtBytes \in Nat /\ Frontier \in Nat
  BY <1>3, FrontierType DEF IInv
<1>5. i = 1
  <2>1. DOMAIN freePMTChunks = {1}
    BY <1>4, OnlyElement DEF IInv, TypeOK
  <2> QED BY <1>3, <2>1
<1>6. PICK f \in Nat : f = Frontier
  BY <1>4
<1>7. f + n <= pmtBytes
  BY <1>3, <1>4, <1>5, <1>6
<1>8. RemoveAt(freePMTChunks, 1) = <<>>
  BY <1>4, OnlyElement DEF IInv, TypeOK
<1>9. /\ Frontier' = f + n /\ Single' /\ freePMTChunks' \in Seq(Chunk)
  <2>1. CASE freePMTChunks[1].size = n
    <3>1. freePMTChunks' = <<>> BY <1>2, <1>5, <1>8, <2>1 DEF Carve
    <3> QED BY <1>2, <1>4, <1>6, <2>1, <3>1 DEF Frontier, Single
  <2>2. CASE freePMTChunks[1].size # n
    <3>1. freePMTChunks' = Append(<<>>, Remainder(freePMTChunks[1], n))
      BY <1>2, <1>5, <1>8, <2>2 DEF Carve
    <3>2. PICK rest : rest = Remainder(freePMTChunks[1], n)
      OBVIOUS
    <3>3. rest.startingAddress = f + n /\ rest.size = pmtBytes - (f + n)
      BY <1>4, <1>6, <3>2 DEF Remainder
    <3>4. rest \in Chunk
      BY <1>1, <1>3, <1>4, <1>5, <1>6, <2>2, <3>2 DEF Remainder, Chunk
    <3>5. freePMTChunks' = <<rest>> BY <3>1, <3>2
    <3>6. /\ Len(freePMTChunks') = 1 /\ freePMTChunks'[1] = rest
          /\ freePMTChunks' # <<>> /\ freePMTChunks' \in Seq(Chunk)
      BY <3>4, <3>5
    <3> QED BY <1>2, <1>4, <3>3, <3>6 DEF Frontier, Single
  <2> QED BY <2>1, <2>2
<1> QED BY <1>1, <1>2, <1>4, <1>5, <1>6, <1>7, <1>9

\* The new table is apart from the others, leaves no gap, and moves the
\* frontier up.
LEMMA FirstFitKeeps ==
  ASSUME IInv, NEW kind \in Kinds, firstFit(kind)
  PROVE  /\ pmtBytes' \in Spaces /\ freePMTChunks' \in Seq(Chunk)
         /\ given' \subseteq Region /\ failed' \in Kinds \union {"none"}
         /\ Single' /\ Below' /\ Apart' /\ Covered' /\ Spent'
<1>1. PICK f \in Nat, n \in Nat \ {0} :
        /\ f = Frontier /\ n = BytesOf[kind] /\ f + n <= pmtBytes
        /\ given' = given \union
             {[kind |-> kind, size |-> n, startingAddress |-> f]}
        /\ Frontier' = f + n
        /\ Single'
        /\ freePMTChunks' \in Seq(Chunk)
        /\ UNCHANGED <<pmtBytes, failed>>
  BY FirstFitCarves
<1>2. PICK new : new = [kind |-> kind, size |-> n, startingAddress |-> f]
  OBVIOUS
<1>3. /\ new \in Region /\ new.startingAddress = f /\ new.size = n
      /\ given' = given \union {new}
  BY <1>1, <1>2 DEF Region
<1>4. \A r \in given :
        r.startingAddress \in Nat /\ r.size \in Nat
        /\ r.startingAddress + r.size <= f
  BY <1>1 DEF IInv, TypeOK, Region, Below
<1>5. Below'
  BY <1>1, <1>3, <1>4 DEF Below
<1>6. Apart'
  BY <1>3, <1>4 DEF IInv, Apart
<1>7. Covered'
  <2> SUFFICES ASSUME NEW b \in 0 .. f + n - 1
               PROVE  \E r \in given' : b \in Bytes(r)
    BY <1>1 DEF Covered, Bytes
  <2>1. CASE b < f
    <3>1. PICK r \in given : b \in Bytes(r) BY <1>1, <2>1 DEF IInv, Covered
    <3> QED BY <1>3, <3>1
  <2>2. CASE b >= f
    <3>1. b \in Bytes(new) BY <1>1, <1>3, <2>2 DEF Bytes
    <3> QED BY <1>3, <3>1
  <2> QED BY <1>1, <2>1, <2>2
<1>8. Spent'
  <2>1. failed # "none" => BytesOf[failed] \in Nat
    BY SpaceAssumption DEF IInv, TypeOK
  <2>2. pmtBytes \in Nat BY SpaceAssumption DEF IInv, TypeOK
  <2> QED BY <1>1, <2>1, <2>2 DEF IInv, Spent
<1> QED BY <1>1, <1>3, <1>5, <1>6, <1>7, <1>8 DEF IInv, TypeOK

\* A request fails when no chunk is left that is long enough, so when the one
\* chunk there is does not do (KernelSystem.cpp:137-142 and 169-170).
LEMMA StopKeeps ==
  ASSUME IInv, NEW how \in {"exit", "nullWrite"}, NEW kind \in Kinds,
         firstFitNull(kind) \/ firstFitExit, Stop(how, kind)
  PROVE  IInv'
<1>1. /\ UNCHANGED <<pmtBytes, freePMTChunks, given>>
      /\ state' = how /\ failed' = kind
  BY DEF Stop
<1>2. TypeOK' /\ Single' /\ Below' /\ Apart' /\ Covered'
  BY <1>1 DEF IInv, TypeOK, Single, Below, Apart, Covered, Frontier
<1>3. /\ pmtBytes \in Nat /\ Frontier \in Nat
  BY FrontierType DEF IInv
<1>n. PICK n \in Nat \ {0} : n = BytesOf[kind]
  BY SpaceAssumption
<1>4. n > pmtBytes - Frontier
  <2>1. CASE freePMTChunks = <<>>
    <3>1. Frontier = pmtBytes BY <2>1 DEF Frontier
    <3> QED BY <1>n, <1>3, <3>1
  <2>2. CASE freePMTChunks # <<>>
    <3>1. Fits(n) = {} BY <1>n, <2>2 DEF firstFitNull, firstFitExit
    <3>2. DOMAIN freePMTChunks = {1}
      BY <2>2, FrontierType, OnlyElement DEF IInv, TypeOK
    <3>3. freePMTChunks[1].size = pmtBytes - Frontier
      BY <2>2, FrontierType DEF IInv
    <3>4. ~(freePMTChunks[1].size >= n)
      BY <3>1, <3>2 DEF Fits
    <3> QED BY <1>n, <1>3, <3>3, <3>4
  <2> QED BY <2>1, <2>2
<1>5. Spent'
  BY <1>1, <1>n, <1>4 DEF Spent, Frontier
<1> QED BY <1>2, <1>5 DEF IInv

\* To begin with the whole space is one chunk.
LEMMA InitInvariant == Init => IInv
<1> SUFFICES ASSUME Init PROVE IInv
  OBVIOUS
<1>1. PICK n \in Nat \ {0} : n = pmtBytes
  BY SpaceAssumption DEF Init
<1>2. PICK all : all = [startingAddress |-> 0, size |-> n]
  OBVIOUS
<1>3. all \in Chunk /\ all.startingAddress = 0 /\ all.size = n
  BY <1>2 DEF Chunk
<1>4. freePMTChunks = <<all>> /\ given = {} /\ failed = "none"
  BY <1>1, <1>2 DEF Init
<1>5. /\ freePMTChunks \in Seq(Chunk) /\ freePMTChunks # <<>>
      /\ Len(freePMTChunks) = 1 /\ freePMTChunks[1] = all
  BY <1>3, <1>4
<1>6. TypeOK
  BY <1>4, <1>5 DEF Init, TypeOK
<1>7. Frontier = 0 /\ Single
  BY <1>1, <1>3, <1>5 DEF Frontier, Single
<1>8. Below /\ Apart /\ Covered /\ Spent
  BY <1>4, <1>7 DEF Below, Apart, Covered, Spent
<1> QED BY <1>6, <1>7, <1>8 DEF IInv

\* Every step keeps the invariant: one step of the proof per caller.
LEMMA NextInvariant ==
  ASSUME IInv, [Next]_vars
  PROVE  IInv'
<1>1. {"pmtTable", "diskTable", "pageDirectory", "pageTable", "SharedSegment"}
        \subseteq Kinds
  BY SpaceAssumption
<1>2. ASSUME NEW kind \in Kinds, firstFit(kind), state' \in {"boot", "run"}
      PROVE  IInv'
  BY <1>2, FirstFitKeeps DEF IInv, TypeOK
<1>3. CASE Construct
  <2>1. PICK kind \in Kinds :
          \/ firstFit(kind) /\ state' \in {"boot", "run"}
          \/ (firstFitNull(kind) \/ firstFitExit) /\ Stop("exit", kind)
    BY <1>1, <1>3 DEF Construct
  <2> QED BY <1>2, <2>1, StopKeeps
<1>4. CASE SetSystem
  <2>1. \/ firstFit("pageDirectory") /\ state' = "run"
        \/ /\ firstFitNull("pageDirectory") \/ firstFitExit
           /\ Stop("exit", "pageDirectory")
    BY <1>4 DEF SetSystem
  <2> QED BY <1>1, <1>2, <2>1, StopKeeps
<1>5. CASE OpenTable \/ MakeRecord
  <2>1. PICK kind \in Kinds :
          \/ firstFit(kind) /\ state' = "run"
          \/ \E how \in {"exit", "nullWrite"} :
               (firstFitNull(kind) \/ firstFitExit) /\ Stop(how, kind)
    BY <1>1, <1>5 DEF OpenTable, MakeRecord, Unchecked
  <2> QED BY <1>2, <2>1, StopKeeps
<1>6. CASE Over \/ UNCHANGED vars
  BY <1>6 DEF Over, vars, IInv, TypeOK, Single, Below, Apart, Covered, Spent,
              Frontier
<1> QED BY <1>3, <1>4, <1>5, <1>6 DEF Next

\* The invariant holds throughout.
THEOREM Invariance == Spec => []IInv
<1>1. Init => IInv
  BY InitInvariant
<1>2. IInv /\ [Next]_vars => IInv'
  BY NextInvariant
<1> QED BY <1>1, <1>2, PTL DEF Spec

-----------------------------------------------------------------------------
\* The list of chunks and what is handed out are well typed: no chunk is empty
\* (KernelSystem.cpp:152-165).
THEOREM TypeCorrect == Spec => []TypeOK
<1>1. IInv => TypeOK
  BY DEF IInv
<1> QED BY <1>1, Invariance, PTL

\* A free chunk is the one behind the frontier.
LEMMA FreeBytes ==
  ASSUME IInv, NEW chunk \in Free
  PROVE  /\ chunk.startingAddress = Frontier
         /\ chunk.size = pmtBytes - Frontier
         /\ chunk = freePMTChunks[1] /\ freePMTChunks # <<>>
<1>1. PICK i \in DOMAIN freePMTChunks : chunk = freePMTChunks[i]
  BY DEF Free
<1>2. freePMTChunks # <<>>
  <2>1. DOMAIN <<>> = {} OBVIOUS
  <2> QED BY <1>1, <2>1
<1>3. DOMAIN freePMTChunks = {1}
  BY <1>2, FrontierType, OnlyElement DEF IInv, TypeOK
<1>4. chunk = freePMTChunks[1]
  BY <1>1, <1>3
<1> QED BY <1>2, <1>4, FrontierType DEF IInv

\* No byte of the space belongs to two tables, or to a table and a free chunk,
\* and none lies outside (KernelSystem.cpp:136-171).
THEOREM TablesApart == Spec => []NoOverlap
<1>1. ASSUME IInv PROVE NoOverlap
  <2>1. /\ pmtBytes \in Nat /\ Frontier \in Nat /\ Frontier <= pmtBytes
        /\ \A r \in given :
             /\ r.startingAddress \in Nat /\ r.size \in Nat
             /\ r.startingAddress + r.size <= Frontier
    BY <1>1, FrontierType DEF IInv, TypeOK, Region, Below
  <2>2. \A r, other \in given :
          r # other => Bytes(r) \intersect Bytes(other) = {}
    BY <1>1, <2>1 DEF IInv, Apart, Bytes
  <2>3. \A chunk \in Free :
          chunk.startingAddress = Frontier /\ chunk.size = pmtBytes - Frontier
    BY <1>1, FreeBytes
  <2>4. \A r \in given, chunk \in Free : Bytes(r) \intersect Bytes(chunk) = {}
    BY <2>1, <2>3 DEF Bytes
  <2>5. \A r \in given \union Free : Bytes(r) \subseteq 0 .. pmtBytes - 1
    BY <2>1, <2>3 DEF Bytes
  <2> QED BY <2>2, <2>4, <2>5 DEF NoOverlap
<1> QED BY <1>1, Invariance, PTL

\* What is free is one chunk, and no byte is lost.
THEOREM NoFragments == Spec => []OneChunk
<1>1. ASSUME IInv PROVE OneChunk
  <2>1. Len(freePMTChunks) <= 1
    BY <1>1 DEF IInv, Single
  <2>2. /\ pmtBytes \in Nat /\ Frontier \in Nat /\ Frontier <= pmtBytes
    BY <1>1, FrontierType DEF IInv
  <2>3. ASSUME NEW b \in 0 .. pmtBytes - 1
        PROVE  \E r \in given \union Free : b \in Bytes(r)
    <3>1. CASE b < Frontier
      <4>1. PICK r \in given : b \in Bytes(r)
        BY <1>1, <2>2, <3>1 DEF IInv, Covered
      <4> QED BY <4>1
    <3>2. CASE b >= Frontier
      <4>1. freePMTChunks # <<>> BY <2>2, <3>2 DEF Frontier
      <4>2. DOMAIN freePMTChunks = {1}
        BY <1>1, <4>1, FrontierType, OnlyElement DEF IInv, TypeOK
      <4>3. freePMTChunks[1] \in Free BY <4>2 DEF Free
      <4>4. b \in Bytes(freePMTChunks[1])
        BY <1>1, <2>2, <3>2, <4>3, FreeBytes DEF Bytes
      <4> QED BY <4>3, <4>4
    <3> QED BY <2>2, <3>1, <3>2
  <2> QED BY <2>1, <2>3 DEF OneChunk
<1> QED BY <1>1, Invariance, PTL

\* A request fails only when all of the free bytes together would not do
\* (KernelProcess.cpp:111 and the other callers use the result unchecked).
THEOREM NullIsReal == Spec => []NullOnlyWhenSpent
<1>1. ASSUME IInv, failed # "none"
      PROVE  Cardinality(UNION {Bytes(r) : r \in given}) + BytesOf[failed]
               > pmtBytes
  <2>1. pmtBytes \in Nat /\ Frontier \in Nat /\ BytesOf[failed] \in Nat
    BY <1>1, FrontierType, SpaceAssumption DEF IInv, TypeOK
  <2>2. UNION {Bytes(r) : r \in given} = 0 .. Frontier - 1
    <3>1. ASSUME NEW r \in given PROVE Bytes(r) \subseteq 0 .. Frontier - 1
      <4>1. /\ r.startingAddress \in Nat /\ r.size \in Nat
            /\ r.startingAddress + r.size <= Frontier
        BY <1>1 DEF IInv, TypeOK, Region, Below
      <4> QED BY <2>1, <4>1 DEF Bytes
    <3>2. \A b \in 0 .. Frontier - 1 : \E r \in given : b \in Bytes(r)
      BY <1>1 DEF IInv, Covered
    <3> QED BY <3>1, <3>2
  <2>3. Cardinality(0 .. Frontier - 1) = Frontier
    <3>1. PICK n \in Nat : n = Frontier BY <2>1
    <3>2. Cardinality(0 .. n - 1) = IF 0 > n - 1 THEN 0 ELSE (n - 1) - 0 + 1
      BY FS_Interval
    <3> QED BY <3>1, <3>2
  <2>4. BytesOf[failed] > pmtBytes - Frontier
    BY <1>1 DEF IInv, Spent
  <2>5. Cardinality(UNION {Bytes(r) : r \in given}) = Frontier
    BY <2>2, <2>3
  <2>6. PICK n \in Nat : n = BytesOf[failed] BY <2>1
  <2> QED BY <2>1, <2>4, <2>5, <2>6
<1>2. IInv => NullOnlyWhenSpent
  BY <1>1 DEF NullOnlyWhenSpent
<1> QED BY <1>2, Invariance, PTL
=============================================================================
