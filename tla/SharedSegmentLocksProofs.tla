---------------------- MODULE SharedSegmentLocksProofs ----------------------
(***************************************************************************)
(* Proofs about the shared-segment calls of concurrent threads, for any    *)
(* number of processes, names and calls, and for every order of their      *)
(* calls: what a thread holds is what its place in its call says, the only *)
(* threads that wait for each other are a removal that holds the kernel's  *)
(* mutex and those it meets, and a creator enters a segment once.          *)
(***************************************************************************)
EXTENDS SharedSegmentLocks, SequenceTheorems, WellFoundedInduction, TLAPS

-----------------------------------------------------------------------------
(* Lemmas about sequences and mutexes *)

\* The least element of a set of natural numbers.
LEMMA MinOfNaturals ==
  ASSUME NEW S, S \subseteq Nat, S # {}
  PROVE  Min(S) \in S /\ \A i \in S : Min(S) <= i
  <1> DEFINE Less == {ss \in Nat \X Nat : ss[1] < ss[2]}
  <1>1. IsWellFoundedOn(Less, Nat)
    BY NatLessThanWellFounded DEF OpToRel
  <1>2. PICK x \in S : \A y \in S : <<y, x>> \notin Less
    <2> HIDE DEF Less
    <2> QED BY <1>1, WFMin
  <1>3. ASSUME NEW y \in S PROVE x <= y
    <2>1. <<y, x>> \in Nat \X Nat /\ ~(y < x)
      BY <1>2
    <2> QED BY <2>1
  <1> QED BY <1>3 DEF Min

\* Where an element is met first (list::remove).
LEMMA FirstPlace ==
  ASSUME NEW S, NEW s \in Seq(S), NEW e, Contains(s, e)
  PROVE  LET k == SelectInSeq(s, LAMBDA v : v = e)
         IN  k \in 1 .. Len(s) /\ s[k] = e
  <1> DEFINE I == {i \in 1 .. Len(s) : s[i] = e}
  <1>1. I \subseteq Nat /\ I # {}
    BY DEF Contains
  <1>2. Min(I) \in I
    <2> HIDE DEF I
    <2> QED BY <1>1, MinOfNaturals
  <1> QED BY <1>1, <1>2 DEF SelectInSeq

\* What is removed from a list without repetitions is gone, everything else
\* stays, and what was at two places is not brought together.
LEMMA RemoveFirstProperties ==
  ASSUME NEW S, NEW s \in Seq(S), NEW e, NEW r, r = RemoveFirst(s, e)
  PROVE  /\ r \in Seq(S)
         /\ \A x : Contains(r, x) => Contains(s, x)
         /\ \A x : x # e /\ Contains(s, x) => Contains(r, x)
         /\ \A i, j \in DOMAIN r : i # j =>
              \E x, y \in DOMAIN s : x # y /\ r[i] = s[x] /\ r[j] = s[y]
         /\ (\A i, j \in DOMAIN s : s[i] = s[j] => i = j) => ~Contains(r, e)
  <1>0. CASE ~Contains(s, e)
    BY <1>0 DEF Contains, RemoveFirst
  <1>1. CASE Contains(s, e)
    <2>1. PICK k \in 1 .. Len(s) : /\ k = SelectInSeq(s, LAMBDA v : v = e)
                                   /\ s[k] = e
      BY <1>1, FirstPlace
    <2> DEFINE a == SubSeq(s, 1, k - 1)
               b == SubSeq(s, k + 1, Len(s))
    <2>4. r = a \o b
      BY <1>1, <2>1 DEF RemoveFirst, RemoveAt, Contains
    <2>3. /\ a \in Seq(S) /\ Len(a) = k - 1 /\ \A i \in 1 .. k - 1 : a[i] = s[i]
          /\ b \in Seq(S) /\ Len(b) = Len(s) - k
          /\ \A i \in 1 .. Len(s) - k : b[i] = s[k + i]
      OBVIOUS
    <2> HIDE DEF a, b
    <2>5. /\ r \in Seq(S) /\ Len(r) = Len(s) - 1
          /\ DOMAIN r = 1 .. Len(s) - 1 /\ DOMAIN s = 1 .. Len(s)
          /\ \A i \in 1 .. Len(s) - 1 :
               r[i] = IF i < k THEN s[i] ELSE s[i + 1]
      <3>1. r \in Seq(S) /\ Len(r) = Len(a) + Len(b)
        BY <2>3, <2>4, ConcatProperties
      <3>2. \A i \in 1 .. Len(a) + Len(b) :
              r[i] = IF i <= Len(a) THEN a[i] ELSE b[i - Len(a)]
        BY <2>3, <2>4, ConcatProperties
      <3>3. Len(r) = Len(s) - 1 /\ DOMAIN r = 1 .. Len(s) - 1
            /\ DOMAIN s = 1 .. Len(s)
        BY <2>3, <3>1
      <3>4. ASSUME NEW i \in 1 .. Len(s) - 1
            PROVE  r[i] = IF i < k THEN s[i] ELSE s[i + 1]
        <4>1. i \in 1 .. Len(a) + Len(b) /\ (i <= Len(a) <=> i < k)
          BY <2>3
        <4>2. CASE i < k
          BY <2>3, <3>2, <4>1, <4>2
        <4>3. CASE ~(i < k)
          <5>1. i - Len(a) \in 1 .. Len(s) - k /\ k + (i - Len(a)) = i + 1
            BY <2>3, <4>3
          <5>2. b[i - Len(a)] = s[k + (i - Len(a))]
            BY <2>3, <5>1
          <5> QED BY <3>2, <4>1, <4>3, <5>1, <5>2
        <4> QED BY <4>2, <4>3
      <3> QED BY <3>1, <3>3, <3>4
    <2>6. \A x : Contains(r, x) => Contains(s, x)
      BY <2>5 DEF Contains
    <2>7. ASSUME NEW x, x # e, Contains(s, x) PROVE Contains(r, x)
      <3>1. PICK i \in 1 .. Len(s) : s[i] = x /\ i # k
        BY <2>1, <2>7 DEF Contains
      <3>2. IF i < k THEN i \in 1 .. Len(s) - 1 /\ r[i] = x
                     ELSE i - 1 \in 1 .. Len(s) - 1 /\ r[i - 1] = x
        BY <2>5, <3>1
      <3> QED BY <2>5, <3>2 DEF Contains
    <2>8. ASSUME NEW i \in DOMAIN r, NEW j \in DOMAIN r, i # j
          PROVE  \E x, y \in DOMAIN s : x # y /\ r[i] = s[x] /\ r[j] = s[y]
      <3> DEFINE x == IF i < k THEN i ELSE i + 1
                 y == IF j < k THEN j ELSE j + 1
      <3>1. /\ x \in 1 .. Len(s) /\ y \in 1 .. Len(s) /\ x # y
            /\ r[i] = s[x] /\ r[j] = s[y]
        BY <2>5, <2>8
      <3> QED BY <2>5, <3>1
    <2>9. ASSUME \A i, j \in DOMAIN s : s[i] = s[j] => i = j
          PROVE  ~Contains(r, e)
      <3>1. ASSUME NEW i \in 1 .. Len(r), r[i] = e PROVE FALSE
        <4> DEFINE x == IF i < k THEN i ELSE i + 1
        <4>1. x \in DOMAIN s /\ x # k /\ s[x] = e
          BY <2>5, <3>1
        <4> QED BY <2>1, <2>5, <2>9, <4>1
      <3> QED BY <3>1 DEF Contains
    <2> QED BY <2>5, <2>6, <2>7, <2>8, <2>9
  <1> QED BY <1>0, <1>1

\* What is appended to a list is in it, next to what was.
LEMMA AppendContains ==
  ASSUME NEW S, NEW s \in Seq(S), NEW e \in S
  PROVE  /\ Append(s, e) \in Seq(S)
         /\ \A x : Contains(Append(s, e), x) <=> Contains(s, x) \/ x = e
         /\ DOMAIN s = 1 .. Len(s) /\ DOMAIN Append(s, e) = 1 .. Len(s) + 1
         /\ \A i \in 1 .. Len(s) : Append(s, e)[i] = s[i]
         /\ Append(s, e)[Len(s) + 1] = e
  <1>1. /\ Append(s, e) \in Seq(S) /\ Len(Append(s, e)) = Len(s) + 1
        /\ DOMAIN s = 1 .. Len(s) /\ DOMAIN Append(s, e) = 1 .. Len(s) + 1
        /\ \A i \in 1 .. Len(s) : Append(s, e)[i] = s[i]
        /\ Append(s, e)[Len(s) + 1] = e
        /\ Len(s) \in Nat
    OBVIOUS
  <1>2. \A x : Contains(Append(s, e), x) <=> Contains(s, x) \/ x = e
    BY <1>1 DEF Contains
  <1> QED BY <1>1, <1>2

\* No two mutexes are the same one.
LEMMA MutexesDiffer ==
  /\ KernelMutex \in Mutexes
  /\ \A p \in Processes : /\ mutex_pageDirectory(p) \in Mutexes
                          /\ mutex_listOfSharedSegments(p) \in Mutexes
  /\ \A p, q \in Processes :
       /\ mutex_pageDirectory(p) = mutex_pageDirectory(q) => p = q
       /\ mutex_listOfSharedSegments(p) = mutex_listOfSharedSegments(q) => p = q
       /\ mutex_pageDirectory(p) # mutex_listOfSharedSegments(q)
       /\ mutex_pageDirectory(p) # KernelMutex
       /\ mutex_listOfSharedSegments(p) # KernelMutex
  BY DEF Mutexes, KernelMutex, mutex_pageDirectory, mutex_listOfSharedSegments

-----------------------------------------------------------------------------
(* Types *)

Creates(p) == thread[p] # Idle /\ thread[p].call = "create"

Removes(p) == thread[p] # Idle /\ thread[p].call \in {"disconnect", "delete"}

\* The kernel is deleting a segment of a process it has still to ask.
TypeInv ==
  /\ LocksTypeOK
  /\ \A p \in Processes :
       Removes(p) /\ thread[p].pc = "page" => thread[p].todo # {}

\* A thread inside a call is in one kind of call.
LEMMA ThreadKinds ==
  ASSUME NEW th \in Thread
  PROVE  /\ th.pc # "idle" /\ th # Idle
         /\ th.call = "create" => th \in CreatingThread
         /\ th.call = "ordinary" => th \in OrdinaryThread
         /\ th.call \in {"disconnect", "delete"} => th \in RemovingThread
         /\ th.call \in {"create", "ordinary", "disconnect", "delete"}
  <1>1. th \in CreatingThread \/ th \in RemovingThread \/ th \in OrdinaryThread
    BY DEF Thread
  <1>2. th.pc # "idle" /\ Idle.pc = "idle"
    BY <1>1 DEF CreatingThread, RemovingThread, OrdinaryThread, Idle
  <1> QED BY <1>1, <1>2 DEF CreatingThread, RemovingThread, OrdinaryThread

\* The process the kernel asks next is one it has still to ask.
LEMMA AskedIsProcess ==
  ASSUME TypeInv, NEW p \in Processes, Removes(p), thread[p].todo # {}
  PROVE  Asked(p) \in thread[p].todo /\ Asked(p) \in Processes
  <1>1. thread[p] \in Thread
    BY DEF TypeInv, LocksTypeOK, Removes
  <1>2. thread[p] \in RemovingThread
    BY <1>1, ThreadKinds DEF Removes
  <1>3. thread[p].todo \subseteq Processes /\ Processes \subseteq Nat
    BY <1>2, LocksAssumption DEF RemovingThread, Processes
  <1>4. Min(thread[p].todo) \in thread[p].todo
    BY <1>3, MinOfNaturals
  <1> QED BY <1>3, <1>4 DEF Asked

\* Looking a name up in the kernel's list.
Known(name) == \E i \in DOMAIN segments : segments[i].name = name

\* What getSharedSegment finds in the kernel's list.
LEMMA Lookup ==
  ASSUME LocksTypeOK, NEW name \in Names
  PROVE  /\ getSharedSegment(name) \in SharedSegment \union {NotFound}
         /\ getSharedSegment(name) = NotFound <=> ~Known(name)
         /\ getSharedSegment(name) # NotFound =>
              /\ getSharedSegment(name) \in SharedSegment
              /\ getSharedSegment(name).name = name
              /\ Contains(segments, getSharedSegment(name))
  <1> DEFINE I == {i \in 1 .. Len(segments) : segments[i].name = name}
             k == SelectInSeq(segments, LAMBDA ss : ss.name = name)
  <1>1. /\ segments \in Seq(SharedSegment) /\ DOMAIN segments = 1 .. Len(segments)
        /\ \A i \in 1 .. Len(segments) : segments[i] \in SharedSegment
    BY DEF LocksTypeOK
  <1>2. \A ss \in SharedSegment : ss # NotFound
    <2>1. ASSUME NEW ss \in SharedSegment PROVE ss.pid # NotFound.pid
      BY LocksAssumption DEF SharedSegment, NotFound, Nobody, Processes
    <2> QED BY <2>1
  <1>3. k = IF I # {} THEN Min(I) ELSE 0
    BY DEF SelectInSeq
  <1>4. CASE I = {}
    <2>1. k = 0
      BY <1>3, <1>4
    <2>2. getSharedSegment(name) = NotFound
      BY <2>1 DEF getSharedSegment
    <2> QED BY <1>1, <1>4, <2>2 DEF Known
  <1>5. CASE I # {}
    <2>1. Min(I) \in I
      <3>1. I \subseteq Nat
        OBVIOUS
      <3> HIDE DEF I
      <3> QED BY <1>5, <3>1, MinOfNaturals
    <2>2. k \in 1 .. Len(segments) /\ segments[k].name = name
      BY <1>3, <1>5, <2>1
    <2>3. getSharedSegment(name) = segments[k]
      <3> HIDE DEF I
      <3>1. k # 0
        BY <2>2
      <3> QED BY <3>1 DEF getSharedSegment
    <2> HIDE DEF k, I
    <2> QED BY <1>1, <1>2, <2>2, <2>3 DEF Known, Contains
  <1> QED BY <1>4, <1>5

-----------------------------------------------------------------------------
(* What a step does to the thread that takes it *)

\* Where a call can be, what it has found and what the kernel has still to ask,
\* by its kind.
PlaceOf(call, c, gss, todo) ==
  \/ /\ call = "create" /\ gss \in SharedSegment \union {NotFound} /\ todo = {}
     /\ c \in {"dir", "find", "list", "insert", "return"}
  \/ /\ call = "ordinary" /\ gss = NotFound /\ todo = {}
     /\ c \in {"dir", "page"}
  \/ /\ call \in {"disconnect", "delete"}
     /\ gss \in SharedSegment \union {NotFound} /\ todo \subseteq Processes
     /\ c \in {"list", "find", "kernel", "each", "page", "own"}

\* The thread of p is now at c, with this segment and these processes left.
Moved(p, c, gss, todo) ==
  /\ thread' \in [Processes -> Thread \union {Idle}]
  /\ \A q \in Processes \ {p} : thread'[q] = thread[q]
  /\ thread'[p] # Idle
  /\ thread'[p].pc = c
  /\ thread'[p].call = thread[p].call
  /\ thread'[p].name = thread[p].name
  /\ thread'[p].gss = gss
  /\ thread'[p].todo = todo

\* A thread that goes on has an ordinary place.
LEMMA ThreadMoved ==
  ASSUME LocksTypeOK, NEW p \in Processes, thread[p] # Idle,
         NEW c, NEW gss, NEW todo, PlaceOf(thread[p].call, c, gss, todo),
         thread' = [thread EXCEPT ![p] =
           [pc |-> c, call |-> thread[p].call, name |-> thread[p].name,
            gss |-> gss, todo |-> todo]]
  PROVE  Moved(p, c, gss, todo)
  <1> DEFINE th == [pc |-> c, call |-> thread[p].call, name |-> thread[p].name,
                    gss |-> gss, todo |-> todo]
  <1>1. thread \in [Processes -> Thread \union {Idle}] /\ thread[p] \in Thread
    BY DEF LocksTypeOK
  <1>2. thread[p].name \in Names
    BY <1>1 DEF Thread, CreatingThread, RemovingThread, OrdinaryThread
  <1>3. th \in Thread
    BY <1>2 DEF PlaceOf, Thread, CreatingThread, RemovingThread, OrdinaryThread
  <1>4. th # Idle
    BY <1>3, ThreadKinds
  <1>5. th.pc = c /\ th.call = thread[p].call /\ th.name = thread[p].name
        /\ th.gss = gss /\ th.todo = todo
    OBVIOUS
  <1> HIDE DEF th
  <1>6. thread' = [thread EXCEPT ![p] = th]
    BY DEF th
  <1> QED BY <1>1, <1>3, <1>4, <1>5, <1>6 DEF Moved

\* A thread is the record of its fields.
LEMMA ThreadFields ==
  ASSUME LocksTypeOK, NEW p \in Processes, thread[p] # Idle
  PROVE  /\ thread[p] = [pc |-> thread[p].pc, call |-> thread[p].call,
                         name |-> thread[p].name, gss |-> thread[p].gss,
                         todo |-> thread[p].todo]
         /\ thread[p].name \in Names
         /\ thread[p].gss \in SharedSegment \union {NotFound}
         /\ PlaceOf(thread[p].call, thread[p].pc, thread[p].gss, thread[p].todo)
         /\ thread[p] \in Thread /\ thread[p].pc # "idle"
  <1>1. thread[p] \in Thread
    BY DEF LocksTypeOK
  <1>2. CASE thread[p] \in CreatingThread
    BY <1>1, <1>2, ThreadKinds DEF CreatingThread, PlaceOf
  <1>3. CASE thread[p] \in RemovingThread
    BY <1>1, <1>3, ThreadKinds DEF RemovingThread, PlaceOf
  <1>4. CASE thread[p] \in OrdinaryThread
    BY <1>1, <1>4, ThreadKinds DEF OrdinaryThread, PlaceOf
  <1> QED BY <1>1, <1>2, <1>3, <1>4 DEF Thread

\* Two fields of a thread at once.
LEMMA ThreadUpdated ==
  ASSUME NEW th, th = [pc |-> th.pc, call |-> th.call, name |-> th.name,
                       gss |-> th.gss, todo |-> th.todo],
         NEW c, NEW g
  PROVE  /\ [th EXCEPT !.pc = c, !.gss = g] =
              [pc |-> c, call |-> th.call, name |-> th.name, gss |-> g,
               todo |-> th.todo]
         /\ [th EXCEPT !.pc = c, !.todo = g] =
              [pc |-> c, call |-> th.call, name |-> th.name, gss |-> th.gss,
               todo |-> g]
         /\ [th EXCEPT !.todo = g] =
              [pc |-> th.pc, call |-> th.call, name |-> th.name,
               gss |-> th.gss, todo |-> g]
  <1>1. PICK pc, call, name, gss, todo :
          /\ pc = th.pc /\ call = th.call /\ name = th.name /\ gss = th.gss
          /\ todo = th.todo
    OBVIOUS
  <1>2. th = [pc |-> pc, call |-> call, name |-> name, gss |-> gss,
              todo |-> todo]
    BY <1>1
  <1>3. PICK m : m = [th EXCEPT !.pc = c]
    OBVIOUS
  <1>4. m = [pc |-> c, call |-> call, name |-> name, gss |-> gss,
             todo |-> todo]
    BY <1>2, <1>3
  <1>5. [m EXCEPT !.gss = g] = [pc |-> c, call |-> call, name |-> name,
                                gss |-> g, todo |-> todo]
    BY <1>4
  <1>6. [m EXCEPT !.todo = g] = [pc |-> c, call |-> call, name |-> name,
                                 gss |-> gss, todo |-> g]
    BY <1>4
  <1>7. [th EXCEPT !.todo = g] = [pc |-> pc, call |-> call, name |-> name,
                                  gss |-> gss, todo |-> g]
    BY <1>2
  <1>8. /\ [th EXCEPT !.pc = c, !.gss = g] =
             [[th EXCEPT !.pc = c] EXCEPT !.gss = g]
        /\ [th EXCEPT !.pc = c, !.todo = g] =
             [[th EXCEPT !.pc = c] EXCEPT !.todo = g]
    OBVIOUS
  <1> QED BY <1>1, <1>3, <1>5, <1>6, <1>7, <1>8

\* Going to another place of the same call.
LEMMA GotoMoves ==
  ASSUME LocksTypeOK, NEW p \in Processes, thread[p] # Idle, NEW c,
         PlaceOf(thread[p].call, c, thread[p].gss, thread[p].todo), Goto(p, c)
  PROVE  Moved(p, c, thread[p].gss, thread[p].todo)
  <1>1. PICK th : th = thread[p]
    OBVIOUS
  <1>2. /\ th = [pc |-> th.pc, call |-> th.call, name |-> th.name,
                 gss |-> th.gss, todo |-> th.todo]
        /\ th.gss \in SharedSegment \union {NotFound}
    BY <1>1, ThreadFields
  <1>3. [th EXCEPT !.pc = c] =
          [pc |-> c, call |-> th.call, name |-> th.name, gss |-> th.gss,
           todo |-> th.todo]
    BY <1>2
  <1>4. thread' = [thread EXCEPT ![p] = [th EXCEPT !.pc = c]]
    BY <1>1 DEF Goto
  <1> QED BY <1>1, <1>2, <1>3, <1>4, ThreadMoved

\* The thread of p has returned.
Returned(p) ==
  /\ thread' \in [Processes -> Thread \union {Idle}]
  /\ \A q \in Processes \ {p} : thread'[q] = thread[q]
  /\ thread'[p] = Idle

\* Return leaves the thread outside every call.
LEMMA ReturnReturns ==
  ASSUME LocksTypeOK, NEW p \in Processes, Return(p)
  PROVE  Returned(p)
  BY DEF LocksTypeOK, Return, Returned

\* A thread that is somewhere is in a call of the kind that goes there.
LEMMA AtPlace ==
  ASSUME LocksTypeOK, NEW p \in Processes, NEW pc, At(p, pc), pc # "idle"
  PROVE  /\ thread[p] # Idle /\ thread[p].pc = pc /\ ~exited
         /\ PlaceOf(thread[p].call, pc, thread[p].gss, thread[p].todo)
         /\ thread[p].call \in {"create", "ordinary", "disconnect", "delete"}
         /\ pc \in {"dir", "insert", "return"} =>
              thread[p].call \in {"create", "ordinary"}
         /\ pc \in {"find", "list", "insert", "return"} =>
              thread[p].call # "ordinary"
         /\ pc \in {"kernel", "each", "own"} =>
              thread[p].call \in {"disconnect", "delete"}
         /\ thread[p].gss \in SharedSegment \union {NotFound}
         /\ thread[p].name \in Names
  <1>1. thread[p] # Idle /\ thread[p].pc = pc /\ ~exited
    BY DEF At, Idle
  <1> QED BY <1>1, ThreadFields DEF PlaceOf

\* A thread that begins a call was outside every call.
LEMMA CallMoves ==
  ASSUME LocksTypeOK, NEW p \in Processes, NEW pc, NEW call, NEW name \in Names,
         PlaceOf(call, pc, NotFound, {}), Call(p, pc, call, name)
  PROVE  /\ thread[p] = Idle
         /\ thread' \in [Processes -> Thread \union {Idle}]
         /\ \A q \in Processes \ {p} : thread'[q] = thread[q]
         /\ thread'[p] # Idle
         /\ thread'[p].pc = pc /\ thread'[p].call = call
         /\ thread'[p].name = name /\ thread'[p].gss = NotFound
         /\ thread'[p].todo = {}
         /\ left' \in [Processes -> 0 .. Calls]
         /\ UNCHANGED <<owner, listed, segments, exited>> /\ ~exited
  <1> DEFINE th == [pc |-> pc, call |-> call, name |-> name, gss |-> NotFound,
                    todo |-> {}]
  <1>1. th \in Thread
    BY DEF PlaceOf, Thread, CreatingThread, RemovingThread, OrdinaryThread
  <1>2. th # Idle
    BY <1>1, ThreadKinds
  <1>3. th.pc = pc /\ th.call = call /\ th.name = name /\ th.gss = NotFound
        /\ th.todo = {}
    OBVIOUS
  <1> HIDE DEF th
  <1>4. thread' = [thread EXCEPT ![p] = th] /\ thread[p] = Idle
        /\ thread \in [Processes -> Thread \union {Idle}]
    BY DEF Call, th, LocksTypeOK
  <1>5. left' \in [Processes -> 0 .. Calls]
    BY LocksAssumption DEF Call, LocksTypeOK
  <1>6. UNCHANGED <<owner, listed, segments, exited>> /\ ~exited
    BY DEF Call
  <1> QED BY <1>1, <1>2, <1>3, <1>4, <1>5, <1>6

\* Where a thread goes when it has the directory's mutex.
LEMMA LockDirectoryMoves ==
  ASSUME LocksTypeOK, NEW p \in Processes, LockDirectory(p)
  PROVE  Moved(p, IF thread[p].call = "create" THEN "find" ELSE "page",
               thread[p].gss, thread[p].todo)
  BY AtPlace, GotoMoves DEF LockDirectory, PlaceOf

\* createSharedSegment keeps the record it has found.
LEMMA FindMoves ==
  ASSUME LocksTypeOK, NEW p \in Processes, Find(p)
  PROVE  Moved(p, "list", getSharedSegment(thread[p].name), thread[p].todo)
  <1>1. At(p, "find") /\ thread[p].call = "create"
    BY DEF Find
  <1>2. /\ thread[p] # Idle /\ thread[p].name \in Names
    BY <1>1, AtPlace
  <1>3. PlaceOf(thread[p].call, "list", getSharedSegment(thread[p].name),
                thread[p].todo)
    BY <1>1, <1>2, AtPlace, Lookup DEF PlaceOf
  <1>4. PICK th, gss : th = thread[p] /\ gss = getSharedSegment(thread[p].name)
    OBVIOUS
  <1>5. th = [pc |-> th.pc, call |-> th.call, name |-> th.name,
              gss |-> th.gss, todo |-> th.todo]
    BY <1>2, <1>4, ThreadFields
  <1>6. thread' = [thread EXCEPT ![p] = [th EXCEPT !.pc = "list", !.gss = gss]]
    BY <1>4 DEF Find, LocksTypeOK
  <1>7. [th EXCEPT !.pc = "list", !.gss = gss] =
          [pc |-> "list", call |-> th.call, name |-> th.name, gss |-> gss,
           todo |-> th.todo]
    BY <1>5, ThreadUpdated
  <1> QED BY <1>2, <1>3, <1>4, <1>6, <1>7, ThreadMoved

\* A removal of a name the kernel does not know ends, or ends the program.
LEMMA FindGlobalMoves ==
  ASSUME LocksTypeOK, NEW p \in Processes, FindGlobal(p),
         NEW gss, gss = getSharedSegment(thread[p].name)
  PROVE  \/ /\ gss = NotFound /\ thread[p].call = "disconnect"
            /\ exited' = TRUE /\ UNCHANGED thread
         \/ /\ gss = NotFound /\ thread[p].call = "delete"
            /\ exited' = exited
            /\ Moved(p, "own", thread[p].gss, thread[p].todo)
         \/ /\ gss # NotFound /\ exited' = exited
            /\ thread[p].call = "delete" \/ gss.pid = p
            /\ Moved(p, "kernel", gss, thread[p].todo)
         \/ /\ gss # NotFound /\ exited' = exited
            /\ gss.pid # p
            /\ Moved(p, "own", gss, thread[p].todo)
  <1>1. At(p, "find") /\ thread[p].call # "create"
    BY DEF FindGlobal
  <1>2. /\ thread[p] # Idle /\ thread[p].name \in Names
        /\ thread[p].call \in {"create", "ordinary", "disconnect", "delete"}
    BY <1>1, AtPlace
  <1>3. gss \in SharedSegment \union {NotFound}
    BY <1>2, Lookup
  <1>4. CASE gss = NotFound /\ thread[p].call = "disconnect"
    BY <1>4 DEF FindGlobal
  <1>5. CASE gss = NotFound /\ thread[p].call = "delete"
    <2>1. Goto(p, "own") /\ exited' = exited
      BY <1>5 DEF FindGlobal
    <2>2. PlaceOf(thread[p].call, "own", thread[p].gss, thread[p].todo)
      BY <1>1, <1>5, AtPlace DEF PlaceOf
    <2> QED BY <1>2, <1>5, <2>1, <2>2, GotoMoves
  <1>6. CASE gss # NotFound
    <2>1. PICK c : c = IF thread[p].call = "delete" \/ gss.pid = p
                       THEN "kernel" ELSE "own"
      OBVIOUS
    <2>2. PICK th : th = thread[p]
      OBVIOUS
    <2>3. thread' = [thread EXCEPT ![p] = [th EXCEPT !.pc = c, !.gss = gss]]
          /\ exited' = exited
      BY <1>6, <2>1, <2>2 DEF FindGlobal, LocksTypeOK
    <2>4. th = [pc |-> th.pc, call |-> th.call, name |-> th.name,
                gss |-> th.gss, todo |-> th.todo]
      BY <1>2, <2>2, ThreadFields
    <2>5. [th EXCEPT !.pc = c, !.gss = gss] =
            [pc |-> c, call |-> th.call, name |-> th.name, gss |-> gss,
             todo |-> th.todo]
      <3>1. ASSUME NEW x, x = [th EXCEPT !.pc = c, !.gss = gss]
            PROVE  x = [pc |-> c, call |-> th.call, name |-> th.name,
                        gss |-> gss, todo |-> th.todo]
        BY <2>4, <3>1, ThreadUpdated
      <3> QED BY <3>1
    <2>6. PlaceOf(thread[p].call, c, gss, thread[p].todo)
      BY <1>1, <1>3, <2>1, AtPlace DEF PlaceOf
    <2>7. Moved(p, c, gss, thread[p].todo)
      BY <1>2, <1>3, <2>2, <2>3, <2>5, <2>6, ThreadMoved
    <2> QED BY <1>6, <2>1, <2>3, <2>7
  <1> QED BY <1>4, <1>5, <1>6 DEF FindGlobal

\* The thread goes to c with these processes left to ask.
LEMMA TodoMoves ==
  ASSUME LocksTypeOK, NEW p \in Processes, thread[p] # Idle, NEW c, NEW todo,
         PlaceOf(thread[p].call, c, thread[p].gss, todo),
         \/ thread' = [thread EXCEPT ![p].pc = c, ![p].todo = todo]
         \/ thread' = [thread EXCEPT ![p].todo = todo] /\ c = thread[p].pc
  PROVE  Moved(p, c, thread[p].gss, todo)
  <1>1. PICK th : th = thread[p]
    OBVIOUS
  <1>2. /\ th = [pc |-> th.pc, call |-> th.call, name |-> th.name,
                 gss |-> th.gss, todo |-> th.todo]
        /\ th.gss \in SharedSegment \union {NotFound}
    BY <1>1, ThreadFields
  <1> DEFINE new == [pc |-> c, call |-> th.call, name |-> th.name,
                     gss |-> th.gss, todo |-> todo]
  <1>3. /\ [th EXCEPT !.pc = c, !.todo = todo] = new
        /\ c = th.pc => [th EXCEPT !.todo = todo] = new
    BY ZenonT(40), <1>2, ThreadUpdated
  <1>4. \/ thread' = [thread EXCEPT ![p] = [th EXCEPT !.pc = c, !.todo = todo]]
        \/ thread' = [thread EXCEPT ![p] = [th EXCEPT !.todo = todo]] /\ c = th.pc
    BY <1>1 DEF LocksTypeOK
  <1>5. thread' = [thread EXCEPT ![p] = new]
    BY <1>3, <1>4
  <1> QED BY <1>1, <1>2, <1>5, ThreadMoved

\* The part of LocksTypeOK the other variables have.
ListsTypeOK ==
  /\ owner \in [Mutexes -> Processes \union {Nobody}]
  /\ listed \in [Processes -> Seq(Names)]
  /\ segments \in Seq(SharedSegment)
  /\ left \in [Processes -> 0 .. Calls]
  /\ exited \in BOOLEAN

\* Going on keeps the types ...
LEMMA MovedTypeInv ==
  ASSUME TypeInv, NEW p \in Processes, NEW c, NEW gss, NEW todo,
         Moved(p, c, gss, todo),
         thread[p].call \in {"disconnect", "delete"} /\ c = "page" => todo # {},
         ListsTypeOK'
  PROVE  TypeInv'
  BY DEF TypeInv, LocksTypeOK, ListsTypeOK, Moved, Removes

\* ... as returning does ...
LEMMA ReturnedTypeInv ==
  ASSUME TypeInv, NEW p \in Processes, Returned(p), ListsTypeOK'
  PROVE  TypeInv'
  BY DEF TypeInv, LocksTypeOK, ListsTypeOK, Returned, Removes

\* ... and beginning a call.
LEMMA StartTypeInv ==
  ASSUME TypeInv, NEW p \in Processes, Start(p)
  PROVE  TypeInv'
  <1>1. ASSUME NEW pc, NEW call, NEW name \in Names, pc # "page",
               PlaceOf(call, pc, NotFound, {}), Call(p, pc, call, name)
        PROVE  TypeInv'
    <2>1. LocksTypeOK
      BY DEF TypeInv
    <2>2. /\ thread' \in [Processes -> Thread \union {Idle}]
          /\ \A q \in Processes \ {p} : thread'[q] = thread[q]
          /\ thread'[p].pc = pc /\ left' \in [Processes -> 0 .. Calls]
          /\ UNCHANGED <<owner, listed, segments, exited>>
      BY <1>1, <2>1, CallMoves
    <2> QED BY <1>1, <2>2 DEF TypeInv, LocksTypeOK, Removes
  <1>2. SomeName \in Names
    BY LocksAssumption DEF SomeName
  <1>3. /\ PlaceOf("ordinary", "dir", NotFound, {})
        /\ PlaceOf("create", "dir", NotFound, {})
        /\ PlaceOf("disconnect", "list", NotFound, {})
        /\ PlaceOf("delete", "list", NotFound, {})
    BY DEF PlaceOf
  <1> QED BY <1>1, <1>2, <1>3 DEF Start

\* A mutex that is taken has an owner ...
LEMMA LockTypes ==
  ASSUME LocksTypeOK, NEW p \in Processes, NEW m \in Mutexes,
         lock(p, m) \/ owner' = owner
  PROVE  owner' \in [Mutexes -> Processes \union {Nobody}]
  BY DEF LocksTypeOK, lock

\* ... and one that is given back has nobody.
LEMMA UnlockTypes ==
  ASSUME LocksTypeOK, NEW ms, unlock(ms)
  PROVE  owner' \in [Mutexes -> Processes \union {Nobody}]
  BY DEF LocksTypeOK, unlock

\* The steps of createSharedSegment and of calls that are not about shared
\* segments.
LEMMA CreateStepTypeInv ==
  ASSUME TypeInv, NEW p \in Processes,
         \/ LockDirectory(p) \/ OrdinaryReturn(p) \/ Find(p) \/ LockList(p)
         \/ InsertSegment(p) \/ CreateReturn(p)
  PROVE  TypeInv'
  <1>0. LocksTypeOK /\ ListsTypeOK
    BY DEF TypeInv, LocksTypeOK, ListsTypeOK
  <1>1. CASE LockDirectory(p)
    <2>1. /\ At(p, "dir") /\ lock(p, mutex_pageDirectory(p))
          /\ UNCHANGED <<listed, segments, left, exited>>
      BY <1>1 DEF LockDirectory
    <2>2. ListsTypeOK'
      BY <1>0, <2>1, LockTypes, MutexesDiffer DEF ListsTypeOK
    <2>3. thread[p].call \in {"create", "ordinary"}
      BY <1>0, <2>1, AtPlace
    <2> QED BY <1>0, <1>1, <2>2, <2>3, LockDirectoryMoves, MovedTypeInv
  <1>2. CASE OrdinaryReturn(p) \/ CreateReturn(p)
    <2>1. /\ Return(p) /\ UNCHANGED <<listed, segments, left, exited>>
          /\ \E ms : unlock(ms)
      BY <1>2 DEF OrdinaryReturn, CreateReturn
    <2>2. ListsTypeOK'
      BY <1>0, <2>1, UnlockTypes DEF ListsTypeOK
    <2> QED BY <1>0, <2>1, <2>2, ReturnReturns, ReturnedTypeInv
  <1>3. CASE Find(p)
    <2>1. UNCHANGED <<owner, listed, segments, left, exited>>
      BY <1>3 DEF Find
    <2>2. ListsTypeOK'
      BY <1>0, <2>1 DEF ListsTypeOK
    <2> QED BY <1>0, <1>3, <2>2, FindMoves, MovedTypeInv
  <1>4. CASE LockList(p)
    <2> DEFINE c == IF thread[p].gss = NotFound THEN "insert" ELSE "return"
    <2>1. /\ At(p, "list") /\ thread[p].call = "create"
          /\ lock(p, mutex_listOfSharedSegments(p))
          /\ listed' = [listed EXCEPT ![p] = Append(@, thread[p].name)]
          /\ Goto(p, c)
          /\ UNCHANGED <<segments, left, exited>>
      BY <1>4 DEF LockList
    <2>2. /\ thread[p] # Idle /\ thread[p].name \in Names
          /\ PlaceOf(thread[p].call, c, thread[p].gss, thread[p].todo)
      BY <1>0, <2>1, AtPlace DEF PlaceOf
    <2>3. ListsTypeOK'
      BY <1>0, <2>1, <2>2, LockTypes, MutexesDiffer DEF ListsTypeOK
    <2> QED BY <1>0, <2>1, <2>2, <2>3, GotoMoves, MovedTypeInv
  <1>5. CASE InsertSegment(p)
    <2>1. /\ At(p, "insert")
          /\ segments' = Append(segments, [name |-> thread[p].name, pid |-> p])
          /\ Goto(p, "return")
          /\ UNCHANGED <<owner, listed, left, exited>>
      BY <1>5 DEF InsertSegment
    <2>2. /\ thread[p] # Idle /\ thread[p].name \in Names
          /\ PlaceOf(thread[p].call, "return", thread[p].gss, thread[p].todo)
      BY <1>0, <2>1, AtPlace DEF PlaceOf
    <2>3. [name |-> thread[p].name, pid |-> p] \in SharedSegment
      BY <2>2 DEF SharedSegment
    <2>4. ListsTypeOK'
      BY <1>0, <2>1, <2>3 DEF ListsTypeOK
    <2> QED BY <1>0, <2>1, <2>2, <2>4, GotoMoves, MovedTypeInv
  <1> QED BY <1>1, <1>2, <1>3, <1>4, <1>5

\* Taking a name off a list.
LEMMA RemovedTypes ==
  ASSUME LocksTypeOK, NEW p \in Processes, NEW name \in Names,
         removeListed(p, name)
  PROVE  listed' \in [Processes -> Seq(Names)]
  <1>1. RemoveFirst(listed[p], name) \in Seq(Names)
    BY RemoveFirstProperties DEF LocksTypeOK
  <1> QED BY <1>1 DEF LocksTypeOK, removeListed

\* The steps of disconnectSharedSegment and deleteSharedSegment.
LEMMA RemoveStepTypeInv ==
  ASSUME TypeInv, NEW p \in Processes,
         \/ LockOwnList(p) \/ FindGlobal(p) \/ LockKernel(p)
         \/ LockListOfNext(p) \/ DeleteOfNext(p) \/ UnlockKernel(p)
         \/ DeleteOwn(p)
  PROVE  TypeInv'
  <1>0. LocksTypeOK /\ ListsTypeOK
    BY DEF TypeInv, LocksTypeOK, ListsTypeOK
  <1>1. CASE LockOwnList(p)
    <2>1. /\ At(p, "list") /\ thread[p].call # "create"
          /\ UNCHANGED <<listed, segments, left, exited>>
          /\ \/ lock(p, mutex_listOfSharedSegments(p)) /\ Goto(p, "find")
             \/ Return(p) /\ owner' = owner
      BY <1>1 DEF LockOwnList
    <2>2. ListsTypeOK'
      BY <1>0, <2>1, LockTypes, MutexesDiffer DEF ListsTypeOK
    <2>3. /\ thread[p] # Idle
          /\ PlaceOf(thread[p].call, "find", thread[p].gss, thread[p].todo)
      BY <1>0, <2>1, AtPlace DEF PlaceOf
    <2> QED
      BY <1>0, <2>1, <2>2, <2>3, GotoMoves, ReturnReturns, MovedTypeInv,
         ReturnedTypeInv
  <1>2. CASE FindGlobal(p)
    <2>1. UNCHANGED <<owner, listed, segments, left>>
      BY <1>2 DEF FindGlobal
    <2>2. PICK gss : gss = getSharedSegment(thread[p].name)
      OBVIOUS
    <2>3. CASE exited' = TRUE /\ UNCHANGED thread
      BY <2>1, <2>3 DEF TypeInv, LocksTypeOK, Removes
    <2>4. ASSUME exited' = exited,
                 NEW c \in {"kernel", "own"}, NEW g,
                 Moved(p, c, g, thread[p].todo)
          PROVE  TypeInv'
      <3>1. ListsTypeOK'
        BY <1>0, <2>1, <2>4 DEF ListsTypeOK
      <3> QED BY <2>4, <3>1, MovedTypeInv
    <2> QED BY <1>0, <1>2, <2>2, <2>3, <2>4, FindGlobalMoves
  <1>3. CASE LockKernel(p)
    <2> DEFINE known == getSharedSegment(thread[p].name) # NotFound
    <2>1. /\ At(p, "kernel") /\ lock(p, KernelMutex)
          /\ segments' = RemoveFirst(segments, thread[p].gss)
          /\ thread' = [thread EXCEPT
               ![p].pc = "each",
               ![p].todo = IF known THEN Processes \ {p} ELSE {}]
          /\ UNCHANGED <<listed, left, exited>>
      BY <1>3 DEF LockKernel
    <2>2. PICK todo \in SUBSET Processes :
            todo = IF known THEN Processes \ {p} ELSE {}
      OBVIOUS
    <2>3. /\ thread[p] # Idle
          /\ PlaceOf(thread[p].call, "each", thread[p].gss, todo)
      BY <1>0, <2>1, AtPlace DEF PlaceOf
    <2>4. Moved(p, "each", thread[p].gss, todo)
      BY <1>0, <2>1, <2>2, <2>3, TodoMoves
    <2>5. segments' \in Seq(SharedSegment)
      BY <1>0, <2>1, RemoveFirstProperties DEF ListsTypeOK
    <2>6. ListsTypeOK'
      BY <1>0, <2>1, <2>5, LockTypes, MutexesDiffer DEF ListsTypeOK
    <2> QED BY <2>4, <2>6, MovedTypeInv
  <1>4. CASE LockListOfNext(p)
    <2>1. /\ At(p, "each") /\ thread[p].todo # {}
          /\ UNCHANGED <<listed, segments, left, exited>>
          /\ \/ /\ lock(p, mutex_listOfSharedSegments(Asked(p)))
                /\ Goto(p, "page")
             \/ /\ thread' = [thread EXCEPT ![p].todo = @ \ {Asked(p)}]
                /\ owner' = owner
      BY <1>4 DEF LockListOfNext
    <2>2. /\ thread[p] # Idle /\ Removes(p) /\ thread[p].pc = "each"
          /\ PlaceOf(thread[p].call, "page", thread[p].gss, thread[p].todo)
          /\ PlaceOf(thread[p].call, "each", thread[p].gss,
                     thread[p].todo \ {Asked(p)})
      BY <1>0, <2>1, AtPlace DEF PlaceOf, Removes
    <2>3. Asked(p) \in Processes
      BY <2>1, <2>2, AskedIsProcess
    <2>4. ListsTypeOK'
      BY <1>0, <2>1, <2>3, LockTypes, MutexesDiffer DEF ListsTypeOK
    <2>5. CASE Goto(p, "page")
      <3>1. Moved(p, "page", thread[p].gss, thread[p].todo)
        BY <1>0, <2>2, <2>5, GotoMoves
      <3> QED BY <2>1, <2>4, <3>1, MovedTypeInv
    <2>6. CASE thread' = [thread EXCEPT ![p].todo = @ \ {Asked(p)}]
      <3>1. thread' = [thread EXCEPT ![p].todo = thread[p].todo \ {Asked(p)}]
        BY <1>0, <2>6 DEF LocksTypeOK
      <3>2. Moved(p, "each", thread[p].gss, thread[p].todo \ {Asked(p)})
        BY <1>0, <2>2, <3>1, TodoMoves
      <3> QED BY <2>4, <3>2, MovedTypeInv
    <2> QED BY <2>1, <2>5, <2>6
  <1>5. CASE DeleteOfNext(p)
    <2>1. /\ At(p, "page") /\ thread[p].call # "ordinary"
          /\ removeListed(Asked(p), thread[p].name)
          /\ unlock({mutex_listOfSharedSegments(Asked(p))})
          /\ thread' = [thread EXCEPT ![p].pc = "each",
                                      ![p].todo = @ \ {Asked(p)}]
          /\ UNCHANGED <<segments, left, exited>>
      BY <1>5 DEF DeleteOfNext
    <2>2. /\ thread[p] # Idle /\ Removes(p) /\ thread[p].name \in Names
          /\ thread[p].pc = "page"
          /\ PlaceOf(thread[p].call, "each", thread[p].gss,
                     thread[p].todo \ {Asked(p)})
      BY <1>0, <2>1, AtPlace DEF PlaceOf, Removes
    <2>3. Asked(p) \in Processes
      BY <2>1, <2>2, AskedIsProcess DEF TypeInv
    <2>4. ListsTypeOK'
      BY <1>0, <2>1, <2>2, <2>3, UnlockTypes, RemovedTypes DEF ListsTypeOK
    <2>5. thread' = [thread EXCEPT ![p].pc = "each",
                       ![p].todo = thread[p].todo \ {Asked(p)}]
      BY <1>0, <2>1 DEF LocksTypeOK
    <2>6. Moved(p, "each", thread[p].gss, thread[p].todo \ {Asked(p)})
      BY <1>0, <2>2, <2>5, TodoMoves
    <2> QED BY <2>4, <2>6, MovedTypeInv
  <1>6. CASE UnlockKernel(p)
    <2>1. /\ At(p, "each") /\ unlock({KernelMutex}) /\ Goto(p, "own")
          /\ UNCHANGED <<listed, segments, left, exited>>
      BY <1>6 DEF UnlockKernel
    <2>2. /\ thread[p] # Idle
          /\ PlaceOf(thread[p].call, "own", thread[p].gss, thread[p].todo)
      BY <1>0, <2>1, AtPlace DEF PlaceOf
    <2>3. ListsTypeOK'
      BY <1>0, <2>1, UnlockTypes DEF ListsTypeOK
    <2> QED BY <1>0, <2>1, <2>2, <2>3, GotoMoves, MovedTypeInv
  <1>7. CASE DeleteOwn(p)
    <2>1. /\ At(p, "own") /\ removeListed(p, thread[p].name) /\ Return(p)
          /\ unlock({mutex_listOfSharedSegments(p)})
          /\ UNCHANGED <<segments, left, exited>>
      BY <1>7 DEF DeleteOwn
    <2>2. thread[p].name \in Names
      BY <1>0, <2>1, AtPlace
    <2>3. ListsTypeOK'
      BY <1>0, <2>1, <2>2, UnlockTypes, RemovedTypes DEF ListsTypeOK
    <2> QED BY <1>0, <2>1, <2>3, ReturnReturns, ReturnedTypeInv
  <1> QED BY <1>1, <1>2, <1>3, <1>4, <1>5, <1>6, <1>7

\* At the start no thread is in a call.
LEMMA InitLocksTypeInv == LocksInit => TypeInv
  <1> SUFFICES ASSUME LocksInit PROVE TypeInv
    OBVIOUS
  <1>1. LocksTypeOK
    <2>1. /\ owner \in [Mutexes -> Processes \union {Nobody}]
          /\ thread \in [Processes -> Thread \union {Idle}]
          /\ left \in [Processes -> 0 .. Calls]
      BY LocksAssumption DEF LocksInit
    <2>2. listed \in [Processes -> Seq(Names)] /\ segments \in Seq(SharedSegment)
      BY DEF LocksInit
    <2>3. exited \in BOOLEAN
      BY DEF LocksInit
    <2> QED BY <2>1, <2>2, <2>3 DEF LocksTypeOK
  <1> QED BY <1>1 DEF LocksInit, TypeInv, Removes

\* Every step keeps the types.
LEMMA NextLocksTypeInv == TypeInv /\ [LocksNext]_lockVars => TypeInv'
  <1> SUFFICES ASSUME TypeInv, [LocksNext]_lockVars PROVE TypeInv'
    OBVIOUS
  <1>1. CASE UNCHANGED lockVars
    BY <1>1 DEF lockVars, TypeInv, LocksTypeOK, Removes
  <1>2. ASSUME NEW p \in Processes, Start(p) \/ Step(p) PROVE TypeInv'
    BY <1>2, StartTypeInv, CreateStepTypeInv, RemoveStepTypeInv DEF Step
  <1> QED BY <1>1, <1>2 DEF LocksNext

\* Every program: the variables have their types, whatever the threads do.
THEOREM LocksTypeCorrect == LocksSpec => []LocksTypeOK
  <1>1. TypeInv => LocksTypeOK
    BY DEF TypeInv
  <1> QED BY <1>1, InitLocksTypeInv, NextLocksTypeInv, PTL DEF LocksSpec

-----------------------------------------------------------------------------
(* Who holds a mutex *)

\* What the thread of p holds where it is.
Holds(p, m) ==
  \/ /\ m = mutex_pageDirectory(p)
     /\ thread[p] # Idle /\ thread[p].call \in {"create", "ordinary"}
     /\ thread[p].pc # "dir"
  \/ /\ m = mutex_listOfSharedSegments(p)
     /\ \/ Creates(p) /\ thread[p].pc \in {"insert", "return"}
        \/ Removes(p) /\ thread[p].pc # "list"
  \/ /\ m = KernelMutex
     /\ Removes(p) /\ thread[p].pc \in {"each", "page"}
  \/ /\ m = mutex_listOfSharedSegments(Asked(p))
     /\ Removes(p) /\ thread[p].pc = "page"

\* A mutex is held by the thread whose place says so, and by nobody else; the
\* kernel does not ask the process that is removing the segment.
OwnerInv == \A m \in Mutexes, p \in Processes : owner[m] = p <=> Holds(p, m)

OthersAsked ==
  \A p \in Processes : thread[p] # Idle => p \notin thread[p].todo

HeldInv == OwnerInv /\ OthersAsked

\* A step of one thread moves no other.
LEMMA OthersHold ==
  ASSUME NEW p \in Processes,
         \A q \in Processes \ {p} : thread'[q] = thread[q],
         NEW q \in Processes \ {p}, NEW m
  PROVE  Holds(q, m)' <=> Holds(q, m)
  BY DEF Holds, Creates, Removes, Asked

\* A mutex that was free is now held by the thread that took it.
LEMMA TakenHeld ==
  ASSUME LocksTypeOK, OwnerInv, NEW p \in Processes, NEW taken \in Mutexes,
         lock(p, taken),
         \A q \in Processes \ {p} : thread'[q] = thread[q],
         \A m \in Mutexes : Holds(p, m)' <=> Holds(p, m) \/ m = taken
  PROVE  OwnerInv'
  <1> SUFFICES ASSUME NEW m \in Mutexes, NEW q \in Processes
               PROVE  (owner[m] = q)' <=> Holds(q, m)'
    BY DEF OwnerInv
  <1>1. owner'[m] = IF m = taken THEN p ELSE owner[m]
    BY DEF lock, LocksTypeOK
  <1>2. owner[taken] \notin Processes
    BY LocksAssumption DEF lock, Free, Nobody, Processes
  <1>3. owner[m] = q <=> Holds(q, m)
    BY DEF OwnerInv
  <1>4. CASE q = p
    BY <1>1, <1>3, <1>4
  <1>5. CASE q # p
    BY <1>1, <1>2, <1>3, <1>5, OthersHold
  <1> QED BY <1>4, <1>5

\* Mutexes that are given back are held by nobody.
LEMMA GivenBack ==
  ASSUME LocksTypeOK, OwnerInv, NEW p \in Processes, NEW ms, unlock(ms),
         \A m \in Mutexes : m \in ms => Holds(p, m),
         \A q \in Processes \ {p} : thread'[q] = thread[q],
         \A m \in Mutexes : Holds(p, m)' <=> Holds(p, m) /\ m \notin ms
  PROVE  OwnerInv'
  <1> SUFFICES ASSUME NEW m \in Mutexes, NEW q \in Processes
               PROVE  (owner[m] = q)' <=> Holds(q, m)'
    BY DEF OwnerInv
  <1>1. owner'[m] = IF m \in ms THEN Nobody ELSE owner[m]
    BY DEF unlock
  <1>2. Nobody # q
    BY LocksAssumption DEF Nobody, Processes
  <1>3. (owner[m] = q <=> Holds(q, m)) /\ (owner[m] = p <=> Holds(p, m))
    BY DEF OwnerInv
  <1>4. CASE q = p
    BY <1>1, <1>2, <1>3, <1>4
  <1>5. CASE q # p
    BY <1>1, <1>2, <1>3, <1>5, OthersHold
  <1> QED BY <1>4, <1>5

\* A step that neither takes nor gives back keeps what is held.
LEMMA OwnersKept ==
  ASSUME OwnerInv, NEW p \in Processes, owner' = owner,
         \A q \in Processes \ {p} : thread'[q] = thread[q],
         \A m \in Mutexes : Holds(p, m)' <=> Holds(p, m)
  PROVE  OwnerInv'
  BY OthersHold DEF OwnerInv

\* The list of processes still to ask only gets shorter.
LEMMA MovedOthers ==
  ASSUME OthersAsked, NEW p \in Processes, NEW c, NEW gss, NEW todo,
         Moved(p, c, gss, todo), p \notin todo
  PROVE  OthersAsked'
  BY DEF OthersAsked, Moved

\* A thread that returns asks for nothing of others.
LEMMA ReturnedOthers ==
  ASSUME OthersAsked, NEW p \in Processes, Returned(p)
  PROVE  OthersAsked'
  BY DEF OthersAsked, Returned

\* A thread that begins a call holds nothing yet.
LEMMA StartHeld ==
  ASSUME TypeInv, HeldInv, NEW p \in Processes, Start(p)
  PROVE  HeldInv'
  <1>0. LocksTypeOK
    BY DEF TypeInv
  <1>1. ASSUME NEW pc, NEW call, NEW name \in Names,
               \/ call \in {"create", "ordinary"} /\ pc = "dir"
               \/ call \in {"disconnect", "delete"} /\ pc = "list",
               PlaceOf(call, pc, NotFound, {}), Call(p, pc, call, name)
        PROVE  HeldInv'
    <2>1. /\ thread[p] = Idle
          /\ \A q \in Processes \ {p} : thread'[q] = thread[q]
          /\ thread'[p].pc = pc /\ thread'[p].call = call
          /\ thread'[p].todo = {}
          /\ owner' = owner
      BY <1>0, <1>1, CallMoves
    <2>2. \A m \in Mutexes : Holds(p, m)' <=> Holds(p, m)
      BY <1>1, <2>1 DEF Holds, Creates, Removes
    <2>3. OwnerInv'
      BY <2>1, <2>2, OwnersKept DEF HeldInv
    <2> QED BY <2>1, <2>3 DEF HeldInv, OthersAsked
  <1>2. SomeName \in Names
    BY LocksAssumption DEF SomeName
  <1>3. /\ PlaceOf("ordinary", "dir", NotFound, {})
        /\ PlaceOf("create", "dir", NotFound, {})
        /\ PlaceOf("disconnect", "list", NotFound, {})
        /\ PlaceOf("delete", "list", NotFound, {})
    BY DEF PlaceOf
  <1> QED BY <1>1, <1>2, <1>3 DEF Start

\* The steps of createSharedSegment keep what is said of the owners.
LEMMA CreateStepHeld ==
  ASSUME TypeInv, HeldInv, NEW p \in Processes,
         \/ LockDirectory(p) \/ OrdinaryReturn(p) \/ Find(p) \/ LockList(p)
         \/ InsertSegment(p) \/ CreateReturn(p)
  PROVE  HeldInv'
  <1>0. LocksTypeOK /\ OwnerInv /\ OthersAsked
    BY DEF TypeInv, HeldInv
  <1>1. CASE LockDirectory(p)
    <2>1. PICK c : c = IF thread[p].call = "create" THEN "find" ELSE "page"
      OBVIOUS
    <2>2. /\ At(p, "dir") /\ lock(p, mutex_pageDirectory(p))
          /\ Moved(p, c, thread[p].gss, thread[p].todo)
      BY <1>0, <1>1, <2>1, LockDirectoryMoves DEF LockDirectory
    <2>3. /\ thread[p] # Idle /\ thread[p].pc = "dir"
          /\ thread[p].call \in {"create", "ordinary"}
      BY <1>0, <2>2, AtPlace
    <2>4. \A m \in Mutexes :
            Holds(p, m)' <=> Holds(p, m) \/ m = mutex_pageDirectory(p)
      BY <2>1, <2>2, <2>3 DEF Holds, Creates, Removes, Moved
    <2>5. OwnerInv'
      BY <1>0, <2>2, <2>4, TakenHeld, MutexesDiffer DEF Moved
    <2> QED BY <1>0, <2>2, <2>3, <2>5, MovedOthers DEF HeldInv, OthersAsked
  <1>2. CASE OrdinaryReturn(p)
    <2>1. /\ At(p, "page") /\ thread[p].call = "ordinary"
          /\ unlock({mutex_pageDirectory(p)}) /\ Returned(p)
      BY <1>0, <1>2, ReturnReturns DEF OrdinaryReturn
    <2>2. thread[p] # Idle /\ thread[p].pc = "page"
      BY <1>0, <2>1, AtPlace
    <2>3. \A m \in Mutexes : /\ Holds(p, m) <=> m = mutex_pageDirectory(p)
                             /\ ~Holds(p, m)'
      BY <2>1, <2>2 DEF Holds, Creates, Removes, Returned
    <2>4. OwnerInv'
      BY <1>0, <2>1, <2>3, GivenBack DEF Returned
    <2> QED BY <1>0, <2>1, <2>4, ReturnedOthers DEF HeldInv
  <1>3. CASE Find(p)
    <2>1. PICK gss : gss = getSharedSegment(thread[p].name)
      OBVIOUS
    <2>2. /\ At(p, "find") /\ thread[p].call = "create" /\ owner' = owner
          /\ Moved(p, "list", gss, thread[p].todo)
      BY <1>0, <1>3, <2>1, FindMoves DEF Find
    <2>3. thread[p] # Idle /\ thread[p].pc = "find"
      BY <1>0, <2>2, AtPlace
    <2>4. \A m \in Mutexes : Holds(p, m)' <=> Holds(p, m)
      BY <2>2, <2>3 DEF Holds, Creates, Removes, Moved
    <2>5. OwnerInv'
      BY <1>0, <2>2, <2>4, OwnersKept DEF Moved
    <2> QED BY <1>0, <2>2, <2>3, <2>5, MovedOthers DEF HeldInv, OthersAsked
  <1>4. CASE LockList(p)
    <2>1. PICK c \in {"insert", "return"} :
            c = IF thread[p].gss = NotFound THEN "insert" ELSE "return"
      OBVIOUS
    <2>2. /\ At(p, "list") /\ thread[p].call = "create"
          /\ lock(p, mutex_listOfSharedSegments(p)) /\ Goto(p, c)
      BY <1>4, <2>1 DEF LockList
    <2>3. /\ thread[p] # Idle /\ thread[p].pc = "list"
          /\ PlaceOf(thread[p].call, c, thread[p].gss, thread[p].todo)
      BY <1>0, <2>2, AtPlace DEF PlaceOf
    <2>4. Moved(p, c, thread[p].gss, thread[p].todo)
      BY <1>0, <2>2, <2>3, GotoMoves
    <2>5. \A m \in Mutexes :
            Holds(p, m)' <=> Holds(p, m) \/ m = mutex_listOfSharedSegments(p)
      BY <2>1, <2>2, <2>3, <2>4 DEF Holds, Creates, Removes, Moved
    <2>6. OwnerInv'
      BY <1>0, <2>2, <2>4, <2>5, TakenHeld, MutexesDiffer DEF Moved
    <2> QED BY <1>0, <2>3, <2>4, <2>6, MovedOthers DEF HeldInv, OthersAsked
  <1>5. CASE InsertSegment(p)
    <2>1. At(p, "insert") /\ Goto(p, "return") /\ owner' = owner
      BY <1>5 DEF InsertSegment
    <2>2. /\ thread[p] # Idle /\ thread[p].pc = "insert"
          /\ thread[p].call = "create"
          /\ PlaceOf(thread[p].call, "return", thread[p].gss, thread[p].todo)
      BY <1>0, <2>1, AtPlace DEF PlaceOf
    <2>3. Moved(p, "return", thread[p].gss, thread[p].todo)
      BY <1>0, <2>1, <2>2, GotoMoves
    <2>4. \A m \in Mutexes : Holds(p, m)' <=> Holds(p, m)
      BY <2>2, <2>3 DEF Holds, Creates, Removes, Moved
    <2>5. OwnerInv'
      BY <1>0, <2>1, <2>3, <2>4, OwnersKept DEF Moved
    <2> QED BY <1>0, <2>2, <2>3, <2>5, MovedOthers DEF HeldInv, OthersAsked
  <1>6. CASE CreateReturn(p)
    <2> DEFINE ms == {mutex_pageDirectory(p), mutex_listOfSharedSegments(p)}
    <2>1. At(p, "return") /\ unlock(ms) /\ Returned(p)
      BY <1>0, <1>6, ReturnReturns DEF CreateReturn
    <2>2. /\ thread[p] # Idle /\ thread[p].pc = "return"
          /\ thread[p].call = "create"
      BY <1>0, <2>1, AtPlace
    <2>3. \A m \in Mutexes : (Holds(p, m) <=> m \in ms) /\ ~Holds(p, m)'
      BY <2>1, <2>2 DEF Holds, Creates, Removes, Returned
    <2>4. OwnerInv'
      <3> HIDE DEF ms
      <3> QED BY <1>0, <2>1, <2>3, GivenBack DEF Returned
    <2> QED BY <1>0, <2>1, <2>4, ReturnedOthers DEF HeldInv
  <1> QED BY <1>1, <1>2, <1>3, <1>4, <1>5, <1>6

\* So do those of a removal.
LEMMA RemoveStepHeld ==
  ASSUME TypeInv, HeldInv, NEW p \in Processes,
         \/ LockOwnList(p) \/ FindGlobal(p) \/ LockKernel(p)
         \/ LockListOfNext(p) \/ DeleteOfNext(p) \/ UnlockKernel(p)
         \/ DeleteOwn(p)
  PROVE  HeldInv'
  <1>0. LocksTypeOK /\ OwnerInv /\ OthersAsked
    BY DEF TypeInv, HeldInv
  <1>1. CASE LockOwnList(p)
    <2>1. At(p, "list") /\ thread[p].call # "create"
      BY <1>1 DEF LockOwnList
    <2>2. /\ thread[p] # Idle /\ thread[p].pc = "list" /\ Removes(p)
          /\ PlaceOf(thread[p].call, "find", thread[p].gss, thread[p].todo)
      BY <1>0, <2>1, AtPlace DEF PlaceOf, Removes
    <2>3. CASE lock(p, mutex_listOfSharedSegments(p)) /\ Goto(p, "find")
      <3>1. Moved(p, "find", thread[p].gss, thread[p].todo)
        BY <1>0, <2>2, <2>3, GotoMoves
      <3>2. \A m \in Mutexes :
              Holds(p, m)' <=> Holds(p, m) \/ m = mutex_listOfSharedSegments(p)
        BY <2>2, <3>1 DEF Holds, Creates, Removes, Moved
      <3>3. OwnerInv'
        BY <1>0, <2>3, <3>1, <3>2, TakenHeld, MutexesDiffer DEF Moved
      <3> QED BY <1>0, <2>2, <3>1, <3>3, MovedOthers DEF HeldInv, OthersAsked
    <2>4. CASE Return(p) /\ owner' = owner
      <3>1. Returned(p)
        BY <1>0, <2>4, ReturnReturns
      <3>2. \A m \in Mutexes : ~Holds(p, m)' /\ ~Holds(p, m)
        BY <2>2, <3>1 DEF Holds, Creates, Removes, Returned
      <3>3. OwnerInv'
        BY <1>0, <2>4, <3>1, <3>2, OwnersKept DEF Returned
      <3> QED BY <1>0, <3>1, <3>3, ReturnedOthers DEF HeldInv
    <2> QED BY <1>1, <2>3, <2>4 DEF LockOwnList
  <1>2. CASE FindGlobal(p)
    <2>1. At(p, "find") /\ thread[p].call # "create" /\ owner' = owner
      BY <1>2 DEF FindGlobal
    <2>2. thread[p] # Idle /\ thread[p].pc = "find" /\ Removes(p)
      BY <1>0, <2>1, AtPlace DEF Removes
    <2>3. PICK gss : gss = getSharedSegment(thread[p].name)
      OBVIOUS
    <2>4. CASE UNCHANGED thread
      BY <1>0, <2>1, <2>4
         DEF HeldInv, OwnerInv, OthersAsked, Holds, Creates, Removes, Asked
    <2>5. ASSUME NEW c \in {"kernel", "own"}, NEW g,
                 Moved(p, c, g, thread[p].todo)
          PROVE  HeldInv'
      <3>1. \A m \in Mutexes : Holds(p, m)' <=> Holds(p, m)
        BY <2>2, <2>5 DEF Holds, Creates, Removes, Moved
      <3>2. OwnerInv'
        BY <1>0, <2>1, <2>5, <3>1, OwnersKept DEF Moved
      <3> QED BY <1>0, <2>2, <2>5, <3>2, MovedOthers DEF HeldInv, OthersAsked
    <2> QED BY <1>0, <1>2, <2>3, <2>4, <2>5, FindGlobalMoves
  <1>3. CASE LockKernel(p)
    <2> DEFINE known == getSharedSegment(thread[p].name) # NotFound
    <2>1. /\ At(p, "kernel") /\ lock(p, KernelMutex)
          /\ thread' = [thread EXCEPT
               ![p].pc = "each",
               ![p].todo = IF known THEN Processes \ {p} ELSE {}]
      BY <1>3 DEF LockKernel
    <2>2. PICK todo \in SUBSET (Processes \ {p}) :
            todo = IF known THEN Processes \ {p} ELSE {}
      OBVIOUS
    <2>3. /\ thread[p] # Idle /\ thread[p].pc = "kernel" /\ Removes(p)
          /\ PlaceOf(thread[p].call, "each", thread[p].gss, todo)
      BY <1>0, <2>1, AtPlace DEF PlaceOf, Removes
    <2>4. Moved(p, "each", thread[p].gss, todo)
      BY <1>0, <2>1, <2>2, <2>3, TodoMoves
    <2>5. \A m \in Mutexes : Holds(p, m)' <=> Holds(p, m) \/ m = KernelMutex
      BY <2>3, <2>4 DEF Holds, Creates, Removes, Moved
    <2>6. OwnerInv'
      BY <1>0, <2>1, <2>4, <2>5, TakenHeld, MutexesDiffer DEF Moved
    <2> QED BY <1>0, <2>2, <2>4, <2>6, MovedOthers DEF HeldInv
  <1>4. CASE LockListOfNext(p)
    <2>1. /\ At(p, "each") /\ thread[p].todo # {}
          /\ \/ /\ lock(p, mutex_listOfSharedSegments(Asked(p)))
                /\ Goto(p, "page")
             \/ /\ thread' = [thread EXCEPT ![p].todo = @ \ {Asked(p)}]
                /\ owner' = owner
      BY <1>4 DEF LockListOfNext
    <2>2. /\ thread[p] # Idle /\ Removes(p) /\ thread[p].pc = "each"
          /\ PlaceOf(thread[p].call, "page", thread[p].gss, thread[p].todo)
          /\ PlaceOf(thread[p].call, "each", thread[p].gss,
                     thread[p].todo \ {Asked(p)})
      BY <1>0, <2>1, AtPlace DEF PlaceOf, Removes
    <2>3. Asked(p) \in Processes /\ p \notin thread[p].todo
      BY <1>0, <2>1, <2>2, AskedIsProcess DEF OthersAsked
    <2>5. CASE /\ lock(p, mutex_listOfSharedSegments(Asked(p)))
               /\ Goto(p, "page")
      <3>1. Moved(p, "page", thread[p].gss, thread[p].todo)
        BY <1>0, <2>2, <2>5, GotoMoves
      <3>2. \A m \in Mutexes : Holds(p, m)' <=>
              Holds(p, m) \/ m = mutex_listOfSharedSegments(Asked(p))
        BY <2>2, <3>1 DEF Holds, Creates, Removes, Asked, Moved
      <3>3. OwnerInv'
        BY <1>0, <2>3, <2>5, <3>1, <3>2, TakenHeld, MutexesDiffer DEF Moved
      <3> QED BY <1>0, <2>3, <3>1, <3>3, MovedOthers DEF HeldInv
    <2>6. CASE /\ thread' = [thread EXCEPT ![p].todo = @ \ {Asked(p)}]
               /\ owner' = owner
      <3>1. thread' = [thread EXCEPT ![p].todo = thread[p].todo \ {Asked(p)}]
        BY <1>0, <2>6 DEF LocksTypeOK
      <3>2. Moved(p, "each", thread[p].gss, thread[p].todo \ {Asked(p)})
        BY <1>0, <2>2, <3>1, TodoMoves
      <3>3. \A m \in Mutexes : Holds(p, m)' <=> Holds(p, m)
        BY <2>2, <3>2 DEF Holds, Creates, Removes, Moved
      <3>4. OwnerInv'
        BY <1>0, <2>6, <3>2, <3>3, OwnersKept DEF Moved
      <3> QED BY <1>0, <2>3, <3>2, <3>4, MovedOthers DEF HeldInv
    <2> QED BY <2>1, <2>5, <2>6
  <1>5. CASE DeleteOfNext(p)
    <2>1. /\ At(p, "page") /\ thread[p].call # "ordinary"
          /\ unlock({mutex_listOfSharedSegments(Asked(p))})
          /\ thread' = [thread EXCEPT ![p].pc = "each",
                                      ![p].todo = @ \ {Asked(p)}]
      BY <1>5 DEF DeleteOfNext
    <2>2. /\ thread[p] # Idle /\ Removes(p) /\ thread[p].pc = "page"
          /\ PlaceOf(thread[p].call, "each", thread[p].gss,
                     thread[p].todo \ {Asked(p)})
      BY <1>0, <2>1, AtPlace DEF PlaceOf, Removes
    <2>3. /\ Asked(p) \in Processes /\ Asked(p) # p
          /\ p \notin thread[p].todo
      BY <1>0, <2>2, AskedIsProcess DEF OthersAsked, TypeInv
    <2>4. thread' = [thread EXCEPT ![p].pc = "each",
                       ![p].todo = thread[p].todo \ {Asked(p)}]
      BY <1>0, <2>1 DEF LocksTypeOK
    <2>5. Moved(p, "each", thread[p].gss, thread[p].todo \ {Asked(p)})
      BY <1>0, <2>2, <2>4, TodoMoves
    <2>6. /\ \A m \in Mutexes : Holds(p, m)' <=>
               Holds(p, m) /\ m # mutex_listOfSharedSegments(Asked(p))
          /\ Holds(p, mutex_listOfSharedSegments(Asked(p)))
      BY <2>2, <2>3, <2>5, MutexesDiffer DEF Holds, Creates, Removes, Moved
    <2>7. OwnerInv'
      BY <1>0, <2>1, <2>5, <2>6, GivenBack DEF Moved
    <2> QED BY <1>0, <2>3, <2>5, <2>7, MovedOthers DEF HeldInv
  <1>6. CASE UnlockKernel(p)
    <2>1. At(p, "each") /\ unlock({KernelMutex}) /\ Goto(p, "own")
      BY <1>6 DEF UnlockKernel
    <2>2. /\ thread[p] # Idle /\ thread[p].pc = "each" /\ Removes(p)
          /\ PlaceOf(thread[p].call, "own", thread[p].gss, thread[p].todo)
      BY <1>0, <2>1, AtPlace DEF PlaceOf, Removes
    <2>3. Moved(p, "own", thread[p].gss, thread[p].todo)
      BY <1>0, <2>1, <2>2, GotoMoves
    <2>4. /\ \A m \in Mutexes : Holds(p, m)' <=> Holds(p, m) /\ m # KernelMutex
          /\ Holds(p, KernelMutex)
      BY <2>2, <2>3, MutexesDiffer DEF Holds, Creates, Removes, Moved
    <2>5. OwnerInv'
      BY <1>0, <2>1, <2>3, <2>4, GivenBack DEF Moved
    <2> QED BY <1>0, <2>2, <2>3, <2>5, MovedOthers DEF HeldInv, OthersAsked
  <1>7. CASE DeleteOwn(p)
    <2>1. /\ At(p, "own") /\ unlock({mutex_listOfSharedSegments(p)})
          /\ Returned(p)
      BY <1>0, <1>7, ReturnReturns DEF DeleteOwn
    <2>2. thread[p] # Idle /\ thread[p].pc = "own" /\ Removes(p)
      BY <1>0, <2>1, AtPlace DEF Removes
    <2>3. \A m \in Mutexes :
            (Holds(p, m) <=> m = mutex_listOfSharedSegments(p)) /\ ~Holds(p, m)'
      BY <2>1, <2>2 DEF Holds, Creates, Removes, Returned
    <2>4. OwnerInv'
      BY <1>0, <2>1, <2>3, GivenBack DEF Returned
    <2> QED BY <1>0, <2>1, <2>4, ReturnedOthers DEF HeldInv
  <1> QED BY <1>1, <1>2, <1>3, <1>4, <1>5, <1>6, <1>7

\* At the start nobody holds anything.
LEMMA InitHeld == LocksInit => HeldInv
  <1> SUFFICES ASSUME LocksInit PROVE HeldInv
    OBVIOUS
  <1>1. \A p \in Processes : thread[p] = Idle
    BY DEF LocksInit
  <1>2. \A m \in Mutexes, p \in Processes : owner[m] # p
    BY LocksAssumption DEF LocksInit, Nobody, Processes
  <1> QED BY <1>1, <1>2
          DEF HeldInv, OwnerInv, OthersAsked, Holds, Creates, Removes

\* Every step keeps what is said of the owners.
LEMMA NextHeld == TypeInv /\ HeldInv /\ [LocksNext]_lockVars => HeldInv'
  <1> SUFFICES ASSUME TypeInv, HeldInv, [LocksNext]_lockVars PROVE HeldInv'
    OBVIOUS
  <1>1. CASE UNCHANGED lockVars
    BY <1>1 DEF lockVars, HeldInv, OwnerInv, OthersAsked, Holds, Creates,
                Removes, Asked
  <1>2. ASSUME NEW p \in Processes, Start(p) \/ Step(p) PROVE HeldInv'
    BY <1>2, StartHeld, CreateStepHeld, RemoveStepHeld DEF Step
  <1> QED BY <1>1, <1>2 DEF LocksNext

\* Every program: a mutex is held by the one thread that is
\* between taking it and giving it back, so a thread inside one of these calls
\* has the process's directory or list to itself (KernelProcess.cpp:592-1025).
THEOREM LocksHeld == LocksSpec => []OwnerInv
  <1>1. HeldInv => OwnerInv
    BY DEF HeldInv
  <1> QED BY <1>1, InitLocksTypeInv, NextLocksTypeInv, InitHeld, NextHeld, PTL
          DEF LocksSpec

-----------------------------------------------------------------------------
(* Who waits for whom *)

\* A thread that holds what another one waits for, or that other one, is at work
\* in the kernel.
LEMMA WaitsAtKernel ==
  ASSUME TypeInv, HeldInv
  PROVE  WaitsMeetTheKernel
  <1> SUFFICES ASSUME NEW p \in Processes, NEW q \in Processes, NEW m \in Mutexes,
                      thread[p] # Idle, WaitsFor(p, m), owner[m] = q
               PROVE  p # q /\ owner[KernelMutex] \in {p, q}
    BY DEF WaitsMeetTheKernel
  <1>0. LocksTypeOK /\ OwnerInv /\ OthersAsked
    BY DEF TypeInv, HeldInv
  <1>1. Holds(q, m)
    BY <1>0 DEF OwnerInv
  <1>2. /\ PlaceOf(thread[p].call, thread[p].pc, thread[p].gss, thread[p].todo)
        /\ thread[p].pc # "idle"
    BY <1>0, ThreadFields
  <1>3. \A r \in Processes :
          Removes(r) /\ thread[r].pc \in {"each", "page"} =>
            owner[KernelMutex] = r
    BY <1>0, MutexesDiffer DEF OwnerInv, Holds
  <1>4. Removes(q) /\ thread[q].pc = "page" =>
          Asked(q) \in Processes /\ Asked(q) # q
    <2> SUFFICES ASSUME Removes(q), thread[q].pc = "page"
                 PROVE  Asked(q) \in Processes /\ Asked(q) # q
      OBVIOUS
    <2>1. thread[q].todo # {} /\ thread[q] # Idle
      BY DEF TypeInv, Removes
    <2>2. Asked(q) \in thread[q].todo /\ Asked(q) \in Processes
      BY <2>1, AskedIsProcess
    <2> QED BY <1>0, <2>1, <2>2 DEF OthersAsked
  <1>5. CASE thread[p].pc \in {"dir", "own"}
    <2>1. m = mutex_pageDirectory(p)
      BY <1>5 DEF WaitsFor
    <2>2. q = p /\ thread[q].pc # "dir" /\ ~Removes(q)
      BY <1>1, <1>4, <2>1, MutexesDiffer DEF Holds, Removes
    <2>3. thread[p].pc = "own" => Removes(p)
      BY <1>2 DEF Removes, PlaceOf
    <2> QED BY <1>5, <2>2, <2>3
  <1>6. CASE thread[p].pc = "list"
    <2>1. m = mutex_listOfSharedSegments(p)
      BY <1>6 DEF WaitsFor
    <2>2. ~Holds(p, m)
      BY <1>0, <1>6, <2>1, AskedIsProcess, MutexesDiffer
         DEF Holds, Creates
    <2>3. q # p
      BY <1>1, <2>2
    <2>4. Removes(q) /\ thread[q].pc = "page"
      BY <1>1, <2>1, <2>3, MutexesDiffer DEF Holds
    <2> QED BY <1>3, <2>3, <2>4
  <1>7. CASE thread[p].pc \in {"insert", "kernel"}
    <2>1. m = KernelMutex
      BY <1>7 DEF WaitsFor
    <2>2. Removes(q) /\ thread[q].pc \in {"each", "page"}
      BY <1>1, <1>4, <2>1, MutexesDiffer DEF Holds
    <2> QED BY <1>3, <1>7, <2>2
  <1>8. CASE thread[p].pc = "each"
    <2>1. /\ m = mutex_listOfSharedSegments(Asked(p)) /\ Removes(p)
          /\ thread[p].todo # {}
      BY <1>2, <1>8 DEF WaitsFor, Removes, PlaceOf
    <2>2. Asked(p) \in Processes /\ Asked(p) # p
      BY <1>0, <1>8, <2>1, AskedIsProcess DEF OthersAsked
    <2>3. ~Holds(p, m)
      BY <1>8, <2>1, <2>2, MutexesDiffer DEF Holds, Removes, Creates
    <2> QED BY <1>1, <1>3, <1>8, <2>1, <2>3
  <1>9. CASE thread[p].pc = "page"
    <2>1. m = mutex_pageDirectory(Asked(p)) /\ Removes(p)
      BY <1>2, <1>9 DEF WaitsFor, Removes, PlaceOf
    <2>2. Asked(p) \in Processes /\ Asked(p) # p
      BY <1>0, <1>9, <2>1, AskedIsProcess DEF OthersAsked, TypeInv
    <2>3. ~Holds(p, m)
      BY <1>9, <2>1, <2>2, MutexesDiffer DEF Holds, Removes
    <2> QED BY <1>1, <1>3, <1>9, <2>1, <2>3
  <1> QED BY <1>5, <1>6, <1>7, <1>8, <1>9 DEF WaitsFor

\* For any number of processes, names and calls: of two threads one of which
\* waits for the other, one is deleting a segment in the kernel with the kernel's
\* mutex (KernelSystem.cpp:291-311), so a deadlock always is between such a
\* removal and threads it meets (KernelProcess.cpp:594, 959, 989), and calls that
\* create or attach never deadlock among themselves.
THEOREM WaitsOnlyAtKernel == LocksSpec => []WaitsMeetTheKernel
  <1>1. TypeInv /\ HeldInv => WaitsMeetTheKernel
    BY WaitsAtKernel
  <1> QED BY <1>1, InitLocksTypeInv, NextLocksTypeInv, InitHeld, NextHeld, PTL
          DEF LocksSpec

-----------------------------------------------------------------------------
(* One segment of a name and a creator *)

\* The record that a thread that has found nothing is about to insert.
Entry(p) == [name |-> thread[p].name, pid |-> p]

\* p has found no segment of the name and has yet to insert its own.
Pending(p) ==
  /\ Creates(p) /\ thread[p].pc \in {"list", "insert"}
  /\ thread[p].gss = NotFound

PendingInv ==
  \A p \in Processes :
    /\ Creates(p) /\ thread[p].pc = "insert" => thread[p].gss = NotFound
    /\ Pending(p) => ~Contains(segments, Entry(p))

CreatorInv == OneSegmentPerCreator /\ PendingInv

\* A thread that does not touch the kernel's list and has looked for its own.
LEMMA MovedCreator ==
  ASSUME CreatorInv, NEW p \in Processes, NEW c, NEW gss, NEW todo,
         thread[p] # Idle, Moved(p, c, gss, todo), segments' = segments,
         Creates(p) /\ c = "insert" => gss = NotFound,
         Creates(p) /\ c \in {"list", "insert"} /\ gss = NotFound =>
           ~Contains(segments, Entry(p))
  PROVE  CreatorInv'
  <1>1. OneSegmentPerCreator'
    BY DEF CreatorInv, OneSegmentPerCreator
  <1>2. /\ \A q \in Processes \ {p} : thread'[q] = thread[q]
        /\ Creates(p)' <=> Creates(p)
        /\ thread'[p].pc = c /\ thread'[p].gss = gss
        /\ thread'[p].name = thread[p].name
    BY DEF Moved, Creates
  <1>3. PendingInv'
    BY <1>2 DEF CreatorInv, PendingInv, Pending, Entry, Creates, Contains
  <1> QED BY <1>1, <1>3 DEF CreatorInv

\* A thread that returns has nothing to insert.
LEMMA ReturnedCreator ==
  ASSUME CreatorInv, NEW p \in Processes, Returned(p), segments' = segments
  PROVE  CreatorInv'
  <1>1. OneSegmentPerCreator'
    BY DEF CreatorInv, OneSegmentPerCreator
  <1>2. PendingInv'
    BY DEF CreatorInv, PendingInv, Pending, Entry, Creates, Contains, Returned
  <1> QED BY <1>1, <1>2 DEF CreatorInv

\* A thread that begins a call has not looked anything up.
LEMMA StartCreator ==
  ASSUME TypeInv, CreatorInv, NEW p \in Processes, Start(p)
  PROVE  CreatorInv'
  <1>0. LocksTypeOK
    BY DEF TypeInv
  <1>1. ASSUME NEW pc, NEW call, NEW name \in Names,
               \/ call \in {"create", "ordinary"} /\ pc = "dir"
               \/ call \in {"disconnect", "delete"} /\ pc = "list",
               PlaceOf(call, pc, NotFound, {}), Call(p, pc, call, name)
        PROVE  CreatorInv'
    <2>1. /\ \A q \in Processes \ {p} : thread'[q] = thread[q]
          /\ thread'[p].pc = pc /\ thread'[p].call = call
          /\ segments' = segments
      BY <1>0, <1>1, CallMoves
    <2>2. OneSegmentPerCreator'
      BY <2>1 DEF CreatorInv, OneSegmentPerCreator
    <2>3. PendingInv'
      BY <1>1, <2>1 DEF CreatorInv, PendingInv, Pending, Entry, Creates, Contains
    <2> QED BY <2>2, <2>3 DEF CreatorInv
  <1>2. SomeName \in Names
    BY LocksAssumption DEF SomeName
  <1>3. /\ PlaceOf("ordinary", "dir", NotFound, {})
        /\ PlaceOf("create", "dir", NotFound, {})
        /\ PlaceOf("disconnect", "list", NotFound, {})
        /\ PlaceOf("delete", "list", NotFound, {})
    BY DEF PlaceOf
  <1> QED BY <1>1, <1>2, <1>3 DEF Start

\* createSharedSegment inserts what it has not found, and nobody else inserts a
\* segment in its name.
LEMMA CreateStepCreator ==
  ASSUME TypeInv, CreatorInv, NEW p \in Processes,
         \/ LockDirectory(p) \/ OrdinaryReturn(p) \/ Find(p) \/ LockList(p)
         \/ InsertSegment(p) \/ CreateReturn(p)
  PROVE  CreatorInv'
  <1>0. LocksTypeOK
    BY DEF TypeInv
  <1>1. CASE LockDirectory(p)
    <2>1. PICK c \in {"find", "page"} :
            c = IF thread[p].call = "create" THEN "find" ELSE "page"
      OBVIOUS
    <2>2. /\ At(p, "dir") /\ segments' = segments
          /\ Moved(p, c, thread[p].gss, thread[p].todo)
      BY <1>0, <1>1, <2>1, LockDirectoryMoves DEF LockDirectory
    <2>3. thread[p] # Idle
      BY <1>0, <2>2, AtPlace
    <2> QED BY <2>1, <2>2, <2>3, MovedCreator
  <1>2. CASE OrdinaryReturn(p)
    <2>1. Return(p) /\ segments' = segments
      BY <1>2 DEF OrdinaryReturn
    <2> QED BY <1>0, <2>1, ReturnReturns, ReturnedCreator
  <1>3. CASE Find(p)
    <2>1. At(p, "find") /\ segments' = segments
      BY <1>3 DEF Find
    <2>2. thread[p] # Idle /\ thread[p].name \in Names
      BY <1>0, <2>1, AtPlace
    <2>3. PICK gss : gss = getSharedSegment(thread[p].name)
      OBVIOUS
    <2>4. Moved(p, "list", gss, thread[p].todo)
      BY <1>0, <1>3, <2>3, FindMoves
    <2>5. gss = NotFound => ~Contains(segments, Entry(p))
      <3>1. gss = NotFound => ~Known(thread[p].name)
        BY <1>0, <2>2, <2>3, Lookup
      <3>2. DOMAIN segments = 1 .. Len(segments)
        BY <1>0 DEF LocksTypeOK
      <3>3. Entry(p).name = thread[p].name
        BY DEF Entry
      <3> QED BY <3>1, <3>2, <3>3 DEF Known, Contains
    <2> QED BY <2>1, <2>2, <2>4, <2>5, MovedCreator
  <1>4. CASE LockList(p)
    <2>1. PICK c \in {"insert", "return"} :
            c = IF thread[p].gss = NotFound THEN "insert" ELSE "return"
      OBVIOUS
    <2>2. /\ At(p, "list") /\ thread[p].call = "create" /\ Goto(p, c)
          /\ segments' = segments
      BY <1>4, <2>1 DEF LockList
    <2>3. /\ thread[p] # Idle /\ thread[p].pc = "list"
          /\ PlaceOf(thread[p].call, c, thread[p].gss, thread[p].todo)
      BY <1>0, <2>2, AtPlace DEF PlaceOf
    <2>4. Moved(p, c, thread[p].gss, thread[p].todo)
      BY <1>0, <2>2, <2>3, GotoMoves
    <2>5. thread[p].gss = NotFound => ~Contains(segments, Entry(p))
      BY <2>2, <2>3 DEF CreatorInv, PendingInv, Pending, Creates
    <2> QED BY <2>1, <2>2, <2>3, <2>4, <2>5, MovedCreator
  <1>5. CASE InsertSegment(p)
    <2>1. PICK ss : ss = Entry(p)
      OBVIOUS
    <2>2. /\ At(p, "insert") /\ Goto(p, "return")
          /\ segments' = Append(segments, ss)
      BY <1>5, <2>1 DEF InsertSegment, Entry
    <2>3. /\ thread[p] # Idle /\ thread[p].pc = "insert" /\ Creates(p)
          /\ thread[p].name \in Names
          /\ PlaceOf(thread[p].call, "return", thread[p].gss, thread[p].todo)
      BY <1>0, <2>2, AtPlace DEF PlaceOf, Creates
    <2>4. Moved(p, "return", thread[p].gss, thread[p].todo)
      BY <1>0, <2>2, <2>3, GotoMoves
    <2>5. ss \in SharedSegment /\ ~Contains(segments, ss)
      BY <2>1, <2>3 DEF SharedSegment, Entry, CreatorInv, PendingInv, Pending
    <2>6. /\ \A x : Contains(segments', x) <=> Contains(segments, x) \/ x = ss
          /\ DOMAIN segments = 1 .. Len(segments)
          /\ DOMAIN segments' = 1 .. Len(segments) + 1
          /\ \A i \in 1 .. Len(segments) : segments'[i] = segments[i]
          /\ segments'[Len(segments) + 1] = ss
          /\ Len(segments) \in Nat
      <3>1. segments \in Seq(SharedSegment)
        BY <1>0 DEF LocksTypeOK
      <3> QED BY <2>2, <2>5, <3>1, AppendContains
    <2>7. OneSegmentPerCreator'
      <3> SUFFICES ASSUME NEW i \in DOMAIN segments', NEW j \in DOMAIN segments',
                          segments'[i] = segments'[j]
                   PROVE  i = j
        BY DEF OneSegmentPerCreator
      <3>1. \A k \in 1 .. Len(segments) : segments[k] # ss
        BY <2>5 DEF Contains
      <3>2. CASE i \in 1 .. Len(segments) /\ j \in 1 .. Len(segments)
        BY <2>6, <3>2 DEF CreatorInv, OneSegmentPerCreator
      <3>3. CASE i \notin 1 .. Len(segments) \/ j \notin 1 .. Len(segments)
        BY <2>6, <3>1, <3>3
      <3> QED BY <3>2, <3>3
    <2>8. PendingInv'
      <3> SUFFICES ASSUME NEW q \in Processes
                   PROVE  /\ (Creates(q) /\ thread[q].pc = "insert" =>
                                thread[q].gss = NotFound)'
                          /\ Pending(q)' => ~Contains(segments', Entry(q)')
        BY DEF PendingInv
      <3>1. CASE q = p
        BY <2>4, <3>1 DEF Moved, Pending
      <3>2. CASE q # p
        <4>1. thread'[q] = thread[q]
          BY <2>4, <3>2 DEF Moved
        <4>2. Entry(q).pid # Entry(p).pid
          BY <3>2 DEF Entry
        <4> QED BY <2>1, <2>6, <4>1, <4>2
                DEF CreatorInv, PendingInv, Pending, Creates, Entry
      <3> QED BY <3>1, <3>2
    <2> QED BY <2>7, <2>8 DEF CreatorInv
  <1>6. CASE CreateReturn(p)
    <2>1. Return(p) /\ segments' = segments
      BY <1>6 DEF CreateReturn
    <2> QED BY <1>0, <2>1, ReturnReturns, ReturnedCreator
  <1> QED BY <1>1, <1>2, <1>3, <1>4, <1>5, <1>6

\* A removal only takes records out of the kernel's list.
LEMMA RemoveStepCreator ==
  ASSUME TypeInv, CreatorInv, NEW p \in Processes,
         \/ LockOwnList(p) \/ FindGlobal(p) \/ LockKernel(p)
         \/ LockListOfNext(p) \/ DeleteOfNext(p) \/ UnlockKernel(p)
         \/ DeleteOwn(p)
  PROVE  CreatorInv'
  <1>0. LocksTypeOK
    BY DEF TypeInv
  <1>1. CASE LockOwnList(p)
    <2>1. /\ At(p, "list") /\ thread[p].call # "create" /\ segments' = segments
          /\ Goto(p, "find") \/ Return(p)
      BY <1>1 DEF LockOwnList
    <2>2. /\ thread[p] # Idle /\ ~Creates(p)
          /\ PlaceOf(thread[p].call, "find", thread[p].gss, thread[p].todo)
      BY <1>0, <2>1, AtPlace DEF PlaceOf, Creates
    <2> QED
      BY <1>0, <2>1, <2>2, GotoMoves, ReturnReturns, MovedCreator, ReturnedCreator
  <1>2. CASE FindGlobal(p)
    <2>1. /\ At(p, "find") /\ thread[p].call # "create" /\ segments' = segments
      BY <1>2 DEF FindGlobal
    <2>2. thread[p] # Idle /\ ~Creates(p)
      BY <1>0, <2>1, AtPlace DEF Creates
    <2>3. PICK gss : gss = getSharedSegment(thread[p].name)
      OBVIOUS
    <2>4. CASE UNCHANGED thread
      BY <2>1, <2>4 DEF CreatorInv, OneSegmentPerCreator, PendingInv, Pending,
                        Creates, Entry, Contains
    <2>5. ASSUME NEW c, NEW g, Moved(p, c, g, thread[p].todo)
          PROVE  CreatorInv'
      BY <2>1, <2>2, <2>5, MovedCreator
    <2> QED BY <1>0, <1>2, <2>3, <2>4, <2>5, FindGlobalMoves
  <1>3. CASE LockKernel(p)
    <2> DEFINE known == getSharedSegment(thread[p].name) # NotFound
    <2>1. /\ At(p, "kernel")
          /\ segments' = RemoveFirst(segments, thread[p].gss)
          /\ thread' = [thread EXCEPT
               ![p].pc = "each",
               ![p].todo = IF known THEN Processes \ {p} ELSE {}]
      BY <1>3 DEF LockKernel
    <2>2. PICK todo \in SUBSET (Processes \ {p}) :
            todo = IF known THEN Processes \ {p} ELSE {}
      OBVIOUS
    <2>3. /\ thread[p] # Idle /\ Removes(p)
          /\ PlaceOf(thread[p].call, "each", thread[p].gss, todo)
      BY <1>0, <2>1, AtPlace DEF PlaceOf, Removes
    <2>4. Moved(p, "each", thread[p].gss, todo)
      BY <1>0, <2>1, <2>2, <2>3, TodoMoves
    <2>5. /\ \A x : Contains(segments', x) => Contains(segments, x)
          /\ \A i, j \in DOMAIN segments' : i # j =>
               \E x, y \in DOMAIN segments :
                 x # y /\ segments'[i] = segments[x] /\ segments'[j] = segments[y]
      BY <1>0, <2>1, RemoveFirstProperties DEF LocksTypeOK
    <2>6. OneSegmentPerCreator'
      BY <2>5 DEF CreatorInv, OneSegmentPerCreator
    <2>7. /\ \A q \in Processes \ {p} : thread'[q] = thread[q]
          /\ ~Creates(p)'
      BY <2>3, <2>4 DEF Moved, Creates, Removes
    <2>8. PendingInv'
      <3> SUFFICES ASSUME NEW q \in Processes
                   PROVE  /\ (Creates(q) /\ thread[q].pc = "insert" =>
                                thread[q].gss = NotFound)'
                          /\ Pending(q)' => ~Contains(segments', Entry(q)')
        BY DEF PendingInv
      <3>1. CASE q = p
        BY <2>7, <3>1 DEF Pending
      <3>2. CASE q # p
        BY <2>5, <2>7, <3>2
           DEF CreatorInv, PendingInv, Pending, Creates, Entry
      <3> QED BY <3>1, <3>2
    <2> QED BY <2>6, <2>8 DEF CreatorInv
  <1>4. CASE LockListOfNext(p) \/ DeleteOfNext(p) \/ UnlockKernel(p)
    <2>1. /\ \/ At(p, "each")
             \/ At(p, "page") /\ thread[p].call # "ordinary"
          /\ segments' = segments
          /\ \/ Goto(p, "page") /\ At(p, "each")
             \/ Goto(p, "own")
             \/ /\ thread' = [thread EXCEPT ![p].todo = @ \ {Asked(p)}]
                /\ At(p, "each")
             \/ thread' = [thread EXCEPT ![p].pc = "each",
                                         ![p].todo = @ \ {Asked(p)}]
      BY <1>4 DEF LockListOfNext, DeleteOfNext, UnlockKernel
    <2>2. /\ thread[p] # Idle /\ Removes(p) /\ ~Creates(p)
          /\ At(p, "each") => thread[p].pc = "each"
          /\ PlaceOf(thread[p].call, "page", thread[p].gss, thread[p].todo)
          /\ PlaceOf(thread[p].call, "own", thread[p].gss, thread[p].todo)
          /\ PlaceOf(thread[p].call, "each", thread[p].gss,
                     thread[p].todo \ {Asked(p)})
      BY <1>0, <2>1, AtPlace DEF PlaceOf, Removes, Creates
    <2>3. CASE Goto(p, "page") \/ Goto(p, "own")
      BY <1>0, <2>1, <2>2, <2>3, GotoMoves, MovedCreator
    <2>4. CASE \/ /\ thread' = [thread EXCEPT ![p].todo = @ \ {Asked(p)}]
                  /\ At(p, "each")
               \/ thread' = [thread EXCEPT ![p].pc = "each",
                                           ![p].todo = @ \ {Asked(p)}]
      <3>1. \/ /\ At(p, "each")
               /\ thread' = [thread EXCEPT
                                ![p].todo = thread[p].todo \ {Asked(p)}]
            \/ thread' = [thread EXCEPT ![p].pc = "each",
                            ![p].todo = thread[p].todo \ {Asked(p)}]
        BY <1>0, <2>4 DEF LocksTypeOK
      <3>2. Moved(p, "each", thread[p].gss, thread[p].todo \ {Asked(p)})
        BY <1>0, <2>2, <3>1, TodoMoves
      <3> QED BY <2>1, <2>2, <3>2, MovedCreator
    <2> QED BY <2>1, <2>3, <2>4
  <1>5. CASE DeleteOwn(p)
    <2>1. Return(p) /\ segments' = segments
      BY <1>5 DEF DeleteOwn
    <2> QED BY <1>0, <2>1, ReturnReturns, ReturnedCreator
  <1> QED BY <1>1, <1>2, <1>3, <1>4, <1>5

\* At the start no call is in progress and no segment known.
LEMMA InitCreator == LocksInit => CreatorInv
  <1> SUFFICES ASSUME LocksInit PROVE CreatorInv
    OBVIOUS
  <1>1. DOMAIN segments = {} /\ \A p \in Processes : thread[p] = Idle
    BY DEF LocksInit
  <1> QED BY <1>1 DEF CreatorInv, OneSegmentPerCreator, PendingInv, Pending,
                      Creates

\* Every step keeps one record of a name and a creator.
LEMMA NextCreator == TypeInv /\ CreatorInv /\ [LocksNext]_lockVars => CreatorInv'
  <1> SUFFICES ASSUME TypeInv, CreatorInv, [LocksNext]_lockVars
               PROVE  CreatorInv'
    OBVIOUS
  <1>1. CASE UNCHANGED lockVars
    BY <1>1 DEF lockVars, CreatorInv, OneSegmentPerCreator, PendingInv, Pending,
                Creates, Entry, Contains
  <1>2. ASSUME NEW p \in Processes, Start(p) \/ Step(p) PROVE CreatorInv'
    BY <1>2, StartCreator, CreateStepCreator, RemoveStepCreator DEF Step
  <1> QED BY <1>1, <1>2 DEF LocksNext

\* Every program, in every order of its calls: the kernel's list never holds two
\* records of a name and a creator, although the list is searched without its
\* mutex and first creators race (KernelProcess.cpp:596, 961).
THEOREM LocksOneSegmentPerCreator == LocksSpec => []OneSegmentPerCreator
  <1>1. CreatorInv => OneSegmentPerCreator
    BY DEF CreatorInv
  <1> QED BY <1>1, InitLocksTypeInv, NextLocksTypeInv, InitCreator, NextCreator,
             PTL DEF LocksSpec

=============================================================================
