------------------------- MODULE SharedSegmentLocks -------------------------
(***************************************************************************)
(* The shared-segment calls of concurrent threads, one per process, and    *)
(* the mutexes they take: mutex_pageDirectory and mutex_listOfSharedSegments *)
(* of every process and mutex_listOfSharedSegments of the kernel.          *)
(* createSharedSegment takes a process's directory, then its list, then    *)
(* the kernel's list; a removal takes a list, the kernel's list, and then  *)
(* list and directory of every other process, before its own directory.    *)
(* Pages do not appear here (SharedSegments has them); the mutexes that    *)
(* are released before anything else is asked for (frame table, disk table,*)
(* pmtSpace, list of processes) cannot block anybody and are left out.     *)
(***************************************************************************)
EXTENDS Naturals, Sequences, FiniteSets, SequencesExt

CONSTANTS
  MaxProcesses,  \* bound: the number of processes, which neither come nor go
  Names,         \* names of shared segments, compared as pointers
  Calls          \* bound: the calls a thread makes before it ends

ASSUME LocksAssumption ==
  /\ MaxProcesses \in Nat
  /\ Names # {}
  /\ Calls \in Nat

Processes == 0 .. MaxProcesses - 1

mutex_pageDirectory(p)        == <<"pageDirectory", p>>
mutex_listOfSharedSegments(p) == <<"listOfSharedSegments", p>>
KernelMutex                   == <<"listOfSharedSegments">>

Mutexes == {KernelMutex} \union
  {mutex_pageDirectory(p) : p \in Processes} \union
  {mutex_listOfSharedSegments(p) : p \in Processes}

Nobody == MaxProcesses

VARIABLES
  owner,     \* mutex -> the process whose thread holds it, or Nobody
  thread,    \* process -> what its thread is doing
  listed,    \* process -> the names in its listOfSharedSegments
  segments,  \* the kernel's list: name and creator
  left,      \* process -> calls its thread has yet to make
  exited     \* has a thread called exit(1)?

lockVars == <<owner, thread, listed, segments, left, exited>>

SharedSegment == [name: Names, pid: Processes]

\* What getSharedSegment returns when it finds nothing.
NotFound == [pid |-> Nobody]

Idle == [pc |-> "idle"]

\* "gss" is the record found in the kernel's list, "todo" the processes the
\* kernel has still to ask.
CreatingThread ==
  [pc: {"dir", "find", "list", "insert", "return"}, call: {"create"},
   name: Names, gss: SharedSegment \union {NotFound}, todo: {{}}]

RemovingThread ==
  [pc: {"list", "find", "kernel", "each", "page", "own"},
   call: {"disconnect", "delete"}, name: Names,
   gss: SharedSegment \union {NotFound}, todo: SUBSET Processes]

OrdinaryThread ==
  [pc: {"dir", "page"}, call: {"ordinary"},
   name: Names, gss: {NotFound}, todo: {{}}]

Thread == CreatingThread \union RemovingThread \union OrdinaryThread

LocksTypeOK ==
  /\ owner \in [Mutexes -> Processes \union {Nobody}]
  /\ thread \in [Processes -> Thread \union {Idle}]
  /\ listed \in [Processes -> Seq(Names)]
  /\ segments \in Seq(SharedSegment)
  /\ left \in [Processes -> 0 .. Calls]
  /\ exited \in BOOLEAN

LocksInit ==
  /\ owner = [m \in Mutexes |-> Nobody]
  /\ thread = [p \in Processes |-> Idle]
  /\ listed = [p \in Processes |-> <<>>]
  /\ segments = <<>>
  /\ left = [p \in Processes |-> Calls]
  /\ exited = FALSE

-----------------------------------------------------------------------------
(* Mutexes and lists *)

Free(m) == owner[m] = Nobody

lock(p, m) == Free(m) /\ owner' = [owner EXCEPT ![m] = p]

unlock(ms) == owner' = [m \in Mutexes |-> IF m \in ms THEN Nobody ELSE owner[m]]

At(p, pc) == ~exited /\ thread[p].pc = pc

Goto(p, pc) == thread' = [thread EXCEPT ![p].pc = pc]

Return(p) == thread' = [thread EXCEPT ![p] = Idle]

has(p, name) == Contains(listed[p], name)

\* list::remove of the record with this name that is met first.
removeListed(p, name) ==
  listed' = [listed EXCEPT ![p] = RemoveFirst(@, name)]

\* getSharedSegment reads the kernel's list without its mutex.
getSharedSegment(name) ==
  LET i == SelectInSeq(segments, LAMBDA ss : ss.name = name)
  IN  IF i = 0 THEN NotFound ELSE segments[i]

-----------------------------------------------------------------------------
(* The calls *)

Call(p, pc, call, name) ==
  /\ ~exited
  /\ thread[p] = Idle
  /\ left[p] > 0
  /\ left' = [left EXCEPT ![p] = @ - 1]
  /\ thread' = [thread EXCEPT ![p] =
       [pc |-> pc, call |-> call, name |-> name, gss |-> NotFound,
        todo |-> {}]]
  /\ UNCHANGED <<owner, listed, segments, exited>>

\* Any other call of a process works under mutex_pageDirectory and returns; the
\* name says nothing then.
SomeName == CHOOSE name \in Names : TRUE

Start(p) ==
  \/ Call(p, "dir", "ordinary", SomeName)
  \/ \E name \in Names : Call(p, "dir", "create", name)
  \/ \E name \in Names, call \in {"disconnect", "delete"} :
       Call(p, "list", call, name)

LockDirectory(p) ==
  /\ At(p, "dir")
  /\ lock(p, mutex_pageDirectory(p))
  /\ Goto(p, IF thread[p].call = "create" THEN "find" ELSE "page")
  /\ UNCHANGED <<listed, segments, left, exited>>

OrdinaryReturn(p) ==
  /\ At(p, "page")
  /\ thread[p].call = "ordinary"
  /\ unlock({mutex_pageDirectory(p)})
  /\ Return(p)
  /\ UNCHANGED <<listed, segments, left, exited>>

\* Mutant of Find: the segment is created whether it exists or not.
FindNot(p) ==
  /\ At(p, "find")
  /\ thread[p].call = "create"
  /\ Goto(p, "list")
  /\ UNCHANGED <<owner, listed, segments, left, exited>>

\* createSharedSegment: is the name known?
Find(p) ==
  /\ At(p, "find")
  /\ thread[p].call = "create"
  /\ thread' = [thread EXCEPT ![p].pc = "list",
                              ![p].gss = getSharedSegment(thread[p].name)]
  /\ UNCHANGED <<owner, listed, segments, left, exited>>

\* The pages have been created or attached; the process lists the segment.
LockList(p) ==
  /\ At(p, "list")
  /\ thread[p].call = "create"
  /\ lock(p, mutex_listOfSharedSegments(p))
  /\ listed' = [listed EXCEPT ![p] = Append(@, thread[p].name)]
  /\ Goto(p, IF thread[p].gss = NotFound THEN "insert" ELSE "return")
  /\ UNCHANGED <<segments, left, exited>>

\* Mutant of InsertSegment: the creator is taken from the segment looked up.
InsertSegmentOfNobody(p) ==
  /\ At(p, "insert")
  /\ Free(KernelMutex)
  /\ segments' = Append(segments, [name |-> thread[p].name,
                                   pid |-> thread[p].gss.pid])
  /\ Goto(p, "return")
  /\ UNCHANGED <<owner, listed, left, exited>>

\* insertSharedSegment
InsertSegment(p) ==
  /\ At(p, "insert")
  /\ Free(KernelMutex)
  /\ segments' = Append(segments, [name |-> thread[p].name, pid |-> p])
  /\ Goto(p, "return")
  /\ UNCHANGED <<owner, listed, left, exited>>

\* Mutant of CreateReturn: the list is not given back.
CreateReturnListed(p) ==
  /\ At(p, "return")
  /\ unlock({mutex_pageDirectory(p)})
  /\ Return(p)
  /\ UNCHANGED <<listed, segments, left, exited>>

CreateReturn(p) ==
  /\ At(p, "return")
  /\ unlock({mutex_pageDirectory(p), mutex_listOfSharedSegments(p)})
  /\ Return(p)
  /\ UNCHANGED <<listed, segments, left, exited>>

\* disconnectSharedSegment and deleteSharedSegment: is the name listed?
LockOwnList(p) ==
  /\ At(p, "list")
  /\ thread[p].call # "create"
  /\ \/ /\ has(p, thread[p].name)
        /\ lock(p, mutex_listOfSharedSegments(p))
        /\ Goto(p, "find")
     \/ /\ ~has(p, thread[p].name)
        /\ Free(mutex_listOfSharedSegments(p))
        /\ Return(p)
        /\ UNCHANGED owner
  /\ UNCHANGED <<listed, segments, left, exited>>

\* Does the kernel know it?  Deleting, and disconnecting by the creator, go
\* through the kernel; a segment to disconnect has to be known.
FindGlobal(p) ==
  LET gss == getSharedSegment(thread[p].name)
  IN  /\ At(p, "find")
      /\ thread[p].call # "create"
      /\ \/ /\ gss = NotFound /\ thread[p].call = "disconnect"
            /\ exited' = TRUE
            /\ UNCHANGED thread
         \/ /\ gss = NotFound /\ thread[p].call = "delete"
            /\ Goto(p, "own")
            /\ UNCHANGED exited
         \/ /\ gss # NotFound
            /\ thread' = [thread EXCEPT
                 ![p].pc = IF thread[p].call = "delete" \/ gss.pid = p
                           THEN "kernel" ELSE "own",
                 ![p].gss = gss]
            /\ UNCHANGED exited
      /\ UNCHANGED <<owner, listed, segments, left>>

\* KernelSystem::deleteSharedSegment: the segment leaves the kernel's list; if
\* somebody else has deleted it meanwhile, the kernel asks nobody.  A process
\* is the creator of at most one listed segment of a name.
LockKernel(p) ==
  LET known == getSharedSegment(thread[p].name) # NotFound
  IN  /\ At(p, "kernel")
      /\ lock(p, KernelMutex)
      /\ segments' = RemoveFirst(segments, thread[p].gss)
      /\ thread' = [thread EXCEPT
           ![p].pc = "each",
           ![p].todo = IF known THEN Processes \ {p} ELSE {}]
      /\ UNCHANGED <<listed, left, exited>>

\* The process the kernel asks next.
Asked(p) == Min(thread[p].todo)

\* deleteSharedSegmentSystem of one process after the other
LockListOfNext(p) ==
  LET q == Asked(p)
  IN  /\ At(p, "each")
      /\ thread[p].todo # {}
      /\ \/ /\ has(q, thread[p].name)
            /\ lock(p, mutex_listOfSharedSegments(q))
            /\ Goto(p, "page")
         \/ /\ ~has(q, thread[p].name)
            /\ Free(mutex_listOfSharedSegments(q))
            /\ thread' = [thread EXCEPT ![p].todo = @ \ {q}]
            /\ UNCHANGED owner
      /\ UNCHANGED <<listed, segments, left, exited>>

\* deleteSegment works under the other's mutex_pageDirectory.
DeleteOfNext(p) ==
  LET q == Asked(p)
  IN  /\ At(p, "page")
      /\ thread[p].call # "ordinary"
      /\ Free(mutex_pageDirectory(q))
      /\ removeListed(q, thread[p].name)
      /\ unlock({mutex_listOfSharedSegments(q)})
      /\ thread' = [thread EXCEPT ![p].pc = "each", ![p].todo = @ \ {q}]
      /\ UNCHANGED <<segments, left, exited>>

UnlockKernel(p) ==
  /\ At(p, "each")
  /\ thread[p].todo = {}
  /\ unlock({KernelMutex})
  /\ Goto(p, "own")
  /\ UNCHANGED <<listed, segments, left, exited>>

DeleteOwn(p) ==
  /\ At(p, "own")
  /\ Free(mutex_pageDirectory(p))
  /\ removeListed(p, thread[p].name)
  /\ unlock({mutex_listOfSharedSegments(p)})
  /\ Return(p)
  /\ UNCHANGED <<segments, left, exited>>

-----------------------------------------------------------------------------
Step(p) ==
  \/ LockDirectory(p) \/ OrdinaryReturn(p)
  \/ Find(p) \/ LockList(p) \/ InsertSegment(p) \/ CreateReturn(p)
  \/ LockOwnList(p) \/ FindGlobal(p) \/ LockKernel(p)
  \/ LockListOfNext(p) \/ DeleteOfNext(p) \/ UnlockKernel(p)
  \/ DeleteOwn(p)

Done == exited \/ \A p \in Processes : thread[p] = Idle /\ left[p] = 0

LocksNext ==
  \/ \E p \in Processes : Start(p) \/ Step(p)
  \/ Done /\ UNCHANGED lockVars

\* A thread inside a call runs when it can; whether it makes another one is up
\* to the program.
LocksFairness == \A p \in Processes : WF_lockVars(Step(p))

LocksSpec == LocksInit /\ [][LocksNext]_lockVars /\ LocksFairness

-----------------------------------------------------------------------------
(* Whom the mutexes make wait *)

\* The mutex the next step of a thread has to find free.
WaitsFor(p, m) ==
  \/ thread[p].pc = "dir" /\ m = mutex_pageDirectory(p)
  \/ thread[p].pc = "list" /\ m = mutex_listOfSharedSegments(p)
  \/ thread[p].pc \in {"insert", "kernel"} /\ m = KernelMutex
  \/ /\ thread[p].pc = "each" /\ thread[p].todo # {}
     /\ m = mutex_listOfSharedSegments(Asked(p))
  \/ /\ thread[p].pc = "page" /\ thread[p].call # "ordinary"
     /\ m = mutex_pageDirectory(Asked(p))
  \/ thread[p].pc = "own" /\ m = mutex_pageDirectory(p)

\* Whenever a thread waits for another one, one of the two is deleting a segment
\* in the kernel (KernelSystem.cpp:291-311) with the kernel's mutex in its hands:
\* calls that are not there yet, or that create or attach, never block each
\* other, and every circle of waiting threads is the one of two threads that
\* KernelProcess.cpp:594/959/989 allows.
WaitsMeetTheKernel ==
  \A p, q \in Processes, m \in Mutexes :
    thread[p] # Idle /\ WaitsFor(p, m) /\ owner[m] = q =>
      p # q /\ owner[KernelMutex] \in {p, q}

\* All calls in progress come to their end, unless a removal keeps the kernel's
\* mutex for ever: nothing else that threads do at the same time makes one of
\* them wait for good, and what a call has taken it gives back.
StuckBehindKernel ==
  (\E p \in Processes : thread[p] # Idle) ~>
    \/ exited \/ \A p \in Processes : thread[p] = Idle
    \/ [](owner[KernelMutex] # Nobody)

\* Two first creators of a name may both enter their segment, but none enters it
\* twice, so a name and a creator are one segment, and list::remove
\* (KernelSystem.cpp:293) takes the one that was looked up.
OneSegmentPerCreator ==
  \A i, j \in DOMAIN segments : segments[i] = segments[j] => i = j

-----------------------------------------------------------------------------
(* What does not hold: see the configurations of MCSharedSegmentLocks. *)

\* A name stands for one segment (KernelProcess.cpp:596, "Try to find the
\* existing shared segment if it exists and use it, otherwise create it").
OneSegmentPerName ==
  \A i, j \in DOMAIN segments :
    segments[i].name = segments[j].name => i = j

NoSharedCall ==
  \A p \in Processes : thread[p] # Idle => thread[p].call = "ordinary"

\* While no shared-segment call is in progress, whoever lists a segment finds
\* it in the kernel's list, so that disconnecting never ends the program, and
\* the creator of every segment the kernel knows lists it.
ListedIsKnown ==
  NoSharedCall =>
    /\ \A p \in Processes, name \in Names :
         has(p, name) => getSharedSegment(name) # NotFound
    /\ \A i \in DOMAIN segments : has(segments[i].pid, segments[i].name)

\* Deleting through the kernel reaches everybody (KernelSystem.cpp:303, "Go
\* through all processes and delete shared segments").
DeletedEverywhere ==
  \A p \in Processes : thread[p].pc = "kernel" ~> thread[p] = Idle \/ exited
=============================================================================
