------------------------- MODULE ProcessTestProofs -------------------------
(***************************************************************************)
(* Proofs about the test program, for every number of segments, addresses, *)
(* values and rounds.  The invariant relates the copy and the memory       *)
(* across the accesses that are drawn and still to be executed: the copy   *)
(* is ahead of the memory by exactly those.                                *)
(***************************************************************************)
EXTENDS ProcessTest, TLAPS

\* The i-th pending access is a write to a, or a read of a.
WriteAt(i, a) == batch[i].type = "WRITE" /\ batch[i].address = a
ReadAt(i, a)  == batch[i].type # "WRITE" /\ batch[i].address = a

\* No pending access of lo .. hi writes a.
Unwritten(a, lo, hi) == \A m \in lo .. hi : ~WriteAt(m, a)

\* Where nothing is pending the copy is the memory, if it counts.
CopyNow ==
  \A a \in Addresses :
    Unwritten(a, 1, Len(batch)) /\ dirty[a] => copy[a] = memory[a]

\* The copy holds the last value pending.
CopyAhead ==
  \A a \in Addresses, i \in 1 .. Len(batch) :
    WriteAt(i, a) /\ Unwritten(a, i + 1, Len(batch)) => copy[a] = batch[i].value

\* A read expects what the write before it stores.
ReadAhead ==
  \A a \in Addresses, i \in 1 .. Len(batch) : \A k \in 1 .. i - 1 :
    ReadAt(i, a) /\ WriteAt(k, a) /\ Unwritten(a, k + 1, i - 1) =>
      batch[k].value = batch[i].value

\* A read with no write before it expects what the memory holds.
ReadNow ==
  \A a \in Addresses, i \in 1 .. Len(batch) :
    ReadAt(i, a) /\ Unwritten(a, 1, i - 1) /\ dirty[a] =>
      memory[a] = batch[i].value

\* The program stops at the read whose assertion failed.
StoppedAtRead ==
  pc = "abort" =>
    batch # <<>> /\ Head(batch).type # "WRITE" /\ ~Passes(Head(batch))

\* The outer loop's counter reaches its bound only when run returns.
RoundsLeft == pc \in {"draw", "execute"} => round < Rounds

Typed == TypeOK /\ RoundsLeft

IInv == Typed /\ CopyNow /\ CopyAhead /\ ReadAhead /\ ReadNow /\ StoppedAtRead

-----------------------------------------------------------------------------
\* The initial states are well typed (ProcessTest.cpp:41-88).
LEMMA InitTyped == Init => Typed
  BY ProcessTestAssumption DEF Init, Typed, TypeOK, RoundsLeft, Addresses

\* Every step keeps the types, and batches no longer than the program asks for
\* (ProcessTest.cpp:130-170).
LEMMA NextTyped == ASSUME Typed, [Next]_vars PROVE Typed'
<1> USE ProcessTestAssumption DEF Typed, RoundsLeft
<1>1. CASE DrawCode
  <2>1. PICK a \in Code : Drawn(a, "EXECUTE", readFromAddress(a))
    BY <1>1 DEF DrawCode
  <2>2. [address |-> a, type |-> "EXECUTE", value |-> copy[a]] \in Access
    BY DEF Access, Addresses, TypeOK
  <2>3. batch' \in Seq(Access) /\ Len(batch') = 1
    BY <1>1, <2>1, <2>2 DEF Drawn, readFromAddress, DrawCode, TypeOK
  <2> QED BY <1>1, <2>3 DEF DrawCode, TypeOK
<1>2. CASE DrawWrite
  <2>1. PICK a \in Data, value \in Values :
          writeToAddress(a, value) /\ Drawn(a, "WRITE", value)
    BY <1>2 DEF DrawWrite
  <2>2. [address |-> a, type |-> "WRITE", value |-> value] \in Access
    BY DEF Access, Addresses
  <2>3. batch' \in Seq(Access) /\ Len(batch') = Len(batch) + 1
    BY <2>1, <2>2 DEF Drawn, TypeOK
  <2>4. copy' \in [Addresses -> Values]
    BY <2>1 DEF writeToAddress, TypeOK
  <2> QED BY <1>2, <2>3, <2>4 DEF DrawWrite, Open, TypeOK
<1>3. CASE DrawRead
  <2>1. PICK a \in Data : Drawn(a, "READ", readFromAddress(a))
    BY <1>3 DEF DrawRead
  <2>2. [address |-> a, type |-> "READ", value |-> copy[a]] \in Access
    BY DEF Access, Addresses, TypeOK
  <2>3. batch' \in Seq(Access) /\ Len(batch') = Len(batch) + 1
    BY <2>1, <2>2 DEF Drawn, readFromAddress, TypeOK
  <2> QED BY <1>3, <2>3 DEF DrawRead, Open, TypeOK
<1>4. CASE CallDoInstruction
  BY <1>4 DEF CallDoInstruction, TypeOK
<1>5. CASE Fetch
  <2>1. batch # <<>> BY <1>5 DEF Fetch, Executing
  <2>2. Tail(batch) \in Seq(Access) /\ Len(Tail(batch)) = Len(batch) - 1
    BY <2>1 DEF TypeOK
  <2> QED BY <1>5, <2>1, <2>2 DEF Fetch, TypeOK
<1>6. CASE Store
  <2>1. batch # <<>> BY <1>6 DEF Store, Executing
  <2>2. Tail(batch) \in Seq(Access) /\ Len(Tail(batch)) = Len(batch) - 1
    BY <2>1 DEF TypeOK
  <2>3. Head(batch) \in Access BY <2>1 DEF TypeOK
  <2>4. memory' \in [Addresses -> Values] /\ dirty' \in [Addresses -> BOOLEAN]
    BY <1>6, <2>3 DEF Store, Stored, Access, TypeOK
  <2> QED BY <1>6, <2>1, <2>2, <2>4 DEF Store, TypeOK
<1>7. CASE NextBatch
  <2>1. pc' \in {"finished", "draw"} BY <1>7 DEF NextBatch
  <2>2. CASE j + 1 < Segments
    <3>1. j' = j + 1 /\ round' = round BY <1>7, <2>2 DEF NextBatch
    <3> QED BY <1>7, <2>1, <2>2, <3>1 DEF NextBatch, TypeOK
  <2>3. CASE ~(j + 1 < Segments)
    <3>1. j' = 2 /\ round' = round + 1 BY <1>7, <2>3 DEF NextBatch
    <3> QED BY <1>7, <2>1, <3>1 DEF NextBatch, TypeOK
  <2> QED BY <2>2, <2>3
<1>8. CASE UNCHANGED vars
  BY <1>8 DEF vars, TypeOK
<1>9. CASE Over
  BY <1>8, <1>9 DEF Over
<1> QED
  BY <1>1, <1>2, <1>3, <1>4, <1>5, <1>6, <1>7, <1>8, <1>9 DEF Next

-----------------------------------------------------------------------------
Pending == CopyNow /\ CopyAhead /\ ReadAhead /\ ReadNow

\* What Append does, access by access.
LEMMA AppendPending ==
  ASSUME TypeOK, NEW a \in Addresses, NEW type, NEW value,
         Drawn(a, type, value)
  PROVE  \E n \in Nat :
           /\ Len(batch) = n /\ Len(batch') = n + 1
           /\ \A m \in 1 .. n : batch'[m] = batch[m]
           /\ batch'[n + 1].address = a
           /\ batch'[n + 1].type = type
           /\ batch'[n + 1].value = value
<1> DEFINE access == [address |-> a, type |-> type, value |-> value]
<1>1. batch' = Append(batch, access)
  BY DEF Drawn
<1>2. access.address = a /\ access.type = type /\ access.value = value
  OBVIOUS
<1> HIDE DEF access
<1>3. PICK n \in Nat : n = Len(batch)
  BY DEF TypeOK
<1>4. /\ Len(batch') = n + 1
      /\ \A m \in 1 .. n : batch'[m] = batch[m]
      /\ batch'[n + 1] = access
  BY <1>1, <1>3 DEF TypeOK
<1> QED BY <1>2, <1>3, <1>4

\* The access that is executed next.
LEMMA HeadPending ==
  ASSUME TypeOK, batch # <<>>
  PROVE  /\ Head(batch) = batch[1] /\ Len(batch) \in Nat \ {0}
         /\ Head(batch).address \in Addresses
<1>1. Head(batch) = batch[1] /\ Len(batch) \in Nat \ {0}
  BY DEF TypeOK
<1>2. Head(batch) \in Access
  BY DEF TypeOK
<1> QED BY <1>1, <1>2 DEF Access

\* What Tail does, access by access.
LEMMA TailPending ==
  ASSUME TypeOK, batch # <<>>, batch' = Tail(batch)
  PROVE  \E n \in Nat :
           /\ Len(batch) = n + 1 /\ Len(batch') = n
           /\ \A m \in 1 .. n : batch'[m] = batch[m + 1]
           /\ batch[1] = Head(batch)
<1>1. Len(batch) \in Nat \ {0}
  BY DEF TypeOK
<1>2. PICK n \in Nat : Len(batch) = n + 1
  <2>1. Len(batch) - 1 \in Nat /\ Len(batch) = (Len(batch) - 1) + 1 BY <1>1
  <2> QED BY <2>1
<1>3. Len(batch') = n /\ \A m \in 1 .. n : batch'[m] = batch[m + 1]
  BY <1>2 DEF TypeOK
<1>4. batch[1] = Head(batch)
  BY DEF TypeOK
<1> QED BY <1>2, <1>3, <1>4

\* Drawing a read: it expects the copy, which holds the last value pending, or
\* the memory if none is (ProcessTest.cpp:146 and 155).
LEMMA DrawReadKeeps ==
  ASSUME TypeOK, Pending, NEW a \in Addresses, NEW type, type # "WRITE",
         Drawn(a, type, readFromAddress(a)),
         UNCHANGED <<copy, dirty, memory>>
  PROVE  Pending'
<1>v. PICK v : v = copy[a]
  OBVIOUS
<1>d. Drawn(a, type, v)
  BY <1>v DEF readFromAddress
<1>1. PICK n \in Nat :
        /\ Len(batch) = n /\ Len(batch') = n + 1
        /\ \A m \in 1 .. n : batch'[m] = batch[m]
        /\ batch'[n + 1].address = a /\ batch'[n + 1].type = type
        /\ batch'[n + 1].value = copy[a]
  BY <1>v, <1>d, AppendPending
<1>2. \A b \in Addresses, m \in 1 .. n :
        /\ WriteAt(m, b)' <=> WriteAt(m, b)
        /\ ReadAt(m, b)' <=> ReadAt(m, b)
  BY <1>1 DEF WriteAt, ReadAt
<1>3. \A b \in Addresses : ~WriteAt(n + 1, b)'
  BY <1>1 DEF WriteAt
<1>4. \A b \in Addresses, lo \in Nat \ {0}, hi \in Nat : hi <= n =>
        (Unwritten(b, lo, hi)' <=> Unwritten(b, lo, hi))
  BY <1>1, <1>2 DEF Unwritten
<1>5. \A b \in Addresses, lo \in Nat \ {0} :
        Unwritten(b, lo, n + 1)' => Unwritten(b, lo, n)
  BY <1>1, <1>2 DEF Unwritten
<1>6. CopyNow'
  BY <1>1, <1>5 DEF Pending, CopyNow
<1>7. CopyAhead'
  <2> SUFFICES ASSUME NEW b \in Addresses, NEW i \in 1 .. n + 1,
                      WriteAt(i, b)', Unwritten(b, i + 1, n + 1)'
               PROVE  copy[b] = batch'[i].value
    BY <1>1 DEF CopyAhead
  <2>1. i \in 1 .. n BY <1>1, <1>3
  <2>2. Unwritten(b, i + 1, n) BY <1>1, <1>5
  <2> QED BY <1>1, <1>2, <2>1, <2>2 DEF Pending, CopyAhead
<1>8. ReadAhead'
  <2> SUFFICES ASSUME NEW b \in Addresses, NEW i \in 1 .. n + 1,
                      NEW k \in 1 .. i - 1,
                      ReadAt(i, b)', WriteAt(k, b)', Unwritten(b, k + 1, i - 1)'
               PROVE  batch'[k].value = batch'[i].value
    BY <1>1 DEF ReadAhead
  <2>1. k \in 1 .. n /\ WriteAt(k, b) /\ Unwritten(b, k + 1, i - 1)
    BY <1>1, <1>2, <1>4
  <2>2. CASE i \in 1 .. n
    BY <1>1, <1>2, <2>1, <2>2 DEF Pending, ReadAhead
  <2>3. CASE i = n + 1
    <3>1. b = a BY <1>1, <2>3 DEF ReadAt
    <3>2. copy[b] = batch[k].value
      BY <1>1, <2>1, <2>3 DEF Pending, CopyAhead
    <3> QED BY <1>1, <2>1, <2>3, <3>1, <3>2
  <2> QED BY <1>1, <2>2, <2>3
<1>9. ReadNow'
  <2> SUFFICES ASSUME NEW b \in Addresses, NEW i \in 1 .. n + 1,
                      ReadAt(i, b)', Unwritten(b, 1, i - 1)', dirty[b]
               PROVE  memory[b] = batch'[i].value
    BY <1>1 DEF ReadNow
  <2>1. Unwritten(b, 1, i - 1) BY <1>1, <1>4
  <2>2. CASE i \in 1 .. n
    BY <1>1, <1>2, <2>1, <2>2 DEF Pending, ReadNow
  <2>3. CASE i = n + 1
    <3>1. b = a BY <1>1, <2>3 DEF ReadAt
    <3>2. copy[b] = memory[b] BY <1>1, <2>1, <2>3 DEF Pending, CopyNow
    <3> QED BY <1>1, <2>3, <3>1, <3>2
  <2> QED BY <1>1, <2>2, <2>3
<1> QED BY <1>6, <1>7, <1>8, <1>9 DEF Pending

\* Drawing a write: the copy is ahead of the memory by one more value, and
\* what earlier reads expect is as it was (ProcessTest.cpp:151-153).
LEMMA DrawWriteKeeps ==
  ASSUME TypeOK, Pending, NEW a \in Addresses, NEW value \in Values,
         writeToAddress(a, value), Drawn(a, "WRITE", value),
         UNCHANGED <<dirty, memory>>
  PROVE  Pending'
<1>1. PICK n \in Nat :
        /\ Len(batch) = n /\ Len(batch') = n + 1
        /\ \A m \in 1 .. n : batch'[m] = batch[m]
        /\ batch'[n + 1].address = a /\ batch'[n + 1].type = "WRITE"
        /\ batch'[n + 1].value = value
  BY AppendPending
<1>2. \A b \in Addresses, m \in 1 .. n :
        /\ WriteAt(m, b)' <=> WriteAt(m, b)
        /\ ReadAt(m, b)' <=> ReadAt(m, b)
  BY <1>1 DEF WriteAt, ReadAt
<1>3. \A b \in Addresses :
        /\ ~ReadAt(n + 1, b)'
        /\ WriteAt(n + 1, b)' <=> b = a
  BY <1>1 DEF WriteAt, ReadAt
<1>4. \A b \in Addresses, lo \in Nat \ {0}, hi \in Nat : hi <= n =>
        (Unwritten(b, lo, hi)' <=> Unwritten(b, lo, hi))
  BY <1>1, <1>2 DEF Unwritten
<1>5. \A b \in Addresses, lo \in 1 .. n + 1 :
        Unwritten(b, lo, n + 1)' => b # a /\ Unwritten(b, lo, n)
  BY <1>1, <1>2, <1>3 DEF Unwritten
<1>6. copy'[a] = value /\ \A b \in Addresses : b # a => copy'[b] = copy[b]
  BY DEF writeToAddress, TypeOK
<1>7. CopyNow'
  BY <1>1, <1>5, <1>6 DEF Pending, CopyNow
<1>8. CopyAhead'
  <2> SUFFICES ASSUME NEW b \in Addresses, NEW i \in 1 .. n + 1,
                      WriteAt(i, b)', Unwritten(b, i + 1, n + 1)'
               PROVE  copy'[b] = batch'[i].value
    BY <1>1 DEF CopyAhead
  <2>1. CASE i \in 1 .. n
    <3>1. b # a /\ Unwritten(b, i + 1, n) BY <1>1, <1>5, <2>1
    <3> QED BY <1>1, <1>2, <1>6, <2>1, <3>1 DEF Pending, CopyAhead
  <2>2. CASE i = n + 1
    BY <1>1, <1>3, <1>6, <2>2
  <2> QED BY <1>1, <2>1, <2>2
<1>9. ReadAhead'
  <2> SUFFICES ASSUME NEW b \in Addresses, NEW i \in 1 .. n + 1,
                      NEW k \in 1 .. i - 1,
                      ReadAt(i, b)', WriteAt(k, b)', Unwritten(b, k + 1, i - 1)'
               PROVE  batch'[k].value = batch'[i].value
    BY <1>1 DEF ReadAhead
  <2>1. i \in 1 .. n /\ k \in 1 .. n BY <1>1, <1>3
  <2>2. ReadAt(i, b) /\ WriteAt(k, b) /\ Unwritten(b, k + 1, i - 1)
    BY <1>1, <1>2, <1>4, <2>1
  <2> QED BY <1>1, <2>1, <2>2 DEF Pending, ReadAhead
<1>10. ReadNow'
  <2> SUFFICES ASSUME NEW b \in Addresses, NEW i \in 1 .. n + 1,
                      ReadAt(i, b)', Unwritten(b, 1, i - 1)', dirty[b]
               PROVE  memory[b] = batch'[i].value
    BY <1>1 DEF ReadNow
  <2>1. i \in 1 .. n BY <1>1, <1>3
  <2>2. ReadAt(i, b) /\ Unwritten(b, 1, i - 1) BY <1>1, <1>2, <1>4, <2>1
  <2> QED BY <1>1, <2>1, <2>2 DEF Pending, ReadNow
<1> QED BY <1>7, <1>8, <1>9, <1>10 DEF Pending

\* Executing an access that reads: the ones behind it are as they were
\* (SystemTest.cpp:18-37).
LEMMA FetchKeeps ==
  ASSUME TypeOK, Pending, batch # <<>>, Head(batch).type # "WRITE",
         batch' = Tail(batch), UNCHANGED <<copy, dirty, memory>>
  PROVE  Pending'
<1>1. PICK n \in Nat :
        /\ Len(batch) = n + 1 /\ Len(batch') = n
        /\ \A m \in 1 .. n : batch'[m] = batch[m + 1]
        /\ batch[1] = Head(batch)
  BY TailPending
<1>2. \A b \in Addresses, m \in 1 .. n :
        /\ WriteAt(m, b)' <=> WriteAt(m + 1, b)
        /\ ReadAt(m, b)' <=> ReadAt(m + 1, b)
  BY <1>1 DEF WriteAt, ReadAt
<1>3. \A b \in Addresses : ~WriteAt(1, b)
  BY <1>1 DEF WriteAt
<1>4. \A b \in Addresses, lo \in Nat \ {0}, hi \in 0 .. n :
        Unwritten(b, lo, hi)' => Unwritten(b, lo + 1, hi + 1)
  <2> SUFFICES ASSUME NEW b \in Addresses, NEW lo \in Nat \ {0},
                      NEW hi \in 0 .. n, Unwritten(b, lo, hi)',
                      NEW m \in lo + 1 .. hi + 1
               PROVE  ~WriteAt(m, b)
    BY DEF Unwritten
  <2>1. m - 1 \in lo .. hi /\ m - 1 \in 1 .. n OBVIOUS
  <2>2. ~WriteAt(m - 1, b)' BY <2>1 DEF Unwritten
  <2> QED BY <1>2, <2>1, <2>2
<1>5. \A b \in Addresses, hi \in 0 .. n :
        Unwritten(b, 1, hi)' => Unwritten(b, 1, hi + 1)
  <2> SUFFICES ASSUME NEW b \in Addresses, NEW hi \in 0 .. n,
                      Unwritten(b, 1, hi)', NEW m \in 1 .. hi + 1
               PROVE  ~WriteAt(m, b)
    BY DEF Unwritten
  <2>1. Unwritten(b, 2, hi + 1) BY <1>4
  <2> QED BY <1>3, <2>1 DEF Unwritten
<1>6. CopyNow'
  BY <1>1, <1>5 DEF Pending, CopyNow
<1>7. CopyAhead'
  <2> SUFFICES ASSUME NEW b \in Addresses, NEW i \in 1 .. n,
                      WriteAt(i, b)', Unwritten(b, i + 1, n)'
               PROVE  copy[b] = batch'[i].value
    BY <1>1 DEF CopyAhead
  <2>1. WriteAt(i + 1, b) /\ Unwritten(b, i + 2, n + 1) BY <1>2, <1>4
  <2> QED BY <1>1, <2>1 DEF Pending, CopyAhead
<1>8. ReadAhead'
  <2> SUFFICES ASSUME NEW b \in Addresses, NEW i \in 1 .. n,
                      NEW k \in 1 .. i - 1,
                      ReadAt(i, b)', WriteAt(k, b)', Unwritten(b, k + 1, i - 1)'
               PROVE  batch'[k].value = batch'[i].value
    BY <1>1 DEF ReadAhead
  <2>1. ReadAt(i + 1, b) /\ WriteAt(k + 1, b) /\ Unwritten(b, k + 2, i)
    BY <1>2, <1>4
  <2>2. i + 1 \in 1 .. Len(batch) /\ k + 1 \in 1 .. (i + 1) - 1
    BY <1>1
  <2>3. batch[k + 1].value = batch[i + 1].value
    BY <2>1, <2>2 DEF Pending, ReadAhead
  <2> QED BY <1>1, <2>3
<1>9. ReadNow'
  <2> SUFFICES ASSUME NEW b \in Addresses, NEW i \in 1 .. n,
                      ReadAt(i, b)', Unwritten(b, 1, i - 1)', dirty[b]
               PROVE  memory[b] = batch'[i].value
    BY <1>1 DEF ReadNow
  <2>1. ReadAt(i + 1, b) /\ Unwritten(b, 1, i) BY <1>2, <1>5
  <2> QED BY <1>1, <2>1 DEF Pending, ReadNow
<1> QED BY <1>6, <1>7, <1>8, <1>9 DEF Pending

\* Executing a write: the memory gets the value, and where a later access of
\* the batch still counts on it, or the copy does, it is the one they have
\* (SystemTest.cpp:39-57).
LEMMA StoreKeeps ==
  ASSUME TypeOK, Pending, batch # <<>>, Head(batch).type = "WRITE",
         batch' = Tail(batch), UNCHANGED copy,
         memory' = [memory EXCEPT ![Head(batch).address] = Stored(Head(batch))],
         dirty' = [dirty EXCEPT ![Head(batch).address] = TRUE]
  PROVE  Pending'
<1>1. PICK n \in Nat :
        /\ Len(batch) = n + 1 /\ Len(batch') = n
        /\ \A m \in 1 .. n : batch'[m] = batch[m + 1]
        /\ batch[1] = Head(batch)
  BY TailPending
<1>2. PICK x \in Addresses : x = Head(batch).address
  BY HeadPending
<1>3. /\ memory'[x] = batch[1].value
      /\ \A b \in Addresses :
           b # x => memory'[b] = memory[b] /\ (dirty'[b] => dirty[b])
  BY <1>1, <1>2 DEF TypeOK, Stored
<1>4. \A b \in Addresses : WriteAt(1, b) <=> b = x
  BY <1>1, <1>2 DEF WriteAt
<1>5. \A b \in Addresses, m \in 1 .. n :
        /\ WriteAt(m, b)' <=> WriteAt(m + 1, b)
        /\ ReadAt(m, b)' <=> ReadAt(m + 1, b)
  BY <1>1 DEF WriteAt, ReadAt
<1>6. \A b \in Addresses, lo \in Nat \ {0}, hi \in 0 .. n :
        Unwritten(b, lo, hi)' => Unwritten(b, lo + 1, hi + 1)
  <2> SUFFICES ASSUME NEW b \in Addresses, NEW lo \in Nat \ {0},
                      NEW hi \in 0 .. n, Unwritten(b, lo, hi)',
                      NEW m \in lo + 1 .. hi + 1
               PROVE  ~WriteAt(m, b)
    BY DEF Unwritten
  <2>1. m - 1 \in lo .. hi /\ m - 1 \in 1 .. n OBVIOUS
  <2>2. ~WriteAt(m - 1, b)' BY <2>1 DEF Unwritten
  <2> QED BY <1>5, <2>1, <2>2
<1>7. \A b \in Addresses, hi \in 0 .. n :
        b # x /\ Unwritten(b, 1, hi)' => Unwritten(b, 1, hi + 1)
  <2> SUFFICES ASSUME NEW b \in Addresses, NEW hi \in 0 .. n, b # x,
                      Unwritten(b, 1, hi)', NEW m \in 1 .. hi + 1
               PROVE  ~WriteAt(m, b)
    BY DEF Unwritten
  <2>1. Unwritten(b, 2, hi + 1) BY <1>6
  <2> QED BY <1>4, <2>1 DEF Unwritten
<1>8. CopyNow'
  <2> SUFFICES ASSUME NEW b \in Addresses, Unwritten(b, 1, n)', dirty'[b]
               PROVE  copy[b] = memory'[b]
    BY <1>1 DEF CopyNow
  <2>1. CASE b = x
    <3>1. WriteAt(1, b) /\ Unwritten(b, 2, n + 1) BY <1>4, <1>6, <2>1
    <3>2. copy[b] = batch[1].value
      BY <1>1, <3>1 DEF Pending, CopyAhead
    <3> QED BY <1>3, <2>1, <3>2
  <2>2. CASE b # x
    <3>1. Unwritten(b, 1, n + 1) /\ dirty[b] BY <1>3, <1>7, <2>2
    <3> QED BY <1>1, <1>3, <2>2, <3>1 DEF Pending, CopyNow
  <2> QED BY <2>1, <2>2
<1>9. CopyAhead'
  <2> SUFFICES ASSUME NEW b \in Addresses, NEW i \in 1 .. n,
                      WriteAt(i, b)', Unwritten(b, i + 1, n)'
               PROVE  copy[b] = batch'[i].value
    BY <1>1 DEF CopyAhead
  <2>1. WriteAt(i + 1, b) /\ Unwritten(b, i + 2, n + 1) BY <1>5, <1>6
  <2> QED BY <1>1, <2>1 DEF Pending, CopyAhead
<1>10. ReadAhead'
  <2> SUFFICES ASSUME NEW b \in Addresses, NEW i \in 1 .. n,
                      NEW k \in 1 .. i - 1,
                      ReadAt(i, b)', WriteAt(k, b)', Unwritten(b, k + 1, i - 1)'
               PROVE  batch'[k].value = batch'[i].value
    BY <1>1 DEF ReadAhead
  <2>1. ReadAt(i + 1, b) /\ WriteAt(k + 1, b) /\ Unwritten(b, k + 2, i)
    BY <1>5, <1>6
  <2>2. i + 1 \in 1 .. Len(batch) /\ k + 1 \in 1 .. (i + 1) - 1
    BY <1>1
  <2>3. batch[k + 1].value = batch[i + 1].value
    BY <2>1, <2>2 DEF Pending, ReadAhead
  <2> QED BY <1>1, <2>3
<1>11. ReadNow'
  <2> SUFFICES ASSUME NEW b \in Addresses, NEW i \in 1 .. n,
                      ReadAt(i, b)', Unwritten(b, 1, i - 1)', dirty'[b]
               PROVE  memory'[b] = batch'[i].value
    BY <1>1 DEF ReadNow
  <2>1. i + 1 \in 1 .. Len(batch) /\ ReadAt(i + 1, b) BY <1>1, <1>5
  <2>2. CASE b = x
    <3>1. WriteAt(1, b) /\ Unwritten(b, 2, i) BY <1>4, <1>6, <2>2
    <3>2. batch[1].value = batch[i + 1].value
      BY <2>1, <3>1 DEF Pending, ReadAhead
    <3> QED BY <1>1, <1>3, <2>2, <3>2
  <2>3. CASE b # x
    <3>1. Unwritten(b, 1, i) /\ dirty[b] BY <1>3, <1>7, <2>3
    <3>2. memory[b] = batch[i + 1].value
      BY <2>1, <3>1 DEF Pending, ReadNow
    <3> QED BY <1>1, <1>3, <2>3, <3>2
  <2> QED BY <2>2, <2>3
<1> QED BY <1>8, <1>9, <1>10, <1>11 DEF Pending

-----------------------------------------------------------------------------
\* Every step keeps the invariant: one step of the proof per action.
LEMMA NextPending ==
  ASSUME Typed, Pending, [Next]_vars
  PROVE  Pending'
<1> USE DEF Typed
<1>1. CASE DrawCode
  <2>1. PICK a \in Code : Drawn(a, "EXECUTE", readFromAddress(a))
    BY <1>1 DEF DrawCode
  <2>2. a \in Addresses BY DEF Addresses
  <2>3. UNCHANGED <<copy, dirty, memory>> BY <1>1 DEF DrawCode
  <2> QED BY <2>1, <2>2, <2>3, DrawReadKeeps
<1>2. CASE DrawWrite
  <2>1. PICK a \in Data, value \in Values :
          writeToAddress(a, value) /\ Drawn(a, "WRITE", value)
    BY <1>2 DEF DrawWrite
  <2>2. a \in Addresses BY DEF Addresses
  <2>3. UNCHANGED <<dirty, memory>> BY <1>2 DEF DrawWrite
  <2> QED BY <2>1, <2>2, <2>3, DrawWriteKeeps
<1>3. CASE DrawRead
  <2>1. PICK a \in Data : Drawn(a, "READ", readFromAddress(a))
    BY <1>3 DEF DrawRead
  <2>2. a \in Addresses BY DEF Addresses
  <2>3. UNCHANGED <<copy, dirty, memory>> BY <1>3 DEF DrawRead
  <2> QED BY <2>1, <2>2, <2>3, DrawReadKeeps
<1>4. CASE UNCHANGED <<batch, copy, dirty, memory>>
  BY <1>4 DEF Pending, CopyNow, CopyAhead, ReadAhead, ReadNow, Unwritten,
              WriteAt, ReadAt
<1>5. CASE CallDoInstruction \/ NextBatch \/ Over \/ UNCHANGED vars
  BY <1>4, <1>5 DEF CallDoInstruction, NextBatch, Over, vars
<1>6. CASE Fetch
  <2>1. batch # <<>> /\ Head(batch).type # "WRITE"
    BY <1>6 DEF Fetch, Executing
  <2>2. UNCHANGED <<copy, dirty, memory>> BY <1>6 DEF Fetch
  <2>3. CASE batch' = Tail(batch) BY <2>1, <2>2, <2>3, FetchKeeps
  <2>4. CASE UNCHANGED batch BY <1>4, <2>2, <2>4
  <2> QED BY <1>6, <2>3, <2>4 DEF Fetch
<1>7. CASE Store
  BY <1>7, StoreKeeps DEF Store, Executing
<1> QED
  BY <1>1, <1>2, <1>3, <1>5, <1>6, <1>7 DEF Next

\* The assertion fails at the access the program then stops at.
LEMMA NextStopped ==
  ASSUME StoppedAtRead, [Next]_vars
  PROVE  StoppedAtRead'
<1> USE DEF StoppedAtRead
<1>1. CASE DrawCode \/ DrawWrite \/ DrawRead
  BY <1>1 DEF DrawCode, DrawWrite, DrawRead, Open
<1>2. CASE CallDoInstruction \/ Store \/ NextBatch
  BY <1>2 DEF CallDoInstruction, Store, Executing, NextBatch
<1>3. CASE Fetch
  BY <1>3 DEF Fetch, Executing, Passes
<1>4. CASE Over \/ UNCHANGED vars
  BY <1>4 DEF Over, vars, Passes
<1> QED BY <1>1, <1>2, <1>3, <1>4 DEF Next

\* The copy and the memory agree to begin with where the copy counts: in the
\* code segment.
LEMMA InitPending == Init => Pending /\ StoppedAtRead
<1> SUFFICES ASSUME Init PROVE Pending /\ StoppedAtRead
  OBVIOUS
<1>1. Len(batch) = 0 /\ pc = "draw"
  BY DEF Init
<1>2. \A a \in Addresses : dirty[a] => copy[a] = memory[a]
  BY DEF Init, Addresses
<1>3. CopyNow
  BY <1>2 DEF CopyNow
<1>4. CopyAhead /\ ReadAhead /\ ReadNow
  BY <1>1 DEF CopyAhead, ReadAhead, ReadNow
<1> QED BY <1>1, <1>3, <1>4 DEF Pending, StoppedAtRead

\* The invariant holds throughout.
THEOREM Invariance == Spec => []IInv
<1>1. Init => IInv
  BY InitTyped, InitPending DEF IInv, Pending
<1>2. IInv /\ [Next]_vars => IInv'
  BY NextTyped, NextPending, NextStopped DEF IInv, Pending
<1> QED BY <1>1, <1>2, PTL DEF Spec

\* The program's state is always well typed, and no batch longer than
\* doInstruction is asked to execute (ProcessTest.cpp:130-170).
THEOREM TypeCorrect == Spec => []TypeOK
<1>1. IInv => TypeOK
  BY DEF IInv, Typed
<1> QED BY <1>1, Invariance, PTL

\* Between two batches the copy is right about every byte it counts for
\* (ProcessTest.cpp:141-166).
THEOREM CopyCorrect == Spec => []CopyIsMemory
<1>1. IInv => CopyIsMemory
  BY DEF IInv, CopyNow, CopyIsMemory, Unwritten
<1> QED BY <1>1, Invariance, PTL

\* Memory holds what the batch says it should, whenever the test is about to
\* check a byte (SystemTest.cpp:35-36).
THEOREM ExpectationCorrect == Spec => []ExpectedIsMemory
<1>1. ASSUME IInv, Executing, Head(batch).type # "WRITE",
             dirty[Head(batch).address]
      PROVE  memory[Head(batch).address] = Head(batch).value
  <2>1. /\ Head(batch) = batch[1] /\ 1 \in 1 .. Len(batch)
        /\ Head(batch).address \in Addresses
    BY <1>1, HeadPending DEF IInv, Typed, Executing
  <2>2. ReadAt(1, Head(batch).address)
    BY <1>1, <2>1 DEF ReadAt
  <2>3. Unwritten(Head(batch).address, 1, 1 - 1)
    BY DEF Unwritten
  <2> QED BY <1>1, <2>1, <2>2, <2>3 DEF IInv, ReadNow
<1>2. IInv => ExpectedIsMemory
  BY <1>1 DEF ExpectedIsMemory
<1> QED BY <1>2, Invariance, PTL

\* The assertion fails only at a byte that the same batch writes again, later
\* (ProcessTest.cpp:152, 155 and 204).
THEOREM AbortCorrect == Spec => []AbortsOnlyIfRewritten
<1>1. ASSUME IInv, pc = "abort"
      PROVE  \E i \in 2 .. Len(batch) : WriteAt(i, Head(batch).address)
  <2>1. batch # <<>> /\ Head(batch).type # "WRITE" /\ ~Passes(Head(batch))
    BY <1>1 DEF IInv, StoppedAtRead
  <2>2. PICK x \in Addresses : x = Head(batch).address
    BY <1>1, <2>1, HeadPending DEF IInv, Typed
  <2>3. /\ Head(batch) = batch[1] /\ Len(batch) \in Nat \ {0}
        /\ dirty[x] /\ copy[x] # batch[1].value
    BY <1>1, <2>1, <2>2, HeadPending DEF IInv, Typed, Passes
  <2>4. ReadAt(1, x) /\ ~WriteAt(1, x) /\ Unwritten(x, 1, 1 - 1)
    BY <2>1, <2>2, <2>3 DEF ReadAt, WriteAt, Unwritten
  <2>5. memory[x] = batch[1].value
    BY <1>1, <2>3, <2>4 DEF IInv, ReadNow
  <2>6. ~Unwritten(x, 1, Len(batch))
    BY <1>1, <2>3, <2>5 DEF IInv, CopyNow
  <2>7. PICK i \in 1 .. Len(batch) : WriteAt(i, x)
    BY <2>6 DEF Unwritten
  <2>8. i \in 2 .. Len(batch) BY <2>3, <2>4, <2>7
  <2> QED BY <2>2, <2>7, <2>8
<1>2. IInv => AbortsOnlyIfRewritten
  BY <1>1 DEF AbortsOnlyIfRewritten, WriteAt
<1> QED BY <1>2, Invariance, PTL
=============================================================================
