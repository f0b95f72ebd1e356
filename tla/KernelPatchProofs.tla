------------------------- MODULE KernelPatchProofs --------------------------
(***************************************************************************)
(* Proofs about the windows in which memory can be written or is           *)
(* allocated for code, for any number of threads and processors and        *)
(* whatever they patch.                                                    *)
(***************************************************************************)
EXTENDS KernelPatch, TLAPS

Labels == {"idle", "clear", "write", "set", "fault", "malloc", "nx"}

Typed ==
  /\ wp \in [Processors -> BOOLEAN] /\ nx \in BOOLEAN
  /\ on \in [Threads -> Processors] /\ from \in [Threads -> Processors \cup {Nowhere}]
  /\ pc \in [Threads -> Labels] /\ DOMAIN want = Threads

(* A thread about to write has its window open where it opened it, unless  *)
(* it was cut; memory is about to be allocated with pg_nx off, unless      *)
(* another allocation ended.                                               *)
WindowInv ==
  \A t \in Threads :
    pc[t] \in {"write", "set"} =>
      /\ from[t] \in Processors
      /\ pc[t] = "write" => ~wp[from[t]] \/ t \in cut

MallocInv == \A t \in Threads : pc[t] = "malloc" => ~nx \/ t \in spoiled

WriteInv == Typed /\ WindowInv /\ OpenAccounted /\ FaultExplained
AllocateInv == Typed /\ MallocInv /\ NxRestored /\ CodeExecutable

(* Every step keeps the types of the variables the arguments below use.    *)
LEMMA TypedStep ==
  ASSUME Typed, [Next]_vars
  PROVE  Typed'
<1> USE DEF Typed, Labels, Goto, window
<1>1. CASE UNCHANGED vars
  BY <1>1 DEF vars
<1>2. ASSUME NEW t \in Threads, Step(t)
      PROVE  Typed'
  <2>1. CASE Migrate(t)
    BY <2>1 DEF Migrate
  <2>2. CASE Begin(t)
    BY <2>2 DEF Begin
  <2>3. CASE WriteDisable(t)
    BY <2>3 DEF WriteDisable
  <2>4. CASE Write(t)
    BY <2>4 DEF Write
  <2>5. CASE WriteEnable(t)
    BY <2>5 DEF WriteEnable
  <2>6. CASE ExecuteDisable(t)
    BY Zenon, <2>6 DEF ExecuteDisable
  <2>7. CASE Malloc(t)
    BY <2>7 DEF Malloc
  <2>8. CASE ExecuteEnable(t)
    BY <2>8 DEF ExecuteEnable
  <2>9. QED
    BY <1>2, <2>1, <2>2, <2>3, <2>4, <2>5, <2>6, <2>7, <2>8 DEF Step
<1>3. QED
  BY <1>1, <1>2 DEF Next

(* Every step keeps the account of the write windows.                      *)
LEMMA WriteStep ==
  ASSUME WriteInv, [Next]_vars
  PROVE  WriteInv'
<1>1. Typed'
  BY TypedStep DEF WriteInv
<1> USE DEF WriteInv, Typed, Labels, WindowInv, OpenAccounted, FaultExplained, Open, Goto, window
<1>2. CASE UNCHANGED vars
  BY <1>1, <1>2 DEF vars
<1>3. ASSUME NEW t \in Threads, Step(t), \A u \in Threads : pc[u] # "fault"
      PROVE  WriteInv'
  <2>1. CASE Migrate(t)
    BY <1>1, <1>3, <2>1 DEF Migrate
  <2>2. CASE Begin(t)
    BY <1>1, <1>3, <2>2 DEF Begin
  <2>3. CASE WriteDisable(t)
    <3>1. WindowInv' /\ FaultExplained'
      BY <1>1, <1>3, <2>3 DEF WriteDisable
    <3>2. OpenAccounted'
      BY <1>1, <1>3, <2>3 DEF WriteDisable
    <3>3. QED
      BY <1>1, <3>1, <3>2
  <2>4. CASE Write(t)
    <3>0. /\ pc[t] = "write" /\ UNCHANGED window /\ UNCHANGED on
          /\ \/ pc' = [pc EXCEPT ![t] = "fault"] /\ wp[on[t]]
             \/ pc' = [pc EXCEPT ![t] = "set"]
      BY <2>4 DEF Write
    <3>1. WindowInv' /\ FaultExplained'
      BY <1>1, <1>3, <3>0
    <3>2. OpenAccounted'
      BY <1>1, <1>3, <3>0
    <3>3. QED
      BY <1>1, <3>1, <3>2
  <2>5. CASE WriteEnable(t)
    <3>1. WindowInv' /\ FaultExplained'
      BY <1>1, <1>3, <2>5 DEF WriteEnable
    <3>2. OpenAccounted'
      <4> SUFFICES ASSUME NEW p \in Processors, ~wp'[p]
                   PROVE  p \in left' \/ \E u \in Threads : Open(u)' /\ from'[u] = p
        OBVIOUS
      <4>1. p # on[t] /\ ~wp[p]
        BY <1>1, <2>5 DEF WriteEnable
      <4>2. CASE p \in left
        BY <4>1, <4>2, <2>5 DEF WriteEnable
      <4>3. ASSUME NEW u \in Threads, Open(u), from[u] = p
            PROVE  p \in left' \/ \E v \in Threads : Open(v)' /\ from'[v] = p
        <5>1. CASE u = t
          BY <4>1, <4>3, <5>1, <2>5 DEF WriteEnable
        <5>2. CASE u # t
          BY <1>1, <4>3, <5>2, <2>5 DEF WriteEnable
        <5>3. QED
          BY <5>1, <5>2
      <4>4. QED
        BY <4>1, <4>2, <4>3
    <3>3. QED
      BY <1>1, <3>1, <3>2
  <2>6. CASE ExecuteDisable(t)
    BY <1>1, <1>3, <2>6 DEF ExecuteDisable
  <2>7. CASE Malloc(t)
    BY <1>1, <1>3, <2>7 DEF Malloc
  <2>8. CASE ExecuteEnable(t)
    BY <1>1, <1>3, <2>8 DEF ExecuteEnable
  <2>9. QED
    BY <1>3, <2>1, <2>2, <2>3, <2>4, <2>5, <2>6, <2>7, <2>8 DEF Step
<1>4. QED
  BY <1>2, <1>3 DEF Next

(* Every step keeps the account of pg_nx.                                  *)
LEMMA AllocateStep ==
  ASSUME AllocateInv, [Next]_vars
  PROVE  AllocateInv'
<1>1. Typed'
  BY TypedStep DEF AllocateInv
<1> USE DEF AllocateInv, Typed, Labels, MallocInv, NxRestored, CodeExecutable, Goto, window
<1>2. CASE UNCHANGED vars
  BY <1>1, <1>2 DEF vars
<1>3. ASSUME NEW t \in Threads, Step(t)
      PROVE  AllocateInv'
  <2>1. CASE Migrate(t)
    BY <1>1, <2>1 DEF Migrate
  <2>2. CASE Begin(t)
    <3>1. PICK job \in PatchesOf[t] : want' = [want EXCEPT ![t] = job]
      BY Zenon, <2>2 DEF Begin
    <3>2. job.kind # "data"
      BY PatchAssumption DEF Kinds
    <3>3. /\ pc' = [pc EXCEPT ![t] = "clear"] /\ pc[t] = "idle"
          /\ spoiled' = spoiled \ {t} /\ nx' = nx
      BY <2>2 DEF Begin
    <3>4. QED
      BY <1>1, <3>1, <3>2, <3>3
  <2>3. CASE WriteDisable(t)
    BY <1>1, <2>3 DEF WriteDisable
  <2>4. CASE Write(t)
    BY <1>1, <2>4 DEF Write
  <2>5. CASE WriteEnable(t)
    BY <1>1, <2>5 DEF WriteEnable
  <2>6. CASE ExecuteDisable(t)
    BY <1>1, <2>6 DEF ExecuteDisable, Job
  <2>7. CASE Malloc(t)
    BY <1>1, <2>7 DEF Malloc, Job
  <2>8. CASE ExecuteEnable(t)
    BY <1>1, <2>8 DEF ExecuteEnable
  <2>9. QED
    BY <1>3, <2>1, <2>2, <2>3, <2>4, <2>5, <2>6, <2>7, <2>8 DEF Step
<1>4. QED
  BY <1>2, <1>3 DEF Next

-----------------------------------------------------------------------------
(* All processors are protected, pg_nx is set and nothing is under way.    *)
LEMMA WriteInit == Init => WriteInv
  BY PatchAssumption
     DEF Init, WriteInv, Typed, Labels, WindowInv, OpenAccounted, FaultExplained

(* As above, for the allocations.                                          *)
LEMMA AllocateInit == Init => AllocateInv
  BY PatchAssumption
     DEF Init, AllocateInv, Typed, Labels, MallocInv, NxRestored, CodeExecutable, Job

(* ps4KernelProtectionWriteDisable leaves no processor unprotected but for *)
(* a write under way, or where a thread moved away in between.             *)
THEOREM OpenAccountedHolds == Spec => []OpenAccounted
<1>1. WriteInv /\ [Next]_vars => WriteInv'
  BY WriteStep
<1>2. WriteInv => OpenAccounted
  BY DEF WriteInv
<1>3. QED
  BY WriteInit, <1>1, <1>2, PTL DEF Spec

(* A write of ps4KernelMemoryCopy, Fill or Swap faults only if the thread  *)
(* was moved inside its window or shared the processor with another        *)
(* writer.                                                                 *)
THEOREM FaultExplainedHolds == Spec => []FaultExplained
<1>1. WriteInv /\ [Next]_vars => WriteInv'
  BY WriteStep
<1>2. WriteInv => FaultExplained
  BY DEF WriteInv
<1>3. QED
  BY WriteInit, <1>1, <1>2, PTL DEF Spec

(* However allocations overlap, pg_nx is set when the last one is over.    *)
THEOREM NxRestoredHolds == Spec => []NxRestored
<1>1. AllocateInv /\ [Next]_vars => AllocateInv'
  BY AllocateStep
<1>2. AllocateInv => NxRestored
  BY DEF AllocateInv
<1>3. QED
  BY AllocateInit, <1>1, <1>2, PTL DEF Spec

(* ps4KernelMemoryAllocate returns memory that can be executed, unless     *)
(* another allocation set pg_nx in between.                                *)
THEOREM CodeExecutableHolds == Spec => []CodeExecutable
<1>1. AllocateInv /\ [Next]_vars => AllocateInv'
  BY AllocateStep
<1>2. AllocateInv => CodeExecutable
  BY DEF AllocateInv
<1>3. QED
  BY AllocateInit, <1>1, <1>2, PTL DEF Spec

-----------------------------------------------------------------------------
Bytes == 0 .. 255

(* What the comparisons with the templates look at.                        *)
LEMMA Compared ==
  ASSUME NEW m
  PROVE  /\ CompareNonZeros(Jump64, m) <=>
              m[1] = 73 /\ m[2] = 187 /\ m[11] = 65 /\ m[12] = 255 /\ m[13] = 227
         /\ CompareNonZeros(Jump32, m) <=>
              m[1] = 65 /\ m[2] = 187 /\ m[7] = 65 /\ m[8] = 255 /\ m[9] = 227
         /\ CompareNonZeros(Return64, m) <=> m[1] = 72 /\ m[2] = 184 /\ m[11] = 195
         /\ CompareNonZeros(Return32, m) <=> m[1] = 184 /\ m[6] = 195
         /\ CompareNonZeros(ReturnZero, m) <=> m[1] = 72 /\ m[2] = 49 /\ m[3] = 192 /\ m[4] = 195
         /\ CompareNonZeros(FunctionHookPrologue, m) <=>
              /\ m[1] = 73 /\ m[2] = 187
              /\ m[11] = 240 /\ m[12] = 73 /\ m[13] = 255 /\ m[14] = 67 /\ m[15] = 16
         /\ CompareNonZeros(SystemCallHookPrologue, m) <=>
              /\ m[1] = 73 /\ m[2] = 187
              /\ m[11] = 240 /\ m[12] = 73 /\ m[13] = 255 /\ m[14] = 67 /\ m[15] = 24
<1> USE DEF CompareNonZeros
<1>1. CompareNonZeros(Jump64, m) <=>
        m[1] = 73 /\ m[2] = 187 /\ m[11] = 65 /\ m[12] = 255 /\ m[13] = 227
  BY DEF Jump64
<1>2. CompareNonZeros(Jump32, m) <=>
        m[1] = 65 /\ m[2] = 187 /\ m[7] = 65 /\ m[8] = 255 /\ m[9] = 227
  BY DEF Jump32
<1>3. CompareNonZeros(Return64, m) <=> m[1] = 72 /\ m[2] = 184 /\ m[11] = 195
  BY DEF Return64
<1>4. CompareNonZeros(Return32, m) <=> m[1] = 184 /\ m[6] = 195
  BY DEF Return32
<1>5. CompareNonZeros(ReturnZero, m) <=> m[1] = 72 /\ m[2] = 49 /\ m[3] = 192 /\ m[4] = 195
  BY DEF ReturnZero
<1>6. CompareNonZeros(FunctionHookPrologue, m) <=>
        /\ m[1] = 73 /\ m[2] = 187
        /\ m[11] = 240 /\ m[12] = 73 /\ m[13] = 255 /\ m[14] = 67 /\ m[15] = 16
  BY DEF FunctionHookPrologue
<1>7. CompareNonZeros(SystemCallHookPrologue, m) <=>
        /\ m[1] = 73 /\ m[2] = 187
        /\ m[11] = 240 /\ m[12] = 73 /\ m[13] = 255 /\ m[14] = 67 /\ m[15] = 24
  BY DEF SystemCallHookPrologue
<1> HIDE DEF CompareNonZeros
<1> QED
  BY <1>1, <1>2, <1>3, <1>4, <1>5, <1>6, <1>7

(* A copy changes the bytes it covers.                                     *)
Replaces(c, m, at, bytes) ==
  /\ c \in Seq(Bytes) /\ Len(c) = Len(m)
  /\ \A i \in 1 .. Len(m) :
       c[i] = IF i > at /\ i <= at + Len(bytes) THEN bytes[i - at] ELSE m[i]

LEMMA CopiedBytes ==
  ASSUME NEW m \in Seq(Bytes), NEW at \in Nat, NEW bytes \in Seq(Bytes)
  PROVE  Replaces(Copied(m, at, bytes), m, at, bytes)
<1>1. ASSUME NEW i \in 1 .. Len(m), i > at, i <= at + Len(bytes) PROVE bytes[i - at] \in Bytes
  <2>1. i - at \in 1 .. Len(bytes)
    BY <1>1
  <2>2. \A j \in 1 .. Len(bytes) : bytes[j] \in Bytes
    OBVIOUS
  <2> QED
    BY Zenon, <2>1, <2>2
<1>2. \A i \in 1 .. Len(m) : m[i] \in Bytes
  OBVIOUS
<1>3. Copied(m, at, bytes) \in [1 .. Len(m) -> Bytes]
  BY <1>1, <1>2 DEF Copied
<1>4. Copied(m, at, bytes) \in Seq(Bytes) /\ Len(Copied(m, at, bytes)) = Len(m)
  <2>1. PICK n \in Nat : n = Len(m)
    OBVIOUS
  <2>2. PICK c \in [1 .. n -> Bytes] : c = Copied(m, at, bytes)
    BY Zenon, <1>3, <2>1
  <2>3. c \in Seq(Bytes) /\ Len(c) = n
    OBVIOUS
  <2> QED
    BY Zenon, <2>1, <2>2, <2>3
<1>5. ASSUME NEW i \in 1 .. Len(m)
      PROVE  Copied(m, at, bytes)[i] =
               IF i > at /\ i <= at + Len(bytes) THEN bytes[i - at] ELSE m[i]
  BY Zenon DEF Copied
<1> QED
  BY Zenon, <1>4, <1>5 DEF Replaces

(* What has become of a function, and of the two bytes on the stack, after *)
(* k writes of a job.                                                      *)
Applied(W, k) ==
  LET put(m, w) == Copied(m, w.at, w.bytes)
  IN IF k = 0 THEN Original
     ELSE IF k = 1 THEN put(Original, W[1])
     ELSE IF k = 2 THEN put(put(Original, W[1]), W[2])
     ELSE put(put(put(Original, W[1]), W[2]), W[3])

Restored(job, k, m, b) ==
  /\ m \in Seq(Bytes) /\ Len(m) = Len(Original)
  /\ k \in {0, 1} => m = Before(job)
  /\ k = 1 => b = PayloadLock
  /\ k \in {2, 3, 4} => m[1] = 235 /\ m[2] = 252
  /\ k \in {3, 4} => \A i \in 3 .. Len(m) : m[i] = Original[i]
  /\ k = 4 => b = SubSeq(Original, 1, 2)
  /\ k = 5 => m = Original

Reached(job, k, m, b) ==
  IF job.kind = "restore" THEN Restored(job, k, m, b) ELSE m = Applied(Writes(job), k)

Jobs == UNION {PatchesOf[t] : t \in Threads}

(* The writes of a restore.                                                *)
LEMMA RestoreWrites ==
  /\ Len(Restore) = 5
  /\ Restore[1] = Bits(PayloadLock) /\ Restore[2] = Swap
  /\ Restore[3] = Copy(2, SubSeq(Original, 3, Len(Original)))
  /\ Restore[4] = Bits(SubSeq(Original, 1, 2)) /\ Restore[5] = Swap
  BY DEF Restore

LEMMA OriginalParts ==
  /\ Original \in Seq(Bytes) /\ Len(Original) \in Nat /\ Len(Original) >= 15
  /\ LET f == SubSeq(Original, 1, 2)
         e == SubSeq(Original, 3, Len(Original))
     IN /\ f \in Seq(Bytes) /\ Len(f) = 2 /\ f[1] = Original[1] /\ f[2] = Original[2]
        /\ e \in Seq(Bytes) /\ Len(e) = Len(Original) - 2
        /\ \A i \in 1 .. Len(e) : e[i] = Original[i + 2]
<1>1. Original \in Seq(Bytes) /\ Len(Original) \in Nat /\ Len(Original) >= 15
  BY CodeAssumption DEF Bytes
<1> DEFINE f == SubSeq(Original, 1, 2)  e == SubSeq(Original, 3, Len(Original))
<1>2. f \in Seq(Bytes) /\ Len(f) = 2 /\ f[1] = Original[1] /\ f[2] = Original[2]
  BY <1>1
<1>3. e \in Seq(Bytes) /\ Len(e) = Len(Original) - 2
  BY <1>1
<1>4. \A i \in 1 .. Len(e) : e[i] = Original[i + 2]
  BY <1>1, <1>3
<1> QED
  BY Zenon, <1>1, <1>2, <1>3, <1>4

LEMMA LockBytes ==
  PayloadLock \in Seq(Bytes) /\ Len(PayloadLock) = 2 /\ PayloadLock[1] = 235 /\ PayloadLock[2] = 252
  BY DEF PayloadLock, Bytes

LEMMA JobFacts ==
  ASSUME NEW job \in Jobs
  PROVE  /\ job.kind \in Kinds /\ job.value \in Seq(Bytes)
         /\ IF job.kind = "hidden" THEN Len(job.value) <= 127 /\ Len(job.value) + 2 <= Len(Original)
            ELSE Len(job.value) = 8
  BY ZenonT(60), PatchAssumption, CodeAssumption DEF Jobs, Bytes

LEMMA RestoreStarts ==
  ASSUME NEW job \in Jobs, job.kind = "restore", NEW b
  PROVE  Restored(job, 0, Before(job), b)
<1>1. Jump64 \in Seq(Bytes)
  BY DEF Jump64, Bytes
<1>2. PICK c : c = Copied(Original, 0, Jump64) /\ Replaces(c, Original, 0, Jump64)
  BY <1>1, CopiedBytes, OriginalParts
<1>3. PICK d : /\ d = Copied(c, 2, job.value) /\ d \in Seq(Bytes) /\ Len(d) = Len(Original)
  <2>1. c \in Seq(Bytes) /\ Len(c) = Len(Original) /\ job.value \in Seq(Bytes)
    BY Zenon, <1>2, JobFacts DEF Replaces
  <2>2. PICK d : d = Copied(c, 2, job.value) /\ Replaces(d, c, 2, job.value)
    BY <2>1, CopiedBytes
  <2> QED
    BY Zenon, <2>1, <2>2 DEF Replaces
<1>4. d = Before(job)
  BY Zenon, <1>2, <1>3 DEF Before
<1> QED
  BY <1>3, <1>4 DEF Restored

(* The bytes of Original again.                                            *)
LEMMA SameBytes ==
  ASSUME NEW m \in Seq(Bytes), Len(m) = Len(Original),
         \A i \in 1 .. Len(Original) : m[i] = Original[i]
  PROVE  m = Original
<1>1. Original \in Seq(Bytes) /\ Len(Original) \in Nat
  BY Zenon, OriginalParts
<1> QED
  BY <1>1

LEMMA RestoreAdvances ==
  ASSUME NEW job \in Jobs, job.kind = "restore", NEW m, NEW b, NEW k \in 0 .. 4,
         Restored(job, k, m, b)
  PROVE  Restored(job, k + 1, FunctionAfter(Restore[k + 1], m, b), BitsAfter(Restore[k + 1], m, b))
<1>1. m \in Seq(Bytes) /\ Len(m) = Len(Original) /\ Len(m) \in Nat /\ Len(m) >= 15
  BY Zenon, OriginalParts DEF Restored
<1>2. PICK f : /\ f = SubSeq(Original, 1, 2)
               /\ f \in Seq(Bytes) /\ Len(f) = 2 /\ f[1] = Original[1] /\ f[2] = Original[2]
  BY Zenon, OriginalParts
<1>3. PICK e : /\ e = SubSeq(Original, 3, Len(Original))
               /\ e \in Seq(Bytes) /\ Len(e) = Len(Original) - 2
               /\ \A i \in 1 .. Len(e) : e[i] = Original[i + 2]
  BY Zenon, OriginalParts
<1>4. CASE k = 0
  <2>1. Restore[k + 1] = Bits(PayloadLock) /\ k + 1 = 1
    BY <1>4, RestoreWrites
  <2>2. FunctionAfter(Restore[k + 1], m, b) = m /\ BitsAfter(Restore[k + 1], m, b) = PayloadLock
    BY <2>1 DEF FunctionAfter, BitsAfter, Bits
  <2> QED
    BY <1>4, <2>1, <2>2 DEF Restored
<1>5. CASE k = 1
  <2>1. Restore[k + 1] = Swap /\ k + 1 = 2 /\ b = PayloadLock
    BY <1>5, RestoreWrites DEF Restored
  <2>2. PICK c : c = FunctionAfter(Restore[k + 1], m, b) /\ c = Copied(m, 0, PayloadLock)
    BY <2>1 DEF FunctionAfter, Swap
  <2>3. Replaces(c, m, 0, PayloadLock)
    BY <1>1, <2>2, CopiedBytes, LockBytes
  <2>4. c \in Seq(Bytes) /\ Len(c) = Len(Original) /\ c[1] = 235 /\ c[2] = 252
    BY <1>1, <2>3, LockBytes DEF Replaces
  <2> QED
    BY <2>1, <2>2, <2>4 DEF Restored
<1>6. CASE k = 2
  <2>1. Restore[k + 1] = Copy(2, e) /\ k + 1 = 3 /\ m[1] = 235 /\ m[2] = 252
    BY <1>3, <1>6, RestoreWrites DEF Restored
  <2>2. PICK c : c = FunctionAfter(Restore[k + 1], m, b) /\ c = Copied(m, 2, e)
    BY <2>1 DEF FunctionAfter, Copy
  <2>3. Replaces(c, m, 2, e)
    BY Zenon, <1>1, <1>3, <2>2, CopiedBytes
  <2>4. c \in Seq(Bytes) /\ Len(c) = Len(Original) /\ c[1] = 235 /\ c[2] = 252
    BY <1>1, <2>1, <2>3 DEF Replaces
  <2>5. ASSUME NEW i \in 3 .. Len(c) PROVE c[i] = Original[i]
    <3>1. c[i] = e[i - 2]
      BY <1>1, <1>3, <2>3, <2>4 DEF Replaces
    <3>2. PICK j \in 1 .. Len(e) : j = i - 2 /\ j + 2 = i
      BY <1>1, <1>3, <2>4
    <3> QED
      BY Zenon, <1>3, <3>1, <3>2
  <2> QED
    BY <2>1, <2>2, <2>4, <2>5 DEF Restored
<1>7. CASE k = 3
  <2>1. Restore[k + 1] = Bits(f) /\ k + 1 = 4
    BY <1>2, <1>7, RestoreWrites
  <2>2. FunctionAfter(Restore[k + 1], m, b) = m /\ BitsAfter(Restore[k + 1], m, b) = f
    BY <2>1 DEF FunctionAfter, BitsAfter, Bits
  <2>3. m[1] = 235 /\ m[2] = 252 /\ \A i \in 3 .. Len(m) : m[i] = Original[i]
    BY <1>7 DEF Restored
  <2> QED
    BY <1>1, <1>2, <2>1, <2>2, <2>3 DEF Restored
<1>8. CASE k = 4
  <2>1. Restore[k + 1] = Swap /\ k + 1 = 5 /\ b = f
    BY <1>2, <1>8, RestoreWrites DEF Restored
  <2>2. PICK c : c = FunctionAfter(Restore[k + 1], m, b) /\ c = Copied(m, 0, f)
    BY <2>1 DEF FunctionAfter, Swap
  <2>3. Replaces(c, m, 0, f)
    BY Zenon, <1>1, <1>2, <2>2, CopiedBytes
  <2>4. \A i \in 3 .. Len(m) : m[i] = Original[i]
    BY <1>8 DEF Restored
  <2>5. c \in Seq(Bytes) /\ Len(c) = Len(Original)
    BY <1>1, <2>3 DEF Replaces
  <2>6. ASSUME NEW i \in 1 .. Len(Original) PROVE c[i] = Original[i]
    BY <1>1, <1>2, <2>3, <2>4 DEF Replaces
  <2>7. c = Original
    BY Zenon, <2>5, <2>6, SameBytes
  <2> QED
    BY <2>1, <2>2, <2>5, <2>7 DEF Restored
<1> QED
  BY <1>4, <1>5, <1>6, <1>7, <1>8

(* The other jobs are a few copies.                                        *)
WriteRecords == [op : {"copy", "bits", "swap"}, at : Nat, bytes : Seq(Bytes)]

LEMMA TemplateSequences ==
  /\ Jump64 \in Seq(Bytes) /\ Jump32 \in Seq(Bytes) /\ Return64 \in Seq(Bytes)
  /\ Return32 \in Seq(Bytes) /\ ReturnZero \in Seq(Bytes)
  /\ FunctionHookPrologue \in Seq(Bytes) /\ SystemCallHookPrologue \in Seq(Bytes)
<1> USE DEF Bytes
<1>1. Jump64 \in Seq(Bytes) /\ Jump32 \in Seq(Bytes)
  BY DEF Jump64, Jump32
<1>2. Return64 \in Seq(Bytes) /\ Return32 \in Seq(Bytes) /\ ReturnZero \in Seq(Bytes)
  BY DEF Return64, Return32, ReturnZero
<1>3. FunctionHookPrologue \in Seq(Bytes) /\ SystemCallHookPrologue \in Seq(Bytes)
  BY DEF FunctionHookPrologue, SystemCallHookPrologue
<1> QED
  BY Zenon, <1>1, <1>2, <1>3

LEMMA CopyRecord ==
  ASSUME NEW at \in Nat, NEW bytes \in Seq(Bytes)
  PROVE  /\ Copy(at, bytes) \in WriteRecords /\ Copy(at, bytes).op = "copy"
         /\ Copy(at, bytes).at = at /\ Copy(at, bytes).bytes = bytes
  BY DEF Copy, WriteRecords

(* Sequences of one, two and three copies.                                 *)
Copies(W) ==
  /\ W \in Seq(WriteRecords) /\ Len(W) \in 1 .. 3
  /\ \A i \in 1 .. Len(W) : W[i].op = "copy"

LEMMA CopiesOf ==
  ASSUME NEW a \in WriteRecords, NEW b \in WriteRecords, NEW c \in WriteRecords,
         a.op = "copy", b.op = "copy", c.op = "copy"
  PROVE  Copies(<<a>>) /\ Copies(<<a, b>>) /\ Copies(<<a, b, c>>)
<1>1. Copies(<<a>>)
  BY DEF Copies
<1>2. Copies(<<a, b>>)
  BY DEF Copies
<1>3. Copies(<<a, b, c>>)
  BY DEF Copies
<1> QED
  BY Zenon, <1>1, <1>2, <1>3

LEMMA JobCopies ==
  ASSUME NEW job \in Jobs, job.kind # "restore"
  PROVE  Copies(Writes(job))
<1> DEFINE v == job.value  Small == {x \in WriteRecords : x.op = "copy"}
<1>1. /\ v \in Seq(Bytes) /\ job.kind \in Kinds
      /\ IF job.kind = "hidden" THEN Len(v) <= 127 ELSE Len(v) = 8
  BY Zenon, JobFacts
<1>2. ASSUME NEW bytes \in Seq(Bytes)
      PROVE  Copy(0, bytes) \in Small /\ Copy(1, bytes) \in Small /\ Copy(2, bytes) \in Small
  BY CopyRecord
<1>3. ASSUME NEW a \in Small, NEW b \in Small, NEW c \in Small
      PROVE  Copies(<<a>>) /\ Copies(<<a, b>>) /\ Copies(<<a, b, c>>)
  BY Zenon, CopiesOf
<1> HIDE DEF Small
<1>4. ASSUME Len(v) = 8 PROVE SubSeq(v, 1, 4) \in Seq(Bytes)
  BY <1>1, <1>4
<1>5. CASE job.kind = "jump"
  <2>1. Copies(JumpPatch(v))
    BY Zenon, <1>1, <1>2, <1>3, <1>4, <1>5, TemplateSequences DEF JumpPatch
  <2> QED
    BY <1>5, <2>1 DEF Writes
<1>6. CASE job.kind = "return"
  <2>1. Copies(ReturnPatch(v))
    BY Zenon, <1>1, <1>2, <1>3, <1>4, <1>6, TemplateSequences DEF ReturnPatch
  <2> QED
    BY <1>6, <2>1 DEF Writes
<1>7. CASE job.kind = "function"
  <2>1. Copies(FunctionHookProloguePatch(v))
    BY Zenon, <1>1, <1>2, <1>3, TemplateSequences DEF FunctionHookProloguePatch
  <2> QED
    BY <1>7, <2>1 DEF Writes
<1>8. CASE job.kind = "system_call"
  <2>1. Copies(SystemCallHookProloguePatch(v))
    BY Zenon, <1>1, <1>2, <1>3, TemplateSequences DEF SystemCallHookProloguePatch
  <2> QED
    BY <1>8, <2>1 DEF Writes
<1>9. CASE job.kind = "hidden"
  <2>1. <<235>> \in Seq(Bytes) /\ <<Len(v)>> \in Seq(Bytes)
    <3>1. \A n \in Bytes : <<n>> \in Seq(Bytes)
      OBVIOUS
    <3>2. 235 \in Bytes /\ \A n \in Nat : n <= 127 => n \in Bytes
      BY DEF Bytes
    <3>3. Len(v) \in Nat
      BY <1>1
    <3>4. Len(v) \in Bytes
      BY Zenon, <1>1, <1>9, <3>2, <3>3
    <3> QED
      BY Zenon, <3>1, <3>2, <3>4
  <2>2. Copies(HiddenInformationPatch(v))
    BY ZenonT(60), <1>1, <1>2, <1>3, <2>1 DEF HiddenInformationPatch
  <2> QED
    BY <1>9, <2>2 DEF Writes
<1> QED
  BY Zenon, <1>1, <1>5, <1>6, <1>7, <1>8, <1>9 DEF Kinds

LEMMA CopyAdvances ==
  ASSUME NEW W, Copies(W), NEW k \in 0 .. Len(W) - 1, NEW b
  PROVE  FunctionAfter(W[k + 1], Applied(W, k), b) = Applied(W, k + 1)
<1>1. W[k + 1].op = "copy" /\ k \in 0 .. 2
  BY DEF Copies
<1>2. ASSUME NEW m PROVE FunctionAfter(W[k + 1], m, b) = Copied(m, W[k + 1].at, W[k + 1].bytes)
  BY Zenon, <1>1 DEF FunctionAfter
<1>3. CASE k = 0
  <2>1. k + 1 = 1 /\ 1 # 0
    BY <1>3
  <2> QED
    BY Zenon, <1>2, <1>3, <2>1 DEF Applied
<1>4. CASE k = 1
  <2>1. k + 1 = 2 /\ 1 # 0 /\ 2 # 0 /\ 2 # 1
    BY <1>4
  <2> QED
    BY Zenon, <1>2, <1>4, <2>1 DEF Applied
<1>5. CASE k = 2
  <2>1. k + 1 = 3 /\ 2 # 0 /\ 2 # 1 /\ 3 # 0 /\ 3 # 1 /\ 3 # 2
    BY <1>5
  <2> QED
    BY Zenon, <1>2, <1>5, <2>1 DEF Applied
<1> QED
  BY <1>1, <1>3, <1>4, <1>5

LEMMA WritesOf ==
  ASSUME NEW job \in Jobs
  PROVE  /\ Writes(job) \in Seq(WriteRecords) /\ Len(Writes(job)) \in Nat \ {0}
         /\ job.kind = "restore" => Writes(job) = Restore /\ Len(Writes(job)) = 5
<1>1. CASE job.kind # "restore"
  <2>1. Copies(Writes(job))
    BY Zenon, <1>1, JobCopies
  <2>2. Writes(job) \in Seq(WriteRecords) /\ Len(Writes(job)) \in 1 .. 3
    BY Zenon, <2>1 DEF Copies
  <2>3. 1 .. 3 \subseteq Nat \ {0}
    OBVIOUS
  <2> QED
    BY Zenon, <1>1, <2>2, <2>3
<1>2. CASE job.kind = "restore"
  <2>1. Writes(job) = Restore
    BY <1>2 DEF Writes
  <2>2. ASSUME NEW bytes \in Seq(Bytes) PROVE Bits(bytes) \in WriteRecords
    BY DEF Bits, WriteRecords
  <2>3. <<>> \in Seq(Bytes)
    OBVIOUS
  <2>4. Swap \in WriteRecords
    BY <2>3 DEF Swap, WriteRecords
  <2>5. PICK x \in WriteRecords : x = Copy(2, SubSeq(Original, 3, Len(Original)))
    BY Zenon, CopyRecord, OriginalParts
  <2>6. PICK y \in WriteRecords, z \in WriteRecords :
          y = Bits(PayloadLock) /\ z = Bits(SubSeq(Original, 1, 2))
    BY Zenon, <2>2, LockBytes, OriginalParts
  <2>7. Restore = <<y, Swap, x, z, Swap>>
    BY Zenon, <2>5, <2>6 DEF Restore
  <2> QED
    BY <2>1, <2>4, <2>7
<1> QED
  BY Zenon, <1>1, <1>2

(* The job goes on as far as one more write.                               *)
LEMMA JobAdvances ==
  ASSUME NEW job \in Jobs, NEW m, NEW b, NEW k \in 0 .. Len(Writes(job)) - 1, Reached(job, k, m, b)
  PROVE  LET w == Writes(job)[k + 1]
         IN Reached(job, k + 1, FunctionAfter(w, m, b), BitsAfter(w, m, b))
<1>1. CASE job.kind = "restore"
  <2>1. Writes(job) = Restore /\ Len(Writes(job)) = 5
    BY Zenon, <1>1, WritesOf
  <2>2. k \in 0 .. 4
    BY <2>1
  <2> QED
    BY Zenon, <1>1, <2>1, <2>2, RestoreAdvances DEF Reached
<1>2. CASE job.kind # "restore"
  <2>1. Copies(Writes(job)) /\ m = Applied(Writes(job), k)
    BY Zenon, <1>2, JobCopies DEF Reached
  <2> QED
    BY Zenon, <1>2, <2>1, CopyAdvances DEF Reached
<1> QED
  BY Zenon, <1>1, <1>2

LEMMA JobStarts ==
  ASSUME NEW job \in Jobs, NEW b PROVE Reached(job, 0, Before(job), b)
<1>1. CASE job.kind = "restore"
  BY Zenon, <1>1, RestoreStarts DEF Reached
<1>2. CASE job.kind # "restore"
  BY Zenon, <1>2 DEF Reached, Before, Applied
<1> QED
  BY Zenon, <1>1, <1>2

(* What is left of a sequence of writes.                                   *)
Drops(e, s, k) == Len(e) = Len(s) - k /\ \A i \in 1 .. Len(s) - k : e[i] = s[k + i]

LEMMA TailDrops ==
  ASSUME NEW S, NEW s \in Seq(S), Len(s) > 0
  PROVE  Tail(s) \in Seq(S) /\ Drops(Tail(s), s, 1)
<1>1. Tail(s) \in Seq(S) /\ Len(Tail(s)) = Len(s) - 1
  OBVIOUS
<1>2. ASSUME NEW i \in 1 .. Len(s) - 1 PROVE Tail(s)[i] = s[1 + i]
  OBVIOUS
<1> QED
  BY Zenon, <1>1, <1>2 DEF Drops

LEMMA SuffixDrops ==
  ASSUME NEW S, NEW s \in Seq(S), NEW k \in 0 .. Len(s)
  PROVE  SubSeq(s, k + 1, Len(s)) \in Seq(S) /\ Drops(SubSeq(s, k + 1, Len(s)), s, k)
<1> DEFINE e == SubSeq(s, k + 1, Len(s))
<1>1. e \in Seq(S) /\ Len(e) = Len(s) - k
  OBVIOUS
<1>2. ASSUME NEW i \in 1 .. Len(s) - k PROVE e[i] = s[k + i]
  BY <1>1
<1> QED
  BY Zenon, <1>1, <1>2 DEF Drops

LEMMA DropsOnce ==
  ASSUME NEW S, NEW s \in Seq(S), NEW k \in 0 .. Len(s), NEW e \in Seq(S), NEW f \in Seq(S),
         Drops(e, s, k), Drops(f, s, k)
  PROVE  e = f
<1>1. Len(e) = Len(f) /\ \A i \in 1 .. Len(e) : e[i] = f[i]
  BY DEF Drops
<1> QED
  BY <1>1

LEMMA DropsMore ==
  ASSUME NEW S, NEW s \in Seq(S), NEW k \in 0 .. Len(s) - 1, NEW e \in Seq(S), NEW f \in Seq(S),
         Drops(e, s, k), Drops(f, e, 1)
  PROVE  Drops(f, s, k + 1)
<1>1. Len(s) \in Nat /\ Len(e) = Len(s) - k /\ Len(f) = Len(s) - (k + 1)
  BY DEF Drops
<1>2. ASSUME NEW i \in 1 .. Len(s) - (k + 1) PROVE f[i] = s[k + 1 + i]
  <2>1. i \in 1 .. Len(e) - 1 /\ 1 + i \in 1 .. Len(s) - k /\ k + (1 + i) = k + 1 + i
    BY <1>1
  <2>2. f[i] = e[1 + i] /\ e[1 + i] = s[k + (1 + i)]
    BY Zenon, <2>1 DEF Drops
  <2> QED
    BY Zenon, <2>1, <2>2
<1> QED
  BY Zenon, <1>1, <1>2 DEF Drops

LEMMA SuffixTail ==
  ASSUME NEW S, NEW s \in Seq(S), NEW k \in 0 .. Len(s) - 1
  PROVE  LET e == SubSeq(s, k + 1, Len(s))
         IN /\ Head(e) = s[k + 1] /\ (Len(e) = 1 <=> k + 1 = Len(s))
            /\ Tail(e) = SubSeq(s, k + 2, Len(s))
<1>1. PICK e : e = SubSeq(s, k + 1, Len(s)) /\ e \in Seq(S) /\ Drops(e, s, k)
  <2>1. k \in 0 .. Len(s)
    OBVIOUS
  <2> QED
    BY Zenon, <2>1, SuffixDrops
<1>2. PICK n \in Nat : n = Len(s)
  OBVIOUS
<1>3. Len(e) = n - k /\ n - k > 0 /\ (n - k = 1 <=> k + 1 = n) /\ 1 \in 1 .. n - k
  <2>1. Len(e) = n - k
    BY Zenon, <1>1, <1>2 DEF Drops
  <2>2. n - k > 0 /\ (n - k = 1 <=> k + 1 = n) /\ 1 \in 1 .. n - k
    BY <1>2
  <2> QED
    BY Zenon, <2>1, <2>2
<1>4. Head(e) = s[k + 1]
  <2>1. e[1] = s[k + 1]
    BY Zenon, <1>1, <1>2, <1>3 DEF Drops
  <2> QED
    BY <1>1, <1>3, <2>1
<1>5. PICK f : f = Tail(e) /\ f \in Seq(S) /\ Drops(f, e, 1)
  BY Zenon, <1>1, <1>3, TailDrops
<1>6. Drops(f, s, k + 1)
  BY Zenon, <1>1, <1>5, DropsMore
<1>7. PICK j \in 0 .. Len(s) : j = k + 1 /\ j + 1 = k + 2
  BY <1>2
<1>8. PICK g : g = SubSeq(s, j + 1, Len(s)) /\ g \in Seq(S) /\ Drops(g, s, j)
  BY Zenon, SuffixDrops
<1>9. f = g
  BY Zenon, <1>5, <1>6, <1>7, <1>8, DropsOnce
<1> QED
  BY Zenon, <1>1, <1>2, <1>3, <1>4, <1>5, <1>7, <1>8, <1>9

(* Parts of a sequence, and when two are the same.                         *)
Part(e, s, a, n) == Len(e) = n /\ \A i \in 1 .. n : e[i] = s[a + i]

LEMMA PartOf ==
  ASSUME NEW S, NEW s \in Seq(S), NEW a \in Nat, NEW n \in Nat, a + n <= Len(s)
  PROVE  SubSeq(s, a + 1, a + n) \in Seq(S) /\ Part(SubSeq(s, a + 1, a + n), s, a, n)
<1> DEFINE e == SubSeq(s, a + 1, a + n)
<1>1. e \in Seq(S) /\ Len(e) = n
  OBVIOUS
<1>2. ASSUME NEW i \in 1 .. n PROVE e[i] = s[a + i]
  BY <1>1
<1> QED
  BY Zenon, <1>1, <1>2 DEF Part

Same(e, f, n) == Len(e) = n /\ Len(f) = n /\ \A i \in 1 .. n : e[i] = f[i]

LEMMA Equal ==
  ASSUME NEW S, NEW e \in Seq(S), NEW f \in Seq(S), NEW n \in Nat, Same(e, f, n)
  PROVE  e = f
  BY DEF Same

LEMMA Element == ASSUME NEW S, NEW e \in Seq(S), NEW i \in 1 .. Len(e) PROVE e[i] \in S
  OBVIOUS

LEMMA Pair ==
  ASSUME NEW S, NEW a \in S, NEW b \in S
  PROVE  <<a, b>> \in Seq(S) /\ Len(<<a, b>>) = 2 /\ <<a, b>>[1] = a /\ <<a, b>>[2] = b
  OBVIOUS

LEMMA FirstTwo ==
  ASSUME NEW S, NEW m \in Seq(S), 2 <= Len(m)
  PROVE  SubSeq(m, 1, 2) = <<m[1], m[2]>>
<1>1. PICK z \in Nat, n \in Nat :
        z + n <= Len(m) /\ z + 1 = 1 /\ z + n = 2 /\ n = 2 /\ z + 2 = 2 /\ 1 \in 1 .. n /\ 2 \in 1 .. n
  <2>1. /\ 0 + 2 <= Len(m) /\ 0 + 1 = 1 /\ 0 + 2 = 2 /\ 1 \in 1 .. 2 /\ 2 \in 1 .. 2
        /\ 0 \in Nat /\ 2 \in Nat
    OBVIOUS
  <2> QED
    BY Zenon, <2>1
<1>2. PICK e \in Seq(S) : e = SubSeq(m, z + 1, z + n) /\ Part(e, m, z, n)
  BY Zenon, <1>1, PartOf
<1>3. Len(e) = 2 /\ e[1] = m[1] /\ e[2] = m[2]
  BY Zenon, <1>1, <1>2 DEF Part
<1>4. m[1] \in S /\ m[2] \in S
  BY Zenon, <1>1, <1>3, Element
<1>5. PICK f : f = <<m[1], m[2]>>
  BY Zenon
<1>6. f \in Seq(S) /\ Len(f) = 2 /\ f[1] = m[1] /\ f[2] = m[2]
  BY Zenon, <1>4, <1>5, Pair
<1>7. \A i \in 1 .. 2 : i = 1 \/ i = 2
  OBVIOUS
<1>8. Same(e, f, n)
  BY Zenon, <1>1, <1>3, <1>6, <1>7 DEF Same
<1>9. e = f
  BY Zenon, <1>6, <1>8, Equal
<1> QED
  BY Zenon, <1>1, <1>2, <1>5, <1>9

Joins(c, w, z, n, k) ==
  /\ Len(c) = n + k
  /\ \A i \in 1 .. n : c[i] = w[i]
  /\ \A i \in 1 .. k : c[n + i] = z[i]

LEMMA Joined ==
  ASSUME NEW S, NEW w \in Seq(S), NEW z \in Seq(S), NEW n \in Nat, NEW k \in Nat,
         Len(w) = n, Len(z) = k
  PROVE  w \o z \in Seq(S) /\ Joins(w \o z, w, z, n, k)
<1>1. w \o z \in Seq(S) /\ Len(w \o z) = n + k
  OBVIOUS
<1>2. ASSUME NEW i \in 1 .. n PROVE (w \o z)[i] = w[i]
  OBVIOUS
<1>3. ASSUME NEW i \in 1 .. k PROVE (w \o z)[n + i] = z[i]
  OBVIOUS
<1> QED
  BY Zenon, <1>1, <1>2, <1>3 DEF Joins

-----------------------------------------------------------------------------
(* A thread that writes has made the first writes of its job, and one that *)
(* is idle all of them.                                                    *)
Midway(job, rest, done, m, b) ==
  \E k \in 0 .. Len(Writes(job)) - 1 :
    /\ rest = SubSeq(Writes(job), k + 1, Len(Writes(job)))
    /\ Reached(job, IF done THEN k + 1 ELSE k, m, b)

Progress(t) ==
  /\ pc[t] \in {"clear", "write", "set", "fault"} =>
       want[t] \in PatchesOf[t] /\ Midway(want[t], todo[t], pc[t] = "set", memory[t], bits[t])
  /\ pc[t] = "idle" =>
       \/ want[t].kind \in {"none", "code", "data"} /\ memory[t] = Original
       \/ want[t] \in PatchesOf[t]
          /\ Reached(want[t], Len(Writes(want[t])), memory[t], bits[t])
  /\ pc[t] = "malloc" => want[t].kind = "memory"
  /\ pc[t] = "nx" => want[t].kind \in {"code", "data"} /\ memory[t] = Original

ProgressInv ==
  /\ pc \in [Threads -> Labels]
  /\ DOMAIN want = Threads /\ DOMAIN todo = Threads
  /\ DOMAIN memory = Threads /\ DOMAIN bits = Threads
  /\ \A t \in Threads : Progress(t)

LEMMA JobOf == ASSUME NEW t \in Threads, NEW job \in PatchesOf[t] PROVE job \in Jobs
  BY Zenon DEF Jobs

(* The first write is still to come, or one more is made, or there is one  *)
(* write less to make.                                                     *)
LEMMA MidwayStarts ==
  ASSUME NEW job \in Jobs, NEW b PROVE Midway(job, Writes(job), FALSE, Before(job), b)
<1>1. PICK n \in Nat \ {0}, W \in Seq(WriteRecords) : W = Writes(job) /\ n = Len(W)
  BY Zenon, WritesOf
<1>2. PICK k \in 0 .. n - 1 : k = 0
  OBVIOUS
<1>3. W = SubSeq(W, k + 1, n)
  BY <1>1, <1>2
<1>4. Reached(job, k, Before(job), b)
  BY Zenon, <1>2, JobStarts
<1> QED
  BY Zenon, <1>1, <1>3, <1>4 DEF Midway

LEMMA MidwayWrites ==
  ASSUME NEW job \in Jobs, NEW rest, NEW m, NEW b, Midway(job, rest, FALSE, m, b), NEW w, w = Head(rest)
  PROVE  Midway(job, rest, TRUE, FunctionAfter(w, m, b), BitsAfter(w, m, b))
<1>1. PICK k \in 0 .. Len(Writes(job)) - 1 :
        rest = SubSeq(Writes(job), k + 1, Len(Writes(job))) /\ Reached(job, k, m, b)
  BY Zenon DEF Midway
<1>2. w = Writes(job)[k + 1]
  BY Zenon, <1>1, SuffixTail, WritesOf
<1>3. Reached(job, k + 1, FunctionAfter(w, m, b), BitsAfter(w, m, b))
  BY Zenon, <1>1, <1>2, JobAdvances
<1> QED
  BY Zenon, <1>1, <1>3 DEF Midway

LEMMA MidwayLeft ==
  ASSUME NEW job \in Jobs, NEW rest, NEW m, NEW b, Midway(job, rest, TRUE, m, b)
  PROVE  IF Len(rest) = 1 THEN Reached(job, Len(Writes(job)), m, b)
         ELSE Midway(job, Tail(rest), FALSE, m, b)
<1>1. PICK n \in Nat \ {0}, W \in Seq(WriteRecords) : W = Writes(job) /\ n = Len(W)
  BY Zenon, WritesOf
<1>2. PICK k \in 0 .. n - 1 : rest = SubSeq(W, k + 1, n) /\ Reached(job, k + 1, m, b)
  BY Zenon, <1>1 DEF Midway
<1>3. (Len(rest) = 1 <=> k + 1 = n) /\ Tail(rest) = SubSeq(W, k + 2, n)
  BY Zenon, <1>1, <1>2, SuffixTail
<1>4. CASE k + 1 = n
  BY Zenon, <1>1, <1>2, <1>3, <1>4
<1>5. CASE k + 1 # n
  <2>1. PICK j \in 0 .. n - 1 : j = k + 1 /\ j + 1 = k + 2
    BY <1>5
  <2>2. Midway(job, Tail(rest), FALSE, m, b)
    BY Zenon, <1>1, <1>2, <1>3, <2>1 DEF Midway
  <2> QED
    BY Zenon, <1>3, <1>5, <2>2
<1> QED
  BY Zenon, <1>4, <1>5

(* A step of another thread.                                               *)
LEMMA ProgressElsewhere ==
  ASSUME NEW u \in Threads, Progress(u), pc'[u] = pc[u], want'[u] = want[u], todo'[u] = todo[u],
         memory'[u] = memory[u], bits'[u] = bits[u]
  PROVE  Progress(u)'
  BY Zenon DEF Progress

LEMMA ProgressStep ==
  ASSUME ProgressInv, [Next]_vars
  PROVE  ProgressInv'
<1> DEFINE Functions == /\ pc' \in [Threads -> Labels]
                        /\ DOMAIN want' = Threads /\ DOMAIN todo' = Threads
                        /\ DOMAIN memory' = Threads /\ DOMAIN bits' = Threads
           Others(t) == \A u \in Threads : u # t =>
                          /\ pc'[u] = pc[u] /\ want'[u] = want[u] /\ todo'[u] = todo[u]
                          /\ memory'[u] = memory[u] /\ bits'[u] = bits[u]
<1>1. CASE UNCHANGED vars
  BY Zenon, <1>1 DEF vars, ProgressInv, Progress
<1>2. ASSUME NEW t \in Threads, Functions, Others(t), Progress(t)' PROVE ProgressInv'
  <2>1. ASSUME NEW u \in Threads PROVE Progress(u)'
    BY Zenon, <1>2, ProgressElsewhere DEF ProgressInv
  <2> QED
    BY Zenon, <1>2, <2>1 DEF ProgressInv
<1>3. ASSUME NEW t \in Threads, Step(t) PROVE ProgressInv'
  <2>1. /\ Progress(t) /\ pc \in [Threads -> Labels] /\ DOMAIN want = Threads
        /\ DOMAIN todo = Threads /\ DOMAIN memory = Threads /\ DOMAIN bits = Threads
    BY Zenon DEF ProgressInv
  <2>2. CASE Migrate(t)
    BY Zenon, <2>2 DEF Migrate, ProgressInv, Progress
  <2>3. CASE Begin(t)
    <3>1. PICK job \in PatchesOf[t] :
            /\ pc[t] = "idle" /\ pc' = [pc EXCEPT ![t] = "clear"] /\ want' = [want EXCEPT ![t] = job]
            /\ todo' = [todo EXCEPT ![t] = Writes(job)] /\ memory' = [memory EXCEPT ![t] = Before(job)]
            /\ bits' = [bits EXCEPT ![t] = <<0, 0>>]
      BY Zenon, <2>3 DEF Begin, Goto
    <3>2. Functions /\ Others(t)
      BY <2>1, <3>1 DEF Labels
    <3>3. /\ pc'[t] = "clear" /\ want'[t] = job /\ todo'[t] = Writes(job)
          /\ memory'[t] = Before(job)
      BY <2>1, <3>1
    <3>4. Midway(job, Writes(job), FALSE, Before(job), bits'[t])
      BY Zenon, JobOf, MidwayStarts
    <3>5. Progress(t)'
      BY Zenon, <3>3, <3>4 DEF Progress
    <3> QED
      BY Zenon, <1>2, <3>2, <3>5
  <2>4. CASE WriteDisable(t)
    <3>1. /\ pc[t] = "clear" /\ pc' = [pc EXCEPT ![t] = "write"]
          /\ UNCHANGED <<memory, bits, want, todo>>
      BY Zenon, <2>4 DEF WriteDisable, Goto
    <3>2. Functions /\ Others(t) /\ pc'[t] = "write"
      BY <2>1, <3>1 DEF Labels
    <3>3. Progress(t)'
      BY Zenon, <2>1, <3>1, <3>2 DEF Progress
    <3> QED
      BY Zenon, <1>2, <3>2, <3>3
  <2>5. CASE Write(t)
    <3>1. pc[t] = "write" /\ UNCHANGED <<want, todo>>
      BY Zenon, <2>5 DEF Write
    <3>2. CASE pc' = [pc EXCEPT ![t] = "fault"] /\ UNCHANGED <<memory, bits>>
      <4>1. Functions /\ Others(t) /\ pc'[t] = "fault"
        BY <2>1, <3>1, <3>2 DEF Labels
      <4>2. Progress(t)'
        BY Zenon, <2>1, <3>1, <3>2, <4>1 DEF Progress
      <4> QED
        BY Zenon, <1>2, <4>1, <4>2
    <3>3. ASSUME NEW w, w = Head(todo[t]), pc' = [pc EXCEPT ![t] = "set"],
                 memory' = [memory EXCEPT ![t] = FunctionAfter(w, @, bits[t])],
                 bits' = [bits EXCEPT ![t] = BitsAfter(w, memory[t], @)]
          PROVE  ProgressInv'
      <4>1. Functions /\ Others(t)
        BY <2>1, <3>1, <3>3 DEF Labels
      <4>2. /\ pc'[t] = "set" /\ memory'[t] = FunctionAfter(w, memory[t], bits[t])
            /\ bits'[t] = BitsAfter(w, memory[t], bits[t])
        BY <2>1, <3>3
      <4>3. want[t] \in PatchesOf[t] /\ Midway(want[t], todo[t], FALSE, memory[t], bits[t])
        BY Zenon, <2>1, <3>1 DEF Progress
      <4>4. Midway(want[t], todo[t], TRUE, memory'[t], bits'[t])
        <5>1. want[t] \in Jobs
          BY Zenon, <4>3, JobOf
        <5>2. Midway(want[t], todo[t], TRUE, FunctionAfter(w, memory[t], bits[t]),
                     BitsAfter(w, memory[t], bits[t]))
          BY Zenon, <3>3, <4>3, <5>1, MidwayWrites
        <5> QED
          BY Zenon, <4>2, <5>2
      <4>5. Progress(t)'
        BY Zenon, <3>1, <4>2, <4>3, <4>4 DEF Progress
      <4> QED
        BY Zenon, <1>2, <4>1, <4>5
    <3> QED
      BY Zenon, <2>5, <3>2, <3>3 DEF Write, Goto
  <2>6. CASE WriteEnable(t)
    <3>1. /\ pc[t] = "set" /\ pc' = [pc EXCEPT ![t] = IF Len(todo[t]) = 1 THEN "idle" ELSE "clear"]
          /\ todo' = [todo EXCEPT ![t] = Tail(@)] /\ UNCHANGED <<memory, bits, want>>
      BY Zenon, <2>6 DEF WriteEnable, Goto
    <3>2. Functions /\ Others(t)
      BY <2>1, <3>1 DEF Labels
    <3>3. /\ pc'[t] = (IF Len(todo[t]) = 1 THEN "idle" ELSE "clear") /\ todo'[t] = Tail(todo[t])
      BY <2>1, <3>1
    <3>4. want[t] \in PatchesOf[t] /\ Midway(want[t], todo[t], TRUE, memory[t], bits[t])
      BY Zenon, <2>1, <3>1 DEF Progress
    <3>5. IF Len(todo[t]) = 1 THEN Reached(want[t], Len(Writes(want[t])), memory[t], bits[t])
          ELSE Midway(want[t], Tail(todo[t]), FALSE, memory[t], bits[t])
      BY Zenon, <3>4, JobOf, MidwayLeft
    <3>6. Progress(t)'
      <4>1. CASE Len(todo[t]) = 1
        <5>1. pc'[t] = "idle"
          BY Zenon, <3>3, <4>1
        <5>2. Reached(want[t], Len(Writes(want[t])), memory[t], bits[t])
          BY Zenon, <3>5, <4>1
        <5> QED
          BY Zenon, <3>1, <3>4, <5>1, <5>2 DEF Progress
      <4>2. CASE Len(todo[t]) # 1
        <5>1. pc'[t] = "clear"
          BY Zenon, <3>3, <4>2
        <5>2. Midway(want[t], todo'[t], FALSE, memory[t], bits[t])
          BY Zenon, <3>3, <3>5, <4>2
        <5> QED
          BY Zenon, <3>1, <3>4, <5>1, <5>2 DEF Progress
      <4> QED
        BY Zenon, <4>1, <4>2
    <3> QED
      BY Zenon, <1>2, <3>2, <3>6
  <2>7. CASE ExecuteDisable(t)
    <3>1. /\ pc' = [pc EXCEPT ![t] = "malloc"] /\ want' = [want EXCEPT ![t] = Job("memory", <<>>)]
          /\ UNCHANGED <<memory, bits, todo>>
      BY Zenon, <2>7 DEF ExecuteDisable, Goto
    <3>2. Functions /\ Others(t) /\ pc'[t] = "malloc" /\ want'[t].kind = "memory"
      BY <2>1, <3>1 DEF Labels, Job
    <3>3. Progress(t)'
      BY Zenon, <3>2 DEF Progress
    <3> QED
      BY Zenon, <1>2, <3>2, <3>3
  <2>8. CASE Malloc(t)
    <3>1. /\ pc' = [pc EXCEPT ![t] = "nx"] /\ memory' = [memory EXCEPT ![t] = Original]
          /\ want' = [want EXCEPT ![t] = Job(IF nx THEN "data" ELSE "code", <<>>)]
          /\ UNCHANGED <<bits, todo>>
      BY Zenon, <2>8 DEF Malloc, Goto
    <3>2. /\ Functions /\ Others(t) /\ pc'[t] = "nx" /\ want'[t].kind \in {"code", "data"}
          /\ memory'[t] = Original
      BY <2>1, <3>1 DEF Labels, Job
    <3>3. Progress(t)'
      BY Zenon, <3>2 DEF Progress
    <3> QED
      BY Zenon, <1>2, <3>2, <3>3
  <2>9. CASE ExecuteEnable(t)
    <3>1. /\ pc[t] = "nx" /\ pc' = [pc EXCEPT ![t] = "idle"]
          /\ UNCHANGED <<memory, want, bits, todo>>
      BY Zenon, <2>9 DEF ExecuteEnable, Goto
    <3>2. Functions /\ Others(t) /\ pc'[t] = "idle"
      BY <2>1, <3>1 DEF Labels
    <3>3. Progress(t)'
      BY Zenon, <2>1, <3>1, <3>2 DEF Progress
    <3> QED
      BY Zenon, <1>2, <3>2, <3>3
  <2> QED
    BY Zenon, <1>3, <2>2, <2>3, <2>4, <2>5, <2>6, <2>7, <2>8, <2>9 DEF Step
<1> QED
  BY Zenon, <1>1, <1>3 DEF Next

LEMMA ProgressInit == ASSUME Init PROVE ProgressInv
<1>1. pc \in [Threads -> Labels]
  BY DEF Init, Labels
<1>2. /\ DOMAIN want = Threads /\ DOMAIN todo = Threads
      /\ DOMAIN memory = Threads /\ DOMAIN bits = Threads
  BY Zenon DEF Init
<1>3. ASSUME NEW t \in Threads PROVE Progress(t)
  <2>1. pc[t] = "idle" /\ want[t].kind = "none" /\ memory[t] = Original
    BY DEF Init, Job
  <2> QED
    BY <2>1 DEF Progress
<1> QED
  BY Zenon, <1>1, <1>2, <1>3 DEF ProgressInv

LEMMA RestoreWhole ==
  ASSUME NEW job, NEW k \in 0 .. 5, NEW m, NEW b, Restored(job, k, m, b)
  PROVE  m \in {Before(job), Original} \/ SubSeq(m, 1, 2) = PayloadLock
<1>1. CASE k \in {0, 1, 5}
  BY <1>1 DEF Restored
<1>2. CASE k \in {2, 3, 4}
  <2>1. m \in Seq(Bytes) /\ Len(m) = Len(Original)
    BY Zenon DEF Restored
  <2>2. m[1] = 235 /\ m[2] = 252
    BY Zenon, <1>2 DEF Restored
  <2>3. 2 <= Len(m)
    BY <2>1, OriginalParts
  <2>4. SubSeq(m, 1, 2) = <<m[1], m[2]>>
    BY Zenon, <2>1, <2>3, FirstTwo
  <2>5. <<m[1], m[2]>> = PayloadLock
    BY Zenon, <2>2 DEF PayloadLock
  <2> QED
    BY Zenon, <2>4, <2>5
<1> QED
  BY <1>1, <1>2

LEMMA Whole == ASSUME ProgressInv PROVE WholeUnlessLocked
<1> SUFFICES ASSUME NEW t \in Threads, want[t].kind = "restore"
             PROVE  \/ memory[t] \in {Before(want[t]), Original}
                    \/ SubSeq(memory[t], 1, 2) = PayloadLock
  BY Zenon DEF WholeUnlessLocked, Is
<1>1. pc[t] \in Labels /\ Progress(t)
  BY DEF ProgressInv
<1>2. ASSUME want[t] \in PatchesOf[t]
      PROVE  /\ Len(Writes(want[t])) = 5
             /\ \A k \in 0 .. 5 : Reached(want[t], k, memory[t], bits[t]) =>
                  \/ memory[t] \in {Before(want[t]), Original}
                  \/ SubSeq(memory[t], 1, 2) = PayloadLock
  BY Zenon, <1>2, JobOf, WritesOf, RestoreWhole DEF Reached
<1>3. CASE pc[t] \in {"clear", "write", "set", "fault"}
  <2>1. want[t] \in PatchesOf[t] /\ Midway(want[t], todo[t], pc[t] = "set", memory[t], bits[t])
    BY Zenon, <1>1, <1>3 DEF Progress
  <2>2. PICK k \in 0 .. Len(Writes(want[t])) - 1 :
          Reached(want[t], IF pc[t] = "set" THEN k + 1 ELSE k, memory[t], bits[t])
    BY Zenon, <2>1 DEF Midway
  <2>3. (IF pc[t] = "set" THEN k + 1 ELSE k) \in 0 .. 5
    <3>1. Len(Writes(want[t])) = 5
      BY Zenon, <1>2, <2>1
    <3> QED
      BY <3>1
  <2> QED
    BY Zenon, <1>2, <2>1, <2>2, <2>3
<1>4. CASE pc[t] = "idle"
  <2>1. want[t] \in PatchesOf[t] /\ Reached(want[t], Len(Writes(want[t])), memory[t], bits[t])
    <3>1. want[t].kind \notin {"none", "code", "data"}
      OBVIOUS
    <3> QED
      BY Zenon, <1>1, <1>4, <3>1 DEF Progress
  <2>2. Len(Writes(want[t])) \in 0 .. 5
    <3>1. Len(Writes(want[t])) = 5
      BY Zenon, <1>2, <2>1
    <3> QED
      BY <3>1
  <2> QED
    BY Zenon, <1>2, <2>1, <2>2
<1>5. CASE pc[t] \in {"malloc", "nx"}
  BY <1>1, <1>5 DEF Progress
<1> QED
  BY Zenon, <1>1, <1>3, <1>4, <1>5 DEF Labels

-----------------------------------------------------------------------------
(* The patch a function is recognised to carry.                            *)
Tells(kind, m) ==
  /\ kind = "jump" <=> JumpIsPatched(m)
  /\ kind = "return" <=> ReturnIsPatched(m)
  /\ kind = "function" <=> FunctionHookPrologueIsPatched(m)
  /\ kind = "system_call" <=> SystemCallHookPrologueIsPatched(m)
  /\ kind = "hidden" <=> HiddenInformationIsPatched(m)

LEMMA Told ==
  ASSUME NEW m
  PROVE  /\ m[1] = 73 /\ m[2] = 187 /\ m[11] = 65 /\ m[12] = 255 /\ m[13] = 227 => Tells("jump", m)
         /\ m[1] = 65 /\ m[2] = 187 /\ m[7] = 65 /\ m[8] = 255 /\ m[9] = 227 => Tells("jump", m)
         /\ m[1] = 72 /\ m[2] = 184 /\ m[11] = 195 => Tells("return", m)
         /\ m[1] = 184 /\ m[6] = 195 => Tells("return", m)
         /\ m[1] = 72 /\ m[2] = 49 /\ m[3] = 192 /\ m[4] = 195 => Tells("return", m)
         /\ /\ m[1] = 73 /\ m[2] = 187
            /\ m[11] = 240 /\ m[12] = 73 /\ m[13] = 255 /\ m[14] = 67 /\ m[15] = 16
            => Tells("function", m)
         /\ /\ m[1] = 73 /\ m[2] = 187
            /\ m[11] = 240 /\ m[12] = 73 /\ m[13] = 255 /\ m[14] = 67 /\ m[15] = 24
            => Tells("system_call", m)
         /\ m[1] = 235 /\ m[2] <= 127 => Tells("hidden", m)
  BY Compared DEF Tells, JumpIsPatched, ReturnIsPatched, FunctionHookPrologueIsPatched,
     SystemCallHookPrologueIsPatched, HiddenInformationIsPatched

LEMMA OriginalTold ==
  ASSUME NEW kind, kind \notin Kinds \ {"restore"} PROVE Tells(kind, Original)
  BY CodeAssumption DEF Tells, Kinds

(* A template with an operand in it.                                       *)
Holds(m, T, at, v) ==
  /\ m \in Seq(Bytes) /\ Len(m) = Len(Original)
  /\ \A i \in 1 .. Len(m) : i > at /\ i <= at + Len(v) => m[i] = v[i - at]
  /\ \A i \in 1 .. Len(m) : ~(i > at /\ i <= at + Len(v)) =>
       m[i] = IF i <= Len(T) THEN T[i] ELSE Original[i]

LEMMA OneCopy ==
  ASSUME NEW T \in Seq(Bytes), Len(T) <= Len(Original), NEW m, m = Applied(<<Copy(0, T)>>, 1)
  PROVE  Holds(m, T, 0, <<>>)
<1>1. m = Copied(Original, 0, T)
  BY DEF Applied, Copy
<1>2. Replaces(m, Original, 0, T)
  BY <1>1, CopiedBytes, OriginalParts
<1>3. T[1] = T[1] /\ Len(<<>>) = 0 /\ \A i \in 1 .. Len(Original) : i - 0 = i
  OBVIOUS
<1> QED
  BY <1>2, <1>3, OriginalParts DEF Replaces, Holds

LEMMA TwoCopies ==
  ASSUME NEW T \in Seq(Bytes), Len(T) <= Len(Original), NEW at \in Nat, NEW v \in Seq(Bytes),
         NEW m, m = Applied(<<Copy(0, T), Copy(at, v)>>, 2)
  PROVE  Holds(m, T, at, v)
<1>1. m = Copied(Copied(Original, 0, T), at, v)
  BY DEF Applied, Copy
<1>2. PICK c : c = Copied(Original, 0, T) /\ Replaces(c, Original, 0, T)
  BY CopiedBytes, OriginalParts
<1>3. c \in Seq(Bytes)
  BY Zenon, <1>2 DEF Replaces
<1>4. Replaces(m, c, at, v)
  BY Zenon, <1>1, <1>2, <1>3, CopiedBytes
<1>5. Len(Original) \in Nat /\ Len(c) = Len(Original) /\ Len(m) = Len(Original) /\ m \in Seq(Bytes)
  BY Zenon, <1>2, <1>4, OriginalParts DEF Replaces
<1>6. ASSUME NEW i \in 1 .. Len(m) PROVE c[i] = IF i <= Len(T) THEN T[i] ELSE Original[i]
  <2>1. c[i] = IF i > 0 /\ i <= 0 + Len(T) THEN T[i - 0] ELSE Original[i]
    BY Zenon, <1>2, <1>5 DEF Replaces
  <2>2. i > 0 /\ 0 + Len(T) = Len(T) /\ i - 0 = i
    BY <1>5
  <2> QED
    BY Zenon, <2>1, <2>2
<1>7. ASSUME NEW i \in 1 .. Len(m)
      PROVE  m[i] = IF i > at /\ i <= at + Len(v) THEN v[i - at] ELSE c[i]
  BY Zenon, <1>4, <1>5 DEF Replaces
<1> QED
  BY Zenon, <1>5, <1>6, <1>7 DEF Holds


(* The operand is read from where it was written; the other bytes are      *)
(* those of the template, then those of the function.                      *)
Carries(m, T, at, v) ==
  /\ m \in Seq(Bytes) /\ Len(m) = Len(Original)
  /\ SubSeq(m, at + 1, at + Len(v)) = v
  /\ \A i \in 1 .. Len(T) : ~(i > at /\ i <= at + Len(v)) => m[i] = T[i]
  /\ \A i \in Len(T) + 1 .. Len(m) : m[i] = Original[i]

LEMMA Carried ==
  ASSUME NEW T \in Seq(Bytes), NEW v \in Seq(Bytes), NEW m, NEW at \in Nat, Holds(m, T, at, v),
         at + Len(v) <= Len(T), Len(T) <= Len(Original)
  PROVE  Carries(m, T, at, v)
<1>1. PICK n \in Nat, l \in Nat, k \in Nat :
        n = Len(v) /\ l = Len(T) /\ k = Len(Original) /\ at + n <= l /\ l <= k
  <2>1. Len(v) \in Nat /\ Len(T) \in Nat /\ Len(Original) \in Nat
    BY OriginalParts
  <2> QED
    BY Zenon, <2>1
<1>2. /\ m \in Seq(Bytes) /\ Len(m) = k
      /\ \A i \in 1 .. k : i > at /\ i <= at + n => m[i] = v[i - at]
      /\ \A i \in 1 .. k : ~(i > at /\ i <= at + n) => m[i] = IF i <= l THEN T[i] ELSE Original[i]
  BY Zenon, <1>1 DEF Holds
<1>3. ASSUME NEW i \in 1 .. l, ~(i > at /\ i <= at + n) PROVE m[i] = T[i]
  <2>1. i \in 1 .. k /\ i <= l
    BY <1>1
  <2> QED
    BY Zenon, <1>2, <1>3, <2>1
<1>4. ASSUME NEW i \in l + 1 .. k PROVE m[i] = Original[i]
  <2>1. i \in 1 .. k /\ ~(i <= l) /\ ~(i <= at + n)
    BY <1>1
  <2> QED
    BY Zenon, <1>2, <2>1
<1>5. at + n <= Len(m)
  BY <1>1, <1>2
<1>6. PICK e \in Seq(Bytes) : e = SubSeq(m, at + 1, at + n) /\ Part(e, m, at, n)
  BY Zenon, <1>2, <1>5, PartOf
<1>7. ASSUME NEW i \in 1 .. n PROVE e[i] = v[i]
  <2>1. PICK j \in 1 .. k : j = at + i /\ j > at /\ j <= at + n /\ j - at = i
    BY <1>1
  <2> QED
    BY Zenon, <1>2, <1>6, <2>1 DEF Part
<1>8. Len(e) = n
  BY Zenon, <1>6 DEF Part
<1>9. Same(e, v, n)
  BY Zenon, <1>1, <1>7, <1>8 DEF Same
<1>10. e = v
  BY Zenon, <1>9, Equal
<1> QED
  BY Zenon, <1>1, <1>2, <1>3, <1>4, <1>6, <1>10 DEF Carries

LEMMA CarriedStart ==
  ASSUME NEW m, NEW T, NEW at, NEW v, Carries(m, T, at, v)
  PROVE  SubSeq(m, 1, 2) = <<m[1], m[2]>>
<1>1. m \in Seq(Bytes) /\ Len(m) = Len(Original)
  BY Zenon DEF Carries
<1>2. 2 <= Len(m)
  BY <1>1, OriginalParts
<1> QED
  BY Zenon, <1>1, <1>2, FirstTwo

LEMMA Patched ==
  ASSUME NEW T \in Seq(Bytes), Len(T) <= Len(Original), NEW at \in Nat, NEW v \in Seq(Bytes),
         at + Len(v) <= Len(T), NEW W, W = <<Copy(0, T), Copy(at, v)>>
  PROVE  Carries(Applied(W, Len(W)), T, at, v)
<1>1. Len(W) = 2
  OBVIOUS
<1> QED
  BY Zenon, <1>1, TwoCopies, Carried

(* The halves of an operand.                                               *)
LEMMA HalvesParts ==
  ASSUME NEW v \in Seq(Bytes), Len(v) = 8
  PROVE  /\ SubSeq(v, 1, 4) \in Seq(Bytes) /\ Part(SubSeq(v, 1, 4), v, 0, 4)
         /\ SubSeq(v, 5, 8) \in Seq(Bytes) /\ Part(SubSeq(v, 5, 8), v, 4, 4)
<1>1. PICK a \in Nat, n \in Nat : /\ a = 0 /\ n = 4 /\ a + 1 = 1 /\ a + n = 4 /\ a + n <= Len(v)
                                  /\ n + 1 = 5 /\ n + n = 8 /\ n + n <= Len(v)
  <2>1. /\ 0 \in Nat /\ 4 \in Nat /\ 0 + 1 = 1 /\ 0 + 4 = 4 /\ 0 + 4 <= Len(v)
        /\ 4 + 1 = 5 /\ 4 + 4 = 8 /\ 4 + 4 <= Len(v)
    OBVIOUS
  <2> QED
    BY Zenon, <2>1
<1>2. SubSeq(v, a + 1, a + n) \in Seq(Bytes) /\ Part(SubSeq(v, a + 1, a + n), v, a, n)
  BY Zenon, <1>1, PartOf
<1>3. SubSeq(v, n + 1, n + n) \in Seq(Bytes) /\ Part(SubSeq(v, n + 1, n + n), v, n, n)
  BY Zenon, <1>1, PartOf
<1> QED
  BY Zenon, <1>1, <1>2, <1>3

LEMMA Extended ==
  ASSUME NEW w \in Seq(Bytes), Len(w) = 4
  PROVE  /\ w \o Zeros(4) \in Seq(Bytes) /\ Len(w \o Zeros(4)) = 8
         /\ \A i \in 1 .. 4 : (w \o Zeros(4))[i] = w[i] /\ (w \o Zeros(4))[4 + i] = 0
<1>1. PICK n \in Nat : n = 4 /\ n + n = 8
  OBVIOUS
<1>2. PICK z : z = Zeros(4)
  BY Zenon
<1>3. z \in [1 .. 4 -> Bytes] /\ \A i \in 1 .. 4 : z[i] = 0
  BY <1>2 DEF Zeros, Bytes
<1>4. z \in [1 .. n -> Bytes]
  BY Zenon, <1>1, <1>3
<1>5. z \in Seq(Bytes) /\ Len(z) = n
  BY <1>4
<1>6. Len(w) = n
  BY Zenon, <1>1
<1>7. w \o z \in Seq(Bytes) /\ Joins(w \o z, w, z, n, n)
  BY Zenon, <1>5, <1>6, Joined
<1> QED
  BY ZenonT(60), <1>1, <1>2, <1>3, <1>7 DEF Joins

LEMMA Halves ==
  ASSUME NEW v \in Seq(Bytes), Len(v) = 8
  PROVE  /\ SubSeq(v, 1, 4) \in Seq(Bytes) /\ Len(SubSeq(v, 1, 4)) = 4
         /\ High32Zero(v) => SubSeq(v, 1, 4) \o Zeros(4) = v
         /\ SubSeq(SubSeq(v, 1, 4) \o Zeros(4), 1, 4) = SubSeq(v, 1, 4)
         /\ Fits32(v) /\ v[8] = 0 => High32Zero(v)
<1>1. PICK w \in Seq(Bytes) : w = SubSeq(v, 1, 4) /\ Part(w, v, 0, 4)
  BY Zenon, HalvesParts
<1>2. PICK h \in Seq(Bytes) : h = SubSeq(v, 5, 8) /\ Part(h, v, 4, 4)
  BY Zenon, HalvesParts
<1>3. Len(w) = 4 /\ Len(h) = 4 /\ \A i \in 1 .. 4 : w[i] = v[i] /\ h[i] = v[4 + i]
  <2>1. \A i \in 1 .. 4 : 0 + i = i
    OBVIOUS
  <2> QED
    BY Zenon, <1>1, <1>2, <2>1 DEF Part
<1>4. PICK c \in Seq(Bytes) : /\ c = w \o Zeros(4) /\ Len(c) = 8
                              /\ \A i \in 1 .. 4 : c[i] = w[i] /\ c[4 + i] = 0
  BY Zenon, <1>3, Extended
<1>5. ASSUME High32Zero(v) PROVE c = v
  <2>1. h = Zeros(4) /\ \A i \in 1 .. 4 : Zeros(4)[i] = 0
    BY Zenon, <1>2, <1>5 DEF High32Zero, Zeros
  <2>2. \A i \in 1 .. 4 : c[i] = v[i] /\ c[4 + i] = v[4 + i]
    BY Zenon, <1>3, <1>4, <2>1
  <2>3. ASSUME NEW i \in 1 .. 8 PROVE c[i] = v[i]
    <3>1. i \in 1 .. 4 \/ \E j \in 1 .. 4 : i = 4 + j
      <4>1. i = 4 + (i - 4) /\ (i \in 1 .. 4 \/ i - 4 \in 1 .. 4)
        OBVIOUS
      <4> QED
        BY Zenon, <4>1
    <3> QED
      BY Zenon, <2>2, <3>1
  <2>4. 8 \in Nat
    OBVIOUS
  <2>5. Same(c, v, 8)
    BY Zenon, <1>4, <2>3 DEF Same
  <2> QED
    BY Zenon, <2>4, <2>5, Equal
<1>6. SubSeq(c, 1, 4) = w
  <2>1. PICK e \in Seq(Bytes) : e = SubSeq(c, 1, 4) /\ Part(e, c, 0, 4)
    BY Zenon, <1>4, HalvesParts
  <2>2. 4 \in Nat /\ \A i \in 1 .. 4 : 0 + i = i
    OBVIOUS
  <2>3. Same(e, w, 4)
    BY ZenonT(60), <1>3, <1>4, <2>1, <2>2 DEF Part, Same
  <2>4. e = w
    BY Zenon, <2>2, <2>3, Equal
  <2> QED
    BY Zenon, <2>1, <2>4
<1>7. ASSUME Fits32(v), v[8] = 0 PROVE High32Zero(v)
  <2>1. h[4] = 0
    BY <1>3, <1>7
  <2>2. h # <<255, 255, 255, 255>>
    BY <2>1
  <2> QED
    BY Zenon, <1>2, <1>7, <2>2 DEF Fits32
<1> QED
  BY Zenon, <1>1, <1>3, <1>4, <1>5, <1>6, <1>7

JumpExact(v, m) ==
  /\ Tells("jump", m) /\ JumpExtractTarget(m) = v
  /\ \A i \in JumpDeterminePatchSize(v) + 1 .. Len(m) : m[i] = Original[i]

LEMMA JumpIsExact ==
  ASSUME NEW v \in Seq(Bytes), Len(v) = 8, NEW m, m = Applied(JumpPatch(v), Len(JumpPatch(v)))
  PROVE  JumpExact(v, m)
<1>1. CASE High32Zero(v)
  <2>1. PICK w \in Seq(Bytes) : w = SubSeq(v, 1, 4)
    BY Zenon, Halves
  <2>width. Len(w) = 4
    BY Zenon, <2>1, Halves
  <2>2. Jump32 \in Seq(Bytes) /\ Len(Jump32) = 9
    BY TemplateSequences DEF Jump32
  <2>3. Len(Jump32) <= Len(Original) /\ 2 \in Nat /\ 2 + Len(w) <= Len(Jump32)
    BY <2>width, <2>2, OriginalParts
  <2>4. Carries(m, Jump32, 2, w)
    BY Zenon, <1>1, <2>1, <2>2, <2>3, Patched DEF JumpPatch
  <2>ends. 2 + 1 = 3 /\ 2 + 4 = 6
    OBVIOUS
  <2>5. SubSeq(m, 3, 6) = w
    BY Zenon, <2>width, <2>ends, <2>4 DEF Carries
  <2>6. m[1] = 65 /\ m[2] = 187 /\ m[7] = 65 /\ m[8] = 255 /\ m[9] = 227
    <3>1. \A i \in 1 .. Len(Jump32) : ~(i > 2 /\ i <= 2 + Len(w)) => m[i] = Jump32[i]
      BY Zenon, <2>4 DEF Carries
    <3> QED
      BY <2>width, <2>2, <3>1 DEF Jump32
  <2>7. Tells("jump", m) /\ CompareNonZeros(Jump32, m)
    BY <2>6, Told, Compared
  <2>8. JumpExtractTarget(m) = v
    BY Zenon, <1>1, <2>1, <2>5, <2>7, Halves DEF JumpExtractTarget
  <2> QED
    BY Zenon, <1>1, <2>4, <2>7, <2>8 DEF JumpExact, JumpDeterminePatchSize, Carries
<1>2. CASE ~High32Zero(v)
  <2>1. Jump64 \in Seq(Bytes) /\ Len(Jump64) = 13
    BY TemplateSequences DEF Jump64
  <2>2. Len(Jump64) <= Len(Original) /\ 2 \in Nat /\ 2 + Len(v) <= Len(Jump64)
    BY <2>1, OriginalParts
  <2>3. Carries(m, Jump64, 2, v)
    BY Zenon, <1>2, <2>1, <2>2, Patched DEF JumpPatch
  <2>ends. 2 + 1 = 3 /\ 2 + 8 = 10
    OBVIOUS
  <2>4. SubSeq(m, 3, 10) = v
    BY Zenon, <2>ends, <2>3 DEF Carries
  <2>5. m[1] = 73 /\ m[2] = 187 /\ m[11] = 65 /\ m[12] = 255 /\ m[13] = 227
    <3>1. \A i \in 1 .. Len(Jump64) : ~(i > 2 /\ i <= 2 + Len(v)) => m[i] = Jump64[i]
      BY Zenon, <2>3 DEF Carries
    <3> QED
      BY <2>1, <3>1 DEF Jump64
  <2>6. Tells("jump", m) /\ ~CompareNonZeros(Jump32, m) /\ CompareNonZeros(Jump64, m)
    BY <2>5, Told, Compared
  <2>7. JumpExtractTarget(m) = v
    BY Zenon, <2>4, <2>6 DEF JumpExtractTarget
  <2> QED
    BY Zenon, <1>2, <2>3, <2>6, <2>7 DEF JumpExact, JumpDeterminePatchSize, Carries
<1> QED
  BY Zenon, <1>1, <1>2

ReturnExact(v, m) ==
  /\ Tells("return", m)
  /\ \A i \in ReturnDeterminePatchSize(v) + 1 .. Len(m) : m[i] = Original[i]
  /\ SubSeq(Returns(m), 1, 4) = SubSeq(v, 1, 4)
  /\ ~Fits32(v) \/ v[8] = 0 => Returns(m) = v

LEMMA ReturnIsExact ==
  ASSUME NEW v \in Seq(Bytes), Len(v) = 8, NEW m, m = Applied(ReturnPatch(v), Len(ReturnPatch(v)))
  PROVE  ReturnExact(v, m)
<1>1. CASE v = Zeros(8)
  <2>1. ReturnZero \in Seq(Bytes) /\ Len(ReturnZero) = 4
    BY TemplateSequences DEF ReturnZero
  <2>2. PICK e \in Seq(Bytes) : e = <<>> /\ Len(e) = 0
    <3>1. <<>> \in Seq(Bytes) /\ Len(<<>>) = 0
      OBVIOUS
    <3> QED
      BY Zenon, <3>1
  <2>3. Len(ReturnZero) <= Len(Original) /\ 0 \in Nat /\ 0 + Len(e) <= Len(ReturnZero)
    BY <2>1, <2>2, OriginalParts
  <2>4. m = Applied(<<Copy(0, ReturnZero)>>, 1)
    <3>1. ReturnPatch(v) = <<Copy(0, ReturnZero)>>
      BY Zenon, <1>1 DEF ReturnPatch
    <3>2. Len(<<Copy(0, ReturnZero)>>) = 1
      OBVIOUS
    <3> QED
      BY Zenon, <3>1, <3>2
  <2>5. Carries(m, ReturnZero, 0, e)
    BY Zenon, <2>1, <2>2, <2>3, <2>4, OneCopy, Carried
  <2>6. m[1] = 72 /\ m[2] = 49 /\ m[3] = 192 /\ m[4] = 195
    <3>1. \A i \in 1 .. Len(ReturnZero) : ~(i > 0 /\ i <= 0 + Len(e)) => m[i] = ReturnZero[i]
      BY Zenon, <2>5 DEF Carries
    <3>2. Len(e) = 0
      BY Zenon, <2>2
    <3> QED
      BY <2>1, <3>1, <3>2 DEF ReturnZero
  <2>7. Tells("return", m)
    BY <2>6, Told
  <2>8. SubSeq(m, 1, 2) # <<72, 184>> /\ m[1] # 184
    <3>1. SubSeq(m, 1, 2) = <<m[1], m[2]>>
      BY Zenon, <2>5, CarriedStart
    <3>2. <<m[1], m[2]>> # <<72, 184>> /\ m[1] # 184
      BY <2>6
    <3> QED
      BY Zenon, <3>1, <3>2
  <2>9. Returns(m) = v
    BY Zenon, <1>1, <2>8 DEF Returns
  <2> QED
    BY Zenon, <1>1, <2>5, <2>7, <2>9 DEF ReturnExact, ReturnDeterminePatchSize, Carries
<1>2. CASE v # Zeros(8) /\ Fits32(v)
  <2>1. PICK w \in Seq(Bytes) : w = SubSeq(v, 1, 4)
    BY Zenon, Halves
  <2>width. Len(w) = 4
    BY Zenon, <2>1, Halves
  <2>2. Return32 \in Seq(Bytes) /\ Len(Return32) = 6
    BY TemplateSequences DEF Return32
  <2>3. Len(Return32) <= Len(Original) /\ 1 \in Nat /\ 1 + Len(w) <= Len(Return32)
    BY <2>width, <2>2, OriginalParts
  <2>4. Carries(m, Return32, 1, w)
    BY Zenon, <1>2, <2>1, <2>2, <2>3, Patched DEF ReturnPatch
  <2>ends. 1 + 1 = 2 /\ 1 + 4 = 5
    OBVIOUS
  <2>5. SubSeq(m, 2, 5) = w
    BY Zenon, <2>width, <2>ends, <2>4 DEF Carries
  <2>6. m[1] = 184 /\ m[6] = 195
    <3>1. \A i \in 1 .. Len(Return32) : ~(i > 1 /\ i <= 1 + Len(w)) => m[i] = Return32[i]
      BY Zenon, <2>4 DEF Carries
    <3> QED
      BY <2>width, <2>2, <3>1 DEF Return32
  <2>7. Tells("return", m)
    BY <2>6, Told
  <2>8. SubSeq(m, 1, 2) # <<72, 184>>
    <3>1. SubSeq(m, 1, 2) = <<m[1], m[2]>>
      BY Zenon, <2>4, CarriedStart
    <3>2. <<m[1], m[2]>> # <<72, 184>>
      BY <2>6
    <3> QED
      BY Zenon, <3>1, <3>2
  <2>9. Returns(m) = w \o Zeros(4)
    BY Zenon, <2>5, <2>6, <2>8 DEF Returns
  <2>10. SubSeq(Returns(m), 1, 4) = SubSeq(v, 1, 4)
    BY Zenon, <2>1, <2>9, Halves
  <2>11. ASSUME v[8] = 0 PROVE Returns(m) = v
    BY Zenon, <1>2, <2>1, <2>9, <2>11, Halves
  <2> QED
    BY Zenon, <1>2, <2>4, <2>7, <2>10, <2>11 DEF ReturnExact, ReturnDeterminePatchSize, Carries
<1>3. CASE v # Zeros(8) /\ ~Fits32(v)
  <2>1. Return64 \in Seq(Bytes) /\ Len(Return64) = 11
    BY TemplateSequences DEF Return64
  <2>2. Len(Return64) <= Len(Original) /\ 2 \in Nat /\ 2 + Len(v) <= Len(Return64)
    BY <2>1, OriginalParts
  <2>3. Carries(m, Return64, 2, v)
    BY Zenon, <1>3, <2>1, <2>2, Patched DEF ReturnPatch
  <2>ends. 2 + 1 = 3 /\ 2 + 8 = 10
    OBVIOUS
  <2>4. SubSeq(m, 3, 10) = v
    BY Zenon, <2>ends, <2>3 DEF Carries
  <2>5. m[1] = 72 /\ m[2] = 184 /\ m[11] = 195
    <3>1. \A i \in 1 .. Len(Return64) : ~(i > 2 /\ i <= 2 + Len(v)) => m[i] = Return64[i]
      BY Zenon, <2>3 DEF Carries
    <3> QED
      BY <2>1, <3>1 DEF Return64
  <2>6. Tells("return", m)
    BY <2>5, Told
  <2>7. SubSeq(m, 1, 2) = <<72, 184>>
    <3>1. SubSeq(m, 1, 2) = <<m[1], m[2]>>
      BY Zenon, <2>3, CarriedStart
    <3> QED
      BY Zenon, <2>5, <3>1
  <2>8. Returns(m) = v
    BY Zenon, <2>4, <2>7 DEF Returns
  <2> QED
    BY Zenon, <1>3, <2>3, <2>6, <2>8 DEF ReturnExact, ReturnDeterminePatchSize, Carries
<1> QED
  BY Zenon, <1>1, <1>2, <1>3

LEMMA PrologueIsExact ==
  ASSUME NEW v \in Seq(Bytes), Len(v) = 8, NEW T \in {FunctionHookPrologue, SystemCallHookPrologue},
         NEW W, W = <<Copy(0, T), Copy(2, v)>>, NEW m, m = Applied(W, Len(W))
  PROVE  /\ SubSeq(m, 3, 10) = v
         /\ T = FunctionHookPrologue => Tells("function", m)
         /\ T = SystemCallHookPrologue => Tells("system_call", m)
<1>1. T \in Seq(Bytes) /\ Len(T) = 15
  <2>1. Len(FunctionHookPrologue) = 15 /\ Len(SystemCallHookPrologue) = 15
    BY DEF FunctionHookPrologue, SystemCallHookPrologue
  <2> QED
    BY Zenon, <2>1, TemplateSequences
<1>2. Len(T) <= Len(Original) /\ 2 \in Nat /\ 2 + Len(v) <= Len(T)
  BY <1>1, OriginalParts
<1>3. Carries(m, T, 2, v)
  BY Zenon, <1>1, <1>2, Patched
<1>4. SubSeq(m, 3, 10) = v
  <2>1. 2 + 1 = 3 /\ 2 + 8 = 10
    OBVIOUS
  <2> QED
    BY Zenon, <1>3, <2>1 DEF Carries
<1>5. \A i \in 1 .. 15 : ~(i > 2 /\ i <= 10) => m[i] = T[i]
  <2>1. \A i \in 1 .. Len(T) : ~(i > 2 /\ i <= 2 + Len(v)) => m[i] = T[i]
    BY Zenon, <1>3 DEF Carries
  <2> QED
    BY <1>1, <2>1
<1>6. ASSUME T = FunctionHookPrologue PROVE Tells("function", m)
  <2>1. /\ m[1] = 73 /\ m[2] = 187
        /\ m[11] = 240 /\ m[12] = 73 /\ m[13] = 255 /\ m[14] = 67 /\ m[15] = 16
    BY <1>5, <1>6 DEF FunctionHookPrologue
  <2> QED
    BY <2>1, Told
<1>7. ASSUME T = SystemCallHookPrologue PROVE Tells("system_call", m)
  <2>1. /\ m[1] = 73 /\ m[2] = 187
        /\ m[11] = 240 /\ m[12] = 73 /\ m[13] = 255 /\ m[14] = 67 /\ m[15] = 24
    BY <1>5, <1>7 DEF SystemCallHookPrologue
  <2> QED
    BY <2>1, Told
<1> QED
  BY Zenon, <1>4, <1>6, <1>7

LEMMA HiddenIsExact ==
  ASSUME NEW v \in Seq(Bytes), Len(v) <= 127, Len(v) + 2 <= Len(Original), NEW W, NEW m,
         W = HiddenInformationPatch(v), m = Applied(W, Len(W))
  PROVE  Tells("hidden", m) /\ HiddenInformationExtractData(m) = v
<1>1. PICK n \in Nat : n = Len(v) /\ n \in Bytes
  BY DEF Bytes
<1>2. PICK a, b : a = <<235>> /\ b = <<n>>
  BY Zenon
<1>bytes. /\ a \in Seq(Bytes) /\ Len(a) = 1 /\ a[1] = 235
      /\ b \in Seq(Bytes) /\ Len(b) = 1 /\ b[1] = n
  <2>1. a \in Seq(Bytes) /\ Len(a) = 1 /\ a[1] = 235
    BY <1>2 DEF Bytes
  <2>2. b \in Seq(Bytes) /\ Len(b) = 1 /\ b[1] = n
    BY <1>1, <1>2
  <2> QED
    BY Zenon, <2>1, <2>2
<1>3. m = Copied(Copied(Copied(Original, 0, a), 1, b), 2, v)
  <2>1. PICK x, y, z : x = Copy(0, a) /\ y = Copy(1, b) /\ z = Copy(2, v)
    OBVIOUS
  <2>2. x.at = 0 /\ x.bytes = a /\ y.at = 1 /\ y.bytes = b /\ z.at = 2 /\ z.bytes = v
    BY <2>1 DEF Copy
  <2>3. W = <<x, y, z>>
    BY Zenon, <1>1, <1>2, <2>1 DEF HiddenInformationPatch
  <2>4. Len(W) = 3 /\ W[1] = x /\ W[2] = y /\ W[3] = z /\ 3 # 0 /\ 3 # 1 /\ 3 # 2
    BY <2>3
  <2> QED
    BY Zenon, <2>2, <2>4 DEF Applied
<1>4. PICK c : c = Copied(Original, 0, a) /\ Replaces(c, Original, 0, a)
  BY <1>bytes, CopiedBytes, OriginalParts
<1>5. PICK d : d = Copied(c, 1, b) /\ Replaces(d, c, 1, b)
  <2>1. c \in Seq(Bytes)
    BY Zenon, <1>4 DEF Replaces
  <2> QED
    BY <1>bytes, <2>1, CopiedBytes
<1>6. Replaces(m, d, 2, v)
  <2>1. d \in Seq(Bytes) /\ m = Copied(d, 2, v)
    BY Zenon, <1>3, <1>4, <1>5 DEF Replaces
  <2> QED
    BY <2>1, CopiedBytes
<1>7. /\ Len(Original) \in Nat /\ Len(Original) >= 15
      /\ Len(c) = Len(Original) /\ Len(d) = Len(Original)
      /\ m \in Seq(Bytes) /\ Len(m) = Len(Original)
  BY Zenon, <1>4, <1>5, <1>6, OriginalParts DEF Replaces
<1>8. m[1] = 235
  <2>1. 1 \in 1 .. Len(Original)
    BY <1>7
  <2>2. m[1] = d[1]
    BY <1>6, <1>7, <2>1 DEF Replaces
  <2>3. d[1] = c[1]
    BY <1>5, <1>7, <2>1 DEF Replaces
  <2>4. c[1] = a[1]
    BY <1>bytes, <1>4, <1>7, <2>1 DEF Replaces
  <2> QED
    BY <1>bytes, <2>2, <2>3, <2>4
<1>9. m[2] = n
  <2>1. 2 \in 1 .. Len(Original)
    BY <1>7
  <2>2. m[2] = d[2]
    BY <1>6, <1>7, <2>1 DEF Replaces
  <2>3. d[2] = b[1]
    BY <1>bytes, <1>5, <1>7, <2>1 DEF Replaces
  <2> QED
    BY <1>bytes, <2>2, <2>3
<1>10. Tells("hidden", m)
  <2>1. m[2] <= 127
    BY <1>1, <1>9
  <2> QED
    BY <1>8, <2>1, Told
<1>11. SubSeq(m, 3, 2 + n) = v
  <2>1. PICK z \in Nat : z = 2 /\ z + n <= Len(m) /\ z + 1 = 3
    BY <1>1, <1>7
  <2>2. PICK e \in Seq(Bytes) : e = SubSeq(m, z + 1, z + n) /\ Part(e, m, z, n)
    BY Zenon, <1>7, <2>1, PartOf
  <2>3. ASSUME NEW i \in 1 .. n PROVE e[i] = v[i]
    <3>1. PICK j \in 1 .. Len(d) : j = z + i /\ j > 2 /\ j <= 2 + Len(v) /\ j - 2 = i
      BY <1>1, <1>7, <2>1
    <3> QED
      BY Zenon, <1>6, <2>2, <3>1 DEF Replaces, Part
  <2>4. Same(e, v, n)
    BY Zenon, <1>1, <2>2, <2>3 DEF Same, Part
  <2>5. e = v
    BY Zenon, <2>4, Equal
  <2> QED
    BY Zenon, <2>1, <2>2, <2>5
<1>12. HiddenInformationExtractData(m) = v
  <2>1. HiddenInformationIsPatched(m)
    BY Zenon, <1>10 DEF Tells
  <2> QED
    BY Zenon, <1>9, <1>11, <2>1 DEF HiddenInformationExtractData
<1> QED
  BY Zenon, <1>10, <1>12

(* What a finished job leaves behind.                                      *)
Exact(kind, v, m) ==
  /\ Tells(kind, m)
  /\ kind = "jump" => JumpExact(v, m)
  /\ kind = "return" => ReturnExact(v, m)
  /\ kind = "function" => FunctionHookPrologueExtractArgument(m) = v
  /\ kind = "system_call" => SystemCallHookPrologueExtractArgument(m) = v
  /\ kind = "hidden" => HiddenInformationExtractData(m) = v
  /\ kind = "restore" => m = Original

LEMMA JobIsExact ==
  ASSUME NEW job \in Jobs, NEW m, NEW b, Reached(job, Len(Writes(job)), m, b)
  PROVE  Exact(job.kind, job.value, m)
<1> DEFINE v == job.value
<1>1. /\ v \in Seq(Bytes) /\ job.kind \in Kinds
      /\ IF job.kind = "hidden" THEN Len(v) <= 127 /\ Len(v) + 2 <= Len(Original) ELSE Len(v) = 8
  BY Zenon, JobFacts
<1>2. job.kind # "restore" => m = Applied(Writes(job), Len(Writes(job)))
  BY Zenon DEF Reached
<1>3. CASE job.kind = "jump"
  <2>1. Writes(job) = JumpPatch(v)
    BY <1>3 DEF Writes
  <2>2. JumpExact(v, m)
    BY <1>1, <1>2, <1>3, <2>1, JumpIsExact
  <2> QED
    BY <1>3, <2>2 DEF Exact, JumpExact
<1>4. CASE job.kind = "return"
  <2>1. Writes(job) = ReturnPatch(v)
    BY <1>4 DEF Writes
  <2>2. ReturnExact(v, m)
    BY <1>1, <1>2, <1>4, <2>1, ReturnIsExact
  <2> QED
    BY <1>4, <2>2 DEF Exact, ReturnExact
<1>5. CASE job.kind = "function"
  <2>1. Writes(job) = <<Copy(0, FunctionHookPrologue), Copy(2, v)>>
    BY <1>5 DEF Writes, FunctionHookProloguePatch
  <2>2. SubSeq(m, 3, 10) = v /\ Tells("function", m)
    <3>1. Len(v) = 8 /\ m = Applied(Writes(job), Len(Writes(job)))
      BY <1>1, <1>2, <1>5
    <3>2. PICK W : W = Writes(job)
      BY Zenon
    <3> QED
      BY Zenon, <1>1, <2>1, <3>1, <3>2, PrologueIsExact
  <2>3. FunctionHookPrologueExtractArgument(m) = v
    BY Zenon, <2>2 DEF Tells, FunctionHookPrologueExtractArgument
  <2> QED
    BY <1>5, <2>2, <2>3 DEF Exact
<1>6. CASE job.kind = "system_call"
  <2>1. Writes(job) = <<Copy(0, SystemCallHookPrologue), Copy(2, v)>>
    BY <1>6 DEF Writes, SystemCallHookProloguePatch
  <2>2. SubSeq(m, 3, 10) = v /\ Tells("system_call", m)
    <3>1. Len(v) = 8 /\ m = Applied(Writes(job), Len(Writes(job)))
      BY <1>1, <1>2, <1>6
    <3>2. PICK W : W = Writes(job)
      BY Zenon
    <3> QED
      BY Zenon, <1>1, <2>1, <3>1, <3>2, PrologueIsExact
  <2>3. SystemCallHookPrologueExtractArgument(m) = v
    BY Zenon, <2>2 DEF Tells, SystemCallHookPrologueExtractArgument
  <2> QED
    BY <1>6, <2>2, <2>3 DEF Exact
<1>7. CASE job.kind = "hidden"
  <2>1. Writes(job) = HiddenInformationPatch(v)
    BY <1>7 DEF Writes
  <2>2. Tells("hidden", m) /\ HiddenInformationExtractData(m) = v
    BY Zenon, <1>1, <1>2, <1>7, <2>1, HiddenIsExact
  <2> QED
    BY <1>7, <2>2 DEF Exact
<1>8. CASE job.kind = "restore"
  <2>1. Len(Writes(job)) = 5
    BY Zenon, <1>8, WritesOf
  <2>2. m = Original
    BY <1>8, <2>1 DEF Reached, Restored
  <2>3. Tells("restore", m)
    BY Zenon, <2>2, OriginalTold
  <2> QED
    BY <1>8, <2>2, <2>3 DEF Exact
<1> QED
  BY Zenon, <1>1, <1>3, <1>4, <1>5, <1>6, <1>7, <1>8 DEF Kinds

LEMMA IdleIsExact ==
  ASSUME ProgressInv, NEW t \in Threads, pc[t] = "idle"
  PROVE  Exact(want[t].kind, want[t].value, memory[t])
<1>1. \/ want[t].kind \in {"none", "code", "data"} /\ memory[t] = Original
      \/ want[t] \in PatchesOf[t] /\ Reached(want[t], Len(Writes(want[t])), memory[t], bits[t])
  BY Zenon DEF ProgressInv, Progress
<1>2. CASE want[t].kind \in {"none", "code", "data"} /\ memory[t] = Original
  <2>1. want[t].kind \notin Kinds
    BY <1>2 DEF Kinds
  <2>2. Tells(want[t].kind, memory[t])
    BY Zenon, <1>2, <2>1, OriginalTold
  <2> QED
    BY Zenon, <2>1, <2>2 DEF Exact, Kinds
<1>3. CASE want[t] \in PatchesOf[t] /\ Reached(want[t], Len(Writes(want[t])), memory[t], bits[t])
  BY Zenon, <1>3, JobOf, JobIsExact
<1> QED
  BY Zenon, <1>1, <1>2, <1>3

LEMMA AllExact == ASSUME ProgressInv PROVE PatchExact
<1>1. ASSUME NEW t \in Threads, pc[t] = "idle" PROVE Exact(want[t].kind, want[t].value, memory[t])
  BY Zenon, <1>1, IdleIsExact
<1> QED
  BY Zenon, <1>1 DEF PatchExact, Exact, Tells, JumpExact, ReturnExact, Is

(* While ps4KernelFunctionHookDestroy restores a function, whatever its    *)
(* length and its bytes, its first two bytes are the lock or all of it is  *)
(* the old code or the new.                                                *)
THEOREM WholeUnlessLockedHolds == Spec => []WholeUnlessLocked
<1>1. ProgressInv => WholeUnlessLocked
  BY Whole
<1>2. Init => ProgressInv
  BY ProgressInit
<1>3. ProgressInv /\ [Next]_vars => ProgressInv'
  BY ProgressStep
<1> QED
  BY <1>1, <1>2, <1>3, PTL DEF Spec

(* Every patch of every operand that the ps4Payload...Patch functions have *)
(* written to any function is recognised as what it is and as nothing      *)
(* else, and what was put in is read back.                                 *)
THEOREM PatchExactHolds == Spec => []PatchExact
<1>1. ProgressInv => PatchExact
  BY AllExact
<1>2. Init => ProgressInv
  BY ProgressInit
<1>3. ProgressInv /\ [Next]_vars => ProgressInv'
  BY ProgressStep
<1> QED
  BY <1>1, <1>2, <1>3, PTL DEF Spec
=============================================================================
