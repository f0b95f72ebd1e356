------------------------- MODULE UserProcessProofs --------------------------
(***************************************************************************)
(* Proofs about the functions for user processes, for any number of        *)
(* threads, any descriptor table, files and sizes of any length, whichever *)
(* calls fail: descriptors and memory are closed and freed by the function *)
(* or the caller that has them, files are read to their end, stubs call    *)
(* what they stand for.                                                    *)
(***************************************************************************)
EXTENDS UserProcess, TLAPS

Fds == 0 .. MaxFd
Kinds == {"closed", "tty", "null", "server", "client", "file", "jit", "object"}
Files == [kind : Kinds, id : Nat]
Mappings == [object : Nat, pages : Nat]

StubPcs ==
  {"stub", "called", "kernel_dlsym", "module", "libkernel", "loader", "load", "loaded", "dlsym",
   "stub_failed"}
RedirectPcs == {"redirect", "redirect_open", "redirected"}
ServerPcs == {"bind", "listen", "accept", "fdopen"}
ReadPcs == {"read", "realloc", "filled", "cut_short"}
SharedPcs == {"shm_open", "fstat", "ftruncate", "mmap", "e3", "unlink"}
ProtectedPcs == {"jit", "alias", "map_executable", "map_writable"}
Labels ==
  {"idle", "close", "fopen", "fclose"} \cup StubPcs \cup RedirectPcs \cup ServerPcs \cup ReadPcs
    \cup SharedPcs \cup ProtectedPcs

(* The variables of each thread, the table and the objects.                *)
FrameTyped ==
  /\ pc \in [Threads -> Labels]
  /\ at \in [Threads -> Int] /\ to \in [Threads -> Int] /\ bytes \in [Threads -> Int]
  /\ heap \in [Threads -> Int] /\ mapped \in [Threads -> SUBSET Mappings]
  /\ size \in [Threads -> Nat] /\ fileSize \in [Threads -> Nat]
  /\ DOMAIN asked = Threads
TableTyped ==
  /\ fds \in [Fds -> Files] /\ handle \in [Threads -> Seq(Fds)]
  /\ held \in [Threads -> Fds \cup {-1}]
ObjectTyped ==
  /\ objects \in Seq(Nat) /\ name \in 0 .. Len(objects)
  /\ \A d \in Fds : fds[d].id <= Len(objects)
Typed == FrameTyped /\ TableTyped /\ ObjectTyped

(* What a function has opened and not closed, by where it is.              *)
Handles1 == {"bind", "listen", "accept", "fdopen", "fclose", "fstat", "ftruncate", "mmap", "e3", "alias"}
Handles2 == {"map_executable", "map_writable"}
Opened(t) == Len(handle[t])
HandleInv(t) ==
  /\ pc[t] \in Handles1 => Opened(t) = 1
  /\ pc[t] \in Handles2 => Opened(t) = 2
  /\ pc[t] = "close" => Opened(t) \in {1, 2}
  /\ pc[t] \notin Handles1 \cup Handles2 \cup {"close"} => Opened(t) = 0
  /\ pc[t] \in ServerPcs => held[t] = -1

(* What it has allocated and not freed.                                    *)
Kept(t) == IF mapped[t] = {} THEN 0 ELSE IF IsShared(t) THEN 2 ELSE 1
Working == ReadPcs \cup {"fopen", "fclose"}
HeapInv(t) ==
  /\ pc[t] \in Working => heap[t] = Kept(t) + 1
  /\ pc[t] \in SharedPcs => mapped[t] = {} /\ heap[t] = 2
  /\ pc[t] \in ProtectedPcs \ {"map_writable"} => mapped[t] = {} /\ heap[t] = 1
  /\ pc[t] = "map_writable" => mapped[t] # {} /\ ~IsShared(t) /\ heap[t] = 1
  /\ pc[t] \notin Working \cup SharedPcs \cup ProtectedPcs => heap[t] = Kept(t)

(* How far a file is read; the size of the memory stays an int.            *)
ReadInv(t) ==
  /\ pc[t] = "read" => at[t] < to[t]
  /\ pc[t] = "realloc" => at[t] = to[t]
  /\ pc[t] \in {"read", "realloc"} =>
       /\ at[t] \in Nat /\ bytes[t] \in Nat /\ at[t] + bytes[t] <= MaxBytes
       /\ to[t] \in 1 .. IntMax
  /\ pc[t] = "filled" => bytes[t] = 0

(* Where a redirect is.                                                    *)
RedirectInv(t) ==
  pc[t] \in RedirectPcs =>
    /\ "redirect" \in Work[t] /\ to[t] \in {-1, 0, held[t]} /\ at[t] \in 0 .. 3
    /\ pc[t] = "redirect_open" => at[t] \in Standard /\ at[t] # to[t]
    /\ pc[t] = "redirected" => at[t] = 3

LocalInv(t) == HandleInv(t) /\ HeapInv(t) /\ ReadInv(t) /\ RedirectInv(t)

(* A function or a caller has a descriptor.                                *)
Holds(h, x, d) == x = d \/ \E i \in DOMAIN h : h[i] = d
Distinct(h, x) == (\A i, j \in DOMAIN h : h[i] = h[j] => i = j) /\ \A i \in DOMAIN h : h[i] # x
Has(t, d) == Holds(handle[t], held[t], d)

OwnInv ==
  /\ \A t \in Threads : Distinct(handle[t], held[t])
  /\ \A t \in Threads : \A d \in Fds : Has(t, d) => d \notin Standard /\ fds[d] # Closed
  /\ \A t, u \in Threads : \A d \in Fds : Has(t, d) /\ Has(u, d) => t = u
  /\ \A d \in Fds \ Standard : fds[d] # Closed => \E t \in Threads : Has(t, d)
  /\ \A d \in Standard : fds[d] = Closed => \E t \in Threads : pc[t] = "redirect_open" /\ at[t] = d
  /\ \A t \in Threads : pc[t] = "redirect_open" => fds[at[t]] = Closed

(* Objects are as large as what is mapped of them, and as what is about to *)
(* be.                                                                     *)
Backed(o, n) == o \in DOMAIN objects /\ (n <= objects[o] \/ o \in stale)
BackOf(t) ==
  /\ \A m \in mapped[t] : m.object # 0 => Backed(m.object, m.pages)
  /\ pc[t] = "ftruncate" => size[t] > fileSize[t]
  /\ pc[t] = "mmap" /\ HandleObject(t) # 0 => Backed(HandleObject(t), size[t])
BackInv == \A t \in Threads : BackOf(t)

(* The standard descriptors a redirect has passed are what they should be. *)
Redirected(t, d) ==
  fds[d] = IF to[t] > 0 \/ d = to[t] THEN asked[t] ELSE File("null")
PassedOf(t) ==
  pc[t] \in RedirectPcs =>
    /\ to[t] # -1 => fds[to[t]] = asked[t]
    /\ \A d \in Standard : d < at[t] => Redirected(t, d)
PassedInv == \A t \in Threads : PassedOf(t)

(* Cells hold addresses of their space; a handle that is in use is good    *)
(* unless its thread is excused.                                           *)
StubInv ==
  /\ pc \in [Threads -> Labels] /\ space \in [Threads -> Spaces \cup {None}]
  /\ seen \in [Threads -> {-1, 0, 1}] /\ moduleHandle \in {-1, 0, 1}
  /\ target \in [Threads -> Spaces \cup {None}] /\ excused \subseteq Threads
  /\ address \in [Spaces -> Spaces \cup {None}] /\ \A s \in Spaces : address[s] \in {s, None}
  /\ \A t \in Threads :
       /\ pc[t] \in StubPcs => space[t] \in Spaces
       /\ pc[t] = "called" => target[t] = space[t]
       /\ pc[t] = "stub_failed" => t \in excused
       /\ pc[t] \in {"loaded", "dlsym"} /\ t \notin excused => seen[t] > 0 /\ moduleHandle > 0

Inv ==
  /\ Typed /\ (\A t \in Threads : LocalInv(t)) /\ StubInv
  /\ ~raced => OwnInv /\ BackInv
  /\ ~raced /\ OneRedirects => PassedInv
-----------------------------------------------------------------------------
(* What a step of a thread does outside the stubs.                         *)
ProcessBegin(t) ==
  \/ Calls(t, "redirect") /\ RedirectBegin(t) /\ UNCHANGED memory
  \/ Calls(t, "server") /\ ServerSocket(t) /\ UNCHANGED memory
  \/ Calls(t, "stream") /\ StreamDuplicate(t) /\ UNCHANGED memory
  \/ Calls(t, "read") /\ ReadBegin(t) /\ UNCHANGED memory
  \/ Calls(t, "aligned") /\ AlignedBegin(t) /\ UNCHANGED memory
  \/ Calls(t, "shared") /\ SharedBegin(t)
  \/ Calls(t, "protected") /\ ProtectedBegin(t)
ProcessStep(t) == ProcessBegin(t) \/ (Descriptors(t) /\ UNCHANGED memory) \/ Memory(t)
StubStep(t) == Stub(t) \/ StubCall(t)

LEMMA NextCases ==
  ASSUME Next
  PROVE  \E t \in Threads :
           (ProcessStep(t) /\ UNCHANGED stub) \/ (StubStep(t) /\ UNCHANGED process)
<1>1. PICK t \in Threads :
        \/ Begin(t)
        \/ /\ \/ Descriptors(t) /\ UNCHANGED <<memory, stub>>
              \/ Memory(t) /\ UNCHANGED stub
              \/ Stub(t) /\ UNCHANGED process
           /\ UNCHANGED calls
  BY Zenon DEF Next
<1>2. CASE Begin(t)
  BY <1>2, Zenon DEF Begin, ProcessStep, ProcessBegin, StubStep
<1>3. QED
  BY <1>1, <1>2, Zenon DEF ProcessStep, StubStep

-----------------------------------------------------------------------------
(* What a step leaves to the other threads.                                *)
OthersFrame(t) ==
  \A u \in Threads \ {t} :
    /\ pc'[u] = pc[u] /\ at'[u] = at[u] /\ to'[u] = to[u] /\ bytes'[u] = bytes[u]
    /\ heap'[u] = heap[u] /\ mapped'[u] = mapped[u] /\ size'[u] = size[u]
    /\ fileSize'[u] = fileSize[u] /\ asked'[u] = asked[u]

LEMMA LabelNames ==
  \A l \in {"idle", "close", "fopen", "fclose", "stub", "called", "kernel_dlsym", "module",
            "libkernel", "loader", "load", "loaded", "dlsym", "stub_failed", "redirect",
            "redirect_open", "redirected", "bind", "listen", "accept", "fdopen", "read", "realloc",
            "filled", "cut_short", "shm_open", "fstat", "ftruncate", "mmap", "e3", "unlink", "jit",
            "alias", "map_executable", "map_writable"} : l \in Labels
BY Zenon DEF Labels, StubPcs, RedirectPcs, ServerPcs, ReadPcs, SharedPcs, ProtectedPcs

LEMMA DescriptorFrame ==
  ASSUME FrameTyped, fds \in [Fds -> Files], held \in [Threads -> Fds \cup {-1}],
         NEW t \in Threads, Descriptors(t) /\ UNCHANGED memory
  PROVE  FrameTyped' /\ OthersFrame(t)
<1> USE LabelNames DEF FrameTyped, OthersFrame, Goto, memory, locals
<1>1. CASE RedirectClose(t)
  BY <1>1 DEF RedirectClose
<1>2. CASE RedirectOpen(t)
  BY <1>2 DEF RedirectOpen
<1>3. CASE RedirectReturn(t)
  BY <1>3 DEF RedirectReturn, Reset
<1>4. CASE Server(t)
  BY <1>4 DEF Server, ServerBind, ServerListen, ServerAccept
<1>5. CASE StreamOpen(t)
  BY <1>5 DEF StreamOpen
<1>6. CASE CloseLast(t) \/ CloseHeld(t)
  BY ZenonT(60), <1>6 DEF CloseLast, CloseHeld
<1>7. CASE ReadSome(t)
  BY <1>7 DEF ReadSome
<1>8. CASE ReadGrow(t)
  BY <1>8 DEF ReadGrow, Reset
<1>9. CASE ReadEnd(t) \/ ReadFail(t) \/ AlignedClose(t)
  BY ZenonT(60), <1>9 DEF ReadEnd, ReadFail, AlignedClose
<1>10. CASE AlignedOpen(t)
  BY <1>10 DEF AlignedOpen
<1>11. CASE ReadReturn(t)
  BY <1>11 DEF ReadReturn, Reset
<1>12. QED
  BY <1>1, <1>2, <1>3, <1>4, <1>5, <1>6, <1>7, <1>8, <1>9, <1>10, <1>11, Zenon
     DEF Descriptors, Redirect, Read

LEMMA MemoryFrame ==
  ASSUME FrameTyped, NEW t \in Threads, Memory(t), fds \in [Fds -> Files],
         pc[t] \in {"fstat", "ftruncate", "mmap"} => Last(t) \in Fds,
         \A o \in DOMAIN objects : objects[o] \in Nat
  PROVE  FrameTyped' /\ OthersFrame(t)
<1> USE LabelNames DEF FrameTyped, OthersFrame, Goto, memory, locals, table, Allocated, Forget
<1>1. CASE SharedOpen(t)
  <2>1. /\ \/ Goto(t, "shm_open", "fstat") /\ UNCHANGED <<heap, size, fileSize>>
           \/ Goto(t, "shm_open", "idle") /\ Allocated(t, -2) /\ Forget(t)
        /\ UNCHANGED <<locals, mapped>>
    BY <1>1, Zenon DEF SharedOpen
  <2>2. QED
    BY <2>1
<1>2. CASE SharedSize(t)
  BY <1>2 DEF SharedSize
<1>3. CASE SharedResize(t)
  BY Zenon, <1>3 DEF SharedResize
<1>4. CASE SharedMap(t)
  <2>1. HandleObject(t) \in Nat
    BY Zenon, <1>4 DEF SharedMap, HandleObject, Files
  <2>2. Mapping(HandleObject(t), size[t]) \in Mappings
    BY Zenon, <2>1 DEF Mapping, Mappings
  <2>3. QED
    BY <1>4, <2>2 DEF SharedMap
<1>5. CASE SharedFail(t) \/ SharedFailUnlink(t)
  BY <1>5 DEF SharedFail, SharedFailUnlink
<1>6. CASE SharedClose(t) \/ SharedUnlink(t)
  BY <1>6 DEF SharedClose, SharedUnlink, SharedRelease
<1>7. CASE ProtectedObject(t) \/ ProtectedAlias(t)
  BY <1>7 DEF ProtectedObject, ProtectedAlias, Handle
<1>8. CASE ProtectedExecutable(t)
  <2>1. Mapping(0, size[t]) \in Mappings
    BY Zenon DEF Mapping, Mappings
  <2>2. QED
    BY <1>8, <2>1 DEF ProtectedExecutable
<1>9. CASE ProtectedWritable(t)
  BY <1>9 DEF ProtectedWritable
<1>10. CASE ProtectedDestroy(t)
  BY <1>10 DEF ProtectedDestroy
<1>11. QED
  BY <1>1, <1>2, <1>3, <1>4, <1>5, <1>6, <1>7, <1>8, <1>9, <1>10, Zenon
     DEF Memory, Shared, Protected

LEMMA PagesTyped ==
  ASSUME NEW n \in Sizes
  PROVE  /\ n \div PageSize + 1 \in Nat
         /\ n # 0 => (n - 1) \div PageSize + 1 \in Nat
<1>1. \A k, p \in Nat : p # 0 => k \div p \in Nat
  BY SMT
<1>2. n \in Nat /\ PageSize \in Nat /\ PageSize # 0
  BY Zenon, PageAssumption
<1>3. n # 0 => n - 1 \in Nat
  BY <1>2
<1>4. n \div PageSize \in Nat /\ (n # 0 => (n - 1) \div PageSize \in Nat)
  BY Zenon, <1>1, <1>2, <1>3
<1>5. QED
  BY <1>4

LEMMA BeginFrame ==
  ASSUME FrameTyped, NEW t \in Threads, ProcessBegin(t), held \in [Threads -> Fds \cup {-1}]
  PROVE  FrameTyped' /\ OthersFrame(t)
<1> USE LabelNames DEF FrameTyped, OthersFrame, Goto, memory, locals, table, Allocated
<1>1. CASE RedirectBegin(t) /\ UNCHANGED memory
  BY <1>1, TableAssumption DEF RedirectBegin, Fds
<1>2. CASE (ServerSocket(t) \/ StreamDuplicate(t) \/ AlignedBegin(t)) /\ UNCHANGED memory
  BY <1>2 DEF ServerSocket, StreamDuplicate, AlignedBegin
<1>3. CASE ReadBegin(t) /\ UNCHANGED memory
  BY <1>3, TableAssumption DEF ReadBegin
<1>4. CASE SharedBegin(t)
  <2>1. PICK n \in Nat : size' = [size EXCEPT ![t] = n]
    BY Zenon, <1>4, PagesTyped DEF SharedBegin
  <2>2. QED
    BY <1>4, <2>1 DEF SharedBegin
<1>5. CASE ProtectedBegin(t)
  <2>1. PICK n \in Nat : size' = [size EXCEPT ![t] = n]
    BY Zenon, <1>5, PagesTyped DEF ProtectedBegin
  <2>2. QED
    BY <1>5, <2>1 DEF ProtectedBegin
<1>6. QED
  BY <1>1, <1>2, <1>3, <1>4, <1>5, Zenon DEF ProcessBegin

LEMMA StubFrame ==
  ASSUME FrameTyped, NEW t \in Threads, StubStep(t), UNCHANGED process
  PROVE  /\ FrameTyped' /\ OthersFrame(t)
         /\ pc[t] \in StubPcs \cup {"idle"} /\ pc'[t] \in StubPcs \cup {"idle"}
<1>1. /\ pc[t] \in StubPcs \cup {"idle"}
      /\ \E l \in StubPcs \cup {"idle"} : pc' = [pc EXCEPT ![t] = l]
  <2> USE DEF StubPcs, Goto
  <2>1. CASE StubCall(t) \/ StubReturn(t)
    BY Zenon, <2>1 DEF StubCall, StubReturn
  <2>2. CASE StubJump(t)
    BY Zenon, <2>2 DEF StubJump
  <2>3. CASE KernelResolve(t) \/ ResolveModule(t)
    BY Zenon, <2>3 DEF KernelResolve, ResolveModule, StubFail
  <2>4. CASE ResolveLibkernel(t) \/ ResolveLoader(t) \/ ResolveLoad(t)
    BY Zenon, <2>4 DEF ResolveLibkernel, ResolveLoader, ResolveLoad, StubFail
  <2>5. CASE ResolveLoaded(t) \/ ResolveSymbol(t)
    BY Zenon, <2>5 DEF ResolveLoaded, ResolveSymbol, StubFail
  <2>6. QED
    BY <2>1, <2>2, <2>3, <2>4, <2>5, Zenon DEF StubStep, Stub
<1>2. PICK l \in StubPcs \cup {"idle"} : pc' = [pc EXCEPT ![t] = l]
  BY <1>1, Zenon
<1>3. l \in Labels
  BY Zenon DEF Labels
<1>4. QED
  BY Zenon, <1>1, <1>2, <1>3 DEF FrameTyped, OthersFrame, process, memory

-----------------------------------------------------------------------------
(* Where a function is decides what it has open, allocated and read.       *)
Counted(t) ==
  /\ Opened(t) \in Nat
  /\ \A d \in Fds : Pushed(t, d) => Opened(t)' = Opened(t) + 1
  /\ Dropped(t) /\ Opened(t) > 0 => Opened(t)' = Opened(t) - 1
  /\ handle' = handle => Opened(t)' = Opened(t)
  /\ handle' = [handle EXCEPT ![t] = <<handle[t][2], handle[t][1]>>] => Opened(t)' = 2

LEMMA DropOne ==
  ASSUME NEW S, NEW h \in Seq(S), Len(h) > 0
  PROVE  LET f == SubSeq(h, 1, Len(h) - 1)
         IN  f \in Seq(S) /\ Len(f) = Len(h) - 1 /\ \A i \in 1 .. Len(h) - 1 : f[i] = h[i]
<1>1. PICK n \in Nat : n = Len(h) - 1
  OBVIOUS
<1>2. SubSeq(h, 1, n) \in Seq(S)
  BY <1>1
<1>3. Len(SubSeq(h, 1, n)) = n /\ \A i \in 1 .. n : SubSeq(h, 1, n)[i] = h[i]
  BY <1>1
<1>4. QED
  BY Zenon, <1>1, <1>2, <1>3

LEMMA HandlesCounted ==
  ASSUME handle \in [Threads -> Seq(Fds)], NEW t \in Threads
  PROVE  Counted(t)
<1>1. ASSUME NEW d \in Fds, Pushed(t, d)
      PROVE  Opened(t)' = Opened(t) + 1
  BY <1>1 DEF Pushed, Opened
<1>2. ASSUME Dropped(t), Opened(t) > 0
      PROVE  Opened(t)' = Opened(t) - 1
  <2>1. handle[t] \in Seq(Fds) /\ Len(handle[t]) \in Nat /\ Len(handle[t]) > 0
    BY <1>2 DEF Opened
  <2>2. Len(SubSeq(handle[t], 1, Len(handle[t]) - 1)) = Len(handle[t]) - 1
    BY Zenon, <2>1, DropOne
  <2>3. QED
    BY Zenon, <1>2, <2>2 DEF Dropped, Opened
<1>3. ASSUME handle' = [handle EXCEPT ![t] = <<handle[t][2], handle[t][1]>>]
      PROVE  Opened(t)' = 2
  BY Zenon, <1>3 DEF Opened
<1>4. Opened(t) \in Nat /\ (handle' = handle => Opened(t)' = Opened(t))
  BY DEF Opened
<1>5. QED
  BY Zenon, <1>1, <1>2, <1>3, <1>4 DEF Counted

LEMMA KeptKept ==
  ASSUME NEW t \in Threads, mapped'[t] = mapped[t]
  PROVE  Kept(t) \in Nat /\ Kept(t)' = Kept(t) /\ (IsShared(t)' <=> IsShared(t))
<1>1. IsShared(t)' <=> IsShared(t)
  BY Zenon DEF IsShared
<1>2. Kept(t) \in Nat
  BY Zenon DEF Kept
<1>3. QED
  BY <1>1, <1>2, Zenon DEF Kept

LEMMA LocalDescriptors ==
  ASSUME FrameTyped, held \in [Threads -> Fds \cup {-1}], fds \in [Fds -> Files],
         NEW t \in Threads, LocalInv(t), Counted(t), Descriptors(t) /\ UNCHANGED memory
  PROVE  LocalInv(t)'
<1>0. Kept(t) \in Nat /\ Kept(t)' = Kept(t) /\ (IsShared(t)' <=> IsShared(t))
  BY Zenon, KeptKept DEF memory
<1> USE <1>0 DEF LocalInv, HandleInv, HeapInv, ReadInv, RedirectInv, Counted, Handles1, Handles2,
                 Working, ReadPcs, SharedPcs, ProtectedPcs, ServerPcs, RedirectPcs, FrameTyped, Goto,
                 memory, locals
<1>1. CASE RedirectClose(t)
  BY <1>1 DEF RedirectClose, Standard
<1>2. CASE RedirectOpen(t)
  BY <1>2 DEF RedirectOpen, Standard
<1>3. CASE RedirectReturn(t)
  BY Zenon, <1>3 DEF RedirectReturn, Reset
<1>4. CASE Server(t)
  BY Zenon, <1>4 DEF Server, ServerBind, ServerListen, ServerAccept
<1>5. CASE StreamOpen(t)
  BY <1>5 DEF StreamOpen
<1>6. CASE CloseLast(t)
  <2>1. Len(handle[t]) = Opened(t)
    BY Zenon DEF Opened
  <2>2. QED
    BY <1>6, <2>1 DEF CloseLast
<1>7. CASE CloseHeld(t)
  BY Zenon, <1>7 DEF CloseHeld
<1>8. CASE ReadSome(t)
  <2>1. PICK n \in 1 .. bytes[t] :
          /\ n <= to[t] - at[t]
          /\ at' = [at EXCEPT ![t] = @ + n] /\ bytes' = [bytes EXCEPT ![t] = @ - n]
          /\ pc' = [pc EXCEPT ![t] = IF at[t] + n = to[t] THEN "realloc" ELSE "read"]
    BY Zenon, <1>8 DEF ReadSome, ReadFull
  <2>2. QED
    BY <1>8, <2>1 DEF ReadSome
<1>9. CASE ReadGrow(t)
  <2>1. CASE Goto(t, "realloc", "read") /\ to' = [to EXCEPT ![t] = @ * 2]
    BY <1>9, <2>1, TableAssumption DEF ReadGrow
  <2>2. CASE Goto(t, "realloc", "idle")
    BY <1>9, <2>2 DEF ReadGrow, Reset
  <2>3. QED
    BY <1>9, <2>1, <2>2, Zenon DEF ReadGrow
<1>10. CASE ReadEnd(t) \/ ReadFail(t) \/ AlignedClose(t)
  BY <1>10 DEF ReadEnd, ReadFail, AlignedClose
<1>11. CASE AlignedOpen(t)
  <2>1. CASE (\E d \in Fds : Pushed(t, d)) /\ Goto(t, "fopen", "fclose") /\ UNCHANGED <<locals, held, heap>>
    BY <2>1
  <2>2. CASE Goto(t, "fopen", "idle") /\ heap' = [heap EXCEPT ![t] = @ - 1] /\ UNCHANGED <<locals, handle, held>>
    BY <2>2
  <2>3. DOMAIN fds = Fds
    BY Zenon
  <2>4. QED
    BY <1>11, <2>1, <2>2, <2>3, Zenon DEF AlignedOpen
<1>12. CASE ReadReturn(t)
  <2>1. pc'[t] = "idle" /\ heap'[t] = heap[t] - 1 /\ Opened(t)' = 0
    BY Zenon, <1>12 DEF ReadReturn
  <2>2. QED
    BY <1>12, <2>1 DEF ReadReturn
<1>13. QED
  BY <1>1, <1>2, <1>3, <1>4, <1>5, <1>6, <1>7, <1>8, <1>9, <1>10, <1>11, <1>12, Zenon
     DEF Descriptors, Redirect, Read

LEMMA LocalMemory ==
  ASSUME FrameTyped, held \in [Threads -> Fds \cup {-1}], fds \in [Fds -> Files],
         NEW t \in Threads, LocalInv(t), Counted(t), Memory(t),
         pc[t] \in {"fstat", "ftruncate", "mmap"} => Last(t) \in Fds
  PROVE  LocalInv(t)'
<1>a. /\ Kept(t) \in Nat /\ (mapped[t] = {} => Kept(t) = 0)
      /\ mapped[t] # {} => Kept(t) = IF IsShared(t) THEN 2 ELSE 1
  BY Zenon DEF Kept
<1>b. mapped'[t] = {} => Kept(t)' = 0
  BY Zenon DEF Kept
<1>c. UNCHANGED mapped => Kept(t)' = Kept(t) /\ (IsShared(t)' <=> IsShared(t))
  BY Zenon, KeptKept
<1>d. DOMAIN fds = Fds
  BY Zenon
<1>e. ASSUME NEW m \in Mappings, mapped' = [mapped EXCEPT ![t] = {m}]
      PROVE  /\ mapped'[t] # {} /\ Kept(t)' = IF m.object # 0 THEN 2 ELSE 1
             /\ IsShared(t)' <=> m.object # 0
  <2>1. mapped'[t] = {m}
    BY Zenon, <1>e DEF FrameTyped
  <2>2. IsShared(t)' <=> m.object # 0
    BY <2>1, Zenon DEF IsShared
  <2>3. QED
    BY <2>1, <2>2, Zenon DEF Kept
<1> USE <1>a DEF LocalInv, HandleInv, HeapInv, ReadInv, RedirectInv, Counted, Handles1, Handles2,
                 Working, ReadPcs, SharedPcs, ProtectedPcs, ServerPcs, RedirectPcs, FrameTyped, Goto,
                 memory, locals, Allocated, Forget
<1>1. CASE SharedOpen(t)
  <2>1. CASE /\ \E d \in Fds : Pushed(t, d)
             /\ Goto(t, "shm_open", "fstat") /\ UNCHANGED <<heap, locals, held, mapped>>
    BY <1>c, <2>1
  <2>2. CASE /\ Goto(t, "shm_open", "idle") /\ Allocated(t, -2)
             /\ UNCHANGED <<handle, locals, held, mapped>>
    BY <1>c, <2>2
  <2>3. QED
    BY <1>1, <1>d, <2>1, <2>2, Zenon DEF SharedOpen
<1>2. CASE SharedSize(t)
  <2>1. /\ \E l \in {"ftruncate", "mmap"} : Goto(t, "fstat", l)
        /\ UNCHANGED <<locals, handle, held, heap, mapped>>
    BY <1>2, Zenon DEF SharedSize
  <2>2. QED
    BY Zenon, <1>c, <2>1
<1>3. CASE SharedResize(t)
  <2>1. /\ \E l \in {"e3", "mmap"} : Goto(t, "ftruncate", l)
        /\ UNCHANGED <<locals, handle, held, heap, mapped>>
    BY <1>3, Zenon DEF SharedResize
  <2>2. QED
    BY Zenon, <1>c, <2>1
<1>4. CASE SharedMap(t)
  <2>1. CASE Goto(t, "mmap", "e3") /\ UNCHANGED mapped
    BY Zenon, <1>4, <1>c, <2>1 DEF SharedMap
  <2>2. CASE /\ HandleObject(t) # 0 /\ Goto(t, "mmap", "close")
             /\ mapped' = [mapped EXCEPT ![t] = {Mapping(HandleObject(t), size[t])}]
    <3>1. Mapping(HandleObject(t), size[t]) \in Mappings
      BY Zenon, <2>2 DEF HandleObject, Files, Mapping, Mappings
    <3>2. Mapping(HandleObject(t), size[t]).object # 0
      BY Zenon, <2>2 DEF Mapping
    <3>3. Kept(t)' = 2
      BY Zenon, <1>e, <2>2, <3>1, <3>2
    <3>4. QED
      BY Zenon, <1>4, <2>2, <3>3 DEF SharedMap
  <2>3. QED
    BY <1>4, <2>1, <2>2, Zenon DEF SharedMap
<1>5. CASE SharedFail(t)
  BY <1>5, <1>c DEF SharedFail
<1>6. CASE SharedFailUnlink(t)
  BY <1>6, <1>c DEF SharedFailUnlink
<1>7. CASE SharedClose(t) \/ SharedUnlink(t)
  <2>1. IsShared(t) => mapped[t] # {}
    BY Zenon DEF IsShared
  <2>2. QED
    BY <1>7, <1>b, <2>1 DEF SharedClose, SharedUnlink, SharedRelease
<1>8. CASE ProtectedObject(t) \/ ProtectedAlias(t)
  BY <1>8, <1>c, <1>d DEF ProtectedObject, ProtectedAlias, Handle
<1>9. CASE ProtectedExecutable(t)
  <2>1. CASE /\ Goto(t, "map_executable", "map_writable") /\ UNCHANGED heap
             /\ mapped' = [mapped EXCEPT ![t] = {Mapping(0, size[t])}]
    <3>1. Mapping(0, size[t]) \in Mappings /\ Mapping(0, size[t]).object = 0
      BY Zenon DEF Mapping, Mappings
    <3>2. mapped'[t] # {} /\ ~IsShared(t)'
      BY Zenon, <1>e, <2>1, <3>1
    <3>3. QED
      BY Zenon, <1>9, <2>1, <3>2 DEF ProtectedExecutable
  <2>2. CASE /\ Goto(t, "map_executable", "close") /\ Allocated(t, -1) /\ UNCHANGED mapped
    BY <1>9, <1>c, <2>2 DEF ProtectedExecutable
  <2>3. QED
    BY <1>9, <2>1, <2>2, Zenon DEF ProtectedExecutable
<1>10. CASE ProtectedWritable(t)
  BY <1>10, <1>b, <1>c DEF ProtectedWritable
<1>11. CASE ProtectedDestroy(t)
  BY <1>11, <1>b DEF ProtectedDestroy
<1>12. QED
  BY <1>1, <1>2, <1>3, <1>4, <1>5, <1>6, <1>7, <1>8, <1>9, <1>10, <1>11, Zenon
     DEF Memory, Shared, Protected

LEMMA LocalBegin ==
  ASSUME FrameTyped, held \in [Threads -> Fds \cup {-1}], fds \in [Fds -> Files],
         NEW t \in Threads, LocalInv(t), Counted(t), ProcessBegin(t)
  PROVE  LocalInv(t)'
<1>a. /\ Kept(t) \in Nat /\ (mapped[t] = {} => Kept(t) = 0)
      /\ mapped'[t] = mapped[t] => Kept(t)' = Kept(t) /\ (IsShared(t)' <=> IsShared(t))
  BY Zenon, KeptKept DEF Kept
<1>d. DOMAIN fds = Fds
  BY Zenon
<1> USE <1>a DEF LocalInv, HandleInv, HeapInv, ReadInv, RedirectInv, Counted, Handles1, Handles2,
                 Working, ReadPcs, SharedPcs, ProtectedPcs, ServerPcs, RedirectPcs, FrameTyped, Goto,
                 memory, locals, Allocated
<1>1. CASE Calls(t, "redirect") /\ RedirectBegin(t) /\ UNCHANGED memory
  BY <1>1 DEF RedirectBegin, Calls, Standard
<1>2. CASE (ServerSocket(t) \/ StreamDuplicate(t)) /\ UNCHANGED memory
  BY <1>2, <1>d DEF ServerSocket, StreamDuplicate
<1>3. CASE ReadBegin(t) /\ UNCHANGED memory
  BY <1>3, TableAssumption DEF ReadBegin
<1>4. CASE AlignedBegin(t) /\ UNCHANGED memory
  BY Zenon, <1>4 DEF AlignedBegin
<1>5. CASE SharedBegin(t) \/ ProtectedBegin(t)
  BY <1>5 DEF SharedBegin, ProtectedBegin
<1>6. QED
  BY <1>1, <1>2, <1>3, <1>4, <1>5, Zenon DEF ProcessBegin

-----------------------------------------------------------------------------
(* What a step does to the descriptors, whichever function it is of.       *)
Elsewhere(t) == pc[t] # "redirect_open" /\ pc'[t] # "redirect_open"
Openable == {f \in Files \ {Closed} : f.id \in {0, fds[0].id, name'}}
OpensHandle(t) ==
  /\ \E f \in Openable : \E d \in Fds : Opens(t, f, d) /\ Pushed(t, d)
  /\ UNCHANGED held /\ Elsewhere(t)
OpensHeld(t) ==
  /\ \E f \in Openable : \E d \in Fds : Opens(t, f, d) /\ held' = [held EXCEPT ![t] = d]
  /\ held[t] = -1 /\ UNCHANGED handle /\ Elsewhere(t)
OpensLost(t) ==
  /\ \E f \in Openable : Opens(t, f, 0)
  /\ UNCHANGED <<handle, held>> /\ Elsewhere(t)
Reopens(t) ==
  /\ IF to[t] > 0 THEN fds[to[t]] # Closed /\ \E d \in Fds : Opens(t, fds[to[t]], d)
     ELSE \E d \in Fds : Opens(t, File("null"), d)
  /\ UNCHANGED <<handle, held>> /\ pc[t] = "redirect_open" /\ pc'[t] = "redirect"
FailsOpen(t) ==
  /\ Free = {} \/ (to[t] > 0 /\ fds[to[t]] = Closed)
  /\ UNCHANGED <<fds, raced, handle, held>> /\ pc[t] = "redirect_open" /\ pc'[t] = "redirect"
ClosesStandard(t) ==
  /\ Closes(at[t]) /\ at'[t] = at[t] /\ at[t] \in Standard /\ at[t] # to[t]
  /\ UNCHANGED <<handle, held>> /\ pc[t] = "redirect" /\ pc'[t] = "redirect_open"
ClosesHandle(t) ==
  /\ Closes(Last(t)) /\ Dropped(t) /\ Opened(t) > 0 /\ UNCHANGED held /\ Elsewhere(t)
ClosesHeld(t) ==
  /\ held[t] # -1 /\ Closes(held[t]) /\ held' = [held EXCEPT ![t] = -1]
  /\ UNCHANGED handle /\ Elsewhere(t)
Moves(t) ==
  /\ Opened(t) = 1 /\ held[t] = -1 /\ held' = [held EXCEPT ![t] = Last(t)] /\ Dropped(t)
  /\ UNCHANGED <<fds, raced>> /\ Elsewhere(t)
Swaps(t) ==
  /\ Opened(t) = 2 /\ handle' = [handle EXCEPT ![t] = <<handle[t][2], handle[t][1]>>]
  /\ UNCHANGED <<fds, raced, held>> /\ Elsewhere(t)
Spares(t) == UNCHANGED <<fds, raced, handle, held>> /\ Elsewhere(t)

TableStep(t) ==
  \/ OpensHandle(t) \/ OpensHeld(t) \/ OpensLost(t) \/ Reopens(t) \/ FailsOpen(t)
  \/ ClosesStandard(t) \/ ClosesHandle(t) \/ ClosesHeld(t)
  \/ Moves(t) \/ Swaps(t) \/ Spares(t)

LEMMA OpenFiles ==
  /\ \A k \in {"server", "client", "file", "jit", "null", "tty"} : File(k) \in Files \ {Closed}
  /\ \A o \in Nat : Object(o) \in Files \ {Closed}
  /\ Closed \in Files
<1>1. \A k \in Kinds : k # "closed" => File(k) \in Files \ {Closed}
  BY Zenon DEF File, Files, Closed
<1>2. \A o \in Nat : Object(o) \in Files \ {Closed}
  BY Zenon DEF Object, Files, Closed, Kinds
<1>3. Closed \in Files
  BY Zenon DEF Closed, Files, Kinds
<1>4. QED
  BY Zenon, <1>1, <1>2, <1>3 DEF Kinds

LEMMA NewFiles ==
  /\ \A k \in {"server", "client", "file", "jit"} : File(k) \in Openable
  /\ name' \in Nat => Object(name') \in Openable
<1>1. (\A k : File(k).id = 0) /\ \A o : Object(o).id = o
  BY Zenon DEF File, Object
<1>2. QED
  BY Zenon, <1>1, OpenFiles DEF Openable

LEMMA DescriptorTable ==
  ASSUME FrameTyped, held \in [Threads -> Fds \cup {-1}], fds \in [Fds -> Files],
         NEW t \in Threads, LocalInv(t), Descriptors(t)
  PROVE  TableStep(t)
<1> USE DEF FrameTyped, Goto, locals, Elsewhere, TableStep
<1>1. CASE RedirectClose(t)
  <2>1. CASE /\ at[t] \in Standard /\ at[t] # to[t] /\ Goto(t, "redirect", "redirect_open")
             /\ Closes(at[t]) /\ UNCHANGED <<locals, handle, held>>
    BY Zenon, <2>1 DEF ClosesStandard
  <2>2. CASE /\ pc[t] = "redirect" /\ \E l \in {"redirect", "redirected"} : pc' = [pc EXCEPT ![t] = l]
             /\ UNCHANGED <<fds, handle, held, raced>>
    BY Zenon, <2>2 DEF Spares
  <2>3. QED
    BY <1>1, <2>1, <2>2, Zenon DEF RedirectClose
<1>2. CASE RedirectOpen(t)
  <2>1. pc[t] = "redirect_open" /\ pc'[t] = "redirect" /\ UNCHANGED <<handle, held>>
    BY Zenon, <1>2 DEF RedirectOpen
  <2>2. DOMAIN fds = Fds /\ (to[t] <= 0 <=> ~(to[t] > 0))
    OBVIOUS
  <2>3. CASE \/ to[t] > 0 /\ fds[to[t]] # Closed /\ \E d \in DOMAIN fds : Opens(t, fds[to[t]], d)
             \/ to[t] <= 0 /\ \E d \in DOMAIN fds : Opens(t, File("null"), d)
    BY <2>1, <2>2, <2>3, Zenon DEF Reopens
  <2>4. CASE /\ Free = {} \/ (to[t] > 0 /\ fds[to[t]] = Closed)
             /\ UNCHANGED <<fds, raced>>
    BY <2>1, <2>4, Zenon DEF FailsOpen
  <2>5. QED
    BY <1>2, <2>3, <2>4, Zenon DEF RedirectOpen
<1>3. CASE RedirectReturn(t)
  BY Zenon, <1>3 DEF RedirectReturn, Spares
<1>4. CASE Server(t)
  <2>1. CASE ServerBind(t) \/ ServerListen(t)
    BY Zenon, <2>1 DEF ServerBind, ServerListen, Spares
  <2>2. CASE ServerAccept(t)
    <3>1. Elsewhere(t) /\ UNCHANGED handle
      BY Zenon, <2>2 DEF ServerAccept
    <3>2. held[t] = -1
      BY Zenon, <2>2 DEF ServerAccept, LocalInv, HandleInv, ServerPcs
    <3>3. File("client") \in Openable /\ DOMAIN fds = Fds
      BY Zenon, NewFiles
    <3>4. CASE \E d \in DOMAIN fds : Opens(t, File("client"), d) /\ held' = [held EXCEPT ![t] = d]
      BY <3>1, <3>2, <3>3, <3>4, Zenon DEF OpensHeld
    <3>5. CASE UNCHANGED <<fds, held, raced>>
      BY Zenon, <3>1, <3>5 DEF Spares
    <3>6. QED
      BY <2>2, <3>4, <3>5, Zenon DEF ServerAccept
  <2>3. QED
    BY <1>4, <2>1, <2>2, Zenon DEF Server
<1>5. CASE StreamOpen(t)
  <2>1. Opened(t) = 1 /\ held[t] = -1
    BY Zenon, <1>5 DEF StreamOpen, LocalInv, HandleInv, ServerPcs, Handles1
  <2>2. QED
    BY Zenon, <1>5, <2>1 DEF StreamOpen, Spares, Moves
<1>6. CASE CloseLast(t) \/ AlignedClose(t)
  <2>1. Opened(t) > 0
    BY <1>6 DEF CloseLast, AlignedClose, LocalInv, HandleInv, Handles1
  <2>2. Elsewhere(t)
    BY Zenon, <1>6 DEF CloseLast, AlignedClose
  <2>3. QED
    BY <1>6, <2>1, <2>2, Zenon DEF CloseLast, AlignedClose, ClosesHandle
<1>7. CASE CloseHeld(t)
  BY Zenon, <1>7 DEF CloseHeld, ClosesHeld
<1>8. CASE ReadSome(t)
  <2>1. /\ pc[t] = "read" /\ \E l \in {"realloc", "read"} : pc' = [pc EXCEPT ![t] = l]
        /\ UNCHANGED <<fds, handle, held, raced>>
    BY <1>8, Zenon DEF ReadSome
  <2>2. QED
    BY Zenon, <2>1 DEF Spares
<1>9. CASE ReadGrow(t) \/ ReadEnd(t) \/ ReadFail(t) \/ ReadReturn(t)
  BY Zenon, <1>9 DEF ReadGrow, ReadEnd, ReadFail, ReadReturn, Spares
<1>10. CASE AlignedOpen(t)
  <2>1. CASE Goto(t, "fopen", "idle") /\ UNCHANGED <<fds, handle, held, raced>>
    BY Zenon, <2>1 DEF Spares
  <2>2. CASE (\E d \in DOMAIN fds : Opens(t, File("file"), d) /\ Pushed(t, d)) /\ Goto(t, "fopen", "fclose") /\ UNCHANGED held
    <3>1. Elsewhere(t)
      BY Zenon, <2>2
    <3>2. File("file") \in Openable /\ DOMAIN fds = Fds
      BY Zenon, NewFiles
    <3>3. QED
      BY <2>2, <3>1, <3>2, Zenon DEF OpensHandle
  <2>3. QED
    BY <1>10, <2>1, <2>2, Zenon DEF AlignedOpen
<1>11. QED
  BY <1>1, <1>2, <1>3, <1>4, <1>5, <1>6, <1>7, <1>8, <1>9, <1>10, Zenon
     DEF Descriptors, Redirect, Read

LEMMA MemoryTable ==
  ASSUME FrameTyped, held \in [Threads -> Fds \cup {-1}], fds \in [Fds -> Files], name \in Nat,
         name = 0 => Len(objects) + 1 \in Nat,
         NEW t \in Threads, LocalInv(t), Memory(t)
  PROVE  TableStep(t)
<1> USE DEF FrameTyped, Goto, locals, table, memory, Elsewhere, TableStep
<1>1. CASE SharedOpen(t)
  <2>1. CASE Goto(t, "shm_open", "idle") /\ UNCHANGED <<table, handle, held>>
    BY Zenon, <2>1 DEF Spares
  <2>2. CASE /\ \E d \in DOMAIN fds : Opens(t, Object(name'), d) /\ Pushed(t, d)
             /\ name' = IF name = 0 THEN Len(objects) + 1 ELSE name
             /\ Goto(t, "shm_open", "fstat") /\ UNCHANGED held
    <3>1. Elsewhere(t)
      BY Zenon, <2>2
    <3>2. name' \in Nat
      BY Zenon, <2>2
    <3>3. Object(name') \in Openable /\ DOMAIN fds = Fds
      BY Zenon, <3>2, NewFiles
    <3>4. QED
      BY <2>2, <3>1, <3>3, Zenon DEF OpensHandle
  <2>3. QED
    BY <1>1, <2>1, <2>2, Zenon DEF SharedOpen
<1>2. CASE SharedSize(t)
  <2>1. /\ pc[t] = "fstat" /\ \E l \in {"ftruncate", "mmap"} : pc' = [pc EXCEPT ![t] = l]
        /\ UNCHANGED <<fds, handle, held, raced>>
    BY <1>2, Zenon DEF SharedSize
  <2>2. QED
    BY Zenon, <2>1 DEF Spares
<1>3. CASE SharedResize(t)
  <2>1. /\ pc[t] = "ftruncate" /\ \E l \in {"e3", "mmap"} : pc' = [pc EXCEPT ![t] = l]
        /\ UNCHANGED <<fds, handle, held, raced>>
    BY <1>3, Zenon DEF SharedResize
  <2>2. QED
    BY Zenon, <2>1 DEF Spares
<1>4. CASE SharedMap(t)
  BY Zenon, <1>4 DEF SharedMap, Spares
<1>5. CASE SharedFail(t)
  <2>1. Opened(t) > 0
    BY <1>5 DEF SharedFail, LocalInv, HandleInv, Handles1
  <2>2. Elsewhere(t)
    BY Zenon, <1>5 DEF SharedFail
  <2>3. QED
    BY <1>5, <2>1, <2>2, Zenon DEF SharedFail, ClosesHandle
<1>6. CASE SharedFailUnlink(t) \/ SharedClose(t) \/ SharedUnlink(t) \/ ProtectedDestroy(t)
  BY Zenon, <1>6 DEF SharedFailUnlink, SharedClose, SharedUnlink, SharedRelease, ProtectedDestroy, Spares
<1>7. ASSUME NEW from, NEW ok, NEW error, Handle(t, from, ok, error), UNCHANGED held,
             "redirect_open" \notin {from, ok, error}
      PROVE  TableStep(t)
  <2>1. Elsewhere(t)
    <3>1. pc[t] = from /\ \E l \in {ok, error} : pc' = [pc EXCEPT ![t] = l]
      BY <1>7, Zenon DEF Handle
    <3>2. QED
      BY Zenon, <1>7, <3>1
  <2>2. File("jit") \in Openable /\ DOMAIN fds = Fds
    BY Zenon, NewFiles
  <2>3. CASE UNCHANGED <<table, handle>>
    BY Zenon, <1>7, <2>1, <2>3 DEF Spares
  <2>4. ASSUME NEW d \in DOMAIN fds, Opens(t, File("jit"), d),
               IF d # 0 THEN Pushed(t, d) ELSE UNCHANGED handle
        PROVE  TableStep(t)
    <3>1. CASE d # 0
      BY <1>7, <2>1, <2>2, <2>4, <3>1, Zenon DEF OpensHandle
    <3>2. CASE d = 0
      <4>1. Opens(t, File("jit"), 0) /\ UNCHANGED handle
        BY <2>4, <3>2, Zenon
      <4>2. QED
        BY <1>7, <2>1, <2>2, <4>1, Zenon DEF OpensLost
    <3>3. QED
      BY <3>1, <3>2, Zenon
  <2>5. QED
    BY <1>7, <2>3, <2>4, Zenon DEF Handle
<1>8. CASE ProtectedObject(t) \/ ProtectedAlias(t)
  <2>1. /\ "redirect_open" \notin {"jit", "alias", "idle"}
        /\ "redirect_open" \notin {"alias", "map_executable", "close"}
    BY Zenon
  <2>2. QED
    BY <1>7, <1>8, <2>1, Zenon DEF ProtectedObject, ProtectedAlias
<1>9. CASE ProtectedExecutable(t)
  BY Zenon, <1>9 DEF ProtectedExecutable, Spares
<1>10. CASE ProtectedWritable(t)
  <2>1. Opened(t) = 2
    BY Zenon, <1>10 DEF ProtectedWritable, LocalInv, HandleInv, Handles2
  <2>2. QED
    BY Zenon, <1>10, <2>1 DEF ProtectedWritable, Swaps, Spares
<1>11. QED
  BY <1>1, <1>2, <1>3, <1>4, <1>5, <1>6, <1>8, <1>9, <1>10, Zenon
     DEF Memory, Shared, Protected

LEMMA BeginTable ==
  ASSUME FrameTyped, held \in [Threads -> Fds \cup {-1}], fds \in [Fds -> Files],
         NEW t \in Threads, ProcessBegin(t)
  PROVE  TableStep(t)
<1> USE DEF FrameTyped, Goto, locals, table, Elsewhere, TableStep
<1>1. CASE ServerSocket(t)
  <2>1. Elsewhere(t)
    BY Zenon, <1>1 DEF ServerSocket
  <2>2. File("server") \in Openable /\ DOMAIN fds = Fds
    BY Zenon, NewFiles
  <2>3. QED
    BY <1>1, <2>1, <2>2, Zenon DEF ServerSocket, OpensHandle
<1>2. CASE StreamDuplicate(t)
  <2>1. Elsewhere(t)
    BY Zenon, <1>2 DEF StreamDuplicate
  <2>2. fds[0] \in Openable /\ DOMAIN fds = Fds
    BY <1>2, TableAssumption DEF Fds, StreamDuplicate, Openable
  <2>3. QED
    BY <1>2, <2>1, <2>2, Zenon DEF StreamDuplicate, OpensHandle
<1>3. CASE RedirectBegin(t) \/ ReadBegin(t) \/ AlignedBegin(t)
  BY Zenon, <1>3 DEF RedirectBegin, ReadBegin, AlignedBegin, Spares
<1>4. CASE SharedBegin(t) \/ ProtectedBegin(t)
  BY Zenon, <1>4 DEF SharedBegin, ProtectedBegin, Spares
<1>5. QED
  BY <1>1, <1>2, <1>3, <1>4, Zenon DEF ProcessBegin

-----------------------------------------------------------------------------
(* What handles and a held descriptor hold after each change.              *)
LEMMA HoldsPushed ==
  ASSUME NEW h \in Seq(Fds), NEW x, NEW d \in Fds
  PROVE  /\ \A e : Holds(Append(h, d), x, e) <=> Holds(h, x, e) \/ e = d
         /\ Distinct(h, x) /\ ~Holds(h, x, d) => Distinct(Append(h, d), x)
<1>1. PICK n \in Nat : n = Len(h) /\ DOMAIN h = 1 .. n
  OBVIOUS
<1>2. /\ DOMAIN Append(h, d) = 1 .. n + 1 /\ Append(h, d)[n + 1] = d
      /\ \A i \in 1 .. n : Append(h, d)[i] = h[i]
  BY <1>1
<1>3. \A i : i \in 1 .. n + 1 <=> i \in 1 .. n \/ i = n + 1
  BY <1>1
<1>4. QED
  BY Zenon, <1>1, <1>2, <1>3 DEF Holds, Distinct

LEMMA HoldsDropped ==
  ASSUME NEW h \in Seq(Fds), NEW x, Len(h) > 0, Distinct(h, x)
  PROVE  LET f == SubSeq(h, 1, Len(h) - 1)
         IN  /\ f \in Seq(Fds) /\ Distinct(f, x) /\ h[Len(h)] \in Fds
             /\ \A e : Holds(f, x, e) <=> Holds(h, x, e) /\ e # h[Len(h)]
<1> DEFINE f == SubSeq(h, 1, Len(h) - 1)
<1>1. PICK n \in Nat : n + 1 = Len(h) /\ DOMAIN h = 1 .. n + 1 /\ h[n + 1] \in Fds
  <2>1. Len(h) \in Nat /\ Len(h) > 0 /\ DOMAIN h = 1 .. Len(h) /\ h[Len(h)] \in Fds
    OBVIOUS
  <2>2. Len(h) - 1 \in Nat /\ (Len(h) - 1) + 1 = Len(h)
    BY <2>1
  <2>3. QED
    BY <2>1, <2>2, Zenon
<1>2. f \in Seq(Fds) /\ DOMAIN f = 1 .. n /\ \A i \in 1 .. n : f[i] = h[i]
  <2>1. f \in Seq(Fds) /\ Len(f) = Len(h) - 1 /\ \A i \in 1 .. Len(h) - 1 : f[i] = h[i]
    BY Zenon, DropOne
  <2>2. Len(h) - 1 = n
    BY <1>1
  <2>3. f \in Seq(Fds) /\ Len(f) = n /\ \A i \in 1 .. n : f[i] = h[i]
    BY <2>1, <2>2, Zenon
  <2> HIDE DEF f
  <2>4. QED
    BY <2>3
<1>3. \A i : i \in 1 .. n + 1 <=> i \in 1 .. n \/ i = n + 1
  BY <1>1
<1>4. n + 1 \notin 1 .. n
  BY <1>1
<1> HIDE DEF f
<1>5. Distinct(f, x) /\ \A e : Holds(f, x, e) <=> Holds(h, x, e) /\ e # h[n + 1]
  BY Zenon, <1>1, <1>2, <1>3, <1>4 DEF Holds, Distinct
<1>6. QED
  BY <1>1, <1>2, <1>5, Zenon DEF f

LEMMA HoldsTaken ==
  ASSUME NEW h \in Seq(Fds), NEW d \in Fds, Distinct(h, -1), ~Holds(h, -1, d)
  PROVE  Distinct(h, d) /\ \A e \in Fds : Holds(h, d, e) <=> Holds(h, -1, e) \/ e = d
<1>1. \A e \in Fds : e # -1
  BY DEF Fds
<1>2. QED
  BY <1>1, Zenon DEF Holds, Distinct

LEMMA HoldsGiven ==
  ASSUME NEW h \in Seq(Fds), NEW x \in Fds, Distinct(h, x)
  PROVE  Distinct(h, -1) /\ \A e \in Fds : Holds(h, -1, e) <=> Holds(h, x, e) /\ e # x
<1>1. \A e \in Fds : e # -1
  BY DEF Fds
<1>2. \A i \in DOMAIN h : h[i] \in Fds
  OBVIOUS
<1>3. QED
  BY <1>1, <1>2, Zenon DEF Holds, Distinct

LEMMA HoldsMoved ==
  ASSUME NEW h \in Seq(Fds), Len(h) = 1, Distinct(h, -1)
  PROVE  LET f == SubSeq(h, 1, Len(h) - 1)
         IN  /\ f \in Seq(Fds) /\ Distinct(f, h[Len(h)]) /\ h[Len(h)] \in Fds
             /\ \A e \in Fds : Holds(f, h[Len(h)], e) <=> Holds(h, -1, e)
<1> DEFINE f == SubSeq(h, 1, Len(h) - 1)
<1>1. f \in Seq(Fds) /\ DOMAIN f = {} /\ DOMAIN h = {1} /\ h[1] \in Fds
  <2>1. Len(h) > 0 /\ Len(h) - 1 = 0
    OBVIOUS
  <2>2. f \in Seq(Fds) /\ Len(f) = Len(h) - 1
    BY Zenon, <2>1, DropOne
  <2>3. PICK g \in Seq(Fds) : g = f /\ Len(g) = 0
    BY Zenon, <2>1, <2>2
  <2>4. DOMAIN g = {}
    BY <2>3
  <2>5. DOMAIN h = {1} /\ h[1] \in Fds
    OBVIOUS
  <2> QED
    BY Zenon, <2>3, <2>4, <2>5
<1> HIDE DEF f
<1>2. Distinct(f, h[1]) /\ \A e \in Fds : Holds(f, h[1], e) <=> Holds(h, -1, e)
  BY <1>1 DEF Holds, Distinct, Fds
<1>3. QED
  BY Zenon, <1>1, <1>2 DEF f

LEMMA HoldsSwapped ==
  ASSUME NEW h \in Seq(Fds), NEW x, Len(h) = 2, Distinct(h, x)
  PROVE  LET f == <<h[2], h[1]>>
         IN  f \in Seq(Fds) /\ Distinct(f, x) /\ \A e : Holds(f, x, e) <=> Holds(h, x, e)
<1> DEFINE f == <<h[2], h[1]>>
<1>1. f \in Seq(Fds) /\ DOMAIN f = 1 .. 2 /\ f[1] = h[2] /\ f[2] = h[1] /\ DOMAIN h = 1 .. 2
  OBVIOUS
<1>2. 1 .. 2 = {1, 2}
  OBVIOUS
<1> HIDE DEF f
<1>3. Distinct(f, x) /\ \A e : Holds(f, x, e) <=> Holds(h, x, e)
  BY Zenon, <1>1, <1>2 DEF Holds, Distinct
<1>4. QED
  BY <1>1, <1>3, Zenon DEF f

-----------------------------------------------------------------------------
(* The table, the handles and what is held stay what they are.             *)
OthersTable(t) ==
  \A u \in Threads \ {t} : handle'[u] = handle[u] /\ held'[u] = held[u]

LEMMA OpensTyped ==
  ASSUME fds \in [Fds -> Files], NEW t \in Threads, NEW f \in Files, NEW d \in Fds, Opens(t, f, d)
  PROVE  fds' \in [Fds -> Files]
BY Zenon DEF Opens

LEMMA ClosesTyped ==
  ASSUME fds \in [Fds -> Files], NEW d \in Fds, Closes(d)
  PROVE  fds' \in [Fds -> Files]
BY Zenon, OpenFiles DEF Closes

LEMMA LastTyped ==
  ASSUME handle \in [Threads -> Seq(Fds)], NEW t \in Threads, Opened(t) > 0
  PROVE  Last(t) \in Fds
BY DEF Opened, Last

LEMMA SwapTyped ==
  ASSUME NEW h \in Seq(Fds), Len(h) = 2
  PROVE  <<h[2], h[1]>> \in Seq(Fds)
OBVIOUS

LEMMA TableTypedStep ==
  ASSUME TableTyped, NEW t \in Threads, TableStep(t), to \in [Threads -> Int],
         pc[t] = "redirect_open" => to[t] \in {-1, 0, held[t]}
  PROVE  TableTyped' /\ OthersTable(t)
<1> USE DEF TableTyped, OthersTable
<1>1. ASSUME NEW h \in Seq(Fds), handle' = [handle EXCEPT ![t] = h]
      PROVE  handle' \in [Threads -> Seq(Fds)] /\ \A u \in Threads \ {t} : handle'[u] = handle[u]
  BY Zenon, <1>1
<1>2. ASSUME NEW x \in Fds \cup {-1}, held' = [held EXCEPT ![t] = x]
      PROVE  held' \in [Threads -> Fds \cup {-1}] /\ \A u \in Threads \ {t} : held'[u] = held[u]
  BY Zenon, <1>2
<1>3. ASSUME Dropped(t), Opened(t) > 0
      PROVE  handle' \in [Threads -> Seq(Fds)] /\ \A u \in Threads \ {t} : handle'[u] = handle[u]
  <2>1. handle[t] \in Seq(Fds) /\ Len(handle[t]) > 0
    BY Zenon, <1>3 DEF Opened
  <2>2. SubSeq(handle[t], 1, Len(handle[t]) - 1) \in Seq(Fds)
    BY Zenon, <2>1, DropOne
  <2>3. QED
    BY <1>1, <1>3, <2>2, Zenon DEF Dropped
<1>4. CASE OpensHandle(t)
  <2>1. PICK f \in Files \ {Closed}, d \in Fds : Opens(t, f, d) /\ Pushed(t, d)
    BY <1>4, Zenon DEF OpensHandle, Openable
  <2>2. Append(handle[t], d) \in Seq(Fds)
    OBVIOUS
  <2>3. UNCHANGED held
    BY <1>4, Zenon DEF OpensHandle, Openable
  <2>4. QED
    BY <1>1, <2>1, <2>2, <2>3, OpensTyped, Zenon DEF Pushed
<1>5. CASE OpensHeld(t)
  BY <1>2, <1>5, OpensTyped, Zenon DEF OpensHeld, Openable
<1>6. CASE OpensLost(t)
  <2>1. 0 \in Fds
    BY TableAssumption DEF Fds
  <2>2. QED
    BY <1>6, <2>1, OpensTyped, Zenon DEF OpensLost, Openable
<1>7. CASE Reopens(t)
  <2>1. to[t] > 0 => fds[to[t]] \in Files
    BY <1>7 DEF Reopens
  <2>2. File("null") \in Files
    BY Zenon, OpenFiles
  <2>3. fds' \in [Fds -> Files]
    BY <1>7, <2>1, <2>2, OpensTyped, Zenon DEF Reopens
  <2>4. QED
    BY <1>7, <2>3, Zenon DEF Reopens
<1>8. CASE FailsOpen(t) \/ Spares(t)
  BY <1>8, Zenon DEF FailsOpen, Spares
<1>9. CASE ClosesStandard(t)
  <2>1. at[t] \in Fds
    BY <1>9, TableAssumption DEF ClosesStandard, Standard, Fds
  <2>2. QED
    BY <1>9, <2>1, ClosesTyped, Zenon DEF ClosesStandard
<1>10. CASE ClosesHandle(t)
  BY <1>3, <1>10, LastTyped, ClosesTyped, Zenon DEF ClosesHandle
<1>11. CASE ClosesHeld(t)
  <2>1. held[t] \in Fds
    BY Zenon, <1>11 DEF ClosesHeld
  <2>2. QED
    BY <1>2, <1>11, <2>1, ClosesTyped, Zenon DEF ClosesHeld
<1>12. CASE Moves(t)
  <2>1. Opened(t) > 0
    BY <1>12 DEF Moves
  <2>2. QED
    BY <1>2, <1>3, <1>12, <2>1, LastTyped, Zenon DEF Moves
<1>13. CASE Swaps(t)
  <2>1. Len(handle[t]) = 2 /\ handle[t] \in Seq(Fds)
    BY Zenon, <1>13 DEF Swaps, Opened
  <2>2. <<handle[t][2], handle[t][1]>> \in Seq(Fds)
    BY <2>1, SwapTyped, Zenon
  <2>3. QED
    BY <1>1, <1>13, <2>2, Zenon DEF Swaps
<1>14. QED
  BY <1>4, <1>5, <1>6, <1>7, <1>8, <1>9, <1>10, <1>11, <1>12, <1>13, Zenon DEF TableStep

-----------------------------------------------------------------------------
(* Who has a descriptor after a step, as long as none is taken from under  *)
(* a redirect.                                                             *)
Gains(t) ==
  \E d \in Fds \ Standard :
    /\ fds[d] = Closed /\ fds'[d] # Closed /\ \A e \in Fds \ {d} : fds'[e] = fds[e]
    /\ \A e \in Fds : Has(t, e)' <=> Has(t, e) \/ e = d
Keeps(t) == fds' = fds /\ \A e \in Fds : Has(t, e)' <=> Has(t, e)
Loses(t) ==
  \E d \in Fds :
    /\ Has(t, d) /\ fds'[d] = Closed /\ \A e \in Fds \ {d} : fds'[e] = fds[e]
    /\ \A e \in Fds : Has(t, e)' <=> Has(t, e) /\ e # d
Restores(t) ==
  /\ pc[t] = "redirect_open" /\ pc'[t] = "redirect" /\ UNCHANGED <<handle, held>>
  /\ fds'[at[t]] = IF to[t] > 0 THEN fds[to[t]] ELSE File("null")
  /\ fds'[at[t]] # Closed /\ \A e \in Fds \ {at[t]} : fds'[e] = fds[e]
  /\ \A u \in Threads \ {t} : ~(pc[u] = "redirect_open" /\ at[u] = at[t])
Shuts(t) ==
  /\ pc[t] = "redirect" /\ pc'[t] = "redirect_open" /\ UNCHANGED <<handle, held>>
  /\ at'[t] = at[t] /\ at[t] \in Standard /\ at[t] # to[t]
  /\ fds'[at[t]] = Closed /\ \A e \in Fds \ {at[t]} : fds'[e] = fds[e]
OwnEffect(t) ==
  \/ /\ Distinct(handle[t], held[t])' /\ Elsewhere(t)
     /\ Gains(t) \/ Keeps(t) \/ Loses(t)
  \/ Restores(t) \/ Shuts(t)

Fresh(t, f, d) ==
  /\ fds[d] = Closed /\ \A e \in Fds : fds[e] = Closed => d <= e
  /\ fds'[d] = f /\ \A e \in Fds \ {d} : fds'[e] = fds[e]
  /\ \A u \in Threads \ {t} : ~(pc[u] = "redirect_open" /\ at[u] = d)
  /\ pc[t] # "redirect_open" => d \notin Standard
  /\ \A u \in Threads : ~Has(u, d)

LEMMA OpensFree ==
  ASSUME TableTyped, OwnInv, NEW t \in Threads, NEW f, NEW d \in Fds, Opens(t, f, d), ~raced'
  PROVE  Fresh(t, f, d)
<1>1. \A e : e \in Free <=> e \in Fds /\ fds[e] = Closed
  BY Zenon DEF Free, TableTyped
<1>2. d \in Free /\ \A e \in Free : d <= e
  BY Zenon DEF Opens
<1>3. \A u \in Threads \ {t} : ~(pc[u] = "redirect_open" /\ at[u] = d)
  BY Zenon DEF Opens
<1>4. fds'[d] = f /\ \A e \in Fds \ {d} : fds'[e] = fds[e]
  BY Zenon DEF Opens, TableTyped
<1>5. pc[t] # "redirect_open" => d \notin Standard
  BY <1>1, <1>2, <1>3, Zenon DEF OwnInv
<1>6. \A u \in Threads : ~Has(u, d)
  BY <1>1, <1>2, Zenon DEF OwnInv
<1>7. QED
  BY <1>1, <1>2, <1>3, <1>4, <1>5, <1>6, Zenon DEF Fresh

LEMMA OwnEffects ==
  ASSUME TableTyped, OwnInv, NEW t \in Threads, TableStep(t), ~raced', to \in [Threads -> Int],
         RedirectInv(t)
  PROVE  OwnEffect(t)
<1>0. /\ handle[t] \in Seq(Fds) /\ Distinct(handle[t], held[t])
      /\ \A e : Has(t, e) <=> Holds(handle[t], held[t], e)
      /\ \A e : Has(t, e)' <=> Holds(handle'[t], held'[t], e)
  BY Zenon DEF TableTyped, OwnInv, Has
<1>1. CASE OpensHandle(t)
  <2>1. PICK f \in Files \ {Closed}, d \in Fds : Opens(t, f, d) /\ Pushed(t, d)
    BY <1>1, Zenon DEF OpensHandle, Openable
  <2>2. handle'[t] = Append(handle[t], d) /\ held'[t] = held[t] /\ Elsewhere(t)
    BY Zenon, <1>1, <2>1 DEF OpensHandle, Pushed, TableTyped
  <2>3. /\ d \notin Standard /\ fds[d] = Closed /\ fds'[d] = f /\ ~Has(t, d)
        /\ \A e \in Fds \ {d} : fds'[e] = fds[e]
    <3>1. Fresh(t, f, d)
      BY <2>1, OpensFree, Zenon
    <3>2. QED
      BY <2>2, <3>1, Zenon DEF Elsewhere, Fresh
  <2>4. /\ \A e : Holds(handle'[t], held'[t], e) <=> Holds(handle[t], held[t], e) \/ e = d
        /\ Distinct(handle'[t], held'[t])
    BY <1>0, <2>2, <2>3, HoldsPushed
  <2>5. QED
    BY <1>0, <2>1, <2>2, <2>3, <2>4, Zenon DEF OwnEffect, Gains
<1>2. CASE OpensHeld(t)
  <2>1. PICK f \in Files \ {Closed}, d \in Fds : Opens(t, f, d) /\ held' = [held EXCEPT ![t] = d]
    BY <1>2, Zenon DEF OpensHeld, Openable
  <2>2. handle'[t] = handle[t] /\ held[t] = -1 /\ held'[t] = d /\ Elsewhere(t)
    BY Zenon, <1>2, <2>1 DEF OpensHeld, TableTyped
  <2>3. /\ d \notin Standard /\ fds[d] = Closed /\ fds'[d] = f /\ ~Has(t, d)
        /\ \A e \in Fds \ {d} : fds'[e] = fds[e]
    <3>1. Fresh(t, f, d)
      BY <2>1, OpensFree, Zenon
    <3>2. QED
      BY <2>2, <3>1, Zenon DEF Elsewhere, Fresh
  <2>4. /\ \A e \in Fds : Holds(handle'[t], held'[t], e) <=> Holds(handle[t], held[t], e) \/ e = d
        /\ Distinct(handle'[t], held'[t])
    BY <1>0, <2>2, <2>3, HoldsTaken
  <2>5. QED
    BY <1>0, <2>1, <2>2, <2>3, <2>4, Zenon DEF OwnEffect, Gains
<1>3. CASE OpensLost(t)
  <2>1. 0 \in Fds /\ 0 \in Standard
    BY TableAssumption DEF Fds, Standard
  <2>2. QED
    BY <1>3, <2>1, OpensFree, Zenon DEF OpensLost, Elsewhere, Fresh
<1>4. CASE Reopens(t)
  <2>1. at[t] \in Standard /\ at[t] \in Fds /\ fds[at[t]] = Closed
    BY <1>4, TableAssumption DEF Reopens, RedirectInv, RedirectPcs, OwnInv, Standard, Fds
  <2>2. PICK d \in Fds : Opens(t, IF to[t] > 0 THEN fds[to[t]] ELSE File("null"), d)
    BY <1>4, Zenon DEF Reopens
  <2>3. /\ fds[d] = Closed /\ d <= at[t]
        /\ fds'[d] = IF to[t] > 0 THEN fds[to[t]] ELSE File("null")
        /\ \A e \in Fds \ {d} : fds'[e] = fds[e]
        /\ \A u \in Threads \ {t} : ~(pc[u] = "redirect_open" /\ at[u] = d)
    <3>1. Fresh(t, IF to[t] > 0 THEN fds[to[t]] ELSE File("null"), d)
      BY <2>2, OpensFree, Zenon
    <3>2. QED
      BY <2>1, <3>1, Zenon DEF Fresh
  <2>4. d \in Standard
    BY <2>1, <2>3 DEF Standard, Fds
  <2>5. d = at[t]
    BY <2>3, <2>4, Zenon DEF OwnInv
  <2>6. File("null") # Closed
    BY Zenon, OpenFiles
  <2>7. QED
    BY <1>4, <2>3, <2>5, <2>6, Zenon DEF Reopens, OwnEffect, Restores
<1>5. CASE FailsOpen(t)
  <2>1. at[t] \in Standard /\ at[t] \in Fds /\ fds[at[t]] = Closed
    BY <1>5, TableAssumption DEF FailsOpen, RedirectInv, RedirectPcs, OwnInv, Standard, Fds
  <2>2. Free # {}
    BY Zenon, <2>1 DEF Free, TableTyped
  <2>3. to[t] > 0 => to[t] \in Fds /\ Has(t, to[t])
    <3>1. to[t] > 0 => to[t] = held[t] /\ held[t] \in Fds
      BY <1>5 DEF FailsOpen, RedirectInv, RedirectPcs, TableTyped
    <3>2. QED
      BY <3>1, Zenon DEF Has, Holds
  <2>4. QED
    BY <1>5, <2>2, <2>3 DEF FailsOpen, OwnInv
<1>6. CASE ClosesStandard(t)
  <2>1. fds'[at[t]] = Closed /\ \A e \in Fds \ {at[t]} : fds'[e] = fds[e]
    BY <1>6, TableAssumption DEF ClosesStandard, Closes, TableTyped, Standard, Fds
  <2>2. QED
    BY <1>6, <2>1, Zenon DEF ClosesStandard, OwnEffect, Shuts
<1>7. CASE ClosesHandle(t)
  <2>1. Len(handle[t]) > 0 /\ handle'[t] = SubSeq(handle[t], 1, Len(handle[t]) - 1)
    BY Zenon, <1>7 DEF ClosesHandle, Dropped, Opened, TableTyped
  <2>2. held'[t] = held[t] /\ Elsewhere(t)
    BY <1>7, Zenon DEF ClosesHandle
  <2>3. /\ Last(t) \in Fds /\ Distinct(handle'[t], held'[t])
        /\ \A e : Holds(handle'[t], held'[t], e) <=> Holds(handle[t], held[t], e) /\ e # Last(t)
    BY <1>0, <2>1, <2>2, HoldsDropped DEF Last
  <2>4. fds'[Last(t)] = Closed /\ \A e \in Fds \ {Last(t)} : fds'[e] = fds[e]
    BY Zenon, <1>7, <2>3 DEF ClosesHandle, Closes, TableTyped
  <2>5. Has(t, Last(t))
    <3>1. Len(handle[t]) \in DOMAIN handle[t]
      BY <1>0, <2>1
    <3>2. QED
      BY <3>1, Zenon DEF Has, Holds, Last
  <2>6. QED
    BY <1>0, <2>2, <2>3, <2>4, <2>5, Zenon DEF OwnEffect, Loses
<1>8. CASE ClosesHeld(t)
  <2>1. handle'[t] = handle[t] /\ held[t] \in Fds /\ held'[t] = -1 /\ Elsewhere(t)
    BY Zenon, <1>8 DEF ClosesHeld, TableTyped
  <2>2. fds'[held[t]] = Closed /\ \A e \in Fds \ {held[t]} : fds'[e] = fds[e]
    BY Zenon, <1>8, <2>1 DEF ClosesHeld, Closes, TableTyped
  <2>3. /\ Distinct(handle'[t], held'[t])
        /\ \A e \in Fds : Holds(handle'[t], held'[t], e) <=> Holds(handle[t], held[t], e) /\ e # held[t]
    BY <1>0, <2>1, HoldsGiven
  <2>4. Has(t, held[t])
    BY Zenon DEF Has, Holds
  <2>5. QED
    BY <1>0, <2>1, <2>2, <2>3, <2>4, Zenon DEF OwnEffect, Loses
<1>9. CASE Moves(t)
  <2>1. Len(handle[t]) = 1 /\ handle'[t] = SubSeq(handle[t], 1, Len(handle[t]) - 1)
    BY Zenon, <1>9 DEF Moves, Dropped, Opened, TableTyped
  <2>2. held[t] = -1 /\ held'[t] = Last(t) /\ Elsewhere(t) /\ fds' = fds
    BY Zenon, <1>9 DEF Moves, TableTyped
  <2>3. /\ Distinct(handle'[t], held'[t])
        /\ \A e \in Fds : Holds(handle'[t], held'[t], e) <=> Holds(handle[t], held[t], e)
    BY <1>0, <2>1, <2>2, HoldsMoved, Zenon DEF Last
  <2>4. QED
    BY <1>0, <2>2, <2>3, Zenon DEF OwnEffect, Keeps
<1>10. CASE Swaps(t)
  <2>1. Len(handle[t]) = 2 /\ handle'[t] = <<handle[t][2], handle[t][1]>>
    BY Zenon, <1>10 DEF Swaps, Opened, TableTyped
  <2>2. held'[t] = held[t] /\ Elsewhere(t) /\ fds' = fds
    BY <1>10, Zenon DEF Swaps
  <2>3. /\ Distinct(handle'[t], held'[t])
        /\ \A e : Holds(handle'[t], held'[t], e) <=> Holds(handle[t], held[t], e)
    BY <1>0, <2>1, <2>2, HoldsSwapped, ZenonT(60)
  <2>4. QED
    BY <1>0, <2>2, <2>3, Zenon DEF OwnEffect, Keeps
<1>11. CASE Spares(t)
  BY <1>0, <1>11, Zenon DEF Spares, OwnEffect, Keeps
<1>12. QED
  BY <1>1, <1>2, <1>3, <1>4, <1>5, <1>6, <1>7, <1>8, <1>9, <1>10, <1>11, Zenon DEF TableStep

Stays(t) ==
  /\ \A u \in Threads \ {t} : \A d \in Fds : Has(u, d) => fds'[d] = fds[d]
  /\ Elsewhere(t) => \A d \in Standard : fds'[d] = fds[d]

LEMMA OwnStep ==
  ASSUME OwnInv, NEW t \in Threads, OwnEffect(t), OthersTable(t), OthersFrame(t),
         \A u \in Threads : pc[u] = "redirect_open" => at[u] \in Standard
  PROVE  OwnInv' /\ Stays(t)
<1> DEFINE Apart == \A v \in Threads : Distinct(handle[v], held[v])
           Usable == \A v \in Threads : \A e \in Fds : Has(v, e) => e \notin Standard /\ fds[e] # Closed
           Single == \A v, w \in Threads : \A e \in Fds : Has(v, e) /\ Has(w, e) => v = w
           Had == \A e \in Fds \ Standard : fds[e] # Closed => \E v \in Threads : Has(v, e)
           Missing == \A e \in Standard :
                        fds[e] = Closed => \E v \in Threads : pc[v] = "redirect_open" /\ at[v] = e
           Absent == \A v \in Threads : pc[v] = "redirect_open" => fds[at[v]] = Closed
<1>1. Apart /\ Single
  BY Zenon DEF OwnInv
<1>2. Usable
  BY Zenon DEF OwnInv
<1>3. Had
  BY Zenon DEF OwnInv
<1>4. Missing
  BY Zenon DEF OwnInv
<1>5. Absent
  BY Zenon DEF OwnInv
<1>6. \A u \in Threads : u # t =>
        Distinct(handle[u], held[u])' /\ \A e \in Fds : Has(u, e)' <=> Has(u, e)
  BY Zenon, <1>1 DEF OthersTable, Has
<1>7. \A u \in Threads : u # t => pc'[u] = pc[u] /\ at'[u] = at[u]
  BY Zenon DEF OthersFrame
<1>8. Standard \subseteq Fds
  BY TableAssumption DEF Standard, Fds
<1>9. CASE Distinct(handle[t], held[t])' /\ Elsewhere(t) /\ Gains(t)
  <2>1. PICK d \in Fds \ Standard :
          /\ fds[d] = Closed /\ fds'[d] # Closed /\ \A e \in Fds : e # d => fds'[e] = fds[e]
          /\ \A e \in Fds : Has(t, e)' <=> Has(t, e) \/ e = d
    BY Zenon, <1>9 DEF Gains
  <2>2. \A u \in Threads : ~Has(u, d)
    BY Zenon, <1>2, <2>1
  <2>3. Apart' /\ Single'
    BY <1>1, <1>6, <1>9, <2>1, <2>2
  <2>4. Usable'
    BY Zenon, <1>1, <1>2, <1>6, <1>9, <2>1, <2>2
  <2>5. Had'
    BY Zenon, <1>3, <1>6, <1>9, <2>1, <2>2
  <2>6. Missing'
    <3>1. \A e \in Standard : fds'[e] = fds[e]
      BY Zenon, <1>8, <2>1
    <3>2. ASSUME NEW e \in Standard, fds'[e] = Closed
          PROVE  \E v \in Threads : pc'[v] = "redirect_open" /\ at'[v] = e
      <4>1. PICK v \in Threads : pc[v] = "redirect_open" /\ at[v] = e
        BY Zenon, <1>4, <3>1, <3>2
      <4>2. v # t
        BY Zenon, <1>9, <4>1 DEF Elsewhere
      <4> QED
        BY Zenon, <1>7, <4>1, <4>2
    <3> QED
      BY Zenon, <3>2
  <2>7. Absent'
    <3>1. \A e \in Standard : fds'[e] = fds[e]
      BY Zenon, <1>8, <2>1
    <3> QED
      BY Zenon, <1>5, <1>7, <1>9, <3>1 DEF Elsewhere
  <2>8. Stays(t)
    BY Zenon, <1>1, <1>2, <1>8, <1>9, <2>1, <2>2 DEF Stays, Elsewhere
  <2>9. QED
    BY Zenon, <2>3, <2>4, <2>5, <2>6, <2>7, <2>8 DEF OwnInv
<1>10. CASE Distinct(handle[t], held[t])' /\ Elsewhere(t) /\ Keeps(t)
  <2>1. fds' = fds /\ \A e \in Fds : Has(t, e)' <=> Has(t, e)
    BY Zenon, <1>10 DEF Keeps
  <2>2. Apart' /\ Single'
    BY Zenon, <1>1, <1>6, <1>10, <2>1
  <2>3. Usable'
    BY Zenon, <1>1, <1>2, <1>6, <1>10, <2>1
  <2>4. Had'
    BY Zenon, <1>3, <1>6, <1>10, <2>1
  <2>5. Missing'
    BY <1>4, <1>7, <1>8, <1>10, <2>1 DEF Elsewhere
  <2>6. Absent'
    BY Zenon, <1>5, <1>7, <1>8, <1>10, <2>1 DEF Elsewhere
  <2>7. Stays(t)
    BY Zenon, <1>1, <1>2, <1>8, <1>10, <2>1 DEF Stays, Elsewhere
  <2>8. QED
    BY Zenon, <2>2, <2>3, <2>4, <2>5, <2>6, <2>7 DEF OwnInv
<1>11. CASE Distinct(handle[t], held[t])' /\ Elsewhere(t) /\ Loses(t)
  <2>1. PICK d \in Fds :
          /\ Has(t, d) /\ fds'[d] = Closed /\ \A e \in Fds : e # d => fds'[e] = fds[e]
          /\ \A e \in Fds : Has(t, e)' <=> Has(t, e) /\ e # d
    BY Zenon, <1>11 DEF Loses
  <2>2. d \notin Standard
    BY Zenon, <1>2, <2>1
  <2>3. Apart' /\ Single'
    BY Zenon, <1>1, <1>6, <1>11, <2>1, <2>2
  <2>4. Usable'
    <3>1. ASSUME NEW v \in Threads, NEW e \in Fds, Has(v, e)'
          PROVE  e \notin Standard /\ fds'[e] # Closed
      <4>1. Has(v, e)
        BY Zenon, <1>6, <2>1, <3>1
      <4>2. e # d
        BY Zenon, <1>1, <2>1, <3>1, <4>1
      <4> QED
        BY Zenon, <1>2, <2>1, <4>1, <4>2
    <3> QED
      BY Zenon, <3>1
  <2>5. Had'
    BY Zenon, <1>3, <1>6, <1>11, <2>1, <2>2
  <2>6. Missing'
    BY <1>4, <1>7, <1>8, <1>11, <2>1, <2>2 DEF Elsewhere
  <2>7. Absent'
    <3>1. ASSUME NEW v \in Threads, pc'[v] = "redirect_open" PROVE fds'[at'[v]] = Closed
      <4>1. pc[v] = "redirect_open" /\ at'[v] = at[v] /\ at[v] \in Standard
        BY Zenon, <1>7, <1>11, <3>1 DEF Elsewhere
      <4> QED
        BY Zenon, <1>5, <1>8, <2>1, <2>2, <4>1
    <3> QED
      BY Zenon, <3>1
  <2>8. Stays(t)
    <3>1. ASSUME NEW u \in Threads \ {t}, NEW e \in Fds, Has(u, e) PROVE fds'[e] = fds[e]
      BY Zenon, <1>1, <2>1, <3>1
    <3>2. \A e \in Standard : fds'[e] = fds[e]
      BY Zenon, <1>8, <2>1, <2>2
    <3> QED
      BY Zenon, <3>1, <3>2 DEF Stays
  <2>9. QED
    BY Zenon, <2>3, <2>4, <2>5, <2>6, <2>7, <2>8 DEF OwnInv
<1>12. ASSUME UNCHANGED <<handle, held>>
      PROVE  \A u \in Threads :
               Distinct(handle[u], held[u])' /\ \A e \in Fds : Has(u, e)' <=> Has(u, e)
  BY Zenon, <1>1, <1>12 DEF Has
<1>13. CASE Restores(t)
  <2>1. /\ at[t] \in Standard /\ fds'[at[t]] # Closed /\ \A e \in Fds : e # at[t] => fds'[e] = fds[e]
        /\ \A u \in Threads : u # t => ~(pc[u] = "redirect_open" /\ at[u] = at[t])
        /\ pc[t] = "redirect_open" /\ pc'[t] # "redirect_open"
    BY Zenon, <1>13 DEF Restores
  <2>2. \A u \in Threads :
          Distinct(handle[u], held[u])' /\ \A e \in Fds : Has(u, e)' <=> Has(u, e)
    BY Zenon, <1>12, <1>13 DEF Restores
  <2>3. Apart' /\ Single'
    BY Zenon, <1>1, <1>6, <2>1, <2>2
  <2>4. Usable'
    BY Zenon, <1>1, <1>2, <1>6, <2>1, <2>2
  <2>5. Had'
    BY <1>3, <1>6, <2>1, <2>2
  <2>6. Missing'
    BY <1>4, <1>7, <1>8, <2>1
  <2>7. Absent'
    BY <1>5, <1>7, <1>8, <2>1
  <2>8. Stays(t)
    BY ZenonT(60), <1>1, <1>2, <1>8, <2>1, <2>2 DEF Stays, Elsewhere
  <2>9. QED
    BY Zenon, <2>3, <2>4, <2>5, <2>6, <2>7, <2>8 DEF OwnInv
<1>14. CASE Shuts(t)
  <2>1. /\ at[t] \in Standard /\ fds'[at[t]] = Closed /\ \A e \in Fds : e # at[t] => fds'[e] = fds[e]
        /\ pc'[t] = "redirect_open" /\ at'[t] = at[t]
    BY Zenon, <1>14 DEF Shuts
  <2>2. \A u \in Threads :
          Distinct(handle[u], held[u])' /\ \A e \in Fds : Has(u, e)' <=> Has(u, e)
    BY Zenon, <1>12, <1>14 DEF Shuts
  <2>3. Apart' /\ Single'
    BY Zenon, <1>1, <1>6, <2>1, <2>2
  <2>4. Usable'
    BY <1>1, <1>2, <1>6, <2>1, <2>2
  <2>5. Had'
    BY Zenon, <1>3, <1>6, <2>1, <2>2
  <2>6. Missing'
    BY <1>4, <1>7, <1>8, <2>1
  <2>7. Absent'
    BY <1>5, <1>7, <1>8, <2>1
  <2>8. Stays(t)
    <3>1. ~Elsewhere(t)
      BY Zenon, <2>1 DEF Elsewhere
    <3>2. ASSUME NEW u \in Threads \ {t}, NEW e \in Fds, Has(u, e) PROVE fds'[e] = fds[e]
      BY Zenon, <1>2, <2>1, <3>2
    <3> QED
      BY Zenon, <3>1, <3>2 DEF Stays
  <2>9. QED
    BY Zenon, <2>3, <2>4, <2>5, <2>6, <2>7, <2>8 DEF OwnInv
<1>15. QED
  BY Zenon, <1>9, <1>10, <1>11, <1>13, <1>14 DEF OwnEffect

-----------------------------------------------------------------------------
(* Steps that matter neither to a redirect nor to objects and mappings.    *)
Calm(t) ==
  /\ UNCHANGED <<objects, stale>> /\ name' \in {name, 0} /\ pc'[t] \notin {"ftruncate", "mmap"}
  /\ mapped'[t] \in {mapped[t], {}} \/ \E n \in Nat : mapped'[t] = {Mapping(0, n)}
Objecting(t) == SharedOpen(t) \/ SharedSize(t) \/ SharedResize(t) \/ SharedMap(t)
Redirecting(t) == RedirectBegin(t) \/ RedirectClose(t) \/ RedirectOpen(t)
Sorted(t) ==
  /\ pc'[t] \notin RedirectPcs \/ (Redirecting(t) /\ UNCHANGED memory)
  /\ Calm(t) \/ Objecting(t)
  /\ pc'[t] \notin StubPcs

LEMMA DescriptorSorted ==
  ASSUME pc \in [Threads -> Labels], NEW t \in Threads, Descriptors(t) /\ UNCHANGED memory
  PROVE  Sorted(t)
<1>0. UNCHANGED <<objects, stale, name, mapped>>
  BY Zenon DEF memory
<1>1. CASE Redirecting(t)
  <2>1. pc'[t] \notin {"ftruncate", "mmap"} /\ pc'[t] \notin StubPcs
    BY Zenon, <1>1 DEF StubPcs, Redirecting, RedirectBegin, RedirectClose, RedirectOpen, Goto
  <2>2. QED
    BY Zenon, <1>0, <1>1, <2>1 DEF Sorted, Calm
<1>2. ASSUME pc'[t] \notin RedirectPcs, pc'[t] \notin {"ftruncate", "mmap"}, pc'[t] \notin StubPcs
      PROVE  Sorted(t)
  BY Zenon, <1>0, <1>2 DEF Sorted, Calm
<1> USE DEF Goto, RedirectPcs, StubPcs
<1>3. CASE RedirectReturn(t) \/ Server(t) \/ StreamOpen(t) \/ CloseLast(t) \/ CloseHeld(t)
  <2>1. CASE CloseHeld(t)
    <3>1. pc'[t] = "idle"
      BY Zenon, <2>1 DEF CloseHeld
    <3>2. QED
      BY Zenon, <1>2, <3>1
  <2>2. CASE CloseLast(t)
    <3>1. pc'[t] \in {"idle", "close"}
      BY Zenon, <2>2 DEF CloseLast
    <3>2. QED
      BY Zenon, <1>2, <3>1
  <2>3. CASE RedirectReturn(t) \/ Server(t) \/ StreamOpen(t)
    <3>1. pc'[t] \in {"idle", "close", "listen", "accept"}
      BY Zenon, <2>3 DEF RedirectReturn, Server, ServerBind, ServerListen, ServerAccept, StreamOpen
    <3>2. QED
      BY Zenon, <1>2, <3>1
  <2>4. QED
    BY <1>3, <2>1, <2>2, <2>3, Zenon
<1>4. CASE ReadSome(t)
  <2>1. \E l \in {"realloc", "read"} : pc' = [pc EXCEPT ![t] = l]
    BY <1>4, Zenon DEF ReadSome
  <2>2. QED
    BY Zenon, <1>2, <2>1
<1>5. CASE ReadGrow(t) \/ ReadEnd(t) \/ ReadFail(t) \/ AlignedOpen(t) \/ AlignedClose(t) \/ ReadReturn(t)
  <2>1. pc'[t] \in {"read", "idle", "filled", "cut_short", "fclose"}
    BY Zenon, <1>5 DEF ReadGrow, ReadEnd, ReadFail, AlignedOpen, AlignedClose, ReadReturn
  <2>2. QED
    BY Zenon, <1>2, <2>1
<1>6. QED
  BY <1>1, <1>3, <1>4, <1>5, Zenon DEF Descriptors, Redirect, Read, Redirecting

LEMMA MemorySorted ==
  ASSUME pc \in [Threads -> Labels], mapped \in [Threads -> SUBSET Mappings],
         size \in [Threads -> Nat], NEW t \in Threads, Memory(t)
  PROVE  Sorted(t)
<1> USE DEF Goto, RedirectPcs, StubPcs, memory
<1>1. CASE SharedOpen(t)
  <2>1. \E l \in {"fstat", "idle"} : pc' = [pc EXCEPT ![t] = l]
    BY <1>1, Zenon DEF SharedOpen
  <2>2. pc'[t] \notin RedirectPcs /\ pc'[t] \notin StubPcs
    BY Zenon, <2>1
  <2>3. QED
    BY <1>1, <2>2, Zenon DEF Sorted, Objecting
<1>2. CASE SharedSize(t) \/ SharedResize(t)
  <2>1. \E l \in {"ftruncate", "mmap", "e3"} : pc' = [pc EXCEPT ![t] = l]
    BY <1>2, Zenon DEF SharedSize, SharedResize
  <2>2. pc'[t] \notin RedirectPcs /\ pc'[t] \notin StubPcs
    BY Zenon, <2>1
  <2>3. QED
    BY <1>2, <2>2, Zenon DEF Sorted, Objecting
<1>3. CASE SharedMap(t)
  <2>1. pc'[t] \notin RedirectPcs /\ pc'[t] \notin StubPcs
    BY Zenon, <1>3 DEF SharedMap
  <2>2. QED
    BY <1>3, <2>1, Zenon DEF Sorted, Objecting
<1>4. CASE SharedFail(t) \/ SharedFailUnlink(t)
  BY Zenon, <1>4 DEF SharedFail, SharedFailUnlink, Sorted, Calm
<1>5. CASE SharedClose(t) \/ SharedUnlink(t)
  BY Zenon, <1>5 DEF SharedClose, SharedUnlink, SharedRelease, Sorted, Calm
<1>6. CASE ProtectedObject(t) \/ ProtectedAlias(t)
  <2>1. \E l \in {"idle", "alias", "close", "map_executable"} : pc' = [pc EXCEPT ![t] = l]
    BY <1>6, Zenon DEF ProtectedObject, ProtectedAlias, Handle
  <2>2. UNCHANGED memory
    BY <1>6, Zenon DEF ProtectedObject, ProtectedAlias
  <2>3. QED
    BY Zenon, <2>1, <2>2 DEF Sorted, Calm
<1>7. CASE ProtectedExecutable(t)
  <2>1. mapped'[t] = mapped[t] \/ mapped'[t] = {Mapping(0, size[t])}
    BY Zenon, <1>7 DEF ProtectedExecutable
  <2>2. pc'[t] \in {"close", "map_writable"} /\ UNCHANGED <<objects, stale, name>> /\ size[t] \in Nat
    BY Zenon, <1>7 DEF ProtectedExecutable
  <2>3. QED
    BY Zenon, <2>1, <2>2 DEF Sorted, Calm
<1>8. CASE ProtectedWritable(t) \/ ProtectedDestroy(t)
  BY Zenon, <1>8 DEF ProtectedWritable, ProtectedDestroy, Sorted, Calm
<1>9. QED
  BY <1>1, <1>2, <1>3, <1>4, <1>5, <1>6, <1>7, <1>8, Zenon DEF Memory, Shared, Protected

LEMMA BeginSorted ==
  ASSUME pc \in [Threads -> Labels], NEW t \in Threads, ProcessBegin(t)
  PROVE  Sorted(t)
<1> USE DEF Goto, RedirectPcs, StubPcs, memory
<1>1. CASE RedirectBegin(t) /\ UNCHANGED memory
  <2>1. pc'[t] = "redirect"
    BY Zenon, <1>1 DEF RedirectBegin
  <2>2. Redirecting(t)
    BY <1>1, Zenon DEF Redirecting
  <2>3. QED
    BY Zenon, <1>1, <2>1, <2>2 DEF Sorted, Calm
<1>2. CASE (ServerSocket(t) \/ StreamDuplicate(t) \/ ReadBegin(t) \/ AlignedBegin(t)) /\ UNCHANGED memory
  <2>1. pc'[t] \in {"bind", "fdopen", "read", "fopen"}
    <3>1. \E l \in {"bind", "fdopen", "read", "fopen"} : pc' = [pc EXCEPT ![t] = l]
      BY <1>2, Zenon DEF ServerSocket, StreamDuplicate, ReadBegin, AlignedBegin
    <3>2. QED
      BY Zenon, <3>1
  <2>2. QED
    BY Zenon, <1>2, <2>1 DEF Sorted, Calm
<1>3. CASE SharedBegin(t) \/ ProtectedBegin(t)
  BY Zenon, <1>3 DEF SharedBegin, ProtectedBegin, Sorted, Calm
<1>4. QED
  BY <1>1, <1>2, <1>3, Zenon DEF ProcessBegin

-----------------------------------------------------------------------------
(* Objects stay, and grow unless they are resized by a stale size.         *)
LEMMA ObjectOfHandle ==
  ASSUME ObjectTyped, fds \in [Fds -> Files], NEW t \in Threads, Last(t) \in Fds
  PROVE  HandleObject(t) \in Nat /\ (HandleObject(t) # 0 => HandleObject(t) \in 1 .. Len(objects))
<1>1. fds[Last(t)].id \in Nat /\ fds[Last(t)].id <= Len(objects) /\ Len(objects) \in Nat
  BY DEF ObjectTyped, Files
<1>2. QED
  BY <1>1 DEF HandleObject

LEMMA ObjectChange ==
  ASSUME ObjectTyped, fds \in [Fds -> Files], size \in [Threads -> Nat], NEW t \in Threads, Sorted(t),
         pc[t] \in {"fstat", "ftruncate", "mmap"} => Last(t) \in Fds
  PROVE  \/ objects' = objects /\ stale' = stale /\ name' \in {name, 0}
         \/ objects' = Append(objects, 0) /\ stale' = stale /\ name' = Len(objects) + 1
         \/ /\ pc[t] = "ftruncate" /\ HandleObject(t) \in 1 .. Len(objects)
            /\ objects' = [objects EXCEPT ![HandleObject(t)] = size[t]] /\ name' = name
            /\ stale' = IF fileSize[t] = objects[HandleObject(t)] THEN stale
                        ELSE stale \cup {HandleObject(t)}
<1>1. CASE SharedOpen(t)
  BY <1>1, Zenon DEF SharedOpen
<1>2. CASE SharedSize(t) \/ SharedMap(t)
  BY <1>2, Zenon DEF SharedSize, SharedMap
<1>3. CASE SharedResize(t)
  <2>1. HandleObject(t) # 0 => HandleObject(t) \in 1 .. Len(objects)
    BY Zenon, <1>3, ObjectOfHandle DEF SharedResize
  <2>2. QED
    BY <1>3, <2>1, Zenon DEF SharedResize
<1>4. CASE Calm(t)
  BY <1>4, Zenon DEF Calm
<1>5. QED
  BY <1>1, <1>2, <1>3, <1>4, Zenon DEF Sorted, Objecting

LEMMA ObjectStep ==
  ASSUME ObjectTyped, TableTyped, size \in [Threads -> Nat], to \in [Threads -> Int],
         NEW t \in Threads, Sorted(t), TableStep(t),
         pc[t] \in {"fstat", "ftruncate", "mmap"} => Last(t) \in Fds,
         pc[t] = "redirect_open" => to[t] \in {-1, 0, held[t]}
  PROVE  ObjectTyped'
<1>1. objects' \in Seq(Nat) /\ name' \in 0 .. Len(objects)' /\ Len(objects) <= Len(objects)'
  <2>0. objects \in Seq(Nat) /\ Len(objects) \in Nat /\ name \in 0 .. Len(objects) /\ size[t] \in Nat
    BY DEF ObjectTyped
  <2>1. CASE objects' = objects /\ name' \in {name, 0}
    BY <2>0, <2>1
  <2>2. CASE objects' = Append(objects, 0) /\ name' = Len(objects) + 1
    BY <2>0, <2>2
  <2>3. CASE /\ HandleObject(t) \in 1 .. Len(objects) /\ name' = name
             /\ objects' = [objects EXCEPT ![HandleObject(t)] = size[t]]
    BY <2>0, <2>3
  <2>4. QED
    BY <2>1, <2>2, <2>3, ObjectChange, Zenon DEF TableTyped
<1>2. ASSUME NEW d \in Fds
      PROVE  \/ fds'[d].id \in {0, fds[0].id, name'}
             \/ \E e \in Fds : fds'[d].id = fds[e].id
  <2>0. fds \in [Fds -> Files] /\ 0 \in Fds
    BY TableAssumption DEF TableTyped, Fds
  <2>1. ASSUME NEW f, NEW e, Opens(t, f, e)
        PROVE  fds'[d] \in {f, fds[d]}
    BY Zenon, <2>0, <2>1 DEF Opens
  <2>2. ASSUME NEW e, Closes(e)
        PROVE  fds'[d] \in {Closed, fds[d]}
    BY Zenon, <2>0, <2>2 DEF Closes
  <2>3. Closed.id = 0 /\ File("null").id = 0
    BY Zenon DEF Closed, File
  <2>4. CASE OpensHandle(t) \/ OpensHeld(t) \/ OpensLost(t)
    <3>1. PICK f \in Openable, e \in Fds : Opens(t, f, e)
      BY <2>0, <2>4, Zenon DEF OpensHandle, OpensHeld, OpensLost
    <3>2. f.id \in {0, fds[0].id, name'}
      BY Zenon DEF Openable
    <3>3. fds'[d] = f \/ fds'[d] = fds[d]
      BY Zenon, <2>1, <3>1
    <3>4. QED
      BY <3>2, <3>3, Zenon
  <2>5. CASE Reopens(t)
    <3>1. to[t] > 0 => to[t] \in Fds
      BY <2>5 DEF Reopens, TableTyped
    <3>2. \/ fds'[d] = fds[to[t]] /\ to[t] > 0
          \/ fds'[d] = File("null")
          \/ fds'[d] = fds[d]
      BY Zenon, <2>1, <2>5 DEF Reopens
    <3>3. QED
      BY Zenon, <2>3, <3>1, <3>2
  <2>6. CASE FailsOpen(t) \/ Moves(t) \/ Swaps(t) \/ Spares(t)
    BY <2>6, Zenon DEF FailsOpen, Moves, Swaps, Spares
  <2>7. CASE ClosesStandard(t) \/ ClosesHandle(t) \/ ClosesHeld(t)
    <3>1. fds'[d] = Closed \/ fds'[d] = fds[d]
      BY Zenon, <2>2, <2>7 DEF ClosesStandard, ClosesHandle, ClosesHeld
    <3>2. QED
      BY Zenon, <2>3, <3>1
  <2>8. QED
    BY <2>4, <2>5, <2>6, <2>7, Zenon DEF TableStep
<1>3. ASSUME NEW d \in Fds
      PROVE  fds'[d].id <= Len(objects)'
  <2>1. 0 \in Fds /\ \A e \in Fds : fds[e].id \in Nat
    BY TableAssumption DEF TableTyped, Fds, Files
  <2>2. Len(objects) \in Nat /\ Len(objects)' \in Nat
    BY <1>1 DEF ObjectTyped
  <2>3. name' \in Nat /\ name' <= Len(objects)'
    BY <1>1, <2>2
  <2>4. \A e \in Fds : fds[e].id <= Len(objects)
    BY Zenon DEF ObjectTyped
  <2>5. \/ fds'[d].id \in {0, fds[0].id, name'}
        \/ \E e \in Fds : fds'[d].id = fds[e].id
    BY <1>2, Zenon
  <2>6. Len(objects) <= Len(objects)'
    BY <1>1, Zenon
  <2>7. \A e \in Fds : fds[e].id <= Len(objects)'
    BY <2>1, <2>2, <2>4, <2>6
  <2>8. 0 <= Len(objects)'
    BY <2>2
  <2>9. QED
    BY <2>1, <2>3, <2>5, <2>7, <2>8, Zenon
<1>4. QED
  BY <1>1, <1>3, Zenon DEF ObjectTyped

LEMMA BackedStays ==
  ASSUME ObjectTyped, fds \in [Fds -> Files], size \in [Threads -> Nat], fileSize \in [Threads -> Nat],
         NEW t \in Threads, Sorted(t), BackInv,
         pc[t] \in {"fstat", "ftruncate", "mmap"} => Last(t) \in Fds,
         NEW o, NEW n \in Nat, Backed(o, n)
  PROVE  Backed(o, n)'
<1>0. objects \in Seq(Nat) /\ DOMAIN objects = 1 .. Len(objects) /\ Len(objects) \in Nat
  BY DEF ObjectTyped
<1>1. o \in DOMAIN objects /\ (n <= objects[o] \/ o \in stale)
  BY Zenon DEF Backed
<1>2. CASE objects' = objects /\ stale' = stale
  BY <1>1, <1>2, Zenon DEF Backed
<1>3. CASE objects' = Append(objects, 0) /\ stale' = stale
  <2>1. o \in DOMAIN objects' /\ objects'[o] = objects[o]
    BY <1>0, <1>1, <1>3
  <2>2. QED
    BY Zenon, <1>1, <1>3, <2>1 DEF Backed
<1>4. CASE /\ pc[t] = "ftruncate" /\ HandleObject(t) \in 1 .. Len(objects)
           /\ objects' = [objects EXCEPT ![HandleObject(t)] = size[t]]
           /\ stale' = IF fileSize[t] = objects[HandleObject(t)] THEN stale
                       ELSE stale \cup {HandleObject(t)}
  <2>1. size[t] > fileSize[t] /\ size[t] \in Nat /\ fileSize[t] \in Nat
    BY Zenon, <1>4 DEF BackInv, BackOf
  <2>2. DOMAIN objects' = DOMAIN objects
    BY Zenon, <1>0, <1>4
  <2>3. CASE o # HandleObject(t)
    BY Zenon, <1>0, <1>1, <1>4, <2>2, <2>3 DEF Backed
  <2>4. CASE o = HandleObject(t)
    <3>1. objects'[o] = size[t] /\ objects[o] \in Nat
      BY <1>0, <1>1, <1>4, <2>4
    <3>2. CASE fileSize[t] = objects[o]
      BY <1>1, <1>4, <2>1, <2>2, <2>4, <3>1, <3>2 DEF Backed
    <3>3. CASE fileSize[t] # objects[o]
      BY Zenon, <1>1, <1>4, <2>2, <2>4, <3>3 DEF Backed
    <3>4. QED
      BY Zenon, <3>2, <3>3
  <2>5. QED
    BY Zenon, <2>3, <2>4
<1>5. QED
  BY <1>2, <1>3, <1>4, ObjectChange, Zenon

LEMMA OnlyElement ==
  ASSUME NEW S, NEW h \in Seq(S), Len(h) = 1
  PROVE  1 \in DOMAIN h /\ h[1] \in S
<1>1. DOMAIN h = 1 .. 1 /\ h[1] \in S
  OBVIOUS
<1>2. QED
  BY <1>1

LEMMA LastHeld ==
  ASSUME TableTyped, NEW t \in Threads, Opened(t) = 1
  PROVE  Last(t) \in Fds /\ Has(t, Last(t))
<1>1. handle[t] \in Seq(Fds) /\ Len(handle[t]) = 1
  BY Zenon DEF TableTyped, Opened
<1>2. 1 \in DOMAIN handle[t] /\ handle[t][1] \in Fds
  BY Zenon, <1>1, OnlyElement
<1>3. QED
  BY Zenon, <1>1, <1>2 DEF Has, Holds, Last

LEMMA BackOther ==
  ASSUME FrameTyped, TableTyped, BackInv, NEW t \in Threads, OthersFrame(t), OthersTable(t), Stays(t),
         NEW u \in Threads \ {t}, pc[u] = "mmap" => Opened(u) = 1,
         \A o : \A n \in Nat : Backed(o, n) => Backed(o, n)'
  PROVE  BackOf(u)'
<1>1. /\ pc'[u] = pc[u] /\ mapped'[u] = mapped[u] /\ size'[u] = size[u] /\ fileSize'[u] = fileSize[u]
      /\ handle'[u] = handle[u]
  BY Zenon DEF OthersFrame, OthersTable
<1>2. pc[u] = "mmap" => HandleObject(u)' = HandleObject(u)
  <2>1. Last(u)' = Last(u)
    BY <1>1, Zenon DEF Last
  <2>2. pc[u] = "mmap" => Last(u) \in Fds /\ Has(u, Last(u))
    BY Zenon, LastHeld
  <2>3. pc[u] = "mmap" => fds'[Last(u)] = fds[Last(u)]
    BY <2>2, Zenon DEF Stays
  <2>4. QED
    BY <2>1, <2>3, Zenon DEF HandleObject
<1>3. \A m \in mapped[u] : m.pages \in Nat
  BY DEF FrameTyped, Mappings
<1>4. size[u] \in Nat
  BY Zenon DEF FrameTyped
<1>5. \A m \in mapped[u] : m.object # 0 => Backed(m.object, m.pages)'
  BY <1>3, Zenon DEF BackInv, BackOf
<1>6. ASSUME pc[u] = "mmap", HandleObject(u) # 0
      PROVE  Backed(HandleObject(u), size[u])'
  <2>1. PICK o, n : o = HandleObject(u) /\ n = size[u]
    BY Zenon
  <2>2. Backed(o, n)'
    BY <1>4, <1>6, <2>1, Zenon DEF BackInv, BackOf
  <2>3. HandleObject(u)' = o /\ size'[u] = n
    BY <1>1, <1>2, <1>6, <2>1, Zenon
  <2>4. QED
    BY <2>2, <2>3, Zenon DEF Backed
<1>7. QED
  BY Zenon, <1>1, <1>2, <1>5, <1>6 DEF BackOf, BackInv

LEMMA BackSelf ==
  ASSUME FrameTyped, TableTyped, ObjectTyped, BackInv, NEW t \in Threads, Sorted(t),
         pc[t] \in {"fstat", "ftruncate", "mmap"} => Last(t) \in Fds,
         \A o : \A n \in Nat : Backed(o, n) => Backed(o, n)'
  PROVE  BackOf(t)'
<1>1. \A m \in mapped[t] : m.pages \in Nat /\ (m.object # 0 => Backed(m.object, m.pages)')
  <2>1. \A m \in mapped[t] : m.pages \in Nat
    BY DEF FrameTyped, Mappings
  <2>2. QED
    BY <2>1, Zenon DEF BackInv, BackOf
<1>2. CASE Calm(t)
  <2>1. \A n : Mapping(0, n).object = 0
    BY Zenon DEF Mapping
  <2>2. \A m \in mapped'[t] : m.object # 0 => m \in mapped[t]
    BY Zenon, <1>2, <2>1 DEF Calm
  <2>3. pc'[t] # "ftruncate" /\ pc'[t] # "mmap"
    BY Zenon, <1>2 DEF Calm
  <2>4. QED
    BY <1>1, <2>2, <2>3, Zenon DEF BackOf
<1>3. CASE SharedOpen(t)
  <2>1. mapped' = mapped /\ \E l \in {"fstat", "idle"} : pc' = [pc EXCEPT ![t] = l]
    BY <1>3, Zenon DEF SharedOpen, Goto
  <2>2. pc'[t] # "ftruncate" /\ pc'[t] # "mmap"
    BY Zenon, <2>1 DEF FrameTyped
  <2>3. QED
    BY <1>1, <2>1, <2>2, Zenon DEF BackOf
<1>4. CASE SharedSize(t)
  <2>1. PICK n \in {0} \cup {objects[o] : o \in {HandleObject(t)} \cap DOMAIN objects} :
          /\ fileSize' = [fileSize EXCEPT ![t] = n]
          /\ size' = [size EXCEPT ![t] = IF @ # 0 THEN @ ELSE IF n > 0 THEN n ELSE 1]
          /\ Goto(t, "fstat", IF size'[t] > n THEN "ftruncate" ELSE "mmap")
    BY <1>4, Zenon DEF SharedSize
  <2>2. UNCHANGED <<fds, handle, mapped, objects, stale>>
    BY <1>4, Zenon DEF SharedSize, table
  <2>3. n \in Nat /\ (n = 0 \/ (HandleObject(t) \in DOMAIN objects /\ n = objects[HandleObject(t)]))
    BY <2>1 DEF ObjectTyped
  <2>4. /\ size'[t] \in Nat /\ size'[t] # 0 /\ fileSize'[t] = n
        /\ pc'[t] = IF size'[t] > n THEN "ftruncate" ELSE "mmap"
    BY <2>1, <2>3 DEF FrameTyped, Goto
  <2>5. HandleObject(t)' = HandleObject(t)
    BY <2>2, Zenon DEF HandleObject, Last
  <2>6. pc'[t] = "mmap" => size'[t] <= n /\ n # 0
    BY <2>3, <2>4
  <2>7. pc'[t] = "mmap" => Backed(HandleObject(t), size[t])'
    BY <2>2, <2>3, <2>5, <2>6, Zenon DEF Backed
  <2>8. pc'[t] = "ftruncate" => size'[t] > fileSize'[t]
    BY Zenon, <2>4
  <2>9. QED
    BY <1>1, <2>2, <2>7, <2>8, Zenon DEF BackOf
<1>5. CASE SharedResize(t)
  <2>1. UNCHANGED <<fds, handle, mapped, size>>
    BY <1>5, Zenon DEF SharedResize, table
  <2>2. pc'[t] # "ftruncate"
    <3>1. \E l \in {"mmap", "e3"} : pc' = [pc EXCEPT ![t] = l]
      BY <1>5, Zenon DEF SharedResize, Goto
    <3>2. QED
      BY Zenon, <3>1 DEF FrameTyped
  <2>3. HandleObject(t)' = HandleObject(t)
    BY <2>1, Zenon DEF HandleObject, Last
  <2>4. ASSUME pc'[t] = "mmap"
        PROVE  Backed(HandleObject(t), size[t])'
    <3>1. HandleObject(t) # 0 /\ objects' = [objects EXCEPT ![HandleObject(t)] = size[t]]
      BY Zenon, <1>5, <2>4 DEF SharedResize, Goto, FrameTyped
    <3>2. HandleObject(t) \in 1 .. Len(objects)
      BY Zenon, <1>5, <3>1, ObjectOfHandle DEF SharedResize, TableTyped
    <3>3. /\ HandleObject(t) \in DOMAIN objects' /\ objects'[HandleObject(t)] = size[t]
          /\ size[t] <= size[t]
      BY <3>1, <3>2 DEF ObjectTyped, FrameTyped
    <3>4. QED
      BY <2>1, <2>3, <3>3, Zenon DEF Backed
  <2>5. QED
    BY <1>1, <2>1, <2>2, <2>4, Zenon DEF BackOf
<1>6. CASE SharedMap(t)
  <2>1. pc'[t] # "ftruncate" /\ pc'[t] # "mmap" /\ UNCHANGED <<objects, stale>>
    BY Zenon, <1>6 DEF SharedMap, Goto, FrameTyped
  <2>2. CASE mapped' = mapped
    BY <1>1, <2>1, <2>2, Zenon DEF BackOf
  <2>3. CASE /\ HandleObject(t) # 0
             /\ mapped' = [mapped EXCEPT ![t] = {Mapping(HandleObject(t), size[t])}]
    <3>1. PICK o, n : o = HandleObject(t) /\ n = size[t]
      BY Zenon
    <3>2. mapped'[t] = {Mapping(o, n)} /\ Mapping(o, n).object = o /\ Mapping(o, n).pages = n
      BY Zenon, <2>3, <3>1 DEF FrameTyped, Mapping
    <3>3. Backed(o, n)
      BY <1>6, <2>3, <3>1, Zenon DEF BackInv, BackOf, SharedMap
    <3>4. Backed(o, n)'
      BY <2>1, <3>3, Zenon DEF Backed
    <3>5. \A m \in mapped'[t] : m.object = o /\ m.pages = n
      BY Zenon, <3>2
    <3>6. QED
      BY <2>1, <3>4, <3>5, Zenon DEF BackOf, Backed
  <2>4. QED
    BY <1>6, <2>2, <2>3, Zenon DEF SharedMap
<1>7. QED
  BY <1>2, <1>3, <1>4, <1>5, <1>6, Zenon DEF Sorted, Objecting

-----------------------------------------------------------------------------
(* The only redirect leaves the standard descriptors it has passed alone,  *)
(* and nobody else opens or closes them.                                   *)
LEMMA PassedOther ==
  ASSUME TableTyped, NEW t \in Threads, OthersFrame(t), OthersTable(t), Stays(t), Elsewhere(t),
         NEW u \in Threads \ {t}, PassedOf(u), RedirectInv(u)
  PROVE  PassedOf(u)'
<1>1. /\ pc'[u] = pc[u] /\ at'[u] = at[u] /\ to'[u] = to[u] /\ asked'[u] = asked[u]
  BY Zenon DEF OthersFrame
<1>2. \A d \in Standard : fds'[d] = fds[d]
  BY Zenon DEF Stays
<1>3. ASSUME pc[u] \in RedirectPcs, to[u] # -1
      PROVE  fds'[to[u]] = fds[to[u]]
  <2>1. to[u] \in Standard \/ (to[u] \in Fds /\ Has(u, to[u]))
    <3>1. to[u] = 0 \/ (to[u] = held[u] /\ held[u] \in Fds)
      BY Zenon, <1>3 DEF RedirectInv, TableTyped
    <3>2. 0 \in Standard
      BY DEF Standard
    <3>3. QED
      BY <3>1, <3>2, Zenon DEF Has, Holds
  <2>2. QED
    BY <1>2, <2>1, Zenon DEF Stays
<1>4. QED
  BY Zenon, <1>1, <1>2, <1>3 DEF PassedOf, Redirected

LEMMA PassedSelf ==
  ASSUME FrameTyped, TableTyped, NEW t \in Threads, Sorted(t), OwnEffect(t), PassedOf(t),
         RedirectInv(t), OwnInv
  PROVE  PassedOf(t)'
<1>0. Standard \subseteq Fds /\ \A d \in Standard : d \in 0 .. 2
  BY TableAssumption DEF Standard, Fds
<1>1. CASE pc'[t] \notin RedirectPcs
  BY <1>1, Zenon DEF PassedOf
<1>2. CASE RedirectBegin(t)
  <2>1. PICK fd \in {-1, 0, held[t]} :
          /\ to' = [to EXCEPT ![t] = fd]
          /\ asked' = [asked EXCEPT ![t] = IF fd = -1 THEN File("null") ELSE fds[fd]]
    BY <1>2, Zenon DEF RedirectBegin
  <2>2. /\ to'[t] = fd /\ at'[t] = 0 /\ fds' = fds
        /\ fd # -1 => asked'[t] = fds[fd]
    BY Zenon, <1>2, <2>1 DEF RedirectBegin, FrameTyped, TableTyped
  <2>3. \A d \in Standard : ~(d < at'[t])
    BY <1>0, <2>2
  <2>4. QED
    BY <2>2, <2>3, Zenon DEF PassedOf
<1>3. CASE RedirectClose(t)
  <2>0. pc[t] = "redirect" /\ to'[t] = to[t] /\ asked'[t] = asked[t]
    BY Zenon, <1>3 DEF RedirectClose, Goto, locals
  <2>1. /\ to[t] # -1 => fds[to[t]] = asked[t]
        /\ \A d \in Standard : d < at[t] => Redirected(t, d)
    BY Zenon, <2>0 DEF PassedOf, RedirectPcs
  <2>2. CASE /\ at[t] \in Standard /\ at[t] # to[t] /\ Closes(at[t]) /\ UNCHANGED locals
    <3>1. \A d : d # at[t] => (fds'[d] = fds[d] \/ d \notin Fds)
      BY Zenon, <2>2 DEF Closes, TableTyped
    <3>2. to[t] # -1 => to[t] \in Fds
      BY <1>0, <2>0 DEF RedirectInv, RedirectPcs, TableTyped, Standard
    <3>3. at'[t] = at[t] /\ \A d \in Standard : d < at[t] => d # at[t]
      BY <1>0, <2>2 DEF locals, Standard
    <3>4. QED
      BY <1>0, <2>0, <2>1, <2>2, <3>1, <3>2, <3>3, Zenon DEF PassedOf, Redirected
  <2>3. CASE at[t] \in Standard /\ at[t] = to[t] /\ at' = [at EXCEPT ![t] = @ + 1] /\ UNCHANGED fds
    <3>1. at'[t] = at[t] + 1 /\ at[t] # -1
      BY <1>0, <2>3 DEF FrameTyped
    <3>2. \A d \in Standard : d < at'[t] => d < at[t] \/ d = at[t]
      BY <1>0, <2>3, <3>1
    <3>3. Redirected(t, at[t])
      BY <2>1, <2>3, <3>1, Zenon DEF Redirected
    <3>4. QED
      BY <2>0, <2>1, <2>3, <3>2, <3>3, Zenon DEF PassedOf, Redirected
  <2>4. CASE UNCHANGED <<fds, locals>>
    BY <2>0, <2>1, <2>4, Zenon DEF PassedOf, Redirected, locals
  <2>5. QED
    BY <1>3, <2>2, <2>3, <2>4, Zenon DEF RedirectClose
<1>4. CASE RedirectOpen(t)
  <2>0. /\ pc[t] = "redirect_open" /\ to'[t] = to[t] /\ asked'[t] = asked[t] /\ at'[t] = at[t] + 1
        /\ pc[t] # "redirect"
    BY Zenon, <1>4 DEF RedirectOpen, Goto, FrameTyped
  <2>1. /\ to[t] # -1 => fds[to[t]] = asked[t]
        /\ \A d \in Standard : d < at[t] => Redirected(t, d)
    BY Zenon, <2>0 DEF PassedOf, RedirectPcs
  <2>2. /\ fds'[at[t]] = IF to[t] > 0 THEN fds[to[t]] ELSE File("null")
        /\ \A e \in Fds \ {at[t]} : fds'[e] = fds[e]
    <3>1. Restores(t)
      BY Zenon, <2>0 DEF OwnEffect, Shuts, Elsewhere
    <3>2. QED
      BY Zenon, <3>1 DEF Restores
  <2>3. at[t] \in Standard /\ at[t] # to[t] /\ (to[t] # -1 => to[t] \in Fds)
    <3>1. to[t] \in {-1, 0, held[t]} /\ held[t] \in Fds \cup {-1} /\ at[t] \in Standard /\ at[t] # to[t]
      BY Zenon, <1>0, <2>0 DEF RedirectInv, RedirectPcs, TableTyped
    <3>2. QED
      BY <1>0, <3>1 DEF Standard
  <2>4. fds'[at[t]] = IF to[t] > 0 \/ at[t] = to[t] THEN asked[t] ELSE File("null")
    <3>1. ASSUME to[t] = -1 PROVE ~(to[t] > 0)
      BY <3>1
    <3>2. QED
      BY Zenon, <2>1, <2>2, <2>3, <3>1
  <2>5. \A d \in Standard : d < at'[t] => d = at[t] \/ (d < at[t] /\ d # at[t])
    <3>1. at[t] \in Standard /\ at'[t] = at[t] + 1
      BY Zenon, <2>0, <2>3
    <3>2. QED
      BY <3>1 DEF Standard
  <2>6. to[t] # -1 => fds'[to[t]] = asked[t]
    BY <2>1, <2>2, <2>3, Zenon
  <2>7. \A d \in Standard : d < at'[t] => Redirected(t, d)'
    <3>1. SUFFICES ASSUME NEW d \in Standard, d < at'[t]
                   PROVE  fds'[d] = IF to[t] > 0 \/ d = to[t] THEN asked[t] ELSE File("null")
      BY <2>0, Zenon DEF Redirected
    <3>2. CASE d = at[t]
      BY <2>4, <3>2, Zenon
    <3>3. CASE d < at[t] /\ d # at[t]
      BY <1>0, <2>1, <2>2, <3>3, Zenon DEF Redirected
    <3>4. QED
      BY <2>5, <3>1, <3>2, <3>3, Zenon
  <2>8. QED
    BY <2>0, <2>6, <2>7, Zenon DEF PassedOf
<1>5. QED
  BY <1>1, <1>2, <1>3, <1>4, Zenon DEF Sorted, Redirecting

-----------------------------------------------------------------------------
(* Stubs.                                                                  *)
LEMMA StubInvStep ==
  ASSUME StubInv, NEW t \in Threads, StubStep(t), pc' \in [Threads -> Labels]
  PROVE  StubInv'
<1> USE DEF StubInv, Goto, StubPcs
<1>1. CASE StubCall(t)
  BY <1>1 DEF StubCall
<1>2. CASE StubJump(t)
  BY <1>2 DEF StubJump
<1>3. CASE KernelResolve(t)
  BY <1>3 DEF KernelResolve, StubFail, Excuse, Spaces, None
<1>4. CASE ResolveModule(t)
  BY Zenon, <1>4 DEF ResolveModule
<1>5. CASE ResolveLibkernel(t) \/ ResolveLoader(t)
  BY <1>5 DEF ResolveLibkernel, ResolveLoader, StubFail, Excuse
<1>6. CASE ResolveLoad(t)
  BY <1>6 DEF ResolveLoad, Excuse
<1>7. CASE ResolveLoaded(t)
  BY <1>7 DEF ResolveLoaded, StubFail, Handles
<1>8. CASE ResolveSymbol(t)
  BY <1>8 DEF ResolveSymbol, StubFail, Excuse, Handles, Spaces, None
<1>9. CASE StubReturn(t)
  BY Zenon, <1>9 DEF StubReturn
<1>10. QED
  BY <1>1, <1>2, <1>3, <1>4, <1>5, <1>6, <1>7, <1>8, <1>9, Zenon DEF StubStep, Stub

LEMMA StubInvKept ==
  ASSUME StubInv, NEW t \in Threads, UNCHANGED stub, pc' \in [Threads -> Labels],
         pc'[t] \notin StubPcs, OthersFrame(t)
  PROVE  StubInv'
<1>1. /\ moduleHandle' = moduleHandle /\ address' = address /\ space' = space /\ seen' = seen
      /\ target' = target /\ excused' = excused
  BY Zenon DEF stub
<1>2. \A u \in Threads \ {t} : pc'[u] = pc[u]
  BY Zenon DEF OthersFrame
<1>3. QED
  BY Zenon, <1>1, <1>2 DEF StubInv, StubPcs

-----------------------------------------------------------------------------
(* Every step keeps the invariant.                                         *)
LEMMA RacedStays ==
  ASSUME NEW t \in Threads, TableStep(t), ~raced'
  PROVE  ~raced
<1>1. ASSUME NEW f, NEW d, Opens(t, f, d)
      PROVE  ~raced
  BY <1>1, Zenon DEF Opens
<1>2. ASSUME NEW d, Closes(d)
      PROVE  ~raced
  BY <1>2, Zenon DEF Closes
<1>3. QED
  BY <1>1, <1>2, Zenon DEF TableStep, OpensHandle, OpensHeld, OpensLost, Reopens, FailsOpen,
     ClosesStandard, ClosesHandle, ClosesHeld, Moves, Swaps, Spares

LEMMA LocalKept ==
  ASSUME NEW u \in Threads, LocalInv(u),
         pc'[u] = pc[u], at'[u] = at[u], to'[u] = to[u], bytes'[u] = bytes[u],
         heap'[u] = heap[u], mapped'[u] = mapped[u], handle'[u] = handle[u], held'[u] = held[u]
  PROVE  LocalInv(u)'
<1>1. Opened(u)' = Opened(u) /\ Kept(u)' = Kept(u) /\ (IsShared(u)' <=> IsShared(u))
  BY Zenon, KeptKept DEF Opened
<1>2. HandleInv(u)'
  BY Zenon, <1>1 DEF LocalInv, HandleInv
<1>3. HeapInv(u)'
  BY Zenon, <1>1 DEF LocalInv, HeapInv
<1>4. ReadInv(u)'
  BY Zenon DEF LocalInv, ReadInv
<1>5. RedirectInv(u)'
  BY Zenon DEF LocalInv, RedirectInv
<1>6. QED
  BY Zenon, <1>2, <1>3, <1>4, <1>5 DEF LocalInv

LEMMA LocalOthers ==
  ASSUME NEW t \in Threads, OthersFrame(t), OthersTable(t), NEW u \in Threads \ {t}, LocalInv(u)
  PROVE  LocalInv(u)'
BY Zenon, LocalKept DEF OthersFrame, OthersTable

LEMMA ProcessMoves ==
  ASSUME Typed, \A u \in Threads : LocalInv(u), NEW t \in Threads, ProcessStep(t)
  PROVE  /\ Typed' /\ OthersFrame(t) /\ OthersTable(t) /\ TableStep(t) /\ Sorted(t)
         /\ \A u \in Threads : LocalInv(u)'
<1>0. /\ FrameTyped /\ TableTyped /\ ObjectTyped /\ fds \in [Fds -> Files]
      /\ held \in [Threads -> Fds \cup {-1}] /\ handle \in [Threads -> Seq(Fds)]
      /\ pc \in [Threads -> Labels] /\ mapped \in [Threads -> SUBSET Mappings]
      /\ size \in [Threads -> Nat] /\ to \in [Threads -> Int]
  BY Zenon DEF Typed, TableTyped, FrameTyped
<1>1. pc[t] \in {"fstat", "ftruncate", "mmap"} => Last(t) \in Fds
  <2>1. pc[t] \in {"fstat", "ftruncate", "mmap"} => Opened(t) = 1
    BY Zenon DEF LocalInv, HandleInv, Handles1
  <2>2. QED
    BY <1>0, <2>1, LastHeld, Zenon
<1>2. /\ \A o \in DOMAIN objects : objects[o] \in Nat
      /\ name \in Nat /\ Len(objects) + 1 \in Nat
  BY <1>0 DEF ObjectTyped
<1>3. Counted(t) /\ LocalInv(t)
  BY <1>0, HandlesCounted, Zenon
<1>4. FrameTyped' /\ OthersFrame(t)
  BY <1>0, <1>1, <1>2, DescriptorFrame, MemoryFrame, BeginFrame, Zenon DEF ProcessStep
<1>5. TableStep(t)
  BY <1>0, <1>2, <1>3, DescriptorTable, MemoryTable, BeginTable, Zenon DEF ProcessStep
<1>6. Sorted(t)
  BY <1>0, DescriptorSorted, MemorySorted, BeginSorted, Zenon DEF ProcessStep
<1>7. LocalInv(t)'
  BY <1>0, <1>1, <1>3, LocalDescriptors, LocalMemory, LocalBegin, Zenon DEF ProcessStep
<1>8. pc[t] = "redirect_open" => to[t] \in {-1, 0, held[t]}
  BY Zenon, <1>3 DEF LocalInv, RedirectInv, RedirectPcs
<1>9. TableTyped' /\ OthersTable(t)
  BY <1>0, <1>5, <1>8, TableTypedStep, Zenon
<1>10. ObjectTyped'
  BY <1>0, <1>1, <1>5, <1>6, <1>8, ObjectStep, Zenon
<1>11. \A u \in Threads \ {t} : LocalInv(u)'
  BY <1>4, <1>9, LocalOthers, Zenon
<1>12. QED
  BY <1>4, <1>5, <1>6, <1>7, <1>9, <1>10, <1>11, Zenon DEF Typed

LEMMA ProcessKeeps ==
  ASSUME Inv, NEW t \in Threads, ProcessStep(t), UNCHANGED stub
  PROVE  Inv'
<1>1. Typed /\ StubInv /\ \A u \in Threads : LocalInv(u)
  BY Zenon DEF Inv
<1>2. /\ Typed' /\ OthersFrame(t) /\ OthersTable(t) /\ TableStep(t) /\ Sorted(t)
      /\ \A u \in Threads : LocalInv(u)'
  BY <1>1, ProcessMoves, Zenon
<1>3. /\ FrameTyped /\ TableTyped /\ ObjectTyped /\ fds \in [Fds -> Files]
      /\ size \in [Threads -> Nat] /\ fileSize \in [Threads -> Nat] /\ to \in [Threads -> Int]
      /\ pc' \in [Threads -> Labels]
  BY <1>1, <1>2, Zenon DEF Typed, FrameTyped, TableTyped
<1>4. StubInv'
  BY <1>1, <1>2, <1>3, StubInvKept, Zenon DEF Sorted
<1>5. \A u \in Threads : pc[u] \in {"fstat", "ftruncate", "mmap"} => Opened(u) = 1 /\ Last(u) \in Fds
  <2>1. \A u \in Threads : pc[u] \in {"fstat", "ftruncate", "mmap"} => Opened(u) = 1
    BY Zenon, <1>1 DEF LocalInv, HandleInv, Handles1
  <2>2. QED
    BY <1>3, <2>1, LastHeld, Zenon
<1>6. ASSUME ~raced'
      PROVE  OwnInv' /\ BackInv' /\ Stays(t) /\ OwnEffect(t) /\ OwnInv /\ ~raced
  <2>1. ~raced /\ OwnInv /\ BackInv
    BY <1>2, <1>6, RacedStays, Zenon DEF Inv
  <2>2. OwnEffect(t)
    BY <1>1, <1>2, <1>3, <1>6, <2>1, OwnEffects, Zenon DEF LocalInv
  <2>3. \A u \in Threads : pc[u] = "redirect_open" => at[u] \in Standard
    BY Zenon, <1>1 DEF LocalInv, RedirectInv, RedirectPcs
  <2>4. OwnInv' /\ Stays(t)
    BY <1>2, <2>1, <2>2, <2>3, OwnStep, Zenon
  <2>5. \A o : \A n \in Nat : Backed(o, n) => Backed(o, n)'
    BY <1>2, <1>3, <1>5, <2>1, BackedStays, Zenon
  <2>6. BackOf(t)'
    BY <1>2, <1>3, <1>5, <2>1, <2>5, BackSelf, Zenon
  <2>7. \A u \in Threads \ {t} : BackOf(u)'
    <3>1. \A u \in Threads : pc[u] = "mmap" => Opened(u) = 1
      BY Zenon, <1>5
    <3>2. QED
      BY <1>2, <1>3, <2>1, <2>4, <2>5, <3>1, BackOther, Zenon
  <2>8. QED
    BY <2>1, <2>2, <2>4, <2>6, <2>7, Zenon DEF BackInv
<1>7. ASSUME ~raced', OneRedirects
      PROVE  PassedInv'
  <2>1. OwnInv /\ PassedInv /\ Stays(t) /\ OwnEffect(t)
    BY <1>6, <1>7, Zenon DEF Inv
  <2>2. PassedOf(t)'
    BY <1>1, <1>2, <1>3, <2>1, PassedSelf, Zenon DEF PassedInv, LocalInv
  <2>3. ASSUME NEW u \in Threads \ {t}
        PROVE  PassedOf(u)'
    <3>1. CASE Elsewhere(t)
      BY <1>1, <1>2, <1>3, <2>1, <3>1, PassedOther, Zenon DEF PassedInv, LocalInv
    <3>2. CASE ~Elsewhere(t)
      <4>1. "redirect" \in Work[t]
        <5>1. RedirectInv(t) /\ RedirectInv(t)'
          BY <1>1, <1>2, Zenon DEF LocalInv
        <5>2. QED
          BY Zenon, <3>2, <5>1 DEF RedirectInv, RedirectPcs, Elsewhere
      <4>2. "redirect" \notin Work[u]
        BY Zenon, <1>7, <4>1 DEF OneRedirects
      <4>3. pc[u] \notin RedirectPcs
        BY <1>1, <4>2, Zenon DEF LocalInv, RedirectInv
      <4>4. pc'[u] = pc[u]
        BY <1>2, Zenon DEF OthersFrame
      <4>5. QED
        BY <4>3, <4>4, Zenon DEF PassedOf
    <3>3. QED
      BY Zenon, <3>1, <3>2
  <2>4. QED
    BY <2>2, <2>3, Zenon DEF PassedInv
<1>8. QED
  BY <1>2, <1>4, <1>6, <1>7, Zenon DEF Inv, OneRedirects

LEMMA StubKeeps ==
  ASSUME Inv, NEW t \in Threads, StubStep(t), UNCHANGED process
  PROVE  Inv'
<1>1. Typed /\ StubInv /\ \A u \in Threads : LocalInv(u)
  BY Zenon DEF Inv
<1>2. FrameTyped /\ TableTyped /\ ObjectTyped
  BY <1>1, Zenon DEF Typed
<1>3. /\ FrameTyped' /\ OthersFrame(t)
      /\ pc[t] \in StubPcs \cup {"idle"} /\ pc'[t] \in StubPcs \cup {"idle"}
  BY <1>2, StubFrame, Zenon
<1>4. /\ UNCHANGED <<fds, at, to, handle, held, heap, bytes, asked, raced>>
      /\ UNCHANGED <<objects, name, size, fileSize, mapped, stale>>
  BY Zenon DEF process, memory
<1>5. TableTyped' /\ ObjectTyped' /\ OthersTable(t)
  BY <1>2, <1>4, Zenon DEF TableTyped, ObjectTyped, OthersTable
<1>6. StubInv'
  BY <1>1, <1>3, StubInvStep, Zenon DEF FrameTyped
<1>7. LocalInv(t)'
  <2>1. Opened(t)' = Opened(t)
    BY <1>4, Zenon DEF Opened
  <2>2. Kept(t)' = Kept(t) /\ (IsShared(t)' <=> IsShared(t))
    BY Zenon, <1>4, KeptKept
  <2>3. LocalInv(t)
    BY <1>1, Zenon
  <2>4. QED
    BY Zenon, <1>3, <1>4, <2>1, <2>2, <2>3 DEF LocalInv, HandleInv, HeapInv, ReadInv, RedirectInv, Handles1,
       Handles2, Working, ReadPcs, SharedPcs, ProtectedPcs, ServerPcs, RedirectPcs, StubPcs
<1>8. \A u \in Threads : LocalInv(u)'
  BY <1>1, <1>3, <1>5, <1>7, LocalOthers, Zenon
<1>9. /\ pc[t] # "redirect_open" /\ pc'[t] # "redirect_open" /\ pc'[t] # "ftruncate"
      /\ pc'[t] # "mmap" /\ pc'[t] \notin RedirectPcs
  BY Zenon, <1>3 DEF StubPcs, RedirectPcs
<1>10. ASSUME ~raced'
       PROVE  OwnInv' /\ BackInv' /\ Stays(t)
  <2>1. OwnInv /\ BackInv
    BY <1>4, <1>10, Zenon DEF Inv
  <2>2. OwnEffect(t)
    BY <1>4, <1>9, <2>1, Zenon DEF OwnEffect, Keeps, Elsewhere, OwnInv, Has
  <2>3. \A u \in Threads : pc[u] = "redirect_open" => at[u] \in Standard
    BY Zenon, <1>1 DEF LocalInv, RedirectInv, RedirectPcs
  <2>4. OwnInv' /\ Stays(t)
    BY <1>3, <1>5, <2>1, <2>2, <2>3, OwnStep, Zenon
  <2>5. \A o : \A n \in Nat : Backed(o, n) => Backed(o, n)'
    BY <1>4, Zenon DEF Backed
  <2>6. BackOf(t)'
    <3>1. \A m \in mapped'[t] : m.object # 0 => Backed(m.object, m.pages)'
      BY <1>4, <2>1, Zenon DEF BackInv, BackOf, Backed
    <3>2. QED
      BY <1>9, <3>1, Zenon DEF BackOf
  <2>7. \A u \in Threads \ {t} : BackOf(u)'
    <3>1. \A u \in Threads : pc[u] = "mmap" => Opened(u) = 1
      BY Zenon, <1>1 DEF LocalInv, HandleInv, Handles1
    <3>2. QED
      BY <1>2, <1>3, <1>5, <2>1, <2>4, <2>5, <3>1, BackOther, Zenon
  <2>8. QED
    BY <2>4, <2>6, <2>7, Zenon DEF BackInv
<1>11. ASSUME ~raced', OneRedirects
       PROVE  PassedInv'
  <2>1. PassedInv /\ Stays(t) /\ Elsewhere(t)
    BY <1>4, <1>9, <1>10, <1>11, Zenon DEF Inv, Elsewhere
  <2>2. PassedOf(t)'
    BY <1>9, Zenon DEF PassedOf
  <2>3. \A u \in Threads \ {t} : PassedOf(u)'
    BY <1>1, <1>2, <1>3, <1>5, <2>1, PassedOther, Zenon DEF PassedInv, LocalInv
  <2>4. QED
    BY <2>2, <2>3, Zenon DEF PassedInv
<1>12. QED
  BY <1>3, <1>5, <1>6, <1>8, <1>10, <1>11, Zenon DEF Inv, OneRedirects, Typed

LEMMA InvInit ==
  ASSUME Init
  PROVE  Inv
<1> USE DEF Init, DescriptorInit, MemoryInit
<1>1. FrameTyped
  <2>1. "idle" \in Labels
    BY Zenon, LabelNames
  <2>2. QED
    BY <2>1 DEF FrameTyped
<1>2. TableTyped
  <2>1. File("tty") \in Files /\ Closed \in Files
    BY Zenon, OpenFiles
  <2>2. fds \in [Fds -> Files]
    BY Zenon, <2>1 DEF Fds
  <2>3. QED
    BY <2>2 DEF TableTyped
<1>3. \A d \in Fds : fds[d].id = 0
  BY Zenon DEF File, Closed, Fds
<1>4. ObjectTyped
  <2>1. objects \in Seq(Nat) /\ Len(objects) = 0 /\ name = 0
    OBVIOUS
  <2>2. 0 \in 0 .. 0 /\ 0 <= 0
    OBVIOUS
  <2>3. QED
    BY <1>3, <2>1, <2>2, Zenon DEF ObjectTyped
<1>5. \A t \in Threads : LocalInv(t)
  <2>1. \A t \in Threads : Opened(t) = 0
    BY Zenon DEF Opened
  <2>2. \A t \in Threads : Kept(t) = 0
    BY Zenon DEF Kept
  <2>3. QED
    BY Zenon, <2>1, <2>2 DEF LocalInv, HandleInv, HeapInv, ReadInv, RedirectInv, Handles1, Handles2,
       Working, ReadPcs, SharedPcs, ProtectedPcs, ServerPcs, RedirectPcs
<1>6. StubInv
  BY Zenon, <1>1 DEF StubInv, StubInit, StubPcs, FrameTyped
<1>7. OwnInv
  <2>1. File("tty") # Closed
    BY Zenon, OpenFiles
  <2>2. \A t \in Threads : Distinct(handle[t], held[t]) /\ \A d \in Fds : ~Has(t, d)
    <3>1. DOMAIN <<>> = {} /\ -1 \notin Fds
      BY DEF Fds
    <3>2. QED
      BY Zenon, <3>1 DEF Distinct, Has, Holds
  <2>3. /\ \A d \in Standard : fds[d] # Closed
        /\ \A d \in Fds \ Standard : fds[d] = Closed
        /\ \A t \in Threads : pc[t] # "redirect_open"
    BY <2>1, TableAssumption DEF Fds, Standard
  <2>4. QED
    BY <2>2, <2>3, Zenon DEF OwnInv
<1>8. BackInv /\ PassedInv
  BY Zenon DEF BackInv, BackOf, PassedInv, PassedOf, RedirectPcs
<1>9. QED
  BY <1>1, <1>2, <1>4, <1>5, <1>6, <1>7, <1>8, Zenon DEF Inv, Typed

LEMMA InvStutter ==
  ASSUME Inv, UNCHANGED vars
  PROVE  Inv'
<1>1. /\ UNCHANGED <<fds, pc, at, to, handle, held, heap, bytes, asked, raced>>
      /\ UNCHANGED <<objects, name, size, fileSize, mapped, stale>>
      /\ UNCHANGED <<moduleHandle, address, space, seen, target, excused>>
  BY Zenon DEF vars, memory, stub
<1>2. Typed' /\ StubInv'
  BY <1>1, Zenon DEF Inv, Typed, FrameTyped, TableTyped, ObjectTyped, StubInv
<1>3. \A t \in Threads : LocalInv(t)'
  BY Zenon, <1>1, LocalKept DEF Inv
<1>4. ~raced' => OwnInv' /\ BackInv'
  <2>1. (\A t \in Threads : \A d : Has(t, d)' <=> Has(t, d)) /\ \A o, n : Backed(o, n)' <=> Backed(o, n)
    BY <1>1, Zenon DEF Has, Backed
  <2>2. \A t \in Threads : HandleObject(t)' = HandleObject(t)
    BY <1>1, Zenon DEF HandleObject, Last
  <2>3. OwnInv => OwnInv'
    BY Zenon, <1>1, <2>1 DEF OwnInv
  <2>4. BackInv => BackInv'
    BY <1>1, <2>2, Zenon DEF BackInv, BackOf, Backed
  <2>5. QED
    BY <1>1, <2>3, <2>4, Zenon DEF Inv
<1>5. ~raced' /\ OneRedirects => PassedInv'
  BY <1>1, Zenon DEF Inv, PassedInv, PassedOf, Redirected
<1>6. QED
  BY <1>2, <1>3, <1>4, <1>5, Zenon DEF Inv, OneRedirects

(* The functions keep the invariant whichever calls fail and however the   *)
(* threads of the process are interleaved.                                 *)
THEOREM Invariance == Spec => []Inv
<1>1. Init => Inv
  BY InvInit, Zenon
<1>2. Inv /\ [Next]_vars => Inv'
  BY NextCases, ProcessKeeps, StubKeeps, InvStutter, Zenon
<1>3. QED
  BY <1>1, <1>2, PTL DEF Spec

-----------------------------------------------------------------------------
(* Descriptors are open as long as one function or one caller has to close *)
(* them, unless one is opened between the close and the dup of             *)
(* ps4StandardIoRedirect.                                                  *)
THEOREM DescriptorsOwnedHolds == Spec => []DescriptorsOwned
<1>1. Inv => DescriptorsOwned
  <2>1. SUFFICES ASSUME Inv, ~raced, NEW d \in DOMAIN fds \ Standard
                 PROVE  IF fds[d] = Closed THEN Owners(d) = {} ELSE \E t \in Threads : Owners(d) = {t}
    BY Zenon DEF DescriptorsOwned
  <2>2. OwnInv /\ d \in Fds \ Standard
    BY <2>1 DEF Inv, Typed, TableTyped
  <2>3. Owners(d) = {t \in Threads : Has(t, d)}
    BY Zenon DEF Owners, Has, Holds
  <2>4. CASE fds[d] = Closed
    BY <2>2, <2>3, <2>4, Zenon DEF OwnInv
  <2>5. CASE fds[d] # Closed
    <3>1. PICK t \in Threads : Has(t, d)
      BY <2>2, <2>5, Zenon DEF OwnInv
    <3>2. \A u \in Threads : Has(u, d) <=> u = t
      BY <2>2, <3>1, Zenon DEF OwnInv
    <3>3. Owners(d) = {t}
      BY <2>3, <3>2, Zenon
    <3>4. QED
      BY <2>5, <3>3, Zenon
  <2>6. QED
    BY <2>4, <2>5, Zenon
<1>2. QED
  BY <1>1, Invariance, PTL

(* After ps4StandardIoRedirect the standard descriptors are what was asked *)
(* for, when no other thread redirects them or opened one meanwhile.       *)
THEOREM RedirectExactHolds == Spec => []RedirectExact
<1>1. Inv => RedirectExact
  <2>1. SUFFICES ASSUME Inv, NEW t \in Threads, pc[t] = "redirected", ~raced, OneRedirects,
                        NEW d \in Standard
                 PROVE  Redirected(t, d)
    BY Zenon DEF RedirectExact, Redirected
  <2>2. PassedInv /\ RedirectInv(t)
    BY <2>1, Zenon DEF Inv, LocalInv
  <2>3. d < at[t]
    BY <2>1, <2>2 DEF RedirectInv, RedirectPcs, Standard
  <2>4. pc[t] \in RedirectPcs
    BY Zenon, <2>1 DEF RedirectPcs
  <2>5. QED
    BY <2>2, <2>3, <2>4, Zenon DEF PassedInv, PassedOf
<1>2. QED
  BY <1>1, Invariance, PTL

(* A function that has returned keeps the memory of what it returned and   *)
(* nothing else.                                                           *)
THEOREM MemoryReturnedHolds == Spec => []MemoryReturned
<1>1. Inv => MemoryReturned
  <2>1. SUFFICES ASSUME Inv, NEW t \in Threads, pc[t] = "idle"
                 PROVE  heap[t] = Kept(t) /\ handle[t] = <<>>
    BY Zenon DEF MemoryReturned, Kept
  <2>2. LocalInv(t) /\ handle[t] \in Seq(Fds)
    BY <2>1, Zenon DEF Inv, Typed, TableTyped
  <2>3. heap[t] = Kept(t) /\ Opened(t) = 0
    BY Zenon, <2>1, <2>2 DEF LocalInv, HandleInv, HeapInv, Handles1, Handles2, Working, ReadPcs, SharedPcs,
       ProtectedPcs
  <2>4. handle[t] = <<>>
    BY <2>2, <2>3 DEF Opened
  <2>5. QED
    BY Zenon, <2>3, <2>4
<1>2. QED
  BY <1>1, Invariance, PTL

(* Mapped shared memory reaches no further than its object, unless the     *)
(* object was resized by a stale size.                                     *)
THEOREM MappingBackedHolds == Spec => []MappingBacked
<1>1. Inv => MappingBacked
  BY Zenon DEF Inv, BackInv, BackOf, Backed, MappingBacked
<1>2. QED
  BY <1>1, Invariance, PTL

(* A file that is read without an error is read to its end.                *)
THEOREM ReadCompleteHolds == Spec => []ReadComplete
<1>1. Inv => ReadComplete
  BY Zenon DEF Inv, LocalInv, ReadInv, ReadComplete
<1>2. QED
  BY <1>1, Invariance, PTL

(* The size of the memory a file is read to, an int that is doubled when   *)
(* the memory is full, does not overflow.                                  *)
SizeFits == \A t \in Threads : pc[t] \in {"read", "realloc"} => to[t] \in 1 .. IntMax
THEOREM SizeFitsHolds == Spec => []SizeFits
<1>1. Inv => SizeFits
  BY Zenon DEF Inv, LocalInv, ReadInv, SizeFits
<1>2. QED
  BY <1>1, Invariance, PTL

(* A call of a stub goes to the function in the space it is made from.     *)
THEOREM StubTargetHolds == Spec => []StubTarget
<1>1. Inv => StubTarget
  BY Zenon DEF Inv, StubInv, StubTarget
<1>2. QED
  BY <1>1, Invariance, PTL

(* A stub fails only with a call to the system, its own or the load that   *)
(* overwrote its handle.                                                   *)
THEOREM StubFailsAloneHolds == Spec => []StubFailsAlone
<1>1. Inv => StubFailsAlone
  BY Zenon DEF Inv, StubInv, StubFailsAlone
<1>2. QED
  BY <1>1, Invariance, PTL
=============================================================================
