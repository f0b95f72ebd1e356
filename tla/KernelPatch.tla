---------------------------- MODULE KernelPatch -----------------------------
(***************************************************************************)
(* Threads that write to protected memory.  ps4KernelMemoryCopy and        *)
(* ps4KernelMemoryFill clear the write protection of the processor they    *)
(* run on (CR0.WP), write, and set it; nothing keeps a thread on its       *)
(* processor meanwhile, nor others away from it.  To restore a function    *)
(* ps4KernelFunctionHookDestroy pins the thread, and ps4KernelFunctionLock *)
(* and Unlock exchange the first two bytes.  ps4KernelMemoryAllocate       *)
(* clears pg_nx, which all processors share, allocates, and sets it.       *)
(*                                                                         *)
(* Each thread patches functions of its own, one after the other; a write  *)
(* to protected memory is a fault, which stops the kernel.                 *)
(***************************************************************************)
EXTENDS PayloadTemplate

CONSTANTS Threads, Processors,
          PatchesOf,  \* the patches each thread applies: sets of kind and value
          Nowhere,
          Original    \* the bytes of a function that is not patched

Kinds == {"jump", "return", "function", "system_call", "hidden", "restore"}

ASSUME PatchAssumption ==
  /\ Nowhere \notin Processors
  /\ \A t \in Threads : \A job \in PatchesOf[t] : job.kind \in Kinds

(* ps4PayloadHiddenInformationPatch takes no more than 127 bytes; what it  *)
(* writes, and the longest template, lie in the bytes of the function,     *)
(* which is not recognised as patched.                                     *)
ASSUME CodeAssumption ==
  /\ Original \in Seq(0 .. 255) /\ Len(Original) >= 15
  /\ ~JumpIsPatched(Original) /\ ~ReturnIsPatched(Original)
  /\ ~FunctionHookPrologueIsPatched(Original) /\ ~SystemCallHookPrologueIsPatched(Original)
  /\ ~HiddenInformationIsPatched(Original)
  /\ \A t \in Threads : \A job \in PatchesOf[t] :
       /\ job.value \in Seq(0 .. 255)
       /\ IF job.kind = "hidden" THEN Len(job.value) <= 127 /\ Len(job.value) + 2 <= Len(Original)
          ELSE Len(job.value) = 8

VARIABLES
  wp,         \* CR0.WP of each processor
  nx,         \* pg_nx is set
  on,         \* the processor each thread runs on
  memory,     \* the function of each thread
  bits,       \* two bytes on its stack, for ps4KernelFunctionLock
  want,       \* the job it has now, or had last
  todo,       \* writes still to be made for it
  pc,
  from,       \* where it cleared WP; Nowhere if it has set it since
  cut,        \* history: threads whose window another thread closed
  left,       \* history: processors left open by a thread that moved
  spoiled     \* history: allocations during which another one ended

vars == <<wp, nx, on, memory, bits, want, todo, pc, from, cut, left, spoiled>>
window == <<wp, from, cut, left>>

Job(kind, value) == [kind |-> kind, value |-> value]

Init ==
  /\ wp = [p \in Processors |-> TRUE] /\ nx = TRUE
  /\ on \in [Threads -> Processors] /\ from = [t \in Threads |-> Nowhere]
  /\ memory = [t \in Threads |-> Original] /\ bits = [t \in Threads |-> <<0, 0>>]
  /\ want = [t \in Threads |-> Job("none", <<>>)] /\ todo = [t \in Threads |-> <<>>]
  /\ pc = [t \in Threads |-> "idle"]
  /\ cut = {} /\ left = {} /\ spoiled = {}

Goto(t, at, to) == pc[t] = at /\ pc' = [pc EXCEPT ![t] = to]

(* The scheduler moves a thread that is not pinned.                        *)
Pinned(t) == want[t].kind = "restore" /\ pc[t] # "idle"

Migrate(t) ==
  /\ ~Pinned(t)
  /\ \E p \in Processors \ {on[t]} : on' = [on EXCEPT ![t] = p]
  /\ UNCHANGED <<window, nx, memory, bits, want, todo, pc, spoiled>>

-----------------------------------------------------------------------------
(* Writes that are not copies to the function: two bytes to the stack, and *)
(* the exchange of the two bytes there with the first two of the function. *)
Bits(bytes) == [op |-> "bits", at |-> 0, bytes |-> bytes]
Swap == [op |-> "swap", at |-> 0, bytes |-> <<>>]

\* Mutant: the function is unlocked before the bytes behind are restored.
RestoreEarly ==
  <<Bits(PayloadLock), Swap,
    Bits(SubSeq(Original, 1, 2)), Swap,
    Copy(2, SubSeq(Original, 3, Len(Original)))>>

(* ps4KernelFunctionHookDestroy: lock the function, copy all but its first *)
(* two bytes from the bridge, unlock it with those.                        *)
Restore ==
  <<Bits(PayloadLock), Swap,
    Copy(2, SubSeq(Original, 3, Len(Original))),
    Bits(SubSeq(Original, 1, 2)), Swap>>

Writes(job) ==
  CASE job.kind = "jump" -> JumpPatch(job.value)
    [] job.kind = "return" -> ReturnPatch(job.value)
    [] job.kind = "function" -> FunctionHookProloguePatch(job.value)
    [] job.kind = "system_call" -> SystemCallHookProloguePatch(job.value)
    [] job.kind = "hidden" -> HiddenInformationPatch(job.value)
    [] job.kind = "restore" -> Restore

(* A function that is restored carries the jump of its hook.               *)
Before(job) ==
  IF job.kind = "restore" THEN Copied(Copied(Original, 0, Jump64), 2, job.value) ELSE Original

Begin(t) ==
  /\ Goto(t, "idle", "clear")
  /\ \E job \in PatchesOf[t] :
       /\ want' = [want EXCEPT ![t] = job] /\ todo' = [todo EXCEPT ![t] = Writes(job)]
       /\ memory' = [memory EXCEPT ![t] = Before(job)]
  /\ bits' = [bits EXCEPT ![t] = <<0, 0>>] /\ spoiled' = spoiled \ {t}
  /\ UNCHANGED <<window, nx, on>>

\* Mutant: the protection is not cleared.
WriteDisableForgotten(t) ==
  /\ Goto(t, "clear", "write") /\ from' = [from EXCEPT ![t] = on[t]]
  /\ UNCHANGED <<wp, cut, left, nx, on, memory, bits, want, todo, spoiled>>

(* ps4KernelProtectionWriteDisable.                                        *)
WriteDisable(t) ==
  /\ Goto(t, "clear", "write") /\ wp' = [wp EXCEPT ![on[t]] = FALSE]
  /\ from' = [from EXCEPT ![t] = on[t]]
  /\ UNCHANGED <<cut, left, nx, on, memory, bits, want, todo, spoiled>>

FunctionAfter(w, m, b) ==
  CASE w.op = "copy" -> Copied(m, w.at, w.bytes) [] w.op = "swap" -> Copied(m, 0, b) [] OTHER -> m
BitsAfter(w, m, b) ==
  CASE w.op = "bits" -> w.bytes [] w.op = "swap" -> SubSeq(m, 1, 2) [] OTHER -> b

(* The write itself faults on protected memory; the stack never is.        *)
Write(t) ==
  /\ pc[t] = "write"
  /\ LET w == Head(todo[t]) IN
     /\ \/ /\ wp[on[t]] /\ w.op # "bits" /\ Goto(t, "write", "fault")
           /\ UNCHANGED <<memory, bits>>
        \/ /\ ~wp[on[t]] \/ w.op = "bits"
           /\ Goto(t, "write", "set")
           /\ memory' = [memory EXCEPT ![t] = FunctionAfter(w, @, bits[t])]
           /\ bits' = [bits EXCEPT ![t] = BitsAfter(w, memory[t], @)]
     /\ UNCHANGED <<window, nx, on, want, todo, spoiled>>

\* Mutant: the protection is not set again.
WriteEnableForgotten(t) ==
  /\ Goto(t, "set", IF Len(todo[t]) = 1 THEN "idle" ELSE "clear")
  /\ todo' = [todo EXCEPT ![t] = Tail(@)]
  /\ UNCHANGED <<window, nx, on, memory, bits, want, spoiled>>

(* ps4KernelProtectionWriteEnable.  The windows of others on this          *)
(* processor are closed with it; one opened elsewhere is not.              *)
WriteEnable(t) ==
  /\ Goto(t, "set", IF Len(todo[t]) = 1 THEN "idle" ELSE "clear")
  /\ todo' = [todo EXCEPT ![t] = Tail(@)]
  /\ wp' = [wp EXCEPT ![on[t]] = TRUE]
  /\ from' = [from EXCEPT ![t] = Nowhere]
  /\ cut' = (cut \ {t}) \cup {u \in Threads \ {t} : pc[u] = "write" /\ from[u] = on[t]}
  /\ left' = (left \ {on[t]}) \cup {p \in {from[t]} \ {on[t]} : ~wp[p]}
  /\ UNCHANGED <<nx, on, memory, bits, want, spoiled>>

-----------------------------------------------------------------------------
\* Mutant: pg_nx stays as it is.
ExecuteDisableForgotten(t) ==
  /\ Goto(t, "idle", "malloc") /\ spoiled' = spoiled \ {t}
  /\ want' = [want EXCEPT ![t] = Job("memory", <<>>)]
  /\ UNCHANGED <<window, nx, on, memory, bits, todo>>

(* ps4KernelMemoryAllocate: pg_nx off, malloc, pg_nx on.                   *)
ExecuteDisable(t) ==
  /\ Goto(t, "idle", "malloc") /\ nx' = FALSE /\ spoiled' = spoiled \ {t}
  /\ want' = [want EXCEPT ![t] = Job("memory", <<>>)]
  /\ UNCHANGED <<window, on, memory, bits, todo>>

Malloc(t) ==
  /\ Goto(t, "malloc", "nx") /\ memory' = [memory EXCEPT ![t] = Original]
  /\ want' = [want EXCEPT ![t] = Job(IF nx THEN "data" ELSE "code", <<>>)]
  /\ UNCHANGED <<window, nx, on, bits, todo, spoiled>>

ExecuteEnable(t) ==
  /\ Goto(t, "nx", "idle") /\ nx' = TRUE
  /\ spoiled' = spoiled \cup {u \in Threads \ {t} : pc[u] = "malloc"}
  /\ UNCHANGED <<window, on, memory, bits, want, todo>>

Step(t) ==
  \/ Migrate(t) \/ Begin(t) \/ WriteDisable(t) \/ Write(t) \/ WriteEnable(t)
  \/ ExecuteDisable(t) \/ Malloc(t) \/ ExecuteEnable(t)

(* A fault in the kernel stops it.                                         *)
Next == (\A t \in Threads : pc[t] # "fault") /\ \E t \in Threads : Step(t)

Spec == Init /\ [][Next]_vars

-----------------------------------------------------------------------------
Open(t) == pc[t] \in {"write", "set", "fault"}

(* A processor that is not protected is so for a thread that cleared WP    *)
(* there and is still writing, or because a thread moved away from it      *)
(* before it set WP.                                                       *)
OpenAccounted ==
  \A p \in Processors :
    ~wp[p] => p \in left \/ \E t \in Threads : Open(t) /\ from[t] = p

(* A write faults only if the thread was moved inside its window, or       *)
(* another thread on the same processor closed it.  Where threads do not   *)
(* share a processor and stay on it, no write faults.                      *)
FaultExplained ==
  \A t \in Threads : pc[t] = "fault" => on[t] # from[t] \/ t \in cut

(* pg_nx is set whenever ps4KernelMemoryAllocate is not under way, however *)
(* many calls of it overlapped.                                            *)
NxRestored == (\A t \in Threads : pc[t] \notin {"malloc", "nx"}) => nx

(* Memory that should hold code can be executed, unless another allocation *)
(* ended at the wrong moment.                                              *)
CodeExecutable == \A t \in Threads : want[t].kind = "data" => t \in spoiled

Is(t, kind) == want[t].kind = kind

(* While ps4KernelFunctionHookDestroy restores a function, its first two   *)
(* bytes are those of the lock, or all of it is the old code or the new:   *)
(* no call enters a mixture behind the lock.                               *)
WholeUnlessLocked ==
  \A t \in Threads :
    Is(t, "restore") =>
      \/ memory[t] \in {Before(want[t]), Original}
      \/ SubSeq(memory[t], 1, 2) = PayloadLock

(* A finished patch is recognised as what it is and as nothing else, its   *)
(* operand is read back, and bytes past the determined size are as before. *)
(* A return gives the value; of a negative 32-bit value the lower half.  A *)
(* restored function has its bytes.                                        *)
PatchExact ==
  \A t \in Threads :
    LET m == memory[t]
        v == want[t].value
        Kept(size) == \A i \in size + 1 .. Len(m) : m[i] = Original[i]
    IN pc[t] = "idle" =>
         /\ Is(t, "jump") <=> JumpIsPatched(m)
         /\ Is(t, "return") <=> ReturnIsPatched(m)
         /\ Is(t, "function") <=> FunctionHookPrologueIsPatched(m)
         /\ Is(t, "system_call") <=> SystemCallHookPrologueIsPatched(m)
         /\ Is(t, "hidden") <=> HiddenInformationIsPatched(m)
         /\ Is(t, "jump") => JumpExtractTarget(m) = v /\ Kept(JumpDeterminePatchSize(v))
         /\ Is(t, "function") => FunctionHookPrologueExtractArgument(m) = v
         /\ Is(t, "system_call") => SystemCallHookPrologueExtractArgument(m) = v
         /\ Is(t, "hidden") => HiddenInformationExtractData(m) = v
         /\ Is(t, "return") =>
              /\ Kept(ReturnDeterminePatchSize(v))
              /\ SubSeq(Returns(m), 1, 4) = SubSeq(v, 1, 4)
              /\ ~Fits32(v) \/ v[8] = 0 => Returns(m) = v
         /\ Is(t, "restore") => m = Original
=============================================================================
