---------------------------- MODULE FunctionHook ----------------------------
(***************************************************************************)
(* Hooks on one kernel function: the threads that call the function, and   *)
(* the threads that create, extend, shrink and destroy its hook.           *)
(*                                                                         *)
(* A hook argument (Ps4KernelFunctionHookArgument) holds the prologue, the *)
(* bridge, the hook arrays, the entry counter and the spin lock word; all  *)
(* of it is freed together.  Each argument ever allocated has an identity  *)
(* of its own in Args, so that a use after the free is visible.  malloc is *)
(* called with M_ZERO | M_WAITOK: it does not fail and it returns zeroes.  *)
(*                                                                         *)
(* Array cell i of the C code is element i + 1 of a sequence here.         *)
(***************************************************************************)
EXTENDS Integers, Sequences, FiniteSets, HookTable

CONSTANTS
  Callers,          \* threads that call the function
  Operators,        \* threads that use the ps4KernelFunctionHook... API
  Args,             \* the hook arguments that can be allocated (bound)
  Hooks,            \* hook functions; NULL also is no argument, no thread
  Types,            \* the hook types clients pass to HookAdd
  InitialHookSize,  \* cells of the arrays of a new argument; 8 in the code
  MaxHooks,         \* bound on the hooks of an argument
  PauseSufficient,  \* TRUE: pause() outlasts a caller on its way in
  UniqueHooks,      \* TRUE: clients add a hook function once at a time
  Removable         \* hook functions that clients remove

ASSUME ConstantsAssumption ==
  /\ NULL \notin Callers \cup Operators \cup Args \cup Hooks
  /\ IsFiniteSet(Callers)
  /\ Types \subseteq HookTypes
  /\ InitialHookSize \in Nat /\ InitialHookSize > 0
  /\ MaxHooks \in Nat
  /\ PauseSufficient \in BOOLEAN /\ UniqueHooks \in BOOLEAN
  /\ Removable \subseteq Hooks

VARIABLES
  head, tail,   \* first two bytes of the function, and the bytes after them
  target,       \* the argument whose prologue the function jumps to
  mutex, depth, \* owner and recursion count of ps4KernelFunctionHookMutex
  memory,       \* of each argument: "unused", "live" or "freed"
  entryCount, lock, hook, hookType, hookCount,   \* fields of the arguments
  pc, carg, csize, chook, ctype,                 \* callers and their clones
  opc, todo, oarg, ohook, otype, rax, s, t       \* operators

function == <<head, tail, target>>
fields == <<entryCount, lock, hook, hookType, hookCount>>
clones == <<csize, chook, ctype>>
callers == <<pc, carg, csize, chook, ctype>>
inputs == <<todo, ohook, otype>>
loops == <<rax, s, t>>
operators == <<opc, oarg, inputs, loops>>
vars == <<function, mutex, depth, memory, fields, callers, operators>>

Zeroes(zero, n) == [i \in 1..n |-> zero]

Init ==
  /\ head = "original" /\ tail = "original" /\ target = NULL
  /\ mutex = NULL /\ depth = 0
  /\ memory = [a \in Args |-> "unused"]
  /\ entryCount = [a \in Args |-> 0]
  /\ lock = [a \in Args |-> 0]
  /\ hook = [a \in Args |-> <<>>]
  /\ hookType = [a \in Args |-> <<>>]
  /\ hookCount = [a \in Args |-> 0]
  /\ pc = [c \in Callers |-> "out"]
  /\ carg = [c \in Callers |-> NULL]
  /\ csize = [c \in Callers |-> 0]
  /\ chook = [c \in Callers |-> <<>>]
  /\ ctype = [c \in Callers |-> <<>>]
  /\ opc = [o \in Operators |-> "idle"]
  /\ todo = [o \in Operators |-> "none"]
  /\ oarg = [o \in Operators |-> NULL]
  /\ ohook = [o \in Operators |-> NULL]
  /\ otype = [o \in Operators |-> 0]
  /\ rax = [o \in Operators |-> 0]
  /\ s = [o \in Operators |-> 0]
  /\ t = [o \in Operators |-> 0]

-----------------------------------------------------------------------------
(* Callers.  A caller that executes half-written bytes is at "torn", one   *)
(* that uses a freed argument at "freed", one that copies arrays HookAdd   *)
(* has freed at "stale": what it does from there on is undefined.          *)

CGoto(c, from, to) == pc[c] = from /\ pc' = [pc EXCEPT ![c] = to]

CallerFrame == UNCHANGED <<function, mutex, depth, memory, operators>>

Alive(c) == memory[carg[c]] = "live"

(* The call fetches the first instruction.  Under the lock that is         *)
(* jmp .-2, a jump to the two bytes in front of the function: the caller   *)
(* comes back at once if they are a no-op, or else runs bytes that are not *)
(* the function's.                                                         *)
Call(c) ==
  /\ \/ /\ head = "original"
        /\ CGoto(c, "out", "head")
        /\ UNCHANGED carg
     \/ /\ head = "jump"
        /\ CGoto(c, "out", IF tail = "jump" THEN "movabs" ELSE "torn")
        /\ carg' = [carg EXCEPT ![c] = target]
     \/ /\ head = "lock"
        /\ CGoto(c, "out", "torn")
        /\ UNCHANGED carg
  /\ CallerFrame /\ UNCHANGED <<fields, clones>>

(* The unhooked function leaves the bytes a hook would overwrite.          *)
RunOriginal(c) ==
  /\ CGoto(c, "head", IF tail = "original" THEN "out" ELSE "torn")
  /\ CallerFrame /\ UNCHANGED <<fields, carg, clones>>

(* movabs loaded the prologue's address, the jmp *%r11 is in the tail.     *)
JumpToPrologue(c) ==
  /\ CGoto(c, "movabs", IF tail = "jump" THEN "enter" ELSE "torn")
  /\ CallerFrame /\ UNCHANGED <<fields, carg, clones>>

EnterPrologue(c) ==
  /\ CGoto(c, "enter", "spin") /\ Alive(c)
  /\ entryCount' = [entryCount EXCEPT ![carg[c]] = @ + 1]
  /\ CallerFrame /\ UNCHANGED <<lock, hook, hookType, hookCount, carg, clones>>

SpinInPrologue(c) ==
  /\ CGoto(c, "spin", IF lock[carg[c]] = 0 THEN "struct" ELSE "spin") /\ Alive(c)
  /\ lock' = [lock EXCEPT ![carg[c]] = 1]
  /\ CallerFrame /\ UNCHANGED <<entryCount, hook, hookType, hookCount, carg, clones>>

(* ps4PayloadFunctionHookArgumentClone allocates the hooks of the clone    *)
(* with the size it reads, copies them cell by cell, then the same for the *)
(* types, with the size it reads then.                                     *)
CloneStruct(c) ==
  /\ CGoto(c, "struct", "hooks") /\ Alive(c)
  /\ csize' = [csize EXCEPT ![c] = Len(hook[carg[c]])]
  /\ CallerFrame /\ UNCHANGED <<fields, carg, chook, ctype>>

SameArrays(c) == Len(hook[carg[c]]) = csize[c]

CloneHook(c) ==
  /\ pc[c] = "hooks" /\ Alive(c)
  /\ LET i == Len(chook[c])
     IN \/ /\ i < csize[c] /\ SameArrays(c)
           /\ chook' = [chook EXCEPT ![c] = Append(@, hook[carg[c]][i + 1])]
           /\ UNCHANGED <<pc, csize>>
        \/ /\ i = csize[c] /\ CGoto(c, "hooks", "types")
           /\ csize' = [csize EXCEPT ![c] = Len(hookType[carg[c]])]
           /\ UNCHANGED chook
  /\ CallerFrame /\ UNCHANGED <<fields, carg, ctype>>

CloneType(c) ==
  /\ pc[c] = "types" /\ Alive(c)
  /\ LET i == Len(ctype[c])
     IN \/ /\ i < csize[c] /\ SameArrays(c)
           /\ ctype' = [ctype EXCEPT ![c] = Append(@, hookType[carg[c]][i + 1])]
           /\ UNCHANGED pc
        \/ i = csize[c] /\ CGoto(c, "types", "leave") /\ UNCHANGED ctype
  /\ CallerFrame /\ UNCHANGED <<fields, carg, csize, chook>>

(* HookAdd replaced the arrays under a clone that is still copying.        *)
CloneFreedArrays(c) ==
  /\ \/ CGoto(c, "hooks", "stale") /\ Len(chook[c]) < csize[c]
     \/ CGoto(c, "types", "stale") /\ Len(ctype[c]) < csize[c]
  /\ Alive(c) /\ ~SameArrays(c)
  /\ CallerFrame /\ UNCHANGED <<fields, carg, clones>>

(* Mutant: the handler forgets the decrement.                              *)
LeavePrologueCounted(c) ==
  /\ CGoto(c, "leave", "unlock") /\ Alive(c)
  /\ CallerFrame /\ UNCHANGED <<fields, carg, clones>>

LeavePrologue(c) ==
  /\ CGoto(c, "leave", "unlock") /\ Alive(c)
  /\ entryCount' = [entryCount EXCEPT ![carg[c]] = @ - 1]
  /\ CallerFrame /\ UNCHANGED <<lock, hook, hookType, hookCount, carg, clones>>

UnlockInHandler(c) ==
  /\ CGoto(c, "unlock", "pre") /\ Alive(c)
  /\ lock' = [lock EXCEPT ![carg[c]] = 0]
  /\ CallerFrame
  /\ UNCHANGED <<entryCount, hook, hookType, hookCount, carg, clones>>

(* From here on the handler works on the clone; its two loops over the     *)
(* hooks are FunctionHookHandler.  A hook may intercept the call.          *)
RunPreHooks(c) ==
  /\ \/ CGoto(c, "pre", "bridge")
     \/ Ran(chook[c], ctype[c], "pre") # {} /\ CGoto(c, "pre", "epilogue")
  /\ CallerFrame /\ UNCHANGED <<fields, carg, clones>>

(* The bridge is memory of the argument, not of the clone.                 *)
RunBridge(c) ==
  /\ CGoto(c, "bridge", "post") /\ Alive(c)
  /\ CallerFrame /\ UNCHANGED <<fields, carg, clones>>

RunPostHooks(c) ==
  /\ CGoto(c, "post", "epilogue")
  /\ CallerFrame /\ UNCHANGED <<fields, carg, clones>>

(* ps4PayloadFunctionHookArgumentDestroy frees the clone.                  *)
Epilogue(c) ==
  /\ CGoto(c, "epilogue", "out")
  /\ carg' = [carg EXCEPT ![c] = NULL]
  /\ csize' = [csize EXCEPT ![c] = 0]
  /\ chook' = [chook EXCEPT ![c] = <<>>]
  /\ ctype' = [ctype EXCEPT ![c] = <<>>]
  /\ CallerFrame /\ UNCHANGED fields

(* The steps above that use the argument, once it has been freed.          *)
UseFreed(c) ==
  /\ \E from \in {"enter", "spin", "struct", "hooks", "types", "leave", "unlock",
                   "bridge"} : CGoto(c, from, "freed")
  /\ ~Alive(c)
  /\ CallerFrame /\ UNCHANGED <<fields, carg, clones>>

Caller(c) ==
  \/ RunOriginal(c) \/ JumpToPrologue(c) \/ EnterPrologue(c) \/ SpinInPrologue(c)
  \/ CloneStruct(c) \/ CloneHook(c) \/ CloneType(c) \/ CloneFreedArrays(c)
  \/ LeavePrologue(c) \/ UnlockInHandler(c) \/ RunPreHooks(c) \/ RunBridge(c)
  \/ RunPostHooks(c) \/ Epilogue(c) \/ UseFreed(c)

-----------------------------------------------------------------------------
(* Operators: the recursive mutex of the API.                              *)

OperatorFrame == UNCHANGED callers

OGoto(o, from, to) == opc[o] = from /\ opc' = [opc EXCEPT ![o] = to]

LockMutex(o) ==
  mutex \in {NULL, o} /\ mutex' = o /\ depth' = depth + 1

UnlockMutex(o) ==
  /\ depth' = depth - 1
  /\ mutex' = IF depth = 1 THEN NULL ELSE o

-----------------------------------------------------------------------------
(* Clients.  Operations on the function need no care.  A handle is passed  *)
(* to HookAdd, HookRemove or HookDestroy only while the hook it names is   *)
(* installed and nobody destroys it: the code cannot check a handle.       *)

Start(o, op, to, h, ty, a) ==
  /\ OGoto(o, "idle", to)
  /\ todo' = [todo EXCEPT ![o] = op]
  /\ ohook' = [ohook EXCEPT ![o] = h]
  /\ otype' = [otype EXCEPT ![o] = ty]
  /\ oarg' = [oarg EXCEPT ![o] = a]
  /\ OperatorFrame /\ UNCHANGED <<function, mutex, depth, memory, fields, loops>>

Doing(ops) == {o \in Operators : todo[o] \in ops}

Installed(a) == head = "jump" /\ tail = "jump" /\ target = a

HandleValid(a) == Installed(a) /\ Doing({"destroy", "unhook"}) = {}

(* Bounds, and with UniqueHooks the discipline of a client that does not   *)
(* register a hook function twice.                                         *)
MayAdd(h) ==
  /\ \A a \in Args : Installed(a) =>
        /\ hookCount[a] + Cardinality(Doing({"add", "hook"})) < MaxHooks
        /\ UniqueHooks => \A i \in 1..hookCount[a] : hook[a][i] # h
  /\ UniqueHooks => \A o \in Doing({"add", "hook"}) : ohook[o] # h

MayCreate ==
  Cardinality({a \in Args : memory[a] = "unused"}) > Cardinality(Doing({"create", "hook"}))

StartCreate(o) == MayCreate /\ Start(o, "create", "create_lock", NULL, 0, NULL)

StartAdd(o) ==
  \E a \in Args, h \in Hooks, ty \in Types :
    HandleValid(a) /\ MayAdd(h) /\ Start(o, "add", "spinner_lock", h, ty, a)

StartRemove(o) ==
  \E a \in Args, h \in Removable :
    HandleValid(a) /\ Start(o, "remove", "spinner_lock", h, 0, a)

StartDestroy(o) ==
  \E a \in Args :
    /\ HandleValid(a) /\ Doing({"add", "remove"}) = {}
    /\ Start(o, "destroy", "destroy_lock", NULL, 0, a)

StartHook(o) ==
  \E h \in Hooks, ty \in Types :
    MayCreate /\ MayAdd(h) /\ Start(o, "hook", "outer_lock", h, ty, NULL)

StartUnhook(o) ==
  /\ Doing({"add", "remove", "destroy"}) = {}
  /\ Start(o, "unhook", "outer_lock", NULL, 0, NULL)

StartOperation(o) ==
  \/ StartCreate(o) \/ StartAdd(o) \/ StartRemove(o)
  \/ StartDestroy(o) \/ StartHook(o) \/ StartUnhook(o)

-----------------------------------------------------------------------------
(* ps4KernelFunctionHook and ps4KernelFunctionUnhook hold the mutex around *)
(* the operations they call, which lock it again.                          *)

(* mtx_lock at the start of an operation.                                  *)
LockIn(o) ==
  /\ \/ OGoto(o, "outer_lock", "dispatch")
     \/ OGoto(o, "create_lock", "create_test")
     \/ OGoto(o, "spinner_lock", "load")
     \/ OGoto(o, "destroy_lock", "fn_lock")
  /\ LockMutex(o)
  /\ OperatorFrame /\ UNCHANGED <<function, memory, fields, oarg, inputs, loops>>

(* ps4KernelFunctionIsHooked and ps4KernelFunctionGetHook read the jump    *)
(* and the prologue behind it.                                             *)
IsHooked == head = "jump" /\ tail = "jump"

Dispatch(o) ==
  /\ \/ todo[o] = "hook" /\ ~IsHooked /\ OGoto(o, "dispatch", "create_lock")
     \/ todo[o] = "hook" /\ IsHooked /\ OGoto(o, "dispatch", "spinner_lock")
     \/ todo[o] = "unhook" /\ ~IsHooked /\ OGoto(o, "dispatch", "outer_unlock")
     \/ todo[o] = "unhook" /\ IsHooked /\ OGoto(o, "dispatch", "destroy_lock")
  /\ oarg' = [oarg EXCEPT ![o] = target]
  /\ OperatorFrame
  /\ UNCHANGED <<function, mutex, depth, memory, fields, inputs, loops>>

(* mtx_unlock when the operation, or the one around it, is done.           *)
Finish(o, from) ==
  /\ OGoto(o, from, "idle")
  /\ todo' = [todo EXCEPT ![o] = "none"]
  /\ ohook' = [ohook EXCEPT ![o] = NULL]
  /\ otype' = [otype EXCEPT ![o] = 0]
  /\ oarg' = [oarg EXCEPT ![o] = NULL]

OuterUnlock(o) ==
  /\ Finish(o, "outer_unlock")
  /\ UnlockMutex(o)
  /\ OperatorFrame /\ UNCHANGED <<function, memory, fields, loops>>

Unlock(o) ==
  /\ IF todo[o] \in {"hook", "unhook"}
     THEN OGoto(o, "unlock", "outer_unlock") /\ UNCHANGED <<oarg, inputs>>
     ELSE Finish(o, "unlock")
  /\ UnlockMutex(o)
  /\ OperatorFrame /\ UNCHANGED <<function, memory, fields, loops>>

-----------------------------------------------------------------------------
(* ps4KernelFunctionHookCreate                                             *)

(* Mutant: hooked functions are not refused.                               *)
CreateTestSkipped(o) ==
  /\ OGoto(o, "create_test", "create_build")
  /\ OperatorFrame
  /\ UNCHANGED <<function, mutex, depth, memory, fields, oarg, inputs, loops>>

(* Mutant: the refusal leaves without its finally block.                   *)
CreateTestLeaves(o) ==
  /\ IF IsHooked THEN Finish(o, "create_test")
     ELSE OGoto(o, "create_test", "create_build") /\ UNCHANGED <<oarg, inputs>>
  /\ OperatorFrame /\ UNCHANGED <<function, mutex, depth, memory, fields, loops>>

CreateTest(o) ==
  /\ OGoto(o, "create_test", IF IsHooked THEN "unlock" ELSE "create_build")
  /\ OperatorFrame
  /\ UNCHANGED <<function, mutex, depth, memory, fields, oarg, inputs, loops>>

(* The argument, its arrays, prologue and bridge; nobody else sees them.   *)
CreateBuild(o) ==
  \E a \in Args :
    /\ memory[a] = "unused"
    /\ OGoto(o, "create_build", "create_patch")
    /\ memory' = [memory EXCEPT ![a] = "live"]
    /\ hook' = [hook EXCEPT ![a] = Zeroes(NULL, InitialHookSize)]
    /\ hookType' = [hookType EXCEPT ![a] = Zeroes(0, InitialHookSize)]
    /\ oarg' = [oarg EXCEPT ![o] = a]
    /\ OperatorFrame
    /\ UNCHANGED <<function, mutex, depth, entryCount, lock, hookCount, inputs,
                   loops>>

(* ps4PayloadJumpPatch copies the template, then the target address.       *)
CreatePatch(o) ==
  /\ OGoto(o, "create_patch", "create_jump")
  /\ head' = "jump" /\ tail' = "torn"
  /\ OperatorFrame
  /\ UNCHANGED <<target, mutex, depth, memory, fields, oarg, inputs, loops>>

CreateJump(o) ==
  /\ OGoto(o, "create_jump", "created")
  /\ tail' = "jump" /\ target' = oarg[o]
  /\ OperatorFrame
  /\ UNCHANGED <<head, mutex, depth, memory, fields, oarg, inputs, loops>>

CreateUnlock(o) ==
  /\ IF todo[o] = "hook"
     THEN OGoto(o, "created", "spinner_lock") /\ UNCHANGED <<oarg, inputs>>
     ELSE Finish(o, "created")
  /\ UnlockMutex(o)
  /\ OperatorFrame /\ UNCHANGED <<function, memory, fields, loops>>

-----------------------------------------------------------------------------
(* ps4AtomicSpinLock64 on the argument's lock, see SpinLock.               *)

SpinLoad(o) ==
  /\ OGoto(o, "load", "store")
  /\ rax' = [rax EXCEPT ![o] = lock[oarg[o]]]
  /\ OperatorFrame
  /\ UNCHANGED <<function, mutex, depth, memory, fields, oarg, inputs, s, t>>

(* What the operation does under the spin lock.                            *)
Section(o) ==
  CASE todo[o] \in {"add", "hook"} -> "grow"
    [] todo[o] = "remove" -> "shift"
    [] OTHER -> "poll"

SpinStore(o) ==
  /\ OGoto(o, "store", IF rax[o] = 0 THEN Section(o) ELSE "load")
  /\ lock' = [lock EXCEPT ![oarg[o]] = 1]
  /\ OperatorFrame
  /\ UNCHANGED <<function, mutex, depth, memory, entryCount, hook, hookType,
                 hookCount, oarg, inputs, loops>>

(* ps4AtomicSpinUnlock64, whose result nobody looks at.                    *)
SpinUnlock(o) ==
  /\ \/ OGoto(o, "add_release", "put_hook")
     \/ OGoto(o, "remove_release", "unlock")
     \/ OGoto(o, "poll_release", "pause")
     \/ OGoto(o, "destroy_release", "free")
  /\ lock' = [lock EXCEPT ![oarg[o]] = 0]
  /\ OperatorFrame
  /\ UNCHANGED <<function, mutex, depth, memory, entryCount, hook, hookType,
                 hookCount, oarg, inputs, loops>>

-----------------------------------------------------------------------------
(* ps4KernelFunctionHookAdd: arrays that are full but for the trailing     *)
(* NULL are doubled under the spin lock; the cells are written without it. *)
(* A negative count writes in front of the arrays and leaves them alone.   *)

(* Mutant: the copy stops one hook early.                                  *)
GrownShort(array, n, zero) ==
  [i \in 1..2 * Len(array) |-> IF i < n THEN array[i] ELSE zero]

Grown(array, n, zero) ==
  [i \in 1..2 * Len(array) |-> IF i <= n THEN array[i] ELSE zero]

(* Mutant: no cell is kept for the trailing NULL.                          *)
GrowLate(o) ==
  /\ OGoto(o, "grow", "add_release")
  /\ LET a == oarg[o]
     IN IF hookCount[a] >= Len(hook[a])
        THEN /\ hook' = [hook EXCEPT ![a] = Grown(@, hookCount[a], NULL)]
             /\ hookType' = [hookType EXCEPT ![a] = Grown(@, hookCount[a], 0)]
        ELSE UNCHANGED <<hook, hookType>>
  /\ OperatorFrame
  /\ UNCHANGED <<function, mutex, depth, memory, entryCount, lock, hookCount, oarg,
                 inputs, loops>>

Grow(o) ==
  /\ OGoto(o, "grow", "add_release")
  /\ LET a == oarg[o]
     IN IF hookCount[a] >= Len(hook[a]) - 1
        THEN /\ hook' = [hook EXCEPT ![a] = Grown(@, hookCount[a], NULL)]
             /\ hookType' = [hookType EXCEPT ![a] = Grown(@, hookCount[a], 0)]
        ELSE UNCHANGED <<hook, hookType>>
  /\ OperatorFrame
  /\ UNCHANGED <<function, mutex, depth, memory, entryCount, lock, hookCount, oarg,
                 inputs, loops>>

PutFrame(o) ==
  /\ OperatorFrame
  /\ UNCHANGED <<function, mutex, depth, memory, entryCount, lock, oarg, inputs,
                 loops>>

PutHook(o) ==
  /\ OGoto(o, "put_hook", "put_type")
  /\ hook' = [hook EXCEPT ![oarg[o]][hookCount[oarg[o]] + 1] = ohook[o]]
  /\ PutFrame(o) /\ UNCHANGED <<hookType, hookCount>>

PutType(o) ==
  /\ OGoto(o, "put_type", "put_count")
  /\ hookType' = [hookType EXCEPT ![oarg[o]][hookCount[oarg[o]] + 1] = otype[o]]
  /\ PutFrame(o) /\ UNCHANGED <<hook, hookCount>>

PutCount(o) ==
  /\ OGoto(o, "put_count", "put_null")
  /\ hookCount' = [hookCount EXCEPT ![oarg[o]] = @ + 1]
  /\ PutFrame(o) /\ UNCHANGED <<hook, hookType>>

PutNull(o) ==
  /\ OGoto(o, "put_null", "unlock")
  /\ hook' = [hook EXCEPT ![oarg[o]][hookCount[oarg[o]] + 1] = NULL]
  /\ PutFrame(o) /\ UNCHANGED <<hookType, hookCount>>

-----------------------------------------------------------------------------
(* ps4KernelFunctionHookRemove: one turn of the loop that closes the gap.  *)
(* Only the hooks move, the types stay.  A read behind the array returns   *)
(* whatever is there.                                                      *)

CellsAt(array, i) == IF i <= Len(array) THEN {array[i]} ELSE Hooks \cup {NULL}

ShiftEnds(o) == hook[oarg[o]][s[o] + 1] = NULL

Shift(o) ==
  LET a == oarg[o]
      skip == IF hook[a][s[o] + 1] = ohook[o] THEN t[o] + 1 ELSE t[o]
  IN /\ opc[o] = "shift" /\ ~ShiftEnds(o)
     /\ s' = [s EXCEPT ![o] = @ + 1]
     /\ t' = [t EXCEPT ![o] = skip]
     /\ \/ skip = 0 /\ UNCHANGED hook
        \/ /\ skip # 0
           /\ \E cell \in CellsAt(hook[a], s[o] + skip + 1) :
                hook' = [hook EXCEPT ![a][s[o] + 1] = cell]
     /\ OperatorFrame
     /\ UNCHANGED <<function, mutex, depth, memory, entryCount, lock, hookType,
                    hookCount, opc, oarg, inputs, rax>>

(* Mutant: the hook count is not adjusted.                                 *)
ShiftDoneUncounted(o) ==
  /\ OGoto(o, "shift", "remove_release") /\ ShiftEnds(o)
  /\ s' = [s EXCEPT ![o] = 0] /\ t' = [t EXCEPT ![o] = 0]
  /\ OperatorFrame
  /\ UNCHANGED <<function, mutex, depth, memory, fields, oarg, inputs, rax>>

ShiftDone(o) ==
  /\ OGoto(o, "shift", "remove_release") /\ ShiftEnds(o)
  /\ hookCount' = [hookCount EXCEPT ![oarg[o]] = @ - t[o]]
  /\ s' = [s EXCEPT ![o] = 0] /\ t' = [t EXCEPT ![o] = 0]
  /\ OperatorFrame
  /\ UNCHANGED <<function, mutex, depth, memory, entryCount, lock, hook, hookType,
                 oarg, inputs, rax>>

-----------------------------------------------------------------------------
(* ps4KernelFunctionHookDestroy: jmp .-2 over the first two bytes, the     *)
(* original bytes behind them, then the first two; then wait until the     *)
(* entry counter is zero, and free everything.                             *)

DestroyFrame(o) ==
  /\ OperatorFrame
  /\ UNCHANGED <<mutex, depth, fields, oarg, inputs, loops>>

FunctionLock(o) ==
  /\ OGoto(o, "fn_lock", "fn_restore") /\ head' = "lock"
  /\ DestroyFrame(o) /\ UNCHANGED <<tail, target, memory>>

RestoreTail(o) ==
  /\ OGoto(o, "fn_restore", "fn_unlock") /\ tail' = "original" /\ target' = NULL
  /\ DestroyFrame(o) /\ UNCHANGED <<head, memory>>

FunctionUnlock(o) ==
  /\ OGoto(o, "fn_unlock", "pause") /\ head' = "original"
  /\ DestroyFrame(o) /\ UNCHANGED <<tail, target, memory>>

(* pause(..., 100).  A caller that has fetched the jump and not yet        *)
(* counted itself is only waited for by this delay.                        *)
OnTheWayIn(a) == {c \in Callers : pc[c] \in {"movabs", "enter"} /\ carg[c] = a}

Pause(o) ==
  /\ OGoto(o, "pause", "load")
  /\ PauseSufficient => OnTheWayIn(oarg[o]) = {}
  /\ DestroyFrame(o) /\ UNCHANGED <<function, memory>>

(* Mutant: the entry counter is not looked at.                             *)
PollOnce(o) ==
  /\ OGoto(o, "poll", "destroy_release")
  /\ DestroyFrame(o) /\ UNCHANGED <<function, memory>>

Poll(o) ==
  /\ OGoto(o, "poll",
           IF entryCount[oarg[o]] > 0 THEN "poll_release" ELSE "destroy_release")
  /\ DestroyFrame(o) /\ UNCHANGED <<function, memory>>

(* The catch block frees prologue, bridge, arrays and the argument; what   *)
(* the fields held is gone.                                                *)
Free(o) ==
  LET a == oarg[o]
  IN /\ OGoto(o, "free", "unlock")
     /\ memory' = [memory EXCEPT ![a] = "freed"]
     /\ entryCount' = [entryCount EXCEPT ![a] = 0]
     /\ lock' = [lock EXCEPT ![a] = 0]
     /\ hook' = [hook EXCEPT ![a] = <<>>]
     /\ hookType' = [hookType EXCEPT ![a] = <<>>]
     /\ hookCount' = [hookCount EXCEPT ![a] = 0]
     /\ OperatorFrame
     /\ UNCHANGED <<function, mutex, depth, oarg, inputs, loops>>

Operator(o) ==
  \/ LockIn(o) \/ Dispatch(o) \/ OuterUnlock(o) \/ Unlock(o)
  \/ CreateTest(o) \/ CreateBuild(o) \/ CreatePatch(o) \/ CreateJump(o)
  \/ CreateUnlock(o)
  \/ SpinLoad(o) \/ SpinStore(o) \/ SpinUnlock(o)
  \/ Grow(o) \/ PutHook(o) \/ PutType(o) \/ PutCount(o) \/ PutNull(o)
  \/ Shift(o) \/ ShiftDone(o)
  \/ FunctionLock(o) \/ RestoreTail(o) \/ FunctionUnlock(o) \/ Pause(o)
  \/ Poll(o) \/ Free(o)

Next ==
  \/ \E c \in Callers : Call(c) \/ Caller(c)
  \/ \E o \in Operators : StartOperation(o) \/ Operator(o)

(* The kernel's scheduler runs every thread that can run.  A call and the  *)
(* start of an operation are the clients' choice.                          *)
Fairness ==
  /\ \A c \in Callers : WF_vars(Caller(c))
  /\ \A o \in Operators : WF_vars(Operator(o))

Spec == Init /\ [][Next]_vars /\ Fairness

-----------------------------------------------------------------------------

CallerPcs ==
  {"out", "head", "movabs", "enter", "spin", "struct", "hooks", "types", "leave",
   "unlock", "pre", "bridge", "post", "epilogue", "torn", "freed", "stale"}

OperatorPcs ==
  {"idle", "outer_lock", "dispatch", "outer_unlock", "create_lock", "create_test",
   "create_build", "create_patch", "create_jump", "created", "spinner_lock", "load",
   "store", "grow", "add_release", "put_hook", "put_type", "put_count", "put_null",
   "shift", "remove_release", "destroy_lock", "fn_lock", "fn_restore", "fn_unlock",
   "pause", "poll", "poll_release", "destroy_release", "free", "unlock"}

Operations == {"none", "create", "add", "remove", "destroy", "hook", "unhook"}

(* Every variable has the type of the field or local it stands for.        *)
TypeOK ==
  /\ head \in {"original", "jump", "lock"}
  /\ tail \in {"original", "torn", "jump"}
  /\ target \in Args \cup {NULL}
  /\ mutex \in Operators \cup {NULL} /\ depth \in Int
  /\ memory \in [Args -> {"unused", "live", "freed"}]
  /\ entryCount \in [Args -> Int]
  /\ lock \in [Args -> {0, 1}]
  /\ hook \in [Args -> Seq(Hooks \cup {NULL})]
  /\ hookType \in [Args -> Seq(HookTypes)]
  /\ hookCount \in [Args -> Int]
  /\ pc \in [Callers -> CallerPcs]
  /\ carg \in [Callers -> Args \cup {NULL}]
  /\ csize \in [Callers -> Nat]
  /\ chook \in [Callers -> Seq(Hooks \cup {NULL})]
  /\ ctype \in [Callers -> Seq(HookTypes)]
  /\ opc \in [Operators -> OperatorPcs]
  /\ todo \in [Operators -> Operations]
  /\ oarg \in [Operators -> Args \cup {NULL}]
  /\ ohook \in [Operators -> Hooks \cup {NULL}]
  /\ otype \in [Operators -> HookTypes]
  /\ rax \in [Operators -> {0, 1}]
  /\ s \in [Operators -> Nat] /\ t \in [Operators -> Nat]

Live == {a \in Args : memory[a] = "live"}

(* Callers between the increment and the decrement of the entry counter.   *)
Window(a) ==
  {c \in Callers :
     carg[c] = a /\ pc[c] \in {"spin", "struct", "hooks", "types", "leave", "stale"}}

(* The entry counter of a hook is the number of callers inside its         *)
(* prologue: the number HookDestroy waits for.                             *)
EntryCountExact == \A a \in Live : entryCount[a] = Cardinality(Window(a))

(* If the pause is long enough for the callers that fetched the jump, no   *)
(* caller is on its way into, or inside, the prologue of a freed hook.     *)
PrologueOnLiveArgument ==
  PauseSufficient =>
    \A a \in Args : OnTheWayIn(a) \cup Window(a) # {} => a \in Live

(* How often an operator has locked the mutex, from where it stands.       *)
OuterHeld(o) == todo[o] \in {"hook", "unhook"} /\ opc[o] # "outer_lock"

InnerHeld(o) ==
  opc[o] \notin {"idle", "outer_lock", "dispatch", "outer_unlock", "create_lock",
                 "spinner_lock", "destroy_lock"}

Locked(o) == (IF OuterHeld(o) THEN 1 ELSE 0) + (IF InnerHeld(o) THEN 1 ELSE 0)

(* The recursive mutex is locked as often as its owner's nested operations *)
(* have locked it, and nobody but the owner is inside an operation: every  *)
(* path of Create, Add, Remove, Destroy, Hook and Unhook unlocks what it   *)
(* locked.                                                                 *)
MutexAccounted ==
  /\ \A o \in Operators : Locked(o) = (IF mutex = o THEN depth ELSE 0)
  /\ mutex = NULL <=> depth = 0

(* Between operations the function jumps to the prologue of the only live  *)
(* hook argument, or it is unpatched and every argument has been freed.    *)
PatchedIffLive ==
  mutex = NULL =>
    \/ Live = {} /\ head = "original" /\ tail = "original"
    \/ \E a \in Args : Live = {a} /\ Installed(a)

(* Between operations a hook array holds hookCount hooks and the trailing  *)
(* NULL behind them.                                                       *)
TrailingNull ==
  mutex = NULL =>
    \A a \in Live :
      /\ hookCount[a] \in 0..Len(hook[a]) - 1
      /\ \A i \in 1..hookCount[a] + 1 : hook[a][i] = NULL <=> i = hookCount[a] + 1

(* At every step of every operation both arrays of a hook have the same    *)
(* size and a zero in their last cell, which is what ends the handler's    *)
(* loops over a clone: HookAdd never fills the cell kept for the NULL.     *)
ArraysEnded ==
  \A a \in Live :
    /\ Len(hookType[a]) = Len(hook[a]) /\ hookCount[a] < Len(hook[a])
    /\ hook[a][Len(hook[a])] = NULL /\ hookType[a][Len(hook[a])] = 0

(* HookAdd writes the cells without the lock the clone is made under, yet  *)
(* while no hook is removed what a call runs is a hook with the type it    *)
(* was added with.                                                         *)
RunsWhatWasAdded ==
  Removable = {} => \A c \in Callers : pc[c] \in {"pre", "post"} /\ carg[c] \in Live =>
    \A phase \in {"pre", "post"} : \A i \in Ran(chook[c], ctype[c], phase) :
      hook[carg[c]][i] = chook[c][i] /\ hookType[carg[c]][i] = ctype[c][i]

(* A locked mutex is unlocked again.                                       *)
MutexReleased == mutex # NULL ~> mutex = NULL
=============================================================================
