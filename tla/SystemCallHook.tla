--------------------------- MODULE SystemCallHook ---------------------------
(***************************************************************************)
(* Hooks on one entry of the system call table: the threads that make the  *)
(* system call, and the threads that create, extend and destroy its hooks. *)
(*                                                                         *)
(* As in FunctionHook, an argument is the prologue, the arrays, the entry  *)
(* counter and the lock word, freed together; malloc waits and zeroes.     *)
(* Unlike there, HookAdd replaces the arrays without the spin lock, and    *)
(* HookCreate accepts an entry that is hooked already: originalCall then   *)
(* is the prologue of the older hook.                                      *)
(*                                                                         *)
(* Every growth doubles the arrays, so their length tells which arrays a   *)
(* pointer read earlier points to.  Array cell i is element i + 1 here.    *)
(***************************************************************************)
EXTENDS Integers, Sequences, FiniteSets

CONSTANTS
  Callers,          \* threads that make the system call
  Operators,        \* threads that use the ps4KernelSystemCallHook... API
  Args,             \* the hook arguments that can be allocated (bound)
  Hooks,            \* hook functions
  Types,            \* the hook types clients pass to HookAdd
  NULL,             \* no hook, no argument, no thread
  System,           \* the system call's own implementation
  InitialHookSize,  \* cells of the arrays of a new argument; 8 in the code
  MaxHooks,         \* bound on the hooks of all arguments together
  PauseSufficient   \* TRUE: pause() outlasts a caller on its way in

ASSUME ConstantsAssumption ==
  /\ {NULL, System} \cap (Callers \cup Operators \cup Args \cup Hooks) = {}
  /\ IsFiniteSet(Callers) /\ NULL # System
  /\ Types \subseteq {-1, 0, 1, 2, 3}
  /\ InitialHookSize \in Nat /\ InitialHookSize > 0 /\ MaxHooks \in Nat
  /\ PauseSufficient \in BOOLEAN

VARIABLES
  sy_call,      \* the table entry: System or the argument of a prologue
  mutex,        \* owner of ps4KernelSystemCallHookMutex
  memory,       \* of each argument: "unused", "live" or "freed"
  entryCount, lock, hook, hookType, hookCount, originalCall,   \* its fields
  pc, carg,     \* callers, and the argument whose prologue they run
  nested,       \* the caller came there from the handler of a newer hook
  ccount, coriginal, csize, cfrom, chook, ctype,   \* their clones
  opc, oarg, ohook, otype, rax                     \* operators

arrays == <<hook, hookType, hookCount>>
fields == <<memory, entryCount, lock, arrays, originalCall>>
clones == <<ccount, coriginal, csize, cfrom, chook, ctype>>
callers == <<pc, carg, nested, clones>>
operators == <<opc, oarg, ohook, otype, rax>>
vars == <<sy_call, mutex, fields, callers, operators>>

Zeroes(zero, n) == [i \in 1..n |-> zero]

Init ==
  /\ sy_call = System /\ mutex = NULL
  /\ memory = [a \in Args |-> "unused"]
  /\ entryCount = [a \in Args |-> 0] /\ lock = [a \in Args |-> 0]
  /\ hook = [a \in Args |-> <<>>] /\ hookType = [a \in Args |-> <<>>]
  /\ hookCount = [a \in Args |-> 0] /\ originalCall = [a \in Args |-> NULL]
  /\ pc = [c \in Callers |-> "out"] /\ carg = [c \in Callers |-> NULL]
  /\ nested = [c \in Callers |-> FALSE]
  /\ ccount = [c \in Callers |-> 0] /\ coriginal = [c \in Callers |-> NULL]
  /\ csize = [c \in Callers |-> 0] /\ cfrom = [c \in Callers |-> 0]
  /\ chook = [c \in Callers |-> <<>>] /\ ctype = [c \in Callers |-> <<>>]
  /\ opc = [o \in Operators |-> "idle"] /\ oarg = [o \in Operators |-> NULL]
  /\ ohook = [o \in Operators |-> NULL] /\ otype = [o \in Operators |-> 0]
  /\ rax = [o \in Operators |-> 0]

-----------------------------------------------------------------------------
(* Callers.  One that uses a freed argument is at "freed"; one that copies *)
(* arrays HookAdd has freed is at "stale", and one that copies more cells  *)
(* than it has allocated is at "overrun".                                  *)

CGoto(c, from, to) == pc[c] = from /\ pc' = [pc EXCEPT ![c] = to]

CallerFrame == UNCHANGED <<sy_call, mutex, memory, arrays, originalCall, operators>>

Alive(c) == memory[carg[c]] = "live"

(* The dispatcher loads sy_call and calls it.                              *)
Call(c) ==
  /\ sy_call # System /\ CGoto(c, "out", "enter")
  /\ carg' = [carg EXCEPT ![c] = sy_call]
  /\ CallerFrame /\ UNCHANGED <<entryCount, lock, nested, clones>>

RunSystem(c) == pc[c] = "out" /\ sy_call = System /\ UNCHANGED vars

Enter(c) ==
  /\ CGoto(c, "enter", "spin") /\ Alive(c)
  /\ entryCount' = [entryCount EXCEPT ![carg[c]] = @ + 1]
  /\ CallerFrame /\ UNCHANGED <<lock, carg, nested, clones>>

Spin(c) ==
  /\ pc[c] = "spin" /\ Alive(c)
  /\ CGoto(c, "spin", IF lock[carg[c]] = 0 THEN "struct" ELSE "spin")
  /\ lock' = [lock EXCEPT ![carg[c]] = 1]
  /\ CallerFrame /\ UNCHANGED <<entryCount, carg, nested, clones>>

-----------------------------------------------------------------------------
(* ps4PayloadSystemCallHookArgumentClone copies the argument, then reads   *)
(* its size to allocate an array and its size and pointer again to copy    *)
(* it, for each of the two arrays.                                         *)

CloneStruct(c) ==
  /\ CGoto(c, "struct", "alloc_hook") /\ Alive(c)
  /\ ccount' = [ccount EXCEPT ![c] = hookCount[carg[c]]]
  /\ coriginal' = [coriginal EXCEPT ![c] = originalCall[carg[c]]]
  /\ CallerFrame /\ UNCHANGED <<entryCount, lock, carg, nested, csize, cfrom, chook, ctype>>

CloneAllocate(c) ==
  /\ CGoto(c, "alloc_hook", "read_hook") \/ CGoto(c, "alloc_type", "read_type")
  /\ Alive(c)
  /\ csize' = [csize EXCEPT ![c] = Len(hook[carg[c]])]
  /\ CallerFrame
  /\ UNCHANGED <<entryCount, lock, carg, nested, ccount, coriginal, cfrom, chook, ctype>>

(* A clone that is freed, or whose caller is lost, is not read again.      *)
DropClone(c) ==
  /\ ccount' = [ccount EXCEPT ![c] = 0] /\ coriginal' = [coriginal EXCEPT ![c] = NULL]
  /\ csize' = [csize EXCEPT ![c] = 0] /\ cfrom' = [cfrom EXCEPT ![c] = 0]
  /\ chook' = [chook EXCEPT ![c] = <<>>] /\ ctype' = [ctype EXCEPT ![c] = <<>>]

(* An operator has freed the arrays and not yet replaced them.             *)
Replacing(a) == \E o \in Operators : opc[o] = "swap" /\ oarg[o] = a

CloneRead(c) ==
  /\ CGoto(c, "read_hook", "copy_hook") \/ CGoto(c, "read_type", "copy_type")
  /\ Alive(c)
  /\ cfrom' = [cfrom EXCEPT ![c] = Len(hook[carg[c]])]
  /\ CallerFrame
  /\ UNCHANGED <<entryCount, lock, carg, nested, ccount, coriginal, csize, chook, ctype>>

SameArrays(c) == Len(hook[carg[c]]) = cfrom[c] /\ ~Replacing(carg[c])

(* The cells that hooks may be added to meanwhile are behind hookCount.    *)
CloneHook(c) ==
  /\ pc[c] = "copy_hook" /\ Alive(c) /\ SameArrays(c) /\ cfrom[c] <= csize[c]
  /\ CGoto(c, "copy_hook", "alloc_type")
  /\ chook' = [chook EXCEPT ![c] = hook[carg[c]]]
  /\ csize' = [csize EXCEPT ![c] = 0] /\ cfrom' = [cfrom EXCEPT ![c] = 0]
  /\ CallerFrame
  /\ UNCHANGED <<entryCount, lock, carg, nested, ccount, coriginal, ctype>>

CloneType(c) ==
  /\ pc[c] = "copy_type" /\ Alive(c) /\ SameArrays(c) /\ cfrom[c] <= csize[c]
  /\ CGoto(c, "copy_type", "leave")
  /\ ctype' = [ctype EXCEPT ![c] = hookType[carg[c]]]
  /\ csize' = [csize EXCEPT ![c] = 0] /\ cfrom' = [cfrom EXCEPT ![c] = 0]
  /\ CallerFrame
  /\ UNCHANGED <<entryCount, lock, carg, nested, ccount, coriginal, chook>>

CloneWrong(c) ==
  /\ pc[c] \in {"copy_hook", "copy_type"} /\ Alive(c)
  /\ \/ ~SameArrays(c) /\ pc' = [pc EXCEPT ![c] = "stale"]
     \/ cfrom[c] > csize[c] /\ pc' = [pc EXCEPT ![c] = "overrun"]
  /\ DropClone(c) /\ CallerFrame /\ UNCHANGED <<entryCount, lock, carg, nested>>
-----------------------------------------------------------------------------
Leave(c) ==
  /\ CGoto(c, "leave", "unlock") /\ Alive(c)
  /\ entryCount' = [entryCount EXCEPT ![carg[c]] = @ - 1]
  /\ CallerFrame /\ UNCHANGED <<lock, carg, nested, clones>>

(* Mutant: the word stays set.                                             *)
UnlockForgotten(c) ==
  /\ CGoto(c, "unlock", "jump") /\ Alive(c)
  /\ CallerFrame /\ UNCHANGED <<entryCount, lock, carg, nested, clones>>

Unlock(c) ==
  /\ CGoto(c, "unlock", "jump") /\ Alive(c)
  /\ lock' = [lock EXCEPT ![carg[c]] = 0]
  /\ CallerFrame /\ UNCHANGED <<entryCount, carg, nested, clones>>

(* The jump to the handler is the last instruction of the prologue.        *)
JumpToHandler(c) ==
  /\ CGoto(c, "jump", "handler") /\ Alive(c)
  /\ CallerFrame /\ UNCHANGED <<entryCount, lock, carg, nested, clones>>

(* The handler works on the clone alone (SystemCallHookHandler).  A call   *)
(* of originalCall that is an older prologue is followed there.            *)
Handler(c) ==
  /\ \/ /\ CGoto(c, "handler", "out")
        /\ carg' = [carg EXCEPT ![c] = NULL] /\ nested' = [nested EXCEPT ![c] = FALSE]
     \/ /\ coriginal[c] # System /\ CGoto(c, "handler", "enter")
        /\ carg' = [carg EXCEPT ![c] = coriginal[c]]
        /\ nested' = [nested EXCEPT ![c] = TRUE]
  /\ DropClone(c) /\ CallerFrame /\ UNCHANGED <<entryCount, lock>>

(* Where a caller runs the prologue or uses the argument.                  *)
Counted == {"spin", "struct", "alloc_hook", "read_hook", "copy_hook", "alloc_type",
            "read_type", "copy_type", "leave"}

UseFreed(c) ==
  /\ pc[c] \in Counted \cup {"enter", "unlock", "jump"} /\ ~Alive(c)
  /\ pc' = [pc EXCEPT ![c] = "freed"]
  /\ carg' = [carg EXCEPT ![c] = NULL] /\ nested' = [nested EXCEPT ![c] = FALSE]
  /\ DropClone(c) /\ CallerFrame /\ UNCHANGED <<entryCount, lock>>

Caller(c) ==
  \/ Enter(c) \/ Spin(c) \/ CloneStruct(c) \/ CloneAllocate(c) \/ CloneRead(c)
  \/ CloneHook(c) \/ CloneType(c) \/ CloneWrong(c) \/ Leave(c) \/ Unlock(c)
  \/ JumpToHandler(c) \/ Handler(c) \/ UseFreed(c)

-----------------------------------------------------------------------------
(* Operators.  A handle is passed on only while its hook is live and no    *)
(* thread destroys it, and stacked hooks are destroyed last one first: the *)
(* code cannot check either.                                               *)

OGoto(o, from, to) == opc[o] = from /\ opc' = [opc EXCEPT ![o] = to]

OperatorFrame == UNCHANGED callers

Start(o, to, a, h, ty) ==
  /\ OGoto(o, "idle", to)
  /\ oarg' = [oarg EXCEPT ![o] = a]
  /\ ohook' = [ohook EXCEPT ![o] = h] /\ otype' = [otype EXCEPT ![o] = ty]
  /\ OperatorFrame /\ UNCHANGED <<sy_call, mutex, fields, rax>>

Creating == {o \in Operators : opc[o] \in {"create_lock", "build", "publish"}}

StartCreate(o) ==
  /\ Cardinality({a \in Args : memory[a] = "unused"}) > Cardinality(Creating)
  /\ \A q \in Operators : opc[q] \notin {"destroy_lock", "restore"}
  /\ Start(o, "create_lock", NULL, NULL, 0)

Adding(a) == {o \in Operators : ohook[o] # NULL /\ oarg[o] = a}

HandleValid(a) ==
  memory[a] = "live" /\ \A o \in Operators : oarg[o] = a => ohook[o] # NULL

(* The hooks that are in a list or about to be: what MaxHooks bounds.      *)
Added ==
  {o \in Operators : ohook[o] # NULL} \cup UNION {{<<a, i>> : i \in 1..hookCount[a]} : a \in Args}

StartAdd(o) ==
  \E a \in Args, h \in Hooks, ty \in Types :
    /\ HandleValid(a) /\ Cardinality(Added) < MaxHooks
    /\ Start(o, "add_lock", a, h, ty)

StartDestroy(o) ==
  \E a \in Args :
    /\ sy_call = a /\ HandleValid(a) /\ Adding(a) = {} /\ Creating = {}
    /\ Start(o, "destroy_lock", a, NULL, 0)

LockIn(o) ==
  /\ \/ OGoto(o, "create_lock", "build")
     \/ OGoto(o, "add_lock", "grow")
     \/ OGoto(o, "destroy_lock", "restore")
  /\ mutex = NULL /\ mutex' = o
  /\ OperatorFrame /\ UNCHANGED <<sy_call, fields, oarg, ohook, otype, rax>>

UnlockMutex(o) ==
  /\ OGoto(o, "unlock", "idle") /\ mutex' = NULL
  /\ oarg' = [oarg EXCEPT ![o] = NULL]
  /\ ohook' = [ohook EXCEPT ![o] = NULL] /\ otype' = [otype EXCEPT ![o] = 0]
  /\ rax' = [rax EXCEPT ![o] = 0]
  /\ OperatorFrame /\ UNCHANGED <<sy_call, fields>>

(* ps4KernelSystemCallHookCreate                                           *)
CreateBuild(o) ==
  /\ OGoto(o, "build", "publish")
  /\ \E a \in Args :
       /\ memory[a] = "unused" /\ memory' = [memory EXCEPT ![a] = "live"]
       /\ oarg' = [oarg EXCEPT ![o] = a]
       /\ hook' = [hook EXCEPT ![a] = Zeroes(NULL, InitialHookSize)]
       /\ hookType' = [hookType EXCEPT ![a] = Zeroes(0, InitialHookSize)]
       /\ originalCall' = [originalCall EXCEPT ![a] = sy_call]
  /\ OperatorFrame
  /\ UNCHANGED <<sy_call, mutex, entryCount, lock, hookCount, ohook, otype, rax>>

CreatePublish(o) ==
  /\ OGoto(o, "publish", "unlock") /\ sy_call' = oarg[o]
  /\ OperatorFrame /\ UNCHANGED <<mutex, fields, oarg, ohook, otype, rax>>
-----------------------------------------------------------------------------
(* ps4KernelSystemCallHookAdd                                              *)

(* The mutex-protected writes of one operator, apart from the lock word.   *)
AddFrame ==
  /\ OperatorFrame
  /\ UNCHANGED <<sy_call, mutex, memory, entryCount, lock, originalCall, oarg, ohook,
                 otype, rax>>

Grow(o) ==
  /\ OGoto(o, "grow", IF hookCount[oarg[o]] >= Len(hook[oarg[o]]) THEN "swap" ELSE "put_hook")
  /\ AddFrame /\ UNCHANGED arrays

(* The arrays have been freed; those of double size take their place.      *)
Swap(o) ==
  LET a == oarg[o]
  IN /\ OGoto(o, "swap", "put_hook")
     /\ hook' = [hook EXCEPT ![a] = @ \o Zeroes(NULL, Len(@))]
     /\ hookType' = [hookType EXCEPT ![a] = @ \o Zeroes(0, Len(@))]
     /\ AddFrame /\ UNCHANGED hookCount

PutHook(o) ==
  LET a == oarg[o]
  IN /\ OGoto(o, "put_hook", "put_type")
     /\ hook' = [hook EXCEPT ![a][hookCount[a] + 1] = ohook[o]]
     /\ AddFrame /\ UNCHANGED <<hookType, hookCount>>

(* Mutant: the count is raised with the type still to be written.          *)
PutTypeLate(o) ==
  LET a == oarg[o]
  IN /\ OGoto(o, "put_type", "put_count")
     /\ hookCount' = [hookCount EXCEPT ![a] = @ + 1]
     /\ AddFrame /\ UNCHANGED <<hook, hookType>>

PutType(o) ==
  LET a == oarg[o]
  IN /\ OGoto(o, "put_type", "put_count")
     /\ hookType' = [hookType EXCEPT ![a][hookCount[a] + 1] = otype[o]]
     /\ AddFrame /\ UNCHANGED <<hook, hookCount>>

PutCount(o) ==
  /\ OGoto(o, "put_count", "unlock")
  /\ hookCount' = [hookCount EXCEPT ![oarg[o]] = @ + 1]
  /\ AddFrame /\ UNCHANGED <<hook, hookType>>

-----------------------------------------------------------------------------
(* ps4KernelSystemCallHookDestroy                                          *)

DestroyFrame ==
  /\ OperatorFrame
  /\ UNCHANGED <<mutex, arrays, originalCall, oarg, ohook, otype>>

(* Mutant: the table keeps the prologue.                                   *)
RestoreNothing(o) ==
  /\ OGoto(o, "restore", "pause")
  /\ DestroyFrame /\ UNCHANGED <<sy_call, memory, entryCount, lock, rax>>

Restore(o) ==
  /\ OGoto(o, "restore", "pause")
  /\ sy_call' = originalCall[oarg[o]]
  /\ DestroyFrame /\ UNCHANGED <<memory, entryCount, lock, rax>>

OnTheWayIn(a) == {c \in Callers : pc[c] = "enter" /\ carg[c] = a}

(* pause() sleeps for 100 ticks; callers that have loaded sy_call and not  *)
(* yet counted themselves are waited for by nothing else.                  *)
Pause(o) ==
  /\ OGoto(o, "pause", "load")
  /\ PauseSufficient => OnTheWayIn(oarg[o]) = {}
  /\ DestroyFrame /\ UNCHANGED <<sy_call, memory, entryCount, lock, rax>>

(* ps4AtomicSpinLock64 is a load and a store, see SpinLock.                *)
SpinLoad(o) ==
  /\ OGoto(o, "load", "store") /\ rax' = [rax EXCEPT ![o] = lock[oarg[o]]]
  /\ DestroyFrame /\ UNCHANGED <<sy_call, memory, entryCount, lock>>

SpinStore(o) ==
  /\ OGoto(o, "store", IF rax[o] = 0 THEN "poll" ELSE "load")
  /\ lock' = [lock EXCEPT ![oarg[o]] = 1]
  /\ DestroyFrame /\ UNCHANGED <<sy_call, memory, entryCount, rax>>

(* Mutant: the entry counter is not looked at.                             *)
PollOnce(o) ==
  /\ OGoto(o, "poll", "release")
  /\ DestroyFrame /\ UNCHANGED <<sy_call, memory, entryCount, lock, rax>>

Poll(o) ==
  /\ OGoto(o, "poll", IF entryCount[oarg[o]] > 0 THEN "again" ELSE "release")
  /\ DestroyFrame /\ UNCHANGED <<sy_call, memory, entryCount, lock, rax>>

SpinUnlock(o) ==
  /\ OGoto(o, "again", "pause") \/ OGoto(o, "release", "free")
  /\ lock' = [lock EXCEPT ![oarg[o]] = 0]
  /\ DestroyFrame /\ UNCHANGED <<sy_call, memory, entryCount, rax>>

(* The catch block frees arrays, prologue and argument; what the fields    *)
(* held is gone.                                                           *)
Free(o) ==
  LET a == oarg[o]
  IN /\ OGoto(o, "free", "unlock")
     /\ memory' = [memory EXCEPT ![a] = "freed"]
     /\ entryCount' = [entryCount EXCEPT ![a] = 0] /\ lock' = [lock EXCEPT ![a] = 0]
     /\ hook' = [hook EXCEPT ![a] = <<>>] /\ hookType' = [hookType EXCEPT ![a] = <<>>]
     /\ hookCount' = [hookCount EXCEPT ![a] = 0]
     /\ originalCall' = [originalCall EXCEPT ![a] = NULL]
     /\ OperatorFrame /\ UNCHANGED <<sy_call, mutex, oarg, ohook, otype, rax>>

Operator(o) ==
  \/ LockIn(o) \/ UnlockMutex(o) \/ CreateBuild(o) \/ CreatePublish(o)
  \/ Grow(o) \/ Swap(o) \/ PutHook(o) \/ PutType(o) \/ PutCount(o)
  \/ Restore(o) \/ Pause(o) \/ SpinLoad(o) \/ SpinStore(o) \/ Poll(o)
  \/ SpinUnlock(o) \/ Free(o)

StartOperation(o) == StartCreate(o) \/ StartAdd(o) \/ StartDestroy(o)

Next ==
  \/ \E c \in Callers : Call(c) \/ RunSystem(c) \/ Caller(c)
  \/ \E o \in Operators : StartOperation(o) \/ Operator(o)

Spec == Init /\ [][Next]_vars
-----------------------------------------------------------------------------
Live == {a \in Args : memory[a] = "live"}

(* Callers between the increment and the decrement of the entry counter.   *)
Window(a) ==
  {c \in Callers : carg[c] = a /\ pc[c] \in Counted \cup {"stale", "overrun"}}

(* If the pause is long enough for the callers that loaded sy_call, no     *)
(* caller that came through the table is on its way into the prologue of a *)
(* freed hook, or between the counter's increment and its decrement.       *)
PrologueOnLiveArgument ==
  PauseSufficient =>
    \A a \in Args : \A c \in OnTheWayIn(a) \cup Window(a) : nested[c] \/ a \in Live

(* HookAdd fills and replaces the arrays under the eyes of the cloning     *)
(* callers, yet the count a clone holds never exceeds its arrays, and each *)
(* of the hooks it counts is there with its type.                          *)
CloneComplete ==
  \A c \in Callers : pc[c] = "handler" =>
    /\ ccount[c] <= Len(chook[c]) /\ ccount[c] <= Len(ctype[c])
    /\ \A i \in 1..ccount[c] :
         /\ chook[c][i] # NULL
         /\ carg[c] \in Live => /\ chook[c][i] = hook[carg[c]][i]
                               /\ ctype[c][i] = hookType[carg[c]][i]

(* Between operations the table entry leads through all live hooks, each   *)
(* once, to the system call: no hook is lost and none that is freed is     *)
(* left in the way.                                                        *)
ChainOfLive ==
  mutex = NULL =>
    /\ sy_call \in Live \cup {System}
    /\ \A a \in Live : originalCall[a] \in Live \cup {System}
    /\ \A a \in Live \cup {System} :
         Cardinality({b \in Live : originalCall[b] = a}) = (IF sy_call = a THEN 0 ELSE 1)

(* The lock word of a hook is set by a caller in its prologue, or by       *)
(* HookDestroy, which may be spinning on a word it has set itself over a   *)
(* release.  As long as nobody destroys the hook, no call finds the word   *)
(* set for ever.                                                           *)
LockWordAccounted ==
  \A a \in Live :
    lock[a] = 1 =>
      \/ \E c \in Callers :
           carg[c] = a /\ pc[c] \in (Counted \ {"spin"}) \cup {"unlock", "stale", "overrun"}
      \/ \E o \in Operators :
           oarg[o] = a /\ opc[o] \in {"load", "store", "poll", "again", "release"}
=============================================================================
