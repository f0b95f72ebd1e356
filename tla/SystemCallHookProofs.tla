------------------------ MODULE SystemCallHookProofs ------------------------
(***************************************************************************)
(* Proofs about SystemCallHook for every number of callers, operators,     *)
(* arguments and hooks: the chain of stacked hooks, the arrays HookAdd     *)
(* fills and replaces, the clones callers make of them meanwhile, the lock *)
(* word, and what HookDestroy may free.                                    *)
(***************************************************************************)
EXTENDS SystemCallHook, TLAPS

OutsidePcs == {"idle", "create_lock", "add_lock", "destroy_lock"}
AddPcs == {"add_lock", "grow", "swap", "put_hook", "put_type", "put_count"}
DrainPcs == {"pause", "load", "store", "poll", "again", "release", "free"}
DestroyPcs == {"destroy_lock", "restore"} \cup DrainPcs
OperatorPcs ==
  {"idle", "create_lock", "build", "publish", "unlock"} \cup AddPcs \cup DestroyPcs

(* What an operator at each place holds in its hands.                      *)
Holds(o) ==
  /\ opc[o] \in {"idle", "create_lock", "build"} => oarg[o] = NULL /\ ohook[o] = NULL
  /\ opc[o] \in AddPcs => oarg[o] \in Live /\ ohook[o] # NULL
  /\ opc[o] \in DestroyPcs \cup {"publish"} => oarg[o] \in Live /\ ohook[o] = NULL
  /\ oarg[o] # NULL => memory[oarg[o]] # "unused"
  /\ opc[o] \notin OutsidePcs <=> mutex = o

(* Only operators that add share a handle; no hook is created between the  *)
(* choice of the newest hook for destruction and its removal.              *)
Apart(o, p) ==
  /\ oarg[o] # NULL /\ oarg[o] = oarg[p] => ohook[o] # NULL
  /\ ~(o \in Creating /\ opc[p] \in {"destroy_lock", "restore"})

ControlInv ==
  /\ opc \in [Operators -> OperatorPcs]
  /\ oarg \in [Operators -> Args \cup {NULL}]
  /\ ohook \in [Operators -> Hooks \cup {NULL}]
  /\ memory \in [Args -> {"unused", "live", "freed"}]
  /\ mutex \in Operators \cup {NULL}
  /\ \A o \in Operators : Holds(o)
  /\ \A o, p \in Operators : o # p => Apart(o, p)

(* The arguments that the table leads through: those that are live, apart  *)
(* from one that is not yet, or no longer, in the chain.                   *)
Chained ==
  {a \in Live : \A o \in Operators : opc[o] \in DrainPcs \cup {"publish"} => oarg[o] # a}

(* A caller finds sy_call, from there every hook in the chain exactly      *)
(* once, and the system call at the end.                                   *)
Linked(x) ==
  /\ sy_call = x => \A b \in Chained : originalCall[b] # x
  /\ sy_call # x => \E b \in Chained : \A d \in Chained : originalCall[d] = x <=> d = b

ChainInv ==
  /\ originalCall \in [Args -> Args \cup {System, NULL}]
  /\ sy_call \in Chained \cup {System}
  /\ \A a \in Live : /\ originalCall[a] \in Args \cup {System}
                     /\ originalCall[a] \in Args => memory[originalCall[a]] # "unused"
  /\ \A a \in Chained : originalCall[a] \in Chained \cup {System}
  /\ \A x \in Chained \cup {System} : Linked(x)
  /\ \A o \in Operators :
       /\ opc[o] = "publish" => originalCall[oarg[o]] = sy_call
       /\ opc[o] \in {"destroy_lock", "restore"} => sy_call = oarg[o]

-----------------------------------------------------------------------------
UsePcs == Counted \cup {"enter", "unlock", "jump", "handler", "stale", "overrun"}
CallerPcs == UsePcs \cup {"out", "freed"}
ClonePcs == {"alloc_hook", "read_hook", "copy_hook", "alloc_type", "read_type",
             "copy_type", "leave", "unlock", "jump", "handler"}

(* Callers use arguments that have been allocated, and go on from there to *)
(* such arguments.                                                         *)
UseInv ==
  /\ pc \in [Callers -> CallerPcs] /\ carg \in [Callers -> Args \cup {NULL}]
  /\ coriginal \in [Callers -> Args \cup {System, NULL}]
  /\ \A c \in Callers :
       /\ pc[c] \in UsePcs => carg[c] \in Args /\ memory[carg[c]] # "unused"
       /\ pc[c] \in ClonePcs => coriginal[c] # NULL
       /\ coriginal[c] \in Args => memory[coriginal[c]] # "unused"

(* What is not live has its lock word cleared.                             *)
WordInv ==
  /\ lock \in [Args -> {0, 1}]
  /\ \A a \in Args \ Live : lock[a] = 0
  /\ LockWordAccounted

(* Who is on the way into the prologue of a, or inside it, came there from *)
(* the handler of a newer hook.                                            *)
Settled(a) == \A c \in OnTheWayIn(a) : nested[c]
Quiet(a) == \A c \in Window(a) : nested[c]

(* The counter tells who is inside a live prologue.                        *)
CountInv ==
  /\ nested \in [Callers -> BOOLEAN] /\ entryCount \in [Args -> Nat]
  /\ \A a \in Args : memory[a] # "freed" => entryCount[a] = Cardinality(Window(a))

(* A destroyer that has paused, and one that has then seen the counter at  *)
(* zero, knows who can still come.                                         *)
DrainInv ==
  PauseSufficient =>
    /\ \A o \in Operators :
         /\ opc[o] \in DrainPcs \ {"pause"} => Settled(oarg[o])
         /\ opc[o] \in {"release", "free"} => Quiet(oarg[o])
    /\ \A a \in Args : memory[a] = "freed" => Settled(a) /\ Quiet(a)

-----------------------------------------------------------------------------
(* A caller's step leaves the operators, the table and the arrays alone.   *)
LEMMA CallerStep ==
  ASSUME NEW c \in Callers, Call(c) \/ RunSystem(c) \/ Caller(c)
  PROVE  CallerFrame
  BY Zenon DEF Call, RunSystem, Caller, Enter, Spin, CloneStruct, CloneAllocate, CloneRead,
         CloneHook, CloneType, CloneWrong, Leave, Unlock, JumpToHandler, Handler, UseFreed,
         CallerFrame, vars, fields, operators, arrays

(* A step of an operation that holds the mutex and neither takes nor frees *)
(* an argument.                                                            *)
Work(o) ==
  \/ CreatePublish(o) \/ Grow(o) \/ Swap(o) \/ PutHook(o) \/ PutType(o) \/ PutCount(o)
  \/ Restore(o) \/ Pause(o) \/ SpinLoad(o) \/ SpinStore(o) \/ Poll(o) \/ SpinUnlock(o)

(* Such a step moves one operator along within its operation.              *)
LEMMA WorkMoves ==
  ASSUME ControlInv, NEW o \in Operators, Work(o)
  PROVE  /\ UNCHANGED <<mutex, memory, originalCall, oarg, ohook, callers>>
         /\ \/ CreatePublish(o) \/ Restore(o)
            \/ sy_call' = sy_call /\ opc[o] \notin {"publish", "restore"}
         /\ opc' = [opc EXCEPT ![o] = opc'[o]]
         /\ \/ opc[o] = "publish" /\ opc'[o] = "unlock"
            \/ opc[o] \in AddPcs \ OutsidePcs /\ opc'[o] \in (AddPcs \ OutsidePcs) \cup {"unlock"}
            \/ opc[o] \in DrainPcs \cup {"restore"} /\ opc'[o] \in DrainPcs
<1> USE DEF ControlInv, OGoto, OperatorFrame, AddFrame, DestroyFrame, fields, AddPcs,
            DrainPcs, OutsidePcs
<1>1. CASE CreatePublish(o)
  BY Zenon, <1>1 DEF CreatePublish
<1>2. CASE Grow(o)
  BY Zenon, <1>2 DEF Grow
<1>3. CASE Swap(o)
  BY Zenon, <1>3 DEF Swap
<1>4. CASE PutHook(o)
  BY Zenon, <1>4 DEF PutHook
<1>5. CASE PutType(o)
  BY Zenon, <1>5 DEF PutType
<1>6. CASE PutCount(o)
  BY Zenon, <1>6 DEF PutCount
<1>7. CASE Restore(o)
  BY Zenon, <1>7 DEF Restore
<1>8. CASE Pause(o)
  BY Zenon, <1>8 DEF Pause
<1>9. CASE SpinLoad(o)
  BY Zenon, <1>9 DEF SpinLoad
<1>10. CASE SpinStore(o)
  BY Zenon, <1>10 DEF SpinStore
<1>11. CASE Poll(o)
  BY Zenon, <1>11 DEF Poll
<1>12. CASE SpinUnlock(o)
  BY Zenon, <1>12 DEF SpinUnlock
<1> QED
  BY Zenon, <1>1, <1>2, <1>3, <1>4, <1>5, <1>6, <1>7, <1>8, <1>9, <1>10, <1>11, <1>12 DEF Work

(* ControlInv is inductive.                                                *)
LEMMA ControlInductive == ControlInv /\ [Next]_vars => ControlInv'
<1> SUFFICES ASSUME ControlInv, [Next]_vars PROVE ControlInv'
  BY Zenon
<1> USE ConstantsAssumption DEF OutsidePcs, AddPcs, DrainPcs, DestroyPcs, OperatorPcs, Live
<1>1. CASE UNCHANGED vars
  BY Zenon, <1>1 DEF ControlInv, Holds, Apart, Creating, vars, operators, fields
<1>2. ASSUME NEW c \in Callers, Call(c) \/ RunSystem(c) \/ Caller(c) PROVE ControlInv'
  <2>1. UNCHANGED <<mutex, memory, opc, oarg, ohook>>
    BY Zenon, <1>2, CallerStep DEF CallerFrame, operators
  <2> QED
    BY Zenon, <2>1 DEF ControlInv, Holds, Apart, Creating
<1>3. ASSUME NEW o \in Operators, StartOperation(o) PROVE ControlInv'
  <2>1. PICK place \in {"create_lock", "add_lock", "destroy_lock"},
             a \in Args \cup {NULL}, h \in Hooks \cup {NULL} :
          /\ opc[o] = "idle" /\ opc' = [opc EXCEPT ![o] = place]
          /\ oarg' = [oarg EXCEPT ![o] = a] /\ ohook' = [ohook EXCEPT ![o] = h]
          /\ UNCHANGED <<mutex, memory>>
          /\ \/ /\ place = "create_lock" /\ a = NULL /\ h = NULL
                /\ \A q \in Operators : opc[q] \notin {"destroy_lock", "restore"}
             \/ /\ place = "add_lock" /\ h # NULL /\ HandleValid(a) /\ a # NULL
             \/ /\ place = "destroy_lock" /\ a # NULL /\ h = NULL
                /\ HandleValid(a) /\ Adding(a) = {} /\ Creating = {}
    <3>1. CASE StartCreate(o)
      BY Zenon, <3>1 DEF StartCreate, Start, OGoto, fields
    <3>2. CASE StartAdd(o)
      BY Zenon, <3>2 DEF StartAdd, Start, OGoto, fields
    <3>3. CASE StartDestroy(o)
      BY Zenon, <3>3 DEF StartDestroy, Start, OGoto, fields
    <3> QED
      BY Zenon, <1>3, <3>1, <3>2, <3>3 DEF StartOperation
  <2>2. ASSUME NEW p \in Operators PROVE Holds(p)'
    <3>1. Holds(p)
      BY Zenon DEF ControlInv
    <3>2. CASE p # o
      <4>1. opc'[p] = opc[p] /\ oarg'[p] = oarg[p] /\ ohook'[p] = ohook[p]
        BY Zenon, <2>1, <3>2 DEF ControlInv
      <4> QED
        BY Zenon, <2>1, <3>1, <4>1 DEF Holds
    <3>3. CASE p = o
      <4>1. /\ opc'[o] = place /\ oarg'[o] = a /\ ohook'[o] = h
            /\ a # NULL => a \in Live /\ memory[a] # "unused"
        BY Zenon, <2>1 DEF ControlInv, HandleValid
      <4>2. mutex # o
        BY Zenon, <2>1, <3>1, <3>3 DEF Holds
      <4> QED
        BY Zenon, <2>1, <3>3, <4>1, <4>2 DEF Holds
    <3> QED
      BY Zenon, <3>2, <3>3
  <2>3. ASSUME NEW p \in Operators, NEW q \in Operators, p # q PROVE Apart(p, q)'
    BY Zenon, <2>1, <2>3 DEF ControlInv, Apart, HandleValid, Adding, Creating
  <2> QED
    BY Zenon, <2>1, <2>2, <2>3 DEF ControlInv
<1>4. ASSUME NEW o \in Operators, Work(o) PROVE ControlInv'
  BY <1>4, WorkMoves DEF ControlInv, Holds, Apart, Creating
<1>5. ASSUME NEW o \in Operators, LockIn(o) PROVE ControlInv'
  BY <1>5 DEF LockIn, OGoto, fields, ControlInv, Holds, Apart, Creating
<1>6. ASSUME NEW o \in Operators, UnlockMutex(o) PROVE ControlInv'
  BY <1>6 DEF UnlockMutex, OGoto, fields, ControlInv, Holds, Apart, Creating
<1>7. ASSUME NEW o \in Operators, CreateBuild(o) PROVE ControlInv'
  BY <1>7 DEF CreateBuild, OGoto, ControlInv, Holds, Apart, Creating
<1>8. ASSUME NEW o \in Operators, Free(o) PROVE ControlInv'
  BY <1>8 DEF Free, OGoto, ControlInv, Holds, Apart, Creating
<1> QED
  BY Zenon, <1>1, <1>2, <1>3, <1>4, <1>5, <1>6, <1>7, <1>8 DEF Next, Operator, Work

-----------------------------------------------------------------------------
PendingPcs == DrainPcs \cup {"publish"}

(* Steps that leave the table and the pending operations alone.            *)
LEMMA ChainKept ==
  ASSUME ChainInv, UNCHANGED <<sy_call, memory, originalCall>>,
         \A o \in Operators :
           /\ opc'[o] \in PendingPcs <=> opc[o] \in PendingPcs
           /\ opc'[o] \in PendingPcs => oarg'[o] = oarg[o]
           /\ opc'[o] = "publish" => opc[o] = "publish"
           /\ opc'[o] \in {"destroy_lock", "restore"} => sy_call = oarg'[o]
  PROVE  ChainInv'
<1>1. Chained' = Chained
  BY Zenon DEF Chained, Live, PendingPcs
<1>2. \A x : Linked(x)' <=> Linked(x)
  BY Zenon, <1>1 DEF Linked
<1>3. \A o \in Operators : opc'[o] = "publish" => originalCall'[oarg'[o]] = sy_call'
  BY Zenon DEF ChainInv, PendingPcs
<1> QED
  BY Zenon, <1>1, <1>2, <1>3 DEF ChainInv, Live

(* The argument of an operation that is pending, or that destroys, is that *)
(* operation's alone.                                                      *)
LEMMA OwnArgument ==
  ASSUME ControlInv, NEW o \in Operators, opc[o] \in DestroyPcs \cup {"publish"}
  PROVE  /\ oarg[o] \in Live /\ oarg[o] \in Args /\ oarg[o] # System
         /\ \A p \in Operators : p # o => oarg[p] # oarg[o]
  BY Zenon, ConstantsAssumption DEF ControlInv, Holds, Apart, Live

(* HookCreate puts its argument at the head of the chain.                  *)
LEMMA PublishLinks ==
  ASSUME ControlInv, ChainInv, NEW o \in Operators, CreatePublish(o)
  PROVE  ChainInv'
<1> DEFINE a == oarg[o]
<1>1. /\ opc[o] = "publish" /\ opc' = [opc EXCEPT ![o] = "unlock"] /\ sy_call' = a
      /\ UNCHANGED <<memory, originalCall, oarg, ohook>> /\ originalCall[a] = sy_call
      /\ opc \in [Operators -> OperatorPcs]
  BY Zenon DEF CreatePublish, OGoto, fields, ChainInv, ControlInv
<1>2. a \in Live /\ a \notin Chained /\ a # System
  BY Zenon, <1>1, OwnArgument DEF Chained
<1>3. Chained' = Chained \cup {a}
  <2>1. Live' = Live
    BY Zenon, <1>1 DEF Live
  <2>2. \A p \in Operators : p # o => oarg[p] # a
    BY Zenon, <1>1, OwnArgument
  <2> QED
    BY Zenon, <1>1, <1>2, <2>1, <2>2 DEF Chained, DrainPcs
<1>4. ASSUME NEW x \in Chained \cup {a, System} PROVE Linked(x)'
  <2>1. CASE x = a
    BY <1>1, <1>2, <1>3, <2>1 DEF Linked, ChainInv
  <2>2. CASE x # a /\ sy_call = x
    BY ZenonT(60), <1>1, <1>2, <1>3, <2>2 DEF Linked, ChainInv
  <2>3. CASE x # a /\ sy_call # x
    <3>1. PICK b \in Chained : \A d \in Chained : originalCall[d] = x <=> d = b
      BY Zenon, <2>3, <1>4 DEF ChainInv, Linked
    <3> QED
      BY <1>1, <1>2, <1>3, <2>3, <3>1 DEF Linked
  <2> QED
    BY Zenon, <2>1, <2>2, <2>3
<1>5. ASSUME NEW p \in Operators
      PROVE  opc'[p] \notin {"publish", "destroy_lock", "restore"}
  BY Zenon, <1>1 DEF ControlInv, Holds, Apart, Creating, OutsidePcs
<1> QED
  BY Zenon, <1>1, <1>2, <1>3, <1>4, <1>5 DEF ChainInv, Live

(* HookDestroy takes its argument off the head of the chain.               *)
LEMMA RestoreUnlinks ==
  ASSUME ControlInv, ChainInv, NEW o \in Operators, Restore(o)
  PROVE  ChainInv'
<1> DEFINE a == oarg[o]
<1>1. /\ opc[o] = "restore" /\ opc' = [opc EXCEPT ![o] = "pause"]
      /\ sy_call = a /\ sy_call' = originalCall[a]
      /\ UNCHANGED <<memory, originalCall, oarg, ohook>>
      /\ opc \in [Operators -> OperatorPcs]
  BY Zenon DEF Restore, OGoto, DestroyFrame, ChainInv, ControlInv
<1>2. a \in Chained /\ a \in Live /\ a # System
  BY Zenon, <1>1, OwnArgument DEF ChainInv, DestroyPcs
<1>3. Chained' = Chained \ {a}
  <2>1. Live' = Live
    BY Zenon, <1>1 DEF Live
  <2> QED
    BY Zenon, <1>1, <1>2, <2>1 DEF Chained, DrainPcs
<1>4. \A b \in Chained : originalCall[b] # a
  BY Zenon, <1>1, <1>2 DEF ChainInv, Linked
<1>5. ASSUME NEW x \in (Chained \ {a}) \cup {System} PROVE Linked(x)'
  <2>1. PICK b \in Chained : \A d \in Chained : originalCall[d] = x <=> d = b
    BY Zenon, <1>1, <1>2, <1>5 DEF ChainInv, Linked
  <2> QED
    BY <1>1, <1>2, <1>3, <2>1 DEF Linked
<1>6. ASSUME NEW p \in Operators
      PROVE  /\ opc'[p] # "publish"
             /\ opc'[p] \in {"destroy_lock", "restore"} => FALSE
  <2>1. p # o => oarg[p] # a
    BY Zenon, <1>1, OwnArgument DEF DestroyPcs
  <2> QED
    BY Zenon, <1>1, <2>1 DEF ControlInv, Holds, Apart, OutsidePcs, ChainInv
<1> QED
  BY Zenon, <1>1, <1>2, <1>3, <1>4, <1>5, <1>6 DEF ChainInv, Live

(* ChainInv is inductive.                                                  *)
LEMMA ChainInductive == ControlInv /\ ChainInv /\ [Next]_vars => ChainInv'
<1> SUFFICES ASSUME ControlInv, ChainInv, [Next]_vars PROVE ChainInv'
  BY Zenon
<1>1. CASE UNCHANGED vars
  BY Zenon, <1>1, ChainKept DEF vars, operators, fields, ChainInv
<1>2. ASSUME NEW c \in Callers, Call(c) \/ RunSystem(c) \/ Caller(c) PROVE ChainInv'
  <2>1. UNCHANGED <<sy_call, memory, originalCall, opc, oarg>>
    BY Zenon, <1>2, CallerStep DEF CallerFrame, operators
  <2> QED
    BY Zenon, <2>1, ChainKept DEF ChainInv
<1>3. ASSUME NEW o \in Operators, StartOperation(o) PROVE ChainInv'
  <2>1. /\ UNCHANGED <<sy_call, memory, originalCall>> /\ opc[o] = "idle"
        /\ opc' = [opc EXCEPT ![o] = opc'[o]] /\ oarg' = [oarg EXCEPT ![o] = oarg'[o]]
        /\ opc'[o] \in {"create_lock", "add_lock", "destroy_lock"}
        /\ opc'[o] = "destroy_lock" => sy_call = oarg'[o]
    BY Zenon, <1>3 DEF StartOperation, StartCreate, StartAdd, StartDestroy, Start, OGoto, fields,
                ControlInv
  <2>2. ASSUME NEW p \in Operators
        PROVE  /\ opc'[p] \in PendingPcs <=> opc[p] \in PendingPcs
               /\ opc'[p] \in PendingPcs => oarg'[p] = oarg[p]
               /\ opc'[p] = "publish" => opc[p] = "publish"
               /\ opc'[p] \in {"destroy_lock", "restore"} => sy_call = oarg'[p]
    <3>1. CASE p = o
      BY Zenon, <2>1, <3>1 DEF PendingPcs, DrainPcs
    <3>2. CASE p # o
      <4>1. opc'[p] = opc[p] /\ oarg'[p] = oarg[p]
        BY Zenon, <2>1, <3>2 DEF ControlInv
      <4> QED
        BY Zenon, <4>1 DEF ChainInv
    <3> QED
      BY Zenon, <3>1, <3>2
  <2> QED
    BY Zenon, <2>1, <2>2, ChainKept
<1>4. ASSUME NEW o \in Operators, Work(o) PROVE ChainInv'
  <2>1. CASE sy_call' = sy_call /\ opc[o] \notin {"publish", "restore"}
    BY ZenonT(60), <1>4, <2>1, WorkMoves, ChainKept
       DEF ChainInv, PendingPcs, DrainPcs, AddPcs, OutsidePcs, ControlInv
  <2> QED
    BY Zenon, <1>4, <2>1, WorkMoves, PublishLinks, RestoreUnlinks
<1>5. ASSUME NEW o \in Operators, LockIn(o) \/ UnlockMutex(o) PROVE ChainInv'
  <2>1. /\ UNCHANGED <<sy_call, memory, originalCall>>
        /\ opc' = [opc EXCEPT ![o] = opc'[o]]
        /\ \/ opc[o] \in OutsidePcs /\ oarg' = oarg
           \/ opc[o] = "unlock" /\ oarg' = [oarg EXCEPT ![o] = NULL]
        /\ opc'[o] \in {"build", "grow", "restore", "idle"}
        /\ opc'[o] = "restore" => opc[o] = "destroy_lock"
    BY Zenon, <1>5 DEF LockIn, UnlockMutex, OGoto, fields, ControlInv, OutsidePcs
  <2>2. ASSUME NEW p \in Operators
        PROVE  /\ opc'[p] \in PendingPcs <=> opc[p] \in PendingPcs
               /\ opc'[p] \in PendingPcs => oarg'[p] = oarg[p]
               /\ opc'[p] = "publish" => opc[p] = "publish"
               /\ opc'[p] \in {"destroy_lock", "restore"} => sy_call = oarg'[p]
    <3>1. CASE p = o
      BY Zenon, <2>1, <3>1 DEF ChainInv, ControlInv, PendingPcs, DrainPcs, OutsidePcs
    <3>2. CASE p # o
      <4>1. opc'[p] = opc[p] /\ oarg'[p] = oarg[p]
        BY Zenon, <2>1, <3>2 DEF ControlInv
      <4> QED
        BY Zenon, <4>1 DEF ChainInv
    <3> QED
      BY Zenon, <3>1, <3>2
  <2> QED
    BY Zenon, <2>1, <2>2, ChainKept
<1>6. ASSUME NEW o \in Operators, CreateBuild(o) PROVE ChainInv'
  <2>1. PICK a \in Args :
          /\ memory[a] = "unused" /\ memory' = [memory EXCEPT ![a] = "live"]
          /\ opc[o] = "build" /\ opc' = [opc EXCEPT ![o] = "publish"]
          /\ oarg' = [oarg EXCEPT ![o] = a] /\ UNCHANGED sy_call
          /\ originalCall' = [originalCall EXCEPT ![a] = sy_call]
    BY Zenon, <1>6 DEF CreateBuild, OGoto
  <2>2. Chained' = Chained
    BY Zenon, <2>1 DEF Chained, Live, DrainPcs, ControlInv
  <2>3. a \notin Chained
    BY Zenon, <2>1 DEF Chained, Live
  <2>4. \A x : Linked(x)' <=> Linked(x)
    BY <2>1, <2>2, <2>3 DEF Linked, ChainInv, Chained, Live
  <2>5. sy_call \in Args \cup {System} /\ (sy_call \in Args => sy_call \in Live)
    BY Zenon, ConstantsAssumption DEF ChainInv, Chained, Live
  <2>6. \A p \in Operators : p # o => opc'[p] \notin {"publish", "restore", "destroy_lock"}
    BY Zenon, <2>1 DEF ControlInv, Holds, Apart, Creating, OutsidePcs
  <2> QED
    BY <2>1, <2>2, <2>3, <2>4, <2>5, <2>6 DEF ChainInv, Live, ControlInv
<1>7. ASSUME NEW o \in Operators, Free(o) PROVE ChainInv'
  <2> DEFINE a == oarg[o]
  <2>1. /\ memory' = [memory EXCEPT ![a] = "freed"] /\ a \in Args
        /\ opc[o] = "free" /\ opc' = [opc EXCEPT ![o] = "unlock"]
        /\ UNCHANGED <<sy_call, oarg>>
        /\ originalCall' = [originalCall EXCEPT ![a] = NULL]
    BY Zenon, <1>7, OwnArgument DEF Free, OGoto, DestroyPcs, DrainPcs
  <2>2. a \notin Chained
    BY Zenon, <2>1 DEF Chained, DrainPcs
  <2>3. Chained' = Chained
    BY Zenon, <2>1, <2>2 DEF Chained, Live, DrainPcs, ControlInv
  <2>4. \A x : Linked(x)' <=> Linked(x)
    BY <2>1, <2>2, <2>3 DEF Linked, ChainInv, Chained, Live
  <2>5. \A p \in Operators : opc'[p] # "publish"
    BY Zenon, <2>1 DEF ControlInv, Holds, OutsidePcs
  <2> QED
    BY <2>1, <2>2, <2>3, <2>4, <2>5 DEF ChainInv, Live, ControlInv
<1> QED
  BY Zenon, <1>1, <1>2, <1>3, <1>4, <1>5, <1>6, <1>7 DEF Next, Operator, Work

-----------------------------------------------------------------------------
(* What an operator's step does to the memory: an argument that has been   *)
(* allocated stays so, and no caller moves.                                *)
LEMMA OperatorStep ==
  ASSUME ControlInv, NEW o \in Operators, StartOperation(o) \/ Operator(o)
  PROVE  /\ UNCHANGED callers
         /\ \A a \in Args : memory[a] # "unused" => memory'[a] # "unused"
<1>1. CASE StartOperation(o)
  BY Zenon, <1>1 DEF StartOperation, StartCreate, StartAdd, StartDestroy, Start, OperatorFrame, fields
<1>2. CASE Work(o)
  BY Zenon, <1>2, WorkMoves
<1>3. CASE LockIn(o) \/ UnlockMutex(o)
  BY Zenon, <1>3 DEF LockIn, UnlockMutex, OperatorFrame, fields
<1>4. CASE CreateBuild(o) \/ Free(o)
  BY Zenon, <1>4 DEF CreateBuild, Free, OperatorFrame, ControlInv
<1> QED
  BY Zenon, <1>1, <1>2, <1>3, <1>4 DEF Operator, Work

(* A caller passes to its next place with what it has.                     *)
PassesTo(c, q) ==
  /\ q \in UsePcs /\ pc[c] \in UsePcs /\ (q \in ClonePcs => pc[c] \in ClonePcs)
  /\ pc' = [pc EXCEPT ![c] = q] /\ UNCHANGED <<carg, coriginal>>

LEMMA PassedUse ==
  ASSUME UseInv, NEW c \in Callers, NEW q, PassesTo(c, q), memory' = memory
  PROVE  UseInv'
<1>1. q \in CallerPcs
  BY Zenon DEF PassesTo, CallerPcs
<1>2. /\ pc' \in [Callers -> CallerPcs] /\ pc'[c] = q
      /\ \A d \in Callers : d # c => pc'[d] = pc[d]
  BY Zenon, <1>1 DEF PassesTo, UseInv
<1>3. carg' = carg /\ coriginal' = coriginal
  BY Zenon DEF PassesTo
<1>4. ASSUME NEW d \in Callers
      PROVE  (pc'[d] \in UsePcs => pc[d] \in UsePcs) /\ (pc'[d] \in ClonePcs => pc[d] \in ClonePcs)
  BY Zenon, <1>2 DEF PassesTo
<1> QED
  BY Zenon, <1>2, <1>3, <1>4 DEF UseInv

(* UseInv is inductive.                                                    *)
LEMMA UseInductive == ControlInv /\ ChainInv /\ UseInv /\ [Next]_vars => UseInv'
<1> SUFFICES ASSUME ControlInv, ChainInv, UseInv, [Next]_vars PROVE UseInv'
  BY Zenon
<1>1. CASE UNCHANGED vars
  BY Zenon, <1>1 DEF vars, callers, clones, fields, UseInv
<1>2. ASSUME NEW o \in Operators, StartOperation(o) \/ Operator(o) PROVE UseInv'
  <2>1. UNCHANGED <<pc, carg, coriginal>>
    BY Zenon, <1>2, OperatorStep DEF callers, clones
  <2> QED
    BY Zenon, <1>2, <2>1, OperatorStep DEF UseInv
<1>3. ASSUME NEW c \in Callers, Call(c) \/ RunSystem(c) \/ Caller(c) PROVE UseInv'
  <2> USE DEF CGoto, UsePcs, ClonePcs, CallerPcs, Counted
  <2>1. memory' = memory
    BY Zenon, <1>3, CallerStep DEF CallerFrame
  <2>2. CASE Call(c)
    <3>1. sy_call \in Args /\ memory[sy_call] # "unused"
      BY Zenon, <2>2 DEF Call, ChainInv, Chained, Live
    <3> QED
      BY Zenon, <2>1, <2>2, <3>1 DEF Call, UseInv, clones
  <2>3. CASE RunSystem(c)
    BY Zenon, <2>3, <1>1 DEF RunSystem
  <2>4. CASE Enter(c) \/ Spin(c) \/ Leave(c) \/ Unlock(c) \/ JumpToHandler(c)
    <3>1. CASE Enter(c)
      BY Zenon, <2>1, <3>1, PassedUse DEF Enter, PassesTo, clones
    <3>2. CASE Spin(c)
      BY Zenon, <2>1, <3>2, PassedUse DEF Spin, PassesTo, clones
    <3>3. CASE Leave(c)
      BY Zenon, <2>1, <3>3, PassedUse DEF Leave, PassesTo, clones
    <3>4. CASE Unlock(c)
      BY Zenon, <2>1, <3>4, PassedUse DEF Unlock, PassesTo, clones
    <3>5. CASE JumpToHandler(c)
      BY Zenon, <2>1, <3>5, PassedUse DEF JumpToHandler, PassesTo, clones
    <3> QED
      BY Zenon, <2>4, <3>1, <3>2, <3>3, <3>4, <3>5
  <2>5. CASE CloneAllocate(c) \/ CloneRead(c) \/ CloneHook(c) \/ CloneType(c)
    <3>1. CASE CloneAllocate(c)
      BY Zenon, <2>1, <3>1, PassedUse DEF CloneAllocate, PassesTo
    <3>2. CASE CloneRead(c)
      BY Zenon, <2>1, <3>2, PassedUse DEF CloneRead, PassesTo
    <3>3. CASE CloneHook(c)
      BY Zenon, <2>1, <3>3, PassedUse DEF CloneHook, PassesTo
    <3>4. CASE CloneType(c)
      BY Zenon, <2>1, <3>4, PassedUse DEF CloneType, PassesTo
    <3> QED
      BY Zenon, <2>5, <3>1, <3>2, <3>3, <3>4
  <2>6. CASE CloneStruct(c)
    <3>1. carg[c] \in Live
      BY Zenon, <2>6 DEF CloneStruct, Alive, Live, UseInv
    <3>2. LET x == originalCall[carg[c]]
          IN x \in Args \cup {System} /\ (x \in Args => memory[x] # "unused")
      BY Zenon, <3>1 DEF ChainInv
    <3> QED
      BY Zenon, <2>1, <2>6, <3>2, ConstantsAssumption DEF CloneStruct, UseInv
  <2>7. CASE CloneWrong(c) \/ UseFreed(c)
    BY <2>1, <2>7, ConstantsAssumption DEF CloneWrong, UseFreed, DropClone, UseInv
  <2>8. CASE Handler(c)
    <3>1. coriginal[c] \in Args \cup {System}
      BY Zenon, <2>8 DEF Handler, UseInv
    <3> QED
      BY <2>1, <2>8, <3>1, ConstantsAssumption DEF Handler, DropClone, UseInv
  <2> QED
    BY Zenon, <1>3, <2>2, <2>3, <2>4, <2>5, <2>6, <2>7, <2>8 DEF Caller
<1> QED
  BY Zenon, <1>1, <1>2, <1>3 DEF Next

-----------------------------------------------------------------------------
SetPcs == (Counted \ {"spin"}) \cup {"unlock", "stale", "overrun"}
SpinningPcs == {"load", "store", "poll", "again", "release"}

(* Somebody accounts for the lock word of a.                               *)
Accounted(a) ==
  \/ \E c \in Callers : carg[c] = a /\ pc[c] \in SetPcs
  \/ \E o \in Operators : oarg[o] = a /\ opc[o] \in SpinningPcs

(* A caller's step leaves the words of its callers accounted for.          *)
LEMMA CallerWords ==
  ASSUME ControlInv, UseInv, WordInv, NEW c \in Callers, Call(c) \/ RunSystem(c) \/ Caller(c)
  PROVE  WordInv'
<1> USE DEF CGoto, SetPcs, Counted
<1>1. UNCHANGED <<memory, opc, oarg>>
  BY Zenon, CallerStep DEF CallerFrame, operators
<1>2. \A a \in Live : lock[a] = 1 => Accounted(a)
  BY Zenon DEF WordInv, LockWordAccounted, Accounted, SpinningPcs
<1>3. ASSUME lock' = lock, pc[c] \in SetPcs /\ carg[c] \in Live => pc'[c] \in SetPcs /\ carg'[c] = carg[c],
             \A d \in Callers : d # c => pc'[d] = pc[d] /\ carg'[d] = carg[d]
      PROVE  WordInv'
  <2>1. ASSUME NEW a \in Live, Accounted(a) PROVE Accounted(a)'
    BY ZenonT(60), <1>1, <1>3, <2>1 DEF Accounted
  <2> QED
    BY <1>1, <1>2, <1>3, <2>1 DEF WordInv, LockWordAccounted, Accounted, SpinningPcs, Live
<1>4. CASE Call(c) \/ Enter(c) \/ JumpToHandler(c)
  BY Zenon, <1>3, <1>4 DEF Call, Enter, JumpToHandler, UseInv
<1>5. CASE RunSystem(c)
  BY Zenon, <1>3, <1>5 DEF RunSystem, vars, callers, fields
<1>6. CASE CloneStruct(c) \/ CloneAllocate(c) \/ CloneRead(c) \/ CloneHook(c) \/ CloneType(c)
  BY Zenon, <1>3, <1>6 DEF CloneStruct, CloneAllocate, CloneRead, CloneHook, CloneType, UseInv
<1>7. CASE CloneWrong(c) \/ Leave(c)
  BY Zenon, <1>3, <1>7 DEF CloneWrong, Leave, UseInv
<1>8. CASE Handler(c)
  BY Zenon, <1>3, <1>8 DEF Handler, UseInv
<1>9. CASE UseFreed(c)
  BY Zenon, <1>3, <1>9 DEF UseFreed, Alive, Live, UseInv
<1>10. CASE Spin(c)
  <2>1. carg[c] \in Live
    BY Zenon, <1>10 DEF Spin, Alive, UseInv, UsePcs, Live
  <2>2. /\ lock' = [lock EXCEPT ![carg[c]] = 1] /\ carg' = carg
        /\ pc[c] = "spin" /\ pc' = [pc EXCEPT ![c] = IF lock[carg[c]] = 0 THEN "struct" ELSE "spin"]
    BY Zenon, <1>10 DEF Spin
  <2>3. ASSUME NEW a \in Live, lock'[a] = 1 PROVE Accounted(a)'
    <3>1. CASE lock[a] = 1
      BY Zenon, <1>1, <1>2, <2>2, <3>1 DEF Accounted, UseInv
    <3>2. CASE lock[a] # 1
      BY <2>1, <2>2, <2>3, <3>2 DEF Accounted, UseInv, WordInv, Live
    <3> QED
      BY Zenon, <3>1, <3>2
  <2>4. lock' \in [Args -> {0, 1}] /\ \A a \in Args \ Live : lock'[a] = 0
    BY Zenon, <2>1, <2>2 DEF WordInv, Live
  <2> QED
    BY <1>1, <2>3, <2>4 DEF WordInv, LockWordAccounted, Accounted, SpinningPcs, Live
<1>11. CASE Unlock(c)
  <2>1. /\ lock' = [lock EXCEPT ![carg[c]] = 0] /\ carg' = carg
        /\ pc[c] = "unlock" /\ pc' = [pc EXCEPT ![c] = "jump"]
    BY Zenon, <1>11 DEF Unlock
  <2>2. ASSUME NEW a \in Live, lock'[a] = 1 PROVE Accounted(a)'
    BY <1>1, <1>2, <2>1, <2>2 DEF Accounted, UseInv, WordInv, Live
  <2>3. lock' \in [Args -> {0, 1}] /\ \A a \in Args \ Live : lock'[a] = 0
    BY Zenon, <2>1 DEF WordInv, Live
  <2> QED
    BY <1>1, <2>2, <2>3 DEF WordInv, LockWordAccounted, Accounted, SpinningPcs, Live
<1> QED
  BY Zenon, <1>4, <1>5, <1>6, <1>7, <1>8, <1>9, <1>10, <1>11 DEF Caller

(* An operator's step that leaves the words alone keeps them accounted for *)
(* unless an operator that accounts for one gives up.                      *)
LEMMA WordsKept ==
  ASSUME WordInv, lock' = lock, UNCHANGED callers,
         \A a \in Args : memory'[a] = "live" /\ memory[a] # "live" => lock[a] = 0,
         \A a \in Args : memory'[a] # "live" => lock[a] = 0,
         \A o \in Operators : opc[o] \in SpinningPcs =>
           opc'[o] \in SpinningPcs /\ oarg'[o] = oarg[o]
  PROVE  WordInv'
<1>1. UNCHANGED <<pc, carg>>
  BY Zenon DEF callers
<1>2. ASSUME NEW a \in Args, Accounted(a) PROVE Accounted(a)'
  BY Zenon, <1>1, <1>2 DEF Accounted
<1>3. ASSUME NEW a \in Live', lock'[a] = 1 PROVE Accounted(a)
  BY <1>3 DEF WordInv, LockWordAccounted, Accounted, SetPcs, SpinningPcs, Live
<1> QED
  BY ZenonT(60), <1>2, <1>3 DEF WordInv, LockWordAccounted, Accounted, SetPcs, SpinningPcs, Live

(* WordInv is inductive.                                                   *)
LEMMA WordInductive == ControlInv /\ UseInv /\ WordInv /\ [Next]_vars => WordInv'
<1> SUFFICES ASSUME ControlInv, UseInv, WordInv, [Next]_vars PROVE WordInv'
  BY Zenon
<1>1. CASE UNCHANGED vars
  BY Zenon, <1>1, WordsKept DEF vars, operators, fields, WordInv, Live
<1>2. ASSUME NEW c \in Callers, Call(c) \/ RunSystem(c) \/ Caller(c) PROVE WordInv'
  BY Zenon, <1>2, CallerWords
<1>3. ASSUME NEW o \in Operators, StartOperation(o) \/ Operator(o) PROVE WordInv'
  <2>1. UNCHANGED callers
    BY Zenon, <1>3, OperatorStep
  <2>2. \A a \in Args : memory[a] # "live" => lock[a] = 0
    BY Zenon DEF WordInv, Live
  <2> USE DEF OGoto, SpinningPcs, fields, AddFrame, DestroyFrame
  <2>3. CASE StartOperation(o)
    <3>1. /\ UNCHANGED <<memory, lock>> /\ opc[o] = "idle"
          /\ opc' = [opc EXCEPT ![o] = opc'[o]] /\ oarg' = [oarg EXCEPT ![o] = oarg'[o]]
      BY Zenon, <2>3 DEF StartOperation, StartCreate, StartAdd, StartDestroy, Start, ControlInv
    <3> QED
      BY Zenon, <2>1, <2>2, <3>1, WordsKept DEF ControlInv
  <2>4. CASE LockIn(o) \/ UnlockMutex(o)
    BY Zenon, <2>1, <2>2, <2>4, WordsKept DEF LockIn, UnlockMutex, ControlInv
  <2>5. CASE CreatePublish(o) \/ Grow(o) \/ Swap(o) \/ PutHook(o) \/ PutType(o) \/ PutCount(o)
    BY Zenon, <2>1, <2>2, <2>5, WordsKept DEF CreatePublish, Grow, Swap, PutHook, PutType, PutCount,
       ControlInv
  <2>6. CASE Restore(o) \/ Pause(o) \/ SpinLoad(o)
    BY Zenon, <2>1, <2>2, <2>6, WordsKept DEF Restore, Pause, SpinLoad, ControlInv
  <2>7. CASE CreateBuild(o)
    BY Zenon, <2>1, <2>2, <2>7, WordsKept DEF CreateBuild, ControlInv
  <2>8. CASE Poll(o)
    <3>1. CASE entryCount[oarg[o]] > 0
      BY Zenon, <2>1, <2>2, <2>8, <3>1, WordsKept DEF Poll, ControlInv
    <3>2. CASE ~(entryCount[oarg[o]] > 0)
      BY Zenon, <2>1, <2>2, <2>8, <3>2, WordsKept DEF Poll, ControlInv
    <3> QED
      BY Zenon, <3>1, <3>2
  <2>9. CASE SpinStore(o) \/ SpinUnlock(o) \/ Free(o)
    <3> DEFINE a == oarg[o]
    <3>1. a \in Live /\ opc[o] \in DestroyPcs
      BY Zenon, <2>9, OwnArgument DEF SpinStore, SpinUnlock, Free, DestroyPcs, DrainPcs
    <3>2. /\ opc' = [opc EXCEPT ![o] = opc'[o]] /\ oarg' = oarg
          /\ \/ memory' = memory /\ lock' = [lock EXCEPT ![a] = 1] /\ opc'[o] \in SpinningPcs
             \/ memory' = memory /\ lock' = [lock EXCEPT ![a] = 0]
             \/ memory' = [memory EXCEPT ![a] = "freed"] /\ lock' = [lock EXCEPT ![a] = 0]
      BY Zenon, <2>9 DEF SpinStore, SpinUnlock, Free, ControlInv
    <3>3. UNCHANGED <<pc, carg>>
      BY Zenon, <2>1 DEF callers
    <3>4. ASSUME NEW b \in Live', lock'[b] = 1 PROVE Accounted(b)'
      <4>1. CASE b = a
        BY <3>1, <3>2, <3>4, <4>1 DEF Accounted, WordInv, Live, ControlInv
      <4>2. CASE b # a
        <5>1. b \in Live /\ lock[b] = 1
          BY Zenon, <3>1, <3>2, <3>4, <4>2 DEF WordInv, Live, ControlInv
        <5>2. Accounted(b)
          BY Zenon, <5>1 DEF WordInv, LockWordAccounted, Accounted, SetPcs
        <5> QED
          BY Zenon, <3>2, <3>3, <4>2, <5>2 DEF Accounted, ControlInv
      <4> QED
        BY Zenon, <4>1, <4>2
    <3>5. lock' \in [Args -> {0, 1}] /\ \A b \in Args \ Live' : lock'[b] = 0
      BY ZenonT(60), <3>1, <3>2, <2>2 DEF WordInv, Live, ControlInv
    <3> QED
      BY Zenon, <3>4, <3>5 DEF WordInv, LockWordAccounted, Accounted, SetPcs, Live
  <2> QED
    BY Zenon, <1>3, <2>3, <2>4, <2>5, <2>6, <2>7, <2>8, <2>9 DEF Operator
<1> QED
  BY Zenon, <1>1, <1>2, <1>3 DEF Next

-----------------------------------------------------------------------------
PutPcs == {"put_hook", "put_type", "put_count"}

Sound(h, ty, n) ==
  /\ Len(ty) = Len(h) /\ Len(h) > 0 /\ n <= Len(h)
  /\ \A i \in 1..n : h[i] # NULL

Room(place, h, n) ==
  /\ place \in PutPcs => n < Len(h)
  /\ place \in {"put_type", "put_count"} => h[n + 1] # NULL

(* The arrays of a live hook are equally long, and every hook that is      *)
(* counted is there; HookAdd makes room before it writes.                  *)
ArraysInv ==
  /\ hook \in [Args -> Seq(Hooks \cup {NULL})] /\ hookType \in [Args -> Seq(Types \cup {0})]
  /\ hookCount \in [Args -> Nat] /\ otype \in [Operators -> Types \cup {0}]
  /\ \A a \in Args \ Live : hookCount[a] = 0
  /\ \A a \in Live : Sound(hook[a], hookType[a], hookCount[a])
  /\ \A o \in Operators : Room(opc[o], hook[oarg[o]], hookCount[oarg[o]])

HaveHook == {"alloc_type", "read_type", "copy_type", "leave", "unlock", "jump", "handler"}
HaveType == {"leave", "unlock", "jump", "handler"}

(* What a caller has of its clone so far agrees with a live argument.      *)
Copied(c) ==
  /\ pc[c] \in ClonePcs /\ carg[c] \in Live => ccount[c] <= hookCount[carg[c]]
  /\ pc[c] \in HaveHook =>
       /\ ccount[c] <= Len(chook[c])
       /\ \A i \in 1..ccount[c] :
            chook[c][i] # NULL /\ (carg[c] \in Live => chook[c][i] = hook[carg[c]][i])
  /\ pc[c] \in HaveType =>
       /\ ccount[c] <= Len(ctype[c])
       /\ \A i \in 1..ccount[c] : carg[c] \in Live => ctype[c][i] = hookType[carg[c]][i]

CloneInv ==
  /\ ccount \in [Callers -> Nat]
  /\ chook \in [Callers -> Seq(Hooks \cup {NULL})] /\ ctype \in [Callers -> Seq(Types \cup {0})]
  /\ \A c \in Callers : Copied(c)

-----------------------------------------------------------------------------
(* What the arrays of one argument are, and what their updates give.       *)
LEMMA ArrayOf ==
  ASSUME NEW D, NEW S, NEW f \in [D -> Seq(S)], NEW d \in D
  PROVE  f[d] \in Seq(S) /\ Len(f[d]) \in Nat
  OBVIOUS

LEMMA UpdatedFunction ==
  ASSUME NEW D, NEW S, NEW f \in [D -> S], NEW d \in D, NEW x \in S
  PROVE  /\ [f EXCEPT ![d] = x] \in [D -> S] /\ [f EXCEPT ![d] = x][d] = x
         /\ \A e \in D : e # d => [f EXCEPT ![d] = x][e] = f[e]
         /\ f = [f EXCEPT ![d] = f[d]]
  BY Zenon

LEMMA UpdatedArray ==
  ASSUME NEW S, NEW q \in Seq(S), NEW i \in 1..Len(q), NEW x \in S
  PROVE  LET r == [q EXCEPT ![i] = x]
         IN /\ r \in Seq(S) /\ Len(r) = Len(q) /\ r[i] = x
            /\ \A j \in 1..Len(q) : j # i => r[j] = q[j]
<1> DEFINE r == [q EXCEPT ![i] = x]
<1>1. q \in [1..Len(q) -> S] /\ Len(q) \in Nat
  OBVIOUS
<1>2. r \in [1..Len(q) -> S]
  BY Zenon, <1>1
<1>3. r \in Seq(S) /\ Len(r) = Len(q)
  BY <1>1, <1>2
<1> QED
  BY Zenon, <1>1, <1>3

LEMMA ZeroArray ==
  ASSUME NEW S, NEW zero \in S, NEW n \in Nat
  PROVE  Zeroes(zero, n) \in Seq(S) /\ Len(Zeroes(zero, n)) = n
  BY DEF Zeroes

LEMMA DoubledArray ==
  ASSUME NEW S, NEW q \in Seq(S), NEW zero \in S
  PROVE  LET r == q \o Zeroes(zero, Len(q))
         IN r \in Seq(S) /\ Len(r) = 2 * Len(q) /\ \A i \in 1..Len(q) : r[i] = q[i]
<1>1. Len(q) \in Nat
  OBVIOUS
<1>2. Zeroes(zero, Len(q)) \in Seq(S) /\ Len(Zeroes(zero, Len(q))) = Len(q)
  BY Zenon, <1>1, ZeroArray
<1> DEFINE z == Zeroes(zero, Len(q))
<1> HIDE DEF z
<1>3. /\ q \o z \in Seq(S) /\ Len(q \o z) = Len(q) + Len(z)
      /\ \A i \in 1..(Len(q) + Len(z)) : (q \o z)[i] = IF i <= Len(q) THEN q[i] ELSE z[i - Len(q)]
  BY <1>1, <1>2 DEF z
<1> QED
  BY <1>1, <1>2, <1>3 DEF z

(* Steps that leave the arrays alone.                                      *)
LEMMA ArraysKept ==
  ASSUME ArraysInv, UNCHANGED <<memory, hook, hookType, hookCount>>,
         otype' \in [Operators -> Types \cup {0}],
         \A o \in Operators : opc'[o] \in PutPcs => opc'[o] = opc[o] /\ oarg'[o] = oarg[o]
  PROVE  ArraysInv'
  BY Zenon DEF ArraysInv, Live, PutPcs, Sound, Room

(* The arrays h and ty with n hooks continue q and t with m hooks, for an  *)
(* operator at place.                                                      *)
Continue(q, t, m, place, h, ty, n) ==
  /\ h \in Seq(Hooks \cup {NULL}) /\ ty \in Seq(Types \cup {0}) /\ n \in Nat
  /\ Sound(h, ty, n) /\ Room(place, h, n) /\ m <= n
  /\ \A i \in 1..m : h[i] = q[i] /\ ty[i] = t[i]

LEMMA SwapContinues ==
  ASSUME NEW q \in Seq(Hooks \cup {NULL}), NEW t \in Seq(Types \cup {0}), NEW m \in Nat,
         Sound(q, t, m)
  PROVE  Continue(q, t, m, "put_hook", q \o Zeroes(NULL, Len(q)), t \o Zeroes(0, Len(t)), m)
<1> DEFINE h == q \o Zeroes(NULL, Len(q))
           ty == t \o Zeroes(0, Len(t))
<1>1. /\ h \in Seq(Hooks \cup {NULL}) /\ Len(h) = 2 * Len(q)
      /\ \A i \in 1..Len(q) : h[i] = q[i]
  BY DoubledArray
<1>2. /\ ty \in Seq(Types \cup {0}) /\ Len(ty) = 2 * Len(t)
      /\ \A i \in 1..Len(t) : ty[i] = t[i]
  BY DoubledArray
<1>3. Len(q) \in Nat /\ Len(t) \in Nat
  OBVIOUS
<1> HIDE DEF h, ty
<1>4. Continue(q, t, m, "put_hook", h, ty, m)
  BY <1>1, <1>2, <1>3 DEF Continue, Sound, Room
<1> QED
  BY Zenon, <1>4 DEF h, ty

LEMMA PutContinues ==
  ASSUME NEW q \in Seq(Hooks \cup {NULL}), NEW t \in Seq(Types \cup {0}), NEW m \in Nat,
         Sound(q, t, m), NEW place \in PutPcs, Room(place, q, m),
         NEW x \in Hooks, x # NULL, NEW y \in Types \cup {0}
  PROVE  /\ Continue(q, t, m, "put_type", [q EXCEPT ![m + 1] = x], t, m)
         /\ place # "put_hook" =>
              /\ Continue(q, t, m, "put_count", q, [t EXCEPT ![m + 1] = y], m)
              /\ Continue(q, t, m, "unlock", q, t, m + 1)
<1> DEFINE h == [q EXCEPT ![m + 1] = x]
           ty == [t EXCEPT ![m + 1] = y]
<1>1. m + 1 \in 1..Len(q) /\ m + 1 \in 1..Len(t) /\ Len(q) \in Nat
  BY DEF Sound, Room
<1>2. /\ h \in Seq(Hooks \cup {NULL}) /\ Len(h) = Len(q) /\ h[m + 1] = x
      /\ \A i \in 1..Len(q) : i # m + 1 => h[i] = q[i]
  BY <1>1, UpdatedArray
<1>3. /\ ty \in Seq(Types \cup {0}) /\ Len(ty) = Len(t)
      /\ \A i \in 1..Len(t) : i # m + 1 => ty[i] = t[i]
  BY <1>1, UpdatedArray
<1> HIDE DEF h, ty
<1>4. Continue(q, t, m, "put_type", h, t, m)
  BY <1>1, <1>2 DEF Continue, Sound, Room
<1>5. ASSUME place # "put_hook" PROVE Continue(q, t, m, "put_count", q, ty, m)
  BY <1>1, <1>3, <1>5 DEF Continue, Sound, Room, PutPcs
<1>6. ASSUME place # "put_hook" PROVE Continue(q, t, m, "unlock", q, t, m + 1)
  <2>1. \A i \in 1..(m + 1) : q[i] # NULL
    BY <1>6 DEF Sound, Room, PutPcs
  <2> QED
    BY <1>1, <2>1 DEF Continue, Sound, Room, PutPcs
<1> QED
  BY Zenon, <1>4, <1>5, <1>6 DEF h, ty

(* What HookAdd does to the arrays: the hooks that are counted stay.       *)
LEMMA AddContinues ==
  ASSUME ControlInv, ArraysInv, NEW o \in Operators,
         Swap(o) \/ PutHook(o) \/ PutType(o) \/ PutCount(o)
  PROVE  LET a == oarg[o]
         IN \E h \in Seq(Hooks \cup {NULL}), ty \in Seq(Types \cup {0}), n \in Nat :
              /\ hook' = [hook EXCEPT ![a] = h] /\ hookType' = [hookType EXCEPT ![a] = ty]
              /\ hookCount' = [hookCount EXCEPT ![a] = n]
              /\ Continue(hook[a], hookType[a], hookCount[a], opc'[o], h, ty, n)
<1> DEFINE a == oarg[o]
           q == hook[a]
           t == hookType[a]
           m == hookCount[a]
<1>1. opc[o] \in AddPcs \ OutsidePcs /\ opc \in [Operators -> OperatorPcs]
  BY Zenon DEF Swap, PutHook, PutType, PutCount, OGoto, AddPcs, OutsidePcs, ControlInv
<1>2. a \in Live /\ a \in Args /\ ohook[o] \in Hooks /\ ohook[o] # NULL
  BY Zenon, <1>1 DEF ControlInv, Holds, Live
<1>3. /\ hook \in [Args -> Seq(Hooks \cup {NULL})] /\ hookType \in [Args -> Seq(Types \cup {0})]
      /\ hookCount \in [Args -> Nat] /\ otype[o] \in Types \cup {0}
      /\ Sound(q, t, m) /\ Room(opc[o], q, m)
  BY Zenon, <1>2 DEF ArraysInv
<1>4. q \in Seq(Hooks \cup {NULL}) /\ t \in Seq(Types \cup {0}) /\ m \in Nat
  BY Zenon, <1>2, <1>3
<1>5. /\ hook = [hook EXCEPT ![a] = q] /\ hookType = [hookType EXCEPT ![a] = t]
      /\ hookCount = [hookCount EXCEPT ![a] = m]
  BY Zenon, <1>2, <1>3
<1>6. CASE Swap(o)
  <2> DEFINE h == q \o Zeroes(NULL, Len(q))
             ty == t \o Zeroes(0, Len(t))
  <2>1. /\ hook' = [hook EXCEPT ![a] = h] /\ hookType' = [hookType EXCEPT ![a] = ty]
        /\ hookCount' = hookCount /\ opc'[o] = "put_hook"
    BY Zenon, <1>1, <1>6 DEF Swap, OGoto
  <2>2. Continue(q, t, m, opc'[o], h, ty, m)
    BY Zenon, <1>3, <1>4, <2>1, SwapContinues
  <2> QED
    BY ZenonT(60), <1>5, <2>1, <2>2 DEF Continue
<1>7. CASE PutHook(o)
  <2> DEFINE h == [q EXCEPT ![m + 1] = ohook[o]]
  <2>1. /\ hook' = [hook EXCEPT ![a] = h] /\ UNCHANGED <<hookType, hookCount>>
        /\ opc[o] = "put_hook" /\ opc'[o] = "put_type"
    BY Zenon, <1>1, <1>7 DEF PutHook, OGoto
  <2>2. Continue(q, t, m, opc'[o], h, t, m)
    BY Zenon, <1>2, <1>3, <1>4, <2>1, PutContinues DEF PutPcs
  <2> QED
    BY Zenon, <1>5, <2>1, <2>2 DEF Continue
<1>8. CASE PutType(o)
  <2> DEFINE ty == [t EXCEPT ![m + 1] = otype[o]]
  <2>1. /\ hookType' = [hookType EXCEPT ![a] = ty] /\ UNCHANGED <<hook, hookCount>>
        /\ opc[o] = "put_type" /\ opc'[o] = "put_count"
    BY Zenon, <1>1, <1>8 DEF PutType, OGoto
  <2>2. Continue(q, t, m, opc'[o], q, ty, m)
    BY Zenon, <1>2, <1>3, <1>4, <2>1, PutContinues DEF PutPcs
  <2> QED
    BY Zenon, <1>5, <2>1, <2>2 DEF Continue
<1>9. CASE PutCount(o)
  <2>1. /\ hookCount' = [hookCount EXCEPT ![a] = m + 1] /\ UNCHANGED <<hook, hookType>>
        /\ opc[o] = "put_count" /\ opc'[o] = "unlock"
    BY Zenon, <1>1, <1>9 DEF PutCount, OGoto
  <2>2. Continue(q, t, m, opc'[o], q, t, m + 1)
    BY Zenon, <1>2, <1>3, <1>4, <2>1, PutContinues DEF PutPcs
  <2> QED
    BY Zenon, <1>5, <2>1, <2>2 DEF Continue
<1> QED
  BY Zenon, <1>6, <1>7, <1>8, <1>9

(* Such a step keeps ArraysInv.                                            *)
LEMMA AddArrays ==
  ASSUME ControlInv, ArraysInv, NEW o \in Operators,
         Swap(o) \/ PutHook(o) \/ PutType(o) \/ PutCount(o)
  PROVE  ArraysInv'
<1> DEFINE a == oarg[o]
<1>1. PICK h \in Seq(Hooks \cup {NULL}), ty \in Seq(Types \cup {0}), n \in Nat :
        /\ hook' = [hook EXCEPT ![a] = h] /\ hookType' = [hookType EXCEPT ![a] = ty]
        /\ hookCount' = [hookCount EXCEPT ![a] = n]
        /\ Continue(hook[a], hookType[a], hookCount[a], opc'[o], h, ty, n)
  BY Zenon, AddContinues
<1>2. /\ UNCHANGED <<memory, oarg, otype>> /\ opc' = [opc EXCEPT ![o] = opc'[o]]
      /\ opc[o] \in AddPcs \ OutsidePcs
  BY Zenon DEF Swap, PutHook, PutType, PutCount, AddFrame, OGoto, AddPcs, OutsidePcs, ControlInv
<1>3. a \in Live /\ a \in Args /\ \A p \in Operators : p # o => opc'[p] \notin PutPcs
  BY ZenonT(60), <1>2 DEF ControlInv, Holds, Live, OutsidePcs, PutPcs
<1>4. /\ hook' \in [Args -> Seq(Hooks \cup {NULL})] /\ hookType' \in [Args -> Seq(Types \cup {0})]
      /\ hookCount' \in [Args -> Nat] /\ hook'[a] = h /\ hookType'[a] = ty /\ hookCount'[a] = n
      /\ \A b \in Args : b # a => /\ hook'[b] = hook[b] /\ hookType'[b] = hookType[b]
                                  /\ hookCount'[b] = hookCount[b]
  BY ZenonT(60), <1>1, <1>3, UpdatedFunction DEF ArraysInv
<1>5. Live' = Live /\ Live \subseteq Args
  BY Zenon, <1>2 DEF Live
<1>6. \A b \in Args \ Live : hookCount'[b] = 0
  BY Zenon, <1>3, <1>4 DEF ArraysInv
<1>7. \A b \in Live : Sound(hook'[b], hookType'[b], hookCount'[b])
  BY Zenon, <1>1, <1>4, <1>5 DEF Continue, ArraysInv
<1>8. \A p \in Operators : Room(opc'[p], hook'[oarg[p]], hookCount'[oarg[p]])
  <2>1. Room(opc'[o], hook'[a], hookCount'[a])
    BY Zenon, <1>1, <1>4 DEF Continue
  <2>2. \A p \in Operators : p # o => Room(opc'[p], hook'[oarg[p]], hookCount'[oarg[p]])
    BY Zenon, <1>3 DEF Room, PutPcs
  <2> QED
    BY Zenon, <2>1, <2>2
<1> QED
  BY Zenon, <1>2, <1>4, <1>5, <1>6, <1>7, <1>8 DEF ArraysInv

(* ArraysInv is inductive.                                                 *)
LEMMA ArraysInductive == ControlInv /\ ArraysInv /\ [Next]_vars => ArraysInv'
<1> SUFFICES ASSUME ControlInv, ArraysInv, [Next]_vars PROVE ArraysInv'
  BY Zenon
<1>1. CASE UNCHANGED vars
  BY Zenon, <1>1, ArraysKept DEF vars, operators, fields, arrays, ArraysInv
<1>2. ASSUME NEW c \in Callers, Call(c) \/ RunSystem(c) \/ Caller(c) PROVE ArraysInv'
  <2>1. UNCHANGED <<memory, hook, hookType, hookCount, opc, oarg, otype>>
    BY Zenon, <1>2, CallerStep DEF CallerFrame, operators, arrays
  <2> QED
    BY Zenon, <2>1, ArraysKept DEF ArraysInv
<1>3. ASSUME NEW o \in Operators, StartOperation(o) \/ Operator(o) PROVE ArraysInv'
  <2>1. otype \in [Operators -> Types \cup {0}] /\ opc \in [Operators -> OperatorPcs]
    BY Zenon DEF ArraysInv, ControlInv
  <2> USE DEF OGoto, fields, arrays, AddFrame, DestroyFrame, PutPcs
  <2>2. CASE StartOperation(o)
    <3>1. PICK place \in {"create_lock", "add_lock", "destroy_lock"},
               x \in Args \cup {NULL}, ty \in Types \cup {0} :
            /\ UNCHANGED <<memory, hook, hookType, hookCount>>
            /\ opc' = [opc EXCEPT ![o] = place] /\ oarg' = [oarg EXCEPT ![o] = x]
            /\ otype' = [otype EXCEPT ![o] = ty]
      BY Zenon, <2>2 DEF StartOperation, StartCreate, StartAdd, StartDestroy, Start
    <3> QED
      BY Zenon, <2>1, <3>1, ArraysKept DEF ControlInv
  <2>3. CASE LockIn(o) \/ UnlockMutex(o)
    BY Zenon, <2>1, <2>3, ArraysKept DEF LockIn, UnlockMutex, ControlInv
  <2>4. CASE CreatePublish(o) \/ Restore(o) \/ Pause(o) \/ SpinLoad(o) \/ SpinStore(o)
             \/ Poll(o) \/ SpinUnlock(o)
    <3>1. /\ UNCHANGED <<memory, hook, hookType, hookCount, oarg, otype>>
          /\ \E place \in DrainPcs \cup {"unlock"} : opc' = [opc EXCEPT ![o] = place]
      BY Zenon, <2>4 DEF CreatePublish, Restore, Pause, SpinLoad, SpinStore, Poll, SpinUnlock, DrainPcs
    <3> QED
      BY Zenon, <2>1, <3>1, ArraysKept DEF DrainPcs
  <2>5. CASE Grow(o)
    <3>1. CASE hookCount[oarg[o]] >= Len(hook[oarg[o]])
      BY Zenon, <2>1, <2>5, <3>1, ArraysKept DEF Grow
    <3>2. CASE ~(hookCount[oarg[o]] >= Len(hook[oarg[o]]))
      <4>1. /\ oarg[o] \in Args /\ UNCHANGED <<memory, hook, hookType, hookCount, oarg, otype>>
            /\ opc' = [opc EXCEPT ![o] = "put_hook"]
        BY Zenon, <2>5, <3>2 DEF Grow, ControlInv, Holds, Live, AddPcs
      <4>2. hookCount[oarg[o]] < Len(hook[oarg[o]])
        BY <3>2, <4>1, ArrayOf DEF ArraysInv
      <4> QED
        BY Zenon, <2>1, <4>1, <4>2 DEF ArraysInv, Live, Room, Sound
    <3> QED
      BY Zenon, <3>1, <3>2
  <2>6. CASE Swap(o) \/ PutHook(o) \/ PutType(o) \/ PutCount(o)
    BY Zenon, <2>6, AddArrays
  <2>7. CASE CreateBuild(o)
    <3>1. PICK a \in Args :
            /\ memory[a] = "unused" /\ memory' = [memory EXCEPT ![a] = "live"]
            /\ hook' = [hook EXCEPT ![a] = Zeroes(NULL, InitialHookSize)]
            /\ hookType' = [hookType EXCEPT ![a] = Zeroes(0, InitialHookSize)]
            /\ opc[o] = "build" /\ opc' = [opc EXCEPT ![o] = "publish"] /\ UNCHANGED <<hookCount, otype>>
      BY Zenon, <2>7 DEF CreateBuild
    <3>2. /\ Zeroes(NULL, InitialHookSize) \in Seq(Hooks \cup {NULL})
          /\ Zeroes(0, InitialHookSize) \in Seq(Types \cup {0})
          /\ Len(Zeroes(NULL, InitialHookSize)) = InitialHookSize
          /\ Len(Zeroes(0, InitialHookSize)) = InitialHookSize /\ InitialHookSize > 0
      BY Zenon, ConstantsAssumption, ZeroArray
    <3>3. /\ hook' \in [Args -> Seq(Hooks \cup {NULL})]
          /\ hookType' \in [Args -> Seq(Types \cup {0})]
          /\ hook'[a] = Zeroes(NULL, InitialHookSize)
          /\ hookType'[a] = Zeroes(0, InitialHookSize)
          /\ \A b \in Args : b # a => hook'[b] = hook[b] /\ hookType'[b] = hookType[b]
      BY Zenon, <3>1, <3>2, UpdatedFunction DEF ArraysInv
    <3>4. hookCount[a] = 0 /\ \A b \in Args : b \in Live' <=> b = a \/ b \in Live
      BY Zenon, <3>1 DEF ArraysInv, Live, ControlInv
    <3>5. \A p \in Operators : opc'[p] \notin PutPcs
      BY Zenon, <3>1, <2>1 DEF ControlInv, Holds, OutsidePcs
    <3>6. ASSUME NEW b \in Live'
          PROVE  Sound(hook'[b], hookType'[b], hookCount'[b])
      <4>1. b \in Args
        BY Zenon DEF Live
      <4>2. CASE b = a
        BY <3>1, <3>2, <3>3, <3>4, <4>2 DEF Sound
      <4>3. CASE b # a
        BY Zenon, <3>1, <3>3, <3>4, <4>1, <4>3 DEF ArraysInv
      <4> QED
        BY Zenon, <4>2, <4>3
    <3> QED
      BY Zenon, <3>1, <3>3, <3>4, <3>5, <3>6 DEF ArraysInv, Room
  <2>8. CASE Free(o)
    <3> DEFINE a == oarg[o]
    <3>1. /\ opc[o] = "free" /\ opc' = [opc EXCEPT ![o] = "unlock"] /\ otype' = otype
          /\ memory' = [memory EXCEPT ![a] = "freed"] /\ hookCount' = [hookCount EXCEPT ![a] = 0]
          /\ hook' = [hook EXCEPT ![a] = <<>>] /\ hookType' = [hookType EXCEPT ![a] = <<>>]
      BY Zenon, <2>8 DEF Free
    <3>2. a \in Args
      BY Zenon, <3>1, OwnArgument DEF DestroyPcs, DrainPcs
    <3>3. <<>> \in Seq(Hooks \cup {NULL}) /\ <<>> \in Seq(Types \cup {0}) /\ 0 \in Nat
      OBVIOUS
    <3>4. /\ hook' \in [Args -> Seq(Hooks \cup {NULL})]
          /\ hookType' \in [Args -> Seq(Types \cup {0})] /\ hookCount' \in [Args -> Nat]
          /\ hookCount'[a] = 0
          /\ \A b \in Args : b # a => /\ hook'[b] = hook[b] /\ hookType'[b] = hookType[b]
                                      /\ hookCount'[b] = hookCount[b]
      BY Zenon, <3>1, <3>2, <3>3, UpdatedFunction DEF ArraysInv
    <3>5. \A b \in Args : b \in Live' <=> b # a /\ b \in Live
      BY Zenon, <3>1, <3>2 DEF Live, ControlInv
    <3>6. \A p \in Operators : opc'[p] \notin PutPcs
      BY Zenon, <3>1, <2>1 DEF ControlInv, Holds, OutsidePcs
    <3>7. \A b \in Live' : b \in Args /\ b # a /\ b \in Live
      BY Zenon, <3>5 DEF Live
    <3> QED
      BY Zenon, <3>1, <3>4, <3>5, <3>6, <3>7 DEF ArraysInv, Room
  <2> QED
    BY Zenon, <1>3, <2>2, <2>3, <2>4, <2>5, <2>6, <2>7, <2>8 DEF Operator
<1> QED
  BY Zenon, <1>1, <1>2, <1>3 DEF Next

-----------------------------------------------------------------------------
(* The hooks of a that are counted stay where they are.                    *)
CountedStay(a) ==
  /\ hookCount[a] <= hookCount'[a]
  /\ \A i \in 1..hookCount[a] : hook'[a][i] = hook[a][i] /\ hookType'[a][i] = hookType[a][i]

(* No operator moves, changes or uncounts the hooks of an argument that    *)
(* stays live, and none that is freed comes back.                          *)
LEMMA OperatorCountedStay ==
  ASSUME ControlInv, ArraysInv, NEW o \in Operators, StartOperation(o) \/ Operator(o),
         NEW a \in Args, memory[a] # "unused", memory'[a] = "live"
  PROVE  memory[a] = "live" /\ CountedStay(a)
<1>1. hookCount[a] \in Nat
  BY Zenon DEF ArraysInv
<1>2. ASSUME UNCHANGED <<memory, hook, hookType, hookCount>>
      PROVE  memory[a] = "live" /\ CountedStay(a)
  BY <1>1, <1>2 DEF CountedStay
<1> USE DEF fields, arrays
<1>3. CASE StartOperation(o)
  BY Zenon, <1>2, <1>3 DEF StartOperation, StartCreate, StartAdd, StartDestroy, Start
<1>4. CASE LockIn(o) \/ UnlockMutex(o) \/ CreatePublish(o) \/ Grow(o)
  BY Zenon, <1>2, <1>4 DEF LockIn, UnlockMutex, CreatePublish, Grow, AddFrame
<1>5. CASE Restore(o) \/ Pause(o) \/ SpinLoad(o) \/ SpinStore(o) \/ Poll(o) \/ SpinUnlock(o)
  BY Zenon, <1>2, <1>5 DEF Restore, Pause, SpinLoad, SpinStore, Poll, SpinUnlock, DestroyFrame
<1>6. CASE Swap(o) \/ PutHook(o) \/ PutType(o) \/ PutCount(o)
  <2> DEFINE b == oarg[o]
  <2>1. PICK h \in Seq(Hooks \cup {NULL}), ty \in Seq(Types \cup {0}), n \in Nat :
          /\ hook' = [hook EXCEPT ![b] = h] /\ hookType' = [hookType EXCEPT ![b] = ty]
          /\ hookCount' = [hookCount EXCEPT ![b] = n]
          /\ Continue(hook[b], hookType[b], hookCount[b], opc'[o], h, ty, n)
    BY Zenon, <1>6, AddContinues
  <2>2. memory' = memory
    BY Zenon, <1>6 DEF Swap, PutHook, PutType, PutCount, AddFrame
  <2>3. CASE a = b
    <3>1. hook'[a] = h /\ hookType'[a] = ty /\ hookCount'[a] = n
      BY Zenon, <2>1, <2>3 DEF ArraysInv
    <3> QED
      BY Zenon, <2>1, <2>2, <2>3, <3>1 DEF Continue, CountedStay
  <2>4. CASE a # b
    <3>1. hook'[a] = hook[a] /\ hookType'[a] = hookType[a] /\ hookCount'[a] = hookCount[a]
      BY Zenon, <2>1, <2>4 DEF ArraysInv
    <3> QED
      BY <1>1, <2>2, <3>1 DEF CountedStay
  <2> QED
    BY Zenon, <2>3, <2>4
<1>7. CASE CreateBuild(o)
  <2>1. PICK b \in Args :
          /\ memory[b] = "unused" /\ memory' = [memory EXCEPT ![b] = "live"]
          /\ hook' = [hook EXCEPT ![b] = Zeroes(NULL, InitialHookSize)]
          /\ hookType' = [hookType EXCEPT ![b] = Zeroes(0, InitialHookSize)]
          /\ hookCount' = hookCount
    BY Zenon, <1>7 DEF CreateBuild
  <2>2. memory[a] = "live" /\ hook'[a] = hook[a] /\ hookType'[a] = hookType[a]
    BY Zenon, <2>1 DEF ControlInv, ArraysInv
  <2> QED
    BY <1>1, <2>1, <2>2 DEF CountedStay
<1>8. CASE Free(o)
  <2> DEFINE b == oarg[o]
  <2>1. /\ memory' = [memory EXCEPT ![b] = "freed"] /\ hookCount' = [hookCount EXCEPT ![b] = 0]
        /\ hook' = [hook EXCEPT ![b] = <<>>] /\ hookType' = [hookType EXCEPT ![b] = <<>>]
    BY Zenon, <1>8 DEF Free
  <2>2. a # b
    BY Zenon, <2>1 DEF ControlInv
  <2>3. /\ memory[a] = "live" /\ hook'[a] = hook[a] /\ hookType'[a] = hookType[a]
        /\ hookCount'[a] = hookCount[a]
    BY Zenon, <2>1, <2>2 DEF ControlInv, ArraysInv
  <2> QED
    BY <1>1, <2>3 DEF CountedStay
<1> QED
  BY Zenon, <1>3, <1>4, <1>5, <1>6, <1>7, <1>8 DEF Operator

(* A caller that does not move keeps what it has copied.                   *)
LEMMA OthersCopied ==
  ASSUME NEW d, Copied(d), UNCHANGED <<memory, hook, hookType, hookCount>>,
         pc'[d] = pc[d], carg'[d] = carg[d], ccount'[d] = ccount[d],
         chook'[d] = chook[d], ctype'[d] = ctype[d]
  PROVE  Copied(d)'
  BY Zenon DEF Copied, Live

(* A caller's step keeps the clones complete.                              *)
LEMMA CallerClones ==
  ASSUME UseInv, ArraysInv, CloneInv, NEW c \in Callers, Call(c) \/ RunSystem(c) \/ Caller(c)
  PROVE  CloneInv'
<1> DEFINE Types3 == /\ ccount' \in [Callers -> Nat]
                     /\ chook' \in [Callers -> Seq(Hooks \cup {NULL})]
                     /\ ctype' \in [Callers -> Seq(Types \cup {0})]
           Others == \A d \in Callers : d # c =>
                       /\ pc'[d] = pc[d] /\ carg'[d] = carg[d] /\ ccount'[d] = ccount[d]
                       /\ chook'[d] = chook[d] /\ ctype'[d] = ctype[d]
<1>1. UNCHANGED <<memory, hook, hookType, hookCount>>
  BY Zenon, CallerStep DEF CallerFrame, arrays
<1>2. /\ ccount \in [Callers -> Nat] /\ chook \in [Callers -> Seq(Hooks \cup {NULL})]
      /\ ctype \in [Callers -> Seq(Types \cup {0})] /\ Copied(c)
      /\ pc \in [Callers -> CallerPcs] /\ carg \in [Callers -> Args \cup {NULL}]
      /\ pc[c] \in UsePcs => carg[c] \in Args
  BY Zenon DEF CloneInv, UseInv
<1>3. <<>> \in Seq(Hooks \cup {NULL}) /\ <<>> \in Seq(Types \cup {0}) /\ 0 \in Nat
  OBVIOUS
<1> HIDE DEF Types3, Others
<1>4. Types3 /\ Others /\ Copied(c)' => CloneInv'
  BY Zenon, <1>1, OthersCopied DEF CloneInv, Types3, Others
<1> USE DEF CGoto, UsePcs, ClonePcs, HaveHook, HaveType, Counted
<1>5. CASE RunSystem(c)
  <2>1. Types3 /\ Others
    BY Zenon, <1>2, <1>5 DEF RunSystem, vars, callers, clones, Types3, Others
  <2>2. Copied(c)'
    BY Zenon, <1>1, <1>2, <1>5, OthersCopied DEF RunSystem, vars, callers, clones
  <2> QED
    BY Zenon, <1>4, <2>1, <2>2
<1>6. CASE Call(c) \/ Enter(c) \/ Spin(c)
  <2>1. Types3 /\ Others /\ pc'[c] \in {"enter", "spin", "struct"}
    BY Zenon, <1>2, <1>6 DEF Call, Enter, Spin, clones, Types3, Others
  <2> QED
    BY Zenon, <1>4, <2>1 DEF Copied
<1>7. CASE CloneStruct(c)
  <2>1. /\ pc[c] = "struct" /\ pc' = [pc EXCEPT ![c] = "alloc_hook"]
        /\ ccount' = [ccount EXCEPT ![c] = hookCount[carg[c]]] /\ UNCHANGED <<carg, chook, ctype>>
    BY Zenon, <1>7 DEF CloneStruct
  <2>2. hookCount[carg[c]] \in Nat /\ carg[c] \in Args
    BY Zenon, <1>2, <2>1 DEF ArraysInv
  <2>3. Types3 /\ Others
    BY Zenon, <1>2, <2>1, <2>2 DEF Types3, Others
  <2>4. Copied(c)'
    BY <1>1, <1>2, <2>1, <2>2 DEF Copied
  <2> QED
    BY Zenon, <1>4, <2>3, <2>4
<1>8. CASE CloneAllocate(c) \/ CloneRead(c) \/ Leave(c) \/ Unlock(c) \/ JumpToHandler(c)
  <2>1. /\ UNCHANGED <<carg, ccount, chook, ctype>> /\ pc' = [pc EXCEPT ![c] = pc'[c]]
        /\ pc[c] \in ClonePcs /\ (pc'[c] \in HaveHook => pc[c] \in HaveHook)
        /\ pc'[c] \in HaveType => pc[c] \in HaveType
    BY Zenon, <1>2, <1>8 DEF CloneAllocate, CloneRead, Leave, Unlock, JumpToHandler, clones
  <2>2. Types3 /\ Others
    BY Zenon, <1>2, <2>1 DEF Types3, Others
  <2>3. Copied(c)'
    <3> HIDE DEF ClonePcs, HaveHook, HaveType
    <3> QED
      BY Zenon, <1>1, <1>2, <2>1 DEF Copied, Live
  <2> QED
    BY Zenon, <1>4, <2>2, <2>3
<1>9. CASE CloneHook(c)
  <2> DEFINE a == carg[c]
  <2>1. /\ pc[c] = "copy_hook" /\ pc' = [pc EXCEPT ![c] = "alloc_type"]
        /\ chook' = [chook EXCEPT ![c] = hook[a]] /\ UNCHANGED <<carg, ccount, ctype>> /\ Alive(c)
    BY Zenon, <1>9 DEF CloneHook
  <2>2. a \in Args /\ a \in Live /\ hook[a] \in Seq(Hooks \cup {NULL}) /\ Len(hook[a]) \in Nat
    BY Zenon, <1>2, <2>1, ArrayOf DEF ArraysInv, Alive, Live
  <2>3. Types3 /\ Others
    BY Zenon, <1>2, <2>1, <2>2 DEF Types3, Others
  <2>4. /\ hookCount[a] <= Len(hook[a]) /\ hookCount[a] \in Nat /\ ccount[c] <= hookCount[a]
        /\ ccount[c] \in Nat /\ \A i \in 1..hookCount[a] : hook[a][i] # NULL
    BY Zenon, <1>2, <2>1, <2>2 DEF ArraysInv, Sound, Copied
  <2>5. ccount'[c] <= Len(chook'[c])
    BY <1>2, <2>1, <2>2, <2>4
  <2>6. \A i \in 1..ccount[c] : hook[a][i] # NULL
    BY <2>4
  <2>7. chook'[c] = hook[a] /\ ccount'[c] = ccount[c] /\ pc'[c] = "alloc_type"
    BY Zenon, <1>2, <2>1
  <2>8. Copied(c)'
    BY Zenon, <1>1, <2>1, <2>4, <2>5, <2>6, <2>7 DEF Copied, Live
  <2> QED
    BY Zenon, <1>4, <2>3, <2>8
<1>10. CASE CloneType(c)
  <2> DEFINE a == carg[c]
  <2>1. /\ pc[c] = "copy_type" /\ pc' = [pc EXCEPT ![c] = "leave"]
        /\ ctype' = [ctype EXCEPT ![c] = hookType[a]] /\ UNCHANGED <<carg, ccount, chook>> /\ Alive(c)
    BY Zenon, <1>10 DEF CloneType
  <2>2. a \in Args /\ a \in Live /\ hookType[a] \in Seq(Types \cup {0}) /\ Len(hookType[a]) \in Nat
    BY Zenon, <1>2, <2>1, ArrayOf DEF ArraysInv, Alive, Live
  <2>3. Types3 /\ Others
    BY Zenon, <1>2, <2>1, <2>2 DEF Types3, Others
  <2>4. /\ hookCount[a] <= Len(hookType[a]) /\ hookCount[a] \in Nat
        /\ ccount[c] <= hookCount[a] /\ ccount[c] \in Nat
    BY Zenon, <1>2, <2>1, <2>2 DEF ArraysInv, Sound, Copied
  <2>5. ccount[c] <= Len(hookType[a])
    BY <2>2, <2>4
  <2>6. ctype'[c] = hookType[a] /\ ccount'[c] = ccount[c] /\ pc'[c] = "leave"
    BY Zenon, <1>2, <2>1
  <2>7. Copied(c)'
    BY Zenon, <1>1, <1>2, <2>1, <2>4, <2>5, <2>6 DEF Copied, Live
  <2> QED
    BY Zenon, <1>4, <2>3, <2>7
<1>11. CASE CloneWrong(c) \/ Handler(c) \/ UseFreed(c)
  <2>1. /\ pc' = [pc EXCEPT ![c] = pc'[c]] /\ pc'[c] \in {"stale", "overrun", "out", "enter", "freed"}
        /\ \A d \in Callers : d # c => carg'[d] = carg[d]
    BY Zenon, <1>2, <1>11 DEF CloneWrong, Handler, UseFreed
  <2>2. DropClone(c)
    BY Zenon, <1>11 DEF CloneWrong, Handler, UseFreed
  <2>3. Types3 /\ Others
    BY Zenon, <1>2, <1>3, <2>1, <2>2 DEF DropClone, Types3, Others
  <2> QED
    BY Zenon, <1>4, <2>1, <2>3 DEF Copied
<1> QED
  BY Zenon, <1>5, <1>6, <1>7, <1>8, <1>9, <1>10, <1>11 DEF Caller

(* CloneInv is inductive.                                                  *)
LEMMA CloneInductive ==
  ControlInv /\ UseInv /\ ArraysInv /\ CloneInv /\ [Next]_vars => CloneInv'
<1> SUFFICES ASSUME ControlInv, UseInv, ArraysInv, CloneInv, [Next]_vars PROVE CloneInv'
  BY Zenon
<1>1. CASE UNCHANGED vars
  BY Zenon, <1>1, OthersCopied DEF vars, fields, arrays, callers, clones, CloneInv
<1>2. ASSUME NEW c \in Callers, Call(c) \/ RunSystem(c) \/ Caller(c) PROVE CloneInv'
  BY Zenon, <1>2, CallerClones
<1>3. ASSUME NEW o \in Operators, StartOperation(o) \/ Operator(o) PROVE CloneInv'
  <2>1. UNCHANGED <<pc, carg, ccount, chook, ctype>>
    BY Zenon, <1>3, OperatorStep DEF callers, clones
  <2>2. ASSUME NEW c \in Callers PROVE Copied(c)'
    <3> DEFINE a == carg[c]
    <3>1. Copied(c) /\ ccount[c] \in Nat
      BY Zenon DEF CloneInv
    <3>2. CASE pc[c] \in ClonePcs /\ a \in Live'
      <4>1. a \in Args /\ memory[a] # "unused" /\ memory'[a] = "live"
        BY Zenon, <3>2 DEF Live, UseInv, UsePcs, ClonePcs, Counted
      <4>2. a \in Live /\ CountedStay(a)
        BY Zenon, <1>3, <4>1, OperatorCountedStay DEF Live
      <4>3. hookCount[a] \in Nat /\ hookCount'[a] \in Nat
        BY Zenon, <1>3, <4>1, ArraysInductive DEF ArraysInv, Next
      <4>4. ccount[c] <= hookCount'[a] /\ 1..ccount[c] \subseteq 1..hookCount[a]
        BY <3>1, <3>2, <4>2, <4>3 DEF Copied, CountedStay
      <4> HIDE DEF ClonePcs, HaveHook, HaveType
      <4> QED
        BY Zenon, <2>1, <3>1, <4>2, <4>4 DEF Copied, CountedStay
    <3>3. CASE pc[c] \notin ClonePcs \/ a \notin Live'
      <4>1. pc[c] \in HaveHook \cup HaveType => pc[c] \in ClonePcs
        BY Zenon DEF HaveHook, HaveType, ClonePcs
      <4> QED
        BY Zenon, <2>1, <3>1, <3>3, <4>1 DEF Copied
    <3> QED
      BY Zenon, <3>2, <3>3
  <2> QED
    BY Zenon, <2>1, <2>2 DEF CloneInv
<1> QED
  BY Zenon, <1>1, <1>2, <1>3 DEF Next

-----------------------------------------------------------------------------
LEMMA InitiallyArrays == Init => ArraysInv /\ CloneInv
<1> SUFFICES ASSUME Init PROVE ArraysInv /\ CloneInv
  OBVIOUS
<1> USE ConstantsAssumption DEF Init
<1>1. ArraysInv
  BY DEF ArraysInv, Live, Room, PutPcs
<1>2. CloneInv
  BY DEF CloneInv, Copied, ClonePcs, HaveHook, HaveType
<1> QED
  BY Zenon, <1>1, <1>2

(* HookAdd never moves, changes or uncounts a hook that is counted, though *)
-----------------------------------------------------------------------------
(* From here on sets of callers are counted.                               *)
INSTANCE FiniteSetTheorems

InsidePcs == Counted \cup {"stale", "overrun"}

LEMMA FiniteWindow == \A a : IsFiniteSet(Window(a))
  BY Zenon, ConstantsAssumption, FS_Subset DEF Window

(* How a caller's step moves it, apart from the clone.                     *)
LEMMA CallerMoves ==
  ASSUME ControlInv, UseInv, CountInv, NEW c \in Callers,
         Call(c) \/ RunSystem(c) \/ Caller(c)
  PROVE  /\ \A d \in Callers : d # c => /\ pc'[d] = pc[d] /\ carg'[d] = carg[d]
                                        /\ nested'[d] = nested[d]
         /\ \/ /\ entryCount' = entryCount /\ carg'[c] = carg[c] /\ nested'[c] = nested[c]
               /\ pc'[c] \in InsidePcs <=> pc[c] \in InsidePcs
               /\ pc'[c] = "enter" => pc[c] = "enter"
            \/ /\ entryCount' = entryCount /\ pc[c] = "out" /\ pc'[c] = "enter"
               /\ sy_call # System /\ carg'[c] = sy_call
            \/ Enter(c) \/ Leave(c)
            \/ /\ entryCount' = entryCount /\ pc[c] = "handler"
               /\ pc'[c] = "out" \/ (pc'[c] = "enter" /\ nested'[c])
            \/ /\ entryCount' = entryCount /\ memory[carg[c]] = "freed" /\ pc'[c] = "freed"
<1> USE DEF CGoto, InsidePcs, Counted
<1>1. /\ pc \in [Callers -> CallerPcs] /\ carg \in [Callers -> Args \cup {NULL}]
      /\ nested \in [Callers -> BOOLEAN]
  BY Zenon DEF UseInv, CountInv
<1>2. CASE Call(c)
  BY Zenon, <1>1, <1>2 DEF Call
<1>3. CASE RunSystem(c)
  BY Zenon, <1>3 DEF RunSystem, vars, callers, fields
<1>4. CASE Enter(c) \/ Leave(c)
  BY Zenon, <1>1, <1>4 DEF Enter, Leave
<1>5. CASE Spin(c) \/ Unlock(c) \/ JumpToHandler(c)
  BY Zenon, <1>1, <1>5 DEF Spin, Unlock, JumpToHandler
<1>6. CASE CloneStruct(c) \/ CloneAllocate(c) \/ CloneRead(c)
  BY Zenon, <1>1, <1>6 DEF CloneStruct, CloneAllocate, CloneRead
<1>7. CASE CloneHook(c) \/ CloneType(c) \/ CloneWrong(c)
  BY Zenon, <1>1, <1>7 DEF CloneHook, CloneType, CloneWrong
<1>8. CASE Handler(c)
  <2>1. /\ entryCount' = entryCount /\ pc[c] = "handler"
        /\ \A d \in Callers : d # c => pc'[d] = pc[d] /\ carg'[d] = carg[d] /\ nested'[d] = nested[d]
    BY Zenon, <1>1, <1>8 DEF Handler
  <2>2. CASE CGoto(c, "handler", "out")
    <3>1. pc'[c] = "out"
      BY Zenon, <1>1, <2>2
    <3> QED
      BY Zenon, <2>1, <3>1
  <2>3. CASE CGoto(c, "handler", "enter") /\ nested' = [nested EXCEPT ![c] = TRUE]
    <3>1. nested'[c] = TRUE /\ pc'[c] = "enter"
      BY Zenon, <1>1, <2>3
    <3> QED
      BY Zenon, <2>1, <3>1
  <2> QED
    BY Zenon, <1>8, <2>2, <2>3 DEF Handler
<1>9. CASE UseFreed(c)
  <2>1. memory[carg[c]] = "freed"
    BY Zenon, <1>9 DEF UseFreed, Alive, UseInv, UsePcs, ControlInv
  <2> QED
    BY Zenon, <1>1, <1>9, <2>1 DEF UseFreed
<1> QED
  BY Zenon, <1>2, <1>3, <1>4, <1>5, <1>6, <1>7, <1>8, <1>9 DEF Caller

(* A caller's step keeps the count.                                        *)
LEMMA CallerCounts ==
  ASSUME ControlInv, UseInv, CountInv, NEW c \in Callers, Call(c) \/ RunSystem(c) \/ Caller(c)
  PROVE  CountInv'
<1>1. memory' = memory /\ nested' \in [Callers -> BOOLEAN]
  <2>1. memory' = memory
    BY Zenon, CallerStep DEF CallerFrame
  <2> QED
    BY Zenon, <2>1 DEF CountInv, Call, RunSystem, Caller, Enter, Spin, CloneStruct, CloneAllocate,
         CloneRead, CloneHook, CloneType, CloneWrong, Leave, Unlock, JumpToHandler, Handler,
         UseFreed, vars, callers
<1>2. ASSUME entryCount' = entryCount,
             \A a \in Args : memory[a] # "freed" => Window(a)' = Window(a)
      PROVE  CountInv'
  BY Zenon, <1>1, <1>2 DEF CountInv
<1>3. CASE Enter(c)
  <2> DEFINE a == carg[c]
  <2>1. /\ a \in Args /\ memory[a] = "live" /\ pc[c] = "enter" /\ pc' = [pc EXCEPT ![c] = "spin"]
        /\ entryCount' = [entryCount EXCEPT ![a] = @ + 1] /\ carg' = carg
    BY Zenon, <1>3 DEF Enter, CGoto, Alive, UseInv, UsePcs
  <2>2. c \notin Window(a) /\ Window(a)' = Window(a) \cup {c}
    BY Zenon, <2>1 DEF Window, Counted, UseInv
  <2>3. \A b \in Args : b # a => Window(b)' = Window(b)
    BY Zenon, <2>1 DEF Window, Counted, UseInv
  <2>4. Cardinality(Window(a)') = Cardinality(Window(a)) + 1
    BY Zenon, <2>2, FiniteWindow, FS_AddElement
  <2> QED
    BY <1>1, <2>1, <2>3, <2>4 DEF CountInv
<1>4. CASE Leave(c)
  <2> DEFINE a == carg[c]
  <2>1. /\ a \in Args /\ memory[a] = "live" /\ pc[c] = "leave" /\ pc' = [pc EXCEPT ![c] = "unlock"]
        /\ entryCount' = [entryCount EXCEPT ![a] = @ - 1] /\ carg' = carg
    BY Zenon, <1>4 DEF Leave, CGoto, Alive, UseInv, UsePcs, Counted
  <2>2. c \in Window(a) /\ Window(a)' = Window(a) \ {c}
    BY Zenon, <2>1 DEF Window, Counted, UseInv
  <2>3. \A b \in Args : b # a => Window(b)' = Window(b)
    BY Zenon, <2>1 DEF Window, Counted, UseInv
  <2>4. /\ Cardinality(Window(a)') = Cardinality(Window(a)) - 1
        /\ Cardinality(Window(a)') \in Nat
    BY Zenon, <2>2, FiniteWindow, FS_RemoveElement, FS_CardinalityType
  <2> QED
    BY Zenon, <1>1, <2>1, <2>3, <2>4 DEF CountInv
<1>5. CASE entryCount' = entryCount /\ ~Enter(c) /\ ~Leave(c)
  <2>1. ASSUME NEW a \in Args, memory[a] # "freed" PROVE Window(a)' = Window(a)
    BY <1>5, <2>1, CallerMoves DEF Window, InsidePcs, Counted
  <2> QED
    BY Zenon, <1>2, <1>5, <2>1
<1> QED
  BY Zenon, <1>3, <1>4, <1>5, CallerMoves

(* CountInv is inductive.                                                  *)
LEMMA CountInductive == ControlInv /\ UseInv /\ CountInv /\ [Next]_vars => CountInv'
<1> SUFFICES ASSUME ControlInv, UseInv, CountInv, [Next]_vars PROVE CountInv'
  BY Zenon
<1>1. CASE UNCHANGED vars
  BY Zenon, <1>1 DEF vars, fields, callers, CountInv, Window
<1>2. ASSUME NEW c \in Callers, Call(c) \/ RunSystem(c) \/ Caller(c) PROVE CountInv'
  BY Zenon, <1>2, CallerCounts
<1>3. ASSUME NEW o \in Operators, StartOperation(o) \/ Operator(o) PROVE CountInv'
  <2>1. nested' = nested /\ \A a : Window(a)' = Window(a)
    BY Zenon, <1>3, OperatorStep DEF callers, Window
  <2>2. ASSUME entryCount' = entryCount, \A a \in Args : memory'[a] # "freed" => memory[a] # "freed"
        PROVE  CountInv'
    BY Zenon, <2>1, <2>2 DEF CountInv
  <2>3. CASE Free(o)
    <3>1. /\ memory' = [memory EXCEPT ![oarg[o]] = "freed"]
          /\ entryCount' = [entryCount EXCEPT ![oarg[o]] = 0]
      BY Zenon, <2>3 DEF Free
    <3> QED
      BY Zenon, <2>1, <3>1 DEF CountInv, ControlInv
  <2>4. CASE CreateBuild(o)
    BY Zenon, <2>2, <2>4 DEF CreateBuild, ControlInv
  <2>5. CASE StartOperation(o) \/ LockIn(o) \/ UnlockMutex(o)
    BY Zenon, <2>2, <2>5 DEF StartOperation, StartCreate, StartAdd, StartDestroy, Start,
       LockIn, UnlockMutex, fields
  <2>6. CASE Work(o)
    BY Zenon, <2>2, <2>6 DEF Work, CreatePublish, Grow, Swap, PutHook, PutType, PutCount, Restore,
       Pause, SpinLoad, SpinStore, Poll, SpinUnlock, AddFrame, DestroyFrame, fields
  <2> QED
    BY Zenon, <1>3, <2>3, <2>4, <2>5, <2>6 DEF Operator, Work
<1> QED
  BY Zenon, <1>1, <1>2, <1>3 DEF Next

(* No caller comes through the table to an argument that is not chained.   *)
LEMMA CallerSettled ==
  ASSUME ControlInv, ChainInv, UseInv, CountInv, NEW c \in Callers,
         Call(c) \/ RunSystem(c) \/ Caller(c), NEW a \in Args, a \notin Chained
  PROVE  /\ Settled(a) => Settled(a)'
         /\ Settled(a) /\ Quiet(a) => Quiet(a)'
<1>1. sy_call # System => sy_call # a
  BY Zenon DEF ChainInv
<1>2. Enter(c) => /\ pc[c] = "enter" /\ pc'[c] = "spin" /\ carg'[c] = carg[c]
                  /\ nested'[c] = nested[c]
  BY Zenon DEF Enter, CGoto, UseInv
<1>3. Leave(c) => /\ pc[c] = "leave" /\ pc'[c] = "unlock" /\ carg'[c] = carg[c]
                  /\ nested'[c] = nested[c]
  BY Zenon DEF Leave, CGoto, UseInv
<1>4. ASSUME Settled(a), NEW d \in OnTheWayIn(a)' PROVE nested'[d]
  BY Zenon, <1>1, <1>2, <1>3, <1>4, CallerMoves DEF Settled, OnTheWayIn, InsidePcs, Counted
<1>5. ASSUME Settled(a), Quiet(a), NEW d \in Window(a)' PROVE nested'[d]
  BY <1>1, <1>2, <1>3, <1>5, CallerMoves DEF Settled, Quiet, OnTheWayIn, Window, InsidePcs, Counted
<1> QED
  BY Zenon, <1>4, <1>5 DEF Settled, Quiet

(* DrainInv is inductive.                                                  *)
LEMMA DrainInductive ==
  ControlInv /\ ChainInv /\ UseInv /\ CountInv /\ DrainInv /\ [Next]_vars => DrainInv'
<1> SUFFICES ASSUME ControlInv, ChainInv, UseInv, CountInv, DrainInv, [Next]_vars,
                    PauseSufficient
             PROVE  DrainInv'
  BY Zenon DEF DrainInv
<1>1. CASE UNCHANGED vars
  BY Zenon, <1>1 DEF vars, fields, callers, operators, DrainInv, Settled, Quiet, OnTheWayIn, Window
<1>2. ASSUME NEW c \in Callers, Call(c) \/ RunSystem(c) \/ Caller(c) PROVE DrainInv'
  <2>1. UNCHANGED <<memory, opc, oarg>>
    BY Zenon, <1>2, CallerStep DEF CallerFrame, operators
  <2>2. ASSUME NEW o \in Operators, opc[o] \in DrainPcs PROVE oarg[o] \in Args \ Chained
    BY Zenon, <2>2, OwnArgument DEF DestroyPcs, Chained
  <2>3. \A a \in Args : memory[a] = "freed" => a \notin Chained
    BY Zenon DEF Chained, Live
  <2>4. {"release", "free"} \subseteq DrainPcs \ {"pause"}
    BY Zenon DEF DrainPcs
  <2> QED
    BY Zenon, <1>2, <2>1, <2>2, <2>3, <2>4, CallerSettled DEF DrainInv
<1>3. ASSUME NEW o \in Operators, StartOperation(o) \/ Operator(o) PROVE DrainInv'
  <2>1. \A a : (Settled(a)' <=> Settled(a)) /\ (Quiet(a)' <=> Quiet(a))
    BY Zenon, <1>3, OperatorStep DEF callers, Settled, Quiet, OnTheWayIn, Window
  <2>2. ASSUME \A a \in Args : memory'[a] = "freed" => memory[a] = "freed",
               \A p \in Operators :
                 /\ p # o => opc'[p] = opc[p] /\ oarg'[p] = oarg[p]
                 /\ opc'[o] \in DrainPcs \ {"pause"} => Settled(oarg'[o])
                 /\ opc'[o] \in {"release", "free"} => Quiet(oarg'[o])
        PROVE  DrainInv'
    BY Zenon, <2>1, <2>2 DEF DrainInv
  <2> USE DEF OGoto, fields, AddFrame, DestroyFrame, DrainPcs
  <2>3. opc \in [Operators -> OperatorPcs] /\ oarg \in [Operators -> Args \cup {NULL}]
    BY Zenon DEF ControlInv
  <2>4. CASE StartOperation(o)
    <3>1. PICK place \in {"create_lock", "add_lock", "destroy_lock"}, x \in Args \cup {NULL} :
            /\ memory' = memory
            /\ opc' = [opc EXCEPT ![o] = place] /\ oarg' = [oarg EXCEPT ![o] = x]
      BY Zenon, <2>4 DEF StartOperation, StartCreate, StartAdd, StartDestroy, Start
    <3> QED
      BY Zenon, <2>2, <2>3, <3>1
  <2>5. CASE LockIn(o) \/ UnlockMutex(o)
    BY Zenon, <2>2, <2>3, <2>5 DEF LockIn, UnlockMutex
  <2>6. CASE CreatePublish(o) \/ Grow(o) \/ Swap(o) \/ PutHook(o) \/ PutType(o) \/ PutCount(o)
    <3>1. PICK place \in (AddPcs \ OutsidePcs) \cup {"unlock"} :
            UNCHANGED <<memory, oarg>> /\ opc' = [opc EXCEPT ![o] = place]
      BY Zenon, <2>6 DEF CreatePublish, Grow, Swap, PutHook, PutType, PutCount, AddPcs, OutsidePcs
    <3> QED
      BY Zenon, <2>2, <2>3, <3>1 DEF AddPcs, OutsidePcs
  <2>7. CASE Restore(o)
    BY Zenon, <2>2, <2>3, <2>7 DEF Restore
  <2>8. CASE Pause(o)
    BY Zenon, <2>2, <2>3, <2>8 DEF Pause, Settled
  <2>9. CASE SpinLoad(o) \/ SpinStore(o)
    BY Zenon, <2>2, <2>3, <2>9 DEF SpinLoad, SpinStore, DrainInv
  <2>10. CASE SpinUnlock(o)
    BY Zenon, <2>2, <2>3, <2>10 DEF SpinUnlock, DrainInv
  <2>11. CASE Poll(o)
    <3> DEFINE a == oarg[o]
    <3>1. /\ opc[o] = "poll" /\ UNCHANGED <<memory, oarg>>
          /\ opc' = [opc EXCEPT ![o] = IF entryCount[a] > 0 THEN "again" ELSE "release"]
      BY Zenon, <2>11 DEF Poll
    <3>2. Settled(a)
      BY Zenon, <3>1 DEF DrainInv
    <3>3. CASE entryCount[a] > 0
      BY Zenon, <2>2, <2>3, <3>1, <3>2, <3>3
    <3>4. CASE ~(entryCount[a] > 0)
      <4>1. a \in Args /\ memory[a] = "live"
        BY Zenon, <3>1, OwnArgument DEF DestroyPcs, Live
      <4>2. Cardinality(Window(a)) = 0
        BY <3>4, <4>1 DEF CountInv
      <4>3. Quiet(a)
        BY Zenon, <4>2, FiniteWindow, FS_EmptySet DEF Quiet
      <4> QED
        BY Zenon, <2>2, <2>3, <3>1, <3>2, <3>4, <4>3
    <3> QED
      BY Zenon, <3>3, <3>4
  <2>12. CASE CreateBuild(o)
    <3>1. PICK a \in Args :
            /\ memory' = [memory EXCEPT ![a] = "live"] /\ opc' = [opc EXCEPT ![o] = "publish"]
            /\ oarg' = [oarg EXCEPT ![o] = a]
      BY Zenon, <2>12 DEF CreateBuild
    <3> QED
      BY Zenon, <2>2, <2>3, <3>1 DEF ControlInv
  <2>13. CASE Free(o)
    <3>1. /\ opc[o] = "free" /\ memory' = [memory EXCEPT ![oarg[o]] = "freed"]
          /\ opc' = [opc EXCEPT ![o] = "unlock"] /\ oarg' = oarg
      BY Zenon, <2>13 DEF Free
    <3>2. Settled(oarg[o]) /\ Quiet(oarg[o])
      BY Zenon, <3>1 DEF DrainInv
    <3>3. \A a \in Args : memory'[a] = "freed" => Settled(a) /\ Quiet(a)
      BY Zenon, <3>1, <3>2 DEF DrainInv, ControlInv
    <3>4. \A p \in Operators : p # o => opc'[p] = opc[p]
      BY Zenon, <2>3, <3>1
    <3>5. opc'[o] = "unlock"
      BY Zenon, <2>3, <3>1
    <3> QED
      BY Zenon, <2>1, <3>1, <3>3, <3>4, <3>5 DEF DrainInv
  <2> QED
    BY Zenon, <1>3, <2>4, <2>5, <2>6, <2>7, <2>8, <2>9, <2>10, <2>11, <2>12, <2>13 DEF Operator
<1> QED
  BY Zenon, <1>1, <1>2, <1>3 DEF Next

-----------------------------------------------------------------------------
(* The first states, one invariant at a time.                              *)
LEMMA Initially == Init => ControlInv /\ ChainInv /\ UseInv /\ WordInv /\ CountInv /\ DrainInv
<1> SUFFICES ASSUME Init
             PROVE  ControlInv /\ ChainInv /\ UseInv /\ WordInv /\ CountInv /\ DrainInv
  OBVIOUS
<1> USE ConstantsAssumption DEF Init
<1>1. ControlInv
  BY DEF ControlInv, Holds, Apart, Creating, OperatorPcs, OutsidePcs, AddPcs, DestroyPcs,
         DrainPcs
<1>2. Live = {} /\ Chained = {}
  BY DEF Live, Chained
<1>3. ChainInv
  BY <1>2 DEF ChainInv, Linked
<1>4. UseInv
  BY DEF UseInv, CallerPcs, UsePcs, ClonePcs, Counted
<1>5. WordInv
  BY <1>2 DEF WordInv, LockWordAccounted
<1>6. CountInv
  <2>1. \A a : Window(a) = {}
    BY DEF Window, Counted
  <2> QED
    BY Zenon, <2>1, FS_EmptySet DEF CountInv
<1>7. DrainInv
  BY DEF DrainInv, DrainPcs
<1> QED
  BY Zenon, <1>1, <1>3, <1>4, <1>5, <1>6, <1>7

(* Between operations the table entry leads through all live hooks, each   *)
(* once, to the system call, however many operators create, extend and     *)
(* destroy hooks at the same time.                                         *)
THEOREM ChainCorrect == Spec => []ChainOfLive
<1>1. ControlInv /\ ChainInv => ChainOfLive
  <2> SUFFICES ASSUME ControlInv, ChainInv, mutex = NULL PROVE ChainOfLive
    BY Zenon DEF ChainOfLive
  <2>1. Chained = Live
    <3>1. \A o \in Operators : opc[o] \in OutsidePcs
      BY Zenon, ConstantsAssumption DEF ControlInv, Holds
    <3> QED
      BY Zenon, <3>1 DEF Chained, DrainPcs, OutsidePcs
  <2>2. ASSUME NEW x \in Live \cup {System}
        PROVE  Cardinality({b \in Live : originalCall[b] = x}) = (IF sy_call = x THEN 0 ELSE 1)
    <3>1. Linked(x)
      BY Zenon, <2>1 DEF ChainInv
    <3>2. CASE sy_call = x
      <4>1. {b \in Live : originalCall[b] = x} = {}
        BY Zenon, <2>1, <3>1, <3>2 DEF Linked
      <4> QED
        BY Zenon, <3>2, <4>1, FS_EmptySet
    <3>3. CASE sy_call # x
      <4>1. PICK b \in Live : \A d \in Live : originalCall[d] = x <=> d = b
        BY Zenon, <2>1, <3>1, <3>3 DEF Linked
      <4>2. {d \in Live : originalCall[d] = x} = {b}
        BY Zenon, <4>1
      <4> QED
        BY Zenon, <3>3, <4>2, FS_Singleton
    <3> QED
      BY Zenon, <3>2, <3>3
  <2> QED
    BY Zenon, <2>1, <2>2 DEF ChainInv, ChainOfLive
<1> QED
  BY <1>1, Initially, ControlInductive, ChainInductive, PTL DEF Spec

(* The lock word of a live hook is set only while a caller in its prologue *)
(* or the thread that destroys the hook answers for it.                    *)
THEOREM LockWordCorrect == Spec => []LockWordAccounted
  BY Initially, ControlInductive, ChainInductive, UseInductive, WordInductive, PTL
     DEF Spec, WordInv

(* If the pause is long enough for the callers that loaded sy_call, no     *)
(* caller that came through the table uses the prologue of a freed hook.   *)
THEOREM PrologueCorrect == Spec => []PrologueOnLiveArgument
<1>1. ControlInv /\ UseInv /\ DrainInv => PrologueOnLiveArgument
  <2> SUFFICES ASSUME ControlInv, UseInv, DrainInv, PauseSufficient,
                      NEW a \in Args, NEW c \in OnTheWayIn(a) \cup Window(a), a \notin Live
               PROVE  nested[c]
    BY Zenon DEF PrologueOnLiveArgument
  <2>1. memory[a] = "freed"
    BY Zenon DEF ControlInv, UseInv, OnTheWayIn, Window, UsePcs, Live
  <2> QED
    BY Zenon, <2>1 DEF DrainInv, Settled, Quiet
<1> QED
  BY <1>1, Initially, ControlInductive, ChainInductive, UseInductive, CountInductive,
     DrainInductive, PTL DEF Spec
(* HookAdd never moves, changes or uncounts a hook that is counted, though *)
(* it fills and replaces the arrays of an argument that callers clone.     *)
THEOREM CountedHooksStay ==
  Spec => [][\A a \in Args : memory[a] = "live" /\ memory'[a] = "live" => CountedStay(a)]_vars
<1> DEFINE Stay == \A a \in Args : memory[a] = "live" /\ memory'[a] = "live" => CountedStay(a)
<1>1. ControlInv /\ ArraysInv /\ [Next]_vars => [Stay]_vars
  <2> SUFFICES ASSUME ControlInv, ArraysInv, Next PROVE Stay
    BY Zenon
  <2>1. ASSUME NEW c \in Callers, Call(c) \/ RunSystem(c) \/ Caller(c) PROVE Stay
    <3>1. UNCHANGED <<hook, hookType, hookCount>>
      BY Zenon, <2>1, CallerStep DEF CallerFrame, arrays
    <3> QED
      BY <3>1 DEF CountedStay, ArraysInv
  <2>2. ASSUME NEW o \in Operators, StartOperation(o) \/ Operator(o) PROVE Stay
    BY Zenon, <2>2, OperatorCountedStay
  <2> QED
    BY Zenon, <2>1, <2>2 DEF Next
<1> QED
  BY <1>1, Initially, InitiallyArrays, ControlInductive, ArraysInductive, PTL DEF Spec

(* A clone that reaches the handler never counts more hooks than its       *)
(* arrays hold, and each of them is there with its type.                   *)
THEOREM CloneCorrect == Spec => []CloneComplete
<1>1. CloneInv => CloneComplete
  BY Zenon DEF CloneInv, Copied, CloneComplete, ClonePcs, HaveHook, HaveType
<1> QED
  BY <1>1, Initially, InitiallyArrays, ControlInductive, ChainInductive, UseInductive, ArraysInductive,
     CloneInductive, PTL DEF Spec
=============================================================================
