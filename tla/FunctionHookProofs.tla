------------------------- MODULE FunctionHookProofs -------------------------
(***************************************************************************)
(* Proofs about FunctionHook, for every number of callers, operators,      *)
(* arguments and hooks.  First the operators: where they stand and who     *)
(* owns the mutex, what the bytes of the function are, and what is done to *)
(* the hook arrays.  Then the callers and what they share with them: the   *)
(* types, sizes and last cells of the arrays, the entry counter, and what  *)
(* HookDestroy may free.                                                   *)
(***************************************************************************)
EXTENDS FunctionHook, TLAPS

OuterPcs == {"outer_lock", "dispatch", "outer_unlock"}
CreatePcs == {"create_lock", "create_test", "create_build", "create_patch",
              "create_jump", "created"}
AddPcs == {"grow", "add_release", "put_hook", "put_type", "put_count", "put_null"}
RemovePcs == {"shift", "remove_release"}
DestroyPcs == {"destroy_lock", "fn_lock", "fn_restore", "fn_unlock", "pause", "poll",
               "poll_release", "destroy_release", "free"}

(* Which operations an operator at a given place is executing.             *)
Stands(o) ==
  /\ opc[o] = "idle" <=> todo[o] = "none"
  /\ opc[o] \in OuterPcs => todo[o] \in {"hook", "unhook"}
  /\ opc[o] \in CreatePcs => todo[o] \in {"create", "hook"}
  /\ opc[o] = "spinner_lock" => todo[o] \in {"add", "remove", "hook"}
  /\ opc[o] \in {"load", "store"} => todo[o] # "create"
  /\ opc[o] \in AddPcs => todo[o] \in {"add", "hook"}
  /\ opc[o] \in RemovePcs => todo[o] = "remove"
  /\ opc[o] \in DestroyPcs => todo[o] \in {"destroy", "unhook"}

(* A destruction excludes the operations that hold a handle.               *)
Exclusive ==
  \A o, p \in Operators :
    o # p /\ todo[o] \in {"destroy", "unhook"} => todo[p] \notin {"add", "remove", "destroy"}

ControlInv ==
  /\ opc \in [Operators -> OperatorPcs] /\ todo \in [Operators -> Operations]
  /\ mutex \in Operators \cup {NULL} /\ depth \in Nat
  /\ \A o \in Operators : Stands(o)
  /\ MutexAccounted /\ Exclusive

(* A caller's step leaves the operators, the mutex and the bytes alone.    *)
LEMMA CallerStep ==
  ASSUME NEW c \in Callers, Call(c) \/ Caller(c)
  PROVE  UNCHANGED <<head, tail, target, mutex, depth, memory, opc, oarg, todo,
                     ohook, otype, rax, s, t, hook, hookType, hookCount>>
  BY Zenon DEF Call, Caller, RunOriginal, JumpToPrologue, EnterPrologue, SpinInPrologue,
         CloneStruct, CloneHook, CloneType, CloneFreedArrays, LeavePrologue,
         UnlockInHandler, RunPreHooks, RunBridge, RunPostHooks, Epilogue, UseFreed,
         CallerFrame, function, operators, inputs, loops, fields

(* A step of an operator inside its operation, without the mutex.          *)
Inside(o) ==
  \/ Dispatch(o) \/ CreateTest(o) \/ CreateBuild(o) \/ CreatePatch(o) \/ CreateJump(o)
  \/ SpinLoad(o) \/ SpinStore(o) \/ SpinUnlock(o)
  \/ Grow(o) \/ PutHook(o) \/ PutType(o) \/ PutCount(o) \/ PutNull(o)
  \/ Shift(o) \/ ShiftDone(o)
  \/ FunctionLock(o) \/ RestoreTail(o) \/ FunctionUnlock(o) \/ Pause(o)
  \/ Poll(o) \/ Free(o)

(* Such a step moves one operator between places that hold the mutex       *)
(* equally often.                                                          *)
LEMMA InsideMoves ==
  ASSUME ControlInv, NEW o \in Operators, Inside(o)
  PROVE  /\ UNCHANGED <<mutex, depth, todo>>
         /\ opc' \in [Operators -> OperatorPcs]
         /\ \A p \in Operators : p # o => opc'[p] = opc[p]
         /\ Stands(o)'
         /\ Locked(o)' = Locked(o)
<1> USE DEF ControlInv, Stands, Locked, OuterHeld, InnerHeld, OGoto, OperatorPcs,
            Operations, OuterPcs, CreatePcs, AddPcs, RemovePcs, DestroyPcs, inputs,
            loops, fields
<1>1. CASE Dispatch(o)
  BY <1>1 DEF Dispatch
<1>2. CASE CreateTest(o)
  BY Zenon, <1>2 DEF CreateTest
<1>3. CASE CreateBuild(o)
  BY <1>3 DEF CreateBuild
<1>4. CASE CreatePatch(o)
  BY Zenon, <1>4 DEF CreatePatch
<1>5. CASE CreateJump(o)
  BY Zenon, <1>5 DEF CreateJump
<1>6. CASE SpinLoad(o)
  BY Zenon, <1>6 DEF SpinLoad
<1>7. CASE SpinStore(o)
  BY ZenonT(60), <1>7 DEF SpinStore, Section
<1>8. CASE SpinUnlock(o)
  BY <1>8 DEF SpinUnlock
<1>9. CASE Grow(o)
  BY Zenon, <1>9 DEF Grow
<1>10. CASE PutHook(o)
  BY Zenon, <1>10 DEF PutHook, PutFrame
<1>11. CASE PutType(o)
  BY Zenon, <1>11 DEF PutType, PutFrame
<1>12. CASE PutCount(o)
  BY Zenon, <1>12 DEF PutCount, PutFrame
<1>13. CASE PutNull(o)
  BY Zenon, <1>13 DEF PutNull, PutFrame
<1>14. CASE Shift(o)
  BY Zenon, <1>14 DEF Shift
<1>15. CASE ShiftDone(o)
  BY Zenon, <1>15 DEF ShiftDone
<1>16. CASE FunctionLock(o)
  BY Zenon, <1>16 DEF FunctionLock, DestroyFrame
<1>17. CASE RestoreTail(o)
  BY Zenon, <1>17 DEF RestoreTail, DestroyFrame
<1>18. CASE FunctionUnlock(o)
  BY Zenon, <1>18 DEF FunctionUnlock, DestroyFrame
<1>19. CASE Pause(o)
  BY Zenon, <1>19 DEF Pause, DestroyFrame
<1>20. CASE Poll(o)
  BY Zenon, <1>20 DEF Poll, DestroyFrame
<1>21. CASE Free(o)
  BY Zenon, <1>21 DEF Free
<1> QED
  BY Zenon, <1>1, <1>2, <1>3, <1>4, <1>5, <1>6, <1>7, <1>8, <1>9, <1>10, <1>11, <1>12, <1>13, <1>14, <1>15, <1>16, <1>17, <1>18, <1>19, <1>20, <1>21 DEF Inside

(* The operators that do not move keep their place.                        *)
LEMMA OthersStand ==
  ASSUME NEW p, opc'[p] = opc[p], todo'[p] = todo[p]
  PROVE  (Stands(p) => Stands(p)') /\ Locked(p)' = Locked(p)
  BY Zenon DEF Stands, Locked, OuterHeld, InnerHeld

(* ControlInv is inductive.                                                *)
LEMMA ControlInductive == ControlInv /\ [Next]_vars => ControlInv'
<1> SUFFICES ASSUME ControlInv, [Next]_vars PROVE ControlInv'
  BY Zenon
<1> USE ConstantsAssumption
<1>1. CASE UNCHANGED vars
  BY Zenon, <1>1 DEF ControlInv, MutexAccounted, Exclusive, Stands, Locked, OuterHeld,
              InnerHeld, vars, operators, inputs
<1>2. ASSUME NEW c \in Callers, Call(c) \/ Caller(c) PROVE ControlInv'
  BY <1>2, CallerStep DEF ControlInv, MutexAccounted, Exclusive, Stands, Locked,
              OuterHeld, InnerHeld
<1>3. ASSUME NEW o \in Operators, StartOperation(o) PROVE ControlInv'
  <2> DEFINE place == opc'[o]
             op == todo'[o]
  <2>1. /\ opc[o] = "idle" /\ todo[o] = "none"
        /\ UNCHANGED <<mutex, depth>>
        /\ \A p \in Operators : p # o => opc'[p] = opc[p] /\ todo'[p] = todo[p]
        /\ opc' \in [Operators -> OperatorPcs] /\ todo' \in [Operators -> Operations]
        /\ \/ place = "create_lock" /\ op = "create"
           \/ /\ place = "spinner_lock" /\ op \in {"add", "remove"}
              /\ Doing({"destroy", "unhook"}) = {}
           \/ /\ place = "destroy_lock" /\ op = "destroy"
              /\ Doing({"destroy", "unhook"}) = {} /\ Doing({"add", "remove"}) = {}
           \/ place = "outer_lock" /\ op = "hook"
           \/ /\ place = "outer_lock" /\ op = "unhook"
              /\ Doing({"add", "remove", "destroy"}) = {}
    BY <1>3 DEF StartOperation, StartCreate, StartAdd, StartRemove, StartDestroy,
                StartHook, StartUnhook, Start, OGoto, HandleValid, ControlInv, Stands,
                OperatorPcs, Operations
  <2>2. \A p \in Operators : Stands(p)'
    <3>1. Stands(o)'
      BY Zenon, <2>1 DEF Stands, OuterPcs, CreatePcs, AddPcs, RemovePcs, DestroyPcs
    <3> QED
      BY Zenon, <2>1, <3>1, OthersStand DEF ControlInv
  <2>3. MutexAccounted'
    <3>1. Locked(o) = 0 /\ Locked(o)' = 0
      BY <2>1 DEF Locked, OuterHeld, InnerHeld
    <3> QED
      BY Zenon, <2>1, <3>1, OthersStand DEF ControlInv, MutexAccounted
  <2>4. Exclusive'
    <3> SUFFICES ASSUME NEW q \in Operators, NEW p \in Operators, q # p,
                        todo'[q] \in {"destroy", "unhook"}
                 PROVE  todo'[p] \notin {"add", "remove", "destroy"}
      BY Zenon DEF Exclusive
    <3>1. CASE q = o
      BY ZenonT(60), <2>1, <3>1 DEF Doing
    <3>2. CASE p = o
      BY Zenon, <2>1, <3>2 DEF Doing
    <3>3. CASE q # o /\ p # o
      BY Zenon, <2>1, <3>3 DEF ControlInv, Exclusive
    <3> QED
      BY Zenon, <3>1, <3>2, <3>3
  <2> QED
    BY Zenon, <2>1, <2>2, <2>3, <2>4 DEF ControlInv
<1>4. ASSUME NEW o \in Operators, Inside(o) PROVE ControlInv'
  <2>1. \A p \in Operators : Stands(p)' /\ Locked(p)' = Locked(p)
    BY Zenon, <1>4, InsideMoves, OthersStand DEF ControlInv
  <2> QED
    BY <1>4, <2>1, InsideMoves DEF ControlInv, MutexAccounted, Exclusive
<1>5. ASSUME NEW o \in Operators, LockIn(o) PROVE ControlInv'
  <2>1. /\ mutex \in {NULL, o} /\ mutex' = o /\ depth' = depth + 1 /\ todo' = todo
        /\ opc' \in [Operators -> OperatorPcs]
        /\ \A p \in Operators : p # o => opc'[p] = opc[p]
        /\ Stands(o)' /\ Locked(o)' = Locked(o) + 1
    BY <1>5 DEF LockIn, LockMutex, ControlInv, Stands, Locked, OuterHeld, InnerHeld,
                OGoto, OperatorPcs, OuterPcs, CreatePcs, AddPcs, RemovePcs, DestroyPcs,
                inputs
  <2>2. \A p \in Operators : Stands(p)' /\ (p # o => Locked(p)' = Locked(p))
    BY Zenon, <2>1, OthersStand DEF ControlInv
  <2>3. MutexAccounted'
    BY <2>1, <2>2 DEF ControlInv, MutexAccounted
  <2> QED
    BY <2>1, <2>2, <2>3 DEF ControlInv, Exclusive
<1>6. ASSUME NEW o \in Operators, OuterUnlock(o) \/ Unlock(o) \/ CreateUnlock(o)
      PROVE  ControlInv'
  <2>1. /\ depth' = depth - 1 /\ mutex' = (IF depth = 1 THEN NULL ELSE o)
        /\ opc' \in [Operators -> OperatorPcs] /\ todo' \in [Operators -> Operations]
        /\ \A p \in Operators : p # o => opc'[p] = opc[p] /\ todo'[p] = todo[p]
        /\ todo'[o] \in {todo[o], "none"}
        /\ Stands(o)' /\ Locked(o)' = Locked(o) - 1 /\ Locked(o) \in {1, 2}
    BY <1>6 DEF OuterUnlock, Unlock, CreateUnlock, UnlockMutex, Finish, ControlInv,
                Stands, Locked, OuterHeld, InnerHeld, OGoto, OperatorPcs, Operations,
                OuterPcs, CreatePcs, AddPcs, RemovePcs, DestroyPcs, inputs
  <2>2. \A p \in Operators : Stands(p)' /\ (p # o => Locked(p)' = Locked(p))
    BY Zenon, <2>1, OthersStand DEF ControlInv
  <2>3. mutex = o /\ depth = Locked(o)
    BY <2>1 DEF ControlInv, MutexAccounted
  <2>4. MutexAccounted' /\ depth' \in Nat
    BY <2>1, <2>2, <2>3 DEF ControlInv, MutexAccounted
  <2>5. Exclusive'
    BY ZenonT(60), <2>1 DEF ControlInv, Exclusive
  <2> QED
    BY Zenon, <2>1, <2>2, <2>3, <2>4, <2>5 DEF ControlInv
<1> QED
  BY Zenon, <1>1, <1>2, <1>3, <1>4, <1>5, <1>6 DEF Next, Operator, Inside

(* The mutex of the hook API is locked exactly as often as its owner's     *)
(* nested operations have locked it, whatever operators and callers do.    *)
THEOREM MutexCorrect == Spec => []MutexAccounted
<1>1. Init => ControlInv
  BY ConstantsAssumption
     DEF Init, ControlInv, MutexAccounted, Exclusive, Stands, Locked, OuterHeld,
         InnerHeld, OperatorPcs, Operations, OuterPcs, CreatePcs, AddPcs, RemovePcs,
         DestroyPcs
<1> QED
  BY <1>1, ControlInductive, PTL DEF Spec, ControlInv

-----------------------------------------------------------------------------
(* On top of the mutex: what the bytes of the function and the live        *)
(* argument are at each step of the operator that owns it.                 *)

Bytes(h, t1, a) == head = h /\ tail = t1 /\ target = a

Unhooked == Bytes("original", "original", NULL) /\ Live = {}
Hooked(a) == a \in Args /\ Bytes("jump", "jump", a) /\ Live = {a}
Neutral == Unhooked \/ \E a \in Args : Hooked(a)

Using(o) == todo[o] \in {"add", "remove", "hook"}
Destroying(o) == todo[o] \in {"destroy", "unhook"}

(* What the owner of the mutex finds at each of its steps.                 *)
Owned(o) ==
  LET a == oarg[o]
      only(h, t1, b) == a \in Args /\ Bytes(h, t1, b) /\ Live = {a}
  IN /\ opc[o] \in {"dispatch", "create_test", "outer_unlock"} => Neutral
     /\ opc[o] \in {"create_lock", "create_build"} => Unhooked
     /\ opc[o] = "create_patch" => only("original", "original", NULL)
     /\ opc[o] = "create_jump" => only("jump", "torn", NULL)
     /\ opc[o] \in {"created", "spinner_lock", "destroy_lock", "fn_lock"}
                     \cup AddPcs \cup RemovePcs => Hooked(a)
     /\ opc[o] \in {"load", "store"} /\ Using(o) => Hooked(a)
     /\ opc[o] = "fn_restore" => only("lock", "jump", a)
     /\ opc[o] = "fn_unlock" => only("lock", "original", NULL)
     /\ opc[o] \in {"pause", "poll", "poll_release", "destroy_release", "free"} =>
          only("original", "original", NULL)
     /\ opc[o] \in {"load", "store"} /\ Destroying(o) =>
          only("original", "original", NULL)
     /\ opc[o] = "unlock" => IF Destroying(o) THEN Unhooked ELSE Neutral

(* An operator that waits for the mutex with a handle.                     *)
Waits(o) ==
  opc[o] \in {"spinner_lock", "destroy_lock"} /\ mutex # o => Hooked(oarg[o])

PatchInv ==
  /\ memory \in [Args -> {"unused", "live", "freed"}]
  /\ oarg \in [Operators -> Args \cup {NULL}]
  /\ mutex = NULL => Neutral
  /\ mutex # NULL => Owned(mutex)
  /\ \A o \in Operators : Waits(o)

(* Who is inside an operation owns the mutex.                              *)
LEMMA InsideOwns ==
  ASSUME ControlInv, NEW o \in Operators
  PROVE  /\ Locked(o) # 0 <=> mutex = o
         /\ opc[o] \notin {"idle", "outer_lock", "create_lock", "spinner_lock",
                          "destroy_lock"} => mutex = o
         /\ opc[o] \in {"idle", "outer_lock"} => mutex # o
         /\ opc[o] \in {"create_lock", "spinner_lock", "destroy_lock"}
              => (mutex = o <=> todo[o] \in {"hook", "unhook"})
<1>1. Locked(o) # 0 <=> mutex = o
  BY Zenon, ConstantsAssumption DEF ControlInv, MutexAccounted
<1> QED
  BY <1>1 DEF Locked, OuterHeld, InnerHeld, ControlInv, Stands, OuterPcs, CreatePcs,
              DestroyPcs

(* A complete jump leads to the only live argument.                        *)
LEMMA JumpIsHooked ==
  ASSUME ControlInv, PatchInv, head = "jump", tail = "jump"
  PROVE  Hooked(target)
<1>1. CASE mutex = NULL
  BY Zenon, <1>1 DEF PatchInv, Neutral, Unhooked, Hooked, Bytes
<1>2. CASE mutex # NULL
  <2>1. mutex \in Operators /\ Owned(mutex) /\ Stands(mutex) /\ opc[mutex] \in OperatorPcs
        /\ todo[mutex] \in Operations
    BY Zenon, <1>2 DEF PatchInv, ControlInv
  <2>2. opc[mutex] \notin {"idle", "outer_lock"}
    BY Zenon, <2>1, InsideOwns
  <2> QED
    BY Zenon, <2>1, <2>2
       DEF Owned, Neutral, Unhooked, Hooked, Bytes, Using, Destroying, Stands,
           OperatorPcs, Operations, AddPcs, RemovePcs, OuterPcs, CreatePcs, DestroyPcs
<1> QED
  BY Zenon, <1>1, <1>2

(* While an operator changes the bytes or the memory, nobody waits with a  *)
(* handle.                                                                 *)
LEMMA NobodyWaits ==
  ASSUME ControlInv, PatchInv, NEW o \in Operators, NEW p \in Operators, p # o,
         mutex = o, opc[p] \in {"spinner_lock", "destroy_lock"}
  PROVE  Hooked(oarg[p]) /\ ~Destroying(o)
<1>1. Waits(p) /\ mutex # p /\ Stands(p)
  BY Zenon DEF PatchInv, ControlInv
<1>2. todo[p] \in {"add", "remove", "destroy"}
  BY Zenon, <1>1, InsideOwns DEF Stands, DestroyPcs
<1> QED
  BY Zenon, <1>1, <1>2 DEF Waits, ControlInv, Exclusive, Destroying

(* Steps inside an operation that leave the bytes and the memory alone.    *)
Quiet(o) ==
  \/ Dispatch(o) \/ CreateTest(o) \/ SpinLoad(o) \/ SpinStore(o) \/ SpinUnlock(o)
  \/ Grow(o) \/ PutHook(o) \/ PutType(o) \/ PutCount(o) \/ PutNull(o)
  \/ Shift(o) \/ ShiftDone(o) \/ Pause(o) \/ Poll(o)

Patching(o) ==
  \/ CreateBuild(o) \/ CreatePatch(o) \/ CreateJump(o)
  \/ FunctionLock(o) \/ RestoreTail(o) \/ FunctionUnlock(o) \/ Free(o)

LEMMA QuietOwned ==
  ASSUME ControlInv, PatchInv, NEW o \in Operators, mutex = o, Quiet(o)
  PROVE  /\ UNCHANGED <<head, tail, target, memory, mutex, todo>>
         /\ oarg' \in [Operators -> Args \cup {NULL}]
         /\ \A p \in Operators : p # o => oarg'[p] = oarg[p] /\ opc'[p] = opc[p]
         /\ Owned(o)'
<1>1. Owned(o) /\ Stands(o) /\ opc \in [Operators -> OperatorPcs]
      /\ oarg \in [Operators -> Args \cup {NULL}] /\ todo[o] \in Operations
      /\ NULL \notin Operators
  BY Zenon, ConstantsAssumption DEF PatchInv, ControlInv
<1> USE <1>1 DEF Owned, Stands, OGoto, Using, Destroying, OuterPcs, CreatePcs, AddPcs,
                 RemovePcs, DestroyPcs, inputs, loops, fields, function, Live
<1>2. CASE Dispatch(o)
  <2>1. Neutral
    BY Zenon, <1>2 DEF Dispatch
  <2>2. target \in Args \cup {NULL} /\ (IsHooked => Hooked(target)) /\ (~IsHooked => Unhooked)
    BY Zenon, <2>1 DEF Neutral, Unhooked, Hooked, Bytes, IsHooked
  <2> QED
    BY ZenonT(30), <1>2, <2>1, <2>2 DEF Dispatch, Neutral, Unhooked, Hooked, Bytes
<1>3. CASE CreateTest(o)
  <2>1. Neutral
    BY Zenon, <1>3 DEF CreateTest
  <2>2. ~IsHooked => Unhooked
    BY Zenon, <2>1 DEF Neutral, Unhooked, Hooked, Bytes, IsHooked
  <2> QED
    BY ZenonT(60), <1>3, <2>1, <2>2 DEF CreateTest, Neutral, Unhooked, Hooked, Bytes
<1>4. CASE SpinLoad(o)
  BY Zenon, <1>4 DEF SpinLoad, Neutral, Unhooked, Hooked, Bytes, Operations
<1>5. CASE SpinStore(o)
  BY Zenon, <1>5 DEF SpinStore, Section, Neutral, Unhooked, Hooked, Bytes, Operations
<1>6. CASE SpinUnlock(o)
  <2>1. CASE opc[o] = "add_release"
    BY Zenon, <1>6, <2>1 DEF SpinUnlock, Hooked, Bytes, Operations
  <2>2. CASE opc[o] = "remove_release"
    BY <1>6, <2>2 DEF SpinUnlock, Neutral, Hooked, Bytes, Operations
  <2>3. CASE opc[o] \in {"poll_release", "destroy_release"}
    BY ZenonT(60), <1>6, <2>3 DEF SpinUnlock, Hooked, Bytes, Operations
  <2> QED
    BY Zenon, <1>6, <2>1, <2>2, <2>3 DEF SpinUnlock
<1>7. CASE Grow(o)
  BY Zenon, <1>7 DEF Grow, Neutral, Unhooked, Hooked, Bytes, Operations
<1>8. CASE PutHook(o)
  BY Zenon, <1>8 DEF PutHook, PutFrame, Neutral, Unhooked, Hooked, Bytes, Operations
<1>9. CASE PutType(o)
  BY Zenon, <1>9 DEF PutType, PutFrame, Neutral, Unhooked, Hooked, Bytes, Operations
<1>10. CASE PutCount(o)
  BY Zenon, <1>10 DEF PutCount, PutFrame, Neutral, Unhooked, Hooked, Bytes, Operations
<1>11. CASE PutNull(o)
  BY ZenonT(60), <1>11 DEF PutNull, PutFrame, Neutral, Unhooked, Hooked, Bytes, Operations
<1>12. CASE Shift(o)
  BY Zenon, <1>12 DEF Shift, Neutral, Unhooked, Hooked, Bytes, Operations
<1>13. CASE ShiftDone(o)
  BY Zenon, <1>13 DEF ShiftDone, Neutral, Unhooked, Hooked, Bytes, Operations
<1>14. CASE Pause(o)
  BY Zenon, <1>14 DEF Pause, DestroyFrame, Neutral, Unhooked, Hooked, Bytes, Operations
<1>15. CASE Poll(o)
  BY Zenon, <1>15 DEF Poll, DestroyFrame, Neutral, Unhooked, Hooked, Bytes, Operations
<1> QED
  BY Zenon, <1>2, <1>3, <1>4, <1>5, <1>6, <1>7, <1>8, <1>9, <1>10, <1>11, <1>12, <1>13, <1>14, <1>15 DEF Quiet

(* A step that changes the bytes or the memory; nobody waits meanwhile.    *)
LEMMA PatchingOwned ==
  ASSUME ControlInv, PatchInv, NEW o \in Operators, mutex = o, Patching(o)
  PROVE  /\ UNCHANGED <<mutex, todo>>
         /\ memory' \in [Args -> {"unused", "live", "freed"}]
         /\ oarg' \in [Operators -> Args \cup {NULL}]
         /\ \A p \in Operators : p # o => oarg'[p] = oarg[p] /\ opc'[p] = opc[p]
         /\ Owned(o)'
         /\ \A p \in Operators :
              p # o => opc[p] \notin {"spinner_lock", "destroy_lock"}
<1>1. Owned(o) /\ Stands(o) /\ opc \in [Operators -> OperatorPcs]
      /\ oarg \in [Operators -> Args \cup {NULL}] /\ todo[o] \in Operations
      /\ NULL \notin Operators /\ memory \in [Args -> {"unused", "live", "freed"}]
  BY Zenon, ConstantsAssumption DEF PatchInv, ControlInv
<1> USE <1>1 DEF Owned, Stands, OGoto, Using, Destroying, OuterPcs, CreatePcs, AddPcs,
                 RemovePcs, DestroyPcs, inputs, loops, fields, function
<1>2. CASE CreateBuild(o)
  <2>1. Unhooked
    BY Zenon, <1>2 DEF CreateBuild
  <2>2. PICK a \in Args : memory' = [memory EXCEPT ![a] = "live"] /\ oarg' = [oarg EXCEPT ![o] = a]
    BY Zenon, <1>2 DEF CreateBuild
  <2>3. Live' = {a}
    BY Zenon, <2>1, <2>2 DEF Live, Unhooked
  <2>4. \A p \in Operators : p # o => opc[p] \notin {"spinner_lock", "destroy_lock"}
    BY Zenon, <2>1, NobodyWaits DEF Unhooked, Hooked, Bytes
  <2> QED
    BY <1>2, <2>1, <2>2, <2>3, <2>4 DEF CreateBuild, Unhooked, Bytes
<1>3. CASE CreatePatch(o) \/ CreateJump(o)
  <2>1. \A p \in Operators : p # o => opc[p] \notin {"spinner_lock", "destroy_lock"}
    BY Zenon, <1>3, NobodyWaits DEF CreatePatch, CreateJump, Hooked, Bytes
  <2> QED
    BY ZenonT(60), <1>3, <2>1 DEF CreatePatch, CreateJump, Hooked, Bytes, Live
<1>4. CASE FunctionLock(o) \/ RestoreTail(o) \/ FunctionUnlock(o)
  <2>1. \A p \in Operators : p # o => opc[p] \notin {"spinner_lock", "destroy_lock"}
    BY Zenon, <1>4, NobodyWaits DEF FunctionLock, RestoreTail, FunctionUnlock
  <2> QED
    <3>1. CASE FunctionLock(o)
      BY Zenon, <2>1, <3>1 DEF FunctionLock, DestroyFrame, Hooked, Bytes, Live
    <3>2. CASE RestoreTail(o)
      BY Zenon, <2>1, <3>2 DEF RestoreTail, DestroyFrame, Hooked, Bytes, Live
    <3>3. CASE FunctionUnlock(o)
      BY Zenon, <2>1, <3>3 DEF FunctionUnlock, DestroyFrame, Hooked, Bytes, Live
    <3> QED
      BY Zenon, <1>4, <3>1, <3>2, <3>3
<1>5. CASE Free(o)
  <2>1. \A p \in Operators : p # o => opc[p] \notin {"spinner_lock", "destroy_lock"}
    BY Zenon, <1>5, NobodyWaits DEF Free
  <2>2. Bytes("original", "original", NULL) /\ Live = {oarg[o]}
    BY Zenon, <1>5 DEF Free
  <2>3. Unhooked'
    BY Zenon, <1>5, <2>2 DEF Free, Unhooked, Bytes, Live
  <2> QED
    BY Zenon, <1>5, <2>1, <2>3 DEF Free
<1> QED
  BY Zenon, <1>2, <1>3, <1>4, <1>5 DEF Patching

(* PatchInv is inductive relative to ControlInv.                           *)
LEMMA PatchInductive ==
  ControlInv /\ ControlInv' /\ PatchInv /\ [Next]_vars => PatchInv'
<1> SUFFICES ASSUME ControlInv, ControlInv', PatchInv, [Next]_vars PROVE PatchInv'
  BY Zenon
<1> USE ConstantsAssumption
<1> DEFINE Same == UNCHANGED <<head, tail, target, memory>>
<1>0. Same => /\ (Neutral => Neutral') /\ (Unhooked => Unhooked')
              /\ \A a : Hooked(a) => Hooked(a)'
  BY Zenon DEF Neutral, Unhooked, Hooked, Bytes, Live
<1>1. ASSUME Same, UNCHANGED <<mutex, opc, oarg, todo>> PROVE PatchInv'
  BY ZenonT(30), <1>1 DEF PatchInv, Owned, Waits, Using, Destroying, Neutral, Unhooked, Hooked,
              Bytes, Live
<1>2. CASE UNCHANGED vars
  BY Zenon, <1>1, <1>2 DEF vars, function, operators, inputs
<1>3. ASSUME NEW c \in Callers, Call(c) \/ Caller(c) PROVE PatchInv'
  BY Zenon, <1>1, <1>3, CallerStep
<1>4. ASSUME NEW o \in Operators, StartOperation(o) PROVE PatchInv'
  <2>1. /\ Same /\ mutex' = mutex /\ opc[o] = "idle"
        /\ oarg' \in [Operators -> Args \cup {NULL}]
        /\ \A p \in Operators :
             p # o => oarg'[p] = oarg[p] /\ opc'[p] = opc[p] /\ todo'[p] = todo[p]
        /\ opc'[o] \in {"spinner_lock", "destroy_lock"} => Installed(oarg'[o])
    <3>1. CASE StartCreate(o)
      BY Zenon, <3>1 DEF StartCreate, Start, OGoto, HandleValid, ControlInv, PatchInv, function
    <3>2. CASE StartAdd(o)
      BY <3>2 DEF StartAdd, Start, OGoto, HandleValid, ControlInv, PatchInv, function
    <3>3. CASE StartRemove(o)
      BY <3>3 DEF StartRemove, Start, OGoto, HandleValid, ControlInv, PatchInv, function
    <3>4. CASE StartDestroy(o)
      BY <3>4 DEF StartDestroy, Start, OGoto, HandleValid, ControlInv, PatchInv, function
    <3>5. CASE StartHook(o)
      BY ZenonT(60), <3>5 DEF StartHook, Start, OGoto, HandleValid, ControlInv, PatchInv, function
    <3>6. CASE StartUnhook(o)
      BY Zenon, <3>6 DEF StartUnhook, Start, OGoto, HandleValid, ControlInv, PatchInv, function
    <3> QED
      BY Zenon, <1>4, <3>1, <3>2, <3>3, <3>4, <3>5, <3>6 DEF StartOperation
  <2>2. mutex # o
    BY Zenon, <2>1, InsideOwns
  <2>3. Waits(o)'
    BY Zenon, <1>0, <2>1, JumpIsHooked DEF Waits, Installed
  <2>4. \A p \in Operators : p # o => Waits(p)'
    BY Zenon, <1>0, <2>1 DEF Waits, PatchInv
  <2>5. mutex # NULL => Owned(mutex)'
    BY ZenonT(30), <2>1, <2>2 DEF Owned, PatchInv, ControlInv, Using, Destroying, Neutral, Unhooked,
                      Hooked, Bytes, Live
  <2> QED
    BY Zenon, <1>0, <2>1, <2>2, <2>3, <2>4, <2>5 DEF PatchInv
<1>5. ASSUME NEW o \in Operators, Inside(o) PROVE PatchInv'
  <2>1. mutex = o /\ mutex # NULL
    BY Zenon, <1>5, InsideOwns
       DEF Inside, Dispatch, CreateTest, CreateBuild, CreatePatch, CreateJump, SpinLoad,
           SpinStore, SpinUnlock, Grow, PutHook, PutType, PutCount, PutNull, Shift,
           ShiftDone, FunctionLock, RestoreTail, FunctionUnlock, Pause, Poll, Free, OGoto
  <2>2. CASE Quiet(o)
    <3>1. \A p \in Operators : p # o => Waits(p)'
      BY Zenon, <1>0, <2>1, <2>2, QuietOwned DEF Waits, PatchInv
    <3>2. Waits(o)'
      BY Zenon, <2>1, <2>2, QuietOwned DEF Waits
    <3> QED
      BY Zenon, <2>1, <2>2, <3>1, <3>2, QuietOwned DEF PatchInv
  <2>3. CASE Patching(o)
    <3>1. \A p \in Operators : Waits(p)'
      BY Zenon, <2>1, <2>3, PatchingOwned DEF Waits
    <3> QED
      BY Zenon, <2>1, <2>3, <3>1, PatchingOwned DEF PatchInv
  <2> QED
    BY Zenon, <1>5, <2>2, <2>3 DEF Inside, Quiet, Patching
<1>6. ASSUME NEW o \in Operators, LockIn(o) PROVE PatchInv'
  <2>1. /\ Same /\ mutex \in {NULL, o} /\ mutex' = o /\ UNCHANGED <<oarg, todo>>
        /\ \A p \in Operators : p # o => opc'[p] = opc[p]
        /\ \/ opc[o] = "outer_lock" /\ opc'[o] = "dispatch"
           \/ opc[o] = "create_lock" /\ opc'[o] = "create_test"
           \/ opc[o] = "spinner_lock" /\ opc'[o] = "load"
           \/ opc[o] = "destroy_lock" /\ opc'[o] = "fn_lock"
    BY Zenon, <1>6 DEF LockIn, LockMutex, OGoto, ControlInv, function, inputs
  <2>2. opc[o] \in {"outer_lock", "create_lock"} => Neutral
    BY Zenon, <2>1, InsideOwns DEF PatchInv, Owned, Neutral
  <2>3. opc[o] \in {"spinner_lock", "destroy_lock"} => Hooked(oarg[o])
    BY Zenon, <2>1 DEF PatchInv, Waits, Owned
  <2>4. opc[o] = "spinner_lock" => todo[o] \in {"add", "remove", "hook"}
    BY Zenon DEF ControlInv, Stands
  <2>5. Owned(o)'
    BY Zenon, <1>0, <2>1, <2>2, <2>3, <2>4
       DEF Owned, Using, Destroying, AddPcs, RemovePcs
  <2>6. ASSUME NEW p \in Operators PROVE Waits(p)'
    <3>1. CASE p = o
      BY Zenon, <2>1, <3>1 DEF Waits
    <3>2. CASE p # o
      <4>1. Waits(p) /\ opc'[p] = opc[p] /\ oarg'[p] = oarg[p] /\ mutex # p
        BY Zenon, <1>0, <2>1, <3>2, ConstantsAssumption DEF PatchInv
      <4> QED
        BY Zenon, <1>0, <2>1, <4>1 DEF Waits
    <3> QED
      BY Zenon, <3>1, <3>2
  <2> QED
    BY Zenon, <2>1, <2>5, <2>6 DEF PatchInv
<1>7. ASSUME NEW o \in Operators, OuterUnlock(o) \/ Unlock(o) \/ CreateUnlock(o)
      PROVE  PatchInv'
  <2>1. /\ Same /\ mutex' \in {NULL, o}
        /\ oarg' \in [Operators -> Args \cup {NULL}]
        /\ \A p \in Operators : p # o => opc'[p] = opc[p] /\ oarg'[p] = oarg[p]
        /\ \/ opc[o] = "outer_unlock" /\ opc'[o] = "idle"
           \/ opc[o] = "unlock" /\ opc'[o] \in {"idle", "outer_unlock"}
           \/ opc[o] = "created" /\ opc'[o] = "idle"
           \/ opc[o] = "created" /\ opc'[o] = "spinner_lock" /\ oarg'[o] = oarg[o]
    BY Zenon, <1>7 DEF OuterUnlock, Unlock, CreateUnlock, UnlockMutex, Finish, OGoto,
                ControlInv, PatchInv, function
  <2>2. mutex = o /\ mutex # NULL
    BY Zenon, <2>1, InsideOwns
  <2>3. Neutral /\ (opc[o] = "created" => Hooked(oarg[o]))
    BY Zenon, <2>1, <2>2 DEF PatchInv, Owned, Neutral, Hooked
  <2>4. Waits(o)'
    BY Zenon, <1>0, <2>1, <2>3 DEF Waits
  <2>5. \A p \in Operators : p # o => Waits(p)'
    BY Zenon, <1>0, <2>1, <2>2 DEF Waits, PatchInv
  <2>6. mutex' = o => Owned(o)'
    <3> SUFFICES ASSUME mutex' = o PROVE Owned(o)'
      BY Zenon
    <3>1. opc'[o] # "idle"
      BY InsideOwns DEF ControlInv, MutexAccounted, Locked, OuterHeld, InnerHeld, Stands
    <3> QED
      BY Zenon, <1>0, <2>1, <2>3, <3>1 DEF Owned, AddPcs, RemovePcs
  <2> QED
    BY Zenon, <1>0, <2>1, <2>2, <2>3, <2>4, <2>5, <2>6 DEF PatchInv
<1> QED
  BY Zenon, <1>2, <1>3, <1>4, <1>5, <1>6, <1>7 DEF Next, Operator, Inside

(* Between operations the function is patched if and only if one hook      *)
(* argument is live, and it jumps to that one's prologue: no operation     *)
(* leaks an argument or leaves a jump to a freed one.                      *)
THEOREM PatchCorrect == Spec => []PatchedIffLive
<1>1. Init => ControlInv /\ PatchInv
  BY ConstantsAssumption
     DEF Init, ControlInv, MutexAccounted, Exclusive, Stands, Locked, OuterHeld,
         InnerHeld, OperatorPcs, Operations, OuterPcs, CreatePcs, AddPcs, RemovePcs,
         DestroyPcs, PatchInv, Neutral, Unhooked, Bytes, Live, Waits
<1>2. PatchInv => PatchedIffLive
  BY Zenon DEF PatchInv, PatchedIffLive, Neutral, Unhooked, Hooked, Bytes, Installed
<1> QED
  BY <1>1, <1>2, ControlInductive, PatchInductive, PTL DEF Spec

-----------------------------------------------------------------------------
(* The hook arrays: their invariant, and the steps that write the arrays   *)
(* or clone them.                                                          *)

Adding(o) == opc[o] \in {"add_release", "put_hook", "put_type", "put_count"}

InPrologue(c) == pc[c] \in {"movabs", "enter", "spin", "struct", "hooks", "types",
                           "leave", "stale", "unlock", "pre", "bridge", "post",
                           "epilogue"}

(* The arrays, and the room HookAdd has made before it writes.             *)
ArraysPart ==
  /\ hook \in [Args -> Seq(Hooks \cup {NULL})] /\ hookType \in [Args -> Seq(HookTypes)]
  /\ hookCount \in [Args -> Int]
  /\ ArraysEnded /\ \A a \in Live : Len(hook[a]) > 0
  /\ \A o \in Operators : Adding(o) => hookCount[oarg[o]] + 1 < Len(hook[oarg[o]])

ArraysInv ==
  /\ TypeOK /\ ArraysPart
  /\ \A c \in Callers : InPrologue(c) => carg[c] \in Args
  /\ \A a \in Args : memory[a] = "unused" => entryCount[a] = 0 /\ hookCount[a] = 0

(* What the arrays of one argument are, and what their updates give.       *)
LEMMA ArrayOf ==
  ASSUME NEW D, NEW S, NEW f \in [D -> Seq(S)], NEW d \in D
  PROVE  f[d] \in Seq(S) /\ Len(f[d]) \in Nat
  OBVIOUS

LEMMA CellsOfArray ==
  ASSUME NEW q \in Seq(Hooks \cup {NULL}), NEW n \in Nat, n > 0
  PROVE  CellsAt(q, n) \subseteq Hooks \cup {NULL}
  BY DEF CellsAt

LEMMA UpdatedArray ==
  ASSUME NEW S, NEW q \in Seq(S), NEW i \in Int, NEW x \in S
  PROVE  LET r == [q EXCEPT ![i] = x]
         IN /\ r \in Seq(S) /\ Len(r) = Len(q)
            /\ \A j \in 1..Len(q) : j # i => r[j] = q[j]
            /\ i \in 1..Len(q) => r[i] = x
<1> DEFINE r == [q EXCEPT ![i] = x]
<1>1. q \in [1..Len(q) -> S] /\ Len(q) \in Nat
  OBVIOUS
<1>2. r \in [1..Len(q) -> S]
  BY Zenon, <1>1
<1>3. r \in Seq(S) /\ Len(r) = Len(q)
  BY <1>1, <1>2
<1> QED
  BY Zenon, <1>1, <1>3

Updated(r, q, S, i, x) ==
  /\ r \in Seq(S) /\ Len(r) = Len(q)
  /\ \A j \in 1..Len(q) : j # i => r[j] = q[j]
  /\ i \in 1..Len(q) => r[i] = x

LEMMA UpdatedIs ==
  ASSUME NEW S, NEW q \in Seq(S), NEW i \in Int, NEW x \in S, NEW r, r = [q EXCEPT ![i] = x]
  PROVE  Updated(r, q, S, i, x)
  BY UpdatedArray DEF Updated

LEMMA UpdatedFunction ==
  ASSUME NEW D, NEW S, NEW f \in [D -> S], NEW d, NEW x \in S
  PROVE  [f EXCEPT ![d] = x] \in [D -> S]
  BY Zenon

LEMMA GrownArray ==
  ASSUME NEW S, NEW q \in Seq(S), NEW zero \in S, NEW n \in Int, n <= Len(q), Len(q) > 0
  PROVE  LET r == Grown(q, n, zero)
         IN r \in Seq(S) /\ Len(r) = 2 * Len(q) /\ (n < 2 * Len(q) => r[Len(r)] = zero)
<1> DEFINE r == Grown(q, n, zero)
<1>1. r = [i \in 1..2 * Len(q) |-> IF i <= n THEN q[i] ELSE zero]
  BY Zenon DEF Grown
<1>2. Len(q) \in Nat /\ 2 * Len(q) \in Nat /\ \A i \in 1..Len(q) : q[i] \in S
  OBVIOUS
<1>3. r \in Seq(S) /\ Len(r) = 2 * Len(q)
  <2>1. \A i \in 1..2 * Len(q) : (IF i <= n THEN q[i] ELSE zero) \in S
    BY <1>2
  <2>2. r \in [1..2 * Len(q) -> S]
    BY Zenon, <1>1, <2>1
  <2> QED
    BY <1>2, <2>2
<1> QED
  BY <1>1, <1>2, <1>3

LEMMA ZeroArray ==
  ASSUME NEW S, NEW zero \in S, NEW n \in Nat, n > 0
  PROVE  /\ Zeroes(zero, n) \in Seq(S) /\ Len(Zeroes(zero, n)) = n
         /\ Zeroes(zero, n)[n] = zero
  BY DEF Zeroes

(* A caller's step keeps the types and moves inside the prologue with the  *)
(* argument the jump gave it.                                              *)
LEMMA CallerArrays ==
  ASSUME ControlInv, PatchInv, ArraysInv, NEW c \in Callers, Call(c) \/ Caller(c)
  PROVE  ArraysInv'
<1> DEFINE Places == /\ pc' \in [Callers -> CallerPcs]
                     /\ carg' \in [Callers -> Args \cup {NULL}]
                     /\ \A d \in Callers : InPrologue(d)' => carg'[d] \in Args
           Clones == /\ csize' \in [Callers -> Nat]
                     /\ chook' \in [Callers -> Seq(Hooks \cup {NULL})]
                     /\ ctype' \in [Callers -> Seq(HookTypes)]
           Counts == /\ entryCount' \in [Args -> Int] /\ lock' \in [Args -> {0, 1}]
                     /\ \A a \in Args : memory[a] = "unused" => entryCount'[a] = entryCount[a]
<1> SUFFICES Places /\ Clones /\ Counts
  BY ZenonT(60), CallerStep DEF ArraysInv, ArraysPart, TypeOK, ArraysEnded, Live, Adding
<1>1. TypeOK /\ ArraysEnded /\ \A d \in Callers : InPrologue(d) => carg[d] \in Args
  BY Zenon DEF ArraysInv, ArraysPart
<1>a. UNCHANGED clones => Clones
  BY Zenon, <1>1 DEF clones, TypeOK
<1>b. UNCHANGED fields => Counts
  BY Zenon, <1>1 DEF fields, TypeOK
<1> USE DEF CGoto, clones, fields, CallerPcs, InPrologue
<1>2. CASE Call(c)
  <2>1. head = "jump" /\ tail = "jump" => target \in Args
    BY Zenon, JumpIsHooked DEF Hooked
  <2>2. Clones /\ Counts
    BY Zenon, <1>2, <1>a, <1>b DEF Call
  <2>3. pc \in [Callers -> CallerPcs] /\ carg \in [Callers -> Args \cup {NULL}]
        /\ target \in Args \cup {NULL}
    BY Zenon, <1>1 DEF TypeOK
  <2>4. pc' \in [Callers -> CallerPcs] /\ carg' \in [Callers -> Args \cup {NULL}]
    BY Zenon, <1>2, <2>3 DEF Call
  <2>5. \/ pc'[c] \in {"head", "torn"}
        \/ pc'[c] = "movabs" /\ carg'[c] \in Args
    BY Zenon, <1>2, <2>1, <2>3 DEF Call
  <2>6. ASSUME NEW d \in Callers, d # c
        PROVE  pc'[d] = pc[d] /\ carg'[d] = carg[d]
    BY Zenon, <1>2, <2>3, <2>6 DEF Call
  <2>7. ASSUME NEW d \in Callers, InPrologue(d)'
        PROVE  carg'[d] \in Args
    <3>1. CASE d = c
      BY Zenon, <2>5, <2>7, <3>1
    <3>2. CASE d # c
      BY Zenon, <1>1, <2>6, <2>7, <3>2
    <3> QED
      BY Zenon, <3>1, <3>2
  <2> QED
    BY Zenon, <2>2, <2>4, <2>7
<1>3. CASE RunOriginal(c) \/ JumpToPrologue(c) \/ RunPreHooks(c) \/ RunBridge(c)
           \/ RunPostHooks(c) \/ CloneFreedArrays(c) \/ UseFreed(c)
  <2>1. Clones /\ Counts
    BY Zenon, <1>3, <1>a, <1>b DEF RunOriginal, JumpToPrologue, RunPreHooks, RunBridge,
                            RunPostHooks, CloneFreedArrays, UseFreed
  <2>2. pc \in [Callers -> CallerPcs] /\ carg \in [Callers -> Args \cup {NULL}]
    BY Zenon, <1>1 DEF TypeOK
  <2>3. Places
    BY ZenonT(60), <1>1, <1>3, <2>2 DEF RunOriginal, JumpToPrologue, RunPreHooks, RunBridge,
                            RunPostHooks, CloneFreedArrays, UseFreed
  <2> QED
    BY Zenon, <2>1, <2>3
<1>4. CASE EnterPrologue(c) \/ LeavePrologue(c)
  <2>1. /\ pc \in [Callers -> CallerPcs] /\ carg \in [Callers -> Args \cup {NULL}]
        /\ entryCount \in [Args -> Int] /\ lock \in [Args -> {0, 1}]
    BY Zenon, <1>1 DEF TypeOK
  <2>2. Clones
    BY Zenon, <1>4, <1>a DEF EnterPrologue, LeavePrologue
  <2>3. Places
    BY Zenon, <1>1, <1>4, <2>1 DEF EnterPrologue, LeavePrologue
  <2>4. Counts
    BY <1>4, <2>1 DEF EnterPrologue, LeavePrologue, Alive
  <2> QED
    BY Zenon, <2>2, <2>3, <2>4
<1>5. CASE SpinInPrologue(c) \/ UnlockInHandler(c)
  BY ZenonT(60), <1>1, <1>5 DEF SpinInPrologue, UnlockInHandler, TypeOK
<1>6. CASE CloneStruct(c)
  <2>1. /\ pc \in [Callers -> CallerPcs] /\ csize \in [Callers -> Nat]
        /\ carg[c] \in Args /\ hook[carg[c]] \in Seq(Hooks \cup {NULL})
    BY Zenon, <1>1, <1>6 DEF CloneStruct, TypeOK
  <2>2. Places /\ Counts
    <3>1. Counts
      BY Zenon, <1>6, <1>b DEF CloneStruct
    <3>2. pc' = [pc EXCEPT ![c] = "hooks"] /\ carg' = carg
      BY Zenon, <1>6 DEF CloneStruct
    <3>3. pc' \in [Callers -> CallerPcs] /\ \A d \in Callers : d # c => pc'[d] = pc[d]
      BY Zenon, <2>1, <3>2
    <3> QED
      BY Zenon, <1>1, <2>1, <3>1, <3>2, <3>3 DEF TypeOK
  <2>3. csize' \in [Callers -> Nat]
    BY <1>6, <2>1 DEF CloneStruct
  <2>4. Clones
    BY Zenon, <1>1, <1>6, <2>3 DEF CloneStruct, TypeOK
  <2> QED
    BY Zenon, <2>2, <2>4
<1>7. CASE CloneHook(c)
  <2>1. carg[c] \in Args /\ hook[carg[c]] \in Seq(Hooks \cup {NULL})
        /\ hookType[carg[c]] \in Seq(HookTypes) /\ chook[c] \in Seq(Hooks \cup {NULL})
    BY Zenon, <1>1, <1>7 DEF CloneHook, TypeOK
  <2>2. CASE Len(chook[c]) < csize[c] /\ SameArrays(c)
             /\ chook' = [chook EXCEPT ![c] = Append(@, hook[carg[c]][Len(chook[c]) + 1])]
             /\ UNCHANGED <<pc, csize>>
    <3>1. hook[carg[c]][Len(chook[c]) + 1] \in Hooks \cup {NULL}
      BY <2>1, <2>2 DEF SameArrays
    <3>2. chook' \in [Callers -> Seq(Hooks \cup {NULL})]
      BY <1>1, <2>1, <2>2, <3>1 DEF TypeOK
    <3> QED
      BY Zenon, <1>1, <1>7, <2>2, <3>2 DEF CloneHook, TypeOK
  <2>3. CASE CGoto(c, "hooks", "types") /\ UNCHANGED chook
             /\ csize' = [csize EXCEPT ![c] = Len(hookType[carg[c]])]
    <3>1. Len(hookType[carg[c]]) \in Nat
      BY <2>1
    <3>2. Clones
      BY Zenon, <1>1, <1>7, <2>3, <3>1 DEF CloneHook, TypeOK
    <3>3. Counts
      BY Zenon, <1>7, <1>b DEF CloneHook
    <3>4. pc' = [pc EXCEPT ![c] = "types"] /\ carg' = carg
      BY Zenon, <1>7, <2>3 DEF CloneHook
    <3>5. pc' \in [Callers -> CallerPcs] /\ \A d \in Callers : d # c => pc'[d] = pc[d]
      BY Zenon, <1>1, <3>4 DEF TypeOK
    <3>6. Places
      BY Zenon, <1>1, <2>1, <3>4, <3>5 DEF TypeOK
    <3> QED
      BY Zenon, <3>2, <3>3, <3>6
  <2> QED
    BY Zenon, <1>7, <2>2, <2>3 DEF CloneHook
<1>8. CASE CloneType(c)
  <2>1. carg[c] \in Args /\ hook[carg[c]] \in Seq(Hooks \cup {NULL})
        /\ hookType[carg[c]] \in Seq(HookTypes) /\ ctype[c] \in Seq(HookTypes)
        /\ Len(hookType[carg[c]]) = Len(hook[carg[c]])
    BY Zenon, <1>1, <1>8 DEF CloneType, TypeOK, Alive, ArraysEnded, Live
  <2>2. CASE Len(ctype[c]) < csize[c] /\ SameArrays(c)
             /\ ctype' = [ctype EXCEPT ![c] = Append(@, hookType[carg[c]][Len(ctype[c]) + 1])]
             /\ UNCHANGED pc
    <3>1. hookType[carg[c]][Len(ctype[c]) + 1] \in HookTypes
      BY <2>1, <2>2 DEF SameArrays
    <3>2. ctype' \in [Callers -> Seq(HookTypes)]
      BY <1>1, <2>1, <2>2, <3>1 DEF TypeOK
    <3> QED
      BY Zenon, <1>1, <1>8, <2>2, <3>2 DEF CloneType, TypeOK
  <2>3. CASE CGoto(c, "types", "leave") /\ UNCHANGED ctype
    BY Zenon, <1>1, <1>8, <2>1, <2>3 DEF CloneType, TypeOK
  <2> QED
    BY Zenon, <1>8, <2>2, <2>3 DEF CloneType
<1>9. CASE Epilogue(c)
  <2>1. pc \in [Callers -> CallerPcs] /\ carg \in [Callers -> Args \cup {NULL}]
    BY Zenon, <1>1 DEF TypeOK
  <2>2. Places /\ Counts
    BY Zenon, <1>1, <1>9, <1>b, <2>1 DEF Epilogue
  <2>3. <<>> \in Seq(Hooks \cup {NULL}) /\ <<>> \in Seq(HookTypes)
    OBVIOUS
  <2>4. Clones
    BY Zenon, <1>1, <1>9, <2>3 DEF Epilogue, TypeOK
  <2> QED
    BY Zenon, <2>2, <2>4
<1> QED
  BY Zenon, <1>2, <1>3, <1>4, <1>5, <1>6, <1>7, <1>8, <1>9 DEF Caller

(* Inside HookAdd and HookRemove the operator owns the live argument.      *)
LEMMA ArrayOwner ==
  ASSUME ControlInv, PatchInv, NEW o \in Operators, opc[o] \in AddPcs \cup RemovePcs
  PROVE  /\ mutex = o /\ oarg[o] \in Args /\ Live = {oarg[o]}
         /\ \A p \in Operators : p # o => ~Adding(p)
<1>1. mutex = o
  BY Zenon, InsideOwns DEF AddPcs, RemovePcs
<1>2. \A p \in Operators : p # o => ~Adding(p)
  BY Zenon, <1>1, InsideOwns DEF Adding
<1>3. Hooked(oarg[o])
  BY Zenon, <1>1, ConstantsAssumption DEF PatchInv, Owned
<1> QED
  BY Zenon, <1>1, <1>2, <1>3 DEF Hooked

LEMMA GrowArrays ==
  ASSUME ControlInv, PatchInv, ArraysInv, NEW o \in Operators, Grow(o)
  PROVE  ArraysPart'
<1> DEFINE a == oarg[o]
<1>1. /\ a \in Args /\ Live = {a} /\ Live' = {a} /\ oarg' = oarg
      /\ \A p \in Operators : p # o => ~Adding(p)'
  BY Zenon, ArrayOwner DEF Grow, OGoto, AddPcs, Live, ControlInv, Adding
<1>2. /\ hook \in [Args -> Seq(Hooks \cup {NULL})] /\ hookType \in [Args -> Seq(HookTypes)]
      /\ hookCount \in [Args -> Int]
      /\ Len(hookType[a]) = Len(hook[a]) /\ hookCount[a] < Len(hook[a])
      /\ hook[a][Len(hook[a])] = NULL /\ hookType[a][Len(hook[a])] = 0
      /\ Len(hook[a]) > 0
  BY Zenon, <1>1 DEF ArraysInv, ArraysPart, ArraysEnded
<1>3. /\ hook[a] \in Seq(Hooks \cup {NULL}) /\ hookType[a] \in Seq(HookTypes)
      /\ hookCount[a] \in Int /\ Len(hook[a]) \in Nat
  <2> HIDE DEF a
  <2>1. hook[a] \in Seq(Hooks \cup {NULL}) /\ Len(hook[a]) \in Nat
    BY Zenon, <1>1, <1>2, ArrayOf
  <2>2. hookType[a] \in Seq(HookTypes)
    BY Zenon, <1>1, <1>2, ArrayOf
  <2>3. hookCount[a] \in Int
    BY Zenon, <1>1, <1>2
  <2> QED
    BY Zenon, <2>1, <2>2, <2>3
<1>4. CASE hookCount[a] < Len(hook[a]) - 1
  <2>1. UNCHANGED <<hook, hookType, hookCount>>
    BY <1>3, <1>4 DEF Grow
  <2> QED
    BY <1>1, <1>2, <1>3, <1>4, <2>1 DEF ArraysPart, ArraysEnded
<1>5. CASE hookCount[a] >= Len(hook[a]) - 1
  <2> DEFINE h == Grown(hook[a], hookCount[a], NULL)
             ty == Grown(hookType[a], hookCount[a], 0)
  <2>1. /\ hook' = [hook EXCEPT ![a] = h] /\ hookType' = [hookType EXCEPT ![a] = ty]
        /\ hookCount' = hookCount
    BY Zenon, <1>5 DEF Grow
  <2>2. hookCount[a] <= Len(hook[a]) /\ hookCount[a] < 2 * Len(hook[a])
    BY <1>2, <1>3
  <2>3. h \in Seq(Hooks \cup {NULL}) /\ Len(h) = 2 * Len(hook[a]) /\ h[Len(h)] = NULL
    BY <1>2, <1>3, <2>2, GrownArray
  <2>4. ty \in Seq(HookTypes) /\ Len(ty) = 2 * Len(hook[a]) /\ ty[Len(ty)] = 0
    <3>1. 0 \in HookTypes
      BY Zenon DEF HookTypes
    <3>2. hookCount[a] <= Len(hookType[a]) /\ Len(hookType[a]) > 0
          /\ hookCount[a] < 2 * Len(hookType[a])
      BY Zenon, <1>2, <2>2
    <3>3. ty \in Seq(HookTypes) /\ Len(ty) = 2 * Len(hookType[a]) /\ ty[Len(ty)] = 0
      BY <1>3, <3>1, <3>2, GrownArray
    <3> QED
      BY Zenon, <1>2, <3>3
  <2>5. /\ hook'[a] = h /\ hookType'[a] = ty
        /\ hook' \in [Args -> Seq(Hooks \cup {NULL})] /\ hookType' \in [Args -> Seq(HookTypes)]
    BY Zenon, <1>1, <1>2, <2>1, <2>3, <2>4
  <2>6. hookCount'[a] + 1 < Len(h)
    BY <1>2, <1>3, <2>1, <2>3
  <2> HIDE DEF h, ty
  <2> QED
    BY <1>1, <1>2, <1>3, <2>1, <2>3, <2>4, <2>5, <2>6 DEF ArraysPart, ArraysEnded
<1> QED
  BY <1>3, <1>4, <1>5

LEMMA PutArrays ==
  ASSUME ControlInv, PatchInv, ArraysInv, NEW o \in Operators,
         PutHook(o) \/ PutType(o) \/ PutCount(o) \/ PutNull(o),
         ohook[o] \in Hooks \cup {NULL}, otype[o] \in HookTypes
  PROVE  ArraysPart'
<1> DEFINE a == oarg[o]
           i == hookCount[a] + 1
<1>1. /\ a \in Args /\ Live = {a} /\ Live' = {a} /\ oarg' = oarg
      /\ \A p \in Operators : p # o => ~Adding(p)'
  BY ZenonT(60), ArrayOwner DEF PutHook, PutType, PutCount, PutNull, PutFrame, OGoto, AddPcs, Live,
                    ControlInv, Adding
<1>2. /\ hook \in [Args -> Seq(Hooks \cup {NULL})] /\ hookType \in [Args -> Seq(HookTypes)]
      /\ hookCount \in [Args -> Int]
      /\ Len(hookType[a]) = Len(hook[a]) /\ hookCount[a] < Len(hook[a])
      /\ hook[a][Len(hook[a])] = NULL /\ hookType[a][Len(hook[a])] = 0
      /\ Len(hook[a]) > 0
  BY Zenon, <1>1 DEF ArraysInv, ArraysPart, ArraysEnded
<1>3. /\ hook[a] \in Seq(Hooks \cup {NULL}) /\ hookType[a] \in Seq(HookTypes)
      /\ hookCount[a] \in Int /\ Len(hook[a]) \in Nat
  <2> HIDE DEF a
  <2>1. hook[a] \in Seq(Hooks \cup {NULL}) /\ Len(hook[a]) \in Nat
    BY Zenon, <1>1, <1>2, ArrayOf
  <2>2. hookType[a] \in Seq(HookTypes)
    BY Zenon, <1>1, <1>2, ArrayOf
  <2>3. hookCount[a] \in Int
    BY Zenon, <1>1, <1>2
  <2> QED
    BY Zenon, <2>1, <2>2, <2>3
<1>i. i \in Int /\ Len(hook[a]) \in 1..Len(hook[a]) /\ Len(hook[a]) \in 1..Len(hookType[a])
  <2>1. \A n \in Nat : n > 0 => n \in 1..n
    OBVIOUS
  <2>2. \A n \in Int : n + 1 \in Int
    OBVIOUS
  <2> QED
    BY Zenon, <1>2, <1>3, <2>1, <2>2
<1>4. CASE PutHook(o) \/ PutNull(o)
  <2>1. PICK x \in Hooks \cup {NULL} :
          /\ hook' = [hook EXCEPT ![a] = [hook[a] EXCEPT ![i] = x]]
          /\ x = NULL \/ i < Len(hook[a])
          /\ UNCHANGED <<hookType, hookCount>>
          /\ opc'[o] = "put_type" => i < Len(hook[a])
          /\ opc'[o] \in {"put_type", "unlock"}
    <3>1. CASE PutHook(o)
      BY Zenon, <1>2, <1>3, <3>1 DEF PutHook, PutFrame, ArraysInv, ArraysPart, Adding, OGoto,
                              ControlInv
    <3>2. CASE PutNull(o)
      BY Zenon, <1>2, <3>2 DEF PutNull, PutFrame, OGoto, ControlInv
    <3> QED
      BY Zenon, <1>4, <3>1, <3>2
  <2> DEFINE h == [hook[a] EXCEPT ![i] = x]
  <2>2. h \in Seq(Hooks \cup {NULL}) /\ Len(h) = Len(hook[a]) /\ h[Len(hook[a])] = NULL
    <3>2. /\ h \in Seq(Hooks \cup {NULL}) /\ Len(h) = Len(hook[a])
          /\ i # Len(hook[a]) => h[Len(hook[a])] = hook[a][Len(hook[a])]
          /\ i = Len(hook[a]) => h[i] = x
      BY <1>3, <1>i, UpdatedArray
    <3>3. i = Len(hook[a]) => x = NULL
      BY <1>3, <2>1
    <3> HIDE DEF h
    <3> QED
      BY Zenon, <1>2, <3>2, <3>3
  <2>3. hook'[a] = h /\ hook' \in [Args -> Seq(Hooks \cup {NULL})]
    BY Zenon, <1>1, <1>2, <2>1, <2>2
  <2> HIDE DEF h
  <2> QED
    BY Zenon, <1>1, <1>2, <1>3, <2>1, <2>2, <2>3 DEF ArraysPart, ArraysEnded, Adding
<1>5. CASE PutType(o)
  <2>1. /\ hookType' = [hookType EXCEPT ![a] = [hookType[a] EXCEPT ![i] = otype[o]]]
        /\ i < Len(hook[a]) /\ UNCHANGED <<hook, hookCount>>
    BY Zenon, <1>2, <1>3, <1>5 DEF PutType, PutFrame, ArraysInv, ArraysPart, Adding, OGoto
  <2> DEFINE ty == [hookType[a] EXCEPT ![i] = otype[o]]
  <2>2. ty \in Seq(HookTypes) /\ Len(ty) = Len(hook[a]) /\ ty[Len(hook[a])] = 0
    <3>1. i # Len(hook[a])
      <4>1. \A m \in Int, n \in Nat : m < n => m # n
        OBVIOUS
      <4> QED
        BY Zenon, <1>3, <1>i, <2>1, <4>1
    <3>2. /\ ty \in Seq(HookTypes) /\ Len(ty) = Len(hookType[a])
          /\ \A j \in 1..Len(hookType[a]) : j # i => ty[j] = hookType[a][j]
      <4>1. i \in Int /\ hookType[a] \in Seq(HookTypes) /\ otype[o] \in HookTypes
        BY Zenon, <1>3, <1>i
      <4> HIDE DEF a, i
      <4> QED
        BY <4>1, UpdatedArray
    <3>3. ty[Len(hook[a])] = hookType[a][Len(hook[a])]
      <4> HIDE DEF ty, i
      <4> QED
        BY Zenon, <1>i, <3>1, <3>2
    <3> HIDE DEF ty
    <3> QED
      BY Zenon, <1>2, <3>2, <3>3
  <2>3. hookType'[a] = ty /\ hookType' \in [Args -> Seq(HookTypes)]
    BY Zenon, <1>1, <1>2, <2>1, <2>2
  <2> HIDE DEF ty
  <2> QED
    BY Zenon, <1>1, <1>2, <1>3, <2>1, <2>2, <2>3 DEF ArraysPart, ArraysEnded
<1>6. CASE PutCount(o)
  <2>1. /\ hookCount' = [hookCount EXCEPT ![a] = i] /\ opc'[o] = "put_null"
        /\ i < Len(hook[a]) /\ UNCHANGED <<hook, hookType>>
    BY Zenon, <1>2, <1>3, <1>6 DEF PutCount, PutFrame, ArraysInv, ArraysPart, Adding, OGoto,
                            ControlInv
  <2> QED
    BY <1>1, <1>2, <1>3, <2>1 DEF ArraysPart, ArraysEnded, Adding
<1> QED
  BY Zenon, <1>4, <1>5, <1>6

LEMMA ShiftArrays ==
  ASSUME ControlInv, PatchInv, ArraysInv, NEW o \in Operators, Shift(o) \/ ShiftDone(o),
         s[o] \in Nat, t[o] \in Nat
  PROVE  ArraysPart'
<1> DEFINE a == oarg[o]
<1>1. /\ a \in Args /\ Live = {a} /\ Live' = {a} /\ oarg' = oarg
      /\ \A p \in Operators : ~Adding(p)'
  BY ArrayOwner DEF Shift, ShiftDone, OGoto, RemovePcs, Live, ControlInv, Adding
<1>2. /\ hook \in [Args -> Seq(Hooks \cup {NULL})] /\ hookType \in [Args -> Seq(HookTypes)]
      /\ hookCount \in [Args -> Int]
      /\ Len(hookType[a]) = Len(hook[a]) /\ hookCount[a] < Len(hook[a])
      /\ hook[a][Len(hook[a])] = NULL /\ hookType[a][Len(hook[a])] = 0
      /\ Len(hook[a]) > 0
  BY Zenon, <1>1 DEF ArraysInv, ArraysPart, ArraysEnded
<1>3. /\ hook[a] \in Seq(Hooks \cup {NULL}) /\ hookType[a] \in Seq(HookTypes)
      /\ hookCount[a] \in Int /\ Len(hook[a]) \in Nat
  <2> HIDE DEF a
  <2>1. hook[a] \in Seq(Hooks \cup {NULL}) /\ Len(hook[a]) \in Nat
    BY Zenon, <1>1, <1>2, ArrayOf
  <2>2. hookType[a] \in Seq(HookTypes)
    BY Zenon, <1>1, <1>2, ArrayOf
  <2>3. hookCount[a] \in Int
    BY Zenon, <1>1, <1>2
  <2> QED
    BY Zenon, <2>1, <2>2, <2>3
<1>4. CASE Shift(o)
  <2>1. PICK x \in Hooks \cup {NULL} :
          \/ hook' = hook
          \/ hook' = [hook EXCEPT ![a] = [hook[a] EXCEPT ![s[o] + 1] = x]]
    <3> DEFINE skip == IF hook[a][s[o] + 1] = ohook[o] THEN t[o] + 1 ELSE t[o]
    <3>1. skip \in Nat
      OBVIOUS
    <3>2. CellsAt(hook[a], s[o] + skip + 1) \subseteq Hooks \cup {NULL}
      <4> HIDE DEF a, skip
      <4>1. s[o] + skip + 1 \in Nat /\ s[o] + skip + 1 > 0
        BY <3>1
      <4> QED
        BY Zenon, <1>3, <4>1, CellsOfArray
    <3> QED
      BY Zenon, <1>4, <3>2 DEF Shift
  <2>2. hook[a][s[o] + 1] # NULL /\ UNCHANGED <<hookType, hookCount>>
    BY Zenon, <1>4 DEF Shift, ShiftEnds
  <2>3. /\ hook' \in [Args -> Seq(Hooks \cup {NULL})] /\ Len(hook'[a]) = Len(hook[a])
        /\ hook'[a][Len(hook[a])] = NULL
    <3>1. CASE hook' = hook
      BY Zenon, <1>2, <3>1
    <3>2. CASE hook' = [hook EXCEPT ![a] = [hook[a] EXCEPT ![s[o] + 1] = x]]
      <4> DEFINE h == [hook[a] EXCEPT ![s[o] + 1] = x]
      <4>1. h \in Seq(Hooks \cup {NULL}) /\ Len(h) = Len(hook[a]) /\ h[Len(hook[a])] = NULL
        <5>1. s[o] + 1 \in Int /\ s[o] + 1 # Len(hook[a]) /\ Len(hook[a]) \in 1..Len(hook[a])
          BY <1>2, <1>3, <2>2
        <5>2. /\ h \in Seq(Hooks \cup {NULL}) /\ Len(h) = Len(hook[a])
              /\ \A j \in 1..Len(hook[a]) : j # s[o] + 1 => h[j] = hook[a][j]
          <6>1. PICK q \in Seq(Hooks \cup {NULL}), i \in Int : q = hook[a] /\ i = s[o] + 1
            BY Zenon, <1>3, <5>1
          <6>2. PICK r : r = [q EXCEPT ![i] = x]
            BY Zenon
          <6>3. h = r /\ hook[a] = q /\ s[o] + 1 = i
            BY Zenon, <6>1, <6>2
          <6> HIDE DEF a, h
          <6>4. /\ r \in Seq(Hooks \cup {NULL}) /\ Len(r) = Len(q)
                /\ \A j \in 1..Len(q) : j # i => r[j] = q[j]
            <7>1. PICK S : S = Hooks \cup {NULL}
              BY Zenon
            <7>2. q \in Seq(S) /\ x \in S
              BY Zenon, <7>1
            <7>3. Updated(r, q, S, i, x)
              BY Zenon, <6>2, <7>2, UpdatedIs
            <7> QED
              BY Zenon, <7>1, <7>3 DEF Updated
          <6> QED
            BY Zenon, <6>3, <6>4
        <5> HIDE DEF h
        <5> QED
          BY Zenon, <1>2, <5>1, <5>2
      <4>2. hook' = [hook EXCEPT ![a] = h]
        BY Zenon, <3>2
      <4> HIDE DEF h
      <4> QED
        BY Zenon, <1>1, <1>2, <4>1, <4>2
    <3> QED
      BY Zenon, <2>1, <3>1, <3>2
  <2> QED
    BY Zenon, <1>1, <1>2, <2>2, <2>3 DEF ArraysPart, ArraysEnded
<1>5. CASE ShiftDone(o)
  <2>1. hookCount' = [hookCount EXCEPT ![a] = @ - t[o]] /\ UNCHANGED <<hook, hookType>>
    BY Zenon, <1>5 DEF ShiftDone
  <2>2. hookCount'[a] = hookCount[a] - t[o] /\ hookCount' \in [Args -> Int]
    BY <1>1, <1>2, <2>1
  <2>3. hookCount'[a] < Len(hook[a])
    <3>1. hookCount[a] < Len(hook[a])
      BY Zenon, <1>2
    <3> HIDE DEF a
    <3> QED
      BY <1>3, <2>2, <3>1
  <2>4. \A i \in Live' : Len(hook'[i]) > 0
    BY Zenon, <1>1, <1>2, <2>1
  <2>5. ArraysEnded'
    BY Zenon, <1>1, <1>2, <2>1, <2>3 DEF ArraysEnded
  <2> QED
    BY Zenon, <1>1, <1>2, <2>1, <2>2, <2>4, <2>5 DEF ArraysPart
<1> QED
  BY Zenon, <1>4, <1>5

LEMMA BuildArrays ==
  ASSUME ControlInv, PatchInv, ArraysInv, NEW o \in Operators, CreateBuild(o)
  PROVE  ArraysPart'
<1>1. mutex = o
  BY Zenon, InsideOwns DEF CreateBuild, OGoto
<1>2. Live = {}
  BY Zenon, <1>1, ConstantsAssumption DEF CreateBuild, OGoto, PatchInv, Owned, Unhooked
<1> DEFINE h == Zeroes(NULL, InitialHookSize)
           ty == Zeroes(0, InitialHookSize)
<1>3. PICK a \in Args : /\ memory[a] = "unused" /\ memory' = [memory EXCEPT ![a] = "live"]
                        /\ hook' = [hook EXCEPT ![a] = h]
                        /\ hookType' = [hookType EXCEPT ![a] = ty]
                        /\ UNCHANGED hookCount /\ opc' = [opc EXCEPT ![o] = "create_patch"]
  BY Zenon DEF CreateBuild, OGoto
<1>4. Live' = {a}
  BY Zenon, <1>2, <1>3 DEF Live, PatchInv
<1>5. /\ hook \in [Args -> Seq(Hooks \cup {NULL})] /\ hookType \in [Args -> Seq(HookTypes)]
      /\ hookCount \in [Args -> Int] /\ hookCount[a] = 0
  BY Zenon, <1>3 DEF ArraysInv, ArraysPart
<1>6. \A p \in Operators : ~Adding(p)'
  BY Zenon, <1>1, <1>3, InsideOwns DEF Adding, ControlInv
<1>7. InitialHookSize \in Nat /\ InitialHookSize > 0 /\ 0 \in HookTypes
  BY Zenon, ConstantsAssumption DEF HookTypes
<1>8. /\ h \in Seq(Hooks \cup {NULL}) /\ Len(h) = InitialHookSize /\ h[InitialHookSize] = NULL
      /\ ty \in Seq(HookTypes) /\ Len(ty) = InitialHookSize /\ ty[InitialHookSize] = 0
  BY Zenon, <1>7, ZeroArray
<1> HIDE DEF h, ty
<1>9. /\ hook'[a] = h /\ hookType'[a] = ty
      /\ hook' \in [Args -> Seq(Hooks \cup {NULL})] /\ hookType' \in [Args -> Seq(HookTypes)]
  BY Zenon, <1>3, <1>5, <1>8
<1> QED
  BY Zenon, <1>3, <1>4, <1>5, <1>6, <1>7, <1>8, <1>9 DEF ArraysPart, ArraysEnded

LEMMA FreeArrays ==
  ASSUME ControlInv, PatchInv, ArraysInv, NEW o \in Operators, Free(o)
  PROVE  ArraysPart'
<1>1. mutex = o
  BY Zenon, InsideOwns DEF Free, OGoto
<1>2. oarg[o] \in Args /\ Live = {oarg[o]}
  BY Zenon, <1>1, ConstantsAssumption DEF Free, OGoto, PatchInv, Owned
<1>3. Live' = {}
  BY Zenon, <1>2 DEF Free, Live, PatchInv
<1>4. \A p \in Operators : ~Adding(p)'
  BY Zenon, <1>1, InsideOwns DEF Free, OGoto, Adding, ControlInv
<1>5. <<>> \in Seq(Hooks \cup {NULL}) /\ <<>> \in Seq(HookTypes)
  OBVIOUS
<1>6. /\ hook' \in [Args -> Seq(Hooks \cup {NULL})] /\ hookType' \in [Args -> Seq(HookTypes)]
      /\ hookCount' \in [Args -> Int]
  <2> DEFINE none == <<>>
  <2>1. none \in Seq(Hooks \cup {NULL}) /\ none \in Seq(HookTypes)
    BY Zenon, <1>5
  <2>2. /\ hook' = [hook EXCEPT ![oarg[o]] = none]
        /\ hookType' = [hookType EXCEPT ![oarg[o]] = none]
        /\ hookCount' = [hookCount EXCEPT ![oarg[o]] = 0]
    BY Zenon DEF Free
  <2>3. /\ hook \in [Args -> Seq(Hooks \cup {NULL})] /\ hookType \in [Args -> Seq(HookTypes)]
        /\ hookCount \in [Args -> Int]
    BY Zenon DEF ArraysInv, ArraysPart
  <2> HIDE DEF none
  <2>4. hook' \in [Args -> Seq(Hooks \cup {NULL})]
    BY Zenon, <2>1, <2>2, <2>3, UpdatedFunction
  <2>5. hookType' \in [Args -> Seq(HookTypes)]
    BY Zenon, <2>1, <2>2, <2>3, UpdatedFunction
  <2>6. hookCount' \in [Args -> Int]
    BY <2>2, <2>3, UpdatedFunction
  <2> QED
    BY Zenon, <2>4, <2>5, <2>6
<1> QED
  BY Zenon, <1>3, <1>4, <1>6 DEF ArraysPart, ArraysEnded

-----------------------------------------------------------------------------

(* Steps of operators that leave the arrays, the counters and the memory.  *)
LEMMA IdleArrays ==
  ASSUME ControlInv, PatchInv, ArraysInv, NEW o \in Operators,
         UNCHANGED <<hook, hookType, hookCount, memory>>,
         \A p \in Operators : p # o => opc'[p] = opc[p] /\ oarg'[p] = oarg[p],
         Adding(o)' => Adding(o) /\ oarg'[o] = oarg[o]
  PROVE  ArraysPart'
  BY Zenon DEF ArraysInv, ArraysPart, ArraysEnded, Live, Adding

(* The part of TypeOK that the layers below do not give.                   *)
RestPart ==
  /\ head \in {"original", "jump", "lock"} /\ tail \in {"original", "torn", "jump"}
  /\ target \in Args \cup {NULL}
  /\ entryCount \in [Args -> Int] /\ lock \in [Args -> {0, 1}]
  /\ ohook \in [Operators -> Hooks \cup {NULL}] /\ otype \in [Operators -> HookTypes]
  /\ rax \in [Operators -> {0, 1}] /\ s \in [Operators -> Nat] /\ t \in [Operators -> Nat]

LEMMA OperatorArrays ==
  ASSUME ControlInv, PatchInv, ArraysInv, NEW o \in Operators,
         StartOperation(o) \/ Operator(o)
  PROVE  /\ RestPart' /\ ArraysPart' /\ UNCHANGED callers
         /\ \A a \in Args : memory'[a] = "unused" =>
              memory[a] = "unused" /\ entryCount'[a] = entryCount[a] /\ hookCount'[a] = hookCount[a]
<1> DEFINE Unused == \A a \in Args : memory'[a] = "unused" =>
              memory[a] = "unused" /\ entryCount'[a] = entryCount[a] /\ hookCount'[a] = hookCount[a]
<1>1. /\ RestPart /\ memory \in [Args -> {"unused", "live", "freed"}]
      /\ oarg \in [Operators -> Args \cup {NULL}] /\ opc \in [Operators -> OperatorPcs]
      /\ NULL \notin Operators
  BY Zenon, ConstantsAssumption DEF RestPart, ArraysInv, TypeOK
<1>2. oarg[o] \in Live \/ opc[o] \notin AddPcs \cup RemovePcs
  BY Zenon, ArrayOwner
<1>3. 0 \in HookTypes /\ Types \subseteq HookTypes
  BY Zenon, ConstantsAssumption DEF HookTypes
<1> USE DEF OperatorFrame, OGoto, fields, inputs, loops, function
<1>4. CASE StartOperation(o)
  <2>2. ASSUME NEW op, NEW h \in Hooks \cup {NULL}, NEW ty \in HookTypes, NEW a,
               NEW to \in {"create_lock", "spinner_lock", "destroy_lock", "outer_lock"},
               Start(o, op, to, h, ty, a)
        PROVE  RestPart' /\ ArraysPart' /\ UNCHANGED callers /\ Unused
    <3>1. /\ UNCHANGED <<head, tail, target, memory, entryCount, lock, hook, hookType,
                         hookCount, rax, s, t>>
          /\ UNCHANGED callers
          /\ \A p \in Operators : p # o => opc'[p] = opc[p] /\ oarg'[p] = oarg[p]
          /\ ~Adding(o)'
      BY Zenon, <1>1, <2>2 DEF Start, Adding
    <3>2. ohook' = [ohook EXCEPT ![o] = h] /\ otype' = [otype EXCEPT ![o] = ty]
      BY Zenon, <2>2 DEF Start
    <3>3. /\ ohook' \in [Operators -> Hooks \cup {NULL}]
          /\ otype' \in [Operators -> HookTypes]
      BY Zenon, <1>1, <2>2, <3>2 DEF RestPart
    <3>4. RestPart'
      BY Zenon, <1>1, <3>1, <3>3 DEF RestPart
    <3>5. ArraysPart'
      BY Zenon, <3>1, IdleArrays
    <3> QED
      BY Zenon, <3>1, <3>4, <3>5
  <2>3. CASE StartCreate(o) \/ StartUnhook(o)
    BY Zenon, <1>3, <2>2, <2>3 DEF StartCreate, StartUnhook
  <2>4. CASE StartAdd(o)
    BY Zenon, <1>3, <2>2, <2>4 DEF StartAdd
  <2>5. CASE StartRemove(o)
    BY Zenon, <1>3, <2>2, <2>5, ConstantsAssumption DEF StartRemove
  <2>6. CASE StartDestroy(o)
    BY Zenon, <1>3, <2>2, <2>6 DEF StartDestroy
  <2>7. CASE StartHook(o)
    BY Zenon, <1>3, <2>2, <2>7 DEF StartHook
  <2> QED
    BY Zenon, <1>4, <2>3, <2>4, <2>5, <2>6, <2>7 DEF StartOperation
<1>5. CASE LockIn(o) \/ Dispatch(o) \/ CreateTest(o) \/ CreatePatch(o) \/ CreateJump(o)
  <2>1. UNCHANGED <<memory, entryCount, hook, hookType, hookCount, callers>>
    BY Zenon, <1>5 DEF LockIn, Dispatch, CreateTest, CreatePatch, CreateJump
  <2>2. ~Adding(o)' /\ \A p \in Operators : p # o => opc'[p] = opc[p] /\ oarg'[p] = oarg[p]
    BY Zenon, <1>1, <1>5 DEF LockIn, Dispatch, CreateTest, CreatePatch, CreateJump, Adding
  <2>3. RestPart'
    BY Zenon, <1>1, <1>5 DEF LockIn, Dispatch, CreateTest, CreatePatch, CreateJump, RestPart
  <2> QED
    BY Zenon, <2>1, <2>2, <2>3, IdleArrays
<1>6. CASE OuterUnlock(o) \/ Unlock(o) \/ CreateUnlock(o)
  <2>1. UNCHANGED <<memory, entryCount, hook, hookType, hookCount, callers>>
    BY Zenon, <1>6 DEF OuterUnlock, Unlock, CreateUnlock
  <2>2. ~Adding(o)' /\ \A p \in Operators : p # o => opc'[p] = opc[p] /\ oarg'[p] = oarg[p]
    BY Zenon, <1>1, <1>6 DEF OuterUnlock, Unlock, CreateUnlock, Finish, Adding
  <2>3. RestPart'
    BY <1>1, <1>3, <1>6 DEF OuterUnlock, Unlock, CreateUnlock, Finish, RestPart
  <2> QED
    BY Zenon, <2>1, <2>2, <2>3, IdleArrays
<1>7. CASE FunctionLock(o) \/ RestoreTail(o) \/ FunctionUnlock(o) \/ Pause(o) \/ Poll(o)
  <2>1. UNCHANGED <<memory, entryCount, hook, hookType, hookCount, callers>>
    BY Zenon, <1>7 DEF FunctionLock, RestoreTail, FunctionUnlock, Pause, Poll, DestroyFrame
  <2>2. ~Adding(o)' /\ \A p \in Operators : p # o => opc'[p] = opc[p] /\ oarg'[p] = oarg[p]
    BY Zenon, <1>1, <1>7 DEF FunctionLock, RestoreTail, FunctionUnlock, Pause, Poll,
                      DestroyFrame, Adding
  <2>3. RestPart'
    BY Zenon, <1>1, <1>7 DEF FunctionLock, RestoreTail, FunctionUnlock, Pause, Poll,
                      DestroyFrame, RestPart
  <2> QED
    BY Zenon, <2>1, <2>2, <2>3, IdleArrays
<1>8. CASE SpinLoad(o) \/ SpinStore(o) \/ SpinUnlock(o)
  <2>1. UNCHANGED <<memory, entryCount, hook, hookType, hookCount, callers, oarg>>
    BY Zenon, <1>8 DEF SpinLoad, SpinStore, SpinUnlock
  <2>2. /\ Adding(o)' => Adding(o)
        /\ \A p \in Operators : p # o => opc'[p] = opc[p]
    BY Zenon, <1>1, <1>8 DEF SpinLoad, SpinStore, SpinUnlock, Section, Adding
  <2>3. SpinLoad(o) => oarg[o] \in Args
    <3> SUFFICES ASSUME opc[o] = "load" PROVE oarg[o] \in Args
      BY Zenon DEF SpinLoad
    <3>1. mutex = o /\ (Using(o) \/ Destroying(o))
      BY Zenon, InsideOwns DEF ControlInv, Stands, Operations, Using, Destroying
    <3> QED
      BY Zenon, <1>1, <3>1 DEF PatchInv, Owned, Hooked
  <2>4. RestPart'
    BY ZenonT(60), <1>1, <1>8, <2>3 DEF SpinLoad, SpinStore, SpinUnlock, RestPart
  <2> QED
    BY Zenon, <2>1, <2>2, <2>4, IdleArrays
<1>9. CASE Grow(o)
  <2>1. RestPart' /\ Unused /\ UNCHANGED callers
    BY Zenon, <1>1, <1>9 DEF Grow, RestPart
  <2> QED
    BY Zenon, <1>9, <2>1, GrowArrays
<1>10. CASE PutHook(o) \/ PutType(o) \/ PutCount(o) \/ PutNull(o)
  <2>1. RestPart' /\ UNCHANGED callers
    BY Zenon, <1>1, <1>10 DEF PutHook, PutType, PutCount, PutNull, PutFrame, RestPart
  <2>2. Unused
    BY Zenon, <1>1, <1>2, <1>10 DEF PutHook, PutType, PutCount, PutNull, PutFrame, AddPcs, Live,
                             ArraysInv, TypeOK
  <2>3. ohook[o] \in Hooks \cup {NULL} /\ otype[o] \in HookTypes
    BY Zenon, <1>1 DEF RestPart
  <2> QED
    BY Zenon, <1>10, <2>1, <2>2, <2>3, PutArrays
<1>11. CASE Shift(o) \/ ShiftDone(o)
  <2>1. RestPart' /\ UNCHANGED callers
    <3>1. CASE Shift(o)
      BY <1>1, <3>1 DEF Shift, RestPart
    <3>2. CASE ShiftDone(o)
      BY Zenon, <1>1, <3>2 DEF ShiftDone, RestPart
    <3> QED
      BY Zenon, <1>11, <3>1, <3>2
  <2>2. Unused
    BY Zenon, <1>1, <1>2, <1>11 DEF Shift, ShiftDone, RemovePcs, Live, ArraysInv, TypeOK
  <2>3. s[o] \in Nat /\ t[o] \in Nat
    BY Zenon, <1>1 DEF RestPart
  <2> QED
    BY Zenon, <1>11, <2>1, <2>2, <2>3, ShiftArrays
<1>12. CASE CreateBuild(o)
  <2>1. RestPart' /\ Unused /\ UNCHANGED callers
    BY ZenonT(60), <1>1, <1>12 DEF CreateBuild, RestPart
  <2> QED
    BY Zenon, <1>12, <2>1, BuildArrays
<1>13. CASE Free(o)
  <2>0. /\ UNCHANGED <<head, tail, target, ohook, otype, rax, s, t>>
        /\ UNCHANGED callers
        /\ entryCount' = [entryCount EXCEPT ![oarg[o]] = 0]
        /\ lock' = [lock EXCEPT ![oarg[o]] = 0]
    BY Zenon, <1>13 DEF Free
  <2>a. entryCount' \in [Args -> Int]
    BY <1>1, <2>0, UpdatedFunction, 0 \in Int DEF RestPart
  <2>b. lock' \in [Args -> {0, 1}]
    BY Zenon, <1>1, <2>0, UpdatedFunction, 0 \in {0, 1} DEF RestPart
  <2>1. RestPart' /\ UNCHANGED callers
    BY Zenon, <1>1, <2>0, <2>a, <2>b DEF RestPart
  <2>2. Unused
    BY Zenon, <1>1, <1>13 DEF Free, ArraysInv, TypeOK
  <2> QED
    BY Zenon, <1>13, <2>1, <2>2, FreeArrays
<1> QED
  BY Zenon, <1>4, <1>5, <1>6, <1>7, <1>8, <1>9, <1>10, <1>11, <1>12, <1>13 DEF Operator

(* ArraysInv is inductive relative to the layers below.                    *)
LEMMA ArraysInductive ==
  ControlInv /\ ControlInv' /\ PatchInv /\ PatchInv' /\ ArraysInv /\ [Next]_vars
    => ArraysInv'
<1> SUFFICES ASSUME ControlInv, ControlInv', PatchInv, PatchInv', ArraysInv, [Next]_vars
             PROVE  ArraysInv'
  BY Zenon
<1>1. CASE UNCHANGED vars
  BY Zenon, <1>1 DEF vars, function, fields, callers, operators, inputs, loops, ArraysInv,
              ArraysPart, ArraysEnded, TypeOK, Live, Adding, InPrologue
<1>2. ASSUME NEW c \in Callers, Call(c) \/ Caller(c) PROVE ArraysInv'
  BY Zenon, <1>2, CallerArrays
<1>3. ASSUME NEW o \in Operators, StartOperation(o) \/ Operator(o) PROVE ArraysInv'
  <2>1. /\ RestPart' /\ ArraysPart' /\ UNCHANGED callers
        /\ \A a \in Args : memory'[a] = "unused" =>
             memory[a] = "unused" /\ entryCount'[a] = entryCount[a] /\ hookCount'[a] = hookCount[a]
    BY Zenon, <1>3, OperatorArrays
  <2>2. TypeOK'
    <3>1. TypeOK /\ UNCHANGED <<pc, carg, csize, chook, ctype>>
      BY Zenon, <2>1 DEF ArraysInv, callers
    <3>2. /\ pc' \in [Callers -> CallerPcs] /\ carg' \in [Callers -> Args \cup {NULL}]
          /\ csize' \in [Callers -> Nat] /\ chook' \in [Callers -> Seq(Hooks \cup {NULL})]
          /\ ctype' \in [Callers -> Seq(HookTypes)]
      BY Zenon, <3>1 DEF TypeOK
    <3>3. /\ mutex' \in Operators \cup {NULL} /\ depth' \in Int
          /\ opc' \in [Operators -> OperatorPcs] /\ todo' \in [Operators -> Operations]
      BY DEF ControlInv
    <3>4. /\ memory' \in [Args -> {"unused", "live", "freed"}]
          /\ oarg' \in [Operators -> Args \cup {NULL}]
      BY Zenon DEF PatchInv
    <3> QED
      BY Zenon, <2>1, <3>2, <3>3, <3>4 DEF RestPart, ArraysPart, TypeOK
  <2>3. \A c \in Callers : InPrologue(c)' => carg'[c] \in Args
    BY Zenon, <2>1 DEF ArraysInv, InPrologue, callers
  <2> QED
    BY Zenon, <2>1, <2>2, <2>3 DEF ArraysInv
<1> QED
  BY Zenon, <1>1, <1>2, <1>3 DEF Next

LEMMA ArraysInit == Init => ControlInv /\ PatchInv /\ ArraysInv
<1> SUFFICES ASSUME Init PROVE ControlInv /\ PatchInv /\ ArraysInv
  BY Zenon
<1>1. ControlInv /\ PatchInv
  BY ConstantsAssumption
     DEF Init, ControlInv, MutexAccounted, Exclusive, Stands, Locked, OuterHeld,
         InnerHeld, OperatorPcs, Operations, OuterPcs, CreatePcs, AddPcs, RemovePcs,
         DestroyPcs, PatchInv, Neutral, Unhooked, Bytes, Live, Waits
<1>2. Live = {} /\ \A o \in Operators : ~Adding(o)
  BY Zenon DEF Init, Live, Adding
<1>3. TypeOK
  BY DEF Init, TypeOK, CallerPcs, OperatorPcs, Operations, HookTypes
<1>4. ArraysPart
  BY Zenon, <1>2, <1>3 DEF ArraysPart, ArraysEnded, TypeOK
<1> QED
  BY Zenon, <1>1, <1>3, <1>4 DEF ArraysInv, Init, InPrologue

(* Every variable keeps the type of the field or local it stands for: in   *)
(* particular no copy, growth or shift of the arrays produces a cell that  *)
(* is neither a hook nor NULL.                                             *)
THEOREM TypeCorrect == Spec => []TypeOK
<1>1. ArraysInv => TypeOK
  BY Zenon DEF ArraysInv
<1> QED
  BY <1>1, ArraysInit, ControlInductive, PatchInductive, ArraysInductive, PTL DEF Spec

(* Whatever hooks are added, removed, or added twice, and whatever the     *)
(* initial size is, the arrays end in a zero at every step.                *)
THEOREM ArraysCorrect == Spec => []ArraysEnded
<1>1. ArraysInv => ArraysEnded
  BY Zenon DEF ArraysInv, ArraysPart
<1> QED
  BY <1>1, ArraysInit, ControlInductive, PatchInductive, ArraysInductive, PTL DEF Spec

-----------------------------------------------------------------------------
(* The entry counter.                                                      *)

DrainPcs == {"load", "store", "poll", "poll_release", "destroy_release", "free"}

(* A destroyer that has paused meets no caller on its way in; one that has *)
(* seen the counter at zero meets none inside.                             *)
Drained(o) ==
  /\ Destroying(o) /\ opc[o] \in DrainPcs => OnTheWayIn(oarg[o]) = {}
  /\ opc[o] \in {"destroy_release", "free"} => Window(oarg[o]) = {}

CallersInv ==
  /\ EntryCountExact
  /\ \A c \in Callers : carg[c] # NULL => memory[carg[c]] # "unused"
  /\ PauseSufficient =>
       /\ PrologueOnLiveArgument
       /\ \A o \in Operators : Drained(o)

-----------------------------------------------------------------------------
(* The callers' steps.                                                     *)

WayPcs == {"movabs", "enter"}
WindowPcs == {"spin", "struct", "hooks", "types", "leave", "stale"}

(* A destroyer that waits for callers has restored the function.           *)
LEMMA DrainedUnpatched ==
  ASSUME ControlInv, PatchInv, NEW o \in Operators, Destroying(o), opc[o] \in DrainPcs
  PROVE  mutex = o /\ head = "original" /\ oarg[o] \in Args /\ Live = {oarg[o]}
<1>1. mutex = o
  BY Zenon, InsideOwns DEF DrainPcs
<1> QED
  BY Zenon, <1>1, ConstantsAssumption DEF PatchInv, Owned, Bytes, DrainPcs

(* The argument behind a jump, finished or not, has been allocated.        *)
LEMMA TargetLive ==
  ASSUME ControlInv, PatchInv, head = "jump"
  PROVE  target = NULL \/ target \in Live
<1>1. CASE mutex = NULL
  BY Zenon, <1>1 DEF PatchInv, Neutral, Unhooked, Hooked, Bytes
<1>2. CASE mutex # NULL
  <2>1. mutex \in Operators /\ Owned(mutex) /\ Stands(mutex) /\ opc[mutex] \in OperatorPcs
        /\ todo[mutex] \in Operations
    BY Zenon, <1>2 DEF PatchInv, ControlInv
  <2>2. opc[mutex] \notin {"idle", "outer_lock"}
    BY Zenon, <2>1, InsideOwns
  <2> QED
    BY Zenon, <2>1, <2>2
       DEF Owned, Neutral, Unhooked, Hooked, Bytes, Using, Destroying, Stands,
           OperatorPcs, Operations, AddPcs, RemovePcs, OuterPcs, CreatePcs, DestroyPcs
<1> QED
  BY Zenon, <1>1, <1>2

(* The steps of a caller that neither fetch the jump nor move the counter. *)
Passing(c) ==
  \/ RunOriginal(c) \/ JumpToPrologue(c) \/ SpinInPrologue(c) \/ CloneStruct(c)
  \/ CloneHook(c) \/ CloneType(c) \/ CloneFreedArrays(c) \/ UnlockInHandler(c)
  \/ RunPreHooks(c) \/ RunBridge(c) \/ RunPostHooks(c) \/ Epilogue(c) \/ UseFreed(c)

(* They keep a caller where it was, or take it out of the prologue of a    *)
(* freed argument.                                                         *)
LEMMA PassingMoves ==
  ASSUME ArraysInv, NEW c \in Callers, Passing(c)
  PROVE  /\ entryCount' = entryCount
         /\ \A d \in Callers : d # c => pc'[d] = pc[d] /\ carg'[d] = carg[d]
         /\ carg'[c] \in {carg[c], NULL}
         /\ pc'[c] \in WindowPcs => pc[c] \in WindowPcs /\ carg'[c] = carg[c]
         /\ pc'[c] \in WayPcs => pc[c] \in WayPcs /\ carg'[c] = carg[c]
         /\ pc[c] \in WindowPcs /\ carg[c] \in Live =>
              pc'[c] \in WindowPcs /\ carg'[c] = carg[c]
<1>1. pc \in [Callers -> CallerPcs] /\ carg \in [Callers -> Args \cup {NULL}]
  BY Zenon DEF ArraysInv, TypeOK
<1> USE <1>1 DEF CGoto, CallerFrame, fields, clones, WindowPcs, WayPcs, Live, Alive
<1>2. CASE RunOriginal(c) \/ JumpToPrologue(c) \/ SpinInPrologue(c)
  BY Zenon, <1>2 DEF RunOriginal, JumpToPrologue, SpinInPrologue
<1>3. CASE CloneStruct(c) \/ CloneHook(c)
  BY Zenon, <1>3 DEF CloneStruct, CloneHook
<1>4. CASE CloneType(c) \/ CloneFreedArrays(c)
  BY Zenon, <1>4 DEF CloneType, CloneFreedArrays
<1>5. CASE UnlockInHandler(c) \/ RunPreHooks(c) \/ RunBridge(c) \/ RunPostHooks(c)
  BY Zenon, <1>5 DEF UnlockInHandler, RunPreHooks, RunBridge, RunPostHooks
<1>6. CASE Epilogue(c)
  BY Zenon, <1>6 DEF Epilogue
<1>7. CASE UseFreed(c)
  BY Zenon, <1>7 DEF UseFreed
<1> QED
  BY Zenon, <1>2, <1>3, <1>4, <1>5, <1>6, <1>7 DEF Passing

LEMMA PassingEntry ==
  ASSUME ControlInv, PatchInv, ArraysInv, CallersInv, NEW c \in Callers, Passing(c)
  PROVE  CallersInv'
<1>1. UNCHANGED <<memory, opc, oarg, todo>> /\ Live' = Live
  BY Zenon, CallerStep DEF Passing, Caller, Live
<1>2. \A a \in Live : Window(a)' = Window(a)
  BY Zenon, PassingMoves DEF Window, WindowPcs
<1>3. \A a : Window(a)' \subseteq Window(a) /\ OnTheWayIn(a)' \subseteq OnTheWayIn(a)
  BY Zenon, PassingMoves DEF Window, WindowPcs, OnTheWayIn, WayPcs
<1>4. EntryCountExact'
  BY Zenon, <1>1, <1>2, PassingMoves DEF CallersInv, EntryCountExact
<1>5. \A d \in Callers : carg'[d] # NULL => memory'[carg'[d]] # "unused"
  BY Zenon, <1>1, PassingMoves DEF CallersInv
<1>6. PauseSufficient => PrologueOnLiveArgument'
  BY Zenon, <1>1, <1>3 DEF CallersInv, PrologueOnLiveArgument
<1>7. PauseSufficient => \A o \in Operators : Drained(o)'
  BY Zenon, <1>1, <1>3 DEF CallersInv, Drained, Destroying
<1> QED
  BY Zenon, <1>4, <1>5, <1>6, <1>7 DEF CallersInv

-----------------------------------------------------------------------------
(* While no hook is removed: what a clone has copied stays in the arrays.  *)

(* An array is zero behind the counted cells and the cell that the HookAdd *)
(* in progress has written.                                                *)
Ends(q, n, zero) == \A i \in 1..Len(q) : q[i] # zero => i <= n

PutsHook == \E o \in Operators : opc[o] \in {"put_type", "put_count"}
PutsType == \E o \in Operators : opc[o] = "put_count"

HookCells(a) == IF PutsHook THEN hookCount[a] + 1 ELSE hookCount[a]
TypeCells(a) == IF PutsType THEN hookCount[a] + 1 ELSE hookCount[a]

(* The cells of one array that are not zero are cells of the other.        *)
Within(q, r, zero) ==
  \A i \in 1..Len(q) : q[i] # zero => i <= Len(r) /\ r[i] = q[i]

AddedPart ==
  \A a \in Live : Ends(hook[a], HookCells(a), NULL) /\ Ends(hookType[a], TypeCells(a), 0)

ClonesPart ==
  \A c \in Callers :
    /\ pc[c] \in {"out", "head"} => chook[c] = <<>> /\ ctype[c] = <<>>
    /\ carg[c] \in Live => /\ Within(chook[c], hook[carg[c]], NULL)
                           /\ Within(ctype[c], hookType[carg[c]], 0)

KeptInv ==
  Removable = {} =>
    /\ \A o \in Operators : todo[o] # "remove"
    /\ AddedPart /\ ClonesPart

(* What an operator's step does to the arrays of a live argument.          *)
Stay(a) ==
  Within(hook[a], hook'[a], NULL) /\ Within(hookType[a], hookType'[a], 0)

LEMMA WithinSelf == \A q, zero : Len(q) \in Nat => Within(q, q, zero)
  BY DEF Within

LEMMA WithinTwice ==
  ASSUME NEW p, NEW q, NEW r, NEW zero, Len(p) \in Nat, Len(q) \in Nat,
         Within(p, q, zero), Within(q, r, zero)
  PROVE  Within(p, r, zero)
<1>1. ASSUME NEW i \in 1..Len(p), p[i] # zero PROVE i <= Len(r) /\ r[i] = p[i]
  <2>1. i <= Len(q) /\ q[i] = p[i]
    BY Zenon, <1>1 DEF Within
  <2>2. i \in 1..Len(q)
    BY <2>1
  <2> QED
    BY Zenon, <1>1, <2>1, <2>2 DEF Within
<1> QED
  BY Zenon, <1>1 DEF Within

(* Growing moves the counted cells, and the others are zero.               *)
LEMMA GrownWithin ==
  ASSUME NEW S, NEW q \in Seq(S), NEW zero \in S, NEW n \in Int, n <= Len(q), Len(q) > 0,
         Ends(q, n, zero)
  PROVE  LET r == Grown(q, n, zero)
         IN Within(q, r, zero) /\ Ends(r, n, zero)
<1> DEFINE r == Grown(q, n, zero)
<1>1. /\ Len(q) \in Nat /\ r = [i \in 1..2 * Len(q) |-> IF i <= n THEN q[i] ELSE zero]
      /\ Len(r) = 2 * Len(q)
  BY GrownArray DEF Grown
<1> HIDE DEF r
<1>2. \A i \in 1..2 * Len(q) : r[i] = IF i <= n THEN q[i] ELSE zero
  BY Zenon, <1>1
<1>3. Within(q, r, zero)
  BY <1>1, <1>2 DEF Within, Ends
<1>4. Ends(r, n, zero)
  BY <1>1, <1>2 DEF Ends
<1> QED
  BY Zenon, <1>3, <1>4 DEF r

(* Writing the cell behind the counted ones.                               *)
LEMMA PutWithin ==
  ASSUME NEW S, NEW q \in Seq(S), NEW zero, NEW n \in Int, NEW x \in S, Ends(q, n, zero),
         NEW r, r = [q EXCEPT ![n + 1] = x]
  PROVE  /\ Within(q, r, zero) /\ Ends(r, n + 1, zero)
         /\ x = zero => Ends(r, n, zero)
<1>1. Len(q) \in Nat /\ n + 1 \in Int
  OBVIOUS
<1>2. /\ Len(r) = Len(q) /\ \A j \in 1..Len(q) : j # n + 1 => r[j] = q[j]
      /\ n + 1 \in 1..Len(q) => r[n + 1] = x
  BY <1>1, UpdatedArray
<1>3. Within(q, r, zero)
  BY <1>1, <1>2 DEF Within, Ends
<1>4. Ends(r, n + 1, zero) /\ (x = zero => Ends(r, n, zero))
  BY <1>1, <1>2 DEF Ends
<1> QED
  BY Zenon, <1>3, <1>4

(* HookAdd's steps.                                                        *)
LEMMA AddStays ==
  ASSUME ControlInv, PatchInv, ArraysInv, AddedPart, NEW o \in Operators,
         Grow(o) \/ PutHook(o) \/ PutType(o) \/ PutCount(o) \/ PutNull(o)
  PROVE  AddedPart' /\ \A a \in Live : Stay(a)
<1>1. PICK a \in Args : /\ a = oarg[o] /\ Live = {a} /\ Live' = {a} /\ mutex = o
                        /\ opc' = [opc EXCEPT ![o] = opc'[o]]
                        /\ opc \in [Operators -> OperatorPcs]
  <2>1. opc[o] \in AddPcs /\ memory' = memory /\ opc \in [Operators -> OperatorPcs]
    BY Zenon DEF Grow, PutHook, PutType, PutCount, PutNull, PutFrame, OGoto, AddPcs, ControlInv
  <2>2. opc' = [opc EXCEPT ![o] = opc'[o]]
    BY Zenon, <2>1 DEF Grow, PutHook, PutType, PutCount, PutNull, OGoto
  <2>3. oarg[o] \in Args /\ Live = {oarg[o]} /\ mutex = o /\ Live' = Live
    BY Zenon, <2>1, ArrayOwner DEF Live
  <2> QED
    BY Zenon, <2>1, <2>2, <2>3
<1>2. \A p \in Operators : p # o => opc[p] \notin {"put_type", "put_count"}
  BY Zenon, <1>1, InsideOwns
<1>3. /\ hook \in [Args -> Seq(Hooks \cup {NULL})] /\ hookType \in [Args -> Seq(HookTypes)]
      /\ hookCount \in [Args -> Int] /\ hookCount[a] < Len(hook[a]) /\ Len(hook[a]) > 0
      /\ Len(hookType[a]) = Len(hook[a]) /\ ohook[o] \in Hooks \cup {NULL}
      /\ otype[o] \in HookTypes /\ 0 \in HookTypes
  BY Zenon, <1>1 DEF ArraysInv, ArraysPart, ArraysEnded, TypeOK, HookTypes
<1>4. PICK n \in Int : n = hookCount[a]
  BY Zenon, <1>3
<1>5. /\ hook[a] \in Seq(Hooks \cup {NULL}) /\ Len(hook[a]) \in Nat
      /\ hookType[a] \in Seq(HookTypes)
  BY Zenon, <1>3, ArrayOf
<1>6. /\ IF opc[o] \in {"put_type", "put_count"}
         THEN Ends(hook[a], n + 1, NULL) ELSE Ends(hook[a], n, NULL)
      /\ IF opc[o] = "put_count" THEN Ends(hookType[a], n + 1, 0) ELSE Ends(hookType[a], n, 0)
  BY Zenon, <1>1, <1>2, <1>4 DEF AddedPart, HookCells, TypeCells, PutsHook, PutsType
<1>7. n <= Len(hook[a])
  BY <1>3, <1>4, <1>5
<1>8. SUFFICES ASSUME NEW m, m = hookCount'[a]
               PROVE  /\ IF opc'[o] \in {"put_type", "put_count"}
                         THEN Ends(hook'[a], m + 1, NULL) ELSE Ends(hook'[a], m, NULL)
                      /\ IF opc'[o] = "put_count"
                         THEN Ends(hookType'[a], m + 1, 0) ELSE Ends(hookType'[a], m, 0)
                      /\ Stay(a)
  <2>1. PutsHook' <=> opc'[o] \in {"put_type", "put_count"}
    BY Zenon, <1>1, <1>2 DEF PutsHook
  <2>2. PutsType' <=> opc'[o] = "put_count"
    BY Zenon, <1>1, <1>2 DEF PutsType
  <2>3. /\ HookCells(a)' = IF PutsHook' THEN hookCount'[a] + 1 ELSE hookCount'[a]
        /\ TypeCells(a)' = IF PutsType' THEN hookCount'[a] + 1 ELSE hookCount'[a]
    BY Zenon DEF HookCells, TypeCells
  <2>4. Ends(hook'[a], HookCells(a)', NULL) /\ Ends(hookType'[a], TypeCells(a)', 0) /\ Stay(a)
    BY Zenon, <1>8, <2>1, <2>2, <2>3
  <2> QED
    BY Zenon, <1>1, <2>4 DEF AddedPart
<1>9. Within(hook[a], hook[a], NULL) /\ Within(hookType[a], hookType[a], 0)
  BY Zenon, <1>3, <1>5, WithinSelf
<1>10. CASE Grow(o)
  <2>1. opc[o] = "grow" /\ opc'[o] = "add_release" /\ m = n
    BY Zenon, <1>1, <1>4, <1>8, <1>10 DEF Grow, OGoto
  <2>2. CASE UNCHANGED <<hook, hookType>>
    BY Zenon, <1>6, <1>9, <2>1, <2>2 DEF Stay
  <2>3. CASE /\ hook' = [hook EXCEPT ![a] = Grown(hook[a], n, NULL)]
             /\ hookType' = [hookType EXCEPT ![a] = Grown(hookType[a], n, 0)]
    <3>1. hook'[a] = Grown(hook[a], n, NULL) /\ hookType'[a] = Grown(hookType[a], n, 0)
      BY Zenon, <1>3, <2>3
    <3>2. Ends(hook[a], n, NULL) /\ Ends(hookType[a], n, 0)
      BY Zenon, <1>6, <2>1
    <3>3. Within(hook[a], hook'[a], NULL) /\ Ends(hook'[a], n, NULL)
      BY Zenon, <1>3, <1>5, <1>7, <3>1, <3>2, GrownWithin
    <3>4. Within(hookType[a], hookType'[a], 0) /\ Ends(hookType'[a], n, 0)
      BY Zenon, <1>3, <1>5, <1>7, <3>1, <3>2, GrownWithin
    <3> QED
      BY Zenon, <2>1, <3>3, <3>4 DEF Stay
  <2> QED
    BY Zenon, <1>1, <1>4, <1>10, <2>2, <2>3 DEF Grow
<1>11. CASE PutHook(o)
  <2>1. /\ opc[o] = "put_hook" /\ opc'[o] = "put_type" /\ m = n
        /\ hook'[a] = [hook[a] EXCEPT ![n + 1] = ohook[o]] /\ hookType' = hookType
    BY Zenon, <1>1, <1>3, <1>4, <1>8, <1>11 DEF PutHook, OGoto
  <2>2. Ends(hook[a], n, NULL) /\ Ends(hookType[a], n, 0)
    BY Zenon, <1>6, <2>1
  <2>3. Within(hook[a], hook'[a], NULL) /\ Ends(hook'[a], n + 1, NULL)
    <3>1. PICK S : hook[a] \in Seq(S) /\ ohook[o] \in S
      BY Zenon, <1>3, <1>5
    <3>2. PICK q \in Seq(S) : q = hook[a]
      BY Zenon, <3>1
    <3>3. PICK r : r = hook'[a] /\ r = [q EXCEPT ![n + 1] = ohook[o]]
      BY Zenon, <2>1, <3>2
    <3> QED
      BY <2>2, <3>1, <3>2, <3>3, PutWithin
  <2> QED
    BY Zenon, <1>9, <2>1, <2>2, <2>3 DEF Stay
<1>12. CASE PutType(o)
  <2>1. /\ opc[o] = "put_type" /\ opc'[o] = "put_count" /\ m = n
        /\ hookType'[a] = [hookType[a] EXCEPT ![n + 1] = otype[o]] /\ hook' = hook
    BY Zenon, <1>1, <1>3, <1>4, <1>8, <1>12 DEF PutType, OGoto
  <2>2. Ends(hook[a], n + 1, NULL) /\ Ends(hookType[a], n, 0)
    BY Zenon, <1>6, <2>1
  <2>3. Within(hookType[a], hookType'[a], 0) /\ Ends(hookType'[a], n + 1, 0)
    <3>1. PICK S : hookType[a] \in Seq(S) /\ otype[o] \in S
      BY Zenon, <1>3, <1>5
    <3>2. PICK q \in Seq(S) : q = hookType[a]
      BY Zenon, <3>1
    <3>3. PICK r : r = hookType'[a] /\ r = [q EXCEPT ![n + 1] = otype[o]]
      BY Zenon, <2>1, <3>2
    <3> QED
      BY <2>2, <3>1, <3>2, <3>3, PutWithin
  <2> QED
    BY Zenon, <1>9, <2>1, <2>2, <2>3 DEF Stay
<1>13. CASE PutCount(o)
  <2>1. /\ opc[o] = "put_count" /\ opc'[o] = "put_null" /\ UNCHANGED <<hook, hookType>>
        /\ m = n + 1
    BY Zenon, <1>1, <1>3, <1>4, <1>8, <1>13 DEF PutCount, PutFrame, OGoto
  <2>2. Ends(hook[a], n + 1, NULL) /\ Ends(hookType[a], n + 1, 0)
    BY Zenon, <1>6, <2>1
  <2> QED
    BY Zenon, <1>9, <2>1, <2>2 DEF Stay
<1>14. CASE PutNull(o)
  <2>1. /\ opc[o] = "put_null" /\ opc'[o] = "unlock" /\ m = n
        /\ hook'[a] = [hook[a] EXCEPT ![n + 1] = NULL] /\ hookType' = hookType
    BY Zenon, <1>1, <1>3, <1>4, <1>8, <1>14 DEF PutNull, OGoto
  <2>2. Ends(hook[a], n, NULL) /\ Ends(hookType[a], n, 0)
    BY Zenon, <1>6, <2>1
  <2>3. Within(hook[a], hook'[a], NULL) /\ Ends(hook'[a], n, NULL)
    <3>1. PICK S : hook[a] \in Seq(S) /\ NULL \in S
      BY Zenon, <1>3, <1>5
    <3>2. PICK q \in Seq(S) : q = hook[a]
      BY Zenon, <3>1
    <3>3. PICK r : r = hook'[a] /\ r = [q EXCEPT ![n + 1] = NULL]
      BY Zenon, <2>1, <3>2
    <3> QED
      BY <2>2, <3>1, <3>2, <3>3, PutWithin
  <2> QED
    BY Zenon, <1>9, <2>1, <2>2, <2>3 DEF Stay
<1> QED
  BY Zenon, <1>10, <1>11, <1>12, <1>13, <1>14

(* Steps of operators that leave the arrays alone.                         *)
LEMMA QuietStays ==
  ASSUME ArraysInv, AddedPart, NEW o \in Operators,
         UNCHANGED <<hook, hookType, hookCount>>, Live' \subseteq Live,
         opc \in [Operators -> OperatorPcs], opc' = [opc EXCEPT ![o] = opc'[o]],
         opc[o] \notin {"put_type", "put_count"}, opc'[o] \notin {"put_type", "put_count"}
  PROVE  AddedPart' /\ \A a \in Live : Stay(a)
<1>1. (PutsHook' <=> PutsHook) /\ (PutsType' <=> PutsType)
  BY Zenon DEF PutsHook, PutsType
<1>2. \A a : HookCells(a)' = HookCells(a) /\ TypeCells(a)' = TypeCells(a)
  BY Zenon, <1>1 DEF HookCells, TypeCells
<1>3. AddedPart'
  BY Zenon, <1>2 DEF AddedPart
<1>4. ASSUME NEW a \in Live PROVE Stay(a)
  <2>1. /\ a \in Args /\ hook \in [Args -> Seq(Hooks \cup {NULL})]
        /\ hookType \in [Args -> Seq(HookTypes)]
    BY Zenon DEF ArraysInv, TypeOK, Live
  <2>2. Len(hook[a]) \in Nat /\ Len(hookType[a]) \in Nat
    BY Zenon, <2>1, ArrayOf
  <2> QED
    BY Zenon, <2>2, WithinSelf DEF Stay
<1> QED
  BY Zenon, <1>3, <1>4

(* Every step of an operator that does not remove hooks.                   *)
LEMMA OperatorStays ==
  ASSUME ControlInv, PatchInv, ArraysInv, AddedPart, NEW o \in Operators,
         todo[o] # "remove", StartOperation(o) \/ Operator(o)
  PROVE  AddedPart' /\ \A a \in Live \cap Live' : Stay(a)
<1>1. /\ opc \in [Operators -> OperatorPcs] /\ memory \in [Args -> {"unused", "live", "freed"}]
      /\ opc[o] \notin RemovePcs
  BY Zenon DEF ControlInv, PatchInv, Stands
<1> USE DEF OGoto, fields
<1>2. CASE StartOperation(o)
  <2>1. /\ UNCHANGED <<hook, hookType, hookCount, memory>> /\ opc[o] = "idle"
        /\ opc'[o] \in {"create_lock", "spinner_lock", "destroy_lock", "outer_lock"}
        /\ opc' = [opc EXCEPT ![o] = opc'[o]]
    BY Zenon, <1>1, <1>2 DEF StartOperation, StartCreate, StartAdd, StartRemove, StartDestroy,
                      StartHook, StartUnhook, Start
  <2> QED
    BY Zenon, <1>1, <2>1, QuietStays DEF Live
<1>3. CASE LockIn(o) \/ Dispatch(o) \/ OuterUnlock(o) \/ Unlock(o) \/ CreateTest(o)
           \/ CreatePatch(o) \/ CreateJump(o) \/ CreateUnlock(o)
  <2>1. UNCHANGED <<hook, hookType, hookCount, memory>>
    BY Zenon, <1>3 DEF LockIn, Dispatch, OuterUnlock, Unlock, CreateTest, CreatePatch, CreateJump,
                CreateUnlock
  <2>2. /\ opc[o] \notin {"put_type", "put_count"} /\ opc'[o] \notin {"put_type", "put_count"}
        /\ opc' = [opc EXCEPT ![o] = opc'[o]]
    BY Zenon, <1>1, <1>3 DEF LockIn, Dispatch, OuterUnlock, Unlock, CreateTest, CreatePatch,
                      CreateJump, CreateUnlock, Finish
  <2> QED
    BY Zenon, <1>1, <2>1, <2>2, QuietStays DEF Live
<1>4. CASE SpinLoad(o) \/ SpinStore(o) \/ SpinUnlock(o) \/ FunctionLock(o) \/ RestoreTail(o)
           \/ FunctionUnlock(o) \/ Pause(o) \/ Poll(o)
  <2>1. UNCHANGED <<hook, hookType, hookCount, memory>>
    BY Zenon, <1>4 DEF SpinLoad, SpinStore, SpinUnlock, FunctionLock, RestoreTail, FunctionUnlock,
                Pause, Poll, DestroyFrame
  <2>2. /\ opc[o] \notin {"put_type", "put_count"} /\ opc'[o] \notin {"put_type", "put_count"}
        /\ opc' = [opc EXCEPT ![o] = opc'[o]]
    BY Zenon, <1>1, <1>4 DEF SpinLoad, SpinStore, SpinUnlock, FunctionLock, RestoreTail,
                      FunctionUnlock, Pause, Poll, Section
  <2> QED
    BY Zenon, <1>1, <2>1, <2>2, QuietStays DEF Live
<1>5. CASE Grow(o) \/ PutHook(o) \/ PutType(o) \/ PutCount(o) \/ PutNull(o)
  BY Zenon, <1>5, AddStays
<1>6. CASE Shift(o) \/ ShiftDone(o)
  BY Zenon, <1>1, <1>6 DEF Shift, ShiftDone, RemovePcs
<1>7. CASE CreateBuild(o)
  <2>0. mutex = o /\ opc[o] = "create_build"
    BY Zenon, <1>7, InsideOwns DEF CreateBuild
  <2>1. Live = {}
    BY Zenon, <2>0, ConstantsAssumption DEF PatchInv, Owned, Unhooked
  <2>2. PICK a \in Args : /\ memory' = [memory EXCEPT ![a] = "live"]
                          /\ hook' = [hook EXCEPT ![a] = Zeroes(NULL, InitialHookSize)]
                          /\ hookType' = [hookType EXCEPT ![a] = Zeroes(0, InitialHookSize)]
    BY Zenon, <1>7 DEF CreateBuild
  <2>3. hook \in [Args -> Seq(Hooks \cup {NULL})] /\ hookType \in [Args -> Seq(HookTypes)]
    BY Zenon DEF ArraysInv, TypeOK
  <2>4. /\ Live' = {a} /\ hook'[a] = Zeroes(NULL, InitialHookSize)
        /\ hookType'[a] = Zeroes(0, InitialHookSize)
    BY Zenon, <1>1, <2>1, <2>2, <2>3 DEF Live
  <2>5. \A n, zero : Ends(Zeroes(zero, InitialHookSize), n, zero)
    BY ConstantsAssumption DEF Ends, Zeroes
  <2> QED
    BY Zenon, <2>1, <2>4, <2>5 DEF AddedPart
<1>8. CASE Free(o)
  <2>1. Destroying(o) /\ opc[o] \in DrainPcs
    BY Zenon, <1>8 DEF Free, ControlInv, Stands, DestroyPcs, DrainPcs, Destroying
  <2>2. Live = {oarg[o]} /\ memory' = [memory EXCEPT ![oarg[o]] = "freed"]
    BY Zenon, <1>8, <2>1, DrainedUnpatched DEF Free
  <2>3. Live' = {}
    BY Zenon, <1>1, <2>2 DEF Live
  <2> QED
    BY Zenon, <2>3 DEF AddedPart
<1> QED
  BY Zenon, <1>2, <1>3, <1>4, <1>5, <1>6, <1>7, <1>8 DEF Operator

(* One more cell of the array in a clone.                                  *)
LEMMA AppendWithin ==
  ASSUME NEW S, NEW q \in Seq(S), NEW r \in Seq(S), NEW zero, Within(q, r, zero),
         Len(q) < Len(r), NEW p, p = Append(q, r[Len(q) + 1])
  PROVE  Within(p, r, zero)
<1>1. Len(q) \in Nat /\ Len(r) \in Nat /\ Len(p) = Len(q) + 1
  OBVIOUS
<1>2. p[Len(q) + 1] = r[Len(q) + 1] /\ \A i \in 1..Len(q) : p[i] = q[i]
  OBVIOUS
<1> QED
  BY <1>1, <1>2 DEF Within

(* A caller's step.                                                        *)
LEMMA CallerClones ==
  ASSUME ControlInv, PatchInv, ArraysInv, ClonesPart, NEW c \in Callers, Call(c) \/ Caller(c)
  PROVE  ClonesPart'
<1>1. /\ UNCHANGED <<hook, hookType, memory>> /\ Live' = Live
      /\ pc \in [Callers -> CallerPcs] /\ carg \in [Callers -> Args \cup {NULL}]
      /\ chook \in [Callers -> Seq(Hooks \cup {NULL})] /\ ctype \in [Callers -> Seq(HookTypes)]
      /\ hook \in [Args -> Seq(Hooks \cup {NULL})] /\ hookType \in [Args -> Seq(HookTypes)]
  BY Zenon, CallerStep DEF Live, ArraysInv, TypeOK
<1> DEFINE Clone(d) ==
             /\ pc'[d] \in {"out", "head"} => chook'[d] = <<>> /\ ctype'[d] = <<>>
             /\ carg'[d] \in Live => /\ Within(chook'[d], hook[carg'[d]], NULL)
                                     /\ Within(ctype'[d], hookType[carg'[d]], 0)
<1>2. \A d \in Callers : d # c => Clone(d)
  <2>1. \A d \in Callers : d # c =>
          pc'[d] = pc[d] /\ carg'[d] = carg[d] /\ chook'[d] = chook[d] /\ ctype'[d] = ctype[d]
    BY Zenon, <1>1 DEF Call, Caller, RunOriginal, JumpToPrologue, EnterPrologue, SpinInPrologue,
         CloneStruct, CloneHook, CloneType, CloneFreedArrays, LeavePrologue, UnlockInHandler,
         RunPreHooks, RunBridge, RunPostHooks, Epilogue, UseFreed, CGoto, clones
  <2> QED
    BY Zenon, <2>1 DEF ClonesPart
<1>3. SUFFICES Clone(c)
  BY Zenon, <1>1, <1>2 DEF ClonesPart
<1>4. ASSUME UNCHANGED <<chook, ctype>>, carg'[c] = carg[c],
             pc'[c] \in {"out", "head"} => pc[c] \in {"out", "head"}
      PROVE  Clone(c)
  BY Zenon, <1>4 DEF ClonesPart
<1>5. CASE Call(c)
  <2>1. chook'[c] = <<>> /\ ctype'[c] = <<>>
    BY Zenon, <1>5 DEF Call, CGoto, clones, ClonesPart
  <2>2. \A q, zero : Within(<<>>, q, zero)
    BY DEF Within
  <2> QED
    BY Zenon, <2>1, <2>2
<1>6. CASE \/ RunOriginal(c) \/ JumpToPrologue(c) \/ EnterPrologue(c) \/ SpinInPrologue(c)
           \/ CloneStruct(c) \/ CloneFreedArrays(c) \/ LeavePrologue(c) \/ UnlockInHandler(c)
           \/ RunPreHooks(c) \/ RunBridge(c) \/ RunPostHooks(c) \/ UseFreed(c)
  <2>1. UNCHANGED <<chook, ctype, carg>>
    BY Zenon, <1>6 DEF RunOriginal, JumpToPrologue, EnterPrologue, SpinInPrologue, CloneStruct,
         CloneFreedArrays, LeavePrologue, UnlockInHandler, RunPreHooks, RunBridge, RunPostHooks,
         UseFreed, clones
  <2>2. pc'[c] \in {"out", "head"} => pc[c] \in {"out", "head"}
    BY Zenon, <1>1, <1>6 DEF RunOriginal, JumpToPrologue, EnterPrologue, SpinInPrologue,
         CloneStruct, CloneFreedArrays, LeavePrologue, UnlockInHandler, RunPreHooks, RunBridge,
         RunPostHooks, UseFreed, CGoto
  <2> QED
    BY Zenon, <1>4, <2>1, <2>2
<1>7. CASE CloneHook(c)
  <2>1. /\ UNCHANGED <<ctype, carg>> /\ carg[c] \in Live /\ carg[c] \in Args
        /\ pc'[c] \notin {"out", "head"}
    BY Zenon, <1>1, <1>7 DEF CloneHook, Alive, CGoto, Live, ArraysInv, InPrologue
  <2>2. CASE chook' = chook
    BY Zenon, <1>4, <2>1, <2>2
  <2>3. CASE /\ Len(chook[c]) < Len(hook[carg[c]])
             /\ chook' = [chook EXCEPT ![c] = Append(@, hook[carg[c]][Len(chook[c]) + 1])]
    <3>1. PICK S : chook[c] \in Seq(S) /\ hook[carg[c]] \in Seq(S)
      BY Zenon, <1>1, <2>1
    <3>2. /\ Within(chook[c], hook[carg[c]], NULL) /\ Within(ctype[c], hookType[carg[c]], 0)
          /\ chook'[c] = Append(chook[c], hook[carg[c]][Len(chook[c]) + 1])
      BY Zenon, <1>1, <2>1, <2>3 DEF ClonesPart
    <3>3. Within(chook'[c], hook[carg[c]], NULL)
      BY Zenon, <2>3, <3>1, <3>2, AppendWithin
    <3> QED
      BY Zenon, <2>1, <3>2, <3>3
  <2> QED
    BY Zenon, <1>7, <2>2, <2>3 DEF CloneHook, SameArrays
<1>8. CASE CloneType(c)
  <2>1. /\ UNCHANGED <<chook, carg>> /\ carg[c] \in Live /\ carg[c] \in Args
        /\ pc'[c] \notin {"out", "head"} /\ Len(hookType[carg[c]]) = Len(hook[carg[c]])
    BY Zenon, <1>1, <1>8 DEF CloneType, Alive, CGoto, Live, ArraysInv, InPrologue, ArraysPart,
                      ArraysEnded
  <2>2. CASE ctype' = ctype
    BY Zenon, <1>4, <2>1, <2>2
  <2>3. CASE /\ Len(ctype[c]) < Len(hookType[carg[c]])
             /\ ctype' = [ctype EXCEPT ![c] = Append(@, hookType[carg[c]][Len(ctype[c]) + 1])]
    <3>1. PICK S : ctype[c] \in Seq(S) /\ hookType[carg[c]] \in Seq(S)
      BY Zenon, <1>1, <2>1
    <3>2. /\ Within(chook[c], hook[carg[c]], NULL) /\ Within(ctype[c], hookType[carg[c]], 0)
          /\ ctype'[c] = Append(ctype[c], hookType[carg[c]][Len(ctype[c]) + 1])
      BY Zenon, <1>1, <2>1, <2>3 DEF ClonesPart
    <3>3. Within(ctype'[c], hookType[carg[c]], 0)
      BY Zenon, <2>3, <3>1, <3>2, AppendWithin
    <3> QED
      BY Zenon, <2>1, <3>2, <3>3
  <2> QED
    BY Zenon, <1>8, <2>1, <2>2, <2>3 DEF CloneType, SameArrays
<1>9. CASE Epilogue(c)
  <2>1. carg'[c] = NULL /\ chook'[c] = <<>> /\ ctype'[c] = <<>>
    BY Zenon, <1>1, <1>9 DEF Epilogue
  <2> QED
    BY Zenon, <2>1, ConstantsAssumption DEF Live
<1> QED
  BY Zenon, <1>5, <1>6, <1>7, <1>8, <1>9 DEF Caller

(* KeptInv is inductive relative to the other layers.                      *)
LEMMA KeptInductive ==
  ControlInv /\ PatchInv /\ ArraysInv /\ CallersInv /\ KeptInv /\ [Next]_vars => KeptInv'
<1> SUFFICES ASSUME ControlInv, PatchInv, ArraysInv, CallersInv, KeptInv, Removable = {}, [Next]_vars
             PROVE  /\ \A o \in Operators : todo'[o] # "remove"
                    /\ AddedPart' /\ ClonesPart'
  BY Zenon DEF KeptInv
<1>1. /\ \A o \in Operators : todo[o] # "remove"
      /\ AddedPart /\ ClonesPart
  BY Zenon DEF KeptInv
<1>2. CASE UNCHANGED vars
  BY Zenon, <1>1, <1>2 DEF vars, fields, callers, operators, inputs, AddedPart, ClonesPart, Live,
                    HookCells, TypeCells, PutsHook, PutsType
<1>3. ASSUME NEW c \in Callers, Call(c) \/ Caller(c)
      PROVE  (\A o \in Operators : todo'[o] # "remove") /\ AddedPart' /\ ClonesPart'
  <2>1. UNCHANGED <<todo, opc, hook, hookType, hookCount, memory>>
    BY Zenon, <1>3, CallerStep
  <2>2. AddedPart'
    BY Zenon, <1>1, <2>1 DEF AddedPart, Live, HookCells, TypeCells, PutsHook, PutsType
  <2> QED
    BY Zenon, <1>1, <1>3, <2>1, <2>2, CallerClones
<1>4. ASSUME NEW o \in Operators, StartOperation(o) \/ Operator(o)
      PROVE  (\A p \in Operators : todo'[p] # "remove") /\ AddedPart' /\ ClonesPart'
  <2>1. AddedPart' /\ \A a \in Live \cap Live' : Stay(a)
    BY Zenon, <1>1, <1>4, OperatorStays
  <2>2. \A p \in Operators : todo'[p] # "remove"
    <3>1. todo \in [Operators -> Operations]
      BY Zenon DEF ControlInv
    <3>2. CASE StartOperation(o)
      BY Zenon, <1>1, <3>1, <3>2 DEF StartOperation, StartCreate, StartAdd, StartRemove,
           StartDestroy, StartHook, StartUnhook, Start
    <3>3. CASE Operator(o)
      <4>1. todo' = todo \/ todo' = [todo EXCEPT ![o] = "none"]
        BY Zenon, <3>3, InsideMoves DEF Operator, Inside, LockIn, OuterUnlock, Unlock, CreateUnlock,
             Finish, inputs
      <4> QED
        BY Zenon, <1>1, <3>1, <4>1
    <3> QED
      BY Zenon, <1>4, <3>2, <3>3
  <2>3. ASSUME NEW c \in Callers
        PROVE  /\ pc'[c] \in {"out", "head"} => chook'[c] = <<>> /\ ctype'[c] = <<>>
               /\ carg'[c] \in Live' => /\ Within(chook'[c], hook'[carg'[c]], NULL)
                                        /\ Within(ctype'[c], hookType'[carg'[c]], 0)
    <3>1. UNCHANGED <<pc, carg, chook, ctype>>
      BY Zenon, <1>4, OperatorArrays DEF callers
    <3>2. ASSUME NEW a \in Live', a = carg[c]
          PROVE  Within(chook[c], hook'[a], NULL) /\ Within(ctype[c], hookType'[a], 0)
      <4>1. a \in Live
        <5>1. a \in Args /\ memory[a] # "unused" /\ memory'[a] = "live"
          BY Zenon, <3>2, ConstantsAssumption DEF CallersInv, Live
        <5>2. memory' = memory \/ (\E b \in Args : memory[b] = "unused" /\
                 memory' = [memory EXCEPT ![b] = "live"])
              \/ \E b : memory' = [memory EXCEPT ![b] = "freed"]
          BY Zenon, <1>4 DEF StartOperation, StartCreate, StartAdd, StartRemove, StartDestroy,
               StartHook, StartUnhook, Start, Operator, LockIn, Dispatch, OuterUnlock, Unlock,
               CreateTest, CreateBuild, CreatePatch, CreateJump, CreateUnlock, SpinLoad, SpinStore,
               SpinUnlock, Grow, PutHook, PutType, PutCount, PutNull, PutFrame, Shift, ShiftDone,
               FunctionLock, RestoreTail, FunctionUnlock, Pause, Poll, Free
        <5> QED
          BY Zenon, <5>1, <5>2 DEF Live, PatchInv
      <4>2. Stay(a) /\ Within(chook[c], hook[a], NULL) /\ Within(ctype[c], hookType[a], 0)
        BY Zenon, <1>1, <2>1, <3>2, <4>1 DEF ClonesPart
      <4>3. /\ Len(chook[c]) \in Nat /\ Len(ctype[c]) \in Nat
            /\ Len(hook[a]) \in Nat /\ Len(hookType[a]) \in Nat
        BY Zenon, <4>1, ArrayOf DEF ArraysInv, TypeOK, Live
      <4> QED
        BY Zenon, <4>2, <4>3, WithinTwice DEF Stay
    <3> QED
      BY Zenon, <1>1, <3>1, <3>2 DEF ClonesPart
  <2> QED
    BY Zenon, <2>1, <2>2, <2>3 DEF ClonesPart
<1> QED
  BY Zenon, <1>2, <1>3, <1>4 DEF Next

LEMMA KeptInit == Init => KeptInv
<1> SUFFICES ASSUME Init PROVE KeptInv
  BY Zenon
<1>1. Live = {} /\ \A o \in Operators : todo[o] # "remove"
  BY Zenon DEF Init, Live
<1> QED
  BY Zenon, <1>1 DEF KeptInv, AddedPart, ClonesPart, Init

-----------------------------------------------------------------------------
(* While clients add a hook once at a time: the hooks of a list are        *)
(* distinct, so HookRemove closes one gap at most.                         *)

Listed(q, n) ==
  /\ n \in 0..Len(q)
  /\ \A i \in 1..n : q[i] # NULL
  /\ \A i, j \in 1..n : q[i] = q[j] => i = j

Closed(q, n) == Listed(q, n) /\ n < Len(q) /\ q[n + 1] = NULL

(* The loop of HookRemove after i turns, j cells behind.  Once it has met  *)
(* the hook, cell i holds what cell i + 1 holds, and the hook is gone.     *)
Shifted(q, n, i, j, h) ==
  /\ n \in 0..(Len(q) - 1) /\ i \in 0..n /\ j \in {0, 1} /\ q[n + 1] = NULL /\ h # NULL
  /\ j = 0 => Closed(q, n) /\ \A k \in 1..i : q[k] # h
  /\ j = 1 => /\ i > 0 /\ \A k \in 1..n : q[k] # h /\ (q[k] = NULL <=> k = n /\ i = n)
              /\ i < n => q[i] = q[i + 1]
              /\ \A k, l \in (1..n) \ {i} : q[k] = q[l] => k = l

(* A hook that HookAdd will append is in no other HookAdd, nor in the list *)
(* of the installed hook.                                                  *)
Appending(o) == todo[o] \in {"add", "hook"}
Pending(o) == Appending(o) /\ opc[o] \notin {"put_null", "unlock", "outer_unlock"}

Lacks(q, n, h) == \A i \in 1..n : q[i] # h
Absent(h, a) == Lacks(hook[a], hookCount[a], h)

PendingPart ==
  /\ \A o, p \in Operators : Appending(o) /\ Appending(p) /\ o # p => ohook[o] # ohook[p]
  /\ \A o \in Operators : todo[o] \in {"add", "hook", "remove"} => ohook[o] \in Hooks
  /\ \A o \in Operators : Pending(o) => \A a \in Args : Installed(a) => Absent(ohook[o], a)
  /\ \A o \in Operators : opc[o] \in {"create_patch", "create_jump"} => hookCount[oarg[o]] = 0

BusyPcs == {"put_type", "put_count", "put_null", "shift"}

ListPart ==
  /\ \A o \in Operators : opc[o] # "shift" => s[o] = 0 /\ t[o] = 0
  /\ (\A o \in Operators : opc[o] \notin BusyPcs) =>
       \A a \in Live : Closed(hook[a], hookCount[a])
  /\ \A o \in Operators :
       LET q == hook[oarg[o]]
           n == hookCount[oarg[o]]
       IN /\ opc[o] \in {"put_type", "put_count"} =>
               n \in Nat /\ Listed(q, n + 1) /\ q[n + 1] = ohook[o]
          /\ opc[o] = "put_null" => Listed(q, n)
          /\ opc[o] = "shift" => Shifted(q, n, s[o], t[o], ohook[o])

(* What the operator that owns the live argument has made of the list.     *)
Placed(o) ==
  LET q == hook'[oarg[o]]
      n == hookCount'[oarg[o]]
  IN /\ opc'[o] \notin BusyPcs => Closed(q, n)
     /\ opc'[o] \in {"put_type", "put_count"} =>
          n \in Nat /\ Listed(q, n + 1) /\ q[n + 1] = ohook[o]
     /\ opc'[o] = "put_null" => Listed(q, n)
     /\ opc'[o] = "shift" => Shifted(q, n, s'[o], t'[o], ohook[o])

(* Every hook of the new list r was in the old list q, or has been added.  *)
From(r, m, q, n, h, added) ==
  \A i \in 1..m : \/ r[i] = NULL
                  \/ \E l \in 1..n : r[i] = q[l]
                  \/ added /\ r[i] = h

ListInv == UniqueHooks => PendingPart /\ ListPart

(* What the steps of HookAdd and HookRemove make of a list.                *)
Put(r, q, i, x) == r = [q EXCEPT ![i] = x]

LEMMA GrownClosed ==
  ASSUME NEW S, NEW q \in Seq(S), NULL \in S, NEW n \in Int, Closed(q, n), NEW r, r = Grown(q, n, NULL)
  PROVE  Closed(r, n) /\ \A i \in 1..n : r[i] = q[i]
<1>1. Len(q) \in Nat /\ n \in 0..Len(q) /\ n < Len(q)
  BY DEF Closed, Listed
<1>2. Len(r) = 2 * Len(q)
  BY <1>1, GrownArray
<1>3. \A i \in 1..2 * Len(q) : r[i] = IF i <= n THEN q[i] ELSE NULL
  BY Zenon DEF Grown
<1>4. r[n + 1] = NULL /\ n < Len(r) /\ \A i \in 1..n : r[i] = q[i]
  BY <1>1, <1>2, <1>3
<1> QED
  BY <1>1, <1>2, <1>4 DEF Closed, Listed

Appended(r, q, n, x) == Listed(r, n + 1) /\ r[n + 1] = x /\ \A i \in 1..n : r[i] = q[i]

LEMMA PutListed ==
  ASSUME NEW S, NEW q \in Seq(S), NEW n \in Int, Closed(q, n), NEW x \in S, x # NULL,
         Lacks(q, n, x), NEW r, Put(r, q, n + 1, x)
  PROVE  Appended(r, q, n, x)
<1>1. Len(q) \in Nat /\ n \in 0..Len(q) /\ n < Len(q) /\ n + 1 \in 1..Len(q)
  BY DEF Closed, Listed
<1>2. /\ Len(r) = Len(q) /\ \A j \in 1..Len(q) : j # n + 1 => r[j] = q[j]
      /\ r[n + 1] = x
  BY <1>1, UpdatedArray DEF Put
<1> QED
  BY <1>1, <1>2 DEF Closed, Listed, Lacks, Appended

LEMMA PutClosed ==
  ASSUME NEW S, NEW q \in Seq(S), NULL \in S, NEW n \in Int, Listed(q, n), n < Len(q),
         NEW r, Put(r, q, n + 1, NULL)
  PROVE  Closed(r, n) /\ \A i \in 1..n : r[i] = q[i]
<1>1. Len(q) \in Nat /\ n \in 0..Len(q) /\ n + 1 \in 1..Len(q)
  BY DEF Listed
<1>2. /\ Len(r) = Len(q) /\ \A j \in 1..Len(q) : j # n + 1 => r[j] = q[j]
      /\ r[n + 1] = NULL
  BY <1>1, UpdatedArray DEF Put
<1> QED
  BY <1>1, <1>2 DEF Closed, Listed

(* One turn: a cell is kept, or takes what the next one holds.             *)
LEMMA ShiftedKept ==
  ASSUME NEW q, NEW n, NEW i, NEW h, Len(q) \in Nat, Shifted(q, n, i, 0, h), q[i + 1] # NULL,
         q[i + 1] # h
  PROVE  Shifted(q, n, i + 1, 0, h)
  BY DEF Shifted, Closed, Listed

LEMMA ShiftedOn ==
  ASSUME NEW S, NEW q \in Seq(S), NEW n, NEW i, NEW j, NEW h, Shifted(q, n, i, j, h),
         q[i + 1] # NULL, j = 1 \/ q[i + 1] = h, NEW r, Put(r, q, i + 1, q[i + 2])
  PROVE  /\ i + 2 <= Len(q) /\ Shifted(r, n, i + 1, 1, h)
         /\ \A k \in 1..n : r[k] = NULL \/ \E l \in 1..n : r[k] = q[l]
<1>1. /\ Len(q) \in Nat /\ n \in 0..(Len(q) - 1) /\ i \in 0..n /\ j \in {0, 1}
      /\ q[n + 1] = NULL /\ h # NULL
  BY DEF Shifted
<1>2. i < n
  BY <1>1
<1>3. i + 1 \in 1..Len(q) /\ i + 2 \in 1..Len(q) /\ q[i + 2] \in S
  BY <1>1, <1>2
<1>4. /\ Len(r) = Len(q) /\ \A k \in 1..Len(q) : k # i + 1 => r[k] = q[k]
      /\ r[i + 1] = q[i + 2]
  BY <1>1, <1>3, UpdatedArray DEF Put
<1>5. /\ \A k \in 1..n : k # i + 1 => q[k] # h /\ q[k] # NULL
      /\ \A k, l \in 1..n : k # i + 1 /\ l # i + 1 /\ r[k] = r[l] => k = l
  <2>1. CASE j = 0
    BY <1>1, <1>2, <1>4, <2>1 DEF Shifted, Closed, Listed
  <2>2. CASE j = 1
    <3>1. /\ i > 0 /\ q[i] = q[i + 1] /\ \A k \in 1..n : q[k] # h /\ q[k] # NULL
          /\ \A k, l \in (1..n) \ {i} : q[k] = q[l] => k = l
      BY <1>1, <1>2, <2>2 DEF Shifted
    <3>2. i \in 1..n /\ i + 1 \in (1..n) \ {i}
      BY <1>1, <1>2, <3>1
    <3>3. \A k \in 1..n : k # i + 1 => r[k] = q[k]
      BY <1>1, <1>4
    <3>4. \A k \in 1..n : k # i /\ k # i + 1 => q[k] # q[i]
      BY Zenon, <3>1, <3>2
    <3>5. \A k, l \in 1..n : k # i + 1 /\ l # i + 1 /\ r[k] = r[l] => k = l
      <4> TAKE k, l \in 1..n
      <4> HAVE k # i + 1 /\ l # i + 1 /\ r[k] = r[l]
      <4>1. q[k] = q[l]
        BY Zenon, <3>3
      <4> QED
        BY Zenon, <3>1, <3>4, <4>1
    <3> QED
      BY Zenon, <3>1, <3>5
  <2> QED
    BY Zenon, <1>1, <2>1, <2>2
<1> QED
  BY SMTT(30), <1>1, <1>2, <1>3, <1>4, <1>5 DEF Shifted

LEMMA ShiftedEnd ==
  ASSUME NEW q, NEW n, NEW i, NEW j, NEW h, Len(q) \in Nat, Shifted(q, n, i, j, h),
         q[i + 1] = NULL
  PROVE  Closed(q, n - j) /\ n - j <= n /\ n \in Nat
<1>1. n \in 0..(Len(q) - 1) /\ i \in 0..n /\ j \in {0, 1} /\ i = n
  BY DEF Shifted, Closed, Listed
<1>2. CASE j = 0
  BY <1>1, <1>2 DEF Shifted
<1>3. CASE j = 1
  BY <1>1, <1>3 DEF Shifted, Closed, Listed
<1> QED
  BY Zenon, <1>1, <1>2, <1>3


(* Steps of one operator that leave the hooks alone.                       *)
LEMMA ListKept ==
  ASSUME ListPart, NEW o \in Operators, UNCHANGED <<hook, hookCount, s, t>>, Live' \subseteq Live,
         \A p \in Operators : p # o =>
           opc'[p] = opc[p] /\ oarg'[p] = oarg[p] /\ ohook'[p] = ohook[p],
         opc[o] \notin BusyPcs, opc'[o] \notin BusyPcs
  PROVE  ListPart'
<1>1. \A p \in Operators : opc'[p] \in BusyPcs => p # o
  BY Zenon
<1>2. \A p \in Operators : opc'[p] \in BusyPcs <=> opc[p] \in BusyPcs
  BY Zenon
<1>3. \A p \in Operators : opc'[p] # "shift" => s'[p] = 0 /\ t'[p] = 0
  BY Zenon DEF ListPart, BusyPcs
<1>4. (\A p \in Operators : opc'[p] \notin BusyPcs) =>
        \A a \in Live' : Closed(hook'[a], hookCount'[a])
  BY Zenon, <1>2 DEF ListPart
<1>5. ASSUME NEW p \in Operators, opc'[p] \in BusyPcs
      PROVE  LET q == hook'[oarg'[p]]
                 n == hookCount'[oarg'[p]]
             IN /\ opc'[p] \in {"put_type", "put_count"} =>
                     n \in Nat /\ Listed(q, n + 1) /\ q[n + 1] = ohook'[p]
                /\ opc'[p] = "put_null" => Listed(q, n)
                /\ opc'[p] = "shift" => Shifted(q, n, s'[p], t'[p], ohook'[p])
  <2>1. p # o /\ opc'[p] = opc[p] /\ oarg'[p] = oarg[p] /\ ohook'[p] = ohook[p]
    BY Zenon, <1>1, <1>5
  <2> QED
    BY Zenon, <2>1 DEF ListPart
<1> QED
  BY Zenon, <1>3, <1>4, <1>5 DEF ListPart, BusyPcs

LEMMA PendingKept ==
  ASSUME PendingPart, NEW o \in Operators, UNCHANGED <<hook, hookCount>>,
         \A a \in Args : Installed(a)' => Installed(a),
         \A p \in Operators : p # o => /\ opc'[p] = opc[p] /\ todo'[p] = todo[p]
                                       /\ oarg'[p] = oarg[p] /\ ohook'[p] = ohook[p],
         todo'[o] = "none" \/ (todo'[o] = todo[o] /\ ohook'[o] = ohook[o]),
         Pending(o)' => Pending(o),
         opc'[o] \in {"create_patch", "create_jump"} =>
           opc[o] = "create_patch" /\ oarg'[o] = oarg[o]
  PROVE  PendingPart'
<1>1. \A p \in Operators : todo'[p] = "none" \/ (todo'[p] = todo[p] /\ ohook'[p] = ohook[p])
  BY Zenon
<1>2. \A p \in Operators : Appending(p)' => Appending(p) /\ ohook'[p] = ohook[p]
  BY Zenon, <1>1 DEF Appending
<1>3. \A p, r \in Operators : Appending(p)' /\ Appending(r)' /\ p # r => ohook'[p] # ohook'[r]
  <2> TAKE p, r \in Operators
  <2> HAVE Appending(p)' /\ Appending(r)' /\ p # r
  <2>1. Appending(p) /\ Appending(r) /\ ohook'[p] = ohook[p] /\ ohook'[r] = ohook[r]
    BY Zenon, <1>2
  <2> QED
    BY ZenonT(60), <2>1 DEF PendingPart
<1>4. \A p \in Operators : todo'[p] \in {"add", "hook", "remove"} => ohook'[p] \in Hooks
  BY Zenon, <1>1 DEF PendingPart
<1>5. ASSUME NEW p \in Operators, Pending(p)' , NEW a \in Args, Installed(a)'
      PROVE  \A i \in 1..hookCount'[a] : hook'[a][i] # ohook'[p]
  <2>1. Pending(p) /\ ohook'[p] = ohook[p] /\ Installed(a)
    BY Zenon, <1>2, <1>5 DEF Pending, Appending
  <2>2. Absent(ohook[p], a)
    BY Zenon, <2>1 DEF PendingPart
  <2> QED
    BY Zenon, <2>1, <2>2 DEF Absent, Lacks
<1>6. ASSUME NEW p \in Operators, opc'[p] \in {"create_patch", "create_jump"}
      PROVE  hookCount'[oarg'[p]] = 0
  <2>1. opc[p] \in {"create_patch", "create_jump"} /\ oarg'[p] = oarg[p]
    BY Zenon, <1>6
  <2> QED
    BY Zenon, <2>1 DEF PendingPart
<1> QED
  BY Zenon, <1>3, <1>4, <1>5, <1>6 DEF PendingPart, Absent, Lacks

(* Steps of the operator that changes the hooks.                           *)
LEMMA OwnerLists ==
  ASSUME ControlInv, PatchInv, ListPart, NEW o \in Operators, opc[o] \in AddPcs \cup RemovePcs,
         UNCHANGED <<memory, oarg, ohook>>, opc' = [opc EXCEPT ![o] = opc'[o]],
         \A p \in Operators : p # o => s'[p] = s[p] /\ t'[p] = t[p],
         opc'[o] # "shift" => s'[o] = 0 /\ t'[o] = 0,
         Placed(o)
  PROVE  ListPart'
<1>1. /\ mutex = o /\ Live = {oarg[o]} /\ Live' = Live /\ opc \in [Operators -> OperatorPcs]
  BY Zenon, ArrayOwner DEF Live, ControlInv
<1>2. \A p \in Operators : p # o => opc'[p] = opc[p] /\ opc[p] \notin BusyPcs
  BY Zenon, <1>1, InsideOwns DEF BusyPcs
<1>3. \A p \in Operators : opc'[p] # "shift" => s'[p] = 0 /\ t'[p] = 0
  BY Zenon, <1>2 DEF ListPart
<1>4. (\A p \in Operators : opc'[p] \notin BusyPcs) =>
        \A a \in Live' : Closed(hook'[a], hookCount'[a])
  BY Zenon, <1>1 DEF Placed
<1> QED
  BY ZenonT(60), <1>2, <1>3, <1>4 DEF ListPart, Placed, BusyPcs

LEMMA OwnerPending ==
  ASSUME ControlInv, PatchInv, PendingPart, NEW o \in Operators, opc[o] \in AddPcs \cup RemovePcs,
         UNCHANGED <<head, tail, target, todo, ohook, oarg>>, opc' = [opc EXCEPT ![o] = opc'[o]],
         opc'[o] \in AddPcs \cup RemovePcs \cup {"unlock"}, Pending(o)' => Pending(o),
         From(hook'[oarg[o]], hookCount'[oarg[o]], hook[oarg[o]], hookCount[oarg[o]], ohook[o],
              Appending(o) /\ ~Pending(o)')
  PROVE  PendingPart'
<1>1. /\ mutex = o /\ Live = {oarg[o]} /\ opc \in [Operators -> OperatorPcs]
  BY Zenon, ArrayOwner DEF ControlInv
<1>2. \A p, r \in Operators : Appending(p)' /\ Appending(r)' /\ p # r => ohook'[p] # ohook'[r]
  BY Zenon DEF PendingPart, Appending
<1>3. \A p \in Operators : todo'[p] \in {"add", "hook", "remove"} => ohook'[p] \in Hooks
  BY Zenon DEF PendingPart
<1>4. ASSUME NEW p \in Operators, Pending(p)' , NEW a \in Args, Installed(a)'
      PROVE  \A i \in 1..hookCount'[a] : hook'[a][i] # ohook'[p]
  <2>1. Pending(p) /\ Installed(a) /\ Appending(p) /\ ohook'[p] = ohook[p]
    BY Zenon, <1>1, <1>4 DEF Pending, Appending, Installed
  <2>2. a = oarg[o]
    BY Zenon, <1>1, <2>1, JumpIsHooked DEF Installed, Hooked
  <2>3. ohook[p] \in Hooks /\ Absent(ohook[p], a) /\ ohook[p] # NULL
    BY Zenon, <2>1, ConstantsAssumption DEF PendingPart, Appending
  <2>4. ASSUME NEW i \in 1..hookCount'[a] PROVE hook'[a][i] # ohook[p]
    <3>1. Appending(o) /\ ~Pending(o)' => ohook[o] # ohook[p]
      BY Zenon, <1>4, <2>1 DEF PendingPart
    <3> QED
      BY Zenon, <2>2, <2>3, <2>4, <3>1 DEF Absent, Lacks, From
  <2> QED
    BY Zenon, <2>1, <2>4 DEF Absent, Lacks
<1>5. \A p \in Operators : opc'[p] \notin {"create_patch", "create_jump"}
  <2>1. \A p \in Operators : p # o => opc[p] \notin {"create_patch", "create_jump"}
    BY Zenon, <1>1, InsideOwns
  <2> QED
    BY Zenon, <1>1, <2>1 DEF AddPcs, RemovePcs
<1> QED
  BY Zenon, <1>2, <1>3, <1>4, <1>5 DEF PendingPart, Absent, Lacks

(* What the owner of the live argument knows of it.                        *)
LEMMA OwnerKnows ==
  ASSUME ControlInv, PatchInv, ArraysInv, NEW o \in Operators, opc[o] \in AddPcs \cup RemovePcs
  PROVE  /\ oarg[o] \in Args /\ Live = {oarg[o]} /\ Installed(oarg[o]) /\ mutex = o
         /\ hook \in [Args -> Seq(Hooks \cup {NULL})] /\ hookCount \in [Args -> Int]
         /\ hook[oarg[o]] \in Seq(Hooks \cup {NULL}) /\ Len(hook[oarg[o]]) \in Nat
         /\ hookCount[oarg[o]] \in Int /\ hookCount[oarg[o]] < Len(hook[oarg[o]])
         /\ opc \in [Operators -> OperatorPcs]
         /\ s \in [Operators -> Nat] /\ t \in [Operators -> Nat]
<1>1. mutex = o /\ oarg[o] \in Args /\ Live = {oarg[o]}
  BY Zenon, ArrayOwner
<1>2. Hooked(oarg[o])
  BY Zenon, <1>1, ConstantsAssumption DEF PatchInv, Owned
<1>3. /\ hook \in [Args -> Seq(Hooks \cup {NULL})] /\ hookCount \in [Args -> Int]
      /\ hookCount[oarg[o]] < Len(hook[oarg[o]]) /\ opc \in [Operators -> OperatorPcs]
      /\ s \in [Operators -> Nat] /\ t \in [Operators -> Nat]
  BY Zenon, <1>1 DEF ArraysInv, ArraysPart, ArraysEnded, TypeOK
<1> QED
  BY Zenon, <1>1, <1>2, <1>3, ArrayOf DEF Hooked, Bytes, Installed

(* HookAdd appends one hook to the list.                                   *)
LEMMA AddLists ==
  ASSUME ControlInv, PatchInv, ArraysInv, PendingPart, ListPart, NEW o \in Operators,
         Grow(o) \/ PutHook(o) \/ PutType(o) \/ PutCount(o) \/ PutNull(o)
  PROVE  PendingPart' /\ ListPart'
<1>1. /\ UNCHANGED <<head, tail, target, memory, todo, oarg, ohook, s, t>>
      /\ opc[o] \in AddPcs /\ opc'[o] \in AddPcs \cup {"unlock"} /\ opc \in [Operators -> OperatorPcs]
      /\ opc' = [opc EXCEPT ![o] = opc'[o]]
      /\ Pending(o)' => Pending(o)
  <2>1. /\ UNCHANGED <<head, tail, target, memory, todo, oarg, ohook, s, t>>
        /\ opc \in [Operators -> OperatorPcs]
    BY Zenon DEF Grow, PutHook, PutType, PutCount, PutNull, PutFrame, inputs, loops, function,
                 ControlInv
  <2>2. /\ opc[o] \in AddPcs /\ opc'[o] \in AddPcs \cup {"unlock"}
        /\ opc' = [opc EXCEPT ![o] = opc'[o]]
        /\ opc[o] = "put_null" => opc'[o] = "unlock"
    BY Zenon, <2>1 DEF Grow, PutHook, PutType, PutCount, PutNull, OGoto, AddPcs
  <2>3. Pending(o)' => Pending(o)
    BY Zenon, <2>1, <2>2 DEF Pending, Appending, AddPcs
  <2> QED
    BY Zenon, <2>1, <2>2, <2>3
<1>2. PICK a \in Args : a = oarg[o] /\ Installed(a) /\ mutex = o /\ Live = {a}
  BY Zenon, <1>1, OwnerKnows
<1>3. PICK q : q = hook[a]
  OBVIOUS
<1>4. PICK n : n = hookCount[a]
  OBVIOUS
<1>5. /\ q \in Seq(Hooks \cup {NULL}) /\ Len(q) \in Nat /\ n \in Int /\ n < Len(q)
      /\ hook \in [Args -> Seq(Hooks \cup {NULL})] /\ hookCount \in [Args -> Int]
      /\ s[o] = 0 /\ t[o] = 0
  BY Zenon, <1>1, <1>2, <1>3, <1>4, OwnerKnows DEF ListPart, AddPcs
<1>6. /\ Appending(o) /\ ohook[o] \in Hooks /\ ohook[o] # NULL
      /\ opc[o] # "put_null" => Lacks(q, n, ohook[o])
  <2>1. Appending(o)
    BY Zenon, <1>1 DEF ControlInv, Stands, Appending
  <2>2. ohook[o] \in Hooks /\ (Pending(o) => Absent(ohook[o], a))
    BY Zenon, <1>2, <2>1 DEF PendingPart, Appending
  <2>3. opc[o] # "put_null" => Pending(o)
    BY Zenon, <1>1, <2>1 DEF Pending, AddPcs
  <2> QED
    BY Zenon, <1>3, <1>4, <2>1, <2>2, <2>3, ConstantsAssumption DEF Absent, Lacks
<1>7. \A p \in Operators : p # o => opc[p] \notin BusyPcs
  BY Zenon, <1>2, InsideOwns DEF BusyPcs
<1>8. /\ opc[o] \in {"grow", "add_release", "put_hook"} => Closed(q, n)
      /\ opc[o] \in {"put_type", "put_count"} => n \in Nat /\ Listed(q, n + 1) /\ q[n + 1] = ohook[o]
      /\ opc[o] = "put_null" => Listed(q, n)
  <2>1. opc[o] \in {"grow", "add_release", "put_hook"} => Closed(q, n)
    <3> SUFFICES ASSUME opc[o] \in {"grow", "add_release", "put_hook"} PROVE Closed(q, n)
      OBVIOUS
    <3>1. opc[o] \notin BusyPcs
      BY Zenon DEF BusyPcs
    <3>2. \A p \in Operators : opc[p] \notin BusyPcs
      BY Zenon, <1>7, <3>1
    <3> QED
      BY Zenon, <1>2, <1>3, <1>4, <3>2 DEF ListPart
  <2> QED
    BY Zenon, <1>2, <1>3, <1>4, <2>1 DEF ListPart
<1>9. PICK r : r = hook'[a]
  OBVIOUS
<1>10. PICK m : m = hookCount'[a]
  OBVIOUS
<1>11. SUFFICES /\ opc'[o] \notin BusyPcs => Closed(r, m)
                /\ opc'[o] \in {"put_type", "put_count"} =>
                     m \in Nat /\ Listed(r, m + 1) /\ r[m + 1] = ohook[o]
                /\ opc'[o] = "put_null" => Listed(r, m)
                /\ From(r, m, q, n, ohook[o], opc'[o] = "put_null")
  <2>1. opc'[o] # "shift"
    BY Zenon, <1>1 DEF AddPcs
  <2>2. Placed(o)
    BY Zenon, <1>2, <1>9, <1>10, <1>11, <2>1 DEF Placed
  <2>3. From(hook'[oarg[o]], hookCount'[oarg[o]], hook[oarg[o]], hookCount[oarg[o]], ohook[o],
             Appending(o) /\ ~Pending(o)')
    <3>1. From(r, m, q, n, ohook[o], Appending(o) /\ ~Pending(o)')
      BY Zenon, <1>6, <1>11 DEF From, Pending
    <3> QED
      BY Zenon, <1>2, <1>3, <1>4, <1>9, <1>10, <3>1
  <2>4. /\ opc[o] \in AddPcs \cup RemovePcs /\ opc'[o] \in AddPcs \cup RemovePcs \cup {"unlock"}
        /\ UNCHANGED <<head, tail, target, todo, ohook, oarg>> /\ UNCHANGED <<memory, oarg, ohook>>
        /\ opc' = [opc EXCEPT ![o] = opc'[o]]
        /\ Pending(o)' => Pending(o)
    BY Zenon, <1>1
  <2>5. /\ \A p \in Operators : p # o => s'[p] = s[p] /\ t'[p] = t[p]
        /\ opc'[o] # "shift" => s'[o] = 0 /\ t'[o] = 0
    BY Zenon, <1>1, <1>5
  <2>6. PendingPart'
    BY Zenon, <2>3, <2>4, OwnerPending
  <2>7. ListPart'
    BY Zenon, <2>2, <2>4, <2>5, OwnerLists
  <2> QED
    BY Zenon, <2>6, <2>7
<1>12. CASE Grow(o)
  <2>1. opc[o] = "grow" /\ opc'[o] = "add_release" /\ m = n
    BY Zenon, <1>1, <1>4, <1>10, <1>12 DEF Grow, OGoto
  <2>2. r = q \/ r = Grown(q, n, NULL)
    BY Zenon, <1>2, <1>3, <1>4, <1>5, <1>9, <1>12 DEF Grow
  <2>3. Closed(q, n)
    BY Zenon, <1>8, <2>1
  <2>4. Closed(r, n) /\ \A i \in 1..n : r[i] = q[i]
    <3>1. PICK S : q \in Seq(S) /\ NULL \in S
      BY Zenon, <1>5
    <3>2. CASE r = Grown(q, n, NULL)
      BY Zenon, <1>5, <2>3, <3>1, <3>2, GrownClosed
    <3> QED
      BY Zenon, <2>2, <2>3, <3>2
  <2> QED
    BY Zenon, <2>1, <2>4 DEF From, BusyPcs
<1>13. CASE PutHook(o)
  <2>1. /\ opc[o] = "put_hook" /\ opc'[o] = "put_type" /\ m = n
        /\ Put(r, q, n + 1, ohook[o])
    BY Zenon, <1>1, <1>2, <1>3, <1>4, <1>5, <1>9, <1>10, <1>13 DEF PutHook, OGoto, Put
  <2>2. Closed(q, n) /\ Lacks(q, n, ohook[o]) /\ n \in Int /\ ohook[o] # NULL
    BY Zenon, <1>5, <1>6, <1>8, <2>1
  <2>3. PICK S : q \in Seq(S) /\ ohook[o] \in S
    BY Zenon, <1>5, <1>6
  <2>4. Listed(r, n + 1) /\ r[n + 1] = ohook[o] /\ \A i \in 1..n : r[i] = q[i]
    <3>1. PICK x \in S : x = ohook[o]
      BY Zenon, <2>3
    <3> QED
      <4>1. q \in Seq(S) /\ n \in Int /\ Closed(q, n) /\ x # NULL /\ Lacks(q, n, x) /\ Put(r, q, n + 1, x)
        BY Zenon, <2>1, <2>2, <2>3, <3>1
      <4>2. Appended(r, q, n, x)
        BY Zenon, <4>1, PutListed
      <4> QED
        BY Zenon, <3>1, <4>2 DEF Appended
  <2>5. n \in Nat
    BY <1>5, <2>2 DEF Closed, Listed
  <2> QED
    BY Zenon, <2>1, <2>4, <2>5 DEF From, BusyPcs
<1>14. CASE PutType(o)
  <2>1. opc[o] = "put_type" /\ opc'[o] = "put_count" /\ m = n /\ r = q
    BY Zenon, <1>1, <1>3, <1>4, <1>9, <1>10, <1>14 DEF PutType, OGoto
  <2> QED
    BY Zenon, <1>8, <2>1 DEF From, BusyPcs
<1>15. CASE PutCount(o)
  <2>1. opc[o] = "put_count" /\ opc'[o] = "put_null" /\ m = n + 1 /\ r = q
    BY Zenon, <1>1, <1>2, <1>3, <1>4, <1>5, <1>9, <1>10, <1>15 DEF PutCount, OGoto
  <2>2. n \in Nat /\ Listed(q, n + 1) /\ q[n + 1] = ohook[o]
    BY Zenon, <1>8, <2>1
  <2>3. \A i \in 1..(n + 1) : i \in 1..n \/ i = n + 1
    BY <2>2
  <2> QED
    BY Zenon, <2>1, <2>2, <2>3 DEF From, BusyPcs
<1>16. CASE PutNull(o)
  <2>1. /\ opc[o] = "put_null" /\ opc'[o] = "unlock" /\ m = n
        /\ Put(r, q, n + 1, NULL)
    BY Zenon, <1>1, <1>2, <1>3, <1>4, <1>5, <1>9, <1>10, <1>16 DEF PutNull, OGoto, Put
  <2>2. PICK S : q \in Seq(S) /\ NULL \in S
    BY Zenon, <1>5
  <2>3. Listed(q, n) /\ n < Len(q) /\ n \in Int
    BY Zenon, <1>5, <1>8, <2>1
  <2>4. Closed(r, n) /\ \A i \in 1..n : r[i] = q[i]
    BY Zenon, <2>1, <2>2, <2>3, PutClosed
  <2> QED
    BY Zenon, <2>1, <2>4 DEF From, BusyPcs
<1> QED
  BY Zenon, <1>12, <1>13, <1>14, <1>15, <1>16


(* HookRemove closes one gap at most.                                      *)
LEMMA RemoveLists ==
  ASSUME ControlInv, PatchInv, ArraysInv, PendingPart, ListPart, NEW o \in Operators,
         Shift(o) \/ ShiftDone(o)
  PROVE  PendingPart' /\ ListPart'
<1>1. /\ UNCHANGED <<head, tail, target, memory, todo, oarg, ohook>>
      /\ opc[o] = "shift" /\ opc'[o] \in {"shift", "remove_release"}
      /\ opc \in [Operators -> OperatorPcs] /\ opc' = [opc EXCEPT ![o] = opc'[o]]
  <2>1. /\ UNCHANGED <<head, tail, target, memory, todo, oarg, ohook>>
        /\ opc \in [Operators -> OperatorPcs] /\ opc[o] = "shift"
    BY Zenon DEF Shift, ShiftDone, OGoto, inputs, function, ControlInv
  <2>2. opc' = opc \/ opc' = [opc EXCEPT ![o] = "remove_release"]
    BY Zenon DEF Shift, ShiftDone, OGoto
  <2>3. opc = [opc EXCEPT ![o] = opc[o]]
    BY Zenon, <2>1
  <2> QED
    BY Zenon, <2>1, <2>2, <2>3
<1>2. PICK a \in Args : a = oarg[o] /\ Live = {a}
  BY Zenon, <1>1, OwnerKnows DEF RemovePcs
<1>3. PICK q : q = hook[a]
  OBVIOUS
<1>4. PICK n : n = hookCount[a]
  OBVIOUS
<1>5. PICK i : i = s[o]
  OBVIOUS
<1>6. PICK j : j = t[o]
  OBVIOUS
<1>7. PICK h : h = ohook[o]
  OBVIOUS
<1>8. /\ q \in Seq(Hooks \cup {NULL}) /\ Len(q) \in Nat
      /\ hook \in [Args -> Seq(Hooks \cup {NULL})] /\ hookCount \in [Args -> Int]
      /\ s \in [Operators -> Nat] /\ t \in [Operators -> Nat]
  BY Zenon, <1>1, <1>2, <1>3, OwnerKnows DEF RemovePcs
<1>9. Shifted(q, n, i, j, h)
  BY Zenon, <1>1, <1>2, <1>3, <1>4, <1>5, <1>6, <1>7 DEF ListPart
<1>10. PICK r : r = hook'[a]
  OBVIOUS
<1>11. PICK m : m = hookCount'[a]
  OBVIOUS
<1>12. SUFFICES /\ opc'[o] = "remove_release" => Closed(r, m) /\ s'[o] = 0 /\ t'[o] = 0
                /\ opc'[o] = "shift" => Shifted(r, m, s'[o], t'[o], h)
                /\ \A k \in 1..m : r[k] = NULL \/ \E l \in 1..n : r[k] = q[l]
                /\ \A p \in Operators : p # o => s'[p] = s[p] /\ t'[p] = t[p]
  <2>1. Placed(o)
    BY Zenon, <1>1, <1>2, <1>7, <1>10, <1>11, <1>12 DEF Placed, BusyPcs
  <2>2. From(hook'[oarg[o]], hookCount'[oarg[o]], hook[oarg[o]], hookCount[oarg[o]], ohook[o],
             Appending(o) /\ ~Pending(o)')
    BY Zenon, <1>2, <1>3, <1>4, <1>10, <1>11, <1>12 DEF From
  <2>3. /\ opc[o] \in AddPcs \cup RemovePcs /\ opc'[o] \in AddPcs \cup RemovePcs \cup {"unlock"}
        /\ UNCHANGED <<head, tail, target, todo, ohook, oarg>> /\ UNCHANGED <<memory, oarg, ohook>>
        /\ opc' = [opc EXCEPT ![o] = opc'[o]]
    BY Zenon, <1>1 DEF RemovePcs
  <2>4. Pending(o)' => Pending(o)
    BY Zenon, <1>1 DEF Pending, Appending
  <2>5. /\ \A p \in Operators : p # o => s'[p] = s[p] /\ t'[p] = t[p]
        /\ opc'[o] # "shift" => s'[o] = 0 /\ t'[o] = 0
    BY Zenon, <1>1, <1>12
  <2>6. PendingPart'
    BY Zenon, <2>2, <2>3, <2>4, OwnerPending
  <2>7. ListPart'
    BY Zenon, <2>1, <2>3, <2>5, OwnerLists
  <2> QED
    BY Zenon, <2>6, <2>7
<1>13. \A p \in Operators : p # o => s'[p] = s[p] /\ t'[p] = t[p]
  BY Zenon, <1>8 DEF Shift, ShiftDone
<1>14. CASE ShiftDone(o)
  <2>1. /\ r = q /\ m = n - j /\ s'[o] = 0 /\ t'[o] = 0 /\ opc'[o] = "remove_release"
        /\ q[i + 1] = NULL
    BY Zenon, <1>1, <1>2, <1>3, <1>4, <1>5, <1>6, <1>8, <1>10, <1>11, <1>14
       DEF ShiftDone, ShiftEnds, OGoto
  <2>2. Closed(q, n - j) /\ n - j <= n /\ n \in Nat
    BY Zenon, <1>8, <1>9, <2>1, ShiftedEnd
  <2>3. j \in {0, 1}
    BY Zenon, <1>9 DEF Shifted
  <2>4. \A k \in 1..m : k \in 1..n
    BY <2>1, <2>2, <2>3
  <2> QED
    BY Zenon, <1>13, <2>1, <2>2, <2>4
<1>15. CASE Shift(o)
  <2>1. /\ q[i + 1] # NULL /\ m = n /\ opc'[o] = "shift" /\ s'[o] = i + 1
        /\ t'[o] = IF q[i + 1] = h THEN j + 1 ELSE j
    BY Zenon, <1>1, <1>2, <1>3, <1>4, <1>5, <1>6, <1>7, <1>8, <1>10, <1>11, <1>15
       DEF Shift, ShiftEnds
  <2>2. j \in {0, 1}
    BY Zenon, <1>9 DEF Shifted
  <2>3. CASE j = 0 /\ q[i + 1] # h
    <3>1. r = q /\ t'[o] = 0
      BY Zenon, <1>2, <1>3, <1>5, <1>6, <1>7, <1>10, <1>15, <2>1, <2>3 DEF Shift
    <3>2. Shifted(q, n, i + 1, 0, h)
      BY Zenon, <1>8, <1>9, <2>1, <2>3, ShiftedKept
    <3> QED
      BY Zenon, <1>13, <2>1, <3>1, <3>2
  <2>4. CASE j = 1 \/ q[i + 1] = h
    <3>1. /\ i \in Nat /\ i + 1 \in 1..n /\ i + 2 <= Len(q)
          /\ q[i + 1] = h => j = 0
      BY <1>8, <1>9, <2>1, <2>4 DEF Shifted
    <3>2. t'[o] = 1
      BY <2>1, <2>2, <2>4, <3>1
    <3>3. Put(r, q, i + 1, q[i + 2])
      <4>1. 1 # 0 /\ i + 1 + 1 = i + 2
        BY <3>1
      <4>2. \E cell \in CellsAt(q, i + 1 + 1) : hook' = [hook EXCEPT ![a][i + 1] = cell]
        <5>1. PICK skip : /\ skip = t'[o]
                          /\ \/ skip = 0 /\ UNCHANGED hook
                             \/ \E cell \in CellsAt(q, i + skip + 1) :
                                  hook' = [hook EXCEPT ![a][i + 1] = cell]
          BY Zenon, <1>2, <1>3, <1>5, <1>6, <1>7, <1>8, <1>15 DEF Shift
        <5> QED
          BY Zenon, <3>2, <4>1, <5>1
      <4>3. hook' = [hook EXCEPT ![a][i + 1] = q[i + 2]]
        BY Zenon, <3>1, <4>1, <4>2 DEF CellsAt
      <4> QED
        BY Zenon, <1>3, <1>8, <1>10, <4>3 DEF Put
    <3>4. /\ Shifted(r, n, i + 1, 1, h)
          /\ \A k \in 1..n : r[k] = NULL \/ \E l \in 1..n : r[k] = q[l]
      <4>1. PICK S : q \in Seq(S)
        BY Zenon, <1>8
      <4> QED
        BY <1>9, <2>1, <2>4, <3>3, <4>1, ShiftedOn
    <3> QED
      BY Zenon, <1>13, <2>1, <3>2, <3>4
  <2> QED
    BY Zenon, <2>2, <2>3, <2>4
<1> QED
  BY Zenon, <1>14, <1>15

(* Steps that leave the hooks and the memory alone and do not install the  *)
(* jump.                                                                   *)
LEMMA QuietLists ==
  ASSUME ControlInv, PatchInv, ArraysInv, PendingPart, ListPart, NEW o \in Operators,
         \/ LockIn(o) \/ Dispatch(o) \/ OuterUnlock(o) \/ Unlock(o) \/ CreateTest(o)
         \/ CreatePatch(o) \/ CreateUnlock(o) \/ SpinLoad(o) \/ SpinUnlock(o)
         \/ FunctionLock(o) \/ RestoreTail(o) \/ FunctionUnlock(o) \/ Pause(o) \/ Poll(o)
  PROVE  PendingPart' /\ ListPart'
<1>1. /\ opc \in [Operators -> OperatorPcs] /\ todo \in [Operators -> Operations]
      /\ oarg \in [Operators -> Args \cup {NULL}] /\ Stands(o)
      /\ ohook \in [Operators -> Hooks \cup {NULL}]
  BY Zenon DEF ControlInv, PatchInv, ArraysInv, TypeOK
<1>2. UNCHANGED <<hook, hookCount, s, t, memory>>
  BY Zenon DEF LockIn, Dispatch, OuterUnlock, Unlock, CreateTest, CreatePatch, CreateUnlock,
     SpinLoad, SpinUnlock, FunctionLock, RestoreTail, FunctionUnlock, Pause, Poll, DestroyFrame,
     fields, loops
<1>3. \A a \in Args : Installed(a)' => Installed(a)
  BY Zenon DEF LockIn, Dispatch, OuterUnlock, Unlock, CreateTest, CreatePatch, CreateUnlock,
     SpinLoad, SpinUnlock, FunctionLock, RestoreTail, FunctionUnlock, Pause, Poll, DestroyFrame,
     function, Installed
<1>4. \A p \in Operators : p # o => /\ opc'[p] = opc[p] /\ todo'[p] = todo[p]
                                    /\ oarg'[p] = oarg[p] /\ ohook'[p] = ohook[p]
  BY Zenon, <1>1 DEF LockIn, Dispatch, OuterUnlock, Unlock, CreateTest, CreatePatch, CreateUnlock,
     SpinLoad, SpinUnlock, FunctionLock, RestoreTail, FunctionUnlock, Pause, Poll, DestroyFrame,
     inputs, OGoto, Finish
<1>5. todo'[o] = "none" \/ (todo'[o] = todo[o] /\ ohook'[o] = ohook[o])
  BY Zenon, <1>1 DEF LockIn, Dispatch, OuterUnlock, Unlock, CreateTest, CreatePatch, CreateUnlock,
     SpinLoad, SpinUnlock, FunctionLock, RestoreTail, FunctionUnlock, Pause, Poll, DestroyFrame,
     inputs, Finish
<1>6. /\ opc[o] \notin BusyPcs /\ opc'[o] \notin BusyPcs
      /\ opc'[o] # "create_patch"
      /\ opc'[o] = "create_jump" => opc[o] = "create_patch" /\ oarg'[o] = oarg[o]
      /\ opc[o] = "unlock" => opc'[o] \in {"outer_unlock", "idle"}
      /\ opc[o] = "outer_unlock" => opc'[o] = "idle"
      /\ opc'[o] = "idle" => todo'[o] = "none"
  BY ZenonT(60), <1>1 DEF LockIn, Dispatch, OuterUnlock, Unlock, CreateTest, CreatePatch, CreateUnlock,
     SpinLoad, SpinUnlock, FunctionLock, RestoreTail, FunctionUnlock, Pause, Poll, DestroyFrame,
     OGoto, Finish, BusyPcs
<1>7. Pending(o)' => Pending(o)
  <2> SUFFICES ASSUME Pending(o)' PROVE Pending(o)
    OBVIOUS
  <2>1. Appending(o) /\ opc'[o] \notin {"put_null", "unlock", "outer_unlock", "idle"}
    BY Zenon, <1>5, <1>6 DEF Pending, Appending
  <2>2. opc[o] \notin {"put_null", "unlock", "outer_unlock"}
    BY Zenon, <1>6, <2>1 DEF BusyPcs
  <2> QED
    BY Zenon, <2>1, <2>2 DEF Pending
<1>8. opc'[o] \in {"create_patch", "create_jump"} =>
        opc[o] = "create_patch" /\ oarg'[o] = oarg[o]
  BY Zenon, <1>6
<1>9. PendingPart'
  BY Zenon, <1>2, <1>3, <1>4, <1>5, <1>7, <1>8, PendingKept
<1>10. Live' \subseteq Live
  BY Zenon, <1>2 DEF Live
<1>11. ListPart'
  BY Zenon, <1>2, <1>4, <1>6, <1>10, ListKept
<1> QED
  BY Zenon, <1>9, <1>11

(* The spin lock is taken: HookRemove starts its loop.                     *)
LEMMA StoreLists ==
  ASSUME ControlInv, PatchInv, ArraysInv, PendingPart, ListPart, NEW o \in Operators, SpinStore(o)
  PROVE  PendingPart' /\ ListPart'
<1>1. /\ opc \in [Operators -> OperatorPcs] /\ todo \in [Operators -> Operations]
      /\ opc[o] = "store" /\ opc' = [opc EXCEPT ![o] = opc'[o]]
      /\ UNCHANGED <<head, tail, target, memory, hook, hookCount, todo, oarg, ohook, s, t>>
      /\ opc'[o] \in {"load", "grow", "poll", "shift"}
      /\ opc'[o] = "shift" => todo[o] = "remove"
  <2>1. opc \in [Operators -> OperatorPcs] /\ todo \in [Operators -> Operations]
    BY Zenon DEF ControlInv
  <2>2. /\ UNCHANGED <<head, tail, target, memory, hook, hookCount, todo, oarg, ohook, s, t>>
        /\ opc[o] = "store" /\ opc' = [opc EXCEPT ![o] = opc'[o]]
    BY Zenon, <2>1 DEF SpinStore, OGoto, inputs, loops, function
  <2>3. opc'[o] = "load" \/ opc'[o] = Section(o)
    BY Zenon, <2>1 DEF SpinStore, OGoto
  <2> QED
    BY Zenon, <2>1, <2>2, <2>3 DEF Section
<1>2. \A p \in Operators : p # o => /\ opc'[p] = opc[p] /\ todo'[p] = todo[p]
                                    /\ oarg'[p] = oarg[p] /\ ohook'[p] = ohook[p]
  BY Zenon, <1>1
<1>3. PendingPart'
  <2>1. \A a \in Args : Installed(a)' => Installed(a)
    BY Zenon, <1>1 DEF Installed
  <2>2. Pending(o)' => Pending(o)
    BY Zenon, <1>1 DEF Pending, Appending
  <2>3. /\ UNCHANGED <<hook, hookCount>>
        /\ todo'[o] = "none" \/ (todo'[o] = todo[o] /\ ohook'[o] = ohook[o])
        /\ opc'[o] \in {"create_patch", "create_jump"} =>
             opc[o] = "create_patch" /\ oarg'[o] = oarg[o]
    BY Zenon, <1>1
  <2> QED
    BY Zenon, <1>2, <2>1, <2>2, <2>3, PendingKept
<1>4. CASE opc'[o] # "shift"
  <2>1. Live' \subseteq Live /\ UNCHANGED <<hook, hookCount, s, t>>
    BY Zenon, <1>1 DEF Live
  <2>2. opc[o] \notin BusyPcs /\ opc'[o] \notin BusyPcs
    BY Zenon, <1>1, <1>4 DEF BusyPcs
  <2>3. ListPart'
    BY Zenon, <1>2, <2>1, <2>2, ListKept
  <2> QED
    BY Zenon, <1>3, <2>3
<1>5. CASE opc'[o] = "shift"
  <2>1. mutex = o /\ todo[o] = "remove"
    BY Zenon, <1>1, <1>5, InsideOwns
  <2>2. \A p \in Operators : opc[p] \notin BusyPcs
    BY Zenon, <1>1, <2>1, InsideOwns DEF BusyPcs
  <2>3. PICK a \in Args : a = oarg[o] /\ Live = {a}
    BY Zenon, <1>1, <2>1, ConstantsAssumption DEF PatchInv, Owned, Using, Hooked
  <2>4. PICK q : q = hook[a]
    OBVIOUS
  <2>5. PICK n : n = hookCount[a]
    OBVIOUS
  <2>6. Closed(q, n) /\ s[o] = 0 /\ t[o] = 0 /\ ohook[o] # NULL
    BY Zenon, <1>1, <2>1, <2>2, <2>3, <2>4, <2>5, ConstantsAssumption DEF ListPart, PendingPart
  <2>7. Len(q) \in Nat
    BY Zenon, <2>4, ArrayOf DEF ArraysInv, TypeOK
  <2>8. PICK h : h = ohook[o]
    OBVIOUS
  <2>9. Shifted(q, n, 0, 0, h)
    <3>1. n \in 0..(Len(q) - 1) /\ 0 \in 0..n /\ 0 # 1 /\ \A k \in 1..0 : FALSE
      <4>1. n \in 0..Len(q) /\ n < Len(q)
        BY Zenon, <2>6 DEF Closed, Listed
      <4>2. PICK l \in Nat : l = Len(q)
        BY Zenon, <2>7
      <4>3. n \in 0..(l - 1) /\ 0 \in 0..n
        BY <4>1, <4>2
      <4>4. 0 # 1 /\ \A k \in 1..0 : FALSE
        OBVIOUS
      <4> QED
        BY Zenon, <4>2, <4>3, <4>4
    <3> QED
      BY Zenon, <2>6, <2>8, <3>1 DEF Shifted, Closed
  <2>10. Live' = Live
    BY Zenon, <1>1 DEF Live
  <2>11. ASSUME NEW p \in Operators, opc'[p] \in BusyPcs
         PROVE  p = o
    BY Zenon, <1>2, <2>2, <2>11
  <2>12. \A p \in Operators : opc'[p] # "shift" => s'[p] = 0 /\ t'[p] = 0
    BY Zenon, <1>1, <1>2, <1>5 DEF ListPart
  <2>13. ~\A p \in Operators : opc'[p] \notin BusyPcs
    BY Zenon, <1>5 DEF BusyPcs
  <2>14. ASSUME NEW p \in Operators, opc'[p] \in BusyPcs
         PROVE  /\ opc'[p] = "shift"
                /\ Shifted(hook'[oarg'[p]], hookCount'[oarg'[p]], s'[p], t'[p], ohook'[p])
    BY Zenon, <1>1, <1>5, <2>3, <2>4, <2>5, <2>6, <2>8, <2>9, <2>11, <2>14
  <2>15. ListPart'
    BY Zenon, <2>12, <2>13, <2>14 DEF ListPart, BusyPcs
  <2> QED
    BY Zenon, <1>3, <2>15
<1> QED
  BY Zenon, <1>4, <1>5

(* Clients add a hook function once at a time.                             *)
LEMMA StartLists ==
  ASSUME UniqueHooks, ControlInv, PatchInv, ArraysInv, PendingPart, ListPart, NEW o \in Operators,
         StartOperation(o)
  PROVE  PendingPart' /\ ListPart'
<1>1. /\ opc \in [Operators -> OperatorPcs] /\ todo \in [Operators -> Operations]
      /\ oarg \in [Operators -> Args \cup {NULL}] /\ ohook \in [Operators -> Hooks \cup {NULL}]
      /\ Stands(o)
  BY Zenon DEF ControlInv, PatchInv, ArraysInv, TypeOK
<1>2. /\ UNCHANGED <<head, tail, target, memory, hook, hookCount, s, t>>
      /\ opc[o] = "idle" /\ todo[o] = "none"
      /\ opc'[o] \in {"create_lock", "spinner_lock", "destroy_lock", "outer_lock"}
      /\ \A p \in Operators : p # o => /\ opc'[p] = opc[p] /\ todo'[p] = todo[p]
                                       /\ oarg'[p] = oarg[p] /\ ohook'[p] = ohook[p]
  BY ZenonT(60), <1>1 DEF StartOperation, StartCreate, StartAdd, StartRemove, StartDestroy,
     StartHook, StartUnhook, Start, OGoto, function, fields, loops, Stands
<1>3. /\ todo'[o] \in {"add", "hook", "remove"} => ohook'[o] \in Hooks
      /\ todo'[o] \in {"add", "hook"} => MayAdd(ohook'[o])
  <2>1. Removable \subseteq Hooks
    BY Zenon, ConstantsAssumption
  <2> QED
    BY ZenonT(60), <1>1, <2>1 DEF StartOperation, StartCreate, StartAdd, StartRemove, StartDestroy,
       StartHook, StartUnhook, Start
<1>4. todo'[o] \in {"add", "hook"} =>
        /\ \A a \in Args : Installed(a) => Absent(ohook'[o], a)
        /\ \A p \in Operators : Appending(p) => ohook[p] # ohook'[o]
  <2> SUFFICES ASSUME todo'[o] \in {"add", "hook"}
               PROVE  /\ \A a \in Args : Installed(a) => Absent(ohook'[o], a)
                      /\ \A p \in Operators : Appending(p) => ohook[p] # ohook'[o]
    OBVIOUS
  <2>1. PICK h : h = ohook'[o] /\ MayAdd(h)
    BY Zenon, <1>3
  <2> QED
    BY Zenon, <2>1 DEF MayAdd, Absent, Lacks, Appending, Doing
<1>5. \A p, r \in Operators : Appending(p)' /\ Appending(r)' /\ p # r => ohook'[p] # ohook'[r]
  <2> TAKE p, r \in Operators
  <2> HAVE Appending(p)' /\ Appending(r)' /\ p # r
  <2>1. CASE p = o
    BY Zenon, <1>2, <1>4, <2>1 DEF Appending
  <2>2. CASE r = o
    BY Zenon, <1>2, <1>4, <2>2 DEF Appending
  <2>3. CASE p # o /\ r # o
    BY Zenon, <1>2, <2>3 DEF Appending, PendingPart
  <2> QED
    BY Zenon, <2>1, <2>2, <2>3
<1>6. \A p \in Operators : todo'[p] \in {"add", "hook", "remove"} => ohook'[p] \in Hooks
  BY Zenon, <1>2, <1>3 DEF PendingPart
<1>7. ASSUME NEW p \in Operators, Pending(p)' , NEW a \in Args, Installed(a)'
      PROVE  \A i \in 1..hookCount'[a] : hook'[a][i] # ohook'[p]
  <2>1. Installed(a)
    BY Zenon, <1>2, <1>7 DEF Installed
  <2>2. CASE p = o
    BY Zenon, <1>2, <1>4, <1>7, <2>1, <2>2 DEF Pending, Appending, Absent, Lacks
  <2>3. CASE p # o
    <3>1. Pending(p) /\ ohook'[p] = ohook[p]
      BY Zenon, <1>2, <1>7, <2>3 DEF Pending, Appending
    <3>2. Absent(ohook[p], a)
      BY Zenon, <2>1, <3>1 DEF PendingPart
    <3> QED
      BY Zenon, <1>2, <3>1, <3>2 DEF Absent, Lacks
  <2> QED
    BY Zenon, <2>2, <2>3
<1>8. ASSUME NEW p \in Operators, opc'[p] \in {"create_patch", "create_jump"}
      PROVE  hookCount'[oarg'[p]] = 0
  BY Zenon, <1>2, <1>8 DEF PendingPart
<1>9. PendingPart'
  BY Zenon, <1>5, <1>6, <1>7, <1>8 DEF PendingPart, Absent, Lacks
<1>10. Live' \subseteq Live
  BY Zenon, <1>2 DEF Live
<1>11. opc[o] \notin BusyPcs /\ opc'[o] \notin BusyPcs
  BY Zenon, <1>2 DEF BusyPcs
<1>12. ListPart'
  BY Zenon, <1>2, <1>10, <1>11, ListKept
<1> QED
  BY Zenon, <1>9, <1>12

(* A new argument has no hooks when the jump to it is complete.            *)
LEMMA JumpLists ==
  ASSUME ControlInv, PatchInv, ArraysInv, PendingPart, ListPart, NEW o \in Operators, CreateJump(o)
  PROVE  PendingPart' /\ ListPart'
<1>1. /\ opc \in [Operators -> OperatorPcs] /\ opc[o] = "create_jump"
      /\ opc' = [opc EXCEPT ![o] = "created"] /\ target' = oarg[o]
      /\ UNCHANGED <<memory, hook, hookCount, todo, oarg, ohook, s, t>>
  BY Zenon DEF CreateJump, OGoto, ControlInv, fields, inputs, loops
<1>2. \A p \in Operators : p # o => opc'[p] = opc[p]
  BY Zenon, <1>1
<1>3. \A p, r \in Operators : Appending(p)' /\ Appending(r)' /\ p # r => ohook'[p] # ohook'[r]
  BY Zenon, <1>1 DEF PendingPart, Appending
<1>4. \A p \in Operators : todo'[p] \in {"add", "hook", "remove"} => ohook'[p] \in Hooks
  BY Zenon, <1>1 DEF PendingPart
<1>5. ASSUME NEW p \in Operators, NEW a \in Args, Installed(a)'
      PROVE  \A i \in 1..hookCount'[a] : hook'[a][i] # ohook'[p]
  <2>1. hookCount'[a] = 0
    BY Zenon, <1>1, <1>5 DEF PendingPart, Installed
  <2>2. 1..0 = {}
    OBVIOUS
  <2> QED
    BY Zenon, <2>1, <2>2
<1>6. ASSUME NEW p \in Operators, opc'[p] \in {"create_patch", "create_jump"}
      PROVE  hookCount'[oarg'[p]] = 0
  <2>1. opc[p] \in {"create_patch", "create_jump"}
    BY Zenon, <1>1, <1>2, <1>6
  <2> QED
    BY Zenon, <1>1, <2>1 DEF PendingPart
<1>7. PendingPart'
  BY Zenon, <1>3, <1>4, <1>5, <1>6 DEF PendingPart, Absent, Lacks
<1>8. Live' \subseteq Live
  BY Zenon, <1>1 DEF Live
<1>9. opc[o] \notin BusyPcs /\ opc'[o] \notin BusyPcs
  BY Zenon, <1>1 DEF BusyPcs
<1>10. ListPart'
  BY Zenon, <1>1, <1>2, <1>8, <1>9, ListKept
<1> QED
  BY Zenon, <1>7, <1>10

(* The steps that allocate and free an argument find nobody else at work.  *)
LEMMA MemoryLists ==
  ASSUME ControlInv, PatchInv, ArraysInv, PendingPart, ListPart, NEW o \in Operators,
         CreateBuild(o) \/ Free(o)
  PROVE  PendingPart' /\ ListPart'
<1>1. /\ opc \in [Operators -> OperatorPcs] /\ opc[o] \in {"create_build", "free"}
      /\ UNCHANGED <<head, tail, target, todo, ohook, s, t>>
      /\ opc' = [opc EXCEPT ![o] = opc'[o]] /\ opc'[o] \in {"create_patch", "unlock"}
      /\ memory \in [Args -> {"unused", "live", "freed"}]
      /\ oarg \in [Operators -> Args \cup {NULL}]
  BY ZenonT(60) DEF CreateBuild, Free, OGoto, ControlInv, PatchInv, function, inputs, loops
<1>2. mutex = o
  BY Zenon, <1>1, InsideOwns
<1>3. head = "original"
  BY Zenon, <1>1, <1>2, ConstantsAssumption DEF PatchInv, Owned, Unhooked, Bytes
<1>4. \A p \in Operators : p # o =>
        opc'[p] = opc[p] /\ opc'[p] \notin BusyPcs \cup {"create_patch", "create_jump"}
  BY Zenon, <1>1, <1>2, InsideOwns DEF BusyPcs
<1>5. \A p \in Operators : opc[p] \notin BusyPcs /\ opc'[p] \notin BusyPcs
  BY Zenon, <1>1, <1>4 DEF BusyPcs
<1>6. CreateBuild(o) => \E a \in Args : /\ Live' = {a} /\ oarg'[o] = a /\ hookCount'[a] = 0
                                        /\ hook'[a] = Zeroes(NULL, InitialHookSize)
  <2> SUFFICES ASSUME CreateBuild(o)
               PROVE  \E a \in Args : /\ Live' = {a} /\ oarg'[o] = a /\ hookCount'[a] = 0
                                      /\ hook'[a] = Zeroes(NULL, InitialHookSize)
    OBVIOUS
  <2>1. Live = {}
    BY Zenon, <1>2, ConstantsAssumption DEF CreateBuild, OGoto, PatchInv, Owned, Unhooked
  <2>2. PICK a \in Args : /\ memory[a] = "unused" /\ memory' = [memory EXCEPT ![a] = "live"]
                          /\ hook' = [hook EXCEPT ![a] = Zeroes(NULL, InitialHookSize)]
                          /\ UNCHANGED hookCount /\ oarg' = [oarg EXCEPT ![o] = a]
    BY Zenon DEF CreateBuild
  <2>3. hook \in [Args -> Seq(Hooks \cup {NULL})] /\ hookCount[a] = 0
    BY Zenon, <2>2 DEF ArraysInv, TypeOK
  <2>4. Live' = {a}
    BY Zenon, <1>1, <2>1, <2>2 DEF Live
  <2> QED
    BY Zenon, <1>1, <2>2, <2>3, <2>4
<1>7. Free(o) => Live' = {} /\ opc'[o] = "unlock"
  <2> SUFFICES ASSUME Free(o) PROVE Live' = {} /\ opc'[o] = "unlock"
    OBVIOUS
  <2>1. oarg[o] \in Args /\ Live = {oarg[o]}
    BY Zenon, <1>2, ConstantsAssumption DEF Free, OGoto, PatchInv, Owned
  <2>2. /\ memory' = [memory EXCEPT ![oarg[o]] = "freed"]
        /\ opc' = [opc EXCEPT ![o] = "unlock"]
    BY Zenon DEF Free, OGoto
  <2> QED
    BY Zenon, <1>1, <2>1, <2>2 DEF Live
<1>8. \A a \in Live' : Closed(hook'[a], hookCount'[a])
  <2>1. Closed(Zeroes(NULL, InitialHookSize), 0)
    <3>1. InitialHookSize \in Nat /\ InitialHookSize > 0
      BY Zenon, ConstantsAssumption
    <3>2. PICK z : z = Zeroes(NULL, InitialHookSize)
      OBVIOUS
    <3>3. Len(z) = InitialHookSize /\ z[1] = NULL
      BY <3>1, <3>2 DEF Zeroes
    <3> QED
      BY <3>1, <3>2, <3>3 DEF Closed, Listed
  <2> QED
    BY Zenon, <1>6, <1>7, <2>1
<1>9. ListPart'
  <2>1. \A p \in Operators : opc'[p] # "shift" => s'[p] = 0 /\ t'[p] = 0
    BY Zenon, <1>1, <1>5 DEF ListPart, BusyPcs
  <2> QED
    BY Zenon, <1>5, <1>8, <2>1 DEF ListPart, BusyPcs
<1>10. \A p, r \in Operators : Appending(p)' /\ Appending(r)' /\ p # r => ohook'[p] # ohook'[r]
  BY Zenon, <1>1 DEF PendingPart, Appending
<1>11. \A p \in Operators : todo'[p] \in {"add", "hook", "remove"} => ohook'[p] \in Hooks
  BY Zenon, <1>1 DEF PendingPart
<1>12. \A a \in Args : ~Installed(a)'
  BY Zenon, <1>1, <1>3 DEF Installed
<1>13. \A p \in Operators : opc'[p] \in {"create_patch", "create_jump"} => hookCount'[oarg'[p]] = 0
  BY Zenon, <1>4, <1>6, <1>7
<1>14. PendingPart'
  BY Zenon, <1>10, <1>11, <1>12, <1>13 DEF PendingPart
<1> QED
  BY Zenon, <1>9, <1>14

(* ListInv is inductive relative to the other layers.                      *)
LEMMA ListInductive ==
  ControlInv /\ PatchInv /\ ArraysInv /\ ListInv /\ [Next]_vars => ListInv'
<1> SUFFICES ASSUME ControlInv, PatchInv, ArraysInv, PendingPart, ListPart, UniqueHooks, [Next]_vars
             PROVE  PendingPart' /\ ListPart'
  BY Zenon DEF ListInv
<1>1. ASSUME UNCHANGED <<head, tail, target, memory, opc, todo, oarg, ohook, hook, hookCount, s, t>>
      PROVE  PendingPart' /\ ListPart'
  <2>1. PendingPart'
    BY Zenon, <1>1 DEF PendingPart, Appending, Pending, Installed, Absent, Lacks
  <2>2. ListPart'
    BY Zenon, <1>1 DEF ListPart, Live
  <2> QED
    BY Zenon, <2>1, <2>2
<1>2. CASE UNCHANGED vars
  BY Zenon, <1>1, <1>2 DEF vars, function, fields, operators, inputs, loops
<1>3. ASSUME NEW c \in Callers, Call(c) \/ Caller(c) PROVE PendingPart' /\ ListPart'
  BY Zenon, <1>1, <1>3, CallerStep
<1>4. ASSUME NEW o \in Operators, StartOperation(o) PROVE PendingPart' /\ ListPart'
  BY Zenon, <1>4, StartLists
<1>5. ASSUME NEW o \in Operators, Operator(o) PROVE PendingPart' /\ ListPart'
  BY Zenon, <1>5, QuietLists, StoreLists, AddLists, RemoveLists, JumpLists, MemoryLists DEF Operator
<1> QED
  BY Zenon, <1>2, <1>3, <1>4, <1>5 DEF Next

LEMMA ListInit == Init => ListInv
<1> SUFFICES ASSUME Init PROVE PendingPart /\ ListPart
  BY Zenon DEF ListInv
<1>1. /\ Live = {} /\ \A a \in Args : ~Installed(a)
      /\ \A o \in Operators : opc[o] = "idle" /\ todo[o] = "none" /\ s[o] = 0 /\ t[o] = 0
  BY Zenon DEF Init, Live, Installed
<1> QED
  BY Zenon, <1>1 DEF PendingPart, ListPart, Appending, Pending

(* While clients add a hook function once at a time, whatever they add and *)
(* remove, and from whatever threads, the list of hooks between operations *)
(* is hookCount hooks and the NULL behind them: HookAdd appends, HookRemove *)
(* closes the gap, and the count follows.                                  *)
THEOREM TrailingCorrect == ASSUME UniqueHooks PROVE Spec => []TrailingNull
<1>1. ControlInv /\ ArraysInv /\ ListInv => TrailingNull
  <2> SUFFICES ASSUME ControlInv, ArraysInv, PendingPart, ListPart, mutex = NULL, NEW a \in Live
               PROVE  /\ hookCount[a] \in 0..Len(hook[a]) - 1
                      /\ \A i \in 1..hookCount[a] + 1 : hook[a][i] = NULL <=> i = hookCount[a] + 1
    BY Zenon DEF TrailingNull, ListInv
  <2>1. \A o \in Operators : opc[o] \notin BusyPcs
    BY Zenon, InsideOwns, ConstantsAssumption DEF BusyPcs
  <2>2. Closed(hook[a], hookCount[a])
    BY Zenon, <2>1 DEF ListPart
  <2>3. Len(hook[a]) \in Nat
    BY Zenon, ArrayOf DEF ArraysInv, TypeOK, Live
  <2>4. PICK q : q = hook[a]
    OBVIOUS
  <2>5. PICK n : n = hookCount[a]
    OBVIOUS
  <2>6. Closed(q, n) /\ Len(q) \in Nat
    BY Zenon, <2>2, <2>3, <2>4, <2>5
  <2>7. n \in 0..Len(q) - 1 /\ \A i \in 1..n + 1 : q[i] = NULL <=> i = n + 1
    BY <2>6 DEF Closed, Listed
  <2> QED
    BY Zenon, <2>4, <2>5, <2>7
<1> QED
  BY <1>1, ArraysInit, ListInit, ControlInductive, PatchInductive, ArraysInductive,
     ListInductive, PTL DEF Spec

(* What a call runs are cells of the arrays of its argument.               *)
LEMMA RunsKept == ArraysInv /\ KeptInv => RunsWhatWasAdded
<1> SUFFICES ASSUME ArraysInv, KeptInv, Removable = {}, NEW c \in Callers, carg[c] \in Live,
                    NEW phase \in {"pre", "post"}, NEW i \in Ran(chook[c], ctype[c], phase)
             PROVE  hook[carg[c]][i] = chook[c][i] /\ hookType[carg[c]][i] = ctype[c][i]
  BY Zenon DEF RunsWhatWasAdded
<1>1. Within(chook[c], hook[carg[c]], NULL) /\ Within(ctype[c], hookType[carg[c]], 0)
  BY Zenon DEF KeptInv, ClonesPart
<1>2. chook[c] \in Seq(Hooks \cup {NULL}) /\ ctype[c] \in Seq(HookTypes)
  BY Zenon DEF ArraysInv, TypeOK
<1>3. i \in 1..Len(chook[c]) /\ i \in 1..Len(ctype[c])
  <2>1. i \in DOMAIN chook[c] /\ i \in DOMAIN ctype[c]
    BY Zenon DEF Ran
  <2>2. DOMAIN chook[c] = 1..Len(chook[c])
    BY SMTT(20), <1>2
  <2>3. DOMAIN ctype[c] = 1..Len(ctype[c])
    BY SMTT(20), <1>2
  <2> QED
    BY Zenon, <2>1, <2>2, <2>3
<1>4. RunsIn(ctype[c][i], phase) /\ ~EndsLoop(chook[c][i], ctype[c][i], phase)
  <2>1. PICK n \in Nat : n = i
    BY SMTT(20), <1>3
  <2>2. n \in 1..n
    BY SMTT(20), <1>3, <2>1
  <2>3. i \in 1..i
    BY Zenon, <2>1, <2>2
  <2> QED
    BY Zenon, <2>3 DEF Ran
<1>5. chook[c][i] # NULL /\ ctype[c][i] # 0
  BY Zenon, <1>4 DEF EndsLoop, RunsIn
<1> QED
  BY Zenon, <1>1, <1>3, <1>5 DEF Within

(* A caller that fetches the jump meets no destroyer past the pause.       *)
LEMMA CallEntry ==
  ASSUME ControlInv, PatchInv, ArraysInv, CallersInv, NEW c \in Callers, Call(c)
  PROVE  CallersInv'
<1>1. UNCHANGED <<memory, opc, oarg, todo>> /\ Live' = Live
  BY Zenon, CallerStep DEF Caller, Live
<1>2. /\ pc \in [Callers -> CallerPcs] /\ carg \in [Callers -> Args \cup {NULL}]
      /\ \A d \in Callers : d # c => pc'[d] = pc[d] /\ carg'[d] = carg[d]
      /\ entryCount' = entryCount /\ pc[c] = "out"
      /\ \/ pc'[c] \in {"head", "torn"}
         \/ /\ pc'[c] = "movabs" /\ carg'[c] = target
            /\ head = "jump" /\ tail = "jump"
      /\ \/ carg'[c] = carg[c]
         \/ carg'[c] = target /\ head = "jump"
  BY Zenon DEF Call, CGoto, ArraysInv, TypeOK, fields
<1>3. \A a : Window(a)' = Window(a)
  BY Zenon, <1>2 DEF Window
<1>4. \A a : OnTheWayIn(a)' \subseteq OnTheWayIn(a) \/ (a = target /\ head = "jump" /\ tail = "jump")
  BY Zenon, <1>2 DEF OnTheWayIn
<1>5. EntryCountExact'
  BY Zenon, <1>1, <1>2, <1>3 DEF CallersInv, EntryCountExact
<1>6. \A d \in Callers : carg'[d] # NULL => memory'[carg'[d]] # "unused"
  BY Zenon, <1>1, <1>2, TargetLive DEF CallersInv, Live
<1>7. PauseSufficient => PrologueOnLiveArgument'
  BY Zenon, <1>1, <1>3, <1>4, JumpIsHooked DEF CallersInv, PrologueOnLiveArgument, Hooked
<1>8. PauseSufficient => \A o \in Operators : Drained(o)'
  BY Zenon, <1>1, <1>3, <1>4, DrainedUnpatched DEF CallersInv, Drained, Destroying
<1> QED
  BY Zenon, <1>5, <1>6, <1>7, <1>8 DEF CallersInv

(* A step that neither allocates nor frees reaches the drained places only *)
(* from drained places, through the pause, or through the poll.            *)
LEMMA OperatorDrains ==
  ASSUME ControlInv, PatchInv, ArraysInv, NEW o \in Operators,
         StartOperation(o) \/ Operator(o), ~CreateBuild(o), ~Free(o)
  PROVE  /\ UNCHANGED <<memory, entryCount>>
         /\ \A p \in Operators :
              p # o => opc'[p] = opc[p] /\ todo'[p] = todo[p] /\ oarg'[p] = oarg[p]
         /\ Destroying(o)' /\ opc'[o] \in DrainPcs =>
              /\ Destroying(o) /\ oarg'[o] = oarg[o]
              /\ \/ opc[o] \in DrainPcs
                 \/ PauseSufficient => OnTheWayIn(oarg[o]) = {}
         /\ opc'[o] \in {"destroy_release", "free"} =>
              /\ oarg'[o] = oarg[o]
              /\ \/ opc[o] \in {"destroy_release", "free"}
                 \/ opc[o] = "poll" /\ ~(entryCount[oarg[o]] > 0)
<1>1. /\ opc \in [Operators -> OperatorPcs] /\ oarg \in [Operators -> Args \cup {NULL}]
      /\ todo \in [Operators -> Operations] /\ Stands(o)
  BY Zenon DEF ControlInv, PatchInv
<1> USE <1>1 DEF OGoto, DrainPcs, Destroying, fields, inputs, loops
<1>2. CASE StartOperation(o)
  BY ZenonT(60), <1>2 DEF StartOperation, StartCreate, StartAdd, StartRemove, StartDestroy, StartHook,
              StartUnhook, Start
<1>3. CASE LockIn(o)
  BY Zenon, <1>3 DEF LockIn, Stands
<1>4. CASE Dispatch(o)
  BY Zenon, <1>4 DEF Dispatch
<1>5. CASE OuterUnlock(o) \/ Unlock(o) \/ CreateUnlock(o)
  BY Zenon, <1>5 DEF OuterUnlock, Unlock, CreateUnlock, Finish
<1>6. CASE CreateTest(o) \/ CreatePatch(o) \/ CreateJump(o)
  BY Zenon, <1>6 DEF CreateTest, CreatePatch, CreateJump
<1>7. CASE SpinLoad(o) \/ SpinStore(o)
  BY Zenon, <1>7 DEF SpinLoad, SpinStore, Section
<1>8. CASE SpinUnlock(o)
  BY Zenon, <1>8 DEF SpinUnlock
<1>9. CASE Grow(o) \/ PutHook(o) \/ PutType(o) \/ PutCount(o) \/ PutNull(o)
  BY Zenon, <1>9 DEF Grow, PutHook, PutType, PutCount, PutNull, PutFrame
<1>10. CASE Shift(o) \/ ShiftDone(o)
  BY Zenon, <1>10 DEF Shift, ShiftDone, Stands, RemovePcs
<1>11. CASE FunctionLock(o) \/ RestoreTail(o) \/ FunctionUnlock(o)
  BY Zenon, <1>11 DEF FunctionLock, RestoreTail, FunctionUnlock, DestroyFrame
<1>12. CASE Pause(o)
  BY Zenon, <1>12 DEF Pause, DestroyFrame
<1>13. CASE Poll(o)
  BY Zenon, <1>13 DEF Poll, DestroyFrame
<1> QED
  BY Zenon, <1>2, <1>3, <1>4, <1>5, <1>6, <1>7, <1>8, <1>9, <1>10, <1>11, <1>12, <1>13
     DEF Operator

-----------------------------------------------------------------------------
INSTANCE FiniteSetTheorems

LEMMA WindowFinite == ASSUME NEW a PROVE IsFiniteSet(Window(a))
  BY Zenon, ConstantsAssumption, FS_Subset DEF Window

LEMMA EnterEntry ==
  ASSUME ControlInv, PatchInv, ArraysInv, CallersInv, NEW c \in Callers, EnterPrologue(c)
  PROVE  CallersInv'
<1> DEFINE b == carg[c]
<1>1. UNCHANGED <<memory, opc, oarg, todo>> /\ Live' = Live
  BY Zenon, CallerStep DEF Caller, Live
<1>2. /\ carg' = carg /\ pc[c] = "enter" /\ pc' = [pc EXCEPT ![c] = "spin"]
      /\ entryCount' = [entryCount EXCEPT ![b] = @ + 1]
      /\ pc \in [Callers -> CallerPcs] /\ entryCount \in [Args -> Int]
      /\ b \in Args /\ b \in Live
  BY Zenon DEF EnterPrologue, CGoto, Alive, ArraysInv, TypeOK, Live, InPrologue
<1>3. Window(b)' = Window(b) \cup {c} /\ c \notin Window(b)
  BY Zenon, <1>2 DEF Window
<1>4. \A a : a # b => Window(a)' = Window(a)
  BY Zenon, <1>2 DEF Window
<1>5. (\A a : OnTheWayIn(a)' \subseteq OnTheWayIn(a)) /\ c \in OnTheWayIn(b)
  BY Zenon, <1>2 DEF OnTheWayIn
<1>6. EntryCountExact'
  <2>1. Cardinality(Window(b))' = Cardinality(Window(b)) + 1
    BY Zenon, <1>3, WindowFinite, FS_AddElement
  <2> QED
    BY Zenon, <1>1, <1>2, <1>4, <2>1 DEF CallersInv, EntryCountExact, Live
<1>7. \A d \in Callers : carg'[d] # NULL => memory'[carg'[d]] # "unused"
  BY Zenon, <1>1, <1>2 DEF CallersInv
<1>8. PauseSufficient => PrologueOnLiveArgument'
  BY Zenon, <1>1, <1>2, <1>4, <1>5 DEF CallersInv, PrologueOnLiveArgument
<1>9. ASSUME PauseSufficient, NEW o \in Operators PROVE Drained(o)'
  <2>1. Drained(o) /\ Stands(o)
    BY Zenon, <1>9 DEF CallersInv, ControlInv
  <2>2. opc[o] \in {"destroy_release", "free"} => oarg[o] # b
    BY Zenon, <1>5, <2>1 DEF Drained, Stands, DestroyPcs, Destroying, DrainPcs
  <2> QED
    BY Zenon, <1>1, <1>4, <1>5, <2>1, <2>2 DEF Drained, Destroying
<1> QED
  BY Zenon, <1>6, <1>7, <1>8, <1>9 DEF CallersInv

LEMMA LeaveEntry ==
  ASSUME ControlInv, PatchInv, ArraysInv, CallersInv, NEW c \in Callers, LeavePrologue(c)
  PROVE  CallersInv'
<1> DEFINE b == carg[c]
<1>1. UNCHANGED <<memory, opc, oarg, todo>> /\ Live' = Live
  BY Zenon, CallerStep DEF Caller, Live
<1>2. /\ carg' = carg /\ pc[c] = "leave" /\ pc' = [pc EXCEPT ![c] = "unlock"]
      /\ entryCount' = [entryCount EXCEPT ![b] = @ - 1]
      /\ pc \in [Callers -> CallerPcs] /\ entryCount \in [Args -> Int]
      /\ b \in Args /\ b \in Live
  BY Zenon DEF LeavePrologue, CGoto, Alive, ArraysInv, TypeOK, Live, InPrologue
<1>3. Window(b)' = Window(b) \ {c} /\ c \in Window(b)
  BY Zenon, <1>2 DEF Window
<1>4. \A a : a # b => Window(a)' = Window(a)
  BY Zenon, <1>2 DEF Window
<1>5. \A a : OnTheWayIn(a)' \subseteq OnTheWayIn(a)
  BY Zenon, <1>2 DEF OnTheWayIn
<1>6. EntryCountExact'
  <2>1. Cardinality(Window(b))' = Cardinality(Window(b)) - 1
    BY Zenon, <1>3, WindowFinite, FS_RemoveElement
  <2> QED
    BY Zenon, <1>1, <1>2, <1>4, <2>1 DEF CallersInv, EntryCountExact, Live
<1>7. \A d \in Callers : carg'[d] # NULL => memory'[carg'[d]] # "unused"
  BY Zenon, <1>1, <1>2 DEF CallersInv
<1>8. PauseSufficient => PrologueOnLiveArgument'
  BY Zenon, <1>1, <1>3, <1>4, <1>5 DEF CallersInv, PrologueOnLiveArgument
<1>9. PauseSufficient => \A o \in Operators : Drained(o)'
  BY Zenon, <1>1, <1>3, <1>4, <1>5 DEF CallersInv, Drained, Destroying
<1> QED
  BY Zenon, <1>6, <1>7, <1>8, <1>9 DEF CallersInv

-----------------------------------------------------------------------------
(* The operators' steps.                                                   *)

LEMMA OperatorEntry ==
  ASSUME ControlInv, PatchInv, ArraysInv, CallersInv, NEW o \in Operators,
         StartOperation(o) \/ Operator(o)
  PROVE  CallersInv'
<1>1. UNCHANGED <<pc, carg>>
  BY Zenon, OperatorArrays DEF callers
<1>2. \A a : Window(a)' = Window(a) /\ OnTheWayIn(a)' = OnTheWayIn(a)
  BY Zenon, <1>1 DEF Window, OnTheWayIn
<1>3. CASE CreateBuild(o)
  <2>1. PICK a \in Args : memory[a] = "unused" /\ memory' = [memory EXCEPT ![a] = "live"]
    BY Zenon, <1>3 DEF CreateBuild
  <2>2. /\ entryCount' = entryCount /\ opc'[o] = "create_patch" /\ todo' = todo
        /\ \A p \in Operators : p # o => opc'[p] = opc[p] /\ oarg'[p] = oarg[p]
    <3>1. /\ entryCount' = entryCount /\ todo' = todo
          /\ opc' = [opc EXCEPT ![o] = "create_patch"] /\ opc \in [Operators -> OperatorPcs]
      BY Zenon, <1>3 DEF CreateBuild, OGoto, ControlInv, inputs
    <3>2. PICK b : oarg' = [oarg EXCEPT ![o] = b]
      BY Zenon, <1>3 DEF CreateBuild
    <3>3. oarg \in [Operators -> Args \cup {NULL}]
      BY Zenon DEF ArraysInv, TypeOK
    <3> QED
      BY Zenon, <3>1, <3>2, <3>3
  <2>3. memory \in [Args -> {"unused", "live", "freed"}] /\ Live' = Live \cup {a}
    BY Zenon, <2>1 DEF Live, PatchInv
  <2>4. Window(a) = {} /\ entryCount[a] = 0
    BY Zenon, <2>1, ConstantsAssumption DEF Window, CallersInv, ArraysInv
  <2>5. EntryCountExact'
    BY Zenon, <1>2, <2>2, <2>3, <2>4, FS_EmptySet DEF CallersInv, EntryCountExact
  <2>6. \A d \in Callers : carg'[d] # NULL => memory'[carg'[d]] # "unused"
    BY <1>1, <2>1, <2>3 DEF CallersInv
  <2>7. PauseSufficient => PrologueOnLiveArgument'
    BY Zenon, <1>2, <2>3 DEF CallersInv, PrologueOnLiveArgument
  <2>8. PauseSufficient => \A p \in Operators : Drained(p)'
    BY Zenon, <1>2, <2>2 DEF CallersInv, Drained, Destroying, DrainPcs
  <2> QED
    BY Zenon, <2>5, <2>6, <2>7, <2>8 DEF CallersInv
<1>4. CASE Free(o)
  <2> DEFINE a == oarg[o]
  <2>1. /\ memory' = [memory EXCEPT ![a] = "freed"] /\ todo' = todo
        /\ opc[o] = "free" /\ opc'[o] = "unlock" /\ oarg' = oarg
        /\ \A p \in Operators : p # o => opc'[p] = opc[p]
    BY Zenon, <1>4 DEF Free, OGoto, ControlInv, inputs
  <2>2. a \in Args /\ Live = {a} /\ Destroying(o) /\ opc[o] \in DrainPcs
    BY Zenon, <2>1, DrainedUnpatched DEF ControlInv, Stands, DestroyPcs, DrainPcs, Destroying
  <2>3. memory \in [Args -> {"unused", "live", "freed"}] /\ Live' = {}
    BY Zenon, <2>1, <2>2 DEF Live, PatchInv
  <2>4. PauseSufficient => Window(a) = {} /\ OnTheWayIn(a) = {}
    BY Zenon, <2>1, <2>2 DEF CallersInv, Drained
  <2>5. EntryCountExact'
    BY Zenon, <2>3 DEF EntryCountExact
  <2>6. \A d \in Callers : carg'[d] # NULL => memory'[carg'[d]] # "unused"
    BY <1>1, <2>1, <2>3 DEF CallersInv
  <2>7. PauseSufficient => PrologueOnLiveArgument'
    BY Zenon, <1>2, <2>2, <2>4 DEF CallersInv, PrologueOnLiveArgument
  <2>8. PauseSufficient => \A p \in Operators : Drained(p)'
    BY Zenon, <1>2, <2>1 DEF CallersInv, Drained, Destroying, DrainPcs
  <2> QED
    BY Zenon, <2>5, <2>6, <2>7, <2>8 DEF CallersInv
<1>5. CASE ~CreateBuild(o) /\ ~Free(o)
  <2>1. UNCHANGED <<memory, entryCount>> /\ Live' = Live
    BY Zenon, <1>5, OperatorDrains DEF Live
  <2>2. EntryCountExact'
    BY Zenon, <1>2, <2>1 DEF CallersInv, EntryCountExact
  <2>3. \A d \in Callers : carg'[d] # NULL => memory'[carg'[d]] # "unused"
    BY Zenon, <1>1, <2>1 DEF CallersInv
  <2>4. PauseSufficient => PrologueOnLiveArgument'
    BY Zenon, <1>2, <2>1 DEF CallersInv, PrologueOnLiveArgument
  <2>5. \A p \in Operators : p # o => (Drained(p) => Drained(p)')
    BY Zenon, <1>2, <1>5, OperatorDrains DEF Drained, Destroying
  <2>6. PauseSufficient => Drained(o)'
    <3> SUFFICES ASSUME PauseSufficient PROVE Drained(o)'
      BY Zenon
    <3>1. Drained(o)
      BY Zenon DEF CallersInv
    <3>2. Destroying(o)' /\ opc'[o] \in DrainPcs => OnTheWayIn(oarg[o])' = {}
      <4>1. Destroying(o)' /\ opc'[o] \in DrainPcs =>
              oarg'[o] = oarg[o] /\ OnTheWayIn(oarg[o]) = {}
        BY Zenon, <1>5, <3>1, OperatorDrains DEF Drained
      <4> QED
        BY Zenon, <1>1, <4>1 DEF OnTheWayIn
    <3>3. opc[o] = "poll" /\ ~(entryCount[oarg[o]] > 0) => Window(oarg[o]) = {}
      <4> SUFFICES ASSUME opc[o] = "poll", ~(entryCount[oarg[o]] > 0)
                   PROVE  Window(oarg[o]) = {}
        BY Zenon
      <4>1. oarg[o] \in Live
        BY Zenon, DrainedUnpatched DEF ControlInv, Stands, DestroyPcs, DrainPcs, Destroying
      <4>2. entryCount[oarg[o]] = Cardinality(Window(oarg[o]))
        BY Zenon, <4>1 DEF CallersInv, EntryCountExact
      <4> QED
        <5>1. Cardinality(Window(oarg[o])) \in Nat
          BY Zenon, WindowFinite, FS_CardinalityType
        <5>2. ASSUME NEW n \in Nat, ~(n > 0) PROVE n = 0
          BY <5>2
        <5>3. Cardinality(Window(oarg[o])) = 0
          BY Zenon, <4>2, <5>1, <5>2
        <5> QED
          BY Zenon, <5>3, WindowFinite, FS_EmptySet
    <3>4. opc'[o] \in {"destroy_release", "free"} => Window(oarg[o])' = {}
      <4>1. opc'[o] \in {"destroy_release", "free"} =>
              oarg'[o] = oarg[o] /\ Window(oarg[o]) = {}
        BY Zenon, <1>5, <3>1, <3>3, OperatorDrains DEF Drained
      <4> QED
        BY Zenon, <1>1, <4>1 DEF Window
    <3> QED
      BY Zenon, <3>2, <3>4 DEF Drained
  <2> QED
    BY Zenon, <2>2, <2>3, <2>4, <2>5, <2>6 DEF CallersInv
<1> QED
  BY Zenon, <1>3, <1>4, <1>5

-----------------------------------------------------------------------------
LEMMA CallersInductive ==
  ControlInv /\ PatchInv /\ ArraysInv /\ CallersInv /\ [Next]_vars => CallersInv'
<1> SUFFICES ASSUME ControlInv, PatchInv, ArraysInv, CallersInv, [Next]_vars
             PROVE  CallersInv'
  BY Zenon
<1>1. CASE UNCHANGED vars
  <2>1. UNCHANGED <<memory, entryCount, pc, carg, opc, oarg, todo>>
    BY Zenon, <1>1 DEF vars, fields, callers, operators, inputs
  <2>2. /\ Live' = Live /\ \A a : Window(a)' = Window(a) /\ OnTheWayIn(a)' = OnTheWayIn(a)
        /\ \A o \in Operators : Drained(o)' = Drained(o)
    BY Zenon, <2>1 DEF Live, Window, OnTheWayIn, Drained, Destroying
  <2>3. EntryCountExact' /\ (PauseSufficient => PrologueOnLiveArgument')
    BY Zenon, <2>1, <2>2 DEF CallersInv, EntryCountExact, PrologueOnLiveArgument
  <2> QED
    BY Zenon, <2>1, <2>2, <2>3 DEF CallersInv
<1>2. ASSUME NEW c \in Callers, Call(c) \/ Caller(c) PROVE CallersInv'
  BY Zenon, <1>2, CallEntry, EnterEntry, LeaveEntry, PassingEntry DEF Caller, Passing
<1>3. ASSUME NEW o \in Operators, StartOperation(o) \/ Operator(o) PROVE CallersInv'
  BY Zenon, <1>3, OperatorEntry
<1> QED
  BY Zenon, <1>1, <1>2, <1>3 DEF Next

LEMMA CallersInit == Init => CallersInv
  BY DEF Init, CallersInv, EntryCountExact, PrologueOnLiveArgument, Drained, Destroying,
         Window, OnTheWayIn, Live, DrainPcs

(* For any number of callers and operators the entry counter of a live     *)
(* hook is exactly the number of callers inside its prologue.              *)
THEOREM EntryCountCorrect == Spec => []EntryCountExact
<1>1. CallersInv => EntryCountExact
  BY Zenon DEF CallersInv
<1> QED
  BY <1>1, ArraysInit, CallersInit, ControlInductive, PatchInductive, ArraysInductive,
     CallersInductive, PTL DEF Spec

(* If the pause outlasts the callers that fetched the jump, HookDestroy    *)
(* frees no argument under a caller on its way into, or inside, the        *)
(* prologue.                                                               *)
THEOREM PrologueSafe == Spec => []PrologueOnLiveArgument
<1>1. CallersInv => PrologueOnLiveArgument
  BY Zenon DEF CallersInv, PrologueOnLiveArgument
<1> QED
  BY <1>1, ArraysInit, CallersInit, ControlInductive, PatchInductive, ArraysInductive,
     CallersInductive, PTL DEF Spec

(* Though HookAdd writes the arrays without the lock under which they are  *)
(* cloned, and replaces them, a call runs hooks with the type they were    *)
(* added with, if none is removed.                                         *)
THEOREM RunsCorrect == Spec => []RunsWhatWasAdded
  BY RunsKept, ArraysInit, CallersInit, KeptInit, ControlInductive, PatchInductive, ArraysInductive,
     CallersInductive, KeptInductive, PTL DEF Spec
=============================================================================
