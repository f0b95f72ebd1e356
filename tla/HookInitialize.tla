--------------------------- MODULE HookInitialize ---------------------------
(***************************************************************************)
(* The programs that share the kernel: every thread looks up symbols, uses *)
(* the registry, and creates hooks.  The first hook of a program runs      *)
(* ps4KernelFunctionHookInitialize (ps4KernelSystemCallHookInitialize has  *)
(* the same steps on slots of its own): under Giant, each static pointer   *)
(* that is NULL is taken from the registry or made and put there.  The     *)
(* slots are the mutex and the handler; clone and destroy are handled as   *)
(* the handler is.  Of ps4KernelFunctionHookCreate itself only the use of  *)
(* these objects and of the symbol lookup is here, FunctionHook has the    *)
(* rest.                                                                   *)
(***************************************************************************)
EXTENDS SymbolLookUp, FiniteSets

CONSTANTS
  Work,      \* what each thread may call: "get", "set", "delete", "create"
             \* or a name to look up
  MaxCalls   \* calls a thread makes

ASSUME NamesAssumption == {"Giant", "malloc"} \subseteq KernelNames

VARIABLE calls

allVars == <<lookUpVars, calls>>

Init ==
  /\ static = [p \in Programs |-> [s \in Slots |-> NULL]]
  /\ published = NULL
  /\ contents = [c \in Caches |-> [n \in Names |-> Absent]]
  /\ owner = [m \in Locks |-> NULL] /\ depth = [m \in Locks |-> 0]
  /\ ready = {} /\ freed = {} /\ refused = {}
  /\ pc = [t \in Threads |-> "idle"] /\ stack = [t \in Threads |-> <<>>]
  /\ call = [t \in Threads |-> [kind |-> "get", name |-> "cache", value |-> NULL]]
  /\ r = [t \in Threads |-> "ok"] /\ answer = [t \in Threads |-> NULL]
  /\ wanted = [t \in Threads |-> "cache"] /\ missed = [t \in Threads |-> 0]
  /\ calls = [t \in Threads |-> 0]

-----------------------------------------------------------------------------
(* ps4KernelFunctionHookCreate tests the static mutex, without a lock.     *)
CallCreate(t) ==
  \/ Of(t, "hookMutex") = NULL /\ CallLookUp(t, "idle", "Giant", "initialize")
  \/ /\ Of(t, "hookMutex") # NULL /\ Goto(t, "idle", "lock_hooks")
     /\ UNCHANGED <<shared, stack, call, r, answer, wanted, missed>>

(* A call by a client: of the registry, of ps4KernelSymbolLookUp, or of    *)
(* ps4KernelFunctionHookCreate.                                            *)
Begin(t) ==
  /\ calls[t] < MaxCalls /\ calls' = [calls EXCEPT ![t] = @ + 1]
  /\ \/ /\ \E n \in ClientNames, kind \in Work[t] \cap {"get", "set", "delete"} :
             \E v \in IF kind = "set" THEN Values ELSE {NULL} :
               CallGlobal(t, "idle", kind, n, v, "idle")
        /\ UNCHANGED <<shared, r, answer, wanted, missed>>
     \/ \E n \in Work[t] \cap KernelNames : CallLookUp(t, "idle", n, "idle")
     \/ "create" \in Work[t] /\ CallCreate(t)

InitializeGiant(t) ==
  \/ r[t] = "ok" /\ LockGiant(t, "initialize", "has_giant")
  \/ /\ r[t] # "ok" /\ Goto(t, "initialize", "idle")
     /\ UNCHANGED <<shared, stack, call, r, answer>>

(* Under Giant: keep the object, get the shared one, or make one.          *)
InitializeGet(t, slot, from, got, next) ==
  /\ \/ /\ Of(t, slot) = NULL /\ CallGlobal(t, from, "get", slot, NULL, got)
     \/ Of(t, slot) # NULL /\ Goto(t, from, next) /\ UNCHANGED <<stack, call>>
  /\ UNCHANGED <<shared, r, answer>>

\* Mutant: the object is made whether or not one was registered.
InitializeMakeAlways(t, slot, got, init, next) ==
  /\ Goto(t, got, init) /\ Store(t, slot, <<slot, t>>)
  /\ UNCHANGED <<published, contents, owner, depth, ready, freed, refused, stack, call, r, answer>>

InitializeMake(t, slot, got, init, next) ==
  /\ \/ r[t] = "ok" /\ Goto(t, got, next) /\ UNCHANGED static
     \/ r[t] # "ok" /\ Goto(t, got, init) /\ Store(t, slot, <<slot, t>>)
  /\ UNCHANGED <<published, contents, owner, depth, ready, freed, refused, stack, call, r, answer>>

\* Mutant: the code of the handler is not copied.
InitializeReadyEmpty(t, slot, init, next) ==
  /\ CallGlobal(t, init, "set", slot, Of(t, slot), next)
  /\ ready' = IF slot = "hookMutex" THEN ready \cup {Of(t, slot)} ELSE ready
  /\ UNCHANGED <<static, published, contents, owner, depth, freed, refused, r, answer>>

(* mtx_init, or ps4KernelMemoryCopy of the handler's code; then the object *)
(* goes to the registry.                                                   *)
InitializeReady(t, slot, init, next) ==
  /\ CallGlobal(t, init, "set", slot, Of(t, slot), next)
  /\ ready' = ready \cup {Of(t, slot)}
  /\ UNCHANGED <<static, published, contents, owner, depth, freed, refused, r, answer>>

InitializeLeave(t) ==
  /\ Goto(t, "leave_initialize", "lock_hooks") /\ Unlock(t, Giant)
  /\ UNCHANGED <<static, published, contents, ready, freed, refused, stack, call, r, answer>>

InitializeHook(t) ==
  \/ InitializeGiant(t)
  \/ InitializeGet(t, "hookMutex", "has_giant", "got_hookMutex", "has_mutex")
  \/ InitializeMake(t, "hookMutex", "got_hookMutex", "init_hookMutex", "has_mutex")
  \/ InitializeReady(t, "hookMutex", "init_hookMutex", "has_mutex")
  \/ InitializeGet(t, "hookHandler", "has_mutex", "got_hookHandler", "leave_initialize")
  \/ InitializeMake(t, "hookHandler", "got_hookHandler", "init_hookHandler", "leave_initialize")
  \/ InitializeReady(t, "hookHandler", "init_hookHandler", "leave_initialize")
  \/ InitializeLeave(t)

(* The hook's argument gets the handler of the static pointer, then the    *)
(* address of malloc is looked up while the hook mutex is held.            *)
CreateUse(t) == CallLookUp(t, "use", "malloc", "unlock_hooks")

CreateUnlock(t) ==
  \/ /\ Held(t, Of(t, "hookMutex")) /\ Unlock(t, Of(t, "hookMutex"))
     /\ Goto(t, "unlock_hooks", "idle")
     /\ UNCHANGED <<static, published, contents, ready, freed, refused, stack, call, r, answer>>
  \/ ~Held(t, Of(t, "hookMutex")) /\ Fault(t, "unlock_hooks")

Stopped == \E t \in Threads : pc[t] = "fault"

Step(t) ==
  /\ ~Stopped
  /\ \/ /\ \/ /\ \/ Initialize(t) \/ Global(t) \/ InitializeHook(t)
                 \/ LockSlot(t, "hookMutex", "lock_hooks", "use") \/ CreateUnlock(t)
              /\ UNCHANGED <<wanted, missed>>
           \/ LookUp(t) \/ CreateUse(t)
        /\ UNCHANGED calls
     \/ Begin(t)

Next == \E t \in Threads : Step(t)

Spec == Init /\ [][Next]_allVars

-----------------------------------------------------------------------------
FirstUse(t) == owner[Giant] \in Threads \ {t} /\ ProgramOf[owner[Giant]] = ProgramOf[t]

(* Unless a cache could not be published, every program that is not in the *)
(* middle of a first use refers to the published registry and, for each    *)
(* object, to the one that is registered there: hooks of all programs are  *)
(* under one mutex.                                                        *)
OneRegistry ==
  refused = {} /\ owner[Giant] = NULL =>
    \A p \in Programs :
      /\ static[p]["cache"] \in {NULL, published}
      /\ \A s \in Slots \ {"cache"} :
           static[p][s] # NULL => static[p][s] = contents[published][s]

(* A mutex is met NULL or raw only by a thread whose program is, in        *)
(* another thread, in a first use: a program that does its first call of   *)
(* each kind alone never faults.                                           *)
FaultMeetsFirstUse ==
  refused = {} => \A t \in Threads : pc[t] = "fault" => FirstUse(t)

(* Likewise a hook is created with a handler that is not there, or not yet *)
(* copied, only next to a first use: the mutex alone is tested.            *)
HandlerReady ==
  \A t \in Threads :
    pc[t] = "use" => Of(t, "hookHandler") \in ready \/ FirstUse(t)

(* The symbol mutex is held by a lookup in progress, and by every lookup   *)
(* that found nothing, for ever.                                           *)
Inside(t) == {i \in 0 .. Len(stack[t]) :
  (IF i = 0 THEN pc[t] ELSE stack[t][i]) \in {"find", "miss", "unlock_symbols"}}
SymbolMutexAccounted ==
  refused = {} /\ ~Stopped =>
    \A m \in {"symbolsMutex"} \X Threads :
      depth[m] = IF owner[m] = NULL THEN 0
                 ELSE missed[owner[m]] + Cardinality(Inside(owner[m]))

(* What a lookup gets is what the table has under that name; NULL, if it   *)
(* is nowhere or only in the last entry.                                   *)
LookUpAnswers ==
  \A t \in Threads :
    pc[t] = "unlock_symbols" =>
      IF answer[t] # NULL
        THEN \E i \in DOMAIN SymbolTable :
               SymbolTable[i] = [name |-> wanted[t], value |-> answer[t]]
        ELSE \A i \in 1 .. Len(SymbolTable) - 1 : SymbolTable[i].name # wanted[t]

(* Threads never wait for each other in a circle, as long as every lookup  *)
(* found something: Giant, the registry's mutex, the symbol mutex and the  *)
(* hook mutex are taken in orders that agree.                              *)
NextLock(t) ==
  CASE pc[t] \in {"lock_giant", "first", "initialize"} -> Giant
    [] pc[t] = "lock" -> Of(t, "mutex")
    [] pc[t] = "lock_symbols" -> Of(t, "symbolsMutex")
    [] pc[t] = "lock_hooks" -> Of(t, "hookMutex")
    [] OTHER -> NULL
WaitsFor(t) ==
  IF NextLock(t) \in Locks /\ owner[NextLock(t)] # t THEN owner[NextLock(t)] ELSE NULL
NoCircularWait ==
  (\A t \in Threads : missed[t] = 0) =>
    \A S \in (SUBSET Threads) \ {{}} : \E t \in S : WaitsFor(t) \notin S
=============================================================================
