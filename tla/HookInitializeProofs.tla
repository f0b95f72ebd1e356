------------------------ MODULE HookInitializeProofs ------------------------
(***************************************************************************)
(* Proofs about HookInitialize, for any number of threads and programs,    *)
(* any names, any symbol table and any number of calls.                    *)
(***************************************************************************)
EXTENDS HookInitialize, TLAPS

-----------------------------------------------------------------------------
(* Where a thread may be: not in a call, in ps4KernelSymbolLookUp, or in   *)
(* the registry, there called by a client, by the initialisation of the    *)
(* hooks, or by the first lookup of a symbol.                              *)
CreatePcs == {"initialize", "lock_hooks", "use", "unlock_hooks"}
MakePcs ==
  {"has_giant", "got_hookMutex", "init_hookMutex", "has_mutex", "got_hookHandler",
   "init_hookHandler", "leave_initialize"}
HomePcs == {"idle"} \cup CreatePcs \cup MakePcs

FirstPcs ==
  {"get_symbols", "got_symbols", "allocate_symbolsMutex", "init_symbolsMutex", "leave_first"}
InsidePcs == {"find", "miss", "unlock_symbols"}
LookUpPcs == {"first", "lock_symbols"} \cup FirstPcs \cup InsidePcs

RegistryPcs ==
  {"sysctl", "clear_mutex", "load_mutex", "allocate_mutex", "init_mutex", "publish",
   "unlock_giant"}
EntryPcs == {"get", "load", "set", "delete", "unlock"}
GlobalPcs == {"lock_giant", "lock"} \cup RegistryPcs \cup EntryPcs

Labels == {"fault"} \cup HomePcs \cup LookUpPcs \cup GlobalPcs

LookUpBacks == {"idle", "initialize", "unlock_hooks"}
MakeBacks == {"got_hookMutex", "has_mutex", "got_hookHandler", "leave_initialize"}
FirstBacks == {"got_symbols", "allocate_symbolsMutex", "leave_first"}

(* Where a call of the registry returns to, and from which stack.          *)
Under(b, s) ==
  \/ b \in {"idle"} \cup MakeBacks /\ s = <<>>
  \/ b \in FirstBacks /\ \E d \in LookUpBacks : s = <<d>>

(* Each place that calls the registry does so for one purpose.             *)
Purpose(b, kind, name) ==
  \/ b = "idle" /\ kind \in {"get", "set", "delete"} /\ name \in ClientNames
  \/ b = "got_symbols" /\ kind = "get" /\ name = "symbols"
  \/ b = "allocate_symbolsMutex" /\ kind = "set" /\ name = "symbols"
  \/ b = "leave_first" /\ kind \in {"get", "set"} /\ name = "symbolsMutex"
  \/ b = "got_hookMutex" /\ kind = "get" /\ name = "hookMutex"
  \/ b = "has_mutex" /\ kind = "set" /\ name = "hookMutex"
  \/ b = "got_hookHandler" /\ kind = "get" /\ name = "hookHandler"
  \/ b = "leave_initialize" /\ kind = "set" /\ name = "hookHandler"

(* The place agrees with the kind of call.                                 *)
Kind(p, kind) ==
  /\ p \in {"get", "load"} => kind = "get"
  /\ p \in {"set", "delete"} => kind = p

InGlobal(p, s, c) ==
  /\ p \in GlobalPcs /\ Kind(p, c.kind)
  /\ \E b \in Labels, z \in Seq(Labels) :
       s = <<b>> \o z /\ Under(b, z) /\ Purpose(b, c.kind, c.name)

Frame(p, s, c) ==
  \/ p = "fault"
  \/ p \in HomePcs /\ s = <<>>
  \/ p \in LookUpPcs /\ \E b \in LookUpBacks : s = <<b>>
  \/ InGlobal(p, s, c)

Anything == {NULL, Absent} \cup Objects \cup Values \cup {DlSym(n) : n \in Names}
CallRecords == [kind : {"get", "set", "delete"}, name : Names, value : Anything]

FrameInv ==
  /\ pc \in [Threads -> Labels]
  /\ stack \in [Threads -> Seq(Labels)]
  /\ call \in [Threads -> CallRecords]
  /\ \A t \in Threads : Frame(pc[t], stack[t], call[t])

(* What is where: a slot and the entry of that name hold an object that    *)
(* was allocated for the slot; of the registered objects, all but the      *)
(* cache of symbols are ready.  A program's pointer to the registry stays, *)
(* once it is set.  A cache of symbols holds what ps4KernelDlSym answers.  *)
Named(s) == {s} \X Threads
Places(s) == {NULL} \cup Named(s) \cup IF s = "mutex" THEN {Absent} ELSE {}
Registered(n, v, made) ==
  n \in Slots =>
    /\ v \in {NULL, Absent} \cup Named(n)
    /\ n \notin {"cache", "symbols"} => v \in {Absent} \cup made

CachePcs == GlobalPcs \ {"lock_giant", "sysctl"}

TypeInv ==
  /\ static \in [Programs -> [Slots -> Anything]]
  /\ contents \in [Caches -> [Names -> Anything]]
  /\ owner \in [Locks -> Threads \cup {NULL}] /\ depth \in [Locks -> Int]
  /\ ready \subseteq {NULL, Absent} \cup Objects
  /\ wanted \in [Threads -> Names] /\ answer \in [Threads -> Anything]
  /\ missed \in [Threads -> Nat]
  /\ r \in [Threads -> {"ok", "not_ok", "error", "not_found"}]

DataInv ==
  /\ \A p \in Programs, s \in Slots : static[p][s] \in Places(s)
  /\ published \in {NULL} \cup Named("cache")
  /\ \A c \in Named("cache"), n \in Names : Registered(n, contents[c][n], ready)
  /\ \A c \in Named("symbols"), n \in Names : contents[c][n] \in {Absent, DlSym(n)}
  /\ \A t \in Threads :
       /\ pc[t] \in CachePcs => Of(t, "cache") # NULL
       /\ call[t].kind = "set" => Registered(call[t].name, call[t].value, ready)
       /\ pc[t] = "unlock_symbols" => answer[t] = DlSym(wanted[t])

-----------------------------------------------------------------------------
(* Sequences of one or two labels.                                         *)
LEMMA Single ==
  ASSUME NEW b \in Labels
  PROVE  /\ <<b>> \in Seq(Labels) /\ <<b>> \o <<>> = <<b>>
         /\ Head(<<b>>) = b /\ Tail(<<b>>) = <<>>
  OBVIOUS

LEMMA Pushed ==
  ASSUME NEW b \in Labels, NEW z \in Seq(Labels)
  PROVE  /\ <<b>> \o z \in Seq(Labels)
         /\ Head(<<b>> \o z) = b /\ Tail(<<b>> \o z) = z
<1>1. <<b>> \o z \in Seq(Labels) /\ Head(<<b>> \o z) = b
  OBVIOUS
<1>2. Len(Tail(<<b>> \o z)) = Len(z)
  OBVIOUS
<1>3. \A i \in 1..Len(z) : Tail(<<b>> \o z)[i] = z[i]
  OBVIOUS
<1>4. Tail(<<b>> \o z) \in Seq(Labels)
  OBVIOUS
<1> QED
  BY <1>1, <1>2, <1>3, <1>4

(* A return from the registry or from a lookup.                            *)
LEMMA Returned ==
  ASSUME NEW p, NEW s, NEW c, NEW e, Frame(p, s, c), p \in GlobalPcs \cup InsidePcs
  PROVE  Frame(Head(s), Tail(s), e) /\ Head(s) \in Labels /\ Tail(s) \in Seq(Labels)
<1>1. CASE p \in GlobalPcs
  <2>1. PICK b \in Labels, z \in Seq(Labels) : s = <<b>> \o z /\ Under(b, z)
    BY Zenon, <1>1 DEF Frame, InGlobal, HomePcs, CreatePcs, MakePcs, LookUpPcs, FirstPcs,
       InsidePcs, GlobalPcs, RegistryPcs, EntryPcs
  <2>2. Head(s) = b /\ Tail(s) = z
    BY Zenon, <2>1, Pushed
  <2>3. Frame(b, z, e)
    BY Zenon, <2>1 DEF Under, Frame, HomePcs, MakePcs, MakeBacks, LookUpPcs, FirstPcs, FirstBacks
  <2> QED
    BY Zenon, <2>2, <2>3
<1>2. CASE p \in InsidePcs
  <2>1. PICK b \in LookUpBacks : s = <<b>>
    BY Zenon, <1>2 DEF Frame, InGlobal, HomePcs, CreatePcs, MakePcs, InsidePcs, GlobalPcs,
       RegistryPcs, EntryPcs
  <2>2. b \in HomePcs /\ b \in Labels
    BY Zenon DEF LookUpBacks, HomePcs, CreatePcs, Labels
  <2>3. Head(s) = b /\ Tail(s) = <<>>
    BY Zenon, <2>1, <2>2, Single
  <2>4. <<>> \in Seq(Labels)
    OBVIOUS
  <2> QED
    BY Zenon, <2>2, <2>3, <2>4 DEF Frame
<1> QED
  BY Zenon, <1>1, <1>2

-----------------------------------------------------------------------------
(* What a step does to the thread's place, its stack and its call.         *)
Hop(p, q) ==
  \/ q = "fault"
  \/ p \in HomePcs /\ q \in HomePcs
  \/ p \in LookUpPcs /\ q \in LookUpPcs
  \/ p \in GlobalPcs /\ q \in {"lock", "unlock"} \cup RegistryPcs
  \/ p = "get" /\ q = "load"

Going(t) ==
  /\ \E p, q \in Labels : Hop(p, q) /\ Goto(t, p, q)
  /\ UNCHANGED <<stack, call>>
Serving(t) == Goto(t, "lock", call[t].kind) /\ UNCHANGED <<stack, call>>
Asking(t) ==
  \E p, b \in Labels, kind \in {"get", "set", "delete"}, name \in Names, v \in Anything :
    /\ Purpose(b, kind, name)
    /\ \/ p \in HomePcs /\ b \in {"idle"} \cup MakeBacks
       \/ p \in FirstPcs /\ b \in FirstBacks
    /\ CallGlobal(t, p, kind, name, v, b)
Seeking(t) ==
  /\ \E p \in HomePcs, b \in LookUpBacks :
       Enter(t, p, IF Of(t, "symbols") = NULL THEN "first" ELSE "lock_symbols", b)
  /\ UNCHANGED call
Leaving(t) ==
  /\ \E p \in GlobalPcs \cup InsidePcs : \E code : Return(t, p, code)
  /\ UNCHANGED call

Controls(t) == Going(t) \/ Serving(t) \/ Asking(t) \/ Seeking(t) \/ Leaving(t)

LEMMA InitializeControls ==
  ASSUME NEW t \in Threads, Initialize(t) PROVE Controls(t)
<1> USE DEF Controls
<1>1. CASE LockGiant(t, "lock_giant", "sysctl")
  BY Zenon, <1>1 DEF LockGiant, Going, Hop, Labels, GlobalPcs, RegistryPcs
<1>2. CASE InitializeCache(t)
  BY Zenon, <1>2 DEF InitializeCache, Going, Hop, Labels, GlobalPcs, RegistryPcs
<1>3. CASE InitializeClear(t) \/ InitializeLoad(t) \/ InitializeAllocate(t) \/ InitializeMutex(t)
  BY Zenon, <1>3 DEF InitializeClear, InitializeLoad, InitializeAllocate, InitializeMutex, Going,
     Hop, Labels, GlobalPcs, RegistryPcs
<1>4. CASE InitializePublish(t)
  BY Zenon, <1>4 DEF InitializePublish, Going, Hop, Labels, GlobalPcs, RegistryPcs
<1>5. CASE InitializeUnlock(t)
  BY Zenon, <1>5 DEF InitializeUnlock, Going, Leaving, Hop, Labels, GlobalPcs, RegistryPcs
<1> QED
  BY Zenon, <1>1, <1>2, <1>3, <1>4, <1>5 DEF Initialize

LEMMA GlobalControls ==
  ASSUME NEW t \in Threads, Global(t) PROVE Controls(t)
<1> USE DEF Controls
<1>1. CASE GlobalLock(t)
  BY Zenon, <1>1 DEF GlobalLock, LockSlot, Fault, Serving, Going, Hop, Labels, GlobalPcs
<1>2. CASE GlobalClear(t) \/ GlobalLoad(t) \/ GlobalSet(t) \/ GlobalDelete(t)
  BY Zenon, <1>2 DEF GlobalClear, GlobalLoad, GlobalSet, GlobalDelete, Going, Hop, Labels,
     GlobalPcs, EntryPcs
<1>3. CASE GlobalUnlock(t)
  BY Zenon, <1>3 DEF GlobalUnlock, UnlockSlot, Fault, Going, Leaving, Hop, Labels, GlobalPcs,
     EntryPcs
<1> QED
  BY Zenon, <1>1, <1>2, <1>3 DEF Global

LEMMA HookControls ==
  ASSUME TypeInv, NEW t \in Threads,
         \/ InitializeHook(t)
         \/ LockSlot(t, "hookMutex", "lock_hooks", "use")
         \/ CreateUnlock(t)
  PROVE  Controls(t)
<1> USE DEF Controls
<1>0. /\ NULL \in Anything /\ {"hookMutex", "hookHandler"} \subseteq Names
      /\ Of(t, "hookMutex") \in Anything /\ Of(t, "hookHandler") \in Anything
  BY ProgramAssumption DEF TypeInv, Of, Anything, Names, Slots, Mutexes
<1>1. CASE InitializeGiant(t)
  BY Zenon, <1>1 DEF InitializeGiant, LockGiant, Going, Hop, Labels, HomePcs, CreatePcs, MakePcs
<1>2. CASE \/ InitializeGet(t, "hookMutex", "has_giant", "got_hookMutex", "has_mutex")
           \/ InitializeGet(t, "hookHandler", "has_mutex", "got_hookHandler", "leave_initialize")
  BY Zenon, <1>0, <1>2 DEF InitializeGet, Going, Asking, Purpose, Hop, Labels, HomePcs, MakePcs,
     MakeBacks
<1>3. CASE \/ InitializeMake(t, "hookMutex", "got_hookMutex", "init_hookMutex", "has_mutex")
           \/ InitializeMake(t, "hookHandler", "got_hookHandler", "init_hookHandler", "leave_initialize")
  BY Zenon, <1>3 DEF InitializeMake, Going, Hop, Labels, HomePcs, MakePcs
<1>4. CASE \/ InitializeReady(t, "hookMutex", "init_hookMutex", "has_mutex")
           \/ InitializeReady(t, "hookHandler", "init_hookHandler", "leave_initialize")
  BY Zenon, <1>0, <1>4 DEF InitializeReady, Asking, Purpose, Labels, HomePcs, MakePcs, MakeBacks
<1>5. CASE InitializeLeave(t)
  BY Zenon, <1>5 DEF InitializeLeave, Going, Hop, Labels, HomePcs, CreatePcs, MakePcs
<1>6. CASE LockSlot(t, "hookMutex", "lock_hooks", "use") \/ CreateUnlock(t)
  BY Zenon, <1>6 DEF LockSlot, CreateUnlock, Fault, Going, Hop, Labels, HomePcs, CreatePcs
<1> QED
  BY Zenon, <1>1, <1>2, <1>3, <1>4, <1>5, <1>6 DEF InitializeHook

LEMMA LookUpControls ==
  ASSUME TypeInv, NEW t \in Threads, LookUp(t) \/ CreateUse(t) PROVE Controls(t)
<1> USE DEF Controls
<1>0. /\ NULL \in Anything /\ {"symbols", "symbolsMutex"} \subseteq Names
      /\ <<"symbols", t>> \in Anything /\ Of(t, "symbolsMutex") \in Anything
  BY ProgramAssumption DEF TypeInv, Of, Anything, Names, Slots, Mutexes, Objects
<1>1. CASE LockGiant(t, "first", "get_symbols")
  BY Zenon, <1>1 DEF LockGiant, Going, Hop, Labels, LookUpPcs, FirstPcs
<1>2. CASE LookUpGetCache(t) \/ LookUpGetMutex(t) \/ LookUpCreate(t) \/ LookUpInit(t)
  BY Zenon, <1>0, <1>2 DEF LookUpGetCache, LookUpGetMutex, LookUpCreate, LookUpInit, Asking,
     Purpose, Labels, LookUpPcs, FirstPcs, FirstBacks
<1>3. CASE LookUpAllocate(t) \/ LookUpLeaveFirst(t)
  BY Zenon, <1>3 DEF LookUpAllocate, LookUpLeaveFirst, Going, Hop, Labels, LookUpPcs, FirstPcs
<1>4. CASE LockSlot(t, "symbolsMutex", "lock_symbols", "find") \/ LookUpFind(t)
  BY Zenon, <1>4 DEF LockSlot, Fault, LookUpFind, Going, Hop, Labels, LookUpPcs, InsidePcs
<1>5. CASE UnlockSlot(t, "symbolsMutex", "unlock_symbols", "ok") \/ LookUpMiss(t)
  BY Zenon, <1>5 DEF UnlockSlot, Fault, LookUpMiss, Going, Leaving, Hop, Labels, LookUpPcs,
     InsidePcs
<1>6. CASE CreateUse(t)
  BY Zenon, <1>6 DEF CreateUse, CallLookUp, Seeking, HomePcs, CreatePcs, LookUpBacks
<1> QED
  BY Zenon, <1>1, <1>2, <1>3, <1>4, <1>5, <1>6 DEF LookUp, LookUpFirst

LEMMA BeginControls ==
  ASSUME NEW t \in Threads, Begin(t) PROVE Controls(t)
<1> USE DEF Controls
<1>1. CASE /\ \E n \in ClientNames, kind \in Work[t] \cap {"get", "set", "delete"} :
                \E v \in IF kind = "set" THEN Values ELSE {NULL} :
                  CallGlobal(t, "idle", kind, n, v, "idle")
  <2>1. PICK n \in ClientNames, kind \in {"get", "set", "delete"} :
          \E v \in IF kind = "set" THEN Values ELSE {NULL} :
            CallGlobal(t, "idle", kind, n, v, "idle")
    BY Zenon, <1>1
  <2>2. PICK v \in Anything : CallGlobal(t, "idle", kind, n, v, "idle")
    BY Zenon, <2>1 DEF Anything
  <2>3. n \in Names
    BY Zenon DEF Names
  <2> QED
    BY Zenon, <2>2, <2>3 DEF Asking, Purpose, Labels, HomePcs
<1>2. CASE \E n \in Work[t] \cap KernelNames : CallLookUp(t, "idle", n, "idle")
  BY Zenon, <1>2 DEF CallLookUp, Seeking, HomePcs, LookUpBacks
<1>3. CASE CallCreate(t)
  BY Zenon, <1>3 DEF CallCreate, CallLookUp, Seeking, Going, Hop, Labels, HomePcs, CreatePcs,
     LookUpBacks
<1> QED
  BY Zenon, <1>1, <1>2, <1>3 DEF Begin

LEMMA StepControls ==
  ASSUME TypeInv, NEW t \in Threads, Step(t) PROVE Controls(t)
  BY Zenon, InitializeControls, GlobalControls, HookControls, LookUpControls, BeginControls
     DEF Step

-----------------------------------------------------------------------------
LEMMA GoingFrames ==
  ASSUME FrameInv, NEW t \in Threads, Going(t) PROVE FrameInv'
<1>1. PICK p \in Labels, q \in Labels : Hop(p, q) /\ Goto(t, p, q)
  BY Zenon DEF Going
<1>2. pc[t] = p /\ pc' = [pc EXCEPT ![t] = q] /\ stack' = stack /\ call' = call
  BY Zenon, <1>1 DEF Goto, Going
<1>3. Frame(q, stack[t], call[t])
  <2>1. CASE p \in HomePcs /\ q \in HomePcs
    BY Zenon, <1>2, <2>1 DEF FrameInv, Frame, InGlobal, HomePcs, CreatePcs, MakePcs, LookUpPcs,
       FirstPcs, InsidePcs, GlobalPcs, RegistryPcs, EntryPcs
  <2>2. CASE p \in LookUpPcs /\ q \in LookUpPcs
    BY Zenon, <1>2, <2>2 DEF FrameInv, Frame, InGlobal, HomePcs, CreatePcs, MakePcs, LookUpPcs,
       FirstPcs, InsidePcs, GlobalPcs, RegistryPcs, EntryPcs
  <2>3. CASE p \in GlobalPcs
    <3>1. InGlobal(p, stack[t], call[t])
      BY Zenon, <1>2, <2>3 DEF FrameInv, Frame, InGlobal, HomePcs, CreatePcs, MakePcs, LookUpPcs,
         FirstPcs, InsidePcs, GlobalPcs, RegistryPcs, EntryPcs
    <3>2. CASE q = "fault"
      BY Zenon, <3>2 DEF Frame
    <3>3. CASE q \in {"lock", "unlock"} \cup RegistryPcs
      BY Zenon, <3>1, <3>3 DEF Frame, InGlobal, Kind, GlobalPcs, RegistryPcs, EntryPcs
    <3>4. CASE p = "get" /\ q = "load"
      BY Zenon, <3>1, <3>4 DEF Frame, InGlobal, Kind, GlobalPcs, EntryPcs
    <3> QED
      BY Zenon, <1>1, <2>3, <3>2, <3>3, <3>4 DEF Hop, HomePcs, CreatePcs, MakePcs, LookUpPcs,
         FirstPcs, InsidePcs, GlobalPcs, RegistryPcs, EntryPcs
  <2> QED
    BY Zenon, <1>1, <2>1, <2>2, <2>3 DEF Hop, Frame, GlobalPcs, EntryPcs
<1>4. pc' \in [Threads -> Labels] /\ pc'[t] = q /\ \A u \in Threads \ {t} : pc'[u] = pc[u]
  BY <1>2 DEF FrameInv
<1> QED
  BY Zenon, <1>2, <1>3, <1>4 DEF FrameInv

LEMMA ServingFrames ==
  ASSUME FrameInv, NEW t \in Threads, Serving(t) PROVE FrameInv'
<1>1. /\ pc[t] = "lock" /\ pc' = [pc EXCEPT ![t] = call[t].kind]
      /\ stack' = stack /\ call' = call
  BY Zenon DEF Serving, Goto
<1>2. InGlobal("lock", stack[t], call[t])
  BY Zenon, <1>1 DEF FrameInv, Frame, HomePcs, CreatePcs, MakePcs, LookUpPcs, FirstPcs, InsidePcs
<1>3. call[t].kind \in {"get", "set", "delete"}
  BY DEF FrameInv, CallRecords
<1>4. Frame(call[t].kind, stack[t], call[t]) /\ call[t].kind \in Labels
  BY Zenon, <1>2, <1>3 DEF Frame, InGlobal, Kind, GlobalPcs, EntryPcs, Labels
<1>5. /\ pc' \in [Threads -> Labels] /\ pc'[t] = call[t].kind
      /\ \A u \in Threads \ {t} : pc'[u] = pc[u]
  BY <1>1, <1>4 DEF FrameInv
<1> QED
  BY Zenon, <1>1, <1>4, <1>5 DEF FrameInv

(* A call that is entered from a place with the stack z.                   *)
LEMMA EnterFrames ==
  ASSUME FrameInv, NEW t \in Threads, NEW p, NEW q \in Labels, NEW b \in Labels,
         NEW c \in CallRecords, Enter(t, p, q, b), call'[t] = c,
         call' \in [Threads -> CallRecords], \A u \in Threads \ {t} : call'[u] = call[u],
         Frame(q, <<b>> \o stack[t], c)
  PROVE  FrameInv'
<1>1. /\ pc' = [pc EXCEPT ![t] = q]
      /\ stack' = [stack EXCEPT ![t] = <<b>> \o stack[t]]
  BY DEF Enter, Goto
<1>2. <<b>> \o stack[t] \in Seq(Labels)
  BY Pushed, Zenon DEF FrameInv
<1>3. pc' \in [Threads -> Labels] /\ pc'[t] = q /\ \A u \in Threads \ {t} : pc'[u] = pc[u]
  BY <1>1 DEF FrameInv
<1>4. /\ stack' \in [Threads -> Seq(Labels)] /\ stack'[t] = <<b>> \o stack[t]
      /\ \A u \in Threads \ {t} : stack'[u] = stack[u]
  BY <1>1, <1>2 DEF FrameInv
<1> QED
  BY Zenon, <1>3, <1>4 DEF FrameInv

LEMMA AskingFrames ==
  ASSUME FrameInv, NEW t \in Threads, Asking(t) PROVE FrameInv'
<1>1. PICK p \in Labels, b \in Labels, kind \in {"get", "set", "delete"}, name \in Names,
           v \in Anything :
        /\ Purpose(b, kind, name)
        /\ \/ p \in HomePcs /\ b \in {"idle"} \cup MakeBacks
           \/ p \in FirstPcs /\ b \in FirstBacks
        /\ CallGlobal(t, p, kind, name, v, b)
  BY Zenon DEF Asking
<1>2. PICK q \in {"lock_giant", "lock"} : Enter(t, p, q, b)
  BY Zenon, <1>1 DEF CallGlobal
<1>3. PICK c \in CallRecords : c = [kind |-> kind, name |-> name, value |-> v]
  BY ZenonT(60) DEF CallRecords
<1>4. c.kind = kind /\ c.name = name
  BY <1>3
<1>5. /\ call' \in [Threads -> CallRecords] /\ call'[t] = c
      /\ \A u \in Threads \ {t} : call'[u] = call[u]
  <2>1. call' = [call EXCEPT ![t] = c]
    BY Zenon, <1>1, <1>3 DEF CallGlobal
  <2> QED
    BY <2>1 DEF FrameInv
<1>6. Under(b, stack[t]) /\ stack[t] \in Seq(Labels)
  <2>1. pc[t] = p
    BY Zenon, <1>2 DEF Enter, Goto
  <2>2. CASE p \in HomePcs /\ b \in {"idle"} \cup MakeBacks
    BY ZenonT(60), <2>1, <2>2 DEF FrameInv, Frame, InGlobal, Under, HomePcs, CreatePcs, MakePcs,
       LookUpPcs, FirstPcs, InsidePcs, GlobalPcs, RegistryPcs, EntryPcs
  <2>3. CASE p \in FirstPcs /\ b \in FirstBacks
    BY Zenon, <2>1, <2>3 DEF FrameInv, Frame, InGlobal, Under, HomePcs, CreatePcs, MakePcs,
       LookUpPcs, FirstPcs, InsidePcs, GlobalPcs, RegistryPcs, EntryPcs
  <2> QED
    BY Zenon, <1>1, <2>2, <2>3
<1>7. Frame(q, <<b>> \o stack[t], c) /\ q \in Labels
  BY Zenon, <1>1, <1>2, <1>4, <1>6 DEF Frame, InGlobal, Kind, GlobalPcs, Labels
<1> QED
  BY Zenon, <1>2, <1>5, <1>7, EnterFrames

LEMMA SeekingFrames ==
  ASSUME FrameInv, NEW t \in Threads, Seeking(t) PROVE FrameInv'
<1>1. PICK p \in HomePcs, b \in LookUpBacks, q \in {"first", "lock_symbols"} : Enter(t, p, q, b)
  BY Zenon DEF Seeking
<1>2. call' = call
  BY Zenon DEF Seeking
<1>3. stack[t] = <<>>
  <2>1. pc[t] = p
    BY Zenon, <1>1 DEF Enter, Goto
  <2> QED
    BY Zenon, <2>1 DEF FrameInv, Frame, InGlobal, HomePcs, CreatePcs, MakePcs,
       LookUpPcs, FirstPcs, InsidePcs, GlobalPcs, RegistryPcs, EntryPcs
<1>4. q \in LookUpPcs /\ q \in Labels /\ b \in Labels
  BY Zenon DEF LookUpPcs, Labels, LookUpBacks, HomePcs, CreatePcs
<1>5. Frame(q, <<b>> \o stack[t], call[t])
  BY Zenon, <1>3, <1>4, Single DEF Frame
<1>6. /\ call' \in [Threads -> CallRecords] /\ call[t] \in CallRecords
      /\ \A u \in Threads : call'[u] = call[u]
  BY <1>2 DEF FrameInv
<1> QED
  BY Zenon, <1>1, <1>4, <1>5, <1>6, EnterFrames

LEMMA LeavingFrames ==
  ASSUME FrameInv, NEW t \in Threads, Leaving(t) PROVE FrameInv'
<1>1. PICK p \in GlobalPcs \cup InsidePcs : \E code : Return(t, p, code)
  BY Zenon DEF Leaving
<1>2. /\ pc[t] = p /\ call' = call
      /\ pc' = [pc EXCEPT ![t] = Head(stack[t])]
      /\ stack' = [stack EXCEPT ![t] = Tail(stack[t])]
  BY <1>1 DEF Return, Goto, Leaving
<1>3. /\ Frame(Head(stack[t]), Tail(stack[t]), call[t])
      /\ Head(stack[t]) \in Labels /\ Tail(stack[t]) \in Seq(Labels)
  BY Zenon, <1>2, Returned DEF FrameInv
<1>4. /\ pc' \in [Threads -> Labels] /\ pc'[t] = Head(stack[t])
      /\ \A u \in Threads \ {t} : pc'[u] = pc[u]
  BY <1>2, <1>3 DEF FrameInv
<1>5. /\ stack' \in [Threads -> Seq(Labels)] /\ stack'[t] = Tail(stack[t])
      /\ \A u \in Threads \ {t} : stack'[u] = stack[u]
  BY <1>2, <1>3 DEF FrameInv
<1> QED
  BY Zenon, <1>2, <1>3, <1>4, <1>5 DEF FrameInv

LEMMA StepFrames ==
  ASSUME FrameInv, TypeInv, NEW t \in Threads, Step(t) PROVE FrameInv'
  BY Zenon, StepControls, GoingFrames, ServingFrames, AskingFrames, SeekingFrames, LeavingFrames
     DEF Controls

-----------------------------------------------------------------------------
(* What a step does to the objects.                                        *)
Codes == {"ok", "not_ok", "error", "not_found"}
StaticMove(t) ==
  \/ static' = static
  \/ \E s \in Slots : \E v \in Places(s) : (s = "cache" => v # NULL) /\ Store(t, s, v)
ContentsMove ==
  \/ contents' = contents
  \/ \E c \in Named("cache"), n \in Names, v \in Anything :
       Registered(n, v, ready') /\ contents' = [contents EXCEPT ![c][n] = v]
  \/ \E c \in Named("symbols"), n \in Names : contents' = [contents EXCEPT ![c][n] = DlSym(n)]
ReadyMove(t) ==
  \/ ready' = ready
  \/ \E s \in Mutexes \cup {"hookHandler"} : ready' = ready \cup {Of(t, s)}
LockMove(t) ==
  \/ owner' = owner /\ depth' = depth
  \/ \E m : Lock(t, m) \/ Unlock(t, m)
Moves(t) ==
  /\ StaticMove(t) /\ ContentsMove /\ ReadyMove(t) /\ LockMove(t)
  /\ published' \in {published, Of(t, "cache")}

BaseInv == FrameInv /\ TypeInv /\ DataInv

LEMMA StaticOf ==
  ASSUME BaseInv, NEW t \in Threads
  PROVE  /\ \A s \in Slots : Of(t, s) \in Places(s)
         /\ pc[t] \in CachePcs => Of(t, "cache") \in Named("cache")
         /\ published \in {NULL} \cup Named("cache")
<1>1. /\ "cache" \in Slots /\ "cache" # "mutex"
      /\ ProgramOf[t] \in Programs
  BY ProgramAssumption DEF Slots
<1> QED
  BY Zenon, <1>1 DEF BaseInv, DataInv, Places, Of

LEMMA InitializeMoves ==
  ASSUME BaseInv, NEW t \in Threads, Initialize(t) PROVE Moves(t)
<1>0. /\ {"cache", "mutex"} \subseteq Slots /\ "mutex" \in Mutexes /\ "mutex" \in Names
      /\ "cache" # "mutex" /\ NULL \notin Named("cache")
      /\ {NULL, Absent, <<"mutex", t>>} \subseteq Places("mutex")
      /\ <<"cache", t>> \in Named("cache") /\ Named("cache") \subseteq Places("cache")
      /\ Named("mutex") \subseteq Objects
  BY ProgramAssumption DEF Slots, Mutexes, Names, Named, Objects, Places
<1>1. CASE LockGiant(t, "lock_giant", "sysctl")
  BY Zenon, <1>1 DEF LockGiant, Moves, StaticMove, ContentsMove, ReadyMove, LockMove
<1>2. CASE InitializeCache(t)
  <2>1. \E v \in Named("cache") : Store(t, "cache", v)
    BY Zenon, <1>0, <1>2, StaticOf DEF InitializeCache
  <2>2. StaticMove(t)
    BY Zenon, <1>0, <2>1 DEF StaticMove
  <2> QED
    BY Zenon, <1>2, <2>2 DEF InitializeCache, Moves, ContentsMove, ReadyMove, LockMove
<1>3. CASE InitializeClear(t) \/ InitializeAllocate(t)
  <2>1. StaticMove(t)
    BY Zenon, <1>0, <1>3 DEF InitializeClear, InitializeAllocate, StaticMove
  <2> QED
    BY Zenon, <1>3, <2>1 DEF InitializeClear, InitializeAllocate, Moves, ContentsMove, ReadyMove,
       LockMove
<1>4. CASE InitializeLoad(t)
  <2>1. pc[t] \in CachePcs
    BY Zenon, <1>4 DEF InitializeLoad, Goto, CachePcs, GlobalPcs, RegistryPcs
  <2>2. contents[Of(t, "cache")]["mutex"] \in Places("mutex")
    BY Zenon, <1>0, <2>1, StaticOf DEF BaseInv, DataInv, Registered, Places
  <2>3. StaticMove(t)
    BY Zenon, <1>0, <1>4, <2>2 DEF InitializeLoad, StaticMove
  <2> QED
    BY Zenon, <1>4, <2>3 DEF InitializeLoad, Moves, ContentsMove, ReadyMove, LockMove
<1>5. CASE InitializeMutex(t)
  <2>1. pc[t] \in CachePcs
    BY Zenon, <1>5 DEF InitializeMutex, Goto, CachePcs, GlobalPcs, RegistryPcs
  <2>2. /\ Of(t, "mutex") \in {NULL, Absent} \cup Named("mutex")
        /\ Of(t, "mutex") \in Anything
    BY Zenon, <1>0, StaticOf DEF Places, Anything
  <2>3. Registered("mutex", Of(t, "mutex"), ready')
    BY Zenon, <1>5, <2>2 DEF InitializeMutex, Registered
  <2>4. contents' = [contents EXCEPT ![Of(t, "cache")]["mutex"] = Of(t, "mutex")]
    BY Zenon, <1>5 DEF InitializeMutex
  <2>5. ContentsMove
    BY Zenon, <1>0, <2>1, <2>2, <2>3, <2>4, StaticOf DEF ContentsMove
  <2> QED
    BY Zenon, <1>0, <1>5, <2>5 DEF InitializeMutex, Moves, StaticMove, ReadyMove, LockMove
<1>6. CASE InitializePublish(t)
  BY Zenon, <1>6 DEF InitializePublish, Moves, StaticMove, ContentsMove, ReadyMove, LockMove
<1>7. CASE InitializeUnlock(t)
  BY Zenon, <1>7 DEF InitializeUnlock, Moves, StaticMove, ContentsMove, ReadyMove, LockMove
<1> QED
  BY Zenon, <1>1, <1>2, <1>3, <1>4, <1>5, <1>6, <1>7 DEF Initialize

LEMMA QuietMoves ==
  ASSUME NEW t \in Threads, UNCHANGED shared PROVE Moves(t)
  BY Zenon DEF shared, Moves, StaticMove, ContentsMove, ReadyMove, LockMove

LEMMA LockSlotMoves ==
  ASSUME NEW t \in Threads, NEW slot, NEW p, NEW q, NEW code,
         LockSlot(t, slot, p, q) \/ UnlockSlot(t, slot, p, code)
  PROVE  Moves(t)
<1>1. CASE LockSlot(t, slot, p, q)
  BY Zenon, <1>1, QuietMoves DEF LockSlot, Fault, Moves, StaticMove, ContentsMove, ReadyMove, LockMove
<1>2. CASE UnlockSlot(t, slot, p, code)
  BY Zenon, <1>2, QuietMoves DEF UnlockSlot, Fault, Moves, StaticMove, ContentsMove, ReadyMove,
     LockMove
<1> QED
  BY Zenon, <1>1, <1>2

(* The names that an entry of the registry stands for.                     *)
LEMMA CallOf ==
  ASSUME BaseInv, NEW t \in Threads, pc[t] \in EntryPcs
  PROVE  /\ call[t].name \in (ClientNames \cup Slots) \ {"cache", "mutex"}
         /\ call[t].name \in Names /\ call[t].value \in Anything
         /\ pc[t] \in {"get", "load"} => call[t].kind = "get"
         /\ pc[t] \in {"set", "delete"} => call[t].kind = pc[t]
         /\ call[t].kind = "delete" => call[t].name \in ClientNames
<1>1. call[t].name \in Names /\ call[t].value \in Anything
  BY DEF BaseInv, FrameInv, CallRecords
<1>2. InGlobal(pc[t], stack[t], call[t])
  BY Zenon DEF BaseInv, FrameInv, Frame, HomePcs, CreatePcs, MakePcs, LookUpPcs,
     FirstPcs, InsidePcs, EntryPcs
<1>3. PICK b \in Labels : Purpose(b, call[t].kind, call[t].name)
  BY Zenon, <1>2 DEF InGlobal
<1>4. Kind(pc[t], call[t].kind)
  BY Zenon, <1>2 DEF InGlobal
<1>5. "cache" \notin ClientNames /\ "mutex" \notin ClientNames
  BY ProgramAssumption DEF Slots, Mutexes
<1>6. /\ call[t].name \in (ClientNames \cup Slots) \ {"cache", "mutex"}
      /\ call[t].kind = "delete" => call[t].name \in ClientNames
  BY Zenon, <1>3, <1>5 DEF Purpose, Slots, Mutexes
<1> QED
  BY Zenon, <1>1, <1>4, <1>6 DEF Kind

LEMMA GlobalMoves ==
  ASSUME BaseInv, NEW t \in Threads, Global(t) PROVE Moves(t)
<1>1. CASE GlobalLock(t) \/ GlobalUnlock(t)
  BY Zenon, <1>1, LockSlotMoves DEF GlobalLock, GlobalUnlock
<1>2. ASSUME pc[t] \in EntryPcs
      PROVE  Of(t, "cache") \in Named("cache")
  BY Zenon, <1>2, StaticOf DEF EntryPcs, CachePcs, GlobalPcs
<1>3. CASE GlobalClear(t)
  <2>1. pc[t] \in EntryPcs
    BY Zenon, <1>3 DEF GlobalClear, Goto, EntryPcs
  <2>2. call[t].name \in Slots => NULL \in Places(call[t].name) /\ call[t].name # "cache"
    BY Zenon, <2>1, CallOf DEF Places
  <2>3. StaticMove(t)
    BY Zenon, <1>3, <2>2 DEF GlobalClear, Out, StaticMove
  <2> QED
    BY Zenon, <1>3, <2>3 DEF GlobalClear, Moves, ContentsMove, ReadyMove, LockMove
<1>4. CASE GlobalLoad(t)
  <2>1. pc[t] \in EntryPcs
    BY Zenon, <1>4 DEF GlobalLoad, Goto, EntryPcs
  <2>2. PICK v : v = contents[Of(t, "cache")][call[t].name]
    OBVIOUS
  <2>3. Registered(call[t].name, v, ready) /\ call[t].name # "cache"
    BY Zenon, <1>2, <2>1, <2>2, CallOf DEF BaseInv, DataInv
  <2>4. v # Absent /\ call[t].name \in Slots => v \in Places(call[t].name)
    BY Zenon, <2>3 DEF Registered, Places
  <2>5. static' = static \/ (v # Absent /\ Out(t, v))
    BY Zenon, <1>4, <2>2 DEF GlobalLoad
  <2>6. StaticMove(t)
    BY Zenon, <2>3, <2>4, <2>5 DEF Out, StaticMove
  <2> QED
    BY Zenon, <1>4, <2>6 DEF GlobalLoad, Moves, ContentsMove, ReadyMove, LockMove
<1>5. CASE GlobalSet(t)
  <2>1. pc[t] \in EntryPcs /\ pc[t] = "set"
    BY Zenon, <1>5 DEF GlobalSet, Goto, EntryPcs
  <2>2. Registered(call[t].name, call[t].value, ready) /\ ready' = ready
    BY Zenon, <1>5, <2>1, CallOf DEF BaseInv, DataInv, GlobalSet
  <2>3. contents' = [contents EXCEPT ![Of(t, "cache")][call[t].name] = call[t].value]
    BY Zenon, <1>5 DEF GlobalSet
  <2>4. ContentsMove
    BY Zenon, <1>2, <2>1, <2>2, <2>3, CallOf DEF ContentsMove
  <2> QED
    BY Zenon, <1>5, <2>4 DEF GlobalSet, Moves, StaticMove, ReadyMove, LockMove
<1>6. CASE GlobalDelete(t)
  <2>1. pc[t] \in EntryPcs /\ pc[t] = "delete"
    BY Zenon, <1>6 DEF GlobalDelete, Goto, EntryPcs
  <2>2. call[t].name \in ClientNames
    BY Zenon, <2>1, CallOf
  <2>3. Registered(call[t].name, Absent, ready') /\ Absent \in Anything
    BY Zenon, <2>2, ProgramAssumption DEF Registered, Anything
  <2>4. contents' = [contents EXCEPT ![Of(t, "cache")][call[t].name] = Absent]
    BY Zenon, <1>6 DEF GlobalDelete
  <2>5. ContentsMove
    BY Zenon, <1>2, <2>1, <2>3, <2>4, CallOf DEF ContentsMove
  <2> QED
    BY Zenon, <1>6, <2>5 DEF GlobalDelete, Moves, StaticMove, ReadyMove, LockMove
<1> QED
  BY Zenon, <1>1, <1>3, <1>4, <1>5, <1>6 DEF Global

LEMMA HookMoves ==
  ASSUME BaseInv, NEW t \in Threads,
         \/ InitializeHook(t)
         \/ LockSlot(t, "hookMutex", "lock_hooks", "use")
         \/ CreateUnlock(t)
  PROVE  Moves(t)
<1>0. /\ {"hookMutex", "hookHandler"} \subseteq Slots \ {"cache"}
      /\ {"hookMutex", "hookHandler"} \subseteq Mutexes \cup {"hookHandler"}
      /\ <<"hookMutex", t>> \in Places("hookMutex")
      /\ <<"hookHandler", t>> \in Places("hookHandler")
  BY DEF Slots, Mutexes, Places, Named
<1>1. CASE InitializeGiant(t) \/ InitializeLeave(t)
  BY Zenon, <1>1, QuietMoves DEF InitializeGiant, InitializeLeave, LockGiant, Moves, StaticMove,
     ContentsMove, ReadyMove, LockMove
<1>2. CASE \/ InitializeGet(t, "hookMutex", "has_giant", "got_hookMutex", "has_mutex")
           \/ InitializeGet(t, "hookHandler", "has_mutex", "got_hookHandler", "leave_initialize")
  BY Zenon, <1>2, QuietMoves DEF InitializeGet
<1>3. CASE \/ InitializeMake(t, "hookMutex", "got_hookMutex", "init_hookMutex", "has_mutex")
           \/ InitializeMake(t, "hookHandler", "got_hookHandler", "init_hookHandler", "leave_initialize")
  <2>1. StaticMove(t)
    BY Zenon, <1>0, <1>3 DEF InitializeMake, StaticMove
  <2> QED
    BY Zenon, <1>3, <2>1 DEF InitializeMake, Moves, ContentsMove, ReadyMove, LockMove
<1>4. CASE \/ InitializeReady(t, "hookMutex", "init_hookMutex", "has_mutex")
           \/ InitializeReady(t, "hookHandler", "init_hookHandler", "leave_initialize")
  BY Zenon, <1>0, <1>4 DEF InitializeReady, Moves, StaticMove, ContentsMove, ReadyMove, LockMove
<1>5. CASE LockSlot(t, "hookMutex", "lock_hooks", "use")
  BY Zenon, <1>5, LockSlotMoves
<1>6. CASE CreateUnlock(t)
  BY Zenon, <1>6, QuietMoves DEF CreateUnlock, Fault, Moves, StaticMove, ContentsMove, ReadyMove,
     LockMove
<1> QED
  BY Zenon, <1>1, <1>2, <1>3, <1>4, <1>5, <1>6 DEF InitializeHook

LEMMA LookUpMoves ==
  ASSUME BaseInv, NEW t \in Threads, LookUp(t) \/ CreateUse(t) PROVE Moves(t)
<1>0. /\ {"symbols", "symbolsMutex"} \subseteq Slots \ {"cache"} /\ "symbolsMutex" \in Mutexes
      /\ <<"symbols", t>> \in Places("symbols")
      /\ <<"symbolsMutex", t>> \in Places("symbolsMutex")
  BY DEF Slots, Mutexes, Places, Named
<1>1. CASE LockGiant(t, "first", "get_symbols") \/ LookUpLeaveFirst(t)
  BY Zenon, <1>1 DEF LookUpLeaveFirst, LockGiant, Moves, StaticMove, ContentsMove, ReadyMove, LockMove
<1>2. CASE \/ LookUpGetCache(t) \/ LookUpGetMutex(t) \/ CreateUse(t) \/ LookUpFind(t)
  BY Zenon, <1>2, QuietMoves DEF LookUpGetCache, LookUpGetMutex, CreateUse, CallLookUp, LookUpFind
<1>3. CASE LookUpCreate(t) \/ LookUpAllocate(t)
  <2>1. StaticMove(t)
    BY Zenon, <1>0, <1>3 DEF LookUpCreate, LookUpAllocate, StaticMove
  <2> QED
    BY Zenon, <1>3, <2>1 DEF LookUpCreate, LookUpAllocate, Moves, ContentsMove, ReadyMove, LockMove
<1>4. CASE LookUpInit(t)
  BY Zenon, <1>0, <1>4 DEF LookUpInit, Moves, StaticMove, ContentsMove, ReadyMove, LockMove
<1>5. CASE \/ LockSlot(t, "symbolsMutex", "lock_symbols", "find")
           \/ UnlockSlot(t, "symbolsMutex", "unlock_symbols", "ok")
  BY Zenon, <1>5, LockSlotMoves
<1>6. CASE LookUpMiss(t)
  <2>1. "mutex" # "symbols" /\ wanted[t] \in Names
    BY DEF BaseInv, TypeInv
  <2>2. Of(t, "symbols") = NULL \/ Of(t, "symbols") \in Named("symbols")
    BY Zenon, <1>0, <2>1, StaticOf DEF Places
  <2>3. ContentsMove
    BY Zenon, <1>6, <2>1, <2>2 DEF LookUpMiss, ContentsMove
  <2> QED
    BY Zenon, <1>6, <2>3 DEF LookUpMiss, Moves, StaticMove, ReadyMove, LockMove
<1> QED
  BY Zenon, <1>1, <1>2, <1>3, <1>4, <1>5, <1>6 DEF LookUp, LookUpFirst

LEMMA StepMoves ==
  ASSUME BaseInv, NEW t \in Threads, Step(t) PROVE Moves(t)
<1>1. CASE Begin(t)
  BY Zenon, <1>1, QuietMoves DEF Begin, CallCreate, CallLookUp
<1> QED
  BY Zenon, <1>1, InitializeMoves, GlobalMoves, HookMoves, LookUpMoves DEF Step

-----------------------------------------------------------------------------
(* What a step does to the variables of the thread.                        *)
Only(t, f, g, S) == g = f \/ \E v \in S : g = [f EXCEPT ![t] = v]
CallMove(t) ==
  \/ call' = call
  \/ \E c \in CallRecords :
       /\ call' = [call EXCEPT ![t] = c]
       /\ c.kind = "set" => Registered(c.name, c.value, ready')
MissMove(t) == missed' = missed \/ missed' = [missed EXCEPT ![t] = @ + 1]
(* The variables that are not described by Controls.                       *)
Private(t) ==
  /\ Only(t, r, r', Codes) /\ Only(t, answer, answer', Anything)
  /\ Only(t, wanted, wanted', Names) /\ MissMove(t) /\ CallMove(t)
(* What holds at the place a step leads to.                                *)
Arrives(t) ==
  /\ pc'[t] \in CachePcs => pc[t] \in CachePcs \/ Of(t, "cache")' # NULL
  /\ pc'[t] = "unlock_symbols" => answer'[t] = DlSym(wanted'[t])

BackPcs == LookUpBacks \cup MakeBacks \cup FirstBacks

LEMMA Goes ==
  ASSUME FrameInv, NEW t \in Threads, NEW p, NEW q, Goto(t, p, q)
  PROVE  pc[t] = p /\ pc'[t] = q /\ \A u \in Threads \ {t} : pc'[u] = pc[u]
  BY DEF Goto, FrameInv

LEMMA ReturnsTo ==
  ASSUME FrameInv, NEW t \in Threads, pc[t] \in GlobalPcs \cup InsidePcs
  PROVE  Head(stack[t]) \in BackPcs
<1>1. CASE pc[t] \in GlobalPcs
  <2>1. PICK b \in Labels, z \in Seq(Labels) : stack[t] = <<b>> \o z /\ Under(b, z)
    BY Zenon, <1>1 DEF FrameInv, Frame, InGlobal, HomePcs, CreatePcs, MakePcs, LookUpPcs, FirstPcs,
       InsidePcs, GlobalPcs, RegistryPcs, EntryPcs
  <2>2. Head(stack[t]) = b
    BY Zenon, <2>1, Pushed
  <2> QED
    BY Zenon, <2>1, <2>2 DEF Under, BackPcs, LookUpBacks
<1>2. CASE pc[t] \in InsidePcs
  <2>1. PICK b \in LookUpBacks : stack[t] = <<b>>
    BY Zenon, <1>2 DEF FrameInv, Frame, InGlobal, HomePcs, CreatePcs, MakePcs, InsidePcs, GlobalPcs,
       RegistryPcs, EntryPcs
  <2>2. Head(stack[t]) = b
    BY <2>1
  <2> QED
    BY Zenon, <2>2 DEF BackPcs
<1> QED
  BY Zenon, <1>1, <1>2

(* A hop to a place where nothing is required.                             *)
LEMMA Elsewhere ==
  ASSUME FrameInv, NEW t \in Threads, NEW p, NEW q, Goto(t, p, q),
         q \notin CachePcs \cup {"unlock_symbols"}
  PROVE  Arrives(t)
  BY Zenon, Goes DEF Arrives

LEMMA ElsewhereBack ==
  ASSUME FrameInv, NEW t \in Threads, NEW p \in GlobalPcs \cup InsidePcs, NEW code,
         Return(t, p, code)
  PROVE  Arrives(t)
<1>1. Goto(t, p, Head(stack[t])) /\ pc[t] = p
  BY Zenon DEF Return, Goto
<1>2. Head(stack[t]) \notin CachePcs \cup {"unlock_symbols"}
  BY Zenon, <1>1, ReturnsTo DEF BackPcs, LookUpBacks, MakeBacks, FirstBacks, CachePcs, GlobalPcs,
     RegistryPcs, EntryPcs
<1> QED
  BY Zenon, <1>1, <1>2, Elsewhere

LEMMA Within ==
  ASSUME FrameInv, NEW t \in Threads, NEW p \in CachePcs, NEW q, Goto(t, p, q),
         q # "unlock_symbols"
  PROVE  Arrives(t)
  BY Zenon, Goes DEF Arrives

LEMMA InitializeArrives ==
  ASSUME BaseInv, NEW t \in Threads, Initialize(t) PROVE Arrives(t)
<1> USE DEF BaseInv
<1>1. CASE LockGiant(t, "lock_giant", "sysctl")
  BY Zenon, <1>1, Elsewhere DEF LockGiant, CachePcs
<1>2. CASE InitializeCache(t)
  <2>1. pc'[t] # "unlock_symbols"
    <3>1. PICK q \in {"clear_mutex", "allocate_mutex"} : Goto(t, "sysctl", q)
      BY Zenon, <1>2 DEF InitializeCache
    <3> QED
      BY Zenon, <3>1, Goes
  <2>2. PICK v \in Named("cache") : Store(t, "cache", v)
    <3>1. <<"cache", t>> \in Named("cache")
      BY DEF Named
    <3> QED
      BY Zenon, <1>2, <3>1, StaticOf DEF InitializeCache
  <2>3. Of(t, "cache")' = v
    BY <2>2, ProgramAssumption DEF Store, Of, TypeInv, Slots
  <2>4. v # NULL
    BY ProgramAssumption DEF Named, Objects, Slots
  <2> QED
    BY Zenon, <2>1, <2>3, <2>4 DEF Arrives
<1>3. CASE InitializeClear(t) \/ InitializeLoad(t) \/ InitializeAllocate(t)
  BY Zenon, <1>3, Within DEF InitializeClear, InitializeLoad, InitializeAllocate, CachePcs,
     GlobalPcs, RegistryPcs
<1>4. CASE InitializeMutex(t) \/ InitializePublish(t)
  BY Zenon, <1>4, Within DEF InitializeMutex, InitializePublish, CachePcs, GlobalPcs, RegistryPcs
<1>5. CASE InitializeUnlock(t)
  BY Zenon, <1>5, Within, ElsewhereBack DEF InitializeUnlock, CachePcs, GlobalPcs, RegistryPcs
<1> QED
  BY Zenon, <1>1, <1>2, <1>3, <1>4, <1>5 DEF Initialize

LEMMA GlobalArrives ==
  ASSUME BaseInv, NEW t \in Threads, Global(t) PROVE Arrives(t)
<1> USE DEF BaseInv
<1>1. CASE GlobalLock(t)
  <2>1. call[t].kind # "unlock_symbols"
    BY DEF FrameInv, CallRecords
  <2> QED
    BY Zenon, <1>1, <2>1, Within DEF GlobalLock, LockSlot, Fault, CachePcs, GlobalPcs
<1>2. CASE GlobalClear(t) \/ GlobalLoad(t) \/ GlobalSet(t) \/ GlobalDelete(t)
  BY Zenon, <1>2, Within DEF GlobalClear, GlobalLoad, GlobalSet, GlobalDelete, CachePcs,
     GlobalPcs, EntryPcs
<1>3. CASE GlobalUnlock(t)
  BY Zenon, <1>3, Within, ElsewhereBack DEF GlobalUnlock, UnlockSlot, Fault, CachePcs, GlobalPcs,
     EntryPcs
<1> QED
  BY Zenon, <1>1, <1>2, <1>3 DEF Global

(* A call of the registry goes to "lock" if the program knows the cache.   *)
LEMMA CallArrives ==
  ASSUME FrameInv, NEW t \in Threads, NEW p, NEW kind, NEW name, NEW v, NEW b,
         CallGlobal(t, p, kind, name, v, b), Of(t, "cache")' = Of(t, "cache")
  PROVE  Arrives(t)
<1>1. CASE Of(t, "cache") = NULL
  BY Zenon, <1>1, Elsewhere DEF CallGlobal, Enter, CachePcs
<1>2. CASE Of(t, "cache") # NULL
  BY ZenonT(60), <1>2, Goes DEF CallGlobal, Enter, Arrives
<1> QED
  BY Zenon, <1>1, <1>2

LEMMA HookArrives ==
  ASSUME BaseInv, NEW t \in Threads,
         \/ InitializeHook(t)
         \/ LockSlot(t, "hookMutex", "lock_hooks", "use")
         \/ CreateUnlock(t)
  PROVE  Arrives(t)
<1> USE DEF BaseInv
<1>0. ASSUME static' = static PROVE Of(t, "cache")' = Of(t, "cache")
  BY Zenon, <1>0 DEF Of
<1>1. CASE InitializeGiant(t) \/ InitializeLeave(t)
  BY Zenon, <1>1, Elsewhere DEF InitializeGiant, LockGiant, InitializeLeave, CachePcs, GlobalPcs,
     RegistryPcs, EntryPcs
<1>2. CASE \/ InitializeGet(t, "hookMutex", "has_giant", "got_hookMutex", "has_mutex")
           \/ InitializeGet(t, "hookHandler", "has_mutex", "got_hookHandler", "leave_initialize")
  BY Zenon, <1>0, <1>2, Elsewhere, CallArrives DEF InitializeGet, shared, CachePcs, GlobalPcs,
     RegistryPcs, EntryPcs
<1>3. CASE \/ InitializeMake(t, "hookMutex", "got_hookMutex", "init_hookMutex", "has_mutex")
           \/ InitializeMake(t, "hookHandler", "got_hookHandler", "init_hookHandler", "leave_initialize")
  BY Zenon, <1>3, Elsewhere DEF InitializeMake, CachePcs, GlobalPcs, RegistryPcs, EntryPcs
<1>4. CASE \/ InitializeReady(t, "hookMutex", "init_hookMutex", "has_mutex")
           \/ InitializeReady(t, "hookHandler", "init_hookHandler", "leave_initialize")
  BY Zenon, <1>0, <1>4, CallArrives DEF InitializeReady
<1>5. CASE LockSlot(t, "hookMutex", "lock_hooks", "use") \/ CreateUnlock(t)
  BY Zenon, <1>5, Elsewhere DEF LockSlot, CreateUnlock, Fault, CachePcs, GlobalPcs, RegistryPcs,
     EntryPcs
<1> QED
  BY Zenon, <1>1, <1>2, <1>3, <1>4, <1>5 DEF InitializeHook

LEMMA LookUpArrives ==
  ASSUME BaseInv, NEW t \in Threads, LookUp(t) \/ CreateUse(t) PROVE Arrives(t)
<1> USE DEF BaseInv
<1>0. ASSUME static' = static PROVE Of(t, "cache")' = Of(t, "cache")
  BY Zenon, <1>0 DEF Of
<1>1. CASE LockGiant(t, "first", "get_symbols") \/ LookUpLeaveFirst(t) \/ LookUpAllocate(t)
  BY Zenon, <1>1, Elsewhere DEF LookUpLeaveFirst, LockGiant, LookUpAllocate, CachePcs, GlobalPcs,
     RegistryPcs, EntryPcs
<1>2. CASE LookUpGetCache(t) \/ LookUpGetMutex(t) \/ LookUpInit(t)
  BY Zenon, <1>0, <1>2, CallArrives DEF LookUpGetCache, LookUpGetMutex, LookUpInit, shared
<1>3. CASE LookUpCreate(t)
  <2>1. Of(t, "cache")' = Of(t, "cache")
    BY <1>3, ProgramAssumption DEF LookUpCreate, Store, Of, TypeInv, Slots
  <2> QED
    BY Zenon, <1>3, <2>1, CallArrives DEF LookUpCreate
<1>4. CASE LockSlot(t, "symbolsMutex", "lock_symbols", "find")
  BY Zenon, <1>4, Elsewhere DEF LockSlot, Fault, CachePcs, GlobalPcs, RegistryPcs, EntryPcs
<1>5. CASE UnlockSlot(t, "symbolsMutex", "unlock_symbols", "ok")
  BY Zenon, <1>5, Elsewhere, ElsewhereBack DEF UnlockSlot, Fault, InsidePcs, CachePcs, GlobalPcs,
     RegistryPcs, EntryPcs
<1>6. CASE CreateUse(t)
  BY Zenon, <1>6, Elsewhere DEF CreateUse, CallLookUp, Enter, CachePcs, GlobalPcs, RegistryPcs,
     EntryPcs
<1>7. ASSUME NEW v, Goto(t, "find", "unlock_symbols") \/ Goto(t, "miss", "unlock_symbols"),
             v = DlSym(wanted[t]), answer' = [answer EXCEPT ![t] = v], wanted' = wanted
      PROVE  Arrives(t)
  <2>1. answer'[t] = v
    BY <1>7 DEF TypeInv
  <2>2. pc'[t] = "unlock_symbols"
    BY Zenon, <1>7, Goes
  <2> QED
    BY Zenon, <1>7, <2>1, <2>2 DEF Arrives, CachePcs, GlobalPcs, RegistryPcs, EntryPcs
<1>8. CASE LookUpFind(t) /\ UNCHANGED wanted
  <2>1. PICK v : v = IF Of(t, "symbols") = NULL THEN Absent
                     ELSE contents[Of(t, "symbols")][wanted[t]]
    OBVIOUS
  <2>2. CASE v = Absent
    BY Zenon, <1>8, <2>1, <2>2, Elsewhere DEF LookUpFind, CachePcs, GlobalPcs, RegistryPcs, EntryPcs
  <2>3. CASE v # Absent
    <3>1. wanted[t] \in Names /\ "symbols" \in Slots /\ "symbols" # "mutex"
      BY DEF TypeInv, Slots
    <3>2. Of(t, "symbols") \in Named("symbols")
      BY Zenon, <2>1, <2>3, <3>1, StaticOf DEF Places
    <3>3. v = DlSym(wanted[t])
      BY Zenon, <2>1, <2>3, <3>1, <3>2 DEF DataInv
    <3>4. Goto(t, "find", "unlock_symbols") /\ answer' = [answer EXCEPT ![t] = v]
      BY Zenon, <1>8, <2>1, <2>3 DEF LookUpFind
    <3> QED
      BY Zenon, <1>7, <1>8, <3>3, <3>4
  <2> QED
    BY Zenon, <2>2, <2>3
<1>9. CASE LookUpMiss(t) /\ UNCHANGED wanted
  BY Zenon, <1>7, <1>9, ElsewhereBack DEF LookUpMiss, InsidePcs
<1> QED
  BY Zenon, <1>1, <1>2, <1>3, <1>4, <1>5, <1>6, <1>8, <1>9 DEF LookUp, LookUpFirst

LEMMA StepArrives ==
  ASSUME BaseInv, NEW t \in Threads, Step(t) PROVE Arrives(t)
<1> USE DEF BaseInv
<1>0. ASSUME static' = static PROVE Of(t, "cache")' = Of(t, "cache")
  BY Zenon, <1>0 DEF Of
<1>1. CASE /\ \E n \in ClientNames, kind \in Work[t] \cap {"get", "set", "delete"} :
                \E v \in IF kind = "set" THEN Values ELSE {NULL} :
                  CallGlobal(t, "idle", kind, n, v, "idle")
           /\ UNCHANGED shared
  BY Zenon, <1>0, <1>1, CallArrives DEF shared
<1>2. CASE CallCreate(t) \/ \E n \in Work[t] \cap KernelNames : CallLookUp(t, "idle", n, "idle")
  BY Zenon, <1>2, Elsewhere DEF CallCreate, CallLookUp, Enter, CachePcs, GlobalPcs, RegistryPcs,
     EntryPcs
<1>3. CASE Begin(t)
  BY Zenon, <1>1, <1>2, <1>3 DEF Begin
<1> QED
  BY Zenon, <1>3, InitializeArrives, GlobalArrives, HookArrives, LookUpArrives DEF Step

-----------------------------------------------------------------------------
LEMMA CallPrivate ==
  ASSUME FrameInv, NEW t \in Threads, NEW p, NEW kind \in {"get", "set", "delete"},
         NEW name \in Names, NEW v \in Anything, NEW b, CallGlobal(t, p, kind, name, v, b),
         kind = "set" => Registered(name, v, ready')
  PROVE  CallMove(t)
<1>1. PICK c \in CallRecords : c = [kind |-> kind, name |-> name, value |-> v]
  BY ZenonT(60) DEF CallRecords
<1>2. c.kind = kind /\ c.name = name /\ c.value = v
  BY <1>1
<1>3. call' = [call EXCEPT ![t] = c]
  BY Zenon, <1>1 DEF CallGlobal
<1> QED
  BY Zenon, <1>2, <1>3 DEF CallMove

LEMMA InitializePrivate ==
  ASSUME NEW t \in Threads, Initialize(t), UNCHANGED <<wanted, missed>>, TypeInv PROVE Private(t)
<1>1. r[t] \in Codes
  BY DEF TypeInv, Codes
<1>2. CASE \/ LockGiant(t, "lock_giant", "sysctl") \/ InitializeCache(t) \/ InitializeClear(t)
           \/ InitializeAllocate(t) \/ InitializeMutex(t)
  BY Zenon, <1>2 DEF LockGiant, InitializeCache, InitializeClear, InitializeAllocate,
     InitializeMutex, Private, Only, MissMove, CallMove
<1>3. CASE InitializeLoad(t) \/ InitializePublish(t) \/ InitializeUnlock(t)
  BY Zenon, <1>1, <1>3 DEF InitializeLoad, InitializePublish, InitializeUnlock, Return, Private,
     Only, MissMove, CallMove, Codes
<1> QED
  BY Zenon, <1>2, <1>3 DEF Initialize

LEMMA GlobalPrivate ==
  ASSUME BaseInv, NEW t \in Threads, Global(t), UNCHANGED <<wanted, missed>> PROVE Private(t)
<1> USE DEF BaseInv
<1>1. r[t] \in Codes /\ NULL \in Anything
  BY DEF TypeInv, Codes, Anything
<1>2. CASE GlobalLock(t)
  BY Zenon, <1>2 DEF GlobalLock, LockSlot, Fault, Private, Only, MissMove, CallMove
<1>3. CASE GlobalUnlock(t)
  BY Zenon, <1>1, <1>3 DEF GlobalUnlock, UnlockSlot, Return, Fault, Private, Only, MissMove,
     CallMove
<1>4. CASE GlobalSet(t) \/ GlobalDelete(t)
  BY Zenon, <1>4 DEF GlobalSet, GlobalDelete, Private, Only, MissMove, CallMove, Codes
<1>5. CASE GlobalClear(t)
  BY Zenon, <1>1, <1>5 DEF GlobalClear, Out, Private, Only, MissMove, CallMove
<1>6. CASE GlobalLoad(t)
  <2>1. pc[t] \in EntryPcs /\ pc[t] \in CachePcs
    BY Zenon, <1>6 DEF GlobalLoad, Goto, EntryPcs, CachePcs, GlobalPcs
  <2>2. call[t].name \in Names /\ Of(t, "cache") \in Caches
    BY <2>1, CallOf, StaticOf DEF Caches, Named
  <2>3. contents[Of(t, "cache")][call[t].name] \in Anything
    BY <2>2 DEF TypeInv
  <2> QED
    BY Zenon, <1>6, <2>3 DEF GlobalLoad, Out, Private, Only, MissMove, CallMove, Codes
<1> QED
  BY Zenon, <1>2, <1>3, <1>4, <1>5, <1>6 DEF Global

LEMMA HookPrivate ==
  ASSUME BaseInv, NEW t \in Threads, UNCHANGED <<wanted, missed>>,
         \/ InitializeHook(t)
         \/ LockSlot(t, "hookMutex", "lock_hooks", "use")
         \/ CreateUnlock(t)
  PROVE  Private(t)
<1> USE DEF BaseInv
<1>0. /\ NULL \in Anything /\ {"hookMutex", "hookHandler"} \subseteq Names \cap Slots
      /\ Of(t, "hookMutex") \in Anything /\ Of(t, "hookHandler") \in Anything
      /\ "hookMutex" # "mutex" /\ "hookHandler" # "mutex"
  BY ProgramAssumption DEF TypeInv, Of, Anything, Names, Slots, Mutexes
<1>1. CASE \/ InitializeGiant(t) \/ InitializeLeave(t) \/ CreateUnlock(t)
           \/ LockSlot(t, "hookMutex", "lock_hooks", "use")
  BY Zenon, <1>1 DEF InitializeGiant, LockGiant, InitializeLeave, CreateUnlock, LockSlot, Fault,
     Private, Only, MissMove, CallMove
<1>2. CASE \/ InitializeGet(t, "hookMutex", "has_giant", "got_hookMutex", "has_mutex")
           \/ InitializeGet(t, "hookHandler", "has_mutex", "got_hookHandler", "leave_initialize")
  <2>1. CallMove(t)
    <3>1. CASE call' = call
      BY Zenon, <3>1 DEF CallMove
    <3>2. CASE \/ CallGlobal(t, "has_giant", "get", "hookMutex", NULL, "got_hookMutex")
               \/ CallGlobal(t, "has_mutex", "get", "hookHandler", NULL, "got_hookHandler")
      BY Zenon, <1>0, <3>2, CallPrivate
    <3> QED
      BY Zenon, <1>2, <3>1, <3>2 DEF InitializeGet
  <2> QED
    BY Zenon, <1>2, <2>1 DEF InitializeGet, Private, Only, MissMove
<1>3. CASE \/ InitializeMake(t, "hookMutex", "got_hookMutex", "init_hookMutex", "has_mutex")
           \/ InitializeMake(t, "hookHandler", "got_hookHandler", "init_hookHandler", "leave_initialize")
  BY Zenon, <1>3 DEF InitializeMake, Private, Only, MissMove, CallMove
<1>4. CASE \/ InitializeReady(t, "hookMutex", "init_hookMutex", "has_mutex")
           \/ InitializeReady(t, "hookHandler", "init_hookHandler", "leave_initialize")
  <2>1. CASE InitializeReady(t, "hookMutex", "init_hookMutex", "has_mutex")
    <3>1. Registered("hookMutex", Of(t, "hookMutex"), ready')
      BY Zenon, <1>0, <2>1, StaticOf DEF InitializeReady, Registered, Places
    <3>2. CallMove(t)
      BY Zenon, <1>0, <2>1, <3>1, CallPrivate DEF InitializeReady
    <3> QED
      BY Zenon, <2>1, <3>2 DEF InitializeReady, Private, Only, MissMove
  <2>2. CASE InitializeReady(t, "hookHandler", "init_hookHandler", "leave_initialize")
    <3>1. Registered("hookHandler", Of(t, "hookHandler"), ready')
      BY Zenon, <1>0, <2>2, StaticOf DEF InitializeReady, Registered, Places
    <3>2. CallMove(t)
      BY Zenon, <1>0, <2>2, <3>1, CallPrivate DEF InitializeReady
    <3> QED
      BY Zenon, <2>2, <3>2 DEF InitializeReady, Private, Only, MissMove
  <2> QED
    BY Zenon, <1>4, <2>1, <2>2
<1> QED
  BY Zenon, <1>1, <1>2, <1>3, <1>4 DEF InitializeHook

LEMMA LookUpPrivate ==
  ASSUME BaseInv, NEW t \in Threads, LookUp(t) \/ CreateUse(t) PROVE Private(t)
<1> USE DEF BaseInv
<1>0. /\ NULL \in Anything /\ {"symbols", "symbolsMutex"} \subseteq Names \cap Slots
      /\ Of(t, "symbolsMutex") \in Anything /\ <<"symbols", t>> \in Anything
      /\ "symbols" # "mutex" /\ "symbolsMutex" # "mutex"
      /\ <<"symbols", t>> \in Named("symbols") /\ "malloc" \in Names
      /\ wanted[t] \in Names
  BY ProgramAssumption, NamesAssumption DEF TypeInv, Of, Anything, Names, Slots, Mutexes, Objects,
     Named
<1>1. CASE UNCHANGED <<wanted, missed>> /\ LookUpFirst(t)
  <2>1. CASE LockGiant(t, "first", "get_symbols") \/ LookUpLeaveFirst(t) \/ LookUpAllocate(t)
    BY Zenon, <1>1, <2>1 DEF LockGiant, LookUpLeaveFirst, LookUpAllocate, Private, Only, MissMove,
       CallMove
  <2>2. CASE LookUpGetCache(t) \/ LookUpGetMutex(t)
    <3>1. CallMove(t)
      BY Zenon, <1>0, <2>2, CallPrivate DEF LookUpGetCache, LookUpGetMutex
    <3> QED
      BY Zenon, <1>1, <2>2, <3>1 DEF LookUpGetCache, LookUpGetMutex, Private, Only, MissMove
  <2>3. CASE LookUpCreate(t)
    <3>1. Registered("symbols", <<"symbols", t>>, ready')
      BY Zenon, <1>0 DEF Registered
    <3>2. CallMove(t)
      BY Zenon, <1>0, <2>3, <3>1, CallPrivate DEF LookUpCreate
    <3> QED
      BY Zenon, <1>1, <2>3, <3>2 DEF LookUpCreate, Private, Only, MissMove
  <2>4. CASE LookUpInit(t)
    <3>1. Registered("symbolsMutex", Of(t, "symbolsMutex"), ready')
      BY Zenon, <1>0, <2>4, StaticOf DEF LookUpInit, Registered, Places
    <3>2. CallMove(t)
      BY Zenon, <1>0, <2>4, <3>1, CallPrivate DEF LookUpInit
    <3> QED
      BY Zenon, <1>1, <2>4, <3>2 DEF LookUpInit, Private, Only, MissMove
  <2> QED
    BY Zenon, <1>1, <2>1, <2>2, <2>3, <2>4 DEF LookUpFirst
<1>2. CASE /\ UNCHANGED <<wanted, missed>>
           /\ \/ LockSlot(t, "symbolsMutex", "lock_symbols", "find")
              \/ UnlockSlot(t, "symbolsMutex", "unlock_symbols", "ok")
  BY Zenon, <1>2 DEF LockSlot, UnlockSlot, Return, Fault, Private, Only, MissMove, CallMove, Codes
<1>3. CASE UNCHANGED <<wanted, missed>> /\ LookUpFind(t)
  <2>1. PICK v : v = IF Of(t, "symbols") = NULL THEN Absent
                     ELSE contents[Of(t, "symbols")][wanted[t]]
    OBVIOUS
  <2>2. Of(t, "symbols") = NULL \/ Of(t, "symbols") \in Caches
    <3>1. Named("symbols") \subseteq Caches
      BY DEF Named, Caches
    <3> QED
      BY Zenon, <1>0, <3>1, StaticOf DEF Places
  <2>3. v \in Anything
    BY <1>0, <2>1, <2>2 DEF TypeInv, Anything
  <2>4. answer' = answer \/ answer' = [answer EXCEPT ![t] = v]
    BY Zenon, <1>3, <2>1 DEF LookUpFind
  <2> QED
    BY Zenon, <1>3, <2>3, <2>4 DEF LookUpFind, Private, Only, MissMove, CallMove
<1>4. CASE UNCHANGED wanted /\ LookUpMiss(t)
  <2>1. DlSym(wanted[t]) \in Anything
    BY <1>0 DEF Anything
  <2> QED
    BY Zenon, <1>4, <2>1 DEF LookUpMiss, Return, Private, Only, MissMove, CallMove, Codes
<1>5. CASE CreateUse(t)
  BY Zenon, <1>0, <1>5 DEF CreateUse, CallLookUp, Private, Only, MissMove, CallMove
<1> QED
  BY Zenon, <1>1, <1>2, <1>3, <1>4, <1>5 DEF LookUp

LEMMA StepPrivate ==
  ASSUME BaseInv, NEW t \in Threads, Step(t) PROVE Private(t)
<1> USE DEF BaseInv
<1>0. NULL \in Anything /\ KernelNames \subseteq Names /\ "Giant" \in KernelNames
  BY NamesAssumption DEF Anything, Names
<1>1. CASE /\ \E n \in ClientNames, kind \in Work[t] \cap {"get", "set", "delete"} :
                \E v \in IF kind = "set" THEN Values ELSE {NULL} :
                  CallGlobal(t, "idle", kind, n, v, "idle")
           /\ UNCHANGED <<shared, r, answer, wanted, missed>>
  <2>1. PICK n \in ClientNames, kind \in {"get", "set", "delete"}, v \in Anything :
          CallGlobal(t, "idle", kind, n, v, "idle")
    BY Zenon, <1>1 DEF Anything
  <2>2. n \in Names /\ Registered(n, v, ready')
    BY Zenon, ProgramAssumption DEF Names, Registered
  <2>3. CallMove(t)
    BY Zenon, <2>1, <2>2, CallPrivate
  <2> QED
    BY Zenon, <1>1, <2>3 DEF Private, Only, MissMove
<1>2. CASE CallCreate(t) \/ \E n \in Work[t] \cap KernelNames : CallLookUp(t, "idle", n, "idle")
  BY Zenon, <1>0, <1>2 DEF CallCreate, CallLookUp, Private, Only, MissMove, CallMove
<1>3. CASE Begin(t)
  BY Zenon, <1>1, <1>2, <1>3 DEF Begin
<1> QED
  BY Zenon, <1>3, InitializePrivate, GlobalPrivate, HookPrivate, LookUpPrivate DEF Step

-----------------------------------------------------------------------------
LEMMA OnlyTyped ==
  ASSUME NEW t \in Threads, NEW S, NEW f \in [Threads -> S], NEW g, Only(t, f, g, S)
  PROVE  g \in [Threads -> S] /\ \A u \in Threads \ {t} : g[u] = f[u]
  BY Zenon DEF Only

LEMMA StaticMoved ==
  ASSUME TypeInv, NEW t \in Threads, NEW s \in Slots, NEW v \in Anything, Store(t, s, v)
  PROVE  /\ static' \in [Programs -> [Slots -> Anything]]
         /\ static'[ProgramOf[t]][s] = v
         /\ \A p \in Programs, z \in Slots :
              p # ProgramOf[t] \/ z # s => static'[p][z] = static[p][z]
  BY ProgramAssumption DEF Store, TypeInv

LEMMA PlacesTyped ==
  ASSUME NEW s \in Slots
  PROVE  Places(s) \subseteq Anything /\ Named(s) \subseteq Objects
  BY DEF Places, Named, Objects, Anything

LEMMA ContentsMoved ==
  ASSUME TypeInv, NEW c \in Caches, NEW n \in Names, NEW v \in Anything,
         contents' = [contents EXCEPT ![c][n] = v]
  PROVE  /\ contents' \in [Caches -> [Names -> Anything]]
         /\ contents'[c][n] = v
         /\ \A d \in Caches, m \in Names : d # c \/ m # n => contents'[d][m] = contents[d][m]
  BY DEF TypeInv

LEMMA LockTyped ==
  ASSUME TypeInv, NEW t \in Threads, LockMove(t)
  PROVE  owner' \in [Locks -> Threads \cup {NULL}] /\ depth' \in [Locks -> Int]
<1>0. owner \in [Locks -> Threads \cup {NULL}] /\ depth \in [Locks -> Int]
  BY Zenon DEF TypeInv
<1>1. CASE owner' = owner /\ depth' = depth
  BY Zenon, <1>1 DEF TypeInv
<1>2. ASSUME NEW m, Lock(t, m)
      PROVE  owner' \in [Locks -> Threads \cup {NULL}] /\ depth' \in [Locks -> Int]
  <2>1. owner' = [owner EXCEPT ![m] = t] /\ depth' = [depth EXCEPT ![m] = depth[m] + 1]
    BY <1>2 DEF Lock
  <2>2. owner' \in [Locks -> Threads \cup {NULL}]
    BY ZenonT(60), <1>0, <2>1
  <2>3. depth' \in [Locks -> Int]
    <3>1. CASE m \in Locks
      BY <1>0, <2>1, <3>1
    <3>2. CASE m \notin Locks
      BY ZenonT(60), <1>0, <2>1, <3>2
    <3> QED
      BY Zenon, <3>1, <3>2
  <2> QED
    BY Zenon, <2>2, <2>3
<1>3. ASSUME NEW m, Unlock(t, m)
      PROVE  owner' \in [Locks -> Threads \cup {NULL}] /\ depth' \in [Locks -> Int]
  <2>1. /\ owner' = [owner EXCEPT ![m] = IF depth[m] = 1 THEN NULL ELSE owner[m]]
        /\ depth' = [depth EXCEPT ![m] = depth[m] - 1]
    BY <1>3 DEF Unlock
  <2>2. owner' \in [Locks -> Threads \cup {NULL}]
    BY ZenonT(60), <1>0, <2>1
  <2>3. depth' \in [Locks -> Int]
    <3>1. CASE m \in Locks
      BY <1>0, <2>1, <3>1
    <3>2. CASE m \notin Locks
      BY ZenonT(60), <1>0, <2>1, <3>2
    <3> QED
      BY Zenon, <3>1, <3>2
  <2> QED
    BY Zenon, <2>2, <2>3
<1> QED
  BY Zenon, <1>1, <1>2, <1>3 DEF LockMove

LEMMA StepTypes ==
  ASSUME BaseInv, NEW t \in Threads, Step(t) PROVE TypeInv'
<1> USE DEF BaseInv
<1>1. Moves(t) /\ Private(t)
  BY Zenon, StepMoves, StepPrivate
<1>2. static' \in [Programs -> [Slots -> Anything]]
  <2>1. CASE static' = static
    BY Zenon, <2>1 DEF TypeInv
  <2>2. ASSUME NEW s \in Slots, NEW v \in Places(s), Store(t, s, v)
        PROVE  static' \in [Programs -> [Slots -> Anything]]
    BY Zenon, <2>2, PlacesTyped, StaticMoved
  <2> QED
    BY Zenon, <1>1, <2>1, <2>2 DEF Moves, StaticMove
<1>3. contents' \in [Caches -> [Names -> Anything]]
  <2>0. Named("cache") \subseteq Caches /\ Named("symbols") \subseteq Caches
    BY DEF Named, Caches
  <2>1. CASE contents' = contents
    BY Zenon, <2>1 DEF TypeInv
  <2>2. ASSUME NEW c \in Named("cache"), NEW n \in Names, NEW v \in Anything,
               contents' = [contents EXCEPT ![c][n] = v]
        PROVE  contents' \in [Caches -> [Names -> Anything]]
    BY Zenon, <2>0, <2>2, ContentsMoved
  <2>3. ASSUME NEW c \in Named("symbols"), NEW n \in Names,
               contents' = [contents EXCEPT ![c][n] = DlSym(n)]
        PROVE  contents' \in [Caches -> [Names -> Anything]]
    <3>1. DlSym(n) \in Anything
      BY DEF Anything
    <3> QED
      BY Zenon, <2>0, <2>3, <3>1, ContentsMoved
  <2> QED
    BY Zenon, <1>1, <2>1, <2>2, <2>3 DEF Moves, ContentsMove
<1>4. ready' \subseteq {NULL, Absent} \cup Objects
  <2>1. \A s \in Slots : Of(t, s) \in {NULL, Absent} \cup Objects
    BY Zenon, StaticOf, PlacesTyped DEF Places
  <2>2. Mutexes \cup {"hookHandler"} \subseteq Slots
    BY DEF Slots
  <2>3. ready' = ready \/ \E s \in Slots : ready' = ready \cup {Of(t, s)}
    BY Zenon, <1>1, <2>2 DEF Moves, ReadyMove
  <2>4. ready \subseteq {NULL, Absent} \cup Objects
    BY Zenon DEF TypeInv
  <2> QED
    BY <2>1, <2>3, <2>4
<1>5. missed' \in [Threads -> Nat]
  BY <1>1 DEF Private, MissMove, TypeInv
<1>6. /\ wanted' \in [Threads -> Names] /\ answer' \in [Threads -> Anything]
      /\ r' \in [Threads -> {"ok", "not_ok", "error", "not_found"}]
  BY Zenon, <1>1, OnlyTyped DEF Private, TypeInv, Codes
<1>7. owner' \in [Locks -> Threads \cup {NULL}] /\ depth' \in [Locks -> Int]
  BY Zenon, <1>1, LockTyped DEF Moves
<1> QED
  BY Zenon, <1>2, <1>3, <1>4, <1>5, <1>6, <1>7 DEF TypeInv

(* What a step leaves alone: the variables of the other threads.           *)
LEMMA OthersStay ==
  ASSUME BaseInv, NEW t \in Threads, Step(t), NEW u \in Threads \ {t}
  PROVE  /\ pc'[u] = pc[u] /\ stack'[u] = stack[u] /\ call'[u] = call[u]
         /\ r'[u] = r[u] /\ answer'[u] = answer[u] /\ wanted'[u] = wanted[u]
         /\ missed'[u] = missed[u]
<1> USE DEF BaseInv
<1>1. Controls(t) /\ Private(t)
  BY Zenon, StepControls, StepPrivate
<1>2. r'[u] = r[u] /\ answer'[u] = answer[u] /\ wanted'[u] = wanted[u]
  <2>1. r \in [Threads -> Codes] /\ answer \in [Threads -> Anything] /\ wanted \in [Threads -> Names]
    BY Zenon DEF TypeInv, Codes
  <2>2. /\ Only(t, r, r', Codes) /\ Only(t, answer, answer', Anything)
        /\ Only(t, wanted, wanted', Names)
    BY Zenon, <1>1 DEF Private
  <2>3. r'[u] = r[u]
    BY <2>1, <2>2 DEF Only
  <2>4. answer'[u] = answer[u]
    BY <2>1, <2>2 DEF Only
  <2>5. wanted'[u] = wanted[u]
    BY <2>1, <2>2 DEF Only
  <2> QED
    BY Zenon, <2>3, <2>4, <2>5
<1>3. missed'[u] = missed[u]
  BY <1>1 DEF Private, MissMove, TypeInv
<1>4. call'[u] = call[u]
  BY <1>1 DEF Private, CallMove, FrameInv
<1>5. pc'[u] = pc[u]
  <2>1. PICK p, q : Goto(t, p, q)
    BY Zenon, <1>1 DEF Controls, Going, Serving, Asking, Seeking, Leaving, CallGlobal, Enter, Return
  <2> QED
    BY Zenon, <2>1, Goes
<1>6. stack'[u] = stack[u]
  <2>1. stack' = stack \/ \E z : stack' = [stack EXCEPT ![t] = z]
    <3>1. CASE Going(t) \/ Serving(t)
      BY Zenon, <3>1 DEF Going, Serving
    <3>2. ASSUME NEW p, NEW q, NEW b, Enter(t, p, q, b)
          PROVE  \E z : stack' = [stack EXCEPT ![t] = z]
      BY Zenon, <3>2 DEF Enter
    <3>3. ASSUME NEW p, NEW code, Return(t, p, code)
          PROVE  \E z : stack' = [stack EXCEPT ![t] = z]
      BY Zenon, <3>3 DEF Return
    <3> QED
      BY Zenon, <1>1, <3>1, <3>2, <3>3 DEF Controls, Asking, Seeking, Leaving, CallGlobal
  <2> QED
    BY <2>1 DEF FrameInv
<1> QED
  BY Zenon, <1>2, <1>3, <1>4, <1>5, <1>6

LEMMA StepData ==
  ASSUME BaseInv, NEW t \in Threads, Step(t) PROVE DataInv'
<1> USE DEF BaseInv
<1>1. Moves(t) /\ Private(t) /\ Arrives(t)
  BY Zenon, StepMoves, StepPrivate, StepArrives
<1>2. ready \subseteq ready'
  BY Zenon, <1>1 DEF Moves, ReadyMove
<1>3. ASSUME NEW p \in Programs, NEW s \in Slots
      PROVE  /\ static'[p][s] \in Places(s)
             /\ s = "cache" /\ static[p][s] # NULL => static'[p][s] # NULL
  <2>1. static[p][s] \in Places(s)
    BY Zenon DEF DataInv
  <2>2. CASE static' = static
    BY Zenon, <2>1, <2>2
  <2>3. ASSUME NEW z \in Slots, NEW v \in Places(z), z = "cache" => v # NULL, Store(t, z, v)
        PROVE  /\ static'[p][s] \in Places(s)
               /\ s = "cache" /\ static[p][s] # NULL => static'[p][s] # NULL
    <3>1. v \in Anything
      BY Zenon, PlacesTyped
    <3>2. /\ p # ProgramOf[t] \/ s # z => static'[p][s] = static[p][s]
          /\ static'[ProgramOf[t]][z] = v
      BY <2>3, <3>1, StaticMoved
    <3> QED
      BY Zenon, <2>1, <2>3, <3>2
  <2> QED
    BY Zenon, <1>1, <2>2, <2>3 DEF Moves, StaticMove
<1>4. published' \in {NULL} \cup Named("cache")
  <2>1. "cache" \in Slots /\ "cache" # "mutex"
    BY DEF Slots
  <2> QED
    BY Zenon, <1>1, <2>1, StaticOf DEF Moves, Places
<1>5. ASSUME NEW c \in Named("cache"), NEW n \in Names
      PROVE  Registered(n, contents'[c][n], ready')
  <2>1. Registered(n, contents[c][n], ready')
    BY Zenon, <1>2 DEF DataInv, Registered
  <2>2. c \in Caches /\ Named("symbols") \subseteq Caches /\ c \notin Named("symbols")
    BY DEF Named, Caches
  <2>3. CASE contents' = contents
    BY Zenon, <2>1, <2>3
  <2>4. ASSUME NEW d \in Caches, NEW m \in Names, NEW v \in Anything,
               contents' = [contents EXCEPT ![d][m] = v],
               d = c => Registered(m, v, ready')
        PROVE  Registered(n, contents'[c][n], ready')
    <3>0. contents \in [Caches -> [Names -> Anything]]
      BY Zenon DEF TypeInv
    <3>1. /\ c # d \/ n # m => contents'[c][n] = contents[c][n]
          /\ contents'[d][m] = v
      BY <2>2, <2>4, <3>0
    <3> QED
      BY Zenon, <2>1, <2>4, <3>1
  <2>5. \A m \in Names : DlSym(m) \in Anything
    BY DEF Anything
  <2>6. Named("cache") \subseteq Caches
    BY DEF Named, Caches
  <2> QED
    BY Zenon, <1>1, <2>2, <2>3, <2>4, <2>5, <2>6 DEF Moves, ContentsMove
<1>6. ASSUME NEW c \in Named("symbols"), NEW n \in Names
      PROVE  contents'[c][n] \in {Absent, DlSym(n)}
  <2>1. contents[c][n] \in {Absent, DlSym(n)}
    BY Zenon DEF DataInv
  <2>2. c \in Caches /\ Named("symbols") \subseteq Caches /\ c \notin Named("cache")
    BY DEF Named, Caches
  <2>3. CASE contents' = contents
    BY Zenon, <2>1, <2>3
  <2>4. ASSUME NEW d \in Caches, NEW m \in Names, NEW v \in Anything,
               contents' = [contents EXCEPT ![d][m] = v],
               d = c => v = DlSym(m)
        PROVE  contents'[c][n] \in {Absent, DlSym(n)}
    <3>0. contents \in [Caches -> [Names -> Anything]]
      BY Zenon DEF TypeInv
    <3>1. /\ c # d \/ n # m => contents'[c][n] = contents[c][n]
          /\ contents'[d][m] = v
      BY <2>2, <2>4, <3>0
    <3> QED
      BY Zenon, <2>1, <2>4, <3>1
  <2>5. \A m \in Names : DlSym(m) \in Anything
    BY DEF Anything
  <2>6. Named("cache") \subseteq Caches
    BY DEF Named, Caches
  <2> QED
    BY Zenon, <1>1, <2>2, <2>3, <2>4, <2>5, <2>6 DEF Moves, ContentsMove
<1>7. ASSUME NEW u \in Threads
      PROVE  /\ pc'[u] \in CachePcs => Of(u, "cache")' # NULL
             /\ call'[u].kind = "set" => Registered(call'[u].name, call'[u].value, ready')
             /\ pc'[u] = "unlock_symbols" => answer'[u] = DlSym(wanted'[u])
  <2>1. Of(u, "cache") # NULL => Of(u, "cache")' # NULL
    <3>1. ProgramOf[u] \in Programs /\ "cache" \in Slots
      BY ProgramAssumption DEF Slots
    <3> QED
      BY Zenon, <1>3, <3>1 DEF Of
  <2>2. call[u].kind = "set" => Registered(call[u].name, call[u].value, ready')
    BY Zenon, <1>2 DEF DataInv, Registered
  <2>3. CASE u # t
    BY ZenonT(60), <2>1, <2>2, <2>3, OthersStay DEF DataInv
  <2>4. CASE u = t
    <3>1. call'[t].kind = "set" => Registered(call'[t].name, call'[t].value, ready')
      <4>1. CASE call' = call
        BY Zenon, <2>2, <2>4, <4>1
      <4>2. ASSUME NEW c \in CallRecords, call' = [call EXCEPT ![t] = c],
                   c.kind = "set" => Registered(c.name, c.value, ready')
            PROVE  call'[t].kind = "set" => Registered(call'[t].name, call'[t].value, ready')
        <5>1. call'[t] = c
          BY <4>2 DEF FrameInv
        <5> QED
          BY Zenon, <4>2, <5>1
      <4> QED
        BY Zenon, <1>1, <4>1, <4>2 DEF Private, CallMove
    <3> QED
      BY Zenon, <1>1, <2>1, <2>4, <3>1 DEF Arrives, DataInv
  <2> QED
    BY Zenon, <2>3, <2>4
<1> QED
  BY Zenon, <1>3, <1>4, <1>5, <1>6, <1>7 DEF DataInv

LEMMA StepBase ==
  ASSUME BaseInv, NEW t \in Threads, Step(t) PROVE BaseInv'
  BY Zenon, StepFrames, StepTypes, StepData DEF BaseInv

LEMMA BaseInductive == BaseInv /\ [Next]_allVars => BaseInv'
<1> SUFFICES ASSUME BaseInv, [Next]_allVars PROVE BaseInv'
  OBVIOUS
<1>1. CASE Next
  BY Zenon, <1>1, StepBase DEF Next
<1>2. CASE UNCHANGED allVars
  BY Zenon, <1>2 DEF allVars, lookUpVars, vars, shared, BaseInv, FrameInv, TypeInv, DataInv, Of
<1> QED
  BY Zenon, <1>1, <1>2

LEMMA BaseInit == Init => BaseInv
<1> SUFFICES ASSUME Init PROVE BaseInv
  OBVIOUS
<1>1. "cache" \in Names /\ NULL \in Anything /\ Absent \in Anything /\ "idle" \in Labels
  BY DEF Names, Slots, Anything, Labels, HomePcs
<1>2. FrameInv
  <2>1. [kind |-> "get", name |-> "cache", value |-> NULL] \in CallRecords
    BY <1>1 DEF CallRecords
  <2>2. pc \in [Threads -> Labels] /\ \A t \in Threads : pc[t] = "idle"
    BY <1>1 DEF Init
  <2>3. stack \in [Threads -> Seq(Labels)] /\ \A t \in Threads : stack[t] = <<>>
    BY DEF Init
  <2>4. call \in [Threads -> CallRecords]
    BY <2>1 DEF Init
  <2> QED
    BY Zenon, <2>2, <2>3, <2>4 DEF FrameInv, Frame, HomePcs
<1>3. TypeInv
  <2>1. static \in [Programs -> [Slots -> Anything]]
    BY <1>1 DEF Init
  <2>2. contents \in [Caches -> [Names -> Anything]]
    BY <1>1 DEF Init
  <2>3. owner \in [Locks -> Threads \cup {NULL}] /\ depth \in [Locks -> Int]
    BY DEF Init
  <2>4. /\ wanted \in [Threads -> Names] /\ answer \in [Threads -> Anything]
        /\ missed \in [Threads -> Nat]
        /\ r \in [Threads -> {"ok", "not_ok", "error", "not_found"}]
    BY <1>1 DEF Init
  <2>5. ready \subseteq {NULL, Absent} \cup Objects
    BY DEF Init
  <2> QED
    BY Zenon, <2>1, <2>2, <2>3, <2>4, <2>5 DEF TypeInv
<1>4. DataInv
  <2>1. \A p \in Programs, s \in Slots : static[p][s] \in Places(s)
    BY DEF Init, Places
  <2>2. \A c \in Caches, n \in Names : contents[c][n] = Absent
    BY DEF Init
  <2>3. Named("cache") \subseteq Caches /\ Named("symbols") \subseteq Caches
    BY DEF Named, Caches
  <2>4. \A t \in Threads : pc[t] = "idle" /\ call[t].kind = "get"
    BY Zenon DEF Init
  <2>5. published = NULL
    BY DEF Init
  <2> QED
    BY Zenon, <2>1, <2>2, <2>3, <2>4, <2>5 DEF DataInv, Registered, CachePcs, GlobalPcs,
       RegistryPcs, EntryPcs
<1> QED
  BY Zenon, <1>2, <1>3, <1>4 DEF BaseInv

-----------------------------------------------------------------------------
(* How often a thread holds Giant: once in a first use of the hooks or of  *)
(* the symbols, there also while it is in the registry, and once more in   *)
(* the first use of the registry.                                          *)
FreePcs == {"idle", "first", "lock_symbols"} \cup CreatePcs \cup InsidePcs
OnePcs == MakePcs \cup FirstPcs
Beneath(s) == IF Head(s) = "idle" THEN 0 ELSE 1
GiantDepth(p, s) ==
  IF p \in GlobalPcs THEN Beneath(s) + (IF p \in RegistryPcs THEN 1 ELSE 0)
  ELSE IF p \in OnePcs THEN 1 ELSE 0

GiantInv ==
  /\ IF owner[Giant] = NULL THEN depth[Giant] = 0 ELSE depth[Giant] >= 1
  /\ \A t \in Threads :
       pc[t] # "fault" =>
         GiantDepth(pc[t], stack[t]) = IF owner[Giant] = t THEN depth[Giant] ELSE 0

Still == owner'[Giant] = owner[Giant] /\ depth'[Giant] = depth[Giant]
Deeper(t, d) == GiantDepth(pc'[t], stack'[t]) = GiantDepth(pc[t], stack[t]) + d
GiantMove(t) ==
  \/ Still /\ (pc'[t] = "fault" \/ Deeper(t, 0))
  \/ Lock(t, Giant) /\ Deeper(t, 1)
  \/ Unlock(t, Giant) /\ Deeper(t, -1)

LEMMA FreeDepth ==
  ASSUME NEW p \in FreePcs, NEW s PROVE GiantDepth(p, s) = 0
<1>1. p \notin GlobalPcs /\ p \notin OnePcs
  BY Zenon DEF FreePcs, CreatePcs, InsidePcs, GlobalPcs, RegistryPcs, EntryPcs, OnePcs, MakePcs,
     FirstPcs
<1> QED
  BY Zenon, <1>1 DEF GiantDepth

LEMMA OneDepth ==
  ASSUME NEW p \in OnePcs, NEW s PROVE GiantDepth(p, s) = 1
<1>1. p \notin GlobalPcs
  BY Zenon DEF GlobalPcs, RegistryPcs, EntryPcs, OnePcs, MakePcs, FirstPcs
<1> QED
  BY Zenon, <1>1 DEF GiantDepth

LEMMA PlainDepth ==
  ASSUME NEW p \in {"lock_giant", "lock"} \cup EntryPcs, NEW s
  PROVE  GiantDepth(p, s) = Beneath(s) /\ Beneath(s) \in {0, 1}
<1>1. p \in GlobalPcs /\ p \notin RegistryPcs
  BY Zenon DEF GlobalPcs, RegistryPcs, EntryPcs
<1> QED
  BY <1>1 DEF GiantDepth, Beneath

LEMMA RegistryDepth ==
  ASSUME NEW p \in RegistryPcs, NEW s
  PROVE  GiantDepth(p, s) = Beneath(s) + 1 /\ Beneath(s) \in {0, 1}
<1>1. p \in GlobalPcs
  BY Zenon DEF GlobalPcs
<1> QED
  BY <1>1 DEF GiantDepth, Beneath

(* The place below a call of the registry holds Giant as the call does.    *)
LEMMA BackDepth ==
  ASSUME FrameInv, NEW t \in Threads, pc[t] \in GlobalPcs, NEW s
  PROVE  GiantDepth(Head(stack[t]), s) = Beneath(stack[t])
<1>1. PICK b \in Labels, z \in Seq(Labels) : stack[t] = <<b>> \o z /\ Under(b, z)
  BY Zenon DEF FrameInv, Frame, InGlobal, HomePcs, CreatePcs, MakePcs, LookUpPcs, FirstPcs,
     InsidePcs, GlobalPcs, RegistryPcs, EntryPcs
<1>2. Head(stack[t]) = b
  BY Zenon, <1>1, Pushed
<1>3. b = "idle" \/ (b # "idle" /\ b \in OnePcs)
  BY Zenon, <1>1 DEF Under, MakeBacks, FirstBacks, OnePcs, MakePcs, FirstPcs
<1>4. "idle" \in FreePcs
  BY DEF FreePcs
<1> QED
  BY Zenon, <1>2, <1>3, <1>4, FreeDepth, OneDepth DEF Beneath

(* Places between which Giant is neither locked nor unlocked.              *)
Alike(p, q) ==
  \/ q = "fault"
  \/ p \in FreePcs /\ q \in FreePcs
  \/ p \in OnePcs /\ q \in OnePcs
  \/ p \in {"lock"} \cup EntryPcs /\ q \in EntryPcs
  \/ p \in RegistryPcs /\ q \in RegistryPcs

LEMMA AlikeMove ==
  ASSUME FrameInv, NEW t \in Threads, NEW p, NEW q, Goto(t, p, q), stack' = stack, Alike(p, q),
         Still
  PROVE  GiantMove(t)
<1>1. pc[t] = p /\ pc'[t] = q
  BY Zenon, Goes
<1>2. q # "fault" => GiantDepth(q, stack[t]) = GiantDepth(p, stack[t])
  BY ZenonT(60), FreeDepth, OneDepth, PlainDepth, RegistryDepth DEF Alike
<1>3. GiantDepth(p, stack[t]) \in Int
  BY DEF GiantDepth, Beneath
<1> QED
  BY <1>1, <1>2, <1>3 DEF GiantMove, Deeper

LEMMA SlotStill ==
  ASSUME TypeInv, NEW t, NEW m, Usable(m), Lock(t, m) \/ Unlock(t, m) PROVE Still
<1>1. m # Giant /\ Giant \in Locks
  <2>1. m \in {NULL, Absent} \cup Objects
    BY Zenon DEF Usable, TypeInv
  <2>2. Giant \notin Objects
    BY DEF Giant, Objects, Slots, Mutexes
  <2>3. Giant \in Locks
    BY DEF Locks
  <2> QED
    BY Zenon, <2>1, <2>2, <2>3, ProgramAssumption
<1> QED
  BY <1>1 DEF Lock, Unlock, Still, TypeInv

LEMMA LockSlotMove ==
  ASSUME BaseInv, NEW t \in Threads, NEW slot, NEW p, NEW q, LockSlot(t, slot, p, q), Alike(p, q)
  PROVE  GiantMove(t)
<1> USE DEF BaseInv
<1>1. Alike(p, "fault")
  BY Zenon DEF Alike
<1>2. CASE Goto(t, p, q) /\ Usable(Of(t, slot)) /\ Lock(t, Of(t, slot)) /\ stack' = stack
  <2>1. Still
    BY Zenon, <1>2, SlotStill
  <2> QED
    BY Zenon, <1>2, <2>1, AlikeMove
<1>3. CASE Fault(t, p)
  <2>1. Still /\ Goto(t, p, "fault") /\ stack' = stack
    BY Zenon, <1>3 DEF Fault, shared, Still
  <2> QED
    BY Zenon, <1>1, <2>1, AlikeMove
<1> QED
  BY Zenon, <1>2, <1>3 DEF LockSlot

LEMMA Enters ==
  ASSUME FrameInv, NEW t \in Threads, NEW p, NEW q, NEW b \in Labels, Enter(t, p, q, b)
  PROVE  /\ pc[t] = p /\ pc'[t] = q /\ stack'[t] = <<b>> \o stack[t] /\ stack[t] \in Seq(Labels)
         /\ Head(stack'[t]) = b /\ Tail(stack'[t]) = stack[t]
<1>1. stack'[t] = <<b>> \o stack[t] /\ stack[t] \in Seq(Labels)
  BY DEF Enter, FrameInv
<1>2. pc[t] = p /\ pc'[t] = q
  BY Zenon, Goes DEF Enter
<1> QED
  BY Zenon, <1>1, <1>2, Pushed

LEMMA CallGiant ==
  ASSUME FrameInv, NEW t \in Threads, NEW p, NEW kind, NEW name, NEW v, NEW b \in Labels,
         CallGlobal(t, p, kind, name, v, b), Still,
         (p = "idle" /\ b = "idle") \/ (p \in OnePcs /\ b # "idle")
  PROVE  GiantMove(t)
<1>1. PICK q \in {"lock_giant", "lock"} : Enter(t, p, q, b)
  BY Zenon DEF CallGlobal
<1>2. pc[t] = p /\ pc'[t] = q /\ Head(stack'[t]) = b
  BY Zenon, <1>1, Enters
<1>3. GiantDepth(pc'[t], stack'[t]) = IF b = "idle" THEN 0 ELSE 1
  BY Zenon, <1>2, PlainDepth DEF Beneath
<1>4. "idle" \in FreePcs
  BY DEF FreePcs
<1>5. GiantDepth(pc[t], stack[t]) = IF b = "idle" THEN 0 ELSE 1
  BY Zenon, <1>2, <1>4, FreeDepth, OneDepth
<1> QED
  BY <1>3, <1>5 DEF GiantMove, Deeper

LEMMA LookUpGiant ==
  ASSUME FrameInv, NEW t \in Threads, NEW p \in {"idle", "use"}, NEW name, NEW b \in LookUpBacks,
         CallLookUp(t, p, name, b)
  PROVE  GiantMove(t)
<1>1. PICK q \in {"first", "lock_symbols"} : Enter(t, p, q, b)
  BY Zenon DEF CallLookUp
<1>2. Still /\ b \in Labels /\ p \in FreePcs /\ q \in FreePcs
  BY Zenon DEF CallLookUp, shared, Still, LookUpBacks, Labels, HomePcs, CreatePcs, FreePcs
<1>3. pc[t] = p /\ pc'[t] = q
  BY Zenon, <1>1, <1>2, Enters
<1>4. GiantDepth(pc'[t], stack'[t]) = 0 /\ GiantDepth(pc[t], stack[t]) = 0
  BY Zenon, <1>2, <1>3, FreeDepth
<1> QED
  BY <1>2, <1>4 DEF GiantMove, Deeper

LEMMA LockGiantMove ==
  ASSUME FrameInv, NEW t \in Threads, NEW p, NEW q, LockGiant(t, p, q),
         (p \in FreePcs /\ q \in OnePcs) \/ (p = "lock_giant" /\ q = "sysctl")
  PROVE  GiantMove(t)
<1>1. Goto(t, p, q) /\ stack' = stack /\ Lock(t, Giant)
  BY Zenon DEF LockGiant
<1>2. pc[t] = p /\ pc'[t] = q
  BY Zenon, <1>1, Goes
<1>3. CASE p \in FreePcs /\ q \in OnePcs
  <2>1. GiantDepth(p, stack[t]) = 0 /\ GiantDepth(q, stack[t]) = 1
    BY Zenon, <1>3, FreeDepth, OneDepth
  <2> QED
    BY <1>1, <1>2, <2>1 DEF GiantMove, Deeper
<1>4. CASE p = "lock_giant" /\ q = "sysctl"
  <2>0. "sysctl" \in RegistryPcs
    BY DEF RegistryPcs
  <2>1. GiantDepth(p, stack[t]) = Beneath(stack[t])
    BY Zenon, <1>4, PlainDepth
  <2>2. GiantDepth(q, stack[t]) = Beneath(stack[t]) + 1
    BY Zenon, <1>4, <2>0, RegistryDepth
  <2> QED
    BY <1>1, <1>2, <2>1, <2>2 DEF GiantMove, Deeper
<1> QED
  BY Zenon, <1>3, <1>4

LEMMA UnlockGiantMove ==
  ASSUME FrameInv, NEW t \in Threads, NEW p \in OnePcs, NEW q \in FreePcs, Goto(t, p, q),
         Unlock(t, Giant), stack' = stack
  PROVE  GiantMove(t)
<1>1. pc[t] = p /\ pc'[t] = q
  BY Zenon, Goes
<1>2. GiantDepth(p, stack[t]) = 1 /\ GiantDepth(q, stack[t]) = 0
  BY Zenon, FreeDepth, OneDepth
<1> QED
  BY <1>1, <1>2 DEF GiantMove, Deeper

LEMMA Returns ==
  ASSUME FrameInv, NEW t \in Threads, NEW p \in GlobalPcs \cup InsidePcs, NEW code,
         Return(t, p, code)
  PROVE  pc[t] = p /\ pc'[t] = Head(stack[t]) /\ stack'[t] = Tail(stack[t])
<1>1. Goto(t, p, Head(stack[t])) /\ stack' = [stack EXCEPT ![t] = Tail(stack[t])]
  BY DEF Return
<1>2. stack'[t] = Tail(stack[t])
  BY <1>1 DEF FrameInv
<1> QED
  BY Zenon, <1>1, <1>2, Goes

(* ps4KernelCacheGlobalInitialize unlocks Giant, and leaves on failure.    *)
LEMMA InitializeGiantMove ==
  ASSUME BaseInv, NEW t \in Threads, Initialize(t) PROVE GiantMove(t)
<1> USE DEF BaseInv
<1>1. CASE LockGiant(t, "lock_giant", "sysctl")
  BY Zenon, <1>1, LockGiantMove
<1>2. CASE ~LockGiant(t, "lock_giant", "sysctl") /\ ~InitializeUnlock(t)
  <2>1. PICK p \in RegistryPcs, q \in RegistryPcs : Goto(t, p, q)
    BY Zenon, <1>2 DEF Initialize, InitializeCache, InitializeClear, InitializeLoad,
       InitializeAllocate, InitializeMutex, InitializePublish, RegistryPcs
  <2>2. stack' = stack /\ Still
    BY Zenon, <1>2 DEF Initialize, InitializeCache, InitializeClear, InitializeLoad,
       InitializeAllocate, InitializeMutex, InitializePublish, Still
  <2>3. Alike(p, q)
    BY Zenon DEF Alike
  <2> QED
    BY Zenon, <2>1, <2>2, <2>3, AlikeMove
<1>3. CASE InitializeUnlock(t)
  <2>0. "unlock_giant" \in RegistryPcs /\ "unlock_giant" \in GlobalPcs
    BY DEF RegistryPcs, GlobalPcs
  <2>1. Unlock(t, Giant)
    BY Zenon, <1>3 DEF InitializeUnlock
  <2>2. pc[t] = "unlock_giant"
    BY Zenon, <1>3 DEF InitializeUnlock, Return, Goto
  <2>3. /\ GiantDepth(pc[t], stack[t]) = Beneath(stack[t]) + 1
        /\ Beneath(stack[t]) \in {0, 1}
    BY Zenon, <2>0, <2>2, RegistryDepth
  <2>4. GiantDepth(pc'[t], stack'[t]) = Beneath(stack[t])
    <3>1. CASE Goto(t, "unlock_giant", "lock") /\ stack' = stack
      <4>1. pc'[t] = "lock" /\ stack'[t] = stack[t]
        BY Zenon, <3>1, Goes
      <4> QED
        BY Zenon, <4>1, PlainDepth
    <3>2. CASE Return(t, "unlock_giant", r[t])
      <4>1. pc'[t] = Head(stack[t])
        BY Zenon, <2>0, <3>2, Returns
      <4> QED
        BY Zenon, <2>0, <2>2, <4>1, BackDepth
    <3> QED
      BY Zenon, <1>3, <3>1, <3>2 DEF InitializeUnlock
  <2> QED
    BY <2>1, <2>3, <2>4 DEF GiantMove, Deeper
<1> QED
  BY Zenon, <1>1, <1>2, <1>3

LEMMA GlobalGiantMove ==
  ASSUME BaseInv, NEW t \in Threads, Global(t) PROVE GiantMove(t)
<1> USE DEF BaseInv
<1>1. CASE GlobalLock(t)
  <2>1. call[t].kind \in {"get", "set", "delete"}
    BY DEF FrameInv, CallRecords
  <2>2. Alike("lock", call[t].kind)
    BY Zenon, <2>1 DEF Alike, EntryPcs
  <2> QED
    BY Zenon, <1>1, <2>2, LockSlotMove DEF GlobalLock
<1>2. CASE GlobalClear(t) \/ GlobalLoad(t) \/ GlobalSet(t) \/ GlobalDelete(t)
  <2>1. PICK p \in EntryPcs, q \in EntryPcs : Goto(t, p, q)
    BY Zenon, <1>2 DEF GlobalClear, GlobalLoad, GlobalSet, GlobalDelete, EntryPcs
  <2>2. stack' = stack /\ Still
    BY Zenon, <1>2 DEF GlobalClear, GlobalLoad, GlobalSet, GlobalDelete, Still
  <2>3. Alike(p, q)
    BY Zenon DEF Alike
  <2> QED
    BY Zenon, <2>1, <2>2, <2>3, AlikeMove
<1>3. CASE GlobalUnlock(t)
  <2>0. "unlock" \in EntryPcs /\ "unlock" \in GlobalPcs
    BY DEF EntryPcs, GlobalPcs
  <2>1. CASE /\ Held(t, Of(t, "mutex")) /\ Unlock(t, Of(t, "mutex"))
             /\ Return(t, "unlock", r[t])
    <3>1. Still
      BY Zenon, <2>1, SlotStill DEF Held
    <3>2. pc[t] = "unlock" /\ pc'[t] = Head(stack[t])
      BY Zenon, <2>0, <2>1, Returns
    <3>3. /\ GiantDepth(pc[t], stack[t]) = Beneath(stack[t])
          /\ Beneath(stack[t]) \in {0, 1}
      BY Zenon, <2>0, <3>2, PlainDepth
    <3>4. GiantDepth(pc'[t], stack'[t]) = Beneath(stack[t])
      BY Zenon, <2>0, <3>2, BackDepth
    <3> QED
      BY <3>1, <3>3, <3>4 DEF GiantMove, Deeper
  <2>2. CASE Fault(t, "unlock")
    <3>1. Still /\ Goto(t, "unlock", "fault") /\ stack' = stack /\ Alike("unlock", "fault")
      BY Zenon, <2>2 DEF Fault, shared, Still, Alike
    <3> QED
      BY Zenon, <3>1, AlikeMove
  <2> QED
    BY Zenon, <1>3, <2>1, <2>2 DEF GlobalUnlock, UnlockSlot
<1> QED
  BY Zenon, <1>1, <1>2, <1>3 DEF Global

LEMMA HookGiantMove ==
  ASSUME BaseInv, NEW t \in Threads,
         \/ InitializeHook(t)
         \/ LockSlot(t, "hookMutex", "lock_hooks", "use")
         \/ CreateUnlock(t)
  PROVE  GiantMove(t)
<1> USE DEF BaseInv
<1>1. CASE LockGiant(t, "initialize", "has_giant")
  BY Zenon, <1>1, LockGiantMove DEF FreePcs, CreatePcs, OnePcs, MakePcs
<1>2. CASE Goto(t, "initialize", "idle") /\ UNCHANGED <<shared, stack>>
  <2>1. Still /\ stack' = stack /\ Alike("initialize", "idle")
    BY Zenon, <1>2 DEF shared, Still, Alike, FreePcs, CreatePcs
  <2> QED
    BY Zenon, <1>2, <2>1, AlikeMove
<1>3. ASSUME NEW p \in OnePcs, NEW q \in OnePcs, Goto(t, p, q), stack' = stack,
             UNCHANGED <<owner, depth>>
      PROVE  GiantMove(t)
  <2>1. Still /\ Alike(p, q)
    BY Zenon, <1>3 DEF Still, Alike
  <2> QED
    BY Zenon, <1>3, <2>1, AlikeMove
<1>4. ASSUME NEW p \in OnePcs, NEW kind, NEW name, NEW v, NEW b \in MakeBacks,
             CallGlobal(t, p, kind, name, v, b), UNCHANGED <<owner, depth>>
      PROVE  GiantMove(t)
  <2>1. Still /\ b \in Labels /\ b # "idle"
    BY Zenon, <1>4 DEF Still, MakeBacks, Labels, HomePcs, MakePcs
  <2> QED
    BY Zenon, <1>4, <2>1, CallGiant
<1>5. CASE \/ InitializeGet(t, "hookMutex", "has_giant", "got_hookMutex", "has_mutex")
           \/ InitializeGet(t, "hookHandler", "has_mutex", "got_hookHandler", "leave_initialize")
  BY Zenon, <1>3, <1>4, <1>5 DEF InitializeGet, shared, OnePcs, MakePcs, MakeBacks
<1>6. CASE \/ InitializeMake(t, "hookMutex", "got_hookMutex", "init_hookMutex", "has_mutex")
           \/ InitializeMake(t, "hookHandler", "got_hookHandler", "init_hookHandler", "leave_initialize")
  BY Zenon, <1>3, <1>6 DEF InitializeMake, OnePcs, MakePcs
<1>7. CASE \/ InitializeReady(t, "hookMutex", "init_hookMutex", "has_mutex")
           \/ InitializeReady(t, "hookHandler", "init_hookHandler", "leave_initialize")
  BY Zenon, <1>4, <1>7 DEF InitializeReady, OnePcs, MakePcs, MakeBacks
<1>8. CASE InitializeLeave(t)
  BY Zenon, <1>8, UnlockGiantMove DEF InitializeLeave, OnePcs, MakePcs, FreePcs, CreatePcs
<1>9. CASE LockSlot(t, "hookMutex", "lock_hooks", "use")
  <2>1. Alike("lock_hooks", "use")
    BY Zenon DEF Alike, FreePcs, CreatePcs
  <2> QED
    BY Zenon, <1>9, <2>1, LockSlotMove
<1>10. CASE CreateUnlock(t)
  <2>1. Alike("unlock_hooks", "idle") /\ Alike("unlock_hooks", "fault")
    BY Zenon DEF Alike, FreePcs, CreatePcs
  <2>2. CASE /\ Held(t, Of(t, "hookMutex")) /\ Unlock(t, Of(t, "hookMutex"))
             /\ Goto(t, "unlock_hooks", "idle") /\ stack' = stack
    <3>1. Still
      BY Zenon, <2>2, SlotStill DEF Held
    <3> QED
      BY Zenon, <2>1, <2>2, <3>1, AlikeMove
  <2>3. CASE Fault(t, "unlock_hooks")
    <3>1. Still /\ Goto(t, "unlock_hooks", "fault") /\ stack' = stack
      BY Zenon, <2>3 DEF Fault, shared, Still
    <3> QED
      BY Zenon, <2>1, <3>1, AlikeMove
  <2> QED
    BY Zenon, <1>10, <2>2, <2>3 DEF CreateUnlock
<1> QED
  BY Zenon, <1>1, <1>2, <1>5, <1>6, <1>7, <1>8, <1>9, <1>10 DEF InitializeHook, InitializeGiant

LEMMA LookUpGiantMove ==
  ASSUME BaseInv, NEW t \in Threads, LookUp(t) \/ CreateUse(t) PROVE GiantMove(t)
<1> USE DEF BaseInv
<1>1. CASE LockGiant(t, "first", "get_symbols")
  BY Zenon, <1>1, LockGiantMove DEF FreePcs, OnePcs, FirstPcs
<1>2. ASSUME NEW p \in OnePcs, NEW kind, NEW name, NEW v, NEW b \in FirstBacks,
             CallGlobal(t, p, kind, name, v, b), UNCHANGED <<owner, depth>>
      PROVE  GiantMove(t)
  <2>1. Still /\ b \in Labels /\ b # "idle"
    BY Zenon, <1>2 DEF Still, FirstBacks, Labels, LookUpPcs, FirstPcs
  <2> QED
    BY Zenon, <1>2, <2>1, CallGiant
<1>3. CASE LookUpGetCache(t) \/ LookUpGetMutex(t) \/ LookUpCreate(t) \/ LookUpInit(t)
  BY Zenon, <1>2, <1>3 DEF LookUpGetCache, LookUpGetMutex, LookUpCreate, LookUpInit, shared,
     OnePcs, FirstPcs, FirstBacks
<1>4. CASE LookUpAllocate(t)
  <2>1. Still /\ stack' = stack /\ Alike("allocate_symbolsMutex", "init_symbolsMutex")
    BY Zenon, <1>4 DEF LookUpAllocate, Still, Alike, OnePcs, FirstPcs
  <2> QED
    BY Zenon, <1>4, <2>1, AlikeMove DEF LookUpAllocate
<1>5. CASE LookUpLeaveFirst(t)
  BY Zenon, <1>5, UnlockGiantMove DEF LookUpLeaveFirst, OnePcs, FirstPcs, FreePcs
<1>6. CASE LockSlot(t, "symbolsMutex", "lock_symbols", "find")
  <2>1. Alike("lock_symbols", "find")
    BY Zenon DEF Alike, FreePcs, InsidePcs
  <2> QED
    BY Zenon, <1>6, <2>1, LockSlotMove
<1>7. CASE LookUpFind(t)
  <2>1. PICK q \in FreePcs : Goto(t, "find", q)
    BY Zenon, <1>7 DEF LookUpFind, FreePcs, InsidePcs
  <2>2. Still /\ stack' = stack /\ Alike("find", q)
    BY Zenon, <1>7 DEF LookUpFind, shared, Still, Alike, FreePcs, InsidePcs
  <2> QED
    BY Zenon, <2>1, <2>2, AlikeMove
<1>8. ASSUME NEW p \in InsidePcs, NEW code, Return(t, p, code), Still
      PROVE  GiantMove(t)
  <2>1. pc[t] = p /\ pc'[t] = Head(stack[t])
    BY Zenon, <1>8, Returns
  <2>2. PICK b \in LookUpBacks : stack[t] = <<b>>
    BY Zenon, <2>1 DEF FrameInv, Frame, InGlobal, HomePcs, CreatePcs, MakePcs, InsidePcs, GlobalPcs,
       RegistryPcs, EntryPcs
  <2>3. Head(stack[t]) = b
    BY <2>2
  <2>4. p \in FreePcs /\ b \in FreePcs
    BY Zenon DEF FreePcs, LookUpBacks, CreatePcs
  <2>5. GiantDepth(pc[t], stack[t]) = 0 /\ GiantDepth(pc'[t], stack'[t]) = 0
    BY Zenon, <2>1, <2>3, <2>4, FreeDepth
  <2> QED
    BY <1>8, <2>5 DEF GiantMove, Deeper
<1>9. CASE UnlockSlot(t, "symbolsMutex", "unlock_symbols", "ok")
  <2>1. CASE /\ Held(t, Of(t, "symbolsMutex")) /\ Unlock(t, Of(t, "symbolsMutex"))
             /\ Return(t, "unlock_symbols", "ok")
    BY Zenon, <1>8, <2>1, SlotStill DEF Held, InsidePcs
  <2>2. CASE Fault(t, "unlock_symbols")
    <3>1. /\ Still /\ Goto(t, "unlock_symbols", "fault") /\ stack' = stack
          /\ Alike("unlock_symbols", "fault")
      BY Zenon, <2>2 DEF Fault, shared, Still, Alike
    <3> QED
      BY Zenon, <3>1, AlikeMove
  <2> QED
    BY Zenon, <1>9, <2>1, <2>2 DEF UnlockSlot
<1>10. CASE LookUpMiss(t)
  <2>1. Still
    BY Zenon, <1>10 DEF LookUpMiss, Still
  <2>2. CASE Goto(t, "miss", "unlock_symbols") /\ stack' = stack
    <3>1. Alike("miss", "unlock_symbols")
      BY Zenon DEF Alike, FreePcs, InsidePcs
    <3> QED
      BY Zenon, <2>1, <2>2, <3>1, AlikeMove
  <2>3. CASE Return(t, "miss", "not_found")
    BY Zenon, <1>8, <2>1, <2>3 DEF InsidePcs
  <2> QED
    BY Zenon, <1>10, <2>2, <2>3 DEF LookUpMiss
<1>11. CASE CreateUse(t)
  BY Zenon, <1>11, LookUpGiant DEF CreateUse, LookUpBacks
<1> QED
  BY Zenon, <1>1, <1>3, <1>4, <1>5, <1>6, <1>7, <1>9, <1>10, <1>11 DEF LookUp, LookUpFirst

LEMMA StepGiantMove ==
  ASSUME BaseInv, NEW t \in Threads, Step(t) PROVE GiantMove(t)
<1> USE DEF BaseInv
<1>1. CASE /\ \E n \in ClientNames, kind \in Work[t] \cap {"get", "set", "delete"} :
                \E v \in IF kind = "set" THEN Values ELSE {NULL} :
                  CallGlobal(t, "idle", kind, n, v, "idle")
           /\ UNCHANGED shared
  <2>1. Still /\ "idle" \in Labels
    BY Zenon, <1>1 DEF shared, Still, Labels, HomePcs
  <2> QED
    BY Zenon, <1>1, <2>1, CallGiant
<1>2. CASE \E n \in Work[t] \cap KernelNames : CallLookUp(t, "idle", n, "idle")
  BY Zenon, <1>2, LookUpGiant DEF LookUpBacks
<1>3. CASE CallCreate(t)
  <2>1. CASE CallLookUp(t, "idle", "Giant", "initialize")
    BY Zenon, <2>1, LookUpGiant DEF LookUpBacks
  <2>2. CASE Goto(t, "idle", "lock_hooks") /\ UNCHANGED <<shared, stack>>
    <3>1. Still /\ stack' = stack /\ Alike("idle", "lock_hooks")
      BY Zenon, <2>2 DEF shared, Still, Alike, FreePcs, CreatePcs
    <3> QED
      BY Zenon, <2>2, <3>1, AlikeMove
  <2> QED
    BY Zenon, <1>3, <2>1, <2>2 DEF CallCreate
<1>4. CASE Begin(t)
  BY Zenon, <1>1, <1>2, <1>3, <1>4 DEF Begin
<1> QED
  BY Zenon, <1>4, InitializeGiantMove, GlobalGiantMove, HookGiantMove, LookUpGiantMove DEF Step

LEMMA GiantStep ==
  ASSUME BaseInv, GiantInv, NEW t \in Threads, Step(t) PROVE GiantInv'
<1> USE DEF BaseInv
<1>0. /\ owner \in [Locks -> Threads \cup {NULL}] /\ depth \in [Locks -> Int] /\ Giant \in Locks
      /\ t # NULL /\ pc[t] # "fault"
  BY Zenon, ProgramAssumption DEF TypeInv, Locks, Step, Stopped
<1>1. PICK d : d = GiantDepth(pc[t], stack[t])
  OBVIOUS
<1>2. d = IF owner[Giant] = t THEN depth[Giant] ELSE 0
  BY Zenon, <1>0, <1>1 DEF GiantInv
<1>3. \A u \in Threads \ {t} : GiantDepth(pc'[u], stack'[u]) = GiantDepth(pc[u], stack[u]) /\ pc'[u] = pc[u]
  BY Zenon, OthersStay
<1>4. CASE Still /\ (pc'[t] = "fault" \/ Deeper(t, 0))
  <2>1. pc'[t] # "fault" => GiantDepth(pc'[t], stack'[t]) = d
    BY <1>0, <1>1, <1>2, <1>4 DEF Deeper
  <2> QED
    BY Zenon, <1>2, <1>3, <1>4, <2>1 DEF Still, GiantInv
<1>5. CASE Lock(t, Giant) /\ Deeper(t, 1)
  <2>1. owner[Giant] \in {NULL, t} /\ owner'[Giant] = t /\ depth'[Giant] = depth[Giant] + 1
    BY <1>0, <1>5 DEF Lock
  <2>2. depth[Giant] >= 0 /\ depth[Giant] \in Int /\ depth[Giant] = d
    BY <1>0, <1>2, <2>1 DEF GiantInv
  <2>3. GiantDepth(pc'[t], stack'[t]) = depth'[Giant] /\ depth'[Giant] >= 1
    BY <1>1, <1>5, <2>1, <2>2 DEF Deeper
  <2>4. \A u \in Threads \ {t} : pc[u] # "fault" => GiantDepth(pc[u], stack[u]) = 0
    BY Zenon, <1>0, <2>1, ProgramAssumption DEF GiantInv
  <2> QED
    BY Zenon, <1>0, <1>3, <2>1, <2>3, <2>4 DEF GiantInv
<1>6. CASE Unlock(t, Giant) /\ Deeper(t, -1)
  <2>1. /\ owner'[Giant] = IF depth[Giant] = 1 THEN NULL ELSE owner[Giant]
        /\ depth'[Giant] = depth[Giant] - 1
    BY <1>0, <1>6 DEF Unlock
  <2>2. GiantDepth(pc'[t], stack'[t]) = d - 1
    <3>1. d \in Int
      BY <1>0, <1>2
    <3>2. GiantDepth(pc'[t], stack'[t]) = d + -1
      BY Zenon, <1>1, <1>6 DEF Deeper
    <3> QED
      BY <3>1, <3>2
  <2>3. GiantDepth(pc'[t], stack'[t]) \in {0, 1, 2}
    BY DEF GiantDepth, Beneath
  <2>4. d \in Int
    BY <1>0, <1>2
  <2>5. d >= 1
    BY <2>2, <2>3, <2>4
  <2>6. owner[Giant] = t /\ d = depth[Giant]
    BY <1>2, <2>5
  <2>7. \A u \in Threads \ {t} : pc[u] # "fault" => GiantDepth(pc[u], stack[u]) = 0
    BY Zenon, <2>6 DEF GiantInv
  <2>8. CASE d = 1
    <3>1. owner'[Giant] = NULL /\ depth'[Giant] = 0 /\ GiantDepth(pc'[t], stack'[t]) = 0
      BY <2>1, <2>2, <2>6, <2>8
    <3> QED
      BY Zenon, <1>0, <1>3, <2>7, <3>1, ProgramAssumption DEF GiantInv
  <2>9. CASE d # 1
    <3>1. /\ owner'[Giant] = t /\ depth'[Giant] >= 1
          /\ GiantDepth(pc'[t], stack'[t]) = depth'[Giant]
      BY <2>1, <2>2, <2>4, <2>5, <2>6, <2>9
    <3> QED
      BY Zenon, <1>0, <1>3, <2>7, <3>1 DEF GiantInv
  <2> QED
    BY Zenon, <2>8, <2>9
<1> QED
  BY Zenon, <1>4, <1>5, <1>6, StepGiantMove DEF GiantMove

(* Giant is owned by the one thread that is in a first use.                *)
LEMMA GiantOwner ==
  ASSUME BaseInv, GiantInv, NEW t \in Threads, pc[t] # "fault", GiantDepth(pc[t], stack[t]) # 0
  PROVE  owner[Giant] = t
  BY Zenon DEF GiantInv

LEMMA GiantInit == Init => GiantInv
<1> SUFFICES ASSUME Init PROVE GiantInv
  OBVIOUS
<1>1. owner[Giant] = NULL /\ depth[Giant] = 0
  <2>1. owner = [m \in Locks |-> NULL] /\ depth = [m \in Locks |-> 0] /\ Giant \in Locks
    BY Zenon DEF Init, Locks
  <2> QED
    BY Zenon, <2>1
<1>2. \A t \in Threads : pc[t] = "idle" /\ t # NULL
  <2>1. pc = [t \in Threads |-> "idle"]
    BY Zenon DEF Init
  <2> QED
    BY Zenon, <2>1, ProgramAssumption
<1>3. "idle" \in FreePcs
  BY DEF FreePcs
<1> QED
  BY Zenon, <1>1, <1>2, <1>3, FreeDepth DEF GiantInv

-----------------------------------------------------------------------------
(* Only the owner of Giant changes what the programs share: the static     *)
(* pointers, the registry and what it holds for the slots, and which       *)
(* objects are ready.                                                      *)
Unshared ==
  /\ static' = static /\ ready' = ready /\ published' = published
  /\ freed' = freed /\ refused' = refused
  /\ \A c \in Named("cache"), s \in Slots : contents'[c][s] = contents[c][s]
Guarded(t) == Unshared \/ GiantDepth(pc[t], stack[t]) # 0

LEMMA SameUnshared ==
  ASSUME UNCHANGED <<static, published, contents, ready, freed, refused>> PROVE Unshared
  BY Zenon DEF Unshared

LEMMA RegistryGuarded ==
  ASSUME NEW t, pc[t] \in RegistryPcs PROVE Guarded(t)
<1>1. GiantDepth(pc[t], stack[t]) = Beneath(stack[t]) + 1 /\ Beneath(stack[t]) \in {0, 1}
  BY Zenon, RegistryDepth
<1>2. GiantDepth(pc[t], stack[t]) # 0
  BY <1>1
<1> QED
  BY Zenon, <1>2 DEF Guarded

LEMMA OneGuarded ==
  ASSUME NEW t, pc[t] \in OnePcs PROVE Guarded(t)
<1>1. GiantDepth(pc[t], stack[t]) = 1
  BY Zenon, OneDepth
<1>2. GiantDepth(pc[t], stack[t]) # 0
  BY <1>1
<1> QED
  BY Zenon, <1>2 DEF Guarded

(* A call of the registry for a slot comes from a first use.               *)
LEMMA SlotBeneath ==
  ASSUME FrameInv, NEW t \in Threads, pc[t] \in {"lock_giant", "lock"} \cup EntryPcs,
         call[t].name \notin ClientNames
  PROVE  GiantDepth(pc[t], stack[t]) # 0 /\ Head(stack[t]) # "idle"
<1>1. PICK b \in Labels, z \in Seq(Labels) :
        stack[t] = <<b>> \o z /\ Purpose(b, call[t].kind, call[t].name)
  BY Zenon DEF FrameInv, Frame, InGlobal, HomePcs, CreatePcs, MakePcs, LookUpPcs, FirstPcs,
     InsidePcs, GlobalPcs, RegistryPcs, EntryPcs
<1>2. Head(stack[t]) = b /\ b # "idle"
  BY Zenon, <1>1, Pushed DEF Purpose
<1>3. GiantDepth(pc[t], stack[t]) = 1
  BY Zenon, <1>2, PlainDepth DEF Beneath
<1> QED
  BY <1>2, <1>3

LEMMA GlobalGuarded ==
  ASSUME BaseInv, NEW t \in Threads, Global(t) PROVE Guarded(t)
<1> USE DEF BaseInv
<1>1. CASE GlobalLock(t) \/ GlobalUnlock(t)
  <2>1. UNCHANGED <<static, published, contents, ready, freed, refused>>
    BY Zenon, <1>1 DEF GlobalLock, GlobalUnlock, LockSlot, UnlockSlot, Fault, shared
  <2> QED
    BY Zenon, <2>1, SameUnshared DEF Guarded
<1>2. CASE GlobalClear(t) \/ GlobalLoad(t) \/ GlobalSet(t) \/ GlobalDelete(t)
  <2>1. pc[t] \in EntryPcs
    BY Zenon, <1>2 DEF GlobalClear, GlobalLoad, GlobalSet, GlobalDelete, Goto, EntryPcs
  <2>2. CASE call[t].name \notin ClientNames
    BY Zenon, <2>1, <2>2, SlotBeneath DEF Guarded
  <2>3. CASE call[t].name \in ClientNames
    <3>1. call[t].name \notin Slots
      BY Zenon, <2>3, ProgramAssumption
    <3>2. /\ static' = static /\ ready' = ready /\ published' = published
          /\ freed' = freed /\ refused' = refused
      BY Zenon, <1>2, <3>1 DEF GlobalClear, GlobalLoad, GlobalSet, GlobalDelete, Out
    <3>3. ASSUME NEW c \in Named("cache"), NEW s \in Slots
          PROVE  contents'[c][s] = contents[c][s]
      <4>1. contents' = contents \/ \E v \in Anything :
              contents' = [contents EXCEPT ![Of(t, "cache")][call[t].name] = v]
        <5>1. call[t].value \in Anything /\ Absent \in Anything
          BY Zenon, <2>1, CallOf DEF Anything
        <5>2. CASE GlobalSet(t)
          <6>1. contents' = [contents EXCEPT ![Of(t, "cache")][call[t].name] = call[t].value]
            BY Zenon, <5>2 DEF GlobalSet
          <6> QED
            BY Zenon, <5>1, <6>1
        <5>3. CASE GlobalDelete(t)
          <6>1. contents' = [contents EXCEPT ![Of(t, "cache")][call[t].name] = Absent]
            BY Zenon, <5>3 DEF GlobalDelete
          <6> QED
            BY Zenon, <5>1, <6>1
        <5>4. CASE GlobalClear(t) \/ GlobalLoad(t)
          <6>1. contents' = contents
            BY Zenon, <5>4 DEF GlobalClear, GlobalLoad
          <6> QED
            BY Zenon, <6>1
        <5> QED
          BY Zenon, <1>2, <5>2, <5>3, <5>4
      <4>2. contents \in [Caches -> [Names -> Anything]] /\ c \in Caches /\ s \in Names
        <5>1. c \in Caches /\ s \in Names
          BY DEF Named, Caches, Names
        <5> QED
          BY Zenon, <5>1 DEF TypeInv
      <4> QED
        BY <3>1, <4>1, <4>2
    <3> QED
      BY Zenon, <3>2, <3>3 DEF Guarded, Unshared
  <2> QED
    BY Zenon, <2>2, <2>3
<1> QED
  BY Zenon, <1>1, <1>2 DEF Global

LEMMA HookGuarded ==
  ASSUME NEW t \in Threads,
         \/ InitializeHook(t)
         \/ LockSlot(t, "hookMutex", "lock_hooks", "use")
         \/ CreateUnlock(t)
  PROVE  Guarded(t)
<1>1. CASE pc[t] \in OnePcs
  BY Zenon, <1>1, OneGuarded
<1>2. CASE \/ InitializeGiant(t) \/ CreateUnlock(t)
           \/ LockSlot(t, "hookMutex", "lock_hooks", "use")
  <2>1. UNCHANGED <<static, published, contents, ready, freed, refused>>
    BY Zenon, <1>2 DEF InitializeGiant, LockGiant, CreateUnlock, LockSlot, Fault, shared
  <2> QED
    BY Zenon, <2>1, SameUnshared DEF Guarded
<1>3. CASE InitializeHook(t) /\ ~InitializeGiant(t)
  <2>1. pc[t] \in MakePcs
    BY Zenon, <1>3 DEF InitializeHook, InitializeGet, InitializeMake, InitializeReady,
       InitializeLeave, CallGlobal, Enter, Goto, MakePcs
  <2> QED
    BY Zenon, <1>1, <2>1 DEF OnePcs
<1> QED
  BY Zenon, <1>2, <1>3

LEMMA LookUpGuarded ==
  ASSUME BaseInv, NEW t \in Threads, LookUp(t) \/ CreateUse(t) PROVE Guarded(t)
<1> USE DEF BaseInv
<1>1. CASE pc[t] \in OnePcs
  BY Zenon, <1>1, OneGuarded
<1>2. CASE \/ LockGiant(t, "first", "get_symbols") \/ LookUpFind(t) \/ CreateUse(t)
           \/ LockSlot(t, "symbolsMutex", "lock_symbols", "find")
           \/ UnlockSlot(t, "symbolsMutex", "unlock_symbols", "ok")
  <2>1. UNCHANGED <<static, published, contents, ready, freed, refused>>
    BY Zenon, <1>2 DEF LockGiant, LookUpFind, CreateUse, CallLookUp, LockSlot, UnlockSlot, Fault,
       shared
  <2> QED
    BY Zenon, <2>1, SameUnshared DEF Guarded
<1>3. CASE LookUpFirst(t) /\ ~LockGiant(t, "first", "get_symbols")
  <2>1. pc[t] \in FirstPcs
    BY Zenon, <1>3 DEF LookUpFirst, LookUpGetCache, LookUpGetMutex, LookUpCreate, LookUpAllocate,
       LookUpInit, LookUpLeaveFirst, CallGlobal, Enter, Goto, FirstPcs
  <2> QED
    BY Zenon, <1>1, <2>1 DEF OnePcs
<1>4. CASE LookUpMiss(t)
  <2>1. /\ static' = static /\ ready' = ready /\ published' = published
        /\ freed' = freed /\ refused' = refused
    BY Zenon, <1>4 DEF LookUpMiss
  <2>2. ASSUME NEW c \in Named("cache"), NEW s \in Slots
        PROVE  contents'[c][s] = contents[c][s]
    <3>1. Of(t, "symbols") \in {NULL} \cup Named("symbols")
      <4>1. "symbols" \in Slots /\ "symbols" # "mutex"
        BY DEF Slots
      <4> QED
        BY Zenon, <4>1, StaticOf DEF Places
    <3>2. contents' = contents \/ \E d \in Named("symbols") :
            contents' = [contents EXCEPT ![d][wanted[t]] = DlSym(wanted[t])]
      BY Zenon, <1>4, <3>1 DEF LookUpMiss
    <3>3. contents \in [Caches -> [Names -> Anything]] /\ c \in Caches /\ c \notin Named("symbols")
      BY DEF TypeInv, Named, Caches
    <3> QED
      BY <3>2, <3>3
  <2> QED
    BY Zenon, <2>1, <2>2 DEF Guarded, Unshared
<1> QED
  BY Zenon, <1>2, <1>3, <1>4 DEF LookUp

LEMMA StepGuarded ==
  ASSUME BaseInv, NEW t \in Threads, Step(t) PROVE Guarded(t)
<1>1. CASE Begin(t)
  <2>1. UNCHANGED <<static, published, contents, ready, freed, refused>>
    BY Zenon, <1>1 DEF Begin, CallCreate, CallLookUp, shared
  <2> QED
    BY Zenon, <2>1, SameUnshared DEF Guarded
<1>2. CASE Initialize(t)
  <2>1. CASE LockGiant(t, "lock_giant", "sysctl")
    BY Zenon, <2>1, SameUnshared DEF LockGiant, Guarded
  <2>2. CASE ~LockGiant(t, "lock_giant", "sysctl")
    <3>1. pc[t] \in RegistryPcs
      BY Zenon, <1>2, <2>2 DEF Initialize, InitializeCache, InitializeClear, InitializeLoad,
         InitializeAllocate, InitializeMutex, InitializePublish, InitializeUnlock, Return, Goto,
         RegistryPcs
    <3> QED
      BY Zenon, <3>1, RegistryGuarded
  <2> QED
    BY Zenon, <2>1, <2>2
<1> QED
  BY Zenon, <1>1, <1>2, GlobalGuarded, HookGuarded, LookUpGuarded DEF Step

(* While a thread is in a first use, the others leave all that alone.      *)
LEMMA OwnerAlone ==
  ASSUME BaseInv, GiantInv, NEW t \in Threads, Step(t), NEW u \in Threads \ {t}, pc[u] # "fault",
         GiantDepth(pc[u], stack[u]) # 0
  PROVE  Unshared
<1>1. owner[Giant] = u
  BY Zenon, GiantOwner
<1>2. pc[t] # "fault"
  BY Zenon DEF Step, Stopped
<1>3. GiantDepth(pc[t], stack[t]) = 0
  BY Zenon, <1>1, <1>2, GiantOwner
<1> QED
  BY Zenon, <1>3, StepGuarded DEF Guarded

-----------------------------------------------------------------------------
(* A thread that has allocated an object and is about to make it ready     *)
(* finds it in the static pointer, and what is ready is an object.         *)
Raw(p, s) ==
  \/ p = "init_mutex" /\ s = "mutex"
  \/ p = "init_symbolsMutex" /\ s = "symbolsMutex"
  \/ p = "init_hookMutex" /\ s = "hookMutex"
  \/ p = "init_hookHandler" /\ s = "hookHandler"
RawPcs == {"init_mutex", "init_symbolsMutex", "init_hookMutex", "init_hookHandler"}

MadeInv ==
  /\ ready \subseteq Objects
  /\ \A t \in Threads, s \in Slots : Raw(pc[t], s) => Of(t, s) = <<s, t>>

RawMove(t) ==
  /\ pc'[t] \in RawPcs => \E s \in Slots : Raw(pc'[t], s) /\ Store(t, s, <<s, t>>)
  /\ ready' = ready \/ \E s \in Slots : Raw(pc[t], s) /\ ready' = ready \cup {Of(t, s)}

LEMMA RawElsewhere ==
  ASSUME FrameInv, NEW t \in Threads, NEW p, NEW q, Goto(t, p, q), q \notin RawPcs,
         ready' = ready \/ \E s \in Slots : Raw(p, s) /\ ready' = ready \cup {Of(t, s)}
  PROVE  RawMove(t)
  BY Zenon, Goes DEF RawMove

LEMMA RawBack ==
  ASSUME FrameInv, NEW t \in Threads, NEW p \in GlobalPcs \cup InsidePcs, NEW code,
         Return(t, p, code), ready' = ready
  PROVE  RawMove(t)
<1>1. Goto(t, p, Head(stack[t])) /\ pc[t] = p
  BY Zenon DEF Return, Goto
<1>2. Head(stack[t]) \notin RawPcs
  BY Zenon, <1>1, ReturnsTo DEF BackPcs, LookUpBacks, MakeBacks, FirstBacks, RawPcs
<1> QED
  BY Zenon, <1>1, <1>2, RawElsewhere

LEMMA RawCall ==
  ASSUME FrameInv, NEW t \in Threads, NEW p, NEW kind, NEW name, NEW v, NEW b,
         CallGlobal(t, p, kind, name, v, b),
         ready' = ready \/ \E s \in Slots : Raw(p, s) /\ ready' = ready \cup {Of(t, s)}
  PROVE  RawMove(t)
<1>1. PICK q \in {"lock_giant", "lock"} : Goto(t, p, q)
  BY Zenon DEF CallGlobal, Enter
<1> QED
  BY Zenon, <1>1, RawElsewhere DEF RawPcs

LEMMA InitializeRaw ==
  ASSUME FrameInv, NEW t \in Threads, Initialize(t) PROVE RawMove(t)
<1>0. "mutex" \in Slots
  BY DEF Slots, Mutexes
<1>1. CASE InitializeAllocate(t)
  <2>1. pc'[t] = "init_mutex"
    BY Zenon, <1>1, Goes DEF InitializeAllocate
  <2> QED
    BY Zenon, <1>0, <1>1, <2>1 DEF InitializeAllocate, RawMove, Raw
<1>2. CASE InitializeMutex(t)
  BY Zenon, <1>0, <1>2, RawElsewhere DEF InitializeMutex, Raw, RawPcs
<1>3. CASE InitializeUnlock(t)
  BY Zenon, <1>3, RawElsewhere, RawBack DEF InitializeUnlock, RawPcs, GlobalPcs, RegistryPcs
<1>4. CASE \/ LockGiant(t, "lock_giant", "sysctl") \/ InitializeClear(t) \/ InitializeLoad(t)
           \/ InitializePublish(t)
  BY Zenon, <1>4, RawElsewhere DEF LockGiant, InitializeClear, InitializeLoad, InitializePublish,
     RawPcs
<1>5. CASE InitializeCache(t)
  <2>1. PICK q \in {"clear_mutex", "allocate_mutex"} : Goto(t, "sysctl", q)
    BY Zenon, <1>5 DEF InitializeCache
  <2> QED
    BY Zenon, <1>5, <2>1, RawElsewhere DEF InitializeCache, RawPcs
<1> QED
  BY Zenon, <1>1, <1>2, <1>3, <1>4, <1>5 DEF Initialize

LEMMA GlobalRaw ==
  ASSUME FrameInv, NEW t \in Threads, Global(t) PROVE RawMove(t)
<1>1. CASE GlobalLock(t)
  <2>1. call[t].kind \notin RawPcs
    BY DEF FrameInv, CallRecords, RawPcs
  <2> QED
    BY Zenon, <1>1, <2>1, RawElsewhere DEF GlobalLock, LockSlot, Fault, shared, RawPcs
<1>2. CASE GlobalClear(t) \/ GlobalLoad(t) \/ GlobalSet(t) \/ GlobalDelete(t)
  BY Zenon, <1>2, RawElsewhere DEF GlobalClear, GlobalLoad, GlobalSet, GlobalDelete, RawPcs
<1>3. CASE GlobalUnlock(t)
  BY Zenon, <1>3, RawElsewhere, RawBack DEF GlobalUnlock, UnlockSlot, Fault, shared, RawPcs,
     GlobalPcs, EntryPcs
<1> QED
  BY Zenon, <1>1, <1>2, <1>3 DEF Global

LEMMA HookRaw ==
  ASSUME FrameInv, NEW t \in Threads,
         \/ InitializeHook(t)
         \/ LockSlot(t, "hookMutex", "lock_hooks", "use")
         \/ CreateUnlock(t)
  PROVE  RawMove(t)
<1>0. {"hookMutex", "hookHandler"} \subseteq Slots
  BY DEF Slots, Mutexes
<1>1. CASE InitializeGiant(t) \/ InitializeLeave(t) \/ CreateUnlock(t)
  BY Zenon, <1>1, RawElsewhere DEF InitializeGiant, LockGiant, InitializeLeave, CreateUnlock,
     Fault, shared, RawPcs
<1>2. CASE LockSlot(t, "hookMutex", "lock_hooks", "use")
  BY Zenon, <1>2, RawElsewhere DEF LockSlot, Fault, shared, RawPcs
<1>3. CASE \/ InitializeGet(t, "hookMutex", "has_giant", "got_hookMutex", "has_mutex")
           \/ InitializeGet(t, "hookHandler", "has_mutex", "got_hookHandler", "leave_initialize")
  BY Zenon, <1>3, RawElsewhere, RawCall DEF InitializeGet, shared, RawPcs
<1>4. ASSUME NEW s \in Slots, NEW got, NEW init, NEW next, Raw(init, s), next \notin RawPcs,
             InitializeMake(t, s, got, init, next)
      PROVE  RawMove(t)
  <2>1. CASE Goto(t, got, next)
    BY Zenon, <1>4, <2>1, RawElsewhere DEF InitializeMake
  <2>2. CASE Goto(t, got, init) /\ Store(t, s, <<s, t>>)
    <3>1. pc'[t] = init
      BY Zenon, <2>2, Goes
    <3> QED
      BY Zenon, <1>4, <2>2, <3>1 DEF InitializeMake, RawMove
  <2> QED
    BY Zenon, <1>4, <2>1, <2>2 DEF InitializeMake
<1>5. CASE InitializeMake(t, "hookMutex", "got_hookMutex", "init_hookMutex", "has_mutex")
  BY Zenon, <1>0, <1>4, <1>5 DEF Raw, RawPcs
<1>6. CASE InitializeMake(t, "hookHandler", "got_hookHandler", "init_hookHandler", "leave_initialize")
  BY Zenon, <1>0, <1>4, <1>6 DEF Raw, RawPcs
<1>7. CASE \/ InitializeReady(t, "hookMutex", "init_hookMutex", "has_mutex")
           \/ InitializeReady(t, "hookHandler", "init_hookHandler", "leave_initialize")
  BY Zenon, <1>0, <1>7, RawCall DEF InitializeReady, Raw
<1> QED
  BY Zenon, <1>1, <1>2, <1>3, <1>5, <1>6, <1>7 DEF InitializeHook

LEMMA LookUpRaw ==
  ASSUME FrameInv, NEW t \in Threads, LookUp(t) \/ CreateUse(t) PROVE RawMove(t)
<1>0. "symbolsMutex" \in Slots
  BY DEF Slots, Mutexes
<1>1. CASE LockGiant(t, "first", "get_symbols") \/ LookUpLeaveFirst(t) \/ LookUpFind(t)
  BY Zenon, <1>1, RawElsewhere DEF LookUpLeaveFirst, LockGiant, LookUpFind, shared, RawPcs
<1>2. CASE LookUpGetCache(t) \/ LookUpGetMutex(t) \/ LookUpCreate(t)
  BY Zenon, <1>2, RawCall DEF LookUpGetCache, LookUpGetMutex, LookUpCreate, shared
<1>3. CASE LookUpAllocate(t)
  <2>1. pc'[t] = "init_symbolsMutex"
    BY Zenon, <1>3, Goes DEF LookUpAllocate
  <2> QED
    BY Zenon, <1>0, <1>3, <2>1 DEF LookUpAllocate, RawMove, Raw
<1>4. CASE LookUpInit(t)
  BY Zenon, <1>0, <1>4, RawCall DEF LookUpInit, Raw
<1>5. CASE \/ LockSlot(t, "symbolsMutex", "lock_symbols", "find")
           \/ UnlockSlot(t, "symbolsMutex", "unlock_symbols", "ok")
  BY Zenon, <1>5, RawElsewhere, RawBack DEF LockSlot, UnlockSlot, Fault, shared, RawPcs, InsidePcs
<1>6. CASE LookUpMiss(t)
  BY Zenon, <1>6, RawElsewhere, RawBack DEF LookUpMiss, RawPcs, InsidePcs
<1>7. CASE CreateUse(t)
  <2>1. PICK q \in {"first", "lock_symbols"} : Goto(t, "use", q)
    BY Zenon, <1>7 DEF CreateUse, CallLookUp, Enter
  <2> QED
    BY Zenon, <1>7, <2>1, RawElsewhere DEF CreateUse, CallLookUp, shared, RawPcs
<1> QED
  BY Zenon, <1>1, <1>2, <1>3, <1>4, <1>5, <1>6, <1>7 DEF LookUp, LookUpFirst

LEMMA StepRaw ==
  ASSUME FrameInv, NEW t \in Threads, Step(t) PROVE RawMove(t)
<1>1. CASE /\ \E n \in ClientNames, kind \in Work[t] \cap {"get", "set", "delete"} :
                \E v \in IF kind = "set" THEN Values ELSE {NULL} :
                  CallGlobal(t, "idle", kind, n, v, "idle")
           /\ UNCHANGED shared
  BY Zenon, <1>1, RawCall DEF shared
<1>2. ASSUME NEW n, NEW b, CallLookUp(t, "idle", n, b)
      PROVE  RawMove(t)
  <2>1. PICK q \in {"first", "lock_symbols"} : Goto(t, "idle", q)
    BY Zenon, <1>2 DEF CallLookUp, Enter
  <2> QED
    BY Zenon, <1>2, <2>1, RawElsewhere DEF CallLookUp, shared, RawPcs
<1>3. CASE CallCreate(t)
  BY Zenon, <1>2, <1>3, RawElsewhere DEF CallCreate, shared, RawPcs
<1>4. CASE Begin(t)
  BY Zenon, <1>1, <1>2, <1>3, <1>4 DEF Begin
<1> QED
  BY Zenon, <1>4, InitializeRaw, GlobalRaw, HookRaw, LookUpRaw DEF Step

LEMMA MadeStep ==
  ASSUME BaseInv, GiantInv, MadeInv, NEW t \in Threads, Step(t) PROVE MadeInv'
<1> USE DEF BaseInv
<1>1. RawMove(t)
  BY Zenon, StepRaw
<1>2. ready' \subseteq Objects
  <2>1. ASSUME NEW s \in Slots, Raw(pc[t], s) PROVE Of(t, s) \in Objects
    <3>1. Of(t, s) = <<s, t>>
      BY Zenon, <2>1 DEF MadeInv
    <3> QED
      BY <3>1 DEF Objects
  <2>2. ready \subseteq Objects
    BY Zenon DEF MadeInv
  <2>3. ready' = ready \/ \E s \in Slots : Of(t, s) \in Objects /\ ready' = ready \cup {Of(t, s)}
    BY Zenon, <1>1, <2>1 DEF RawMove
  <2> QED
    BY Zenon, <2>2, <2>3
<1>3. ASSUME NEW u \in Threads, NEW s \in Slots, Raw(pc'[u], s)
      PROVE  Of(u, s)' = <<s, u>>
  <2>1. CASE u = t
    <3>1. pc'[t] \in RawPcs
      BY Zenon, <1>3, <2>1 DEF Raw, RawPcs
    <3>2. PICK z \in Slots : Raw(pc'[t], z) /\ Store(t, z, <<z, t>>)
      BY Zenon, <1>1, <3>1 DEF RawMove
    <3>3. z = s
      BY Zenon, <1>3, <2>1, <3>2 DEF Raw
    <3>4. <<s, t>> \in Anything
      BY DEF Anything, Objects
    <3>5. static'[ProgramOf[t]][s] = <<s, t>>
      BY <3>2, <3>3, <3>4, StaticMoved
    <3> QED
      BY Zenon, <2>1, <3>5 DEF Of
  <2>2. CASE u # t
    <3>1. Raw(pc[u], s) /\ pc[u] # "fault"
      BY Zenon, <1>3, <2>2, OthersStay DEF Raw
    <3>2. GiantDepth(pc[u], stack[u]) # 0
      <4>1. pc[u] \in OnePcs \/ pc[u] \in RegistryPcs
        BY Zenon, <3>1 DEF Raw, OnePcs, MakePcs, FirstPcs, RegistryPcs
      <4>2. CASE pc[u] \in OnePcs
        BY <4>2, OneDepth
      <4>3. CASE pc[u] \in RegistryPcs
        <5>1. GiantDepth(pc[u], stack[u]) = Beneath(stack[u]) + 1 /\ Beneath(stack[u]) \in {0, 1}
          BY Zenon, <4>3, RegistryDepth
        <5> QED
          BY <5>1
      <4> QED
        BY Zenon, <4>1, <4>2, <4>3
    <3>3. Unshared
      BY Zenon, <2>2, <3>1, <3>2, OwnerAlone
    <3> QED
      BY Zenon, <3>1, <3>3 DEF MadeInv, Unshared, Of
  <2> QED
    BY Zenon, <2>1, <2>2
<1> QED
  BY Zenon, <1>2, <1>3 DEF MadeInv

LEMMA MadeInit == Init => MadeInv
<1> SUFFICES ASSUME Init PROVE MadeInv
  OBVIOUS
<1>1. pc = [t \in Threads |-> "idle"] /\ ready = {}
  BY Zenon DEF Init
<1> QED
  BY <1>1 DEF MadeInv, Raw

-----------------------------------------------------------------------------
(* Who holds the other mutexes: the hook mutex is held from lock_hooks on, *)
(* over the lookup of malloc; the registry's and the symbols' during one   *)
(* operation, the latter for ever by a thread that looked up in vain.      *)
Waiting(s) == \E i \in 1..Len(s) : s[i] = "unlock_hooks"
HooksHeld(p, s) == p \in {"use", "unlock_hooks"} \/ Waiting(s)
Holds(slot, p, s) ==
  \/ slot = "mutex" /\ p \in EntryPcs
  \/ slot = "symbolsMutex" /\ p \in InsidePcs
  \/ slot = "hookMutex" /\ HooksHeld(p, s)
Freed(slot, t) == pc[t] = "fault" \/ (slot = "symbolsMutex" /\ missed[t] # 0)

HoldInv ==
  \A slot \in Mutexes, w \in Threads :
    /\ owner[<<slot, w>>] = NULL => depth[<<slot, w>>] = 0
    /\ \A t \in Threads :
         owner[<<slot, w>>] = t /\ ~Freed(slot, t) =>
           /\ Holds(slot, pc[t], stack[t]) /\ depth[<<slot, w>>] = 1
           /\ \A v \in Threads : owner[<<slot, v>>] = t => v = w

(* A step of a thread keeps, takes or gives back the mutex of a slot.      *)
Untouched(slot) ==
  \A w \in Threads :
    owner'[<<slot, w>>] = owner[<<slot, w>>] /\ depth'[<<slot, w>>] = depth[<<slot, w>>]
Keeps(t, slot) ==
  /\ Untouched(slot)
  /\ Holds(slot, pc[t], stack[t]) => Holds(slot, pc'[t], stack'[t]) \/ Freed(slot, t)'
Takes(t, slot) ==
  /\ ~Holds(slot, pc[t], stack[t]) /\ Holds(slot, pc'[t], stack'[t])
  /\ \E w \in Threads : Lock(t, <<slot, w>>)
GivesBack(t, slot) ==
  \E w \in Threads : owner[<<slot, w>>] = t /\ Unlock(t, <<slot, w>>)
HoldMove(t) ==
  \A slot \in Mutexes : Keeps(t, slot) \/ Takes(t, slot) \/ GivesBack(t, slot)

LEMMA LocksHave ==
  ASSUME NEW slot \in Mutexes, NEW w \in Threads
  PROVE  <<slot, w>> \in Locks /\ <<slot, w>> # Giant
  BY DEF Locks, Mutexes, Giant

LEMMA WaitingPushed ==
  ASSUME NEW b \in Labels, NEW z \in Seq(Labels)
  PROVE  Waiting(<<b>> \o z) <=> b = "unlock_hooks" \/ Waiting(z)
<1>1. Len(<<b>> \o z) = Len(z) + 1 /\ Len(z) \in Nat
  OBVIOUS
<1>2. (<<b>> \o z)[1] = b
  OBVIOUS
<1>3. \A i \in 1..Len(z) : (<<b>> \o z)[i + 1] = z[i]
  OBVIOUS
<1>4. ASSUME Waiting(<<b>> \o z) PROVE b = "unlock_hooks" \/ Waiting(z)
  <2>1. PICK i \in 1..(Len(z) + 1) : (<<b>> \o z)[i] = "unlock_hooks"
    BY <1>1, <1>4 DEF Waiting
  <2>2. CASE i = 1
    BY <1>2, <2>1, <2>2
  <2>3. CASE i # 1
    <3>1. PICK k \in 1..Len(z) : i = k + 1
      BY <1>1, <2>1, <2>3
    <3> QED
      BY Zenon, <1>3, <2>1, <3>1 DEF Waiting
  <2> QED
    BY Zenon, <2>2, <2>3
<1>5. ASSUME b = "unlock_hooks" PROVE Waiting(<<b>> \o z)
  BY <1>1, <1>2, <1>5 DEF Waiting
<1>6. ASSUME Waiting(z) PROVE Waiting(<<b>> \o z)
  <2>1. PICK k \in 1..Len(z) : z[k] = "unlock_hooks"
    BY Zenon, <1>6 DEF Waiting
  <2>2. k + 1 \in 1..(Len(z) + 1)
    BY <1>1, <2>1
  <2> QED
    BY Zenon, <1>1, <1>3, <2>1, <2>2 DEF Waiting
<1> QED
  BY Zenon, <1>4, <1>5, <1>6

LEMMA WaitingEmpty == ~Waiting(<<>>)
  BY DEF Waiting

LEMMA GiantUntouched ==
  ASSUME TypeInv, NEW t, NEW slot \in Mutexes, Lock(t, Giant) \/ Unlock(t, Giant)
  PROVE  Untouched(slot)
<1> SUFFICES ASSUME NEW w \in Threads
             PROVE  /\ owner'[<<slot, w>>] = owner[<<slot, w>>]
                    /\ depth'[<<slot, w>>] = depth[<<slot, w>>]
  BY Zenon DEF Untouched
<1>1. <<slot, w>> \in Locks /\ <<slot, w>> # Giant
  BY Zenon, LocksHave
<1> QED
  BY <1>1 DEF Lock, Unlock, TypeInv

LEMMA SlotUntouched ==
  ASSUME TypeInv, NEW t, NEW m, NEW slot \in Mutexes, Lock(t, m) \/ Unlock(t, m),
         m \notin Named(slot)
  PROVE  Untouched(slot)
<1> SUFFICES ASSUME NEW w \in Threads
             PROVE  /\ owner'[<<slot, w>>] = owner[<<slot, w>>]
                    /\ depth'[<<slot, w>>] = depth[<<slot, w>>]
  BY Zenon DEF Untouched
<1>1. <<slot, w>> \in Locks /\ <<slot, w>> # m
  <2>1. <<slot, w>> \in Named(slot)
    BY DEF Named
  <2> QED
    BY Zenon, <2>1, LocksHave
<1> QED
  BY <1>1 DEF Lock, Unlock, TypeInv

LEMMA SameUntouched ==
  ASSUME UNCHANGED <<owner, depth>>, NEW slot PROVE Untouched(slot)
  BY Zenon DEF Untouched

(* A step that touches no slot's mutex.                                    *)
LEMMA KeepsAll ==
  ASSUME NEW t \in Threads, \A slot \in Mutexes : Untouched(slot),
         pc'[t] = "fault" \/ (pc[t] \in EntryPcs => pc'[t] \in EntryPcs),
         pc'[t] = "fault" \/ (pc[t] \in InsidePcs => pc'[t] \in InsidePcs) \/ missed'[t] # 0,
         pc'[t] = "fault" \/ (HooksHeld(pc[t], stack[t]) => HooksHeld(pc'[t], stack'[t]))
  PROVE  HoldMove(t)
<1>1. Keeps(t, "mutex")
  BY Zenon DEF Keeps, Holds, Freed, Mutexes
<1>2. Keeps(t, "symbolsMutex")
  BY Zenon DEF Keeps, Holds, Freed, Mutexes
<1>3. Keeps(t, "hookMutex")
  BY Zenon DEF Keeps, Holds, Freed, Mutexes
<1> QED
  BY Zenon, <1>1, <1>2, <1>3 DEF HoldMove, Mutexes

(* A hop with the stack unchanged.                                         *)
Settled(p, q) ==
  \/ q = "fault"
  \/ /\ p \in EntryPcs => q \in EntryPcs
     /\ p \in InsidePcs => q \in InsidePcs
     /\ p \notin {"use", "unlock_hooks"}

LEMMA HopHold ==
  ASSUME FrameInv, NEW t \in Threads, NEW p, NEW q, Goto(t, p, q), stack' = stack, Settled(p, q),
         \A slot \in Mutexes : Untouched(slot)
  PROVE  HoldMove(t)
<1>1. pc[t] = p /\ pc'[t] = q /\ stack'[t] = stack[t]
  BY Zenon, Goes
<1> QED
  BY Zenon, <1>1, KeepsAll DEF Settled, HooksHeld

LEMMA CallHold ==
  ASSUME FrameInv, NEW t \in Threads, NEW p, NEW q \in {"lock_giant", "lock", "first", "lock_symbols"},
         NEW b \in Labels, Enter(t, p, q, b), \A slot \in Mutexes : Untouched(slot),
         p \notin EntryPcs \cup InsidePcs \cup {"use", "unlock_hooks"}
           \/ (p = "use" /\ b = "unlock_hooks")
  PROVE  HoldMove(t)
<1>1. /\ pc[t] = p /\ pc'[t] = q
      /\ stack'[t] = <<b>> \o stack[t] /\ stack[t] \in Seq(Labels)
  BY Zenon, Enters
<1>2. Waiting(stack'[t]) <=> b = "unlock_hooks" \/ Waiting(stack[t])
  BY <1>1, WaitingPushed
<1>3. "use" \notin EntryPcs \cup InsidePcs
  BY DEF EntryPcs, InsidePcs
<1> QED
  BY Zenon, <1>1, <1>2, <1>3, KeepsAll DEF HooksHeld

(* A return keeps the hook mutex.                                          *)
LEMMA ReturnHooks ==
  ASSUME FrameInv, NEW t \in Threads, NEW p \in GlobalPcs \cup InsidePcs, NEW code,
         Return(t, p, code)
  PROVE  /\ pc[t] = p /\ pc'[t] = Head(stack[t]) /\ pc'[t] \notin EntryPcs \cup InsidePcs
         /\ HooksHeld(pc[t], stack[t]) => HooksHeld(pc'[t], stack'[t])
<1>1. pc[t] = p /\ pc'[t] = Head(stack[t]) /\ stack'[t] = Tail(stack[t])
  BY Zenon, Returns
<1>2. pc'[t] \notin EntryPcs \cup InsidePcs
  BY Zenon, <1>1, ReturnsTo DEF BackPcs, LookUpBacks, MakeBacks, FirstBacks, EntryPcs, InsidePcs
<1>3. PICK b \in Labels, z \in Seq(Labels) : stack[t] = <<b>> \o z
  <2>1. CASE p \in GlobalPcs
    BY Zenon, <1>1, <2>1 DEF FrameInv, Frame, InGlobal, HomePcs, CreatePcs, MakePcs, LookUpPcs,
       FirstPcs, InsidePcs, GlobalPcs, RegistryPcs, EntryPcs
  <2>2. CASE p \in InsidePcs
    <3>1. PICK b \in LookUpBacks : stack[t] = <<b>>
      BY Zenon, <1>1, <2>2 DEF FrameInv, Frame, InGlobal, HomePcs, CreatePcs, MakePcs, InsidePcs,
         GlobalPcs, RegistryPcs, EntryPcs
    <3>2. b \in Labels
      BY Zenon DEF LookUpBacks, Labels, HomePcs, CreatePcs
    <3>3. <<>> \in Seq(Labels)
      OBVIOUS
    <3> QED
      BY Zenon, <3>1, <3>2, <3>3, Single
  <2> QED
    BY Zenon, <2>1, <2>2
<1>4. Head(stack[t]) = b /\ Tail(stack[t]) = z
  BY Zenon, <1>3, Pushed
<1>5. Waiting(stack[t]) <=> b = "unlock_hooks" \/ Waiting(z)
  BY <1>3, WaitingPushed
<1>6. p \notin {"use", "unlock_hooks"}
  BY Zenon DEF GlobalPcs, RegistryPcs, EntryPcs, InsidePcs
<1> QED
  BY Zenon, <1>1, <1>2, <1>4, <1>5, <1>6 DEF HooksHeld

LEMMA SlotsApart ==
  ASSUME BaseInv, NEW t \in Threads, NEW z \in Mutexes, NEW slot \in Mutexes, slot # z
  PROVE  Of(t, z) \notin Named(slot)
<1>1. Of(t, z) \in {NULL, Absent} \cup Named(z)
  <2>1. z \in Slots
    BY DEF Slots
  <2> QED
    BY Zenon, <2>1, StaticOf DEF Places
<1>2. \A w \in Threads : <<slot, w>> \in Objects
  BY DEF Objects, Slots
<1> QED
  BY <1>1, <1>2, ProgramAssumption DEF Named

(* What can be used as a mutex is one.                                     *)
LEMMA UsableNamed ==
  ASSUME BaseInv, MadeInv, NEW t \in Threads, NEW z \in Mutexes, Usable(Of(t, z))
  PROVE  \E w \in Threads : Of(t, z) = <<z, w>>
<1>1. Of(t, z) \in {NULL, Absent} \cup Named(z)
  <2>1. z \in Slots
    BY DEF Slots
  <2> QED
    BY Zenon, <2>1, StaticOf DEF Places
<1>2. Of(t, z) \in Named(z)
  BY Zenon, <1>1, ProgramAssumption DEF MadeInv, Usable
<1> QED
  BY <1>2 DEF Named

LEMMA LockSlotHold ==
  ASSUME BaseInv, MadeInv, NEW t \in Threads, NEW z \in Mutexes, NEW p, NEW q,
         LockSlot(t, z, p, q), Settled(p, q), ~Holds(z, p, stack[t]), Holds(z, q, stack[t])
  PROVE  HoldMove(t)
<1> USE DEF BaseInv
<1>1. CASE Usable(Of(t, z)) /\ Lock(t, Of(t, z)) /\ Goto(t, p, q) /\ stack' = stack
  <2>1. pc[t] = p /\ pc'[t] = q /\ stack'[t] = stack[t]
    BY Zenon, <1>1, Goes
  <2>2. \A slot \in Mutexes : slot # z => Untouched(slot)
    BY Zenon, <1>1, SlotsApart, SlotUntouched
  <2>3. PICK w \in Threads : Of(t, z) = <<z, w>>
    BY Zenon, <1>1, UsableNamed
  <2>4. Takes(t, z)
    BY Zenon, <1>1, <2>1, <2>3 DEF Takes
  <2>5. ASSUME NEW slot \in Mutexes, slot # z
        PROVE  Keeps(t, slot)
    <3>1. Untouched(slot)
      BY Zenon, <2>2, <2>5
    <3>2. CASE q = "fault"
      BY Zenon, <2>1, <3>1, <3>2 DEF Keeps, Freed
    <3>3. CASE q # "fault"
      BY Zenon, <2>1, <3>1, <3>3 DEF Keeps, Holds, Settled, HooksHeld
    <3> QED
      BY Zenon, <3>2, <3>3
  <2> QED
    BY Zenon, <2>4, <2>5 DEF HoldMove
<1>2. CASE Fault(t, p)
  <2>1. Goto(t, p, "fault") /\ stack' = stack /\ Settled(p, "fault")
    BY Zenon, <1>2 DEF Fault, Settled
  <2>2. \A slot \in Mutexes : Untouched(slot)
    BY Zenon, <1>2, SameUntouched DEF Fault, shared
  <2> QED
    BY Zenon, <2>1, <2>2, HopHold
<1> QED
  BY Zenon, <1>1, <1>2 DEF LockSlot

LEMMA UnlockHold ==
  ASSUME BaseInv, MadeInv, NEW t \in Threads, NEW z \in Mutexes, Held(t, Of(t, z)),
         Unlock(t, Of(t, z)),
         z # "mutex" => pc[t] \notin EntryPcs,
         z # "symbolsMutex" => pc[t] \notin InsidePcs,
         z # "hookMutex" => (HooksHeld(pc[t], stack[t]) => HooksHeld(pc'[t], stack'[t]))
  PROVE  HoldMove(t)
<1> USE DEF BaseInv
<1>1. ASSUME NEW slot \in Mutexes, slot # z
      PROVE  Keeps(t, slot)
  <2>1. Untouched(slot)
    BY Zenon, <1>1, SlotsApart, SlotUntouched
  <2>2. CASE slot = "mutex"
    <3>1. ~Holds(slot, pc[t], stack[t])
      BY <1>1, <2>2 DEF Holds
    <3> QED
      BY Zenon, <2>1, <3>1 DEF Keeps
  <2>3. CASE slot = "symbolsMutex"
    <3>1. ~Holds(slot, pc[t], stack[t])
      BY <1>1, <2>3 DEF Holds
    <3> QED
      BY Zenon, <2>1, <3>1 DEF Keeps
  <2>4. CASE slot = "hookMutex"
    <3>1. Holds(slot, pc[t], stack[t]) => Holds(slot, pc'[t], stack'[t])
      BY <1>1, <2>4 DEF Holds
    <3> QED
      BY Zenon, <2>1, <3>1 DEF Keeps
  <2> QED
    BY Zenon, <2>2, <2>3, <2>4 DEF Mutexes
<1>2. PICK w \in Threads : Of(t, z) = <<z, w>>
  BY Zenon, UsableNamed DEF Held
<1>3. GivesBack(t, z)
  BY Zenon, <1>2 DEF GivesBack, Held
<1> QED
  BY Zenon, <1>1, <1>3 DEF HoldMove

LEMMA SharedUntouched ==
  ASSUME UNCHANGED <<owner, depth>> PROVE \A slot \in Mutexes : Untouched(slot)
  BY Zenon, SameUntouched

LEMMA GiantUntouches ==
  ASSUME TypeInv, NEW t, Lock(t, Giant) \/ Unlock(t, Giant)
  PROVE  \A slot \in Mutexes : Untouched(slot)
  BY Zenon, GiantUntouched

LEMMA InitializeHold ==
  ASSUME BaseInv, NEW t \in Threads, Initialize(t) PROVE HoldMove(t)
<1> USE DEF BaseInv
<1>1. \A slot \in Mutexes : Untouched(slot)
  BY Zenon, SharedUntouched, GiantUntouches DEF Initialize, LockGiant, InitializeCache,
     InitializeClear, InitializeLoad, InitializeAllocate, InitializeMutex, InitializePublish,
     InitializeUnlock
<1>2. CASE ~InitializeUnlock(t)
  <2>1. stack' = stack
    BY Zenon, <1>2 DEF Initialize, LockGiant, InitializeCache, InitializeClear, InitializeLoad,
       InitializeAllocate, InitializeMutex, InitializePublish
  <2>2. PICK p \in {"lock_giant"} \cup RegistryPcs, q \in RegistryPcs : Goto(t, p, q)
    BY Zenon, <1>2 DEF Initialize, LockGiant, InitializeCache, InitializeClear, InitializeLoad,
       InitializeAllocate, InitializeMutex, InitializePublish, RegistryPcs
  <2>3. Settled(p, q)
    BY Zenon DEF Settled, RegistryPcs, EntryPcs, InsidePcs
  <2> QED
    BY Zenon, <1>1, <2>1, <2>2, <2>3, HopHold
<1>3. CASE InitializeUnlock(t)
  <2>1. CASE Goto(t, "unlock_giant", "lock") /\ stack' = stack
    <3>1. Settled("unlock_giant", "lock")
      BY DEF Settled, EntryPcs, InsidePcs
    <3> QED
      BY Zenon, <1>1, <2>1, <3>1, HopHold
  <2>2. CASE Return(t, "unlock_giant", r[t])
    <3>1. "unlock_giant" \in GlobalPcs /\ "unlock_giant" \notin EntryPcs \cup InsidePcs
      BY DEF GlobalPcs, RegistryPcs, EntryPcs, InsidePcs
    <3>2. pc[t] = "unlock_giant" /\ (HooksHeld(pc[t], stack[t]) => HooksHeld(pc'[t], stack'[t]))
      BY Zenon, <2>2, <3>1, ReturnHooks
    <3> QED
      BY Zenon, <1>1, <3>1, <3>2, KeepsAll
  <2> QED
    BY Zenon, <1>3, <2>1, <2>2 DEF InitializeUnlock
<1> QED
  BY Zenon, <1>2, <1>3

LEMMA GlobalHold ==
  ASSUME BaseInv, MadeInv, NEW t \in Threads, Global(t) PROVE HoldMove(t)
<1> USE DEF BaseInv
<1>1. CASE GlobalLock(t)
  <2>1. call[t].kind \in EntryPcs /\ "lock" \notin EntryPcs \cup InsidePcs \cup {"use", "unlock_hooks"}
    BY DEF FrameInv, CallRecords, EntryPcs, InsidePcs
  <2>2. Settled("lock", call[t].kind)
    BY Zenon, <2>1 DEF Settled
  <2>3. ~Holds("mutex", "lock", stack[t]) /\ Holds("mutex", call[t].kind, stack[t])
    BY <2>1 DEF Holds
  <2> QED
    BY Zenon, <1>1, <2>2, <2>3, LockSlotHold DEF GlobalLock, Mutexes
<1>2. CASE GlobalClear(t) \/ GlobalLoad(t) \/ GlobalSet(t) \/ GlobalDelete(t)
  <2>1. PICK p \in EntryPcs, q \in EntryPcs : Goto(t, p, q)
    BY Zenon, <1>2 DEF GlobalClear, GlobalLoad, GlobalSet, GlobalDelete, EntryPcs
  <2>2. stack' = stack /\ \A slot \in Mutexes : Untouched(slot)
    BY Zenon, <1>2, SharedUntouched DEF GlobalClear, GlobalLoad, GlobalSet, GlobalDelete
  <2>3. Settled(p, q)
    BY Zenon DEF Settled, EntryPcs, InsidePcs
  <2> QED
    BY Zenon, <2>1, <2>2, <2>3, HopHold
<1>3. CASE GlobalUnlock(t)
  <2>1. CASE Fault(t, "unlock")
    <3>1. stack' = stack /\ \A slot \in Mutexes : Untouched(slot)
      BY Zenon, <2>1, SharedUntouched DEF Fault, shared
    <3> QED
      BY Zenon, <2>1, <3>1, HopHold DEF Fault, Settled
  <2>2. CASE /\ Held(t, Of(t, "mutex")) /\ Unlock(t, Of(t, "mutex")) /\ Return(t, "unlock", r[t])
    <3>1. "unlock" \in GlobalPcs /\ "unlock" \notin InsidePcs /\ "mutex" \in Mutexes
      BY DEF GlobalPcs, EntryPcs, InsidePcs, Mutexes
    <3>2. pc[t] = "unlock" /\ (HooksHeld(pc[t], stack[t]) => HooksHeld(pc'[t], stack'[t]))
      BY Zenon, <2>2, <3>1, ReturnHooks
    <3> QED
      BY Zenon, <2>2, <3>1, <3>2, UnlockHold
  <2> QED
    BY Zenon, <1>3, <2>1, <2>2 DEF GlobalUnlock, UnlockSlot
<1> QED
  BY Zenon, <1>1, <1>2, <1>3 DEF Global

(* A call of the registry from a first use.                                *)
LEMMA OneCallHold ==
  ASSUME FrameInv, NEW t \in Threads, NEW p \in {"idle"} \cup OnePcs, NEW kind, NEW name, NEW v,
         NEW b \in Labels, CallGlobal(t, p, kind, name, v, b), UNCHANGED <<owner, depth>>
  PROVE  HoldMove(t)
<1>1. PICK q \in {"lock_giant", "lock"} : Enter(t, p, q, b)
  BY Zenon DEF CallGlobal
<1>2. p \notin EntryPcs \cup InsidePcs \cup {"use", "unlock_hooks"}
  BY Zenon DEF OnePcs, MakePcs, FirstPcs, EntryPcs, InsidePcs
<1>3. \A slot \in Mutexes : Untouched(slot)
  BY Zenon, SharedUntouched
<1> QED
  BY Zenon, <1>1, <1>2, <1>3, CallHold

LEMMA PlainHold ==
  ASSUME FrameInv, NEW t \in Threads, NEW p, NEW q, Goto(t, p, q), stack' = stack,
         p \notin EntryPcs \cup InsidePcs \cup {"use", "unlock_hooks"} \/ q = "fault",
         \A slot \in Mutexes : Untouched(slot)
  PROVE  HoldMove(t)
  BY Zenon, HopHold DEF Settled

LEMMA HookHold ==
  ASSUME BaseInv, MadeInv, NEW t \in Threads,
         \/ InitializeHook(t)
         \/ LockSlot(t, "hookMutex", "lock_hooks", "use")
         \/ CreateUnlock(t)
  PROVE  HoldMove(t)
<1> USE DEF BaseInv
<1>1. CASE InitializeGiant(t) \/ InitializeLeave(t)
  <2>1. stack' = stack /\ \A slot \in Mutexes : Untouched(slot)
    BY Zenon, <1>1, SharedUntouched, GiantUntouches DEF InitializeGiant, LockGiant,
       InitializeLeave, shared
  <2>2. PICK p \in {"initialize", "leave_initialize"}, q \in {"has_giant", "idle", "lock_hooks"} :
          Goto(t, p, q)
    BY Zenon, <1>1 DEF InitializeGiant, LockGiant, InitializeLeave
  <2>3. p \notin EntryPcs \cup InsidePcs \cup {"use", "unlock_hooks"}
    BY Zenon DEF EntryPcs, InsidePcs
  <2> QED
    BY Zenon, <2>1, <2>2, <2>3, PlainHold
<1>2. ASSUME NEW p \in OnePcs, NEW q, Goto(t, p, q), stack' = stack, UNCHANGED <<owner, depth>>
      PROVE  HoldMove(t)
  <2>1. p \notin EntryPcs \cup InsidePcs \cup {"use", "unlock_hooks"}
    BY Zenon DEF OnePcs, MakePcs, FirstPcs, EntryPcs, InsidePcs
  <2>2. \A slot \in Mutexes : Untouched(slot)
    BY Zenon, <1>2, SharedUntouched
  <2> QED
    BY Zenon, <1>2, <2>1, <2>2, PlainHold
<1>3. {"has_giant", "has_mutex", "got_hookMutex", "got_hookHandler", "init_hookMutex",
       "init_hookHandler"} \subseteq OnePcs /\ MakeBacks \subseteq Labels
  BY DEF OnePcs, MakePcs, MakeBacks, Labels, HomePcs
<1>4. CASE \/ InitializeGet(t, "hookMutex", "has_giant", "got_hookMutex", "has_mutex")
           \/ InitializeGet(t, "hookHandler", "has_mutex", "got_hookHandler", "leave_initialize")
  BY Zenon, <1>2, <1>3, <1>4, OneCallHold DEF InitializeGet, shared, MakeBacks
<1>5. CASE \/ InitializeMake(t, "hookMutex", "got_hookMutex", "init_hookMutex", "has_mutex")
           \/ InitializeMake(t, "hookHandler", "got_hookHandler", "init_hookHandler", "leave_initialize")
  BY Zenon, <1>2, <1>3, <1>5 DEF InitializeMake
<1>6. CASE \/ InitializeReady(t, "hookMutex", "init_hookMutex", "has_mutex")
           \/ InitializeReady(t, "hookHandler", "init_hookHandler", "leave_initialize")
  BY Zenon, <1>3, <1>6, OneCallHold DEF InitializeReady, MakeBacks
<1>7. CASE LockSlot(t, "hookMutex", "lock_hooks", "use")
  <2>1. pc[t] = "lock_hooks"
    BY Zenon, <1>7 DEF LockSlot, Fault, Goto
  <2>2. stack[t] = <<>>
    BY Zenon, <2>1 DEF FrameInv, Frame, InGlobal, LookUpPcs, FirstPcs, InsidePcs, GlobalPcs,
       RegistryPcs, EntryPcs
  <2>3. ~Waiting(stack[t])
    BY Zenon, <2>2, WaitingEmpty
  <2>4. ~Holds("hookMutex", "lock_hooks", stack[t]) /\ Holds("hookMutex", "use", stack[t])
    BY <2>3 DEF Holds, HooksHeld
  <2>5. Settled("lock_hooks", "use")
    BY DEF Settled, EntryPcs, InsidePcs
  <2> QED
    BY Zenon, <1>7, <2>4, <2>5, LockSlotHold DEF Mutexes
<1>8. CASE CreateUnlock(t)
  <2>1. CASE Fault(t, "unlock_hooks")
    <3>1. stack' = stack /\ \A slot \in Mutexes : Untouched(slot)
      BY Zenon, <2>1, SharedUntouched DEF Fault, shared
    <3> QED
      BY Zenon, <2>1, <3>1, HopHold DEF Fault, Settled
  <2>2. CASE /\ Held(t, Of(t, "hookMutex")) /\ Unlock(t, Of(t, "hookMutex"))
             /\ Goto(t, "unlock_hooks", "idle")
    <3>1. pc[t] \notin EntryPcs \cup InsidePcs /\ "hookMutex" \in Mutexes
      BY Zenon, <2>2 DEF Goto, EntryPcs, InsidePcs, Mutexes
    <3> QED
      BY Zenon, <2>2, <3>1, UnlockHold
  <2> QED
    BY Zenon, <1>8, <2>1, <2>2 DEF CreateUnlock
<1> QED
  BY Zenon, <1>1, <1>4, <1>5, <1>6, <1>7, <1>8 DEF InitializeHook

(* A lookup pushes where it returns to; the hook mutex is in use meanwhile *)
(* when that is unlock_hooks.                                              *)
LEMMA LookUpCallHold ==
  ASSUME FrameInv, NEW t \in Threads, NEW p, NEW name, NEW b \in LookUpBacks,
         CallLookUp(t, p, name, b), p = "idle" \/ (p = "use" /\ b = "unlock_hooks")
  PROVE  HoldMove(t)
<1>1. PICK q \in {"first", "lock_symbols"} : Enter(t, p, q, b)
  BY Zenon DEF CallLookUp
<1>2. b \in Labels /\ \A slot \in Mutexes : Untouched(slot)
  BY Zenon, SharedUntouched DEF CallLookUp, shared, LookUpBacks, Labels, HomePcs, CreatePcs
<1>3. "idle" \notin EntryPcs \cup InsidePcs \cup {"use", "unlock_hooks"}
  BY DEF EntryPcs, InsidePcs
<1> QED
  BY Zenon, <1>1, <1>2, <1>3, CallHold

LEMMA LookUpHold ==
  ASSUME BaseInv, MadeInv, NEW t \in Threads, LookUp(t) \/ CreateUse(t) PROVE HoldMove(t)
<1> USE DEF BaseInv
<1>1. CASE CreateUse(t)
  BY Zenon, <1>1, LookUpCallHold DEF CreateUse, LookUpBacks
<1>2. CASE LockGiant(t, "first", "get_symbols") \/ LookUpLeaveFirst(t) \/ LookUpAllocate(t)
  <2>1. stack' = stack /\ \A slot \in Mutexes : Untouched(slot)
    BY Zenon, <1>2, SharedUntouched, GiantUntouches DEF LockGiant, LookUpLeaveFirst, LookUpAllocate
  <2>2. PICK p \in {"first", "leave_first", "allocate_symbolsMutex"},
             q \in {"get_symbols", "lock_symbols", "init_symbolsMutex"} : Goto(t, p, q)
    BY Zenon, <1>2 DEF LockGiant, LookUpLeaveFirst, LookUpAllocate
  <2>3. p \notin EntryPcs \cup InsidePcs \cup {"use", "unlock_hooks"}
    BY Zenon DEF EntryPcs, InsidePcs
  <2> QED
    BY Zenon, <2>1, <2>2, <2>3, PlainHold
<1>3. CASE LookUpGetCache(t) \/ LookUpGetMutex(t) \/ LookUpCreate(t) \/ LookUpInit(t)
  <2>1. {"get_symbols", "got_symbols", "init_symbolsMutex"} \subseteq OnePcs
        /\ FirstBacks \subseteq Labels
    BY DEF OnePcs, FirstPcs, FirstBacks, Labels, LookUpPcs
  <2> QED
    BY Zenon, <1>3, <2>1, OneCallHold DEF LookUpGetCache, LookUpGetMutex, LookUpCreate, LookUpInit,
       shared, FirstBacks
<1>4. CASE LockSlot(t, "symbolsMutex", "lock_symbols", "find")
  <2>1. /\ ~Holds("symbolsMutex", "lock_symbols", stack[t])
        /\ Holds("symbolsMutex", "find", stack[t])
    BY DEF Holds, InsidePcs
  <2>2. Settled("lock_symbols", "find")
    BY DEF Settled, EntryPcs, InsidePcs
  <2> QED
    BY Zenon, <1>4, <2>1, <2>2, LockSlotHold DEF Mutexes
<1>5. ASSUME NEW p \in InsidePcs, NEW q \in InsidePcs, Goto(t, p, q), stack' = stack,
             UNCHANGED <<owner, depth>>
      PROVE  HoldMove(t)
  <2>1. Settled(p, q)
    BY Zenon DEF Settled, EntryPcs, InsidePcs
  <2>2. \A slot \in Mutexes : Untouched(slot)
    BY Zenon, <1>5, SharedUntouched
  <2> QED
    BY Zenon, <1>5, <2>1, <2>2, HopHold
<1>6. CASE LookUpFind(t)
  BY Zenon, <1>5, <1>6 DEF LookUpFind, shared, InsidePcs
<1>7. CASE UnlockSlot(t, "symbolsMutex", "unlock_symbols", "ok")
  <2>1. CASE Fault(t, "unlock_symbols")
    <3>1. stack' = stack /\ \A slot \in Mutexes : Untouched(slot)
      BY Zenon, <2>1, SharedUntouched DEF Fault, shared
    <3> QED
      BY Zenon, <2>1, <3>1, HopHold DEF Fault, Settled
  <2>2. CASE /\ Held(t, Of(t, "symbolsMutex")) /\ Unlock(t, Of(t, "symbolsMutex"))
             /\ Return(t, "unlock_symbols", "ok")
    <3>1. "unlock_symbols" \in InsidePcs /\ "unlock_symbols" \notin EntryPcs
          /\ "symbolsMutex" \in Mutexes
      BY DEF EntryPcs, InsidePcs, Mutexes
    <3>2. /\ pc[t] = "unlock_symbols"
          /\ HooksHeld(pc[t], stack[t]) => HooksHeld(pc'[t], stack'[t])
      BY Zenon, <2>2, <3>1, ReturnHooks
    <3> QED
      BY Zenon, <2>2, <3>1, <3>2, UnlockHold
  <2> QED
    BY Zenon, <1>7, <2>1, <2>2 DEF UnlockSlot
<1>8. CASE LookUpMiss(t)
  <2>1. \A slot \in Mutexes : Untouched(slot)
    BY Zenon, <1>8, SharedUntouched DEF LookUpMiss
  <2>2. CASE Goto(t, "miss", "unlock_symbols") /\ stack' = stack
    BY Zenon, <1>5, <1>8, <2>2 DEF LookUpMiss, InsidePcs
  <2>3. CASE Return(t, "miss", "not_found") /\ missed' = [missed EXCEPT ![t] = @ + 1]
    <3>1. "miss" \in InsidePcs /\ "miss" \notin EntryPcs
      BY DEF EntryPcs, InsidePcs
    <3>2. pc[t] = "miss" /\ (HooksHeld(pc[t], stack[t]) => HooksHeld(pc'[t], stack'[t]))
      BY Zenon, <2>3, <3>1, ReturnHooks
    <3>3. missed'[t] # 0
      BY <2>3 DEF TypeInv
    <3> QED
      BY Zenon, <2>1, <3>1, <3>2, <3>3, KeepsAll
  <2> QED
    BY Zenon, <1>8, <2>2, <2>3 DEF LookUpMiss
<1> QED
  BY Zenon, <1>1, <1>2, <1>3, <1>4, <1>6, <1>7, <1>8 DEF LookUp, LookUpFirst

LEMMA StepHold ==
  ASSUME BaseInv, MadeInv, NEW t \in Threads, Step(t) PROVE HoldMove(t)
<1> USE DEF BaseInv
<1>1. CASE /\ \E n \in ClientNames, kind \in Work[t] \cap {"get", "set", "delete"} :
                \E v \in IF kind = "set" THEN Values ELSE {NULL} :
                  CallGlobal(t, "idle", kind, n, v, "idle")
           /\ UNCHANGED shared
  BY Zenon, <1>1, OneCallHold DEF shared, Labels, HomePcs
<1>2. CASE \E n \in Work[t] \cap KernelNames : CallLookUp(t, "idle", n, "idle")
  BY Zenon, <1>2, LookUpCallHold DEF LookUpBacks
<1>3. CASE CallCreate(t)
  <2>1. CASE CallLookUp(t, "idle", "Giant", "initialize")
    BY Zenon, <2>1, LookUpCallHold DEF LookUpBacks
  <2>2. CASE Goto(t, "idle", "lock_hooks") /\ UNCHANGED <<shared, stack>>
    <3>1. stack' = stack /\ \A slot \in Mutexes : Untouched(slot)
      BY Zenon, <2>2, SharedUntouched DEF shared
    <3>2. "idle" \notin EntryPcs \cup InsidePcs \cup {"use", "unlock_hooks"}
      BY DEF EntryPcs, InsidePcs
    <3> QED
      BY Zenon, <2>2, <3>1, <3>2, PlainHold
  <2> QED
    BY Zenon, <1>3, <2>1, <2>2 DEF CallCreate
<1>4. CASE Begin(t)
  BY Zenon, <1>1, <1>2, <1>3, <1>4 DEF Begin
<1> QED
  BY Zenon, <1>4, InitializeHold, GlobalHold, HookHold, LookUpHold DEF Step

LEMMA FreedStays ==
  ASSUME BaseInv, NEW t \in Threads, Step(t), NEW slot, Freed(slot, t) PROVE Freed(slot, t)'
<1>1. MissMove(t)
  BY Zenon, StepPrivate DEF Private
<1>2. pc[t] # "fault"
  BY Zenon DEF Step, Stopped
<1>3. missed[t] # 0 => missed'[t] # 0
  <2>1. missed \in [Threads -> Nat]
    BY Zenon DEF BaseInv, TypeInv
  <2> QED
    BY <1>1, <2>1 DEF MissMove
<1> QED
  BY Zenon, <1>2, <1>3 DEF Freed

LEMMA HoldStep ==
  ASSUME BaseInv, MadeInv, HoldInv, NEW t \in Threads, Step(t) PROVE HoldInv'
<1> USE DEF BaseInv
<1> SUFFICES ASSUME NEW slot \in Mutexes, NEW w \in Threads
             PROVE  /\ owner'[<<slot, w>>] = NULL => depth'[<<slot, w>>] = 0
                    /\ \A u \in Threads :
                         owner'[<<slot, w>>] = u /\ ~Freed(slot, u)' =>
                           /\ Holds(slot, pc'[u], stack'[u]) /\ depth'[<<slot, w>>] = 1
                           /\ \A v \in Threads : owner'[<<slot, v>>] = u => v = w
  BY Zenon DEF HoldInv, Holds, HooksHeld, Waiting
<1>1. /\ owner \in [Locks -> Threads \cup {NULL}] /\ depth \in [Locks -> Int]
      /\ \A v \in Threads : <<slot, v>> \in Locks
      /\ \A u, v \in Threads : <<slot, u>> = <<slot, v>> => u = v
  <2>1. owner \in [Locks -> Threads \cup {NULL}] /\ depth \in [Locks -> Int]
    BY Zenon DEF TypeInv
  <2> QED
    BY Zenon, <2>1, LocksHave
<1>2. \A u \in Threads \ {t} :
        /\ pc'[u] = pc[u] /\ stack'[u] = stack[u] /\ (Freed(slot, u)' <=> Freed(slot, u))
  BY Zenon, OthersStay DEF Freed
<1>3. Freed(slot, t) => Freed(slot, t)'
  BY Zenon, FreedStays
<1>4. t # NULL /\ NULL \notin Threads
  BY Zenon, ProgramAssumption
<1>5. \A v \in Threads : owner[<<slot, v>>] = NULL => depth[<<slot, v>>] = 0
  BY Zenon DEF HoldInv
<1>6. ASSUME NEW u \in Threads, NEW v \in Threads, owner[<<slot, v>>] = u, ~Freed(slot, u)
      PROVE  /\ Holds(slot, pc[u], stack[u]) /\ depth[<<slot, v>>] = 1
             /\ \A x \in Threads : owner[<<slot, x>>] = u => x = v
  BY ZenonT(60), <1>6 DEF HoldInv
<1>7. CASE Keeps(t, slot)
  <2>1. \A v \in Threads :
          owner'[<<slot, v>>] = owner[<<slot, v>>] /\ depth'[<<slot, v>>] = depth[<<slot, v>>]
    BY Zenon, <1>7 DEF Keeps, Untouched
  <2>2. ASSUME NEW u \in Threads, owner'[<<slot, w>>] = u, ~Freed(slot, u)'
        PROVE  /\ Holds(slot, pc'[u], stack'[u]) /\ depth'[<<slot, w>>] = 1
               /\ \A v \in Threads : owner'[<<slot, v>>] = u => v = w
    <3>1. owner[<<slot, w>>] = u /\ ~Freed(slot, u)
      BY Zenon, <1>2, <1>3, <2>1, <2>2
    <3>2. /\ Holds(slot, pc[u], stack[u]) /\ depth[<<slot, w>>] = 1
          /\ \A x \in Threads : owner[<<slot, x>>] = u => x = w
      BY Zenon, <1>6, <3>1
    <3>3. Holds(slot, pc'[u], stack'[u])
      BY Zenon, <1>2, <1>7, <2>2, <3>2 DEF Keeps
    <3> QED
      BY Zenon, <2>1, <3>2, <3>3
  <2> QED
    BY Zenon, <1>5, <2>1, <2>2
<1>8. CASE Takes(t, slot)
  <2>1. PICK x \in Threads : Lock(t, <<slot, x>>)
    BY Zenon, <1>8 DEF Takes
  <2>2. /\ owner[<<slot, x>>] \in {NULL, t} /\ owner'[<<slot, x>>] = t
        /\ depth'[<<slot, x>>] = depth[<<slot, x>>] + 1
        /\ \A v \in Threads \ {x} : /\ owner'[<<slot, v>>] = owner[<<slot, v>>]
                                    /\ depth'[<<slot, v>>] = depth[<<slot, v>>]
    BY <1>1, <2>1 DEF Lock
  <2>3. ASSUME ~Freed(slot, t)', NEW v \in Threads
        PROVE  owner[<<slot, v>>] # t
    BY Zenon, <1>3, <1>6, <1>8, <2>3 DEF Takes
  <2>4. CASE w # x
    <3>1. owner'[<<slot, w>>] = owner[<<slot, w>>] /\ depth'[<<slot, w>>] = depth[<<slot, w>>]
      BY Zenon, <2>2, <2>4
    <3>2. ASSUME NEW u \in Threads, owner'[<<slot, w>>] = u, ~Freed(slot, u)'
          PROVE  /\ Holds(slot, pc'[u], stack'[u]) /\ depth'[<<slot, w>>] = 1
                 /\ \A v \in Threads : owner'[<<slot, v>>] = u => v = w
      <4>1. u # t
        BY Zenon, <2>3, <3>1, <3>2
      <4>2. pc'[u] = pc[u] /\ stack'[u] = stack[u] /\ ~Freed(slot, u)
        BY Zenon, <1>2, <3>2, <4>1
      <4>3. /\ Holds(slot, pc[u], stack[u]) /\ depth[<<slot, w>>] = 1
            /\ \A v \in Threads : owner[<<slot, v>>] = u => v = w
        BY Zenon, <1>6, <3>1, <3>2, <4>2
      <4>4. \A v \in Threads : owner'[<<slot, v>>] = u => v = w
        BY Zenon, <2>2, <4>1, <4>3
      <4> QED
        BY Zenon, <3>1, <4>2, <4>3, <4>4
    <3> QED
      BY Zenon, <1>5, <3>1, <3>2
  <2>5. CASE w = x
    <3>1. ~Freed(slot, t)' => depth'[<<slot, x>>] = 1
      <4>1. ~Freed(slot, t)' => owner[<<slot, x>>] = NULL
        BY Zenon, <2>2, <2>3
      <4> QED
        BY <1>5, <2>2, <4>1
    <3> QED
      BY Zenon, <1>4, <1>8, <2>2, <2>3, <2>5, <3>1 DEF Takes
  <2> QED
    BY Zenon, <2>4, <2>5
<1>9. CASE GivesBack(t, slot)
  <2>1. PICK x \in Threads : owner[<<slot, x>>] = t /\ Unlock(t, <<slot, x>>)
    BY Zenon, <1>9 DEF GivesBack
  <2>2. /\ owner'[<<slot, x>>] = IF depth[<<slot, x>>] = 1 THEN NULL ELSE t
        /\ depth'[<<slot, x>>] = depth[<<slot, x>>] - 1
        /\ \A v \in Threads \ {x} : /\ owner'[<<slot, v>>] = owner[<<slot, v>>]
                                    /\ depth'[<<slot, v>>] = depth[<<slot, v>>]
    BY <1>1, <2>1 DEF Unlock
  <2>3. CASE w # x
    <3>1. owner'[<<slot, w>>] = owner[<<slot, w>>] /\ depth'[<<slot, w>>] = depth[<<slot, w>>]
      BY Zenon, <2>2, <2>3
    <3>2. ASSUME NEW u \in Threads, owner'[<<slot, w>>] = u, ~Freed(slot, u)'
          PROVE  /\ Holds(slot, pc'[u], stack'[u]) /\ depth'[<<slot, w>>] = 1
                 /\ \A v \in Threads : owner'[<<slot, v>>] = u => v = w
      <4>1. ~Freed(slot, u)
        BY Zenon, <1>2, <1>3, <3>2
      <4>2. /\ Holds(slot, pc[u], stack[u]) /\ depth[<<slot, w>>] = 1
            /\ \A v \in Threads : owner[<<slot, v>>] = u => v = w
        BY Zenon, <1>6, <3>1, <3>2, <4>1
      <4>3. u # t
        BY Zenon, <2>1, <2>3, <4>2
      <4>4. pc'[u] = pc[u] /\ stack'[u] = stack[u]
        BY Zenon, <1>2, <4>3
      <4>5. owner'[<<slot, x>>] # u
        BY Zenon, <1>4, <2>2, <4>3
      <4>6. \A v \in Threads : owner'[<<slot, v>>] = u => v = w
        BY Zenon, <2>2, <4>2, <4>5
      <4> QED
        BY Zenon, <3>1, <4>2, <4>4, <4>6
    <3> QED
      BY Zenon, <1>5, <3>1, <3>2
  <2>4. CASE w = x
    <3>1. owner'[<<slot, x>>] = NULL => depth'[<<slot, x>>] = 0
      BY <1>4, <2>2
    <3>2. ~Freed(slot, t)' => owner'[<<slot, x>>] = NULL
      BY Zenon, <1>3, <1>6, <2>1, <2>2
    <3>3. owner'[<<slot, x>>] \in {NULL, t}
      BY Zenon, <2>2
    <3> QED
      BY Zenon, <1>4, <2>4, <3>1, <3>2, <3>3
  <2> QED
    BY Zenon, <2>3, <2>4
<1> QED
  BY Zenon, <1>7, <1>8, <1>9, StepHold DEF HoldMove

LEMMA HoldInit == Init => HoldInv
<1> SUFFICES ASSUME Init PROVE HoldInv
  OBVIOUS
<1>1. owner = [m \in Locks |-> NULL] /\ depth = [m \in Locks |-> 0]
  BY Zenon DEF Init
<1>2. \A slot \in Mutexes, w \in Threads : owner[<<slot, w>>] = NULL /\ depth[<<slot, w>>] = 0
  BY Zenon, <1>1, LocksHave
<1> QED
  BY Zenon, <1>2, ProgramAssumption DEF HoldInv

-----------------------------------------------------------------------------
(* The mutexes a thread waits for.                                         *)
LEMMA NextLocks ==
  ASSUME NEW t, NextLock(t) # NULL
  PROVE  \/ pc[t] \in {"lock_giant", "first", "initialize"} /\ NextLock(t) = Giant
         \/ pc[t] = "lock" /\ NextLock(t) = Of(t, "mutex")
         \/ pc[t] = "lock_symbols" /\ NextLock(t) = Of(t, "symbolsMutex")
         \/ pc[t] = "lock_hooks" /\ NextLock(t) = Of(t, "hookMutex")
  BY DEF NextLock

LEMMA SlotLock ==
  ASSUME BaseInv, NEW t \in Threads, NEW z \in Mutexes, Of(t, z) \in Locks
  PROVE  \E w \in Threads : Of(t, z) = <<z, w>>
<1>1. Of(t, z) \in {NULL, Absent} \cup Named(z)
  <2>1. z \in Slots
    BY DEF Slots
  <2> QED
    BY Zenon, <2>1, StaticOf DEF Places
<1>2. NULL \notin Locks /\ Absent \notin Locks
  BY ProgramAssumption DEF Locks, Objects, Slots
<1> QED
  BY <1>1, <1>2 DEF Named

(* A state in which threads wait for each other in a circle contradicts    *)
(* the order of the mutexes: the owner of the registry's or the symbols'   *)
(* mutex waits for nobody; the owner of Giant waits only for Giant, which  *)
(* is its own; and the owner of the hook mutex waits for one of those.     *)
LEMMA WaitsEnd ==
  ASSUME BaseInv, GiantInv, HoldInv, \A t \in Threads : missed[t] = 0,
         NEW S \in SUBSET Threads, \A t \in S : WaitsFor(t) \in S
  PROVE  S = {}
<1> USE DEF BaseInv
<1>1. ASSUME NEW t \in S
      PROVE  /\ NextLock(t) \in Locks /\ owner[NextLock(t)] \in S /\ owner[NextLock(t)] # t
             /\ NextLock(t) # NULL /\ t \in Threads
  <2>1. WaitsFor(t) \in S /\ NULL \notin S
    BY Zenon, ProgramAssumption
  <2>2. NULL \notin Locks
    BY ProgramAssumption DEF Locks, Objects, Slots
  <2> QED
    BY Zenon, <2>1, <2>2 DEF WaitsFor
<1>2. ASSUME NEW t \in S
      PROVE  pc[t] \in {"lock_giant", "first", "initialize", "lock", "lock_symbols", "lock_hooks"}
  BY Zenon, <1>1, NextLocks
<1>3. ASSUME NEW z \in Mutexes, NEW t \in S, NextLock(t) = Of(t, z)
      PROVE  \E u \in S : Holds(z, pc[u], stack[u])
  <2>1. PICK w \in Threads : Of(t, z) = <<z, w>>
    BY Zenon, <1>1, <1>3, SlotLock
  <2>2. PICK u \in S : owner[<<z, w>>] = u
    BY Zenon, <1>1, <1>3, <2>1
  <2>3. u \in Threads /\ ~Freed(z, u)
    BY Zenon, <1>2 DEF Freed
  <2> QED
    BY Zenon, <2>2, <2>3 DEF HoldInv
<1>4. ASSUME NEW t \in S
      PROVE  pc[t] # "lock"
  <2> SUFFICES ASSUME pc[t] = "lock" PROVE FALSE
    OBVIOUS
  <2>1. NextLock(t) = Of(t, "mutex")
    BY Zenon, <1>1, NextLocks
  <2>2. PICK u \in S : pc[u] \in EntryPcs
    BY <1>3, <2>1 DEF Mutexes, Holds
  <2> QED
    BY Zenon, <1>2, <2>2 DEF EntryPcs
<1>5. ASSUME NEW t \in S
      PROVE  pc[t] # "lock_symbols"
  <2> SUFFICES ASSUME pc[t] = "lock_symbols" PROVE FALSE
    OBVIOUS
  <2>1. NextLock(t) = Of(t, "symbolsMutex")
    BY Zenon, <1>1, NextLocks
  <2>2. PICK u \in S : pc[u] \in InsidePcs
    BY <1>3, <2>1 DEF Mutexes, Holds
  <2> QED
    BY Zenon, <1>2, <2>2 DEF InsidePcs
<1>6. ASSUME NEW t \in S
      PROVE  NextLock(t) # Giant
  <2> SUFFICES ASSUME NextLock(t) = Giant PROVE FALSE
    OBVIOUS
  <2>1. PICK u \in S : owner[Giant] = u
    BY Zenon, <1>1
  <2>2. u \in Threads /\ pc[u] # "fault" /\ u # NULL
    BY Zenon, <1>2, ProgramAssumption
  <2>3. GiantDepth(pc[u], stack[u]) # 0
    <3>1. GiantDepth(pc[u], stack[u]) = depth[Giant] /\ depth[Giant] >= 1
      BY Zenon, <2>1, <2>2 DEF GiantInv
    <3> QED
      BY <3>1
  <2>4. pc[u] \notin FreePcs
    BY Zenon, <2>3, FreeDepth
  <2>5. pc[u] = "lock_giant"
    BY Zenon, <1>2, <1>4, <2>4 DEF FreePcs, CreatePcs
  <2>6. NextLock(u) = Giant
    BY Zenon, <1>1, <2>5, NextLocks
  <2> QED
    BY Zenon, <1>1, <2>1, <2>6
<1>7. ASSUME NEW t \in S
      PROVE  pc[t] = "lock_hooks" /\ NextLock(t) = Of(t, "hookMutex")
  BY Zenon, <1>1, <1>4, <1>5, <1>6, NextLocks
<1>8. ASSUME NEW t \in S
      PROVE  FALSE
  <2>1. PICK u \in S : HooksHeld(pc[u], stack[u])
    BY <1>3, <1>7 DEF Mutexes, Holds
  <2>2. stack[u] = <<>> /\ pc[u] \notin {"use", "unlock_hooks"}
    BY Zenon, <1>7 DEF FrameInv, Frame, InGlobal, LookUpPcs, FirstPcs, InsidePcs, GlobalPcs,
       RegistryPcs, EntryPcs
  <2> QED
    BY Zenon, <2>1, <2>2, WaitingEmpty DEF HooksHeld
<1> QED
  BY Zenon, <1>8

-----------------------------------------------------------------------------
(* The first use of the hooks by a program, and what its thread knows of   *)
(* the handler: before it is looked for, it is missing or ready; when it   *)
(* was found, and once it was made ready, it is ready.                     *)
Making(p, s) == p \in MakePcs \/ (p \in GlobalPcs /\ Head(s) \in MakeBacks)
Early(p, s) ==
  \/ p \in {"has_giant", "got_hookMutex", "init_hookMutex", "has_mutex"}
  \/ p \in GlobalPcs /\ Head(s) \in {"got_hookMutex", "has_mutex"}
Got(p, s) == p = "got_hookHandler" \/ (p = "unlock" /\ Head(s) = "got_hookHandler")
Late(p, s) == p = "leave_initialize" \/ (p \in GlobalPcs /\ Head(s) = "leave_initialize")

HandlerAt(t) ==
  /\ Early(pc[t], stack[t]) => Of(t, "hookHandler") \in {NULL} \cup ready
  /\ Got(pc[t], stack[t]) /\ r[t] = "ok" => Of(t, "hookHandler") \in ready
  /\ Late(pc[t], stack[t]) => Of(t, "hookHandler") \in ready

(* A program's handler is ready, or one of its threads is in the first use *)
(* of the hooks, or there was none yet.                                    *)
HandlerOf(p) ==
  \/ static[p]["hookHandler"] \in ready
  \/ \E u \in Threads :
       /\ ProgramOf[u] = p /\ owner[Giant] = u
       /\ Making(pc[u], stack[u]) \/ pc[u] = "fault"
  \/ /\ static[p]["hookMutex"] = NULL /\ static[p]["hookHandler"] = NULL
     /\ \A u \in Threads : ProgramOf[u] = p => pc[u] \notin {"lock_hooks", "use"}

HandlerInv == (\A t \in Threads : HandlerAt(t)) /\ (\A p \in Programs : HandlerOf(p))

HookSlots == {"hookMutex", "hookHandler"}
HooksSame == \A p \in Programs, s \in HookSlots : static'[p][s] = static[p][s]

HandlerMove(t) ==
  /\ \A p \in Programs, s \in HookSlots :
       \/ static'[p][s] = static[p][s]
       \/ p = ProgramOf[t] /\ Making(pc[t], stack[t]) /\ Making(pc'[t], stack'[t])
  /\ Making(pc[t], stack[t]) =>
       \/ Making(pc'[t], stack'[t])
       \/ pc'[t] = "fault" /\ Still
       \/ Late(pc[t], stack[t]) /\ static' = static
  /\ pc'[t] \in {"lock_hooks", "use"} =>
       pc[t] = "lock_hooks" \/ Late(pc[t], stack[t]) \/ Of(t, "hookMutex") # NULL
  /\ Early(pc'[t], stack'[t]) =>
       /\ Of(t, "hookHandler")' = Of(t, "hookHandler")
       /\ Early(pc[t], stack[t]) \/ (pc[t] = "initialize" /\ Lock(t, Giant))
  /\ Got(pc'[t], stack'[t]) /\ r'[t] = "ok" =>
       \/ Of(t, "hookHandler")' \in ready'
       \/ /\ Of(t, "hookHandler")' = Of(t, "hookHandler")
          /\ Got(pc[t], stack[t]) /\ r[t] = "ok"
  /\ Late(pc'[t], stack'[t]) =>
       \/ Of(t, "hookHandler")' \in ready'
       \/ /\ Of(t, "hookHandler")' = Of(t, "hookHandler")
          /\ \/ Late(pc[t], stack[t])
             \/ Early(pc[t], stack[t]) /\ Of(t, "hookHandler") # NULL
             \/ Got(pc[t], stack[t]) /\ r[t] = "ok"

LEMMA WithinMaking ==
  ASSUME NEW p, NEW s
  PROVE  /\ Early(p, s) => Making(p, s)
         /\ Got(p, s) => Making(p, s)
         /\ Late(p, s) => Making(p, s)
  BY Zenon DEF Early, Got, Late, Making, MakePcs, MakeBacks, GlobalPcs, EntryPcs

LEMMA OfSame ==
  ASSUME HooksSame, NEW t \in Threads
  PROVE  Of(t, "hookHandler")' = Of(t, "hookHandler") /\ Of(t, "hookMutex")' = Of(t, "hookMutex")
  BY Zenon, ProgramAssumption DEF HooksSame, HookSlots, Of

LEMMA StoreElsewhere ==
  ASSUME TypeInv, NEW t \in Threads, NEW s \in Slots \ HookSlots, NEW v \in Anything,
         Store(t, s, v)
  PROVE  HooksSame
<1>1. \A p \in Programs, z \in Slots : z # s => static'[p][z] = static[p][z]
  BY StaticMoved
<1>2. HookSlots \subseteq Slots
  BY DEF HookSlots, Slots, Mutexes
<1> QED
  BY Zenon, <1>1, <1>2 DEF HooksSame

(* Outside the first use of the hooks.                                     *)
LEMMA OutsideHandler ==
  ASSUME NEW t \in Threads, HooksSame, ~Making(pc[t], stack[t]), ~Making(pc'[t], stack'[t]),
         pc'[t] \in {"lock_hooks", "use"} => pc[t] = "lock_hooks" \/ Of(t, "hookMutex") # NULL
  PROVE  HandlerMove(t)
  BY Zenon, WithinMaking DEF HandlerMove, HooksSame

LEMMA FaultHandler ==
  ASSUME FrameInv, NEW t \in Threads, NEW p, Fault(t, p) PROVE HandlerMove(t)
<1>1. pc'[t] = "fault" /\ HooksSame /\ Still
  BY Zenon, Goes DEF Fault, shared, HooksSame, Still
<1>2. "fault" \notin MakePcs \cup GlobalPcs
  BY DEF MakePcs, GlobalPcs, RegistryPcs, EntryPcs
<1>3. ~Making(pc'[t], stack'[t])
  BY Zenon, <1>1, <1>2 DEF Making
<1> QED
  BY Zenon, <1>1, <1>3, WithinMaking DEF HandlerMove, HooksSame

(* A step inside the registry.                                             *)
LEMMA RegistryHandler ==
  ASSUME FrameInv, NEW t \in Threads, NEW p \in GlobalPcs, NEW q \in GlobalPcs, Goto(t, p, q),
         stack' = stack, HooksSame, q = "unlock" => Head(stack[t]) # "got_hookHandler"
  PROVE  HandlerMove(t)
<1>1. pc[t] = p /\ pc'[t] = q /\ stack'[t] = stack[t]
  BY Zenon, Goes
<1>2. p \notin MakePcs \cup {"lock_hooks", "use"} /\ q \notin MakePcs \cup {"lock_hooks", "use"}
  BY Zenon DEF MakePcs, GlobalPcs, RegistryPcs, EntryPcs
<1>3. Making(p, stack[t]) <=> Making(q, stack[t])
  BY Zenon, <1>2 DEF Making
<1>4. /\ Early(q, stack[t]) => Early(p, stack[t])
      /\ Late(q, stack[t]) => Late(p, stack[t])
      /\ ~Got(q, stack[t])
  BY Zenon, <1>2 DEF Early, Late, Got, MakePcs
<1> QED
  BY Zenon, <1>1, <1>2, <1>3, <1>4, OfSame DEF HandlerMove, HooksSame

LEMMA RegistryLeaves ==
  ASSUME FrameInv, NEW t \in Threads, NEW p \in GlobalPcs, NEW code, Return(t, p, code),
         static' = static, code = "ok" => p = "unlock" /\ r[t] = "ok",
         r \in [Threads -> Codes]
  PROVE  HandlerMove(t)
<1>1. pc[t] = p /\ pc'[t] = Head(stack[t])
  BY Zenon, Returns
<1>2. r'[t] = code
  BY DEF Return
<1>3. PICK b \in Labels : b = Head(stack[t]) /\ b \in {"idle"} \cup MakeBacks \cup FirstBacks
  <2>1. PICK b \in Labels, z \in Seq(Labels) : stack[t] = <<b>> \o z /\ Under(b, z)
    BY Zenon, <1>1 DEF FrameInv, Frame, InGlobal, HomePcs, CreatePcs, MakePcs, LookUpPcs, FirstPcs,
       InsidePcs, GlobalPcs, RegistryPcs, EntryPcs
  <2> QED
    BY Zenon, <2>1, Pushed DEF Under
<1>4. b \notin GlobalPcs /\ b \notin {"lock_hooks", "use", "has_giant", "init_hookMutex"}
  BY Zenon, <1>3 DEF MakeBacks, FirstBacks, GlobalPcs, RegistryPcs, EntryPcs
<1>5. HooksSame
  BY Zenon DEF HooksSame
<1>6. Making(p, stack[t]) => Making(b, stack'[t])
  BY Zenon, <1>1, <1>3 DEF Making, MakePcs, MakeBacks, GlobalPcs, RegistryPcs, EntryPcs
<1>7. /\ Early(b, stack'[t]) => Early(p, stack[t])
      /\ Late(b, stack'[t]) => Late(p, stack[t])
  BY Zenon, <1>3, <1>4 DEF Early, Late
<1>8. Got(b, stack'[t]) /\ code = "ok" => Got(p, stack[t]) /\ r[t] = "ok"
  BY Zenon, <1>3, <1>4 DEF Got, GlobalPcs, EntryPcs
<1> QED
  BY Zenon, <1>1, <1>2, <1>3, <1>4, <1>5, <1>6, <1>7, <1>8, OfSame DEF HandlerMove, HooksSame

LEMMA Called ==
  ASSUME FrameInv, NEW t \in Threads, pc[t] \in GlobalPcs
  PROVE  /\ Purpose(Head(stack[t]), call[t].kind, call[t].name)
         /\ Kind(pc[t], call[t].kind)
<1>1. InGlobal(pc[t], stack[t], call[t])
  BY Zenon DEF FrameInv, Frame, HomePcs, CreatePcs, MakePcs, LookUpPcs, FirstPcs, InsidePcs,
     GlobalPcs, RegistryPcs, EntryPcs
<1>2. PICK b \in Labels, z \in Seq(Labels) :
        stack[t] = <<b>> \o z /\ Purpose(b, call[t].kind, call[t].name)
  BY Zenon, <1>1 DEF InGlobal
<1>3. Head(stack[t]) = b
  BY Zenon, <1>2, Pushed
<1> QED
  BY Zenon, <1>1, <1>2, <1>3 DEF InGlobal

LEMMA InitializeHandler ==
  ASSUME BaseInv, NEW t \in Threads, Initialize(t) PROVE HandlerMove(t)
<1> USE DEF BaseInv
<1>1. CASE InitializeUnlock(t)
  <2>1. r \in [Threads -> Codes] /\ static' = static /\ HooksSame
        /\ {"unlock_giant", "lock"} \subseteq GlobalPcs /\ "lock" # "unlock"
    BY Zenon, <1>1 DEF InitializeUnlock, TypeInv, Codes, HooksSame, GlobalPcs, RegistryPcs
  <2> QED
    BY Zenon, <1>1, <2>1, RegistryHandler, RegistryLeaves DEF InitializeUnlock
<1>2. CASE ~InitializeUnlock(t)
  <2>1. stack' = stack
    BY Zenon, <1>2 DEF Initialize, LockGiant, InitializeCache, InitializeClear, InitializeLoad,
       InitializeAllocate, InitializeMutex, InitializePublish
  <2>2. PICK p \in {"lock_giant"} \cup RegistryPcs, q \in RegistryPcs : Goto(t, p, q)
    BY Zenon, <1>2 DEF Initialize, LockGiant, InitializeCache, InitializeClear, InitializeLoad,
       InitializeAllocate, InitializeMutex, InitializePublish, RegistryPcs
  <2>3. p \in GlobalPcs /\ q \in GlobalPcs /\ q # "unlock"
    BY Zenon DEF GlobalPcs, RegistryPcs
  <2>4. HooksSame
    <3>1. static' = static \/ \E s \in {"cache", "mutex"} : \E v : Store(t, s, v)
      BY Zenon, <1>2 DEF Initialize, LockGiant, InitializeCache, InitializeClear, InitializeLoad,
         InitializeAllocate, InitializeMutex, InitializePublish
    <3>2. CASE static' = static
      BY Zenon, <3>2 DEF HooksSame
    <3>3. ASSUME NEW s \in {"cache", "mutex"}, NEW v, Store(t, s, v)
          PROVE  HooksSame
      <4>1. static \in [Programs -> [Slots -> Anything]] /\ s \in Slots \ HookSlots
            /\ ProgramOf[t] \in Programs
        BY ProgramAssumption DEF TypeInv, Slots, Mutexes, HookSlots
      <4>2. HookSlots \subseteq Slots
        BY DEF HookSlots, Slots, Mutexes
      <4> QED
        BY <3>3, <4>1, <4>2 DEF Store, HooksSame
    <3> QED
      BY Zenon, <3>1, <3>2, <3>3
  <2> QED
    BY Zenon, <2>1, <2>2, <2>3, <2>4, RegistryHandler
<1> QED
  BY Zenon, <1>1, <1>2

(* The registry's answer goes to a static pointer of the hooks.            *)
LEMMA AnswerHandler ==
  ASSUME BaseInv, NEW t \in Threads, NEW p \in {"get", "load"}, NEW q \in {"load", "unlock"},
         Goto(t, p, q), stack' = stack, NEW s \in HookSlots, NEW v \in Anything, Store(t, s, v),
         Head(stack[t]) = IF s = "hookMutex" THEN "got_hookMutex" ELSE "got_hookHandler",
         s = "hookHandler" /\ q = "unlock" => v \in ready'
  PROVE  HandlerMove(t)
<1> USE DEF BaseInv
<1>1. /\ pc[t] = p /\ pc'[t] = q /\ stack'[t] = stack[t]
      /\ p \in GlobalPcs /\ q \in GlobalPcs /\ q \notin MakePcs \cup {"lock_hooks", "use"}
      /\ HookSlots \subseteq Slots /\ p \notin MakePcs
      /\ {"got_hookMutex", "got_hookHandler"} \subseteq MakeBacks
  BY Zenon, Goes DEF GlobalPcs, EntryPcs, MakePcs, MakeBacks, HookSlots, Slots, Mutexes
<1>2. /\ \A x \in Programs, z \in HookSlots :
           x # ProgramOf[t] \/ z # s => static'[x][z] = static[x][z]
      /\ static'[ProgramOf[t]][s] = v /\ ProgramOf[t] \in Programs
  BY <1>1, StaticMoved, ProgramAssumption
<1>3. Making(pc[t], stack[t]) /\ Making(pc'[t], stack'[t])
  BY Zenon, <1>1 DEF Making
<1>4. ~Late(pc'[t], stack'[t]) /\ q \notin {"got_hookHandler", "leave_initialize"}
  BY <1>1 DEF Late, MakePcs
<1>5. CASE s = "hookMutex"
  <2>1. Early(pc[t], stack[t]) /\ ~Got(pc'[t], stack'[t])
    BY <1>1, <1>4, <1>5 DEF Early, Got
  <2>2. Of(t, "hookHandler")' = Of(t, "hookHandler")
    BY <1>2, <1>5 DEF Of, HookSlots
  <2> QED
    BY Zenon, <1>1, <1>2, <1>3, <1>4, <2>1, <2>2 DEF HandlerMove
<1>6. CASE s = "hookHandler"
  <2>1. ~Early(pc'[t], stack'[t])
    BY <1>1, <1>6 DEF Early, MakePcs
  <2>2. Of(t, "hookHandler")' = v
    BY Zenon, <1>2, <1>6 DEF Of
  <2>3. Got(pc'[t], stack'[t]) => q = "unlock"
    BY Zenon, <1>1, <1>4 DEF Got
  <2> QED
    BY Zenon, <1>1, <1>2, <1>3, <1>4, <1>6, <2>1, <2>2, <2>3 DEF HandlerMove
<1> QED
  BY Zenon, <1>5, <1>6 DEF HookSlots

LEMMA GlobalHandler ==
  ASSUME BaseInv, NEW t \in Threads, Global(t) PROVE HandlerMove(t)
<1> USE DEF BaseInv
<1>0. /\ EntryPcs \subseteq GlobalPcs /\ "lock" \in GlobalPcs
      /\ {"get", "load", "set", "delete", "unlock"} \subseteq EntryPcs
  BY DEF GlobalPcs, EntryPcs
<1>1. CASE GlobalLock(t)
  <2>1. CASE Fault(t, "lock")
    BY Zenon, <2>1, FaultHandler
  <2>2. CASE Goto(t, "lock", call[t].kind) /\ UNCHANGED <<static, stack>>
    <3>1. call[t].kind \in EntryPcs \ {"unlock"}
      BY DEF FrameInv, CallRecords, EntryPcs
    <3>2. HooksSame
      BY Zenon, <2>2 DEF HooksSame
    <3> QED
      BY Zenon, <1>0, <2>2, <3>1, <3>2, RegistryHandler
  <2> QED
    BY Zenon, <1>1, <2>1, <2>2 DEF GlobalLock, LockSlot
<1>2. CASE GlobalUnlock(t)
  <2>1. CASE Fault(t, "unlock")
    BY Zenon, <2>1, FaultHandler
  <2>2. CASE Return(t, "unlock", r[t]) /\ UNCHANGED static
    <3>1. r \in [Threads -> Codes]
      BY Zenon DEF TypeInv, Codes
    <3> QED
      BY Zenon, <1>0, <2>2, <3>1, RegistryLeaves
  <2> QED
    BY Zenon, <1>2, <2>1, <2>2 DEF GlobalUnlock, UnlockSlot
<1>3. CASE GlobalSet(t) \/ GlobalDelete(t)
  <2>1. PICK p \in {"set", "delete"} : Goto(t, p, "unlock")
    BY Zenon, <1>3 DEF GlobalSet, GlobalDelete
  <2>2. pc[t] = p /\ static' = static /\ stack' = stack
    BY Zenon, <1>3, <2>1 DEF GlobalSet, GlobalDelete, Goto
  <2>3. Purpose(Head(stack[t]), call[t].kind, call[t].name) /\ call[t].kind = p
    BY Zenon, <1>0, <2>2, Called DEF Kind
  <2>4. Head(stack[t]) # "got_hookHandler" /\ HooksSame
    BY Zenon, <2>2, <2>3 DEF Purpose, HooksSame
  <2> QED
    BY Zenon, <1>0, <2>1, <2>2, <2>4, RegistryHandler
<1>4. ASSUME NEW p \in {"get", "load"}, NEW q \in {"load", "unlock"}, Goto(t, p, q),
             stack' = stack, NEW v \in Anything, Out(t, v),
             call[t].name = "hookHandler" /\ q = "unlock" => v \in ready'
      PROVE  HandlerMove(t)
  <2>1. pc[t] = p
    BY Zenon, <1>4 DEF Goto
  <2>2. Purpose(Head(stack[t]), call[t].kind, call[t].name) /\ call[t].kind = "get"
    BY Zenon, <1>0, <2>1, Called DEF Kind
  <2>3. CASE call[t].name \in HookSlots
    <3>1. Head(stack[t]) = IF call[t].name = "hookMutex" THEN "got_hookMutex" ELSE "got_hookHandler"
      <4>1. "hookMutex" \notin ClientNames /\ "hookHandler" \notin ClientNames
        BY ProgramAssumption DEF Slots, Mutexes
      <4> QED
        BY <2>2, <2>3, <4>1 DEF Purpose, HookSlots
    <3>2. Store(t, call[t].name, v)
      BY Zenon, <1>4, <2>3 DEF Out, HookSlots, Slots, Mutexes
    <3> QED
      BY Zenon, <1>4, <2>3, <3>1, <3>2, AnswerHandler
  <2>4. CASE call[t].name \notin HookSlots
    <3>1. HooksSame
      <4>1. CASE call[t].name \in Slots
        BY Zenon, <1>4, <2>4, <4>1, StoreElsewhere DEF Out
      <4>2. CASE call[t].name \notin Slots
        BY Zenon, <1>4, <4>2 DEF Out, HooksSame
      <4> QED
        BY Zenon, <4>1, <4>2
    <3>2. Head(stack[t]) # "got_hookHandler"
      BY Zenon, <2>2, <2>4 DEF Purpose, HookSlots
    <3> QED
      BY Zenon, <1>0, <1>4, <3>1, <3>2, RegistryHandler
  <2> QED
    BY Zenon, <2>3, <2>4
<1>5. CASE GlobalClear(t)
  <2>1. NULL \in Anything
    BY DEF Anything
  <2> QED
    BY Zenon, <1>4, <1>5, <2>1 DEF GlobalClear
<1>6. CASE GlobalLoad(t)
  <2>1. PICK v : v = contents[Of(t, "cache")][call[t].name]
    OBVIOUS
  <2>2. pc[t] = "load" /\ Goto(t, "load", "unlock") /\ stack' = stack /\ ready' = ready
    BY Zenon, <1>6 DEF GlobalLoad, Goto
  <2>3. Of(t, "cache") \in Named("cache") /\ call[t].name \in Names
    BY Zenon, <1>0, <2>2, StaticOf, CallOf DEF CachePcs, GlobalPcs
  <2>4. CASE v # Absent
    <3>1. v \in Anything
      <4>1. Of(t, "cache") \in Caches /\ contents \in [Caches -> [Names -> Anything]]
        BY <2>3 DEF TypeInv, Named, Caches
      <4> QED
        BY <2>1, <2>3, <4>1
    <3>2. call[t].name = "hookHandler" => v \in ready
      <4>1. Registered(call[t].name, v, ready)
        BY Zenon, <2>1, <2>3 DEF DataInv
      <4>2. "hookHandler" \in Slots \ {"cache", "symbols"}
        BY DEF Slots
      <4> QED
        BY Zenon, <2>4, <4>1, <4>2 DEF Registered
    <3>3. Out(t, v)
      BY Zenon, <1>6, <2>1, <2>4 DEF GlobalLoad
    <3> QED
      BY Zenon, <1>4, <2>2, <3>1, <3>2, <3>3
  <2>5. CASE v = Absent
    <3>1. r' = [r EXCEPT ![t] = "not_found"] /\ static' = static
      BY Zenon, <1>6, <2>1, <2>5 DEF GlobalLoad
    <3>2. r'[t] # "ok" /\ HooksSame
      BY <3>1 DEF TypeInv, HooksSame
    <3>3. pc'[t] = "unlock" /\ stack'[t] = stack[t] /\ "load" \in GlobalPcs /\ "unlock" \in GlobalPcs
      BY Zenon, <1>0, <2>2, Goes
    <3>4. CASE Head(stack[t]) # "got_hookHandler"
      BY Zenon, <2>2, <3>2, <3>3, <3>4, RegistryHandler
    <3>5. CASE Head(stack[t]) = "got_hookHandler"
      <4>1. ~Early(pc'[t], stack'[t]) /\ ~Late(pc'[t], stack'[t]) /\ Making(pc'[t], stack'[t])
        BY Zenon, <3>3, <3>5 DEF Early, Late, Making, MakeBacks
      <4> QED
        BY Zenon, <3>2, <3>3, <4>1 DEF HandlerMove, HooksSame
    <3> QED
      BY Zenon, <3>4, <3>5
  <2> QED
    BY Zenon, <2>4, <2>5
<1> QED
  BY Zenon, <1>1, <1>2, <1>3, <1>5, <1>6 DEF Global

(* A call of the registry from the first use of the hooks.                 *)
LEMMA CallsHandler ==
  ASSUME FrameInv, NEW t \in Threads, NEW p \in MakePcs, NEW kind, NEW name, NEW v,
         NEW b \in MakeBacks, CallGlobal(t, p, kind, name, v, b)
  PROVE  /\ pc[t] = p /\ pc'[t] \in {"lock_giant", "lock"} /\ Head(stack'[t]) = b
         /\ Making(pc[t], stack[t]) /\ Making(pc'[t], stack'[t]) /\ ~Got(pc'[t], stack'[t])
         /\ Early(pc'[t], stack'[t]) <=> b \in {"got_hookMutex", "has_mutex"}
         /\ Late(pc'[t], stack'[t]) <=> b = "leave_initialize"
<1>1. PICK q \in {"lock_giant", "lock"} : Enter(t, p, q, b)
  BY Zenon DEF CallGlobal
<1>2. b \in Labels /\ q \in GlobalPcs /\ q # "unlock" /\ q \notin MakePcs
  BY Zenon DEF MakeBacks, Labels, HomePcs, MakePcs, GlobalPcs
<1>3. pc[t] = p /\ pc'[t] = q /\ Head(stack'[t]) = b
  BY Zenon, <1>1, <1>2, Enters
<1> QED
  BY Zenon, <1>2, <1>3 DEF Making, Early, Late, Got, MakePcs

LEMMA HookHandlers ==
  ASSUME BaseInv, NEW t \in Threads,
         \/ InitializeHook(t)
         \/ LockSlot(t, "hookMutex", "lock_hooks", "use")
         \/ CreateUnlock(t)
  PROVE  HandlerMove(t)
<1> USE DEF BaseInv
<1>0. ASSUME static' = static PROVE HooksSame
  BY Zenon, <1>0 DEF HooksSame
<1>1. ASSUME NEW p \in CreatePcs, NEW q \in {"idle", "use"}, Goto(t, p, q), static' = static,
             q = "use" => p = "lock_hooks"
      PROVE  HandlerMove(t)
  <2>1. pc[t] = p /\ pc'[t] = q
    BY Zenon, <1>1, Goes
  <2>2. ~Making(pc[t], stack[t]) /\ ~Making(pc'[t], stack'[t])
    BY Zenon, <2>1 DEF Making, CreatePcs, MakePcs, GlobalPcs, RegistryPcs, EntryPcs
  <2> QED
    BY Zenon, <1>0, <1>1, <2>1, <2>2, OutsideHandler
<1>2. CASE CreateUnlock(t)
  BY Zenon, <1>1, <1>2, FaultHandler DEF CreateUnlock, CreatePcs
<1>3. CASE LockSlot(t, "hookMutex", "lock_hooks", "use")
  BY Zenon, <1>1, <1>3, FaultHandler DEF LockSlot, CreatePcs
<1>4. CASE InitializeGiant(t)
  <2>1. CASE Goto(t, "initialize", "idle") /\ static' = static
    BY Zenon, <1>1, <2>1 DEF CreatePcs
  <2>2. CASE LockGiant(t, "initialize", "has_giant")
    <3>1. pc[t] = "initialize" /\ pc'[t] = "has_giant" /\ static' = static /\ Lock(t, Giant)
      BY Zenon, <2>2, Goes DEF LockGiant
    <3>2. /\ ~Making(pc[t], stack[t]) /\ Making(pc'[t], stack'[t])
          /\ ~Got(pc'[t], stack'[t]) /\ ~Late(pc'[t], stack'[t])
      BY Zenon, <3>1 DEF Making, Got, Late, MakePcs, GlobalPcs, RegistryPcs, EntryPcs
    <3> QED
      BY Zenon, <1>0, <3>1, <3>2, OfSame DEF HandlerMove, HooksSame
  <2> QED
    BY Zenon, <1>4, <2>1, <2>2 DEF InitializeGiant, shared
<1>5. CASE InitializeGet(t, "hookMutex", "has_giant", "got_hookMutex", "has_mutex")
  <2>1. static' = static /\ HooksSame
    BY Zenon, <1>0, <1>5 DEF InitializeGet, shared
  <2>2. CASE CallGlobal(t, "has_giant", "get", "hookMutex", NULL, "got_hookMutex")
    <3>1. "has_giant" \in MakePcs /\ "got_hookMutex" \in MakeBacks
      BY DEF MakePcs, MakeBacks
    <3>2. /\ pc[t] = "has_giant" /\ pc'[t] \in {"lock_giant", "lock"}
          /\ Making(pc[t], stack[t]) /\ Making(pc'[t], stack'[t]) /\ ~Got(pc'[t], stack'[t])
          /\ Late(pc'[t], stack'[t]) <=> "got_hookMutex" = "leave_initialize"
      BY Zenon, <2>2, <3>1, CallsHandler
    <3>3. Early(pc[t], stack[t])
      BY Zenon, <3>2 DEF Early
    <3> QED
      BY Zenon, <2>1, <3>2, <3>3, OfSame DEF HandlerMove, HooksSame
  <2>3. CASE Goto(t, "has_giant", "has_mutex")
    <3>1. pc[t] = "has_giant" /\ pc'[t] = "has_mutex"
      BY Zenon, <2>3, Goes
    <3>2. /\ Making(pc[t], stack[t]) /\ Making(pc'[t], stack'[t]) /\ Early(pc[t], stack[t])
          /\ ~Got(pc'[t], stack'[t]) /\ ~Late(pc'[t], stack'[t])
      BY Zenon, <3>1 DEF Making, Early, Got, Late, MakePcs, GlobalPcs, RegistryPcs, EntryPcs
    <3> QED
      BY Zenon, <2>1, <3>1, <3>2, OfSame DEF HandlerMove, HooksSame
  <2> QED
    BY Zenon, <1>5, <2>2, <2>3 DEF InitializeGet
<1>6. CASE InitializeMake(t, "hookMutex", "got_hookMutex", "init_hookMutex", "has_mutex")
  <2>1. PICK q \in {"init_hookMutex", "has_mutex"} : Goto(t, "got_hookMutex", q)
    BY Zenon, <1>6 DEF InitializeMake
  <2>2. pc[t] = "got_hookMutex" /\ pc'[t] = q
    BY Zenon, <2>1, Goes
  <2>3. /\ Making(pc[t], stack[t]) /\ Making(pc'[t], stack'[t]) /\ Early(pc[t], stack[t])
        /\ ~Got(pc'[t], stack'[t]) /\ ~Late(pc'[t], stack'[t]) /\ q \notin {"lock_hooks", "use"}
    BY Zenon, <2>2 DEF Making, Early, Got, Late, MakePcs, GlobalPcs, RegistryPcs, EntryPcs
  <2>4. /\ \A p \in Programs, s \in HookSlots :
             static'[p][s] = static[p][s] \/ p = ProgramOf[t]
        /\ Of(t, "hookHandler")' = Of(t, "hookHandler")
    <3>1. CASE static' = static
      BY Zenon, <3>1 DEF Of
    <3>2. CASE Store(t, "hookMutex", <<"hookMutex", t>>)
      <4>1. <<"hookMutex", t>> \in Anything /\ "hookMutex" \in Slots /\ HookSlots \subseteq Slots
            /\ "hookHandler" \in HookSlots /\ ProgramOf[t] \in Programs
        BY ProgramAssumption DEF Anything, Objects, Slots, Mutexes, HookSlots
      <4>2. \A p \in Programs, z \in Slots :
              p # ProgramOf[t] \/ z # "hookMutex" => static'[p][z] = static[p][z]
        BY <3>2, <4>1, StaticMoved
      <4> QED
        BY Zenon, <4>1, <4>2 DEF Of
    <3> QED
      BY Zenon, <1>6, <3>1, <3>2 DEF InitializeMake
  <2> QED
    BY Zenon, <2>2, <2>3, <2>4 DEF HandlerMove
<1>7. CASE InitializeReady(t, "hookMutex", "init_hookMutex", "has_mutex")
  <2>1. static' = static /\ HooksSame
    BY Zenon, <1>0, <1>7 DEF InitializeReady
  <2>2. "init_hookMutex" \in MakePcs /\ "has_mutex" \in MakeBacks
    BY DEF MakePcs, MakeBacks
  <2>3. /\ pc[t] = "init_hookMutex" /\ pc'[t] \in {"lock_giant", "lock"}
        /\ Making(pc[t], stack[t]) /\ Making(pc'[t], stack'[t]) /\ ~Got(pc'[t], stack'[t])
        /\ Late(pc'[t], stack'[t]) <=> "has_mutex" = "leave_initialize"
    BY Zenon, <1>7, <2>2, CallsHandler DEF InitializeReady
  <2>4. Early(pc[t], stack[t])
    BY Zenon, <2>3 DEF Early
  <2> QED
    BY Zenon, <2>1, <2>3, <2>4, OfSame DEF HandlerMove, HooksSame
<1>8. CASE InitializeGet(t, "hookHandler", "has_mutex", "got_hookHandler", "leave_initialize")
  <2>1. static' = static /\ HooksSame
    BY Zenon, <1>0, <1>8 DEF InitializeGet, shared
  <2>2. CASE CallGlobal(t, "has_mutex", "get", "hookHandler", NULL, "got_hookHandler")
    <3>1. "has_mutex" \in MakePcs /\ "got_hookHandler" \in MakeBacks
      BY DEF MakePcs, MakeBacks
    <3>2. /\ pc[t] = "has_mutex" /\ pc'[t] \in {"lock_giant", "lock"}
          /\ Making(pc[t], stack[t]) /\ Making(pc'[t], stack'[t]) /\ ~Got(pc'[t], stack'[t])
          /\ Late(pc'[t], stack'[t]) <=> "got_hookHandler" = "leave_initialize"
      BY Zenon, <2>2, <3>1, CallsHandler
    <3>3. Early(pc[t], stack[t])
      BY Zenon, <3>2 DEF Early
    <3> QED
      BY Zenon, <2>1, <3>2, <3>3, OfSame DEF HandlerMove, HooksSame
  <2>3. CASE Of(t, "hookHandler") # NULL /\ Goto(t, "has_mutex", "leave_initialize")
    <3>1. pc[t] = "has_mutex" /\ pc'[t] = "leave_initialize"
      BY Zenon, <2>3, Goes
    <3>2. /\ Making(pc[t], stack[t]) /\ Making(pc'[t], stack'[t]) /\ Early(pc[t], stack[t])
          /\ ~Got(pc'[t], stack'[t]) /\ ~Early(pc'[t], stack'[t])
      BY Zenon, <3>1 DEF Making, Early, Got, MakePcs, GlobalPcs, RegistryPcs, EntryPcs
    <3> QED
      BY Zenon, <2>1, <2>3, <3>1, <3>2, OfSame DEF HandlerMove, HooksSame
  <2> QED
    BY Zenon, <1>8, <2>2, <2>3 DEF InitializeGet
<1>9. CASE InitializeMake(t, "hookHandler", "got_hookHandler", "init_hookHandler", "leave_initialize")
  <2>1. CASE r[t] = "ok" /\ Goto(t, "got_hookHandler", "leave_initialize") /\ static' = static
    <3>1. pc[t] = "got_hookHandler" /\ pc'[t] = "leave_initialize" /\ HooksSame
      BY Zenon, <1>0, <2>1, Goes
    <3>2. /\ Making(pc[t], stack[t]) /\ Making(pc'[t], stack'[t]) /\ Got(pc[t], stack[t])
          /\ ~Got(pc'[t], stack'[t]) /\ ~Early(pc'[t], stack'[t])
      BY Zenon, <3>1 DEF Making, Early, Got, MakePcs, GlobalPcs, RegistryPcs, EntryPcs
    <3> QED
      BY Zenon, <2>1, <3>1, <3>2, OfSame DEF HandlerMove, HooksSame
  <2>2. CASE /\ Goto(t, "got_hookHandler", "init_hookHandler")
             /\ Store(t, "hookHandler", <<"hookHandler", t>>)
    <3>1. pc[t] = "got_hookHandler" /\ pc'[t] = "init_hookHandler"
      BY Zenon, <2>2, Goes
    <3>2. /\ Making(pc[t], stack[t]) /\ Making(pc'[t], stack'[t])
          /\ ~Got(pc'[t], stack'[t]) /\ ~Early(pc'[t], stack'[t]) /\ ~Late(pc'[t], stack'[t])
      BY Zenon, <3>1 DEF Making, Early, Got, Late, MakePcs, GlobalPcs, RegistryPcs, EntryPcs
    <3>3. \A p \in Programs, s \in HookSlots : static'[p][s] = static[p][s] \/ p = ProgramOf[t]
      <4>1. <<"hookHandler", t>> \in Anything /\ "hookHandler" \in Slots /\ HookSlots \subseteq Slots
        BY DEF Anything, Objects, Slots, Mutexes, HookSlots
      <4> QED
        BY <2>2, <4>1, StaticMoved
    <3> QED
      BY Zenon, <3>1, <3>2, <3>3 DEF HandlerMove
  <2> QED
    BY Zenon, <1>9, <2>1, <2>2 DEF InitializeMake
<1>10. CASE InitializeReady(t, "hookHandler", "init_hookHandler", "leave_initialize")
  <2>1. static' = static /\ HooksSame /\ ready' = ready \cup {Of(t, "hookHandler")}
    BY Zenon, <1>0, <1>10 DEF InitializeReady
  <2>2. "init_hookHandler" \in MakePcs /\ "leave_initialize" \in MakeBacks
    BY DEF MakePcs, MakeBacks
  <2>3. /\ pc[t] = "init_hookHandler" /\ pc'[t] \in {"lock_giant", "lock"}
        /\ Making(pc[t], stack[t]) /\ Making(pc'[t], stack'[t]) /\ ~Got(pc'[t], stack'[t])
        /\ Early(pc'[t], stack'[t]) <=> "leave_initialize" \in {"got_hookMutex", "has_mutex"}
    BY Zenon, <1>10, <2>2, CallsHandler DEF InitializeReady
  <2>4. Of(t, "hookHandler")' \in ready'
    BY Zenon, <2>1, OfSame
  <2> QED
    BY Zenon, <2>1, <2>3, <2>4, OfSame DEF HandlerMove, HooksSame
<1>11. CASE InitializeLeave(t)
  <2>1. pc[t] = "leave_initialize" /\ pc'[t] = "lock_hooks" /\ static' = static /\ HooksSame
    BY Zenon, <1>0, <1>11, Goes DEF InitializeLeave
  <2>2. /\ Late(pc[t], stack[t]) /\ ~Making(pc'[t], stack'[t])
    BY Zenon, <2>1 DEF Making, Late, MakePcs, GlobalPcs, RegistryPcs, EntryPcs
  <2> QED
    BY Zenon, <2>1, <2>2, WithinMaking DEF HandlerMove, HooksSame
<1> QED
  BY Zenon, <1>2, <1>3, <1>4, <1>5, <1>6, <1>7, <1>8, <1>9, <1>10, <1>11 DEF InitializeHook

LEMMA AwayHandler ==
  ASSUME FrameInv, NEW t \in Threads, NEW p \in {"idle", "use"} \cup LookUpPcs,
         NEW q \in LookUpPcs \cup LookUpBacks, Goto(t, p, q), HooksSame
  PROVE  HandlerMove(t)
<1>1. pc[t] = p /\ pc'[t] = q
  BY Zenon, Goes
<1>2. /\ p \notin MakePcs \cup GlobalPcs
      /\ q \notin MakePcs \cup GlobalPcs \cup {"lock_hooks", "use"}
  BY Zenon DEF LookUpPcs, FirstPcs, InsidePcs, LookUpBacks, MakePcs, GlobalPcs, RegistryPcs, EntryPcs
<1> QED
  BY Zenon, <1>1, <1>2, OutsideHandler DEF Making

LEMMA AskHandler ==
  ASSUME FrameInv, NEW t \in Threads, NEW p \in {"idle"} \cup FirstPcs, NEW kind, NEW name, NEW v,
         NEW b \in {"idle"} \cup FirstBacks, CallGlobal(t, p, kind, name, v, b), HooksSame
  PROVE  HandlerMove(t)
<1>1. PICK q \in {"lock_giant", "lock"} : Enter(t, p, q, b)
  BY Zenon DEF CallGlobal
<1>2. b \in Labels /\ b \notin MakeBacks /\ p \notin MakePcs \cup GlobalPcs /\ q \notin MakePcs
  BY Zenon DEF FirstBacks, FirstPcs, Labels, HomePcs, LookUpPcs, MakePcs, MakeBacks, GlobalPcs,
     RegistryPcs, EntryPcs
<1>3. pc[t] = p /\ pc'[t] = q /\ Head(stack'[t]) = b
  BY Zenon, <1>1, <1>2, Enters
<1> QED
  BY Zenon, <1>2, <1>3, OutsideHandler DEF Making

LEMMA LookUpHandler ==
  ASSUME BaseInv, NEW t \in Threads, LookUp(t) \/ CreateUse(t) PROVE HandlerMove(t)
<1> USE DEF BaseInv
<1>0. ASSUME static' = static PROVE HooksSame
  BY Zenon, <1>0 DEF HooksSame
<1>1. CASE CreateUse(t)
  <2>1. PICK q \in {"first", "lock_symbols"} : Goto(t, "use", q)
    BY Zenon, <1>1 DEF CreateUse, CallLookUp, Enter
  <2> QED
    BY Zenon, <1>0, <1>1, <2>1, AwayHandler DEF CreateUse, CallLookUp, shared, LookUpPcs
<1>2. CASE LockGiant(t, "first", "get_symbols") \/ LookUpLeaveFirst(t)
  BY Zenon, <1>0, <1>2, AwayHandler DEF LockGiant, LookUpLeaveFirst, LookUpPcs, FirstPcs
<1>3. CASE LookUpAllocate(t)
  <2>1. "symbolsMutex" \in Slots \ HookSlots /\ <<"symbolsMutex", t>> \in Anything
    BY DEF Slots, Mutexes, HookSlots, Anything, Objects
  <2>2. HooksSame
    BY Zenon, <1>3, <2>1, StoreElsewhere DEF LookUpAllocate
  <2> QED
    BY Zenon, <1>3, <2>2, AwayHandler DEF LookUpAllocate, LookUpPcs, FirstPcs
<1>4. CASE LookUpGetCache(t) \/ LookUpGetMutex(t) \/ LookUpInit(t)
  BY Zenon, <1>0, <1>4, AskHandler DEF LookUpGetCache, LookUpGetMutex, LookUpInit, shared, FirstPcs,
     FirstBacks
<1>5. CASE LookUpCreate(t)
  <2>1. "symbols" \in Slots \ HookSlots /\ <<"symbols", t>> \in Anything
    BY DEF Slots, Mutexes, HookSlots, Anything, Objects
  <2>2. HooksSame
    BY Zenon, <1>5, <2>1, StoreElsewhere DEF LookUpCreate
  <2> QED
    BY Zenon, <1>5, <2>2, AskHandler DEF LookUpCreate, FirstPcs, FirstBacks
<1>6. CASE LockSlot(t, "symbolsMutex", "lock_symbols", "find")
  BY Zenon, <1>0, <1>6, AwayHandler, FaultHandler DEF LockSlot, LookUpPcs, InsidePcs
<1>7. CASE LookUpFind(t)
  BY Zenon, <1>0, <1>7, AwayHandler DEF LookUpFind, shared, LookUpPcs, InsidePcs
<1>8. ASSUME NEW p \in InsidePcs, NEW code, Return(t, p, code), static' = static
      PROVE  HandlerMove(t)
  <2>1. pc[t] = p /\ Goto(t, p, Head(stack[t]))
    BY Zenon, <1>8 DEF Return, Goto
  <2>2. PICK b \in LookUpBacks : stack[t] = <<b>>
    BY Zenon, <2>1, <1>8 DEF FrameInv, Frame, InGlobal, HomePcs, CreatePcs, MakePcs, InsidePcs,
       GlobalPcs, RegistryPcs, EntryPcs
  <2>3. Head(stack[t]) = b
    BY <2>2
  <2> QED
    BY Zenon, <1>0, <1>8, <2>1, <2>3, AwayHandler DEF LookUpPcs
<1>9. CASE UnlockSlot(t, "symbolsMutex", "unlock_symbols", "ok")
  BY Zenon, <1>8, <1>9, FaultHandler DEF UnlockSlot, InsidePcs
<1>10. CASE LookUpMiss(t)
  BY Zenon, <1>0, <1>8, <1>10, AwayHandler DEF LookUpMiss, LookUpPcs, InsidePcs
<1> QED
  BY Zenon, <1>1, <1>2, <1>3, <1>4, <1>5, <1>6, <1>7, <1>9, <1>10 DEF LookUp, LookUpFirst

LEMMA StepHandler ==
  ASSUME BaseInv, NEW t \in Threads, Step(t) PROVE HandlerMove(t)
<1> USE DEF BaseInv
<1>0. ASSUME static' = static PROVE HooksSame
  BY Zenon, <1>0 DEF HooksSame
<1>1. CASE /\ \E n \in ClientNames, kind \in Work[t] \cap {"get", "set", "delete"} :
                \E v \in IF kind = "set" THEN Values ELSE {NULL} :
                  CallGlobal(t, "idle", kind, n, v, "idle")
           /\ UNCHANGED shared
  BY Zenon, <1>0, <1>1, AskHandler DEF shared
<1>2. ASSUME NEW n, NEW b, CallLookUp(t, "idle", n, b)
      PROVE  HandlerMove(t)
  <2>1. PICK q \in {"first", "lock_symbols"} : Goto(t, "idle", q)
    BY Zenon, <1>2 DEF CallLookUp, Enter
  <2> QED
    BY Zenon, <1>0, <1>2, <2>1, AwayHandler DEF CallLookUp, shared, LookUpPcs
<1>3. CASE CallCreate(t)
  <2>1. CASE /\ Of(t, "hookMutex") # NULL /\ Goto(t, "idle", "lock_hooks") /\ UNCHANGED shared
    <3>1. pc[t] = "idle" /\ pc'[t] = "lock_hooks" /\ HooksSame
      BY Zenon, <1>0, <2>1, Goes DEF shared
    <3>2. {"idle", "lock_hooks"} \cap (MakePcs \cup GlobalPcs) = {}
      BY DEF MakePcs, GlobalPcs, RegistryPcs, EntryPcs
    <3> QED
      BY Zenon, <2>1, <3>1, <3>2, OutsideHandler DEF Making
  <2> QED
    BY Zenon, <1>2, <1>3, <2>1 DEF CallCreate
<1>4. CASE Begin(t)
  BY Zenon, <1>1, <1>2, <1>3, <1>4 DEF Begin
<1> QED
  BY Zenon, <1>4, InitializeHandler, GlobalHandler, HookHandlers, LookUpHandler DEF Step

LEMMA MakingDepth ==
  ASSUME NEW p, NEW s, Making(p, s)
  PROVE  GiantDepth(p, s) # 0 /\ p \notin {"fault", "initialize", "lock_hooks", "use"}
<1>1. CASE p \in MakePcs
  <2>1. p \in OnePcs
    BY Zenon, <1>1 DEF OnePcs
  <2>2. GiantDepth(p, s) = 1
    BY Zenon, <2>1, OneDepth
  <2> QED
    BY <1>1, <2>2 DEF MakePcs
<1>2. CASE p \in GlobalPcs /\ Head(s) \in MakeBacks
  <2>1. Beneath(s) = 1
    BY Zenon, <1>2 DEF Beneath, MakeBacks
  <2>2. GiantDepth(p, s) \in {1, 2}
    BY <1>2, <2>1 DEF GiantDepth
  <2>3. p \notin {"fault", "initialize", "lock_hooks", "use"}
    BY Zenon, <1>2 DEF GlobalPcs, RegistryPcs, EntryPcs
  <2> QED
    BY <2>2, <2>3
<1> QED
  BY Zenon, <1>1, <1>2 DEF Making

LEMMA ReadyGrows ==
  ASSUME BaseInv, NEW t \in Threads, Step(t) PROVE ready \subseteq ready'
<1>1. RawMove(t)
  BY Zenon, StepRaw DEF BaseInv
<1> QED
  BY Zenon, <1>1 DEF RawMove

LEMMA HandlerStep ==
  ASSUME BaseInv, GiantInv, HandlerInv, NEW t \in Threads, Step(t) PROVE HandlerInv'
<1>1. HandlerMove(t) /\ ready \subseteq ready'
  BY Zenon, StepHandler, ReadyGrows
<1>2. BaseInv' /\ GiantInv'
  BY Zenon, StepBase, GiantStep
<1>3. \A u \in Threads : pc[u] # "fault"
  BY Zenon DEF Step, Stopped
<1>4. \A u \in Threads : Making(pc'[u], stack'[u]) => owner'[Giant] = u
  <2>1. ASSUME NEW u \in Threads, Making(pc[u], stack[u]), BaseInv, GiantInv PROVE owner[Giant] = u
    BY Zenon, <2>1, MakingDepth, GiantOwner
  <2>2. ASSUME NEW u \in Threads, Making(pc'[u], stack'[u]), BaseInv', GiantInv'
        PROVE  owner'[Giant] = u
    <3>1. GiantDepth(pc'[u], stack'[u]) # 0 /\ pc'[u] # "fault"
      BY Zenon, <2>2, MakingDepth
    <3> QED
      BY Zenon, <2>2, <3>1 DEF GiantInv
  <2> QED
    BY Zenon, <1>2, <2>2
<1>5. HandlerAt(t)'
  <2>1. HandlerAt(t) /\ HandlerOf(ProgramOf[t]) /\ ProgramOf[t] \in Programs
    BY ProgramAssumption DEF HandlerInv
  <2>2. ASSUME Early(pc'[t], stack'[t]) PROVE Of(t, "hookHandler")' \in {NULL} \cup ready'
    <3>1. CASE Early(pc[t], stack[t])
      BY Zenon, <1>1, <2>1, <2>2, <3>1 DEF HandlerMove, HandlerAt
    <3>2. CASE pc[t] = "initialize" /\ Lock(t, Giant)
      <4>1. owner[Giant] \in {NULL, t} /\ ~Making(pc[t], stack[t])
        BY Zenon, <3>2, MakingDepth DEF Lock
      <4>2. static[ProgramOf[t]]["hookHandler"] \in {NULL} \cup ready
        BY Zenon, <1>3, <2>1, <4>1, ProgramAssumption DEF HandlerOf
      <4> QED
        BY Zenon, <1>1, <2>2, <4>2 DEF HandlerMove, Of
    <3> QED
      BY Zenon, <1>1, <2>2, <3>1, <3>2 DEF HandlerMove
  <2>3. Got(pc'[t], stack'[t]) /\ r'[t] = "ok" => Of(t, "hookHandler")' \in ready'
    BY Zenon, <1>1, <2>1 DEF HandlerMove, HandlerAt
  <2>4. Late(pc'[t], stack'[t]) => Of(t, "hookHandler")' \in ready'
    BY Zenon, <1>1, <2>1 DEF HandlerMove, HandlerAt
  <2> QED
    BY Zenon, <2>2, <2>3, <2>4 DEF HandlerAt
<1>6. ASSUME NEW u \in Threads \ {t} PROVE HandlerAt(u)'
  <2>1. HandlerAt(u) /\ pc'[u] = pc[u] /\ stack'[u] = stack[u] /\ r'[u] = r[u]
    BY Zenon, OthersStay DEF HandlerInv
  <2>2. CASE Making(pc[u], stack[u])
    <3>1. Unshared
      BY Zenon, <1>3, <2>2, MakingDepth, OwnerAlone
    <3>2. Of(u, "hookHandler")' = Of(u, "hookHandler") /\ ready' = ready
      BY Zenon, <3>1 DEF Unshared, Of
    <3> QED
      BY Zenon, <2>1, <3>2 DEF HandlerAt
  <2>3. CASE ~Making(pc[u], stack[u])
    BY Zenon, <2>1, <2>3, WithinMaking DEF HandlerAt
  <2> QED
    BY Zenon, <2>2, <2>3
<1>7. ASSUME NEW p \in Programs PROVE HandlerOf(p)'
  <2>0. HandlerOf(p) /\ HandlerAt(t) /\ HookSlots = {"hookMutex", "hookHandler"}
    BY Zenon DEF HandlerInv, HookSlots
  <2>1. CASE ProgramOf[t] = p /\ Making(pc'[t], stack'[t])
    BY Zenon, <1>4, <2>1 DEF HandlerOf
  <2>2. CASE ~(ProgramOf[t] = p /\ Making(pc'[t], stack'[t]))
    <3>1. /\ static'[p]["hookHandler"] = static[p]["hookHandler"]
          /\ static'[p]["hookMutex"] = static[p]["hookMutex"]
      BY Zenon, <1>1, <2>0, <2>2 DEF HandlerMove
    <3>2. CASE static[p]["hookHandler"] \in ready
      BY Zenon, <1>1, <3>1, <3>2 DEF HandlerOf
    <3>3. ASSUME NEW u \in Threads, ProgramOf[u] = p, owner[Giant] = u, Making(pc[u], stack[u])
          PROVE  HandlerOf(p)'
      <4>1. CASE u # t
        <5>1. Making(pc'[u], stack'[u])
          BY ZenonT(60), <3>3, <4>1, OthersStay
        <5> QED
          BY Zenon, <1>4, <3>3, <5>1 DEF HandlerOf
      <4>2. CASE u = t /\ pc'[t] = "fault" /\ Still
        BY Zenon, <3>3, <4>2 DEF HandlerOf, Still
      <4>3. CASE u = t /\ Late(pc[t], stack[t])
        BY Zenon, <1>1, <2>0, <3>1, <3>3, <4>3 DEF HandlerOf, HandlerAt, Of
      <4> QED
        BY Zenon, <1>1, <2>2, <3>3, <4>1, <4>2, <4>3 DEF HandlerMove
    <3>4. CASE /\ static[p]["hookMutex"] = NULL /\ static[p]["hookHandler"] = NULL
               /\ \A u \in Threads : ProgramOf[u] = p => pc[u] \notin {"lock_hooks", "use"}
               /\ static[p]["hookHandler"] \notin ready
      <4>1. ASSUME NEW u \in Threads, ProgramOf[u] = p PROVE pc'[u] \notin {"lock_hooks", "use"}
        <5>1. CASE u # t
          BY Zenon, <3>4, <4>1, <5>1, OthersStay
        <5>2. CASE u = t
          BY Zenon, <1>1, <2>0, <3>4, <4>1, <5>2 DEF HandlerMove, HandlerAt, Of
        <5> QED
          BY Zenon, <5>1, <5>2
      <4> QED
        BY Zenon, <3>1, <3>4, <4>1 DEF HandlerOf
    <3> QED
      BY Zenon, <1>3, <2>0, <3>2, <3>3, <3>4 DEF HandlerOf
  <2> QED
    BY Zenon, <2>1, <2>2
<1> QED
  BY Zenon, <1>5, <1>6, <1>7 DEF HandlerInv

LEMMA HandlerInit == Init => HandlerInv
<1> SUFFICES ASSUME Init PROVE HandlerInv
  OBVIOUS
<1>1. /\ pc = [t \in Threads |-> "idle"]
      /\ static = [p \in Programs |-> [s \in Slots |-> NULL]]
  BY Zenon DEF Init
<1>2. {"hookMutex", "hookHandler"} \subseteq Slots
  BY DEF Slots, Mutexes
<1>3. \A t \in Threads : pc[t] = "idle"
  BY Zenon, <1>1
<1>4. \A p \in Programs : static[p]["hookMutex"] = NULL /\ static[p]["hookHandler"] = NULL
  BY <1>1, <1>2
<1>5. "idle" \notin MakePcs \cup GlobalPcs
  BY DEF MakePcs, GlobalPcs, RegistryPcs, EntryPcs
<1>6. \A t \in Threads : ~Making(pc[t], stack[t])
  BY Zenon, <1>3, <1>5 DEF Making
<1> QED
  BY Zenon, <1>3, <1>4, <1>6, WithinMaking DEF HandlerInv, HandlerAt, HandlerOf

LEMMA HandlerWhenUsed == HandlerInv => HandlerReady
<1> SUFFICES ASSUME HandlerInv, NEW t \in Threads, pc[t] = "use"
             PROVE  Of(t, "hookHandler") \in ready \/ FirstUse(t)
  BY Zenon DEF HandlerReady
<1>1. HandlerOf(ProgramOf[t]) /\ ~Making(pc[t], stack[t])
  BY ProgramAssumption, MakingDepth DEF HandlerInv
<1> QED
  BY Zenon, <1>1 DEF HandlerOf, Of, FirstUse

-----------------------------------------------------------------------------
(* Together, the invariants are inductive.                                 *)
SharingInv == BaseInv /\ GiantInv /\ MadeInv /\ HoldInv /\ HandlerInv

LEMMA SharingInductive == SharingInv /\ [Next]_allVars => SharingInv'
<1> SUFFICES ASSUME SharingInv, [Next]_allVars PROVE SharingInv'
  OBVIOUS
<1> USE DEF SharingInv
<1>1. CASE Next
  BY Zenon, <1>1, StepBase, GiantStep, MadeStep, HoldStep, HandlerStep DEF Next
<1>2. CASE UNCHANGED allVars
  <2>1. /\ pc' = pc /\ stack' = stack /\ owner' = owner /\ depth' = depth /\ ready' = ready
        /\ static' = static /\ r' = r /\ missed' = missed
    BY Zenon, <1>2 DEF allVars, lookUpVars, vars, shared
  <2>2. BaseInv'
    BY Zenon, BaseInductive
  <2>3. GiantInv'
    BY Zenon, <2>1 DEF GiantInv
  <2>4. MadeInv'
    BY Zenon, <2>1 DEF MadeInv, Of
  <2>5. HoldInv'
    <3> SUFFICES ASSUME NEW slot \in Mutexes, NEW w \in Threads
                 PROVE  /\ owner'[<<slot, w>>] = NULL => depth'[<<slot, w>>] = 0
                        /\ \A t \in Threads :
                             owner'[<<slot, w>>] = t /\ ~Freed(slot, t)' =>
                               /\ Holds(slot, pc'[t], stack'[t]) /\ depth'[<<slot, w>>] = 1
                               /\ \A v \in Threads : owner'[<<slot, v>>] = t => v = w
      BY Zenon DEF HoldInv, Holds, HooksHeld, Waiting
    <3>1. \A t \in Threads : Freed(slot, t)' <=> Freed(slot, t)
      BY Zenon, <2>1 DEF Freed
    <3>2. owner[<<slot, w>>] = NULL => depth[<<slot, w>>] = 0
      BY Zenon DEF HoldInv
    <3>3. ASSUME NEW t \in Threads, owner'[<<slot, w>>] = t, ~Freed(slot, t)'
          PROVE  /\ Holds(slot, pc'[t], stack'[t]) /\ depth'[<<slot, w>>] = 1
                 /\ \A v \in Threads : owner'[<<slot, v>>] = t => v = w
      <4>1. owner[<<slot, w>>] = t /\ ~Freed(slot, t)
        BY Zenon, <2>1, <3>1, <3>3
      <4>2. /\ Holds(slot, pc[t], stack[t]) /\ depth[<<slot, w>>] = 1
            /\ \A v \in Threads : owner[<<slot, v>>] = t => v = w
        BY ZenonT(60), <4>1 DEF HoldInv
      <4> QED
        BY Zenon, <2>1, <4>2
    <3> QED
      BY Zenon, <2>1, <3>2, <3>3
  <2>6. HandlerInv'
    BY Zenon, <2>1 DEF HandlerInv, HandlerAt, HandlerOf, Of
  <2> QED
    BY Zenon, <2>2, <2>3, <2>4, <2>5, <2>6
<1> QED
  BY Zenon, <1>1, <1>2

LEMMA SharingInit == Init => SharingInv
  BY Zenon, BaseInit, GiantInit, MadeInit, HoldInit, HandlerInit DEF SharingInv

(* Threads of ps4KernelCacheGlobalGet, Set and Delete, of                  *)
(* ps4KernelSymbolLookUp and of ps4KernelFunctionHookCreate never wait for *)
(* each other in a circle, whatever the programs share, as long as every   *)
(* symbol was found: a lookup that finds nothing keeps the symbol mutex.   *)
THEOREM NoCircularWaitHolds == Spec => []NoCircularWait
<1>1. SharingInv => NoCircularWait
  <2>1. SUFFICES ASSUME SharingInv, \A t \in Threads : missed[t] = 0,
                        NEW S \in (SUBSET Threads) \ {{}}, \A t \in S : WaitsFor(t) \in S
                 PROVE  FALSE
    BY Zenon DEF NoCircularWait
  <2>2. S \in SUBSET Threads /\ S # {}
    OBVIOUS
  <2>3. S = {}
    BY Zenon, <2>1, <2>2, WaitsEnd DEF SharingInv
  <2> QED
    BY Zenon, <2>2, <2>3
<1> QED
  BY <1>1, SharingInit, SharingInductive, PTL DEF Spec

(* A hook is created with a handler whose code was copied, except next to  *)
(* a first use in the same program: ps4KernelFunctionHookCreate tests only *)
(* the mutex, which ps4KernelFunctionHookInitialize stores first.          *)
THEOREM HandlerReadyHolds == Spec => []HandlerReady
<1>1. SharingInv => HandlerReady
  BY Zenon, HandlerWhenUsed DEF SharingInv
<1> QED
  BY <1>1, SharingInit, SharingInductive, PTL DEF Spec

-----------------------------------------------------------------------------
INSTANCE WellFoundedInduction

(* A set of numbers has a least one.                                       *)
LEMMA Least ==
  ASSUME NEW T \in SUBSET Nat, T # {} PROVE \E i \in T : \A j \in T : i <= j
<1>1. PICK i \in T : \A j \in T : ~(<<j, i>> \in OpToRel(<, Nat))
  <2>1. T \subseteq Nat
    OBVIOUS
  <2> QED
    BY Zenon, <2>1, NatLessThanWellFounded, WFMin
<1>2. ASSUME NEW j \in T PROVE i <= j
  <2>1. i \in Nat /\ j \in Nat
    OBVIOUS
  <2>2. ~(j < i)
    <3>1. j < i => <<j, i>> \in OpToRel(<, Nat)
      BY <2>1 DEF OpToRel
    <3> QED
      BY Zenon, <1>1, <3>1
  <2> QED
    BY <2>1, <2>2
<1> QED
  BY Zenon, <1>2

LEMMA Entries ==
  ASSUME NEW R, NEW s \in Seq(R)
  PROVE  DOMAIN s = 1 .. Len(s) /\ Len(s) \in Nat /\ \A i \in 1 .. Len(s) : s[i] \in R
  OBVIOUS

(* What ps4KernelDlSym answers: an entry's value, or NULL if no entry but  *)
(* perhaps the last has the name.                                          *)
LEMMA DlSymAnswers ==
  ASSUME NEW name
  PROVE  IF DlSym(name) # NULL
           THEN \E i \in DOMAIN SymbolTable :
                  SymbolTable[i] = [name |-> name, value |-> DlSym(name)]
           ELSE \A i \in 1 .. Len(SymbolTable) - 1 : SymbolTable[i].name # name
<1> DEFINE hits == {i \in Visited : SymbolTable[i].name = name}
<1>0. /\ DOMAIN SymbolTable = 1 .. Len(SymbolTable) /\ Len(SymbolTable) \in Nat /\ Gap \in Nat
      /\ \A i \in 1 .. Len(SymbolTable) : SymbolTable[i] \in [name : KernelNames, value : Values]
  BY Zenon, SymbolAssumption, Entries
<1>1. Visited \subseteq 1 .. Len(SymbolTable)
  BY DEF Visited
<1>2. CASE hits = {}
  <2>1. DlSym(name) = NULL
    BY Zenon, <1>2 DEF DlSym
  <2>2. ASSUME NEW i \in 1 .. Len(SymbolTable) - 1 PROVE SymbolTable[i].name # name
    <3>1. i \in Visited
      BY <1>0 DEF Visited, SymbolSize
    <3> QED
      BY Zenon, <1>2, <3>1
  <2> QED
    BY Zenon, <2>1, <2>2
<1>3. CASE hits # {}
  <2>1. \E i \in hits : \A j \in hits : i <= j
    <3>1. hits \in SUBSET Nat
      <4>1. ASSUME NEW i \in hits PROVE i \in Nat
        <5>1. i \in 1 .. Len(SymbolTable)
          BY Zenon, <1>1
        <5> QED
          BY <1>0, <5>1
      <4> HIDE DEF hits
      <4> QED
        BY Zenon, <4>1
    <3>2. hits # {}
      BY <1>3
    <3> HIDE DEF hits
    <3> QED
      BY Zenon, <3>1, <3>2, Least
  <2>2. PICK k : k = CHOOSE i \in hits : \A j \in hits : i <= j
    OBVIOUS
  <2>3. k \in hits
    <3> HIDE DEF hits
    <3> QED
      BY Zenon, <2>1, <2>2
  <2>4. DlSym(name) = SymbolTable[k].value
    BY Zenon, <1>3, <2>2 DEF DlSym
  <2>5. k \in 1 .. Len(SymbolTable) /\ SymbolTable[k].name = name
    BY Zenon, <1>1, <2>3
  <2>6. SymbolTable[k] = [name |-> name, value |-> DlSym(name)] /\ DlSym(name) \in Values
    BY <1>0, <2>4, <2>5
  <2>7. DlSym(name) # NULL
    BY Zenon, <2>6, ProgramAssumption
  <2> QED
    BY Zenon, <1>0, <2>5, <2>6, <2>7
<1> QED
  BY Zenon, <1>2, <1>3

(* A lookup answers what the kernel's table has under the name, or NULL if *)
(* it has none before the last entry, also when the answer comes from the  *)
(* cache that another thread or another program filled.                    *)
THEOREM LookUpAnswersHolds == Spec => []LookUpAnswers
<1>1. SharingInv => LookUpAnswers
  <2>1. SUFFICES ASSUME SharingInv, NEW t \in Threads, pc[t] = "unlock_symbols"
                 PROVE  IF answer[t] # NULL
                          THEN \E i \in DOMAIN SymbolTable :
                                 SymbolTable[i] = [name |-> wanted[t], value |-> answer[t]]
                          ELSE \A i \in 1 .. Len(SymbolTable) - 1 : SymbolTable[i].name # wanted[t]
    BY Zenon DEF LookUpAnswers
  <2>2. answer[t] = DlSym(wanted[t])
    BY Zenon, <2>1 DEF SharingInv, BaseInv, DataInv

  <2> QED
    BY Zenon, <2>2, DlSymAnswers
<1> QED
  BY <1>1, SharingInit, SharingInductive, PTL DEF Spec
=============================================================================
