----------------------------- MODULE CacheGlobal ----------------------------
(***************************************************************************)
(* The registry through which programs that are loaded into the kernel     *)
(* share objects: ps4KernelCacheGlobalGet, Set and Delete on the one cache *)
(* that is published as the sysctl "ps4.cache", and its first use.         *)
(*                                                                         *)
(* Every program is linked with its own copy of the SDK and has its own    *)
(* static pointers (the slots); several threads may run in one program.    *)
(* What a thread allocates for a slot is named after slot and thread: it   *)
(* does so once.  An object is raw until mtx_init, or the copy of the      *)
(* code, has made it ready.  malloc waits for memory, so it does not fail. *)
(* A mutex that is NULL, raw or freed when it is used stops the machine:   *)
(* the thread is at "fault" and nobody takes a step any more.              *)
(***************************************************************************)
EXTENDS Integers, Sequences

CONSTANTS
  Threads, Programs,
  ProgramOf,    \* the program each thread runs in
  NULL, Absent, \* no pointer; no entry in a cache
  ClientNames,  \* names that clients use in the registry
  KernelNames,  \* names of symbols, looked up or in the kernel's table
  Values        \* values of clients and of symbols

Mutexes == {"mutex", "symbolsMutex", "hookMutex"}
Slots == {"cache", "symbols", "hookHandler"} \cup Mutexes
Names == Slots \cup ClientNames \cup KernelNames

Giant == <<"Giant", NULL>>
Objects == Slots \X Threads
Caches == {"cache", "symbols"} \X Threads

ASSUME ProgramAssumption ==
  /\ ProgramOf \in [Threads -> Programs]
  /\ NULL \notin Objects \cup Threads \cup Values /\ Absent \notin Values \cup Objects
  /\ Giant \notin {NULL, Absent}
  /\ ClientNames \cap Slots = {}

VARIABLES
  static,       \* the static pointers of each program
  published,    \* the cache behind "ps4.cache"
  contents,     \* of each cache: name -> value, Absent if there is no entry
  owner, depth, \* of each recursive mutex
  ready, freed, \* objects that are initialised; objects that are freed
  pc, stack,    \* where each thread is, and where its calls return to
  call,         \* what its current call of the registry is for
  r,            \* what its last call returned
  answer,       \* the value its last client call or lookup got
  refused       \* history: threads whose cache could not be published

shared == <<static, published, contents, owner, depth, ready, freed, refused>>
vars == <<shared, pc, stack, call, r, answer>>

Locks == {Giant} \cup (Mutexes \X Threads)

Of(t, slot) == static[ProgramOf[t]][slot]
Store(t, slot, v) == static' = [static EXCEPT ![ProgramOf[t]][slot] = v]

Goto(t, from, to) == pc[t] = from /\ pc' = [pc EXCEPT ![t] = to]

(* A call from one place that will go on at another.                       *)
Enter(t, from, to, back) ==
  Goto(t, from, to) /\ stack' = [stack EXCEPT ![t] = <<back>> \o @]

Return(t, from, code) ==
  /\ Goto(t, from, Head(stack[t]))
  /\ stack' = [stack EXCEPT ![t] = Tail(@)]
  /\ r' = [r EXCEPT ![t] = code]

(* ps4KernelCacheGlobalGet, Set and Delete start with the same test of the *)
(* static cache, not under any lock.                                       *)
CallGlobal(t, from, kind, name, value, back) ==
  /\ Enter(t, from, IF Of(t, "cache") = NULL THEN "lock_giant" ELSE "lock", back)
  /\ call' = [call EXCEPT ![t] = [kind |-> kind, name |-> name, value |-> value]]

-----------------------------------------------------------------------------
(* Mutexes are recursive.  mtx_lock and mtx_unlock take the pointer that   *)
(* the slot holds at that moment.                                          *)
Usable(m) == m \in ready /\ m \notin freed
Held(t, m) == Usable(m) /\ owner[m] = t

Lock(t, m) ==
  /\ owner[m] \in {NULL, t}
  /\ owner' = [owner EXCEPT ![m] = t] /\ depth' = [depth EXCEPT ![m] = @ + 1]

Unlock(t, m) ==
  /\ depth' = [depth EXCEPT ![m] = @ - 1]
  /\ owner' = [owner EXCEPT ![m] = IF depth[m] = 1 THEN NULL ELSE @]

Fault(t, from) ==
  Goto(t, from, "fault") /\ UNCHANGED <<shared, stack, call, r, answer>>

LockSlot(t, slot, from, to) ==
  \/ /\ Usable(Of(t, slot)) /\ Lock(t, Of(t, slot)) /\ Goto(t, from, to)
     /\ UNCHANGED <<static, published, contents, ready, freed, refused, stack, call, r, answer>>
  \/ ~Usable(Of(t, slot)) /\ Fault(t, from)

UnlockSlot(t, slot, from, code) ==
  \/ /\ Held(t, Of(t, slot)) /\ Unlock(t, Of(t, slot)) /\ Return(t, from, code)
     /\ UNCHANGED <<static, published, contents, ready, freed, refused, call, answer>>
  \/ ~Held(t, Of(t, slot)) /\ Fault(t, from)

LockGiant(t, from, to) ==
  /\ Goto(t, from, to) /\ Lock(t, Giant)
  /\ UNCHANGED <<static, published, contents, ready, freed, refused, stack, call, r, answer>>

-----------------------------------------------------------------------------
(* ps4KernelCacheGlobalInitialize, under Giant.  kernel_sysctlbyname       *)
(* stores a published cache directly in the static pointer; without one    *)
(* ps4KernelCacheCreate stores the new, empty cache there.                 *)
InitializeCache(t) ==
  /\ IF published # NULL
       THEN Goto(t, "sysctl", "clear_mutex") /\ Store(t, "cache", published)
       ELSE Goto(t, "sysctl", "allocate_mutex") /\ Store(t, "cache", <<"cache", t>>)
  /\ UNCHANGED <<published, contents, owner, depth, ready, freed, refused, stack, call, r, answer>>

(* ps4KernelCacheGet on the published cache, into the static mutex: it     *)
(* stores NULL first.  The registry's mutex is not held.                   *)
InitializeClear(t) ==
  /\ Goto(t, "clear_mutex", "load_mutex") /\ Store(t, "mutex", NULL)
  /\ UNCHANGED <<published, contents, owner, depth, ready, freed, refused, stack, call, r, answer>>

InitializeLoad(t) ==
  /\ Goto(t, "load_mutex", "unlock_giant")
  /\ Store(t, "mutex", contents[Of(t, "cache")]["mutex"])
  /\ r' = [r EXCEPT ![t] = "ok"]
  /\ UNCHANGED <<published, contents, owner, depth, ready, freed, refused, stack, call, answer>>

InitializeAllocate(t) ==
  /\ Goto(t, "allocate_mutex", "init_mutex") /\ Store(t, "mutex", <<"mutex", t>>)
  /\ UNCHANGED <<published, contents, owner, depth, ready, freed, refused, stack, call, r, answer>>

(* mtx_init, and ps4KernelCacheSet on the cache nobody else has.           *)
InitializeMutex(t) ==
  /\ Goto(t, "init_mutex", "publish") /\ ready' = ready \cup {Of(t, "mutex")}
  /\ contents' = [contents EXCEPT ![Of(t, "cache")]["mutex"] = Of(t, "mutex")]
  /\ UNCHANGED <<static, published, owner, depth, freed, refused, stack, call, r, answer>>

(* "ps4" is created or found, and "ps4.cache" added below it.  Nothing is  *)
(* added if sysctl_add_oid fails, or if "ps4" is not a node: then mutex    *)
(* and cache are freed, and the static pointers keep their addresses.      *)
InitializePublish(t) ==
  /\ Goto(t, "publish", "unlock_giant")
  /\ \/ /\ published' = Of(t, "cache") /\ r' = [r EXCEPT ![t] = "ok"]
        /\ UNCHANGED <<freed, refused>>
     \/ /\ r' = [r EXCEPT ![t] = "not_ok"] /\ refused' = refused \cup {t}
        /\ UNCHANGED <<published, freed>>
     \/ /\ freed' = freed \cup {Of(t, "cache"), Of(t, "mutex")}
        /\ r' = [r EXCEPT ![t] = "error"] /\ refused' = refused \cup {t}
        /\ UNCHANGED published
  /\ UNCHANGED <<static, contents, owner, depth, ready, stack, call, answer>>

InitializeUnlock(t) ==
  /\ Unlock(t, Giant)
  /\ \/ r[t] = "ok" /\ Goto(t, "unlock_giant", "lock") /\ UNCHANGED <<stack, r>>
     \/ r[t] # "ok" /\ Return(t, "unlock_giant", r[t])
  /\ UNCHANGED <<static, published, contents, ready, freed, refused, call, answer>>

Initialize(t) ==
  \/ LockGiant(t, "lock_giant", "sysctl")
  \/ InitializeCache(t) \/ InitializeClear(t) \/ InitializeLoad(t)
  \/ InitializeAllocate(t) \/ InitializeMutex(t) \/ InitializePublish(t)
  \/ InitializeUnlock(t)

-----------------------------------------------------------------------------
GlobalLock(t) == LockSlot(t, "mutex", "lock", call[t].kind)

(* ps4KernelCacheGet stores NULL in the variable it was given, then the    *)
(* value.  A static pointer of the program may be that variable.           *)
Out(t, v) ==
  IF call[t].name \in Slots THEN Store(t, call[t].name, v) /\ UNCHANGED answer
  ELSE answer' = [answer EXCEPT ![t] = v] /\ UNCHANGED static

GlobalClear(t) ==
  /\ Goto(t, "get", "load") /\ Out(t, NULL)
  /\ UNCHANGED <<published, contents, owner, depth, ready, freed, refused, stack, call, r>>

GlobalLoad(t) ==
  LET v == contents[Of(t, "cache")][call[t].name]
  IN /\ Goto(t, "load", "unlock")
     /\ \/ v # Absent /\ Out(t, v) /\ r' = [r EXCEPT ![t] = "ok"]
        \/ v = Absent /\ r' = [r EXCEPT ![t] = "not_found"] /\ UNCHANGED <<static, answer>>
     /\ UNCHANGED <<published, contents, owner, depth, ready, freed, refused, stack, call>>

GlobalSet(t) ==
  /\ Goto(t, "set", "unlock")
  /\ contents' = [contents EXCEPT ![Of(t, "cache")][call[t].name] = call[t].value]
  /\ r' = [r EXCEPT ![t] = "ok"]
  /\ UNCHANGED <<static, published, owner, depth, ready, freed, refused, stack, call, answer>>

GlobalDelete(t) ==
  /\ Goto(t, "delete", "unlock")
  /\ contents' = [contents EXCEPT ![Of(t, "cache")][call[t].name] = Absent]
  /\ r' = [r EXCEPT ![t] = IF contents[Of(t, "cache")][call[t].name] = Absent
                           THEN "not_found" ELSE "ok"]
  /\ UNCHANGED <<static, published, owner, depth, ready, freed, refused, stack, call, answer>>

\* Mutant: the registry's mutex is not released.
GlobalUnlockForgotten(t) ==
  Return(t, "unlock", r[t]) /\ UNCHANGED <<shared, call, answer>>

GlobalUnlock(t) == UnlockSlot(t, "mutex", "unlock", r[t])

Global(t) ==
  \/ GlobalLock(t) \/ GlobalClear(t) \/ GlobalLoad(t)
  \/ GlobalSet(t) \/ GlobalDelete(t) \/ GlobalUnlock(t)
=============================================================================
