---------------------------- MODULE SymbolLookUp ----------------------------
(***************************************************************************)
(* ps4KernelSymbolLookUp: a cache of symbol addresses with a mutex of its  *)
(* own, both shared by all programs through the registry, over             *)
(* ps4KernelDlSym, a walk through the kernel's symbol table.               *)
(***************************************************************************)
EXTENDS CacheGlobal

CONSTANTS
  SymbolTable,  \* sequence of [name, value], in the order of the table
  Gap           \* bytes between the last symbol and the string table

ASSUME SymbolAssumption ==
  SymbolTable \in Seq([name : KernelNames, value : Values]) /\ Gap \in Nat

VARIABLES
  wanted,       \* the name each thread looks up
  missed        \* history: lookups of each thread that found nothing

lookUpVars == <<vars, wanted, missed>>

SymbolSize == 24

(* The loop of ps4KernelDlSym goes on while symbol + 1 < strings.          *)
Visited ==
  {i \in 1 .. Len(SymbolTable) :
     i * SymbolSize < Len(SymbolTable) * SymbolSize + Gap}

DlSym(name) ==
  LET hits == {i \in Visited : SymbolTable[i].name = name}
  IN IF hits = {} THEN NULL
     ELSE SymbolTable[CHOOSE i \in hits : \A j \in hits : i <= j].value

-----------------------------------------------------------------------------
(* A call of ps4KernelSymbolLookUp for a name.  The static pointer to the  *)
(* symbol cache is tested without a lock.                                  *)
CallLookUp(t, from, name, back) ==
  /\ Enter(t, from, IF Of(t, "symbols") = NULL THEN "first" ELSE "lock_symbols", back)
  /\ wanted' = [wanted EXCEPT ![t] = name]
  /\ UNCHANGED <<shared, call, r, answer, missed>>

LookUpGetCache(t) ==
  /\ CallGlobal(t, "get_symbols", "get", "symbols", NULL, "got_symbols")
  /\ UNCHANGED <<shared, r, answer>>

LookUpGetMutex(t) ==
  /\ r[t] = "ok"
  /\ CallGlobal(t, "got_symbols", "get", "symbolsMutex", NULL, "leave_first")
  /\ UNCHANGED <<shared, r, answer>>

(* Any failure to get the cache leads to a new one.                        *)
LookUpCreate(t) ==
  /\ r[t] # "ok"
  /\ CallGlobal(t, "got_symbols", "set", "symbols", <<"symbols", t>>, "allocate_symbolsMutex")
  /\ Store(t, "symbols", <<"symbols", t>>)
  /\ UNCHANGED <<published, contents, owner, depth, ready, freed, refused, r, answer>>

LookUpAllocate(t) ==
  /\ Goto(t, "allocate_symbolsMutex", "init_symbolsMutex")
  /\ Store(t, "symbolsMutex", <<"symbolsMutex", t>>)
  /\ UNCHANGED <<published, contents, owner, depth, ready, freed, refused, stack, call, r, answer>>

\* Mutant: the new mutex is registered without mtx_init.
LookUpInitRaw(t) ==
  /\ CallGlobal(t, "init_symbolsMutex", "set", "symbolsMutex", Of(t, "symbolsMutex"), "leave_first")
  /\ UNCHANGED <<shared, r, answer>>

LookUpInit(t) ==
  /\ CallGlobal(t, "init_symbolsMutex", "set", "symbolsMutex", Of(t, "symbolsMutex"), "leave_first")
  /\ ready' = ready \cup {Of(t, "symbolsMutex")}
  /\ UNCHANGED <<static, published, contents, owner, depth, freed, refused, r, answer>>

LookUpLeaveFirst(t) ==
  /\ Goto(t, "leave_first", "lock_symbols") /\ Unlock(t, Giant)
  /\ UNCHANGED <<static, published, contents, ready, freed, refused, stack, call, r, answer>>

LookUpFirst(t) ==
  \/ LockGiant(t, "first", "get_symbols")
  \/ LookUpGetCache(t) \/ LookUpGetMutex(t) \/ LookUpCreate(t)
  \/ LookUpAllocate(t) \/ LookUpInit(t) \/ LookUpLeaveFirst(t)

\* Mutants: the hash is taken over no bytes of the name, so any entry is
\* found; a hit returns before the unlock.
LookUpFindAny(t) ==
  LET c == Of(t, "symbols")
      full == IF c = NULL THEN {} ELSE {n \in KernelNames : contents[c][n] # Absent}
  IN /\ \/ full = {} /\ Goto(t, "find", "miss") /\ UNCHANGED answer
        \/ /\ full # {} /\ Goto(t, "find", "unlock_symbols")
           /\ answer' = [answer EXCEPT ![t] = contents[c][CHOOSE n \in full : TRUE]]
     /\ UNCHANGED <<shared, stack, call, r>>

LookUpFindReturns(t) ==
  LET c == Of(t, "symbols")
      v == IF c = NULL THEN Absent ELSE contents[c][wanted[t]]
  IN /\ \/ v = Absent /\ Goto(t, "find", "miss") /\ UNCHANGED <<answer, stack, r>>
        \/ v # Absent /\ Return(t, "find", "ok") /\ answer' = [answer EXCEPT ![t] = v]
     /\ UNCHANGED <<shared, call>>

(* ps4KernelCacheGet finds nothing in a cache that is NULL.                *)
LookUpFind(t) ==
  LET c == Of(t, "symbols")
      v == IF c = NULL THEN Absent ELSE contents[c][wanted[t]]
  IN /\ \/ v = Absent /\ Goto(t, "find", "miss") /\ UNCHANGED answer
        \/ /\ v # Absent /\ Goto(t, "find", "unlock_symbols")
           /\ answer' = [answer EXCEPT ![t] = v]
     /\ UNCHANGED <<shared, stack, call, r>>

(* What ps4KernelDlSym answers is cached, NULL too; a lookup that got NULL *)
(* returns without unlocking the mutex.                                    *)
LookUpMiss(t) ==
  LET c == Of(t, "symbols")
      v == DlSym(wanted[t])
  IN /\ contents' = IF c = NULL THEN contents
                    ELSE [contents EXCEPT ![c][wanted[t]] = v]
     /\ answer' = [answer EXCEPT ![t] = v]
     /\ \/ /\ v # NULL /\ Goto(t, "miss", "unlock_symbols")
           /\ UNCHANGED <<stack, r, missed>>
        \/ /\ v = NULL /\ Return(t, "miss", "not_found")
           /\ missed' = [missed EXCEPT ![t] = @ + 1]
     /\ UNCHANGED <<static, published, owner, depth, ready, freed, refused, call>>

LookUp(t) ==
  /\ \/ /\ \/ LookUpFirst(t) \/ LockSlot(t, "symbolsMutex", "lock_symbols", "find")
           \/ LookUpFind(t) \/ UnlockSlot(t, "symbolsMutex", "unlock_symbols", "ok")
        /\ UNCHANGED missed
     \/ LookUpMiss(t)
  /\ UNCHANGED wanted
=============================================================================
