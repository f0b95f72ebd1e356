--------------------------- MODULE SpinLockProofs ---------------------------
(***************************************************************************)
(* Proofs about SpinLock for every set of threads.  What involves only the *)
(* prologues is proved under SwapThreads = {}: ps4AtomicSwap64 loads and   *)
(* stores in two steps, so with C threads the lock excludes nobody.        *)
(***************************************************************************)
EXTENDS SpinLock, TLAPS

(* The word of a hook argument stays a 0 or a 1, and the threads of the    *)
(* two code paths stay on their own steps.                                 *)
THEOREM TypeCorrect == Spec => []TypeOK
<1>1. Init => TypeOK
  BY DEF Init, TypeOK, Threads
<1>2. TypeOK /\ [Next]_vars => TypeOK'
  <2> SUFFICES ASSUME TypeOK, [Next]_vars PROVE TypeOK'
    OBVIOUS
  <2>1. ASSUME NEW t \in AsmThreads, XchgBegin(t) \/ AsmStep(t) PROVE TypeOK'
    BY <2>1 DEF TypeOK, XchgBegin, AsmStep, XchgLock, XchgUnlock, Goto, Threads
  <2>2. ASSUME NEW t \in SwapThreads, SwapBegin(t) \/ SwapStep(t) PROVE TypeOK'
    BY <2>2 DEF TypeOK, SwapBegin, SwapStep, SwapLoad, SwapStore, UnswapLoad,
                UnswapStore, Goto, Threads
  <2>3. CASE UNCHANGED vars
    BY <2>3 DEF TypeOK, vars
  <2> QED
    BY <2>1, <2>2, <2>3 DEF Next
<1> QED
  BY <1>1, <1>2, PTL DEF Spec

-----------------------------------------------------------------------------
(* A set word has a holder or a C thread inside ps4AtomicSpinLock64: the   *)
(* only way to lose the word is the store of a C thread that still loops.  *)
THEOREM WordAccounted == Spec => []SetWordAccounted
<1>1. Init => SetWordAccounted
  BY DEF Init, SetWordAccounted
<1>2. TypeOK /\ SetWordAccounted /\ [Next]_vars => SetWordAccounted'
  <2> SUFFICES ASSUME TypeOK, SetWordAccounted, [Next]_vars
               PROVE  SetWordAccounted'
    OBVIOUS
  <2>1. ASSUME NEW t \in AsmThreads, XchgBegin(t) PROVE SetWordAccounted'
    BY <2>1, ThreadsAssumption
       DEF TypeOK, SetWordAccounted, XchgBegin, Goto, Threads, Holders
  <2>2. ASSUME NEW t \in AsmThreads, XchgLock(t) PROVE SetWordAccounted'
    BY <2>2, ThreadsAssumption
       DEF TypeOK, SetWordAccounted, XchgLock, Goto, Threads, Holders
  <2>3. ASSUME NEW t \in AsmThreads, XchgUnlock(t) PROVE SetWordAccounted'
    BY <2>3 DEF SetWordAccounted, XchgUnlock
  <2>4. ASSUME NEW t \in SwapThreads, SwapBegin(t) PROVE SetWordAccounted'
    BY <2>4 DEF TypeOK, SetWordAccounted, SwapBegin, Goto, Threads
  <2>5. ASSUME NEW t \in SwapThreads, SwapLoad(t) PROVE SetWordAccounted'
    BY <2>5 DEF TypeOK, SetWordAccounted, SwapLoad, Goto, Threads
  <2>6. ASSUME NEW t \in SwapThreads, SwapStore(t) PROVE SetWordAccounted'
    BY <2>6 DEF TypeOK, SetWordAccounted, SwapStore, Goto, Threads, Holders
  <2>7. ASSUME NEW t \in SwapThreads, UnswapLoad(t) PROVE SetWordAccounted'
    BY <2>7 DEF TypeOK, SetWordAccounted, UnswapLoad, Goto, Threads, Holders
  <2>8. ASSUME NEW t \in SwapThreads, UnswapStore(t) PROVE SetWordAccounted'
    BY <2>8 DEF SetWordAccounted, UnswapStore
  <2>9. CASE UNCHANGED vars
    BY <2>9 DEF SetWordAccounted, Holders, vars
  <2> QED
    BY <2>1, <2>2, <2>3, <2>4, <2>5, <2>6, <2>7, <2>8, <2>9
       DEF Next, AsmStep, SwapStep
<1> QED
  BY <1>1, <1>2, TypeCorrect, PTL DEF Spec

-----------------------------------------------------------------------------
(* The prologues alone: Exclusion is inductive together with the fact that *)
(* the word is set exactly while somebody holds the lock.                  *)

PrologueInv == TypeOK /\ Exclusion /\ WordTellsHolder

LEMMA PrologueInductive ==
  ASSUME SwapThreads = {}
  PROVE  /\ Init => PrologueInv
         /\ PrologueInv /\ [Next]_vars => PrologueInv'
<1>1. Init => PrologueInv
  BY DEF Init, PrologueInv, TypeOK, Exclusion, WordTellsHolder, Holders, Threads
<1>2. ASSUME PrologueInv, [Next]_vars PROVE PrologueInv'
  <2> USE <1>2 DEF PrologueInv
  <2>1. ASSUME NEW t \in AsmThreads, XchgBegin(t) PROVE PrologueInv'
    BY <2>1 DEF TypeOK, Exclusion, WordTellsHolder, Holders, Threads, XchgBegin,
                Goto
  <2>2. ASSUME NEW t \in AsmThreads, XchgLock(t) PROVE PrologueInv'
    BY <2>2 DEF TypeOK, Exclusion, WordTellsHolder, Holders, Threads, XchgLock,
                Goto
  <2>3. ASSUME NEW t \in AsmThreads, XchgUnlock(t) PROVE PrologueInv'
    BY <2>3 DEF TypeOK, Exclusion, WordTellsHolder, Holders, Threads, XchgUnlock,
                Goto
  <2>4. CASE UNCHANGED vars
    BY <2>4 DEF TypeOK, Exclusion, WordTellsHolder, Holders, vars
  <2> QED
    BY <2>1, <2>2, <2>3, <2>4, SwapThreads = {} DEF Next, AsmStep
<1> QED
  BY <1>1, <1>2

(* However many calls of the hooked function run at once, at most one of   *)
(* them clones the hook argument at a time, as long as no C code takes the *)
(* same lock.                                                              *)
THEOREM PrologueExclusion ==
  ASSUME SwapThreads = {}
  PROVE  Spec => []Exclusion
<1>1. Init => PrologueInv
  BY PrologueInductive, SwapThreads = {}
<1>2. PrologueInv /\ [Next]_vars => PrologueInv'
  BY PrologueInductive, SwapThreads = {}
<1>3. PrologueInv => Exclusion
  BY DEF PrologueInv
<1> QED
  BY <1>1, <1>2, <1>3, PTL DEF Spec

-----------------------------------------------------------------------------
(* The prologues' spin lock implements the section: a successful exchange  *)
(* enters it, the handler's exchange with 0 leaves it, and every other     *)
(* step leaves the holders alone.                                          *)
THEOREM PrologueRefinement ==
  ASSUME SwapThreads = {}
  PROVE  Spec => ImplementsSection
<1> DEFINE Move == \E t \in Threads : Abstract!BeginClone(t) \/ Abstract!EndClone(t)
<1>1. Init => Abstract!Nobody
  BY DEF Init, Holders, Abstract!Nobody
<1>2. PrologueInv /\ [Next]_vars => [Move]_Holders
  <2> SUFFICES ASSUME PrologueInv, [Next]_vars
               PROVE  Move \/ Holders' = Holders
    OBVIOUS
  <2>a. TypeOK /\ Exclusion /\ WordTellsHolder
    BY DEF PrologueInv
  <2>1. ASSUME NEW t \in AsmThreads, XchgBegin(t) PROVE Holders' = Holders
    BY <2>1, <2>a DEF XchgBegin, Goto, Holders, TypeOK, Threads
  <2>2. ASSUME NEW t \in AsmThreads, XchgLock(t)
        PROVE  Move \/ Holders' = Holders
    <3>1. CASE lock = 0
      <4>1. Holders = {} /\ Holders' = {t}
        BY <2>2, <3>1, <2>a
           DEF XchgLock, Goto, Holders, TypeOK, Threads, WordTellsHolder
      <4>2. Abstract!BeginClone(t)
        BY <4>1 DEF Abstract!BeginClone, Abstract!Nobody
      <4> QED
        BY <4>2 DEF Threads
    <3>2. CASE lock # 0
      BY <2>2, <3>2, <2>a DEF XchgLock, Goto, Holders, TypeOK, Threads
    <3> QED
      BY <3>1, <3>2
  <2>3. ASSUME NEW t \in AsmThreads, XchgUnlock(t) PROVE Move
    <3>1. Holders = {t} /\ Holders' = {}
      BY <2>3, <2>a
         DEF XchgUnlock, Goto, Holders, TypeOK, Threads, Exclusion
    <3>2. Abstract!EndClone(t)
      BY <3>1 DEF Abstract!EndClone, Abstract!Nobody
    <3> QED
      BY <3>2 DEF Threads
  <2>4. CASE UNCHANGED vars
    BY <2>4 DEF vars, Holders
  <2> QED
    BY <2>1, <2>2, <2>3, <2>4, SwapThreads = {} DEF Next, AsmStep
<1>3. Init => PrologueInv
  BY PrologueInductive, SwapThreads = {}
<1>4. PrologueInv /\ [Next]_vars => PrologueInv'
  BY PrologueInductive, SwapThreads = {}
<1> QED
  BY <1>1, <1>2, <1>3, <1>4, PTL DEF Spec, ImplementsSection, Abstract!Spec
=============================================================================
