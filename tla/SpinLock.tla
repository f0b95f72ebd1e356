------------------------------ MODULE SpinLock ------------------------------
(***************************************************************************)
(* The 64-bit spin lock word of a hook argument and the two code paths     *)
(* that take it.                                                           *)
(*                                                                         *)
(*  - The hook prologues (assembly) exchange a 1 with the word in one      *)
(*    locked instruction until they get a 0 back.                          *)
(*  - ps4AtomicSpinLock64 (C) calls ps4AtomicSwap64, which loads the word  *)
(*    into a register, exchanges that register with the CALLER'S variable  *)
(*    in a locked instruction, and stores the register to the word.  The   *)
(*    load and the store of the shared word are two steps.                 *)
(*                                                                         *)
(* Both kinds of thread may use the same word: HookAdd, HookRemove and     *)
(* HookDestroy take it in C while calls of the hooked function take it in  *)
(* assembly.                                                               *)
(***************************************************************************)
EXTENDS Naturals

CONSTANTS AsmThreads,   \* threads that take the lock in a hook prologue
          SwapThreads   \* threads that take it with ps4AtomicSpinLock64

ASSUME ThreadsAssumption == AsmThreads \cap SwapThreads = {}

VARIABLES lock,   \* the shared word
          pc,     \* what each thread does next
          rax     \* register of ps4AtomicSwap64, then the swapped variable v

vars == <<lock, pc, rax>>

Threads == AsmThreads \cup SwapThreads

Init ==
  /\ lock = 0
  /\ pc = [t \in Threads |-> "idle"]
  /\ rax = [t \in SwapThreads |-> 0]

Goto(t, from, to) == pc[t] = from /\ pc' = [pc EXCEPT ![t] = to]

-----------------------------------------------------------------------------
(* The prologue: lock xchg $1 until the word was 0; the handler stores 0.  *)

XchgBegin(t) == Goto(t, "idle", "spin") /\ UNCHANGED <<lock, rax>>

\* Mutants: a lock taken whatever the word was, a release that leaves the
\* word set.
XchgLockUntested(t) == Goto(t, "spin", "held") /\ lock' = 1 /\ UNCHANGED rax

XchgUnlockKeepsWord(t) == Goto(t, "held", "idle") /\ UNCHANGED <<lock, rax>>

XchgLock(t) ==
  /\ Goto(t, "spin", IF lock = 0 THEN "held" ELSE "spin")
  /\ lock' = 1
  /\ UNCHANGED rax

XchgUnlock(t) == Goto(t, "held", "idle") /\ lock' = 0 /\ UNCHANGED rax

-----------------------------------------------------------------------------
(* ps4AtomicSwap64 as ps4AtomicSpinLock64 and ps4AtomicSpinUnlock64 use it. *)

SwapBegin(t) == Goto(t, "idle", "load") /\ UNCHANGED <<lock, rax>>

SwapLoad(t) ==
  /\ Goto(t, "load", "store")
  /\ rax' = [rax EXCEPT ![t] = lock]
  /\ UNCHANGED lock

SwapStore(t) ==
  /\ Goto(t, "store", IF rax[t] = 0 THEN "held" ELSE "load")
  /\ lock' = 1
  /\ UNCHANGED rax

UnswapLoad(t) ==
  /\ Goto(t, "held", "unstore")
  /\ rax' = [rax EXCEPT ![t] = lock]
  /\ UNCHANGED lock

UnswapStore(t) == Goto(t, "unstore", "idle") /\ lock' = 0 /\ UNCHANGED rax

-----------------------------------------------------------------------------

AsmStep(t) == XchgLock(t) \/ XchgUnlock(t)

SwapStep(t) == SwapLoad(t) \/ SwapStore(t) \/ UnswapLoad(t) \/ UnswapStore(t)

Next ==
  \/ \E t \in AsmThreads : XchgBegin(t) \/ AsmStep(t)
  \/ \E t \in SwapThreads : SwapBegin(t) \/ SwapStep(t)

(* A thread that has started to take or to release the lock is scheduled   *)
(* again; nothing makes a thread ask for the lock.                         *)
Fairness ==
  /\ \A t \in AsmThreads : WF_vars(AsmStep(t))
  /\ \A t \in SwapThreads : WF_vars(SwapStep(t))

Spec == Init /\ [][Next]_vars /\ Fairness

-----------------------------------------------------------------------------

(* The word is a 0 or a 1 and every thread is at a step of its own path.   *)
TypeOK ==
  /\ lock \in {0, 1}
  /\ pc \in [Threads -> {"idle", "spin", "held", "load", "store", "unstore"}]
  /\ rax \in [SwapThreads -> {0, 1}]

Holders == {t \in Threads : pc[t] \in {"held", "unstore"}}

(* Two threads are never both between taking the lock and releasing it:    *)
(* the clone of a prologue and the list changes of the API exclude each    *)
(* other.                                                                  *)
Exclusion == \A t, u \in Holders : t = u

(* The word says whether somebody holds the lock: a set word without a     *)
(* holder would make every later taker spin for ever.                      *)
WordTellsHolder == (lock = 1) <=> (Holders # {})

(* A set word is accounted for: somebody holds the lock, or a C thread is  *)
(* inside ps4AtomicSpinLock64.  Prologues alone never lose the word, and a *)
(* word that was lost is the doing of a C thread that is still looping.    *)
SetWordAccounted ==
  lock = 1 => Holders # {} \/ \E t \in SwapThreads : pc[t] \in {"load", "store"}

(* When threads wait for the lock, somebody gets it.                       *)
Progress ==
  (\E t \in Threads : pc[t] \in {"spin", "load", "store"}) ~> (Holders # {})

-----------------------------------------------------------------------------
(* The section a reader of the prologue expects.                           *)

Abstract == INSTANCE HookSection WITH inside <- Holders

(* Every step of the spin lock lets one thread into the empty section, or  *)
(* the only one out of it, or leaves the section alone.                    *)
ImplementsSection == Abstract!Spec
=============================================================================
