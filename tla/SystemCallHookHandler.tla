----------------------- MODULE SystemCallHookHandler ------------------------
(***************************************************************************)
(* ps4PayloadSystemCallHookHandler on the clone of one system call: a loop *)
(* over the hooks before and one after the original call, the free of the  *)
(* clone, and the return.  A hook is its position in the list; data is     *)
(* abstracted to who wrote it last, as in HookChain.  Hooks and original   *)
(* get the same arguments, in place.  returns stands for the clone's       *)
(* sysret and returns[], which hooks write together.                       *)
(***************************************************************************)
EXTENDS HookTable

CONSTANTS
  MaxHooks,     \* bound on the hooks of the list
  Controls      \* what hooks return

VARIABLES
  hookType,     \* of the clone's hookCount hooks
  i, r,         \* locals: loop index, last control
  arguments, returns,
  pc, called, result

vars == <<hookType, i, r, arguments, returns, pc, called, result>>

Original == 99
Unknown == -1   \* what reused memory holds

hookCount == Len(hookType)

Init ==
  /\ \E m \in 0..MaxHooks : hookType \in [1..m -> HookTypes]
  /\ i = 0 /\ r = 0 /\ arguments = 0 /\ returns = 0
  /\ pc = "pre" /\ called = <<>> /\ result = Unknown

Goto(from, to) == pc = from /\ pc' = to

Log(p, h, control) ==
  called' = Append(called, [phase |-> p, hook |-> h, control |-> control,
                            arguments |-> arguments])

(* One turn of a loop: the hook at i is called or not, and the loop goes   *)
(* on while the last control is CONTINUE.                                  *)
Turn(phase, types, after) ==
  /\ pc = phase /\ i < hookCount
  /\ \/ /\ hookType[i + 1] \in types
        /\ \E control \in Controls : r' = control /\ Log(phase, i + 1, control)
        /\ arguments' \in {arguments, i + 1}
        /\ returns' \in {returns, i + 1}
     \/ /\ hookType[i + 1] \notin types
        /\ UNCHANGED <<r, arguments, returns, called>>
  /\ IF r' = 0 THEN i' = i + 1 /\ pc' = phase ELSE i' = i /\ pc' = after
  /\ UNCHANGED <<hookType, result>>

PreTurn == Turn("pre", {-1, 1, 3}, "original")

PostTurn == Turn("post", {2, 3}, "free")

(* Mutant: the second loop does not look at its index.                     *)
LoopEndOnce ==
  /\ i >= hookCount /\ Goto("pre", "original")
  /\ UNCHANGED <<hookType, i, r, arguments, returns, called, result>>

LoopEnd ==
  /\ i >= hookCount
  /\ Goto("pre", "original") \/ Goto("post", "free")
  /\ UNCHANGED <<hookType, i, r, arguments, returns, called, result>>

(* Mutant: an intercepted call is made nevertheless.                       *)
CallOriginalAlways ==
  /\ Goto("original", "post")
  /\ Log("original", 0, 0) /\ returns' = Original /\ i' = 0
  /\ UNCHANGED <<hookType, r, arguments, result>>

CallOriginal ==
  \/ /\ r # -1 /\ Goto("original", "post")
     /\ Log("original", 0, 0) /\ returns' = Original /\ i' = 0
     /\ UNCHANGED <<hookType, r, arguments, result>>
  \/ /\ r = -1 /\ Goto("original", "free")
     /\ UNCHANGED <<hookType, i, r, arguments, returns, called, result>>

(* The clone is freed, then its sysret is read: another thread may have    *)
(* been given the memory.                                                  *)
FreeClone ==
  /\ Goto("free", "freed")
  /\ UNCHANGED <<hookType, i, r, arguments, returns, called, result>>

Return ==
  /\ Goto("freed", "returned")
  /\ result' \in {returns, Unknown}
  /\ UNCHANGED <<hookType, i, r, arguments, returns, called>>

Next == PreTurn \/ PostTurn \/ LoopEnd \/ CallOriginal \/ FreeClone \/ Return

Spec == Init /\ [][Next]_vars /\ WF_vars(Next)

-----------------------------------------------------------------------------
SystemCallPhase ==
  CASE pc \in {"pre", "post"} -> pc
    [] pc = "original" -> IF r = -1 THEN "done" ELSE "original"
    [] OTHER -> "done"
=============================================================================
