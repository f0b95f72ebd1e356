------------------------ MODULE FunctionHookHandler -------------------------
(***************************************************************************)
(* ps4PayloadFunctionHookHandler on the clone of one call, from the saved  *)
(* registers to the return: one loop over the hook arrays before and one   *)
(* after the bridge to the original.                                       *)
(*                                                                         *)
(* A hook is its position in the list.  Register contents are abstracted   *)
(* to who wrote them, as in HookChain.                                     *)
(***************************************************************************)
EXTENDS HookTable

CONSTANTS
  MaxHooks,     \* bound on the hooks of the list
  Types,        \* hook types in the list
  Controls,     \* what hooks return
  SignExtends   \* TRUE: hooks, which return int, leave a sign-extended %rax

ASSUME HandlerAssumption ==
  /\ MaxHooks \in Nat /\ NULL \notin 1..MaxHooks /\ Types \subseteq HookTypes
  /\ Controls \subseteq {-1, 0, 1} /\ SignExtends \in BOOLEAN

VARIABLES
  hook, hookType,               \* the clone's arrays
  hookCurrent, hookTypeCurrent, \* loop index; 0 in the pre run, 1 after it
  arguments, returns,           \* the clone's register areas
  registers,                    \* the argument registers
  pc, called, result

vars == <<hook, hookType, hookCurrent, hookTypeCurrent, arguments, returns, registers,
          pc, called, result>>

table == <<hook, hookType>>

Original == 99
Clobbered == -1

(* HookAdd has filled n cells of the list.  HookRemove leaves the types of *)
(* removed hooks behind the last hook.                                     *)
Clone(n, types) ==
  /\ hook = [i \in 1..MaxHooks + 1 |-> IF i <= n THEN i ELSE NULL]
  /\ hookType = [i \in 1..MaxHooks + 1 |-> IF i <= Len(types) THEN types[i] ELSE 0]

Init ==
  /\ \E m \in 0..MaxHooks : \E n \in 0..m, types \in [1..m -> Types] : Clone(n, types)
  /\ hookCurrent = -1 /\ hookTypeCurrent = 0
  /\ arguments = 0 /\ returns = 0 /\ registers = 0
  /\ pc = "save" /\ called = <<>> /\ result = Clobbered

Goto(from, to) == pc = from /\ pc' = to

Phase == IF hookTypeCurrent = 0 THEN "pre" ELSE "post"

Log(h, control, seen) ==
  called' = Append(called, [phase |-> IF h = 0 THEN "original" ELSE Phase, hook |-> h,
                            control |-> control, arguments |-> seen])

-----------------------------------------------------------------------------
(* The registers go to the clone's arguments; the loop starts before the   *)
(* first cell.                                                             *)
SaveArguments ==
  /\ Goto("save", "loop")
  /\ arguments' = registers
  /\ hookTypeCurrent' = 0 /\ hookCurrent' = -1
  /\ UNCHANGED <<table, returns, registers, called, result>>

(* The type of the next cell ends the loop, skips the cell, or lets the    *)
(* call be prepared: a hook with the function's own signature gets the     *)
(* arguments in registers, a generic one the thread and the clone.         *)
NextCell ==
  LET type == hookType[hookCurrent + 2]
  IN /\ pc = "loop" /\ hookCurrent' = hookCurrent + 1
     /\ \/ type = 0 /\ Goto("loop", "loop_done") /\ UNCHANGED registers
        \/ /\ type # 0 /\ ~RunsIn(type, Phase) /\ Goto("loop", "loop")
           /\ UNCHANGED registers
        \/ /\ RunsIn(type, Phase) /\ Goto("loop", "call")
           /\ registers' = IF type < 0 THEN arguments ELSE Clobbered
     /\ UNCHANGED <<table, hookTypeCurrent, arguments, returns, called, result>>

(* Whatever a hook of C type int returns, the 64-bit compare looks at all  *)
(* of %rax.  A negative int is negative there only when sign-extended.     *)
InRax(control) == IF control = -1 /\ ~SignExtends THEN {-1, 1} ELSE {control}

AfterHook(rax) ==
  IF rax = 0 THEN "loop" ELSE IF rax > 0 THEN "loop_done" ELSE "call_done"

CallHook ==
  LET h == hook[hookCurrent + 1]
      seen == IF registers = Clobbered THEN arguments ELSE registers
  IN \/ /\ Goto("call", "loop_done") /\ h = NULL
        /\ UNCHANGED <<table, hookCurrent, hookTypeCurrent, arguments, returns, registers,
                       called, result>>
     \/ /\ pc = "call" /\ h # NULL
        /\ \E control \in Controls : \E rax \in InRax(control) :
             Goto("call", AfterHook(rax)) /\ Log(h, control, seen)
        /\ arguments' \in {arguments, h}
        /\ returns' \in {returns, h}
        /\ registers' = Clobbered
        /\ UNCHANGED <<table, hookCurrent, hookTypeCurrent, result>>

(* The arguments go back to the registers; the run counter tells whether   *)
(* the original is still to be called.                                     *)
LoopDone ==
  /\ Goto("loop_done", IF hookTypeCurrent = 0 THEN "bridge" ELSE "call_done")
  /\ registers' = arguments
  /\ hookTypeCurrent' = 1
  /\ UNCHANGED <<table, hookCurrent, arguments, returns, called, result>>

CallBridge ==
  /\ Goto("bridge", "loop")
  /\ Log(0, 0, registers)
  /\ returns' = Original
  /\ registers' = Clobbered
  /\ hookCurrent' = -1
  /\ UNCHANGED <<table, hookTypeCurrent, arguments, result>>

(* Mutant: the registers are left as they are.                             *)
CallDoneKeepsRegisters ==
  /\ Goto("call_done", "returned")
  /\ result' = registers
  /\ UNCHANGED <<table, hookCurrent, hookTypeCurrent, arguments, returns, registers,
                 called>>

(* The returns go to the registers, the epilogue frees the clone.          *)
CallDone ==
  /\ Goto("call_done", "returned")
  /\ result' = returns
  /\ UNCHANGED <<table, hookCurrent, hookTypeCurrent, arguments, returns, registers,
                 called>>

Next ==
  SaveArguments \/ NextCell \/ CallHook \/ LoopDone \/ CallBridge \/ CallDone

Spec == Init /\ [][Next]_vars /\ WF_vars(Next)

-----------------------------------------------------------------------------
Registered == {i \in DOMAIN hook : hook[i] # NULL}

FunctionPhase ==
  CASE pc \in {"save", "loop", "call"} -> Phase
    [] pc = "bridge" \/ (pc = "loop_done" /\ hookTypeCurrent = 0) -> "original"
    [] OTHER -> "done"

(* A hook that asks to intercept the call is the last one called.          *)
InterceptEndsCall ==
  \A i \in DOMAIN called : called[i].control = -1 => i = Len(called)
=============================================================================
