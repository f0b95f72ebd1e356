---------------------------- MODULE HookHandlers ----------------------------
(***************************************************************************)
(* One call that a hook handler serves: of a hooked function, through the  *)
(* assembly handler, or of a hooked system call, through the C handler.    *)
(* The two are written separately and promise the same order of calls; the *)
(* variables they have in common mean the same in both.                    *)
(***************************************************************************)
EXTENDS FunctionHookHandler

CONSTANT SystemCallControls   \* what hooks of system calls return

ASSUME SystemCallAssumption == SystemCallControls \subseteq {-1, 0, 1}

VARIABLES kind,   \* "function" or "system_call"
          i, r    \* locals of the C handler

handlerVars == <<vars, kind, i, r>>

SystemCall == INSTANCE SystemCallHookHandler WITH Controls <- SystemCallControls

HandlerInit ==
  \/ kind = "function" /\ Init /\ i = 0 /\ r = 0
  \/ /\ kind = "system_call" /\ SystemCall!Init
     /\ hook = <<>> /\ hookCurrent = 0 /\ hookTypeCurrent = 0 /\ registers = 0

HandlerNext ==
  \/ kind = "function" /\ Next /\ UNCHANGED <<kind, i, r>>
  \/ /\ kind = "system_call" /\ SystemCall!Next
     /\ UNCHANGED <<kind, hook, hookCurrent, hookTypeCurrent, registers>>

HandlerSpec == HandlerInit /\ [][HandlerNext]_handlerVars /\ WF_handlerVars(HandlerNext)

-----------------------------------------------------------------------------
Promise ==
  INSTANCE HookChain WITH
    type <- IF kind = "function" THEN [k \in Registered |-> hookType[k]] ELSE hookType,
    phase <- IF kind = "function" THEN FunctionPhase ELSE SystemCall!SystemCallPhase

(* With no disabled hook in a function's list, hooks of functions that     *)
(* sign-extend what they return and prehooks of system calls that do not   *)
(* break, both handlers call the prehooks, the original and the posthooks  *)
(* as HookChain promises, each with the arguments its predecessors left.   *)
ImplementsChain == Promise!Spec

(* The caller of a function gets what was last written to the returns: by  *)
(* the original, by a posthook, or by the hook that intercepted the call.  *)
(* A prehook that lets the call through cannot set the result.             *)
ResultFromLastCallee ==
  kind = "function" /\ pc = "returned" =>
    LET original == {k \in DOMAIN called : called[k].phase = "original"}
    IN IF original = {} THEN result \in {0} \cup {called[k].hook : k \in DOMAIN called}
       ELSE result \in {Original} \cup
                       {called[k].hook : k \in {j \in DOMAIN called : called[j].phase = "post"}}

(* Every call returns: the loops of both handlers reach their end.         *)
Returns == <>(pc = "returned")
=============================================================================
