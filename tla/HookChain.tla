----------------------------- MODULE HookChain ------------------------------
(***************************************************************************)
(* What a call of a hooked function or system call promises to the hooks,  *)
(* to the original and to the caller: the prehooks in the order they were  *)
(* added, the original, the posthooks in the same order.  The control a    *)
(* hook returns is CONTINUE = 0, BREAK = 1 (perform the call) or           *)
(* RETURN = -1 (intercept the call).                                       *)
(*                                                                         *)
(* Data is who wrote it last: arguments and returns hold 0 for the caller  *)
(* and for the zeroed memory, a hook's number, or Original.                *)
(***************************************************************************)
EXTENDS HookTable

VARIABLES type,       \* the type of each hook, in the order of the list
          phase,      \* "pre", "original", "post" or "done"
          arguments,  \* who wrote the arguments the next callee gets
          returns,    \* who wrote the returns the caller would get now
          called      \* the calls made so far

vars == <<type, phase, arguments, returns, called>>

HookControls == {-1, 0, 1}
Original == 99

Entry(p, h, control, seen) ==
  [phase |-> p, hook |-> h, control |-> control, arguments |-> seen]

Init ==
  /\ type \in Seq(HookTypes)
  /\ phase = "pre" /\ arguments = 0 /\ returns = 0 /\ called = <<>>

(* The hooks of this phase behind the last one called.                     *)
Left ==
  {k \in DOMAIN type :
     /\ RunsIn(type[k], phase)
     /\ \A i \in DOMAIN called : called[i].phase = phase => called[i].hook < k}

CallHook ==
  /\ phase \in {"pre", "post"}
  /\ \E h \in Left, control \in HookControls :
       /\ \A k \in Left : h <= k
       /\ called' = Append(called, Entry(phase, h, control, arguments))
       /\ phase' = CASE control = 0 -> phase
                     [] control = 1 /\ phase = "pre" -> "original"
                     [] OTHER -> "done"
       /\ arguments' \in {arguments, h} /\ returns' \in {returns, h}
  /\ UNCHANGED type

NoneLeft ==
  /\ phase \in {"pre", "post"} /\ Left = {}
  /\ phase' = IF phase = "pre" THEN "original" ELSE "done"
  /\ UNCHANGED <<type, arguments, returns, called>>

CallOriginal ==
  /\ phase = "original" /\ phase' = "post"
  /\ called' = Append(called, Entry("original", 0, 0, arguments))
  /\ returns' = Original
  /\ UNCHANGED <<type, arguments>>

Next == CallHook \/ NoneLeft \/ CallOriginal

Spec == Init /\ [][Next]_vars
=============================================================================
