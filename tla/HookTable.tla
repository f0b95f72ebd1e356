----------------------------- MODULE HookTable ------------------------------
(***************************************************************************)
(* The two parallel arrays of a function hook, hook and hookType, as the   *)
(* handler's loops read them.  Types are those of the header: PRE = -1,    *)
(* DISABLED = 0, GENERIC_PRE = 1, GENERIC_POST = 2, GENERIC_BOTH = 3.      *)
(***************************************************************************)
EXTENDS Integers, Sequences

CONSTANT NULL   \* no hook

HookTypes == {-1, 0, 1, 2, 3}

(* The hooks a loop calls: all but the posthooks before the original, all  *)
(* but the prehooks after it, the disabled ones never.                     *)
RunsIn(type, phase) ==
  type \notin (IF phase = "pre" THEN {0, 2} ELSE {0, -1, 1})

(* A loop ends at a cell whose type is zero, and at a cell it would call   *)
(* whose hook is NULL.                                                     *)
EndsLoop(hook, type, phase) ==
  type = 0 \/ (RunsIn(type, phase) /\ hook = NULL)

(* The cells a loop calls if every hook lets it go on.                     *)
Ran(hook, type, phase) ==
  {i \in DOMAIN type \cap DOMAIN hook :
     /\ RunsIn(type[i], phase)
     /\ \A j \in 1..i : ~EndsLoop(hook[j], type[j], phase)}
=============================================================================
