---------------------------- MODULE HookSection -----------------------------
(***************************************************************************)
(* What the prologues need of the lock in a hook argument: the argument is *)
(* cloned by one caller at a time, and a caller that has cloned it makes   *)
(* room for the next.  The spin lock is shown to implement this.           *)
(***************************************************************************)
CONSTANT Threads   \* the callers of the hooked function

VARIABLE inside    \* those between the prologue's lock and the unlock

Nobody == inside = {}

BeginClone(t) == Nobody /\ inside' = {t}

EndClone(t) == inside = {t} /\ Nobody'

Spec == Nobody /\ [][\E t \in Threads : BeginClone(t) \/ EndClone(t)]_inside
=============================================================================
