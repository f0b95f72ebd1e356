---------------------------- MODULE StubResolve -----------------------------
(***************************************************************************)
(* Stubs of library functions.  A stub jumps to the address in its cell;   *)
(* while that is NULL it resolves the function first.  An adaptive stub    *)
(* has a cell for user code and one for the kernel, and tells by the stack *)
(* pointer which of them it runs as; the plain stubs do the same with one  *)
(* cell.  Nothing is locked: threads of the process that call the stub for *)
(* the first time resolve it side by side, and share the handle of its     *)
(* module.                                                                 *)
(*                                                                         *)
(* There is one function in one module.  Its address is named after the    *)
(* space it is in.  Handles: 0 before any load, 1 loaded, -1 failed.       *)
(***************************************************************************)
EXTENDS UserMemory

Spaces == {"user", "kernel"}
None == "none"

VARIABLES
  moduleHandle,
  loadStartModule,  \* sceKernelLoadStartModule has been found
  exported,         \* the kernel's symbol table has the function
  address,          \* the cells of the stub
  space,            \* where each thread calls the stub from
  seen,             \* the handle it has read or stored last
  target,           \* where its call went
  excused           \* history: threads of which a call to the system failed,
                    \* or whose handle was overwritten by a failed load

stub == <<moduleHandle, loadStartModule, exported, address, space, seen, target, excused>>

StubInit ==
  /\ moduleHandle = 0 /\ loadStartModule = FALSE /\ exported \in BOOLEAN
  /\ address = [s \in Spaces |-> None] /\ space = [t \in Threads |-> None]
  /\ seen = [t \in Threads |-> 0] /\ target = [t \in Threads |-> None] /\ excused = {}

StubCall(t) ==
  /\ Goto(t, "idle", "stub") /\ \E s \in Spaces : space' = [space EXCEPT ![t] = s]
  /\ UNCHANGED <<moduleHandle, loadStartModule, exported, address, seen, target, excused>>

\* Mutant: the stack pointer is not looked at.
StubJumpUser(t) ==
  /\ \/ /\ address["user"] # None /\ Goto(t, "stub", "called")
        /\ target' = [target EXCEPT ![t] = address["user"]]
     \/ /\ address["user"] = None /\ UNCHANGED target
        /\ Goto(t, "stub", IF space[t] = "kernel" THEN "kernel_dlsym" ELSE "module")
  /\ UNCHANGED <<moduleHandle, loadStartModule, exported, address, space, seen, excused>>

StubJump(t) ==
  /\ pc[t] = "stub"
  /\ \/ /\ address[space[t]] # None /\ Goto(t, "stub", "called")
        /\ target' = [target EXCEPT ![t] = address[space[t]]]
     \/ /\ address[space[t]] = None /\ UNCHANGED target
        /\ Goto(t, "stub", IF space[t] = "kernel" THEN "kernel_dlsym" ELSE "module")
  /\ UNCHANGED <<moduleHandle, loadStartModule, exported, address, space, seen, excused>>

(* A stub that could not be resolved returns to its caller.                *)
StubFail(t, from) == Goto(t, from, "stub_failed")
Excuse(S) == excused' = excused \cup S

(* ps4KernelStubResolve.                                                   *)
KernelResolve(t) ==
  /\ \/ /\ exported /\ Goto(t, "kernel_dlsym", "stub") /\ UNCHANGED excused
        /\ address' = [address EXCEPT !["kernel"] = "kernel"]
     \/ /\ ~exported /\ StubFail(t, "kernel_dlsym") /\ Excuse({t})
        /\ address' = [address EXCEPT !["kernel"] = None]
  /\ UNCHANGED <<moduleHandle, loadStartModule, exported, space, seen, target>>

-----------------------------------------------------------------------------
\* Mutant: only a failed load counts as not loaded.
ResolveModuleNegative(t) ==
  /\ seen' = [seen EXCEPT ![t] = moduleHandle]
  /\ Goto(t, "module", IF moduleHandle >= 0 THEN "dlsym"
                       ELSE IF loadStartModule THEN "load" ELSE "libkernel")
  /\ UNCHANGED <<moduleHandle, loadStartModule, exported, address, space, target, excused>>

(* ps4StubResolve: load the module unless its handle says it is loaded.    *)
ResolveModule(t) ==
  /\ seen' = [seen EXCEPT ![t] = moduleHandle]
  /\ Goto(t, "module", IF moduleHandle > 0 THEN "dlsym"
                       ELSE IF loadStartModule THEN "load" ELSE "libkernel")
  /\ UNCHANGED <<moduleHandle, loadStartModule, exported, address, space, target, excused>>

ResolveLibkernel(t) ==
  /\ \/ Goto(t, "libkernel", "loader") /\ UNCHANGED excused
     \/ StubFail(t, "libkernel") /\ Excuse({t})
  /\ UNCHANGED <<moduleHandle, loadStartModule, exported, address, space, seen, target>>

ResolveLoader(t) ==
  /\ \/ Goto(t, "loader", "load") /\ loadStartModule' = TRUE /\ UNCHANGED excused
     \/ StubFail(t, "loader") /\ Excuse({t}) /\ UNCHANGED loadStartModule
  /\ UNCHANGED <<moduleHandle, exported, address, space, seen, target>>

ResolveLoad(t) ==
  /\ Goto(t, "load", "loaded")
  /\ \E h \in {1, -1} :
       /\ moduleHandle' = h /\ seen' = [seen EXCEPT ![t] = h]
       /\ Excuse(IF h = 1 THEN {} ELSE {t} \cup {u \in Threads : pc[u] \in {"loaded", "dlsym"}})
  /\ UNCHANGED <<loadStartModule, exported, address, space, target>>

(* *moduleHandle is read without a lock: the compiler may use the value it *)
(* has seen, or read it again.                                             *)
Handles(t) == {seen[t], moduleHandle}

ResolveLoaded(t) ==
  /\ \E h \in Handles(t) :
       /\ seen' = [seen EXCEPT ![t] = h]
       /\ \/ h > 0 /\ Goto(t, "loaded", "dlsym")
          \/ h <= 0 /\ StubFail(t, "loaded")
  /\ UNCHANGED <<moduleHandle, loadStartModule, exported, address, space, target, excused>>

ResolveSymbol(t) ==
  /\ \E h \in Handles(t) :
       \/ /\ h > 0 /\ Goto(t, "dlsym", "stub") /\ UNCHANGED excused
          /\ address' = [address EXCEPT !["user"] = "user"]
       \/ /\ StubFail(t, "dlsym") /\ Excuse(IF h > 0 THEN {t} ELSE {})
          /\ UNCHANGED address
  /\ UNCHANGED <<moduleHandle, loadStartModule, exported, space, seen, target>>

(* The function itself, or the caller after a failure.                     *)
StubReturn(t) ==
  /\ pc[t] \in {"called", "stub_failed"} /\ Goto(t, pc[t], "idle")
  /\ space' = [space EXCEPT ![t] = None] /\ seen' = [seen EXCEPT ![t] = 0]
  /\ target' = [target EXCEPT ![t] = None] /\ excused' = excused \ {t}
  /\ UNCHANGED <<moduleHandle, loadStartModule, exported, address>>

Stub(t) ==
  \/ StubJump(t) \/ KernelResolve(t) \/ ResolveModule(t) \/ ResolveLibkernel(t)
  \/ ResolveLoader(t) \/ ResolveLoad(t) \/ ResolveLoaded(t) \/ ResolveSymbol(t)
  \/ StubReturn(t)
=============================================================================
