---------------------------- MODULE UserProcess -----------------------------
(***************************************************************************)
(* The threads of a process that share its descriptor table and its memory *)
(* objects and call one stub, each doing the work it is given, one         *)
(* function at a time.                                                     *)
(***************************************************************************)
EXTENDS StubResolve

CONSTANTS Work,     \* the functions each thread may call
          MaxCalls  \* bound on the calls of each

VARIABLE calls

vars == <<fds, pc, at, to, handle, held, heap, bytes, asked, raced, memory, stub, calls>>

process == <<fds, at, to, handle, held, heap, bytes, asked, raced, memory>>

Init == DescriptorInit /\ MemoryInit /\ StubInit /\ calls = [t \in Threads |-> 0]

Calls(t, function) ==
  /\ function \in Work[t] /\ pc[t] = "idle" /\ calls[t] < MaxCalls[t]
  /\ calls' = [calls EXCEPT ![t] = @ + 1]

Begin(t) ==
  \/ /\ \/ Calls(t, "redirect") /\ RedirectBegin(t)
        \/ Calls(t, "server") /\ ServerSocket(t)
        \/ Calls(t, "stream") /\ StreamDuplicate(t)
        \/ Calls(t, "read") /\ ReadBegin(t)
        \/ Calls(t, "aligned") /\ AlignedBegin(t)
     /\ UNCHANGED <<memory, stub>>
  \/ Calls(t, "shared") /\ SharedBegin(t) /\ UNCHANGED stub
  \/ Calls(t, "protected") /\ ProtectedBegin(t) /\ UNCHANGED stub
  \/ Calls(t, "stub") /\ StubCall(t) /\ UNCHANGED process

Descriptors(t) ==
  Redirect(t) \/ Server(t) \/ StreamOpen(t) \/ Read(t) \/ CloseLast(t) \/ CloseHeld(t)

Memory(t) ==
  Shared(t) \/ Protected(t) \/ SharedClose(t) \/ SharedUnlink(t) \/ ProtectedDestroy(t)

Next ==
  \E t \in Threads :
    \/ Begin(t)
    \/ /\ \/ Descriptors(t) /\ UNCHANGED <<memory, stub>>
          \/ Memory(t) /\ UNCHANGED stub
          \/ Stub(t) /\ UNCHANGED process
       /\ UNCHANGED calls

Spec == Init /\ [][Next]_vars

-----------------------------------------------------------------------------
(* Every thread's functions that have begun have what they opened in their *)
(* handles.                                                                *)
Owners(d) == {t \in Threads : held[t] = d \/ \E i \in DOMAIN handle[t] : handle[t][i] = d}

(* A descriptor other than the standard ones is open exactly as long as    *)
(* one function or one caller has to close it, whichever step fails.  Only *)
(* a descriptor opened between the close and the dup of                    *)
(* ps4StandardIoRedirect upsets this.                                      *)
DescriptorsOwned ==
  ~raced => \A d \in DOMAIN fds \ Standard :
              IF fds[d] = Closed THEN Owners(d) = {} ELSE \E t \in Threads : Owners(d) = {t}

(* After ps4StandardIoRedirect the standard descriptors are the one asked  *)
(* for, or the null device, unless another thread redirects them too or    *)
(* opened one meanwhile.  A descriptor that is itself standard stays.      *)
OneRedirects == \A t, u \in Threads : "redirect" \in Work[t] \cap Work[u] => t = u
RedirectExact ==
  \A t \in Threads :
    pc[t] = "redirected" /\ ~raced /\ OneRedirects =>
      \A d \in Standard :
        fds[d] = IF to[t] > 0 \/ d = to[t] THEN asked[t] ELSE File("null")

(* Whichever allocation or system call fails, a function that has returned *)
(* keeps the memory of what it returned and nothing else.                  *)
MemoryReturned ==
  \A t \in Threads :
    pc[t] = "idle" =>
      /\ heap[t] = IF mapped[t] = {} THEN 0 ELSE IF IsShared(t) THEN 2 ELSE 1
      /\ handle[t] = <<>>

(* Mapped shared memory reaches no further than its object, unless an      *)
(* object was resized by a size read before another thread resized it, or  *)
(* by one that could not be read, or the descriptor of an object was taken *)
(* from under a redirect.                                                  *)
MappingBacked ==
  ~raced =>
    \A t \in Threads : \A m \in mapped[t] :
      m.object # 0 => m.pages <= objects[m.object] \/ m.object \in stale

(* A file that is read without an error is read to its end: memory is      *)
(* never full when more is asked for.                                      *)
ReadComplete ==
  \A t \in Threads :
    /\ pc[t] = "filled" => bytes[t] = 0
    /\ pc[t] = "read" => at[t] < to[t]

(* A call of a stub goes to the function in the space it is made from,     *)
(* however many threads of both spaces resolve the stub at once.           *)
StubTarget == \A t \in Threads : pc[t] = "called" => target[t] = space[t]

(* A stub returns without calling its function only if a call to the       *)
(* system that it made failed, or if the failed load of another thread     *)
(* came between its own load and its use of the handle.                    *)
StubFailsAlone == \A t \in Threads : pc[t] = "stub_failed" => t \in excused
=============================================================================
