-------------------------- MODULE UserDescriptors ---------------------------
(***************************************************************************)
(* The descriptor table of a process and the functions that work on it:    *)
(* standard input and output are redirected, a server accepts one          *)
(* connection, a stream is opened on a duplicate, a file is read to its    *)
(* end.  System calls are steps of their own; each may fail where the code *)
(* looks at its result.  The system gives out the lowest free descriptor.  *)
(*                                                                         *)
(* An open file is a kind, and the number of the object for memory objects.*)
(***************************************************************************)
EXTENDS Integers, Sequences

CONSTANTS
  Threads,
  MaxFd,        \* bound on descriptors
  FirstSize,    \* of the memory a file is read to
  MaxBytes,     \* bound on the bytes of a file
  IntMax        \* INT_MAX

(* The size of the memory a file is read to is an int, which bounds files. *)
ASSUME TableAssumption ==
  /\ MaxFd \in Nat /\ MaxFd >= 2
  /\ FirstSize \in Nat \ {0} /\ MaxBytes \in Nat /\ IntMax \in Nat
  /\ FirstSize <= IntMax /\ 2 * MaxBytes <= IntMax

VARIABLES
  fds,          \* the descriptor table
  pc,
  at,           \* locals: loop index of Redirect, or bytes read so far
  to,           \* argument of Redirect, or size of the memory read to
  handle,       \* descriptors a function has opened and still has to close
  held,         \* descriptor a function has returned, -1 if none
  heap,         \* blocks of memory a thread has allocated
  asked,        \* the file Redirect was asked for
  bytes,        \* bytes still in the file that is read
  raced         \* history: a descriptor was taken from under a redirect

Closed == [kind |-> "closed", id |-> 0]
File(kind) == [kind |-> kind, id |-> 0]
Standard == 0 .. 2

locals == <<at, to, bytes, asked>>
Reset(t) ==
  /\ at' = [at EXCEPT ![t] = 0] /\ to' = [to EXCEPT ![t] = 0]
  /\ bytes' = [bytes EXCEPT ![t] = 0] /\ asked' = [asked EXCEPT ![t] = Closed]

DescriptorInit ==
  /\ fds = [d \in 0 .. MaxFd |-> IF d \in Standard THEN File("tty") ELSE Closed]
  /\ pc = [t \in Threads |-> "idle"]
  /\ at = [t \in Threads |-> 0] /\ to = [t \in Threads |-> 0]
  /\ handle = [t \in Threads |-> <<>>] /\ held = [t \in Threads |-> -1]
  /\ heap = [t \in Threads |-> 0] /\ bytes = [t \in Threads |-> 0]
  /\ asked = [t \in Threads |-> Closed]
  /\ raced = FALSE

Goto(t, from, next) == pc[t] = from /\ pc' = [pc EXCEPT ![t] = next]

Free == {d \in DOMAIN fds : fds[d] = Closed}

(* open, dup, socket, accept, shm_open: the lowest free descriptor.        *)
Opens(t, file, d) ==
  /\ d \in Free /\ (\A e \in Free : d <= e) /\ fds' = [fds EXCEPT ![d] = file]
  /\ raced' = (raced \/ \E u \in Threads \ {t} : pc[u] = "redirect_open" /\ at[u] = d)

Closes(d) == fds' = [fds EXCEPT ![d] = Closed] /\ UNCHANGED raced

Last(t) == handle[t][Len(handle[t])]
Pushed(t, d) == handle' = [handle EXCEPT ![t] = Append(@, d)]
Dropped(t) == handle' = [handle EXCEPT ![t] = SubSeq(@, 1, Len(@) - 1)]

-----------------------------------------------------------------------------
(* ps4StandardIoRedirect: close(i), then dup(to) or open("/dev/null").     *)
RedirectBegin(t) ==
  /\ Goto(t, "idle", "redirect")
  /\ \E fd \in {-1, 0, held[t]} :
       /\ to' = [to EXCEPT ![t] = fd]
       /\ asked' = [asked EXCEPT ![t] = IF fd = -1 THEN File("null") ELSE fds[fd]]
  /\ at' = [at EXCEPT ![t] = 0]
  /\ UNCHANGED <<fds, handle, held, heap, bytes, raced>>

\* Mutant: the descriptor that is duplicated is closed like the others.
RedirectCloseAll(t) ==
  \/ /\ at[t] \in Standard /\ Goto(t, "redirect", "redirect_open") /\ Closes(at[t])
     /\ UNCHANGED <<locals, handle, held, heap>>
  \/ /\ at[t] = 3 /\ Goto(t, "redirect", "redirected")
     /\ UNCHANGED <<fds, locals, handle, held, heap, raced>>

RedirectClose(t) ==
  \/ /\ at[t] \in Standard /\ at[t] # to[t]
     /\ Goto(t, "redirect", "redirect_open") /\ Closes(at[t])
     /\ UNCHANGED <<locals, handle, held, heap>>
  \/ /\ at[t] \in Standard /\ at[t] = to[t]
     /\ Goto(t, "redirect", "redirect") /\ at' = [at EXCEPT ![t] = @ + 1]
     /\ UNCHANGED <<fds, to, handle, held, heap, bytes, asked, raced>>
  \/ /\ at[t] = 3 /\ Goto(t, "redirect", "redirected")
     /\ UNCHANGED <<fds, locals, handle, held, heap, raced>>

RedirectOpen(t) ==
  /\ Goto(t, "redirect_open", "redirect") /\ at' = [at EXCEPT ![t] = @ + 1]
  /\ \/ /\ to[t] > 0 /\ fds[to[t]] # Closed
        /\ \E d \in DOMAIN fds : Opens(t, fds[to[t]], d)
     \/ to[t] <= 0 /\ \E d \in DOMAIN fds : Opens(t, File("null"), d)
     \/ /\ Free = {} \/ (to[t] > 0 /\ fds[to[t]] = Closed)
        /\ UNCHANGED <<fds, raced>>
  /\ UNCHANGED <<to, handle, held, heap, bytes, asked>>

RedirectReturn(t) ==
  /\ Goto(t, "redirected", "idle") /\ Reset(t)
  /\ UNCHANGED <<fds, handle, held, heap, raced>>

Redirect(t) == RedirectClose(t) \/ RedirectOpen(t) \/ RedirectReturn(t)

-----------------------------------------------------------------------------
(* ps4SocketTCPServerCreateAcceptThenDestroy, with                         *)
(* ps4SocketTCPServerCreate in it.                                         *)
IsServer(t) == fds[Last(t)] = File("server")

ServerSocket(t) ==
  /\ pc[t] = "idle" /\ held[t] = -1
  /\ \E d \in DOMAIN fds :
       Opens(t, File("server"), d) /\ Pushed(t, d) /\ Goto(t, "idle", "bind")
  /\ UNCHANGED <<locals, held, heap>>

\* Mutant: a server that cannot be bound is not closed.
ServerBindLeaks(t) ==
  /\ pc[t] = "bind"
  /\ \/ IsServer(t) /\ Goto(t, "bind", "listen") /\ UNCHANGED handle
     \/ Goto(t, "bind", "idle") /\ Dropped(t)
  /\ UNCHANGED <<fds, locals, held, heap, raced>>

ServerBind(t) ==
  /\ pc[t] = "bind"
  /\ (IsServer(t) /\ Goto(t, "bind", "listen")) \/ Goto(t, "bind", "close")
  /\ UNCHANGED <<fds, locals, handle, held, heap, raced>>

ServerListen(t) ==
  /\ pc[t] = "listen"
  /\ (IsServer(t) /\ Goto(t, "listen", "accept")) \/ Goto(t, "listen", "close")
  /\ UNCHANGED <<fds, locals, handle, held, heap, raced>>

ServerAccept(t) ==
  /\ pc[t] = "accept" /\ Goto(t, "accept", "close")
  /\ \/ /\ IsServer(t)
        /\ \E d \in DOMAIN fds : Opens(t, File("client"), d) /\ held' = [held EXCEPT ![t] = d]
     \/ UNCHANGED <<fds, held, raced>>
  /\ UNCHANGED <<locals, handle, heap>>

(* close, the last step of every function that has one handle left.        *)
CloseLast(t) ==
  /\ pc[t] = "close" /\ Closes(Last(t)) /\ Dropped(t)
  /\ Goto(t, "close", IF Len(handle[t]) = 1 THEN "idle" ELSE "close")
  /\ UNCHANGED <<locals, held, heap>>

Server(t) == ServerBind(t) \/ ServerListen(t) \/ ServerAccept(t)

(* The caller closes the descriptor or the stream it was given.            *)
CloseHeld(t) ==
  /\ pc[t] = "idle" /\ held[t] # -1 /\ Closes(held[t])
  /\ held' = [held EXCEPT ![t] = -1]
  /\ UNCHANGED <<pc, locals, handle, heap>>

-----------------------------------------------------------------------------
(* ps4StreamOpenFileDuplicate: when fdopen fails the duplicate is closed,  *)
(* the caller gets no stream and PS4_OK.                                   *)
StreamDuplicate(t) ==
  /\ pc[t] = "idle" /\ held[t] = -1
  /\ \E d \in DOMAIN fds :
       Opens(t, fds[0], d) /\ Pushed(t, d) /\ Goto(t, "idle", "fdopen")
  /\ fds[0] # Closed
  /\ UNCHANGED <<locals, held, heap>>

StreamOpen(t) ==
  /\ pc[t] = "fdopen"
  /\ \/ /\ Goto(t, "fdopen", "idle")
        /\ held' = [held EXCEPT ![t] = Last(t)] /\ Dropped(t)
     \/ Goto(t, "fdopen", "close") /\ UNCHANGED <<handle, held>>
  /\ UNCHANGED <<fds, locals, heap, raced>>

-----------------------------------------------------------------------------
(* ps4MemoryAllocateFromFileWithoutSize: read to the end, doubling the     *)
(* memory when it is full.  A read that fails, also for want of memory at  *)
(* the start, counts as the end.                                           *)
ReadBegin(t) ==
  /\ Goto(t, "idle", "read")
  /\ \E n \in 1 .. MaxBytes : bytes' = [bytes EXCEPT ![t] = n]
  /\ at' = [at EXCEPT ![t] = 0] /\ to' = [to EXCEPT ![t] = FirstSize]
  /\ heap' = [heap EXCEPT ![t] = @ + 1]
  /\ UNCHANGED <<fds, handle, held, asked, raced>>

\* Mutant: full memory is noticed one byte too late.
ReadFullLate(s, full) == s > full

ReadFull(s, full) == s = full

ReadSome(t) ==
  /\ pc[t] = "read"
  /\ \E n \in 1 .. bytes[t] :
       /\ n <= to[t] - at[t]
       /\ at' = [at EXCEPT ![t] = @ + n] /\ bytes' = [bytes EXCEPT ![t] = @ - n]
       /\ Goto(t, "read", IF ReadFull(at[t] + n, to[t]) THEN "realloc" ELSE "read")
  /\ UNCHANGED <<fds, to, handle, held, heap, asked, raced>>

ReadGrow(t) ==
  /\ pc[t] = "realloc"
  /\ \/ /\ Goto(t, "realloc", "read") /\ to' = [to EXCEPT ![t] = @ * 2]
        /\ UNCHANGED <<at, bytes, asked, heap>>
     \/ Goto(t, "realloc", "idle") /\ heap' = [heap EXCEPT ![t] = @ - 1] /\ Reset(t)
  /\ UNCHANGED <<fds, handle, held, raced>>

(* read returns 0: the end, or no room to read to.                         *)
ReadEnd(t) ==
  /\ pc[t] = "read" /\ (bytes[t] = 0 \/ at[t] = to[t])
  /\ Goto(t, "read", "filled")
  /\ UNCHANGED <<fds, locals, handle, held, heap, raced>>

ReadFail(t) ==
  /\ Goto(t, "read", "cut_short")
  /\ UNCHANGED <<fds, locals, handle, held, heap, raced>>

(* ps4MemoryAllocateFileFromPathAligned: stat, malloc, fopen, fread,       *)
(* fclose.  The memory has the size that stat gave: the alignment cancels  *)
(* out.  What fread returns is not looked at, so the memory may hold less  *)
(* of the file than that.                                                  *)
AlignedBegin(t) ==
  /\ Goto(t, "idle", "fopen") /\ heap' = [heap EXCEPT ![t] = @ + 1]
  /\ UNCHANGED <<fds, locals, handle, held, raced>>

AlignedOpen(t) ==
  \/ /\ \E d \in DOMAIN fds : Opens(t, File("file"), d) /\ Pushed(t, d)
     /\ Goto(t, "fopen", "fclose") /\ UNCHANGED <<locals, held, heap>>
  \/ /\ Goto(t, "fopen", "idle") /\ heap' = [heap EXCEPT ![t] = @ - 1]
     /\ UNCHANGED <<fds, locals, handle, held, raced>>

AlignedClose(t) ==
  /\ pc[t] = "fclose" /\ Closes(Last(t)) /\ Dropped(t) /\ Goto(t, "fclose", "cut_short")
  /\ UNCHANGED <<locals, held, heap>>

(* The caller uses the memory and frees it.                                *)
ReadReturn(t) ==
  /\ pc[t] \in {"filled", "cut_short"} /\ Goto(t, pc[t], "idle")
  /\ heap' = [heap EXCEPT ![t] = @ - 1] /\ Reset(t)
  /\ UNCHANGED <<fds, handle, held, raced>>

Read(t) ==
  \/ ReadSome(t) \/ ReadGrow(t) \/ ReadEnd(t) \/ ReadFail(t)
  \/ AlignedOpen(t) \/ AlignedClose(t) \/ ReadReturn(t)
=============================================================================
