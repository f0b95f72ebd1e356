---------------------------- MODULE KernelServer ----------------------------
(***************************************************************************)
(* Kernel threads that serve: each accepts a connection, on the shared     *)
(* listening socket or on one of its own, reads one line from it with      *)
(* ps4KernelSocketScan and closes it.                                      *)
(***************************************************************************)
EXTENDS SocketLine

vars == <<socketVars, lineVars>>

Init == SocketInit /\ LineInit

Stopped == \E t \in Threads : pc[t] = "fault"

Step(t) ==
  \/ (Accept(t) \/ Server(t)) /\ UNCHANGED <<nbio, lineVars>>
  \/ Receive(t)

Begin(t) == (BeginAccept(t) \/ BeginServer(t)) /\ UNCHANGED <<nbio, lineVars>>

Next ==
  /\ ~Stopped
  /\ \/ Network /\ UNCHANGED <<nbio, lineVars>>
     \/ \E t \in Threads : Step(t) \/ Begin(t)

Spec == Init /\ [][Next]_vars

-----------------------------------------------------------------------------
(* Every connection is in one place: not yet there, in one queue once,     *)
(* with one thread, or gone; no two threads are handed the same one.       *)
ConnectionOnce ==
  \A c \in Connections :
    LET queued == UNION {{<<h, i>> : i \in {j \in DOMAIN queue[h] : queue[h][j] = c}} :
                           h \in Servers}
        taken == {t \in Threads : so[t] = c}
    IN Cardinality(queued) + Cardinality(taken)
         = (IF c \in pending \cup gone THEN 0 ELSE 1)

(* While somebody sleeps on a server, each connection in its queue has a   *)
(* thread awake to take it: no wakeup is lost, whoever takes which.        *)
Awake(h) == {t \in Threads : head[t] = h /\ pc[t] \in {"waking", "lock", "test"}}
NoLostWakeup ==
  \A h \in Servers :
    Sleepers(h) # {} => Len(queue[h]) <= Cardinality(Awake(h))

(* accept_mtx is held by a thread that looks at the queue and by no other: *)
(* every way out of ps4KernelSocketAccept releases it.                     *)
AcceptMutexReleased ==
  \A t \in Threads : pc[t] # "fault" => (mtx = t <=> pc[t] = "test")

(* No server is left when the call that made it has returned, however it   *)
(* returned.                                                               *)
ServersDestroyed ==
  \A t \in Threads :
    t \in open => pc[t] \notin {"idle", "create", "have", "receive", "line"}

(* A line that is handed to the parser is what the peer sent, from its     *)
(* first byte to its first newline, through any number of growths, and a   *)
(* terminator.                                                             *)
LineExact ==
  \A t \in Threads :
    pc[t] = "line" =>
      /\ data[t] = Append(SubSeq(sent[so[t]], 1, offset[t] + 1), Zero)
      /\ \A i \in 1 .. offset[t] + 1 : data[t][i] = Newline <=> i = offset[t] + 1

(* Bytes are received inside the buffer, whose last index is _size; so the *)
(* terminator of a line is at most one further.                            *)
BytesInBuffer == \A t \in Threads : pc[t] = "receive" => offset[t] <= size[t]

(* Buffers are those of calls in progress: none outlives its call.         *)
BuffersFreed ==
  \A t \in Threads :
    buffers[t] = IF pc[t] \in {"receive", "line"} THEN 1
                 ELSE IF pc[t] = "fault" THEN buffers[t] ELSE 0
=============================================================================
