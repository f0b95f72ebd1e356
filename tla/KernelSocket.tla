---------------------------- MODULE KernelSocket ----------------------------
(***************************************************************************)
(* Listening sockets in the kernel.  ps4KernelSocketAccept takes a         *)
(* connection from the queue of a listening socket under the kernel's      *)
(* accept_mtx, sleeping while there is none; several threads may accept on *)
(* one socket.  ps4KernelSocketTCPServerCreateAcceptThenDestroy makes a    *)
(* server of its own, accepts one connection and destroys the server.      *)
(*                                                                         *)
(* The kernel's part (a connection arrives, a socket fails or is shut      *)
(* down, a signal interrupts a sleep, a call fails) is external: it        *)
(* happens at any time.                                                    *)
(***************************************************************************)
EXTENDS Sequences, FiniteSets

CONSTANTS Threads, Connections, NULL,
          Shared     \* a listening socket all threads may accept on

ASSUME SharedAssumption ==
  /\ Shared \notin Threads /\ NULL \notin Threads \cup Connections
  /\ IsFiniteSet(Threads)

(* A thread has at most one server, named after it.                        *)
Servers == Threads \cup {Shared}

VARIABLES
  open,       \* servers that exist
  listening,  \* servers that connections can arrive at
  queue,      \* so_comp of each server
  broken,     \* servers with so_error set
  nbio,       \* servers that do not block (SS_NBIO)
  ended,      \* servers that can receive no more (SBS_CANTRCVMORE)
  mtx,        \* who holds accept_mtx
  pc,
  head,       \* the server each thread accepts on
  so,         \* the connection a thread has taken or was handed
  pending,    \* connections that have not arrived yet
  gone        \* connections closed, dropped with their server, or taken and
              \* not handed to the caller

socketVars == <<open, listening, queue, broken, nbio, ended, mtx, pc, head, so, pending, gone>>

Goto(t, from, to) == pc[t] = from /\ pc' = [pc EXCEPT ![t] = to]

Sleepers(h) == {t \in Threads : pc[t] = "asleep" /\ head[t] = h}

-----------------------------------------------------------------------------
(* The kernel: a connection is queued and one sleeper woken; a failure or  *)
(* a shutdown wakes all sleepers.                                          *)
Wake(woken) == pc' = [t \in Threads |-> IF t \in woken THEN "waking" ELSE pc[t]]

Arrive(h, c) ==
  /\ h \in listening /\ c \in pending /\ pending' = pending \ {c}
  /\ queue' = [queue EXCEPT ![h] = Append(@, c)]
  /\ \/ Sleepers(h) = {} /\ UNCHANGED pc
     \/ \E t \in Sleepers(h) : Wake({t})
  /\ UNCHANGED <<open, listening, broken, ended, mtx, head, so, gone>>

Break(h) ==
  /\ h \in listening \ broken /\ broken' = broken \cup {h} /\ Wake(Sleepers(h))
  /\ UNCHANGED <<open, listening, queue, ended, mtx, head, so, pending, gone>>

End(h) ==
  /\ h \in listening \ ended /\ ended' = ended \cup {h} /\ Wake(Sleepers(h))
  /\ UNCHANGED <<open, listening, queue, broken, mtx, head, so, pending, gone>>

-----------------------------------------------------------------------------
(* soclose on a server, with what is still in its queue.                   *)
Destroy(h) ==
  /\ open' = open \ {h} /\ listening' = listening \ {h}
  /\ broken' = broken \ {h} /\ ended' = ended \ {h}
  /\ queue' = [queue EXCEPT ![h] = <<>>]
  /\ gone' = gone \cup {queue[h][i] : i \in DOMAIN queue[h]}

(* ps4KernelSocketTCPServerCreate: create, set options, bind, listen.      *)
ServerCreate(t) ==
  /\ \/ Goto(t, "create", "idle") /\ UNCHANGED open
     \/ Goto(t, "create", "bind") /\ open' = open \cup {t}
  /\ UNCHANGED <<listening, queue, broken, ended, mtx, head, so, pending, gone>>

ServerBind(t) ==
  /\ \/ /\ Goto(t, "bind", "listen")
        /\ UNCHANGED <<open, listening, queue, broken, ended, gone>>
     \/ Goto(t, "bind", "idle") /\ Destroy(t)
  /\ UNCHANGED <<mtx, head, so, pending>>

ServerListen(t) ==
  /\ \/ /\ Goto(t, "listen", "look_up")
        /\ listening' = listening \cup {t} /\ head' = [head EXCEPT ![t] = t]
        /\ UNCHANGED <<open, queue, broken, ended, gone>>
     \/ Goto(t, "listen", "idle") /\ Destroy(t) /\ UNCHANGED head
  /\ UNCHANGED <<mtx, so, pending>>

-----------------------------------------------------------------------------
(* Where ps4KernelSocketAccept returns to: the caller, or the end of       *)
(* AcceptThenDestroy.                                                      *)
AcceptReturn(t, from) ==
  /\ Goto(t, from, IF head[t] = t THEN "destroy" ELSE IF so'[t] = NULL THEN "idle" ELSE "have")
  /\ head' = [head EXCEPT ![t] = IF @ = t THEN @ ELSE NULL]

AcceptLookUp(t) ==
  /\ UNCHANGED so
  /\ \/ Goto(t, "look_up", "lock") /\ UNCHANGED head
     \/ AcceptReturn(t, "look_up")
  /\ UNCHANGED <<open, listening, queue, broken, ended, mtx, pending, gone>>

AcceptLock(t) ==
  /\ mtx = NULL /\ mtx' = t
  /\ Goto(t, "lock", "test") \/ Goto(t, "waking", "test")
  /\ UNCHANGED <<open, listening, queue, broken, ended, head, so, pending, gone>>

\* Mutant: the thread goes to sleep without looking into the queue.
AcceptWaitBlind(t) ==
  /\ Goto(t, "test", "asleep") /\ mtx' = NULL
  /\ UNCHANGED <<open, listening, queue, broken, ended, head, so, pending, gone>>

(* Nothing to take and no error: give up on a server that has ended, else  *)
(* sleep, which releases the mutex.                                        *)
AcceptWait(t) ==
  /\ pc[t] = "test" /\ queue[head[t]] = <<>> /\ head[t] \notin broken \cup nbio
  /\ mtx' = NULL /\ UNCHANGED so
  /\ \/ head[t] \in ended /\ AcceptReturn(t, "test")
     \/ head[t] \notin ended /\ Goto(t, "test", "asleep") /\ UNCHANGED head
  /\ UNCHANGED <<open, listening, queue, broken, ended, pending, gone>>

(* A server that does not block is left at once, whatever its error.       *)
AcceptWouldBlock(t) ==
  /\ pc[t] = "test" /\ queue[head[t]] = <<>> /\ head[t] \in nbio
  /\ mtx' = NULL /\ UNCHANGED so /\ AcceptReturn(t, "test")
  /\ UNCHANGED <<open, listening, queue, broken, ended, pending, gone>>

(* A signal ends the sleep; msleep takes the mutex again and the error     *)
(* path releases it.                                                       *)
AcceptInterrupted(t) ==
  /\ mtx = NULL /\ UNCHANGED so /\ AcceptReturn(t, "asleep")
  /\ UNCHANGED <<open, listening, queue, broken, ended, mtx, pending, gone>>

\* Mutant: the connection stays in the queue.
AcceptTakeLeaves(t) ==
  /\ pc[t] = "test" /\ queue[head[t]] # <<>> /\ Goto(t, "test", "soaccept")
  /\ so' = [so EXCEPT ![t] = Head(queue[head[t]])] /\ mtx' = NULL
  /\ UNCHANGED <<open, listening, queue, broken, ended, head, pending, gone>>

AcceptTake(t) ==
  /\ pc[t] = "test" /\ queue[head[t]] # <<>> /\ Goto(t, "test", "soaccept")
  /\ so' = [so EXCEPT ![t] = Head(queue[head[t]])]
  /\ queue' = [queue EXCEPT ![head[t]] = Tail(@)] /\ mtx' = NULL
  /\ UNCHANGED <<open, listening, broken, ended, head, pending, gone>>

(* The loop also ends on so_error; then TAILQ_FIRST is NULL, and used.     *)
AcceptNothing(t) ==
  /\ pc[t] = "test" /\ queue[head[t]] = <<>> /\ head[t] \in broken \ nbio /\ Goto(t, "test", "fault")
  /\ UNCHANGED <<open, listening, queue, broken, ended, mtx, head, so, pending, gone>>

(* soaccept, and the lookup of M_SONAME to free the address.  If one of    *)
(* them fails the call does, and its caller, who goes by the result, does  *)
(* not use the connection, whether or not *client was set.                 *)
AcceptFinish(t) ==
  /\ \/ UNCHANGED <<so, gone>>
     \/ so' = [so EXCEPT ![t] = NULL] /\ gone' = gone \cup {so[t]}
  /\ AcceptReturn(t, "soaccept")
  /\ UNCHANGED <<open, listening, queue, broken, ended, mtx, pending>>

ServerDestroy(t) ==
  /\ Destroy(t) /\ Goto(t, "destroy", IF so[t] = NULL THEN "idle" ELSE "have")
  /\ head' = [head EXCEPT ![t] = NULL]
  /\ UNCHANGED <<mtx, so, pending>>

(* A client accepts on the shared server, or on one of its own.            *)
BeginAccept(t) ==
  /\ Goto(t, "idle", "look_up") /\ head' = [head EXCEPT ![t] = Shared]
  /\ UNCHANGED <<open, listening, queue, broken, ended, mtx, so, pending, gone>>

BeginServer(t) ==
  /\ Goto(t, "idle", "create")
  /\ UNCHANGED <<open, listening, queue, broken, ended, mtx, head, so, pending, gone>>

(* ps4KernelSocketClose on the connection.                                 *)
CloseConnection(t) ==
  /\ so' = [so EXCEPT ![t] = NULL] /\ gone' = gone \cup {so[t]}
  /\ UNCHANGED <<open, listening, queue, broken, ended, mtx, head, pending>>

Accept(t) ==
  \/ AcceptLookUp(t) \/ AcceptLock(t) \/ AcceptWait(t) \/ AcceptWouldBlock(t)
  \/ AcceptInterrupted(t) \/ AcceptTake(t) \/ AcceptNothing(t) \/ AcceptFinish(t)

Server(t) == ServerCreate(t) \/ ServerBind(t) \/ ServerListen(t) \/ ServerDestroy(t)

Network == \E h \in Servers : Break(h) \/ End(h) \/ \E c \in Connections : Arrive(h, c)

SocketInit ==
  /\ open = {Shared} /\ listening = {Shared} /\ broken = {} /\ ended = {}
  /\ nbio \in SUBSET {Shared}
  /\ queue = [h \in Servers |-> <<>>] /\ mtx = NULL
  /\ pc = [t \in Threads |-> "idle"] /\ head = [t \in Threads |-> NULL]
  /\ so = [t \in Threads |-> NULL] /\ pending = Connections /\ gone = {}
=============================================================================
