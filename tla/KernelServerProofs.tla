------------------------- MODULE KernelServerProofs -------------------------
(***************************************************************************)
(* Proofs about the kernel's sockets for any number of threads and         *)
(* connections, whatever peers send, whichever calls fail: accept_mtx is   *)
(* released, servers are destroyed, connections are neither lost nor       *)
(* accepted twice, sleepers are woken, lines are exact and stay inside     *)
(* their buffers.                                                          *)
(***************************************************************************)
EXTENDS KernelServer, TLAPS

Labels ==
  {"idle", "create", "bind", "listen", "look_up", "lock", "waking", "test", "asleep",
   "soaccept", "destroy", "have", "receive", "line", "fault"}

Typed == pc \in [Threads -> Labels] /\ DOMAIN head = Threads

(* Where a thread's own server exists, it is being made, or the call       *)
(* accepts on it and will destroy it.                                      *)
OwnServer ==
  \A t \in Threads :
    t \in open =>
      \/ pc[t] \in {"bind", "listen"}
      \/ /\ head[t] = t
         /\ pc[t] \in {"look_up", "lock", "waking", "test", "asleep", "soaccept", "destroy", "fault"}

AcceptInv == Typed /\ AcceptMutexReleased /\ OwnServer

ReceiveInv ==
  /\ pc \in [Threads -> Labels]
  /\ size \in [Threads -> Nat] /\ offset \in [Threads -> Nat] /\ buffers \in [Threads -> Nat]
  /\ \A t \in Threads : pc[t] \in {"receive", "line"} => offset[t] <= size[t] /\ size[t] > 0
  /\ BuffersFreed

(* Where the connections are: in a queue, without repetition, or with one  *)
(* thread.                                                                 *)
Elements(q) == {q[i] : i \in DOMAIN q}
Repeats(q) == \E i, j \in DOMAIN q : i # j /\ q[i] = q[j]

EmptyPcs ==
  {"idle", "create", "bind", "listen", "look_up", "lock", "waking", "test", "asleep"}
FullPcs == {"soaccept", "have", "receive", "line"}
QueuePcs == {"look_up", "lock", "waking", "test", "asleep", "soaccept"}

SocketTyped ==
  /\ pc \in [Threads -> Labels]
  /\ queue \in [Servers -> Seq(Connections)]
  /\ head \in [Threads -> Servers \cup {NULL}] /\ so \in [Threads -> Connections \cup {NULL}]
  /\ pending \subseteq Connections /\ gone \subseteq Connections
  /\ \A t \in Threads :
       /\ pc[t] \in EmptyPcs => so[t] = NULL
       /\ pc[t] \in FullPcs => so[t] # NULL
       /\ pc[t] \in QueuePcs => head[t] \in Servers

PlaceInv ==
  /\ \A c \in pending : c \notin gone
  /\ \A h \in Servers : ~Repeats(queue[h])
  /\ \A h \in Servers : \A c \in Elements(queue[h]) :
       /\ c \notin pending /\ c \notin gone
       /\ \A g \in Servers : c \in Elements(queue[g]) => g = h
       /\ \A t \in Threads : so[t] # c
  /\ \A t \in Threads :
       so[t] # NULL =>
         so[t] \notin pending /\ so[t] \notin gone /\ \A u \in Threads : so[u] = so[t] => u = t
  /\ \A c \in Connections :
       \/ c \in pending \/ c \in gone
       \/ \E t \in Threads : so[t] = c
       \/ \E h \in Servers : c \in Elements(queue[h])

(* n bytes d of a line are stored when q of the bytes s are to come; a     *)
(* whole line.  Once the peer has closed, no newline comes any more.       *)
Partly(d, n, q, s) ==
  /\ Len(d) = n
  /\ q # <<>> =>
       /\ Len(s) = n + Len(q)
       /\ \A i \in 1..n : d[i] = s[i] /\ d[i] # Newline
       /\ \A i \in 1..Len(q) : q[i] = s[n + i]

Whole(d, n, s) ==
  /\ d = Append(SubSeq(s, 1, n + 1), Zero)
  /\ \A i \in 1..(n + 1) : d[i] = Newline <=> i = n + 1

ThreadLine(t) ==
  /\ pc[t] = "receive" => Partly(data[t], offset[t], stream[so[t]], sent[so[t]])
  /\ pc[t] = "line" => Whole(data[t], offset[t], sent[so[t]])

(* Nothing has been read from a connection that no thread reads from.      *)
Untouched(c) ==
  \/ stream[c] = sent[c]
  \/ \E t \in Threads : so[t] = c /\ pc[t] \in {"receive", "line", "fault"}

LineInv ==
  /\ sent \in [Connections -> Seq(Bytes)] /\ stream \in [Connections -> Seq(Bytes)]
  /\ offset \in [Threads -> Nat] /\ data \in [Threads -> Seq(Bytes)]
  /\ \A t \in Threads : ThreadLine(t)
  /\ \A c \in Connections \ gone : Untouched(c)

-----------------------------------------------------------------------------
(* What the kernel does on its own wakes sleepers of a server and nothing  *)
(* else.                                                                   *)
LEMMA NetworkStep ==
  ASSUME Network
  PROVE  /\ UNCHANGED <<mtx, head, open>>
         /\ \/ UNCHANGED pc
            \/ \E woken \in SUBSET Threads :
                 (\A t \in woken : pc[t] = "asleep") /\ Wake(woken)
<1>1. ASSUME NEW h \in Servers, Break(h) \/ End(h)
      PROVE  UNCHANGED <<mtx, head, open>> /\ Wake(Sleepers(h))
  BY <1>1 DEF Break, End
<1>2. ASSUME NEW h \in Servers, NEW c \in Connections, Arrive(h, c)
      PROVE  /\ UNCHANGED <<mtx, head, open>>
             /\ UNCHANGED pc \/ \E t \in Sleepers(h) : Wake({t})
  BY Zenon, <1>2 DEF Arrive
<1>3. \A h : \A t \in Sleepers(h) : t \in Threads /\ pc[t] = "asleep"
  BY DEF Sleepers
<1>4. \A h : Sleepers(h) \in SUBSET Threads
  BY <1>3
<1>5. QED
  <2>1. CASE \E h \in Servers : Break(h) \/ End(h)
    BY <2>1, <1>1, <1>3, <1>4
  <2>2. CASE \E h \in Servers : \E c \in Connections : Arrive(h, c)
    <3>1. PICK h \in Servers, c \in Connections : Arrive(h, c)
      BY <2>2
    <3>2. CASE UNCHANGED pc
      BY <3>1, <1>2, <3>2
    <3>3. ASSUME NEW t \in Sleepers(h), Wake({t})
          PROVE  \E woken \in SUBSET Threads :
                   (\A u \in woken : pc[u] = "asleep") /\ Wake(woken)
      <4>1. {t} \in SUBSET Threads /\ \A u \in {t} : pc[u] = "asleep"
        BY <1>3
      <4>2. QED
        BY <4>1, <3>3
    <3>4. QED
      BY Zenon, <3>1, <1>2, <3>2, <3>3
  <2>3. QED
    BY <2>1, <2>2 DEF Network

(* Every step keeps accept_mtx with the thread that looks at the queue,    *)
(* and servers with the calls that made them.                              *)
LEMMA AcceptStep ==
  ASSUME AcceptInv, [Next]_vars
  PROVE  AcceptInv'
<1> USE SharedAssumption
    DEF AcceptInv, Typed, Labels, AcceptMutexReleased, OwnServer, Goto, Servers
<1>1. CASE UNCHANGED vars
  BY <1>1 DEF vars, socketVars
<1>2. CASE Network
  <2>1. CASE UNCHANGED pc
    BY <1>2, <2>1, NetworkStep
  <2>2. ASSUME NEW woken \in SUBSET Threads, \A t \in woken : pc[t] = "asleep", Wake(woken)
        PROVE  AcceptInv'
    BY <1>2, <2>2, NetworkStep DEF Wake
  <2>3. QED
    BY <1>2, <2>1, <2>2, NetworkStep
<1>3. ASSUME NEW t \in Threads, Step(t) \/ Begin(t), ~Stopped
      PROVE  AcceptInv'
  <2>0. \A u \in Threads : pc[u] # "fault"
    BY <1>3 DEF Stopped
  <2>1. CASE AcceptLookUp(t)
    BY <2>0, <2>1 DEF AcceptLookUp, AcceptReturn
  <2>2. CASE AcceptLock(t)
    BY <2>0, <2>2 DEF AcceptLock
  <2>3. CASE AcceptWait(t)
    BY <2>0, <2>3 DEF AcceptWait, AcceptReturn
  <2>4. CASE AcceptWouldBlock(t)
    BY <2>0, <2>4 DEF AcceptWouldBlock, AcceptReturn
  <2>5. CASE AcceptInterrupted(t)
    BY <2>0, <2>5 DEF AcceptInterrupted, AcceptReturn
  <2>6. CASE AcceptTake(t)
    BY <2>0, <2>6 DEF AcceptTake
  <2>7. CASE AcceptNothing(t)
    BY <2>0, <2>7 DEF AcceptNothing
  <2>8. CASE AcceptFinish(t)
    BY <2>0, <2>8 DEF AcceptFinish, AcceptReturn
  <2>9. CASE ServerCreate(t)
    BY <2>0, <2>9 DEF ServerCreate
  <2>10. CASE ServerBind(t)
    BY <2>0, <2>10 DEF ServerBind, Destroy
  <2>11. CASE ServerListen(t)
    BY <2>0, <2>11 DEF ServerListen, Destroy
  <2>12. CASE ServerDestroy(t)
    BY <2>0, <2>12 DEF ServerDestroy, Destroy
  <2>13. CASE BeginAccept(t)
    BY <2>0, <2>13 DEF BeginAccept
  <2>14. CASE BeginServer(t)
    BY <2>0, <2>14 DEF BeginServer
  <2>15. CASE ReceiveBegin(t)
    BY <2>0, <2>15 DEF ReceiveBegin
  <2>16. CASE ReceiveByte(t)
    BY <2>0, <2>16 DEF ReceiveByte, Stored
  <2>17. CASE ReceiveEnd(t)
    BY <2>0, <2>17 DEF ReceiveEnd, Stored
  <2>18. CASE ReceiveFail(t)
    BY <2>0, <2>18 DEF ReceiveFail
  <2>19. CASE ScanDone(t)
    BY <2>0, <2>19 DEF ScanDone, CloseConnection
  <2>20. QED
    BY Zenon, <1>3, <2>1, <2>2, <2>3, <2>4, <2>5, <2>6, <2>7, <2>8, <2>9, 
       <2>10, <2>11, <2>12, <2>13, <2>14, <2>15, <2>16, <2>17, <2>18, <2>19
       DEF Step, Begin, Accept, Server, Receive
<1>4. QED
  BY <1>1, <1>2, <1>3 DEF Next

(* Steps of ps4KernelSocketAccept and of the servers neither begin nor end *)
(* the reading of a line.                                                  *)
LEMMA SocketStep ==
  ASSUME NEW t \in Threads, pc \in [Threads -> Labels],
         Accept(t) \/ Server(t) \/ BeginAccept(t) \/ BeginServer(t)
  PROVE  /\ pc[t] \notin {"receive", "line"}
         /\ \E l \in Labels \ {"receive", "line"} : pc' = [pc EXCEPT ![t] = l]
<1> USE DEF Labels, Goto
<1>1. CASE AcceptLookUp(t)
  BY <1>1 DEF AcceptLookUp, AcceptReturn
<1>2. CASE AcceptLock(t)
  BY <1>2 DEF AcceptLock
<1>3. CASE AcceptWait(t)
  BY <1>3 DEF AcceptWait, AcceptReturn
<1>4. CASE AcceptWouldBlock(t)
  BY Zenon, <1>4 DEF AcceptWouldBlock, AcceptReturn
<1>5. CASE AcceptInterrupted(t)
  BY Zenon, <1>5 DEF AcceptInterrupted, AcceptReturn
<1>6. CASE AcceptTake(t)
  BY Zenon, <1>6 DEF AcceptTake
<1>7. CASE AcceptNothing(t)
  BY Zenon, <1>7 DEF AcceptNothing
<1>8. CASE AcceptFinish(t)
  BY Zenon, <1>8 DEF AcceptFinish, AcceptReturn
<1>9. CASE ServerCreate(t)
  BY <1>9 DEF ServerCreate
<1>10. CASE ServerBind(t)
  BY <1>10 DEF ServerBind
<1>11. CASE ServerListen(t)
  BY <1>11 DEF ServerListen
<1>12. CASE ServerDestroy(t)
  BY Zenon, <1>12 DEF ServerDestroy
<1>13. CASE BeginAccept(t)
  BY Zenon, <1>13 DEF BeginAccept
<1>14. CASE BeginServer(t)
  BY Zenon, <1>14 DEF BeginServer
<1>15. QED
  BY <1>1, <1>2, <1>3, <1>4, <1>5, <1>6, <1>7, <1>8, <1>9, <1>10, <1>11, <1>12, <1>13, <1>14
     DEF Accept, Server

(* Every step keeps lines inside their buffers and buffers with their      *)
(* calls.                                                                  *)
LEMMA ReceiveStep ==
  ASSUME ReceiveInv, [Next]_vars
  PROVE  ReceiveInv'
<1> USE DEF ReceiveInv, BuffersFreed
<1>1. CASE UNCHANGED vars
  BY <1>1 DEF vars, socketVars, lineVars
<1>2. CASE Network /\ UNCHANGED lineVars
  <2>1. CASE UNCHANGED pc
    BY <1>2, <2>1 DEF lineVars
  <2>2. ASSUME NEW woken \in SUBSET Threads, \A t \in woken : pc[t] = "asleep", Wake(woken)
        PROVE  ReceiveInv'
    BY <1>2, <2>2 DEF Wake, lineVars, Labels
  <2>3. QED
    BY <1>2, <2>1, <2>2, NetworkStep
<1>3. ASSUME NEW t \in Threads, ~Stopped,
             Accept(t) \/ Server(t) \/ BeginAccept(t) \/ BeginServer(t), UNCHANGED lineVars
      PROVE  ReceiveInv'
  <2>1. pc[t] \notin {"receive", "line", "fault"}
    BY <1>3, SocketStep DEF Stopped
  <2>2. PICK l \in Labels \ {"receive", "line"} : pc' = [pc EXCEPT ![t] = l]
    BY <1>3, SocketStep
  <2>3. QED
    BY <1>3, <2>1, <2>2 DEF lineVars, Labels
<1>4. ASSUME NEW t \in Threads, Receive(t)
      PROVE  ReceiveInv'
  <2>1. CASE ReceiveBegin(t)
    <3>1. PICK sizeMax \in SizeMaxes : size' = [size EXCEPT ![t] = Limited(sizeMax)]
      BY Zenon, <2>1 DEF ReceiveBegin
    <3>2. Limited(sizeMax) \in Nat /\ Limited(sizeMax) > 0
      BY SizeAssumption DEF Limited
    <3>3. QED
      BY <2>1, <3>1, <3>2 DEF ReceiveBegin, Goto, Labels
  <2>2. ASSUME NEW b, Stored(t, b)
        PROVE  ReceiveInv'
    <3>1. pc[t] = "receive" /\ UNCHANGED buffers
      BY <2>2 DEF Stored, Goto
    <3>2. CASE pc' = [pc EXCEPT ![t] = "line"] /\ UNCHANGED <<size, offset>>
      BY <3>1, <3>2 DEF Labels
    <3>3. CASE pc' = [pc EXCEPT ![t] = "receive"] /\ Advance(t)
      BY <3>1, <3>3 DEF Labels, Advance
    <3>4. QED
      BY Zenon, <2>2, <3>2, <3>3 DEF Stored, Goto
  <2>3. CASE ReceiveFail(t)
    BY <2>3 DEF ReceiveFail, Goto, Labels, lineVars
  <2>4. CASE ScanDone(t)
    BY <2>4 DEF ScanDone, Goto, Labels
  <2>5. QED
    BY <1>4, <2>1, <2>2, <2>3, <2>4 DEF Receive, ReceiveByte, ReceiveEnd
<1>5. QED
  BY <1>1, <1>2, <1>3, <1>4 DEF Next, Step, Begin

-----------------------------------------------------------------------------
(* What is in a queue when a connection is added, or the first is taken.   *)
LEMMA AppendElements ==
  ASSUME NEW S, NEW q \in Seq(S), NEW c \in S
  PROVE  /\ Append(q, c) \in Seq(S) /\ Elements(Append(q, c)) = Elements(q) \cup {c}
         /\ ~Repeats(q) /\ c \notin Elements(q) => ~Repeats(Append(q, c))
<1> DEFINE n == Len(q)
           p == Append(q, c)
<1>1. /\ n \in Nat /\ DOMAIN q = 1..n /\ p \in Seq(S) /\ DOMAIN p = 1..(n + 1)
      /\ p[n + 1] = c /\ \A i \in 1..n : p[i] = q[i]
  OBVIOUS
<1> HIDE DEF n, p
<1>2. Elements(p) = Elements(q) \cup {c}
  BY <1>1 DEF Elements
<1>3. ~Repeats(q) /\ c \notin Elements(q) => ~Repeats(p)
  BY <1>1 DEF Elements, Repeats
<1>4. QED
  BY <1>1, <1>2, <1>3 DEF p

LEMMA TailElements ==
  ASSUME NEW S, NEW q \in Seq(S), q # <<>>
  PROVE  /\ Tail(q) \in Seq(S) /\ Head(q) \in S
         /\ Elements(q) = Elements(Tail(q)) \cup {Head(q)}
         /\ ~Repeats(q) => ~Repeats(Tail(q)) /\ Head(q) \notin Elements(Tail(q))
<1> DEFINE n == Len(q)
           p == Tail(q)
<1>1. /\ n \in Nat /\ n > 0 /\ DOMAIN q = 1..n /\ p \in Seq(S) /\ DOMAIN p = 1..(n - 1)
      /\ Head(q) = q[1] /\ q[1] \in S /\ \A i \in 1..(n - 1) : p[i] = q[i + 1]
  OBVIOUS
<1> HIDE DEF n, p
<1>2. \A i \in 1..n : i = 1 \/ (i - 1 \in 1..(n - 1) /\ q[i] = p[i - 1])
  BY <1>1
<1>3. /\ 1 \in 1..n /\ \A i \in 1..(n - 1) : i + 1 \in 1..n /\ i + 1 # 1
      /\ \A i, j \in 1..(n - 1) : i # j => i + 1 # j + 1
  BY <1>1
<1>4. Elements(q) = Elements(p) \cup {Head(q)}
  <2>1. ASSUME NEW x \in Elements(q)
        PROVE  x \in Elements(p) \cup {Head(q)}
    <3>1. PICK i \in 1..n : x = q[i]
      BY <1>1, Zenon DEF Elements
    <3>2. CASE i = 1
      BY <1>1, <3>1, <3>2
    <3>3. CASE i - 1 \in 1..(n - 1) /\ q[i] = p[i - 1]
      BY <1>1, <3>1, <3>3, Zenon DEF Elements
    <3>4. QED
      BY <1>2, <3>2, <3>3
  <2>2. ASSUME NEW x \in Elements(p) \cup {Head(q)}
        PROVE  x \in Elements(q)
    <3>1. CASE x = Head(q)
      BY Zenon, <1>1, <1>3, <3>1 DEF Elements
    <3>2. CASE x \in Elements(p)
      <4>1. PICK i \in 1..(n - 1) : x = p[i]
        BY <1>1, <3>2, Zenon DEF Elements
      <4>2. i + 1 \in 1..n /\ x = q[i + 1]
        BY <1>1, <1>3, <4>1, Zenon
      <4> QED
        BY <1>1, <4>2, Zenon DEF Elements
    <3> QED
      BY <3>1, <3>2, Zenon
  <2>3. QED
    BY <2>1, <2>2
<1>5. ASSUME NEW i \in 1..(n - 1), NEW j \in 1..(n - 1), i # j, p[i] = p[j]
      PROVE  Repeats(q)
  <2>1. i + 1 \in 1..n /\ j + 1 \in 1..n /\ i + 1 # j + 1 /\ q[i + 1] = q[j + 1]
    BY <1>1, <1>3, <1>5
  <2>2. QED
    BY <1>1, <2>1, Zenon DEF Repeats
<1>6. ASSUME NEW i \in 1..(n - 1), p[i] = Head(q)
      PROVE  Repeats(q)
  <2>1. i + 1 \in 1..n /\ i + 1 # 1 /\ q[i + 1] = q[1]
    BY <1>1, <1>3, <1>6
  <2>2. QED
    BY <1>1, <1>3, <2>1, Zenon DEF Repeats
<1>7. QED
  <2>1. Repeats(p) \/ Head(q) \in Elements(p) => Repeats(q)
    BY <1>1, <1>5, <1>6, Zenon DEF Repeats, Elements
  <2>2. QED
    BY <1>1, <1>4, <2>1, Zenon DEF p

LEMMA NoElements == ~Repeats(<<>>) /\ Elements(<<>>) = {}
  BY DEF Repeats, Elements

(* The four ways in which connections change their place.                  *)
Arrival(h, c) ==
  /\ c \in pending /\ pending' = pending \ {c}
  /\ queue' = [queue EXCEPT ![h] = Append(@, c)] /\ UNCHANGED <<so, gone>>
Taking(t, h) ==
  /\ queue[h] # <<>> /\ so[t] = NULL /\ so' = [so EXCEPT ![t] = Head(queue[h])]
  /\ queue' = [queue EXCEPT ![h] = Tail(@)] /\ UNCHANGED <<pending, gone>>
Dropping(h) ==
  /\ queue' = [queue EXCEPT ![h] = <<>>] /\ gone' = gone \cup Elements(queue[h])
  /\ UNCHANGED <<so, pending>>
Closing(t) ==
  /\ so[t] # NULL /\ so' = [so EXCEPT ![t] = NULL] /\ gone' = gone \cup {so[t]}
  /\ UNCHANGED <<queue, pending>>

Moves ==
  \/ UNCHANGED <<queue, so, pending, gone>>
  \/ \E h \in Servers, c \in Connections : Arrival(h, c)
  \/ \E t \in Threads, h \in Servers : Taking(t, h)
  \/ \E h \in Servers : Dropping(h)
  \/ \E t \in Threads : Closing(t)

(* Every step moves connections in one of these ways.                      *)
LEMMA NextMoves ==
  ASSUME SocketTyped, [Next]_vars
  PROVE  Moves
<1> USE DEF Moves, Servers
<1>1. CASE UNCHANGED vars
  BY <1>1, Zenon DEF vars, socketVars
<1>2. CASE Network
  BY <1>2, Zenon DEF Network, Break, End, Arrive, Arrival
<1>3. ASSUME NEW t \in Threads, Step(t) \/ Begin(t)
      PROVE  Moves
  <2>1. ASSUME Destroy(t), UNCHANGED <<so, pending>>
        PROVE  Moves
    BY <2>1, Zenon DEF Destroy, Dropping, Elements
  <2>2. CASE AcceptTake(t)
    <3>1. /\ pc[t] \in EmptyPcs /\ pc[t] \in QueuePcs
      BY <2>2 DEF AcceptTake, EmptyPcs, QueuePcs
    <3>2. head[t] \in Servers /\ so[t] = NULL
      BY <3>1, Zenon DEF SocketTyped
    <3>3. Taking(t, head[t])
      BY <2>2, <3>2, Zenon DEF AcceptTake, Taking
    <3>4. QED
      BY <3>2, <3>3, Zenon
  <2>3. CASE AcceptFinish(t) \/ ScanDone(t)
    <3>1. pc[t] \in FullPcs
      BY <2>3 DEF AcceptFinish, ScanDone, AcceptReturn, Goto, FullPcs
    <3>2. so[t] # NULL
      BY <3>1, Zenon DEF SocketTyped
    <3>3. QED
      BY <2>3, <3>2, Zenon DEF AcceptFinish, ScanDone, CloseConnection, Closing
  <2>4. CASE ServerBind(t) \/ ServerListen(t) \/ ServerDestroy(t)
    BY <2>4, <2>1, Zenon DEF ServerBind, ServerListen, ServerDestroy
  <2>5. CASE \/ AcceptLookUp(t) \/ AcceptLock(t) \/ AcceptWait(t) \/ AcceptWouldBlock(t)
             \/ AcceptInterrupted(t) \/ AcceptNothing(t) \/ ServerCreate(t)
             \/ BeginAccept(t) \/ BeginServer(t)
    BY <2>5, Zenon DEF AcceptLookUp, AcceptLock, AcceptWait, AcceptWouldBlock, AcceptInterrupted,
       AcceptNothing, ServerCreate, BeginAccept, BeginServer
  <2>6. CASE ReceiveBegin(t) \/ ReceiveByte(t) \/ ReceiveEnd(t) \/ ReceiveFail(t)
    BY <2>6, Zenon DEF ReceiveBegin, ReceiveByte, ReceiveEnd, ReceiveFail, Stored
  <2>7. QED
    BY <1>3, <2>2, <2>3, <2>4, <2>5, <2>6, Zenon DEF Step, Begin, Accept, Server, Receive
<1>4. QED
  BY <1>1, <1>2, <1>3, Zenon DEF Next

(* Connections that move stay in one place.                                *)
LEMMA PlaceStep ==
  ASSUME SocketTyped, PlaceInv, Moves
  PROVE  PlaceInv'
<1>0. /\ queue \in [Servers -> Seq(Connections)] /\ so \in [Threads -> Connections \cup {NULL}]
      /\ pending \subseteq Connections /\ gone \subseteq Connections
  BY Zenon DEF SocketTyped
<1>n. NULL \notin Connections
  BY SharedAssumption, Zenon
<1>1. CASE UNCHANGED <<queue, so, pending, gone>>
  BY <1>1, Zenon DEF PlaceInv
<1>2. ASSUME NEW h \in Servers, NEW c \in Connections, Arrival(h, c)
      PROVE  PlaceInv'
  <2>1. queue'[h] = Append(queue[h], c) /\ \A g \in Servers : g # h => queue'[g] = queue[g]
    BY <1>0, <1>2 DEF Arrival
  <2>2. /\ c \in pending /\ so' = so /\ gone' = gone
        /\ \A d : d \in pending' <=> d \in pending /\ d # c
    BY <1>2, Zenon DEF Arrival
  <2>3. \A g \in Servers : c \notin Elements(queue[g])
    BY <2>2, Zenon DEF PlaceInv
  <2>4. /\ ~Repeats(queue'[h])
        /\ \A d : d \in Elements(queue'[h]) <=> d \in Elements(queue[h]) \/ d = c
    BY <1>0, <2>1, <2>3, AppendElements DEF PlaceInv
  <2>5. \A g \in Servers : \A d :
          d \in Elements(queue'[g]) <=> d \in Elements(queue[g]) \/ (d = c /\ g = h)
    BY <2>1, <2>4, Zenon
  <2>6. ASSUME NEW t \in Threads, so[t] = c PROVE FALSE
    <3>1. so[t] # NULL => so[t] \notin pending
      BY Zenon DEF PlaceInv
    <3> QED
      BY <1>n, <2>2, <2>6, <3>1, Zenon
  <2>7. \A g \in Servers : ~Repeats(queue'[g])
    BY <2>1, <2>4, Zenon DEF PlaceInv
  <2>8. QED
    BY <2>2, <2>3, <2>5, <2>6, <2>7 DEF PlaceInv
<1>3. ASSUME NEW t \in Threads, NEW h \in Servers, Taking(t, h)
      PROVE  PlaceInv'
  <2> DEFINE c == Head(queue[h])
  <2>1. queue'[h] = Tail(queue[h]) /\ \A g \in Servers : g # h => queue'[g] = queue[g]
    BY <1>0, <1>3 DEF Taking
  <2>2. /\ so[t] = NULL /\ so'[t] = c /\ \A u \in Threads : u # t => so'[u] = so[u]
        /\ pending' = pending /\ gone' = gone
    BY <1>0, <1>3 DEF Taking
  <2>3. /\ c \in Connections /\ ~Repeats(queue'[h]) /\ c \notin Elements(queue'[h])
        /\ \A d : d \in Elements(queue[h]) <=> d \in Elements(queue'[h]) \/ d = c
    BY <1>0, <1>3, <2>1, TailElements DEF PlaceInv, Taking
  <2> HIDE DEF c
  <2>4. c \in Elements(queue[h]) /\ c # NULL /\ \A u \in Threads : so[u] # c
    BY <1>n, <2>3, Zenon DEF PlaceInv
  <2>5. \A g \in Servers : \A d :
          d \in Elements(queue'[g]) <=> d \in Elements(queue[g]) /\ d # c
    BY <2>1, <2>3, <2>4, Zenon DEF PlaceInv
  <2>6. \A g \in Servers : ~Repeats(queue'[g])
    BY <2>1, <2>3, Zenon DEF PlaceInv
  <2>7. \A u, v \in Threads : so'[u] # NULL /\ so'[v] = so'[u] => v = u
    BY <2>2, <2>4 DEF PlaceInv
  <2>8. \A u \in Threads : so'[u] # NULL => so'[u] \notin pending' /\ so'[u] \notin gone'
    BY <2>2, <2>4, Zenon DEF PlaceInv
  <2>9. ASSUME NEW d \in Connections
        PROVE  \/ d \in pending' \/ d \in gone'
               \/ \E u \in Threads : so'[u] = d
               \/ \E g \in Servers : d \in Elements(queue'[g])
    BY <1>n, <2>2, <2>5 DEF PlaceInv
  <2>10. QED
    BY <2>2, <2>4, <2>5, <2>6, <2>7, <2>8, <2>9 DEF PlaceInv
<1>4. ASSUME NEW h \in Servers, Dropping(h)
      PROVE  PlaceInv'
  <2>1. /\ queue'[h] = <<>> /\ \A g \in Servers : g # h => queue'[g] = queue[g]
        /\ gone' = gone \cup Elements(queue[h]) /\ so' = so /\ pending' = pending
    BY <1>0, <1>4, Zenon DEF Dropping
  <2>2. \A g \in Servers :
          ~Repeats(queue'[g]) /\ \A d : d \in Elements(queue'[g]) <=> d \in Elements(queue[g]) /\ g # h
    BY <2>1, NoElements, Zenon DEF PlaceInv
  <2>3. QED
    BY SMTT(40), <2>1, <2>2 DEF PlaceInv
<1>5. ASSUME NEW t \in Threads, Closing(t)
      PROVE  PlaceInv'
  <2>1. /\ queue' = queue /\ so[t] # NULL /\ so'[t] = NULL
        /\ \A u \in Threads : u # t => so'[u] = so[u]
        /\ gone' = gone \cup {so[t]} /\ pending' = pending
    BY <1>0, <1>5 DEF Closing
  <2>2. \A g \in Servers : NULL \notin Elements(queue[g]) /\ so[t] \notin Elements(queue[g])
    BY <1>0, <1>n DEF Elements, PlaceInv
  <2>3. QED
    BY <1>n, <2>1, <2>2 DEF PlaceInv
<1>6. QED
  BY <1>1, <1>2, <1>3, <1>4, <1>5, Zenon DEF Moves

(* What a thread has and accepts on agrees with where it is.               *)
ThreadTyped(t) ==
  /\ pc[t] \in Labels /\ head[t] \in Servers \cup {NULL}
  /\ pc[t] \in EmptyPcs => so[t] = NULL
  /\ pc[t] \in FullPcs => so[t] # NULL
  /\ pc[t] \in QueuePcs => head[t] \in Servers

OnlyThread(t) ==
  /\ pc' \in [Threads -> Labels] /\ head' \in [Threads -> Servers \cup {NULL}]
  /\ \A u \in Threads \ {t} : pc'[u] = pc[u] /\ head'[u] = head[u] /\ so'[u] = so[u]

(* A step of a thread concerns that thread only.                           *)
LEMMA ThreadStep ==
  ASSUME SocketTyped, NEW t \in Threads, Step(t) \/ Begin(t)
  PROVE  OnlyThread(t) /\ ThreadTyped(t)'
<1>0. /\ pc \in [Threads -> Labels] /\ head \in [Threads -> Servers \cup {NULL}]
      /\ DOMAIN so = Threads /\ ThreadTyped(t)
      /\ so[t] \in Connections \cup {NULL} /\ queue \in [Servers -> Seq(Connections)]
  BY Zenon DEF SocketTyped, ThreadTyped
<1>n. NULL \notin Connections
  BY SharedAssumption, Zenon
<1> USE DEF ThreadTyped, OnlyThread, Labels, EmptyPcs, FullPcs, QueuePcs, Goto, Servers
<1>1. CASE AcceptLookUp(t)
  BY Zenon, <1>0, <1>1 DEF AcceptLookUp, AcceptReturn
<1>2. CASE AcceptLock(t)
  BY <1>0, <1>2 DEF AcceptLock
<1>3. CASE AcceptWait(t)
  BY Zenon, <1>0, <1>3 DEF AcceptWait, AcceptReturn
<1>4. CASE AcceptWouldBlock(t)
  BY <1>0, <1>4 DEF AcceptWouldBlock, AcceptReturn
<1>5. CASE AcceptInterrupted(t)
  BY <1>0, <1>5 DEF AcceptInterrupted, AcceptReturn
<1>6. CASE AcceptTake(t)
  <2>1. pc[t] = "test" /\ head[t] \in Servers /\ queue[head[t]] \in Seq(Connections)
    BY <1>0, <1>6 DEF AcceptTake
  <2>2. Head(queue[head[t]]) \in Connections
    BY <2>1, <1>6, TailElements DEF AcceptTake
  <2>3. QED
    BY <1>0, <1>n, <1>6, <2>1, <2>2 DEF AcceptTake
<1>7. CASE AcceptNothing(t)
  BY <1>0, <1>7 DEF AcceptNothing
<1>8. CASE AcceptFinish(t)
  BY <1>0, <1>8 DEF AcceptFinish, AcceptReturn
<1>9. CASE ServerCreate(t)
  BY <1>0, <1>9 DEF ServerCreate
<1>10. CASE ServerBind(t)
  BY Zenon, <1>0, <1>10 DEF ServerBind
<1>11. CASE ServerListen(t)
  BY ZenonT(60), <1>0, <1>11 DEF ServerListen
<1>12. CASE ServerDestroy(t)
  BY <1>0, <1>12 DEF ServerDestroy
<1>13. CASE BeginAccept(t)
  BY <1>0, <1>13 DEF BeginAccept
<1>14. CASE BeginServer(t)
  BY <1>0, <1>14 DEF BeginServer
<1>15. CASE ReceiveBegin(t)
  BY <1>0, <1>15 DEF ReceiveBegin
<1>16. CASE ReceiveByte(t) \/ ReceiveEnd(t)
  BY Zenon, <1>0, <1>16 DEF ReceiveByte, ReceiveEnd, Stored
<1>17. CASE ReceiveFail(t)
  BY <1>0, <1>17 DEF ReceiveFail
<1>18. CASE ScanDone(t)
  BY <1>0, <1>18 DEF ScanDone, CloseConnection
<1>19. QED
  BY <1>1, <1>2, <1>3, <1>4, <1>5, <1>6, <1>7, <1>8, <1>9, <1>10, <1>11, <1>12, <1>13, <1>14,
     <1>15, <1>16, <1>17, <1>18, Zenon DEF Step, Begin, Accept, Server, Receive

(* Sleepers that are woken keep what they have and accept on.              *)
LEMMA WokenTyped ==
  ASSUME SocketTyped, Network
  PROVE  /\ pc' \in [Threads -> Labels] /\ UNCHANGED <<head, so>>
         /\ \A t \in Threads : pc'[t] = pc[t] \/ (pc[t] = "asleep" /\ pc'[t] = "waking")
<1>1. UNCHANGED <<head, so>>
  BY Zenon DEF Network, Break, End, Arrive
<1>2. CASE UNCHANGED pc
  BY <1>1, <1>2, Zenon DEF SocketTyped
<1>3. ASSUME NEW woken \in SUBSET Threads, \A t \in woken : pc[t] = "asleep", Wake(woken)
      PROVE  /\ pc' \in [Threads -> Labels]
             /\ \A t \in Threads : pc'[t] = pc[t] \/ (pc[t] = "asleep" /\ pc'[t] = "waking")
  BY <1>3 DEF Wake, SocketTyped, Labels
<1>4. QED
  BY <1>1, <1>2, <1>3, NetworkStep, Zenon

(* Types are kept.                                                         *)
LEMMA TypedStep ==
  ASSUME SocketTyped, [Next]_vars
  PROVE  SocketTyped'
<1>0. /\ queue \in [Servers -> Seq(Connections)] /\ so \in [Threads -> Connections \cup {NULL}]
      /\ pending \subseteq Connections /\ gone \subseteq Connections
  BY Zenon DEF SocketTyped
<1> DEFINE Kept ==
             /\ queue' \in [Servers -> Seq(Connections)]
             /\ so' \in [Threads -> Connections \cup {NULL}]
             /\ pending' \subseteq Connections /\ gone' \subseteq Connections
<1>1. Kept
  <2>1. CASE UNCHANGED <<queue, so, pending, gone>>
    BY <1>0, <2>1, Zenon
  <2>2. ASSUME NEW h \in Servers, NEW c \in Connections, Arrival(h, c)
        PROVE  Kept
    BY <1>0, <2>2, AppendElements DEF Arrival
  <2>3. ASSUME NEW t \in Threads, NEW h \in Servers, Taking(t, h)
        PROVE  Kept
    BY <1>0, <2>3, TailElements DEF Taking
  <2>4. ASSUME NEW h \in Servers, Dropping(h)
        PROVE  Kept
    BY <1>0, <2>4 DEF Dropping, Elements
  <2>5. ASSUME NEW t \in Threads, Closing(t)
        PROVE  Kept
    BY <1>0, <2>5 DEF Closing
  <2>6. QED
    BY NextMoves, <2>1, <2>2, <2>3, <2>4, <2>5, Zenon DEF Moves
<1>2. CASE UNCHANGED vars
  BY <1>2, Zenon DEF SocketTyped, vars, socketVars
<1>3. CASE Network
  <2>1. \A t \in Threads : ThreadTyped(t)'
    BY <1>3, WokenTyped DEF SocketTyped, ThreadTyped, EmptyPcs, FullPcs, QueuePcs
  <2>2. QED
    BY <1>1, <1>3, <2>1, WokenTyped, Zenon DEF SocketTyped, ThreadTyped
<1>4. ASSUME NEW t \in Threads, Step(t) \/ Begin(t)
      PROVE  SocketTyped'
  <2>1. pc' \in [Threads -> Labels] /\ head' \in [Threads -> Servers \cup {NULL}]
    BY <1>4, ThreadStep, Zenon DEF OnlyThread
  <2>2. \A u \in Threads : ThreadTyped(u)'
    <3>1. \A u \in Threads : ThreadTyped(u)
      BY Zenon DEF SocketTyped, ThreadTyped
    <3>2. \A u \in Threads \ {t} : pc'[u] = pc[u] /\ head'[u] = head[u] /\ so'[u] = so[u]
      BY <1>4, ThreadStep, Zenon DEF OnlyThread
    <3>3. \A u \in Threads \ {t} : ThreadTyped(u)'
      BY <3>1, <3>2 DEF ThreadTyped
    <3>4. QED
      BY <1>4, <3>3, ThreadStep
  <2>3. QED
    BY <1>1, <2>1, <2>2, Zenon DEF SocketTyped, ThreadTyped
<1>5. QED
  BY <1>2, <1>3, <1>4, Zenon DEF Next

(* From here on sets of threads are counted.                               *)
INSTANCE FiniteSetTheorems

(* A connection in one place is counted once.                              *)
LEMMA PlacedOnce ==
  ASSUME SocketTyped, PlaceInv
  PROVE  ConnectionOnce
<1>n. NULL \notin Connections
  BY SharedAssumption, Zenon
<1> SUFFICES ASSUME NEW c \in Connections
             PROVE  LET queued == UNION {{<<h, i>> : i \in {j \in DOMAIN queue[h] : queue[h][j] = c}} :
                                          h \in Servers}
                        taken == {t \in Threads : so[t] = c}
                    IN Cardinality(queued) + Cardinality(taken)
                         = (IF c \in pending \cup gone THEN 0 ELSE 1)
  BY DEF ConnectionOnce
<1> DEFINE Places(h) == {<<h, i>> : i \in {j \in DOMAIN queue[h] : queue[h][j] = c}}
           queued == UNION {Places(h) : h \in Servers}
           taken == {t \in Threads : so[t] = c}
<1>1. \A h \in Servers : c \notin Elements(queue[h]) => Places(h) = {}
  BY DEF Elements
<1>2. (\A h \in Servers : c \notin Elements(queue[h])) => queued = {}
  BY <1>1
<1>3. ASSUME NEW h \in Servers, c \in Elements(queue[h])
      PROVE  \E i : queued = {<<h, i>>}
  <2>1. PICK i \in DOMAIN queue[h] : queue[h][i] = c
    BY <1>3, Zenon DEF Elements
  <2>2. \A j \in DOMAIN queue[h] : queue[h][j] = c => j = i
    BY <2>1, Zenon DEF PlaceInv, Repeats
  <2>3. Places(h) = {<<h, i>>}
    BY <2>1, <2>2
  <2>4. \A g \in Servers : g # h => Places(g) = {}
    BY <1>1, <1>3, Zenon DEF PlaceInv
  <2>5. queued = {<<h, i>>}
    BY <2>3, <2>4
  <2>6. QED
    BY <2>5, Zenon
<1>4. (\A t \in Threads : so[t] # c) => taken = {}
  OBVIOUS
<1>5. ASSUME NEW t \in Threads, so[t] = c
      PROVE  taken = {t}
  BY <1>n, <1>5 DEF PlaceInv
<1>6. Cardinality({}) = 0 /\ \A x : Cardinality({x}) = 1
  BY FS_EmptySet, FS_Singleton, Zenon
<1> DEFINE Once ==
             Cardinality(queued) + Cardinality(taken) = (IF c \in pending \cup gone THEN 0 ELSE 1)
<1> HIDE DEF queued, taken
<1>7. Once
  <2>1. CASE c \in pending \cup gone
    <3>0. /\ \A h \in Servers : c \notin Elements(queue[h])
          /\ \A t \in Threads : so[t] # c
      BY <1>n, <2>1 DEF PlaceInv
    <3>1. queued = {} /\ taken = {}
      BY <1>2, <1>4, <3>0, Zenon
    <3>2. QED
      BY <2>1, <3>1, <1>6
  <2>2. ASSUME NEW t \in Threads, so[t] = c
        PROVE  Once
    <3>1. queued = {} /\ taken = {t} /\ c \notin pending \cup gone
      BY <1>n, <1>2, <1>5, <2>2, Zenon DEF PlaceInv
    <3>2. QED
      BY <3>1, <1>6
  <2>3. ASSUME NEW h \in Servers, c \in Elements(queue[h])
        PROVE  Once
    <3>1. taken = {} /\ c \notin pending \cup gone
      BY <1>4, <2>3, Zenon DEF PlaceInv
    <3>2. PICK i : queued = {<<h, i>>}
      BY <1>3, <2>3, Zenon
    <3>3. Cardinality(queued) = 1 /\ Cardinality(taken) = 0
      BY <3>1, <3>2, <1>6, Zenon
    <3>4. QED
      BY <3>1, <3>3
  <2>4. QED
    BY <2>1, <2>2, <2>3, Zenon DEF PlaceInv
<1>8. QED
  BY <1>7, Zenon DEF queued, taken

(* The queue of a server is no longer than its awake threads are many, if  *)
(* any sleeps.                                                             *)
Attended(h) == Sleepers(h) # {} => Len(queue[h]) <= Cardinality(Awake(h))

(* A step that takes nothing leaves the threads awake that were, or the    *)
(* queue is empty.                                                         *)
Stirs(t, h) ==
  /\ queue'[h] \in {queue[h], <<>>}
  /\ t \in Awake(h) => t \in Awake(h)' \/ queue'[h] = <<>>
  /\ t \in Sleepers(h)' => t \in Sleepers(h) \/ queue'[h] = <<>>

LEMMA ThreadStirs ==
  ASSUME SocketTyped, NEW t \in Threads, Step(t) \/ Begin(t), ~AcceptTake(t), NEW h \in Servers
  PROVE  Stirs(t, h)
<1>0. /\ pc \in [Threads -> Labels] /\ head \in [Threads -> Servers \cup {NULL}]
      /\ queue \in [Servers -> Seq(Connections)]
  BY Zenon DEF SocketTyped
<1> USE DEF Stirs, Awake, Sleepers, Goto
<1>1. CASE AcceptLookUp(t)
  BY <1>0, <1>1 DEF AcceptLookUp, AcceptReturn
<1>2. CASE AcceptLock(t)
  BY <1>0, <1>2 DEF AcceptLock
<1>3. CASE AcceptWait(t)
  BY <1>0, <1>3 DEF AcceptWait, AcceptReturn
<1>4. CASE AcceptWouldBlock(t)
  BY <1>0, <1>4 DEF AcceptWouldBlock, AcceptReturn
<1>5. CASE AcceptInterrupted(t)
  BY <1>0, <1>5 DEF AcceptInterrupted, AcceptReturn
<1>6. CASE AcceptNothing(t)
  BY <1>0, <1>6 DEF AcceptNothing
<1>7. CASE AcceptFinish(t)
  BY <1>0, <1>7 DEF AcceptFinish, AcceptReturn
<1>8. CASE ServerCreate(t) \/ BeginAccept(t) \/ BeginServer(t)
  BY <1>0, <1>8 DEF ServerCreate, BeginAccept, BeginServer
<1>9. CASE ServerBind(t)
  BY <1>0, <1>9 DEF ServerBind, Destroy
<1>10. CASE ServerListen(t)
  BY <1>0, <1>10 DEF ServerListen, Destroy
<1>11. CASE ServerDestroy(t)
  BY <1>0, <1>11 DEF ServerDestroy, Destroy
<1>12. CASE ReceiveBegin(t) \/ ReceiveFail(t)
  BY <1>0, <1>12 DEF ReceiveBegin, ReceiveFail
<1>13. CASE ReceiveByte(t) \/ ReceiveEnd(t)
  BY Zenon, <1>0, <1>13 DEF ReceiveByte, ReceiveEnd, Stored
<1>14. CASE ScanDone(t)
  BY <1>0, <1>14 DEF ScanDone, CloseConnection
<1>15. QED
  BY <1>1, <1>2, <1>3, <1>4, <1>5, <1>6, <1>7, <1>8, <1>9, <1>10, <1>11, <1>12, <1>13, <1>14,
     Zenon DEF Step, Begin, Accept, Server, Receive

(* Sets of threads are finite, and counted.                                *)
LEMMA FiniteThreads ==
  /\ \A S \in SUBSET Threads : IsFiniteSet(S) /\ Cardinality(S) \in Nat
  /\ \A S, T \in SUBSET Threads : S \subseteq T => Cardinality(S) <= Cardinality(T)
  /\ \A S \in SUBSET Threads : \A t \in Threads \ S : Cardinality(S \cup {t}) = Cardinality(S) + 1
<1>1. \A S \in SUBSET Threads : IsFiniteSet(S) /\ Cardinality(S) \in Nat
  BY SharedAssumption, FS_Subset, FS_CardinalityType, Zenon
<1>2. \A S, T \in SUBSET Threads : S \subseteq T => Cardinality(S) <= Cardinality(T)
  BY <1>1, FS_Subset, Zenon
<1>3. ASSUME NEW S \in SUBSET Threads, NEW t \in Threads \ S
      PROVE  Cardinality(S \cup {t}) = Cardinality(S) + 1
  <2>1. IsFiniteSet(S) /\ t \notin S
    BY <1>1, Zenon
  <2>2. QED
    BY <2>1, FS_AddElement
<1>4. QED
  BY <1>1, <1>2, <1>3, Zenon

(* No step loses a wakeup.                                                 *)
LEMMA AttendedStep ==
  ASSUME SocketTyped, [Next]_vars, NEW h \in Servers, Attended(h)
  PROVE  Attended(h)'
<1>0. /\ pc \in [Threads -> Labels] /\ head \in [Threads -> Servers \cup {NULL}]
      /\ queue \in [Servers -> Seq(Connections)] /\ Len(queue[h]) \in Nat
      /\ Awake(h) \in SUBSET Threads /\ Awake(h)' \in SUBSET Threads
  BY DEF SocketTyped, Awake
<1>1. ASSUME queue'[h] = <<>>
      PROVE  Attended(h)'
  BY <1>0, <1>1, FiniteThreads DEF Attended
<1>2. ASSUME queue'[h] = queue[h], Awake(h) \subseteq Awake(h)', Sleepers(h)' \subseteq Sleepers(h)
      PROVE  Attended(h)'
  <2>1. /\ Cardinality(Awake(h)) <= Cardinality(Awake(h)')
        /\ Cardinality(Awake(h)) \in Nat /\ Cardinality(Awake(h)') \in Nat
    BY Zenon, <1>0, <1>2, FiniteThreads
  <2>2. QED
    BY <1>0, <1>2, <2>1 DEF Attended
<1>3. CASE UNCHANGED vars
  BY <1>2, <1>3 DEF vars, socketVars, Awake, Sleepers
<1>4. ASSUME NEW g \in Servers, Wake(Sleepers(g)), UNCHANGED <<queue, head>>
      PROVE  Attended(h)'
  <2>1. Awake(h) \subseteq Awake(h)' /\ Sleepers(h)' \subseteq Sleepers(h)
    BY <1>0, <1>4 DEF Awake, Sleepers, Wake
  <2>2. QED
    BY <1>2, <1>4, <2>1
<1>5. ASSUME NEW g \in Servers, NEW c \in Connections, Arrive(g, c)
      PROVE  Attended(h)'
  <2>1. UNCHANGED head /\ queue'[g] = Append(queue[g], c) /\ (g # h => queue'[h] = queue[h])
    BY <1>0, <1>5 DEF Arrive
  <2>2. CASE Sleepers(g) = {} /\ UNCHANGED pc
    <3>1. Awake(h)' = Awake(h) /\ Sleepers(h)' = Sleepers(h)
      BY <2>1, <2>2 DEF Awake, Sleepers
    <3>2. QED
      BY <1>2, <2>1, <2>2, <3>1 DEF Attended
  <2>3. ASSUME NEW t \in Sleepers(g), Wake({t})
        PROVE  Attended(h)'
    <3>1. t \in Threads /\ pc[t] = "asleep" /\ head[t] = g
      BY DEF Sleepers
    <3>2. Awake(h) \subseteq Awake(h)' /\ Sleepers(h)' \subseteq Sleepers(h)
      BY <1>0, <2>1, <2>3, <3>1 DEF Awake, Sleepers, Wake
    <3>3. CASE g = h
      <4>1. Awake(h)' = Awake(h) \cup {t} /\ t \notin Awake(h)
        BY <1>0, <2>1, <2>3, <3>1, <3>3 DEF Awake, Wake
      <4>2. Cardinality(Awake(h)') = Cardinality(Awake(h)) + 1 /\ Cardinality(Awake(h)) \in Nat
        BY Zenon, <1>0, <3>1, <4>1, FiniteThreads
      <4>3. Len(queue'[h]) = Len(queue[h]) + 1
        BY <1>0, <2>1, <3>3
      <4>4. Len(queue[h]) <= Cardinality(Awake(h))
        BY <2>3, <3>3 DEF Attended
      <4>5. QED
        BY <1>0, <4>2, <4>3, <4>4 DEF Attended
    <3>4. CASE g # h
      BY <1>2, <2>1, <3>2, <3>4
    <3>5. QED
      BY <3>3, <3>4, Zenon
  <2>4. QED
    BY <1>5, <2>2, <2>3, Zenon DEF Arrive
<1>6. ASSUME NEW t \in Threads, AcceptTake(t)
      PROVE  Attended(h)'
  <2>1. pc[t] = "test" /\ UNCHANGED head /\ pc' = [pc EXCEPT ![t] = "soaccept"]
    BY <1>6, Zenon DEF AcceptTake, Goto
  <2>2. Sleepers(h)' = Sleepers(h)
    BY <1>0, <2>1 DEF Sleepers
  <2>3. CASE head[t] = h
    <3>1. Awake(h) = Awake(h)' \cup {t} /\ t \notin Awake(h)'
      BY <1>0, <2>1, <2>3 DEF Awake
    <3>2. Cardinality(Awake(h)) = Cardinality(Awake(h)') + 1 /\ Cardinality(Awake(h)') \in Nat
      BY Zenon, <1>0, <3>1, FiniteThreads
    <3>3. Len(queue'[h]) = Len(queue[h]) - 1
      BY <1>0, <1>6, <2>3 DEF AcceptTake
    <3>4. QED
      BY <1>0, <2>2, <3>2, <3>3 DEF Attended
  <2>4. CASE head[t] # h
    <3>1. queue'[h] = queue[h]
      BY <1>0, <1>6, <2>4 DEF AcceptTake
    <3>2. Awake(h)' = Awake(h)
      BY <1>0, <2>1, <2>4 DEF Awake
    <3>3. QED
      BY <2>2, <3>1, <3>2, Zenon DEF Attended
  <2>5. QED
    BY <2>3, <2>4, Zenon
<1>7. ASSUME NEW t \in Threads, Step(t) \/ Begin(t), ~AcceptTake(t)
      PROVE  Attended(h)'
  <2>1. OnlyThread(t) /\ Stirs(t, h)
    BY <1>7, ThreadStep, ThreadStirs, Zenon
  <2>2. CASE queue'[h] # <<>>
    <3>1. Awake(h) \subseteq Awake(h)'
      BY <2>1, <2>2 DEF Awake, Stirs, OnlyThread
    <3>2. Sleepers(h)' \subseteq Sleepers(h)
      BY <2>1, <2>2 DEF Sleepers, Stirs, OnlyThread
    <3>3. queue'[h] = queue[h]
      BY <2>1, <2>2 DEF Stirs
    <3>4. QED
      BY <1>2, <3>1, <3>2, <3>3
  <2>3. QED
    BY <1>1, <2>2, Zenon
<1>8. CASE Network
  BY <1>8, <1>4, <1>5 DEF Network, Break, End
<1>9. QED
  BY <1>3, <1>6, <1>7, <1>8, Zenon DEF Next

(* A byte that is stored is one more of the line, and a newline ends it.   *)
LEMMA ByteStored ==
  ASSUME NEW d \in Seq(Bytes), NEW n \in Nat, NEW q \in Seq(Bytes), NEW s \in Seq(Bytes),
         Partly(d, n, q, s), q # <<>>
  PROVE  LET b == Head(q)
         IN /\ b \in Bytes /\ Tail(q) \in Seq(Bytes) /\ Append(d, b) \in Seq(Bytes)
            /\ b # Newline => Partly(Append(d, b), n + 1, Tail(q), s)
            /\ b = Newline => Whole(Append(Append(d, b), Zero), n, s)
<1> DEFINE b == Head(q)
           e == Append(d, b)
           r == Tail(q)
<1>1. /\ Len(q) \in Nat /\ Len(q) > 0 /\ b = q[1] /\ b \in Bytes /\ r \in Seq(Bytes)
      /\ Len(r) = Len(q) - 1 /\ \A i \in 1..Len(r) : r[i] = q[i + 1]
  OBVIOUS
<1>2. /\ Len(d) = n /\ Len(s) \in Nat /\ Len(s) = n + Len(q)
      /\ \A i \in 1..n : d[i] = s[i] /\ d[i] # Newline
      /\ \A i \in 1..Len(q) : q[i] = s[n + i]
  BY DEF Partly
<1>3. /\ e \in Seq(Bytes) /\ Len(e) = n + 1 /\ e[n + 1] = b /\ \A i \in 1..n : e[i] = d[i]
  BY <1>1, <1>2
<1> HIDE DEF b, e, r
<1>4. s[n + 1] = b /\ \A i \in 1..Len(r) : r[i] = s[n + 1 + i]
  <2>1. 1 \in 1..Len(q) /\ \A i \in 1..Len(r) : i + 1 \in 1..Len(q) /\ n + (i + 1) = n + 1 + i
    BY <1>1
  <2>2. QED
    BY <1>1, <1>2, <2>1
<1>5. \A i \in 1..(n + 1) : i \in 1..n \/ i = n + 1
  OBVIOUS
<1>e. \A i \in 1..(n + 1) : e[i] = s[i]
  BY <1>2, <1>3, <1>4, <1>5
<1>6. b # Newline => Partly(e, n + 1, r, s)
  <2>1. b # Newline => \A i \in 1..(n + 1) : e[i] # Newline
    BY <1>2, <1>3, <1>5
  <2>2. Len(s) = n + 1 + Len(r)
    BY <1>1, <1>2
  <2>3. QED
    BY <1>3, <1>4, <1>e, <2>1, <2>2 DEF Partly
<1>7. ASSUME b = Newline
      PROVE  Whole(Append(e, Zero), n, s)
  <2> DEFINE p == SubSeq(s, 1, n + 1)
  <2>1. 1 \in 1..(Len(s) + 1) /\ n + 1 \in 0..Len(s)
    BY <1>1, <1>2
  <2>2. p \in Seq(Bytes) /\ Len(p) = n + 1 /\ \A i \in 1..(n + 1) : p[i] = s[i]
    BY <2>1
  <2> HIDE DEF p
  <2>3. p = e
    <3>1. p \in [1..(n + 1) -> Bytes] /\ e \in [1..(n + 1) -> Bytes]
      BY <1>3, <1>e, <2>2
    <3> QED
      BY SMTT(20), <1>e, <2>2, <3>1
  <2>4. \A i \in 1..(n + 1) : Append(e, Zero)[i] = e[i]
    BY <1>3
  <2>5. \A i \in 1..(n + 1) : e[i] = Newline <=> i = n + 1
    BY <1>2, <1>3, <1>5, <1>7
  <2>6. QED
    BY <2>3, <2>4, <2>5 DEF Whole, p
<1>8. QED
  BY Zenon, <1>1, <1>3, <1>6, <1>7 DEF b, e, r

LEMMA ZeroStored ==
  ASSUME NEW d \in Seq(Bytes), NEW n \in Nat, NEW s, Partly(d, n, <<>>, s)
  PROVE  Append(d, Zero) \in Seq(Bytes) /\ Partly(Append(d, Zero), n + 1, <<>>, s)
<1>1. Zero \in Bytes /\ Len(d) = n
  BY ByteAssumption DEF Partly
<1>2. QED
  BY <1>1 DEF Partly

LEMMA NothingStored ==
  ASSUME NEW s \in Seq(Bytes)
  PROVE  Partly(<<>>, 0, s, s)
  BY DEF Partly

(* A step that reads nothing, and keeps the readers and what they read     *)
(* from, keeps their lines.                                                *)
LEMMA LinesKept ==
  ASSUME LineInv, UNCHANGED lineVars, gone \subseteq gone',
         \A t \in Threads : pc[t] \in {"receive", "line", "fault"} => pc'[t] = pc[t] /\ so'[t] = so[t],
         \A t \in Threads : pc'[t] \in {"receive", "line"} => pc[t] \in {"receive", "line"}
  PROVE  LineInv'
<1>1. UNCHANGED <<sent, stream, offset, data>>
  BY Zenon DEF lineVars
<1>2. ASSUME NEW t \in Threads
      PROVE  ThreadLine(t)'
  <2>1. CASE pc[t] \in {"receive", "line"}
    BY Zenon, <1>1, <2>1 DEF ThreadLine, LineInv
  <2>2. CASE pc[t] \notin {"receive", "line"}
    <3>1. pc'[t] \notin {"receive", "line"}
      BY <2>2, Zenon
    <3>2. QED
      BY <3>1 DEF ThreadLine
  <2>3. QED
    BY <2>1, <2>2, Zenon
<1>3. ASSUME NEW c \in Connections \ gone'
      PROVE  Untouched(c)'
  <2>1. Untouched(c)
    BY Zenon DEF LineInv
  <2>2. ASSUME NEW t \in Threads, so[t] = c, pc[t] \in {"receive", "line", "fault"}
        PROVE  Untouched(c)'
    <3>1. so'[t] = c /\ pc'[t] \in {"receive", "line", "fault"}
      BY <2>2
    <3>2. QED
      BY <3>1, Zenon DEF Untouched
  <2>3. CASE stream[c] = sent[c]
    BY <1>1, <2>3, Zenon DEF Untouched
  <2>4. QED
    BY <2>1, <2>2, <2>3, Zenon DEF Untouched
<1>4. QED
  BY <1>1, <1>2, <1>3, Zenon DEF LineInv

(* A thread that reads leaves the lines of the others alone: no two read   *)
(* from one connection.                                                    *)
LEMMA OthersKept ==
  ASSUME SocketTyped, PlaceInv, LineInv, NEW t \in Threads, so[t] \in Connections,
         UNCHANGED sent, gone \subseteq gone',
         stream' \in [Connections -> Seq(Bytes)],
         \A c \in Connections : c # so[t] => stream'[c] = stream[c],
         offset' \in [Threads -> Nat], data' \in [Threads -> Seq(Bytes)],
         \A u \in Threads \ {t} : /\ pc'[u] = pc[u] /\ so'[u] = so[u]
                                  /\ offset'[u] = offset[u] /\ data'[u] = data[u],
         ThreadLine(t)', so[t] \in gone' \/ (so'[t] = so[t] /\ Untouched(so[t])')
  PROVE  LineInv'
<1>n. NULL \notin Connections
  BY SharedAssumption, Zenon
<1>1. ASSUME NEW u \in Threads
      PROVE  ThreadLine(u)'
  <2>1. CASE u = t
    BY <2>1, Zenon
  <2>2. CASE u # t
    <3>1. so[u] # so[t]
      BY <1>n, <2>2, Zenon DEF PlaceInv
    <3>2. /\ pc'[u] = pc[u] /\ so'[u] = so[u] /\ offset'[u] = offset[u] /\ data'[u] = data[u]
      BY <2>2, Zenon
    <3>3. ThreadLine(u)
      BY Zenon DEF LineInv
    <3>4. CASE pc[u] \notin {"receive", "line"}
      BY Zenon, <3>2, <3>4 DEF ThreadLine
    <3>5. CASE pc[u] \in {"receive", "line"}
      <4>1. so[u] \in Connections
        BY Zenon, <3>5 DEF SocketTyped, FullPcs
      <4>2. stream'[so'[u]] = stream[so[u]] /\ sent'[so'[u]] = sent[so[u]]
        BY <3>1, <3>2, <4>1, Zenon
      <4>3. QED
        BY Zenon, <3>2, <3>3, <4>2 DEF ThreadLine
    <3>6. QED
      BY <3>4, <3>5, Zenon
  <2>3. QED
    BY <2>1, <2>2, Zenon
<1>2. ASSUME NEW c \in Connections \ gone'
      PROVE  Untouched(c)'
  <2>1. CASE c = so[t]
    <3>1. so'[t] = c /\ Untouched(so[t])'
      BY <2>1, Zenon
    <3>2. QED
      BY <3>1, Zenon DEF Untouched
  <2>2. CASE c # so[t]
    <3>1. Untouched(c) /\ stream'[c] = stream[c] /\ sent'[c] = sent[c]
      BY <2>2, Zenon DEF LineInv
    <3>2. ASSUME NEW u \in Threads, so[u] = c, pc[u] \in {"receive", "line", "fault"}
          PROVE  Untouched(c)'
      <4>1. u # t
        BY <2>2, <3>2, Zenon
      <4>2. so'[u] = c /\ pc'[u] = pc[u]
        BY <3>2, <4>1, Zenon
      <4>3. QED
        BY <3>2, <4>2, Zenon DEF Untouched
    <3>3. CASE stream[c] = sent[c]
      BY <3>1, <3>3, Zenon DEF Untouched
    <3>4. QED
      BY <3>1, <3>2, <3>3, Zenon DEF Untouched
  <2>3. QED
    BY <2>1, <2>2, Zenon
<1>3. QED
  BY <1>1, <1>2, Zenon DEF LineInv

(* Every step keeps the lines that threads have read.                      *)
LEMMA LineStep ==
  ASSUME SocketTyped, PlaceInv, LineInv, [Next]_vars
  PROVE  LineInv'
<1>0. /\ sent \in [Connections -> Seq(Bytes)] /\ stream \in [Connections -> Seq(Bytes)]
      /\ offset \in [Threads -> Nat] /\ data \in [Threads -> Seq(Bytes)]
      /\ \A u \in Threads : ThreadLine(u)
  BY Zenon DEF LineInv
<1>g. gone \subseteq gone'
  BY NextMoves, Zenon DEF Moves, Arrival, Taking, Dropping, Closing
<1>1. CASE UNCHANGED vars
  BY <1>1, LinesKept DEF vars, socketVars
<1>2. CASE Network /\ UNCHANGED lineVars
  <2>1. /\ \A t \in Threads :
             pc[t] \in {"receive", "line", "fault"} => pc'[t] = pc[t] /\ so'[t] = so[t]
        /\ \A t \in Threads : pc'[t] \in {"receive", "line"} => pc[t] \in {"receive", "line"}
    BY <1>2, WokenTyped
  <2>2. QED
    BY <1>g, <1>2, <2>1, LinesKept, Zenon
<1>3. ASSUME NEW t \in Threads, ~Stopped, UNCHANGED lineVars,
             Accept(t) \/ Server(t) \/ BeginAccept(t) \/ BeginServer(t), Step(t) \/ Begin(t)
      PROVE  LineInv'
  <2>1. pc[t] \notin {"receive", "line", "fault"}
    BY <1>3, SocketStep DEF Stopped, SocketTyped
  <2>2. pc'[t] \notin {"receive", "line"}
    BY <1>3, SocketStep DEF SocketTyped
  <2>3. \A u \in Threads \ {t} : pc'[u] = pc[u] /\ so'[u] = so[u]
    BY <1>3, ThreadStep, Zenon DEF OnlyThread
  <2>4. /\ \A u \in Threads :
             pc[u] \in {"receive", "line", "fault"} => pc'[u] = pc[u] /\ so'[u] = so[u]
        /\ \A u \in Threads : pc'[u] \in {"receive", "line"} => pc[u] \in {"receive", "line"}
    BY <2>1, <2>2, <2>3
  <2>5. QED
    BY <1>g, <1>3, <2>4, LinesKept, Zenon
<1>4. ASSUME NEW t \in Threads, Receive(t)
      PROVE  LineInv'
  <2>1. pc[t] \in {"have", "receive", "line"}
    BY Zenon, <1>4 DEF Receive, ReceiveBegin, ReceiveByte, ReceiveEnd, ReceiveFail, ScanDone, Stored, Goto
  <2>2. so[t] \in Connections /\ so[t] \notin gone
    BY <2>1 DEF SocketTyped, FullPcs, PlaceInv
  <2>3. \A u \in Threads \ {t} : pc'[u] = pc[u] /\ so'[u] = so[u]
    BY <1>4, ThreadStep, Zenon DEF OnlyThread, Step
  <2>4. pc \in [Threads -> Labels]
    BY Zenon DEF SocketTyped
  <2> DEFINE c == so[t]
  <2>5. CASE ReceiveBegin(t)
    <3>1. /\ pc[t] = "have" /\ pc'[t] = "receive" /\ offset'[t] = 0 /\ data'[t] = <<>>
          /\ so' = so /\ stream' = stream /\ sent' = sent
          /\ offset' \in [Threads -> Nat] /\ data' \in [Threads -> Seq(Bytes)]
          /\ \A u \in Threads \ {t} : offset'[u] = offset[u] /\ data'[u] = data[u]
      BY <1>0, <2>4, <2>5 DEF ReceiveBegin, Goto
    <3>2. stream[c] = sent[c]
      <4>1. Untouched(c)
        BY <2>2, Zenon DEF LineInv
      <4>2. \A u \in Threads : so[u] = c => pc[u] = "have"
        BY Zenon, <2>2, <3>1, SharedAssumption DEF PlaceInv
      <4>3. QED
        BY <4>1, <4>2 DEF Untouched
    <3>3. ThreadLine(t)'
      BY Zenon, <1>0, <2>2, <3>1, <3>2, NothingStored DEF ThreadLine
    <3>4. Untouched(c)'
      BY <3>1, <3>2, Zenon DEF Untouched
    <3>5. QED
      BY <1>0, <1>g, <2>2, <2>3, <3>1, <3>3, <3>4, OthersKept, Zenon
  <2>6. ASSUME NEW b \in Bytes, NEW q \in Seq(Bytes), Stored(t, b),
               stream' = [stream EXCEPT ![c] = q],
               Append(data[t], b) \in Seq(Bytes),
               b # Newline => Partly(Append(data[t], b), offset[t] + 1, q, sent[c]),
               b = Newline => Whole(Append(Append(data[t], b), Zero), offset[t], sent[c])
        PROVE  LineInv'
    <3>1. /\ so' = so /\ sent' = sent /\ stream' \in [Connections -> Seq(Bytes)] /\ stream'[c] = q
          /\ \A d \in Connections : d # c => stream'[d] = stream[d]
      BY <1>0, <2>2, <2>6 DEF Stored
    <3>2. pc[t] = "receive" /\ Len(data[t]) = offset[t]
      BY <1>0, <2>6 DEF Stored, Goto, ThreadLine, Partly
    <3>3. data' = [data EXCEPT ![t] = IF b = Newline THEN Append(Append(data[t], b), Zero)
                                      ELSE Append(data[t], b)]
      BY <2>6, <3>2, Zenon DEF Stored
    <3>4. /\ data' \in [Threads -> Seq(Bytes)] /\ \A u \in Threads \ {t} : data'[u] = data[u]
          /\ data'[t] = (IF b = Newline THEN Append(Append(data[t], b), Zero) ELSE Append(data[t], b))
      <4>1. Append(Append(data[t], b), Zero) \in Seq(Bytes)
        BY <2>6, ByteAssumption
      <4>2. QED
        BY <1>0, <2>6, <3>3, <4>1
    <3>5. /\ offset' \in [Threads -> Nat] /\ \A u \in Threads \ {t} : offset'[u] = offset[u]
          /\ b = Newline => pc'[t] = "line" /\ offset'[t] = offset[t]
          /\ b # Newline => pc'[t] = "receive" /\ offset'[t] = offset[t] + 1
      <4>1. CASE b = Newline
        <5>1. pc' = [pc EXCEPT ![t] = "line"] /\ offset' = offset
          BY Zenon, <2>6, <4>1 DEF Stored, Goto
        <5>2. QED
          BY <1>0, <2>4, <4>1, <5>1
      <4>2. CASE b # Newline
        <5>1. pc' = [pc EXCEPT ![t] = "receive"] /\ offset' = [offset EXCEPT ![t] = @ + 1]
          BY Zenon, <2>6, <4>2 DEF Stored, Goto, Advance
        <5>2. QED
          BY <1>0, <2>4, <4>2, <5>1
      <4>3. QED
        BY <4>1, <4>2, Zenon
    <3>6. ThreadLine(t)'
      BY Zenon, <2>6, <3>1, <3>4, <3>5 DEF ThreadLine
    <3>7. Untouched(c)'
      BY Zenon, <3>1, <3>5 DEF Untouched
    <3>8. QED
      BY <1>g, <2>2, <2>3, <3>1, <3>4, <3>5, <3>6, <3>7, OthersKept, Zenon
  <2>7. CASE ReceiveByte(t)
    <3>1. /\ stream[c] # <<>> /\ Stored(t, Head(stream[c]))
          /\ stream' = [stream EXCEPT ![c] = Tail(stream[c])]
      BY <2>7, Zenon DEF ReceiveByte
    <3>2. Partly(data[t], offset[t], stream[c], sent[c])
      BY Zenon, <1>0, <3>1 DEF Stored, Goto, ThreadLine
    <3>3. /\ data[t] \in Seq(Bytes) /\ offset[t] \in Nat
          /\ stream[c] \in Seq(Bytes) /\ sent[c] \in Seq(Bytes)
      BY <1>0, <2>2
    <3>4. /\ Head(stream[c]) \in Bytes /\ Tail(stream[c]) \in Seq(Bytes)
          /\ Append(data[t], Head(stream[c])) \in Seq(Bytes)
          /\ Head(stream[c]) # Newline =>
               Partly(Append(data[t], Head(stream[c])), offset[t] + 1, Tail(stream[c]), sent[c])
          /\ Head(stream[c]) = Newline =>
               Whole(Append(Append(data[t], Head(stream[c])), Zero), offset[t], sent[c])
      BY Zenon, <3>1, <3>2, <3>3, ByteStored
    <3>5. QED
      BY <2>6, <3>1, <3>4, Zenon
  <2>8. CASE ReceiveEnd(t)
    <3>1. stream[c] = <<>> /\ Stored(t, Zero) /\ stream' = stream
      BY <2>8, Zenon DEF ReceiveEnd
    <3>2. Partly(data[t], offset[t], <<>>, sent[c])
      BY Zenon, <1>0, <3>1 DEF Stored, Goto, ThreadLine
    <3>3. data[t] \in Seq(Bytes) /\ offset[t] \in Nat /\ Zero \in Bytes /\ Zero # Newline
      BY <1>0, ByteAssumption
    <3>4. /\ Append(data[t], Zero) \in Seq(Bytes)
          /\ Partly(Append(data[t], Zero), offset[t] + 1, <<>>, sent[c])
      BY <3>2, <3>3, ZeroStored, Zenon
    <3>5. stream' = [stream EXCEPT ![c] = <<>>] /\ <<>> \in Seq(Bytes)
      BY <1>0, <2>2, <3>1
    <3>6. QED
      BY <2>6, <3>1, <3>3, <3>4, <3>5, Zenon
  <2>9. CASE ReceiveFail(t)
    <3>1. /\ pc'[t] = "fault" /\ so' = so /\ UNCHANGED <<sent, stream, offset, data>>
      BY <2>4, <2>9 DEF ReceiveFail, Goto, lineVars
    <3>2. ThreadLine(t)' /\ Untouched(c)'
      BY <3>1 DEF ThreadLine, Untouched
    <3>3. QED
      BY <1>0, <1>g, <2>2, <2>3, <3>1, <3>2, OthersKept, Zenon
  <2>10. CASE ScanDone(t)
    <3>1. /\ pc'[t] = "idle" /\ c \in gone' /\ UNCHANGED <<sent, stream>>
          /\ offset' \in [Threads -> Nat] /\ data' \in [Threads -> Seq(Bytes)]
          /\ \A u \in Threads \ {t} : offset'[u] = offset[u] /\ data'[u] = data[u]
      BY <1>0, <2>4, <2>10 DEF ScanDone, CloseConnection, Goto
    <3>2. ThreadLine(t)'
      BY Zenon, <3>1 DEF ThreadLine
    <3>3. QED
      BY <1>0, <1>g, <2>2, <2>3, <3>1, <3>2, OthersKept, Zenon
  <2>11. QED
    BY <1>4, <2>5, <2>7, <2>8, <2>9, <2>10, Zenon DEF Receive
<1>5. QED
  BY <1>1, <1>2, <1>3, <1>4, Zenon DEF Next, Step, Begin

-----------------------------------------------------------------------------
(* Nothing is under way at first.                                          *)
LEMMA ServerInit == Init => AcceptInv /\ ReceiveInv
  BY SharedAssumption
     DEF Init, SocketInit, LineInit, AcceptInv, ReceiveInv, Typed, Labels, Servers,
         AcceptMutexReleased, OwnServer, BuffersFreed

LEMMA PlacesInit ==
  ASSUME Init
  PROVE  SocketTyped /\ PlaceInv /\ NoLostWakeup /\ LineInv
<1>1. /\ queue = [h \in Servers |-> <<>>] /\ so = [t \in Threads |-> NULL]
      /\ pc = [t \in Threads |-> "idle"] /\ head = [t \in Threads |-> NULL]
      /\ pending = Connections /\ gone = {}
      /\ sent \in [Connections -> Streams] /\ stream = sent
      /\ offset = [t \in Threads |-> 0] /\ data = [t \in Threads |-> <<>>]
  BY Zenon DEF Init, SocketInit, LineInit
<1>2. SocketTyped
  BY <1>1 DEF SocketTyped, Labels, EmptyPcs, FullPcs, QueuePcs
<1>3. PlaceInv
  <2>1. \A h \in Servers : ~Repeats(queue[h]) /\ Elements(queue[h]) = {}
    BY <1>1, NoElements
  <2>2. QED
    BY <1>1, <2>1 DEF PlaceInv
<1>4. NoLostWakeup
  BY <1>1 DEF NoLostWakeup, Sleepers
<1>5. LineInv
  BY <1>1, ByteAssumption DEF LineInv, ThreadLine, Untouched
<1>6. QED
  BY <1>2, <1>3, <1>4, <1>5, Zenon

(* accept_mtx is held exactly while a thread looks at a queue: every way   *)
(* out of ps4KernelSocketAccept, errors and signals included, releases it. *)
THEOREM AcceptMutexReleasedHolds == Spec => []AcceptMutexReleased
<1>1. AcceptInv /\ [Next]_vars => AcceptInv'
  BY AcceptStep
<1>2. AcceptInv => AcceptMutexReleased
  BY DEF AcceptInv
<1>3. QED
  BY ServerInit, <1>1, <1>2, PTL DEF Spec

(* ps4KernelSocketTCPServerCreateAcceptThenDestroy returns with its server *)
(* destroyed, whichever of its calls fails.                                *)
THEOREM ServersDestroyedHolds == Spec => []ServersDestroyed
<1>1. AcceptInv /\ [Next]_vars => AcceptInv'
  BY AcceptStep
<1>2. AcceptInv => ServersDestroyed
  BY DEF AcceptInv, OwnServer, ServersDestroyed
<1>3. QED
  BY ServerInit, <1>1, <1>2, PTL DEF Spec

(* ps4KernelSocketReceiveString stores every byte inside its buffer,       *)
(* however long the line.                                                  *)
THEOREM BytesInBufferHolds == Spec => []BytesInBuffer
<1>1. ReceiveInv /\ [Next]_vars => ReceiveInv'
  BY ReceiveStep
<1>2. ReceiveInv => BytesInBuffer
  BY DEF ReceiveInv, BytesInBuffer
<1>3. QED
  BY ServerInit, <1>1, <1>2, PTL DEF Spec

(* Buffers of lines are freed with the call that allocated them.           *)
THEOREM BuffersFreedHolds == Spec => []BuffersFreed
<1>1. ReceiveInv /\ [Next]_vars => ReceiveInv'
  BY ReceiveStep
<1>2. ReceiveInv => BuffersFreed
  BY DEF ReceiveInv
<1>3. QED
  BY ServerInit, <1>1, <1>2, PTL DEF Spec

(* A connection is never handed to two threads, taken twice or lost: it is *)
(* still to come, in one queue once, with one thread, or gone.             *)
THEOREM ConnectionOnceHolds == Spec => []ConnectionOnce
<1> DEFINE I == SocketTyped /\ PlaceInv
<1>1. Init => I
  BY PlacesInit, Zenon
<1>2. I /\ [Next]_vars => I'
  BY TypedStep, NextMoves, PlaceStep, Zenon
<1>3. I => ConnectionOnce
  BY PlacedOnce, Zenon
<1>4. QED
  BY <1>1, <1>2, <1>3, PTL DEF Spec

(* ps4KernelSocketAccept never sleeps through an arrival: while one thread *)
(* sleeps on a server, every queued connection has another that is awake   *)
(* to take it.                                                             *)
THEOREM NoLostWakeupHolds == Spec => []NoLostWakeup
<1> DEFINE I == SocketTyped /\ NoLostWakeup
<1>1. Init => I
  BY PlacesInit, Zenon
<1>2. NoLostWakeup <=> \A h \in Servers : Attended(h)
  BY Zenon DEF NoLostWakeup, Attended
<1>3. I /\ [Next]_vars => I'
  <2>1. SUFFICES ASSUME I, [Next]_vars PROVE I'
    OBVIOUS
  <2>2. \A h \in Servers : Attended(h)'
    BY <1>2, <2>1, AttendedStep, Zenon
  <2>3. NoLostWakeup'
    BY <2>2, Zenon DEF NoLostWakeup, Attended
  <2>4. QED
    BY <2>1, <2>3, TypedStep, Zenon
<1>4. I => NoLostWakeup
  OBVIOUS
<1>5. QED
  BY <1>1, <1>3, <1>4, PTL DEF Spec

(* ps4KernelSocketReceiveString hands over what the peer sent up to its    *)
(* first newline, whatever else is read at the same time and however often *)
(* the buffer grows.                                                       *)
THEOREM LineExactHolds == Spec => []LineExact
<1> DEFINE I == SocketTyped /\ PlaceInv /\ LineInv
<1>1. Init => I
  BY PlacesInit, Zenon
<1>2. I /\ [Next]_vars => I'
  BY TypedStep, NextMoves, PlaceStep, LineStep, Zenon
<1>3. I => LineExact
  BY Zenon DEF LineInv, ThreadLine, Whole, LineExact
<1>4. QED
  BY <1>1, <1>2, <1>3, PTL DEF Spec
=============================================================================
