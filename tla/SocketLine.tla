----------------------------- MODULE SocketLine -----------------------------
(***************************************************************************)
(* ps4KernelSocketReceiveString: a line is read from a connection one byte *)
(* at a time, into a buffer that is doubled when it is full, and           *)
(* ps4KernelSocketScan, which parses and frees it.  What a peer sends      *)
(* before it closes is given by the initial state: the reader waits for    *)
(* each byte, so when it arrives makes no difference.  After the last byte *)
(* soreceive returns 0 without one, and the code takes what the buffer     *)
(* holds at that place: a zero.                                            *)
(***************************************************************************)
EXTENDS KernelSocket, Integers

CONSTANTS
  FirstSize,  \* 1024 in the code
  SizeMaxes,  \* limits that callers give; 0 is none
  Bytes,
  Streams,    \* what peers send: sequences of bytes
  Newline, Zero,
  MaxOffset   \* bound on the zeros a call takes after the end

ASSUME SizeAssumption ==
  FirstSize \in Nat \ {0} /\ SizeMaxes \subseteq Nat \ {1} /\ MaxOffset \in Nat

ASSUME ByteAssumption ==
  {Newline, Zero} \subseteq Bytes /\ Newline # Zero /\ \A s \in Streams : s \in Seq(Bytes)

VARIABLES
  stream,     \* bytes on their way to the reader of each connection
  sent,       \* all the bytes its peer sends
  size,       \* _size of the call each thread is in
  offset,
  data,       \* _data[0 .. ]: the bytes stored so far
  buffers     \* buffers allocated and not freed, by thread

lineVars == <<stream, sent, size, offset, data, buffers>>

LineInit ==
  /\ sent \in [Connections -> Streams] /\ stream = sent
  /\ size = [t \in Threads |-> 0] /\ offset = [t \in Threads |-> 0]
  /\ data = [t \in Threads |-> <<>>] /\ buffers = [t \in Threads |-> 0]

-----------------------------------------------------------------------------
Limited(sizeMax) ==
  IF sizeMax # 0 /\ FirstSize > sizeMax - 1 THEN sizeMax - 1 ELSE FirstSize

ReceiveBegin(t) ==
  /\ Goto(t, "have", "receive")
  /\ \E sizeMax \in SizeMaxes : size' = [size EXCEPT ![t] = Limited(sizeMax)]
  /\ offset' = [offset EXCEPT ![t] = 0] /\ data' = [data EXCEPT ![t] = <<>>]
  /\ buffers' = [buffers EXCEPT ![t] = @ + 1]
  /\ UNCHANGED <<open, listening, queue, broken, nbio, ended, mtx, head, so, pending, gone,
                 stream, sent>>

\* Mutants: the buffer grows one byte late; the byte that fills the buffer
\* is overwritten by the next.
AdvanceLate(t) ==
  /\ size' = [size EXCEPT ![t] = IF offset[t] > @ THEN 2 * @ ELSE @]
  /\ offset' = [offset EXCEPT ![t] = @ + 1]

AdvanceStays(t) ==
  IF offset[t] = size[t]
    THEN size' = [size EXCEPT ![t] = 2 * @] /\ UNCHANGED offset
    ELSE offset' = [offset EXCEPT ![t] = @ + 1] /\ UNCHANGED size

(* The buffer is full when the byte at offset = _size is in: double it.    *)
Advance(t) ==
  /\ size' = [size EXCEPT ![t] = IF offset[t] = @ THEN 2 * @ ELSE @]
  /\ offset' = [offset EXCEPT ![t] = @ + 1]

(* One byte at _data + offset; the terminator at offset + 1 after a        *)
(* newline, wherever the buffer ends.                                      *)
Stored(t, b) ==
  /\ LET line == IF Len(data[t]) = offset[t] THEN Append(data[t], b)
                 ELSE [data[t] EXCEPT ![offset[t] + 1] = b]
     IN data' = [data EXCEPT ![t] = IF b = Newline THEN Append(line, Zero) ELSE line]
  /\ \/ b = Newline /\ Goto(t, "receive", "line") /\ UNCHANGED <<size, offset>>
     \/ b # Newline /\ Goto(t, "receive", "receive") /\ Advance(t)
  /\ UNCHANGED <<open, listening, queue, broken, nbio, ended, mtx, head, so, pending, gone,
                 sent, buffers>>

ReceiveByte(t) ==
  /\ so[t] # NULL /\ stream[so[t]] # <<>>
  /\ Stored(t, Head(stream[so[t]]))
  /\ stream' = [stream EXCEPT ![so[t]] = Tail(@)]

ReceiveEnd(t) ==
  /\ so[t] # NULL /\ stream[so[t]] = <<>> /\ offset[t] < MaxOffset
  /\ Stored(t, Zero) /\ UNCHANGED stream

(* soreceive fails: the address of the caller's variable is freed instead  *)
(* of the buffer.                                                          *)
ReceiveFail(t) ==
  /\ Goto(t, "receive", "fault")
  /\ UNCHANGED <<open, listening, queue, broken, nbio, ended, mtx, head, so, pending, gone, lineVars>>

(* Scan parses the line and frees the buffer; the caller closes.           *)
ScanDone(t) ==
  /\ Goto(t, "line", "idle") /\ CloseConnection(t)
  /\ buffers' = [buffers EXCEPT ![t] = @ - 1]
  /\ size' = [size EXCEPT ![t] = 0] /\ offset' = [offset EXCEPT ![t] = 0]
  /\ data' = [data EXCEPT ![t] = <<>>]
  /\ UNCHANGED <<nbio, stream, sent>>

Receive(t) ==
  ReceiveBegin(t) \/ ReceiveByte(t) \/ ReceiveEnd(t) \/ ReceiveFail(t) \/ ScanDone(t)
=============================================================================
