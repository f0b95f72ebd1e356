------------------------- MODULE HookHandlersProofs -------------------------
(***************************************************************************)
(* Proofs about the two hook handlers: both implement HookChain, and what  *)
(* the caller of a hooked function gets.                                   *)
(*                                                                         *)
(* FunctionInv and SystemCallInv say how far a loop is: of the cells up to *)
(* Passed it has called exactly those that run in its phase.  The log of   *)
(* calls is read through CalledIn, the hooks called in a phase.            *)
(***************************************************************************)
EXTENDS HookHandlers, TLAPS

CalledIn(p) == {called[k].hook : k \in {j \in DOMAIN called : called[j].phase = p}}

Calls == [phase : {"pre", "original", "post"}, hook : Nat, control : Int, arguments : Int]

-----------------------------------------------------------------------------
(* Appending to the log adds the hook to those called in its phase.        *)
LEMMA AppendCalled ==
  ASSUME called \in Seq(Calls),
         NEW p \in {"pre", "original", "post"}, NEW h \in Nat, NEW c \in Int, NEW a \in Int,
         called' = Append(called, [phase |-> p, hook |-> h, control |-> c, arguments |-> a])
  PROVE  /\ called' \in Seq(Calls)
         /\ CalledIn(p)' = CalledIn(p) \cup {h}
         /\ \A q : q # p => CalledIn(q)' = CalledIn(q)
<1> DEFINE e == [phase |-> p, hook |-> h, control |-> c, arguments |-> a]
           n == Len(called) + 1
<1>1. e \in Calls /\ e.phase = p /\ e.hook = h
  BY DEF Calls
<1> HIDE DEF e
<1>2. called' \in Seq(Calls)
  BY <1>1 DEF e
<1>3. called' = Append(called, e)
  BY DEF e
<1>4. /\ DOMAIN called' = DOMAIN called \cup {n} /\ n \notin DOMAIN called
      /\ called'[n] = e /\ \A k \in DOMAIN called : called'[k] = called[k]
  BY <1>1, <1>3
<1> HIDE DEF n
<1>5. ASSUME NEW q PROVE CalledIn(q)' = CalledIn(q) \cup (IF q = p THEN {h} ELSE {})
  <2>1. \A x : x \in CalledIn(q) <=>
                 \E k \in DOMAIN called : called[k].phase = q /\ x = called[k].hook
    BY DEF CalledIn
  <2>2. \A x : x \in CalledIn(q)' <=>
                 \E k \in DOMAIN called' : called'[k].phase = q /\ x = called'[k].hook
    BY DEF CalledIn
  <2>3. ASSUME NEW x
        PROVE  (\E k \in DOMAIN called' : called'[k].phase = q /\ x = called'[k].hook)
               <=> \/ \E k \in DOMAIN called : called[k].phase = q /\ x = called[k].hook
                   \/ q = p /\ x = h
    BY <1>1, <1>4
  <2>4. QED
    BY <2>1, <2>2, <2>3
<1>6. QED
  BY Zenon, <1>2, <1>5

(* A function on an initial segment is a sequence.                         *)
LEMMA SegmentIsSequence ==
  ASSUME NEW S, NEW m \in Nat, NEW f \in [1..m -> S]
  PROVE  f \in Seq(S) /\ Len(f) = m
OBVIOUS

-----------------------------------------------------------------------------
(* The list of a function's clone: n hooks, then NULL, and a zero type     *)
(* behind everything.                                                      *)
Table(n) ==
  /\ hook = [k \in 1..MaxHooks + 1 |-> IF k <= n THEN k ELSE NULL]
  /\ hookType \in [1..MaxHooks + 1 -> HookTypes]
  /\ hookType[MaxHooks + 1] = 0

Passed == IF pc = "call" THEN hookCurrent ELSE hookCurrent + 1

(* Where the assembly handler is in its list.                              *)
PositionInv ==
  /\ kind = "function" /\ \E n \in 0..MaxHooks : Table(n)
  /\ pc \in {"save", "loop", "call", "loop_done", "bridge", "call_done", "returned"}
  /\ hookTypeCurrent \in {0, 1} /\ hookCurrent \in -1..MaxHooks
  /\ arguments \in Nat /\ called \in Seq(Calls)
  /\ pc = "loop" => hookCurrent < MaxHooks
  /\ pc = "call" =>
       /\ hookCurrent \in 0..MaxHooks - 1 /\ RunsIn(hookType[hookCurrent + 1], Phase)
       /\ registers \in {arguments, Clobbered}
  /\ pc = "save" => hookTypeCurrent = 0 /\ called = <<>> /\ arguments = 0 /\ registers = 0
  /\ pc = "bridge" => hookTypeCurrent = 1 /\ registers = arguments

(* Who may have written the returns.                                       *)
ReturnsInv ==
  /\ CalledIn("original") # {} => hookTypeCurrent = 1
  /\ IF CalledIn("original") = {}
       THEN returns \in {0} \cup CalledIn("pre") \cup CalledIn("post")
       ELSE returns \in {Original} \cup CalledIn("post")
  /\ pc = "returned" => result = returns

(* Which hooks the assembly handler has called.                            *)
OrderInv ==
  /\ hookTypeCurrent = 0 \/ pc = "bridge" => CalledIn("post") = {}
  /\ \A p \in {"pre", "post"} : pc \in {"loop", "call"} /\ Phase = p =>
       /\ \A h \in CalledIn(p) : h <= Passed
       /\ \A k \in 1..Passed :
            hook[k] # NULL /\ RunsIn(hookType[k], p) => k \in CalledIn(p)

(* Which hooks the C handler has called, if none of them breaks.           *)
SystemCallInv ==
  /\ kind = "system_call" /\ hookType \in Seq(HookTypes)
  /\ pc \in {"pre", "original", "post", "free", "freed", "returned"}
  /\ i \in 0..Len(hookType) /\ r \in {-1, 0} /\ arguments \in Nat /\ called \in Seq(Calls)
  /\ pc \in {"pre", "original"} => CalledIn("post") = {}
  /\ \A p \in {"pre", "post"} : pc = p =>
       /\ r = 0
       /\ \A h \in CalledIn(p) : h <= i
       /\ \A k \in 1..i : RunsIn(hookType[k], p) => k \in CalledIn(p)

FunctionInv == PositionInv /\ ReturnsInv /\ OrderInv

-----------------------------------------------------------------------------
(* No call has been made at the start.                                     *)
LEMMA NothingCalled ==
  ASSUME called = <<>>
  PROVE  called \in Seq(Calls) /\ \A p : CalledIn(p) = {}
<1>1. DOMAIN called = {} /\ called \in Seq(Calls)
  OBVIOUS
<1>2. QED
  BY <1>1, Zenon DEF CalledIn

(* A function's call starts with an empty log and a well-formed list.      *)
LEMMA FunctionInit ==
  ASSUME HandlerInit, kind = "function"
  PROVE  FunctionInv
<1>1. Init
  BY Zenon DEF HandlerInit
<1>2. PICK m \in 0..MaxHooks :
        \E n \in 0..m, types \in [1..m -> Types] : Clone(n, types)
  BY <1>1, Zenon DEF Init
<1>3. PICK n \in 0..m, types \in [1..m -> Types] : Clone(n, types)
  BY <1>2, Zenon
<1>4. m \in Nat /\ n \in 0..MaxHooks /\ Len(types) = m
  BY <1>3, SegmentIsSequence, HandlerAssumption
<1>5. \A k \in 1..m : types[k] \in HookTypes
  BY <1>3, HandlerAssumption
<1>6. Table(n)
  <2>1. hook = [k \in 1..MaxHooks + 1 |-> IF k <= n THEN k ELSE NULL]
    BY <1>3 DEF Clone
  <2>2. hookType = [k \in 1..MaxHooks + 1 |-> IF k <= m THEN types[k] ELSE 0]
    BY <1>3, <1>4 DEF Clone
  <2>3. hookType \in [1..MaxHooks + 1 -> HookTypes] /\ hookType[MaxHooks + 1] = 0
    BY <2>2, <1>4, <1>5, HandlerAssumption DEF HookTypes
  <2>4. QED
    BY <2>1, <2>3 DEF Table
<1>7. called \in Seq(Calls) /\ \A p : CalledIn(p) = {}
  BY <1>1, NothingCalled, Zenon DEF Init
<1>8. PositionInv
  BY <1>1, <1>4, <1>6, <1>7, HandlerAssumption DEF Init, PositionInv
<1>9. ReturnsInv /\ OrderInv
  BY <1>1, <1>7, Zenon DEF Init, ReturnsInv, OrderInv
<1>10. QED
  BY <1>8, <1>9, Zenon DEF FunctionInv

(* Hooks are numbers, and those called stay the same while the log does.   *)
LEMMA CalledNat ==
  ASSUME called \in Seq(Calls)
  PROVE  \A p : \A h \in CalledIn(p) : h \in Nat
<1>1. SUFFICES ASSUME NEW p, NEW h \in CalledIn(p) PROVE h \in Nat
  OBVIOUS
<1>2. PICK k \in DOMAIN called : h = called[k].hook
  BY DEF CalledIn
<1>3. called[k] \in Calls
  OBVIOUS
<1>4. QED
  BY <1>2, <1>3 DEF Calls

LEMMA SameCalled ==
  ASSUME UNCHANGED called
  PROVE  \A p : CalledIn(p)' = CalledIn(p)
BY DEF CalledIn

-----------------------------------------------------------------------------
(* The steps of the assembly handler keep its invariant.                   *)
LEMMA SaveArgumentsStep ==
  ASSUME FunctionInv, UNCHANGED kind, SaveArguments
  PROVE  FunctionInv'
<1> USE DEF FunctionInv
<1>1. /\ pc = "save" /\ pc' = "loop" /\ arguments' = registers
      /\ hookTypeCurrent' = 0 /\ hookCurrent' = -1
      /\ UNCHANGED <<hook, hookType, returns, registers, called, result>>
  BY Zenon DEF SaveArguments, Goto, table
<1>2. \A p : CalledIn(p)' = CalledIn(p) /\ CalledIn(p) = {}
  BY <1>1, SameCalled, NothingCalled, Zenon DEF PositionInv
<1>3. PositionInv'
  <2>1. \A n : Table(n)' = Table(n)
    BY <1>1 DEF Table
  <2>2. (\E n \in 0..MaxHooks : Table(n))'
    BY <2>1, Zenon DEF PositionInv
  <2>3. QED
    BY <1>1, <2>2, HandlerAssumption DEF PositionInv
<1>4. ReturnsInv'
  BY <1>1, <1>2, Zenon DEF ReturnsInv, PositionInv
<1>5. OrderInv'
  BY <1>1, <1>2 DEF OrderInv, Passed, Phase
<1>6. QED
  BY <1>3, <1>4, <1>5, Zenon

LEMMA NextCellStep ==
  ASSUME FunctionInv, UNCHANGED kind, NextCell
  PROVE  FunctionInv'
<1> USE DEF FunctionInv
<1> DEFINE type == hookType[hookCurrent + 2]
<1>1. /\ pc = "loop" /\ hookCurrent' = hookCurrent + 1
      /\ UNCHANGED <<hook, hookType, hookTypeCurrent, arguments, returns, called, result>>
  BY Zenon DEF NextCell, table
<1>2. \/ type = 0 /\ pc' = "loop_done"
      \/ type # 0 /\ ~RunsIn(type, Phase) /\ pc' = "loop"
      \/ RunsIn(type, Phase) /\ pc' = "call" /\ registers' \in {arguments, Clobbered}
  BY DEF NextCell, Goto
<1>3. PICK n \in 0..MaxHooks : Table(n)
  BY Zenon DEF PositionInv
<1>4. hookCurrent \in -1..MaxHooks - 1
  BY <1>1, HandlerAssumption DEF PositionInv
<1>5. pc' \in {"loop", "call"} => hookCurrent + 1 < MaxHooks
  BY <1>2, <1>3, <1>4, HandlerAssumption DEF Table, RunsIn
<1>6. \A p : CalledIn(p)' = CalledIn(p)
  BY <1>1, SameCalled, Zenon
<1>7. PositionInv'
  <2>1. Table(n)'
    BY <1>1, <1>3 DEF Table
  <2>2. Phase' = Phase /\ hookType' = hookType
    BY <1>1 DEF Phase
  <2>3. pc' = "call" => RunsIn(hookType'[hookCurrent' + 1], Phase')
    BY <1>1, <1>2, <1>4, <2>2
  <2>4. QED
    BY <1>1, <1>2, <1>4, <1>5, <2>1, <2>3, HandlerAssumption DEF PositionInv
<1>8. ReturnsInv'
  BY <1>1, <1>2, <1>6, Zenon DEF ReturnsInv
<1>9. OrderInv'
  <2>1. ASSUME NEW p \in {"pre", "post"}, pc' \in {"loop", "call"}, Phase' = p
        PROVE  /\ \A h \in CalledIn(p) : h <= Passed'
               /\ \A k \in 1..Passed' :
                    hook[k] # NULL /\ RunsIn(hookType[k], p) => k \in CalledIn(p)
    <3>1. Phase = p /\ Passed = hookCurrent + 1
      BY <1>1, <2>1 DEF Phase, Passed
    <3>2. /\ \A h \in CalledIn(p) : h <= hookCurrent + 1
          /\ \A k \in 1..hookCurrent + 1 :
               hook[k] # NULL /\ RunsIn(hookType[k], p) => k \in CalledIn(p)
      BY <1>1, <3>1, Zenon DEF OrderInv
    <3>3. CASE pc' = "call"
      BY <1>1, <3>2, <3>3 DEF Passed
    <3>4. CASE pc' = "loop"
      <4>1. Passed' = hookCurrent + 2 /\ ~RunsIn(hookType[hookCurrent + 2], p)
        BY <1>1, <1>2, <1>4, <3>1, <3>4 DEF Passed
      <4>2. \A h \in CalledIn(p) : h \in Nat
        BY CalledNat, Zenon DEF PositionInv
      <4>3. QED
        BY <3>2, <4>1, <4>2, <1>4
    <3>5. QED
      BY <2>1, <3>3, <3>4
  <2>2. (hookTypeCurrent = 0 \/ pc = "bridge" => CalledIn("post") = {})'
    BY <1>1, <1>2, <1>6 DEF OrderInv
  <2>3. QED
    BY <1>1, <1>6, <2>1, <2>2 DEF OrderInv
<1>10. QED
  BY <1>7, <1>8, <1>9, Zenon

(* The list does not change.                                               *)
LEMMA SameTable ==
  ASSUME PositionInv, UNCHANGED <<hook, hookType>>
  PROVE  (\E n \in 0..MaxHooks : Table(n))'
<1>1. \A n : Table(n)' = Table(n)
  BY DEF Table
<1>2. QED
  BY <1>1, Zenon DEF PositionInv

(* A cell of the list holds its own position or NULL.                      *)
LEMMA CellHook ==
  ASSUME PositionInv, NEW k \in 1..MaxHooks + 1, hook[k] # NULL
  PROVE  hook[k] = k
<1>1. PICK n \in 0..MaxHooks : Table(n)
  BY Zenon DEF PositionInv
<1>2. QED
  BY <1>1 DEF Table

LEMMA CallHookStep ==
  ASSUME FunctionInv, UNCHANGED kind, CallHook
  PROVE  FunctionInv'
<1> USE DEF FunctionInv
<1> DEFINE h == hookCurrent + 1
           seen == IF registers = Clobbered THEN arguments ELSE registers
<1>1. /\ pc = "call"
      /\ UNCHANGED <<hook, hookType, hookCurrent, hookTypeCurrent, result>>
  BY Zenon DEF CallHook, Goto, table
<1>2. hookCurrent \in 0..MaxHooks - 1 /\ seen = arguments /\ arguments \in Nat
  BY <1>1 DEF PositionInv, Clobbered
<1>3. (\E n \in 0..MaxHooks : Table(n))'
  BY <1>1, SameTable
<1>4. CASE hook[h] = NULL
  <2>1. pc' = "loop_done" /\ UNCHANGED <<arguments, returns, registers, called>>
    BY <1>4, Zenon DEF CallHook, Goto
  <2>2. \A p : CalledIn(p)' = CalledIn(p)
    BY <2>1, SameCalled, Zenon
  <2>3. PositionInv'
    BY <1>1, <1>3, <2>1, HandlerAssumption DEF PositionInv
  <2>4. ReturnsInv'
    BY <1>1, <2>1, <2>2, Zenon DEF ReturnsInv
  <2>5. OrderInv'
    BY <1>1, <2>1, <2>2, Zenon DEF OrderInv
  <2>6. QED
    BY <2>3, <2>4, <2>5, Zenon
<1>5. CASE hook[h] # NULL
  <2>1. hook[h] = h /\ h \in Nat \ {0}
    BY <1>2, <1>5, CellHook, HandlerAssumption
  <2>2. PICK control \in Controls : \E rax \in InRax(control) :
          pc' = AfterHook(rax) /\ Log(h, control, seen)
    BY <1>5, <2>1, Zenon DEF CallHook, Goto
  <2>3. pc' \in {"loop", "loop_done", "call_done"}
    BY <2>2 DEF AfterHook
  <2>4. called' = Append(called, [phase |-> Phase, hook |-> h, control |-> control,
                                  arguments |-> arguments])
    BY <1>2, <2>1, <2>2 DEF Log
  <2>5. arguments' \in {arguments, h} /\ returns' \in {returns, h}
    BY <1>5, <2>1, Zenon DEF CallHook
  <2>6. Phase \in {"pre", "post"} /\ Phase' = Phase /\ control \in Int
    BY <1>1, HandlerAssumption DEF Phase
  <2>7. /\ called' \in Seq(Calls)
        /\ \A p : p = Phase => CalledIn(p)' = CalledIn(p) \cup {h}
        /\ \A q : q # Phase => CalledIn(q)' = CalledIn(q)
    <3>1. PICK p \in {"pre", "post"} : p = Phase
      BY <2>6
    <3>2. QED
      BY <1>2, <2>1, <2>4, <2>6, <3>1, AppendCalled DEF PositionInv
  <2>8. PositionInv'
    <3>1. arguments' \in Nat
      BY <1>2, <2>1, <2>5
    <3>2. QED
      BY <1>1, <1>2, <1>3, <2>3, <2>7, <3>1, HandlerAssumption DEF PositionInv
  <2>9. ReturnsInv'
    <3>1. CalledIn("original")' = CalledIn("original")
      BY <2>6, <2>7
    <3>2. CASE hookTypeCurrent = 1
      BY <1>1, <2>3, <2>5, <2>7, <3>1, <3>2 DEF ReturnsInv, Phase
    <3>3. CASE hookTypeCurrent = 0
      BY <1>1, <2>3, <2>5, <2>7, <3>1, <3>3 DEF ReturnsInv, Phase
    <3>4. QED
      BY <3>2, <3>3 DEF PositionInv
  <2>10. OrderInv'
    <3>1. hookTypeCurrent = 0 => CalledIn("post")' = CalledIn("post")
      BY <2>7 DEF Phase
    <3>2. ASSUME NEW p \in {"pre", "post"}, pc' = "loop", Phase = p
          PROVE  /\ \A x \in CalledIn(p)' : x <= h
                 /\ \A k \in 1..h :
                      hook[k] # NULL /\ RunsIn(hookType[k], p) => k \in CalledIn(p)'
      <4>1. Passed = hookCurrent
        BY <1>1 DEF Passed
      <4>2. /\ \A x \in CalledIn(p) : x <= hookCurrent
            /\ \A k \in 1..hookCurrent :
                 hook[k] # NULL /\ RunsIn(hookType[k], p) => k \in CalledIn(p)
        BY <1>1, <3>2, <4>1, Zenon DEF OrderInv
      <4>3. CalledIn(p)' = CalledIn(p) \cup {h} /\ \A x \in CalledIn(p) : x \in Nat
        BY <2>7, <3>2, CalledNat, Zenon DEF PositionInv
      <4>4. QED
        BY <1>2, <4>2, <4>3
    <3>3. pc' = "loop" => Passed' = h
      BY <1>1 DEF Passed
    <3>4. QED
      BY <1>1, <2>3, <2>6, <3>1, <3>2, <3>3 DEF OrderInv
  <2>11. QED
    BY <2>8, <2>9, <2>10, Zenon
<1>6. QED
  BY <1>4, <1>5, Zenon

LEMMA LoopDoneStep ==
  ASSUME FunctionInv, UNCHANGED kind, LoopDone
  PROVE  FunctionInv'
<1> USE DEF FunctionInv
<1>1. /\ pc = "loop_done" /\ registers' = arguments /\ hookTypeCurrent' = 1
      /\ pc' = IF hookTypeCurrent = 0 THEN "bridge" ELSE "call_done"
      /\ UNCHANGED <<hook, hookType, hookCurrent, arguments, returns, called, result>>
  BY Zenon DEF LoopDone, Goto, table
<1>2. \A p : CalledIn(p)' = CalledIn(p)
  BY <1>1, SameCalled, Zenon
<1>3. (\E n \in 0..MaxHooks : Table(n))'
  BY <1>1, SameTable
<1>4. PositionInv'
  BY <1>1, <1>3, HandlerAssumption DEF PositionInv
<1>5. ReturnsInv'
  BY <1>1, <1>2, Zenon DEF ReturnsInv
<1>6. OrderInv'
  BY <1>1, <1>2 DEF OrderInv
<1>7. QED
  BY <1>4, <1>5, <1>6, Zenon

LEMMA CallBridgeStep ==
  ASSUME FunctionInv, UNCHANGED kind, CallBridge
  PROVE  FunctionInv'
<1> USE DEF FunctionInv
<1>1. /\ pc = "bridge" /\ pc' = "loop" /\ returns' = Original /\ hookCurrent' = -1
      /\ UNCHANGED <<hook, hookType, hookTypeCurrent, arguments, result>>
      /\ Log(0, 0, registers)
  BY Zenon DEF CallBridge, Goto, table
<1>2. hookTypeCurrent = 1 /\ CalledIn("post") = {} /\ registers \in Int
  BY <1>1 DEF PositionInv, OrderInv
<1>3. called' = Append(called, [phase |-> "original", hook |-> 0, control |-> 0,
                                arguments |-> registers])
  BY <1>1 DEF Log
<1>4. /\ called' \in Seq(Calls) /\ CalledIn("post")' = {}
      /\ CalledIn("original")' = CalledIn("original") \cup {0}
  BY <1>2, <1>3, AppendCalled DEF PositionInv
<1>5. (\E n \in 0..MaxHooks : Table(n))'
  BY <1>1, SameTable
<1>6. PositionInv'
  BY <1>1, <1>2, <1>4, <1>5, HandlerAssumption DEF PositionInv
<1>7. ReturnsInv'
  BY <1>1, <1>2, <1>4, Zenon DEF ReturnsInv
<1>8. OrderInv'
  BY <1>1, <1>2, <1>4 DEF OrderInv, Phase, Passed
<1>9. QED
  BY <1>6, <1>7, <1>8, Zenon

LEMMA CallDoneStep ==
  ASSUME FunctionInv, UNCHANGED kind, CallDone
  PROVE  FunctionInv'
<1> USE DEF FunctionInv
<1>1. /\ pc = "call_done" /\ pc' = "returned" /\ result' = returns
      /\ UNCHANGED <<hook, hookType, hookCurrent, hookTypeCurrent, arguments, returns,
                     registers, called>>
  BY Zenon DEF CallDone, Goto, table
<1>2. \A p : CalledIn(p)' = CalledIn(p)
  BY <1>1, SameCalled, Zenon
<1>3. (\E n \in 0..MaxHooks : Table(n))'
  BY <1>1, SameTable
<1>4. PositionInv'
  BY <1>1, <1>3, HandlerAssumption DEF PositionInv
<1>5. ReturnsInv' /\ OrderInv'
  BY <1>1, <1>2, Zenon DEF ReturnsInv, OrderInv
<1>6. QED
  BY <1>4, <1>5, Zenon

-----------------------------------------------------------------------------
(* What the caller of a hooked function gets.                              *)
LEMMA FunctionStep ==
  ASSUME FunctionInv, kind = "function", [HandlerNext]_handlerVars
  PROVE  FunctionInv'
<1>1. CASE Next /\ UNCHANGED kind
  BY <1>1, SaveArgumentsStep, NextCellStep, CallHookStep, LoopDoneStep, CallBridgeStep,
     CallDoneStep, Zenon DEF Next
<1>2. CASE UNCHANGED handlerVars
  <2>1. UNCHANGED <<hook, hookType, hookCurrent, hookTypeCurrent, arguments, returns,
                    registers, pc, called, result, kind>>
    BY <1>2, Zenon DEF handlerVars, vars
  <2>2. \A p : CalledIn(p)' = CalledIn(p)
    BY <2>1, SameCalled, Zenon
  <2>3. (\E n \in 0..MaxHooks : Table(n))'
    BY <2>1, SameTable, Zenon DEF FunctionInv
  <2>4. Phase' = Phase /\ Passed' = Passed
    BY <2>1, Zenon DEF Phase, Passed
  <2>5. PositionInv'
    BY <2>1, <2>3, <2>4, Zenon DEF FunctionInv, PositionInv
  <2>6. ReturnsInv' /\ OrderInv'
    BY <2>1, <2>2, <2>4, Zenon DEF FunctionInv, ReturnsInv, OrderInv
  <2>7. QED
    BY <2>5, <2>6, Zenon DEF FunctionInv
<1>3. QED
  BY <1>1, <1>2, Zenon DEF HandlerNext

(* The kind of a call never changes.                                       *)
LEMMA KindStep ==
  ASSUME [HandlerNext]_handlerVars
  PROVE  UNCHANGED kind
BY Zenon DEF HandlerNext, handlerVars

(* ResultFromLastCallee, for lists of any length, with any types and any   *)
(* controls: the caller of a function gets what the original, a posthook   *)
(* or, when the original was not called, some hook wrote last.             *)
THEOREM ResultCorrect == HandlerSpec => []ResultFromLastCallee
<1> DEFINE Inv == kind = "function" => FunctionInv
<1>1. HandlerInit => Inv
  BY FunctionInit, Zenon
<1>2. Inv /\ [HandlerNext]_handlerVars => Inv'
  BY FunctionStep, KindStep, Zenon
<1>3. Inv => ResultFromLastCallee
  <2>1. SUFFICES ASSUME FunctionInv, pc = "returned"
                 PROVE  ResultFromLastCallee
    BY Zenon DEF ResultFromLastCallee
  <2> DEFINE original == {k \in DOMAIN called : called[k].phase = "original"}
             posts == {j \in DOMAIN called : called[j].phase = "post"}
  <2>2. result = returns
    BY <2>1, Zenon DEF FunctionInv, ReturnsInv
  <2>3. CalledIn("original") = {} <=> original = {}
    BY Zenon DEF CalledIn
  <2>4. CalledIn("pre") \cup CalledIn("post") \subseteq {called[k].hook : k \in DOMAIN called}
    BY Zenon DEF CalledIn
  <2>5. CalledIn("post") = {called[k].hook : k \in posts}
    BY Zenon DEF CalledIn
  <2>6. CASE original = {}
    BY <2>1, <2>2, <2>3, <2>4, <2>6, Zenon DEF FunctionInv, ReturnsInv, ResultFromLastCallee
  <2>7. CASE original # {}
    BY <2>1, <2>2, <2>3, <2>5, <2>7, Zenon DEF FunctionInv, ReturnsInv, ResultFromLastCallee
  <2>8. QED
    BY <2>6, <2>7, Zenon
<1>4. QED
  BY <1>1, <1>2, <1>3, PTL DEF HandlerSpec

-----------------------------------------------------------------------------
(* The refinement mapping: the list and the phase that HookChain sees.     *)
ChainType == IF kind = "function" THEN [k \in Registered |-> hookType[k]] ELSE hookType
ChainPhase == IF kind = "function" THEN FunctionPhase ELSE SystemCall!SystemCallPhase

LEMMA ChainInit ==
  ASSUME ChainType \in Seq(HookTypes), ChainPhase = "pre", arguments = 0, returns = 0,
         called = <<>>
  PROVE  Promise!Init
BY DEF Promise!Init, ChainType, ChainPhase, Promise!HookTypes, HookTypes

LEMMA ChainStutter ==
  ASSUME UNCHANGED <<ChainType, ChainPhase, arguments, returns, called>>
  PROVE  UNCHANGED Promise!vars
BY Zenon DEF Promise!vars, ChainType, ChainPhase

LEMMA ChainNoneLeft ==
  ASSUME ChainPhase \in {"pre", "post"}, Promise!Left = {},
         ChainPhase' = IF ChainPhase = "pre" THEN "original" ELSE "done",
         UNCHANGED <<ChainType, arguments, returns, called>>
  PROVE  Promise!Next
BY Zenon DEF Promise!Next, Promise!NoneLeft, ChainType, ChainPhase

LEMMA ChainCallOriginal ==
  ASSUME ChainPhase = "original", ChainPhase' = "post", returns' = Original,
         called' = Append(called, [phase |-> "original", hook |-> 0, control |-> 0,
                                   arguments |-> arguments]),
         UNCHANGED <<ChainType, arguments>>
  PROVE  Promise!Next
BY Zenon DEF Promise!Next, Promise!CallOriginal, Promise!Entry, Promise!Original, Original,
             ChainType, ChainPhase

LEMMA ChainCallHook ==
  ASSUME ChainPhase \in {"pre", "post"},
         NEW h \in Promise!Left, \A k \in Promise!Left : h <= k, NEW control \in {-1, 0, 1},
         called' = Append(called, [phase |-> ChainPhase, hook |-> h, control |-> control,
                                   arguments |-> arguments]),
         ChainPhase' = IF control = 0 THEN ChainPhase
                       ELSE IF control = 1 /\ ChainPhase = "pre" THEN "original" ELSE "done",
         arguments' \in {arguments, h}, returns' \in {returns, h}, UNCHANGED ChainType
  PROVE  Promise!Next
<1>1. ChainPhase' = CASE control = 0 -> ChainPhase
                      [] control = 1 /\ ChainPhase = "pre" -> "original"
                      [] OTHER -> "done"
  OBVIOUS
<1>2. Promise!CallHook
  BY <1>1, Zenon DEF Promise!CallHook, Promise!Entry, Promise!HookControls, ChainType, ChainPhase
<1>3. QED
  BY <1>2, Zenon DEF Promise!Next

(* What is left for HookChain to call are the hooks of the phase behind    *)
(* all those called in it.                                                 *)
LEMMA ChainLeft ==
  ASSUME NEW k
  PROVE  k \in Promise!Left <=> /\ k \in DOMAIN ChainType /\ RunsIn(ChainType[k], ChainPhase)
                                /\ \A h \in CalledIn(ChainPhase) : h < k
<1>1. \A p, h : h \in CalledIn(p) <=>
                  \E j \in DOMAIN called : called[j].phase = p /\ h = called[j].hook
  BY DEF CalledIn
<1>2. (\A h \in CalledIn(ChainPhase) : h < k)
      <=> \A j \in DOMAIN called : called[j].phase = ChainPhase => called[j].hook < k
  BY <1>1
<1>3. k \in Promise!Left <=>
        /\ k \in DOMAIN ChainType /\ RunsIn(ChainType[k], ChainPhase)
        /\ \A j \in DOMAIN called : called[j].phase = ChainPhase => called[j].hook < k
  BY Zenon DEF Promise!Left, ChainType, ChainPhase, RunsIn, Promise!RunsIn
<1>4. QED
  BY <1>2, <1>3, Zenon

-----------------------------------------------------------------------------
(* No hook of a function's list is disabled.                               *)
Enabled == \A k \in 1..MaxHooks + 1 : hook[k] # NULL => hookType[k] # 0

LEMMA FunctionMapping ==
  ASSUME FunctionInv
  PROVE  /\ ChainType = [k \in Registered |-> hookType[k]] /\ ChainPhase = FunctionPhase
         /\ Phase \in {"pre", "post"} /\ Registered \subseteq 1..MaxHooks
         /\ pc \in {"save", "loop", "call"} => FunctionPhase = Phase
         /\ pc = "loop_done" => FunctionPhase = IF Phase = "pre" THEN "original" ELSE "done"
         /\ pc = "bridge" => FunctionPhase = "original"
         /\ pc \in {"call_done", "returned"} => FunctionPhase = "done"
<1>1. kind = "function" /\ hookTypeCurrent \in {0, 1}
  BY Zenon DEF FunctionInv, PositionInv
<1>2. ChainType = [k \in Registered |-> hookType[k]] /\ ChainPhase = FunctionPhase
  BY <1>1, Zenon DEF ChainType, ChainPhase
<1>3. Registered \subseteq 1..MaxHooks
  <2>1. PICK n \in 0..MaxHooks : Table(n)
    BY Zenon DEF FunctionInv, PositionInv
  <2>2. QED
    BY <2>1, HandlerAssumption DEF Table, Registered
<1>4. QED
  BY <1>1, <1>2, <1>3 DEF FunctionPhase, Phase

LEMMA FunctionLeft ==
  ASSUME FunctionInv, pc \in {"loop", "call"}, NEW k
  PROVE  k \in Promise!Left <=>
           k \in Registered /\ RunsIn(hookType[k], Phase) /\ Passed < k
<1>1. k \in Promise!Left <=> /\ k \in Registered /\ RunsIn(hookType[k], Phase)
                             /\ \A h \in CalledIn(Phase) : h < k
  <2>1. ChainType = [j \in Registered |-> hookType[j]] /\ ChainPhase = Phase
    BY FunctionMapping, Zenon
  <2>2. QED
    BY <2>1, ChainLeft, Zenon
<1>2. PICK p \in {"pre", "post"} : p = Phase
  BY FunctionMapping, Zenon
<1>3. /\ \A h \in CalledIn(p) : h <= Passed /\ h \in Nat
      /\ \A j \in 1..Passed : hook[j] # NULL /\ RunsIn(hookType[j], p) => j \in CalledIn(p)
  BY <1>2, CalledNat, Zenon DEF FunctionInv, OrderInv, PositionInv
<1>4. k \in Registered => k \in 1..MaxHooks /\ hook[k] # NULL
  BY FunctionMapping, Zenon DEF Registered
<1>5. Passed \in Int
  BY DEF FunctionInv, PositionInv, Passed
<1>6. QED
  BY <1>1, <1>2, <1>3, <1>4, <1>5, HandlerAssumption

(* Behind an empty cell there are no hooks.                                *)
LEMMA FunctionNoneLeft ==
  ASSUME FunctionInv, pc \in {"loop", "call"}, Passed + 1 \in 1..MaxHooks + 1,
         hook[Passed + 1] = NULL
  PROVE  Promise!Left = {}
<1>1. PICK n \in 0..MaxHooks : Table(n)
  BY Zenon DEF FunctionInv, PositionInv
<1>2. Passed \in Int
  BY DEF FunctionInv, PositionInv, Passed
<1>3. ASSUME NEW k \in Registered PROVE k <= Passed /\ k \in Nat
  BY <1>1, <1>2, <1>3, HandlerAssumption DEF Table, Registered
<1>4. QED
  BY <1>2, <1>3, FunctionLeft

(* Every step of the assembly handler is a step of HookChain or none.      *)
LEMMA FunctionRefines ==
  ASSUME FunctionInv, FunctionInv', Enabled, SignExtends, UNCHANGED kind, Next
  PROVE  Promise!Next \/ UNCHANGED Promise!vars
<1>1. UNCHANGED <<hook, hookType>>
  BY Zenon DEF Next, SaveArguments, NextCell, CallHook, LoopDone, CallBridge, CallDone, table
<1>2. UNCHANGED ChainType
  BY <1>1, Zenon DEF ChainType, Registered
<1>3. CASE SaveArguments
  <2>1. /\ pc = "save" /\ pc' = "loop" /\ hookTypeCurrent' = 0 /\ arguments' = registers
        /\ UNCHANGED <<returns, called>>
    BY <1>3, Zenon DEF SaveArguments, Goto
  <2>2. Phase' = Phase /\ UNCHANGED arguments /\ kind = "function" /\ kind' = "function"
    BY <2>1, Zenon DEF FunctionInv, PositionInv, Phase
  <2>3. UNCHANGED ChainPhase
    BY <2>1, <2>2, FunctionMapping DEF ChainPhase, FunctionPhase
  <2>4. QED
    BY <1>2, <2>1, <2>2, <2>3, ChainStutter, Zenon
<1>4. CASE NextCell
  <2>1. /\ pc = "loop" /\ UNCHANGED <<hookTypeCurrent, arguments, returns, called>>
        /\ \/ pc' = "loop_done" /\ hookType[hookCurrent + 2] = 0
           \/ pc' \in {"loop", "call"}
    BY <1>4, Zenon DEF NextCell, Goto
  <2>2. Phase' = Phase /\ ChainPhase = Phase /\ Phase \in {"pre", "post"} /\ kind' = "function"
    BY <2>1, FunctionMapping, Zenon DEF Phase, FunctionInv, PositionInv
  <2>3. CASE pc' \in {"loop", "call"}
    <3>1. UNCHANGED ChainPhase
      BY <2>2, <2>3 DEF ChainPhase, FunctionPhase
    <3>2. QED
      BY <1>2, <2>1, <3>1, ChainStutter, Zenon
  <2>4. CASE pc' = "loop_done" /\ hookType[hookCurrent + 2] = 0
    <3>1. Passed + 1 \in 1..MaxHooks + 1 /\ Passed + 1 = hookCurrent + 2
      BY <2>1, HandlerAssumption DEF Passed, FunctionInv, PositionInv
    <3>2. hook[Passed + 1] = NULL
      BY <2>4, <3>1 DEF Enabled
    <3>3. ChainPhase' = IF ChainPhase = "pre" THEN "original" ELSE "done"
      BY <2>1, <2>2, <2>4 DEF ChainPhase, FunctionPhase, Phase
    <3>4. Promise!Left = {}
      BY <2>1, <3>1, <3>2, FunctionNoneLeft
    <3>5. QED
      BY <1>2, <2>1, <2>2, <3>3, <3>4, ChainNoneLeft
  <2>5. QED
    BY <2>1, <2>3, <2>4, Zenon
<1>5. CASE LoopDone \/ CallDone
  <2>1. /\ UNCHANGED <<arguments, returns, called>>
        /\ \/ /\ pc = "loop_done" /\ hookTypeCurrent' = 1
              /\ pc' = IF hookTypeCurrent = 0 THEN "bridge" ELSE "call_done"
           \/ pc = "call_done" /\ pc' = "returned"
    BY <1>5, Zenon DEF LoopDone, CallDone, Goto
  <2>2. UNCHANGED ChainPhase
    BY <2>1, FunctionMapping DEF ChainPhase, FunctionPhase, FunctionInv, PositionInv, Phase
  <2>3. QED
    BY <1>2, <2>1, <2>2, ChainStutter, Zenon
<1>6. CASE CallBridge
  <2>1. /\ pc = "bridge" /\ pc' = "loop" /\ returns' = Original
        /\ UNCHANGED <<arguments, hookTypeCurrent>> /\ Log(0, 0, registers)
    BY <1>6, Zenon DEF CallBridge, Goto
  <2>2. registers = arguments /\ hookTypeCurrent = 1 /\ kind' = "function"
    BY <2>1, Zenon DEF FunctionInv, PositionInv
  <2>3. called' = Append(called, [phase |-> "original", hook |-> 0, control |-> 0,
                                  arguments |-> arguments])
    BY <2>1, <2>2 DEF Log
  <2>4. ChainPhase = "original" /\ ChainPhase' = "post"
    BY <2>1, <2>2, FunctionMapping DEF ChainPhase, FunctionPhase, Phase
  <2>5. QED
    BY <1>2, <2>1, <2>3, <2>4, ChainCallOriginal
<1>7. CASE CallHook
  <2> DEFINE h == hookCurrent + 1
             seen == IF registers = Clobbered THEN arguments ELSE registers
  <2>1. pc = "call" /\ UNCHANGED hookTypeCurrent /\ kind' = "function"
    BY <1>7, Zenon DEF CallHook, Goto, FunctionInv, PositionInv
  <2>2. /\ hookCurrent \in Int /\ h \in 1..MaxHooks /\ seen = arguments /\ Passed = hookCurrent
        /\ RunsIn(hookType[h], Phase)
    BY <2>1, HandlerAssumption DEF FunctionInv, PositionInv, Clobbered, Passed
  <2>3. Phase' = Phase /\ ChainPhase = Phase /\ Phase \in {"pre", "post"}
    BY <2>1, FunctionMapping, Zenon DEF Phase
  <2>4. CASE hook[h] = NULL
    <3>1. pc' = "loop_done" /\ UNCHANGED <<arguments, returns, called>>
      BY <1>7, <2>4, Zenon DEF CallHook, Goto
    <3>2. Promise!Left = {}
      BY <2>1, <2>2, <2>4, HandlerAssumption, FunctionNoneLeft
    <3>3. ChainPhase' = IF ChainPhase = "pre" THEN "original" ELSE "done"
      BY <2>1, <2>3, <3>1 DEF ChainPhase, FunctionPhase, Phase
    <3>4. QED
      BY <1>2, <2>3, <3>1, <3>2, <3>3, ChainNoneLeft
  <2>5. CASE hook[h] # NULL
    <3>1. hook[h] = h /\ h # 0
      BY <2>2, <2>5, CellHook, HandlerAssumption DEF FunctionInv
    <3>2. PICK control \in Controls : \E rax \in InRax(control) :
            pc' = AfterHook(rax) /\ Log(h, control, seen)
      BY <1>7, <2>5, <3>1, Zenon DEF CallHook, Goto
    <3>3. control \in {-1, 0, 1} /\ pc' = AfterHook(control) /\ Log(h, control, seen)
      BY <3>2, HandlerAssumption DEF InRax
    <3>4. called' = Append(called, [phase |-> Phase, hook |-> h, control |-> control,
                                    arguments |-> arguments])
      BY <2>2, <3>1, <3>3 DEF Log
    <3>5. arguments' \in {arguments, h} /\ returns' \in {returns, h}
      BY <1>7, <2>5, <3>1, Zenon DEF CallHook
    <3>6. h \in Promise!Left /\ \A k \in Promise!Left : h <= k
      <4>1. h \in Registered
        <5>1. DOMAIN hook = 1..MaxHooks + 1
          BY DEF FunctionInv, PositionInv, Table
        <5>2. QED
          BY <2>2, <2>5, <5>1, HandlerAssumption DEF Registered
      <4>2. h \in Promise!Left
        BY <2>1, <2>2, <4>1, FunctionLeft
      <4>3. ASSUME NEW k \in Promise!Left PROVE h <= k
        <5>1. k \in Registered /\ Passed < k
          BY <2>1, <4>3, FunctionLeft, Zenon
        <5>2. k \in 1..MaxHooks
          BY <5>1, FunctionMapping, Zenon
        <5>3. QED
          BY <2>2, <5>1, <5>2, HandlerAssumption
      <4>4. QED
        BY <4>2, <4>3, Zenon
    <3>7. ChainPhase' = IF control = 0 THEN ChainPhase
                        ELSE IF control = 1 /\ ChainPhase = "pre" THEN "original" ELSE "done"
      BY <2>1, <2>3, <3>3 DEF AfterHook, ChainPhase, FunctionPhase, Phase
    <3>8. QED
      BY Zenon, <1>2, <2>3, <3>3, <3>4, <3>5, <3>6, <3>7, ChainCallHook
  <2>6. QED
    BY <2>4, <2>5, Zenon
<1>8. QED
  BY <1>3, <1>4, <1>5, <1>6, <1>7, Zenon DEF Next

-----------------------------------------------------------------------------
LEMMA SystemCallMapping ==
  ASSUME SystemCallInv
  PROVE  /\ ChainType = hookType /\ ChainPhase = SystemCall!SystemCallPhase
         /\ DOMAIN hookType = 1..Len(hookType) /\ Len(hookType) \in Nat
BY DEF SystemCallInv, ChainType, ChainPhase

LEMMA SystemCallLeft ==
  ASSUME SystemCallInv, pc \in {"pre", "post"}, NEW k
  PROVE  k \in Promise!Left <=>
           k \in 1..Len(hookType) /\ RunsIn(hookType[k], pc) /\ i < k
<1>1. PICK p \in {"pre", "post"} : p = pc
  OBVIOUS
<1>2. ChainPhase = p
  BY <1>1, SystemCallMapping DEF SystemCall!SystemCallPhase
<1>3. k \in Promise!Left <=> /\ k \in 1..Len(hookType) /\ RunsIn(hookType[k], p)
                             /\ \A h \in CalledIn(p) : h < k
  BY <1>2, SystemCallMapping, ChainLeft, Zenon
<1>4. /\ \A h \in CalledIn(p) : h <= i /\ h \in Nat
      /\ \A j \in 1..i : RunsIn(hookType[j], p) => j \in CalledIn(p)
  BY <1>1, CalledNat, Zenon DEF SystemCallInv
<1>5. i \in Nat /\ Len(hookType) \in Nat
  BY DEF SystemCallInv
<1>6. QED
  BY <1>1, <1>3, <1>4, <1>5

(* One turn of a loop of the C handler.                                    *)
LEMMA TurnStep ==
  ASSUME SystemCallInv, UNCHANGED kind, 1 \notin SystemCallControls,
         NEW p \in {"pre", "post"}, NEW types, NEW after \in {"original", "free"},
         after = "original" <=> p = "pre",
         \A x \in HookTypes : x \in types <=> RunsIn(x, p),
         SystemCall!Turn(p, types, after)
  PROVE  SystemCallInv' /\ (Promise!Next \/ UNCHANGED Promise!vars)
<1>1. pc = p /\ i < Len(hookType) /\ UNCHANGED hookType
  BY Zenon DEF SystemCall!Turn, SystemCall!hookCount
<1>2. /\ kind = "system_call" /\ kind' = "system_call" /\ i \in Nat /\ Len(hookType) \in Nat
      /\ hookType \in Seq(HookTypes) /\ arguments \in Nat /\ r = 0 /\ called \in Seq(Calls)
      /\ p = "pre" => CalledIn("post") = {}
  BY <1>1 DEF SystemCallInv
<1>3. /\ \A h \in CalledIn(p) : h <= i /\ h \in Nat
      /\ \A k \in 1..i : RunsIn(hookType[k], p) => k \in CalledIn(p)
  BY <1>1, CalledNat, Zenon DEF SystemCallInv
<1>4. i + 1 \in 1..Len(hookType) /\ hookType[i + 1] \in HookTypes
  BY <1>1, <1>2
<1>5. IF r' = 0 THEN i' = i + 1 /\ pc' = p ELSE i' = i /\ pc' = after
  BY Zenon DEF SystemCall!Turn
<1>6. ChainPhase = p /\ UNCHANGED ChainType
  <2>1. ChainPhase = p
    BY <1>1, SystemCallMapping DEF SystemCall!SystemCallPhase
  <2>2. QED
    BY <1>1, <1>2, <2>1, Zenon DEF ChainType
<1>7. CASE hookType[i + 1] \notin types
  <2>1. UNCHANGED <<r, arguments, returns, called>>
    BY <1>7, Zenon DEF SystemCall!Turn
  <2>2. r' = 0 /\ i' = i + 1 /\ pc' = p
    BY <1>2, <1>5, <2>1
  <2>3. \A q : CalledIn(q)' = CalledIn(q)
    BY <2>1, SameCalled, Zenon
  <2>4. ~RunsIn(hookType[i + 1], p)
    BY <1>4, <1>7
  <2>5. /\ \A h \in CalledIn(p) : h <= i + 1
        /\ \A k \in 1..i + 1 : RunsIn(hookType[k], p) => k \in CalledIn(p)
    BY <1>2, <1>3, <2>4
  <2>6. SystemCallInv'
    BY <1>1, <1>2, <1>4, <2>1, <2>2, <2>3, <2>5 DEF SystemCallInv
  <2>7. UNCHANGED ChainPhase
    BY <1>2, <1>6, <2>2 DEF ChainPhase, SystemCall!SystemCallPhase
  <2>8. QED
    BY <1>6, <2>1, <2>6, <2>7, ChainStutter, Zenon
<1>8. CASE hookType[i + 1] \in types
  <2>1. PICK control \in SystemCallControls :
          r' = control /\ SystemCall!Log(p, i + 1, control)
    BY <1>8, Zenon DEF SystemCall!Turn
  <2>2. control \in {-1, 0} /\ r' = control
    BY <2>1, SystemCallAssumption
  <2>3. called' = Append(called, [phase |-> p, hook |-> i + 1, control |-> control,
                                  arguments |-> arguments])
    BY <2>1, Zenon DEF SystemCall!Log
  <2>4. arguments' \in {arguments, i + 1} /\ returns' \in {returns, i + 1}
    BY <1>8, Zenon DEF SystemCall!Turn
  <2>5. /\ called' \in Seq(Calls) /\ CalledIn(p)' = CalledIn(p) \cup {i + 1}
        /\ \A q : q # p => CalledIn(q)' = CalledIn(q)
    BY <1>2, <2>2, <2>3, AppendCalled
  <2>6. RunsIn(hookType[i + 1], p)
    BY <1>4, <1>8
  <2>7. /\ \A h \in CalledIn(p)' : h <= i + 1
        /\ \A k \in 1..i + 1 : RunsIn(hookType[k], p) => k \in CalledIn(p)'
    BY <1>2, <1>3, <2>5
  <2>8. SystemCallInv'
    BY <1>1, <1>2, <1>4, <1>5, <2>2, <2>4, <2>5, <2>7 DEF SystemCallInv
  <2>9. i + 1 \in Promise!Left /\ \A k \in Promise!Left : i + 1 <= k
    BY <1>1, <1>2, <1>4, <2>6, SystemCallLeft
  <2>10. ChainPhase' = IF control = 0 THEN ChainPhase
                       ELSE IF control = 1 /\ ChainPhase = "pre" THEN "original" ELSE "done"
    BY <1>2, <1>5, <1>6, <2>2 DEF ChainPhase, SystemCall!SystemCallPhase
  <2>11. Promise!Next
    BY Zenon, <1>6, <2>2, <2>3, <2>4, <2>9, <2>10, ChainCallHook
  <2>12. QED
    BY <2>8, <2>11, Zenon
<1>9. QED
  BY <1>7, <1>8, Zenon

LEMMA SystemCallStep ==
  ASSUME SystemCallInv, UNCHANGED kind, 1 \notin SystemCallControls, SystemCall!Next
  PROVE  SystemCallInv' /\ (Promise!Next \/ UNCHANGED Promise!vars)
<1>1. CASE SystemCall!PreTurn
  <2>1. SystemCall!Turn("pre", {-1, 1, 3}, "original")
    BY <1>1, Zenon DEF SystemCall!PreTurn
  <2>2. \A x \in HookTypes : x \in {-1, 1, 3} <=> RunsIn(x, "pre")
    BY DEF HookTypes, RunsIn
  <2>3. QED
    BY <2>1, <2>2, TurnStep
<1>2. CASE SystemCall!PostTurn
  <2>1. SystemCall!Turn("post", {2, 3}, "free")
    BY <1>2, Zenon DEF SystemCall!PostTurn
  <2>2. \A x \in HookTypes : x \in {2, 3} <=> RunsIn(x, "post")
    BY DEF HookTypes, RunsIn
  <2>3. QED
    BY <2>1, <2>2, TurnStep
<1>3. CASE SystemCall!LoopEnd
  <2>1. /\ i >= Len(hookType)
        /\ UNCHANGED <<hookType, i, r, arguments, returns, called>>
        /\ (pc = "pre" /\ pc' = "original") \/ (pc = "post" /\ pc' = "free")
    BY <1>3 DEF SystemCall!LoopEnd, SystemCall!Goto, SystemCall!hookCount
  <2>2. \A q : CalledIn(q)' = CalledIn(q)
    BY <2>1, SameCalled, Zenon
  <2>3. SystemCallInv'
    BY <2>1, <2>2 DEF SystemCallInv
  <2>4. ChainPhase = pc /\ r = 0 /\ kind' = "system_call"
    BY <2>1, SystemCallMapping DEF SystemCall!SystemCallPhase, SystemCallInv
  <2>5. ChainPhase' = IF ChainPhase = "pre" THEN "original" ELSE "done"
    BY <2>1, <2>4 DEF ChainPhase, SystemCall!SystemCallPhase
  <2>6. Promise!Left = {}
    BY <2>1, SystemCallLeft DEF SystemCallInv
  <2>7. UNCHANGED ChainType
    BY <2>1, <2>4, Zenon DEF ChainType, SystemCallInv
  <2>8. Promise!Next
    BY <2>1, <2>4, <2>5, <2>6, <2>7, ChainNoneLeft
  <2>9. QED
    BY <2>3, <2>8, Zenon
<1>4. CASE SystemCall!CallOriginal
  <2>1. pc = "original" /\ UNCHANGED <<hookType, r, arguments>>
    BY <1>4, Zenon DEF SystemCall!CallOriginal, SystemCall!Goto
  <2>2. /\ kind = "system_call" /\ kind' = "system_call" /\ r \in {-1, 0}
        /\ CalledIn("post") = {} /\ called \in Seq(Calls) /\ arguments \in Nat
    BY <2>1 DEF SystemCallInv
  <2>3. UNCHANGED ChainType
    BY <2>1, <2>2, Zenon DEF ChainType
  <2>4. CASE r = 0
    <3>1. /\ pc' = "post" /\ returns' = Original /\ i' = 0
          /\ called' = Append(called, [phase |-> "original", hook |-> 0, control |-> 0,
                                       arguments |-> arguments])
      BY <1>4, <2>4 DEF SystemCall!CallOriginal, SystemCall!Goto, SystemCall!Log,
                        SystemCall!Original, Original
    <3>2. called' \in Seq(Calls) /\ CalledIn("post")' = {}
      BY <2>2, <3>1, AppendCalled
    <3>3. SystemCallInv'
      BY <2>1, <2>2, <2>4, <3>1, <3>2, SystemCallMapping DEF SystemCallInv
    <3>4. ChainPhase = "original" /\ ChainPhase' = "post"
      BY <2>1, <2>2, <2>4, <3>1 DEF ChainPhase, SystemCall!SystemCallPhase
    <3>5. QED
      BY <2>1, <2>3, <3>1, <3>3, <3>4, ChainCallOriginal
  <2>5. CASE r = -1
    <3>1. pc' = "free" /\ UNCHANGED <<i, returns, called>>
      BY <1>4, <2>5 DEF SystemCall!CallOriginal, SystemCall!Goto
    <3>2. SystemCallInv'
      BY <2>1, <2>2, <3>1 DEF SystemCallInv
    <3>3. UNCHANGED ChainPhase
      BY <2>1, <2>2, <2>5, <3>1 DEF ChainPhase, SystemCall!SystemCallPhase
    <3>4. QED
      BY <2>1, <2>3, <3>1, <3>2, <3>3, ChainStutter, Zenon
  <2>6. QED
    BY <2>2, <2>4, <2>5
<1>5. CASE SystemCall!FreeClone \/ SystemCall!Return
  <2>1. /\ pc \in {"free", "freed"} /\ pc' \in {"freed", "returned"}
        /\ UNCHANGED <<hookType, i, r, arguments, returns, called>>
    BY <1>5 DEF SystemCall!FreeClone, SystemCall!Return, SystemCall!Goto
  <2>2. SystemCallInv'
    BY <2>1 DEF SystemCallInv
  <2>3. UNCHANGED <<ChainType, ChainPhase>>
    BY <2>1 DEF SystemCallInv, ChainType, ChainPhase, SystemCall!SystemCallPhase
  <2>4. QED
    BY <2>1, <2>2, <2>3, ChainStutter, Zenon
<1>6. QED
  BY <1>1, <1>2, <1>3, <1>4, <1>5, Zenon DEF SystemCall!Next

-----------------------------------------------------------------------------
LEMMA SystemCallInit ==
  ASSUME HandlerInit, kind = "system_call"
  PROVE  SystemCallInv /\ Promise!Init
<1>1. SystemCall!Init
  BY Zenon DEF HandlerInit
<1>2. PICK m \in 0..MaxHooks : hookType \in [1..m -> HookTypes]
  BY <1>1 DEF SystemCall!Init, SystemCall!HookTypes, HookTypes
<1>3. hookType \in Seq(HookTypes) /\ Len(hookType) \in Nat
  BY <1>2, SegmentIsSequence, HandlerAssumption
<1>4. called \in Seq(Calls) /\ \A p : CalledIn(p) = {}
  BY <1>1, NothingCalled, Zenon DEF SystemCall!Init
<1>5. SystemCallInv
  BY <1>1, <1>3, <1>4 DEF SystemCall!Init, SystemCallInv
<1>6. ChainType = hookType /\ ChainPhase = "pre"
  BY <1>1 DEF SystemCall!Init, ChainType, ChainPhase, SystemCall!SystemCallPhase
<1>7. QED
  BY <1>1, <1>3, <1>5, <1>6, ChainInit DEF SystemCall!Init

LEMMA FunctionChainInit ==
  ASSUME HandlerInit, kind = "function", 0 \notin Types
  PROVE  Enabled /\ Promise!Init
<1>1. Init /\ FunctionInv
  BY FunctionInit, Zenon DEF HandlerInit
<1>2. PICK m \in 0..MaxHooks :
        \E n \in 0..m, types \in [1..m -> Types] : Clone(n, types)
  BY <1>1, Zenon DEF Init
<1>3. PICK n \in 0..m, types \in [1..m -> Types] : Clone(n, types)
  BY <1>2, Zenon
<1>4. m \in Nat /\ n \in 0..MaxHooks /\ Len(types) = m
  BY <1>3, SegmentIsSequence, HandlerAssumption
<1>5. /\ hook = [k \in 1..MaxHooks + 1 |-> IF k <= n THEN k ELSE NULL]
      /\ hookType = [k \in 1..MaxHooks + 1 |-> IF k <= m THEN types[k] ELSE 0]
  BY <1>3, <1>4 DEF Clone
<1>6. Enabled
  BY <1>4, <1>5 DEF Enabled
<1>7. Registered = 1..n
  <2>1. \A k : k \in Registered <=> k \in 1..MaxHooks + 1 /\ hook[k] # NULL
    BY <1>5 DEF Registered
  <2>2. n \in Nat /\ MaxHooks \in Nat /\ n <= MaxHooks /\ NULL \notin 1..MaxHooks
    BY <1>4, HandlerAssumption
  <2>3. ASSUME NEW k \in 1..n PROVE k \in Registered
    <3>1. k \in 1..MaxHooks + 1 /\ k <= n /\ k # NULL
      BY <2>2
    <3>2. QED
      BY Zenon, <1>5, <2>1, <3>1
  <2>4. ASSUME NEW k \in Registered PROVE k \in 1..n
    <3>1. k \in 1..MaxHooks + 1 /\ hook[k] # NULL
      BY <2>1
    <3>2. hook[k] = IF k <= n THEN k ELSE NULL
      BY <1>5, <3>1
    <3>3. k <= n
      BY <3>1, <3>2
    <3>4. QED
      BY <2>2, <3>1, <3>3
  <2>5. QED
    BY Zenon, <2>3, <2>4
<1>8. [k \in 1..n |-> hookType[k]] \in [1..n -> HookTypes]
  <2>1. \A k \in 1..n : hookType[k] \in HookTypes
    BY <1>4, <1>5, HandlerAssumption
  <2>2. QED
    BY <2>1, Zenon
<1>9. ChainType \in Seq(HookTypes)
  <2>1. ChainType = [k \in 1..n |-> hookType[k]]
    BY <1>1, <1>7, FunctionMapping, Zenon
  <2>2. n \in Nat
    BY <1>4, HandlerAssumption
  <2>3. QED
    BY <1>8, <2>1, <2>2, SegmentIsSequence, Zenon
<1>10. ChainPhase = "pre" /\ arguments = 0 /\ returns = 0 /\ called = <<>>
  BY <1>1, FunctionMapping DEF Init, Phase
<1>11. QED
  BY <1>6, <1>9, <1>10, ChainInit, Zenon

(* ImplementsChain, for lists of any length: with no disabled hook in a    *)
(* function's list, hooks of functions that sign-extend what they return,  *)
(* and prehooks of system calls that do not break, every step of either    *)
(* handler is a step HookChain allows, or changes nothing it can see.      *)
THEOREM ChainImplemented ==
  ASSUME 0 \notin Types, SignExtends, 1 \notin SystemCallControls
  PROVE  HandlerSpec => ImplementsChain
<1> DEFINE Inv == \/ FunctionInv /\ Enabled
                  \/ SystemCallInv
<1>1. HandlerInit => Inv /\ Promise!Init
  <2>1. HandlerInit => kind = "function" \/ kind = "system_call"
    BY Zenon DEF HandlerInit
  <2>2. QED
    BY <2>1, FunctionInit, FunctionChainInit, SystemCallInit, Zenon
<1>2. ASSUME Inv, [HandlerNext]_handlerVars
      PROVE  Inv' /\ (Promise!Next \/ UNCHANGED Promise!vars)
  <2>1. CASE UNCHANGED handlerVars
    <3>1. UNCHANGED <<hook, hookType, hookCurrent, hookTypeCurrent, arguments, returns,
                      registers, pc, called, result, kind, i, r>>
      BY <2>1, Zenon DEF handlerVars, vars
    <3>2. UNCHANGED <<ChainType, ChainPhase>>
      BY <3>1, Zenon DEF ChainType, ChainPhase, Registered, FunctionPhase, Phase,
                         SystemCall!SystemCallPhase
    <3>3. CASE FunctionInv /\ Enabled
      <4>1. FunctionInv'
        BY <1>2, <3>3, FunctionStep, Zenon DEF FunctionInv, PositionInv
      <4>2. Enabled'
        BY <3>1, <3>3, Zenon DEF Enabled
      <4>3. QED
        BY <3>1, <3>2, <4>1, <4>2, ChainStutter, Zenon
    <3>4. CASE SystemCallInv
      <4>1. \A p : CalledIn(p)' = CalledIn(p)
        BY <3>1, SameCalled, Zenon
      <4>2. SystemCallInv'
        BY <3>1, <3>4, <4>1, Zenon DEF SystemCallInv
      <4>3. QED
        BY <3>1, <3>2, <4>2, ChainStutter, Zenon
    <3>5. QED
      BY <1>2, <3>3, <3>4, Zenon
  <2>2. CASE HandlerNext /\ FunctionInv /\ Enabled
    <3>1. kind = "function" /\ Next /\ UNCHANGED kind
      <4>1. kind = "function" /\ kind # "system_call"
        BY <2>2 DEF FunctionInv, PositionInv
      <4>2. QED
        BY <2>2, <4>1, Zenon DEF HandlerNext
    <3>2. FunctionInv'
      BY <1>2, <2>2, <3>1, FunctionStep, Zenon
    <3>3. UNCHANGED <<hook, hookType>>
      BY <3>1, Zenon DEF Next, SaveArguments, NextCell, CallHook, LoopDone, CallBridge,
                         CallDone, table
    <3>4. Enabled'
      BY <2>2, <3>3, Zenon DEF Enabled
    <3>5. QED
      BY <2>2, <3>1, <3>2, <3>4, FunctionRefines, Zenon
  <2>3. CASE HandlerNext /\ SystemCallInv
    <3>1. kind = "system_call" /\ kind # "function"
      BY <2>3 DEF SystemCallInv
    <3>2. SystemCall!Next /\ UNCHANGED kind
      BY <2>3, <3>1, Zenon DEF HandlerNext
    <3>3. QED
      BY <2>3, <3>2, SystemCallStep, Zenon
  <2>4. QED
    BY <1>2, <2>1, <2>2, <2>3, Zenon
<1>3. QED
  BY <1>1, <1>2, PTL DEF HandlerSpec, ImplementsChain, Promise!Spec
=============================================================================
