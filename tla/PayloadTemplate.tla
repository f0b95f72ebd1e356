-------------------------- MODULE PayloadTemplate ---------------------------
(***************************************************************************)
(* The code templates that are written over kernel functions: what a patch *)
(* copies where, how a patch is recognised in memory, and how its operand  *)
(* is read back.  Memory and templates are sequences of bytes; a 64-bit    *)
(* value is the sequence of its 8 bytes, lowest first.  A zero byte of a   *)
(* template stands for any byte.  Of the hook prologues the first 15 bytes *)
(* are modelled, where they differ from each other and from a jump.        *)
(***************************************************************************)
EXTENDS Integers, Sequences

Zeros(n) == [i \in 1 .. n |-> 0]

Jump64 == <<73, 187, 0, 0, 0, 0, 0, 0, 0, 0, 65, 255, 227>>  \* movabs $0, %r11; jmp *%r11
Jump32 == <<65, 187, 0, 0, 0, 0, 65, 255, 227>>              \* movl $0, %r11d; jmp *%r11
Return64 == <<72, 184, 0, 0, 0, 0, 0, 0, 0, 0, 195>>         \* movabs $0, %rax; ret
Return32 == <<184, 0, 0, 0, 0, 195>>                         \* movl $0, %eax; ret
ReturnZero == <<72, 49, 192, 195>>                             \* xorq %rax, %rax; ret
FunctionHookPrologue == <<73, 187, 0, 0, 0, 0, 0, 0, 0, 0, 240, 73, 255, 67, 16>>
SystemCallHookPrologue == <<73, 187, 0, 0, 0, 0, 0, 0, 0, 0, 240, 73, 255, 67, 24>>
PayloadLock == <<235, 252>>                                    \* jmp .-2

(* ps4KernelMemoryCompareNonZeros, where 0 means equal.                    *)
CompareNonZeros(template, memory) ==
  \A i \in 1 .. Len(template) : template[i] # 0 => template[i] = memory[i]

(* memcpy of bytes to memory + at.                                         *)
Copied(memory, at, bytes) ==
  [i \in 1 .. Len(memory) |->
     IF i > at /\ i <= at + Len(bytes) THEN bytes[i - at] ELSE memory[i]]

-----------------------------------------------------------------------------
(* A patch is a sequence of writes, most of them copies to the function.   *)
Copy(at, bytes) == [op |-> "copy", at |-> at, bytes |-> bytes]

High32Zero(v) == SubSeq(v, 5, 8) = Zeros(4)
Fits32(v) ==
  \/ High32Zero(v) /\ v[4] < 128
  \/ SubSeq(v, 5, 8) = <<255, 255, 255, 255>> /\ v[4] >= 128

JumpPatch(to) ==
  IF High32Zero(to) THEN <<Copy(0, Jump32), Copy(2, SubSeq(to, 1, 4))>>
  ELSE <<Copy(0, Jump64), Copy(2, to)>>

\* Mutant: the limit of the short form is that of an unsigned operand.
ReturnPatchUnsigned(value) ==
  IF value = Zeros(8) THEN <<Copy(0, ReturnZero)>>
  ELSE IF value[8] \in {0, 255} THEN <<Copy(0, Return32), Copy(1, SubSeq(value, 1, 4))>>
  ELSE <<Copy(0, Return64), Copy(2, value)>>

ReturnPatch(value) ==
  IF value = Zeros(8) THEN <<Copy(0, ReturnZero)>>
  ELSE IF Fits32(value) THEN <<Copy(0, Return32), Copy(1, SubSeq(value, 1, 4))>>
  ELSE <<Copy(0, Return64), Copy(2, value)>>

FunctionHookProloguePatch(arg) == <<Copy(0, FunctionHookPrologue), Copy(2, arg)>>
SystemCallHookProloguePatch(arg) == <<Copy(0, SystemCallHookPrologue), Copy(2, arg)>>

(* A short jump over the data; each step is a fill or a copy of its own.   *)
HiddenInformationPatch(data) ==
  <<Copy(0, <<235>>), Copy(1, <<Len(data)>>), Copy(2, data)>>

(* The DeterminePatchSize functions; that of hidden information fails.     *)
JumpDeterminePatchSize(to) == IF High32Zero(to) THEN Len(Jump32) ELSE Len(Jump64)
ReturnDeterminePatchSize(value) ==
  IF value = Zeros(8) THEN Len(ReturnZero)
  ELSE IF Fits32(value) THEN Len(Return32)
  ELSE Len(Return64)

-----------------------------------------------------------------------------
ReturnIsPatched(m) ==
  CompareNonZeros(Return64, m) \/ CompareNonZeros(Return32, m) \/ CompareNonZeros(ReturnZero, m)
JumpIsPatched(m) == CompareNonZeros(Jump32, m) \/ CompareNonZeros(Jump64, m)
FunctionHookPrologueIsPatched(m) == CompareNonZeros(FunctionHookPrologue, m)
SystemCallHookPrologueIsPatched(m) == CompareNonZeros(SystemCallHookPrologue, m)
HiddenInformationIsPatched(m) == m[1] = 235 /\ m[2] <= 127

(* What the Extract functions store; <<>> if they fail.                    *)
JumpExtractTarget(m) ==
  IF CompareNonZeros(Jump32, m) THEN SubSeq(m, 3, 6) \o Zeros(4)
  ELSE IF CompareNonZeros(Jump64, m) THEN SubSeq(m, 3, 10)
  ELSE <<>>

FunctionHookPrologueExtractArgument(m) ==
  IF FunctionHookPrologueIsPatched(m) THEN SubSeq(m, 3, 10) ELSE <<>>
SystemCallHookPrologueExtractArgument(m) ==
  IF SystemCallHookPrologueIsPatched(m) THEN SubSeq(m, 3, 10) ELSE <<>>
HiddenInformationExtractData(m) ==
  IF HiddenInformationIsPatched(m) THEN SubSeq(m, 3, 2 + m[2]) ELSE <<>>

(* What the processor returns in %rax from memory patched to return: a     *)
(* move to %eax clears the upper half.                                     *)
Returns(m) ==
  IF SubSeq(m, 1, 2) = <<72, 184>> THEN SubSeq(m, 3, 10)
  ELSE IF m[1] = 184 THEN SubSeq(m, 2, 5) \o Zeros(4)
  ELSE Zeros(8)
=============================================================================
