--------------------------- MODULE MCKernelPatch ----------------------------
EXTENDS KernelPatch, TLC
Code == [i \in 1 .. 15 |-> 144]
Low == <<1, 2, 0, 0, 0, 0, 0, 0>>
Middle == <<0, 0, 0, 128, 0, 0, 0, 0>>
Kernel == <<16, 0, 64, 130, 255, 255, 255, 255>>
High == <<0, 0, 0, 2, 255, 255, 255, 255>>
Minus == <<255, 255, 255, 255, 255, 255, 255, 255>>
AllPatches ==
  {Job("jump", v) : v \in {Low, Middle, Kernel}}
    \cup {Job("return", v) : v \in {Zeros(8), Low, Middle, High, Minus}}
    \cup {Job("function", Kernel), Job("system_call", Kernel), Job("hidden", <<1, 2, 3>>),
          Job("restore", Kernel)}
CONSTANTS t1, t2
SomePatches == (t1 :> AllPatches) @@ (t2 :> {Job("jump", Kernel), Job("restore", Kernel)})
Symmetry == Permutations(Processors)
=============================================================================
