----------------------------- MODULE MCRegAlloc -----------------------------
(* Small kernels for RegAlloc: single registers, pairs, and pairs that start
   at a multiple of four, as a 128-bit load wants them. *)
EXTENDS RegAlloc

S1 == [count |-> 1, align |-> 1]
P2 == [count |-> 2, align |-> 2]
D4 == [count |-> 2, align |-> 4]

SmallKernels ==
  {<<S1, P2, S1>>, <<P2, S1, P2>>, <<D4, S1, D4>>, <<P2, P2, S1, S1>>,
   <<S1, P2, P2, P2>>}
OnePairTwoSingles == {<<P2, S1, S1>>}
TwoWidePairs == {<<D4, D4>>}
=============================================================================
