---------------------------- MODULE MCGpuMemory ----------------------------
(* Small instances of GpuMemory for TLC. *)
EXTENDS GpuMemory, TLC

CONSTANTS t1, t2, a1, a2, a3

OneThread  == {t1}
TwoThreads == {t1, t2}
TwoAddresses   == {a1, a2}
DropCalls == {"alloc", "drop"}
Symmetry == Permutations(TwoThreads)
OneAndThree == {1, 3}
=============================================================================
