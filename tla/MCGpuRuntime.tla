---------------------------- MODULE MCGpuRuntime ----------------------------
(* Small instances of GpuRuntime for TLC. *)
EXTENDS GpuRuntime

CONSTANTS t1, t2

BothThreads == {t1, t2}

\* One thread, every call; the slots wrap and the pool grows twice.
Alone ==
  [threads |-> {t1}, calls |-> AllCalls, wrap |-> 3, slots |-> 1, async |-> 2,
   packets |-> 6, slow |-> FALSE, scarce |-> TRUE]
\* Two threads on a slow GPU, every slot there from the start: the poison flag.
Poisoning ==
  [threads |-> {t1, t2}, calls |-> {"dispatch", "wait_idle", "read_f32"},
   wrap |-> 6, slots |-> 6, async |-> 2, packets |-> 4, slow |-> TRUE, scarce |-> FALSE]
\* The same queue with dispatch_async on it, which never looks at the flag.
Unchecked ==
  [threads |-> {t1, t2}, calls |-> {"dispatch", "dispatch_async"}, wrap |-> 6,
   slots |-> 6, async |-> 1, packets |-> 3, slow |-> TRUE, scarce |-> FALSE]
\* Two threads of dispatch: the pool grows while the other holds a reference.
Growing ==
  [threads |-> {t1, t2}, calls |-> {"dispatch"}, wrap |-> 3, slots |-> 1,
   async |-> 2, packets |-> 3, slow |-> FALSE, scarce |-> FALSE]

Sound == {Alone, Poisoning, Unchecked}
Moving == {Growing}
=============================================================================
