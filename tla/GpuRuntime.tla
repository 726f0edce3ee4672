----------------------------- MODULE GpuRuntime -----------------------------
(***************************************************************************)
(* ignis/gpu_context.rs on top of the DispatchPool of kfd/mod.rs: the      *)
(* runtime takes the next of 256 kernarg slots, writes the arguments into *)
(* the pool's buffer for that slot, submits a packet that points at the    *)
(* buffer and, in dispatch, waits and poisons the queue when the wait      *)
(* fails.  The GPU reads the arguments when it runs the packet, long after *)
(* dispatch_async has returned.                                            *)
(*                                                                         *)
(* The queue is the FIFO of CommandQueue, which AqlQueue implements when   *)
(* calls do not overlap: submit is one step here.  The calls of two        *)
(* threads interleave at every lock and every atomic otherwise.            *)
(***************************************************************************)
EXTENDS Integers, Sequences, FiniteSets

CONSTANTS Threads,
          Setups        \* the programs to consider, see Setup

AllCalls == {"dispatch", "dispatch_async", "dispatch_bench", "wait_idle",
             "read_f32"}
Dispatches == {"dispatch", "dispatch_async", "dispatch_bench"}

\* A program of the runtime, and the GPU it runs on.
Setup == [threads : SUBSET Threads, \* those that use the runtime
          calls : SUBSET AllCalls,  \* the methods they use
          wrap : Nat \ {0},         \* next_slot counts modulo this; 256 in the code
          slots : Nat \ {0},        \* DispatchPool::new(device, 64)
          async : Nat,              \* packets left unwaited by dispatch_async
          packets : Nat,            \* bound on the packets a behaviour issues
          slow : BOOLEAN,           \* a kernel may outlast the host's 5 s timeout
          scarce : BOOLEAN]         \* alloc_uncached may fail when the pool grows

ASSUME SetupAssumption == Setups \subseteq Setup

NoPacket == 0
Garbage  == -1           \* what a packet finds behind a dangling reference

VARIABLES
  setup,        \* never changes
  slotCounter,  \* *slot_counter
  ring,         \* kernargs_ring: its length, its capacity, and how often the
                \* Vec has moved its elements; whether its mutex is poisoned
  kernargs,     \* slot -> the packet whose arguments its buffer holds
  poisoned,
  queue,        \* submitted and not yet run: packet and kernarg buffer
  executed,     \* history: packet run, arguments it read
  hung,         \* the GPU has stopped for good
  pc, op,       \* per thread: next step, and the call it is inside
  slot,         \* per thread: the slot of its packet
  buf,          \* per thread: the &GpuBuffer into the Vec, by Vec move
  mine,         \* per thread: the packet of its call
  target,       \* per thread: executed packets its wait is for
  out,          \* per thread: how its last call ended
  failed,       \* history: threads that have been given an error by dispatch
  submitted     \* history: packets in submission order, the call and the thread
                \* of each, and the threads that had failed by then

gpu   == <<queue, executed, hung>>
pool  == <<ring, kernargs>>
calls == <<op, slot, buf, mine, target, out, failed>>
vars  == <<setup, slotCounter, pool, poisoned, gpu, pc, calls, submitted>>

SlotIds  == 0..setup.wrap - 1
Packets  == 1..setup.packets

\* GpuRuntime::new: Vec::with_capacity(n) filled with n buffers.
Init ==
  /\ setup \in Setups
  /\ slotCounter = 0
  /\ ring = [len |-> setup.slots, cap |-> setup.slots, moves |-> 0,
             poisoned |-> FALSE]
  /\ kernargs = [s \in SlotIds |-> NoPacket]
  /\ poisoned = FALSE
  /\ queue = << >>
  /\ executed = << >>
  /\ hung = FALSE
  /\ pc = [t \in Threads |-> "idle"]
  /\ op = [t \in Threads |-> "wait_idle"]
  /\ slot = [t \in Threads |-> 0]
  /\ buf = [t \in Threads |-> 0]
  /\ mine = [t \in Threads |-> NoPacket]
  /\ target = [t \in Threads |-> 0]
  /\ out = [t \in Threads |-> "none"]
  /\ failed = {}
  /\ submitted = << >>
-----------------------------------------------------------------------------
Begun  == {mine[t] : t \in Threads} \cup {submitted[i].pkt : i \in DOMAIN submitted}
Unused == Packets \ Begun

Goto(t, step) == pc' = [pc EXCEPT ![t] = step]

\* What a caller of dispatch sees as Err.
DispatchError(t, how) == how = "refused" \/ (how = "err" /\ op[t] = "dispatch")

Return(t, how) ==
  /\ Goto(t, "idle")
  /\ out' = [out EXCEPT ![t] = how]
  /\ failed' = IF DispatchError(t, how) THEN failed \cup {t} ELSE failed

\* Mutant: the flag is never read.
RefuseNever(c) == FALSE

\* Only dispatch reads the flag, and only when it begins.
RefuseWhenPoisoned(c) == c = "dispatch" /\ poisoned

CallDispatch(t, c) ==
  /\ pc[t] = "idle"
  /\ Unused # {}
  /\ c = "dispatch_async" => Len(queue) < setup.async
  /\ op' = [op EXCEPT ![t] = c]
  /\ IF RefuseWhenPoisoned(c)
     THEN /\ Return(t, "refused")
          /\ mine' = [mine EXCEPT ![t] = NoPacket]
     ELSE /\ Goto(t, "slot")
          /\ out' = [out EXCEPT ![t] = "none"]
          /\ mine' = [mine EXCEPT ![t] = CHOOSE p \in Unused : TRUE]
          /\ UNCHANGED failed
  /\ UNCHANGED <<setup, slotCounter, pool, poisoned, gpu, slot, buf, target, submitted>>

\* Mutant: the counter runs over one slot more than there are in flight.
NextSlotShort(t) ==
  /\ pc[t] = "slot"
  /\ slot' = [slot EXCEPT ![t] = slotCounter]
  /\ slotCounter' = (slotCounter + 1) % (setup.wrap - 1)
  /\ Goto(t, "ensure")
  /\ UNCHANGED <<setup, pool, poisoned, gpu, op, buf, mine, target, out, failed, submitted>>

NextSlot(t) ==
  /\ pc[t] = "slot"
  /\ slot' = [slot EXCEPT ![t] = slotCounter]
  /\ slotCounter' = (slotCounter + 1) % setup.wrap
  /\ Goto(t, "ensure")
  /\ UNCHANGED <<setup, pool, poisoned, gpu, op, buf, mine, target, out, failed, submitted>>

\* Vec::push on a full Vec doubles its capacity and moves every GpuBuffer in it.
CapacityFor(cap, n) ==
  CHOOSE c \in {cap * 2^k : k \in 0..n} :
    c >= n /\ \A k \in 0..n : cap * 2^k >= n => c <= cap * 2^k

GrownTo(n) ==
  IF n <= ring.len THEN ring
  ELSE [ring EXCEPT !.len = n,
                    !.cap = CapacityFor(ring.cap, n),
                    !.moves = IF n > ring.cap THEN @ + 1 ELSE @]

EnsureSlot(t) ==
  /\ pc[t] = "ensure"
  /\ ~ring.poisoned
  /\ ring' = GrownTo(slot[t] + 1)
  /\ Goto(t, "write")
  /\ UNCHANGED <<setup, slotCounter, kernargs, poisoned, gpu, calls, submitted>>

\* alloc_uncached fails: the panic leaves the mutex poisoned, and lock().unwrap()
\* panics from then on.
EnsureSlotPanics(t) ==
  /\ pc[t] \in {"ensure", "write"}
  /\ \/ ring.poisoned /\ UNCHANGED ring
     \/ /\ setup.scarce
        /\ pc[t] = "ensure"
        /\ \E n \in ring.len..slot[t] :
             ring' = [GrownTo(n) EXCEPT !.poisoned = TRUE]
  /\ Return(t, "panic")
  /\ UNCHANGED <<setup, slotCounter, kernargs, poisoned, gpu, op, slot, buf, mine,
                 target, submitted>>

\* write_kernargs locks the ring a second time, for the write, and returns a
\* reference that outlives the lock.
WriteKernargs(t) ==
  /\ pc[t] = "write"
  /\ ~ring.poisoned
  /\ kernargs' = [kernargs EXCEPT ![slot[t]] = mine[t]]
  /\ buf' = [buf EXCEPT ![t] = ring.moves]
  /\ Goto(t, "submit")
  /\ UNCHANGED <<setup, slotCounter, ring, poisoned, gpu, op, slot, mine, target, out,
                 failed, submitted>>

\* What ka_buf.gpu_addr() may yield: after a move the reference dangles, and
\* the freed memory still holds the old address or anything else.
KernargAddress(t) ==
  IF buf[t] = ring.moves THEN {slot[t]} ELSE {slot[t], Garbage}

Submit(t) ==
  /\ pc[t] = "submit"
  /\ \E at \in KernargAddress(t) :
       queue' = Append(queue, [pkt |-> mine[t], at |-> at])
  /\ submitted' = Append(submitted, [pkt |-> mine[t], call |-> op[t],
                                     by |-> t, after |-> failed])
  /\ IF op[t] = "dispatch_async"
     THEN Return(t, "sent")
     ELSE Goto(t, "target") /\ UNCHANGED <<out, failed>>
  /\ UNCHANGED <<setup, slotCounter, pool, poisoned, executed, hung, op, slot, buf,
                 mine, target>>

-----------------------------------------------------------------------------
(* Waiting *)

CallWait(t, c) ==
  /\ pc[t] = "idle"
  /\ op' = [op EXCEPT ![t] = c]
  /\ out' = [out EXCEPT ![t] = "none"]
  /\ mine' = [mine EXCEPT ![t] = NoPacket]
  /\ Goto(t, "target")
  /\ UNCHANGED <<setup, slotCounter, pool, poisoned, gpu, slot, buf, target, failed,
                 submitted>>

\* Mutant: read_f32 does not wait.
ReadTargetNoWait(t) ==
  /\ pc[t] = "target"
  /\ target' = [target EXCEPT ![t] = Len(submitted)]
  /\ IF op[t] = "read_f32" THEN Return(t, "data")
                           ELSE Goto(t, "wait") /\ UNCHANGED <<out, failed>>
  /\ UNCHANGED <<setup, slotCounter, pool, poisoned, gpu, op, slot, buf, mine,
                 submitted>>

\* wait_idle and wait_idle_spin read write_ptr once.
ReadTarget(t) ==
  /\ pc[t] = "target"
  /\ target' = [target EXCEPT ![t] = Len(submitted)]
  /\ Goto(t, "wait")
  /\ UNCHANGED <<setup, slotCounter, pool, poisoned, gpu, op, slot, buf, mine, out,
                 failed, submitted>>

Idle(t) == Len(executed) >= target[t]

WaitOk(t) ==
  /\ pc[t] = "wait"
  /\ Idle(t)
  /\ Return(t, IF op[t] = "read_f32" THEN "data" ELSE "ok")
  /\ UNCHANGED <<setup, slotCounter, pool, poisoned, gpu, op, slot, buf, mine, target,
                 submitted>>

\* Mutant: dispatch gives the error up without poisoning.
WaitTimeoutNoPoison(t) ==
  /\ pc[t] = "wait"
  /\ ~Idle(t)
  /\ hung \/ setup.slow
  /\ op[t] # "dispatch_bench"
  /\ Return(t, IF op[t] = "read_f32" THEN "data" ELSE "err")
  /\ UNCHANGED <<setup, slotCounter, pool, poisoned, gpu, op, slot, buf, mine, target,
                 submitted>>

\* Mutant: dispatch waits with wait_idle_spin.
WaitTimeoutDispatchSpins(t) ==
  /\ pc[t] = "wait"
  /\ ~Idle(t)
  /\ hung \/ setup.slow
  /\ op[t] \in {"read_f32", "wait_idle"}
  /\ Return(t, IF op[t] = "read_f32" THEN "data" ELSE "err")
  /\ UNCHANGED <<setup, slotCounter, pool, poisoned, gpu, op, slot, buf, mine, target,
                 submitted>>

\* The error of wait_idle is dispatch's alone to act on: the public wait_idle
\* hands it up and read_f32 drops it.  wait_idle_spin has no clock.
WaitTimeout(t) ==
  /\ pc[t] = "wait"
  /\ ~Idle(t)
  /\ hung \/ setup.slow
  /\ op[t] # "dispatch_bench"
  /\ CASE op[t] = "dispatch"  -> Goto(t, "poison") /\ UNCHANGED <<out, failed>>
       [] op[t] = "read_f32"  -> Return(t, "data")
       [] op[t] = "wait_idle" -> Return(t, "err")
  /\ UNCHANGED <<setup, slotCounter, pool, poisoned, gpu, op, slot, buf, mine, target,
                 submitted>>

MarkPoisoned(t) ==
  /\ pc[t] = "poison"
  /\ poisoned' = TRUE
  /\ Return(t, "err")
  /\ UNCHANGED <<setup, slotCounter, pool, gpu, op, slot, buf, mine, target,
                 submitted>>

-----------------------------------------------------------------------------
(* The GPU *)

GpuRun ==
  /\ ~hung
  /\ queue # << >>
  /\ LET q == Head(queue) IN
       executed' = Append(executed,
                          [pkt |-> q.pkt,
                           args |-> IF q.at = Garbage THEN Garbage
                                                      ELSE kernargs[q.at]])
  /\ queue' = Tail(queue)
  /\ UNCHANGED <<setup, slotCounter, pool, poisoned, hung, pc, calls, submitted>>

GpuHang ==
  /\ ~hung
  /\ queue # << >>
  /\ hung' = TRUE
  /\ UNCHANGED <<setup, slotCounter, pool, poisoned, queue, executed, pc, calls,
                 submitted>>

-----------------------------------------------------------------------------
Step(t) ==
  \/ NextSlot(t) \/ EnsureSlot(t) \/ EnsureSlotPanics(t) \/ WriteKernargs(t)
  \/ Submit(t) \/ ReadTarget(t) \/ WaitOk(t) \/ WaitTimeout(t)
  \/ MarkPoisoned(t)

Next ==
  \/ \E t \in setup.threads :
       \/ Step(t)
       \/ \E c \in setup.calls \cap Dispatches : CallDispatch(t, c)
       \/ \E c \in setup.calls \ Dispatches : CallWait(t, c)
  \/ GpuRun
  \/ GpuHang

Spec == Init /\ [][Next]_vars

\* Host code inside a call keeps running; a GPU that has not hung works off
\* its queue.
FairSpec == Spec /\ WF_vars(GpuRun) /\ \A t \in Threads : WF_vars(Step(t))

-----------------------------------------------------------------------------
(* Properties *)

\* Every kernel runs with the arguments its own dispatch wrote, although slots
\* are reused every setup.wrap dispatches and the pool grows under the references it
\* has handed out (get_kernargs: "Safety: buffer lives as long as the pool").
ArgsIntact == \A i \in DOMAIN executed : executed[i].args = executed[i].pkt

\* read_f32, which drops the error of its wait, returns a buffer with kernels
\* still outstanding only when the GPU has hung, or its kernels outlast the 5 s.
ReadComplete ==
  \A t \in Threads :
    out[t] = "data" => hung \/ setup.slow \/ Len(executed) >= target[t]

\* dispatch hands out no error it later forgets.  A thread that has had an error
\* from dispatch gets no further packet into the queue by dispatch; and once any
\* thread has had one, each other thread gets in at most the packet of a call
\* that was past the flag by then.  The flag and the errors are written at
\* different times, by whichever thread times out first.  mark_poisoned's "all
\* subsequent dispatches will fail fast" says more than the code does: nothing
\* keeps out the packets of dispatch_async and dispatch_bench, which never look
\* at the flag, and an error of wait_idle sets none.
FailureIsFinal ==
  \A i \in DOMAIN submitted :
    submitted[i].call = "dispatch" /\ submitted[i].after # {} =>
      /\ submitted[i].by \notin submitted[i].after
      /\ \A j \in DOMAIN submitted :
           /\ submitted[j].call = "dispatch"
           /\ submitted[j].by = submitted[i].by
           /\ submitted[j].after # {}
           => j = i

\* Whatever times out and whichever thread poisons, a queue used by dispatch
\* alone never holds more than one packet of each thread.
QueueBounded ==
  setup.calls \cap Dispatches = {"dispatch"} =>
    Len(queue) <= Cardinality(setup.threads)

\* Every call returns, on a hung GPU too; only dispatch_bench may then spin.
CallsReturn ==
  \A t \in Threads :
    pc[t] # "idle" ~> pc[t] = "idle" \/ (hung /\ op[t] = "dispatch_bench")
=============================================================================
