------------------------------ MODULE AqlQueue ------------------------------
(***************************************************************************)
(* The AQL compute queue of kfd/mod.rs: host threads write 64-byte packets *)
(* into a ring, publish them through write_ptr and a doorbell, and learn   *)
(* of completion through read_ptr or a completion signal; the command      *)
(* processor (CP) of the GPU consumes the ring in order.                   *)
(*                                                                         *)
(* A call of the host is cut at every access to memory the CP or another   *)
(* thread can see.  The CP is not in the repository: it is modelled from   *)
(* what the host code relies on (the header decides whether a slot is      *)
(* occupied, the barrier bit runs one packet at a time, read_ptr counts    *)
(* retired packets, "CP prefetches slots").                                *)
(***************************************************************************)
EXTENDS Integers, Sequences, FiniteSets

CONSTANTS Threads,      \* host threads that share the queue
          Slots,        \* ring_slots = ring_size / 64
          Headroom,     \* slots ensure_ring_space keeps free; 64 in the code
          MaxPackets,   \* bound on the packets a behaviour issues
          Calls,        \* the methods the host uses
          BatchLimit,   \* most packets the caller leaves without a doorbell
          Serialized,   \* TRUE: the threads take turns calling the queue
          SlowGpu       \* TRUE: a kernel may outlast the host's timeouts

AllCalls == {"submit", "submit_batch", "submit_fast", "dispatch",
             "dispatch_signal", "ring_doorbell", "wait_idle",
             "wait_idle_spin", "drop"}

ASSUME SlotsAssumption == Slots \in Nat /\ Headroom \in Nat /\ Headroom < Slots
ASSUME BoundAssumption == MaxPackets \in Nat /\ BatchLimit \in Nat
ASSUME CallsAssumption == Calls \subseteq AllCalls
ASSUME ModeAssumption == Serialized \in BOOLEAN /\ SlowGpu \in BOOLEAN

NoPacket == 0                      \* a slot or register that names no packet
Packets  == 1..MaxPackets
NoSignal == "no signal"
ASSUME SignalAssumption == NoSignal \notin Threads

VARIABLES
  ring,       \* slot -> header, kernel_object, kernarg_address, signal
  writePtr,   \* *write_ptr_host
  readPtr,    \* *read_ptr_host
  doorbell,   \* last value written to *doorbell_ptr, -1 before the first
  cp,         \* what the CP does with the packet at readPtr
  running,    \* the packet the CP has fetched
  hung,       \* the GPU has stopped for good
  destroyed,  \* the queue has been dropped
  signal,     \* amd_signal_t.value of the signal each thread passes
  pc, op,     \* per thread: next step, and the call it is inside
  idx,        \* per thread: the local write_idx, or the target of a wait
  mine,       \* per thread: the packet its call writes
  made,       \* packets handed out so far
  out,        \* per thread: how its last call ended
  owed,       \* history: packets retired if that call returns Ok
  issued,     \* history: packets in the order their headers became valid
  executed    \* history: packets in the order they retired

pointers == <<writePtr, readPtr, doorbell>>
gpu      == <<cp, running, hung, executed>>
calling  == <<op, idx, mine, made, out, owed>>
vars     == <<ring, pointers, gpu, destroyed, signal, pc, calling, issued>>

SlotIds == 0..Slots - 1
Slot == [hdr  : {"INVALID", "DISPATCH"},
         obj  : {NoPacket} \cup Packets,
         karg : {NoPacket} \cup Packets,
         sig  : Threads \cup {NoSignal}]
Empty == [hdr |-> "INVALID", obj |-> NoPacket, karg |-> NoPacket,
          sig |-> NoSignal]

Steps == {"idle", "space", "claim", "arm", "object", "kernarg", "header",
          "publish", "doorbell", "target", "poll"}
Outcomes == {"none", "sent", "ok", "err", "panic"}

TypeOK ==
  /\ ring \in [SlotIds -> Slot]
  /\ writePtr \in Nat
  /\ readPtr \in Nat
  /\ doorbell \in Nat \cup {-1}
  /\ cp \in {"free", "busy", "retiring"}
  /\ running \in Slot
  /\ hung \in BOOLEAN
  /\ destroyed \in BOOLEAN
  /\ signal \in [Threads -> Int]
  /\ pc \in [Threads -> Steps]
  /\ op \in [Threads -> AllCalls]
  /\ idx \in [Threads -> Nat]
  /\ mine \in [Threads -> {NoPacket} \cup Packets]
  /\ made \in {NoPacket} \cup Packets
  /\ out \in [Threads -> Outcomes]
  /\ owed \in [Threads -> Nat]
  /\ issued \in Seq(Packets)
  /\ executed \in Seq({NoPacket} \cup Packets)

Init ==
  /\ ring = [s \in SlotIds |-> Empty]
  /\ writePtr = 0
  /\ readPtr = 0
  /\ doorbell = -1
  /\ cp = "free"
  /\ running = Empty
  /\ hung = FALSE
  /\ destroyed = FALSE
  /\ signal = [t \in Threads |-> 0]
  /\ pc = [t \in Threads |-> "idle"]
  /\ op = [t \in Threads |-> "submit"]
  /\ idx = [t \in Threads |-> 0]
  /\ mine = [t \in Threads |-> NoPacket]
  /\ made = 0
  /\ out = [t \in Threads |-> "none"]
  /\ owed = [t \in Threads |-> 0]
  /\ issued = << >>
  /\ executed = << >>
-----------------------------------------------------------------------------
(* The caller *)

WritesPacket == {"submit", "submit_batch", "submit_fast", "dispatch",
                 "dispatch_signal"}
Waits == {"wait_idle", "wait_idle_spin"}

\* Packets in the ring that no doorbell write covers yet.
Unrung == writePtr - (doorbell + 1)

\* What the methods' documentation asks of their caller.
MayCall(t, c) ==
  /\ c \in WritesPacket => made < MaxPackets
  /\ c \in {"submit", "submit_batch", "dispatch", "dispatch_signal"}
        => Unrung < BatchLimit
  /\ c = "submit_fast" => writePtr - readPtr < Slots
  /\ c = "ring_doorbell" => Unrung > 0
  /\ c \in Waits => Unrung = 0
  /\ c = "drop" => \A u \in Threads : pc[u] = "idle"

FirstStep(c) ==
  CASE c \in WritesPacket \ {"submit_fast"} -> "space"
    [] c = "submit_fast"                     -> "claim"
    [] OTHER                                 -> "target"

Call(t, c) ==
  /\ ~destroyed
  /\ pc[t] = "idle"
  /\ Serialized => \A u \in Threads : pc[u] = "idle"
  /\ MayCall(t, c)
  /\ pc' = [pc EXCEPT ![t] = FirstStep(c)]
  /\ op' = [op EXCEPT ![t] = c]
  /\ out' = [out EXCEPT ![t] = "none"]
  /\ made' = IF c \in WritesPacket THEN made + 1 ELSE made
  /\ mine' = [mine EXCEPT ![t] = IF c \in WritesPacket THEN made + 1
                                                        ELSE NoPacket]
  /\ owed' = [owed EXCEPT ![t] = IF c \in Waits THEN Len(issued) ELSE 0]
  /\ UNCHANGED <<ring, pointers, gpu, destroyed, signal, idx, issued>>

Goto(t, step) == pc' = [pc EXCEPT ![t] = step]

Return(t, how) ==
  /\ pc' = [pc EXCEPT ![t] = "idle"]
  /\ out' = [out EXCEPT ![t] = how]

\* The clock of a wait may run out: the GPU is slow, or it has stopped, or it
\* has no packet whose doorbell has been rung.
MayTimeOut ==
  \/ SlowGpu
  \/ hung
  \/ cp = "free" /\ readPtr > doorbell

-----------------------------------------------------------------------------
(* Writing a packet *)

SlotOf(i) == i % Slots     \* write_idx & ring_mask, ring_slots a power of two

\* Mutant: the full ring passes for one with space left.
HasRingSpaceWhenFull == writePtr - readPtr \in 0..Slots

\* write_idx.wrapping_sub(read_idx) < ring_slots - 64
HasRingSpace == writePtr - readPtr \in 0..Slots - Headroom - 1

EnsureRingSpace(t) ==
  /\ pc[t] = "space"
  /\ HasRingSpace
  /\ Goto(t, "claim")
  /\ UNCHANGED <<ring, pointers, gpu, destroyed, signal, calling, issued>>

RingSpaceTimeout(t) ==
  /\ pc[t] = "space"
  /\ ~HasRingSpace
  /\ MayTimeOut
  /\ Return(t, "panic")
  /\ UNCHANGED <<ring, pointers, gpu, destroyed, signal, op, idx, mine, made,
                 owed, issued>>

\* Mutant: the slot before write_ptr.
ClaimPrevious(t) ==
  /\ pc[t] = "claim"
  /\ idx' = [idx EXCEPT ![t] = writePtr - 1]
  /\ Goto(t, IF op[t] = "dispatch_signal" THEN "arm" ELSE "object")
  /\ UNCHANGED <<ring, pointers, gpu, destroyed, signal, op, mine, made, out,
                 owed, issued>>

Claim(t) ==
  /\ pc[t] = "claim"
  /\ idx' = [idx EXCEPT ![t] = writePtr]
  /\ Goto(t, IF op[t] = "dispatch_signal" THEN "arm" ELSE "object")
  /\ UNCHANGED <<ring, pointers, gpu, destroyed, signal, op, mine, made, out,
                 owed, issued>>

\* Mutant: the signal keeps the value of its last use.
ArmNothing(t) ==
  /\ pc[t] = "arm"
  /\ Goto(t, "object")
  /\ UNCHANGED <<ring, pointers, gpu, destroyed, signal, calling, issued>>

ArmSignal(t) ==
  /\ pc[t] = "arm"
  /\ signal' = [signal EXCEPT ![t] = 1]
  /\ Goto(t, "object")
  /\ UNCHANGED <<ring, pointers, gpu, destroyed, calling, issued>>

\* Mutant: the header is valid from the first store on.
WriteHeaderFirst(t) ==
  /\ pc[t] = "object"
  /\ ring' = [ring EXCEPT ![SlotOf(idx[t])] =
                [@ EXCEPT !.hdr = "DISPATCH", !.obj = mine[t]]]
  /\ Goto(t, "kernarg")
  /\ UNCHANGED <<pointers, gpu, destroyed, signal, calling, issued>>

\* submit_batch copies a whole packet whose header is INVALID; the others
\* leave the header to the CP, which has invalidated it.
WriteObject(t) ==
  /\ pc[t] = "object"
  /\ LET old == ring[SlotOf(idx[t])]
         hdr == IF op[t] = "submit_batch" THEN "INVALID" ELSE old.hdr
     IN  ring' = [ring EXCEPT ![SlotOf(idx[t])] =
                    [old EXCEPT !.hdr = hdr, !.obj = mine[t]]]
  /\ Goto(t, "kernarg")
  /\ UNCHANGED <<pointers, gpu, destroyed, signal, calling, issued>>

WriteKernarg(t) ==
  /\ pc[t] = "kernarg"
  /\ ring' = [ring EXCEPT ![SlotOf(idx[t])] =
                [@ EXCEPT !.karg = mine[t],
                          !.sig = IF op[t] = "dispatch_signal"
                                  THEN t ELSE NoSignal]]
  /\ Goto(t, "header")
  /\ UNCHANGED <<pointers, gpu, destroyed, signal, calling, issued>>

\* Mutant: the header stays INVALID.
WriteNoHeader(t) ==
  /\ pc[t] = "header"
  /\ issued' = Append(issued, mine[t])
  /\ owed' = [owed EXCEPT ![t] = Len(issued) + 1]
  /\ Goto(t, "publish")
  /\ UNCHANGED <<ring, pointers, gpu, destroyed, signal, op, idx, mine, made,
                 out>>

WriteHeader(t) ==
  /\ pc[t] = "header"
  /\ ring' = [ring EXCEPT ![SlotOf(idx[t])] = [@ EXCEPT !.hdr = "DISPATCH"]]
  /\ issued' = Append(issued, mine[t])
  /\ owed' = [owed EXCEPT ![t] = Len(issued) + 1]
  /\ Goto(t, "publish")
  /\ UNCHANGED <<pointers, gpu, destroyed, signal, op, idx, mine, made, out>>

Publish(t) ==
  /\ pc[t] = "publish"
  /\ writePtr' = idx[t] + 1
  /\ IF op[t] = "submit_batch"
     THEN Return(t, "sent")
     ELSE Goto(t, "doorbell") /\ UNCHANGED out
  /\ UNCHANGED <<ring, readPtr, doorbell, gpu, destroyed, signal, op, idx,
                 mine, made, owed, issued>>

-----------------------------------------------------------------------------
(* Doorbell and waits *)

\* Mutant: one packet short.
RingDoorbellShort(t) ==
  /\ pc[t] = "doorbell"
  /\ doorbell' = idx[t] - 1
  /\ IF op[t] \in {"dispatch", "dispatch_signal"}
     THEN /\ Goto(t, "poll")
          /\ idx' = [idx EXCEPT ![t] = @ + 1]
          /\ UNCHANGED out
     ELSE Return(t, "sent") /\ UNCHANGED idx
  /\ UNCHANGED <<ring, writePtr, readPtr, gpu, destroyed, signal, op, mine,
                 made, owed, issued>>

\* Every ring of the doorbell writes the index of the last packet.
RingDoorbell(t) ==
  /\ pc[t] = "doorbell"
  /\ doorbell' = idx[t]
  /\ IF op[t] \in {"dispatch", "dispatch_signal"}
     THEN /\ Goto(t, "poll")
          /\ idx' = [idx EXCEPT ![t] = @ + 1]
          /\ UNCHANGED out
     ELSE Return(t, "sent") /\ UNCHANGED idx
  /\ UNCHANGED <<ring, writePtr, readPtr, gpu, destroyed, signal, op, mine,
                 made, owed, issued>>

\* The read of write_ptr with which ring_doorbell, wait_idle, wait_idle_spin
\* and drop begin.
ReadWritePtr(t) ==
  /\ pc[t] = "target"
  /\ IF op[t] = "ring_doorbell"
     THEN Goto(t, "doorbell") /\ idx' = [idx EXCEPT ![t] = writePtr - 1]
     ELSE Goto(t, "poll") /\ idx' = [idx EXCEPT ![t] = writePtr]
  /\ UNCHANGED <<ring, pointers, gpu, destroyed, signal, op, mine, made, out,
                 owed, issued>>

\* Mutant: satisfied one packet early.
CompletedEarly(t) == IF op[t] = "dispatch_signal" THEN signal[t] <= 0
                                                  ELSE readPtr + 1 >= idx[t]

\* wait_signal reads the signal's value, wait_read_ptr the read pointer.
Completed(t) == IF op[t] = "dispatch_signal" THEN signal[t] <= 0
                                             ELSE readPtr >= idx[t]

Poll(t) ==
  /\ pc[t] = "poll"
  /\ op[t] # "drop"
  /\ Completed(t)
  /\ Return(t, "ok")
  /\ UNCHANGED <<ring, pointers, gpu, destroyed, signal, op, idx, mine, made,
                 owed, issued>>

\* Mutant: wait_signal without its clock.
PollTimeoutUnsignalled(t) ==
  /\ pc[t] = "poll"
  /\ op[t] \notin {"drop", "wait_idle_spin", "dispatch_signal"}
  /\ ~Completed(t)
  /\ MayTimeOut
  /\ Return(t, "err")
  /\ UNCHANGED <<ring, pointers, gpu, destroyed, signal, op, idx, mine, made,
                 owed, issued>>

PollTimeout(t) ==
  /\ pc[t] = "poll"
  /\ op[t] \notin {"drop", "wait_idle_spin"}
  /\ ~Completed(t)
  /\ MayTimeOut
  /\ Return(t, "err")
  /\ UNCHANGED <<ring, pointers, gpu, destroyed, signal, op, idx, mine, made,
                 owed, issued>>

\* Mutant: the queue is destroyed without draining it.
DropAtOnce(t) ==
  /\ pc[t] = "poll"
  /\ op[t] = "drop"
  /\ destroyed' = TRUE
  /\ Return(t, "sent")
  /\ UNCHANGED <<ring, pointers, gpu, signal, op, idx, mine, made, owed,
                 issued>>

\* Drop drains for 500 ms and destroys the queue in either case.
DropQueue(t) ==
  /\ pc[t] = "poll"
  /\ op[t] = "drop"
  /\ Completed(t) \/ MayTimeOut
  /\ destroyed' = TRUE
  /\ Return(t, "sent")
  /\ UNCHANGED <<ring, pointers, gpu, signal, op, idx, mine, made, owed,
                 issued>>

-----------------------------------------------------------------------------
(* The command processor *)

\* It may look at the slot after the last retired packet at any time: only
\* the header says whether a packet is there.
CpLaunch ==
  /\ ~hung /\ ~destroyed
  /\ cp = "free"
  /\ ring[SlotOf(readPtr)].hdr = "DISPATCH"
  /\ running' = ring[SlotOf(readPtr)]
  /\ ring' = [ring EXCEPT ![SlotOf(readPtr)] = [@ EXCEPT !.hdr = "INVALID"]]
  /\ cp' = "busy"
  /\ UNCHANGED <<pointers, hung, executed, destroyed, signal, pc, calling,
                 issued>>

\* The kernel ends, and the CP subtracts one from its completion signal ...
CpComplete ==
  /\ ~hung /\ ~destroyed
  /\ cp = "busy"
  /\ executed' = Append(executed, running.obj)
  /\ signal' = [t \in Threads |-> IF t = running.sig THEN signal[t] - 1
                                                     ELSE signal[t]]
  /\ cp' = "retiring"
  /\ UNCHANGED <<ring, pointers, running, hung, destroyed, pc, calling, issued>>

\* ... and then moves read_ptr past the packet.
CpRetire ==
  /\ ~hung /\ ~destroyed
  /\ cp = "retiring"
  /\ readPtr' = readPtr + 1
  /\ cp' = "free"
  /\ UNCHANGED <<ring, writePtr, doorbell, running, hung, executed, destroyed,
                 signal, pc, calling, issued>>

\* A page fault or an endless kernel: the GPU never makes a step again.
CpHang ==
  /\ ~hung /\ ~destroyed
  /\ cp = "busy"
  /\ hung' = TRUE
  /\ UNCHANGED <<ring, pointers, cp, running, executed, destroyed, signal, pc,
                 calling, issued>>

-----------------------------------------------------------------------------
Step(t) ==
  \/ EnsureRingSpace(t) \/ RingSpaceTimeout(t)
  \/ Claim(t) \/ ArmSignal(t) \/ WriteObject(t) \/ WriteKernarg(t)
  \/ WriteHeader(t) \/ Publish(t)
  \/ RingDoorbell(t) \/ ReadWritePtr(t)
  \/ Poll(t) \/ PollTimeout(t) \/ DropQueue(t)

Cp == CpLaunch \/ CpComplete \/ CpRetire \/ CpHang

Next ==
  \/ \E t \in Threads : Step(t) \/ \E c \in Calls : Call(t, c)
  \/ Cp

Spec == Init /\ [][Next]_vars

\* Host code inside a call keeps running, and a GPU that has not hung works
\* off every packet the doorbell covers.  Nothing obliges a caller to call,
\* or the CP to look at packets whose doorbell has not been rung.
Fairness ==
  /\ \A t \in Threads : WF_vars(Step(t))
  /\ WF_vars(CpLaunch /\ readPtr <= doorbell)
  /\ WF_vars(CpComplete)
  /\ WF_vars(CpRetire)

FairSpec == Spec /\ Fairness

-----------------------------------------------------------------------------
(* Properties *)

\* A slot is never rewritten while the packet in it is unretired: from read_ptr
\* to the last valid header the ring holds exactly the packets issued.
\* (ensure_ring_space: "so we never overwrite an unprocessed packet".)
NoOverwrite ==
  \A i \in readPtr..Len(issued) - 1 :
    /\ ring[SlotOf(i)].obj = issued[i + 1]
    /\ ring[SlotOf(i)].karg = issued[i + 1]

\* The CP never fetches a half-written packet: what it runs is, in both
\* halves, the next packet issued.  (submit: "write header LAST".)
LaunchedWhole ==
  cp # "free" => /\ readPtr < Len(issued)
                 /\ running.obj = issued[readPtr + 1]
                 /\ running.karg = issued[readPtr + 1]

\* Every packet runs at most once and in submission order, whatever mixture
\* of submit, submit_batch and dispatch issued it.
ExecutedInOrder ==
  /\ Len(executed) <= Len(issued)
  /\ \A i \in 1..Len(executed) : executed[i] = issued[i]

\* Ok from wait_idle means that all packets issued before the call have run;
\* Ok from dispatch and dispatch_signal, that their own packet has.
OkMeansDone ==
  \A t \in Threads : out[t] = "ok" => Len(executed) >= owed[t]

\* A timeout is only ever reported when the GPU has hung.  (The panic of
\* ensure_ring_space and the Err of wait_read_ptr say so.)
TimeoutMeansHung ==
  \A t \in Threads : out[t] \in {"panic", "err"} => hung

\* Dropping the queue does not kill work the GPU was told of and would still
\* do.  (Drop: "prevents DESTROY_QUEUE from killing active GPU work".)
DropLosesNothing ==
  destroyed => hung \/ Len(executed) > doorbell

\* Every call returns, even on a hung GPU; only wait_idle_spin may then spin.
CallsReturn ==
  \A t \in Threads :
    pc[t] # "idle" ~> pc[t] = "idle" \/ (hung /\ op[t] = "wait_idle_spin")

\* A packet whose doorbell has been rung runs, unless the GPU hangs or the
\* queue is dropped.
DoorbellRuns ==
  \A i \in Packets :
    doorbell >= i - 1 ~> Len(executed) >= i \/ hung \/ destroyed

-----------------------------------------------------------------------------
(* The queue implements the FIFO of CommandQueue *)

Awaiting(t) ==
  \/ pc[t] # "idle" /\ op[t] \in Waits
  \/ pc[t] \in {"publish", "doorbell", "poll"}
       /\ op[t] \in {"dispatch", "dispatch_signal"}

Abstract == INSTANCE CommandQueue WITH
  pending <- SubSeq(issued, Len(executed) + 1, Len(issued)),
  done    <- executed,
  awaits  <- [t \in Threads |-> IF Awaiting(t) THEN owed[t] + 1 ELSE 0],
  verdict <- [t \in Threads |-> IF out[t] \in {"ok", "err"} THEN out[t]
                                                            ELSE "none"],
  alive   <- ~destroyed

\* Taken in turns, the calls and the CP behave as a FIFO of packets.
ImplementsCommandQueue == Abstract!Spec
=============================================================================
