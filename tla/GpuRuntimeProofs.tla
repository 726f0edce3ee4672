-------------------------- MODULE GpuRuntimeProofs --------------------------
(***************************************************************************)
(* GpuRuntime for every set of programs, number of threads and slots: the  *)
(* errors of dispatch are final, read_f32 returns complete data,           *)
(* dispatch alone keeps the queue short, and with one thread every kernel  *)
(* reads the arguments of its own dispatch.                                *)
(***************************************************************************)
EXTENDS GpuRuntime, FiniteSetTheorems, SequenceTheorems, TLAPS

Steps == {"idle", "slot", "ensure", "write", "submit", "target", "wait",
          "poison"}
Outcomes == {"none", "refused", "panic", "sent", "ok", "data", "err"}

Submission == [pkt : Int, call : AllCalls, by : Threads,
               after : SUBSET Threads]

\* Types.  The capacity CapacityFor chooses does not matter here.
RuntimeTypes ==
  /\ setup \in Setups
  /\ slotCounter \in SlotIds
  /\ \E c : ring \in [len : Nat, cap : {c}, moves : Nat, poisoned : BOOLEAN]
  /\ kernargs \in [SlotIds -> Int]
  /\ poisoned \in BOOLEAN
  /\ hung \in BOOLEAN
  /\ queue \in Seq([pkt : Int, at : SlotIds \cup {Garbage}])
  /\ executed \in Seq([pkt : Int, args : Int])
  /\ submitted \in Seq(Submission)
  /\ pc \in [Threads -> Steps]
  /\ op \in [Threads -> AllCalls]
  /\ slot \in [Threads -> SlotIds]
  /\ buf \in [Threads -> Nat]
  /\ mine \in [Threads -> Int]
  /\ target \in [Threads -> Nat]
  /\ out \in [Threads -> Outcomes]
  /\ failed \in SUBSET Threads

\* The steps that come before a packet is in the queue.
Preparing == {"slot", "ensure", "write", "submit"}

\* The step a thread is at belongs to its call, which has not returned.
CallOrder ==
  \A t \in Threads :
    /\ pc[t] \in Preparing => op[t] \in Dispatches
    /\ pc[t] \in {"target", "wait"} => op[t] # "dispatch_async"
    /\ pc[t] = "poison" => op[t] = "dispatch"
    /\ pc[t] # "idle" => out[t] = "none" /\ op[t] \in setup.calls

\* Every packet submitted is in the queue or has run.
Counted == Len(submitted) = Len(executed) + Len(queue)

\* A dispatch on its way to the queue.
Dispatching(t) == pc[t] \in Preparing /\ op[t] = "dispatch"

\* A packet of dispatch that went into the queue after some dispatch had failed.
Late(i) == submitted[i].call = "dispatch" /\ submitted[i].after # {}

\* The flag is set before any dispatch returns an error, so neither a thread
\* that has failed nor one that has put a late packet in starts another.
FailureSeen ==
  /\ failed # {} => poisoned
  /\ \A t \in failed : ~Dispatching(t)
  /\ \A i \in DOMAIN submitted :
       /\ submitted[i].after \subseteq failed
       /\ Late(i) => ~Dispatching(submitted[i].by)

RuntimeInv ==
  /\ RuntimeTypes
  /\ CallOrder
  /\ Counted
  /\ FailureSeen
  /\ FailureIsFinal
  /\ ReadComplete

-----------------------------------------------------------------------------
\* The setups are programs of the runtime.
LEMMA SetupType ==
  ASSUME RuntimeTypes
  PROVE  /\ setup.threads \subseteq Threads
         /\ setup.calls \subseteq AllCalls
         /\ setup.wrap \in Nat \ {0}
         /\ setup.slots \in Nat \ {0}
         /\ setup.async \in Nat
         /\ setup.packets \in Nat
         /\ setup.slow \in BOOLEAN
         /\ setup.scarce \in BOOLEAN
BY SetupAssumption DEF RuntimeTypes, Setup

\* The counter of the slots wraps to zero and nowhere else.
LEMMA WrapLemma ==
  ASSUME NEW w \in Nat \ {0}, NEW c \in 0..w - 1
  PROVE  (c + 1) % w = IF c + 1 = w THEN 0 ELSE c + 1
OBVIOUS

\* Growing the ring changes neither its type nor the flag of its mutex.
LEMMA GrownType ==
  ASSUME RuntimeTypes, NEW n \in Nat
  PROVE  /\ \E c : GrownTo(n) \in [len : Nat, cap : {c}, moves : Nat,
                                   poisoned : BOOLEAN]
         /\ GrownTo(n).poisoned = ring.poisoned
<1> PICK c : ring \in [len : Nat, cap : {c}, moves : Nat, poisoned : BOOLEAN]
  BY DEF RuntimeTypes
<1> DEFINE cap == CapacityFor(ring.cap, n)
<1>1. CASE n <= ring.len
  BY <1>1 DEF GrownTo
<1>2. CASE ~(n <= ring.len)
  <2> DEFINE m == IF n > ring.cap THEN ring.moves + 1 ELSE ring.moves
  <2>1. GrownTo(n) = [ring EXCEPT !.len = n, !.cap = cap, !.moves = m]
    BY <1>2 DEF GrownTo
  <2>2. m \in Nat
    BY DEF RuntimeTypes
  <2> HIDE DEF cap, m
  <2>3. GrownTo(n) = [len |-> n, cap |-> cap, moves |-> m,
                      poisoned |-> ring.poisoned]
    BY <2>1
  <2>4. QED
    BY <2>2, <2>3
<1>3. QED
  BY <1>1, <1>2

\* The beginning of a dispatch, refused or not.
LEMMA DispatchTypes ==
  ASSUME RuntimeTypes, NEW t \in Threads, NEW c \in AllCalls, CallDispatch(t, c)
  PROVE  /\ pc' \in [Threads -> Steps]
         /\ op' \in [Threads -> AllCalls]
         /\ out' \in [Threads -> Outcomes]
         /\ failed' \in SUBSET Threads
<1>1. /\ pc \in [Threads -> Steps] /\ op \in [Threads -> AllCalls]
      /\ out \in [Threads -> Outcomes] /\ failed \in SUBSET Threads
      /\ poisoned \in BOOLEAN
  BY DEF RuntimeTypes
<1>2. /\ \/ /\ pc' = [pc EXCEPT ![t] = "idle"]
            /\ out' = [out EXCEPT ![t] = "refused"]
         \/ /\ pc' = [pc EXCEPT ![t] = "slot"]
            /\ out' = [out EXCEPT ![t] = "none"]
      /\ op' = [op EXCEPT ![t] = c]
      /\ failed' \in {failed, failed \cup {t}}
  BY DEF CallDispatch, Goto, Return
<1>3. QED
  BY <1>1, <1>2 DEF Steps, Outcomes

\* A packet goes from the queue to the history with what its slot holds.
LEMMA RunTypes ==
  ASSUME RuntimeTypes, GpuRun
  PROVE  RuntimeTypes'
<1> DEFINE S == [pkt : Int, at : SlotIds \cup {Garbage}]
           q == Head(queue)
           e == [pkt |-> q.pkt, args |-> IF q.at = Garbage THEN Garbage
                                                     ELSE kernargs[q.at]]
<1>1. /\ queue \in Seq(S) /\ executed \in Seq([pkt : Int, args : Int])
      /\ kernargs \in [SlotIds -> Int]
  BY DEF RuntimeTypes
<1>2. queue # << >> /\ queue' = Tail(queue) /\ executed' = Append(executed, e)
  BY DEF GpuRun
<1>3. queue' \in Seq(S) /\ q \in S
  BY <1>1, <1>2, HeadTailProperties
<1>4. e \in [pkt : Int, args : Int]
  BY <1>1, <1>3 DEF Garbage
<1>5. executed' \in Seq([pkt : Int, args : Int])
  <2> HIDE DEF e
  <2>1. QED
    BY <1>1, <1>2, <1>4, AppendProperties
<1>6. UNCHANGED <<setup, slotCounter, ring, kernargs, poisoned, hung, pc, op,
                  slot, buf, mine, target, out, failed, submitted, SlotIds>>
  BY DEF GpuRun, SlotIds, pool, calls
<1>7. queue' \in Seq([pkt : Int, at : SlotIds \cup {Garbage}]')
  BY <1>3, <1>6
<1>8. QED
  BY <1>5, <1>6, <1>7 DEF RuntimeTypes

\* Every step keeps the types, one action at a time.
LEMMA TypesStep ==
  ASSUME RuntimeTypes, CallOrder, [Next]_vars
  PROVE  RuntimeTypes'
<1>0. /\ setup.threads \subseteq Threads
      /\ setup.calls \subseteq AllCalls
      /\ setup.wrap \in Nat \ {0}
      /\ setup.packets \in Nat
  BY SetupType
<1> USE <1>0 DEF RuntimeTypes, Steps, Outcomes, vars, gpu, pool, calls, Goto,
        Return
<1>1. ASSUME NEW t \in setup.threads, NEW c \in setup.calls \cap Dispatches,
             CallDispatch(t, c)
      PROVE  RuntimeTypes'
  <2>1. Unused \subseteq Int
    BY DEF Unused, Packets
  <2>2. (CHOOSE p \in Unused : TRUE) \in Int
    <3>1. \E p \in Unused : TRUE
      BY <1>1 DEF CallDispatch
    <3> DEFINE p == CHOOSE p \in Unused : TRUE
    <3>2. p \in Unused
      BY <3>1, Zenon
    <3>3. QED
      BY <2>1, <3>2
  <2>3. mine' \in [Threads -> Int]
    <3> DEFINE p == CHOOSE p \in Unused : TRUE
    <3>1. \/ mine' = [mine EXCEPT ![t] = NoPacket]
          \/ mine' = [mine EXCEPT ![t] = p]
      BY <1>1 DEF CallDispatch
    <3>2. p \in Int
      BY <2>2
    <3> HIDE DEF p
    <3>3. QED
      BY <3>1, <3>2 DEF NoPacket
  <2>4. /\ pc' \in [Threads -> Steps]
        /\ op' \in [Threads -> AllCalls]
        /\ out' \in [Threads -> Outcomes]
        /\ failed' \in SUBSET Threads
    <3>1. t \in Threads /\ c \in AllCalls
      BY <1>1
    <3>2. QED
      BY <1>1, <3>1, DispatchTypes
  <2>5. UNCHANGED <<setup, slotCounter, pool, poisoned, gpu, slot, buf, target,
                    submitted>>
    BY <1>1 DEF CallDispatch
  <2>6. QED
    BY <2>3, <2>4, <2>5 DEF SlotIds
<1>2. ASSUME NEW t \in setup.threads, NEW c \in setup.calls \ Dispatches,
             CallWait(t, c)
      PROVE  RuntimeTypes'
  <2>1. c \in AllCalls
    BY <1>2
  <2>2. mine' \in [Threads -> Int]
    BY <1>2 DEF CallWait, NoPacket
  <2>3. /\ pc' \in [Threads -> Steps]
        /\ op' \in [Threads -> AllCalls]
        /\ out' \in [Threads -> Outcomes]
    BY <1>2, <2>1 DEF CallWait
  <2>4. UNCHANGED <<setup, slotCounter, pool, poisoned, gpu, slot, buf, target,
                    failed, submitted>>
    BY <1>2 DEF CallWait
  <2>5. QED
    BY <2>2, <2>3, <2>4 DEF SlotIds
<1>3. ASSUME NEW t \in setup.threads, NextSlot(t)
      PROVE  RuntimeTypes'
  <2>1. slotCounter' \in SlotIds
    <3> DEFINE w == setup.wrap
    <3>1. w \in Nat \ {0} /\ slotCounter \in 0..w - 1
      BY DEF SlotIds
    <3>2. slotCounter' = (slotCounter + 1) % w /\ setup' = setup
      BY <1>3 DEF NextSlot
    <3> HIDE DEF w
    <3>3. slotCounter' \in 0..w - 1
      BY <3>1, <3>2, WrapLemma
    <3>4. QED
      BY <3>2, <3>3 DEF w, SlotIds
  <2>2. QED
    BY <1>3, <2>1 DEF NextSlot, SlotIds
<1>4. ASSUME NEW t \in setup.threads, EnsureSlot(t)
      PROVE  RuntimeTypes'
  <2>1. slot[t] + 1 \in Nat
    BY DEF SlotIds
  <2>2. \E c : ring' \in [len : Nat, cap : {c}, moves : Nat, poisoned : BOOLEAN]
    BY <1>4, <2>1, GrownType DEF EnsureSlot
  <2>3. UNCHANGED <<setup, slotCounter, kernargs, poisoned, gpu, calls,
                    submitted>>
    BY <1>4 DEF EnsureSlot
  <2>4. pc' \in [Threads -> Steps]
    BY <1>4 DEF EnsureSlot
  <2>5. QED
    BY <2>2, <2>3, <2>4 DEF SlotIds
<1>5. ASSUME NEW t \in setup.threads, EnsureSlotPanics(t)
      PROVE  RuntimeTypes'
  <2>1. \E c : ring' \in [len : Nat, cap : {c}, moves : Nat, poisoned : BOOLEAN]
    <3>1. CASE UNCHANGED ring
      BY <3>1
    <3>2. ASSUME NEW n \in ring.len..slot[t],
                 ring' = [GrownTo(n) EXCEPT !.poisoned = TRUE]
          PROVE  \E c : ring' \in [len : Nat, cap : {c}, moves : Nat,
                                   poisoned : BOOLEAN]
      <4>1. n \in Nat
        BY DEF SlotIds
      <4>2. PICK c : GrownTo(n) \in [len : Nat, cap : {c}, moves : Nat,
                                     poisoned : BOOLEAN]
        BY <4>1, GrownType
      <4>3. ring' \in [len : Nat, cap : {c}, moves : Nat, poisoned : BOOLEAN]
        BY <3>2, <4>2
      <4>4. QED
        BY <4>3
    <3>3. QED
      BY <1>5, <3>1, <3>2 DEF EnsureSlotPanics
  <2>2. UNCHANGED <<setup, slotCounter, kernargs, poisoned, gpu, op, slot, buf,
                    mine, target, submitted>>
    BY <1>5 DEF EnsureSlotPanics
  <2>3. /\ pc' \in [Threads -> Steps] /\ out' \in [Threads -> Outcomes]
        /\ failed' \in SUBSET Threads
    BY <1>5 DEF EnsureSlotPanics
  <2>4. QED
    BY <2>1, <2>2, <2>3 DEF SlotIds
<1>6. ASSUME NEW t \in setup.threads, WriteKernargs(t)
      PROVE  RuntimeTypes'
  <2>1. kernargs' \in [SlotIds -> Int]
    BY <1>6 DEF WriteKernargs
  <2>2. buf' \in [Threads -> Nat]
    BY <1>6 DEF WriteKernargs
  <2>3. QED
    BY <1>6, <2>1, <2>2 DEF WriteKernargs, SlotIds
<1>7. ASSUME NEW t \in setup.threads, Submit(t)
      PROVE  RuntimeTypes'
  <2>1. KernargAddress(t) \subseteq SlotIds \cup {Garbage}
    BY DEF KernargAddress
  <2>2. queue' \in Seq([pkt : Int, at : SlotIds \cup {Garbage}])
    BY <1>7, <2>1, AppendProperties DEF Submit
  <2>3. submitted' \in Seq(Submission)
    BY <1>7, AppendProperties DEF Submit, Submission
  <2>4. /\ pc' \in [Threads -> Steps] /\ out' \in [Threads -> Outcomes]
        /\ failed' \in SUBSET Threads
    <3>1. CASE op[t] = "dispatch_async"
      <4>1. /\ pc' = [pc EXCEPT ![t] = "idle"] /\ out' = [out EXCEPT ![t] = "sent"]
            /\ failed' \in {failed, failed \cup {t}}
        BY <1>7, <3>1 DEF Submit
      <4>2. QED
        BY <1>7, <4>1
    <3>2. CASE op[t] # "dispatch_async"
      <4>1. pc' = [pc EXCEPT ![t] = "target"] /\ out' = out /\ failed' = failed
        BY <1>7, <3>2 DEF Submit
      <4>2. QED
        BY <1>7, <4>1
    <3>3. QED
      BY <3>1, <3>2
  <2>5. UNCHANGED <<setup, slotCounter, pool, poisoned, executed, hung, op,
                    slot, buf, mine, target>>
    BY <1>7 DEF Submit
  <2>6. QED
    BY <2>2, <2>3, <2>4, <2>5 DEF SlotIds
<1>8. ASSUME NEW t \in setup.threads, ReadTarget(t)
      PROVE  RuntimeTypes'
  BY <1>8, LenProperties DEF ReadTarget, SlotIds
<1>9. ASSUME NEW t \in setup.threads, WaitOk(t)
      PROVE  RuntimeTypes'
  BY <1>9 DEF WaitOk, SlotIds
<1>10. ASSUME NEW t \in setup.threads, WaitTimeout(t)
       PROVE  RuntimeTypes'
  <2>1. op[t] \in {"dispatch", "read_f32", "wait_idle"}
    BY <1>10 DEF WaitTimeout, CallOrder, AllCalls
  <2>2. /\ pc' \in [Threads -> Steps] /\ out' \in [Threads -> Outcomes]
        /\ failed' \in SUBSET Threads
    <3>1. CASE op[t] = "dispatch"
      BY <1>10, <3>1 DEF WaitTimeout
    <3>2. ASSUME NEW how \in {"data", "err"}, Return(t, how)
          PROVE  /\ pc' \in [Threads -> Steps] /\ out' \in [Threads -> Outcomes]
                 /\ failed' \in SUBSET Threads
      <4>1. /\ pc' = [pc EXCEPT ![t] = "idle"] /\ out' = [out EXCEPT ![t] = how]
            /\ failed' \in {failed, failed \cup {t}}
        BY <3>2
      <4>2. QED
        BY <1>10, <4>1
    <3>3. op[t] # "dispatch" => \E how \in {"data", "err"} : Return(t, how)
      BY <1>10, <2>1 DEF WaitTimeout
    <3>4. QED
      BY <3>1, <3>2, <3>3
  <2>3. UNCHANGED <<setup, slotCounter, pool, poisoned, gpu, op, slot, buf,
                    mine, target, submitted>>
    BY <1>10 DEF WaitTimeout
  <2>4. QED
    BY <2>2, <2>3 DEF SlotIds
<1>11. ASSUME NEW t \in setup.threads, MarkPoisoned(t)
       PROVE  RuntimeTypes'
  BY <1>11 DEF MarkPoisoned, SlotIds
<1>12. CASE GpuRun
  BY <1>12, RunTypes
<1>13. CASE GpuHang \/ UNCHANGED vars
  <2>1. UNCHANGED <<setup, slotCounter, ring, kernargs, poisoned, queue, executed,
                    pc, op, slot, buf, mine, target, out, failed, submitted,
                    SlotIds>>
    BY <1>13 DEF GpuHang, SlotIds
  <2>2. hung' \in BOOLEAN
    BY <1>13 DEF GpuHang
  <2>3. QED
    BY <2>1, <2>2
<1> HIDE DEF RuntimeTypes, Steps, Outcomes, Goto, Return
<1>14. QED
  BY <1>1, <1>2, <1>3, <1>4, <1>5, <1>6, <1>7, <1>8, <1>9, <1>10, <1>11,
     <1>12, <1>13 DEF Next, Step

-----------------------------------------------------------------------------
\* A thread passes from step to step inside one call.
LEMMA CallOrderStep ==
  ASSUME RuntimeTypes, CallOrder, [Next]_vars
  PROVE  CallOrder'
<1>0. setup.threads \subseteq Threads /\ setup.calls \subseteq AllCalls
  BY SetupType
<1> USE <1>0 DEF RuntimeTypes, CallOrder, Preparing, vars, gpu, pool, calls,
        Goto, Return
<1>1. ASSUME NEW t \in setup.threads, NEW c \in setup.calls \cap Dispatches,
             CallDispatch(t, c)
      PROVE  CallOrder'
  <2>1. /\ op' = [op EXCEPT ![t] = c] /\ setup' = setup
        /\ \/ pc' = [pc EXCEPT ![t] = "idle"]
           \/ /\ pc' = [pc EXCEPT ![t] = "slot"]
              /\ out' = [out EXCEPT ![t] = "none"]
        /\ \A u \in Threads \ {t} : out'[u] = out[u]
    BY <1>1 DEF CallDispatch
  <2>2. QED
    BY <2>1
<1>2. ASSUME NEW t \in setup.threads, NEW c \in setup.calls \ Dispatches,
             CallWait(t, c)
      PROVE  CallOrder'
  BY <1>2 DEF CallWait, Dispatches
<1>3. ASSUME NEW t \in setup.threads,
             NextSlot(t) \/ EnsureSlot(t) \/ WriteKernargs(t)
      PROVE  CallOrder'
  BY <1>3 DEF NextSlot, EnsureSlot, WriteKernargs
<1>4. ASSUME NEW t \in setup.threads, EnsureSlotPanics(t)
      PROVE  CallOrder'
  BY <1>4 DEF EnsureSlotPanics
<1>5. ASSUME NEW t \in setup.threads, Submit(t)
      PROVE  CallOrder'
  BY <1>5 DEF Submit
<1>6. ASSUME NEW t \in setup.threads, ReadTarget(t) \/ WaitOk(t)
      PROVE  CallOrder'
  BY <1>6 DEF ReadTarget, WaitOk
<1>7. ASSUME NEW t \in setup.threads, WaitTimeout(t)
      PROVE  CallOrder'
  <2>1. op[t] \in {"dispatch", "read_f32", "wait_idle"}
    BY <1>7 DEF WaitTimeout, AllCalls
  <2>2. pc[t] = "wait" /\ UNCHANGED <<setup, op>>
    BY <1>7 DEF WaitTimeout
  <2>3. \/ op[t] = "dispatch" /\ pc' = [pc EXCEPT ![t] = "poison"] /\ out' = out
        \/ /\ pc' = [pc EXCEPT ![t] = "idle"]
           /\ \A u \in Threads \ {t} : out'[u] = out[u]
    BY <1>7, <2>1 DEF WaitTimeout
  <2>4. QED
    BY <2>2, <2>3
<1>8. ASSUME NEW t \in setup.threads, MarkPoisoned(t)
      PROVE  CallOrder'
  BY <1>8 DEF MarkPoisoned
<1>9. CASE GpuRun \/ GpuHang \/ UNCHANGED vars
  BY <1>9 DEF GpuRun, GpuHang
<1>10. QED
  BY <1>1, <1>2, <1>3, <1>4, <1>5, <1>6, <1>7, <1>8, <1>9 DEF Next, Step

\* Only Submit and GpuRun move packets.
LEMMA PacketsKept ==
  ASSUME RuntimeTypes, [Next]_vars
  PROVE  \/ \E t \in setup.threads : Submit(t)
         \/ GpuRun
         \/ UNCHANGED <<queue, executed, submitted>>
<1> USE DEF vars, gpu, pool, calls
<1>1. ASSUME NEW t \in setup.threads, NEW c,
             CallDispatch(t, c) \/ CallWait(t, c)
      PROVE  UNCHANGED <<queue, executed, submitted>>
  BY <1>1 DEF CallDispatch, CallWait
<1>2. ASSUME NEW t \in setup.threads, Step(t), ~Submit(t)
      PROVE  UNCHANGED <<queue, executed, submitted>>
  BY <1>2 DEF Step, NextSlot, EnsureSlot, EnsureSlotPanics, WriteKernargs,
     ReadTarget, WaitOk, WaitTimeout, MarkPoisoned
<1>3. CASE GpuHang \/ UNCHANGED vars
  BY <1>3 DEF GpuHang
<1>4. QED
  BY <1>1, <1>2, <1>3 DEF Next

\* What the two do to the lengths.
LEMMA SubmitLengths ==
  ASSUME RuntimeTypes, NEW t \in setup.threads, Submit(t)
  PROVE  /\ Len(queue') = Len(queue) + 1
         /\ Len(submitted') = Len(submitted) + 1
         /\ executed' = executed
         /\ \A i \in 1..Len(queue) : queue'[i] = queue[i]
         /\ \A i \in DOMAIN submitted : submitted'[i] = submitted[i]
         /\ \E at \in KernargAddress(t) :
              queue'[Len(queue) + 1] = [pkt |-> mine[t], at |-> at]
         /\ DOMAIN submitted' = DOMAIN submitted \cup {Len(submitted) + 1}
         /\ submitted'[Len(submitted) + 1] =
              [pkt |-> mine[t], call |-> op[t], by |-> t, after |-> failed]
<1> DEFINE S == [pkt : Int, at : SlotIds \cup {Garbage}]
           H == Submission
           h == [pkt |-> mine[t], call |-> op[t], by |-> t, after |-> failed]
<1>1. setup.threads \subseteq Threads
  BY SetupType
<1>2. PICK at \in KernargAddress(t) :
        queue' = Append(queue, [pkt |-> mine[t], at |-> at])
  BY DEF Submit
<1>3. [pkt |-> mine[t], at |-> at] \in S
  BY <1>1, <1>2 DEF KernargAddress, RuntimeTypes
<1>4. h \in H /\ submitted' = Append(submitted, h) /\ executed' = executed
  BY <1>1 DEF Submit, RuntimeTypes, Submission
<1>5. queue \in Seq(S) /\ submitted \in Seq(H)
  BY DEF RuntimeTypes
<1>6. /\ Len(queue') = Len(queue) + 1
      /\ \A i \in 1..Len(queue) : queue'[i] = queue[i]
      /\ queue'[Len(queue) + 1] = [pkt |-> mine[t], at |-> at]
  BY <1>2, <1>3, <1>5, AppendProperties
<1> HIDE DEF H, h
<1>7. /\ Len(submitted') = Len(submitted) + 1
      /\ submitted' \in Seq(H)
      /\ \A i \in 1..Len(submitted) : submitted'[i] = submitted[i]
      /\ submitted'[Len(submitted) + 1] = h
  BY <1>4, <1>5, AppendProperties
<1>8. /\ DOMAIN submitted = 1..Len(submitted)
      /\ DOMAIN submitted' = 1..Len(submitted) + 1
      /\ Len(submitted) \in Nat
  BY <1>5, <1>7, LenProperties
<1>9. DOMAIN submitted' = DOMAIN submitted \cup {Len(submitted) + 1}
  BY <1>8
<1>10. QED
  BY <1>4, <1>6, <1>7, <1>8, <1>9 DEF h

\* The GPU moves the oldest packet from the queue into the history.
LEMMA RunLengths ==
  ASSUME RuntimeTypes, GpuRun
  PROVE  /\ Len(queue) > 0
         /\ Len(queue') = Len(queue) - 1
         /\ Len(executed') = Len(executed) + 1
         /\ submitted' = submitted
         /\ \A i \in 1..Len(queue') : queue'[i] = queue[i + 1]
         /\ \A i \in 1..Len(executed) : executed'[i] = executed[i]
         /\ executed'[Len(executed) + 1] =
              [pkt |-> queue[1].pkt,
               args |-> IF queue[1].at = Garbage THEN Garbage
                                                 ELSE kernargs[queue[1].at]]
<1> DEFINE S == [pkt : Int, at : SlotIds \cup {Garbage}]
           E == [pkt : Int, args : Int]
           e == [pkt |-> queue[1].pkt,
                 args |-> IF queue[1].at = Garbage THEN Garbage
                                                   ELSE kernargs[queue[1].at]]
<1>1. queue \in Seq(S) /\ executed \in Seq(E) /\ queue # << >>
  BY DEF RuntimeTypes, GpuRun
<1>2. /\ Len(queue) \in Nat \ {0}
      /\ Head(queue) = queue[1]
      /\ queue[1] \in S
  <2> HIDE DEF S
  <2>1. Len(queue) \in Nat \ {0}
    BY <1>1, EmptySeq
  <2>2. queue[1] \in S
    BY <1>1, <2>1, LenProperties
  <2>3. QED
    BY <2>1, <2>2
<1>3. e \in E
  BY <1>2 DEF RuntimeTypes, Garbage
<1>4. /\ executed' = Append(executed, e)
      /\ queue' = Tail(queue)
      /\ submitted' = submitted
  BY <1>2 DEF GpuRun
<1> HIDE DEF S, E, e
<1>5. /\ Len(queue') = Len(queue) - 1
      /\ \A i \in 1..Len(queue') : queue'[i] = queue[i + 1]
  BY <1>1, <1>4, HeadTailProperties
<1>6. /\ Len(executed') = Len(executed) + 1
      /\ \A i \in 1..Len(executed) : executed'[i] = executed[i]
      /\ executed'[Len(executed) + 1] = e
  BY <1>1, <1>3, <1>4, AppendProperties
<1>7. QED
  BY <1>2, <1>4, <1>5, <1>6 DEF e

\* The lengths of queue and history as numbers.
LEMMA LengthTypes ==
  ASSUME RuntimeTypes
  PROVE  Len(queue) \in Nat /\ Len(executed) \in Nat /\ Len(submitted) \in Nat
BY LenProperties DEF RuntimeTypes

\* A packet leaves the queue exactly when it enters the history.
LEMMA CountedStep ==
  ASSUME RuntimeTypes, Counted, [Next]_vars
  PROVE  Counted'
<1>1. CASE \E t \in setup.threads : Submit(t)
  <2>1. /\ Len(queue') = Len(queue) + 1
        /\ Len(submitted') = Len(submitted) + 1
        /\ executed' = executed
    BY <1>1, SubmitLengths
  <2>2. QED
    BY <2>1, LengthTypes DEF Counted
<1>2. CASE GpuRun
  <2>1. /\ Len(queue') = Len(queue) - 1
        /\ Len(executed') = Len(executed) + 1
        /\ submitted' = submitted
    BY <1>2, RunLengths
  <2>2. QED
    BY <2>1, LengthTypes DEF Counted
<1>3. CASE UNCHANGED <<queue, executed, submitted>>
  BY <1>3 DEF Counted
<1>4. QED
  BY <1>1, <1>2, <1>3, PacketsKept

-----------------------------------------------------------------------------
\* Only a dispatch that is refused, or that has set the flag, fails.
LEMMA FailedStep ==
  ASSUME RuntimeTypes, CallOrder, [Next]_vars
  PROVE  /\ poisoned => poisoned'
         /\ \/ failed' = failed
            \/ \E t \in Threads : /\ failed' = failed \cup {t}
                                  /\ poisoned' /\ pc'[t] = "idle"
<1>0. setup.threads \subseteq Threads /\ setup.calls \subseteq AllCalls
  BY SetupType
<1> USE <1>0 DEF RuntimeTypes, vars, gpu, pool, calls, Goto, Return,
        DispatchError
<1>1. ASSUME NEW t \in setup.threads, NEW c \in setup.calls \cap Dispatches,
             CallDispatch(t, c)
      PROVE  /\ poisoned' = poisoned
             /\ \/ failed' = failed
                \/ /\ failed' = failed \cup {t}
                   /\ poisoned' /\ pc'[t] = "idle"
  BY <1>1 DEF CallDispatch, RefuseWhenPoisoned
<1>2. ASSUME NEW t \in setup.threads, NEW c, CallWait(t, c)
      PROVE  UNCHANGED <<poisoned, failed>>
  BY <1>2 DEF CallWait
<1>3. ASSUME NEW t \in setup.threads,
             \/ NextSlot(t) \/ EnsureSlot(t) \/ EnsureSlotPanics(t)
             \/ WriteKernargs(t) \/ Submit(t) \/ ReadTarget(t) \/ WaitOk(t)
      PROVE  UNCHANGED <<poisoned, failed>>
  BY <1>3 DEF NextSlot, EnsureSlot, EnsureSlotPanics, WriteKernargs, Submit,
     ReadTarget, WaitOk
<1>4. ASSUME NEW t \in setup.threads, WaitTimeout(t)
      PROVE  UNCHANGED <<poisoned, failed>>
  <2>1. op[t] \in {"dispatch", "read_f32", "wait_idle"}
    BY <1>4 DEF WaitTimeout, CallOrder, AllCalls
  <2>2. QED
    BY <1>4, <2>1 DEF WaitTimeout
<1>5. ASSUME NEW t \in setup.threads, MarkPoisoned(t)
      PROVE  /\ poisoned' /\ pc'[t] = "idle"
             /\ failed' \in {failed, failed \cup {t}}
  BY <1>5 DEF MarkPoisoned
<1>6. CASE GpuRun \/ GpuHang \/ UNCHANGED vars
  BY <1>6 DEF GpuRun, GpuHang
<1> HIDE DEF RuntimeTypes, Goto, Return
<1>7. QED
  BY <1>1, <1>2, <1>3, <1>4, <1>5, <1>6 DEF Next, Step

\* A thread starts on its way to the queue by reading the flag.
LEMMA DispatchingStep ==
  ASSUME RuntimeTypes, CallOrder, [Next]_vars, NEW u \in Threads,
         Dispatching(u)'
  PROVE  Dispatching(u) \/ ~poisoned
<1>0. setup.threads \subseteq Threads /\ setup.calls \subseteq AllCalls
  BY SetupType
<1> USE <1>0 DEF RuntimeTypes, Dispatching, Preparing, vars, gpu, pool, calls,
        Goto, Return
<1>1. ASSUME NEW t \in setup.threads, NEW c \in setup.calls \cap Dispatches,
             CallDispatch(t, c)
      PROVE  Dispatching(u) \/ ~poisoned
  BY <1>1 DEF CallDispatch, RefuseWhenPoisoned
<1>2. ASSUME NEW t \in setup.threads, NEW c, CallWait(t, c)
      PROVE  Dispatching(u)
  BY <1>2 DEF CallWait
<1>3. ASSUME NEW t \in setup.threads,
             NextSlot(t) \/ EnsureSlot(t) \/ WriteKernargs(t)
      PROVE  Dispatching(u)
  BY <1>3 DEF NextSlot, EnsureSlot, WriteKernargs
<1>4. ASSUME NEW t \in setup.threads,
             \/ EnsureSlotPanics(t) \/ Submit(t) \/ ReadTarget(t)
             \/ WaitOk(t) \/ MarkPoisoned(t)
      PROVE  Dispatching(u)
  BY <1>4 DEF EnsureSlotPanics, Submit, ReadTarget, WaitOk, MarkPoisoned
<1>5. ASSUME NEW t \in setup.threads, WaitTimeout(t)
      PROVE  Dispatching(u)
  <2>1. op[t] \in {"dispatch", "read_f32", "wait_idle"}
    BY <1>5 DEF WaitTimeout, CallOrder, AllCalls
  <2>2. QED
    BY <1>5, <2>1 DEF WaitTimeout
<1>6. CASE GpuRun \/ GpuHang \/ UNCHANGED vars
  BY <1>6 DEF GpuRun, GpuHang
<1>7. QED
  BY <1>1, <1>2, <1>3, <1>4, <1>5, <1>6 DEF Next, Step

\* Submit adds to the record of submissions, for a thread that was on its way
\* and no longer is; nothing else adds to it.
LEMMA SubmittedStep ==
  ASSUME RuntimeTypes, [Next]_vars
  PROVE  \/ UNCHANGED submitted
         \/ \E t \in Threads, n \in Nat :
              /\ pc[t] \in Preparing /\ pc'[t] \notin Preparing
              /\ failed' = failed
              /\ DOMAIN submitted' = DOMAIN submitted \cup {n}
              /\ n \notin DOMAIN submitted
              /\ \A i \in DOMAIN submitted : submitted'[i] = submitted[i]
              /\ submitted'[n].call = op[t]
              /\ submitted'[n].by = t
              /\ submitted'[n].after = failed
<1>1. ASSUME NEW t \in setup.threads, Submit(t)
      PROVE  \E u \in Threads, n \in Nat :
               /\ pc[u] \in Preparing /\ pc'[u] \notin Preparing
               /\ failed' = failed
               /\ DOMAIN submitted' = DOMAIN submitted \cup {n}
               /\ n \notin DOMAIN submitted
               /\ \A i \in DOMAIN submitted : submitted'[i] = submitted[i]
               /\ submitted'[n].call = op[u]
               /\ submitted'[n].by = u
               /\ submitted'[n].after = failed
  <2> DEFINE n == Len(submitted) + 1
  <2>1. t \in Threads
    BY SetupType
  <2>2. /\ DOMAIN submitted' = DOMAIN submitted \cup {n}
        /\ \A i \in DOMAIN submitted : submitted'[i] = submitted[i]
        /\ submitted'[n] = [pkt |-> mine[t], call |-> op[t], by |-> t,
                             after |-> failed]
    BY <1>1, SubmitLengths
  <2>3. n \in Nat /\ n \notin DOMAIN submitted
    BY LenProperties DEF RuntimeTypes
  <2>4. pc[t] \in Preparing /\ pc'[t] \notin Preparing /\ failed' = failed
    BY <1>1, <2>1
       DEF Submit, Goto, Return, DispatchError, Preparing, RuntimeTypes
  <2> HIDE DEF n
  <2>5. /\ submitted'[n].call = op[t] /\ submitted'[n].by = t
        /\ submitted'[n].after = failed
    BY <2>2
  <2>6. QED
    BY <2>1, <2>2, <2>3, <2>4, <2>5, Zenon
<1>2. QED
  BY <1>1, PacketsKept, RunLengths

\* The first error comes after the flag is set, and what was on its way by then
\* is at most one packet of each other thread.
LEMMA FailureStep ==
  ASSUME RuntimeTypes, CallOrder, FailureSeen, FailureIsFinal, [Next]_vars
  PROVE  FailureSeen' /\ FailureIsFinal'
<1> DEFINE Will(u) == pc'[u] \in Preparing /\ op'[u] = "dispatch"
<1>1. /\ poisoned => poisoned'
      /\ \/ failed' = failed
         \/ \E t \in Threads : /\ failed' = failed \cup {t}
                               /\ poisoned' /\ pc'[t] = "idle"
  BY FailedStep
<1>2. \A u \in Threads : Will(u) => Dispatching(u) \/ ~poisoned
  BY DispatchingStep DEF Dispatching
<1>3. /\ failed \subseteq failed'
      /\ failed' # {} => poisoned'
      /\ failed \in SUBSET Threads
      /\ \A i \in DOMAIN submitted : submitted[i].by \in Threads
  <2>1. ASSUME NEW i \in DOMAIN submitted PROVE submitted[i].by \in Threads
    <3>1. submitted[i] \in Submission
      BY LenProperties DEF RuntimeTypes
    <3>2. QED
      BY <3>1 DEF Submission
  <2>2. QED
    BY <1>1, <2>1 DEF FailureSeen, RuntimeTypes
<1>4. \A u \in failed' : ~Will(u)
  <2>1. \A u \in failed : ~Will(u)
    BY <1>2, <1>3 DEF FailureSeen
  <2>2. \A t \in Threads : pc'[t] = "idle" => ~Will(t)
    BY DEF Dispatching, Preparing
  <2>3. QED
    BY <1>1, <2>1, <2>2
\* A late packet was late before, and its thread had not started again.
<1>5. ASSUME NEW i \in DOMAIN submitted, Late(i)
      PROVE  ~Will(submitted[i].by)
  <2>1. failed # {}
    BY <1>5 DEF Late, FailureSeen
  <2>2. QED
    BY <1>2, <1>3, <1>5, <2>1 DEF FailureSeen
<1>6. CASE UNCHANGED submitted
  <2>1. \A i : Late(i)' = Late(i)
    BY <1>6 DEF Late
  <2>2. FailureIsFinal'
    BY <1>6 DEF FailureIsFinal
  <2>3. QED
    BY <1>3, <1>4, <1>5, <1>6, <2>1, <2>2 DEF FailureSeen, Dispatching
<1>7. CASE ~UNCHANGED submitted
  <2>1. PICK t \in Threads, n \in Nat :
          /\ pc[t] \in Preparing /\ pc'[t] \notin Preparing
          /\ failed' = failed
          /\ DOMAIN submitted' = DOMAIN submitted \cup {n}
          /\ n \notin DOMAIN submitted
          /\ \A i \in DOMAIN submitted : submitted'[i] = submitted[i]
          /\ submitted'[n].call = op[t]
          /\ submitted'[n].by = t
          /\ submitted'[n].after = failed
    BY <1>7, SubmittedStep
  <2>2. ~Will(t)
    BY <2>1 DEF Dispatching
  <2>3. FailureSeen'
    <3>1. ASSUME NEW i \in DOMAIN submitted'
          PROVE  /\ submitted'[i].after \subseteq failed'
                 /\ Late(i)' => ~Will(submitted'[i].by)
      <4>1. CASE i = n
        BY <2>1, <2>2, <4>1 DEF Dispatching
      <4>2. CASE i \in DOMAIN submitted
        BY <1>3, <1>5, <2>1, <4>2 DEF Late, FailureSeen, Dispatching
      <4>3. QED
        BY <2>1, <3>1, <4>1, <4>2
    <3>2. QED
      BY <1>3, <1>4, <3>1 DEF FailureSeen, Dispatching
  \* t was on its way: it had no error, and no late packet yet.
  <2>4. Late(n)' => /\ t \notin failed
                    /\ \A j \in DOMAIN submitted : Late(j) => submitted[j].by # t
    BY <2>1 DEF Late, FailureSeen, Dispatching
  <2>5. \A j \in DOMAIN submitted : Late(j)' = Late(j)
    BY <2>1 DEF Late
  <2>6. ASSUME NEW i \in DOMAIN submitted', Late(i)'
        PROVE  /\ submitted'[i].by \notin submitted'[i].after
               /\ \A j \in DOMAIN submitted' :
                    Late(j)' /\ submitted'[j].by = submitted'[i].by => j = i
    <3>1. CASE i = n
      BY <2>1, <2>4, <2>5, <2>6, <3>1
    <3>2. CASE i \in DOMAIN submitted
      <4>1. Late(i)
        BY <2>5, <2>6, <3>2
      <4>2. /\ submitted[i].by \notin submitted[i].after
            /\ \A j \in DOMAIN submitted :
                 Late(j) /\ submitted[j].by = submitted[i].by => j = i
        BY <3>2, <4>1 DEF FailureIsFinal, Late
      <4>3. QED
        BY <2>1, <2>4, <2>5, <3>2, <4>1, <4>2
    <3>3. QED
      BY <2>1, <2>6, <3>1, <3>2
  <2>7. FailureIsFinal'
    BY <2>6 DEF FailureIsFinal, Late
  <2>8. QED
    BY <2>3, <2>7
<1>8. QED
  BY <1>6, <1>7

-----------------------------------------------------------------------------
\* A read ends when what it waits for has run, or when its wait has failed.
LEMMA ReadStep ==
  ASSUME RuntimeTypes, CallOrder, ReadComplete, [Next]_vars
  PROVE  ReadComplete'
<1>0. setup.threads \subseteq Threads
  BY SetupType
<1> USE <1>0 DEF RuntimeTypes, ReadComplete, vars, gpu, pool, calls, Goto,
        Return
<1>1. ASSUME NEW t \in setup.threads, NEW c, CallDispatch(t, c)
      PROVE  ReadComplete'
  <2>1. CASE RefuseWhenPoisoned(c)
    BY <1>1, <2>1 DEF CallDispatch
  <2>2. CASE ~RefuseWhenPoisoned(c)
    BY <1>1, <2>2 DEF CallDispatch
  <2>3. QED
    BY <2>1, <2>2
<1>2. ASSUME NEW t \in setup.threads, NEW c, CallWait(t, c)
      PROVE  ReadComplete'
  BY <1>2 DEF CallWait
<1>3. ASSUME NEW t \in setup.threads,
             NextSlot(t) \/ EnsureSlot(t) \/ WriteKernargs(t)
      PROVE  ReadComplete'
  BY <1>3 DEF NextSlot, EnsureSlot, WriteKernargs
<1>4. ASSUME NEW t \in setup.threads, EnsureSlotPanics(t) \/ Submit(t)
      PROVE  ReadComplete'
  BY <1>4 DEF EnsureSlotPanics, Submit
<1>5. ASSUME NEW t \in setup.threads, ReadTarget(t)
      PROVE  ReadComplete'
  BY <1>5 DEF ReadTarget, CallOrder
<1>6. ASSUME NEW t \in setup.threads, WaitOk(t)
      PROVE  ReadComplete'
  BY <1>6 DEF WaitOk, Idle
<1>7. ASSUME NEW t \in setup.threads, WaitTimeout(t)
      PROVE  ReadComplete'
  <2>1. /\ hung \/ setup.slow
        /\ UNCHANGED <<setup, hung>>
    BY <1>7 DEF WaitTimeout
  <2>2. QED
    BY <2>1
<1>8. ASSUME NEW t \in setup.threads, MarkPoisoned(t)
      PROVE  ReadComplete'
  BY <1>8 DEF MarkPoisoned
<1>9. CASE GpuRun
  <2>1. Len(executed') = Len(executed) + 1
    BY <1>9, RunLengths
  <2>2. UNCHANGED <<setup, hung, out, target>>
    BY <1>9 DEF GpuRun
  <2>3. QED
    BY <2>1, <2>2, LengthTypes
<1>10. CASE GpuHang \/ UNCHANGED vars
  BY <1>10 DEF GpuHang
<1>11. QED
  BY <1>1, <1>2, <1>3, <1>4, <1>5, <1>6, <1>7, <1>8, <1>9, <1>10
     DEF Next, Step

-----------------------------------------------------------------------------
\* The invariant holds initially, of every program.
LEMMA RuntimeInit == Init => RuntimeInv
<1> SUFFICES ASSUME Init PROVE RuntimeInv
  OBVIOUS
<1> USE DEF Init
<1>1. /\ setup.wrap \in Nat \ {0} /\ setup.slots \in Nat \ {0}
      /\ setup \in Setups
  BY SetupAssumption DEF Setup
<1>2. RuntimeTypes
  <2>1. 0 \in SlotIds
    BY <1>1 DEF SlotIds
  <2>2. ring \in [len : Nat, cap : {setup.slots}, moves : Nat,
                  poisoned : BOOLEAN]
    BY <1>1
  <2>3. /\ kernargs \in [SlotIds -> Int]
        /\ slot \in [Threads -> SlotIds]
        /\ buf \in [Threads -> Nat] /\ mine \in [Threads -> Int]
        /\ target \in [Threads -> Nat] /\ failed \in SUBSET Threads
    BY <2>1 DEF NoPacket
  <2>4. /\ pc \in [Threads -> Steps] /\ op \in [Threads -> AllCalls]
        /\ out \in [Threads -> Outcomes]
    BY DEF Steps, AllCalls, Outcomes
  <2>5. /\ queue \in Seq([pkt : Int, at : SlotIds \cup {Garbage}])
        /\ executed \in Seq([pkt : Int, args : Int])
        /\ submitted \in Seq(Submission)
    BY EmptySeq
  <2>6. poisoned \in BOOLEAN /\ hung \in BOOLEAN /\ slotCounter \in SlotIds
    BY <2>1
  <2>7. QED
    BY <1>1, <2>2, <2>3, <2>4, <2>5, <2>6 DEF RuntimeTypes
<1>3. CallOrder /\ ReadComplete
  BY DEF CallOrder, ReadComplete, Preparing
<1>4. Counted /\ FailureSeen /\ FailureIsFinal
  BY DEF Counted, FailureSeen, FailureIsFinal
<1>5. QED
  BY <1>2, <1>3, <1>4 DEF RuntimeInv

\* The invariant holds of every behaviour, whatever the programs do.
THEOREM RuntimeIsInductive == Spec => []RuntimeInv
<1>1. ASSUME RuntimeInv, [Next]_vars PROVE RuntimeInv'
  BY <1>1, TypesStep, CallOrderStep, CountedStep, FailureStep, ReadStep
     DEF RuntimeInv
<1>2. QED
  BY <1>1, RuntimeInit, PTL DEF Spec

\* The errors of dispatch are final, with any number of threads between the read
\* of the flag and the first error: a thread that was given one has no later
\* packet of dispatch in the queue, and each of the others at most one.
THEOREM DispatchFailsFast == Spec => []FailureIsFinal
BY RuntimeIsInductive, PTL DEF RuntimeInv

\* read_f32, which drops its wait's error, returns data with kernels outstanding
\* only on a GPU that hung or is slower than the wait.
THEOREM ReadsAreComplete == Spec => []ReadComplete
BY RuntimeIsInductive, PTL DEF RuntimeInv

-----------------------------------------------------------------------------
(* A queue used by dispatch alone: every packet in it belongs to a thread  *)
(* that waits for it, or that has given it up and poisoned the queue.      *)

OnlyDispatch == setup.calls \cap Dispatches = {"dispatch"}

OwnedBy(f) ==
  /\ \A i, j \in 1..Len(queue) : f[i] = f[j] => i = j
  /\ \A i \in 1..Len(queue) :
       /\ pc[f[i]] \notin Preparing
       /\ poisoned \/ (pc[f[i]] \in {"target", "wait", "poison"}
                         /\ op[f[i]] = "dispatch")
       /\ pc[f[i]] = "wait" /\ op[f[i]] = "dispatch"
            => target[f[i]] >= Len(executed) + i

QueueOwned ==
  OnlyDispatch => \E f \in [1..Len(queue) -> setup.threads] : OwnedBy(f)

\* A step of a thread that leaves the queue alone.
LEMMA OwnersStay ==
  ASSUME RuntimeTypes, NEW t \in Threads, NEW f \in [1..Len(queue) -> Threads],
         OwnedBy(f),
         UNCHANGED <<queue, executed>>,
         poisoned => poisoned',
         \A u \in Threads \ {t} :
           pc'[u] = pc[u] /\ op'[u] = op[u] /\ target'[u] = target[u],
         \A i \in 1..Len(queue) : f[i] = t =>
           /\ pc'[t] \notin Preparing
           /\ poisoned' \/ (pc'[t] \in {"target", "wait", "poison"}
                              /\ op'[t] = "dispatch")
           /\ pc'[t] = "wait" /\ op'[t] = "dispatch"
                => target'[t] >= Len(executed) + i
  PROVE  OwnedBy(f)'
<1>1. ASSUME NEW i \in 1..Len(queue)
      PROVE  /\ pc'[f[i]] \notin Preparing
             /\ poisoned' \/ (pc'[f[i]] \in {"target", "wait", "poison"}
                                /\ op'[f[i]] = "dispatch")
             /\ pc'[f[i]] = "wait" /\ op'[f[i]] = "dispatch"
                  => target'[f[i]] >= Len(executed) + i
  <2>1. CASE f[i] = t
    BY <2>1
  <2>2. CASE f[i] # t
    <3>1. f[i] \in Threads \ {t}
      BY <2>2
    <3>2. QED
      BY <3>1 DEF OwnedBy
  <2>3. QED
    BY <2>1, <2>2
<1>2. QED
  BY <1>1 DEF OwnedBy, Preparing

\* A packet joins the queue with its thread, which has none there yet.
LEMMA OwnersGrow ==
  ASSUME RuntimeTypes, CallOrder, Counted, OnlyDispatch,
         NEW t \in setup.threads, Submit(t),
         NEW f \in [1..Len(queue) -> setup.threads], OwnedBy(f)
  PROVE  \E g \in [1..Len(queue') -> setup.threads] : OwnedBy(g)'
<1> DEFINE n == Len(queue)
<1>1. setup.threads \subseteq Threads
  BY SetupType
<1>2. /\ n \in Nat /\ Len(queue') = n + 1 /\ executed' = executed
  BY SubmitLengths, LengthTypes
<1>3. op[t] = "dispatch" /\ pc[t] = "submit"
  BY <1>1 DEF Submit, CallOrder, Preparing, OnlyDispatch, RuntimeTypes
<1>4. /\ pc' = [pc EXCEPT ![t] = "target"]
      /\ UNCHANGED <<op, target, poisoned>>
  BY <1>3 DEF Submit, Goto, pool
<1>5. \A i \in 1..n : f[i] # t
  BY <1>3 DEF OwnedBy, Preparing
<1> HIDE DEF n
<1>6. PICK g \in [1..n + 1 -> setup.threads] :
        g[n + 1] = t /\ \A i \in 1..n : g[i] = f[i]
  <2> DEFINE h == [i \in 1..n + 1 |-> IF i = n + 1 THEN t ELSE f[i]]
  <2>1. \A i \in 1..n + 1 : i = n + 1 \/ i \in 1..n
    BY <1>2
  <2>2. \A i \in 1..n : f[i] \in setup.threads
    BY DEF n
  <2>3. h \in [1..n + 1 -> setup.threads]
    BY <2>1, <2>2
  <2>4. h[n + 1] = t /\ \A i \in 1..n : h[i] = f[i]
    BY <1>2
  <2> HIDE DEF h
  <2>5. QED
    BY <2>3, <2>4
<1>7. \A i, j \in 1..n + 1 : g[i] = g[j] => i = j
  <2>1. \A i \in 1..n + 1 : i = n + 1 \/ i \in 1..n
    BY <1>2
  <2>2. QED
    BY <1>5, <1>6, <2>1 DEF OwnedBy, n
<1>8. ASSUME NEW i \in 1..n + 1
      PROVE  /\ pc'[g[i]] \notin Preparing
             /\ poisoned' \/ (pc'[g[i]] \in {"target", "wait", "poison"}
                                /\ op'[g[i]] = "dispatch")
             /\ pc'[g[i]] = "wait" /\ op'[g[i]] = "dispatch"
                  => target'[g[i]] >= Len(executed') + i
  <2>1. CASE i = n + 1
    BY <1>1, <1>3, <1>4, <1>6, <2>1 DEF Preparing, RuntimeTypes
  <2>2. CASE i \in 1..n
    <3>1. g[i] = f[i] /\ f[i] # t /\ f[i] \in Threads
      BY <1>1, <1>5, <1>6, <2>2 DEF n
    <3>2. pc'[f[i]] = pc[f[i]]
      BY <1>4, <3>1 DEF RuntimeTypes
    <3>3. QED
      BY <1>2, <1>4, <2>2, <3>1, <3>2 DEF OwnedBy, n
  <2>3. QED
    BY <1>2, <2>1, <2>2
<1>9. OwnedBy(g)'
  BY <1>2, <1>7, <1>8 DEF OwnedBy, Preparing
<1>10. QED
  BY <1>2, <1>6, <1>9

\* The oldest packet leaves it.
LEMMA OwnersShift ==
  ASSUME RuntimeTypes, GpuRun,
         NEW f \in [1..Len(queue) -> setup.threads], OwnedBy(f)
  PROVE  \E g \in [1..Len(queue') -> setup.threads] : OwnedBy(g)'
<1> DEFINE n == Len(queue')
<1>1. /\ Len(queue) = n + 1 /\ n \in Nat
      /\ Len(executed') = Len(executed) + 1 /\ Len(executed) \in Nat
  BY RunLengths, LengthTypes
<1>2. UNCHANGED <<pc, op, target, poisoned>>
  BY DEF GpuRun, calls
<1>3. setup.threads \subseteq Threads
  BY SetupType
<1> HIDE DEF n
<1>4. \A i \in 1..n : i + 1 \in 1..n + 1
  BY <1>1
<1>5. PICK g \in [1..n -> setup.threads] : \A i \in 1..n : g[i] = f[i + 1]
  <2> DEFINE h == [i \in 1..n |-> f[i + 1]]
  <2>1. \A i \in 1..n : f[i + 1] \in setup.threads
    BY <1>1, <1>4
  <2>2. h \in [1..n -> setup.threads] /\ \A i \in 1..n : h[i] = f[i + 1]
    BY <2>1
  <2> HIDE DEF h
  <2>3. QED
    BY <2>2
<1>6. \A i, j \in 1..n : g[i] = g[j] => i = j
  BY <1>1, <1>4, <1>5 DEF OwnedBy
<1>7. ASSUME NEW i \in 1..n
      PROVE  /\ pc[g[i]] \notin Preparing
             /\ poisoned \/ (pc[g[i]] \in {"target", "wait", "poison"}
                                /\ op[g[i]] = "dispatch")
             /\ pc[g[i]] = "wait" /\ op[g[i]] = "dispatch"
                  => target[g[i]] >= Len(executed') + i
  <2>1. i + 1 \in 1..Len(queue) /\ g[i] = f[i + 1]
    BY <1>1, <1>4, <1>5
  <2>2. target[g[i]] \in Nat
    BY <1>3, <1>5 DEF RuntimeTypes
  <2>3. /\ pc[g[i]] \notin Preparing
        /\ poisoned \/ (pc[g[i]] \in {"target", "wait", "poison"}
                                /\ op[g[i]] = "dispatch")
        /\ pc[g[i]] = "wait" /\ op[g[i]] = "dispatch"
             => target[g[i]] >= Len(executed) + (i + 1)
    BY <2>1 DEF OwnedBy
  <2>4. QED
    BY <1>1, <2>2, <2>3
<1>8. OwnedBy(g)'
  BY <1>2, <1>6, <1>7 DEF OwnedBy, Preparing, n
<1>9. QED
  BY <1>5, <1>8 DEF n

\* The owners of the queue change with Submit and GpuRun; every other step
\* leaves each packet with an owner that still answers for it.
LEMMA QueueOwnedStep ==
  ASSUME RuntimeTypes, CallOrder, Counted, QueueOwned, [Next]_vars
  PROVE  QueueOwned'
<1>1. setup' = setup
  BY DEF Next, Step, CallDispatch, CallWait, NextSlot, EnsureSlot,
     EnsureSlotPanics, WriteKernargs, Submit, ReadTarget, WaitOk, WaitTimeout,
     MarkPoisoned, GpuRun, GpuHang, vars
<1>2. SUFFICES ASSUME OnlyDispatch
               PROVE  \E g \in [1..Len(queue') -> setup.threads] : OwnedBy(g)'
  BY <1>1 DEF QueueOwned, OnlyDispatch
<1>3. PICK f \in [1..Len(queue) -> setup.threads] : OwnedBy(f)
  BY <1>2 DEF QueueOwned
<1>4. setup.threads \subseteq Threads
  BY SetupType
<1>5. f \in [1..Len(queue) -> Threads]
  BY <1>3, <1>4
<1>6. ASSUME OwnedBy(f)', queue' = queue
      PROVE  \E g \in [1..Len(queue') -> setup.threads] : OwnedBy(g)'
  BY <1>3, <1>6
<1>7. CASE \E t \in setup.threads : Submit(t)
  BY <1>2, <1>3, <1>7, OwnersGrow
<1>8. CASE GpuRun
  BY <1>3, <1>8, OwnersShift
<1>9. /\ pc \in [Threads -> Steps] /\ op \in [Threads -> AllCalls]
      /\ target \in [Threads -> Nat] /\ poisoned \in BOOLEAN
  BY DEF RuntimeTypes
<1> USE <1>4, <1>9 DEF Goto, Return, gpu, calls, pool, vars
<1>10. ASSUME NEW t \in setup.threads, NEW c \in setup.calls \cap Dispatches,
              CallDispatch(t, c)
       PROVE  OwnedBy(f)' /\ queue' = queue
  <2>1. c = "dispatch"
    BY <1>2, <1>10 DEF OnlyDispatch
  <2>2. /\ pc[t] = "idle"
        /\ UNCHANGED <<queue, executed, poisoned>>
        /\ \A u \in Threads \ {t} :
             pc'[u] = pc[u] /\ op'[u] = op[u] /\ target'[u] = target[u]
    BY <1>10 DEF CallDispatch
  <2>3. \A i \in 1..Len(queue) : f[i] = t => poisoned
    BY <1>3, <2>2 DEF OwnedBy
  <2>4. poisoned => pc'[t] = "idle"
    BY <1>10, <2>1 DEF CallDispatch, RefuseWhenPoisoned
  <2>5. OwnedBy(f)'
    BY <1>3, <1>5, <2>2, <2>3, <2>4, OwnersStay DEF Preparing
  <2>6. QED
    BY <2>2, <2>5
<1>11. ASSUME NEW t \in setup.threads, NEW c \in setup.calls \ Dispatches,
              CallWait(t, c)
       PROVE  OwnedBy(f)' /\ queue' = queue
  <2>1. /\ pc[t] = "idle" /\ pc'[t] = "target" /\ op'[t] # "dispatch"
        /\ UNCHANGED <<queue, executed, poisoned>>
        /\ \A u \in Threads \ {t} :
             pc'[u] = pc[u] /\ op'[u] = op[u] /\ target'[u] = target[u]
    BY <1>11 DEF CallWait, Dispatches
  <2>2. \A i \in 1..Len(queue) : f[i] = t => poisoned
    BY <1>3, <2>1 DEF OwnedBy
  <2>3. OwnedBy(f)'
    BY <1>3, <1>5, <2>1, <2>2, OwnersStay DEF Preparing
  <2>4. QED
    BY <2>1, <2>3
<1>12. ASSUME NEW t \in setup.threads,
              \/ NextSlot(t) \/ EnsureSlot(t) \/ EnsureSlotPanics(t)
              \/ WriteKernargs(t)
       PROVE  OwnedBy(f)' /\ queue' = queue
  <2>1. /\ pc[t] \in Preparing
        /\ UNCHANGED <<queue, executed, poisoned>>
        /\ \A u \in Threads \ {t} :
             pc'[u] = pc[u] /\ op'[u] = op[u] /\ target'[u] = target[u]
    BY <1>12 DEF NextSlot, EnsureSlot, EnsureSlotPanics, WriteKernargs,
       Preparing
  <2>2. \A i \in 1..Len(queue) : f[i] # t
    BY <1>3, <2>1 DEF OwnedBy
  <2>3. OwnedBy(f)'
    BY <1>3, <1>5, <2>1, <2>2, OwnersStay
  <2>4. QED
    BY <2>1, <2>3
<1>13. ASSUME NEW t \in setup.threads, ReadTarget(t)
       PROVE  OwnedBy(f)' /\ queue' = queue
  <2>1. /\ pc[t] = "target" /\ pc'[t] = "wait" /\ op' = op
        /\ target'[t] = Len(submitted)
        /\ UNCHANGED <<queue, executed, poisoned>>
        /\ \A u \in Threads \ {t} :
             pc'[u] = pc[u] /\ op'[u] = op[u] /\ target'[u] = target[u]
    BY <1>13 DEF ReadTarget
  <2>2. \A i \in 1..Len(queue) : target'[t] >= Len(executed) + i
    BY <2>1, LengthTypes DEF Counted
  <2>3. \A i \in 1..Len(queue) :
          f[i] = t => poisoned \/ op[t] = "dispatch"
    BY <1>3 DEF OwnedBy
  <2>4. OwnedBy(f)'
    BY <1>3, <1>5, <2>1, <2>2, <2>3, OwnersStay DEF Preparing
  <2>5. QED
    BY <2>1, <2>4
<1>14. ASSUME NEW t \in setup.threads, WaitOk(t)
       PROVE  OwnedBy(f)' /\ queue' = queue
  <2>1. /\ pc[t] = "wait" /\ pc'[t] = "idle" /\ Len(executed) >= target[t]
        /\ UNCHANGED <<queue, executed, poisoned, op, target>>
        /\ \A u \in Threads \ {t} : pc'[u] = pc[u]
    BY <1>14 DEF WaitOk, Idle
  <2>2. \A i \in 1..Len(queue) : f[i] = t => poisoned
    BY <1>3, <2>1, LengthTypes DEF OwnedBy
  <2>3. OwnedBy(f)'
    BY <1>3, <1>5, <2>1, <2>2, OwnersStay DEF Preparing
  <2>4. QED
    BY <2>1, <2>3
<1>15. ASSUME NEW t \in setup.threads, WaitTimeout(t)
       PROVE  OwnedBy(f)' /\ queue' = queue
  <2>1. op[t] \in {"dispatch", "read_f32", "wait_idle"}
    BY <1>15 DEF WaitTimeout, CallOrder, AllCalls
  <2>2. /\ pc[t] = "wait" /\ pc'[t] \in {"idle", "poison"}
        /\ op[t] = "dispatch" => pc'[t] = "poison"
        /\ UNCHANGED <<queue, executed, poisoned, op, target>>
        /\ \A u \in Threads \ {t} : pc'[u] = pc[u]
    BY <1>15, <2>1 DEF WaitTimeout
  <2>3. \A i \in 1..Len(queue) :
          f[i] = t => poisoned \/ op[t] = "dispatch"
    BY <1>3 DEF OwnedBy
  <2>4. OwnedBy(f)'
    BY <1>3, <1>5, <2>2, <2>3, OwnersStay DEF Preparing
  <2>5. QED
    BY <2>2, <2>4
<1>16. ASSUME NEW t \in setup.threads, MarkPoisoned(t)
       PROVE  OwnedBy(f)' /\ queue' = queue
  <2>1. /\ pc'[t] = "idle" /\ poisoned'
        /\ UNCHANGED <<queue, executed, op, target>>
        /\ \A u \in Threads \ {t} : pc'[u] = pc[u]
    BY <1>16 DEF MarkPoisoned
  <2>2. OwnedBy(f)'
    BY <1>3, <1>5, <2>1, OwnersStay DEF Preparing
  <2>3. QED
    BY <2>1, <2>2
<1>17. CASE GpuHang \/ UNCHANGED vars
  <2>1. UNCHANGED <<queue, executed, poisoned, pc, op, target>>
    BY <1>17 DEF GpuHang
  <2>2. OwnedBy(f)'
    BY <1>3, <2>1 DEF OwnedBy, Preparing
  <2>3. QED
    BY <1>6, <2>1, <2>2
<1>18. QED
  BY <1>6, <1>7, <1>8, <1>10, <1>11, <1>12, <1>13, <1>14, <1>15, <1>16, <1>17
     DEF Next, Step

\* An owner for each packet: no more packets than threads.
LEMMA OwnersBound ==
  ASSUME IsFiniteSet(Threads), RuntimeTypes, QueueOwned
  PROVE  QueueBounded
<1>1. SUFFICES ASSUME OnlyDispatch
               PROVE  Len(queue) <= Cardinality(setup.threads)
  BY DEF QueueBounded, OnlyDispatch
<1>2. PICK f \in [1..Len(queue) -> setup.threads] : OwnedBy(f)
  BY <1>1 DEF QueueOwned
<1>3. f \in Injection(1..Len(queue), setup.threads)
  BY <1>2 DEF OwnedBy, Injection, IsInjective
<1>4. IsFiniteSet(setup.threads)
  BY SetupType, FS_Subset
<1>5. Cardinality(1..Len(queue)) <= Cardinality(setup.threads)
  BY <1>3, <1>4, FS_Injection
<1>6. Cardinality(1..Len(queue)) = Len(queue)
  <2> DEFINE n == Len(queue)
  <2>1. n \in Nat
    BY LengthTypes
  <2> HIDE DEF n
  <2>2. Cardinality(1..n) = IF 1 > n THEN 0 ELSE n - 1 + 1
    BY <2>1, FS_Interval
  <2>3. Cardinality(1..n) = n
    BY <2>1, <2>2
  <2>4. QED
    BY <2>3 DEF n
<1>7. QED
  BY <1>5, <1>6

\* Whichever thread poisons a queue, and however many threads are between their
\* timeout and the flag, a queue used by dispatch never holds more packets than
\* there are threads.
THEOREM DispatchBoundsQueue ==
  ASSUME IsFiniteSet(Threads) PROVE Spec => []QueueBounded
<1>1. Init => QueueOwned
  <2>1. SUFFICES ASSUME Init PROVE QueueOwned
    OBVIOUS
  <2>2. Len(queue) = 0
    BY <2>1 DEF Init
  <2> DEFINE f == [i \in 1..0 |-> i]
  <2>3. f \in [1..Len(queue) -> setup.threads] /\ OwnedBy(f)
    BY <2>2 DEF OwnedBy
  <2>4. QED
    BY <2>3 DEF QueueOwned
<1>2. ASSUME RuntimeInv, QueueOwned, [Next]_vars PROVE QueueOwned'
  BY <1>2, QueueOwnedStep DEF RuntimeInv
<1>3. RuntimeInv /\ QueueOwned => QueueBounded
  BY OwnersBound DEF RuntimeInv
<1>4. QED
  BY <1>1, <1>2, <1>3, RuntimeIsInductive, PTL DEF Spec

-----------------------------------------------------------------------------
(* One thread, on a GPU that keeps its deadlines: the slots of the packets *)
(* in the queue are those just behind the counter, and the queue is too    *)
(* short for the counter to come round to them.                            *)

\* Programs of one thread that leave fewer packets unwaited than there are
\* slots.
OneThread ==
  \A s \in Setups : /\ \E t \in Threads : s.threads = {t}
                    /\ ~s.slow
                    /\ s.async < s.wrap

\* The slot handed out k calls of next_slot ago.
Back(k) == IF slotCounter >= k THEN slotCounter - k
                               ELSE slotCounter + setup.wrap - k

\* The thread has taken a slot for a packet that is not in the queue yet.
Held(t) == IF pc[t] \in {"ensure", "write", "submit"} THEN 1 ELSE 0

\* How long the queue may be at a step of the thread.
Room(t) ==
  /\ pc[t] \in Preparing /\ op[t] = "dispatch_async"
       => Len(queue) < setup.async
  /\ Len(queue) <= IF pc[t] \in {"target", "wait"} /\ op[t] \in Dispatches
                   THEN setup.async + 1 ELSE setup.async
  /\ pc[t] = "wait" => target[t] = Len(submitted)

\* Behind a panic in the ring nothing is written any more; until then the
\* thread's slot is the last one, its reference is good, and its arguments are
\* in place when it says so.
SlotHeld(t) ==
  /\ pc[t] \in {"ensure", "write", "submit"} => slot[t] = Back(1)
  /\ pc[t] = "submit" =>
       buf[t] = ring.moves /\ kernargs[slot[t]] = mine[t] /\ ~ring.poisoned

\* The i-th packet of the queue has its own slot, with its own arguments.
SlotsOwned(t) ==
  \A i \in 1..Len(queue) :
    /\ queue[i].at \in SlotIds
    /\ kernargs[queue[i].at] = queue[i].pkt
    /\ ~ring.poisoned => queue[i].at = Back(Len(queue) - i + 1 + Held(t))

ArgsInv ==
  /\ ArgsIntact
  /\ hung \/ \A t \in setup.threads : Room(t) /\ SlotHeld(t) /\ SlotsOwned(t)

\* The last setup.wrap slots handed out are all different.
LEMMA BackLemma ==
  ASSUME RuntimeTypes
  PROVE  /\ \A k \in 1..setup.wrap : Back(k) \in SlotIds
         /\ \A k \in 2..setup.wrap : Back(k) # Back(1)
<1> DEFINE w == setup.wrap
<1>1. w \in Nat \ {0} /\ slotCounter \in 0..w - 1
  BY SetupType DEF RuntimeTypes, SlotIds
<1> HIDE DEF w
<1>2. /\ \A k \in 1..w : (IF slotCounter >= k THEN slotCounter - k
                                              ELSE slotCounter + w - k) \in 0..w - 1
      /\ \A k \in 2..w : (IF slotCounter >= k THEN slotCounter - k
                                              ELSE slotCounter + w - k)
                         # (IF slotCounter >= 1 THEN slotCounter - 1
                                                ELSE slotCounter + w - 1)
  BY <1>1
<1>3. QED
  BY <1>2 DEF w, Back, SlotIds

\* Taking a slot moves every slot one further back.
LEMMA BackShift ==
  ASSUME RuntimeTypes, NEW t \in setup.threads, NextSlot(t)
  PROVE  /\ \A k \in 1..setup.wrap - 1 : Back(k + 1)' = Back(k)
         /\ Back(1)' = slotCounter
<1> DEFINE w == setup.wrap
<1>1. w \in Nat \ {0} /\ slotCounter \in 0..w - 1
  BY SetupType DEF RuntimeTypes, SlotIds
<1>2. slotCounter' = (slotCounter + 1) % w /\ setup' = setup
  BY DEF NextSlot
<1> HIDE DEF w
<1>3. slotCounter' = IF slotCounter + 1 = w THEN 0 ELSE slotCounter + 1
  BY <1>1, <1>2, WrapLemma
<1>4. /\ \A k \in 1..w - 1 :
           (IF slotCounter' >= k + 1 THEN slotCounter' - (k + 1)
                                     ELSE slotCounter' + w - (k + 1))
           = (IF slotCounter >= k THEN slotCounter - k
                                  ELSE slotCounter + w - k)
      /\ (IF slotCounter' >= 1 THEN slotCounter' - 1
                               ELSE slotCounter' + w - 1) = slotCounter
  BY <1>1, <1>3
<1>5. QED
  BY <1>2, <1>4 DEF w, Back

\* Taking the next slot: the packets in the queue are one further back.
LEMMA ArgsNextSlot ==
  ASSUME RuntimeInv, setup.async < setup.wrap, NEW t \in setup.threads,
         Room(t), SlotHeld(t), SlotsOwned(t), NextSlot(t)
  PROVE  Room(t)' /\ SlotHeld(t)' /\ SlotsOwned(t)'
<1>1. /\ t \in Threads /\ setup.wrap \in Nat \ {0} /\ setup.async \in Nat
      /\ Len(queue) \in Nat
  BY SetupType, LengthTypes DEF RuntimeInv
<1>2. /\ pc[t] = "slot" /\ pc'[t] = "ensure" /\ slot'[t] = slotCounter
      /\ UNCHANGED <<setup, ring, kernargs, queue, op, submitted, target>>
  BY <1>1 DEF NextSlot, Goto, RuntimeInv, RuntimeTypes, pool, gpu
<1>3. Room(t)'
  BY <1>2 DEF Room, Preparing
<1>4. /\ Back(1)' = slotCounter
      /\ \A k \in 1..setup.wrap - 1 : Back(k + 1)' = Back(k)
  BY BackShift DEF RuntimeInv
<1>5. SlotHeld(t)'
  <2>1. slot'[t] = Back(1)'
    BY <1>2, <1>4
  <2>2. QED
    BY <1>2, <2>1 DEF SlotHeld
<1>6. Len(queue) <= setup.async
  BY <1>2 DEF Room
<1>7. ASSUME NEW i \in 1..Len(queue), ~ring.poisoned
      PROVE  queue[i].at = Back(Len(queue) - i + 1 + 1)'
  <2>1. PICK k \in 1..setup.wrap - 1 : k = Len(queue) - i + 1
    BY <1>1, <1>6
  <2>2. queue[i].at = Back(k)
    BY <1>2, <1>7, <2>1 DEF SlotsOwned, Held
  <2>3. queue[i].at = Back(k + 1)'
    BY <1>4, <2>2
  <2>4. QED
    BY <1>2, <2>1, <2>3 DEF Back
<1>8. SlotsOwned(t)'
  <2>1. Held(t)' = 1
    BY <1>2 DEF Held
  <2>2. QED
    BY <1>2, <1>7, <2>1 DEF SlotsOwned, SlotIds
<1>9. QED
  BY <1>3, <1>5, <1>8

\* Writing the arguments: the slot written is none of those in the queue.
LEMMA ArgsWrite ==
  ASSUME RuntimeInv, setup.async < setup.wrap, NEW t \in setup.threads,
         Room(t), SlotHeld(t), SlotsOwned(t), WriteKernargs(t)
  PROVE  Room(t)' /\ SlotHeld(t)' /\ SlotsOwned(t)'
<1>1. /\ t \in Threads /\ setup.wrap \in Nat \ {0} /\ setup.async \in Nat
      /\ Len(queue) \in Nat
  BY SetupType, LengthTypes DEF RuntimeInv
<1>2. /\ pc[t] = "write" /\ pc'[t] = "submit" /\ ~ring.poisoned
      /\ buf'[t] = ring.moves
      /\ kernargs' = [kernargs EXCEPT ![slot[t]] = mine[t]]
      /\ slot[t] \in SlotIds /\ kernargs \in [SlotIds -> Int]
      /\ UNCHANGED <<setup, slotCounter, ring, queue, op, slot, mine, submitted,
                     target>>
  BY <1>1 DEF WriteKernargs, Goto, RuntimeInv, RuntimeTypes, gpu
<1>3. Room(t)'
  BY <1>2 DEF Room, Preparing
<1>4. SlotHeld(t)'
  BY <1>2 DEF SlotHeld, Back
<1>5. Len(queue) <= setup.async /\ slot[t] = Back(1)
  BY <1>2 DEF Room, SlotHeld
<1>6. ASSUME NEW i \in 1..Len(queue)
      PROVE  queue[i].at # slot[t]
  <2> DEFINE k == Len(queue) - i + 1 + 1
  <2>1. k \in 2..setup.wrap
    BY <1>1, <1>5
  <2>2. queue[i].at = Back(k)
    BY <1>2 DEF SlotsOwned, Held
  <2> HIDE DEF k
  <2>3. QED
    BY <1>5, <2>1, <2>2, BackLemma DEF RuntimeInv
<1>7. \A i \in 1..Len(queue) : kernargs'[queue[i].at] = kernargs[queue[i].at]
  BY <1>2, <1>6 DEF SlotsOwned
<1>8. SlotsOwned(t)'
  <2>1. Held(t)' = Held(t)
    BY <1>2 DEF Held
  <2>2. QED
    BY <1>2, <1>7, <2>1 DEF SlotsOwned, SlotIds, Back
<1>9. QED
  BY <1>3, <1>4, <1>8

\* Submitting: the packet takes its slot along into the queue.
LEMMA ArgsSubmit ==
  ASSUME RuntimeInv, setup.async < setup.wrap, NEW t \in setup.threads,
         Room(t), SlotHeld(t), SlotsOwned(t), Submit(t)
  PROVE  Room(t)' /\ SlotHeld(t)' /\ SlotsOwned(t)'
<1> DEFINE n == Len(queue)
<1>1. /\ t \in Threads /\ setup.wrap \in Nat \ {0} /\ setup.async \in Nat
      /\ n \in Nat
  BY SetupType, LengthTypes DEF RuntimeInv
<1>2. /\ pc[t] = "submit" /\ pc'[t] = IF op[t] = "dispatch_async" THEN "idle"
                                                              ELSE "target"
      /\ slot[t] \in SlotIds
      /\ UNCHANGED <<setup, slotCounter, ring, kernargs, op>>
  BY <1>1 DEF Submit, Goto, Return, RuntimeInv, RuntimeTypes, pool
<1>3. op[t] \in Dispatches
  BY <1>1, <1>2 DEF RuntimeInv, CallOrder, Preparing
<1>4. /\ Len(queue') = n + 1
      /\ \A i \in 1..n : queue'[i] = queue[i]
      /\ queue'[n + 1] = [pkt |-> mine[t], at |-> slot[t]]
  <2>1. KernargAddress(t) = {slot[t]}
    BY <1>2 DEF KernargAddress, SlotHeld
  <2>2. QED
    BY <2>1, SubmitLengths DEF RuntimeInv
<1> HIDE DEF n
<1>5. Room(t)'
  <2>1. /\ op[t] = "dispatch_async" => n < setup.async
        /\ n <= setup.async
    BY <1>2 DEF Room, Preparing, n
  <2>2. QED
    BY <1>1, <1>2, <1>3, <1>4, <2>1 DEF Room, Preparing
<1>6. SlotHeld(t)'
  BY <1>2 DEF SlotHeld
<1>7. Held(t) = 1 /\ Held(t)' = 0
  BY <1>2 DEF Held
<1>8. slot[t] = Back(1) /\ kernargs[slot[t]] = mine[t] /\ ~ring.poisoned
  BY <1>2 DEF SlotHeld
<1>9. ASSUME NEW i \in 1..n + 1
      PROVE  /\ queue'[i].at \in SlotIds
             /\ kernargs[queue'[i].at] = queue'[i].pkt
             /\ queue'[i].at = Back((n + 1) - i + 1 + 0)
  <2>1. CASE i = n + 1
    <3>1. (n + 1) - i + 1 + 0 = 1
      BY <1>1, <2>1
    <3>2. QED
      BY <1>2, <1>4, <1>8, <2>1, <3>1
  <2>2. CASE i \in 1..n
    <3>1. (n + 1) - i + 1 + 0 = n - i + 1 + 1
      BY <1>1, <2>2
    <3>2. QED
      BY <1>4, <1>7, <1>8, <2>2, <3>1 DEF SlotsOwned, n
  <2>3. QED
    BY <1>1, <2>1, <2>2
<1>10. SlotsOwned(t)'
  BY <1>2, <1>4, <1>7, <1>9 DEF SlotsOwned, SlotIds, Back
<1>11. QED
  BY <1>5, <1>6, <1>10

\* The GPU takes the oldest packet; those left keep their slots.
LEMMA ArgsRun ==
  ASSUME RuntimeInv, NEW t \in setup.threads,
         Room(t), SlotHeld(t), SlotsOwned(t), GpuRun
  PROVE  Room(t)' /\ SlotHeld(t)' /\ SlotsOwned(t)'
<1> DEFINE n == Len(queue')
<1>1. /\ setup.async \in Nat /\ n \in Nat /\ Len(queue) = n + 1
      /\ \A i \in 1..n : queue'[i] = queue[i + 1]
  BY SetupType, LengthTypes, RunLengths DEF RuntimeInv
<1>2. UNCHANGED <<setup, slotCounter, ring, kernargs, pc, op, slot, buf, mine,
                  target, submitted>>
  BY DEF GpuRun, pool, calls
<1> HIDE DEF n
<1>3. Room(t)'
  BY <1>1, <1>2 DEF Room, n, Preparing
<1>4. SlotHeld(t)'
  BY <1>2 DEF SlotHeld, Back
<1>5. Held(t)' = Held(t) /\ Held(t) \in {0, 1}
  BY <1>2 DEF Held
<1>6. ASSUME NEW i \in 1..n
      PROVE  /\ queue'[i].at \in SlotIds
             /\ kernargs[queue'[i].at] = queue'[i].pkt
             /\ ~ring.poisoned => queue'[i].at = Back(n - i + 1 + Held(t))
  <2>1. /\ i + 1 \in 1..Len(queue)
        /\ Len(queue) - (i + 1) + 1 + Held(t) = n - i + 1 + Held(t)
    BY <1>1, <1>5
  <2>2. queue'[i] = queue[i + 1]
    BY <1>1
  <2>3. QED
    BY <2>1, <2>2 DEF SlotsOwned
<1>7. SlotsOwned(t)'
  BY <1>2, <1>5, <1>6 DEF SlotsOwned, SlotIds, Back, n
<1>8. QED
  BY <1>3, <1>4, <1>7

\* The other steps of the thread touch neither queue nor slots.
LEMMA ArgsQuiet ==
  ASSUME RuntimeInv, NEW t \in setup.threads,
         Room(t), SlotHeld(t), SlotsOwned(t),
         UNCHANGED <<setup, slotCounter, ring, kernargs, queue, submitted>>,
         pc[t] \notin {"ensure", "write", "submit"},
         pc'[t] \notin {"ensure", "write", "submit"},
         Room(t)'
  PROVE  Room(t)' /\ SlotHeld(t)' /\ SlotsOwned(t)'
<1>1. SlotHeld(t)'
  BY DEF SlotHeld
<1>2. Held(t)' = Held(t)
  BY DEF Held
<1>3. SlotsOwned(t)'
  BY <1>2 DEF SlotsOwned, SlotIds, Back
<1>4. QED
  BY <1>1, <1>3

\* Beginning a call moves no packet and takes no slot.
LEMMA ArgsCalls ==
  ASSUME RuntimeInv, NEW t \in setup.threads,
         Room(t), SlotHeld(t), SlotsOwned(t),
         \/ \E c \in setup.calls \cap Dispatches : CallDispatch(t, c)
         \/ \E c \in setup.calls \ Dispatches : CallWait(t, c)
  PROVE  Room(t)' /\ SlotHeld(t)' /\ SlotsOwned(t)'
<1>0. /\ t \in Threads /\ pc \in [Threads -> Steps]
      /\ op \in [Threads -> AllCalls]
  BY SetupType DEF RuntimeInv, RuntimeTypes
<1> USE <1>0 DEF pool, gpu, Goto, Return
<1>1. ASSUME NEW c \in setup.calls \cap Dispatches, CallDispatch(t, c)
      PROVE  Room(t)' /\ SlotHeld(t)' /\ SlotsOwned(t)'
  <2>1. /\ pc[t] = "idle" /\ pc'[t] \in {"idle", "slot"} /\ op'[t] = c
        /\ c = "dispatch_async" => Len(queue) < setup.async
        /\ UNCHANGED <<setup, slotCounter, ring, kernargs, queue, submitted>>
    BY <1>1 DEF CallDispatch
  <2>2. Room(t)'
    BY <2>1 DEF Room, Preparing
  <2>3. QED
    BY <2>1, <2>2, ArgsQuiet
<1>2. ASSUME NEW c \in setup.calls \ Dispatches, CallWait(t, c)
      PROVE  Room(t)' /\ SlotHeld(t)' /\ SlotsOwned(t)'
  <2>1. /\ pc[t] = "idle" /\ pc'[t] = "target" /\ op'[t] = c
        /\ UNCHANGED <<setup, slotCounter, ring, kernargs, queue, submitted>>
    BY <1>2 DEF CallWait
  <2>2. Room(t)'
    BY <2>1 DEF Room, Preparing
  <2>3. QED
    BY <2>1, <2>2, ArgsQuiet
<1>3. QED
  BY <1>1, <1>2

\* Waiting: a wait that ends leaves the queue empty.
LEMMA ArgsWaits ==
  ASSUME RuntimeInv, NEW t \in setup.threads,
         Room(t), SlotHeld(t), SlotsOwned(t),
         ReadTarget(t) \/ WaitOk(t) \/ MarkPoisoned(t)
  PROVE  Room(t)' /\ SlotHeld(t)' /\ SlotsOwned(t)'
<1>0. /\ t \in Threads /\ pc \in [Threads -> Steps]
      /\ target \in [Threads -> Nat] /\ setup.async \in Nat
  BY SetupType DEF RuntimeInv, RuntimeTypes
<1> USE <1>0 DEF pool, gpu, Goto, Return
<1>1. CASE ReadTarget(t)
  <2>1. /\ pc[t] = "target" /\ pc'[t] = "wait" /\ target'[t] = Len(submitted)
        /\ UNCHANGED <<setup, slotCounter, ring, kernargs, queue, op, submitted>>
    BY <1>1 DEF ReadTarget
  <2>2. Room(t)'
    BY <2>1 DEF Room, Preparing
  <2>3. QED
    BY <2>1, <2>2, ArgsQuiet
<1>2. CASE WaitOk(t)
  <2>1. /\ pc[t] = "wait" /\ pc'[t] = "idle" /\ Len(executed) >= target[t]
        /\ UNCHANGED <<setup, slotCounter, ring, kernargs, queue, op, submitted>>
    BY <1>2 DEF WaitOk, Idle
  <2>2. Len(queue) = 0
    BY <2>1, LengthTypes DEF Room, RuntimeInv, Counted
  <2>3. Room(t)'
    BY <2>1, <2>2 DEF Room, Preparing
  <2>4. QED
    BY <2>1, <2>3, ArgsQuiet
<1>3. CASE MarkPoisoned(t)
  <2>1. /\ pc[t] = "poison" /\ pc'[t] = "idle"
        /\ UNCHANGED <<setup, slotCounter, ring, kernargs, queue, op, submitted>>
    BY <1>3 DEF MarkPoisoned
  <2>2. Room(t)'
    BY <2>1 DEF Room, Preparing
  <2>3. QED
    BY <2>1, <2>2, ArgsQuiet
<1>4. QED
  BY <1>1, <1>2, <1>3

\* Growing the pool moves buffers, but the thread holds no reference yet; a
\* panic poisons the mutex, and the slots of what is queued are safe for good.
LEMMA ArgsEnsure ==
  ASSUME RuntimeInv, NEW t \in setup.threads,
         Room(t), SlotHeld(t), SlotsOwned(t),
         EnsureSlot(t) \/ EnsureSlotPanics(t)
  PROVE  Room(t)' /\ SlotHeld(t)' /\ SlotsOwned(t)'
<1>0. /\ t \in Threads /\ pc \in [Threads -> Steps]
      /\ slot[t] \in Nat /\ ring.len \in Nat
  BY SetupType DEF RuntimeInv, RuntimeTypes, SlotIds
<1> USE <1>0 DEF Goto, Return, calls, gpu
<1>1. CASE EnsureSlot(t)
  <2>1. /\ pc[t] = "ensure" /\ pc'[t] = "write"
        /\ UNCHANGED <<setup, slotCounter, kernargs, queue, op, slot, target,
                       submitted>>
    BY <1>1 DEF EnsureSlot
  <2>2. ~ring.poisoned
    BY <1>1 DEF EnsureSlot
  <2>3. Room(t)'
    BY <2>1 DEF Room, Preparing
  <2>4. SlotHeld(t)'
    BY <2>1 DEF SlotHeld, Back
  <2>5. Held(t)' = Held(t)
    BY <2>1 DEF Held
  <2>6. SlotsOwned(t)'
    BY <2>1, <2>2, <2>5 DEF SlotsOwned, SlotIds, Back
  <2>7. QED
    BY <2>3, <2>4, <2>6
<1>2. CASE EnsureSlotPanics(t)
  <2>1. /\ pc[t] \in {"ensure", "write"} /\ pc'[t] = "idle"
        /\ UNCHANGED <<setup, slotCounter, kernargs, queue, op, slot, target,
                       submitted>>
    BY <1>2 DEF EnsureSlotPanics
  <2>2. ring'.poisoned
    <3>1. CASE ring.poisoned /\ UNCHANGED ring
      BY <3>1
    <3>2. ASSUME NEW n \in ring.len..slot[t],
                 ring' = [GrownTo(n) EXCEPT !.poisoned = TRUE]
          PROVE  ring'.poisoned
      <4>1. PICK c : GrownTo(n) \in [len : Nat, cap : {c}, moves : Nat,
                                     poisoned : BOOLEAN]
        BY GrownType DEF RuntimeInv
      <4>2. QED
        BY <3>2, <4>1
    <3>3. QED
      BY <1>2, <3>1, <3>2 DEF EnsureSlotPanics
  <2>3. Room(t)'
    BY <2>1 DEF Room, Preparing
  <2>4. SlotHeld(t)'
    BY <2>1 DEF SlotHeld
  <2>5. SlotsOwned(t)'
    BY <2>1, <2>2 DEF SlotsOwned, SlotIds
  <2>6. QED
    BY <2>3, <2>4, <2>5
<1>3. QED
  BY <1>1, <1>2

\* A kernel reads the arguments in its packet's slot, which are its own.
LEMMA IntactStep ==
  ASSUME RuntimeInv, NEW t \in setup.threads, SlotsOwned(t), ArgsIntact, GpuRun
  PROVE  ArgsIntact'
<1> DEFINE n == Len(executed) + 1
           e == executed'[n]
<1>1. /\ Len(queue) > 0 /\ Len(queue) \in Nat
      /\ \A i \in 1..Len(executed) : executed'[i] = executed[i]
      /\ e = [pkt |-> queue[1].pkt,
              args |-> IF queue[1].at = Garbage THEN Garbage
                                                ELSE kernargs[queue[1].at]]
  BY RunLengths, LengthTypes DEF RuntimeInv
<1>2. queue[1].at # Garbage /\ kernargs[queue[1].at] = queue[1].pkt
  BY <1>1 DEF SlotsOwned, SlotIds, Garbage
<1>3. e.args = e.pkt
  BY <1>1, <1>2
<1>4. /\ Len(executed') = n /\ Len(executed) \in Nat
      /\ DOMAIN executed = 1..Len(executed)
      /\ DOMAIN executed' = 1..Len(executed')
  BY RunLengths, LengthTypes, LenProperties, TypesStep
     DEF RuntimeInv, RuntimeTypes, Next
<1> HIDE DEF e
<1>5. ASSUME NEW i \in DOMAIN executed'
      PROVE  executed'[i].args = executed'[i].pkt
  <2>1. i = n \/ i \in DOMAIN executed
    BY <1>4
  <2>2. CASE i = n
    BY <1>3, <2>2 DEF e
  <2>3. CASE i \in DOMAIN executed
    BY <1>1, <1>4, <2>3 DEF ArgsIntact
  <2>4. QED
    BY <2>1, <2>2, <2>3
<1>6. QED
  BY <1>5 DEF ArgsIntact

\* Only the GPU writes the history of what ran, and a GPU that has hung stays
\* hung.
LEMMA HistoryKept ==
  ASSUME RuntimeTypes, [Next]_vars
  PROVE  /\ setup' = setup
         /\ hung => hung' /\ executed' = executed
         /\ GpuRun \/ executed' = executed
<1> USE DEF vars, gpu, pool, calls
<1>1. ASSUME NEW t \in setup.threads, NEW c,
             CallDispatch(t, c) \/ CallWait(t, c)
      PROVE  UNCHANGED <<setup, hung, executed>>
  BY <1>1 DEF CallDispatch, CallWait
<1>2. ASSUME NEW t \in setup.threads, Step(t)
      PROVE  UNCHANGED <<setup, hung, executed>>
  BY <1>2 DEF Step, NextSlot, EnsureSlot, EnsureSlotPanics, WriteKernargs,
     Submit, ReadTarget, WaitOk, WaitTimeout, MarkPoisoned
<1>3. CASE GpuRun
  BY <1>3 DEF GpuRun
<1>4. CASE GpuHang \/ UNCHANGED vars
  BY <1>4 DEF GpuHang
<1>5. QED
  BY <1>1, <1>2, <1>3, <1>4 DEF Next

\* One step of the one thread or of the GPU, action by action.
LEMMA ArgsStep ==
  ASSUME OneThread, RuntimeInv, ArgsInv, [Next]_vars
  PROVE  ArgsInv'
<1>1. PICK t \in Threads : setup.threads = {t}
  BY DEF OneThread, RuntimeInv, RuntimeTypes
<1>2. ~setup.slow /\ setup.async < setup.wrap
  BY DEF OneThread, RuntimeInv, RuntimeTypes
<1>3. /\ setup' = setup
      /\ hung => hung' /\ executed' = executed
      /\ GpuRun \/ executed' = executed
  BY HistoryKept DEF RuntimeInv
<1>4. t \in setup.threads
  BY <1>1
<1>5. ArgsIntact'
  <2>1. CASE GpuRun
    <3>1. ~hung
      BY <2>1 DEF GpuRun
    <3>2. QED
      BY <1>4, <2>1, <3>1, IntactStep DEF ArgsInv
  <2>2. CASE executed' = executed
    BY <2>2 DEF ArgsInv, ArgsIntact
  <2>3. QED
    BY <1>3, <2>1, <2>2
<1>6. CASE hung'
  BY <1>5, <1>6 DEF ArgsInv
<1>7. CASE ~hung'
  <2>1. ~hung
    BY <1>3, <1>7
  <2>2. Room(t) /\ SlotHeld(t) /\ SlotsOwned(t)
    BY <1>4, <2>1 DEF ArgsInv
  <2>3. ~WaitTimeout(t) /\ ~GpuHang
    BY <1>2, <1>7, <2>1 DEF WaitTimeout, GpuHang
  <2>4. \/ \E c \in setup.calls \cap Dispatches : CallDispatch(t, c)
        \/ \E c \in setup.calls \ Dispatches : CallWait(t, c)
        \/ NextSlot(t) \/ EnsureSlot(t) \/ EnsureSlotPanics(t)
        \/ WriteKernargs(t) \/ Submit(t) \/ ReadTarget(t) \/ WaitOk(t)
        \/ MarkPoisoned(t) \/ GpuRun \/ UNCHANGED vars
    BY <1>1, <2>3 DEF Next, Step
  <2>5. ASSUME UNCHANGED vars
        PROVE  Room(t)' /\ SlotHeld(t)' /\ SlotsOwned(t)'
    BY <2>2, <2>5
       DEF vars, gpu, pool, calls, Room, SlotHeld, SlotsOwned, Held, Back,
           SlotIds, Preparing
  <2>6. Room(t)' /\ SlotHeld(t)' /\ SlotsOwned(t)'
    BY <1>2, <1>4, <2>2, <2>4, <2>5, ArgsCalls, ArgsNextSlot, ArgsEnsure,
       ArgsWrite, ArgsSubmit, ArgsWaits, ArgsRun
  <2>7. \A u \in setup'.threads : u = t
    BY <1>1, <1>3
  <2>8. (\A u \in setup.threads : Room(u) /\ SlotHeld(u) /\ SlotsOwned(u))'
    BY <2>6, <2>7
  <2>9. QED
    BY <1>5, <2>8 DEF ArgsInv
<1>8. QED
  BY <1>6, <1>7

\* With one thread, a GPU that finishes within the 5 s of a wait, and fewer
\* packets left unwaited than there are slots, every kernel runs with the
\* arguments of its own dispatch, though slots are reused, the pool moves under
\* the references it hands out, and its mutex may be poisoned half way.
THEOREM ArgumentsIntactAlone ==
  ASSUME OneThread PROVE Spec => []ArgsIntact
<1>1. Init => ArgsInv
  <2>1. SUFFICES ASSUME Init PROVE ArgsInv
    OBVIOUS
  <2>2. /\ queue = << >> /\ executed = << >> /\ setup.async \in Nat
        /\ \A t \in setup.threads : pc[t] = "idle"
    BY <2>1, SetupType, RuntimeInit DEF Init, RuntimeInv
  <2>3. ArgsIntact
    BY <2>2 DEF ArgsIntact
  <2>4. ASSUME NEW t \in setup.threads
        PROVE  Room(t) /\ SlotHeld(t) /\ SlotsOwned(t)
    BY <2>2, <2>4 DEF Room, SlotHeld, SlotsOwned, Preparing
  <2>5. QED
    BY <2>3, <2>4 DEF ArgsInv
<1>2. ASSUME RuntimeInv, ArgsInv, [Next]_vars PROVE ArgsInv'
  BY <1>2, ArgsStep
<1>3. ArgsInv => ArgsIntact
  BY DEF ArgsInv
<1>4. QED
  BY <1>1, <1>2, <1>3, RuntimeIsInductive, PTL DEF Spec
=============================================================================
