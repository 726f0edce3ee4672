--------------------------- MODULE AqlQueueProofs ---------------------------
(***************************************************************************)
(* The ring of AqlQueue for every number of slots, threads and packets:    *)
(* as long as callers take turns, no unretired packet is overwritten, the  *)
(* CP fetches only whole packets, packets run once and in order, and Ok    *)
(* from a call that waits on read_ptr is true.  So AqlQueue implements     *)
(* CommandQueue.                                                           *)
(*                                                                         *)
(* And what its reports mean on a GPU whose kernels end before the host's  *)
(* timeouts: a timeout is a hang, Ok from dispatch_signal is true like any *)
(* other, and a queue is not destroyed under work it was told of.          *)
(***************************************************************************)
EXTENDS AqlQueue, SequenceTheorems, TLAPS

\* One call at a time is inside the queue.
OneCaller == \A t, u \in Threads : pc[t] # "idle" /\ pc[u] # "idle" => t = u

\* write_ptr lags the issued packets only between a header and its publication.
PointersAgree ==
  /\ \A t \in Threads :
       pc[t] = "publish" => idx[t] = writePtr /\ Len(issued) = writePtr + 1
  /\ (\A t \in Threads : pc[t] # "publish") => Len(issued) = writePtr
  /\ Len(executed) = IF cp = "retiring" THEN readPtr + 1 ELSE readPtr
  /\ readPtr <= Len(issued)
  /\ Len(issued) - readPtr <= Slots

\* A call past ensure_ring_space owns the slot at write_ptr, which no unretired
\* packet occupies, and has written what its step says it has.
ClaimIsFree ==
  \A t \in Threads :
    /\ pc[t] \in {"claim", "arm", "object", "kernarg", "header"}
         => writePtr - readPtr < Slots
    /\ pc[t] \in {"arm", "object", "kernarg", "header"} => idx[t] = writePtr
    /\ pc[t] \in {"kernarg", "header"} => ring[SlotOf(idx[t])].obj = mine[t]
    /\ pc[t] = "header" => ring[SlotOf(idx[t])].karg = mine[t]
    /\ pc[t] \in {"space", "claim", "arm", "object", "kernarg", "header"}
         => mine[t] \in Packets
    /\ pc[t] = "target" /\ op[t] = "ring_doorbell" => writePtr > 0

\* A valid header belongs to a packet that was issued and not yet fetched.
HeadersValid ==
  \A s \in SlotIds :
    ring[s].hdr = "DISPATCH" =>
      \E i \in readPtr..Len(issued) - 1 :
        SlotOf(i) = s /\ (cp # "free" => i # readPtr)

RingInv ==
  /\ TypeOK
  /\ OneCaller
  /\ PointersAgree
  /\ ClaimIsFree
  /\ HeadersValid
  /\ NoOverwrite
  /\ LaunchedWhole
  /\ ExecutedInOrder

-----------------------------------------------------------------------------
\* Slot numbers are slots, and indices less than a ring apart have different
\* slots: the window from read_ptr to write_ptr never meets itself.
LEMMA SlotOfType == ASSUME NEW i \in Nat PROVE SlotOf(i) \in SlotIds
BY SlotsAssumption DEF SlotOf, SlotIds

\* Two indices less than a ring apart have different slots.
LEMMA SlotsDistinct ==
  ASSUME NEW i \in Nat, NEW j \in Nat, i < j, j - i < Slots
  PROVE  SlotOf(i) # SlotOf(j)
<1> DEFINE r == i % Slots
           q == i \div Slots
           p == j \div Slots
<1>1. SUFFICES ASSUME i % Slots = j % Slots PROVE FALSE
  BY DEF SlotOf
<1>2. Slots \in Nat /\ Slots > 0
  BY SlotsAssumption
<1>3. q \in Int /\ p \in Int /\ r \in Int
  BY <1>2
<1>4. i = Slots * q + r /\ j = Slots * p + r
  BY <1>1, <1>2
<1>5. CASE p > q
  BY <1>2, <1>3, <1>4, <1>5
<1>6. CASE p <= q
  BY <1>2, <1>3, <1>4, <1>6
<1>7. QED
  BY <1>3, <1>5, <1>6

-----------------------------------------------------------------------------
\* Types: the write_idx a call computes is never negative, because a doorbell
\* is rung only after a packet.
LEMMA TypeStep ==
  ASSUME TypeOK, ClaimIsFree, [Next]_vars
  PROVE  TypeOK'
<1> USE DEF TypeOK, Steps, Outcomes, vars, pointers, gpu, calling, Goto, Return
<1>1. ASSUME NEW t \in Threads, NEW c \in Calls, Call(t, c)
      PROVE  TypeOK'
  <2>1. made' \in {NoPacket} \cup Packets
    BY <1>1, BoundAssumption DEF Call, MayCall, Packets, NoPacket
  <2>2. mine' \in [Threads -> {NoPacket} \cup Packets]
    BY <1>1, BoundAssumption DEF Call, MayCall, Packets, NoPacket
  <2>3. FirstStep(c) \in Steps
    BY DEF FirstStep
  <2>4. QED
    BY <1>1, <2>1, <2>2, <2>3, CallsAssumption DEF Call
<1>2. ASSUME NEW t \in Threads, EnsureRingSpace(t)
      PROVE  TypeOK'
  BY <1>2 DEF EnsureRingSpace
<1>3. ASSUME NEW t \in Threads, RingSpaceTimeout(t)
      PROVE  TypeOK'
  BY <1>3 DEF RingSpaceTimeout
<1>4. ASSUME NEW t \in Threads, Claim(t)
      PROVE  TypeOK'
  BY <1>4 DEF Claim
<1>5. ASSUME NEW t \in Threads, ArmSignal(t)
      PROVE  TypeOK'
  BY <1>5 DEF ArmSignal
<1>6. ASSUME NEW t \in Threads, WriteObject(t)
      PROVE  TypeOK'
  <2>1. ring' \in [SlotIds -> Slot]
    <3> DEFINE s == SlotOf(idx[t])
               h == IF op[t] = "submit_batch" THEN "INVALID" ELSE ring[s].hdr
               r == [ring[s] EXCEPT !.hdr = h, !.obj = mine[t]]
    <3>1. s \in SlotIds
      BY SlotOfType
    <3>2. ring[s] \in Slot /\ mine[t] \in {NoPacket} \cup Packets
      BY <3>1
    <3>3. r \in Slot
      BY <3>2 DEF Slot
    <3>4. ring' = [ring EXCEPT ![s] = r]
      BY <1>6 DEF WriteObject
    <3> HIDE DEF s, r
    <3>5. QED
      BY <3>1, <3>3, <3>4
  <2>2. QED
    BY <1>6, <2>1 DEF WriteObject
<1>7. ASSUME NEW t \in Threads, WriteKernarg(t)
      PROVE  TypeOK'
  <2>1. ring' \in [SlotIds -> Slot]
    <3> DEFINE s == SlotOf(idx[t])
               g == IF op[t] = "dispatch_signal" THEN t ELSE NoSignal
               r == [ring[s] EXCEPT !.karg = mine[t], !.sig = g]
    <3>1. s \in SlotIds
      BY SlotOfType
    <3>2. ring[s] \in Slot /\ mine[t] \in {NoPacket} \cup Packets
      BY <3>1
    <3>3. r \in Slot
      BY <3>2 DEF Slot
    <3>4. ring' = [ring EXCEPT ![s] = r]
      BY <1>7 DEF WriteKernarg
    <3> HIDE DEF s, r
    <3>5. QED
      BY <3>1, <3>3, <3>4
  <2>2. QED
    BY <1>7, <2>1 DEF WriteKernarg
<1>8. ASSUME NEW t \in Threads, WriteHeader(t)
      PROVE  TypeOK'
  <2>1. ring' \in [SlotIds -> Slot]
    <3> DEFINE s == SlotOf(idx[t])
               r == [ring[s] EXCEPT !.hdr = "DISPATCH"]
    <3>1. s \in SlotIds
      BY SlotOfType
    <3>2. r \in Slot
      BY <3>1 DEF Slot
    <3>3. ring' = [ring EXCEPT ![s] = r]
      BY <1>8 DEF WriteHeader
    <3> HIDE DEF s, r
    <3>4. QED
      BY <3>1, <3>2, <3>3
  <2>2. issued' \in Seq(Packets)
    BY <1>8 DEF WriteHeader, ClaimIsFree
  <2>3. QED
    BY <1>8, <2>1, <2>2 DEF WriteHeader
<1>9. ASSUME NEW t \in Threads, Publish(t)
      PROVE  TypeOK'
  <2>1. writePtr' \in Nat
    BY <1>9 DEF Publish
  <2>2. pc' \in [Threads -> Steps] /\ out' \in [Threads -> Outcomes]
    BY <1>9 DEF Publish
  <2>3. QED
    BY <1>9, <2>1, <2>2 DEF Publish
<1>10. ASSUME NEW t \in Threads, RingDoorbell(t)
       PROVE  TypeOK'
  <2>1. CASE op[t] \in {"dispatch", "dispatch_signal"}
    <3>1. idx' \in [Threads -> Nat]
      <4>1. idx' = [idx EXCEPT ![t] = idx[t] + 1]
        BY <1>10, <2>1 DEF RingDoorbell
      <4>2. idx[t] + 1 \in Nat
        OBVIOUS
      <4>3. QED
        BY <4>1, <4>2
    <3>2. doorbell' \in Nat
      BY <1>10 DEF RingDoorbell
    <3>3. pc' \in [Threads -> Steps] /\ out' = out
      BY <1>10, <2>1 DEF RingDoorbell
    <3>4. UNCHANGED <<ring, writePtr, readPtr, gpu, destroyed, signal, op,
                      mine, made, owed, issued>>
      BY <1>10 DEF RingDoorbell
    <3>5. QED
      BY <3>1, <3>2, <3>3, <3>4
  <2>2. CASE op[t] \notin {"dispatch", "dispatch_signal"}
    BY <1>10, <2>2 DEF RingDoorbell
  <2>3. QED
    BY <2>1, <2>2
<1>11. ASSUME NEW t \in Threads, ReadWritePtr(t)
       PROVE  TypeOK'
  <2>1. CASE op[t] = "ring_doorbell"
    <3>1. writePtr > 0
      BY <1>11, <2>1 DEF ReadWritePtr, ClaimIsFree
    <3>2. QED
      <4>1. idx' \in [Threads -> Nat]
        BY <1>11, <2>1, <3>1 DEF ReadWritePtr
      <4>2. QED
        BY <1>11, <2>1, <4>1 DEF ReadWritePtr
  <2>2. CASE op[t] # "ring_doorbell"
    BY <1>11, <2>2 DEF ReadWritePtr
  <2>3. QED
    BY <2>1, <2>2
<1>12. ASSUME NEW t \in Threads, Poll(t)
       PROVE  TypeOK'
  BY <1>12 DEF Poll
<1>13. ASSUME NEW t \in Threads, PollTimeout(t)
       PROVE  TypeOK'
  BY <1>13 DEF PollTimeout
<1>14. ASSUME NEW t \in Threads, DropQueue(t)
       PROVE  TypeOK'
  BY <1>14 DEF DropQueue
<1>15. CASE CpLaunch
  <2>1. running' \in Slot
    BY <1>15, SlotOfType DEF CpLaunch
  <2>2. ring' \in [SlotIds -> Slot]
    BY <1>15, SlotOfType DEF CpLaunch, Slot
  <2>3. QED
    BY <1>15, <2>1, <2>2 DEF CpLaunch
<1>16. CASE CpComplete
  <2>1. executed' \in Seq({NoPacket} \cup Packets)
    BY <1>16 DEF CpComplete, Slot
  <2>2. QED
    BY <1>16, <2>1 DEF CpComplete
<1>17. CASE CpRetire
  BY <1>17 DEF CpRetire
<1>18. CASE CpHang
  BY <1>18 DEF CpHang
<1>19. CASE UNCHANGED vars
  BY <1>19
<1>20. QED
  BY <1>1, <1>2, <1>3, <1>4, <1>5, <1>6, <1>7, <1>8, <1>9, <1>10, <1>11,
     <1>12, <1>13, <1>14, <1>15, <1>16, <1>17, <1>18, <1>19
     DEF Next, Step, Cp

-----------------------------------------------------------------------------
\* Only Call takes a thread out of "idle", and only when all threads are idle.
LEMMA OneCallerStep ==
  ASSUME TypeOK, OneCaller, Serialized, [Next]_vars
  PROVE  OneCaller'
<1> USE DEF TypeOK, OneCaller, Goto, Return
<1>1. ASSUME NEW t \in Threads, NEW c \in Calls, Call(t, c)
      PROVE  OneCaller'
  BY <1>1 DEF Call
<1>2. ASSUME NEW t \in Threads, Step(t)
      PROVE  OneCaller'
  <2>1. /\ pc[t] # "idle"
        /\ \E step \in Steps : pc' = [pc EXCEPT ![t] = step]
    <3>1. CASE EnsureRingSpace(t) \/ RingSpaceTimeout(t) \/ Claim(t)
      BY <3>1 DEF EnsureRingSpace, RingSpaceTimeout, Claim, Steps
    <3>2. CASE ArmSignal(t) \/ WriteObject(t) \/ WriteKernarg(t)
                 \/ WriteHeader(t)
      BY <3>2 DEF ArmSignal, WriteObject, WriteKernarg, WriteHeader, Steps
    <3>3. CASE Publish(t)
      BY <3>3 DEF Publish, Steps
    <3>4. CASE RingDoorbell(t)
      BY <3>4 DEF RingDoorbell, Steps
    <3>5. CASE ReadWritePtr(t)
      BY <3>5 DEF ReadWritePtr, Steps
    <3>6. CASE Poll(t) \/ PollTimeout(t) \/ DropQueue(t)
      BY <3>6 DEF Poll, PollTimeout, DropQueue, Steps
    <3>7. QED
      BY <1>2, <3>1, <3>2, <3>3, <3>4, <3>5, <3>6 DEF Step
  <2>2. QED
    BY <2>1
<1>3. CASE Cp \/ UNCHANGED vars
  BY <1>3 DEF Cp, CpLaunch, CpComplete, CpRetire, CpHang, vars
<1>4. QED
  BY <1>1, <1>2, <1>3 DEF Next

-----------------------------------------------------------------------------
\* write_ptr follows the issued packets, read_ptr the executed ones, and the
\* space check keeps them at most a ring apart.
LEMMA PointersStep ==
  ASSUME TypeOK, OneCaller, PointersAgree, ClaimIsFree, HeadersValid,
         LaunchedWhole, Serialized, [Next]_vars
  PROVE  PointersAgree'
<1> USE DEF TypeOK, OneCaller, PointersAgree, Goto, Return, pointers, gpu
<1>1. ASSUME NEW t \in Threads, NEW c \in Calls, Call(t, c)
      PROVE  PointersAgree'
  <2>1. FirstStep(c) # "publish"
    BY DEF FirstStep
  <2>2. QED
    BY <1>1, <2>1 DEF Call
<1>2. ASSUME NEW t \in Threads,
             EnsureRingSpace(t) \/ RingSpaceTimeout(t)
      PROVE  PointersAgree'
  BY <1>2 DEF EnsureRingSpace, RingSpaceTimeout
<1>3. ASSUME NEW t \in Threads, Claim(t)
      PROVE  PointersAgree'
  BY <1>3 DEF Claim
<1>4. ASSUME NEW t \in Threads,
             ArmSignal(t) \/ WriteObject(t) \/ WriteKernarg(t)
      PROVE  PointersAgree'
  BY <1>4 DEF ArmSignal, WriteObject, WriteKernarg, calling
<1>5. ASSUME NEW t \in Threads, WriteHeader(t)
      PROVE  PointersAgree'
  <2>1. Len(issued') = Len(issued) + 1
    BY <1>5 DEF WriteHeader
  <2>2. Len(issued) = writePtr /\ idx[t] = writePtr /\ writePtr - readPtr < Slots
    BY <1>5 DEF WriteHeader, ClaimIsFree
  <2>3. QED
    BY <1>5, <2>1, <2>2, SlotsAssumption DEF WriteHeader
<1>6. ASSUME NEW t \in Threads, Publish(t)
      PROVE  PointersAgree'
  <2>1. \A u \in Threads : pc'[u] # "publish"
    BY <1>6 DEF Publish
  <2>2. writePtr' = Len(issued)
    BY <1>6 DEF Publish
  <2>3. UNCHANGED <<issued, readPtr, cp, executed>>
    BY <1>6 DEF Publish
  <2>4. QED
    BY <2>1, <2>2, <2>3
<1>7. ASSUME NEW t \in Threads, RingDoorbell(t)
      PROVE  PointersAgree'
  BY <1>7 DEF RingDoorbell
<1>8. ASSUME NEW t \in Threads, ReadWritePtr(t)
      PROVE  PointersAgree'
  <2>1. \A u \in Threads : pc'[u] # "publish"
    BY <1>8 DEF ReadWritePtr
  <2>2. UNCHANGED <<pointers, gpu, issued>>
    BY <1>8 DEF ReadWritePtr
  <2>3. \A u \in Threads : pc[u] # "publish"
    BY <1>8 DEF ReadWritePtr
  <2>4. QED
    BY <2>1, <2>2, <2>3
<1>9. ASSUME NEW t \in Threads, Poll(t) \/ PollTimeout(t) \/ DropQueue(t)
      PROVE  PointersAgree'
  BY <1>9 DEF Poll, PollTimeout, DropQueue
<1>10. CASE CpLaunch
  BY <1>10 DEF CpLaunch, calling
<1>11. CASE CpComplete
  <2>1. UNCHANGED <<pointers, pc, idx, issued>>
    BY <1>11 DEF CpComplete, calling
  <2>2. cp = "busy" /\ cp' = "retiring"
    BY <1>11 DEF CpComplete
  <2>3. Len(executed') = Len(executed) + 1
    BY <1>11 DEF CpComplete, Slot
  <2>4. QED
    BY <2>1, <2>2, <2>3
<1>12. CASE CpRetire
  <2>1. UNCHANGED <<writePtr, executed, pc, idx, issued>>
    BY <1>12 DEF CpRetire, calling
  <2>2. cp = "retiring" /\ cp' = "free" /\ readPtr' = readPtr + 1
    BY <1>12 DEF CpRetire
  <2>3. readPtr < Len(issued)
    BY <2>2 DEF LaunchedWhole
  <2>4. QED
    BY <2>1, <2>2, <2>3, SlotsAssumption
<1>13. CASE CpHang \/ UNCHANGED vars
  BY <1>13 DEF CpHang, calling, vars
<1>14. QED
  BY <1>1, <1>2, <1>3, <1>4, <1>5, <1>6, <1>7, <1>8, <1>9, <1>10, <1>11,
     <1>12, <1>13 DEF Next, Step, Cp

-----------------------------------------------------------------------------
\* The slot a call writes stays its own: other threads are idle, and the CP
\* only touches headers.
LEMMA ClaimStep ==
  ASSUME TypeOK, OneCaller, PointersAgree, ClaimIsFree, Serialized,
         [Next]_vars
  PROVE  ClaimIsFree'
<1> USE DEF TypeOK, OneCaller, Goto, Return, pointers, gpu
<1>1. ASSUME NEW t \in Threads, NEW c \in Calls, Call(t, c)
      PROVE  ClaimIsFree'
  <2>1. /\ FirstStep(c) \in {"space", "claim", "target"}
        /\ FirstStep(c) = "claim" => c = "submit_fast"
        /\ FirstStep(c) # "target" => c \in WritesPacket
    BY DEF FirstStep, WritesPacket
  <2>2. /\ c = "submit_fast" => writePtr - readPtr < Slots
        /\ c = "ring_doorbell" => Unrung > 0
    BY <1>1 DEF Call, MayCall
  <2>3. Unrung > 0 => writePtr > 0
    BY DEF Unrung
  <2>4. c \in WritesPacket => mine'[t] \in Packets
    BY <1>1, BoundAssumption DEF Call, MayCall, Packets, NoPacket
  <2>5. /\ pc'[t] = FirstStep(c) /\ op'[t] = c
        /\ \A u \in Threads \ {t} : pc'[u] = "idle"
        /\ UNCHANGED <<writePtr, readPtr>>
    BY <1>1 DEF Call
  <2>6. QED
    BY <2>1, <2>2, <2>3, <2>4, <2>5 DEF ClaimIsFree
<1>2. ASSUME NEW t \in Threads, EnsureRingSpace(t)
      PROVE  ClaimIsFree'
  BY <1>2, SlotsAssumption
     DEF EnsureRingSpace, HasRingSpace, ClaimIsFree, calling
<1>3. ASSUME NEW t \in Threads, Claim(t)
      PROVE  ClaimIsFree'
  BY <1>3 DEF Claim, ClaimIsFree
<1>4. ASSUME NEW t \in Threads, ArmSignal(t)
      PROVE  ClaimIsFree'
  BY <1>4 DEF ArmSignal, ClaimIsFree, calling
<1>5. ASSUME NEW t \in Threads, WriteObject(t)
      PROVE  ClaimIsFree'
  BY <1>5, SlotOfType DEF WriteObject, ClaimIsFree, calling, Slot
<1>6. ASSUME NEW t \in Threads, WriteKernarg(t)
      PROVE  ClaimIsFree'
  BY <1>6, SlotOfType DEF WriteKernarg, ClaimIsFree, calling, Slot
<1>7. ASSUME NEW t \in Threads,
             WriteHeader(t) \/ RingSpaceTimeout(t) \/ Poll(t)
               \/ PollTimeout(t) \/ DropQueue(t)
      PROVE  ClaimIsFree'
  BY <1>7 DEF WriteHeader, RingSpaceTimeout, Poll, PollTimeout, DropQueue,
              ClaimIsFree
<1>8. ASSUME NEW t \in Threads, Publish(t)
      PROVE  ClaimIsFree'
  BY <1>8 DEF Publish, ClaimIsFree
<1>9. ASSUME NEW t \in Threads, RingDoorbell(t)
      PROVE  ClaimIsFree'
  BY <1>9 DEF RingDoorbell, ClaimIsFree
<1>10. ASSUME NEW t \in Threads, ReadWritePtr(t)
       PROVE  ClaimIsFree'
  BY <1>10 DEF ReadWritePtr, ClaimIsFree
<1>11. CASE CpLaunch
  BY <1>11, SlotOfType DEF CpLaunch, ClaimIsFree, calling, Slot
<1>12. CASE CpComplete \/ CpHang \/ UNCHANGED vars
  BY <1>12 DEF CpComplete, CpHang, ClaimIsFree, calling, vars
<1>13. CASE CpRetire
  BY <1>13, SlotsAssumption DEF CpRetire, ClaimIsFree, calling
<1>14. QED
  BY <1>1, <1>2, <1>3, <1>4, <1>5, <1>6, <1>7, <1>8, <1>9, <1>10, <1>11,
     <1>12, <1>13 DEF Next, Step, Cp

-----------------------------------------------------------------------------
\* Headers become valid with the packet they announce, and invalid when the CP
\* fetches it.
LEMMA HeadersStep ==
  ASSUME TypeOK, OneCaller, PointersAgree, ClaimIsFree, HeadersValid,
         LaunchedWhole, Serialized, [Next]_vars
  PROVE  HeadersValid'
<1> USE DEF TypeOK, HeadersValid, pointers, gpu
<1>1. CASE UNCHANGED <<ring, readPtr, issued, cp>>
  BY <1>1 DEF SlotOf
<1>2. ASSUME NEW t \in Threads, NEW c \in Calls, Call(t, c)
      PROVE  HeadersValid'
  BY <1>1, <1>2 DEF Call
<1>3. ASSUME NEW t \in Threads,
             EnsureRingSpace(t) \/ RingSpaceTimeout(t) \/ Claim(t)
               \/ ArmSignal(t) \/ Publish(t) \/ RingDoorbell(t)
               \/ ReadWritePtr(t) \/ Poll(t) \/ PollTimeout(t) \/ DropQueue(t)
      PROVE  HeadersValid'
  BY <1>1, <1>3 DEF EnsureRingSpace, RingSpaceTimeout, Claim, ArmSignal,
     Publish, RingDoorbell, ReadWritePtr, Poll, PollTimeout, DropQueue
<1>4. ASSUME NEW t \in Threads, WriteObject(t) \/ WriteKernarg(t)
      PROVE  HeadersValid'
  <2>1. \A s \in SlotIds : ring'[s].hdr \in {ring[s].hdr, "INVALID"}
    <3>1. CASE WriteObject(t)
      BY <3>1, SlotOfType DEF WriteObject, Slot
    <3>2. CASE WriteKernarg(t)
      BY <3>2, SlotOfType DEF WriteKernarg, Slot
    <3>3. QED
      BY <1>4, <3>1, <3>2
  <2>2. UNCHANGED <<readPtr, issued, cp>>
    BY <1>4 DEF WriteObject, WriteKernarg
  <2>3. QED
    BY <2>1, <2>2 DEF SlotOf
<1>5. ASSUME NEW t \in Threads, WriteHeader(t)
      PROVE  HeadersValid'
  <2>1. Len(issued') = Len(issued) + 1 /\ UNCHANGED <<readPtr, cp>>
    BY <1>5 DEF WriteHeader
  <2>2. idx[t] = Len(issued) /\ readPtr <= Len(issued)
    BY <1>5 DEF WriteHeader, ClaimIsFree, PointersAgree, OneCaller
  <2>3. cp # "free" => readPtr < Len(issued)
    BY DEF LaunchedWhole
  <2>4. \A s \in SlotIds : s # SlotOf(idx[t]) => ring'[s].hdr = ring[s].hdr
    BY <1>5, SlotOfType DEF WriteHeader, Slot
  <2>5. ASSUME NEW s \in SlotIds, ring'[s].hdr = "DISPATCH"
        PROVE  \E i \in readPtr..Len(issued') - 1 :
                 SlotOf(i) = s /\ (cp # "free" => i # readPtr)
    <3>1. CASE s = SlotOf(idx[t])
      BY <3>1, <2>1, <2>2, <2>3
    <3>2. CASE s # SlotOf(idx[t])
      <4>1. PICK i \in readPtr..Len(issued) - 1 :
                   SlotOf(i) = s /\ (cp # "free" => i # readPtr)
        BY <2>4, <2>5, <3>2
      <4>2. i \in readPtr..Len(issued') - 1
        BY <2>1
      <4>3. QED
        BY <4>1, <4>2
    <3>3. QED
      BY <3>1, <3>2
  <2>6. QED
    BY <2>1, <2>5 DEF SlotOf
<1>6. CASE CpLaunch
  <2>1. UNCHANGED <<readPtr, issued>>
    BY <1>6 DEF CpLaunch
  <2>2. ASSUME NEW s \in SlotIds, ring'[s].hdr = "DISPATCH"
        PROVE  \E i \in readPtr..Len(issued) - 1 : SlotOf(i) = s /\ i # readPtr
    <3>1. s # SlotOf(readPtr) /\ ring[s].hdr = "DISPATCH"
      BY <1>6, <2>2, SlotOfType DEF CpLaunch, Slot
    <3>2. QED
      BY <3>1
  <2>3. QED
    BY <2>1, <2>2 DEF SlotOf
<1>7. CASE CpComplete
  BY <1>7 DEF CpComplete, SlotOf
<1>8. CASE CpRetire
  <2>1. /\ cp = "retiring" /\ readPtr' = readPtr + 1
        /\ UNCHANGED <<ring, issued>>
    BY <1>8 DEF CpRetire
  <2>2. ASSUME NEW s \in SlotIds, ring[s].hdr = "DISPATCH"
        PROVE  \E i \in readPtr + 1..Len(issued) - 1 : SlotOf(i) = s
    <3>1. PICK i \in readPtr..Len(issued) - 1 : SlotOf(i) = s /\ i # readPtr
      BY <2>1, <2>2
    <3>2. i \in readPtr + 1..Len(issued) - 1
      BY <3>1
    <3>3. QED
      BY <3>1, <3>2
  <2>3. cp' = "free"
    BY <1>8 DEF CpRetire
  <2>4. QED
    BY <2>1, <2>2, <2>3 DEF SlotOf
<1>9. CASE CpHang \/ UNCHANGED vars
  BY <1>1, <1>9 DEF CpHang, vars
<1>10. QED
  BY <1>2, <1>3, <1>4, <1>5, <1>6, <1>7, <1>8, <1>9 DEF Next, Step, Cp

-----------------------------------------------------------------------------
\* The writes of a call go to the slot at write_ptr, which lies outside the
\* window of unretired packets.
LEMMA NoOverwriteStep ==
  ASSUME TypeOK, OneCaller, PointersAgree, ClaimIsFree, NoOverwrite,
         [Next]_vars
  PROVE  NoOverwrite'
<1> USE DEF TypeOK, pointers, gpu
<1>1. ASSUME UNCHANGED issued, readPtr' \in {readPtr, readPtr + 1},
             \A i \in readPtr..Len(issued) - 1 :
               /\ ring'[SlotOf(i)].obj = ring[SlotOf(i)].obj
               /\ ring'[SlotOf(i)].karg = ring[SlotOf(i)].karg
      PROVE  NoOverwrite'
  <2>1. ASSUME NEW i \in readPtr'..Len(issued) - 1
        PROVE  /\ ring'[SlotOf(i)].obj = issued[i + 1]
               /\ ring'[SlotOf(i)].karg = issued[i + 1]
    <3>1. i \in readPtr..Len(issued) - 1
      BY <1>1
    <3>2. QED
      BY <1>1, <3>1 DEF NoOverwrite
  <2>2. QED
    BY <1>1, <2>1 DEF NoOverwrite, SlotOf
<1>2. CASE UNCHANGED <<ring, readPtr, issued>>
  BY <1>1, <1>2
<1>3. ASSUME NEW t \in Threads, NEW c \in Calls, Call(t, c)
      PROVE  NoOverwrite'
  BY <1>2, <1>3 DEF Call
<1>4. ASSUME NEW t \in Threads,
             EnsureRingSpace(t) \/ RingSpaceTimeout(t) \/ Claim(t)
               \/ ArmSignal(t) \/ Publish(t) \/ RingDoorbell(t)
               \/ ReadWritePtr(t) \/ Poll(t) \/ PollTimeout(t) \/ DropQueue(t)
      PROVE  NoOverwrite'
  <2>1. UNCHANGED <<ring, readPtr, issued>>
    BY <1>4 DEF EnsureRingSpace, RingSpaceTimeout, Claim, ArmSignal, Publish,
       RingDoorbell, ReadWritePtr, Poll, PollTimeout, DropQueue
  <2>2. QED
    BY <1>2, <2>1
<1>5. ASSUME NEW t \in Threads, pc[t] \in {"object", "kernarg", "header"},
             NEW i \in readPtr..Len(issued) - 1
      PROVE  SlotOf(i) # SlotOf(idx[t])
  <2>1. \A u \in Threads : pc[u] # "publish"
    BY <1>5 DEF OneCaller
  <2>2. idx[t] = Len(issued) /\ idx[t] - readPtr < Slots
    BY <1>5, <2>1 DEF ClaimIsFree, PointersAgree
  <2>3. i \in Nat /\ idx[t] \in Nat /\ i < idx[t] /\ idx[t] - i < Slots
    BY <1>5, <2>2, SlotsAssumption
  <2>4. QED
    BY <2>3, SlotsDistinct
<1>6. ASSUME NEW t \in Threads, WriteObject(t)
      PROVE  NoOverwrite'
  <2>1. UNCHANGED <<readPtr, issued>>
    BY <1>6 DEF WriteObject
  <2>2. \A s \in SlotIds : s # SlotOf(idx[t]) => ring'[s] = ring[s]
    BY <1>6 DEF WriteObject
  <2>3. QED
    <3>1. \A i \in readPtr..Len(issued) - 1 : ring'[SlotOf(i)] = ring[SlotOf(i)]
      BY <1>5, <1>6, <2>2, SlotOfType DEF WriteObject
    <3>2. QED
      BY <1>1, <2>1, <3>1
<1>7. ASSUME NEW t \in Threads, WriteKernarg(t)
      PROVE  NoOverwrite'
  <2>1. UNCHANGED <<readPtr, issued>>
    BY <1>7 DEF WriteKernarg
  <2>2. \A s \in SlotIds : s # SlotOf(idx[t]) => ring'[s] = ring[s]
    BY <1>7 DEF WriteKernarg
  <2>3. QED
    <3>1. \A i \in readPtr..Len(issued) - 1 : ring'[SlotOf(i)] = ring[SlotOf(i)]
      BY <1>5, <1>7, <2>2, SlotOfType DEF WriteKernarg
    <3>2. QED
      BY <1>1, <2>1, <3>1
<1>8. ASSUME NEW t \in Threads, WriteHeader(t)
      PROVE  NoOverwrite'
  <2>1. issued' = Append(issued, mine[t]) /\ UNCHANGED readPtr
    BY <1>8 DEF WriteHeader
  <2>2. \A s \in SlotIds : /\ ring'[s].obj = ring[s].obj
                           /\ ring'[s].karg = ring[s].karg
    BY <1>8 DEF WriteHeader, Slot
  <2>3. /\ idx[t] = Len(issued)
        /\ ring[SlotOf(idx[t])].obj = mine[t]
        /\ ring[SlotOf(idx[t])].karg = mine[t]
        /\ mine[t] \in Packets
    BY <1>8 DEF WriteHeader, ClaimIsFree, PointersAgree, OneCaller
  <2>4. ASSUME NEW i \in readPtr..Len(issued') - 1
        PROVE  /\ ring'[SlotOf(i)].obj = issued'[i + 1]
               /\ ring'[SlotOf(i)].karg = issued'[i + 1]
    <3>1. i \in Nat /\ SlotOf(i) \in SlotIds
      BY SlotOfType
    <3>2. CASE i = Len(issued)
      BY <2>1, <2>2, <2>3, <3>1, <3>2
    <3>3. CASE i < Len(issued)
      <4>1. issued'[i + 1] = issued[i + 1]
        BY <2>1, <2>3, <3>1, <3>3
      <4>2. i \in readPtr..Len(issued) - 1
        BY <3>1, <3>3
      <4>3. QED
        BY <2>2, <3>1, <4>1, <4>2 DEF NoOverwrite
    <3>4. QED
      BY <2>1, <2>3, <3>1, <3>2, <3>3
  <2>5. QED
    BY <2>1, <2>4 DEF NoOverwrite, SlotOf
<1>9. CASE CpLaunch
  <2>1. \A s \in SlotIds : /\ ring'[s].obj = ring[s].obj
                           /\ ring'[s].karg = ring[s].karg
    BY <1>9 DEF CpLaunch, Slot
  <2>2. UNCHANGED <<readPtr, issued>>
    BY <1>9 DEF CpLaunch
  <2>3. QED
    BY <1>1, <2>1, <2>2, SlotOfType
<1>10. CASE CpComplete \/ CpRetire \/ CpHang \/ UNCHANGED vars
  BY <1>1, <1>10 DEF CpComplete, CpRetire, CpHang, vars
<1>11. QED
  BY <1>3, <1>4, <1>6, <1>7, <1>8, <1>9, <1>10 DEF Next, Step, Cp

-----------------------------------------------------------------------------
\* What the CP fetches is the packet its header announced, and what retires is
\* what it fetched.
LEMMA LaunchedStep ==
  ASSUME TypeOK, PointersAgree, HeadersValid, NoOverwrite, LaunchedWhole,
         ClaimIsFree, [Next]_vars
  PROVE  LaunchedWhole'
<1> USE DEF TypeOK, LaunchedWhole, pointers, gpu
<1>1. CASE UNCHANGED <<cp, readPtr, running, issued>>
  BY <1>1
<1>2. ASSUME NEW t \in Threads, NEW c \in Calls, Call(t, c)
      PROVE  LaunchedWhole'
  BY <1>1, <1>2 DEF Call
<1>3. ASSUME NEW t \in Threads,
             EnsureRingSpace(t) \/ RingSpaceTimeout(t) \/ Claim(t)
               \/ ArmSignal(t) \/ WriteObject(t) \/ WriteKernarg(t)
               \/ Publish(t) \/ RingDoorbell(t) \/ ReadWritePtr(t)
               \/ Poll(t) \/ PollTimeout(t) \/ DropQueue(t)
      PROVE  LaunchedWhole'
  <2>1. UNCHANGED <<cp, readPtr, running, issued>>
    BY <1>3 DEF EnsureRingSpace, RingSpaceTimeout, Claim, ArmSignal,
       WriteObject, WriteKernarg, Publish, RingDoorbell, ReadWritePtr, Poll,
       PollTimeout, DropQueue
  <2>2. QED
    BY <1>1, <2>1
<1>4. ASSUME NEW t \in Threads, WriteHeader(t)
      PROVE  LaunchedWhole'
  <2>1. issued' = Append(issued, mine[t]) /\ mine[t] \in Packets
    BY <1>4 DEF WriteHeader, ClaimIsFree
  <2>2. UNCHANGED <<cp, readPtr, running>>
    BY <1>4 DEF WriteHeader
  <2>3. cp # "free" => readPtr + 1 \in 1..Len(issued)
    OBVIOUS
  <2>4. QED
    BY <2>1, <2>2, <2>3
<1>5. CASE CpLaunch
  <2>1. readPtr < Len(issued)
    BY <1>5, SlotOfType DEF CpLaunch, HeadersValid
  <2>2. running' = ring[SlotOf(readPtr)] /\ UNCHANGED <<readPtr, issued>>
    BY <1>5 DEF CpLaunch
  <2>3. readPtr \in readPtr..Len(issued) - 1
    BY <2>1
  <2>4. QED
    BY <2>1, <2>2, <2>3 DEF NoOverwrite
<1>6. CASE CpComplete
  BY <1>6 DEF CpComplete
<1>7. CASE CpRetire \/ CpHang \/ UNCHANGED vars
  BY <1>1, <1>7 DEF CpRetire, CpHang, vars
<1>8. QED
  BY <1>2, <1>3, <1>4, <1>5, <1>6, <1>7 DEF Next, Step, Cp

\* So the packets run are the first packets issued, each once.
LEMMA OrderStep ==
  ASSUME TypeOK, PointersAgree, LaunchedWhole, ExecutedInOrder, ClaimIsFree,
         [Next]_vars
  PROVE  ExecutedInOrder'
<1> USE DEF TypeOK, ExecutedInOrder, pointers, gpu
<1>1. CASE UNCHANGED <<issued, executed>>
  BY <1>1
<1>2. ASSUME NEW t \in Threads, NEW c \in Calls, Call(t, c)
      PROVE  ExecutedInOrder'
  BY <1>1, <1>2 DEF Call
<1>3. ASSUME NEW t \in Threads,
             EnsureRingSpace(t) \/ RingSpaceTimeout(t) \/ Claim(t)
               \/ ArmSignal(t) \/ WriteObject(t) \/ WriteKernarg(t)
               \/ Publish(t) \/ RingDoorbell(t) \/ ReadWritePtr(t)
               \/ Poll(t) \/ PollTimeout(t) \/ DropQueue(t)
      PROVE  ExecutedInOrder'
  <2>1. UNCHANGED <<issued, executed>>
    BY <1>3 DEF EnsureRingSpace, RingSpaceTimeout, Claim, ArmSignal,
       WriteObject, WriteKernarg, Publish, RingDoorbell, ReadWritePtr, Poll,
       PollTimeout, DropQueue
  <2>2. QED
    BY <1>1, <2>1
<1>4. ASSUME NEW t \in Threads, WriteHeader(t)
      PROVE  ExecutedInOrder'
  <2>1. issued' = Append(issued, mine[t]) /\ mine[t] \in Packets
    BY <1>4 DEF WriteHeader, ClaimIsFree
  <2>2. UNCHANGED executed
    BY <1>4 DEF WriteHeader
  <2>3. QED
    BY <2>1, <2>2
<1>5. CASE CpComplete
  <2>1. Len(executed) = readPtr /\ readPtr < Len(issued)
    BY <1>5 DEF CpComplete, PointersAgree, LaunchedWhole
  <2>2. executed' = Append(executed, issued[readPtr + 1]) /\ UNCHANGED issued
    BY <1>5 DEF CpComplete, LaunchedWhole
  <2>3. issued[readPtr + 1] \in Packets
    BY <2>1
  <2>4. QED
    BY <2>1, <2>2, <2>3
<1>6. CASE CpLaunch \/ CpRetire \/ CpHang \/ UNCHANGED vars
  BY <1>1, <1>6 DEF CpLaunch, CpRetire, CpHang, vars
<1>7. QED
  BY <1>2, <1>3, <1>4, <1>5, <1>6 DEF Next, Step, Cp

-----------------------------------------------------------------------------
\* The invariant holds initially.
LEMMA RingInit == Init => RingInv
<1> SUFFICES ASSUME Init PROVE RingInv
  OBVIOUS
<1> USE SlotsAssumption DEF Init
<1>1. TypeOK
  <2>1. Empty \in Slot
    BY DEF Empty, Slot
  <2>2. /\ issued \in Seq(Packets)
        /\ executed \in Seq({NoPacket} \cup Packets)
    OBVIOUS
  <2>3. /\ pc \in [Threads -> Steps]
        /\ op \in [Threads -> AllCalls]
        /\ out \in [Threads -> Outcomes]
    BY DEF Steps, AllCalls, Outcomes
  <2>4. /\ signal \in [Threads -> Int]
        /\ idx \in [Threads -> Nat]
        /\ mine \in [Threads -> {NoPacket} \cup Packets]
        /\ made \in {NoPacket} \cup Packets
        /\ owed \in [Threads -> Nat]
    BY DEF NoPacket
  <2>5. /\ hung \in BOOLEAN
        /\ destroyed \in BOOLEAN
    OBVIOUS
  <2>6. QED
    BY <2>1, <2>2, <2>3, <2>4, <2>5 DEF TypeOK
<1>2. OneCaller /\ PointersAgree /\ ClaimIsFree
  BY DEF OneCaller, PointersAgree, ClaimIsFree
<1>3. HeadersValid
  BY DEF HeadersValid, Empty
<1>4. NoOverwrite /\ LaunchedWhole /\ ExecutedInOrder
  BY DEF NoOverwrite, LaunchedWhole, ExecutedInOrder
<1>5. QED
  BY <1>1, <1>2, <1>3, <1>4 DEF RingInv

\* Types hold of every behaviour whose callers take turns.
THEOREM RingIsInductive == ASSUME Serialized PROVE Spec => []RingInv
<1>1. ASSUME RingInv, [Next]_vars PROVE RingInv'
  BY <1>1, TypeStep, OneCallerStep, PointersStep, ClaimStep, HeadersStep,
     NoOverwriteStep, LaunchedStep, OrderStep DEF RingInv
<1>2. QED
  BY <1>1, RingInit, PTL DEF Spec

\* The ring, its pointers and the threads have their types in every behaviour.
THEOREM TypeCorrect == ASSUME Serialized PROVE Spec => []TypeOK
BY RingIsInductive, PTL DEF RingInv

\* While callers take turns, ensure_ring_space and the write order of a packet
\* keep every unretired packet intact, on a ring of any size.
THEOREM NeverOverwritten == ASSUME Serialized PROVE Spec => []NoOverwrite
BY RingIsInductive, PTL DEF RingInv

\* The CP never runs a packet whose kernel_object and kernarg_address belong to
\* different calls, nor one that was not issued.
THEOREM NeverTorn == ASSUME Serialized PROVE Spec => []LaunchedWhole
BY RingIsInductive, PTL DEF RingInv

\* Packets run in submission order, each once, for any mixture of the calls.
THEOREM RunInOrder == ASSUME Serialized PROVE Spec => []ExecutedInOrder
BY RingIsInductive, PTL DEF RingInv

-----------------------------------------------------------------------------
\* What a call waits for is at least what its Ok speaks of, and read_ptr never
\* counts a packet that has not run.
WaitsCount ==
  \A t \in Threads :
    /\ out[t] = "ok" /\ op[t] # "dispatch_signal" => Len(executed) >= owed[t]
    /\ pc[t] # "idle" => out[t] # "ok"
    /\ pc[t] = "target" => owed[t] <= writePtr
    /\ pc[t] \in {"publish", "doorbell"} => owed[t] <= idx[t] + 1
    /\ pc[t] = "poll" => owed[t] <= idx[t]

\* What a wait compares with never falls behind what its Ok is taken for.
LEMMA WaitsStep ==
  ASSUME TypeOK, OneCaller, PointersAgree, ClaimIsFree, WaitsCount, Serialized,
         [Next]_vars
  PROVE  WaitsCount'
<1> USE DEF TypeOK, OneCaller, WaitsCount, Goto, Return, pointers, gpu
<1>1. ASSUME NEW t \in Threads, NEW c \in Calls, Call(t, c)
      PROVE  WaitsCount'
  <2>1. Len(issued) = writePtr
    BY <1>1 DEF Call, PointersAgree
  <2>2. FirstStep(c) \in {"space", "claim", "target"}
    BY DEF FirstStep
  <2>3. owed'[t] <= writePtr /\ out'[t] = "none" /\ pc'[t] = FirstStep(c)
    BY <1>1, <2>1 DEF Call
  <2>4. \A u \in Threads \ {t} : /\ pc'[u] = "idle" /\ out'[u] = out[u]
                                 /\ op'[u] = op[u] /\ owed'[u] = owed[u]
    BY <1>1 DEF Call
  <2>5. UNCHANGED <<executed, writePtr>>
    BY <1>1 DEF Call
  <2>6. QED
    BY <2>2, <2>3, <2>4, <2>5
<1>2. ASSUME NEW t \in Threads,
             EnsureRingSpace(t) \/ RingSpaceTimeout(t) \/ Claim(t)
      PROVE  WaitsCount'
  BY <1>2 DEF EnsureRingSpace, RingSpaceTimeout, Claim, calling
<1>3. ASSUME NEW t \in Threads,
             ArmSignal(t) \/ WriteObject(t) \/ WriteKernarg(t)
      PROVE  WaitsCount'
  BY <1>3 DEF ArmSignal, WriteObject, WriteKernarg, calling
<1>4. ASSUME NEW t \in Threads, WriteHeader(t)
      PROVE  WaitsCount'
  <2>1. Len(issued) = idx[t]
    BY <1>4 DEF WriteHeader, PointersAgree, ClaimIsFree
  <2>2. QED
    BY <1>4, <2>1 DEF WriteHeader
<1>5. ASSUME NEW t \in Threads, Publish(t)
      PROVE  WaitsCount'
  BY <1>5 DEF Publish
<1>6. ASSUME NEW t \in Threads, RingDoorbell(t)
      PROVE  WaitsCount'
  BY <1>6 DEF RingDoorbell
<1>7. ASSUME NEW t \in Threads, ReadWritePtr(t)
      PROVE  WaitsCount'
  BY <1>7 DEF ReadWritePtr
<1>8. ASSUME NEW t \in Threads, Poll(t)
      PROVE  WaitsCount'
  <2>1. readPtr <= Len(executed)
    BY DEF PointersAgree
  <2>2. op[t] # "dispatch_signal" => Len(executed) >= owed[t]
    BY <1>8, <2>1 DEF Poll, Completed
  <2>3. QED
    BY <1>8, <2>2 DEF Poll
<1>9. ASSUME NEW t \in Threads, PollTimeout(t) \/ DropQueue(t)
      PROVE  WaitsCount'
  BY <1>9 DEF PollTimeout, DropQueue
<1>10. CASE CpComplete
  <2>1. Len(executed') = Len(executed) + 1
    BY <1>10 DEF CpComplete, Slot
  <2>2. UNCHANGED <<writePtr, pc, op, idx, out, owed>>
    BY <1>10 DEF CpComplete, calling
  <2>3. QED
    BY <2>1, <2>2
<1>11. CASE CpLaunch \/ CpRetire \/ CpHang \/ UNCHANGED vars
  BY <1>11 DEF CpLaunch, CpRetire, CpHang, calling, vars
<1>12. QED
  BY <1>1, <1>2, <1>3, <1>4, <1>5, <1>6, <1>7, <1>8, <1>9, <1>10, <1>11
     DEF Next, Step, Cp

\* The call a thread is inside is one of those the host uses.
LEMMA OnlyCallsUsed ==
  ASSUME op \in [Threads -> Calls \cup {"submit"}], [Next]_vars
  PROVE  op' \in [Threads -> Calls \cup {"submit"}]
<1>1. ASSUME NEW t \in Threads, NEW c \in Calls, Call(t, c)
      PROVE  op' \in [Threads -> Calls \cup {"submit"}]
  BY <1>1 DEF Call
<1>2. ASSUME NEW t \in Threads, Step(t) PROVE UNCHANGED op
  BY <1>2 DEF Step, EnsureRingSpace, RingSpaceTimeout, Claim, ArmSignal,
     WriteObject, WriteKernarg, WriteHeader, Publish, RingDoorbell,
     ReadWritePtr, Poll, PollTimeout, DropQueue, calling
<1>3. CASE Cp \/ UNCHANGED vars
  BY <1>3 DEF Cp, CpLaunch, CpComplete, CpRetire, CpHang, calling, vars
<1>4. QED
  BY <1>1, <1>2, <1>3 DEF Next

\* Ok from wait_idle, wait_idle_spin and dispatch is true on a GPU of any speed:
\* everything the call waits for has run.  dispatch_signal is left out: on a
\* slow GPU its Ok may be that of an earlier packet.
THEOREM OkIsTrue ==
  ASSUME Serialized, "dispatch_signal" \notin Calls
  PROVE  Spec => []OkMeansDone
<1> DEFINE OpsInUse == op \in [Threads -> Calls \cup {"submit"}]
<1>1. Init => OpsInUse /\ WaitsCount
  BY DEF Init, WaitsCount
<1>2. ASSUME RingInv, OpsInUse, WaitsCount, [Next]_vars
      PROVE  OpsInUse' /\ WaitsCount'
  BY <1>2, WaitsStep, OnlyCallsUsed DEF RingInv
<1>3. OpsInUse /\ WaitsCount => OkMeansDone
  BY DEF WaitsCount, OkMeansDone
<1>4. QED
  BY <1>1, <1>2, <1>3, RingIsInductive, PTL DEF Spec
-----------------------------------------------------------------------------
(* AqlQueue implements CommandQueue for every number of slots, threads and *)
(* packets: a packet is issued when its header becomes valid, it has run   *)
(* when its kernel has ended, and a call waits from its beginning, or from *)
(* its packet's header, until it reports.                                  *)

Pending == SubSeq(issued, Len(executed) + 1, Len(issued))
Awaits  == [t \in Threads |-> IF Awaiting(t) THEN owed[t] + 1 ELSE 0]
Verdict == [t \in Threads |-> IF out[t] \in {"ok", "err"} THEN out[t]
                                                          ELSE "none"]

\* The step a thread is at belongs to the call it is inside, which has not
\* reported yet and uses a queue that exists.
CallMatches ==
  \A t \in Threads :
    /\ pc[t] \in {"space", "claim", "arm", "object", "kernarg", "header",
                  "publish"}
         => op[t] \in WritesPacket
    /\ pc[t] = "target" => op[t] \in Waits \cup {"ring_doorbell", "drop"}
    /\ pc[t] = "doorbell" => op[t] \notin Waits
    /\ pc[t] = "poll" => op[t] \in Waits \cup {"dispatch", "dispatch_signal",
                                               "drop"}
    /\ pc[t] # "idle" => out[t] = "none" /\ ~destroyed

\* Every step of a call is one of those its method takes, to its return.
LEMMA CallMatchesStep ==
  ASSUME TypeOK, OneCaller, CallMatches, [Next]_vars
  PROVE  CallMatches'
<1> USE DEF TypeOK, OneCaller, CallMatches, Goto, Return, WritesPacket, Waits
<1>1. ASSUME NEW t \in Threads, NEW c \in Calls, Call(t, c)
      PROVE  CallMatches'
  <2>1. /\ FirstStep(c) \in {"space", "claim", "target"}
        /\ FirstStep(c) = "target" =>
             c \in Waits \cup {"ring_doorbell", "drop"}
        /\ FirstStep(c) # "target" => c \in WritesPacket
    BY CallsAssumption DEF FirstStep, AllCalls
  <2>2. /\ pc'[t] = FirstStep(c) /\ op'[t] = c /\ out'[t] = "none"
        /\ ~destroyed /\ destroyed' = destroyed
    BY <1>1 DEF Call
  <2>3. \A u \in Threads \ {t} :
          pc'[u] = pc[u] /\ op'[u] = op[u] /\ out'[u] = out[u]
    BY <1>1 DEF Call
  <2>4. QED
    BY <2>1, <2>2, <2>3
<1>2. ASSUME NEW t \in Threads,
             EnsureRingSpace(t) \/ RingSpaceTimeout(t) \/ Claim(t)
      PROVE  CallMatches'
  BY <1>2 DEF EnsureRingSpace, RingSpaceTimeout, Claim, calling
<1>3. ASSUME NEW t \in Threads,
             ArmSignal(t) \/ WriteObject(t) \/ WriteKernarg(t)
      PROVE  CallMatches'
  BY <1>3 DEF ArmSignal, WriteObject, WriteKernarg, calling
<1>4. ASSUME NEW t \in Threads, WriteHeader(t) \/ Publish(t)
      PROVE  CallMatches'
  BY <1>4 DEF WriteHeader, Publish
<1>5. ASSUME NEW t \in Threads, RingDoorbell(t) \/ ReadWritePtr(t)
      PROVE  CallMatches'
  BY <1>5 DEF RingDoorbell, ReadWritePtr
<1>6. ASSUME NEW t \in Threads, Poll(t) \/ PollTimeout(t)
      PROVE  CallMatches'
  BY <1>6 DEF Poll, PollTimeout
<1>7. ASSUME NEW t \in Threads, DropQueue(t) PROVE CallMatches'
  <2>1. \A u \in Threads : pc'[u] = "idle"
    BY <1>7 DEF DropQueue
  <2>2. QED
    BY <2>1
<1>8. CASE Cp \/ UNCHANGED vars
  BY <1>8 DEF Cp, CpLaunch, CpComplete, CpRetire, CpHang, calling, vars
<1>9. QED
  BY <1>1, <1>2, <1>3, <1>4, <1>5, <1>6, <1>7, <1>8 DEF Next, Step

-----------------------------------------------------------------------------
(* What the steps do to the abstract queue.                                *)

\* The pending packets are those issued and not yet run.
LEMMA PendingLength ==
  ASSUME TypeOK, ExecutedInOrder
  PROVE  /\ Pending \in Seq(Packets)
         /\ Len(Pending) = Len(issued) - Len(executed)
<1>1. Len(executed) \in Nat /\ Len(issued) \in Nat
  BY DEF TypeOK
<1>2. \A i \in Len(executed) + 1 .. Len(issued) : issued[i] \in Packets
  BY <1>1 DEF TypeOK
<1>3. QED
  BY <1>1, <1>2, SubSeqProperties DEF Pending, ExecutedInOrder

\* Appending an element to a sequence appends it to every suffix.
LEMMA SubSeqAppend ==
  ASSUME NEW S, NEW s \in Seq(S), NEW e \in S, NEW n \in Nat, n <= Len(s)
  PROVE  SubSeq(Append(s, e), n + 1, Len(s) + 1)
           = Append(SubSeq(s, n + 1, Len(s)), e)
<1> DEFINE longer == Append(s, e)
           old == SubSeq(s, n + 1, Len(s))
           new == SubSeq(longer, n + 1, Len(s) + 1)
<1>1. /\ longer \in Seq(S) /\ Len(longer) = Len(s) + 1
      /\ \A i \in 1..Len(s) : longer[i] = s[i]
      /\ longer[Len(s) + 1] = e
  BY AppendProperties
<1>2. Len(s) \in Nat /\ \A i \in 1..Len(s) : s[i] \in S
  OBVIOUS
<1>3. \A i \in n + 1..Len(s) + 1 : longer[i] \in S
  BY <1>1, <1>2
<1> HIDE DEF longer
<1>4. /\ old \in Seq(S) /\ Len(old) = Len(s) - n
      /\ \A i \in 1..Len(s) - n : old[i] = s[i + n]
  BY <1>2, SubSeqProperties
<1>5. /\ new \in Seq(S) /\ Len(new) = (Len(s) - n) + 1
      /\ \A i \in 1..(Len(s) - n) + 1 : new[i] = longer[i + n]
  BY <1>2, <1>3, SubSeqProperties
<1> HIDE DEF old, new
<1>6. /\ Append(old, e) \in Seq(S) /\ Len(Append(old, e)) = Len(old) + 1
      /\ \A i \in 1..Len(old) : Append(old, e)[i] = old[i]
      /\ Append(old, e)[Len(old) + 1] = e
  BY <1>4, AppendProperties
<1>7. \A i \in 1..Len(new) : new[i] = Append(old, e)[i]
  <2>1. SUFFICES ASSUME NEW i \in 1..(Len(s) - n) + 1
                 PROVE  new[i] = Append(old, e)[i]
    BY <1>5
  <2>2. CASE i = (Len(s) - n) + 1
    <3>1. i + n = Len(s) + 1 /\ i = Len(old) + 1
      BY <1>2, <1>4, <2>2
    <3>2. new[i] = longer[i + n]
      BY <1>5
    <3>3. QED
      BY <1>1, <1>6, <3>1, <3>2
  <2>3. CASE i \in 1..Len(s) - n
    <3>1. i + n \in 1..Len(s)
      BY <1>2, <2>3
    <3>2. new[i] = longer[i + n] /\ old[i] = s[i + n]
      BY <1>4, <1>5, <2>3
    <3>3. Append(old, e)[i] = old[i]
      BY <1>4, <1>6, <2>3
    <3>4. QED
      BY <1>1, <3>1, <3>2, <3>3
  <2>4. i = (Len(s) - n) + 1 \/ i \in 1..Len(s) - n
    <3> DEFINE k == Len(s) - n
    <3>1. k \in Nat /\ i \in 1..k + 1
      BY <1>2
    <3> HIDE DEF k
    <3>2. i = k + 1 \/ i \in 1..k
      BY <3>1
    <3>3. QED
      BY <3>2 DEF k
  <2>5. QED
    BY <2>2, <2>3, <2>4
<1>8. new = Append(old, e)
  BY <1>4, <1>5, <1>6, <1>7, SeqEqual
<1>9. QED
  BY <1>8 DEF new, old, longer

\* A thread whose call neither begins, reports nor issues a packet leaves the
\* abstract queue as it is.
LEMMA Stutter ==
  ASSUME TypeOK,
         UNCHANGED <<issued, executed, destroyed>>,
         \A u \in Threads :
           /\ Awaiting(u)' <=> Awaiting(u)
           /\ Awaiting(u) => owed'[u] = owed[u]
           /\ out[u] \in {"ok", "err"} \/ out'[u] \in {"ok", "err"}
                => out'[u] = out[u]
  PROVE  UNCHANGED Abstract!vars
<1>1. Pending' = Pending
  BY DEF Pending
<1>2. Awaits' = Awaits
  BY DEF Awaits
<1>3. Verdict' = Verdict
  BY DEF Verdict
<1>4. QED
  BY <1>1, <1>2, <1>3 DEF Abstract!vars, Pending, Awaits, Verdict

\* The functions of the mapping change only where the thread does.
LEMMA OthersKeep ==
  ASSUME TypeOK, NEW t \in Threads, NEW a, NEW v,
         \A u \in Threads \ {t} :
           /\ pc'[u] = pc[u] /\ op'[u] = op[u]
        /\ owed'[u] = owed[u] /\ out'[u] = out[u],
         a = IF Awaiting(t)' THEN owed'[t] + 1 ELSE 0,
         v = IF out'[t] \in {"ok", "err"} THEN out'[t] ELSE "none"
  PROVE  /\ Awaits' = [Awaits EXCEPT ![t] = a]
         /\ Verdict' = [Verdict EXCEPT ![t] = v]
<1>1. \A u \in Threads \ {t} : Awaiting(u)' <=> Awaiting(u)
  BY DEF Awaiting
<1>2. Awaits' = [u \in Threads |-> IF u = t THEN a ELSE Awaits[u]]
  BY <1>1 DEF Awaits
<1>3. Verdict' = [u \in Threads |-> IF u = t THEN v ELSE Verdict[u]]
  BY DEF Verdict
<1>4. QED
  BY <1>2, <1>3 DEF Awaits, Verdict
-----------------------------------------------------------------------------
(* Every step is a step of the abstract queue, or none.                    *)

\* A call begins; the waits have taken note of what they wait for.
LEMMA CallRefines ==
  ASSUME RingInv, CallMatches, NEW t \in Threads, NEW c \in Calls, Call(t, c)
  PROVE  Abstract!Begin(t)
<1> USE DEF RingInv
<1> DEFINE a == IF c \in Waits THEN Len(issued) + 1 ELSE 0
<1>1. /\ pc[t] = "idle" /\ ~destroyed /\ op'[t] = c /\ out'[t] = "none"
      /\ pc'[t] \in {"space", "claim", "target"}
      /\ owed'[t] = IF c \in Waits THEN Len(issued) ELSE 0
      /\ UNCHANGED <<issued, executed, destroyed>>
  BY DEF Call, FirstStep, TypeOK, gpu
<1>2. \A u \in Threads \ {t} :
        /\ pc'[u] = pc[u] /\ op'[u] = op[u]
        /\ owed'[u] = owed[u] /\ out'[u] = out[u]
  BY DEF Call, TypeOK
<1>3. Awaiting(t)' <=> c \in Waits
  BY <1>1 DEF Awaiting, Waits
<1>4. /\ Awaits' = [Awaits EXCEPT ![t] = a]
      /\ Verdict' = [Verdict EXCEPT ![t] = "none"]
  BY <1>1, <1>2, <1>3, OthersKeep
<1>5. Pending' = Pending
  BY <1>1 DEF Pending
<1>6. c \notin Waits => Awaits' = Awaits
  BY <1>1, <1>4 DEF Awaits, Awaiting
<1>7. a = IF c \in Waits THEN 1 + Len(executed) + Len(Pending) ELSE 0
  BY PendingLength DEF TypeOK
<1> HIDE DEF a
<1>8. \/ Awaits' = Awaits
      \/ Awaits' = [Awaits EXCEPT ![t] = 1 + Len(executed) + Len(Pending)]
  BY <1>4, <1>6, <1>7
<1>9. QED
  BY <1>1, <1>4, <1>5, <1>8
     DEF Abstract!Begin, Abstract!Report, Pending, Awaits, Verdict

\* A packet is issued when its header becomes valid.
LEMMA HeaderRefines ==
  ASSUME RingInv, CallMatches, NEW t \in Threads, WriteHeader(t),
         NEW p \in Packets, p = mine[t]
  PROVE  Abstract!Issue(t, p)
<1> USE DEF RingInv
<1>1. /\ pc[t] = "header" /\ pc'[t] = "publish" /\ op'[t] = op[t]
      /\ out'[t] = out[t] /\ owed'[t] = Len(issued) + 1
      /\ issued' = Append(issued, p)
      /\ UNCHANGED <<executed, destroyed>>
  BY DEF WriteHeader, Goto, TypeOK, gpu, ClaimIsFree
<1>2. \A u \in Threads \ {t} :
        /\ pc'[u] = pc[u] /\ op'[u] = op[u]
        /\ owed'[u] = owed[u] /\ out'[u] = out[u]
  BY DEF WriteHeader, Goto, TypeOK
<1>3. Pending' = Append(Pending, p)
  <2>1. /\ issued \in Seq(Packets) /\ Len(executed) \in Nat
        /\ Len(executed) <= Len(issued)
        /\ Len(issued') = Len(issued) + 1
    BY <1>1, AppendProperties DEF TypeOK, ExecutedInOrder
  <2>2. QED
    BY <1>1, <2>1, SubSeqAppend DEF Pending
<1>4. \/ Awaits' = Awaits
      \/ Awaits' = [Awaits EXCEPT ![t] = 1 + Len(executed) + Len(Pending')]
  <2>1. Awaits' = [Awaits EXCEPT ![t] =
                     IF Awaiting(t)' THEN owed'[t] + 1 ELSE 0]
    BY <1>2, OthersKeep
  <2>2. CASE Awaiting(t)'
    <3>1. Len(Pending') = Len(Pending) + 1
      BY <1>1, <1>3, PendingLength, AppendProperties
    <3>2. owed'[t] + 1 = 1 + Len(executed) + Len(Pending')
      BY <1>1, <3>1, PendingLength DEF TypeOK
    <3>3. QED
      BY <2>1, <2>2, <3>2
  <2>3. CASE ~Awaiting(t)'
    <3>1. ~Awaiting(t)
      BY <1>1, <2>3 DEF Awaiting, CallMatches
    <3>2. QED
      BY <2>1, <2>3, <3>1 DEF Awaits
  <2>4. QED
    BY <2>2, <2>3
<1>5. Verdict' = Verdict
  <2>1. \A u \in Threads : out'[u] = out[u]
    BY <1>1, <1>2
  <2>2. QED
    BY <2>1 DEF Verdict
<1>6. ~destroyed /\ ~destroyed'
  BY <1>1 DEF CallMatches
<1>7. executed' = executed
  BY <1>1
<1> HIDE DEF RingInv
<1>8. QED
  BY <1>3, <1>4, <1>5, <1>6, <1>7
     DEF Abstract!Issue, Pending, Awaits, Verdict

\* A wait reports Ok when what it waits for has run, and Err otherwise.
LEMMA ReportRefines ==
  ASSUME RingInv, CallMatches, NEW t \in Threads,
         (Poll(t) /\ Len(executed) >= owed[t]) \/ PollTimeout(t)
  PROVE  Abstract!WaitOk(t) \/ Abstract!WaitErr(t)
<1> USE DEF RingInv
<1>1. /\ pc[t] = "poll" /\ op[t] # "drop" /\ pc'[t] = "idle"
      /\ Poll(t) => out'[t] = "ok"
      /\ PollTimeout(t) => out'[t] = "err"
      /\ UNCHANGED <<issued, executed, destroyed>>
  BY DEF Poll, PollTimeout, Return, TypeOK, gpu
<1>2. \A u \in Threads \ {t} :
        /\ pc'[u] = pc[u] /\ op'[u] = op[u]
        /\ owed'[u] = owed[u] /\ out'[u] = out[u]
  BY DEF Poll, PollTimeout, Return, TypeOK
<1>3. Pending' = Pending
  BY <1>1 DEF Pending
<1>4. ~Awaiting(t)' /\ Awaiting(t)
  BY <1>1 DEF Awaiting, CallMatches
<1>5. Awaits[t] = owed[t] + 1 /\ Awaits[t] # 0
  BY <1>4 DEF Awaits, TypeOK
<1>6. Awaits' = [Awaits EXCEPT ![t] = 0]
  BY <1>2, <1>4, OthersKeep
<1>7. /\ Poll(t) => Verdict' = [Verdict EXCEPT ![t] = "ok"]
      /\ PollTimeout(t) => Verdict' = [Verdict EXCEPT ![t] = "err"]
  BY <1>1, <1>2, OthersKeep
<1>8. executed' = executed /\ destroyed' = destroyed
  BY <1>1
<1>9. CASE Poll(t) /\ Len(executed) >= owed[t]
  <2>1. Len(executed) + 1 >= Awaits[t]
    BY <1>5, <1>9 DEF TypeOK
  <2> HIDE DEF RingInv
  <2>2. QED
    BY <1>3, <1>5, <1>6, <1>7, <1>8, <1>9, <2>1
       DEF Abstract!WaitOk, Abstract!Report, Pending, Awaits, Verdict
<1>10. CASE PollTimeout(t)
  <2> HIDE DEF RingInv
  <2>1. QED
    BY <1>3, <1>5, <1>6, <1>7, <1>8, <1>10
       DEF Abstract!WaitErr, Abstract!Report, Pending, Awaits, Verdict
<1>11. QED
  BY <1>9, <1>10

\* The CP ends the oldest pending packet.
LEMMA CompleteRefines ==
  ASSUME RingInv, CpComplete
  PROVE  Abstract!Run
<1> USE DEF RingInv
<1>1. /\ ~destroyed /\ UNCHANGED <<issued, destroyed, pc, op, owed, out>>
      /\ executed' = Append(executed, running.obj)
  BY DEF CpComplete, calling
<1>2. /\ Len(executed) = readPtr /\ readPtr < Len(issued)
      /\ running.obj = issued[readPtr + 1]
      /\ issued \in Seq(Packets) /\ readPtr \in Nat /\ Len(issued) \in Nat
  BY DEF CpComplete, PointersAgree, LaunchedWhole, TypeOK
<1>3. Len(executed') = Len(executed) + 1
  BY <1>1, AppendProperties DEF TypeOK, Slot
<1>4. /\ Head(Pending) = running.obj
      /\ Pending' = Tail(Pending)
  <2>1. /\ Len(executed) + 1 \in 1..Len(issued)
        /\ Len(issued) \in Len(executed) + 1 .. Len(issued)
    BY <1>2
  <2>2. /\ Head(Pending) = issued[Len(executed) + 1]
        /\ Tail(Pending) = SubSeq(issued, (Len(executed) + 1) + 1, Len(issued))
    BY <1>2, <2>1, HeadTailOfSubSeq DEF Pending
  <2>3. Pending' = SubSeq(issued, (Len(executed) + 1) + 1, Len(issued))
    BY <1>1, <1>3 DEF Pending
  <2>4. QED
    BY <1>2, <2>2, <2>3
<1>5. Pending # << >>
  BY <1>2, PendingLength, EmptySeq
<1>6. Awaits' = Awaits /\ Verdict' = Verdict
  BY <1>1 DEF Awaits, Verdict, Awaiting
<1> HIDE DEF RingInv
<1>7. QED
  BY <1>1, <1>4, <1>5, <1>6 DEF Abstract!Run, Pending, Awaits, Verdict

\* Destroying the queue ends it.
LEMMA DropRefines ==
  ASSUME RingInv, CallMatches, NEW t \in Threads, DropQueue(t)
  PROVE  Abstract!Drop
<1> USE DEF RingInv
<1>1. /\ pc[t] = "poll" /\ op[t] = "drop" /\ op' = op /\ pc'[t] = "idle"
      /\ out'[t] = "sent" /\ destroyed' = TRUE
      /\ UNCHANGED <<issued, executed, owed>>
  BY DEF DropQueue, Return, TypeOK, gpu
<1>2. \A u \in Threads \ {t} : pc'[u] = pc[u] /\ out'[u] = out[u]
  BY DEF DropQueue, Return, TypeOK
<1>3. ~destroyed /\ out[t] = "none"
  BY <1>1 DEF CallMatches
<1>4. Pending' = Pending
  BY <1>1 DEF Pending
<1>5. \A u \in Threads : Awaiting(u)' <=> Awaiting(u)
  BY <1>1, <1>2 DEF Awaiting, Waits
<1>6. Awaits' = Awaits
  BY <1>1, <1>5 DEF Awaits
<1>7. Verdict' = Verdict
  BY <1>1, <1>2, <1>3 DEF Verdict
<1>8. destroyed' = TRUE /\ executed' = executed
  BY <1>1
<1> HIDE DEF RingInv
<1>9. QED
  BY <1>3, <1>4, <1>6, <1>7, <1>8 DEF Abstract!Drop, Pending, Awaits, Verdict
-----------------------------------------------------------------------------
\* The initial states of the ring are those of the queue.
LEMMA RefineInit == Init => Abstract!Init /\ CallMatches
<1> SUFFICES ASSUME Init PROVE Abstract!Init /\ CallMatches
  OBVIOUS
<1>1. Len(issued) = 0 /\ Len(executed) = 0
  BY DEF Init
<1>2. Pending = << >>
  <2>1. \A i \in Len(executed) + 1 .. Len(issued) : issued[i] \in Packets
    BY <1>1
  <2>2. Pending \in Seq(Packets) /\ Len(Pending) = 0
    BY <1>1, <2>1, SubSeqProperties DEF Pending
  <2>3. QED
    BY <2>2, EmptySeq
<1>3. Awaits = [t \in Threads |-> 0] /\ Verdict = [t \in Threads |-> "none"]
  BY DEF Init, Awaits, Verdict, Awaiting
<1>4. CallMatches
  BY DEF Init, CallMatches
<1>5. QED
  BY <1>2, <1>3, <1>4 DEF Init, Abstract!Init, Pending, Awaits, Verdict

\* The steps between those that begin a call, issue a packet or report leave
\* the abstract queue alone.
LEMMA InnerSteps ==
  ASSUME RingInv, CallMatches, NEW t \in Threads,
         \/ EnsureRingSpace(t) \/ RingSpaceTimeout(t) \/ Claim(t)
         \/ ArmSignal(t) \/ WriteObject(t) \/ WriteKernarg(t)
         \/ Publish(t) \/ RingDoorbell(t) \/ ReadWritePtr(t)
  PROVE  UNCHANGED Abstract!vars
<1> USE DEF RingInv, TypeOK, Goto, Return, pointers, gpu, calling
<1>1. ASSUME pc[t] # "idle", pc'[t] # "idle" \/ ~Awaiting(t),
             \A u \in Threads \ {t} : pc'[u] = pc[u],
             Awaiting(t)' <=> Awaiting(t),
             out'[t] \in {"none", "sent", "panic"},
             \A u \in Threads \ {t} : out'[u] = out[u],
             UNCHANGED <<issued, executed, destroyed, op, owed>>
      PROVE  UNCHANGED Abstract!vars
  <2>1. out[t] = "none"
    BY <1>1 DEF CallMatches
  <2>2. \A u \in Threads : Awaiting(u)' <=> Awaiting(u)
    BY <1>1 DEF Awaiting
  <2>3. QED
    BY <1>1, <2>1, <2>2, Stutter
<1>2. CASE EnsureRingSpace(t)
  BY <1>1, <1>2 DEF EnsureRingSpace, CallMatches, Awaiting, WritesPacket, Waits
<1>3. CASE RingSpaceTimeout(t)
  BY <1>1, <1>3 DEF RingSpaceTimeout, CallMatches, Awaiting, WritesPacket, Waits
<1>4. CASE Claim(t)
  BY <1>1, <1>4 DEF Claim, CallMatches, Awaiting, WritesPacket, Waits
<1>5. CASE ArmSignal(t) \/ WriteObject(t) \/ WriteKernarg(t)
  BY <1>1, <1>5 DEF ArmSignal, WriteObject, WriteKernarg, CallMatches,
     Awaiting, WritesPacket, Waits
<1>6. CASE Publish(t)
  BY <1>1, <1>6 DEF Publish, CallMatches, Awaiting, WritesPacket, Waits
<1>7. CASE RingDoorbell(t)
  BY <1>1, <1>7 DEF RingDoorbell, CallMatches, Awaiting, Waits
<1>8. CASE ReadWritePtr(t)
  BY <1>1, <1>8 DEF ReadWritePtr, CallMatches, Awaiting, Waits
<1>9. QED
  BY <1>2, <1>3, <1>4, <1>5, <1>6, <1>7, <1>8

\* Every step of the ring is a step of the queue, or none.
LEMMA RefineStep ==
  ASSUME RingInv, CallMatches,
         \A t \in Threads : Poll(t) => Len(executed) >= owed[t], [Next]_vars
  PROVE  [Abstract!Next]_(Abstract!vars)
<1>1. ASSUME NEW t \in Threads, NEW c \in Calls, Call(t, c)
      PROVE  Abstract!Next
  BY <1>1, CallRefines DEF Abstract!Next
<1>2. ASSUME NEW t \in Threads, WriteHeader(t)
      PROVE  Abstract!Next
  <2>1. mine[t] \in Packets
    BY <1>2 DEF WriteHeader, RingInv, ClaimIsFree
  <2>2. PICK p \in Packets : p = mine[t]
    BY <2>1
  <2>3. Abstract!Issue(t, p)
    BY <1>2, <2>2, HeaderRefines
  <2>4. QED
    BY <2>3 DEF Abstract!Next
<1>3. ASSUME NEW t \in Threads, Poll(t)
      PROVE  Abstract!Next
  BY <1>3, ReportRefines DEF Abstract!Next
<1>4. ASSUME NEW t \in Threads, PollTimeout(t)
      PROVE  Abstract!Next
  BY <1>4, ReportRefines DEF Abstract!Next
<1>5. ASSUME NEW t \in Threads, DropQueue(t)
      PROVE  Abstract!Next
  BY <1>5, DropRefines DEF Abstract!Next
<1>6. CASE CpComplete
  BY <1>6, CompleteRefines DEF Abstract!Next
<1>7. CASE CpLaunch \/ CpRetire \/ CpHang \/ UNCHANGED vars
  <2>1. UNCHANGED <<issued, executed, destroyed, pc, op, owed, out>>
    BY <1>7 DEF CpLaunch, CpRetire, CpHang, vars, calling, gpu
  <2>2. \A u \in Threads : Awaiting(u)' <=> Awaiting(u)
    BY <2>1 DEF Awaiting
  <2>3. QED
    BY <2>1, <2>2, Stutter DEF RingInv
<1>8. QED
  BY <1>1, <1>2, <1>3, <1>4, <1>5, <1>6, <1>7, InnerSteps DEF Next, Step, Cp

\* A queue whose callers take turns and do not use dispatch_signal is a FIFO of
\* packets, whatever its size and however slow the GPU: packets run in the
\* order of their headers, and Ok is reported only when what was waited for
\* has run.  (With dispatch_signal a late completion can satisfy a later wait.)
THEOREM QueueImplementsFifo ==
  ASSUME Serialized, "dispatch_signal" \notin Calls
  PROVE  Spec => ImplementsCommandQueue
<1> DEFINE OpsInUse == op \in [Threads -> Calls \cup {"submit"}]
           CallInv  == OpsInUse /\ WaitsCount /\ CallMatches
<1>1. Init => CallInv /\ Abstract!Init
  BY RefineInit DEF Init, WaitsCount
<1>2. ASSUME RingInv, CallInv, [Next]_vars
      PROVE  CallInv' /\ [Abstract!Next]_(Abstract!vars)
  <2>1. OpsInUse' /\ WaitsCount'
    BY <1>2, WaitsStep, OnlyCallsUsed DEF RingInv
  <2>2. CallMatches'
    BY <1>2, CallMatchesStep DEF RingInv
  <2>3. ASSUME NEW t \in Threads, Poll(t) PROVE Len(executed) >= owed[t]
    <3>1. op[t] # "dispatch_signal"
      BY <1>2
    <3>2. owed[t] <= idx[t] /\ idx[t] <= readPtr
      BY <1>2, <2>3, <3>1 DEF Poll, Completed, WaitsCount
    <3>3. readPtr <= Len(executed)
      BY <1>2 DEF RingInv, PointersAgree, TypeOK
    <3>4. QED
      BY <1>2, <3>2, <3>3 DEF RingInv, TypeOK
  <2>4. [Abstract!Next]_(Abstract!vars)
    BY <1>2, <2>3, RefineStep
  <2>5. QED
    BY <2>1, <2>2, <2>4
<1>3. QED
  BY <1>1, <1>2, RingIsInductive, PTL
     DEF Spec, ImplementsCommandQueue, Abstract!Spec

-----------------------------------------------------------------------------
(* Timeouts, on a GPU whose kernels end before them. *)

\* The doorbell never runs ahead of write_ptr, and reaches it before a wait.
BellInv ==
  /\ doorbell < writePtr
  /\ \A t \in Threads :
       /\ pc[t] = "space" => Unrung < BatchLimit
       /\ pc[t] = "doorbell" => idx[t] = writePtr - 1
       /\ pc[t] = "target" /\ op[t] \in Waits => Unrung = 0
       /\ pc[t] = "poll" => idx[t] = writePtr
       /\ pc[t] = "poll" /\ op[t] # "drop" => Unrung = 0

\* The steps of a call whose packet is issued.
Issued == {"publish", "doorbell", "poll"}

\* The signal of a packet in flight is that of the call that waits for it,
\* unless the GPU has hung and a call has given up.
SignalsAwaited ==
  ~hung =>
    \A i \in Len(executed)..Len(issued) - 1, u \in Threads :
      ring[SlotOf(i)].sig = u =>
        /\ i = Len(issued) - 1
        /\ pc[u] \in Issued
        /\ op[u] = "dispatch_signal"

\* The signal of dispatch_signal is 1 from arming until its packet has run, and
\* its packet is the last one.
SignalArmed ==
  \A t \in Threads :
    /\ pc[t] = "header" =>
         ring[SlotOf(idx[t])].sig = IF op[t] = "dispatch_signal"
                                    THEN t ELSE NoSignal
    /\ op[t] = "dispatch_signal" =>
         /\ pc[t] \in {"object", "kernarg", "header"} => signal[t] = 1
         /\ pc[t] \in Issued =>
              \/ Len(executed) = Len(issued) /\ signal[t] <= 0
              \/ /\ Len(executed) < Len(issued) /\ signal[t] = 1
                 /\ ring[SlotOf(Len(issued) - 1)].sig = t

\* A running packet's signal is the one in its slot.
SignalFetched == cp = "busy" => running.sig = ring[SlotOf(readPtr)].sig

ReportsTrue ==
  /\ TimeoutMeansHung
  /\ DropLosesNothing
  /\ \A t \in Threads :
       out[t] = "ok" /\ op[t] = "dispatch_signal" => Len(executed) >= owed[t]

HangInv ==
  /\ CallMatches
  /\ WaitsCount
  /\ BellInv
  /\ SignalsAwaited
  /\ SignalArmed
  /\ SignalFetched
  /\ ReportsTrue

-----------------------------------------------------------------------------
\* The doorbell takes the last index of the ring, and a wait begins after it.
LEMMA BellStep ==
  ASSUME Serialized, TypeOK, OneCaller, ClaimIsFree, CallMatches, BellInv,
         PointersAgree, [Next]_vars
  PROVE  BellInv'
<1> USE DEF TypeOK, OneCaller, BellInv, Goto, Return, Unrung, Waits
<1>1. ASSUME NEW t \in Threads, NEW c \in Calls, Call(t, c)
      PROVE  BellInv'
  <2>1. /\ FirstStep(c) \in {"space", "claim", "target"}
        /\ FirstStep(c) = "space" => c \in WritesPacket \ {"submit_fast"}
    BY DEF FirstStep
  <2>2. /\ c \in WritesPacket \ {"submit_fast"} => Unrung < BatchLimit
        /\ c \in Waits => Unrung = 0
    BY <1>1 DEF Call, MayCall, WritesPacket
  <2>3. /\ pc'[t] = FirstStep(c) /\ op'[t] = c
        /\ \A u \in Threads \ {t} : pc'[u] = "idle"
        /\ UNCHANGED <<writePtr, doorbell>>
    BY <1>1 DEF Call, pointers
  <2>4. QED
    BY <2>1, <2>2, <2>3
<1>2. ASSUME NEW t \in Threads,
             \/ EnsureRingSpace(t) \/ RingSpaceTimeout(t) \/ Claim(t)
             \/ ArmSignal(t) \/ WriteObject(t) \/ WriteKernarg(t)
             \/ WriteHeader(t) \/ Poll(t) \/ PollTimeout(t) \/ DropQueue(t)
      PROVE  BellInv'
  <2>1. /\ pc'[t] \notin {"space", "doorbell", "target", "poll"}
        /\ \A u \in Threads \ {t} : pc'[u] = pc[u] /\ idx'[u] = idx[u]
        /\ UNCHANGED <<writePtr, doorbell, op>>
    BY <1>2 DEF EnsureRingSpace, RingSpaceTimeout, Claim, ArmSignal, pointers,
       WriteObject, WriteKernarg, WriteHeader, Poll, PollTimeout, DropQueue,
       calling
  <2>2. QED
    BY <2>1
<1>3. ASSUME NEW t \in Threads, Publish(t)
      PROVE  BellInv'
  <2>1. /\ pc[t] = "publish" /\ pc'[t] \in {"idle", "doorbell"}
        /\ writePtr' = idx[t] + 1 /\ idx' = idx /\ doorbell' = doorbell
        /\ \A u \in Threads \ {t} : pc'[u] = pc[u]
    BY <1>3 DEF Publish
  <2>2. idx[t] = writePtr /\ \A u \in Threads \ {t} : pc[u] = "idle"
    BY <2>1 DEF PointersAgree
  <2>3. QED
    BY <2>1, <2>2
<1>4. ASSUME NEW t \in Threads, RingDoorbell(t)
      PROVE  BellInv'
  <2>1. /\ pc[t] = "doorbell" /\ pc'[t] \in {"idle", "poll"}
        /\ pc'[t] = "poll" => idx'[t] = idx[t] + 1
        /\ doorbell' = idx[t] /\ writePtr' = writePtr
        /\ \A u \in Threads \ {t} : pc'[u] = pc[u]
    BY <1>4 DEF RingDoorbell
  <2>2. \A u \in Threads \ {t} : pc[u] = "idle"
    BY <2>1
  <2>3. idx[t] = writePtr - 1 /\ writePtr \in Nat
    BY <2>1
  <2>4. doorbell' < writePtr' /\ Unrung' = 0
    BY <2>1, <2>3
  <2>5. pc'[t] = "poll" => idx'[t] = writePtr'
    BY <2>1, <2>3
  <2>6. \A u \in Threads \ {t} : pc'[u] = "idle"
    BY <2>1, <2>2
  <2>7. QED
    BY <2>1, <2>4, <2>5, <2>6
<1>5. ASSUME NEW t \in Threads, ReadWritePtr(t)
      PROVE  BellInv'
  <2>1. /\ pc[t] = "target" /\ UNCHANGED <<writePtr, doorbell, op>>
        /\ \/ pc'[t] = "doorbell" /\ idx'[t] = writePtr - 1
           \/ pc'[t] = "poll" /\ idx'[t] = writePtr /\ op[t] # "ring_doorbell"
        /\ \A u \in Threads \ {t} : pc'[u] = pc[u]
    BY <1>5 DEF ReadWritePtr, pointers
  <2>2. \A u \in Threads \ {t} : pc[u] = "idle"
    BY <2>1
  <2>3. op[t] \in Waits \cup {"ring_doorbell", "drop"}
    BY <2>1 DEF CallMatches
  <2>4. QED
    BY <2>1, <2>2, <2>3
<1>6. CASE Cp \/ UNCHANGED vars
  BY <1>6 DEF Cp, CpLaunch, CpComplete, CpRetire, CpHang, calling, pointers,
     vars
<1>7. QED
  BY <1>1, <1>2, <1>3, <1>4, <1>5, <1>6 DEF Next, Step

-----------------------------------------------------------------------------
\* The CP does not change the signal in a slot.
LEMMA LaunchKeepsSigs ==
  ASSUME TypeOK, CpLaunch
  PROVE  \A s \in SlotIds : ring'[s].sig = ring[s].sig
<1> DEFINE s == SlotOf(readPtr)
           r == [ring[s] EXCEPT !.hdr = "INVALID"]
<1>1. s \in SlotIds /\ ring \in [SlotIds -> Slot]
  BY SlotOfType DEF TypeOK
<1>2. r.sig = ring[s].sig
  BY <1>1 DEF Slot
<1>3. ring' = [ring EXCEPT ![s] = r]
  BY DEF CpLaunch
<1> HIDE DEF s, r
<1>4. QED
  BY <1>1, <1>2, <1>3

\* Nobody changes the signal of a packet that is in the ring.
LEMMA SigsKept ==
  ASSUME RingInv, [Next]_vars
  PROVE  \A i \in readPtr..Len(issued) - 1 :
           ring'[SlotOf(i)].sig = ring[SlotOf(i)].sig
<1>1. /\ ring \in [SlotIds -> Slot] /\ readPtr \in Nat /\ writePtr \in Nat
      /\ Len(issued) \in Nat
      /\ \A t \in Threads : idx[t] \in Nat
  BY DEF RingInv, TypeOK
<1>2. \A i \in readPtr..Len(issued) - 1 : i \in Nat /\ SlotOf(i) \in SlotIds
  BY <1>1, SlotOfType
<1>3. ASSUME NEW t \in Threads, WriteKernarg(t),
             NEW i \in readPtr..Len(issued) - 1
      PROVE  ring'[SlotOf(i)].sig = ring[SlotOf(i)].sig
  <2>1. idx[t] = writePtr /\ writePtr - readPtr < Slots
    BY <1>3 DEF WriteKernarg, RingInv, ClaimIsFree
  <2>2. Len(issued) = writePtr
    BY <1>3 DEF WriteKernarg, RingInv, PointersAgree, OneCaller
  <2>3. i < writePtr /\ writePtr - i < Slots
    BY <1>1, <2>1, <2>2, SlotsAssumption
  <2>4. SlotOf(i) # SlotOf(writePtr)
    BY <1>1, <1>2, <2>3, SlotsDistinct
  <2> DEFINE r == [ring[SlotOf(idx[t])] EXCEPT
                     !.karg = mine[t],
                     !.sig = IF op[t] = "dispatch_signal" THEN t ELSE NoSignal]
  <2>5. ring' = [ring EXCEPT ![SlotOf(idx[t])] = r]
    BY <1>3 DEF WriteKernarg
  <2> HIDE DEF r
  <2>6. QED
    BY <1>1, <1>2, <2>1, <2>4, <2>5
<1>4. ASSUME NEW t \in Threads, WriteObject(t) \/ WriteHeader(t)
      PROVE  \A s \in SlotIds : ring'[s].sig = ring[s].sig
  <2>1. PICK s \in SlotIds : s = SlotOf(idx[t])
    BY <1>1, SlotOfType
  <2>2. PICK h : ring' = [ring EXCEPT ![s] = [ring[s] EXCEPT !.hdr = h]]
                   \/ ring' = [ring EXCEPT ![s] = [ring[s] EXCEPT
                                                    !.hdr = h, !.obj = mine[t]]]
    BY <1>4, <2>1 DEF WriteObject, WriteHeader
  <2>3. /\ ring'[s].sig = ring[s].sig
        /\ \A u \in SlotIds \ {s} : ring'[u] = ring[u]
    BY <1>1, <2>2 DEF Slot
  <2>4. QED
    BY <2>3
<1>5. CASE CpLaunch
  BY <1>2, <1>5, LaunchKeepsSigs DEF RingInv
<1>6. ASSUME NEW t \in Threads, NEW c \in Calls, Call(t, c) PROVE ring' = ring
  BY <1>6 DEF Call
<1>7. ASSUME NEW t \in Threads, Step(t), ~WriteKernarg(t), ~WriteObject(t),
             ~WriteHeader(t)
      PROVE  ring' = ring
  BY <1>7 DEF Step, EnsureRingSpace, RingSpaceTimeout, Claim, ArmSignal,
     Publish, RingDoorbell, ReadWritePtr, Poll, PollTimeout, DropQueue
<1>8. CASE CpComplete \/ CpRetire \/ CpHang \/ UNCHANGED vars
  BY <1>8 DEF CpComplete, CpRetire, CpHang, vars
<1>9. QED
  BY <1>2, <1>3, <1>4, <1>5, <1>6, <1>7, <1>8 DEF Next, Cp, Step

\* The CP runs a packet with the signal that its slot holds.
LEMMA FetchedStep ==
  ASSUME RingInv, SignalFetched, [Next]_vars
  PROVE  SignalFetched'
<1>1. CASE CpLaunch
  <2>1. running' = ring[SlotOf(readPtr)] /\ readPtr' = readPtr
    BY <1>1 DEF CpLaunch, pointers
  <2>2. SlotOf(readPtr) \in SlotIds
    BY SlotOfType DEF RingInv, TypeOK
  <2>3. QED
    BY <1>1, <2>1, <2>2, LaunchKeepsSigs DEF SignalFetched, RingInv, SlotOf
<1>2. CASE cp' = "busy" /\ ~CpLaunch
  <2>1. UNCHANGED <<cp, running, readPtr>>
    <3>1. ASSUME NEW t \in Threads, NEW c \in Calls, Call(t, c)
          PROVE  UNCHANGED <<cp, running, readPtr>>
      BY <3>1 DEF Call, gpu, pointers
    <3>2. ASSUME NEW t \in Threads, Step(t)
          PROVE  UNCHANGED <<cp, running, readPtr>>
      BY <3>2 DEF Step, EnsureRingSpace, RingSpaceTimeout, Claim, ArmSignal,
         WriteObject, WriteKernarg, WriteHeader, Publish, RingDoorbell,
         ReadWritePtr, Poll, PollTimeout, DropQueue, gpu, pointers
    <3>3. CASE Cp \/ UNCHANGED vars
      BY <1>2, <3>3 DEF Cp, CpComplete, CpRetire, CpHang, pointers, gpu, vars
    <3>4. QED
      BY <3>1, <3>2, <3>3 DEF Next
  <2>2. readPtr \in readPtr..Len(issued) - 1
    BY <1>2, <2>1 DEF RingInv, LaunchedWhole, TypeOK
  <2>3. ring'[SlotOf(readPtr)].sig = ring[SlotOf(readPtr)].sig
    BY <2>2, SigsKept
  <2>4. QED
    BY <1>2, <2>1, <2>3 DEF SignalFetched, SlotOf
<1>3. QED
  BY <1>1, <1>2 DEF SignalFetched

-----------------------------------------------------------------------------
\* On a GPU whose kernels end in time, a wait that is not over runs out of time
\* only when the GPU has hung.
LEMMA TimeoutIsHang ==
  ASSUME ~SlowGpu, RingInv, BellInv, SignalArmed, NEW t \in Threads,
         pc[t] = "poll", op[t] # "drop", ~Completed(t), MayTimeOut
  PROVE  hung
<1>1. /\ writePtr \in Nat /\ readPtr \in Nat /\ doorbell \in Int
      /\ idx[t] = writePtr /\ doorbell = writePtr - 1
      /\ Len(issued) \in Nat /\ Len(executed) \in Nat
  BY DEF RingInv, TypeOK, BellInv, Unrung
<1>2. Len(issued) = writePtr /\ Len(executed) <= Len(issued)
  BY DEF RingInv, PointersAgree, OneCaller, ExecutedInOrder
<1>3. SUFFICES ASSUME ~hung PROVE FALSE
  OBVIOUS
<1>4. cp = "free" /\ readPtr >= writePtr
  BY <1>1, <1>3 DEF MayTimeOut
<1>5. Len(executed) = Len(issued)
  BY <1>1, <1>2, <1>4 DEF RingInv, PointersAgree
<1>6. op[t] = "dispatch_signal" => signal[t] <= 0
  BY <1>5 DEF SignalArmed, Issued
<1>7. QED
  BY <1>1, <1>4, <1>6 DEF Completed

\* So does a call that waits for space in the ring: the packets without a
\* doorbell do not fill it.
LEMMA FullIsHang ==
  ASSUME ~SlowGpu, BatchLimit <= Slots - Headroom, RingInv, BellInv,
         NEW t \in Threads, pc[t] = "space", ~HasRingSpace, MayTimeOut
  PROVE  hung
<1>1. /\ writePtr \in Nat /\ readPtr \in Nat /\ doorbell \in Int
      /\ writePtr - (doorbell + 1) < BatchLimit /\ Len(issued) \in Nat
  BY DEF RingInv, TypeOK, BellInv, Unrung
<1>2. readPtr <= writePtr
  BY DEF RingInv, PointersAgree, OneCaller
<1>3. writePtr - readPtr >= Slots - Headroom
  BY <1>1, <1>2, SlotsAssumption DEF HasRingSpace
<1>4. QED
  BY <1>1, <1>3, SlotsAssumption, BoundAssumption DEF MayTimeOut

\* A call with a signal leaves its packet behind only on a GPU that has hung.
LEMMA AwaitedStep ==
  ASSUME Serialized, ~SlowGpu, RingInv, CallMatches, BellInv, SignalArmed,
         SignalsAwaited, [Next]_vars
  PROVE  SignalsAwaited'
<1>1. /\ Len(executed) \in Nat /\ Len(issued) \in Nat /\ readPtr \in Nat
      /\ readPtr <= Len(executed) /\ OneCaller
  BY DEF RingInv, TypeOK, PointersAgree
<1>2. \A i \in Len(executed)..Len(issued) - 1 :
        ring'[SlotOf(i)].sig = ring[SlotOf(i)].sig
  BY <1>1, SigsKept
<1>3. ASSUME NEW t \in Threads, NEW c \in Calls, Call(t, c)
      PROVE  SignalsAwaited'
  <2>1. \A u \in Threads : pc[u] = "idle"
    BY <1>3 DEF Call
  <2>2. UNCHANGED <<ring, hung, executed, issued>>
    BY <1>3 DEF Call, gpu
  <2>3. QED
    BY <2>1, <2>2 DEF SignalsAwaited, Issued, SlotOf
<1>4. ASSUME NEW t \in Threads, WriteHeader(t)
      PROVE  SignalsAwaited'
  <2>1. /\ pc[t] = "header" /\ pc'[t] = "publish" /\ op' = op
        /\ UNCHANGED <<hung, executed>> /\ Len(issued') = Len(issued) + 1
    BY <1>4 DEF WriteHeader, Goto, RingInv, TypeOK, gpu
  <2>2. idx[t] = Len(issued)
    BY <1>1, <2>1 DEF RingInv, PointersAgree, ClaimIsFree, OneCaller
  <2>3. ring'[SlotOf(idx[t])].sig = ring[SlotOf(idx[t])].sig
    <3> DEFINE r == [ring[SlotOf(idx[t])] EXCEPT !.hdr = "DISPATCH"]
    <3>1. SlotOf(idx[t]) \in SlotIds /\ ring \in [SlotIds -> Slot]
      BY SlotOfType DEF RingInv, TypeOK
    <3>2. r.sig = ring[SlotOf(idx[t])].sig
      BY <3>1 DEF Slot
    <3>3. ring' = [ring EXCEPT ![SlotOf(idx[t])] = r]
      BY <1>4 DEF WriteHeader
    <3> HIDE DEF r
    <3>4. QED
      BY <3>1, <3>2, <3>3
  <2>4. ASSUME NEW i \in Len(executed)..Len(issued), NEW u \in Threads,
               ring'[SlotOf(i)].sig = u, ~hung
        PROVE  i = Len(issued) /\ u = t /\ op[u] = "dispatch_signal"
    <3>1. CASE i = Len(issued)
      BY <2>1, <2>2, <2>3, <2>4, <3>1, SignalAssumption DEF SignalArmed
    <3>2. CASE i \in Len(executed)..Len(issued) - 1
      <4>1. pc[u] \in Issued
        BY <1>2, <2>4, <3>2 DEF SignalsAwaited
      <4>2. QED
        BY <1>1, <2>1, <4>1 DEF OneCaller, Issued
    <3>3. QED
      BY <1>1, <3>1, <3>2
  <2>5. QED
    BY <1>1, <2>1, <2>4 DEF SignalsAwaited, Issued, SlotOf
<1>5. ASSUME NEW t \in Threads, Step(t), ~WriteHeader(t)
      PROVE  SignalsAwaited'
  <2>1. /\ UNCHANGED <<op, hung, executed, issued>>
        /\ pc[t] # "idle"
    BY <1>5 DEF Step, EnsureRingSpace, RingSpaceTimeout, Claim, ArmSignal,
       WriteObject, WriteKernarg, Publish, RingDoorbell, ReadWritePtr, Poll,
       PollTimeout, DropQueue, gpu, calling
  <2>2. ASSUME NEW i \in Len(executed)..Len(issued) - 1, NEW u \in Threads,
               ring[SlotOf(i)].sig = u, ~hung
        PROVE  i = Len(issued) - 1 /\ pc'[u] \in Issued
                 /\ op[u] = "dispatch_signal"
    <3>1. /\ i = Len(issued) - 1 /\ pc[u] \in Issued
          /\ op[u] = "dispatch_signal"
      BY <2>2 DEF SignalsAwaited
    <3>2. u = t
      BY <1>1, <2>1, <3>1 DEF OneCaller, Issued
    <3>3. Len(executed) < Len(issued)
      BY <1>1, <3>1
    <3>4. signal[t] = 1
      BY <3>1, <3>2, <3>3, <1>1 DEF SignalArmed
    <3>5. ~Poll(t)
      BY <3>1, <3>2, <3>4 DEF Poll, Completed
    <3>6. ~PollTimeout(t)
      BY <2>2, TimeoutIsHang DEF PollTimeout
    <3>7. Publish(t) \/ RingDoorbell(t)
      BY <1>5, <3>1, <3>2, <3>5, <3>6 DEF Step, EnsureRingSpace,
         RingSpaceTimeout, Claim, ArmSignal, WriteObject, WriteKernarg,
         ReadWritePtr, DropQueue, Issued
    <3>8. pc'[t] \in Issued
      BY <3>1, <3>2, <3>7 DEF Publish, RingDoorbell, Goto, Issued, RingInv,
         TypeOK
    <3>9. QED
      BY <3>1, <3>2, <3>8
  <2>3. QED
    BY <1>2, <2>1, <2>2 DEF SignalsAwaited, SlotOf
<1>6. CASE Cp \/ UNCHANGED vars
  <2>1. UNCHANGED <<pc, op, issued>> /\ (~hung' => ~hung)
    BY <1>6 DEF Cp, CpLaunch, CpComplete, CpRetire, CpHang, vars, gpu, calling
  <2>2. Len(executed') \in {Len(executed), Len(executed) + 1}
    <3>1. CASE CpComplete
      BY <3>1 DEF CpComplete, RingInv, TypeOK, Slot
    <3>2. CASE CpLaunch \/ CpRetire \/ CpHang \/ UNCHANGED vars
      BY <3>2 DEF CpLaunch, CpRetire, CpHang, vars, gpu
    <3>3. QED
      BY <1>6, <3>1, <3>2 DEF Cp
  <2>3. \A i \in Len(executed')..Len(issued) - 1 :
          i \in Len(executed)..Len(issued) - 1
    BY <1>1, <2>2
  <2>4. QED
    BY <1>2, <2>1, <2>3 DEF SignalsAwaited, SlotOf
<1>7. QED
  BY <1>3, <1>4, <1>5, <1>6 DEF Next

\* The end of a kernel disarms the signal of its own call and no other.
LEMMA CompleteDisarms ==
  ASSUME RingInv, SignalsAwaited, SignalArmed, SignalFetched, CpComplete
  PROVE  SignalArmed'
<1>1. /\ Len(executed) \in Nat /\ Len(issued) \in Nat
      /\ signal \in [Threads -> Int] /\ cp = "busy" /\ ~hung
      /\ UNCHANGED <<ring, pc, op, idx, issued>>
      /\ Len(executed') = Len(executed) + 1
  BY DEF RingInv, TypeOK, CpComplete, Slot, calling
<1>2. Len(executed) = readPtr /\ readPtr < Len(issued)
  BY <1>1 DEF RingInv, PointersAgree, LaunchedWhole
<1>3. \A u \in Threads : signal'[u] = IF u = running.sig THEN signal[u] - 1
                                                        ELSE signal[u]
  BY DEF CpComplete
<1>4. \A u \in Threads : u = running.sig =>
        /\ readPtr = Len(issued) - 1 /\ pc[u] \in Issued
        /\ op[u] = "dispatch_signal"
  <2>1. running.sig = ring[SlotOf(readPtr)].sig
    BY <1>1 DEF SignalFetched
  <2>2. readPtr \in Len(executed)..Len(issued) - 1
    BY <1>1, <1>2
  <2>3. ASSUME NEW u \in Threads, u = running.sig
        PROVE  ring[SlotOf(readPtr)].sig = u
    BY <2>1, <2>3
  <2>4. QED
    BY <1>1, <2>2, <2>3 DEF SignalsAwaited
<1>5. ASSUME NEW t \in Threads, op[t] = "dispatch_signal", pc[t] \in Issued
      PROVE  \/ Len(executed') = Len(issued) /\ signal'[t] <= 0
             \/ /\ Len(executed') < Len(issued) /\ signal'[t] = 1
                /\ ring[SlotOf(Len(issued) - 1)].sig = t
  <2>1. signal[t] = 1 /\ ring[SlotOf(Len(issued) - 1)].sig = t
    BY <1>1, <1>2, <1>5 DEF SignalArmed
  <2>2. CASE readPtr = Len(issued) - 1
    <3>1. running.sig = t
      BY <1>1, <2>1, <2>2 DEF SignalFetched
    <3>2. QED
      BY <1>1, <1>2, <1>3, <2>1, <2>2, <3>1
  <2>3. CASE readPtr # Len(issued) - 1
    <3>1. running.sig # t
      BY <1>4, <2>3
    <3>2. Len(executed') < Len(issued)
      BY <1>1, <1>2, <2>3
    <3>3. QED
      BY <1>3, <2>1, <3>1, <3>2
  <2>4. QED
    BY <2>2, <2>3
<1>6. ASSUME NEW t \in Threads, op[t] = "dispatch_signal",
             pc[t] \in {"object", "kernarg", "header"}
      PROVE  signal'[t] = 1
  BY <1>3, <1>4, <1>6 DEF SignalArmed, Issued
<1>7. QED
  BY <1>1, <1>5, <1>6 DEF SignalArmed, Issued, SlotOf

\* A call with a signal arms it, puts it into its packet and waits for it.
LEMMA ArmedStep ==
  ASSUME Serialized, RingInv, CallMatches, SignalsAwaited, SignalArmed,
         SignalFetched, [Next]_vars
  PROVE  SignalArmed'
<1>1. /\ Len(executed) \in Nat /\ Len(issued) \in Nat /\ OneCaller
      /\ Len(executed) <= Len(issued) /\ readPtr \in Nat
      /\ readPtr <= Len(executed)
      /\ pc \in [Threads -> Steps] /\ op \in [Threads -> AllCalls]
      /\ signal \in [Threads -> Int] /\ idx \in [Threads -> Nat]
      /\ ring \in [SlotIds -> Slot]
  BY DEF RingInv, TypeOK, PointersAgree, ExecutedInOrder
<1> USE <1>1 DEF Goto, Return
<1>2. ASSUME NEW t \in Threads, NEW c \in Calls, Call(t, c)
      PROVE  SignalArmed'
  <2>1. pc'[t] \in {"space", "claim", "target"}
    BY <1>2 DEF Call, FirstStep
  <2>2. \A u \in Threads \ {t} : pc'[u] = "idle"
    BY <1>2 DEF Call
  <2>3. QED
    BY <2>1, <2>2 DEF SignalArmed, Issued
<1>3. ASSUME NEW t \in Threads, pc[t] # "idle",
             \A u \in Threads \ {t} : pc'[u] = pc[u],
             pc'[t] \notin {"object", "kernarg", "header"} \cup Issued
      PROVE  SignalArmed'
  <2>1. \A u \in Threads \ {t} : pc'[u] = "idle"
    BY <1>3 DEF OneCaller
  <2>2. QED
    BY <1>3, <2>1 DEF SignalArmed, Issued
<1>4. ASSUME NEW t \in Threads,
             \/ EnsureRingSpace(t) \/ RingSpaceTimeout(t) \/ Poll(t)
             \/ PollTimeout(t) \/ DropQueue(t)
      PROVE  SignalArmed'
  <2>1. /\ pc[t] # "idle" /\ pc'[t] \in {"claim", "idle"}
        /\ \A u \in Threads \ {t} : pc'[u] = pc[u]
    BY <1>4 DEF EnsureRingSpace, RingSpaceTimeout, Poll, PollTimeout, DropQueue
  <2>2. QED
    BY <1>3, <2>1 DEF Issued
<1>5. ASSUME NEW t \in Threads, Step(t),
             /\ pc[t] # "idle" /\ op'[t] = op[t]
             /\ \A u \in Threads \ {t} : pc'[u] = pc[u],
             pc'[t] = "header" =>
               ring'[SlotOf(idx'[t])].sig = IF op[t] = "dispatch_signal"
                                            THEN t ELSE NoSignal,
             op[t] = "dispatch_signal" =>
               /\ pc'[t] \in {"object", "kernarg", "header"} => signal'[t] = 1
               /\ pc'[t] \in Issued =>
                    \/ Len(executed') = Len(issued') /\ signal'[t] <= 0
                    \/ /\ Len(executed') < Len(issued') /\ signal'[t] = 1
                       /\ ring'[SlotOf(Len(issued') - 1)].sig = t
      PROVE  SignalArmed'
  <2>1. \A u \in Threads \ {t} : pc'[u] = "idle"
    BY <1>5 DEF OneCaller
  <2>2. QED
    BY <1>5, <2>1 DEF SignalArmed, Issued, SlotOf
<1>6. ASSUME NEW t \in Threads, Claim(t) \/ ArmSignal(t)
      PROVE  SignalArmed'
  <2>1. /\ pc[t] \in {"claim", "arm"} /\ op' = op
        /\ pc'[t] \in {"arm", "object"}
        /\ \A u \in Threads \ {t} : pc'[u] = pc[u]
        /\ op[t] = "dispatch_signal" /\ pc'[t] = "object" => signal'[t] = 1
    BY <1>6 DEF Claim, ArmSignal, calling
  <2>2. QED
    BY <1>5, <1>6, <2>1 DEF Issued, Step
<1>7. ASSUME NEW t \in Threads, WriteObject(t)
      PROVE  SignalArmed'
  BY <1>5, <1>7 DEF WriteObject, SignalArmed, Issued, Step, calling
<1>8. ASSUME NEW t \in Threads, WriteKernarg(t)
      PROVE  SignalArmed'
  <2>1. /\ pc[t] = "kernarg" /\ pc'[t] = "header"
        /\ UNCHANGED <<op, idx, signal>>
        /\ \A u \in Threads \ {t} : pc'[u] = pc[u]
    BY <1>8 DEF WriteKernarg, calling
  <2>2. SlotOf(idx[t]) \in SlotIds
    BY SlotOfType
  <2>3. ring'[SlotOf(idx[t])].sig = IF op[t] = "dispatch_signal"
                                    THEN t ELSE NoSignal
    BY <1>8, <2>2 DEF WriteKernarg, Slot
  <2>4. QED
    BY <1>5, <1>8, <2>1, <2>3 DEF SignalArmed, Issued, Step, SlotOf
<1>9. ASSUME NEW t \in Threads, WriteHeader(t)
      PROVE  SignalArmed'
  <2>1. /\ pc[t] = "header" /\ pc'[t] = "publish"
        /\ UNCHANGED <<op, idx, signal, executed>>
        /\ \A u \in Threads \ {t} : pc'[u] = pc[u]
        /\ Len(issued') = Len(issued) + 1
    BY <1>9 DEF WriteHeader, gpu, RingInv, TypeOK
  <2>2. idx[t] = Len(issued)
    BY <2>1 DEF RingInv, PointersAgree, ClaimIsFree, OneCaller
  <2>3. ring'[SlotOf(idx[t])].sig = ring[SlotOf(idx[t])].sig
    <3> DEFINE r == [ring[SlotOf(idx[t])] EXCEPT !.hdr = "DISPATCH"]
    <3>1. SlotOf(idx[t]) \in SlotIds
      BY SlotOfType
    <3>2. r.sig = ring[SlotOf(idx[t])].sig
      BY <3>1 DEF Slot
    <3>3. ring' = [ring EXCEPT ![SlotOf(idx[t])] = r]
      BY <1>9 DEF WriteHeader
    <3> HIDE DEF r
    <3>4. QED
      BY <3>1, <3>2, <3>3
  <2>4. op[t] = "dispatch_signal" =>
          /\ Len(executed') < Len(issued') /\ signal'[t] = 1
          /\ ring'[SlotOf(Len(issued') - 1)].sig = t
    BY <2>1, <2>2, <2>3 DEF SignalArmed
  <2>5. QED
    BY <1>5, <1>9, <2>1, <2>4 DEF Step
<1>10. ASSUME NEW t \in Threads, Publish(t) \/ RingDoorbell(t)
       PROVE  SignalArmed'
  <2>1. /\ pc[t] \in Issued /\ pc'[t] \notin {"object", "kernarg", "header"}
        /\ pc[t] # "idle"
        /\ UNCHANGED <<op, ring, signal, executed, issued>>
        /\ \A u \in Threads \ {t} : pc'[u] = pc[u]
    BY <1>10 DEF Publish, RingDoorbell, gpu, Issued
  <2>2. QED
    BY <1>5, <1>10, <2>1 DEF SignalArmed, Step
<1>11. ASSUME NEW t \in Threads, ReadWritePtr(t)
       PROVE  SignalArmed'
  <2>1. /\ pc[t] = "target" /\ pc'[t] \in {"doorbell", "poll"} /\ op' = op
        /\ \A u \in Threads \ {t} : pc'[u] = pc[u]
    BY <1>11 DEF ReadWritePtr
  <2>2. op[t] # "dispatch_signal"
    BY <2>1 DEF CallMatches, Waits
  <2>3. QED
    BY <1>5, <1>11, <2>1, <2>2 DEF Step
<1>12. CASE CpComplete
  BY <1>12, CompleteDisarms
<1>13. CASE CpLaunch
  <2>1. \A t \in Threads : SlotOf(idx[t]) \in SlotIds
    BY SlotOfType
  <2>2. Len(executed) < Len(issued) => SlotOf(Len(issued) - 1) \in SlotIds
    BY SlotOfType
  <2>3. UNCHANGED <<pc, op, idx, signal, executed, issued>>
    BY <1>13 DEF CpLaunch, calling
  <2>4. \A s \in SlotIds : ring'[s].sig = ring[s].sig
    BY <1>13, LaunchKeepsSigs DEF RingInv
  <2>5. QED
    BY <2>1, <2>2, <2>3, <2>4 DEF SignalArmed, SlotOf
<1>14. CASE CpRetire \/ CpHang \/ UNCHANGED vars
  <2>1. UNCHANGED <<ring, pc, op, idx, signal, executed, issued>>
    BY <1>14 DEF CpRetire, CpHang, calling, gpu, vars
  <2>2. QED
    BY <2>1 DEF SignalArmed, SlotOf
<1>15. QED
  BY <1>2, <1>4, <1>6, <1>7, <1>8, <1>9, <1>10, <1>11, <1>12, <1>13, <1>14
     DEF Next, Step, Cp

-----------------------------------------------------------------------------
\* Every report is true when it is made, and stays so.
LEMMA ReportsStep ==
  ASSUME ~SlowGpu, BatchLimit <= Slots - Headroom, RingInv, CallMatches,
         WaitsCount, BellInv, SignalArmed, ReportsTrue, [Next]_vars
  PROVE  ReportsTrue'
<1>1. /\ Len(executed) \in Nat /\ Len(issued) \in Nat /\ readPtr \in Nat
      /\ writePtr \in Nat /\ doorbell \in Int /\ doorbell < writePtr
      /\ readPtr <= Len(executed) /\ Len(executed) <= Len(issued)
      /\ owed \in [Threads -> Nat]
      /\ out \in [Threads -> Outcomes] /\ op \in [Threads -> AllCalls]
  BY DEF RingInv, TypeOK, PointersAgree, ExecutedInOrder, BellInv
<1> USE <1>1 DEF Return, Goto
<1>2. ASSUME NEW t \in Threads, ~destroyed, ~destroyed',
             hung' = hung, executed' = executed,
             \A u \in Threads \ {t} :
               out'[u] = out[u] /\ op'[u] = op[u] /\ owed'[u] = owed[u],
             out'[t] \in {"panic", "err"} => hung,
             out'[t] = "ok" /\ op'[t] = "dispatch_signal"
               => Len(executed) >= owed'[t]
      PROVE  ReportsTrue'
  BY <1>2 DEF ReportsTrue, TimeoutMeansHung, DropLosesNothing
<1>3. ASSUME NEW t \in Threads, NEW c \in Calls, Call(t, c)
      PROVE  ReportsTrue'
  <2>1. /\ ~destroyed /\ destroyed' = destroyed /\ out'[t] = "none"
        /\ UNCHANGED <<hung, executed>>
        /\ \A u \in Threads \ {t} :
             out'[u] = out[u] /\ op'[u] = op[u] /\ owed'[u] = owed[u]
    BY <1>3 DEF Call, gpu
  <2>2. QED
    BY <1>2, <2>1
<1>4. ASSUME NEW t \in Threads, pc[t] # "idle"
      PROVE  ~destroyed /\ out[t] = "none"
  BY <1>4 DEF CallMatches
<1>5. ASSUME NEW t \in Threads,
             \/ EnsureRingSpace(t) \/ Claim(t) \/ ArmSignal(t)
             \/ WriteObject(t) \/ WriteKernarg(t) \/ WriteHeader(t)
             \/ Publish(t) \/ RingDoorbell(t) \/ ReadWritePtr(t)
      PROVE  ReportsTrue'
  <2>1. /\ pc[t] # "idle" /\ out'[t] \in {out[t], "sent"}
        /\ UNCHANGED <<destroyed, hung, executed>>
        /\ \A u \in Threads \ {t} :
             out'[u] = out[u] /\ op'[u] = op[u] /\ owed'[u] = owed[u]
    BY <1>5 DEF EnsureRingSpace, Claim, ArmSignal, WriteObject, WriteKernarg,
       WriteHeader, Publish, RingDoorbell, ReadWritePtr, gpu, calling
  <2>2. QED
    BY <1>2, <1>4, <2>1
<1>6. ASSUME NEW t \in Threads, RingSpaceTimeout(t)
      PROVE  ReportsTrue'
  <2>1. /\ pc[t] = "space" /\ out'[t] = "panic"
        /\ UNCHANGED <<destroyed, hung, executed, op, owed>>
        /\ \A u \in Threads \ {t} : out'[u] = out[u]
    BY <1>6 DEF RingSpaceTimeout, gpu
  <2>2. hung
    BY <1>6, FullIsHang DEF RingSpaceTimeout
  <2>3. QED
    BY <1>2, <1>4, <2>1, <2>2
<1>7. ASSUME NEW t \in Threads, Poll(t)
      PROVE  ReportsTrue'
  <2>1. /\ pc[t] = "poll" /\ out'[t] = "ok" /\ Completed(t)
        /\ UNCHANGED <<destroyed, hung, executed, op, owed>>
        /\ \A u \in Threads \ {t} : out'[u] = out[u]
    BY <1>7 DEF Poll, gpu
  <2>2. owed[t] <= Len(issued)
    BY <2>1 DEF WaitsCount, BellInv, RingInv, PointersAgree, OneCaller
  <2>3. op[t] = "dispatch_signal" => Len(executed) = Len(issued)
    BY <2>1 DEF Completed, SignalArmed, Issued
  <2>4. QED
    BY <1>2, <1>4, <2>1, <2>2, <2>3
<1>8. ASSUME NEW t \in Threads, PollTimeout(t)
      PROVE  ReportsTrue'
  <2>1. /\ pc[t] = "poll" /\ out'[t] = "err"
        /\ UNCHANGED <<destroyed, hung, executed, op, owed>>
        /\ \A u \in Threads \ {t} : out'[u] = out[u]
    BY <1>8 DEF PollTimeout, gpu
  <2>2. hung
    BY <1>8, TimeoutIsHang DEF PollTimeout
  <2>3. QED
    BY <1>2, <1>4, <2>1, <2>2
<1>9. ASSUME NEW t \in Threads, DropQueue(t)
      PROVE  ReportsTrue'
  <2>1. /\ pc[t] = "poll" /\ op[t] = "drop" /\ out'[t] = "sent"
        /\ Completed(t) \/ MayTimeOut
        /\ UNCHANGED <<doorbell, hung, executed, op, owed>>
        /\ \A u \in Threads \ {t} : out'[u] = out[u]
    BY <1>9 DEF DropQueue, gpu, pointers
  <2>2. hung \/ readPtr > doorbell
    BY <2>1 DEF BellInv, Completed, MayTimeOut
  <2>3. hung \/ Len(executed) > doorbell
    BY <2>2
  <2>4. QED
    BY <2>1, <2>3 DEF ReportsTrue, TimeoutMeansHung, DropLosesNothing
<1>10. CASE Cp \/ UNCHANGED vars
  <2>1. /\ UNCHANGED <<doorbell, destroyed, out, op, owed>>
        /\ hung => hung'
        /\ Len(executed') >= Len(executed)
    <3>1. CASE CpComplete
      BY <3>1 DEF CpComplete, calling, pointers, RingInv, TypeOK, Slot
    <3>2. CASE CpLaunch \/ CpRetire \/ CpHang \/ UNCHANGED vars
      BY <3>2 DEF CpLaunch, CpRetire, CpHang, vars, calling, pointers, gpu
    <3>3. QED
      BY <1>10, <3>1, <3>2 DEF Cp
  <2>2. Len(executed') \in Nat
    BY TypeStep DEF RingInv, TypeOK
  <2>3. QED
    BY <2>1, <2>2 DEF ReportsTrue, TimeoutMeansHung, DropLosesNothing
<1>11. QED
  BY <1>3, <1>5, <1>6, <1>7, <1>8, <1>9, <1>10 DEF Next, Step

\* All of it holds together, of every behaviour whose callers take turns and
\* leave fewer packets without a doorbell than ensure_ring_space grants.
THEOREM ReportsAreInductive ==
  ASSUME Serialized, ~SlowGpu, BatchLimit <= Slots - Headroom
  PROVE  Spec => []HangInv
<1>1. Init => HangInv
  <2>1. SUFFICES ASSUME Init PROVE HangInv
    OBVIOUS
  <2> USE <2>1 DEF Init
  <2>2. CallMatches /\ WaitsCount /\ BellInv /\ SignalArmed /\ SignalFetched
    BY DEF CallMatches, WaitsCount, BellInv, SignalArmed, SignalFetched, Issued
  <2>3. SignalsAwaited
    <3>1. Len(executed) = 0 /\ Len(issued) = 0
      OBVIOUS
    <3> DEFINE e == Len(executed)
               n == Len(issued)
    <3>2. \A i \in e..n - 1 : FALSE
      BY <3>1
    <3>3. QED
      BY <3>2 DEF SignalsAwaited
  <2>4. ReportsTrue
    BY DEF ReportsTrue, TimeoutMeansHung, DropLosesNothing
  <2>5. QED
    BY <2>2, <2>3, <2>4 DEF HangInv
<1>2. ASSUME RingInv, HangInv, [Next]_vars PROVE HangInv'
  <2>1. CallMatches' /\ WaitsCount'
    BY <1>2, CallMatchesStep, WaitsStep DEF HangInv, RingInv
  <2>2. BellInv' /\ SignalFetched'
    BY <1>2, BellStep, FetchedStep DEF HangInv, RingInv
  <2>3. SignalsAwaited' /\ SignalArmed'
    BY <1>2, AwaitedStep, ArmedStep DEF HangInv
  <2>4. ReportsTrue'
    BY <1>2, ReportsStep DEF HangInv
  <2>5. QED
    BY <2>1, <2>2, <2>3, <2>4 DEF HangInv
<1>3. QED
  BY <1>1, <1>2, RingIsInductive, PTL DEF Spec

\* The panic of ensure_ring_space and the Err of a wait say that the GPU has
\* hung, and they are right if its kernels end before the timeouts.
THEOREM TimeoutsAreHangs ==
  ASSUME Serialized, ~SlowGpu, BatchLimit <= Slots - Headroom
  PROVE  Spec => []TimeoutMeansHung
BY ReportsAreInductive, PTL DEF HangInv, ReportsTrue

\* Drop destroys the queue of a GPU that has not hung only after everything the
\* doorbell covers has run.
THEOREM DropDrains ==
  ASSUME Serialized, ~SlowGpu, BatchLimit <= Slots - Headroom
  PROVE  Spec => []DropLosesNothing
BY ReportsAreInductive, PTL DEF HangInv, ReportsTrue

\* With timely kernels Ok is true of every call, dispatch_signal included: its
\* signal is only ever decremented by its own packet.
THEOREM OkIsTrueInTime ==
  ASSUME Serialized, ~SlowGpu, BatchLimit <= Slots - Headroom
  PROVE  Spec => []OkMeansDone
<1>1. HangInv => OkMeansDone
  BY DEF HangInv, WaitsCount, ReportsTrue, OkMeansDone
<1>2. QED
  BY <1>1, ReportsAreInductive, PTL

\* With timely kernels the queue implements the FIFO with all of its calls,
\* dispatch_signal included.
THEOREM QueueImplementsFifoInTime ==
  ASSUME Serialized, ~SlowGpu, BatchLimit <= Slots - Headroom
  PROVE  Spec => ImplementsCommandQueue
<1>1. Init => Abstract!Init
  BY RefineInit
<1>2. ASSUME RingInv, HangInv, HangInv', [Next]_vars
      PROVE  [Abstract!Next]_(Abstract!vars)
  <2>1. ASSUME NEW t \in Threads, Poll(t) PROVE Len(executed) >= owed[t]
    <3>1. out'[t] = "ok" /\ UNCHANGED <<op, owed, executed>>
      BY <1>2, <2>1 DEF Poll, Return, gpu, RingInv, TypeOK
    <3>2. OkMeansDone'
      BY <1>2 DEF HangInv, WaitsCount, ReportsTrue, OkMeansDone
    <3>3. QED
      BY <3>1, <3>2 DEF OkMeansDone
  <2>2. QED
    BY <1>2, <2>1, RefineStep DEF HangInv
<1>3. QED
  BY <1>1, <1>2, RingIsInductive, ReportsAreInductive, PTL
     DEF Spec, ImplementsCommandQueue, Abstract!Spec
=============================================================================
