-------------------------- MODULE GemmKernelProofs --------------------------
(***************************************************************************)
(* Three things about the kernels of both generators, whatever their       *)
(* tiles, their number of waves and the length of their loop, and after    *)
(* both passes over their waits: the waves of a workgroup never race in    *)
(* shared memory, no instruction reads a register that an outstanding load *)
(* will still write, and what is stored in shared memory and in Y is where *)
(* it is looked for.                                                       *)
(*                                                                         *)
(* 1. No race.  What the generators emit, for every specification, is in   *)
(* phases: each of the blocks that load a tile stores to one of the        *)
(* buffers of shared memory, loads from the other, and has a wait for      *)
(* everything behind its last LDS operation and in front of its one        *)
(* barrier; the passes over the waits keep that wait, as they count that   *)
(* operation as outstanding.  And waves that run code in phases stay in    *)
(* step (InStep): one is in the same phase as another, behind the barrier  *)
(* before it with nothing in flight, or in the epilogue after it, which    *)
(* only loads.                                                             *)
(*                                                                         *)
(* 2. The waits suffice, for every kernel that does not stream several     *)
(* steps to a tile.  The code is generated, so the first part goes along   *)
(* the generators.  What is known in front of a piece of code is a set of  *)
(* facts <<r, a>>: behind every operation that may still write the         *)
(* register r, at least a others of its counter were issued.  A wait for   *)
(* all but n makes every register aged n available.  Each piece takes one  *)
(* set of facts to another, and needs only registers that are available    *)
(* (Work).  The second part turns that into a property of the finished     *)
(* list: what may be outstanding in front of an instruction (Alive) does   *)
(* not write what it needs (Sound).  The passes over the waits keep it:    *)
(* they drop a wait, or lower its number, by an upper bound on what is     *)
(* outstanding.  The third part is the invariant of the running waves:     *)
(* what is outstanding in a wave is among what may be outstanding where it *)
(* stands (Tracked), beside InStep.                                        *)
(*                                                                         *)
(* 3. The layout, of the launches whose tiles the address arithmetic is    *)
(* made for (Laid).  A round of loads writes each address of its part of a *)
(* buffer, as the exchange of the banks, taken bit by bit, reaches every   *)
(* place of a row's chunks, and a wave reads a fragment through the same   *)
(* exchange, which only sees a row's place among eight.  An element of Y   *)
(* has one workgroup, wave, block, lane and register, the digits of its    *)
(* row and of its column, so the blocks' stores are disjoint, cover Y and  *)
(* their sizes add up.                                                     *)
(***************************************************************************)
EXTENDS GemmKernel, Sums, FiniteSetTheorems, SequenceTheorems, TLAPS

\* The blocks with a barrier, those of the epilogue, and where a wave can be.
Main == {"prologue", "A", "B"}
Epilogs == {"epilogA", "epilogB"}
Names == Main \cup Epilogs \cup {"store", "end"}

\* The buffer a block stores the next tile to, and the one it computes from.
StoreBufs(b) == CASE b = "A" -> {1} [] b \in {"prologue", "B"} -> {0} [] OTHER -> {}
LoadBufs(b) == CASE b \in {"A", "epilogA"} -> {0} [] b \in {"B", "epilogB"} -> {1} [] OTHER -> {}

\* A block never stores to the buffer it loads from; only the blocks with a barrier store.
LEMMA BuffersDiffer ==
  ASSUME NEW b
  PROVE  /\ StoreBufs(b) \cap LoadBufs(b) = {}
         /\ b \notin Main => StoreBufs(b) = {}
<1>1. b = "A" => StoreBufs(b) = {1} /\ LoadBufs(b) = {0}
  BY DEF StoreBufs, LoadBufs
<1>2. b = "B" => StoreBufs(b) = {0} /\ LoadBufs(b) = {1}
  BY DEF StoreBufs, LoadBufs
<1>3. b = "prologue" => StoreBufs(b) = {0} /\ LoadBufs(b) = {}
  BY DEF StoreBufs, LoadBufs
<1>4. b \notin Main => StoreBufs(b) = {}
  BY DEF StoreBufs, Main
<1>5. QED
  BY <1>1, <1>2, <1>3, <1>4 DEF Main

\* A finite list, of whatever.
IsSeq(q) == \E S : q \in Seq(S)

\* What a block may hold before its barrier.
Allowed(x, loads, stores) ==
  /\ x.op \notin {"barrier", "advance"}
  /\ x.op = "wait" => \E c \in {"vm", "lgkm"}, n \in Nat : x = Wait(c, n)
  /\ x.op = "ds_store" =>
       \E mat \in {"X", "WT"}, i \in Nat, u \in stores : x = DsStore(mat, i, u)
  /\ x.op = "ds_load" =>
       \E r, mat, block, ks, half : \E u \in loads : x = DsLoad(r, u, mat, block, ks, half)
  /\ x.op = "swap_out" => \E c : x = SwapOut(c)

\* A list of such instructions, and one in which a wait for every LDS operation
\* follows the last of them.
Good(q, loads, stores) ==
  IsSeq(q) /\ \A i \in 1..Len(q) : Allowed(q[i], loads, stores)

LdsWait == Wait("lgkm", 0)
LdsOps == {"ds_load", "ds_store", "swap_in", "swap_out"}
Settled(q) ==
  \A i \in 1..Len(q) : q[i].op \in LdsOps => \E j \in (i + 1)..Len(q) : q[j] = LdsWait

\* A block with a barrier: everything has landed before it, and k_iter is advanced
\* behind it.
Ordered(q, loads, stores) ==
  \E before : /\ Good(before, loads, stores) /\ Settled(before)
              /\ q = before \o <<Barrier, Advance>>

\* The kernel c computes from one buffer while it fills the other.
Phased(c) ==
  /\ \A b \in Main : Ordered(c[b], LoadBufs(b), StoreBufs(b))
  /\ \A b \in Epilogs \cup {"store"} : Good(c[b], LoadBufs(b), {})

\* What being Ordered says of a block, instruction by instruction.
LEMMA OrderedParts ==
  ASSUME NEW q, NEW loads, NEW stores, Ordered(q, loads, stores)
  PROVE  /\ Len(q) \in Nat /\ Len(q) >= 2
         /\ q[Len(q) - 1].op = "barrier" /\ q[Len(q)].op = "advance"
         /\ \A i \in 1..Len(q) - 2 : Allowed(q[i], loads, stores)
         /\ \A i \in 1..Len(q) - 2 : q[i].op \in LdsOps =>
              \E j \in (i + 1)..Len(q) - 2 : q[j] = LdsWait
<1>1. PICK before : /\ Good(before, loads, stores) /\ Settled(before)
                    /\ q = before \o <<Barrier, Advance>>
  BY DEF Ordered
<1>2. PICK S : before \in Seq(S)
  BY <1>1 DEF Good, IsSeq
<1>3. PICK tail : tail = <<Barrier, Advance>>
  OBVIOUS
<1>4. tail \in Seq({Barrier, Advance}) /\ Len(tail) = 2 /\ tail[1] = Barrier /\ tail[2] = Advance
  BY <1>3
<1>5. PICK n \in Nat : n = Len(before)
  BY <1>2
<1>6. /\ Len(q) = n + 2
      /\ \A i \in 1..n : q[i] = before[i]
      /\ q[n + 1] = Barrier /\ q[n + 2] = Advance
  <2>1. q = before \o tail /\ before \in Seq(S \cup {Barrier, Advance})
           /\ tail \in Seq(S \cup {Barrier, Advance})
    BY <1>1, <1>2, <1>3, <1>4
  <2> QED
    BY <1>4, <1>5, <2>1, ConcatProperties
<1>7. Barrier.op = "barrier" /\ Advance.op = "advance"
  BY DEF Barrier, Advance
<1>8. n = Len(q) - 2
  BY <1>6
<1>9. \A i \in 1..n : Allowed(q[i], loads, stores)
  BY <1>1, <1>5, <1>6 DEF Good
<1>10. \A i \in 1..n : q[i].op \in LdsOps => \E j \in (i + 1)..n : q[j] = LdsWait
  <2> SUFFICES ASSUME NEW i \in 1..n, q[i].op \in LdsOps
               PROVE  \E j \in (i + 1)..n : q[j] = LdsWait
    OBVIOUS
  <2>1. PICK j \in (i + 1)..n : before[j] = LdsWait
    BY <1>1, <1>5, <1>6 DEF Settled
  <2>2. j \in 1..n
    BY <1>5
  <2> QED
    BY <1>6, <2>1, <2>2
<1>11. QED
  BY <1>6, <1>7, <1>8, <1>9, <1>10

\* What an LDS operation in flight from block b touches.
Entry(o, w, b) ==
  /\ o.op = "ds_store" =>
       /\ o.buf \in StoreBufs(b)
       /\ \E mat \in {"X", "WT"}, i \in Nat : o.src = <<mat, i>> /\ o.slice = Slice(w, i)
  /\ o.op = "ds_load" => o.buf \in LoadBufs(b)

\* What is in flight was issued in this block, behind its last wait for everything.
InFlight(w, b) ==
  /\ \A j \in 1..Len(lgkm[w]) : Entry(lgkm[w][j], w, b)
  /\ lgkm[w] # << >> =>
       \E h \in 1..(at[w].i - 1) :
         /\ code[b][h].op \in LdsOps
         /\ \A m \in (h + 1)..(at[w].i - 1) : code[b][m] # LdsWait

More(K) == K < KEnd(Spc, problem.args.k)

\* Where a wave is while the workgroup is in phase n, the K of the phase being K:
\* inside, or behind the barrier before it, or in the epilogue and what follows.
Inside(w, n, K) ==
  /\ n \in Main /\ at[w].block = n /\ kIter[w] = K
  /\ at[w].i \in 1..(Len(code[n]) - 1)
  /\ InFlight(w, n)
Coming(w, n, K) ==
  /\ at[w].block \in Main /\ lgkm[w] = << >>
  /\ n = Successor(at[w].block, More(K))
  /\ \/ at[w].i = Len(code[at[w].block]) /\ K = kIter[w] + Spc.tile_k
     \/ at[w].i = Len(code[at[w].block]) + 1 /\ K = kIter[w]
Leaving(w, n) ==
  /\ n \in Epilogs /\ at[w].block \in {n, "store", "end"}
  /\ \A j \in 1..Len(lgkm[w]) : lgkm[w][j].op # "ds_store"
Placed(w, n, K) == Inside(w, n, K) \/ Coming(w, n, K) \/ Leaving(w, n)

\* The inductive invariant: all the waves are in one phase.
InStep ==
  /\ problem \in Problems /\ Phased(code)
  /\ at \in [Waves -> [block : Names, i : Nat \ {0}]]
  /\ DOMAIN lgkm = Waves /\ DOMAIN kIter = Waves
  /\ \A w \in Waves : IsSeq(lgkm[w])
  /\ \A w \in arrived : w \in Waves /\ at[w].block \in Main
                        /\ at[w].i = Len(code[at[w].block]) - 1
  /\ \E n \in Main \cup Epilogs : \E K : \A w \in Waves : Placed(w, n, K)

-----------------------------------------------------------------------------
(* Waves stay in step. *)

\* A list with one more element, and a list without its first.
LEMMA AppendParts ==
  ASSUME NEW q, NEW x, IsSeq(q)
  PROVE  /\ IsSeq(Append(q, x)) /\ Len(q) \in Nat /\ Len(Append(q, x)) = Len(q) + 1
         /\ \A j \in 1..Len(q) : Append(q, x)[j] = q[j]
         /\ Append(q, x)[Len(q) + 1] = x
<1>1. PICK S : q \in Seq(S)
  BY DEF IsSeq
<1>2. q \in Seq(S \cup {x})
  BY <1>1
<1>3. Append(q, x) \in Seq(S \cup {x})
  BY <1>2
<1>4. QED
  BY <1>2, <1>3, AppendProperties DEF IsSeq

LEMMA TailParts ==
  ASSUME NEW q, IsSeq(q), Len(q) > 0
  PROVE  /\ IsSeq(Tail(q)) /\ Len(q) \in Nat /\ Len(Tail(q)) = Len(q) - 1
         /\ \A j \in 1..Len(q) - 1 : Tail(q)[j] = q[j + 1]
         /\ Head(q) = q[1] /\ q # << >>
<1>1. PICK S : q \in Seq(S)
  BY DEF IsSeq
<1>2. q # << >> /\ Len(q) \in Nat
  BY <1>1
<1>3. QED
  BY <1>1, <1>2, HeadTailProperties DEF IsSeq

\* A list without elements is the empty list.
LEMMA EmptyOrNot ==
  ASSUME NEW q, IsSeq(q)
  PROVE  Len(q) \in Nat /\ (q = << >> <=> Len(q) = 0)
<1>1. PICK S : q \in Seq(S)
  BY DEF IsSeq
<1>2. QED
  BY <1>1

\* The code around a wave.
LEMMA Here ==
  ASSUME InStep, NEW w \in Waves
  PROVE  /\ at[w].block \in Names /\ at[w].i \in Nat \ {0}
         /\ at[w] = [block |-> at[w].block, i |-> at[w].i]
         /\ IsSeq(lgkm[w])
         /\ at[w].block \in Main =>
              Ordered(code[at[w].block], LoadBufs(at[w].block), StoreBufs(at[w].block))
         /\ at[w].block \in Epilogs \cup {"store"} =>
              Good(code[at[w].block], LoadBufs(at[w].block), {})
<1>1. at \in [Waves -> [block : Names, i : Nat \ {0}]] /\ Phased(code) /\ IsSeq(lgkm[w])
  BY DEF InStep
<1>2. at[w] \in [block : Names, i : Nat \ {0}]
  BY <1>1
<1>3. QED
  BY <1>1, <1>2 DEF Phased

\* A wave that issues something else than a barrier or an advance is inside a
\* block, in front of its barrier, or leaving.
LEMMA Issuing ==
  ASSUME InStep, NEW w \in Waves, NEW op, Ready(w, op), op \notin {"barrier", "advance"},
         NEW n, NEW K, Placed(w, n, K)
  PROVE  /\ Ins(w).op = op /\ w \notin arrived
         /\ \/ /\ Inside(w, n, K) /\ at[w].i + 1 \in 1..(Len(code[n]) - 1)
               /\ Allowed(Ins(w), LoadBufs(n), StoreBufs(n))
            \/ /\ Leaving(w, n) /\ at[w].block \in {n, "store"}
               /\ Allowed(Ins(w), LoadBufs(at[w].block), {})
<1>1. /\ at[w].block # "end" /\ w \notin arrived
      /\ at[w].i <= Len(code[at[w].block]) /\ Ins(w).op = op
  BY DEF Ready, Ended
<1>2. at[w].i \in Nat \ {0}
  BY Here
<1>3. Ins(w) = code[at[w].block][at[w].i]
  BY DEF Ins
<1>4. CASE Inside(w, n, K)
  <2>1. /\ at[w].block = n /\ n \in Main /\ at[w].i \in 1..(Len(code[n]) - 1)
    BY <1>4 DEF Inside
  <2>2. Ordered(code[n], LoadBufs(n), StoreBufs(n))
    BY <2>1, Here
  <2>3. /\ Len(code[n]) \in Nat /\ code[n][Len(code[n]) - 1].op = "barrier"
        /\ \A i \in 1..Len(code[n]) - 2 : Allowed(code[n][i], LoadBufs(n), StoreBufs(n))
    BY <2>2, OrderedParts
  <2>4. at[w].i # Len(code[n]) - 1
    BY <1>1, <1>3, <2>1, <2>3
  <2>5. at[w].i \in 1..Len(code[n]) - 2 /\ at[w].i + 1 \in 1..(Len(code[n]) - 1)
    BY <2>1, <2>3, <2>4
  <2>6. QED
    BY <1>1, <1>3, <1>4, <2>1, <2>3, <2>5
<1>5. CASE Coming(w, n, K)
  <2>1. /\ at[w].block \in Main
        /\ at[w].i = Len(code[at[w].block]) \/ at[w].i = Len(code[at[w].block]) + 1
    BY <1>5 DEF Coming
  <2>2. /\ Len(code[at[w].block]) \in Nat
        /\ code[at[w].block][Len(code[at[w].block])].op = "advance"
    BY <2>1, Here, OrderedParts
  <2>3. at[w].i = Len(code[at[w].block])
    BY <1>1, <2>1, <2>2
  <2>4. QED
    BY <1>1, <1>3, <2>2, <2>3
<1>6. CASE Leaving(w, n)
  <2>1. at[w].block \in {n, "store"} /\ n \in Epilogs
    BY <1>1, <1>6 DEF Leaving
  <2>2. Good(code[at[w].block], LoadBufs(at[w].block), {})
    BY <2>1, Here
  <2>3. at[w].i \in 1..Len(code[at[w].block])
    <3>1. Len(code[at[w].block]) \in Nat
      BY <2>2, EmptyOrNot DEF Good
    <3> QED
      BY <1>1, <1>2, <3>1
  <2>4. QED
    BY <1>1, <1>3, <1>6, <2>1, <2>2, <2>3 DEF Good
<1>7. QED
  BY <1>4, <1>5, <1>6 DEF Placed

\* One wave's step keeps the workgroup in step if it keeps the wave in its place.
LEMMA OneMoves ==
  ASSUME InStep, NEW w \in Waves, w \notin arrived,
         UNCHANGED <<problem, code, arrived>>,
         at' \in [Waves -> [block : Names, i : Nat \ {0}]],
         DOMAIN lgkm' = Waves, DOMAIN kIter' = Waves,
         IsSeq(lgkm'[w]),
         \A v \in Waves : v # w =>
            at'[v] = at[v] /\ lgkm'[v] = lgkm[v] /\ kIter'[v] = kIter[v],
         \A n \in Main \cup Epilogs : \A K : Placed(w, n, K) => Placed(w, n, K)'
  PROVE  InStep'
<1>0. PICK n \in Main \cup Epilogs : \E K : \A v \in Waves : Placed(v, n, K)
  BY DEF InStep
<1>1. PICK K : \A v \in Waves : Placed(v, n, K)
  BY <1>0
<1>2. Waves' = Waves
  BY DEF Waves, Spc
<1>3. ASSUME NEW v \in Waves, v # w PROVE Placed(v, n, K)'
  <2>1. Placed(v, n, K)
    BY <1>1
  <2>2. at'[v] = at[v] /\ lgkm'[v] = lgkm[v] /\ kIter'[v] = kIter[v]
        /\ code' = code /\ problem' = problem
    BY <1>3
  <2>3. Inside(v, n, K) => Inside(v, n, K)'
    BY <2>2 DEF Inside, InFlight, Entry, Slice, Spc
  <2>4. Coming(v, n, K) => Coming(v, n, K)'
    BY <2>2 DEF Coming, Spc, More
  <2>5. Leaving(v, n) => Leaving(v, n)'
    BY <2>2 DEF Leaving
  <2>6. QED
    BY <2>1, <2>3, <2>4, <2>5 DEF Placed
<1>4. \A v \in Waves : Placed(v, n, K)'
  BY <1>1, <1>3
<1>5. \A v \in Waves : IsSeq(lgkm'[v])
  BY DEF InStep
<1>6. \A v \in arrived' : v \in Waves /\ at'[v].block \in Main
                        /\ at'[v].i = Len(code'[at'[v].block]) - 1
  BY DEF InStep
<1>7. Phased(code')
  BY DEF InStep
<1>8. problem' \in Problems
  BY DEF InStep
<1>9. QED
  BY <1>2, <1>4, <1>5, <1>6, <1>7, <1>8 DEF InStep

\* A wave that steps stays in its block.
LEMMA StepMoves ==
  ASSUME InStep, NEW w \in Waves, Step(w)
  PROVE  /\ at' \in [Waves -> [block : Names, i : Nat \ {0}]]
         /\ at'[w].block = at[w].block /\ at'[w].i = at[w].i + 1
         /\ \A v \in Waves : v # w => at'[v] = at[v]
<1>1. at \in [Waves -> [block : Names, i : Nat \ {0}]]
  BY DEF InStep
<1>2. at[w] \in [block : Names, i : Nat \ {0}]
  BY <1>1
<1>3. PICK r : r = [at[w] EXCEPT !.i = @ + 1]
  OBVIOUS
<1>4. r \in [block : Names, i : Nat \ {0}] /\ r.block = at[w].block /\ r.i = at[w].i + 1
  BY <1>2, <1>3
<1>5. at' = [at EXCEPT ![w] = r]
  BY <1>3 DEF Step
<1>6. QED
  BY <1>1, <1>4, <1>5

\* An instruction that is no LDS operation: a wait for everything finds nothing
\* in flight.
LEMMA QuietInStep ==
  ASSUME InStep, NEW w \in Waves, NEW op, Ready(w, op), op \notin {"barrier", "advance"},
         Ins(w) = LdsWait => lgkm[w] = << >>,
         Step(w), UNCHANGED <<problem, code, arrived, lgkm, kIter>>
  PROVE  InStep'
<1>1. /\ at' \in [Waves -> [block : Names, i : Nat \ {0}]]
      /\ at'[w].block = at[w].block /\ at'[w].i = at[w].i + 1
      /\ \A v \in Waves : v # w => at'[v] = at[v]
  BY StepMoves
<1>2. w \notin arrived
  BY DEF Ready
<1>3. DOMAIN lgkm = Waves /\ DOMAIN kIter = Waves /\ IsSeq(lgkm[w]) /\ at[w].i \in Nat
  BY Here DEF InStep
<1>4. ASSUME NEW n \in Main \cup Epilogs, NEW K, Placed(w, n, K)
      PROVE  Placed(w, n, K)'
  <2>1. \/ /\ Inside(w, n, K) /\ at[w].i + 1 \in 1..(Len(code[n]) - 1)
        \/ Leaving(w, n)
    BY <1>4, Issuing
  <2>2. CASE Inside(w, n, K) /\ at[w].i + 1 \in 1..(Len(code[n]) - 1)
    <3>1. /\ n \in Main /\ at[w].block = n /\ kIter[w] = K /\ InFlight(w, n)
      BY <2>2 DEF Inside
    <3>2. (\A j \in 1..Len(lgkm[w]) : Entry(lgkm[w][j], w, n))'
      BY <3>1 DEF InFlight, Entry, Slice, Spc
    <3>3. ASSUME lgkm[w] # << >>
          PROVE  \E h \in 1..(at'[w].i - 1) :
                   /\ code[n][h].op \in LdsOps
                   /\ \A m \in (h + 1)..(at'[w].i - 1) : code[n][m] # LdsWait
      <4>1. PICK h \in 1..(at[w].i - 1) :
                   /\ code[n][h].op \in LdsOps
                   /\ \A m \in (h + 1)..(at[w].i - 1) : code[n][m] # LdsWait
        BY <3>1, <3>3 DEF InFlight
      <4>2. code[n][at[w].i] # LdsWait
        BY <3>1, <3>3 DEF Ins
      <4>3. \A m \in (h + 1)..(at'[w].i - 1) : m \in (h + 1)..(at[w].i - 1) \/ m = at[w].i
        BY <1>1, <1>3
      <4>4. h \in 1..(at'[w].i - 1)
        BY <1>1, <1>3
      <4>5. QED
        BY <4>1, <4>2, <4>3, <4>4
    <3>4. InFlight(w, n)'
      BY <3>2, <3>3 DEF InFlight
    <3>5. Inside(w, n, K)'
      BY <1>1, <2>2, <3>1, <3>4 DEF Inside
    <3>6. QED
      BY <3>5 DEF Placed
  <2>3. CASE Leaving(w, n)
    <3>1. Leaving(w, n)'
      BY <1>1, <2>3 DEF Leaving
    <3>2. QED
      BY <3>1 DEF Placed
  <2>4. QED
    BY <2>1, <2>2, <2>3
<1>5. QED
  BY <1>1, <1>2, <1>3, <1>4, OneMoves

\* What an LDS operation is, in flight.
LEMMA QueuedEntry ==
  ASSUME NEW w, NEW b, NEW x, x.op \in LdsOps,
         Allowed(x, LoadBufs(b), StoreBufs(b))
  PROVE  /\ Queued(w, x).op = x.op
         /\ Entry(Queued(w, x), w, b)
<1>1. CASE x.op = "ds_store"
  <2>1. PICK mat \in {"X", "WT"}, i \in Nat, u \in StoreBufs(b) : x = DsStore(mat, i, u)
    BY <1>1 DEF Allowed
  <2>2. PICK val : val = reg[w][x.src]
    OBVIOUS
  <2>3. PICK sl : sl = Slice(w, x.src[2])
    OBVIOUS
  <2>4. Queued(w, x) = [op |-> x.op, src |-> x.src, buf |-> x.buf, value |-> val, slice |-> sl]
    BY <1>1, <2>2, <2>3 DEF Queued
  <2>5. x = [op |-> "ds_store", src |-> <<mat, i>>, buf |-> u]
    BY <2>1 DEF DsStore
  <2>6. PICK o : o = [op |-> x.op, src |-> x.src, buf |-> x.buf, value |-> val, slice |-> sl]
    OBVIOUS
  <2>7. o.op = "ds_store" /\ o.src = <<mat, i>> /\ o.buf = u /\ o.slice = sl
    BY <2>5, <2>6
  <2>8. sl = Slice(w, i)
    BY <2>3, <2>5
  <2>9. Queued(w, x) = o
    BY <2>4, <2>6
  <2>10. QED
    BY <1>1, <2>1, <2>7, <2>8, <2>9 DEF Entry
<1>2. CASE x.op = "swap_out"
  <2>1. PICK c : x = [op |-> "swap_out", c |-> c]
    BY <1>2 DEF Allowed, SwapOut
  <2>2. PICK val : val = acc[w][<<0, x.c>>]
    OBVIOUS
  <2>3. Queued(w, x) = [op |-> x.op, c |-> x.c, value |-> val]
    BY <1>2, <2>1, <2>2 DEF Queued
  <2>4. Queued(w, x).op = "swap_out"
    BY <1>2, <2>3
  <2>5. QED
    BY <1>2, <2>4 DEF Entry
<1>3. CASE x.op \in {"ds_load", "swap_in"}
  <2>1. Queued(w, x) = x
    BY <1>3 DEF Queued
  <2>2. x.op = "ds_load" => x.buf \in LoadBufs(b)
    BY DEF Allowed, DsLoad
  <2>3. QED
    BY <1>3, <2>1, <2>2 DEF Entry
<1>4. QED
  BY <1>1, <1>2, <1>3 DEF LdsOps

\* An LDS operation is issued: it is in flight behind the last wait for everything.
LEMMA LdsStepInStep ==
  ASSUME InStep, NEW w \in Waves, LdsStep(w)
  PROVE  InStep'
<1>1. PICK op \in LdsOps : Ready(w, op)
  BY DEF LdsStep, LdsOps
<1>2. op \notin {"barrier", "advance"}
  BY <1>1 DEF LdsOps
<1>3. PICK o : o = Queued(w, Ins(w))
  OBVIOUS
<1>4. /\ lgkm' = [lgkm EXCEPT ![w] = Append(@, o)] /\ Step(w)
      /\ UNCHANGED <<problem, code, arrived, kIter>>
  BY <1>3 DEF LdsStep, kernel
<1>5. /\ at' \in [Waves -> [block : Names, i : Nat \ {0}]]
      /\ at'[w].block = at[w].block /\ at'[w].i = at[w].i + 1
      /\ \A v \in Waves : v # w => at'[v] = at[v]
  BY <1>4, StepMoves
<1>6. DOMAIN lgkm = Waves /\ DOMAIN kIter = Waves /\ IsSeq(lgkm[w]) /\ at[w].i \in Nat \ {0}
  BY Here DEF InStep
<1>7. /\ DOMAIN lgkm' = Waves /\ lgkm'[w] = Append(lgkm[w], o)
      /\ \A v \in Waves : v # w => lgkm'[v] = lgkm[v]
  BY <1>4, <1>6
<1>8. /\ IsSeq(lgkm'[w]) /\ Len(lgkm[w]) \in Nat /\ Len(lgkm'[w]) = Len(lgkm[w]) + 1
      /\ \A j \in 1..Len(lgkm[w]) : lgkm'[w][j] = lgkm[w][j]
      /\ lgkm'[w][Len(lgkm[w]) + 1] = o
  BY <1>6, <1>7, AppendParts
<1>9. w \notin arrived
  BY <1>1 DEF Ready
<1>10. ASSUME NEW n \in Main \cup Epilogs, NEW K, Placed(w, n, K)
       PROVE  Placed(w, n, K)'
  <2>1. /\ Ins(w).op = op
        /\ \/ /\ Inside(w, n, K) /\ at[w].i + 1 \in 1..(Len(code[n]) - 1)
              /\ Allowed(Ins(w), LoadBufs(n), StoreBufs(n))
           \/ /\ Leaving(w, n) /\ at[w].block \in {n, "store"}
              /\ Allowed(Ins(w), LoadBufs(at[w].block), {})
    BY <1>1, <1>2, <1>10, Issuing
  <2>2. CASE /\ Inside(w, n, K) /\ at[w].i + 1 \in 1..(Len(code[n]) - 1)
             /\ Allowed(Ins(w), LoadBufs(n), StoreBufs(n))
    <3>1. /\ n \in Main /\ at[w].block = n /\ kIter[w] = K /\ InFlight(w, n)
      BY <2>2 DEF Inside
    <3>2. Entry(o, w, n)
      BY <1>1, <1>3, <2>1, <2>2, QueuedEntry
    <3>3. \A j \in 1..Len(lgkm'[w]) : Entry(lgkm'[w][j], w, n)
      <4> SUFFICES ASSUME NEW j \in 1..Len(lgkm'[w]) PROVE Entry(lgkm'[w][j], w, n)
        OBVIOUS
      <4>1. j \in 1..Len(lgkm[w]) \/ j = Len(lgkm[w]) + 1
        BY <1>8
      <4>2. QED
        BY <1>8, <3>1, <3>2, <4>1 DEF InFlight
    <3>4. PICK q : q = lgkm'[w]
      OBVIOUS
    <3>5. \A j \in 1..Len(q) : Entry(q[j], w, n)
      BY <3>3, <3>4
    <3>6. (\A j \in 1..Len(lgkm[w]) : Entry(lgkm[w][j], w, n))'
      BY <1>4, <3>4, <3>5 DEF Entry, Slice, Spc
    <3>7. /\ at[w].i \in 1..(at'[w].i - 1)
          /\ code[n][at[w].i].op \in LdsOps
          /\ \A m \in (at[w].i + 1)..(at'[w].i - 1) : code[n][m] # LdsWait
      <4>1. code[n][at[w].i].op \in LdsOps
        BY <1>1, <2>1, <3>1 DEF Ins
      <4>2. \A m \in Int : ~(m \in (at[w].i + 1)..(at'[w].i - 1))
        BY <1>5, <1>6
      <4>3. QED
        BY <1>5, <1>6, <4>1, <4>2
    <3>8. InFlight(w, n)'
      BY <1>4, <3>6, <3>7 DEF InFlight
    <3>9. Inside(w, n, K)'
      BY <1>4, <1>5, <2>2, <3>1, <3>8 DEF Inside
    <3>10. QED
      BY <3>9 DEF Placed
  <2>3. CASE Leaving(w, n) /\ Allowed(Ins(w), LoadBufs(at[w].block), {})
    <3>1. Ins(w).op # "ds_store"
      BY <2>3 DEF Allowed
    <3>2. o.op # "ds_store"
      <4>1. CASE op = "swap_out"
        BY <1>3, <2>1, <4>1 DEF Queued
      <4>2. CASE op # "swap_out"
        BY <1>3, <2>1, <3>1, <4>2 DEF Queued
      <4> QED
        BY <4>1, <4>2
    <3>3. \A j \in 1..Len(lgkm'[w]) : lgkm'[w][j].op # "ds_store"
      <4> SUFFICES ASSUME NEW j \in 1..Len(lgkm'[w]) PROVE lgkm'[w][j].op # "ds_store"
        OBVIOUS
      <4>1. j \in 1..Len(lgkm[w]) \/ j = Len(lgkm[w]) + 1
        BY <1>8
      <4>2. QED
        BY <1>8, <2>3, <3>2, <4>1 DEF Leaving
    <3>4. Leaving(w, n)'
      BY <1>5, <2>3, <3>3 DEF Leaving
    <3>5. QED
      BY <3>4 DEF Placed
  <2>4. QED
    BY <2>1, <2>2, <2>3
<1>11. QED
  BY <1>4, <1>5, <1>6, <1>7, <1>8, <1>9, <1>10, OneMoves

\* A wave behind the barrier adds to k_iter the K of the phase to come.
LEMMA AdvanceInStep ==
  ASSUME InStep, NEW w \in Waves, AdvanceStep(w)
  PROVE  InStep'
<1>1. /\ Ready(w, "advance") /\ Step(w)
      /\ kIter' = [kIter EXCEPT ![w] = @ + Spc.tile_k]
      /\ UNCHANGED <<problem, code, arrived, lgkm>>
  BY DEF AdvanceStep, kernel
<1>2. /\ at' \in [Waves -> [block : Names, i : Nat \ {0}]]
      /\ at'[w].block = at[w].block /\ at'[w].i = at[w].i + 1
      /\ \A v \in Waves : v # w => at'[v] = at[v]
  BY <1>1, StepMoves
<1>3. DOMAIN lgkm = Waves /\ DOMAIN kIter = Waves /\ IsSeq(lgkm[w]) /\ at[w].i \in Nat \ {0}
  BY Here DEF InStep
<1>4. /\ DOMAIN kIter' = Waves /\ kIter'[w] = kIter[w] + Spc.tile_k
      /\ \A v \in Waves : v # w => kIter'[v] = kIter[v]
  BY <1>1, <1>3
<1>5. /\ at[w].block # "end" /\ w \notin arrived
      /\ at[w].i <= Len(code[at[w].block]) /\ code[at[w].block][at[w].i].op = "advance"
  BY <1>1 DEF Ready, Ended, Ins
<1>6. ASSUME NEW n \in Main \cup Epilogs, NEW K, Placed(w, n, K)
      PROVE  Placed(w, n, K)'
  <2>1. CASE Inside(w, n, K)
    <3>1. n \in Main /\ at[w].block = n /\ at[w].i \in 1..(Len(code[n]) - 1)
      BY <2>1 DEF Inside
    <3>2. /\ Len(code[n]) \in Nat /\ code[n][Len(code[n]) - 1].op = "barrier"
          /\ \A i \in 1..Len(code[n]) - 2 : Allowed(code[n][i], LoadBufs(n), StoreBufs(n))
      BY <3>1, Here, OrderedParts
    <3>3. at[w].i = Len(code[n]) - 1 \/ at[w].i \in 1..Len(code[n]) - 2
      BY <3>1, <3>2
    <3>4. QED
      BY <1>5, <3>1, <3>2, <3>3 DEF Allowed
  <2>2. CASE Coming(w, n, K)
    <3>1. /\ at[w].block \in Main /\ lgkm[w] = << >>
          /\ n = Successor(at[w].block, More(K))
          /\ \/ at[w].i = Len(code[at[w].block]) /\ K = kIter[w] + Spc.tile_k
             \/ at[w].i = Len(code[at[w].block]) + 1 /\ K = kIter[w]
      BY <2>2 DEF Coming
    <3>2. Len(code[at[w].block]) \in Nat
      BY <3>1, Here, OrderedParts
    <3>3. at[w].i = Len(code[at[w].block]) /\ K = kIter[w] + Spc.tile_k
      BY <1>5, <3>1, <3>2
    <3>4. at'[w].i = Len(code[at'[w].block]) + 1 /\ K = kIter'[w]
      BY <1>2, <1>4, <3>3
    <3>5. Coming(w, n, K)'
      BY <1>1, <1>2, <3>1, <3>4 DEF Coming, More, Spc
    <3>6. QED
      BY <3>5 DEF Placed
  <2>3. CASE Leaving(w, n)
    <3>1. at[w].block \in {n, "store"} /\ n \in Epilogs
      BY <1>5, <2>3 DEF Leaving
    <3>2. Good(code[at[w].block], LoadBufs(at[w].block), {})
      BY <3>1, Here
    <3>3. Len(code[at[w].block]) \in Nat
      BY <3>2, EmptyOrNot DEF Good
    <3>4. Allowed(code[at[w].block][at[w].i], LoadBufs(at[w].block), {})
      BY <1>3, <1>5, <3>2, <3>3 DEF Good
    <3>5. QED
      BY <1>5, <3>4 DEF Allowed
  <2>4. QED
    BY <1>6, <2>1, <2>2, <2>3 DEF Placed
<1>7. QED
  BY <1>1, <1>2, <1>3, <1>4, <1>5, <1>6, OneMoves

\* Where blocks lead.
LEMMA Successors ==
  /\ \A more : \A b \in Main : Successor(b, more) \in Main \cup Epilogs
  /\ \A more : \A b \in Epilogs : Successor(b, more) = "store"
  /\ \A more : Successor("store", more) = "end"
<1>1. ASSUME NEW more PROVE Successor("prologue", more) \in Main \cup Epilogs
  BY DEF Successor, Main, Epilogs
<1>2. ASSUME NEW more PROVE Successor("A", more) \in Main \cup Epilogs
  BY DEF Successor, Main, Epilogs
<1>3. ASSUME NEW more PROVE Successor("B", more) \in Main \cup Epilogs
  BY DEF Successor, Main, Epilogs
<1>4. ASSUME NEW b \in Epilogs, NEW more PROVE Successor(b, more) = "store"
  BY DEF Successor, Epilogs
<1>5. ASSUME NEW more PROVE Successor("store", more) = "end"
  BY DEF Successor
<1>6. QED
  BY <1>1, <1>2, <1>3, <1>4, <1>5 DEF Main

\* A wave leaves a block for the phase it is coming to, or for the end.
LEMMA BranchInStep ==
  ASSUME InStep, NEW w \in Waves, BranchStep(w)
  PROVE  InStep'
<1>1. /\ at[w].block # "end" /\ at[w].i > Len(code[at[w].block])
      /\ at' = [at EXCEPT ![w] = [block |-> Successor(at[w].block, More(kIter[w])), i |-> 1]]
      /\ UNCHANGED <<problem, code, arrived, lgkm, kIter>>
  BY DEF BranchStep, kernel, Ended, More
<1>2. /\ at \in [Waves -> [block : Names, i : Nat \ {0}]]
      /\ DOMAIN lgkm = Waves /\ DOMAIN kIter = Waves
  BY DEF InStep
<1>3. at[w].block \in Names /\ at[w].i \in Nat \ {0} /\ IsSeq(lgkm[w])
  BY Here
<1>4. at[w].block \in Main => Len(code[at[w].block]) \in Nat /\ Len(code[at[w].block]) >= 2
  BY Here, OrderedParts
<1>5. w \notin arrived
  <2> SUFFICES ASSUME w \in arrived PROVE FALSE
    OBVIOUS
  <2>1. at[w].block \in Main /\ at[w].i = Len(code[at[w].block]) - 1
    BY DEF InStep
  <2>2. QED
    BY <1>1, <1>4, <2>1
<1>6. Successor(at[w].block, More(kIter[w])) \in Names
  BY <1>1, <1>3, Successors DEF Names
<1>7. PICK r : r = [block |-> Successor(at[w].block, More(kIter[w])), i |-> 1]
  OBVIOUS
<1>8. r \in [block : Names, i : Nat \ {0}]
  BY <1>6, <1>7
<1>9. /\ at' \in [Waves -> [block : Names, i : Nat \ {0}]]
      /\ at'[w].block = Successor(at[w].block, More(kIter[w])) /\ at'[w].i = 1
      /\ \A v \in Waves : v # w => at'[v] = at[v]
  <2>1. at' = [at EXCEPT ![w] = r]
    BY <1>1, <1>7
  <2>2. QED
    BY <1>2, <1>7, <1>8, <2>1
<1>10. ASSUME NEW n \in Main \cup Epilogs, NEW K, Placed(w, n, K)
       PROVE  Placed(w, n, K)'
  <2>1. CASE Inside(w, n, K)
    <3>1. n \in Main /\ at[w].block = n /\ at[w].i \in 1..(Len(code[n]) - 1)
      BY <2>1 DEF Inside
    <3>2. QED
      BY <1>1, <1>4, <3>1
  <2>2. CASE Coming(w, n, K)
    <3>1. /\ at[w].block \in Main /\ lgkm[w] = << >>
          /\ n = Successor(at[w].block, More(K))
          /\ \/ at[w].i = Len(code[at[w].block]) /\ K = kIter[w] + Spc.tile_k
             \/ at[w].i = Len(code[at[w].block]) + 1 /\ K = kIter[w]
      BY <2>2 DEF Coming
    <3>2. K = kIter[w]
      BY <1>1, <1>4, <3>1
    <3>3. at'[w].block = n /\ lgkm'[w] = << >> /\ kIter'[w] = K
      BY <1>1, <1>9, <3>1, <3>2
    <3>4. Len(lgkm'[w]) = 0
      BY <3>3
    <3>5. (\A j \in 1..Len(lgkm[w]) : Entry(lgkm[w][j], w, n))'
      BY <3>4
    <3>6. InFlight(w, n)'
      BY <3>3, <3>5 DEF InFlight
    <3>7. CASE n \in Main
      <4>1. Ordered(code[n], LoadBufs(n), StoreBufs(n))
        BY <3>7 DEF InStep, Phased
      <4>2. Len(code[n]) \in Nat /\ Len(code[n]) >= 2
        BY <4>1, OrderedParts
      <4>3. at'[w].i \in 1..(Len(code'[n]) - 1)
        BY <1>1, <1>9, <4>2
      <4>4. Inside(w, n, K)'
        BY <3>3, <3>6, <3>7, <4>3 DEF Inside
      <4>5. QED
        BY <4>4 DEF Placed
    <3>8. CASE n \in Epilogs
      <4>1. Leaving(w, n)'
        BY <3>3, <3>4, <3>8 DEF Leaving
      <4>2. QED
        BY <4>1 DEF Placed
    <3>9. QED
      BY <3>7, <3>8
  <2>3. CASE Leaving(w, n)
    <3>1. at'[w].block \in {"store", "end"}
      BY <1>1, <1>9, <2>3, Successors DEF Leaving
    <3>2. Leaving(w, n)'
      BY <1>1, <2>3, <3>1 DEF Leaving
    <3>3. QED
      BY <3>2 DEF Placed
  <2>4. QED
    BY <1>10, <2>1, <2>2, <2>3 DEF Placed
<1>11. QED
  BY <1>1, <1>2, <1>3, <1>5, <1>9, <1>10, OneMoves

\* A wave at a barrier is inside its block, in front of that barrier, and has
\* nothing in flight.
LEMMA AtBarrier ==
  ASSUME InStep, NEW w \in Waves, at[w].block \in Main,
         at[w].i = Len(code[at[w].block]) - 1,
         NEW n, NEW K, Placed(w, n, K)
  PROVE  Inside(w, n, K) /\ lgkm[w] = << >>
<1>1. /\ Len(code[at[w].block]) \in Nat
      /\ \A i \in 1..Len(code[at[w].block]) - 2 : code[at[w].block][i].op \in LdsOps =>
              \E j \in (i + 1)..Len(code[at[w].block]) - 2 : code[at[w].block][j] = LdsWait
  BY Here, OrderedParts
<1>2. Inside(w, n, K)
  <2>1. ~Coming(w, n, K)
    BY <1>1 DEF Coming
  <2>2. ~Leaving(w, n)
    BY DEF Leaving, Main, Epilogs
  <2>3. QED
    BY <2>1, <2>2 DEF Placed
<1>3. at[w].block = n /\ InFlight(w, n)
  BY <1>2 DEF Inside
<1>4. ASSUME lgkm[w] # << >> PROVE FALSE
  <2>1. PICK h \in 1..(at[w].i - 1) :
         /\ code[n][h].op \in LdsOps
         /\ \A m \in (h + 1)..(at[w].i - 1) : code[n][m] # LdsWait
    BY <1>3, <1>4 DEF InFlight
  <2>2. at[w].i - 1 = Len(code[n]) - 2
    BY <1>1, <1>3
  <2>3. QED
    BY <1>1, <1>3, <2>1, <2>2
<1>5. QED
  BY <1>2, <1>4

\* The oldest operation in flight lands.
LEMMA LandsInStep ==
  ASSUME InStep, NEW w \in Waves, NEW op, LdsLands(w, op)
  PROVE  InStep'
<1>1. /\ lgkm' = [lgkm EXCEPT ![w] = Tail(@)] /\ lgkm[w] # << >>
      /\ UNCHANGED <<problem, code, arrived, kIter, at>>
  BY DEF LdsLands, Lands, kernel
<1>2. at \in [Waves -> [block : Names, i : Nat \ {0}]]
  BY DEF InStep
<1>3. DOMAIN lgkm = Waves /\ DOMAIN kIter = Waves /\ IsSeq(lgkm[w]) /\ at[w].i \in Nat \ {0}
  BY Here DEF InStep
<1>4. PICK n \in Main \cup Epilogs : \E K : \A v \in Waves : Placed(v, n, K)
  BY DEF InStep
<1>5. PICK K : \A v \in Waves : Placed(v, n, K)
  BY <1>4
<1>6. Len(lgkm[w]) > 0
  BY <1>1, <1>3, EmptyOrNot
<1>7. w \notin arrived
  BY <1>1, <1>5, AtBarrier DEF InStep
<1>8. /\ DOMAIN lgkm' = Waves /\ lgkm'[w] = Tail(lgkm[w])
      /\ \A v \in Waves : v # w => lgkm'[v] = lgkm[v]
  BY <1>1, <1>3
<1>9. /\ IsSeq(lgkm'[w]) /\ Len(lgkm[w]) \in Nat /\ Len(lgkm'[w]) = Len(lgkm[w]) - 1
      /\ \A j \in 1..Len(lgkm[w]) - 1 : lgkm'[w][j] = lgkm[w][j + 1]
      /\ lgkm[w] # << >>
  BY <1>3, <1>6, <1>8, TailParts
<1>10. \A j \in 1..Len(lgkm'[w]) : \E k \in 1..Len(lgkm[w]) : lgkm'[w][j] = lgkm[w][k]
  <2> SUFFICES ASSUME NEW j \in 1..Len(lgkm'[w])
               PROVE  \E k \in 1..Len(lgkm[w]) : lgkm'[w][j] = lgkm[w][k]
    OBVIOUS
  <2>1. j \in 1..Len(lgkm[w]) - 1 /\ j + 1 \in 1..Len(lgkm[w])
    BY <1>9
  <2>2. QED
    BY <1>9, <2>1
<1>11. ASSUME NEW m \in Main \cup Epilogs, NEW L, Placed(w, m, L)
       PROVE  Placed(w, m, L)'
  <2>1. Inside(w, m, L) \/ Leaving(w, m)
    BY <1>1, <1>11 DEF Placed, Coming
  <2>2. CASE Inside(w, m, L)
    <3>1. /\ m \in Main /\ at[w].block = m /\ kIter[w] = L /\ InFlight(w, m)
      BY <2>2 DEF Inside
    <3>2. PICK q : q = lgkm'[w]
      OBVIOUS
    <3>3. \A j \in 1..Len(q) : Entry(q[j], w, m)
      BY <1>10, <3>1, <3>2 DEF InFlight
    <3>4. (\A j \in 1..Len(lgkm[w]) : Entry(lgkm[w][j], w, m))'
      BY <1>1, <3>2, <3>3 DEF Entry, Slice, Spc
    <3>5. \E h \in 1..(at[w].i - 1) :
             /\ code[m][h].op \in LdsOps
             /\ \A k \in (h + 1)..(at[w].i - 1) : code[m][k] # LdsWait
      BY <1>9, <3>1 DEF InFlight
    <3>6. InFlight(w, m)'
      BY <1>1, <3>4, <3>5 DEF InFlight
    <3>7. Inside(w, m, L)'
      BY <1>1, <2>2, <3>1, <3>6 DEF Inside
    <3>8. QED
      BY <3>7 DEF Placed
  <2>3. CASE Leaving(w, m)
    <3>1. Leaving(w, m)'
      BY <1>1, <1>10, <2>3 DEF Leaving
    <3>2. QED
      BY <3>1 DEF Placed
  <2>4. QED
    BY <2>1, <2>2, <2>3
<1>12. QED
  BY <1>1, <1>2, <1>3, <1>7, <1>8, <1>9, <1>11, OneMoves

\* A wave arrives at the barrier.
LEMMA BarrierInStep ==
  ASSUME InStep, NEW w \in Waves, BarrierStep(w)
  PROVE  InStep'
<1>1. /\ Ready(w, "barrier") /\ arrived' = arrived \cup {w}
      /\ UNCHANGED <<problem, code, at, lgkm, kIter>>
  BY DEF BarrierStep, kernel
<1>0. PICK n \in Main \cup Epilogs : \E K : \A v \in Waves : Placed(v, n, K)
  BY DEF InStep
<1>2. PICK K : \A v \in Waves : Placed(v, n, K)
  BY <1>0
<1>3. /\ at[w].block # "end" /\ at[w].i <= Len(code[at[w].block]) /\ at[w].i \in Nat \ {0}
      /\ code[at[w].block][at[w].i].op = "barrier"
  BY <1>1, Here DEF Ready, Ended, Ins
<1>4. Placed(w, n, K)
  BY <1>2
<1>5. at[w].block \in Main
  <2>1. CASE Leaving(w, n)
    <3>1. at[w].block \in {n, "store"} /\ n \in Epilogs
      BY <1>3, <2>1 DEF Leaving
    <3>2. Good(code[at[w].block], LoadBufs(at[w].block), {})
      BY <3>1, Here
    <3>3. Len(code[at[w].block]) \in Nat
      BY <3>2, EmptyOrNot DEF Good
    <3>4. Allowed(code[at[w].block][at[w].i], LoadBufs(at[w].block), {})
      BY <1>3, <3>2, <3>3 DEF Good
    <3>5. QED
      BY <1>3, <3>4 DEF Allowed
  <2>2. QED
    BY <1>4, <2>1 DEF Placed, Inside, Coming
<1>6. /\ Len(code[at[w].block]) \in Nat
      /\ code[at[w].block][Len(code[at[w].block])].op = "advance"
      /\ \A i \in 1..Len(code[at[w].block]) - 2 :
           Allowed(code[at[w].block][i], LoadBufs(at[w].block), StoreBufs(at[w].block))
  BY <1>5, Here, OrderedParts
<1>7. at[w].i = Len(code[at[w].block]) - 1
  <2>1. at[w].i # Len(code[at[w].block])
    BY <1>3, <1>6
  <2>2. ~(at[w].i \in 1..Len(code[at[w].block]) - 2)
    BY <1>3, <1>6 DEF Allowed
  <2>3. QED
    BY <1>3, <1>6, <2>1, <2>2
<1>8. Waves' = Waves
  BY <1>1 DEF Waves, Spc
<1>9. \A v \in Waves : Placed(v, n, K)'
  <2> SUFFICES ASSUME NEW v \in Waves PROVE Placed(v, n, K)'
    OBVIOUS
  <2>1. Placed(v, n, K)
    BY <1>2
  <2>2. QED
    BY <1>1, <2>1 DEF Placed, Inside, Coming, Leaving, InFlight, Entry, Slice, Spc, More
<1>10. \A v \in arrived' : v \in Waves /\ at'[v].block \in Main
                        /\ at'[v].i = Len(code'[at'[v].block]) - 1
  BY <1>1, <1>5, <1>7 DEF InStep
<1>11. /\ problem' \in Problems /\ Phased(code') /\ at' \in [Waves -> [block : Names, i : Nat \ {0}]]
       /\ DOMAIN lgkm' = Waves /\ DOMAIN kIter' = Waves
       /\ \A v \in Waves : IsSeq(lgkm'[v])
  BY <1>1 DEF InStep
<1>12. QED
  BY <1>8, <1>9, <1>10, <1>11 DEF InStep

\* When the barrier opens all the waves are there, and go on to the same phase.
LEMMA OpensInStep ==
  ASSUME InStep, BarrierOpens
  PROVE  InStep'
<1>1. /\ arrived # {} /\ arrived = {w \in Waves : at[w].block # "end"} /\ arrived' = {}
      /\ at' = [w \in Waves |-> IF w \in arrived THEN [at[w] EXCEPT !.i = @ + 1] ELSE at[w]]
      /\ UNCHANGED <<problem, code, lgkm, kIter>>
  BY DEF BarrierOpens, kernel, Ended
<1>0. PICK n \in Main \cup Epilogs : \E K : \A v \in Waves : Placed(v, n, K)
  BY DEF InStep
<1>2. PICK K : \A v \in Waves : Placed(v, n, K)
  BY <1>0
<1>3. n \in Main
  <2>1. PICK w \in Waves : w \in arrived
    BY <1>1
  <2>2. Inside(w, n, K)
    BY <1>2, <2>1, AtBarrier DEF InStep
  <2>3. QED
    BY <2>2 DEF Inside
<1>4. \A w \in Waves : at[w].block # "end"
  BY <1>2, <1>3 DEF Placed, Inside, Coming, Leaving, Main, Epilogs
<1>5. arrived = Waves
  BY <1>1, <1>4
<1>6. ASSUME NEW w \in Waves
      PROVE  /\ at[w].block = n /\ kIter[w] = K /\ lgkm[w] = << >>
             /\ at[w].i = Len(code[n]) - 1
  <2>1. at[w].block \in Main /\ at[w].i = Len(code[at[w].block]) - 1
    BY <1>5 DEF InStep
  <2>2. Inside(w, n, K) /\ lgkm[w] = << >>
    BY <1>2, <2>1, AtBarrier
  <2>3. QED
    BY <2>1, <2>2 DEF Inside
<1>7. Len(code[n]) \in Nat
  BY <1>3, OrderedParts DEF InStep, Phased
<1>8. ASSUME NEW w \in Waves
      PROVE  /\ at'[w] \in [block : Names, i : Nat \ {0}]
             /\ at'[w].block = n /\ at'[w].i = Len(code[n])
  <2>1. at[w] \in [block : Names, i : Nat \ {0}]
    BY DEF InStep
  <2>2. at'[w] = [at[w] EXCEPT !.i = @ + 1]
    BY <1>1, <1>5
  <2>3. at'[w] \in [block : Names, i : Nat \ {0}] /\ at'[w].block = at[w].block
        /\ at'[w].i = at[w].i + 1
    BY <2>1, <2>2
  <2>4. QED
    BY <1>6, <1>7, <2>3
<1>9. at' \in [Waves -> [block : Names, i : Nat \ {0}]]
  <2>1. DOMAIN at' = Waves /\ at' = [w \in Waves |-> at'[w]]
    BY <1>1
  <2>2. QED
    BY <1>8, <2>1
<1>10. PICK K2 : K2 = K + Spc.tile_k
  OBVIOUS
<1>11. PICK n2 \in Main \cup Epilogs : n2 = Successor(n, More(K2))
  BY <1>3, Successors
<1>12. Waves' = Waves
  BY <1>1 DEF Waves, Spc
<1>13. ASSUME NEW w \in Waves PROVE Placed(w, n2, K2)'
  <2>1. Coming(w, n2, K2)'
    BY <1>1, <1>3, <1>6, <1>8, <1>10, <1>11 DEF Coming, More, Spc
  <2>2. QED
    BY <2>1 DEF Placed
<1>14. /\ problem' \in Problems /\ Phased(code')
       /\ DOMAIN lgkm' = Waves /\ DOMAIN kIter' = Waves
       /\ \A v \in Waves : IsSeq(lgkm'[v])
  BY <1>1 DEF InStep
<1>15. \A w \in arrived' : w \in Waves /\ at'[w].block \in Main
                        /\ at'[w].i = Len(code'[at'[w].block]) - 1
  BY <1>1
<1>16. QED
  BY <1>9, <1>12, <1>13, <1>14, <1>15 DEF InStep

\* Numbers of a kernel.
LEMMA DivLemma ==
  ASSUME NEW a \in Nat, NEW b \in Nat \ {0}
  PROVE  a \div b \in Nat /\ (a >= b => a \div b >= 1)
  OBVIOUS

\* No two waves store to the same slice of a tile.
LEMMA SlicesApart ==
  ASSUME NEW n \in Nat, NEW v \in 0..(n - 1), NEW w \in 0..(n - 1),
         NEW i \in Nat, NEW j \in Nat, i * n + v = j * n + w
  PROVE  v = w
<1>1. ASSUME NEW a \in Nat, NEW b \in Nat, a < b, NEW r \in 0..(n - 1)
      PROVE  a * n + r < b * n
  <2>1. PICK d \in Nat : b = a + 1 + d
    <3>1. b - a - 1 \in Nat /\ b = a + 1 + (b - a - 1)
      BY <1>1
    <3>2. QED
      BY <3>1
  <2>2. b * n = a * n + n + d * n
    BY <2>1
  <2>3. d * n \in Nat /\ a * n \in Nat /\ b * n \in Nat
    BY <2>1
  <2>4. QED
    BY <2>2, <2>3
<1>2. i * n \in Nat /\ j * n \in Nat
  OBVIOUS
<1>3. ~(i < j) /\ ~(j < i)
  BY <1>1, <1>2
<1>4. i = j
  BY <1>3
<1>5. QED
  BY <1>2, <1>4

\* Waves in step do not race: a store in flight is from a wave inside the phase; what
\* another has in flight is of the same phase, so it loads from the other buffer or
\* stores to a slice of its own.
LEMMA NoRaceInPhase ==
  ASSUME InStep
  PROVE  NoLdsRace
<1>0. PICK n \in Main \cup Epilogs : \E K : \A v \in Waves : Placed(v, n, K)
  BY DEF InStep
<1>1. PICK K : \A v \in Waves : Placed(v, n, K)
  BY <1>0
<1>2. NWaves(Spc) \in Nat
  <2>1. problem.spec.wg_size \in Nat \ {0}
    BY ProblemsAssumption DEF InStep
  <2>2. QED
    BY <2>1 DEF NWaves, Spc
<1>3. SUFFICES ASSUME NEW w1 \in Waves, NEW w2 \in Waves, w1 # w2,
                      NEW i \in DOMAIN lgkm[w1], NEW j \in DOMAIN lgkm[w2],
                      lgkm[w1][i].op = "ds_store"
               PROVE  Touches(w1, lgkm[w1][i]) \cap Touches(w2, lgkm[w2][j]) = {}
  BY DEF NoLdsRace
<1>4. /\ IsSeq(lgkm[w1]) /\ IsSeq(lgkm[w2])
      /\ DOMAIN lgkm[w1] = 1..Len(lgkm[w1]) /\ DOMAIN lgkm[w2] = 1..Len(lgkm[w2])
  BY DEF InStep, IsSeq
<1>5. lgkm[w1] # << >> /\ lgkm[w2] # << >>
  BY <1>3, <1>4, EmptyOrNot
<1>6. Inside(w1, n, K)
  BY <1>1, <1>3, <1>4, <1>5 DEF Placed, Coming, Leaving
<1>7. Inside(w2, n, K)
  BY <1>1, <1>5, <1>6 DEF Placed, Coming, Leaving, Inside, Main, Epilogs
<1>8. PICK o : o = lgkm[w1][i]
  OBVIOUS
<1>9. PICK x : x = lgkm[w2][j]
  OBVIOUS
<1>10. Entry(o, w1, n) /\ Entry(x, w2, n) /\ o.op = "ds_store"
  BY <1>3, <1>4, <1>6, <1>7, <1>8, <1>9 DEF Inside, InFlight
<1>11. PICK a \in Nat, mat \in {"X", "WT"} : o.buf \in StoreBufs(n) /\ o.src = <<mat, a>> /\ o.slice = Slice(w1, a)
  BY <1>10 DEF Entry
<1>12. Touches(w1, o) = {<<o.buf, mat, Slice(w1, a)>>}
  <2>1. Touches(w1, o) = {<<o.buf, o.src[1], o.slice>>}
    BY <1>10 DEF Touches
  <2>2. QED
    BY <1>11, <2>1
<1>13. CASE x.op = "ds_store"
  <2>1. PICK b \in Nat, mat2 \in {"X", "WT"} : x.buf \in StoreBufs(n) /\ x.src = <<mat2, b>> /\ x.slice = Slice(w2, b)
    BY <1>10, <1>13 DEF Entry
  <2>2. Touches(w2, x) = {<<x.buf, mat2, Slice(w2, b)>>}
    <3>1. Touches(w2, x) = {<<x.buf, x.src[1], x.slice>>}
      BY <1>13 DEF Touches
    <3>2. QED
      BY <2>1, <3>1
  <2>3. Slice(w1, a) # Slice(w2, b)
    <3>1. PICK m \in Nat : m = NWaves(Spc)
      BY <1>2
    <3>2. w1 \in 0..(m - 1) /\ w2 \in 0..(m - 1)
      BY <3>1 DEF Waves
    <3>3. Slice(w1, a) = a * m + w1 /\ Slice(w2, b) = b * m + w2
      BY <3>1 DEF Slice
    <3>4. QED
      BY <1>3, <3>2, <3>3, SlicesApart
  <2>4. QED
    BY <1>8, <1>9, <1>12, <2>2, <2>3
<1>14. CASE x.op = "ds_load"
  <2>1. x.buf \in LoadBufs(n) /\ o.buf # x.buf
    BY <1>10, <1>11, <1>14, BuffersDiffer DEF Entry
  <2>2. Touches(w2, x) = {<<x.buf, x.mat, g>> : g \in SlicesOf(w2, x)}
    BY <1>14 DEF Touches
  <2>3. QED
    BY <1>8, <1>9, <1>12, <2>1, <2>2
<1>15. CASE x.op \notin {"ds_store", "ds_load"}
  <2>1. Touches(w2, x) = {}
    BY <1>15 DEF Touches
  <2>2. QED
    BY <1>9, <2>1
<1>16. QED
  BY <1>13, <1>14, <1>15

\* A step that moves no wave.
LEMMA NoneMoves ==
  ASSUME InStep, UNCHANGED <<problem, code, arrived, lgkm, kIter, at>>
  PROVE  InStep'
<1>0. PICK n \in Main \cup Epilogs : \E K : \A v \in Waves : Placed(v, n, K)
  BY DEF InStep
<1>1. PICK K : \A v \in Waves : Placed(v, n, K)
  BY <1>0
<1>2. Waves' = Waves
  BY DEF Waves, Spc
<1>3. \A v \in Waves : Placed(v, n, K)'
  <2> SUFFICES ASSUME NEW v \in Waves PROVE Placed(v, n, K)'
    OBVIOUS
  <2>1. Placed(v, n, K)
    BY <1>1
  <2>2. QED
    BY <2>1 DEF Placed, Inside, Coming, Leaving, InFlight, Entry, Slice, Spc, More
<1>4. QED
  BY <1>2, <1>3 DEF InStep

\* Every step of the workgroup keeps it in step.
LEMMA NextInStep ==
  ASSUME InStep, [Next]_vars
  PROVE  InStep'
<1>1. ASSUME NEW w \in Waves, BufferLoadStep(w) PROVE InStep'
  <2>1. /\ Ready(w, "buffer_load") /\ Step(w)
        /\ UNCHANGED <<problem, code, arrived, lgkm, kIter>>
    BY <1>1 DEF BufferLoadStep, kernel
  <2>2. Ins(w).op = "buffer_load" /\ LdsWait.op = "wait"
    BY <2>1 DEF Ready, LdsWait, Wait
  <2>3. QED
    BY <2>1, <2>2, QuietInStep
<1>2. ASSUME NEW w \in Waves, WaitStep(w) PROVE InStep'
  <2>1. /\ Ready(w, "wait") /\ Step(w) /\ Len(Queue(w)) <= Ins(w).n
        /\ UNCHANGED <<problem, code, arrived, lgkm, kIter>>
    BY <1>2 DEF WaitStep, kernel
  <2>2. ASSUME Ins(w) = LdsWait PROVE lgkm[w] = << >>
    <3>1. Ins(w).counter = "lgkm" /\ Ins(w).n = 0
      BY <2>2 DEF LdsWait, Wait
    <3>2. Len(lgkm[w]) <= 0
      BY <2>1, <3>1 DEF Queue
    <3>3. IsSeq(lgkm[w])
      BY DEF InStep
    <3>4. QED
      BY <3>2, <3>3, EmptyOrNot
  <2>3. QED
    BY <2>1, <2>2, QuietInStep
<1>3. ASSUME NEW w \in Waves, BufferLoadLands(w) PROVE InStep'
  <2>1. UNCHANGED <<problem, code, arrived, lgkm, kIter, at>>
    BY <1>3 DEF BufferLoadLands, kernel
  <2>2. QED
    BY <2>1, NoneMoves
<1>4. ASSUME NEW w \in Waves, WmmaStep(w) PROVE InStep'
  <2>1. /\ Ready(w, "wmma") /\ Step(w)
        /\ UNCHANGED <<problem, code, arrived, lgkm, kIter>>
    BY <1>4 DEF WmmaStep, kernel
  <2>2. Ins(w).op = "wmma" /\ LdsWait.op = "wait"
    BY <2>1 DEF Ready, LdsWait, Wait
  <2>3. QED
    BY <2>1, <2>2, QuietInStep
<1>5. ASSUME NEW w \in Waves, MoveTempStep(w) PROVE InStep'
  <2>1. /\ Ready(w, "move_temp") /\ Step(w)
        /\ UNCHANGED <<problem, code, arrived, lgkm, kIter>>
    BY <1>5 DEF MoveTempStep, kernel
  <2>2. Ins(w).op = "move_temp" /\ LdsWait.op = "wait"
    BY <2>1 DEF Ready, LdsWait, Wait
  <2>3. QED
    BY <2>1, <2>2, QuietInStep
<1>6. ASSUME NEW w \in Waves, YStoreStep(w) PROVE InStep'
  <2>1. /\ Ready(w, "y_store") /\ Step(w)
        /\ UNCHANGED <<problem, code, arrived, lgkm, kIter>>
    BY <1>6 DEF YStoreStep, kernel
  <2>2. Ins(w).op = "y_store" /\ LdsWait.op = "wait"
    BY <2>1 DEF Ready, LdsWait, Wait
  <2>3. QED
    BY <2>1, <2>2, QuietInStep
<1>7. ASSUME NEW w \in Waves,
             DsStoreLands(w) \/ DsLoadLands(w) \/ SwapOutLands(w) \/ SwapInLands(w)
      PROVE  InStep'
  <2>1. \E op : LdsLands(w, op)
    BY <1>7 DEF DsStoreLands, DsLoadLands, SwapOutLands, SwapInLands
  <2>2. QED
    BY <2>1, LandsInStep
<1>8. CASE AllEnded \/ UNCHANGED vars
  <2>1. UNCHANGED <<problem, code, arrived, lgkm, kIter, at>>
    BY <1>8 DEF AllEnded, vars
  <2>2. QED
    BY <2>1, NoneMoves
<1>9. QED
  BY <1>1, <1>2, <1>3, <1>4, <1>5, <1>6, <1>7, <1>8, LdsStepInStep, AdvanceInStep,
     BranchInStep, BarrierInStep, OpensInStep DEF Next, WaveStep

-----------------------------------------------------------------------------
(* Lists of instructions put together. *)

\* FlattenSeq's recursion, and that it has a solution.
Flats(s, n, f) == f = [i \in 1..n |-> IF i = 1 THEN s[i] ELSE f[i - 1] \o s[i]]

LEMMA FlatsExists ==
  ASSUME NEW s, NEW n \in Nat
  PROVE  \E f : Flats(s, n, f)
<1> DEFINE T == {m \in Nat : \E f : Flats(s, m, f)}
<1>1. 0 \in T
  <2>1. PICK f : f = [i \in 1..0 |-> IF i = 1 THEN s[i] ELSE f[i - 1] \o s[i]]
    <3>1. \A g, h : [i \in 1..0 |-> IF i = 1 THEN s[i] ELSE g[i - 1] \o s[i]]
                  = [i \in 1..0 |-> IF i = 1 THEN s[i] ELSE h[i - 1] \o s[i]]
      OBVIOUS
    <3>2. PICK g : g = [i \in 1..0 |-> IF i = 1 THEN s[i] ELSE s[i - 1] \o s[i]]
      OBVIOUS
    <3>3. g = [i \in 1..0 |-> IF i = 1 THEN s[i] ELSE g[i - 1] \o s[i]]
      BY <3>1, <3>2
    <3>4. QED
      BY <3>3
  <2>2. QED
    BY <2>1 DEF Flats
<1>2. ASSUME NEW m \in T PROVE m + 1 \in T
  <2>1. PICK f : f = [i \in 1..m |-> IF i = 1 THEN s[i] ELSE f[i - 1] \o s[i]]
    BY DEF Flats
  <2>2. m \in Nat
    OBVIOUS
  <2>3. PICK last : last = IF m + 1 = 1 THEN s[m + 1] ELSE f[m] \o s[m + 1]
    OBVIOUS
  <2>4. PICK g : g = [i \in 1..(m + 1) |-> IF i = m + 1 THEN last ELSE f[i]]
    OBVIOUS
  <2>5. ASSUME NEW i \in 1..(m + 1)
        PROVE  g[i] = IF i = 1 THEN s[i] ELSE g[i - 1] \o s[i]
    <3>1. CASE i = m + 1
      <4>1. g[i] = last
        BY <2>4, <3>1
      <4>2. CASE m = 0
        BY <2>3, <3>1, <4>1, <4>2
      <4>3. CASE m # 0
        <5>1. i # 1 /\ i - 1 = m /\ m \in 1..(m + 1) /\ m # m + 1
          BY <2>2, <3>1, <4>3
        <5>2. g[i - 1] = f[m]
          BY <2>4, <5>1
        <5>3. last = f[m] \o s[m + 1]
          <6>1. m + 1 # 1
            BY <2>2, <4>3
          <6>2. QED
            BY <2>3, <6>1
        <5>4. QED
          BY <3>1, <4>1, <5>1, <5>2, <5>3
      <4>4. QED
        BY <4>2, <4>3
    <3>2. CASE i # m + 1
      <4>1. i \in 1..m /\ g[i] = f[i]
        BY <2>2, <2>4, <3>2
      <4>2. f[i] = IF i = 1 THEN s[i] ELSE f[i - 1] \o s[i]
        BY <2>1, <4>1
      <4>3. i # 1 => i - 1 \in 1..(m + 1) /\ i - 1 # m + 1
        BY <2>2, <4>1
      <4>4. i # 1 => g[i - 1] = f[i - 1]
        BY <2>4, <4>3
      <4>5. QED
        BY <4>1, <4>2, <4>4
    <3>3. QED
      BY <3>1, <3>2
  <2>6. g = [i \in 1..(m + 1) |-> IF i = 1 THEN s[i] ELSE g[i - 1] \o s[i]]
    <3>1. PICK h : h = [i \in 1..(m + 1) |-> IF i = 1 THEN s[i] ELSE g[i - 1] \o s[i]]
      OBVIOUS
    <3>2. \A i \in 1..(m + 1) : h[i] = g[i]
      BY <2>5, <3>1
    <3>3. g = [i \in 1..(m + 1) |-> g[i]] /\ h = [i \in 1..(m + 1) |-> h[i]]
      BY <2>4, <3>1
    <3>4. QED
      BY <3>1, <3>2, <3>3
  <2>7. QED
    <3>1. Flats(s, m + 1, g)
      BY <2>6 DEF Flats
    <3>2. QED
      BY <2>2, <3>1
<1> HIDE DEF T
<1>3. T \in SUBSET Nat
  BY DEF T
<1>4. n \in T
  BY <1>1, <1>2, <1>3, Induction
<1>5. QED
  BY <1>4 DEF T

\* FlattenSeq, prefix by prefix.
LEMMA Flattened ==
  ASSUME NEW s, NEW n \in Nat, n = Len(s)
  PROVE  /\ n = 0 => FlattenSeq(s) = s
         /\ n > 0 => \E f : /\ FlattenSeq(s) = f[n] /\ f[1] = s[1]
                            /\ \A i \in 2..n : f[i] = f[i - 1] \o s[i]
<1>1. n = 0 => FlattenSeq(s) = s
  BY DEF FlattenSeq
<1>2. ASSUME n > 0
      PROVE  \E f : /\ FlattenSeq(s) = f[n] /\ f[1] = s[1]
                    /\ \A i \in 2..n : f[i] = f[i - 1] \o s[i]
  <2>1. PICK f : f = CHOOSE g : g = [i \in 1..Len(s) |-> IF i = 1 THEN s[i] ELSE g[i - 1] \o s[i]]
    OBVIOUS
  <2>2. FlattenSeq(s) = f[n]
    BY <1>2, <2>1 DEF FlattenSeq
  <2>3. \E g : g = [i \in 1..Len(s) |-> IF i = 1 THEN s[i] ELSE g[i - 1] \o s[i]]
    BY FlatsExists DEF Flats
  <2>4. f = [i \in 1..n |-> IF i = 1 THEN s[i] ELSE f[i - 1] \o s[i]]
    BY <2>1, <2>3
  <2>5. f[1] = s[1]
    BY <1>2, <2>4
  <2>6. \A i \in 2..n : f[i] = f[i - 1] \o s[i]
    <3> SUFFICES ASSUME NEW i \in 2..n PROVE f[i] = f[i - 1] \o s[i]
      OBVIOUS
    <3>1. i \in 1..n /\ i # 1
      BY <1>2
    <3>2. f[i] = IF i = 1 THEN s[i] ELSE f[i - 1] \o s[i]
      BY <2>4, <3>1
    <3>3. QED
      BY <3>1, <3>2
  <2>7. QED
    BY <2>2, <2>5, <2>6
<1>3. QED
  BY <1>1, <1>2

\* A function over 1..n is a list of n elements.
LEMMA ListIn ==
  ASSUME NEW n \in Nat, NEW S, NEW f \in [1..n -> S]
  PROVE  IsSeq(f) /\ Len(f) = n /\ (n = 0 => f = << >>)
<1>1. f \in Seq(S)
  BY SeqDef
<1>2. DOMAIN f = 1..n /\ DOMAIN f = 1..Len(f) /\ Len(f) \in Nat
  BY <1>1
<1>3. Len(f) = n
  <2>1. \A i \in Nat : i \in 1..n <=> i \in 1..Len(f)
    BY <1>2
  <2>2. n > 0 => n <= Len(f)
    BY <1>2, <2>1
  <2>3. Len(f) > 0 => Len(f) <= n
    BY <1>2, <2>1
  <2>4. QED
    BY <1>2, <2>2, <2>3
<1>4. IsSeq(f)
  BY <1>1 DEF IsSeq
<1>5. QED
  BY <1>3, <1>4, EmptyOrNot

LEMMA ListOf ==
  ASSUME NEW n \in Nat, NEW f, NEW g, f = [i \in 1..n |-> g[i]]
  PROVE  IsSeq(f) /\ Len(f) = n /\ (n = 0 => f = << >>)
<1>1. f \in [1..n -> {g[i] : i \in 1..n}]
  OBVIOUS
<1>2. PICK S : f \in [1..n -> S]
  BY <1>1
<1>3. QED
  BY <1>2, ListIn

\* What is in a list.
Elements(q) == {q[k] : k \in 1..Len(q)}

\* A list is one of its own elements.
LEMMA ElementsLemma ==
  ASSUME NEW q, IsSeq(q)
  PROVE  q \in Seq(Elements(q)) /\ Len(q) \in Nat
<1>1. PICK S : q \in Seq(S)
  BY DEF IsSeq
<1>2. Len(q) \in Nat /\ q \in [1..Len(q) -> S]
  BY <1>1
<1>3. PICK n \in Nat : n = Len(q)
  BY <1>2
<1>4. \A k \in 1..n : q[k] \in Elements(q)
  BY <1>3 DEF Elements
<1>5. q \in [1..n -> Elements(q)]
  BY <1>2, <1>3, <1>4
<1>6. QED
  BY <1>3, <1>5, SeqDef

\* Putting lists over S together gives a list over S.
LEMMA FlattenIn ==
  ASSUME NEW S, NEW n \in Nat, NEW g, Len(g) = n, n = 0 => g = << >>,
         \A i \in 1..n : g[i] \in Seq(S)
  PROVE  FlattenSeq(g) \in Seq(S)
<1>1. CASE n = 0
  <2>1. FlattenSeq(g) = << >>
    BY <1>1, Flattened
  <2>2. QED
    BY <2>1
<1>2. CASE n > 0
  <2>1. PICK f : /\ FlattenSeq(g) = f[n] /\ f[1] = g[1]
                 /\ \A i \in 2..n : f[i] = f[i - 1] \o g[i]
    BY <1>2, Flattened
  <2> DEFINE T == {i \in Nat : i + 1 \in 1..n => f[i + 1] \in Seq(S)}
  <2>2. 0 \in T
    BY <1>2, <2>1
  <2>3. ASSUME NEW i \in T PROVE i + 1 \in T
    <3>1. i \in Nat /\ (i + 1 \in 1..n => f[i + 1] \in Seq(S))
      OBVIOUS
    <3>2. ASSUME i + 2 \in 1..n PROVE f[i + 2] \in Seq(S)
      <4>1. i + 2 \in 2..n /\ i + 1 \in 1..n /\ (i + 2) - 1 = i + 1
        BY <3>1, <3>2
      <4>2. f[i + 2] = f[i + 1] \o g[i + 2]
        BY <2>1, <4>1
      <4>3. QED
        BY <3>1, <3>2, <4>1, <4>2
    <3>3. (i + 1) + 1 = i + 2
      BY <3>1
    <3>4. QED
      BY <3>1, <3>2, <3>3
  <2>4. T \in SUBSET Nat
    OBVIOUS
  <2> HIDE DEF T
  <2>5. n - 1 \in T
    <3>1. \A i \in Nat : i \in T
      BY <2>2, <2>3, <2>4, Induction
    <3>2. n - 1 \in Nat
      BY <1>2
    <3>3. QED
      BY <3>1, <3>2
  <2>6. f[n] \in Seq(S)
    <3>1. (n - 1) + 1 = n /\ n \in 1..n
      BY <1>2
    <3>2. QED
      BY <2>5, <3>1 DEF T
  <2>7. QED
    BY <2>1, <2>6
<1>3. QED
  BY <1>1, <1>2

\* A list whose elements are allowed is good, and the other way round.
LEMMA GoodSeq ==
  ASSUME NEW q, NEW S, q \in Seq(S), NEW L, NEW W, \A x \in S : Allowed(x, L, W)
  PROVE  Good(q, L, W)
<1>1. \A i \in 1..Len(q) : q[i] \in S
  OBVIOUS
<1>2. QED
  BY <1>1 DEF Good, IsSeq

LEMMA GoodElements ==
  ASSUME NEW q, NEW L, NEW W, Good(q, L, W)
  PROVE  q \in Seq(Elements(q)) /\ \A x \in Elements(q) : Allowed(x, L, W)
BY ElementsLemma DEF Good, Elements

\* Good lists put together are good.
LEMMA GoodConcat ==
  ASSUME NEW p, NEW q, NEW L, NEW W, Good(p, L, W), Good(q, L, W)
  PROVE  Good(p \o q, L, W)
<1>1. p \in Seq(Elements(p) \cup Elements(q)) /\ q \in Seq(Elements(p) \cup Elements(q))
  BY GoodElements
<1>2. p \o q \in Seq(Elements(p) \cup Elements(q))
  BY <1>1
<1>3. \A x \in Elements(p) \cup Elements(q) : Allowed(x, L, W)
  BY GoodElements
<1>4. QED
  BY <1>2, <1>3, GoodSeq

LEMMA GoodFlatten ==
  ASSUME NEW n \in Nat, NEW g, g = [i \in 1..n |-> g[i]], NEW L, NEW W,
         \A i \in 1..n : Good(g[i], L, W)
  PROVE  Good(FlattenSeq(g), L, W)
<1> DEFINE S == UNION {Elements(g[i]) : i \in 1..n}
<1>1. \A x \in S : Allowed(x, L, W)
  BY GoodElements
<1>2. \A i \in 1..n : g[i] \in Seq(S)
  <2> SUFFICES ASSUME NEW i \in 1..n PROVE g[i] \in Seq(S)
    OBVIOUS
  <2>1. g[i] \in Seq(Elements(g[i])) /\ Elements(g[i]) \subseteq S
    BY GoodElements
  <2> HIDE DEF S
  <2>2. QED
    BY <2>1
<1>3. IsSeq(g) /\ Len(g) = n /\ (n = 0 => g = << >>)
  BY ListOf
<1> HIDE DEF S
<1>4. FlattenSeq(g) \in Seq(S)
  BY <1>2, <1>3, FlattenIn
<1>5. QED
  BY <1>1, <1>4, GoodSeq

\* Short lists.
LEMMA GoodEmpty ==
  ASSUME NEW L, NEW W PROVE Good(<< >>, L, W)
<1> DEFINE S == {}
<1>1. << >> \in Seq(S) /\ \A z \in S : Allowed(z, L, W)
  OBVIOUS
<1> HIDE DEF S
<1>2. QED
  BY <1>1, GoodSeq

LEMMA GoodOne ==
  ASSUME NEW x, NEW L, NEW W, Allowed(x, L, W) PROVE Good(<<x>>, L, W)
<1> DEFINE S == {x}
<1>1. <<x>> \in Seq(S) /\ \A z \in S : Allowed(z, L, W)
  OBVIOUS
<1> HIDE DEF S
<1>2. QED
  BY <1>1, GoodSeq

LEMMA GoodTwo ==
  ASSUME NEW x, NEW v, NEW L, NEW W, Allowed(x, L, W), Allowed(v, L, W)
  PROVE  Good(<<x, v>>, L, W)
<1> DEFINE S == {x, v}
<1>1. <<x, v>> \in Seq(S) /\ \A z \in S : Allowed(z, L, W)
  OBVIOUS
<1> HIDE DEF S
<1>2. QED
  BY <1>1, GoodSeq

LEMMA GoodWhen ==
  ASSUME NEW c, NEW q, NEW L, NEW W, c => Good(q, L, W)
  PROVE  Good(When(c, q), L, W)
BY GoodEmpty DEF When

-----------------------------------------------------------------------------
(* What the generators emit. *)

\* Which instructions are allowed: LDS operations by their buffer, waits by their count.
LEMMA Instructions ==
  ASSUME NEW L, NEW W
  PROVE  /\ \A mat, i : Allowed(BufferLoad(mat, i), L, W)
         /\ \A mat \in {"X", "WT"}, i \in Nat, u \in W : Allowed(DsStore(mat, i, u), L, W)
         /\ \A r, mat, b, ks, h : \A u \in L : Allowed(DsLoad(r, u, mat, b, ks, h), L, W)
         /\ \A a, x, v : Allowed(Wmma(a, x, v), L, W)
         /\ \A c \in {"vm", "lgkm"}, n \in Nat : Allowed(Wait(c, n), L, W)
         /\ \A r, a : Allowed(YStore(r, a), L, W)
         /\ \A c : Allowed(SwapOut(c), L, W) /\ Allowed(SwapIn(c), L, W) /\ Allowed(MoveTemp(c), L, W)
<1>1. ASSUME NEW mat, NEW i PROVE Allowed(BufferLoad(mat, i), L, W)
  BY DEF Allowed, BufferLoad
<1>2. ASSUME NEW mat \in {"X", "WT"}, NEW i \in Nat, NEW u \in W PROVE Allowed(DsStore(mat, i, u), L, W)
  <2>1. DsStore(mat, i, u).op = "ds_store"
    BY DEF DsStore
  <2>2. QED
    BY <2>1 DEF Allowed
<1>3. ASSUME NEW r, NEW mat, NEW b, NEW ks, NEW h, NEW u \in L
      PROVE  Allowed(DsLoad(r, u, mat, b, ks, h), L, W)
  <2>1. DsLoad(r, u, mat, b, ks, h).op = "ds_load"
    BY DEF DsLoad
  <2>2. QED
    BY <2>1 DEF Allowed
<1>4. ASSUME NEW a, NEW x, NEW v PROVE Allowed(Wmma(a, x, v), L, W)
  BY DEF Allowed, Wmma
<1>5. ASSUME NEW c \in {"vm", "lgkm"}, NEW n \in Nat PROVE Allowed(Wait(c, n), L, W)
  <2>1. Wait(c, n).op = "wait"
    BY DEF Wait
  <2>2. QED
    BY <2>1 DEF Allowed
<1>6. ASSUME NEW r, NEW a PROVE Allowed(YStore(r, a), L, W)
  BY DEF Allowed, YStore
<1>7. ASSUME NEW c
      PROVE  Allowed(SwapOut(c), L, W) /\ Allowed(SwapIn(c), L, W) /\ Allowed(MoveTemp(c), L, W)
  <2>1. SwapOut(c).op = "swap_out" /\ SwapIn(c).op = "swap_in" /\ MoveTemp(c).op = "move_temp"
    BY DEF SwapOut, SwapIn, MoveTemp
  <2>2. QED
    BY <2>1 DEF Allowed
<1>8. QED
  BY <1>1, <1>2, <1>3, <1>4, <1>5, <1>6, <1>7

\* The counts a generator repeats its instructions by.
Sized(s) ==
  /\ LoadsPerThread(s, "X") \in Nat /\ LoadsPerThread(s, "WT") \in Nat
  /\ NRowBlocks(s) \in Nat /\ NColTiles(s) \in Nat /\ KSubSteps(s) \in Nat
  /\ s.gen = "gemm_gen" => NRowBlocks(s) >= 1

\* What each part of a generator emits, for any specification, loads only from the
\* buffer it is given to load from.
LEMMA FragmentLoadsGood ==
  ASSUME NEW L, NEW W, NEW r, NEW u \in L, NEW mat, NEW b, NEW ks
  PROVE  Good(FragmentLoads(r, u, mat, b, ks), L, W)
BY Instructions, GoodTwo DEF FragmentLoads

\* The loads of the next tile touch no LDS.
LEMMA CoopLoadGood ==
  ASSUME NEW s, Sized(s), NEW L, NEW W
  PROVE  Good(CoopLoad(s), L, W)
<1> DEFINE x == [i \in 1..LoadsPerThread(s, "X") |-> <<BufferLoad("X", i - 1)>>]
<1> DEFINE v == [i \in 1..LoadsPerThread(s, "WT") |-> <<BufferLoad("WT", i - 1)>>]
<1>1. /\ \A i \in 1..LoadsPerThread(s, "X") : Good(x[i], L, W)
      /\ \A i \in 1..LoadsPerThread(s, "WT") : Good(v[i], L, W)
  BY Instructions, GoodOne
<1>2. CoopLoad(s) = FlattenSeq(x) \o FlattenSeq(v)
  BY DEF CoopLoad, Each
<1>3. /\ x = [i \in 1..LoadsPerThread(s, "X") |-> x[i]]
      /\ v = [i \in 1..LoadsPerThread(s, "WT") |-> v[i]]
  OBVIOUS
<1> HIDE DEF x, v
<1>4. Good(FlattenSeq(x), L, W) /\ Good(FlattenSeq(v), L, W)
  BY <1>1, <1>3, GoodFlatten DEF Sized
<1>5. QED
  BY <1>2, <1>4, GoodConcat

\* The stores of the next tile go to the buffer they are given, and their waits count:
\* as many loads are outstanding as there are stores left.
LEMMA StoreGraduatedGood ==
  ASSUME NEW s, Sized(s), NEW mat \in {"X", "WT"}, NEW W, NEW u \in W, NEW L,
         NEW out \in Nat, LoadsPerThread(s, mat) <= out
  PROVE  Good(StoreGraduated(s, mat, u, out), L, W)
<1> DEFINE n == LoadsPerThread(s, mat)
<1> DEFINE x == [i \in 1..n |-> <<Wait("vm", out - 1 - (i - 1)), DsStore(mat, i - 1, u)>>]
<1>1. n \in Nat
  BY DEF Sized
<1>2. StoreGraduated(s, mat, u, out) = FlattenSeq(x)
  BY DEF StoreGraduated, Each
<1>3. x = [i \in 1..n |-> x[i]]
  OBVIOUS
<1>4. \A i \in 1..n : Good(x[i], L, W)
  <2> SUFFICES ASSUME NEW i \in 1..n PROVE Good(x[i], L, W)
    OBVIOUS
  <2>1. PICK j \in Nat : j = i - 1
    BY <1>1
  <2>2. PICK k \in Nat : k = out - 1 - (i - 1)
    BY <1>1
  <2>3. x[i] = <<Wait("vm", k), DsStore(mat, j, u)>>
    BY <2>1, <2>2
  <2> HIDE DEF x
  <2>4. QED
    BY <2>3, Instructions, GoodTwo
<1> HIDE DEF x, n
<1>5. QED
  BY <1>1, <1>2, <1>3, <1>4, GoodFlatten

LEMMA LdsStoresGood ==
  ASSUME NEW s, Sized(s), NEW W, NEW u \in W, NEW L
  PROVE  Good(LdsStores(s, u), L, W)
<1> DEFINE a == LoadsPerThread(s, "X")
           b == LoadsPerThread(s, "WT")
           x == [i \in 1..a |-> <<DsStore("X", i - 1, u)>>]
           v == [i \in 1..b |-> <<DsStore("WT", i - 1, u)>>]
<1>1. a \in Nat /\ b \in Nat
  BY DEF Sized
<1>2. CASE s.gen = "tile_ir"
  <2>1. LdsStores(s, u) = StoreGraduated(s, "X", u, a + b) \o StoreGraduated(s, "WT", u, b)
    BY <1>2 DEF LdsStores
  <2>2. a + b \in Nat /\ a <= a + b /\ b <= b
    BY <1>1
  <2>3. /\ Good(StoreGraduated(s, "X", u, a + b), L, W)
        /\ Good(StoreGraduated(s, "WT", u, b), L, W)
    BY <1>1, <2>2, StoreGraduatedGood
  <2>4. QED
    BY <2>1, <2>3, GoodConcat
<1>3. CASE s.gen # "tile_ir"
  <2>1. LdsStores(s, u) = (<<Wait("vm", 0)>> \o FlattenSeq(x)) \o FlattenSeq(v)
    BY <1>3 DEF LdsStores, Each
  <2>2. \A i \in 1..a : Good(x[i], L, W)
    <3> SUFFICES ASSUME NEW i \in 1..a PROVE Good(x[i], L, W)
      OBVIOUS
    <3>1. PICK j \in Nat : j = i - 1
      BY <1>1
    <3>2. x[i] = <<DsStore("X", j, u)>>
      BY <3>1
    <3> HIDE DEF x
    <3>3. QED
      BY <3>2, Instructions, GoodOne
  <2>3. \A i \in 1..b : Good(v[i], L, W)
    <3> SUFFICES ASSUME NEW i \in 1..b PROVE Good(v[i], L, W)
      OBVIOUS
    <3>1. PICK j \in Nat : j = i - 1
      BY <1>1
    <3>2. v[i] = <<DsStore("WT", j, u)>>
      BY <3>1
    <3> HIDE DEF v
    <3>3. QED
      BY <3>2, Instructions, GoodOne
  <2>4. x = [i \in 1..a |-> x[i]] /\ v = [i \in 1..b |-> v[i]]
    OBVIOUS
  <2>5. Good(<<Wait("vm", 0)>>, L, W)
    BY Instructions, GoodOne
  <2> HIDE DEF x, v, a, b
  <2>6. Good(FlattenSeq(x), L, W) /\ Good(FlattenSeq(v), L, W)
    BY <1>1, <2>2, <2>3, <2>4, GoodFlatten
  <2>7. Good(<<Wait("vm", 0)>> \o FlattenSeq(x), L, W)
    BY <2>5, <2>6, GoodConcat
  <2>8. QED
    BY <2>1, <2>6, <2>7, GoodConcat
<1>4. QED
  BY <1>2, <1>3

\* A wait for the columns that have been asked for later.
LEMMA ColumnWait ==
  ASSUME NEW n \in Nat, NEW i \in 1..n
  PROVE  2 * n - 2 * (i - 1) - 2 \in Nat
OBVIOUS

\* The four ways to compute a step along K, and the exchange of accumulators.
LEMMA BulkStepGood ==
  ASSUME NEW s, Sized(s), NEW L, NEW u \in L, NEW W, NEW ks
  PROVE  Good(BulkStep(s, u, ks), L, W)
<1> DEFINE rows == NRowBlocks(s)
           cols == NColTiles(s)
           a == [r \in 1..rows |-> FragmentLoads(<<"A", r - 1>>, u, "X", r - 1, ks)]
           b == [c \in 1..cols |-> FragmentLoads(<<"B", c - 1>>, u, "WT", c - 1, ks)]
           prod(c) == [r \in 1..rows |-> <<Wmma(<<r - 1, c - 1>>, <<"A", r - 1>>, <<"B", c - 1>>)>>]
           p == [c \in 1..cols |-> <<Wait("lgkm", 2 * cols - 2 * (c - 1) - 2)>>
                                     \o FlattenSeq(prod(c))]
<1>1. rows \in Nat /\ cols \in Nat
  BY DEF Sized
<1>2. BulkStep(s, u, ks) = (FlattenSeq(a) \o FlattenSeq(b)) \o FlattenSeq(p)
  BY DEF BulkStep, Each
<1>3. /\ \A r \in 1..rows : Good(a[r], L, W)
      /\ \A c \in 1..cols : Good(b[c], L, W)
  BY FragmentLoadsGood
<1>4. ASSUME NEW c \in 1..cols PROVE Good(p[c], L, W)
  <2>1. \A r \in 1..rows : Good(prod(c)[r], L, W)
    BY Instructions, GoodOne
  <2>2. prod(c) = [r \in 1..rows |-> prod(c)[r]]
    OBVIOUS
  <2>3. PICK k \in Nat : k = 2 * cols - 2 * (c - 1) - 2
    BY <1>1, ColumnWait
  <2>4. p[c] = <<Wait("lgkm", k)>> \o FlattenSeq(prod(c))
    BY <2>3
  <2> HIDE DEF p, prod, rows, cols
  <2>5. Good(FlattenSeq(prod(c)), L, W)
    BY <1>1, <2>1, <2>2, GoodFlatten
  <2>6. Good(<<Wait("lgkm", k)>>, L, W)
    BY Instructions, GoodOne
  <2>7. QED
    BY <2>4, <2>5, <2>6, GoodConcat
<1>5. /\ a = [r \in 1..rows |-> a[r]] /\ b = [c \in 1..cols |-> b[c]]
      /\ p = [c \in 1..cols |-> p[c]]
  OBVIOUS
<1> HIDE DEF a, b, p, rows, cols
<1>6. Good(FlattenSeq(a), L, W) /\ Good(FlattenSeq(b), L, W) /\ Good(FlattenSeq(p), L, W)
  BY <1>1, <1>3, <1>4, <1>5, GoodFlatten
<1>7. Good(FlattenSeq(a) \o FlattenSeq(b), L, W)
  BY <1>6, GoodConcat
<1>8. QED
  BY <1>2, <1>6, <1>7, GoodConcat

LEMMA StreamColumnsGood ==
  ASSUME NEW s, Sized(s), NEW L, NEW u \in L, NEW W, NEW ks, NEW first \in Nat,
         NEW products, \A c \in 0..(NColTiles(s) - 1) : Good(products[c], L, W)
  PROVE  Good(StreamColumns(s, u, ks, first, products), L, W)
<1> DEFINE cols == NColTiles(s)
           B(c) == <<"B", c % 2>>
           later(c) == When(c + 2 < cols, FragmentLoads(B(c), u, "WT", c + 2, ks))
           wait(c) == When(c + 1 < cols, <<Wait("lgkm", IF c + 2 < cols THEN 2 ELSE 0)>>)
           p == [c \in 1..cols |-> (products[c - 1] \o later(c - 1)) \o wait(c - 1)]
           start == <<Wait("lgkm", first)>>
           b0 == FragmentLoads(B(0), u, "WT", 0, ks)
           b1 == FragmentLoads(B(1), u, "WT", 1, ks)
<1>1. cols \in Nat
  BY DEF Sized
<1>2. StreamColumns(s, u, ks, first, products) = ((b0 \o b1) \o start) \o FlattenSeq(p)
  BY DEF StreamColumns, Each
<1>3. ASSUME NEW c \in 1..cols PROVE Good(p[c], L, W)
  <2>1. PICK d \in 0..(cols - 1) : d = c - 1
    BY <1>1
  <2>2. Good(products[d], L, W)
    OBVIOUS
  <2>3. Good(later(d), L, W)
    BY FragmentLoadsGood, GoodWhen
  <2>4. Good(wait(d), L, W)
    <3>1. PICK k \in Nat : k = IF d + 2 < cols THEN 2 ELSE 0
      OBVIOUS
    <3>2. Good(<<Wait("lgkm", k)>>, L, W)
      BY Instructions, GoodOne
    <3>3. QED
      BY <3>1, <3>2, GoodWhen
  <2>5. p[c] = (products[d] \o later(d)) \o wait(d)
    BY <2>1
  <2> HIDE DEF p, later, wait
  <2>6. Good(products[d] \o later(d), L, W)
    BY <2>2, <2>3, GoodConcat
  <2>7. QED
    BY <2>4, <2>5, <2>6, GoodConcat
<1>4. p = [c \in 1..cols |-> p[c]]
  OBVIOUS
<1>5. Good(b0, L, W) /\ Good(b1, L, W) /\ Good(start, L, W)
  BY FragmentLoadsGood, Instructions, GoodOne
<1> HIDE DEF p, cols, start, b0, b1
<1>6. Good(FlattenSeq(p), L, W)
  BY <1>1, <1>3, <1>4, GoodFlatten
<1>7. Good(b0 \o b1, L, W)
  BY <1>5, GoodConcat
<1>8. Good((b0 \o b1) \o start, L, W)
  BY <1>5, <1>7, GoodConcat
<1>9. QED
  BY <1>2, <1>6, <1>8, GoodConcat

LEMMA StreamStepGood ==
  ASSUME NEW s, Sized(s), NEW L, NEW u \in L, NEW W, NEW ks
  PROVE  Good(StreamStep(s, u, ks), L, W)
<1> DEFINE rows == NRowBlocks(s)
           cols == NColTiles(s)
           a(k) == [r \in 1..rows |-> FragmentLoads(<<"A", r - 1>>, u, "X", r - 1, k)]
           next(c) == When(c = cols - 1 /\ ks + 1 < KSubSteps(s), FlattenSeq(a(ks + 1)))
           p(c) == [r \in 1..rows |->
                     <<Wmma(<<r - 1, c>>, <<"A", r - 1>>, <<"B", c % 2>>)>> \o next(c)]
           products == [c \in 0..(cols - 1) |-> FlattenSeq(p(c))]
           first == 2 + IF ks > 0 THEN 2 * rows ELSE 0
<1>1. rows \in Nat /\ cols \in Nat /\ first \in Nat
  <2>1. rows \in Nat /\ cols \in Nat
    BY DEF Sized
  <2>2. first = 2 \/ first = 2 + 2 * rows
    OBVIOUS
  <2> HIDE DEF rows, first
  <2>3. QED
    BY <2>1, <2>2
<1>2. StreamStep(s, u, ks) =
        When(ks = 0, FlattenSeq(a(0))) \o StreamColumns(s, u, ks, first, products)
  BY DEF StreamStep, Each
<1>3. ASSUME NEW k PROVE Good(FlattenSeq(a(k)), L, W)
  <2>1. \A r \in 1..rows : Good(a(k)[r], L, W)
    BY FragmentLoadsGood
  <2>2. a(k) = [r \in 1..rows |-> a(k)[r]]
    OBVIOUS
  <2> HIDE DEF a, rows
  <2>3. QED
    BY <1>1, <2>1, <2>2, GoodFlatten
<1>4. ASSUME NEW c \in 0..(cols - 1) PROVE Good(products[c], L, W)
  <2>1. Good(next(c), L, W)
    <3> HIDE DEF a
    <3>1. QED
      BY <1>3, GoodWhen
  <2>2. ASSUME NEW r \in 1..rows PROVE Good(p(c)[r], L, W)
    <3>1. PICK x : x = Wmma(<<r - 1, c>>, <<"A", r - 1>>, <<"B", c % 2>>)
      OBVIOUS
    <3>2. Good(<<x>>, L, W)
      BY <3>1, Instructions, GoodOne
    <3> HIDE DEF next
    <3>3. p(c)[r] = <<x>> \o next(c)
      BY <3>1
    <3>4. QED
      BY <2>1, <3>2, <3>3, GoodConcat
  <2>3. p(c) = [r \in 1..rows |-> p(c)[r]] /\ products[c] = FlattenSeq(p(c))
    OBVIOUS
  <2> HIDE DEF p, rows, products
  <2>4. QED
    BY <1>1, <2>2, <2>3, GoodFlatten
<1>5. Good(When(ks = 0, FlattenSeq(a(0))), L, W)
  <2> HIDE DEF a
  <2>1. QED
    BY <1>3, GoodWhen
<1> HIDE DEF a, products, first, rows
<1>6. Good(StreamColumns(s, u, ks, first, products), L, W)
  BY <1>1, <1>4, StreamColumnsGood
<1>7. QED
  BY <1>2, <1>5, <1>6, GoodConcat

LEMMA AccSwapGood ==
  ASSUME NEW s, Sized(s), NEW L, NEW W
  PROVE  Good(AccSwap(s), L, W)
<1> DEFINE cols == NColTiles(s)
           x == [c \in 1..cols |-> <<SwapIn(c - 1), Wait("lgkm", 0), SwapOut(c - 1),
                                     Wait("lgkm", 0), MoveTemp(c - 1)>>]
<1>1. cols \in Nat
  BY DEF Sized
<1>2. AccSwap(s) = FlattenSeq(x)
  BY DEF AccSwap, Each
<1>3. ASSUME NEW c \in 1..cols PROVE Good(x[c], L, W)
  <2>1. PICK p : p = SwapIn(c - 1)
    OBVIOUS
  <2>2. PICK q : q = SwapOut(c - 1)
    OBVIOUS
  <2>3. PICK r : r = MoveTemp(c - 1)
    OBVIOUS
  <2>4. PICK w : w = Wait("lgkm", 0)
    OBVIOUS
  <2>5. x[c] = <<p, w, q, w, r>>
    BY <2>1, <2>2, <2>3, <2>4
  <2>6. Allowed(p, L, W) /\ Allowed(q, L, W) /\ Allowed(r, L, W) /\ Allowed(w, L, W)
    BY <2>1, <2>2, <2>3, <2>4, Instructions
  <2> DEFINE S == {p, q, r, w}
  <2>7. x[c] \in Seq(S) /\ \A z \in S : Allowed(z, L, W)
    BY <2>5, <2>6
  <2> HIDE DEF S, x
  <2>8. QED
    BY <2>7, GoodSeq
<1>4. x = [c \in 1..cols |-> x[c]]
  OBVIOUS
<1> HIDE DEF x, cols
<1>5. QED
  BY <1>1, <1>2, <1>3, <1>4, GoodFlatten

LEMMA SwapComputeGood ==
  ASSUME NEW s, Sized(s), NEW L, NEW u \in L, NEW W
  PROVE  Good(SwapCompute(s, u), L, W)
<1> DEFINE rows == NRowBlocks(s)
           cols == NColTiles(s)
           steps == KSubSteps(s)
           products == [c \in 0..(cols - 1) |-> <<Wmma(<<0, c>>, <<"A", 0>>, <<"B", c % 2>>)>>]
           step(r) == [k \in 1..steps |->
                        FragmentLoads(<<"A", 0>>, u, "X", r, k - 1)
                        \o StreamColumns(s, u, k - 1, 2, products)]
           swap == When(rows > 1, AccSwap(s))
           x == [r \in 1..rows |-> FlattenSeq(step(r - 1)) \o swap]
<1>1. rows \in Nat /\ cols \in Nat /\ steps \in Nat
  BY DEF Sized
<1>2. SwapCompute(s, u) = FlattenSeq(x)
  BY DEF SwapCompute, Each
<1>3. \A c \in 0..(cols - 1) : Good(products[c], L, W)
  BY Instructions, GoodOne
<1>4. Good(swap, L, W)
  BY AccSwapGood, GoodWhen
<1>5. ASSUME NEW r PROVE Good(FlattenSeq(step(r)), L, W)
  <2>1. ASSUME NEW k \in 1..steps PROVE Good(step(r)[k], L, W)
    <3>1. PICK j : j = k - 1
      OBVIOUS
    <3>2. step(r)[k] = FragmentLoads(<<"A", 0>>, u, "X", r, j) \o StreamColumns(s, u, j, 2, products)
      <4> HIDE DEF products
      <4>1. QED
        BY <3>1
    <3> HIDE DEF products, step
    <3>3. Good(StreamColumns(s, u, j, 2, products), L, W)
      BY <1>3, StreamColumnsGood
    <3>4. QED
      BY <3>2, <3>3, FragmentLoadsGood, GoodConcat
  <2>2. step(r) = [k \in 1..steps |-> step(r)[k]]
    OBVIOUS
  <2> HIDE DEF step, steps
  <2>3. QED
    BY <1>1, <2>1, <2>2, GoodFlatten
<1>6. ASSUME NEW r \in 1..rows PROVE Good(x[r], L, W)
  <2> HIDE DEF step, swap
  <2>1. x[r] = FlattenSeq(step(r - 1)) \o swap
    OBVIOUS
  <2> HIDE DEF x
  <2>2. QED
    BY <1>4, <1>5, <2>1, GoodConcat
<1>7. x = [r \in 1..rows |-> x[r]]
  OBVIOUS
<1> HIDE DEF x, rows
<1>8. QED
  BY <1>1, <1>2, <1>6, <1>7, GoodFlatten

LEMMA GenStepGood ==
  ASSUME NEW s, Sized(s), s.gen = "gemm_gen", NEW L, NEW u \in L, NEW W, NEW ks
  PROVE  Good(GenStep(s, u, ks), L, W)
<1> DEFINE rows == NRowBlocks(s)
           cols == NColTiles(s)
           row(r) == FragmentLoads(<<"A", r>>, u, "X", r, ks)
           b == [c \in 1..cols |-> FragmentLoads(<<"B", c - 1>>, u, "WT", c - 1, ks)]
           p == [c \in 1..cols |-> <<Wait("lgkm", 2 * cols - 2 * (c - 1) - 2),
                                     Wmma(<<0, c - 1>>, <<"A", 0>>, <<"B", c - 1>>)>>]
           q(r) == [c \in 1..cols |-> <<Wmma(<<r + 1, c - 1>>, <<"A", r + 1>>, <<"B", c - 1>>)>>]
           x == [r \in 1..(rows - 1) |->
                   (row((r - 1) + 1) \o <<Wait("lgkm", 0)>>) \o FlattenSeq(q(r - 1))]
<1>1. rows \in Nat /\ cols \in Nat /\ rows - 1 \in Nat
  BY DEF Sized
<1>2. GenStep(s, u, ks) = ((row(0) \o FlattenSeq(b)) \o FlattenSeq(p)) \o FlattenSeq(x)
  BY DEF GenStep, Each
<1>3. \A c \in 1..cols : Good(b[c], L, W)
  BY FragmentLoadsGood
<1>4. ASSUME NEW c \in 1..cols PROVE Good(p[c], L, W)
  <2>1. PICK k \in Nat : k = 2 * cols - 2 * (c - 1) - 2
    BY <1>1, ColumnWait
  <2>2. PICK m : m = Wmma(<<0, c - 1>>, <<"A", 0>>, <<"B", c - 1>>)
    OBVIOUS
  <2>3. p[c] = <<Wait("lgkm", k), m>>
    BY <2>1, <2>2
  <2>4. Allowed(m, L, W) /\ Allowed(Wait("lgkm", k), L, W)
    BY <2>2, Instructions
  <2> HIDE DEF p
  <2>5. QED
    BY <2>3, <2>4, GoodTwo
<1>5. ASSUME NEW r PROVE Good(FlattenSeq(q(r)), L, W)
  <2>1. \A c \in 1..cols : Good(q(r)[c], L, W)
    BY Instructions, GoodOne
  <2>2. q(r) = [c \in 1..cols |-> q(r)[c]]
    OBVIOUS
  <2> HIDE DEF q, cols
  <2>3. QED
    BY <1>1, <2>1, <2>2, GoodFlatten
<1>6. Good(<<Wait("lgkm", 0)>>, L, W) /\ \A r : Good(row(r), L, W)
  BY Instructions, GoodOne, FragmentLoadsGood
<1>7. ASSUME NEW r \in 1..(rows - 1) PROVE Good(x[r], L, W)
  <2> HIDE DEF row, q
  <2>1. x[r] = (row((r - 1) + 1) \o <<Wait("lgkm", 0)>>) \o FlattenSeq(q(r - 1))
    OBVIOUS
  <2> HIDE DEF x
  <2>2. Good(row((r - 1) + 1) \o <<Wait("lgkm", 0)>>, L, W)
    BY <1>6, GoodConcat
  <2>3. QED
    BY <1>5, <2>1, <2>2, GoodConcat
<1>8. /\ b = [c \in 1..cols |-> b[c]] /\ p = [c \in 1..cols |-> p[c]]
      /\ x = [r \in 1..(rows - 1) |-> x[r]]
  OBVIOUS
<1> HIDE DEF b, p, x, row, rows, cols
<1>9. Good(FlattenSeq(b), L, W) /\ Good(FlattenSeq(p), L, W)
  BY <1>1, <1>3, <1>4, <1>8, GoodFlatten
<1>10. Good(FlattenSeq(x), L, W)
  BY <1>1, <1>7, <1>8, GoodFlatten
<1>11. Good(row(0) \o FlattenSeq(b), L, W)
  BY <1>6, <1>9, GoodConcat
<1>12. Good((row(0) \o FlattenSeq(b)) \o FlattenSeq(p), L, W)
  BY <1>9, <1>11, GoodConcat
<1>13. QED
  BY <1>2, <1>10, <1>12, GoodConcat

\* A tile is computed from one buffer.
LEMMA ComputeGood ==
  ASSUME NEW s, Sized(s), NEW L, NEW u \in L, NEW W
  PROVE  Good(Compute(s, u), L, W)
<1> DEFINE n == KSubSteps(s)
           x == [k \in 1..n |-> IF s.gen = "gemm_gen" THEN GenStep(s, u, k - 1)
                                ELSE IF Streaming(s) THEN StreamStep(s, u, k - 1)
                                ELSE BulkStep(s, u, k - 1)]
<1>1. n \in Nat
  BY DEF Sized
<1>2. Compute(s, u) = IF s.acc_swap THEN SwapCompute(s, u) ELSE FlattenSeq(x)
  BY DEF Compute, Each
<1>3. ASSUME NEW k \in 1..n PROVE Good(x[k], L, W)
  <2>1. PICK j : j = k - 1
    OBVIOUS
  <2>2. /\ Good(StreamStep(s, u, j), L, W) /\ Good(BulkStep(s, u, j), L, W)
        /\ s.gen = "gemm_gen" => Good(GenStep(s, u, j), L, W)
    BY StreamStepGood, BulkStepGood, GenStepGood
  <2>3. x[k] = IF s.gen = "gemm_gen" THEN GenStep(s, u, j)
               ELSE IF Streaming(s) THEN StreamStep(s, u, j) ELSE BulkStep(s, u, j)
    BY <2>1
  <2> HIDE DEF x
  <2>4. QED
    BY <2>2, <2>3
<1>4. x = [k \in 1..n |-> x[k]]
  OBVIOUS
<1> HIDE DEF x, n
<1>5. Good(FlattenSeq(x), L, W)
  BY <1>1, <1>3, <1>4, GoodFlatten
<1>6. QED
  BY <1>2, <1>5, SwapComputeGood

\* A list of three, put together.
LEMMA JoinThree ==
  ASSUME NEW S, NEW p \in Seq(S), NEW q \in Seq(S), NEW r \in Seq(S),
         Len(p) = 1, Len(q) = 2, Len(r) = 3,
         p[1] = r[1], q[1] = r[2], q[2] = r[3]
  PROVE  p \o q = r
<1> DEFINE j == p \o q
<1>0. /\ j \in Seq(S) /\ Len(j) = Len(p) + Len(q)
      /\ \A i \in 1..Len(p) + Len(q) : j[i] = IF i <= Len(p) THEN p[i] ELSE q[i - Len(p)]
  BY ConcatProperties
<1> HIDE DEF j
<1>1. /\ j \in Seq(S) /\ Len(j) = 3
      /\ \A i \in 1..3 : j[i] = IF i <= 1 THEN p[i] ELSE q[i - 1]
  BY <1>0
<1>2. \A i \in 1..3 : j[i] = r[i]
  BY <1>1
<1>3. j = r
  BY <1>1, <1>2, SeqEqual
<1>4. QED
  BY <1>3 DEF j

LEMMA ThreeParts ==
  ASSUME NEW u, NEW v, NEW w
  PROVE  <<u>> \o <<v, w>> = <<u, v, w>>
<1> DEFINE S == {u, v, w}
           p == <<u>>
           q == <<v, w>>
           r == <<u, v, w>>
<1>1. /\ p \in Seq(S) /\ q \in Seq(S) /\ r \in Seq(S)
      /\ Len(p) = 1 /\ Len(q) = 2 /\ Len(r) = 3
      /\ p[1] = r[1] /\ q[1] = r[2] /\ q[2] = r[3]
  OBVIOUS
<1> HIDE DEF S, p, q, r
<1>2. p \o q = r
  BY <1>1, JoinThree
<1>3. QED
  BY <1>2 DEF p, q, r

\* What ends in a wait for everything is settled.
LEMMA SyncedOrdered ==
  ASSUME NEW p, NEW L, NEW W, Good(p, L, W)
  PROVE  Ordered(p \o <<Wait("lgkm", 0), Barrier, Advance>>, L, W)
<1>1. PICK w : w = LdsWait
  OBVIOUS
<1>2. PICK before : before = p \o <<w>>
  OBVIOUS
<1>3. Good(<<w>>, L, W)
  BY <1>1, Instructions, GoodOne DEF LdsWait
<1>4. Good(before, L, W)
  BY <1>2, <1>3, GoodConcat
<1>5. p \in Seq(Elements(p)) /\ Len(p) \in Nat
  BY GoodElements, ElementsLemma DEF Good
<1>6. PICK S : S = Elements(p) \cup {w, Barrier, Advance}
  OBVIOUS
<1>7. p \in Seq(S) /\ <<w>> \in Seq(S) /\ <<Barrier, Advance>> \in Seq(S)
  BY <1>5, <1>6
<1>8. Len(before) = Len(p) + 1 /\ before[Len(p) + 1] = w
  <2>1. Len(<<w>>) = 1 /\ <<w>>[1] = w
    OBVIOUS
  <2>2. QED
    BY <1>2, <1>5, <1>7, <2>1, ConcatProperties
<1>9. Settled(before)
  <2> SUFFICES ASSUME NEW i \in 1..Len(before), before[i].op \in LdsOps
               PROVE  \E j \in (i + 1)..Len(before) : before[j] = LdsWait
    BY DEF Settled
  <2>1. w.op = "wait" /\ "wait" \notin LdsOps
    BY <1>1 DEF LdsWait, Wait, LdsOps
  <2>2. i # Len(p) + 1
    BY <1>8, <2>1
  <2>3. Len(p) + 1 \in (i + 1)..Len(before)
    BY <1>5, <1>8, <2>2
  <2>4. QED
    BY <1>1, <1>8, <2>3
<1>10. p \o <<w, Barrier, Advance>> = before \o <<Barrier, Advance>>
  <2>1. <<w>> \o <<Barrier, Advance>> = <<w, Barrier, Advance>>
    BY ThreeParts
  <2>2. p \o (<<w>> \o <<Barrier, Advance>>) = (p \o <<w>>) \o <<Barrier, Advance>>
    BY <1>7, ConcatAssociative
  <2>3. QED
    BY <1>2, <2>1, <2>2
<1>11. QED
  BY <1>1, <1>4, <1>9, <1>10 DEF Ordered, LdsWait

\* The blocks of a kernel, and which buffers the two phases use.
LEMMA BlockNames == {Blocks[i] : i \in 1..6} = Main \cup Epilogs \cup {"store"}
<1>1. /\ Blocks[1] = "prologue" /\ Blocks[2] = "A" /\ Blocks[3] = "B"
      /\ Blocks[4] = "epilogA" /\ Blocks[5] = "epilogB" /\ Blocks[6] = "store"
  BY DEF Blocks
<1>2. \A i \in 1..6 : i = 1 \/ i = 2 \/ i = 3 \/ i = 4 \/ i = 5 \/ i = 6
  OBVIOUS
<1>3. QED
  BY <1>1, <1>2 DEF Main, Epilogs

LEMMA BufsOf ==
  /\ 0 \in StoreBufs("prologue") /\ 1 \in StoreBufs("A") /\ 0 \in StoreBufs("B")
  /\ 0 \in LoadBufs("A") /\ 1 \in LoadBufs("B")
  /\ 0 \in LoadBufs("epilogA") /\ 1 \in LoadBufs("epilogB")
BY DEF StoreBufs, LoadBufs

\* What the generators emit is in phases, for every specification.
LEMMA LoweredPhased ==
  ASSUME NEW s, Sized(s)
  PROVE  /\ Phased(Lowered(s)) /\ DOMAIN Lowered(s) = Main \cup Epilogs \cup {"store"}
<1> DEFINE synced == <<Wait("lgkm", 0), Barrier, Advance>>
           live == IF s.acc_swap THEN 1 ELSE NRowBlocks(s)
           outs == [c \in 1..NColTiles(s) |-> <<SwapOut(c - 1)>>]
           init == When(s.acc_swap, FlattenSeq(outs) \o <<Wait("lgkm", 0)>>)
           ys == [r \in 1..NRowBlocks(s) |-> When(s.acc_swap /\ r - 1 > 0, AccSwap(s))
                    \o <<YStore(r - 1, IF live = 1 THEN 0 ELSE r - 1)>>]
           f == Lowered(s)
<1>1. DOMAIN f = Main \cup Epilogs \cup {"store"}
  BY BlockNames DEF Lowered
<1>2. f["prologue"] = ((init \o CoopLoad(s)) \o LdsStores(s, 0)) \o synced
  BY BlockNames DEF Lowered, Each, Main
<1>3. f["A"] = ((CoopLoad(s) \o Compute(s, 0)) \o LdsStores(s, 1)) \o synced
  BY BlockNames DEF Lowered, Main
<1>4. f["B"] = ((CoopLoad(s) \o Compute(s, 1)) \o LdsStores(s, 0)) \o synced
  BY BlockNames DEF Lowered, Main
<1>5. f["epilogA"] = Compute(s, 0)
  BY BlockNames DEF Lowered, Epilogs
<1>6. f["epilogB"] = Compute(s, 1)
  BY BlockNames DEF Lowered, Epilogs
<1>7. f["store"] = FlattenSeq(ys)
  BY BlockNames DEF Lowered, Each
<1>8. ASSUME NEW L, NEW W PROVE Good(init, L, W)
  <2>1. \A c \in 1..NColTiles(s) : Good(outs[c], L, W)
    BY Instructions, GoodOne
  <2>2. outs = [c \in 1..NColTiles(s) |-> outs[c]]
    OBVIOUS
  <2>3. Good(<<Wait("lgkm", 0)>>, L, W)
    BY Instructions, GoodOne
  <2> HIDE DEF outs
  <2>4. Good(FlattenSeq(outs), L, W)
    BY <2>1, <2>2, GoodFlatten DEF Sized
  <2>5. Good(FlattenSeq(outs) \o <<Wait("lgkm", 0)>>, L, W)
    BY <2>3, <2>4, GoodConcat
  <2>6. QED
    BY <2>5, GoodWhen
<1>9. ASSUME NEW L, NEW W PROVE Good(FlattenSeq(ys), L, W)
  <2>1. ASSUME NEW r \in 1..NRowBlocks(s) PROVE Good(ys[r], L, W)
    <3>1. PICK v : v = YStore(r - 1, IF live = 1 THEN 0 ELSE r - 1)
      OBVIOUS
    <3>2. PICK b : b = When(s.acc_swap /\ r - 1 > 0, AccSwap(s))
      OBVIOUS
    <3>3. ys[r] = b \o <<v>>
      BY <3>1, <3>2
    <3>4. Good(b, L, W)
      BY <3>2, AccSwapGood, GoodWhen
    <3>5. Good(<<v>>, L, W)
      BY <3>1, Instructions, GoodOne
    <3> HIDE DEF ys
    <3>6. QED
      BY <3>3, <3>4, <3>5, GoodConcat
  <2>2. ys = [r \in 1..NRowBlocks(s) |-> ys[r]]
    OBVIOUS
  <2> HIDE DEF ys
  <2>3. QED
    BY <2>1, <2>2, GoodFlatten DEF Sized
<1> HIDE DEF f, init, ys
<1>10. Ordered(f["prologue"], LoadBufs("prologue"), StoreBufs("prologue"))
  <2>1. PICK L, W : L = LoadBufs("prologue") /\ W = StoreBufs("prologue")
    OBVIOUS
  <2>2. Good(init, L, W) /\ Good(CoopLoad(s), L, W) /\ Good(LdsStores(s, 0), L, W)
    BY <1>8, <2>1, CoopLoadGood, LdsStoresGood, BufsOf
  <2>3. Good(init \o CoopLoad(s), L, W)
    BY <2>2, GoodConcat
  <2>4. Good((init \o CoopLoad(s)) \o LdsStores(s, 0), L, W)
    BY <2>2, <2>3, GoodConcat
  <2>5. QED
    BY <1>2, <2>1, <2>4, SyncedOrdered
<1>11. Ordered(f["A"], LoadBufs("A"), StoreBufs("A"))
  <2>1. PICK L, W : L = LoadBufs("A") /\ W = StoreBufs("A")
    OBVIOUS
  <2>2. Good(CoopLoad(s), L, W) /\ Good(Compute(s, 0), L, W) /\ Good(LdsStores(s, 1), L, W)
    BY <2>1, CoopLoadGood, ComputeGood, LdsStoresGood, BufsOf
  <2>3. Good(CoopLoad(s) \o Compute(s, 0), L, W)
    BY <2>2, GoodConcat
  <2>4. Good((CoopLoad(s) \o Compute(s, 0)) \o LdsStores(s, 1), L, W)
    BY <2>2, <2>3, GoodConcat
  <2>5. QED
    BY <1>3, <2>1, <2>4, SyncedOrdered
<1>12. Ordered(f["B"], LoadBufs("B"), StoreBufs("B"))
  <2>1. PICK L, W : L = LoadBufs("B") /\ W = StoreBufs("B")
    OBVIOUS
  <2>2. Good(CoopLoad(s), L, W) /\ Good(Compute(s, 1), L, W) /\ Good(LdsStores(s, 0), L, W)
    BY <2>1, CoopLoadGood, ComputeGood, LdsStoresGood, BufsOf
  <2>3. Good(CoopLoad(s) \o Compute(s, 1), L, W)
    BY <2>2, GoodConcat
  <2>4. Good((CoopLoad(s) \o Compute(s, 1)) \o LdsStores(s, 0), L, W)
    BY <2>2, <2>3, GoodConcat
  <2>5. QED
    BY <1>4, <2>1, <2>4, SyncedOrdered
<1>13. /\ Good(f["epilogA"], LoadBufs("epilogA"), {})
       /\ Good(f["epilogB"], LoadBufs("epilogB"), {})
       /\ Good(f["store"], LoadBufs("store"), {})
  BY <1>5, <1>6, <1>7, <1>9, ComputeGood, BufsOf
<1>14. Phased(f)
  BY <1>10, <1>11, <1>12, <1>13 DEF Phased, Main, Epilogs
<1>15. QED
  BY <1>1, <1>14 DEF f

-----------------------------------------------------------------------------
(* The passes over the waits. *)

\* The least and the greatest of a set of naturals are in it.
LEMMA LeastIn ==
  ASSUME NEW S \in SUBSET Nat, S # {}
  PROVE  Min(S) \in S /\ \A z \in S : Min(S) <= z
<1> DEFINE R == OpToRel(<, Nat)
<1>1. PICK k \in S : \A m \in S : ~(<<m, k>> \in R)
  <2>1. IsWellFoundedOn(R, Nat) /\ S \subseteq Nat
    BY NatLessThanWellFounded
  <2> HIDE DEF R
  <2>2. QED
    BY <2>1, WFMin
<1>2. \A m \in Nat : m < k => <<m, k>> \in R
  BY <1>1 DEF OpToRel
<1> HIDE DEF R
<1>3. \A m \in S : k <= m
  <2> SUFFICES ASSUME NEW m \in S PROVE k <= m
    OBVIOUS
  <2>1. m \in Nat /\ k \in Nat
    OBVIOUS
  <2>2. ~(m < k)
    BY <1>1, <1>2, <2>1
  <2>3. QED
    BY <2>1, <2>2
<1>4. QED
  BY <1>3 DEF Min

LEMMA GreatestIn ==
  ASSUME NEW n \in Nat, NEW S \in SUBSET (0..n), 0 \in S
  PROVE  Max(S) \in S /\ \A z \in S : Max(S) >= z
<1> DEFINE D == {k \in Nat : n - k \in S}
<1>1. D # {} /\ D \in SUBSET Nat /\ \A k \in D : k \in Nat /\ n - k \in S
  <2>1. n \in D
    OBVIOUS
  <2>2. QED
    BY <2>1
<1>2. \A z \in S : n - z \in D /\ z \in Nat
  OBVIOUS
<1> HIDE DEF D
<1>3. PICK k \in D : \A m \in D : k <= m
  BY <1>1, LeastIn
<1>4. n - k \in S /\ k \in Nat
  BY <1>1
<1>5. \A z \in S : n - k >= z
  <2> SUFFICES ASSUME NEW z \in S PROVE n - k >= z
    OBVIOUS
  <2>1. k <= n - z /\ z \in Nat
    BY <1>2, <1>3
  <2>2. QED
    BY <1>4, <2>1
<1>6. QED
  BY <1>4, <1>5 DEF Max

\* The waits of the instructions wait for counts.
Waiting(q, i) == \A j \in 1..i : q[j].op = "wait" => q[j].n \in Nat

\* Nothing after instruction h, up to i, waits for every LDS operation.
Unwaited(q, h, i) == \A m \in (h + 1)..i : ~(IsWait(q[m], "lgkm") /\ q[m].n = 0)

\* What the passes take to be outstanding is a count, and not 0 as long as no
\* wait for everything has followed an LDS operation.
LEMMA OutstandingLemma ==
  ASSUME NEW q, NEW i \in Nat, Waiting(q, i), NEW c, NEW n0 \in Nat
  PROVE  /\ Outstanding(q, c, n0, i) \in Nat
         /\ \A h \in 1..i : c = "lgkm" /\ q[h].op \in LdsOps /\ Unwaited(q, h, i)
              => Outstanding(q, c, n0, i) >= 1
<1> DEFINE waits == {j \in 1..i : IsWait(q[j], c)}
           every == {j \in waits : q[j].n = 0}
           all   == Max({0} \cup every)
           issued(j) == {h \in (j + 1)..i : Counts(q[h], c)}
           since(j) == Cardinality(issued(j))
           later == {w \in waits : w > all}
           first == since(all) + IF all = 0 THEN n0 ELSE 0
           counts == {first} \cup {q[j].n + since(j) : j \in later}
<1>1. Outstanding(q, c, n0, i) = Min(counts)
  BY DEF Outstanding
<1>2. waits \subseteq 1..i /\ \A j \in waits : IsWait(q[j], c)
  OBVIOUS
<1>3. /\ all \in {0} \cup every /\ \A z \in every : all >= z
      /\ every \subseteq 1..i /\ all \in 0..i
  <2>1. {0} \cup every \in SUBSET (0..i) /\ 0 \in {0} \cup every
    OBVIOUS
  <2>2. all \in {0} \cup every /\ \A z \in {0} \cup every : all >= z
    <3> DEFINE S == {0} \cup every
    <3> HIDE DEF S
    <3>1. S \in SUBSET (0..i) /\ 0 \in S
      BY <2>1 DEF S
    <3>2. Max(S) \in S /\ \A z \in S : Max(S) >= z
      BY <3>1, GreatestIn
    <3>3. QED
      BY <3>2 DEF S
  <2>3. QED
    BY <2>1, <2>2
<1> HIDE DEF all
<1>4. ASSUME NEW j \in 0..i PROVE since(j) \in Nat /\ \A h \in issued(j) : since(j) >= 1
  <2>1. issued(j) \in SUBSET ((j + 1)..i)
    OBVIOUS
  <2> HIDE DEF issued
  <2>2. IsFiniteSet((j + 1)..i)
    BY FS_Interval
  <2>3. IsFiniteSet(issued(j))
    BY <2>1, <2>2, FS_Subset
  <2>4. Cardinality(issued(j)) \in Nat
    BY <2>3, FS_CardinalityType
  <2>5. Cardinality(issued(j)) = 0 => issued(j) = {}
    BY <2>3, FS_EmptySet
  <2>6. QED
    BY <2>4, <2>5
<1>5. \A j \in waits : q[j].n \in Nat /\ j \in 0..i
  BY DEF Waiting, IsWait
<1>6. first \in Nat
  BY <1>3, <1>4
<1>7. \A j \in later : q[j].n + since(j) \in Nat
  <2> HIDE DEF since, waits
  <2>1. QED
    BY <1>4, <1>5
<1>8. counts # {} /\ counts \in SUBSET Nat
  BY <1>6, <1>7
<1>9. Min(counts) \in counts
  <2> HIDE DEF counts
  <2>1. QED
    BY <1>8, LeastIn
<1>10. Min(counts) \in Nat
  BY <1>8, <1>9
<1>11. ASSUME c = "lgkm", NEW h \in 1..i, q[h].op \in LdsOps, Unwaited(q, h, i)
       PROVE  \A m \in counts : m >= 1
  <2>1. Counts(q[h], c)
    BY <1>11 DEF Counts, LdsOps
  <2>2. ~IsWait(q[h], c)
    BY <1>11 DEF IsWait, LdsOps
  <2>3. \A z \in every : z < h
    <3> SUFFICES ASSUME NEW z \in every PROVE z < h
      OBVIOUS
    <3>1. z \in 1..i /\ IsWait(q[z], c) /\ q[z].n = 0
      OBVIOUS
    <3>2. z # h
      BY <2>2, <3>1
    <3>3. z \notin (h + 1)..i
      BY <1>11, <3>1 DEF Unwaited
    <3>4. QED
      BY <3>1, <3>2, <3>3
  <2>4. all < h
    BY <1>3, <2>3
  <2>5. h \in issued(all)
    BY <1>3, <2>1, <2>4
  <2>6. since(all) >= 1
    <3> HIDE DEF since, issued
    <3>1. QED
      BY <1>3, <1>4, <2>5
  <2>7. first >= 1
    <3> HIDE DEF since
    <3>1. QED
      BY <1>3, <1>4, <2>6
  <2>8. ASSUME NEW j \in later PROVE q[j].n + since(j) >= 1
    <3>1. j \in waits /\ j > all
      OBVIOUS
    <3>2. j \notin every
      BY <1>2, <1>3, <3>1
    <3>3. q[j].n # 0
      BY <3>1, <3>2
    <3> HIDE DEF since, waits
    <3>4. QED
      BY <1>4, <1>5, <3>1, <3>3
  <2>9. QED
    BY <2>7, <2>8
<1>12. QED
  <2> HIDE DEF counts
  <2>1. QED
    BY <1>1, <1>9, <1>10, <1>11

\* FlattenSeq, from the empty list on.
LEMMA Flattening ==
  ASSUME NEW n \in Nat, NEW g, g = [i \in 1..n |-> g[i]], \A i \in 1..n : IsSeq(g[i])
  PROVE  \E e : /\ e[0] = << >> /\ FlattenSeq(g) = e[n]
                /\ \A i \in 1..n : e[i] = e[i - 1] \o g[i]
<1>1. Len(g) = n /\ (n = 0 => g = << >>)
  BY ListOf
<1>2. CASE n = 0
  <2> DEFINE e == [i \in {0} |-> << >>]
  <2>1. FlattenSeq(g) = << >>
    BY <1>1, <1>2, Flattened
  <2>2. e[0] = << >> /\ ~\E i \in Int : i \in 1..n
    BY <1>2
  <2> HIDE DEF e
  <2>3. \A i \in 1..n : e[i] = e[i - 1] \o g[i]
    BY <2>2
  <2>4. QED
    BY <1>2, <2>1, <2>2, <2>3
<1>3. CASE n > 0
  <2>1. PICK f : /\ FlattenSeq(g) = f[n] /\ f[1] = g[1]
                 /\ \A i \in 2..n : f[i] = f[i - 1] \o g[i]
    BY <1>1, <1>3, Flattened
  <2> DEFINE e == [i \in 0..n |-> IF i = 0 THEN << >> ELSE f[i]]
  <2>2. e[0] = << >> /\ \A i \in 1..n : e[i] = f[i]
    OBVIOUS
  <2> HIDE DEF e
  <2>3. ASSUME NEW i \in 1..n PROVE e[i] = e[i - 1] \o g[i]
    <3>1. CASE i = 1
      <4>1. PICK S : g[1] \in Seq(S)
        BY <3>1 DEF IsSeq
      <4>2. << >> \o g[1] = g[1]
        BY <4>1, ConcatEmptySeq
      <4>3. e[1] = g[1] /\ 1 - 1 = 0
        BY <1>3, <2>1, <2>2
      <4>4. QED
        BY <2>2, <3>1, <4>2, <4>3
    <3>2. CASE i # 1
      <4>1. i \in 2..n /\ i - 1 \in 1..n
        BY <3>2
      <4>2. QED
        BY <2>1, <2>2, <4>1
    <3>3. QED
      BY <3>1, <3>2
  <2>4. FlattenSeq(g) = e[n]
    BY <1>3, <2>1, <2>2
  <2>5. QED
    BY <2>2, <2>3, <2>4
<1>4. n = 0 \/ n > 0
  OBVIOUS
<1>5. QED
  BY <1>2, <1>3, <1>4, Zenon

\* A pass may replace a wait by nothing or by another wait of the same counter, but
\* keeps a wait for everything that follows an LDS operation nothing has waited for.
Outstands(q, h, i) == q[h].op \in LdsOps /\ Unwaited(q, h, i)
Substitute(q, j, v) ==
  /\ IF q[j].op = "wait" THEN v = << >> \/ \E m \in Nat : v = <<Wait(q[j].counter, m)>>
     ELSE v = <<q[j]>>
  /\ q[j] = LdsWait /\ (\E h \in 1..(j - 1) : Outstands(q, h, j - 1)) => v = <<LdsWait>>
Replaced(q, g) ==
  g = [j \in 1..Len(q) |-> g[j]] /\ \A j \in 1..Len(q) : Substitute(q, j, g[j])

\* In what is left of the first i instructions of q, an LDS operation is waited for,
\* or one of those i is not.
Awaited(p, q, i) ==
  \A k \in 1..Len(p) : p[k].op \in LdsOps =>
    \/ \E m \in (k + 1)..Len(p) : p[m] = LdsWait
    \/ \E h \in 1..i : Outstands(q, h, i)

\* What replaces an allowed instruction is allowed, so a pass leaves a good list good.
LEMMA SubstituteGood ==
  ASSUME NEW q, NEW j, NEW v, Substitute(q, j, v), NEW L, NEW W, Allowed(q[j], L, W)
  PROVE  Good(v, L, W)
<1>1. CASE q[j].op # "wait"
  <2>1. v = <<q[j]>>
    BY <1>1 DEF Substitute
  <2>2. QED
    BY <2>1, GoodOne
<1>2. CASE v = << >>
  BY <1>2, GoodEmpty
<1>3. CASE q[j].op = "wait" /\ v # << >>
  <2>1. PICK m \in Nat : v = <<Wait(q[j].counter, m)>>
    BY <1>3 DEF Substitute
  <2>2. PICK c \in {"vm", "lgkm"}, n \in Nat : q[j] = Wait(c, n)
    BY <1>3 DEF Allowed
  <2>3. q[j].counter = c
    BY <2>2 DEF Wait
  <2>4. Allowed(Wait(c, m), L, W)
    BY Instructions
  <2>5. QED
    BY <2>1, <2>3, <2>4, GoodOne
<1>4. QED
  BY <1>1, <1>2, <1>3

LEMMA ReplacedGood ==
  ASSUME NEW q, NEW g, Replaced(q, g), NEW L, NEW W, Good(q, L, W)
  PROVE  Good(FlattenSeq(g), L, W)
<1>1. PICK n \in Nat : n = Len(q)
  BY GoodElements
<1>2. g = [j \in 1..n |-> g[j]] /\ \A j \in 1..n : Good(g[j], L, W)
  BY <1>1, SubstituteGood DEF Replaced, Good
<1>3. QED
  BY <1>2, GoodFlatten

\* A list put together with a list of one, or with nothing.
LEMMA OneElement ==
  ASSUME NEW p, IsSeq(p), NEW x
  PROVE  p \o <<x>> = Append(p, x) /\ p \o << >> = p
<1>1. PICK S : p \in Seq(S)
  BY DEF IsSeq
<1>2. p \in Seq(S \cup {x})
  BY <1>1
<1>3. p \o << >> = p
  BY <1>1, ConcatEmptySeq
<1>4. p \o <<x>> = Append(p, x)
  BY <1>2, AppendIsConcat
<1>5. QED
  BY <1>3, <1>4

\* The one wait for every LDS operation.
LEMMA WaitIsAll ==
  ASSUME NEW x, NEW L, NEW W, Allowed(x, L, W), IsWait(x, "lgkm"), x.n = 0
  PROVE  x = LdsWait
<1>1. PICK c \in {"vm", "lgkm"}, n \in Nat : x = Wait(c, n)
  BY DEF Allowed, IsWait
<1>2. x.counter = c /\ x.n = n
  BY <1>1 DEF Wait
<1>3. QED
  BY <1>1, <1>2 DEF IsWait, LdsWait

\* One more instruction: if its wait is dropped, nothing was outstanding there.
LEMMA AwaitedStep ==
  ASSUME NEW p, NEW L, NEW W, Good(p, L, W), NEW q, NEW i \in Nat, Awaited(p, q, i),
         Allowed(q[i + 1], L, W), NEW v, Substitute(q, i + 1, v)
  PROVE  Good(p \o v, L, W) /\ Awaited(p \o v, q, i + 1)
<1>1. Good(p \o v, L, W)
  BY SubstituteGood, GoodConcat
<1>2. IsSeq(p)
  BY DEF Good
<1>3. PICK j : j = i + 1
  OBVIOUS
<1>4. /\ (i + 1) - 1 = i /\ j \in Nat
      /\ \A h \in 1..i : h \in 1..j
  BY <1>3
<1>5. q[j] # LdsWait => \A h \in 1..i : Outstands(q, h, i) => Outstands(q, h, j)
  <2> SUFFICES ASSUME q[j] # LdsWait, NEW h \in 1..i, Outstands(q, h, i)
               PROVE  Outstands(q, h, j)
    OBVIOUS
  <2>1. ~(IsWait(q[j], "lgkm") /\ q[j].n = 0)
    BY <1>3, WaitIsAll
  <2>2. \A m \in (h + 1)..j : m \in (h + 1)..i \/ m = j
    BY <1>3
  <2>3. QED
    BY <2>1, <2>2 DEF Outstands, Unwaited
<1>6. CASE v = << >>
  <2>1. p \o v = p
    BY <1>2, <1>6, OneElement
  <2>2. <<LdsWait>> # << >>
    OBVIOUS
  <2>3. q[j] = LdsWait => ~\E h \in 1..i : Outstands(q, h, i)
    BY <1>3, <1>4, <1>6, <2>2 DEF Substitute
  <2>4. \A h \in 1..i : Outstands(q, h, i) => Outstands(q, h, j)
    BY <1>5, <2>3
  <2>5. Awaited(p, q, j)
    BY <1>4, <2>4 DEF Awaited
  <2>6. QED
    BY <1>1, <1>3, <2>1, <2>5
<1>7. CASE v # << >>
  <2>1. PICK x : v = <<x>> /\ (x.op \in LdsOps => x = q[j])
    <3>1. CASE q[j].op = "wait"
      <4>1. PICK m \in Nat : v = <<Wait(q[j].counter, m)>>
        BY <1>3, <1>7, <3>1 DEF Substitute
      <4>2. Wait(q[j].counter, m).op \notin LdsOps
        BY DEF Wait, LdsOps
      <4>3. QED
        BY <4>1, <4>2
    <3>2. CASE q[j].op # "wait"
      BY <1>3, <3>2 DEF Substitute
    <3>3. QED
      BY <3>1, <3>2
  <2>2. p \o v = Append(p, x)
    BY <1>2, <2>1, OneElement
  <2>3. PICK r : r = p \o v
    OBVIOUS
  <2>4. PICK l \in Nat : l = Len(p)
    BY <1>2, AppendParts
  <2>5. Len(r) = l + 1 /\ r[l + 1] = x /\ \A k \in 1..l : r[k] = p[k]
    BY <1>2, <2>2, <2>3, <2>4, AppendParts
  <2>6. Awaited(r, q, j)
    <3> SUFFICES ASSUME NEW k \in 1..(l + 1), r[k].op \in LdsOps
                 PROVE  \/ \E m \in (k + 1)..(l + 1) : r[m] = LdsWait
                        \/ \E h \in 1..j : Outstands(q, h, j)
      BY <2>5 DEF Awaited
    <3>1. CASE k = l + 1
      <4>1. q[j].op \in LdsOps
        BY <2>1, <2>5, <3>1
      <4>2. Unwaited(q, j, j) /\ j \in 1..j
        BY <1>3 DEF Unwaited
      <4>3. QED
        BY <4>1, <4>2 DEF Outstands
    <3>2. CASE k \in 1..l
      <4>1. p[k].op \in LdsOps
        BY <2>5, <3>2
      <4>2. CASE \E m \in (k + 1)..l : p[m] = LdsWait
        <5>1. PICK m \in (k + 1)..l : p[m] = LdsWait
          BY <4>2
        <5>2. m \in 1..l /\ m \in (k + 1)..(l + 1)
          BY <3>2
        <5>3. QED
          BY <2>5, <5>1, <5>2
      <4>3. CASE \E h \in 1..i : Outstands(q, h, i)
        <5>1. CASE q[j] # LdsWait
          BY <1>4, <1>5, <4>3, <5>1
        <5>2. CASE q[j] = LdsWait
          <6>1. v = <<LdsWait>>
            BY <1>3, <1>4, <4>3, <5>2 DEF Substitute
          <6>2. x = LdsWait
            BY <2>1, <6>1
          <6>3. l + 1 \in (k + 1)..(l + 1)
            BY <3>2
          <6>4. QED
            BY <2>5, <6>2, <6>3
        <5>3. QED
          BY <5>1, <5>2
      <4>4. QED
        BY <2>4, <3>2, <4>1, <4>2, <4>3 DEF Awaited
    <3>3. QED
      BY <3>1, <3>2
  <2>7. QED
    BY <1>1, <1>3, <2>3, <2>6
<1>8. QED
  BY <1>6, <1>7

\* A list of two, put together.
LEMMA OneIsSeq == \A x : IsSeq(<<x>>)
<1> SUFFICES ASSUME NEW x PROVE IsSeq(<<x>>)
  OBVIOUS
<1>1. <<x>> \in Seq({x})
  OBVIOUS
<1>2. PICK S : <<x>> \in Seq(S)
  BY <1>1
<1>3. QED
  BY <1>2 DEF IsSeq

LEMMA JoinTwo ==
  ASSUME NEW S, NEW p \in Seq(S), NEW q \in Seq(S), NEW r \in Seq(S),
         Len(p) = 1, Len(q) = 1, Len(r) = 2, p[1] = r[1], q[1] = r[2]
  PROVE  p \o q = r
<1> DEFINE j == p \o q
<1>1. /\ j \in Seq(S) /\ Len(j) = Len(p) + Len(q)
      /\ \A i \in 1..Len(p) + Len(q) : j[i] = IF i <= Len(p) THEN p[i] ELSE q[i - Len(p)]
  BY ConcatProperties
<1> HIDE DEF j
<1>2. /\ j \in Seq(S) /\ Len(j) = 2
      /\ \A i \in 1..2 : j[i] = IF i <= 1 THEN p[i] ELSE q[i - 1]
  BY <1>1
<1>3. \A i \in 1..2 : j[i] = r[i]
  BY <1>2
<1>4. j = r
  BY <1>2, <1>3, SeqEqual
<1>5. QED
  BY <1>4 DEF j

LEMMA TwoParts ==
  ASSUME NEW u, NEW v
  PROVE  <<u>> \o <<v>> = <<u, v>>
<1> DEFINE S == {u, v}
           p == <<u>>
           q == <<v>>
           r == <<u, v>>
<1>1. /\ p \in Seq(S) /\ q \in Seq(S) /\ r \in Seq(S)
      /\ Len(p) = 1 /\ Len(q) = 1 /\ Len(r) = 2 /\ p[1] = r[1] /\ q[1] = r[2]
  OBVIOUS
<1> HIDE DEF S, p, q, r
<1>2. p \o q = r
  BY <1>1, JoinTwo
<1>3. QED
  BY <1>2 DEF p, q, r

LEMMA TwoElements ==
  ASSUME NEW p, IsSeq(p), NEW u, NEW v
  PROVE  (p \o <<u>>) \o <<v>> = p \o <<u, v>>
<1>1. p \in Seq(Elements(p) \cup {u, v})
  <2>1. p \in Seq(Elements(p))
    BY ElementsLemma
  <2>2. QED
    BY <2>1
<1>2. PICK S : p \in Seq(S) /\ u \in S /\ v \in S
  BY <1>1
<1>3. <<u>> \in Seq(S) /\ <<v>> \in Seq(S)
  BY <1>2
<1>4. (p \o <<u>>) \o <<v>> = p \o (<<u>> \o <<v>>)
  BY <1>2, <1>3, ConcatAssociative
<1>5. QED
  BY <1>4, TwoParts

\* An ordered block ends in its barrier and its advance.
LEMMA OrderedEnd ==
  ASSUME NEW q, NEW L, NEW W, Ordered(q, L, W), NEW n \in Nat, Len(q) = n + 2
  PROVE  q[n + 1] = Barrier /\ q[n + 2] = Advance
<1>1. PICK before : Good(before, L, W) /\ q = before \o <<Barrier, Advance>>
  BY DEF Ordered
<1>2. IsSeq(before)
  BY <1>1 DEF Good
<1>3. IsSeq(Append(before, Barrier)) /\ q = Append(Append(before, Barrier), Advance)
  BY <1>1, <1>2, TwoElements, OneElement, AppendParts
<1>4. /\ Len(before) \in Nat /\ Len(Append(before, Barrier)) = Len(before) + 1
      /\ Append(before, Barrier)[Len(before) + 1] = Barrier
  BY <1>2, AppendParts
<1>5. /\ Len(q) = Len(Append(before, Barrier)) + 1
      /\ q[Len(Append(before, Barrier)) + 1] = Advance
      /\ \A j \in 1..Len(Append(before, Barrier)) : q[j] = Append(before, Barrier)[j]
  BY <1>3, AppendParts
<1>6. Len(before) = n /\ n + 1 \in 1..(n + 1)
  BY <1>4, <1>5
<1>7. QED
  BY <1>4, <1>5, <1>6

\* A pass leaves an ordered block ordered.
LEMMA ReplacedOrdered ==
  ASSUME NEW q, NEW g, Replaced(q, g), NEW L, NEW W, Ordered(q, L, W)
  PROVE  Ordered(FlattenSeq(g), L, W)
<1>1. PICK n \in Nat : Len(q) = n + 2
  <2>1. Len(q) \in Nat /\ Len(q) >= 2
    BY OrderedParts
  <2>2. Len(q) - 2 \in Nat /\ Len(q) = (Len(q) - 2) + 2
    BY <2>1
  <2>3. QED
    BY <2>2
<1>2. /\ \A i \in 1..n : Allowed(q[i], L, W)
      /\ \A i \in 1..n : q[i].op \in LdsOps => \E j \in (i + 1)..n : q[j] = LdsWait
      /\ q[n + 1] = Barrier /\ q[n + 2] = Advance
  <2>1. Len(q) - 2 = n
    BY <1>1
  <2>2. q[n + 1] = Barrier /\ q[n + 2] = Advance
    BY <1>1, OrderedEnd
  <2>3. QED
    BY <2>1, <2>2, OrderedParts
<1>3. /\ g = [j \in 1..(n + 2) |-> g[j]]
      /\ \A j \in 1..(n + 2) : Substitute(q, j, g[j])
  BY <1>1 DEF Replaced
<1>4. g[n + 1] = <<Barrier>> /\ g[n + 2] = <<Advance>>
  <2>1. Barrier.op # "wait" /\ Advance.op # "wait"
    BY DEF Barrier, Advance
  <2>2. Substitute(q, n + 1, g[n + 1]) /\ Substitute(q, n + 2, g[n + 2])
    BY <1>3
  <2>3. QED
    BY <1>2, <2>1, <2>2 DEF Substitute
<1>5. \A j \in 1..n : Good(g[j], L, W)
  BY <1>2, <1>3, SubstituteGood
<1>6. \A j \in 1..(n + 2) : IsSeq(g[j])
  <2>1. \A j \in 1..(n + 2) : j \in 1..n \/ j = n + 1 \/ j = n + 2
    OBVIOUS
  <2>2. \A x : IsSeq(<<x>>)
    BY OneIsSeq
  <2>3. QED
    BY <1>4, <1>5, <2>1, <2>2 DEF Good
<1>7. PICK e : /\ e[0] = << >> /\ FlattenSeq(g) = e[n + 2]
               /\ \A i \in 1..(n + 2) : e[i] = e[i - 1] \o g[i]
  <2>1. PICK l \in Nat : l = n + 2
    OBVIOUS
  <2>2. g = [j \in 1..l |-> g[j]] /\ \A j \in 1..l : IsSeq(g[j])
    BY <1>3, <1>6, <2>1
  <2>3. PICK e : /\ e[0] = << >> /\ FlattenSeq(g) = e[l]
                 /\ \A i \in 1..l : e[i] = e[i - 1] \o g[i]
    BY <2>2, Flattening
  <2>4. QED
    BY <2>1, <2>3
<1> DEFINE T == {i \in Nat : i <= n => Good(e[i], L, W) /\ Awaited(e[i], q, i)}
<1>8. 0 \in T
  <2>1. Good(e[0], L, W)
    BY <1>7, GoodEmpty
  <2>2. Len(e[0]) = 0
    BY <1>7
  <2>3. Awaited(e[0], q, 0)
    BY <2>2 DEF Awaited
  <2>4. QED
    BY <2>1, <2>3
<1>9. ASSUME NEW i \in T PROVE i + 1 \in T
  <2>1. i \in Nat /\ (i <= n => Good(e[i], L, W) /\ Awaited(e[i], q, i))
    OBVIOUS
  <2>2. ASSUME i + 1 <= n PROVE Good(e[i + 1], L, W) /\ Awaited(e[i + 1], q, i + 1)
    <3>1. i <= n /\ i + 1 \in 1..n /\ i + 1 \in 1..(n + 2) /\ (i + 1) - 1 = i
      BY <2>1, <2>2
    <3>2. e[i + 1] = e[i] \o g[i + 1]
      BY <1>7, <3>1
    <3>3. Allowed(q[i + 1], L, W) /\ Substitute(q, i + 1, g[i + 1])
      BY <1>2, <1>3, <3>1
    <3>4. QED
      BY <2>1, <3>1, <3>2, <3>3, AwaitedStep
  <2>3. QED
    BY <2>1, <2>2
<1>10. Good(e[n], L, W) /\ Awaited(e[n], q, n)
  <2>1. T \in SUBSET Nat
    OBVIOUS
  <2> HIDE DEF T
  <2>2. n \in T
    BY <1>8, <1>9, <2>1, Induction
  <2>3. QED
    BY <2>2 DEF T
<1>11. ASSUME NEW h \in 1..n PROVE ~Outstands(q, h, n)
  <2> SUFFICES ASSUME Outstands(q, h, n) PROVE FALSE
    OBVIOUS
  <2>1. PICK j \in (h + 1)..n : q[j] = LdsWait
    BY <1>2 DEF Outstands
  <2>2. IsWait(q[j], "lgkm") /\ q[j].n = 0
    BY <2>1 DEF IsWait, LdsWait, Wait
  <2>3. QED
    BY <2>2 DEF Outstands, Unwaited
<1>12. Settled(e[n])
  BY <1>10, <1>11 DEF Awaited, Settled
<1>13. e[n + 2] = e[n] \o <<Barrier, Advance>>
  <2>1. /\ n + 1 \in 1..(n + 2) /\ n + 2 \in 1..(n + 2)
        /\ (n + 1) - 1 = n /\ (n + 2) - 1 = n + 1
    OBVIOUS
  <2>2. e[n + 1] = e[n] \o <<Barrier>> /\ e[n + 2] = e[n + 1] \o <<Advance>>
    BY <1>4, <1>7, <2>1
  <2>3. IsSeq(e[n])
    BY <1>10 DEF Good
  <2>4. (e[n] \o <<Barrier>>) \o <<Advance>> = e[n] \o <<Barrier, Advance>>
    BY <2>3, TwoElements
  <2>5. QED
    BY <2>2, <2>4
<1>14. QED
  BY <1>7, <1>10, <1>12, <1>13 DEF Ordered

\* A list of instructions whose waits are waits.
Waits(q) ==
  IsSeq(q) /\ \A i \in 1..Len(q) :
    q[i].op = "wait" => \E c \in {"vm", "lgkm"}, n \in Nat : q[i] = Wait(c, n)

\* The waits of the blocks of a kernel in phases are waits with a count.
LEMMA GoodWaits ==
  ASSUME NEW q, NEW L, NEW W, Good(q, L, W) \/ Ordered(q, L, W)
  PROVE  Waits(q)
<1>1. CASE Good(q, L, W)
  BY <1>1 DEF Good, Allowed, Waits
<1>2. CASE Ordered(q, L, W)
  <2>1. PICK before : Good(before, L, W) /\ q = before \o <<Barrier, Advance>>
    BY <1>2 DEF Ordered
  <2>2. /\ IsSeq(before)
        /\ \A i \in 1..Len(before) : Allowed(before[i], L, W)
    BY <2>1 DEF Good
  <2>3. IsSeq(Append(before, Barrier)) /\ q = Append(Append(before, Barrier), Advance)
    BY <2>1, <2>2, TwoElements, OneElement, AppendParts
  <2>4. /\ IsSeq(q) /\ Len(q) \in Nat /\ Len(q) >= 2
        /\ \A i \in 1..Len(q) - 2 : Allowed(q[i], L, W)
        /\ q[Len(q) - 1].op = "barrier" /\ q[Len(q)].op = "advance"
    BY <1>2, <2>3, AppendParts, OrderedParts
  <2>5. \A i \in 1..Len(q) : i \in 1..Len(q) - 2 \/ i = Len(q) - 1 \/ i = Len(q)
    BY <2>4
  <2>6. \A i \in 1..Len(q) : q[i].op = "wait" => i \in 1..Len(q) - 2
    BY <2>4, <2>5
  <2>7. QED
    BY <2>4, <2>6 DEF Waits, Allowed
<1>3. QED
  BY <1>1, <1>2

LEMMA WaitsCount ==
  ASSUME NEW q, Waits(q), NEW i \in 1..Len(q), q[i].op = "wait"
  PROVE  /\ q[i].counter \in {"vm", "lgkm"} /\ q[i].n \in Nat
         /\ q[i] = Wait(q[i].counter, q[i].n)
<1>1. PICK c \in {"vm", "lgkm"}, n \in Nat : q[i] = Wait(c, n)
  BY DEF Waits
<1>2. q[i].counter = c /\ q[i].n = n
  BY <1>1 DEF Wait
<1>3. QED
  BY <1>1, <1>2

\* A list is a function over its indices.
LEMMA WaitsDomain ==
  ASSUME NEW q, IsSeq(q)
  PROVE  DOMAIN q = 1..Len(q) /\ Len(q) \in Nat
<1>1. PICK S : q \in Seq(S)
  BY DEF IsSeq
<1>2. QED
  BY <1>1

\* optimize_waitcnt_mach_func only replaces waits, and keeps the ones that must wait.
LEMMA OptimizeReplaces ==
  ASSUME NEW q, Waits(q), NEW name
  PROVE  \E g : Replaced(q, g) /\ OptimizeWaitcnt(name, q) = FlattenSeq(g)
<1>1. PICK n0 \in Nat : n0 = IF name \in {"A", "B"} THEN 0 ELSE Unknown
  BY DEF Unknown
<1> DEFINE known(i) == Outstanding(q, q[i].counter, n0, i - 1)
           kept(i) == When(known(i) > q[i].n, <<q[i]>>)
           g == [i \in 1..Len(q) |-> IF q[i].op = "wait" THEN kept(i) ELSE <<q[i]>>]
<1>2. DOMAIN q = 1..Len(q) /\ Len(q) \in Nat
  BY WaitsDomain DEF Waits
<1>3. OptimizeWaitcnt(name, q) = FlattenSeq(g)
  BY <1>1, <1>2 DEF OptimizeWaitcnt, Rewritten
<1>4. ASSUME NEW j \in 1..Len(q) PROVE Substitute(q, j, g[j])
  <2>1. g[j] = IF q[j].op = "wait" THEN kept(j) ELSE <<q[j]>>
    OBVIOUS
  <2> HIDE DEF g
  <2>2. CASE q[j].op # "wait"
    <3>1. q[j] # LdsWait
      BY <2>2 DEF LdsWait, Wait
    <3>2. QED
      BY <2>1, <2>2, <3>1 DEF Substitute
  <2>3. CASE q[j].op = "wait"
    <3>1. /\ q[j].counter \in {"vm", "lgkm"} /\ q[j].n \in Nat
          /\ q[j] = Wait(q[j].counter, q[j].n)
      BY <2>3, WaitsCount
    <3>2. kept(j) = << >> \/ kept(j) = <<q[j]>>
      BY DEF When
    <3>3. kept(j) = << >> \/ \E m \in Nat : kept(j) = <<Wait(q[j].counter, m)>>
      <4> HIDE DEF kept
      <4>1. QED
        BY <3>1, <3>2
    <3>4. ASSUME q[j] = LdsWait, NEW h \in 1..(j - 1), Outstands(q, h, j - 1)
          PROVE  kept(j) = <<LdsWait>>
      <4>1. q[j].counter = "lgkm" /\ q[j].n = 0
        BY <3>4 DEF LdsWait, Wait
      <4>2. j - 1 \in Nat
        OBVIOUS
      <4>3. Waiting(q, j - 1)
        <5>1. \A m \in 1..(j - 1) : m \in 1..Len(q)
          BY <1>2
        <5>2. QED
          BY <5>1, WaitsCount DEF Waiting
      <4>4. known(j) \in Nat /\ known(j) >= 1
        BY <3>4, <4>1, <4>2, <4>3, OutstandingLemma DEF Outstands
      <4> HIDE DEF known
      <4>5. known(j) > q[j].n
        BY <4>1, <4>4
      <4>6. QED
        BY <3>4, <4>5 DEF When
    <3> HIDE DEF kept
    <3>5. QED
      BY <2>1, <2>3, <3>3, <3>4 DEF Substitute
  <2>4. QED
    BY <2>2, <2>3
<1>5. g = [j \in 1..Len(q) |-> g[j]]
  OBVIOUS
<1> HIDE DEF g
<1>6. QED
  BY <1>3, <1>4, <1>5 DEF Replaced

\* The elements of two lists put together.
LEMMA JoinParts ==
  ASSUME NEW p, IsSeq(p), NEW q, IsSeq(q)
  PROVE  /\ Len(p) \in Nat /\ Len(q) \in Nat /\ Len(p \o q) = Len(p) + Len(q)
         /\ \A i \in 1..Len(p) : (p \o q)[i] = p[i]
         /\ \A i \in 1..Len(q) : (p \o q)[Len(p) + i] = q[i]
<1>1. p \in Seq(Elements(p)) /\ q \in Seq(Elements(q))
  BY ElementsLemma
<1>2. PICK S : p \in Seq(S) /\ q \in Seq(S)
  <2>1. p \in Seq(Elements(p) \cup Elements(q)) /\ q \in Seq(Elements(p) \cup Elements(q))
    BY <1>1
  <2>2. QED
    BY <2>1
<1>3. PICK k \in Nat, l \in Nat : k = Len(p) /\ l = Len(q)
  BY <1>2
<1> DEFINE r == p \o q
<1>4. /\ Len(r) = k + l
      /\ \A i \in 1..k + l : r[i] = IF i <= k THEN p[i] ELSE q[i - k]
  BY <1>2, <1>3, ConcatProperties
<1> HIDE DEF r
<1>5. \A i \in 1..k : r[i] = p[i]
  BY <1>4
<1>6. ASSUME NEW i \in 1..l PROVE r[k + i] = q[i]
  <2>1. k + i \in 1..k + l /\ ~(k + i <= k) /\ (k + i) - k = i
    OBVIOUS
  <2>2. QED
    BY <1>4, <2>1
<1>7. QED
  BY <1>3, <1>4, <1>5, <1>6 DEF r

\* What is outstanding in a block is outstanding in the text it ends.
LEMMA OutstandsInText ==
  ASSUME NEW p, IsSeq(p), NEW q, IsSeq(q), NEW j \in 1..Len(q),
         NEW h \in 1..(j - 1), Outstands(q, h, j - 1)
  PROVE  /\ Len(p) + h \in 1..(Len(p) + j - 1)
         /\ Outstands(p \o q, Len(p) + h, Len(p) + j - 1)
<1>1. PICK k \in Nat, l \in Nat : k = Len(p) /\ l = Len(q)
  BY JoinParts
<1>2. PICK r : r = p \o q
  OBVIOUS
<1>3. \A i \in 1..l : r[k + i] = q[i]
  BY <1>1, <1>2, JoinParts
<1>4. h \in 1..l /\ j \in Int /\ h \in Int
  BY <1>1
<1>5. ASSUME NEW m \in ((k + h) + 1)..(k + j - 1)
      PROVE  ~(IsWait(r[m], "lgkm") /\ r[m].n = 0)
  <2>1. PICK i : i = m - k
    OBVIOUS
  <2>2. i \in (h + 1)..(j - 1) /\ i \in 1..l /\ m = k + i
    BY <1>1, <1>4, <2>1
  <2>3. r[m] = q[i]
    BY <1>3, <2>2
  <2>4. QED
    BY <2>2, <2>3 DEF Outstands, Unwaited
<1>6. Outstands(r, k + h, k + j - 1)
  BY <1>3, <1>4, <1>5 DEF Outstands, Unwaited
<1>7. k + h \in 1..(k + j - 1)
  BY <1>4
<1>8. QED
  BY <1>1, <1>2, <1>6, <1>7

\* So does the clamping of AsmEmitter, whatever text stands before the block.
LEMMA EmitReplaces ==
  ASSUME NEW p, Waits(p), NEW q, Waits(q)
  PROVE  \E g : Replaced(q, g) /\ EmitWaits(p, q) = FlattenSeq(g)
<1> DEFINE text == p \o q
           known(i) == Outstanding(text, q[i].counter, 0, Len(p) + i - 1)
           left(i) == LeastOf(q[i].n, known(i))
           kept(i) == When(q[i].n > 0 \/ known(i) > 0, <<Wait(q[i].counter, left(i))>>)
           g == [i \in 1..Len(q) |-> IF q[i].op = "wait" THEN kept(i) ELSE <<q[i]>>]
<1>1. IsSeq(p) /\ IsSeq(q) /\ Len(p) \in Nat
  BY WaitsDomain DEF Waits
<1>2. DOMAIN q = 1..Len(q) /\ Len(q) \in Nat
  BY <1>1, WaitsDomain
<1>3. EmitWaits(p, q) = FlattenSeq(g)
  BY <1>2 DEF EmitWaits, Rewritten
<1>4. ASSUME NEW j \in 1..Len(q) PROVE Waiting(text, Len(p) + j - 1)
  <2> SUFFICES ASSUME NEW m \in 1..(Len(p) + j - 1), text[m].op = "wait"
               PROVE  text[m].n \in Nat
    BY DEF Waiting
  <2>1. CASE m <= Len(p)
    <3>1. m \in 1..Len(p)
      BY <1>1, <2>1
    <3>2. text[m] = p[m]
      BY <1>1, <3>1, JoinParts
    <3> HIDE DEF text
    <3>3. QED
      BY <3>1, <3>2, WaitsCount
  <2>2. CASE ~(m <= Len(p))
    <3>1. PICK i : i = m - Len(p)
      OBVIOUS
    <3>2. i \in 1..Len(q) /\ m = Len(p) + i
      BY <1>1, <1>2, <2>2, <3>1
    <3>3. text[m] = q[i]
      BY <1>1, <3>2, JoinParts
    <3> HIDE DEF text
    <3>4. QED
      BY <3>2, <3>3, WaitsCount
  <2>3. QED
    BY <2>1, <2>2
<1>5. ASSUME NEW j \in 1..Len(q)
      PROVE  /\ known(j) \in Nat
             /\ \A h \in 1..(Len(p) + j - 1) :
                  q[j].counter = "lgkm" /\ Outstands(text, h, Len(p) + j - 1) => known(j) >= 1
  <2>1. Len(p) + j - 1 \in Nat /\ Waiting(text, Len(p) + j - 1)
    BY <1>1, <1>4
  <2> HIDE DEF text
  <2>2. QED
    BY <2>1, OutstandingLemma DEF Outstands
<1>6. ASSUME NEW j \in 1..Len(q) PROVE Substitute(q, j, g[j])
  <2>1. g[j] = IF q[j].op = "wait" THEN kept(j) ELSE <<q[j]>>
    OBVIOUS
  <2> HIDE DEF g
  <2>2. CASE q[j].op # "wait"
    <3>1. q[j] # LdsWait
      BY <2>2 DEF LdsWait, Wait
    <3>2. QED
      BY <2>1, <2>2, <3>1 DEF Substitute
  <2>3. CASE q[j].op = "wait"
    <3>1. /\ q[j].counter \in {"vm", "lgkm"} /\ q[j].n \in Nat
          /\ q[j] = Wait(q[j].counter, q[j].n)
      BY <2>3, WaitsCount
    <3>2. left(j) \in Nat /\ left(j) <= q[j].n
      <4>1. {q[j].n, known(j)} \in SUBSET Nat
        BY <1>5, <3>1
      <4> HIDE DEF known
      <4>2. QED
        BY <4>1, LeastIn DEF LeastOf
    <3>3. kept(j) = << >> \/ kept(j) = <<Wait(q[j].counter, left(j))>>
      BY DEF When
    <3>4. kept(j) = << >> \/ \E m \in Nat : kept(j) = <<Wait(q[j].counter, m)>>
      <4> HIDE DEF kept, left
      <4>1. QED
        BY <3>2, <3>3
    <3>5. ASSUME q[j] = LdsWait, NEW h \in 1..(j - 1), Outstands(q, h, j - 1)
          PROVE  kept(j) = <<LdsWait>>
      <4>1. q[j].counter = "lgkm" /\ q[j].n = 0
        BY <3>5 DEF LdsWait, Wait
      <4>2. /\ Len(p) + h \in 1..(Len(p) + j - 1)
            /\ Outstands(text, Len(p) + h, Len(p) + j - 1)
        BY <1>1, <3>5, OutstandsInText
      <4>3. known(j) \in Nat /\ known(j) >= 1
        <5> HIDE DEF known, text
        <5>1. QED
          BY <1>5, <4>1, <4>2
      <4>4. known(j) > 0
        <5> HIDE DEF known
        <5>1. QED
          BY <4>3
      <4>5. left(j) = 0
        <5> HIDE DEF left
        <5>1. QED
          BY <3>2, <4>1
      <4> HIDE DEF known, left
      <4>6. kept(j) = <<Wait("lgkm", 0)>>
        BY <4>1, <4>4, <4>5 DEF When
      <4>7. QED
        BY <4>6 DEF LdsWait
    <3> HIDE DEF kept
    <3>6. QED
      BY <2>1, <2>3, <3>4, <3>5 DEF Substitute
  <2>4. QED
    BY <2>2, <2>3
<1>7. g = [j \in 1..Len(q) |-> g[j]]
  OBVIOUS
<1> HIDE DEF g
<1>8. QED
  BY <1>3, <1>6, <1>7 DEF Replaced

-----------------------------------------------------------------------------
(* Every kernel, and every run of it. *)

\* The blocks that have code.
WorkBlocks == Main \cup Epilogs \cup {"store"}

\* Every block of a kernel in phases has waits with a count.
LEMMA PhasedWaits ==
  ASSUME NEW c, Phased(c), NEW b \in WorkBlocks
  PROVE  Waits(c[b])
<1>1. CASE b \in Main
  BY <1>1, GoodWaits DEF Phased
<1>2. CASE b \in Epilogs \cup {"store"}
  BY <1>2, GoodWaits DEF Phased
<1>3. QED
  BY <1>1, <1>2 DEF WorkBlocks

\* Replacing waits, block by block, keeps a kernel in phases.
LEMMA ReplacedPhased ==
  ASSUME NEW c, Phased(c), NEW d,
         \A b \in WorkBlocks : \E g : Replaced(c[b], g) /\ d[b] = FlattenSeq(g)
  PROVE  Phased(d)
<1>1. ASSUME NEW b \in Main PROVE Ordered(d[b], LoadBufs(b), StoreBufs(b))
  <2>1. PICK g : Replaced(c[b], g) /\ d[b] = FlattenSeq(g)
    BY DEF WorkBlocks
  <2>2. Ordered(c[b], LoadBufs(b), StoreBufs(b))
    BY DEF Phased
  <2>3. QED
    BY <2>1, <2>2, ReplacedOrdered
<1>2. ASSUME NEW b \in Epilogs \cup {"store"} PROVE Good(d[b], LoadBufs(b), {})
  <2>1. PICK g : Replaced(c[b], g) /\ d[b] = FlattenSeq(g)
    BY DEF WorkBlocks
  <2>2. Good(c[b], LoadBufs(b), {})
    BY DEF Phased
  <2>3. QED
    BY <2>1, <2>2, ReplacedGood
<1>3. QED
  BY <1>1, <1>2 DEF Phased

\* The optimizer keeps a kernel in phases.
LEMMA OptimizedPhased ==
  ASSUME NEW s, NEW c, Phased(c), DOMAIN c = WorkBlocks
  PROVE  Phased(Optimized(s, c)) /\ DOMAIN Optimized(s, c) = WorkBlocks
<1>1. CASE s.gen = "tile_ir"
  <2> DEFINE d == [b \in WorkBlocks |-> OptimizeWaitcnt(b, c[b])]
  <2>1. Optimized(s, c) = d
    BY <1>1 DEF Optimized
  <2>2. \A b \in WorkBlocks : d[b] = OptimizeWaitcnt(b, c[b])
    OBVIOUS
  <2>3. DOMAIN d = WorkBlocks
    OBVIOUS
  <2> HIDE DEF d
  <2>4. \A b \in WorkBlocks : \E g : Replaced(c[b], g) /\ d[b] = FlattenSeq(g)
    BY <2>2, PhasedWaits, OptimizeReplaces
  <2>5. Phased(d)
    BY <2>4, ReplacedPhased
  <2>6. QED
    BY <2>1, <2>3, <2>5
<1>2. CASE s.gen # "tile_ir"
  BY <1>2 DEF Optimized
<1>3. QED
  BY <1>1, <1>2

\* The text in front of a block has waits with a count.
LEMMA FlattenWaits ==
  ASSUME NEW n \in Nat, NEW g, g = [i \in 1..n |-> g[i]], \A i \in 1..n : Waits(g[i])
  PROVE  Waits(FlattenSeq(g))
<1> DEFINE S == UNION {Elements(g[i]) : i \in 1..n}
           W(x) == x.op = "wait" => \E c \in {"vm", "lgkm"}, m \in Nat : x = Wait(c, m)
<1>1. \A x \in S : W(x)
  BY DEF Elements, Waits
<1>2. \A i \in 1..n : g[i] \in Seq(S)
  <2> SUFFICES ASSUME NEW i \in 1..n PROVE g[i] \in Seq(S)
    OBVIOUS
  <2>1. g[i] \in Seq(Elements(g[i])) /\ Elements(g[i]) \subseteq S
    BY ElementsLemma DEF Waits
  <2> HIDE DEF S
  <2>2. QED
    BY <2>1
<1>3. IsSeq(g) /\ Len(g) = n /\ (n = 0 => g = << >>)
  BY ListOf
<1> HIDE DEF S
<1>4. FlattenSeq(g) \in Seq(S)
  BY <1>2, <1>3, FlattenIn
<1>5. IsSeq(FlattenSeq(g)) /\ \A i \in 1..Len(FlattenSeq(g)) : FlattenSeq(g)[i] \in S
  BY <1>4 DEF IsSeq
<1>6. QED
  BY <1>1, <1>5 DEF Waits

\* Every block has its place in the text.
LEMMA BlockPlaces ==
  /\ DOMAIN Blocks = 1..6
  /\ \A i \in 1..6 : Blocks[i] \in WorkBlocks
  /\ \A b \in WorkBlocks : \E i \in 1..6 : Blocks[i] = b
<1>1. DOMAIN Blocks = 1..6
  BY DEF Blocks
<1>2. {Blocks[i] : i \in 1..6} = WorkBlocks
  BY BlockNames DEF WorkBlocks
<1>3. QED
  BY <1>1, <1>2

\* The emitter keeps a kernel in phases.
LEMMA EmittedPhased ==
  ASSUME NEW c, Phased(c), DOMAIN c = WorkBlocks
  PROVE  Phased(Emitted(c))
<1> DEFINE before(i) == [k \in 1..(i - 1) |-> c[Blocks[(k - 1) + 1]]]
           place(b) == CHOOSE i \in DOMAIN Blocks : Blocks[i] = b
           d == [b \in WorkBlocks |-> EmitWaits(FlattenSeq(before(place(b))), c[b])]
<1>1. Emitted(c) = d
  BY DEF Emitted, Each
<1>2. \A b \in WorkBlocks : place(b) \in 1..6
  BY BlockPlaces
<1>3. \A b \in WorkBlocks : d[b] = EmitWaits(FlattenSeq(before(place(b))), c[b])
  OBVIOUS
<1> HIDE DEF d, place
<1>4. ASSUME NEW i \in 1..6 PROVE Waits(FlattenSeq(before(i)))
  <2> DEFINE g == before(i)
  <2>1. i - 1 \in Nat
    OBVIOUS
  <2>2. \A k \in 1..(i - 1) : g[k] = c[Blocks[(k - 1) + 1]] /\ (k - 1) + 1 \in 1..6
    OBVIOUS
  <2>3. g = [k \in 1..(i - 1) |-> g[k]]
    OBVIOUS
  <2> HIDE DEF g
  <2>4. \A k \in 1..(i - 1) : Waits(g[k])
    BY <2>2, BlockPlaces, PhasedWaits
  <2>5. PICK n \in Nat : n = i - 1
    BY <2>1
  <2>6. Waits(FlattenSeq(g))
    BY <2>3, <2>4, <2>5, FlattenWaits
  <2>7. QED
    BY <2>6 DEF g
<1> HIDE DEF before
<1>5. ASSUME NEW b \in WorkBlocks PROVE \E g : Replaced(c[b], g) /\ d[b] = FlattenSeq(g)
  BY <1>2, <1>3, <1>4, PhasedWaits, EmitReplaces
<1>6. Phased(d)
  BY <1>5, ReplacedPhased
<1>7. QED
  BY <1>1, <1>6

\* Every kernel that can be compiled is in phases.
LEMMA CompiledPhased ==
  ASSUME NEW s, Sized(s), NEW c \in Compiled(s)
  PROVE  Phased(c)
<1>1. c = Emitted(Optimized(s, Lowered(s)))
  BY DEF Compiled
<1>2. Phased(Lowered(s)) /\ DOMAIN Lowered(s) = WorkBlocks
  BY LoweredPhased DEF WorkBlocks
<1>3. QED
  BY <1>1, <1>2, OptimizedPhased, EmittedPhased

\* Every launch is of a kernel whose sizes are counts.
LEMMA ProblemsSized ==
  ASSUME NEW p \in Problems
  PROVE  Sized(p.spec)
<1>1. PICK s : s = p.spec
  OBVIOUS
<1>2. PICK m \in Nat \ {0}, n \in Nat \ {0}, k \in Nat \ {0}, t \in Nat \ {0} :
        m = s.tile_m /\ n = s.tile_n /\ k = s.tile_k /\ t = s.wg_size
  BY <1>1, ProblemsAssumption
<1>3. Lowers(s) /\ t >= 32
  BY <1>1, <1>2, ProblemsAssumption
<1>4. PICK q : q = ChunksPerRow(s)
  OBVIOUS
<1>5. q \in Nat
  BY <1>2, <1>4, DivLemma DEF ChunksPerRow
<1>6. PICK w : w = NWaves(s)
  OBVIOUS
<1>7. w \in Nat /\ w >= 1
  BY <1>2, <1>3, <1>6 DEF NWaves
<1>8. PICK r : r = RowsPerWave(s)
  OBVIOUS
<1>9. r \in Nat
  BY <1>2, <1>6, <1>7, <1>8, DivLemma DEF RowsPerWave
<1>10. LoadsPerThread(s, "X") \in Nat /\ LoadsPerThread(s, "WT") \in Nat
  <2>1. LoadsPerThread(s, "X") = (m * q) \div t /\ LoadsPerThread(s, "WT") = (n * q) \div t
    BY <1>2, <1>4 DEF LoadsPerThread, TileRows
  <2>2. m * q \in Nat /\ n * q \in Nat
    BY <1>5
  <2>3. QED
    BY <2>1, <2>2, DivLemma
<1>11. NRowBlocks(s) = r \div 16 /\ NRowBlocks(s) \in Nat
  BY <1>8, <1>9 DEF NRowBlocks
<1>12. NColTiles(s) \in Nat /\ KSubSteps(s) \in Nat
  BY <1>2 DEF NColTiles, KSubSteps
<1>13. s.gen = "gemm_gen" => NRowBlocks(s) >= 1
  <2>1. s.gen = "gemm_gen" => r \in {16, 32, 64}
    BY <1>3, <1>8 DEF Lowers
  <2>2. QED
    BY <1>11, <2>1
<1>14. QED
  BY <1>1, <1>10, <1>11, <1>12, <1>13 DEF Sized

\* At the start every wave is at the head of the prologue.
LEMMA InitInStep == Init => InStep
<1> SUFFICES ASSUME Init PROVE InStep
  OBVIOUS
<1>1. /\ problem \in Problems /\ code \in Compiled(Spc)
      /\ at = [w \in Waves |-> AtStart]
      /\ kIter = [w \in Waves |-> 0] /\ lgkm = [w \in Waves |-> << >>] /\ arrived = {}
  BY DEF Init
<1>2. Phased(code)
  BY <1>1, ProblemsSized, CompiledPhased DEF Spc
<1>3. AtStart = [block |-> "prologue", i |-> 1] /\ "prologue" \in Main /\ "prologue" \in Names
  BY DEF AtStart, Main, Names
<1>4. Len(code["prologue"]) \in Nat /\ Len(code["prologue"]) >= 2
  BY <1>2, <1>3, OrderedParts DEF Phased
<1>5. ASSUME NEW w \in Waves
      PROVE  /\ at[w].block = "prologue" /\ at[w].i = 1 /\ kIter[w] = 0
             /\ lgkm[w] = << >> /\ IsSeq(lgkm[w])
             /\ AtStart \in [block : Names, i : Nat \ {0}]
  <2>1. at[w] = AtStart /\ lgkm[w] = << >> /\ kIter[w] = 0
    BY <1>1
  <2>2. IsSeq(lgkm[w])
    <3>1. << >> \in Seq({})
      OBVIOUS
    <3>2. PICK S : << >> \in Seq(S)
      BY <3>1
    <3>3. QED
      BY <2>1, <3>2 DEF IsSeq
  <2>3. QED
    BY <1>3, <2>1, <2>2
<1>6. ASSUME NEW w \in Waves PROVE Placed(w, "prologue", 0)
  <2>1. Len(lgkm[w]) = 0
    BY <1>5
  <2>2. InFlight(w, "prologue")
    BY <1>5, <2>1 DEF InFlight
  <2>3. 1 \in 1..(Len(code["prologue"]) - 1)
    BY <1>4
  <2>4. Inside(w, "prologue", 0)
    BY <1>3, <1>5, <2>2, <2>3 DEF Inside
  <2>5. QED
    BY <2>4 DEF Placed
<1>7. at \in [Waves -> [block : Names, i : Nat \ {0}]]
  BY <1>1, <1>5
<1>8. DOMAIN lgkm = Waves /\ DOMAIN kIter = Waves /\ \A w \in arrived : FALSE
  BY <1>1
<1>9. QED
  BY <1>1, <1>2, <1>3, <1>5, <1>6, <1>7, <1>8 DEF InStep

\* NoLdsRace for every kernel, however many waves run it and for however long: the two
\* LDS buffers and the one barrier per tile of lower_gemm and gemm_gen are enough, and
\* the wait in front of that barrier survives both passes over the waits.
THEOREM TilesNeverRace == Spec => []NoLdsRace
<1>1. Init => InStep
  BY InitInStep
<1>2. InStep /\ [Next]_vars => InStep'
  BY NextInStep
<1>3. InStep => NoLdsRace
  BY NoRaceInPhase
<1>4. QED
  BY <1>1, <1>2, <1>3, PTL DEF Spec

-----------------------------------------------------------------------------
\* What a counter counts, and the waits that cover an operation.

\* The two counters a wave waits on.
Counters == {"vm", "lgkm"}

\* How many of the first i instructions of q the counter c counts.
Issued(q, c, i) == Cardinality({g \in 1..i : Counts(q[g], c)})

\* The wait j of q is long enough for the operation h.
Covers(q, c, h, j) == IsWait(q[j], c) /\ q[j].n <= Issued(q, c, j) - Issued(q, c, h)

\* Some wait among the instructions h + 1 to i of q is.
Covered(q, c, h, i) == \E j \in (h + 1)..i : Covers(q, c, h, j)

\* No wait is itself counted.
LEMMA CountsNoWait ==
  ASSUME NEW x, NEW c \in Counters
  PROVE  /\ Counts(x, c) \in BOOLEAN
         /\ \A d : IsWait(x, d) => ~Counts(x, c)
<1>1. CASE c = "vm"
  BY <1>1 DEF Counts, IsWait
<1>2. CASE c = "lgkm"
  BY <1>2 DEF Counts, IsWait
<1>3. QED
  BY <1>1, <1>2 DEF Counters

\* The set counted by Issued is finite.
LEMMA IssuedType ==
  ASSUME NEW q, NEW c, NEW i \in Nat
  PROVE  IsFiniteSet({g \in 1..i : Counts(q[g], c)}) /\ Issued(q, c, i) \in Nat
<1> DEFINE S == {g \in 1..i : Counts(q[g], c)}
<1>1. S \in SUBSET (1..i)
  OBVIOUS
<1>2. IsFiniteSet(1..i)
  BY FS_Interval
<1> HIDE DEF S
<1>3. IsFiniteSet(S) /\ Cardinality(S) \in Nat
  BY <1>1, <1>2, FS_Subset, FS_CardinalityType
<1>4. QED
  BY <1>3 DEF S, Issued

\* Nothing is counted in front of the first instruction.
LEMMA IssuedZero ==
  ASSUME NEW q, NEW c
  PROVE  Issued(q, c, 0) = 0
<1>1. {g \in 1..0 : Counts(q[g], c)} = {}
  OBVIOUS
<1>2. QED
  BY <1>1, FS_EmptySet DEF Issued

\* One more instruction counts for one or for nothing.
LEMMA IssuedStep ==
  ASSUME NEW q, NEW c \in Counters, NEW i \in Nat
  PROVE  Issued(q, c, i + 1) = Issued(q, c, i) + IF Counts(q[i + 1], c) THEN 1 ELSE 0
<1> DEFINE S == {g \in 1..i : Counts(q[g], c)}
           T == {g \in 1..(i + 1) : Counts(q[g], c)}
<1>1. IsFiniteSet(S) /\ Cardinality(S) \in Nat
  BY IssuedType DEF Issued
<1>2. CASE Counts(q[i + 1], c)
  <2>1. T = S \cup {i + 1} /\ i + 1 \notin S
    BY <1>2
  <2> HIDE DEF S, T
  <2>2. Cardinality(T) = Cardinality(S) + 1
    BY <1>1, <2>1, FS_AddElement
  <2>3. QED
    BY <1>2, <2>2 DEF S, T, Issued
<1>3. CASE ~Counts(q[i + 1], c)
  <2>1. T = S
    BY <1>3
  <2>2. QED
    BY <1>1, <1>3, <2>1 DEF Issued
<1>4. QED
  BY <1>2, <1>3, CountsNoWait

\* The count never falls, and grows where something is counted in between.
LEMMA IssuedGrows ==
  ASSUME NEW q, NEW c \in Counters, NEW j \in Nat, NEW i \in 0..j
  PROVE  /\ Issued(q, c, i) \in Nat /\ Issued(q, c, j) \in Nat
         /\ Issued(q, c, i) <= Issued(q, c, j)
         /\ (\E h \in (i + 1)..j : Counts(q[h], c)) => Issued(q, c, i) + 1 <= Issued(q, c, j)
         /\ (\A h \in (i + 1)..j : ~Counts(q[h], c)) => Issued(q, c, i) = Issued(q, c, j)
<1> DEFINE S == {g \in 1..i : Counts(q[g], c)}
           T == {g \in 1..j : Counts(q[g], c)}
<1>1. IsFiniteSet(S) /\ IsFiniteSet(T) /\ Cardinality(S) \in Nat /\ Cardinality(T) \in Nat
  BY IssuedType DEF Issued
<1>2. S \subseteq T
  OBVIOUS
<1>3. Cardinality(S) <= Cardinality(T)
  <2> HIDE DEF S, T
  <2>1. QED
    BY <1>1, <1>2, FS_Subset
<1>4. ASSUME NEW h \in (i + 1)..j, Counts(q[h], c)
      PROVE  Cardinality(S) + 1 <= Cardinality(T)
  <2>1. h \in T /\ h \notin S
    BY <1>4
  <2>2. S \cup {h} \subseteq T
    BY <1>2, <2>1
  <2> HIDE DEF S, T
  <2>3. IsFiniteSet(S \cup {h}) /\ Cardinality(S \cup {h}) = Cardinality(S) + 1
    BY <1>1, <2>1, FS_AddElement
  <2>4. Cardinality(S \cup {h}) <= Cardinality(T)
    BY <1>1, <2>2, FS_Subset
  <2>5. QED
    BY <2>3, <2>4
<1>5. ASSUME \A h \in (i + 1)..j : ~Counts(q[h], c)
      PROVE  S = T
  <2>1. \A h \in 1..j : h \in 1..i \/ h \in (i + 1)..j
    OBVIOUS
  <2>2. QED
    BY <1>5, <2>1
<1>6. QED
  BY <1>1, <1>3, <1>4, <1>5 DEF Issued

\* The count is the same for two lists that agree so far.
LEMMA IssuedSame ==
  ASSUME NEW p, NEW q, NEW c, NEW i \in Nat, \A g \in 1..i : p[g] = q[g]
  PROVE  Issued(p, c, i) = Issued(q, c, i)
<1>1. {g \in 1..i : Counts(p[g], c)} = {g \in 1..i : Counts(q[g], c)}
  OBVIOUS
<1>2. QED
  BY <1>1 DEF Issued

\* What is counted in between is the difference of the counts.
LEMMA IssuedBetween ==
  ASSUME NEW q, NEW c \in Counters, NEW i \in Nat, NEW j \in 0..i
  PROVE  Cardinality({h \in (j + 1)..i : Counts(q[h], c)}) = Issued(q, c, i) - Issued(q, c, j)
<1> DEFINE S == {g \in 1..j : Counts(q[g], c)}
           T == {g \in 1..i : Counts(q[g], c)}
           D == {h \in (j + 1)..i : Counts(q[h], c)}
<1>1. IsFiniteSet(S) /\ IsFiniteSet(T) /\ Cardinality(S) \in Nat /\ Cardinality(T) \in Nat
  BY IssuedType DEF Issued
<1>2. S \cup D = T /\ S \cap D = {} /\ D \subseteq T
  OBVIOUS
<1> HIDE DEF S, T, D
<1>3. IsFiniteSet(D) /\ Cardinality(D) \in Nat
  BY <1>1, <1>2, FS_Subset, FS_CardinalityType
<1>4. Cardinality(T) = Cardinality(S) + Cardinality(D) - Cardinality({})
  BY <1>1, <1>2, <1>3, FS_Union
<1>5. Cardinality({}) = 0
  BY FS_EmptySet
<1>6. Cardinality(D) = Cardinality(T) - Cardinality(S)
  BY <1>1, <1>3, <1>4, <1>5
<1>7. QED
  BY <1>6 DEF S, T, D, Issued

\* The counts of two lists add up when the second follows the first.
LEMMA IssuedJoin ==
  ASSUME NEW p, IsSeq(p), NEW q, IsSeq(q), NEW c \in Counters, NEW i \in 0..Len(q)
  PROVE  Issued(p \o q, c, Len(p) + i) = Issued(p, c, Len(p)) + Issued(q, c, i)
<1>1. PICK k \in Nat, l \in Nat : k = Len(p) /\ l = Len(q)
  BY JoinParts
<1>2. PICK r : r = p \o q
  OBVIOUS
<1>3. (\A g \in 1..k : r[g] = p[g]) /\ (\A g \in 1..l : r[k + g] = q[g])
  BY <1>1, <1>2, JoinParts
<1> DEFINE T == {m \in Nat : m <= l => Issued(r, c, k + m) = Issued(p, c, k) + Issued(q, c, m)}
<1>4. 0 \in T
  <2>1. \A g \in 1..k : r[g] = p[g]
    BY <1>3
  <2>2. Issued(r, c, k) = Issued(p, c, k)
    BY <2>1, IssuedSame
  <2>3. Issued(p, c, k) \in Nat /\ Issued(q, c, 0) = 0
    BY IssuedType, IssuedZero
  <2>4. QED
    BY <2>2, <2>3
<1>5. ASSUME NEW m \in T PROVE m + 1 \in T
  <2>1. m \in Nat /\ (k + m) + 1 = k + (m + 1) /\ k + m \in Nat
    OBVIOUS
  <2>2. CASE m + 1 <= l
    <3>1. Issued(r, c, k + m) = Issued(p, c, k) + Issued(q, c, m)
      BY <2>1, <2>2
    <3>2. r[k + (m + 1)] = q[m + 1]
      BY <1>3, <2>1, <2>2
    <3>3. PICK d : d = IF Counts(q[m + 1], c) THEN 1 ELSE 0
      OBVIOUS
    <3>4. /\ Issued(r, c, k + (m + 1)) = Issued(r, c, k + m) + d
          /\ Issued(q, c, m + 1) = Issued(q, c, m) + d
      BY <2>1, <3>2, <3>3, IssuedStep
    <3>5. Issued(q, c, m) \in Nat /\ Issued(p, c, k) \in Nat /\ d \in Nat
      BY <2>1, <3>3, IssuedType
    <3>6. QED
      BY <2>1, <3>1, <3>4, <3>5
  <2>3. CASE ~(m + 1 <= l)
    BY <2>1, <2>3
  <2>4. QED
    BY <2>2, <2>3
<1>6. T \in SUBSET Nat
  OBVIOUS
<1> HIDE DEF T
<1>7. \A m \in Nat : m \in T
  BY <1>4, <1>5, <1>6, Induction
<1>8. i \in Nat /\ i <= l
  BY <1>1
<1>9. i \in T
  BY <1>7, <1>8
<1>10. QED
  BY <1>1, <1>2, <1>8, <1>9 DEF T

-----------------------------------------------------------------------------
\* Facts: how long ago the operations were issued that write a register.

\* The registers an instruction writes when it lands.
Writes(x) ==
  CASE x.op \in {"buffer_load", "ds_load"} -> {x.dst}
    [] x.op = "swap_in" -> {<<"temp">>}
    [] OTHER -> {}

\* The registers a load may write: what is on its way from global memory, the fragments
\* of the two factors, and the temporary of an exchanged accumulator.
VmRegs == {"X", "WT"} \X Nat

\* The halves of the fragments of both factors.
Frags == {"A", "B"} \X Nat \X {0, 1}

\* What a load from the LDS may write.
LdsRegs == Frags \cup {<<"temp">>}

\* What any load may write.
Regs == VmRegs \cup LdsRegs

\* In the list p no instruction needs a register that an operation counted by c, not
\* waited for yet, will write.
Safe(p, c) ==
  \A i \in 1..Len(p) :
    /\ Writes(p[i]) \subseteq Regs
    /\ \A h \in 1..(i - 1) :
         Counts(p[h], c) /\ Writes(p[h]) \cap Sources(p[i]) # {} => Covered(p, c, h, i - 1)

\* Behind every operation of p that may still write r, at least a others were issued.
Aged(p, c, r, a) ==
  \A h \in 1..Len(p) :
    Counts(p[h], c) /\ r \in Writes(p[h]) /\ ~Covered(p, c, h, Len(p))
      => Issued(p, c, Len(p)) - Issued(p, c, h) >= a

\* Every fact of F, a register and an age, holds behind p.
Facts(p, c, F) == \A f \in F : Aged(p, c, f[1], f[2])

\* The piece of code q, behind any list of which F is known, waits long enough for what
\* it needs and leaves G known.  This is what is shown of each part of a generator.
Does(c, F, q, G) ==
  /\ Waits(q)
  /\ \A p : Waits(p) /\ Safe(p, c) /\ Facts(p, c, F)
              => Waits(p \o q) /\ Safe(p \o q, c) /\ Facts(p \o q, c, G)

\* By the facts F, no outstanding operation writes r: its age is beyond every bound.
Clear(F, r) == \A a \in Nat : <<r, a>> \in F

\* Which waits cover an operation depends on the instructions up to them only.
LEMMA CoveredPrefix ==
  ASSUME NEW p, NEW q, NEW c \in Counters, NEW n \in Nat, \A g \in 1..n : p[g] = q[g],
         NEW i \in 0..n, NEW h \in 1..n
  PROVE  Covered(p, c, h, i) <=> Covered(q, c, h, i)
<1>1. ASSUME NEW j \in (h + 1)..i PROVE Covers(p, c, h, j) <=> Covers(q, c, h, j)
  <2>1. j \in 1..n /\ j \in Nat /\ h \in Nat
    OBVIOUS
  <2>2. \A g \in 1..j : p[g] = q[g]
    BY <2>1
  <2>3. \A g \in 1..h : p[g] = q[g]
    OBVIOUS
  <2>4. Issued(p, c, j) = Issued(q, c, j) /\ Issued(p, c, h) = Issued(q, c, h)
    BY <2>1, <2>2, <2>3, IssuedSame
  <2>5. p[j] = q[j]
    BY <2>1
  <2>6. QED
    BY <2>4, <2>5 DEF Covers
<1>2. QED
  BY <1>1 DEF Covered

\* Lists of instructions with well-formed waits can be joined.
LEMMA WaitsJoin ==
  ASSUME NEW p, Waits(p), NEW q, Waits(q)
  PROVE  Waits(p \o q)
<1>1. IsSeq(p) /\ IsSeq(q)
  BY DEF Waits
<1>2. PICK k \in Nat, l \in Nat : k = Len(p) /\ l = Len(q)
  BY <1>1, JoinParts
<1>3. PICK r : r = p \o q
  OBVIOUS
<1>4. Len(r) = k + l /\ (\A g \in 1..k : r[g] = p[g]) /\ (\A g \in 1..l : r[k + g] = q[g])
  BY <1>1, <1>2, <1>3, JoinParts
<1>5. IsSeq(r)
  <2>1. p \in Seq(Elements(p)) /\ q \in Seq(Elements(q))
    BY <1>1, ElementsLemma
  <2>2. PICK S : S = Elements(p) \cup Elements(q)
    OBVIOUS
  <2>3. p \in Seq(S) /\ q \in Seq(S)
    BY <2>1, <2>2
  <2>4. r \in Seq(S)
    BY <1>3, <2>3
  <2>5. QED
    BY <2>4 DEF IsSeq
<1>6. ASSUME NEW i \in 1..Len(r), r[i].op = "wait"
      PROVE  \E c \in {"vm", "lgkm"}, n \in Nat : r[i] = Wait(c, n)
  <2>1. CASE i <= k
    <3>1. i \in 1..Len(p) /\ r[i] = p[i]
      BY <1>2, <1>4, <2>1
    <3>2. QED
      BY <1>6, <3>1 DEF Waits
  <2>2. CASE ~(i <= k)
    <3>1. PICK j : j = i - k
      OBVIOUS
    <3>2. j \in 1..l /\ i = k + j
      BY <1>2, <1>4, <2>2, <3>1
    <3>3. j \in 1..Len(q) /\ r[i] = q[j]
      BY <1>2, <1>4, <3>2
    <3>4. QED
      BY <1>6, <3>3 DEF Waits
  <2>3. QED
    BY <2>1, <2>2
<1>7. QED
  BY <1>3, <1>5, <1>6 DEF Waits

\* One instruction is such a list.
LEMMA WaitsOne ==
  ASSUME NEW x, x.op = "wait" => \E c \in {"vm", "lgkm"}, n \in Nat : x = Wait(c, n)
  PROVE  Waits(<<x>>)
<1>1. PICK q : q = <<x>>
  OBVIOUS
<1>2. Len(q) = 1 /\ q[1] = x /\ q \in Seq({x})
  BY <1>1
<1>3. \A i \in 1..Len(q) : q[i] = x
  BY <1>2
<1>4. QED
  BY <1>1, <1>2, <1>3 DEF Waits, IsSeq

\* What is known of a register behind one more instruction.
Later(c, F, x, r, a) ==
  \/ a = 0
  \/ /\ Counts(x, c) => r \notin Writes(x)
     /\ \E b \in Nat : (b = 0 \/ <<r, b>> \in F) /\ a <= b + IF Counts(x, c) THEN 1 ELSE 0
  \/ IsWait(x, c) /\ \E b \in Nat : b >= x.n /\ (b = 0 \/ <<r, b>> \in F)

\* A wait has covered every operation that writes a register known to be clear.
LEMMA ClearCovered ==
  ASSUME NEW p, IsSeq(p), NEW c \in Counters, NEW F, Facts(p, c, F), NEW r, Clear(F, r),
         NEW h \in 1..Len(p), Counts(p[h], c), r \in Writes(p[h])
  PROVE  Covered(p, c, h, Len(p))
<1> SUFFICES ASSUME ~Covered(p, c, h, Len(p)) PROVE FALSE
  OBVIOUS
<1>1. Len(p) \in Nat
  BY WaitsDomain
<1>2. PICK n \in Nat, m \in Nat : n = Issued(p, c, Len(p)) /\ m = Issued(p, c, h)
  <2>1. h \in Nat
    BY <1>1
  <2>2. Issued(p, c, Len(p)) \in Nat /\ Issued(p, c, h) \in Nat
    BY <1>1, <2>1, IssuedType
  <2>3. QED
    BY <2>2
<1>3. ASSUME NEW a \in Nat PROVE n - m >= a
  <2>1. PICK f : f = <<r, a>>
    OBVIOUS
  <2>2. f \in F /\ f[1] = r /\ f[2] = a
    BY <2>1 DEF Clear
  <2>3. Aged(p, c, r, a)
    BY <2>2 DEF Facts
  <2>4. QED
    BY <1>2, <2>3 DEF Aged
<1>4. n + 1 \in Nat
  OBVIOUS
<1>5. n - m >= n + 1
  BY <1>3, <1>4
<1>6. QED
  BY <1>5

\* One instruction does its work if what it needs is clear.
LEMMA DoesOne ==
  ASSUME NEW c \in Counters, NEW F, NEW G, NEW x,
         x.op = "wait" => \E d \in {"vm", "lgkm"}, n \in Nat : x = Wait(d, n),
         Writes(x) \subseteq Regs, \A r \in Sources(x) : Clear(F, r),
         \A f \in G : \E r, a : f = <<r, a>> /\ a \in Nat /\ Later(c, F, x, r, a)
  PROVE  Does(c, F, <<x>>, G)
<1>1. Waits(<<x>>)
  BY WaitsOne
<1>2. SUFFICES ASSUME NEW p, Waits(p), Safe(p, c), Facts(p, c, F)
               PROVE  Waits(p \o <<x>>) /\ Safe(p \o <<x>>, c) /\ Facts(p \o <<x>>, c, G)
  BY <1>1 DEF Does
<1>3. IsSeq(p)
  BY <1>2 DEF Waits
<1>4. PICK q : q = p \o <<x>>
  OBVIOUS
<1>5. PICK n \in Nat : n = Len(p)
  BY <1>3, WaitsDomain
<1>6. /\ Len(q) = n + 1 /\ q[n + 1] = x
      /\ \A g \in 1..n : q[g] = p[g]
  <2>1. q = Append(p, x)
    BY <1>3, <1>4, OneElement
  <2>2. QED
    BY <1>3, <1>5, <2>1, AppendParts
<1>7. /\ \A i \in 0..n : Issued(q, c, i) = Issued(p, c, i) /\ Issued(p, c, i) \in Nat
      /\ Issued(q, c, n + 1) = Issued(p, c, n) + IF Counts(x, c) THEN 1 ELSE 0
  <2>1. ASSUME NEW i \in 0..n PROVE Issued(q, c, i) = Issued(p, c, i) /\ Issued(p, c, i) \in Nat
    <3>1. i \in Nat /\ \A g \in 1..i : q[g] = p[g]
      BY <1>6
    <3>2. QED
      BY <3>1, IssuedSame, IssuedType
  <2>2. Issued(q, c, n + 1) = Issued(q, c, n) + IF Counts(q[n + 1], c) THEN 1 ELSE 0
    BY IssuedStep
  <2>3. n \in 0..n
    OBVIOUS
  <2>4. QED
    BY <1>6, <2>1, <2>2, <2>3
<1>8. \A h \in 1..n, i \in 0..n : Covered(q, c, h, i) <=> Covered(p, c, h, i)
  BY <1>6, CoveredPrefix
<1>0. \A i \in 1..Len(q) : Writes(q[i]) \subseteq Regs
  <2> SUFFICES ASSUME NEW i \in 1..Len(q) PROVE Writes(q[i]) \subseteq Regs
    OBVIOUS
  <2>1. CASE i \in 1..n
    BY <1>2, <1>5, <1>6, <2>1 DEF Safe
  <2>2. CASE i \notin 1..n
    <3>1. i = n + 1
      BY <1>6, <2>2
    <3>2. QED
      BY <1>6, <3>1
  <2>3. QED
    BY <2>1, <2>2
<1>9. Safe(q, c)
  <2> SUFFICES ASSUME NEW i \in 1..Len(q), NEW h \in 1..(i - 1), Counts(q[h], c),
                      Writes(q[h]) \cap Sources(q[i]) # {}
               PROVE  Covered(q, c, h, i - 1)
    BY <1>0 DEF Safe
  <2>1. h \in 1..n /\ i - 1 \in 0..n /\ q[h] = p[h]
    BY <1>6
  <2>2. CASE i <= n
    <3>1. i \in 1..n /\ q[i] = p[i]
      BY <1>6, <2>2
    <3>2. Covered(p, c, h, i - 1)
      BY <1>2, <1>5, <2>1, <2>2, <3>1 DEF Safe
    <3>3. QED
      BY <1>8, <2>1, <3>2
  <2>3. CASE ~(i <= n)
    <3>1. i = n + 1 /\ i - 1 = n /\ q[i] = x
      BY <1>6, <2>3
    <3>2. PICK r : r \in Writes(p[h]) /\ r \in Sources(x)
      BY <2>1, <3>1
    <3>3. Clear(F, r)
      BY <3>2
    <3>4. Covered(p, c, h, n)
      BY <1>2, <1>3, <1>5, <2>1, <3>2, <3>3, ClearCovered
    <3>5. QED
      BY <1>8, <2>1, <3>1, <3>4
  <2>4. QED
    BY <2>2, <2>3
<1>10. ASSUME NEW r, NEW a \in Nat, Later(c, F, x, r, a)
       PROVE  Aged(q, c, r, a)
  <2> SUFFICES ASSUME NEW h \in 1..Len(q), Counts(q[h], c), r \in Writes(q[h]),
                      ~Covered(q, c, h, Len(q))
               PROVE  Issued(q, c, Len(q)) - Issued(q, c, h) >= a
    BY DEF Aged
  <2>1. PICK k \in Nat, m \in Nat : k = Issued(q, c, n + 1) /\ m = Issued(q, c, h)
    <3>1. n + 1 \in Nat /\ h \in Nat
      BY <1>6
    <3>2. Issued(q, c, n + 1) \in Nat /\ Issued(q, c, h) \in Nat
      BY <3>1, IssuedType
    <3>3. QED
      BY <3>2
  <2>2. m <= k
    <3>1. n + 1 \in Nat /\ h \in 0..(n + 1)
      BY <1>6
    <3>2. QED
      BY <2>1, <3>1, IssuedGrows
  <2>3. CASE a = 0
    BY <1>6, <2>1, <2>2, <2>3
  <2>4. CASE h = n + 1
    <3>1. Counts(x, c) /\ r \in Writes(x)
      BY <1>6, <2>4
    <3>2. a = 0
      BY <1>10, <3>1, CountsNoWait DEF Later
    <3>3. QED
      BY <2>3, <3>2
  <2>5. CASE h # n + 1
    <3>1. h \in 1..n /\ h \in 0..n /\ n \in 0..n
      BY <1>6, <2>5
    <3>2. ~Covered(q, c, h, n) /\ ~Covers(q, c, h, n + 1)
      <4>1. \A j \in (h + 1)..n : j \in (h + 1)..Len(q)
        BY <1>6
      <4>2. n + 1 \in (h + 1)..Len(q)
        BY <1>6, <3>1
      <4>3. QED
        BY <4>1, <4>2 DEF Covered
    <3>3. ~Covered(p, c, h, n)
      BY <1>8, <3>1, <3>2
    <3>4. p[h] = q[h]
      BY <1>6, <3>1
    <3>5. PICK e \in Nat : e = Issued(p, c, n)
      BY <1>7, <3>1
    <3>6. /\ k = e + IF Counts(x, c) THEN 1 ELSE 0
          /\ m = Issued(p, c, h)
      BY <1>7, <2>1, <3>1, <3>5
    <3>7. ASSUME NEW b, <<r, b>> \in F PROVE e - m >= b
      <4>1. PICK f : f = <<r, b>>
        OBVIOUS
      <4>2. f \in F /\ f[1] = r /\ f[2] = b
        BY <3>7, <4>1
      <4>3. Aged(p, c, r, b)
        BY <1>2, <4>2 DEF Facts
      <4>4. QED
        BY <1>5, <3>1, <3>3, <3>4, <3>5, <3>6, <4>3 DEF Aged
    <3>8. k - m >= a
      <4>1. CASE \E b \in Nat : (b = 0 \/ <<r, b>> \in F) /\ a <= b + IF Counts(x, c) THEN 1 ELSE 0
        <5>1. PICK b \in Nat : (b = 0 \/ <<r, b>> \in F) /\ a <= b + IF Counts(x, c) THEN 1 ELSE 0
          BY <4>1
        <5>2. e - m >= b
          <6>1. n \in Nat /\ h \in 0..n
            BY <3>1
          <6>2. m <= e
            BY <3>5, <3>6, <6>1, IssuedGrows
          <6>3. b = 0 => e - m >= b
            BY <6>2
          <6>4. QED
            BY <3>7, <5>1, <6>3
        <5>3. PICK d \in {0, 1} : d = IF Counts(x, c) THEN 1 ELSE 0
          OBVIOUS
        <5>4. k = e + d /\ a <= b + d
          BY <3>6, <5>1, <5>3
        <5>5. QED
          BY <5>2, <5>4
      <4>3. CASE IsWait(x, c) /\ \E b \in Nat : b >= x.n /\ (b = 0 \/ <<r, b>> \in F)
        <5>1. PICK b \in Nat : b >= x.n /\ (b = 0 \/ <<r, b>> \in F)
          BY <4>3
        <5>2. e - m >= b
          <6>1. n \in Nat /\ h \in 0..n
            BY <3>1
          <6>2. m <= e
            BY <3>5, <3>6, <6>1, IssuedGrows
          <6>3. b = 0 => e - m >= b
            BY <6>2
          <6>4. QED
            BY <3>7, <5>1, <6>3
        <5>3. x.n \in Nat
          <6>1. PICK d \in {"vm", "lgkm"}, i \in Nat : x = Wait(d, i)
            BY <4>3 DEF IsWait
          <6>2. QED
            BY <6>1 DEF Wait
        <5>4. k - m >= x.n
          BY <3>6, <5>1, <5>2, <5>3
        <5>5. Covers(q, c, h, n + 1)
          BY <1>6, <2>1, <4>3, <5>4 DEF Covers
        <5>6. QED
          BY <3>2, <5>5
      <4>4. CASE a = 0
        BY <2>1, <2>2, <4>4
      <4>5. QED
        BY <1>10, <4>1, <4>3, <4>4 DEF Later
    <3>9. QED
      BY <1>6, <2>1, <3>8
  <2>6. QED
    BY <2>4, <2>5
<1>11. Facts(q, c, G)
  <2> SUFFICES ASSUME NEW f \in G PROVE Aged(q, c, f[1], f[2])
    BY DEF Facts
  <2>1. PICK r, a : f = <<r, a>> /\ a \in Nat /\ Later(c, F, x, r, a)
    OBVIOUS
  <2>2. f[1] = r /\ f[2] = a
    BY <2>1
  <2>3. QED
    BY <1>10, <2>1, <2>2
<1>12. Waits(q)
  BY <1>1, <1>2, <1>4, WaitsJoin
<1>13. QED
  BY <1>4, <1>9, <1>11, <1>12

-----------------------------------------------------------------------------
\* Pieces of code behind each other, repeated, and conditional.

\* A set of facts, each a register and an age, and what follows from one.
Known(F) == \A f \in F : f = <<f[1], f[2]>> /\ f[2] \in Nat

\* The facts of G follow from those of F: an age may be understated.
Entails(F, G) ==
  Known(G) /\ \A f \in G : f[2] = 0 \/ \E b \in Nat : b >= f[2] /\ <<f[1], b>> \in F

\* An age of zero is always known.
LEMMA AgedFromNothing ==
  ASSUME NEW p, IsSeq(p), NEW c \in Counters, NEW r
  PROVE  Aged(p, c, r, 0)
<1>1. PICK n \in Nat : n = Len(p)
  BY WaitsDomain
<1>2. ASSUME NEW h \in 1..n PROVE Issued(p, c, n) - Issued(p, c, h) >= 0
  <2>1. h \in 0..n
    OBVIOUS
  <2>2. Issued(p, c, h) \in Nat /\ Issued(p, c, n) \in Nat /\ Issued(p, c, h) <= Issued(p, c, n)
    BY <2>1, IssuedGrows
  <2>3. QED
    BY <2>2
<1>3. QED
  BY <1>1, <1>2 DEF Aged

\* Facts that follow from known ones are known.
LEMMA FactsEntail ==
  ASSUME NEW p, IsSeq(p), NEW c \in Counters, NEW F, NEW G, Facts(p, c, F), Entails(F, G)
  PROVE  Facts(p, c, G)
<1> SUFFICES ASSUME NEW f \in G PROVE Aged(p, c, f[1], f[2])
  BY DEF Facts
<1>1. f[2] \in Nat
  BY DEF Entails, Known
<1>2. CASE f[2] = 0
  BY <1>2, AgedFromNothing
<1>3. CASE f[2] # 0
  <2>1. PICK b \in Nat : b >= f[2] /\ <<f[1], b>> \in F
    BY <1>3 DEF Entails
  <2>2. PICK e : e = <<f[1], b>>
    OBVIOUS
  <2>3. e \in F /\ e[1] = f[1] /\ e[2] = b
    BY <2>1, <2>2
  <2>4. Aged(p, c, f[1], b)
    BY <2>3 DEF Facts
  <2>5. PICK n \in Nat : n = Len(p)
    BY WaitsDomain
  <2>6. \A h \in 1..n : Issued(p, c, h) \in Nat
    <3> SUFFICES ASSUME NEW h \in 1..n PROVE Issued(p, c, h) \in Nat
      OBVIOUS
    <3>1. h \in Nat
      OBVIOUS
    <3>2. QED
      BY <3>1, IssuedType
  <2>7. Issued(p, c, n) \in Nat
    BY IssuedType
  <2>8. QED
    BY <1>1, <2>1, <2>4, <2>5, <2>6, <2>7 DEF Aged
<1>4. QED
  BY <1>2, <1>3

\* More may be known in front of a piece of code, and less claimed behind it.
LEMMA DoesWeaken ==
  ASSUME NEW c \in Counters, NEW E, NEW F, NEW q, NEW G, NEW H,
         Does(c, F, q, G), Entails(E, F), Entails(G, H)
  PROVE  Does(c, E, q, H)
<1>1. SUFFICES ASSUME NEW p, Waits(p), Safe(p, c), Facts(p, c, E)
               PROVE  Waits(p \o q) /\ Safe(p \o q, c) /\ Facts(p \o q, c, H)
  BY DEF Does
<1>2. IsSeq(p)
  BY <1>1 DEF Waits
<1>3. Facts(p, c, F)
  BY <1>1, <1>2, FactsEntail
<1>4. Waits(p \o q) /\ Safe(p \o q, c) /\ Facts(p \o q, c, G)
  BY <1>1, <1>3 DEF Does
<1>5. Facts(p \o q, c, H)
  BY <1>4, FactsEntail DEF Waits
<1>6. QED
  BY <1>4, <1>5

\* A part of the facts follows from them.
LEMMA EntailsSelf ==
  ASSUME NEW F, Known(F), NEW G, G \subseteq F
  PROVE  Entails(F, G) /\ Known(G)
<1>1. \A f \in G : f[2] \in Nat /\ <<f[1], f[2]>> \in F /\ f[2] >= f[2]
  BY DEF Known
<1>2. QED
  BY <1>1 DEF Entails, Known

\* Concatenation is associative.
LEMMA ConcatThree ==
  ASSUME NEW p, IsSeq(p), NEW q, IsSeq(q), NEW r, IsSeq(r)
  PROVE  p \o (q \o r) = (p \o q) \o r
<1>1. PICK S : S = Elements(p) \cup Elements(q) \cup Elements(r)
  OBVIOUS
<1>2. p \in Seq(Elements(p)) /\ q \in Seq(Elements(q)) /\ r \in Seq(Elements(r))
  BY ElementsLemma
<1>3. p \in Seq(S) /\ q \in Seq(S) /\ r \in Seq(S)
  BY <1>1, <1>2
<1>4. QED
  BY <1>3, ConcatAssociative

\* One piece of code after another.
LEMMA DoesThen ==
  ASSUME NEW c \in Counters, NEW F, NEW q, NEW G, NEW r, NEW H,
         Does(c, F, q, G), Does(c, G, r, H)
  PROVE  Does(c, F, q \o r, H)
<1>1. Waits(q) /\ Waits(r) /\ Waits(q \o r)
  BY WaitsJoin DEF Does
<1>2. SUFFICES ASSUME NEW p, Waits(p), Safe(p, c), Facts(p, c, F)
               PROVE  /\ Waits(p \o (q \o r)) /\ Safe(p \o (q \o r), c)
                      /\ Facts(p \o (q \o r), c, H)
  BY <1>1 DEF Does
<1>3. Waits(p \o q) /\ Safe(p \o q, c) /\ Facts(p \o q, c, G)
  BY <1>2 DEF Does
<1>4. /\ Waits((p \o q) \o r) /\ Safe((p \o q) \o r, c)
      /\ Facts((p \o q) \o r, c, H)
  BY <1>3 DEF Does
<1>5. (p \o q) \o r = p \o (q \o r)
  BY <1>1, <1>2, ConcatThree DEF Waits
<1>6. QED
  BY <1>4, <1>5

\* No instruction at all: a list with well-formed waits.
LEMMA NothingWaits == Waits(<< >>)
<1>1. << >> \in Seq({}) /\ Len(<< >>) = 0
  OBVIOUS
<1>2. PICK q : q = << >>
  OBVIOUS
<1>3. q \in Seq({}) /\ Len(q) = 0
  BY <1>1, <1>2
<1>4. IsSeq(q) /\ \A i \in 1..Len(q) : FALSE
  BY <1>3 DEF IsSeq
<1>5. QED
  BY <1>2, <1>4 DEF Waits

\* It changes nothing.
LEMMA DoesNothing ==
  ASSUME NEW c \in Counters, NEW F, Known(F)
  PROVE  Does(c, F, << >>, F)
<1>1. \A p : Waits(p) => p \o << >> = p
  BY OneElement DEF Waits
<1>2. QED
  BY <1>1, NothingWaits DEF Does

\* The pieces a loop of the generator emits, each taking what is known from one set of
\* facts to the next.
LEMMA DoesEach ==
  ASSUME NEW c \in Counters, NEW n \in Nat, NEW Fs, Known(Fs[0]), NEW g, g = [i \in 1..n |-> g[i]],
         \A i \in 1..n : Does(c, Fs[i - 1], g[i], Fs[i])
  PROVE  Does(c, Fs[0], FlattenSeq(g), Fs[n])
<1>1. \A i \in 1..n : IsSeq(g[i])
  BY DEF Does, Waits
<1>2. PICK e : /\ e[0] = << >> /\ FlattenSeq(g) = e[n]
               /\ \A i \in 1..n : e[i] = e[i - 1] \o g[i]
  BY <1>1, Flattening
<1> DEFINE T == {i \in Nat : i <= n => Does(c, Fs[0], e[i], Fs[i])}
<1>3. 0 \in T
  BY <1>2, DoesNothing
<1>4. ASSUME NEW i \in T PROVE i + 1 \in T
  <2>1. i \in Nat /\ (i + 1) - 1 = i
    OBVIOUS
  <2>2. CASE i + 1 <= n
    <3>1. i + 1 \in 1..n
      BY <2>1, <2>2
    <3>2. e[i + 1] = e[i] \o g[i + 1]
      BY <1>2, <2>1, <3>1
    <3>3. Does(c, Fs[0], e[i], Fs[i]) /\ Does(c, Fs[i], g[i + 1], Fs[i + 1])
      BY <2>1, <2>2, <3>1
    <3>4. Does(c, Fs[0], e[i + 1], Fs[i + 1])
      BY <3>2, <3>3, DoesThen
    <3>5. QED
      BY <2>1, <3>4
  <2>3. CASE ~(i + 1 <= n)
    BY <2>1, <2>3
  <2>4. QED
    BY <2>2, <2>3
<1>5. T \in SUBSET Nat
  OBVIOUS
<1> HIDE DEF T
<1>6. \A i \in Nat : i \in T
  BY <1>3, <1>4, <1>5, Induction
<1>7. n \in T
  BY <1>6
<1>8. Does(c, Fs[0], e[n], Fs[n])
  BY <1>7 DEF T
<1>9. QED
  BY <1>2, <1>8

\* A piece a generator emits on a condition.
LEMMA DoesWhen ==
  ASSUME NEW c \in Counters, NEW F, NEW q, NEW G, NEW cond,
         cond => Does(c, F, q, G), ~cond => Entails(F, G), Known(F)
  PROVE  Does(c, F, When(cond, q), G)
<1>1. CASE cond
  BY <1>1 DEF When
<1>2. CASE ~cond
  <2>1. Does(c, F, << >>, F) /\ Entails(F, F) /\ Entails(F, G)
    BY <1>2, DoesNothing, EntailsSelf
  <2>2. Does(c, F, << >>, G)
    BY <2>1, DoesWeaken
  <2>3. QED
    BY <1>2, <2>2 DEF When
<1>3. QED
  BY <1>1, <1>2

-----------------------------------------------------------------------------
\* Both counters, and single instructions.

\* Both counters at once: V and W are what is known of the global loads, F and G of the
\* LDS operations.
Work(V, F, q, W, G) == Does("vm", V, q, W) /\ Does("lgkm", F, q, G)

\* No operation that writes a register of R is outstanding.
Ever(R) == R \X Nat

\* Then those registers are clear.
LEMMA EverClear ==
  ASSUME NEW R
  PROVE  Known(Ever(R)) /\ \A r \in R : \A F : Ever(R) \subseteq F => Clear(F, r)
BY DEF Known, Ever, Clear

\* One piece of code after another, for both counters.
LEMMA WorkThen ==
  ASSUME NEW V, NEW F, NEW q, NEW W, NEW G, NEW r, NEW X, NEW H,
         Work(V, F, q, W, G), Work(W, G, r, X, H)
  PROVE  Work(V, F, q \o r, X, H)
BY DoesThen DEF Work, Counters

\* No code at all, for both counters.
LEMMA WorkNothing ==
  ASSUME NEW V, NEW F, Known(V), Known(F)
  PROVE  Work(V, F, << >>, V, F)
BY DoesNothing DEF Work, Counters

\* The pieces of a loop, for both counters.
LEMMA WorkEach ==
  ASSUME NEW n \in Nat, NEW Vs, NEW Fs, Known(Vs[0]), Known(Fs[0]), NEW g, g = [i \in 1..n |-> g[i]],
         \A i \in 1..n : Work(Vs[i - 1], Fs[i - 1], g[i], Vs[i], Fs[i])
  PROVE  Work(Vs[0], Fs[0], FlattenSeq(g), Vs[n], Fs[n])
<1>1. Does("vm", Vs[0], FlattenSeq(g), Vs[n])
  BY DoesEach DEF Work, Counters
<1>2. Does("lgkm", Fs[0], FlattenSeq(g), Fs[n])
  BY DoesEach DEF Work, Counters
<1>3. QED
  BY <1>1, <1>2 DEF Work

\* The pieces of a loop that leave what is known as it was.
LEMMA WorkAll ==
  ASSUME NEW n \in Nat, NEW V, NEW F, Known(V), Known(F), NEW g, g = [i \in 1..n |-> g[i]],
         \A i \in 1..n : Work(V, F, g[i], V, F)
  PROVE  Work(V, F, FlattenSeq(g), V, F)
<1> DEFINE Vs == [i \in 0..n |-> V]
           Fs == [i \in 0..n |-> F]
<1>1. \A i \in 0..n : Vs[i] = V /\ Fs[i] = F
  OBVIOUS
<1> HIDE DEF Vs, Fs
<1>2. 0 \in 0..n /\ n \in 0..n /\ \A i \in 1..n : i \in 0..n /\ i - 1 \in 0..n
  OBVIOUS
<1>3. Known(Vs[0]) /\ Known(Fs[0]) /\ \A i \in 1..n : Work(Vs[i - 1], Fs[i - 1], g[i], Vs[i], Fs[i])
  BY <1>1, <1>2
<1>4. Work(Vs[0], Fs[0], FlattenSeq(g), Vs[n], Fs[n])
  BY <1>3, WorkEach
<1>5. QED
  BY <1>1, <1>2, <1>4

\* More known in front, less claimed behind, for both counters.
LEMMA WorkWeaken ==
  ASSUME NEW V, NEW F, NEW q, NEW W, NEW G, NEW D, NEW E, NEW X, NEW H,
         Work(V, F, q, W, G), Entails(D, V), Entails(E, F), Entails(W, X), Entails(G, H)
  PROVE  Work(D, E, q, X, H)
BY DoesWeaken DEF Work, Counters

\* A piece emitted on a condition, for both counters.
LEMMA WorkWhen ==
  ASSUME NEW V, NEW F, NEW q, NEW W, NEW G, NEW cond, Known(V), Known(F),
         cond => Work(V, F, q, W, G), ~cond => Entails(V, W) /\ Entails(F, G)
  PROVE  Work(V, F, When(cond, q), W, G)
BY DoesWhen DEF Work, Counters

\* One instruction, for both counters.
LEMMA WorkOne ==
  ASSUME NEW V, NEW F, NEW W, NEW G, NEW x,
         x.op = "wait" => \E d \in {"vm", "lgkm"}, n \in Nat : x = Wait(d, n),
         Writes(x) \subseteq Regs, \A r \in Sources(x) : Clear(V, r) /\ Clear(F, r),
         Known(W), \A f \in W : Later("vm", V, x, f[1], f[2]),
         Known(G), \A f \in G : Later("lgkm", F, x, f[1], f[2])
  PROVE  Work(V, F, <<x>>, W, G)
<1>1. \A f \in W : \E r, a : f = <<r, a>> /\ a \in Nat /\ Later("vm", V, x, r, a)
  BY DEF Known
<1>2. \A f \in G : \E r, a : f = <<r, a>> /\ a \in Nat /\ Later("lgkm", F, x, r, a)
  BY DEF Known
<1>3. Does("vm", V, <<x>>, W)
  BY <1>1, DoesOne DEF Counters
<1>4. Does("lgkm", F, <<x>>, G)
  BY <1>2, DoesOne DEF Counters
<1>5. QED
  BY <1>3, <1>4 DEF Work

\* An operation that writes no register, or that c does not count, leaves what is known.
LEMMA LaterSame ==
  ASSUME NEW F, Known(F), NEW c \in Counters, NEW x, Counts(x, c) => Writes(x) = {}
  PROVE  \A f \in F : Later(c, F, x, f[1], f[2])
<1> SUFFICES ASSUME NEW f \in F PROVE Later(c, F, x, f[1], f[2])
  OBVIOUS
<1>1. f = <<f[1], f[2]>> /\ f[2] \in Nat
  BY DEF Known
<1>2. PICK b \in Nat : b = f[2] /\ <<f[1], b>> \in F
  BY <1>1
<1>3. b <= b + IF Counts(x, c) THEN 1 ELSE 0
  OBVIOUS
<1>4. QED
  BY <1>2, <1>3 DEF Later

\* An instruction that writes no register and is no wait changes nothing that is known.
LEMMA WorkPlain ==
  ASSUME NEW V, NEW F, Known(V), Known(F), NEW x, x.op # "wait",
         Writes(x) = {}, \A r \in Sources(x) : Clear(V, r) /\ Clear(F, r)
  PROVE  Work(V, F, <<x>>, V, F)
<1>1. \A f \in V : Later("vm", V, x, f[1], f[2])
  BY LaterSame DEF Counters
<1>2. \A f \in F : Later("lgkm", F, x, f[1], f[2])
  BY LaterSame DEF Counters
<1>3. QED
  BY <1>1, <1>2, WorkOne

\* What the instructions write, read and are counted as.
LEMMA InstructionFacts ==
  /\ \A mat, i : /\ BufferLoad(mat, i).op = "buffer_load" /\ Writes(BufferLoad(mat, i)) = {<<mat, i>>}
                 /\ Sources(BufferLoad(mat, i)) = {<<mat, i>>}
  /\ \A mat, i, u : /\ DsStore(mat, i, u).op = "ds_store" /\ Writes(DsStore(mat, i, u)) = {}
                    /\ Sources(DsStore(mat, i, u)) = {<<mat, i>>}
  /\ \A r, u, mat, b, ks, h :
       /\ DsLoad(r, u, mat, b, ks, h).op = "ds_load" /\ Sources(DsLoad(r, u, mat, b, ks, h)) = {}
       /\ Writes(DsLoad(r, u, mat, b, ks, h)) = {Append(r, h)}
  /\ \A a, x, v : /\ Wmma(a, x, v).op = "wmma" /\ Writes(Wmma(a, x, v)) = {}
                  /\ Sources(Wmma(a, x, v)) =
                       {Append(x, h) : h \in {0, 1}} \cup {Append(v, h) : h \in {0, 1}}
  /\ \A c, n : /\ Wait(c, n).op = "wait" /\ Writes(Wait(c, n)) = {} /\ Sources(Wait(c, n)) = {}
               /\ Wait(c, n).counter = c /\ Wait(c, n).n = n
  /\ \A r, a : /\ YStore(r, a).op = "y_store" /\ Writes(YStore(r, a)) = {}
               /\ Sources(YStore(r, a)) = {}
  /\ \A c : /\ SwapOut(c).op = "swap_out" /\ Writes(SwapOut(c)) = {} /\ Sources(SwapOut(c)) = {}
            /\ SwapIn(c).op = "swap_in" /\ Writes(SwapIn(c)) = {<<"temp">>} /\ Sources(SwapIn(c)) = {}
            /\ MoveTemp(c).op = "move_temp" /\ Writes(MoveTemp(c)) = {}
            /\ Sources(MoveTemp(c)) = {<<"temp">>}
  /\ Barrier.op = "barrier" /\ Writes(Barrier) = {} /\ Sources(Barrier) = {}
  /\ Advance.op = "advance" /\ Writes(Advance) = {} /\ Sources(Advance) = {}
<1>1. \A mat, i : /\ BufferLoad(mat, i).op = "buffer_load" /\ Writes(BufferLoad(mat, i)) = {<<mat, i>>}
                  /\ Sources(BufferLoad(mat, i)) = {<<mat, i>>}
  BY DEF BufferLoad, Writes, Sources
<1>2. \A mat, i, u : /\ DsStore(mat, i, u).op = "ds_store" /\ Writes(DsStore(mat, i, u)) = {}
                     /\ Sources(DsStore(mat, i, u)) = {<<mat, i>>}
  BY DEF DsStore, Writes, Sources
<1>3. \A r, u, mat, b, ks, h :
       /\ DsLoad(r, u, mat, b, ks, h).op = "ds_load" /\ Sources(DsLoad(r, u, mat, b, ks, h)) = {}
       /\ Writes(DsLoad(r, u, mat, b, ks, h)) = {Append(r, h)}
  BY DEF DsLoad, Writes, Sources
<1>4. \A a, x, v : /\ Wmma(a, x, v).op = "wmma" /\ Writes(Wmma(a, x, v)) = {}
                   /\ Sources(Wmma(a, x, v)) =
                       {Append(x, h) : h \in {0, 1}} \cup {Append(v, h) : h \in {0, 1}}
  BY DEF Wmma, Writes, Sources
<1>5. \A c, n : /\ Wait(c, n).op = "wait" /\ Writes(Wait(c, n)) = {} /\ Sources(Wait(c, n)) = {}
                /\ Wait(c, n).counter = c /\ Wait(c, n).n = n
  BY DEF Wait, Writes, Sources
<1>6. \A r, a : /\ YStore(r, a).op = "y_store" /\ Writes(YStore(r, a)) = {}
                /\ Sources(YStore(r, a)) = {}
  BY DEF YStore, Writes, Sources
<1>7. \A c : /\ SwapOut(c).op = "swap_out" /\ Writes(SwapOut(c)) = {} /\ Sources(SwapOut(c)) = {}
             /\ SwapIn(c).op = "swap_in" /\ Writes(SwapIn(c)) = {<<"temp">>} /\ Sources(SwapIn(c)) = {}
             /\ MoveTemp(c).op = "move_temp" /\ Writes(MoveTemp(c)) = {}
             /\ Sources(MoveTemp(c)) = {<<"temp">>}
  BY DEF SwapOut, SwapIn, MoveTemp, Writes, Sources
<1>8. /\ Barrier.op = "barrier" /\ Writes(Barrier) = {} /\ Sources(Barrier) = {}
      /\ Advance.op = "advance" /\ Writes(Advance) = {} /\ Sources(Advance) = {}
  BY DEF Barrier, Advance, Writes, Sources
<1>9. QED
  BY <1>1, <1>2, <1>3, <1>4, <1>5, <1>6, <1>7, <1>8

\* A third component for a pair.
LEMMA AppendPair ==
  ASSUME NEW x, NEW z, NEW w
  PROVE  Append(<<x, z>>, w) = <<x, z, w>>
<1>1. PICK S : S = {x, z, w}
  OBVIOUS
<1>2. PICK p : p = <<x, z>>
  OBVIOUS
<1>3. PICK q : q = <<x, z, w>>
  OBVIOUS
<1>4. p \in Seq(S) /\ Len(p) = 2 /\ p[1] = x /\ p[2] = z
  BY <1>1, <1>2
<1>5. q \in Seq(S) /\ Len(q) = 3 /\ q[1] = x /\ q[2] = z /\ q[3] = w
  BY <1>1, <1>3
<1>6. PICK r : r = Append(p, w)
  OBVIOUS
<1>7. r \in Seq(S)
  BY <1>1, <1>4, <1>6
<1>8. Len(r) = 3 /\ r[1] = x /\ r[2] = z /\ r[3] = w
  <2>1. IsSeq(p)
    BY <1>4 DEF IsSeq
  <2>2. /\ Len(r) = Len(p) + 1 /\ r[Len(p) + 1] = w
        /\ \A j \in 1..Len(p) : r[j] = p[j]
    BY <1>6, <2>1, AppendParts
  <2>3. QED
    BY <1>4, <2>2
<1>9. r = [i \in 1..3 |-> r[i]] /\ q = [i \in 1..3 |-> q[i]]
  BY <1>5, <1>7, <1>8
<1>10. \A i \in 1..3 : r[i] = q[i]
  BY <1>5, <1>8
<1>11. r = q
  BY <1>9, <1>10
<1>12. QED
  BY <1>2, <1>3, <1>6, <1>11

\* The name of half a fragment.
LEMMA FragmentHalf ==
  ASSUME NEW m \in {"A", "B"}, NEW i \in Nat, NEW h \in {0, 1}
  PROVE  Append(<<m, i>>, h) = <<m, i, h>> /\ <<m, i, h>> \in Frags
<1>1. Append(<<m, i>>, h) = <<m, i, h>>
  BY AppendPair
<1>2. QED
  BY <1>1 DEF Frags

-----------------------------------------------------------------------------
\* Fragments, waits and products.

\* Nothing a load may write is outstanding.
Every == Ever(Regs)

\* No operation that writes anything but fragments is outstanding.
Calm == Ever(VmRegs \cup {<<"temp">>})

\* By the facts V of the global loads, no such load writes what only the LDS brings.
Quiet(V) == Known(V) /\ Ever(LdsRegs) \subseteq V

\* The two halves of fragment i of the factor m.
Halves(m, i) == {<<m, i, 0>>, <<m, i, 1>>}

\* Both are there.
HalvesHeld(F, m, i) == \A r \in Halves(m, i) : Clear(F, r)

\* These are sets of facts, the second part of the first.
LEMMA CalmKnown == Known(Calm) /\ Known(Every) /\ Calm \subseteq Every /\ Quiet(Every)
<1>1. Known(Calm) /\ Known(Every)
  BY EverClear DEF Calm, Every
<1>2. VmRegs \cup {<<"temp">>} \subseteq Regs /\ LdsRegs \subseteq Regs
  BY DEF Regs, LdsRegs
<1>3. QED
  BY <1>1, <1>2 DEF Calm, Every, Quiet, Ever

\* The two loads of a fragment: everything else in the LDS queue ages by two.
LEMMA FragmentsWork ==
  ASSUME NEW V, Known(V), NEW F, Known(F), NEW G, Known(G), NEW m \in {"A", "B"}, NEW i \in Nat,
         NEW u, NEW mat, NEW b, NEW ks,
         \A f \in G : \/ f[2] = 0
                      \/ f[1] \notin Halves(m, i) /\ \E a \in Nat : (a = 0 \/ <<f[1], a>> \in F) /\ f[2] <= a + 2
  PROVE  Work(V, F, FragmentLoads(<<m, i>>, u, mat, b, ks), V, G)
<1>1. PICK x : x = DsLoad(<<m, i>>, u, mat, b, ks, 0)
  OBVIOUS
<1>2. PICK z : z = DsLoad(<<m, i>>, u, mat, b, ks, 1)
  OBVIOUS
<1>3. /\ x.op = "ds_load" /\ Sources(x) = {} /\ Writes(x) = {<<m, i, 0>>}
      /\ z.op = "ds_load" /\ Sources(z) = {} /\ Writes(z) = {<<m, i, 1>>}
  <2>1. PICK r : r = <<m, i>>
    OBVIOUS
  <2>2. /\ x.op = "ds_load" /\ Sources(x) = {} /\ Writes(x) = {Append(r, 0)}
    BY <1>1, <2>1 DEF DsLoad, Sources, Writes
  <2>3. /\ z.op = "ds_load" /\ Sources(z) = {} /\ Writes(z) = {Append(r, 1)}
    BY <1>2, <2>1 DEF DsLoad, Sources, Writes
  <2>4. QED
    BY <2>1, <2>2, <2>3, AppendPair
<1>4. Writes(x) \subseteq Regs /\ Writes(z) \subseteq Regs
  <2>1. <<m, i, 0>> \in Frags /\ <<m, i, 1>> \in Frags
    BY DEF Frags
  <2>2. QED
    BY <1>3, <2>1 DEF Regs, LdsRegs
<1>5. /\ ~Counts(x, "vm") /\ Counts(x, "lgkm") /\ ~Counts(z, "vm") /\ Counts(z, "lgkm")
  BY <1>3 DEF Counts
<1> DEFINE less(n) == IF n = 0 THEN 0 ELSE n - 1
           H == {<<f[1], less(f[2])>> : f \in G}
<1>6. Known(H)
  BY DEF Known
<1>7. /\ \A f \in V : Later("vm", V, x, f[1], f[2])
      /\ \A f \in V : Later("vm", V, z, f[1], f[2])
  BY <1>5, LaterSame DEF Counters
<1>8. ASSUME NEW f \in H PROVE Later("lgkm", F, x, f[1], f[2])
  <2>1. PICK g \in G : f = <<g[1], less(g[2])>>
    BY <1>8
  <2>2. g[2] \in Nat /\ f[1] = g[1] /\ f[2] = less(g[2])
    BY <2>1 DEF Known
  <2>3. CASE g[2] = 0
    BY <2>2, <2>3 DEF Later
  <2>4. CASE g[2] # 0
    <3>1. g[1] \notin Halves(m, i)
      BY <2>4
    <3>2. PICK a \in Nat : (a = 0 \/ <<g[1], a>> \in F) /\ g[2] <= a + 2
      BY <2>4
    <3>3. f[2] <= a + 1 /\ f[1] \notin Writes(x)
      BY <1>3, <2>2, <2>4, <3>1, <3>2 DEF Halves
    <3>4. QED
      BY <1>5, <2>2, <3>2, <3>3 DEF Later
  <2>5. QED
    BY <2>3, <2>4
<1>9. ASSUME NEW f \in G PROVE Later("lgkm", H, z, f[1], f[2])
  <2>1. f[2] \in Nat
    BY DEF Known
  <2>2. CASE f[2] = 0
    BY <2>2 DEF Later
  <2>3. CASE f[2] # 0
    <3>1. f[1] \notin Halves(m, i)
      BY <2>3
    <3>2. PICK a \in Nat : a = f[2] - 1 /\ a = less(f[2])
      BY <2>1, <2>3
    <3>3. <<f[1], a>> \in H
      BY <3>2
    <3>4. f[2] <= a + 1 /\ f[1] \notin Writes(z)
      BY <1>3, <2>1, <3>1, <3>2 DEF Halves
    <3> HIDE DEF H
    <3>5. QED
      BY <1>5, <3>2, <3>3, <3>4 DEF Later
  <2>4. QED
    BY <2>2, <2>3
<1> HIDE DEF H
<1>10. Work(V, F, <<x>>, V, H)
  BY <1>3, <1>4, <1>6, <1>7, <1>8, WorkOne
<1>11. Work(V, H, <<z>>, V, G)
  BY <1>3, <1>4, <1>7, <1>9, WorkOne
<1>12. FragmentLoads(<<m, i>>, u, mat, b, ks) = <<x>> \o <<z>>
  BY <1>1, <1>2, TwoParts DEF FragmentLoads
<1>13. QED
  BY <1>10, <1>11, <1>12, WorkThen

\* A wait for all but n LDS operations: what is aged n is there.
LEMMA WaitWork ==
  ASSUME NEW V, Known(V), NEW F, Known(F), NEW G, Known(G), NEW n \in Nat,
         \A f \in G : \E a \in Nat : (a = 0 \/ <<f[1], a>> \in F) /\ (f[2] <= a \/ n <= a)
  PROVE  Work(V, F, <<Wait("lgkm", n)>>, V, G)
<1>1. PICK x : x = Wait("lgkm", n)
  OBVIOUS
<1>2. /\ x.op = "wait" /\ Sources(x) = {} /\ Writes(x) = {} /\ x.n = n /\ IsWait(x, "lgkm")
  BY <1>1, InstructionFacts DEF IsWait
<1>3. /\ ~Counts(x, "vm") /\ ~Counts(x, "lgkm")
  BY <1>2 DEF Counts
<1>4. \A f \in V : Later("vm", V, x, f[1], f[2])
  BY <1>3, LaterSame DEF Counters
<1>5. ASSUME NEW f \in G PROVE Later("lgkm", F, x, f[1], f[2])
  <2>1. PICK a \in Nat : (a = 0 \/ <<f[1], a>> \in F) /\ (f[2] <= a \/ n <= a)
    OBVIOUS
  <2>2. f[2] \in Nat
    BY DEF Known
  <2>3. CASE n <= a
    BY <1>2, <2>1, <2>3 DEF Later
  <2>4. CASE f[2] <= a
    <3>1. CASE a = 0
      BY <2>2, <2>4, <3>1 DEF Later
    <3>2. CASE <<f[1], a>> \in F
      BY <1>3, <2>4, <3>2 DEF Later
    <3>3. QED
      BY <2>1, <3>1, <3>2
  <2>5. QED
    BY <2>1, <2>3, <2>4
<1>6. Work(V, F, <<x>>, V, G)
  BY <1>1, <1>2, <1>4, <1>5, WorkOne
<1>7. QED
  BY <1>1, <1>6

\* A wait for all of them: everything is there.
LEMMA WaitAllWork ==
  ASSUME NEW V, Known(V), NEW F, Known(F)
  PROVE  Work(V, F, <<Wait("lgkm", 0)>>, V, Every)
<1>1. \A f \in Every : \E a \in Nat : (a = 0 \/ <<f[1], a>> \in F) /\ (f[2] <= a \/ 0 <= a)
  OBVIOUS
<1>2. QED
  BY <1>1, CalmKnown, WaitWork

\* A wait for all but n global loads: what is aged n is there.
LEMMA VmWaitWork ==
  ASSUME NEW V, Known(V), NEW F, Known(F), NEW W, Known(W), NEW n \in Nat,
         \A f \in W : \E a \in Nat : (a = 0 \/ <<f[1], a>> \in V) /\ (f[2] <= a \/ n <= a)
  PROVE  Work(V, F, <<Wait("vm", n)>>, W, F)
<1>1. PICK x : x = Wait("vm", n)
  OBVIOUS
<1>2. /\ x.op = "wait" /\ Sources(x) = {} /\ Writes(x) = {} /\ x.n = n /\ IsWait(x, "vm")
  BY <1>1, InstructionFacts DEF IsWait
<1>3. /\ ~Counts(x, "vm") /\ ~Counts(x, "lgkm")
  BY <1>2 DEF Counts
<1>4. \A f \in F : Later("lgkm", F, x, f[1], f[2])
  BY <1>3, LaterSame DEF Counters
<1>5. ASSUME NEW f \in W PROVE Later("vm", V, x, f[1], f[2])
  <2>1. PICK a \in Nat : (a = 0 \/ <<f[1], a>> \in V) /\ (f[2] <= a \/ n <= a)
    OBVIOUS
  <2>2. f[2] \in Nat
    BY DEF Known
  <2>3. CASE n <= a
    BY <1>2, <2>1, <2>3 DEF Later
  <2>4. CASE f[2] <= a
    <3>1. CASE a = 0
      BY <2>2, <2>4, <3>1 DEF Later
    <3>2. CASE <<f[1], a>> \in V
      BY <1>3, <2>4, <3>2 DEF Later
    <3>3. QED
      BY <2>1, <3>1, <3>2
  <2>5. QED
    BY <2>1, <2>3, <2>4
<1>6. Work(V, F, <<x>>, W, F)
  BY <1>1, <1>2, <1>4, <1>5, WorkOne
<1>7. QED
  BY <1>1, <1>6

\* A product of two fragments that are there.
LEMMA WmmaWork ==
  ASSUME NEW V, Quiet(V), NEW F, Known(F), NEW into, NEW m \in {"A", "B"}, NEW i \in Nat,
         NEW n \in {"A", "B"}, NEW j \in Nat, HalvesHeld(F, m, i), HalvesHeld(F, n, j)
  PROVE  Work(V, F, <<Wmma(into, <<m, i>>, <<n, j>>)>>, V, F)
<1>1. PICK x : x = Wmma(into, <<m, i>>, <<n, j>>)
  OBVIOUS
<1>2. /\ x.op = "wmma" /\ Writes(x) = {}
      /\ Sources(x) = {Append(<<m, i>>, h) : h \in {0, 1}} \cup {Append(<<n, j>>, h) : h \in {0, 1}}
  <2>1. PICK r : r = <<m, i>>
    OBVIOUS
  <2>2. PICK v : v = <<n, j>>
    OBVIOUS
  <2>3. x = Wmma(into, r, v)
    BY <1>1, <2>1, <2>2
  <2>4. /\ x.op = "wmma" /\ Writes(x) = {}
        /\ Sources(x) = {Append(r, h) : h \in {0, 1}} \cup {Append(v, h) : h \in {0, 1}}
    BY <2>3 DEF Wmma, Sources, Writes
  <2>5. QED
    BY <2>1, <2>2, <2>4
<1>3. /\ \A h \in {0, 1} : Append(<<m, i>>, h) \in Halves(m, i) /\ Append(<<m, i>>, h) \in Frags
      /\ \A h \in {0, 1} : Append(<<n, j>>, h) \in Halves(n, j) /\ Append(<<n, j>>, h) \in Frags
  BY FragmentHalf DEF Halves
<1>4. \A r \in Sources(x) : r \in Frags /\ Clear(F, r)
  BY <1>2, <1>3 DEF HalvesHeld
<1>5. \A r \in Frags : r \in LdsRegs
  BY DEF LdsRegs
<1>6. \A r \in Sources(x) : Clear(V, r)
  BY <1>4, <1>5, EverClear DEF Quiet
<1>7. Known(V)
  BY DEF Quiet
<1>8. QED
  BY <1>1, <1>2, <1>4, <1>6, <1>7, WorkPlain

-----------------------------------------------------------------------------
\* Fragments that age behind one another, and the waits of a column.

\* How the registers are told apart.
LEMMA Registers ==
  /\ \A r \in Frags : r[1] \in {"A", "B"} /\ r[2] \in Nat
  /\ \A r \in VmRegs \cup {<<"temp">>} : r \notin Frags
  /\ \A r \in Regs : r \in Frags \/ r \in VmRegs \cup {<<"temp">>}
  /\ \A m \in {"A", "B"}, i \in Nat : \A r \in Halves(m, i) : r \in Frags /\ r[1] = m /\ r[2] = i
<1>1. \A r \in Frags : r[1] \in {"A", "B"} /\ r[2] \in Nat
  BY DEF Frags
<1>2. \A r \in VmRegs \cup {<<"temp">>} : r[1] \in {"X", "WT", "temp"}
  BY DEF VmRegs
<1>3. \A r \in VmRegs \cup {<<"temp">>} : r \notin Frags
  BY <1>1, <1>2
<1>4. \A m \in {"A", "B"}, i \in Nat : \A r \in Halves(m, i) : r \in Frags /\ r[1] = m /\ r[2] = i
  BY DEF Halves, Frags
<1>5. QED
  BY <1>1, <1>3, <1>4 DEF Regs, LdsRegs

\* What the facts of Every look like.
LEMMA EveryParts ==
  /\ \A f \in Every : f = <<f[1], f[2]>> /\ f[1] \in Regs /\ f[2] \in Nat
  /\ \A r \in Regs, a \in Nat : <<r, a>> \in Every
  /\ \A f \in Every : f \in Calm <=> f[1] \notin Frags
<1>1. /\ \A f \in Every : f = <<f[1], f[2]>> /\ f[1] \in Regs /\ f[2] \in Nat
      /\ \A r \in Regs, a \in Nat : <<r, a>> \in Every
  BY DEF Every, Ever
<1>2. \A f \in Every : f \in Calm <=> f[1] \in VmRegs \cup {<<"temp">>}
  BY <1>1 DEF Calm, Ever
<1>3. QED
  BY <1>1, <1>2, Registers

\* A part of Every is a set of facts.
LEMMA PartKnown ==
  ASSUME NEW F, F \subseteq Every
  PROVE  Known(F)
BY EveryParts DEF Known

\* Behind j pairs of loads of the fragments of B.
Aging(j) ==
  {f \in Every : \/ f[1] \notin Frags
                 \/ f[1][1] = "A" /\ f[2] <= 2 * j
                 \/ f[1][1] = "B" /\ f[1][2] < j /\ f[2] <= 2 * (j - 1 - f[1][2])}

\* Behind the waits of c of cols columns.
Ripe(cols, c) ==
  {f \in Every : \/ f[1] \notin Frags
                 \/ f[1][1] = "A" /\ (c > 0 \/ f[2] <= 2 * cols)
                 \/ /\ f[1][1] = "B" /\ f[1][2] < cols
                    /\ f[1][2] < c \/ f[2] <= 2 * (cols - 1 - f[1][2])}

\* Before the first of these loads.
LEMMA AgingStarts == Entails(Calm, Aging(0))
<1>1. Known(Aging(0))
  BY PartKnown DEF Aging
<1>2. ASSUME NEW f \in Aging(0) PROVE f[2] = 0 \/ \E b \in Nat : b >= f[2] /\ <<f[1], b>> \in Calm
  <2>1. f \in Every /\ f = <<f[1], f[2]>> /\ f[1] \in Regs /\ f[2] \in Nat
    BY EveryParts DEF Aging
  <2>2. CASE f[1] \notin Frags
    <3>1. f \in Calm
      BY <2>1, <2>2, EveryParts
    <3>2. QED
      BY <2>1, <3>1
  <2>3. CASE f[1] \in Frags
    <3>1. f[1][2] \in Nat
      BY <2>3, Registers
    <3>2. f[2] <= 0
      BY <2>3, <3>1 DEF Aging
    <3>3. QED
      BY <2>1, <3>2
  <2>4. QED
    BY <2>2, <2>3
<1>3. QED
  BY <1>1, <1>2 DEF Entails

\* One more fragment of B: those loaded before age by two.
LEMMA AgingStep ==
  ASSUME NEW V, Known(V), NEW c \in Nat, NEW u, NEW mat, NEW b, NEW ks
  PROVE  Work(V, Aging(c), FragmentLoads(<<"B", c>>, u, mat, b, ks), V, Aging(c + 1))
<1>1. Known(Aging(c)) /\ Known(Aging(c + 1))
  BY PartKnown DEF Aging
<1>2. ASSUME NEW f \in Aging(c + 1), f[2] # 0
      PROVE  f[1] \notin Halves("B", c) /\ \E a \in Nat : <<f[1], a>> \in Aging(c) /\ f[2] <= a + 2
  <2>1. f \in Every /\ f = <<f[1], f[2]>> /\ f[1] \in Regs /\ f[2] \in Nat
    BY EveryParts DEF Aging
  <2>2. PICK r \in Regs, n \in Nat : r = f[1] /\ n = f[2] /\ n # 0
    BY <1>2, <2>1
  <2>3. \/ r \notin Frags
        \/ r[1] = "A" /\ n <= 2 * (c + 1)
        \/ r[1] = "B" /\ r[2] < c + 1 /\ n <= 2 * (c - r[2])
    BY <2>2 DEF Aging
  <2>4. \A a \in Nat : /\ <<r, a>> \in Every
                       /\ \/ r \notin Frags
                          \/ r[1] = "A" /\ a <= 2 * c
                          \/ r[1] = "B" /\ r[2] < c /\ a <= 2 * (c - 1 - r[2])
                       => <<r, a>> \in Aging(c)
    BY DEF Aging
  <2>5. r \in Halves("B", c) => r \in Frags /\ r[1] = "B" /\ r[2] = c
    BY Registers
  <2>6. PICK a \in Nat : a = IF n >= 2 THEN n - 2 ELSE 0
    BY <2>2
  <2>7. CASE r \notin Frags
    <3>1. <<r, n>> \in Aging(c) /\ r \notin Halves("B", c)
      BY <2>4, <2>5, <2>7, EveryParts
    <3>2. QED
      BY <2>2, <3>1
  <2>8. CASE r \in Frags /\ r[1] = "A" /\ n <= 2 * (c + 1)
    <3>1. a <= 2 * c /\ n <= a + 2
      BY <2>6, <2>8
    <3>2. <<r, a>> \in Aging(c) /\ r \notin Halves("B", c)
      BY <2>4, <2>5, <2>8, <3>1, EveryParts
    <3>3. QED
      BY <2>2, <3>1, <3>2
  <2>9. CASE r \in Frags /\ r[1] = "B" /\ r[2] < c + 1 /\ n <= 2 * (c - r[2])
    <3>1. r[2] \in Nat
      BY <2>9, Registers
    <3>2. PICK k \in Nat : k = r[2]
      BY <3>1
    <3>3. k < c /\ a <= 2 * (c - 1 - k) /\ n <= a + 2
      BY <2>2, <2>6, <2>9, <3>2
    <3>4. <<r, a>> \in Aging(c) /\ r \notin Halves("B", c)
      BY <2>4, <2>5, <2>9, <3>2, <3>3, EveryParts
    <3>5. QED
      BY <2>2, <3>3, <3>4
  <2>10. QED
    BY <2>3, <2>7, <2>8, <2>9
<1>3. QED
  BY <1>1, <1>2, FragmentsWork

\* Before the first wait.
LEMMA RipeStarts ==
  ASSUME NEW cols \in Nat
  PROVE  Ripe(cols, 0) = Aging(cols)
<1>1. ASSUME NEW f \in Every PROVE f \in Ripe(cols, 0) <=> f \in Aging(cols)
  <2>1. f[1] \in Frags => f[1][2] \in Nat
    BY Registers
  <2>2. QED
    BY <2>1 DEF Ripe, Aging
<1>2. Ripe(cols, 0) \subseteq Every /\ Aging(cols) \subseteq Every
  BY DEF Ripe, Aging
<1>3. QED
  BY <1>1, <1>2

\* These are sets of facts.
LEMMA RipeKnown ==
  ASSUME NEW cols, NEW c
  PROVE  Known(Ripe(cols, c)) /\ Calm \subseteq Ripe(cols, c) /\ Ripe(cols, c) \subseteq Every
<1>1. Ripe(cols, c) \subseteq Every
  BY DEF Ripe
<1>2. Calm \subseteq Every
  BY CalmKnown
<1>3. \A f \in Calm : f[1] \notin Frags
  BY <1>2, EveryParts
<1>4. QED
  BY <1>1, <1>2, <1>3, PartKnown DEF Ripe

\* The wait in front of column c lets the loads of the columns behind it be outstanding.
LEMMA RipeStep ==
  ASSUME NEW V, Known(V), NEW cols \in Nat, NEW c \in 1..cols
  PROVE  Work(V, Ripe(cols, c - 1), <<Wait("lgkm", 2 * cols - 2 * (c - 1) - 2)>>, V, Ripe(cols, c))
<1>1. PICK n \in Nat : n = 2 * cols - 2 * (c - 1) - 2 /\ n = 2 * (cols - c)
  OBVIOUS
<1>2. ASSUME NEW f \in Ripe(cols, c)
      PROVE  \E a \in Nat : (a = 0 \/ <<f[1], a>> \in Ripe(cols, c - 1)) /\ (f[2] <= a \/ n <= a)
  <2>1. f \in Every /\ f = <<f[1], f[2]>> /\ f[1] \in Regs /\ f[2] \in Nat
    BY EveryParts DEF Ripe
  <2>2. PICK r \in Regs, m \in Nat : r = f[1] /\ m = f[2]
    BY <2>1
  <2>3. \A a \in Nat : /\ <<r, a>> \in Every
                       /\ \/ r \notin Frags
                          \/ r[1] = "A" /\ (c - 1 > 0 \/ a <= 2 * cols)
                          \/ /\ r[1] = "B" /\ r[2] < cols
                             /\ r[2] < c - 1 \/ a <= 2 * (cols - 1 - r[2])
                       => <<r, a>> \in Ripe(cols, c - 1)
    BY DEF Ripe
  <2>4. \A a \in Nat : <<r, a>> \in Every
    BY EveryParts
  <2>5. CASE r \notin Frags
    <3>1. <<r, m>> \in Ripe(cols, c - 1)
      BY <2>3, <2>4, <2>5
    <3>2. QED
      BY <2>2, <3>1
  <2>6. CASE r \in Frags /\ r[1] = "A"
    <3>1. 2 * cols \in Nat /\ n <= 2 * cols
      BY <1>1
    <3>2. <<r, 2 * cols>> \in Ripe(cols, c - 1)
      BY <2>3, <2>4, <2>6, <3>1
    <3>3. PICK a \in Nat : a = 2 * cols
      BY <3>1
    <3>4. <<r, a>> \in Ripe(cols, c - 1) /\ n <= a
      BY <3>1, <3>2, <3>3
    <3>5. QED
      BY <2>2, <3>4
  <2>7. CASE r \in Frags /\ r[1] = "B"
    <3>1. PICK k \in Nat : k = r[2]
      BY <2>7, Registers
    <3>2. k < cols /\ (k < c \/ m <= 2 * (cols - 1 - k))
      BY <2>2, <2>7, <3>1 DEF Ripe
    <3>3. CASE k < c - 1 \/ m <= 2 * (cols - 1 - k)
      <4>1. <<r, m>> \in Ripe(cols, c - 1)
        BY <2>3, <2>4, <2>7, <3>1, <3>2, <3>3
      <4>2. QED
        BY <2>2, <4>1
    <3>4. CASE k = c - 1
      <4>1. n = 2 * (cols - 1 - k)
        BY <1>1, <3>4
      <4>2. <<r, n>> \in Ripe(cols, c - 1)
        BY <2>3, <2>4, <2>7, <3>1, <3>2, <4>1
      <4>3. QED
        BY <2>2, <4>2
    <3>5. (k < c - 1 \/ m <= 2 * (cols - 1 - k)) \/ k = c - 1
      BY <3>2
    <3>6. QED
      BY <3>3, <3>4, <3>5
  <2>8. r \in Frags => r[1] = "A" \/ r[1] = "B"
    BY Registers
  <2>9. QED
    BY <2>5, <2>6, <2>7, <2>8
<1>3. QED
  BY <1>1, <1>2, RipeKnown, WaitWork

\* Behind it the column's operands are there.
LEMMA RipeHeld ==
  ASSUME NEW cols \in Nat, NEW c \in 1..cols, NEW r \in Nat
  PROVE  HalvesHeld(Ripe(cols, c), "A", r) /\ HalvesHeld(Ripe(cols, c), "B", c - 1)
<1>1. c - 1 \in Nat /\ c > 0 /\ c - 1 < c /\ c - 1 < cols
  OBVIOUS
<1>2. \A x \in Frags, a \in Nat : <<x, a>> \in Every
  BY EveryParts DEF Regs, LdsRegs
<1>3. ASSUME NEW x \in Halves("A", r), NEW a \in Nat PROVE <<x, a>> \in Ripe(cols, c)
  <2>1. x \in Frags /\ x[1] = "A"
    BY Registers
  <2>2. QED
    BY <1>1, <1>2, <2>1 DEF Ripe
<1>4. ASSUME NEW x \in Halves("B", c - 1), NEW a \in Nat PROVE <<x, a>> \in Ripe(cols, c)
  <2>1. x \in Frags /\ x[1] = "B" /\ x[2] = c - 1
    BY <1>1, Registers
  <2>2. QED
    BY <1>1, <1>2, <2>1 DEF Ripe
<1>5. QED
  BY <1>3, <1>4 DEF HalvesHeld, Clear

\* Behind a wait for everything they all are.
LEMMA EveryHeld ==
  ASSUME NEW m \in {"A", "B"}, NEW i \in Nat
  PROVE  HalvesHeld(Every, m, i)
<1>1. \A r \in Halves(m, i) : r \in Regs
  BY Registers DEF Regs, LdsRegs
<1>2. QED
  BY <1>1, EveryParts DEF HalvesHeld, Clear

\* Loads of fragments in any order leave nothing else to wait for.
LEMMA CalmFragments ==
  ASSUME NEW V, Known(V), NEW m \in {"A", "B"}, NEW i \in Nat, NEW u, NEW mat, NEW b, NEW ks
  PROVE  Work(V, Calm, FragmentLoads(<<m, i>>, u, mat, b, ks), V, Calm)
<1>1. ASSUME NEW f \in Calm
      PROVE  f[1] \notin Halves(m, i) /\ \E a \in Nat : <<f[1], a>> \in Calm /\ f[2] <= a + 2
  <2>1. f = <<f[1], f[2]>> /\ f[2] \in Nat /\ f[1] \notin Frags
    BY CalmKnown, EveryParts
  <2>2. f[2] <= f[2] + 2
    BY <2>1
  <2>3. QED
    BY <2>1, <2>2, Registers
<1>2. QED
  BY <1>1, CalmKnown, FragmentsWork

-----------------------------------------------------------------------------
\* A step of bulk loads, and a step of gemm_gen.

\* A piece that leaves the rest alone leaves at least what Calm says.
LEMMA ToCalm ==
  ASSUME NEW V, NEW F, NEW q, NEW G, Known(V), Work(V, F, q, V, G), Known(F), Known(G), Calm \subseteq G
  PROVE  Work(V, F, q, V, Calm)
<1>1. Entails(V, V) /\ Entails(F, F) /\ Entails(G, Calm)
  BY EntailsSelf
<1>2. QED
  BY <1>1, WorkWeaken

\* The loads of all columns' fragments.
LEMMA ColumnLoads ==
  ASSUME NEW V, Known(V), NEW cols \in Nat, NEW u, NEW mat, NEW ks, NEW g,
         g = [c \in 1..cols |-> FragmentLoads(<<"B", c - 1>>, u, mat, c - 1, ks)]
  PROVE  Work(V, Calm, FlattenSeq(g), V, Ripe(cols, 0))
<1> DEFINE Vs == [c \in 0..cols |-> V]
           Fs == [c \in 0..cols |-> Aging(c)]
<1>2. g = [c \in 1..cols |-> g[c]] /\ \A c \in 1..cols : g[c] = FragmentLoads(<<"B", c - 1>>, u, mat, c - 1, ks)
  OBVIOUS
<1>3. \A c \in 0..cols : Vs[c] = V /\ Fs[c] = Aging(c)
  OBVIOUS
<1>4. 0 \in 0..cols /\ cols \in 0..cols
  OBVIOUS
<1> HIDE DEF Vs, Fs
<1>5. Known(Vs[0]) /\ Known(Fs[0])
  BY <1>3, <1>4, AgingStarts DEF Entails
<1>6. ASSUME NEW c \in 1..cols PROVE Work(Vs[c - 1], Fs[c - 1], g[c], Vs[c], Fs[c])
  <2>1. PICK d \in Nat : d = c - 1 /\ d + 1 = c
    OBVIOUS
  <2>2. Work(V, Aging(d), FragmentLoads(<<"B", d>>, u, mat, d, ks), V, Aging(d + 1))
    BY AgingStep
  <2>3. d \in 0..cols /\ c \in 0..cols
    BY <2>1
  <2>4. QED
    BY <1>2, <1>3, <2>1, <2>2, <2>3
<1>7. Work(Vs[0], Fs[0], FlattenSeq(g), Vs[cols], Fs[cols])
  BY <1>2, <1>5, <1>6, WorkEach
<1>8. Work(V, Aging(0), FlattenSeq(g), V, Aging(cols))
  BY <1>3, <1>4, <1>7
<1>9. Entails(V, V) /\ Entails(Ripe(cols, 0), Ripe(cols, 0))
  BY EntailsSelf, RipeKnown
<1>10. QED
  BY <1>8, <1>9, AgingStarts, RipeStarts, WorkWeaken

\* The columns in turn, each behind its wait.
LEMMA ColumnsWork ==
  ASSUME NEW V, Known(V), NEW cols \in Nat, NEW g, g = [c \in 1..cols |-> g[c]],
         \A c \in 1..cols : Work(V, Ripe(cols, c - 1), g[c], V, Ripe(cols, c))
  PROVE  Work(V, Ripe(cols, 0), FlattenSeq(g), V, Calm)
<1> DEFINE Vs == [c \in 0..cols |-> V]
           Fs == [c \in 0..cols |-> Ripe(cols, c)]
<1>1. \A c \in 0..cols : Vs[c] = V /\ Fs[c] = Ripe(cols, c)
  OBVIOUS
<1> HIDE DEF Vs, Fs
<1>2. 0 \in 0..cols /\ cols \in 0..cols /\ \A c \in 1..cols : c \in 0..cols /\ c - 1 \in 0..cols
  OBVIOUS
<1>3. Known(Vs[0]) /\ Known(Fs[0])
  BY <1>1, <1>2, RipeKnown
<1>4. \A c \in 1..cols : Work(Vs[c - 1], Fs[c - 1], g[c], Vs[c], Fs[c])
  BY <1>1, <1>2
<1>5. Work(Vs[0], Fs[0], FlattenSeq(g), Vs[cols], Fs[cols])
  BY <1>3, <1>4, WorkEach
<1>6. Work(V, Ripe(cols, 0), FlattenSeq(g), V, Ripe(cols, cols))
  BY <1>1, <1>2, <1>5
<1>7. QED
  BY <1>6, RipeKnown, ToCalm

\* A row of products, when the fragments are there.
LEMMA ProductsWork ==
  ASSUME NEW V, Quiet(V), NEW F, Known(F), NEW n \in Nat, NEW p, p = [r \in 1..n |-> p[r]],
         \A r \in 1..n : \E into : \E i \in Nat, j \in Nat :
            /\ p[r] = <<Wmma(into, <<"A", i>>, <<"B", j>>)>>
            /\ HalvesHeld(F, "A", i) /\ HalvesHeld(F, "B", j)
  PROVE  Work(V, F, FlattenSeq(p), V, F)
<1>1. ASSUME NEW r \in 1..n PROVE Work(V, F, p[r], V, F)
  <2>1. PICK into : \E i \in Nat, j \in Nat :
            /\ p[r] = <<Wmma(into, <<"A", i>>, <<"B", j>>)>>
            /\ HalvesHeld(F, "A", i) /\ HalvesHeld(F, "B", j)
    OBVIOUS
  <2>2. PICK i \in Nat, j \in Nat :
            /\ p[r] = <<Wmma(into, <<"A", i>>, <<"B", j>>)>>
            /\ HalvesHeld(F, "A", i) /\ HalvesHeld(F, "B", j)
    BY <2>1
  <2>3. Work(V, F, <<Wmma(into, <<"A", i>>, <<"B", j>>)>>, V, F)
    BY <2>2, WmmaWork
  <2>4. QED
    BY <2>2, <2>3
<1>2. Known(V)
  BY DEF Quiet
<1>3. QED
  BY <1>1, <1>2, WorkAll

\* A step of lower_gemm that loads all its fragments and then multiplies.
LEMMA BulkStepWork ==
  ASSUME NEW V, Quiet(V), NEW s, Sized(s), NEW u, NEW ks
  PROVE  Work(V, Calm, BulkStep(s, u, ks), V, Calm)
<1> DEFINE rows == NRowBlocks(s)
           cols == NColTiles(s)
           a == [r \in 1..rows |-> FragmentLoads(<<"A", r - 1>>, u, "X", r - 1, ks)]
           b == [c \in 1..cols |-> FragmentLoads(<<"B", c - 1>>, u, "WT", c - 1, ks)]
           prod(c) == [r \in 1..rows |-> <<Wmma(<<r - 1, c - 1>>, <<"A", r - 1>>, <<"B", c - 1>>)>>]
           p == [c \in 1..cols |-> <<Wait("lgkm", 2 * cols - 2 * (c - 1) - 2)>>
                                     \o FlattenSeq(prod(c))]
<1>1. rows \in Nat /\ cols \in Nat /\ Known(V) /\ Known(Calm)
  BY CalmKnown DEF Sized, Quiet
<1>2. BulkStep(s, u, ks) = (FlattenSeq(a) \o FlattenSeq(b)) \o FlattenSeq(p)
  BY DEF BulkStep, Each
<1>3. Work(V, Calm, FlattenSeq(a), V, Calm)
  <2>1. ASSUME NEW r \in 1..rows PROVE Work(V, Calm, a[r], V, Calm)
    <3>1. PICK i \in Nat : i = r - 1
      BY <1>1
    <3>2. Work(V, Calm, FragmentLoads(<<"A", i>>, u, "X", i, ks), V, Calm)
      BY <1>1, CalmFragments
    <3>3. QED
      BY <3>1, <3>2
  <2>2. a = [r \in 1..rows |-> a[r]]
    OBVIOUS
  <2> HIDE DEF a, rows
  <2>3. QED
    BY <1>1, <2>1, <2>2, WorkAll
<1>4. Work(V, Calm, FlattenSeq(b), V, Ripe(cols, 0))
  BY <1>1, ColumnLoads
<1>5. ASSUME NEW c \in 1..cols PROVE Work(V, Ripe(cols, c - 1), p[c], V, Ripe(cols, c))
  <2>1. Known(Ripe(cols, c))
    BY RipeKnown
  <2>2. ASSUME NEW r \in 1..rows
        PROVE  \E into : \E i \in Nat, j \in Nat :
                 /\ prod(c)[r] = <<Wmma(into, <<"A", i>>, <<"B", j>>)>>
                 /\ HalvesHeld(Ripe(cols, c), "A", i) /\ HalvesHeld(Ripe(cols, c), "B", j)
    <3>1. PICK i \in Nat, j \in Nat : i = r - 1 /\ j = c - 1
      BY <1>1
    <3>2. HalvesHeld(Ripe(cols, c), "A", i) /\ HalvesHeld(Ripe(cols, c), "B", j)
      BY <1>1, <3>1, RipeHeld
    <3>3. prod(c)[r] = <<Wmma(<<i, j>>, <<"A", i>>, <<"B", j>>)>>
      BY <3>1
    <3> HIDE DEF prod
    <3>4. QED
      BY <3>2, <3>3
  <2>3. prod(c) = [r \in 1..rows |-> prod(c)[r]]
    OBVIOUS
  <2>4. p[c] = <<Wait("lgkm", 2 * cols - 2 * (c - 1) - 2)>> \o FlattenSeq(prod(c))
    OBVIOUS
  <2> HIDE DEF p, prod, rows, cols
  <2>5. Work(V, Ripe(cols, c), FlattenSeq(prod(c)), V, Ripe(cols, c))
    BY <1>1, <2>1, <2>2, <2>3, ProductsWork
  <2>6. Work(V, Ripe(cols, c - 1), <<Wait("lgkm", 2 * cols - 2 * (c - 1) - 2)>>, V, Ripe(cols, c))
    BY <1>1, RipeStep
  <2>7. QED
    BY <2>4, <2>5, <2>6, WorkThen
<1>6. p = [c \in 1..cols |-> p[c]]
  OBVIOUS
<1> HIDE DEF a, b, p, rows, cols
<1>7. Work(V, Ripe(cols, 0), FlattenSeq(p), V, Calm)
  BY <1>1, <1>5, <1>6, ColumnsWork
<1>8. Work(V, Calm, FlattenSeq(a) \o FlattenSeq(b), V, Ripe(cols, 0))
  BY <1>3, <1>4, WorkThen
<1>9. QED
  BY <1>2, <1>7, <1>8, WorkThen

\* A step of gemm_gen, which waits for everything.
LEMMA GenStepWork ==
  ASSUME NEW V, Quiet(V), NEW s, Sized(s), s.gen = "gemm_gen", NEW u, NEW ks
  PROVE  Work(V, Calm, GenStep(s, u, ks), V, Calm)
<1> DEFINE rows == NRowBlocks(s)
           cols == NColTiles(s)
           row(r) == FragmentLoads(<<"A", r>>, u, "X", r, ks)
           b == [c \in 1..cols |-> FragmentLoads(<<"B", c - 1>>, u, "WT", c - 1, ks)]
           p == [c \in 1..cols |-> <<Wait("lgkm", 2 * cols - 2 * (c - 1) - 2),
                                     Wmma(<<0, c - 1>>, <<"A", 0>>, <<"B", c - 1>>)>>]
           prod(r) == [c \in 1..cols |-> <<Wmma(<<(r - 1) + 1, c - 1>>, <<"A", (r - 1) + 1>>, <<"B", c - 1>>)>>]
           g == [r \in 1..(rows - 1) |-> (row((r - 1) + 1) \o <<Wait("lgkm", 0)>>) \o FlattenSeq(prod(r))]
<1>1. rows \in Nat /\ rows - 1 \in Nat /\ cols \in Nat /\ Known(V) /\ Known(Calm) /\ Known(Every)
  BY CalmKnown DEF Sized, Quiet
<1>2. GenStep(s, u, ks) = ((row(0) \o FlattenSeq(b)) \o FlattenSeq(p)) \o FlattenSeq(g)
  BY DEF GenStep, Each
<1>3. \A i \in Nat : Work(V, Calm, row(i), V, Calm)
  BY <1>1, CalmFragments
<1>4. Work(V, Calm, FlattenSeq(b), V, Ripe(cols, 0))
  BY <1>1, ColumnLoads
<1>5. ASSUME NEW c \in 1..cols PROVE Work(V, Ripe(cols, c - 1), p[c], V, Ripe(cols, c))
  <2>1. Known(Ripe(cols, c))
    BY RipeKnown
  <2>2. PICK w : w = Wait("lgkm", 2 * cols - 2 * (c - 1) - 2)
    OBVIOUS
  <2>3. PICK j \in Nat : j = c - 1
    BY <1>1
  <2>4. PICK x : x = Wmma(<<0, j>>, <<"A", 0>>, <<"B", j>>)
    OBVIOUS
  <2>5. p[c] = <<w, x>>
    BY <2>2, <2>3, <2>4
  <2>6. p[c] = <<w>> \o <<x>>
    BY <2>5, TwoParts
  <2> HIDE DEF p, cols
  <2>7. HalvesHeld(Ripe(cols, c), "A", 0) /\ HalvesHeld(Ripe(cols, c), "B", j)
    BY <1>1, <2>3, RipeHeld
  <2>8. Work(V, Ripe(cols, c), <<x>>, V, Ripe(cols, c))
    BY <2>1, <2>4, <2>7, WmmaWork
  <2>9. Work(V, Ripe(cols, c - 1), <<w>>, V, Ripe(cols, c))
    BY <1>1, <2>2, RipeStep
  <2>10. QED
    BY <2>6, <2>8, <2>9, WorkThen
<1>6. p = [c \in 1..cols |-> p[c]] /\ g = [r \in 1..(rows - 1) |-> g[r]]
  OBVIOUS
<1>7. ASSUME NEW r \in 1..(rows - 1) PROVE Work(V, Calm, g[r], V, Calm)
  <2>1. PICK i \in Nat : i = (r - 1) + 1
    BY <1>1
  <2>2. Work(V, Calm, row(i), V, Calm)
    BY <1>3
  <2>3. Work(V, Calm, <<Wait("lgkm", 0)>>, V, Every)
    BY <1>1, WaitAllWork
  <2>4. ASSUME NEW c \in 1..cols
        PROVE  \E into : \E m \in Nat, n \in Nat :
                 /\ prod(r)[c] = <<Wmma(into, <<"A", m>>, <<"B", n>>)>>
                 /\ HalvesHeld(Every, "A", m) /\ HalvesHeld(Every, "B", n)
    <3>1. PICK j \in Nat : j = c - 1
      BY <1>1
    <3>2. HalvesHeld(Every, "A", i) /\ HalvesHeld(Every, "B", j)
      BY EveryHeld
    <3>3. prod(r)[c] = <<Wmma(<<i, j>>, <<"A", i>>, <<"B", j>>)>>
      BY <2>1, <3>1
    <3> HIDE DEF prod
    <3>4. QED
      BY <3>2, <3>3
  <2>5. prod(r) = [c \in 1..cols |-> prod(r)[c]]
    OBVIOUS
  <2>6. g[r] = (row(i) \o <<Wait("lgkm", 0)>>) \o FlattenSeq(prod(r))
    BY <2>1
  <2> HIDE DEF g, prod, row, cols
  <2>7. Work(V, Every, FlattenSeq(prod(r)), V, Every)
    BY <1>1, <2>4, <2>5, ProductsWork
  <2>8. Work(V, Calm, row(i) \o <<Wait("lgkm", 0)>>, V, Every)
    BY <2>2, <2>3, WorkThen
  <2>9. Work(V, Calm, g[r], V, Every)
    BY <2>6, <2>7, <2>8, WorkThen
  <2>10. QED
    BY <1>1, <2>9, CalmKnown, ToCalm
<1>8. Work(V, Calm, row(0), V, Calm)
  BY <1>3
<1> HIDE DEF b, p, g, row, rows, cols
<1>9. Work(V, Ripe(cols, 0), FlattenSeq(p), V, Calm)
  BY <1>1, <1>5, <1>6, ColumnsWork
<1>10. Work(V, Calm, FlattenSeq(g), V, Calm)
  BY <1>1, <1>6, <1>7, WorkAll
<1>11. Work(V, Calm, row(0) \o FlattenSeq(b), V, Ripe(cols, 0))
  BY <1>4, <1>8, WorkThen
<1>12. Work(V, Calm, (row(0) \o FlattenSeq(b)) \o FlattenSeq(p), V, Calm)
  BY <1>9, <1>11, WorkThen
<1>13. QED
  BY <1>2, <1>10, <1>12, WorkThen

-----------------------------------------------------------------------------
\* A streaming step.

\* In front of column c of a streaming step: the fragments of A and this column's of B
\* are there.
Flow(cols, c) ==
  {f \in Every : \/ f[1] \notin Frags
                 \/ f[1][1] = "A"
                 \/ f[1][1] = "B" /\ c < cols /\ f[1][2] = c % 2}

\* The next column's have been overtaken by the loads of the one after it.
Ahead(c) ==
  {f \in Every : \/ f[1] \notin Frags
                 \/ f[1][1] = "A"
                 \/ f[1][1] = "B" /\ f[1][2] = (c + 1) % 2 /\ f[2] <= 2}

\* These are sets of facts.
LEMMA FlowKnown ==
  ASSUME NEW cols, NEW c
  PROVE  Known(Flow(cols, c)) /\ Known(Ahead(c)) /\ Calm \subseteq Flow(cols, c)
<1>1. Flow(cols, c) \subseteq Every /\ Ahead(c) \subseteq Every
  BY DEF Flow, Ahead
<1>2. Calm \subseteq Every
  BY CalmKnown
<1>3. \A f \in Calm : f[1] \notin Frags
  BY <1>2, EveryParts
<1>4. QED
  BY <1>1, <1>2, <1>3, PartKnown DEF Flow

\* The operands of column c are there.
LEMMA FlowHeld ==
  ASSUME NEW cols \in Nat, NEW c \in Nat, c < cols, NEW r \in Nat
  PROVE  HalvesHeld(Flow(cols, c), "A", r) /\ HalvesHeld(Flow(cols, c), "B", c % 2)
<1>1. c % 2 \in Nat
  OBVIOUS
<1>2. \A x \in Frags, a \in Nat : <<x, a>> \in Every
  BY EveryParts DEF Regs, LdsRegs
<1>3. ASSUME NEW x \in Halves("A", r), NEW a \in Nat PROVE <<x, a>> \in Flow(cols, c)
  <2>1. x \in Frags /\ x[1] = "A"
    BY Registers
  <2>2. QED
    BY <1>2, <2>1 DEF Flow
<1>4. ASSUME NEW x \in Halves("B", c % 2), NEW a \in Nat PROVE <<x, a>> \in Flow(cols, c)
  <2>1. x \in Frags /\ x[1] = "B" /\ x[2] = c % 2
    BY <1>1, Registers
  <2>2. QED
    BY <1>2, <2>1 DEF Flow
<1>5. QED
  BY <1>3, <1>4 DEF HalvesHeld, Clear

\* The wait behind the first loads of a streaming step.
LEMMA FlowStarts ==
  ASSUME NEW V, Known(V), NEW cols
  PROVE  Work(V, Aging(2), <<Wait("lgkm", 2)>>, V, Flow(cols, 0))
<1>1. Known(Aging(2)) /\ Known(Flow(cols, 0))
  BY PartKnown, FlowKnown DEF Aging
<1>2. ASSUME NEW f \in Flow(cols, 0)
      PROVE  \E a \in Nat : (a = 0 \/ <<f[1], a>> \in Aging(2)) /\ (f[2] <= a \/ 2 <= a)
  <2>1. f \in Every /\ f = <<f[1], f[2]>> /\ f[1] \in Regs /\ f[2] \in Nat
    BY EveryParts DEF Flow
  <2>2. PICK r \in Regs, m \in Nat : r = f[1] /\ m = f[2]
    BY <2>1
  <2>3. r \notin Frags \/ r[1] = "A" \/ (r[1] = "B" /\ r[2] = 0)
    BY <2>2 DEF Flow
  <2>4. <<r, m>> \in Every /\ <<r, 2>> \in Every
    BY EveryParts
  <2>5. CASE r \notin Frags
    <3>1. <<r, m>> \in Aging(2)
      BY <2>4, <2>5 DEF Aging
    <3>2. QED
      BY <2>2, <3>1
  <2>6. CASE r[1] = "A" \/ (r[1] = "B" /\ r[2] = 0)
    <3>1. <<r, 2>> \in Aging(2)
      BY <2>4, <2>6 DEF Aging
    <3>2. QED
      BY <2>2, <3>1
  <2>7. QED
    BY <2>3, <2>5, <2>6
<1>3. QED
  BY <1>1, <1>2, WaitWork

\* The loads of the column after the next go over this column's fragment of B.
LEMMA FlowLoads ==
  ASSUME NEW V, Known(V), NEW cols \in Nat, NEW c \in Nat, NEW u, NEW mat, NEW b, NEW ks
  PROVE  Work(V, Flow(cols, c), FragmentLoads(<<"B", c % 2>>, u, mat, b, ks), V, Ahead(c))
<1>1. c % 2 \in Nat /\ (c + 1) % 2 # c % 2
  OBVIOUS
<1>2. ASSUME NEW f \in Ahead(c), f[2] # 0
      PROVE  /\ f[1] \notin Halves("B", c % 2)
             /\ \E a \in Nat : (a = 0 \/ <<f[1], a>> \in Flow(cols, c)) /\ f[2] <= a + 2
  <2>1. f \in Every /\ f = <<f[1], f[2]>> /\ f[1] \in Regs /\ f[2] \in Nat
    BY EveryParts DEF Ahead
  <2>2. PICK r \in Regs, m \in Nat : r = f[1] /\ m = f[2]
    BY <2>1
  <2>3. \/ r \notin Frags \/ r[1] = "A"
        \/ r[1] = "B" /\ r[2] = (c + 1) % 2 /\ m <= 2
    BY <2>2 DEF Ahead
  <2>4. <<r, m>> \in Every
    BY EveryParts
  <2>5. r \in Halves("B", c % 2) => r \in Frags /\ r[1] = "B" /\ r[2] = c % 2
    BY <1>1, Registers
  <2>6. r \notin Halves("B", c % 2)
    BY <1>1, <2>3, <2>5
  <2>7. CASE r \notin Frags \/ r[1] = "A"
    <3>1. <<r, m>> \in Flow(cols, c)
      BY <2>4, <2>7 DEF Flow
    <3>2. QED
      BY <2>2, <2>6, <3>1
  <2>8. CASE m <= 2
    BY <2>2, <2>6, <2>8
  <2>9. QED
    BY <2>3, <2>7, <2>8
<1>3. QED
  BY <1>1, <1>2, FlowKnown, FragmentsWork

\* The wait for the next column lets those two be outstanding.
LEMMA FlowWaits ==
  ASSUME NEW V, Known(V), NEW cols \in Nat, NEW c \in Nat
  PROVE  Work(V, Ahead(c), <<Wait("lgkm", 2)>>, V, Flow(cols, c + 1))
<1>1. ASSUME NEW f \in Flow(cols, c + 1)
      PROVE  \E a \in Nat : (a = 0 \/ <<f[1], a>> \in Ahead(c)) /\ (f[2] <= a \/ 2 <= a)
  <2>1. f \in Every /\ f = <<f[1], f[2]>> /\ f[1] \in Regs /\ f[2] \in Nat
    BY EveryParts DEF Flow
  <2>2. PICK r \in Regs, m \in Nat : r = f[1] /\ m = f[2]
    BY <2>1
  <2>3. r \notin Frags \/ r[1] = "A" \/ (r[1] = "B" /\ r[2] = (c + 1) % 2)
    BY <2>2 DEF Flow
  <2>4. <<r, m>> \in Every /\ <<r, 2>> \in Every
    BY EveryParts
  <2>5. CASE r \notin Frags \/ r[1] = "A"
    <3>1. <<r, m>> \in Ahead(c)
      BY <2>4, <2>5 DEF Ahead
    <3>2. QED
      BY <2>2, <3>1
  <2>6. CASE r[1] = "B" /\ r[2] = (c + 1) % 2
    <3>1. <<r, 2>> \in Ahead(c)
      BY <2>4, <2>6 DEF Ahead
    <3>2. QED
      BY <2>2, <3>1
  <2>7. QED
    BY <2>3, <2>5, <2>6
<1>2. QED
  BY <1>1, FlowKnown, WaitWork

\* The columns of a streaming step.
LEMMA StreamColumnsWork ==
  ASSUME NEW V, Known(V), NEW s, Sized(s), NEW u, NEW ks, NEW products,
         \A c \in 0..(NColTiles(s) - 1) :
            Work(V, Flow(NColTiles(s), c), products[c], V, Flow(NColTiles(s), c))
  PROVE  Work(V, Calm, StreamColumns(s, u, ks, 2, products), V, Calm)
<1> DEFINE cols == NColTiles(s)
           B(c) == <<"B", c % 2>>
           later(c) == When(c + 2 < cols, FragmentLoads(B(c), u, "WT", c + 2, ks))
           wait(c) == When(c + 1 < cols, <<Wait("lgkm", IF c + 2 < cols THEN 2 ELSE 0)>>)
           p == [c \in 1..cols |-> (products[c - 1] \o later(c - 1)) \o wait(c - 1)]
           start == <<Wait("lgkm", 2)>>
           b0 == FragmentLoads(B(0), u, "WT", 0, ks)
           b1 == FragmentLoads(B(1), u, "WT", 1, ks)
           Vs == [c \in 0..cols |-> V]
           Fs == [c \in 0..cols |-> Flow(cols, c)]
<1>1. cols \in Nat
  BY DEF Sized
<1>2. StreamColumns(s, u, ks, 2, products) = ((b0 \o b1) \o start) \o FlattenSeq(p)
  BY DEF StreamColumns, Each
<1>3. ASSUME NEW c \in 1..cols PROVE Work(V, Flow(cols, c - 1), p[c], V, Flow(cols, c))
  <2>1. PICK d \in 0..(cols - 1) : d = c - 1 /\ d \in Nat /\ d + 1 = c
    BY <1>1
  <2>2. Work(V, Flow(cols, d), products[d], V, Flow(cols, d))
    OBVIOUS
  <2>3. Known(Flow(cols, d)) /\ Known(Flow(cols, c))
    BY FlowKnown
  <2>4. p[c] = (products[d] \o later(d)) \o wait(d)
    BY <2>1
  <2>5. CASE d + 2 < cols
    <3>1. later(d) = FragmentLoads(<<"B", d % 2>>, u, "WT", d + 2, ks) /\ wait(d) = <<Wait("lgkm", 2)>>
      <4>1. d + 1 < cols
        BY <1>1, <2>5
      <4>2. QED
        BY <2>5, <4>1 DEF When
    <3> HIDE DEF p, later, wait, cols
    <3>2. Work(V, Flow(cols, d), later(d), V, Ahead(d))
      BY <1>1, <2>1, <3>1, FlowLoads
    <3>3. Work(V, Ahead(d), wait(d), V, Flow(cols, c))
      BY <1>1, <2>1, <3>1, FlowWaits
    <3>4. QED
      BY <2>1, <2>2, <2>4, <3>2, <3>3, WorkThen
  <2>6. CASE ~(d + 2 < cols) /\ d + 1 < cols
    <3>1. later(d) = << >> /\ wait(d) = <<Wait("lgkm", 0)>>
      BY <2>6 DEF When
    <3> HIDE DEF p, later, wait, cols
    <3>2. Work(V, Flow(cols, d), later(d), V, Flow(cols, d))
      BY <2>3, <3>1, WorkNothing
    <3>3. Work(V, Flow(cols, d), wait(d), V, Every)
      BY <2>3, <3>1, WaitAllWork
    <3>4. Work(V, Flow(cols, d), p[c], V, Every)
      BY <2>2, <2>4, <3>2, <3>3, WorkThen
    <3>5. Flow(cols, c) \subseteq Every
      BY DEF Flow
    <3>6. Entails(V, V) /\ Entails(Flow(cols, d), Flow(cols, d)) /\ Entails(Every, Flow(cols, c))
      BY <2>3, <3>5, CalmKnown, EntailsSelf
    <3>7. QED
      BY <2>1, <3>4, <3>6, WorkWeaken
  <2>7. CASE ~(d + 1 < cols)
    <3>1. later(d) = << >> /\ wait(d) = << >>
      <4>1. ~(d + 2 < cols)
        BY <1>1, <2>7
      <4>2. QED
        BY <2>7, <4>1 DEF When
    <3>2. c = cols
      BY <1>1, <2>1, <2>7
    <3> HIDE DEF p, later, wait, cols
    <3>3. Work(V, Flow(cols, d), later(d), V, Flow(cols, d)) /\ Work(V, Flow(cols, d), wait(d), V, Flow(cols, d))
      BY <2>3, <3>1, WorkNothing
    <3>4. Work(V, Flow(cols, d), p[c], V, Flow(cols, d))
      BY <2>2, <2>4, <3>3, WorkThen
    <3>5. Flow(cols, c) \subseteq Flow(cols, d)
      BY <1>1, <3>2 DEF Flow
    <3>6. Entails(V, V) /\ Entails(Flow(cols, d), Flow(cols, d)) /\ Entails(Flow(cols, d), Flow(cols, c))
      BY <2>3, <3>5, EntailsSelf
    <3>7. QED
      BY <2>1, <3>4, <3>6, WorkWeaken
  <2>8. QED
    BY <2>5, <2>6, <2>7
<1>4. p = [c \in 1..cols |-> p[c]] /\ 0 \in 0..cols /\ cols \in 0..cols
  <2>1. p = [c \in 1..cols |-> p[c]]
    OBVIOUS
  <2> HIDE DEF p, cols
  <2>2. 0 \in 0..cols /\ cols \in 0..cols
    BY <1>1
  <2>3. QED
    BY <2>1, <2>2
<1>5. /\ Work(V, Aging(0), b0, V, Aging(1)) /\ Work(V, Aging(1), b1, V, Aging(2))
  <2>1. /\ Work(V, Aging(0), FragmentLoads(<<"B", 0>>, u, "WT", 0, ks), V, Aging(0 + 1))
        /\ Work(V, Aging(1), FragmentLoads(<<"B", 1>>, u, "WT", 1, ks), V, Aging(1 + 1))
    BY AgingStep
  <2>2. 0 % 2 = 0 /\ 1 % 2 = 1 /\ 0 + 1 = 1 /\ 1 + 1 = 2
    OBVIOUS
  <2>3. QED
    BY <2>1, <2>2
<1>6. Work(V, Aging(2), start, V, Flow(cols, 0))
  BY FlowStarts
<1>7. \A c \in 0..cols : Vs[c] = V /\ Fs[c] = Flow(cols, c)
  OBVIOUS
<1> HIDE DEF p, cols, start, b0, b1, Vs, Fs
<1>8. Work(V, Flow(cols, 0), FlattenSeq(p), V, Flow(cols, cols))
  <2>1. Known(Vs[0]) /\ Known(Fs[0])
    BY <1>4, <1>7, FlowKnown
  <2>2. \A c \in 1..cols : c \in 0..cols /\ c - 1 \in 0..cols
    BY <1>1
  <2>3. \A c \in 1..cols : Work(Vs[c - 1], Fs[c - 1], p[c], Vs[c], Fs[c])
    BY <1>3, <1>7, <2>2
  <2>4. Work(Vs[0], Fs[0], FlattenSeq(p), Vs[cols], Fs[cols])
    BY <1>1, <1>4, <2>1, <2>3, WorkEach
  <2>5. QED
    BY <1>4, <1>7, <2>4
<1>9. Work(V, Aging(0), ((b0 \o b1) \o start) \o FlattenSeq(p), V, Flow(cols, cols))
  BY <1>5, <1>6, <1>8, WorkThen
<1>10. Entails(V, V) /\ Entails(Flow(cols, cols), Calm)
  BY FlowKnown, EntailsSelf
<1>11. QED
  BY <1>2, <1>9, <1>10, AgingStarts, WorkWeaken

\* A streaming step that is the only one of its tile.
LEMMA StreamStepWork ==
  ASSUME NEW V, Quiet(V), NEW s, Sized(s), KSubSteps(s) <= 1, NEW u
  PROVE  Work(V, Calm, StreamStep(s, u, 0), V, Calm)
<1> DEFINE rows == NRowBlocks(s)
           cols == NColTiles(s)
           a(k) == [r \in 1..rows |-> FragmentLoads(<<"A", r - 1>>, u, "X", r - 1, k)]
           next(c) == When(c = cols - 1 /\ 0 + 1 < KSubSteps(s), FlattenSeq(a(0 + 1)))
           p(c) == [r \in 1..rows |->
                     <<Wmma(<<r - 1, c>>, <<"A", r - 1>>, <<"B", c % 2>>)>> \o next(c)]
           products == [c \in 0..(cols - 1) |-> FlattenSeq(p(c))]
<1>1. rows \in Nat /\ cols \in Nat /\ Known(V) /\ Known(Calm) /\ ~(0 + 1 < KSubSteps(s))
  BY CalmKnown DEF Sized, Quiet
<1>2. StreamStep(s, u, 0) =
        When(0 = 0, FlattenSeq(a(0))) \o StreamColumns(s, u, 0, 2 + IF 0 > 0 THEN 2 * rows ELSE 0, products)
  BY DEF StreamStep, Each
<1>3. StreamStep(s, u, 0) = FlattenSeq(a(0)) \o StreamColumns(s, u, 0, 2, products)
  <2>1. When(0 = 0, FlattenSeq(a(0))) = FlattenSeq(a(0)) /\ 2 + (IF 0 > 0 THEN 2 * rows ELSE 0) = 2
    BY DEF When
  <2>2. QED
    BY <1>2, <2>1
<1>4. Work(V, Calm, FlattenSeq(a(0)), V, Calm)
  <2>1. ASSUME NEW r \in 1..rows PROVE Work(V, Calm, a(0)[r], V, Calm)
    <3>1. PICK i \in Nat : i = r - 1
      BY <1>1
    <3>2. Work(V, Calm, FragmentLoads(<<"A", i>>, u, "X", i, 0), V, Calm)
      BY <1>1, CalmFragments
    <3>3. QED
      BY <3>1, <3>2
  <2>2. a(0) = [r \in 1..rows |-> a(0)[r]]
    OBVIOUS
  <2> HIDE DEF a, rows
  <2>3. QED
    BY <1>1, <2>1, <2>2, WorkAll
<1>5. ASSUME NEW c \in 0..(cols - 1) PROVE Work(V, Flow(cols, c), products[c], V, Flow(cols, c))
  <2>1. c \in Nat /\ c < cols /\ c % 2 \in Nat
    BY <1>1
  <2>2. Known(Flow(cols, c))
    BY FlowKnown
  <2>3. next(c) = << >>
    BY <1>1 DEF When
  <2>4. ASSUME NEW r \in 1..rows
        PROVE  \E into : \E i \in Nat, j \in Nat :
                 /\ p(c)[r] = <<Wmma(into, <<"A", i>>, <<"B", j>>)>>
                 /\ HalvesHeld(Flow(cols, c), "A", i) /\ HalvesHeld(Flow(cols, c), "B", j)
    <3>1. PICK i \in Nat, j \in Nat : i = r - 1 /\ j = c % 2
      BY <1>1, <2>1
    <3>2. HalvesHeld(Flow(cols, c), "A", i) /\ HalvesHeld(Flow(cols, c), "B", j)
      BY <1>1, <2>1, <3>1, FlowHeld
    <3>3. PICK x : x = Wmma(<<i, c>>, <<"A", i>>, <<"B", j>>)
      OBVIOUS
    <3> HIDE DEF next
    <3>4. p(c)[r] = <<x>> \o << >>
      BY <2>3, <3>1, <3>3
    <3>5. p(c)[r] = <<x>>
      BY <3>4, OneIsSeq, OneElement
    <3> HIDE DEF p, cols
    <3>6. QED
      BY <3>2, <3>3, <3>5
  <2>5. p(c) = [r \in 1..rows |-> p(c)[r]] /\ products[c] = FlattenSeq(p(c))
    OBVIOUS
  <2> HIDE DEF p, rows, products, cols
  <2>6. QED
    BY <1>1, <2>2, <2>4, <2>5, ProductsWork
<1> HIDE DEF a, products, rows
<1>6. Work(V, Calm, StreamColumns(s, u, 0, 2, products), V, Calm)
  BY <1>1, <1>5, StreamColumnsWork
<1>7. QED
  BY <1>3, <1>4, <1>6, WorkThen

-----------------------------------------------------------------------------
\* Exchanged accumulators, and the products of a tile.

\* Five instructions.
LEMMA FiveParts ==
  ASSUME NEW u, NEW v, NEW w, NEW x, NEW z
  PROVE  (<<u>> \o <<v>>) \o <<w, x, z>> = <<u, v, w, x, z>>
<1> DEFINE S == {u, v, w, x, z}
<1>1. PICK p : p = <<u, v>>
  OBVIOUS
<1>2. PICK q : q = <<w, x, z>>
  OBVIOUS
<1>3. PICK r : r = <<u, v, w, x, z>>
  OBVIOUS
<1>4. p \in Seq(S) /\ Len(p) = 2 /\ p[1] = u /\ p[2] = v
  BY <1>1
<1>5. q \in Seq(S) /\ Len(q) = 3 /\ q[1] = w /\ q[2] = x /\ q[3] = z
  BY <1>2
<1>6. r \in Seq(S) /\ Len(r) = 5 /\ r[1] = u /\ r[2] = v /\ r[3] = w /\ r[4] = x /\ r[5] = z
  BY <1>3
<1>7. PICK j : j = p \o q
  OBVIOUS
<1> HIDE DEF S
<1>8. /\ j \in Seq(S) /\ Len(j) = Len(p) + Len(q)
      /\ \A i \in 1..Len(p) + Len(q) : j[i] = IF i <= Len(p) THEN p[i] ELSE q[i - Len(p)]
  BY <1>4, <1>5, <1>7, ConcatProperties
<1>9. Len(j) = 5 /\ \A i \in 1..5 : j[i] = IF i <= 2 THEN p[i] ELSE q[i - 2]
  BY <1>4, <1>5, <1>8
<1>10. \A i \in 1..5 : j[i] = r[i]
  <2>1. \A i \in 1..5 : i = 1 \/ i = 2 \/ i = 3 \/ i = 4 \/ i = 5
    OBVIOUS
  <2>2. j[1] = u /\ j[2] = v /\ j[3] = w /\ j[4] = x /\ j[5] = z
    BY <1>4, <1>5, <1>9
  <2>3. QED
    BY <1>6, <2>1, <2>2
<1>11. j = r
  BY <1>6, <1>8, <1>9, <1>10, SeqEqual
<1>12. QED
  BY <1>1, <1>2, <1>3, <1>7, <1>11, TwoParts

\* An exchange of accumulators waits for what it loads.
LEMMA AccSwapWork ==
  ASSUME NEW V, Quiet(V), NEW s, Sized(s)
  PROVE  Work(V, Calm, AccSwap(s), V, Calm)
<1> DEFINE cols == NColTiles(s)
           x == [c \in 1..cols |-> <<SwapIn(c - 1), Wait("lgkm", 0), SwapOut(c - 1),
                                     Wait("lgkm", 0), MoveTemp(c - 1)>>]
           F == Ever(VmRegs)
<1>1. cols \in Nat /\ Known(V) /\ Known(Calm) /\ Known(F) /\ Known(Every)
  BY CalmKnown, EverClear DEF Sized, Quiet
<1>2. AccSwap(s) = FlattenSeq(x)
  BY DEF AccSwap, Each
<1>3. <<"temp">> \in Regs /\ <<"temp">> \notin VmRegs
  <2>1. \A r \in VmRegs : r[1] \in {"X", "WT"}
    BY DEF VmRegs
  <2>2. <<"temp">>[1] \notin {"X", "WT"}
    OBVIOUS
  <2>3. QED
    BY <2>1, <2>2 DEF Regs, LdsRegs
<1>4. Clear(V, <<"temp">>) /\ Clear(Every, <<"temp">>)
  <2>1. <<"temp">> \in LdsRegs
    BY DEF LdsRegs
  <2>2. QED
    BY <1>3, <2>1, EverClear DEF Quiet, Every
<1>5. ASSUME NEW c \in 1..cols PROVE Work(V, Calm, x[c], V, Calm)
  <2>1. PICK p : p = SwapIn(c - 1)
    OBVIOUS
  <2>2. PICK q : q = SwapOut(c - 1)
    OBVIOUS
  <2>3. PICK r : r = MoveTemp(c - 1)
    OBVIOUS
  <2>4. PICK w : w = Wait("lgkm", 0)
    OBVIOUS
  <2>5. x[c] = <<p, w, q, w, r>>
    BY <2>1, <2>2, <2>3, <2>4
  <2>6. <<q, w, r>> = <<q>> \o (<<w>> \o <<r>>)
    BY TwoParts, ThreeParts
  <2>7. x[c] = (<<p>> \o <<w>>) \o (<<q>> \o (<<w>> \o <<r>>))
    BY <2>5, <2>6, FiveParts
  <2>8. /\ p.op = "swap_in" /\ Writes(p) = {<<"temp">>} /\ Sources(p) = {}
        /\ q.op = "swap_out" /\ Writes(q) = {} /\ Sources(q) = {}
        /\ r.op = "move_temp" /\ Writes(r) = {} /\ Sources(r) = {<<"temp">>}
    BY <2>1, <2>2, <2>3, InstructionFacts
  <2> HIDE DEF x, cols, F
  <2>9. Work(V, Calm, <<p>>, V, F)
    <3>1. ~Counts(p, "vm")
      BY <2>8 DEF Counts
    <3>2. \A f \in V : Later("vm", V, p, f[1], f[2])
      BY <1>1, <3>1, LaterSame DEF Counters
    <3>3. ASSUME NEW f \in F PROVE Later("lgkm", Calm, p, f[1], f[2])
      <4>1. f = <<f[1], f[2]>> /\ f[1] \in VmRegs /\ f[2] \in Nat /\ f \in Calm
        BY DEF F, Ever, Calm
      <4>2. PICK b \in Nat : b = f[2] /\ <<f[1], b>> \in Calm
        BY <4>1
      <4>3. f[1] \notin Writes(p) /\ b <= b + IF Counts(p, "lgkm") THEN 1 ELSE 0
        BY <1>3, <2>8, <4>1
      <4>4. QED
        BY <4>2, <4>3 DEF Later
    <3>4. QED
      BY <1>1, <1>3, <2>8, <3>2, <3>3, WorkOne
  <2>10. Work(V, F, <<w>>, V, Every) /\ Work(V, Every, <<w>>, V, Every)
    BY <1>1, <2>4, WaitAllWork
  <2>11. Work(V, Every, <<q>>, V, Every)
    BY <1>1, <2>8, WorkPlain
  <2>12. Work(V, Every, <<r>>, V, Every)
    BY <1>1, <1>4, <2>8, WorkPlain
  <2>13. Work(V, Calm, <<p>> \o <<w>>, V, Every)
    BY <2>9, <2>10, WorkThen
  <2>14. Work(V, Every, <<w>> \o <<r>>, V, Every)
    BY <2>10, <2>12, WorkThen
  <2>15. Work(V, Every, <<q>> \o (<<w>> \o <<r>>), V, Every)
    BY <2>11, <2>14, WorkThen
  <2>16. Work(V, Calm, x[c], V, Every)
    BY <2>7, <2>13, <2>15, WorkThen
  <2>17. QED
    BY <1>1, <2>16, CalmKnown, ToCalm
<1>6. x = [c \in 1..cols |-> x[c]]
  OBVIOUS
<1> HIDE DEF x, cols
<1>7. QED
  BY <1>1, <1>2, <1>5, <1>6, WorkAll

\* A tile with exchanged accumulators.
LEMMA SwapComputeWork ==
  ASSUME NEW V, Quiet(V), NEW s, Sized(s), NEW u
  PROVE  Work(V, Calm, SwapCompute(s, u), V, Calm)
<1> DEFINE rows == NRowBlocks(s)
           cols == NColTiles(s)
           steps == KSubSteps(s)
           products == [c \in 0..(cols - 1) |-> <<Wmma(<<0, c>>, <<"A", 0>>, <<"B", c % 2>>)>>]
           step(r) == [k \in 1..steps |->
                        FragmentLoads(<<"A", 0>>, u, "X", r, k - 1)
                        \o StreamColumns(s, u, k - 1, 2, products)]
           swap == When(rows > 1, AccSwap(s))
           x == [r \in 1..rows |-> FlattenSeq(step(r - 1)) \o swap]
<1>1. rows \in Nat /\ cols \in Nat /\ steps \in Nat /\ Known(V) /\ Known(Calm)
  BY CalmKnown DEF Sized, Quiet
<1>2. SwapCompute(s, u) = FlattenSeq(x)
  BY DEF SwapCompute, Each
<1>3. ASSUME NEW c \in 0..(cols - 1) PROVE Work(V, Flow(cols, c), products[c], V, Flow(cols, c))
  <2>1. c \in Nat /\ c < cols /\ c % 2 \in Nat
    BY <1>1
  <2>2. PICK j \in Nat : j = c % 2
    BY <2>1
  <2>3. products[c] = <<Wmma(<<0, c>>, <<"A", 0>>, <<"B", j>>)>>
    BY <2>2
  <2> HIDE DEF products, cols
  <2>4. HalvesHeld(Flow(cols, c), "A", 0) /\ HalvesHeld(Flow(cols, c), "B", j) /\ Known(Flow(cols, c))
    BY <1>1, <2>1, <2>2, FlowHeld, FlowKnown
  <2>5. QED
    BY <2>3, <2>4, WmmaWork
<1>4. Work(V, Calm, swap, V, Calm)
  <2>1. Entails(V, V) /\ Entails(Calm, Calm)
    BY <1>1, EntailsSelf
  <2> HIDE DEF rows
  <2>2. QED
    BY <1>1, <2>1, AccSwapWork, WorkWhen
<1>5. ASSUME NEW r PROVE Work(V, Calm, FlattenSeq(step(r)), V, Calm)
  <2>1. ASSUME NEW k \in 1..steps PROVE Work(V, Calm, step(r)[k], V, Calm)
    <3>1. PICK j : j = k - 1
      OBVIOUS
    <3>2. step(r)[k] = FragmentLoads(<<"A", 0>>, u, "X", r, j) \o StreamColumns(s, u, j, 2, products)
      <4> HIDE DEF products
      <4>1. QED
        BY <3>1
    <3> HIDE DEF products, step
    <3>3. Work(V, Calm, StreamColumns(s, u, j, 2, products), V, Calm)
      BY <1>1, <1>3, StreamColumnsWork
    <3>4. Work(V, Calm, FragmentLoads(<<"A", 0>>, u, "X", r, j), V, Calm)
      BY <1>1, CalmFragments
    <3>5. QED
      BY <3>2, <3>3, <3>4, WorkThen
  <2>2. step(r) = [k \in 1..steps |-> step(r)[k]]
    OBVIOUS
  <2> HIDE DEF step, steps
  <2>3. QED
    BY <1>1, <2>1, <2>2, WorkAll
<1>6. ASSUME NEW r \in 1..rows PROVE Work(V, Calm, x[r], V, Calm)
  <2> HIDE DEF step, swap
  <2>1. x[r] = FlattenSeq(step(r - 1)) \o swap
    OBVIOUS
  <2> HIDE DEF x
  <2>2. QED
    BY <1>4, <1>5, <2>1, WorkThen
<1>7. x = [r \in 1..rows |-> x[r]]
  OBVIOUS
<1> HIDE DEF x, rows
<1>8. QED
  BY <1>1, <1>2, <1>6, <1>7, WorkAll

\* The products of a tile, by any of the three generators.
LEMMA ComputeWork ==
  ASSUME NEW V, Quiet(V), NEW s, Sized(s), Staged(s), NEW u
  PROVE  Work(V, Calm, Compute(s, u), V, Calm)
<1> DEFINE n == KSubSteps(s)
           x == [k \in 1..n |-> IF s.gen = "gemm_gen" THEN GenStep(s, u, k - 1)
                                ELSE IF Streaming(s) THEN StreamStep(s, u, k - 1)
                                ELSE BulkStep(s, u, k - 1)]
<1>1. n \in Nat /\ Known(V) /\ Known(Calm)
  BY CalmKnown DEF Sized, Quiet
<1>2. Compute(s, u) = IF s.acc_swap THEN SwapCompute(s, u) ELSE FlattenSeq(x)
  BY DEF Compute, Each
<1>3. ASSUME NEW k \in 1..n, ~s.acc_swap PROVE Work(V, Calm, x[k], V, Calm)
  <2>1. PICK j \in Nat : j = k - 1
    BY <1>1
  <2>2. x[k] = IF s.gen = "gemm_gen" THEN GenStep(s, u, j)
               ELSE IF Streaming(s) THEN StreamStep(s, u, j) ELSE BulkStep(s, u, j)
    BY <2>1
  <2>3. CASE s.gen = "gemm_gen"
    <3> HIDE DEF x
    <3>1. QED
      BY <2>2, <2>3, GenStepWork
  <2>4. CASE s.gen # "gemm_gen" /\ Streaming(s)
    <3>1. n <= 1 /\ j = 0
      BY <1>1, <1>3, <2>1, <2>4 DEF Staged
    <3> HIDE DEF x
    <3>2. QED
      BY <2>2, <2>4, <3>1, StreamStepWork
  <2>5. CASE s.gen # "gemm_gen" /\ ~Streaming(s)
    <3> HIDE DEF x
    <3>1. QED
      BY <2>2, <2>5, BulkStepWork
  <2>6. QED
    BY <2>3, <2>4, <2>5
<1>4. x = [k \in 1..n |-> x[k]]
  OBVIOUS
<1> HIDE DEF x, n
<1>5. ~s.acc_swap => Work(V, Calm, FlattenSeq(x), V, Calm)
  BY <1>1, <1>3, <1>4, WorkAll
<1>6. QED
  BY <1>2, <1>5, SwapComputeWork

-----------------------------------------------------------------------------
\* The loads of the next tile.

\* Behind the loads of m rows of X and n of WT, i of the first and j of the second waited
\* for.
Landed(m, n, i, j) ==
  {f \in Every : \/ f[1] \notin VmRegs
                 \/ f[1][1] = "X" /\ (f[1][2] >= m \/ f[1][2] < i \/ f[2] <= m + n - 1 - f[1][2])
                 \/ f[1][1] = "WT" /\ (f[1][2] >= n \/ f[1][2] < j \/ f[2] <= n - 1 - f[1][2])}

\* These are sets of facts.
LEMMA LandedKnown ==
  ASSUME NEW m, NEW n, NEW i, NEW j
  PROVE  Quiet(Landed(m, n, i, j)) /\ Known(Landed(m, n, i, j)) /\ Landed(m, n, i, j) \subseteq Every
<1>1. Landed(m, n, i, j) \subseteq Every
  BY DEF Landed
<1>2. \A r \in LdsRegs : r \notin VmRegs /\ r \in Regs
  <2>1. \A r \in VmRegs : r[1] \in {"X", "WT"}
    BY DEF VmRegs
  <2>2. \A r \in LdsRegs : r[1] \in {"A", "B", "temp"}
    BY Registers DEF LdsRegs
  <2>3. QED
    BY <2>1, <2>2 DEF Regs
<1>3. ASSUME NEW f \in Ever(LdsRegs) PROVE f \in Landed(m, n, i, j)
  <2>1. f = <<f[1], f[2]>> /\ f[1] \in LdsRegs /\ f[2] \in Nat
    BY DEF Ever
  <2>2. f \in Every /\ f[1] \notin VmRegs
    BY <1>2, <2>1, EveryParts
  <2>3. QED
    BY <2>2 DEF Landed
<1>4. QED
  BY <1>1, <1>3, PartKnown DEF Quiet

\* With every load waited for, and with none issued, everything is there.
LEMMA LandedAll ==
  ASSUME NEW m \in Nat, NEW n \in Nat
  PROVE  Landed(m, n, m, n) = Every /\ Landed(0, 0, 0, 0) = Every
<1>1. ASSUME NEW a \in Nat, NEW b \in Nat, NEW f \in Every PROVE f \in Landed(a, b, a, b)
  <2>1. f[1] \in VmRegs => f[1][1] \in {"X", "WT"} /\ f[1][2] \in Nat
    BY DEF VmRegs
  <2>2. QED
    BY <2>1 DEF Landed
<1>2. ASSUME NEW a \in Nat, NEW b \in Nat PROVE Landed(a, b, a, b) = Every
  <2>1. Landed(a, b, a, b) \subseteq Every
    BY LandedKnown
  <2>2. Every \subseteq Landed(a, b, a, b)
    BY <1>1
  <2>3. QED
    BY <2>1, <2>2
<1>3. QED
  BY <1>2

\* A load from global memory.
LEMMA LoadWork ==
  ASSUME NEW V, Known(V), NEW W, Known(W), NEW mat \in {"X", "WT"}, NEW i \in Nat,
         Clear(V, <<mat, i>>),
         \A f \in W : \/ f[2] = 0
                      \/ f[1] # <<mat, i>> /\ \E a \in Nat : (a = 0 \/ <<f[1], a>> \in V) /\ f[2] <= a + 1
  PROVE  Work(V, Calm, <<BufferLoad(mat, i)>>, W, Calm)
<1>1. PICK x : x = BufferLoad(mat, i)
  OBVIOUS
<1>2. PICK r \in VmRegs : r = <<mat, i>>
  BY DEF VmRegs
<1>3. x.op = "buffer_load" /\ Writes(x) = {r} /\ Sources(x) = {r}
  BY <1>1, <1>2, InstructionFacts
<1>4. Counts(x, "vm") /\ ~Counts(x, "lgkm")
  BY <1>3 DEF Counts
<1>5. Clear(Calm, r) /\ r \in Regs
  BY EverClear DEF Calm, Regs
<1>6. \A f \in Calm : Later("lgkm", Calm, x, f[1], f[2])
  BY <1>4, CalmKnown, LaterSame DEF Counters
<1>7. ASSUME NEW f \in W PROVE Later("vm", V, x, f[1], f[2])
  <2>1. CASE f[2] = 0
    BY <2>1 DEF Later
  <2>2. CASE f[2] # 0
    <3>1. f[1] \notin Writes(x)
      BY <1>2, <1>3, <2>2
    <3>2. PICK a \in Nat : (a = 0 \/ <<f[1], a>> \in V) /\ f[2] <= a + 1
      BY <2>2
    <3>3. QED
      BY <1>4, <3>1, <3>2 DEF Later
  <2>3. QED
    BY <2>1, <2>2
<1>8. QED
  BY <1>1, <1>2, <1>3, <1>5, <1>6, <1>7, CalmKnown, WorkOne

\* One more row of X on its way.
LEMMA LoadX ==
  ASSUME NEW m \in Nat
  PROVE  Work(Landed(m, 0, 0, 0), Calm, <<BufferLoad("X", m)>>, Landed(m + 1, 0, 0, 0), Calm)
<1> DEFINE V == Landed(m, 0, 0, 0)
           W == Landed(m + 1, 0, 0, 0)
<1>1. PICK x : x \in VmRegs /\ x = <<"X", m>> /\ x[1] = "X" /\ x[2] = m
  <2>1. PICK z : z = <<"X", m>>
    OBVIOUS
  <2>2. z \in VmRegs /\ z[1] = "X" /\ z[2] = m
    BY <2>1 DEF VmRegs
  <2>3. QED
    BY <2>1, <2>2
<1>2. Clear(V, x)
  <2>1. x \in Regs /\ \A a \in Nat : <<x, a>> \in Every
    BY <1>1, EveryParts DEF Regs
  <2>2. QED
    BY <1>1, <2>1 DEF Clear, Landed
<1>3. ASSUME NEW f \in W, f[2] # 0
      PROVE  f[1] # x /\ \E a \in Nat : (a = 0 \/ <<f[1], a>> \in V) /\ f[2] <= a + 1
  <2>1. f \in Every /\ f = <<f[1], f[2]>> /\ f[1] \in Regs /\ f[2] \in Nat
    BY EveryParts DEF Landed
  <2>2. PICK r \in Regs, k \in Nat : r = f[1] /\ k = f[2] /\ k # 0
    BY <1>3, <2>1
  <2>3. \A a \in Nat : <<r, a>> \in Every
    BY EveryParts
  <2>4. \/ r \notin VmRegs
        \/ r \in VmRegs /\ r[1] = "X" /\ (r[2] >= m + 1 \/ r[2] < 0 \/ k <= (m + 1) + 0 - 1 - r[2])
        \/ r \in VmRegs /\ r[1] = "WT"
    BY <2>2 DEF Landed
  <2>5. r \in VmRegs => r[2] \in Nat
    BY DEF VmRegs
  <2>6. CASE r \notin VmRegs
    <3>1. <<r, k>> \in V
      BY <2>3, <2>6 DEF Landed
    <3>2. QED
      BY <1>1, <2>2, <2>6, <3>1
  <2>7. CASE r \in VmRegs /\ r[1] = "WT"
    <3>1. r[2] >= 0
      BY <2>5, <2>7
    <3>2. <<r, k>> \in V
      BY <2>3, <2>7, <3>1 DEF Landed
    <3>3. QED
      BY <1>1, <2>2, <2>7, <3>2
  <2>8. CASE r \in VmRegs /\ r[1] = "X" /\ (r[2] >= m + 1 \/ r[2] < 0 \/ k <= (m + 1) + 0 - 1 - r[2])
    <3>1. PICK d \in Nat : d = r[2]
      BY <2>5, <2>8
    <3>2. d >= m + 1 \/ k <= m - d
      BY <2>8, <3>1
    <3>3. d # m
      BY <2>2, <3>2
    <3>4. CASE d >= m + 1
      <4>1. <<r, k>> \in V
        BY <2>3, <2>8, <3>1, <3>4 DEF Landed
      <4>2. QED
        BY <1>1, <2>2, <3>1, <3>3, <4>1
    <3>5. CASE k <= m - d
      <4>1. PICK a \in Nat : a = k - 1 /\ a <= m + 0 - 1 - d
        BY <2>2, <3>5
      <4>2. <<r, a>> \in V
        BY <2>3, <2>8, <3>1, <4>1 DEF Landed
      <4>3. QED
        BY <1>1, <2>2, <3>1, <3>3, <4>1, <4>2
    <3>6. QED
      BY <3>2, <3>4, <3>5
  <2>9. QED
    BY <2>4, <2>6, <2>7, <2>8
<1>4. Known(V) /\ Known(W)
  BY LandedKnown
<1> HIDE DEF V, W
<1>5. Work(V, Calm, <<BufferLoad("X", m)>>, W, Calm)
  BY <1>1, <1>2, <1>3, <1>4, LoadWork
<1>6. QED
  BY <1>5 DEF V, W

\* One more row of WT on its way.
LEMMA LoadWT ==
  ASSUME NEW m \in Nat, NEW n \in Nat
  PROVE  Work(Landed(m, n, 0, 0), Calm, <<BufferLoad("WT", n)>>, Landed(m, n + 1, 0, 0), Calm)
<1> DEFINE V == Landed(m, n, 0, 0)
           W == Landed(m, n + 1, 0, 0)
<1>1. PICK x : x \in VmRegs /\ x = <<"WT", n>> /\ x[1] = "WT" /\ x[2] = n
  <2>1. PICK z : z = <<"WT", n>>
    OBVIOUS
  <2>2. z \in VmRegs /\ z[1] = "WT" /\ z[2] = n
    BY <2>1 DEF VmRegs
  <2>3. QED
    BY <2>1, <2>2
<1>2. Clear(V, x)
  <2>1. x \in Regs /\ \A a \in Nat : <<x, a>> \in Every
    BY <1>1, EveryParts DEF Regs
  <2>2. QED
    BY <1>1, <2>1 DEF Clear, Landed
<1>3. ASSUME NEW f \in W, f[2] # 0
      PROVE  f[1] # x /\ \E a \in Nat : (a = 0 \/ <<f[1], a>> \in V) /\ f[2] <= a + 1
  <2>1. f \in Every /\ f = <<f[1], f[2]>> /\ f[1] \in Regs /\ f[2] \in Nat
    BY EveryParts DEF Landed
  <2>2. PICK r \in Regs, k \in Nat : r = f[1] /\ k = f[2] /\ k # 0
    BY <1>3, <2>1
  <2>3. \A a \in Nat : <<r, a>> \in Every
    BY EveryParts
  <2>4. \/ r \notin VmRegs
        \/ r \in VmRegs /\ r[1] = "X" /\ (r[2] >= m \/ r[2] < 0 \/ k <= m + (n + 1) - 1 - r[2])
        \/ r \in VmRegs /\ r[1] = "WT" /\ (r[2] >= n + 1 \/ r[2] < 0 \/ k <= (n + 1) - 1 - r[2])
    BY <2>2 DEF Landed
  <2>5. r \in VmRegs => r[2] \in Nat
    BY DEF VmRegs
  <2>6. CASE r \notin VmRegs
    <3>1. <<r, k>> \in V
      BY <2>3, <2>6 DEF Landed
    <3>2. QED
      BY <1>1, <2>2, <2>6, <3>1
  <2>7. CASE r \in VmRegs /\ r[1] = "X" /\ (r[2] >= m \/ r[2] < 0 \/ k <= m + (n + 1) - 1 - r[2])
    <3>1. PICK d \in Nat : d = r[2]
      BY <2>5, <2>7
    <3>2. d >= m \/ k <= m + n - d
      BY <2>7, <3>1
    <3>3. r # x
      BY <1>1, <2>7
    <3>4. CASE d >= m
      <4>1. <<r, k>> \in V
        BY <2>3, <2>7, <3>1, <3>4 DEF Landed
      <4>2. QED
        BY <2>2, <3>3, <4>1
    <3>5. CASE k <= m + n - d
      <4>1. PICK a \in Nat : a = k - 1 /\ a <= m + n - 1 - d
        BY <2>2, <3>5
      <4>2. <<r, a>> \in V
        BY <2>3, <2>7, <3>1, <4>1 DEF Landed
      <4>3. QED
        BY <2>2, <3>3, <4>1, <4>2
    <3>6. QED
      BY <3>2, <3>4, <3>5
  <2>8. CASE r \in VmRegs /\ r[1] = "WT" /\ (r[2] >= n + 1 \/ r[2] < 0 \/ k <= (n + 1) - 1 - r[2])
    <3>1. PICK d \in Nat : d = r[2]
      BY <2>5, <2>8
    <3>2. d >= n + 1 \/ k <= n - d
      BY <2>8, <3>1
    <3>3. d # n
      BY <2>2, <3>2
    <3>4. CASE d >= n + 1
      <4>1. <<r, k>> \in V
        BY <2>3, <2>8, <3>1, <3>4 DEF Landed
      <4>2. QED
        BY <1>1, <2>2, <3>1, <3>3, <4>1
    <3>5. CASE k <= n - d
      <4>1. PICK a \in Nat : a = k - 1 /\ a <= n - 1 - d
        BY <2>2, <3>5
      <4>2. <<r, a>> \in V
        BY <2>3, <2>8, <3>1, <4>1 DEF Landed
      <4>3. QED
        BY <1>1, <2>2, <3>1, <3>3, <4>1, <4>2
    <3>6. QED
      BY <3>2, <3>4, <3>5
  <2>9. QED
    BY <2>4, <2>6, <2>7, <2>8
<1>4. Known(V) /\ Known(W)
  BY LandedKnown
<1> HIDE DEF V, W
<1>5. Work(V, Calm, <<BufferLoad("WT", n)>>, W, Calm)
  BY <1>1, <1>2, <1>3, <1>4, LoadWork
<1>6. QED
  BY <1>5 DEF V, W

\* The loads of the next tile by one thread.
LEMMA CoopLoadWork ==
  ASSUME NEW s, Sized(s)
  PROVE  Work(Every, Calm, CoopLoad(s),
              Landed(LoadsPerThread(s, "X"), LoadsPerThread(s, "WT"), 0, 0), Calm)
<1> DEFINE m == LoadsPerThread(s, "X")
           n == LoadsPerThread(s, "WT")
           x == [i \in 1..m |-> <<BufferLoad("X", i - 1)>>]
           v == [i \in 1..n |-> <<BufferLoad("WT", i - 1)>>]
           Fs == [i \in Nat |-> Calm]
           Xs == [i \in Nat |-> Landed(i, 0, 0, 0)]
           Ws == [i \in Nat |-> Landed(m, i, 0, 0)]
<1>1. m \in Nat /\ n \in Nat /\ Known(Calm)
  BY CalmKnown DEF Sized
<1>2. CoopLoad(s) = FlattenSeq(x) \o FlattenSeq(v)
  BY DEF CoopLoad, Each
<1>3. ASSUME NEW i \in 1..m PROVE Work(Xs[i - 1], Fs[i - 1], x[i], Xs[i], Fs[i])
  <2>1. PICK j \in Nat : j = i - 1 /\ i = j + 1
    BY <1>1
  <2>2. x[i] = <<BufferLoad("X", j)>>
    BY <2>1
  <2>3. Xs[j] = Landed(j, 0, 0, 0) /\ Xs[j + 1] = Landed(j + 1, 0, 0, 0) /\ Fs[j] = Calm /\ Fs[j + 1] = Calm
    BY <2>1
  <2> HIDE DEF x, Xs, Fs
  <2>4. QED
    BY <2>1, <2>2, <2>3, LoadX
<1>4. ASSUME NEW i \in 1..n PROVE Work(Ws[i - 1], Fs[i - 1], v[i], Ws[i], Fs[i])
  <2>1. PICK j \in Nat : j = i - 1 /\ i = j + 1
    BY <1>1
  <2>2. v[i] = <<BufferLoad("WT", j)>>
    BY <2>1
  <2>3. Ws[j] = Landed(m, j, 0, 0) /\ Ws[j + 1] = Landed(m, j + 1, 0, 0) /\ Fs[j] = Calm /\ Fs[j + 1] = Calm
    BY <2>1
  <2> HIDE DEF v, Ws, Fs, m
  <2>4. QED
    BY <1>1, <2>1, <2>2, <2>3, LoadWT
<1>5. x = [i \in 1..m |-> x[i]] /\ v = [i \in 1..n |-> v[i]]
  OBVIOUS
<1>6. /\ Xs[0] = Every /\ Ws[0] = Landed(m, 0, 0, 0) /\ Fs[0] = Calm
      /\ \A i \in Nat : Xs[i] = Landed(i, 0, 0, 0) /\ Ws[i] = Landed(m, i, 0, 0) /\ Fs[i] = Calm
  BY LandedAll
<1> HIDE DEF x, v, m, n, Xs, Ws, Fs
<1>7. Known(Xs[0]) /\ Known(Ws[0]) /\ Known(Fs[0])
  BY <1>1, <1>6, CalmKnown, LandedKnown
<1>8. Work(Xs[0], Fs[0], FlattenSeq(x), Xs[m], Fs[m])
  BY <1>1, <1>3, <1>5, <1>7, WorkEach
<1>9. Work(Ws[0], Fs[0], FlattenSeq(v), Ws[n], Fs[n])
  BY <1>1, <1>4, <1>5, <1>7, WorkEach
<1>10. Work(Every, Calm, FlattenSeq(x), Landed(m, 0, 0, 0), Calm)
  BY <1>1, <1>6, <1>8
<1>11. Work(Landed(m, 0, 0, 0), Calm, FlattenSeq(v), Landed(m, n, 0, 0), Calm)
  BY <1>1, <1>6, <1>9
<1>12. QED
  BY <1>2, <1>10, <1>11, WorkThen DEF m, n

-----------------------------------------------------------------------------
\* The stores of the next tile, behind the waits for its loads.

\* The wait in front of the store of row i of X.
LEMMA AwaitX ==
  ASSUME NEW m \in Nat, NEW n \in Nat, NEW i \in Nat, i < m
  PROVE  Work(Landed(m, n, i, 0), Calm, <<Wait("vm", m + n - 1 - i)>>, Landed(m, n, i + 1, 0), Calm)
<1> DEFINE V == Landed(m, n, i, 0)
           W == Landed(m, n, i + 1, 0)
<1>1. PICK e \in Nat : e = m + n - 1 - i
  OBVIOUS
<1>2. ASSUME NEW f \in W PROVE \E a \in Nat : (a = 0 \/ <<f[1], a>> \in V) /\ (f[2] <= a \/ e <= a)
  <2>1. f \in Every /\ f = <<f[1], f[2]>> /\ f[1] \in Regs /\ f[2] \in Nat
    BY EveryParts DEF Landed
  <2>2. PICK r \in Regs, k \in Nat : r = f[1] /\ k = f[2]
    BY <2>1
  <2>3. \A a \in Nat : <<r, a>> \in Every
    BY EveryParts
  <2>4. \/ r \notin VmRegs
        \/ r \in VmRegs /\ r[1] = "X" /\ (r[2] >= m \/ r[2] < i + 1 \/ k <= m + n - 1 - r[2])
        \/ r \in VmRegs /\ r[1] = "WT" /\ (r[2] >= n \/ r[2] < 0 \/ k <= n - 1 - r[2])
    BY <2>2 DEF Landed
  <2>5. r \in VmRegs => r[2] \in Nat
    BY DEF VmRegs
  <2>6. CASE r \notin VmRegs
    <3>1. <<r, k>> \in V
      BY <2>3, <2>6 DEF Landed
    <3>2. QED
      BY <2>2, <3>1
  <2>7. CASE r \in VmRegs /\ r[1] = "WT" /\ (r[2] >= n \/ r[2] < 0 \/ k <= n - 1 - r[2])
    <3>1. <<r, k>> \in V
      BY <2>3, <2>7 DEF Landed
    <3>2. QED
      BY <2>2, <3>1
  <2>8. CASE r \in VmRegs /\ r[1] = "X" /\ (r[2] >= m \/ r[2] < i + 1 \/ k <= m + n - 1 - r[2])
    <3>1. PICK d \in Nat : d = r[2]
      BY <2>5, <2>8
    <3>2. (d >= m \/ d < i \/ k <= m + n - 1 - d) \/ d = i
      BY <2>8, <3>1
    <3>3. CASE d >= m \/ d < i \/ k <= m + n - 1 - d
      <4>1. <<r, k>> \in V
        BY <2>3, <2>8, <3>1, <3>3 DEF Landed
      <4>2. QED
        BY <2>2, <4>1
    <3>4. CASE d = i
      <4>1. e <= m + n - 1 - d
        BY <1>1, <3>4
      <4>2. <<r, e>> \in V
        BY <2>3, <2>8, <3>1, <4>1 DEF Landed
      <4>3. QED
        BY <2>2, <4>2
    <3>5. QED
      BY <3>2, <3>3, <3>4
  <2>9. QED
    BY <2>4, <2>6, <2>7, <2>8
<1>3. Known(V) /\ Known(W)
  BY LandedKnown
<1> HIDE DEF V, W
<1>4. Work(V, Calm, <<Wait("vm", e)>>, W, Calm)
  BY <1>2, <1>3, CalmKnown, VmWaitWork
<1>5. QED
  BY <1>1, <1>4 DEF V, W

\* The wait in front of the store of row j of WT.
LEMMA AwaitWT ==
  ASSUME NEW m \in Nat, NEW n \in Nat, NEW j \in Nat, j < n
  PROVE  Work(Landed(m, n, m, j), Calm, <<Wait("vm", n - 1 - j)>>, Landed(m, n, m, j + 1), Calm)
<1> DEFINE V == Landed(m, n, m, j)
           W == Landed(m, n, m, j + 1)
<1>1. PICK e \in Nat : e = n - 1 - j
  OBVIOUS
<1>2. ASSUME NEW f \in W PROVE \E a \in Nat : (a = 0 \/ <<f[1], a>> \in V) /\ (f[2] <= a \/ e <= a)
  <2>1. f \in Every /\ f = <<f[1], f[2]>> /\ f[1] \in Regs /\ f[2] \in Nat
    BY EveryParts DEF Landed
  <2>2. PICK r \in Regs, k \in Nat : r = f[1] /\ k = f[2]
    BY <2>1
  <2>3. \A a \in Nat : <<r, a>> \in Every
    BY EveryParts
  <2>4. \/ r \notin VmRegs
        \/ r \in VmRegs /\ r[1] = "X" /\ (r[2] >= m \/ r[2] < m \/ k <= m + n - 1 - r[2])
        \/ r \in VmRegs /\ r[1] = "WT" /\ (r[2] >= n \/ r[2] < j + 1 \/ k <= n - 1 - r[2])
    BY <2>2 DEF Landed
  <2>5. r \in VmRegs => r[2] \in Nat
    BY DEF VmRegs
  <2>6. CASE r \notin VmRegs
    <3>1. <<r, k>> \in V
      BY <2>3, <2>6 DEF Landed
    <3>2. QED
      BY <2>2, <3>1
  <2>7. CASE r \in VmRegs /\ r[1] = "X" /\ (r[2] >= m \/ r[2] < m \/ k <= m + n - 1 - r[2])
    <3>1. <<r, k>> \in V
      BY <2>3, <2>7 DEF Landed
    <3>2. QED
      BY <2>2, <3>1
  <2>8. CASE r \in VmRegs /\ r[1] = "WT" /\ (r[2] >= n \/ r[2] < j + 1 \/ k <= n - 1 - r[2])
    <3>1. PICK d \in Nat : d = r[2]
      BY <2>5, <2>8
    <3>2. (d >= n \/ d < j \/ k <= n - 1 - d) \/ d = j
      BY <2>8, <3>1
    <3>3. CASE d >= n \/ d < j \/ k <= n - 1 - d
      <4>1. <<r, k>> \in V
        BY <2>3, <2>8, <3>1, <3>3 DEF Landed
      <4>2. QED
        BY <2>2, <4>1
    <3>4. CASE d = j
      <4>1. e <= n - 1 - d
        BY <1>1, <3>4
      <4>2. <<r, e>> \in V
        BY <2>3, <2>8, <3>1, <4>1 DEF Landed
      <4>3. QED
        BY <2>2, <4>2
    <3>5. QED
      BY <3>2, <3>3, <3>4
  <2>9. QED
    BY <2>4, <2>6, <2>7, <2>8
<1>3. Known(V) /\ Known(W)
  BY LandedKnown
<1> HIDE DEF V, W
<1>4. Work(V, Calm, <<Wait("vm", e)>>, W, Calm)
  BY <1>2, <1>3, CalmKnown, VmWaitWork
<1>5. QED
  BY <1>1, <1>4 DEF V, W

\* A store of what has been waited for.
LEMMA StoreWork ==
  ASSUME NEW V, Known(V), NEW mat \in {"X", "WT"}, NEW i \in Nat, NEW u, Clear(V, <<mat, i>>)
  PROVE  Work(V, Calm, <<DsStore(mat, i, u)>>, V, Calm)
<1>1. PICK x : x = DsStore(mat, i, u)
  OBVIOUS
<1>2. PICK r : r = <<mat, i>>
  OBVIOUS
<1>3. x.op = "ds_store" /\ Writes(x) = {} /\ Sources(x) = {r}
  BY <1>1, <1>2, InstructionFacts
<1>4. r \in VmRegs
  BY <1>2 DEF VmRegs
<1>5. Clear(Calm, r)
  BY <1>4, EverClear DEF Calm
<1>6. QED
  BY <1>1, <1>2, <1>3, <1>5, CalmKnown, WorkPlain

\* What has been waited for may be stored.
LEMMA LandedClear ==
  ASSUME NEW m \in Nat, NEW n \in Nat, NEW i \in Nat
  PROVE  /\ Clear(Landed(m, n, i + 1, 0), <<"X", i>>)
         /\ Clear(Landed(m, n, m, i + 1), <<"WT", i>>)
         /\ Clear(Every, <<"X", i>>) /\ Clear(Every, <<"WT", i>>)
<1>1. PICK x : x = <<"X", i>>
  OBVIOUS
<1>2. PICK w : w = <<"WT", i>>
  OBVIOUS
<1>3. /\ x \in VmRegs /\ x[1] = "X" /\ x[2] = i
      /\ w \in VmRegs /\ w[1] = "WT" /\ w[2] = i
  BY <1>1, <1>2 DEF VmRegs
<1>4. \A a \in Nat : <<x, a>> \in Every /\ <<w, a>> \in Every
  BY <1>3, EveryParts DEF Regs
<1>5. i < i + 1
  OBVIOUS
<1>6. \A a \in Nat : <<x, a>> \in Landed(m, n, i + 1, 0)
  BY <1>3, <1>4, <1>5 DEF Landed
<1>7. \A a \in Nat : <<w, a>> \in Landed(m, n, m, i + 1)
  BY <1>3, <1>4, <1>5 DEF Landed
<1>8. QED
  BY <1>1, <1>2, <1>4, <1>6, <1>7 DEF Clear

\* The stores of the next tile, each behind its wait.
LEMMA LdsStoresWork ==
  ASSUME NEW s, Sized(s), NEW u
  PROVE  Work(Landed(LoadsPerThread(s, "X"), LoadsPerThread(s, "WT"), 0, 0), Calm,
              LdsStores(s, u), Every, Calm)
<1> DEFINE m == LoadsPerThread(s, "X")
           n == LoadsPerThread(s, "WT")
<1>1. m \in Nat /\ n \in Nat /\ Known(Calm) /\ Known(Every)
  BY CalmKnown DEF Sized
<1>2. CASE s.gen = "tile_ir"
  <2> DEFINE x == [i \in 1..m |-> <<Wait("vm", (m + n) - 1 - (i - 1)), DsStore("X", i - 1, u)>>]
             v == [i \in 1..n |-> <<Wait("vm", n - 1 - (i - 1)), DsStore("WT", i - 1, u)>>]
             Fs == [i \in Nat |-> Calm]
             Xs == [i \in Nat |-> Landed(m, n, i, 0)]
             Ws == [i \in Nat |-> Landed(m, n, m, i)]
  <2>1. LdsStores(s, u) = FlattenSeq(x) \o FlattenSeq(v)
    BY <1>2 DEF LdsStores, StoreGraduated, Each
  <2>2. /\ \A i \in Nat : Xs[i] = Landed(m, n, i, 0) /\ Ws[i] = Landed(m, n, m, i) /\ Fs[i] = Calm
    OBVIOUS
  <2>3. ASSUME NEW i \in 1..m PROVE Work(Xs[i - 1], Fs[i - 1], x[i], Xs[i], Fs[i])
    <3>1. PICK j \in Nat : j = i - 1 /\ i = j + 1 /\ j < m
      BY <1>1
    <3>2. PICK w : w = Wait("vm", (m + n) - 1 - j)
      OBVIOUS
    <3>3. PICK d : d = DsStore("X", j, u)
      OBVIOUS
    <3>4. x[i] = <<w, d>>
      BY <3>1, <3>2, <3>3
    <3>5. x[i] = <<w>> \o <<d>>
      BY <3>4, TwoParts
    <3> HIDE DEF x, Xs, Ws, Fs, m, n
    <3>6. Work(Landed(m, n, j, 0), Calm, <<w>>, Landed(m, n, j + 1, 0), Calm)
      BY <1>1, <3>1, <3>2, AwaitX
    <3>7. Work(Landed(m, n, j + 1, 0), Calm, <<d>>, Landed(m, n, j + 1, 0), Calm)
      BY <1>1, <3>1, <3>3, LandedClear, LandedKnown, StoreWork
    <3>8. QED
      BY <2>2, <3>1, <3>5, <3>6, <3>7, WorkThen
  <2>4. ASSUME NEW i \in 1..n PROVE Work(Ws[i - 1], Fs[i - 1], v[i], Ws[i], Fs[i])
    <3>1. PICK j \in Nat : j = i - 1 /\ i = j + 1 /\ j < n
      BY <1>1
    <3>2. PICK w : w = Wait("vm", n - 1 - j)
      OBVIOUS
    <3>3. PICK d : d = DsStore("WT", j, u)
      OBVIOUS
    <3>4. v[i] = <<w, d>>
      BY <3>1, <3>2, <3>3
    <3>5. v[i] = <<w>> \o <<d>>
      BY <3>4, TwoParts
    <3> HIDE DEF v, Xs, Ws, Fs, m, n
    <3>6. Work(Landed(m, n, m, j), Calm, <<w>>, Landed(m, n, m, j + 1), Calm)
      BY <1>1, <3>1, <3>2, AwaitWT
    <3>7. Work(Landed(m, n, m, j + 1), Calm, <<d>>, Landed(m, n, m, j + 1), Calm)
      BY <1>1, <3>1, <3>3, LandedClear, LandedKnown, StoreWork
    <3>8. QED
      BY <2>2, <3>1, <3>5, <3>6, <3>7, WorkThen
  <2>5. x = [i \in 1..m |-> x[i]] /\ v = [i \in 1..n |-> v[i]]
    OBVIOUS
  <2> HIDE DEF x, v, m, n, Xs, Ws, Fs
  <2>6. Known(Xs[0]) /\ Known(Ws[0]) /\ Known(Fs[0])
    BY <1>1, <2>2, LandedKnown
  <2>7. Work(Xs[0], Fs[0], FlattenSeq(x), Xs[m], Fs[m])
    BY <1>1, <2>3, <2>5, <2>6, WorkEach
  <2>8. Work(Ws[0], Fs[0], FlattenSeq(v), Ws[n], Fs[n])
    BY <1>1, <2>4, <2>5, <2>6, WorkEach
  <2>9. Work(Landed(m, n, 0, 0), Calm, FlattenSeq(x), Landed(m, n, m, 0), Calm)
    BY <1>1, <2>2, <2>7
  <2>10. Work(Landed(m, n, m, 0), Calm, FlattenSeq(v), Landed(m, n, m, n), Calm)
    BY <1>1, <2>2, <2>8
  <2>11. Landed(m, n, m, n) = Every
    BY <1>1, LandedAll
  <2>12. QED
    BY <2>1, <2>9, <2>10, <2>11, WorkThen DEF m, n
<1>3. CASE s.gen # "tile_ir"
  <2> DEFINE x == [i \in 1..m |-> <<DsStore("X", i - 1, u)>>]
             v == [i \in 1..n |-> <<DsStore("WT", i - 1, u)>>]
             V == Landed(m, n, 0, 0)
  <2>1. LdsStores(s, u) = (<<Wait("vm", 0)>> \o FlattenSeq(x)) \o FlattenSeq(v)
    BY <1>3 DEF LdsStores, Each
  <2>2. \A i \in 1..m : Work(Every, Calm, x[i], Every, Calm)
    <3> SUFFICES ASSUME NEW i \in 1..m PROVE Work(Every, Calm, x[i], Every, Calm)
      OBVIOUS
    <3>1. PICK j \in Nat : j = i - 1
      BY <1>1
    <3>2. x[i] = <<DsStore("X", j, u)>>
      BY <3>1
    <3> HIDE DEF x
    <3>3. QED
      BY <1>1, <3>2, LandedClear, StoreWork
  <2>3. \A i \in 1..n : Work(Every, Calm, v[i], Every, Calm)
    <3> SUFFICES ASSUME NEW i \in 1..n PROVE Work(Every, Calm, v[i], Every, Calm)
      OBVIOUS
    <3>1. PICK j \in Nat : j = i - 1
      BY <1>1
    <3>2. v[i] = <<DsStore("WT", j, u)>>
      BY <3>1
    <3> HIDE DEF v
    <3>3. QED
      BY <1>1, <3>2, LandedClear, StoreWork
  <2>4. x = [i \in 1..m |-> x[i]] /\ v = [i \in 1..n |-> v[i]]
    OBVIOUS
  <2>5. Work(V, Calm, <<Wait("vm", 0)>>, Every, Calm)
    <3>1. \A f \in Every : \E a \in Nat : (a = 0 \/ <<f[1], a>> \in V) /\ (f[2] <= a \/ 0 <= a)
      OBVIOUS
    <3>2. QED
      BY <1>1, <3>1, LandedKnown, VmWaitWork
  <2> HIDE DEF x, v, m, n, V
  <2>6. Work(Every, Calm, FlattenSeq(x), Every, Calm) /\ Work(Every, Calm, FlattenSeq(v), Every, Calm)
    BY <1>1, <2>2, <2>3, <2>4, WorkAll
  <2>7. Work(V, Calm, <<Wait("vm", 0)>> \o FlattenSeq(x), Every, Calm)
    BY <2>5, <2>6, WorkThen
  <2>8. QED
    BY <2>1, <2>6, <2>7, WorkThen DEF V, m, n
<1>4. QED
  BY <1>2, <1>3

-----------------------------------------------------------------------------
\* The blocks as generated.

\* Every block of the generated code.
LEMMA LoweredWork ==
  ASSUME NEW s, Sized(s), Staged(s), NEW b \in Main \cup Epilogs \cup {"store"}
  PROVE  Work(Every, Calm, Lowered(s)[b], Every, Calm)
<1> DEFINE synced == <<Wait("lgkm", 0), Barrier, Advance>>
           live == IF s.acc_swap THEN 1 ELSE NRowBlocks(s)
           outs == [c \in 1..NColTiles(s) |-> <<SwapOut(c - 1)>>]
           saved == FlattenSeq(outs) \o <<Wait("lgkm", 0)>>
           init == When(s.acc_swap, saved)
           ys == [r \in 1..NRowBlocks(s) |-> When(s.acc_swap /\ r - 1 > 0, AccSwap(s))
                    \o <<YStore(r - 1, IF live = 1 THEN 0 ELSE r - 1)>>]
           f == Lowered(s)
           V == Landed(LoadsPerThread(s, "X"), LoadsPerThread(s, "WT"), 0, 0)
<1>1. f["prologue"] = ((init \o CoopLoad(s)) \o LdsStores(s, 0)) \o synced
  BY BlockNames DEF Lowered, Each, Main
<1>2. f["A"] = ((CoopLoad(s) \o Compute(s, 0)) \o LdsStores(s, 1)) \o synced
  BY BlockNames DEF Lowered, Main
<1>3. f["B"] = ((CoopLoad(s) \o Compute(s, 1)) \o LdsStores(s, 0)) \o synced
  BY BlockNames DEF Lowered, Main
<1>4. f["epilogA"] = Compute(s, 0) /\ f["epilogB"] = Compute(s, 1)
  BY BlockNames DEF Lowered, Epilogs
<1>5. f["store"] = FlattenSeq(ys)
  BY BlockNames DEF Lowered, Each
<1>6. /\ Known(Calm) /\ Known(Every) /\ Quiet(Every) /\ Quiet(V)
      /\ Entails(Calm, Calm) /\ Entails(Every, Every) /\ Entails(Every, Calm)
  <2>1. Known(Calm) /\ Known(Every) /\ Quiet(Every) /\ Calm \subseteq Every
    BY CalmKnown
  <2>2. QED
    BY <2>1, EntailsSelf, LandedKnown
<1>7. Work(Every, Calm, init, Every, Calm)
  <2>1. ASSUME NEW c \in 1..NColTiles(s) PROVE Work(Every, Calm, outs[c], Every, Calm)
    <3>1. PICK x : x = SwapOut(c - 1)
      OBVIOUS
    <3>2. x.op = "swap_out" /\ Writes(x) = {} /\ Sources(x) = {}
      BY <3>1, InstructionFacts
    <3>3. outs[c] = <<x>>
      BY <3>1
    <3> HIDE DEF outs
    <3>4. QED
      BY <1>6, <3>2, <3>3, WorkPlain
  <2>2. outs = [c \in 1..NColTiles(s) |-> outs[c]]
    OBVIOUS
  <2> HIDE DEF outs
  <2>3. Work(Every, Calm, FlattenSeq(outs), Every, Calm)
    BY <1>6, <2>1, <2>2, WorkAll DEF Sized
  <2>4. Work(Every, Calm, <<Wait("lgkm", 0)>>, Every, Every)
    BY <1>6, WaitAllWork
  <2>5. Work(Every, Calm, saved, Every, Every)
    BY <2>3, <2>4, WorkThen
  <2>6. Work(Every, Calm, saved, Every, Calm)
    BY <1>6, <2>5, WorkWeaken
  <2> HIDE DEF saved
  <2>7. QED
    BY <1>6, <2>6, WorkWhen
<1>8. Work(Every, Calm, FlattenSeq(ys), Every, Calm)
  <2>1. ASSUME NEW r \in 1..NRowBlocks(s) PROVE Work(Every, Calm, ys[r], Every, Calm)
    <3>1. PICK v : v = YStore(r - 1, IF live = 1 THEN 0 ELSE r - 1)
      OBVIOUS
    <3>2. PICK e : e = (s.acc_swap /\ r - 1 > 0)
      OBVIOUS
    <3>3. ys[r] = When(e, AccSwap(s)) \o <<v>>
      BY <3>1, <3>2
    <3>4. v.op = "y_store" /\ Writes(v) = {} /\ Sources(v) = {}
      BY <3>1, InstructionFacts
    <3> HIDE DEF ys
    <3>5. Work(Every, Calm, When(e, AccSwap(s)), Every, Calm)
      BY <1>6, AccSwapWork, WorkWhen
    <3>6. Work(Every, Calm, <<v>>, Every, Calm)
      BY <1>6, <3>4, WorkPlain
    <3>7. QED
      BY <3>3, <3>5, <3>6, WorkThen
  <2>2. ys = [r \in 1..NRowBlocks(s) |-> ys[r]]
    OBVIOUS
  <2> HIDE DEF ys
  <2>3. QED
    BY <1>6, <2>1, <2>2, WorkAll DEF Sized
<1>9. Work(Every, Calm, synced, Every, Calm)
  <2>1. PICK w : w = Wait("lgkm", 0)
    OBVIOUS
  <2>2. PICK x : x = Barrier
    OBVIOUS
  <2>3. PICK z : z = Advance
    OBVIOUS
  <2>4. synced = <<w>> \o (<<x>> \o <<z>>)
    BY <2>1, <2>2, <2>3, TwoParts, ThreeParts
  <2>5. /\ x.op = "barrier" /\ Writes(x) = {} /\ Sources(x) = {}
        /\ z.op = "advance" /\ Writes(z) = {} /\ Sources(z) = {}
    BY <2>2, <2>3, InstructionFacts
  <2>6. Work(Every, Calm, <<w>>, Every, Every)
    BY <1>6, <2>1, WaitAllWork
  <2>7. Work(Every, Every, <<x>>, Every, Every) /\ Work(Every, Every, <<z>>, Every, Every)
    BY <1>6, <2>5, WorkPlain
  <2>8. Work(Every, Every, <<x>> \o <<z>>, Every, Every)
    BY <2>7, WorkThen
  <2> HIDE DEF synced
  <2>9. Work(Every, Calm, synced, Every, Every)
    BY <2>4, <2>6, <2>8, WorkThen
  <2>10. QED
    BY <1>6, <2>9, WorkWeaken
<1>10. Work(Every, Calm, CoopLoad(s), V, Calm) /\ \A u : Work(V, Calm, LdsStores(s, u), Every, Calm)
  BY CoopLoadWork, LdsStoresWork
<1>11. \A u : Work(V, Calm, Compute(s, u), V, Calm) /\ Work(Every, Calm, Compute(s, u), Every, Calm)
  BY <1>6, ComputeWork
<1> HIDE DEF f, init, ys, synced, V
<1>12. Work(Every, Calm, f["prologue"], Every, Calm)
  <2>1. Work(Every, Calm, init \o CoopLoad(s), V, Calm)
    BY <1>7, <1>10, WorkThen
  <2>2. Work(Every, Calm, (init \o CoopLoad(s)) \o LdsStores(s, 0), Every, Calm)
    BY <1>10, <2>1, WorkThen
  <2>3. QED
    BY <1>1, <1>9, <2>2, WorkThen
<1>13. Work(Every, Calm, f["A"], Every, Calm)
  <2>1. Work(Every, Calm, CoopLoad(s) \o Compute(s, 0), V, Calm)
    BY <1>10, <1>11, WorkThen
  <2>2. Work(Every, Calm, (CoopLoad(s) \o Compute(s, 0)) \o LdsStores(s, 1), Every, Calm)
    BY <1>10, <2>1, WorkThen
  <2>3. QED
    BY <1>2, <1>9, <2>2, WorkThen
<1>14. Work(Every, Calm, f["B"], Every, Calm)
  <2>1. Work(Every, Calm, CoopLoad(s) \o Compute(s, 1), V, Calm)
    BY <1>10, <1>11, WorkThen
  <2>2. Work(Every, Calm, (CoopLoad(s) \o Compute(s, 1)) \o LdsStores(s, 0), Every, Calm)
    BY <1>10, <2>1, WorkThen
  <2>3. QED
    BY <1>3, <1>9, <2>2, WorkThen
<1>15. Work(Every, Calm, f[b], Every, Calm)
  BY <1>4, <1>5, <1>8, <1>11, <1>12, <1>13, <1>14 DEF Main, Epilogs
<1>16. QED
  BY <1>15 DEF f

\* A list that reads no register but the temporary.
Plain(q) == IsSeq(q) /\ \A i \in 1..Len(q) : Sources(q[i]) \subseteq {<<"temp">>}

\* Sequences can be joined.
LEMMA JoinIsSeq ==
  ASSUME NEW p, IsSeq(p), NEW q, IsSeq(q)
  PROVE  IsSeq(p \o q)
<1>1. p \in Seq(Elements(p)) /\ q \in Seq(Elements(q))
  BY ElementsLemma
<1>2. PICK S : S = Elements(p) \cup Elements(q)
  OBVIOUS
<1>3. p \in Seq(S) /\ q \in Seq(S)
  BY <1>1, <1>2
<1>4. p \o q \in Seq(S)
  BY <1>3
<1>5. QED
  BY <1>4 DEF IsSeq

\* Two such pieces.
LEMMA PlainThen ==
  ASSUME NEW p, Plain(p), NEW q, Plain(q)
  PROVE  Plain(p \o q)
<1>1. PICK k \in Nat, l \in Nat : k = Len(p) /\ l = Len(q)
  BY JoinParts DEF Plain
<1>2. PICK r : r = p \o q
  OBVIOUS
<1>3. Len(r) = k + l /\ (\A g \in 1..k : r[g] = p[g]) /\ (\A g \in 1..l : r[k + g] = q[g])
  BY <1>1, <1>2, JoinParts DEF Plain
<1>4. ASSUME NEW i \in 1..Len(r) PROVE Sources(r[i]) \subseteq {<<"temp">>}
  <2>1. CASE i <= k
    <3>1. i \in 1..k
      BY <1>3, <2>1
    <3>2. QED
      BY <1>1, <1>3, <3>1 DEF Plain
  <2>2. CASE ~(i <= k)
    <3>1. PICK g \in 1..l : i = k + g
      <4>1. i - k \in 1..l /\ i = k + (i - k)
        BY <1>1, <1>3, <2>2
      <4>2. QED
        BY <4>1
    <3>2. QED
      BY <1>1, <1>3, <3>1 DEF Plain
  <2>3. QED
    BY <2>1, <2>2
<1>5. QED
  BY <1>2, <1>4, JoinIsSeq DEF Plain

\* One such instruction.
LEMMA PlainOne ==
  ASSUME NEW x, Sources(x) \subseteq {<<"temp">>}
  PROVE  Plain(<<x>>)
<1>1. PICK q : q = <<x>>
  OBVIOUS
<1>2. Len(q) = 1 /\ q[1] = x /\ q \in Seq({x})
  BY <1>1
<1>3. \A i \in 1..Len(q) : q[i] = x
  BY <1>2
<1>4. QED
  BY <1>1, <1>2, <1>3 DEF Plain, IsSeq

\* The pieces of a loop.
LEMMA PlainEach ==
  ASSUME NEW n \in Nat, NEW g, g = [i \in 1..n |-> g[i]], \A i \in 1..n : Plain(g[i])
  PROVE  Plain(FlattenSeq(g))
<1>1. \A i \in 1..n : IsSeq(g[i])
  BY DEF Plain
<1>2. PICK e : /\ e[0] = << >> /\ FlattenSeq(g) = e[n]
               /\ \A i \in 1..n : e[i] = e[i - 1] \o g[i]
  BY <1>1, Flattening
<1> DEFINE T == {i \in Nat : i <= n => Plain(e[i])}
<1>3. 0 \in T
  <2>1. PICK q : q = << >>
    OBVIOUS
  <2>2. q \in Seq({}) /\ Len(q) = 0
    BY <2>1
  <2>3. Plain(q)
    BY <2>2 DEF Plain, IsSeq
  <2>4. QED
    BY <1>2, <2>1, <2>3
<1>4. ASSUME NEW i \in T PROVE i + 1 \in T
  <2>1. i \in Nat /\ (i + 1) - 1 = i
    OBVIOUS
  <2>2. CASE i + 1 <= n
    <3>1. i + 1 \in 1..n
      BY <2>1, <2>2
    <3>2. e[i + 1] = e[i] \o g[i + 1]
      BY <1>2, <2>1, <3>1
    <3>3. Plain(e[i]) /\ Plain(g[i + 1])
      BY <2>1, <2>2, <3>1
    <3>4. Plain(e[i + 1])
      BY <3>2, <3>3, PlainThen
    <3>5. QED
      BY <2>1, <3>4
  <2>3. CASE ~(i + 1 <= n)
    BY <2>1, <2>3
  <2>4. QED
    BY <2>2, <2>3
<1>5. T \in SUBSET Nat
  OBVIOUS
<1> HIDE DEF T
<1>6. \A i \in Nat : i \in T
  BY <1>3, <1>4, <1>5, Induction
<1>7. n \in T
  BY <1>6
<1>8. QED
  BY <1>2, <1>7 DEF T

\* A piece emitted on a condition.
LEMMA PlainWhen ==
  ASSUME NEW q, Plain(q), NEW cond
  PROVE  Plain(When(cond, q))
<1>1. PICK e : e = << >>
  OBVIOUS
<1>2. e \in Seq({}) /\ Len(e) = 0
  BY <1>1
<1>3. Plain(e)
  BY <1>2 DEF Plain, IsSeq
<1>4. QED
  BY <1>1, <1>3 DEF When

\* The block that stores the result is one.
LEMMA StorePlain ==
  ASSUME NEW s, Sized(s)
  PROVE  Plain(Lowered(s)["store"])
<1> DEFINE cols == NColTiles(s)
           live == IF s.acc_swap THEN 1 ELSE NRowBlocks(s)
           x == [c \in 1..cols |-> <<SwapIn(c - 1), Wait("lgkm", 0), SwapOut(c - 1),
                                     Wait("lgkm", 0), MoveTemp(c - 1)>>]
           ys == [r \in 1..NRowBlocks(s) |-> When(s.acc_swap /\ r - 1 > 0, AccSwap(s))
                    \o <<YStore(r - 1, IF live = 1 THEN 0 ELSE r - 1)>>]
<1>1. AccSwap(s) = FlattenSeq(x)
  BY DEF AccSwap, Each
<1>2. Lowered(s)["store"] = FlattenSeq(ys)
  BY BlockNames DEF Lowered, Each
<1>3. ASSUME NEW c \in 1..cols PROVE Plain(x[c])
  <2>1. PICK p : p = SwapIn(c - 1)
    OBVIOUS
  <2>2. PICK q : q = SwapOut(c - 1)
    OBVIOUS
  <2>3. PICK r : r = MoveTemp(c - 1)
    OBVIOUS
  <2>4. PICK w : w = Wait("lgkm", 0)
    OBVIOUS
  <2>5. x[c] = <<p, w, q, w, r>>
    BY <2>1, <2>2, <2>3, <2>4
  <2>6. <<q, w, r>> = <<q>> \o (<<w>> \o <<r>>)
    BY TwoParts, ThreeParts
  <2>7. x[c] = (<<p>> \o <<w>>) \o (<<q>> \o (<<w>> \o <<r>>))
    BY <2>5, <2>6, FiveParts
  <2>8. Sources(p) = {} /\ Sources(q) = {} /\ Sources(w) = {} /\ Sources(r) = {<<"temp">>}
    BY <2>1, <2>2, <2>3, <2>4, InstructionFacts
  <2>9. Plain(<<p>>) /\ Plain(<<q>>) /\ Plain(<<w>>) /\ Plain(<<r>>)
    BY <2>8, PlainOne
  <2> HIDE DEF x
  <2>10. Plain(<<p>> \o <<w>>) /\ Plain(<<w>> \o <<r>>)
    BY <2>9, PlainThen
  <2>11. Plain(<<q>> \o (<<w>> \o <<r>>))
    BY <2>9, <2>10, PlainThen
  <2>12. QED
    BY <2>7, <2>10, <2>11, PlainThen
<1>4. x = [c \in 1..cols |-> x[c]] /\ ys = [r \in 1..NRowBlocks(s) |-> ys[r]]
  OBVIOUS
<1>5. cols \in Nat /\ NRowBlocks(s) \in Nat
  BY DEF Sized
<1> HIDE DEF x, cols
<1>6. Plain(AccSwap(s))
  BY <1>1, <1>3, <1>4, <1>5, PlainEach
<1>7. ASSUME NEW r \in 1..NRowBlocks(s) PROVE Plain(ys[r])
  <2>1. PICK v : v = YStore(r - 1, IF live = 1 THEN 0 ELSE r - 1)
    OBVIOUS
  <2>2. PICK e : e = (s.acc_swap /\ r - 1 > 0)
    OBVIOUS
  <2>3. ys[r] = When(e, AccSwap(s)) \o <<v>>
    BY <2>1, <2>2
  <2>4. Sources(v) = {}
    BY <2>1, InstructionFacts
  <2> HIDE DEF ys
  <2>5. QED
    BY <1>6, <2>3, <2>4, PlainOne, PlainWhen, PlainThen
<1> HIDE DEF ys
<1>8. QED
  BY <1>2, <1>4, <1>5, <1>7, PlainEach

-----------------------------------------------------------------------------
\* From facts to what may be outstanding in a block.

\* Behind i instructions of q an operation x that c counts may be outstanding, with a
\* others issued behind it.
Alive(q, c, i, x, a) ==
  \E h \in 1..i : /\ q[h] = x /\ Counts(x, c) /\ ~Covered(q, c, h, i)
                  /\ a = Issued(q, c, i) - Issued(q, c, h)

\* No instruction of q needs a register that what may be outstanding will write.
SoundIn(q, c) ==
  \A i \in 1..Len(q) : \A x, a : Alive(q, c, i - 1, x, a) => Writes(x) \cap Sources(q[i]) = {}

\* What the end of q has waited for: everything from global memory, and the temporary.
Quits(q) ==
  \A x, a : /\ ~Alive(q, "vm", Len(q), x, a)
            /\ Alive(q, "lgkm", Len(q), x, a) => <<"temp">> \notin Writes(x)

\* A block whose waits suffice.
Sound(q) == Waits(q) /\ (\A c \in Counters : SoundIn(q, c)) /\ Quits(q)

\* An age is a number.
LEMMA AliveAge ==
  ASSUME NEW q, NEW c \in Counters, NEW i \in Nat, NEW x, NEW a, Alive(q, c, i, x, a)
  PROVE  a \in Nat /\ i > 0
<1>1. PICK h \in 1..i : a = Issued(q, c, i) - Issued(q, c, h)
  BY DEF Alive
<1>2. h \in 0..i
  OBVIOUS
<1>3. Issued(q, c, h) \in Nat /\ Issued(q, c, i) \in Nat /\ Issued(q, c, h) <= Issued(q, c, i)
  BY <1>2, IssuedGrows
<1>4. QED
  BY <1>1, <1>3

\* How one more instruction changes what may be outstanding.
LEMMA AliveStep ==
  ASSUME NEW q, NEW c \in Counters, NEW i \in Nat, NEW x, NEW a \in Int
  PROVE  Alive(q, c, i + 1, x, a) <=>
           \/ Counts(q[i + 1], c) /\ ((x = q[i + 1] /\ a = 0) \/ Alive(q, c, i, x, a - 1))
           \/ /\ ~Counts(q[i + 1], c) /\ Alive(q, c, i, x, a)
              /\ IsWait(q[i + 1], c) => ~(q[i + 1].n <= a)
<1>1. PICK z : z = q[i + 1]
  OBVIOUS
<1>2. PICK d \in {0, 1} : d = (IF Counts(z, c) THEN 1 ELSE 0)
  OBVIOUS
<1>3. PICK m \in Nat : m = Issued(q, c, i) /\ Issued(q, c, i + 1) = m + d
  <2>1. Issued(q, c, i) \in Nat
    BY IssuedType
  <2>2. QED
    BY <1>1, <1>2, <2>1, IssuedStep
<1>4. \A h \in 1..(i + 1) : Issued(q, c, h) \in Nat
  <2> SUFFICES ASSUME NEW h \in 1..(i + 1) PROVE Issued(q, c, h) \in Nat
    OBVIOUS
  <2>1. h \in Nat
    OBVIOUS
  <2>2. QED
    BY <2>1, IssuedType
<1>5. /\ Counts(z, c) \in BOOLEAN
      /\ IsWait(z, c) => ~Counts(z, c)
  BY CountsNoWait
<1>6. ASSUME NEW h \in 1..i
      PROVE  Covered(q, c, h, i + 1) <=> Covered(q, c, h, i) \/ (IsWait(z, c) /\ z.n <= (m + d) - Issued(q, c, h))
  <2>1. Covers(q, c, h, i + 1) <=> IsWait(z, c) /\ z.n <= (m + d) - Issued(q, c, h)
    BY <1>1, <1>3 DEF Covers
  <2>2. \A j : j \in (h + 1)..(i + 1) <=> j \in (h + 1)..i \/ j = i + 1
    OBVIOUS
  <2>3. QED
    BY <2>1, <2>2 DEF Covered
<1>7. ~Covered(q, c, i + 1, i + 1)
  <2>1. \A j \in ((i + 1) + 1)..(i + 1) : FALSE
    OBVIOUS
  <2>2. QED
    BY <2>1 DEF Covered
<1>8. ASSUME Alive(q, c, i + 1, x, a)
      PROVE  \/ Counts(z, c) /\ ((x = z /\ a = 0) \/ Alive(q, c, i, x, a - 1))
             \/ ~Counts(z, c) /\ Alive(q, c, i, x, a) /\ (IsWait(z, c) => ~(z.n <= a))
  <2>1. PICK h \in 1..(i + 1) : /\ q[h] = x /\ Counts(x, c) /\ ~Covered(q, c, h, i + 1)
                                /\ a = Issued(q, c, i + 1) - Issued(q, c, h)
    BY <1>8 DEF Alive
  <2>2. CASE h = i + 1
    <3>1. Counts(z, c) /\ x = z
      BY <1>1, <2>1, <2>2
    <3>2. a = 0
      BY <1>3, <2>1, <2>2
    <3>3. QED
      BY <3>1, <3>2
  <2>3. CASE h # i + 1
    <3>1. h \in 1..i
      BY <2>3
    <3>2. PICK k \in Nat : k = Issued(q, c, h)
      BY <1>4
    <3>3. a = (m + d) - k
      BY <1>3, <2>1, <3>2
    <3>4. ~Covered(q, c, h, i) /\ (IsWait(z, c) => ~(z.n <= a))
      BY <1>6, <2>1, <3>1, <3>2, <3>3
    <3>5. CASE Counts(z, c)
      <4>1. a - 1 = m - k
        BY <1>2, <3>3, <3>5
      <4>2. Alive(q, c, i, x, a - 1)
        BY <1>3, <2>1, <3>1, <3>2, <3>4, <4>1 DEF Alive
      <4>3. QED
        BY <3>5, <4>2
    <3>6. CASE ~Counts(z, c)
      <4>1. a = m - k
        BY <1>2, <3>3, <3>6
      <4>2. Alive(q, c, i, x, a)
        BY <1>3, <2>1, <3>1, <3>2, <3>4, <4>1 DEF Alive
      <4>3. QED
        BY <3>4, <3>6, <4>2
    <3>7. QED
      BY <1>5, <3>5, <3>6
  <2>4. QED
    BY <2>2, <2>3
<1>9. ASSUME Counts(z, c), x = z, a = 0 PROVE Alive(q, c, i + 1, x, a)
  <2>1. i + 1 \in 1..(i + 1) /\ Issued(q, c, i + 1) - Issued(q, c, i + 1) = 0
    BY <1>3
  <2>2. QED
    BY <1>1, <1>7, <1>9, <2>1 DEF Alive
<1>10. ASSUME NEW b \in Int, Alive(q, c, i, x, b), a = b + d, IsWait(z, c) => ~(z.n <= a)
       PROVE  Alive(q, c, i + 1, x, a)
  <2>1. PICK h \in 1..i : /\ q[h] = x /\ Counts(x, c) /\ ~Covered(q, c, h, i)
                          /\ b = Issued(q, c, i) - Issued(q, c, h)
    BY <1>10 DEF Alive
  <2>2. h \in 1..(i + 1)
    OBVIOUS
  <2>3. PICK k \in Nat : k = Issued(q, c, h)
    BY <1>4, <2>2
  <2>4. a = (m + d) - k
    BY <1>3, <1>10, <2>1, <2>3
  <2>5. ~Covered(q, c, h, i + 1)
    BY <1>6, <1>10, <2>1, <2>3, <2>4
  <2>6. QED
    BY <1>3, <2>1, <2>2, <2>3, <2>4, <2>5 DEF Alive
<1>11. ASSUME Counts(z, c), Alive(q, c, i, x, a - 1) PROVE Alive(q, c, i + 1, x, a)
  <2>1. a - 1 \in Int /\ a = (a - 1) + d
    BY <1>2, <1>11
  <2>2. QED
    BY <1>5, <1>10, <1>11, <2>1
<1>12. ASSUME ~Counts(z, c), Alive(q, c, i, x, a), IsWait(z, c) => ~(z.n <= a)
       PROVE  Alive(q, c, i + 1, x, a)
  <2>1. a = a + d
    BY <1>2, <1>12
  <2>2. QED
    BY <1>10, <1>12, <2>1
<1>13. QED
  BY <1>1, <1>8, <1>9, <1>11, <1>12

\* It depends on the instructions so far only.
LEMMA AliveSame ==
  ASSUME NEW p, NEW q, NEW c \in Counters, NEW i \in Nat, \A g \in 1..i : p[g] = q[g],
         NEW x, NEW a, Alive(p, c, i, x, a)
  PROVE  Alive(q, c, i, x, a)
<1>1. PICK h \in 1..i : /\ p[h] = x /\ Counts(x, c) /\ ~Covered(p, c, h, i)
                        /\ a = Issued(p, c, i) - Issued(p, c, h)
  BY DEF Alive
<1>2. i \in 0..i /\ h \in Nat /\ \A g \in 1..h : p[g] = q[g]
  OBVIOUS
<1>3. ~Covered(q, c, h, i)
  BY <1>1, <1>2, CoveredPrefix
<1>4. Issued(p, c, i) = Issued(q, c, i) /\ Issued(p, c, h) = Issued(q, c, h)
  BY <1>2, IssuedSame
<1>5. QED
  BY <1>1, <1>3, <1>4 DEF Alive

\* Nothing is outstanding before the first instruction.
LEMMA AliveNever ==
  ASSUME NEW q, NEW c, NEW x, NEW a
  PROVE  ~Alive(q, c, 0, x, a)
BY DEF Alive

\* What work from nothing to nothing leaves.
LEMMA WorkSound ==
  ASSUME NEW q, Work(Every, Calm, q, Every, Calm)
  PROVE  Sound(q)
<1>1. PICK e : e = << >>
  OBVIOUS
<1>2. e \in Seq({}) /\ Len(e) = 0
  BY <1>1
<1>3. Waits(e)
  BY <1>1, NothingWaits
<1>4. \A c : Safe(e, c)
  BY <1>2 DEF Safe
<1>5. \A c, F : Facts(e, c, F)
  BY <1>2 DEF Facts, Aged
<1>6. Waits(q)
  BY DEF Work, Does
<1>7. e \o q = q
  <2>1. IsSeq(q)
    BY <1>6 DEF Waits
  <2>2. PICK S : q \in Seq(S)
    BY <2>1 DEF IsSeq
  <2>3. << >> \o q = q
    BY <2>2, ConcatEmptySeq
  <2>4. QED
    BY <1>1, <2>3
<1>8. /\ Safe(q, "vm") /\ Facts(q, "vm", Every)
      /\ Safe(q, "lgkm") /\ Facts(q, "lgkm", Calm)
  BY <1>3, <1>4, <1>5, <1>7 DEF Work, Does
<1>9. IsSeq(q) /\ Len(q) \in Nat
  BY <1>6, WaitsDomain DEF Waits
<1>10. ASSUME NEW c \in Counters PROVE SoundIn(q, c)
  <2>1. Safe(q, c)
    BY <1>8 DEF Counters
  <2>2. ASSUME NEW i \in 1..Len(q), NEW x, NEW a, Alive(q, c, i - 1, x, a)
        PROVE  Writes(x) \cap Sources(q[i]) = {}
    <3>1. PICK h \in 1..(i - 1) : q[h] = x /\ Counts(x, c) /\ ~Covered(q, c, h, i - 1)
      BY <2>2 DEF Alive
    <3>2. QED
      BY <2>1, <3>1 DEF Safe
  <2>3. QED
    BY <2>2 DEF SoundIn
<1>11. ASSUME NEW c \in Counters, NEW F, Facts(q, c, F), NEW x, NEW a, Alive(q, c, Len(q), x, a),
              NEW r \in Writes(x), Clear(F, r)
       PROVE  FALSE
  <2>1. PICK h \in 1..Len(q) : q[h] = x /\ Counts(x, c) /\ ~Covered(q, c, h, Len(q))
    BY <1>11 DEF Alive
  <2>2. Covered(q, c, h, Len(q))
    BY <1>9, <1>11, <2>1, ClearCovered
  <2>3. QED
    BY <2>1, <2>2
<1>12. ASSUME NEW x, NEW a PROVE ~Alive(q, "vm", Len(q), x, a)
  <2> SUFFICES ASSUME Alive(q, "vm", Len(q), x, a) PROVE FALSE
    OBVIOUS
  <2>1. PICK h \in 1..Len(q) : q[h] = x /\ Counts(x, "vm")
    BY DEF Alive
  <2>2. Writes(x) = {x.dst} /\ Writes(x) \subseteq Regs
    <3>1. x.op = "buffer_load"
      BY <2>1 DEF Counts
    <3>2. QED
      BY <1>8, <2>1, <3>1 DEF Writes, Safe
  <2>3. Clear(Every, x.dst)
    BY <2>2, EverClear DEF Every
  <2>4. QED
    BY <1>8, <1>11, <2>2, <2>3 DEF Counters
<1>13. ASSUME NEW x, NEW a, Alive(q, "lgkm", Len(q), x, a) PROVE <<"temp">> \notin Writes(x)
  <2>1. <<"temp">> \in VmRegs \cup {<<"temp">>}
    OBVIOUS
  <2>2. Clear(Calm, <<"temp">>)
    BY <2>1, EverClear DEF Calm
  <2>3. QED
    BY <1>8, <1>11, <1>13, <2>2 DEF Counters
<1>14. QED
  BY <1>6, <1>10, <1>12, <1>13 DEF Sound, Quits

-----------------------------------------------------------------------------
\* Passes over the waits.

\* What a pass may make of instruction i of q: nothing else, a wait for more, or nothing,
\* where the wait has nothing to wait for.
MayBecome(q, i, g) ==
  \/ g = <<q[i]>>
  \/ /\ q[i].op = "wait"
     /\ \E m \in Nat : m <= q[i].n /\ g = <<Wait(q[i].counter, m)>>
  \/ /\ q[i].op = "wait" /\ g = << >>
     /\ \A x, a : Alive(q, q[i].counter, i - 1, x, a) => a < q[i].n

\* Whatever may be outstanding behind p may be behind i instructions of q.
Follows(p, q, i) ==
  \A c \in Counters : \A x, a : Alive(p, c, Len(p), x, a) => Alive(q, c, i, x, a)

\* A list with one more instruction.
LEMMA OneMore ==
  ASSUME NEW p, IsSeq(p), NEW z
  PROVE  /\ IsSeq(p \o <<z>>) /\ Len(p \o <<z>>) = Len(p) + 1 /\ Len(p) \in Nat
         /\ (p \o <<z>>)[Len(p) + 1] = z
         /\ \A g \in 1..Len(p) : (p \o <<z>>)[g] = p[g]
<1>1. PICK q : q = p \o <<z>>
  OBVIOUS
<1>2. q = Append(p, z)
  BY <1>1, OneElement
<1>3. Len(q) = Len(p) + 1 /\ q[Len(p) + 1] = z /\ \A g \in 1..Len(p) : q[g] = p[g]
  BY <1>2, AppendParts
<1>4. IsSeq(q) /\ Len(p) \in Nat
  BY <1>1, JoinIsSeq, OneIsSeq, WaitsDomain
<1>5. QED
  BY <1>1, <1>3, <1>4

\* One more instruction that needs nothing outstanding.
LEMMA SoundMore ==
  ASSUME NEW p, IsSeq(p), NEW c \in Counters, SoundIn(p, c), NEW z,
         \A x, a : Alive(p, c, Len(p), x, a) => Writes(x) \cap Sources(z) = {}
  PROVE  SoundIn(p \o <<z>>, c)
<1>1. PICK q : q = p \o <<z>>
  OBVIOUS
<1>2. PICK n : n \in Nat /\ n = Len(p) /\ Len(q) = n + 1 /\ q[n + 1] = z /\ \A g \in 1..n : q[g] = p[g]
  <2>1. /\ Len(q) = Len(p) + 1 /\ Len(p) \in Nat /\ q[Len(p) + 1] = z
        /\ \A g \in 1..Len(p) : q[g] = p[g]
    BY <1>1, OneMore
  <2>2. PICK n : n = Len(p)
    OBVIOUS
  <2>3. QED
    BY <2>1, <2>2
<1>3. ASSUME NEW i \in 1..(n + 1), NEW x, NEW a, Alive(q, c, i - 1, x, a)
      PROVE  Writes(x) \cap Sources(q[i]) = {}
  <2>1. i - 1 \in Nat /\ \A g \in 1..(i - 1) : q[g] = p[g]
    BY <1>2
  <2>2. Alive(p, c, i - 1, x, a)
    BY <1>3, <2>1, AliveSame
  <2>3. CASE i <= n
    <3>1. i \in 1..n /\ q[i] = p[i]
      BY <1>2, <2>3
    <3>2. QED
      BY <1>2, <2>2, <3>1 DEF SoundIn
  <2>4. CASE ~(i <= n)
    <3>1. i = n + 1 /\ i - 1 = n
      BY <1>2, <2>4
    <3>2. QED
      BY <1>2, <2>2, <3>1
  <2>5. QED
    BY <2>3, <2>4
<1>4. QED
  BY <1>1, <1>2, <1>3 DEF SoundIn

\* The pass keeps an instruction, or waits for more.
LEMMA FollowsMore ==
  ASSUME NEW p, IsSeq(p), NEW q, NEW i \in Nat, Follows(p, q, i), NEW z,
         \/ z = q[i + 1]
         \/ \E d : \E m \in Nat : /\ z = Wait(d, m) /\ q[i + 1].op = "wait" /\ q[i + 1].counter = d
                              /\ q[i + 1].n \in Nat /\ m <= q[i + 1].n
  PROVE  Follows(p \o <<z>>, q, i + 1)
<1>1. PICK r : r = p \o <<z>>
  OBVIOUS
<1>2. PICK n : n \in Nat /\ n = Len(p) /\ Len(r) = n + 1 /\ r[n + 1] = z /\ \A g \in 1..n : r[g] = p[g]
  <2>1. /\ Len(r) = Len(p) + 1 /\ Len(p) \in Nat /\ r[Len(p) + 1] = z
        /\ \A g \in 1..Len(p) : r[g] = p[g]
    BY <1>1, OneMore
  <2>2. PICK n : n = Len(p)
    OBVIOUS
  <2>3. QED
    BY <2>1, <2>2
<1>3. ASSUME NEW c \in Counters, NEW x, NEW a, Alive(r, c, n + 1, x, a)
      PROVE  Alive(q, c, i + 1, x, a)
  <2>0. n + 1 \in Nat
    BY <1>2
  <2>1. a \in Nat /\ a \in Int
    BY <1>3, <2>0, AliveAge
  <2>2. \A b : Alive(r, c, n, x, b) => Alive(q, c, i, x, b)
    <3>1. ASSUME NEW b, Alive(r, c, n, x, b) PROVE Alive(q, c, i, x, b)
      <4>1. Alive(p, c, n, x, b)
        BY <1>2, <3>1, AliveSame
      <4>2. QED
        BY <1>2, <4>1 DEF Follows
    <3>2. QED
      BY <3>1
  <2>3. \/ Counts(z, c) /\ ((x = z /\ a = 0) \/ Alive(r, c, n, x, a - 1))
        \/ ~Counts(z, c) /\ Alive(r, c, n, x, a) /\ (IsWait(z, c) => ~(z.n <= a))
    BY <1>2, <1>3, <2>1, AliveStep
  <2>4. \/ Counts(z, c) /\ ((x = z /\ a = 0) \/ Alive(q, c, i, x, a - 1))
        \/ ~Counts(z, c) /\ Alive(q, c, i, x, a) /\ (IsWait(z, c) => ~(z.n <= a))
    BY <2>2, <2>3
  <2>5. \/ Counts(q[i + 1], c) /\ ((x = q[i + 1] /\ a = 0) \/ Alive(q, c, i, x, a - 1))
        \/ /\ ~Counts(q[i + 1], c) /\ Alive(q, c, i, x, a)
           /\ IsWait(q[i + 1], c) => ~(q[i + 1].n <= a)
    <3>1. CASE z = q[i + 1]
      BY <2>4, <3>1
    <3>2. CASE \E d : \E m \in Nat : /\ z = Wait(d, m) /\ q[i + 1].op = "wait" /\ q[i + 1].counter = d
                                 /\ q[i + 1].n \in Nat /\ m <= q[i + 1].n
      <4>0. PICK d : \E m \in Nat : /\ z = Wait(d, m) /\ q[i + 1].op = "wait" /\ q[i + 1].counter = d
                                     /\ q[i + 1].n \in Nat /\ m <= q[i + 1].n
        BY <3>2
      <4>1. PICK m \in Nat : /\ z = Wait(d, m) /\ q[i + 1].op = "wait" /\ q[i + 1].counter = d
                             /\ q[i + 1].n \in Nat /\ m <= q[i + 1].n
        BY <4>0
      <4>2. z.op = "wait" /\ z.counter = d /\ z.n = m
        BY <4>1 DEF Wait
      <4>3. IsWait(z, d) /\ IsWait(q[i + 1], d)
        BY <4>1, <4>2 DEF IsWait
      <4>4. ~Counts(z, c) /\ ~Counts(q[i + 1], c)
        BY <4>3, CountsNoWait
      <4>5. ASSUME IsWait(q[i + 1], c) PROVE ~(q[i + 1].n <= a)
        <5>1. c = d
          BY <4>1, <4>5 DEF IsWait
        <5>2. ~(m <= a)
          BY <2>4, <4>2, <4>3, <4>4, <5>1
        <5>3. PICK k \in Nat : k = q[i + 1].n
          BY <4>1
        <5>4. m <= k
          BY <4>1, <5>3
        <5>5. ~(k <= a)
          BY <2>1, <5>2, <5>4
        <5>6. QED
          BY <5>3, <5>5
      <4>6. QED
        BY <2>4, <4>4, <4>5
    <3>3. QED
      BY <3>1, <3>2
  <2>6. QED
    BY <2>1, <2>5, AliveStep
<1>4. QED
  BY <1>1, <1>2, <1>3 DEF Follows

\* The pass drops a wait that had nothing to wait for.
LEMMA FollowsLess ==
  ASSUME NEW p, IsSeq(p), NEW q, NEW i \in Nat, Follows(p, q, i), q[i + 1].op = "wait",
         q[i + 1].n \in Nat,
         \A x, a : Alive(q, q[i + 1].counter, i, x, a) => a < q[i + 1].n
  PROVE  Follows(p, q, i + 1)
<1>1. ASSUME NEW c \in Counters, NEW x, NEW a, Alive(p, c, Len(p), x, a)
      PROVE  Alive(q, c, i + 1, x, a)
  <2>1. Alive(q, c, i, x, a)
    BY <1>1 DEF Follows
  <2>2. a \in Nat /\ a \in Int
    BY <2>1, AliveAge
  <2>3. IsWait(q[i + 1], q[i + 1].counter)
    BY DEF IsWait
  <2>4. ~Counts(q[i + 1], c)
    BY <2>3, CountsNoWait
  <2>5. ASSUME IsWait(q[i + 1], c) PROVE ~(q[i + 1].n <= a)
    <3>1. c = q[i + 1].counter
      BY <2>5 DEF IsWait
    <3>2. a < q[i + 1].n
      BY <2>1, <3>1
    <3>3. QED
      BY <2>2, <3>2
  <2>6. QED
    BY <2>1, <2>2, <2>4, <2>5, AliveStep
<1>2. QED
  BY <1>1 DEF Follows

\* A pass that changes each instruction at most so keeps the code sound.
LEMMA PassSound ==
  ASSUME NEW q, Sound(q), NEW n \in Nat, n = Len(q), NEW g, g = [i \in 1..n |-> g[i]],
         \A i \in 1..n : MayBecome(q, i, g[i])
  PROVE  /\ Sound(FlattenSeq(g))
         /\ Plain(q) => Plain(FlattenSeq(g))
<1>1. \A i \in 1..n : q[i].op = "wait" => \E c \in {"vm", "lgkm"}, m \in Nat : q[i] = Wait(c, m)
  BY DEF Sound, Waits
<1>2. ASSUME NEW i \in 1..n
      PROVE  /\ Waits(g[i])
             /\ \/ /\ g[i] = << >> /\ q[i].op = "wait" /\ q[i].n \in Nat
                   /\ \A x, a : Alive(q, q[i].counter, i - 1, x, a) => a < q[i].n
                \/ \E z : /\ g[i] = <<z>>
                          /\ Sources(z) = {} \/ z = q[i]
                          /\ \/ z = q[i]
                             \/ \E d : \E m \in Nat : /\ z = Wait(d, m) /\ q[i].op = "wait"
                                                  /\ q[i].counter = d
                                                  /\ q[i].n \in Nat /\ m <= q[i].n
  <2>1. q[i].op = "wait" => q[i].n \in Nat /\ q[i].counter \in {"vm", "lgkm"}
    <3> SUFFICES ASSUME q[i].op = "wait" PROVE q[i].n \in Nat /\ q[i].counter \in {"vm", "lgkm"}
      OBVIOUS
    <3>1. PICK c \in {"vm", "lgkm"}, m \in Nat : q[i] = Wait(c, m)
      BY <1>1
    <3>2. QED
      BY <3>1 DEF Wait
  <2>2. CASE g[i] = <<q[i]>>
    <3>1. Waits(<<q[i]>>)
      BY <1>1, WaitsOne
    <3>2. QED
      BY <2>2, <3>1
  <2>3. CASE q[i].op = "wait" /\ \E m \in Nat : m <= q[i].n /\ g[i] = <<Wait(q[i].counter, m)>>
    <3>1. PICK m \in Nat : m <= q[i].n /\ g[i] = <<Wait(q[i].counter, m)>>
      BY <2>3
    <3>2. PICK d \in {"vm", "lgkm"} : d = q[i].counter
      BY <2>1, <2>3
    <3>3. PICK z : z = Wait(d, m)
      OBVIOUS
    <3>4. g[i] = <<z>> /\ Sources(z) = {}
      BY <3>1, <3>2, <3>3, InstructionFacts
    <3>5. Waits(<<z>>)
      BY <3>3, WaitsOne
    <3>6. QED
      BY <2>1, <2>3, <3>1, <3>2, <3>3, <3>4, <3>5
  <2>4. CASE /\ q[i].op = "wait" /\ g[i] = << >>
             /\ \A x, a : Alive(q, q[i].counter, i - 1, x, a) => a < q[i].n
    BY <2>1, <2>4, NothingWaits
  <2>5. QED
    BY <2>2, <2>3, <2>4 DEF MayBecome
<1>3. n \in Nat /\ g = [i \in 1..n |-> g[i]] /\ \A i \in 1..n : IsSeq(g[i])
  <2>1. \A i \in 1..n : IsSeq(g[i])
    BY <1>2 DEF Waits
  <2>2. QED
    BY <2>1
<1>4. PICK e : /\ e[0] = << >> /\ FlattenSeq(g) = e[n]
               /\ \A i \in 1..n : e[i] = e[i - 1] \o g[i]
  BY ONLY <1>3, Flattening
<1> DEFINE Kept(p, i) == /\ Waits(p) /\ (\A c \in Counters : SoundIn(p, c)) /\ Follows(p, q, i)
                         /\ Plain(q) => Plain(p)
           T == {i \in Nat : i <= n => Kept(e[i], i)}
<1>5. 0 \in T
  <2>1. PICK p : p = << >>
    OBVIOUS
  <2>2. p \in Seq({}) /\ Len(p) = 0
    BY <2>1
  <2>3. Waits(p)
    BY <2>1, NothingWaits
  <2>4. \A c : SoundIn(p, c)
    BY <2>2 DEF SoundIn
  <2>5. Follows(p, q, 0)
    BY <2>2, AliveNever DEF Follows
  <2>6. Plain(p)
    BY <2>2 DEF Plain, IsSeq
  <2>7. QED
    BY <1>4, <2>1, <2>3, <2>4, <2>5, <2>6
<1>6. ASSUME NEW i \in T PROVE i + 1 \in T
  <2>1. i \in Nat /\ (i + 1) - 1 = i
    OBVIOUS
  <2>2. CASE i + 1 <= n
    <3>1. i + 1 \in 1..n /\ i + 1 \in 1..Len(q)
      BY <2>1, <2>2
    <3>2. PICK p : p = e[i]
      OBVIOUS
    <3>3. Kept(p, i)
      BY <2>1, <2>2, <3>2
    <3>4. e[i + 1] = p \o g[i + 1]
      BY <1>4, <2>1, <3>1, <3>2
    <3>5. IsSeq(p)
      BY <3>3 DEF Waits
    <3>6. Waits(p \o g[i + 1])
      BY <1>2, <3>1, <3>3, WaitsJoin
    <3>7. CASE /\ g[i + 1] = << >> /\ q[i + 1].op = "wait" /\ q[i + 1].n \in Nat
               /\ \A x, a : Alive(q, q[i + 1].counter, i, x, a) => a < q[i + 1].n
      <4>1. p \o g[i + 1] = p
        BY <3>5, <3>7, OneElement
      <4>2. Follows(p, q, i + 1)
        BY <2>1, <3>3, <3>5, <3>7, FollowsLess
      <4>3. Kept(p, i + 1)
        BY <3>3, <4>2
      <4>4. e[i + 1] = p
        BY <3>4, <4>1
      <4> HIDE DEF Kept
      <4>5. Kept(e[i + 1], i + 1)
        BY <4>3, <4>4
      <4>6. QED
        BY <2>1, <4>5
    <3>8. CASE \E z : /\ g[i + 1] = <<z>>
                      /\ Sources(z) = {} \/ z = q[i + 1]
                      /\ \/ z = q[i + 1]
                         \/ \E d : \E m \in Nat : /\ z = Wait(d, m) /\ q[i + 1].op = "wait"
                                              /\ q[i + 1].counter = d
                                              /\ q[i + 1].n \in Nat /\ m <= q[i + 1].n
      <4>1. PICK z : /\ g[i + 1] = <<z>>
                     /\ Sources(z) = {} \/ z = q[i + 1]
                     /\ \/ z = q[i + 1]
                        \/ \E d : \E m \in Nat : /\ z = Wait(d, m) /\ q[i + 1].op = "wait"
                                             /\ q[i + 1].counter = d
                                             /\ q[i + 1].n \in Nat /\ m <= q[i + 1].n
        BY <3>8
      <4>2. Follows(p \o <<z>>, q, i + 1)
        BY <2>1, <3>3, <3>5, <4>1, FollowsMore
      <4>3. ASSUME NEW c \in Counters PROVE SoundIn(p \o <<z>>, c)
        <5>1. ASSUME NEW x, NEW a, Alive(p, c, Len(p), x, a) PROVE Writes(x) \cap Sources(z) = {}
          <6>1. Alive(q, c, i, x, a)
            BY <3>3, <5>1 DEF Follows
          <6>2. SoundIn(q, c)
            BY DEF Sound
          <6>3. Writes(x) \cap Sources(q[i + 1]) = {}
            BY <2>1, <3>1, <6>1, <6>2 DEF SoundIn
          <6>4. QED
            BY <4>1, <6>3
        <5>2. SoundIn(p, c)
          BY <3>3
        <5>3. QED
          BY <3>5, <5>1, <5>2, SoundMore
      <4>4. Plain(q) => Plain(p \o <<z>>)
        <5> SUFFICES ASSUME Plain(q) PROVE Plain(p \o <<z>>)
          OBVIOUS
        <5>1. Sources(z) \subseteq {<<"temp">>}
          BY <3>1, <4>1 DEF Plain
        <5>2. QED
          BY <3>3, <5>1, PlainOne, PlainThen
      <4>5. Waits(p \o <<z>>)
        BY <3>6, <4>1
      <4>6. Kept(p \o <<z>>, i + 1)
        BY <4>2, <4>3, <4>4, <4>5
      <4>7. e[i + 1] = p \o <<z>>
        BY <3>4, <4>1
      <4> HIDE DEF Kept
      <4>8. Kept(e[i + 1], i + 1)
        BY <4>6, <4>7
      <4>9. QED
        BY <2>1, <4>8
    <3>9. QED
      BY <1>2, <2>1, <3>1, <3>7, <3>8
  <2>3. CASE ~(i + 1 <= n)
    BY <2>1, <2>3
  <2>4. QED
    BY <2>2, <2>3
<1>7. T \in SUBSET Nat
  OBVIOUS
<1> HIDE DEF T, Kept
<1>8. \A i \in Nat : i \in T
  BY <1>5, <1>6, <1>7, Induction
<1>9. n \in T
  BY <1>8
<1>10. PICK p : p = e[n]
  OBVIOUS
<1>11. Kept(p, n)
  BY <1>9, <1>10 DEF T
<1>12. Quits(p)
  <2>1. Quits(q) /\ Follows(p, q, Len(q))
    BY <1>11 DEF Kept, Sound
  <2>2. ASSUME NEW x, NEW a
        PROVE  /\ ~Alive(p, "vm", Len(p), x, a)
               /\ Alive(p, "lgkm", Len(p), x, a) => <<"temp">> \notin Writes(x)
    BY <2>1 DEF Quits, Follows, Counters
  <2>3. QED
    BY <2>2 DEF Quits
<1>13. QED
  BY <1>4, <1>10, <1>11, <1>12 DEF Kept, Sound

-----------------------------------------------------------------------------
\* What the passes count as outstanding.

\* The passes take at least as many operations to be outstanding as may be: more than
\* were issued behind any that no wait has covered.
LEMMA OutstandingAlive ==
  ASSUME NEW q, NEW i \in Nat, Waiting(q, i), NEW c \in Counters, NEW n0 \in Nat,
         NEW x, NEW a, Alive(q, c, i, x, a)
  PROVE  Outstanding(q, c, n0, i) \in Nat /\ a < Outstanding(q, c, n0, i)
<1> DEFINE waits == {j \in 1..i : IsWait(q[j], c)}
           every == {j \in waits : q[j].n = 0}
           all   == Max({0} \cup every)
           since(j) == Cardinality({h \in (j + 1)..i : Counts(q[h], c)})
           later == {w \in waits : w > all}
           first == since(all) + IF all = 0 THEN n0 ELSE 0
           counts == {first} \cup {q[j].n + since(j) : j \in later}
<1>1. Outstanding(q, c, n0, i) = Min(counts)
  BY DEF Outstanding
<1>2. PICK h \in 1..i : /\ Counts(q[h], c) /\ ~Covered(q, c, h, i)
                        /\ a = Issued(q, c, i) - Issued(q, c, h)
  BY DEF Alive
<1>3. h \in Nat /\ h \in 0..i /\ h <= i
  BY <1>2
<1>4. PICK m \in Nat, k \in Nat : m = Issued(q, c, i) /\ k = Issued(q, c, h) /\ k <= m /\ a = m - k
  BY <1>2, <1>3, IssuedGrows
<1>5. /\ all \in {0} \cup every /\ every \subseteq 1..i /\ all \in 0..i
      /\ waits \subseteq 1..i
  <2>1. {0} \cup every \in SUBSET (0..i) /\ 0 \in {0} \cup every
    OBVIOUS
  <2>2. all \in {0} \cup every
    <3> DEFINE S == {0} \cup every
    <3> HIDE DEF S
    <3>1. S \in SUBSET (0..i) /\ 0 \in S
      BY <2>1 DEF S
    <3>2. Max(S) \in S
      BY <3>1, GreatestIn
    <3>3. QED
      BY <3>2 DEF S
  <2>3. QED
    BY <2>1, <2>2
<1>6. ASSUME NEW j \in waits, h < j
      PROVE  ~(q[j].n <= Issued(q, c, j) - k)
  <2>1. j \in (h + 1)..i
    BY <1>3, <1>6
  <2>2. ~Covers(q, c, h, j)
    BY <1>2, <2>1 DEF Covered
  <2>3. QED
    BY <1>4, <1>6, <2>2 DEF Covers
<1>7. \A j \in waits : j # h /\ j \in Nat
  BY <1>2, CountsNoWait
<1>8. ASSUME NEW j \in every PROVE j < h
  <2> SUFFICES ASSUME ~(j < h) PROVE FALSE
    OBVIOUS
  <2>1. j \in Nat /\ h < j /\ h \in 0..j
    BY <1>3, <1>7
  <2>2. Issued(q, c, j) \in Nat /\ k <= Issued(q, c, j)
    BY <1>4, <2>1, IssuedGrows
  <2>3. 0 <= Issued(q, c, j) - k
    BY <2>2
  <2>4. q[j].n = 0
    OBVIOUS
  <2>5. QED
    BY <1>6, <2>1, <2>3, <2>4
<1> HIDE DEF all
<1>9. all < h
  BY <1>3, <1>5, <1>8
<1>10. ASSUME NEW j \in 0..i
       PROVE  since(j) \in Nat /\ since(j) = m - Issued(q, c, j)
  <2>1. since(j) = m - Issued(q, c, j)
    BY <1>4, IssuedBetween
  <2>2. Issued(q, c, j) \in Nat /\ Issued(q, c, j) <= m
    BY <1>4, IssuedGrows
  <2> HIDE DEF since
  <2>3. QED
    BY <2>1, <2>2
<1>11. ASSUME NEW j \in 0..i, j < h PROVE a < since(j)
  <2>1. j \in 0..h /\ h \in (j + 1)..h
    BY <1>3, <1>11
  <2>2. Issued(q, c, j) \in Nat /\ Issued(q, c, j) + 1 <= k
    BY <1>2, <1>3, <1>4, <2>1, IssuedGrows
  <2>3. since(j) = m - Issued(q, c, j)
    BY <1>10
  <2> HIDE DEF since
  <2>4. QED
    BY <1>4, <2>2, <2>3
<1>12. \A j \in waits : q[j].n \in Nat /\ j \in 0..i
  BY DEF Waiting, IsWait
<1>13. first \in Nat /\ a < first
  <2>1. since(all) \in Nat /\ a < since(all)
    BY <1>5, <1>9, <1>10, <1>11
  <2> HIDE DEF since
  <2>2. QED
    BY <1>4, <2>1
<1>14. ASSUME NEW j \in later PROVE q[j].n + since(j) \in Nat /\ a < q[j].n + since(j)
  <2>1. j \in waits /\ j \in 0..i
    BY <1>12
  <2>2. PICK u \in Nat, v \in Nat : u = q[j].n /\ v = since(j)
    BY <1>10, <1>12, <2>1
  <2>3. CASE j < h
    <3>1. a < v
      BY <1>11, <2>1, <2>2, <2>3
    <3>2. a < u + v
      BY <1>4, <2>2, <3>1
    <3>3. QED
      BY <2>2, <3>2
  <2>4. CASE h < j
    <3>1. PICK z \in Nat : z = Issued(q, c, j)
      BY <1>7, <2>1, IssuedType
    <3>2. ~(u <= z - k)
      BY <1>6, <2>1, <2>2, <2>4, <3>1
    <3>3. v = m - z
      BY <1>10, <2>1, <2>2, <3>1
    <3>4. a < u + v
      BY <1>4, <2>2, <3>1, <3>2, <3>3
    <3>5. QED
      BY <2>2, <3>4
  <2>5. QED
    BY <1>3, <1>7, <2>1, <2>3, <2>4
<1>15. counts # {} /\ counts \in SUBSET Nat /\ \A z \in counts : a < z
  <2> HIDE DEF since, later
  <2>1. QED
    BY <1>13, <1>14
<1> HIDE DEF counts
<1>16. Min(counts) \in counts
  BY <1>15, LeastIn
<1>17. QED
  BY <1>1, <1>15, <1>16

\* What may be outstanding in a block may be in the text it ends.
LEMMA AliveJoin ==
  ASSUME NEW p, IsSeq(p), NEW q, IsSeq(q), NEW c \in Counters, NEW i \in 0..Len(q),
         NEW x, NEW a, Alive(q, c, i, x, a)
  PROVE  Alive(p \o q, c, Len(p) + i, x, a)
<1>1. PICK k \in Nat, l \in Nat : k = Len(p) /\ l = Len(q)
  BY JoinParts
<1>2. PICK r : r = p \o q
  OBVIOUS
<1>3. \A g \in 1..l : r[k + g] = q[g]
  BY <1>1, <1>2, JoinParts
<1>4. PICK h \in 1..i : /\ q[h] = x /\ Counts(x, c) /\ ~Covered(q, c, h, i)
                        /\ a = Issued(q, c, i) - Issued(q, c, h)
  BY DEF Alive
<1>5. i \in Nat /\ i <= l /\ h \in 1..l /\ h \in Nat
  BY <1>1, <1>4
<1>6. PICK u \in Nat : u = Issued(p, c, k)
  BY IssuedType
<1>7. \A j \in 0..l : Issued(q, c, j) \in Nat /\ Issued(r, c, k + j) = u + Issued(q, c, j)
  <2> SUFFICES ASSUME NEW j \in 0..l
               PROVE  Issued(q, c, j) \in Nat /\ Issued(r, c, k + j) = u + Issued(q, c, j)
    OBVIOUS
  <2>1. j \in 0..Len(q) /\ j \in Nat
    BY <1>1
  <2>2. Issued(p \o q, c, Len(p) + j) = Issued(p, c, Len(p)) + Issued(q, c, j)
    BY <2>1, IssuedJoin
  <2>3. Issued(q, c, j) \in Nat
    BY <2>1, IssuedType
  <2>4. QED
    BY <1>1, <1>2, <1>6, <2>2, <2>3
<1>8. ~Covered(r, c, k + h, k + i)
  <2> SUFFICES ASSUME NEW z \in ((k + h) + 1)..(k + i), Covers(r, c, k + h, z) PROVE FALSE
    BY DEF Covered
  <2>1. PICK j : j = z - k
    OBVIOUS
  <2>2. j \in (h + 1)..i /\ j \in 1..l /\ j \in 0..l /\ h \in 0..l /\ z = k + j
    BY <1>5, <2>1
  <2>3. r[z] = q[j]
    BY <1>3, <2>2
  <2>4. PICK s \in Nat, t \in Nat : s = Issued(q, c, j) /\ t = Issued(q, c, h)
    BY <1>7, <2>2
  <2>5. Issued(r, c, z) - Issued(r, c, k + h) = s - t
    <3>1. Issued(r, c, z) = u + s /\ Issued(r, c, k + h) = u + t
      BY <1>7, <2>2, <2>4
    <3>2. (u + s) - (u + t) = s - t
      OBVIOUS
    <3>3. QED
      BY <3>1, <3>2
  <2>6. Covers(q, c, h, j)
    BY <2>3, <2>4, <2>5 DEF Covers
  <2>7. QED
    BY <1>4, <2>2, <2>6 DEF Covered
<1>9. a = Issued(r, c, k + i) - Issued(r, c, k + h)
  <2>1. PICK s \in Nat, t \in Nat : s = Issued(q, c, i) /\ t = Issued(q, c, h)
    BY <1>5, <1>7
  <2>2. h \in 0..l /\ i \in 0..l
    BY <1>5
  <2>3. Issued(r, c, k + i) = u + s /\ Issued(r, c, k + h) = u + t
    BY <1>7, <2>1, <2>2
  <2>4. (u + s) - (u + t) = s - t
    OBVIOUS
  <2>5. QED
    BY <1>4, <2>1, <2>3, <2>4
<1>10. k + h \in 1..(k + i)
  BY <1>5
<1>11. r[k + h] = x
  BY <1>3, <1>4, <1>5
<1>12. Alive(r, c, k + i, x, a)
  BY <1>4, <1>8, <1>9, <1>10, <1>11 DEF Alive
<1>13. QED
  BY <1>1, <1>2, <1>12

-----------------------------------------------------------------------------
\* The two passes, and the code that runs.

\* The waits up to some instruction are waits for counts.
LEMMA WaitsWaiting ==
  ASSUME NEW q, Waits(q), NEW i \in 0..Len(q)
  PROVE  Waiting(q, i)
<1>1. Len(q) \in Nat
  BY WaitsDomain DEF Waits
<1>2. \A j \in 1..i : j \in 1..Len(q)
  BY <1>1
<1>3. QED
  BY <1>2, WaitsCount DEF Waiting

\* optimize_waitcnt_mach_func drops a wait only where nothing it waits for is outstanding.
LEMMA OptimizeSound ==
  ASSUME NEW q, Sound(q), NEW name
  PROVE  /\ Sound(OptimizeWaitcnt(name, q))
         /\ Plain(q) => Plain(OptimizeWaitcnt(name, q))
<1>1. PICK n0 \in Nat : n0 = IF name \in {"A", "B"} THEN 0 ELSE Unknown
  BY DEF Unknown
<1> DEFINE known(i) == Outstanding(q, q[i].counter, n0, i - 1)
           kept(i) == When(known(i) > q[i].n, <<q[i]>>)
           g == [i \in 1..Len(q) |-> IF q[i].op = "wait" THEN kept(i) ELSE <<q[i]>>]
<1>2. Waits(q) /\ DOMAIN q = 1..Len(q) /\ Len(q) \in Nat
  BY WaitsDomain DEF Sound, Waits
<1>3. OptimizeWaitcnt(name, q) = FlattenSeq(g)
  BY <1>1, <1>2 DEF OptimizeWaitcnt, Rewritten
<1>4. ASSUME NEW j \in 1..Len(q) PROVE MayBecome(q, j, g[j])
  <2>1. g[j] = IF q[j].op = "wait" THEN kept(j) ELSE <<q[j]>>
    OBVIOUS
  <2> HIDE DEF g
  <2>2. CASE q[j].op # "wait"
    BY <2>1, <2>2 DEF MayBecome
  <2>3. CASE q[j].op = "wait"
    <3>1. q[j].counter \in Counters /\ q[j].n \in Nat
      BY <1>2, <2>3, WaitsCount DEF Counters
    <3>2. j - 1 \in Nat /\ Waiting(q, j - 1)
      <4>1. j - 1 \in Nat /\ j - 1 \in 0..Len(q)
        BY <1>2
      <4>2. QED
        BY <1>2, <4>1, WaitsWaiting
    <3>3. known(j) \in Nat
      BY <3>2, OutstandingLemma
    <3>4. \A x, a : Alive(q, q[j].counter, j - 1, x, a) => a \in Nat /\ a < known(j)
      BY <3>1, <3>2, OutstandingAlive, AliveAge
    <3> HIDE DEF known
    <3>5. CASE known(j) > q[j].n
      <4>1. g[j] = <<q[j]>>
        BY <2>1, <2>3, <3>5 DEF When
      <4>2. QED
        BY <4>1 DEF MayBecome
    <3>6. CASE ~(known(j) > q[j].n)
      <4>1. g[j] = << >>
        BY <2>1, <2>3, <3>6 DEF When
      <4>2. \A x, a : Alive(q, q[j].counter, j - 1, x, a) => a < q[j].n
        BY <3>1, <3>3, <3>4, <3>6
      <4>3. QED
        BY <2>3, <4>1, <4>2 DEF MayBecome
    <3>7. QED
      BY <3>5, <3>6
  <2>4. QED
    BY <2>2, <2>3
<1>5. g = [j \in 1..Len(q) |-> g[j]]
  OBVIOUS
<1>6. PICK n : n \in Nat /\ n = Len(q)
  BY <1>2
<1> HIDE DEF g
<1>7. PICK G : G = g
  OBVIOUS
<1>8. G = [j \in 1..n |-> G[j]] /\ \A j \in 1..n : MayBecome(q, j, G[j])
  BY <1>4, <1>5, <1>6, <1>7
<1>9. Sound(FlattenSeq(G)) /\ (Plain(q) => Plain(FlattenSeq(G)))
  BY <1>6, <1>8, PassSound
<1>10. QED
  BY <1>3, <1>7, <1>9

\* AsmEmitter clamps a wait to more than was issued behind anything outstanding, and
\* drops one only where nothing is, whatever text stands before the block.
LEMMA EmitSound ==
  ASSUME NEW p, Waits(p), NEW q, Sound(q)
  PROVE  /\ Sound(EmitWaits(p, q))
         /\ Plain(q) => Plain(EmitWaits(p, q))
<1> DEFINE text == p \o q
           known(i) == Outstanding(text, q[i].counter, 0, Len(p) + i - 1)
           left(i) == LeastOf(q[i].n, known(i))
           kept(i) == When(q[i].n > 0 \/ known(i) > 0, <<Wait(q[i].counter, left(i))>>)
           g == [i \in 1..Len(q) |-> IF q[i].op = "wait" THEN kept(i) ELSE <<q[i]>>]
<1>1. Waits(q) /\ IsSeq(p) /\ IsSeq(q) /\ Len(p) \in Nat
  BY WaitsDomain DEF Waits, Sound
<1>2. DOMAIN q = 1..Len(q) /\ Len(q) \in Nat
  BY <1>1, WaitsDomain
<1>3. EmitWaits(p, q) = FlattenSeq(g)
  BY <1>2 DEF EmitWaits, Rewritten
<1>4. Waits(text) /\ Len(text) = Len(p) + Len(q)
  BY <1>1, WaitsJoin, JoinParts
<1>5. ASSUME NEW j \in 1..Len(q)
      PROVE  /\ Len(p) + j - 1 \in Nat /\ Waiting(text, Len(p) + j - 1)
             /\ Len(p) + j - 1 = Len(p) + (j - 1) /\ j - 1 \in 0..Len(q)
  <2>1. /\ Len(p) + j - 1 \in Nat /\ Len(p) + j - 1 \in 0..(Len(p) + Len(q))
        /\ Len(p) + j - 1 = Len(p) + (j - 1) /\ j - 1 \in 0..Len(q)
    BY <1>1, <1>2
  <2> HIDE DEF text
  <2>2. QED
    BY <1>4, <2>1, WaitsWaiting
<1>6. ASSUME NEW j \in 1..Len(q) PROVE MayBecome(q, j, g[j])
  <2>1. g[j] = IF q[j].op = "wait" THEN kept(j) ELSE <<q[j]>>
    OBVIOUS
  <2> HIDE DEF g
  <2>2. CASE q[j].op # "wait"
    BY <2>1, <2>2 DEF MayBecome
  <2>3. CASE q[j].op = "wait"
    <3>1. PICK c \in Counters : c = q[j].counter
      BY <1>1, <2>3, WaitsCount DEF Counters
    <3>2. PICK n \in Nat : n = q[j].n
      BY <1>1, <2>3, WaitsCount
    <3>3. PICK N : N = Len(p) + j - 1
      OBVIOUS
    <3>4. N \in Nat /\ Waiting(text, N) /\ N = Len(p) + (j - 1) /\ j - 1 \in 0..Len(q)
      BY <1>5, <3>3
    <3>5. PICK k : k = known(j)
      OBVIOUS
    <3>6. k = Outstanding(text, c, 0, N)
      BY <3>1, <3>3, <3>5
    <3>7. k \in Nat
      BY <3>4, <3>6, OutstandingLemma
    <3>8. ASSUME NEW x, NEW a, Alive(q, c, j - 1, x, a) PROVE a < k /\ a \in Nat
      <4>1. Alive(text, c, N, x, a)
        BY <1>1, <3>4, <3>8, AliveJoin
      <4>2. QED
        BY <3>4, <3>6, <4>1, OutstandingAlive, AliveAge
    <3>9. PICK m : m = left(j)
      OBVIOUS
    <3>10. m = LeastOf(n, k)
      BY <3>2, <3>5, <3>9
    <3>11. m \in Nat /\ m <= n
      <4>1. {n, k} \in SUBSET Nat
        BY <3>7
      <4>2. QED
        BY <3>10, <4>1, LeastIn DEF LeastOf
    <3>12. g[j] = When(n > 0 \/ k > 0, <<Wait(c, m)>>)
      BY <2>1, <2>3, <3>1, <3>2, <3>5, <3>9
    <3> HIDE DEF known, left, kept, text
    <3>13. CASE n > 0 \/ k > 0
      <4>1. g[j] = <<Wait(c, m)>>
        BY <3>12, <3>13 DEF When
      <4>2. QED
        BY <2>3, <3>1, <3>2, <3>11, <4>1 DEF MayBecome
    <3>14. CASE ~(n > 0 \/ k > 0)
      <4>1. g[j] = << >>
        BY <3>12, <3>14 DEF When
      <4>2. k = 0
        BY <3>7, <3>14
      <4>3. \A x, a : ~Alive(q, c, j - 1, x, a)
        BY <3>8, <4>2
      <4>4. QED
        BY <2>3, <3>1, <4>1, <4>3 DEF MayBecome
    <3>15. QED
      BY <3>13, <3>14
  <2>4. QED
    BY <2>2, <2>3
<1>7. g = [j \in 1..Len(q) |-> g[j]]
  OBVIOUS
<1>8. PICK n : n \in Nat /\ n = Len(q)
  BY <1>2
<1> HIDE DEF g
<1>9. PICK G : G = g
  OBVIOUS
<1>10. G = [j \in 1..n |-> G[j]] /\ \A j \in 1..n : MayBecome(q, j, G[j])
  BY <1>6, <1>7, <1>8, <1>9
<1>11. Sound(FlattenSeq(G)) /\ (Plain(q) => Plain(FlattenSeq(G)))
  BY <1>8, <1>10, PassSound
<1>12. QED
  BY <1>3, <1>9, <1>11

\* The blocks of a kernel all sound, and its stores plain.
AllSound(c) == (\A b \in WorkBlocks : Sound(c[b])) /\ Plain(c["store"])

\* Both passes keep what LoweredWork shows of the generated code.
LEMMA CompiledSound ==
  ASSUME NEW s, Sized(s), Staged(s), NEW c \in Compiled(s)
  PROVE  AllSound(c)
<1>1. PICK l : l = Lowered(s)
  OBVIOUS
<1>2. PICK o : o = Optimized(s, l)
  OBVIOUS
<1>3. c = Emitted(o)
  BY <1>1, <1>2 DEF Compiled
<1>4. AllSound(l) /\ DOMAIN l = WorkBlocks
  <2>1. ASSUME NEW b \in WorkBlocks PROVE Sound(l[b])
    BY <1>1, LoweredWork, WorkSound DEF WorkBlocks
  <2>2. QED
    BY <1>1, <2>1, LoweredPhased, StorePlain DEF AllSound, WorkBlocks
<1>5. "store" \in WorkBlocks
  BY DEF WorkBlocks
<1>6. AllSound(o) /\ DOMAIN o = WorkBlocks
  <2>1. CASE s.gen = "tile_ir"
    <3>1. o = [b \in WorkBlocks |-> OptimizeWaitcnt(b, l[b])]
      BY <1>2, <1>4, <2>1 DEF Optimized
    <3>2. \A b \in WorkBlocks : o[b] = OptimizeWaitcnt(b, l[b])
      BY <3>1
    <3>3. ASSUME NEW b \in WorkBlocks PROVE Sound(o[b])
      BY <1>4, <3>2, OptimizeSound DEF AllSound
    <3>4. Plain(o["store"])
      BY <1>4, <1>5, <3>2, OptimizeSound DEF AllSound
    <3>5. QED
      BY <3>1, <3>3, <3>4 DEF AllSound
  <2>2. CASE s.gen # "tile_ir"
    BY <1>2, <1>4, <2>2 DEF Optimized
  <2>3. QED
    BY <2>1, <2>2
<1> DEFINE before(i) == [k \in 1..(i - 1) |-> o[Blocks[(k - 1) + 1]]]
           place(b) == CHOOSE i \in DOMAIN Blocks : Blocks[i] = b
           d == [b \in WorkBlocks |-> EmitWaits(FlattenSeq(before(place(b))), o[b])]
<1>7. c = d
  BY <1>3, <1>6 DEF Emitted, Each
<1>8. \A b \in WorkBlocks : place(b) \in 1..6
  BY BlockPlaces
<1>9. \A b \in WorkBlocks : c[b] = EmitWaits(FlattenSeq(before(place(b))), o[b])
  BY <1>7
<1> HIDE DEF d, place
<1>10. ASSUME NEW i \in 1..6 PROVE Waits(FlattenSeq(before(i)))
  <2> DEFINE g == before(i)
  <2>1. PICK n \in Nat : n = i - 1
    OBVIOUS
  <2>2. \A k \in 1..(i - 1) : g[k] = o[Blocks[(k - 1) + 1]] /\ (k - 1) + 1 \in 1..6
    OBVIOUS
  <2>3. g = [k \in 1..(i - 1) |-> g[k]]
    OBVIOUS
  <2> HIDE DEF g
  <2>4. \A k \in 1..(i - 1) : Waits(g[k])
    BY <1>6, <2>2, BlockPlaces DEF AllSound, Sound
  <2>5. Waits(FlattenSeq(g))
    BY <2>1, <2>3, <2>4, FlattenWaits
  <2>6. QED
    BY <2>5 DEF g
<1> HIDE DEF before
<1>11. ASSUME NEW b \in WorkBlocks PROVE Sound(c[b])
  BY <1>6, <1>8, <1>9, <1>10, EmitSound DEF AllSound
<1>12. Plain(c["store"])
  BY <1>5, <1>6, <1>8, <1>9, <1>10, EmitSound DEF AllSound
<1>13. QED
  BY <1>11, <1>12 DEF AllSound

-----------------------------------------------------------------------------
\* A wave's outstanding operations, and those that may be outstanding in its code.

\* The registers an outstanding operation of a wave will write.
Brings(c, o) == IF c = "vm" THEN {o.dst} ELSE Writes(o)

\* An outstanding operation no instruction of block b can be disturbed by.
Harmless(b, c, o) == \A r \in Brings(c, o) : b = "store" /\ r # <<"temp">>

\* The list l of outstanding operations, seen from behind i instructions of block b, whose
\* code is q: each is harmless or one that may be outstanding there.
Tracks(b, q, c, i, l) ==
  \A m \in 1..Len(l) :
    \/ Harmless(b, c, l[m])
    \/ \E x : Writes(x) = Brings(c, l[m]) /\ Alive(q, c, i, x, Len(l) - m)

\* An operation is issued.
LEMMA TracksIssue ==
  ASSUME NEW b, NEW q, NEW c \in Counters, NEW i \in Nat, NEW l, IsSeq(l), Tracks(b, q, c, i, l),
         Counts(q[i + 1], c), NEW o, Brings(c, o) = {} \/ Brings(c, o) = Writes(q[i + 1])
  PROVE  Tracks(b, q, c, i + 1, Append(l, o))
<1>1. PICK n \in Nat : n = Len(l)
  BY AppendParts
<1>2. PICK k : k = Append(l, o)
  OBVIOUS
<1>3. Len(k) = n + 1 /\ k[n + 1] = o /\ \A m \in 1..n : k[m] = l[m]
  BY <1>1, <1>2, AppendParts
<1>4. ASSUME NEW m \in 1..(n + 1)
      PROVE  \/ Harmless(b, c, k[m])
             \/ \E x : Writes(x) = Brings(c, k[m]) /\ Alive(q, c, i + 1, x, (n + 1) - m)
  <2>1. CASE m \in 1..n
    <3>1. k[m] = l[m]
      BY <1>3, <2>1
    <3>2. CASE Harmless(b, c, l[m])
      BY <3>1, <3>2
    <3>3. CASE \E x : Writes(x) = Brings(c, l[m]) /\ Alive(q, c, i, x, n - m)
      <4>1. PICK x : Writes(x) = Brings(c, l[m]) /\ Alive(q, c, i, x, n - m)
        BY <3>3
      <4>2. (n + 1) - m \in Int /\ ((n + 1) - m) - 1 = n - m
        BY <2>1
      <4>3. Alive(q, c, i + 1, x, (n + 1) - m)
        BY <4>1, <4>2, AliveStep
      <4>4. QED
        BY <3>1, <4>1, <4>3
    <3>4. QED
      BY <1>1, <2>1, <3>2, <3>3 DEF Tracks
  <2>2. CASE m = n + 1
    <3>1. k[m] = o /\ (n + 1) - m = 0 /\ (n + 1) - m \in Int
      BY <1>3, <2>2
    <3>2. CASE Brings(c, o) = {}
      BY <3>1, <3>2 DEF Harmless
    <3>3. CASE Brings(c, o) = Writes(q[i + 1])
      <4>1. PICK z : z = q[i + 1]
        OBVIOUS
      <4>2. Alive(q, c, i + 1, z, (n + 1) - m)
        BY <3>1, <4>1, AliveStep
      <4>3. QED
        BY <3>1, <3>3, <4>1, <4>2
    <3>4. QED
      BY <3>2, <3>3
  <2>3. QED
    BY <2>1, <2>2
<1>5. QED
  BY <1>2, <1>3, <1>4 DEF Tracks

\* An instruction that is not counted, and no wait, is passed.
LEMMA TracksPass ==
  ASSUME NEW b, NEW q, NEW c \in Counters, NEW i \in Nat, NEW l, IsSeq(l), Tracks(b, q, c, i, l),
         ~Counts(q[i + 1], c),
         IsWait(q[i + 1], c) => q[i + 1].n \in Nat /\ Len(l) <= q[i + 1].n
  PROVE  Tracks(b, q, c, i + 1, l)
<1>1. PICK n \in Nat : n = Len(l)
  BY AppendParts
<1>2. ASSUME NEW m \in 1..n
      PROVE  \/ Harmless(b, c, l[m])
             \/ \E x : Writes(x) = Brings(c, l[m]) /\ Alive(q, c, i + 1, x, n - m)
  <2>1. CASE Harmless(b, c, l[m])
    BY <2>1
  <2>2. CASE \E x : Writes(x) = Brings(c, l[m]) /\ Alive(q, c, i, x, n - m)
    <3>1. PICK x : Writes(x) = Brings(c, l[m]) /\ Alive(q, c, i, x, n - m)
      BY <2>2
    <3>2. PICK a \in Nat : a = n - m /\ a < n
      BY <1>2
    <3>3. ASSUME IsWait(q[i + 1], c) PROVE ~(q[i + 1].n <= a)
      <4>1. PICK k \in Nat : k = q[i + 1].n /\ n <= k
        BY <1>1, <3>3
      <4>2. QED
        BY <3>2, <4>1
    <3>4. a \in Int /\ Alive(q, c, i, x, a)
      BY <3>1, <3>2
    <3>5. Alive(q, c, i + 1, x, a)
      BY <3>3, <3>4, AliveStep
    <3>6. QED
      BY <3>1, <3>2, <3>5
  <2>3. QED
    BY <1>1, <1>2, <2>1, <2>2 DEF Tracks
<1>3. QED
  BY <1>1, <1>2 DEF Tracks

\* The oldest operation lands.
LEMMA TracksTail ==
  ASSUME NEW b, NEW q, NEW c, NEW i, NEW l, IsSeq(l), Len(l) > 0, Tracks(b, q, c, i, l)
  PROVE  Tracks(b, q, c, i, Tail(l))
<1>1. PICK k : k = Tail(l)
  OBVIOUS
<1>2. PICK n \in Nat : n = Len(l)
  BY AppendParts
<1>3. Len(k) = n - 1 /\ \A m \in 1..n - 1 : k[m] = l[m + 1]
  BY <1>1, <1>2, TailParts
<1>4. ASSUME NEW m \in 1..(n - 1)
      PROVE  \/ Harmless(b, c, k[m])
             \/ \E x : Writes(x) = Brings(c, k[m]) /\ Alive(q, c, i, x, (n - 1) - m)
  <2>1. m + 1 \in 1..n /\ n - (m + 1) = (n - 1) - m
    BY <1>4
  <2>2. \/ Harmless(b, c, l[m + 1])
        \/ \E x : Writes(x) = Brings(c, l[m + 1]) /\ Alive(q, c, i, x, n - (m + 1))
    BY <1>2, <2>1 DEF Tracks
  <2>3. k[m] = l[m + 1]
    BY <1>3
  <2>4. QED
    BY <2>1, <2>2, <2>3
<1>5. QED
  BY <1>1, <1>3, <1>4 DEF Tracks

\* A block that is left leaves nothing outstanding that the next one has to know of.
LEMMA TracksLeave ==
  ASSUME NEW b, b # "store", NEW q, Quits(q), NEW c \in Counters, NEW l,
         Tracks(b, q, c, Len(q), l), NEW d, NEW p,
         c = "vm" \/ l = << >> \/ d = "store"
  PROVE  Tracks(d, p, c, 0, l)
<1> SUFFICES ASSUME NEW m \in 1..Len(l) PROVE Harmless(d, c, l[m])
  BY DEF Tracks
<1>1. CASE Harmless(b, c, l[m])
  BY <1>1 DEF Harmless
<1>2. CASE \E x : Writes(x) = Brings(c, l[m]) /\ Alive(q, c, Len(q), x, Len(l) - m)
  <2>1. PICK x : Writes(x) = Brings(c, l[m]) /\ Alive(q, c, Len(q), x, Len(l) - m)
    BY <1>2
  <2>2. c = "lgkm" /\ <<"temp">> \notin Writes(x)
    BY <2>1 DEF Quits, Counters
  <2>3. l # << >>
    <3>1. l = << >> => Len(l) = 0
      OBVIOUS
    <3>2. QED
      BY <3>1
  <2>4. d = "store"
    BY <2>2, <2>3
  <2>5. QED
    BY <2>1, <2>2, <2>4 DEF Harmless
<1>3. QED
  BY <1>1, <1>2 DEF Tracks

\* An instruction needs nothing that is outstanding.
LEMMA TracksSources ==
  ASSUME NEW b, NEW q, b = "store" => Plain(q), NEW c \in Counters, SoundIn(q, c),
         NEW i \in 1..Len(q), NEW l, Tracks(b, q, c, i - 1, l), NEW m \in 1..Len(l)
  PROVE  Brings(c, l[m]) \cap Sources(q[i]) = {}
<1>1. CASE Harmless(b, c, l[m])
  <2> SUFFICES ASSUME NEW r \in Brings(c, l[m]), r \in Sources(q[i]) PROVE FALSE
    OBVIOUS
  <2>1. b = "store" /\ r # <<"temp">>
    BY <1>1 DEF Harmless
  <2>2. Sources(q[i]) \subseteq {<<"temp">>}
    BY <2>1 DEF Plain
  <2>3. QED
    BY <2>1, <2>2
<1>2. CASE \E x : Writes(x) = Brings(c, l[m]) /\ Alive(q, c, i - 1, x, Len(l) - m)
  BY <1>2 DEF SoundIn
<1>3. QED
  BY <1>1, <1>2 DEF Tracks

-----------------------------------------------------------------------------
\* One wave's steps.

\* Wave w is in its block or at its end, and its outstanding operations are among those
\* that may be outstanding there.
OnTrack(w) ==
  /\ at[w].i \in 1..(Len(code[at[w].block]) + 1)
  /\ Tracks(at[w].block, code[at[w].block], "vm", at[w].i - 1, vm[w])
  /\ Tracks(at[w].block, code[at[w].block], "lgkm", at[w].i - 1, lgkm[w])

\* The inductive invariant, beside InStep.
Tracked ==
  /\ AllSound(code) /\ DOMAIN vm = Waves
  /\ \A w \in Waves : IsSeq(vm[w]) /\ (at[w].block # "end" => OnTrack(w))

\* What the invariant says of one wave.
LEMMA TrackedParts ==
  ASSUME InStep, Tracked, NEW w \in Waves, ~Ended(w)
  PROVE  /\ at[w].block \in WorkBlocks /\ Sound(code[at[w].block])
         /\ Waits(code[at[w].block]) /\ IsSeq(code[at[w].block])
         /\ Len(code[at[w].block]) \in Nat
         /\ at[w].block = "store" => Plain(code[at[w].block])
         /\ at[w].i \in 1..(Len(code[at[w].block]) + 1)
         /\ at[w].i - 1 \in Nat /\ (at[w].i - 1) + 1 = at[w].i /\ at[w].i \in Nat
         /\ OnTrack(w) /\ IsSeq(vm[w]) /\ IsSeq(lgkm[w])
<1>1. at[w].block \in WorkBlocks
  <2>1. at[w].block \in Names /\ at[w].block # "end"
    BY Here DEF Ended
  <2>2. QED
    BY <2>1 DEF Names, WorkBlocks
<1>2. Sound(code[at[w].block]) /\ (at[w].block = "store" => Plain(code[at[w].block]))
  BY <1>1 DEF Tracked, AllSound
<1>3. Waits(code[at[w].block]) /\ IsSeq(code[at[w].block]) /\ Len(code[at[w].block]) \in Nat
  BY <1>2, WaitsDomain DEF Sound, Waits
<1>4. OnTrack(w) /\ IsSeq(vm[w])
  BY DEF Tracked, Ended
<1>5. at[w].i \in 1..(Len(code[at[w].block]) + 1)
  BY <1>4 DEF OnTrack
<1>6. at[w].i - 1 \in Nat /\ (at[w].i - 1) + 1 = at[w].i /\ at[w].i \in Nat
  BY <1>3, <1>5
<1>7. IsSeq(lgkm[w])
  BY Here
<1>8. QED
  BY <1>1, <1>2, <1>3, <1>4, <1>5, <1>6, <1>7

\* The steps of one wave leave the others as they are.
LEMMA OneTracks ==
  ASSUME InStep, Tracked, NEW w \in Waves, UNCHANGED <<problem, code>>,
         DOMAIN vm' = Waves, IsSeq(vm'[w]),
         \A v \in Waves : v # w => at'[v] = at[v] /\ lgkm'[v] = lgkm[v] /\ vm'[v] = vm[v],
         at'[w].block # "end" => OnTrack(w)'
  PROVE  Tracked'
<1>1. Waves' = Waves
  BY DEF Waves, Spc
<1>2. ASSUME NEW v \in Waves, v # w
      PROVE  IsSeq(vm'[v]) /\ (at'[v].block # "end" => OnTrack(v)')
  <2>1. at'[v] = at[v] /\ lgkm'[v] = lgkm[v] /\ vm'[v] = vm[v] /\ code' = code
    BY <1>2
  <2>2. IsSeq(vm[v]) /\ (at[v].block # "end" => OnTrack(v))
    BY DEF Tracked
  <2>3. QED
    BY <2>1, <2>2 DEF OnTrack
<1>3. AllSound(code')
  BY DEF Tracked
<1>4. QED
  BY <1>1, <1>2, <1>3 DEF Tracked

\* A wave that steps is one instruction further.
LEMMA StepsOn ==
  ASSUME InStep, NEW w \in Waves, Step(w), NEW i \in Nat, at[w].i = i + 1
  PROVE  /\ at'[w].block = at[w].block /\ at'[w].i = (i + 1) + 1 /\ at'[w].i - 1 = i + 1
         /\ \A v \in Waves : v # w => at'[v] = at[v]
<1>1. /\ at'[w].block = at[w].block /\ at'[w].i = at[w].i + 1
      /\ \A v \in Waves : v # w => at'[v] = at[v]
  BY StepMoves
<1>2. PICK k : k = at'[w].i
  OBVIOUS
<1>3. k = (i + 1) + 1
  BY <1>1, <1>2
<1>4. k - 1 = i + 1
  BY <1>3
<1>5. QED
  BY <1>1, <1>2, <1>3, <1>4

\* An instruction no counter counts, a wait being over.
LEMMA PassTracks ==
  ASSUME InStep, Tracked, NEW w \in Waves, NEW op, Ready(w, op), Step(w),
         op \notin LdsOps \cup {"buffer_load"},
         op = "wait" => Len(Queue(w)) <= Ins(w).n,
         UNCHANGED <<problem, code, vm, lgkm>>
  PROVE  Tracked'
<1>1. ~Ended(w) /\ at[w].i <= Len(code[at[w].block]) /\ Ins(w).op = op
  BY DEF Ready
<1>2. PICK b : b = at[w].block
  OBVIOUS
<1>3. PICK q : q = code[b]
  OBVIOUS
<1>4. PICK i \in Nat : i = at[w].i - 1 /\ at[w].i = i + 1
  BY <1>1, TrackedParts
<1>5. Ins(w) = q[i + 1]
  BY <1>2, <1>3, <1>4 DEF Ins
<1>6. \A c \in Counters : ~Counts(q[i + 1], c)
  BY <1>1, <1>5 DEF Counts, Counters, LdsOps
<1>7. q[i + 1].op = "wait" => q[i + 1].n \in Nat
  <2>1. Waits(q) /\ i + 1 \in 1..Len(q)
    BY <1>1, <1>2, <1>3, <1>4, TrackedParts
  <2>2. QED
    BY <2>1, WaitsCount
<1>8. /\ IsSeq(vm[w]) /\ Tracks(b, q, "vm", i, vm[w])
      /\ IsSeq(lgkm[w]) /\ Tracks(b, q, "lgkm", i, lgkm[w])
  BY <1>1, <1>2, <1>3, <1>4, TrackedParts DEF OnTrack
<1>9. Tracks(b, q, "vm", i + 1, vm[w])
  <2>1. IsWait(q[i + 1], "vm") => q[i + 1].n \in Nat /\ Len(vm[w]) <= q[i + 1].n
    BY <1>1, <1>5, <1>7 DEF IsWait, Queue
  <2>2. QED
    BY <1>6, <1>8, <2>1, TracksPass DEF Counters
<1>10. Tracks(b, q, "lgkm", i + 1, lgkm[w])
  <2>1. IsWait(q[i + 1], "lgkm") => q[i + 1].n \in Nat /\ Len(lgkm[w]) <= q[i + 1].n
    BY <1>1, <1>5, <1>7 DEF IsWait, Queue
  <2>2. QED
    BY <1>6, <1>8, <2>1, TracksPass DEF Counters
<1>11. /\ at'[w].block = b /\ at'[w].i = (i + 1) + 1 /\ at'[w].i - 1 = i + 1
       /\ \A v \in Waves : v # w => at'[v] = at[v]
  BY <1>2, <1>4, StepsOn
<1>12. at'[w].i \in 1..(Len(q) + 1)
  BY <1>1, <1>2, <1>3, <1>4, <1>11, TrackedParts
<1>13. OnTrack(w)'
  BY <1>3, <1>9, <1>10, <1>11, <1>12 DEF OnTrack
<1>14. QED
  BY <1>8, <1>11, <1>13, OneTracks DEF Tracked

\* A load from global memory is issued.
LEMMA BufferLoadTracks ==
  ASSUME InStep, Tracked, NEW w \in Waves, BufferLoadStep(w)
  PROVE  Tracked'
<1>1. /\ Ready(w, "buffer_load") /\ Step(w) /\ UNCHANGED <<problem, code, lgkm>>
      /\ \E k : vm' = [vm EXCEPT ![w] = Append(@, [dst |-> Ins(w).dst, k |-> k])]
  BY DEF BufferLoadStep, kernel
<1>2. ~Ended(w) /\ at[w].i <= Len(code[at[w].block]) /\ Ins(w).op = "buffer_load"
  BY <1>1 DEF Ready
<1>3. PICK b : b = at[w].block
  OBVIOUS
<1>4. PICK q : q = code[b]
  OBVIOUS
<1>5. PICK i \in Nat : i = at[w].i - 1 /\ at[w].i = i + 1
  BY <1>2, TrackedParts
<1>6. Ins(w) = q[i + 1]
  BY <1>3, <1>4, <1>5 DEF Ins
<1>7. /\ Counts(q[i + 1], "vm") /\ ~Counts(q[i + 1], "lgkm") /\ ~IsWait(q[i + 1], "lgkm")
      /\ Writes(q[i + 1]) = {q[i + 1].dst}
  BY <1>2, <1>6 DEF Counts, IsWait, Writes
<1>8. /\ IsSeq(vm[w]) /\ Tracks(b, q, "vm", i, vm[w])
      /\ IsSeq(lgkm[w]) /\ Tracks(b, q, "lgkm", i, lgkm[w])
  BY <1>2, <1>3, <1>4, <1>5, TrackedParts DEF OnTrack
<1>9. PICK k : vm' = [vm EXCEPT ![w] = Append(@, [dst |-> Ins(w).dst, k |-> k])]
  BY <1>1
<1>10. PICK o : o = [dst |-> Ins(w).dst, k |-> k]
  OBVIOUS
<1>11. Brings("vm", o) = Writes(q[i + 1])
  BY <1>6, <1>7, <1>10 DEF Brings
<1>12. /\ DOMAIN vm' = Waves /\ vm'[w] = Append(vm[w], o)
       /\ \A v \in Waves : v # w => vm'[v] = vm[v]
  BY <1>9, <1>10 DEF Tracked
<1>13. IsSeq(vm'[w])
  BY <1>8, <1>12, AppendParts
<1>14. Tracks(b, q, "vm", i + 1, vm'[w])
  BY <1>7, <1>8, <1>11, <1>12, TracksIssue DEF Counters
<1>15. Tracks(b, q, "lgkm", i + 1, lgkm[w])
  BY <1>7, <1>8, TracksPass DEF Counters
<1>16. /\ at'[w].block = b /\ at'[w].i = (i + 1) + 1 /\ at'[w].i - 1 = i + 1
       /\ \A v \in Waves : v # w => at'[v] = at[v]
  BY <1>1, <1>3, <1>5, StepsOn
<1>17. at'[w].i \in 1..(Len(q) + 1)
  BY <1>2, <1>3, <1>4, <1>5, <1>16, TrackedParts
<1>18. OnTrack(w)'
  BY <1>1, <1>4, <1>14, <1>15, <1>16, <1>17 DEF OnTrack
<1>19. QED
  BY <1>1, <1>12, <1>13, <1>16, <1>18, OneTracks

\* An LDS operation is issued.
LEMMA LdsStepTracks ==
  ASSUME InStep, Tracked, NEW w \in Waves, LdsStep(w)
  PROVE  Tracked'
<1>1. /\ \E op \in LdsOps : Ready(w, op)
      /\ lgkm' = [lgkm EXCEPT ![w] = Append(@, Queued(w, Ins(w)))]
      /\ Step(w) /\ UNCHANGED <<problem, code, vm>>
  BY DEF LdsStep, kernel, LdsOps
<1>2. ~Ended(w) /\ at[w].i <= Len(code[at[w].block]) /\ Ins(w).op \in LdsOps
  BY <1>1 DEF Ready
<1>3. PICK b : b = at[w].block
  OBVIOUS
<1>4. PICK q : q = code[b]
  OBVIOUS
<1>5. PICK i \in Nat : i = at[w].i - 1 /\ at[w].i = i + 1
  BY <1>2, TrackedParts
<1>6. Ins(w) = q[i + 1]
  BY <1>3, <1>4, <1>5 DEF Ins
<1>7. Counts(q[i + 1], "lgkm") /\ ~Counts(q[i + 1], "vm") /\ ~IsWait(q[i + 1], "vm")
  BY <1>2, <1>6 DEF Counts, IsWait, LdsOps
<1>8. /\ IsSeq(vm[w]) /\ Tracks(b, q, "vm", i, vm[w])
      /\ IsSeq(lgkm[w]) /\ Tracks(b, q, "lgkm", i, lgkm[w])
  BY <1>2, <1>3, <1>4, <1>5, TrackedParts DEF OnTrack
<1>9. PICK o : o = Queued(w, Ins(w))
  OBVIOUS
<1>10. Brings("lgkm", o) = {} \/ Brings("lgkm", o) = Writes(q[i + 1])
  <2>1. PICK x : x = q[i + 1]
    OBVIOUS
  <2>2. CASE x.op = "ds_store"
    <3>1. PICK val : val = reg[w][x.src]
      OBVIOUS
    <3>2. PICK sl : sl = Slice(w, x.src[2])
      OBVIOUS
    <3>3. o = [op |-> x.op, src |-> x.src, buf |-> x.buf, value |-> val, slice |-> sl]
      BY <1>6, <1>9, <2>1, <2>2, <3>1, <3>2 DEF Queued
    <3>4. o.op = "ds_store"
      BY <2>2, <3>3
    <3>5. QED
      BY <3>4 DEF Brings, Writes
  <2>3. CASE x.op = "swap_out"
    <3>1. PICK val : val = acc[w][<<0, x.c>>]
      OBVIOUS
    <3>2. o = [op |-> x.op, c |-> x.c, value |-> val]
      BY <1>6, <1>9, <2>1, <2>3, <3>1 DEF Queued
    <3>3. o.op = "swap_out"
      BY <2>3, <3>2
    <3>4. QED
      BY <3>3 DEF Brings, Writes
  <2>4. CASE x.op \in {"ds_load", "swap_in"}
    <3>1. o = x
      BY <1>6, <1>9, <2>1, <2>4 DEF Queued
    <3>2. QED
      BY <2>1, <3>1 DEF Brings
  <2>5. QED
    BY <1>2, <1>6, <2>1, <2>2, <2>3, <2>4 DEF LdsOps
<1>11. /\ lgkm'[w] = Append(lgkm[w], o) /\ \A v \in Waves : v # w => lgkm'[v] = lgkm[v]
  BY <1>1, <1>9 DEF InStep
<1>12. Tracks(b, q, "lgkm", i + 1, lgkm'[w])
  BY <1>7, <1>8, <1>10, <1>11, TracksIssue DEF Counters
<1>13. Tracks(b, q, "vm", i + 1, vm[w])
  BY <1>7, <1>8, TracksPass DEF Counters
<1>14. /\ at'[w].block = b /\ at'[w].i = (i + 1) + 1 /\ at'[w].i - 1 = i + 1
       /\ \A v \in Waves : v # w => at'[v] = at[v]
  BY <1>1, <1>3, <1>5, StepsOn
<1>15. at'[w].i \in 1..(Len(q) + 1)
  BY <1>2, <1>3, <1>4, <1>5, <1>14, TrackedParts
<1>16. OnTrack(w)'
  BY <1>1, <1>4, <1>12, <1>13, <1>14, <1>15 DEF OnTrack
<1>17. QED
  BY <1>1, <1>8, <1>11, <1>14, <1>16, OneTracks DEF Tracked

\* What a wave waits for lands, the oldest first.
LEMMA LandsTracks ==
  ASSUME InStep, Tracked, NEW w \in Waves,
         BufferLoadLands(w) \/ \E op : LdsLands(w, op)
  PROVE  Tracked'
<1>1. /\ ~Ended(w) /\ UNCHANGED <<problem, code, at>>
      /\ \/ vm' = [vm EXCEPT ![w] = Tail(@)] /\ vm[w] # << >> /\ UNCHANGED lgkm
         \/ lgkm' = [lgkm EXCEPT ![w] = Tail(@)] /\ lgkm[w] # << >> /\ UNCHANGED vm
  BY DEF BufferLoadLands, LdsLands, Lands, kernel
<1>2. PICK b : b = at[w].block
  OBVIOUS
<1>3. PICK q : q = code[b]
  OBVIOUS
<1>4. PICK i : i = at[w].i - 1
  OBVIOUS
<1>5. /\ IsSeq(vm[w]) /\ Tracks(b, q, "vm", i, vm[w])
      /\ IsSeq(lgkm[w]) /\ Tracks(b, q, "lgkm", i, lgkm[w])
      /\ at[w].i \in 1..(Len(q) + 1)
  BY <1>1, <1>2, <1>3, <1>4, TrackedParts DEF OnTrack
<1>6. DOMAIN vm = Waves /\ DOMAIN lgkm = Waves
  BY DEF Tracked, InStep
<1>7. /\ DOMAIN vm' = Waves /\ IsSeq(vm'[w]) /\ Tracks(b, q, "vm", i, vm'[w])
      /\ Tracks(b, q, "lgkm", i, lgkm'[w])
      /\ \A v \in Waves : v # w => vm'[v] = vm[v] /\ lgkm'[v] = lgkm[v]
  <2>1. CASE vm' = [vm EXCEPT ![w] = Tail(@)] /\ vm[w] # << >> /\ UNCHANGED lgkm
    <3>1. Len(vm[w]) > 0
      BY <1>5, <2>1, EmptyOrNot
    <3>2. DOMAIN vm' = Waves /\ vm'[w] = Tail(vm[w]) /\ \A v \in Waves : v # w => vm'[v] = vm[v]
      BY <1>6, <2>1
    <3>3. IsSeq(vm'[w]) /\ Tracks(b, q, "vm", i, vm'[w])
      BY <1>5, <3>1, <3>2, TailParts, TracksTail
    <3>4. QED
      BY <1>5, <2>1, <3>2, <3>3
  <2>2. CASE lgkm' = [lgkm EXCEPT ![w] = Tail(@)] /\ lgkm[w] # << >> /\ UNCHANGED vm
    <3>1. Len(lgkm[w]) > 0
      BY <1>5, <2>2, EmptyOrNot
    <3>2. lgkm'[w] = Tail(lgkm[w]) /\ \A v \in Waves : v # w => lgkm'[v] = lgkm[v]
      BY <1>6, <2>2
    <3>3. Tracks(b, q, "lgkm", i, lgkm'[w])
      BY <1>5, <3>1, <3>2, TracksTail
    <3>4. QED
      BY <1>5, <1>6, <2>2, <3>2, <3>3
  <2>3. QED
    BY <1>1, <2>1, <2>2
<1>8. OnTrack(w)'
  BY <1>1, <1>2, <1>3, <1>4, <1>5, <1>7 DEF OnTrack
<1>9. QED
  BY <1>1, <1>7, <1>8, OneTracks

\* A wave leaves a block.
LEMMA BranchTracks ==
  ASSUME InStep, Tracked, NEW w \in Waves, BranchStep(w)
  PROVE  Tracked'
<1>1. /\ ~Ended(w) /\ at[w].i > Len(code[at[w].block])
      /\ at' = [at EXCEPT ![w] = [block |-> Successor(at[w].block, More(kIter[w])), i |-> 1]]
      /\ UNCHANGED <<problem, code, vm, lgkm>>
  BY DEF BranchStep, kernel, More
<1>2. PICK b : b = at[w].block
  OBVIOUS
<1>3. PICK q : q = code[b]
  OBVIOUS
<1>4. PICK d : d = Successor(b, More(kIter[w]))
  OBVIOUS
<1>5. /\ b \in WorkBlocks /\ Sound(q) /\ Len(q) \in Nat
      /\ at[w].i \in 1..(Len(q) + 1) /\ OnTrack(w) /\ IsSeq(vm[w]) /\ IsSeq(lgkm[w])
  BY <1>1, <1>2, <1>3, TrackedParts
<1>6. at[w].i - 1 = Len(q)
  BY <1>1, <1>2, <1>3, <1>5
<1>7. Tracks(b, q, "vm", Len(q), vm[w]) /\ Tracks(b, q, "lgkm", Len(q), lgkm[w])
  BY <1>2, <1>3, <1>5, <1>6 DEF OnTrack
<1>8. at'[w] = [block |-> d, i |-> 1] /\ \A v \in Waves : v # w => at'[v] = at[v]
  BY <1>1, <1>2, <1>4 DEF InStep
<1>9. at'[w].block = d /\ at'[w].i = 1 /\ 1 - 1 = 0
  BY <1>8
<1>10. ASSUME d # "end" PROVE OnTrack(w)'
  <2>1. b # "store"
    BY <1>4, <1>10, Successors
  <2>2. d = "store" \/ lgkm[w] = << >>
    <3>1. CASE b \in Epilogs
      BY <1>4, <3>1, Successors
    <3>2. CASE b \in Main
      <4>1. PICK n \in Main \cup Epilogs : \E K : Placed(w, n, K)
        BY DEF InStep
      <4>2. PICK K : Placed(w, n, K)
        BY <4>1
      <4>3. ~Inside(w, n, K)
        <5> SUFFICES ASSUME Inside(w, n, K) PROVE FALSE
          OBVIOUS
        <5>1. n = b /\ at[w].i \in 1..(Len(q) - 1)
          BY <1>2, <1>3 DEF Inside
        <5>2. QED
          BY <1>5, <1>6, <5>1
      <4>4. ~Leaving(w, n)
        BY <1>2, <3>2 DEF Leaving, Main, Epilogs
      <4>5. Coming(w, n, K)
        BY <4>2, <4>3, <4>4 DEF Placed
      <4>6. QED
        BY <4>5 DEF Coming
    <3>3. QED
      BY <1>5, <2>1, <3>1, <3>2 DEF WorkBlocks
  <2>3. Quits(q)
    BY <1>5 DEF Sound
  <2>4. PICK p : p = code[d]
    OBVIOUS
  <2>5. Tracks(d, p, "vm", 0, vm[w])
    BY <1>7, <2>1, <2>3, TracksLeave DEF Counters
  <2>6. Tracks(d, p, "lgkm", 0, lgkm[w])
    BY <1>7, <2>1, <2>2, <2>3, TracksLeave DEF Counters
  <2>7. Len(p) \in Nat
    <3>1. d \in Names \ {"end"}
      BY <1>4, <1>5, <1>10, Successors DEF Names, WorkBlocks
    <3>2. d \in WorkBlocks
      BY <3>1 DEF Names, WorkBlocks
    <3>3. Sound(p)
      BY <2>4, <3>2 DEF Tracked, AllSound
    <3>4. QED
      BY <3>3, WaitsDomain DEF Sound, Waits
  <2>8. 1 \in 1..(Len(p) + 1)
    BY <2>7
  <2>9. QED
    BY <1>1, <1>9, <2>4, <2>5, <2>6, <2>8 DEF OnTrack
<1>11. QED
  BY <1>1, <1>5, <1>8, <1>9, <1>10, OneTracks DEF Tracked

-----------------------------------------------------------------------------
\* Every step, and the theorem.

\* A step after which every wave is where it was, with the same outstanding.
LEMMA StillTracks ==
  ASSUME Tracked, UNCHANGED <<problem, code, at, vm, lgkm>>
  PROVE  Tracked'
<1>1. Waves' = Waves
  BY DEF Waves, Spc
<1>2. ASSUME NEW w \in Waves PROVE IsSeq(vm'[w]) /\ (at'[w].block # "end" => OnTrack(w)')
  <2>1. IsSeq(vm[w]) /\ (at[w].block # "end" => OnTrack(w))
    BY DEF Tracked
  <2>2. QED
    BY <2>1 DEF OnTrack
<1>3. QED
  BY <1>1, <1>2 DEF Tracked

\* The barrier opens.
LEMMA OpensTracks ==
  ASSUME InStep, Tracked, BarrierOpens
  PROVE  Tracked'
<1>1. /\ at' = [w \in Waves |-> IF w \in arrived THEN [at[w] EXCEPT !.i = @ + 1] ELSE at[w]]
      /\ UNCHANGED <<problem, code, vm, lgkm>>
  BY DEF BarrierOpens, kernel
<1>2. Waves' = Waves
  BY <1>1 DEF Waves, Spc
<1>3. ASSUME NEW w \in Waves, at'[w].block # "end" PROVE OnTrack(w)'
  <2>1. CASE w \notin arrived
    <3>1. at'[w] = at[w]
      BY <1>1, <2>1
    <3>2. OnTrack(w)
      BY <1>3, <3>1 DEF Tracked
    <3>3. QED
      BY <1>1, <3>1, <3>2 DEF OnTrack
  <2>2. CASE w \in arrived
    <3>1. at[w].block \in Main /\ at[w].i = Len(code[at[w].block]) - 1
      BY <2>2 DEF InStep
    <3>2. PICK b \in Main : b = at[w].block
      BY <3>1
    <3>3. PICK q : q = code[b]
      OBVIOUS
    <3>4. ~Ended(w)
      BY <3>1 DEF Ended, Main
    <3>5. PICK i \in Nat : i = at[w].i - 1 /\ at[w].i = i + 1
      BY <3>4, TrackedParts
    <3>6. q[i + 1].op = "barrier" /\ Len(q) \in Nat
      <4>1. Len(q) \in Nat /\ q[Len(q) - 1].op = "barrier"
        BY <3>2, <3>3, Here, OrderedParts
      <4>2. i + 1 = Len(q) - 1
        BY <3>1, <3>2, <3>3, <3>5
      <4>3. QED
        BY <4>1, <4>2
    <3>7. \A c \in Counters : ~Counts(q[i + 1], c) /\ ~IsWait(q[i + 1], c)
      BY <3>6 DEF Counts, Counters, IsWait
    <3>8. /\ IsSeq(vm[w]) /\ Tracks(b, q, "vm", i, vm[w])
          /\ IsSeq(lgkm[w]) /\ Tracks(b, q, "lgkm", i, lgkm[w])
      BY <3>2, <3>3, <3>4, <3>5, TrackedParts DEF OnTrack
    <3>9. Tracks(b, q, "vm", i + 1, vm[w]) /\ Tracks(b, q, "lgkm", i + 1, lgkm[w])
      BY <3>7, <3>8, TracksPass DEF Counters
    <3>10. PICK r : r = at[w]
      OBVIOUS
    <3>11. r = [block |-> r.block, i |-> r.i]
      BY <3>10, Here
    <3>12. at'[w] = [r EXCEPT !.i = @ + 1]
      BY <1>1, <2>2, <3>10
    <3>13. at'[w].block = b /\ at'[w].i = (i + 1) + 1
      BY <3>2, <3>5, <3>10, <3>11, <3>12
    <3>14. PICK k : k = at'[w].i
      OBVIOUS
    <3>15. k = (i + 1) + 1
      BY <3>13, <3>14
    <3>16. k - 1 = i + 1
      BY <3>15
    <3>17. k \in 1..(Len(q) + 1)
      BY <3>1, <3>2, <3>3, <3>5, <3>6, <3>15
    <3>18. QED
      BY <1>1, <3>3, <3>9, <3>13, <3>14, <3>16, <3>17 DEF OnTrack
  <2>3. QED
    BY <2>1, <2>2
<1>4. QED
  BY <1>1, <1>2, <1>3 DEF Tracked

\* Every step keeps track.
LEMMA NextTracks ==
  ASSUME InStep, Tracked, [Next]_vars
  PROVE  Tracked'
<1>1. ASSUME NEW w \in Waves, WaitStep(w) PROVE Tracked'
  <2>1. /\ Ready(w, "wait") /\ Step(w) /\ Len(Queue(w)) <= Ins(w).n
        /\ UNCHANGED <<problem, code, vm, lgkm>>
    BY <1>1 DEF WaitStep, kernel
  <2>2. "wait" \notin LdsOps \cup {"buffer_load"}
    BY DEF LdsOps
  <2>3. QED
    BY <2>1, <2>2, PassTracks
<1>2. ASSUME NEW w \in Waves, WmmaStep(w) \/ MoveTempStep(w) \/ YStoreStep(w) \/ AdvanceStep(w)
      PROVE  Tracked'
  <2>1. \E op \in {"wmma", "move_temp", "y_store", "advance"} :
          Ready(w, op) /\ Step(w) /\ UNCHANGED <<problem, code, vm, lgkm>>
    BY <1>2 DEF WmmaStep, MoveTempStep, YStoreStep, AdvanceStep, kernel
  <2>2. PICK op \in {"wmma", "move_temp", "y_store", "advance"} :
          Ready(w, op) /\ Step(w) /\ UNCHANGED <<problem, code, vm, lgkm>>
    BY <2>1
  <2>3. op \notin LdsOps \cup {"buffer_load"} /\ op # "wait"
    BY DEF LdsOps
  <2>4. QED
    BY <2>2, <2>3, PassTracks
<1>3. ASSUME NEW w \in Waves,
             DsStoreLands(w) \/ DsLoadLands(w) \/ SwapOutLands(w) \/ SwapInLands(w)
      PROVE  Tracked'
  <2>1. \E op : LdsLands(w, op)
    BY <1>3 DEF DsStoreLands, DsLoadLands, SwapOutLands, SwapInLands
  <2>2. QED
    BY <2>1, LandsTracks
<1>4. ASSUME NEW w \in Waves, BarrierStep(w) PROVE Tracked'
  <2>1. UNCHANGED <<problem, code, at, vm, lgkm>>
    BY <1>4 DEF BarrierStep, kernel
  <2>2. QED
    BY <2>1, StillTracks
<1>5. CASE AllEnded \/ UNCHANGED vars
  <2>1. UNCHANGED <<problem, code, at, vm, lgkm>>
    BY <1>5 DEF AllEnded, vars
  <2>2. QED
    BY <2>1, StillTracks
<1>6. ASSUME NEW w \in Waves, BufferLoadLands(w) PROVE Tracked'
  BY <1>6, LandsTracks
<1>7. QED
  BY <1>1, <1>2, <1>3, <1>4, <1>5, <1>6, BufferLoadTracks, LdsStepTracks,
     BranchTracks, OpensTracks DEF Next, WaveStep

\* At the start nothing is outstanding.
LEMMA InitTracked ==
  ASSUME \A p \in Problems : Staged(p.spec), Init
  PROVE  Tracked
<1>1. /\ problem \in Problems /\ code \in Compiled(Spc)
      /\ at = [w \in Waves |-> AtStart]
      /\ vm = [w \in Waves |-> << >>] /\ lgkm = [w \in Waves |-> << >>]
  BY DEF Init
<1>2. AllSound(code)
  <2>1. Sized(Spc) /\ Staged(Spc)
    BY <1>1, ProblemsSized DEF Spc
  <2>2. QED
    BY <1>1, <2>1, CompiledSound
<1>3. ASSUME NEW w \in Waves PROVE IsSeq(vm[w]) /\ OnTrack(w)
  <2>1. /\ at[w].block = "prologue" /\ at[w].i = 1 /\ 1 - 1 = 0
        /\ vm[w] = << >> /\ lgkm[w] = << >>
    BY <1>1 DEF AtStart
  <2>2. PICK e : e = << >>
    OBVIOUS
  <2>3. e \in Seq({}) /\ Len(e) = 0
    BY <2>2
  <2>4. IsSeq(e)
    BY <2>3 DEF IsSeq
  <2>5. \A c : Tracks("prologue", code["prologue"], c, 0, e)
    BY <2>3 DEF Tracks
  <2>6. Len(code["prologue"]) \in Nat
    BY <1>2, WaitsDomain DEF AllSound, Sound, Waits, WorkBlocks, Main
  <2>7. 1 \in 1..(Len(code["prologue"]) + 1)
    BY <2>6
  <2>8. QED
    BY <2>1, <2>2, <2>4, <2>5, <2>7 DEF OnTrack
<1>4. QED
  BY <1>1, <1>2, <1>3 DEF Tracked

\* What is outstanding is not needed.
LEMMA OperandsHere ==
  ASSUME InStep, Tracked
  PROVE  OperandsArrived
<1> SUFFICES ASSUME NEW w \in Waves, ~Ended(w), at[w].i <= Len(code[at[w].block]),
                    NEW r \in Pending(w), r \in Sources(Ins(w))
             PROVE  FALSE
  BY DEF OperandsArrived
<1>1. PICK b : b = at[w].block
  OBVIOUS
<1>2. PICK q : q = code[b]
  OBVIOUS
<1>3. PICK i : i = at[w].i
  OBVIOUS
<1>4. /\ Sound(q) /\ (b = "store" => Plain(q)) /\ Len(q) \in Nat
      /\ i \in 1..(Len(q) + 1) /\ i <= Len(q)
      /\ Tracks(b, q, "vm", i - 1, vm[w]) /\ Tracks(b, q, "lgkm", i - 1, lgkm[w])
      /\ IsSeq(vm[w]) /\ IsSeq(lgkm[w])
  BY <1>1, <1>2, <1>3, TrackedParts DEF OnTrack
<1>5. i \in 1..Len(q) /\ Ins(w) = q[i]
  BY <1>1, <1>2, <1>3, <1>4 DEF Ins
<1>6. SoundIn(q, "vm") /\ SoundIn(q, "lgkm")
  BY <1>4 DEF Sound, Counters
<1>7. /\ \A m \in 1..Len(vm[w]) : Brings("vm", vm[w][m]) \cap Sources(q[i]) = {}
      /\ \A m \in 1..Len(lgkm[w]) : Brings("lgkm", lgkm[w][m]) \cap Sources(q[i]) = {}
  BY <1>4, <1>5, <1>6, TracksSources DEF Counters
<1>8. DOMAIN vm[w] = 1..Len(vm[w]) /\ DOMAIN lgkm[w] = 1..Len(lgkm[w])
  BY <1>4, WaitsDomain
<1>9. CASE \E m \in DOMAIN vm[w] : r = vm[w][m].dst
  <2>1. PICK m \in 1..Len(vm[w]) : r = vm[w][m].dst
    BY <1>8, <1>9
  <2>2. r \in Brings("vm", vm[w][m])
    BY <2>1 DEF Brings
  <2>3. QED
    BY <1>5, <1>7, <2>2
<1>10. CASE \E m \in DOMAIN lgkm[w] : /\ lgkm[w][m].op \in {"ds_load", "swap_in"}
                                      /\ r = IF lgkm[w][m].op = "ds_load" THEN lgkm[w][m].dst
                                             ELSE <<"temp">>
  <2>1. PICK m \in 1..Len(lgkm[w]) : /\ lgkm[w][m].op \in {"ds_load", "swap_in"}
                                     /\ r = IF lgkm[w][m].op = "ds_load" THEN lgkm[w][m].dst
                                            ELSE <<"temp">>
    BY <1>8, <1>10
  <2>2. r \in Brings("lgkm", lgkm[w][m])
    BY <2>1 DEF Brings, Writes
  <2>3. QED
    BY <1>5, <1>7, <2>2
<1>11. QED
  BY <1>9, <1>10 DEF Pending

\* No instruction of a kernel of lower_gemm or gemm_gen reads a register a load has yet to
\* write, whatever the tile and problem sizes and the number of waves, with the waits as
\* optimize_waitcnt_mach_func and the emitter leave them, and in whatever order each
\* wave's operations land: OperandsArrived.  Left out are the streaming kernels of more
\* than one step to a tile, of which it is not true.
THEOREM OperandsAlwaysArrive ==
  ASSUME \A p \in Problems : Staged(p.spec)
  PROVE  Spec => []OperandsArrived
<1>1. Init => InStep /\ Tracked
  BY InitInStep, InitTracked
<1>2. InStep /\ Tracked /\ [Next]_vars => InStep' /\ Tracked'
  BY NextInStep, NextTracks
<1>3. InStep /\ Tracked => OperandsArrived
  BY OperandsHere
<1>4. QED
  BY <1>1, <1>2, <1>3, PTL DEF Spec

-----------------------------------------------------------------------------
(* Where things are: the addresses in shared memory, and in Y.             *)

\* The exchange moves a chunk within its eight, and only the place of a row among
\* eight matters for it.
LEMMA XorNear ==
  ASSUME NEW a \in Nat, NEW b \in Nat
  PROVE  XorLow(a, b) \in (a - (a % 8))..(a - (a % 8) + 7)
BY DEF XorLow

Shifted(o, a, d) == o = a + d /\ d % 8 = 0
LEMMA XorShift ==
  ASSUME NEW a \in Nat, NEW b \in Nat, NEW c \in Nat, NEW d \in Nat, NEW o, Shifted(o, a, d),
         b % 8 = c % 8
  PROVE  XorLow(o, c) = XorLow(a, b) + d
<1> USE DEF Shifted
<1>1. PICK e \in Nat : d = 8 * e
  BY SMT
<1>2. PICK f \in Nat, g \in Nat, r \in 0..7 : b = 8 * f + r /\ c = 8 * g + r
  <2>1. b \div 8 \in Nat /\ c \div 8 \in Nat /\ b % 8 \in 0..7
    OBVIOUS
  <2>2. b = 8 * (b \div 8) + (b % 8) /\ c = 8 * (c \div 8) + (b % 8)
    OBVIOUS
  <2>3. QED
    BY <2>1, <2>2
<1>3. PICK h \in Nat, x \in 0..7 : a = 8 * h + x
  <2>1. a \div 8 \in Nat /\ a % 8 \in 0..7 /\ a = 8 * (a \div 8) + (a % 8)
    OBVIOUS
  <2>2. QED
    BY <2>1
<1>4. o % 8 = x /\ a % 8 = x
  BY <1>1, <1>3
<1>5. (o + c) % 2 = (a + b) % 2
  BY <1>1, <1>2, <1>3
<1>6. ((o \div 2) + (c \div 2)) % 2 = ((a \div 2) + (b \div 2)) % 2
  <2>1. o \div 2 = 4 * h + 4 * e + (x \div 2) /\ a \div 2 = 4 * h + (x \div 2)
    BY <1>1, <1>3
  <2>2. b \div 2 = 4 * f + (r \div 2) /\ c \div 2 = 4 * g + (r \div 2)
    BY <1>2
  <2>3. QED
    BY <2>1, <2>2
<1>7. ((o \div 4) + (c \div 4)) % 2 = ((a \div 4) + (b \div 4)) % 2
  <2>1. o \div 4 = 2 * h + 2 * e + (x \div 4) /\ a \div 4 = 2 * h + (x \div 4)
    BY <1>1, <1>3
  <2>2. b \div 4 = 2 * f + (r \div 4) /\ c \div 4 = 2 * g + (r \div 4)
    BY <1>2
  <2>3. QED
    BY <2>1, <2>2
<1>8. QED
  BY <1>4, <1>5, <1>6, <1>7 DEF XorLow

\* A number by its last three bits.
Bit == {0, 1}
Flip(x, m) == (x + m) % 2
Octal(h, z, m, x) == 8 * h + 4 * z + 2 * m + x

Digits(h, z, m, x) == h \in Nat /\ z \in Bit /\ m \in Bit /\ x \in Bit

LEMMA Bits ==
  ASSUME NEW t \in Nat
  PROVE  \E h \in Nat, x, m, z \in Bit : t = Octal(h, z, m, x)
<1>1. t = 8 * (t \div 8) + 4 * ((t \div 4) % 2) + 2 * ((t \div 2) % 2) + (t % 2)
  OBVIOUS
<1>2. t \div 8 \in Nat /\ (t \div 4) % 2 \in Bit /\ (t \div 2) % 2 \in Bit /\ t % 2 \in Bit
  BY DEF Bit
<1>3. QED
  BY <1>1, <1>2 DEF Octal

LEMMA OctalRest ==
  ASSUME NEW h \in Nat, NEW x \in Bit, NEW m \in Bit, NEW z \in Bit
  PROVE  Octal(h, z, m, x) \in Nat /\ Octal(h, z, m, x) % 8 = 4 * z + 2 * m + x
<1>1. Octal(h, z, m, x) \in Nat
  BY DEF Octal, Bit
<1>2. Octal(h, z, m, x) % 8 = 4 * z + 2 * m + x
  BY DEF Octal, Bit
<1>3. QED
  BY <1>1, <1>2

LEMMA OctalHalf ==
  ASSUME NEW h \in Nat, NEW x \in Bit, NEW m \in Bit, NEW z \in Bit
  PROVE  Octal(h, z, m, x) \div 2 = 4 * h + 2 * z + m
BY DEF Octal, Bit

LEMMA OctalQuarter ==
  ASSUME NEW h \in Nat, NEW x \in Bit, NEW m \in Bit, NEW z \in Bit
  PROVE  Octal(h, z, m, x) \div 4 = 2 * h + z
BY DEF Octal, Bit

\* Adding what is even does not change which bit it is.
LEMMA Even ==
  ASSUME NEW e \in Nat, NEW x \in Bit, NEW m \in Bit
  PROVE  (2 * e + (x + m)) % 2 = Flip(x, m) /\ Flip(x, m) \in Bit
BY DEF Bit, Flip

\* The exchange, bit by bit.
LEMMA XorBits ==
  ASSUME NEW h, NEW x, NEW m, NEW z, Digits(h, z, m, x), NEW f, NEW i, NEW j, NEW k, Digits(f, k, j, i)
  PROVE  XorLow(Octal(h, z, m, x), Octal(f, k, j, i))
           = Octal(h, Flip(z, k), Flip(m, j), Flip(x, i))
<1> USE DEF Digits
<1>a. PICK a, b : a = Octal(h, z, m, x) /\ b = Octal(f, k, j, i)
  OBVIOUS
<1>0. a = 8 * h + 4 * z + 2 * m + x /\ b = 8 * f + 4 * k + 2 * j + i
  BY <1>a DEF Octal
<1>1. a \in Nat /\ a % 8 = 4 * z + 2 * m + x
  BY <1>a, OctalRest
<1>2. (a + b) % 2 = Flip(x, i)
  <2>1. PICK e \in Nat : e = 4 * h + 2 * z + m + 4 * f + 2 * k + j
    BY DEF Bit
  <2>2. a + b = 2 * e + (x + i)
    BY <1>0, <2>1 DEF Bit
  <2>3. QED
    BY <2>2, Even
<1>3. ((a \div 2) + (b \div 2)) % 2 = Flip(m, j)
  <2>1. a \div 2 = 4 * h + 2 * z + m /\ b \div 2 = 4 * f + 2 * k + j
    BY <1>a, OctalHalf
  <2>2. PICK e \in Nat : e = 2 * h + z + 2 * f + k
    BY DEF Bit
  <2>3. (a \div 2) + (b \div 2) = 2 * e + (m + j)
    BY <2>1, <2>2 DEF Bit
  <2>4. QED
    BY <2>3, Even
<1>4. ((a \div 4) + (b \div 4)) % 2 = Flip(z, k)
  <2>1. a \div 4 = 2 * h + z /\ b \div 4 = 2 * f + k
    BY <1>a, OctalQuarter
  <2>2. PICK e \in Nat : e = h + f
    OBVIOUS
  <2>3. (a \div 4) + (b \div 4) = 2 * e + (z + k)
    BY <2>1, <2>2 DEF Bit
  <2>4. QED
    BY <2>3, Even
<1>5. PICK u \in Bit, v \in Bit, w \in Bit : u = Flip(x, i) /\ v = Flip(m, j) /\ w = Flip(z, k)
  BY Even
<1>6. a - (a % 8) = 8 * h
  <2>1. PICK r \in Nat : r = 4 * z + 2 * m + x
    BY DEF Bit
  <2>2. a = 8 * h + r
    BY <1>0, <2>1 DEF Bit
  <2>3. a % 8 = r
    BY <1>1, <2>1
  <2>4. QED
    BY <2>2, <2>3
<1>7. XorLow(a, b) = 8 * h + u + 2 * v + 4 * w
  <2>1. XorLow(a, b) = (a - (a % 8)) + u + 2 * v + 4 * w
    BY <1>2, <1>3, <1>4, <1>5 DEF XorLow
  <2>2. QED
    BY <1>6, <2>1
<1>8. QED
  BY <1>a, <1>5, <1>7 DEF Octal, Bit

\* Whichever power of two of chunks a row has, a chunk is exchanged to every place.
Exchanges(h, C, r, q, p) ==
  \E w, v, u \in Bit : XorLow(Octal(h, w, v, u), Octal(h, w, v, u) \div C) = Octal(h, r, q, p)
LEMMA AllExchanges ==
  ASSUME NEW h \in Nat, NEW p \in Bit, NEW q \in Bit, NEW r \in Bit
  PROVE  /\ Exchanges(h, 2, r, q, p) /\ Exchanges(h, 4, r, q, p) /\ Exchanges(h, 8, r, q, p)
         /\ Exchanges(h, 16, r, q, p) /\ Exchanges(h, 32, r, q, p)
<1>1. PICK f \in Nat, i, j, k \in Bit : h = Octal(f, k, j, i)
  BY Bits
<1>2. PICK g \in Nat, l, o, s \in Bit : f = Octal(g, s, o, l)
  BY Bits
<1>3. Exchanges(h, 2, r, q, p)
  <2>1. PICK w \in Bit : Flip(w, i) = r
    BY DEF Bit, Flip
  <2>2. PICK v \in Bit : Flip(v, w) = q
    BY DEF Bit, Flip
  <2>3. PICK u \in Bit : Flip(u, v) = p
    BY DEF Bit, Flip
  <2>4. PICK e \in Nat : e = 4 * f + 2 * k + j
    BY DEF Bit
  <2>5. Octal(h, w, v, u) \div 2 = Octal(e, i, w, v)
    BY <1>1, <2>4 DEF Octal, Bit
  <2>6. XorLow(Octal(h, w, v, u), Octal(e, i, w, v))
          = Octal(h, Flip(w, i), Flip(v, w), Flip(u, v))
    <3>1. Digits(h, w, v, u) /\ Digits(e, i, w, v)
      BY DEF Digits
    <3>2. QED
      BY <3>1, XorBits
  <2>7. QED
    BY <2>1, <2>2, <2>3, <2>5, <2>6 DEF Exchanges
<1>4. Exchanges(h, 4, r, q, p)
  <2>1. PICK w \in Bit : Flip(w, j) = r
    BY DEF Bit, Flip
  <2>2. PICK v \in Bit : Flip(v, i) = q
    BY DEF Bit, Flip
  <2>3. PICK u \in Bit : Flip(u, w) = p
    BY DEF Bit, Flip
  <2>4. PICK e \in Nat : e = 2 * f + k
    BY DEF Bit
  <2>5. Octal(h, w, v, u) \div 4 = Octal(e, j, i, w)
    BY <1>1, <2>4 DEF Octal, Bit
  <2>6. XorLow(Octal(h, w, v, u), Octal(e, j, i, w))
          = Octal(h, Flip(w, j), Flip(v, i), Flip(u, w))
    <3>1. Digits(h, w, v, u) /\ Digits(e, j, i, w)
      BY DEF Digits
    <3>2. QED
      BY <3>1, XorBits
  <2>7. QED
    BY <2>1, <2>2, <2>3, <2>5, <2>6 DEF Exchanges
<1>5. Exchanges(h, 8, r, q, p)
  <2>1. PICK w \in Bit : Flip(w, k) = r
    BY DEF Bit, Flip
  <2>2. PICK v \in Bit : Flip(v, j) = q
    BY DEF Bit, Flip
  <2>3. PICK u \in Bit : Flip(u, i) = p
    BY DEF Bit, Flip
  <2>4. PICK e \in Nat : e = f
    BY DEF Bit
  <2>5. Octal(h, w, v, u) \div 8 = Octal(e, k, j, i)
    BY <1>1, <2>4 DEF Octal, Bit
  <2>6. XorLow(Octal(h, w, v, u), Octal(e, k, j, i))
          = Octal(h, Flip(w, k), Flip(v, j), Flip(u, i))
    <3>1. Digits(h, w, v, u) /\ Digits(e, k, j, i)
      BY DEF Digits
    <3>2. QED
      BY <3>1, XorBits
  <2>7. QED
    BY <2>1, <2>2, <2>3, <2>5, <2>6 DEF Exchanges
<1>6. Exchanges(h, 16, r, q, p)
  <2>1. PICK w \in Bit : Flip(w, l) = r
    BY DEF Bit, Flip
  <2>2. PICK v \in Bit : Flip(v, k) = q
    BY DEF Bit, Flip
  <2>3. PICK u \in Bit : Flip(u, j) = p
    BY DEF Bit, Flip
  <2>4. PICK e \in Nat : e = 4 * g + 2 * s + o
    BY DEF Bit
  <2>5. Octal(h, w, v, u) \div 16 = Octal(e, l, k, j)
    BY <1>1, <1>2, <2>4 DEF Octal, Bit
  <2>6. XorLow(Octal(h, w, v, u), Octal(e, l, k, j))
          = Octal(h, Flip(w, l), Flip(v, k), Flip(u, j))
    <3>1. Digits(h, w, v, u) /\ Digits(e, l, k, j)
      BY DEF Digits
    <3>2. QED
      BY <3>1, XorBits
  <2>7. QED
    BY <2>1, <2>2, <2>3, <2>5, <2>6 DEF Exchanges
<1>7. Exchanges(h, 32, r, q, p)
  <2>1. PICK w \in Bit : Flip(w, o) = r
    BY DEF Bit, Flip
  <2>2. PICK v \in Bit : Flip(v, l) = q
    BY DEF Bit, Flip
  <2>3. PICK u \in Bit : Flip(u, k) = p
    BY DEF Bit, Flip
  <2>4. PICK e \in Nat : e = 2 * g + s
    BY DEF Bit
  <2>5. Octal(h, w, v, u) \div 32 = Octal(e, o, l, k)
    BY <1>1, <1>2, <2>4 DEF Octal, Bit
  <2>6. XorLow(Octal(h, w, v, u), Octal(e, o, l, k))
          = Octal(h, Flip(w, o), Flip(v, l), Flip(u, k))
    <3>1. Digits(h, w, v, u) /\ Digits(e, o, l, k)
      BY DEF Digits
    <3>2. QED
      BY <3>1, XorBits
  <2>7. QED
    BY <2>1, <2>2, <2>3, <2>5, <2>6 DEF Exchanges
<1>8. QED
  BY <1>3, <1>4, <1>5, <1>6, <1>7

\* So every address of a round is written.
LEMMA SwizzleOnto ==
  ASSUME NEW m \in Nat, NEW C \in {2, 4, 8, 16, 32}, NEW x \in Nat, x < 8 * m
  PROVE  \E t \in Nat : t < 8 * m /\ XorLow(t, t \div C) = x
<1>1. PICK h \in Nat, p, q, r \in Bit : x = Octal(h, r, q, p)
  BY Bits
<1>2. Exchanges(h, C, r, q, p)
  BY <1>1, AllExchanges
<1>3. PICK w, v, u \in Bit : XorLow(Octal(h, w, v, u), Octal(h, w, v, u) \div C) = x
  BY <1>1, <1>2 DEF Exchanges
<1>4. h < m
  BY <1>1 DEF Octal, Bit
<1>5. Octal(h, w, v, u) \in Nat /\ Octal(h, w, v, u) < 8 * m
  BY <1>3, <1>4 DEF Octal, Bit
<1>6. QED
  BY <1>3, <1>5

\* What a layout of shared memory rests on.
Banked(s) ==
  /\ s.gen \in {"tile_ir", "gemm_gen"}
  /\ s.tile_m \in Nat /\ s.tile_n \in Nat /\ s.wg_size \in Nat \ {0} /\ s.wg_size % 32 = 0
  /\ ChunksPerRow(s) \in {2, 4, 8, 16, 32}
  /\ \A mat \in {"X", "WT"} : /\ LoadsPerThread(s, mat) \in Nat
                              /\ LoadsPerThread(s, mat) * s.wg_size = TileRows(s, mat) * ChunksPerRow(s)
  /\ s.gen = "tile_ir" => RowsPerPass(s) % 8 = 0 /\ (s.acc_swap => ChunksPerRow(s) = 2)

\* The threads of a workgroup are whole rows of chunks.
LEMMA WholeRows ==
  ASSUME NEW s, Banked(s)
  PROVE  /\ RowsPerPass(s) \in Nat \ {0} /\ s.wg_size = ChunksPerRow(s) * RowsPerPass(s)
         /\ \E m \in Nat : s.wg_size = 8 * m
<1>1. PICK n \in Nat : n = s.wg_size
  BY DEF Banked
<1>2. PICK C \in {2, 4, 8, 16, 32} : C = ChunksPerRow(s)
  BY DEF Banked
<1>3. n > 0 /\ n % 32 = 0
  BY <1>1 DEF Banked
<1>4. PICK m \in Nat : n = 32 * m
  BY <1>3
<1>5. n \div C \in Nat \ {0} /\ n = C * (n \div C)
  BY <1>2, <1>3, <1>4
<1>6. 4 * m \in Nat /\ n = 8 * (4 * m)
  BY <1>4
<1>7. QED
  BY <1>1, <1>2, <1>5, <1>6 DEF RowsPerPass

\* A thread's row and column.
LEMMA RowAndColumn ==
  ASSUME NEW C \in {2, 4, 8, 16, 32}, NEW R \in Nat \ {0}, NEW t \in 0..(C * R - 1)
  PROVE  t \div C \in 0..(R - 1) /\ t % C \in 0..(C - 1) /\ t = (t \div C) * C + (t % C)
<1>1. t \in Nat /\ t < C * R
  OBVIOUS
<1>2. t \div C \in Nat /\ t % C \in 0..(C - 1) /\ t = (t \div C) * C + (t % C)
  BY <1>1
<1>3. t \div C < R
  BY <1>1, <1>2
<1>4. QED
  BY <1>2, <1>3

\* The halves of a step.
LEMMA HalfSteps ==
  ASSUME NEW c \in Nat
  PROVE  2 * (c \div 2) + (c % 2) = c /\ c \div 2 \in Nat /\ c % 2 \in {0, 1}
<1>1. 2 * (c \div 2) + (c % 2) = c
  OBVIOUS
<1>2. c \div 2 \in Nat /\ c % 2 \in {0, 1}
  OBVIOUS
<1>3. QED
  BY <1>1, <1>2

\* A row in its block of 16.
LEMMA InBlock ==
  ASSUME NEW r \in Nat
  PROVE  16 * (r \div 16) + (r % 16) = r /\ r \div 16 \in Nat /\ r % 16 \in 0..15 /\ (r % 16) % 8 = r % 8
<1>1. 16 * (r \div 16) + (r % 16) = r
  OBVIOUS
<1>2. r \div 16 \in Nat /\ r % 16 \in 0..15
  OBVIOUS
<1>3. (r % 16) % 8 = r % 8
  OBVIOUS
<1>4. QED
  BY <1>1, <1>2, <1>3

\* A wave looks for a chunk where its thread put it.
LEMMA ReadWhereWritten ==
  ASSUME NEW s, Banked(s), NEW mat \in {"X", "WT"}, NEW t \in 0..(s.wg_size - 1), NEW i \in Nat
  PROVE  LET C == ChunksPerRow(s)
             row == t \div C + i * RowsPerPass(s)
             col == t % C
         IN  FragmentChunk(s, mat, row \div 16, row % 16, col \div 2, col % 2)
               = LdsBase(s, mat) + i * s.wg_size + Swizzled(s, t, t \div C)
<1>1. PICK C \in {2, 4, 8, 16, 32} : C = ChunksPerRow(s)
  BY DEF Banked
<1>2. PICK R \in Nat \ {0} : R = RowsPerPass(s) /\ s.wg_size = C * R
  BY <1>1, WholeRows
<1>3. PICK r \in Nat, c \in Nat : r = t \div C /\ c = t % C /\ c < C /\ t = r * C + c
  BY <1>2, RowAndColumn
<1>4. PICK I \in Nat : I = i * R
  BY <1>2
<1>5. i * s.wg_size = I * C
  BY <1>2, <1>4
<1>6. PICK row \in Nat : row = r + I
  BY <1>3, <1>4
<1>7. PICK b \in Nat, l \in Nat : b = row \div 16 /\ l = row % 16 /\ 16 * b + l = row /\ l % 8 = row % 8
  BY <1>6, InBlock
<1>8. PICK ks \in Nat, half \in Nat : ks = c \div 2 /\ half = c % 2 /\ 2 * ks + half = c
  <2>1. c \div 2 \in Nat /\ c % 2 \in Nat /\ 2 * (c \div 2) + (c % 2) = c
    BY <1>3, HalfSteps
  <2>2. QED
    BY <2>1
<1>9. 16 * b * C + l * C + c = t + I * C
  <2>1. 16 * b * C + l * C = (16 * b + l) * C
    OBVIOUS
  <2>2. (16 * b + l) * C = r * C + I * C
    BY <1>6, <1>7
  <2>3. QED
    BY <1>3, <2>1, <2>2
<1>10. PICK B : B = LdsBase(s, mat)
  OBVIOUS
<1>11. B \in Nat /\ (mat = "X" => B = 0)
  BY <1>1, <1>10 DEF LdsBase, Banked
<1>12. PICK D \in Nat : D = I * C
  OBVIOUS
<1>13. PICK E \in Nat : E = 16 * b * C /\ E % 8 = 0
  OBVIOUS
<1>14. PICK Z \in Nat : Z = l * C + c
  OBVIOUS
<1>15. E + Z = t + D /\ t \in Nat
  BY <1>9, <1>12, <1>13, <1>14
<1>16. l * C + half + 2 * ks = Z
  BY <1>8, <1>14
<1>17. FragmentChunk(s, mat, b, l, ks, half) = B + D + Swizzled(s, t, r)
  <2>1. CASE s.gen = "gemm_gen"
    <3>1. \A a, x : Swizzled(s, a, x) = a
      BY <2>1 DEF Swizzled
    <3>2. PICK H \in Nat : H = l * C
      OBVIOUS
    <3>3. CASE s.acc_swap
      BY <1>1, <1>8, <1>10, <1>11, <1>12, <1>13, <1>15, <1>16, <3>1, <3>2, <3>3 DEF FragmentChunk
    <3>4. CASE ~s.acc_swap
      BY <1>1, <1>8, <1>10, <1>11, <1>12, <1>13, <1>15, <1>16, <3>1, <3>2, <3>4 DEF FragmentChunk
    <3>5. QED
      BY <3>3, <3>4
  <2>2. CASE s.gen = "tile_ir"
    <3>1. \A a, x : Swizzled(s, a, x) = XorLow(a, x)
      BY <2>2 DEF Swizzled
    <3>2. R % 8 = 0 /\ (s.acc_swap => C = 2)
      BY <1>1, <1>2, <2>2 DEF Banked
    <3>3. I % 8 = 0
      <4>1. PICK u \in Nat : R = 8 * u
        BY <3>2
      <4>2. i * u \in Nat /\ I = 8 * (i * u)
        BY <1>4, <4>1
      <4>3. QED
        BY <4>2
    <3>4. l % 8 = r % 8
      BY <1>6, <1>7, <3>3
    <3>5. D % 8 = 0
      BY <1>12, <3>3
    <3>6. PICK o \in Nat : o = E + Z /\ o = t + D /\ o = Z + E
      BY <1>15
    <3>7. XorLow(o, l) = XorLow(t, r) + D
      <4>1. Shifted(o, t, D) /\ r % 8 = l % 8 /\ t \in Nat
        BY <1>15, <3>4, <3>5, <3>6 DEF Shifted
      <4>2. QED
        BY <4>1, XorShift
    <3>8. XorLow(o, l) = XorLow(Z, l) + E
      <4>1. Shifted(o, Z, E)
        BY <1>13, <3>6 DEF Shifted
      <4>2. QED
        BY <4>1, XorShift
    <3>9. XorLow(E + Z, l) = XorLow(t, r) + D
      BY <3>6, <3>7
    <3>10. XorLow(Z, l) + E = XorLow(t, r) + D
      BY <3>7, <3>8
    <3>11. XorLow(t, r) \in Nat /\ XorLow(Z, l) \in Nat
      <4>1. \A a, x \in Nat : XorLow(a, x) \in Nat
        BY DEF XorLow
      <4>2. QED
        BY <1>3, <1>7, <1>14, <1>15, <4>1
    <3>12. s.acc_swap => ks = 0
      BY <1>3, <1>8, <3>2
    <3>13. CASE s.acc_swap
      <4>1. l * C + half + 0 = Z /\ 2 * ks = 0
        BY <1>16, <3>12, <3>13
      <4>2. QED
        BY <1>1, <1>10, <1>11, <1>12, <1>13, <1>14, <3>1, <3>9, <3>10, <3>11, <3>13, <4>1 DEF FragmentChunk
    <3>14. CASE ~s.acc_swap
      BY <1>1, <1>10, <1>11, <1>12, <1>13, <1>14, <1>16, <3>1, <3>9, <3>10, <3>11, <3>14 DEF FragmentChunk
    <3>15. QED
      BY <3>13, <3>14
  <2>3. QED
    BY <2>1, <2>2 DEF Banked
<1>18. QED
  BY <1>1, <1>2, <1>3, <1>4, <1>5, <1>6, <1>7, <1>8, <1>10, <1>12, <1>17

\* A round of loads fills its addresses, each once.
LEMMA RoundFull ==
  ASSUME NEW s, Banked(s)
  PROVE  /\ \A t \in 0..(s.wg_size - 1) : Swizzled(s, t, t \div ChunksPerRow(s)) \in 0..(s.wg_size - 1)
         /\ \A x \in 0..(s.wg_size - 1) : \E t \in 0..(s.wg_size - 1) :
              Swizzled(s, t, t \div ChunksPerRow(s)) = x
<1>1. PICK C \in {2, 4, 8, 16, 32} : C = ChunksPerRow(s)
  BY DEF Banked
<1>2. PICK m \in Nat : s.wg_size = 8 * m
  BY WholeRows
<1>3. CASE s.gen = "gemm_gen"
  BY <1>3 DEF Swizzled
<1>4. CASE s.gen = "tile_ir"
  <2>1. \A a, b : Swizzled(s, a, b) = XorLow(a, b)
    BY <1>4 DEF Swizzled
  <2>2. ASSUME NEW t \in 0..(8 * m - 1) PROVE XorLow(t, t \div C) \in 0..(8 * m - 1)
    <3>1. t \in Nat /\ t \div C \in Nat /\ t < 8 * m
      OBVIOUS
    <3>2. XorLow(t, t \div C) \in (t - (t % 8))..(t - (t % 8) + 7)
      BY <3>1, XorNear
    <3>3. PICK h \in Nat : t - (t % 8) = 8 * h /\ h < m
      <4>1. t \div 8 \in Nat /\ t = 8 * (t \div 8) + (t % 8) /\ t % 8 \in 0..7
        BY <3>1
      <4>2. t \div 8 < m
        BY <3>1, <4>1
      <4>3. QED
        BY <4>1, <4>2
    <3>4. QED
      BY <3>2, <3>3
  <2>3. ASSUME NEW x \in 0..(8 * m - 1) PROVE \E t \in 0..(8 * m - 1) : XorLow(t, t \div C) = x
    <3>1. x \in Nat /\ x < 8 * m
      OBVIOUS
    <3>2. PICK t \in Nat : t < 8 * m /\ XorLow(t, t \div C) = x
      BY <3>1, SwizzleOnto
    <3>3. t \in 0..(8 * m - 1)
      BY <3>2
    <3>4. QED
      BY <3>2, <3>3
  <2>4. QED
    BY <1>1, <1>2, <2>1, <2>2, <2>3
<1>5. QED
  BY <1>3, <1>4 DEF Banked

\* A chunk by its round and its place there.
LEMMA InRounds ==
  ASSUME NEW L \in Nat, NEW n \in Nat \ {0}, NEW o \in Nat, o < L * n
  PROVE  \E i \in 0..(L - 1), x \in 0..(n - 1) : o = i * n + x
<1>1. PICK i \in Nat, x \in 0..(n - 1) : o = i * n + x
  <2>1. o \div n \in Nat /\ o % n \in 0..(n - 1) /\ o = (o \div n) * n + (o % n)
    OBVIOUS
  <2>2. QED
    BY <2>1
<1>2. i < L
  <2>1. CASE i >= L
    <3>1. PICK d \in Nat : i = L + d
      <4>1. i - L \in Nat /\ i = L + (i - L)
        BY <2>1
      <4>2. QED
        BY <4>1
    <3>2. i * n = L * n + d * n /\ d * n \in Nat /\ L * n \in Nat
      BY <3>1
    <3>3. QED
      BY <1>1, <3>2
  <2>2. QED
    BY <2>1
<1>3. QED
  BY <1>1, <1>2

\* The chunks of a matrix fill its part of a buffer.
LEMMA PartFull ==
  ASSUME NEW s, Banked(s), NEW mat \in {"X", "WT"}
  PROVE  {ch.at : ch \in LoadedChunks(s, mat)}
           = LdsBase(s, mat)..(LdsBase(s, mat) + TileRows(s, mat) * ChunksPerRow(s) - 1)
<1>1. PICK C \in Nat : C = ChunksPerRow(s)
  BY DEF Banked
<1>2. PICK n \in Nat \ {0} : n = s.wg_size
  BY DEF Banked
<1>3. PICK L \in Nat : L = LoadsPerThread(s, mat) /\ L * n = TileRows(s, mat) * C
  BY <1>1, <1>2 DEF Banked
<1>4. PICK B \in Nat : B = LdsBase(s, mat)
  BY <1>1 DEF LdsBase, Banked
<1>5. PICK N \in Nat : N = L * n
  OBVIOUS
<1> DEFINE At(t, i) == B + i * n + Swizzled(s, t, t \div C)
<1>6. \A z : (\E ch \in LoadedChunks(s, mat) : z = ch.at)
              <=> \E t \in 0..(n - 1), i \in 0..(L - 1) : z = At(t, i)
  <2>1. LoadedChunks(s, mat)
          = {[row |-> t \div C + i * RowsPerPass(s), col |-> t % C,
              at |-> B + i * n + Swizzled(s, t, t \div C)] : t \in 0..(n - 1), i \in 0..(L - 1)}
    BY <1>1, <1>2, <1>3, <1>4 DEF LoadedChunks
  <2>2. ASSUME NEW ch \in LoadedChunks(s, mat)
        PROVE  \E t \in 0..(n - 1), i \in 0..(L - 1) : ch.at = At(t, i)
    <3>1. PICK t \in 0..(n - 1), i \in 0..(L - 1) :
            ch = [row |-> t \div C + i * RowsPerPass(s), col |-> t % C,
                  at |-> B + i * n + Swizzled(s, t, t \div C)]
      BY <2>1
    <3>2. ch.at = At(t, i)
      BY <3>1
    <3>3. QED
      BY <3>2
  <2>3. ASSUME NEW t \in 0..(n - 1), NEW i \in 0..(L - 1)
        PROVE  \E ch \in LoadedChunks(s, mat) : At(t, i) = ch.at
    <3>1. PICK ch : ch = [row |-> t \div C + i * RowsPerPass(s), col |-> t % C,
                          at |-> B + i * n + Swizzled(s, t, t \div C)]
      OBVIOUS
    <3>2. ch \in LoadedChunks(s, mat)
      BY <2>1, <3>1
    <3>3. ch.at = At(t, i)
      BY <3>1
    <3>4. QED
      BY <3>2, <3>3
  <2> HIDE DEF At
  <2>4. QED
    BY <2>2, <2>3
<1>7. ASSUME NEW t \in 0..(n - 1), NEW i \in 0..(L - 1) PROVE At(t, i) \in B..(B + N - 1)
  <2>1. PICK x \in 0..(n - 1) : x = Swizzled(s, t, t \div C)
    BY <1>1, <1>2, RoundFull
  <2>2. i * n \in Nat /\ i * n + n <= L * n
    <3>1. PICK d \in Nat : L = i + 1 + d
      <4>1. L - i - 1 \in Nat /\ L = i + 1 + (L - i - 1)
        OBVIOUS
      <4>2. QED
        BY <4>1
    <3>2. L * n = i * n + n + d * n /\ d * n \in Nat /\ i * n \in Nat
      BY <3>1
    <3>3. QED
      BY <3>2
  <2>3. QED
    BY <1>5, <2>1, <2>2
<1>8. ASSUME NEW z \in B..(B + N - 1) PROVE \E t \in 0..(n - 1), i \in 0..(L - 1) : z = At(t, i)
  <2>1. PICK off \in Nat : z = B + off /\ off < L * n
    <3>1. z - B \in Nat /\ z = B + (z - B) /\ z - B < N
      OBVIOUS
    <3>2. QED
      BY <1>5, <3>1
  <2>2. PICK i \in 0..(L - 1), x \in 0..(n - 1) : off = i * n + x
    BY <2>1, InRounds
  <2>3. PICK t \in 0..(n - 1) : Swizzled(s, t, t \div C) = x
    BY <1>1, <1>2, RoundFull
  <2>4. z = At(t, i)
    <3>1. PICK D \in Nat : D = i * n
      OBVIOUS
    <3>2. z = B + (D + x)
      BY <2>1, <2>2, <3>1
    <3>3. QED
      BY <2>3, <3>1, <3>2
  <2>5. QED
    BY <2>4
<1>9. {ch.at : ch \in LoadedChunks(s, mat)} = B..(B + N - 1)
  <2> HIDE DEF At
  <2>1. \A ch \in LoadedChunks(s, mat) : ch.at \in B..(B + N - 1)
    BY <1>6, <1>7
  <2>2. \A z \in B..(B + N - 1) : \E ch \in LoadedChunks(s, mat) : z = ch.at
    BY <1>6, <1>8
  <2>3. QED
    BY <2>1, <2>2
<1>10. QED
  BY <1>1, <1>3, <1>4, <1>5, <1>9

\* Shared memory: what is read is what was written there, and everything fits.
LEMMA LdsIsRight ==
  ASSUME NEW s, Banked(s), LdsTotal(s) * 16 <= 65536
  PROVE  LdsRight(s)
<1>1. ASSUME NEW mat \in {"X", "WT"}, NEW ch \in LoadedChunks(s, mat)
      PROVE  FragmentChunk(s, mat, ch.row \div 16, ch.row % 16, ch.col \div 2, ch.col % 2) = ch.at
  <2>1. PICK t \in 0..(s.wg_size - 1), i \in 0..(LoadsPerThread(s, mat) - 1) :
          /\ ch.row = t \div ChunksPerRow(s) + i * RowsPerPass(s) /\ ch.col = t % ChunksPerRow(s)
          /\ ch.at = LdsBase(s, mat) + i * s.wg_size + Swizzled(s, t, t \div ChunksPerRow(s))
    BY DEF LoadedChunks
  <2>2. i \in Nat
    BY DEF Banked
  <2>3. QED
    BY <2>1, <2>2, ReadWhereWritten
<1> DEFINE both == LoadedChunks(s, "X") \cup LoadedChunks(s, "WT")
<1>2. {ch.at : ch \in both} = 0..(LdsBuffer(s) - 1)
  <2>1. PICK C \in Nat, m \in Nat, n \in Nat : C = ChunksPerRow(s) /\ m = s.tile_m /\ n = s.tile_n
    BY DEF Banked
  <2>2. PICK M \in Nat, N \in Nat : M = m * C /\ N = n * C
    OBVIOUS
  <2>3. LdsBuffer(s) = M + N
    BY <2>1, <2>2 DEF LdsBuffer
  <2>4. {ch.at : ch \in LoadedChunks(s, "X")} = 0..(M - 1)
    <3>1. LdsBase(s, "X") = 0 /\ TileRows(s, "X") = m
      BY <2>1 DEF LdsBase, TileRows
    <3>2. {ch.at : ch \in LoadedChunks(s, "X")}
            = LdsBase(s, "X")..(LdsBase(s, "X") + TileRows(s, "X") * C - 1)
      BY <2>1, PartFull
    <3>3. QED
      BY <2>2, <3>1, <3>2
  <2>5. {ch.at : ch \in LoadedChunks(s, "WT")} = M..(M + N - 1)
    <3>1. LdsBase(s, "WT") = M /\ TileRows(s, "WT") = n
      BY <2>1, <2>2 DEF LdsBase, TileRows
    <3>2. {ch.at : ch \in LoadedChunks(s, "WT")}
            = LdsBase(s, "WT")..(LdsBase(s, "WT") + TileRows(s, "WT") * C - 1)
      BY <2>1, PartFull
    <3>3. QED
      BY <2>2, <3>1, <3>2
  <2>6. {ch.at : ch \in both}
          = {ch.at : ch \in LoadedChunks(s, "X")} \cup {ch.at : ch \in LoadedChunks(s, "WT")}
    OBVIOUS
  <2>7. 0..(M - 1) \cup M..(M + N - 1) = 0..(M + N - 1)
    OBVIOUS
  <2>8. QED
    BY <2>3, <2>4, <2>5, <2>6, <2>7
<1>3. LdsBuffer(s) \in Nat
  BY DEF LdsBuffer, Banked
<1> DEFINE ats == {ch.at : ch \in both}
<1>4. Cardinality(ats) = LdsBuffer(s)
  <2>1. PICK N \in Nat : N = LdsBuffer(s)
    BY <1>3
  <2>2. Cardinality(0..(N - 1)) = N
    BY FS_Interval
  <2>3. ats = 0..(N - 1)
    BY <1>2, <2>1
  <2> HIDE DEF ats
  <2>4. QED
    BY <2>1, <2>2, <2>3
<1>5. \A ch \in both : ch.at \in 0..(LdsBuffer(s) - 1)
  BY <1>2
<1>6. QED
  BY <1>1, <1>4, <1>5 DEF LdsRight

\* The sizes of disjoint sets add up to the size of their union.
Together(f, S) == UNION {f[b] : b \in S}
LEMMA Families ==
  ASSUME NEW S, IsFiniteSet(S), NEW f, NEW size,
         \A b \in S : IsFiniteSet(f[b]) /\ size[b] = Cardinality(f[b]),
         \A b1, b2 \in S : b1 # b2 => f[b1] \cap f[b2] = {}
  PROVE  SumOf(size, S) = Cardinality(Together(f, S))
<1> DEFINE F == {t \in SUBSET S : /\ IsFiniteSet(Together(f, t))
                                  /\ SumOf(size, t) = Cardinality(Together(f, t))}
<1>1. {} \in F
  <2>1. Together(f, {}) = {}
    BY DEF Together
  <2>2. QED
    BY <2>1, SumEmpty, FS_EmptySet
<1>2. ASSUME NEW t \in SUBSET S, t # {}, \A x \in t : t \ {x} \in F PROVE t \in F
  <2>1. PICK x : x \in t
    BY <1>2
  <2>2. PICK u : u = Together(f, t \ {x})
    OBVIOUS
  <2>3. Together(f, t) = f[x] \cup u
    BY <2>1, <2>2 DEF Together
  <2>4. f[x] \cap u = {}
    BY <2>1, <2>2 DEF Together
  <2>5. IsFiniteSet(u) /\ SumOf(size, t \ {x}) = Cardinality(u)
    BY <1>2, <2>1, <2>2
  <2>6. IsFiniteSet(f[x]) /\ size[x] = Cardinality(f[x])
    BY <2>1
  <2>7. IsFiniteSet(f[x] \cup u) /\ Cardinality(f[x] \cup u) = Cardinality(f[x]) + Cardinality(u)
    <3>1. Cardinality(f[x] \cap u) = 0
      BY <2>4, FS_EmptySet
    <3>2. Cardinality(f[x]) \in Nat /\ Cardinality(u) \in Nat
      BY <2>5, <2>6, FS_CardinalityType
    <3>3. PICK g : g = f[x]
      OBVIOUS
    <3>4. /\ IsFiniteSet(g \cup u)
          /\ Cardinality(g \cup u) = Cardinality(g) + Cardinality(u) - Cardinality(g \cap u)
      BY <2>5, <2>6, <3>3, FS_Union
    <3>5. QED
      BY <3>1, <3>2, <3>3, <3>4
  <2>8. SumOf(size, t) = size[x] + SumOf(size, t \ {x})
    <3>1. IsFiniteSet(t)
      BY FS_Subset
    <3>2. \A b \in t : size[b] \in Int
      BY FS_CardinalityType
    <3>3. QED
      BY <2>1, <3>1, <3>2, SumSplit
  <2>9. QED
    BY <2>3, <2>5, <2>6, <2>7, <2>8
<1>3. S \in F
  <2>1. F \in SUBSET SUBSET S
    OBVIOUS
  <2> HIDE DEF F
  <2>2. QED
    BY <1>1, <1>2, <2>1, FiniteInduction
<1>4. QED
  BY <1>3

\* Finite sets of four-tuples, and of workgroups.
LEMMA FiniteTuples ==
  ASSUME NEW S, IsFiniteSet(S), NEW T, IsFiniteSet(T), NEW U, IsFiniteSet(U), NEW V, IsFiniteSet(V)
  PROVE  IsFiniteSet(S \X T \X U \X V)
<1> DEFINE D == (S \X T) \X (U \X V)
           E == S \X T \X U \X V
           f == [d \in D |-> <<d[1][1], d[1][2], d[2][1], d[2][2]>>]
<1>1. IsFiniteSet(D)
  <2>1. IsFiniteSet(S \X T) /\ IsFiniteSet(U \X V)
    BY FS_Product
  <2>2. QED
    BY <2>1, FS_Product
<1>2. f \in [D -> E]
  OBVIOUS
<1>3. ASSUME NEW e \in E PROVE \E d \in D : f[d] = e
  <2>1. PICK a \in S, b \in T, c \in U, g \in V : e = <<a, b, c, g>>
    OBVIOUS
  <2>2. PICK d : d = <<<<a, b>>, <<c, g>>>>
    OBVIOUS
  <2>3. d \in D /\ f[d] = e
    BY <2>1, <2>2
  <2>4. QED
    BY <2>3
<1>4. f \in Surjection(D, E)
  BY <1>2, <1>3 DEF Surjection
<1>5. QED
  BY <1>1, <1>4, FS_Surjection

LEMMA FiniteGrid ==
  ASSUME NEW S, IsFiniteSet(S), NEW T, IsFiniteSet(T), NEW U, IsFiniteSet(U)
  PROVE  IsFiniteSet([row : S, col : T, part : U])
<1> DEFINE D == (S \X T) \X U
           E == [row : S, col : T, part : U]
           f == [d \in D |-> [row |-> d[1][1], col |-> d[1][2], part |-> d[2]]]
<1>1. IsFiniteSet(D)
  <2>1. IsFiniteSet(S \X T)
    BY FS_Product
  <2>2. QED
    BY <2>1, FS_Product
<1>2. f \in [D -> E]
  OBVIOUS
<1>3. ASSUME NEW e \in E PROVE \E d \in D : f[d] = e
  <2>1. e.row \in S /\ e.col \in T /\ e.part \in U /\ e = [row |-> e.row, col |-> e.col, part |-> e.part]
    OBVIOUS
  <2>2. PICK d : d = <<<<e.row, e.col>>, e.part>>
    OBVIOUS
  <2>3. d \in D /\ f[d] = e
    BY <2>1, <2>2
  <2>4. QED
    BY <2>3
<1>4. f \in Surjection(D, E)
  BY <1>2, <1>3 DEF Surjection
<1>5. QED
  BY <1>1, <1>4, FS_Surjection

\* A number in one base, two digits: it has them, and no others.
LEMMA TwoDigits ==
  ASSUME NEW n \in Nat \ {0}, NEW o \in Nat
  PROVE  \E q \in Nat, r \in 0..(n - 1) : o = q * n + r
<1>1. o \div n \in Nat /\ o % n \in 0..(n - 1) /\ o = (o \div n) * n + (o % n)
  OBVIOUS
<1>2. QED
  BY <1>1

LEMMA SameDigits ==
  ASSUME NEW n \in Nat \ {0}, NEW q1 \in Nat, NEW q2 \in Nat, NEW r1 \in 0..(n - 1), NEW r2 \in 0..(n - 1),
         q1 * n + r1 = q2 * n + r2
  PROVE  q1 = q2 /\ r1 = r2
<1>1. \A a, b \in Nat, c, d \in 0..(n - 1) : a < b => a * n + c # b * n + d
  <2>1. SUFFICES ASSUME NEW a \in Nat, NEW b \in Nat, NEW c \in 0..(n - 1), NEW d \in 0..(n - 1), a < b
                 PROVE  a * n + c # b * n + d
    OBVIOUS
  <2>2. PICK e \in Nat : b = a + 1 + e
    <3>1. b - a - 1 \in Nat /\ b = a + 1 + (b - a - 1)
      BY <2>1
    <3>2. QED
      BY <3>1
  <2>3. b * n = a * n + n + e * n /\ e * n \in Nat /\ a * n \in Nat
    BY <2>2
  <2>4. QED
    BY <2>3
<1>2. ~(q1 < q2) /\ ~(q2 < q1)
  BY <1>1
<1>3. q1 = q2
  BY <1>2
<1>4. q1 * n \in Nat
  OBVIOUS
<1>5. QED
  BY <1>3, <1>4

\* The tiles that cover n elements.
LEMMA Tiles ==
  ASSUME NEW n \in Nat \ {0}, NEW t \in Nat \ {0}, NEW g \in Nat
  PROVE  /\ CeilDiv(n, t) \in Nat
         /\ g < CeilDiv(n, t) <=> g * t < n
         /\ n % t = 0 => (g < CeilDiv(n, t) <=> g * t + t <= n)
<1>1. PICK c \in Nat, r \in 0..(t - 1) : c = CeilDiv(n, t) /\ n + t - 1 = c * t + r
  <2>1. n + t - 1 \in Nat
    OBVIOUS
  <2>2. (n + t - 1) \div t \in Nat /\ (n + t - 1) % t \in 0..(t - 1)
        /\ n + t - 1 = ((n + t - 1) \div t) * t + ((n + t - 1) % t)
    BY <2>1
  <2>3. QED
    BY <2>2 DEF CeilDiv
<1>2. c * t \in Nat /\ g * t \in Nat /\ n <= c * t /\ c * t <= n + t - 1
  BY <1>1
<1>3. g < c => g * t + t <= c * t
  <2>1. ASSUME g < c PROVE g * t + t <= c * t
    <3>1. PICK e \in Nat : c = g + 1 + e
      <4>1. c - g - 1 \in Nat /\ c = g + 1 + (c - g - 1)
        BY <2>1
      <4>2. QED
        BY <4>1
    <3>2. c * t = g * t + t + e * t /\ e * t \in Nat
      BY <3>1
    <3>3. QED
      BY <1>2, <3>2
  <2>2. QED
    BY <2>1
<1>4. g >= c => g * t >= c * t
  <2>1. ASSUME g >= c PROVE g * t >= c * t
    <3>1. PICK e \in Nat : g = c + e
      <4>1. g - c \in Nat /\ g = c + (g - c)
        BY <2>1
      <4>2. QED
        BY <4>1
    <3>2. g * t = c * t + e * t /\ e * t \in Nat
      BY <3>1
    <3>3. QED
      BY <1>2, <3>2
  <2>2. QED
    BY <2>1
<1>5. g < c <=> g * t < n
  BY <1>2, <1>3, <1>4
<1>6. n % t = 0 => (g < c <=> g * t + t <= n)
  <2>1. ASSUME n % t = 0 PROVE n = c * t
    <3>1. PICK d \in Nat : n = d * t
      <4>1. n \div t \in Nat /\ n = (n \div t) * t
        BY <2>1
      <4>2. QED
        BY <4>1
    <3>2. (n + t - 1) = d * t + (t - 1) /\ t - 1 \in 0..(t - 1)
      BY <3>1
    <3>3. d = c
      BY <1>1, <3>2, SameDigits
    <3>4. QED
      BY <3>1, <3>3
  <2>2. g < c => g * t + t <= c * t
    BY <1>3
  <2>3. g * t + t <= n => g < c
    BY <1>2, <1>4
  <2>4. QED
    BY <2>1, <2>2, <2>3
<1>7. QED
  BY <1>1, <1>5, <1>6

\* An element of Y has one place in the tiles: the tile, the wave, its row block (or the
\* column block, for one wave), the place in it.
Digit(r, n) == r \in 0..(n - 1)
Place(W, R, g, w, r, x) == g * (16 * W * R) + w * (16 * R) + 16 * r + x
LEMMA OnePlace ==
  ASSUME NEW W \in Nat \ {0}, NEW R \in Nat \ {0},
         NEW g1 \in Nat, NEW w1, NEW r1, NEW x1, Digit(w1, W), Digit(r1, R), Digit(x1, 16),
         NEW g2 \in Nat, NEW w2, NEW r2, NEW x2, Digit(w2, W), Digit(r2, R), Digit(x2, 16),
         Place(W, R, g1, w1, r1, x1) = Place(W, R, g2, w2, r2, x2)
  PROVE  g1 = g2 /\ w1 = w2 /\ r1 = r2 /\ x1 = x2
<1> USE DEF Digit, Place
<1>1. PICK a1 \in Nat, a2 \in Nat : a1 = g1 * W + w1 /\ a2 = g2 * W + w2
  OBVIOUS
<1>2. PICK b1 \in Nat, b2 \in Nat : b1 = a1 * R + r1 /\ b2 = a2 * R + r2
  OBVIOUS
<1>3. b1 * 16 + x1 = b2 * 16 + x2
  <2>1. ASSUME NEW g \in Nat, NEW w \in Nat, NEW r \in Nat, NEW x \in Nat
        PROVE  ((g * W + w) * R + r) * 16 + x = g * (16 * W * R) + w * (16 * R) + 16 * r + x
    <3>1. (g * W + w) * R = g * W * R + w * R
      OBVIOUS
    <3>2. 16 * (g * W * R) = g * (16 * W * R) /\ 16 * (w * R) = w * (16 * R)
      OBVIOUS
    <3>3. g * W * R \in Nat /\ w * R \in Nat
      OBVIOUS
    <3>4. QED
      BY <3>1, <3>2, <3>3
  <2>2. w1 \in Nat /\ r1 \in Nat /\ x1 \in Nat /\ w2 \in Nat /\ r2 \in Nat /\ x2 \in Nat
    OBVIOUS
  <2>3. QED
    BY <1>1, <1>2, <2>1, <2>2
<1>4. b1 = b2 /\ x1 = x2
  BY <1>3, SameDigits
<1>5. a1 = a2 /\ r1 = r2
  BY <1>2, <1>4, SameDigits
<1>6. g1 = g2 /\ w1 = w2
  BY <1>1, <1>5, SameDigits
<1>7. QED
  BY <1>4, <1>5, <1>6

LEMMA SomePlace ==
  ASSUME NEW W \in Nat \ {0}, NEW R \in Nat \ {0}, NEW o \in Nat
  PROVE  \E g \in Nat, w \in 0..(W - 1), r \in 0..(R - 1), x \in 0..15 :
           o = Place(W, R, g, w, r, x)
<1>1. PICK b \in Nat, x \in 0..15 : o = b * 16 + x
  <2>1. PICK n \in Nat \ {0} : n = 16
    OBVIOUS
  <2>2. PICK b \in Nat, x \in 0..(n - 1) : o = b * n + x
    BY TwoDigits
  <2>3. QED
    BY <2>1, <2>2
<1>2. PICK a \in Nat, r \in 0..(R - 1) : b = a * R + r
  BY TwoDigits
<1>3. PICK g \in Nat, w \in 0..(W - 1) : a = g * W + w
  BY TwoDigits
<1>4. ((g * W + w) * R + r) * 16 + x = g * (16 * W * R) + w * (16 * R) + 16 * r + x
  <2>1. w \in Nat /\ r \in Nat
    OBVIOUS
  <2>2. (g * W + w) * R = g * W * R + w * R
    BY <2>1
  <2>3. 16 * (g * W * R) = g * (16 * W * R) /\ 16 * (w * R) = w * (16 * R)
    BY <2>1
  <2>4. g * W * R \in Nat /\ w * R \in Nat
    BY <2>1
  <2>5. QED
    BY <2>1, <2>2, <2>3, <2>4
<1>5. QED
  BY <1>1, <1>2, <1>3, <1>4 DEF Place

\* A place is inside its tile.
LEMMA InsideTile ==
  ASSUME NEW W \in Nat \ {0}, NEW R \in Nat \ {0},
         NEW g \in Nat, NEW w \in 0..(W - 1), NEW r \in 0..(R - 1), NEW x \in 0..15
  PROVE  LET o == Place(W, R, g, w, r, x)
         IN  o \in Nat /\ g * (16 * W * R) <= o /\ o < g * (16 * W * R) + 16 * W * R
<1>1. PICK H \in Nat : H = 16 * R
  OBVIOUS
<1>2. 16 * r + x < H /\ 16 * r + x \in Nat
  BY <1>1
<1>3. w * H \in Nat /\ w * H + H <= W * H
  <2>1. PICK e \in Nat : W = w + 1 + e
    <3>1. W - w - 1 \in Nat /\ W = w + 1 + (W - w - 1)
      OBVIOUS
    <3>2. QED
      BY <3>1
  <2>2. W * H = w * H + H + e * H /\ e * H \in Nat /\ w * H \in Nat
    BY <2>1
  <2>3. QED
    BY <2>2
<1>4. W * H = 16 * W * R /\ g * (16 * W * R) \in Nat
  BY <1>1
<1>5. QED
  BY <1>1, <1>2, <1>3, <1>4 DEF Place

\* The lanes and the registers of an accumulator hold each place of a block.
LEMMA SomeLane ==
  ASSUME NEW x \in 0..15, NEW z \in 0..15
  PROVE  \E lane \in 0..31, v \in 0..7 : (lane \div 16) + 2 * v = x /\ lane % 16 = z
<1>1. PICK h \in 0..1, v \in 0..7 : h + 2 * v = x
  <2>1. x % 2 \in 0..1 /\ x \div 2 \in 0..7 /\ (x % 2) + 2 * (x \div 2) = x
    OBVIOUS
  <2>2. QED
    BY <2>1
<1>2. PICK lane \in 0..31 : lane = 16 * h + z
  OBVIOUS
<1>3. lane \div 16 = h /\ lane % 16 = z
  BY <1>2
<1>4. QED
  BY <1>1, <1>3

LEMMA LanePlace ==
  ASSUME NEW lane \in 0..31, NEW v \in 0..7
  PROVE  (lane \div 16) + 2 * v \in 0..15 /\ lane % 16 \in 0..15
<1>1. lane \div 16 \in 0..1 /\ lane % 16 \in 0..15
  OBVIOUS
<1>2. QED
  BY <1>1

\* Elements of Y, and its partitions, have addresses of their own.
LEMMA OneAddress ==
  ASSUME NEW K \in Nat \ {0}, NEW D \in Nat, NEW M \in Nat \ {0}, NEW N \in Nat \ {0}, K > 1 => D >= M * N,
         NEW i1, NEW j1, NEW c1, Digit(i1, K), Digit(j1, M), Digit(c1, N),
         NEW i2, NEW j2, NEW c2, Digit(i2, K), Digit(j2, M), Digit(c2, N),
         i1 * D + j1 * N + c1 = i2 * D + j2 * N + c2
  PROVE  i1 = i2 /\ j1 = j2 /\ c1 = c2
<1> USE DEF Digit
<1>1. ASSUME NEW j, NEW c, Digit(j, M), Digit(c, N) PROVE j * N + c \in 0..(M * N - 1)
  <2>1. PICK e \in Nat : M = j + 1 + e
    <3>1. M - j - 1 \in Nat /\ M = j + 1 + (M - j - 1)
      BY <1>1
    <3>2. QED
      BY <3>1
  <2>2. j \in Nat /\ c \in Nat /\ c < N
    BY <1>1
  <2>3. M * N = j * N + N + e * N /\ e * N \in Nat /\ j * N \in Nat
    BY <2>1, <2>2
  <2>4. QED
    BY <2>2, <2>3
<1>2. PICK o1 \in 0..(M * N - 1), o2 \in 0..(M * N - 1) : o1 = j1 * N + c1 /\ o2 = j2 * N + c2
  BY <1>1
<1>3. i1 * D + o1 = i2 * D + o2
  <2>1. i1 * D \in Nat /\ i2 * D \in Nat /\ j1 * N \in Nat /\ j2 * N \in Nat /\ c1 \in Nat /\ c2 \in Nat
    OBVIOUS
  <2>2. QED
    BY <1>2, <2>1
<1>4. i1 = i2 /\ o1 = o2
  <2>1. CASE K = 1
    <3>1. i1 = 0 /\ i2 = 0
      BY <2>1
    <3>2. QED
      BY <1>3, <3>1
  <2>2. CASE K > 1
    <3>1. D \in Nat \ {0} /\ o1 \in 0..(D - 1) /\ o2 \in 0..(D - 1) /\ i1 \in Nat /\ i2 \in Nat
      <4>1. PICK P \in Nat : P = M * N
        OBVIOUS
      <4>2. QED
        BY <1>2, <2>2, <4>1
    <3>2. QED
      BY <1>3, <3>1, SameDigits
  <2>3. QED
    BY <2>1, <2>2
<1>5. j1 = j2 /\ c1 = c2
  BY <1>2, <1>4, SameDigits
<1>6. QED
  BY <1>4, <1>5

LEMMA InsideY ==
  ASSUME NEW K \in Nat \ {0}, NEW D \in Nat, NEW M \in Nat \ {0}, NEW N \in Nat \ {0},
         NEW i, NEW j, NEW c, Digit(i, K), Digit(j, M), Digit(c, N)
  PROVE  i * D + j * N + c \in 0..((K - 1) * D + M * N - 1)
<1> USE DEF Digit
<1>1. PICK e \in Nat : M = j + 1 + e
  <2>1. M - j - 1 \in Nat /\ M = j + 1 + (M - j - 1)
    OBVIOUS
  <2>2. QED
    BY <2>1
<1>2. PICK d \in Nat : K - 1 = i + d
  <2>1. K - 1 - i \in Nat /\ K - 1 = i + (K - 1 - i)
    OBVIOUS
  <2>2. QED
    BY <2>1
<1>3. i \in Nat /\ j \in Nat /\ c \in Nat /\ c < N
  OBVIOUS
<1>4. M * N = j * N + N + e * N /\ e * N \in Nat /\ j * N \in Nat
  BY <1>1, <1>3
<1>5. (K - 1) * D = i * D + d * D /\ d * D \in Nat /\ i * D \in Nat
  BY <1>2, <1>3
<1>6. QED
  BY <1>3, <1>4, <1>5

\* A launch's tiles, in naturals.
LEMMA LaidSizes ==
  ASSUME NEW p \in Problems, Laid(p)
  PROVE  LET s == p.spec
             a == p.args
         IN  \E W, R, C, K \in Nat \ {0} :
               /\ W = NWaves(s) /\ R = NRowBlocks(s) /\ C = NColTiles(s) /\ K = s.split_k
               /\ s.tile_m = 16 * W * R /\ s.tile_n = 16 * C /\ RowsPerWave(s) = 16 * R
               /\ s.tile_m \in Nat \ {0} /\ s.tile_n \in Nat \ {0} /\ s.tile_k \in Nat \ {0}
               /\ p.m \in Nat \ {0} /\ p.n \in Nat \ {0} /\ a.n \in Nat \ {0}
               /\ a.k \in Nat /\ a.y_stride \in Nat /\ p.y \in Nat
<1>1. /\ p.spec.tile_m \in Nat \ {0} /\ p.spec.tile_n \in Nat \ {0} /\ p.spec.tile_k \in Nat \ {0}
      /\ p.spec.wg_size \in Nat \ {0} /\ p.spec.wg_size >= 32 /\ p.spec.split_k \in Nat \ {0}
  BY ProblemsAssumption DEF Lowers
<1>2. PICK W \in Nat \ {0} : W = NWaves(p.spec)
  <2>1. p.spec.wg_size \div 32 \in Nat \ {0}
    BY <1>1
  <2>2. QED
    BY <2>1 DEF NWaves
<1>3. PICK m \in Nat \ {0} : m = p.spec.tile_m
  BY <1>1
<1>4. m = 16 * W * NRowBlocks(p.spec)
  BY <1>2, <1>3 DEF Laid
<1>5. PICK H \in Nat : H = RowsPerWave(p.spec) /\ H = m \div W
  BY <1>2, <1>3 DEF RowsPerWave
<1>6. PICK R \in Nat : R = NRowBlocks(p.spec) /\ R = H \div 16
  BY <1>5 DEF NRowBlocks
<1>7. R # 0 /\ m = 16 * W * R
  BY <1>4, <1>6
<1>8. H = 16 * R
  <2>1. m = (16 * R) * W /\ 16 * R \in Nat
    BY <1>7
  <2>2. PICK Q \in Nat : Q = 16 * R
    OBVIOUS
  <2>3. H = Q
    <3>1. m = H * W + (m % W) /\ m % W \in 0..(W - 1)
      BY <1>5
    <3>2. H * W + (m % W) = Q * W + 0 /\ 0 \in 0..(W - 1)
      BY <2>1, <2>2, <3>1
    <3>3. QED
      BY <3>1, <3>2, SameDigits
  <2>4. QED
    BY <2>2, <2>3
<1>9. PICK C \in Nat \ {0} : C = NColTiles(p.spec) /\ p.spec.tile_n = 16 * C
  <2>1. PICK n \in Nat \ {0} : n = p.spec.tile_n
    BY <1>1
  <2>2. n % 16 = 0
    BY <2>1 DEF Laid
  <2>3. n \div 16 \in Nat \ {0} /\ n = 16 * (n \div 16)
    BY <2>2
  <2>4. QED
    BY <2>1, <2>3 DEF NColTiles
<1>10. /\ p.m \in Nat \ {0} /\ p.n \in Nat \ {0} /\ p.args.n \in Nat \ {0}
       /\ p.args.k \in Nat /\ p.args.y_stride \in Nat /\ p.y \in Nat
  BY DEF Laid
<1>11. QED
  BY <1>1, <1>2, <1>3, <1>5, <1>6, <1>7, <1>8, <1>9, <1>10

\* The workgroups of a launch: one for each tile and each partition.
Grid(p) == [row : 0..(CeilDiv(p.m, p.spec.tile_m) - 1), col : 0..(CeilDiv(p.n, p.spec.tile_n) - 1),
            part : 0..(p.spec.split_k - 1)]
LEMMA SlowAxis ==
  ASSUME NEW n \in Nat, NEW K \in Nat \ {0}
  PROVE  /\ \A x \in 0..(n * K - 1) : x \div K \in 0..(n - 1) /\ x % K \in 0..(K - 1)
         /\ \A a \in 0..(n - 1), b \in 0..(K - 1) :
              /\ a * K + b \in 0..(n * K - 1)
              /\ (a * K + b) \div K = a /\ (a * K + b) % K = b
<1>1. ASSUME NEW x \in 0..(n * K - 1) PROVE x \div K \in 0..(n - 1) /\ x % K \in 0..(K - 1)
  <2>1. x \in 0..(K * n - 1) /\ n \in Nat \ {0}
    <3>1. n * K = K * n
      OBVIOUS
    <3>2. n = 0 => n * K = 0
      OBVIOUS
    <3>3. QED
      BY <3>1, <3>2
  <2>2. PICK q \in Nat, r \in 0..(K - 1) : q = x \div K /\ r = x % K /\ x = q * K + r
    OBVIOUS
  <2>3. q < n
    <3>1. CASE q >= n
      <4>1. PICK d \in Nat : q = n + d
        <5>1. q - n \in Nat /\ q = n + (q - n)
          BY <3>1
        <5>2. QED
          BY <5>1
      <4>2. q * K = n * K + d * K /\ d * K \in Nat /\ n * K \in Nat
        BY <4>1
      <4>3. QED
        BY <2>2, <4>2
    <3>2. QED
      BY <3>1
  <2>4. QED
    BY <2>2, <2>3
<1>2. ASSUME NEW a \in 0..(n - 1), NEW b \in 0..(K - 1)
      PROVE  a * K + b \in 0..(n * K - 1) /\ (a * K + b) \div K = a /\ (a * K + b) % K = b
  <2>1. PICK d \in Nat : n = a + 1 + d
    <3>1. n - a - 1 \in Nat /\ n = a + 1 + (n - a - 1)
      OBVIOUS
    <3>2. QED
      BY <3>1
  <2>2. a \in Nat /\ n * K = a * K + K + d * K /\ d * K \in Nat /\ a * K \in Nat
    BY <2>1
  <2>3. PICK x \in 0..(n * K - 1) : x = a * K + b
    BY <2>2
  <2>4. PICK q \in Nat, r \in 0..(K - 1) : q = x \div K /\ r = x % K /\ x = q * K + r
    OBVIOUS
  <2>5. q = a /\ r = b
    BY <2>2, <2>3, <2>4, SameDigits
  <2>6. QED
    BY <2>3, <2>4, <2>5
<1>3. QED
  BY <1>1, <1>2

LEMMA GridDecomposed ==
  ASSUME NEW p \in Problems, Laid(p)
  PROVE  {Decompose(p.spec, t) : t \in p.wgs} = Grid(p)
<1>1. PICK K \in Nat \ {0} : K = p.spec.split_k
  BY LaidSizes
<1>2. PICK I \in Nat : I = CeilDiv(p.m, p.spec.tile_m)
  BY LaidSizes, Tiles
<1>3. PICK J \in Nat : J = CeilDiv(p.n, p.spec.tile_n)
  BY LaidSizes, Tiles
<1>4. p.wgs = IF p.spec.swap_grid THEN (0..(J - 1)) \X (0..(I * K - 1)) ELSE (0..(I - 1)) \X (0..(J * K - 1))
  <2>1. p.spec.tile_n * p.spec.passes = p.spec.tile_n
    BY LaidSizes DEF Laid
  <2>2. p.wgs = ComputeGrid(p.spec, p.m, p.n)
    BY DEF Laid
  <2>3. QED
    BY <1>1, <1>2, <1>3, <2>1, <2>2 DEF ComputeGrid
<1>5. Grid(p) = [row : 0..(I - 1), col : 0..(J - 1), part : 0..(K - 1)]
  BY <1>1, <1>2, <1>3 DEF Grid
<1>6. ASSUME NEW t \in p.wgs PROVE Decompose(p.spec, t) \in Grid(p)
  <2>1. CASE p.spec.swap_grid
    <3>1. t[1] \in 0..(J - 1) /\ t[2] \in 0..(I * K - 1)
      BY <1>4, <2>1
    <3>2. t[2] \div K \in 0..(I - 1) /\ t[2] % K \in 0..(K - 1)
      BY <3>1, SlowAxis
    <3>3. QED
      BY <1>1, <1>5, <2>1, <3>1, <3>2 DEF Decompose
  <2>2. CASE ~p.spec.swap_grid
    <3>1. t[1] \in 0..(I - 1) /\ t[2] \in 0..(J * K - 1)
      BY <1>4, <2>2
    <3>2. t[2] \div K \in 0..(J - 1) /\ t[2] % K \in 0..(K - 1)
      BY <3>1, SlowAxis
    <3>3. QED
      BY <1>1, <1>5, <2>2, <3>1, <3>2 DEF Decompose
  <2>3. QED
    BY <2>1, <2>2
<1>7. ASSUME NEW g \in Grid(p) PROVE \E t \in p.wgs : g = Decompose(p.spec, t)
  <2>1. /\ g.row \in 0..(I - 1) /\ g.col \in 0..(J - 1) /\ g.part \in 0..(K - 1)
        /\ g = [row |-> g.row, col |-> g.col, part |-> g.part]
    BY <1>5
  <2>2. CASE p.spec.swap_grid
    <3>1. PICK x \in 0..(I * K - 1) : x \div K = g.row /\ x % K = g.part
      BY <2>1, SlowAxis
    <3>2. PICK t : t = <<g.col, x>>
      OBVIOUS
    <3>3. t \in p.wgs /\ t[1] = g.col /\ t[2] = x
      BY <1>4, <2>1, <2>2, <3>2
    <3>4. Decompose(p.spec, t) = [row |-> g.row, col |-> g.col, part |-> g.part]
      BY <1>1, <2>2, <3>1, <3>3 DEF Decompose
    <3>5. QED
      BY <2>1, <3>3, <3>4
  <2>3. CASE ~p.spec.swap_grid
    <3>1. PICK x \in 0..(J * K - 1) : x \div K = g.col /\ x % K = g.part
      BY <2>1, SlowAxis
    <3>2. PICK t : t = <<g.row, x>>
      OBVIOUS
    <3>3. t \in p.wgs /\ t[1] = g.row /\ t[2] = x
      BY <1>4, <2>1, <2>3, <3>2
    <3>4. Decompose(p.spec, t) = [row |-> g.row, col |-> g.col, part |-> g.part]
      BY <1>1, <2>3, <3>1, <3>3 DEF Decompose
    <3>5. QED
      BY <2>1, <3>3, <3>4
  <2>4. QED
    BY <2>2, <2>3
<1>8. QED
  BY <1>6, <1>7

\* None of them leaves early: each has a row to compute.
LEMMA NoneLeaves ==
  ASSUME NEW p \in Problems, Laid(p), NEW g \in Grid(p)
  PROVE  ~LeavesEarly(p, g)
<1>1. PICK I \in Nat : I = CeilDiv(p.m, p.spec.tile_m)
  BY LaidSizes, Tiles
<1>2. g.row \in Nat /\ g.row < I
  BY <1>1 DEF Grid
<1>3. PICK m \in Nat \ {0}, t \in Nat \ {0}, r \in Nat : m = p.m /\ t = p.spec.tile_m /\ r = g.row
  BY <1>2, LaidSizes
<1>4. r * t < m
  BY <1>1, <1>2, <1>3, Tiles
<1>5. r * t \in Nat
  OBVIOUS
<1>6. p.args.m = m
  BY <1>3 DEF Laid
<1>7. QED
  BY <1>3, <1>4, <1>5, <1>6 DEF LeavesEarly

\* The partitions are whole tiles that make up K.
LEMMA WholeParts ==
  ASSUME NEW p \in Problems, Laid(p)
  PROVE  /\ KEnd(p.spec, p.args.k) % p.spec.tile_k = 0
         /\ KEnd(p.spec, p.args.k) * p.spec.split_k = p.args.k
<1>1. PICK K \in Nat \ {0}, t \in Nat \ {0}, k \in Nat :
        K = p.spec.split_k /\ t = p.spec.tile_k /\ k = p.args.k
  BY LaidSizes
<1>2. PICK T \in Nat \ {0} : T = t * K
  OBVIOUS
<1>3. k % T = 0
  BY <1>1, <1>2 DEF Laid
<1>4. PICK q \in Nat : k = q * T
  <2>1. k \div T \in Nat /\ k = (k \div T) * T
    BY <1>3
  <2>2. QED
    BY <2>1
<1>5. PICK e \in Nat : e = q * t
  OBVIOUS
<1>6. k = e * K /\ k = (q * K) * t /\ q * K \in Nat
  BY <1>2, <1>4, <1>5
<1>7. CeilDiv(k, t) * t = k
  <2>1. PICK c \in Nat : c = q * K
    OBVIOUS
  <2>2. k + t - 1 = c * t + (t - 1) /\ t - 1 \in 0..(t - 1)
    BY <1>6, <2>1
  <2>3. PICK d \in Nat, r \in 0..(t - 1) : d = (k + t - 1) \div t /\ k + t - 1 = d * t + r
    <3>1. k + t - 1 \in Nat
      OBVIOUS
    <3>2. (k + t - 1) \div t \in Nat /\ (k + t - 1) % t \in 0..(t - 1)
          /\ k + t - 1 = ((k + t - 1) \div t) * t + ((k + t - 1) % t)
      BY <3>1
    <3>3. QED
      BY <3>2
  <2>4. d = c
    <3>1. d * t + r = c * t + (t - 1)
      BY <2>2, <2>3
    <3>2. QED
      BY <2>2, <3>1, SameDigits
  <2>5. QED
    BY <1>6, <2>1, <2>3, <2>4 DEF CeilDiv
<1>8. k \div K = e
  <2>1. PICK d \in Nat, r \in 0..(K - 1) : d = k \div K /\ k = d * K + r
    OBVIOUS
  <2>2. d * K + r = e * K + 0 /\ 0 \in 0..(K - 1)
    BY <1>6, <2>1
  <2>3. QED
    BY <2>1, <2>2, SameDigits
<1>9. KEnd(p.spec, p.args.k) = e
  BY <1>1, <1>7, <1>8 DEF KEnd
<1>10. e % t = 0
  <2>1. PICK d \in Nat, r \in 0..(t - 1) : r = e % t /\ e = d * t + r
    OBVIOUS
  <2>2. d * t + r = q * t + 0 /\ 0 \in 0..(t - 1)
    BY <1>5, <2>1
  <2>3. QED
    BY <2>1, <2>2, SameDigits
<1>11. QED
  BY <1>1, <1>6, <1>9, <1>10

\* Where the store of a block of accumulators puts what a lane holds.
Row(p, g, w, r, x) == g.row * p.spec.tile_m + w * RowsPerWave(p.spec) + 16 * r + x
Column(p, g, c, z) == g.col * p.spec.tile_n + 16 * c + z
Blocked(p) == Grid(p) \X (0..(NWaves(p.spec) - 1)) \X (0..(NRowBlocks(p.spec) - 1))
                      \X (0..(NColTiles(p.spec) - 1))
Addresses(p, b) ==
  {YAddress(p, b[1].part, e) : e \in
     {q \in {Stores(p.spec, b[1], b[2], lv[1], b[3], b[4], lv[2]) : lv \in (0..31) \X (0..7)} :
        StoreMask(p, q)}}
AddressAt(p, b, x, z, a) ==
  /\ x \in 0..15 /\ z \in 0..15
  /\ Row(p, b[1], b[2], b[3], x) \in 0..(p.m - 1)
  /\ Column(p, b[1], b[4], z) \in 0..(p.args.n - 1)
  /\ a = b[1].part * p.args.y_stride + Row(p, b[1], b[2], b[3], x) * p.args.n + Column(p, b[1], b[4], z)

LEMMA BlockParts ==
  ASSUME NEW p \in Problems, Laid(p), NEW b \in Blocked(p)
  PROVE  /\ b = <<b[1], b[2], b[3], b[4]>>
         /\ b[1] = [row |-> b[1].row, col |-> b[1].col, part |-> b[1].part]
         /\ b[1] \in Grid(p) /\ b[1].row \in Nat /\ b[1].col \in Nat
         /\ Digit(b[1].part, p.spec.split_k)
         /\ Digit(b[2], NWaves(p.spec)) /\ Digit(b[3], NRowBlocks(p.spec)) /\ Digit(b[4], NColTiles(p.spec))
<1>1. PICK I \in Nat, J \in Nat : I = CeilDiv(p.m, p.spec.tile_m) /\ J = CeilDiv(p.n, p.spec.tile_n)
  BY LaidSizes, Tiles
<1>2. b[1] \in Grid(p) /\ b = <<b[1], b[2], b[3], b[4]>>
      /\ b[2] \in 0..(NWaves(p.spec) - 1) /\ b[3] \in 0..(NRowBlocks(p.spec) - 1)
      /\ b[4] \in 0..(NColTiles(p.spec) - 1)
  BY DEF Blocked
<1>3. b[1] \in [row : 0..(I - 1), col : 0..(J - 1), part : 0..(p.spec.split_k - 1)]
  BY <1>1, <1>2 DEF Grid
<1>4. QED
  BY <1>2, <1>3 DEF Digit

\* A block stores inside Y.
LEMMA StoredIn ==
  ASSUME NEW p \in Problems, Laid(p), NEW b \in Blocked(p), NEW a \in Addresses(p, b)
  PROVE  \E x, z : AddressAt(p, b, x, z, a)
<1>0. PICK e \in {Stores(p.spec, b[1], b[2], lv[1], b[3], b[4], lv[2]) : lv \in (0..31) \X (0..7)} :
        StoreMask(p, e) /\ a = YAddress(p, b[1].part, e)
  BY DEF Addresses
<1>1. PICK lane \in 0..31, v \in 0..7 :
        /\ e = Stores(p.spec, b[1], b[2], lane, b[3], b[4], v) /\ StoreMask(p, e)
        /\ a = YAddress(p, b[1].part, e)
  BY <1>0
<1>2. PICK x \in 0..15, z \in 0..15 : x = (lane \div 16) + 2 * v /\ z = lane % 16
  BY LanePlace
<1>3. PICK row, col : row = Row(p, b[1], b[2], b[3], x) /\ col = Column(p, b[1], b[4], z)
  OBVIOUS
<1>4. PICK W, R, C \in Nat \ {0}, m, n, N \in Nat \ {0} :
        /\ W = NWaves(p.spec) /\ R = NRowBlocks(p.spec) /\ C = NColTiles(p.spec)
        /\ p.spec.tile_m = 16 * W * R /\ p.spec.tile_n = 16 * C /\ RowsPerWave(p.spec) = 16 * R
        /\ m = p.m /\ n = p.n /\ N = p.args.n
  BY LaidSizes
<1>5. PICK g \in Nat, h \in Nat, w \in 0..(W - 1), r \in 0..(R - 1), c \in 0..(C - 1) :
        g = b[1].row /\ h = b[1].col /\ w = b[2] /\ r = b[3] /\ c = b[4]
  BY <1>4, BlockParts DEF Digit
<1>6. row = g * (16 * W * R) + w * (16 * R) + 16 * r + x /\ col = h * (16 * C) + 16 * c + z
  BY <1>3, <1>4, <1>5 DEF Row, Column
<1>7. row \in Nat /\ row < g * (16 * W * R) + 16 * W * R
  <2>1. row = Place(W, R, g, w, r, x)
    BY <1>6 DEF Place
  <2>2. QED
    BY <2>1, InsideTile
<1>8. col \in Nat /\ col < h * (16 * C) + 16 * C
  <2>1. PICK One \in Nat \ {0}, zero \in Nat : One = 1 /\ zero = 0 /\ zero \in 0..(One - 1)
    OBVIOUS
  <2>2. Place(C, One, h, c, zero, z) \in Nat
        /\ Place(C, One, h, c, zero, z) < h * (16 * C * One) + 16 * C * One
    BY <2>1, InsideTile
  <2>3. Place(C, One, h, c, zero, z) = col /\ 16 * C * One = 16 * C
    BY <1>6, <2>1 DEF Place
  <2>4. QED
    BY <2>2, <2>3
<1>9. e = <<row, col>>
  <2>1. row = b[1].row * p.spec.tile_m + b[2] * RowsPerWave(p.spec) + 16 * b[3] + (lane \div 16) + 2 * v
    <3>1. PICK A \in Nat : A = g * (16 * W * R) + w * (16 * R) + 16 * r
      OBVIOUS
    <3>2. PICK l \in Nat, k \in Nat : l = lane \div 16 /\ k = 2 * v
      OBVIOUS
    <3>3. row = A + l + k
      BY <1>2, <1>6, <3>1, <3>2
    <3>4. QED
      BY <1>4, <1>5, <3>1, <3>2, <3>3
  <2>2. QED
    BY <1>1, <1>2, <1>3, <2>1 DEF Stores, Column
<1>10. a = b[1].part * p.args.y_stride + row * p.args.n + col
  BY <1>1, <1>9 DEF YAddress
<1>11. row < m /\ col < N
  <2>1. CASE p.spec.gen = "tile_ir" /\ ~p.spec.acc_swap
    <3>1. e[1] < p.args.m /\ e[2] < p.args.n
      BY <1>1, <2>1 DEF StoreMask
    <3>2. p.args.m = m
      BY <1>4 DEF Laid
    <3>3. QED
      BY <1>4, <1>9, <3>1, <3>2
  <2>2. CASE p.spec.gen = "gemm_gen" \/ p.spec.acc_swap
    <3>1. m % p.spec.tile_m = 0 /\ n % p.spec.tile_n = 0 /\ N >= n
      BY <1>4, <2>2 DEF Laid
    <3>2. PICK T \in Nat \ {0}, U \in Nat \ {0} : T = 16 * W * R /\ U = 16 * C
      OBVIOUS
    <3>3. b[1].row < CeilDiv(m, T) /\ b[1].col < CeilDiv(n, U)
      <4>1. PICK I \in Nat, J \in Nat : I = CeilDiv(m, T) /\ J = CeilDiv(n, U)
        BY Tiles
      <4>2. b[1] \in [row : 0..(I - 1), col : 0..(J - 1), part : 0..(p.spec.split_k - 1)]
        BY <1>4, <3>2, <4>1, BlockParts DEF Grid
      <4>3. QED
        BY <4>1, <4>2
    <3>4. g * T + T <= m
      BY <1>4, <1>5, <3>1, <3>2, <3>3, Tiles
    <3>5. h * U + U <= n
      BY <1>4, <1>5, <3>1, <3>2, <3>3, Tiles
    <3>6. row < g * T + T /\ col < h * U + U /\ g * T \in Nat /\ h * U \in Nat
      BY <1>7, <1>8, <3>2
    <3>7. QED
      BY <1>7, <1>8, <3>1, <3>4, <3>5, <3>6
  <2>3. QED
    BY <2>1, <2>2 DEF Laid
<1>12. row \in 0..(m - 1) /\ col \in 0..(N - 1)
  BY <1>7, <1>8, <1>11
<1>13. AddressAt(p, b, x, z, a)
  BY <1>3, <1>4, <1>10, <1>12 DEF AddressAt
<1>14. QED
  BY <1>13

\* No two blocks store to one address.
LEMMA StoredApart ==
  ASSUME NEW p \in Problems, Laid(p), NEW b1 \in Blocked(p), NEW b2 \in Blocked(p),
         NEW a, a \in Addresses(p, b1), a \in Addresses(p, b2)
  PROVE  b1 = b2
<1>1. PICK x1, z1 : AddressAt(p, b1, x1, z1, a)
  BY StoredIn
<1>2. PICK x2, z2 : AddressAt(p, b2, x2, z2, a)
  BY StoredIn
<1>3. PICK W, R, C, K \in Nat \ {0}, m, N \in Nat \ {0}, D \in Nat :
        /\ W = NWaves(p.spec) /\ R = NRowBlocks(p.spec) /\ C = NColTiles(p.spec) /\ K = p.spec.split_k
        /\ p.spec.tile_m = 16 * W * R /\ p.spec.tile_n = 16 * C /\ RowsPerWave(p.spec) = 16 * R
        /\ m = p.m /\ N = p.args.n /\ D = p.args.y_stride
  BY LaidSizes
<1>4. PICK row1, col1, row2, col2 :
        /\ row1 = Row(p, b1[1], b1[2], b1[3], x1) /\ col1 = Column(p, b1[1], b1[4], z1)
        /\ row2 = Row(p, b2[1], b2[2], b2[3], x2) /\ col2 = Column(p, b2[1], b2[4], z2)
  OBVIOUS
<1>5. /\ Digit(row1, m) /\ Digit(row2, m) /\ Digit(col1, N) /\ Digit(col2, N)
      /\ Digit(b1[1].part, K) /\ Digit(b2[1].part, K)
      /\ Digit(x1, 16) /\ Digit(x2, 16) /\ Digit(z1, 16) /\ Digit(z2, 16)
      /\ b1[1].part * D + row1 * N + col1 = b2[1].part * D + row2 * N + col2
  <2>1. Digit(b1[1].part, K) /\ Digit(b2[1].part, K)
    BY <1>3, BlockParts
  <2>2. QED
    BY <1>1, <1>2, <1>3, <1>4, <2>1 DEF AddressAt, Digit
<1>6. K > 1 => D >= m * N
  BY <1>3 DEF Laid
<1>7. b1[1].part = b2[1].part /\ row1 = row2 /\ col1 = col2
  BY <1>5, <1>6, OneAddress
<1>8. b1[1].row = b2[1].row /\ b1[2] = b2[2] /\ b1[3] = b2[3]
  <2>1. /\ b1[1].row \in Nat /\ Digit(b1[2], W) /\ Digit(b1[3], R)
        /\ b2[1].row \in Nat /\ Digit(b2[2], W) /\ Digit(b2[3], R)
    BY <1>3, BlockParts
  <2>2. Place(W, R, b1[1].row, b1[2], b1[3], x1) = Place(W, R, b2[1].row, b2[2], b2[3], x2)
    BY <1>3, <1>4, <1>7 DEF Row, Place
  <2>3. QED
    BY <1>5, <2>1, <2>2, OnePlace
<1>9. b1[1].col = b2[1].col /\ b1[4] = b2[4]
  <2>1. PICK One \in Nat \ {0}, zero \in Nat : One = 1 /\ zero = 0 /\ Digit(zero, One)
    BY DEF Digit
  <2>2. PICK h1, h2, c1, c2 \in Nat :
          /\ h1 = b1[1].col /\ h2 = b2[1].col /\ c1 = b1[4] /\ c2 = b2[4]
          /\ Digit(c1, C) /\ Digit(c2, C)
    <3>1. Digit(b1[4], C) /\ Digit(b2[4], C) /\ b1[1].col \in Nat /\ b2[1].col \in Nat
      BY <1>3, BlockParts
    <3>2. QED
      BY <3>1 DEF Digit
  <2>3. h1 * (16 * C) + 16 * c1 + z1 = h2 * (16 * C) + 16 * c2 + z2
    BY <1>3, <1>4, <1>7, <2>2 DEF Column
  <2>4. Place(C, One, h1, c1, zero, z1) = Place(C, One, h2, c2, zero, z2)
    <3>1. c1 \in Nat /\ c2 \in Nat
      BY <2>2 DEF Digit
    <3>2. /\ 16 * C * One = 16 * C
          /\ c1 * (16 * One) + 16 * zero = 16 * c1 /\ c2 * (16 * One) + 16 * zero = 16 * c2
      BY <2>1, <3>1
    <3>3. QED
      BY <1>5, <2>1, <2>3, <3>1, <3>2 DEF Digit, Place
  <2>5. h1 = h2 /\ c1 = c2
    BY <1>5, <2>1, <2>2, <2>4, OnePlace
  <2>6. QED
    BY <2>2, <2>5
<1>10. QED
  BY <1>7, <1>8, <1>9, BlockParts

\* Every element of Y is stored, once for each partition.
LEMMA AllOfY ==
  ASSUME NEW p \in Problems, Laid(p), NEW id \in 0..(p.spec.split_k - 1),
         NEW row \in 0..(p.m - 1), NEW col \in 0..(p.n - 1)
  PROVE  \E b \in Blocked(p) : YAddress(p, id, <<row, col>>) \in Addresses(p, b)
<1>1. PICK W, R, C, K \in Nat \ {0}, m, n, N \in Nat \ {0} :
        /\ W = NWaves(p.spec) /\ R = NRowBlocks(p.spec) /\ C = NColTiles(p.spec) /\ K = p.spec.split_k
        /\ p.spec.tile_m = 16 * W * R /\ p.spec.tile_n = 16 * C /\ RowsPerWave(p.spec) = 16 * R
        /\ m = p.m /\ n = p.n /\ N = p.args.n
  BY LaidSizes
<1>2. row \in Nat /\ col \in Nat /\ row < m /\ col < n
  BY <1>1
<1>3. PICK g \in Nat, w \in 0..(W - 1), r \in 0..(R - 1), x \in 0..15 :
        row = g * (16 * W * R) + w * (16 * R) + 16 * r + x
  <2>1. PICK g \in Nat, w \in 0..(W - 1), r \in 0..(R - 1), x \in 0..15 : row = Place(W, R, g, w, r, x)
    BY <1>2, SomePlace
  <2>2. QED
    BY <2>1 DEF Place
<1>4. PICK h \in Nat, c \in 0..(C - 1), z \in 0..15 : col = h * (16 * C) + 16 * c + z
  <2>1. PICK One \in Nat \ {0} : One = 1
    OBVIOUS
  <2>2. PICK h \in Nat, c \in 0..(C - 1), zero \in Nat, z \in 0..15 :
          zero \in 0..(One - 1) /\ col = Place(C, One, h, c, zero, z)
    <3>1. \E h \in Nat, c \in 0..(C - 1), zero \in 0..(One - 1), z \in 0..15 :
            col = Place(C, One, h, c, zero, z)
      BY <1>2, SomePlace
    <3>2. QED
      BY <3>1
  <2>3. zero = 0 /\ 16 * C * One = 16 * C /\ c * (16 * One) + 16 * zero = 16 * c
    BY <2>1, <2>2
  <2>4. QED
    BY <2>2, <2>3 DEF Place
<1>5. g < CeilDiv(m, 16 * W * R)
  <2>1. PICK T \in Nat \ {0} : T = 16 * W * R
    OBVIOUS
  <2>2. g * T < m
    <3>1. w * (16 * R) \in Nat /\ g * T \in Nat /\ 16 * r + x \in Nat
      BY <2>1
    <3>2. QED
      BY <1>2, <1>3, <2>1, <3>1
  <2>3. QED
    BY <2>1, <2>2, Tiles
<1>6. h < CeilDiv(n, 16 * C)
  <2>1. PICK T \in Nat \ {0} : T = 16 * C
    OBVIOUS
  <2>2. h * T < n
    <3>1. h * T \in Nat /\ 16 * c + z \in Nat
      BY <2>1
    <3>2. QED
      BY <1>2, <1>4, <2>1, <3>1
  <2>3. QED
    BY <2>1, <2>2, Tiles
<1>7. PICK tg : tg = [row |-> g, col |-> h, part |-> id]
  OBVIOUS
<1>8. tg \in Grid(p)
  <2>1. PICK I \in Nat, J \in Nat : I = CeilDiv(p.m, p.spec.tile_m) /\ J = CeilDiv(p.n, p.spec.tile_n)
    BY LaidSizes, Tiles
  <2>2. g \in 0..(I - 1) /\ h \in 0..(J - 1)
    BY <1>1, <1>5, <1>6, <2>1
  <2>3. QED
    BY <1>7, <2>1, <2>2 DEF Grid
<1>9. PICK b : b = <<tg, w, r, c>>
  OBVIOUS
<1>10. b \in Blocked(p) /\ b[1] = tg /\ b[2] = w /\ b[3] = r /\ b[4] = c
  BY <1>1, <1>8, <1>9 DEF Blocked
<1>11. PICK lane \in 0..31, v \in 0..7 : (lane \div 16) + 2 * v = x /\ lane % 16 = z
  BY SomeLane
<1>12. PICK e : e = Stores(p.spec, b[1], b[2], lane, b[3], b[4], v)
  OBVIOUS
<1>13. e = <<row, col>>
  <2>1. g * p.spec.tile_m + w * RowsPerWave(p.spec) + 16 * r + (lane \div 16) + 2 * v = row
    <3>1. PICK A \in Nat : A = g * (16 * W * R) + w * (16 * R) + 16 * r
      OBVIOUS
    <3>2. PICK l \in Nat, k \in Nat : l = lane \div 16 /\ k = 2 * v
      OBVIOUS
    <3>3. row = A + l + k
      BY <1>3, <1>11, <3>1, <3>2
    <3>4. QED
      BY <1>1, <3>1, <3>2, <3>3
  <2>2. h * p.spec.tile_n + 16 * c + (lane % 16) = col
    BY <1>1, <1>4, <1>11
  <2>3. QED
    BY <1>7, <1>10, <1>12, <2>1, <2>2 DEF Stores
<1>14. StoreMask(p, e)
  <2>1. p.args.m = m /\ N >= n
    BY <1>1 DEF Laid
  <2>2. QED
    BY <1>1, <1>2, <1>13, <2>1 DEF StoreMask
<1>15. YAddress(p, id, e) \in Addresses(p, b)
  <2>1. b[1].part = id
    BY <1>7, <1>10
  <2>2. PICK lv : lv = <<lane, v>>
    OBVIOUS
  <2>3. lv \in (0..31) \X (0..7) /\ e = Stores(p.spec, b[1], b[2], lv[1], b[3], b[4], lv[2])
    BY <1>12, <2>2
  <2>4. QED
    BY <1>14, <2>1, <2>3 DEF Addresses
<1>16. QED
  BY <1>10, <1>13, <1>15

\* Finitely many blocks.
LEMMA BlocksFinite ==
  ASSUME NEW p \in Problems, Laid(p)
  PROVE  IsFiniteSet(Blocked(p))
<1>1. PICK W, R, C, K \in Nat \ {0} :
        W = NWaves(p.spec) /\ R = NRowBlocks(p.spec) /\ C = NColTiles(p.spec) /\ K = p.spec.split_k
  BY LaidSizes
<1>2. PICK I \in Nat, J \in Nat : I = CeilDiv(p.m, p.spec.tile_m) /\ J = CeilDiv(p.n, p.spec.tile_n)
  BY LaidSizes, Tiles
<1>3. \A n \in Nat : IsFiniteSet(0..(n - 1))
  BY FS_Interval
<1>4. IsFiniteSet(Grid(p))
  BY <1>1, <1>2, <1>3, FiniteGrid DEF Grid
<1>5. QED
  BY <1>1, <1>3, <1>4, FiniteTuples DEF Blocked

\* The workgroups store every element of Y, once for each partition, and nothing else.
LEMMA StoresAreRight ==
  ASSUME NEW p \in Problems, Laid(p)
  PROVE  StoresRight(p)
<1> DEFINE s == p.spec
           wgs == {wg \in {Decompose(s, t) : t \in p.wgs} : ~LeavesEarly(p, wg)}
           blocks == wgs \X (0..(NWaves(s) - 1)) \X (0..(NRowBlocks(s) - 1)) \X (0..(NColTiles(s) - 1))
           addresses == [b \in blocks |->
              {YAddress(p, b[1].part, e) : e \in
                 {q \in {Stores(s, b[1], b[2], lv[1], b[3], b[4], lv[2]) : lv \in (0..31) \X (0..7)} :
                     StoreMask(p, q)}}]
           stored == [b \in blocks |-> Cardinality(addresses[b])]
           all == UNION {addresses[b] : b \in blocks}
<1>1. wgs = Grid(p)
  BY GridDecomposed, NoneLeaves
<1>2. blocks = Blocked(p)
  BY <1>1 DEF Blocked
<1>3. \A b \in Blocked(p) : addresses[b] = Addresses(p, b)
  BY <1>2 DEF Addresses
<1>4. \A b \in Blocked(p) : stored[b] = Cardinality(addresses[b])
  BY <1>2
<1>5. all = Together(addresses, Blocked(p))
  BY <1>2 DEF Together
<1> HIDE DEF wgs, blocks, addresses, stored, all
<1>6. ASSUME NEW b \in Blocked(p) PROVE addresses[b] \subseteq 0..(p.y - 1)
  <2>1. SUFFICES ASSUME NEW a \in Addresses(p, b) PROVE a \in 0..(p.y - 1)
    BY <1>3
  <2>2. PICK x, z : AddressAt(p, b, x, z, a)
    BY StoredIn
  <2>3. PICK K \in Nat \ {0}, m \in Nat \ {0}, N \in Nat \ {0}, D \in Nat, Y \in Nat :
          K = p.spec.split_k /\ m = p.m /\ N = p.args.n /\ D = p.args.y_stride /\ Y = p.y
    BY LaidSizes
  <2>4. PICK row, col : row = Row(p, b[1], b[2], b[3], x) /\ col = Column(p, b[1], b[4], z)
    OBVIOUS
  <2>5. /\ Digit(b[1].part, K) /\ Digit(row, m) /\ Digit(col, N)
        /\ a = b[1].part * D + row * N + col
    <3>1. Digit(b[1].part, K)
      BY <2>3, BlockParts
    <3>2. QED
      BY <2>2, <2>3, <2>4, <3>1 DEF AddressAt, Digit
  <2>6. a \in 0..((K - 1) * D + m * N - 1)
    BY <2>5, InsideY
  <2>7. Y >= (K - 1) * D + m * N
    BY <2>3 DEF Laid
  <2>8. (K - 1) * D \in Nat /\ m * N \in Nat
    BY <2>3
  <2>9. QED
    BY <2>3, <2>6, <2>7, <2>8
<1>7. all \subseteq 0..(p.y - 1)
  BY <1>5, <1>6 DEF Together
<1>8. \A id \in 0..(s.split_k - 1), row \in 0..(p.m - 1), col \in 0..(p.n - 1) :
         YAddress(p, id, <<row, col>>) \in all
  BY <1>3, <1>5, AllOfY DEF Together
<1>9. SumOf(stored, blocks) = Cardinality(all)
  <2>1. IsFiniteSet(0..(p.y - 1))
    <3>1. PICK Y \in Nat : Y = p.y
      BY LaidSizes
    <3>2. IsFiniteSet(0..(Y - 1))
      BY FS_Interval
    <3>3. QED
      BY <3>1, <3>2
  <2>2. \A b \in Blocked(p) : IsFiniteSet(addresses[b]) /\ stored[b] = Cardinality(addresses[b])
    BY <1>4, <1>6, <2>1, FS_Subset
  <2>3. \A b1, b2 \in Blocked(p) : b1 # b2 => addresses[b1] \cap addresses[b2] = {}
    BY <1>3, StoredApart
  <2>4. QED
    BY <1>2, <1>5, <2>2, <2>3, BlocksFinite, Families
<1>10. MapThenSumSet(LAMBDA b : stored[b], blocks) = Cardinality(all)
  BY <1>9 DEF SumOf
<1>11. KEnd(s, p.args.k) % s.tile_k = 0 /\ KEnd(s, p.args.k) * s.split_k = p.args.k
  BY WholeParts
<1> USE DEF wgs, blocks, addresses, stored, all
<1>12. QED
  BY <1>7, <1>8, <1>10, <1>11 DEF StoresRight

\* A launch's layout of shared memory.
LEMMA LaidBanked ==
  ASSUME NEW p \in Problems, Laid(p)
  PROVE  Banked(p.spec) /\ LdsTotal(p.spec) * 16 <= 65536
<1>1. PICK s : s = p.spec
  OBVIOUS
<1>2. PICK m \in Nat \ {0}, n \in Nat \ {0}, g \in Nat \ {0} : m = s.tile_m /\ n = s.tile_n /\ g = s.wg_size
  BY <1>1, ProblemsAssumption
<1>3. PICK C \in {2, 4, 8, 16, 32} : C = ChunksPerRow(s)
  BY <1>1 DEF Laid
<1>4. \A mat \in {"X", "WT"} : LoadsPerThread(s, mat) \in Nat
  <2>1. (m * C) \div g \in Nat /\ (n * C) \div g \in Nat
    OBVIOUS
  <2>2. QED
    BY <1>2, <1>3, <2>1 DEF LoadsPerThread, TileRows
<1>5. s.tile_k = 16 => ChunksPerRow(s) = 2
  BY DEF ChunksPerRow
<1>6. /\ s.gen \in {"tile_ir", "gemm_gen"} /\ s.wg_size % 32 = 0 /\ LdsTotal(s) * 16 <= 65536
      /\ \A mat \in {"X", "WT"} : LoadsPerThread(s, mat) * s.wg_size = TileRows(s, mat) * ChunksPerRow(s)
      /\ s.gen = "tile_ir" => RowsPerPass(s) % 8 = 0 /\ (s.acc_swap => s.tile_k = 16)
  BY <1>1 DEF Laid
<1>7. QED
  BY <1>1, <1>2, <1>3, <1>4, <1>5, <1>6 DEF Banked

\* Each chunk a thread loads is read from where it was put, and no two share an address;
\* the workgroups of a launch store every element of Y once for each partition, and
\* nothing outside: LayoutRight, for every tile, number of waves and problem size that
\* both generators' address arithmetic is made for (Laid).
THEOREM LayoutsAreRight ==
  ASSUME \A p \in Problems : Laid(p)
  PROVE  Spec => []LayoutRight
<1>1. Init => InStep
  BY InitInStep
<1>2. InStep /\ [Next]_vars => InStep'
  BY NextInStep
<1>3. InStep => LayoutRight
  <2>1. ASSUME NEW p \in Problems PROVE LayoutOf(p)
    BY LaidBanked, LdsIsRight, StoresAreRight DEF LayoutOf
  <2>2. InStep => problem \in Problems
    BY DEF InStep
  <2>3. QED
    BY <2>1, <2>2 DEF LayoutRight
<1>4. QED
  BY <1>1, <1>2, <1>3, PTL DEF Spec
=============================================================================
