---------------------------- MODULE GemmProducts ----------------------------
(***************************************************************************)
(* The GEMM kernels are right: for every kernel that lower_gemm or         *)
(* gemm_gen can make, whatever its tiles, its number of waves and the      *)
(* length of its loop, what a launch stores for a block of the result is   *)
(* the sum of the products of its share of K, each of them once.           *)
(*                                                                         *)
(* The proof has three parts.  The first goes along the generators.  A     *)
(* wave in front of an instruction knows something: which register holds   *)
(* which part of a tile, which accumulator the sum of which block, what of *)
(* the tile is added to it.  Every instruction takes what is known to what *)
(* is known behind it (Learns), and every block of a kernel has a trail of *)
(* such steps from what is known at its start to what has to be known at   *)
(* its end (Leads).  The passes over the waits leave the trail alone: a    *)
(* wait teaches nothing.                                                   *)
(*                                                                         *)
(* The second part is about one wave: what it means that a wave knows k    *)
(* (KnowsIn), with loads and stores outstanding, and that issuing one,     *)
(* landing one, adding a product and going on to the next tile keep it.    *)
(*                                                                         *)
(* The third part is the invariant of the running waves (Summing): each    *)
(* wave knows what the trail of its block says where it stands, and the    *)
(* buffer it computes from holds the tile it is at, whole.  The other      *)
(* waves come in at the barrier, where all pieces are stored because each  *)
(* wave stored its own.  That no wave stores to a buffer another computes  *)
(* from is the InStep of GemmKernelProofs; that an operand has arrived     *)
(* when it is read, the Tracked of the same module.                        *)
(***************************************************************************)
EXTENDS GemmKernelProofs

-----------------------------------------------------------------------------
\* What a wave knows in front of an instruction, and learns from it.

\* The row blocks of a wave, the columns of a tile, its steps of K.
RowsOf(s) == 0..(NRowBlocks(s) - 1)
ColumnsOf(s) == 0..(NColTiles(s) - 1)
StepsOf(s) == 0..(KSubSteps(s) - 1)
\* The rows of accumulators: one that the row blocks take turns in, or one each.
AccRowsOf(s) == IF s.acc_swap THEN {0} ELSE RowsOf(s)
\* The products a wave adds from a tile: row block, column and step.
All(s) == RowsOf(s) \X ColumnsOf(s) \X StepsOf(s)

\* The blocks of a tile: rows of X, columns of WT.
InTile(s, mat, block) ==
    \/ mat = "X" /\ block \in RowsOf(s)
    \/ mat = "WT" /\ block \in ColumnsOf(s)

\* The registers a wave moves a piece of a tile through.
Pieces == {"X", "WT"} \X Nat

\* What a wave knows, in front of an instruction, is a record of sets:
\*   frag  <<m, i, h, block, ks>>: the register <<m, i, h>> holds half h of a block of the
\*         tile it computes from, at step ks;
\*   new   the registers that hold a piece of the next tile;
\*   put   the pieces stored to shared memory;
\*   acc   <<a, c, r>>: accumulator <<a, c>> holds the sum of row block r and column c;
\*   slot  <<c, r>>: so does the slot for column c;
\*   temp  <<c, r>>: so does the temporary register;
\*   out   the row blocks stored to memory;
\*   done  the products of the tile that are added.
\* k knows all that l does, but for the parts S; and Weaker, for all parts.
Beside(S, l, k) ==
    /\ "frag" \in S \/ l.frag \subseteq k.frag
    /\ "new" \in S \/ l.new \subseteq k.new
    /\ "put" \in S \/ l.put \subseteq k.put
    /\ "acc" \in S \/ l.acc \subseteq k.acc
    /\ "slot" \in S \/ l.slot \subseteq k.slot
    /\ "temp" \in S \/ l.temp \subseteq k.temp
    /\ "out" \in S \/ l.out \subseteq k.out
    /\ "done" \in S \/ l.done = k.done
Weaker(l, k) == Beside({}, l, k)

\* A wave that knows k and runs x knows l behind it.
Learns(s, x, k, l) ==
    \/ x.op = "wait" /\ Weaker(l, k)
    \/ /\ x.op = "buffer_load" /\ Beside({"new"}, l, k) /\ x.dst \in Pieces
       /\ l.new \subseteq k.new \cup {x.dst}
    \/ /\ x.op = "ds_store" /\ Beside({"put"}, l, k)
       /\ x.src \in k.new /\ l.put \subseteq k.put \cup {x.src}
    \/ /\ x.op = "ds_load" /\ Beside({"frag"}, l, k)
       /\ x.dst \in Frags /\ x.half = x.dst[3]
       /\ \A f \in l.frag :
            \/ f \in k.frag /\ <<f[1], f[2], f[3]>> # x.dst
            \/ InTile(s, x.mat, x.block) /\ f = <<x.dst[1], x.dst[2], x.dst[3], x.block, x.ks>>
    \/ /\ x.op = "wmma" /\ Beside({"acc", "slot", "temp", "done"}, l, k)
       /\ x.a \in {"A", "B"} \X Nat /\ x.b \in {"A", "B"} \X Nat
       /\ x.acc \in AccRowsOf(s) \X ColumnsOf(s)
       /\ \E r \in RowsOf(s), ks \in StepsOf(s) :
            /\ <<x.acc[1], x.acc[2], r>> \in k.acc
            /\ \A h \in {0, 1} : /\ <<x.a[1], x.a[2], h, r, ks>> \in k.frag
                                 /\ <<x.b[1], x.b[2], h, x.acc[2], ks>> \in k.frag
            /\ <<r, x.acc[2], ks>> \notin k.done
            /\ l.done = k.done \cup {<<r, x.acc[2], ks>>}
            /\ \A f \in l.acc :
                 \/ f \in k.acc /\ (f[2] # x.acc[2] \/ (f[1] # x.acc[1] /\ f[3] # r))
                 \/ f = <<x.acc[1], x.acc[2], r>>
            /\ \A f \in l.slot \cup l.temp : f[1] # x.acc[2] \/ f[2] # r
            /\ l.slot \subseteq k.slot /\ l.temp \subseteq k.temp
    \/ /\ x.op = "swap_out" /\ Beside({"slot"}, l, k) /\ x.c \in ColumnsOf(s)
       /\ \A f \in l.slot : IF f[1] = x.c THEN <<0, x.c, f[2]>> \in k.acc ELSE f \in k.slot
    \/ /\ x.op = "swap_in" /\ Beside({"temp"}, l, k)
       /\ \A f \in l.temp : f[1] = x.c /\ f \in k.slot
    \/ /\ x.op = "move_temp" /\ Beside({"acc"}, l, k) /\ x.c \in ColumnsOf(s)
       /\ \A f \in l.acc :
            IF f[1] = 0 /\ f[2] = x.c THEN <<x.c, f[3]>> \in k.temp ELSE f \in k.acc
    \/ /\ x.op = "y_store" /\ Beside({"out"}, l, k)
       /\ k.done = All(s) /\ \A c \in ColumnsOf(s) : <<x.accRow, c, x.r>> \in k.acc
       /\ l.out \subseteq k.out \cup {x.r}
    \/ /\ x.op = "barrier" /\ Weaker(l, k)
       /\ \A mat \in {"X", "WT"} : \A i \in 0..(LoadsPerThread(s, mat) - 1) : <<mat, i>> \in k.put
    \/ /\ x.op = "advance" /\ Beside({"done"}, l, k)
       /\ k.done = All(s) /\ l.done = {} /\ l.frag = {} /\ l.new = {} /\ l.put = {} /\ l.out = {}

\* The partial sums a block starts from.
HomeAcc(s) == {f \in AccRowsOf(s) \X ColumnsOf(s) \X RowsOf(s) : f[1] = f[3]}
\* And the slots, when row blocks take turns: those of the second one.
HomeSlot(s) == IF s.acc_swap THEN {f \in ColumnsOf(s) \X RowsOf(s) : f[2] = 1} ELSE {}
\* What is known in front of a block, and what behind it.
Start(s, b) ==
    [frag |-> {}, new |-> {}, put |-> {}, out |-> {}, temp |-> {},
     acc |-> IF b = "prologue" THEN AccRowsOf(s) \X ColumnsOf(s) \X RowsOf(s) ELSE HomeAcc(s),
     slot |-> IF b = "prologue" THEN {} ELSE HomeSlot(s),
     done |-> IF b \in {"prologue", "store"} THEN All(s) ELSE {}]
\* And behind it: a block that loads a tile hands on the next one with nothing of it
\* added, the epilogue hands on the sums, and "store" has stored them.
End(s, b) ==
    [frag |-> {}, new |-> {}, put |-> {}, temp |-> {},
     out |-> IF b = "store" THEN RowsOf(s) ELSE {},
     acc |-> IF b = "store" THEN {} ELSE HomeAcc(s),
     slot |-> IF b = "store" THEN {} ELSE HomeSlot(s),
     done |-> IF b \in Main THEN {} ELSE All(s)]

\* t[i] is what is known behind the first i instructions of q, from k to l.
Trail(s, q, k, t, l) ==
    /\ Weaker(t[0], k) /\ Weaker(l, t[Len(q)])
    /\ \A i \in 1..Len(q) : Learns(s, q[i], t[i - 1], t[i])
\* There is a trail along q from k to l.
Leads(s, q, k, l) == IsSeq(q) /\ \E t : Trail(s, q, k, t, l)

-----------------------------------------------------------------------------
(* What is true of a wave that knows k.                                    *)

\* The first element of K of a wave's share, and of the tile it computes from.
First == KStart(Spc, problem.args.k, part)
Current(w) == First + kIter[w] - Spc.tile_k

\* The steps of K summed for row block r and column c, n elements of K from f on being
\* begun, and of the last tile the steps of done finished.
Summed(s, f, n, r, c, done) ==
    {k \in f..(f + n - 1) :
        k % 16 = 0 /\ (k < f + n - s.tile_k \/ <<r, c, (k - (f + n - s.tile_k)) \div 16>> \in done)}
\* Half a fragment, a product of two fragments, and the sum of what was Summed.
FragOf(block, half, k) == [block |-> block, half |-> half, k |-> {k}]
ProductOf(r, c, k) ==
    <<<<FragOf(r, 0, k), FragOf(r, 1, k)>>, <<FragOf(c, 0, k), FragOf(c, 1, k)>>>>
\* The sum of row block r and column c is the bag of its products.
Total(s, f, n, r, c, done) == SetToBag({ProductOf(r, c, k) : k \in Summed(s, f, n, r, c, done)})

\* A register holds a half of a fragment, or the last load for it will bring it.
Loads(o, p) == o.op = "ds_load" /\ o.dst = p
Fetches(s, o, bufs, half, block, ks) ==
    /\ o.buf \in bufs /\ InTile(s, o.mat, block)
    /\ o.block = block /\ o.ks = ks /\ o.half = half
\* The half of a fragment that register p holds or waits for: q are the operations of
\* shared memory that are outstanding, R the registers, n the element of K the tile
\* starts at, bufs the buffer it is in.
PartIn(q, R, s, bufs, n, p, half, block, ks) ==
    \/ \E j \in 1..Len(q) : /\ Loads(q[j], p) /\ Fetches(s, q[j], bufs, half, block, ks)
                            /\ \A m \in (j + 1)..Len(q) : ~Loads(q[m], p)
    \/ /\ \A m \in 1..Len(q) : ~Loads(q[m], p)
       /\ p \in DOMAIN R /\ R[p] = FragOf(block, half, n + 16 * ks)
\* So it is for all that is known of fragments; and below for the other sets.
FragsIn(q, R, s, bufs, n, F) ==
    \A f \in F : /\ <<f[1], f[2], f[3]>> \in Frags
                 /\ PartIn(q, R, s, bufs, n, <<f[1], f[2], f[3]>>, f[3], f[4], f[5])

\* A register holds a piece of the next tile, or the last load for it will.
NewIn(q, R, n, p) ==
    \/ \E j \in 1..Len(q) : /\ q[j].dst = p /\ q[j].k = n
                            /\ \A m \in (j + 1)..Len(q) : q[m].dst # p
    \/ (\A m \in 1..Len(q) : q[m].dst # p) /\ p \in DOMAIN R /\ R[p] = n
\* So it is for all of P.
NewsIn(q, R, n, P) == \A p \in P : p \in Pieces /\ NewIn(q, R, n, p)

\* A piece is in shared memory, or the store is outstanding.
PutIn(q, L, s, w, bufs, n, p) ==
    \/ \E j \in 1..Len(q) : q[j].op = "ds_store" /\ q[j].src = p
    \/ \A u \in bufs : L[u][p[1]][p[2] * NWaves(s) + w] = n
\* So it is for all of P that move through shared memory.
PutsIn(q, L, s, w, bufs, n, P) ==
    \A p \in P : p \in Pieces /\ (p[2] < LoadsPerThread(s, p[1]) => PutIn(q, L, s, w, bufs, n, p))

\* A slot holds v, or did when only the first n operations were outstanding.
SwapsOut(o, c) == o.op = "swap_out" /\ o.c = c
\* Slot c holds v once the first n of the outstanding operations have landed.
SlotIn(q, n, S, c, v) ==
    \/ \E j \in 1..n : /\ SwapsOut(q[j], c) /\ q[j].value = v
                       /\ \A m \in (j + 1)..n : ~SwapsOut(q[m], c)
    \/ (\A m \in 1..n : ~SwapsOut(q[m], c)) /\ S[c] = v
\* So it is for the sums of F.
SlotsIn(q, S, s, f, n, F, done) ==
    \A x \in F : /\ x[1] \in ColumnsOf(s) /\ x[2] \in RowsOf(s)
                 /\ SlotIn(q, Len(q), S, x[1], Total(s, f, n, x[2], x[1], done))

\* The temporary holds v, or will when the last exchange has come in.
TempIn(q, R, S, c, v) ==
    \/ \E j \in 1..Len(q) : /\ q[j].op = "swap_in" /\ q[j].c = c /\ SlotIn(q, j - 1, S, c, v)
                            /\ \A m \in (j + 1)..Len(q) : q[m].op # "swap_in"
    \/ /\ \A m \in 1..Len(q) : q[m].op # "swap_in"
       /\ <<"temp">> \in DOMAIN R /\ R[<<"temp">>] = v
\* So it is for the sums of F.
TempsIn(q, R, S, s, f, n, F, done) ==
    \A x \in F : /\ x[1] \in ColumnsOf(s) /\ x[2] \in RowsOf(s)
                 /\ TempIn(q, R, S, x[1], Total(s, f, n, x[2], x[1], done))

\* The accumulators, and what was stored.
AccsIn(A, s, f, n, F, done) ==
    \A x \in F : /\ x[1] \in AccRowsOf(s) /\ x[2] \in ColumnsOf(s) /\ x[3] \in RowsOf(s)
                 /\ A[<<x[1], x[2]>>] = Total(s, f, n, x[3], x[2], done)
\* The whole sums of the row blocks F are stored.
OutsIn(Y, s, f, n, F) ==
    \A r \in F : \A c \in ColumnsOf(s) : <<r, c>> \in DOMAIN Y /\ Y[<<r, c>>] = Total(s, f, n, r, c, All(s))

\* The wave is behind the barrier at the end of a tile.
Passed(w) == at[w].block \in Main /\ at[w].i >= Len(code[at[w].block])
\* All that k says is true, of wave w in block b with n elements of K begun; behind the
\* barrier the pieces it stored are of a tile that is whole already.
KnowsIn(s, b, passed, w, f, n, q, v, R, A, S, Y, L, k) ==
    /\ FragsIn(q, R, s, LoadBufs(b), f + n - s.tile_k, k.frag)
    /\ NewsIn(v, R, f + n, k.new)
    /\ passed \/ PutsIn(q, L, s, w, StoreBufs(b), f + n, k.put)
    /\ AccsIn(A, s, f, n, k.acc, k.done)
    /\ SlotsIn(q, S, s, f, n, k.slot, k.done)
    /\ TempsIn(q, R, S, s, f, n, k.temp, k.done)
    /\ OutsIn(Y, s, f, n, k.out)
\* It is true of a running wave.
Knows(w, k) ==
    KnowsIn(Spc, at[w].block, Passed(w), w, First, kIter[w], lgkm[w], vm[w], reg[w], acc[w], slot[w],
            y[w], lds, k)

\* The wave is in the prologue, in front of its end.
Opening(w) == at[w].block = "prologue" /\ at[w].i <= Len(code["prologue"])

\* Where the wave is on the trail of its block.
TrailOf(s, q, b) == CHOOSE t : Trail(s, q, Start(s, b), t, End(s, b))
Knowledge(w) == TrailOf(Spc, code[at[w].block], at[w].block)[at[w].i - 1]
\* What the wave knows is what the trail says.
Learned(w) ==
    IF Ended(w) THEN Knows(w, End(Spc, "store"))
    ELSE Knows(w, Knowledge(w)) /\ (Opening(w) => Knowledge(w).done = All(Spc))

\* The buffer the wave computes from holds the tile it is at; the other one holds the
\* next tile, when the wave is behind the barrier.
Slices(s, mat) == 0..(LoadsPerThread(s, mat) * NWaves(s) - 1)
FullIn(L, s, bufs, n) ==
    \A u \in bufs : \A mat \in {"X", "WT"} : \A g \in Slices(s, mat) : L[u][mat][g] = n
\* So it is in front of the barrier, and behind it.
Filled(w) ==
    IF Passed(w)
    THEN FullIn(lds, Spc, StoreBufs(at[w].block),
                First + kIter[w] - IF at[w].i = Len(code[at[w].block]) THEN 0 ELSE Spc.tile_k)
    ELSE FullIn(lds, Spc, LoadBufs(at[w].block), Current(w))

\* k_iter is at a tile of the wave's share of K, and the address the wave loads from is
\* at the same.
Counted(w) ==
    LET end == KEnd(Spc, problem.args.k) IN
    /\ kIter[w] \in Nat /\ kIter[w] % Spc.tile_k = 0
    /\ IF at[w].block \notin Main THEN kIter[w] = end
       ELSE IF at[w].i > Len(code[at[w].block]) THEN kIter[w] <= end ELSE kIter[w] < end
    /\ IF Opening(w) THEN kIter[w] = 0 ELSE kIter[w] >= Spc.tile_k
    /\ kOff[w] = kIter[w] + IF Spc.gen = "gemm_gen" THEN First ELSE 0

\* What is outstanding: pieces of the next tile, and fragments.
LoadsIn(q) == \A j \in 1..Len(q) : q[j].dst \in Pieces
\* A store is of a piece of the next tile, to the wave's own slice.
OpsIn(q, s, w, n) ==
    \A j \in 1..Len(q) :
        /\ q[j].op = "ds_load" => q[j].dst \in Frags
        /\ q[j].op = "ds_store" => /\ q[j].src \in Pieces /\ q[j].value = n
                                   /\ q[j].slice = q[j].src[2] * NWaves(s) + w
Queues(w) == LoadsIn(vm[w]) /\ OpsIn(lgkm[w], Spc, w, First + kIter[w])

\* The variables have their shapes.
Shaped ==
    /\ part \in Nat /\ DOMAIN kOff = Waves /\ DOMAIN reg = Waves
    /\ DOMAIN acc = Waves /\ DOMAIN slot = Waves /\ DOMAIN y = Waves
    /\ \A w \in Waves : DOMAIN acc[w] = AccRowsOf(Spc) \X ColumnsOf(Spc) /\ DOMAIN slot[w] = ColumnsOf(Spc)
    /\ DOMAIN lds = {0, 1} /\ \A u \in {0, 1} : DOMAIN lds[u] = {"X", "WT"}
    /\ \A u \in {0, 1} : \A mat \in {"X", "WT"} : DOMAIN lds[u][mat] = Slices(Spc, mat)

\* The inductive invariant, beside InStep and Tracked.
Right(w) == Counted(w) /\ Filled(w) /\ Queues(w) /\ Learned(w)
Summing ==
    /\ Shaped
    /\ \A b \in WorkBlocks : Leads(Spc, code[b], Start(Spc, b), End(Spc, b))
    /\ \A w \in Waves : Right(w)

-----------------------------------------------------------------------------
\* That what is known is led along the pieces of the generated code.

\* Weaker is an order.
LEMMA WeakerOrder ==
  /\ \A k : Weaker(k, k)
  /\ \A k, l, m : Weaker(k, l) /\ Weaker(l, m) => Weaker(k, m)
<1>1. ASSUME NEW k, NEW l, NEW m, Weaker(k, l), Weaker(l, m) PROVE Weaker(k, m)
  BY <1>1 DEF Weaker, Beside
<1>2. QED
  BY <1>1 DEF Weaker, Beside

\* Who knows more still learns it.
LEMMA LearnsFrom ==
  ASSUME NEW s, NEW x, NEW k, NEW l, Learns(s, x, k, l), NEW m, Weaker(k, m)
  PROVE  Learns(s, x, m, l)
<1>1. /\ k.frag \subseteq m.frag /\ k.new \subseteq m.new /\ k.put \subseteq m.put
      /\ k.acc \subseteq m.acc /\ k.slot \subseteq m.slot /\ k.temp \subseteq m.temp
      /\ k.out \subseteq m.out /\ k.done = m.done
  BY DEF Weaker, Beside
<1>2. \A S : Beside(S, l, k) => Beside(S, l, m)
  BY <1>1 DEF Beside
<1>3. x.op \in {"wait", "buffer_load", "ds_store", "barrier", "advance"} => Learns(s, x, m, l)
  BY <1>1, <1>2 DEF Learns, Weaker
<1>4. x.op = "ds_load" => Learns(s, x, m, l)
  BY <1>1, <1>2 DEF Learns
<1>5. ASSUME x.op = "wmma" PROVE Learns(s, x, m, l)
  <2>1. /\ Beside({"acc", "slot", "temp", "done"}, l, k)
        /\ x.a \in {"A", "B"} \X Nat /\ x.b \in {"A", "B"} \X Nat
        /\ x.acc \in AccRowsOf(s) \X ColumnsOf(s)
    BY <1>5 DEF Learns
  <2>2. PICK r \in RowsOf(s), ks \in StepsOf(s) :
            /\ <<x.acc[1], x.acc[2], r>> \in k.acc
            /\ \A h \in {0, 1} : /\ <<x.a[1], x.a[2], h, r, ks>> \in k.frag
                                 /\ <<x.b[1], x.b[2], h, x.acc[2], ks>> \in k.frag
            /\ <<r, x.acc[2], ks>> \notin k.done
            /\ l.done = k.done \cup {<<r, x.acc[2], ks>>}
            /\ \A f \in l.acc :
                 \/ f \in k.acc /\ (f[2] # x.acc[2] \/ (f[1] # x.acc[1] /\ f[3] # r))
                 \/ f = <<x.acc[1], x.acc[2], r>>
            /\ \A f \in l.slot \cup l.temp : f[1] # x.acc[2] \/ f[2] # r
            /\ l.slot \subseteq k.slot /\ l.temp \subseteq k.temp
    BY <1>5 DEF Learns
  <2>3. /\ <<x.acc[1], x.acc[2], r>> \in m.acc
        /\ \A h \in {0, 1} : /\ <<x.a[1], x.a[2], h, r, ks>> \in m.frag
                             /\ <<x.b[1], x.b[2], h, x.acc[2], ks>> \in m.frag
    BY <1>1, <2>2
  <2>4. /\ <<r, x.acc[2], ks>> \notin m.done
        /\ l.done = m.done \cup {<<r, x.acc[2], ks>>}
        /\ l.slot \subseteq m.slot /\ l.temp \subseteq m.temp
    BY <1>1, <2>2
  <2>5. \A f \in l.acc :
                 \/ f \in m.acc /\ (f[2] # x.acc[2] \/ (f[1] # x.acc[1] /\ f[3] # r))
                 \/ f = <<x.acc[1], x.acc[2], r>>
    BY <1>1, <2>2
  <2>6. Beside({"acc", "slot", "temp", "done"}, l, m)
    BY <1>2, <2>1
  <2>7. QED
    BY <1>5, <2>1, <2>2, <2>3, <2>4, <2>5, <2>6 DEF Learns
<1>6. x.op \in {"swap_out", "swap_in", "move_temp"} => Learns(s, x, m, l)
  BY <1>1, <1>2 DEF Learns
<1>7. x.op = "y_store" => Learns(s, x, m, l)
  BY <1>1, <1>2 DEF Learns
<1>8. x.op \in {"wait", "buffer_load", "ds_store", "barrier", "advance", "ds_load", "wmma",
               "swap_out", "swap_in", "move_temp", "y_store"}
  BY DEF Learns
<1>9. QED
  BY <1>3, <1>4, <1>5, <1>6, <1>7, <1>8

\* What was known can be forgotten, before and after.
LEMMA LeadsWeaker ==
  ASSUME NEW s, NEW q, NEW k, NEW l, Leads(s, q, k, l),
         NEW m, Weaker(k, m), NEW n, Weaker(n, l)
  PROVE  Leads(s, q, m, n)
<1>1. PICK t : Trail(s, q, k, t, l)
  BY DEF Leads
<1>2. Trail(s, q, m, t, n)
  BY <1>1, WeakerOrder DEF Trail
<1>3. QED
  BY <1>2 DEF Leads

\* One instruction.
LEMMA LeadsOne ==
  ASSUME NEW s, NEW x, NEW k, NEW l, Learns(s, x, k, l)
  PROVE  Leads(s, <<x>>, k, l)
<1>1. PICK t : t = [i \in 0..1 |-> IF i = 0 THEN k ELSE l]
  OBVIOUS
<1>2. t[0] = k /\ t[1] = l
  BY <1>1
<1>3. PICK q : q = <<x>>
  OBVIOUS
<1>4. Len(q) = 1 /\ q[1] = x /\ q \in Seq({x})
  BY <1>3
<1>5. \A i \in 1..Len(q) : i = 1 /\ i - 1 = 0
  BY <1>4
<1>6. Trail(s, q, k, t, l)
  BY <1>2, <1>4, <1>5, WeakerOrder DEF Trail
<1>7. QED
  BY <1>3, <1>4, <1>6 DEF Leads, IsSeq

\* No instruction.
LEMMA LeadsNothing ==
  ASSUME NEW s, NEW k, NEW l, Weaker(l, k)
  PROVE  Leads(s, << >>, k, l)
<1>1. PICK t : t = [i \in {0} |-> k]
  OBVIOUS
<1>2. t[0] = k
  BY <1>1
<1>3. PICK q : q = << >>
  OBVIOUS
<1>4. Len(q) = 0 /\ q \in Seq({})
  BY <1>3
<1>5. Trail(s, q, k, t, l)
  BY <1>2, <1>4, WeakerOrder DEF Trail
<1>6. QED
  BY <1>3, <1>4, <1>5 DEF Leads, IsSeq

\* One list after the other.
LEMMA LeadsThen ==
  ASSUME NEW s, NEW p, NEW q, NEW k, NEW l, NEW m, Leads(s, p, k, l), Leads(s, q, l, m)
  PROVE  Leads(s, p \o q, k, m)
<1>1. PICK t : Trail(s, p, k, t, l)
  BY DEF Leads
<1>2. PICK u : Trail(s, q, l, u, m)
  BY DEF Leads
<1>3. IsSeq(p) /\ IsSeq(q) /\ IsSeq(p \o q)
  BY JoinIsSeq DEF Leads
<1>4. PICK a \in Nat : a = Len(p)
  BY <1>3, EmptyOrNot
<1>5. PICK b \in Nat : b = Len(q)
  BY <1>3, EmptyOrNot
<1>6. PICK r : r = p \o q
  OBVIOUS
<1>7. /\ Len(r) = a + b /\ \A i \in 1..a : r[i] = p[i]
      /\ \A i \in 1..b : r[a + i] = q[i]
  BY <1>3, <1>4, <1>5, <1>6, JoinParts
<1>8. PICK v : v = [i \in 0..(a + b) |-> IF i <= a THEN t[i] ELSE u[i - a]]
  OBVIOUS
<1>9. /\ \A i \in 0..a : v[i] = t[i]
      /\ \A i \in 1..b : v[a + i] = u[i]
  BY <1>8
<1>10. Weaker(u[0], t[a])
  BY <1>1, <1>2, <1>4, WeakerOrder DEF Trail
<1>11. Weaker(v[0], k)
  BY <1>1, <1>9 DEF Trail
<1>12. Weaker(m, v[a + b])
  <2>1. CASE b = 0
    <3>1. Weaker(m, u[0]) /\ v[a + b] = t[a]
      BY <1>2, <1>5, <1>9, <2>1 DEF Trail
    <3>2. QED
      BY <1>10, <3>1, WeakerOrder
  <2>2. CASE b # 0
    <3>1. v[a + b] = u[b]
      BY <1>9, <2>2
    <3>2. QED
      BY <1>2, <1>5, <3>1 DEF Trail
  <2>3. QED
    BY <2>1, <2>2
<1>13. ASSUME NEW i \in 1..(a + b) PROVE Learns(s, r[i], v[i - 1], v[i])
  <2>1. CASE i <= a
    <3>1. i \in 1..a /\ i - 1 \in 0..a /\ i \in 0..a
      BY <2>1
    <3>2. Learns(s, p[i], t[i - 1], t[i])
      BY <1>1, <1>4, <3>1 DEF Trail
    <3>3. QED
      BY <1>7, <1>9, <3>1, <3>2
  <2>2. CASE ~(i <= a)
    <3>1. PICK j \in 1..b : i = a + j
      <4>1. i - a \in 1..b /\ i = a + (i - a)
        BY <2>2
      <4>2. QED
        BY <4>1
    <3>2. Learns(s, q[j], u[j - 1], u[j])
      BY <1>2, <1>5, <3>1 DEF Trail
    <3>3. r[i] = q[j] /\ v[i] = u[j]
      BY <1>7, <1>9, <3>1
    <3>4. CASE j = 1
      <4>1. i - 1 = a /\ a \in 0..a /\ j - 1 = 0
        BY <3>1, <3>4
      <4>2. v[i - 1] = t[a]
        BY <1>9, <4>1
      <4>3. Learns(s, q[j], t[a], u[j])
        BY <1>10, <3>2, <4>1, LearnsFrom
      <4>4. QED
        BY <3>3, <4>2, <4>3
    <3>5. CASE j # 1
      <4>1. j - 1 \in 1..b /\ i - 1 = a + (j - 1)
        BY <3>1, <3>5
      <4>2. v[i - 1] = u[j - 1]
        BY <1>9, <4>1
      <4>3. QED
        BY <3>2, <3>3, <4>2
    <3>6. QED
      BY <3>4, <3>5
  <2>3. QED
    BY <2>1, <2>2
<1>14. Trail(s, r, k, v, m)
  BY <1>7, <1>11, <1>12, <1>13 DEF Trail
<1>15. QED
  BY <1>3, <1>6, <1>14 DEF Leads

\* A loop of the generator.
LEMMA LeadsEach ==
  ASSUME NEW s, NEW n \in Nat, NEW ks, NEW g, g = [i \in 1..n |-> g[i]],
         \A i \in 1..n : Leads(s, g[i], ks[i - 1], ks[i])
  PROVE  Leads(s, FlattenSeq(g), ks[0], ks[n])
<1>1. \A i \in 1..n : IsSeq(g[i])
  BY DEF Leads
<1>2. PICK e : /\ e[0] = << >> /\ FlattenSeq(g) = e[n]
               /\ \A i \in 1..n : e[i] = e[i - 1] \o g[i]
  BY <1>1, Flattening
<1> DEFINE T == {i \in Nat : i <= n => Leads(s, e[i], ks[0], ks[i])}
<1>3. 0 \in T
  BY <1>2, LeadsNothing, WeakerOrder
<1>4. ASSUME NEW i \in T PROVE i + 1 \in T
  <2>1. i \in Nat /\ (i + 1) - 1 = i
    OBVIOUS
  <2>2. CASE i + 1 <= n
    <3>1. i + 1 \in 1..n
      BY <2>1, <2>2
    <3>2. e[i + 1] = e[i] \o g[i + 1]
      BY <1>2, <2>1, <3>1
    <3>3. Leads(s, e[i], ks[0], ks[i]) /\ Leads(s, g[i + 1], ks[i], ks[i + 1])
      BY <2>1, <2>2, <3>1
    <3>4. Leads(s, e[i + 1], ks[0], ks[i + 1])
      BY <3>2, <3>3, LeadsThen
    <3>5. QED
      BY <2>1, <3>4
  <2>3. CASE ~(i + 1 <= n)
    BY <2>1, <2>3
  <2>4. QED
    BY <2>2, <2>3
<1>5. T \in SUBSET Nat
  OBVIOUS
<1> HIDE DEF T
<1>6. \A i \in Nat : i \in T
  BY <1>3, <1>4, <1>5, Induction
<1>7. n \in T
  BY <1>6
<1>8. Leads(s, e[n], ks[0], ks[n])
  BY <1>7 DEF T
<1>9. QED
  BY <1>2, <1>8

\* A piece emitted on a condition.
LEMMA LeadsWhen ==
  ASSUME NEW s, NEW k, NEW q, NEW l, NEW cond,
         cond => Leads(s, q, k, l), ~cond => Weaker(l, k)
  PROVE  Leads(s, When(cond, q), k, l)
<1>1. CASE cond
  BY <1>1 DEF When
<1>2. CASE ~cond
  BY <1>2, LeadsNothing DEF When
<1>3. QED
  BY <1>1, <1>2

\* What is known while a tile is computed: N of the loads of the next tile, F of the
\* fragments, A, S and T of the partial sums, D being the products that are done.
Mid(N, F, A, S, T, D) ==
  [frag |-> F, new |-> N, put |-> {}, acc |-> A, slot |-> S, temp |-> T, out |-> {}, done |-> D]

\* Forgetting some of it.
LEMMA MidWeaker ==
  ASSUME NEW N, NEW F, NEW A, NEW S, NEW T, NEW D,
         NEW M, NEW G, NEW B, NEW R, NEW U,
         M \subseteq N, G \subseteq F, B \subseteq A, R \subseteq S, U \subseteq T
  PROVE  Weaker(Mid(M, G, B, R, U, D), Mid(N, F, A, S, T, D))
BY DEF Weaker, Beside, Mid

\* A wait teaches nothing.
LEMMA WaitLeads ==
  ASSUME NEW s, NEW c, NEW n, NEW k, NEW l, Weaker(l, k)
  PROVE  Leads(s, <<Wait(c, n)>>, k, l)
<1>1. PICK x : x = Wait(c, n)
  OBVIOUS
<1>2. x.op = "wait"
  BY <1>1 DEF Wait
<1>3. Learns(s, x, k, l)
  BY <1>2 DEF Learns
<1>4. QED
  BY <1>1, <1>3, LeadsOne

\* The load of half a fragment.
LEMMA HalfLeads ==
  ASSUME NEW s, NEW N, NEW F, NEW A, NEW S, NEW T, NEW D, NEW G,
         NEW m \in {"A", "B"}, NEW i \in Nat, NEW h \in {0, 1}, NEW u, NEW mat, NEW b, NEW ks,
         \A f \in G : \/ f \in F /\ <<f[1], f[2], f[3]>> # <<m, i, h>>
                      \/ InTile(s, mat, b) /\ f = <<m, i, h, b, ks>>
  PROVE  Leads(s, <<DsLoad(<<m, i>>, u, mat, b, ks, h)>>, Mid(N, F, A, S, T, D), Mid(N, G, A, S, T, D))
<1>1. PICK x : x = DsLoad(<<m, i>>, u, mat, b, ks, h)
  OBVIOUS
<1>2. PICK p : p = <<m, i, h>>
  OBVIOUS
<1>3. Append(<<m, i>>, h) = p /\ p \in Frags /\ p[1] = m /\ p[2] = i /\ p[3] = h
  BY <1>2, FragmentHalf
<1>4. /\ x.op = "ds_load" /\ x.dst = p /\ x.mat = mat /\ x.block = b /\ x.ks = ks /\ x.half = h
  BY <1>1, <1>3 DEF DsLoad
<1>5. PICK k : k = Mid(N, F, A, S, T, D)
  OBVIOUS
<1>6. PICK l : l = Mid(N, G, A, S, T, D)
  OBVIOUS
<1>7. Beside({"frag"}, l, k) /\ k.frag = F /\ l.frag = G
  BY <1>5, <1>6 DEF Beside, Mid
<1>8. \A f \in l.frag :
            \/ f \in k.frag /\ <<f[1], f[2], f[3]>> # x.dst
            \/ InTile(s, x.mat, x.block) /\ f = <<x.dst[1], x.dst[2], x.dst[3], x.block, x.ks>>
  BY <1>2, <1>3, <1>4, <1>7
<1>9. Learns(s, x, k, l)
  BY <1>3, <1>4, <1>7, <1>8 DEF Learns
<1>10. QED
  BY <1>1, <1>5, <1>6, <1>9, LeadsOne

\* The loads of a fragment.
LEMMA FragmentsLead ==
  ASSUME NEW s, NEW N, NEW F, NEW A, NEW S, NEW T, NEW D, NEW G,
         NEW m \in {"A", "B"}, NEW i \in Nat, NEW u, NEW mat, NEW b, NEW ks,
         \A f \in G : \/ f \in F /\ ~(f[1] = m /\ f[2] = i)
                      \/ InTile(s, mat, b) /\ \E h \in {0, 1} : f = <<m, i, h, b, ks>>
  PROVE  Leads(s, FragmentLoads(<<m, i>>, u, mat, b, ks), Mid(N, F, A, S, T, D), Mid(N, G, A, S, T, D))
<1> DEFINE H == {f \in G : f \in F \/ f = <<m, i, 0, b, ks>>}
           E == {f \in H : ~(f[1] = m /\ f[2] = i) \/ f = <<m, i, 0, b, ks>>}
<1>1. \A f, h : f = <<m, i, h, b, ks>> => f[1] = m /\ f[2] = i /\ f[3] = h
  OBVIOUS
<1>2. \A f : <<f[1], f[2], f[3]>> = <<m, i, 0>> \/ <<f[1], f[2], f[3]>> = <<m, i, 1>>
               => f[1] = m /\ f[2] = i
  OBVIOUS
<1>3. \A f \in E : \/ f \in F /\ <<f[1], f[2], f[3]>> # <<m, i, 0>>
                   \/ InTile(s, mat, b) /\ f = <<m, i, 0, b, ks>>
  <2> SUFFICES ASSUME NEW f \in E
               PROVE  \/ f \in F /\ <<f[1], f[2], f[3]>> # <<m, i, 0>>
                      \/ InTile(s, mat, b) /\ f = <<m, i, 0, b, ks>>
    OBVIOUS
  <2>1. CASE f = <<m, i, 0, b, ks>>
    BY <1>1, <2>1
  <2>2. CASE f # <<m, i, 0, b, ks>>
    BY <1>2, <2>2
  <2>3. QED
    BY <2>1, <2>2
<1>4. \A f \in G : \/ f \in E /\ <<f[1], f[2], f[3]>> # <<m, i, 1>>
                   \/ InTile(s, mat, b) /\ f = <<m, i, 1, b, ks>>
  <2> SUFFICES ASSUME NEW f \in G
               PROVE  \/ f \in E /\ <<f[1], f[2], f[3]>> # <<m, i, 1>>
                      \/ InTile(s, mat, b) /\ f = <<m, i, 1, b, ks>>
    OBVIOUS
  <2>1. CASE f \in F /\ ~(f[1] = m /\ f[2] = i)
    BY <1>2, <2>1
  <2>2. CASE f = <<m, i, 0, b, ks>>
    <3>1. f[3] = 0 /\ f \in E
      BY <1>1, <2>2
    <3>2. QED
      BY <3>1
  <2>3. CASE InTile(s, mat, b) /\ f = <<m, i, 1, b, ks>>
    BY <2>3
  <2>4. QED
    BY <2>1, <2>2, <2>3
<1> HIDE DEF E, H
<1>5. Leads(s, <<DsLoad(<<m, i>>, u, mat, b, ks, 0)>>, Mid(N, F, A, S, T, D), Mid(N, E, A, S, T, D))
  BY <1>3, HalfLeads
<1>6. Leads(s, <<DsLoad(<<m, i>>, u, mat, b, ks, 1)>>, Mid(N, E, A, S, T, D), Mid(N, G, A, S, T, D))
  BY <1>4, HalfLeads
<1>7. PICK x, z : x = DsLoad(<<m, i>>, u, mat, b, ks, 0) /\ z = DsLoad(<<m, i>>, u, mat, b, ks, 1)
  OBVIOUS
<1>8. FragmentLoads(<<m, i>>, u, mat, b, ks) = <<x>> \o <<z>>
  BY <1>7, TwoParts DEF FragmentLoads
<1>9. QED
  BY <1>5, <1>6, <1>7, <1>8, LeadsThen

\* A product.
LEMMA WmmaLeads ==
  ASSUME NEW s, NEW N, NEW F, NEW A, NEW S, NEW T, NEW D, NEW E,
         NEW a \in AccRowsOf(s), NEW c \in ColumnsOf(s), NEW r \in RowsOf(s), NEW ks \in StepsOf(s),
         NEW m \in {"A", "B"}, NEW i \in Nat, NEW n \in {"A", "B"}, NEW j \in Nat,
         <<a, c, r>> \in A,
         \A h \in {0, 1} : <<m, i, h, r, ks>> \in F /\ <<n, j, h, c, ks>> \in F,
         <<r, c, ks>> \notin D, E = D \cup {<<r, c, ks>>},
         \A f \in A : f = <<a, c, r>> \/ f[2] # c \/ (f[1] # a /\ f[3] # r),
         \A f \in S \cup T : f[1] # c \/ f[2] # r
  PROVE  Leads(s, <<Wmma(<<a, c>>, <<m, i>>, <<n, j>>)>>, Mid(N, F, A, S, T, D), Mid(N, F, A, S, T, E))
<1>1. PICK x : x = Wmma(<<a, c>>, <<m, i>>, <<n, j>>)
  OBVIOUS
<1>2. /\ x.op = "wmma" /\ x.acc = <<a, c>> /\ x.a = <<m, i>> /\ x.b = <<n, j>>
  BY <1>1 DEF Wmma
<1>3. /\ x.acc[1] = a /\ x.acc[2] = c /\ x.a[1] = m /\ x.a[2] = i /\ x.b[1] = n /\ x.b[2] = j
      /\ x.a \in {"A", "B"} \X Nat /\ x.b \in {"A", "B"} \X Nat
      /\ x.acc \in AccRowsOf(s) \X ColumnsOf(s)
  BY <1>2
<1>4. PICK k : k = Mid(N, F, A, S, T, D)
  OBVIOUS
<1>5. PICK l : l = Mid(N, F, A, S, T, E)
  OBVIOUS
<1>6. /\ Beside({"acc", "slot", "temp", "done"}, l, k) /\ k.frag = F /\ l.acc = A /\ k.acc = A
      /\ l.slot = S /\ k.slot = S /\ l.temp = T /\ k.temp = T /\ k.done = D /\ l.done = E
  BY <1>4, <1>5 DEF Beside, Mid
<1>7. /\ <<x.acc[1], x.acc[2], r>> \in k.acc
      /\ \A h \in {0, 1} : /\ <<x.a[1], x.a[2], h, r, ks>> \in k.frag
                           /\ <<x.b[1], x.b[2], h, x.acc[2], ks>> \in k.frag
      /\ <<r, x.acc[2], ks>> \notin k.done
      /\ l.done = k.done \cup {<<r, x.acc[2], ks>>}
  BY <1>3, <1>6
<1>8. /\ \A f \in l.acc :
                 \/ f \in k.acc /\ (f[2] # x.acc[2] \/ (f[1] # x.acc[1] /\ f[3] # r))
                 \/ f = <<x.acc[1], x.acc[2], r>>
      /\ \A f \in l.slot \cup l.temp : f[1] # x.acc[2] \/ f[2] # r
      /\ l.slot \subseteq k.slot /\ l.temp \subseteq k.temp
  BY <1>3, <1>6
<1>9. Learns(s, x, k, l)
  BY <1>2, <1>3, <1>6, <1>7, <1>8 DEF Learns
<1>10. QED
  BY <1>1, <1>4, <1>5, <1>9, LeadsOne

-----------------------------------------------------------------------------
\* The products that are done when they are made step by step and, in a step, column by
\* column.
DoneK(s, k, c, r) ==
  {d \in All(s) : d[3] < k \/ (d[3] = k /\ (d[2] < c \/ (d[2] = c /\ d[1] < r)))}

\* Likewise, row by row in a step.
DoneR(s, k, r, c) ==
  {d \in All(s) : d[3] < k \/ (d[3] = k /\ (d[1] < r \/ (d[1] = r /\ d[2] < c)))}

\* Likewise, step by step in a row.
DoneS(s, r, k, c) ==
  {d \in All(s) : d[1] < r \/ (d[1] = r /\ (d[3] < k \/ (d[3] = k /\ d[2] < c)))}

\* A product is of a row block, a column and a step.
LEMMA AllParts ==
  ASSUME NEW s, Sized(s)
  PROVE  /\ \A d \in All(s) : /\ d = <<d[1], d[2], d[3]>> /\ d[1] \in RowsOf(s) /\ d[2] \in ColumnsOf(s)
                              /\ d[3] \in StepsOf(s)
         /\ \A r \in RowsOf(s), c \in ColumnsOf(s), k \in StepsOf(s) : <<r, c, k>> \in All(s)
         /\ RowsOf(s) \subseteq Nat /\ ColumnsOf(s) \subseteq Nat /\ StepsOf(s) \subseteq Nat
BY DEF All, Sized, RowsOf, ColumnsOf, StepsOf

\* One more product.
LEMMA DoneMore ==
  ASSUME NEW s, Sized(s), NEW r \in RowsOf(s), NEW c \in ColumnsOf(s), NEW k \in StepsOf(s)
  PROVE  /\ <<r, c, k>> \notin DoneK(s, k, c, r)
         /\ DoneK(s, k, c, r + 1) = DoneK(s, k, c, r) \cup {<<r, c, k>>}
         /\ <<r, c, k>> \notin DoneR(s, k, r, c)
         /\ DoneR(s, k, r, c + 1) = DoneR(s, k, r, c) \cup {<<r, c, k>>}
         /\ <<r, c, k>> \notin DoneS(s, r, k, c)
         /\ DoneS(s, r, k, c + 1) = DoneS(s, r, k, c) \cup {<<r, c, k>>}
<1>1. r \in Nat /\ c \in Nat /\ k \in Nat /\ <<r, c, k>> \in All(s)
  BY AllParts
<1>2. \A d \in All(s) : /\ d[1] \in Nat /\ d[2] \in Nat /\ d[3] \in Nat
                        /\ d = <<r, c, k>> <=> d[1] = r /\ d[2] = c /\ d[3] = k
  BY AllParts
<1>3. PICK t : t = <<r, c, k>>
  OBVIOUS
<1>4. t[1] = r /\ t[2] = c /\ t[3] = k
  BY <1>3
<1>5. \A d \in All(s) : d = t <=> d[1] = r /\ d[2] = c /\ d[3] = k
  BY <1>2, <1>3
<1>6. t \notin DoneK(s, k, c, r) /\ t \notin DoneR(s, k, r, c) /\ t \notin DoneS(s, r, k, c)
  BY <1>1, <1>4 DEF DoneK, DoneR, DoneS
<1>7. DoneK(s, k, c, r + 1) = DoneK(s, k, c, r) \cup {t}
  BY <1>1, <1>2, <1>3, <1>5 DEF DoneK
<1>8. DoneR(s, k, r, c + 1) = DoneR(s, k, r, c) \cup {t}
  BY <1>1, <1>2, <1>3, <1>5 DEF DoneR
<1>9. DoneS(s, r, k, c + 1) = DoneS(s, r, k, c) \cup {t}
  BY <1>1, <1>2, <1>3, <1>5 DEF DoneS
<1>10. QED
  BY <1>3, <1>6, <1>7, <1>8, <1>9

\* Where one loop ends the next begins.
LEMMA DoneTurns ==
  ASSUME NEW s, Sized(s), NEW i \in Nat, NEW j \in Nat
  PROVE  /\ DoneK(s, i, j, NRowBlocks(s)) = DoneK(s, i, j + 1, 0)
         /\ DoneK(s, i, NColTiles(s), 0) = DoneK(s, i + 1, 0, 0)
         /\ DoneR(s, i, j, NColTiles(s)) = DoneR(s, i, j + 1, 0)
         /\ DoneR(s, i, NRowBlocks(s), 0) = DoneR(s, i + 1, 0, 0)
         /\ DoneS(s, i, j, NColTiles(s)) = DoneS(s, i, j + 1, 0)
         /\ DoneS(s, i, KSubSteps(s), 0) = DoneS(s, i + 1, 0, 0)
<1>1. \A d \in All(s) : /\ d[1] \in Nat /\ d[2] \in Nat /\ d[3] \in Nat
                        /\ d[1] < NRowBlocks(s) /\ d[2] < NColTiles(s) /\ d[3] < KSubSteps(s)
  <2>1. NRowBlocks(s) \in Nat /\ NColTiles(s) \in Nat /\ KSubSteps(s) \in Nat
    BY DEF Sized
  <2>2. QED
    BY <2>1, AllParts DEF RowsOf, ColumnsOf, StepsOf
<1>2. NRowBlocks(s) \in Nat /\ NColTiles(s) \in Nat /\ KSubSteps(s) \in Nat
  BY DEF Sized
<1>3. /\ DoneK(s, i, j, NRowBlocks(s)) = DoneK(s, i, j + 1, 0)
      /\ DoneK(s, i, NColTiles(s), 0) = DoneK(s, i + 1, 0, 0)
  BY <1>1, <1>2 DEF DoneK
<1>4. /\ DoneR(s, i, j, NColTiles(s)) = DoneR(s, i, j + 1, 0)
      /\ DoneR(s, i, NRowBlocks(s), 0) = DoneR(s, i + 1, 0, 0)
  BY <1>1, <1>2 DEF DoneR
<1>5. /\ DoneS(s, i, j, NColTiles(s)) = DoneS(s, i, j + 1, 0)
      /\ DoneS(s, i, KSubSteps(s), 0) = DoneS(s, i + 1, 0, 0)
  BY <1>1, <1>2 DEF DoneS
<1>6. QED
  BY <1>3, <1>4, <1>5

\* Nothing at first, everything at the end.
LEMMA DoneEnds ==
  ASSUME NEW s, Sized(s)
  PROVE  /\ DoneK(s, 0, 0, 0) = {} /\ DoneK(s, KSubSteps(s), 0, 0) = All(s)
         /\ DoneR(s, 0, 0, 0) = {} /\ DoneR(s, KSubSteps(s), 0, 0) = All(s)
         /\ DoneS(s, 0, 0, 0) = {} /\ DoneS(s, NRowBlocks(s), 0, 0) = All(s)
<1>1. NRowBlocks(s) \in Nat /\ NColTiles(s) \in Nat /\ KSubSteps(s) \in Nat
  BY DEF Sized
<1>2. \A d \in All(s) : /\ d[1] \in Nat /\ d[2] \in Nat /\ d[3] \in Nat
                        /\ d[1] < NRowBlocks(s) /\ d[2] < NColTiles(s) /\ d[3] < KSubSteps(s)
  BY <1>1, AllParts DEF RowsOf, ColumnsOf, StepsOf
<1>3. QED
  BY <1>1, <1>2 DEF DoneK, DoneR, DoneS

\* In the accumulators a block starts from, each row block is in its own.
LEMMA HomeParts ==
  ASSUME NEW s, ~s.acc_swap
  PROVE  /\ AccRowsOf(s) = RowsOf(s)
         /\ \A f \in HomeAcc(s) : f = <<f[1], f[2], f[1]>> /\ f[3] = f[1]
         /\ \A r \in RowsOf(s), c \in ColumnsOf(s) : <<r, c, r>> \in HomeAcc(s)
<1>1. AccRowsOf(s) = RowsOf(s)
  BY DEF AccRowsOf
<1>2. \A f \in AccRowsOf(s) \X ColumnsOf(s) \X RowsOf(s) : f = <<f[1], f[2], f[3]>>
  OBVIOUS
<1>3. \A r \in RowsOf(s), c \in ColumnsOf(s) :
        LET t == <<r, c, r>> IN t \in AccRowsOf(s) \X ColumnsOf(s) \X RowsOf(s) /\ t[1] = t[3]
  BY <1>1
<1>4. QED
  BY <1>1, <1>2, <1>3 DEF HomeAcc

\* A product without exchanged accumulators.
LEMMA HomeProduct ==
  ASSUME NEW s, Sized(s), ~s.acc_swap, NEW N, NEW F, NEW D, NEW E,
         NEW c \in ColumnsOf(s), NEW r \in RowsOf(s), NEW ks \in StepsOf(s),
         NEW i \in Nat, NEW j \in Nat,
         \A h \in {0, 1} : <<"A", i, h, r, ks>> \in F /\ <<"B", j, h, c, ks>> \in F,
         <<r, c, ks>> \notin D, E = D \cup {<<r, c, ks>>}
  PROVE  Leads(s, <<Wmma(<<r, c>>, <<"A", i>>, <<"B", j>>)>>,
               Mid(N, F, HomeAcc(s), {}, {}, D), Mid(N, F, HomeAcc(s), {}, {}, E))
<1>1. r \in AccRowsOf(s) /\ <<r, c, r>> \in HomeAcc(s)
  BY HomeParts
<1>2. \A f \in HomeAcc(s) : f = <<r, c, r>> \/ f[2] # c \/ (f[1] # r /\ f[3] # r)
  BY HomeParts
<1>3. \A f \in {} \cup {} : f[1] # c \/ f[2] # r
  OBVIOUS
<1>4. QED
  BY <1>1, <1>2, <1>3, WmmaLeads

\* The fragments of the first n blocks of a matrix, each in its own register.
Parts(m, n, ks) == {<<m, i, h, i, ks>> : i \in 0..(n - 1), h \in {0, 1}}

\* One more of them.
LEMMA PartsStep ==
  ASSUME NEW m, NEW i \in Nat, NEW ks, NEW f \in Parts(m, i + 1, ks)
  PROVE  f \in Parts(m, i, ks) \/ \E h \in {0, 1} : f = <<m, i, h, i, ks>>
<1>1. PICK j \in 0..((i + 1) - 1), h \in {0, 1} : f = <<m, j, h, j, ks>>
  BY DEF Parts
<1>2. CASE j = i
  BY <1>1, <1>2
<1>3. CASE j # i
  <2>1. j \in 0..(i - 1)
    BY <1>3
  <2>2. QED
    BY <1>1, <2>1 DEF Parts
<1>4. QED
  BY <1>2, <1>3

\* The registers of the first n are those of the first n blocks.
LEMMA PartsNames ==
  ASSUME NEW m, NEW n \in Nat, NEW ks, NEW f \in Parts(m, n, ks)
  PROVE  f[1] = m /\ f[2] # n
<1>1. PICK j \in 0..(n - 1), h \in {0, 1} : f = <<m, j, h, j, ks>>
  BY DEF Parts
<1>2. f[1] = m /\ f[2] = j
  BY <1>1
<1>3. QED
  BY <1>2

\* None of them.
LEMMA PartsNone ==
  ASSUME NEW m, NEW ks
  PROVE  Parts(m, 0, ks) = {}
<1>1. ~\E j \in Int : j \in 0..(0 - 1)
  OBVIOUS
<1>2. QED
  BY <1>1 DEF Parts

\* Both halves of each are there.
LEMMA PartsHave ==
  ASSUME NEW m, NEW i \in Nat, NEW ks, NEW n \in Nat, NEW h \in {0, 1}, i < n
  PROVE  <<m, i, h, i, ks>> \in Parts(m, n, ks)
<1>1. i \in 0..(n - 1)
  OBVIOUS
<1>2. QED
  BY <1>1 DEF Parts

\* The loads of the next block's fragments, beside what is known of other registers.
LEMMA PartLeads ==
  ASSUME NEW s, NEW N, NEW F, NEW A, NEW S, NEW T, NEW D, NEW d \in Nat, NEW m \in {"A", "B"},
         NEW u, NEW mat, NEW ks, InTile(s, mat, d), \A f \in F : f[1] # m
  PROVE  Leads(s, FragmentLoads(<<m, d>>, u, mat, d, ks), Mid(N, F \cup Parts(m, d, ks), A, S, T, D),
              Mid(N, F \cup Parts(m, d + 1, ks), A, S, T, D))
<1>1. \A f \in Parts(m, d + 1, ks) : f \in Parts(m, d, ks) \/ \E h \in {0, 1} : f = <<m, d, h, d, ks>>
  BY PartsStep
<1>2. \A f \in Parts(m, d, ks) : f[1] = m /\ f[2] # d
  BY PartsNames
<1>3. \A f \in F \cup Parts(m, d + 1, ks) :
         \/ f \in F \cup Parts(m, d, ks) /\ ~(f[1] = m /\ f[2] = d)
         \/ InTile(s, mat, d) /\ \E h \in {0, 1} : f = <<m, d, h, d, ks>>
  BY <1>1, <1>2
<1>4. QED
  BY <1>3, FragmentsLead

\* The loads of the fragments of all row blocks, or of all columns, beside what is known
\* of other registers.
LEMMA PartsLead ==
  ASSUME NEW s, NEW N, NEW F, NEW A, NEW S, NEW T, NEW D, NEW n \in Nat, NEW m \in {"A", "B"},
         NEW u, NEW mat, NEW ks, \A i \in 0..(n - 1) : InTile(s, mat, i),
         \A f \in F : f[1] # m, NEW g,
         g = [i \in 1..n |-> FragmentLoads(<<m, i - 1>>, u, mat, i - 1, ks)]
  PROVE  Leads(s, FlattenSeq(g), Mid(N, F, A, S, T, D), Mid(N, F \cup Parts(m, n, ks), A, S, T, D))
<1> DEFINE K == [i \in 0..n |-> Mid(N, F \cup Parts(m, i, ks), A, S, T, D)]
<1>1. g = [i \in 1..n |-> g[i]] /\ \A i \in 1..n : g[i] = FragmentLoads(<<m, i - 1>>, u, mat, i - 1, ks)
  OBVIOUS
<1>2. \A i \in 0..n : K[i] = Mid(N, F \cup Parts(m, i, ks), A, S, T, D)
  OBVIOUS
<1> HIDE DEF K
<1>3. ASSUME NEW i \in 1..n PROVE Leads(s, g[i], K[i - 1], K[i])
  <2>1. PICK d \in Nat : d = i - 1 /\ d + 1 = i /\ d \in 0..(n - 1) /\ d \in 0..n /\ i \in 0..n
    OBVIOUS
  <2>2. InTile(s, mat, d)
    BY <2>1
  <2>3. Leads(s, FragmentLoads(<<m, d>>, u, mat, d, ks), Mid(N, F \cup Parts(m, d, ks), A, S, T, D),
              Mid(N, F \cup Parts(m, d + 1, ks), A, S, T, D))
    BY <2>2, PartLeads
  <2>4. QED
    BY <1>1, <1>2, <2>1, <2>3
<1>4. Leads(s, FlattenSeq(g), K[0], K[n])
  BY <1>1, <1>3, LeadsEach
<1>5. F \cup Parts(m, 0, ks) = F /\ 0 \in 0..n /\ n \in 0..n
  <2>1. Parts(m, 0, ks) = {}
    BY PartsNone
  <2>2. QED
    BY <2>1
<1>6. QED
  BY <1>2, <1>4, <1>5

\* The row blocks and the columns of a wave's part of a tile.
LEMMA TileBlocks ==
  ASSUME NEW s
  PROVE  /\ \A r \in 0..(NRowBlocks(s) - 1) : InTile(s, "X", r)
         /\ \A c \in 0..(NColTiles(s) - 1) : InTile(s, "WT", c)
BY DEF InTile, RowsOf, ColumnsOf

\* The products of a column, one for each row block.
LEMMA ColumnLeads ==
  ASSUME NEW s, Sized(s), ~s.acc_swap, NEW N, NEW F, NEW c \in ColumnsOf(s), NEW ks \in StepsOf(s),
         NEW j \in Nat, \A h \in {0, 1} : <<"B", j, h, c, ks>> \in F,
         \A r \in RowsOf(s), h \in {0, 1} : <<"A", r, h, r, ks>> \in F, NEW p,
         p = [r \in 1..NRowBlocks(s) |-> <<Wmma(<<r - 1, c>>, <<"A", r - 1>>, <<"B", j>>)>>]
  PROVE  Leads(s, FlattenSeq(p), Mid(N, F, HomeAcc(s), {}, {}, DoneK(s, ks, c, 0)),
               Mid(N, F, HomeAcc(s), {}, {}, DoneK(s, ks, c + 1, 0)))
<1>1. PICK n \in Nat : n = NRowBlocks(s)
  BY DEF Sized
<1> DEFINE K == [r \in 0..n |-> Mid(N, F, HomeAcc(s), {}, {}, DoneK(s, ks, c, r))]
<1>2. /\ p = [r \in 1..n |-> p[r]]
      /\ \A r \in 1..n : p[r] = <<Wmma(<<r - 1, c>>, <<"A", r - 1>>, <<"B", j>>)>>
  BY <1>1
<1>3. \A r \in 0..n : K[r] = Mid(N, F, HomeAcc(s), {}, {}, DoneK(s, ks, c, r))
  OBVIOUS
<1> HIDE DEF K
<1>4. ASSUME NEW r \in 1..n PROVE Leads(s, p[r], K[r - 1], K[r])
  <2>1. PICK d \in Nat : d = r - 1 /\ d + 1 = r /\ d \in 0..n /\ r \in 0..n /\ d \in 0..(n - 1)
    OBVIOUS
  <2>2. d \in RowsOf(s)
    BY <1>1, <2>1 DEF RowsOf
  <2>3. /\ <<d, c, ks>> \notin DoneK(s, ks, c, d)
        /\ DoneK(s, ks, c, d + 1) = DoneK(s, ks, c, d) \cup {<<d, c, ks>>}
    BY <2>2, DoneMore
  <2>4. \A h \in {0, 1} : <<"A", d, h, d, ks>> \in F /\ <<"B", j, h, c, ks>> \in F
    BY <2>2
  <2>5. Leads(s, <<Wmma(<<d, c>>, <<"A", d>>, <<"B", j>>)>>,
              Mid(N, F, HomeAcc(s), {}, {}, DoneK(s, ks, c, d)),
              Mid(N, F, HomeAcc(s), {}, {}, DoneK(s, ks, c, d + 1)))
    BY <2>2, <2>3, <2>4, HomeProduct
  <2>6. QED
    BY <1>2, <1>3, <2>1, <2>5
<1>5. Leads(s, FlattenSeq(p), K[0], K[n])
  BY <1>2, <1>4, LeadsEach
<1>6. c \in Nat /\ ks \in Nat
  BY AllParts
<1>7. DoneK(s, ks, c, n) = DoneK(s, ks, c + 1, 0)
  BY <1>1, <1>6, DoneTurns
<1>8. QED
  BY <1>3, <1>5, <1>7

\* Before a step of K, and after it.
LEMMA NextStep ==
  ASSUME NEW s, Sized(s), NEW ks \in StepsOf(s), NEW N, NEW F, NEW A, NEW S, NEW T
  PROVE  Weaker(Mid(N, {}, A, S, T, DoneK(s, ks + 1, 0, 0)), Mid(N, F, A, S, T, DoneK(s, ks, NColTiles(s), 0)))
<1>1. ks \in Nat
  BY AllParts
<1>2. DoneK(s, ks, NColTiles(s), 0) = DoneK(s, ks + 1, 0, 0)
  BY <1>1, DoneTurns
<1>3. QED
  BY <1>2, MidWeaker

\* A step that loads all its fragments and then multiplies.
LEMMA BulkStepLeads ==
  ASSUME NEW s, Sized(s), ~s.acc_swap, NEW N, NEW u, NEW ks \in StepsOf(s)
  PROVE  Leads(s, BulkStep(s, u, ks), Mid(N, {}, HomeAcc(s), {}, {}, DoneK(s, ks, 0, 0)),
               Mid(N, {}, HomeAcc(s), {}, {}, DoneK(s, ks + 1, 0, 0)))
<1> DEFINE rows == NRowBlocks(s)
           cols == NColTiles(s)
           H == HomeAcc(s)
           a == [r \in 1..rows |-> FragmentLoads(<<"A", r - 1>>, u, "X", r - 1, ks)]
           b == [c \in 1..cols |-> FragmentLoads(<<"B", c - 1>>, u, "WT", c - 1, ks)]
           prod(c) == [r \in 1..rows |-> <<Wmma(<<r - 1, c - 1>>, <<"A", r - 1>>, <<"B", c - 1>>)>>]
           p == [c \in 1..cols |-> <<Wait("lgkm", 2 * cols - 2 * (c - 1) - 2)>>
                                     \o FlattenSeq(prod(c))]
           F == ({} \cup Parts("A", rows, ks)) \cup Parts("B", cols, ks)
           K == [c \in 0..cols |-> Mid(N, F, H, {}, {}, DoneK(s, ks, c, 0))]
<1>1. rows \in Nat /\ cols \in Nat /\ ks \in Nat
  BY AllParts DEF Sized
<1>2. BulkStep(s, u, ks) = (FlattenSeq(a) \o FlattenSeq(b)) \o FlattenSeq(p)
  BY DEF BulkStep, Each
<1>3. Leads(s, FlattenSeq(a), Mid(N, {}, H, {}, {}, DoneK(s, ks, 0, 0)),
            Mid(N, {} \cup Parts("A", rows, ks), H, {}, {}, DoneK(s, ks, 0, 0)))
  <2> HIDE DEF H
  <2>1. \A i \in 0..(rows - 1) : InTile(s, "X", i)
    BY TileBlocks
  <2>2. QED
    BY <1>1, <2>1, PartsLead
<1>4. Leads(s, FlattenSeq(b), Mid(N, {} \cup Parts("A", rows, ks), H, {}, {}, DoneK(s, ks, 0, 0)),
            Mid(N, F, H, {}, {}, DoneK(s, ks, 0, 0)))
  <2>1. \A i \in 0..(cols - 1) : InTile(s, "WT", i)
    BY TileBlocks
  <2>2. \A f \in {} \cup Parts("A", rows, ks) : f[1] # "B"
    <3>1. \A f \in Parts("A", rows, ks) : f[1] = "A"
      BY <1>1, PartsNames
    <3>2. QED
      BY <3>1
  <2> HIDE DEF H
  <2>3. QED
    BY <1>1, <2>1, <2>2, PartsLead
<1>5. \A c \in 0..cols : K[c] = Mid(N, F, H, {}, {}, DoneK(s, ks, c, 0))
  OBVIOUS
<1>6. ASSUME NEW c \in 1..cols PROVE Leads(s, p[c], K[c - 1], K[c])
  <2>1. PICK d \in Nat : d = c - 1 /\ d + 1 = c /\ d \in 0..cols /\ c \in 0..cols /\ d < cols
    BY <1>1
  <2>2. d \in ColumnsOf(s)
    BY <1>1, <2>1 DEF ColumnsOf
  <2>3. \A h \in {0, 1} : <<"B", d, h, d, ks>> \in F
    BY <1>1, <2>1, PartsHave
  <2>4. \A r \in RowsOf(s), h \in {0, 1} : <<"A", r, h, r, ks>> \in F
    <3>1. \A r \in RowsOf(s) : r \in Nat /\ r < rows
      BY <1>1 DEF RowsOf
    <3>2. QED
      BY <1>1, <3>1, PartsHave
  <2>5. p[c] = <<Wait("lgkm", 2 * cols - 2 * (c - 1) - 2)>> \o FlattenSeq(prod(c))
    OBVIOUS
  <2>6. prod(c) = [r \in 1..NRowBlocks(s) |-> <<Wmma(<<r - 1, d>>, <<"A", r - 1>>, <<"B", d>>)>>]
    BY <2>1
  <2> HIDE DEF F, p, prod, K
  <2>7. Leads(s, FlattenSeq(prod(c)), Mid(N, F, H, {}, {}, DoneK(s, ks, d, 0)),
              Mid(N, F, H, {}, {}, DoneK(s, ks, d + 1, 0)))
    BY <2>1, <2>2, <2>3, <2>4, <2>6, ColumnLeads
  <2>8. Leads(s, <<Wait("lgkm", 2 * cols - 2 * (c - 1) - 2)>>, K[c - 1], K[c - 1])
    BY WaitLeads, WeakerOrder
  <2>9. QED
    BY <1>5, <2>1, <2>5, <2>7, <2>8, LeadsThen
<1>7. p = [c \in 1..cols |-> p[c]] /\ 0 \in 0..cols /\ cols \in 0..cols
  <2>1. p = [c \in 1..cols |-> p[c]]
    OBVIOUS
  <2> HIDE DEF p, cols
  <2>2. 0 \in 0..cols /\ cols \in 0..cols
    BY <1>1
  <2>3. QED
    BY <2>1, <2>2
<1> HIDE DEF a, b, p, K, F, H, rows, cols
<1>8. Leads(s, FlattenSeq(p), K[0], K[cols])
  BY <1>1, <1>6, <1>7, LeadsEach
<1>9. Leads(s, FlattenSeq(p), Mid(N, F, H, {}, {}, DoneK(s, ks, 0, 0)), Mid(N, F, H, {}, {}, DoneK(s, ks, cols, 0)))
  BY <1>5, <1>7, <1>8
<1>10. Leads(s, BulkStep(s, u, ks), Mid(N, {}, H, {}, {}, DoneK(s, ks, 0, 0)), Mid(N, F, H, {}, {}, DoneK(s, ks, cols, 0)))
  BY <1>2, <1>3, <1>4, <1>9, LeadsThen
<1>11. Weaker(Mid(N, {}, H, {}, {}, DoneK(s, ks + 1, 0, 0)), Mid(N, F, H, {}, {}, DoneK(s, ks, cols, 0)))
  BY NextStep DEF cols
<1>12. QED
  BY <1>10, <1>11, WeakerOrder, LeadsWeaker DEF H

\* The products of a row block, one for each column, each perhaps behind a wait.
LEMMA RowLeads ==
  ASSUME NEW s, Sized(s), ~s.acc_swap, NEW N, NEW F, NEW r \in RowsOf(s), NEW ks \in StepsOf(s),
         \A c \in ColumnsOf(s), h \in {0, 1} : <<"B", c, h, c, ks>> \in F,
         \A h \in {0, 1} : <<"A", r, h, r, ks>> \in F, NEW p,
         p = [c \in 1..NColTiles(s) |-> p[c]],
         \A c \in 1..NColTiles(s) :
            \E n : \/ p[c] = <<Wmma(<<r, c - 1>>, <<"A", r>>, <<"B", c - 1>>)>>
                   \/ p[c] = <<Wait("lgkm", n), Wmma(<<r, c - 1>>, <<"A", r>>, <<"B", c - 1>>)>>
  PROVE  Leads(s, FlattenSeq(p), Mid(N, F, HomeAcc(s), {}, {}, DoneR(s, ks, r, 0)),
               Mid(N, F, HomeAcc(s), {}, {}, DoneR(s, ks, r + 1, 0)))
<1>1. PICK n \in Nat : n = NColTiles(s)
  BY DEF Sized
<1> DEFINE K == [c \in 0..n |-> Mid(N, F, HomeAcc(s), {}, {}, DoneR(s, ks, r, c))]
<1>2. p = [c \in 1..n |-> p[c]]
  BY <1>1
<1>3. \A c \in 0..n : K[c] = Mid(N, F, HomeAcc(s), {}, {}, DoneR(s, ks, r, c))
  OBVIOUS
<1> HIDE DEF K
<1>4. ASSUME NEW c \in 1..n PROVE Leads(s, p[c], K[c - 1], K[c])
  <2>1. PICK d \in Nat : d = c - 1 /\ d + 1 = c /\ d \in 0..n /\ c \in 0..n /\ d \in 0..(n - 1)
    OBVIOUS
  <2>2. d \in ColumnsOf(s)
    BY <1>1, <2>1 DEF ColumnsOf
  <2>3. /\ <<r, d, ks>> \notin DoneR(s, ks, r, d)
        /\ DoneR(s, ks, r, d + 1) = DoneR(s, ks, r, d) \cup {<<r, d, ks>>}
    BY <2>2, DoneMore
  <2>4. \A h \in {0, 1} : <<"A", r, h, r, ks>> \in F /\ <<"B", d, h, d, ks>> \in F
    BY <2>2
  <2>5. r \in Nat
    BY AllParts
  <2>6. PICK x : x = Wmma(<<r, d>>, <<"A", r>>, <<"B", d>>)
    OBVIOUS
  <2>7. Leads(s, <<x>>, Mid(N, F, HomeAcc(s), {}, {}, DoneR(s, ks, r, d)),
              Mid(N, F, HomeAcc(s), {}, {}, DoneR(s, ks, r, d + 1)))
    BY <2>2, <2>3, <2>4, <2>5, <2>6, HomeProduct
  <2>8. Leads(s, <<x>>, K[c - 1], K[c])
    BY <1>3, <2>1, <2>7
  <2>9. PICK m : p[c] = <<x>> \/ p[c] = <<Wait("lgkm", m), x>>
    BY <1>1, <2>1, <2>6
  <2>10. PICK w : w = Wait("lgkm", m)
    OBVIOUS
  <2>11. Leads(s, <<w>>, K[c - 1], K[c - 1])
    BY <2>10, WaitLeads, WeakerOrder
  <2>12. <<w, x>> = <<w>> \o <<x>>
    BY TwoParts
  <2>13. Leads(s, <<w, x>>, K[c - 1], K[c])
    BY <2>8, <2>11, <2>12, LeadsThen
  <2>14. QED
    BY <2>8, <2>9, <2>10, <2>13
<1>5. Leads(s, FlattenSeq(p), K[0], K[n])
  BY <1>2, <1>4, LeadsEach
<1>6. r \in Nat /\ ks \in Nat
  BY AllParts
<1>7. DoneR(s, ks, r, n) = DoneR(s, ks, r + 1, 0)
  BY <1>1, <1>6, DoneTurns
<1>8. QED
  BY <1>3, <1>5, <1>7

\* A step of gemm_gen, one row block after the other.
LEMMA GenStepLeads ==
  ASSUME NEW s, Sized(s), ~s.acc_swap, NRowBlocks(s) >= 1, NEW N, NEW u, NEW ks \in StepsOf(s)
  PROVE  Leads(s, GenStep(s, u, ks), Mid(N, {}, HomeAcc(s), {}, {}, DoneR(s, ks, 0, 0)),
               Mid(N, {}, HomeAcc(s), {}, {}, DoneR(s, ks + 1, 0, 0)))
<1> DEFINE rows == NRowBlocks(s)
           cols == NColTiles(s)
           H == HomeAcc(s)
           row(r) == FragmentLoads(<<"A", r>>, u, "X", r, ks)
           b == [c \in 1..cols |-> FragmentLoads(<<"B", c - 1>>, u, "WT", c - 1, ks)]
           p == [c \in 1..cols |-> <<Wait("lgkm", 2 * cols - 2 * (c - 1) - 2),
                                     Wmma(<<0, c - 1>>, <<"A", 0>>, <<"B", c - 1>>)>>]
           prod(r) == [c \in 1..cols |-> <<Wmma(<<(r - 1) + 1, c - 1>>, <<"A", (r - 1) + 1>>, <<"B", c - 1>>)>>]
           g == [r \in 1..(rows - 1) |-> (row((r - 1) + 1) \o <<Wait("lgkm", 0)>>) \o FlattenSeq(prod(r))]
           PB == Parts("B", cols, ks)
           F(r) == PB \cup Parts("A", r, ks)
           K == [r \in 0..(rows - 1) |-> Mid(N, F(r + 1), H, {}, {}, DoneR(s, ks, r + 1, 0))]
<1>1. rows \in Nat /\ cols \in Nat /\ ks \in Nat /\ rows - 1 \in Nat /\ rows >= 1
  BY AllParts DEF Sized
<1>2. GenStep(s, u, ks) = ((row(0) \o FlattenSeq(b)) \o FlattenSeq(p)) \o FlattenSeq(g)
  BY DEF GenStep, Each
<1>3. \A f \in PB : f[1] # "A"
  <2>1. \A f \in PB : f[1] = "B"
    BY <1>1, PartsNames
  <2>2. QED
    BY <2>1
<1>4. ASSUME NEW r \in Nat, NEW D, r < rows
      PROVE  Leads(s, row(r), Mid(N, F(r), H, {}, {}, D), Mid(N, F(r + 1), H, {}, {}, D))
  <2>1. r \in 0..(rows - 1)
    BY <1>1, <1>4
  <2>2. InTile(s, "X", r)
    BY <2>1, TileBlocks
  <2> HIDE DEF PB, H
  <2>3. QED
    BY <1>3, <2>2, PartLeads
<1>5. \A c \in ColumnsOf(s), r \in Nat, h \in {0, 1} : <<"B", c, h, c, ks>> \in F(r)
  <2>1. \A c \in ColumnsOf(s) : c \in Nat /\ c < cols
    BY <1>1 DEF ColumnsOf
  <2>2. \A c \in ColumnsOf(s), h \in {0, 1} : <<"B", c, h, c, ks>> \in PB
    BY <1>1, <2>1, PartsHave
  <2>3. QED
    BY <2>2
<1>6. \A r \in Nat, h \in {0, 1} : <<"A", r, h, r, ks>> \in F(r + 1)
  <2>1. \A r \in Nat, h \in {0, 1} : <<"A", r, h, r, ks>> \in Parts("A", r + 1, ks)
    <3>1. \A r \in Nat : r + 1 \in Nat /\ r < r + 1
      OBVIOUS
    <3>2. QED
      BY <3>1, PartsHave
  <2>2. QED
    BY <2>1
<1>7. ASSUME NEW r \in Nat, NEW q, r < rows,
             q = [c \in 1..cols |-> q[c]],
             \A c \in 1..cols :
                \E n : \/ q[c] = <<Wmma(<<r, c - 1>>, <<"A", r>>, <<"B", c - 1>>)>>
                       \/ q[c] = <<Wait("lgkm", n), Wmma(<<r, c - 1>>, <<"A", r>>, <<"B", c - 1>>)>>
      PROVE  Leads(s, FlattenSeq(q), Mid(N, F(r + 1), H, {}, {}, DoneR(s, ks, r, 0)),
                   Mid(N, F(r + 1), H, {}, {}, DoneR(s, ks, r + 1, 0)))
  <2>1. r \in RowsOf(s)
    BY <1>1, <1>7 DEF RowsOf
  <2>2. PICK G : G = F(r + 1)
    OBVIOUS
  <2>3. r + 1 \in Nat
    OBVIOUS
  <2>4. \A c \in ColumnsOf(s), h \in {0, 1} : <<"B", c, h, c, ks>> \in G
    BY <1>5, <2>2, <2>3
  <2>5. \A h \in {0, 1} : <<"A", r, h, r, ks>> \in G
    BY <1>6, <2>2
  <2>6. Leads(s, FlattenSeq(q), Mid(N, G, H, {}, {}, DoneR(s, ks, r, 0)),
              Mid(N, G, H, {}, {}, DoneR(s, ks, r + 1, 0)))
    BY <1>7, <2>1, <2>4, <2>5, RowLeads
  <2>7. QED
    BY <2>2, <2>6
<1>8. Leads(s, row(0), Mid(N, {}, H, {}, {}, DoneR(s, ks, 0, 0)),
            Mid(N, Parts("A", 1, ks), H, {}, {}, DoneR(s, ks, 0, 0)))
  <2>1. InTile(s, "X", 0)
    BY <1>1, TileBlocks
  <2>2. Leads(s, row(0), Mid(N, {} \cup Parts("A", 0, ks), H, {}, {}, DoneR(s, ks, 0, 0)),
              Mid(N, {} \cup Parts("A", 0 + 1, ks), H, {}, {}, DoneR(s, ks, 0, 0)))
    BY <2>1, PartLeads
  <2>3. {} \cup Parts("A", 0, ks) = {} /\ {} \cup Parts("A", 0 + 1, ks) = Parts("A", 1, ks)
    BY PartsNone
  <2>4. QED
    BY <2>2, <2>3
<1>9. Leads(s, FlattenSeq(b), Mid(N, Parts("A", 1, ks), H, {}, {}, DoneR(s, ks, 0, 0)),
            Mid(N, F(1), H, {}, {}, DoneR(s, ks, 0, 0)))
  <2>1. \A i \in 0..(cols - 1) : InTile(s, "WT", i)
    BY TileBlocks
  <2>2. \A f \in Parts("A", 1, ks) : f[1] # "B"
    <3>1. \A f \in Parts("A", 1, ks) : f[1] = "A"
      BY PartsNames
    <3>2. QED
      BY <3>1
  <2>3. PICK G : G = Parts("A", 1, ks)
    OBVIOUS
  <2>4. F(1) = G \cup PB
    BY <2>3
  <2>5. Leads(s, FlattenSeq(b), Mid(N, G, H, {}, {}, DoneR(s, ks, 0, 0)),
            Mid(N, G \cup PB, H, {}, {}, DoneR(s, ks, 0, 0)))
    BY <1>1, <2>1, <2>2, <2>3, PartsLead
  <2>6. QED
    BY <2>3, <2>4, <2>5
<1>10. Leads(s, FlattenSeq(p), Mid(N, F(1), H, {}, {}, DoneR(s, ks, 0, 0)),
             Mid(N, F(1), H, {}, {}, DoneR(s, ks, 1, 0)))
  <2>1. p = [c \in 1..cols |-> p[c]]
    OBVIOUS
  <2>2. \A c \in 1..cols :
                \E n : p[c] = <<Wait("lgkm", n), Wmma(<<0, c - 1>>, <<"A", 0>>, <<"B", c - 1>>)>>
    OBVIOUS
  <2>3. 0 + 1 = 1 /\ 0 \in Nat /\ 0 < rows
    BY <1>1
  <2> HIDE DEF p, F, H, rows
  <2>4. Leads(s, FlattenSeq(p), Mid(N, F(0 + 1), H, {}, {}, DoneR(s, ks, 0, 0)),
              Mid(N, F(0 + 1), H, {}, {}, DoneR(s, ks, 0 + 1, 0)))
    BY <1>7, <2>1, <2>2, <2>3
  <2>5. QED
    BY <2>3, <2>4
<1>11. \A r \in 0..(rows - 1) : K[r] = Mid(N, F(r + 1), H, {}, {}, DoneR(s, ks, r + 1, 0))
  OBVIOUS
<1>12. ASSUME NEW r \in 1..(rows - 1) PROVE Leads(s, g[r], K[r - 1], K[r])
  <2>1. PICK i \in Nat : i = (r - 1) + 1 /\ i = r /\ i < rows /\ r - 1 \in 0..(rows - 1) /\ r \in 0..(rows - 1)
    BY <1>1
  <2>2. g[r] = (row(i) \o <<Wait("lgkm", 0)>>) \o FlattenSeq(prod(r))
    BY <2>1
  <2>3. prod(r) = [c \in 1..cols |-> prod(r)[c]]
    OBVIOUS
  <2>4. \A c \in 1..cols : prod(r)[c] = <<Wmma(<<i, c - 1>>, <<"A", i>>, <<"B", c - 1>>)>>
    BY <2>1
  <2> HIDE DEF prod, K, row, H, g, F
  <2>5. Leads(s, FlattenSeq(prod(r)), Mid(N, F(i + 1), H, {}, {}, DoneR(s, ks, i, 0)),
              Mid(N, F(i + 1), H, {}, {}, DoneR(s, ks, i + 1, 0)))
    BY <1>7, <2>1, <2>3, <2>4
  <2>6. Leads(s, row(i), Mid(N, F(i), H, {}, {}, DoneR(s, ks, i, 0)), Mid(N, F(i + 1), H, {}, {}, DoneR(s, ks, i, 0)))
    BY <1>4, <2>1
  <2>7. Leads(s, <<Wait("lgkm", 0)>>, Mid(N, F(i + 1), H, {}, {}, DoneR(s, ks, i, 0)),
              Mid(N, F(i + 1), H, {}, {}, DoneR(s, ks, i, 0)))
    BY WaitLeads, WeakerOrder
  <2>8. Leads(s, g[r], Mid(N, F(i), H, {}, {}, DoneR(s, ks, i, 0)), Mid(N, F(i + 1), H, {}, {}, DoneR(s, ks, i + 1, 0)))
    BY <2>2, <2>5, <2>6, <2>7, LeadsThen
  <2>9. K[r - 1] = Mid(N, F(i), H, {}, {}, DoneR(s, ks, i, 0))
        /\ K[r] = Mid(N, F(i + 1), H, {}, {}, DoneR(s, ks, i + 1, 0))
    BY <1>11, <2>1
  <2>10. QED
    BY <2>8, <2>9
<1>13. g = [r \in 1..(rows - 1) |-> g[r]] /\ 0 \in 0..(rows - 1) /\ rows - 1 \in 0..(rows - 1)
  <2>1. g = [r \in 1..(rows - 1) |-> g[r]]
    OBVIOUS
  <2> HIDE DEF g, rows
  <2>2. 0 \in 0..(rows - 1) /\ rows - 1 \in 0..(rows - 1)
    BY <1>1
  <2>3. QED
    BY <2>1, <2>2
<1> HIDE DEF row, b, p, g, K, F, H, rows, cols, PB
<1>14. Leads(s, FlattenSeq(g), K[0], K[rows - 1])
  BY <1>1, <1>12, <1>13, LeadsEach
<1>15. K[0] = Mid(N, F(1), H, {}, {}, DoneR(s, ks, 1, 0)) /\ K[rows - 1] = Mid(N, F(rows), H, {}, {}, DoneR(s, ks, rows, 0))
  <2>1. 0 + 1 = 1 /\ (rows - 1) + 1 = rows
    BY <1>1
  <2>2. QED
    BY <1>11, <1>13, <2>1
<1>16. Leads(s, GenStep(s, u, ks), Mid(N, {}, H, {}, {}, DoneR(s, ks, 0, 0)), Mid(N, F(rows), H, {}, {}, DoneR(s, ks, rows, 0)))
  BY <1>2, <1>8, <1>9, <1>10, <1>14, <1>15, LeadsThen
<1>17. DoneR(s, ks, rows, 0) = DoneR(s, ks + 1, 0, 0)
  BY <1>1, DoneTurns DEF rows
<1>18. Weaker(Mid(N, {}, H, {}, {}, DoneR(s, ks + 1, 0, 0)), Mid(N, F(rows), H, {}, {}, DoneR(s, ks, rows, 0)))
  BY <1>17, MidWeaker
<1>19. QED
  BY <1>16, <1>18, WeakerOrder, LeadsWeaker DEF H

\* The fragments of B in front of column c of a streaming step: this column's and the
\* next one's.
Streamed(s, c, ks) ==
  {f \in {<<"B", j % 2, h, j, ks>> : j \in ColumnsOf(s), h \in {0, 1}} : f[4] = c \/ f[4] = c + 1}

\* What they are.
LEMMA StreamedParts ==
  ASSUME NEW s, Sized(s), NEW c \in Nat, NEW ks, NEW f \in Streamed(s, c, ks)
  PROVE  /\ f[1] = "B"
         /\ \E j \in ColumnsOf(s), h \in {0, 1} : (j = c \/ j = c + 1) /\ f = <<"B", j % 2, h, j, ks>>
<1>1. PICK j \in ColumnsOf(s), h \in {0, 1} : f = <<"B", j % 2, h, j, ks>> /\ (f[4] = c \/ f[4] = c + 1)
  BY DEF Streamed
<1>2. f[1] = "B" /\ f[4] = j
  BY <1>1
<1>3. QED
  BY <1>1, <1>2

\* A column's fragments are among them.
LEMMA StreamedHave ==
  ASSUME NEW s, NEW c, NEW j \in ColumnsOf(s), j = c \/ j = c + 1, NEW ks, NEW h \in {0, 1}
  PROVE  <<"B", j % 2, h, j, ks>> \in Streamed(s, c, ks)
<1>1. PICK f : f = <<"B", j % 2, h, j, ks>>
  OBVIOUS
<1>2. f[4] = j
  BY <1>1
<1>3. QED
  BY <1>1, <1>2 DEF Streamed

\* The columns of a streaming step, given what its products do.
LEMMA StreamColumnsLead ==
  ASSUME NEW s, Sized(s), NEW N, NEW P, NEW A, NEW S, NEW T, NEW D, NEW u, NEW ks, NEW n,
         \A f \in P : f[1] # "B", NEW products,
         \A c \in ColumnsOf(s) :
            Leads(s, products[c], Mid(N, P \cup Streamed(s, c, ks), A, S, T, D[c]),
                  Mid(N, P \cup Streamed(s, c, ks), A, S, T, D[c + 1]))
  PROVE  Leads(s, StreamColumns(s, u, ks, n, products), Mid(N, P, A, S, T, D[0]),
               Mid(N, P, A, S, T, D[NColTiles(s)]))
<1> DEFINE cols == NColTiles(s)
           B(c) == <<"B", c % 2>>
           later(c) == When(c + 2 < cols, FragmentLoads(B(c), u, "WT", c + 2, ks))
           wait(c) == When(c + 1 < cols, <<Wait("lgkm", IF c + 2 < cols THEN 2 ELSE 0)>>)
           p == [c \in 1..cols |-> (products[c - 1] \o later(c - 1)) \o wait(c - 1)]
           start == <<Wait("lgkm", n)>>
           b0 == FragmentLoads(B(0), u, "WT", 0, ks)
           b1 == FragmentLoads(B(1), u, "WT", 1, ks)
           F(c) == P \cup Streamed(s, c, ks)
           K == [c \in 0..cols |-> Mid(N, F(c), A, S, T, D[c])]
<1>1. cols \in Nat /\ ColumnsOf(s) = 0..(cols - 1)
  BY DEF Sized, ColumnsOf
<1>2. StreamColumns(s, u, ks, n, products) = ((b0 \o b1) \o start) \o FlattenSeq(p)
  BY DEF StreamColumns, Each
<1>3. \A c \in 0..cols : K[c] = Mid(N, F(c), A, S, T, D[c])
  OBVIOUS
<1>4. ASSUME NEW c \in Nat, c + 2 < cols, NEW E
      PROVE  Leads(s, FragmentLoads(<<"B", c % 2>>, u, "WT", c + 2, ks),
                   Mid(N, F(c), A, S, T, E), Mid(N, F(c + 1), A, S, T, E))
  <2>1. c % 2 \in Nat /\ (c + 2) % 2 = c % 2 /\ (c + 1) % 2 # c % 2 /\ c + 1 \in Nat
        /\ (c + 1) + 1 = c + 2 /\ c + 1 # c
    BY DivLemma
  <2>2. c + 2 \in ColumnsOf(s) /\ InTile(s, "WT", c + 2)
    BY <1>1, <1>4 DEF InTile
  <2>3. ASSUME NEW f \in F(c + 1)
        PROVE  \/ f \in F(c) /\ ~(f[1] = "B" /\ f[2] = c % 2)
               \/ InTile(s, "WT", c + 2) /\ \E h \in {0, 1} : f = <<"B", c % 2, h, c + 2, ks>>
    <3>1. CASE f \in P
      BY <3>1
    <3>2. CASE f \in Streamed(s, c + 1, ks)
      <4>1. PICK j \in ColumnsOf(s), h \in {0, 1} : (j = c + 1 \/ j = c + 2) /\ f = <<"B", j % 2, h, j, ks>>
        BY <2>1, <3>2, StreamedParts
      <4>2. CASE j = c + 1
        <5>1. f \in F(c)
          BY <4>1, <4>2, StreamedHave
        <5>2. f[2] = j % 2
          BY <4>1
        <5>3. f[2] # c % 2
          BY <2>1, <4>2, <5>2
        <5>4. QED
          BY <5>1, <5>3
      <4>3. CASE j = c + 2
        BY <2>1, <2>2, <4>1, <4>3
      <4>4. QED
        BY <4>1, <4>2, <4>3
    <3>3. QED
      BY <3>1, <3>2
  <2> HIDE DEF F
  <2>4. QED
    BY <2>1, <2>3, FragmentsLead
<1>5. ASSUME NEW c \in 1..cols PROVE Leads(s, p[c], K[c - 1], K[c])
  <2>1. PICK d \in Nat : d = c - 1 /\ d + 1 = c /\ d \in 0..(cols - 1) /\ d \in 0..cols /\ c \in 0..cols
    BY <1>1
  <2>2. PICK E : E = D[c]
    OBVIOUS
  <2>3. Leads(s, products[d], K[d], Mid(N, F(d), A, S, T, E))
    BY <1>1, <1>3, <2>1, <2>2
  <2>4. p[c] = (products[d] \o later(d)) \o wait(d)
    BY <2>1
  <2>5. Leads(s, later(d), Mid(N, F(d), A, S, T, E), Mid(N, F(c), A, S, T, E))
    <3>1. CASE d + 2 < cols
      <4>1. later(d) = FragmentLoads(<<"B", d % 2>>, u, "WT", d + 2, ks)
        BY <3>1 DEF When
      <4> HIDE DEF later, cols, F
      <4>2. QED
        BY <1>4, <2>1, <3>1, <4>1
    <3>2. CASE ~(d + 2 < cols)
      <4>1. later(d) = << >>
        BY <3>2 DEF When
      <4>2. F(c) \subseteq F(d)
        <5>1. SUFFICES ASSUME NEW f \in Streamed(s, c, ks) PROVE f \in F(d)
          OBVIOUS
        <5>2. PICK j \in ColumnsOf(s), h \in {0, 1} : (j = c \/ j = c + 1) /\ f = <<"B", j % 2, h, j, ks>>
          BY <2>1, StreamedParts
        <5>3. j = d + 1
          BY <1>1, <2>1, <3>2, <5>2
        <5>4. QED
          BY <5>2, <5>3, StreamedHave
      <4>3. Weaker(Mid(N, F(c), A, S, T, E), Mid(N, F(d), A, S, T, E))
        BY <4>2, MidWeaker
      <4>4. QED
        BY <4>1, <4>3, LeadsNothing
    <3>3. QED
      BY <3>1, <3>2
  <2>6. Leads(s, wait(d), K[c], K[c])
    <3>1. PICK w : w = Wait("lgkm", IF d + 2 < cols THEN 2 ELSE 0)
      OBVIOUS
    <3>2. Leads(s, <<w>>, K[c], K[c])
      BY <3>1, WaitLeads, WeakerOrder
    <3>3. wait(d) = When(d + 1 < cols, <<w>>)
      BY <3>1
    <3> HIDE DEF wait, K, cols
    <3>4. QED
      BY <3>2, <3>3, WeakerOrder, LeadsWhen
  <2>7. K[c] = Mid(N, F(c), A, S, T, E) /\ K[c - 1] = K[d]
    BY <1>3, <2>1, <2>2
  <2> HIDE DEF p, K, F, later, wait
  <2>8. QED
    BY <2>3, <2>4, <2>5, <2>6, <2>7, LeadsThen
<1>6. p = [c \in 1..cols |-> p[c]] /\ 0 \in 0..cols /\ cols \in 0..cols
  <2>1. p = [c \in 1..cols |-> p[c]]
    OBVIOUS
  <2> HIDE DEF p, cols
  <2>2. 0 \in 0..cols /\ cols \in 0..cols
    BY <1>1
  <2>3. QED
    BY <2>1, <2>2
<1> DEFINE G == {f \in F(0) : f \in P \/ f[4] = 0}
           e == D[0]
<1>7. Leads(s, b0, Mid(N, P, A, S, T, e), Mid(N, G, A, S, T, e))
  <2>1. ASSUME NEW f \in G
        PROVE  \/ f \in P /\ ~(f[1] = "B" /\ f[2] = 0)
               \/ InTile(s, "WT", 0) /\ \E h \in {0, 1} : f = <<"B", 0, h, 0, ks>>
    <3>1. CASE f \in P
      BY <3>1
    <3>2. CASE f \notin P
      <4>1. f \in Streamed(s, 0, ks) /\ f[4] = 0
        BY <3>2
      <4>2. PICK j \in ColumnsOf(s), h \in {0, 1} : f = <<"B", j % 2, h, j, ks>>
        BY <4>1, StreamedParts
      <4>3. f[4] = j
        BY <4>2
      <4>4. j = 0 /\ j % 2 = 0
        BY <4>1, <4>3
      <4>5. QED
        BY <4>2, <4>4 DEF InTile
    <3>3. QED
      BY <3>1, <3>2
  <2>2. B(0) = <<"B", 0>>
    OBVIOUS
  <2> HIDE DEF G, e
  <2>3. QED
    BY <2>1, <2>2, FragmentsLead
<1>8. Leads(s, b1, Mid(N, G, A, S, T, e), Mid(N, F(0), A, S, T, e))
  <2>1. ASSUME NEW f \in F(0)
        PROVE  \/ f \in G /\ ~(f[1] = "B" /\ f[2] = 1)
               \/ InTile(s, "WT", 1) /\ \E h \in {0, 1} : f = <<"B", 1, h, 1, ks>>
    <3>1. CASE f \in P
      BY <3>1
    <3>2. CASE f \notin P
      <4>1. f \in Streamed(s, 0, ks)
        BY <3>2
      <4>2. PICK j \in ColumnsOf(s), h \in {0, 1} : (j = 0 \/ j = 0 + 1) /\ f = <<"B", j % 2, h, j, ks>>
        BY <4>1, StreamedParts
      <4>3. f[4] = j /\ f[2] = j % 2
        BY <4>2
      <4>4. CASE j = 0
        <5>1. f \in G /\ f[2] = 0
          BY <4>1, <4>3, <4>4
        <5>2. QED
          BY <5>1
      <4>5. CASE j = 1
        <5>1. j % 2 = 1
          BY <4>5
        <5>2. QED
          BY <4>2, <4>5, <5>1 DEF InTile
      <4>6. QED
        BY <4>2, <4>4, <4>5
    <3>3. QED
      BY <3>1, <3>2
  <2>2. B(1) = <<"B", 1>>
    OBVIOUS
  <2> HIDE DEF G, e, F
  <2>3. QED
    BY <2>1, <2>2, FragmentsLead
<1>9. Leads(s, start, Mid(N, F(0), A, S, T, e), Mid(N, F(0), A, S, T, e))
  BY WaitLeads, WeakerOrder
<1>10. K[0] = Mid(N, F(0), A, S, T, e) /\ K[cols] = Mid(N, F(cols), A, S, T, D[cols])
  BY <1>3, <1>6
<1> HIDE DEF K, p, b0, b1, start, F, G, e
<1>11. Leads(s, FlattenSeq(p), K[0], K[cols])
  BY <1>1, <1>5, <1>6, LeadsEach
<1>12. Leads(s, ((b0 \o b1) \o start) \o FlattenSeq(p), Mid(N, P, A, S, T, e), Mid(N, F(cols), A, S, T, D[cols]))
  BY <1>7, <1>8, <1>9, <1>10, <1>11, LeadsThen
<1>13. Weaker(Mid(N, P, A, S, T, D[cols]), Mid(N, F(cols), A, S, T, D[cols]))
  BY MidWeaker DEF F
<1>14. QED
  BY <1>2, <1>12, <1>13, WeakerOrder, LeadsWeaker DEF e

\* A streaming step that is the only one of its tile.
LEMMA StreamStepLeads ==
  ASSUME NEW s, Sized(s), ~s.acc_swap, KSubSteps(s) <= 1, NEW N, NEW u, 0 \in StepsOf(s)
  PROVE  Leads(s, StreamStep(s, u, 0), Mid(N, {}, HomeAcc(s), {}, {}, DoneK(s, 0, 0, 0)),
               Mid(N, {}, HomeAcc(s), {}, {}, DoneK(s, 0 + 1, 0, 0)))
<1> DEFINE rows == NRowBlocks(s)
           cols == NColTiles(s)
           H == HomeAcc(s)
           a(k) == [r \in 1..rows |-> FragmentLoads(<<"A", r - 1>>, u, "X", r - 1, k)]
           next(c) == When(c = cols - 1 /\ 0 + 1 < KSubSteps(s), FlattenSeq(a(0 + 1)))
           p(c) == [r \in 1..rows |->
                     <<Wmma(<<r - 1, c>>, <<"A", r - 1>>, <<"B", c % 2>>)>> \o next(c)]
           products == [c \in 0..(cols - 1) |-> FlattenSeq(p(c))]
           P == {} \cup Parts("A", rows, 0)
           D == [c \in Nat |-> DoneK(s, 0, c, 0)]
<1>1. rows \in Nat /\ cols \in Nat /\ ~(0 + 1 < KSubSteps(s)) /\ ColumnsOf(s) = 0..(cols - 1)
  BY DEF Sized, ColumnsOf
<1>2. StreamStep(s, u, 0) =
        When(0 = 0, FlattenSeq(a(0))) \o StreamColumns(s, u, 0, 2 + IF 0 > 0 THEN 2 * rows ELSE 0, products)
  BY DEF StreamStep, Each
<1>3. StreamStep(s, u, 0) = FlattenSeq(a(0)) \o StreamColumns(s, u, 0, 2, products)
  <2>1. When(0 = 0, FlattenSeq(a(0))) = FlattenSeq(a(0)) /\ 2 + (IF 0 > 0 THEN 2 * rows ELSE 0) = 2
    BY DEF When
  <2>2. QED
    BY <1>2, <2>1
<1>4. Leads(s, FlattenSeq(a(0)), Mid(N, {}, H, {}, {}, DoneK(s, 0, 0, 0)), Mid(N, P, H, {}, {}, DoneK(s, 0, 0, 0)))
  <2>1. \A i \in 0..(rows - 1) : InTile(s, "X", i)
    BY TileBlocks
  <2> HIDE DEF H
  <2>2. QED
    BY <1>1, <2>1, PartsLead
<1>5. \A f \in P : f[1] # "B"
  <2>1. \A f \in Parts("A", rows, 0) : f[1] = "A"
    BY <1>1, PartsNames
  <2>2. QED
    BY <2>1
<1>6. ASSUME NEW c \in ColumnsOf(s)
      PROVE  Leads(s, products[c], Mid(N, P \cup Streamed(s, c, 0), H, {}, {}, D[c]),
                   Mid(N, P \cup Streamed(s, c, 0), H, {}, {}, D[c + 1]))
  <2>1. PICK j : j = c % 2
    OBVIOUS
  <2>2. c \in Nat /\ c + 1 \in Nat /\ j \in Nat
    BY <1>1, <2>1
  <2>3. next(c) = << >>
    BY <1>1 DEF When
  <2>4. PICK q : q = [r \in 1..rows |-> <<Wmma(<<r - 1, c>>, <<"A", r - 1>>, <<"B", j>>)>>]
    OBVIOUS
  <2>5. ASSUME NEW r \in 1..rows PROVE p(c)[r] = q[r]
    <3>1. PICK x : x = Wmma(<<r - 1, c>>, <<"A", r - 1>>, <<"B", j>>)
      OBVIOUS
    <3> HIDE DEF next
    <3>2. p(c)[r] = <<x>> \o << >> /\ q[r] = <<x>>
      BY <2>1, <2>3, <2>4, <3>1
    <3>3. QED
      BY <3>2, OneIsSeq, OneElement
  <2>6. p(c) = q
    <3>1. p(c) = [r \in 1..rows |-> p(c)[r]]
      OBVIOUS
    <3> HIDE DEF p
    <3>2. QED
      BY <2>4, <2>5, <3>1
  <2>7. products[c] = FlattenSeq(q)
    <3>1. products[c] = FlattenSeq(p(c))
      BY <1>1
    <3> HIDE DEF p, products
    <3>2. QED
      BY <2>6, <3>1
  <2>8. PICK G : G = P \cup Streamed(s, c, 0)
    OBVIOUS
  <2>9. \A h \in {0, 1} : <<"B", j, h, c, 0>> \in G
    BY <2>1, <2>8, StreamedHave
  <2>10. \A r \in RowsOf(s), h \in {0, 1} : <<"A", r, h, r, 0>> \in G
    <3>1. \A r \in RowsOf(s) : r \in Nat /\ r < rows
      BY <1>1 DEF RowsOf
    <3>2. \A r \in RowsOf(s), h \in {0, 1} : <<"A", r, h, r, 0>> \in Parts("A", rows, 0)
      BY <1>1, <3>1, PartsHave
    <3>3. QED
      BY <2>8, <3>2
  <2> HIDE DEF P, H, products
  <2>11. Leads(s, FlattenSeq(q), Mid(N, G, HomeAcc(s), {}, {}, DoneK(s, 0, c, 0)),
               Mid(N, G, HomeAcc(s), {}, {}, DoneK(s, 0, c + 1, 0)))
    BY <2>2, <2>4, <2>9, <2>10, ColumnLeads
  <2>12. D[c] = DoneK(s, 0, c, 0) /\ D[c + 1] = DoneK(s, 0, c + 1, 0)
    BY <2>2
  <2>13. QED
    BY <2>7, <2>8, <2>11, <2>12 DEF H
<1>7. D[0] = DoneK(s, 0, 0, 0) /\ D[cols] = DoneK(s, 0, cols, 0)
  <2> HIDE DEF cols
  <2>1. QED
    BY <1>1
<1> HIDE DEF a, products, rows, P, H, D
<1>8. Leads(s, StreamColumns(s, u, 0, 2, products), Mid(N, P, H, {}, {}, D[0]), Mid(N, P, H, {}, {}, D[cols]))
  BY <1>5, <1>6, StreamColumnsLead
<1>9. Leads(s, StreamStep(s, u, 0), Mid(N, {}, H, {}, {}, DoneK(s, 0, 0, 0)), Mid(N, P, H, {}, {}, DoneK(s, 0, cols, 0)))
  BY <1>3, <1>4, <1>7, <1>8, LeadsThen
<1>10. Weaker(Mid(N, {}, H, {}, {}, DoneK(s, 0 + 1, 0, 0)), Mid(N, P, H, {}, {}, DoneK(s, 0, cols, 0)))
  BY NextStep DEF cols
<1>11. QED
  BY <1>9, <1>10, WeakerOrder, LeadsWeaker DEF H

\* What is known where accumulators are exchanged, no fragment being needed any more.
Hold(N, A, S, T, O, D) ==
  [frag |-> {}, new |-> N, put |-> {}, acc |-> A, slot |-> S, temp |-> T, out |-> O, done |-> D]

\* The accumulators, or the slots, all hold the sums of row block r; or those of the first
\* d columns hold those of b already, the others still those of a.
Own(s, r) == {<<0, c, r>> : c \in ColumnsOf(s)}
Kept(s, r) == {<<c, r>> : c \in ColumnsOf(s)}
OwnUpTo(s, a, b, d) == {<<0, c, IF c < d THEN b ELSE a>> : c \in ColumnsOf(s)}
KeptUpTo(s, a, b, d) == {<<c, IF c < d THEN b ELSE a>> : c \in ColumnsOf(s)}

\* Before the first column, and after the last.
LEMMA UpToEnds ==
  ASSUME NEW s, Sized(s), NEW a, NEW b
  PROVE  /\ OwnUpTo(s, a, b, 0) = Own(s, a) /\ OwnUpTo(s, a, b, NColTiles(s)) = Own(s, b)
         /\ KeptUpTo(s, a, b, 0) = Kept(s, a) /\ KeptUpTo(s, a, b, NColTiles(s)) = Kept(s, b)
<1>1. NColTiles(s) \in Nat /\ ColumnsOf(s) = 0..(NColTiles(s) - 1)
  BY DEF Sized, ColumnsOf
<1>2. \A c \in ColumnsOf(s) : /\ (IF c < 0 THEN b ELSE a) = a
                              /\ (IF c < NColTiles(s) THEN b ELSE a) = b
  BY <1>1
<1>3. OwnUpTo(s, a, b, 0) = Own(s, a) /\ KeptUpTo(s, a, b, 0) = Kept(s, a)
  BY <1>2 DEF OwnUpTo, KeptUpTo, Own, Kept
<1>4. OwnUpTo(s, a, b, NColTiles(s)) = Own(s, b) /\ KeptUpTo(s, a, b, NColTiles(s)) = Kept(s, b)
  BY <1>2 DEF OwnUpTo, KeptUpTo, Own, Kept
<1>5. QED
  BY <1>3, <1>4

\* The exchange of one column.
LEMMA ColumnSwaps ==
  ASSUME NEW s, Sized(s), NEW N, NEW O, NEW D, NEW a, NEW b, NEW d \in ColumnsOf(s)
  PROVE  Leads(s, <<SwapIn(d), Wait("lgkm", 0), SwapOut(d), Wait("lgkm", 0), MoveTemp(d)>>,
               Hold(N, OwnUpTo(s, a, b, d), KeptUpTo(s, b, a, d), {}, O, D),
               Hold(N, OwnUpTo(s, a, b, d + 1), KeptUpTo(s, b, a, d + 1), {}, O, D))
<1>1. PICK p, q, r, w : p = SwapIn(d) /\ q = SwapOut(d) /\ r = MoveTemp(d) /\ w = Wait("lgkm", 0)
  OBVIOUS
<1>2. PICK k0 : k0 = Hold(N, OwnUpTo(s, a, b, d), KeptUpTo(s, b, a, d), {}, O, D)
  OBVIOUS
<1>3. PICK k1 : k1 = Hold(N, OwnUpTo(s, a, b, d), KeptUpTo(s, b, a, d), {<<d, b>>}, O, D)
  OBVIOUS
<1>4. PICK k2 : k2 = Hold(N, OwnUpTo(s, a, b, d), KeptUpTo(s, b, a, d + 1), {<<d, b>>}, O, D)
  OBVIOUS
<1>5. PICK k3 : k3 = Hold(N, OwnUpTo(s, a, b, d + 1), KeptUpTo(s, b, a, d + 1), {}, O, D)
  OBVIOUS
<1>6. d \in Nat /\ ColumnsOf(s) \subseteq Nat
  BY AllParts
<1>7. p.op = "swap_in" /\ p.c = d /\ q.op = "swap_out" /\ q.c = d /\ r.op = "move_temp" /\ r.c = d
  BY <1>1 DEF SwapIn, SwapOut, MoveTemp
<1>8. Learns(s, p, k0, k1)
  <2>1. Beside({"temp"}, k1, k0) /\ k1.temp = {<<d, b>>} /\ k0.slot = KeptUpTo(s, b, a, d)
    BY <1>2, <1>3 DEF Hold, Beside
  <2>2. <<d, IF d < d THEN a ELSE b>> \in KeptUpTo(s, b, a, d)
    BY DEF KeptUpTo
  <2>3. ~(d < d)
    BY <1>6
  <2>4. \A f \in k1.temp : f[1] = p.c /\ f \in k0.slot
    BY <1>7, <2>1, <2>2, <2>3
  <2>5. QED
    BY <1>7, <2>1, <2>4 DEF Learns
<1>9. Learns(s, q, k1, k2)
  <2>1. /\ Beside({"slot"}, k2, k1) /\ k2.slot = KeptUpTo(s, b, a, d + 1) /\ k1.slot = KeptUpTo(s, b, a, d)
        /\ k1.acc = OwnUpTo(s, a, b, d)
    BY <1>3, <1>4 DEF Hold, Beside
  <2>2. ASSUME NEW f \in KeptUpTo(s, b, a, d + 1)
        PROVE  IF f[1] = d THEN <<0, d, f[2]>> \in OwnUpTo(s, a, b, d) ELSE f \in KeptUpTo(s, b, a, d)
    <3>1. PICK c \in ColumnsOf(s) : f = <<c, IF c < d + 1 THEN a ELSE b>>
      BY DEF KeptUpTo
    <3>2. CASE c = d
      <4>1. f[1] = d /\ f[2] = a
        BY <1>6, <3>1, <3>2
      <4>2. <<0, d, IF d < d THEN b ELSE a>> \in OwnUpTo(s, a, b, d)
        BY DEF OwnUpTo
      <4>3. ~(d < d)
        BY <1>6
      <4>4. QED
        BY <4>1, <4>2, <4>3
    <3>3. CASE c # d
      <4>1. f[1] = c /\ c < d + 1 <=> c < d
        BY <1>6, <3>1, <3>3
      <4>2. f[1] = c /\ (c < d + 1 <=> c < d)
        BY <1>6, <3>1, <3>3
      <4>3. f = <<c, IF c < d THEN a ELSE b>>
        BY <3>1, <4>2
      <4>4. f \in KeptUpTo(s, b, a, d)
        BY <4>3 DEF KeptUpTo
      <4>5. QED
        BY <3>3, <4>2, <4>4
    <3>4. QED
      BY <3>2, <3>3
  <2>3. \A f \in k2.slot : IF f[1] = q.c THEN <<0, q.c, f[2]>> \in k1.acc ELSE f \in k1.slot
    BY <1>7, <2>1, <2>2
  <2>4. QED
    BY <1>7, <2>1, <2>3 DEF Learns
<1>10. Learns(s, r, k2, k3)
  <2>1. PICK k4 : k4 = Hold(N, OwnUpTo(s, a, b, d + 1), KeptUpTo(s, b, a, d + 1), {<<d, b>>}, O, D)
    OBVIOUS
  <2>2. /\ Beside({"acc"}, k3, k2) /\ k3.acc = OwnUpTo(s, a, b, d + 1) /\ k2.acc = OwnUpTo(s, a, b, d)
        /\ k2.temp = {<<d, b>>}
    BY <1>4, <1>5 DEF Hold, Beside
  <2>3. ASSUME NEW f \in OwnUpTo(s, a, b, d + 1)
        PROVE  IF f[1] = 0 /\ f[2] = d THEN <<d, f[3]>> \in {<<d, b>>} ELSE f \in OwnUpTo(s, a, b, d)
    <3>1. PICK c \in ColumnsOf(s) : f = <<0, c, IF c < d + 1 THEN b ELSE a>>
      BY DEF OwnUpTo
    <3>2. CASE c = d
      <4>1. f[1] = 0 /\ f[2] = d /\ f[3] = b
        BY <1>6, <3>1, <3>2
      <4>2. QED
        BY <4>1
    <3>3. CASE c # d
      <4>1. f[2] = c /\ (c < d + 1 <=> c < d)
        BY <1>6, <3>1, <3>3
      <4>2. f = <<0, c, IF c < d THEN b ELSE a>>
        BY <3>1, <4>1
      <4>3. f \in OwnUpTo(s, a, b, d)
        BY <4>2 DEF OwnUpTo
      <4>4. QED
        BY <3>3, <4>1, <4>3
    <3>4. QED
      BY <3>2, <3>3
  <2>4. \A f \in k3.acc : IF f[1] = 0 /\ f[2] = r.c THEN <<r.c, f[3]>> \in k2.temp ELSE f \in k2.acc
    BY <1>7, <2>2, <2>3
  <2>5. QED
    BY <1>7, <2>2, <2>4 DEF Learns
<1>11. Leads(s, <<p>>, k0, k1) /\ Leads(s, <<q>>, k1, k2) /\ Leads(s, <<r>>, k2, k3)
  BY <1>8, <1>9, <1>10, LeadsOne
<1>12. Leads(s, <<w>>, k1, k1) /\ Leads(s, <<w>>, k2, k2)
  BY <1>1, WaitLeads, WeakerOrder
<1>13. <<q, w, r>> = <<q>> \o (<<w>> \o <<r>>)
  BY TwoParts, ThreeParts
<1>14. <<p, w, q, w, r>> = (<<p>> \o <<w>>) \o (<<q>> \o (<<w>> \o <<r>>))
  <2>1. (<<p>> \o <<w>>) \o <<q, w, r>> = <<p, w, q, w, r>>
    BY FiveParts
  <2>2. QED
    BY <1>13, <2>1
<1>15. Leads(s, <<p>> \o <<w>>, k0, k1)
  BY <1>11, <1>12, LeadsThen
<1>16. Leads(s, <<w>> \o <<r>>, k2, k3)
  BY <1>11, <1>12, LeadsThen
<1>17. Leads(s, <<q>> \o (<<w>> \o <<r>>), k1, k3)
  BY <1>11, <1>16, LeadsThen
<1>18. Leads(s, <<p, w, q, w, r>>, k0, k3)
  BY <1>14, <1>15, <1>17, LeadsThen
<1>19. QED
  BY <1>1, <1>2, <1>5, <1>18

\* The exchange of all of them.
LEMMA AccSwapLeads ==
  ASSUME NEW s, Sized(s), NEW N, NEW O, NEW D, NEW a, NEW b
  PROVE  Leads(s, AccSwap(s), Hold(N, Own(s, a), Kept(s, b), {}, O, D), Hold(N, Own(s, b), Kept(s, a), {}, O, D))
<1>1. PICK cols \in Nat : cols = NColTiles(s)
  BY DEF Sized
<1> DEFINE x == [c \in 1..cols |-> <<SwapIn(c - 1), Wait("lgkm", 0), SwapOut(c - 1),
                                     Wait("lgkm", 0), MoveTemp(c - 1)>>]
           K == [d \in 0..cols |-> Hold(N, OwnUpTo(s, a, b, d), KeptUpTo(s, b, a, d), {}, O, D)]
<1>2. AccSwap(s) = FlattenSeq(x)
  BY <1>1 DEF AccSwap, Each
<1>3. x = [c \in 1..cols |-> x[c]]
  OBVIOUS
<1>4. \A d \in 0..cols : K[d] = Hold(N, OwnUpTo(s, a, b, d), KeptUpTo(s, b, a, d), {}, O, D)
  OBVIOUS
<1>5. ASSUME NEW c \in 1..cols PROVE Leads(s, x[c], K[c - 1], K[c])
  <2>1. PICK d \in Nat : d = c - 1 /\ d + 1 = c /\ d \in 0..cols /\ c \in 0..cols /\ d \in 0..(cols - 1)
    OBVIOUS
  <2>2. d \in ColumnsOf(s)
    BY <1>1, <2>1 DEF ColumnsOf
  <2>3. x[c] = <<SwapIn(d), Wait("lgkm", 0), SwapOut(d), Wait("lgkm", 0), MoveTemp(d)>>
    BY <2>1
  <2> HIDE DEF x, K
  <2>4. K[c - 1] = Hold(N, OwnUpTo(s, a, b, d), KeptUpTo(s, b, a, d), {}, O, D)
        /\ K[c] = Hold(N, OwnUpTo(s, a, b, d + 1), KeptUpTo(s, b, a, d + 1), {}, O, D)
    BY <1>4, <2>1
  <2>5. QED
    BY <2>2, <2>3, <2>4, ColumnSwaps
<1> HIDE DEF x, K
<1>6. Leads(s, FlattenSeq(x), K[0], K[cols])
  BY <1>3, <1>5, LeadsEach
<1>7. /\ K[0] = Hold(N, Own(s, a), Kept(s, b), {}, O, D)
      /\ K[cols] = Hold(N, Own(s, b), Kept(s, a), {}, O, D)
  <2>1. 0 \in 0..cols /\ cols \in 0..cols
    OBVIOUS
  <2>2. QED
    BY <1>1, <1>4, <2>1, UpToEnds
<1>8. QED
  BY <1>2, <1>6, <1>7

\* The products of a row block whose sums are in the accumulators.
LEMMA SwapRowLeads ==
  ASSUME NEW s, Sized(s), s.acc_swap, NEW N, NEW S, NEW r \in RowsOf(s), \A f \in S : f[2] # r, NEW u,
         NEW products, products = [c \in 0..(NColTiles(s) - 1) |-> <<Wmma(<<0, c>>, <<"A", 0>>, <<"B", c % 2>>)>>],
         NEW x, x = [k \in 1..KSubSteps(s) |-> FragmentLoads(<<"A", 0>>, u, "X", r, k - 1)
                                               \o StreamColumns(s, u, k - 1, 2, products)]
  PROVE  Leads(s, FlattenSeq(x), Mid(N, {}, Own(s, r), S, {}, DoneS(s, r, 0, 0)),
               Mid(N, {}, Own(s, r), S, {}, DoneS(s, r + 1, 0, 0)))
<1> DEFINE A == Own(s, r)
           P(k) == {<<"A", 0, h, r, k>> : h \in {0, 1}}
<1>0. \A c \in ColumnsOf(s) : products[c] = <<Wmma(<<0, c>>, <<"A", 0>>, <<"B", c % 2>>)>>
  BY DEF ColumnsOf
<1>1. PICK n \in Nat : n = KSubSteps(s)
  BY DEF Sized
<1>2. r \in Nat
  BY AllParts
<1> DEFINE K == [k \in 0..n |-> Mid(N, {}, A, S, {}, DoneS(s, r, k, 0))]
<1>3. \A k \in 0..n : K[k] = Mid(N, {}, A, S, {}, DoneS(s, r, k, 0))
  OBVIOUS
<1>4. ASSUME NEW k \in StepsOf(s), NEW c \in ColumnsOf(s), NEW F, P(k) \subseteq F,
             \A h \in {0, 1} : <<"B", c % 2, h, c, k>> \in F
      PROVE  Leads(s, products[c], Mid(N, F, A, S, {}, DoneS(s, r, k, c)), Mid(N, F, A, S, {}, DoneS(s, r, k, c + 1)))
  <2>1. c \in Nat /\ c % 2 \in Nat
    BY AllParts
  <2>2. PICK j \in Nat : j = c % 2
    BY <2>1
  <2>3. products[c] = <<Wmma(<<0, c>>, <<"A", 0>>, <<"B", j>>)>>
    BY <1>0, <2>2
  <2>4. 0 \in AccRowsOf(s) /\ <<0, c, r>> \in A
    BY DEF AccRowsOf, Own
  <2>5. \A h \in {0, 1} : <<"A", 0, h, r, k>> \in F /\ <<"B", j, h, c, k>> \in F
    BY <1>4, <2>2
  <2>6. /\ <<r, c, k>> \notin DoneS(s, r, k, c)
        /\ DoneS(s, r, k, c + 1) = DoneS(s, r, k, c) \cup {<<r, c, k>>}
    BY DoneMore
  <2>7. \A f \in A : f = <<0, c, r>> \/ f[2] # c \/ (f[1] # 0 /\ f[3] # r)
    BY DEF Own
  <2>8. \A f \in S \cup {} : f[1] # c \/ f[2] # r
    OBVIOUS
  <2>9. PICK a, T, D, E : a = 0 /\ T = {} /\ D = DoneS(s, r, k, c) /\ E = DoneS(s, r, k, c + 1)
    OBVIOUS
  <2> HIDE DEF A, P
  <2>10. a \in AccRowsOf(s) /\ a \in Nat /\ <<a, c, r>> \in A
    BY <2>4, <2>9
  <2>11. \A f \in A : f = <<a, c, r>> \/ f[2] # c \/ (f[1] # a /\ f[3] # r)
    BY <2>7, <2>9
  <2>12. \A f \in S \cup T : f[1] # c \/ f[2] # r
    BY <2>8, <2>9
  <2>13. <<r, c, k>> \notin D /\ E = D \cup {<<r, c, k>>}
    BY <2>6, <2>9
  <2>14. \A h \in {0, 1} : <<"A", a, h, r, k>> \in F /\ <<"B", j, h, c, k>> \in F
    BY <2>5, <2>9
  <2>15. Leads(s, <<Wmma(<<a, c>>, <<"A", a>>, <<"B", j>>)>>, Mid(N, F, A, S, T, D), Mid(N, F, A, S, T, E))
    BY <2>2, <2>10, <2>11, <2>12, <2>13, <2>14, WmmaLeads
  <2>16. QED
    BY <2>3, <2>9, <2>15
<1>5. ASSUME NEW k \in 1..n PROVE Leads(s, x[k], K[k - 1], K[k])
  <2>1. PICK d \in Nat : d = k - 1 /\ d + 1 = k /\ d \in 0..n /\ k \in 0..n /\ d \in 0..(n - 1)
    OBVIOUS
  <2>2. d \in StepsOf(s)
    BY <1>1, <2>1 DEF StepsOf
  <2>3. x[k] = FragmentLoads(<<"A", 0>>, u, "X", r, d) \o StreamColumns(s, u, d, 2, products)
    BY <1>1, <2>1
  <2>4. Leads(s, FragmentLoads(<<"A", 0>>, u, "X", r, d), Mid(N, {}, A, S, {}, DoneS(s, r, d, 0)),
              Mid(N, P(d), A, S, {}, DoneS(s, r, d, 0)))
    <3>1. InTile(s, "X", r)
      BY DEF InTile
    <3>2. \A f \in P(d) : \E h \in {0, 1} : f = <<"A", 0, h, r, d>>
      OBVIOUS
    <3> HIDE DEF P, A
    <3>3. QED
      BY <3>1, <3>2, FragmentsLead
  <2> DEFINE D == [c \in Nat |-> DoneS(s, r, d, c)]
  <2>5. \A f \in P(d) : f[1] # "B"
    OBVIOUS
  <2>6. \A c \in Nat : D[c] = DoneS(s, r, d, c)
    OBVIOUS
  <2> HIDE DEF D, P, A
  <2>7. ASSUME NEW c \in ColumnsOf(s)
        PROVE  Leads(s, products[c], Mid(N, P(d) \cup Streamed(s, c, d), A, S, {}, D[c]),
                     Mid(N, P(d) \cup Streamed(s, c, d), A, S, {}, D[c + 1]))
    <3>1. c \in Nat /\ c + 1 \in Nat
      BY AllParts
    <3>2. PICK F : F = P(d) \cup Streamed(s, c, d)
      OBVIOUS
    <3>3. P(d) \subseteq F /\ \A h \in {0, 1} : <<"B", c % 2, h, c, d>> \in F
      BY <3>2, StreamedHave
    <3>4. Leads(s, products[c], Mid(N, F, A, S, {}, DoneS(s, r, d, c)), Mid(N, F, A, S, {}, DoneS(s, r, d, c + 1)))
      BY <1>4, <2>2, <3>3
    <3>5. QED
      BY <2>6, <3>1, <3>2, <3>4
  <2>8. Leads(s, StreamColumns(s, u, d, 2, products), Mid(N, P(d), A, S, {}, D[0]), Mid(N, P(d), A, S, {}, D[NColTiles(s)]))
    BY <2>5, <2>7, StreamColumnsLead
  <2>9. D[0] = DoneS(s, r, d, 0) /\ D[NColTiles(s)] = DoneS(s, r, d + 1, 0)
    <3>1. NColTiles(s) \in Nat
      BY DEF Sized
    <3>2. DoneS(s, r, d, NColTiles(s)) = DoneS(s, r, d + 1, 0)
      BY <1>2, DoneTurns
    <3>3. QED
      BY <2>6, <3>1, <3>2
  <2>10. Leads(s, x[k], Mid(N, {}, A, S, {}, DoneS(s, r, d, 0)), Mid(N, P(d), A, S, {}, DoneS(s, r, d + 1, 0)))
    BY <2>3, <2>4, <2>8, <2>9, LeadsThen
  <2>11. Weaker(Mid(N, {}, A, S, {}, DoneS(s, r, d + 1, 0)), Mid(N, P(d), A, S, {}, DoneS(s, r, d + 1, 0)))
    BY MidWeaker
  <2>12. Leads(s, x[k], Mid(N, {}, A, S, {}, DoneS(s, r, d, 0)), Mid(N, {}, A, S, {}, DoneS(s, r, d + 1, 0)))
    BY <2>10, <2>11, WeakerOrder, LeadsWeaker
  <2>13. QED
    BY <1>3, <2>1, <2>12
<1> HIDE DEF K, A, P
<1>6. x = [k \in 1..n |-> x[k]]
  BY <1>1
<1>7. Leads(s, FlattenSeq(x), K[0], K[n])
  BY <1>5, <1>6, LeadsEach
<1>8. DoneS(s, r, n, 0) = DoneS(s, r + 1, 0, 0)
  BY <1>1, <1>2, DoneTurns
<1>9. K[0] = Mid(N, {}, A, S, {}, DoneS(s, r, 0, 0)) /\ K[n] = Mid(N, {}, A, S, {}, DoneS(s, r, n, 0))
  BY <1>3
<1>10. QED
  BY <1>7, <1>8, <1>9 DEF A

\* Where a block starts from, the accumulators hold the first row block and the slots the second.
LEMMA HomeSwap ==
  ASSUME NEW s, Sized(s), s.acc_swap
  PROVE  /\ NRowBlocks(s) >= 1 => HomeAcc(s) = Own(s, 0)
         /\ NRowBlocks(s) = 1 => HomeSlot(s) = {}
         /\ NRowBlocks(s) = 2 => HomeSlot(s) = Kept(s, 1)
         /\ AccRowsOf(s) = {0}
<1>1. NRowBlocks(s) \in Nat /\ AccRowsOf(s) = {0}
  BY DEF Sized, AccRowsOf
<1>2. ASSUME NRowBlocks(s) >= 1 PROVE HomeAcc(s) = Own(s, 0)
  <2>1. 0 \in RowsOf(s)
    BY <1>1, <1>2 DEF RowsOf
  <2>2. ASSUME NEW f \in HomeAcc(s) PROVE f \in Own(s, 0)
    <3>1. f \in {0} \X ColumnsOf(s) \X RowsOf(s) /\ f[1] = f[3]
      BY <1>1 DEF HomeAcc
    <3>2. f[2] \in ColumnsOf(s) /\ f[1] = 0 /\ f = <<f[1], f[2], f[3]>>
      BY <3>1
    <3>3. f = <<0, f[2], 0>>
      BY <3>1, <3>2
    <3>4. QED
      BY <3>2, <3>3 DEF Own
  <2>3. ASSUME NEW f \in Own(s, 0) PROVE f \in HomeAcc(s)
    <3>1. PICK c \in ColumnsOf(s) : f = <<0, c, 0>>
      BY DEF Own
    <3>2. f[1] = 0 /\ f[3] = 0
      BY <3>1
    <3>3. QED
      BY <1>1, <2>1, <3>1, <3>2 DEF HomeAcc
  <2>4. QED
    BY <2>2, <2>3
<1>3. ASSUME NRowBlocks(s) = 1 PROVE HomeSlot(s) = {}
  <2>1. ASSUME NEW f \in ColumnsOf(s) \X RowsOf(s) PROVE f[2] # 1
    <3>1. f[2] \in 0..(1 - 1)
      BY <1>3 DEF RowsOf
    <3>2. QED
      BY <3>1
  <2>2. QED
    BY <2>1 DEF HomeSlot
<1>4. ASSUME NRowBlocks(s) = 2 PROVE HomeSlot(s) = Kept(s, 1)
  <2>1. 1 \in RowsOf(s)
    BY <1>4 DEF RowsOf
  <2>2. ASSUME NEW f \in HomeSlot(s) PROVE f \in Kept(s, 1)
    <3>1. f \in ColumnsOf(s) \X RowsOf(s) /\ f[2] = 1
      BY DEF HomeSlot
    <3>2. f[1] \in ColumnsOf(s) /\ f = <<f[1], 1>>
      BY <3>1
    <3>3. QED
      BY <3>2 DEF Kept
  <2>3. ASSUME NEW f \in Kept(s, 1) PROVE f \in HomeSlot(s)
    <3>1. PICK c \in ColumnsOf(s) : f = <<c, 1>>
      BY DEF Kept
    <3>2. f[2] = 1
      BY <3>1
    <3>3. QED
      BY <2>1, <3>1, <3>2 DEF HomeSlot
  <2>4. QED
    BY <2>2, <2>3
<1>5. QED
  BY <1>1, <1>2, <1>3, <1>4

\* Two ways to say the same.
LEMMA MidHold ==
  ASSUME NEW N, NEW A, NEW S, NEW T, NEW D
  PROVE  Mid(N, {}, A, S, T, D) = Hold(N, A, S, T, {}, D)
BY DEF Mid, Hold

\* A tile with exchanged accumulators.
LEMMA SwapComputeLeads ==
  ASSUME NEW s, Sized(s), s.acc_swap, NRowBlocks(s) \in {1, 2}, NEW N, NEW u
  PROVE  Leads(s, SwapCompute(s, u), Mid(N, {}, HomeAcc(s), HomeSlot(s), {}, {}),
               Mid(N, {}, HomeAcc(s), HomeSlot(s), {}, All(s)))
<1> DEFINE rows == NRowBlocks(s)
           cols == NColTiles(s)
           steps == KSubSteps(s)
           products == [c \in 0..(cols - 1) |-> <<Wmma(<<0, c>>, <<"A", 0>>, <<"B", c % 2>>)>>]
           step(r) == [k \in 1..steps |->
                        FragmentLoads(<<"A", 0>>, u, "X", r, k - 1)
                        \o StreamColumns(s, u, k - 1, 2, products)]
           swap == When(rows > 1, AccSwap(s))
           x == [r \in 1..rows |-> FlattenSeq(step(r - 1)) \o swap]
           S(r) == IF rows = 2 THEN Kept(s, 1 - r) ELSE {}
           K == [r \in 0..rows |-> IF r = 1 /\ rows = 2 THEN Mid(N, {}, Own(s, 1), S(1), {}, DoneS(s, r, 0, 0))
                                   ELSE Mid(N, {}, Own(s, 0), S(0), {}, DoneS(s, r, 0, 0))]
<1>1. rows \in {1, 2} /\ cols \in Nat /\ steps \in Nat
  BY DEF Sized
<1>2. SwapCompute(s, u) = FlattenSeq(x)
  BY DEF SwapCompute, Each
<1>3. ASSUME NEW r \in RowsOf(s)
      PROVE  Leads(s, FlattenSeq(step(r)), Mid(N, {}, Own(s, r), S(r), {}, DoneS(s, r, 0, 0)),
                   Mid(N, {}, Own(s, r), S(r), {}, DoneS(s, r + 1, 0, 0)))
  <2>2. \A f \in S(r) : f[2] # r
    <3>1. r \in 0..(rows - 1) /\ 1 - r # r
      BY <1>1 DEF RowsOf
    <3>2. QED
      BY <3>1 DEF Kept
  <2>3. PICK G : G = S(r)
    OBVIOUS
  <2>4. PICK m : m = products
    OBVIOUS
  <2>5. PICK z : z = step(r)
    OBVIOUS
  <2>6. m = [c \in 0..(NColTiles(s) - 1) |-> <<Wmma(<<0, c>>, <<"A", 0>>, <<"B", c % 2>>)>>]
    BY <2>4
  <2>7. z = [k \in 1..KSubSteps(s) |-> FragmentLoads(<<"A", 0>>, u, "X", r, k - 1)
                                      \o StreamColumns(s, u, k - 1, 2, m)]
    <3> HIDE DEF products
    <3>1. QED
      BY <2>4, <2>5
  <2>8. \A f \in G : f[2] # r
    BY <2>2, <2>3
  <2> HIDE DEF S, step, products
  <2>9. Leads(s, FlattenSeq(z), Mid(N, {}, Own(s, r), G, {}, DoneS(s, r, 0, 0)),
              Mid(N, {}, Own(s, r), G, {}, DoneS(s, r + 1, 0, 0)))
    BY <2>6, <2>7, <2>8, SwapRowLeads
  <2>10. QED
    BY <2>3, <2>5, <2>9
<1>4. x = [r \in 1..rows |-> x[r]] /\ \A r \in 1..rows : x[r] = FlattenSeq(step(r - 1)) \o swap
  <2> HIDE DEF step, swap
  <2>1. QED
    OBVIOUS
<1>5. HomeAcc(s) = Own(s, 0) /\ HomeSlot(s) = S(0)
  BY <1>1, HomeSwap
<1>6. CASE rows = 1
  <2>1. swap = << >> /\ 0 \in RowsOf(s) /\ S(0) = {}
    BY <1>6 DEF When, RowsOf
  <2>2. /\ K[0] = Mid(N, {}, Own(s, 0), S(0), {}, DoneS(s, 0, 0, 0))
        /\ K[1] = Mid(N, {}, Own(s, 0), S(0), {}, DoneS(s, 0 + 1, 0, 0))
    BY <1>6
  <2> HIDE DEF step, swap, x, K, S
  <2>3. Leads(s, FlattenSeq(step(0)), K[0], K[1])
    BY <1>3, <2>1, <2>2
  <2>4. Leads(s, swap, K[1], K[1])
    BY <2>1, LeadsNothing, WeakerOrder
  <2>5. x[1] = FlattenSeq(step(0)) \o swap
    BY <1>4, <1>6
  <2>6. Leads(s, x[1], K[0], K[1])
    BY <2>3, <2>4, <2>5, LeadsThen
  <2>7. \A r \in 1..rows : r = 1 /\ r - 1 = 0
    BY <1>6
  <2>8. \A r \in 1..rows : Leads(s, x[r], K[r - 1], K[r])
    BY <2>6, <2>7
  <2>9. Leads(s, FlattenSeq(x), K[0], K[1])
    BY <1>4, <1>6, <2>8, LeadsEach
  <2>10. DoneS(s, 0, 0, 0) = {} /\ DoneS(s, 1, 0, 0) = All(s)
    BY <1>6, DoneEnds
  <2>11. QED
    BY <1>2, <1>5, <2>2, <2>9, <2>10
<1>7. CASE rows = 2
  <2>1. swap = AccSwap(s) /\ 0 \in RowsOf(s) /\ 1 \in RowsOf(s) /\ S(0) = Kept(s, 1) /\ S(1) = Kept(s, 0)
    BY <1>7 DEF When, RowsOf
  <2>2. /\ K[0] = Mid(N, {}, Own(s, 0), S(0), {}, DoneS(s, 0, 0, 0))
        /\ K[1] = Mid(N, {}, Own(s, 1), S(1), {}, DoneS(s, 1, 0, 0))
        /\ K[2] = Mid(N, {}, Own(s, 0), S(0), {}, DoneS(s, 2, 0, 0))
    BY <1>7
  <2> HIDE DEF step, swap, x, K, S
  <2>3. /\ Leads(s, FlattenSeq(step(0)), K[0], Mid(N, {}, Own(s, 0), S(0), {}, DoneS(s, 1, 0, 0)))
        /\ Leads(s, FlattenSeq(step(1)), K[1], Mid(N, {}, Own(s, 1), S(1), {}, DoneS(s, 2, 0, 0)))
    <3>1. Leads(s, FlattenSeq(step(0)), Mid(N, {}, Own(s, 0), S(0), {}, DoneS(s, 0, 0, 0)),
                   Mid(N, {}, Own(s, 0), S(0), {}, DoneS(s, 0 + 1, 0, 0)))
      BY <1>3, <2>1
    <3>2. Leads(s, FlattenSeq(step(1)), Mid(N, {}, Own(s, 1), S(1), {}, DoneS(s, 1, 0, 0)),
                   Mid(N, {}, Own(s, 1), S(1), {}, DoneS(s, 1 + 1, 0, 0)))
      BY <1>3, <2>1
    <3>3. 0 + 1 = 1 /\ 1 + 1 = 2
      OBVIOUS
    <3>4. QED
      BY <2>2, <3>1, <3>2, <3>3
  <2>4. /\ Leads(s, swap, Mid(N, {}, Own(s, 0), S(0), {}, DoneS(s, 1, 0, 0)), K[1])
        /\ Leads(s, swap, Mid(N, {}, Own(s, 1), S(1), {}, DoneS(s, 2, 0, 0)), K[2])
    <3>1. /\ Leads(s, swap, Hold(N, Own(s, 0), Kept(s, 1), {}, {}, DoneS(s, 1, 0, 0)),
                   Hold(N, Own(s, 1), Kept(s, 0), {}, {}, DoneS(s, 1, 0, 0)))
          /\ Leads(s, swap, Hold(N, Own(s, 1), Kept(s, 0), {}, {}, DoneS(s, 2, 0, 0)),
                   Hold(N, Own(s, 0), Kept(s, 1), {}, {}, DoneS(s, 2, 0, 0)))
      BY <2>1, AccSwapLeads
    <3>2. QED
      BY <2>1, <2>2, <3>1, MidHold
  <2>5. x[1] = FlattenSeq(step(0)) \o swap /\ x[2] = FlattenSeq(step(1)) \o swap
    <3>1. 1 \in 1..rows /\ 2 \in 1..rows /\ 1 - 1 = 0 /\ 2 - 1 = 1
      BY <1>7
    <3>2. QED
      BY <1>4, <3>1
  <2>6. Leads(s, x[1], K[0], K[1]) /\ Leads(s, x[2], K[1], K[2])
    BY <2>3, <2>4, <2>5, LeadsThen
  <2>7. \A r \in 1..rows : (r = 1 /\ r - 1 = 0) \/ (r = 2 /\ r - 1 = 1)
    BY <1>7
  <2>8. \A r \in 1..rows : Leads(s, x[r], K[r - 1], K[r])
    BY <2>6, <2>7
  <2>9. Leads(s, FlattenSeq(x), K[0], K[2])
    BY <1>4, <1>7, <2>8, LeadsEach
  <2>10. DoneS(s, 0, 0, 0) = {} /\ DoneS(s, 2, 0, 0) = All(s)
    BY <1>7, DoneEnds
  <2>11. QED
    BY <1>2, <1>5, <2>2, <2>9, <2>10
<1>8. QED
  BY <1>1, <1>6, <1>7

\* The products of a tile, by any of the three generators.
LEMMA ComputeLeads ==
  ASSUME NEW s, Sized(s), Staged(s), NRowBlocks(s) >= 1, s.acc_swap => NRowBlocks(s) <= 2, NEW N, NEW u
  PROVE  Leads(s, Compute(s, u), Mid(N, {}, HomeAcc(s), HomeSlot(s), {}, {}),
               Mid(N, {}, HomeAcc(s), HomeSlot(s), {}, All(s)))
<1> DEFINE n == KSubSteps(s)
           x == [k \in 1..n |-> IF s.gen = "gemm_gen" THEN GenStep(s, u, k - 1)
                                ELSE IF Streaming(s) THEN StreamStep(s, u, k - 1)
                                ELSE BulkStep(s, u, k - 1)]
           H == HomeAcc(s)
           E(k) == IF s.gen = "gemm_gen" THEN DoneR(s, k, 0, 0) ELSE DoneK(s, k, 0, 0)
           K == [k \in 0..n |-> Mid(N, {}, H, {}, {}, E(k))]
<1>1. n \in Nat /\ NRowBlocks(s) \in Nat /\ StepsOf(s) = 0..(n - 1)
  BY DEF Sized, StepsOf
<1>2. Compute(s, u) = IF s.acc_swap THEN SwapCompute(s, u) ELSE FlattenSeq(x)
  BY DEF Compute, Each
<1>3. CASE s.acc_swap
  <2>1. NRowBlocks(s) \in {1, 2}
    BY <1>1, <1>3
  <2>2. QED
    BY <1>2, <1>3, <2>1, SwapComputeLeads
<1>4. CASE ~s.acc_swap
  <2>1. \A k \in 0..n : K[k] = Mid(N, {}, H, {}, {}, E(k))
    OBVIOUS
  <2>2. ASSUME NEW k \in 1..n PROVE Leads(s, x[k], K[k - 1], K[k])
    <3>1. PICK j \in Nat : j = k - 1 /\ j + 1 = k /\ j \in 0..n /\ k \in 0..n /\ j \in 0..(n - 1)
      BY <1>1
    <3>2. x[k] = IF s.gen = "gemm_gen" THEN GenStep(s, u, j)
                 ELSE IF Streaming(s) THEN StreamStep(s, u, j) ELSE BulkStep(s, u, j)
      BY <3>1
    <3>3. j \in StepsOf(s)
      BY <1>1, <3>1
    <3>4. K[k - 1] = Mid(N, {}, H, {}, {}, E(j)) /\ K[k] = Mid(N, {}, H, {}, {}, E(j + 1))
      BY <2>1, <3>1
    <3>5. CASE s.gen = "gemm_gen"
      <4>1. E(j) = DoneR(s, j, 0, 0) /\ E(j + 1) = DoneR(s, j + 1, 0, 0)
        BY <3>5
      <4> HIDE DEF x, K, E
      <4>2. QED
        BY <1>4, <3>2, <3>3, <3>4, <3>5, <4>1, GenStepLeads DEF H
    <3>6. CASE s.gen # "gemm_gen"
      <4>1. E(j) = DoneK(s, j, 0, 0) /\ E(j + 1) = DoneK(s, j + 1, 0, 0)
        BY <3>6
      <4>2. CASE Streaming(s)
        <5>1. n <= 1 /\ j = 0
          BY <1>1, <1>4, <3>1, <4>2 DEF Staged
        <5> HIDE DEF x, K, E
        <5>2. Leads(s, StreamStep(s, u, 0), Mid(N, {}, H, {}, {}, DoneK(s, 0, 0, 0)),
                    Mid(N, {}, H, {}, {}, DoneK(s, 0 + 1, 0, 0)))
          BY <1>4, <3>3, <5>1, StreamStepLeads
        <5>3. QED
          BY <3>2, <3>4, <3>6, <4>1, <4>2, <5>1, <5>2
      <4>3. CASE ~Streaming(s)
        <5> HIDE DEF x, K, E
        <5>1. QED
          BY <1>4, <3>2, <3>3, <3>4, <3>6, <4>1, <4>3, BulkStepLeads DEF H
      <4>4. QED
        BY <4>2, <4>3
    <3>7. QED
      BY <3>5, <3>6
  <2>3. x = [k \in 1..n |-> x[k]]
    OBVIOUS
  <2>4. E(0) = {} /\ E(n) = All(s)
    BY DoneEnds
  <2>5. HomeSlot(s) = {}
    BY <1>4 DEF HomeSlot
  <2>6. 0 \in 0..n /\ n \in 0..n
    <3> HIDE DEF n
    <3>1. QED
      BY <1>1
  <2> HIDE DEF x, K, E, n
  <2>7. Leads(s, FlattenSeq(x), K[0], K[n])
    BY <1>1, <2>2, <2>3, LeadsEach
  <2>8. QED
    BY <1>2, <1>4, <2>1, <2>4, <2>5, <2>6, <2>7 DEF H
<1>5. QED
  BY <1>3, <1>4

\* What is known between the loads of the next tile and the barrier.
Carry(N, P, A, S, D) ==
  [frag |-> {}, new |-> N, put |-> P, acc |-> A, slot |-> S, temp |-> {}, out |-> {}, done |-> D]

\* The registers of the first m rows of X and n of WT.
UpTo(m, n) == {x \in {"X", "WT"} \X Nat : x[2] < IF x[1] = "X" THEN m ELSE n}

\* Another way to say the same.
LEMMA MidCarry ==
  ASSUME NEW N, NEW A, NEW S, NEW D
  PROVE  Mid(N, {}, A, S, {}, D) = Carry(N, {}, A, S, D)
BY DEF Mid, Carry

\* One more row.
LEMMA UpToMore ==
  ASSUME NEW i \in Nat, NEW n \in Nat
  PROVE  /\ UpTo(i + 1, n) \subseteq UpTo(i, n) \cup {<<"X", i>>}
         /\ UpTo(n, i + 1) \subseteq UpTo(n, i) \cup {<<"WT", i>>}
         /\ i < n => <<"X", i>> \in UpTo(n, n) /\ <<"WT", i>> \in UpTo(n, n)
<1>1. ASSUME NEW x \in UpTo(i + 1, n), x \notin UpTo(i, n) PROVE x = <<"X", i>>
  <2>1. x \in {"X", "WT"} \X Nat /\ x = <<x[1], x[2]>> /\ x[2] \in Nat
    BY DEF UpTo
  <2>2. x[1] = "X" /\ x[2] < i + 1 /\ ~(x[2] < i)
    BY <1>1, <2>1 DEF UpTo
  <2>3. x[2] = i
    BY <2>1, <2>2
  <2>4. QED
    BY <2>1, <2>2, <2>3
<1>2. ASSUME NEW x \in UpTo(n, i + 1), x \notin UpTo(n, i) PROVE x = <<"WT", i>>
  <2>1. x \in {"X", "WT"} \X Nat /\ x = <<x[1], x[2]>> /\ x[2] \in Nat /\ x[1] \in {"X", "WT"}
    BY DEF UpTo
  <2>2. x[1] = "WT" /\ x[2] < i + 1 /\ ~(x[2] < i)
    BY <1>2, <2>1 DEF UpTo
  <2>3. x[2] = i
    BY <2>1, <2>2
  <2>4. QED
    BY <2>1, <2>2, <2>3
<1>3. i < n => <<"X", i>> \in UpTo(n, n) /\ <<"WT", i>> \in UpTo(n, n)
  <2>1. <<"X", i>>[1] = "X" /\ <<"X", i>>[2] = i /\ <<"WT", i>>[1] = "WT" /\ <<"WT", i>>[2] = i
    OBVIOUS
  <2>2. <<"X", i>> \in {"X", "WT"} \X Nat /\ <<"WT", i>> \in {"X", "WT"} \X Nat
    OBVIOUS
  <2>3. QED
    BY <2>1, <2>2 DEF UpTo
<1>4. QED
  BY <1>1, <1>2, <1>3

\* Some row, and none.
LEMMA UpToHave ==
  ASSUME NEW m \in Nat, NEW n \in Nat
  PROVE  /\ \A i \in Nat : i < m => <<"X", i>> \in UpTo(m, n)
         /\ \A i \in Nat : i < n => <<"WT", i>> \in UpTo(m, n)
         /\ UpTo(0, 0) = {}
<1>1. ASSUME NEW i \in Nat PROVE /\ i < m => <<"X", i>> \in UpTo(m, n)
                                 /\ i < n => <<"WT", i>> \in UpTo(m, n)
  <2>1. <<"X", i>>[1] = "X" /\ <<"X", i>>[2] = i /\ <<"WT", i>>[1] = "WT" /\ <<"WT", i>>[2] = i
    OBVIOUS
  <2>2. <<"X", i>> \in {"X", "WT"} \X Nat /\ <<"WT", i>> \in {"X", "WT"} \X Nat
    OBVIOUS
  <2>3. QED
    BY <2>1, <2>2 DEF UpTo
<1>2. UpTo(0, 0) = {}
  <2>1. \A x \in {"X", "WT"} \X Nat : ~(x[2] < IF x[1] = "X" THEN 0 ELSE 0)
    OBVIOUS
  <2>2. QED
    BY <2>1 DEF UpTo
<1>3. QED
  BY <1>1, <1>2

\* The loads of a matrix's rows.
LEMMA RowsLoad ==
  ASSUME NEW s, NEW P, NEW A, NEW S, NEW D, NEW n \in Nat, NEW mat \in {"X", "WT"}, NEW W,
         \A i \in 0..(n - 1) : W[i + 1] \subseteq W[i] \cup {<<mat, i>>}, NEW g,
         g = [i \in 1..n |-> <<BufferLoad(mat, i - 1)>>]
  PROVE  Leads(s, FlattenSeq(g), Carry(W[0], P, A, S, D), Carry(W[n], P, A, S, D))
<1> DEFINE K == [i \in 0..n |-> Carry(W[i], P, A, S, D)]
<1>1. g = [i \in 1..n |-> g[i]] /\ \A i \in 0..n : K[i] = Carry(W[i], P, A, S, D)
  OBVIOUS
<1>2. ASSUME NEW i \in 1..n PROVE Leads(s, g[i], K[i - 1], K[i])
  <2>1. PICK d \in Nat : d = i - 1 /\ d + 1 = i /\ d \in 0..n /\ i \in 0..n /\ d \in 0..(n - 1)
    OBVIOUS
  <2>2. PICK x : x = BufferLoad(mat, d)
    OBVIOUS
  <2>3. x.op = "buffer_load" /\ x.dst = <<mat, d>> /\ g[i] = <<x>>
    BY <2>1, <2>2 DEF BufferLoad
  <2>4. PICK k, l : k = Carry(W[d], P, A, S, D) /\ l = Carry(W[i], P, A, S, D)
    OBVIOUS
  <2>5. W[i] \subseteq W[d] \cup {<<mat, d>>}
    BY <2>1
  <2>6. Beside({"new"}, l, k) /\ l.new \subseteq k.new \cup {x.dst}
    BY <2>3, <2>4, <2>5 DEF Beside, Carry
  <2>7. Learns(s, x, k, l)
    BY <2>1, <2>3, <2>6 DEF Learns, Pieces
  <2> HIDE DEF K
  <2>8. K[i - 1] = k /\ K[i] = l
    BY <1>1, <2>1, <2>4
  <2>9. QED
    BY <2>3, <2>7, <2>8, LeadsOne
<1> HIDE DEF K
<1>3. Leads(s, FlattenSeq(g), K[0], K[n])
  BY <1>1, <1>2, LeadsEach
<1>4. QED
  BY <1>1, <1>3

\* Their stores, each perhaps behind a wait.
RowStores(g, n, mat, u) ==
  /\ g = [i \in 1..n |-> g[i]]
  /\ \A i \in 1..n : \E w : \/ g[i] = <<DsStore(mat, i - 1, u)>>
                          \/ g[i] = <<Wait("vm", w), DsStore(mat, i - 1, u)>>

\* What they put where.
LEMMA RowsPut ==
  ASSUME NEW s, NEW N, NEW A, NEW S, NEW D, NEW n \in Nat, NEW mat, NEW u, NEW V,
         \A i \in 0..(n - 1) : V[i + 1] \subseteq V[i] \cup {<<mat, i>>},
         \A i \in 0..(n - 1) : <<mat, i>> \in N, NEW g, RowStores(g, n, mat, u)
  PROVE  Leads(s, FlattenSeq(g), Carry(N, V[0], A, S, D), Carry(N, V[n], A, S, D))
<1> DEFINE K == [i \in 0..n |-> Carry(N, V[i], A, S, D)]
<1>1. \A i \in 0..n : K[i] = Carry(N, V[i], A, S, D)
  OBVIOUS
<1>2. ASSUME NEW i \in 1..n PROVE Leads(s, g[i], K[i - 1], K[i])
  <2>1. PICK d \in Nat : d = i - 1 /\ d + 1 = i /\ d \in 0..n /\ i \in 0..n /\ d \in 0..(n - 1)
    OBVIOUS
  <2>2. PICK x : x = DsStore(mat, d, u)
    OBVIOUS
  <2>3. x.op = "ds_store" /\ x.src = <<mat, d>>
    BY <2>2 DEF DsStore
  <2>4. PICK k, l : k = Carry(N, V[d], A, S, D) /\ l = Carry(N, V[i], A, S, D)
    OBVIOUS
  <2>5. V[i] \subseteq V[d] \cup {<<mat, d>>} /\ <<mat, d>> \in N
    BY <2>1
  <2>6. Beside({"put"}, l, k) /\ l.put \subseteq k.put \cup {x.src} /\ x.src \in k.new
    BY <2>3, <2>4, <2>5 DEF Beside, Carry
  <2>7. Learns(s, x, k, l)
    BY <2>3, <2>6 DEF Learns
  <2>8. Leads(s, <<x>>, k, l)
    BY <2>7, LeadsOne
  <2> HIDE DEF K
  <2>9. K[i - 1] = k /\ K[i] = l
    BY <1>1, <2>1, <2>4
  <2>10. PICK w : g[i] = <<x>> \/ g[i] = <<Wait("vm", w), x>>
    BY <2>1, <2>2 DEF RowStores
  <2>11. PICK z : z = Wait("vm", w)
    OBVIOUS
  <2>12. Leads(s, <<z>>, k, k)
    BY <2>11, WaitLeads, WeakerOrder
  <2>13. <<z, x>> = <<z>> \o <<x>>
    BY TwoParts
  <2>14. Leads(s, <<z, x>>, k, l)
    BY <2>8, <2>12, <2>13, LeadsThen
  <2>15. QED
    BY <2>8, <2>9, <2>10, <2>11, <2>14
<1> HIDE DEF K
<1>3. Leads(s, FlattenSeq(g), K[0], K[n])
  BY <1>2, LeadsEach DEF RowStores
<1>4. 0 \in 0..n /\ n \in 0..n
  OBVIOUS
<1>5. QED
  BY <1>1, <1>3, <1>4

\* All the rows a wave loads of a tile.
RowsIn(s) == UpTo(LoadsPerThread(s, "X"), LoadsPerThread(s, "WT"))

\* The loads of the next tile.
LEMMA CoopLoadLeads ==
  ASSUME NEW s, Sized(s), NEW A, NEW S, NEW D
  PROVE  Leads(s, CoopLoad(s), Carry({}, {}, A, S, D), Carry(RowsIn(s), {}, A, S, D))
<1>1. PICK m \in Nat, n \in Nat : m = LoadsPerThread(s, "X") /\ n = LoadsPerThread(s, "WT")
  BY DEF Sized
<1> DEFINE x == [i \in 1..m |-> <<BufferLoad("X", i - 1)>>]
           v == [i \in 1..n |-> <<BufferLoad("WT", i - 1)>>]
           W == [i \in Nat |-> UpTo(i, 0)]
           U == [i \in Nat |-> UpTo(m, i)]
<1>2. CoopLoad(s) = FlattenSeq(x) \o FlattenSeq(v)
  BY <1>1 DEF CoopLoad, Each
<1>3. \A i \in Nat : W[i] = UpTo(i, 0) /\ U[i] = UpTo(m, i)
  OBVIOUS
<1> HIDE DEF W, U
<1>4. /\ \A i \in 0..(m - 1) : W[i + 1] \subseteq W[i] \cup {<<"X", i>>}
      /\ \A i \in 0..(n - 1) : U[i + 1] \subseteq U[i] \cup {<<"WT", i>>}
  <2>1. ASSUME NEW i \in Nat PROVE W[i + 1] \subseteq W[i] \cup {<<"X", i>>} /\ U[i + 1] \subseteq U[i] \cup {<<"WT", i>>}
    <3>1. i + 1 \in Nat /\ 0 \in Nat
      OBVIOUS
    <3>2. UpTo(i + 1, 0) \subseteq UpTo(i, 0) \cup {<<"X", i>>}
      BY <3>1, UpToMore
    <3>3. UpTo(m, i + 1) \subseteq UpTo(m, i) \cup {<<"WT", i>>}
      BY UpToMore
    <3>4. QED
      BY <1>3, <3>1, <3>2, <3>3
  <2>2. (\A i \in 0..(m - 1) : i \in Nat) /\ (\A i \in 0..(n - 1) : i \in Nat)
    OBVIOUS
  <2>3. QED
    BY <2>1, <2>2
<1>5. Leads(s, FlattenSeq(x), Carry(W[0], {}, A, S, D), Carry(W[m], {}, A, S, D))
  BY <1>4, RowsLoad
<1>6. Leads(s, FlattenSeq(v), Carry(U[0], {}, A, S, D), Carry(U[n], {}, A, S, D))
  BY <1>4, RowsLoad
<1>7. W[0] = {} /\ W[m] = U[0] /\ U[n] = RowsIn(s)
  BY <1>1, <1>3, UpToHave DEF RowsIn
<1> HIDE DEF x, v
<1>8. QED
  BY <1>2, <1>5, <1>6, <1>7, LeadsThen

\* Their stores, by both generators.
LEMMA LdsStoresLead ==
  ASSUME NEW s, Sized(s), NEW A, NEW S, NEW D, NEW u
  PROVE  Leads(s, LdsStores(s, u), Carry(RowsIn(s), {}, A, S, D), Carry(RowsIn(s), RowsIn(s), A, S, D))
<1>1. PICK m \in Nat, n \in Nat : m = LoadsPerThread(s, "X") /\ n = LoadsPerThread(s, "WT")
  BY DEF Sized
<1> DEFINE W == [i \in Nat |-> UpTo(i, 0)]
           U == [i \in Nat |-> UpTo(m, i)]
           N == RowsIn(s)
<1>2. \A i \in Nat : W[i] = UpTo(i, 0) /\ U[i] = UpTo(m, i)
  OBVIOUS
<1> HIDE DEF W, U
<1>3. /\ \A i \in 0..(m - 1) : W[i + 1] \subseteq W[i] \cup {<<"X", i>>}
      /\ \A i \in 0..(m - 1) : <<"X", i>> \in N
      /\ \A i \in 0..(n - 1) : U[i + 1] \subseteq U[i] \cup {<<"WT", i>>}
      /\ \A i \in 0..(n - 1) : <<"WT", i>> \in N
  <2>1. ASSUME NEW i \in Nat PROVE W[i + 1] \subseteq W[i] \cup {<<"X", i>>} /\ U[i + 1] \subseteq U[i] \cup {<<"WT", i>>}
    <3>1. i + 1 \in Nat /\ 0 \in Nat
      OBVIOUS
    <3>2. UpTo(i + 1, 0) \subseteq UpTo(i, 0) \cup {<<"X", i>>}
      BY <3>1, UpToMore
    <3>3. UpTo(m, i + 1) \subseteq UpTo(m, i) \cup {<<"WT", i>>}
      BY UpToMore
    <3>4. QED
      BY <1>2, <3>1, <3>2, <3>3
  <2>2. (\A i \in 0..(m - 1) : i \in Nat /\ i < m) /\ (\A i \in 0..(n - 1) : i \in Nat /\ i < n)
    OBVIOUS
  <2>3. (\A i \in Nat : i < m => <<"X", i>> \in N) /\ (\A i \in Nat : i < n => <<"WT", i>> \in N)
    BY <1>1, UpToHave DEF RowsIn
  <2>4. QED
    BY <2>1, <2>2, <2>3
<1>4. W[0] = {} /\ W[m] = U[0] /\ U[n] = N
  BY <1>1, <1>2, UpToHave DEF RowsIn
<1>5. CASE s.gen = "tile_ir"
  <2> DEFINE x == [i \in 1..m |-> <<Wait("vm", (m + n) - 1 - (i - 1)), DsStore("X", i - 1, u)>>]
             v == [i \in 1..n |-> <<Wait("vm", n - 1 - (i - 1)), DsStore("WT", i - 1, u)>>]
  <2>1. LdsStores(s, u) = FlattenSeq(x) \o FlattenSeq(v)
    BY <1>1, <1>5 DEF LdsStores, StoreGraduated, Each
  <2>2. RowStores(x, m, "X", u)
    BY DEF RowStores
  <2>3. RowStores(v, n, "WT", u)
    BY DEF RowStores
  <2> HIDE DEF x, v, N
  <2>4. Leads(s, FlattenSeq(x), Carry(N, W[0], A, S, D), Carry(N, W[m], A, S, D))
    BY <1>3, <2>2, <2>3, RowsPut
  <2>5. Leads(s, FlattenSeq(v), Carry(N, U[0], A, S, D), Carry(N, U[n], A, S, D))
    BY <1>3, <2>2, <2>3, RowsPut
  <2>6. QED
    BY <1>4, <2>1, <2>4, <2>5, LeadsThen DEF N
<1>6. CASE s.gen # "tile_ir"
  <2> DEFINE x == [i \in 1..m |-> <<DsStore("X", i - 1, u)>>]
             v == [i \in 1..n |-> <<DsStore("WT", i - 1, u)>>]
  <2>1. LdsStores(s, u) = (<<Wait("vm", 0)>> \o FlattenSeq(x)) \o FlattenSeq(v)
    BY <1>1, <1>6 DEF LdsStores, Each
  <2>2. RowStores(x, m, "X", u)
    BY DEF RowStores
  <2>3. RowStores(v, n, "WT", u)
    BY DEF RowStores
  <2> HIDE DEF x, v, N
  <2>4. Leads(s, FlattenSeq(x), Carry(N, W[0], A, S, D), Carry(N, W[m], A, S, D))
    BY <1>3, <2>2, <2>3, RowsPut
  <2>5. Leads(s, FlattenSeq(v), Carry(N, U[0], A, S, D), Carry(N, U[n], A, S, D))
    BY <1>3, <2>2, <2>3, RowsPut
  <2>6. Leads(s, <<Wait("vm", 0)>>, Carry(N, W[0], A, S, D), Carry(N, W[0], A, S, D))
    BY WaitLeads, WeakerOrder
  <2>7. Leads(s, <<Wait("vm", 0)>> \o FlattenSeq(x), Carry(N, W[0], A, S, D), Carry(N, W[m], A, S, D))
    BY <2>4, <2>6, LeadsThen
  <2>8. QED
    BY <1>4, <2>1, <2>5, <2>7, LeadsThen DEF N
<1>7. QED
  BY <1>5, <1>6

\* The barrier between two tiles, and what is left for the next.
LEMMA SyncedLeads ==
  ASSUME NEW s, Sized(s), NEW A, NEW S
  PROVE  Leads(s, <<Wait("lgkm", 0), Barrier, Advance>>, Carry(RowsIn(s), RowsIn(s), A, S, All(s)),
               Carry({}, {}, A, S, {}))
<1>1. PICK w, x, z : w = Wait("lgkm", 0) /\ x = Barrier /\ z = Advance
  OBVIOUS
<1>2. x.op = "barrier" /\ z.op = "advance"
  BY <1>1 DEF Barrier, Advance
<1>3. PICK k, l : k = Carry(RowsIn(s), RowsIn(s), A, S, All(s)) /\ l = Carry({}, {}, A, S, {})
  OBVIOUS
<1>4. Leads(s, <<w>>, k, k)
  BY <1>1, WaitLeads, WeakerOrder
<1>5. Learns(s, x, k, k)
  <2>1. PICK m \in Nat, n \in Nat : m = LoadsPerThread(s, "X") /\ n = LoadsPerThread(s, "WT")
    BY DEF Sized
  <2>2. (\A i \in Nat : i < m => <<"X", i>> \in RowsIn(s)) /\ (\A i \in Nat : i < n => <<"WT", i>> \in RowsIn(s))
    BY <2>1, UpToHave DEF RowsIn
  <2>3. (\A i \in 0..(m - 1) : i \in Nat /\ i < m) /\ (\A i \in 0..(n - 1) : i \in Nat /\ i < n)
    OBVIOUS
  <2>4. \A mat \in {"X", "WT"} : \A i \in 0..(LoadsPerThread(s, mat) - 1) : <<mat, i>> \in RowsIn(s)
    BY <2>1, <2>2, <2>3
  <2>5. k.put = RowsIn(s)
    BY <1>3 DEF Carry
  <2>6. QED
    BY <1>2, <2>4, <2>5, WeakerOrder DEF Learns
<1>6. Learns(s, z, k, l)
  <2>1. Beside({"done"}, l, k) /\ k.done = All(s) /\ l.done = {} /\ l.frag = {} /\ l.new = {} /\ l.put = {} /\ l.out = {}
    BY <1>3 DEF Carry, Beside
  <2>2. QED
    BY <1>2, <2>1 DEF Learns
<1>7. Leads(s, <<x>>, k, k) /\ Leads(s, <<z>>, k, l)
  BY <1>5, <1>6, LeadsOne
<1>8. <<w, x, z>> = <<w>> \o (<<x>> \o <<z>>)
  BY TwoParts, ThreeParts
<1>9. Leads(s, <<x>> \o <<z>>, k, l)
  BY <1>7, LeadsThen
<1>10. Leads(s, <<w, x, z>>, k, l)
  BY <1>4, <1>8, <1>9, LeadsThen
<1>11. QED
  BY <1>1, <1>3, <1>10

\* What a kernel must be for its products to be complete, beside what the generators ask.
Sumable(s) ==
  /\ Sized(s) /\ Staged(s)
  /\ NRowBlocks(s) >= 1 /\ (s.acc_swap => NRowBlocks(s) <= 2)

\* The accumulators of the second row block, put away at the start.
LEMMA SavedLeads ==
  ASSUME NEW s, Sumable(s), NEW g, g = [c \in 1..NColTiles(s) |-> <<SwapOut(c - 1)>>]
  PROVE  Leads(s, When(s.acc_swap, FlattenSeq(g) \o <<Wait("lgkm", 0)>>), Start(s, "prologue"),
               Carry({}, {}, HomeAcc(s), HomeSlot(s), All(s)))
<1> DEFINE all == AccRowsOf(s) \X ColumnsOf(s) \X RowsOf(s)
           slots(c) == {f \in HomeSlot(s) : f[1] < c}
<1>1. PICK n \in Nat : n = NColTiles(s)
  BY DEF Sized, Sumable
<1>2. Start(s, "prologue") = Carry({}, {}, all, {}, All(s))
  BY DEF Start, Carry
<1>3. HomeAcc(s) \subseteq all
  BY DEF HomeAcc
<1> HIDE DEF all
<1>4. CASE s.acc_swap
  <2> DEFINE K == [c \in 0..n |-> Carry({}, {}, all, slots(c), All(s))]
  <2>1. \A c \in 0..n : K[c] = Carry({}, {}, all, slots(c), All(s))
    OBVIOUS
  <2>2. HomeSlot(s) = {f \in ColumnsOf(s) \X RowsOf(s) : f[2] = 1} /\ AccRowsOf(s) = {0}
    BY <1>4 DEF HomeSlot, AccRowsOf
  <2>3. ColumnsOf(s) = 0..(n - 1)
    BY <1>1 DEF ColumnsOf
  <2>4. g = [c \in 1..n |-> g[c]] /\ \A c \in 1..n : g[c] = <<SwapOut(c - 1)>>
    BY <1>1
  <2>5. ASSUME NEW c \in 1..n PROVE Leads(s, g[c], K[c - 1], K[c])
    <3>1. PICK d \in Nat : d = c - 1 /\ d + 1 = c /\ d \in 0..n /\ c \in 0..n /\ d \in 0..(n - 1)
      OBVIOUS
    <3>2. PICK x : x = SwapOut(d)
      OBVIOUS
    <3>3. x.op = "swap_out" /\ x.c = d /\ g[c] = <<x>>
      BY <2>4, <3>1, <3>2 DEF SwapOut
    <3>4. PICK k, l : k = Carry({}, {}, all, slots(d), All(s)) /\ l = Carry({}, {}, all, slots(c), All(s))
      OBVIOUS
    <3>5. Beside({"slot"}, l, k) /\ l.slot = slots(c) /\ k.slot = slots(d) /\ k.acc = all
      BY <3>4 DEF Beside, Carry
    <3>6. ASSUME NEW f \in slots(c) PROVE IF f[1] = d THEN <<0, d, f[2]>> \in all ELSE f \in slots(d)
      <4>1. f \in ColumnsOf(s) \X RowsOf(s) /\ f[1] < c /\ f[1] \in ColumnsOf(s) /\ f[2] \in RowsOf(s)
        BY <2>2
      <4>2. CASE f[1] = d
        BY <2>2, <4>1, <4>2 DEF all
      <4>3. CASE f[1] # d
        <5>1. f[1] \in Nat
          BY <2>3, <4>1
        <5>2. f[1] < d
          BY <3>1, <4>1, <4>3, <5>1
        <5>3. QED
          BY <4>3, <5>2
      <4>4. QED
        BY <4>2, <4>3
    <3>7. x.c \in ColumnsOf(s)
      BY <2>3, <3>1, <3>3
    <3> HIDE DEF slots, K
    <3>8. Learns(s, x, k, l)
      BY <3>3, <3>5, <3>6, <3>7 DEF Learns
    <3>9. K[c - 1] = k /\ K[c] = l
      BY <2>1, <3>1, <3>4
    <3>10. QED
      BY <3>3, <3>8, <3>9, LeadsOne
  <2>6. slots(0) = {} /\ slots(n) = HomeSlot(s)
    <3>1. ASSUME NEW f \in HomeSlot(s) PROVE f[1] \in 0..(n - 1)
      BY <2>2, <2>3
    <3>2. \A j \in 0..(n - 1) : ~(j < 0) /\ j < n
      OBVIOUS
    <3>3. QED
      BY <3>1, <3>2
  <2>7. 0 \in 0..n /\ n \in 0..n
    OBVIOUS
  <2> HIDE DEF K, slots
  <2>8. Leads(s, FlattenSeq(g), K[0], K[n])
    BY <2>4, <2>5, LeadsEach
  <2>9. Leads(s, FlattenSeq(g), Carry({}, {}, all, {}, All(s)), Carry({}, {}, all, HomeSlot(s), All(s)))
    BY <2>1, <2>6, <2>7, <2>8
  <2>10. Weaker(Carry({}, {}, HomeAcc(s), HomeSlot(s), All(s)), Carry({}, {}, all, HomeSlot(s), All(s)))
    BY <1>3 DEF Weaker, Beside, Carry
  <2>11. Leads(s, <<Wait("lgkm", 0)>>, Carry({}, {}, all, HomeSlot(s), All(s)),
               Carry({}, {}, HomeAcc(s), HomeSlot(s), All(s)))
    BY <2>10, WaitLeads
  <2>12. Leads(s, FlattenSeq(g) \o <<Wait("lgkm", 0)>>, Start(s, "prologue"),
               Carry({}, {}, HomeAcc(s), HomeSlot(s), All(s)))
    BY <1>2, <2>9, <2>11, LeadsThen
  <2>13. QED
    BY <1>4, <2>12 DEF When
<1>5. CASE ~s.acc_swap
  <2>1. HomeSlot(s) = {}
    BY <1>5 DEF HomeSlot
  <2>2. Weaker(Carry({}, {}, HomeAcc(s), HomeSlot(s), All(s)), Carry({}, {}, all, {}, All(s)))
    BY <1>3, <2>1 DEF Weaker, Beside, Carry
  <2>3. QED
    BY <1>2, <1>5, <2>2, LeadsNothing DEF When
<1>6. QED
  BY <1>4, <1>5

\* A row block's store of its sums.
LEMMA YStoreLeads ==
  ASSUME NEW s, NEW r, NEW a, NEW N, NEW A, NEW S, NEW O, \A c \in ColumnsOf(s) : <<a, c, r>> \in A
  PROVE  Leads(s, <<YStore(r, a)>>, Hold(N, A, S, {}, O, All(s)), Hold(N, A, S, {}, O \cup {r}, All(s)))
<1>1. PICK x : x = YStore(r, a)
  OBVIOUS
<1>2. x.op = "y_store" /\ x.r = r /\ x.accRow = a
  BY <1>1 DEF YStore
<1>3. PICK k, l : k = Hold(N, A, S, {}, O, All(s)) /\ l = Hold(N, A, S, {}, O \cup {r}, All(s))
  OBVIOUS
<1>4. Beside({"out"}, l, k) /\ k.done = All(s) /\ k.acc = A /\ l.out \subseteq k.out \cup {x.r}
  BY <1>2, <1>3 DEF Beside, Hold
<1>5. Learns(s, x, k, l)
  BY <1>2, <1>4 DEF Learns
<1>6. QED
  BY <1>1, <1>3, <1>5, LeadsOne

\* The stores of the sums.
LEMMA StoreLeads ==
  ASSUME NEW s, Sumable(s), NEW live, live = IF s.acc_swap THEN 1 ELSE NRowBlocks(s), NEW g,
         g = [r \in 1..NRowBlocks(s) |-> When(s.acc_swap /\ r - 1 > 0, AccSwap(s))
                    \o <<YStore(r - 1, IF live = 1 THEN 0 ELSE r - 1)>>]
  PROVE  Leads(s, FlattenSeq(g), Start(s, "store"), End(s, "store"))
<1>1. PICK n \in Nat : n = NRowBlocks(s) /\ n >= 1
  BY DEF Sized, Sumable
<1>2. Start(s, "store") = Hold({}, HomeAcc(s), HomeSlot(s), {}, {}, All(s))
  BY DEF Start, Hold, Main
<1>3. End(s, "store") = Hold({}, {}, {}, {}, RowsOf(s), All(s))
  BY DEF End, Hold, Main
<1>4. RowsOf(s) = 0..(n - 1)
  BY <1>1 DEF RowsOf
<1>5. CASE ~s.acc_swap
  <2> DEFINE H == HomeAcc(s)
             S == HomeSlot(s)
             K == [r \in 0..n |-> Hold({}, H, S, {}, 0..(r - 1), All(s))]
  <2>1. \A r \in 0..n : K[r] = Hold({}, H, S, {}, 0..(r - 1), All(s))
    OBVIOUS
  <2>2. ASSUME NEW r \in 1..n PROVE Leads(s, g[r], K[r - 1], K[r])
    <3>1. PICK d \in Nat : d = r - 1 /\ d + 1 = r /\ d \in 0..n /\ r \in 0..n /\ d \in 0..(n - 1)
      OBVIOUS
    <3>2. PICK a \in Nat : a = IF live = 1 THEN 0 ELSE d
      BY <3>1
    <3>3. PICK x : x = YStore(d, a)
      OBVIOUS
    <3>4. PICK e : e = AccSwap(s)
      OBVIOUS
    <3>5. g[r] = When(s.acc_swap /\ d > 0, e) \o <<x>>
      BY <1>1, <3>1, <3>2, <3>3, <3>4
    <3>6. When(s.acc_swap /\ d > 0, e) = << >>
      BY <1>5 DEF When
    <3>7. g[r] = << >> \o <<x>>
      BY <3>5, <3>6
    <3>8. a = d
      BY <1>1, <1>5, <3>1, <3>2
    <3>9. \A c \in ColumnsOf(s) : <<a, c, d>> \in H
      BY <1>4, <1>5, <3>1, <3>8, HomeParts
    <3> HIDE DEF H, K, S
    <3>10. Leads(s, <<x>>, Hold({}, H, S, {}, 0..(d - 1), All(s)), Hold({}, H, S, {}, (0..(d - 1)) \cup {d}, All(s)))
      BY <3>3, <3>9, YStoreLeads
    <3>11. (0..(d - 1)) \cup {d} = 0..(r - 1)
      BY <3>1
    <3>12. Leads(s, <<x>>, K[r - 1], K[r])
      BY <2>1, <3>1, <3>10, <3>11
    <3>13. Leads(s, << >>, K[r - 1], K[r - 1])
      BY LeadsNothing, WeakerOrder
    <3>14. QED
      BY <3>7, <3>12, <3>13, LeadsThen
  <2>3. g = [r \in 1..n |-> g[r]]
    BY <1>1
  <2> HIDE DEF K
  <2>4. Leads(s, FlattenSeq(g), K[0], K[n])
    BY <2>2, <2>3, LeadsEach
  <2>5. 0 \in 0..n /\ n \in 0..n /\ 0..(0 - 1) = {}
    OBVIOUS
  <2>6. K[0] = Start(s, "store") /\ K[n] = Hold({}, H, S, {}, RowsOf(s), All(s))
    BY <1>2, <1>4, <2>1, <2>5
  <2>7. Weaker(End(s, "store"), K[n])
    BY <1>3, <2>6 DEF Weaker, Beside, Hold
  <2>8. QED
    BY <2>4, <2>6, <2>7, WeakerOrder, LeadsWeaker
<1>6. CASE s.acc_swap
  <2>1. live = 1 /\ n \in {1, 2} /\ HomeAcc(s) = Own(s, 0)
    BY <1>1, <1>6, HomeSwap DEF Sumable
  <2>2. \A r, c : c \in ColumnsOf(s) => <<0, c, r>> \in Own(s, r)
    BY DEF Own
  <2>3. PICK x0, x1, e : x0 = YStore(0, 0) /\ x1 = YStore(1, 0) /\ e = AccSwap(s)
    OBVIOUS
  <2>4. g[1] = << >> \o <<x0>>
    <3>1. 1 - 1 = 0 /\ ~(0 > 0) /\ 1 \in 1..n
      BY <1>1
    <3>2. g[1] = When(s.acc_swap /\ 0 > 0, e) \o <<x0>>
      BY <1>1, <2>1, <2>3, <3>1
    <3>3. When(s.acc_swap /\ 0 > 0, e) = << >>
      BY <3>1 DEF When
    <3>4. QED
      BY <3>2, <3>3
  <2>5. n = 2 => g[2] = e \o <<x1>>
    <3>1. 2 - 1 = 1 /\ 1 > 0 /\ 2 \in 1..2
      OBVIOUS
    <3>2. n = 2 => g[2] = When(s.acc_swap /\ 1 > 0, e) \o <<x1>>
      BY <1>1, <2>1, <2>3, <3>1
    <3>3. When(s.acc_swap /\ 1 > 0, e) = e
      BY <1>6, <3>1 DEF When
    <3>4. QED
      BY <3>2, <3>3
  <2>6. PICK S : S = HomeSlot(s)
    OBVIOUS
  <2>7. Leads(s, g[1], Hold({}, Own(s, 0), S, {}, {}, All(s)), Hold({}, Own(s, 0), S, {}, {0}, All(s)))
    <3>1. Leads(s, <<x0>>, Hold({}, Own(s, 0), S, {}, {}, All(s)), Hold({}, Own(s, 0), S, {}, {} \cup {0}, All(s)))
      BY <2>2, <2>3, YStoreLeads
    <3>2. {} \cup {0} = {0}
      OBVIOUS
    <3>3. Leads(s, << >>, Hold({}, Own(s, 0), S, {}, {}, All(s)), Hold({}, Own(s, 0), S, {}, {}, All(s)))
      BY LeadsNothing, WeakerOrder
    <3>4. QED
      BY <2>4, <3>1, <3>2, <3>3, LeadsThen
  <2>8. n = 2 => Leads(s, g[2], Hold({}, Own(s, 0), S, {}, {0}, All(s)), Hold({}, Own(s, 1), Kept(s, 0), {}, {0, 1}, All(s)))
    <3>1. SUFFICES ASSUME n = 2
                   PROVE  Leads(s, g[2], Hold({}, Own(s, 0), S, {}, {0}, All(s)),
                                Hold({}, Own(s, 1), Kept(s, 0), {}, {0, 1}, All(s)))
      OBVIOUS
    <3>2. S = Kept(s, 1)
      BY <1>1, <1>6, <2>6, <3>1, HomeSwap DEF Sumable
    <3>3. Leads(s, e, Hold({}, Own(s, 0), Kept(s, 1), {}, {0}, All(s)), Hold({}, Own(s, 1), Kept(s, 0), {}, {0}, All(s)))
      BY <2>3, AccSwapLeads DEF Sumable
    <3>4. Leads(s, <<x1>>, Hold({}, Own(s, 1), Kept(s, 0), {}, {0}, All(s)),
                Hold({}, Own(s, 1), Kept(s, 0), {}, {0} \cup {1}, All(s)))
      BY <2>2, <2>3, YStoreLeads
    <3>5. {0} \cup {1} = {0, 1}
      OBVIOUS
    <3>6. Leads(s, <<x1>>, Hold({}, Own(s, 1), Kept(s, 0), {}, {0}, All(s)), Hold({}, Own(s, 1), Kept(s, 0), {}, {0, 1}, All(s)))
      BY <3>4, <3>5
    <3>7. Leads(s, e \o <<x1>>, Hold({}, Own(s, 0), Kept(s, 1), {}, {0}, All(s)),
                Hold({}, Own(s, 1), Kept(s, 0), {}, {0, 1}, All(s)))
      BY <3>3, <3>6, LeadsThen
    <3>8. QED
      BY <2>5, <3>1, <3>2, <3>7
  <2> DEFINE K == [r \in 0..n |-> IF r = 0 THEN Hold({}, Own(s, 0), S, {}, {}, All(s))
                                  ELSE IF r = 1 THEN Hold({}, Own(s, 0), S, {}, {0}, All(s))
                                  ELSE Hold({}, Own(s, 1), Kept(s, 0), {}, {0, 1}, All(s))]
  <2>9. /\ K[0] = Hold({}, Own(s, 0), S, {}, {}, All(s))
        /\ K[1] = Hold({}, Own(s, 0), S, {}, {0}, All(s))
        /\ n = 2 => K[2] = Hold({}, Own(s, 1), Kept(s, 0), {}, {0, 1}, All(s))
    BY <1>1
  <2> HIDE DEF K
  <2>10. \A r \in 1..n : Leads(s, g[r], K[r - 1], K[r])
    <3>1. \A r \in 1..n : (r = 1 /\ r - 1 = 0) \/ (r = 2 /\ r - 1 = 1 /\ n = 2)
      BY <2>1
    <3>2. QED
      BY <2>7, <2>8, <2>9, <3>1
  <2>11. g = [r \in 1..n |-> g[r]]
    BY <1>1
  <2>12. Leads(s, FlattenSeq(g), K[0], K[n])
    BY <2>10, <2>11, LeadsEach
  <2>13. K[0] = Start(s, "store")
    BY <1>2, <2>1, <2>6, <2>9
  <2>14. Weaker(End(s, "store"), K[n])
    <3>1. CASE n = 1
      <4>1. 0..(1 - 1) = {0}
        OBVIOUS
      <4>2. QED
        BY <1>3, <1>4, <2>9, <3>1, <4>1 DEF Weaker, Beside, Hold
    <3>2. CASE n = 2
      <4>1. 0..(2 - 1) = {0, 1}
        OBVIOUS
      <4>2. QED
        BY <1>3, <1>4, <2>9, <3>2, <4>1 DEF Weaker, Beside, Hold
    <3>3. QED
      BY <2>1, <3>1, <3>2
  <2>15. QED
    BY <2>12, <2>13, <2>14, WeakerOrder, LeadsWeaker
<1>7. QED
  BY <1>5, <1>6

\* Every block of the generated code.
LEMMA LoweredLeads ==
  ASSUME NEW s, Sumable(s), NEW b \in Main \cup Epilogs \cup {"store"}
  PROVE  Leads(s, Lowered(s)[b], Start(s, b), End(s, b))
<1> DEFINE synced == <<Wait("lgkm", 0), Barrier, Advance>>
           live == IF s.acc_swap THEN 1 ELSE NRowBlocks(s)
           outs == [c \in 1..NColTiles(s) |-> <<SwapOut(c - 1)>>]
           init == When(s.acc_swap, FlattenSeq(outs) \o <<Wait("lgkm", 0)>>)
           ys == [r \in 1..NRowBlocks(s) |-> When(s.acc_swap /\ r - 1 > 0, AccSwap(s))
                    \o <<YStore(r - 1, IF live = 1 THEN 0 ELSE r - 1)>>]
           f == Lowered(s)
           H == HomeAcc(s)
           S == HomeSlot(s)
           N == RowsIn(s)
<1>1. f["prologue"] = ((init \o CoopLoad(s)) \o LdsStores(s, 0)) \o synced
  BY BlockNames DEF Lowered, Each, Main
<1>2. f["A"] = ((CoopLoad(s) \o Compute(s, 0)) \o LdsStores(s, 1)) \o synced
  BY BlockNames DEF Lowered, Main
<1>3. f["B"] = ((CoopLoad(s) \o Compute(s, 1)) \o LdsStores(s, 0)) \o synced
  BY BlockNames DEF Lowered, Main
<1>4. f["epilogA"] = Compute(s, 0) /\ f["epilogB"] = Compute(s, 1)
  BY BlockNames DEF Lowered, Epilogs
<1>5. f["store"] = FlattenSeq(ys)
  BY BlockNames DEF Lowered, Each
<1>6. Sized(s)
  BY DEF Sumable
<1>7. Leads(s, init, Start(s, "prologue"), Carry({}, {}, H, S, All(s)))
  BY SavedLeads
<1>8. Leads(s, FlattenSeq(ys), Start(s, "store"), End(s, "store"))
  BY StoreLeads
<1>9. Leads(s, synced, Carry(N, N, H, S, All(s)), Carry({}, {}, H, S, {}))
  BY <1>6, SyncedLeads
<1>10. /\ \A D : Leads(s, CoopLoad(s), Carry({}, {}, H, S, D), Carry(N, {}, H, S, D))
       /\ \A u : Leads(s, LdsStores(s, u), Carry(N, {}, H, S, All(s)), Carry(N, N, H, S, All(s)))
  BY <1>6, CoopLoadLeads, LdsStoresLead
<1>11. \A M, u : Leads(s, Compute(s, u), Carry(M, {}, H, S, {}), Carry(M, {}, H, S, All(s)))
  <2>1. \A M, u : Leads(s, Compute(s, u), Mid(M, {}, H, S, {}, {}), Mid(M, {}, H, S, {}, All(s)))
    BY ComputeLeads DEF Sumable
  <2> HIDE DEF H, S
  <2>2. QED
    BY <2>1, MidCarry
<1>12. /\ \A c \in {"A", "B", "epilogA", "epilogB"} : Start(s, c) = Carry({}, {}, H, S, {})
       /\ \A c \in {"prologue", "A", "B"} : End(s, c) = Carry({}, {}, H, S, {})
       /\ \A c \in {"epilogA", "epilogB"} : End(s, c) = Carry({}, {}, H, S, All(s))
  <2> HIDE DEF H, S
  <2>1. \A c \in {"A", "B", "epilogA", "epilogB"} : Start(s, c) = Carry({}, {}, H, S, {})
    BY DEF Start, Carry, H, S
  <2>2. \A c \in {"prologue", "A", "B"} : End(s, c) = Carry({}, {}, H, S, {})
    BY DEF End, Carry, Main, H, S
  <2>3. \A c \in {"epilogA", "epilogB"} : End(s, c) = Carry({}, {}, H, S, All(s))
    BY DEF End, Carry, Main, H, S
  <2>4. QED
    BY <2>1, <2>2, <2>3
<1> HIDE DEF f, init, ys, synced, H, S, N
<1>13. Leads(s, f["prologue"], Start(s, "prologue"), End(s, "prologue"))
  <2>1. Leads(s, init \o CoopLoad(s), Start(s, "prologue"), Carry(N, {}, H, S, All(s)))
    BY <1>7, <1>10, LeadsThen
  <2>2. Leads(s, (init \o CoopLoad(s)) \o LdsStores(s, 0), Start(s, "prologue"), Carry(N, N, H, S, All(s)))
    BY <1>10, <2>1, LeadsThen
  <2>3. QED
    BY <1>1, <1>9, <1>12, <2>2, LeadsThen
<1>14. \A u, v : Leads(s, ((CoopLoad(s) \o Compute(s, u)) \o LdsStores(s, v)) \o synced,
                       Carry({}, {}, H, S, {}), Carry({}, {}, H, S, {}))
  <2> SUFFICES ASSUME NEW u, NEW v
               PROVE  Leads(s, ((CoopLoad(s) \o Compute(s, u)) \o LdsStores(s, v)) \o synced,
                            Carry({}, {}, H, S, {}), Carry({}, {}, H, S, {}))
    OBVIOUS
  <2>1. Leads(s, CoopLoad(s) \o Compute(s, u), Carry({}, {}, H, S, {}), Carry(N, {}, H, S, All(s)))
    BY <1>10, <1>11, LeadsThen
  <2>2. Leads(s, (CoopLoad(s) \o Compute(s, u)) \o LdsStores(s, v), Carry({}, {}, H, S, {}), Carry(N, N, H, S, All(s)))
    BY <1>10, <2>1, LeadsThen
  <2>3. QED
    BY <1>9, <2>2, LeadsThen
<1>15. \A c \in {"A", "B", "epilogA", "epilogB"} : Leads(s, f[c], Start(s, c), End(s, c))
  BY <1>2, <1>3, <1>4, <1>11, <1>12, <1>14
<1>16. b \in {"prologue", "A", "B", "epilogA", "epilogB", "store"}
  BY DEF Main, Epilogs
<1>17. Leads(s, f[b], Start(s, b), End(s, b))
  BY <1>5, <1>8, <1>13, <1>15, <1>16
<1>18. QED
  BY <1>17 DEF f

-----------------------------------------------------------------------------
\* The passes over the waits, and the whole kernel.

\* What a pass may leave of an instruction: itself, and of a wait another wait, or nothing.
Left(x, g) == g = <<x>> \/ (x.op = "wait" /\ (g = << >> \/ \E c, n : g = <<Wait(c, n)>>))

\* An instruction that is left so leads where the instruction did.
LEMMA LeftLeads ==
  ASSUME NEW s, NEW x, NEW k, NEW l, Learns(s, x, k, l), NEW g, Left(x, g)
  PROVE  Leads(s, g, k, l)
<1>1. CASE g = <<x>>
  BY <1>1, LeadsOne
<1>2. CASE x.op = "wait" /\ g = << >>
  <2>1. Weaker(l, k)
    BY <1>2 DEF Learns
  <2>2. QED
    BY <1>2, <2>1, LeadsNothing
<1>3. CASE x.op = "wait" /\ \E c, n : g = <<Wait(c, n)>>
  <2>1. Weaker(l, k)
    BY <1>3 DEF Learns
  <2>2. PICK w : w.op = "wait" /\ g = <<w>>
    BY <1>3 DEF Wait
  <2>3. Learns(s, w, k, l)
    BY <2>1, <2>2 DEF Learns
  <2>4. QED
    BY <2>2, <2>3, LeadsOne
<1>4. QED
  BY <1>1, <1>2, <1>3 DEF Left

\* A pass that leaves each instruction so keeps where a block leads.
LEMMA PassLeads ==
  ASSUME NEW s, NEW q, NEW k, NEW l, Leads(s, q, k, l), NEW n \in Nat, n = Len(q),
         NEW g, g = [i \in 1..n |-> g[i]], \A i \in 1..n : Left(q[i], g[i])
  PROVE  Leads(s, FlattenSeq(g), k, l)
<1>1. PICK t : Trail(s, q, k, t, l)
  BY DEF Leads
<1>2. /\ Weaker(t[0], k) /\ Weaker(l, t[n])
      /\ \A i \in 1..n : Learns(s, q[i], t[i - 1], t[i])
  BY <1>1 DEF Trail
<1>3. \A i \in 1..n : Leads(s, g[i], t[i - 1], t[i])
  BY <1>2, LeftLeads
<1>4. Leads(s, FlattenSeq(g), t[0], t[n])
  BY <1>3, LeadsEach
<1>5. QED
  BY <1>2, <1>4, LeadsWeaker

\* optimize_waitcnt_mach_func.
LEMMA OptimizeLeads ==
  ASSUME NEW s, NEW q, NEW k, NEW l, Leads(s, q, k, l), NEW name
  PROVE  Leads(s, OptimizeWaitcnt(name, q), k, l)
<1>1. PICK n0 : n0 = IF name \in {"A", "B"} THEN 0 ELSE Unknown
  OBVIOUS
<1> DEFINE known(i) == Outstanding(q, q[i].counter, n0, i - 1)
           kept(i) == When(known(i) > q[i].n, <<q[i]>>)
           g == [i \in 1..Len(q) |-> IF q[i].op = "wait" THEN kept(i) ELSE <<q[i]>>]
<1>2. IsSeq(q) /\ DOMAIN q = 1..Len(q) /\ Len(q) \in Nat
  BY WaitsDomain, EmptyOrNot DEF Leads
<1>3. OptimizeWaitcnt(name, q) = FlattenSeq(g)
  BY <1>1, <1>2 DEF OptimizeWaitcnt, Rewritten
<1>4. ASSUME NEW j \in 1..Len(q) PROVE Left(q[j], g[j])
  BY DEF Left, When
<1>5. g = [j \in 1..Len(q) |-> g[j]]
  OBVIOUS
<1>6. PICK n : n \in Nat /\ n = Len(q)
  BY <1>2
<1> HIDE DEF g
<1>7. PICK G : G = g
  OBVIOUS
<1>8. G = [j \in 1..n |-> G[j]] /\ \A j \in 1..n : Left(q[j], G[j])
  BY <1>4, <1>5, <1>6, <1>7
<1>9. Leads(s, FlattenSeq(G), k, l)
  BY <1>6, <1>8, PassLeads
<1>10. QED
  BY <1>3, <1>7, <1>9

\* AsmEmitter's clamp.
LEMMA EmitLeads ==
  ASSUME NEW s, NEW p, NEW q, NEW k, NEW l, Leads(s, q, k, l)
  PROVE  Leads(s, EmitWaits(p, q), k, l)
<1> DEFINE known(i) == Outstanding(p \o q, q[i].counter, 0, Len(p) + i - 1)
           kept(i) == When(q[i].n > 0 \/ known(i) > 0,
                           <<Wait(q[i].counter, LeastOf(q[i].n, known(i)))>>)
           g == [i \in 1..Len(q) |-> IF q[i].op = "wait" THEN kept(i) ELSE <<q[i]>>]
<1>2. IsSeq(q) /\ DOMAIN q = 1..Len(q) /\ Len(q) \in Nat
  BY WaitsDomain, EmptyOrNot DEF Leads
<1>3. EmitWaits(p, q) = FlattenSeq(g)
  BY <1>2 DEF EmitWaits, Rewritten
<1>4. ASSUME NEW j \in 1..Len(q) PROVE Left(q[j], g[j])
  <2> HIDE DEF known
  <2>1. g[j] = IF q[j].op = "wait" THEN kept(j) ELSE <<q[j]>>
    OBVIOUS
  <2>2. QED
    BY <2>1 DEF Left, When
<1>5. g = [j \in 1..Len(q) |-> g[j]]
  OBVIOUS
<1>6. PICK n : n \in Nat /\ n = Len(q)
  BY <1>2
<1> HIDE DEF g
<1>7. PICK G : G = g
  OBVIOUS
<1>8. G = [j \in 1..n |-> G[j]] /\ \A j \in 1..n : Left(q[j], G[j])
  BY <1>4, <1>5, <1>6, <1>7
<1>9. Leads(s, FlattenSeq(G), k, l)
  BY <1>6, <1>8, PassLeads
<1>10. QED
  BY <1>3, <1>7, <1>9

\* Every block of the kernel, as it is emitted.
LEMMA CompiledLeads ==
  ASSUME NEW s, Sumable(s), NEW c \in Compiled(s), NEW b \in WorkBlocks
  PROVE  Leads(s, c[b], Start(s, b), End(s, b))
<1>1. PICK l : l = Lowered(s)
  OBVIOUS
<1>2. PICK o : o = Optimized(s, l)
  OBVIOUS
<1>3. c = Emitted(o)
  BY <1>1, <1>2 DEF Compiled
<1>4. DOMAIN l = WorkBlocks /\ Leads(s, l[b], Start(s, b), End(s, b))
  BY <1>1, LoweredPhased, LoweredLeads DEF WorkBlocks, Main, Epilogs, Sumable
<1>5. DOMAIN o = WorkBlocks /\ Leads(s, o[b], Start(s, b), End(s, b))
  <2>1. CASE s.gen = "tile_ir"
    <3>1. o = [a \in WorkBlocks |-> OptimizeWaitcnt(a, l[a])]
      BY <1>2, <1>4, <2>1 DEF Optimized
    <3>2. QED
      BY <1>4, <3>1, OptimizeLeads
  <2>2. CASE s.gen # "tile_ir"
    BY <1>2, <1>4, <2>2 DEF Optimized
  <2>3. QED
    BY <2>1, <2>2
<1>6. PICK p : c[b] = EmitWaits(p, o[b])
  BY <1>3, <1>5 DEF Emitted
<1>7. QED
  BY <1>5, <1>6, EmitLeads

-----------------------------------------------------------------------------
\* What is outstanding grows at its end and shrinks at its front.

\* A load is issued.
LEMMA PartAppend ==
  ASSUME NEW q, IsSeq(q), NEW R, NEW s, NEW bufs, NEW n, NEW p, NEW half, NEW block, NEW ks, NEW o,
         \/ Loads(o, p) /\ Fetches(s, o, bufs, half, block, ks)
         \/ ~Loads(o, p) /\ PartIn(q, R, s, bufs, n, p, half, block, ks)
  PROVE  PartIn(Append(q, o), R, s, bufs, n, p, half, block, ks)
<1>1. PICK a \in Nat : a = Len(q)
  BY EmptyOrNot
<1>2. PICK r : r = Append(q, o)
  OBVIOUS
<1>3. Len(r) = a + 1 /\ r[a + 1] = o /\ \A j \in 1..a : r[j] = q[j]
  BY <1>1, <1>2, AppendParts
<1>4. CASE Loads(o, p) /\ Fetches(s, o, bufs, half, block, ks)
  <2>1. a + 1 \in 1..Len(r) /\ \A m \in ((a + 1) + 1)..Len(r) : ~Loads(r[m], p)
    BY <1>3
  <2>2. QED
    BY <1>2, <1>3, <1>4, <2>1 DEF PartIn
<1>5. CASE ~Loads(o, p) /\ PartIn(q, R, s, bufs, n, p, half, block, ks)
  <2>1. CASE \E j \in 1..a : /\ Loads(q[j], p) /\ Fetches(s, q[j], bufs, half, block, ks)
                             /\ \A m \in (j + 1)..a : ~Loads(q[m], p)
    <3>1. PICK j \in 1..a : /\ Loads(q[j], p) /\ Fetches(s, q[j], bufs, half, block, ks)
                            /\ \A m \in (j + 1)..a : ~Loads(q[m], p)
      BY <2>1
    <3>2. \A m \in (j + 1)..(a + 1) : (m \in (j + 1)..a /\ m \in 1..a) \/ m = a + 1
      OBVIOUS
    <3>3. \A m \in (j + 1)..(a + 1) : ~Loads(r[m], p)
      BY <1>3, <1>5, <3>1, <3>2
    <3>4. j \in 1..Len(r) /\ r[j] = q[j]
      BY <1>3
    <3>5. QED
      BY <1>2, <1>3, <3>1, <3>3, <3>4 DEF PartIn
  <2>2. CASE (\A m \in 1..a : ~Loads(q[m], p)) /\ p \in DOMAIN R /\ R[p] = FragOf(block, half, n + 16 * ks)
    <3>1. \A m \in 1..(a + 1) : m \in 1..a \/ m = a + 1
      OBVIOUS
    <3>2. \A m \in 1..(a + 1) : ~Loads(r[m], p)
      BY <1>3, <1>5, <2>2, <3>1
    <3>3. QED
      BY <1>2, <1>3, <2>2, <3>2 DEF PartIn
  <2>3. QED
    BY <1>1, <1>5, <2>1, <2>2 DEF PartIn
<1>6. QED
  BY <1>4, <1>5

\* The oldest operation lands, R being the registers before it and Q those after.
LEMMA PartTail ==
  ASSUME NEW q, IsSeq(q), Len(q) > 0, NEW R, NEW Q, NEW s, NEW bufs, NEW n, NEW p, NEW half, NEW block, NEW ks,
         PartIn(q, R, s, bufs, n, p, half, block, ks),
         Loads(Head(q), p) /\ Fetches(s, Head(q), bufs, half, block, ks) =>
            p \in DOMAIN Q /\ Q[p] = FragOf(block, half, n + 16 * ks),
         ~Loads(Head(q), p) /\ p \in DOMAIN R => p \in DOMAIN Q /\ Q[p] = R[p]
  PROVE  PartIn(Tail(q), Q, s, bufs, n, p, half, block, ks)
<1>1. PICK a \in Nat : Len(q) = a + 1
  <2>1. Len(q) \in Nat /\ Len(q) - 1 \in Nat /\ Len(q) = (Len(q) - 1) + 1
    BY EmptyOrNot
  <2>2. QED
    BY <2>1
<1>2. PICK r : r = Tail(q)
  OBVIOUS
<1>3. Len(r) = a /\ Head(q) = q[1] /\ \A j \in 1..a : r[j] = q[j + 1]
  BY <1>1, <1>2, TailParts
<1>4. ASSUME NEW j \in 1..(a + 1), Loads(q[j], p), Fetches(s, q[j], bufs, half, block, ks),
             \A m \in (j + 1)..(a + 1) : ~Loads(q[m], p)
      PROVE  PartIn(r, Q, s, bufs, n, p, half, block, ks)
  <2>1. CASE j = 1
    <3>1. \A m \in 1..a : m + 1 \in (j + 1)..(a + 1)
      BY <2>1
    <3>2. \A m \in 1..a : ~Loads(r[m], p)
      BY <1>3, <1>4, <3>1
    <3>3. QED
      BY <1>3, <1>4, <2>1, <3>2 DEF PartIn
  <2>2. CASE j # 1
    <3>1. PICK i \in 1..a : i + 1 = j
      <4>1. j - 1 \in 1..a /\ (j - 1) + 1 = j
        BY <2>2
      <4>2. QED
        BY <4>1
    <3>2. \A m \in (i + 1)..a : m \in 1..a /\ m + 1 \in (j + 1)..(a + 1)
      BY <3>1
    <3>3. \A m \in (i + 1)..a : ~Loads(r[m], p)
      BY <1>3, <1>4, <3>2
    <3>4. Loads(r[i], p) /\ Fetches(s, r[i], bufs, half, block, ks)
      BY <1>3, <1>4, <3>1
    <3>5. QED
      BY <1>3, <3>3, <3>4 DEF PartIn
  <2>3. QED
    BY <2>1, <2>2
<1>5. ASSUME \A m \in 1..(a + 1) : ~Loads(q[m], p), p \in DOMAIN R, R[p] = FragOf(block, half, n + 16 * ks)
      PROVE  PartIn(r, Q, s, bufs, n, p, half, block, ks)
  <2>1. \A m \in 1..a : m + 1 \in 1..(a + 1)
    OBVIOUS
  <2>2. \A m \in 1..a : ~Loads(r[m], p)
    BY <1>3, <1>5, <2>1
  <2>3. ~Loads(Head(q), p)
    BY <1>3, <1>5
  <2>4. QED
    BY <1>3, <1>5, <2>2, <2>3 DEF PartIn
<1>6. QED
  BY <1>1, <1>2, <1>4, <1>5 DEF PartIn

\* A load from global memory is issued.
LEMMA NewAppend ==
  ASSUME NEW q, IsSeq(q), NEW R, NEW n, NEW p, NEW o,
         \/ o.dst = p /\ o.k = n
         \/ o.dst # p /\ NewIn(q, R, n, p)
  PROVE  NewIn(Append(q, o), R, n, p)
<1>1. PICK a \in Nat : a = Len(q)
  BY EmptyOrNot
<1>2. PICK r : r = Append(q, o)
  OBVIOUS
<1>3. Len(r) = a + 1 /\ r[a + 1] = o /\ \A j \in 1..a : r[j] = q[j]
  BY <1>1, <1>2, AppendParts
<1>4. CASE o.dst = p /\ o.k = n
  <2>1. a + 1 \in 1..Len(r) /\ \A m \in ((a + 1) + 1)..Len(r) : r[m].dst # p
    BY <1>3
  <2>2. QED
    BY <1>2, <1>3, <1>4, <2>1 DEF NewIn
<1>5. CASE o.dst # p /\ NewIn(q, R, n, p)
  <2>1. CASE \E j \in 1..a : /\ q[j].dst = p /\ q[j].k = n
                             /\ \A m \in (j + 1)..a : q[m].dst # p
    <3>1. PICK j \in 1..a : /\ q[j].dst = p /\ q[j].k = n
                            /\ \A m \in (j + 1)..a : q[m].dst # p
      BY <2>1
    <3>2. \A m \in (j + 1)..(a + 1) : (m \in (j + 1)..a /\ m \in 1..a) \/ m = a + 1
      OBVIOUS
    <3>3. \A m \in (j + 1)..(a + 1) : r[m].dst # p
      BY <1>3, <1>5, <3>1, <3>2
    <3>4. j \in 1..Len(r) /\ r[j] = q[j]
      BY <1>3
    <3>5. QED
      BY <1>2, <1>3, <3>1, <3>3, <3>4 DEF NewIn
  <2>2. CASE (\A m \in 1..a : q[m].dst # p) /\ p \in DOMAIN R /\ R[p] = n
    <3>1. \A m \in 1..(a + 1) : m \in 1..a \/ m = a + 1
      OBVIOUS
    <3>2. \A m \in 1..(a + 1) : r[m].dst # p
      BY <1>3, <1>5, <2>2, <3>1
    <3>3. QED
      BY <1>2, <1>3, <2>2, <3>2 DEF NewIn
  <2>3. QED
    BY <1>1, <1>5, <2>1, <2>2 DEF NewIn
<1>6. QED
  BY <1>4, <1>5

\* It lands.
LEMMA NewTail ==
  ASSUME NEW q, IsSeq(q), Len(q) > 0, NEW R, NEW Q, NEW n, NEW p, NewIn(q, R, n, p),
         Head(q).dst = p => p \in DOMAIN Q /\ Q[p] = Head(q).k,
         Head(q).dst # p /\ p \in DOMAIN R => p \in DOMAIN Q /\ Q[p] = R[p]
  PROVE  NewIn(Tail(q), Q, n, p)
<1>1. PICK a \in Nat : Len(q) = a + 1
  <2>1. Len(q) \in Nat /\ Len(q) - 1 \in Nat /\ Len(q) = (Len(q) - 1) + 1
    BY EmptyOrNot
  <2>2. QED
    BY <2>1
<1>2. PICK r : r = Tail(q)
  OBVIOUS
<1>3. Len(r) = a /\ Head(q) = q[1] /\ \A j \in 1..a : r[j] = q[j + 1]
  BY <1>1, <1>2, TailParts
<1>4. ASSUME NEW j \in 1..(a + 1), q[j].dst = p, q[j].k = n,
             \A m \in (j + 1)..(a + 1) : q[m].dst # p
      PROVE  NewIn(r, Q, n, p)
  <2>1. CASE j = 1
    <3>1. \A m \in 1..a : m + 1 \in (j + 1)..(a + 1)
      BY <2>1
    <3>2. \A m \in 1..a : r[m].dst # p
      BY <1>3, <1>4, <3>1
    <3>3. QED
      BY <1>3, <1>4, <2>1, <3>2 DEF NewIn
  <2>2. CASE j # 1
    <3>1. PICK i \in 1..a : i + 1 = j
      <4>1. j - 1 \in 1..a /\ (j - 1) + 1 = j
        BY <2>2
      <4>2. QED
        BY <4>1
    <3>2. \A m \in (i + 1)..a : m \in 1..a /\ m + 1 \in (j + 1)..(a + 1)
      BY <3>1
    <3>3. \A m \in (i + 1)..a : r[m].dst # p
      BY <1>3, <1>4, <3>2
    <3>4. r[i].dst = p /\ r[i].k = n
      BY <1>3, <1>4, <3>1
    <3>5. QED
      BY <1>3, <3>3, <3>4 DEF NewIn
  <2>3. QED
    BY <2>1, <2>2
<1>5. ASSUME \A m \in 1..(a + 1) : q[m].dst # p, p \in DOMAIN R, R[p] = n
      PROVE  NewIn(r, Q, n, p)
  <2>1. \A m \in 1..a : m + 1 \in 1..(a + 1)
    OBVIOUS
  <2>2. \A m \in 1..a : r[m].dst # p
    BY <1>3, <1>5, <2>1
  <2>3. Head(q).dst # p
    BY <1>3, <1>5
  <2>4. QED
    BY <1>3, <1>5, <2>2, <2>3 DEF NewIn
<1>6. QED
  BY <1>1, <1>2, <1>4, <1>5 DEF NewIn

\* A store to shared memory is issued.
LEMMA PutAppend ==
  ASSUME NEW q, IsSeq(q), NEW L, NEW s, NEW w, NEW bufs, NEW n, NEW p, NEW o,
         (o.op = "ds_store" /\ o.src = p) \/ PutIn(q, L, s, w, bufs, n, p)
  PROVE  PutIn(Append(q, o), L, s, w, bufs, n, p)
<1>1. PICK a \in Nat : a = Len(q)
  BY EmptyOrNot
<1>2. PICK r : r = Append(q, o)
  OBVIOUS
<1>3. Len(r) = a + 1 /\ r[a + 1] = o /\ \A j \in 1..a : r[j] = q[j]
  BY <1>1, <1>2, AppendParts
<1>4. CASE o.op = "ds_store" /\ o.src = p
  <2>1. a + 1 \in 1..Len(r)
    BY <1>3
  <2>2. QED
    BY <1>2, <1>3, <1>4, <2>1 DEF PutIn
<1>5. CASE \E j \in 1..a : q[j].op = "ds_store" /\ q[j].src = p
  <2>1. PICK j \in 1..a : q[j].op = "ds_store" /\ q[j].src = p
    BY <1>5
  <2>2. j \in 1..Len(r) /\ r[j] = q[j]
    BY <1>3
  <2>3. QED
    BY <1>2, <2>1, <2>2 DEF PutIn
<1>6. QED
  BY <1>1, <1>2, <1>4, <1>5 DEF PutIn

\* An operation lands, M being shared memory after it.
LEMMA PutTail ==
  ASSUME NEW q, IsSeq(q), Len(q) > 0, NEW L, NEW M, NEW s, NEW w, NEW bufs, NEW n, NEW p, PutIn(q, L, s, w, bufs, n, p),
         Head(q).op = "ds_store" /\ Head(q).src = p =>
            \A u \in bufs : M[u][p[1]][p[2] * NWaves(s) + w] = n,
         (\A u \in bufs : L[u][p[1]][p[2] * NWaves(s) + w] = n) =>
            \A u \in bufs : M[u][p[1]][p[2] * NWaves(s) + w] = n
  PROVE  PutIn(Tail(q), M, s, w, bufs, n, p)
<1>1. PICK a \in Nat : Len(q) = a + 1
  <2>1. Len(q) \in Nat /\ Len(q) - 1 \in Nat /\ Len(q) = (Len(q) - 1) + 1
    BY EmptyOrNot
  <2>2. QED
    BY <2>1
<1>2. PICK r : r = Tail(q)
  OBVIOUS
<1>3. Len(r) = a /\ Head(q) = q[1] /\ \A j \in 1..a : r[j] = q[j + 1]
  BY <1>1, <1>2, TailParts
<1>4. ASSUME NEW j \in 1..(a + 1), q[j].op = "ds_store", q[j].src = p
      PROVE  PutIn(r, M, s, w, bufs, n, p)
  <2>1. CASE j = 1
    BY <1>3, <1>4, <2>1 DEF PutIn
  <2>2. CASE j # 1
    <3>1. PICK i \in 1..a : i + 1 = j
      <4>1. j - 1 \in 1..a /\ (j - 1) + 1 = j
        BY <2>2
      <4>2. QED
        BY <4>1
    <3>2. r[i].op = "ds_store" /\ r[i].src = p
      BY <1>3, <1>4, <3>1
    <3>3. QED
      BY <1>3, <3>2 DEF PutIn
  <2>3. QED
    BY <2>1, <2>2
<1>5. QED
  BY <1>1, <1>2, <1>4 DEF PutIn

\* Only the operations up to n count.
LEMMA SlotSame ==
  ASSUME NEW q, NEW r, NEW n \in Nat, \A j \in 1..n : r[j] = q[j], NEW S, NEW c, NEW v, SlotIn(q, n, S, c, v)
  PROVE  SlotIn(r, n, S, c, v)
<1>1. CASE \E j \in 1..n : /\ SwapsOut(q[j], c) /\ q[j].value = v
                           /\ \A m \in (j + 1)..n : ~SwapsOut(q[m], c)
  <2>1. PICK j \in 1..n : /\ SwapsOut(q[j], c) /\ q[j].value = v
                          /\ \A m \in (j + 1)..n : ~SwapsOut(q[m], c)
    BY <1>1
  <2>2. \A m \in (j + 1)..n : m \in 1..n
    OBVIOUS
  <2>3. \A m \in (j + 1)..n : ~SwapsOut(r[m], c)
    BY <2>1, <2>2
  <2>4. QED
    BY <2>1, <2>3 DEF SlotIn
<1>2. CASE (\A m \in 1..n : ~SwapsOut(q[m], c)) /\ S[c] = v
  BY <1>2 DEF SlotIn
<1>3. QED
  BY <1>1, <1>2 DEF SlotIn

\* One more operation.
LEMMA SlotMore ==
  ASSUME NEW r, NEW n \in Nat, NEW S, NEW c, NEW v,
         \/ SwapsOut(r[n + 1], c) /\ r[n + 1].value = v
         \/ ~SwapsOut(r[n + 1], c) /\ SlotIn(r, n, S, c, v)
  PROVE  SlotIn(r, n + 1, S, c, v)
<1>1. CASE SwapsOut(r[n + 1], c) /\ r[n + 1].value = v
  <2>1. n + 1 \in 1..(n + 1) /\ \A m \in ((n + 1) + 1)..(n + 1) : ~SwapsOut(r[m], c)
    OBVIOUS
  <2>2. QED
    BY <1>1, <2>1 DEF SlotIn
<1>2. CASE ~SwapsOut(r[n + 1], c) /\ SlotIn(r, n, S, c, v)
  <2>1. CASE \E j \in 1..n : /\ SwapsOut(r[j], c) /\ r[j].value = v
                             /\ \A m \in (j + 1)..n : ~SwapsOut(r[m], c)
    <3>1. PICK j \in 1..n : /\ SwapsOut(r[j], c) /\ r[j].value = v
                            /\ \A m \in (j + 1)..n : ~SwapsOut(r[m], c)
      BY <2>1
    <3>2. \A m \in (j + 1)..(n + 1) : m \in (j + 1)..n \/ m = n + 1
      OBVIOUS
    <3>3. \A m \in (j + 1)..(n + 1) : ~SwapsOut(r[m], c)
      BY <1>2, <3>1, <3>2
    <3>4. j \in 1..(n + 1)
      OBVIOUS
    <3>5. QED
      BY <3>1, <3>3, <3>4 DEF SlotIn
  <2>2. CASE (\A m \in 1..n : ~SwapsOut(r[m], c)) /\ S[c] = v
    <3>1. \A m \in 1..(n + 1) : m \in 1..n \/ m = n + 1
      OBVIOUS
    <3>2. \A m \in 1..(n + 1) : ~SwapsOut(r[m], c)
      BY <1>2, <2>2, <3>1
    <3>3. QED
      BY <2>2, <3>2 DEF SlotIn
  <2>3. QED
    BY <1>2, <2>1, <2>2 DEF SlotIn
<1>3. QED
  BY <1>1, <1>2

\* The oldest operation lands, T being the slots after it.
LEMMA SlotTail ==
  ASSUME NEW q, IsSeq(q), NEW n \in Nat, n + 1 <= Len(q), NEW S, NEW T, NEW c, NEW v, SlotIn(q, n + 1, S, c, v),
         SwapsOut(Head(q), c) => T[c] = Head(q).value,
         ~SwapsOut(Head(q), c) => T[c] = S[c]
  PROVE  SlotIn(Tail(q), n, T, c, v)
<1>1. PICK a \in Nat : Len(q) = a + 1
  <2>1. Len(q) \in Nat /\ Len(q) - 1 \in Nat /\ Len(q) = (Len(q) - 1) + 1
    BY EmptyOrNot
  <2>2. QED
    BY <2>1
<1>2. PICK r : r = Tail(q)
  OBVIOUS
<1>3. Len(r) = a /\ Head(q) = q[1] /\ \A j \in 1..a : r[j] = q[j + 1]
  BY <1>1, <1>2, TailParts
<1>4. n <= a
  BY <1>1
<1>5. ASSUME NEW j \in 1..(n + 1), SwapsOut(q[j], c), q[j].value = v,
             \A m \in (j + 1)..(n + 1) : ~SwapsOut(q[m], c)
      PROVE  SlotIn(r, n, T, c, v)
  <2>1. CASE j = 1
    <3>1. \A m \in 1..n : m + 1 \in (j + 1)..(n + 1) /\ m \in 1..a
      BY <1>4, <2>1
    <3>2. \A m \in 1..n : ~SwapsOut(r[m], c)
      BY <1>3, <1>5, <3>1
    <3>3. QED
      BY <1>3, <1>5, <2>1, <3>2 DEF SlotIn
  <2>2. CASE j # 1
    <3>1. PICK i \in 1..n : i + 1 = j
      <4>1. j - 1 \in 1..n /\ (j - 1) + 1 = j
        BY <2>2
      <4>2. QED
        BY <4>1
    <3>2. \A m \in (i + 1)..n : m \in 1..a /\ m + 1 \in (j + 1)..(n + 1)
      BY <1>4, <3>1
    <3>3. \A m \in (i + 1)..n : ~SwapsOut(r[m], c)
      BY <1>3, <1>5, <3>2
    <3>4. i \in 1..a
      BY <1>4
    <3>5. SwapsOut(r[i], c) /\ r[i].value = v
      BY <1>3, <1>5, <3>1, <3>4
    <3>6. QED
      BY <3>3, <3>5 DEF SlotIn
  <2>3. QED
    BY <2>1, <2>2
<1>6. ASSUME \A m \in 1..(n + 1) : ~SwapsOut(q[m], c), S[c] = v
      PROVE  SlotIn(r, n, T, c, v)
  <2>1. \A m \in 1..n : m + 1 \in 1..(n + 1) /\ m \in 1..a
    BY <1>4
  <2>2. \A m \in 1..n : ~SwapsOut(r[m], c)
    BY <1>3, <1>6, <2>1
  <2>3. ~SwapsOut(Head(q), c)
    BY <1>3, <1>6
  <2>4. QED
    BY <1>6, <2>2, <2>3 DEF SlotIn
<1>7. QED
  BY <1>2, <1>5, <1>6 DEF SlotIn

\* An operation is issued.
LEMMA TempAppend ==
  ASSUME NEW q, IsSeq(q), NEW R, NEW S, NEW c, NEW v, NEW o,
         \/ o.op = "swap_in" /\ o.c = c /\ SlotIn(q, Len(q), S, c, v)
         \/ o.op # "swap_in" /\ TempIn(q, R, S, c, v)
  PROVE  TempIn(Append(q, o), R, S, c, v)
<1>1. PICK a \in Nat : a = Len(q)
  BY EmptyOrNot
<1>2. PICK r : r = Append(q, o)
  OBVIOUS
<1>3. Len(r) = a + 1 /\ r[a + 1] = o /\ \A j \in 1..a : r[j] = q[j]
  BY <1>1, <1>2, AppendParts
<1>4. CASE o.op = "swap_in" /\ o.c = c /\ SlotIn(q, a, S, c, v)
  <2>1. a + 1 \in 1..Len(r) /\ (a + 1) - 1 = a /\ \A m \in ((a + 1) + 1)..Len(r) : r[m].op # "swap_in"
    BY <1>3
  <2>2. SlotIn(r, a, S, c, v)
    BY <1>3, <1>4, SlotSame
  <2>3. QED
    BY <1>2, <1>3, <1>4, <2>1, <2>2 DEF TempIn
<1>5. CASE o.op # "swap_in" /\ TempIn(q, R, S, c, v)
  <2>1. CASE \E j \in 1..a : /\ q[j].op = "swap_in" /\ q[j].c = c /\ SlotIn(q, j - 1, S, c, v)
                             /\ \A m \in (j + 1)..a : q[m].op # "swap_in"
    <3>1. PICK j \in 1..a : /\ q[j].op = "swap_in" /\ q[j].c = c /\ SlotIn(q, j - 1, S, c, v)
                            /\ \A m \in (j + 1)..a : q[m].op # "swap_in"
      BY <2>1
    <3>2. \A m \in (j + 1)..(a + 1) : (m \in (j + 1)..a /\ m \in 1..a) \/ m = a + 1
      OBVIOUS
    <3>3. \A m \in (j + 1)..(a + 1) : r[m].op # "swap_in"
      BY <1>3, <1>5, <3>1, <3>2
    <3>4. j \in 1..Len(r) /\ r[j] = q[j] /\ j - 1 \in Nat
      BY <1>3
    <3>5. \A i \in 1..(j - 1) : r[i] = q[i]
      BY <1>3
    <3>6. SlotIn(r, j - 1, S, c, v)
      BY <3>1, <3>4, <3>5, SlotSame
    <3>7. QED
      BY <1>2, <1>3, <3>1, <3>3, <3>4, <3>6 DEF TempIn
  <2>2. CASE (\A m \in 1..a : q[m].op # "swap_in") /\ <<"temp">> \in DOMAIN R /\ R[<<"temp">>] = v
    <3>1. \A m \in 1..(a + 1) : m \in 1..a \/ m = a + 1
      OBVIOUS
    <3>2. \A m \in 1..(a + 1) : r[m].op # "swap_in"
      BY <1>3, <1>5, <2>2, <3>1
    <3>3. QED
      BY <1>2, <1>3, <2>2, <3>2 DEF TempIn
  <2>3. QED
    BY <1>1, <1>5, <2>1, <2>2 DEF TempIn
<1>6. QED
  BY <1>1, <1>4, <1>5

\* The oldest operation lands.
LEMMA TempTail ==
  ASSUME NEW q, IsSeq(q), Len(q) > 0, NEW R, NEW Q, NEW S, NEW T, NEW c, NEW v, TempIn(q, R, S, c, v),
         Head(q).op = "swap_in" => <<"temp">> \in DOMAIN Q /\ (Head(q).c = c => Q[<<"temp">>] = S[c]),
         Head(q).op # "swap_in" /\ <<"temp">> \in DOMAIN R => <<"temp">> \in DOMAIN Q /\ Q[<<"temp">>] = R[<<"temp">>],
         SwapsOut(Head(q), c) => T[c] = Head(q).value,
         ~SwapsOut(Head(q), c) => T[c] = S[c]
  PROVE  TempIn(Tail(q), Q, T, c, v)
<1>1. PICK a \in Nat : Len(q) = a + 1
  <2>1. Len(q) \in Nat /\ Len(q) - 1 \in Nat /\ Len(q) = (Len(q) - 1) + 1
    BY EmptyOrNot
  <2>2. QED
    BY <2>1
<1>2. PICK r : r = Tail(q)
  OBVIOUS
<1>3. Len(r) = a /\ Head(q) = q[1] /\ \A j \in 1..a : r[j] = q[j + 1]
  BY <1>1, <1>2, TailParts
<1>4. ASSUME NEW j \in 1..(a + 1), q[j].op = "swap_in", q[j].c = c, SlotIn(q, j - 1, S, c, v),
             \A m \in (j + 1)..(a + 1) : q[m].op # "swap_in"
      PROVE  TempIn(r, Q, T, c, v)
  <2>1. CASE j = 1
    <3>1. \A m \in 1..a : m + 1 \in (j + 1)..(a + 1)
      BY <2>1
    <3>2. \A m \in 1..a : r[m].op # "swap_in"
      BY <1>3, <1>4, <3>1
    <3>3. PICK n : n = j - 1
      OBVIOUS
    <3>4. n = 0 /\ SlotIn(q, n, S, c, v)
      BY <1>4, <2>1, <3>3
    <3>5. S[c] = v
      BY <3>4 DEF SlotIn
    <3>6. QED
      BY <1>3, <1>4, <2>1, <3>2, <3>5 DEF TempIn
  <2>2. CASE j # 1
    <3>1. PICK i \in 1..a : i + 1 = j
      <4>1. j - 1 \in 1..a /\ (j - 1) + 1 = j
        BY <2>2
      <4>2. QED
        BY <4>1
    <3>2. \A m \in (i + 1)..a : m \in 1..a /\ m + 1 \in (j + 1)..(a + 1)
      BY <3>1
    <3>3. \A m \in (i + 1)..a : r[m].op # "swap_in"
      BY <1>3, <1>4, <3>2
    <3>4. r[i].op = "swap_in" /\ r[i].c = c
      BY <1>3, <1>4, <3>1
    <3>5. PICK n \in Nat : n = i - 1 /\ n + 1 = j - 1 /\ n + 1 <= Len(q)
      BY <1>1, <3>1
    <3>6. SlotIn(q, n + 1, S, c, v)
      BY <1>4, <3>5
    <3>7. SlotIn(r, n, T, c, v)
      BY <1>2, <3>5, <3>6, SlotTail
    <3>8. SlotIn(r, i - 1, T, c, v)
      BY <3>5, <3>7
    <3>9. QED
      BY <1>3, <3>3, <3>4, <3>8 DEF TempIn
  <2>3. QED
    BY <2>1, <2>2
<1>5. ASSUME \A m \in 1..(a + 1) : q[m].op # "swap_in", <<"temp">> \in DOMAIN R, R[<<"temp">>] = v
      PROVE  TempIn(r, Q, T, c, v)
  <2>1. \A m \in 1..a : m + 1 \in 1..(a + 1)
    OBVIOUS
  <2>2. \A m \in 1..a : r[m].op # "swap_in"
    BY <1>3, <1>5, <2>1
  <2>3. Head(q).op # "swap_in"
    BY <1>3, <1>5
  <2>4. QED
    BY <1>3, <1>5, <2>2, <2>3 DEF TempIn
<1>6. QED
  BY <1>1, <1>2, <1>4, <1>5 DEF TempIn

-----------------------------------------------------------------------------
\* What is summed: numbers and bags.

\* Multiples of sixteen.
LEMMA Sixteenth ==
  ASSUME NEW a \in Nat, a % 16 = 0
  PROVE  \E m \in Nat : a = 16 * m
<1>1. PICK m \in Nat : m = a \div 16
  OBVIOUS
<1>2. a = 16 * m
  BY <1>1
<1>3. QED
  BY <1>2

\* With every step of the tile at hand finished, all K so far are summed.
LEMMA SummedAll ==
  ASSUME NEW s, s.tile_k \in Nat, s.tile_k % 16 = 0, NEW f \in Nat, NEW n \in Nat,
         NEW r \in RowsOf(s), NEW c \in ColumnsOf(s)
  PROVE  Summed(s, f, n, r, c, All(s)) = {k \in f..(f + n - 1) : k % 16 = 0}
<1>1. PICK t \in Nat : t = s.tile_k /\ t % 16 = 0
  OBVIOUS
<1>2. PICK m \in Nat : t = 16 * m
  BY <1>1, Sixteenth
<1>3. StepsOf(s) = 0..(m - 1)
  <2>1. t \div 16 = m
    BY <1>2
  <2>2. QED
    BY <1>1, <2>1 DEF StepsOf, KSubSteps
<1>4. ASSUME NEW k \in f..(f + n - 1), ~(k < f + n - t)
      PROVE  <<r, c, (k - (f + n - t)) \div 16>> \in All(s)
  <2>1. PICK d \in Nat : d = k - (f + n - t) /\ d < 16 * m
    <3>1. k - (f + n - t) \in Nat /\ k - (f + n - t) < 16 * m
      BY <1>2, <1>4
    <3>2. QED
      BY <3>1
  <2>2. d \div 16 \in 0..(m - 1)
    BY <2>1
  <2>3. QED
    BY <1>3, <2>1, <2>2 DEF All
<1>5. QED
  BY <1>1, <1>4 DEF Summed

\* At the next tile none of its steps is.
LEMMA SummedNone ==
  ASSUME NEW s, s.tile_k \in Nat, NEW f \in Nat, NEW m \in Nat, m >= s.tile_k, NEW r, NEW c
  PROVE  Summed(s, f, m, r, c, {}) = {k \in f..(f + (m - s.tile_k) - 1) : k % 16 = 0}
<1>1. PICK t \in Nat : t = s.tile_k
  OBVIOUS
<1>2. PICK n \in Nat : n = m - t
  <2>1. m - t \in Nat
    BY <1>1
  <2>2. QED
    BY <2>1
<1>3. f + m - t = f + n /\ m = n + t
  BY <1>1, <1>2
<1>4. \A k \in f..(f + m - 1) : k < f + n => k \in f..(f + n - 1)
  OBVIOUS
<1>5. \A k \in f..(f + n - 1) : k < f + n /\ k \in f..(f + m - 1)
  BY <1>3
<1>6. QED
  BY <1>1, <1>2, <1>3, <1>4, <1>5 DEF Summed

\* So the sums of a finished tile are those the next one starts from.
LEMMA TotalAdvance ==
  ASSUME NEW s, s.tile_k \in Nat, s.tile_k % 16 = 0, NEW f \in Nat, NEW n \in Nat,
         NEW r \in RowsOf(s), NEW c \in ColumnsOf(s)
  PROVE  Total(s, f, n + s.tile_k, r, c, {}) = Total(s, f, n, r, c, All(s))
<1>1. PICK m \in Nat : m = n + s.tile_k
  OBVIOUS
<1>2. m >= s.tile_k /\ m - s.tile_k = n
  BY <1>1
<1>3. Summed(s, f, m, r, c, {}) = {k \in f..(f + (m - s.tile_k) - 1) : k % 16 = 0}
  BY <1>2, SummedNone
<1>4. Summed(s, f, n, r, c, All(s)) = {k \in f..(f + n - 1) : k % 16 = 0}
  BY SummedAll
<1>5. Summed(s, f, m, r, c, {}) = Summed(s, f, n, r, c, All(s))
  BY <1>2, <1>3, <1>4
<1>6. QED
  BY <1>1, <1>5 DEF Total

\* Before the first tile there is nothing to sum.
LEMMA TotalNothing ==
  ASSUME NEW s, NEW f \in Nat, NEW r, NEW c, NEW D
  PROVE  Total(s, f, 0, r, c, D) = EmptyBag
<1>1. f..(f + 0 - 1) = {}
  OBVIOUS
<1>2. Summed(s, f, 0, r, c, D) = {}
  BY <1>1 DEF Summed
<1>3. QED
  BY <1>2 DEF Total, EmptyBag

\* A step adds one K.
LEMMA SummedStep ==
  ASSUME NEW s, s.tile_k \in Nat, s.tile_k % 16 = 0, NEW f \in Nat, f % 16 = 0, NEW n \in Nat, n % 16 = 0,
         n >= s.tile_k, NEW r, NEW c, NEW D, NEW ks \in StepsOf(s), <<r, c, ks>> \notin D
  PROVE  /\ Summed(s, f, n, r, c, D \cup {<<r, c, ks>>}) = Summed(s, f, n, r, c, D) \cup {f + n - s.tile_k + 16 * ks}
         /\ f + n - s.tile_k + 16 * ks \notin Summed(s, f, n, r, c, D)
<1>0. PICK h : h = f + n - s.tile_k + 16 * ks
  OBVIOUS
<1>1. PICK t \in Nat : t = s.tile_k /\ t % 16 = 0 /\ n >= t
  OBVIOUS
<1>2. PICK m \in Nat : t = 16 * m
  BY <1>1, Sixteenth
<1>3. PICK a \in Nat : f = 16 * a
  BY Sixteenth
<1>4. PICK b \in Nat : n = 16 * b
  BY Sixteenth
<1>5. ks \in 0..(m - 1)
  <2>1. t \div 16 = m
    BY <1>2
  <2>2. QED
    BY <1>1, <2>1 DEF StepsOf, KSubSteps
<1>6. h \in f..(f + n - 1) /\ h % 16 = 0 /\ ~(h < f + n - t) /\ (h - (f + n - t)) \div 16 = ks
  <2>1. h = 16 * (a + b - m + ks) /\ a + b - m + ks \in Nat
    BY <1>0, <1>1, <1>2, <1>3, <1>4, <1>5
  <2>2. h % 16 = 0
    BY <2>1
  <2>3. h - (f + n - t) = 16 * ks
    BY <1>0, <1>1, <1>5
  <2>4. (16 * ks) \div 16 = ks
    BY <1>5
  <2>5. h \in f..(f + n - 1) /\ ~(h < f + n - t)
    BY <1>0, <1>1, <1>2, <1>5
  <2>6. QED
    BY <2>2, <2>3, <2>4, <2>5
<1>7. ASSUME NEW k \in f..(f + n - 1), k % 16 = 0, ~(k < f + n - t), (k - (f + n - t)) \div 16 = ks
      PROVE  k = h
  <2>1. PICK j \in Nat : k = 16 * j
    BY Sixteenth, <1>7
  <2>2. PICK e \in Int : e = j - (a + b - m)
    OBVIOUS
  <2>3. k - (f + n - t) = 16 * e /\ e \in Nat
    BY <1>2, <1>3, <1>4, <1>7, <2>1, <2>2
  <2>4. (16 * e) \div 16 = e
    BY <2>3
  <2>5. e = ks
    BY <1>7, <2>3, <2>4
  <2>6. QED
    BY <1>0, <1>1, <2>3, <2>5
<1>8. \A k \in f..(f + n - 1) :
        <<r, c, (k - (f + n - t)) \div 16>> = <<r, c, ks>> <=> (k - (f + n - t)) \div 16 = ks
  OBVIOUS
<1>9. h \notin Summed(s, f, n, r, c, D)
  BY <1>1, <1>6 DEF Summed
<1>10. ASSUME NEW k PROVE k \in Summed(s, f, n, r, c, D \cup {<<r, c, ks>>}) <=>
                          k \in Summed(s, f, n, r, c, D) \cup {h}
  BY <1>1, <1>6, <1>7, <1>8 DEF Summed
<1>11. QED
  BY <1>0, <1>9, <1>10

\* Products of different K differ.
LEMMA ProductsDiffer ==
  ASSUME NEW r, NEW c, NEW k, NEW h, ProductOf(r, c, k) = ProductOf(r, c, h)
  PROVE  k = h
<1>1. ProductOf(r, c, k)[1] = ProductOf(r, c, h)[1]
  OBVIOUS
<1>2. <<FragOf(r, 0, k), FragOf(r, 1, k)>> = <<FragOf(r, 0, h), FragOf(r, 1, h)>>
  BY <1>1 DEF ProductOf
<1>3. FragOf(r, 0, k) = FragOf(r, 0, h)
  BY <1>2
<1>4. FragOf(r, 0, k).k = {k} /\ FragOf(r, 0, h).k = {h}
  BY DEF FragOf
<1>5. QED
  BY <1>3, <1>4

\* One element more in a bag that has none twice.
LEMMA BagMore ==
  ASSUME NEW S, NEW x, x \notin S
  PROVE  SetToBag(S) (+) SetToBag({x}) = SetToBag(S \cup {x})
<1>1. DOMAIN SetToBag(S) = S /\ \A e \in S : SetToBag(S)[e] = 1
  BY DEF SetToBag
<1>2. QED
  BY DEF SetToBag, (+)

\* What a step adds to the sum it is for.
LEMMA TotalStep ==
  ASSUME NEW s, s.tile_k \in Nat, s.tile_k % 16 = 0, NEW f \in Nat, f % 16 = 0, NEW n \in Nat, n % 16 = 0,
         n >= s.tile_k, NEW r, NEW c, NEW D, NEW ks \in StepsOf(s), <<r, c, ks>> \notin D
  PROVE  Total(s, f, n, r, c, D \cup {<<r, c, ks>>}) =
           Total(s, f, n, r, c, D) (+) SetToBag({ProductOf(r, c, f + n - s.tile_k + 16 * ks)})
<1>0. PICK h : h = f + n - s.tile_k + 16 * ks
  OBVIOUS
<1>1. PICK S : S = Summed(s, f, n, r, c, D)
  OBVIOUS
<1>2. Summed(s, f, n, r, c, D \cup {<<r, c, ks>>}) = S \cup {h} /\ h \notin S
  <2>1. /\ Summed(s, f, n, r, c, D \cup {<<r, c, ks>>}) =
             Summed(s, f, n, r, c, D) \cup {f + n - s.tile_k + 16 * ks}
        /\ f + n - s.tile_k + 16 * ks \notin Summed(s, f, n, r, c, D)
    BY SummedStep
  <2>2. QED
    BY <1>0, <1>1, <2>1
<1>3. PICK P : P = {ProductOf(r, c, k) : k \in S}
  OBVIOUS
<1>4. {ProductOf(r, c, k) : k \in S \cup {h}} = P \cup {ProductOf(r, c, h)}
  BY <1>3
<1>5. ProductOf(r, c, h) \notin P
  BY <1>2, <1>3, ProductsDiffer
<1>6. Total(s, f, n, r, c, D) = SetToBag(P)
  BY <1>1, <1>3 DEF Total
<1>7. Total(s, f, n, r, c, D \cup {<<r, c, ks>>}) = SetToBag(P \cup {ProductOf(r, c, h)})
  BY <1>2, <1>4 DEF Total
<1>8. QED
  BY <1>0, <1>5, <1>6, <1>7, BagMore

\* And what it does not add to any other.
LEMMA TotalOther ==
  ASSUME NEW s, NEW f, NEW n, NEW r, NEW c, NEW D, NEW r2, NEW c2, NEW ks, r # r2 \/ c # c2
  PROVE  Total(s, f, n, r, c, D \cup {<<r2, c2, ks>>}) = Total(s, f, n, r, c, D)
<1>1. \A z : <<r, c, z>> \in D \cup {<<r2, c2, ks>>} <=> <<r, c, z>> \in D
  OBVIOUS
<1>2. Summed(s, f, n, r, c, D \cup {<<r2, c2, ks>>}) = Summed(s, f, n, r, c, D)
  BY <1>1 DEF Summed
<1>3. QED
  BY <1>2 DEF Total

\* Multiples of thirty-two.
LEMMA ThirtySecond ==
  ASSUME NEW a \in Nat, a % 32 = 0
  PROVE  a = 32 * (a \div 32)
<1>1. PICK m \in Nat : m = a \div 32
  OBVIOUS
<1>2. a = 32 * m
  BY <1>1
<1>3. QED
  BY <1>1, <1>2

\* Places in rows of n.
LEMMA Placing ==
  ASSUME NEW n \in Nat, NEW w \in 0..(n - 1), NEW i \in Nat, NEW l \in Nat, i < l
  PROVE  i * n + w \in 0..(l * n - 1)
<1>1. PICK d \in Nat : l = i + 1 + d
  <2>1. l - i - 1 \in Nat /\ l = i + 1 + (l - i - 1)
    OBVIOUS
  <2>2. QED
    BY <2>1
<1>2. l * n = i * n + n + d * n
  BY <1>1
<1>3. d * n \in Nat /\ i * n \in Nat /\ l * n \in Nat
  BY <1>1
<1>4. QED
  BY <1>2, <1>3

\* Every place is in a row.
LEMMA EveryPlace ==
  ASSUME NEW n \in Nat, NEW l \in Nat, NEW g \in 0..(l * n - 1)
  PROVE  \E i \in 0..(l - 1), w \in 0..(n - 1) : g = i * n + w
<1>1. n # 0
  OBVIOUS
<1>2. PICK i \in Nat : i = g \div n
  BY <1>1, DivLemma
<1>3. PICK w \in 0..(n - 1) : g = i * n + w
  <2>1. g % n \in 0..(n - 1) /\ g = n * (g \div n) + (g % n)
    BY <1>1
  <2>2. QED
    BY <1>2, <2>1
<1>4. i < l
  <2> SUFFICES ASSUME ~(i < l) PROVE FALSE
    OBVIOUS
  <2>1. PICK d \in Nat : i = l + d
    <3>1. i - l \in Nat /\ i = l + (i - l)
      OBVIOUS
    <3>2. QED
      BY <3>1
  <2>2. i * n = l * n + d * n
    BY <2>1
  <2>3. d * n \in Nat /\ l * n \in Nat /\ i * n \in Nat
    OBVIOUS
  <2>4. QED
    BY <1>3, <2>2, <2>3
<1>5. QED
  BY <1>3, <1>4

\* The numbers of a whole kernel.
LEMMA WholeNumbers ==
  ASSUME NEW p \in Problems, Whole(p), NEW s, s = p.spec
  PROVE  /\ s.tile_k \in Nat \ {0} /\ s.tile_k % 16 = 0 /\ NWaves(s) \in Nat \ {0}
         /\ LoadsPerThread(s, "X") \in Nat /\ LoadsPerThread(s, "WT") \in Nat
         /\ KEnd(s, p.args.k) \in Nat \ {0} /\ KEnd(s, p.args.k) % s.tile_k = 0
         /\ s.gen \in {"tile_ir", "gemm_gen"} /\ Sumable(s)
<1>1. s.tile_k \in Nat \ {0} /\ s.wg_size \in Nat /\ s.wg_size >= 32
  BY ProblemsAssumption
<1>2. Sized(s)
  BY ProblemsSized
<1>3. NWaves(s) \in Nat \ {0}
  BY <1>1 DEF NWaves
<1>4. QED
  BY <1>1, <1>2, <1>3 DEF Whole, Sized, Sumable

\* Every block of a tile has a slice.
LEMMA SliceOfBlock ==
  ASSUME NEW p \in Problems, Whole(p), NEW s, s = p.spec, NEW w \in 0..(NWaves(s) - 1),
         NEW mat, NEW block, InTile(s, mat, block)
  PROVE  \E g \in Slices(s, mat) : (g * (32 \div ChunksPerRow(s))) \div 16 =
                                     block + IF mat = "X" THEN w * NRowBlocks(s) ELSE 0
<1>1. PICK tm \in Nat, tn \in Nat, t \in Nat : tm = s.tile_m /\ tn = s.tile_n /\ t = s.wg_size /\ t >= 32
  BY ProblemsAssumption
<1>2. PICK W \in Nat \ {0} : W = NWaves(s) /\ t = 32 * W
  <2>1. t \div 32 \in Nat \ {0} /\ t % 32 = 0
    BY <1>1 DEF Whole
  <2>2. t = 32 * (t \div 32)
    BY <2>1, ThirtySecond
  <2>3. QED
    BY <1>1, <2>1, <2>2 DEF NWaves
<1>3. PICK q \in {2, 4, 8, 16, 32} : q = ChunksPerRow(s)
  BY DEF Whole
<1>4. mat \in {"X", "WT"}
  BY DEF InTile
<1>5. PICK L \in Nat : L = LoadsPerThread(s, mat)
  BY <1>4, WholeNumbers
<1>6. PICK T \in Nat : T = TileRows(s, mat)
  BY <1>1 DEF TileRows
<1>7. PICK N \in Nat : N = L * W /\ N * 32 = T * q
  <2>1. L * t = T * q
    BY <1>1, <1>3, <1>4, <1>5, <1>6 DEF Whole
  <2>2. L * W \in Nat /\ L * (32 * W) = (L * W) * 32
    OBVIOUS
  <2>3. QED
    BY <1>2, <2>1, <2>2
<1>8. PICK R \in Nat : R = NRowBlocks(s) /\ 16 * (R * W) <= tm
  <2>1. PICK r \in Nat : r = RowsPerWave(s) /\ r * W <= tm
    <3>1. tm \div W \in Nat /\ W * (tm \div W) <= tm
      BY <1>1
    <3>2. QED
      BY <1>1, <1>2, <3>1 DEF RowsPerWave
  <2>2. PICK R \in Nat : R = NRowBlocks(s) /\ 16 * R <= r
    BY <2>1 DEF NRowBlocks
  <2>3. PICK d \in Nat : r = 16 * R + d
    <3>1. r - 16 * R \in Nat /\ r = 16 * R + (r - 16 * R)
      BY <2>1, <2>2
    <3>2. QED
      BY <3>1
  <2>4. r * W = 16 * (R * W) + d * W /\ d * W \in Nat /\ R * W \in Nat
    BY <2>3
  <2>5. 16 * (R * W) <= tm
    BY <2>1, <2>4
  <2>6. QED
    BY <2>2, <2>5
<1>9. PICK b \in Nat : b = (block + IF mat = "X" THEN w * NRowBlocks(s) ELSE 0) /\ 16 * b < T
  <2>1. CASE mat = "X"
    <3>1. block \in 0..(R - 1) /\ T = tm
      BY <1>1, <1>6, <1>8, <2>1 DEF InTile, RowsOf, TileRows
    <3>2. w \in 0..(W - 1) /\ w \in Nat /\ w < W
      BY <1>2
    <3>3. w * R + block \in 0..(W * R - 1)
      BY <3>1, <3>2, Placing
    <3>4. W * R = R * W /\ w * R \in Nat /\ R * W \in Nat
      BY <3>2
    <3>5. PICK z : z = w * R + block
      OBVIOUS
    <3>6. z \in Nat /\ z < R * W /\ z = block + w * NRowBlocks(s)
      BY <1>8, <3>1, <3>3, <3>4, <3>5
    <3>7. 16 * z < T
      BY <1>8, <3>1, <3>4, <3>6
    <3>8. QED
      BY <2>1, <3>6, <3>7
  <2>2. CASE mat = "WT"
    <3>1. block \in 0..(tn \div 16 - 1) /\ T = tn
      BY <1>1, <1>6, <2>2 DEF InTile, ColumnsOf, NColTiles, TileRows
    <3>2. block \in Nat /\ 16 * block < T
      BY <3>1
    <3>3. QED
      BY <2>2, <3>2
  <2>3. QED
    BY <1>4, <2>1, <2>2
<1>10. Slices(s, mat) = 0..(N - 1)
  BY <1>2, <1>5, <1>7 DEF Slices
<1>11. \E g \in 0..(N - 1) : (g * (32 \div q)) \div 16 = b
  <2>1. CASE q = 2
    <3>1. b * 1 \in 0..(N - 1) /\ (b * 1 * (32 \div q)) \div 16 = b
      BY <1>7, <1>9, <2>1
    <3>2. QED
      BY <3>1
  <2>2. CASE q = 4
    <3>1. b * 2 \in 0..(N - 1) /\ (b * 2 * (32 \div q)) \div 16 = b
      BY <1>7, <1>9, <2>2
    <3>2. QED
      BY <3>1
  <2>3. CASE q = 8
    <3>1. b * 4 \in 0..(N - 1) /\ (b * 4 * (32 \div q)) \div 16 = b
      BY <1>7, <1>9, <2>3
    <3>2. QED
      BY <3>1
  <2>4. CASE q = 16
    <3>1. b * 8 \in 0..(N - 1) /\ (b * 8 * (32 \div q)) \div 16 = b
      BY <1>7, <1>9, <2>4
    <3>2. QED
      BY <3>1
  <2>5. CASE q = 32
    <3>1. b * 16 \in 0..(N - 1) /\ (b * 16 * (32 \div q)) \div 16 = b
      BY <1>7, <1>9, <2>5
    <3>2. QED
      BY <3>1
  <2>6. QED
    BY <2>1, <2>2, <2>3, <2>4, <2>5
<1>12. QED
  BY <1>3, <1>9, <1>10, <1>11

-----------------------------------------------------------------------------
\* What one wave knows, and the steps that keep it.

\* A register is written.
LEMMA Writing ==
  ASSUME NEW p, NEW v, NEW R, NEW Q, Q = With(R, p, v)
  PROVE  /\ p \in DOMAIN Q /\ Q[p] = v
         /\ \A r : r # p /\ r \in DOMAIN R => r \in DOMAIN Q /\ Q[r] = R[r]
BY DEF With

\* The names of registers.
LEMMA RegistersDiffer ==
  /\ \A p \in Pieces : p \notin Frags /\ p # <<"temp">>
  /\ \A p \in Frags : p \notin Pieces /\ p # <<"temp">>
<1>1. \A p \in Pieces : p[1] \in {"X", "WT"}
  BY DEF Pieces
<1>2. \A p \in Frags : p[1] \in {"A", "B"}
  BY DEF Frags
<1>3. \A p : p = <<"temp">> => p[1] = "temp"
  OBVIOUS
<1>4. QED
  BY <1>1, <1>2, <1>3

\* What follows from what a wave knows, it knows.
LEMMA KnowsWeaker ==
  ASSUME NEW s, NEW b, NEW e, NEW w, NEW f, NEW n, NEW q, NEW v, NEW R, NEW A, NEW S, NEW Y, NEW L,
         NEW k, NEW l, KnowsIn(s, b, e, w, f, n, q, v, R, A, S, Y, L, k), Weaker(l, k)
  PROVE  KnowsIn(s, b, e, w, f, n, q, v, R, A, S, Y, L, l)
<1>1. /\ l.frag \subseteq k.frag /\ l.new \subseteq k.new /\ l.put \subseteq k.put
      /\ l.acc \subseteq k.acc /\ l.slot \subseteq k.slot /\ l.temp \subseteq k.temp
      /\ l.out \subseteq k.out /\ l.done = k.done
  BY DEF Weaker, Beside
<1>2. FragsIn(q, R, s, LoadBufs(b), f + n - s.tile_k, l.frag)
  BY <1>1 DEF KnowsIn, FragsIn
<1>3. NewsIn(v, R, f + n, l.new)
  BY <1>1 DEF KnowsIn, NewsIn
<1>4. e \/ PutsIn(q, L, s, w, StoreBufs(b), f + n, l.put)
  BY <1>1 DEF KnowsIn, PutsIn
<1>5. AccsIn(A, s, f, n, l.acc, l.done)
  BY <1>1 DEF KnowsIn, AccsIn
<1>6. SlotsIn(q, S, s, f, n, l.slot, l.done)
  BY <1>1 DEF KnowsIn, SlotsIn
<1>7. TempsIn(q, R, S, s, f, n, l.temp, l.done)
  BY <1>1 DEF KnowsIn, TempsIn
<1>8. OutsIn(Y, s, f, n, l.out)
  BY <1>1 DEF KnowsIn, OutsIn
<1>9. QED
  BY <1>2, <1>3, <1>4, <1>5, <1>6, <1>7, <1>8 DEF KnowsIn

\* A load from global memory is issued.
LEMMA KnowsLoad ==
  ASSUME NEW s, NEW b, NEW e, NEW w, NEW f, NEW n, NEW q, NEW v, IsSeq(v), NEW R, NEW A, NEW S, NEW Y,
         NEW L, NEW k, NEW l, KnowsIn(s, b, e, w, f, n, q, v, R, A, S, Y, L, k),
         NEW x, x.op = "buffer_load", Learns(s, x, k, l), NEW o, o.dst = x.dst, o.k = f + n
  PROVE  KnowsIn(s, b, e, w, f, n, q, Append(v, o), R, A, S, Y, L, l)
<1>1. Beside({"new"}, l, k) /\ x.dst \in Pieces /\ l.new \subseteq k.new \cup {x.dst}
  BY DEF Learns
<1>2. PICK m : m = [k EXCEPT !.new = l.new]
  OBVIOUS
<1>3. /\ l.frag \subseteq k.frag /\ l.put \subseteq k.put
      /\ l.acc \subseteq k.acc /\ l.slot \subseteq k.slot /\ l.temp \subseteq k.temp
      /\ l.out \subseteq k.out /\ l.done = k.done
  BY <1>1 DEF Beside
<1>4. FragsIn(q, R, s, LoadBufs(b), f + n - s.tile_k, l.frag)
  BY <1>3 DEF KnowsIn, FragsIn
<1>5. NewsIn(Append(v, o), R, f + n, l.new)
  <2> SUFFICES ASSUME NEW p \in l.new PROVE p \in Pieces /\ NewIn(Append(v, o), R, f + n, p)
    BY DEF NewsIn
  <2>1. CASE p = x.dst
    BY <1>1, <2>1, NewAppend
  <2>2. CASE p # x.dst
    <3>1. p \in Pieces /\ NewIn(v, R, f + n, p)
      BY <1>1, <2>2 DEF KnowsIn, NewsIn
    <3>2. QED
      BY <2>2, <3>1, NewAppend
  <2>3. QED
    BY <2>1, <2>2
<1>6. e \/ PutsIn(q, L, s, w, StoreBufs(b), f + n, l.put)
  BY <1>3 DEF KnowsIn, PutsIn
<1>7. AccsIn(A, s, f, n, l.acc, l.done)
  BY <1>3 DEF KnowsIn, AccsIn
<1>8. SlotsIn(q, S, s, f, n, l.slot, l.done)
  BY <1>3 DEF KnowsIn, SlotsIn
<1>9. TempsIn(q, R, S, s, f, n, l.temp, l.done)
  BY <1>3 DEF KnowsIn, TempsIn
<1>10. OutsIn(Y, s, f, n, l.out)
  BY <1>3 DEF KnowsIn, OutsIn
<1>11. QED
  BY <1>4, <1>5, <1>6, <1>7, <1>8, <1>9, <1>10 DEF KnowsIn

\* It lands.
LEMMA KnowsLanded ==
  ASSUME NEW s, NEW b, NEW e, NEW w, NEW f, NEW n, NEW q, NEW v, IsSeq(v), Len(v) > 0, LoadsIn(v),
         NEW R, NEW A, NEW S, NEW Y, NEW L, NEW k, KnowsIn(s, b, e, w, f, n, q, v, R, A, S, Y, L, k),
         NEW Q, Q = With(R, Head(v).dst, Head(v).k)
  PROVE  KnowsIn(s, b, e, w, f, n, q, Tail(v), Q, A, S, Y, L, k)
<1>1. Head(v).dst \in Pieces
  <2>1. Head(v) = v[1] /\ 1 \in 1..Len(v)
    BY TailParts
  <2>2. QED
    BY <2>1 DEF LoadsIn
<1>2. PICK h : h = Head(v).dst
  OBVIOUS
<1>3. /\ \A p : p # h /\ p \in DOMAIN R => p \in DOMAIN Q /\ Q[p] = R[p]
      /\ h \in DOMAIN Q /\ Q[h] = Head(v).k
  BY <1>2, Writing
<1>4. FragsIn(q, Q, s, LoadBufs(b), f + n - s.tile_k, k.frag)
  <2> SUFFICES ASSUME NEW y0 \in k.frag
               PROVE  /\ <<y0[1], y0[2], y0[3]>> \in Frags
                      /\ PartIn(q, Q, s, LoadBufs(b), f + n - s.tile_k, <<y0[1], y0[2], y0[3]>>, y0[3], y0[4], y0[5])
    BY DEF FragsIn
  <2>1. PICK p : p = <<y0[1], y0[2], y0[3]>>
    OBVIOUS
  <2>2. p \in Frags /\ PartIn(q, R, s, LoadBufs(b), f + n - s.tile_k, p, y0[3], y0[4], y0[5])
    BY <2>1 DEF KnowsIn, FragsIn
  <2>3. p # h
    BY <1>1, <1>2, <2>2, RegistersDiffer
  <2>4. PartIn(q, Q, s, LoadBufs(b), f + n - s.tile_k, p, y0[3], y0[4], y0[5])
    BY <1>3, <2>2, <2>3 DEF PartIn
  <2>5. QED
    BY <2>1, <2>2, <2>4
<1>5. NewsIn(Tail(v), Q, f + n, k.new)
  <2> SUFFICES ASSUME NEW p \in k.new PROVE p \in Pieces /\ NewIn(Tail(v), Q, f + n, p)
    BY DEF NewsIn
  <2>1. p \in Pieces /\ NewIn(v, R, f + n, p)
    BY DEF KnowsIn, NewsIn
  <2>2. /\ Head(v).dst = p => p \in DOMAIN Q /\ Q[p] = Head(v).k
        /\ Head(v).dst # p /\ p \in DOMAIN R => p \in DOMAIN Q /\ Q[p] = R[p]
    BY <1>2, <1>3
  <2>3. QED
    BY <2>1, <2>2, NewTail
<1>6. e \/ PutsIn(q, L, s, w, StoreBufs(b), f + n, k.put)
  BY DEF KnowsIn
<1>7. AccsIn(A, s, f, n, k.acc, k.done) /\ OutsIn(Y, s, f, n, k.out)
  BY DEF KnowsIn
<1>8. SlotsIn(q, S, s, f, n, k.slot, k.done)
  BY DEF KnowsIn
<1>9. TempsIn(q, Q, S, s, f, n, k.temp, k.done)
  <2>1. <<"temp">> \in DOMAIN R => <<"temp">> \in DOMAIN Q /\ Q[<<"temp">>] = R[<<"temp">>]
    BY <1>1, <1>2, <1>3, RegistersDiffer
  <2>2. \A c, v0 : TempIn(q, R, S, c, v0) => TempIn(q, Q, S, c, v0)
    BY <2>1 DEF TempIn
  <2>3. QED
    BY <2>2 DEF KnowsIn, TempsIn
<1>10. QED
  BY <1>4, <1>5, <1>6, <1>7, <1>8, <1>9 DEF KnowsIn

\* A slot after an operation is issued.
LEMMA SlotAppend ==
  ASSUME NEW q, IsSeq(q), NEW S, NEW c, NEW v, NEW o,
         \/ SwapsOut(o, c) /\ o.value = v
         \/ ~SwapsOut(o, c) /\ SlotIn(q, Len(q), S, c, v)
  PROVE  SlotIn(Append(q, o), Len(Append(q, o)), S, c, v)
<1>1. PICK a \in Nat : a = Len(q)
  BY EmptyOrNot
<1>2. PICK r : r = Append(q, o)
  OBVIOUS
<1>3. Len(r) = a + 1 /\ r[a + 1] = o /\ \A j \in 1..a : r[j] = q[j]
  BY <1>1, <1>2, AppendParts
<1>4. CASE SwapsOut(o, c) /\ o.value = v
  <2>1. SwapsOut(r[a + 1], c) /\ r[a + 1].value = v
    BY <1>3, <1>4
  <2>2. SlotIn(r, a + 1, S, c, v)
    BY <2>1, SlotMore
  <2>3. QED
    BY <1>2, <1>3, <2>2
<1>5. CASE ~SwapsOut(o, c) /\ SlotIn(q, a, S, c, v)
  <2>1. SlotIn(r, a, S, c, v)
    BY <1>3, <1>5, SlotSame
  <2>2. ~SwapsOut(r[a + 1], c)
    BY <1>3, <1>5
  <2>3. SlotIn(r, a + 1, S, c, v)
    BY <2>1, <2>2, SlotMore
  <2>4. QED
    BY <1>2, <1>3, <2>3
<1>6. QED
  BY <1>1, <1>4, <1>5

\* What is known of the fragments, after an operation of shared memory is issued.
LEMMA FragsIssue ==
  ASSUME NEW q, IsSeq(q), NEW R, NEW s, NEW bufs, NEW n, NEW x, NEW k, NEW l, NEW o,
         FragsIn(q, R, s, bufs, n, k.frag),
         \/ x.op # "ds_load" /\ o.op # "ds_load" /\ l.frag \subseteq k.frag
         \/ x.op = "ds_load" /\ Learns(s, x, k, l) /\ o = x /\ x.buf \in bufs
  PROVE  FragsIn(Append(q, o), R, s, bufs, n, l.frag)
<1> SUFFICES ASSUME NEW y0 \in l.frag
             PROVE  /\ <<y0[1], y0[2], y0[3]>> \in Frags
                    /\ PartIn(Append(q, o), R, s, bufs, n, <<y0[1], y0[2], y0[3]>>, y0[3], y0[4], y0[5])
  BY DEF FragsIn
<1>1. PICK p : p = <<y0[1], y0[2], y0[3]>>
  OBVIOUS
<1>2. CASE y0 \in k.frag /\ ~Loads(o, p)
  <2>1. p \in Frags /\ PartIn(q, R, s, bufs, n, p, y0[3], y0[4], y0[5])
    BY <1>1, <1>2 DEF FragsIn
  <2>2. PartIn(Append(q, o), R, s, bufs, n, p, y0[3], y0[4], y0[5])
    BY <1>2, <2>1, PartAppend
  <2>3. QED
    BY <1>1, <2>1, <2>2
<1>3. CASE x.op # "ds_load" /\ o.op # "ds_load" /\ l.frag \subseteq k.frag
  BY <1>2, <1>3 DEF Loads
<1>4. CASE x.op = "ds_load" /\ Learns(s, x, k, l) /\ o = x /\ x.buf \in bufs
  <2>1. /\ x.dst \in Frags /\ x.half = x.dst[3]
        /\ \/ y0 \in k.frag /\ p # x.dst
           \/ InTile(s, x.mat, x.block) /\ y0 = <<x.dst[1], x.dst[2], x.dst[3], x.block, x.ks>>
    BY <1>1, <1>4 DEF Learns
  <2>2. CASE y0 \in k.frag /\ p # x.dst
    BY <1>2, <1>4, <2>2 DEF Loads
  <2>3. CASE InTile(s, x.mat, x.block) /\ y0 = <<x.dst[1], x.dst[2], x.dst[3], x.block, x.ks>>
    <3>1. PICK d1 \in {"A", "B"}, d2 \in Nat, d3 \in {0, 1} : x.dst = <<d1, d2, d3>>
      BY <2>1 DEF Frags
    <3>2. y0 = <<d1, d2, d3, x.block, x.ks>>
      BY <2>3, <3>1
    <3>3. /\ y0[1] = d1 /\ y0[2] = d2 /\ y0[3] = d3 /\ y0[4] = x.block /\ y0[5] = x.ks
      BY <3>2
    <3>4. p = x.dst /\ y0[3] = x.half
      BY <1>1, <2>1, <3>1, <3>3
    <3>5. Loads(o, p) /\ Fetches(s, o, bufs, y0[3], y0[4], y0[5])
      BY <1>4, <2>3, <3>3, <3>4 DEF Loads, Fetches
    <3>6. PartIn(Append(q, o), R, s, bufs, n, p, y0[3], y0[4], y0[5])
      BY <3>5, PartAppend
    <3>7. QED
      BY <1>1, <2>1, <3>4, <3>6
  <2>4. QED
    BY <2>1, <2>2, <2>3
<1>5. QED
  BY <1>3, <1>4

\* What is known of the pieces that are on their way to shared memory.
LEMMA PutsIssue ==
  ASSUME NEW q, IsSeq(q), NEW L, NEW s, NEW w, NEW bufs, NEW n, NEW P, NEW Q, NEW o,
         PutsIn(q, L, s, w, bufs, n, P),
         Q \subseteq P \/ (o.op = "ds_store" /\ o.src \in Pieces /\ Q \subseteq P \cup {o.src})
  PROVE  PutsIn(Append(q, o), L, s, w, bufs, n, Q)
<1> SUFFICES ASSUME NEW p \in Q
             PROVE  /\ p \in Pieces
                    /\ p[2] < LoadsPerThread(s, p[1]) => PutIn(Append(q, o), L, s, w, bufs, n, p)
  BY DEF PutsIn
<1>1. CASE p \in P
  BY <1>1, PutAppend DEF PutsIn
<1>2. CASE o.op = "ds_store" /\ o.src = p /\ p \in Pieces
  BY <1>2, PutAppend
<1>3. QED
  BY <1>1, <1>2

\* What is known of the slots.
LEMMA SlotsIssue ==
  ASSUME NEW q, IsSeq(q), NEW A, NEW S, NEW s, NEW f, NEW n, NEW x, NEW k, NEW l, NEW o,
         SlotsIn(q, S, s, f, n, k.slot, k.done), AccsIn(A, s, f, n, k.acc, k.done),
         \/ o.op # "swap_out" /\ l.slot \subseteq k.slot
         \/ x.op = "swap_out" /\ Learns(s, x, k, l) /\ SwapsOut(o, x.c) /\ o.value = A[<<0, x.c>>]
  PROVE  SlotsIn(Append(q, o), S, s, f, n, l.slot, k.done)
<1> SUFFICES ASSUME NEW z \in l.slot
             PROVE  /\ z[1] \in ColumnsOf(s) /\ z[2] \in RowsOf(s)
                    /\ SlotIn(Append(q, o), Len(Append(q, o)), S, z[1], Total(s, f, n, z[2], z[1], k.done))
  BY DEF SlotsIn
<1>1. CASE z \in k.slot /\ ~SwapsOut(o, z[1])
  <2>1. /\ z[1] \in ColumnsOf(s) /\ z[2] \in RowsOf(s)
        /\ SlotIn(q, Len(q), S, z[1], Total(s, f, n, z[2], z[1], k.done))
    BY <1>1 DEF SlotsIn
  <2>2. QED
    BY <1>1, <2>1, SlotAppend
<1>2. CASE o.op # "swap_out" /\ l.slot \subseteq k.slot
  BY <1>1, <1>2 DEF SwapsOut
<1>3. CASE x.op = "swap_out" /\ Learns(s, x, k, l) /\ SwapsOut(o, x.c) /\ o.value = A[<<0, x.c>>]
  <2>1. x.c \in ColumnsOf(s) /\ IF z[1] = x.c THEN <<0, x.c, z[2]>> \in k.acc ELSE z \in k.slot
    BY <1>3 DEF Learns
  <2>2. CASE z[1] # x.c
    BY <1>1, <1>3, <2>1, <2>2 DEF SwapsOut
  <2>3. CASE z[1] = x.c
    <3>1. PICK a : a = <<0, x.c, z[2]>> /\ a \in k.acc
      BY <2>1, <2>3
    <3>2. a[1] = 0 /\ a[2] = x.c /\ a[3] = z[2]
      BY <3>1
    <3>3. a[3] \in RowsOf(s) /\ A[<<a[1], a[2]>>] = Total(s, f, n, a[3], a[2], k.done)
      BY <3>1 DEF AccsIn
    <3>4. z[2] \in RowsOf(s) /\ A[<<0, x.c>>] = Total(s, f, n, z[2], z[1], k.done)
      BY <2>3, <3>2, <3>3
    <3>5. SwapsOut(o, z[1]) /\ o.value = Total(s, f, n, z[2], z[1], k.done)
      BY <1>3, <2>3, <3>4
    <3>6. QED
      BY <2>1, <2>3, <3>4, <3>5, SlotAppend
  <2>4. QED
    BY <2>2, <2>3
<1>4. QED
  BY <1>2, <1>3

\* What is known of the temporary.
LEMMA TempsIssue ==
  ASSUME NEW q, IsSeq(q), NEW R, NEW S, NEW s, NEW f, NEW n, NEW x, NEW k, NEW l, NEW o,
         TempsIn(q, R, S, s, f, n, k.temp, k.done), SlotsIn(q, S, s, f, n, k.slot, k.done),
         \/ o.op # "swap_in" /\ l.temp \subseteq k.temp
         \/ x.op = "swap_in" /\ Learns(s, x, k, l) /\ o = x
  PROVE  TempsIn(Append(q, o), R, S, s, f, n, l.temp, k.done)
<1> SUFFICES ASSUME NEW z \in l.temp
             PROVE  /\ z[1] \in ColumnsOf(s) /\ z[2] \in RowsOf(s)
                    /\ TempIn(Append(q, o), R, S, z[1], Total(s, f, n, z[2], z[1], k.done))
  BY DEF TempsIn
<1>1. CASE o.op # "swap_in" /\ l.temp \subseteq k.temp
  <2>1. /\ z[1] \in ColumnsOf(s) /\ z[2] \in RowsOf(s)
        /\ TempIn(q, R, S, z[1], Total(s, f, n, z[2], z[1], k.done))
    BY <1>1 DEF TempsIn
  <2>2. QED
    BY <1>1, <2>1, TempAppend
<1>2. CASE x.op = "swap_in" /\ Learns(s, x, k, l) /\ o = x
  <2>1. z[1] = x.c /\ z \in k.slot
    BY <1>2 DEF Learns
  <2>2. /\ z[1] \in ColumnsOf(s) /\ z[2] \in RowsOf(s)
        /\ SlotIn(q, Len(q), S, z[1], Total(s, f, n, z[2], z[1], k.done))
    BY <2>1 DEF SlotsIn
  <2>3. o.op = "swap_in" /\ o.c = z[1]
    BY <1>2, <2>1
  <2>4. QED
    BY <2>2, <2>3, TempAppend
<1>3. QED
  BY <1>1, <1>2

\* What is known, after an operation of shared memory is issued.
LEMMA KnowsIssue ==
  ASSUME NEW s, NEW b, NEW e, NEW w, NEW f, NEW n, NEW q, IsSeq(q), NEW v, NEW R, NEW A, NEW S, NEW Y,
         NEW L, NEW k, NEW l, KnowsIn(s, b, e, w, f, n, q, v, R, A, S, Y, L, k),
         NEW x, x.op \in LdsOps, Learns(s, x, k, l), NEW o, o.op = x.op,
         x.op \in {"ds_load", "swap_in"} => o = x,
         x.op = "ds_store" => o.src = x.src,
         x.op = "swap_out" => o.c = x.c /\ o.value = A[<<0, x.c>>],
         x.op = "ds_load" => x.buf \in LoadBufs(b)
  PROVE  KnowsIn(s, b, e, w, f, n, Append(q, o), v, R, A, S, Y, L, l)
<1>1. /\ l.new \subseteq k.new /\ l.acc \subseteq k.acc /\ l.out \subseteq k.out /\ l.done = k.done
      /\ x.op # "ds_load" => l.frag \subseteq k.frag
      /\ x.op # "ds_store" => l.put \subseteq k.put
      /\ x.op # "swap_out" => l.slot \subseteq k.slot
      /\ x.op # "swap_in" => l.temp \subseteq k.temp
      /\ x.op = "ds_store" => x.src \in k.new /\ l.put \subseteq k.put \cup {x.src}
  BY DEF Learns, Beside, LdsOps
<1>2. FragsIn(Append(q, o), R, s, LoadBufs(b), f + n - s.tile_k, l.frag)
  <2>1. FragsIn(q, R, s, LoadBufs(b), f + n - s.tile_k, k.frag)
    BY DEF KnowsIn
  <2>2. QED
    BY <1>1, <2>1, FragsIssue
<1>3. NewsIn(v, R, f + n, l.new)
  BY <1>1 DEF KnowsIn, NewsIn
<1>4. e \/ PutsIn(Append(q, o), L, s, w, StoreBufs(b), f + n, l.put)
  <2>1. e \/ PutsIn(q, L, s, w, StoreBufs(b), f + n, k.put)
    BY DEF KnowsIn
  <2>2. x.op = "ds_store" => x.src \in Pieces
    BY <1>1 DEF KnowsIn, NewsIn
  <2>3. QED
    BY <1>1, <2>1, <2>2, PutsIssue
<1>5. AccsIn(A, s, f, n, l.acc, l.done) /\ AccsIn(A, s, f, n, k.acc, k.done)
  BY <1>1 DEF KnowsIn, AccsIn
<1>6. SlotsIn(q, S, s, f, n, k.slot, k.done) /\ TempsIn(q, R, S, s, f, n, k.temp, k.done)
  BY DEF KnowsIn
<1>7. SlotsIn(Append(q, o), S, s, f, n, l.slot, k.done)
  <2>1. CASE x.op # "swap_out"
    BY <1>1, <1>5, <1>6, <2>1, SlotsIssue
  <2>2. CASE x.op = "swap_out"
    <3>1. SwapsOut(o, x.c) /\ o.value = A[<<0, x.c>>]
      BY <2>2 DEF SwapsOut
    <3>2. QED
      BY <1>5, <1>6, <2>2, <3>1, SlotsIssue
  <2>3. QED
    BY <2>1, <2>2
<1>8. TempsIn(Append(q, o), R, S, s, f, n, l.temp, k.done)
  BY <1>1, <1>6, TempsIssue
<1>9. OutsIn(Y, s, f, n, l.out)
  BY <1>1 DEF KnowsIn, OutsIn
<1>10. QED
  BY <1>1, <1>2, <1>3, <1>4, <1>5, <1>7, <1>8, <1>9 DEF KnowsIn

\* A slot after the oldest operation lands.
LEMMA SlotLanded ==
  ASSUME NEW q, IsSeq(q), Len(q) > 0, NEW S, NEW T, NEW c, NEW v, SlotIn(q, Len(q), S, c, v),
         SwapsOut(Head(q), c) => T[c] = Head(q).value,
         ~SwapsOut(Head(q), c) => T[c] = S[c]
  PROVE  SlotIn(Tail(q), Len(Tail(q)), T, c, v)
<1>1. PICK a \in Nat : a = Len(Tail(q)) /\ Len(q) = a + 1
  <2>1. Len(q) \in Nat /\ Len(Tail(q)) = Len(q) - 1 /\ Len(q) - 1 \in Nat /\ Len(q) = (Len(q) - 1) + 1
    BY TailParts
  <2>2. QED
    BY <2>1
<1>2. SlotIn(q, a + 1, S, c, v) /\ a + 1 <= Len(q)
  BY <1>1
<1>3. SlotIn(Tail(q), a, T, c, v)
  BY <1>2, SlotTail
<1>4. QED
  BY <1>1, <1>3

\* What the landing of the oldest operation of shared memory does to the fragments.
FragsFollow(s, b, n, q, R, Q) ==
    \A p \in Frags :
        /\ ~Loads(Head(q), p) /\ p \in DOMAIN R => p \in DOMAIN Q /\ Q[p] = R[p]
        /\ \A half, block, ks :
            Loads(Head(q), p) /\ Fetches(s, Head(q), LoadBufs(b), half, block, ks)
                => p \in DOMAIN Q /\ Q[p] = FragOf(block, half, n + 16 * ks)

\* Pieces of the next tile stay in their registers.
PiecesStay(R, Q) == \A p \in Pieces : p \in DOMAIN R => p \in DOMAIN Q /\ Q[p] = R[p]

\* An exchange brings what the slot held to the temporary register.
TempFollows(q, R, S, Q) ==
    /\ Head(q).op = "swap_in" => <<"temp">> \in DOMAIN Q /\ Q[<<"temp">>] = S[Head(q).c]
    /\ Head(q).op # "swap_in" /\ <<"temp">> \in DOMAIN R
            => <<"temp">> \in DOMAIN Q /\ Q[<<"temp">>] = R[<<"temp">>]

\* And the slot is written by an exchange alone.
SlotsFollow(s, q, S, T) ==
    \A c \in ColumnsOf(s) : /\ SwapsOut(Head(q), c) => T[c] = Head(q).value
                            /\ ~SwapsOut(Head(q), c) => T[c] = S[c]

\* A piece that is stored is in its slice from then on.
PutsFollow(s, b, w, n, q, L, M) ==
    \A p \in Pieces : p[2] < LoadsPerThread(s, p[1]) =>
        /\ Head(q).op = "ds_store" /\ Head(q).src = p =>
             \A u \in StoreBufs(b) : M[u][p[1]][p[2] * NWaves(s) + w] = n
        /\ (\A u \in StoreBufs(b) : L[u][p[1]][p[2] * NWaves(s) + w] = n) =>
             \A u \in StoreBufs(b) : M[u][p[1]][p[2] * NWaves(s) + w] = n

\* A wave knows what it knew when the oldest operation of shared memory has landed.
LEMMA KnowsTail ==
  ASSUME NEW s, NEW b, NEW e, NEW w, NEW f, NEW n, NEW q, IsSeq(q), Len(q) > 0, NEW v, NEW R, NEW A, NEW S,
         NEW Y, NEW L, NEW k, KnowsIn(s, b, e, w, f, n, q, v, R, A, S, Y, L, k),
         NEW Q, NEW T, NEW M,
         FragsFollow(s, b, f + n - s.tile_k, q, R, Q), PiecesStay(R, Q), TempFollows(q, R, S, Q),
         SlotsFollow(s, q, S, T), e \/ PutsFollow(s, b, w, f + n, q, L, M)
  PROVE  KnowsIn(s, b, e, w, f, n, Tail(q), v, Q, A, T, Y, M, k)
<1>1. FragsIn(Tail(q), Q, s, LoadBufs(b), f + n - s.tile_k, k.frag)
  <2> SUFFICES ASSUME NEW y0 \in k.frag
               PROVE  /\ <<y0[1], y0[2], y0[3]>> \in Frags
                      /\ PartIn(Tail(q), Q, s, LoadBufs(b), f + n - s.tile_k, <<y0[1], y0[2], y0[3]>>, y0[3], y0[4], y0[5])
    BY DEF FragsIn
  <2>1. PICK p : p = <<y0[1], y0[2], y0[3]>>
    OBVIOUS
  <2>2. PICK half, block, ks : half = y0[3] /\ block = y0[4] /\ ks = y0[5]
    OBVIOUS
  <2>3. p \in Frags /\ PartIn(q, R, s, LoadBufs(b), f + n - s.tile_k, p, half, block, ks)
    BY <2>1, <2>2 DEF KnowsIn, FragsIn
  <2>4. PICK g : g = f + n - s.tile_k
    OBVIOUS
  <2>5. PICK bufs : bufs = LoadBufs(b)
    OBVIOUS
  <2>6. /\ ~Loads(Head(q), p) /\ p \in DOMAIN R => p \in DOMAIN Q /\ Q[p] = R[p]
        /\ Loads(Head(q), p) /\ Fetches(s, Head(q), bufs, half, block, ks)
                => p \in DOMAIN Q /\ Q[p] = FragOf(block, half, g + 16 * ks)
    <3>1. FragsFollow(s, b, g, q, R, Q)
      BY <2>4
    <3>2. QED
      BY <2>3, <2>5, <3>1 DEF FragsFollow
  <2>7. PartIn(q, R, s, bufs, g, p, half, block, ks)
    BY <2>3, <2>4, <2>5
  <2>8. PartIn(Tail(q), Q, s, bufs, g, p, half, block, ks)
    BY <2>6, <2>7, PartTail
  <2>9. QED
    BY <2>1, <2>2, <2>3, <2>4, <2>5, <2>8
<1>2. NewsIn(v, Q, f + n, k.new)
  BY DEF KnowsIn, NewsIn, NewIn, PiecesStay
<1>3. e \/ PutsIn(Tail(q), M, s, w, StoreBufs(b), f + n, k.put)
  <2> SUFFICES ASSUME ~e, NEW p \in k.put
               PROVE  /\ p \in Pieces
                      /\ p[2] < LoadsPerThread(s, p[1]) => PutIn(Tail(q), M, s, w, StoreBufs(b), f + n, p)
    BY DEF PutsIn
  <2>1. p \in Pieces /\ (p[2] < LoadsPerThread(s, p[1]) => PutIn(q, L, s, w, StoreBufs(b), f + n, p))
    BY DEF KnowsIn, PutsIn
  <2>2. PICK m : m = f + n
    OBVIOUS
  <2>3. PICK U : U = StoreBufs(b)
    OBVIOUS
  <2>4. PutsFollow(s, b, w, m, q, L, M)
    BY <2>2
  <2>5. p[2] < LoadsPerThread(s, p[1]) =>
          /\ Head(q).op = "ds_store" /\ Head(q).src = p => \A u \in U : M[u][p[1]][p[2] * NWaves(s) + w] = m
          /\ (\A u \in U : L[u][p[1]][p[2] * NWaves(s) + w] = m) =>
               \A u \in U : M[u][p[1]][p[2] * NWaves(s) + w] = m
    BY <2>1, <2>3, <2>4 DEF PutsFollow
  <2>6. p[2] < LoadsPerThread(s, p[1]) => PutIn(q, L, s, w, U, m, p)
    BY <2>1, <2>2, <2>3
  <2>7. p[2] < LoadsPerThread(s, p[1]) => PutIn(Tail(q), M, s, w, U, m, p)
    BY <2>5, <2>6, PutTail
  <2>8. QED
    BY <2>1, <2>2, <2>3, <2>7
<1>4. SlotsIn(Tail(q), T, s, f, n, k.slot, k.done)
  <2> SUFFICES ASSUME NEW z \in k.slot
               PROVE  /\ z[1] \in ColumnsOf(s) /\ z[2] \in RowsOf(s)
                      /\ SlotIn(Tail(q), Len(Tail(q)), T, z[1], Total(s, f, n, z[2], z[1], k.done))
    BY DEF SlotsIn
  <2>1. /\ z[1] \in ColumnsOf(s) /\ z[2] \in RowsOf(s)
        /\ SlotIn(q, Len(q), S, z[1], Total(s, f, n, z[2], z[1], k.done))
    BY DEF KnowsIn, SlotsIn
  <2>2. QED
    BY <2>1, SlotLanded DEF SlotsFollow
<1>5. TempsIn(Tail(q), Q, T, s, f, n, k.temp, k.done)
  <2> SUFFICES ASSUME NEW z \in k.temp
               PROVE  /\ z[1] \in ColumnsOf(s) /\ z[2] \in RowsOf(s)
                      /\ TempIn(Tail(q), Q, T, z[1], Total(s, f, n, z[2], z[1], k.done))
    BY DEF TempsIn
  <2>1. /\ z[1] \in ColumnsOf(s) /\ z[2] \in RowsOf(s)
        /\ TempIn(q, R, S, z[1], Total(s, f, n, z[2], z[1], k.done))
    BY DEF KnowsIn, TempsIn
  <2>2. PICK c : c = z[1]
    OBVIOUS
  <2>3. /\ SwapsOut(Head(q), c) => T[c] = Head(q).value
        /\ ~SwapsOut(Head(q), c) => T[c] = S[c]
    BY <2>1, <2>2 DEF SlotsFollow
  <2>4. /\ Head(q).op = "swap_in" => <<"temp">> \in DOMAIN Q /\ (Head(q).c = c => Q[<<"temp">>] = S[c])
        /\ Head(q).op # "swap_in" /\ <<"temp">> \in DOMAIN R
             => <<"temp">> \in DOMAIN Q /\ Q[<<"temp">>] = R[<<"temp">>]
    BY DEF TempFollows
  <2>5. TempIn(q, R, S, c, Total(s, f, n, z[2], c, k.done))
    BY <2>1, <2>2
  <2>6. TempIn(Tail(q), Q, T, c, Total(s, f, n, z[2], c, k.done))
    BY <2>3, <2>4, <2>5, TempTail
  <2>7. QED
    BY <2>1, <2>2, <2>6
<1>6. AccsIn(A, s, f, n, k.acc, k.done) /\ OutsIn(Y, s, f, n, k.out)
  BY DEF KnowsIn
<1>7. QED
  BY <1>1, <1>2, <1>3, <1>4, <1>5, <1>6 DEF KnowsIn

\* What is known by a wave that has passed the barrier.
LEMMA KnowsPassed ==
  ASSUME NEW s, NEW b, NEW e, NEW w, NEW f, NEW n, NEW q, NEW v, NEW R, NEW A, NEW S, NEW Y, NEW L,
         NEW k, KnowsIn(s, b, e, w, f, n, q, v, R, A, S, Y, L, k), NEW d, e => d
  PROVE  KnowsIn(s, b, d, w, f, n, q, v, R, A, S, Y, L, k)
BY DEF KnowsIn

\* What is known elsewhere, of what was neither loaded nor stored.
LEMMA KnowsElsewhere ==
  ASSUME NEW s, NEW b, NEW e, NEW w, NEW f, NEW n, NEW q, NEW v, NEW R, NEW A, NEW S, NEW Y, NEW L,
         NEW k, KnowsIn(s, b, e, w, f, n, q, v, R, A, S, Y, L, k),
         NEW l, Weaker(l, k), l.frag = {}, l.put = {}, NEW h, NEW d, NEW M
  PROVE  KnowsIn(s, h, d, w, f, n, q, v, R, A, S, Y, M, l)
<1>1. KnowsIn(s, b, e, w, f, n, q, v, R, A, S, Y, L, l)
  BY KnowsWeaker
<1>2. FragsIn(q, R, s, LoadBufs(h), f + n - s.tile_k, l.frag) /\ PutsIn(q, M, s, w, StoreBufs(h), f + n, l.put)
  BY DEF FragsIn, PutsIn
<1>3. QED
  BY <1>1, <1>2 DEF KnowsIn

\* What is known, after another wave has stored to shared memory.
LEMMA KnowsOther ==
  ASSUME NEW s, NEW b, NEW e, NEW w, NEW f, NEW n, NEW q, NEW v, NEW R, NEW A, NEW S, NEW Y, NEW L,
         NEW k, KnowsIn(s, b, e, w, f, n, q, v, R, A, S, Y, L, k), NEW M,
         e \/ \A p \in Pieces : p[2] < LoadsPerThread(s, p[1]) =>
                \/ \E u \in StoreBufs(b) : L[u][p[1]][p[2] * NWaves(s) + w] # f + n
                \/ \A u \in StoreBufs(b) : M[u][p[1]][p[2] * NWaves(s) + w] = f + n
  PROVE  KnowsIn(s, b, e, w, f, n, q, v, R, A, S, Y, M, k)
<1>1. e \/ PutsIn(q, M, s, w, StoreBufs(b), f + n, k.put)
  <2> SUFFICES ASSUME ~e, NEW p \in k.put
               PROVE  /\ p \in Pieces
                      /\ p[2] < LoadsPerThread(s, p[1]) => PutIn(q, M, s, w, StoreBufs(b), f + n, p)
    BY DEF PutsIn
  <2>1. p \in Pieces /\ (p[2] < LoadsPerThread(s, p[1]) => PutIn(q, L, s, w, StoreBufs(b), f + n, p))
    BY DEF KnowsIn, PutsIn
  <2>2. QED
    BY <2>1 DEF PutIn
<1>2. QED
  BY <1>1 DEF KnowsIn

\* What is known behind the end of a tile.
LEMMA KnowsAdvance ==
  ASSUME NEW s, s.tile_k \in Nat, s.tile_k % 16 = 0, NEW f \in Nat, NEW n \in Nat,
         NEW b, NEW e, NEW w, NEW q, NEW v, NEW R, NEW A, NEW S, NEW Y, NEW L,
         NEW k, KnowsIn(s, b, e, w, f, n, q, v, R, A, S, Y, L, k),
         NEW x, x.op = "advance", NEW l, Learns(s, x, k, l)
  PROVE  KnowsIn(s, b, e, w, f, n + s.tile_k, q, v, R, A, S, Y, L, l)
<1>1. /\ k.done = All(s) /\ l.done = {} /\ l.frag = {} /\ l.new = {} /\ l.put = {} /\ l.out = {}
      /\ l.acc \subseteq k.acc /\ l.slot \subseteq k.slot /\ l.temp \subseteq k.temp
  BY DEF Learns, Beside
<1>2. /\ AccsIn(A, s, f, n, k.acc, All(s)) /\ SlotsIn(q, S, s, f, n, k.slot, All(s))
      /\ TempsIn(q, R, S, s, f, n, k.temp, All(s))
  BY <1>1 DEF KnowsIn
<1>3. \A r \in RowsOf(s), c \in ColumnsOf(s) : Total(s, f, n + s.tile_k, r, c, {}) = Total(s, f, n, r, c, All(s))
  BY TotalAdvance
<1>4. AccsIn(A, s, f, n + s.tile_k, l.acc, {})
  BY <1>1, <1>2, <1>3 DEF AccsIn
<1>5. SlotsIn(q, S, s, f, n + s.tile_k, l.slot, {})
  BY <1>1, <1>2, <1>3 DEF SlotsIn
<1>6. TempsIn(q, R, S, s, f, n + s.tile_k, l.temp, {})
  BY <1>1, <1>2, <1>3 DEF TempsIn
<1>7. /\ FragsIn(q, R, s, LoadBufs(b), f + (n + s.tile_k) - s.tile_k, l.frag)
      /\ NewsIn(v, R, f + (n + s.tile_k), l.new) /\ PutsIn(q, L, s, w, StoreBufs(b), f + (n + s.tile_k), l.put)
      /\ OutsIn(Y, s, f, n + s.tile_k, l.out)
  BY <1>1 DEF FragsIn, NewsIn, PutsIn, OutsIn
<1>8. QED
  BY <1>1, <1>4, <1>5, <1>6, <1>7 DEF KnowsIn

\* What is known after sums are stored to Y.
LEMMA KnowsStored ==
  ASSUME NEW s, NEW b, NEW e, NEW w, NEW f, NEW n, NEW q, NEW v, NEW R, NEW A, NEW S, NEW Y, NEW L,
         NEW k, KnowsIn(s, b, e, w, f, n, q, v, R, A, S, Y, L, k),
         NEW x, x.op = "y_store", NEW l, Learns(s, x, k, l),
         NEW Z, Z = [rc \in ({x.r} \X ColumnsOf(s)) \cup DOMAIN Y |->
                        IF rc[1] = x.r THEN A[<<x.accRow, rc[2]>>] ELSE Y[rc]]
  PROVE  KnowsIn(s, b, e, w, f, n, q, v, R, A, S, Z, L, l)
<1>1. /\ l.frag \subseteq k.frag /\ l.new \subseteq k.new /\ l.put \subseteq k.put
      /\ l.acc \subseteq k.acc /\ l.slot \subseteq k.slot /\ l.temp \subseteq k.temp
      /\ l.done = k.done /\ l.out \subseteq k.out \cup {x.r} /\ k.done = All(s)
      /\ \A c \in ColumnsOf(s) : <<x.accRow, c, x.r>> \in k.acc
  BY DEF Learns, Beside
<1>2. PICK m : m = [l EXCEPT !.out = {}]
  OBVIOUS
<1>3. OutsIn(Z, s, f, n, l.out)
  <2> SUFFICES ASSUME NEW r \in l.out, NEW c \in ColumnsOf(s)
               PROVE  <<r, c>> \in DOMAIN Z /\ Z[<<r, c>>] = Total(s, f, n, r, c, All(s))
    BY DEF OutsIn
  <2>1. CASE r = x.r
    <3>1. PICK a : a = <<x.accRow, c, r>> /\ a \in k.acc
      BY <1>1, <2>1
    <3>2. a[1] = x.accRow /\ a[2] = c /\ a[3] = r
      BY <3>1
    <3>3. A[<<a[1], a[2]>>] = Total(s, f, n, a[3], a[2], k.done)
      BY <3>1 DEF KnowsIn, AccsIn
    <3>4. A[<<x.accRow, c>>] = Total(s, f, n, r, c, All(s))
      BY <1>1, <3>2, <3>3
    <3>5. <<r, c>> \in ({x.r} \X ColumnsOf(s)) /\ <<r, c>>[1] = x.r /\ <<r, c>>[2] = c
      BY <2>1
    <3>6. <<r, c>> \in DOMAIN Z /\ Z[<<r, c>>] = A[<<x.accRow, c>>]
      BY <3>5
    <3>7. QED
      BY <3>4, <3>6
  <2>2. CASE r # x.r
    <3>1. <<r, c>> \in DOMAIN Y /\ Y[<<r, c>>] = Total(s, f, n, r, c, All(s))
      BY <1>1, <2>2 DEF KnowsIn, OutsIn
    <3>2. <<r, c>>[1] # x.r
      BY <2>2
    <3>3. QED
      BY <3>1, <3>2
  <2>3. QED
    BY <2>1, <2>2
<1>4. FragsIn(q, R, s, LoadBufs(b), f + n - s.tile_k, l.frag) /\ NewsIn(v, R, f + n, l.new)
  BY <1>1 DEF KnowsIn, FragsIn, NewsIn
<1>5. e \/ PutsIn(q, L, s, w, StoreBufs(b), f + n, l.put)
  BY <1>1 DEF KnowsIn, PutsIn
<1>6. AccsIn(A, s, f, n, l.acc, l.done) /\ SlotsIn(q, S, s, f, n, l.slot, l.done)
  BY <1>1 DEF KnowsIn, AccsIn, SlotsIn
<1>7. TempsIn(q, R, S, s, f, n, l.temp, l.done)
  BY <1>1 DEF KnowsIn, TempsIn
<1>8. QED
  BY <1>3, <1>4, <1>5, <1>6, <1>7 DEF KnowsIn

\* What is known after the temporary is moved to an accumulator.
LEMMA KnowsMoved ==
  ASSUME NEW s, NRowBlocks(s) \in Nat, NEW b, NEW e, NEW w, NEW f, NEW n, NEW q, NEW v, NEW R, NEW A, NEW S, NEW Y, NEW L,
         NEW k, KnowsIn(s, b, e, w, f, n, q, v, R, A, S, Y, L, k), DOMAIN A = AccRowsOf(s) \X ColumnsOf(s),
         NEW x, x.op = "move_temp", NEW l, Learns(s, x, k, l), \A j \in 1..Len(q) : q[j].op # "swap_in",
         NEW B, B = [A EXCEPT ![<<0, x.c>>] = R[<<"temp">>]]
  PROVE  KnowsIn(s, b, e, w, f, n, q, v, R, B, S, Y, L, l)
<1>1. /\ l.frag \subseteq k.frag /\ l.new \subseteq k.new /\ l.put \subseteq k.put
      /\ l.slot \subseteq k.slot /\ l.temp \subseteq k.temp
      /\ l.done = k.done /\ l.out \subseteq k.out /\ x.c \in ColumnsOf(s)
      /\ \A z \in l.acc : IF z[1] = 0 /\ z[2] = x.c THEN <<x.c, z[3]>> \in k.temp ELSE z \in k.acc
  BY DEF Learns, Beside
<1>2. AccsIn(B, s, f, n, l.acc, l.done)
  <2> SUFFICES ASSUME NEW z \in l.acc
               PROVE  /\ z[1] \in AccRowsOf(s) /\ z[2] \in ColumnsOf(s) /\ z[3] \in RowsOf(s)
                      /\ B[<<z[1], z[2]>>] = Total(s, f, n, z[3], z[2], l.done)
    BY DEF AccsIn
  <2>1. CASE z[1] = 0 /\ z[2] = x.c
    <3>1. PICK a : a = <<x.c, z[3]>> /\ a \in k.temp
      BY <1>1, <2>1
    <3>2. a[1] = x.c /\ a[2] = z[3]
      BY <3>1
    <3>3. a[2] \in RowsOf(s) /\ TempIn(q, R, S, a[1], Total(s, f, n, a[2], a[1], k.done))
      BY <3>1 DEF KnowsIn, TempsIn
    <3>4. R[<<"temp">>] = Total(s, f, n, z[3], x.c, k.done)
      BY <3>2, <3>3 DEF TempIn
    <3>5. 0 \in RowsOf(s)
      BY <3>2, <3>3 DEF RowsOf
    <3>6. 0 \in AccRowsOf(s)
      BY <3>5 DEF AccRowsOf
    <3>7. <<0, x.c>> \in DOMAIN A
      BY <1>1, <3>6
    <3>8. B[<<0, x.c>>] = R[<<"temp">>]
      BY <3>7
    <3>9. QED
      BY <1>1, <2>1, <3>2, <3>3, <3>4, <3>6, <3>8
  <2>2. CASE ~(z[1] = 0 /\ z[2] = x.c)
    <3>1. /\ z[1] \in AccRowsOf(s) /\ z[2] \in ColumnsOf(s) /\ z[3] \in RowsOf(s)
          /\ A[<<z[1], z[2]>>] = Total(s, f, n, z[3], z[2], k.done)
      BY <1>1, <2>2 DEF KnowsIn, AccsIn
    <3>2. <<z[1], z[2]>> # <<0, x.c>> /\ <<z[1], z[2]>> \in DOMAIN A
      BY <2>2, <3>1
    <3>3. B[<<z[1], z[2]>>] = A[<<z[1], z[2]>>]
      BY <3>2
    <3>4. QED
      BY <1>1, <3>1, <3>3
  <2>3. QED
    BY <2>1, <2>2
<1>3. FragsIn(q, R, s, LoadBufs(b), f + n - s.tile_k, l.frag) /\ NewsIn(v, R, f + n, l.new)
  BY <1>1 DEF KnowsIn, FragsIn, NewsIn
<1>4. e \/ PutsIn(q, L, s, w, StoreBufs(b), f + n, l.put)
  BY <1>1 DEF KnowsIn, PutsIn
<1>5. SlotsIn(q, S, s, f, n, l.slot, l.done)
  BY <1>1 DEF KnowsIn, SlotsIn
<1>6. TempsIn(q, R, S, s, f, n, l.temp, l.done)
  BY <1>1 DEF KnowsIn, TempsIn
<1>7. OutsIn(Y, s, f, n, l.out)
  BY <1>1 DEF KnowsIn, OutsIn
<1>8. QED
  BY <1>2, <1>3, <1>4, <1>5, <1>6, <1>7 DEF KnowsIn

\* What a register holds.
HeldIn(R, r) == IF r \in DOMAIN R THEN R[r] ELSE Nothing

\* Operands that have arrived are the fragments they are known to be.
LEMMA OperandArrived ==
  ASSUME NEW s, NEW b, NEW e, NEW w, NEW f, NEW n, NEW q, NEW v, NEW R, NEW A, NEW S, NEW Y, NEW L,
         NEW k, KnowsIn(s, b, e, w, f, n, q, v, R, A, S, Y, L, k),
         NEW a \in {"A", "B"} \X Nat, NEW h, NEW block, NEW ks, <<a[1], a[2], h, block, ks>> \in k.frag,
         \A j \in 1..Len(q) : ~Loads(q[j], Append(a, h))
  PROVE  HeldIn(R, Append(a, h)) = FragOf(block, h, f + n - s.tile_k + 16 * ks)
<1>1. PICK a1 \in {"A", "B"}, a2 \in Nat : a = <<a1, a2>>
  OBVIOUS
<1>2. Append(a, h) = <<a1, a2, h>>
  BY <1>1, AppendPair
<1>3. PICK z : z = <<a1, a2, h, block, ks>> /\ z \in k.frag
  BY <1>1
<1>4. z[1] = a1 /\ z[2] = a2 /\ z[3] = h /\ z[4] = block /\ z[5] = ks
  BY <1>3
<1>5. PartIn(q, R, s, LoadBufs(b), f + n - s.tile_k, <<z[1], z[2], z[3]>>, z[3], z[4], z[5])
  BY <1>3 DEF KnowsIn, FragsIn
<1>6. PICK p : p = <<a1, a2, h>> /\ PartIn(q, R, s, LoadBufs(b), f + n - s.tile_k, p, h, block, ks)
  BY <1>4, <1>5
<1>7. \A j \in 1..Len(q) : ~Loads(q[j], p)
  BY <1>2, <1>6
<1>8. p \in DOMAIN R /\ R[p] = FragOf(block, h, f + n - s.tile_k + 16 * ks)
  BY <1>6, <1>7 DEF PartIn
<1>9. QED
  BY <1>2, <1>6, <1>8 DEF HeldIn

\* What a matrix product adds.
LEMMA ProductFound ==
  ASSUME NEW s, NEW b, NEW e, NEW w, NEW f, NEW n, NEW q, NEW v, NEW R, NEW A, NEW S, NEW Y, NEW L,
         NEW k, KnowsIn(s, b, e, w, f, n, q, v, R, A, S, Y, L, k),
         NEW x, x.a \in {"A", "B"} \X Nat, x.b \in {"A", "B"} \X Nat,
         \A j \in 1..Len(q) : \A h \in {0, 1} : ~Loads(q[j], Append(x.a, h)) /\ ~Loads(q[j], Append(x.b, h)),
         NEW r, NEW c, NEW ks,
         \A h \in {0, 1} : <<x.a[1], x.a[2], h, r, ks>> \in k.frag /\ <<x.b[1], x.b[2], h, c, ks>> \in k.frag
  PROVE  <<<<HeldIn(R, Append(x.a, 0)), HeldIn(R, Append(x.a, 1))>>,
           <<HeldIn(R, Append(x.b, 0)), HeldIn(R, Append(x.b, 1))>>>> = ProductOf(r, c, f + n - s.tile_k + 16 * ks)
<1>1. \A h \in {0, 1} : HeldIn(R, Append(x.a, h)) = FragOf(r, h, f + n - s.tile_k + 16 * ks)
  BY OperandArrived
<1>2. \A h \in {0, 1} : HeldIn(R, Append(x.b, h)) = FragOf(c, h, f + n - s.tile_k + 16 * ks)
  BY OperandArrived
<1>3. QED
  BY <1>1, <1>2 DEF ProductOf

\* What is known after a matrix product.
LEMMA KnowsProduct ==
  ASSUME NEW s, s.tile_k \in Nat, s.tile_k % 16 = 0, NEW f \in Nat, f % 16 = 0, NEW n \in Nat, n % 16 = 0,
         n >= s.tile_k,
         NEW b, NEW e, NEW w, NEW q, NEW v, NEW R, NEW A, NEW S, NEW Y, NEW L,
         NEW k, KnowsIn(s, b, e, w, f, n, q, v, R, A, S, Y, L, k), DOMAIN A = AccRowsOf(s) \X ColumnsOf(s),
         NEW x, x.op = "wmma", NEW l, Learns(s, x, k, l),
         \A j \in 1..Len(q) : \A h \in {0, 1} : ~Loads(q[j], Append(x.a, h)) /\ ~Loads(q[j], Append(x.b, h)),
         NEW g, g = <<<<HeldIn(R, Append(x.a, 0)), HeldIn(R, Append(x.a, 1))>>,
                      <<HeldIn(R, Append(x.b, 0)), HeldIn(R, Append(x.b, 1))>>>>,
         NEW B, B = [A EXCEPT ![x.acc] = @ (+) SetToBag({g})]
  PROVE  KnowsIn(s, b, e, w, f, n, q, v, R, B, S, Y, L, l)
<1>1. /\ l.frag \subseteq k.frag /\ l.new \subseteq k.new /\ l.put \subseteq k.put /\ l.out \subseteq k.out
      /\ x.a \in {"A", "B"} \X Nat /\ x.b \in {"A", "B"} \X Nat
      /\ x.acc \in AccRowsOf(s) \X ColumnsOf(s)
  BY DEF Learns, Beside
<1>2. PICK r \in RowsOf(s), ks \in StepsOf(s) :
            /\ <<x.acc[1], x.acc[2], r>> \in k.acc
            /\ \A h \in {0, 1} : /\ <<x.a[1], x.a[2], h, r, ks>> \in k.frag
                                 /\ <<x.b[1], x.b[2], h, x.acc[2], ks>> \in k.frag
            /\ <<r, x.acc[2], ks>> \notin k.done
            /\ l.done = k.done \cup {<<r, x.acc[2], ks>>}
            /\ \A z \in l.acc :
                 \/ z \in k.acc /\ (z[2] # x.acc[2] \/ (z[1] # x.acc[1] /\ z[3] # r))
                 \/ z = <<x.acc[1], x.acc[2], r>>
            /\ \A z \in l.slot \cup l.temp : z[1] # x.acc[2] \/ z[2] # r
            /\ l.slot \subseteq k.slot /\ l.temp \subseteq k.temp
  BY DEF Learns
<1>3. PICK a \in AccRowsOf(s), c \in ColumnsOf(s) : x.acc = <<a, c>>
  BY <1>1
<1>4. x.acc[1] = a /\ x.acc[2] = c
  BY <1>3
<1>5. g = ProductOf(r, c, f + n - s.tile_k + 16 * ks)
  <2>1. \A h \in {0, 1} : <<x.a[1], x.a[2], h, r, ks>> \in k.frag /\ <<x.b[1], x.b[2], h, c, ks>> \in k.frag
    BY <1>2, <1>4
  <2>2. QED
    BY <1>1, <2>1, ProductFound
<1>6. Total(s, f, n, r, c, l.done) = Total(s, f, n, r, c, k.done) (+) SetToBag({g})
  <2>1. <<r, c, ks>> \notin k.done
    BY <1>2, <1>4
  <2>2. Total(s, f, n, r, c, k.done \cup {<<r, c, ks>>}) =
           Total(s, f, n, r, c, k.done) (+) SetToBag({ProductOf(r, c, f + n - s.tile_k + 16 * ks)})
    BY <2>1, TotalStep
  <2>3. l.done = k.done \cup {<<r, c, ks>>}
    BY <1>2, <1>4
  <2>4. QED
    BY <1>5, <2>2, <2>3
<1>7. \A i, j : i # r \/ j # c => Total(s, f, n, i, j, l.done) = Total(s, f, n, i, j, k.done)
  <2> SUFFICES ASSUME NEW i, NEW j, i # r \/ j # c
               PROVE  Total(s, f, n, i, j, l.done) = Total(s, f, n, i, j, k.done)
    OBVIOUS
  <2>1. l.done = k.done \cup {<<r, c, ks>>}
    BY <1>2, <1>4
  <2>2. \A z : <<i, j, z>> \in l.done <=> <<i, j, z>> \in k.done
    BY <2>1
  <2>3. Summed(s, f, n, i, j, l.done) = Summed(s, f, n, i, j, k.done)
    BY <2>2 DEF Summed
  <2>4. QED
    BY <2>3 DEF Total
<1>8. B[<<a, c>>] = Total(s, f, n, r, c, l.done)
  <2>1. PICK z : z = <<a, c, r>> /\ z \in k.acc
    BY <1>2, <1>4
  <2>2. z[1] = a /\ z[2] = c /\ z[3] = r
    BY <2>1
  <2>3. A[<<z[1], z[2]>>] = Total(s, f, n, z[3], z[2], k.done)
    BY <2>1 DEF KnowsIn, AccsIn
  <2>4. A[<<a, c>>] = Total(s, f, n, r, c, k.done)
    BY <2>2, <2>3
  <2>5. B[<<a, c>>] = A[<<a, c>>] (+) SetToBag({g})
    BY <1>1, <1>3
  <2>6. QED
    BY <1>6, <2>4, <2>5
<1>9. AccsIn(B, s, f, n, l.acc, l.done)
  <2> SUFFICES ASSUME NEW z \in l.acc
               PROVE  /\ z[1] \in AccRowsOf(s) /\ z[2] \in ColumnsOf(s) /\ z[3] \in RowsOf(s)
                      /\ B[<<z[1], z[2]>>] = Total(s, f, n, z[3], z[2], l.done)
    BY DEF AccsIn
  <2>1. \/ z \in k.acc /\ (z[2] # c \/ (z[1] # a /\ z[3] # r))
        \/ z = <<a, c, r>>
    BY <1>2, <1>4
  <2>2. CASE z \in k.acc /\ (z[2] # c \/ (z[1] # a /\ z[3] # r))
    <3>1. /\ z[1] \in AccRowsOf(s) /\ z[2] \in ColumnsOf(s) /\ z[3] \in RowsOf(s)
          /\ A[<<z[1], z[2]>>] = Total(s, f, n, z[3], z[2], k.done)
      BY <2>2 DEF KnowsIn, AccsIn
    <3>2. <<z[1], z[2]>> # <<a, c>> /\ <<z[1], z[2]>> \in DOMAIN A
      BY <2>2, <3>1
    <3>3. B[<<z[1], z[2]>>] = A[<<z[1], z[2]>>]
      BY <1>3, <3>2
    <3>4. Total(s, f, n, z[3], z[2], l.done) = Total(s, f, n, z[3], z[2], k.done)
      BY <1>7, <2>2
    <3>5. QED
      BY <3>1, <3>3, <3>4
  <2>3. CASE z = <<a, c, r>>
    <3>1. z[1] = a /\ z[2] = c /\ z[3] = r
      BY <2>3
    <3>2. QED
      BY <1>8, <3>1
  <2>4. QED
    BY <2>1, <2>2, <2>3
<1>10. SlotsIn(q, S, s, f, n, l.slot, l.done)
  <2> SUFFICES ASSUME NEW z \in l.slot
               PROVE  /\ z[1] \in ColumnsOf(s) /\ z[2] \in RowsOf(s)
                      /\ SlotIn(q, Len(q), S, z[1], Total(s, f, n, z[2], z[1], l.done))
    BY DEF SlotsIn
  <2>1. z \in k.slot /\ (z[1] # c \/ z[2] # r)
    BY <1>2, <1>4
  <2>2. /\ z[1] \in ColumnsOf(s) /\ z[2] \in RowsOf(s)
        /\ SlotIn(q, Len(q), S, z[1], Total(s, f, n, z[2], z[1], k.done))
    BY <2>1 DEF KnowsIn, SlotsIn
  <2>3. Total(s, f, n, z[2], z[1], l.done) = Total(s, f, n, z[2], z[1], k.done)
    BY <1>7, <2>1
  <2>4. QED
    BY <2>2, <2>3
<1>11. TempsIn(q, R, S, s, f, n, l.temp, l.done)
  <2> SUFFICES ASSUME NEW z \in l.temp
               PROVE  /\ z[1] \in ColumnsOf(s) /\ z[2] \in RowsOf(s)
                      /\ TempIn(q, R, S, z[1], Total(s, f, n, z[2], z[1], l.done))
    BY DEF TempsIn
  <2>1. z \in k.temp /\ (z[1] # c \/ z[2] # r)
    BY <1>2, <1>4
  <2>2. /\ z[1] \in ColumnsOf(s) /\ z[2] \in RowsOf(s)
        /\ TempIn(q, R, S, z[1], Total(s, f, n, z[2], z[1], k.done))
    BY <2>1 DEF KnowsIn, TempsIn
  <2>3. Total(s, f, n, z[2], z[1], l.done) = Total(s, f, n, z[2], z[1], k.done)
    BY <1>7, <2>1
  <2>4. QED
    BY <2>2, <2>3
<1>12. FragsIn(q, R, s, LoadBufs(b), f + n - s.tile_k, l.frag) /\ NewsIn(v, R, f + n, l.new)
  BY <1>1 DEF KnowsIn, FragsIn, NewsIn
<1>13. e \/ PutsIn(q, L, s, w, StoreBufs(b), f + n, l.put)
  BY <1>1 DEF KnowsIn, PutsIn
<1>14. OutsIn(Y, s, f, n, l.out)
  BY <1>1 DEF KnowsIn, OutsIn
<1>15. QED
  BY <1>9, <1>10, <1>11, <1>12, <1>13, <1>14 DEF KnowsIn

-----------------------------------------------------------------------------
\* The waves of a launch.

\* The kernel stays, and where the share of K starts.
LEMMA KernelStays ==
  ASSUME UNCHANGED <<problem, code, part>>
  PROVE  /\ Spc' = Spc /\ First' = First /\ Waves' = Waves
         /\ KEnd(Spc, problem.args.k)' = KEnd(Spc, problem.args.k)
<1>1. Spc' = Spc
  BY DEF Spc
<1>2. First' = First
  BY DEF Spc, First, KStart, KEnd
<1>3. Waves' = Waves
  BY <1>1 DEF Waves, NWaves
<1>4. KEnd(Spc, problem.args.k)' = KEnd(Spc, problem.args.k)
  BY DEF Spc, KEnd
<1>5. QED
  BY <1>1, <1>2, <1>3, <1>4

\* A wave of which nothing changes.
LEMMA SameRight ==
  ASSUME UNCHANGED <<problem, code, part, lds>>, NEW w, Right(w),
         at'[w] = at[w], kIter'[w] = kIter[w], kOff'[w] = kOff[w], vm'[w] = vm[w], lgkm'[w] = lgkm[w],
         reg'[w] = reg[w], acc'[w] = acc[w], slot'[w] = slot[w], y'[w] = y[w]
  PROVE  Right(w)'
<1>0. /\ Spc' = Spc /\ First' = First /\ KEnd(Spc, problem.args.k)' = KEnd(Spc, problem.args.k)
  BY KernelStays
<1>1. (Passed(w)' <=> Passed(w)) /\ (Opening(w)' <=> Opening(w)) /\ (Ended(w)' <=> Ended(w))
  BY DEF Passed, Opening, Ended
<1>2. Counted(w)'
  BY <1>0, <1>1 DEF Right, Counted
<1>3. Filled(w)'
  BY <1>0, <1>1 DEF Right, Filled, Current
<1>4. Queues(w)'
  BY <1>0 DEF Right, Queues
<1>5. Learned(w)'
  <2>1. Knowledge(w)' = Knowledge(w)
    BY <1>0 DEF Knowledge
  <2>2. ASSUME NEW k, Knows(w, k) PROVE Knows(w, k)'
    BY <1>0, <1>1, <2>2 DEF Knows, KnowsIn
  <2>3. End(Spc, "store")' = End(Spc, "store") /\ All(Spc)' = All(Spc)
    BY <1>0
  <2>4. CASE Ended(w)
    <3>1. Knows(w, End(Spc, "store"))
      BY <2>4 DEF Right, Learned
    <3>2. PICK k : k = End(Spc, "store")
      OBVIOUS
    <3>3. Knows(w, k)'
      BY <2>2, <3>1, <3>2
    <3>4. k = End(Spc, "store")'
      BY <2>3, <3>2
    <3>5. QED
      BY <1>1, <2>4, <3>3, <3>4 DEF Learned
  <2>5. CASE ~Ended(w)
    <3>1. Knows(w, Knowledge(w)) /\ (Opening(w) => Knowledge(w).done = All(Spc))
      BY <2>5 DEF Right, Learned
    <3>2. PICK k : k = Knowledge(w)
      OBVIOUS
    <3>3. Knows(w, k)'
      BY <2>2, <3>1, <3>2
    <3>4. k = Knowledge(w)' /\ (Opening(w)' => k.done = All(Spc)')
      BY <1>1, <2>1, <2>3, <3>1, <3>2
    <3>5. QED
      BY <1>1, <2>5, <3>3, <3>4 DEF Learned
  <2>6. QED
    BY <2>4, <2>5
<1>6. QED
  BY <1>2, <1>3, <1>4, <1>5 DEF Right

\* Multiples of multiples of sixteen.
LEMMA Sixteens ==
  ASSUME NEW t \in Nat \ {0}, t % 16 = 0, NEW n \in Nat, n % t = 0
  PROVE  n % 16 = 0
<1>1. PICK m \in Nat : t = 16 * m
  BY Sixteenth
<1>2. PICK d \in Nat : d = n \div t
  BY DivLemma
<1>3. n = t * d
  <2>1. n = t * (n \div t) + (n % t)
    OBVIOUS
  <2>2. QED
    BY <1>2, <2>1
<1>4. PICK e \in Nat : e = m * d
  OBVIOUS
<1>5. n = 16 * e
  BY <1>1, <1>3, <1>4
<1>6. QED
  BY <1>5

\* Sixteen times something is a multiple of sixteen.
LEMMA SixteenTimes ==
  ASSUME NEW t \in Nat, t % 16 = 0, NEW n \in Nat
  PROVE  n * t \in Nat /\ (n * t) % 16 = 0
<1>1. PICK m \in Nat : t = 16 * m
  BY Sixteenth
<1>2. PICK e \in Nat : e = n * m
  OBVIOUS
<1>3. n * t = 16 * e
  BY <1>1, <1>2
<1>4. QED
  BY <1>3

\* The numbers of the launch at hand.
LEMMA Numbers ==
  ASSUME InStep, \A p \in Problems : Whole(p), part \in Nat
  PROVE  /\ problem \in Problems /\ Whole(problem)
         /\ Spc.tile_k \in Nat \ {0} /\ Spc.tile_k % 16 = 0 /\ NWaves(Spc) \in Nat \ {0}
         /\ LoadsPerThread(Spc, "X") \in Nat /\ LoadsPerThread(Spc, "WT") \in Nat
         /\ KEnd(Spc, problem.args.k) \in Nat \ {0} /\ KEnd(Spc, problem.args.k) % Spc.tile_k = 0
         /\ Spc.gen \in {"tile_ir", "gemm_gen"} /\ Sumable(Spc) /\ NRowBlocks(Spc) \in Nat
         /\ First \in Nat /\ First % 16 = 0
<1>1. problem \in Problems /\ Whole(problem)
  BY DEF InStep
<1>2. PICK p : p = problem
  OBVIOUS
<1>3. PICK s : s = p.spec
  OBVIOUS
<1>4. s = Spc
  BY <1>2, <1>3 DEF Spc
<1>5. /\ s.tile_k \in Nat \ {0} /\ s.tile_k % 16 = 0 /\ NWaves(s) \in Nat \ {0}
      /\ LoadsPerThread(s, "X") \in Nat /\ LoadsPerThread(s, "WT") \in Nat
      /\ KEnd(s, p.args.k) \in Nat \ {0} /\ KEnd(s, p.args.k) % s.tile_k = 0
      /\ s.gen \in {"tile_ir", "gemm_gen"} /\ Sumable(s)
  BY <1>1, <1>2, <1>3, WholeNumbers
<1>6. PICK e \in Nat : e = KEnd(s, p.args.k)
  BY <1>5
<1>7. e % 16 = 0
  BY <1>5, <1>6, Sixteens
<1>8. part * e \in Nat /\ (part * e) % 16 = 0
  BY <1>7, SixteenTimes
<1>9. First = part * e
  BY <1>2, <1>4, <1>6 DEF First, KStart
<1>10. NRowBlocks(s) \in Nat
  BY <1>1, <1>2, <1>3, ProblemsSized DEF Sized
<1>11. QED
  BY <1>1, <1>2, <1>4, <1>5, <1>8, <1>9, <1>10

\* What a wave knows next.
Onward(w) == TrailOf(Spc, code[at[w].block], at[w].block)[at[w].i]

\* A wave is on the trail of its block.
LEMMA OnTheTrail ==
  ASSUME InStep, Summing, NEW w \in Waves, ~Ended(w), NEW b, b = at[w].block
  PROVE  b \in WorkBlocks /\ Trail(Spc, code[b], Start(Spc, b), TrailOf(Spc, code[b], b), End(Spc, b))
<1>1. b \in WorkBlocks
  BY Here DEF Ended, Names, WorkBlocks
<1>2. Leads(Spc, code[b], Start(Spc, b), End(Spc, b))
  BY <1>1 DEF Summing
<1>3. PICK s, q : s = Spc /\ q = code[b]
  OBVIOUS
<1>4. \E t : Trail(s, q, Start(s, b), t, End(s, b))
  BY <1>2, <1>3 DEF Leads
<1>5. Trail(s, q, Start(s, b), TrailOf(s, q, b), End(s, b))
  BY <1>4 DEF TrailOf
<1>6. QED
  BY <1>1, <1>3, <1>5

\* An instruction leads on along the trail.
LEMMA LeadsOn ==
  ASSUME InStep, Tracked, Summing, NEW w \in Waves, NEW op, Ready(w, op)
  PROVE  Learns(Spc, Ins(w), Knowledge(w), Onward(w)) /\ Knows(w, Knowledge(w)) /\ Ins(w).op = op
         /\ (Opening(w) => Knowledge(w).done = All(Spc))
<1>1. ~Ended(w) /\ at[w].i <= Len(code[at[w].block]) /\ Ins(w).op = op
  BY DEF Ready
<1>2. PICK b : b = at[w].block
  OBVIOUS
<1>3. PICK i : i = at[w].i
  OBVIOUS
<1>4. PICK t : t = TrailOf(Spc, code[b], b)
  OBVIOUS
<1>5. i \in 1..Len(code[b])
  BY <1>1, <1>2, <1>3, TrackedParts
<1>6. Trail(Spc, code[b], Start(Spc, b), t, End(Spc, b))
  BY <1>1, <1>2, <1>4, OnTheTrail
<1>7. Learns(Spc, code[b][i], t[i - 1], t[i])
  BY <1>5, <1>6 DEF Trail
<1>8. Ins(w) = code[b][i] /\ Knowledge(w) = t[i - 1] /\ Onward(w) = t[i]
  BY <1>2, <1>3, <1>4 DEF Ins, Knowledge, Onward
<1>9. Knows(w, Knowledge(w)) /\ (Opening(w) => Knowledge(w).done = All(Spc))
  BY <1>1 DEF Summing, Right, Learned
<1>10. QED
  BY <1>1, <1>7, <1>8, <1>9

\* Where a wave that steps is.
LEMMA Working ==
  ASSUME InStep, Tracked, NEW w \in Waves, NEW op, Ready(w, op), op \notin {"barrier", "advance"}
  PROVE  /\ ~Passed(w) /\ ~Ended(w) /\ at[w].block \in WorkBlocks
         /\ Step(w) /\ UNCHANGED <<problem, code>> =>
              ~Passed(w)' /\ ~Ended(w)' /\ (Opening(w)' <=> Opening(w)) /\ Knowledge(w)' = Onward(w)
<1>0. PICK n \in Main \cup Epilogs : \E K : Placed(w, n, K)
  BY DEF InStep
<1>1. PICK K : Placed(w, n, K)
  BY <1>0
<1>2. \/ Inside(w, n, K) /\ at[w].i + 1 \in 1..(Len(code[n]) - 1)
      \/ Leaving(w, n) /\ at[w].block \in {n, "store"}
  BY <1>1, Issuing
<1>3. ~Ended(w) /\ at[w].i <= Len(code[at[w].block])
  BY DEF Ready
<1>4. PICK b : b = at[w].block
  OBVIOUS
<1>5. PICK i \in Nat : i = at[w].i
  BY <1>3, TrackedParts
<1>6. b \in WorkBlocks /\ IsSeq(code[b]) /\ Len(code[b]) \in Nat /\ i \in 1..(Len(code[b]) + 1) /\ i <= Len(code[b])
  BY <1>3, <1>4, <1>5, TrackedParts
<1>7. b \notin Main \/ i + 1 <= Len(code[b]) - 1
  <2>1. CASE Inside(w, n, K) /\ at[w].i + 1 \in 1..(Len(code[n]) - 1)
    BY <1>4, <1>5, <1>6, <2>1 DEF Inside
  <2>2. CASE Leaving(w, n) /\ at[w].block \in {n, "store"}
    BY <1>4, <2>2 DEF Leaving, Main, Epilogs
  <2>3. QED
    BY <1>2, <2>1, <2>2
<1>8. ~Passed(w)
  BY <1>4, <1>5, <1>6, <1>7 DEF Passed
<1>9. ASSUME Step(w), UNCHANGED <<problem, code>>
      PROVE  ~Passed(w)' /\ ~Ended(w)' /\ (Opening(w)' <=> Opening(w)) /\ Knowledge(w)' = Onward(w)
  <2>1. at'[w].block = b /\ at'[w].i = i + 1
    BY <1>4, <1>5, <1>9, StepMoves
  <2>2. PICK m : m = at'[w].i
    OBVIOUS
  <2>3. m = i + 1 /\ m - 1 = i
    BY <2>1, <2>2
  <2>4. ~Passed(w)'
    BY <1>6, <1>7, <1>9, <2>1, <2>2, <2>3 DEF Passed
  <2>5. ~Ended(w)'
    BY <1>3, <1>4, <2>1 DEF Ended
  <2>6. b = "prologue" => i <= Len(code[b]) /\ i + 1 <= Len(code[b])
    BY <1>6, <1>7 DEF Main
  <2>7. Opening(w)' <=> Opening(w)
    BY <1>4, <1>5, <1>9, <2>1, <2>2, <2>3, <2>6 DEF Opening
  <2>8. Knowledge(w)' = TrailOf(Spc, code[b], b)[m - 1]
    BY <1>9, <2>1, <2>2 DEF Knowledge, Spc
  <2>9. QED
    BY <1>4, <1>5, <2>3, <2>4, <2>5, <2>7, <2>8 DEF Onward
<1>10. QED
  BY <1>3, <1>4, <1>6, <1>8, <1>9

\* Where a wave is that takes a step, and how far it is, when shared memory stays.
LEMMA StepPlace ==
  ASSUME InStep, Tracked, Summing, NEW w \in Waves, NEW op, Ready(w, op), op \notin {"barrier", "advance"},
         Step(w), UNCHANGED <<problem, code, part, lds>>, kIter'[w] = kIter[w], kOff'[w] = kOff[w]
  PROVE  Counted(w)' /\ Filled(w)'
<1>1. /\ ~Passed(w) /\ ~Ended(w) /\ ~Passed(w)' /\ ~Ended(w)' /\ (Opening(w)' <=> Opening(w))
  BY Working
<1>2. Spc' = Spc /\ First' = First /\ KEnd(Spc, problem.args.k)' = KEnd(Spc, problem.args.k)
  BY KernelStays
<1>3. at'[w].block = at[w].block
  BY StepMoves
<1>4. Counted(w) /\ Filled(w)
  BY DEF Summing, Right
<1>5. at[w].block \in Main => ~(at[w].i > Len(code[at[w].block])) /\ ~(at'[w].i > Len(code'[at[w].block]))
  <2>1. PICK n \in Nat : n = Len(code[at[w].block]) /\ n = Len(code'[at[w].block])
    BY <1>1, TrackedParts
  <2>2. at[w].i \in Nat
    BY <1>1, TrackedParts
  <2>3. PICK i, j : i = at[w].i /\ j = at'[w].i
    OBVIOUS
  <2>4. i \in Nat /\ j = i + 1
    BY <2>2, <2>3, StepMoves
  <2>5. at[w].block \in Main => ~(i >= n) /\ ~(j >= n)
    BY <1>1, <1>3, <2>1, <2>3 DEF Passed
  <2>6. at[w].block \in Main => ~(i > n) /\ ~(j > n)
    BY <2>1, <2>4, <2>5
  <2>7. QED
    BY <2>1, <2>3, <2>6
<1>6. Counted(w)'
  BY <1>1, <1>2, <1>3, <1>4, <1>5 DEF Counted
<1>7. Filled(w)'
  BY <1>1, <1>2, <1>3, <1>4 DEF Filled, Current
<1>8. QED
  BY <1>6, <1>7

\* What a wave that takes a step knows then.
LEMMA StepLearned ==
  ASSUME InStep, Tracked, Summing, NEW w \in Waves, NEW op, Ready(w, op), op \notin {"barrier", "advance"},
         Step(w), UNCHANGED <<problem, code, part>>,
         NEW q, q = lgkm'[w], NEW v, v = vm'[w], NEW R, R = reg'[w], NEW A, A = acc'[w],
         NEW S, S = slot'[w], NEW Y, Y = y'[w], NEW L, L = lds', NEW n, n = kIter'[w], NEW f, f = First,
         NEW b, b = at[w].block, NEW s, s = Spc,
         KnowsIn(s, b, FALSE, w, f, n, q, v, R, A, S, Y, L, Onward(w)),
         Opening(w) => Onward(w).done = All(Spc)
  PROVE  Learned(w)'
<1>1. /\ ~Passed(w) /\ ~Ended(w) /\ ~Passed(w)' /\ ~Ended(w)' /\ (Opening(w)' <=> Opening(w))
      /\ Knowledge(w)' = Onward(w)
  BY Working
<1>2. Spc' = Spc /\ First' = First
  BY KernelStays
<1>3. at'[w].block = at[w].block
  BY StepMoves
<1>4. PICK k : k = Onward(w)
  OBVIOUS
<1>5. KnowsIn(s, b, FALSE, w, f, n, q, v, R, A, S, Y, L, k)
  BY <1>4
<1>6. Knows(w, k)'
  BY <1>1, <1>2, <1>3, <1>5 DEF Knows, KnowsIn
<1>7. Opening(w)' => k.done = All(Spc)'
  BY <1>1, <1>2, <1>4
<1>8. QED
  BY <1>1, <1>4, <1>6, <1>7 DEF Learned

\* What a wave that stays knows then.
LEMMA StayLearned ==
  ASSUME Summing, NEW w \in Waves, ~Ended(w), at' = at, UNCHANGED <<problem, code, part>>,
         NEW q, q = lgkm'[w], NEW v, v = vm'[w], NEW R, R = reg'[w], NEW A, A = acc'[w],
         NEW S, S = slot'[w], NEW Y, Y = y'[w], NEW L, L = lds', NEW n, n = kIter'[w], NEW f, f = First,
         NEW b, b = at[w].block, NEW s, s = Spc,
         NEW e, e => Passed(w), KnowsIn(s, b, e, w, f, n, q, v, R, A, S, Y, L, Knowledge(w))
  PROVE  Learned(w)'
<1>1. Spc' = Spc /\ First' = First
  BY KernelStays
<1>2. (Passed(w)' <=> Passed(w)) /\ ~Ended(w)' /\ (Opening(w)' <=> Opening(w)) /\ Knowledge(w)' = Knowledge(w)
  BY <1>1 DEF Passed, Ended, Opening, Knowledge
<1>3. PICK k : k = Knowledge(w)
  OBVIOUS
<1>4. KnowsIn(s, b, e, w, f, n, q, v, R, A, S, Y, L, k)
  BY <1>3
<1>5. Knows(w, k)'
  BY <1>1, <1>2, <1>4 DEF Knows, KnowsIn
<1>6. Opening(w) => k.done = All(Spc)
  BY <1>3 DEF Summing, Right, Learned
<1>7. Opening(w)' => k.done = All(Spc)'
  BY <1>1, <1>2, <1>6
<1>8. QED
  BY <1>2, <1>3, <1>5, <1>7 DEF Learned

\* Every wave is right, after one has taken a step that leaves shared memory and the
\* others alone.
LEMMA OneRight ==
  ASSUME Summing, UNCHANGED <<problem, code, part, lds>>, NEW w \in Waves, Right(w)',
         DOMAIN kOff' = Waves, DOMAIN reg' = Waves, DOMAIN acc' = Waves, DOMAIN slot' = Waves, DOMAIN y' = Waves,
         DOMAIN acc'[w] = DOMAIN acc[w], DOMAIN slot'[w] = DOMAIN slot[w],
         \A u \in Waves : u # w =>
            /\ at'[u] = at[u] /\ kIter'[u] = kIter[u] /\ kOff'[u] = kOff[u] /\ vm'[u] = vm[u]
            /\ lgkm'[u] = lgkm[u] /\ reg'[u] = reg[u] /\ acc'[u] = acc[u] /\ slot'[u] = slot[u]
            /\ y'[u] = y[u]
  PROVE  Summing'
<1>1. Spc' = Spc /\ Waves' = Waves
  BY KernelStays
<1>2. ASSUME NEW u \in Waves PROVE Right(u)'
  <2>1. CASE u = w
    BY <2>1
  <2>2. CASE u # w
    <3>1. Right(u)
      BY DEF Summing
    <3>2. QED
      BY <2>2, <3>1, SameRight
  <2>3. QED
    BY <2>1, <2>2
<1>3. Shaped'
  <2>1. Shaped
    BY DEF Summing
  <2>2. \A u \in Waves : DOMAIN acc'[u] = DOMAIN acc[u] /\ DOMAIN slot'[u] = DOMAIN slot[u]
    OBVIOUS
  <2>3. QED
    BY <1>1, <2>1, <2>2 DEF Shaped
<1>4. \A b \in WorkBlocks : Leads(Spc, code[b], Start(Spc, b), End(Spc, b))'
  BY <1>1 DEF Summing
<1>5. QED
  BY <1>1, <1>2, <1>3, <1>4 DEF Summing

-----------------------------------------------------------------------------
\* An instruction at a time.

\* What a wave knows in front of the barrier.
LEMMA KnowsHere ==
  ASSUME NEW w, NEW k, Knows(w, k), ~Passed(w)
  PROVE  KnowsIn(Spc, at[w].block, FALSE, w, First, kIter[w], lgkm[w], vm[w], reg[w], acc[w], slot[w],
                 y[w], lds, k)
BY DEF Knows, KnowsIn

\* What an instruction other than a product and the end of a tile teaches.
LEMMA SameDone ==
  ASSUME NEW s, NEW x, NEW k, NEW l, Learns(s, x, k, l), x.op \notin {"wmma", "advance"}
  PROVE  l.done = k.done
BY DEF Learns, Weaker, Beside

\* An instruction teaches nothing but what it does.
LEMMA WaitLearns ==
  ASSUME NEW s, NEW x, NEW k, NEW l, Learns(s, x, k, l), x.op \in {"wait", "barrier"}
  PROVE  Weaker(l, k)
BY DEF Learns

\* A wait is over.
LEMMA WaitRight ==
  ASSUME InStep, Tracked, Summing, NEW w \in Waves, WaitStep(w)
  PROVE  Summing'
<1>1. /\ Ready(w, "wait") /\ Step(w)
      /\ UNCHANGED <<problem, code, part, kIter, kOff, vm, lgkm, reg, acc, lds, slot, y>>
  BY DEF WaitStep, kernel
<1>2. Counted(w)' /\ Filled(w)'
  BY <1>1, StepPlace
<1>3. Learns(Spc, Ins(w), Knowledge(w), Onward(w)) /\ Knows(w, Knowledge(w)) /\ Ins(w).op = "wait"
      /\ (Opening(w) => Knowledge(w).done = All(Spc))
  BY <1>1, LeadsOn
<1>4. ~Passed(w)
  BY <1>1, Working
<1>5. PICK b : b = at[w].block
  OBVIOUS
<1>6. PICK s, f, n, q, v, R, A, S, Y, L : /\ s = Spc /\ f = First /\ n = kIter[w] /\ q = lgkm[w] /\ v = vm[w]
        /\ R = reg[w] /\ A = acc[w] /\ S = slot[w] /\ Y = y[w] /\ L = lds
  OBVIOUS
<1>7. PICK x, k, l : x = Ins(w) /\ k = Knowledge(w) /\ l = Onward(w)
  OBVIOUS
<1>8. KnowsIn(s, b, FALSE, w, f, n, q, v, R, A, S, Y, L, k)
  BY <1>3, <1>4, <1>5, <1>6, <1>7, KnowsHere
<1>9. Weaker(l, k) /\ l.done = k.done
  <2>1. Learns(s, x, k, l) /\ x.op = "wait"
    BY <1>3, <1>6, <1>7
  <2>2. QED
    BY <2>1, WaitLearns, SameDone
<1>10. KnowsIn(s, b, FALSE, w, f, n, q, v, R, A, S, Y, L, l)
  BY <1>8, <1>9, KnowsWeaker
<1>11. Learned(w)'
  <2>1. KnowsIn(s, b, FALSE, w, f, n, q, v, R, A, S, Y, L, Onward(w))
    BY <1>7, <1>10
  <2>2. Opening(w) => Onward(w).done = All(Spc)
    BY <1>3, <1>7, <1>9
  <2>3. /\ q = lgkm'[w] /\ v = vm'[w] /\ R = reg'[w] /\ A = acc'[w] /\ S = slot'[w] /\ Y = y'[w] /\ L = lds'
        /\ n = kIter'[w]
    BY <1>1, <1>6
  <2>4. QED
    BY <1>1, <1>5, <1>6, <2>1, <2>2, <2>3, StepLearned
<1>12. Queues(w)'
  <2>1. Queues(w)
    BY DEF Summing, Right
  <2>2. Spc' = Spc /\ First' = First
    BY <1>1, KernelStays
  <2>3. QED
    BY <1>1, <2>1, <2>2 DEF Queues
<1>13. Right(w)'
  BY <1>2, <1>11, <1>12 DEF Right
<1>14. Shaped
  BY DEF Summing
<1>15. \A u \in Waves : u # w => at'[u] = at[u]
  BY <1>1, StepMoves
<1>16. QED
  BY <1>1, <1>13, <1>14, <1>15, OneRight DEF Shaped

\* One more load is outstanding.
LEMMA LoadsAppend ==
  ASSUME NEW v, IsSeq(v), LoadsIn(v), NEW o, o.dst \in Pieces
  PROVE  LoadsIn(Append(v, o))
<1>1. PICK a \in Nat : a = Len(v)
  BY EmptyOrNot
<1>2. PICK r : r = Append(v, o)
  OBVIOUS
<1>3. Len(r) = a + 1 /\ r[a + 1] = o /\ \A j \in 1..a : r[j] = v[j]
  BY <1>1, <1>2, AppendParts
<1>4. \A j \in 1..(a + 1) : j \in 1..a \/ j = a + 1
  OBVIOUS
<1>5. \A j \in 1..(a + 1) : r[j].dst \in Pieces
  BY <1>1, <1>3, <1>4 DEF LoadsIn
<1>6. QED
  BY <1>2, <1>3, <1>5 DEF LoadsIn

\* A load from global memory is issued.
LEMMA BufferLoadRight ==
  ASSUME InStep, Tracked, Summing, \A p \in Problems : Whole(p), NEW w \in Waves, BufferLoadStep(w)
  PROVE  Summing'
<1>1. /\ Ready(w, "buffer_load") /\ Step(w)
      /\ UNCHANGED <<problem, code, part, kIter, kOff, lgkm, reg, acc, lds, slot, y>>
  BY DEF BufferLoadStep, kernel
<1>2. Counted(w)' /\ Filled(w)'
  BY <1>1, StepPlace
<1>3. Learns(Spc, Ins(w), Knowledge(w), Onward(w)) /\ Knows(w, Knowledge(w)) /\ Ins(w).op = "buffer_load"
      /\ (Opening(w) => Knowledge(w).done = All(Spc))
  BY <1>1, LeadsOn
<1>4. ~Passed(w) /\ ~Ended(w)
  BY <1>1, Working
<1>5. PICK b : b = at[w].block
  OBVIOUS
<1>6. PICK s, f, n, q, v, R, A, S, Y, L : /\ s = Spc /\ f = First /\ n = kIter[w] /\ q = lgkm[w] /\ v = vm[w]
        /\ R = reg[w] /\ A = acc[w] /\ S = slot[w] /\ Y = y[w] /\ L = lds
  OBVIOUS
<1>7. PICK x, k, l : x = Ins(w) /\ k = Knowledge(w) /\ l = Onward(w)
  OBVIOUS
<1>8. KnowsIn(s, b, FALSE, w, f, n, q, v, R, A, S, Y, L, k)
  BY <1>3, <1>4, <1>5, <1>6, <1>7, KnowsHere
<1>9. Learns(s, x, k, l) /\ x.op = "buffer_load" /\ l.done = k.done /\ x.dst \in Pieces
  <2>1. Learns(s, x, k, l) /\ x.op = "buffer_load"
    BY <1>3, <1>6, <1>7
  <2>2. x.dst \in Pieces
    BY <2>1 DEF Learns
  <2>3. QED
    BY <2>1, <2>2, SameDone
<1>10. part \in Nat /\ DOMAIN vm = Waves /\ IsSeq(v)
  BY <1>4, <1>6, TrackedParts DEF Summing, Shaped, Tracked
<1>11. PICK o : /\ o = [dst |-> x.dst, k |-> (IF Spc.gen = "tile_ir" THEN KStart(Spc, problem.args.k, part) ELSE 0) + kOff[w]]
                /\ vm' = [vm EXCEPT ![w] = Append(@, o)]
  BY <1>7 DEF BufferLoadStep
<1>12. o.dst = x.dst /\ o.k = f + n
  <2>1. kOff[w] = kIter[w] + IF Spc.gen = "gemm_gen" THEN First ELSE 0
    BY DEF Summing, Right, Counted
  <2>2. f \in Nat /\ n \in Nat /\ s.gen \in {"tile_ir", "gemm_gen"}
    BY <1>6, <1>10, Numbers DEF Summing, Right, Counted
  <2>3. o.k = (IF s.gen = "tile_ir" THEN f ELSE 0) + (n + IF s.gen = "gemm_gen" THEN f ELSE 0)
    BY <1>6, <1>11, <2>1 DEF First
  <2>4. o.k = f + n
    BY <2>2, <2>3
  <2>5. QED
    BY <1>11, <2>4
<1>13. vm'[w] = Append(v, o) /\ \A u \in Waves : u # w => vm'[u] = vm[u]
  BY <1>6, <1>10, <1>11
<1>14. KnowsIn(s, b, FALSE, w, f, n, q, Append(v, o), R, A, S, Y, L, l)
  BY <1>8, <1>9, <1>10, <1>12, KnowsLoad
<1>15. Learned(w)'
  <2>1. KnowsIn(s, b, FALSE, w, f, n, q, Append(v, o), R, A, S, Y, L, Onward(w))
    BY <1>7, <1>14
  <2>2. Opening(w) => Onward(w).done = All(Spc)
    BY <1>3, <1>7, <1>9
  <2>3. /\ q = lgkm'[w] /\ R = reg'[w] /\ A = acc'[w] /\ S = slot'[w] /\ Y = y'[w] /\ L = lds'
        /\ n = kIter'[w]
    BY <1>1, <1>6
  <2>4. PICK z : z = Append(v, o)
    OBVIOUS
  <2>5. z = vm'[w] /\ KnowsIn(s, b, FALSE, w, f, n, q, z, R, A, S, Y, L, Onward(w))
    BY <1>13, <2>1, <2>4
  <2>6. QED
    BY <1>1, <1>5, <1>6, <2>2, <2>3, <2>5, StepLearned
<1>16. Queues(w)'
  <2>1. LoadsIn(v) /\ OpsIn(q, s, w, f + n)
    BY <1>6 DEF Summing, Right, Queues
  <2>2. LoadsIn(Append(v, o))
    BY <1>9, <1>10, <1>12, <2>1, LoadsAppend
  <2>3. Spc' = Spc /\ First' = First
    BY <1>1, KernelStays
  <2>4. LoadsIn(vm'[w])
    BY <1>13, <2>2
  <2>5. QED
    BY <1>1, <1>6, <2>1, <2>3, <2>4 DEF Queues
<1>17. Right(w)'
  BY <1>2, <1>15, <1>16 DEF Right
<1>18. Shaped
  BY DEF Summing
<1>19. \A u \in Waves : u # w => at'[u] = at[u]
  BY <1>1, StepMoves
<1>20. QED
  BY <1>1, <1>13, <1>17, <1>18, <1>19, OneRight DEF Shaped

\* One more operation of shared memory is outstanding.
LEMMA OpsAppend ==
  ASSUME NEW q, IsSeq(q), NEW s, NEW w, NEW n, OpsIn(q, s, w, n), NEW o,
         o.op = "ds_load" => o.dst \in Frags,
         o.op = "ds_store" => o.src \in Pieces /\ o.value = n /\ o.slice = o.src[2] * NWaves(s) + w
  PROVE  OpsIn(Append(q, o), s, w, n)
<1>1. PICK a \in Nat : a = Len(q)
  BY EmptyOrNot
<1>2. PICK r : r = Append(q, o)
  OBVIOUS
<1>3. Len(r) = a + 1 /\ r[a + 1] = o /\ \A j \in 1..a : r[j] = q[j]
  BY <1>1, <1>2, AppendParts
<1>4. \A j \in 1..(a + 1) : j \in 1..a \/ j = a + 1
  OBVIOUS
<1>5. \A j \in 1..(a + 1) :
        /\ r[j].op = "ds_load" => r[j].dst \in Frags
        /\ r[j].op = "ds_store" => /\ r[j].src \in Pieces /\ r[j].value = n
                                   /\ r[j].slice = r[j].src[2] * NWaves(s) + w
  <2> SUFFICES ASSUME NEW j \in 1..(a + 1)
               PROVE  /\ r[j].op = "ds_load" => r[j].dst \in Frags
                      /\ r[j].op = "ds_store" => /\ r[j].src \in Pieces /\ r[j].value = n
                                                 /\ r[j].slice = r[j].src[2] * NWaves(s) + w
    OBVIOUS
  <2>1. CASE j = a + 1
    BY <1>3, <2>1
  <2>2. CASE j \in 1..a
    BY <1>1, <1>3, <2>2 DEF OpsIn
  <2>3. QED
    BY <1>4, <2>1, <2>2
<1>6. QED
  BY <1>2, <1>3, <1>5 DEF OpsIn

\* What a wave stores to shared memory is a piece of the next tile.
LEMMA StoredIsNew ==
  ASSUME InStep, Tracked, NEW w \in Waves, NEW op, Ready(w, op), op = "ds_store",
         NEW v, v = vm[w], NEW R, R = reg[w], NEW n, NEW P, NewsIn(v, R, n, P), Ins(w).src \in P
  PROVE  reg[w][Ins(w).src] = n /\ Ins(w).src \in Pieces
<1>1. PICK p : p = Ins(w).src
  OBVIOUS
<1>2. p \in Pieces /\ NewIn(v, R, n, p)
  BY <1>1 DEF NewsIn
<1>3. ~Ended(w) /\ at[w].i <= Len(code[at[w].block]) /\ Ins(w).op = "ds_store"
  BY DEF Ready
<1>4. Sources(Ins(w)) = {p}
  BY <1>1, <1>3 DEF Sources
<1>5. p \notin Pending(w)
  BY <1>3, <1>4, OperandsHere DEF OperandsArrived
<1>6. DOMAIN v = 1..Len(v)
  BY <1>3, TrackedParts, WaitsDomain
<1>7. \A j \in 1..Len(v) : v[j].dst # p
  BY <1>5, <1>6 DEF Pending
<1>8. R[p] = n
  BY <1>2, <1>7 DEF NewIn
<1>9. QED
  BY <1>1, <1>2, <1>8

\* What a fragment is loaded from.
LEMMA LoadedFrom ==
  ASSUME InStep, NEW w \in Waves, NEW op, Ready(w, op), op = "ds_load"
  PROVE  Ins(w).buf \in LoadBufs(at[w].block)
<1>1. PICK n \in Main \cup Epilogs : \E K : Placed(w, n, K)
  BY DEF InStep
<1>2. PICK K : Placed(w, n, K)
  BY <1>1
<1>3. PICK x : x = Ins(w)
  OBVIOUS
<1>4. Allowed(x, LoadBufs(at[w].block), StoreBufs(at[w].block)) \/ Allowed(x, LoadBufs(at[w].block), {})
  BY <1>2, <1>3, Issuing DEF Inside
<1>5. x.op = "ds_load"
  BY <1>3 DEF Ready
<1>6. \E r, mat, block, ks, half : \E u \in LoadBufs(at[w].block) : x = DsLoad(r, u, mat, block, ks, half)
  BY <1>4, <1>5 DEF Allowed
<1>7. QED
  BY <1>3, <1>6 DEF DsLoad

\* An operation of shared memory is issued.
LEMMA LdsStepRight ==
  ASSUME InStep, Tracked, Summing, NEW w \in Waves, LdsStep(w)
  PROVE  Summing'
<1>0. PICK op \in LdsOps : Ready(w, op)
  BY DEF LdsStep, LdsOps
<1>1. /\ op \notin {"barrier", "advance"} /\ Step(w)
      /\ UNCHANGED <<problem, code, part, kIter, kOff, vm, reg, acc, lds, slot, y>>
      /\ lgkm' = [lgkm EXCEPT ![w] = Append(@, Queued(w, Ins(w)))]
  BY DEF LdsStep, kernel, LdsOps
<1>2. Counted(w)' /\ Filled(w)'
  BY <1>0, <1>1, StepPlace
<1>3. Learns(Spc, Ins(w), Knowledge(w), Onward(w)) /\ Knows(w, Knowledge(w)) /\ Ins(w).op = op
      /\ (Opening(w) => Knowledge(w).done = All(Spc))
  BY <1>0, LeadsOn
<1>4. ~Passed(w) /\ ~Ended(w)
  BY <1>0, <1>1, Working
<1>5. PICK b : b = at[w].block
  OBVIOUS
<1>6. PICK s, f, n, q, v, R, A, S, Y, L : /\ s = Spc /\ f = First /\ n = kIter[w] /\ q = lgkm[w] /\ v = vm[w]
        /\ R = reg[w] /\ A = acc[w] /\ S = slot[w] /\ Y = y[w] /\ L = lds
  OBVIOUS
<1>7. PICK x, k, l : x = Ins(w) /\ k = Knowledge(w) /\ l = Onward(w)
  OBVIOUS
<1>8. KnowsIn(s, b, FALSE, w, f, n, q, v, R, A, S, Y, L, k)
  BY <1>3, <1>4, <1>5, <1>6, <1>7, KnowsHere
<1>9. Learns(s, x, k, l) /\ x.op = op /\ x.op \in LdsOps /\ l.done = k.done
  <2>1. Learns(s, x, k, l) /\ x.op = op /\ x.op \notin {"wmma", "advance"}
    BY <1>3, <1>6, <1>7 DEF LdsOps
  <2>2. QED
    BY <2>1, SameDone
<1>10. DOMAIN lgkm = Waves /\ IsSeq(q)
  BY <1>4, <1>6, TrackedParts DEF InStep
<1>11. PICK o : o = Queued(w, x)
  OBVIOUS
<1>12. /\ o.op = x.op /\ (x.op \in {"ds_load", "swap_in"} => o = x)
       /\ x.op = "ds_store" => o.src = x.src /\ o.value = reg[w][x.src] /\ o.slice = Slice(w, x.src[2])
       /\ x.op = "swap_out" => o.c = x.c /\ o.value = A[<<0, x.c>>]
  BY <1>6, <1>9, <1>11 DEF Queued, LdsOps
<1>13. x.op = "ds_load" => x.buf \in LoadBufs(b)
  BY <1>0, <1>5, <1>7, <1>9, LoadedFrom
<1>14. lgkm'[w] = Append(q, o) /\ \A u \in Waves : u # w => lgkm'[u] = lgkm[u]
  BY <1>1, <1>6, <1>7, <1>10, <1>11
<1>15. KnowsIn(s, b, FALSE, w, f, n, Append(q, o), v, R, A, S, Y, L, l)
  BY <1>8, <1>9, <1>10, <1>12, <1>13, KnowsIssue
<1>16. Learned(w)'
  <2>1. KnowsIn(s, b, FALSE, w, f, n, Append(q, o), v, R, A, S, Y, L, Onward(w))
    BY <1>7, <1>15
  <2>2. Opening(w) => Onward(w).done = All(Spc)
    BY <1>3, <1>7, <1>9
  <2>3. /\ v = vm'[w] /\ R = reg'[w] /\ A = acc'[w] /\ S = slot'[w] /\ Y = y'[w] /\ L = lds'
        /\ n = kIter'[w]
    BY <1>1, <1>6
  <2>4. PICK z : z = Append(q, o)
    OBVIOUS
  <2>5. z = lgkm'[w] /\ KnowsIn(s, b, FALSE, w, f, n, z, v, R, A, S, Y, L, Onward(w))
    BY <1>14, <2>1, <2>4
  <2>6. QED
    BY <1>0, <1>1, <1>5, <1>6, <2>2, <2>3, <2>5, StepLearned
<1>17. Queues(w)'
  <2>1. LoadsIn(v) /\ OpsIn(q, s, w, f + n)
    BY <1>6 DEF Summing, Right, Queues
  <2>2. o.op = "ds_load" => o.dst \in Frags
    BY <1>9, <1>12 DEF Learns
  <2>3. o.op = "ds_store" => o.src \in Pieces /\ o.value = f + n /\ o.slice = o.src[2] * NWaves(s) + w
    <3> SUFFICES ASSUME x.op = "ds_store" PROVE o.src \in Pieces /\ o.value = f + n /\ o.slice = o.src[2] * NWaves(s) + w
      BY <1>12
    <3>1. x.src \in k.new
      BY <1>9 DEF Learns
    <3>2. NewsIn(v, R, f + n, k.new)
      BY <1>8 DEF KnowsIn
    <3>3. reg[w][x.src] = f + n /\ x.src \in Pieces
      BY <1>0, <1>6, <1>7, <1>9, <3>1, <3>2, StoredIsNew
    <3>4. Slice(w, x.src[2]) = x.src[2] * NWaves(s) + w
      BY <1>6 DEF Slice
    <3>5. QED
      BY <1>12, <3>3, <3>4
  <2>4. OpsIn(Append(q, o), s, w, f + n)
    BY <1>10, <2>1, <2>2, <2>3, OpsAppend
  <2>5. Spc' = Spc /\ First' = First
    BY <1>1, KernelStays
  <2>6. OpsIn(lgkm'[w], s, w, f + n)
    BY <1>14, <2>4
  <2>7. QED
    BY <1>1, <1>6, <2>1, <2>5, <2>6 DEF Queues
<1>18. Right(w)'
  BY <1>2, <1>16, <1>17 DEF Right
<1>19. Shaped
  BY DEF Summing
<1>20. \A u \in Waves : u # w => at'[u] = at[u]
  BY <1>1, StepMoves
<1>21. QED
  BY <1>1, <1>14, <1>18, <1>19, <1>20, OneRight DEF Shaped

\* The operands of a product have arrived.
LEMMA ProductHere ==
  ASSUME InStep, Tracked, NEW w \in Waves, Ready(w, "wmma"), NEW x, x = Ins(w), NEW q, q = lgkm[w]
  PROVE  \A j \in 1..Len(q) : \A h \in {0, 1} : ~Loads(q[j], Append(x.a, h)) /\ ~Loads(q[j], Append(x.b, h))
<1>1. ~Ended(w) /\ at[w].i <= Len(code[at[w].block]) /\ x.op = "wmma"
  BY DEF Ready
<1>2. Sources(Ins(w)) = {Append(x.a, h) : h \in {0, 1}} \cup {Append(x.b, h) : h \in {0, 1}}
  BY <1>1 DEF Sources
<1>3. \A h \in {0, 1} : Append(x.a, h) \notin Pending(w) /\ Append(x.b, h) \notin Pending(w)
  BY <1>1, <1>2, OperandsHere DEF OperandsArrived
<1>4. DOMAIN q = 1..Len(q)
  BY <1>1, TrackedParts, WaitsDomain
<1>5. ASSUME NEW j \in 1..Len(q), q[j].op = "ds_load" PROVE q[j].dst \in Pending(w)
  BY <1>4, <1>5 DEF Pending
<1>6. QED
  BY <1>3, <1>5 DEF Loads

\* The temporary has come in when it is moved.
LEMMA TemporaryHere ==
  ASSUME InStep, Tracked, NEW w \in Waves, Ready(w, "move_temp"), NEW q, q = lgkm[w]
  PROVE  \A j \in 1..Len(q) : q[j].op # "swap_in"
<1>1. ~Ended(w) /\ at[w].i <= Len(code[at[w].block]) /\ Ins(w).op = "move_temp"
  BY DEF Ready
<1>2. Sources(Ins(w)) = {<<"temp">>}
  BY <1>1 DEF Sources
<1>3. <<"temp">> \notin Pending(w)
  BY <1>1, <1>2, OperandsHere DEF OperandsArrived
<1>4. DOMAIN q = 1..Len(q)
  BY <1>1, TrackedParts, WaitsDomain
<1>5. ASSUME NEW j \in 1..Len(q), q[j].op = "swap_in" PROVE <<"temp">> \in Pending(w)
  BY <1>4, <1>5 DEF Pending
<1>6. QED
  BY <1>3, <1>5

\* A product is added.
LEMMA WmmaRight ==
  ASSUME InStep, Tracked, Summing, \A p \in Problems : Whole(p), NEW w \in Waves, WmmaStep(w)
  PROVE  Summing'
<1>1. /\ Ready(w, "wmma") /\ Step(w)
      /\ UNCHANGED <<problem, code, part, kIter, kOff, vm, lgkm, reg, lds, slot, y>>
  BY DEF WmmaStep, kernel
<1>2. Counted(w)' /\ Filled(w)'
  BY <1>1, StepPlace
<1>3. Learns(Spc, Ins(w), Knowledge(w), Onward(w)) /\ Knows(w, Knowledge(w)) /\ Ins(w).op = "wmma"
      /\ (Opening(w) => Knowledge(w).done = All(Spc))
  BY <1>1, LeadsOn
<1>4. ~Passed(w) /\ ~Ended(w)
  BY <1>1, Working
<1>5. PICK b : b = at[w].block
  OBVIOUS
<1>6. PICK s, f, n, q, v, R, A, S, Y, L : /\ s = Spc /\ f = First /\ n = kIter[w] /\ q = lgkm[w] /\ v = vm[w]
        /\ R = reg[w] /\ A = acc[w] /\ S = slot[w] /\ Y = y[w] /\ L = lds
  OBVIOUS
<1>7. PICK x, k, l : x = Ins(w) /\ k = Knowledge(w) /\ l = Onward(w)
  OBVIOUS
<1>8. KnowsIn(s, b, FALSE, w, f, n, q, v, R, A, S, Y, L, k)
  BY <1>3, <1>4, <1>5, <1>6, <1>7, KnowsHere
<1>9. Learns(s, x, k, l) /\ x.op = "wmma"
  BY <1>3, <1>6, <1>7
<1>10. part \in Nat /\ DOMAIN acc = Waves /\ DOMAIN A = AccRowsOf(s) \X ColumnsOf(s)
  BY <1>6 DEF Summing, Shaped
<1>11. ~Opening(w)
  <2>1. k.done # All(s)
    <3>1. PICK r \in RowsOf(s), ks \in StepsOf(s) : <<r, x.acc[2], ks>> \notin k.done
      BY <1>9 DEF Learns
    <3>2. x.acc \in AccRowsOf(s) \X ColumnsOf(s)
      BY <1>9 DEF Learns
    <3>3. <<r, x.acc[2], ks>> \in All(s)
      BY <3>2 DEF All
    <3>4. QED
      BY <3>1, <3>3
  <2>2. QED
    BY <1>3, <1>6, <1>7, <2>1
<1>12. /\ s.tile_k \in Nat \ {0} /\ s.tile_k % 16 = 0 /\ f \in Nat /\ f % 16 = 0
       /\ n \in Nat /\ n % 16 = 0 /\ n >= s.tile_k
  <2>1. s.tile_k \in Nat \ {0} /\ s.tile_k % 16 = 0 /\ f \in Nat /\ f % 16 = 0
    BY <1>6, <1>10, Numbers
  <2>2. n \in Nat /\ n % s.tile_k = 0 /\ n >= s.tile_k
    BY <1>6, <1>11 DEF Summing, Right, Counted
  <2>3. n % 16 = 0
    <3>1. PICK t \in Nat \ {0} : t = s.tile_k
      BY <2>1
    <3>2. QED
      BY <2>1, <2>2, <3>1, Sixteens
  <2>4. QED
    BY <2>1, <2>2, <2>3
<1>13. PICK g : g = <<<<HeldIn(R, Append(x.a, 0)), HeldIn(R, Append(x.a, 1))>>,
                      <<HeldIn(R, Append(x.b, 0)), HeldIn(R, Append(x.b, 1))>>>>
  OBVIOUS
<1>14. g = <<Fragment(w, Ins(w).a), Fragment(w, Ins(w).b)>>
  BY <1>6, <1>7, <1>13 DEF Fragment, Held, HeldIn
<1>15. PICK B : B = [A EXCEPT ![x.acc] = @ (+) SetToBag({g})]
  OBVIOUS
<1>16. acc' = [acc EXCEPT ![w] = B]
  BY <1>6, <1>7, <1>14, <1>15 DEF WmmaStep
<1>17. acc'[w] = B /\ (\A u \in Waves : u # w => acc'[u] = acc[u]) /\ DOMAIN acc' = Waves
  BY <1>10, <1>16
<1>18. \A j \in 1..Len(q) : \A h \in {0, 1} : ~Loads(q[j], Append(x.a, h)) /\ ~Loads(q[j], Append(x.b, h))
  BY <1>1, <1>6, <1>7, ProductHere
<1>19. KnowsIn(s, b, FALSE, w, f, n, q, v, R, B, S, Y, L, l)
  BY <1>8, <1>9, <1>10, <1>12, <1>13, <1>15, <1>18, KnowsProduct
<1>20. Learned(w)'
  <2>1. KnowsIn(s, b, FALSE, w, f, n, q, v, R, B, S, Y, L, Onward(w))
    BY <1>7, <1>19
  <2>2. /\ q = lgkm'[w] /\ v = vm'[w] /\ R = reg'[w] /\ B = acc'[w] /\ S = slot'[w] /\ Y = y'[w] /\ L = lds'
        /\ n = kIter'[w]
    BY <1>1, <1>6, <1>17
  <2>3. QED
    BY <1>1, <1>5, <1>6, <1>11, <2>1, <2>2, StepLearned
<1>21. Queues(w)'
  <2>1. Queues(w)
    BY DEF Summing, Right
  <2>2. Spc' = Spc /\ First' = First
    BY <1>1, KernelStays
  <2>3. QED
    BY <1>1, <2>1, <2>2 DEF Queues
<1>22. Right(w)'
  BY <1>2, <1>20, <1>21 DEF Right
<1>23. Shaped
  BY DEF Summing
<1>24. \A u \in Waves : u # w => at'[u] = at[u]
  BY <1>1, StepMoves
<1>25. DOMAIN acc'[w] = DOMAIN acc[w]
  BY <1>6, <1>15, <1>17
<1>26. QED
  BY <1>1, <1>17, <1>22, <1>23, <1>24, <1>25, OneRight DEF Shaped

\* The temporary is moved to an accumulator.
LEMMA MoveTempRight ==
  ASSUME InStep, Tracked, Summing, \A p \in Problems : Whole(p), NEW w \in Waves, MoveTempStep(w)
  PROVE  Summing'
<1>1. /\ Ready(w, "move_temp") /\ Step(w)
      /\ UNCHANGED <<problem, code, part, kIter, kOff, vm, lgkm, reg, lds, slot, y>>
  BY DEF MoveTempStep, kernel
<1>2. Counted(w)' /\ Filled(w)'
  BY <1>1, StepPlace
<1>3. Learns(Spc, Ins(w), Knowledge(w), Onward(w)) /\ Knows(w, Knowledge(w)) /\ Ins(w).op = "move_temp"
      /\ (Opening(w) => Knowledge(w).done = All(Spc))
  BY <1>1, LeadsOn
<1>4. ~Passed(w) /\ ~Ended(w)
  BY <1>1, Working
<1>5. PICK b : b = at[w].block
  OBVIOUS
<1>6. PICK s, f, n, q, v, R, A, S, Y, L : /\ s = Spc /\ f = First /\ n = kIter[w] /\ q = lgkm[w] /\ v = vm[w]
        /\ R = reg[w] /\ A = acc[w] /\ S = slot[w] /\ Y = y[w] /\ L = lds
  OBVIOUS
<1>7. PICK x, k, l : x = Ins(w) /\ k = Knowledge(w) /\ l = Onward(w)
  OBVIOUS
<1>8. KnowsIn(s, b, FALSE, w, f, n, q, v, R, A, S, Y, L, k)
  BY <1>3, <1>4, <1>5, <1>6, <1>7, KnowsHere
<1>9. Learns(s, x, k, l) /\ x.op = "move_temp" /\ l.done = k.done
  <2>1. Learns(s, x, k, l) /\ x.op = "move_temp"
    BY <1>3, <1>6, <1>7
  <2>2. QED
    BY <2>1, SameDone
<1>10. part \in Nat /\ DOMAIN acc = Waves /\ DOMAIN A = AccRowsOf(s) \X ColumnsOf(s)
  BY <1>6 DEF Summing, Shaped
<1>11. NRowBlocks(s) \in Nat
  BY <1>6, <1>10, Numbers
<1>12. PICK B : B = [A EXCEPT ![<<0, x.c>>] = R[<<"temp">>]]
  OBVIOUS
<1>13. acc' = [acc EXCEPT ![w] = B]
  BY <1>6, <1>7, <1>12 DEF MoveTempStep
<1>14. acc'[w] = B /\ (\A u \in Waves : u # w => acc'[u] = acc[u]) /\ DOMAIN acc' = Waves
  BY <1>10, <1>13
<1>15. \A j \in 1..Len(q) : q[j].op # "swap_in"
  BY <1>1, <1>6, TemporaryHere
<1>16. KnowsIn(s, b, FALSE, w, f, n, q, v, R, B, S, Y, L, l)
  BY <1>8, <1>9, <1>10, <1>11, <1>12, <1>15, KnowsMoved
<1>17. Learned(w)'
  <2>1. KnowsIn(s, b, FALSE, w, f, n, q, v, R, B, S, Y, L, Onward(w))
    BY <1>7, <1>16
  <2>2. /\ q = lgkm'[w] /\ v = vm'[w] /\ R = reg'[w] /\ B = acc'[w] /\ S = slot'[w] /\ Y = y'[w] /\ L = lds'
        /\ n = kIter'[w]
    BY <1>1, <1>6, <1>14
  <2>3. Opening(w) => Onward(w).done = All(Spc)
    BY <1>3, <1>7, <1>9
  <2>4. QED
    BY <1>1, <1>5, <1>6, <2>1, <2>2, <2>3, StepLearned
<1>18. Queues(w)'
  <2>1. Queues(w)
    BY DEF Summing, Right
  <2>2. Spc' = Spc /\ First' = First
    BY <1>1, KernelStays
  <2>3. QED
    BY <1>1, <2>1, <2>2 DEF Queues
<1>19. Right(w)'
  BY <1>2, <1>17, <1>18 DEF Right
<1>20. Shaped
  BY DEF Summing
<1>21. \A u \in Waves : u # w => at'[u] = at[u]
  BY <1>1, StepMoves
<1>22. DOMAIN acc'[w] = DOMAIN acc[w]
  BY <1>6, <1>12, <1>14
<1>23. QED
  BY <1>1, <1>14, <1>19, <1>20, <1>21, <1>22, OneRight DEF Shaped

\* Sums are stored to Y.
LEMMA YStoreRight ==
  ASSUME InStep, Tracked, Summing, NEW w \in Waves, YStoreStep(w)
  PROVE  Summing'
<1>1. /\ Ready(w, "y_store") /\ Step(w)
      /\ UNCHANGED <<problem, code, part, kIter, kOff, vm, lgkm, reg, acc, lds, slot>>
  BY DEF YStoreStep, kernel
<1>2. Counted(w)' /\ Filled(w)'
  BY <1>1, StepPlace
<1>3. Learns(Spc, Ins(w), Knowledge(w), Onward(w)) /\ Knows(w, Knowledge(w)) /\ Ins(w).op = "y_store"
      /\ (Opening(w) => Knowledge(w).done = All(Spc))
  BY <1>1, LeadsOn
<1>4. ~Passed(w) /\ ~Ended(w)
  BY <1>1, Working
<1>5. PICK b : b = at[w].block
  OBVIOUS
<1>6. PICK s, f, n, q, v, R, A, S, Y, L : /\ s = Spc /\ f = First /\ n = kIter[w] /\ q = lgkm[w] /\ v = vm[w]
        /\ R = reg[w] /\ A = acc[w] /\ S = slot[w] /\ Y = y[w] /\ L = lds
  OBVIOUS
<1>7. PICK x, k, l : x = Ins(w) /\ k = Knowledge(w) /\ l = Onward(w)
  OBVIOUS
<1>8. KnowsIn(s, b, FALSE, w, f, n, q, v, R, A, S, Y, L, k)
  BY <1>3, <1>4, <1>5, <1>6, <1>7, KnowsHere
<1>9. Learns(s, x, k, l) /\ x.op = "y_store" /\ l.done = k.done
  <2>1. Learns(s, x, k, l) /\ x.op = "y_store"
    BY <1>3, <1>6, <1>7
  <2>2. QED
    BY <2>1, SameDone
<1>10. DOMAIN y = Waves /\ Cols = ColumnsOf(s)
  BY <1>6 DEF Summing, Shaped, Cols, ColumnsOf
<1>11. PICK Z : Z = [rc \in ({x.r} \X ColumnsOf(s)) \cup DOMAIN Y |->
                        IF rc[1] = x.r THEN A[<<x.accRow, rc[2]>>] ELSE Y[rc]]
  OBVIOUS
<1>12. y' = [y EXCEPT ![w] = Z]
  BY <1>6, <1>7, <1>10, <1>11 DEF YStoreStep
<1>13. y'[w] = Z /\ (\A u \in Waves : u # w => y'[u] = y[u]) /\ DOMAIN y' = Waves
  BY <1>10, <1>12
<1>14. KnowsIn(s, b, FALSE, w, f, n, q, v, R, A, S, Z, L, l)
  BY <1>8, <1>9, <1>11, KnowsStored
<1>15. Learned(w)'
  <2>1. KnowsIn(s, b, FALSE, w, f, n, q, v, R, A, S, Z, L, Onward(w))
    BY <1>7, <1>14
  <2>2. /\ q = lgkm'[w] /\ v = vm'[w] /\ R = reg'[w] /\ A = acc'[w] /\ S = slot'[w] /\ Z = y'[w] /\ L = lds'
        /\ n = kIter'[w]
    BY <1>1, <1>6, <1>13
  <2>3. Opening(w) => Onward(w).done = All(Spc)
    BY <1>3, <1>7, <1>9
  <2>4. QED
    BY <1>1, <1>5, <1>6, <2>1, <2>2, <2>3, StepLearned
<1>16. Queues(w)'
  <2>1. Queues(w)
    BY DEF Summing, Right
  <2>2. Spc' = Spc /\ First' = First
    BY <1>1, KernelStays
  <2>3. QED
    BY <1>1, <2>1, <2>2 DEF Queues
<1>17. Right(w)'
  BY <1>2, <1>15, <1>16 DEF Right
<1>18. Shaped
  BY DEF Summing
<1>19. \A u \in Waves : u # w => at'[u] = at[u]
  BY <1>1, StepMoves
<1>20. QED
  BY <1>1, <1>13, <1>17, <1>18, <1>19, OneRight DEF Shaped

-----------------------------------------------------------------------------
\* Outstanding operations that land, at any time before a wait asks for them.

\* Behind the barrier no operation of shared memory is outstanding.
LEMMA NothingPassed ==
  ASSUME InStep, NEW w \in Waves, lgkm[w] # << >>
  PROVE  ~Passed(w)
<1>1. PICK n \in Main \cup Epilogs : \E K : Placed(w, n, K)
  BY DEF InStep
<1>2. PICK K : Placed(w, n, K)
  BY <1>1
<1>3. PICK b, i, l : b = at[w].block /\ i = at[w].i /\ l = Len(code[at[w].block])
  OBVIOUS
<1>4. CASE Inside(w, n, K)
  <2>1. b = n /\ n \in Main /\ i \in 1..(l - 1)
    BY <1>3, <1>4 DEF Inside
  <2>2. Ordered(code[n], LoadBufs(n), StoreBufs(n))
    BY <2>1 DEF InStep, Phased
  <2>3. l \in Nat
    BY <1>3, <2>1, <2>2, OrderedParts
  <2>4. ~(i >= l)
    BY <2>1, <2>3
  <2>5. QED
    BY <1>3, <2>4 DEF Passed
<1>5. CASE Leaving(w, n)
  BY <1>5 DEF Leaving, Passed, Main, Epilogs
<1>6. QED
  BY <1>2, <1>4, <1>5 DEF Placed, Coming

\* The rest of what is outstanding.
LEMMA LoadsTail ==
  ASSUME NEW v, IsSeq(v), Len(v) > 0, LoadsIn(v)
  PROVE  LoadsIn(Tail(v))
<1>1. PICK a \in Nat : Len(v) = a + 1
  <2>1. Len(v) \in Nat /\ Len(v) - 1 \in Nat /\ Len(v) = (Len(v) - 1) + 1
    BY EmptyOrNot
  <2>2. QED
    BY <2>1
<1>2. PICK r : r = Tail(v)
  OBVIOUS
<1>3. Len(r) = a /\ \A j \in 1..a : r[j] = v[j + 1]
  BY <1>1, <1>2, TailParts
<1>4. \A j \in 1..a : j + 1 \in 1..Len(v)
  BY <1>1
<1>5. \A j \in 1..a : r[j].dst \in Pieces
  BY <1>3, <1>4 DEF LoadsIn
<1>6. QED
  BY <1>2, <1>3, <1>5 DEF LoadsIn

\* The rest of what is outstanding.
LEMMA OpsTail ==
  ASSUME NEW q, IsSeq(q), Len(q) > 0, NEW s, NEW w, NEW n, OpsIn(q, s, w, n)
  PROVE  /\ OpsIn(Tail(q), s, w, n)
         /\ Head(q).op = "ds_load" => Head(q).dst \in Frags
         /\ Head(q).op = "ds_store" => /\ Head(q).src \in Pieces /\ Head(q).value = n
                                       /\ Head(q).slice = Head(q).src[2] * NWaves(s) + w
<1>1. PICK a \in Nat : Len(q) = a + 1
  <2>1. Len(q) \in Nat /\ Len(q) - 1 \in Nat /\ Len(q) = (Len(q) - 1) + 1
    BY EmptyOrNot
  <2>2. QED
    BY <2>1
<1>2. PICK r : r = Tail(q)
  OBVIOUS
<1>3. Len(r) = a /\ Head(q) = q[1] /\ \A j \in 1..a : r[j] = q[j + 1]
  BY <1>1, <1>2, TailParts
<1>4. \A j \in 1..a : j + 1 \in 1..Len(q)
  BY <1>1
<1>5. \A j \in 1..a :
        /\ r[j].op = "ds_load" => r[j].dst \in Frags
        /\ r[j].op = "ds_store" => /\ r[j].src \in Pieces /\ r[j].value = n
                                   /\ r[j].slice = r[j].src[2] * NWaves(s) + w
  <2> SUFFICES ASSUME NEW j \in 1..a
               PROVE  /\ r[j].op = "ds_load" => r[j].dst \in Frags
                      /\ r[j].op = "ds_store" => /\ r[j].src \in Pieces /\ r[j].value = n
                                                 /\ r[j].slice = r[j].src[2] * NWaves(s) + w
    OBVIOUS
  <2>1. r[j] = q[j + 1] /\ j + 1 \in 1..Len(q)
    BY <1>3, <1>4
  <2>2. PICK o : o = q[j + 1]
    OBVIOUS
  <2>3. /\ o.op = "ds_load" => o.dst \in Frags
        /\ o.op = "ds_store" => /\ o.src \in Pieces /\ o.value = n
                                /\ o.slice = o.src[2] * NWaves(s) + w
    BY <2>1, <2>2 DEF OpsIn
  <2>4. QED
    BY <2>1, <2>2, <2>3
<1>6. OpsIn(r, s, w, n)
  BY <1>3, <1>5 DEF OpsIn
<1>7. 1 \in 1..Len(q)
  BY <1>1
<1>8. PICK o : o = q[1]
  OBVIOUS
<1>9. /\ o.op = "ds_load" => o.dst \in Frags
      /\ o.op = "ds_store" => /\ o.src \in Pieces /\ o.value = n
                              /\ o.slice = o.src[2] * NWaves(s) + w
  BY <1>7, <1>8 DEF OpsIn
<1>10. QED
  BY <1>2, <1>3, <1>6, <1>8, <1>9

\* A wave that stays, when shared memory stays.
LEMMA StayPlace ==
  ASSUME Summing, NEW w \in Waves, UNCHANGED <<problem, code, part, lds, at, kIter, kOff>>
  PROVE  Counted(w)' /\ Filled(w)'
<1>1. Spc' = Spc /\ First' = First /\ KEnd(Spc, problem.args.k)' = KEnd(Spc, problem.args.k)
  BY KernelStays
<1>2. Counted(w) /\ Filled(w)
  BY DEF Summing, Right
<1>3. (Passed(w)' <=> Passed(w)) /\ (Opening(w)' <=> Opening(w))
  BY DEF Passed, Opening
<1>4. Counted(w)'
  BY <1>1, <1>2, <1>3 DEF Counted
<1>5. Filled(w)'
  BY <1>1, <1>2, <1>3 DEF Filled, Current
<1>6. QED
  BY <1>4, <1>5

\* A load from global memory lands.
LEMMA BufferLandsRight ==
  ASSUME InStep, Tracked, Summing, NEW w \in Waves, BufferLoadLands(w)
  PROVE  Summing'
<1>1. /\ ~Ended(w) /\ vm[w] # << >>
      /\ UNCHANGED <<problem, code, part, at, kIter, kOff, lgkm, acc, lds, slot, y>>
      /\ reg' = [reg EXCEPT ![w] = With(@, Head(vm[w]).dst, Head(vm[w]).k)]
      /\ vm' = [vm EXCEPT ![w] = Tail(@)]
  BY DEF BufferLoadLands, Lands, kernel
<1>2. Counted(w)' /\ Filled(w)'
  BY <1>1, StayPlace
<1>3. Knows(w, Knowledge(w))
  BY <1>1 DEF Summing, Right, Learned
<1>4. PICK e : e = Passed(w)
  OBVIOUS
<1>5. PICK b : b = at[w].block
  OBVIOUS
<1>6. PICK s, f, n, q, v, R, A, S, Y, L : /\ s = Spc /\ f = First /\ n = kIter[w] /\ q = lgkm[w] /\ v = vm[w]
        /\ R = reg[w] /\ A = acc[w] /\ S = slot[w] /\ Y = y[w] /\ L = lds
  OBVIOUS
<1>7. PICK k : k = Knowledge(w)
  OBVIOUS
<1>8. KnowsIn(s, b, e, w, f, n, q, v, R, A, S, Y, L, k)
  BY <1>3, <1>4, <1>5, <1>6, <1>7 DEF Knows
<1>9. DOMAIN reg = Waves /\ DOMAIN vm = Waves /\ IsSeq(v) /\ Len(v) > 0
  BY <1>1, <1>6, TrackedParts, EmptyOrNot DEF Tracked, Summing, Shaped
<1>10. LoadsIn(v) /\ OpsIn(q, s, w, f + n)
  BY <1>6 DEF Summing, Right, Queues
<1>11. PICK Q : Q = With(R, Head(v).dst, Head(v).k)
  OBVIOUS
<1>12. /\ reg'[w] = Q /\ (\A u \in Waves : u # w => reg'[u] = reg[u]) /\ DOMAIN reg' = Waves
       /\ vm'[w] = Tail(v) /\ (\A u \in Waves : u # w => vm'[u] = vm[u])
  BY <1>1, <1>6, <1>9, <1>11
<1>13. KnowsIn(s, b, e, w, f, n, q, Tail(v), Q, A, S, Y, L, k)
  BY <1>8, <1>9, <1>10, <1>11, KnowsLanded
<1>14. Learned(w)'
  <2>1. PICK z : z = Tail(v)
    OBVIOUS
  <2>2. KnowsIn(s, b, e, w, f, n, q, z, Q, A, S, Y, L, Knowledge(w))
    BY <1>7, <1>13, <2>1
  <2>3. /\ q = lgkm'[w] /\ z = vm'[w] /\ Q = reg'[w] /\ A = acc'[w] /\ S = slot'[w] /\ Y = y'[w] /\ L = lds'
        /\ n = kIter'[w]
    BY <1>1, <1>6, <1>12, <2>1
  <2>4. /\ e => Passed(w)
        /\ f = First /\ b = at[w].block /\ s = Spc /\ at' = at /\ ~Ended(w)
        /\ UNCHANGED <<problem, code, part>>
    BY <1>1, <1>4, <1>5, <1>6
  <2>5. QED
    BY <2>2, <2>3, <2>4, StayLearned
<1>15. Queues(w)'
  <2>1. LoadsIn(vm'[w])
    BY <1>9, <1>10, <1>12, LoadsTail
  <2>2. Spc' = Spc /\ First' = First
    BY <1>1, KernelStays
  <2>3. QED
    BY <1>1, <1>6, <1>10, <2>1, <2>2 DEF Queues
<1>16. Right(w)'
  BY <1>2, <1>14, <1>15 DEF Right
<1>17. Shaped
  BY DEF Summing
<1>18. QED
  BY <1>1, <1>12, <1>16, <1>17, OneRight DEF Shaped

\* What is there when an operation of shared memory lands.
LEMMA LandingHere ==
  ASSUME InStep, Tracked, Summing, NEW w \in Waves, NEW op, LdsLands(w, op)
  PROVE  /\ ~Passed(w) /\ ~Ended(w)
         /\ IsSeq(lgkm[w]) /\ Len(lgkm[w]) > 0 /\ Head(lgkm[w]).op = op
         /\ lgkm'[w] = Tail(lgkm[w]) /\ \A u \in Waves : u # w => lgkm'[u] = lgkm[u]
         /\ UNCHANGED <<problem, code, part, at, kIter, kOff, vm, acc, y>>
         /\ KnowsIn(Spc, at[w].block, FALSE, w, First, kIter[w], lgkm[w], vm[w], reg[w], acc[w], slot[w],
                    y[w], lds, Knowledge(w))
         /\ OpsIn(lgkm[w], Spc, w, First + kIter[w]) /\ LoadsIn(vm[w])
<1>1. /\ ~Ended(w) /\ lgkm[w] # << >>
      /\ Head(lgkm[w]).op = op /\ lgkm' = [lgkm EXCEPT ![w] = Tail(@)]
      /\ UNCHANGED <<problem, code, part, at, kIter, kOff, vm, acc, y>>
  BY DEF LdsLands, Lands, kernel
<1>2. ~Passed(w) /\ ~Ended(w)
  BY <1>1, NothingPassed
<1>3. DOMAIN lgkm = Waves /\ IsSeq(lgkm[w])
  BY <1>2, TrackedParts DEF InStep
<1>4. PICK q : q = lgkm[w]
  OBVIOUS
<1>5. Len(q) > 0
  BY <1>1, <1>3, <1>4, EmptyOrNot
<1>6. lgkm'[w] = Tail(lgkm[w]) /\ \A u \in Waves : u # w => lgkm'[u] = lgkm[u]
  BY <1>1, <1>3
<1>7. Knows(w, Knowledge(w))
  BY <1>2 DEF Summing, Right, Learned
<1>8. KnowsIn(Spc, at[w].block, FALSE, w, First, kIter[w], lgkm[w], vm[w], reg[w], acc[w], slot[w],
              y[w], lds, Knowledge(w))
  BY <1>2, <1>7, KnowsHere
<1>9. OpsIn(lgkm[w], Spc, w, First + kIter[w]) /\ LoadsIn(vm[w])
  BY DEF Summing, Right, Queues
<1>10. QED
  BY <1>1, <1>2, <1>3, <1>4, <1>5, <1>6, <1>8, <1>9

\* An operation lands, and leaves shared memory but for the slots alone.
LEMMA LandingRight ==
  ASSUME InStep, Tracked, Summing, NEW w \in Waves, NEW op, LdsLands(w, op), UNCHANGED lds,
         DOMAIN reg' = Waves, DOMAIN slot' = Waves, DOMAIN slot'[w] = DOMAIN slot[w],
         \A u \in Waves : u # w => reg'[u] = reg[u] /\ slot'[u] = slot[u],
         NEW Q, Q = reg'[w], NEW T, T = slot'[w],
         KnowsIn(Spc, at[w].block, FALSE, w, First, kIter[w], Tail(lgkm[w]), vm[w], Q, acc[w], T,
                 y[w], lds, Knowledge(w))
  PROVE  Summing'
<1>1. /\ ~Passed(w) /\ ~Ended(w)
      /\ IsSeq(lgkm[w]) /\ Len(lgkm[w]) > 0 /\ Head(lgkm[w]).op = op
      /\ lgkm'[w] = Tail(lgkm[w]) /\ \A u \in Waves : u # w => lgkm'[u] = lgkm[u]
      /\ UNCHANGED <<problem, code, part, at, kIter, kOff, vm, acc, y>>
      /\ OpsIn(lgkm[w], Spc, w, First + kIter[w]) /\ LoadsIn(vm[w])
  BY LandingHere
<1>2. Counted(w)' /\ Filled(w)'
  BY <1>1, StayPlace
<1>3. PICK b : b = at[w].block
  OBVIOUS
<1>4. PICK s, f, n, q, v, A, Y, L : /\ s = Spc /\ f = First /\ n = kIter[w] /\ q = lgkm'[w] /\ v = vm[w]
        /\ A = acc[w] /\ Y = y[w] /\ L = lds
  OBVIOUS
<1>5. KnowsIn(s, b, FALSE, w, f, n, q, v, Q, A, T, Y, L, Knowledge(w))
  BY <1>1, <1>3, <1>4
<1>6. Learned(w)'
  <2>1. v = vm'[w] /\ A = acc'[w] /\ Y = y'[w] /\ L = lds' /\ n = kIter'[w]
    BY <1>1, <1>4
  <2>2. QED
    BY <1>1, <1>3, <1>4, <1>5, <2>1, StayLearned
<1>7. Queues(w)'
  <2>1. PICK z : z = lgkm[w]
    OBVIOUS
  <2>2. OpsIn(Tail(z), s, w, f + n)
    BY <1>1, <1>4, <2>1, OpsTail
  <2>3. OpsIn(lgkm'[w], s, w, f + n)
    BY <1>1, <2>1, <2>2
  <2>4. Spc' = Spc /\ First' = First
    BY <1>1, KernelStays
  <2>5. QED
    BY <1>1, <1>4, <2>3, <2>4 DEF Queues
<1>8. Right(w)'
  BY <1>2, <1>6, <1>7 DEF Right
<1>9. Shaped
  BY DEF Summing
<1>10. QED
  BY <1>1, <1>8, <1>9, OneRight DEF Shaped

\* An exchanged accumulator reaches its slot.
LEMMA SwapOutRight ==
  ASSUME InStep, Tracked, Summing, NEW w \in Waves, SwapOutLands(w)
  PROVE  Summing'
<1>1. /\ LdsLands(w, "swap_out") /\ UNCHANGED <<reg, lds>>
      /\ slot' = [slot EXCEPT ![w][Head(lgkm[w]).c] = Head(lgkm[w]).value]
  BY DEF SwapOutLands
<1>2. /\ IsSeq(lgkm[w]) /\ Len(lgkm[w]) > 0 /\ Head(lgkm[w]).op = "swap_out"
      /\ KnowsIn(Spc, at[w].block, FALSE, w, First, kIter[w], lgkm[w], vm[w], reg[w], acc[w], slot[w],
                    y[w], lds, Knowledge(w))
  BY <1>1, LandingHere
<1>3. DOMAIN slot = Waves /\ DOMAIN reg = Waves /\ DOMAIN slot[w] = ColumnsOf(Spc)
  BY DEF Summing, Shaped
<1>4. PICK b : b = at[w].block
  OBVIOUS
<1>5. PICK s, f, n, q, v, R, A, S, Y, L : /\ s = Spc /\ f = First /\ n = kIter[w] /\ q = lgkm[w] /\ v = vm[w]
        /\ R = reg[w] /\ A = acc[w] /\ S = slot[w] /\ Y = y[w] /\ L = lds
  OBVIOUS
<1>6. PICK k : k = Knowledge(w)
  OBVIOUS
<1>7. KnowsIn(s, b, FALSE, w, f, n, q, v, R, A, S, Y, L, k)
  BY <1>2, <1>4, <1>5, <1>6
<1>8. PICK T : T = [S EXCEPT ![Head(q).c] = Head(q).value]
  OBVIOUS
<1>9. /\ slot'[w] = T /\ (\A u \in Waves : u # w => slot'[u] = slot[u]) /\ DOMAIN slot' = Waves
      /\ DOMAIN T = DOMAIN S
  BY <1>1, <1>3, <1>5, <1>8
<1>10. KnowsIn(s, b, FALSE, w, f, n, Tail(q), v, R, A, T, Y, L, k)
  <2>1. IsSeq(q) /\ Len(q) > 0 /\ Head(q).op = "swap_out" /\ \A p : ~Loads(Head(q), p)
    BY <1>2, <1>5 DEF Loads
  <2>2. SlotsFollow(s, q, S, T)
    BY <1>3, <1>5, <1>8, <2>1 DEF SwapsOut, SlotsFollow
  <2>3. PiecesStay(R, R) /\ TempFollows(q, R, S, R)
    BY <2>1 DEF PiecesStay, TempFollows
  <2>4. FragsFollow(s, b, f + n - s.tile_k, q, R, R)
    BY <2>1 DEF FragsFollow
  <2>5. PutsFollow(s, b, w, f + n, q, L, L)
    BY <2>1 DEF PutsFollow
  <2>6. QED
    BY <1>7, <2>1, <2>2, <2>3, <2>4, <2>5, KnowsTail
<1>11. KnowsIn(Spc, at[w].block, FALSE, w, First, kIter[w], Tail(lgkm[w]), vm[w], R, acc[w], T,
               y[w], lds, Knowledge(w))
  BY <1>4, <1>5, <1>6, <1>10
<1>12. R = reg'[w] /\ DOMAIN reg' = Waves /\ \A u \in Waves : u # w => reg'[u] = reg[u]
  BY <1>1, <1>3, <1>5
<1>13. QED
  BY <1>1, <1>5, <1>9, <1>11, <1>12, LandingRight

\* The temporary comes in.
LEMMA SwapInRight ==
  ASSUME InStep, Tracked, Summing, NEW w \in Waves, SwapInLands(w)
  PROVE  Summing'
<1>1. /\ LdsLands(w, "swap_in") /\ UNCHANGED <<lds, slot>>
      /\ reg' = [reg EXCEPT ![w] = With(@, <<"temp">>, slot[w][Head(lgkm[w]).c])]
  BY DEF SwapInLands
<1>2. /\ IsSeq(lgkm[w]) /\ Len(lgkm[w]) > 0 /\ Head(lgkm[w]).op = "swap_in"
      /\ KnowsIn(Spc, at[w].block, FALSE, w, First, kIter[w], lgkm[w], vm[w], reg[w], acc[w], slot[w],
                    y[w], lds, Knowledge(w))
  BY <1>1, LandingHere
<1>3. DOMAIN slot = Waves /\ DOMAIN reg = Waves
  BY DEF Summing, Shaped
<1>4. PICK b : b = at[w].block
  OBVIOUS
<1>5. PICK s, f, n, q, v, R, A, S, Y, L : /\ s = Spc /\ f = First /\ n = kIter[w] /\ q = lgkm[w] /\ v = vm[w]
        /\ R = reg[w] /\ A = acc[w] /\ S = slot[w] /\ Y = y[w] /\ L = lds
  OBVIOUS
<1>6. PICK k : k = Knowledge(w)
  OBVIOUS
<1>7. KnowsIn(s, b, FALSE, w, f, n, q, v, R, A, S, Y, L, k)
  BY <1>2, <1>4, <1>5, <1>6
<1>8. PICK Q : Q = With(R, <<"temp">>, S[Head(q).c])
  OBVIOUS
<1>9. reg'[w] = Q /\ (\A u \in Waves : u # w => reg'[u] = reg[u]) /\ DOMAIN reg' = Waves
  BY <1>1, <1>3, <1>5, <1>8
<1>10. KnowsIn(s, b, FALSE, w, f, n, Tail(q), v, Q, A, S, Y, L, k)
  <2>1. IsSeq(q) /\ Len(q) > 0 /\ Head(q).op = "swap_in" /\ \A p : ~Loads(Head(q), p)
    BY <1>2, <1>5 DEF Loads
  <2>2. PICK t : t = <<"temp">>
    OBVIOUS
  <2>3. t \in DOMAIN Q /\ Q[t] = S[Head(q).c] /\ \A r : r # t /\ r \in DOMAIN R => r \in DOMAIN Q /\ Q[r] = R[r]
    BY <1>8, <2>2, Writing
  <2>4. PiecesStay(R, Q)
    BY <2>2, <2>3, RegistersDiffer DEF PiecesStay
  <2>5. \A p \in Frags : p \in DOMAIN R => p \in DOMAIN Q /\ Q[p] = R[p]
    BY <2>2, <2>3, RegistersDiffer
  <2>6. FragsFollow(s, b, f + n - s.tile_k, q, R, Q)
    BY <2>1, <2>5 DEF FragsFollow
  <2>7. TempFollows(q, R, S, Q)
    BY <2>1, <2>2, <2>3 DEF TempFollows
  <2>8. SlotsFollow(s, q, S, S)
    BY <2>1 DEF SlotsFollow, SwapsOut
  <2>9. PutsFollow(s, b, w, f + n, q, L, L)
    BY <2>1 DEF PutsFollow
  <2>10. QED
    BY <1>7, <2>1, <2>4, <2>6, <2>7, <2>8, <2>9, KnowsTail
<1>11. KnowsIn(Spc, at[w].block, FALSE, w, First, kIter[w], Tail(lgkm[w]), vm[w], Q, acc[w], S,
               y[w], lds, Knowledge(w))
  BY <1>4, <1>5, <1>6, <1>10
<1>12. S = slot'[w] /\ DOMAIN slot' = Waves /\ DOMAIN slot'[w] = DOMAIN slot[w] /\ \A u \in Waves : u # w => slot'[u] = slot[u]
  BY <1>1, <1>3, <1>5
<1>13. QED
  BY <1>1, <1>9, <1>11, <1>12, LandingRight

\* A load of a fragment reads the elements of K that the wave computes with.
LEMMA FragmentRead ==
  ASSUME InStep, \A p \in Problems : Whole(p), Shaped, NEW w \in Waves, ~Passed(w), Filled(w),
         NEW o, o.buf \in LoadBufs(at[w].block), InTile(Spc, o.mat, o.block)
  PROVE  {k + 16 * o.ks : k \in {lds[o.buf][o.mat][g] : g \in SlicesOf(w, o)}} =
            {First + kIter[w] - Spc.tile_k + 16 * o.ks}
<1>1. problem \in Problems /\ Whole(problem)
  BY Numbers DEF Shaped
<1>2. PICK s, mat, block : s = Spc /\ mat = o.mat /\ block = o.block
  OBVIOUS
<1>3. mat \in {"X", "WT"} /\ InTile(s, mat, block) /\ w \in 0..(NWaves(s) - 1) /\ s = problem.spec
  BY <1>2 DEF InTile, Waves, Spc
<1>4. PICK g \in Slices(s, mat) : (g * (32 \div ChunksPerRow(s))) \div 16 =
                                     block + IF mat = "X" THEN w * NRowBlocks(s) ELSE 0
  BY <1>1, <1>3, SliceOfBlock
<1>5. DOMAIN lds[0][mat] = Slices(s, mat)
  BY <1>2, <1>3 DEF Shaped
<1>6. g \in SlicesOf(w, o)
  BY <1>2, <1>4, <1>5 DEF SlicesOf
<1>7. \A h \in SlicesOf(w, o) : h \in Slices(s, mat)
  BY <1>2, <1>5 DEF SlicesOf
<1>8. PICK L, n, u : L = lds /\ n = Current(w) /\ u = o.buf
  OBVIOUS
<1>9. FullIn(L, s, LoadBufs(at[w].block), n)
  BY <1>2, <1>8 DEF Filled
<1>10. \A h \in Slices(s, mat) : L[u][mat][h] = n
  BY <1>3, <1>8, <1>9 DEF FullIn
<1>11. {lds[o.buf][o.mat][h] : h \in SlicesOf(w, o)} = {n}
  BY <1>2, <1>6, <1>7, <1>8, <1>10
<1>12. {k + 16 * o.ks : k \in {n}} = {n + 16 * o.ks}
  OBVIOUS
<1>13. QED
  BY <1>8, <1>11, <1>12 DEF Current

\* A fragment comes in.
LEMMA DsLoadRight ==
  ASSUME InStep, Tracked, Summing, \A p \in Problems : Whole(p), NEW w \in Waves, DsLoadLands(w)
  PROVE  Summing'
<1>0. PICK came : came = {k + 16 * Head(lgkm[w]).ks :
                            k \in {lds[Head(lgkm[w]).buf][Head(lgkm[w]).mat][g] : g \in SlicesOf(w, Head(lgkm[w]))}}
  OBVIOUS
<1>1. /\ LdsLands(w, "ds_load") /\ UNCHANGED <<lds, slot>>
      /\ reg' = [reg EXCEPT ![w] = With(@, Head(lgkm[w]).dst,
                   [block |-> Head(lgkm[w]).block, half |-> Head(lgkm[w]).half, k |-> came])]
  BY <1>0 DEF DsLoadLands
<1>2. /\ IsSeq(lgkm[w]) /\ Len(lgkm[w]) > 0 /\ Head(lgkm[w]).op = "ds_load" /\ ~Passed(w)
      /\ KnowsIn(Spc, at[w].block, FALSE, w, First, kIter[w], lgkm[w], vm[w], reg[w], acc[w], slot[w],
                    y[w], lds, Knowledge(w))
      /\ OpsIn(lgkm[w], Spc, w, First + kIter[w])
  BY <1>1, LandingHere
<1>3. DOMAIN slot = Waves /\ DOMAIN reg = Waves
  BY DEF Summing, Shaped
<1>4. PICK b : b = at[w].block
  OBVIOUS
<1>5. PICK s, f, n, q, v, R, A, S, Y, L : /\ s = Spc /\ f = First /\ n = kIter[w] /\ q = lgkm[w] /\ v = vm[w]
        /\ R = reg[w] /\ A = acc[w] /\ S = slot[w] /\ Y = y[w] /\ L = lds
  OBVIOUS
<1>6. PICK k : k = Knowledge(w)
  OBVIOUS
<1>7. KnowsIn(s, b, FALSE, w, f, n, q, v, R, A, S, Y, L, k)
  BY <1>2, <1>4, <1>5, <1>6
<1>8. PICK o : o = Head(q)
  OBVIOUS
<1>9. PICK Q : Q = With(R, o.dst, [block |-> o.block, half |-> o.half, k |-> came])
  OBVIOUS
<1>10. reg'[w] = Q /\ (\A u \in Waves : u # w => reg'[u] = reg[u]) /\ DOMAIN reg' = Waves
  BY <1>1, <1>3, <1>5, <1>8, <1>9
<1>11. o.dst \in Frags /\ o.op = "ds_load"
  <2>1. OpsIn(q, s, w, f + n) /\ IsSeq(q) /\ Len(q) > 0 /\ Head(q).op = "ds_load"
    BY <1>2, <1>5
  <2>2. Head(q).dst \in Frags
    BY <2>1, OpsTail
  <2>3. QED
    BY <1>8, <2>1, <2>2
<1>12. ASSUME o.buf \in LoadBufs(b), InTile(s, o.mat, o.block)
       PROVE  [block |-> o.block, half |-> o.half, k |-> came] = FragOf(o.block, o.half, f + n - s.tile_k + 16 * o.ks)
  <2>1. Filled(w) /\ Shaped
    BY DEF Summing, Right
  <2>2. came = {First + kIter[w] - Spc.tile_k + 16 * o.ks}
    <3>1. o.buf \in LoadBufs(at[w].block) /\ InTile(Spc, o.mat, o.block)
      BY <1>4, <1>5, <1>12
    <3>2. came = {z + 16 * o.ks : z \in {lds[o.buf][o.mat][g] : g \in SlicesOf(w, o)}}
      BY <1>0, <1>5, <1>8
    <3>3. {z + 16 * o.ks : z \in {lds[o.buf][o.mat][g] : g \in SlicesOf(w, o)}} = {First + kIter[w] - Spc.tile_k + 16 * o.ks}
      BY <1>2, <2>1, <3>1, FragmentRead
    <3>4. QED
      BY <3>2, <3>3
  <2>3. QED
    BY <1>5, <2>2 DEF FragOf
<1>13. KnowsIn(s, b, FALSE, w, f, n, Tail(q), v, Q, A, S, Y, L, k)
  <2>1. IsSeq(q) /\ Len(q) > 0
    BY <1>2, <1>5
  <2>2. PICK t : t = o.dst
    OBVIOUS
  <2>3. PICK z : z = [block |-> o.block, half |-> o.half, k |-> came]
    OBVIOUS
  <2>4. t \in DOMAIN Q /\ Q[t] = z /\ \A r : r # t /\ r \in DOMAIN R => r \in DOMAIN Q /\ Q[r] = R[r]
    BY <1>9, <2>2, <2>3, Writing
  <2>5. t \in Frags /\ Head(q) = o /\ o.op = "ds_load"
    BY <1>8, <1>11, <2>2
  <2>6. PiecesStay(R, Q)
    BY <2>4, <2>5, RegistersDiffer DEF PiecesStay
  <2>7. TempFollows(q, R, S, Q)
    BY <2>4, <2>5, RegistersDiffer DEF TempFollows
  <2>8. SlotsFollow(s, q, S, S)
    BY <2>5 DEF SlotsFollow, SwapsOut
  <2>9. PutsFollow(s, b, w, f + n, q, L, L)
    BY <2>5 DEF PutsFollow
  <2>10. FragsFollow(s, b, f + n - s.tile_k, q, R, Q)
    <3>1. PICK g : g = f + n - s.tile_k
      OBVIOUS
    <3>2. \A p \in Frags : ~Loads(o, p) /\ p \in DOMAIN R => p \in DOMAIN Q /\ Q[p] = R[p]
      BY <2>2, <2>4, <2>5 DEF Loads
    <3>3. \A p \in Frags : \A half, block, ks : Loads(o, p) /\ Fetches(s, o, LoadBufs(b), half, block, ks)
                => p \in DOMAIN Q /\ Q[p] = FragOf(block, half, g + 16 * ks)
      <4> SUFFICES ASSUME NEW p \in Frags, NEW half, NEW block, NEW ks, Loads(o, p),
                          Fetches(s, o, LoadBufs(b), half, block, ks)
                   PROVE  p \in DOMAIN Q /\ Q[p] = FragOf(block, half, g + 16 * ks)
        OBVIOUS
      <4>1. p = t
        BY <2>2 DEF Loads
      <4>2. o.buf \in LoadBufs(b) /\ InTile(s, o.mat, o.block) /\ o.block = block /\ o.half = half /\ o.ks = ks
        BY DEF Fetches
      <4>3. z = FragOf(o.block, o.half, g + 16 * o.ks)
        BY <1>12, <2>3, <3>1, <4>2
      <4>4. z = FragOf(block, half, g + 16 * ks)
        BY <4>2, <4>3
      <4>5. QED
        BY <2>4, <4>1, <4>4
    <3>4. QED
      BY <2>5, <3>1, <3>2, <3>3 DEF FragsFollow
  <2>11. QED
    BY <1>7, <2>1, <2>6, <2>7, <2>8, <2>9, <2>10, KnowsTail
<1>14. KnowsIn(Spc, at[w].block, FALSE, w, First, kIter[w], Tail(lgkm[w]), vm[w], Q, acc[w], S,
               y[w], lds, Knowledge(w))
  BY <1>4, <1>5, <1>6, <1>13
<1>15. S = slot'[w] /\ DOMAIN slot' = Waves /\ DOMAIN slot'[w] = DOMAIN slot[w] /\ \A u \in Waves : u # w => slot'[u] = slot[u]
  BY <1>1, <1>3, <1>5
<1>16. QED
  BY <1>1, <1>10, <1>14, <1>15, LandingRight

\* A wave goes on to the block that computes from the buffer it filled.
LEMMA NextComputes ==
  /\ \A b \in Main : \A more : LoadBufs(Successor(b, more)) = StoreBufs(b)
  /\ \A b : b \notin Main => StoreBufs(b) = {}
  /\ \A b \in Main : \A u, v : u \in StoreBufs(b) /\ v \in StoreBufs(b) => u = v /\ u \in {0, 1}
<1>1. \A b \in Main : \A more : LoadBufs(Successor(b, more)) = StoreBufs(b)
  <2>1. \A more : Successor("prologue", more) \in {"A", "epilogA"} /\ Successor("B", more) \in {"A", "epilogA"}
                  /\ Successor("A", more) \in {"B", "epilogB"}
    BY DEF Successor
  <2>2. /\ StoreBufs("prologue") = {0} /\ StoreBufs("B") = {0} /\ StoreBufs("A") = {1}
        /\ LoadBufs("A") = {0} /\ LoadBufs("epilogA") = {0} /\ LoadBufs("B") = {1} /\ LoadBufs("epilogB") = {1}
    BY DEF StoreBufs, LoadBufs
  <2>3. QED
    BY <2>1, <2>2 DEF Main
<1>2. QED
  BY <1>1 DEF StoreBufs, Main

\* While a store is outstanding, every wave is in the same block, or still behind the
\* barrier in front of it.
LEMMA StoringWaves ==
  ASSUME InStep, NEW w \in Waves, NEW q, q = lgkm[w], Len(q) > 0, NEW o, o = q[1], o.op = "ds_store"
  PROVE  /\ at[w].block \in Main /\ o.buf \in StoreBufs(at[w].block)
         /\ \A v \in Waves : /\ ~Ended(v) /\ at[v].block \in Main
                             /\ Passed(v) => o.buf \notin StoreBufs(at[v].block)
                             /\ ~Passed(v) => /\ at[v].block = at[w].block /\ kIter[v] = kIter[w]
                                              /\ o.buf \notin LoadBufs(at[v].block)
<1>1. PICK n \in Main \cup Epilogs : \E K : \A v \in Waves : Placed(v, n, K)
  BY DEF InStep
<1>2. PICK K : \A v \in Waves : Placed(v, n, K)
  BY <1>1
<1>3. IsSeq(q) /\ 1 \in 1..Len(q) /\ q # << >>
  <2>1. IsSeq(q)
    BY DEF InStep
  <2>2. Len(q) \in Nat
    BY <2>1, EmptyOrNot
  <2>3. 1 \in 1..Len(q)
    BY <2>2
  <2>4. Len(<< >>) = 0
    OBVIOUS
  <2>5. q # << >>
    BY <2>4
  <2>6. QED
    BY <2>1, <2>3, <2>5
<1>4. ~Coming(w, n, K)
  BY <1>3 DEF Coming
<1>5. ~Leaving(w, n)
  BY <1>3 DEF Leaving
<1>6. Inside(w, n, K)
  BY <1>2, <1>4, <1>5 DEF Placed
<1>7. at[w].block = n /\ kIter[w] = K /\ n \in Main /\ o.buf \in StoreBufs(n)
  <2>1. Entry(o, w, n)
    BY <1>3, <1>6 DEF Inside, InFlight
  <2>2. QED
    BY <1>6, <2>1 DEF Inside, Entry
<1>8. o.buf \notin LoadBufs(n)
  BY <1>7, BuffersDiffer
<1>9. ASSUME NEW v \in Waves
      PROVE  /\ ~Ended(v) /\ at[v].block \in Main
             /\ Passed(v) => o.buf \notin StoreBufs(at[v].block)
             /\ ~Passed(v) => at[v].block = n /\ kIter[v] = K
  <2>1. PICK b, i, l : b = at[v].block /\ i = at[v].i /\ l = Len(code[at[v].block])
    OBVIOUS
  <2>2. ~Leaving(v, n)
    BY <1>7 DEF Leaving, Main, Epilogs
  <2>3. CASE Inside(v, n, K)
    <3>1. b = n /\ kIter[v] = K /\ i \in 1..(l - 1)
      BY <2>1, <2>3 DEF Inside
    <3>2. l \in Nat
      <4>1. Ordered(code[n], LoadBufs(n), StoreBufs(n))
        BY <1>7 DEF InStep, Phased
      <4>2. QED
        BY <2>1, <3>1, <4>1, OrderedParts
    <3>3. ~(i >= l)
      BY <3>1, <3>2
    <3>4. ~Passed(v)
      BY <2>1, <3>3 DEF Passed
    <3>5. ~Ended(v)
      BY <1>7, <2>1, <3>1 DEF Ended, Main
    <3>6. QED
      BY <1>7, <2>1, <3>1, <3>4, <3>5
  <2>4. CASE Coming(v, n, K)
    <3>1. b \in Main /\ n = Successor(b, More(K)) /\ (i = l \/ i = l + 1)
      BY <2>1, <2>4 DEF Coming
    <3>2. l \in Nat
      <4>1. Ordered(code[b], LoadBufs(b), StoreBufs(b))
        BY <3>1 DEF InStep, Phased
      <4>2. QED
        BY <2>1, <4>1, OrderedParts
    <3>3. i >= l
      BY <3>1, <3>2
    <3>4. Passed(v)
      BY <2>1, <3>1, <3>3 DEF Passed
    <3>5. LoadBufs(n) = StoreBufs(b)
      BY <3>1, NextComputes
    <3>6. ~Ended(v)
      BY <2>1, <3>1 DEF Ended, Main
    <3>7. QED
      BY <1>8, <2>1, <3>1, <3>4, <3>5, <3>6
  <2>5. QED
    BY <1>2, <2>2, <2>3, <2>4 DEF Placed
<1>10. QED
  BY <1>7, <1>8, <1>9

\* Shared memory after a store of value at one place.
LEMMA StoredAt ==
  ASSUME NEW s, NEW L, DOMAIN L = {0, 1}, \A u \in {0, 1} : DOMAIN L[u] = {"X", "WT"},
         \A u \in {0, 1} : \A mat \in {"X", "WT"} : DOMAIN L[u][mat] = Slices(s, mat),
         NEW a \in {0, 1}, NEW m \in {"X", "WT"}, NEW g, NEW z, NEW M, M = [L EXCEPT ![a][m][g] = z]
  PROVE  /\ DOMAIN M = {0, 1} /\ \A u \in {0, 1} : DOMAIN M[u] = {"X", "WT"}
         /\ \A u \in {0, 1} : \A mat \in {"X", "WT"} : DOMAIN M[u][mat] = Slices(s, mat)
         /\ \A u \in {0, 1} : \A mat \in {"X", "WT"} : \A h \in Slices(s, mat) :
              IF u = a /\ mat = m /\ h = g THEN M[u][mat][h] = z ELSE M[u][mat][h] = L[u][mat][h]
<1>1. PICK E : E = [L[a] EXCEPT ![m][g] = z]
  OBVIOUS
<1>2. PICK F : F = [L[a][m] EXCEPT ![g] = z]
  OBVIOUS
<1>3. M = [L EXCEPT ![a] = E] /\ E = [L[a] EXCEPT ![m] = F]
  BY <1>1, <1>2
<1>4. DOMAIN M = {0, 1} /\ M[a] = E /\ \A u \in {0, 1} : u # a => M[u] = L[u]
  BY <1>3
<1>5. DOMAIN L[a] = {"X", "WT"}
  OBVIOUS
<1>6. DOMAIN E = {"X", "WT"} /\ E[m] = F /\ \A mat \in {"X", "WT"} : mat # m => E[mat] = L[a][mat]
  BY <1>3, <1>5
<1>7. DOMAIN L[a][m] = Slices(s, m)
  OBVIOUS
<1>8. DOMAIN F = Slices(s, m) /\ \A h \in Slices(s, m) : IF h = g THEN F[h] = z ELSE F[h] = L[a][m][h]
  BY <1>2, <1>7
<1>9. \A u \in {0, 1} : DOMAIN M[u] = {"X", "WT"}
  BY <1>4, <1>6
<1>10. ASSUME NEW u \in {0, 1}, NEW mat \in {"X", "WT"}
       PROVE  /\ DOMAIN M[u][mat] = Slices(s, mat)
              /\ \A h \in Slices(s, mat) :
                   IF u = a /\ mat = m /\ h = g THEN M[u][mat][h] = z ELSE M[u][mat][h] = L[u][mat][h]
  <2>1. CASE u # a
    BY <1>4, <2>1
  <2>2. CASE u = a /\ mat # m
    BY <1>4, <1>6, <2>2
  <2>3. CASE u = a /\ mat = m
    BY <1>4, <1>6, <1>8, <2>3
  <2>4. QED
    BY <2>1, <2>2, <2>3
<1>11. QED
  BY <1>4, <1>9, <1>10

\* M is the shared memory L after a store of z in slice g of tile m of buffer a.
StoredTo(s, L, M, a, m, g, z) ==
    \A u \in {0, 1} : \A mat \in {"X", "WT"} : \A h \in Slices(s, mat) :
        IF u = a /\ mat = m /\ h = g THEN M[u][mat][h] = z ELSE M[u][mat][h] = L[u][mat][h]

\* A store to the other buffer leaves a full one full.
LEMMA FullStays ==
  ASSUME NEW s, NEW L, NEW M, NEW a, NEW m, NEW g, NEW z, StoredTo(s, L, M, a, m, g, z),
         NEW bufs, bufs \subseteq {0, 1}, a \notin bufs, NEW n, FullIn(L, s, bufs, n)
  PROVE  FullIn(M, s, bufs, n)
<1> SUFFICES ASSUME NEW u \in bufs, NEW mat \in {"X", "WT"}, NEW h \in Slices(s, mat)
             PROVE  M[u][mat][h] = n
  BY DEF FullIn
<1>1. u \in {0, 1} /\ u # a
  OBVIOUS
<1>2. L[u][mat][h] = n
  BY DEF FullIn
<1>3. M[u][mat][h] = L[u][mat][h]
  BY <1>1 DEF StoredTo
<1>4. QED
  BY <1>2, <1>3

\* The place of a piece in its tile.
LEMMA PieceSlice ==
  ASSUME NEW s, NWaves(s) \in Nat, LoadsPerThread(s, "X") \in Nat, LoadsPerThread(s, "WT") \in Nat,
         NEW w \in 0..(NWaves(s) - 1), NEW p \in Pieces, p[2] < LoadsPerThread(s, p[1])
  PROVE  p[1] \in {"X", "WT"} /\ p[2] * NWaves(s) + w \in Slices(s, p[1])
<1>1. PICK mat \in {"X", "WT"} : \E i \in Nat : p = <<mat, i>>
  BY DEF Pieces
<1>2. PICK i \in Nat : p = <<mat, i>>
  BY <1>1
<1>3. p[1] = mat /\ p[2] = i
  BY <1>2
<1>4. PICK k \in Nat, l \in Nat : k = NWaves(s) /\ l = LoadsPerThread(s, mat)
  BY <1>1
<1>5. i < l /\ w \in 0..(k - 1)
  BY <1>3, <1>4
<1>6. PICK h : h = i * k + w
  OBVIOUS
<1>7. h \in 0..(l * k - 1)
  BY <1>5, <1>6, Placing
<1>8. h \in Slices(s, mat)
  BY <1>4, <1>7 DEF Slices
<1>9. h = p[2] * NWaves(s) + w
  BY <1>3, <1>4, <1>6
<1>10. QED
  BY <1>3, <1>8, <1>9

\* A store of the tile being stored leaves what was stored of it.
LEMMA PutsStay ==
  ASSUME NEW s, NEW L, NEW M, NEW a \in {0, 1}, NEW m, NEW g, NEW z, StoredTo(s, L, M, a, m, g, z),
         NWaves(s) \in Nat, LoadsPerThread(s, "X") \in Nat, LoadsPerThread(s, "WT") \in Nat,
         NEW w \in 0..(NWaves(s) - 1), NEW p \in Pieces, p[2] < LoadsPerThread(s, p[1]),
         NEW bufs, \A u \in bufs : u = a
  PROVE  (\A u \in bufs : L[u][p[1]][p[2] * NWaves(s) + w] = z) =>
              \A u \in bufs : M[u][p[1]][p[2] * NWaves(s) + w] = z
<1>1. PICK mat, h : mat = p[1] /\ h = p[2] * NWaves(s) + w
  OBVIOUS
<1>2. mat \in {"X", "WT"} /\ h \in Slices(s, mat)
  BY <1>1, PieceSlice
<1>3. L[a][mat][h] = z => M[a][mat][h] = z
  BY <1>2 DEF StoredTo
<1>4. (\A u \in bufs : L[u][mat][h] = z) => \A u \in bufs : M[u][mat][h] = z
  BY <1>3
<1>5. QED
  BY <1>1, <1>4

\* What a wave knows, when another one's store of the same tile lands.
LEMMA KnowsStore ==
  ASSUME NEW s, NEW L, NEW M, NEW a \in {0, 1}, NEW m, NEW g, NEW z, StoredTo(s, L, M, a, m, g, z),
         NWaves(s) \in Nat, LoadsPerThread(s, "X") \in Nat, LoadsPerThread(s, "WT") \in Nat,
         NEW w \in 0..(NWaves(s) - 1), NEW b, NEW e, \A u \in StoreBufs(b) : u = a,
         NEW f, NEW n, e \/ z = f + n,
         NEW q, NEW v, NEW R, NEW A, NEW S, NEW Y, NEW k, KnowsIn(s, b, e, w, f, n, q, v, R, A, S, Y, L, k)
  PROVE  KnowsIn(s, b, e, w, f, n, q, v, R, A, S, Y, M, k)
<1>1. e \/ \A p \in Pieces : p[2] < LoadsPerThread(s, p[1]) =>
                \/ \E u \in StoreBufs(b) : L[u][p[1]][p[2] * NWaves(s) + w] # f + n
                \/ \A u \in StoreBufs(b) : M[u][p[1]][p[2] * NWaves(s) + w] = f + n
  <2> SUFFICES ASSUME ~e, NEW p \in Pieces, p[2] < LoadsPerThread(s, p[1])
               PROVE  \/ \E u \in StoreBufs(b) : L[u][p[1]][p[2] * NWaves(s) + w] # f + n
                      \/ \A u \in StoreBufs(b) : M[u][p[1]][p[2] * NWaves(s) + w] = f + n
    OBVIOUS
  <2>1. PICK bufs : bufs = StoreBufs(b)
    OBVIOUS
  <2>2. \A u \in bufs : u = a
    BY <2>1
  <2>3. (\A u \in bufs : L[u][p[1]][p[2] * NWaves(s) + w] = z) =>
              \A u \in bufs : M[u][p[1]][p[2] * NWaves(s) + w] = z
    BY <2>2, PutsStay
  <2>4. z = f + n
    OBVIOUS
  <2>5. QED
    BY <2>1, <2>3, <2>4
<1>2. QED
  BY <1>1, KnowsOther

\* A wave beside a store that lands: what it computes from stays, and what it knows.
LEMMA BesideStore ==
  ASSUME InStep, \A p \in Problems : Whole(p), Summing, UNCHANGED <<problem, code, part, at, kIter, kOff>>,
         NEW a \in {0, 1}, NEW m, NEW g, NEW z, NEW M, M = lds', StoredTo(Spc, lds, M, a, m, g, z),
         NEW u \in Waves, ~Ended(u), at[u].block \in Main,
         Passed(u) => a \notin StoreBufs(at[u].block), ~Passed(u) => a \notin LoadBufs(at[u].block)
  PROVE  /\ Counted(u)' /\ Filled(u)'
         /\ (~Passed(u) => z = First + kIter[u] /\ a \in StoreBufs(at[u].block)) =>
              \A k : Knows(u, k) => KnowsIn(Spc, at[u].block, Passed(u), u, First, kIter[u], lgkm[u], vm[u], reg[u],
                                            acc[u], slot[u], y[u], M, k)
<1>1. Spc' = Spc /\ First' = First /\ KEnd(Spc, problem.args.k)' = KEnd(Spc, problem.args.k)
  BY KernelStays
<1>2. Counted(u) /\ Filled(u)
  BY DEF Summing, Right
<1>3. (Passed(u)' <=> Passed(u)) /\ (Opening(u)' <=> Opening(u))
  BY DEF Passed, Opening
<1>4. Counted(u)'
  BY <1>1, <1>2, <1>3 DEF Counted
<1>5. PICK s, L, b, f, n : s = Spc /\ L = lds /\ b = at[u].block /\ f = First /\ n = kIter[u]
  OBVIOUS
<1>6. StoredTo(s, L, M, a, m, g, z)
  BY <1>5
<1>7. LoadBufs(b) \subseteq {0, 1} /\ StoreBufs(b) \subseteq {0, 1}
  BY DEF LoadBufs, StoreBufs
<1>8. Filled(u)'
  <2>1. CASE Passed(u)
    <3>1. PICK c : c = First + kIter[u] - IF at[u].i = Len(code[at[u].block]) THEN 0 ELSE Spc.tile_k
      OBVIOUS
    <3>2. FullIn(L, s, StoreBufs(b), c) /\ a \notin StoreBufs(b)
      BY <1>2, <1>5, <2>1, <3>1 DEF Filled
    <3>3. FullIn(M, s, StoreBufs(b), c)
      BY <1>6, <1>7, <3>2, FullStays
    <3>4. QED
      BY <1>1, <1>3, <1>5, <2>1, <3>1, <3>3 DEF Filled
  <2>2. CASE ~Passed(u)
    <3>1. PICK c : c = Current(u)
      OBVIOUS
    <3>2. FullIn(L, s, LoadBufs(b), c) /\ a \notin LoadBufs(b)
      BY <1>2, <1>5, <2>2, <3>1 DEF Filled
    <3>3. FullIn(M, s, LoadBufs(b), c)
      BY <1>6, <1>7, <3>2, FullStays
    <3>4. Current(u)' = Current(u)
      BY <1>1 DEF Current
    <3>5. QED
      BY <1>1, <1>3, <1>5, <2>2, <3>1, <3>3, <3>4 DEF Filled
  <2>3. QED
    BY <2>1, <2>2
<1>9. ASSUME ~Passed(u) => z = First + kIter[u] /\ a \in StoreBufs(at[u].block), NEW k, Knows(u, k)
      PROVE  KnowsIn(Spc, at[u].block, Passed(u), u, First, kIter[u], lgkm[u], vm[u], reg[u], acc[u], slot[u], y[u], M, k)
  <2>1. PICK q, v, R, A, S, Y : q = lgkm[u] /\ v = vm[u] /\ R = reg[u] /\ A = acc[u] /\ S = slot[u] /\ Y = y[u]
    OBVIOUS
  <2>2. NWaves(s) \in Nat /\ LoadsPerThread(s, "X") \in Nat /\ LoadsPerThread(s, "WT") \in Nat
        /\ u \in 0..(NWaves(s) - 1)
    <3>1. part \in Nat
      BY DEF Summing, Shaped
    <3>2. QED
      BY <1>5, <3>1, Numbers DEF Waves
  <2>3. CASE Passed(u)
    <3>1. KnowsIn(s, b, TRUE, u, f, n, q, v, R, A, S, Y, L, k)
      BY <1>5, <1>9, <2>1, <2>3 DEF Knows, KnowsIn
    <3>2. KnowsIn(s, b, TRUE, u, f, n, q, v, R, A, S, Y, M, k)
      BY <3>1, KnowsOther
    <3>3. QED
      BY <1>5, <2>1, <2>3, <3>2 DEF KnowsIn
  <2>4. CASE ~Passed(u)
    <3>1. KnowsIn(s, b, FALSE, u, f, n, q, v, R, A, S, Y, L, k)
      BY <1>5, <1>9, <2>1, <2>4 DEF Knows, KnowsIn
    <3>2. z = f + n /\ \A t \in StoreBufs(b) : t = a
      BY <1>5, <1>9, <2>4, NextComputes
    <3>3. KnowsIn(s, b, FALSE, u, f, n, q, v, R, A, S, Y, M, k)
      BY <1>6, <2>2, <3>1, <3>2, KnowsStore
    <3>4. QED
      BY <1>5, <2>1, <2>4, <3>3 DEF KnowsIn
  <2>5. QED
    BY <2>3, <2>4
<1>10. QED
  BY <1>4, <1>8, <1>9

\* A piece of the next tile reaches shared memory.
LEMMA DsStoreRight ==
  ASSUME InStep, Tracked, Summing, \A p \in Problems : Whole(p), NEW w \in Waves, DsStoreLands(w)
  PROVE  Summing'
<1>1. /\ LdsLands(w, "ds_store") /\ UNCHANGED <<reg, slot>>
      /\ lds' = [lds EXCEPT ![Head(lgkm[w]).buf][Head(lgkm[w]).src[1]][Head(lgkm[w]).slice] = Head(lgkm[w]).value]
  BY DEF DsStoreLands
<1>2. /\ ~Passed(w) /\ ~Ended(w)
      /\ IsSeq(lgkm[w]) /\ Len(lgkm[w]) > 0 /\ Head(lgkm[w]).op = "ds_store"
      /\ lgkm'[w] = Tail(lgkm[w]) /\ \A u \in Waves : u # w => lgkm'[u] = lgkm[u]
      /\ UNCHANGED <<problem, code, part, at, kIter, kOff, vm, acc, y>>
      /\ KnowsIn(Spc, at[w].block, FALSE, w, First, kIter[w], lgkm[w], vm[w], reg[w], acc[w], slot[w],
                    y[w], lds, Knowledge(w))
      /\ OpsIn(lgkm[w], Spc, w, First + kIter[w]) /\ LoadsIn(vm[w])
  BY <1>1, LandingHere
<1>3. PICK b : b = at[w].block
  OBVIOUS
<1>4. PICK s, f, n, q, v, R, A, S, Y, L : /\ s = Spc /\ f = First /\ n = kIter[w] /\ q = lgkm[w] /\ v = vm[w]
        /\ R = reg[w] /\ A = acc[w] /\ S = slot[w] /\ Y = y[w] /\ L = lds
  OBVIOUS
<1>5. PICK k : k = Knowledge(w)
  OBVIOUS
<1>6. KnowsIn(s, b, FALSE, w, f, n, q, v, R, A, S, Y, L, k)
  BY <1>2, <1>3, <1>4, <1>5
<1>7. PICK o : o = Head(q)
  OBVIOUS
<1>8. IsSeq(q) /\ Len(q) > 0 /\ q[1] = o
  <2>1. IsSeq(q) /\ Len(q) > 0
    BY <1>2, <1>4
  <2>2. Head(q) = q[1]
    BY <2>1, TailParts
  <2>3. QED
    BY <1>7, <2>1, <2>2
<1>9. o.op = "ds_store" /\ o.src \in Pieces /\ o.value = f + n /\ o.slice = o.src[2] * NWaves(s) + w
  <2>1. OpsIn(q, s, w, f + n) /\ Head(q).op = "ds_store"
    BY <1>2, <1>4
  <2>2. QED
    BY <1>7, <1>8, <2>1, OpsTail
<1>10. PICK a, m, g, z : a = o.buf /\ m = o.src[1] /\ g = o.slice /\ z = o.value
  OBVIOUS
<1>11. /\ b \in Main /\ a \in StoreBufs(b)
       /\ \A u \in Waves : /\ ~Ended(u) /\ at[u].block \in Main
                           /\ Passed(u) => a \notin StoreBufs(at[u].block)
                           /\ ~Passed(u) => /\ at[u].block = b /\ kIter[u] = n
                                            /\ a \notin LoadBufs(at[u].block)
  BY <1>3, <1>4, <1>8, <1>9, <1>10, StoringWaves
<1>12. a \in {0, 1} /\ \A t \in StoreBufs(b) : t = a
  BY <1>11, NextComputes
<1>13. m \in {"X", "WT"}
  BY <1>9, <1>10 DEF Pieces
<1>14. PICK M : M = [L EXCEPT ![a][m][g] = z]
  OBVIOUS
<1>15. M = lds'
  BY <1>1, <1>4, <1>7, <1>10, <1>14
<1>16. /\ DOMAIN M = {0, 1} /\ (\A u \in {0, 1} : DOMAIN M[u] = {"X", "WT"})
       /\ (\A u \in {0, 1} : \A mat \in {"X", "WT"} : DOMAIN M[u][mat] = Slices(s, mat))
       /\ StoredTo(s, L, M, a, m, g, z)
  <2>1. /\ DOMAIN L = {0, 1} /\ (\A u \in {0, 1} : DOMAIN L[u] = {"X", "WT"})
        /\ \A u \in {0, 1} : \A mat \in {"X", "WT"} : DOMAIN L[u][mat] = Slices(s, mat)
    BY <1>4 DEF Summing, Shaped
  <2>2. /\ DOMAIN M = {0, 1} /\ (\A u \in {0, 1} : DOMAIN M[u] = {"X", "WT"})
        /\ (\A u \in {0, 1} : \A mat \in {"X", "WT"} : DOMAIN M[u][mat] = Slices(s, mat))
        /\ \A u \in {0, 1} : \A mat \in {"X", "WT"} : \A h \in Slices(s, mat) :
              IF u = a /\ mat = m /\ h = g THEN M[u][mat][h] = z ELSE M[u][mat][h] = L[u][mat][h]
    BY <1>12, <1>13, <1>14, <2>1, StoredAt
  <2>3. QED
    BY <2>2 DEF StoredTo
<1>17. Spc' = Spc /\ First' = First /\ Waves' = Waves
  BY <1>2, KernelStays
<1>18. \A u \in Waves : /\ Counted(u)' /\ Filled(u)'
                        /\ \A l : Knows(u, l) => KnowsIn(Spc, at[u].block, Passed(u), u, First, kIter[u], lgkm[u],
                              vm[u], reg[u], acc[u], slot[u], y[u], M, l)
  <2> SUFFICES ASSUME NEW u \in Waves
               PROVE  /\ Counted(u)' /\ Filled(u)'
                      /\ \A l : Knows(u, l) => KnowsIn(Spc, at[u].block, Passed(u), u, First, kIter[u], lgkm[u],
                              vm[u], reg[u], acc[u], slot[u], y[u], M, l)
    OBVIOUS
  <2>1. StoredTo(Spc, lds, M, a, m, g, z)
    BY <1>4, <1>16
  <2>2. ~Passed(u) => z = First + kIter[u] /\ a \in StoreBufs(at[u].block)
    BY <1>4, <1>9, <1>10, <1>11
  <2>3. /\ ~Ended(u) /\ at[u].block \in Main
        /\ Passed(u) => a \notin StoreBufs(at[u].block)
        /\ ~Passed(u) => a \notin LoadBufs(at[u].block)
    BY <1>11
  <2>4. UNCHANGED <<problem, code, part, at, kIter, kOff>>
    BY <1>2
  <2>5. QED
    BY <1>12, <1>15, <2>1, <2>2, <2>3, <2>4, BesideStore
<1>19. Learned(w)'
  <2>1. PiecesStay(R, R) /\ TempFollows(q, R, S, R)
    BY <1>7, <1>9 DEF PiecesStay, TempFollows
  <2>2. FragsFollow(s, b, f + n - s.tile_k, q, R, R)
    BY <1>7, <1>9 DEF FragsFollow, Loads
  <2>3. SlotsFollow(s, q, S, S)
    BY <1>7, <1>9 DEF SlotsFollow, SwapsOut
  <2>4. PutsFollow(s, b, w, z, q, L, M)
    <3>1. NWaves(s) \in Nat /\ LoadsPerThread(s, "X") \in Nat /\ LoadsPerThread(s, "WT") \in Nat
          /\ w \in 0..(NWaves(s) - 1)
      <4>1. part \in Nat
        BY DEF Summing, Shaped
      <4>2. QED
        BY <1>4, <4>1, Numbers DEF Waves
    <3>2. PICK bufs : bufs = StoreBufs(b)
      OBVIOUS
    <3>3. \A u \in bufs : u = a
      BY <1>12, <3>2
    <3>4. ASSUME NEW p \in Pieces, p[2] < LoadsPerThread(s, p[1])
          PROVE  /\ Head(q).op = "ds_store" /\ Head(q).src = p =>
                      \A u \in bufs : M[u][p[1]][p[2] * NWaves(s) + w] = z
                 /\ (\A u \in bufs : L[u][p[1]][p[2] * NWaves(s) + w] = z) =>
                      \A u \in bufs : M[u][p[1]][p[2] * NWaves(s) + w] = z
      <4>1. StoredTo(s, L, M, a, m, g, z) /\ a \in {0, 1}
        BY <1>12, <1>16
      <4>2. p \in Pieces /\ p[2] < LoadsPerThread(s, p[1])
        BY <3>4
      <4>3. PICK mat, h : mat = p[1] /\ h = p[2] * NWaves(s) + w
        OBVIOUS
      <4>4. (\A u \in bufs : L[u][p[1]][p[2] * NWaves(s) + w] = z) =>
               \A u \in bufs : M[u][p[1]][p[2] * NWaves(s) + w] = z
        BY ONLY <3>1, <3>3, <4>1, <4>2, PutsStay
      <4>5. m = mat /\ g = h => \A u \in bufs : M[u][mat][h] = z
        <5>1. p[1] \in {"X", "WT"} /\ p[2] * NWaves(s) + w \in Slices(s, p[1])
          BY ONLY <3>1, <4>2, PieceSlice
        <5>2. mat \in {"X", "WT"} /\ h \in Slices(s, mat)
          BY <4>3, <5>1
        <5>3. m = mat /\ g = h => M[a][mat][h] = z
          BY <4>1, <5>2 DEF StoredTo
        <5>4. QED
          BY <3>3, <5>3
      <4>6. Head(q).src = p => m = mat /\ g = h
        BY <1>7, <1>9, <1>10, <4>3
      <4>7. QED
        BY <4>3, <4>4, <4>5, <4>6
    <3>5. QED
      BY <3>2, <3>4 DEF PutsFollow
  <2>5. z = f + n
    BY <1>9, <1>10
  <2>6. KnowsIn(s, b, FALSE, w, f, n, Tail(q), v, R, A, S, Y, M, k)
    <3>1. PutsFollow(s, b, w, f + n, q, L, M)
      BY <2>4, <2>5
    <3>2. QED
      BY <1>6, <1>8, <2>1, <2>2, <2>3, <3>1, KnowsTail
  <2>7. PICK t : t = Tail(q)
    OBVIOUS
  <2>8. KnowsIn(s, b, FALSE, w, f, n, t, v, R, A, S, Y, M, Knowledge(w))
    BY <1>5, <2>6, <2>7
  <2>9. /\ t = lgkm'[w] /\ v = vm'[w] /\ R = reg'[w] /\ A = acc'[w] /\ S = slot'[w] /\ Y = y'[w]
        /\ n = kIter'[w] /\ at' = at /\ UNCHANGED <<problem, code, part>>
    BY <1>1, <1>2, <1>4, <2>7
  <2>10. QED
    BY <1>2, <1>3, <1>4, <1>15, <2>8, <2>9, StayLearned
<1>20. ASSUME NEW u \in Waves, u # w PROVE Learned(u)'
  <2>1. ~Ended(u) /\ ~Ended(u)'
    BY <1>2, <1>11 DEF Ended
  <2>2. Knows(u, Knowledge(u)) /\ (Opening(u) => Knowledge(u).done = All(Spc))
    BY <2>1 DEF Summing, Right, Learned
  <2>3. (Passed(u)' <=> Passed(u)) /\ (Opening(u)' <=> Opening(u)) /\ Knowledge(u)' = Knowledge(u)
    BY <1>2, <1>17 DEF Passed, Opening, Knowledge
  <2>4. PICK l : l = Knowledge(u)
    OBVIOUS
  <2>5. KnowsIn(Spc, at[u].block, Passed(u), u, First, kIter[u], lgkm[u], vm[u], reg[u], acc[u], slot[u], y[u], M, l)
    BY <1>18, <2>2, <2>4
  <2>6. Knows(u, l)'
    BY <1>1, <1>2, <1>15, <1>17, <1>20, <2>3, <2>5 DEF Knows, KnowsIn
  <2>7. Opening(u)' => l.done = All(Spc)'
    BY <1>17, <2>2, <2>3, <2>4
  <2>8. QED
    BY <2>1, <2>3, <2>4, <2>6, <2>7 DEF Learned
<1>21. ASSUME NEW u \in Waves PROVE Queues(u)'
  <2>1. Queues(u)
    BY DEF Summing, Right
  <2>2. CASE u # w
    BY <1>2, <1>17, <2>1, <2>2 DEF Queues
  <2>3. CASE u = w
    <3>1. OpsIn(q, s, w, f + n)
      BY <1>2, <1>4
    <3>2. OpsIn(Tail(q), s, w, f + n)
      BY <1>8, <3>1, OpsTail
    <3>3. PICK t : t = Tail(q)
      OBVIOUS
    <3>4. t = lgkm'[w] /\ kIter'[w] = n /\ vm'[w] = vm[w]
      BY <1>2, <1>4, <3>3
    <3>5. OpsIn(lgkm'[w], s, w, f + kIter'[w])
      BY <3>2, <3>3, <3>4
    <3>6. QED
      BY <1>2, <1>4, <1>17, <2>1, <2>3, <3>4, <3>5 DEF Queues
  <2>4. QED
    BY <2>2, <2>3
<1>22. \A u \in Waves : Right(u)'
  BY <1>18, <1>19, <1>20, <1>21 DEF Right
<1>23. Shaped'
  BY <1>1, <1>2, <1>4, <1>15, <1>16, <1>17 DEF Summing, Shaped
<1>24. \A c \in WorkBlocks : Leads(Spc, code[c], Start(Spc, c), End(Spc, c))'
  BY <1>2, <1>17 DEF Summing
<1>25. QED
  BY <1>17, <1>22, <1>23, <1>24 DEF Summing

-----------------------------------------------------------------------------
\* The next tile, the next block, and the barrier.

\* From one multiple of t to the next, no further than another one.
LEMMA NextMultiple ==
  ASSUME NEW t \in Nat \ {0}, NEW n \in Nat, NEW e \in Nat, n % t = 0, e % t = 0, n < e
  PROVE  n + t \in Nat /\ (n + t) % t = 0 /\ n + t <= e
<1>1. PICK c \in Nat, d \in Nat : c = n \div t /\ d = e \div t
  BY DivLemma
<1>2. n = t * c /\ e = t * d
  <2>1. n = t * (n \div t) + (n % t) /\ e = t * (e \div t) + (e % t)
    OBVIOUS
  <2>2. QED
    BY <1>1, <2>1
<1>3. c < d
  <2>1. ASSUME ~(c < d) PROVE FALSE
    <3>1. PICK m \in Nat : c = d + m
      BY <2>1
    <3>2. t * c = t * d + t * m
      BY <3>1
    <3>3. t * m \in Nat
      OBVIOUS
    <3>4. QED
      BY <1>2, <3>2, <3>3
  <2>2. QED
    BY <2>1
<1>4. PICK m \in Nat : d = c + 1 + m
  BY <1>3
<1>5. t * d = t * c + t + t * m /\ t * m \in Nat
  BY <1>4
<1>6. n + t <= e
  BY <1>2, <1>5
<1>7. (n + t) % t = 0
  <2>1. n + t = t * (c + 1) /\ c + 1 \in Nat
    BY <1>2
  <2>2. PICK k \in Nat : k = c + 1
    BY <2>1
  <2>3. (t * k) % t = 0
    OBVIOUS
  <2>4. QED
    BY <2>1, <2>2, <2>3
<1>8. QED
  BY <1>6, <1>7

\* A wave advances behind the barrier, at the end of its block.
LEMMA AdvanceHere ==
  ASSUME InStep, NEW w \in Waves, Ready(w, "advance")
  PROVE  /\ at[w].block \in Main /\ at[w].i = Len(code[at[w].block]) /\ Len(code[at[w].block]) \in Nat \ {0}
         /\ lgkm[w] = << >>
<1>1. PICK n \in Main \cup Epilogs : \E K : \A v \in Waves : Placed(v, n, K)
  BY DEF InStep
<1>2. PICK K : \A v \in Waves : Placed(v, n, K)
  BY <1>1
<1>3. Placed(w, n, K) /\ IsSeq(lgkm[w]) /\ at[w].i \in Nat \ {0}
  BY <1>2, Here
<1>5. /\ at[w].block # "end" /\ w \notin arrived
      /\ at[w].i <= Len(code[at[w].block]) /\ code[at[w].block][at[w].i].op = "advance"
  BY DEF Ready, Ended, Ins
<1>6. ~Inside(w, n, K)
  <2>1. CASE Inside(w, n, K)
    <3>1. n \in Main /\ at[w].block = n /\ at[w].i \in 1..(Len(code[n]) - 1)
      BY <2>1 DEF Inside
    <3>2. /\ Len(code[n]) \in Nat /\ code[n][Len(code[n]) - 1].op = "barrier"
          /\ \A i \in 1..Len(code[n]) - 2 : Allowed(code[n][i], LoadBufs(n), StoreBufs(n))
      BY <3>1, Here, OrderedParts
    <3>3. at[w].i = Len(code[n]) - 1 \/ at[w].i \in 1..Len(code[n]) - 2
      BY <3>1, <3>2
    <3>4. QED
      BY <1>5, <3>1, <3>2, <3>3 DEF Allowed
  <2>2. QED
    BY <2>1
<1>7. ~Leaving(w, n)
  <2>1. CASE Leaving(w, n)
    <3>1. at[w].block \in {n, "store"} /\ n \in Epilogs
      BY <1>5, <2>1 DEF Leaving
    <3>2. Good(code[at[w].block], LoadBufs(at[w].block), {})
      BY <3>1, Here
    <3>3. Len(code[at[w].block]) \in Nat
      BY <3>2, EmptyOrNot DEF Good
    <3>4. Allowed(code[at[w].block][at[w].i], LoadBufs(at[w].block), {})
      BY <1>3, <1>5, <3>2, <3>3 DEF Good
    <3>5. QED
      BY <1>5, <3>4 DEF Allowed
  <2>2. QED
    BY <2>1
<1>8. /\ at[w].block \in Main /\ lgkm[w] = << >>
      /\ at[w].i = Len(code[at[w].block]) \/ at[w].i = Len(code[at[w].block]) + 1
  BY <1>3, <1>6, <1>7 DEF Placed, Coming
<1>9. Len(code[at[w].block]) \in Nat \ {0}
  <2>1. Len(code[at[w].block]) \in Nat /\ Len(code[at[w].block]) >= 2
    BY <1>8, Here, OrderedParts
  <2>2. QED
    BY <2>1
<1>10. at[w].i = Len(code[at[w].block])
  BY <1>5, <1>8, <1>9
<1>11. QED
  BY <1>8, <1>9, <1>10

\* A wave advances to the next tile.
LEMMA AdvanceRight ==
  ASSUME InStep, Tracked, Summing, \A p \in Problems : Whole(p), NEW w \in Waves, AdvanceStep(w)
  PROVE  Summing'
<1>1. /\ Ready(w, "advance") /\ Step(w)
      /\ kOff' = [kOff EXCEPT ![w] = @ + Spc.tile_k]
      /\ kIter' = [kIter EXCEPT ![w] = @ + Spc.tile_k]
      /\ UNCHANGED <<problem, code, part, vm, lgkm, reg, acc, lds, slot, y>>
  BY DEF AdvanceStep, kernel
<1>2. PICK b, l : b = at[w].block /\ l = Len(code[b])
  OBVIOUS
<1>3. /\ b \in Main /\ at[w].i = l /\ l \in Nat \ {0} /\ lgkm[w] = << >>
  BY <1>1, <1>2, AdvanceHere
<1>4. at'[w].block = b /\ at'[w].i = l + 1 /\ \A u \in Waves : u # w => at'[u] = at[u]
  BY <1>1, <1>2, <1>3, StepMoves
<1>5. PICK s, f, n, e, t : s = Spc /\ f = First /\ n = kIter[w] /\ e = KEnd(Spc, problem.args.k) /\ t = Spc.tile_k
  OBVIOUS
<1>6. /\ t \in Nat \ {0} /\ t % 16 = 0 /\ e \in Nat \ {0} /\ e % t = 0 /\ f \in Nat
  <2>1. part \in Nat
    BY DEF Summing, Shaped
  <2>2. QED
    BY <1>5, <2>1, Numbers
<1>7. Counted(w) /\ Filled(w) /\ Queues(w) /\ Learned(w)
  BY DEF Summing, Right
<1>8. ~(at[w].i > Len(code[at[w].block]))
  <2>1. ~(l > l)
    BY <1>3
  <2>2. QED
    BY <1>2, <1>3, <2>1
<1>9. n \in Nat /\ n % t = 0 /\ n < e /\ kOff[w] = n + IF s.gen = "gemm_gen" THEN f ELSE 0
  BY <1>2, <1>3, <1>5, <1>7, <1>8 DEF Counted
<1>10. n + t \in Nat /\ (n + t) % t = 0 /\ n + t <= e /\ n + t >= t
  <2>1. n + t \in Nat /\ (n + t) % t = 0 /\ n + t <= e
    BY <1>6, <1>9, NextMultiple
  <2>2. QED
    BY <1>6, <1>9, <2>1
<1>11. /\ kIter'[w] = n + t /\ kOff'[w] = kOff[w] + t
       /\ \A u \in Waves : u # w => kIter'[u] = kIter[u] /\ kOff'[u] = kOff[u]
       /\ DOMAIN kOff' = Waves
  BY <1>1, <1>5 DEF InStep, Summing, Shaped
<1>12. Spc' = s /\ First' = f /\ KEnd(Spc, problem.args.k)' = e
  BY <1>1, <1>5, KernelStays
<1>13. l + 1 > l /\ l + 1 >= l /\ ~(l + 1 <= l) /\ l + 1 # l /\ l >= l
  BY <1>3
<1>14. Passed(w) /\ Passed(w)' /\ ~Opening(w)' /\ ~Ended(w) /\ ~Ended(w)'
  <2>1. b # "end"
    BY <1>3 DEF Main
  <2>2. ~Ended(w) /\ ~Ended(w)'
    BY <1>2, <1>4, <2>1 DEF Ended
  <2>3. Passed(w)
    BY <1>2, <1>3, <1>13 DEF Passed
  <2>4. Len(code'[at'[w].block]) = l
    BY <1>1, <1>2, <1>4
  <2>5. Passed(w)'
    BY <1>3, <1>4, <1>13, <2>4 DEF Passed
  <2>6. ~Opening(w)'
    BY <1>4, <1>13, <2>4 DEF Opening
  <2>7. QED
    BY <2>2, <2>3, <2>5, <2>6
<1>15. Counted(w)'
  <2>1. kOff'[w] = (n + t) + IF s.gen = "gemm_gen" THEN f ELSE 0
    BY <1>6, <1>9, <1>11
  <2>2. at'[w].i > Len(code'[at'[w].block])
    BY <1>1, <1>2, <1>4, <1>13
  <2>3. QED
    BY <1>3, <1>4, <1>5, <1>10, <1>11, <1>12, <1>14, <2>1, <2>2 DEF Counted
<1>16. Filled(w)'
  <2>1. FullIn(lds, s, StoreBufs(b), f + n - 0)
    BY <1>2, <1>3, <1>5, <1>7, <1>14 DEF Filled
  <2>2. f + n - 0 = f + (n + t) - t
    BY <1>6, <1>9
  <2>3. FullIn(lds, s, StoreBufs(b), f + (n + t) - t)
    BY <2>1, <2>2
  <2>4. at'[w].i # Len(code'[at'[w].block])
    BY <1>1, <1>2, <1>4, <1>13
  <2>5. QED
    BY <1>1, <1>4, <1>5, <1>11, <1>12, <1>14, <2>3, <2>4 DEF Filled
<1>17. Learned(w)'
  <2>1. Learns(Spc, Ins(w), Knowledge(w), Onward(w)) /\ Knows(w, Knowledge(w)) /\ Ins(w).op = "advance"
    BY <1>1, LeadsOn
  <2>2. PICK k, m, x : k = Knowledge(w) /\ m = Onward(w) /\ x = Ins(w)
    OBVIOUS
  <2>3. PICK q, v, R, A, S, Y, L : q = lgkm[w] /\ v = vm[w] /\ R = reg[w] /\ A = acc[w] /\ S = slot[w] /\ Y = y[w] /\ L = lds
    OBVIOUS
  <2>4. KnowsIn(s, b, TRUE, w, f, n, q, v, R, A, S, Y, L, k)
    BY <1>2, <1>5, <1>14, <2>1, <2>2, <2>3 DEF Knows, KnowsIn
  <2>5. Learns(s, x, k, m) /\ x.op = "advance"
    BY <1>5, <2>1, <2>2
  <2>6. KnowsIn(s, b, TRUE, w, f, n + s.tile_k, q, v, R, A, S, Y, L, m)
    BY <1>5, <1>6, <1>9, <2>4, <2>5, KnowsAdvance
  <2>7. PICK z : z = n + t
    OBVIOUS
  <2>8. KnowsIn(s, b, TRUE, w, f, z, q, v, R, A, S, Y, L, m)
    BY <1>5, <2>6, <2>7
  <2>9. Knows(w, m)'
    BY <1>1, <1>4, <1>11, <1>12, <1>14, <2>3, <2>7, <2>8 DEF Knows, KnowsIn
  <2>10. Knowledge(w)' = m
    <3>1. at'[w].i - 1 = at[w].i
      BY <1>3, <1>4
    <3>2. QED
      BY <1>1, <1>2, <1>4, <1>5, <1>12, <2>2, <3>1 DEF Knowledge, Onward
  <2>11. QED
    BY <1>14, <2>9, <2>10 DEF Learned
<1>18. Queues(w)'
  <2>1. Len(lgkm'[w]) = 0
    BY <1>1, <1>3
  <2>2. OpsIn(lgkm'[w], s, w, f + (n + t))
    BY <2>1 DEF OpsIn
  <2>3. QED
    BY <1>1, <1>7, <1>11, <1>12, <2>2 DEF Queues
<1>19. Right(w)'
  BY <1>15, <1>16, <1>17, <1>18 DEF Right
<1>20. Shaped
  BY DEF Summing
<1>21. QED
  BY <1>1, <1>4, <1>11, <1>19, <1>20, OneRight DEF Shaped

\* What a wave knows at the end of a block is what the next block starts from.
LEMMA EndsStart ==
  ASSUME NEW s, NEW b \in WorkBlocks, NEW more, NEW d, d = Successor(b, more), d # "end"
  PROVE  d \in WorkBlocks /\ d # "prologue" /\ Weaker(Start(s, d), End(s, b))
<1>1. CASE b \in Main
  <2>1. d \in {"A", "B", "epilogA", "epilogB"}
    BY <1>1 DEF Main, Successor
  <2>2. b \notin {"store"} /\ d \notin {"prologue", "store"} /\ d \in WorkBlocks
    BY <1>1, <2>1 DEF Main, Epilogs, WorkBlocks
  <2>3. QED
    BY <1>1, <2>2 DEF Weaker, Beside, Start, End
<1>2. CASE b \in Epilogs
  <2>1. d = "store"
    BY <1>2, Successors
  <2>2. b \notin Main /\ b # "store" /\ d # "prologue" /\ d \in WorkBlocks
    BY <1>2, <2>1 DEF Main, Epilogs, WorkBlocks
  <2>3. QED
    BY <2>1, <2>2 DEF Weaker, Beside, Start, End
<1>3. CASE b = "store"
  BY <1>3, Successors
<1>4. QED
  BY <1>1, <1>2, <1>3 DEF WorkBlocks

\* A block has a trail.
LEMMA BlockTrail ==
  ASSUME Summing, NEW b \in WorkBlocks
  PROVE  Trail(Spc, code[b], Start(Spc, b), TrailOf(Spc, code[b], b), End(Spc, b))
<1>1. \E t : Trail(Spc, code[b], Start(Spc, b), t, End(Spc, b))
  BY DEF Summing, Leads
<1>2. QED
  BY <1>1 DEF TrailOf

\* A wave leaves a block.
LEMMA BranchRight ==
  ASSUME InStep, Tracked, Summing, \A p \in Problems : Whole(p), NEW w \in Waves, BranchStep(w)
  PROVE  Summing'
<1>1. /\ ~Ended(w) /\ at[w].i > Len(code[at[w].block])
      /\ at' = [at EXCEPT ![w] = [block |-> Successor(at[w].block, More(kIter[w])), i |-> 1]]
      /\ UNCHANGED <<problem, code, part, kIter, kOff, vm, lgkm, reg, acc, lds, slot, y>>
  BY DEF BranchStep, kernel, More
<1>2. PICK b, l : b = at[w].block /\ l = Len(code[b])
  OBVIOUS
<1>3. /\ b \in WorkBlocks /\ l \in Nat /\ at[w].i = l + 1
  <2>1. b \in WorkBlocks /\ l \in Nat /\ at[w].i \in 1..(l + 1)
    BY <1>1, <1>2, TrackedParts
  <2>2. at[w].i > l
    BY <1>1, <1>2
  <2>3. QED
    BY <2>1, <2>2
<1>4. PICK s, f, n, e, t : s = Spc /\ f = First /\ n = kIter[w] /\ e = KEnd(Spc, problem.args.k) /\ t = Spc.tile_k
  OBVIOUS
<1>5. PICK d : d = Successor(b, More(n))
  OBVIOUS
<1>6. /\ at'[w].block = d /\ at'[w].i = 1 /\ \A u \in Waves : u # w => at'[u] = at[u]
  <2>1. PICK r : r = [block |-> d, i |-> 1]
    OBVIOUS
  <2>2. at' = [at EXCEPT ![w] = r]
    BY <1>1, <1>2, <1>4, <1>5, <2>1
  <2>3. DOMAIN at = Waves
    BY DEF InStep
  <2>4. QED
    BY <2>1, <2>2, <2>3
<1>7. Counted(w) /\ Filled(w) /\ Queues(w) /\ Learned(w)
  BY DEF Summing, Right
<1>8. Spc' = s /\ First' = f /\ KEnd(Spc, problem.args.k)' = e
  BY <1>1, <1>4, KernelStays
<1>9. l + 1 > l /\ l + 1 >= l /\ ~(l + 1 <= l) /\ l + 1 # l
  BY <1>3
<1>10. d # "prologue" /\ (d \in Main => Len(code[d]) \in Nat /\ Len(code[d]) >= 2)
  <2>1. d = "end" \/ d # "prologue"
    BY <1>3, <1>5, EndsStart
  <2>2. ASSUME d \in Main PROVE Len(code[d]) \in Nat /\ Len(code[d]) >= 2
    <3>1. Ordered(code[d], LoadBufs(d), StoreBufs(d))
      BY <2>2 DEF InStep, Phased
    <3>2. QED
      BY <3>1, OrderedParts
  <2>3. QED
    BY <2>1, <2>2
<1>11. ~Opening(w) /\ ~Opening(w)' /\ ~Passed(w)' /\ (Passed(w) <=> b \in Main)
  <2>1. ~Opening(w)
    BY <1>2, <1>3, <1>9 DEF Opening
  <2>2. ~Opening(w)'
    BY <1>6, <1>10 DEF Opening
  <2>3. Passed(w) <=> b \in Main
    BY <1>2, <1>3, <1>9 DEF Passed
  <2>4. d \in Main => ~(1 >= Len(code'[d]))
    BY <1>1, <1>10
  <2>5. ~Passed(w)'
    BY <1>6, <2>4 DEF Passed
  <2>6. QED
    BY <2>1, <2>2, <2>3, <2>5
<1>12. Counted(w)'
  <2>1. /\ n \in Nat /\ n % t = 0 /\ n >= t /\ kOff[w] = n + IF s.gen = "gemm_gen" THEN f ELSE 0
        /\ IF b \notin Main THEN n = e ELSE n <= e
    BY <1>2, <1>3, <1>4, <1>7, <1>9, <1>11 DEF Counted
  <2>2. e \in Nat
    <3>1. part \in Nat
      BY DEF Summing, Shaped
    <3>2. QED
      BY <1>4, <3>1, Numbers
  <2>3. More(n) <=> n < e
    BY <1>4 DEF More
  <2>4. IF d \notin Main THEN n = e ELSE n < e
    <3>1. CASE b \in Main
      <4>1. d \in Main <=> More(n)
        BY <1>5, <3>1 DEF Successor, Main
      <4>2. QED
        BY <2>1, <2>2, <2>3, <3>1, <4>1
    <3>2. CASE b \notin Main
      <4>1. d \in {"store", "end"}
        BY <1>3, <1>5, <3>2, Successors DEF WorkBlocks
      <4>2. d \notin Main
        BY <4>1 DEF Main
      <4>3. QED
        BY <2>1, <3>2, <4>2
    <3>3. QED
      BY <3>1, <3>2
  <2>5. d \in Main => ~(at'[w].i > Len(code'[d]))
    <3>1. d \in Main => ~(1 > Len(code[d]))
      BY <1>10
    <3>2. QED
      BY <1>1, <1>6, <3>1
  <2>6. kIter'[w] = n /\ kOff'[w] = kOff[w] /\ Spc'.tile_k = t
    BY <1>1, <1>4, <1>8
  <2>7. QED
    BY <1>6, <1>8, <1>11, <2>1, <2>4, <2>5, <2>6 DEF Counted
<1>13. Filled(w)'
  <2>1. FullIn(lds, s, LoadBufs(d), f + n - t)
    <3>1. CASE b \in Main
      <4>1. FullIn(lds, s, StoreBufs(b), f + n - t)
        BY <1>2, <1>3, <1>4, <1>7, <1>9, <1>11, <3>1 DEF Filled
      <4>2. LoadBufs(d) = StoreBufs(b)
        BY <1>5, <3>1, NextComputes
      <4>3. QED
        BY <4>1, <4>2
    <3>2. CASE b \notin Main
      <4>1. d \in {"store", "end"}
        BY <1>3, <1>5, <3>2, Successors DEF WorkBlocks
      <4>2. LoadBufs(d) = {}
        BY <4>1 DEF LoadBufs
      <4>3. QED
        BY <4>2 DEF FullIn
    <3>3. QED
      BY <3>1, <3>2
  <2>2. kIter'[w] = n /\ lds' = lds /\ Spc'.tile_k = t
    BY <1>1, <1>4, <1>8
  <2>3. QED
    BY <1>6, <1>8, <1>11, <2>1, <2>2 DEF Filled, Current
<1>14. ASSUME NEW m, Weaker(m, End(s, b)), m.frag = {}, m.put = {} PROVE Knows(w, m)'
  <2>1. PICK k : k = Knowledge(w)
    OBVIOUS
  <2>2. Knows(w, k)
    BY <1>1, <1>7, <2>1 DEF Learned
  <2>3. PICK q, v, R, A, S, Y, L : q = lgkm[w] /\ v = vm[w] /\ R = reg[w] /\ A = acc[w] /\ S = slot[w] /\ Y = y[w] /\ L = lds
    OBVIOUS
  <2>4. PICK h : h = Passed(w)
    OBVIOUS
  <2>5. KnowsIn(s, b, h, w, f, n, q, v, R, A, S, Y, L, k)
    BY <1>2, <1>4, <2>2, <2>3, <2>4 DEF Knows
  <2>6. Weaker(End(s, b), k)
    <3>1. Trail(s, code[b], Start(s, b), TrailOf(s, code[b], b), End(s, b))
      BY <1>3, <1>4, BlockTrail
    <3>2. PICK r : r = TrailOf(s, code[b], b)
      OBVIOUS
    <3>3. Weaker(End(s, b), r[l])
      BY <1>2, <3>1, <3>2 DEF Trail
    <3>4. at[w].i - 1 = l
      BY <1>3
    <3>5. k = r[l]
      BY <1>2, <1>4, <2>1, <3>2, <3>4 DEF Knowledge
    <3>6. QED
      BY <3>3, <3>5
  <2>7. Weaker(m, k)
    BY <1>14, <2>6, WeakerOrder
  <2>8. KnowsIn(s, d, FALSE, w, f, n, q, v, R, A, S, Y, L, m)
    BY <1>14, <2>5, <2>7, KnowsElsewhere
  <2>9. QED
    BY <1>1, <1>4, <1>6, <1>8, <1>11, <2>3, <2>8 DEF Knows, KnowsIn
<1>15. Learned(w)'
  <2>1. CASE d = "end"
    <3>1. b = "store"
      BY <1>3, <1>5, <2>1, EndsStart, Successors DEF WorkBlocks, Main, Epilogs
    <3>2. PICK m : m = End(s, "store")
      OBVIOUS
    <3>3. Weaker(m, End(s, b)) /\ m.frag = {} /\ m.put = {}
      BY <3>1, <3>2 DEF Weaker, Beside, End
    <3>4. Knows(w, m)'
      BY <1>14, <3>3
    <3>5. Ended(w)' /\ m = End(Spc, "store")'
      BY <1>6, <1>8, <2>1, <3>2 DEF Ended
    <3>6. QED
      BY <3>4, <3>5 DEF Learned
  <2>2. CASE d # "end"
    <3>1. d \in WorkBlocks /\ Weaker(Start(s, d), End(s, b))
      BY <1>3, <1>5, <2>2, EndsStart
    <3>2. PICK r : r = TrailOf(s, code[d], d)
      OBVIOUS
    <3>3. Trail(s, code[d], Start(s, d), r, End(s, d))
      BY <1>4, <3>1, <3>2, BlockTrail
    <3>4. PICK m : m = r[0]
      OBVIOUS
    <3>5. Weaker(m, Start(s, d))
      BY <3>3, <3>4 DEF Trail
    <3>6. Weaker(m, End(s, b))
      BY <3>1, <3>5, WeakerOrder
    <3>7. m.frag = {} /\ m.put = {}
      BY <3>5 DEF Weaker, Beside, Start
    <3>8. Knows(w, m)'
      BY <1>14, <3>6, <3>7
    <3>9. Knowledge(w)' = m
      BY <1>1, <1>6, <1>8, <3>2, <3>4 DEF Knowledge
    <3>10. ~Ended(w)'
      BY <1>6, <2>2 DEF Ended
    <3>11. QED
      BY <1>11, <3>8, <3>9, <3>10 DEF Learned
  <2>3. QED
    BY <2>1, <2>2
<1>16. Queues(w)'
  BY <1>1, <1>4, <1>7, <1>8 DEF Queues
<1>17. Right(w)'
  BY <1>12, <1>13, <1>15, <1>16 DEF Right
<1>18. Shaped
  BY DEF Summing
<1>19. QED
  BY <1>1, <1>6, <1>17, <1>18, OneRight DEF Shaped

\* A wave at the barrier has stored all of its pieces of the next tile.
LEMMA BarrierHere ==
  ASSUME InStep, Tracked, Summing, NEW w \in Waves, NEW n \in Main, at[w].block = n, at[w].i = Len(code[n]) - 1,
         lgkm[w] = << >>, LoadsPerThread(Spc, "X") \in Nat, LoadsPerThread(Spc, "WT") \in Nat
  PROVE  /\ ~Passed(w) /\ ~Ended(w) /\ (Opening(w) <=> n = "prologue")
         /\ Knows(w, Knowledge(w)) /\ Weaker(Onward(w), Knowledge(w)) /\ Onward(w).done = Knowledge(w).done
         /\ \A mat \in {"X", "WT"} : \A i \in 0..(LoadsPerThread(Spc, mat) - 1) :
              \A u \in StoreBufs(n) : lds[u][mat][i * NWaves(Spc) + w] = First + kIter[w]
<1>1. PICK q, l : q = code[n] /\ l = Len(code[n])
  OBVIOUS
<1>2. l \in Nat /\ l >= 2 /\ q[l - 1].op = "barrier"
  <2>1. Ordered(q, LoadBufs(n), StoreBufs(n))
    BY <1>1 DEF InStep, Phased
  <2>2. QED
    BY <1>1, <2>1, OrderedParts
<1>3. l - 1 \in 1..l /\ ~(l - 1 >= l) /\ l - 1 <= l
  BY <1>2
<1>4. ~Passed(w) /\ ~Ended(w) /\ (Opening(w) <=> n = "prologue")
  <2>1. n # "end"
    BY DEF Main
  <2>2. QED
    BY <1>1, <1>3, <2>1 DEF Passed, Ended, Opening
<1>5. PICK s, k, m, r : s = Spc /\ k = Knowledge(w) /\ m = Onward(w) /\ r = TrailOf(Spc, code[n], n)
  OBVIOUS
<1>6. Trail(s, q, Start(s, n), r, End(s, n))
  BY <1>1, <1>4, <1>5, OnTheTrail
<1>7. PICK i : i = l - 1
  OBVIOUS
<1>8. Learns(s, q[i], r[i - 1], r[i])
  BY <1>1, <1>3, <1>6, <1>7 DEF Trail
<1>9. k = r[i - 1] /\ m = r[i]
  BY <1>1, <1>5, <1>7 DEF Knowledge, Onward
<1>10. PICK x : x = q[i]
  OBVIOUS
<1>11. Learns(s, x, k, m) /\ x.op = "barrier"
  BY <1>2, <1>7, <1>8, <1>9, <1>10
<1>12. Weaker(m, k) /\ m.done = k.done
  BY <1>11, WaitLearns, SameDone
<1>13. \A mat \in {"X", "WT"} : \A j \in 0..(LoadsPerThread(s, mat) - 1) : <<mat, j>> \in k.put
  BY <1>11 DEF Learns
<1>14. Knows(w, k)
  BY <1>4, <1>5 DEF Summing, Right, Learned
<1>15. PutsIn(lgkm[w], lds, s, w, StoreBufs(n), First + kIter[w], k.put)
  BY <1>4, <1>5, <1>14 DEF Knows, KnowsIn
<1>16. ASSUME NEW mat \in {"X", "WT"}, NEW j \in 0..(LoadsPerThread(s, mat) - 1), NEW u \in StoreBufs(n)
       PROVE  lds[u][mat][j * NWaves(s) + w] = First + kIter[w]
  <2>1. PICK p : p = <<mat, j>>
    OBVIOUS
  <2>2. p \in k.put /\ p[1] = mat /\ p[2] = j
    BY <1>13, <2>1
  <2>3. p \in Pieces /\ (p[2] < LoadsPerThread(s, p[1]) =>
                           PutIn(lgkm[w], lds, s, w, StoreBufs(n), First + kIter[w], p))
    BY <1>15, <2>2 DEF PutsIn
  <2>4. j \in Nat
    BY <2>2, <2>3 DEF Pieces
  <2>5. j < LoadsPerThread(s, mat)
    <3>1. LoadsPerThread(s, mat) \in Nat
      BY <1>5
    <3>2. QED
      BY <1>16, <2>4, <3>1
  <2>6. PutIn(lgkm[w], lds, s, w, StoreBufs(n), First + kIter[w], p)
    BY <2>2, <2>3, <2>5
  <2>7. Len(lgkm[w]) = 0
    OBVIOUS
  <2>8. 1..Len(lgkm[w]) = {}
    BY <2>7
  <2>9. \A v \in StoreBufs(n) : lds[v][p[1]][p[2] * NWaves(s) + w] = First + kIter[w]
    BY <2>6, <2>8 DEF PutIn
  <2>10. QED
    BY <2>2, <2>9
<1>17. QED
  BY <1>4, <1>5, <1>12, <1>14, <1>16

\* What every wave has stored of a tile is the whole of it.
LEMMA AllStored ==
  ASSUME NEW s, NWaves(s) \in Nat, LoadsPerThread(s, "X") \in Nat, LoadsPerThread(s, "WT") \in Nat,
         NEW L, NEW bufs, NEW z,
         \A w \in 0..(NWaves(s) - 1) : \A mat \in {"X", "WT"} : \A i \in 0..(LoadsPerThread(s, mat) - 1) :
            \A u \in bufs : L[u][mat][i * NWaves(s) + w] = z
  PROVE  FullIn(L, s, bufs, z)
<1> SUFFICES ASSUME NEW u \in bufs, NEW mat \in {"X", "WT"}, NEW g \in Slices(s, mat)
             PROVE  L[u][mat][g] = z
  BY DEF FullIn
<1>1. PICK n \in Nat, l \in Nat : n = NWaves(s) /\ l = LoadsPerThread(s, mat)
  OBVIOUS
<1>2. g \in 0..(l * n - 1)
  BY <1>1 DEF Slices
<1>3. PICK i \in 0..(l - 1), w \in 0..(n - 1) : g = i * n + w
  BY <1>2, EveryPlace
<1>4. i \in 0..(LoadsPerThread(s, mat) - 1) /\ w \in 0..(NWaves(s) - 1)
  BY <1>1, <1>3
<1>5. L[u][mat][i * NWaves(s) + w] = z
  BY <1>4
<1>6. QED
  BY <1>1, <1>3, <1>5

\* The barrier opens: the buffers change places.
LEMMA OpensRight ==
  ASSUME InStep, Tracked, Summing, \A p \in Problems : Whole(p), BarrierOpens
  PROVE  Summing'
<1>1. /\ arrived # {} /\ arrived = {w \in Waves : at[w].block # "end"}
      /\ at' = [w \in Waves |-> IF w \in arrived THEN [at[w] EXCEPT !.i = @ + 1] ELSE at[w]]
      /\ UNCHANGED <<problem, code, part, kIter, kOff, vm, lgkm, reg, acc, lds, slot, y>>
  BY DEF BarrierOpens, kernel, Ended
<1>0. PICK n \in Main \cup Epilogs : \E K : \A w \in Waves : Placed(w, n, K)
  BY DEF InStep
<1>2. PICK K : \A w \in Waves : Placed(w, n, K)
  BY <1>0
<1>3. n \in Main
  <2>1. PICK w \in Waves : w \in arrived
    BY <1>1
  <2>2. Inside(w, n, K)
    BY <1>2, <2>1, AtBarrier DEF InStep
  <2>3. QED
    BY <2>2 DEF Inside
<1>4. \A w \in Waves : at[w].block # "end"
  BY <1>2, <1>3 DEF Placed, Inside, Coming, Leaving, Main, Epilogs
<1>5. arrived = Waves
  BY <1>1, <1>4
<1>6. ASSUME NEW w \in Waves
      PROVE  /\ at[w].block = n /\ kIter[w] = K /\ lgkm[w] = << >>
             /\ at[w].i = Len(code[n]) - 1
  <2>1. at[w].block \in Main /\ at[w].i = Len(code[at[w].block]) - 1
    BY <1>5 DEF InStep
  <2>2. Inside(w, n, K) /\ lgkm[w] = << >>
    BY <1>2, <2>1, AtBarrier
  <2>3. QED
    BY <2>1, <2>2 DEF Inside
<1>7. PICK l : l = Len(code[n])
  OBVIOUS
<1>8. l \in Nat /\ l >= 2
  <2>1. Ordered(code[n], LoadBufs(n), StoreBufs(n))
    BY <1>3 DEF InStep, Phased
  <2>2. QED
    BY <1>7, <2>1, OrderedParts
<1>9. ASSUME NEW w \in Waves PROVE at'[w].block = n /\ at'[w].i = l
  <2>1. at[w] \in [block : Names, i : Nat \ {0}]
    BY DEF InStep
  <2>2. at'[w] = [at[w] EXCEPT !.i = @ + 1]
    BY <1>1, <1>5
  <2>3. at'[w].block = at[w].block /\ at'[w].i = at[w].i + 1
    BY <2>1, <2>2
  <2>4. QED
    BY <1>6, <1>7, <1>8, <2>3
<1>10. PICK s, f, e : s = Spc /\ f = First /\ e = KEnd(Spc, problem.args.k)
  OBVIOUS
<1>11. Spc' = s /\ First' = f /\ KEnd(Spc, problem.args.k)' = e /\ Waves' = Waves
  BY <1>1, <1>10, KernelStays
<1>12. NWaves(s) \in Nat /\ LoadsPerThread(s, "X") \in Nat /\ LoadsPerThread(s, "WT") \in Nat /\ f \in Nat
  <2>1. part \in Nat
    BY DEF Summing, Shaped
  <2>2. QED
    BY <1>10, <2>1, Numbers
<1>13. ASSUME NEW w \in Waves
       PROVE  /\ ~Passed(w) /\ ~Ended(w) /\ (Opening(w) <=> n = "prologue")
              /\ Knows(w, Knowledge(w)) /\ Weaker(Onward(w), Knowledge(w)) /\ Onward(w).done = Knowledge(w).done
              /\ \A mat \in {"X", "WT"} : \A i \in 0..(LoadsPerThread(Spc, mat) - 1) :
                   \A u \in StoreBufs(n) : lds[u][mat][i * NWaves(Spc) + w] = First + kIter[w]
  BY <1>3, <1>6, <1>10, <1>12, BarrierHere
<1>14. FullIn(lds, s, StoreBufs(n), f + K)
  <2>1. PICK L, bufs, z : L = lds /\ bufs = StoreBufs(n) /\ z = f + K
    OBVIOUS
  <2>2. \A w \in 0..(NWaves(s) - 1) : \A mat \in {"X", "WT"} : \A i \in 0..(LoadsPerThread(s, mat) - 1) :
            \A u \in bufs : L[u][mat][i * NWaves(s) + w] = z
    BY <1>6, <1>10, <1>13, <2>1 DEF Waves
  <2>3. FullIn(L, s, bufs, z)
    BY <1>12, <2>2, AllStored
  <2>4. QED
    BY <2>1, <2>3
<1>15. l <= l /\ l >= l /\ ~(l > l) /\ f + K - 0 = f + K
  <2>1. l <= l /\ l >= l /\ ~(l > l)
    BY <1>8
  <2>2. K \in Nat
    <3>1. PICK w \in Waves : TRUE
      BY <1>1, <1>5
    <3>2. Counted(w)
      BY DEF Summing, Right
    <3>3. QED
      BY <1>6, <3>2 DEF Counted
  <2>3. QED
    BY <1>12, <2>1, <2>2
<1>16. ASSUME NEW w \in Waves PROVE Right(w)'
  <2>1. at'[w].block = n /\ at'[w].i = l /\ at[w].block = n /\ kIter[w] = K /\ at[w].i = l - 1 /\ Len(code'[n]) = l
    BY <1>1, <1>6, <1>7, <1>9
  <2>2. Counted(w) /\ Queues(w) /\ Learned(w)
    BY DEF Summing, Right
  <2>3. Passed(w)' /\ ~Ended(w)' /\ (Opening(w)' <=> Opening(w))
    <3>1. n # "end"
      BY <1>3 DEF Main
    <3>2. Passed(w)' /\ ~Ended(w)'
      BY <1>3, <1>15, <2>1, <3>1 DEF Passed, Ended
    <3>3. Opening(w)' <=> n = "prologue"
      BY <1>15, <2>1 DEF Opening
    <3>4. QED
      BY <1>13, <3>2, <3>3
  <2>4. Counted(w)'
    <3>1. ~(at[w].i > Len(code[at[w].block])) /\ ~(at'[w].i > Len(code'[at'[w].block]))
      <4>1. ~(l - 1 > l)
        BY <1>8
      <4>2. QED
        BY <1>7, <1>15, <2>1, <4>1
    <3>2. Spc' = Spc /\ First' = First /\ KEnd(Spc, problem.args.k)' = KEnd(Spc, problem.args.k)
      BY <1>10, <1>11
    <3>3. kIter' = kIter /\ kOff' = kOff /\ at'[w].block = at[w].block
      BY <1>1, <2>1
    <3>4. QED
      BY <2>2, <2>3, <3>1, <3>2, <3>3 DEF Counted
  <2>5. Filled(w)'
    <3>1. FullIn(lds, s, StoreBufs(n), f + K - 0)
      BY <1>14, <1>15
    <3>2. kIter'[w] = K /\ lds' = lds
      BY <1>1, <2>1
    <3>3. QED
      BY <1>11, <2>1, <2>3, <3>1, <3>2 DEF Filled
  <2>6. Queues(w)'
    BY <1>1, <1>10, <1>11, <2>2 DEF Queues
  <2>7. Learned(w)'
    <3>1. PICK k, m : k = Knowledge(w) /\ m = Onward(w)
      OBVIOUS
    <3>2. PICK q, v, R, A, S, Y, L : q = lgkm[w] /\ v = vm[w] /\ R = reg[w] /\ A = acc[w] /\ S = slot[w] /\ Y = y[w] /\ L = lds
      OBVIOUS
    <3>3. KnowsIn(s, n, FALSE, w, f, K, q, v, R, A, S, Y, L, k)
      BY <1>10, <1>13, <2>1, <3>1, <3>2 DEF Knows, KnowsIn
    <3>4. KnowsIn(s, n, TRUE, w, f, K, q, v, R, A, S, Y, L, k)
      BY <3>3 DEF KnowsIn
    <3>5. Weaker(m, k) /\ m.done = k.done
      BY <1>13, <3>1
    <3>6. KnowsIn(s, n, TRUE, w, f, K, q, v, R, A, S, Y, L, m)
      BY <3>4, <3>5, KnowsWeaker
    <3>7. Knows(w, m)'
      BY <1>1, <1>11, <2>1, <2>3, <3>2, <3>6 DEF Knows, KnowsIn
    <3>8. Knowledge(w)' = m
      <4>1. at'[w].i - 1 = at[w].i
        BY <2>1
      <4>2. QED
        BY <1>1, <1>10, <1>11, <2>1, <3>1, <4>1 DEF Knowledge, Onward
    <3>9. Opening(w)' => m.done = All(Spc)'
      BY <1>10, <1>11, <1>13, <2>2, <2>3, <3>1, <3>5 DEF Learned
    <3>10. QED
      BY <2>3, <3>7, <3>8, <3>9 DEF Learned
  <2>8. QED
    BY <2>4, <2>5, <2>6, <2>7 DEF Right
<1>17. Shaped'
  BY <1>1, <1>10, <1>11 DEF Summing, Shaped
<1>18. \A b \in WorkBlocks : Leads(Spc, code[b], Start(Spc, b), End(Spc, b))'
  BY <1>1, <1>10, <1>11 DEF Summing
<1>19. QED
  BY <1>11, <1>16, <1>17, <1>18 DEF Summing

-----------------------------------------------------------------------------
\* The invariant, and the theorem.

\* Every step of a launch keeps what its waves have summed right.
LEMMA NextSumming ==
  ASSUME InStep, Tracked, Summing, \A p \in Problems : Whole(p), [Next]_vars
  PROVE  Summing'
<1>1. ASSUME NEW w \in Waves, WaveStep(w) PROVE Summing'
  <2>1. CASE BufferLoadStep(w)
    BY <2>1, BufferLoadRight
  <2>2. CASE LdsStep(w)
    BY <2>2, LdsStepRight
  <2>3. CASE WaitStep(w)
    BY <2>3, WaitRight
  <2>4. CASE BufferLoadLands(w)
    BY <2>4, BufferLandsRight
  <2>5. CASE DsStoreLands(w)
    BY <2>5, DsStoreRight
  <2>6. CASE DsLoadLands(w)
    BY <2>6, DsLoadRight
  <2>7. CASE SwapOutLands(w)
    BY <2>7, SwapOutRight
  <2>8. CASE SwapInLands(w)
    BY <2>8, SwapInRight
  <2>9. CASE WmmaStep(w)
    BY <2>9, WmmaRight
  <2>10. CASE MoveTempStep(w)
    BY <2>10, MoveTempRight
  <2>11. CASE YStoreStep(w)
    BY <2>11, YStoreRight
  <2>12. CASE AdvanceStep(w)
    BY <2>12, AdvanceRight
  <2>13. CASE BranchStep(w)
    BY <2>13, BranchRight
  <2>14. CASE BarrierStep(w)
    <3>1. UNCHANGED <<problem, code, part, at, kIter, kOff, vm, lgkm, reg, acc, lds, slot, y>>
      BY <2>14 DEF BarrierStep, kernel
    <3>2. Right(w)'
      BY <3>1, SameRight DEF Summing
    <3>3. QED
      BY <3>1, <3>2, OneRight DEF Summing, Shaped
  <2>15. QED
    BY <1>1, <2>1, <2>2, <2>3, <2>4, <2>5, <2>6, <2>7, <2>8, <2>9, <2>10, <2>11, <2>12, <2>13, <2>14 DEF WaveStep
<1>2. CASE BarrierOpens
  BY <1>2, OpensRight
<1>3. CASE UNCHANGED vars
  <2>1. UNCHANGED <<problem, code, part, at, kIter, kOff, vm, lgkm, reg, acc, lds, slot, y>>
    BY <1>3 DEF vars, kernel
  <2>2. \A w \in Waves : Right(w)'
    BY <2>1, SameRight DEF Summing
  <2>3. Spc' = Spc /\ Waves' = Waves
    BY <2>1, KernelStays
  <2>4. Shaped'
    BY <2>1, <2>3 DEF Summing, Shaped
  <2>5. \A b \in WorkBlocks : Leads(Spc, code[b], Start(Spc, b), End(Spc, b))'
    BY <2>1, <2>3 DEF Summing
  <2>6. QED
    BY <2>2, <2>3, <2>4, <2>5 DEF Summing
<1>4. QED
  BY <1>1, <1>2, <1>3 DEF Next, AllEnded

\* A wave that starts knows that nothing has been summed.
LEMMA KnowsNothing ==
  ASSUME NEW s, NEW f \in Nat, NEW w, NEW q, NEW v, NEW R, NEW A, NEW S, NEW Y, NEW L,
         \A r \in AccRowsOf(s), c \in ColumnsOf(s) : A[<<r, c>>] = EmptyBag
  PROVE  KnowsIn(s, "prologue", FALSE, w, f, 0, q, v, R, A, S, Y, L, Start(s, "prologue"))
<1>1. PICK k : k = Start(s, "prologue")
  OBVIOUS
<1>2. /\ k.frag = {} /\ k.new = {} /\ k.put = {} /\ k.out = {} /\ k.temp = {} /\ k.slot = {}
      /\ k.acc = AccRowsOf(s) \X ColumnsOf(s) \X RowsOf(s)
  BY <1>1 DEF Start
<1>3. \A r, c : Total(s, f, 0, r, c, k.done) = EmptyBag
  BY TotalNothing
<1>4. AccsIn(A, s, f, 0, k.acc, k.done)
  <2> SUFFICES ASSUME NEW x \in k.acc
               PROVE  /\ x[1] \in AccRowsOf(s) /\ x[2] \in ColumnsOf(s) /\ x[3] \in RowsOf(s)
                      /\ A[<<x[1], x[2]>>] = Total(s, f, 0, x[3], x[2], k.done)
    BY DEF AccsIn
  <2>1. x[1] \in AccRowsOf(s) /\ x[2] \in ColumnsOf(s) /\ x[3] \in RowsOf(s)
    BY <1>2
  <2>2. QED
    BY <1>3, <2>1
<1>5. KnowsIn(s, "prologue", FALSE, w, f, 0, q, v, R, A, S, Y, L, k)
  BY <1>2, <1>4 DEF KnowsIn, FragsIn, NewsIn, PutsIn, SlotsIn, TempsIn, OutsIn
<1>6. QED
  BY <1>1, <1>5

\* A launch starts right.
LEMMA InitSumming ==
  ASSUME \A p \in Problems : Whole(p), Init
  PROVE  Summing
<1>1. /\ problem \in Problems /\ code \in Compiled(Spc) /\ part \in 0..(Spc.split_k - 1)
      /\ at = [w \in Waves |-> AtStart] /\ kIter = [w \in Waves |-> 0]
      /\ kOff = [w \in Waves |-> IF Spc.gen = "gemm_gen" THEN First ELSE 0]
      /\ vm = [w \in Waves |-> <<>>] /\ lgkm = [w \in Waves |-> <<>>] /\ reg = [w \in Waves |-> <<>>]
      /\ acc = [w \in Waves |-> [rc \in AccRows \X Cols |-> EmptyBag]]
      /\ lds = [b \in {0, 1} |-> [mat \in {"X", "WT"} |->
                [g \in 0..(LoadsPerThread(Spc, mat) * NWaves(Spc) - 1) |-> -1]]]
      /\ slot = [w \in Waves |-> [c \in Cols |-> EmptyBag]] /\ y = [w \in Waves |-> <<>>]
  BY DEF Init, First
<1>2. InStep
  BY InitInStep
<1>3. part \in Nat
  <2>1. Spc.split_k \in Nat
    BY <1>1, ProblemsAssumption DEF Spc, Lowers
  <2>2. QED
    BY <1>1, <2>1
<1>4. PICK s, f, e, t : s = Spc /\ f = First /\ e = KEnd(Spc, problem.args.k) /\ t = Spc.tile_k
  OBVIOUS
<1>5. /\ t \in Nat \ {0} /\ e \in Nat \ {0} /\ f \in Nat /\ Sumable(s)
      /\ s.gen \in {"tile_ir", "gemm_gen"}
  BY <1>2, <1>3, <1>4, Numbers
<1>6. Shaped
  <2>1. DOMAIN kOff = Waves /\ DOMAIN reg = Waves /\ DOMAIN acc = Waves /\ DOMAIN slot = Waves /\ DOMAIN y = Waves
    BY <1>1
  <2>2. AccRows = AccRowsOf(Spc) /\ Cols = ColumnsOf(Spc)
    BY DEF AccRows, AccRowsOf, RowsOf, Cols, ColumnsOf
  <2>3. \A w \in Waves : DOMAIN acc[w] = AccRowsOf(Spc) \X ColumnsOf(Spc) /\ DOMAIN slot[w] = ColumnsOf(Spc)
    BY <1>1, <2>2
  <2>4. /\ DOMAIN lds = {0, 1} /\ \A u \in {0, 1} : DOMAIN lds[u] = {"X", "WT"}
        /\ \A u \in {0, 1} : \A mat \in {"X", "WT"} : DOMAIN lds[u][mat] = Slices(Spc, mat)
    BY <1>1 DEF Slices
  <2>5. QED
    BY <1>3, <2>1, <2>3, <2>4 DEF Shaped
<1>7. \A b \in WorkBlocks : Leads(Spc, code[b], Start(Spc, b), End(Spc, b))
  BY <1>1, <1>4, <1>5, CompiledLeads
<1>8. ASSUME NEW w \in Waves PROVE Right(w)
  <2>1. at[w].block = "prologue" /\ at[w].i = 1 /\ kIter[w] = 0 /\ vm[w] = <<>> /\ lgkm[w] = <<>>
    BY <1>1 DEF AtStart
  <2>2. PICK l : l = Len(code["prologue"])
    OBVIOUS
  <2>3. l \in Nat /\ l >= 2
    <3>1. "prologue" \in Main
      BY DEF Main
    <3>2. Ordered(code["prologue"], LoadBufs("prologue"), StoreBufs("prologue"))
      BY <1>2, <3>1 DEF InStep, Phased
    <3>3. QED
      BY <2>2, <3>2, OrderedParts
  <2>4. 1 <= l /\ ~(1 >= l) /\ ~(1 > l)
    BY <2>3
  <2>5. Opening(w) /\ ~Passed(w) /\ ~Ended(w)
    BY <2>1, <2>2, <2>4 DEF Opening, Passed, Ended
  <2>6. Counted(w)
    <3>1. 0 \in Nat /\ 0 % t = 0 /\ 0 < e
      BY <1>5
    <3>2. kOff[w] = 0 + IF s.gen = "gemm_gen" THEN f ELSE 0
      BY <1>1, <1>4, <1>5
    <3>3. QED
      BY <1>4, <2>1, <2>2, <2>4, <2>5, <3>1, <3>2 DEF Counted, Main
  <2>7. Filled(w)
    <3>1. LoadBufs("prologue") = {}
      BY DEF LoadBufs
    <3>2. QED
      BY <2>1, <2>5, <3>1 DEF Filled, FullIn
  <2>8. Queues(w)
    <3>1. Len(vm[w]) = 0 /\ Len(lgkm[w]) = 0
      BY <2>1
    <3>2. QED
      BY <3>1 DEF Queues, LoadsIn, OpsIn
  <2>9. Learned(w)
    <3>1. PICK r : r = TrailOf(s, code["prologue"], "prologue")
      OBVIOUS
    <3>2. Trail(s, code["prologue"], Start(s, "prologue"), r, End(s, "prologue"))
      <4>1. \E x : Trail(s, code["prologue"], Start(s, "prologue"), x, End(s, "prologue"))
        BY <1>4, <1>7 DEF Leads, WorkBlocks, Main
      <4>2. QED
        BY <3>1, <4>1 DEF TrailOf
    <3>3. PICK m : m = r[0]
      OBVIOUS
    <3>4. Weaker(m, Start(s, "prologue"))
      BY <3>2, <3>3 DEF Trail
    <3>5. PICK q, v, R, A, S, Y, L : q = lgkm[w] /\ v = vm[w] /\ R = reg[w] /\ A = acc[w] /\ S = slot[w] /\ Y = y[w] /\ L = lds
      OBVIOUS
    <3>6. \A x \in AccRowsOf(s), c \in ColumnsOf(s) : A[<<x, c>>] = EmptyBag
      <4>1. AccRows = AccRowsOf(s) /\ Cols = ColumnsOf(s)
        BY <1>4 DEF AccRows, AccRowsOf, RowsOf, Cols, ColumnsOf
      <4>2. QED
        BY <1>1, <3>5, <4>1
    <3>7. KnowsIn(s, "prologue", FALSE, w, f, 0, q, v, R, A, S, Y, L, Start(s, "prologue"))
      BY <1>5, <3>6, KnowsNothing
    <3>8. KnowsIn(s, "prologue", FALSE, w, f, 0, q, v, R, A, S, Y, L, m)
      BY <3>4, <3>7, KnowsWeaker
    <3>9. Knows(w, m)
      BY <1>4, <2>1, <2>5, <3>5, <3>8 DEF Knows, KnowsIn
    <3>10. m = Knowledge(w)
      BY <1>4, <2>1, <3>1, <3>3 DEF Knowledge
    <3>11. m.done = All(s)
      BY <3>4 DEF Weaker, Beside, Start
    <3>12. QED
      BY <1>4, <2>5, <3>9, <3>10, <3>11 DEF Learned
  <2>10. QED
    BY <2>6, <2>7, <2>8, <2>9 DEF Right
<1>9. QED
  BY <1>6, <1>7, <1>8 DEF Summing

\* The multiples of sixteen of a part of K, when K is padded to tiles.
LEMMA SamePart ==
  ASSUME NEW f \in Nat, f % 16 = 0, NEW e \in Nat, e % 16 = 0, NEW d \in (e - 15)..e
  PROVE  {k \in f..(f + e - 1) : k % 16 = 0} = {k \in f..(f + d - 1) : k % 16 = 0}
<1>1. ASSUME NEW k \in f..(f + e - 1), k % 16 = 0 PROVE k \in f..(f + d - 1)
  <2>1. k \in Nat
    OBVIOUS
  <2>2. PICK a \in Nat : f = 16 * a
    BY Sixteenth
  <2>3. PICK b \in Nat : e = 16 * b
    BY Sixteenth
  <2>4. PICK c \in Nat : k = 16 * c
    BY <1>1, <2>1, Sixteenth
  <2>5. 16 * c <= 16 * a + 16 * b - 1
    BY <2>2, <2>3, <2>4
  <2>6. c <= a + b - 1
    BY <2>5
  <2>7. k <= f + e - 16
    BY <2>2, <2>3, <2>4, <2>6
  <2>8. QED
    BY <2>1, <2>7
<1>2. ASSUME NEW k \in f..(f + d - 1) PROVE k \in f..(f + e - 1)
  OBVIOUS
<1>3. QED
  BY <1>1, <1>2

\* What is stored in the end is what the launch is to sum.
LEMMA SumsHere ==
  ASSUME \A p \in Problems : Whole(p), InStep, Summing
  PROVE  EachProductOnce
<1> SUFFICES ASSUME NEW w \in Waves, Ended(w), NEW r \in 0..(NRowBlocks(Spc) - 1), NEW c \in Cols
             PROVE  y[w][<<r, c>>] = Expected(w, r, c)
  BY DEF EachProductOnce
<1>1. PICK s, f, n, e : s = Spc /\ f = First /\ n = kIter[w] /\ e = KEnd(Spc, problem.args.k)
  OBVIOUS
<1>2. /\ s.tile_k \in Nat \ {0} /\ s.tile_k % 16 = 0 /\ e \in Nat \ {0} /\ e % s.tile_k = 0
      /\ f \in Nat /\ f % 16 = 0 /\ Whole(problem)
  <2>1. part \in Nat
    BY DEF Summing, Shaped
  <2>2. QED
    BY <1>1, <2>1, Numbers
<1>3. Right(w)
  BY DEF Summing
<1>4. at[w].block = "end" /\ "end" \notin Main
  BY DEF Ended, Main
<1>5. n = e
  BY <1>1, <1>3, <1>4 DEF Right, Counted
<1>6. Knows(w, End(Spc, "store"))
  BY <1>3 DEF Right, Learned
<1>7. OutsIn(y[w], s, f, n, RowsOf(s))
  BY <1>1, <1>6 DEF Knows, KnowsIn, End
<1>8. r \in RowsOf(s) /\ c \in ColumnsOf(s)
  BY <1>1 DEF RowsOf, ColumnsOf, Cols
<1>9. y[w][<<r, c>>] = Total(s, f, e, r, c, All(s))
  BY <1>5, <1>7, <1>8 DEF OutsIn
<1>10. Summed(s, f, e, r, c, All(s)) = {k \in f..(f + e - 1) : k % 16 = 0}
  BY <1>2, <1>8, SummedAll
<1>11. PICK d : d = CeilDiv(problem.k, Spc.split_k)
  OBVIOUS
<1>12. d \in (e - 15)..e
  BY <1>1, <1>2, <1>11 DEF Whole, Spc
<1>13. e % 16 = 0
  BY <1>2, Sixteens
<1>14. {k \in f..(f + e - 1) : k % 16 = 0} = {k \in f..(f + d - 1) : k % 16 = 0}
  BY <1>2, <1>12, <1>13, SamePart
<1>15. PICK X : X = {k \in f..(f + d - 1) : k % 16 = 0}
  OBVIOUS
<1>16. Total(s, f, e, r, c, All(s)) = SetToBag({ProductOf(r, c, k) : k \in X})
  BY <1>10, <1>14, <1>15 DEF Total
<1>17. Expected(w, r, c) = SetToBag({ProductOf(r, c, k) : k \in X})
  <2>1. KStart(Spc, problem.args.k, part) = f
    BY <1>1 DEF First
  <2>2. QED
    BY <1>11, <1>15, <2>1 DEF Expected, ProductOf, FragOf
<1>18. QED
  BY <1>9, <1>16, <1>17

\* When a wave is through, what it stored for each block of the result is the sum of the
\* products of its share of K, each of them once: nothing is left out, added twice or
\* taken from another tile.  It is so for the kernels of lower_gemm and of gemm_gen, with
\* every tile, schedule and split, any number of waves and of tiles in the share, whenever
\* the loads and stores land.  The launches are Whole, as those that are tested are.
THEOREM SumsAreRight ==
  ASSUME \A p \in Problems : Whole(p)
  PROVE  Spec => []EachProductOnce
<1>1. \A p \in Problems : Staged(p.spec)
  BY DEF Whole
<1>2. Init => InStep /\ Tracked /\ Summing
  BY <1>1, InitInStep, InitTracked, InitSumming
<1>3. InStep /\ Tracked /\ Summing /\ [Next]_vars => InStep' /\ Tracked' /\ Summing'
  BY NextInStep, NextTracks, NextSumming
<1>4. InStep /\ Summing => EachProductOnce
  BY SumsHere
<1>5. QED
  BY <1>2, <1>3, <1>4, PTL DEF Spec
=============================================================================
