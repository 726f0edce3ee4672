----------------------------- MODULE GemmKernel -----------------------------
(***************************************************************************)
(* The matrix-multiplication kernels that src/src/t0/tile_ir.rs            *)
(* (lower_gemm) and src/src/t0/gemm_gen.rs (generate_lds_db) generate, the *)
(* wait-count passes every kernel goes through afterwards                  *)
(* (ssa_ir.rs optimize_waitcnt_mach_func and asm_emitter.rs), and the      *)
(* waves of one workgroup that run the result.                             *)
(*                                                                         *)
(* A kernel is the list of the instructions whose order matters: loads     *)
(* from global memory, stores to and loads from the workgroup's shared     *)
(* memory (LDS), matrix products, waits and barriers.  Address arithmetic  *)
(* is not in the list: where the addresses lead is checked apart, by the   *)
(* operators of "Layout".  Loads and LDS operations of a wave complete in  *)
(* order: an outstanding one is completed when a wait asks for it, which   *)
(* is the latest the hardware may, or, in the launches Prompt, at any time *)
(* before.                                                                 *)
(*                                                                         *)
(* External: how a wave issues and completes instructions.                 *)
(***************************************************************************)
EXTENDS Integers, Bags, SequencesExt, FiniteSetsExt

CONSTANTS Problems,   \* the launches: [spec, m, k, n, wgs, args, y], see Launch
          Prompt      \* those whose loads and stores may land before a wait asks for them

-----------------------------------------------------------------------------
(* The specification of a kernel: [gen, tile_m, tile_n, tile_k, wg_size,   *)
(* split_k, swap_grid, acc_swap, passes, pad], gen telling the two         *)
(* generators apart.                                                       *)

TileGemm(tm, tn, tk) ==
    [gen |-> "tile_ir", tile_m |-> tm, tile_n |-> tn, tile_k |-> tk, wg_size |-> (tm \div 32) * 32,
     split_k |-> 1, swap_grid |-> TRUE, acc_swap |-> FALSE, passes |-> 1, pad |-> 0]

GemmConfig(tm, tn, tk, wg) ==
    [TileGemm(tm, tn, tk) EXCEPT !.gen = "gemm_gen", !.wg_size = wg]

NWaves(s)     == s.wg_size \div 32
RowsPerWave(s) == s.tile_m \div NWaves(s)
NRowBlocks(s) == RowsPerWave(s) \div 16
NColTiles(s)  == s.tile_n \div 16
KSubSteps(s)  == s.tile_k \div 16
Streaming(s)  == s.gen = "tile_ir" /\ NColTiles(s) > 4

TileRows(s, mat) == IF mat = "X" THEN s.tile_m ELSE s.tile_n
ChunksPerRow(s)  == (s.tile_k * 2) \div 16                 \* chunks of 16 bytes
LoadsPerThread(s, mat) == (TileRows(s, mat) * ChunksPerRow(s)) \div s.wg_size
LdsBuffer(s) == (s.tile_m + s.tile_n) * ChunksPerRow(s)    \* in chunks
LdsTotal(s) ==
    2 * LdsBuffer(s) + IF s.acc_swap THEN NColTiles(s) * 64 * NWaves(s) ELSE 0

\* What the generators refuse (their asserts and panics).
Lowers(s) ==
    /\ IF s.gen = "tile_ir"
       THEN /\ \A mat \in {"X", "WT"} : LoadsPerThread(s, mat) >= 1
            /\ ChunksPerRow(s) \in {2^i : i \in 0..5}
       ELSE /\ s.tile_m \in {16, 32, 64, 128} /\ s.tile_n \in {32, 64, 128}
            /\ RowsPerWave(s) \in {16, 32, 64} /\ ChunksPerRow(s) \in {2, 4, 8}
    /\ s.split_k \in {1, 2, 4, 8, 16}

\* A launch is of a kernel the generators can make.
ASSUME ProblemsAssumption ==
    \A p \in Problems :
        /\ {p.spec.tile_m, p.spec.tile_n, p.spec.tile_k, p.spec.wg_size} \subseteq Nat \ {0}
        /\ p.spec.wg_size >= 32 /\ Lowers(p.spec)

CeilDiv(a, b) == (a + b - 1) \div b
LeastOf(a, b) == Min({a, b})

-----------------------------------------------------------------------------
(* Choosing a kernel for Y[m,n] = X[m,k] WT[n,k].                          *)

\* tile_auto_select's and clamp_sk's loop: halve sk until the parts are whole tiles.
HalveUntilWhole(k, tk, desired) ==
    LET start == LeastOf(desired, k \div tk)
        halved[sk \in 0..start] ==
            IF sk > 1 /\ k % (tk * sk) # 0 THEN halved[sk \div 2] ELSE sk
    IN  IF halved[start] > 1 THEN halved[start] ELSE 1

AutoTile(m, k, n) ==
    LET small == LeastOf(m, n)
        big   == m + n - small
        by(tk) == k >= tk /\ k % tk = 0
    IN  IF small >= 128 /\ big >= 4096
        THEN TileGemm(128, 128, IF by(64) THEN 64 ELSE IF by(32) THEN 32 ELSE 16)
        ELSE IF small >= 64 /\ big >= 2048
        THEN IF m >= 256 /\ by(32) THEN TileGemm(256, 64, 32)
             ELSE TileGemm(64, 64, IF by(32) THEN 32 ELSE 16)
        ELSE IF small >= 64
        THEN TileGemm(64, 64, IF by(64) THEN 64 ELSE IF by(32) THEN 32 ELSE 16)
        ELSE IF (m >= 32 \/ n >= 128) /\ by(32) THEN TileGemm(64, 64, 32)
        ELSE TileGemm(32, 64, 16)

TileAutoSelect(m, k, n) ==
    LET s == AutoTile(m, k, n)
        tiles == CeilDiv(m, s.tile_m) * CeilDiv(n, s.tile_n)
        wgp == s.tile_m = 256 \/ (s.tile_n = 128 /\ s.tile_k = 32)
        iters == k \div s.tile_k
        desired == IF wgp /\ tiles >= 96 THEN 1
                   ELSE IF tiles < 12 THEN 8
                   ELSE IF tiles < 48 THEN 4
                   ELSE IF iters > 16 THEN LeastOf(iters \div 8, 8)
                   ELSE 1
    IN  IF desired > 1 /\ k >= s.tile_k * 2
        THEN [s EXCEPT !.split_k = HalveUntilWhole(k, s.tile_k, desired)]
        ELSE s

\* gemm_gen's auto_select_legacy.
LegacySelect(m, k, n) ==
    LET with(s, swap, desired) ==
            [s EXCEPT !.swap_grid = swap, !.split_k = HalveUntilWhole(k, 16, desired)]
        by128 == m % 128 = 0
        wide  == k >= 512 /\ n >= 1024 /\ by128
        c128  == GemmConfig(128, 64, 16, 128)
        c64   == GemmConfig(64, 64, 16, 64)
    IN  IF wide /\ m <= 256 THEN with(c128, FALSE, 4)
        ELSE IF wide /\ m <= 512 THEN with(c128, FALSE, 8)
        ELSE IF m * n <= 512 * 512 THEN with(c64, FALSE, 8)
        ELSE IF m * n <= 1024 * 1024 /\ by128 THEN with(c128, FALSE, 2)
        ELSE IF by128 THEN with(c128, TRUE, 8)
        ELSE IF m % 64 = 0 THEN with(c64, TRUE, 4)
        ELSE with(GemmConfig(32, 64, 16, 64), TRUE, 4)

\* Where the partitions of a split kernel start and end along K.
KEnd(s, k) ==
    (IF s.gen = "tile_ir" THEN CeilDiv(k, s.tile_k) * s.tile_k ELSE k) \div s.split_k
KStart(s, k, id) == id * KEnd(s, k)

\* The workgroups a dispatch starts.
ComputeGrid(s, m, n) ==
    LET rows == CeilDiv(m, s.tile_m)
        cols == CeilDiv(n, s.tile_n * s.passes)
    IN  IF s.swap_grid THEN (0..(cols - 1)) \X (0..(rows * s.split_k - 1))
        ELSE (0..(rows - 1)) \X (0..(cols * s.split_k - 1))

\* gemm_gen's build_kernargs and tile_ir's build_kernargs_m: the sizes a kernel is
\* told, and how far apart in Y its partitions store, in elements.
Kernargs(s, m, k, n) ==
    [k |-> k, n |-> n, m |-> m,
     y_stride |-> IF s.gen = "gemm_gen" /\ s.split_k > 1 THEN m * n ELSE 0]

\* A dispatch that multiplies an m by k with an n by k matrix, y elements being
\* allocated for the result.
Launch(s, m, k, n) ==
    [spec |-> s, m |-> m, k |-> k, n |-> n, wgs |-> ComputeGrid(s, m, n),
     args |-> Kernargs(s, m, k, n), y |-> s.split_k * m * n]

\* What a workgroup works on, and whether lower_gemm has it leave at once.
Decompose(s, tgid) ==
    LET slow == tgid[2] \div s.split_k
    IN  [row |-> IF s.swap_grid THEN slow ELSE tgid[1],
         col |-> IF s.swap_grid THEN tgid[1] ELSE slow,
         part |-> tgid[2] % s.split_k]
LeavesEarly(p, wg) == p.spec.gen = "tile_ir" /\ wg.row * p.spec.tile_m >= p.args.m

-----------------------------------------------------------------------------
(* Layout: which element a thread writes, and reads, at which address.     *)
(* LDS addresses are in chunks of 16 bytes.                                *)

\* tile_ir spreads the rows over the banks: chunk XOR (row & 7).
XorLow(a, b) == a - (a % 8) + ((a + b) % 2)
                + 2 * (((a \div 2) + (b \div 2)) % 2) + 4 * (((a \div 4) + (b \div 4)) % 2)
Swizzled(s, chunk, row) == IF s.gen = "tile_ir" THEN XorLow(chunk, row) ELSE chunk
LdsBase(s, mat) == IF mat = "X" THEN 0 ELSE s.tile_m * ChunksPerRow(s)
RowsPerPass(s)  == s.wg_size \div ChunksPerRow(s)

\* The chunks thread tid moves in a pass: row and column in the tile, address.
LoadedChunks(s, mat) ==
    {[row |-> tid \div ChunksPerRow(s) + i * RowsPerPass(s),
      col |-> tid % ChunksPerRow(s),
      at  |-> LdsBase(s, mat) + i * s.wg_size
              + Swizzled(s, tid, tid \div ChunksPerRow(s))] :
        tid \in 0..(s.wg_size - 1), i \in 0..(LoadsPerThread(s, mat) - 1)}

\* Mutant: the step along K is added after the exchange of the banks.
FragmentChunkLate(s, mat, block, laneRow, ks, half) ==
    LdsBase(s, mat) + 2 * ks
    + Swizzled(s, (16 * block + laneRow) * ChunksPerRow(s) + half, laneRow)

\* Where the lanes of a wave look for the halves of a 16 by 16 fragment.
FragmentChunk(s, mat, block, laneRow, ks, half) ==
    LET step == 2 * ks
        raw  == laneRow * ChunksPerRow(s) + half + IF s.acc_swap THEN 0 ELSE step
        off  == 16 * block * ChunksPerRow(s)
    IN  (IF s.acc_swap THEN step ELSE 0)       \* that variant adds it afterwards
        + IF mat = "X" THEN Swizzled(s, off + raw, laneRow)
          ELSE LdsBase(s, mat) + off + Swizzled(s, raw, laneRow)

\* The elements of Y a lane stores, for register v of the accumulator <<r, c>>.
Stores(s, wg, wave, lane, r, c, v) ==
    <<wg.row * s.tile_m + wave * RowsPerWave(s) + 16 * r + (lane \div 16) + 2 * v,
      wg.col * s.tile_n + 16 * c + (lane % 16)>>
\* tile_ir masks the lanes outside Y; gemm_gen, and the store that swaps
\* accumulators, need Y to be whole tiles.
StoreMask(p, e) == (p.spec.gen = "tile_ir" /\ ~p.spec.acc_swap) => e[1] < p.args.m /\ e[2] < p.args.n
YAddress(p, id, e) == id * p.args.y_stride + e[1] * p.args.n + e[2]

-----------------------------------------------------------------------------
(* The instructions.                                                       *)

BufferLoad(mat, i)  == [op |-> "buffer_load", dst |-> <<mat, i>>]
DsStore(mat, i, buf) == [op |-> "ds_store", src |-> <<mat, i>>, buf |-> buf]
DsLoad(reg, buf, mat, block, ks, half) ==
    [op |-> "ds_load", dst |-> Append(reg, half), buf |-> buf, mat |-> mat,
     block |-> block, ks |-> ks, half |-> half]
Wmma(acc, a, b) == [op |-> "wmma", acc |-> acc, a |-> a, b |-> b]
Wait(counter, n) == [op |-> "wait", counter |-> counter, n |-> n]
YStore(r, accRow) == [op |-> "y_store", r |-> r, accRow |-> accRow]
SwapOut(c) == [op |-> "swap_out", c |-> c]      \* accumulator to its LDS slot
SwapIn(c)  == [op |-> "swap_in", c |-> c]       \* LDS slot to the temporary
MoveTemp(c) == [op |-> "move_temp", c |-> c]    \* temporary to accumulator
Barrier == [op |-> "barrier"]
Advance == [op |-> "advance"]                   \* k_byte_off and k_iter

\* F(0) \o ... \o F(n - 1).
Each(n, F(_)) == FlattenSeq([i \in 1..n |-> F(i - 1)])
When(cond, insns) == IF cond THEN insns ELSE <<>>
FragmentLoads(reg, buf, mat, block, ks) ==
    <<DsLoad(reg, buf, mat, block, ks, 0), DsLoad(reg, buf, mat, block, ks, 1)>>

\* emit_coop_load_buffer, and gemm_gen's coop_gmem_load.
CoopLoad(s) ==
    Each(LoadsPerThread(s, "X"), LAMBDA i : <<BufferLoad("X", i)>>)
    \o Each(LoadsPerThread(s, "WT"), LAMBDA i : <<BufferLoad("WT", i)>>)

\* Mutant: each wait allows one load too many.
StoreGraduatedEarly(s, mat, buf, outstanding) ==
    Each(LoadsPerThread(s, mat), LAMBDA i : <<Wait("vm", outstanding - i), DsStore(mat, i, buf)>>)

\* emit_lds_store_graduated: wait for each load just before it is stored.
StoreGraduated(s, mat, buf, outstanding) ==
    Each(LoadsPerThread(s, mat),
         LAMBDA i : <<Wait("vm", outstanding - 1 - i), DsStore(mat, i, buf)>>)

\* Mutant: the buffer being computed from is stored to.
LdsStoresInPlace(s, buf) ==
    <<Wait("vm", 0)>> \o Each(LoadsPerThread(s, "X"), LAMBDA i : <<DsStore("X", i, 1 - buf)>>)
    \o Each(LoadsPerThread(s, "WT"), LAMBDA i : <<DsStore("WT", i, 1 - buf)>>)

LdsStores(s, buf) ==
    LET x == LoadsPerThread(s, "X")
        wt == LoadsPerThread(s, "WT")
    IN  IF s.gen = "tile_ir"
        THEN StoreGraduated(s, "X", buf, x + wt) \o StoreGraduated(s, "WT", buf, wt)
        ELSE <<Wait("vm", 0)>> \o Each(x, LAMBDA i : <<DsStore("X", i, buf)>>)
             \o Each(wt, LAMBDA i : <<DsStore("WT", i, buf)>>)

\* emit_lds_read_and_wmma, at most four columns: everything is loaded, then
\* each column waits for its own fragments.
BulkStep(s, buf, ks) ==
    LET rows == NRowBlocks(s)
        cols == NColTiles(s)
    IN  Each(rows, LAMBDA r : FragmentLoads(<<"A", r>>, buf, "X", r, ks))
        \o Each(cols, LAMBDA c : FragmentLoads(<<"B", c>>, buf, "WT", c, ks))
        \o Each(cols, LAMBDA c : <<Wait("lgkm", 2 * cols - 2 * c - 2)>>
                \o Each(rows, LAMBDA r : <<Wmma(<<r, c>>, <<"A", r>>, <<"B", c>>)>>))

\* The columns of a streaming step, the fragments of B two columns ahead.
StreamColumns(s, buf, ks, initialWait, products) ==
    LET cols == NColTiles(s)
        B(c) == <<"B", c % 2>>
    IN  FragmentLoads(B(0), buf, "WT", 0, ks) \o FragmentLoads(B(1), buf, "WT", 1, ks)
        \o <<Wait("lgkm", initialWait)>>
        \o Each(cols, LAMBDA c :
              products[c]
              \o When(c + 2 < cols, FragmentLoads(B(c), buf, "WT", c + 2, ks))
              \o When(c + 1 < cols, <<Wait("lgkm", IF c + 2 < cols THEN 2 ELSE 0)>>))

\* More columns: at the last one, each row is followed by the loads of the
\* next step's fragments of A, for all the rows.
StreamStep(s, buf, ks) ==
    LET rows == NRowBlocks(s)
        loadA(k) == Each(rows, LAMBDA r : FragmentLoads(<<"A", r>>, buf, "X", r, k))
    IN  When(ks = 0, loadA(0))
        \o StreamColumns(s, buf, ks, 2 + IF ks > 0 THEN 2 * rows ELSE 0,
              [c \in 0..(NColTiles(s) - 1) |-> Each(rows, LAMBDA r :
                  <<Wmma(<<r, c>>, <<"A", r>>, <<"B", c % 2>>)>>
                  \o When(c = NColTiles(s) - 1 /\ ks + 1 < KSubSteps(s), loadA(ks + 1)))])

\* emit_acc_swap: exchange the accumulators with the slot in LDS.
AccSwap(s) ==
    Each(NColTiles(s), LAMBDA c :
        <<SwapIn(c), Wait("lgkm", 0), SwapOut(c), Wait("lgkm", 0), MoveTemp(c)>>)

\* emit_lds_read_and_wmma_swap: one row block at a time.
SwapCompute(s, buf) ==
    Each(NRowBlocks(s), LAMBDA r :
        Each(KSubSteps(s), LAMBDA ks :
            FragmentLoads(<<"A", 0>>, buf, "X", r, ks)
            \o StreamColumns(s, buf, ks, 2,
                   [c \in 0..(NColTiles(s) - 1) |-> <<Wmma(<<0, c>>, <<"A", 0>>, <<"B", c % 2>>)>>]))
        \o When(NRowBlocks(s) > 1, AccSwap(s)))

\* gemm_gen's lds_read_and_wmma: the first row with each column as it comes,
\* then the other rows one by one.
GenStep(s, buf, ks) ==
    LET cols == NColTiles(s)
        row(r) == FragmentLoads(<<"A", r>>, buf, "X", r, ks)
    IN  row(0) \o Each(cols, LAMBDA c : FragmentLoads(<<"B", c>>, buf, "WT", c, ks))
        \o Each(cols, LAMBDA c : <<Wait("lgkm", 2 * cols - 2 * c - 2),
                                   Wmma(<<0, c>>, <<"A", 0>>, <<"B", c>>)>>)
        \o Each(NRowBlocks(s) - 1, LAMBDA r : row(r + 1) \o <<Wait("lgkm", 0)>>
                \o Each(cols, LAMBDA c : <<Wmma(<<r + 1, c>>, <<"A", r + 1>>, <<"B", c>>)>>))

Compute(s, buf) ==
    IF s.acc_swap THEN SwapCompute(s, buf)
    ELSE Each(KSubSteps(s), LAMBDA ks : IF s.gen = "gemm_gen" THEN GenStep(s, buf, ks)
                                        ELSE IF Streaming(s) THEN StreamStep(s, buf, ks)
                                        ELSE BulkStep(s, buf, ks))

\* The blocks of the kernel, in the order they are laid out.
Blocks == <<"prologue", "A", "B", "epilogA", "epilogB", "store">>
Lowered(s) ==
    LET synced == <<Wait("lgkm", 0), Barrier, Advance>>
        live   == IF s.acc_swap THEN 1 ELSE NRowBlocks(s)
    IN  [b \in {Blocks[i] : i \in 1..6} |->
          CASE b = "prologue" ->
                 When(s.acc_swap, Each(NColTiles(s), LAMBDA c : <<SwapOut(c)>>) \o <<Wait("lgkm", 0)>>)
                 \o CoopLoad(s) \o LdsStores(s, 0) \o synced
            [] b = "A" -> CoopLoad(s) \o Compute(s, 0) \o LdsStores(s, 1) \o synced
            [] b = "B" -> CoopLoad(s) \o Compute(s, 1) \o LdsStores(s, 0) \o synced
            [] b = "epilogA" -> Compute(s, 0)
            [] b = "epilogB" -> Compute(s, 1)
            [] b = "store" ->
                 Each(NRowBlocks(s), LAMBDA r :
                    When(s.acc_swap /\ r > 0, AccSwap(s)) \o <<YStore(r, IF live = 1 THEN 0 ELSE r)>>)]

\* Mutant: after phase A the rest is computed from the buffer it has just used.
SuccessorStale(block, more) ==
    CASE block \in {"prologue", "A", "B"} -> IF ~more THEN "epilogA" ELSE IF block = "A" THEN "B" ELSE "A"
      [] block \in {"epilogA", "epilogB"} -> "store"
      [] block = "store" -> "end"

\* Mutant: the kernel does not end after its stores.
SuccessorEndless(block, more) ==
    CASE block \in {"prologue", "B"} -> IF more THEN "A" ELSE "epilogA"
      [] block = "A" -> IF more THEN "B" ELSE "epilogB"
      [] OTHER -> "store"

\* Where a wave goes at the end of a block, more telling whether k_iter < k_end.
Successor(block, more) ==
    CASE block \in {"prologue", "B"} -> IF more THEN "A" ELSE "epilogA"
      [] block = "A" -> IF more THEN "B" ELSE "epilogB"
      [] block \in {"epilogA", "epilogB"} -> "store"
      [] block = "store" -> "end"

-----------------------------------------------------------------------------
(* The passes over the waits.  Both count the operations that may be       *)
(* outstanding; neither changes any other instruction.                     *)

Counts(ins, counter) ==
    CASE counter = "vm" -> ins.op = "buffer_load"
      [] counter = "lgkm" -> ins.op \in {"ds_load", "ds_store", "swap_in", "swap_out"}
IsWait(ins, counter) == ins.op = "wait" /\ ins.counter = counter

\* How many operations a pass takes to be outstanding after i instructions: those
\* issued since it knew of n, for the entry and for each wait that left n.
Outstanding(insns, counter, atEntry, i) ==
    LET waits == {j \in 1..i : IsWait(insns[j], counter)}
        all   == Max({0} \cup {j \in waits : insns[j].n = 0})    \* the last to wait for all
        since(j) == Cardinality({h \in (j + 1)..i : Counts(insns[h], counter)})
    IN  Min({since(all) + IF all = 0 THEN atEntry ELSE 0}
            \cup {insns[j].n + since(j) : j \in {w \in waits : w > all}})

Rewritten(block, NewWait(_)) ==
    FlattenSeq([i \in DOMAIN block |-> IF block[i].op = "wait" THEN NewWait(i) ELSE <<block[i]>>])

\* optimize_waitcnt_mach_func: a wait that cannot wait is dropped.  It takes nothing
\* to be outstanding after a branch, and knows nothing after a label; lower_gemm's
\* scheduler pass is left out: it leaves blocks with buffer loads alone, and elsewhere
\* only address arithmetic stands between the loads and their wait.
Unknown == 1000
OptimizeWaitcnt(name, block) ==
    LET atEntry == IF name \in {"A", "B"} THEN 0 ELSE Unknown
    IN  Rewritten(block, LAMBDA i :
            When(Outstanding(block, block[i].counter, atEntry, i - 1) > block[i].n, <<block[i]>>))

\* AsmEmitter: a wait is clamped to what was emitted before it, in textual order.
EmitWaits(before, block) ==
    LET text == before \o block
        known(i) == Outstanding(text, block[i].counter, 0, Len(before) + i - 1)
    IN  Rewritten(block, LAMBDA i :
            When(block[i].n > 0 \/ known(i) > 0,
                 <<Wait(block[i].counter, LeastOf(block[i].n, known(i)))>>))

\* lower_gemm asks for the optimizer (set_opt_level), gemm_gen refuses it.
Optimized(s, lowered) ==
    IF s.gen = "tile_ir" THEN [b \in DOMAIN lowered |-> OptimizeWaitcnt(b, lowered[b])] ELSE lowered
Emitted(opt) ==
    LET textBefore(i) == Each(i - 1, LAMBDA j : opt[Blocks[j + 1]])
    IN  [b \in DOMAIN opt |-> EmitWaits(textBefore(CHOOSE i \in DOMAIN Blocks : Blocks[i] = b), opt[b])]

\* The one kernel a specification compiles to; each stage's result is bound, and so
\* computed, once.
Compiled(s) == {Emitted(opt) : opt \in {Optimized(s, lowered) : lowered \in {Lowered(s)}}}

-----------------------------------------------------------------------------
(* A workgroup running a kernel.                                           *)

VARIABLES
    problem,   \* the launch
    code,      \* its kernel: the instructions of each block
    part,      \* this workgroup's partition of K
    at,        \* for each wave: its block and the instruction in it
    kIter,     \* k_iter, a scalar register of each wave
    kOff,      \* k_byte_off of each wave, in elements
    vm,        \* the outstanding global loads of each wave, in order
    lgkm,      \* the outstanding LDS operations of each wave, in order
    reg,       \* vector registers of each wave, by the name of what they hold
    acc,       \* accumulators of each wave: the products in them
    lds,       \* shared memory: for each slice of a tile, the K it came from
    slot,      \* shared memory: the exchanged accumulators of each wave
    y,         \* what was stored to Y: for each wave, row block and column
    arrived    \* the waves waiting at a barrier

vars == <<problem, code, part, at, kIter, kOff, vm, lgkm, reg, acc, lds, slot, y, arrived>>

kernel == <<problem, code>>
Spc == problem.spec
Waves == 0..(NWaves(Spc) - 1)
Ended(w) == at[w].block = "end"
Ins(w) == code[at[w].block][at[w].i]
Ready(w, op) == /\ ~Ended(w) /\ w \notin arrived
                /\ at[w].i <= Len(code[at[w].block])
                /\ Ins(w).op = op

\* A slice is the rows one wave moves with one instruction.
Slice(w, i) == i * NWaves(Spc) + w
SlicesOf(w, load) ==
    LET rows  == 32 \div ChunksPerRow(Spc)
        block == load.block + IF load.mat = "X" THEN w * NRowBlocks(Spc) ELSE 0
    IN  {g \in DOMAIN lds[0][load.mat] : (g * rows) \div 16 = block}

Nothing == [block |-> -1, half |-> -1, k |-> {}]
AccRows == IF Spc.acc_swap THEN {0} ELSE 0..(NRowBlocks(Spc) - 1)
Cols == 0..(NColTiles(Spc) - 1)
AtStart == [block |-> "prologue", i |-> 1]

Init ==
    /\ problem \in Problems
    /\ code \in Compiled(Spc)
    /\ part \in 0..(Spc.split_k - 1)
    /\ at = [w \in Waves |-> AtStart]
    /\ kIter = [w \in Waves |-> 0]
    /\ kOff = [w \in Waves |-> IF Spc.gen = "gemm_gen" THEN KStart(Spc, problem.args.k, part) ELSE 0]
    /\ vm = [w \in Waves |-> <<>>]
    /\ lgkm = [w \in Waves |-> <<>>]
    /\ reg = [w \in Waves |-> <<>>]
    /\ acc = [w \in Waves |-> [rc \in AccRows \X Cols |-> EmptyBag]]
    /\ lds = [b \in {0, 1} |-> [mat \in {"X", "WT"} |->
                [g \in 0..(LoadsPerThread(Spc, mat) * NWaves(Spc) - 1) |-> -1]]]
    /\ slot = [w \in Waves |-> [c \in Cols |-> EmptyBag]]
    /\ y = [w \in Waves |-> <<>>]
    /\ arrived = {}

Step(w) == at' = [at EXCEPT ![w].i = @ + 1]

\* The rows' base already holds the partition's start in lower_gemm, not in gemm_gen.
BufferLoadStep(w) ==
    /\ Ready(w, "buffer_load")
    /\ LET base == IF Spc.gen = "tile_ir" THEN KStart(Spc, problem.args.k, part) ELSE 0
       IN  vm' = [vm EXCEPT ![w] = Append(@, [dst |-> Ins(w).dst, k |-> base + kOff[w]])]
    /\ Step(w)
    /\ UNCHANGED <<kernel, part, kIter, kOff, lgkm, reg, acc, lds, slot, y, arrived>>

\* What an LDS operation will do, with the registers it reads as they are now.
Queued(w, ins) ==
    CASE ins.op = "ds_store" ->
           [op |-> ins.op, src |-> ins.src, buf |-> ins.buf,
            value |-> reg[w][ins.src], slice |-> Slice(w, ins.src[2])]
      [] ins.op = "swap_out" -> [op |-> ins.op, c |-> ins.c, value |-> acc[w][<<0, ins.c>>]]
      [] OTHER -> ins

LdsStep(w) ==
    /\ \E op \in {"ds_load", "ds_store", "swap_in", "swap_out"} : Ready(w, op)
    /\ lgkm' = [lgkm EXCEPT ![w] = Append(@, Queued(w, Ins(w)))]
    /\ Step(w)
    /\ UNCHANGED <<kernel, part, kIter, kOff, vm, reg, acc, lds, slot, y, arrived>>

\* The registers R, with v in r.
With(R, r, v) == [x \in DOMAIN R \cup {r} |-> IF x = r THEN v ELSE R[x]]

\* The oldest operation lands at a wait as long as more than n are outstanding.
Lands(w, counter, queue) ==
    /\ ~Ended(w) /\ queue # <<>>
    /\ \/ problem \in Prompt
       \/ Ready(w, "wait") /\ Ins(w).counter = counter /\ Len(queue) > Ins(w).n

Queue(w) == IF Ins(w).counter = "vm" THEN vm[w] ELSE lgkm[w]
WaitStep(w) ==
    /\ Ready(w, "wait") /\ Len(Queue(w)) <= Ins(w).n
    /\ Step(w)
    /\ UNCHANGED <<kernel, part, kIter, kOff, vm, lgkm, reg, acc, lds, slot, y, arrived>>

BufferLoadLands(w) ==
    /\ Lands(w, "vm", vm[w])
    /\ reg' = [reg EXCEPT ![w] = With(@, Head(vm[w]).dst, Head(vm[w]).k)]
    /\ vm' = [vm EXCEPT ![w] = Tail(@)]
    /\ UNCHANGED <<kernel, part, at, kIter, kOff, lgkm, acc, lds, slot, y, arrived>>

LdsLands(w, op) ==
    /\ Lands(w, "lgkm", lgkm[w]) /\ Head(lgkm[w]).op = op
    /\ lgkm' = [lgkm EXCEPT ![w] = Tail(@)]
    /\ UNCHANGED <<kernel, part, at, kIter, kOff, vm, acc, y, arrived>>

DsStoreLands(w) ==
    /\ LdsLands(w, "ds_store")
    /\ LET o == Head(lgkm[w]) IN lds' = [lds EXCEPT ![o.buf][o.src[1]][o.slice] = o.value]
    /\ UNCHANGED <<reg, slot>>

\* A fragment holds a half of the rows of its block, from wherever their slices came.
DsLoadLands(w) ==
    /\ LdsLands(w, "ds_load")
    /\ LET o == Head(lgkm[w])
           came == {lds[o.buf][o.mat][g] : g \in SlicesOf(w, o)}
           frag == [block |-> o.block, half |-> o.half, k |-> {k + 16 * o.ks : k \in came}]
       IN  reg' = [reg EXCEPT ![w] = With(@, o.dst, frag)]
    /\ UNCHANGED <<lds, slot>>

SwapOutLands(w) ==
    /\ LdsLands(w, "swap_out")
    /\ slot' = [slot EXCEPT ![w][Head(lgkm[w]).c] = Head(lgkm[w]).value]
    /\ UNCHANGED <<reg, lds>>

SwapInLands(w) ==
    /\ LdsLands(w, "swap_in")
    /\ reg' = [reg EXCEPT ![w] = With(@, <<"temp">>, slot[w][Head(lgkm[w]).c])]
    /\ UNCHANGED <<lds, slot>>

Held(w, r) == IF r \in DOMAIN reg[w] THEN reg[w][r] ELSE Nothing
Fragment(w, r) == <<Held(w, Append(r, 0)), Held(w, Append(r, 1))>>

\* A product of the fragments in the registers is added to an accumulator.
WmmaStep(w) ==
    /\ Ready(w, "wmma")
    /\ LET product == <<Fragment(w, Ins(w).a), Fragment(w, Ins(w).b)>>
       IN  acc' = [acc EXCEPT ![w][Ins(w).acc] = @ (+) SetToBag({product})]
    /\ Step(w)
    /\ UNCHANGED <<kernel, part, kIter, kOff, vm, lgkm, reg, lds, slot, y, arrived>>

MoveTempStep(w) ==
    /\ Ready(w, "move_temp")
    /\ acc' = [acc EXCEPT ![w][<<0, Ins(w).c>>] = reg[w][<<"temp">>]]
    /\ Step(w)
    /\ UNCHANGED <<kernel, part, kIter, kOff, vm, lgkm, reg, lds, slot, y, arrived>>

YStoreStep(w) ==
    /\ Ready(w, "y_store")
    /\ y' = [y EXCEPT ![w] = [rc \in ({Ins(w).r} \X Cols) \cup DOMAIN @ |->
                IF rc[1] = Ins(w).r THEN acc[w][<<Ins(w).accRow, rc[2]>>] ELSE @[rc]]]
    /\ Step(w)
    /\ UNCHANGED <<kernel, part, kIter, kOff, vm, lgkm, reg, acc, lds, slot, arrived>>

AdvanceStep(w) ==
    /\ Ready(w, "advance")
    /\ kOff' = [kOff EXCEPT ![w] = @ + Spc.tile_k]
    /\ kIter' = [kIter EXCEPT ![w] = @ + Spc.tile_k]
    /\ Step(w)
    /\ UNCHANGED <<kernel, part, vm, lgkm, reg, acc, lds, slot, y, arrived>>

BranchStep(w) ==
    /\ ~Ended(w) /\ at[w].i > Len(code[at[w].block])
    /\ at' = [at EXCEPT ![w] =
                [block |-> Successor(@.block, kIter[w] < KEnd(Spc, problem.args.k)), i |-> 1]]
    /\ UNCHANGED <<kernel, part, kIter, kOff, vm, lgkm, reg, acc, lds, slot, y, arrived>>

BarrierStep(w) ==
    /\ Ready(w, "barrier")
    /\ arrived' = arrived \cup {w}
    /\ UNCHANGED <<kernel, part, at, kIter, kOff, vm, lgkm, reg, acc, lds, slot, y>>

\* The barrier opens when every wave that has not ended is there.
BarrierOpens ==
    /\ arrived # {} /\ arrived = {w \in Waves : ~Ended(w)}
    /\ arrived' = {}
    /\ at' = [w \in Waves |-> IF w \in arrived THEN [at[w] EXCEPT !.i = @ + 1] ELSE at[w]]
    /\ UNCHANGED <<kernel, part, kIter, kOff, vm, lgkm, reg, acc, lds, slot, y>>

AllEnded == (\A w \in Waves : Ended(w)) /\ UNCHANGED vars

WaveStep(w) ==
    \/ BufferLoadStep(w) \/ LdsStep(w) \/ WaitStep(w) \/ BufferLoadLands(w)
    \/ DsStoreLands(w) \/ DsLoadLands(w) \/ SwapOutLands(w) \/ SwapInLands(w)
    \/ WmmaStep(w) \/ MoveTempStep(w) \/ YStoreStep(w)
    \/ AdvanceStep(w) \/ BranchStep(w) \/ BarrierStep(w)

Next == (\E w \in Waves : WaveStep(w)) \/ BarrierOpens \/ AllEnded

\* A wave that can issue eventually does, and an open barrier lets its waves through.
Fairness == WF_vars(\E w \in Waves : WaveStep(w)) /\ WF_vars(BarrierOpens)
Spec == Init /\ [][Next]_vars /\ Fairness

-----------------------------------------------------------------------------

\* OperandsArrived: no instruction reads, and no load overwrites, a register an
\* outstanding load will still write.  The waits are what lower_gemm and gemm_gen
\* put there by counting, after two passes dropped or clamped some of them.
Sources(ins) ==
    CASE ins.op = "ds_store" -> {ins.src}
      [] ins.op = "wmma" -> {Append(ins.a, h) : h \in {0, 1}} \cup {Append(ins.b, h) : h \in {0, 1}}
      [] ins.op = "move_temp" -> {<<"temp">>}
      [] ins.op \in {"buffer_load"} -> {ins.dst}
      [] OTHER -> {}
Pending(w) ==
    {vm[w][i].dst : i \in DOMAIN vm[w]}
    \cup {IF o.op = "ds_load" THEN o.dst ELSE <<"temp">> :
            o \in {lgkm[w][i] : i \in {j \in DOMAIN lgkm[w] : lgkm[w][j].op \in {"ds_load", "swap_in"}}}}
OperandsArrived ==
    \A w \in Waves : (~Ended(w) /\ at[w].i <= Len(code[at[w].block]))
        => Sources(Ins(w)) \cap Pending(w) = {}

\* The kernels it holds of: a streaming step loads the next step's fragments of A over
\* those its products still read, so a tile must be one step.
Staged(s) == Streaming(s) /\ ~s.acc_swap => KSubSteps(s) <= 1

\* NoLdsRace: an LDS operation of one wave never overlaps, unordered, a store of
\* another to the same slice: the two buffers and the one barrier per tile suffice.
Touches(w, o) ==
    CASE o.op = "ds_store" -> {<<o.buf, o.src[1], o.slice>>}
      [] o.op = "ds_load" -> {<<o.buf, o.mat, g>> : g \in SlicesOf(w, o)}
      [] OTHER -> {}
NoLdsRace ==
    \A w1, w2 \in Waves : w1 # w2 =>
        \A i \in DOMAIN lgkm[w1], j \in DOMAIN lgkm[w2] :
            lgkm[w1][i].op = "ds_store" =>
                Touches(w1, lgkm[w1][i]) \cap Touches(w2, lgkm[w2][j]) = {}

\* EachProductOnce: when the kernel ends, what was stored for a row block and a column
\* is the sum of the products of their fragments, once for each 16 elements of the
\* workgroup's share of K, nothing from beyond it and nothing from a stale buffer.
Expected(w, r, c) ==
    LET frag(block, k) == <<[block |-> block, half |-> 0, k |-> {k}],
                            [block |-> block, half |-> 1, k |-> {k}]>>
        start == KStart(Spc, problem.args.k, part)
    IN  SetToBag({<<frag(r, k), frag(c, k)>> :
                    k \in {j \in start..(start + CeilDiv(problem.k, Spc.split_k) - 1) : j % 16 = 0}})
EachProductOnce ==
    (\A w \in Waves : Ended(w)) =>
        \A w \in Waves, r \in 0..(NRowBlocks(Spc) - 1), c \in Cols : y[w][<<r, c>>] = Expected(w, r, c)

\* The launches it holds of: a wave computes whole blocks, a tile is whole steps of K and
\* is moved by loads of the whole workgroup, and the share of K is whole tiles, of which
\* the matrices fill all but part of the last step.
Whole(p) ==
    LET s == p.spec
        end == KEnd(s, p.args.k)
    IN  /\ Staged(s) /\ s.gen \in {"tile_ir", "gemm_gen"}
        /\ NRowBlocks(s) >= 1 /\ (s.acc_swap => NRowBlocks(s) <= 2)
        /\ s.tile_k % 16 = 0 /\ ChunksPerRow(s) \in {2, 4, 8, 16, 32} /\ s.wg_size % 32 = 0
        /\ \A mat \in {"X", "WT"} :
              LoadsPerThread(s, mat) * s.wg_size = TileRows(s, mat) * ChunksPerRow(s)
        /\ end \in Nat \ {0} /\ end % s.tile_k = 0
        /\ CeilDiv(p.k, s.split_k) \in (end - 15)..end

\* LayoutRight: the fragments are read where their rows were written, no two chunks of
\* a buffer share an address or leave the 64 KB, the partitions are whole tiles that
\* make up K, and the workgroups of the grid, told the sizes they are told, store every
\* element of Y, once per partition, none of them twice and nothing outside Y.
LdsRight(s) ==
    LET written(mat) == LoadedChunks(s, mat)
        both == written("X") \cup written("WT")
    IN  /\ \A mat \in {"X", "WT"} : \A ch \in written(mat) :
              FragmentChunk(s, mat, ch.row \div 16, ch.row % 16, ch.col \div 2, ch.col % 2) = ch.at
        /\ Cardinality({ch.at : ch \in both}) = LdsBuffer(s)
        /\ \A ch \in both : ch.at \in 0..(LdsBuffer(s) - 1)
        /\ LdsTotal(s) * 16 <= 65536
StoresRight(p) ==
    LET s == p.spec
        wgs == {wg \in {Decompose(s, t) : t \in p.wgs} : ~LeavesEarly(p, wg)}
        blocks == wgs \X (0..(NWaves(s) - 1)) \X (0..(NRowBlocks(s) - 1)) \X (0..(NColTiles(s) - 1))
        addresses == [b \in blocks |->
            {YAddress(p, b[1].part, e) : e \in
                {q \in {Stores(s, b[1], b[2], lv[1], b[3], b[4], lv[2]) : lv \in (0..31) \X (0..7)} :
                    StoreMask(p, q)}}]
        stored == [b \in blocks |-> Cardinality(addresses[b])]
        all == UNION {addresses[b] : b \in blocks}
    IN  /\ KEnd(s, p.args.k) % s.tile_k = 0 /\ KEnd(s, p.args.k) * s.split_k = p.args.k
        /\ all \subseteq 0..(p.y - 1)
        /\ \A id \in 0..(s.split_k - 1), row \in 0..(p.m - 1), col \in 0..(p.n - 1) :
              YAddress(p, id, <<row, col>>) \in all
        /\ MapThenSumSet(LAMBDA b : stored[b], blocks) = Cardinality(all)
LayoutOf(p) == LdsRight(p.spec) /\ StoresRight(p)

\* The launches it holds of: waves compute whole blocks and load whole rounds, the rounds of
\* lower_gemm keep the rows' place in the exchange of the banks, everything fits, and the
\* grid and the arguments are those of the multiplication, on whole tiles if nothing is masked.
Laid(p) ==
    LET s == p.spec
        a == p.args
    IN  /\ s.gen \in {"tile_ir", "gemm_gen"} /\ s.passes = 1
        /\ s.tile_m = 16 * NWaves(s) * NRowBlocks(s) /\ s.tile_n % 16 = 0 /\ s.wg_size % 32 = 0
        /\ s.tile_k % 16 = 0 /\ ChunksPerRow(s) \in {2, 4, 8, 16, 32}
        /\ \A mat \in {"X", "WT"} :
              LoadsPerThread(s, mat) * s.wg_size = TileRows(s, mat) * ChunksPerRow(s)
        /\ s.gen = "tile_ir" => RowsPerPass(s) % 8 = 0 /\ (s.acc_swap => s.tile_k = 16)
        /\ LdsTotal(s) * 16 <= 65536
        /\ {p.m, p.n, a.n} \subseteq Nat \ {0} /\ {a.k, a.y_stride, p.y} \subseteq Nat
        /\ a.m = p.m /\ a.n >= p.n /\ a.k % (s.tile_k * s.split_k) = 0
        /\ s.gen = "gemm_gen" \/ s.acc_swap => p.m % s.tile_m = 0 /\ p.n % s.tile_n = 0
        /\ s.split_k > 1 => a.y_stride >= p.m * a.n
        /\ p.y >= (s.split_k - 1) * a.y_stride + p.m * a.n
        /\ p.wgs = ComputeGrid(s, p.m, p.n)
LayoutRight == (part = 0 /\ \A w \in Waves : at[w] = AtStart) => LayoutOf(problem)

\* KernelEnds: no wave waits for ever at a barrier, and the loop over K ends.
KernelEnds == <>(\A w \in Waves : Ended(w))
=============================================================================
