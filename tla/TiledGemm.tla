----------------------------- MODULE TiledGemm -----------------------------
(***************************************************************************)
(* How a multiplication reaches the generators of module GemmKernel: the   *)
(* choice of a configuration (src/src/t0/gemm_gen.rs, cost_model.rs), the  *)
(* Dot operation and the tile program of the SSA front end (tile_ssa.rs,   *)
(* tile_ssa_lower.rs), and BlockDSL's tile_gemm (block_dsl.rs,             *)
(* block_dsl_to_ssa.rs), with the grids and the arguments their callers    *)
(* launch the kernels with.                                                *)
(*                                                                         *)
(* What the cost model computes from its estimates of time is left out: it *)
(* may choose any of the configurations it finds feasible.                 *)
(***************************************************************************)
EXTENDS GemmKernel

-----------------------------------------------------------------------------
(* Presets.                                                                *)

\* TileGemm's presets, and GemmConfig's that share the tile in LDS.
TilePresets ==
    {TileGemm(t[1], t[2], t[3]) : t \in
        {<<128, 64, 16>>, <<64, 64, 16>>, <<64, 64, 32>>, <<64, 64, 64>>, <<32, 64, 16>>,
         <<128, 64, 32>>, <<64, 128, 32>>, <<64, 128, 16>>, <<128, 128, 16>>, <<128, 128, 32>>,
         <<128, 128, 48>>, <<256, 64, 32>>, <<256, 64, 64>>, <<128, 128, 64>>, <<128, 64, 64>>}}
    \cup {[TileGemm(128, 128, tk) EXCEPT !.acc_swap = TRUE] : tk \in {16, 32}}
TwoPasses(s) == [s EXCEPT !.passes = 2]
SplitBy(s, sk) == [s EXCEPT !.split_k = sk]
SweepConfigs ==
    {GemmConfig(16, 64, 16, 32), GemmConfig(32, 64, 16, 64), GemmConfig(32, 64, 32, 64),
     GemmConfig(32, 128, 16, 64), GemmConfig(64, 64, 16, 64), GemmConfig(64, 64, 32, 64),
     GemmConfig(128, 64, 16, 128), GemmConfig(64, 128, 16, 64), GemmConfig(128, 64, 32, 128)}
GemmPresets ==
    SweepConfigs
    \cup {GemmConfig(128, 128, 16, 128), GemmConfig(64, 64, 64, 64)}
    \cup {TwoPasses(GemmConfig(128, 64, 16, 128)), TwoPasses(GemmConfig(64, 64, 16, 64))}
StandardConfigs ==
    (SweepConfigs \ {GemmConfig(128, 64, 16, 128), GemmConfig(64, 128, 16, 64)})
    \cup {SplitBy(GemmConfig(32, 64, 32, 64), 2), SplitBy(GemmConfig(16, 64, 16, 32), 4)}
    \cup {SplitBy(GemmConfig(64, 64, 32, 64), sk) : sk \in {2, 4}}
    \cup {SplitBy(GemmConfig(64, 64, 16, 64), sk) : sk \in {4, 8}}
    \cup {SplitBy(GemmConfig(128, 64, 32, 128), 2)}

\* The registers a kernel of gemm_gen is taken to need: accumulators, fragments,
\* staging for the global loads, addresses.
EstimatedVgprs(s) ==
    LET rows == NRowBlocks(s)
        cols == NColTiles(s)
    IN  8 * rows * cols + 8 * rows + 8 * cols
        + 4 * (LoadsPerThread(s, "X") + LoadsPerThread(s, "WT")) + 49
IsFeasible(s) == EstimatedVgprs(s) <= 256
\* generate panics otherwise.
Generates(s) == IsFeasible(s) /\ Lowers(s)

-----------------------------------------------------------------------------
(* The cost model's search: [tile_m, tile_n, tile_k, waves, split_k, wgp,  *)
(* swap_grid, pad].                                                        *)

ToGemmConfig(c) ==
    [GemmConfig(c.tile_m, LeastOf(c.tile_n, 64), c.tile_k, 32 * c.waves) EXCEPT
        !.split_k = c.split_k, !.swap_grid = c.swap_grid, !.pad = c.pad,
        !.passes = IF c.tile_n > 64 THEN c.tile_n \div 64 ELSE 1]

ToTileGemm(c) == [TileGemm(c.tile_m, c.tile_n, c.tile_k) EXCEPT !.split_k = c.split_k]
CanUseTileIr(c) ==
    /\ c.tile_k \in {2^i : i \in 0..10} /\ c.tile_m >= 32 /\ c.tile_n >= 32
    /\ c.waves = c.tile_m \div 32 /\ c.swap_grid /\ c.split_k = 1

\* estimate_tile_cost's conditions: registers, shared memory, and that the waves of a
\* workgroup fit on a processor.
TileCostFeasible(c, k) ==
    LET m_wmma == (c.tile_m \div c.waves) \div 16
        n_wmma == c.tile_n \div 16
        vgprs  == 8 * (n_wmma * m_wmma + m_wmma + n_wmma) + 6 + 4
        shared == 2 * (c.tile_m + c.tile_n) * (c.tile_k * 2 + c.pad)
        byVgpr == IF vgprs <= 64 THEN 16 ELSE IF vgprs <= 96 THEN 10
                  ELSE IF vgprs <= 128 THEN 8 ELSE IF vgprs <= 192 THEN 4 ELSE 2
        occupancy == Min({byVgpr, 131072 \div shared, 16})
    IN  /\ vgprs <= 256 /\ shared <= 65536
        /\ c.waves <= occupancy * (IF c.wgp THEN 4 ELSE 2)
        /\ k % (c.split_k * c.tile_k) = 0

\* auto_schedule_gemm's loops.
Considered(k) ==
    {c \in [tile_m : {32, 64, 128}, tile_n : {64, 128}, tile_k : {16, 32, 48, 64}, waves : {2, 4, 8},
            split_k : {1, 2, 4, 8}, wgp : BOOLEAN, swap_grid : BOOLEAN, pad : {0, 4, 8}] :
        /\ c.tile_m % (c.waves * 16) = 0
        /\ k % (c.split_k * c.tile_k) = 0 /\ c.split_k <= k \div c.tile_k}
\* analyze_kloop generates the kernel of each configuration that seems to fit.
SearchEnds(k) ==
    \A c \in Considered(k) : IsFeasible(ToGemmConfig(c)) => Generates(ToGemmConfig(c))
Candidates(k) ==
    {c \in Considered(k) : TileCostFeasible(c, k) /\ IsFeasible(ToGemmConfig(c))}

\* auto_select is predict_best: any of the best, or the legacy choice when there is none.
AutoSelect(m, k, n) ==
    IF Candidates(k) = {} THEN {LegacySelect(m, k, n)} ELSE {ToGemmConfig(c) : c \in Candidates(k)}

\* The gradients of Y = X WT^T: with respect to X, of which the caller has transposed
\* WT, and with respect to WT, of which it has transposed both factors.
BackwardData(m, n_orig, k_orig) ==
    {Launch(s, m, n_orig, k_orig) : s \in AutoSelect(m, n_orig, k_orig)}
BackwardWeight(m, n_orig, k_orig) ==
    {Launch(s, n_orig, m, k_orig) : s \in AutoSelect(n_orig, m, k_orig)}

-----------------------------------------------------------------------------
(* The SSA front end.  A value is its type, an operation a record.         *)

Scalar(dtype) == [kind |-> "scalar", dtype |-> dtype]
Pointer == [kind |-> "ptr"]
Shared == [name |-> "shared", pad |-> 0]
Mma(m, n) == [name |-> "mma", m_per_wave |-> m, n_tiles |-> n]
Tile(rows, cols, dtype, layout) ==
    [kind |-> "tile", rows |-> rows, cols |-> cols, dtype |-> dtype, layout |-> layout]

\* dot of two tiles, lowered to a whole kernel by lower_dot.
DotAccepts(a, b) ==
    /\ a.kind = "tile" /\ b.kind = "tile" /\ a.cols = b.rows
    /\ a.dtype = b.dtype /\ a.dtype \in {"bf16", "f16", "f32"}
Dot(a, b) == Tile(a.rows, b.cols, "f32", "deferred")
\* lower_dot gives up the split: its one kernel has no pass that adds the partitions.
LowerDot(m, k, n) == {SplitBy(s, 1) : s \in AutoSelect(m, k, n)}

\* The tile operations, and what their builders assert.
TileZeros(rows, cols) == [op |-> "splat", result |-> Tile(rows, cols, "f32", Mma(rows, cols \div 16))]
TileLoad2D(rows, cols, dtype) == [op |-> "tile_load_2d", result |-> Tile(rows, cols, dtype, Shared)]
TileDotAccepts(a, b, sum) ==
    /\ a.kind = "tile" /\ b.kind = "tile" /\ sum.kind = "tile" /\ a.cols = b.rows
    /\ sum.rows = a.rows /\ sum.cols = b.cols /\ sum.dtype = "f32"
TileDot(a, b) == [op |-> "tile_dot", result |-> Tile(a.rows, b.cols, "f32", Mma(a.rows, b.cols \div 16))]
TileStore2D == [op |-> "tile_store_2d"]

\* The program block_to_ssa makes of a tile_gemm, and the one the tests of the SSA
\* front end build by hand: one step of the loop over K, for the analysis to look at.
ScalarOps ==
    <<[op |-> "program_id", axis |-> 0], [op |-> "program_id", axis |-> 1],
      [op |-> "const"], [op |-> "const"], [op |-> "mul"], [op |-> "mul"]>>
TileProgram(tm, tn, tk) ==
    LET zeros == TileZeros(tm, tn)
        a == TileLoad2D(tm, tk, "bf16")
        b == TileLoad2D(tk, tn, "bf16")
    IN  [args |-> <<Pointer, Pointer, Pointer, Scalar("u32"), Scalar("u32")>>,
         ops |-> ScalarOps \o <<zeros, [op |-> "const"], a, b>>
                 \o (IF TileDotAccepts(a.result, b.result, zeros.result)
                     THEN <<TileDot(a.result, b.result)>> ELSE <<>>)
                 \o <<TileStore2D>>]

\* analyze_tiled_gemm: the tile sizes of a program, or none.
Analyze(func) ==
    LET is(name) == SelectSeq(func.ops, LAMBDA o : o.op = name)
        loads == is("tile_load_2d")
        a == loads[1].result
        b == loads[2].result
    IN  IF is("tile_dot") = <<>> \/ is("tile_store_2d") = <<>> \/ Len(loads) < 2 \/ Len(func.args) < 5
        THEN {}
        ELSE IF a.cols = b.rows THEN {[tile_m |-> a.rows, tile_n |-> b.cols, tile_k |-> a.cols]}
        ELSE IF a.cols = b.cols THEN {[tile_m |-> a.rows, tile_n |-> b.rows, tile_k |-> a.cols]}
        ELSE {}

\* lower_tiled_gemm: the kernel has the program's tiles and nothing else of it.
LowerTiledGemm(func) == {TileGemm(d.tile_m, d.tile_n, d.tile_k) : d \in Analyze(func)}

\* LoweredTiledGemm's arguments have no place for M, which the kernel loads from after
\* them: it gets what an earlier dispatch left in its slot.
TiledKernargs(k, n, left) == [k |-> k, n |-> n, m |-> left, y_stride |-> 0]
TiledLaunch(s, m, k, n, left) == [Launch(s, m, k, n) EXCEPT !.args = TiledKernargs(k, n, left)]

-----------------------------------------------------------------------------
(* BlockDSL: TileGemmConfig is [tile_m, tile_n, tile_k, split_k,           *)
(* swap_grid].                                                             *)

TileGemmConfig(tm, tn, tk) ==
    [tile_m |-> tm, tile_n |-> tn, tile_k |-> tk, split_k |-> 1, swap_grid |-> TRUE]
TileGemmConfigAuto(m, k, n) ==
    {[tile_m |-> s.tile_m, tile_n |-> s.tile_n, tile_k |-> s.tile_k,
      split_k |-> s.split_k, swap_grid |-> s.swap_grid] : s \in AutoSelect(m, k, n)}
\* to_gemm_config, from which callers take the workgroup, the grid and the arguments.
ConfigOf(c) ==
    [GemmConfig(c.tile_m, c.tile_n, c.tile_k, (c.tile_m \div 32) * 32) EXCEPT
        !.split_k = c.split_k, !.swap_grid = c.swap_grid]

\* tile_gemm asserts the types of its arguments.
TileGemmAccepts(args) ==
    /\ \A i \in 1..3 : args[i] = Pointer
    /\ \A i \in 4..5 : args[i] = Scalar("u32")
\* compile: a kernel with a tile_gemm is its tile program, lowered.
CompileViaSsa(c) ==
    LET func == TileProgram(c.tile_m, c.tile_n, c.tile_k)
    IN  IF TileGemmAccepts(func.args) THEN LowerTiledGemm(func) ELSE {}

\* The grid of the suite's test runner, which pads the matrices to whole tiles and
\* tells the kernel the padded sizes.
Padded(x, tile) == CeilDiv(x, tile) * tile
SuiteLaunch(c, m, k, n) ==
    {[spec |-> s, m |-> m, k |-> k, n |-> n,
      wgs |-> ComputeGrid(SplitBy(ConfigOf(c), 1), m, n),
      args |-> [k |-> Padded(k, c.tile_k), n |-> Padded(n, c.tile_n), m |-> m,
                y_stride |-> IF c.split_k > 1 THEN m * n ELSE 0],
      y |-> Padded(m, c.tile_m) * Padded(n, c.tile_n)] : s \in CompileViaSsa(c)}
\* test_tile_gemm_via_block_dsl: grid and arguments from the configuration, no M.
DslLaunch(c, m, k, n, left) ==
    {[TiledLaunch(s, m, k, n, left) EXCEPT !.wgs = ComputeGrid(ConfigOf(c), m, n)] :
        s \in CompileViaSsa(c)}

-----------------------------------------------------------------------------
(* What holds of them all, evaluated once.                                 *)

\* The presets the generators refuse are the ones whose rows are not a power of two of
\* chunks, and, of gemm_gen's, those that need more registers than there are.
ASSUME PresetsLower ==
    /\ {s \in TilePresets : ~Lowers(s)} = {TileGemm(128, 128, 48)}
    /\ {s \in GemmPresets : ~Generates(s)} = {GemmConfig(64, 128, 16, 64), GemmConfig(128, 128, 16, 128)}
    /\ \A s \in StandardConfigs : Generates(s)

\* The cost model generates every configuration it considers to count instructions,
\* and generating one with rows of 48 panics: it can choose for a K unless 48 divides K.
ASSUME SearchEndsUnlessK48 ==
    \A k \in {16 * i : i \in 1..12} : SearchEnds(k) <=> k % 48 # 0

\* Eight waves are too many for a tile of 64 columns and 16 of K: such a kernel, which
\* gemm_gen does not refuse, never loads WT.
ASSUME CandidatesLoadBoth ==
    \A c \in Candidates(128) :
        (LoadsPerThread(ToGemmConfig(c), "WT") = 0) <=> (c.waves = 8 /\ c.tile_k = 16)

\* What can_use_tile_ir lets through are kernels the generator accepts, of as many waves
\* as the search counted on, which fit in LDS.
ASSUME TileIrCandidatesFit ==
    \A c \in {d \in Candidates(64) : CanUseTileIr(d)} :
        LET s == ToTileGemm(c) IN Lowers(s) /\ NWaves(s) = c.waves /\ LdsTotal(s) * 16 <= 65536

\* The launches of the front ends are right, with the configurations the search may
\* choose that load both operands, cover Y in one pass and do not pad rows, on a Y of
\* whole tiles: gemm_gen masks nothing.
Usable(p) == /\ \A mat \in {"X", "WT"} : LoadsPerThread(p.spec, mat) > 0
             /\ p.spec.passes = 1 /\ p.spec.pad = 0
ASSUME LaunchesRight ==
    LET x == Tile(128, 32, "bf16", "blocked")
        w == Tile(32, 64, "bf16", "blocked")
        result == Dot(x, w)
    IN  /\ DotAccepts(x, w)
        /\ \A p \in {Launch(s, 128, 32, result.cols) : s \in LowerDot(result.rows, x.cols, result.cols)}
                    \cup BackwardData(128, 32, 64) \cup BackwardWeight(64, 128, 64) :
              Usable(p) => LayoutOf(p)
        /\ \A p \in SuiteLaunch(TileGemmConfig(128, 64, 16), 129, 65, 17)
                    \cup SuiteLaunch(TileGemmConfig(32, 64, 16), 100, 300, 200) : LayoutOf(p)

\* The kernel of a tile_gemm swaps the axes of its grid whatever its configuration
\* says: one from auto that does not is right only where the grid is square.
ASSUME AutoNeedsSwappedGrid ==
    \A c \in TileGemmConfigAuto(128, 16, 64) : \A p \in SuiteLaunch(c, 128, 16, 64) :
        LayoutOf(p) <=> c.swap_grid \/ CeilDiv(128, c.tile_m) = CeilDiv(64, c.tile_n)

\* A tiled kernel launched without M is right exactly when what its slot held at M's
\* place is M or more.
ASSUME TiledNeedsM ==
    \A left \in {0, 64, 127, 128, 1000} :
        /\ \A s \in LowerTiledGemm(TileProgram(128, 64, 16)) :
              LayoutOf(TiledLaunch(s, 128, 128, 64, left)) <=> left >= 128
        /\ \A p \in DslLaunch(TileGemmConfig(128, 64, 16), 128, 128, 128, left) :
              LayoutOf(p) <=> left >= 128
=============================================================================
