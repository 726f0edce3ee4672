---------------------------- MODULE MCGemmKernel ----------------------------
(* Small multiplications for both generators. *)
EXTENDS TiledGemm

\* build_kernargs_m leaves it to the caller to tell a split kernel of tile_ir where
\* its partitions store.
SeparatePlanes(p) == [p EXCEPT !.args.y_stride = IF p.spec.split_k > 1 THEN p.m * p.n ELSE 0]
Auto(m, k, n) == SeparatePlanes(Launch(TileAutoSelect(m, k, n), m, k, n))
Legacy(m, k, n) == Launch(LegacySelect(m, k, n), m, k, n)
AccSwapped(tm, tn, tk) == [TileGemm(tm, tn, tk) EXCEPT !.acc_swap = TRUE]

\* Kernels of every shape the generators have code for: one and two waves, one
\* and more steps of K per tile, few and many columns, split and not, on an odd
\* and an even number of tiles, on matrices with and without a ragged edge.
Sound ==
    {Launch(TileGemm(64, 64, 16), 40, k, 70) : k \in {16, 32, 48}}
    \cup {Launch(TileGemm(64, 64, 32), 64, 64, 64), Launch(TileGemm(64, 128, 16), 64, 48, 128),
          Launch(AccSwapped(32, 128, 16), 32, 32, 128),
          Launch(GemmConfig(32, 64, 16, 64), 32, 16, 64), Launch(GemmConfig(32, 64, 16, 64), 32, 32, 64),
          Launch(GemmConfig(64, 64, 32, 64), 64, 96, 64),
          Auto(16, 64, 64), Auto(32, 32, 64), Legacy(64, 64, 64)}
    \cup SuiteLaunch(TileGemmConfig(32, 64, 16), 33, 40, 50)

\* Of these a kernel of one wave and one of two, whose operations may land at any time.
Early == {Launch(AccSwapped(32, 128, 16), 32, 32, 128), Launch(GemmConfig(32, 64, 16, 64), 32, 16, 64)}

\* OperandsAlwaysArrive and SumsAreRight, the theorems of GemmKernelProofs and
\* GemmProducts, are about all of these.
ASSUME SoundIsWhole == \A p \in Sound : Staged(p.spec) /\ Whole(p)
\* Of the presets of tile_ir three are left out that the generator accepts, and one it
\* refuses; of gemm_gen none is.
ASSUME PresetsStaged ==
    /\ {s \in TilePresets : ~Staged(s)} =
         {TileGemm(64, 128, 32), TileGemm(128, 128, 32), TileGemm(128, 128, 48), TileGemm(128, 128, 64)}
    /\ \A s \in GemmPresets : Staged(s)
\* A launch of any of the others that has whole tiles in each share of K is Whole.
ASSUME PresetsWhole ==
    \A s \in TilePresets \cup GemmPresets \cup StandardConfigs :
        Staged(s) => Whole(Launch(s, s.tile_m, 2 * s.tile_k * s.split_k, s.tile_n))
\* LayoutsAreRight is about them too, and about the whole tiles of every preset but five:
\* of two the grid counts on a second pass over the columns, which is not generated, one is
\* refused, one does not fit in 64 KB, and one of the kernels that swap accumulators looks
\* for its second step in other rows.
ASSUME SoundIsLaid == \A p \in Sound : Laid(p)
ASSUME PresetsLaid ==
    {s \in TilePresets \cup GemmPresets \cup StandardConfigs :
        ~Laid(SeparatePlanes(Launch(s, s.tile_m, 2 * s.tile_k * s.split_k, s.tile_n)))}
      = {TwoPasses(GemmConfig(128, 64, 16, 128)), TwoPasses(GemmConfig(64, 64, 16, 64)),
         TileGemm(128, 128, 48), TileGemm(256, 64, 64), AccSwapped(128, 128, 32)}
=============================================================================
