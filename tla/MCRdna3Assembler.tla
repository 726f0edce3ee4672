-------------------------- MODULE MCRdna3Assembler --------------------------
(* Instances for TLC: every encoder with small and with extreme arguments,  *)
(* the examples, the sequences on a wave, and a kernel of free calls.       *)
EXTENDS Rdna3Assembler

\* A small and an extreme argument j of an encoder, different for each j; even
\* registers where the encoder asks for them, and the parity a dual call needs.
ScalarPlace(row, place) ==
    \/ row.f \in {"SOP1", "SOP2", "SMEM"} \/ place = "e"
    \/ place = "d" /\ row \in {Encoders["v_readfirstlane_b32"], Encoders["v_readfirstlane"], Encoders["v_readlane_b32"]}
Argument(row, j, extreme) ==
    LET place == row.a[j][1]
        kind == row.a[j][2]
        pick(low, high) == IF extreme THEN high ELSE low
    IN  CASE place = "dx" -> pick(2, 254) [] place = "dy" -> pick(5, 255)
          [] kind = "reg" /\ ScalarPlace(row, place) -> pick(j, 105 - j)
          [] kind \in {"reg", "v"} /\ ~ScalarPlace(row, place) -> pick(j, 255 - j)
          [] kind = "v" /\ ScalarPlace(row, place) -> pick(j, 255 - j)
          [] kind = "s" -> pick(j, 105 - j)
          [] kind = "code" -> pick(240, 247)
          [] kind \in {"k", "k64"} -> pick(0, 64)
          [] kind = "k/s" -> pick(16, 64)
          [] kind = "k0/s" -> pick(0, 105)
          [] kind = "kf" -> pick(1065353216, -16)
          [] kind = "mask" -> pick(1, -1)
          [] kind = "ones" -> extreme
          [] kind = "w" -> pick(<<0, \h80>>, <<\hFFFF, \hFFFF>>)
          [] kind = "pair" -> pick(0, 104) [] kind = "even" -> pick(2, 102) [] kind = "quad" -> pick(4, 100)
          [] kind = "n" ->
                (CASE place = "n" -> pick(7, 63) [] place \in {"off0", "off1"} -> pick(j, 255 - j)
                   [] row.f = "SMEM" -> pick(0, 4092) [] OTHER -> pick(128, 65535))
          [] kind = "o13" -> pick(16, -4096)
          [] kind = "o12" -> pick(16, 4095)
CallWith(e, extreme) == <<e>> \o [j \in DOMAIN Encoders[e].a |-> Argument(Encoders[e], j, extreme)]

Words(steps) == [kind |-> "words", steps |-> steps, setup |-> NewWave(<<>>, <<>>, <<>>), right |-> <<>>]
OneCall == {Words(<<CallWith(e, extreme)>>) : e \in DOMAIN Encoders, extreme \in BOOLEAN}
WaitsAndBranches ==
    {Words(<<<<e, n>>>>) : e \in Waits, n \in {0, 1, 5, 15, 16, 63}}
    \cup {Words(<<<<e, -5>>>>) : e \in {"s_branch", "s_cbranch_scc0", "s_cbranch_scc1", "s_cbranch_vccz", "s_cbranch_vccnz"}}
OneMethod ==
    {Words(<<<<m>> \o SubSeq(call, 2, Len(call) - (IF m \in DOMAIN Added THEN Len(Added[m]) ELSE 0))>>) :
        <<m, call>> \in {<<m, CallWith(Methods[m], FALSE)>> : m \in {x \in DOMAIN Methods : Methods[x] \notin Waits}}}
Examples ==
    {Words(build_gemm_16x16x16_kernel), Words(build_exp_function),
     Words(build_softmax_row_kernel), Words(global_atomic_add_f32_x4(10, 2, 20, 64)),
     Words(global_atomic_add_f32_no_rtn_x4(2, 20, 64)), Words(cvt_pk_bf16_f32(1, 2, 3)),
     Words(<<<<"asm.ds_load_b32", 1, 2, 0>>, <<"asm.ds_load_b32", 3, 2, 4>>, <<"asm.wait_lgkmcnt", 1>>,
             <<"asm.wait_lgkmcnt", 4>>, <<"asm.global_load_dword", 5, 6, 0>>, <<"asm.wait_vmcnt", 1>>>>)}

-----------------------------------------------------------------------------
(* The sequences on a wave.                                                 *)

LaneId == [l \in Lanes |-> FromInt(l)]
Lanewise(steps, setup, v, mem) ==
    [kind |-> "lanes", steps |-> steps, setup |-> setup, right |-> [v |-> v, mem |-> mem]]
\* A 16 x 16 f32 tile in the C layout from register base; its elements differ.
Element(row, col) == <<1000 + row, (16 * row) + col>>
TileC(base) == [r \in base..(base + 7) |-> [l \in Lanes |-> Element(2 * (r - base) + (l \div 16), l % 16)]]
\* Its rows in memory, and its transpose as packed pairs of bf16.
RowMajor(coloff, stride) ==
    LET at(row, col) == (row * stride) + coloff + (4 * col)
        places == {<<at(row, col), row, col>> : row \in 0..15, col \in 0..15}
    IN  [a \in {p[1] : p \in places} |-> LET p == CHOOSE q \in places : q[1] = a IN {Element(p[2], p[3])}]
Paired(base, M(_, _)) == [r \in base..(base + 7) |-> [l \in Lanes |-> <<M(l % 16, 2 * (r - base)), M(l % 16, 2 * (r - base) + 1)>>]]
ColumnPairs(row, k) == Element(k, row)[2]
RowPairs(row, k) == Element(row, k)[2]

StoreWave == NewWave(TileC(24) @@ (80 :> LaneId) @@ (4 :> [l \in Lanes |-> Base[1]]) @@ (5 :> [l \in Lanes |-> Base[2]]), <<>>, <<>>)
Stores ==
    {Lanewise(store_wmma_c_rowmajor(4, 24, 80, 90, c[1], c[2]), StoreWave, <<>>, RowMajor(c[1], c[2])) :
        c \in {<<0, 64>>, <<64, 256>>}}
\* Something is already in memory where the atomics add.
Atomics ==
    LET before == [a \in DOMAIN RowMajor(64, 256) |-> {<<0, 0>>}]
    IN  {Lanewise(atomic_add_wmma_c_rowmajor(4, 24, 80, 90, 64, 256), [StoreWave EXCEPT !.mem = before], <<>>,
                  [a \in DOMAIN before |-> before[a] \cup RowMajor(64, 256)[a]])}
Transposes ==
    LET wave_c == NewWave(TileC(104) @@ (34 :> LaneId), <<>>, <<>>)
        wave_a == NewWave(Paired(40, RowPairs) @@ (34 :> LaneId), <<>>, <<>>)
        lds == [a \in {(128 * r) + (2 * c) : r \in 0..15, c \in 0..15} |-> Element(a \div 128, (a % 128) \div 2)[2]]
        wave_l == NewWave((7 :> [l \in Lanes |-> FromInt(2 * (l % 16))]), lds, <<>>)
    IN  {Lanewise(reg_transpose_c_to_ab(112, 104, 1, 34), wave_c, Paired(112, ColumnPairs) @@ TileC(104), <<>>),
         Lanewise(butterfly_transpose_16x16(40, 60, 34), wave_a, Paired(40, ColumnPairs), <<>>),
         Lanewise(lds_load_transposed_tile(20, 7, 30), wave_l, Paired(20, ColumnPairs), <<>>)}
\* The largest value starts in lane m; in the end lane 0 has it (other lanes may not).
Reductions ==
    {Lanewise(build_warp_max_reduction, NewWave((0 :> [l \in Lanes |-> <<0, (l + 31 - m) % 32>>]), <<>>, <<>>),
              (0 :> [l \in {0} |-> <<0, 31>>]), <<>>) : m \in Lanes}
\* reg_transpose_valu_only is built; what it computes is not what it says.
BuiltOnly == {Words(reg_transpose_valu_only(112, 104, 1, 34))}

Free == {[Words(<<>>) EXCEPT !.kind = kind] : kind \in {"free", "declared"}}
MCScenarios ==
    OneCall \cup WaitsAndBranches \cup OneMethod \cup Examples
    \cup Stores \cup Atomics \cup Transposes \cup Reductions \cup BuiltOnly \cup Free
=============================================================================
