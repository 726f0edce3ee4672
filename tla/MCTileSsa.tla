------------------------------- MODULE MCTileSsa -------------------------------
EXTENDS TileSsa, ElemKernels

RowsOf(F(_)) == FromRows([r \in 0..1 |-> F(r)])
RowKernels ==
    "softmax_fwd" :> test_softmax_fwd_gpu @@
    "softmax_bwd" :> Rowwise(softmax_backward, <<"dy", "y", "dx", Cols>>, ("dy" :> X0) @@ ("y" :> X1) @@ ("dx" :> Blank(10)),
        "dx" :> RowsOf(LAMBDA r : cpu_softmax_backward(RowOf(X0, r), RowOf(X1, r)))) @@
    "log_softmax" :> test_log_softmax_gpu_only @@
    "nll_loss" :> test_nll_loss_gpu_only @@
    "ce_loss_bwd" :> Rowwise(ce_loss_backward, <<"logits", "targets", "dlogits", Cols, Float(3)>>,
        ("logits" :> X0) @@ ("targets" :> Targets) @@ ("dlogits" :> Blank(10)),
        "dlogits" :> RowsOf(LAMBDA r : cpu_ce_loss_backward(RowOf(X0, r), Targets[r], 3))) @@
    "rmsnorm_fwd" :> test_rmsnorm_fwd_gpu @@
    "rmsnorm_bwd" :> Rowwise(rmsnorm_backward, <<"dy", "x", "weight", "dx", Cols, Float(2)>>,
        ("dy" :> X1) @@ ("x" :> X0) @@ ("weight" :> Weight) @@ ("dx" :> Blank(10)),
        "dx" :> RowsOf(LAMBDA r : cpu_rmsnorm_backward(RowOf(X1, r), RowOf(X0, r), Reals(Weight), 2))) @@
    "embedding_fwd" :> test_embedding_fwd_gpu @@
    "embedding_bwd" :> Rowwise(embedding_backward, <<"grad_table", "indices", "grad_output", Cols>>,
        ("grad_table" :> X0) @@ ("indices" :> Ints(<<1, 1>>)) @@ ("grad_output" :> X1),
        "grad_table" :> cpu_embedding_backward(X0, Ints(<<1, 1>>), X1)) @@
    "rope_fwd" :> test_rope_fwd_gpu @@
    "rope_bwd" :> Rowwise(rope_backward, <<"dout", "dx", 4, 2>>, ("dout" :> Tokens) @@ ("dx" :> Blank(8)),
        "dx" :> cpu_rope(Tokens, 4, -1)) @@
    "causal_mask" :> test_causal_mask_gpu @@
    "causal_mask_bwd" :> Causal(causal_mask_backward, "dy", "dx", 0)

RowR(r) == RowOf(X0, r)
WaveKernels ==
    "rmsnorm_wave" :> OneWave(Rowwise(rmsnorm_wave(Cols), <<"x", "gamma", "out", "rms", Cols>>,
        ("x" :> X0) @@ ("gamma" :> Weight) @@ ("out" :> Blank(10)) @@ ("rms" :> Blank(2)),
        ("rms" :> [r \in 0..1 |-> Float(Rstd(RowR(r), 2))]) @@
        ("out" :> RowsOf(LAMBDA r : cpu_rmsnorm_forward(RowR(r), Reals(Weight), 2)))))

\* The tensor operations, over two workgroups or one.
PointKernels ==
    "memcpy" :> test_memcpy_gpu @@
    "residual_add" :> test_residual_add_gpu @@
    "scale" :> Flat(scale_kernel, <<"input", "output", N, Float(9)>>, ("input" :> A0) @@ ("output" :> Blank(N)),
        "output" :> Each([i \in 0..12 |-> A[i] * 9])) @@
    "add_f32" :> Case(add_f32, <<"a", "b", "out", 7>>, ("a" :> Seven) @@ ("b" :> Other) @@ ("out" :> Blank(7)),
        "out" :> Map7(LAMBDA i : R7(Seven, i) + R7(Other, i))) @@
    "mul_f32" :> Case(mul_f32, <<"a", "b", "out", 7>>, ("a" :> Seven) @@ ("b" :> Other) @@ ("out" :> Blank(7)),
        "out" :> Map7(LAMBDA i : R7(Seven, i) * R7(Other, i))) @@
    "relu_f32" :> Case(relu_f32, <<"a", "out", 7>>, ("a" :> Seven) @@ ("out" :> Blank(7)),
        "out" :> Map7(LAMBDA i : MaxReal(R7(Seven, i), 0))) @@
    "scale_f32" :> Case(scale_f32, <<"a", "out", Float(9), 7>>, ("a" :> Seven) @@ ("out" :> Blank(7)),
        "out" :> Map7(LAMBDA i : R7(Seven, i) * 9)) @@
    "partial_sum" :> Flat(partial_sum_f32, <<"input", "partial_out", N>>, ("input" :> A0) @@ ("partial_out" :> Blank(2)),
        "partial_out" :> [g \in 0..1 |-> Float(SumOf([i \in {i \in 0..12 : i \div 8 = g} |-> A[i]]))]) @@
    "silu_gate" :> Case(silu_gate, <<"gate", "up", "out", 7>>, ("gate" :> Seven) @@ ("up" :> Other) @@ ("out" :> Blank(7)),
        "out" :> Map7(LAMBDA i : Silu(R7(Seven, i)) * R7(Other, i))) @@
    "silu_bwd" :> Flat(silu_backward, <<"grad", "gate", "up", "dgate", "dup", N>>,
        ("grad" :> C0) @@ ("gate" :> A0) @@ ("up" :> B0) @@ ("dgate" :> Blank(N)) @@ ("dup" :> Blank(N)),
        ("dgate" :> Each([i \in 0..12 |-> ((C[i] * B[i]) % P) * SiluSlope(A[i])])) @@
        ("dup" :> Each([i \in 0..12 |-> C[i] * Silu(A[i])]))) @@
    "psi_inplace" :> Case(psi_inplace, <<"ptr", 7>>, "ptr" :> Seven, "ptr" :> Map7(LAMBDA i : Psi(R7(Seven, i))))

\* The functions of BVal that no kernel calls, one after the other.
math_calls ==
    Built(IO(2) \o OffsCalls \o LoadOp("x", "in1") \o LoadOp("w", "in2") \o
        <<Op("g", "gelu", <<"x">>), Imm("c", "clamp", <<"w">>, <<-6, 9>>), Op("t", "tanh", <<"c">>), Op("s", "sub", <<"g", "t">>),
          Imm("m", "max_const", <<"w">>, 2), Op("l", "log", <<"m">>), Op("p", "mul", <<"s", "l">>),
          Imm("k", "min_const", <<"p">>, 50), Op("r", "relu", <<"k">>)>> \o StoreOp("r"))
math_run ==
    LET clamped(x) == MaxReal(MinReal(x, 9), (-6) % P)
        tanh(x) == (2 * Sigma((2 * x) % P) - 1) % P
    IN  gpu_dispatch_1d(math_calls, <<Seven, Other>>, 7, Map7(LAMBDA i :
            MaxReal(MinReal((((Gelu(R7(Seven, i)) - tanh(clamped(R7(Other, i)))) % P) * Ln(MaxReal(R7(Other, i), 2))) % P, 50), 0)))

TestKernels ==
    "vector_add" :> test_gpu_vector_add @@ "l3_vadd" :> test_l3_ssa_regalloc_vadd @@
    "l3_silu" :> test_l3_ssa_regalloc_silu @@ "l3_fma" :> test_l3_ssa_regalloc_fma @@
    "vadd_ssa" :> test_vadd_via_ssa_gpu_e2e @@ "vadd_1d" :> test_1d_regression_after_2d @@ "math" :> math_run @@
    "lds_basic" :> test_lds_basic_compile @@ "loop_compile" :> test_compile_via_ssa_for_loop @@
    "loop_test" :> test_block_to_ssa_for_loop @@ "loop_basic" :> test_for_range_basic_compile @@
    "wg_unused" :> test_block_to_ssa_wg_reduce @@ "if_mask" :> test_block_to_ssa_if_only @@ "row_sum_2d" :> test_compile_2d_row_sum @@
    "lds_e2e" :> test_lds_via_ssa_gpu_e2e @@ "lds_double" :> test_gpu_lds_double @@
    "lds_accum" :> test_gpu_lds_loop_accum @@ "gemm_tn" :> test_gpu_gemm_tn @@
    "atomic" :> test_compile_via_ssa_atomic @@ "forloop" :> test_for_loop_via_ssa_gpu_e2e @@
    "wg_reduce" :> test_compile_via_ssa_wg_reduce @@ "softmax_partial" :> test_compile_softmax_partial @@
    "if_only" :> test_gpu_if_only @@ "if_else" :> test_gpu_if_else @@ "if_else_elf" :> test_compile_via_ssa_if_else @@
    "sum_loop" :> sum_loop @@ "fusion_unary" :> test_fusion_unary @@ "fusion_binary" :> test_fusion_binary @@
    "fusion_ternary" :> test_fusion_ternary @@ "mat_add_2d" :> test_compile_2d_matrix_add @@
    "transpose_2d" :> test_compile_2d_transpose @@ "scalar_mul_2d" :> test_compile_2d_scalar_mul @@
    "non_square_2d" :> test_compile_2d_non_square_tile @@ "halves_2d" :> halves_2d

\* The optimizer's step, with every hyperparameter a float.  It is not among
\* MCKernels: LoweredRight fails for it, because lr * wd, a product of two scalar
\* arguments (adamw_kernels.rs:93), is lowered to s_mul_i32.
AdamwKernels == "adamw" :> test_adamw_gpu

\* The kernels pass the assertions of BlockKernel's methods.
ASSUME BuilderAccepts ==
    LET kernels == RowKernels @@ WaveKernels @@ PointKernels @@ TestKernels @@ AdamwKernels
    IN  \A name \in DOMAIN kernels : ~Builder(kernels[name].nodes).panics

MCKernels == RowKernels @@ WaveKernels @@ PointKernels @@ TestKernels @@ ChainKernels
=============================================================================
