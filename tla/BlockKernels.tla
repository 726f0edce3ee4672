----------------------------- MODULE BlockKernels -----------------------------
(***************************************************************************)
(* The kernels of src/src/t0/*_kernels.rs, as the nodes that their         *)
(* builders push, and what each should compute: the reference functions    *)
(* beside them (cpu_...).                                                  *)
(* The cases are those of the files' tests on the GPU: arguments, buffers, *)
(* workgroups and what is expected, on Rows rows of Cols elements or on N  *)
(* elements, with workgroups of 8 threads in place of 256.                 *)
(***************************************************************************)
EXTENDS BlockBuilder

-----------------------------------------------------------------------------
(* Buffers and cases.                                                      *)

Rows == 2
Cols == 5
Floats(xs) == [i \in 0..(Len(xs) - 1) |-> Float(xs[i + 1])]
Ints(xs) == [i \in 0..(Len(xs) - 1) |-> xs[i + 1]]
Zeros(n) == [i \in 0..(n - 1) |-> 0]
Blank(n) == [i \in 0..(n - 1) |-> Garbage]
Reals(buf) == [i \in DOMAIN buf |-> Real(buf[i])]
RowOf(buf, r) == [c \in 0..(Cols - 1) |-> Real(buf[r * Cols + c])]
\* The buffer whose row r is the row of reals f[r].
FromRows(f) == [i \in 0..(Rows * Cols - 1) |-> Float(f[i \div Cols][i % Cols])]

SumOf(row) == MapThenSumSet(LAMBDA c : row[c], DOMAIN row) % P
MaxOf(row) == row[CHOOSE c \in DOMAIN row : \A d \in DOMAIN row : Signed(row[d]) <= Signed(row[c])]
Dot(x, y) == SumOf([c \in DOMAIN x |-> x[c] * y[c]])

\* A kernel in one workgroup of two waves; before holds its buffers, written those it changes.
Case(nodes, args, before, written) ==
    [nodes |-> nodes, args |-> args, block |-> 2, grid |-> <<1, 1>>, mem |-> before, final |-> written @@ before]
\* With a workgroup per row, or over N elements, the last of them in the second workgroup.
Rowwise(nodes, args, before, written) == [Case(nodes, args, before, written) EXCEPT !.grid = <<Rows, 1>>]
N == 13
Flat(nodes, args, before, written) == [Case(nodes, args, before, written) EXCEPT !.grid = <<2, 1>>]
OneWave(case) == [case EXCEPT !.block = 1]

X0 == Floats(<<3, -7, 12, 5, -2, 40, 1, -30, 8, 0>>)
X1 == Floats(<<-4, 9, 2, -11, 6, 7, -8, 1, 3, 20>>)
Weight == Floats(<<2, -3, 5, 1, 4>>)
Targets == Ints(<<2, 4>>)
A0 == [i \in 0..(N - 1) |-> Float(i * i - 20)]
B0 == [i \in 0..(N - 1) |-> Float(7 - 3 * i)]
C0 == [i \in 0..(N - 1) |-> Float(i + 1)]
A == Reals(A0)
B == Reals(B0)
C == Reals(C0)
Each(f) == [i \in DOMAIN f |-> Float(f[i])]

-----------------------------------------------------------------------------
(* softmax_kernels.rs                                                      *)

\* One workgroup per row: the thread's column, its element and whether it is in the row.
RowIndex(cols) ==
    <<Op("tid", "ThreadId", <<>>), Op("pid", "ProgramId", <<>>), Op("row_base", "MulU32", <<"pid", cols>>),
      Op("offset", "AddU32", <<"row_base", "tid">>), Op("mask", "LtU32", <<"tid", cols>>)>>
LoadAt(name, ptr) == <<Op(name, "Load", <<ptr, "offset", "mask">>)>>
StoreAt(ptr, val) == <<Do("Store", <<ptr, "offset", val, "mask">>)>>

\* The row's maximum, the exponentials and their sum.
RowExp ==
    <<ConstF("neg_inf", P \div 2 + 1), Op("x_for_max", "Select", <<"mask", "x", "neg_inf">>),
      Op("row_max", "WgReduceMaxF32", <<"x_for_max">>), Op("shifted", "SubF32", <<"x", "row_max">>)>>
    \o ExpNodes("exp_x", "shifted") \o
    <<ConstF("zero_f", 0), Op("exp_masked", "Select", <<"mask", "exp_x", "zero_f">>),
      Op("exp_sum", "WgReduceAddF32", <<"exp_masked">>)>>

softmax_forward ==
    Ptrs(<<"input", "output">>) \o ArgsU(<<"cols">>) \o RowIndex("cols") \o LoadAt("x", "input") \o RowExp \o
    <<Op("inv_sum", "RcpF32", <<"exp_sum">>), Op("result", "MulF32", <<"exp_x", "inv_sum">>)>> \o
    StoreAt("output", "result")

softmax_backward ==
    Ptrs(<<"dy", "y", "dx">>) \o ArgsU(<<"cols">>) \o RowIndex("cols") \o
    LoadAt("dy_v", "dy") \o LoadAt("y_v", "y") \o
    <<Op("prod", "MulF32", <<"dy_v", "y_v">>), ConstF("zero_f", 0),
      Op("prod_masked", "Select", <<"mask", "prod", "zero_f">>), Op("dot", "WgReduceAddF32", <<"prod_masked">>),
      Op("dy_shifted", "SubF32", <<"dy_v", "dot">>), Op("dx_v", "MulF32", <<"y_v", "dy_shifted">>)>> \o
    StoreAt("dx", "dx_v")

Exps(row) == [c \in DOMAIN row |-> Exp((row[c] - MaxOf(row)) % P)]
cpu_softmax_forward(row) == [c \in DOMAIN row |-> Exps(row)[c] * Rcp(SumOf(Exps(row)))]
cpu_softmax_backward(dy, y) == [c \in DOMAIN dy |-> y[c] * ((dy[c] - Dot(dy, y)) % P)]

test_softmax_fwd_gpu ==
    Rowwise(softmax_forward, <<"input", "output", Cols>>, ("input" :> X0) @@ ("output" :> Blank(10)),
            "output" :> FromRows([r \in 0..1 |-> cpu_softmax_forward(RowOf(X0, r))]))

-----------------------------------------------------------------------------
(* ce_loss_kernels.rs                                                      *)

log_softmax ==
    Ptrs(<<"input", "output">>) \o ArgsU(<<"cols">>) \o RowIndex("cols") \o LoadAt("x", "input") \o RowExp \o
    LogNodes("log_sum", "exp_sum") \o <<Op("result", "SubF32", <<"shifted", "log_sum">>)>> \o
    StoreAt("output", "result")

\* The row's target, one load per thread of the same word, and the thread it is.
TargetNodes ==
    <<ConstU("zero_u", 0), Op("tid_zero", "MulU32", <<"tid", "zero_u">>), Op("pid_vec", "AddU32", <<"tid_zero", "pid">>),
      Op("target", "LoadU32", <<"targets", "pid_vec", "mask">>), Op("diff", "SubU32", <<"tid", "target">>),
      ConstU("one_u", 1), Op("is_target", "LtU32", <<"diff", "one_u">>)>>

nll_loss ==
    Ptrs(<<"log_softmax", "targets", "losses">>) \o ArgsU(<<"cols">>) \o RowIndex("cols") \o
    LoadAt("log_sm", "log_softmax") \o TargetNodes \o
    <<ConstF("zero_f", 0), Op("neg", "NegF32", <<"log_sm">>), Op("part", "Select", <<"is_target", "neg", "zero_f">>),
      Op("loss", "WgReduceAddF32", <<"part">>), Op("is_t0", "LtU32", <<"tid", "one_u">>),
      Do("Store", <<"losses", "pid_vec", "loss", "is_t0">>)>>

ce_loss_backward ==
    Ptrs(<<"logits", "targets", "dlogits">>) \o ArgsU(<<"cols">>) \o ArgsF(<<"scale">>) \o RowIndex("cols") \o
    LoadAt("x", "logits") \o RowExp \o
    <<Op("inv_sum", "RcpF32", <<"exp_sum">>), Op("softmax_val", "MulF32", <<"exp_x", "inv_sum">>)>> \o TargetNodes \o
    <<ConstF("one_f", 1), Op("one_hot", "Select", <<"is_target", "one_f", "zero_f">>),
      Op("grad", "SubF32", <<"softmax_val", "one_hot">>), Op("grad_scaled", "MulF32", <<"grad", "scale">>)>> \o
    StoreAt("dlogits", "grad_scaled")

cpu_log_softmax(row) ==
    [c \in DOMAIN row |-> row[c] - MaxOf(row) - Ln(SumOf(Exps(row)))]
cpu_ce_loss_forward(row, target) == -cpu_log_softmax(row)[target]
cpu_ce_loss_backward(row, target, scale) ==
    [c \in DOMAIN row |-> ((cpu_softmax_forward(row)[c] - (IF c = target THEN 1 ELSE 0)) % P) * scale]

LogSoftmax == FromRows([r \in 0..1 |-> cpu_log_softmax(RowOf(X0, r))])
test_log_softmax_gpu_only ==
    Rowwise(log_softmax, <<"input", "output", Cols>>, ("input" :> X0) @@ ("output" :> Blank(10)), "output" :> LogSoftmax)
test_nll_loss_gpu_only ==
    Rowwise(nll_loss, <<"log_softmax", "targets", "losses", Cols>>,
            ("log_softmax" :> LogSoftmax) @@ ("targets" :> Targets) @@ ("losses" :> Blank(2)),
            "losses" :> [r \in 0..1 |-> Float(cpu_ce_loss_forward(RowOf(X0, r), Targets[r]))])

-----------------------------------------------------------------------------
(* rmsnorm_kernels.rs                                                      *)

\* rstd of the row that x_v was loaded from.
RowRstd ==
    <<Op("x_sq", "MulF32", <<"x_v", "x_v">>), ConstF("zero_f", 0), Op("x_sq_masked", "Select", <<"mask", "x_sq", "zero_f">>),
      Op("sum_sq", "WgReduceAddF32", <<"x_sq_masked">>), Op("cols_f", "CvtF32U32", <<"cols">>),
      Op("mean_sq", "DivF32", <<"sum_sq", "cols_f">>), Op("mean_sq_eps", "AddF32", <<"mean_sq", "eps">>),
      Op("rstd", "RsqrtF32", <<"mean_sq_eps">>)>>
LoadWeight == <<Op("w", "Load", <<"weight", "tid", "mask">>)>>

rmsnorm_forward ==
    Ptrs(<<"input", "weight", "output">>) \o ArgsU(<<"cols">>) \o ArgsF(<<"eps">>) \o RowIndex("cols") \o
    LoadAt("x_v", "input") \o RowRstd \o <<Op("x_norm", "MulF32", <<"x_v", "rstd">>)>> \o LoadWeight \o
    <<Op("y", "MulF32", <<"x_norm", "w">>)>> \o StoreAt("output", "y")

rmsnorm_backward ==
    Ptrs(<<"dy", "x", "weight", "dx">>) \o ArgsU(<<"cols">>) \o ArgsF(<<"eps">>) \o RowIndex("cols") \o
    LoadAt("dy_v", "dy") \o LoadAt("x_v", "x") \o LoadWeight \o RowRstd \o
    <<Op("dx_hat", "MulF32", <<"dy_v", "w">>), Op("x_dx_hat", "MulF32", <<"x_v", "dx_hat">>),
      Op("x_dx_masked", "Select", <<"mask", "x_dx_hat", "zero_f">>), Op("dot_sum", "WgReduceAddF32", <<"x_dx_masked">>),
      Op("dot_mean", "DivF32", <<"dot_sum", "cols_f">>), Op("rstd_sq", "MulF32", <<"rstd", "rstd">>),
      Op("x_rstd_sq", "MulF32", <<"x_v", "rstd_sq">>), Op("correction", "MulF32", <<"x_rstd_sq", "dot_mean">>),
      Op("unnorm", "SubF32", <<"dx_hat", "correction">>), Op("dx_v", "MulF32", <<"unnorm", "rstd">>)>> \o
    StoreAt("dx", "dx_v")

Rstd(row, eps) == Rcp(SqrtOf((Dot(row, row) * Rcp(Cols) + eps) % P))
cpu_rmsnorm_forward(row, w, eps) == [c \in DOMAIN row |-> ((row[c] * Rstd(row, eps)) % P) * w[c]]
cpu_rmsnorm_backward(dy, row, w, eps) ==
    LET hat == [c \in DOMAIN row |-> (dy[c] * w[c]) % P]
        scale == (((Rstd(row, eps) * Rstd(row, eps)) % P) * ((Dot(row, hat) * Rcp(Cols)) % P)) % P
    IN  [c \in DOMAIN row |-> ((hat[c] - row[c] * scale) % P) * Rstd(row, eps)]

test_rmsnorm_fwd_gpu ==
    Rowwise(rmsnorm_forward, <<"input", "weight", "output", Cols, Float(2)>>,
            ("input" :> X0) @@ ("weight" :> Weight) @@ ("output" :> Blank(10)),
            "output" :> FromRows([r \in 0..1 |-> cpu_rmsnorm_forward(RowOf(X0, r), Reals(Weight), 2)]))

-----------------------------------------------------------------------------
(* causal_mask_kernels.rs: a square of scores, as many rows as columns.    *)

CausalNodes(src, fill) ==
    LoadAt("x", src) \o <<ConstU("one_u", 1), Op("pid_plus_one", "AddU32", <<"pid", "one_u">>),
      Op("is_causal", "LtU32", <<"tid", "pid_plus_one">>), ConstF("fill", fill),
      Op("result", "Select", <<"is_causal", "x", "fill">>)>>
causal_mask ==
    Ptrs(<<"scores", "output">>) \o ArgsU(<<"seq_len">>) \o RowIndex("seq_len") \o
    CausalNodes("scores", P \div 2 + 1) \o StoreAt("output", "result")
causal_mask_backward ==
    Ptrs(<<"dy", "dx">>) \o ArgsU(<<"seq_len">>) \o RowIndex("seq_len") \o
    CausalNodes("dy", 0) \o StoreAt("dx", "result")

\* Seq rows and columns, in row order.
Seq_ == 3
cpu_causal_mask(scores, fill) ==
    [i \in DOMAIN scores |-> IF i % Seq_ <= i \div Seq_ THEN scores[i] ELSE Float(fill)]

Scores == Floats(<<3, -7, 12, 5, -2, 40, 1, -30, 8>>)
Causal(nodes, src, dst, fill) ==
    [Rowwise(nodes, <<src, dst, Seq_>>, (src :> Scores) @@ (dst :> Blank(9)), dst :> cpu_causal_mask(Scores, fill))
        EXCEPT !.grid = <<Seq_, 1>>]
test_causal_mask_gpu == Causal(causal_mask, "scores", "output", P \div 2 + 1)

-----------------------------------------------------------------------------
(* rope_kernels.rs: a thread rotates the pair of elements 2 * tid and      *)
(* 2 * tid + 1 of its token; -ln(base) is some number.                     *)

NEG_LN_BASE == 31
RopeIndex ==
    <<Op("tid", "ThreadId", <<>>), Op("pid", "ProgramId", <<>>), ConstU("two_u", 2),
      Op("even_idx", "MulU32", <<"tid", "two_u">>), ConstU("one", 1), Op("odd_idx", "AddU32", <<"even_idx", "one">>),
      Op("mask", "LtU32", <<"odd_idx", "d_model">>), Op("row_base", "MulU32", <<"pid", "d_model">>),
      Op("even_off", "AddU32", <<"row_base", "even_idx">>), Op("odd_off", "AddU32", <<"row_base", "odd_idx">>)>>
RopeAngle ==
    <<Op("tid_f", "CvtF32U32", <<"tid">>), ConstF("two_f", 2), Op("two_tid_f", "MulF32", <<"tid_f", "two_f">>),
      Op("d_model_f", "CvtF32U32", <<"d_model">>), Op("inv_d_model", "RcpF32", <<"d_model_f">>),
      Op("ratio", "MulF32", <<"two_tid_f", "inv_d_model">>), ConstF("neg_ln_base", NEG_LN_BASE),
      Op("log_freq", "MulF32", <<"ratio", "neg_ln_base">>)>> \o ExpNodes("freq", "log_freq") \o
    <<Op("pos_f", "CvtF32U32", <<"pid">>), Op("theta", "MulF32", <<"pos_f", "freq">>),
      Op("cos_theta", "CosF32", <<"theta">>), Op("sin_theta", "SinF32", <<"theta">>)>>
RopeLoad(src) ==
    <<Op("x_even", "Load", <<src, "even_off", "mask">>), Op("x_odd", "Load", <<src, "odd_off", "mask">>)>>
RopeProducts ==
    <<Op("even_cos", "MulF32", <<"x_even", "cos_theta">>), Op("odd_sin", "MulF32", <<"x_odd", "sin_theta">>)>>
RopeStore(dst) ==
    <<Do("Store", <<dst, "even_off", "out_even", "mask">>), Do("Store", <<dst, "odd_off", "out_odd", "mask">>)>>

rope_forward ==
    Ptrs(<<"x", "out">>) \o ArgsU(<<"d_model", "n_tokens">>) \o RopeIndex \o RopeLoad("x") \o RopeAngle \o RopeProducts \o
    <<Op("out_even", "SubF32", <<"even_cos", "odd_sin">>), Op("even_sin", "MulF32", <<"x_even", "sin_theta">>),
      Op("odd_cos", "MulF32", <<"x_odd", "cos_theta">>), Op("out_odd", "AddF32", <<"even_sin", "odd_cos">>)>> \o
    RopeStore("out")
rope_backward ==
    Ptrs(<<"dout", "dx">>) \o ArgsU(<<"d_model", "n_tokens">>) \o RopeIndex \o RopeLoad("dout") \o RopeAngle \o RopeProducts \o
    <<Op("out_even", "AddF32", <<"even_cos", "odd_sin">>), Op("even_sin", "MulF32", <<"x_even", "sin_theta">>),
      Op("neg_even_sin", "NegF32", <<"even_sin">>), Op("odd_cos", "MulF32", <<"x_odd", "cos_theta">>),
      Op("out_odd", "AddF32", <<"neg_even_sin", "odd_cos">>)>> \o RopeStore("dx")

Theta(t, i, d) == (t * Exp((((2 * i * Rcp(d)) % P) * NEG_LN_BASE) % P)) % P
\* sign is 1 forward and -1 backward, where the rotation is undone.
cpu_rope(x, d, sign) ==
    [e \in DOMAIN x |->
        LET theta == Theta(e \div d, (e % d) \div 2, d)
            even == Real(x[2 * (e \div 2)])
            odd == Real(x[2 * (e \div 2) + 1])
        IN  Float(IF e % 2 = 0 THEN even * Cos(theta) - sign * odd * Sin(theta)
                  ELSE sign * even * Sin(theta) + odd * Cos(theta))]

Tokens == Floats(<<3, -7, 12, 5, -2, 40, 1, -30>>)
test_rope_fwd_gpu ==
    Rowwise(rope_forward, <<"x", "out", 4, 2>>, ("x" :> Tokens) @@ ("out" :> Blank(8)), "out" :> cpu_rope(Tokens, 4, 1))

-----------------------------------------------------------------------------
(* embedding_kernels.rs                                                    *)

EmbeddingIndex ==
    <<Op("tid", "ThreadId", <<>>), Op("pid", "ProgramId", <<>>), Op("mask", "LtU32", <<"tid", "dim">>),
      ConstU("zero_u", 0), Op("tid_zero", "MulU32", <<"tid", "zero_u">>), Op("pid_scalar", "AddU32", <<"tid_zero", "pid">>),
      Op("idx", "LoadU32", <<"indices", "pid_scalar", "mask">>)>>
TableOffset ==
    <<Op("table_row", "MulU32", <<"idx", "dim">>), Op("table_offset", "AddU32", <<"table_row", "tid">>)>>
OutOffset ==
    <<Op("out_row", "MulU32", <<"pid", "dim">>), Op("offset", "AddU32", <<"out_row", "tid">>)>>

embedding_forward ==
    Ptrs(<<"table", "indices", "output">>) \o ArgsU(<<"dim">>) \o EmbeddingIndex \o TableOffset \o OutOffset \o
    <<Op("val", "Load", <<"table", "table_offset", "mask">>)>> \o StoreAt("output", "val")
embedding_backward ==
    Ptrs(<<"grad_table", "indices", "grad_output">>) \o ArgsU(<<"dim">>) \o EmbeddingIndex \o OutOffset \o
    LoadAt("grad_val", "grad_output") \o TableOffset \o
    <<Do("AtomicAddF32", <<"grad_table", "table_offset", "grad_val", "mask">>)>>

cpu_embedding_forward(table, indices) ==
    [i \in 0..(Rows * Cols - 1) |-> table[indices[i \div Cols] * Cols + (i % Cols)]]
cpu_embedding_backward(table, indices, grad) ==
    [e \in DOMAIN table |-> Float(Real(table[e]) +
        SumOf([t \in {t \in DOMAIN indices : indices[t] = e \div Cols} |-> Real(grad[t * Cols + (e % Cols)])]))]

test_embedding_fwd_gpu ==
    Rowwise(embedding_forward, <<"table", "indices", "output", Cols>>,
            ("table" :> X0) @@ ("indices" :> Ints(<<1, 0>>)) @@ ("output" :> Blank(10)),
            "output" :> cpu_embedding_forward(X0, Ints(<<1, 0>>)))

-----------------------------------------------------------------------------
(* elementwise_kernels.rs and adamw_kernels.rs: a thread per element.      *)

PointIndex ==
    <<Op("tid", "ThreadId", <<>>), Op("pid", "ProgramId", <<>>), ConstU("wg_size", 8),
      Op("wg_offset", "MulU32", <<"pid", "wg_size">>), Op("offset", "AddU32", <<"wg_offset", "tid">>),
      Op("mask", "LtU32", <<"offset", "n">>)>>

memcpy ==
    Ptrs(<<"input", "output">>) \o ArgsU(<<"n">>) \o PointIndex \o LoadAt("val", "input") \o StoreAt("output", "val")
residual_add ==
    Ptrs(<<"x", "y">>) \o ArgsU(<<"n">>) \o PointIndex \o LoadAt("x_val", "x") \o LoadAt("y_val", "y") \o
    <<Op("result", "AddF32", <<"y_val", "x_val">>)>> \o StoreAt("y", "result")
scale_kernel ==
    Ptrs(<<"input", "output">>) \o ArgsU(<<"n">>) \o ArgsF(<<"scale">>) \o PointIndex \o LoadAt("val", "input") \o
    <<Op("result", "MulF32", <<"val", "scale">>)>> \o StoreAt("output", "result")

test_memcpy_gpu ==
    Flat(memcpy, <<"input", "output", N>>, ("input" :> A0) @@ ("output" :> Blank(N)), "output" :> A0)
test_residual_add_gpu ==
    Flat(residual_add, <<"x", "y", N>>, ("x" :> A0) @@ ("y" :> B0), "y" :> Each([i \in 0..12 |-> A[i] + B[i]]))

adamw_step ==
    Ptrs(<<"params", "grads", "m", "v">>) \o ArgsU(<<"n">>) \o
    ArgsF(<<"lr", "beta1", "beta2", "eps", "wd", "bc1", "bc2">>) \o PointIndex \o
    LoadAt("p", "params") \o LoadAt("g", "grads") \o LoadAt("m_val", "m") \o LoadAt("v_val", "v") \o
    <<ConstF("one_f", 1), Op("one_minus_b1", "SubF32", <<"one_f", "beta1">>), Op("m_decay", "MulF32", <<"beta1", "m_val">>),
      Op("m_fresh", "MulF32", <<"one_minus_b1", "g">>), Op("m_new", "AddF32", <<"m_decay", "m_fresh">>),
      Op("one_minus_b2", "SubF32", <<"one_f", "beta2">>), Op("g_sq", "MulF32", <<"g", "g">>),
      Op("v_decay", "MulF32", <<"beta2", "v_val">>), Op("v_fresh", "MulF32", <<"one_minus_b2", "g_sq">>),
      Op("v_new", "AddF32", <<"v_decay", "v_fresh">>)>> \o StoreAt("m", "m_new") \o StoreAt("v", "v_new") \o
    <<Op("m_hat", "MulF32", <<"m_new", "bc1">>), Op("v_hat", "MulF32", <<"v_new", "bc2">>),
      Op("v_sqrt", "SqrtF32", <<"v_hat">>), Op("v_eps", "AddF32", <<"v_sqrt", "eps">>),
      Op("update", "DivF32", <<"m_hat", "v_eps">>), Op("lr_wd", "MulF32", <<"lr", "wd">>),
      Op("decay_factor", "SubF32", <<"one_f", "lr_wd">>), Op("p_decayed", "MulF32", <<"p", "decay_factor">>),
      Op("lr_update", "MulF32", <<"lr", "update">>), Op("p_new", "SubF32", <<"p_decayed", "lr_update">>)>> \o
    StoreAt("params", "p_new")

\* The moments and the parameters after a step; h holds the hyperparameters.
cpu_adamw_m(m, g, h) == [i \in DOMAIN m |-> Float(h.beta1 * Real(m[i]) + (1 - h.beta1) * Real(g[i]))]
cpu_adamw_v(v, g, h) == [i \in DOMAIN v |-> Float(h.beta2 * Real(v[i]) + (1 - h.beta2) * Real(g[i]) * Real(g[i]))]
cpu_adamw_p(p, m, v, h) ==
    [i \in DOMAIN p |->
        Float(((Real(p[i]) * (1 - h.lr * h.wd)) % P)
              - h.lr * ((((Real(m[i]) * h.bc1) % P) * Rcp((SqrtOf((Real(v[i]) * h.bc2) % P) + h.eps) % P)) % P))]

Hyper == [lr |-> 3, beta1 |-> 5, beta2 |-> 6, eps |-> 1, wd |-> 4, bc1 |-> 7, bc2 |-> 8]
test_adamw_gpu ==
    LET m == cpu_adamw_m(C0, B0, Hyper)
        v == cpu_adamw_v(A0, B0, Hyper)
    IN  Flat(adamw_step, <<"params", "grads", "m", "v", N>> \o [i \in 1..7 |-> Float(<<3, 5, 6, 1, 4, 7, 8>>[i])],
             ("params" :> A0) @@ ("grads" :> B0) @@ ("m" :> C0) @@ ("v" :> A0),
             ("m" :> m) @@ ("v" :> v) @@ ("params" :> cpu_adamw_p(A0, m, v, Hyper)))
=============================================================================
