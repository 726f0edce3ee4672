----------------------------- MODULE TensorKernels -----------------------------
(***************************************************************************)
(* The kernels of the tensor operations (src/src/ignis/ops), and the       *)
(* programs of the compiler's own tests (block_dsl.rs, block_dsl_to_ssa.rs)*)
(* for what no operation uses: LDS, masks, loops and tiles of two          *)
(* dimensions.                                                             *)
(***************************************************************************)
EXTENDS BlockKernels

\* The prefix of all elementwise operations: a thread per element of n.
FlatIndex ==
    <<Op("pid", "ProgramId", <<>>), ConstU("bs", 8), Op("base", "MulU32", <<"pid", "bs">>),
      Op("tid", "Arange", <<>>), Op("off", "AddU32", <<"tid", "base">>)>>
\* FusedOp: the operands are loaded, the closure's nodes follow, the result is stored.
Fused(srcs, loaded, body, dst, result) ==
    Ptrs(Append(srcs, dst)) \o ArgsU(<<"n">>) \o FlatIndex \o
    FlattenSeq([i \in DOMAIN srcs |-> LoadChecked(loaded[i], srcs[i], "off", "n")]) \o body \o
    StoreChecked(dst, "off", result, "n")

-----------------------------------------------------------------------------
(* add.rs, silu.rs, shape_ops.rs, psi_activation.rs, fusion.rs             *)

add_f32 == Fused(<<"a", "b">>, <<"va", "vb">>, <<Op("sum", "AddF32", <<"va", "vb">>)>>, "out", "sum")
mul_f32 == Fused(<<"a", "b">>, <<"va", "vb">>, <<Op("prod", "MulF32", <<"va", "vb">>)>>, "out", "prod")
relu_f32 ==
    Fused(<<"a">>, <<"va">>, <<ConstF("zero", 0), Op("relu", "MaxF32", <<"va", "zero">>)>>, "out", "relu")
scale_f32 ==
    Ptrs(<<"a", "out">>) \o ArgsF(<<"scalar">>) \o ArgsU(<<"n">>) \o FlatIndex \o LoadChecked("va", "a", "off", "n") \o
    <<Op("scaled", "MulF32", <<"va", "scalar">>)>> \o StoreChecked("out", "off", "scaled", "n")
fused_fma ==
    Fused(<<"a", "b", "c">>, <<"va", "vb", "vc">>, <<Op("r", "FmaF32", <<"va", "vb", "vc">>)>>, "out", "r")

\* A partial sum per workgroup, stored at the scalar pid by the first thread.
partial_sum_f32 ==
    Ptrs(<<"input", "partial_out">>) \o ArgsU(<<"n">>) \o FlatIndex \o LoadChecked("val", "input", "off", "n") \o
    <<Op("wg_sum", "WgReduceAddF32", <<"val">>), ConstU("one", 1), Op("lane0", "LtU32", <<"tid", "one">>),
      Do("Store", <<"partial_out", "pid", "wg_sum", "lane0">>)>>

\* BVal::silu.
SiluNodes(name, x) == SigmoidNodes(name \o "_sig", x) \o <<Op(name, "MulF32", <<x, name \o "_sig">>)>>
silu_gate ==
    Fused(<<"gate", "up">>, <<"g", "u">>, SiluNodes("silu", "g") \o <<Op("r", "MulF32", <<"silu", "u">>)>>, "out", "r")
silu_backward ==
    Ptrs(<<"grad", "gate", "up", "dgate", "dup">>) \o ArgsU(<<"n">>) \o FlatIndex \o
    LoadChecked("g", "grad", "off", "n") \o LoadChecked("x", "gate", "off", "n") \o LoadChecked("u", "up", "off", "n") \o
    SigmoidNodes("sig", "x") \o
    <<Op("silu", "MulF32", <<"x", "sig">>), Op("d_up", "MulF32", <<"g", "silu">>), ConstF("one", 1),
      Op("one_minus", "SubF32", <<"one", "sig">>), Op("gate_term", "MulF32", <<"x", "one_minus">>),
      Op("bracket", "AddF32", <<"one", "gate_term">>), Op("gu", "MulF32", <<"g", "u">>),
      Op("gus", "MulF32", <<"gu", "sig">>), Op("d_gate", "MulF32", <<"gus", "bracket">>)>> \o
    StoreChecked("dgate", "off", "d_gate", "n") \o StoreChecked("dup", "off", "d_up", "n")
psi_inplace ==
    Ptrs(<<"ptr">>) \o ArgsU(<<"n">>) \o FlatIndex \o LoadChecked("x", "ptr", "off", "n") \o SigmoidNodes("sig", "x") \o
    <<ConstF("two", 2), ConstF("one", 1), Op("twice", "MulF32", <<"two", "sig">>), Op("r", "AddF32", <<"twice", "one">>)>> \o
    StoreChecked("ptr", "off", "r", "n")

Sigma(x) == Rcp((1 + Exp((-x) % P)) % P)
Silu(x) == (x * Sigma(x)) % P
SiluSlope(x) == (Sigma(x) * ((1 + x * ((1 - Sigma(x)) % P)) % P)) % P
Psi(x) == 1 + 2 * Sigma(x)

-----------------------------------------------------------------------------
(* rmsnorm.rs: one wave per row, which passes over it in steps of a wave.  *)

Passes(n) == 0..((n + W - 1) \div W - 1)
Pass(name, j) == name \o ToString(j)
\* The lane's column in pass j, and its element of the row.
Column(j) == IF j = 0 THEN "lane" ELSE Pass("col", j)
PassIndex(base, j) ==
    (IF j = 0 THEN <<>>
     ELSE <<ConstU(Pass("step", j), W * j), Op(Column(j), "AddU32", <<"lane", Pass("step", j)>>)>>) \o
    <<Op(Pass("idx", j), "AddU32", <<base, Column(j)>>), Op(Pass("in", j), "LtU32", <<Column(j), "dim">>)>>
OverPasses(n, nodes) == FlattenSeq([i \in 1..Cardinality(Passes(n)) |-> nodes[i - 1]])

RowLane ==
    <<Op("row", "ProgramId", <<>>), Op("lane", "ThreadId", <<>>), Op("row_base", "MulU32", <<"row", "dim">>)>>
rmsnorm_wave(n) ==
    Ptrs(<<"x", "gamma", "out", "rms">>) \o ArgsU(<<"dim">>) \o RowLane \o <<ConstF("sum", 0)>> \o
    OverPasses(n, [j \in Passes(n) |-> PassIndex("row_base", j) \o
        <<Op(Pass("val", j), "Load", <<"x", Pass("idx", j), Pass("in", j)>>),
          Op(Pass("sum", j), "FmaF32", <<Pass("val", j), Pass("val", j), IF j = 0 THEN "sum" ELSE Pass("sum", j - 1)>>)>>]) \o
    <<Op("total", "WaveReduceAddF32", <<Pass("sum", Max(Passes(n)))>>), Op("dim_f", "CvtF32U32", <<"dim">>),
      Op("inv_dim", "RcpF32", <<"dim_f">>), Op("mean", "MulF32", <<"total", "inv_dim">>), ConstF("eps", 2),
      Op("mean_eps", "AddF32", <<"mean", "eps">>), Op("root", "SqrtF32", <<"mean_eps">>), Op("inv_rms", "RcpF32", <<"root">>),
      ConstU("one", 1), Op("first", "LtU32", <<"lane", "one">>), Do("Store", <<"rms", "row", "inv_rms", "first">>)>> \o
    OverPasses(n, [j \in Passes(n) |-> PassIndex("row_base", j) \o
        <<Op("again", "Load", <<"x", Pass("idx", j), Pass("in", j)>>), Op("g", "Load", <<"gamma", Column(j), Pass("in", j)>>),
          Op("normed", "MulF32", <<"again", "inv_rms">>), Op("scaled", "MulF32", <<"normed", "g">>),
          Do("Store", <<"out", Pass("idx", j), "scaled", Pass("in", j)>>)>>])

-----------------------------------------------------------------------------
(* Programs of the GPU tests, with what they expect.  A workgroup is 8     *)
(* threads and the buffers have 7 elements, or N in two workgroups.        *)

Seven == Floats(<<3, -7, 12, 5, -2, 40, 1>>)
Other == Floats(<<9, 1, -6, 0, 17, -8, 2>>)
Third == Floats(<<-1, 4, 0, 22, 3, -9, 5>>)
Eight == Floats(<<3, -7, 12, 5, -2, 40, 1, -30>>)
Ones == Floats(<<9, 1, -6, 0, 17, -8, 2, 4>>)
Map7(F(_)) == [i \in 0..6 |-> Float(F(i))]
R7(buf, i) == Real(buf[i])

TestIndex ==
    <<Op("pid", "ProgramId", <<>>), ConstU("bs", 8), Op("base", "MulU32", <<"pid", "bs">>), Op("ids", "Arange", <<>>),
      Op("off", "AddU32", <<"ids", "base">>), Op("mask", "LtU32", <<"off", "n">>)>>
\* Without the program's index: only one workgroup runs.
OffsIndex == <<Op("off", "Arange", <<>>), Op("mask", "LtU32", <<"off", "n">>)>>
OffLoad(name, ptr) == <<Op(name, "Load", <<ptr, "off", "mask">>)>>
OffStore(ptr, val) == <<Do("Store", <<ptr, "off", val, "mask">>)>>

\* The pointers of a kernel with inputs and an output, then n.
IO(count) == Ptrs([i \in 1..count |-> "in" \o ToString(i)]) \o Ptrs(<<"out">>) \o ArgsU(<<"n">>)
LoadOp(name, ptr) == <<Op(name, "load", <<ptr, "off", "mask">>)>>
StoreOp(val) == <<Do("store", <<"out", "off", val, "mask">>)>>
OffsCalls == <<Op("off", "arange", <<>>), Op("mask", "lt", <<"off", "n">>)>>

\* A dispatch of a kernel with those arguments, over as many workgroups as n needs.
gpu_dispatch_1d(nodes, inputs, n, result) ==
    LET names == [i \in DOMAIN inputs |-> "in" \o ToString(i)]
        before == FoldLeftDomain(LAMBDA m, i : (names[i] :> inputs[i]) @@ m, "out" :> Zeros(n), inputs)
    IN  [Case(nodes, names \o <<"out", n>>, before, "out" :> result) EXCEPT !.grid = <<(n + 7) \div 8, 1>>]

vector_add ==
    Built(IO(2) \o
        <<Op("pid", "program_id", <<>>), ConstU("bs", 8), Op("base", "mul", <<"pid", "bs">>), Op("ids", "arange", <<>>),
          Op("off", "add", <<"ids", "base">>), Op("mask", "lt", <<"off", "n">>)>> \o
        LoadOp("a", "in1") \o LoadOp("b", "in2") \o <<Op("c", "add", <<"a", "b">>)>> \o StoreOp("c"))
vadd_ssa == Built(IO(2) \o OffsCalls \o LoadOp("a", "in1") \o LoadOp("b", "in2") \o <<Op("c", "add", <<"a", "b">>)>> \o StoreOp("c"))
silu_ssa == Built(IO(1) \o OffsCalls \o LoadOp("x", "in1") \o <<Op("y", "silu", <<"x">>)>> \o StoreOp("y"))

test_gpu_vector_add == gpu_dispatch_1d(vector_add, <<A0, B0>>, N, Each([i \in 0..12 |-> A[i] + B[i]]))
test_vadd_via_ssa_gpu_e2e == gpu_dispatch_1d(vadd_ssa, <<Eight, Ones>>, 8, [i \in 0..7 |-> Float(R7(Eight, i) + R7(Ones, i))])
test_l3_ssa_regalloc_vadd == gpu_dispatch_1d(vadd_ssa, <<Seven, Other>>, 7, Map7(LAMBDA i : R7(Seven, i) + R7(Other, i)))
test_l3_ssa_regalloc_silu == gpu_dispatch_1d(silu_ssa, <<Seven>>, 7, Map7(LAMBDA i : Silu(R7(Seven, i))))
test_l3_ssa_regalloc_fma ==
    gpu_dispatch_1d(Built(IO(3) \o OffsCalls \o LoadOp("a", "in1") \o LoadOp("b", "in2") \o LoadOp("c", "in3") \o
                          <<Op("r", "fma", <<"a", "b", "c">>)>> \o StoreOp("r")),
                    <<Seven, Other, Third>>, 7, Map7(LAMBDA i : R7(Seven, i) * R7(Other, i) + R7(Third, i)))
\* The thread's index in place of arange, and bounds checked by the accesses.
vadd_1d ==
    Built(IO(2) \o
        <<Op("pid", "program_id", <<>>), ConstU("bs", 8), Op("base", "mul", <<"pid", "bs">>), Op("tid", "thread_id", <<>>),
          Op("off", "add", <<"base", "tid">>), Op("mask", "lt", <<"off", "n">>)>> \o
        LoadOp("xv", "in1") \o LoadOp("yv", "in2") \o <<Op("zv", "add", <<"xv", "yv">>)>> \o StoreOp("zv"))
test_1d_regression_after_2d == gpu_dispatch_1d(vadd_1d, <<C0, A0>>, N, Each([i \in 0..12 |-> C[i] + A[i]]))

\* BVal::gelu on a number.
Gelu(x) ==
    LET inner == (SQRT_2_PI * ((x + GELU_COEFF * ((((x * x) % P) * x) % P)) % P)) % P
    IN  (((Rcp(2) * x) % P) * ((1 + 2 * Sigma((inner * 2) % P) - 1) % P)) % P

\* A round trip through LDS: by the thread's index, by the offset, and in a kernel that doubles.
LdsRound(index, idx) ==
    Built(IO(1) \o OffsCalls \o LoadOp("v", "in1") \o <<Imm("lds", "lds_alloc", <<>>, 32)>> \o index \o
        <<Do("lds_store", <<"lds", idx, "v">>), Do("barrier", <<>>), Op("y", "lds_load", <<"lds", idx>>)>> \o StoreOp("y"))
lds_ssa == LdsRound(<<Op("tid", "thread_id", <<>>)>>, "tid")
lds_test == LdsRound(<<>>, "off")
test_lds_via_ssa_gpu_e2e == gpu_dispatch_1d(lds_ssa, <<Seven>>, 7, Seven)
test_lds_basic_compile == gpu_dispatch_1d(lds_test, <<Eight>>, 8, Eight)
test_gpu_lds_double ==
    Flat(Ptrs(<<"x", "out">>) \o ArgsU(<<"n">>) \o TestIndex \o OffLoad("vals", "x") \o
             <<Imm("lds", "LdsAlloc", <<>>, 32), Op("tid", "Arange", <<>>), Do("LdsStore", <<"lds", "tid", "vals">>),
               Do("Barrier", <<>>), Op("back", "LdsLoad", <<"lds", "tid">>), ConstF("two", 2),
               Op("r", "MulF32", <<"back", "two">>)>> \o OffStore("out", "r"),
         <<"x", "out", N>>, ("x" :> A0) @@ ("out" :> Blank(N)), "out" :> Each([i \in 0..12 |-> 2 * A[i]]))
test_gpu_lds_loop_accum ==
    Case(Ptrs(<<"out">>) \o ArgsU(<<"n", "K">>) \o
             <<Op("tid", "Arange", <<>>), Op("mask", "LtU32", <<"tid", "n">>), Imm("lds", "LdsAlloc", <<>>, 32),
               ConstF("zero_f", 0), Do("LdsStore", <<"lds", "tid", "zero_f">>), Do("Barrier", <<>>), ConstU("zero", 0),
               ConstF("one_f", 1), Imm("iter", "ForBegin", <<"zero", "K">>, 1), Op("cur", "LdsLoad", <<"lds", "tid">>),
               Op("new_val", "AddF32", <<"cur", "one_f">>), Do("LdsStore", <<"lds", "tid", "new_val">>),
               Do("ForEnd", <<"iter">>), Op("r", "LdsLoad", <<"lds", "tid">>), Do("Store", <<"out", "tid", "r", "mask">>)>>,
         <<"out", 7, 3>>, "out" :> Blank(7), "out" :> Map7(LAMBDA i : 3))

\* C = A^T B, a thread per element of a 2 by 4 tile, the sum in the thread's word of the LDS.
gemm_tn_naive ==
    Ptrs(<<"A", "B", "C">>) \o ArgsU(<<"M", "N", "K">>) \o
    <<Op("pid_m", "ProgramId", <<>>), Imm("pid_n", "ProgramId", <<>>, 1), Op("tid", "Arange", <<>>),
      Imm("local_n", "AndConstU32", <<"tid">>, 3), Imm("local_m", "ShrConstU32", <<"tid">>, 2), ConstU("bm", 2), ConstU("bn", 4),
      Op("pm", "MulU32", <<"pid_m", "bm">>), Op("gm", "AddU32", <<"pm", "local_m">>),
      Op("pn", "MulU32", <<"pid_n", "bn">>), Op("gn", "AddU32", <<"pn", "local_n">>),
      Op("mask_m", "LtU32", <<"gm", "M">>), Op("mask_n", "LtU32", <<"gn", "N">>),
      Imm("lds", "LdsAlloc", <<>>, 32), Op("lds_tid", "Arange", <<>>), ConstF("zero_f", 0),
      Do("LdsStore", <<"lds", "lds_tid", "zero_f">>), Do("Barrier", <<>>), ConstU("zero", 0),
      Imm("k", "ForBegin", <<"zero", "K">>, 1),
      Op("km", "MulU32", <<"k", "M">>), Op("a_off", "AddU32", <<"km", "gm">>), Op("a", "Load", <<"A", "a_off", "mask_m">>),
      Op("kn", "MulU32", <<"k", "N">>), Op("b_off", "AddU32", <<"kn", "gn">>), Op("b", "Load", <<"B", "b_off", "mask_n">>),
      Op("prod", "MulF32", <<"a", "b">>), Op("cur", "LdsLoad", <<"lds", "lds_tid">>),
      Op("acc", "AddF32", <<"cur", "prod">>), Do("LdsStore", <<"lds", "lds_tid", "acc">>), Do("Barrier", <<>>), Do("ForEnd", <<"k">>),
      Op("r", "LdsLoad", <<"lds", "lds_tid">>), Op("gmn", "MulU32", <<"gm", "N">>), Op("c_off", "AddU32", <<"gmn", "gn">>),
      Do("Store", <<"C", "c_off", "r", "mask_m">>)>>
\* M = 3, N = 8 and K = 2: only whole tiles along N, as in the test, whose last store looks at m alone.
test_gpu_gemm_tn ==
    LET a == Floats(<<1, 2, 3, 4, 5, 6>>)
        b == [i \in 0..15 |-> Float(i - 3)]
    IN  [Case(gemm_tn_naive, <<"A", "B", "C", 3, 8, 2>>, ("A" :> a) @@ ("B" :> b) @@ ("C" :> Blank(24)),
              "C" :> [e \in 0..23 |-> Float(MapThenSumSet(LAMBDA k : Real(a[k * 3 + (e \div 8)]) * Real(b[k * 8 + (e % 8)]), 0..1))])
            EXCEPT !.grid = <<2, 2>>]

test_compile_via_ssa_atomic ==
    Case(Ptrs(<<"x", "out">>) \o ArgsU(<<"n">>) \o OffsIndex \o OffLoad("v", "x") \o
             <<Do("AtomicAddF32", <<"out", "off", "v", "mask">>)>>,
         <<"x", "out", 7>>, ("x" :> Seven) @@ ("out" :> Other), "out" :> Map7(LAMBDA i : R7(Seven, i) + R7(Other, i)))
\* A loop with nothing, or a conversion of its counter, in it, before a store.
LoopThenStore(args, from, to, body, x) ==
    Built(args \o from \o <<Imm("iter", "for_range", to, 1)>> \o body \o <<Op("", "end_for", <<"iter">>)>> \o OffsCalls \o
          <<ConstF("result", x)>> \o StoreOp("result"))
FromZeroTo4 == <<ConstU("start", 0), ConstU("end", 4)>>
forloop_e2e ==
    LoopThenStore(IO(0) \o ArgsU(<<"iters">>), <<ConstU("start", 0)>>, <<"start", "iters">>, <<>>, 99)
loop_compile == LoopThenStore(IO(0), FromZeroTo4, <<"start", "end">>, <<>>, 42)
loop_test == LoopThenStore(IO(0), FromZeroTo4, <<"start", "end">>, <<Op("iter_f32", "to_f32", <<"iter">>)>>, 1)
Constantly(x) == Map7(LAMBDA i : x)
test_for_loop_via_ssa_gpu_e2e ==
    [gpu_dispatch_1d(forloop_e2e, <<>>, 7, Constantly(99)) EXCEPT !.args = <<"out", 7, 3>>]
test_compile_via_ssa_for_loop == gpu_dispatch_1d(loop_compile, <<>>, 7, Constantly(42))
test_block_to_ssa_for_loop == gpu_dispatch_1d(loop_test, <<>>, 7, Constantly(1))
\* The pointer is an argument that the kernel takes after its loop.
test_for_range_basic_compile ==
    [gpu_dispatch_1d(Built(ArgsU(<<"n">>) \o <<ConstU("zero", 0), ConstU("step1", 1), Imm("iter", "for_range", <<"zero", "n">>, 1),
                               Op("", "end_for", <<"iter">>)>> \o Ptrs(<<"out">>) \o OffsCalls \o <<ConstF("c", 42)>> \o
                           StoreOp("c")),
                     <<>>, 5, [i \in 0..4 |-> Float(42)])
        EXCEPT !.args = <<5, "out">>]
\* Two reductions whose results nothing uses.
test_block_to_ssa_wg_reduce ==
    gpu_dispatch_1d(Built(IO(0) \o <<ConstF("val", 1), Op("sum", "wg_reduce_sum", <<"val">>), Op("max", "wg_reduce_max", <<"val">>)>>),
                    <<>>, 7, Zeros(7))
\* Every thread gets the sum of all the threads' indices.
test_compile_via_ssa_wg_reduce ==
    Case(Ptrs(<<"out">>) \o ArgsU(<<"n">>) \o
             <<Op("tid", "ThreadId", <<>>), Op("tid_f32", "CvtF32U32", <<"tid">>), Op("sum", "WgReduceAddF32", <<"tid_f32">>)>> \o
             OffsIndex \o OffStore("out", "sum"),
         <<"out", 7>>, "out" :> Blank(7), "out" :> Map7(LAMBDA i : 28))
\* Within one wave: the maximum includes the zeros of the masked lanes.
test_compile_softmax_partial ==
    OneWave(Case(Ptrs(<<"x", "out">>) \o ArgsU(<<"n">>) \o OffsIndex \o OffLoad("vals", "x") \o
                     <<Op("max_val", "WaveReduceMaxF32", <<"vals">>), Op("shifted", "SubF32", <<"vals", "max_val">>),
                       Op("exp_vals", "ExpF32", <<"shifted">>)>> \o OffStore("out", "exp_vals"),
                 <<"x", "out", 3>>, ("x" :> Floats(<<3, -7, 12>>)) @@ ("out" :> Blank(3)),
                 "out" :> [i \in 0..2 |-> Float(Exp2Of((<<3, -7, 12>>[i + 1] - 12) % P))]))

\* Masks: the store under the if alone, and both sides.
test_gpu_if_only ==
    Flat(Ptrs(<<"x", "y">>) \o ArgsU(<<"n", "half_n">>) \o TestIndex \o OffLoad("a", "x") \o OffStore("y", "a") \o
             <<Op("cond", "LtU32", <<"off", "half_n">>), Do("IfMask", <<"cond">>), ConstF("two", 2),
               Op("doubled", "MulF32", <<"a", "two">>)>> \o OffStore("y", "doubled") \o <<Do("EndIf", <<>>)>>,
         <<"x", "y", N, 6>>, ("x" :> A0) @@ ("y" :> Blank(N)), "y" :> Each([i \in 0..12 |-> IF i < 6 THEN 2 * A[i] ELSE A[i]]))
test_gpu_if_else ==
    Flat(Ptrs(<<"x", "y">>) \o ArgsU(<<"n", "half_n">>) \o TestIndex \o OffLoad("a", "x") \o
             <<Op("cond", "LtU32", <<"off", "half_n">>), Do("IfMask", <<"cond">>), ConstF("three", 3),
               Op("tripled", "MulF32", <<"a", "three">>)>> \o OffStore("y", "tripled") \o
             <<Do("ElseMask", <<>>), ConstF("hundred", 100), Op("shifted", "AddF32", <<"a", "hundred">>)>> \o
             OffStore("y", "shifted") \o <<Do("EndIf", <<>>)>>,
         <<"x", "y", N, 6>>, ("x" :> A0) @@ ("y" :> Blank(N)),
         "y" :> Each([i \in 0..12 |-> IF i < 6 THEN 3 * A[i] ELSE A[i] + 100]))
\* The mask of the branch is also that of the stores, so that the else stores nothing.
Under(name) == <<Op("", name, IF name = "if_mask" THEN <<"mask">> ELSE <<>>)>>
if_only_ssa ==
    Built(IO(1) \o OffsCalls \o LoadOp("a", "in1") \o <<ConstF("two", 2), Op("doubled", "mul", <<"a", "two">>)>> \o
          Under("if_mask") \o StoreOp("doubled") \o Under("end_if"))
if_else_elf ==
    Built(IO(1) \o OffsCalls \o LoadOp("a", "in1") \o Under("if_mask") \o StoreOp("a") \o Under("else_mask") \o
          <<ConstF("zero", 0)>> \o StoreOp("zero") \o Under("end_if"))
test_block_to_ssa_if_only == gpu_dispatch_1d(if_only_ssa, <<Seven>>, 7, Map7(LAMBDA i : 2 * R7(Seven, i)))
test_compile_via_ssa_if_else == gpu_dispatch_1d(if_else_elf, <<Seven>>, 5, [i \in 0..4 |-> Seven[i]])

\* sum_test with a vector to begin with, as a constant is refused.
sum_loop ==
    Case(Ptrs(<<"data", "out">>) \o ArgsU(<<"n">>) \o OffsIndex \o OffLoad("init", "data") \o
             <<ConstU("start", 0), ConstF("one", 1), Imm("iter", "ForAccBegin", <<"start", "n", "init">>, 1),
               Op("acc", "ForAccPhi", <<"iter">>), Op("new_acc", "AddF32", <<"acc", "one">>),
               Do("ForAccEnd", <<"iter", "new_acc">>), Op("r", "ForAccResult", <<"iter">>)>> \o OffStore("out", "r"),
         <<"data", "out", 7>>, ("data" :> Seven) @@ ("out" :> Blank(7)), "out" :> Map7(LAMBDA i : R7(Seven, i) + 7))

\* FusedOp on three closures; the four elements leave the second wave without a thread.
Four == Floats(<<2, -3, 4, 50>>)
Tens == Floats(<<10, 10, -10, 1>>)
test_fusion_unary ==
    Case(Fused(<<"a">>, <<"x">>, <<ConstF("half", Rcp(2)), Op("scaled", "MulF32", <<"x", "half">>)>> \o
                   ExpNodes("e", "scaled") \o SigmoidNodes("s", "e"), "out", "s"),
         <<"a", "out", 4>>, ("a" :> Four) @@ ("out" :> Blank(4)),
         "out" :> [i \in 0..3 |-> Float(Sigma(Exp((Real(Four[i]) * Rcp(2)) % P)))])
test_fusion_binary ==
    Case(Fused(<<"a", "b">>, <<"va", "vb">>, <<Op("sum", "AddF32", <<"va", "vb">>), ConstF("three", 3),
                   Op("r", "MulF32", <<"sum", "three">>)>>, "out", "r"),
         <<"a", "b", "out", 4>>, ("a" :> Four) @@ ("b" :> Tens) @@ ("out" :> Blank(4)),
         "out" :> [i \in 0..3 |-> Float((Real(Four[i]) + Real(Tens[i])) * 3)])
test_fusion_ternary ==
    Case(Fused(<<"a", "b", "c">>, <<"va", "vb", "vc">>, <<Op("r", "FmaF32", <<"va", "vb", "vc">>)>>, "out", "r"),
         <<"a", "b", "c", "out", 4>>, ("a" :> Four) @@ ("b" :> Tens) @@ ("c" :> Four) @@ ("out" :> Blank(4)),
         "out" :> [i \in 0..3 |-> Float(Real(Four[i]) * Real(Tens[i]) + Real(Four[i]))])

-----------------------------------------------------------------------------
(* Tiles of two dimensions: 4 by 2 threads (block_dsl_to_ssa.rs).          *)

BM == 4
BN == 2
\* The thread's row and column, among the tiles of the workgroups along both axes.
TileIndex ==
    <<Op("pid_m", "ProgramId", <<>>), Imm("pid_n", "ProgramId", <<>>, 1), Imm("tid_x", "ThreadIdX2D", <<>>, BM),
      Imm("tid_y", "ThreadIdY2D", <<>>, BM), ConstU("bm", BM), ConstU("bn", BN),
      Op("row_base", "MulU32", <<"pid_m", "bm">>), Op("col_base", "MulU32", <<"pid_n", "bn">>),
      Op("row", "AddU32", <<"row_base", "tid_x">>), Op("col", "AddU32", <<"col_base", "tid_y">>)>>
InMatrix ==
    <<Op("in_rows", "LtU32", <<"row", "M">>), Op("in_cols", "LtU32", <<"col", "N">>),
      Op("mask", "AndBool", <<"in_rows", "in_cols">>)>>
ElementAt(name, row, stride, col) ==
    <<Op(name \o "_row", "MulU32", <<row, stride>>), Op(name, "AddU32", <<name \o "_row", col>>)>>

\* A matrix of 3 rows and 2 columns in lines of 3; what lies past its columns stays.
Matrix == [i \in 0..8 |-> Float(i * i - 9)]
InColumns(i) == i % 3 < 2

test_compile_2d_matrix_add ==
    Case(Ptrs(<<"A", "B", "Y">>) \o ArgsU(<<"M", "N", "stride">>) \o TileIndex \o ElementAt("off", "row", "stride", "col") \o
             InMatrix \o OffLoad("a", "A") \o OffLoad("b", "B") \o <<Op("y", "AddF32", <<"a", "b">>)>> \o OffStore("Y", "y"),
         <<"A", "B", "Y", 3, 2, 3>>, ("A" :> Matrix) @@ ("B" :> Matrix) @@ ("Y" :> Blank(9)),
         "Y" :> [i \in 0..8 |-> IF InColumns(i) THEN Float(2 * Real(Matrix[i])) ELSE Garbage])
test_compile_2d_transpose ==
    [Case(Ptrs(<<"X", "Y">>) \o ArgsU(<<"M", "N", "stride_x", "stride_y">>) \o TileIndex \o InMatrix \o
             ElementAt("off", "row", "stride_x", "col") \o OffLoad("val", "X") \o ElementAt("dst", "col", "stride_y", "row") \o
             <<Do("Store", <<"Y", "dst", "val", "mask">>)>>,
          <<"X", "Y", 3, 3, 3, 3>>, ("X" :> Matrix) @@ ("Y" :> Blank(9)),
          "Y" :> [i \in 0..8 |-> Matrix[3 * (i % 3) + (i \div 3)]])
        EXCEPT !.grid = <<1, 2>>]
test_compile_2d_scalar_mul ==
    Case(Ptrs(<<"X", "Y">>) \o ArgsF(<<"scalar">>) \o ArgsU(<<"N", "stride">>) \o TileIndex \o
             ElementAt("off", "row", "stride", "col") \o <<Op("mask", "LtU32", <<"off", "N">>)>> \o OffLoad("x", "X") \o
             <<Op("y", "MulF32", <<"x", "scalar">>)>> \o OffStore("Y", "y"),
         <<"X", "Y", Float(6), 7, 2>>, ("X" :> Seven) @@ ("Y" :> Blank(7)), "Y" :> Map7(LAMBDA i : 6 * R7(Seven, i)))
test_compile_2d_non_square_tile ==
    Case(Ptrs(<<"X", "Y">>) \o ArgsU(<<"N", "stride">>) \o
             <<Op("pid", "ProgramId", <<>>), Imm("tid_x", "ThreadIdX2D", <<>>, BM), Imm("tid_y", "ThreadIdY2D", <<>>, BM),
               ConstU("bm", BM), Op("row_base", "MulU32", <<"pid", "bm">>), Op("row", "AddU32", <<"row_base", "tid_x">>)>> \o
             ElementAt("off", "row", "stride", "tid_y") \o <<Op("mask", "LtU32", <<"off", "N">>)>> \o OffLoad("x", "X") \o
             SiluNodes("silu", "x") \o OffStore("Y", "silu"),
         <<"X", "Y", 7, 2>>, ("X" :> Seven) @@ ("Y" :> Blank(7)), "Y" :> Map7(LAMBDA i : Silu(R7(Seven, i))))
\* The reduction is over a wave, which is a column of the tile: each of its lanes stores the sum of column 0.
test_compile_2d_row_sum ==
    Case(Ptrs(<<"X", "Y">>) \o ArgsU(<<"N", "stride">>) \o
             <<Op("pid", "ProgramId", <<>>), Imm("tid_x", "ThreadIdX2D", <<>>, BM), Imm("tid_y", "ThreadIdY2D", <<>>, BM),
               ConstU("bm", BM), Op("row_base", "MulU32", <<"pid", "bm">>), Op("row", "AddU32", <<"row_base", "tid_x">>)>> \o
             ElementAt("off", "row", "stride", "tid_y") \o <<Op("mask", "LtU32", <<"off", "N">>)>> \o OffLoad("x", "X") \o
             <<Op("sum", "WaveReduceAddF32", <<"x">>), ConstU("one", 1), Op("first", "LtU32", <<"tid_y", "one">>),
               Do("Store", <<"Y", "row", "sum", "first">>)>>,
         <<"X", "Y", 8, 2>>, ("X" :> Eight) @@ ("Y" :> Blank(4)),
         "Y" :> [r \in 0..3 |-> Float(SumOf([c \in 0..3 |-> R7(Eight, 2 * c)]))])
\* The absolute values, stored as bf16: the operations that no program above uses.
halves_2d ==
    Case(Ptrs(<<"X", "Y">>) \o ArgsU(<<"M", "N", "stride">>) \o TileIndex \o ElementAt("off", "row", "stride", "col") \o
             InMatrix \o OffLoad("x", "X") \o <<Op("abs", "AbsF32", <<"x">>), Do("StoreBf16", <<"Y", "off", "abs", "mask">>)>>,
         <<"X", "Y", 3, 2, 2>>, ("X" :> Seven) @@ ("Y" :> Blank(6)),
         "Y" :> [i \in 0..5 |-> Half(Float(LET r == Signed(Real(Seven[i])) IN IF r < 0 THEN -r ELSE r))])
=============================================================================
