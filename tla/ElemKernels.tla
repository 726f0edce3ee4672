------------------------------ MODULE ElemKernels ------------------------------
(***************************************************************************)
(* ElemChain (src/src/t0/tile_ssa.rs), which fuses a chain of elementwise  *)
(* steps into one kernel, its templates, and the programs that the tests   *)
(* of tile_ssa.rs and tile_ssa_lower.rs write with TileFunc.               *)
(*                                                                         *)
(* A chain is a record: inputs, the names of the buffers it reads; out,    *)
(* the one it writes ("" when in place); scalars; steps, each a record of  *)
(* the step's operation, the input slot and the scalar that it names.      *)
(***************************************************************************)
EXTENDS TensorKernels

Slot(fn, slot) == [fn |-> fn, slot |-> slot, scalar |-> ""]
Step(fn) == Slot(fn, -1)
By(fn, scalar) == [fn |-> fn, slot |-> -1, scalar |-> scalar]
Chain(inputs, out, scalars, steps) == [inputs |-> inputs, out |-> out, scalars |-> scalars, steps |-> steps]
Acc(i) == "acc" \o ToString(i)
In(slot) == "in" \o ToString(slot)

UnarySteps ==
    [relu |-> "relu", silu |-> "silu", sigmoid |-> "sigmoid", neg |-> "NegF32", abs |-> "AbsF32", exp |-> "exp",
     log |-> "log", sqrt |-> "SqrtF32", rcp |-> "RcpF32", rsqrt |-> "RsqrtF32"]
InputSteps == [add_input |-> "AddF32", mul_input |-> "MulF32", sub_input |-> "SubF32"]
ScalarSteps == [scale |-> "MulF32", add_const |-> "AddF32", min_scalar |-> "MinF32", max_scalar |-> "MaxF32"]

\* The thread's element, whether there is one, and a vector of zeros.
ElemIndex ==
    <<Op("pid", "ProgramId", <<>>), ConstU("block_sz", 8), Op("block_off", "MulU32", <<"pid", "block_sz">>),
      Op("lane_off", "Arange", <<>>), Op("block_off_v", "splat", <<"block_off">>),
      Op("offset", "AddU32", <<"block_off_v", "lane_off">>), Op("n_elems_v", "splat", <<"n_elems">>),
      Op("mask", "LtU32", <<"offset", "n_elems_v">>), ConstF("zero_s", 0), Op("zero_v", "splat", <<"zero_s">>)>>
LoadElem(name, ptr) == <<Imm(name, "load_masked", <<ptr, "offset", "mask">>, "f32")>>
StoreElem(ptr, val) == <<Do("store_masked", <<ptr, "offset", val, "mask">>)>>

\* The slots that are loaded; without a load among the steps the chain starts from slot 0.
UsedSlots(chain) ==
    {chain.steps[i].slot : i \in {i \in DOMAIN chain.steps : chain.steps[i].slot >= 0}}
        \cup (IF \E i \in DOMAIN chain.steps : chain.steps[i].fn = "load" THEN {} ELSE {0})

\* The accumulator's node after each number of steps: a load only switches it.
Accumulator(chain) ==
    LET acc[i \in 0..Len(chain.steps)] ==
            IF i = 0 THEN IF chain.steps[1].fn = "load" THEN "zero_v" ELSE In(0)
            ELSE IF chain.steps[i].fn = "load" THEN In(chain.steps[i].slot) ELSE Acc(i)
    IN  acc
StepNodes(step, from, to) ==
    LET sv == to \o "_sv"
        splat == Op(sv, "splat", <<step.scalar>>)
    IN  CASE step.fn \in DOMAIN UnarySteps -> <<Op(to, UnarySteps[step.fn], <<from>>)>>
          [] step.fn = "square" -> <<Op(to, "MulF32", <<from, from>>)>>
          [] step.fn \in DOMAIN InputSteps -> <<Op(to, InputSteps[step.fn], <<from, In(step.slot)>>)>>
          [] step.fn \in DOMAIN ScalarSteps -> <<splat, Op(to, ScalarSteps[step.fn], <<from, sv>>)>>
          [] step.fn = "fma" -> <<splat, Op(to, "FmaF32", <<from, sv, In(step.slot)>>)>>
          [] step.fn = "load" -> <<>>

build(chain) ==
    LET acc == Accumulator(chain)
        steps == chain.steps
        ptrs == IF chain.out = "" THEN chain.inputs ELSE Append(chain.inputs, chain.out)
        slots == SetToSortSeq(UsedSlots(chain), LAMBDA x, y : x < y)
    IN  Ptrs(ptrs) \o ArgsF(chain.scalars) \o ArgsU(<<"n_elems">>) \o ElemIndex \o
        FlattenSeq([i \in DOMAIN slots |-> LoadElem(In(slots[i]), chain.inputs[slots[i] + 1])]) \o
        FlattenSeq([i \in DOMAIN steps |-> StepNodes(steps[i], acc[i - 1], acc[i])]) \o
        StoreElem(IF chain.out = "" THEN chain.inputs[1] ELSE chain.out, acc[Len(steps)])

-----------------------------------------------------------------------------
(* The templates.                                                          *)

swiglu == build(Chain(<<"gate", "up">>, "out", <<>>, <<Step("silu"), Slot("mul_input", 1)>>))
scale_add == build(Chain(<<"a", "b">>, "out", <<"alpha">>, <<By("scale", "alpha"), Slot("add_input", 1)>>))
residual_add_scale ==
    build(Chain(<<"a", "b">>, "out", <<"scale">>, <<Slot("add_input", 1), By("scale", "scale")>>))
\* Written by hand: fma would scale the accumulator, not the gradient.
weight_decay_update ==
    Ptrs(<<"w", "grad", "w_out">>) \o ArgsF(<<"decay", "neg_lr">>) \o ArgsU(<<"n_elems">>) \o ElemIndex \o
    LoadElem("w_val", "w") \o LoadElem("grad_val", "grad") \o
    <<Op("decay_v", "splat", <<"decay">>), Op("w_scaled", "MulF32", <<"w_val", "decay_v">>),
      Op("neg_lr_v", "splat", <<"neg_lr">>), Op("result", "FmaF32", <<"grad_val", "neg_lr_v", "w_scaled">>)>> \o
    StoreElem("w_out", "result")
abs_clip == build(Chain(<<"x">>, "out", <<"threshold">>, <<Step("abs"), By("min_scalar", "threshold")>>))
axpy ==
    build(Chain(<<"a", "b">>, "out", <<"alpha">>, <<Slot("load", 1), By("scale", "alpha"), Slot("add_input", 0)>>))

-----------------------------------------------------------------------------
(* The tests on the GPU, as run_elem_chain_gpu_test runs them: the inputs, *)
(* an output of zeros, the scalars and the number of elements.             *)

run_elem_chain_gpu_test(func, names, inputs, scalars, expected) ==
    LET before == FoldLeftDomain(LAMBDA m, i : (names[i] :> inputs[i]) @@ m, "y" :> Zeros(Cardinality(DOMAIN expected)), inputs)
        n == Cardinality(DOMAIN expected)
    IN  [Case(func, names \o <<"y">> \o scalars \o <<n>>, before, "y" :> expected) EXCEPT !.grid = <<(n + 7) \div 8, 1>>]
Unary(func, scalars, F(_)) ==
    run_elem_chain_gpu_test(func, <<"x">>, <<Seven>>, scalars, Map7(LAMBDA i : F(R7(Seven, i))))
Binary(func, scalars, F(_, _)) ==
    run_elem_chain_gpu_test(func, <<"x", "w">>, <<Seven, Other>>, scalars, Map7(LAMBDA i : F(R7(Seven, i), R7(Other, i))))
Magnitude(x) == IF Signed(x) < 0 THEN (-x) % P ELSE x

custom_relu == build(Chain(<<"x">>, "y", <<>>, <<Step("relu")>>))
custom_sigmoid == build(Chain(<<"x">>, "y", <<>>, <<Step("sigmoid")>>))
test_elem_chain_gpu_relu == Unary(custom_relu, <<>>, LAMBDA x : MaxReal(x, 0))
test_elem_chain_gpu_sigmoid == Unary(custom_sigmoid, <<>>, Sigma)
test_elem_chain_gpu_scale_add == Binary(scale_add, <<Float(11)>>, LAMBDA a, b : a * 11 + b)
test_elem_chain_gpu_swiglu == Binary(swiglu, <<>>, LAMBDA gate, up : Silu(gate) * up)
test_elem_chain_gpu_abs_clip == Unary(abs_clip, <<Float(10)>>, LAMBDA x : MinReal(Magnitude(x), 10))
test_elem_chain_gpu_weight_decay == Binary(weight_decay_update, <<Float(9), Float(-2)>>, LAMBDA w, g : w * 9 - 2 * g)
test_elem_chain_gpu_axpy == Binary(axpy, <<Float(5)>>, LAMBDA a, b : a + 5 * b)
\* In place, over two workgroups.
test_elem_chain_inplace_compile ==
    Flat(build(Chain(<<"x">>, "", <<>>, <<Step("relu")>>)), <<"x", N>>, "x" :> A0, "x" :> Each([i \in 0..12 |-> MaxReal(A[i], 0)]))
\* scale_add in two dispatches, the second of which reads the buffer it writes.
test_elem_chain_benchmark ==
    LET scaled == Map7(LAMBDA i : 11 * R7(Seven, i))
        scale_only == build(Chain(<<"x">>, "y", <<"alpha">>, <<By("scale", "alpha")>>))
        add_only == build(Chain(<<"a", "b">>, "y", <<>>, <<Slot("add_input", 1)>>))
    IN  <<run_elem_chain_gpu_test(scale_only, <<"x">>, <<Seven>>, <<Float(11)>>, scaled),
          Case(add_only, <<"y", "w", "y", 7>>, ("y" :> scaled) @@ ("w" :> Other),
               "y" :> test_elem_chain_gpu_scale_add.final["y"])>>
\* Every step that no template and no test uses.
all_steps ==
    Binary(build(Chain(<<"a", "b">>, "y", <<"s", "t">>,
               <<Step("neg"), Step("exp"), Slot("sub_input", 1), Step("square"), By("add_const", "s"), Step("log"),
                 [fn |-> "fma", slot |-> 1, scalar |-> "t"], By("max_scalar", "s"), Step("sqrt"), Step("rcp"), Step("rsqrt")>>)),
           <<Float(4), Float(6)>>,
           LAMBDA a, b : LET e == (Exp((-a) % P) - b) % P
                             l == Ln((e * e + 4) % P)
                             m == MaxReal((l * 6 + b) % P, 4)
                         IN  Rcp(SqrtOf(Rcp(SqrtOf(m)))))

-----------------------------------------------------------------------------
(* Programs of TileFunc: accesses without a mask, so that there are as     *)
(* many elements as threads.                                               *)

Load(name, ptr, idx) == <<Imm(name, "load", <<ptr, idx>>, "f32")>>
Store(ptr, idx, val) == <<Do("store", <<ptr, idx, val>>)>>

\* build_fn are nodes that make "y" of "x", expected what they should make of the numbers of Eight.
run_unary_gpu_test(build_fn, expected) ==
    Case(Ptrs(<<"x_ptr", "y_ptr">>) \o <<Op("offs", "Arange", <<>>)>> \o Load("x", "x_ptr", "offs") \o build_fn \o
             Store("y_ptr", "offs", "y"),
         <<"x_ptr", "y_ptr">>, ("x_ptr" :> Eight) @@ ("y_ptr" :> Zeros(8)), "y_ptr" :> expected)
Map8(cpu_fn(_)) == [i \in 0..7 |-> Float(cpu_fn(Real(Eight[i])))]
test_lower_silu_gpu == run_unary_gpu_test(<<Op("y", "silu", <<"x">>)>>, Map8(Silu))
test_lower_exp_gpu == run_unary_gpu_test(<<Op("y", "exp", <<"x">>)>>, Map8(Exp))
test_lower_relu_gpu == run_unary_gpu_test(<<Op("y", "relu", <<"x">>)>>, Map8(LAMBDA x : MaxReal(x, 0)))
test_lower_sin_gpu == run_unary_gpu_test(<<Op("y", "SinF32", <<"x">>)>>, Map8(Sin))
test_lower_cos_gpu == run_unary_gpu_test(<<Op("y", "CosF32", <<"x">>)>>, Map8(Cos))
test_lower_scale_kernel ==
    run_unary_gpu_test(<<ConstF("two", 2), Op("two_v", "splat", <<"two">>), Op("y", "MulF32", <<"x", "two_v">>)>>,
                       Map8(LAMBDA x : 2 * x))
test_lower_cast_bf16_gpu ==
    run_unary_gpu_test(<<Imm("bf", "cast", <<"x">>, "bf16"), Imm("y", "cast", <<"bf">>, "f32")>>,
                       [i \in 0..7 |-> HalfToFloat(Half(Eight[i]))])

SumAt(idx) ==
    Load("x", "x_ptr", idx) \o Load("y", "y_ptr", idx) \o <<Op("out", "AddF32", <<"x", "y">>)>> \o Store("out_ptr", idx, "out")
vadd_e2e == Ptrs(<<"x_ptr", "y_ptr", "out_ptr">>) \o <<Op("offs", "Arange", <<>>)>> \o SumAt("offs")
tile_vector_add ==
    Ptrs(<<"x_ptr", "y_ptr", "out_ptr">>) \o ArgsU(<<"n">>) \o
    <<Op("pid", "ProgramId", <<>>), ConstU("block_size", 8), Op("base", "MulU32", <<"pid", "block_size">>),
      Op("offs", "Arange", <<>>), Op("base_v", "splat", <<"base">>), Op("idx", "AddU32", <<"base_v", "offs">>)>> \o SumAt("idx")
test_lower_vector_add_gpu ==
    Case(vadd_e2e, <<"x_ptr", "y_ptr", "out_ptr">>, ("x_ptr" :> Eight) @@ ("y_ptr" :> Ones) @@ ("out_ptr" :> Zeros(8)),
         "out_ptr" :> [i \in 0..7 |-> Float(Real(Eight[i]) + Real(Ones[i]))])
test_lower_vector_add ==
    Case(tile_vector_add, <<"x_ptr", "y_ptr", "out_ptr", 8>>,
         ("x_ptr" :> Ones) @@ ("y_ptr" :> Ones) @@ ("out_ptr" :> Zeros(8)), "out_ptr" :> [i \in 0..7 |-> Float(2 * Real(Ones[i]))])
test_lower_multi_wg_vadd_gpu ==
    LET a == [i \in 0..15 |-> Float(i * i)]
        b == [i \in 0..15 |-> Float(16 - i)]
    IN  Flat(Ptrs(<<"x", "y", "out">>) \o
                 <<Op("pid", "ProgramId", <<>>), ConstU("block_sz", 8), Op("block_off", "MulU32", <<"pid", "block_sz">>),
                   Op("lane_off", "Arange", <<>>), Op("block_off_v", "splat", <<"block_off">>),
                   Op("idx", "AddU32", <<"block_off_v", "lane_off">>)>> \o
                 Load("xv", "x", "idx") \o Load("yv", "y", "idx") \o <<Op("o", "AddF32", <<"xv", "yv">>)>> \o Store("out", "idx", "o"),
             <<"x", "y", "out">>, ("x" :> a) @@ ("y" :> b) @@ ("out" :> Zeros(16)),
             "out" :> [i \in 0..15 |-> Float(i * i + 16 - i)])
\* The sum of 0 to 3, carried through the loop in scalar registers.
test_lower_for_range_gpu ==
    Case(Ptrs(<<"out">>) \o
             <<ConstU("zero", 0), Imm("lp", "for_range", <<"zero">>, 4), Op("acc", "ForAccPhi", <<"lp">>),
               Op("new_acc", "AddU32", <<"acc", "lp">>), Do("ForAccEnd", <<"lp", "new_acc">>), Op("offs", "Arange", <<>>),
               Op("result", "ForAccResult", <<"lp">>), Op("result_v", "splat", <<"result">>),
               Imm("result_f", "cast", <<"result_v">>, "f32")>> \o Store("out", "offs", "result_f"),
         <<"out">>, "out" :> Zeros(8), "out" :> [i \in 0..7 |-> Float(6)])
\* A row per workgroup; its reductions stay within a wave, so that the rows are one wave wide.
test_softmax_kernel ==
    OneWave(Flat(Ptrs(<<"x_ptr", "out_ptr">>) \o ArgsU(<<"n_cols">>) \o
             <<Op("pid", "ProgramId", <<>>), Op("offs", "Arange", <<>>), Op("row_start", "MulU32", <<"pid", "n_cols">>),
               Op("row_start_v", "splat", <<"row_start">>), Op("idx", "AddU32", <<"row_start_v", "offs">>)>> \o
             Load("x", "x_ptr", "idx") \o
             <<Op("row_max", "reduce_max", <<"x">>), Op("row_max_v", "splat", <<"row_max">>),
               Op("x_shifted", "SubF32", <<"x", "row_max_v">>), Op("exp_x", "exp", <<"x_shifted">>),
               Op("row_sum", "sum", <<"exp_x">>), Op("row_sum_v", "splat", <<"row_sum">>),
               Op("result", "DivF32", <<"exp_x", "row_sum_v">>)>> \o Store("out_ptr", "idx", "result"),
         <<"x_ptr", "out_ptr", W>>, ("x_ptr" :> Eight) @@ ("out_ptr" :> Zeros(8)),
         "out_ptr" :> [i \in 0..7 |->
             Float(cpu_softmax_forward([c \in 0..3 |-> Real(Eight[W * (i \div W) + c])])[i % W])]))

ChainKernels ==
    "chain_relu" :> test_elem_chain_gpu_relu @@ "chain_sigmoid" :> test_elem_chain_gpu_sigmoid @@
    "scale_add" :> test_elem_chain_gpu_scale_add @@ "swiglu" :> test_elem_chain_gpu_swiglu @@
    "abs_clip" :> test_elem_chain_gpu_abs_clip @@ "weight_decay" :> test_elem_chain_gpu_weight_decay @@
    "axpy" :> test_elem_chain_gpu_axpy @@ "inplace_relu" :> test_elem_chain_inplace_compile @@
    "residual_scale" :> Binary(residual_add_scale, <<Float(3)>>, LAMBDA a, b : (a + b) * 3) @@
    "scale_only" :> test_elem_chain_benchmark[1] @@ "add_only" :> test_elem_chain_benchmark[2] @@
    "tile_vadd" :> test_lower_vector_add @@ "all_steps" :> all_steps @@ "silu_gpu" :> test_lower_silu_gpu @@ "exp_gpu" :> test_lower_exp_gpu @@
    "relu_gpu" :> test_lower_relu_gpu @@ "sin_gpu" :> test_lower_sin_gpu @@ "cos_gpu" :> test_lower_cos_gpu @@
    "tile_scale" :> test_lower_scale_kernel @@ "cast_bf16" :> test_lower_cast_bf16_gpu @@
    "vadd_e2e" :> test_lower_vector_add_gpu @@ "vadd_mwg" :> test_lower_multi_wg_vadd_gpu @@
    "for_range" :> test_lower_for_range_gpu @@ "tile_softmax" :> test_softmax_kernel
=============================================================================
