----------------------------- MODULE BlockBuilder -----------------------------
(***************************************************************************)
(* BlockKernel (src/src/t0/block_dsl.rs), the builder of kernels.  A call  *)
(* of a method pushes a node (name, operation, operands, immediate) and    *)
(* remembers the type of its value; methods assert the types of their      *)
(* operands, choose the operation by it, or push several nodes.  A program *)
(* is a sequence of calls; Built makes the nodes of it.                    *)
(***************************************************************************)
EXTENDS WaveMachine

Imm(name, op, a, n) == [name |-> name, op |-> op, a |-> a, n |-> n]
Op(name, op, a) == Imm(name, op, a, 0)
ConstU(name, n) == Imm(name, "ConstU32", <<>>, n)
ConstF(name, x) == Imm(name, "ConstF32", <<>>, Float(x))
Do(op, a) == Op("", op, a)
Ptrs(names) == [i \in DOMAIN names |-> Op(names[i], "ArgPtr", <<>>)]
ArgsU(names) == [i \in DOMAIN names |-> Op(names[i], "ArgU32", <<>>)]
ArgsF(names) == [i \in DOMAIN names |-> Op(names[i], "ArgF32", <<>>)]

-----------------------------------------------------------------------------
(* Methods that push several nodes.                                        *)

\* BVal::exp and BVal::sigmoid of the value x.
ExpNodes(name, x) ==
    <<ConstF(name \o "_log2e", LOG2E), Op(name \o "_scaled", "MulF32", <<x, name \o "_log2e">>),
      Op(name, "ExpF32", <<name \o "_scaled">>)>>
SigmoidNodes(name, x) ==
    <<Op(name \o "_neg", "NegF32", <<x>>)>> \o ExpNodes(name \o "_exp", name \o "_neg") \o
    <<ConstF(name \o "_one", 1), Op(name \o "_plus", "AddF32", <<name \o "_one", name \o "_exp">>),
      Op(name, "RcpF32", <<name \o "_plus">>)>>
\* BVal::log.
LogNodes(name, x) ==
    <<Op(name \o "_log2", "Log2F32", <<x>>), ConstF(name \o "_ln2", LN2),
      Op(name, "MulF32", <<name \o "_log2", name \o "_ln2">>)>>
TanhNodes(name, x) ==
    <<ConstF(name \o "_two", 2), Op(name \o "_2x", "MulF32", <<x, name \o "_two">>)>> \o
    SigmoidNodes(name \o "_sig", name \o "_2x") \o
    <<ConstF(name \o "_two2", 2), Op(name \o "_scaled", "MulF32", <<name \o "_sig", name \o "_two2">>),
      ConstF(name \o "_one", 1), Op(name, "SubF32", <<name \o "_scaled", name \o "_one">>)>>
\* The numbers 0.044715 and the root of 2 / pi are some numbers here.
GELU_COEFF == 17
SQRT_2_PI == 23
GeluNodes(name, x) ==
    <<ConstF(name \o "_half", Rcp(2)), ConstF(name \o "_1", 1), ConstF(name \o "_coeff", GELU_COEFF),
      ConstF(name \o "_root", SQRT_2_PI), Op(name \o "_x2", "MulF32", <<x, x>>),
      Op(name \o "_x3", "MulF32", <<name \o "_x2", x>>), Op(name \o "_cx3", "MulF32", <<name \o "_coeff", name \o "_x3">>),
      Op(name \o "_plus", "AddF32", <<x, name \o "_cx3">>), Op(name \o "_inner", "MulF32", <<name \o "_root", name \o "_plus">>)>>
    \o TanhNodes(name \o "_th", name \o "_inner") \o
    <<Op(name \o "_1th", "AddF32", <<name \o "_1", name \o "_th">>), Op(name \o "_hx", "MulF32", <<name \o "_half", x>>),
      Op(name, "MulF32", <<name \o "_hx", name \o "_1th">>)>>
ReluNodes(name, x) == <<ConstF(name \o "_zero", 0), Op(name, "MaxF32", <<x, name \o "_zero">>)>>
ClampNodes(name, x, lo, hi) ==
    <<ConstF(name \o "_lo", lo), ConstF(name \o "_hi", hi), Op(name \o "_min", "MinF32", <<x, name \o "_hi">>),
      Op(name, "MaxF32", <<name \o "_min", name \o "_lo">>)>>
BoundNodes(name, op, x, val) == <<ConstF(name \o "_c", val), Op(name, op, <<x, name \o "_c">>)>>
DotNodes(name, x, y) == <<Op(name \o "_prod", "MulF32", <<x, y>>), Op(name, "WaveReduceAddF32", <<name \o "_prod">>)>>

\* The accesses with a check of the bound: the last operand is n instead of a mask.
Checked(name, op, operands, n) ==
    <<Op(name \o "_in", "LtU32", <<operands[2], n>>), Op(name, op, Append(operands, name \o "_in"))>>
LoadChecked(name, ptr, off, n) == Checked(name, "Load", <<ptr, off>>, n)
StoreChecked(ptr, off, val, n) ==
    <<Op(ptr \o "_in", "LtU32", <<off, n>>), Do("Store", <<ptr, off, val, ptr \o "_in">>)>>

CheckedOps ==
    [load_checked |-> "Load", load_u32_checked |-> "LoadU32", load_bf16_checked |-> "LoadBf16",
     store_bf16_checked |-> "StoreBf16", atomic_add_f32_checked |-> "AtomicAddF32"]
Expand(call) ==
    LET x == call.a[1]
    IN  CASE call.op = "exp" -> ExpNodes(call.name, x)
          [] call.op = "log" -> LogNodes(call.name, x)
          [] call.op = "sigmoid" -> SigmoidNodes(call.name, x)
          [] call.op = "tanh" -> TanhNodes(call.name, x)
          [] call.op = "silu" -> SigmoidNodes(call.name \o "_sig", x) \o <<Op(call.name, "mul", <<x, call.name \o "_sig">>)>>
          [] call.op = "gelu" -> GeluNodes(call.name, x)
          [] call.op = "relu" -> ReluNodes(call.name, x)
          [] call.op = "clamp" -> ClampNodes(call.name, x, call.n[1], call.n[2])
          [] call.op = "max_const" -> BoundNodes(call.name, "MaxF32", x, call.n)
          [] call.op = "min_const" -> BoundNodes(call.name, "MinF32", x, call.n)
          [] call.op = "dot" -> DotNodes(call.name, x, call.a[2])
          [] call.op \in DOMAIN CheckedOps -> Checked(call.name, CheckedOps[call.op], Front(call.a), Last(call.a))
          [] OTHER -> <<call>>

-----------------------------------------------------------------------------
(* Methods that push one node, and the types of values.                    *)

Methods ==
    [lt |-> "LtU32", ge |-> "GeU32", and_bool |-> "AndBool", exp2 |-> "ExpF32", log2 |-> "Log2F32", sqrt |-> "SqrtF32",
     rcp |-> "RcpF32", rsqrt |-> "RsqrtF32", abs |-> "AbsF32", neg |-> "NegF32", div |-> "DivF32", sin |-> "SinF32",
     cos |-> "CosF32", to_f32 |-> "CvtF32U32", to_u32 |-> "CvtU32F32", shr |-> "ShrConstU32", shl |-> "ShlConstU32"]
MoreMethods ==
    [bitand |-> "AndConstU32", bitor |-> "OrConstU32", bitxor |-> "XorConstU32", lt_f32 |-> "CmpLtF32",
     gt_f32 |-> "CmpGtF32", select |-> "Select", bf16_to_f32 |-> "CvtF32BF16", fma |-> "FmaF32", max |-> "MaxF32",
     min |-> "MinF32"]
KernelMethods ==
    [program_id |-> "ProgramId", thread_id |-> "ThreadId", arange |-> "Arange", load |-> "Load", store |-> "Store",
     load_u32 |-> "LoadU32", atomic_add_f32 |-> "AtomicAddF32", store_bf16 |-> "StoreBf16",
     wave_reduce_sum |-> "WaveReduceAddF32", wave_reduce_max |-> "WaveReduceMaxF32", wg_reduce_sum |-> "WgReduceAddF32",
     wg_reduce_max |-> "WgReduceMaxF32", lds_alloc |-> "LdsAlloc", lds_load |-> "LdsLoad", lds_store |-> "LdsStore",
     barrier |-> "Barrier", if_mask |-> "IfMask", else_mask |-> "ElseMask", end_if |-> "EndIf", for_range |-> "ForBegin",
     end_for |-> "ForEnd"]
\* add, mul and sub: the operation depends on the type of the first operand.
Overloaded ==
    [add |-> [F32 |-> "AddF32", U32 |-> "AddU32"], mul |-> [F32 |-> "MulF32", U32 |-> "MulU32"],
     sub |-> [F32 |-> "SubF32", U32 |-> "SubU32"]]

\* BNode::result_type; what has no value is a U32 too.
ResultType(op) ==
    CASE op = "ArgPtr" -> "Ptr"
      [] op = "LdsAlloc" -> "LdsPtr"
      [] op \in {"LtU32", "GeU32", "CmpLtF32", "CmpGtF32", "AndBool"} -> "Mask"
      [] op \in {"ArgF32", "ConstF32", "AddF32", "MulF32", "SubF32", "ExpF32", "Log2F32", "SqrtF32", "RcpF32", "RsqrtF32",
                 "AbsF32", "NegF32", "SinF32", "CosF32", "DivF32", "MaxF32", "MinF32", "FmaF32", "Select", "Load",
                 "LoadBf16", "CvtF32U32", "CvtF32BF16", "WaveReduceAddF32", "WaveReduceMaxF32", "LdsLoad", "ForAccPhi",
                 "ForAccResult", "WgReduceAddF32", "WgReduceMaxF32"} -> "F32"
      [] OTHER -> "U32"

\* The types that the methods assert of their operands.
MemoryOperands ==
    [op \in {"Load", "LoadU32", "LoadBf16"} |-> <<"Ptr", "U32", "Mask">>] @@
    [op \in {"Store", "StoreBf16", "AtomicAddF32"} |-> <<"Ptr", "U32", "F32", "Mask">>]
LdsOperands == [LdsLoad |-> <<"LdsPtr", "U32">>, LdsStore |-> <<"LdsPtr", "U32", "F32">>]
ReduceOperands == [WgReduceAddF32 |-> <<"F32">>, WgReduceMaxF32 |-> <<"F32">>]
Asserted == MemoryOperands @@ LdsOperands @@ ReduceOperands
\* end_for and end_for_acc: the first operand is the loop's own node.
LoopEnds == [ForEnd |-> "ForBegin", ForAccEnd |-> "ForAccBegin"]

\* BlockKernel::new; types and ops are those of the values, by name.
NewKernel == [nodes |-> <<>>, types |-> <<>>, ops |-> <<>>, panics |-> FALSE]
push(kb, node) ==
    [kb EXCEPT !.nodes = Append(@, node), !.types = (node.name :> ResultType(node.op)) @@ @,
               !.ops = (node.name :> node.op) @@ @]
NodeOp(kb, call) ==
    LET type == kb.types[call.a[1]]
        methods == Methods @@ MoreMethods @@ KernelMethods
    IN  CASE call.op \in DOMAIN Overloaded -> IF type \in {"F32", "U32"} THEN Overloaded[call.op][type] ELSE "panic"
          [] call.op \in DOMAIN methods -> methods[call.op]
          [] OTHER -> call.op
Accepts(kb, op, a) ==
    /\ op # "panic"
    /\ op \in DOMAIN Asserted => [i \in DOMAIN a |-> kb.types[a[i]]] = Asserted[op]
    /\ op \in DOMAIN LoopEnds => kb.ops[a[1]] = LoopEnds[op]
Call(kb, call) ==
    LET op == NodeOp(kb, call)
    IN  IF Accepts(kb, op, call.a) THEN push(kb, [call EXCEPT !.op = op]) ELSE [kb EXCEPT !.panics = TRUE]

Builder(calls) == FoldLeft(Call, NewKernel, FlattenSeq([i \in DOMAIN calls |-> Expand(calls[i])]))
\* A program that panics leaves a node that nothing translates.
Built(calls) == LET kb == Builder(calls) IN IF kb.panics THEN <<Do("panic", <<>>)>> ELSE kb.nodes
=============================================================================
