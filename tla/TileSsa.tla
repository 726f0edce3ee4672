------------------------------- MODULE TileSsa -------------------------------
(***************************************************************************)
(* The kernels written with BlockKernel (src/src/t0/block_dsl.rs), from    *)
(* the nodes a builder left to what the GPU computes: block_to_ssa         *)
(* (block_dsl_to_ssa.rs) turns the nodes into blocks of typed operations   *)
(* (tile_ssa.rs), lower_elementwise_1d (tile_ssa_lower.rs) turns these     *)
(* into instructions, and the waves of each workgroup run them.            *)
(*                                                                         *)
(* A kernel is a record: nodes, the list a builder made; args, the values  *)
(* of its arguments (a pointer is the name of a buffer); block, the waves  *)
(* of a workgroup; grid, the workgroups along x and y; mem, the buffers    *)
(* before the dispatch; final, the buffers a reference computes.           *)
(*                                                                         *)
(* External: how waves run (WaveMachine), memory, LDS and barriers.        *)
(* Register allocation and the optimizer come in between; they are         *)
(* modelled by themselves (RegAlloc, Optimizer).                           *)
(***************************************************************************)
EXTENDS WaveMachine

CONSTANT Kernels   \* the kernels, by name

VARIABLES
    kernel,    \* the kernel being compiled and run (its nodes go once they are translated)
    phase,     \* translate, lower, run, done, or failed (the compiler gave up)
    node,      \* the next node to translate
    func,      \* the TileFunc: types of the values, blocks, current block
    vals,      \* val_map of block_to_ssa: the value of each node
    loops,     \* loop_map and acc_loop_map: the loops that were begun
    place,     \* the next operation to lower: its block and place
    low,       \* the T0Kernel so far, and the lowering's maps
    waves,     \* the waves of the workgroup that is running
    group,     \* its index
    todo,      \* the workgroups that have not started
    mem,       \* global memory
    lds        \* the workgroup's shared memory, by byte address

frontend == <<func, vals, loops, node>>
backend == <<place, low>>
machine == <<waves, group, todo, mem, lds>>
vars == <<kernel, phase, frontend, backend, machine>>

-----------------------------------------------------------------------------
(* TileFunc.                                                               *)

Ptr == <<"ptr", "">>
Scal(d) == <<"scalar", d>>
Vec(d) == <<"vector", d>>
Panic == <<"panic", "">>

\* infer_binop_type: a scalar is broadcast, anything else must agree.
BinopType(l, r) ==
    CASE l = r -> l
      [] {l[1], r[1]} = {"scalar", "vector"} /\ l[2] = r[2] -> Vec(l[2])
      [] OTHER -> Panic

EmptyFunc == [ty |-> <<>>, args |-> <<>>, blocks |-> <<[ops |-> <<>>, params |-> <<>>, term |-> <<>>]>>,
              cur |-> 1]
TypeOf(f, v) == f.ty[v]
Newest(f) == Len(f.ty)

\* push_op, with a result of type ty, without one, and alloc_value for a parameter.
Void(f, op, a, n) ==
    [f EXCEPT !.blocks[f.cur].ops = Append(@, [op |-> op, r |-> 0, a |-> a, n |-> n])]
Push(f, op, a, n, ty) ==
    [f EXCEPT !.blocks[f.cur].ops = Append(@, [op |-> op, r |-> Newest(f) + 1, a |-> a, n |-> n]),
              !.ty = Append(@, ty)]
Arg(f, ty) == [f EXCEPT !.ty = Append(@, ty), !.args = Append(@, Newest(f) + 1)]
Param(f, b, ty) ==
    [f EXCEPT !.ty = Append(@, ty), !.blocks[b].params = Append(@, Newest(f) + 1)]

ConstU32(f, n) == Push(f, "ConstU32", <<>>, n, Scal("u32"))
Binop(f, kind, l, r) == Push(f, kind, <<l, r>>, 0, BinopType(TypeOf(f, l), TypeOf(f, r)))
BinopConst(f, kind, l, n) == Binop(ConstU32(f, n), kind, l, Newest(f) + 1)
Unop(f, kind, a) == Push(f, kind, <<a>>, 0, TypeOf(f, a))
Cmp(f, kind, l, r) == Push(f, kind, <<l, r>>, 0, <<TypeOf(f, l)[1], "bool">>)
Cast(f, a, d) == Push(f, "Cast", <<a>>, d, <<TypeOf(f, a)[1], d>>)

Terminate(f, term) == [f EXCEPT !.blocks[f.cur].term = term]
SwitchTo(f, b) == [f EXCEPT !.cur = b]
Branch(target, args) == [op |-> "Branch", to |-> target, args |-> args]
CondBranch(cond, yes, no, args) == [op |-> "CondBranch", cond |-> cond, to |-> yes, no |-> no, args |-> args]
Return == [op |-> "Return"]

-----------------------------------------------------------------------------
(* block_to_ssa: one node at a time.                                       *)

Nodes == kernel.nodes
Node == Nodes[node]
Get(i) == vals[Node.a[i]]
Translating(ops) == phase = "translate" /\ node <= Len(Nodes) /\ Node.op \in ops

\* Go on to the next node with the function f; the node's value, if it has one, is v.
Translated(f, v) ==
    /\ func' = f
    /\ vals' = IF v = 0 THEN vals ELSE (Node.name :> v) @@ vals
    /\ node' = node + 1
    /\ phase' = IF Panic \in ToSet(f.ty) THEN "failed" ELSE phase
    /\ UNCHANGED <<kernel, loops, backend, machine>>
WithResult(f) == Translated(f, Newest(f))

TranslateArg ==
    /\ Translating({"ArgPtr", "ArgU32", "ArgF32"})
    /\ WithResult(Arg(func, CASE Node.op = "ArgPtr" -> Ptr
                              [] Node.op = "ArgU32" -> Scal("u32")
                              [] Node.op = "ArgF32" -> Scal("f32")))

TranslateIndex ==
    /\ Translating({"ProgramId", "ThreadId", "ThreadIdX2D", "ThreadIdY2D", "Arange"})
    /\ LET arange == Push(func, "Arange", <<>>, 0, Vec("u32"))
       IN  WithResult(CASE Node.op = "ProgramId" -> Push(func, "ProgramId", <<>>, Node.n, Scal("u32"))
                        [] Node.op \in {"ThreadIdX2D", "ThreadIdY2D"} -> Push(func, Node.op, <<>>, Node.n, Vec("u32"))
                        [] Node.op = "ThreadId" \/ Node.n = 0 -> arange
                        [] OTHER -> BinopConst(arange, "Add", Newest(arange), Node.n))

TranslateConst ==
    /\ Translating({"ConstU32", "ConstF32"})
    /\ WithResult(Push(func, Node.op, <<>>, Node.n, Scal(IF Node.op = "ConstU32" THEN "u32" ELSE "f32")))

BinaryNodes ==
    [AddF32 |-> "Add", MulF32 |-> "Mul", SubF32 |-> "Sub", DivF32 |-> "Div", MaxF32 |-> "Max",
     MinF32 |-> "Min", AddU32 |-> "Add", SubU32 |-> "Sub", MulU32 |-> "Mul", AndBool |-> "And"]
TranslateBinary ==
    /\ Translating(DOMAIN BinaryNodes)
    /\ WithResult(Binop(func, BinaryNodes[Node.op], Get(1), Get(2)))

ConstNodes ==
    [ShrConstU32 |-> "Shr", ShlConstU32 |-> "Shl", AndConstU32 |-> "And", OrConstU32 |-> "Or",
     XorConstU32 |-> "Xor", CvtF32BF16 |-> "Shl"]
TranslateBinaryConst ==
    /\ Translating(DOMAIN ConstNodes)
    /\ WithResult(BinopConst(func, ConstNodes[Node.op], Get(1), IF Node.op = "CvtF32BF16" THEN 16 ELSE Node.n))

UnaryNodes ==
    [ExpF32 |-> "Exp2", Log2F32 |-> "Log2", SqrtF32 |-> "Sqrt", RcpF32 |-> "Rcp", RsqrtF32 |-> "Rsqrt",
     AbsF32 |-> "Abs", NegF32 |-> "Neg", SinF32 |-> "Sin", CosF32 |-> "Cos",
     exp |-> "Exp", log |-> "Log", relu |-> "Relu", sigmoid |-> "Sigmoid", silu |-> "Silu"]
TranslateUnary ==
    /\ Translating(DOMAIN UnaryNodes)
    /\ WithResult(Unop(func, UnaryNodes[Node.op], Get(1)))

TranslateFma ==
    /\ Translating({"FmaF32"})
    /\ WithResult(Push(func, "Fma", <<Get(1), Get(2), Get(3)>>, 0, TypeOf(func, Get(1))))

TranslateCompare ==
    /\ Translating({"LtU32", "GeU32", "CmpLtF32", "CmpGtF32"})
    /\ WithResult(CASE Node.op = "GeU32" -> Cmp(func, "CmpGe", Get(1), Get(2))
                    [] Node.op = "CmpGtF32" -> Cmp(func, "CmpLt", Get(2), Get(1))
                    [] OTHER -> Cmp(func, "CmpLt", Get(1), Get(2)))

TranslateSelect ==
    /\ Translating({"Select"})
    /\ WithResult(Push(func, "Select", <<Get(1), Get(2), Get(3)>>, 0, TypeOf(func, Get(2))))

\* load_masked panics unless the indices are a vector; the value for the masked
\* lanes is made, and ignored.
LoadMasked(f, ptr, idx, mask, d) ==
    LET zero == Push(f, IF d = "f32" THEN "ConstF32" ELSE "ConstU32", <<>>, 0,
                     Scal(IF d = "f32" THEN "f32" ELSE "u32"))
    IN  Push(zero, "Load", <<ptr, idx, mask>>, d, IF TypeOf(f, idx)[1] = "vector" THEN Vec(d) ELSE Panic)
TranslateLoad ==
    /\ Translating({"Load", "LoadU32", "LoadBf16"})
    /\ WithResult(CASE Node.op = "Load" -> LoadMasked(func, Get(1), Get(2), Get(3), "f32")
                    [] Node.op = "LoadU32" -> LoadMasked(func, Get(1), Get(2), Get(3), "u32")
                    [] Node.op = "LoadBf16" ->
                         BinopConst(LoadMasked(func, Get(1), Get(2), Get(3), "bf16"), "Shl", Newest(func) + 2, 16))

TranslateStore ==
    /\ Translating({"Store", "StoreBf16", "AtomicAddF32"})
    /\ Translated(CASE Node.op = "Store" -> Void(func, "Store", <<Get(1), Get(2), Get(3), Get(4)>>, 0)
                    [] Node.op = "AtomicAddF32" -> Void(func, "AtomicAddF32", <<Get(1), Get(2), Get(3), Get(4)>>, 0)
                    [] Node.op = "StoreBf16" ->
                         Void(Cast(func, Get(3), "bf16"), "Store", <<Get(1), Get(2), Newest(func) + 1, Get(4)>>, 0), 0)

TranslateCast ==
    /\ Translating({"CvtF32U32", "CvtU32F32"})
    /\ WithResult(Cast(func, Get(1), IF Node.op = "CvtF32U32" THEN "f32" ELSE "u32"))

ReduceNodes ==
    [WaveReduceAddF32 |-> "ReduceAdd", WaveReduceMaxF32 |-> "ReduceMax", reduce_max |-> "ReduceMax", sum |-> "ReduceAdd",
     WgReduceAddF32 |-> "WgReduceAdd", WgReduceMaxF32 |-> "WgReduceMax"]
\* Calls of TileFunc that BlockKernel has no node for: accesses without a mask, splat and cast.
TranslateCall ==
    /\ Translating({"splat", "cast", "load", "load_masked", "store", "store_masked"})
    /\ LET ty == TypeOf(func, Get(1))
           operands == [i \in DOMAIN Node.a |-> Get(i)]
       IN  CASE Node.op = "splat" ->
                  WithResult(Push(func, "Splat", operands, 0, IF ty[1] = "scalar" THEN Vec(ty[2]) ELSE Panic))
             [] Node.op = "cast" -> WithResult(Cast(func, Get(1), Node.n))
             [] Node.op \in {"load", "load_masked"} ->
                  LET shape == TypeOf(func, Get(2))[1]
                      allowed == {"vector"} \cup (IF Node.op = "load" THEN {"scalar"} ELSE {})
                  IN  WithResult(Push(func, "Load", operands, Node.n, IF shape \in allowed THEN <<shape, Node.n>> ELSE Panic))
             [] Node.op \in {"store", "store_masked"} -> Translated(Void(func, "Store", operands, 0), 0)

TranslateReduce ==
    /\ Translating(DOMAIN ReduceNodes)
    /\ WithResult(Push(func, ReduceNodes[Node.op], <<Get(1)>>, 0,
            CASE Node.op = "WaveReduceAddF32" -> Scal(TypeOf(func, Get(1))[2])
              [] Node.op \in {"WaveReduceMaxF32", "reduce_max", "sum"} ->
                   IF TypeOf(func, Get(1))[1] = "vector" THEN Scal(TypeOf(func, Get(1))[2]) ELSE Panic
              [] OTHER -> Scal("f32")))

TranslateLds ==
    /\ Translating({"LdsAlloc", "LdsLoad", "LdsStore", "Barrier"})
    /\ CASE Node.op = "LdsAlloc" -> WithResult(Push(func, "LdsAlloc", <<>>, Node.n, Scal("u32")))
         [] Node.op = "LdsLoad"  -> WithResult(Push(func, "LdsLoad", <<Get(1), Get(2)>>, 0, Scal("f32")))
         [] Node.op = "LdsStore" -> Translated(Void(func, "LdsStore", <<Get(1), Get(2), Get(3)>>, 0), 0)
         [] Node.op = "Barrier"  -> Translated(Void(func, "Barrier", <<>>, 0), 0)

TranslateMask ==
    /\ Translating({"IfMask", "ElseMask", "EndIf"})
    /\ Translated(CASE Node.op = "IfMask" -> Void(func, "ExecMaskPush", <<Get(1)>>, 0)
                    [] Node.op = "ElseMask" -> Void(func, "ExecMaskFlip", <<>>, 0)
                    [] Node.op = "EndIf" -> Void(func, "ExecMaskPop", <<>>, 0), 0)

\* for_range_runtime and for_range_with_acc_runtime: header, body and exit blocks, the
\* counter (and the accumulator) as the header's parameters, the result as the exit's.
\* end is the value that bounds the loop; without one (0), limit is the constant that does.
BeginLoop(f, start, end, limit, inits, step) ==
    LET h == Len(f.blocks) + 1
        block == [ops |-> <<>>, params |-> <<>>, term |-> <<>>]
        entered == SwitchTo([Terminate(f, Branch(h, <<start>> \o inits)) EXCEPT !.blocks = @ \o <<block, block, block>>], h)
        iv == Param(entered, h, Scal("u32"))
        acc == IF inits = <<>> THEN iv ELSE Param(iv, h, TypeOf(f, inits[1]))
        bounded == IF end = 0 THEN ConstU32(acc, limit) ELSE acc
        tested == Cmp(bounded, "CmpLt", Newest(iv), IF end = 0 THEN Newest(bounded) ELSE end)
        result == IF inits = <<>> THEN tested ELSE Param(tested, h + 2, TypeOf(f, inits[1]))
    IN  [f |-> SwitchTo(Terminate(result, CondBranch(Newest(tested), h + 1, h + 2,
                            IF inits = <<>> THEN <<>> ELSE <<Newest(acc)>>)), h + 1),
         loop |-> [header |-> h, iv |-> Newest(iv), acc |-> Newest(acc), result |-> Newest(result), step |-> step]]

Begun(l) ==
    /\ func' = l.f
    /\ vals' = (Node.name :> l.loop.iv) @@ vals
    /\ loops' = (Node.name :> l.loop) @@ loops
    /\ node' = node + 1
    /\ UNCHANGED <<kernel, phase, backend, machine>>

TranslateForBegin ==
    /\ Translating({"ForBegin", "ForAccBegin"})
    /\ \E l \in {BeginLoop(func, Get(1), Get(2), 0, IF Node.op = "ForBegin" THEN <<>> ELSE <<Get(3)>>, Node.n)} : Begun(l)

\* for_range and for_range_with_acc, whose bounds are numbers: from zero to Node.n, by one.
TranslateForRange ==
    /\ Translating({"for_range"})
    /\ LET from == ConstU32(func, 0)
       IN  \E l \in {BeginLoop(from, Newest(from), 0, Node.n, [i \in DOMAIN Node.a |-> Get(i)], 1)} : Begun(l)

\* end_for and end_for_acc: Node.a[1] names the ForBegin node.
TranslateForEnd ==
    /\ Translating({"ForEnd", "ForAccEnd"})
    /\ LET loop == loops[Node.a[1]]
           next == Binop(ConstU32(func, loop.step), "Add", loop.iv, Newest(func) + 1)
           news == IF Node.op = "ForEnd" THEN <<>> ELSE <<Get(2)>>
       IN  Translated(SwitchTo(Terminate(next, Branch(loop.header, <<Newest(next)>> \o news)), loop.header + 2), 0)

TranslateForAcc ==
    /\ Translating({"ForAccPhi", "ForAccResult"})
    /\ Translated(func, IF Node.op = "ForAccPhi" THEN loops[Node.a[1]].acc ELSE loops[Node.a[1]].result)

-----------------------------------------------------------------------------
(* lower_elementwise_1d.  low holds the instructions, val_map (val), the   *)
(* registers given to block parameters (orig), the next free registers     *)
(* (vr, sr), the LDS in use (lds), exec_save_stack (saved) and whether the *)
(* lowering failed (err).  A MachineVal is <<"v", i>>, <<"s", i>>,         *)
(* <<"i", n>> for an inline integer, <<"f", w>> an inline float, or        *)
(* <<"p", buffer>>.                                                        *)

INLINE_MAX == 4            \* 64 in the code: less than a workgroup, more than a wave
InlineFloats == {0} \cup {Float(x) : x \in {1, 2, 4, -1, -2, -4, Rcp(2), -Rcp(2)}}

EmptyLow == [code |-> <<>>, val |-> <<>>, orig |-> <<>>, vr |-> 1, sr |-> 0, lds |-> 0, saved |-> <<>>, err |-> FALSE]
Emit(k, code) == [k EXCEPT !.code = @ \o code]
VRegs(k, count) == [k EXCEPT !.vr = @ + count]
SRegs(k, count) == [k EXCEPT !.sr = @ + count]
MapTo(k, v, mv) == [k EXCEPT !.val = (v :> mv) @@ @]
GivenUp(k) == [k EXCEPT !.err = TRUE]

\* Mutant: the promotion of a scalar register is kept, as that of a constant is.
GetVRegCached(k, v) ==
    LET mv == k.val[v]
        src == IF mv[1] = "s" THEN mv ELSE K(mv[2])
    IN  CASE mv[1] = "v" -> [low |-> k, reg |-> mv]
          [] mv[1] = "p" -> [low |-> GivenUp(k), reg |-> V(0)]
          [] OTHER -> [low |-> MapTo(Emit(VRegs(k, 1), <<Instr("v_mov", V(k.vr), <<src>>)>>), v, V(k.vr)),
                       reg |-> V(k.vr)]

\* get_vreg: a constant's register is remembered in val_map, a scalar's is not.
GetVReg(k, v) ==
    LET mv == k.val[v]
        moved == Emit(VRegs(k, 1), <<Instr("v_mov", V(k.vr), <<IF mv[1] = "s" THEN mv ELSE K(mv[2])>>)>>)
    IN  CASE mv[1] = "v" -> [low |-> k, reg |-> mv]
          [] mv[1] = "s" -> [low |-> moved, reg |-> V(k.vr)]
          [] mv[1] \in {"i", "f"} -> [low |-> MapTo(moved, v, V(k.vr)), reg |-> V(k.vr)]
          [] mv[1] = "p" -> [low |-> GivenUp(k), reg |-> V(0)]

\* get_vreg on several values, one after the other.
GetVRegs(k, vs) ==
    FoldLeft(LAMBDA acc, v : LET got == GetVReg(acc.low, v)
                             IN  [low |-> got.low, regs |-> Append(acc.regs, got.reg)],
             [low |-> k, regs |-> <<>>], vs)

TileOp == func.blocks[place[1]].ops[place[2]]
Lowering(ops) ==
    phase = "lower" /\ place[2] <= Len(func.blocks[place[1]].ops) /\ TileOp.op \in ops
Lowered(k) ==
    /\ low' = k
    /\ place' = <<place[1], place[2] + 1>>
    /\ phase' = IF k.err THEN "failed" ELSE phase
    /\ UNCHANGED <<kernel, frontend, machine>>
\* The code is followed by one instruction that writes the result, the operation's value.
Vector(k, op, regs, n) ==
    Lowered(MapTo(Emit(VRegs(k, 1), <<InstrN(op, V(k.vr), regs, n)>>), TileOp.r, V(k.vr)))

\* Steps 1 and 2: registers for the arguments and for the parameters of every block.
TakeArg(k, f, arg, value) ==
    IF TypeOf(f, arg) = Ptr THEN MapTo(k, arg, <<"p", value>>)
    ELSE MapTo(Emit(SRegs(k, 1), <<Instr("s_mov", S(k.sr), <<K(value)>>)>>), arg, S(k.sr))
TakeParam(k, f, param) ==
    LET scalar == TypeOf(f, param)[1] = "scalar"
        reg == IF scalar THEN S(k.sr) ELSE V(k.vr)
    IN  [MapTo(IF scalar THEN SRegs(k, 1) ELSE VRegs(k, 1), param, reg) EXCEPT !.orig = (param :> reg) @@ @]

StartLowering ==
    /\ phase = "translate" /\ node > Len(Nodes)
    /\ LET f == Terminate(func, Return)
           args == FoldLeftDomain(LAMBDA k, i : TakeArg(k, f, f.args[i], kernel.args[i]), EmptyLow, f.args)
           params == FlattenSeq([b \in DOMAIN f.blocks |-> f.blocks[b].params])
       IN  /\ func' = f
           /\ low' = FoldLeft(LAMBDA k, param : TakeParam(k, f, param), args, params)
    /\ place' = <<1, 1>>
    /\ phase' = "lower"
    /\ kernel' = [kernel EXCEPT !.nodes = <<>>]
    /\ UNCHANGED <<vals, loops, node, machine>>

LowerConst ==
    /\ Lowering({"ConstU32", "ConstF32"})
    /\ LET inline == IF TileOp.op = "ConstU32" THEN TileOp.n <= INLINE_MAX ELSE TileOp.n \in InlineFloats
       IN  IF inline
           THEN Lowered(MapTo(low, TileOp.r, <<IF TileOp.op = "ConstU32" THEN "i" ELSE "f", TileOp.n>>))
           ELSE Vector(low, "v_mov", <<K(TileOp.n)>>, 0)

TGID(axis) == S(-1 - axis) \* where a wave finds its workgroup's index
LowerIndex ==
    /\ Lowering({"ProgramId", "Arange", "ThreadIdX2D", "ThreadIdY2D"})
    /\ CASE TileOp.op = "ProgramId" ->
              Lowered(MapTo(Emit(SRegs(low, 1), <<Instr("s_mov", S(low.sr), <<TGID(TileOp.n)>>)>>), TileOp.r, S(low.sr)))
         [] TileOp.op = "Arange" -> Vector(low, "v_mov", <<Tid>>, 0)
         [] TileOp.op = "ThreadIdX2D" -> Vector(low, "v_and_b32", <<Tid, K(TileOp.n - 1)>>, 0)
         [] TileOp.op = "ThreadIdY2D" -> Vector(low, "v_lshrrev", <<Tid>>, IF TileOp.n = 2 THEN 1 ELSE 2)

\* The byte offset of an element; the 64-bit addition to the pointer leaves VCC clear.
Address(k, idx, shift) ==
    Emit(VRegs(k, 1), <<InstrN("v_lshlrev", V(k.vr), <<idx>>, shift), Instr("clear_vcc", None, <<>>)>>)
\* An access under a mask, if there is one: EXEC is saved, cut down to the mask and restored.
UnderMask(k, masks, ins) ==
    LET got == GetVReg(k, masks[1])
        saved == S(got.low.sr)
    IN  IF masks = <<>> THEN Emit(k, <<ins>>)
        ELSE Emit(SRegs(got.low, 1),
                  <<Instr("v_cmp_gt_u32", None, <<got.reg, K(0)>>), Instr("save_exec", saved, <<>>), ins,
                    Instr("restore_exec", None, <<saved>>)>>)
MasksFrom(i) == SubSeq(TileOp.a, i, Len(TileOp.a))
ShiftOf(d) == IF d = "bf16" THEN 1 ELSE 2

LowerLoad ==
    /\ Lowering({"Load"})
    /\ LET dst == V(low.vr)
           shift == ShiftOf(TileOp.n)
           got == GetVReg(Emit(VRegs(low, 1), <<Instr("v_mov", dst, <<K(0)>>)>>), TileOp.a[2])
           addressed == Address(got.low, got.reg, shift)
           ins == InstrN("global_load", dst, <<low.val[TileOp.a[1]], V(got.low.vr)>>, shift)
       IN  Lowered(MapTo(UnderMask(addressed, MasksFrom(3), ins), TileOp.r, dst))

LowerStore ==
    /\ Lowering({"Store", "AtomicAddF32"})
    /\ LET shift == IF TileOp.op = "Store" THEN ShiftOf(TypeOf(func, TileOp.a[3])[2]) ELSE 2
           got == GetVRegs(low, <<TileOp.a[3], TileOp.a[2]>>)
           addressed == Address(got.low, got.regs[2], shift)
           ins == InstrN(IF TileOp.op = "Store" THEN "global_store" ELSE "global_atomic_add", None,
                         <<low.val[TileOp.a[1]], V(got.low.vr), got.regs[1]>>, shift)
       IN  Lowered(UnderMask(addressed, MasksFrom(4), ins))

\* A scalar instruction, when both operands are scalar registers or inline integers
\* and so is the result.  The type of the operands is not looked at.
IsScalar(v) == low.val[v][1] \in {"s", "i"}
InSReg(k, mv) ==
    IF mv[1] = "s" THEN [low |-> k, reg |-> mv]
    ELSE [low |-> Emit(SRegs(k, 1), <<Instr("s_mov", S(k.sr), <<K(mv[2])>>)>>), reg |-> S(k.sr)]
ScalarBinOp(dst, first, second) ==
    LET one == InSReg(SRegs(low, 1), first)
        two == IF TileOp.op = "Mul" \/ second[1] = "s" THEN InSReg(one.low, second)
               ELSE [low |-> one.low, reg |-> K(second[2])]
        op == IF TileOp.op = "Add" THEN "s_add_u32" ELSE "s_mul_i32"
    IN  Lowered(MapTo(Emit(two.low, <<Instr(op, dst, <<one.reg, two.reg>>)>>), TileOp.r, dst))

BinaryOps == {"Add", "Sub", "Mul", "Div", "Max", "Min", "And", "Or", "Xor", "Shl", "Shr"}
ScalarCase ==
    /\ IsScalar(TileOp.a[1]) /\ IsScalar(TileOp.a[2])
    /\ TypeOf(func, TileOp.r)[1] = "scalar"

LowerScalarBinOp ==
    /\ Lowering(BinaryOps)
    /\ ScalarCase
    /\ LET l == low.val[TileOp.a[1]]
           r == low.val[TileOp.a[2]]
           got == GetVRegs(SRegs(low, 1), TileOp.a)
       IN  CASE TileOp.op \in {"Add", "Mul"} ->
                  IF l[1] = "i" /\ r[1] = "s" THEN ScalarBinOp(S(low.sr), r, l) ELSE ScalarBinOp(S(low.sr), l, r)
             [] TileOp.op = "Sub" -> Vector(got.low, "v_sub_u32", got.regs, 0)
             [] OTHER -> Lowered(GivenUp(low))

ArithmeticOps ==
    [Add |-> <<"v_add_f32", "v_add_u32">>, Sub |-> <<"v_sub_f32", "v_sub_u32">>,
     Mul |-> <<"v_mul_f32", "v_mul_lo_u32">>, Max |-> <<"v_max_f32", "v_max_f32">>,
     Min |-> <<"v_min_f32", "v_min_f32">>, And |-> <<"v_and_b32", "v_and_b32">>,
     Or |-> <<"v_or_b32", "v_or_b32">>, Xor |-> <<"v_xor_b32", "v_xor_b32">>]
\* The shift of a shift must be an inline integer, looked at before get_vreg replaces it.
LowerBinOp ==
    /\ Lowering(BinaryOps)
    /\ ~ScalarCase
    /\ LET got == GetVRegs(low, TileOp.a)
           shift == low.val[TileOp.a[2]]
           float == TypeOf(func, TileOp.a[1])[2] = "f32"
       IN  CASE TileOp.op \in {"Shl", "Shr"} ->
                  IF shift[1] # "i" THEN Lowered(GivenUp(low))
                  ELSE Vector(got.low, IF TileOp.op = "Shl" THEN "v_lshlrev" ELSE "v_lshrrev", <<got.regs[1]>>, shift[2])
             [] TileOp.op = "Div" ->
                  Vector(Emit(VRegs(got.low, 1), <<Instr("v_rcp_f32", V(got.low.vr), <<got.regs[2]>>)>>),
                         "v_mul_f32", <<got.regs[1], V(got.low.vr)>>, 0)
             [] OTHER -> Vector(got.low, ArithmeticOps[TileOp.op][IF float THEN 1 ELSE 2], got.regs, 0)

UnaryInstr ==
    [Exp2 |-> "v_exp_f32", Log2 |-> "v_log_f32", Sqrt |-> "v_sqrt_f32", Rcp |-> "v_rcp_f32",
     Rsqrt |-> "v_rsq_f32", Abs |-> "v_clear_sign", Neg |-> "v_flip_sign", Sin |-> "v_sin_f32", Cos |-> "v_cos_f32"]
\* The hardware's sine and cosine take a fraction of a turn.
LowerUnary ==
    /\ Lowering(DOMAIN UnaryInstr)
    /\ LET got == GetVReg(low, TileOp.a[1])
           turn == Instr("v_mul_f32", V(got.low.vr), <<got.reg, K(Float(INV2PI))>>)
           scaled == Emit(VRegs(got.low, 1), <<turn>>)
       IN  IF TileOp.op \in {"Sin", "Cos"} THEN Vector(scaled, UnaryInstr[TileOp.op], <<V(got.low.vr)>>, 0)
           ELSE Vector(got.low, UnaryInstr[TileOp.op], <<got.reg>>, 0)

\* The functions made of several instructions, from the value x and on fresh registers.
ActivationCode(k, fn, x) ==
    LET t(i) == V(k.vr + i)
        sigmoid == <<Instr("v_flip_sign", t(0), <<x>>),
                     Instr("v_mul_f32", t(1), <<t(0), K(Float(LOG2E))>>),
                     Instr("v_exp_f32", t(2), <<t(1)>>),
                     Instr("v_add_f32", t(3), <<K(Float(1)), t(2)>>),
                     Instr("v_rcp_f32", t(4), <<t(3)>>)>>
    IN  CASE fn = "Relu" -> <<Instr("v_max_f32", t(0), <<x, K(0)>>)>>
          [] fn = "Exp"  -> <<Instr("v_mul_f32", t(0), <<x, K(Float(LOG2E))>>), Instr("v_exp_f32", t(1), <<t(0)>>)>>
          [] fn = "Log"  -> <<Instr("v_log_f32", t(0), <<x>>), Instr("v_mul_f32", t(1), <<t(0), K(Float(LN2))>>)>>
          [] fn = "Sigmoid" -> sigmoid
          [] fn = "Silu" -> Append(sigmoid, Instr("v_mul_f32", t(5), <<x, t(4)>>))
LowerActivation ==
    /\ Lowering({"Relu", "Exp", "Log", "Sigmoid", "Silu"})
    /\ LET got == GetVReg(low, TileOp.a[1])
           code == ActivationCode(got.low, TileOp.op, got.reg)
       IN  Lowered(MapTo(Emit(VRegs(got.low, Len(code)), code), TileOp.r, Last(code).d))

LowerSplat ==
    /\ Lowering({"Splat"})
    /\ LET mv == low.val[TileOp.a[1]]
       IN  IF mv[1] = "p" THEN Lowered(GivenUp(low))
           ELSE Vector(low, "v_mov", <<IF mv[1] \in {"i", "f"} THEN K(mv[2]) ELSE mv>>, 0)

LowerFma ==
    /\ Lowering({"Fma"})
    /\ LET got == GetVRegs(low, TileOp.a) IN Vector(got.low, "v_fma_f32", got.regs, 0)

LowerCast ==
    /\ Lowering({"Cast"})
    /\ LET got == GetVReg(low, TileOp.a[1])
           from == TypeOf(func, TileOp.a[1])[2]
       IN  CASE from = "u32" /\ TileOp.n = "f32" -> Vector(got.low, "v_cvt_f32_u32", <<got.reg>>, 0)
             [] from = "f32" /\ TileOp.n = "u32" -> Vector(got.low, "v_cvt_u32_f32", <<got.reg>>, 0)
             [] from = "f32" /\ TileOp.n = "bf16" -> Vector(got.low, "v_lshrrev", <<got.reg>>, 16)
             [] from = "bf16" /\ TileOp.n = "f32" -> Vector(got.low, "v_lshlrev", <<got.reg>>, 16)
             [] OTHER -> Vector(got.low, "v_mov", <<got.reg>>, 0)

\* Two scalars are compared into SCC, and the result gets a register nobody writes;
\* anything else goes to VCC and from there to a register of zeros and ones.
LowerCmp ==
    /\ Lowering({"CmpLt", "CmpGe"})
    /\ LET l == low.val[TileOp.a[1]]
           right == InSReg(low, low.val[TileOp.a[2]])
           got == GetVRegs(low, TileOp.a)
           op == IF TileOp.op = "CmpLt" THEN "v_cmp_lt_u32" ELSE "v_cmp_ge_u32"
       IN  IF IsScalar(TileOp.a[1]) /\ IsScalar(TileOp.a[2])
           THEN IF TileOp.op = "CmpLt" /\ l[1] = "s"
                THEN Lowered(MapTo(Emit(SRegs(right.low, 1), <<Instr("s_cmp_lt_u32", None, <<l, right.reg>>)>>),
                                   TileOp.r, S(right.low.sr)))
                ELSE Lowered(GivenUp(low))
           ELSE Vector(Emit(got.low, <<Instr(op, None, got.regs)>>), "v_cndmask", <<K(0), K(1)>>, 0)

\* Mutant: VCC is taken to hold the condition still.
LowerSelectStale ==
    /\ Lowering({"Select"})
    /\ LET got == GetVRegs(low, TileOp.a)
       IN  Vector(got.low, "v_cndmask", <<got.regs[3], got.regs[2]>>, 0)

\* The condition is compared again: VCC has been overwritten since.
LowerSelect ==
    /\ Lowering({"Select"})
    /\ LET got == GetVRegs(low, TileOp.a)
       IN  Vector(Emit(got.low, <<Instr("v_cmp_gt_u32", None, <<got.regs[1], K(0)>>)>>),
                  "v_cndmask", <<got.regs[3], got.regs[2]>>, 0)

LowerLds ==
    /\ Lowering({"LdsAlloc", "LdsStore", "LdsLoad", "Barrier"})
    /\ LET got == GetVRegs(low, TileOp.a)
           addr == V(got.low.vr)
           addressed == Emit(VRegs(got.low, 1), <<InstrN("v_lshlrev", addr, <<got.regs[2]>>, 2),
                                                  Instr("v_add_u32", addr, <<addr, got.regs[1]>>)>>)
       IN  CASE TileOp.op = "LdsAlloc" -> Vector([low EXCEPT !.lds = @ + TileOp.n], "v_mov", <<K(low.lds)>>, 0)
             [] TileOp.op = "LdsStore" ->
                  Lowered(Emit(addressed, <<Instr("ds_store", None, <<addr, got.regs[3]>>)>>))
             [] TileOp.op = "LdsLoad" -> Vector(addressed, "ds_load", <<addr>>, 0)
             [] TileOp.op = "Barrier" -> Lowered(Emit(low, <<Instr("s_barrier", None, <<>>)>>))

LowerReduce ==
    /\ Lowering({"ReduceAdd", "ReduceMax"})
    /\ LET got == GetVReg(low, TileOp.a[1])
       IN  Vector(got.low, IF TileOp.op = "ReduceAdd" THEN "wave_reduce_add" ELSE "wave_reduce_max", <<got.reg>>, 0)

NWaves == kernel.block

\* WgReduceAdd and WgReduceMax: each wave's result goes to its own word of the LDS,
\* and after a barrier every wave reduces these words.
WgReduceCode(k, src, reduce, neutral, base) ==
    LET sum == V(k.vr)       addr == V(k.vr + 1)    lane == V(k.vr + 2)
        part == V(k.vr + 3)  from == V(k.vr + 4)
    IN  <<Instr(reduce, sum, <<src>>),
          InstrN("v_lshrrev", addr, <<Tid>>, 2),
          InstrN("v_lshlrev", addr, <<addr>>, 2),
          Instr("v_add_u32", addr, <<addr, K(base)>>),
          Instr("v_and_b32", lane, <<Tid, K(W - 1)>>),
          Instr("v_cmp_eq_u32", None, <<lane, K(0)>>),
          Instr("save_exec", S(k.sr), <<>>),
          Instr("ds_store", None, <<addr, sum>>),
          Instr("restore_exec", None, <<S(k.sr)>>),
          Instr("s_barrier", None, <<>>),
          Instr("v_mov", part, <<K(neutral)>>),
          Instr("v_cmp_lt_u32", None, <<lane, K(NWaves)>>),
          Instr("save_exec", S(k.sr + 1), <<>>),
          InstrN("v_lshlrev", from, <<lane>>, 2),
          Instr("v_add_u32", from, <<from, K(base)>>),
          Instr("ds_load", part, <<from>>),
          Instr("restore_exec", None, <<S(k.sr + 1)>>),
          Instr(reduce, part, <<part>>)>>

\* Mutant: the words of the first reduction are used again.
LowerWgReduceShared ==
    /\ Lowering({"WgReduceAdd", "WgReduceMax"})
    /\ LET got == GetVReg(low, TileOp.a[1])
           room == SRegs(VRegs([got.low EXCEPT !.lds = NWaves * 4], 5), 2)
           code == IF TileOp.op = "WgReduceAdd" THEN WgReduceCode(got.low, got.reg, "wave_reduce_add", 0, 0)
                   ELSE WgReduceCode(got.low, got.reg, "wave_reduce_max", NegInf, 0)
       IN  Lowered(MapTo(Emit(room, code), TileOp.r, V(got.low.vr + 3)))

LowerWgReduce ==
    /\ Lowering({"WgReduceAdd", "WgReduceMax"})
    /\ LET got == GetVReg(low, TileOp.a[1])
           room == SRegs(VRegs([got.low EXCEPT !.lds = @ + NWaves * 4], 5), 2)
           code == IF TileOp.op = "WgReduceAdd" THEN WgReduceCode(got.low, got.reg, "wave_reduce_add", 0, low.lds)
                   ELSE WgReduceCode(got.low, got.reg, "wave_reduce_max", NegInf, low.lds)
       IN  Lowered(MapTo(Emit(room, code), TileOp.r, V(got.low.vr + 3)))

\* saved is exec_save_stack, the registers that hold the masks of the open ifs.
LowerMask ==
    /\ Lowering({"ExecMaskPush", "ExecMaskFlip", "ExecMaskPop"})
    /\ LET got == GetVReg(low, TileOp.a[1])
           reg == S(got.low.sr)
           push == <<Instr("v_cmp_gt_u32", None, <<got.reg, K(0)>>), Instr("save_exec", reg, <<>>)>>
           restore(op) == Emit(low, <<Instr(op, None, <<Head(low.saved)>>)>>)
       IN  CASE TileOp.op = "ExecMaskPush" ->
                  Lowered([Emit(SRegs(got.low, 1), push) EXCEPT !.saved = <<reg>> \o @])
             [] low.saved = <<>> -> Lowered(GivenUp(low))
             [] TileOp.op = "ExecMaskFlip" -> Lowered(restore("xor_exec"))
             [] TileOp.op = "ExecMaskPop" -> Lowered([restore("restore_exec") EXCEPT !.saved = Tail(@)])

\* copy_val_to_param: a parameter is written in the register it was given first.
\* v_readfirstlane is raw text with the numbers of virtual registers: it leaves d alone.
CopyToParam(k, src, param) ==
    LET from == k.val[src]
        d == k.orig[param]
    IN  CASE from = d -> k
          [] from[1] \in {"f", "p"} -> GivenUp(k)
          [] from[1] = "v" /\ d[1] = "s" -> Emit(k, <<Instr("raw_asm", d, <<from>>)>>)
          [] OTHER -> Emit(k, <<Instr(IF d[1] = "s" THEN "s_mov" ELSE "v_mov", d,
                                      <<IF from[1] = "i" THEN K(from[2]) ELSE from>>)>>)
CopyToParams(k, f, srcs, target) ==
    FoldLeftDomain(LAMBDA acc, i : CopyToParam(acc, srcs[i], f.blocks[target].params[i]), k, srcs)

Label(l) == InstrN("label", None, <<>>, l)
Jump(op, l) == InstrN(op, None, <<>>, l)
BlockLabel(b) == <<"bb", b>>

CondBranchCode(k, f, b, term) ==
    LET scc == k.val[term.cond][1] = "s"
        onFalse == <<"false", b>>
        yes == <<Jump("s_branch", BlockLabel(term.to))>>
        no == <<Jump("s_branch", BlockLabel(term.no))>>
    IN  IF term.args = <<>>
        THEN Emit(k, <<Jump(IF scc THEN "s_cbranch_scc1" ELSE "s_cbranch_vccnz", BlockLabel(term.to))>> \o no)
        ELSE Emit(CopyToParams(Emit(k, <<Jump(IF scc THEN "s_cbranch_scc0" ELSE "s_cbranch_vccz", onFalse)>>
                                           \o yes \o <<Label(onFalse)>>), f, term.args, term.no), no)

\* The end of a block: no mask may be open, then the terminator and the next block's label.
LowerTerminator ==
    /\ phase = "lower" /\ place[2] > Len(func.blocks[place[1]].ops)
    /\ LET b == place[1]
           term == func.blocks[b].term
           code == CASE term.op = "Return" -> Emit(low, <<Instr("s_endpgm", None, <<>>)>>)
                     [] term.op = "Branch" -> Emit(CopyToParams(low, func, term.args, term.to),
                                                   <<Jump("s_branch", BlockLabel(term.to))>>)
                     [] term.op = "CondBranch" -> CondBranchCode(low, func, b, term)
           failed == low.saved # <<>> \/ code.err
       IN  IF b < Len(func.blocks)
           THEN /\ low' = Emit(code, <<Label(BlockLabel(b + 1))>>)
                /\ place' = <<b + 1, 1>>
                /\ phase' = IF failed THEN "failed" ELSE phase
                /\ UNCHANGED <<kernel, frontend, machine>>
           ELSE /\ low' = [EmptyLow EXCEPT !.code = code.code]
                /\ place' = <<1, 1>>
                /\ phase' = IF failed THEN "failed" ELSE "run"
                /\ func' = EmptyFunc /\ vals' = <<>> /\ loops' = <<>> /\ node' = 1
                /\ UNCHANGED <<kernel, machine>>

-----------------------------------------------------------------------------
(* The GPU (external).  The workgroups run in any order, one at a time:    *)
(* they share nothing but buffers, to which they add atomically or whose   *)
(* parts they write alone.  The waves of a workgroup are interleaved       *)
(* wherever one could see the other: at LDS, barriers and the buffers the  *)
(* kernel writes.  Between these a wave touches only its own registers, so *)
(* the lowest such wave goes first.                                        *)

Running(i) == waves[i].at = "run"
Ins(i) == low.code[waves[i].pc]
Written == {low.code[j].s[1] : j \in {j \in DOMAIN low.code : low.code[j].op \in {"global_store", "global_atomic_add"}}}
SharedOps == {"ds_load", "ds_store", "global_store", "global_atomic_add", "s_barrier", "s_endpgm"}
Shared(i) == Ins(i).op \in SharedOps \/ (Ins(i).op = "global_load" /\ Ins(i).s[1] \in Written)
Alone == {i \in DOMAIN waves : Running(i) /\ ~Shared(i)}

\* Wave i is w after its instruction.
Becomes(i, w) == waves' = [waves EXCEPT ![i] = [w EXCEPT !.pc = @ + 1]]
Keeps == UNCHANGED <<kernel, phase, frontend, backend, group, todo>>

StartGroup ==
    /\ phase = "run" /\ waves = <<>>
    /\ \E g \in todo :
          /\ group' = g
          /\ todo' = todo \ {g}
          /\ waves' = [i \in 0..(NWaves - 1) |-> NewWave(i, (-1 :> g % kernel.grid[1]) @@
                                                             (-2 :> g \div kernel.grid[1]))]
    /\ lds' = <<>>
    /\ UNCHANGED <<kernel, phase, frontend, backend, mem>>

\* The next instruction of the lowest wave that is not at a shared one.
Steps(ops, i) == phase = "run" /\ i = Min(Alone) /\ Ins(i).op \in ops

RunAlu ==
    /\ Alone # {} /\ \E i \in Alone :
          /\ Steps(AluOps, i)
          /\ Becomes(i, SetV(waves[i], Ins(i).d, LAMBDA l : Alu(Ins(i), Operands(waves[i], Ins(i), l))))
    /\ Keeps /\ UNCHANGED <<mem, lds>>

RunCompare ==
    /\ Alone # {} /\ \E i \in Alone :
          /\ Steps(CmpOps, i)
          /\ LET w == waves[i]
             IN  Becomes(i, [w EXCEPT !.vcc =
                     {l \in w.exec : Holds(Ins(i).op, Operand(w, Ins(i).s[1], l), Operand(w, Ins(i).s[2], l))}])
    /\ Keeps /\ UNCHANGED <<mem, lds>>

RunScalar ==
    /\ Alone # {} /\ \E i \in Alone : Steps(ScalarOps, i) /\ Becomes(i, Scalar(waves[i], Ins(i)))
    /\ Keeps /\ UNCHANGED <<mem, lds>>

RunMask ==
    /\ Alone # {} /\ \E i \in Alone : Steps(MaskOps, i) /\ Becomes(i, Masked(waves[i], Ins(i)))
    /\ Keeps /\ UNCHANGED <<mem, lds>>

RunWaveReduce ==
    /\ Alone # {} /\ \E i \in Alone :
          /\ Steps({"wave_reduce_add", "wave_reduce_max"}, i)
          /\ \E row \in {WaveReduce(waves[i], VReg(waves[i], Ins(i).s[1][2]),
                             IF Ins(i).op = "wave_reduce_add" THEN "v_add_f32" ELSE "v_max_f32")} :
                Becomes(i, SetV(waves[i], Ins(i).d, LAMBDA l : row[l]))
    /\ Keeps /\ UNCHANGED <<mem, lds>>

RunJump ==
    /\ Alone # {} /\ \E i \in Alone :
          /\ Steps(JumpOps \cup {"label", "raw_asm"}, i)
          /\ IF Ins(i).op \in JumpOps /\ Jumps(waves[i], Ins(i))
             THEN waves' = [waves EXCEPT ![i].pc = Target(low.code, Ins(i).n)]
             ELSE Becomes(i, waves[i])
    /\ Keeps /\ UNCHANGED <<mem, lds>>

\* The element an active lane accesses.
Element(i, l) == Operand(waves[i], Ins(i).s[2], l) \div 2^Ins(i).n
InBounds(i) == \A l \in waves[i].exec : Element(i, l) \in DOMAIN mem[Ins(i).s[1][2]]
Stops(i) == waves' = [waves EXCEPT ![i].at = "fault"]

RunLoad ==
    /\ phase = "run"
    /\ \E i \in DOMAIN waves :
          /\ Running(i) /\ Ins(i).op = "global_load"
          /\ IF Shared(i) THEN Alone = {} ELSE i = Min(Alone)
          /\ IF InBounds(i)
             THEN Becomes(i, SetV(waves[i], Ins(i).d, LAMBDA l : mem[Ins(i).s[1][2]][Element(i, l)]))
             ELSE Stops(i)
    /\ Keeps /\ UNCHANGED <<mem, lds>>

\* The shared instructions, once every wave is at one.
AtShared(i, op) == phase = "run" /\ Alone = {} /\ Running(i) /\ Ins(i).op = op
Value(i, l) == Operand(waves[i], Ins(i).s[Len(Ins(i).s)], l)

RunStore ==
    /\ \E i \in DOMAIN waves :
          /\ AtShared(i, "global_store")
          /\ LET b == Ins(i).s[1][2]
                 writers(e) == {l \in waves[i].exec : Element(i, l) = e}
                 word(l) == IF Ins(i).n = 1 THEN Value(i, l) % 128 ELSE Value(i, l)
             IN  IF InBounds(i)
                 THEN /\ mem' = [mem EXCEPT ![b] =
                                    [e \in DOMAIN @ |-> IF writers(e) = {} THEN @[e] ELSE word(Max(writers(e)))]]
                      /\ Becomes(i, waves[i])
                 ELSE Stops(i) /\ UNCHANGED mem
    /\ Keeps /\ UNCHANGED lds

RunAtomicAdd ==
    /\ \E i \in DOMAIN waves :
          /\ AtShared(i, "global_atomic_add")
          /\ LET b == Ins(i).s[1][2]
                 added(e) == MapThenSumSet(LAMBDA l : Real(Value(i, l)), {l \in waves[i].exec : Element(i, l) = e})
             IN  IF InBounds(i)
                 THEN /\ mem' = [mem EXCEPT ![b] = [e \in DOMAIN @ |-> Float(Real(@[e]) + added(e))]]
                      /\ Becomes(i, waves[i])
                 ELSE Stops(i) /\ UNCHANGED mem
    /\ Keeps /\ UNCHANGED lds

LdsWord(i, l) == Operand(waves[i], Ins(i).s[1], l)
RunLds ==
    /\ \E i \in DOMAIN waves :
          \/ /\ AtShared(i, "ds_store")
             /\ lds' = FoldSet(LAMBDA l, words : (LdsWord(i, l) :> Value(i, l)) @@ words, lds, waves[i].exec)
             /\ Becomes(i, waves[i])
          \/ /\ AtShared(i, "ds_load")
             /\ Becomes(i, SetV(waves[i], Ins(i).d,
                           LAMBDA l : IF LdsWord(i, l) \in DOMAIN lds THEN lds[LdsWord(i, l)] ELSE Garbage))
             /\ UNCHANGED lds
    /\ Keeps /\ UNCHANGED mem

RunBarrier ==
    /\ \E i \in DOMAIN waves :
          /\ AtShared(i, "s_barrier")
          /\ waves' = [waves EXCEPT ![i].at = "barrier", ![i].pc = @ + 1]
    /\ Keeps /\ UNCHANGED <<mem, lds>>

\* All waves that have not ended are at the barrier.
Release ==
    /\ phase = "run" /\ waves # <<>>
    /\ \A i \in DOMAIN waves : waves[i].at \in {"barrier", "end"}
    /\ \E i \in DOMAIN waves : waves[i].at = "barrier"
    /\ waves' = [i \in DOMAIN waves |-> IF waves[i].at = "end" THEN waves[i] ELSE [waves[i] EXCEPT !.at = "run"]]
    /\ Keeps /\ UNCHANGED <<mem, lds>>

RunEnd ==
    /\ \E i \in DOMAIN waves :
          /\ AtShared(i, "s_endpgm")
          /\ waves' = [waves EXCEPT ![i].at = "end"]
    /\ Keeps /\ UNCHANGED <<mem, lds>>

EndGroup ==
    /\ phase = "run" /\ waves # <<>> /\ \A i \in DOMAIN waves : waves[i].at = "end"
    /\ waves' = <<>> /\ lds' = <<>>
    /\ phase' = IF todo = {} THEN "done" ELSE phase
    /\ UNCHANGED <<kernel, frontend, backend, group, todo, mem>>

-----------------------------------------------------------------------------
Init ==
    /\ kernel \in {Kernels[name] : name \in DOMAIN Kernels}
    /\ phase = "translate"
    /\ node = 1 /\ func = EmptyFunc /\ vals = <<>> /\ loops = <<>>
    /\ place = <<1, 1>> /\ low = EmptyLow
    /\ waves = <<>> /\ group = 0 /\ todo = 0..(kernel.grid[1] * kernel.grid[2] - 1)
    /\ mem = kernel.mem /\ lds = <<>>

Translate ==
    \/ TranslateArg \/ TranslateIndex \/ TranslateConst \/ TranslateBinary \/ TranslateBinaryConst
    \/ TranslateUnary \/ TranslateFma \/ TranslateCompare \/ TranslateSelect \/ TranslateLoad
    \/ TranslateStore \/ TranslateCast \/ TranslateCall \/ TranslateReduce \/ TranslateLds \/ TranslateMask
    \/ TranslateForBegin \/ TranslateForRange \/ TranslateForEnd \/ TranslateForAcc
Lower ==
    \/ StartLowering \/ LowerConst \/ LowerIndex \/ LowerLoad \/ LowerStore \/ LowerScalarBinOp
    \/ LowerBinOp \/ LowerUnary \/ LowerActivation \/ LowerSplat \/ LowerFma \/ LowerCast \/ LowerCmp \/ LowerSelect \/ LowerLds
    \/ LowerReduce \/ LowerWgReduce \/ LowerMask \/ LowerTerminator
Run ==
    \/ StartGroup \/ RunAlu \/ RunCompare \/ RunScalar \/ RunMask \/ RunWaveReduce \/ RunJump
    \/ RunLoad \/ RunStore \/ RunAtomicAdd \/ RunLds \/ RunBarrier \/ Release \/ RunEnd \/ EndGroup

\* The end; everything else that stops is a deadlock.
Stopped == phase = "done" /\ UNCHANGED vars

Next == Translate \/ Lower \/ Run \/ Stopped
\* The compiler goes on, and so does the GPU while a wave can; no more is asked of its scheduler.
Spec == Init /\ [][Next]_vars /\ WF_vars(Next)

-----------------------------------------------------------------------------
(* Properties.                                                             *)

\* What a kernel leaves in memory is what its reference computes.
LoweredRight == phase = "done" => mem = kernel.final

\* A kernel compiles, and every wave of it comes to its end: none loops, waits at a
\* barrier or accesses memory outside its buffers.
KernelsReturn == <>(phase = "done")
=============================================================================
