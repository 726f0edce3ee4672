----------------------------- MODULE WaveMachine -----------------------------
(***************************************************************************)
(* The part of the GPU that the kernels of src/src/t0/tile_ssa_lower.rs    *)
(* use: a wave of Lanes threads with vector and scalar registers, a vector *)
(* condition (VCC), a scalar one (SCC) and an execution mask (EXEC).       *)
(*                                                                         *)
(* All of this is external: it is what the instructions that the lowering  *)
(* chooses do on the hardware (their names and operands are those of       *)
(* src/src/t0/ir.rs and asm_emitter.rs).  A wave has 4 lanes in place of   *)
(* 32.  Floats are the integers modulo a prime P, so that sums and         *)
(* products can be taken in any order; rounding is abstracted.  A register *)
(* word is either an integer or the bits of a float, and the two are       *)
(* different words, so that an integer instruction on a float shows.       *)
(***************************************************************************)
EXTENDS Integers, SequencesExt, FiniteSetsExt

W == 4                     \* threads of a wave
Lanes == 0..(W - 1)

-----------------------------------------------------------------------------
(* Words.                                                                  *)

P == 251
Word == 0..(2 * P - 1)     \* what a register holds; integers wrap at 2 * P
Garbage == 99              \* what a register holds before it is written

\* The representatives of the floats run from -125 to 125.
Signed(r) == IF r <= P \div 2 THEN r ELSE r - P
\* The bits of a float: zero is the integer 0, negative floats have the larger bits.
Float(r) ==
    LET s == Signed(r % P)
    IN  IF s = 0 THEN 0 ELSE IF s > 0 THEN P + s ELSE P + P \div 2 - s
\* The float with these bits: integers are denormals, which count as zero.
Real(w) ==
    IF w <= P THEN 0 ELSE IF w <= P + P \div 2 THEN w - P ELSE 2 * P + P \div 2 - w

NegInf == Float(P \div 2 + 1)     \* below every float in use
Half(w) == w \div 4               \* the upper half of the bits
HalfToFloat(h) == (h * 4) % (2 * P)

\* Arbitrary functions in place of the hardware's: only that a kernel and its
\* reference apply the same one to the same argument matters.
Inverse_ == [x \in 0..(P - 1) |-> IF x = 0 THEN 0 ELSE CHOOSE y \in 1..(P - 1) : (x * y) % P = 1]
Exp2Of(x) == (3 * x * x + 5 * x + 1) % P
Log2Of(x) == (11 * x * x + 7 * x + 3) % P
SqrtOf(x) == (17 * x * x + x + 2) % P
SinOf(x)  == (4 * x * x + 9 * x) % P       \* of a fraction of a turn
CosOf(x)  == (9 * x * x + 1) % P
LOG2E == 7
LN2 == Inverse_[LOG2E]
INV2PI == 13

\* What the libraries' functions make of them, on floats.
Rcp(x) == Inverse_[x]
Exp(x) == Exp2Of((x * LOG2E) % P)
Ln(x)  == (Log2Of(x) * LN2) % P
Sin(x) == SinOf((x * INV2PI) % P)
Cos(x) == CosOf((x * INV2PI) % P)
MaxReal(x, y) == IF Signed(x) >= Signed(y) THEN x ELSE y
MinReal(x, y) == IF Signed(x) <= Signed(y) THEN x ELSE y

Bits == {2^i : i \in 0..8}
BitOp(x, y, F(_, _)) == MapThenSumSet(LAMBDA b : b * F((x \div b) % 2, (y \div b) % 2), Bits)

-----------------------------------------------------------------------------
(* Instructions: [op, d, s, n], d the register written, s the operands, n  *)
(* an immediate.  An operand is a vector register <<"v", i>>, a scalar     *)
(* register <<"s", i>>, a literal <<"k", w>> or a pointer <<"p", buffer>>. *)

Instr(op, d, s) == [op |-> op, d |-> d, s |-> s, n |-> 0]
InstrN(op, d, s, n) == [op |-> op, d |-> d, s |-> s, n |-> n]
V(i) == <<"v", i>>
S(i) == <<"s", i>>
K(w) == <<"k", w>>
None == <<"none", 0>>
Tid == V(0)                \* the thread's index in its workgroup

\* The word an operator on vector registers writes, x its operands' words.
Alu(ins, x) ==
    LET r == [i \in DOMAIN x |-> Real(x[i])]
    IN  CASE ins.op = "v_mov"     -> x[1]
          [] ins.op = "v_add_u32" -> (x[1] + x[2]) % (2 * P)
          [] ins.op = "v_sub_u32" -> (x[1] - x[2]) % (2 * P)
          [] ins.op = "v_mul_lo_u32" -> (x[1] * x[2]) % (2 * P)
          [] ins.op = "v_and_b32" -> BitOp(x[1], x[2], LAMBDA a, b : a * b)
          [] ins.op = "v_or_b32"  -> BitOp(x[1], x[2], LAMBDA a, b : a + b - a * b) % (2 * P)
          [] ins.op = "v_xor_b32" -> BitOp(x[1], x[2], LAMBDA a, b : (a + b) % 2) % (2 * P)
          [] ins.op = "v_lshlrev" -> IF ins.n = 16 THEN HalfToFloat(x[1]) ELSE (x[1] * 2^ins.n) % (2 * P)
          [] ins.op = "v_lshrrev" -> IF ins.n = 16 THEN Half(x[1]) ELSE x[1] \div 2^ins.n
          [] ins.op = "v_add_f32" -> Float(r[1] + r[2])
          [] ins.op = "v_sub_f32" -> Float(r[1] - r[2])
          [] ins.op = "v_mul_f32" -> Float(r[1] * r[2])
          [] ins.op = "v_max_f32" -> Float(MaxReal(r[1], r[2]))
          [] ins.op = "v_min_f32" -> Float(MinReal(r[1], r[2]))
          [] ins.op = "v_fma_f32" -> Float(r[1] * r[2] + r[3])
          [] ins.op = "v_flip_sign" -> Float(-r[1])
          [] ins.op = "v_clear_sign" -> Float(IF Signed(r[1]) < 0 THEN -r[1] ELSE r[1])
          [] ins.op = "v_rcp_f32" -> Float(Rcp(r[1]))
          [] ins.op = "v_rsq_f32" -> Float(Rcp(SqrtOf(r[1])))
          [] ins.op = "v_sqrt_f32" -> Float(SqrtOf(r[1]))
          [] ins.op = "v_exp_f32" -> Float(Exp2Of(r[1]))
          [] ins.op = "v_log_f32" -> Float(Log2Of(r[1]))
          [] ins.op = "v_sin_f32" -> Float(SinOf(r[1]))
          [] ins.op = "v_cos_f32" -> Float(CosOf(r[1]))
          [] ins.op = "v_cvt_f32_u32" -> Float(x[1])
          [] ins.op = "v_cvt_u32_f32" -> r[1]

AluOps ==
    {"v_mov", "v_add_u32", "v_sub_u32", "v_mul_lo_u32", "v_and_b32", "v_or_b32", "v_xor_b32",
     "v_lshlrev", "v_lshrrev", "v_add_f32", "v_sub_f32", "v_mul_f32", "v_max_f32", "v_min_f32",
     "v_fma_f32", "v_flip_sign", "v_clear_sign", "v_rcp_f32", "v_rsq_f32", "v_sqrt_f32",
     "v_exp_f32", "v_log_f32", "v_sin_f32", "v_cos_f32", "v_cvt_f32_u32", "v_cvt_u32_f32"}

Holds(op, x, y) ==
    CASE op = "v_cmp_lt_u32" -> x < y
      [] op = "v_cmp_ge_u32" -> x >= y
      [] op = "v_cmp_gt_u32" -> x > y
      [] op = "v_cmp_eq_u32" -> x = y
CmpOps == {"v_cmp_lt_u32", "v_cmp_ge_u32", "v_cmp_gt_u32", "v_cmp_eq_u32"}

-----------------------------------------------------------------------------
(* A wave: [pc, v, s, vcc, scc, exec, at], v and s the registers written   *)
(* so far, at one of "run", "barrier", "end" and "fault".                  *)

\* The wave that starts a workgroup: registers hold the arguments and the thread's index.
NewWave(id, sregs) ==
    [pc |-> 1, v |-> (0 :> [l \in Lanes |-> id * W + l]), s |-> sregs, vcc |-> {}, scc |-> FALSE,
     exec |-> Lanes, at |-> "run"]

VReg(w, i) == IF i \in DOMAIN w.v THEN w.v[i] ELSE [l \in Lanes |-> Garbage]
Operand(w, o, l) ==
    CASE o[1] = "v" -> VReg(w, o[2])[l]
      [] o[1] = "s" -> w.s[o[2]]
      [] o[1] = "k" -> o[2]
Operands(w, ins, l) == [i \in DOMAIN ins.s |-> Operand(w, ins.s[i], l)]

\* w with the active lanes of register d set to F of the lane.
SetV(w, d, F(_)) ==
    LET old == VReg(w, d[2])
    IN  [w EXCEPT !.v = (d[2] :> [l \in Lanes |-> IF l \in w.exec THEN F(l) ELSE old[l]]) @@ @]
SetS(w, d, x) == [w EXCEPT !.s = (d[2] :> x) @@ @]

\* One exchange of the butterfly: an inactive lane gives zero.
Exchanged(w, row, step, op) ==
    [l \in Lanes |->
        LET partner == IF (l \div step) % 2 = 0 THEN l + step ELSE l - step
            other == IF partner \in w.exec THEN row[partner] ELSE 0
        IN  IF l \in w.exec THEN Alu([op |-> op], <<row[l], other>>) ELSE row[l]]
\* WaveReduceAddF32 and WaveReduceMaxF32: steps of half the wave down to 1.
WaveReduce(w, row, op) == Exchanged(w, Exchanged(w, row, 2, op), 1, op)

Target(code, label) == CHOOSE i \in DOMAIN code : code[i].op = "label" /\ code[i].n = label
Jumps(w, ins) ==
    CASE ins.op = "s_branch" -> TRUE
      [] ins.op = "s_cbranch_scc1" -> w.scc
      [] ins.op = "s_cbranch_scc0" -> ~w.scc
      [] ins.op = "s_cbranch_vccnz" -> w.vcc # {}
      [] ins.op = "s_cbranch_vccz" -> w.vcc = {}
JumpOps == {"s_branch", "s_cbranch_scc1", "s_cbranch_scc0", "s_cbranch_vccnz", "s_cbranch_vccz"}

\* What an instruction that touches nothing but the wave does, pc apart.
Scalar(w, ins) ==
    LET x == Operands(w, ins, 0)
    IN  CASE ins.op = "s_mov" -> SetS(w, ins.d, x[1])
          [] ins.op = "s_add_u32" -> SetS(w, ins.d, (x[1] + x[2]) % (2 * P))
          [] ins.op = "s_mul_i32" -> SetS(w, ins.d, (x[1] * x[2]) % (2 * P))
          [] ins.op = "s_cmp_lt_u32" -> [w EXCEPT !.scc = x[1] < x[2]]
Masked(w, ins) ==
    CASE ins.op = "v_cndmask" -> SetV(w, ins.d, LAMBDA l : Operand(w, ins.s[IF l \in w.vcc THEN 2 ELSE 1], l))
      [] ins.op = "clear_vcc" -> [w EXCEPT !.vcc = {}]
      [] ins.op = "save_exec" -> [SetS(w, ins.d, w.exec) EXCEPT !.exec = @ \cap w.vcc]
      [] ins.op = "xor_exec" -> [w EXCEPT !.exec = (Operand(w, ins.s[1], 0) \ @) \cup (@ \ Operand(w, ins.s[1], 0))]
      [] ins.op = "restore_exec" -> [w EXCEPT !.exec = Operand(w, ins.s[1], 0)]
ScalarOps == {"s_mov", "s_add_u32", "s_mul_i32", "s_cmp_lt_u32"}
MaskOps == {"v_cndmask", "clear_vcc", "save_exec", "xor_exec", "restore_exec"}
=============================================================================
