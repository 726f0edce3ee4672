------------------------------- MODULE Gfx11 -------------------------------
(***************************************************************************)
(* The instruction encoders of src/src/rdna3_asm.rs (mod gfx11).  A 32-bit *)
(* word is the set of its 1 bits, so that the OR of the code is a union    *)
(* and an operand that spills into its neighbour's bits shows.             *)
(*                                                                         *)
(* An encoder is a row [f, w, a]: the format whose places it uses, the     *)
(* constant part of each word, and where each argument goes, in the order  *)
(* of the function's parameters, as <<place, kind>>.  A kind says how the  *)
(* code turns the argument into the bits of its place.  A call is a tuple  *)
(* <<encoder, argument, ...>>; a 32-bit literal argument is <<high, low>>. *)
(***************************************************************************)
EXTENDS Integers, SequencesExt, FiniteSetsExt

Bits16 == 0..15
Field(n, shift) == {shift + i : i \in {j \in Bits16 : (n \div 2^j) % 2 = 1}}
Word(hi, lo) == Field(hi, 16) \cup Field(lo, 0)
Hi(hi) == Word(hi, 0)
\* The number in bits lo, .., lo + width - 1 of a word.
NumberAt(word, lo, width) == MapThenSumSet(LAMBDA i : 2^(i - lo), word \cap lo..(lo + width - 1))

-----------------------------------------------------------------------------
(* How the encoders place and code their arguments.                        *)

VCC_LO == \h6A
LITERAL == \hFF            \* the source that says a literal word follows
NULL_SADDR == \h7C         \* global memory without a scalar base
ZERO == \h80               \* the inline constant 0

\* <<word, shift>> of each place, by format.
At ==
    [SOP2 |-> [d |-> <<1, 16>>, a |-> <<1, 0>>, b |-> <<1, 8>>],
     SOPC |-> [a |-> <<1, 0>>, b |-> <<1, 8>>],
     SOP1 |-> [d |-> <<1, 16>>, a |-> <<1, 0>>],
     SOPP |-> [n |-> <<1, 0>>],
     SMEM |-> [d |-> <<1, 6>>, base |-> <<1, 0>>, off |-> <<2, 0>>],
     VOP1 |-> [d |-> <<1, 17>>, a |-> <<1, 0>>],
     VOP2 |-> [d |-> <<1, 17>>, a |-> <<1, 0>>, b |-> <<1, 9>>],
     VOPC |-> [a |-> <<1, 0>>, b |-> <<1, 9>>],
     VOP3 |-> [d |-> <<1, 0>>, e |-> <<1, 8>>, a |-> <<2, 0>>, b |-> <<2, 9>>, c |-> <<2, 18>>],
     DS   |-> [off |-> <<1, 0>>, off0 |-> <<1, 0>>, off1 |-> <<1, 8>>, addr |-> <<2, 0>>, data |-> <<2, 8>>, d |-> <<2, 24>>],
     FLAT |-> [off |-> <<1, 0>>, addr |-> <<2, 0>>, data |-> <<2, 8>>, d |-> <<2, 24>>],
     VOPD |-> [ax |-> <<1, 0>>, bx |-> <<1, 9>>, dx |-> <<2, 25>>, dy |-> <<2, 17>>, ay |-> <<2, 0>>, by |-> <<2, 9>>]]

\* The floats with an inline code, by their bits as an i32: 0.5, 1, 2, 4 and their opposites.
FloatCode ==
    LET Positive == <<\h3F000000, \h3F800000, \h40000000, \h40800000>>
        x == [i \in 1..8 |-> IF i % 2 = 1 THEN Positive[(i + 1) \div 2] ELSE Positive[i \div 2] - 2147483647 - 1]
    IN  [y \in Range(x) |-> \hEF + CHOOSE i \in 1..8 : x[i] = y]

Inline(n) == IF n >= 0 THEN \h80 + n ELSE \hC0 - n
Code(kind, x) ==
    CASE kind \in {"reg", "s", "code", "n"} -> x          \* a register field, an SGPR, a source code, a number
      [] kind = "v" -> 256 + x                            \* a VGPR as a source
      [] kind \in {"k", "k64"} -> Inline(x)               \* an inline constant; k64 asserts 0..64
      [] kind = "k/s" -> IF x <= 64 THEN \h80 + x ELSE x  \* no assertion: above 64 another source
      [] kind = "k0/s" -> IF x = 0 THEN ZERO ELSE x       \* s_addc_u32: 0 is the constant, not s0
      [] kind = "kf" -> IF x \in DOMAIN FloatCode THEN FloatCode[x] ELSE Inline(x)
      [] kind = "mask" -> IF x \in {0, 1} THEN \h80 + x ELSE \hC1   \* exec_lo: all lanes by default
      [] kind = "ones" -> IF x THEN \hC1 ELSE ZERO
      [] kind = "w" -> LITERAL
      [] kind = "pair" -> x \div 2                        \* an SGPR pair
      [] kind = "even" -> (x \div 2) * 2
      [] kind = "quad" -> (x \div 4) * 4
      [] kind = "o13" -> x % 2^13
      [] kind = "o12" -> x % 2^12                         \* a positive offset below 4096 survives

-----------------------------------------------------------------------------
(* Rows, by format: f(opcode half-word, kinds).                            *)

Row(f, w, a) == [f |-> f, w |-> w, a |-> a]
Sopp(hi) == Row("SOPP", <<Hi(hi)>>, <<<<"n", "n">>>>)
Sop2(hi, kb) == Row("SOP2", <<Hi(hi)>>, <<<<"d", "reg">>, <<"a", "s">>, <<"b", kb>>>>)
Sopc(hi, kb) == Row("SOPC", <<Hi(hi)>>, <<<<"a", "s">>, <<"b", kb>>>>)
Sop1(hi, ka) == Row("SOP1", <<Hi(hi)>>, <<<<"d", "reg">>, <<"a", ka>>>>)
Smem(hi, kd) == Row("SMEM", <<Hi(hi), Hi(\hF800)>>, <<<<"d", kd>>, <<"base", "pair">>, <<"off", "n">>>>)
Vop1(op, ka) == Row("VOP1", <<Word(\h7E00, op * 512)>>, <<<<"d", "reg">>, <<"a", ka>>>>)
Vop2(hi) == Row("VOP2", <<Hi(hi)>>, <<<<"d", "reg">>, <<"a", "v">>, <<"b", "reg">>>>)
\* vdst, then the source that is not src0, then src0; and the two sources the other way round.
Vop2Last(hi, ka) == Row("VOP2", <<Hi(hi)>>, <<<<"d", "reg">>, <<"b", "reg">>, <<"a", ka>>>>)
Vop2Shift(hi, ka) == Row("VOP2", <<Hi(hi)>>, <<<<"d", "reg">>, <<"a", ka>>, <<"b", "reg">>>>)
Vopc(hi) == Row("VOPC", <<Hi(hi)>>, <<<<"a", "v">>, <<"b", "reg">>>>)
VopcImm(hi) == Row("VOPC", <<Hi(hi)>>, <<<<"b", "reg">>, <<"a", "k/s">>>>)
\* w1 and w2 are the constant halves: the opcode, and the fixed sources of word 1.
Vop3Fixed(w1, w2, places) == Row("VOP3", <<w1, w2>>, places)
Vop3(hi, kinds) ==
    Vop3Fixed(Hi(hi), {}, <<<<"d", "reg">>>> \o [i \in DOMAIN kinds |-> <<(<<"a", "b", "c">>)[i], kinds[i]>>])
Wmma(hi) == Vop3Fixed(Word(hi, \h4000), Hi(\h1800),
                      <<<<"d", "reg">>, <<"a", "v">>, <<"b", "v">>, <<"c", "v">>>>)
DsLoad(hi)  == Row("DS", <<Hi(hi), {}>>, <<<<"d", "reg">>, <<"addr", "reg">>, <<"off", "n">>>>)
DsStore(hi) == Row("DS", <<Hi(hi), {}>>, <<<<"addr", "reg">>, <<"data", "reg">>, <<"off", "n">>>>)
Flat(w1, places) == Row("FLAT", <<w1, Hi(NULL_SADDR)>>, places)
FlatLoad(hi)  == Flat(Hi(hi), <<<<"d", "reg">>, <<"addr", "reg">>, <<"off", "o13">>>>)
FlatStore(hi) == Flat(Hi(hi), <<<<"addr", "reg">>, <<"data", "reg">>, <<"off", "o13">>>>)
Vopd(hi) == Row("VOPD", <<Hi(hi) \cup {8}, {8}>>,
                <<<<"dx", "pair">>, <<"ax", "reg">>, <<"bx", "reg">>, <<"dy", "pair">>, <<"ay", "reg">>, <<"by", "reg">>>>)

-----------------------------------------------------------------------------
(* The encoders, in the order of the source.                               *)

ControlOps ==
    [s_endpgm |-> Row("SOPP", <<Hi(\hBFB0)>>, <<>>), s_barrier |-> Row("SOPP", <<Hi(\hBFBD)>>, <<>>),
     s_setprio |-> Sopp(\hBFB5), s_nop |-> Sopp(\hBF80), s_clause |-> Sopp(\hBF85),
     s_branch |-> Sopp(\hBFA0), s_cbranch_scc0 |-> Sopp(\hBFA1), s_cbranch_scc1 |-> Sopp(\hBFA2),
     s_cbranch_vccz |-> Sopp(\hBFA3), s_cbranch_vccnz |-> Sopp(\hBFA4)]

ScalarOps ==
    [s_add_u32 |-> Sop2(\h8000, "s"), s_add_u32_imm |-> Sop2(\h8000, "k64"), s_sub_u32_imm |-> Sop2(\h8080, "k64"),
     s_cmp_lg_u32_imm |-> Sopc(\hBF07, "k/s"), s_and_b32_imm |-> Sop2(\h8B00, "k/s"), s_and_b32 |-> Sop2(\h8B00, "s"),
     s_addc_u32 |-> Sop2(\h8200, "k0/s"), s_sub_u32 |-> Sop2(\h8080, "s"), s_add_i32 |-> Sop2(\h8100, "s"),
     s_cselect_b32 |-> Sop2(\h9800, "s"), s_xor_b32 |-> Sop2(\h8D00, "s"), s_sub_i32 |-> Sop2(\h8180, "s"),
     s_mul_i32 |-> Sop2(\h9600, "s"), s_subb_u32 |-> Sop2(\h8280, "s"), s_cmp_eq_u32 |-> Sopc(\hBF06, "s"),
     s_cmp_lt_u32 |-> Sopc(\hBF0A, "s"), s_cmp_lt_u32_imm |-> Sopc(\hBF0A, "k/s")]

ScalarMoves ==
    [s_cmp_gt_i32 |-> Sopc(\hBF02, "s"), s_cmp_ge_u32 |-> Sopc(\hBF09, "s"), s_cmp_ge_u32_imm |-> Sopc(\hBF09, "k/s"),
     s_lshr_b32 |-> Sop2(\h8500, "k/s"), s_lshl_b32 |-> Sop2(\h8400, "k/s"),
     s_mov_b32 |-> Sop1(\hBE80, "s"), s_mov_b32_imm |-> Sop1(\hBE80, "k"), s_mov_b32_literal |-> Sop1(\hBE80, "w"),
     s_mov_b32_exec_lo |-> Row("SOP1", <<Hi(\hBEFE)>>, <<<<"a", "mask">>>>)]

ScalarLoads ==
    [s_load_dwordx4 |-> Smem(\hF408, "quad"), s_load_dwordx2 |-> Smem(\hF404, "even"), s_load_dword |-> Smem(\hF400, "reg")]

GlobalOps ==
    [global_load_dwordx4 |-> FlatLoad(\hDC5E), global_load_dword |-> FlatLoad(\hDC52), global_load_dwordx2 |-> FlatLoad(\hDC56),
     global_store_dwordx4 |-> FlatStore(\hDC76), global_store_dwordx2 |-> FlatStore(\hDC6E),
     global_store_dword |-> FlatStore(\hDC6A), global_load_ushort |-> FlatLoad(\hDC4A), global_store_short |-> FlatStore(\hDC66)]

LdsOps ==
    [ds_read_b128 |-> DsLoad(\hDBFC), ds_write_b128 |-> DsStore(\hD8FD), ds_load_b32 |-> DsLoad(\hD8D8),
     ds_load_u16 |-> DsLoad(\hD8F0), ds_load_u16_d16 |-> DsLoad(\hDA98), ds_load_u16_d16_hi |-> DsLoad(\hDA9C),
     ds_load_2addr_b32 |-> Row("DS", <<Hi(\hD8DC), {}>>,
                               <<<<"d", "reg">>, <<"addr", "reg">>, <<"off0", "n">>, <<"off1", "n">>>>),
     ds_store_b32 |-> DsStore(\hD834), ds_store_b16 |-> DsStore(\hD87C), ds_load_b64 |-> DsLoad(\hD9D8),
     ds_store_b64 |-> DsStore(\hD934), ds_store_b128 |-> DsStore(\hDB7C)]

ImmediateAndMatrixOps ==
    [v_and_b32_imm |-> Vop2Last(\h3600, "k64"), v_add_u32_imm |-> Vop2Last(\h4A00, "k64"),
     v_add_u32_literal |-> Vop2Last(\h4A00, "w"), v_and_b32_literal |-> Vop2Last(\h3600, "w"),
     v_wmma_f32_16x16x16_bf16 |-> Wmma(\hCC41), v_wmma_f32_16x16x16_f16 |-> Wmma(\hCC40),
     v_wmma_bf16_16x16x16_bf16 |-> Wmma(\hCC43)]

VectorOps ==
    [v_fma_f32 |-> Vop3(\hD613, <<"v", "v", "v">>), v_mul_lo_u32 |-> Vop3(\hD72C, <<"v", "v">>),
     v_add_f32 |-> Vop2(\h0600), v_mul_f32 |-> Vop2(\h1000), v_mul_u32_u24 |-> Vop2(\h1600),
     \* The constant goes to vsrc1, which only names a VGPR.
     v_mul_u32_u24_imm |-> Row("VOP2", <<Hi(\h1600)>>, <<<<"d", "reg">>, <<"a", "v">>, <<"b", "k64">>>>),
     v_mov_b32 |-> Vop1(1, "v"), v_mov_b32_from_sgpr |-> Vop1(1, "s"),
     \* 0x05 << 8 is opcode 2 and the bit that makes the source a VGPR.
     v_readfirstlane_b32 |-> Row("VOP1", <<Word(\h7E00, \h0500)>>, <<<<"d", "reg">>, <<"a", "reg">>>>),
     v_mbcnt_lo_u32_b32 |-> Vop3Fixed(Hi(\hD71F), Field(ZERO, 9), <<<<"d", "reg">>, <<"a", "ones">>>>)]

LaneOps ==
    [v_readlane_b32 |-> Vop3(\hD760, <<"v", "k/s">>), v_permlane16_b32 |-> Vop3(\hD65B, <<"v", "s", "s">>),
     v_permlanex16_b32 |-> Vop3(\hD65C, <<"v", "k", "k">>), v_permlane64_b32 |-> Vop1(\h67, "v"),
     v_mov_b32_imm |-> Vop1(1, "kf"), v_mov_b32_literal |-> Vop1(1, "w")]

FloatOps ==
    [v_exp_f32 |-> Vop1(\h25, "v"), v_log_f32 |-> Vop1(\h27, "v"), v_sin_f32 |-> Vop1(\h24, "v"),
     v_rcp_f32 |-> Vop1(\h2A, "v"), v_sqrt_f32 |-> Vop1(\h33, "v"),
     v_max_f32 |-> Vop2(\h2000), v_min_f32 |-> Vop2(\h1E00), v_sub_f32 |-> Vop2(\h0800),
     v_mul_f32_e64_literal |-> Vop3(\hD508, <<"v", "w">>), v_add_f32_e64_inline |-> Vop3(\hD503, <<"v", "code">>),
     v_mul_f32_e64_inline |-> Vop3(\hD508, <<"v", "code">>)]

IntegerOps ==
    [v_and_b32 |-> Vop2(\h3600), v_or_b32 |-> Vop2(\h3800), v_xor_b32 |-> Vop2(\h3A00),
     v_and_b32_zero_imm |-> Row("VOP2", <<Word(\h3600, ZERO)>>, <<<<"d", "reg">>, <<"b", "reg">>>>),
     v_lshlrev_b32 |-> Vop2Shift(\h3000, "k/s"), v_add_u32 |-> Vop2(\h4A00), v_add_nc_u32_e64 |-> Vop3(\hD525, <<"v", "s">>),
     v_add_co_u32 |-> Vop3Fixed(Hi(\hD700), {}, <<<<"d", "reg">>, <<"e", "reg">>, <<"a", "v">>, <<"b", "v">>>>),
     v_add_co_ci_u32 |-> Vop3Fixed(Hi(\hD520), {}, <<<<"d", "reg">>, <<"e", "reg">>, <<"a", "v">>, <<"b", "v">>, <<"c", "s">>>>)]

CarryOps ==
    LET ToVcc(hi) == Word(hi, VCC_LO * 256)
        CarryIn == Field(ZERO, 9) \cup Field(VCC_LO, 18)
    IN  [v_add_co_u32_vcc |-> Vop3Fixed(ToVcc(\hD700), {}, <<<<"d", "reg">>, <<"a", "v">>, <<"b", "v">>>>),
         v_add_co_ci_u32_zero_vcc |-> Vop3Fixed(ToVcc(\hD520), CarryIn, <<<<"d", "reg">>, <<"a", "v">>>>),
         v_sub_co_u32_vcc |-> Vop3Fixed(ToVcc(\hD701), {}, <<<<"d", "reg">>, <<"a", "v">>, <<"b", "v">>>>),
         v_sub_co_ci_u32_zero_vcc |-> Vop3Fixed(ToVcc(\hD521), CarryIn, <<<<"d", "reg">>, <<"a", "v">>>>),
         v_addc_u32 |-> Vop2Last(\h4000, "s"), v_pack_b32_f16 |-> Vop3(\hD711, <<"v", "v">>)]

ConversionOps ==
    [v_cvt_f32_u32 |-> Vop1(6, "v"), v_cvt_u32_f32 |-> Vop1(7, "v"), v_cvt_f32_f16 |-> Vop1(\h17, "v"),
     v_cvt_f16_f32 |-> Vop1(\h15, "v"), v_readfirstlane |-> Vop1(2, "v"), v_lshrrev_b32 |-> Vop2Shift(\h3200, "k"),
     v_alignbit_b32 |-> Vop3(\hD616, <<"v", "v", "k">>), v_and_or_b32 |-> Vop3(\hD657, <<"v", "w", "v">>),
     v_perm_b32 |-> Vop3(\hD644, <<"v", "v", "w">>)]

\* The pattern with which each lane reads the lane at XOR distance n.
XorPattern(n) == (n * 2^10) + \h1F

SwizzleAndLdsAtomics ==
    [ds_swizzle_b32 |-> DsLoad(\hD8D4),
     ds_bpermute_b32 |-> Row("DS", <<Hi(\hD8D0), {}>>, <<<<"d", "reg">>, <<"addr", "reg">>, <<"data", "reg">>>>),
     ds_add_f32 |-> DsStore(\hD858), ds_max_f32 |-> DsStore(\hD85A)]

GlobalAtomics ==
    [\* The result register goes to the offset, and the null base to the data's bits.
     global_atomic_add_u32 |->
        Row("FLAT", <<Word(\hDCD6, \h4000), Word(0, \h7C00)>>, <<<<"off", "reg">>, <<"addr", "reg">>, <<"data", "reg">>>>),
     global_atomic_add_u32_no_rtn |->
        Row("FLAT", <<Hi(\hDCD6), Word(0, \h7C00)>>, <<<<"addr", "reg">>, <<"data", "reg">>>>),
     global_atomic_add_f32 |-> Flat(Word(\hDD5A, \h4000), <<<<"d", "reg">>, <<"addr", "reg">>, <<"data", "reg">>>>),
     global_atomic_add_f32_no_rtn |-> FlatStore(\hDD5A)]

\* The words that two methods of the assembler put together themselves.
MethodAtomics ==
    [asm_global_atomic_add_f32 |->
        Row("FLAT", <<Word(\hDD5A, \h4000), Word(0, \h7C00)>>,
            <<<<"off", "reg">>, <<"addr", "reg">>, <<"data", "reg">>, <<"off", "o12">>>>),
     asm_global_atomic_add_f32_no_rtn |->
        Flat(Hi(\hDD5A), <<<<"addr", "reg">>, <<"data", "reg">>, <<"off", "o12">>>>)]

CompareOps ==
    [v_cmp_gt_f32 |-> Vopc(\h7C28), v_cmp_lt_f32 |-> Vopc(\h7C82), v_cndmask_b32 |-> Vop2(\h0200),
     v_cmp_lt_u32 |-> Vopc(\h7C92), v_cmp_lt_u32_imm |-> VopcImm(\h7C92), v_cmp_gt_u32_imm |-> VopcImm(\h7C98),
     v_cmp_eq_u32_imm |-> VopcImm(\h7C94), v_cmp_gt_i32 |-> Vopc(\h7C88), v_cmp_ge_i32 |-> Vopc(\h7C8C),
     v_sub_u32 |-> Vop2(\h4C00), v_cmp_ge_u32 |-> Vopc(\h7C9C),
     v_max_f32_imm0 |-> Vop3Fixed(Hi(\hD510), Field(ZERO, 9), <<<<"d", "reg">>, <<"a", "v">>>>),
     v_cmp_gt_f32_imm0 |-> Vop3Fixed(Word(\hD414, VCC_LO), Field(ZERO, 9), <<<<"a", "v">>>>),
     s_and_saveexec_b32_vcc |-> Row("SOP1", <<Word(\hBE80, \h2000 + VCC_LO)>>, <<<<"d", "reg">>>>),
     s_mov_b32_exec_lo_from_sgpr |-> Row("SOP1", <<Hi(\hBEFE)>>, <<<<"a", "s">>>>)]

DualOps ==
    [v_dual_add_f32_mul_f32 |-> Vopd(\hC906), v_dual_add_f32_add_f32 |-> Vopd(\hC908), v_dual_max_f32_max_f32 |-> Vopd(\hCA94),
     v_dual_mul_f32_mul_f32 |-> Vopd(\hC8C6), v_dual_sub_f32_sub_f32 |-> Vopd(\hC94A), v_dual_fmac_f32_fmac_f32 |-> Vopd(\hC800)]

Encoders ==
    ControlOps @@ ScalarOps @@ ScalarMoves @@ ScalarLoads @@ GlobalOps @@ LdsOps @@ ImmediateAndMatrixOps @@ VectorOps
    @@ LaneOps @@ FloatOps @@ IntegerOps @@ CarryOps @@ ConversionOps @@ SwizzleAndLdsAtomics @@ GlobalAtomics
    @@ MethodAtomics @@ CompareOps @@ DualOps

-----------------------------------------------------------------------------
(* The waits compute their counts' bits.                                   *)

\* At most 15: the count is OR-ed into bits that the constant's 0x07 and 0xF0 own.
WaitVmcnt(n) ==
    Word(\hBF89, \h03F0) \cup Word(0, 7) \cup
        (IF n <= 15 THEN Field(n, 0) ELSE Field(n % 16, 0) \cup Field((n \div 16) % 4, 10))
WaitLgkmcnt(n) ==
    Word(\hBF89, \hFC07) \cup (IF n = 0 THEN {} ELSE Field(n % 4, 4) \cup Field((n \div 4) % 16, 10))
WaitVscnt(n) == Hi(\hBC7C) \cup Field(n, 0)

Waits == {"s_waitcnt_vmcnt", "s_waitcnt_lgkmcnt", "s_waitcnt_vscnt"}

\* The words of a call.
Encode(c) ==
    CASE c[1] = "s_waitcnt_vmcnt" -> <<WaitVmcnt(c[2])>>
      [] c[1] = "s_waitcnt_lgkmcnt" -> <<WaitLgkmcnt(c[2])>>
      [] c[1] = "s_waitcnt_vscnt" -> <<WaitVscnt(c[2])>>
      [] OTHER ->
            LET row == Encoders[c[1]]
                arg == Tail(c)
                place(j) == At[row.f][row.a[j][1]]
                field(j) == Field(Code(row.a[j][2], arg[j]), place(j)[2])
                literals == {j \in DOMAIN arg : row.a[j][2] = "w"}
            IN  [i \in DOMAIN row.w |-> row.w[i] \cup UNION {field(j) : j \in {k \in DOMAIN arg : place(k)[1] = i}}]
                \o SetToSeq({Word(arg[j][1], arg[j][2]) : j \in literals})      \* at most one
=============================================================================
