--------------------------- MODULE Rdna3Assembler ---------------------------
(***************************************************************************)
(* src/src/rdna3_asm.rs: the assembler that hand-written kernels are built *)
(* with, and the sequences it offers them.  A kernel calls methods, which  *)
(* append words and count pending operations, and patches words it left    *)
(* behind; the processor then finds the instructions again from the words  *)
(* alone, and a wave runs them.                                            *)
(*                                                                         *)
(* A step is <<name, argument, ...>>: a method when the name starts with   *)
(* "asm.", an encoder whose words the kernel emits itself otherwise.       *)
(***************************************************************************)
EXTENDS Gfx11Isa, LaneWave

CONSTANTS
    Scenarios,    \* the kernels: [kind, steps, setup, right]; kind says what is done
                  \* with it: "words" (built), "lanes" (built and run), "free" (built
                  \* freely), "declared" (only its registers declared)
    MaxCode       \* words a kernel of free calls may grow to

VARIABLES
    asm,          \* the Rdna3Assembler: [code, vmcnt, lgkmcnt, max_vgpr, max_sgpr]
    calls,        \* the instructions meant, in order: [pc, call]
    jumps,        \* where each branch is meant to go: a function from pc to pc
    open,         \* the forward branches and placeholders still to be patched
    scenario,     \* the kernel being built
    todo,         \* its steps still to be taken
    wave, ip      \* the wave that runs it, and the instructions it has run
vars == <<asm, calls, jumps, open, scenario, todo, wave, ip>>

-----------------------------------------------------------------------------
(* The methods: the encoder each calls and the counter it raises.          *)

Counted(names, counter) == [x \in names |-> counter]
LoadStoreCounts ==
    Counted({"global_load_dwordx4", "global_load_dword", "global_load_dwordx2"}, "vmcnt")
    @@ Counted({"global_store_dwordx4", "global_store_dwordx2", "global_store_dword"}, "none")
LdsCounts ==
    Counted({"ds_read_b128", "ds_write_b128", "ds_load_b32", "ds_load_u16", "ds_load_u16_d16", "ds_load_u16_d16_hi",
             "ds_store_b32", "ds_load_b64", "ds_store_b64", "ds_store_b128"}, "lgkmcnt")
AtomicCounts ==
    Counted({"ds_bpermute_b32", "ds_add_f32", "ds_max_f32"}, "lgkmcnt")
    @@ Counted({"asm_global_atomic_add_f32"}, "vmcnt")
\* ds_swizzle is an LDS operation too, and is not counted; nor is anything else.
CounterOf ==
    LET counts == LoadStoreCounts @@ LdsCounts @@ AtomicCounts
    IN  [x \in DOMAIN Encoders |-> IF x \in DOMAIN counts THEN counts[x] ELSE "none"]

\* The methods whose encoder has another name; the others are named alike.
Renamed ==
    ("asm.global_load_dwordx4_voffset" :> "global_load_dwordx4") @@ ("asm.ds_store_b128_vaddr" :> "ds_store_b128")
    @@ ("asm.ds_store_b128_offset" :> "ds_store_b128") @@ ("asm.ds_load_b128" :> "ds_read_b128")
    @@ ("asm.global_atomic_add_f32_ff" :> "global_atomic_add_f32_no_rtn")
    @@ ("asm.global_atomic_add_f32" :> "asm_global_atomic_add_f32")
    @@ ("asm.wait_vmcnt" :> "s_waitcnt_vmcnt") @@ ("asm.wait_lgkmcnt" :> "s_waitcnt_lgkmcnt")
    @@ ("asm.wait_vscnt" :> "s_waitcnt_vscnt") @@ ("asm.barrier" :> "s_barrier") @@ ("asm.endpgm" :> "s_endpgm")
    @@ ("asm.ds_swizzle" :> "ds_swizzle_b32") @@ ("asm.ds_bpermute" :> "ds_bpermute_b32")
    @@ ("asm.ds_atomic_add_f32" :> "ds_add_f32") @@ ("asm.ds_atomic_max_f32" :> "ds_max_f32")
    @@ ("asm.permlane16" :> "v_permlane16_b32") @@ ("asm.permlanex16" :> "v_permlanex16_b32")
    @@ ("asm.wmma_f32_16x16x16_bf16" :> "v_wmma_f32_16x16x16_bf16") @@ ("asm.cndmask" :> "v_cndmask_b32")
ScalarMethods == {"s_sub_u32", "s_sub_i32", "s_cmp_gt_i32", "s_cmp_lt_u32", "s_cbranch_scc1", "s_branch"}
VectorMethods ==
    {"fma_f32", "exp_f32", "log_f32", "rcp_f32", "max_f32", "min_f32", "sub_f32", "add_f32", "mul_f32", "cmp_gt_f32",
     "cmp_lt_f32", "and_b32", "or_b32", "lshlrev_b32", "add_u32", "add_co_u32", "add_co_ci_u32"}
DualMethods ==
    [dual_sub_sub_f32 |-> "v_dual_sub_f32_sub_f32", dual_add_mul_f32 |-> "v_dual_add_f32_mul_f32",
     dual_mul_mul_f32 |-> "v_dual_mul_f32_mul_f32", dual_max_max_f32 |-> "v_dual_max_f32_max_f32",
     dual_add_add_f32 |-> "v_dual_add_f32_add_f32"]
Methods ==
    LET Same(names, prefix) == [m \in {"asm." \o x : x \in names} |-> prefix \o SubSeq(m, 5, Len(m))]
    IN  Renamed @@ Same(ScalarMethods \cup DOMAIN LoadStoreCounts \cup DOMAIN LdsCounts, "")
        @@ Same(VectorMethods, "v_") @@ [m \in {"asm." \o x : x \in DOMAIN DualMethods} |-> DualMethods[SubSeq(m, 5, Len(m))]]

\* The arguments a method adds to its own.  (global_load_dwordx4_voffset takes a
\* third register and does not use it.)
Added ==
    ("asm.global_load_dwordx4_voffset" :> <<0>>) @@ ("asm.ds_store_b128_vaddr" :> <<0>>)
    @@ ("asm.permlane16" :> <<0, 0>>) @@ ("asm.permlanex16" :> <<0, 0>>)
CallOf(step) ==
    IF step[1] \in DOMAIN Methods
    THEN <<Methods[step[1]]>> \o Tail(step) \o (IF step[1] \in DOMAIN Added THEN Added[step[1]] ELSE <<>>)
    ELSE step

-----------------------------------------------------------------------------
(* The sequences.                                                          *)

Eight(F(_)) == FlattenSeq([k \in 1..8 |-> F(k - 1)])

\* temp, temp + 1: the address of this lane's element of rows 0 and 1 of a tile.
TileAddress(addr_reg, lane_id_reg, temp, col_offset_bytes, row_stride) ==
    <<<<"v_and_b32_imm", temp, lane_id_reg, 15>>, <<"v_lshlrev_b32", temp, 2, temp>>>>
    \o (IF col_offset_bytes > 0
        THEN <<<<"v_mov_b32_literal", temp + 1, <<0, col_offset_bytes>>>>, <<"asm.add_u32", temp, temp, temp + 1>>>>
        ELSE <<>>)
    \o <<<<"v_lshrrev_b32", temp + 1, 4, lane_id_reg>>,
         <<"v_mov_b32_literal", temp + 2, <<0, row_stride>>>>,
         <<"v_mul_lo_u32", temp + 1, temp + 1, temp + 2>>,
         <<"asm.add_u32", temp, temp, temp + 1>>,
         <<"v_add_co_u32_vcc", temp, addr_reg, temp>>,
         <<"v_add_co_ci_u32_zero_vcc", temp + 1, addr_reg + 1>>>>
store_wmma_c_rowmajor(addr_reg, c_base, lane_id_reg, temp, col_offset_bytes, row_stride) ==
    TileAddress(addr_reg, lane_id_reg, temp, col_offset_bytes, row_stride)
    \o [r \in 1..8 |-> <<"asm.global_store_dword", temp, c_base + r - 1, (r - 1) * 2 * row_stride>>]
atomic_add_wmma_c_rowmajor(addr_reg, c_base, lane_id_reg, temp, col_offset_bytes, row_stride) ==
    TileAddress(addr_reg, lane_id_reg, temp, col_offset_bytes, row_stride)
    \o [r \in 1..8 |-> <<"asm.global_atomic_add_f32_ff", temp, c_base + r - 1, (r - 1) * 2 * row_stride>>]

cvt_pk_bf16_f32_with_temp(vdst, vsrc0, vsrc1, vtmp) ==
    <<<<"v_lshrrev_b32", vtmp, 16, vsrc0>>, <<"v_and_or_b32", vdst, vsrc1, <<\hFFFF, 0>>, vtmp>>>>
\* With v79 for its own, whoever else uses it.
cvt_pk_bf16_f32(vdst, vsrc0, vsrc1) == cvt_pk_bf16_f32_with_temp(vdst, vsrc0, vsrc1, 79)

\* From the C layout (register k: rows 2k and 2k + 1 in the two halves) to pairs
\* of bf16: swapped(dest, src) brings the other half's values to dest.
TransposeWith(swapped, dest_base, src_base, temp_base, lane_id_reg) ==
    LET merged(k) ==
            <<<<"v_cndmask_b32", temp_base, dest_base + k, src_base + k>>,
              <<"v_cndmask_b32", temp_base + 1, src_base + k, dest_base + k>>>>
            \o cvt_pk_bf16_f32_with_temp(dest_base + k, temp_base, temp_base + 1, temp_base + 2)
    IN  <<<<"v_cmp_gt_u32_imm", lane_id_reg, 16>>>> \o swapped \o Eight(merged)
\* For a mutant: the wait is forgotten.
TransposeUnwaited(dest_base, src_base, temp_base, lane_id_reg) ==
    LET swap(k) == <<<<"asm.ds_swizzle", dest_base + k, src_base + k, XorPattern(16)>>>>
    IN  TransposeWith(Eight(swap), dest_base, src_base, temp_base, lane_id_reg)
reg_transpose_c_to_ab(dest_base, src_base, temp_base, lane_id_reg) ==
    LET swap(k) == <<<<"asm.ds_swizzle", dest_base + k, src_base + k, XorPattern(16)>>>>
    IN  TransposeWith(Eight(swap) \o <<<<"asm.wait_lgkmcnt", 0>>>>, dest_base, src_base, temp_base, lane_id_reg)
reg_transpose_valu_only(dest_base, src_base, temp_base, lane_id_reg) ==
    LET swap(k) == <<<<"asm.permlanex16", dest_base + k, src_base + k>>>>
    IN  TransposeWith(Eight(swap), dest_base, src_base, temp_base, lane_id_reg)

\* Four stages; each brings the eight registers of the lane at XOR distance n to
\* temp_base, chooses lanes by VCC, and takes from them what route says.
ButterflyStage(reg_base, temp_base, n, vcc, route) ==
    LET swap(k) == <<<<"asm.ds_swizzle", temp_base + k, reg_base + k, XorPattern(n)>>>>
    IN  Eight(swap) \o <<<<"asm.wait_lgkmcnt", 0>>>> \o vcc \o route
LanesWithout(bit, perm_tmp, lane_id_reg) ==
    <<<<"v_and_b32_imm", perm_tmp, lane_id_reg, bit>>, <<"v_cmp_eq_u32_imm", perm_tmp, 0>>>>
\* Registers whose index has the block's bit clear take the neighbour's upper block.
Routed(reg_base, temp_base, block) ==
    LET from(k) ==
            IF (k \div block) % 2 = 0
            THEN <<<<"v_cndmask_b32", reg_base + k, temp_base + k + block, reg_base + k>>>>
            ELSE <<<<"v_cndmask_b32", reg_base + k, reg_base + k, temp_base + k - block>>>>
    IN  Eight(from)
butterfly_transpose_16x16(reg_base, temp_base, lane_id_reg) ==
    LET perm_tmp == temp_base + 8
        halves(k) ==
            <<<<"v_perm_b32", perm_tmp, reg_base + k, temp_base + k, <<\h0100, \h0504>>>>,
              <<"v_perm_b32", temp_base + k, reg_base + k, temp_base + k, <<\h0706, \h0302>>>>,
              <<"v_cndmask_b32", reg_base + k, temp_base + k, perm_tmp>>>>
    IN  ButterflyStage(reg_base, temp_base, 1, LanesWithout(1, perm_tmp, lane_id_reg), Eight(halves))
        \o ButterflyStage(reg_base, temp_base, 2, LanesWithout(2, perm_tmp, lane_id_reg), Routed(reg_base, temp_base, 1))
        \o ButterflyStage(reg_base, temp_base, 4, LanesWithout(4, perm_tmp, lane_id_reg), Routed(reg_base, temp_base, 2))
        \o ButterflyStage(reg_base, temp_base, 24, <<<<"s_mov_b32_literal", 106, <<\h00FF, \h00FF>>>>>>,
                          Routed(reg_base, temp_base, 4))

\* Sixteen rows of 128 bytes, without the XOR swizzle the comment describes.
lds_load_transposed_tile(dest_base, addr_reg, temp_base) ==
    LET load(half) == [r \in 1..8 |-> <<"asm.ds_load_u16", temp_base + r - 1, addr_reg, ((half * 8) + r - 1) * 128>>]
        pack(half) ==
            FlattenSeq([k \in 1..4 |->
                LET even == temp_base + 2 * (k - 1)
                IN  <<<<"v_lshlrev_b32", even + 1, 16, even + 1>>,
                      <<"v_or_b32", dest_base + (half * 4) + k - 1, even, even + 1>>>>])
        half_of(half) == load(half) \o <<<<"asm.wait_lgkmcnt", 0>>>> \o pack(half)
    IN  half_of(0) \o half_of(1)

global_atomic_add_f32_x4(vdst, vaddr, vdata_base, offset) ==
    [i \in 1..4 |-> <<"asm.global_atomic_add_f32", vdst + i - 1, vaddr, vdata_base + i - 1, offset + 4 * (i - 1)>>]
global_atomic_add_f32_no_rtn_x4(vaddr, vdata_base, offset) ==
    [i \in 1..4 |-> <<"asm_global_atomic_add_f32_no_rtn", vaddr, vdata_base + i - 1, offset + 4 * (i - 1)>>]

-----------------------------------------------------------------------------
(* The example kernels.                                                    *)

build_gemm_16x16x16_kernel ==
    <<<<"asm.global_load_dwordx4", 8, 0, 0>>, <<"asm.global_load_dwordx4", 12, 0, 16>>,
      <<"asm.global_load_dwordx4", 16, 2, 0>>, <<"asm.global_load_dwordx4", 20, 2, 16>>, <<"asm.wait_vmcnt", 0>>,
      <<"asm.wmma_f32_16x16x16_bf16", 24, 8, 16, 24>>, <<"asm.global_store_dwordx4", 4, 24, 0>>,
      <<"asm.global_store_dwordx4", 4, 28, 16>>, <<"asm.wait_vmcnt", 0>>, <<"asm.endpgm">>>>
build_warp_max_reduction ==
    FlattenSeq([i \in 1..5 |->
        <<<<"asm.ds_swizzle", 1, 0, (<<\h041F, \h020F, \h0107, \h0083, \h0041>>)[i]>>,
          <<"asm.wait_lgkmcnt", 0>>, <<"asm.max_f32", 0, 0, 1>>>>])
    \o <<<<"asm.endpgm">>>>
build_exp_function == <<<<"asm.mul_f32", 2, 0, 1>>, <<"asm.exp_f32", 3, 2>>, <<"asm.endpgm">>>>
build_softmax_row_kernel ==
    <<<<"asm.sub_f32", 2, 0, 1>>, <<"asm.mul_f32", 2, 2, 5>>, <<"asm.exp_f32", 2, 2>>, <<"asm.rcp_f32", 4, 3>>,
      <<"asm.mul_f32", 4, 2, 4>>, <<"asm.endpgm">>>>

-----------------------------------------------------------------------------
(* Building.                                                               *)

new == [code |-> <<>>, vmcnt |-> 0, lgkmcnt |-> 0, max_vgpr |-> 1, max_sgpr |-> 2]
current_pc == Len(asm.code)

\* A wait for at most n.  (With fewer than n pending the subtraction wraps; a debug build panics.)
AfterWait(count, n) == IF n <= count THEN n ELSE 0
Emitted(step) ==
    LET c == CallOf(step)
        a == [asm EXCEPT !.code = @ \o Encode(c)]
        counted == step[1] \in DOMAIN Methods
    IN  CASE step[1] = "asm.wait_vmcnt" -> [a EXCEPT !.vmcnt = AfterWait(@, step[2])]
          [] step[1] = "asm.wait_lgkmcnt" -> [a EXCEPT !.lgkmcnt = AfterWait(@, step[2])]
          [] c[1] \notin Waits /\ counted /\ CounterOf[c[1]] = "vmcnt" -> [a EXCEPT !.vmcnt = Min({@ + 1, 255})]
          [] c[1] \notin Waits /\ counted /\ CounterOf[c[1]] = "lgkmcnt" -> [a EXCEPT !.lgkmcnt = Min({@ + 1, 255})]
          [] OTHER -> a
Meaning(step) == Append(calls, [pc |-> current_pc, call |-> CallOf(step)])

Init ==
    /\ asm = new /\ calls = <<>> /\ jumps = <<>> /\ open = {}
    /\ scenario \in Scenarios
    /\ todo = scenario.steps
    /\ wave = scenario.setup /\ ip = 0

\* A kernel makes its next call.
EmitNext ==
    /\ todo # <<>>
    /\ asm' = Emitted(Head(todo)) /\ calls' = Meaning(Head(todo)) /\ todo' = Tail(todo)
    /\ UNCHANGED <<jumps, open, scenario, wave, ip>>

\* For a mutant: relative to the branch itself.
OffsetFromBranch(from_pc, to_pc) == to_pc - from_pc
branch_offset(from_pc, to_pc) == to_pc - from_pc - 1
Branch(from_pc, to_pc) == <<"s_branch", branch_offset(from_pc, to_pc)>>
\* The word at pc is replaced; nothing happens beyond the end of the code.
patch(a, pc, word) == IF pc < Len(a.code) THEN [a EXCEPT !.code[pc + 1] = word] ELSE a
\* patch_branch keeps the opcode of the word and replaces its low half.
patch_branch(a, pc, to_pc) ==
    IF pc < Len(a.code) THEN patch(a, pc, (a.code[pc + 1] \cap 16..31) \cup Field(branch_offset(pc, to_pc), 0)) ELSE a

Room(step) == scenario.kind = "free" /\ current_pc + Len(Encode(CallOf(step))) <= MaxCode
\* Calls of one, two and three words; a literal may look like a branch.
FreeSteps == {<<"asm.add_u32", 1, 2, 3>>, <<"asm.ds_load_b32", 4, 5, 128>>, <<"v_perm_b32", 1, 2, 3, <<\hBFA0, 1>>>>}
EmitSome ==
    \E step \in FreeSteps :
        /\ Room(step)
        /\ asm' = Emitted(step) /\ calls' = Meaning(step)
        /\ UNCHANGED <<jumps, open, scenario, todo, wave, ip>>
\* A loop: back to an instruction emitted before.
LoopBack ==
    \E i \in DOMAIN calls :
        LET step == Branch(current_pc, calls[i].pc)
        IN  /\ Room(step)
            /\ asm' = Emitted(step) /\ calls' = Meaning(step)
            /\ jumps' = (current_pc :> calls[i].pc) @@ jumps
            /\ UNCHANGED <<open, scenario, todo, wave, ip>>
\* A branch forward, or a placeholder, is emitted with a zero and patched later.
EmitOpen ==
    \E step \in {<<"s_cbranch_scc1", 0>>, <<"s_nop", 0>>} :
        /\ Room(step) /\ open = {}
        /\ asm' = Emitted(step) /\ calls' = Meaning(step) /\ open' = {Len(calls) + 1}
        /\ UNCHANGED <<jumps, scenario, todo, wave, ip>>
PatchBranch ==
    \E i \in open :
        LET to == branch_offset(calls[i].pc, current_pc)
        IN  /\ calls[i].call[1] = "s_cbranch_scc1"
            /\ asm' = patch_branch(asm, calls[i].pc, current_pc)
            /\ calls' = [calls EXCEPT ![i].call = <<"s_cbranch_scc1", to>>]
            /\ jumps' = (calls[i].pc :> current_pc) @@ jumps /\ open' = open \ {i}
            /\ UNCHANGED <<scenario, todo, wave, ip>>
PatchPlaceholder ==
    \E i \in open :
        LET step == Branch(calls[i].pc, current_pc)
        IN  /\ calls[i].call[1] = "s_nop"
            /\ asm' = patch(asm, calls[i].pc, Encode(step)[1])
            /\ calls' = [calls EXCEPT ![i].call = step]
            /\ jumps' = (calls[i].pc :> current_pc) @@ jumps /\ open' = open \ {i}
            /\ UNCHANGED <<scenario, todo, wave, ip>>

use_vgprs(count) == asm' = [asm EXCEPT !.max_vgpr = Max({@, count})]
use_sgprs(count) == asm' = [asm EXCEPT !.max_sgpr = Max({@, count})]
suggested(highest, limit) == Min({((highest + 7) \div 8) * 8, limit})
Declare ==
    /\ scenario.kind = "declared"
    /\ use_vgprs(50) \/ use_sgprs(25)
    /\ UNCHANGED <<calls, jumps, open, scenario, todo, wave, ip>>

\* The wave runs the finished kernel.
Run ==
    /\ scenario.kind = "lanes" /\ todo = <<>> /\ ip < Len(calls)
    /\ wave' = After(wave, calls[ip + 1].call) /\ ip' = ip + 1
    /\ UNCHANGED <<asm, calls, jumps, open, scenario, todo>>

Next == EmitNext \/ EmitSome \/ LoopBack \/ EmitOpen \/ PatchBranch \/ PatchPlaceholder \/ Declare \/ Run
Spec == Init /\ [][Next]_vars

-----------------------------------------------------------------------------
(* Properties.                                                             *)

\* The processor, which finds each instruction from the length of the one before
\* it, starts exactly at the words where the kernel's calls begin, whatever their
\* literals look like; and every branch, also one patched in later or put over a
\* placeholder, is still a branch of its kind and goes to the instruction it was
\* meant for.  (Opcodes and operands are compared by LlvmVerified, for the words
\* that the comments quote, and not beyond them.)
BranchesLand ==
    LET next(i) == IF i < Len(calls) THEN calls[i + 1].pc ELSE current_pc
        checked == IF scenario.kind # "free" /\ todo # <<>> THEN {Len(calls)} \ {0} ELSE DOMAIN calls
    IN  /\ \A i \in checked : LengthAt(asm.code, calls[i].pc + 1) = next(i) - calls[i].pc
        /\ \A i \in DOMAIN calls : calls[i].pc \in DOMAIN jumps =>
            /\ NumberAt(asm.code[calls[i].pc + 1], 16, 16) = BranchWord[calls[i].call[1]]
            /\ TargetAt(asm.code, calls[i].pc) = jumps[calls[i].pc]

\* A sequence leaves in the registers and in memory what its documentation says:
\* the tile stored or added row by row, the transpose in packed pairs, the
\* largest value of 32 lanes in lane 0.
LanesRight ==
    scenario.kind = "lanes" /\ todo = <<>> /\ ip = Len(calls) =>
        /\ wave.late = <<>>
        /\ wave.mem = scenario.right.mem
        /\ \A r \in DOMAIN scenario.right.v : \A l \in DOMAIN scenario.right.v[r] :
            Reg(wave, r)[l] = scenario.right.v[r][l]

-----------------------------------------------------------------------------
(* What comments and tests say of single words; TLC evaluates both.        *)

\* The encodings the comments quote from LLVM: a call and its words, as <<high, low>>.
LlvmVectors ==
    {
     <<<<"s_endpgm">>, <<<<\hBFB0, \h0000>>>>>>, <<<<"s_barrier">>, <<<<\hBFBD, \h0000>>>>>>,
     <<<<"s_setprio", 1>>, <<<<\hBFB5, \h0001>>>>>>, <<<<"s_nop", 0>>, <<<<\hBF80, \h0000>>>>>>,
     <<<<"s_nop", 7>>, <<<<\hBF80, \h0007>>>>>>, <<<<"s_clause", 3>>, <<<<\hBF85, \h0003>>>>>>,
     <<<<"s_branch", 100>>, <<<<\hBFA0, \h0064>>>>>>, <<<<"s_cbranch_scc0", 1>>, <<<<\hBFA1, \h0001>>>>>>,
     <<<<"s_cbranch_scc1", 10>>, <<<<\hBFA2, \h000A>>>>>>, <<<<"s_waitcnt_vmcnt", 0>>, <<<<\hBF89, \h03F7>>>>>>,
     <<<<"s_waitcnt_lgkmcnt", 0>>, <<<<\hBF89, \hFC07>>>>>>, <<<<"s_waitcnt_vscnt", 0>>, <<<<\hBC7C, \h0000>>>>>>,
     <<<<"s_cmp_lg_u32_imm", 16, 0>>, <<<<\hBF07, \h8010>>>>>>,
     <<<<"s_and_b32_imm", 20, 20, 15>>, <<<<\h8B14, \h8F14>>>>>>,
     <<<<"s_addc_u32", 5, 5, 0>>, <<<<\h8205, \h8005>>>>>>,
     <<<<"s_cselect_b32", 20, 15, 20>>, <<<<\h9814, \h140F>>>>>>,
     <<<<"s_xor_b32", 0, 0, 1>>, <<<<\h8D00, \h0100>>>>>>, <<<<"s_mul_i32", 14, 14, 15>>, <<<<\h960E, \h0F0E>>>>>>,
     <<<<"s_cmp_ge_u32", 15, 14>>, <<<<\hBF09, \h0E0F>>>>>>,
     <<<<"s_cmp_ge_u32_imm", 14, 3>>, <<<<\hBF09, \h830E>>>>>>,
     <<<<"s_lshr_b32", 14, 10, 6>>, <<<<\h850E, \h860A>>>>>>,
     <<<<"s_lshl_b32", 10, 14, 8>>, <<<<\h840A, \h880E>>>>>>, <<<<"s_mov_b32_exec_lo", 1>>, <<<<\hBEFE, \h0081>>>>>>,
     <<<<"s_load_dwordx2", 2, 0, 0>>, <<<<\hF404, \h0080>>, <<\hF800, \h0000>>>>>>,
     <<<<"s_load_dwordx2", 6, 0, 16>>, <<<<\hF404, \h0180>>, <<\hF800, \h0010>>>>>>,
     <<<<"s_load_dwordx4", 4, 0, 0>>, <<<<\hF408, \h0100>>, <<\hF800, \h0000>>>>>>,
     <<<<"s_load_dword", 15, 0, 32>>, <<<<\hF400, \h03C0>>, <<\hF800, \h0020>>>>>>,
     <<<<"global_load_dwordx4", 8, 0, 0>>, <<<<\hDC5E, \h0000>>, <<\h087C, \h0000>>>>>>,
     <<<<"global_load_dwordx4", 8, 0, 16>>, <<<<\hDC5E, \h0010>>, <<\h087C, \h0000>>>>>>,
     <<<<"global_store_dwordx4", 0, 4, 0>>, <<<<\hDC76, \h0000>>, <<\h007C, \h0400>>>>>>,
     <<<<"global_store_dwordx2", 0, 2, 0>>, <<<<\hDC6E, \h0000>>, <<\h007C, \h0200>>>>>>,
     <<<<"ds_read_b128", 8, 70, 0>>, <<<<\hDBFC, \h0000>>, <<\h0800, \h0046>>>>>>,
     <<<<"ds_load_b32", 0, 1, 0>>, <<<<\hD8D8, \h0000>>, <<\h0000, \h0001>>>>>>,
     <<<<"ds_load_u16", 20, 10, 128>>, <<<<\hD8F0, \h0080>>, <<\h1400, \h000A>>>>>>,
     <<<<"ds_load_u16_d16", 0, 1, 0>>, <<<<\hDA98, \h0000>>, <<\h0000, \h0001>>>>>>,
     <<<<"ds_load_u16_d16_hi", 0, 1, 0>>, <<<<\hDA9C, \h0000>>, <<\h0000, \h0001>>>>>>,
     <<<<"ds_load_2addr_b32", 0, 2, 0, 65>>, <<<<\hD8DC, \h4100>>, <<\h0000, \h0002>>>>>>,
     <<<<"ds_store_b32", 0, 1, 0>>, <<<<\hD834, \h0000>>, <<\h0000, \h0100>>>>>>,
     <<<<"ds_store_b16", 100, 101, 0>>, <<<<\hD87C, \h0000>>, <<\h0000, \h6564>>>>>>,
     <<<<"ds_load_b64", 0, 2, 0>>, <<<<\hD9D8, \h0000>>, <<\h0000, \h0002>>>>>>,
     <<<<"ds_store_b64", 0, 1, 0>>, <<<<\hD934, \h0000>>, <<\h0000, \h0100>>>>>>,
     <<<<"ds_store_b128", 0, 1, 0>>, <<<<\hDB7C, \h0000>>, <<\h0000, \h0100>>>>>>,
     <<<<"v_add_u32_literal", 12, 11, <<0, 128>>>>, <<<<\h4A18, \h16FF>>, <<\h0000, \h0080>>>>>>,
     <<<<"v_and_b32_literal", 0, 1, <<0, 128>>>>, <<<<\h3600, \h02FF>>, <<\h0000, \h0080>>>>>>,
     <<<<"v_wmma_f32_16x16x16_bf16", 0, 64, 65, 66>>, <<<<\hCC41, \h4000>>, <<\h1D0A, \h8340>>>>>>,
     <<<<"v_mul_lo_u32", 10, 20, 30>>, <<<<\hD72C, \h000A>>, <<\h0002, \h3D14>>>>>>,
     <<<<"v_mul_u32_u24", 0, 1, 2>>, <<<<\h1600, \h0501>>>>>>, <<<<"v_mov_b32", 60, 0>>, <<<<\h7E78, \h0300>>>>>>,
     <<<<"v_mov_b32_from_sgpr", 0, 4>>, <<<<\h7E00, \h0204>>>>>>,
     <<<<"v_readfirstlane_b32", 12, 16>>, <<<<\h7E18, \h0510>>>>>>,
     <<<<"v_mbcnt_lo_u32_b32", 0, TRUE>>, <<<<\hD71F, \h0000>>, <<\h0001, \h00C1>>>>>>,
     <<<<"v_readlane_b32", 0, 1, 16>>, <<<<\hD760, \h0000>>, <<\h0001, \h2101>>>>>>,
     <<<<"v_permlane16_b32", 0, 1, 4, 5>>, <<<<\hD65B, \h0000>>, <<\h0014, \h0901>>>>>>,
     <<<<"v_permlanex16_b32", 20, 16, 0, 0>>, <<<<\hD65C, \h0014>>, <<\h0201, \h0110>>>>>>,
     <<<<"v_permlane64_b32", 10, 20>>, <<<<\h7E14, \hCF14>>>>>>,
     <<<<"v_mov_b32_imm", 24, 0>>, <<<<\h7E30, \h0280>>>>>>, <<<<"v_sqrt_f32", 20, 20>>, <<<<\h7E28, \h6714>>>>>>,
     <<<<"v_sub_f32", 0, 1, 2>>, <<<<\h0800, \h0501>>>>>>,
     <<<<"v_mul_f32_e64_literal", 100, 100, <<16640, 0>>>>, <<<<\hD508, \h0064>>, <<\h0001, \hFF64>>, <<\h4100, \h0000>>>>>>,
     <<<<"v_add_f32_e64_inline", 100, 100, 242>>, <<<<\hD503, \h0064>>, <<\h0001, \hE564>>>>>>,
     <<<<"v_add_f32_e64_inline", 100, 100, 243>>, <<<<\hD503, \h0064>>, <<\h0001, \hE764>>>>>>,
     <<<<"v_mul_f32_e64_inline", 100, 100, 240>>, <<<<\hD508, \h0064>>, <<\h0001, \hE164>>>>>>,
     <<<<"v_and_b32", 55, 54, 0>>, <<<<\h366E, \h0136>>>>>>,
     <<<<"v_and_b32_zero_imm", 55, 0>>, <<<<\h366E, \h0080>>>>>>,
     <<<<"v_add_nc_u32_e64", 71, 69, 14>>, <<<<\hD525, \h0047>>, <<\h0000, \h1D45>>>>>>,
     <<<<"v_add_co_ci_u32", 57, 10, 57, 54, 10>>, <<<<\hD520, \h0A39>>, <<\h002A, \h6D39>>>>>>,
     <<<<"v_add_co_u32_vcc", 73, 73, 71>>, <<<<\hD700, \h6A49>>, <<\h0002, \h8F49>>>>>>,
     <<<<"v_add_co_ci_u32_zero_vcc", 74, 74>>, <<<<\hD520, \h6A4A>>, <<\h01A9, \h014A>>>>>>,
     <<<<"v_sub_co_u32_vcc", 2, 2, 25>>, <<<<\hD701, \h6A02>>, <<\h0002, \h3302>>>>>>,
     <<<<"v_sub_co_ci_u32_zero_vcc", 3, 3>>, <<<<\hD521, \h6A03>>, <<\h01A9, \h0103>>>>>>,
     <<<<"v_addc_u32", 5, 5, 35>>, <<<<\h400A, \h0A23>>>>>>,
     <<<<"v_pack_b32_f16", 0, 1, 2>>, <<<<\hD711, \h0000>>, <<\h0002, \h0501>>>>>>,
     <<<<"v_cvt_f32_u32", 0, 1>>, <<<<\h7E00, \h0D01>>>>>>,
     <<<<"v_cvt_u32_f32", 101, 100>>, <<<<\h7ECA, \h0F64>>>>>>,
     <<<<"v_readfirstlane", 11, 81>>, <<<<\h7E16, \h0551>>>>>>,
     <<<<"v_lshrrev_b32", 43, 16, 24>>, <<<<\h3256, \h3090>>>>>>,
     <<<<"v_alignbit_b32", 43, 25, 24, 16>>, <<<<\hD616, \h002B>>, <<\h0242, \h3119>>>>>>,
     <<<<"v_and_or_b32", 0, 1, <<65535, 0>>, 2>>, <<<<\hD657, \h0000>>, <<\h0409, \hFF01>>, <<\hFFFF, \h0000>>>>>>,
     <<<<"v_perm_b32", 0, 1, 2, <<1284, 256>>>>, <<<<\hD644, \h0000>>, <<\h03FE, \h0501>>, <<\h0504, \h0100>>>>>>,
     <<<<"global_atomic_add_f32", 3, 0, 2>>, <<<<\hDD5A, \h4000>>, <<\h037C, \h0200>>>>>>,
     <<<<"global_atomic_add_f32_no_rtn", 0, 2, 0>>, <<<<\hDD5A, \h0000>>, <<\h007C, \h0200>>>>>>,
     <<<<"v_cmp_gt_f32", 73, 75>>, <<<<\h7C28, \h9749>>>>>>,
     <<<<"v_cndmask_b32", 0, 0, 0>>, <<<<\h0200, \h0100>>>>>>, <<<<"v_cmp_lt_u32", 32, 0>>, <<<<\h7C92, \h0120>>>>>>,
     <<<<"v_cmp_lt_u32_imm", 80, 16>>, <<<<\h7C92, \hA090>>>>>>,
     <<<<"v_cmp_gt_u32_imm", 80, 16>>, <<<<\h7C98, \hA090>>>>>>,
     <<<<"v_cmp_eq_u32_imm", 1, 0>>, <<<<\h7C94, \h0280>>>>>>, <<<<"v_cmp_gt_i32", 1, 2>>, <<<<\h7C88, \h0501>>>>>>,
     <<<<"v_cmp_ge_i32", 35, 2>>, <<<<\h7C8C, \h0523>>>>>>, <<<<"v_sub_u32", 0, 1, 2>>, <<<<\h4C00, \h0501>>>>>>,
     <<<<"v_cmp_ge_u32", 0, 1>>, <<<<\h7C9C, \h0300>>>>>>,
     <<<<"v_max_f32_imm0", 0, 0>>, <<<<\hD510, \h0000>>, <<\h0001, \h0100>>>>>>,
     <<<<"v_cmp_gt_f32_imm0", 0>>, <<<<\hD414, \h006A>>, <<\h0001, \h0100>>>>>>,
     <<<<"s_and_saveexec_b32_vcc", 29>>, <<<<\hBE9D, \h206A>>>>>>,
     <<<<"v_dual_add_f32_mul_f32", 0, 1, 2, 3, 4, 5>>, <<<<\hC906, \h0501>>, <<\h0002, \h0B04>>>>>>,
     <<<<"v_dual_add_f32_add_f32", 0, 0, 8, 1, 1, 9>>, <<<<\hC908, \h1100>>, <<\h0000, \h1301>>>>>>,
     <<<<"v_dual_max_f32_max_f32", 150, 72, 0, 151, 73, 1>>, <<<<\hCA94, \h0148>>, <<\h9696, \h0349>>>>>>,
     <<<<"v_dual_mul_f32_mul_f32", 32, 32, 150, 33, 33, 151>>, <<<<\hC8C7, \h2D20>>, <<\h2021, \h2F21>>>>>>,
     <<<<"v_dual_sub_f32_sub_f32", 40, 40, 48, 41, 41, 49>>, <<<<\hC94A, \h6128>>, <<\h2828, \h6329>>>>>>}
\* The encoders yield the words the comments quote, but for those listed in the
\* README: vmcnt(4) = 0xBF8913F7 and vmcnt(8) = 0xBF8923F7, which the encoder turns
\* into vmcnt(0), and global_atomic_add_u32, whose registers it misplaces.
ASSUME LlvmVerified ==
    \A <<c, words>> \in LlvmVectors : Encode(c) = [i \in DOMAIN words |-> Word(words[i][1], words[i][2])]

\* The tests of the file, on the fields they read.
EncodingTests ==
    LET field(c, lo, width) == NumberAt(Encode(c)[1], lo, width)
        vmcnt0 == Encode(<<"s_waitcnt_vmcnt", 0>>)
        lgkmcnt0 == Encode(<<"s_waitcnt_lgkmcnt", 0>>)
    IN  /\ vmcnt0 # lgkmcnt0
        /\ \A w \in {vmcnt0[1], lgkmcnt0[1]} : NumberAt(w, 24, 8) = \hBF
        /\ field(<<"global_load_dwordx4", 0, 10, 0>>, 18, 7) = \h17
        /\ field(<<"global_store_dwordx4", 10, 0, 0>>, 18, 7) = \h1D
        /\ field(<<"v_exp_f32", 0, 1>>, 9, 8) = \h25
        /\ field(<<"v_rcp_f32", 0, 1>>, 25, 7) = \h3F
        /\ \A c \in {<<"v_add_f32", 0, 1, 2>>, <<"v_mul_f32", 0, 1, 2>>} : field(c, 31, 1) = 0
        /\ field(<<"s_load_dwordx2", 2, 0, 0>>, 26, 6) = \h3D
        /\ field(<<"s_cbranch_scc1", -5>>, 0, 16) = 2^16 - 5
        /\ field(<<"s_branch", 0>>, 0, 16) = 0
        /\ Encode(<<"s_mov_b32", 0, 128>>)[1] # {}
        /\ field(<<"s_mov_b32", 20, 2>>, 0, 8) = 2
        /\ <<suggested(1, 255), suggested(48, 255), suggested(50, 255), suggested(24, 128), suggested(25, 128)>> =
                <<8, 48, 56, 24, 32>>
        /\ Encode(<<"s_endpgm">>)[1] = Hi(\hBFB0)
        /\ \A n \in {1, 2, 4, 8, 16} :
            XorPattern(n) = ((1 :> \h041F) @@ (2 :> \h081F) @@ (4 :> \h101F) @@ (8 :> \h201F) @@ (16 :> \h401F))[n]
        /\ build_gemm_16x16x16_kernel # <<>>
ASSUME EncodingTestsPass == EncodingTests
=============================================================================
