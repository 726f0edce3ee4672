------------------------------ MODULE LaneWave ------------------------------
(***************************************************************************)
(* A whole wave32 as the hand-written sequences of src/src/rdna3_asm.rs    *)
(* see it: 32 lanes, VGPRs, VCC, LDS and global memory.  External: what    *)
(* the instructions do.  A register word is <<low half, high half>>, so    *)
(* that the packing of two bf16 into a word is what it is; an f32 whose    *)
(* bf16 is x is <<m, x>>, m the bits that packing drops.                   *)
(***************************************************************************)
EXTENDS Integers, SequencesExt, FiniteSetsExt, Bitwise

Lanes == 0..31
Half == 2^16
FromInt(n) == <<n % Half, n \div Half>>
ToInt(w) == w[1] + w[2] * Half        \* of words below 2^31

\* 64-bit addresses are <<low word, high word>>; Base is where buffers start,
\* 600 bytes below a 2^32 boundary, and Offset an address's distance from it.
Base == <<<<Half - 600, Half - 1>>, FromInt(7)>>
Offset(lo, hi) == (lo[1] - Base[1][1]) + Half * (lo[2] - Base[1][2] + Half * (hi[1] - Base[2][1]))

\* The lane that lane l reads with a swizzle pattern (bit 15 clear).
SwizzleLane(l, pattern) == (((l & (pattern % 32)) | ((pattern \div 32) % 32)) ^^ ((pattern \div 2^10) % 32))

\* A wave whose registers v hold a row of lanes each; late are the registers
\* that LDS operations still have to write, in order.
NewWave(v, lds, mem) == [v |-> v, late |-> <<>>, vcc |-> {}, lds |-> lds, mem |-> mem]

Reg(w, r) == IF r \in DOMAIN w.v THEN w.v[r] ELSE [l \in Lanes |-> <<0, 0>>]
Put(w, r, row) == [w EXCEPT !.v = (r :> row) @@ @]
Late(w, r, row) == [w EXCEPT !.late = Append(@, <<r, row>>)]

\* One of the 8 bytes of two words: 0..3 the second operand's, 4..7 the first's.
ByteOf(w0, w1, b) ==
    LET w == IF b < 4 THEN w1 ELSE w0
        h == w[1 + (b % 4) \div 2]
    IN  IF b % 2 = 0 THEN h % 256 ELSE h \div 256
Permuted(w0, w1, selector) ==
    LET byte(i) == ByteOf(w0, w1, (selector[1 + i \div 2] \div (IF i % 2 = 0 THEN 1 ELSE 256)) % 256)
    IN  <<byte(0) + 256 * byte(1), byte(2) + 256 * byte(3)>>

\* The sum of two words, modulo 2^32, and its carry.
Plus(x, y) ==
    LET low == x[1] + y[1]
        high == x[2] + y[2] + low \div Half
    IN  [sum |-> <<low % Half, high % Half>>, carry |-> high \div Half]

\* Calls that compute one register from others, lane by lane.
LaneOf(w, c, l) ==
    LET x(i) == Reg(w, c[i])[l]
    IN  CASE c[1] = "v_and_b32_imm" -> FromInt(x(3)[1] & c[4])
          [] c[1] = "v_lshlrev_b32" -> IF c[3] = 16 THEN <<0, x(4)[1]>> ELSE FromInt(ToInt(x(4)) * 2^c[3])
          [] c[1] = "v_lshrrev_b32" -> IF c[3] = 16 THEN <<x(4)[2], 0>> ELSE FromInt(ToInt(x(4)) \div 2^c[3])
          [] c[1] = "v_or_b32" -> <<x(3)[1] | x(4)[1], x(3)[2] | x(4)[2]>>
          [] c[1] = "v_and_or_b32" -> <<(x(3)[1] & c[4][2]) | x(5)[1], (x(3)[2] & c[4][1]) | x(5)[2]>>
          [] c[1] = "v_perm_b32" -> Permuted(x(3), x(4), <<c[5][2], c[5][1]>>)
          [] c[1] = "v_cndmask_b32" -> IF l \in w.vcc THEN x(4) ELSE x(3)
          [] c[1] = "v_mov_b32_literal" -> <<c[3][2], c[3][1]>>
          [] c[1] = "v_mul_lo_u32" -> FromInt(ToInt(x(3)) * ToInt(x(4)))
          [] c[1] \in {"v_add_u32", "v_add_co_u32_vcc"} -> Plus(x(3), x(4)).sum
          [] c[1] = "v_add_co_ci_u32_zero_vcc" -> Plus(x(3), FromInt(IF l \in w.vcc THEN 1 ELSE 0)).sum
          \* Lane i of a half reads the other half's lane that 4-bit selector i names.
          [] c[1] = "v_permlanex16_b32" -> Reg(w, c[3])[(16 * (1 - l \div 16)) + (IF l % 16 = 0 THEN c[4] % 16 ELSE 0)]
          [] c[1] = "v_max_f32" -> IF x(3)[2] >= x(4)[2] THEN x(3) ELSE x(4)
LaneCalls ==
    {"v_and_b32_imm", "v_lshlrev_b32", "v_lshrrev_b32", "v_or_b32", "v_and_or_b32", "v_perm_b32", "v_cndmask_b32",
     "v_mov_b32_literal", "v_mul_lo_u32", "v_add_u32", "v_add_co_u32_vcc", "v_add_co_ci_u32_zero_vcc",
     "v_permlanex16_b32", "v_max_f32"}

\* The address of a global access, one per lane.
Address(w, r, off, l) == Offset(Reg(w, r)[l], Reg(w, r + 1)[l]) + off
Written(w, c) == {Address(w, c[2], c[4], l) : l \in Lanes}
\* Of two lanes at one address either may come last: the memory keeps both.
At_(w, c, a) == {Reg(w, c[3])[l] : l \in {k \in Lanes : Address(w, c[2], c[4], k) = a}}

\* The wave after call c.
After(w, c) ==
    CASE c[1] \in LaneCalls ->
            LET next == Put(w, c[2], [l \in Lanes |-> LaneOf(w, c, l)])
            IN  IF c[1] = "v_add_co_u32_vcc"
                THEN [next EXCEPT !.vcc = {l \in Lanes : Plus(Reg(w, c[3])[l], Reg(w, c[4])[l]).carry = 1}]
                ELSE next
      [] c[1] = "v_cmp_gt_u32_imm" -> [w EXCEPT !.vcc = {l \in Lanes : c[3] > Reg(w, c[2])[l][1]}]
      [] c[1] = "v_cmp_eq_u32_imm" -> [w EXCEPT !.vcc = {l \in Lanes : c[3] = Reg(w, c[2])[l][1]}]
      \* SGPR 106 is VCC.
      [] c[1] = "s_mov_b32_literal" ->
            [w EXCEPT !.vcc = {l \in Lanes : (c[3][IF l < 16 THEN 2 ELSE 1] \div 2^(l % 16)) % 2 = 1}]
      [] c[1] = "ds_swizzle_b32" -> Late(w, c[2], [l \in Lanes |-> Reg(w, c[3])[SwizzleLane(l, c[4])]])
      [] c[1] = "ds_load_u16" -> Late(w, c[2], [l \in Lanes |-> <<w.lds[ToInt(Reg(w, c[3])[l]) + c[4]], 0>>])
      [] c[1] = "s_waitcnt_lgkmcnt" ->
            LET n == IF Len(w.late) > c[2] THEN Len(w.late) - c[2] ELSE 0
            IN  [w EXCEPT !.late = SubSeq(@, n + 1, Len(@)),
                          !.v = [r \in (DOMAIN @) \cup {w.late[i][1] : i \in 1..n} |->
                                    LET writes == {i \in 1..n : w.late[i][1] = r}
                                    IN  IF writes = {} THEN @[r] ELSE w.late[Max(writes)][2]]]
      [] c[1] = "global_store_dword" -> [w EXCEPT !.mem = [a \in Written(w, c) |-> At_(w, c, a)] @@ @]
      \* Atomics add: the memory's word is the set of what has been added to it.
      [] c[1] = "global_atomic_add_f32_no_rtn" ->
            [w EXCEPT !.mem = [a \in Written(w, c) |-> At_(w, c, a) \cup (IF a \in DOMAIN w.mem THEN w.mem[a] ELSE {})] @@ @]
      [] OTHER -> w
=============================================================================
