------------------------------ MODULE Gfx11Isa ------------------------------
(***************************************************************************)
(* How the processor finds its way through words: the format of gfx11      *)
(* instructions, their lengths, and what a branch word does.  External: it *)
(* is read from the encoders' comments in src/src/rdna3_asm.rs, which      *)
(* quote LLVM's encodings, and is stated apart from the encoders so that   *)
(* the two can be compared.                                                *)
(***************************************************************************)
EXTENDS Gfx11

FormatOf(word) ==
    LET top(n) == NumberAt(word, 32 - n, n)
    IN  CASE top(9) = \h17D -> "SOP1"
          [] top(9) = \h17E -> "SOPC"
          [] top(9) = \h17F -> "SOPP"
          [] top(4) = \hB /\ top(9) \notin {\h17D, \h17E, \h17F} -> "SOPK"
          [] top(2) = 2 /\ top(4) # \hB -> "SOP2"
          [] top(7) = \h3F -> "VOP1"
          [] top(7) = \h3E -> "VOPC"
          [] top(1) = 0 /\ top(7) \notin {\h3E, \h3F} -> "VOP2"
          [] top(6) = \h35 \/ top(8) = \hCC -> "VOP3"
          [] top(6) = \h32 -> "VOPD"
          [] top(6) = \h36 -> "DS"
          [] top(6) = \h37 -> "FLAT"
          [] top(6) = \h3D -> "SMEM"

WordsOf(f) == IF f \in {"VOP3", "VOPD", "DS", "FLAT", "SMEM"} THEN 2 ELSE 1

\* <<word, low bit, width>> of each place that holds a source code.
SourcesOf(f) ==
    CASE f \in {"SOP2", "SOPC"} -> {<<1, 0, 8>>, <<1, 8, 8>>}
      [] f = "SOP1" -> {<<1, 0, 8>>}
      [] f \in {"VOP1", "VOP2", "VOPC"} -> {<<1, 0, 9>>}
      [] f = "VOP3" -> {<<2, 0, 9>>, <<2, 9, 9>>, <<2, 18, 9>>}
      [] f = "VOPD" -> {<<1, 0, 9>>, <<2, 0, 9>>}
      [] OTHER -> {}

\* The words of the instruction that starts at index i of code: a literal
\* follows one that names it, source code 255.
LengthAt(code, i) ==
    LET f == FormatOf(code[i])
        literal == \E s \in SourcesOf(f) : NumberAt(code[i + s[1] - 1], s[2], s[3]) = 255
    IN  WordsOf(f) + (IF literal THEN 1 ELSE 0)

\* A branch goes by its signed low half, counted from the word after it.
BranchWord == [s_branch |-> \hBFA0, s_cbranch_scc1 |-> \hBFA2]
TargetAt(code, pc) ==
    LET n == NumberAt(code[pc + 1], 0, 16)
    IN  pc + 1 + (IF n >= 2^15 THEN n - 2^16 ELSE n)
=============================================================================
