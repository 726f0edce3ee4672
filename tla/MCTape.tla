------------------------------- MODULE MCTape -------------------------------
(* Small instances of Tape for TLC. *)
EXTENDS Tape

TwoLeaves == <<3, -2>>
PassOps == {"add", "mul", "cross_entropy"}
=============================================================================
