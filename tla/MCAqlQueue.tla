----------------------------- MODULE MCAqlQueue -----------------------------
(* Small instances of AqlQueue for TLC. *)
EXTENDS AqlQueue

CONSTANTS t1, t2

OneThread  == {t1}
TwoThreads == {t1, t2}
=============================================================================
