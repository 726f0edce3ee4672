---------------------------- MODULE MCOptimizer ----------------------------
(* Families of kernels for the optimiser: r1 is the thread index, s1 a       *)
(* pointer and s2 a trip count.                                              *)
EXTENDS Optimizer

Binary(k, d, a, b) == Vector(k, d, <<a, b>>)
Const(d, c) == Vector("mov", d, <<-c>>)
FromS(d, s) == [Vector("fromS", d, <<>>) EXCEPT !.ss = <<s>>]
Load(d, a, n) == Memory("load", d, <<a>>, n)
Lds(d, a, n) == Memory("lds", d, <<a>>, n)
Store(v, a, n) == Memory("store", 0, <<v, a>>, n)
Wait(n) == [Nop EXCEPT !.k = "wait", !.n = n]
WaitLds(n) == [Nop EXCEPT !.k = "waitl", !.n = n]
Label(n) == [Nop EXCEPT !.k = "label", !.n = n]
Branch(k, n) == [Nop EXCEPT !.k = k, !.n = n]
SaveExec(s) == Scalar("savex", s, <<>>, 0)
RestoreExec(s) == Scalar("restx", 0, <<s>>, 0)
InRange(r, n) == Vector("cmp", 0, <<r, -n>>)
End == [Nop EXCEPT !.k = "end"]

\* Element-wise kernels: a masked load, two operations, a masked store.
Elementwise == {
    << FromS(2, 1), Binary("and", 3, 1, -7), Binary("add", 4, 2, 3),
       Vector("movi", 5, <<0>>), InRange(1, 513), SaveExec(3), Load(5, 4, 0), Wait(0), RestoreExec(3),
       Const(6, 2), Const(7, 3), Binary(k1, 8, x, 6), Binary(k2, 9, 8, y),
       InRange(1, 513), SaveExec(4), Store(9, 4, 0), RestoreExec(4), End >> :
    k1 \in {"add", "mul"}, k2 \in {"add", "sub", "mul"}, x \in {5, 7, 0, -1}, y \in {6, 8, 0, -1} }

\* Repeated subexpressions across a uniform branch, and a product added.
Branching == {
    << FromS(2, 1), Binary("add", 3, 2, 1), Load(4, 3, 0), Wait(0),
       Binary(k, 5, 4, x), Binary("mul", 6, 4, 3), Binary("add", 7, 6, y),
       Scalar("scmpge", 0, <<2, 5>>, 0), Branch("brscc1", 9),
       Binary(k, 8, 4, x), Vector("fma", 9, <<8, 7, z>>), Store(9, 3, 0),
       Label(9), Binary(k, 10, 4, x), Store(10, 3, 1), End >> :
    k \in {"add", "mul"}, x \in {3, -2}, y \in {5, -4}, z \in {7, 0} }

\* A loop of the block language: its body computes an address from the counter,
\* updates memory, and holds values that do not change.
Looping == {
    << FromS(2, 1), Scalar("smov", 3, <<>>, 0), Branch("br", 1),
       Label(1), Scalar("scmplt", 0, <<3, 2>>, 0), Branch("brscc1", 2), Branch("br", 3),
       Label(2), Scalar("smul", 5, <<3>>, 4), FromS(4, 5), Binary("add", 5, 4, 2),
       Lds(6, 5, 0), WaitLds(0), Const(7, c), FromS(8, 1), Binary(k, 9, 6, 7), Binary(k, 10, 9, 8),
       Store(10, 5, 0), Scalar("sadd", 6, <<3>>, 1), Scalar("smov", 3, <<6>>, 0), Branch("br", 1),
       Label(3), Store(2, 2, 9), End >> :
    k \in {"add", "mul"}, c \in {0, 3} }

\* A loop that runs at its end, with registers updated in place.
Reducing == {
    << FromS(2, 1), FromS(7, 1), Const(3, 0), Scalar("smov", 3, <<>>, 0),
       Label(1), Load(4, 2, 0), Const(5, c), Wait(0), Binary("mul", 6, 4, 5),
       Binary("add", 3, 3, 6), Binary("add", 2, 2, -4),
       Scalar("sadd", 3, <<3>>, 1), Scalar("scmplt", 0, <<3, 2>>, 0), Branch("brscc1", 1),
       Store(3, 7, 0), End >> :
    c \in {1, 2} }

\* The counted loop that is unrolled.
Counting == {
    << FromS(2, 1), Scalar("smov", 3, <<>>, 0), Const(3, 5),
       Label(1), Scalar("scmpge", 0, <<3, 2>>, 0), Branch("brscc1", 2),
       Load(4, 2, 0), Wait(0), Binary(k, 5, 4, 3), Store(5, 2, 0),
       Scalar("sadd", 3, <<3>>, 1), Branch("br", 1),
       Label(2), End >> : k \in {"add", "mul"} }

\* Neighbouring and separate loads, graduated waits, and work to move ahead of them.
Streaming == {
    << FromS(2, 1), Load(3, 2, 0), Load(4, 2, n), Lds(9, 2, 3), Const(7, 2), Binary("add", 8, 1, 7),
       Wait(w), Binary("add", 5, 3, 8), Wait(0), Wait(0), Binary("mul", 6, 4, 5), WaitLds(0),
       Binary("add", 10, 9, 7), Store(5, 2, 0), Store(6, 2, 1), Store(10, 2, 4), End >> :
    <<n, w>> \in {<<1, 0>>, <<2, 1>>, <<2, 0>>} }

AllPrograms == Elementwise \cup Branching \cup Looping \cup Reducing \cup Counting \cup Streaming
AllSettings == {[level |-> l, noCse |-> c, skip |-> FALSE] : l \in {0, 1, 3, 9}, c \in BOOLEAN}
                  \cup {[level |-> 4, noCse |-> FALSE, skip |-> TRUE]}
SomeRegs == 1..50
Trips == {<<3, 0, 7, 7, 7, 7>>, <<40, 4, 7, 7, 2, 7>>}

\* A value loaded under a mask and used by every lane.
MaskedLoad == {
    << FromS(2, 1), Binary("add", 3, 2, 1), Vector("movi", 5, <<0>>), InRange(1, 513), SaveExec(3),
       Load(5, 3, 0), Wait(0), RestoreExec(3), Store(5, 3, 0), End >> }
\* A loop whose body uses its counter as a vector.
VectorCounter == {
    << FromS(2, 1), Scalar("smov", 3, <<>>, 0), Branch("br", 1),
       Label(1), Scalar("scmplt", 0, <<3, 2>>, 0), Branch("brscc1", 2), Branch("br", 3),
       Label(2), FromS(4, 3), Binary("add", 5, 4, 2), Load(6, 5, 0), Wait(0), Store(6, 5, 0),
       Scalar("sadd", 6, <<3>>, 1), Scalar("smov", 3, <<6>>, 0), Branch("br", 1),
       Label(3), End >> }
=============================================================================
