----------------------------- MODULE TapeProofs -----------------------------
(***************************************************************************)
(* Tape for any program: any operations, any number of tensors, passes and *)
(* nested guards, passes that fail anywhere.  Gradients taken with         *)
(* sync_grads are snapshots once the tape is cleared, NoGrad guards nest,  *)
(* and reverse-mode differentiation is right: what the walk leaves         *)
(* registered for a parameter is the derivative computed the other way     *)
(* round, from inputs to outputs.                                          *)
(***************************************************************************)
EXTENDS Tape, Sums, SequenceTheorems, TLAPS

Guard == [kind : {"NoGrad", "no_grad"}, was : BOOLEAN]

NodeType == [op : Binary \cup Unary, out : Ids, ins : Seq(Ids),
             needs : Seq(BOOLEAN), live : BOOLEAN, saved : Nat]

\* What is left of a sequence behind its head.
LEMMA TailLemma ==
  ASSUME NEW S, NEW s \in Seq(S), s # << >>
  PROVE  /\ Tail(s) \in Seq(S) /\ Len(Tail(s)) = Len(s) - 1
         /\ \A i \in 1..Len(s) - 1 : Tail(s)[i] = s[i + 1]
         /\ s[1] \in S /\ Len(s) \in Nat \ {0} /\ 1 \in 1..Len(s)
<1>1. /\ Tail(s) \in Seq(S) /\ Len(Tail(s)) = Len(s) - 1
      /\ \A i \in 1..Len(s) - 1 : Tail(s)[i] = s[i + 1]
      /\ Head(s) = s[1] /\ Head(s) \in S
  BY HeadTailProperties
<1>2. Len(s) \in Nat \ {0}
  OBVIOUS
<1>3. QED
  BY <1>1, <1>2

-----------------------------------------------------------------------------
\* A node has the operands of its operation, among the first t tensors, and
\* cross_entropy's keeps one of the first m buffers.
Sound(n, t, m) ==
  /\ n.op \in Binary => Len(n.ins) = 2 /\ Len(n.needs) = 2
  /\ n.op \in Unary => Len(n.ins) = 1 /\ n.needs = <<TRUE>>
  /\ \A j \in 1..Len(n.ins) : n.ins[j] <= t
  /\ n.saved <= m
  /\ n.op = "cross_entropy" => n.saved # NoBuf

Todo == [to : Ids, buf : Nat \ {0}]

TapeTypes ==
  /\ tensors \in Seq([val : Int, req : BOOLEAN])
  /\ Len(LeafValues) <= Len(tensors) /\ Len(tensors) <= MaxTensors
  /\ mem \in Seq(Int)
  /\ tape \in Seq(NodeType)
  /\ \A i \in 1..Len(tape) : Sound(tape[i], Len(tensors), Len(mem))
  /\ registry \in [Ids -> 0..Len(mem)]
  /\ grad \in [Ids -> 0..Len(mem)]
  /\ pass \in [on : BOOLEAN, node : Nat, todo : Seq(Todo)]
  /\ pass.node <= Len(tape)
  /\ \A k \in 1..Len(pass.todo) : pass.todo[k].buf <= Len(mem)
  /\ ~pass.on => pass = AtRest
  /\ kept \in [Parameters -> Seq(Int)]

\* The buffer behind a snapshot is out of every later pass's reach.
Held ==
  \A p \in Parameters : kept[p] # << >> =>
    /\ grad[p] # NoBuf
    /\ kept[p] = <<mem[grad[p]]>>
    /\ \A t \in Ids : registry[t] # grad[p]
    /\ \A i \in 1..Len(tape) : tape[i].saved # grad[p]
    /\ \A k \in 1..Len(pass.todo) : pass.todo[k].buf # grad[p]

LEMMA NodeParts ==
  ASSUME NEW n \in NodeType, NEW t, NEW m, Sound(n, t, m)
  PROVE  /\ n.op \in Binary \cup Unary /\ n.out \in Ids /\ n.saved \in Nat
         /\ n.ins \in Seq(Ids) /\ n.needs \in Seq(BOOLEAN)
         /\ Len(n.ins) \in Nat /\ Len(n.needs) = Len(n.ins)
         /\ \A j \in 1..Len(n.ins) : n.ins[j] \in Ids
         /\ \A j \in 1..Len(n.needs) : n.needs[j] \in BOOLEAN
<1>1. /\ n.op \in Binary \cup Unary /\ n.out \in Ids /\ n.saved \in Nat
      /\ n.ins \in Seq(Ids) /\ n.needs \in Seq(BOOLEAN)
  BY DEF NodeType
<1>2. ASSUME n.op \in Binary PROVE Len(n.needs) = Len(n.ins)
  <2>1. Len(n.needs) = 2 /\ Len(n.ins) = 2
    BY <1>2 DEF Sound
  <2>2. QED
    BY <2>1
<1>3. ASSUME n.op \in Unary PROVE Len(n.needs) = Len(n.ins)
  <2>1. n.needs = <<TRUE>> /\ Len(n.ins) = 1
    BY <1>3 DEF Sound
  <2>2. Len(n.needs) = 1
    BY <2>1
  <2>3. QED
    BY <2>1, <2>2
<1>4. QED
  <2>1. Len(n.needs) = Len(n.ins)
    BY <1>1, <1>2, <1>3
  <2>2. QED
    BY <1>1, <2>1

\* What a closure needs and returns: buffers of its own, and the one that
\* cross_entropy saved.
LEMMA SlopeType ==
  ASSUME TapeTypes, NEW n \in NodeType, Sound(n, Len(tensors), Len(mem)),
         NEW j \in 1..Len(n.ins)
  PROVE  Slope(n, j) \in Int
<1>1. \A k \in 1..Len(n.ins) : tensors[n.ins[k]].val \in Int
  <2> SUFFICES ASSUME NEW k \in 1..Len(n.ins)
               PROVE  tensors[n.ins[k]].val \in Int
    OBVIOUS
  <2>1. n.ins[k] \in Ids /\ n.ins[k] <= Len(tensors)
    BY NodeParts DEF Sound
  <2>5. Len(tensors) \in Nat
    BY DEF TapeTypes
  <2>6. n.ins[k] \in Int /\ 1 <= n.ins[k]
    BY <2>1, BoundAssumption DEF Ids
  <2>4. n.ins[k] \in 1..Len(tensors)
    BY <2>1, <2>5, <2>6
  <2>2. tensors[n.ins[k]] \in [val : Int, req : BOOLEAN]
    BY <2>4, ElementOfSeq DEF TapeTypes
  <2>3. QED
    BY <2>2
<1>2. n.op \in {"add", "mul", "scale", "relu", "cross_entropy"}
  BY NodeParts DEF Binary, Unary
<1>3. n.op = "mul" => Len(n.ins) = 2
  BY DEF Sound, Binary
<1>4. Len(n.ins) \in Nat
  BY NodeParts
<1>5. CASE n.op = "mul"
  <2>1. 3 - j \in 1..Len(n.ins)
    <3>3. Len(n.ins) = 2
      BY <1>3, <1>5
    <3>1. j = 1 \/ j = 2
      BY <3>3
    <3>2. QED
      BY <3>1, <3>3
  <2>2. QED
    BY <1>1, <1>5, <2>1 DEF Slope
<1>6. CASE n.op # "mul"
  <2>1. 1 \in 1..Len(n.ins)
    BY <1>4
  <2>2. QED
    BY <1>1, <1>2, <1>6, <2>1 DEF Slope, LossSlope, Factor
<1>7. QED
  BY <1>5, <1>6

LEMMA ContributionLemma ==
  ASSUME TapeTypes, NEW n \in NodeType, Sound(n, Len(tensors), Len(mem)),
         NEW g \in Int
  PROVE  LET c == Contribution(n, g)
         IN  /\ c.new \in Seq(Int)
             /\ \A j \in 1..Len(n.needs) : n.needs[j] =>
                  \/ c.bufs[j] \in Len(mem) + 1..Len(mem) + Len(c.new)
                  \/ c.bufs[j] = n.saved /\ n.saved # NoBuf
<1> DEFINE c == Contribution(n, g)
           Good == /\ c.new \in Seq(Int)
                   /\ \A j \in 1..Len(n.needs) : n.needs[j] =>
                        \/ c.bufs[j] \in Len(mem) + 1..Len(mem) + Len(c.new)
                        \/ c.bufs[j] = n.saved /\ n.saved # NoBuf
<1>1. Len(mem) \in Nat /\ Len(n.ins) \in Nat /\ Len(n.needs) \in Nat
  BY NodeParts DEF TapeTypes
<1>2. n.op \in {"add", "mul", "scale", "relu", "cross_entropy"}
  BY NodeParts DEF Binary, Unary
<1>3. CASE n.op = "add"
  <2>1. c = [new |-> <<g>>, bufs |-> <<Len(mem) + 1, Len(mem) + 1>>]
    BY <1>3 DEF Contribution
  <2>2. Len(n.needs) = 2
    BY <1>3 DEF Sound, Binary
  <2>3. QED
    BY <1>1, <2>1, <2>2
<1>4. CASE n.op = "mul"
  <2>1. Len(n.needs) = 2 /\ Len(n.ins) = 2
    BY <1>4 DEF Sound, Binary
  <2>9. 1 \in 1..Len(n.ins) /\ 2 \in 1..Len(n.ins)
    BY <2>1
  <2>2. Slope(n, 1) \in Int /\ Slope(n, 2) \in Int
    BY <2>9, SlopeType
  <2>3. g * Slope(n, 1) \in Int /\ g * Slope(n, 2) \in Int
    BY <2>2
  <2>4. n.needs[1] \in BOOLEAN /\ n.needs[2] \in BOOLEAN
    BY <2>1, NodeParts
  <2>5. CASE n.needs[1] /\ n.needs[2]
    <3>1. c = [new |-> <<g * Slope(n, 1), g * Slope(n, 2)>>,
               bufs |-> <<Len(mem) + 1, Len(mem) + 2>>]
      BY <1>4, <2>5 DEF Contribution
    <3>2. QED
      BY <1>1, <2>1, <2>3, <3>1
  <2>6. CASE n.needs[1] /\ ~n.needs[2]
    <3>1. c = [new |-> <<g * Slope(n, 1)>>, bufs |-> <<Len(mem) + 1, NoBuf>>]
      BY <1>4, <2>6 DEF Contribution
    <3>2. QED
      BY <1>1, <2>1, <2>3, <2>6, <3>1
  <2>7. CASE ~n.needs[1]
    <3>1. c = [new |-> <<g * Slope(n, 2)>>, bufs |-> <<NoBuf, Len(mem) + 1>>]
      BY <1>4, <2>7 DEF Contribution
    <3>2. QED
      BY <1>1, <2>1, <2>3, <2>7, <3>1
  <2>8. QED
    BY <2>4, <2>5, <2>6, <2>7
<1>5. CASE n.op \in {"scale", "relu"}
  <2>1. Len(n.ins) = 1 /\ n.needs = <<TRUE>>
    BY <1>5 DEF Sound, Unary
  <2>6. 1 \in 1..Len(n.ins)
    BY <2>1
  <2>2. Slope(n, 1) \in Int
    BY <2>6, SlopeType
  <2>3. c = [new |-> <<g * Slope(n, 1)>>, bufs |-> <<Len(mem) + 1>>]
    BY <1>5 DEF Contribution
  <2>4. g * Slope(n, 1) \in Int
    BY <2>2
  <2>5. QED
    BY <1>1, <2>1, <2>3, <2>4
<1>6. CASE n.op = "cross_entropy"
  <2>1. n.needs = <<TRUE>> /\ n.saved # NoBuf
    BY <1>6 DEF Sound, Unary
  <2>2. c = [new |-> << >>, bufs |-> <<n.saved>>]
    BY <1>6 DEF Contribution
  <2>3. QED
    BY <2>1, <2>2
<1>7. QED
  BY <1>2, <1>3, <1>4, <1>5, <1>6

\* The walk hands out the buffers of the operands that need a gradient.
LEMMA PairLemma ==
  ASSUME NEW S, NEW x \in S, NEW y \in S
  PROVE  /\ <<x>> \o <<y>> \in Seq(S) /\ Len(<<x>> \o <<y>>) = 2
         /\ (<<x>> \o <<y>>)[1] = x /\ (<<x>> \o <<y>>)[2] = y
<1>1. /\ <<x>> \in Seq(S) /\ Len(<<x>>) = 1 /\ <<x>>[1] = x
      /\ <<y>> \in Seq(S) /\ Len(<<y>>) = 1 /\ <<y>>[1] = y
  OBVIOUS
<1>2. QED
  BY <1>1, ConcatProperties

LEMMA WantedLemma ==
  ASSUME NEW n \in NodeType, NEW t, NEW m, Sound(n, t, m), NEW bufs,
         \A j \in 1..Len(n.needs) : n.needs[j] => bufs[j] \in Nat \ {0}
  PROVE  /\ Wanted(n, bufs) \in Seq(Todo)
         /\ \A k \in 1..Len(Wanted(n, bufs)) : \E j \in 1..Len(n.needs) :
              n.needs[j] /\ Wanted(n, bufs)[k].buf = bufs[j]
<1> DEFINE w(j) == [to |-> n.ins[j], buf |-> bufs[j]]
<1>1. \A j \in 1..Len(n.needs) : n.needs[j] => w(j) \in Todo
  BY NodeParts DEF Todo
<1>2. CASE n.op \in Binary
  <2>8. Len(n.needs) = 2
    BY <1>2 DEF Sound
  <2>9. 1 \in 1..Len(n.needs) /\ 2 \in 1..Len(n.needs)
    BY <2>8
  <2>1. Len(n.needs) = 2 /\ n.needs[1] \in BOOLEAN /\ n.needs[2] \in BOOLEAN
    BY <2>8, <2>9, NodeParts
  <2>2. Wanted(n, bufs) = (IF n.needs[1] THEN <<w(1)>> ELSE << >>)
                            \o (IF n.needs[2] THEN <<w(2)>> ELSE << >>)
    BY <1>2 DEF Wanted
  <2> HIDE DEF w
  <2>3. CASE n.needs[1] /\ n.needs[2]
    <3>1. Wanted(n, bufs) = <<w(1)>> \o <<w(2)>>
      BY <2>2, <2>3
    <3>2. w(1) \in Todo /\ w(2) \in Todo
      BY <1>1, <2>9, <2>3
    <3>3. /\ Wanted(n, bufs) \in Seq(Todo) /\ Len(Wanted(n, bufs)) = 2
          /\ Wanted(n, bufs)[1] = w(1) /\ Wanted(n, bufs)[2] = w(2)
      BY <3>1, <3>2, PairLemma
    <3>4. w(1).buf = bufs[1] /\ w(2).buf = bufs[2]
      BY DEF w
    <3>5. QED
      BY <2>3, <2>9, <3>3, <3>4
  <2>4. CASE n.needs[1] /\ ~n.needs[2]
    <3>1. Wanted(n, bufs) = <<w(1)>>
      BY <2>2, <2>4
    <3>2. QED
      BY <1>1, <2>1, <2>4, <3>1 DEF w
  <2>5. CASE ~n.needs[1] /\ n.needs[2]
    <3>1. Wanted(n, bufs) = <<w(2)>>
      BY <2>2, <2>5
    <3>2. QED
      BY <1>1, <2>1, <2>5, <3>1 DEF w
  <2>6. CASE ~n.needs[1] /\ ~n.needs[2]
    BY <2>2, <2>6
  <2>7. QED
    BY <2>1, <2>3, <2>4, <2>5, <2>6
<1>3. CASE n.op \notin Binary
  <2>1. n.needs = <<TRUE>>
    BY <1>3, NodeParts DEF Sound
  <2>5. n.needs[1]
    BY <2>1
  <2>2. Wanted(n, bufs) = <<w(1)>>
    BY <1>3, <2>5 DEF Wanted
  <2>6. 1 \in 1..Len(n.needs)
    BY <2>1
  <2>3. w(1) \in Todo
    BY <1>1, <2>5, <2>6
  <2> HIDE DEF w
  <2>7. Len(<<w(1)>>) = 1 /\ <<w(1)>>[1] = w(1)
    OBVIOUS
  <2>8. w(1).buf = bufs[1]
    BY DEF w
  <2>4. QED
    BY <2>2, <2>3, <2>5, <2>6, <2>7, <2>8
<1>4. QED
  BY <1>2, <1>3


-----------------------------------------------------------------------------
IInv == TapeTypes /\ Held

\* The facts about the bounds that the steps use.
LEMMA Bounds ==
  /\ Parameters \subseteq Ids
  /\ MaxTensors \in Nat /\ Len(LeafValues) \in Nat
  /\ NoBuf = 0 /\ AtRest.on = FALSE /\ AtRest.node = 0 /\ AtRest.todo = << >>
<1>1. LeafValues \in Seq(Int) /\ MaxTensors \in Nat /\ Len(LeafValues) <= MaxTensors
  BY BoundAssumption
<1>2. QED
  BY <1>1 DEF Parameters, Ids, NoBuf, AtRest

LEMMA FunctionIsSequence ==
  ASSUME NEW S, NEW n \in Nat, NEW f \in [1..n -> S]
  PROVE  f \in Seq(S) /\ Len(f) = n
BY SeqDef, LenProperties

LEMMA InitHolds == Init => IInv
<1> SUFFICES ASSUME Init PROVE IInv
  OBVIOUS
<1>1. PICK marked \in SUBSET Parameters :
        tensors = [p \in Parameters |-> [val |-> LeafValues[p], req |-> p \in marked]]
  BY DEF Init
<1>2. /\ tensors \in Seq([val : Int, req : BOOLEAN])
      /\ Len(tensors) = Len(LeafValues)
  <2>1. LeafValues \in Seq(Int) /\ Len(LeafValues) \in Nat
    BY BoundAssumption
  <2>2. \A p \in 1..Len(LeafValues) : LeafValues[p] \in Int
    BY <2>1, ElementOfSeq
  <2>3. tensors \in [1..Len(LeafValues) -> [val : Int, req : BOOLEAN]]
    BY <1>1, <2>2 DEF Parameters
  <2>4. QED
    BY <2>1, <2>3, FunctionIsSequence
<1>3. /\ mem = << >> /\ tape = << >>
      /\ registry = [t \in Ids |-> NoBuf] /\ grad = [t \in Ids |-> NoBuf]
      /\ pass = AtRest /\ kept = [p \in Parameters |-> << >>]
  BY DEF Init
<1>4. TapeTypes
  BY <1>2, <1>3, BoundAssumption DEF TapeTypes, AtRest, NoBuf
<1>5. Held
  BY <1>3 DEF Held
<1>6. QED
  BY <1>4, <1>5 DEF IInv

\* A node stays sound as the tensors and the buffers grow.
LEMMA SoundGrows ==
  ASSUME NEW n \in NodeType, NEW t \in Nat, NEW m \in Nat, Sound(n, t, m),
         NEW t2 \in Nat, NEW m2 \in Nat, t <= t2, m <= m2
  PROVE  Sound(n, t2, m2)
<1>1. n.saved \in Nat /\ \A j \in 1..Len(n.ins) : n.ins[j] \in Int
  <2>1. n.saved \in Nat /\ \A j \in 1..Len(n.ins) : n.ins[j] \in Ids
    BY NodeParts
  <2>2. QED
    BY <2>1 DEF Ids
<1>2. n.saved <= m2 /\ \A j \in 1..Len(n.ins) : n.ins[j] <= t2
  BY <1>1 DEF Sound
<1>3. QED
  BY <1>2 DEF Sound

\* A step that leaves the graph and the buffers alone.
LEMMA QuietHolds ==
  ASSUME IInv, UNCHANGED <<tensors, tape, registry, grad, mem, pass, kept>>
  PROVE  IInv'
BY DEF IInv, TapeTypes, Held

-----------------------------------------------------------------------------
LEMMA ForwardHolds ==
  ASSUME IInv, NEW op \in Binary \cup Unary, NEW ins \in Seq(DOMAIN tensors),
         op \in Binary => Len(ins) = 2, op \in Unary => Len(ins) = 1,
         Forward(op, ins)
  PROVE  IInv'
<1> DEFINE t == Len(tensors)
           m == Len(mem)
<1>1. /\ tensors \in Seq([val : Int, req : BOOLEAN]) /\ t \in Nat
      /\ mem \in Seq(Int) /\ m \in Nat
      /\ tape \in Seq(NodeType) /\ Len(tape) \in Nat
      /\ DOMAIN tensors = 1..t
  BY DEF IInv, TapeTypes
<1>2. /\ t < MaxTensors /\ ~pass.on
      /\ tensors' = Append(tensors, [val |-> Value(op, ins),
                                     req |-> OutputTracked(op, ins)])
      /\ UNCHANGED <<registry, grad, pass, kept>>
  BY DEF Forward, past, debts
<1>3. /\ \/ UNCHANGED <<tape, mem>>
         \/ /\ op = "cross_entropy"
            /\ mem' = Append(mem, LossSlope(tensors[ins[1]].val))
            /\ tape' = Append(tape, Node(op, ins, m + 1))
         \/ /\ op # "cross_entropy"
            /\ mem' = mem
            /\ tape' = Append(tape, Node(op, ins, NoBuf))
  BY DEF Forward
<1>4. ins \in Seq(1..t) /\ \A j \in 1..Len(ins) : ins[j] \in 1..t
  BY <1>1, ElementOfSeq
<1>5. \A j \in 1..Len(ins) : /\ tensors[ins[j]].val \in Int
                             /\ tensors[ins[j]].req \in BOOLEAN
  <2>1. \A k \in 1..t : tensors[k] \in [val : Int, req : BOOLEAN]
    BY <1>1, ElementOfSeq
  <2>2. QED
    BY <1>4, <2>1
<1>6. Value(op, ins) \in Int
  <2>1. CASE op \in Binary
    <3>1. 1 \in 1..Len(ins) /\ 2 \in 1..Len(ins)
      BY <2>1
    <3>2. QED
      BY <1>5, <2>1, <3>1 DEF Value, Binary
  <2>2. CASE op \in Unary
    <3>1. 1 \in 1..Len(ins)
      BY <2>2
    <3>2. QED
      BY <1>5, <2>2, <3>1 DEF Value, Unary, Factor
  <2>3. QED
    BY <2>1, <2>2
<1>7. /\ tensors' \in Seq([val : Int, req : BOOLEAN])
      /\ Len(tensors') = t + 1
  <2>1. OutputTracked(op, ins) \in BOOLEAN
    BY DEF OutputTracked, Tracked
  <2>2. [val |-> Value(op, ins), req |-> OutputTracked(op, ins)]
          \in [val : Int, req : BOOLEAN]
    BY <1>6, <2>1
  <2>3. QED
    BY <1>1, <1>2, <2>2, AppendProperties
<1>8. ASSUME NEW saved \in Nat, NEW b \in Nat, saved <= b, op = "cross_entropy" => saved # NoBuf
      PROVE  /\ Node(op, ins, saved) \in NodeType
             /\ Sound(Node(op, ins, saved), t + 1, b)
             /\ Node(op, ins, saved).saved = saved
  <2> DEFINE n == Node(op, ins, saved)
  <2>1. /\ n.op = op /\ n.out = t + 1 /\ n.ins = ins /\ n.saved = saved
        /\ n.live = TRUE
        /\ n.needs = IF op \in Binary THEN [j \in 1..2 |-> tensors[ins[j]].req]
                                      ELSE <<TRUE>>
        /\ n = [op |-> n.op, out |-> n.out, ins |-> n.ins, needs |-> n.needs,
                live |-> n.live, saved |-> n.saved]
    BY DEF Node
  <2>2. t + 1 \in Ids
    BY <1>1, <1>2, Bounds DEF Ids
  <2>3. ins \in Seq(Ids)
    <3>1. 1..t \subseteq Ids
      BY <1>1, <1>2, Bounds DEF Ids
    <3>2. QED
      BY <1>4, <3>1
  <2>4. n.needs \in Seq(BOOLEAN) /\ (op \in Binary => Len(n.needs) = 2)
    <3>1. CASE op \in Binary
      <4>1. [j \in 1..2 |-> tensors[ins[j]].req] \in [1..2 -> BOOLEAN]
        BY <1>5, <3>1
      <4>2. QED
        BY <2>1, <3>1, <4>1, SeqDef, LenProperties
    <3>2. CASE op \notin Binary
      BY <2>1, <3>2
    <3>3. QED
      BY <3>1, <3>2
  <2>5. Binary \cap Unary = {}
    BY DEF Binary, Unary
  <2> HIDE DEF n
  <2>6. n \in NodeType
    BY <2>1, <2>2, <2>3, <2>4 DEF NodeType
  <2>7. \A j \in 1..Len(ins) : ins[j] <= t + 1
    BY <1>1, <1>4
  <2>8. Sound(n, t + 1, b)
    BY <1>8, <2>1, <2>4, <2>5, <2>7 DEF Sound
  <2>9. QED
    BY <2>1, <2>6, <2>8 DEF n
<1>9. /\ mem' \in Seq(Int) /\ Len(mem') \in {m, m + 1}
      /\ \A b \in 1..m : mem'[b] = mem[b]
      /\ tape' \in Seq(NodeType) /\ Len(tape') \in Nat /\ Len(tape) <= Len(tape')
      /\ \A i \in 1..Len(tape') :
           \/ i \in 1..Len(tape) /\ tape'[i] = tape[i]
           \/ /\ Sound(tape'[i], t + 1, Len(mem'))
              /\ tape'[i].saved \in {NoBuf, m + 1}
  <2>1. CASE UNCHANGED <<tape, mem>>
    BY <1>1, <2>1
  <2>2. CASE /\ op = "cross_entropy"
             /\ mem' = Append(mem, LossSlope(tensors[ins[1]].val))
             /\ tape' = Append(tape, Node(op, ins, m + 1))
    <3>7. op \in Unary
      BY <2>2 DEF Unary
    <3>1. 1 \in 1..Len(ins)
      BY <3>7
    <3>2. LossSlope(tensors[ins[1]].val) \in Int
      BY <1>5, <3>1 DEF LossSlope
    <3>3. /\ mem' \in Seq(Int) /\ Len(mem') = m + 1
          /\ \A b \in 1..m : mem'[b] = mem[b]
      BY <1>1, <2>2, <3>2, AppendProperties
    <3>4. /\ Node(op, ins, m + 1) \in NodeType
          /\ Sound(Node(op, ins, m + 1), t + 1, m + 1)
          /\ Node(op, ins, m + 1).saved = m + 1
      BY <1>1, <1>8 DEF NoBuf
    <3> HIDE DEF t, m
    <3>5. /\ tape' \in Seq(NodeType) /\ Len(tape') = Len(tape) + 1
          /\ \A i \in 1..Len(tape) : tape'[i] = tape[i]
          /\ tape'[Len(tape) + 1] = Node(op, ins, m + 1)
      BY <1>1, <2>2, <3>4, AppendProperties
    <3>6. \A i \in 1..Len(tape') :
            i \in 1..Len(tape) \/ tape'[i] = Node(op, ins, m + 1)
      BY <1>1, <3>5
    <3>8. Sound(Node(op, ins, m + 1), t + 1, Len(mem'))
      BY <3>3, <3>4
    <3>9. QED
      BY <1>1, <3>3, <3>4, <3>5, <3>6, <3>8
  <2>3. CASE /\ op # "cross_entropy"
             /\ mem' = mem
             /\ tape' = Append(tape, Node(op, ins, NoBuf))
    <3>1. /\ Node(op, ins, NoBuf) \in NodeType
          /\ Sound(Node(op, ins, NoBuf), t + 1, m)
          /\ Node(op, ins, NoBuf).saved = NoBuf
      BY <1>1, <1>8, <2>3 DEF NoBuf
    <3> HIDE DEF t, m
    <3>3. /\ tape' \in Seq(NodeType) /\ Len(tape') = Len(tape) + 1
          /\ \A i \in 1..Len(tape) : tape'[i] = tape[i]
          /\ tape'[Len(tape) + 1] = Node(op, ins, NoBuf)
      BY <1>1, <2>3, <3>1, AppendProperties
    <3>4. Len(mem') = m
      BY <2>3 DEF m
    <3>6. \A i \in 1..Len(tape') :
            i \in 1..Len(tape) \/ tape'[i] = Node(op, ins, NoBuf)
      BY <1>1, <3>3
    <3>8. Sound(Node(op, ins, NoBuf), t + 1, Len(mem'))
      BY <3>1, <3>4
    <3>9. QED
      BY <1>1, <2>3, <3>1, <3>3, <3>4, <3>6, <3>8
  <2>4. QED
    BY <1>3, <2>1, <2>2, <2>3
<1>10. \A i \in 1..Len(tape') : Sound(tape'[i], Len(tensors'), Len(mem'))
  <2> SUFFICES ASSUME NEW i \in 1..Len(tape')
               PROVE  Sound(tape'[i], Len(tensors'), Len(mem'))
    OBVIOUS
  <2>1. CASE i \in 1..Len(tape) /\ tape'[i] = tape[i]
    <3>1. tape[i] \in NodeType /\ Sound(tape[i], t, m)
      BY <1>1, <2>1, ElementOfSeq DEF IInv, TapeTypes
    <3>2. Len(mem') \in Nat /\ m <= Len(mem')
      BY <1>1, <1>9
    <3>3. t + 1 \in Nat /\ t <= t + 1
      BY <1>1
    <3> HIDE DEF t, m
    <3>4. Sound(tape[i], t + 1, Len(mem'))
      BY <1>1, <3>1, <3>2, <3>3, SoundGrows
    <3>5. QED
      BY <1>7, <2>1, <3>4
  <2>2. QED
    BY <1>7, <1>9, <2>1
<1>11. TapeTypes'
  <2>1. registry \in [Ids -> 0..m] /\ grad \in [Ids -> 0..m] /\ pass = AtRest
    BY <1>2 DEF IInv, TapeTypes
  <2>2. 0..m \subseteq 0..Len(mem')
    BY <1>1, <1>9
  <2>3. registry' \in [Ids -> 0..Len(mem')] /\ grad' \in [Ids -> 0..Len(mem')]
    BY <1>2, <2>1, <2>2
  <2>4. /\ pass' \in [on : BOOLEAN, node : Nat, todo : Seq(Todo)]
        /\ pass'.node = 0 /\ pass'.todo = << >> /\ pass' = AtRest
    BY <1>2, <2>1 DEF AtRest
  <2>5. Len(LeafValues) <= Len(tensors') /\ Len(tensors') <= MaxTensors
    <3>1. Len(LeafValues) <= t
      BY DEF IInv, TapeTypes
    <3>2. QED
      BY <1>1, <1>2, <1>7, <3>1, Bounds
  <2>6. kept' \in [Parameters -> Seq(Int)]
    BY <1>2 DEF IInv, TapeTypes
  <2>7. QED
    BY <1>7, <1>9, <1>10, <2>3, <2>4, <2>5, <2>6 DEF TapeTypes
<1>12. Held'
  <2> SUFFICES ASSUME NEW p \in Parameters, kept'[p] # << >>
               PROVE  /\ grad'[p] # NoBuf
                      /\ kept'[p] = <<mem'[grad'[p]]>>
                      /\ \A u \in Ids : registry'[u] # grad'[p]
                      /\ \A i \in 1..Len(tape') : tape'[i].saved # grad'[p]
                      /\ \A k \in 1..Len(pass'.todo) : pass'.todo[k].buf # grad'[p]
    BY DEF Held
  <2>1. /\ grad[p] # NoBuf /\ kept[p] = <<mem[grad[p]]>>
        /\ \A u \in Ids : registry[u] # grad[p]
        /\ \A i \in 1..Len(tape) : tape[i].saved # grad[p]
        /\ \A k \in 1..Len(pass.todo) : pass.todo[k].buf # grad[p]
    BY <1>2 DEF IInv, Held
  <2>2. grad[p] \in 1..m
    <3>1. grad[p] \in 0..m
      BY Bounds DEF IInv, TapeTypes
    <3>2. QED
      BY <1>1, <2>1, <3>1, Bounds
  <2>3. \A i \in 1..Len(tape') : tape'[i].saved # grad[p]
    <3> SUFFICES ASSUME NEW i \in 1..Len(tape')
                 PROVE  tape'[i].saved # grad[p]
      OBVIOUS
    <3>1. CASE i \in 1..Len(tape) /\ tape'[i] = tape[i]
      BY <2>1, <3>1
    <3>2. CASE tape'[i].saved \in {NoBuf, m + 1}
      <4> HIDE DEF m
      <4>1. NoBuf # grad[p] /\ m + 1 # grad[p]
        BY <1>1, <2>1, <2>2
      <4>2. QED
        BY <3>2, <4>1
    <3>3. QED
      BY <1>9, <3>1, <3>2
  <2>4. QED
    BY <1>2, <1>9, <2>1, <2>2, <2>3
<1>13. QED
  BY <1>11, <1>12 DEF IInv

LEMMA SetRequiresGradHolds ==
  ASSUME IInv, NEW u \in DOMAIN tensors, SetRequiresGrad(u)
  PROVE  IInv'
<1>1. /\ tensors \in Seq([val : Int, req : BOOLEAN])
      /\ tensors' = [tensors EXCEPT ![u].req = TRUE]
      /\ UNCHANGED <<tape, registry, grad, mem, pass, kept>>
  BY DEF SetRequiresGrad, grads, past, debts, IInv, TapeTypes
<1>2. tensors' \in Seq([val : Int, req : BOOLEAN]) /\ Len(tensors') = Len(tensors)
  <2> DEFINE T == [val : Int, req : BOOLEAN]
             marked == [tensors[u] EXCEPT !.req = TRUE]
  <2>1. tensors \in Seq(T) /\ DOMAIN tensors = 1..Len(tensors)
    BY <1>1
  <2>2. u \in 1..Len(tensors)
    BY <2>1
  <2>3. tensors[u] \in T
    <3> HIDE DEF T
    <3>1. QED
      BY <2>1, <2>2, ElementOfSeq
  <2>4. marked \in T
    BY <2>3
  <2>5. tensors' = [tensors EXCEPT ![u] = marked]
    BY <1>1
  <2>6. tensors' \in Seq(T) /\ Len(tensors') = Len(tensors)
    <3> HIDE DEF T, marked
    <3>1. QED
      BY <2>1, <2>2, <2>4, <2>5, ExceptSeq
  <2>7. QED
    BY <2>6
<1>3. TapeTypes'
  BY <1>1, <1>2 DEF IInv, TapeTypes
<1>4. Held'
  BY <1>1 DEF IInv, Held
<1>5. QED
  BY <1>3, <1>4 DEF IInv

\* The facts about a held gradient, and that its buffer is allocated.
LEMMA HeldFacts ==
  ASSUME IInv, NEW p \in Parameters, kept[p] # << >>
  PROVE  /\ p \in Ids /\ grad[p] \in 1..Len(mem) /\ kept[p] = <<mem[grad[p]]>>
         /\ \A t \in Ids : registry[t] # grad[p]
         /\ \A i \in 1..Len(tape) : tape[i].saved # grad[p]
         /\ \A k \in 1..Len(pass.todo) : pass.todo[k].buf # grad[p]
<1>1. p \in Ids /\ grad[p] \in 0..Len(mem) /\ Len(mem) \in Nat
  BY Bounds DEF IInv, TapeTypes
<1>2. grad[p] # 0
  BY Bounds DEF IInv, Held
<1>3. grad[p] \in 1..Len(mem)
  BY <1>1, <1>2
<1>4. QED
  BY <1>1, <1>3 DEF IInv, Held

LEMMA BackwardHolds ==
  ASSUME IInv, NEW loss \in Outputs, NEW seed \in Int, Backward(loss, seed)
  PROVE  IInv'
<1> DEFINE m == Len(mem)
<1>1. /\ mem \in Seq(Int) /\ m \in Nat /\ Len(tape) \in Nat
      /\ registry \in [Ids -> 0..m] /\ grad \in [Ids -> 0..m]
  BY DEF IInv, TapeTypes
<1>2. /\ mem' = Append(mem, seed)
      /\ grad' = [grad EXCEPT ![loss] = m + 1]
      /\ registry' = [registry EXCEPT ![loss] = m + 1]
      /\ pass' = [on |-> TRUE, node |-> Len(tape), todo |-> << >>]
      /\ UNCHANGED <<tensors, tape, kept>>
  BY DEF Backward, graph
<1>3. mem' \in Seq(Int) /\ Len(mem') = m + 1 /\ \A b \in 1..m : mem'[b] = mem[b]
  BY <1>1, <1>2, AppendProperties
<1> HIDE DEF m
<1>4. registry' \in [Ids -> 0..m + 1] /\ grad' \in [Ids -> 0..m + 1]
  <2>1. 0..m \subseteq 0..m + 1 /\ m + 1 \in 0..m + 1
    BY <1>1
  <2>2. QED
    BY <1>1, <1>2, <2>1
<1>5. \A i \in 1..Len(tape) : Sound(tape[i], Len(tensors), m + 1)
  <2>1. Len(tensors) \in Nat /\ tape \in Seq(NodeType)
        /\ \A i \in 1..Len(tape) : Sound(tape[i], Len(tensors), m)
    BY DEF IInv, TapeTypes, m
  <2>2. m + 1 \in Nat /\ m <= m + 1 /\ Len(tensors) <= Len(tensors)
    BY <1>1, <2>1
  <2>3. QED
    BY <1>1, <2>1, <2>2, ElementOfSeq, SoundGrows
<1>6. TapeTypes'
  <2>1. /\ pass' \in [on : BOOLEAN, node : Nat, todo : Seq(Todo)]
        /\ pass'.node = Len(tape) /\ pass'.todo = << >> /\ pass'.on
    BY <1>1, <1>2
  <2>2. QED
    BY <1>1, <1>2, <1>3, <1>4, <1>5, <2>1 DEF IInv, TapeTypes
<1>7. Held'
  <2> SUFFICES ASSUME NEW p \in Parameters, kept'[p] # << >>
               PROVE  /\ grad'[p] # NoBuf
                      /\ kept'[p] = <<mem'[grad'[p]]>>
                      /\ \A t \in Ids : registry'[t] # grad'[p]
                      /\ \A i \in 1..Len(tape') : tape'[i].saved # grad'[p]
                      /\ \A k \in 1..Len(pass'.todo) : pass'.todo[k].buf # grad'[p]
    BY DEF Held
  <2>1. /\ p \in Ids /\ grad[p] \in 1..m /\ kept[p] = <<mem[grad[p]]>>
        /\ \A t \in Ids : registry[t] # grad[p]
        /\ \A i \in 1..Len(tape) : tape[i].saved # grad[p]
    BY <1>2, HeldFacts DEF m
  <2>2. loss # p
    BY DEF Outputs
  <2>3. grad'[p] = grad[p] /\ grad[p] # m + 1 /\ grad[p] # NoBuf
    BY <1>1, <1>2, <2>1, <2>2, Bounds
  <2>4. \A t \in Ids : registry'[t] # grad[p]
    BY <1>1, <1>2, <2>1, <2>3
  <2>5. Len(pass'.todo) = 0
    BY <1>2
  <2>6. kept'[p] = <<mem'[grad'[p]]>>
    BY <1>2, <1>3, <2>1, <2>3
  <2>7. \A k \in 1..Len(pass'.todo) : pass'.todo[k].buf # grad'[p]
    BY <2>5
  <2>8. \A i \in 1..Len(tape') : tape'[i].saved # grad'[p]
    <3>1. tape' = tape
      BY <1>2
    <3>2. QED
      BY <2>1, <2>3, <3>1
  <2>9. \A t \in Ids : registry'[t] # grad'[p]
    BY <2>3, <2>4
  <2>10. QED
    BY <2>3, <2>6, <2>7, <2>8, <2>9
<1>8. QED
  BY <1>6, <1>7 DEF IInv

-----------------------------------------------------------------------------
\* Taking a closure changes nothing else in the tape.
LEMMA SpendLemma ==
  ASSUME tape \in Seq(NodeType), pass.node \in 1..Len(tape), Spend
  PROVE  /\ tape' \in Seq(NodeType) /\ Len(tape') = Len(tape)
         /\ \A i \in 1..Len(tape), t, m \in Nat :
              /\ tape'[i].saved = tape[i].saved
              /\ Sound(tape[i], t, m) => Sound(tape'[i], t, m)
<1>1. tape' = [tape EXCEPT ![pass.node].live = FALSE]
  BY DEF Spend
<1>2. \A i \in 1..Len(tape) : tape[i] \in NodeType
  BY ElementOfSeq
<1>3. \A n \in NodeType : /\ [n EXCEPT !.live = FALSE] \in NodeType
                          /\ [n EXCEPT !.live = FALSE].op = n.op
                          /\ [n EXCEPT !.live = FALSE].ins = n.ins
                          /\ [n EXCEPT !.live = FALSE].needs = n.needs
                          /\ [n EXCEPT !.live = FALSE].saved = n.saved
  BY DEF NodeType
<1>4. /\ tape' \in Seq(NodeType) /\ Len(tape') = Len(tape)
      /\ \A i \in 1..Len(tape) :
           tape'[i] = tape[i] \/ tape'[i] = [tape[i] EXCEPT !.live = FALSE]
  <2> DEFINE spent == [tape[pass.node] EXCEPT !.live = FALSE]
  <2>1. spent \in NodeType
    BY <1>2, <1>3
  <2>2. tape' = [tape EXCEPT ![pass.node] = spent]
    BY <1>1
  <2>3. /\ tape' \in Seq(NodeType) /\ Len(tape') = Len(tape)
        /\ \A i \in 1..Len(tape) :
             tape'[i] = IF i = pass.node THEN spent ELSE tape[i]
    <3> HIDE DEF spent
    <3>1. QED
      BY <2>1, <2>2, ExceptSeq
  <2>4. QED
    BY <2>3
<1>5. \A i \in 1..Len(tape) : /\ tape'[i] \in NodeType
                              /\ tape'[i].op = tape[i].op
                              /\ tape'[i].ins = tape[i].ins
                              /\ tape'[i].needs = tape[i].needs
                              /\ tape'[i].saved = tape[i].saved
  BY <1>2, <1>3, <1>4
<1>6. QED
  BY <1>4, <1>5 DEF Sound

LEMMA SkipNodeHolds ==
  ASSUME IInv, SkipNode
  PROVE  IInv'
<1>1. /\ Spend /\ pass.on /\ pass.node > 0 /\ pass' = [pass EXCEPT !.node = @ - 1]
      /\ UNCHANGED <<tensors, registry, grad, mem, kept>>
  BY DEF SkipNode, AtNode, grads, past, debts
<1>2. /\ tape \in Seq(NodeType) /\ Len(tensors) \in Nat /\ Len(mem) \in Nat
      /\ pass \in [on : BOOLEAN, node : Nat, todo : Seq(Todo)]
      /\ pass.node <= Len(tape) /\ Len(tape) \in Nat
  BY DEF IInv, TapeTypes
<1>8. pass.node \in 1..Len(tape)
  <2>1. pass.node \in Nat
    BY <1>2
  <2>2. QED
    BY <1>1, <1>2, <2>1
<1>3. /\ pass' \in [on : BOOLEAN, node : Nat, todo : Seq(Todo)]
      /\ pass'.on /\ pass'.node <= Len(tape) /\ pass'.todo = pass.todo
  <2>1. pass.node - 1 \in Nat /\ pass.node - 1 <= Len(tape)
    BY <1>2, <1>8
  <2>2. QED
    BY <1>1, <1>2, <2>1
<1>4. /\ tape' \in Seq(NodeType) /\ Len(tape') = Len(tape)
      /\ \A i \in 1..Len(tape) : tape'[i].saved = tape[i].saved
      /\ \A i \in 1..Len(tape) : Sound(tape'[i], Len(tensors), Len(mem))
  BY <1>1, <1>2, <1>8, SpendLemma DEF IInv, TapeTypes
<1>5. TapeTypes'
  BY <1>1, <1>3, <1>4 DEF IInv, TapeTypes
<1>6. Held'
  BY <1>1, <1>3, <1>4 DEF IInv, Held
<1>7. QED
  BY <1>5, <1>6 DEF IInv

LEMMA CallClosureHolds ==
  ASSUME IInv, CallClosure
  PROVE  IInv'
<1> DEFINE n == tape[pass.node]
           g == mem[registry[n.out]]
           c == Contribution(n, g)
           w == Wanted(n, c.bufs)
           m == Len(mem)
<1>1. /\ Spend /\ pass.on /\ pass.node > 0
      /\ registry[n.out] # NoBuf
      /\ mem' = mem \o c.new
      /\ pass' = [pass EXCEPT !.node = @ - 1, !.todo = w]
      /\ UNCHANGED <<tensors, registry, grad, kept>>
  BY DEF CallClosure, AtNode, Skippable, debts
<1>2. /\ tape \in Seq(NodeType) /\ Len(tensors) \in Nat /\ mem \in Seq(Int)
      /\ m \in Nat /\ registry \in [Ids -> 0..m]
      /\ pass \in [on : BOOLEAN, node : Nat, todo : Seq(Todo)]
      /\ pass.node <= Len(tape) /\ Len(tape) \in Nat
      /\ \A i \in 1..Len(tape) : Sound(tape[i], Len(tensors), m)
  BY DEF IInv, TapeTypes
<1>3. pass.node \in 1..Len(tape) /\ pass.node \in Nat
  <2>1. pass.node \in Nat /\ pass.node <= Len(tape)
    BY <1>2
  <2>2. pass.node > 0
    BY <1>1
  <2> HIDE DEF n, g, c, w, m
  <2>3. QED
    BY <2>1, <2>2
<1>4. n \in NodeType /\ Sound(n, Len(tensors), m)
  BY <1>2, <1>3, ElementOfSeq
<1>5. g \in Int
  <2>1. n.out \in Ids
    BY <1>4 DEF NodeType
  <2>4. registry[n.out] \in 0..m
    BY <1>2, <2>1
  <2>5. registry[n.out] # 0 /\ m \in Nat /\ mem \in Seq(Int)
    BY <1>1, <1>2 DEF NoBuf
  <2> HIDE DEF n
  <2>2. registry[n.out] \in 1..Len(mem)
    BY <2>4, <2>5
  <2>3. QED
    BY <2>2, <2>5, ElementOfSeq
<1> DEFINE Returned(b) == \/ b \in m + 1..m + Len(c.new)
                          \/ b = n.saved /\ n.saved # NoBuf
<1>6. /\ c.new \in Seq(Int) /\ Len(c.new) \in Nat
      /\ \A j \in 1..Len(n.needs) : n.needs[j] => Returned(c.bufs[j])
  <2>1. TapeTypes /\ Sound(n, Len(tensors), Len(mem)) /\ n \in NodeType
    BY <1>4 DEF IInv
  <2> HIDE DEF n, g
  <2>2. QED
    BY <1>5, <2>1, ContributionLemma
<1>7. n.saved \in 0..m
  <2>1. n.saved \in Nat /\ n.saved <= m
    BY <1>4, NodeParts DEF Sound
  <2> HIDE DEF n, m
  <2>2. QED
    BY <1>2, <2>1
<1> HIDE DEF n, g, c, m
<1>8. /\ mem' \in Seq(Int) /\ Len(mem') = m + Len(c.new)
      /\ \A b \in 1..m : mem'[b] = mem[b]
  <2>1. /\ mem \o c.new \in Seq(Int) /\ Len(mem \o c.new) = Len(mem) + Len(c.new)
        /\ \A b \in 1..Len(mem) + Len(c.new) : (mem \o c.new)[b] =
             IF b <= Len(mem) THEN mem[b] ELSE c.new[b - Len(mem)]
    BY <1>2, <1>6, ConcatProperties
  <2>2. QED
    BY <1>1, <1>2, <1>6, <2>1 DEF m
<1>9. \A b : Returned(b) => b \in 1..m + Len(c.new)
  BY <1>2, <1>6, <1>7, Bounds
<1>10. /\ w \in Seq(Todo) /\ Len(w) \in Nat
       /\ \A k \in 1..Len(w) : Returned(w[k].buf)
  <2> HIDE DEF Returned
  <2>1. \A j \in 1..Len(n.needs) : n.needs[j] => c.bufs[j] \in Nat \ {0}
    <3>1. \A b \in 1..m + Len(c.new) : b \in Nat \ {0}
      BY <1>2, <1>6
    <3>2. QED
      BY <1>6, <1>9, <3>1
  <2>2. /\ w \in Seq(Todo)
        /\ \A k \in 1..Len(w) : \E j \in 1..Len(n.needs) :
             n.needs[j] /\ w[k].buf = c.bufs[j]
    BY <1>4, <2>1, WantedLemma
  <2>3. QED
    BY <1>6, <2>2
<1> HIDE DEF w
<1>11. /\ pass' \in [on : BOOLEAN, node : Nat, todo : Seq(Todo)]
       /\ pass'.on /\ pass'.node <= Len(tape) /\ pass'.todo = w
  <2>1. pass.node - 1 \in Nat /\ pass.node - 1 <= Len(tape)
    BY <1>2, <1>3
  <2>2. QED
    BY <1>1, <1>2, <1>10, <2>1
<1>12. /\ tape' \in Seq(NodeType) /\ Len(tape') = Len(tape)
       /\ \A i \in 1..Len(tape) : tape'[i].saved = tape[i].saved
       /\ \A i \in 1..Len(tape) : Sound(tape'[i], Len(tensors), m)
  BY <1>1, <1>2, <1>3, SpendLemma
<1>13. m + Len(c.new) \in Nat /\ m <= m + Len(c.new)
  BY <1>2, <1>6
<1>14. TapeTypes'
  <2>1. \A i \in 1..Len(tape') : Sound(tape'[i], Len(tensors'), Len(mem'))
    <3> SUFFICES ASSUME NEW i \in 1..Len(tape')
                 PROVE  Sound(tape'[i], Len(tensors'), Len(mem'))
      OBVIOUS
    <3>1. tape'[i] \in NodeType /\ Sound(tape'[i], Len(tensors), m)
      BY <1>12, ElementOfSeq
    <3>2. Len(tensors) <= Len(tensors)
      BY <1>2
    <3>3. Sound(tape'[i], Len(tensors), m + Len(c.new))
      BY <1>2, <1>13, <3>1, <3>2, SoundGrows
    <3>4. QED
      BY <1>1, <1>8, <3>3
  <2>2. registry' \in [Ids -> 0..Len(mem')] /\ grad' \in [Ids -> 0..Len(mem')]
    <3>1. 0..m \subseteq 0..m + Len(c.new)
      BY <1>2, <1>6
    <3>2. registry \in [Ids -> 0..m] /\ grad \in [Ids -> 0..m]
      BY DEF IInv, TapeTypes, m
    <3>3. QED
      BY <1>1, <1>8, <3>1, <3>2
  <2>3. \A k \in 1..Len(pass'.todo) : pass'.todo[k].buf <= Len(mem')
    <3>1. \A b \in 1..m + Len(c.new) : b <= m + Len(c.new)
      OBVIOUS
    <3> HIDE DEF Returned
    <3>2. QED
      BY <1>8, <1>9, <1>10, <1>11, <3>1
  <2>4. /\ tensors' \in Seq([val : Int, req : BOOLEAN])
        /\ Len(LeafValues) <= Len(tensors') /\ Len(tensors') <= MaxTensors
        /\ kept' \in [Parameters -> Seq(Int)]
    BY <1>1 DEF IInv, TapeTypes
  <2>5. QED
    BY <1>8, <1>11, <1>12, <2>1, <2>2, <2>3, <2>4 DEF TapeTypes
<1>15. Held'
  <2> SUFFICES ASSUME NEW p \in Parameters, kept'[p] # << >>
               PROVE  /\ grad'[p] # NoBuf
                      /\ kept'[p] = <<mem'[grad'[p]]>>
                      /\ \A t \in Ids : registry'[t] # grad'[p]
                      /\ \A i \in 1..Len(tape') : tape'[i].saved # grad'[p]
                      /\ \A k \in 1..Len(pass'.todo) : pass'.todo[k].buf # grad'[p]
    BY DEF Held
  <2>1. /\ p \in Ids /\ grad[p] \in 1..m /\ kept[p] = <<mem[grad[p]]>>
        /\ \A t \in Ids : registry[t] # grad[p]
        /\ \A i \in 1..Len(tape) : tape[i].saved # grad[p]
    BY <1>1, HeldFacts DEF m
  <2>2. grad[p] # NoBuf /\ grad[p] \notin m + 1..m + Len(c.new)
    BY <1>2, <1>6, <2>1, Bounds
  <2>3. n.saved # grad[p]
    BY <1>3, <2>1 DEF n
  <2>4. \A k \in 1..Len(w) : w[k].buf # grad[p]
    BY <1>10, <2>2, <2>3
  <2>5. QED
    BY <1>1, <1>8, <1>11, <1>12, <2>1, <2>2, <2>4
<1>16. QED
  BY <1>14, <1>15 DEF IInv

LEMMA AccumulateHolds ==
  ASSUME IInv, Accumulate
  PROVE  IInv'
<1> DEFINE in == pass.todo[1]
           b == registry[in.to]
           m == Len(mem)
<1>1. /\ pass.on /\ pass.todo # << >>
      /\ \/ /\ b = NoBuf
            /\ registry' = [registry EXCEPT ![in.to] = in.buf]
            /\ mem' = mem
         \/ /\ b # NoBuf
            /\ mem' = [mem EXCEPT ![b] = @ + mem[in.buf]]
            /\ registry' = registry
      /\ pass' = [pass EXCEPT !.todo = Tail(@)]
      /\ UNCHANGED <<tensors, tape, grad, kept>>
  BY DEF Accumulate, AddInPlace, graph, debts
<1>2. /\ mem \in Seq(Int) /\ m \in Nat
      /\ registry \in [Ids -> 0..m] /\ grad \in [Ids -> 0..m]
      /\ pass \in [on : BOOLEAN, node : Nat, todo : Seq(Todo)]
      /\ pass.todo \in Seq(Todo)
      /\ \A k \in 1..Len(pass.todo) : pass.todo[k].buf <= m
  BY DEF IInv, TapeTypes
<1>3. /\ Tail(pass.todo) \in Seq(Todo) /\ Len(Tail(pass.todo)) = Len(pass.todo) - 1
      /\ \A i \in 1..Len(pass.todo) - 1 : Tail(pass.todo)[i] = pass.todo[i + 1]
      /\ in \in Todo /\ Len(pass.todo) \in Nat \ {0} /\ 1 \in 1..Len(pass.todo)
  BY <1>1, <1>2, TailLemma
<1>4. /\ pass' \in [on : BOOLEAN, node : Nat, todo : Seq(Todo)]
      /\ pass'.on /\ pass'.node = pass.node /\ pass'.todo = Tail(pass.todo)
  BY <1>1, <1>2, <1>3
<1>5. \A k \in 1..Len(pass'.todo) : \E l \in 1..Len(pass.todo) :
        pass'.todo[k] = pass.todo[l]
  <2> SUFFICES ASSUME NEW k \in 1..Len(pass'.todo)
               PROVE  \E l \in 1..Len(pass.todo) : pass'.todo[k] = pass.todo[l]
    OBVIOUS
  <2>1. k \in 1..Len(pass.todo) - 1
    BY <1>3, <1>4
  <2>2. k + 1 \in 1..Len(pass.todo)
    BY <1>3, <2>1
  <2>3. pass'.todo[k] = pass.todo[k + 1]
    BY <1>3, <1>4, <2>1
  <2>4. QED
    BY <2>2, <2>3
<1>6. in.to \in Ids /\ in.buf \in Nat \ {0} /\ in.buf <= m
  BY <1>2, <1>3 DEF Todo
<1>7. b \in 0..m
  BY <1>2, <1>6
<1> HIDE DEF in, m
<1>8. in.buf \in 1..m
  BY <1>2, <1>6
<1>9. /\ mem' \in Seq(Int) /\ Len(mem') = m
      /\ \A c \in 1..m : c # b => mem'[c] = mem[c]
      /\ registry' \in [Ids -> 0..m]
  <2>1. CASE /\ b = NoBuf
             /\ registry' = [registry EXCEPT ![in.to] = in.buf]
             /\ mem' = mem
    <3>1. in.buf \in 0..m
      BY <1>2, <1>8
    <3>2. QED
      BY <1>2, <2>1, <3>1 DEF m
  <2>2. CASE /\ b # NoBuf
             /\ mem' = [mem EXCEPT ![b] = @ + mem[in.buf]]
             /\ registry' = registry
    <3> HIDE DEF b
    <3>1. b \in 1..m
      BY <1>2, <1>7, <2>2 DEF NoBuf
    <3>2. mem[b] \in Int /\ mem[in.buf] \in Int
      BY <1>2, <1>8, <3>1, ElementOfSeq DEF m
    <3>3. mem[b] + mem[in.buf] \in Int
      BY <3>2
    <3>4. mem' = [mem EXCEPT ![b] = mem[b] + mem[in.buf]]
      BY <2>2
    <3>5. /\ mem' \in Seq(Int) /\ Len(mem') = m
          /\ \A c \in 1..m : mem'[c] = IF c = b THEN mem[b] + mem[in.buf] ELSE mem[c]
      BY <1>2, <3>1, <3>3, <3>4, ExceptSeq DEF m
    <3>6. QED
      BY <1>2, <2>2, <3>5
  <2>3. QED
    BY <1>1, <2>1, <2>2
<1>10. TapeTypes'
  <2>1. \A k \in 1..Len(pass'.todo) : pass'.todo[k].buf <= Len(mem')
    BY <1>2, <1>5, <1>9
  <2>2. QED
    BY <1>1, <1>4, <1>9, <2>1 DEF IInv, TapeTypes, m
<1>11. Held'
  <2> SUFFICES ASSUME NEW p \in Parameters, kept'[p] # << >>
               PROVE  /\ grad'[p] # NoBuf
                      /\ kept'[p] = <<mem'[grad'[p]]>>
                      /\ \A t \in Ids : registry'[t] # grad'[p]
                      /\ \A i \in 1..Len(tape') : tape'[i].saved # grad'[p]
                      /\ \A k \in 1..Len(pass'.todo) : pass'.todo[k].buf # grad'[p]
    BY DEF Held
  <2>1. /\ p \in Ids /\ grad[p] \in 1..m /\ kept[p] = <<mem[grad[p]]>>
        /\ \A t \in Ids : registry[t] # grad[p]
        /\ \A i \in 1..Len(tape) : tape[i].saved # grad[p]
        /\ \A k \in 1..Len(pass.todo) : pass.todo[k].buf # grad[p]
    BY <1>1, HeldFacts DEF m
  <2>2. grad[p] # b /\ grad[p] # in.buf /\ grad[p] # NoBuf
    <3>1. grad[p] # b
      BY <1>6, <2>1
    <3>2. grad[p] # in.buf
      BY <1>3, <2>1 DEF in
    <3>3. grad[p] # NoBuf
      BY <2>1, Bounds
    <3>4. QED
      BY <3>1, <3>2, <3>3
  <2>3. \A t \in Ids : registry'[t] # grad[p]
    BY <1>1, <1>2, <1>6, <2>1, <2>2
  <2>4. \A k \in 1..Len(pass'.todo) : pass'.todo[k].buf # grad[p]
    BY <1>5, <2>1
  <2>5. kept'[p] = <<mem'[grad'[p]]>>
    BY <1>1, <1>9, <2>1, <2>2
  <2>6. QED
    BY <1>1, <2>1, <2>2, <2>3, <2>4, <2>5
<1>12. QED
  BY <1>10, <1>11 DEF IInv

\* The pass ends, well or badly: nothing is left to be accumulated.
LEMMA EndHolds ==
  ASSUME IInv, pass' = AtRest,
         (pass.node \in 1..Len(tape) /\ Spend) \/ UNCHANGED tape,
         UNCHANGED <<tensors, registry, grad, mem, kept>>
  PROVE  IInv'
<1>1. /\ pass' \in [on : BOOLEAN, node : Nat, todo : Seq(Todo)]
      /\ pass'.node = 0 /\ pass'.todo = << >> /\ pass' = AtRest
      /\ Len(pass'.todo) = 0
  BY DEF AtRest
<1>2. /\ tape' \in Seq(NodeType) /\ Len(tape') = Len(tape)
      /\ \A i \in 1..Len(tape) : tape'[i].saved = tape[i].saved
      /\ \A i \in 1..Len(tape) : Sound(tape'[i], Len(tensors), Len(mem))
  <2>1. /\ tape \in Seq(NodeType) /\ Len(tensors) \in Nat /\ Len(mem) \in Nat
        /\ \A i \in 1..Len(tape) : Sound(tape[i], Len(tensors), Len(mem))
    BY DEF IInv, TapeTypes
  <2>2. CASE UNCHANGED tape
    BY <2>1, <2>2
  <2>3. CASE pass.node \in 1..Len(tape) /\ Spend
    BY <2>1, <2>3, SpendLemma
  <2>4. QED
    BY <2>2, <2>3
<1>3. TapeTypes'
  BY <1>1, <1>2 DEF IInv, TapeTypes
<1>4. Held'
  BY <1>1, <1>2 DEF IInv, Held
<1>5. QED
  BY <1>3, <1>4 DEF IInv

LEMMA FinishOrFailHolds ==
  ASSUME IInv, FinishPass \/ FailPass
  PROVE  IInv'
<1>1. pass' = AtRest /\ UNCHANGED <<tensors, registry, grad, mem, kept>>
  BY DEF FinishPass, FailPass, graph, grads, past, debts
<1>2. (pass.node \in 1..Len(tape) /\ Spend) \/ UNCHANGED tape
  <2>1. CASE FinishPass
    BY <2>1 DEF FinishPass, graph
  <2>2. CASE FailPass
    <3>1. (pass.node > 0 /\ Spend) \/ UNCHANGED tape
      BY <2>2 DEF FailPass, AtNode
    <3>2. pass.node \in Nat /\ pass.node <= Len(tape) /\ Len(tape) \in Nat
      BY DEF IInv, TapeTypes
    <3>3. QED
      BY <3>1, <3>2
  <2>3. QED
    BY <2>1, <2>2
<1>3. QED
  BY <1>1, <1>2, EndHolds

-----------------------------------------------------------------------------
LEMMA SyncGradsHolds ==
  ASSUME IInv, SyncGrads
  PROVE  IInv'
<1>1. /\ grad' = [t \in Ids |-> IF t \in Parameters /\ registry[t] # NoBuf
                                THEN registry[t] ELSE grad[t]]
      /\ kept' = [p \in Parameters |-> IF registry[p] # NoBuf THEN << >> ELSE kept[p]]
      /\ UNCHANGED <<tensors, tape, registry, mem, pass>>
  BY DEF SyncGrads, graph, debts
<1>2. grad' \in [Ids -> 0..Len(mem)] /\ kept' \in [Parameters -> Seq(Int)]
  BY <1>1 DEF IInv, TapeTypes
<1>3. TapeTypes'
  BY <1>1, <1>2 DEF IInv, TapeTypes
<1>4. \A p \in Parameters : kept'[p] # << >> => kept'[p] = kept[p] /\ grad'[p] = grad[p]
  BY <1>1, Bounds
<1>5. Held'
  BY <1>1, <1>4 DEF IInv, Held
<1>6. QED
  BY <1>3, <1>5 DEF IInv

LEMMA ClearHolds ==
  ASSUME IInv, Clear
  PROVE  IInv'
<1>1. /\ ~pass.on /\ tape' = << >> /\ registry' = [t \in Ids |-> NoBuf]
      /\ kept' = [p \in Parameters |->
                    IF grad[p] = NoBuf THEN << >> ELSE <<mem[grad[p]]>>]
      /\ UNCHANGED <<tensors, grad, mem, pass>>
  BY DEF Clear, Drained
<1>2. /\ pass = AtRest /\ mem \in Seq(Int) /\ Len(mem) \in Nat
      /\ grad \in [Ids -> 0..Len(mem)]
  BY <1>1 DEF IInv, TapeTypes
<1>3. /\ pass' = AtRest /\ pass'.node = 0 /\ pass'.todo = << >>
      /\ Len(pass'.todo) = 0 /\ Len(tape') = 0
  BY <1>1, <1>2 DEF AtRest
<1>4. registry' \in [Ids -> 0..Len(mem)]
  BY <1>1, <1>2 DEF NoBuf
<1>5. kept' \in [Parameters -> Seq(Int)]
  <2> SUFFICES ASSUME NEW p \in Parameters, grad[p] # NoBuf
               PROVE  <<mem[grad[p]]>> \in Seq(Int)
    BY <1>1
  <2>1. grad[p] \in 0..Len(mem)
    BY <1>2, Bounds
  <2>2. grad[p] \in 1..Len(mem)
    BY <1>2, <2>1 DEF NoBuf
  <2>3. mem[grad[p]] \in Int
    BY <1>2, <2>2, ElementOfSeq
  <2>4. QED
    BY <2>3
<1>6. TapeTypes'
  BY <1>1, <1>3, <1>4, <1>5 DEF IInv, TapeTypes
<1>7. Held'
  <2>1. \A p \in Parameters : kept'[p] # << >> =>
          grad'[p] # NoBuf /\ kept'[p] = <<mem'[grad'[p]]>>
    BY <1>1
  <2>2. \A t \in Ids : registry'[t] = NoBuf
    BY <1>1
  <2>3. QED
    BY <1>3, <2>1, <2>2 DEF Held
<1>8. QED
  BY <1>6, <1>7 DEF IInv

LEMMA NextHolds == IInv /\ [Next]_vars => IInv'
<1> SUFFICES ASSUME IInv, [Next]_vars PROVE IInv'
  OBVIOUS
<1>1. ASSUME NEW on \in BOOLEAN, EnableOrDisable(on) PROVE IInv'
  BY <1>1, QuietHolds DEF EnableOrDisable, grads, past, debts
<1>2. ASSUME NEW kind \in GuardKinds, NewGuard(kind) PROVE IInv'
  BY <1>2, QuietHolds DEF NewGuard, grads, past, debts
<1>3. CASE DropGuard
  BY <1>3, QuietHolds DEF DropGuard, grads, past, debts
<1>4. ASSUME NEW op \in Ops \cap Unary, NEW a \in DOMAIN tensors, Forward(op, <<a>>)
      PROVE  IInv'
  <2>1. /\ <<a>> \in Seq(DOMAIN tensors) /\ Len(<<a>>) = 1
        /\ op \in Binary \cup Unary /\ op \notin Binary
    BY DEF Binary, Unary
  <2>2. QED
    BY <1>4, <2>1, ForwardHolds
<1>5. ASSUME NEW op \in Ops \cap Binary, NEW a \in DOMAIN tensors,
             NEW b \in DOMAIN tensors, Forward(op, <<a, b>>)
      PROVE  IInv'
  <2>1. /\ <<a, b>> \in Seq(DOMAIN tensors) /\ Len(<<a, b>>) = 2
        /\ op \in Binary \cup Unary /\ op \notin Unary
    BY DEF Binary, Unary
  <2>2. QED
    BY <1>5, <2>1, ForwardHolds
<1>6. ASSUME NEW t \in Outputs, SetRequiresGrad(t) PROVE IInv'
  BY <1>6, SetRequiresGradHolds DEF Outputs
<1>7. ASSUME NEW loss \in Outputs, NEW seed \in {1, 3}, Backward(loss, seed)
      PROVE  IInv'
  BY <1>7, BackwardHolds
<1>8. CASE SkipNode
  BY <1>8, SkipNodeHolds
<1>9. CASE CallClosure
  BY <1>9, CallClosureHolds
<1>10. CASE Accumulate
  BY <1>10, AccumulateHolds
<1>11. CASE FinishPass \/ FailPass
  BY <1>11, FinishOrFailHolds
<1>12. CASE SyncGrads
  BY <1>12, SyncGradsHolds
<1>13. CASE Clear
  BY <1>13, ClearHolds
<1>14. CASE UNCHANGED vars
  BY <1>14, QuietHolds DEF vars, graph, grads, past, debts
<1>15. QED
  BY <1>1, <1>2, <1>3, <1>4, <1>5, <1>6, <1>7, <1>8, <1>9, <1>10, <1>11,
     <1>12, <1>13, <1>14 DEF Next

\* Between passes and during them, the gradient a caller took with sync_grads
\* keeps the value it had at clear(): later passes write into fresh buffers.
THEOREM SnapshotsStable == Spec => []HeldGradStable
<1>1. IInv => HeldGradStable
  BY DEF IInv, Held, HeldGradStable
<1>2. QED
  BY <1>1, InitHolds, NextHolds, PTL DEF Spec

-----------------------------------------------------------------------------
\* While a NoGrad guard is alive nothing is recorded, and every guard but the
\* outermost found recording already off.
Nested ==
  /\ recording \in BOOLEAN
  /\ guards \in Seq(Guard)
  /\ \A i \in 1..Len(guards) : guards[i].kind = "NoGrad"
  /\ guards # << >> => ~recording
  /\ \A i \in 2..Len(guards) : ~guards[i].was

Step == /\ guards' # << >> => ~recording'
        /\ Len(guards) = 1 /\ guards' = << >> => recording' = guards[1].was

LEMMA NestedInit == Init => Nested
<1> SUFFICES ASSUME Init PROVE Nested
  OBVIOUS
<1>1. recording = FALSE /\ guards = << >>
  BY DEF Init
<1>2. guards \in Seq(Guard) /\ Len(guards) = 0
  BY <1>1
<1>3. /\ \A i \in 1..Len(guards) : guards[i].kind = "NoGrad"
      /\ \A i \in 2..Len(guards) : ~guards[i].was
  BY <1>2
<1>4. QED
  BY <1>1, <1>2, <1>3 DEF Nested

LEMMA NewGuardNests ==
  ASSUME Nested, GuardKinds \subseteq {"NoGrad"}, NEW kind \in GuardKinds, NewGuard(kind)
  PROVE  Nested' /\ Step
<1> DEFINE g == [kind |-> kind, was |-> recording]
<1>1. guards' = Append(guards, g) /\ recording' = FALSE
  BY DEF NewGuard
<1>2. /\ recording \in BOOLEAN /\ guards \in Seq(Guard) /\ Len(guards) \in Nat
      /\ kind = "NoGrad"
  BY DEF Nested
<1>3. g \in Guard
  BY <1>2 DEF Guard
<1>4. g.kind = "NoGrad" /\ g.was = recording
  BY <1>2
<1> HIDE DEF g
<1>5. /\ guards' \in Seq(Guard) /\ Len(guards') = Len(guards) + 1
      /\ \A i \in 1..Len(guards) : guards'[i] = guards[i]
      /\ guards'[Len(guards) + 1] = g
  BY <1>1, <1>2, <1>3, AppendProperties
<1>6. \A i \in 1..Len(guards') : guards'[i].kind = "NoGrad"
  <2> SUFFICES ASSUME NEW i \in 1..Len(guards') PROVE guards'[i].kind = "NoGrad"
    OBVIOUS
  <2>1. i \in 1..Len(guards) \/ i = Len(guards) + 1
    BY <1>2, <1>5
  <2>2. QED
    BY <1>4, <1>5, <2>1 DEF Nested
<1>7. \A i \in 2..Len(guards') : ~guards'[i].was
  <2> SUFFICES ASSUME NEW i \in 2..Len(guards') PROVE ~guards'[i].was
    OBVIOUS
  <2>1. CASE i \in 1..Len(guards)
    <3>1. i \in 2..Len(guards)
      BY <1>2, <2>1
    <3>2. QED
      BY <1>5, <2>1, <3>1 DEF Nested
  <2>2. CASE i = Len(guards) + 1
    <3>1. guards # << >>
      BY <1>2, <2>2
    <3>2. ~recording
      BY <3>1 DEF Nested
    <3>3. QED
      BY <1>4, <1>5, <2>2, <3>2
  <2>3. QED
    BY <1>2, <1>5, <2>1, <2>2
<1>8. guards' # << >>
  BY <1>2, <1>5
<1>9. QED
  BY <1>1, <1>5, <1>6, <1>7, <1>8 DEF Nested, Step

LEMMA DropGuardNests ==
  ASSUME Nested, DropGuard
  PROVE  Nested' /\ Step
<1> DEFINE n == Len(guards)
<1>1. /\ guards # << >> /\ guards' = SubSeq(guards, 1, n - 1)
      /\ recording' = (recording \/ Restored(guards[n]))
  BY DEF DropGuard
<1>2. guards \in Seq(Guard) /\ n \in Nat \ {0} /\ ~recording
  BY <1>1 DEF Nested
<1>3. n - 1 \in Nat /\ n \in 1..n
  BY <1>2
<1>4. guards[n].kind = "NoGrad" /\ guards[n].was \in BOOLEAN
  <2>1. guards[n] \in Guard
    BY <1>2, <1>3, ElementOfSeq
  <2>2. QED
    BY <1>3, <2>1 DEF Nested, Guard
<1>5. recording' = guards[n].was
  BY <1>1, <1>2, <1>4 DEF Restored
<1>6. /\ guards' \in Seq(Guard) /\ Len(guards') = n - 1
      /\ \A i \in 1..n - 1 : guards'[i] = guards[i]
  <2>1. \A i \in 1..n - 1 : guards[i] \in Guard
    <3>1. 1..n - 1 \subseteq 1..Len(guards)
      BY <1>3
    <3>2. QED
      BY <1>2, <3>1, ElementOfSeq
  <2> HIDE DEF n
  <2>2. /\ SubSeq(guards, 1, n - 1) \in Seq(Guard)
        /\ Len(SubSeq(guards, 1, n - 1)) =
             IF 1 <= n - 1 THEN n - 1 - 1 + 1 ELSE 0
        /\ \A i \in 1..n - 1 - 1 + 1 : SubSeq(guards, 1, n - 1)[i] = guards[1 + i - 1]
    BY <1>2, <1>3, <2>1, SubSeqProperties
  <2>3. QED
    BY <1>1, <1>2, <1>3, <2>2
<1> HIDE DEF n
<1>7. n > 1 => ~guards[n].was
  BY <1>2 DEF Nested, n
<1>8. guards' # << >> => n > 1
  BY <1>2, <1>6
<1>9. Nested'
  <2>1. \A i \in 1..Len(guards') : guards'[i].kind = "NoGrad"
    BY <1>2, <1>6 DEF Nested, n
  <2>2. \A i \in 2..Len(guards') : ~guards'[i].was
    BY <1>2, <1>6 DEF Nested, n
  <2>3. QED
    BY <1>4, <1>5, <1>6, <1>7, <1>8, <2>1, <2>2 DEF Nested
<1>10. Step
  BY <1>5, <1>7, <1>8 DEF Step, n
<1>11. QED
  BY <1>9, <1>10

LEMMA NestedNext ==
  ASSUME GuardKinds \subseteq {"NoGrad"}, Nested, [Next]_vars
  PROVE  Nested' /\ [Step]_vars
<1>1. ASSUME NEW on \in BOOLEAN, EnableOrDisable(on) PROVE Nested' /\ Step
  BY <1>1 DEF EnableOrDisable, Nested, Step
<1>2. ASSUME NEW kind \in GuardKinds, NewGuard(kind) PROVE Nested' /\ Step
  BY <1>2, NewGuardNests
<1>3. CASE DropGuard
  BY <1>3, DropGuardNests
<1>4. ASSUME UNCHANGED <<recording, guards>> PROVE Nested' /\ Step
  <2>1. Nested'
    BY <1>4 DEF Nested
  <2>2. Len(guards) = 1 => guards # << >>
    OBVIOUS
  <2>3. QED
    BY <1>4, <2>1, <2>2 DEF Nested, Step
<1>5. CASE UNCHANGED vars
  BY <1>4, <1>5 DEF vars, graph
<1>6. ASSUME NEW op, NEW ins, Forward(op, ins) PROVE UNCHANGED <<recording, guards>>
  BY <1>6 DEF Forward
<1>7. ASSUME NEW t, SetRequiresGrad(t) PROVE UNCHANGED <<recording, guards>>
  BY <1>7 DEF SetRequiresGrad
<1>8. ASSUME NEW loss, NEW seed, Backward(loss, seed)
      PROVE  UNCHANGED <<recording, guards>>
  BY <1>8 DEF Backward, graph
<1>9. SkipNode \/ CallClosure \/ Accumulate \/ FinishPass \/ FailPass
        \/ SyncGrads \/ Clear => UNCHANGED <<recording, guards>>
  BY DEF SkipNode, CallClosure, Accumulate, FinishPass, FailPass, SyncGrads,
         Clear, graph
<1>10. QED
  BY <1>1, <1>2, <1>3, <1>4, <1>5, <1>6, <1>7, <1>8, <1>9 DEF Next

\* A program that uses NoGrad only, as the layers and the optimizers do: no
\* nesting of guards records an operation or forgets to record again.
THEOREM NoGradNests == GuardKinds \subseteq {"NoGrad"} /\ Spec => GuardsNest
<1> SUFFICES ASSUME GuardKinds \subseteq {"NoGrad"} PROVE Spec => GuardsNest
  OBVIOUS
<1>1. Nested /\ [Next]_vars => Nested' /\ [Step]_vars
  BY NestedNext
<1>2. QED
  BY <1>1, NestedInit, PTL DEF Spec, GuardsNest, Step

-----------------------------------------------------------------------------
(***************************************************************************)
(* Gradients.  The argument is conservation.  A gradient held by a tensor  *)
(* is worth to a parameter its product with the tensor's derivative by the *)
(* parameter, through the nodes that still have their closures.  Seeding a *)
(* pass adds to that sum what the pass owes; a closure replaces what its   *)
(* output is worth by contributions worth as much to its inputs; an        *)
(* accumulation moves a contribution into the registry.  When no closure   *)
(* is left, only what the parameter itself holds is worth anything to it.  *)
(*                                                                         *)
(* That derivative shrinks as closures are taken; what a pass owes, by the *)
(* reference, does not.  The two agree on a tensor as long as no node      *)
(* behind it has lost its closure (Referred), which is when a pass from it *)
(* is not counted as spoilt.                                               *)
(***************************************************************************)

\* The walk goes from outputs to inputs: a node's inputs are older than its
\* output, which is no parameter, and nodes are in the order of their outputs.
\* What the pass has left behind has no closure any more.
Walked ==
  /\ \A i \in 1..Len(tape) :
       /\ Len(LeafValues) < tape[i].out /\ tape[i].out <= Len(tensors)
       /\ \A j \in 1..Len(tape[i].ins) : tape[i].ins[j] < tape[i].out
       /\ pass.on /\ pass.node < i => ~tape[i].live
  /\ \A i, k \in 1..Len(tape) : i < k => tape[i].out < tape[k].out
  /\ \A t \in Ids : Len(tensors) < t => registry[t] = NoBuf
  /\ Len(pass.todo) <= 2
  /\ \A k \in 1..Len(pass.todo) : pass.todo[k].to <= Len(tensors)

\* Nodes with a closure whose output is t: at most one, by Walked.
NodesOf(t) == {i \in DOMAIN tape : tape[i].out = t /\ tape[i].live}

\* What a node with a closure passes on of D's values at its inputs.
Through(n, D) ==
  LET term(j) == IF n.needs[j] THEN Slope(n, j) * D[n.ins[j]] ELSE 0
  IN  IF n.op \in Binary THEN term(1) + term(2) ELSE term(1)

Derived(p, D, t) ==
  IF t = p THEN 1
  ELSE IF NodesOf(t) = {} THEN 0
  ELSE Through(tape[CHOOSE i \in NodesOf(t) : TRUE], D)

\* Derivative of every tensor by p, through the nodes that have a closure.
Tangent(p) ==
  LET D[t \in DOMAIN tensors] == Derived(p, D, t)
  IN  D

\* Tangent's equation.
Derives(p, D) == D = [t \in DOMAIN tensors |-> Derived(p, D, t)]

\* The same, one equation for each kind of tensor.
Solves(p, D) ==
  /\ D \in [1..Len(tensors) -> Int]
  /\ D[p] = 1
  /\ \A t \in 1..Len(tensors) :
       t # p /\ (\A i \in 1..Len(tape) : tape[i].live => tape[i].out # t) => D[t] = 0
  /\ \A i \in 1..Len(tape) :
       tape[i].live => D[tape[i].out] = Through(tape[i], D)

Derivable == \A p \in Parameters : \E D : Solves(p, D)

\* Between passes no node with a closure has a gradient to give.  A saved
\* slope is as it was computed, in a buffer of its own; two gradients yet to
\* be accumulated are in no tensor's buffer.
Unspoilt ==
  /\ ~pass.on => \A i \in 1..Len(tape) :
                   tape[i].live => registry[tape[i].out] = NoBuf
  /\ \A i \in 1..Len(tape) : tape[i].live /\ tape[i].op = "cross_entropy" =>
       /\ mem[tape[i].saved] = LossSlope(tensors[tape[i].ins[1]].val)
       /\ \A t \in Ids : registry[t] # tape[i].saved
       /\ \A k \in 1..Len(pass.todo) : pass.todo[k].buf # tape[i].saved
       /\ \A k \in 1..Len(tape) : tape[k].saved = tape[i].saved => k = i
  /\ Len(pass.todo) = 2 => \A k \in 1..2, t \in Ids : registry[t] # pass.todo[k].buf

\* What the gradients registered and still to be accumulated are worth to p.
Worth(p) ==
  [t \in Ids |-> IF t <= Len(tensors) THEN Found(t) * Tangent(p)[t] ELSE 0]
Due(p, k) == mem[pass.todo[k].buf] * Tangent(p)[pass.todo[k].to]
Pending(p) ==
  (IF Len(pass.todo) >= 1 THEN Due(p, 1) ELSE 0)
    + (IF Len(pass.todo) = 2 THEN Due(p, 2) ELSE 0)

Balanced ==
  \A p \in Parameters : owed[p] = SumOf(Worth(p), Ids) + Pending(p)

\* The reference knows every node behind a tensor, and agrees with Tangent on
\* the tensors whose nodes all have their closures.
Dual == [by : [Parameters -> Int], via : SUBSET Nat]

Intact(t) == \A i \in dual[t].via : tape[i].live

Referred ==
  /\ dual \in Seq(Dual) /\ Len(dual) = Len(tensors)
  /\ \A t \in 1..Len(tensors) : dual[t].via \subseteq 1..Len(tape)
  /\ \A i \in 1..Len(tape) : i \in dual[tape[i].out].via
  /\ \A t \in 1..Len(tensors), p \in Parameters :
       Intact(t) => Tangent(p)[t] = dual[t].by[p]

LEMMA IdsAre == \A t \in Ids : t \in Nat /\ 1 <= t /\ t <= MaxTensors
BY Bounds DEF Ids

\* A node on the tape is well formed.
LEMMA NodeAt ==
  ASSUME TapeTypes, NEW i \in 1..Len(tape)
  PROVE  /\ tape[i] \in NodeType /\ Sound(tape[i], Len(tensors), Len(mem))
         /\ tape[i].out \in Ids
<1>1. tape[i] \in NodeType
  BY ElementOfSeq DEF TapeTypes
<1>2. Sound(tape[i], Len(tensors), Len(mem))
  BY DEF TapeTypes
<1>3. QED
  BY <1>1, <1>2, NodeParts

\* Tangent is the function TLA+ chooses for its recursive definition.
LEMMA TangentChoice ==
  ASSUME NEW p
  PROVE  Tangent(p) = CHOOSE D : Derives(p, D)
BY DEF Tangent, Derives

\* No two nodes with a closure have the same output.
LEMMA NodeOfOutput ==
  ASSUME TapeTypes, Walked, NEW i \in 1..Len(tape), tape[i].live
  PROVE  NodesOf(tape[i].out) = {i}
<1>1. DOMAIN tape = 1..Len(tape) /\ Len(tape) \in Nat
  BY DEF TapeTypes
<1>2. i \in NodesOf(tape[i].out)
  BY <1>1 DEF NodesOf
<1>3. ASSUME NEW k \in NodesOf(tape[i].out) PROVE k = i
  <2>1. k \in 1..Len(tape) /\ tape[k].out = tape[i].out
    BY <1>1, <1>3 DEF NodesOf
  <2>2. tape[k].out \in Ids /\ tape[i].out \in Ids
    BY <2>1, NodeAt
  <2>3. /\ k < i => tape[k].out < tape[i].out
        /\ i < k => tape[i].out < tape[k].out
    BY <2>1 DEF Walked
  <2>4. \A t \in Ids : t \in Int
    BY Bounds DEF Ids
  <2>5. ~(k < i) /\ ~(i < k)
    BY <2>1, <2>2, <2>3, <2>4
  <2>6. QED
    BY <1>1, <2>1, <2>5
<1>4. QED
  BY <1>2, <1>3

\* A node has as many operands as its operation takes.
LEMMA OperandsOf ==
  ASSUME NEW n \in NodeType, NEW t, NEW m, Sound(n, t, m)
  PROVE  /\ n.op \in Binary \cup Unary
         /\ n.op \in Binary => 1 \in 1..Len(n.ins) /\ 2 \in 1..Len(n.ins)
         /\ n.op \notin Binary => 1 \in 1..Len(n.ins)
<1>1. n.op \in Binary \cup Unary
  BY NodeParts
<1>2. /\ n.op \in Binary => Len(n.ins) = 2
      /\ n.op \in Unary => Len(n.ins) = 1
  BY DEF Sound
<1>3. ASSUME n.op \in Binary PROVE 1 \in 1..Len(n.ins) /\ 2 \in 1..Len(n.ins)
  <2>1. Len(n.ins) = 2
    BY <1>2, <1>3
  <2>2. QED
    BY <2>1
<1>4. ASSUME n.op \notin Binary PROVE 1 \in 1..Len(n.ins)
  <2>1. Len(n.ins) = 1
    BY <1>1, <1>2, <1>4
  <2>2. QED
    BY <2>1
<1>5. QED
  BY <1>1, <1>3, <1>4

\* The operands of a node are tensors that exist.
LEMMA OperandsIn ==
  ASSUME NEW n \in NodeType, NEW t \in Nat, NEW m, Sound(n, t, m)
  PROVE  /\ \A j \in 1..Len(n.ins) : n.ins[j] \in 1..t
         /\ n.op \in Binary => n.ins[1] \in 1..t /\ n.ins[2] \in 1..t
         /\ n.op \notin Binary => n.ins[1] \in 1..t
<1>1. ASSUME NEW j \in 1..Len(n.ins) PROVE n.ins[j] \in 1..t
  <2>1. n.ins[j] \in Ids
    BY NodeParts
  <2>2. n.ins[j] <= t
    BY DEF Sound
  <2>3. n.ins[j] \in Nat /\ 1 <= n.ins[j]
    BY <2>1, IdsAre
  <2>4. QED
    BY <2>2, <2>3
<1>2. QED
  BY <1>1, OperandsOf

\* A node reads derivatives of its operands only.
LEMMA ThroughSame ==
  ASSUME NEW n \in NodeType, NEW t, NEW m, Sound(n, t, m), NEW D, NEW E,
         \A j \in 1..Len(n.ins) : D[n.ins[j]] = E[n.ins[j]]
  PROVE  Through(n, D) = Through(n, E) /\ Through(n, D)' = Through(n, E)'
BY OperandsOf DEF Through

\* Derivatives stay integers.
ThroughTyped ==
  TapeTypes => \A n \in NodeType : \A D :
    /\ Sound(n, Len(tensors), Len(mem))
    /\ \A j \in 1..Len(n.ins) : D[n.ins[j]] \in Int
    => Through(n, D) \in Int

LEMMA ThroughInt == ThroughTyped
<1> SUFFICES ASSUME TapeTypes, NEW n \in NodeType, NEW D,
                    Sound(n, Len(tensors), Len(mem)),
                    \A j \in 1..Len(n.ins) : D[n.ins[j]] \in Int
             PROVE  Through(n, D) \in Int
  BY DEF ThroughTyped
<1>1. \A j \in 1..Len(n.ins) : Slope(n, j) \in Int
  BY SlopeType
<1>2. \A j \in 1..Len(n.ins) : Slope(n, j) * D[n.ins[j]] \in Int
  BY <1>1
<1>3. QED
  BY <1>2, OperandsOf DEF Through

\* A node reads derivatives of tensors older than its output only.
LEMMA ThroughOnce ==
  ASSUME TapeTypes, Walked, NEW i \in 1..Len(tape), NEW D, NEW E,
         \A t \in 1..Len(tensors) : t < tape[i].out => D[t] = E[t]
  PROVE  Through(tape[i], D) = Through(tape[i], E)
<1>1. /\ tape[i] \in NodeType /\ Sound(tape[i], Len(tensors), Len(mem))
      /\ Len(tensors) \in Nat
  BY NodeAt DEF TapeTypes
<1>2. \A j \in 1..Len(tape[i].ins) : D[tape[i].ins[j]] = E[tape[i].ins[j]]
  <2>1. SUFFICES ASSUME NEW j \in 1..Len(tape[i].ins)
                 PROVE  D[tape[i].ins[j]] = E[tape[i].ins[j]]
    OBVIOUS
  <2>2. tape[i].ins[j] < tape[i].out
    BY DEF Walked
  <2>3. tape[i].ins[j] \in Ids /\ tape[i].ins[j] <= Len(tensors)
    BY <1>1, NodeParts DEF Sound
  <2>4. tape[i].ins[j] \in 1..Len(tensors)
    BY <1>1, <2>3, Bounds DEF Ids
  <2>5. QED
    BY <2>2, <2>4
<1>3. QED
  BY <1>1, <1>2, ThroughSame

\* Tangent's equation has one solution: by induction over the tensors.
LEMMA DerivesOnce ==
  ASSUME TapeTypes, Walked, NEW p, NEW D, NEW E, Derives(p, D), Derives(p, E)
  PROVE  D = E
<1> DEFINE N == Len(tensors)
           T == {n \in Nat : \A t \in 1..N : t <= n => D[t] = E[t]}
<1>1. DOMAIN tensors = 1..N /\ N \in Nat
  BY DEF TapeTypes
<1>2. /\ D = [t \in 1..N |-> Derived(p, D, t)]
      /\ E = [t \in 1..N |-> Derived(p, E, t)]
  BY <1>1 DEF Derives
<1> HIDE DEF N
<1>3. 0 \in T
  BY <1>1
<1>4. ASSUME NEW n \in T PROVE n + 1 \in T
  <2>1. SUFFICES ASSUME NEW t \in 1..N, t <= n + 1 PROVE D[t] = E[t]
    BY <1>4
  <2>2. n \in Nat /\ \A u \in 1..N : u <= n => D[u] = E[u]
    BY <1>4
  <2>3. \A u \in 1..N : u < t => D[u] = E[u]
    BY <1>1, <2>1, <2>2
  <2>4. Derived(p, D, t) = Derived(p, E, t)
    <3>1. CASE t = p \/ NodesOf(t) = {}
      BY <3>1 DEF Derived
    <3>2. CASE t # p /\ NodesOf(t) # {}
      <4> DEFINE i == CHOOSE i \in NodesOf(t) : TRUE
      <4>1. i \in NodesOf(t)
        BY <3>2
      <4>2. i \in 1..Len(tape) /\ tape[i].out = t
        BY <4>1 DEF NodesOf, TapeTypes
      <4>3. Through(tape[i], D) = Through(tape[i], E)
        <5> HIDE DEF i
        <5>1. QED
          BY <2>3, <4>2, ThroughOnce DEF N
      <4>4. QED
        BY <3>2, <4>3 DEF Derived
    <3>3. QED
      BY <3>1, <3>2
  <2>5. QED
    BY <1>2, <2>4
<1>5. \A n \in Nat : n \in T
  <2> HIDE DEF T
  <2>1. QED
    BY <1>3, <1>4, Induction DEF T
<1>6. \A t \in 1..N : D[t] = E[t]
  <2>1. N \in T
    BY <1>1, <1>5
  <2>2. \A t \in 1..N : t <= N
    BY <1>1
  <2>3. QED
    BY <2>1, <2>2
<1>7. QED
  BY <1>2, <1>6

\* No parameter is the output of a node.
LEMMA OutputIsLate ==
  ASSUME TapeTypes, Walked, NEW i \in 1..Len(tape), NEW p \in Parameters
  PROVE  tape[i].out \in 1..Len(tensors) /\ tape[i].out # p /\ p \in 1..Len(tensors)
<1>1. tape[i].out \in Ids
  BY NodeAt
<1>2. Len(LeafValues) < tape[i].out /\ tape[i].out <= Len(tensors)
  BY DEF Walked
<1>3. Len(tensors) \in Nat /\ Len(LeafValues) <= Len(tensors)
  BY DEF TapeTypes
<1>4. QED
  BY <1>1, <1>2, <1>3, Bounds DEF Ids, Parameters

\* The equations for each kind of tensor give Tangent's.
LEMMA SolvesDerives ==
  ASSUME TapeTypes, Walked, NEW p \in Parameters, NEW D, Solves(p, D)
  PROVE  Derives(p, D)
<1>1. DOMAIN tensors = 1..Len(tensors) /\ DOMAIN tape = 1..Len(tape)
  BY DEF TapeTypes
<1>2. ASSUME NEW t \in 1..Len(tensors) PROVE D[t] = Derived(p, D, t)
  <2>1. CASE t = p
    BY <2>1 DEF Derived, Solves
  <2>2. CASE t # p /\ NodesOf(t) = {}
    <3>1. \A i \in 1..Len(tape) : tape[i].live => tape[i].out # t
      BY <1>1, <2>2 DEF NodesOf
    <3>2. QED
      BY <2>2, <3>1 DEF Derived, Solves
  <2>3. CASE t # p /\ NodesOf(t) # {}
    <3>1. PICK i \in NodesOf(t) : TRUE
      BY <2>3
    <3>2. i \in 1..Len(tape) /\ tape[i].live /\ tape[i].out = t
      BY <1>1, <3>1 DEF NodesOf
    <3>3. NodesOf(t) = {i}
      BY <3>2, NodeOfOutput
    <3>4. (CHOOSE k \in NodesOf(t) : TRUE) = i
      BY <3>3
    <3>5. Derived(p, D, t) = Through(tape[i], D)
      BY <2>3, <3>4 DEF Derived
    <3>6. QED
      BY <3>2, <3>5 DEF Solves
  <2>4. QED
    BY <2>1, <2>2, <2>3
<1>3. D \in [1..Len(tensors) -> Int]
  BY DEF Solves
<1>4. QED
  BY <1>1, <1>2, <1>3 DEF Derives

\* A function that satisfies Tangent's equations is Tangent.
TangentSolved ==
  TapeTypes /\ Walked => \A p \in Parameters : \A D : Solves(p, D) => Tangent(p) = D

LEMMA TangentIs == TangentSolved
<1> SUFFICES ASSUME TapeTypes, Walked, NEW p \in Parameters, NEW D, Solves(p, D)
             PROVE  Tangent(p) = D
  BY DEF TangentSolved
<1>1. Derives(p, D)
  BY SolvesDerives
<1>2. Derives(p, Tangent(p))
  BY <1>1, TangentChoice
<1>3. QED
  BY <1>1, <1>2, DerivesOnce

\* Tangent satisfies its equations as soon as anything does.
LEMMA TangentFacts ==
  ASSUME TapeTypes, Walked, Derivable, NEW p \in Parameters
  PROVE  Solves(p, Tangent(p))
<1>1. PICK D : Solves(p, D)
  BY DEF Derivable
<1>2. Tangent(p) = D
  BY <1>1, TangentIs DEF TangentSolved
<1>3. QED
  BY <1>1, <1>2

\* To know Tangent after a step it is enough to have a solution then.
LEMMA TangentAfter ==
  ASSUME TapeTypes', Walked', NEW p \in Parameters, NEW D, Solves(p, D)'
  PROVE  Tangent(p)' = D
<1>1. TangentSolved'
  BY TangentIs, PTL
<1>2. QED
  BY <1>1 DEF TangentSolved

-----------------------------------------------------------------------------
\* The values of the tensors a node reads are never written again.
LEMMA ThroughKept ==
  ASSUME TapeTypes, NEW n \in NodeType, Sound(n, Len(tensors), Len(mem)), NEW D,
         \A t \in 1..Len(tensors) : tensors'[t].val = tensors[t].val
  PROVE  /\ \A j \in 1..Len(n.ins) : Slope(n, j)' = Slope(n, j)
         /\ Through(n, D)' = Through(n, D)
<1>1. \A j \in 1..Len(n.ins) : tensors'[n.ins[j]].val = tensors[n.ins[j]].val
  <2>1. SUFFICES ASSUME NEW j \in 1..Len(n.ins)
                 PROVE  n.ins[j] \in 1..Len(tensors)
    OBVIOUS
  <2>5. n.ins[j] \in Ids
    BY NodeParts
  <2>6. n.ins[j] <= Len(tensors)
    BY DEF Sound
  <2>7. Len(tensors) \in Nat
    BY DEF TapeTypes
  <2>2. n.ins[j] \in Ids /\ n.ins[j] <= Len(tensors) /\ Len(tensors) \in Nat
    BY <2>5, <2>6, <2>7
  <2>3. n.ins[j] \in Nat /\ 1 <= n.ins[j]
    BY <2>2, IdsAre
  <2>4. QED
    BY <2>2, <2>3
<1>2. /\ n.op \in Binary \cup Unary
      /\ n.op \in Binary => Len(n.ins) = 2
      /\ n.op \in Unary => Len(n.ins) = 1
  BY NodeParts DEF Sound
<1>3. CASE n.op \in Binary
  <2>1. Len(n.ins) = 2
    BY <1>2, <1>3
  <2>2. /\ tensors'[n.ins[1]].val = tensors[n.ins[1]].val
        /\ tensors'[n.ins[2]].val = tensors[n.ins[2]].val
    BY <1>1, <2>1
  <2>3. Slope(n, 1)' = Slope(n, 1) /\ Slope(n, 2)' = Slope(n, 2)
    BY <2>2 DEF Slope, LossSlope
  <2>4. Through(n, D)' = Through(n, D)
    BY <1>3, <2>3 DEF Through
  <2>5. \A j \in 1..Len(n.ins) : j = 1 \/ j = 2
    BY <2>1
  <2>6. QED
    BY <2>3, <2>4, <2>5
<1>4. CASE n.op \in Unary
  <2>1. Len(n.ins) = 1
    BY <1>2, <1>4
  <2>2. tensors'[n.ins[1]].val = tensors[n.ins[1]].val
    BY <1>1, <2>1
  <2>3. Slope(n, 1)' = Slope(n, 1)
    BY <1>4, <2>2 DEF Slope, LossSlope, Unary
  <2>4. n.op \notin Binary
    BY <1>4 DEF Binary, Unary
  <2>5. Through(n, D)' = Through(n, D)
    BY <2>3, <2>4 DEF Through
  <2>6. \A j \in 1..Len(n.ins) : j = 1
    BY <2>1
  <2>7. QED
    BY <2>3, <2>5, <2>6
<1>5. QED
  BY <1>2, <1>3, <1>4

\* Through of a node is a function of the node and the values.
LEMMA ThroughAt ==
  ASSUME NEW i, NEW n, NEW D, tape'[i] = n
  PROVE  Through(tape[i], D)' = Through(n, D)'
BY DEF Through, Slope

\* A step that changes neither the nodes nor the values.
LEMMA TangentStays ==
  ASSUME TapeTypes, Walked, Derivable, TapeTypes', Walked', UNCHANGED tape,
         Len(tensors') = Len(tensors),
         \A t \in 1..Len(tensors) : tensors'[t].val = tensors[t].val
  PROVE  Derivable' /\ \A p \in Parameters : Tangent(p)' = Tangent(p)
<1>1. ASSUME NEW p \in Parameters, NEW D, Solves(p, D) PROVE Solves(p, D)'
  <2>1. ASSUME NEW i \in 1..Len(tape), tape[i].live
        PROVE  D[tape[i].out] = Through(tape[i], D)'
    <3>1. PICK n : n = tape[i]
      OBVIOUS
    <3>2. Through(n, D)' = Through(n, D)
      BY <3>1, NodeAt, ThroughKept
    <3>3. D[n.out] = Through(n, D)
      BY <1>1, <2>1, <3>1 DEF Solves
    <3>4. tape'[i] = n
      BY <3>1
    <3>5. Through(tape[i], D)' = Through(n, D)'
      BY <3>4, ThroughAt
    <3>6. QED
      BY <3>1, <3>2, <3>3, <3>5
  <2>2. QED
    BY <1>1, <2>1 DEF Solves
<1>2. ASSUME NEW p \in Parameters PROVE Tangent(p)' = Tangent(p) /\ \E D : Solves(p, D)'
  <2>1. PICK D : D = Tangent(p)
    OBVIOUS
  <2>2. Solves(p, D)'
    BY <1>1, <2>1, TangentFacts
  <2>3. QED
    BY <2>1, <2>2, TangentAfter
<1>3. QED
  BY <1>2 DEF Derivable

\* A node's closure is taken when those of all later nodes are gone: nothing
\* else's derivative went through it.
LEMMA TangentSpent ==
  ASSUME TapeTypes, Walked, Derivable, TapeTypes', Walked',
         NEW o \in 1..Len(tape), tape' = [tape EXCEPT ![o].live = FALSE],
         UNCHANGED tensors,
         \A i \in 1..Len(tape) : o < i => ~tape[i].live
  PROVE  /\ Derivable'
         /\ \A p \in Parameters :
              Tangent(p)' = [Tangent(p) EXCEPT ![tape[o].out] = 0]
<1>1. /\ Len(tape') = Len(tape)
      /\ tape'[o].live = FALSE /\ tape'[o].out = tape[o].out
      /\ \A i \in 1..Len(tape) : i # o => tape'[i] = tape[i]
  BY DEF TapeTypes
<1>2. Len(tape) \in Nat /\ Len(tensors) \in Nat
  BY DEF TapeTypes
<1>3. ASSUME NEW p \in Parameters, NEW D, Solves(p, D), NEW E,
             E = [D EXCEPT ![tape[o].out] = 0]
      PROVE  Solves(p, E)'
  <2>1. /\ tape[o].out \in 1..Len(tensors) /\ tape[o].out # p
        /\ p \in 1..Len(tensors)
    BY OutputIsLate
  <2>2. D \in [1..Len(tensors) -> Int] /\ D[p] = 1
    BY <1>3 DEF Solves
  <2>3. /\ E \in [1..Len(tensors) -> Int] /\ E[p] = 1 /\ E[tape[o].out] = 0
        /\ \A t \in 1..Len(tensors) : t # tape[o].out => E[t] = D[t]
    BY <1>3, <2>1, <2>2
  <2>4. ASSUME NEW t \in 1..Len(tensors), t # p,
               \A i \in 1..Len(tape) : tape'[i].live => tape'[i].out # t
        PROVE  E[t] = 0
    <3>1. CASE t = tape[o].out
      BY <2>3, <3>1
    <3>2. CASE t # tape[o].out
      <4>1. \A i \in 1..Len(tape) : tape[i].live => tape[i].out # t
        BY <1>1, <2>4, <3>2
      <4>2. D[t] = 0
        BY <1>3, <2>4, <4>1 DEF Solves
      <4>3. QED
        BY <2>3, <3>2, <4>2
    <3>3. QED
      BY <3>1, <3>2
  <2>5. ASSUME NEW i \in 1..Len(tape), tape'[i].live
        PROVE  E[tape'[i].out] = Through(tape[i], E)'
    <3>1. i # o /\ tape'[i] = tape[i] /\ tape[i].live
      BY <1>1, <2>5
    <3>2. i < o
      <4>1. ~(o < i)
        BY <3>1
      <4>2. i \in Int /\ o \in Int
        BY <1>2
      <4>3. QED
        BY <3>1, <4>1, <4>2
    <3>3. tape[i].out < tape[o].out
      BY <3>2 DEF Walked
    <3>4. tape[i].out \in 1..Len(tensors)
      BY OutputIsLate
    <3>5. E[tape[i].out] = D[tape[i].out]
      BY <2>1, <2>3, <3>3, <3>4
    <3>6. D[tape[i].out] = Through(tape[i], D)
      BY <1>3, <3>1 DEF Solves
    <3>7. Through(tape[i], D) = Through(tape[i], E)
      <4>1. \A t \in 1..Len(tensors) : t < tape[i].out => D[t] = E[t]
        BY <2>1, <2>3, <3>3, <3>4
      <4>2. QED
        BY <4>1, ThroughOnce
    <3>8. PICK n : n = tape[i]
      OBVIOUS
    <3>9. Through(n, E)' = Through(n, E)
      BY <3>8, NodeAt, ThroughKept
    <3>10. Through(tape[i], E)' = Through(n, E)'
      <4>1. tape'[i] = n
        BY <3>1, <3>8
      <4>2. QED
        BY <4>1, ThroughAt
    <3>11. QED
      BY <3>1, <3>5, <3>6, <3>7, <3>8, <3>9, <3>10
  <2>6. QED
    BY <1>1, <2>3, <2>4, <2>5 DEF Solves
<1>4. ASSUME NEW p \in Parameters
      PROVE  /\ Tangent(p)' = [Tangent(p) EXCEPT ![tape[o].out] = 0]
             /\ \E D : Solves(p, D)'
  <2>1. PICK D : D = Tangent(p)
    OBVIOUS
  <2>2. PICK E : E = [D EXCEPT ![tape[o].out] = 0]
    OBVIOUS
  <2>3. Solves(p, E)'
    BY <1>3, <2>1, <2>2, TangentFacts
  <2>4. QED
    BY <2>1, <2>2, <2>3, TangentAfter
<1>5. QED
  BY <1>4 DEF Derivable

\* On an empty tape everything is a leaf.
NothingRecorded == TapeTypes /\ tape = << >> => Derivable

LEMMA DerivableAtFirst == NothingRecorded
<1> SUFFICES ASSUME TapeTypes, tape = << >> PROVE Derivable
  BY DEF NothingRecorded
<1>1. Len(tensors) \in Nat /\ Len(LeafValues) <= Len(tensors) /\ Len(tape) = 0
  BY DEF TapeTypes
<1>2. ASSUME NEW p \in Parameters PROVE \E D : Solves(p, D)
  <2>1. PICK D : D = [t \in 1..Len(tensors) |-> IF t = p THEN 1 ELSE 0]
    OBVIOUS
  <2>2. p \in 1..Len(tensors)
    BY <1>1, Bounds DEF Parameters
  <2>3. D \in [1..Len(tensors) -> Int]
    BY <2>1
  <2>4. Solves(p, D)
    BY <1>1, <2>1, <2>2, <2>3 DEF Solves
  <2>5. QED
    BY <2>4
<1>3. QED
  BY <1>2 DEF Derivable

\* A new tensor, with a node or without one.
LEMMA TangentGrows ==
  ASSUME TapeTypes, Walked, Derivable, TapeTypes', Walked',
         Len(tensors') = Len(tensors) + 1,
         \A t \in 1..Len(tensors) : tensors'[t] = tensors[t],
         \/ UNCHANGED tape
         \/ \E n \in NodeType : tape' = Append(tape, n) /\ n.out = Len(tensors) + 1 /\ n.live
  PROVE  /\ Derivable'
         /\ \A p \in Parameters : \A t \in 1..Len(tensors) :
              Tangent(p)'[t] = Tangent(p)[t]
<1>0. PICK N, L : N = Len(tensors) /\ L = Len(tape)
  OBVIOUS
<1>1. L \in Nat /\ N \in Nat /\ N = Len(tensors) /\ L = Len(tape)
  BY <1>0 DEF TapeTypes
<1>2. /\ \A i \in 1..L : tape'[i] = tape[i]
      /\ Len(tape') \in {L, L + 1}
      /\ Len(tape') = L + 1 => tape'[L + 1].out = N + 1 /\ tape'[L + 1].live
  <2>1. CASE UNCHANGED tape
    <3>1. Len(tape') = L /\ L # L + 1
      BY <1>1, <2>1
    <3>2. QED
      BY <2>1, <3>1
  <2>2. CASE \E n \in NodeType :
                 tape' = Append(tape, n) /\ n.out = Len(tensors) + 1 /\ n.live
    <3>1. PICK n \in NodeType :
            tape' = Append(tape, n) /\ n.out = Len(tensors) + 1 /\ n.live
      BY <2>2
    <3>2. /\ \A i \in 1..L : tape'[i] = tape[i]
          /\ Len(tape') = L + 1 /\ tape'[L + 1] = n
      <4>1. tape \in Seq(NodeType)
        BY DEF TapeTypes
      <4>2. QED
        BY <1>1, <3>1, <4>1, AppendProperties
    <3>3. QED
      BY <1>1, <3>1, <3>2
  <2>3. QED
    BY <2>1, <2>2
<1>3. ASSUME NEW p \in Parameters, NEW D, Solves(p, D)
      PROVE  \E E : Solves(p, E)' /\ \A t \in 1..N : E[t] = D[t]
  <2>12. PICK x : x = IF Len(tape') = L + 1 THEN Through(tape[L + 1], D)' ELSE 0
    OBVIOUS
  <2>13. PICK E : E = [t \in 1..N + 1 |-> IF t <= N THEN D[t] ELSE x]
    OBVIOUS
  <2>1. D \in [1..N -> Int] /\ D[p] = 1
    BY <1>1, <1>3 DEF Solves
  <2>2. p \in 1..N
    BY <1>1, Bounds DEF TapeTypes, Parameters
  <2>3. \A t \in 1..N : E[t] = D[t]
    BY <1>1, <2>13
  <2>4. E[N + 1] = x
    BY <1>1, <2>13
  <2>10. ASSUME Len(tape') = L + 1
         PROVE  \E n \in NodeType :
                  /\ n = tape'[L + 1] /\ Sound(n, N + 1, Len(mem'))
                  /\ n.out = N + 1
                  /\ \A j \in 1..Len(n.ins) : n.ins[j] \in 1..N
    <3>1. L + 1 \in 1..Len(tape')
      BY <1>1, <2>10
    <3>2. PICK n : n = tape'[L + 1]
      OBVIOUS
    <3>3. n \in NodeType /\ Sound(n, N + 1, Len(mem'))
      <4>1. tape' \in Seq(NodeType)
        BY DEF TapeTypes
      <4>2. n \in NodeType
        BY <3>1, <3>2, <4>1, ElementOfSeq
      <4>3. Sound(n, Len(tensors'), Len(mem'))
        BY <3>1, <3>2 DEF TapeTypes
      <4>5. Len(tensors') = N + 1
        BY <1>1
      <4>4. QED
        BY <4>2, <4>3, <4>5
    <3>4. n.out = N + 1
      BY <1>2, <2>10, <3>2
    <3>5. ASSUME NEW j \in 1..Len(n.ins) PROVE n.ins[j] \in 1..N
      <4>1. n.ins[j] \in Ids
        BY <3>3, NodeParts
      <4>2. n.ins[j] < n.out
        BY <3>1, <3>2 DEF Walked
      <4>3. n.ins[j] \in Nat /\ 1 <= n.ins[j]
        BY <4>1, IdsAre
      <4>4. QED
        BY <1>1, <3>4, <4>2, <4>3
    <3>6. QED
      BY <3>2, <3>3, <3>4, <3>5
  <2>5. x \in Int
    <3>1. CASE Len(tape') = L + 1
      <4>1. PICK n \in NodeType :
              /\ n = tape'[L + 1] /\ Sound(n, N + 1, Len(mem'))
              /\ n.out = N + 1
              /\ \A j \in 1..Len(n.ins) : n.ins[j] \in 1..N
        BY <2>10, <3>1
      <4>2. x = Through(n, D)'
        BY <3>1, <4>1, <2>12, ThroughAt
      <4>3. \A j \in 1..Len(n.ins) : D[n.ins[j]] \in Int
        BY <2>1, <4>1
      <4>5. ThroughTyped'
        BY ThroughInt, PTL
      <4>6. Sound(n, Len(tensors'), Len(mem'))
        BY <1>1, <4>1
      <4>7. Through(n, D)' \in Int
        BY <4>3, <4>5, <4>6 DEF ThroughTyped
      <4>4. QED
        BY <4>2, <4>7
    <3>2. CASE Len(tape') # L + 1
      BY <2>12, <3>2
    <3>3. QED
      BY <3>1, <3>2
  <2>6. E \in [1..N + 1 -> Int]
    BY <1>1, <2>1, <2>5, <2>13
  <2>7. ASSUME NEW t \in 1..N + 1, t # p,
               \A i \in 1..Len(tape') : tape'[i].live => tape'[i].out # t
        PROVE  E[t] = 0
    <3>1. CASE t = N + 1
      <4>1. Len(tape') # L + 1
        BY <1>1, <1>2, <2>7, <3>1
      <4>2. QED
        BY <2>4, <2>12, <3>1, <4>1
    <3>2. CASE t # N + 1
      <4>1. t \in 1..N
        BY <1>1, <3>2
      <4>2. \A i \in 1..L : tape[i].live => tape[i].out # t
        BY <1>1, <1>2, <2>7
      <4>3. D[t] = 0
        BY <1>1, <1>3, <2>7, <4>1, <4>2 DEF Solves
      <4>4. QED
        BY <2>3, <4>1, <4>3
    <3>3. QED
      BY <3>1, <3>2
  <2>8. ASSUME NEW i \in 1..Len(tape'), tape'[i].live
        PROVE  E[tape'[i].out] = Through(tape[i], E)'
    <3>1. CASE i \in 1..L
      <4>1. tape'[i] = tape[i] /\ tape[i].live
        BY <1>2, <2>8, <3>1
      <4>2. PICK n : n = tape[i]
        OBVIOUS
      <4>3. n \in NodeType /\ Sound(n, Len(tensors), Len(mem))
        BY <1>1, <3>1, <4>2, NodeAt
      <4>4. n.out \in 1..N
        BY <1>1, <3>1, <4>2, OutputIsLate
      <4>5. D[n.out] = Through(n, D)
        BY <1>1, <1>3, <3>1, <4>1, <4>2 DEF Solves
      <4>6. \A j \in 1..Len(n.ins) : D[n.ins[j]] = E[n.ins[j]]
        <5>1. SUFFICES ASSUME NEW j \in 1..Len(n.ins) PROVE n.ins[j] \in 1..N
          BY <2>3
        <5>2. n.ins[j] \in Ids /\ n.ins[j] <= N
          <6>1. n.ins[j] \in Ids
            BY <4>3, NodeParts
          <6>2. n.ins[j] <= N
            BY <1>1, <4>3 DEF Sound
          <6>3. QED
            BY <6>1, <6>2
        <5>3. n.ins[j] \in Nat /\ 1 <= n.ins[j]
          BY <5>2, IdsAre
        <5>4. QED
          BY <1>1, <5>2, <5>3
      <4>7. Through(n, D) = Through(n, E)
        BY <4>3, <4>6, ThroughSame
      <4>8. Through(n, E)' = Through(n, E)
        <5>1. \A t \in 1..Len(tensors) : tensors'[t].val = tensors[t].val
          OBVIOUS
        <5>2. QED
          BY <4>3, <5>1, ThroughKept
      <4>9. Through(tape[i], E)' = Through(n, E)'
        BY <4>1, <4>2, ThroughAt
      <4>10. E[n.out] = D[n.out] /\ tape'[i].out = n.out
        BY <2>3, <4>1, <4>2, <4>4
      <4>11. QED
        BY <4>5, <4>7, <4>8, <4>9, <4>10
    <3>2. CASE i \notin 1..L
      <4>1. i = L + 1 /\ Len(tape') = L + 1
        BY <1>1, <1>2, <3>2
      <4>2. PICK n \in NodeType :
              /\ n = tape'[L + 1] /\ Sound(n, N + 1, Len(mem'))
              /\ n.out = N + 1
              /\ \A j \in 1..Len(n.ins) : n.ins[j] \in 1..N
        BY <2>10, <4>1
      <4>3. \A j \in 1..Len(n.ins) : D[n.ins[j]] = E[n.ins[j]]
        BY <2>3, <4>2
      <4>4. Through(n, D)' = Through(n, E)'
        <5>1. PICK m : m = Len(mem')
          OBVIOUS
        <5>2. Sound(n, N + 1, m)
          BY <4>2, <5>1
        <5>3. QED
          BY <4>3, <5>2, ThroughSame
      <4>5. Through(tape[L + 1], D)' = Through(n, D)'
        BY <4>2, ThroughAt
      <4>6. Through(tape[i], E)' = Through(n, E)'
        BY <4>1, <4>2, ThroughAt
      <4>7. x = Through(tape[L + 1], D)'
        BY <4>1, <2>12
      <4>8. E[tape'[i].out] = x
        BY <2>4, <4>1, <4>2
      <4>9. QED
        BY <4>4, <4>5, <4>6, <4>7, <4>8
    <3>3. QED
      BY <3>1, <3>2
  <2>9. Solves(p, E)'
    <3>1. Len(tensors') = N + 1
      BY <1>1
    <3>2. E[p] = 1
      BY <2>1, <2>2, <2>3
    <3>3. QED
      BY <2>6, <2>7, <2>8, <3>1, <3>2 DEF Solves
  <2>11. QED
    <3>1. QED
      BY <2>3, <2>9
<1>4. ASSUME NEW p \in Parameters
      PROVE  /\ \A t \in 1..N : Tangent(p)'[t] = Tangent(p)[t]
             /\ \E D : Solves(p, D)'
  <2>1. PICK D : D = Tangent(p)
    OBVIOUS
  <2>2. Solves(p, D)
    BY <2>1, TangentFacts
  <2>3. PICK E : Solves(p, E)' /\ \A t \in 1..N : E[t] = D[t]
    BY <1>3, <2>2
  <2>4. Tangent(p)' = E
    BY <2>3, TangentAfter
  <2>5. QED
    BY <2>1, <2>3, <2>4
<1>5. QED
  BY <1>1, <1>4 DEF Derivable
-----------------------------------------------------------------------------
\* There are finitely many tensors.
LEMMA IdsFinite == IsFiniteSet(Ids)
<1>1. 1 \in Int /\ MaxTensors \in Int
  BY Bounds
<1>2. QED
  BY <1>1, FS_Interval DEF Ids

\* What a sum over the tensors becomes when one summand changes.
LEMMA WorthUpdate ==
  ASSUME NEW v, NEW w, NEW x \in Ids,
         \A t \in Ids : v[t] \in Int, \A t \in Ids : w[t] \in Int,
         \A t \in Ids : t # x => w[t] = v[t]
  PROVE  SumOf(w, Ids) = SumOf(v, Ids) - v[x] + w[x] /\ SumOf(v, Ids) \in Int
<1>1. \A t \in Ids \ {x} : w[t] = v[t]
  OBVIOUS
<1>2. \A t \in Ids : v[t] \in Int /\ w[t] \in Int
  OBVIOUS
<1>3. SumOf(w, Ids) = SumOf(v, Ids) - v[x] + w[x]
  BY <1>1, <1>2, IdsFinite, SumUpdate
<1>4. SumOf(v, Ids) \in Int
  BY IdsFinite, SumInt
<1>5. QED
  BY <1>3, <1>4

\* What tensors hold and are worth.
WorthTyped ==
  TapeTypes /\ Walked /\ Derivable =>
    \A p \in Parameters, t \in Ids :
      /\ Found(t) \in Int /\ Worth(p)[t] \in Int
      /\ t <= Len(tensors) => Tangent(p)[t] \in Int

LEMMA WorthInt == WorthTyped
<1> SUFFICES ASSUME TapeTypes, Walked, Derivable,
                    NEW p \in Parameters, NEW t \in Ids
             PROVE  /\ Found(t) \in Int /\ Worth(p)[t] \in Int
                    /\ t <= Len(tensors) => Tangent(p)[t] \in Int
  BY DEF WorthTyped
<1>1. Found(t) \in Int
  <2>1. registry[t] \in 0..Len(mem) /\ mem \in Seq(Int) /\ Len(mem) \in Nat
    BY DEF TapeTypes
  <2>2. registry[t] # NoBuf => registry[t] \in 1..Len(mem)
    BY <2>1, Bounds
  <2>3. registry[t] # NoBuf => mem[registry[t]] \in Int
    BY <2>1, <2>2, ElementOfSeq
  <2>4. QED
    BY <2>3 DEF Found
<1>2. t <= Len(tensors) => Tangent(p)[t] \in Int
  <2>1. Tangent(p) \in [1..Len(tensors) -> Int]
    BY TangentFacts DEF Solves
  <2>2. Len(tensors) \in Nat /\ t \in Nat /\ 1 <= t
    BY IdsAre DEF TapeTypes
  <2>3. QED
    BY <2>1, <2>2
<1>3. Worth(p)[t] \in Int
  BY <1>1, <1>2 DEF Worth
<1>4. QED
  BY <1>1, <1>2, <1>3

\* Conservation holds while nothing has spoilt a gradient.
GInv ==
  /\ IInv /\ Walked /\ Derivable
  /\ upset = {} => Unspoilt /\ Balanced

\* Nothing is recorded, owed or held at first.
LEMMA GInit == Init => GInv
<1> SUFFICES ASSUME Init PROVE GInv
  OBVIOUS
<1>1. IInv
  BY InitHolds
<1>2. /\ tape = << >> /\ registry = [t \in Ids |-> NoBuf] /\ pass = AtRest
      /\ owed = [p \in Parameters |-> 0]
  BY DEF Init
<1>3. pass.on = FALSE /\ pass.todo = << >> /\ Len(tape) = 0 /\ Len(pass.todo) = 0
  BY <1>2, Bounds
<1>4. Walked
  BY <1>2, <1>3 DEF Walked
<1>5. Derivable
  BY <1>1, <1>2, DerivableAtFirst DEF NothingRecorded, IInv
<1>6. Unspoilt
  BY <1>2, <1>3 DEF Unspoilt
<1>7. Balanced
  <2>1. ASSUME NEW p \in Parameters PROVE owed[p] = SumOf(Worth(p), Ids) + Pending(p)
    <3>1. owed[p] = 0 /\ Pending(p) = 0
      BY <1>2, <1>3 DEF Pending
    <3>2. \A t \in Ids : Worth(p)[t] = 0
      <4>1. SUFFICES ASSUME NEW t \in Ids PROVE Worth(p)[t] = 0
        OBVIOUS
      <4>2. Found(t) = 0
        BY <1>2 DEF Found
      <4>3. t <= Len(tensors) => Tangent(p)[t] \in Int
        BY <1>1, <1>4, <1>5, WorthInt DEF WorthTyped, IInv
      <4>4. QED
        BY <4>2, <4>3 DEF Worth
    <3>3. SumOf(Worth(p), Ids) = 0
      BY <3>2, IdsFinite, SumZero
    <3>4. QED
      BY <3>1, <3>3
  <2>2. QED
    BY <2>1 DEF Balanced
<1>8. QED
  BY <1>1, <1>4, <1>5, <1>6, <1>7 DEF GInv

\* What changes neither nodes, values nor gradients.
LEMMA QuietKeeps ==
  ASSUME GInv, IInv',
         UNCHANGED <<tape, registry, mem, pass, owed, upset>>,
         Len(tensors') = Len(tensors),
         \A t \in 1..Len(tensors) : tensors'[t].val = tensors[t].val
  PROVE  GInv'
<1>1. IInv /\ Walked /\ Derivable /\ TapeTypes /\ TapeTypes'
  BY DEF GInv, IInv
<1>2. Walked'
  BY <1>1 DEF Walked
<1>3. Derivable' /\ \A p \in Parameters : Tangent(p)' = Tangent(p)
  BY <1>1, <1>2, TangentStays
<1>4. ASSUME Unspoilt PROVE Unspoilt'
  <2>1. ASSUME NEW i \in 1..Len(tape), tape[i].op = "cross_entropy"
        PROVE  tensors'[tape[i].ins[1]].val = tensors[tape[i].ins[1]].val
    <3>1. PICK n : n = tape[i]
      OBVIOUS
    <3>2. n \in NodeType /\ Sound(n, Len(tensors), Len(mem)) /\ n.op \notin Binary
      BY <1>1, <2>1, <3>1, NodeAt DEF Binary
    <3>3. n.ins[1] \in 1..Len(tensors)
      BY <1>1, <3>2, OperandsIn
    <3>4. QED
      BY <3>1, <3>3
  <2>2. QED
    BY <1>4, <2>1 DEF Unspoilt, LossSlope
<1>5. ASSUME Balanced PROVE Balanced'
  <2>1. ASSUME NEW p \in Parameters
        PROVE  Worth(p)' = Worth(p) /\ Pending(p)' = Pending(p)
    <3>1. Tangent(p)' = Tangent(p)
      BY <1>3
    <3>2. Worth(p)' = Worth(p)
      BY <3>1 DEF Worth, Found
    <3>3. Pending(p)' = Pending(p)
      BY <3>1 DEF Pending, Due
    <3>4. QED
      BY <3>2, <3>3
  <2>2. ASSUME NEW p \in Parameters
        PROVE  owed'[p] = SumOf(Worth(p)', Ids) + Pending(p)'
    BY <1>5, <2>1 DEF Balanced
  <2>3. QED
    BY <2>2 DEF Balanced
<1>6. QED
  BY <1>1, <1>2, <1>3, <1>4, <1>5 DEF GInv

\* The walk has met every node, so none has its closure.
LEMMA FinishKeeps ==
  ASSUME GInv, IInv', FinishPass
  PROVE  GInv'
<1>1. /\ IInv /\ Walked /\ Derivable /\ TapeTypes /\ TapeTypes'
      /\ UNCHANGED <<tape, registry, mem, owed, upset, tensors>>
      /\ pass.on /\ pass.node = 0 /\ pass.todo = << >> /\ pass' = AtRest
  BY DEF GInv, IInv, FinishPass, graph, grads, past, debts
<1>2. Len(pass.todo) = 0 /\ pass'.on = FALSE /\ Len(pass'.todo) = 0 /\ pass'.todo = << >>
  BY <1>1, Bounds
<1>3. \A i \in 1..Len(tape) : ~tape[i].live
  <2>1. \A i \in 1..Len(tape) : pass.node < i
    BY <1>1 DEF TapeTypes
  <2>2. QED
    BY <1>1, <2>1 DEF Walked
<1>4. Walked'
  BY <1>1, <1>2 DEF Walked
<1>5. Derivable' /\ \A p \in Parameters : Tangent(p)' = Tangent(p)
  BY <1>1, <1>4, TangentStays
<1>6. Unspoilt'
  BY <1>1, <1>2, <1>3 DEF Unspoilt
<1>7. ASSUME Balanced PROVE Balanced'
  <2>1. ASSUME NEW p \in Parameters
        PROVE  Worth(p)' = Worth(p) /\ Pending(p)' = Pending(p)
    <3>1. Tangent(p)' = Tangent(p)
      BY <1>5
    <3>2. Worth(p)' = Worth(p)
      BY <1>1, <3>1 DEF Worth, Found
    <3>3. Pending(p)' = Pending(p)
      BY <1>2 DEF Pending
    <3>4. QED
      BY <3>2, <3>3
  <2>2. ASSUME NEW p \in Parameters
        PROVE  owed'[p] = SumOf(Worth(p)', Ids) + Pending(p)'
    BY <1>1, <1>7, <2>1 DEF Balanced
  <2>3. QED
    BY <2>2 DEF Balanced
<1>8. QED
  BY <1>1, <1>4, <1>5, <1>6, <1>7 DEF GInv

\* clear() forgets the nodes, the gradients and the debts alike.
LEMMA ClearKeeps ==
  ASSUME GInv, IInv', Clear
  PROVE  GInv'
<1>1. /\ IInv' /\ TapeTypes' /\ TapeTypes /\ ~pass.on
      /\ tape' = << >> /\ registry' = [t \in Ids |-> NoBuf] /\ pass' = pass
      /\ owed' = [p \in Parameters |-> 0] /\ tensors' = tensors
  BY DEF GInv, IInv, Clear, Drained
<1>2. pass = AtRest
  BY <1>1 DEF TapeTypes
<1>3. /\ pass'.on = FALSE /\ pass'.todo = << >> /\ Len(tape') = 0
      /\ Len(pass'.todo) = 0
  BY <1>1, <1>2, Bounds
<1>4. Walked'
  BY <1>1, <1>3 DEF Walked
<1>5. Derivable'
  <2>1. NothingRecorded'
    BY DerivableAtFirst, PTL
  <2>2. QED
    BY <1>1, <2>1 DEF NothingRecorded
<1>6. Unspoilt'
  BY <1>1, <1>3 DEF Unspoilt
<1>7. Balanced'
  <2>1. ASSUME NEW p \in Parameters
        PROVE  owed'[p] = SumOf(Worth(p)', Ids) + Pending(p)'
    <3>1. owed'[p] = 0 /\ Pending(p)' = 0
      BY <1>1, <1>3 DEF Pending
    <3>2. \A t \in Ids : Worth(p)'[t] = 0
      <4>1. SUFFICES ASSUME NEW t \in Ids PROVE Worth(p)'[t] = 0
        OBVIOUS
      <4>2. Found(t)' = 0
        BY <1>1 DEF Found
      <4>3. t <= Len(tensors') => Tangent(p)'[t] \in Int
        <5>1. WorthTyped'
          BY WorthInt, PTL
        <5>2. QED
          BY <1>1, <1>4, <1>5, <5>1 DEF WorthTyped
      <4>4. QED
        BY <4>2, <4>3 DEF Worth
    <3>3. SumOf(Worth(p)', Ids) = 0
      BY <3>2, IdsFinite, SumZero
    <3>4. QED
      BY <3>1, <3>3
  <2>2. QED
    BY <2>1 DEF Balanced
<1>8. QED
  BY <1>1, <1>4, <1>5, <1>6, <1>7 DEF GInv

\* The walk takes the closure of the node it is at.
LEMMA SpendKeeps ==
  ASSUME IInv, IInv', Walked, Derivable, AtNode, Spend,
         UNCHANGED <<tensors, registry>>,
         pass'.on => pass'.node = pass.node - 1,
         Len(pass'.todo) <= 2,
         \A k \in 1..Len(pass'.todo) : pass'.todo[k].to <= Len(tensors)
  PROVE  /\ pass.node \in 1..Len(tape) /\ Len(tape') = Len(tape)
         /\ tape'[pass.node] = [tape[pass.node] EXCEPT !.live = FALSE]
         /\ \A i \in 1..Len(tape) : i # pass.node => tape'[i] = tape[i]
         /\ \A i \in 1..Len(tape) : tape'[i].live => tape[i].live /\ i < pass.node
         /\ Walked' /\ Derivable'
         /\ \A p \in Parameters :
              Tangent(p)' = [Tangent(p) EXCEPT ![tape[pass.node].out] = 0]
<1>1. /\ TapeTypes /\ TapeTypes' /\ pass.on /\ pass.node > 0 /\ pass.node <= Len(tape)
      /\ pass.node \in Nat /\ Len(tape) \in Nat
      /\ tape \in Seq(NodeType)
      /\ tape' = [tape EXCEPT ![pass.node].live = FALSE]
  <2>1. TapeTypes /\ TapeTypes'
    BY DEF IInv
  <2>2. /\ pass \in [on : BOOLEAN, node : Nat, todo : Seq(Todo)]
        /\ pass.node <= Len(tape) /\ tape \in Seq(NodeType) /\ Len(tape) \in Nat
    BY <2>1 DEF TapeTypes
  <2>3. /\ pass.on /\ pass.node > 0
        /\ tape' = [tape EXCEPT ![pass.node].live = FALSE]
    BY DEF AtNode, Spend
  <2>4. pass.node \in Nat
    BY <2>2
  <2>5. QED
    BY <2>1, <2>2, <2>3, <2>4
<1>2. PICK o : o = pass.node
  OBVIOUS
<1>3. o \in 1..Len(tape) /\ tape' = [tape EXCEPT ![o].live = FALSE]
  BY <1>1, <1>2
<1>4. /\ Len(tape') = Len(tape)
      /\ tape'[o] = [tape[o] EXCEPT !.live = FALSE]
      /\ \A i \in 1..Len(tape) : i # o => tape'[i] = tape[i]
  <2>1. tape[o] \in NodeType /\ tape \in Seq(NodeType)
    BY <1>1, <1>3, NodeAt
  <2>2. PICK x : x = [tape[o] EXCEPT !.live = FALSE]
    OBVIOUS
  <2>3. x \in NodeType
    BY <2>1, <2>2 DEF NodeType
  <2>4. tape' = [tape EXCEPT ![o] = x]
    BY <1>3, <2>2
  <2>5. /\ Len(tape') = Len(tape)
        /\ \A i \in 1..Len(tape) : tape'[i] = IF i = o THEN x ELSE tape[i]
    <3>1. \A q \in Seq(NodeType) : o \in 1..Len(q) =>
            /\ Len([q EXCEPT ![o] = x]) = Len(q)
            /\ \A i \in 1..Len(q) : [q EXCEPT ![o] = x][i] = IF i = o THEN x ELSE q[i]
      BY <2>3, ExceptSeq
    <3>2. QED
      BY <1>3, <2>1, <2>4, <3>1
  <2>6. QED
    BY <1>3, <2>2, <2>5
<1>5. tape[o] \in NodeType
  BY <1>1, <1>3, NodeAt
<1>6. /\ ~tape'[o].live /\ tape'[o].out = tape[o].out /\ tape'[o].ins = tape[o].ins
  BY <1>4, <1>5 DEF NodeType
<1>7. \A i \in 1..Len(tape) : o < i => ~tape[i].live
  BY <1>1, <1>2 DEF Walked
<1>8. \A i \in 1..Len(tape) : tape'[i].live => tape[i].live /\ i < o
  <2>1. SUFFICES ASSUME NEW i \in 1..Len(tape), tape'[i].live
                 PROVE  tape[i].live /\ i < o
    OBVIOUS
  <2>2. i # o
    BY <1>6, <2>1
  <2>3. tape[i].live
    BY <1>4, <2>1, <2>2
  <2>4. ~(o < i)
    BY <1>7, <2>3
  <2>5. QED
    BY <1>1, <1>2, <2>2, <2>3, <2>4
<1>9. Walked'
  <2>1. \A i \in 1..Len(tape) : tape'[i].out = tape[i].out /\ tape'[i].ins = tape[i].ins
    BY <1>4, <1>6
  <2>2. ASSUME NEW i \in 1..Len(tape), pass'.on, pass'.node < i PROVE ~tape'[i].live
    <3>1. ~(i < o)
      BY <1>1, <1>2, <2>2
    <3>2. QED
      BY <1>8, <3>1
  <2>3. QED
    BY <1>4, <2>1, <2>2 DEF Walked
<1>10. /\ Derivable'
       /\ \A p \in Parameters :
            Tangent(p)' = [Tangent(p) EXCEPT ![tape[o].out] = 0]
  BY <1>1, <1>3, <1>7, <1>9, TangentSpent
<1>11. QED
  BY <1>2, <1>3, <1>4, <1>8, <1>9, <1>10

\* A pass that fails leaves some nodes spent; nothing more is promised.
LEMMA FailKeeps ==
  ASSUME GInv, IInv', FailPass
  PROVE  GInv'
<1>1. /\ IInv /\ Walked /\ Derivable /\ TapeTypes /\ TapeTypes'
      /\ UNCHANGED <<registry, tensors>>
      /\ pass' = AtRest /\ upset' # {}
  BY DEF GInv, IInv, FailPass, graph, grads, past, debts
<1>2. pass'.on = FALSE /\ Len(pass'.todo) = 0 /\ pass'.todo = << >>
  BY <1>1, Bounds
<1>3. Walked' /\ Derivable'
  <2>1. CASE AtNode /\ Spend
    BY <1>1, <1>2, <2>1, SpendKeeps
  <2>2. CASE UNCHANGED tape
    <3>1. Walked'
      BY <1>1, <1>2, <2>2 DEF Walked
    <3>2. QED
      BY <1>1, <2>2, <3>1, TangentStays
  <2>3. QED
    BY <2>1, <2>2 DEF FailPass
<1>4. QED
  BY <1>1, <1>3 DEF GInv

\* What a skipped node's output holds is worth nothing before or after.
LEMMA SkipKeeps ==
  ASSUME GInv, IInv', SkipNode
  PROVE  GInv'
<1>1. /\ IInv /\ Walked /\ Derivable /\ TapeTypes /\ TapeTypes'
      /\ AtNode /\ Spend /\ pass.on /\ pass.todo = << >>
      /\ UNCHANGED <<registry, tensors, mem, owed, upset>>
      /\ pass' = [pass EXCEPT !.node = @ - 1]
      /\ Skippable(tape[pass.node])
  BY DEF GInv, IInv, SkipNode, AtNode, grads, past, debts
<1>2. /\ pass'.on /\ pass'.node = pass.node - 1 /\ pass'.todo = << >>
      /\ Len(pass'.todo) = 0 /\ Len(pass.todo) = 0
  BY <1>1 DEF TapeTypes
<1>3. PICK o : o = pass.node
  OBVIOUS
<1>4. /\ o \in 1..Len(tape) /\ Len(tape') = Len(tape)
      /\ tape'[o] = [tape[o] EXCEPT !.live = FALSE]
      /\ \A i \in 1..Len(tape) : i # o => tape'[i] = tape[i]
      /\ \A i \in 1..Len(tape) : tape'[i].live => tape[i].live /\ i < o
      /\ Walked' /\ Derivable'
      /\ \A p \in Parameters :
           Tangent(p)' = [Tangent(p) EXCEPT ![tape[o].out] = 0]
  BY <1>1, <1>2, <1>3, SpendKeeps
<1>5. ASSUME Unspoilt PROVE Unspoilt'
  <2>1. \A i \in 1..Len(tape) : i < o => i # o
    BY <1>4
  <2>2. \A i \in 1..Len(tape) : tape'[i].saved = tape[i].saved
    <3>1. tape[o] \in NodeType
      BY <1>1, <1>4, NodeAt
    <3>2. tape'[o].saved = tape[o].saved
      BY <1>4, <3>1 DEF NodeType
    <3>3. QED
      BY <1>4, <3>2
  <2>3. \A i \in 1..Len(tape) : tape'[i].live => tape'[i] = tape[i] /\ tape[i].live
    BY <1>4, <2>1
  <2>4. QED
    BY <1>1, <1>2, <1>4, <1>5, <2>2, <2>3 DEF Unspoilt
<1>6. ASSUME Balanced PROVE Balanced'
  <2>1. ASSUME NEW p \in Parameters
        PROVE  SumOf(Worth(p)', Ids) = SumOf(Worth(p), Ids)
    <3>1. ASSUME NEW t \in Ids PROVE Worth(p)'[t] = Worth(p)[t]
      <4>1. Found(t)' = Found(t) /\ Found(t) \in Int
        BY <1>1, <2>1, WorthInt DEF Found, WorthTyped
      <4>2. /\ tape[o].out \in 1..Len(tensors) /\ tape[o].out # p
            /\ p \in 1..Len(tensors)
        BY <1>1, <1>4, OutputIsLate
      <4>3. Solves(p, Tangent(p))
        BY <1>1, TangentFacts
      <4>4. Tangent(p) \in [1..Len(tensors) -> Int]
        BY <4>3 DEF Solves
      <4>5. Len(tensors) \in Nat /\ t \in Nat /\ 1 <= t
        BY <1>1, IdsAre DEF TapeTypes
      <4>6. CASE t # tape[o].out \/ Len(tensors) < t
        <5>1. t <= Len(tensors) => Tangent(p)'[t] = Tangent(p)[t]
          BY <1>4, <4>2, <4>4, <4>5, <4>6
        <5>2. QED
          BY <1>1, <4>1, <5>1 DEF Worth
      <4>7. CASE t = tape[o].out /\ t <= Len(tensors)
        <5>1. Tangent(p)'[t] = 0
          BY <1>4, <4>2, <4>4, <4>7
        <5>2. Found(t) = 0 \/ Tangent(p)[t] = 0
          <6>1. CASE registry[t] = NoBuf
            BY <6>1 DEF Found
          <6>2. CASE ~tape[o].live
            <7>1. \A i \in 1..Len(tape) : tape[i].live => tape[i].out # t
              <8>1. SUFFICES ASSUME NEW i \in 1..Len(tape), tape[i].live,
                                    tape[i].out = tape[o].out
                             PROVE  FALSE
                BY <4>7
              <8>2. NodesOf(tape[i].out) = {i}
                BY <1>1, <8>1, NodeOfOutput
              <8>3. i # o
                BY <6>2, <8>1
              <8>4. tape[i].out < tape[o].out \/ tape[o].out < tape[i].out
                <9>1. i < o \/ o < i
                  BY <1>4, <8>3
                <9>2. QED
                  BY <1>1, <1>4, <9>1 DEF Walked
              <8>5. QED
                BY <4>2, <8>1, <8>4
            <7>2. QED
              BY <4>2, <4>3, <4>7, <7>1 DEF Solves
          <6>3. QED
            BY <1>1, <1>3, <4>7, <6>1, <6>2 DEF Skippable
        <5>3. Tangent(p)[t] \in Int
          BY <4>2, <4>4, <4>7
        <5>4. Worth(p)'[t] = Found(t)' * Tangent(p)'[t]
          BY <1>1, <4>7 DEF Worth
        <5>5. Worth(p)[t] = Found(t) * Tangent(p)[t]
          BY <4>7 DEF Worth
        <5>6. QED
          BY <4>1, <5>1, <5>2, <5>3, <5>4, <5>5
      <4>8. QED
        BY <4>5, <4>6, <4>7
    <3>2. QED
      BY <3>1, IdsFinite, SumSame
  <2>2. ASSUME NEW p \in Parameters
        PROVE  owed'[p] = SumOf(Worth(p)', Ids) + Pending(p)'
    <3>1. Pending(p) = 0 /\ Pending(p)' = 0
      BY <1>2 DEF Pending
    <3>2. QED
      BY <1>1, <1>6, <2>1, <3>1 DEF Balanced
  <2>3. QED
    BY <2>2 DEF Balanced
<1>7. QED
  BY <1>1, <1>4, <1>5, <1>6 DEF GInv

\* cross_entropy's saved buffer is one of those allocated.
LEMMA SavedIs ==
  ASSUME TapeTypes, NEW i \in 1..Len(tape), tape[i].op = "cross_entropy"
  PROVE  tape[i].saved \in 1..Len(mem)
<1>1. PICK n : n = tape[i]
  OBVIOUS
<1>2. n \in NodeType /\ Sound(n, Len(tensors), Len(mem))
  BY <1>1, NodeAt
<1>3. n.saved \in Nat /\ n.saved <= Len(mem) /\ n.saved # 0
  BY <1>1, <1>2, NodeParts, Bounds DEF Sound
<1>4. QED
  BY <1>1, <1>3 DEF TapeTypes

\* What a tensor without a live node holds is worth nothing to others.
LEMMA DeadOutput ==
  ASSUME TapeTypes, Walked, Derivable, NEW p \in Parameters,
         NEW t \in 1..Len(tensors), t # p,
         \A i \in 1..Len(tape) : tape[i].live /\ tape[i].out = t =>
                                   registry[t] = NoBuf
  PROVE  Worth(p)[t] = 0
<1>1. t \in Ids /\ t <= Len(tensors) /\ Len(tensors) \in Nat
  <2>1. t <= Len(tensors) /\ Len(tensors) \in Nat /\ Len(tensors) <= MaxTensors
    BY DEF TapeTypes
  <2>2. QED
    BY <2>1, Bounds DEF Ids
<1>2. Worth(p)[t] = Found(t) * Tangent(p)[t]
  BY <1>1 DEF Worth
<1>3. Found(t) \in Int /\ Tangent(p)[t] \in Int
  BY <1>1, WorthInt DEF WorthTyped
<1>4. Found(t) = 0 \/ Tangent(p)[t] = 0
  <2>1. CASE registry[t] = NoBuf
    BY <2>1 DEF Found
  <2>2. CASE registry[t] # NoBuf
    <3>1. \A i \in 1..Len(tape) : tape[i].live => tape[i].out # t
      BY <2>2
    <3>2. QED
      BY <3>1, TangentFacts DEF Solves
  <2>3. QED
    BY <2>1, <2>2
<1>5. QED
  BY <1>2, <1>3, <1>4

\* The seed at the loss is worth what the pass owes, as long as no closure
\* behind the loss is gone; what it displaces was worth nothing, for the
\* loss's node is spent or held no gradient.
LEMMA BackwardKeeps ==
  ASSUME GInv, Referred, IInv', NEW loss \in Outputs, NEW seed \in Int, Backward(loss, seed)
  PROVE  GInv'
<1>1. /\ IInv /\ Walked /\ Derivable /\ TapeTypes /\ TapeTypes'
      /\ UNCHANGED <<tape, tensors>> /\ ~pass.on
      /\ upset' = upset \cup Spoilt(loss)
      /\ mem' = Append(mem, seed)
      /\ registry' = [registry EXCEPT ![loss] = Len(mem) + 1]
      /\ pass' = [on |-> TRUE, node |-> Len(tape), todo |-> << >>]
      /\ owed' = [p \in Parameters |-> owed[p] + seed * dual[loss].by[p]]
  BY DEF GInv, IInv, Backward, graph
<1>2. /\ pass'.on /\ pass'.node = Len(tape) /\ pass'.todo = << >>
      /\ Len(pass'.todo) = 0 /\ Len(pass.todo) = 0
  <2>1. pass = AtRest
    BY <1>1 DEF TapeTypes
  <2>2. QED
    BY <1>1, <2>1, Bounds
<1>3. PICK m : m = Len(mem)
  OBVIOUS
<1>4. /\ m \in Nat /\ Len(tensors) \in Nat /\ Len(tape) \in Nat
      /\ \A b \in 1..m : mem'[b] = mem[b]
      /\ mem'[m + 1] = seed
      /\ registry \in [Ids -> 0..m]
  <2>1. mem \in Seq(Int) /\ m = Len(mem) /\ m \in Nat
    BY <1>1, <1>3 DEF TapeTypes
  <2>2. (\A b \in 1..m : mem'[b] = mem[b]) /\ mem'[m + 1] = seed
    BY <1>1, <2>1, AppendProperties
  <2>3. QED
    BY <1>1, <1>3, <2>1, <2>2 DEF TapeTypes
<1>5. loss \in 1..Len(tensors) /\ loss \in Ids /\ loss \notin Parameters
  <2>1. loss \in 1..Len(tensors) /\ loss \notin Parameters
    BY <1>1 DEF Outputs, TapeTypes
  <2>2. Len(tensors) \in Nat /\ Len(tensors) <= MaxTensors
    BY <1>1 DEF TapeTypes
  <2>3. QED
    BY <2>1, <2>2, Bounds DEF Ids
<1>6. /\ registry'[loss] = m + 1
      /\ \A t \in Ids : t # loss => registry'[t] = registry[t]
  BY <1>1, <1>3, <1>4, <1>5
<1>7. Walked'
  <2>1. \A t \in Ids : Len(tensors) < t => registry'[t] = NoBuf
    <3>1. \A t \in Ids : Len(tensors) < t => t # loss
      BY <1>4, <1>5
    <3>2. QED
      BY <1>1, <1>6, <3>1 DEF Walked
  <2>2. \A i \in 1..Len(tape) : ~(Len(tape) < i)
    BY <1>4
  <2>3. QED
    BY <1>1, <1>2, <2>1, <2>2 DEF Walked
<1>8. Derivable' /\ \A p \in Parameters : Tangent(p)' = Tangent(p)
  BY <1>1, <1>7, TangentStays
<1>9. ASSUME Unspoilt PROVE Unspoilt'
  <2>1. ASSUME NEW i \in 1..Len(tape), tape[i].live, tape[i].op = "cross_entropy"
        PROVE  /\ mem'[tape[i].saved] = LossSlope(tensors[tape[i].ins[1]].val)
               /\ \A t \in Ids : registry'[t] # tape[i].saved
               /\ \A k \in 1..Len(tape) : tape[k].saved = tape[i].saved => k = i
    <3>1. tape[i].saved \in 1..m
      BY <1>1, <1>3, <2>1, SavedIs
    <3>2. tape[i].saved # m + 1
      BY <1>4, <3>1
    <3>3. /\ mem[tape[i].saved] = LossSlope(tensors[tape[i].ins[1]].val)
          /\ \A t \in Ids : registry[t] # tape[i].saved
          /\ \A k \in 1..Len(tape) : tape[k].saved = tape[i].saved => k = i
      BY <1>9, <2>1 DEF Unspoilt
    <3>4. QED
      BY <1>4, <1>6, <3>1, <3>2, <3>3
  <2>2. \A k \in 1..Len(pass'.todo) : FALSE
    BY <1>2
  <2>3. \A i \in 1..Len(tape) :
          LossSlope(tensors[tape[i].ins[1]].val)'
            = LossSlope(tensors[tape[i].ins[1]].val)
    BY <1>1 DEF LossSlope
  <2>4. tape' = tape /\ pass'.on /\ Len(pass'.todo) # 2
    BY <1>1, <1>2
  <2>5. QED
    BY <2>1, <2>2, <2>3, <2>4 DEF Unspoilt
<1>10. ASSUME Unspoilt, Balanced, upset' = {} PROVE Balanced'
  <2>0. Intact(loss)
    <3>1. Spoilt(loss) = {}
      BY <1>1, <1>10
    <3>2. "again" \notin Spoilt(loss) /\ "lost" \notin Spoilt(loss)
          /\ "emptied" \notin Spoilt(loss)
      BY <3>1
    <3>3. dual[loss].via \cap asked = {} /\ ~Taken(loss)
      BY <3>2 DEF Spoilt
    <3>4. QED
      BY <3>3 DEF Taken, Intact
  <2>1. ASSUME NEW p \in Parameters
        PROVE  SumOf(Worth(p)', Ids)
                 = SumOf(Worth(p), Ids) + seed * Tangent(p)[loss]
    <3>1. Tangent(p)' = Tangent(p) /\ p # loss
      BY <1>5, <1>8
    <3>2. ASSUME NEW t \in Ids, t # loss PROVE Worth(p)'[t] = Worth(p)[t]
      <4>1. registry[t] \in 0..m /\ registry'[t] = registry[t]
        BY <1>4, <1>6, <3>2
      <4>2. registry[t] # NoBuf => registry[t] \in 1..m
        BY <1>4, <4>1, Bounds
      <4>3. Found(t)' = Found(t)
        BY <1>4, <4>1, <4>2 DEF Found
      <4>4. QED
        BY <1>1, <3>1, <4>3 DEF Worth
    <3>3. Worth(p)[loss] = 0
      <4>1. \A i \in 1..Len(tape) : tape[i].live => registry[tape[i].out] = NoBuf
        BY <1>1, <1>10 DEF Unspoilt
      <4>2. QED
        BY <1>1, <1>5, <3>1, <4>1, DeadOutput
    <3>4. Worth(p)'[loss] = seed * Tangent(p)[loss]
      <4>1. Found(loss)' = seed
        BY <1>4, <1>6, Bounds DEF Found
      <4>2. loss <= Len(tensors')
        BY <1>1, <1>4, <1>5
      <4>3. QED
        BY <1>5, <3>1, <4>1, <4>2 DEF Worth
    <3>5. \A t \in Ids : Worth(p)[t] \in Int /\ Worth(p)'[t] \in Int
      <4>1. WorthTyped'
        BY WorthInt, PTL
      <4>2. QED
        BY <1>1, <1>7, <1>8, <4>1, WorthInt DEF WorthTyped
    <3>6. /\ SumOf(Worth(p)', Ids)
               = SumOf(Worth(p), Ids) - Worth(p)[loss] + Worth(p)'[loss]
          /\ SumOf(Worth(p), Ids) \in Int
      <4>1. PICK v, w : v = Worth(p) /\ w = Worth(p)'
        OBVIOUS
      <4>2. /\ \A t \in Ids : v[t] \in Int
            /\ \A t \in Ids : w[t] \in Int
            /\ \A t \in Ids : t # loss => w[t] = v[t]
        BY <3>2, <3>5, <4>1
      <4>3. loss \in Ids
        BY <1>5
      <4>4. /\ SumOf(w, Ids) = SumOf(v, Ids) - v[loss] + w[loss]
            /\ SumOf(v, Ids) \in Int
        BY <4>2, <4>3, WorthUpdate
      <4>5. QED
        BY <4>1, <4>4
    <3>7. Worth(p)'[loss] \in Int
      BY <1>5, <3>5
    <3>8. QED
      BY <3>3, <3>4, <3>6, <3>7
  <2>2. ASSUME NEW p \in Parameters
        PROVE  owed'[p] = SumOf(Worth(p)', Ids) + Pending(p)'
    <3>1. Pending(p) = 0 /\ Pending(p)' = 0
      BY <1>2 DEF Pending
    <3>2. owed[p] = SumOf(Worth(p), Ids) + 0
      BY <1>10, <3>1 DEF Balanced
    <3>3. owed'[p] = owed[p] + seed * Tangent(p)[loss]
      <4>1. Tangent(p)[loss] = dual[loss].by[p]
        BY <1>5, <2>0 DEF Referred
      <4>2. QED
        BY <1>1, <4>1
    <3>4. SumOf(Worth(p), Ids) \in Int
      <4>1. \A t \in Ids : Worth(p)[t] \in Int
        BY <1>1, WorthInt DEF WorthTyped
      <4>2. QED
        BY <4>1, IdsFinite, SumInt
    <3>5. Tangent(p)[loss] \in Int
      BY <1>1, <1>5, TangentFacts DEF Solves
    <3>6. seed * Tangent(p)[loss] \in Int
      BY <3>5
    <3>7. QED
      BY <2>1, <3>1, <3>2, <3>3, <3>4, <3>6
  <2>3. QED
    BY <2>2 DEF Balanced
<1>11. upset' = {} => upset = {}
  BY <1>1
<1>12. QED
  BY <1>1, <1>7, <1>8, <1>9, <1>10, <1>11 DEF GInv

\* A new tensor holds no gradient, and no derivative of an older one changes.
LEMMA ForwardKeeps ==
  ASSUME GInv, IInv', NEW op \in Binary \cup Unary, NEW ins \in Seq(DOMAIN tensors),
         op \in Unary => Len(ins) = 1,
         Forward(op, ins)
  PROVE  GInv'
<1>0. PICK m, N, L : m = Len(mem) /\ N = Len(tensors) /\ L = Len(tape)
  OBVIOUS
<1>1. /\ IInv /\ Walked /\ Derivable /\ TapeTypes /\ TapeTypes'
      /\ UNCHANGED <<registry, pass, owed, upset>> /\ ~pass.on
  BY DEF GInv, IInv, Forward, past, debts
<1>2. /\ m \in Nat /\ N \in Nat /\ L \in Nat
      /\ tensors \in Seq([val : Int, req : BOOLEAN]) /\ mem \in Seq(Int)
      /\ tape \in Seq(NodeType) /\ tape' \in Seq(NodeType)
      /\ registry \in [Ids -> 0..m] /\ DOMAIN tensors = 1..N
      /\ Len(LeafValues) <= N /\ Len(LeafValues) \in Nat
  BY <1>0, <1>1, Bounds DEF TapeTypes
<1>3. pass = AtRest /\ pass.todo = << >> /\ Len(pass.todo) = 0
  BY <1>1, Bounds DEF TapeTypes
<1>4. Len(tensors') = N + 1 /\ \A t \in 1..N : tensors'[t] = tensors[t]
  <2>1. PICK x : tensors' = Append(tensors, x)
    BY DEF Forward
  <2>2. PICK S : tensors \in Seq(S)
    BY <1>2
  <2>4. tensors \in Seq(S \cup {x})
    BY <2>2
  <2>3. QED
    BY <1>0, <2>1, <2>4, AppendProperties
<1>5. N + 1 \in Ids
  <2>1. N + 1 <= MaxTensors
    BY <1>1, <1>4 DEF TapeTypes
  <2>2. QED
    BY <1>2, <2>1, Bounds DEF Ids
<1>6. \A j \in 1..Len(ins) : ins[j] \in 1..N
  BY <1>2, ElementOfSeq
<1>7. \/ UNCHANGED <<tape, mem>>
      \/ \E n \in NodeType :
           /\ tape' = Append(tape, n) /\ Len(tape') = L + 1 /\ tape'[L + 1] = n
           /\ \A i \in 1..L : tape'[i] = tape[i]
           /\ n.op = op /\ n.out = N + 1 /\ n.live /\ n.ins = ins
           /\ \/ op # "cross_entropy" /\ mem' = mem /\ n.saved = NoBuf
              \/ /\ op = "cross_entropy" /\ n.saved = m + 1
                 /\ mem' = Append(mem, LossSlope(tensors[ins[1]].val))
  <2>1. CASE ~(recording /\ Tracked(ins))
    BY <2>1 DEF Forward
  <2>2. CASE recording /\ Tracked(ins)
    <3>1. PICK saved : /\ tape' = Append(tape, Node(op, ins, saved))
                       /\ \/ op # "cross_entropy" /\ mem' = mem /\ saved = NoBuf
                          \/ /\ op = "cross_entropy" /\ saved = m + 1
                             /\ mem' = Append(mem, LossSlope(tensors[ins[1]].val))
      BY <1>0, <2>2 DEF Forward
    <3>2. PICK n : n = Node(op, ins, saved)
      OBVIOUS
    <3>3. n.op = op /\ n.out = N + 1 /\ n.live /\ n.ins = ins /\ n.saved = saved
      BY <1>0, <3>2 DEF Node
    <3>4. tape \in Seq(NodeType \cup {n})
      BY <1>2
    <3>5. /\ Len(tape') = L + 1 /\ tape'[L + 1] = n
          /\ \A i \in 1..L : tape'[i] = tape[i]
      BY <1>0, <3>1, <3>2, <3>4, AppendProperties
    <3>6. n \in NodeType
      <4>1. L + 1 \in 1..Len(tape')
        BY <1>2, <3>5
      <4>2. QED
        BY <1>2, <3>5, <4>1, ElementOfSeq
    <3>7. tape' = Append(tape, n)
      BY <3>1, <3>2
    <3>8. QED
      BY <3>1, <3>3, <3>5, <3>6, <3>7
  <2>3. QED
    BY <2>1, <2>2
<1>8. /\ \A b \in 1..m : mem'[b] = mem[b]
      /\ op = "cross_entropy" /\ mem' = Append(mem, LossSlope(tensors[ins[1]].val))
           => mem'[m + 1] = LossSlope(tensors[ins[1]].val)
  <2>1. CASE mem' = mem
    BY <1>0, <1>7, <2>1
  <2>2. CASE mem' # mem
    <3>1. PICK x : x = LossSlope(tensors[ins[1]].val)
      OBVIOUS
    <3>2. mem' = Append(mem, x)
      BY <1>7, <2>2, <3>1
    <3>3. mem \in Seq(Int \cup {x})
      BY <1>2
    <3>4. (\A b \in 1..m : mem'[b] = mem[b]) /\ mem'[m + 1] = x
      BY <1>0, <3>2, <3>3, AppendProperties
    <3>5. QED
      BY <3>1, <3>4
  <2>3. QED
    BY <2>1, <2>2
<1>9. Walked'
  <2>1. /\ \A i \in 1..L : /\ Len(LeafValues) < tape[i].out /\ tape[i].out <= N
                           /\ \A j \in 1..Len(tape[i].ins) : tape[i].ins[j] < tape[i].out
        /\ \A i, k \in 1..L : i < k => tape[i].out < tape[k].out
        /\ \A t \in Ids : N < t => registry[t] = NoBuf
    BY <1>0, <1>1 DEF Walked
  <2>2. \A i \in 1..L : tape[i].out \in Nat /\ tape[i].out <= N + 1
    <3>1. SUFFICES ASSUME NEW i \in 1..L
                   PROVE  tape[i].out \in Nat /\ tape[i].out <= N + 1
      OBVIOUS
    <3>2. tape[i].out \in Nat
      BY <1>0, <1>1, NodeAt, IdsAre
    <3>3. tape[i].out <= N
      BY <2>1
    <3>4. QED
      BY <1>2, <3>2, <3>3
  <2>3. \A t \in Ids : N + 1 < t => registry'[t] = NoBuf
    <3>1. \A t \in Ids : N + 1 < t => N < t
      BY <1>2, IdsAre
    <3>2. QED
      BY <1>1, <2>1, <3>1
  <2>4. pass'.on = FALSE /\ Len(pass'.todo) = 0 /\ Len(pass'.todo) <= 2
    BY <1>1, <1>3, Bounds
  <2>5. CASE UNCHANGED <<tape, mem>>
    <3>1. Len(tape') = L
      BY <1>0, <2>5
    <3>2. QED
      BY <1>4, <2>1, <2>2, <2>3, <2>4, <2>5, <3>1 DEF Walked
  <2>6. CASE \E n \in NodeType :
                /\ tape' = Append(tape, n) /\ Len(tape') = L + 1 /\ tape'[L + 1] = n
                /\ \A i \in 1..L : tape'[i] = tape[i]
                /\ n.op = op /\ n.out = N + 1 /\ n.live /\ n.ins = ins
    <3>1. PICK n \in NodeType :
            /\ Len(tape') = L + 1 /\ tape'[L + 1] = n
            /\ \A i \in 1..L : tape'[i] = tape[i]
            /\ n.out = N + 1 /\ n.ins = ins
      BY <2>6
    <3>2. ASSUME NEW i \in 1..L + 1
          PROVE  /\ Len(LeafValues) < tape'[i].out /\ tape'[i].out <= N + 1
                 /\ \A j \in 1..Len(tape'[i].ins) : tape'[i].ins[j] < tape'[i].out
      <4>1. CASE i \in 1..L
        BY <2>1, <2>2, <3>1, <4>1
      <4>2. CASE i = L + 1
        <5>1. tape'[i].out = N + 1 /\ tape'[i].ins = ins
          BY <3>1, <4>2
        <5>2. \A j \in 1..Len(ins) : ins[j] < N + 1
          BY <1>2, <1>6
        <5>3. Len(LeafValues) < N + 1 /\ N + 1 <= N + 1
          BY <1>2
        <5>4. QED
          BY <5>1, <5>2, <5>3
      <4>3. QED
        BY <1>2, <4>1, <4>2
    <3>3. ASSUME NEW i \in 1..L + 1, NEW k \in 1..L + 1, i < k
          PROVE  tape'[i].out < tape'[k].out
      <4>1. i \in 1..L /\ tape'[i] = tape[i]
        <5>1. i \in 1..L
          BY <1>2, <3>3
        <5>2. QED
          BY <3>1, <5>1
      <4>2. CASE k \in 1..L
        BY <2>1, <3>1, <3>3, <4>1, <4>2
      <4>3. CASE k = L + 1
        <5>1. tape'[k].out = N + 1
          BY <3>1, <4>3
        <5>2. tape[i].out <= N /\ tape[i].out \in Nat
          BY <2>1, <2>2, <4>1
        <5>3. tape[i].out < N + 1
          BY <1>2, <5>2
        <5>4. QED
          BY <4>1, <5>1, <5>3
      <4>4. QED
        BY <1>2, <4>2, <4>3
    <3>4. \A k \in 1..Len(pass'.todo) : FALSE
      BY <2>4
    <3>5. Len(tape') = L + 1 /\ Len(tensors') = N + 1
      BY <1>4, <3>1
    <3>6. QED
      BY <2>3, <2>4, <3>2, <3>3, <3>4, <3>5 DEF Walked
  <2>7. QED
    BY <1>7, <2>5, <2>6
<1>10. /\ Derivable'
       /\ \A p \in Parameters : \A t \in 1..N : Tangent(p)'[t] = Tangent(p)[t]
  <2>1. \/ UNCHANGED tape
        \/ \E n \in NodeType :
             tape' = Append(tape, n) /\ n.out = Len(tensors) + 1 /\ n.live
    BY <1>0, <1>7
  <2>2. QED
    BY <1>0, <1>1, <1>4, <1>9, <2>1, TangentGrows
<1>11. ASSUME Unspoilt PROVE Unspoilt'
  <2> DEFINE Kept(i) ==
        /\ mem'[tape'[i].saved] = LossSlope(tensors'[tape'[i].ins[1]].val)
        /\ \A t \in Ids : registry'[t] # tape'[i].saved
        /\ \A k \in 1..Len(tape') : tape'[k].saved = tape'[i].saved => k = i
  <2>1. /\ \A i \in 1..L : tape[i].live => registry[tape[i].out] = NoBuf
        /\ \A i \in 1..L : tape[i].live /\ tape[i].op = "cross_entropy" =>
             /\ mem[tape[i].saved] = LossSlope(tensors[tape[i].ins[1]].val)
             /\ \A t \in Ids : registry[t] # tape[i].saved
             /\ \A k \in 1..L : tape[k].saved = tape[i].saved => k = i
    BY <1>0, <1>1, <1>11 DEF Unspoilt
  <2>2. \A i \in 1..L : tape[i].saved \in 0..m
    <3>1. SUFFICES ASSUME NEW i \in 1..L PROVE tape[i].saved \in 0..m
      OBVIOUS
    <3>2. PICK n : n = tape[i]
      OBVIOUS
    <3>3. n \in NodeType /\ Sound(n, Len(tensors), Len(mem))
      BY <1>0, <1>1, <3>2, NodeAt
    <3>4. n.saved \in Nat /\ n.saved <= m
      BY <1>0, <3>3, NodeParts DEF Sound
    <3>5. QED
      BY <1>2, <3>2, <3>4
  <2>3. ASSUME NEW i \in 1..L, tape[i].live, tape[i].op = "cross_entropy",
               tape'[i] = tape[i],
               \A k \in 1..Len(tape') :
                 tape'[k].saved = tape[i].saved => k \in 1..L /\ tape'[k] = tape[k]
        PROVE  Kept(i)
    <3>1. tape[i].saved \in 1..m
      BY <1>0, <1>1, <2>3, SavedIs
    <3>2. tensors'[tape[i].ins[1]] = tensors[tape[i].ins[1]]
      <4>1. PICK n : n = tape[i]
        OBVIOUS
      <4>2. n \in NodeType /\ Sound(n, N, Len(mem)) /\ n.op \notin Binary
        BY <1>0, <1>1, <2>3, <4>1, NodeAt DEF Binary
      <4>3. n.ins[1] \in 1..N
        BY <1>2, <4>2, OperandsIn
      <4>4. QED
        BY <1>4, <4>1, <4>3
    <3>3. LossSlope(tensors'[tape[i].ins[1]].val) = LossSlope(tensors[tape[i].ins[1]].val)
      BY <3>2
    <3>4. mem'[tape[i].saved] = mem[tape[i].saved]
      BY <1>8, <3>1
    <3>5. QED
      BY <1>1, <2>1, <2>3, <3>3, <3>4
  <2>4. pass'.on = FALSE /\ Len(pass'.todo) = 0 /\ \A k \in 1..Len(pass'.todo) : FALSE
    BY <1>1, <1>3, Bounds
  <2>5. SUFFICES ASSUME NEW i \in 1..Len(tape'), tape'[i].live
                 PROVE  /\ registry'[tape'[i].out] = NoBuf
                        /\ tape'[i].op = "cross_entropy" => Kept(i)
    <3> HIDE DEF Kept
    <3>1. \A i \in 1..Len(tape') : tape'[i].live =>
            /\ registry'[tape'[i].out] = NoBuf
            /\ tape'[i].op = "cross_entropy" => Kept(i)
      BY <2>5
    <3>2. QED
      BY <2>4, <3>1 DEF Unspoilt, Kept
  <2>6. CASE UNCHANGED <<tape, mem>>
    <3>1. Len(tape') = L /\ tape'[i] = tape[i] /\ i \in 1..L
      BY <1>0, <2>5, <2>6
    <3>2. \A k \in 1..Len(tape') : k \in 1..L /\ tape'[k] = tape[k]
      BY <2>6, <3>1
    <3> HIDE DEF Kept
    <3>3. QED
      BY <1>1, <2>1, <2>3, <2>5, <3>1, <3>2
  <2>7. CASE \E n \in NodeType :
           /\ Len(tape') = L + 1 /\ tape'[L + 1] = n
           /\ \A k \in 1..L : tape'[k] = tape[k]
           /\ n.op = op /\ n.out = N + 1 /\ n.ins = ins
           /\ \/ op # "cross_entropy" /\ n.saved = NoBuf
              \/ /\ op = "cross_entropy" /\ n.saved = m + 1
                 /\ mem' = Append(mem, LossSlope(tensors[ins[1]].val))
    <3>1. PICK n \in NodeType :
           /\ Len(tape') = L + 1 /\ tape'[L + 1] = n
           /\ \A k \in 1..L : tape'[k] = tape[k]
           /\ n.op = op /\ n.out = N + 1 /\ n.ins = ins
           /\ \/ op # "cross_entropy" /\ n.saved = NoBuf
              \/ /\ op = "cross_entropy" /\ n.saved = m + 1
                 /\ mem' = Append(mem, LossSlope(tensors[ins[1]].val))
      BY <2>7
    <3>2. CASE i \in 1..L
      <4>1. tape'[i] = tape[i] /\ tape[i].live /\ registry[tape[i].out] = NoBuf
        BY <2>1, <2>5, <3>1, <3>2
      <4>2. ASSUME tape[i].op = "cross_entropy" PROVE Kept(i)
        <5>1. tape[i].saved \in 1..m
          BY <1>0, <1>1, <3>2, <4>2, SavedIs
        <5>2. n.saved # tape[i].saved
          BY <1>2, <3>1, <5>1, Bounds
        <5>3. ASSUME NEW k \in 1..Len(tape'), tape'[k].saved = tape[i].saved
              PROVE  k \in 1..L /\ tape'[k] = tape[k]
          <6>1. k # L + 1
            BY <3>1, <5>2, <5>3
          <6>2. k \in 1..L
            BY <1>2, <3>1, <6>1
          <6>3. QED
            BY <3>1, <6>2
        <5> HIDE DEF Kept
        <5>4. QED
          BY <2>3, <3>2, <4>1, <4>2, <5>3
      <4> HIDE DEF Kept
      <4>3. QED
        BY <1>1, <4>1, <4>2
    <3>3. CASE i = L + 1
      <4>1. tape'[i] = n
        BY <3>1, <3>3
      <4>2. registry'[n.out] = NoBuf
        <5>1. N < N + 1
          BY <1>2
        <5>2. QED
          BY <1>0, <1>1, <1>5, <3>1, <5>1 DEF Walked
      <4>3. ASSUME op = "cross_entropy" PROVE Kept(i)
        <5>1. n.saved = m + 1 /\ mem'[m + 1] = LossSlope(tensors[ins[1]].val)
          BY <1>8, <3>1, <4>3
        <5>2. tensors'[ins[1]] = tensors[ins[1]]
          <6>1. Len(ins) = 1
            BY <4>3 DEF Unary
          <6>2. ins[1] \in 1..N
            BY <1>6, <6>1
          <6>3. QED
            BY <1>4, <6>2
        <5>3. LossSlope(tensors'[ins[1]].val) = LossSlope(tensors[ins[1]].val)
          BY <5>2
        <5>4. \A t \in Ids : registry'[t] # m + 1
          BY <1>1, <1>2
        <5>5. ASSUME NEW k \in 1..Len(tape'), tape'[k].saved = m + 1 PROVE k = i
          <6>1. k \notin 1..L
            <7>1. m + 1 \notin 0..m
              BY <1>2
            <7>2. QED
              BY <2>2, <3>1, <5>5, <7>1
          <6>2. QED
            BY <1>2, <3>1, <3>3, <6>1
        <5>6. QED
          BY <3>1, <4>1, <5>1, <5>3, <5>4, <5>5
      <4> HIDE DEF Kept
      <4>4. QED
        BY <3>1, <4>1, <4>2, <4>3
    <3>4. QED
      <4> HIDE DEF Kept
      <4>1. i \in 1..L \/ i = L + 1
        BY <1>2, <2>5, <3>1
      <4>2. QED
        BY <3>2, <3>3, <4>1
  <2>8. QED
    <3> HIDE DEF Kept
    <3>1. QED
      BY <1>7, <2>6, <2>7
<1>12. ASSUME Balanced PROVE Balanced'
  <2>1. ASSUME NEW p \in Parameters
        PROVE  SumOf(Worth(p)', Ids) = SumOf(Worth(p), Ids)
    <3>1. ASSUME NEW t \in Ids PROVE Worth(p)'[t] = Worth(p)[t]
      <4>1. t \in Nat /\ 1 <= t
        BY IdsAre
      <4>2. CASE t <= N
        <5>1. registry[t] \in 0..m /\ registry'[t] = registry[t]
          BY <1>1, <1>2
        <5>2. registry[t] # NoBuf => registry[t] \in 1..m
          BY <1>2, <5>1, Bounds
        <5>3. Found(t)' = Found(t)
          BY <1>8, <5>1, <5>2 DEF Found
        <5>4. Tangent(p)'[t] = Tangent(p)[t]
          BY <1>2, <1>10, <4>1, <4>2
        <5>5. t <= N + 1
          BY <1>2, <4>1, <4>2
        <5>6. QED
          BY <1>0, <1>4, <4>2, <5>3, <5>4, <5>5 DEF Worth
      <4>3. CASE ~(t <= N)
        <5>1. Worth(p)[t] = 0
          BY <1>0, <4>3 DEF Worth
        <5>2. registry'[t] = NoBuf
          <6>1. N < t
            BY <1>2, <4>1, <4>3
          <6>2. QED
            BY <1>0, <1>1, <6>1 DEF Walked
        <5>3. Found(t)' = 0
          BY <5>2 DEF Found
        <5>4. t <= Len(tensors') => Tangent(p)'[t] \in Int
          <6>1. WorthTyped'
            BY WorthInt, PTL
          <6>2. QED
            BY <1>1, <1>9, <1>10, <6>1 DEF WorthTyped
        <5>5. Worth(p)'[t] = 0
          BY <5>3, <5>4 DEF Worth
        <5>6. QED
          BY <5>1, <5>5
      <4>4. QED
        BY <4>2, <4>3
    <3>2. QED
      BY <3>1, IdsFinite, SumSame
  <2>2. ASSUME NEW p \in Parameters
        PROVE  owed'[p] = SumOf(Worth(p)', Ids) + Pending(p)'
    <3>1. Pending(p) = 0 /\ Pending(p)' = 0
      BY <1>1, <1>3 DEF Pending
    <3>2. QED
      BY <1>1, <1>12, <2>1, <3>1 DEF Balanced
  <2>3. QED
    BY <2>2 DEF Balanced
<1>13. QED
  BY <1>1, <1>9, <1>10, <1>11, <1>12 DEF GInv

\* A contribution moves into the registry, unless its buffer is shared.
LEMMA AccumulateKeeps ==
  ASSUME GInv, IInv', Accumulate
  PROVE  GInv'
<1>0. PICK m, N, K, to, buf, b : /\ m = Len(mem) /\ N = Len(tensors)
                                 /\ K = Len(pass.todo) /\ b = registry[to]
                                 /\ to = pass.todo[1].to /\ buf = pass.todo[1].buf
  <2>1. PICK to : to = pass.todo[1].to
    OBVIOUS
  <2>2. QED
    BY <2>1
<1>1. /\ IInv /\ Walked /\ Derivable /\ TapeTypes /\ TapeTypes'
      /\ UNCHANGED <<tape, tensors, owed>> /\ pass.on /\ pass.todo # << >>
      /\ pass' = [pass EXCEPT !.todo = Tail(pass.todo)]
  BY DEF GInv, IInv, Accumulate, graph, debts
<1>2. /\ m \in Nat /\ N \in Nat /\ mem \in Seq(Int)
      /\ registry \in [Ids -> 0..m] /\ pass.todo \in Seq(Todo)
  <2>1. pass \in [on : BOOLEAN, node : 0..Len(tape), todo : Seq(Todo)]
    BY <1>1 DEF TapeTypes
  <2>2. /\ mem \in Seq(Int) /\ registry \in [Ids -> 0..m]
        /\ m \in Nat /\ N \in Nat
    BY <1>0, <1>1 DEF TapeTypes
  <2>3. QED
    BY <2>1, <2>2
<1>3. K \in {1, 2} /\ 1 \in 1..K
  <2>1. K \in Nat /\ K # 0
    BY <1>0, <1>1, <1>2
  <2>2. K <= 2
    BY <1>0, <1>1 DEF Walked
  <2>3. QED
    BY <2>1, <2>2
<1>4. /\ to \in Ids /\ to <= N /\ buf \in 1..m /\ b \in 0..m
  <2>1. pass.todo[1] \in Todo
    BY <1>0, <1>2, <1>3, ElementOfSeq
  <2>2. to \in Ids /\ buf \in Nat \ {0}
    BY <1>0, <2>1 DEF Todo
  <2>3. buf <= m
    BY <1>0, <1>1, <1>3 DEF TapeTypes
  <2>4. to <= N
    BY <1>0, <1>1, <1>3 DEF Walked
  <2>5. buf \in 1..m
    BY <1>2, <2>2, <2>3
  <2>6. QED
    BY <1>0, <1>2, <2>2, <2>4, <2>5
<1>5. /\ pass'.on /\ pass'.node = pass.node /\ pass'.todo = Tail(pass.todo)
      /\ Len(pass'.todo) = K - 1
      /\ \A k \in 1..K - 1 : pass'.todo[k] = pass.todo[k + 1] /\ k + 1 \in 1..K
  <2>1. pass'.on = pass.on /\ pass'.node = pass.node /\ pass'.todo = Tail(pass.todo)
    BY <1>1 DEF TapeTypes
  <2>2. /\ Len(Tail(pass.todo)) = K - 1
        /\ \A k \in 1..K - 1 : Tail(pass.todo)[k] = pass.todo[k + 1]
    BY <1>0, <1>1, <1>2, TailLemma
  <2>3. \A k \in 1..K - 1 : k + 1 \in 1..K
    BY <1>3
  <2>4. QED
    BY <1>1, <2>1, <2>2, <2>3
<1>6. /\ b = NoBuf => /\ registry' = [registry EXCEPT ![to] = buf]
                      /\ UNCHANGED <<mem, upset>>
      /\ b # NoBuf => /\ mem' = [mem EXCEPT ![b] = @ + mem[buf]]
                      /\ registry' = registry
                      /\ upset' = upset \cup
                           (IF {t \in Ids : registry[t] = b} # {to} THEN {"shared"} ELSE {})
  BY <1>0 DEF Accumulate, AddInPlace
<1>7. Walked'
  <2>1. \A t \in Ids : N < t => registry'[t] = NoBuf
    <3>1. SUFFICES ASSUME NEW t \in Ids, N < t PROVE registry'[t] = NoBuf
      OBVIOUS
    <3>2. t # to
      BY <1>2, <1>4, <3>1, IdsAre
    <3>3. registry[t] = NoBuf
      BY <1>0, <1>1, <3>1 DEF Walked
    <3>4. QED
      BY <1>2, <1>4, <1>6, <3>2, <3>3
  <2>2. \A k \in 1..Len(pass'.todo) : pass'.todo[k].to <= N
    BY <1>0, <1>1, <1>5 DEF Walked
  <2>3. Len(pass'.todo) <= 2
    BY <1>3, <1>5
  <2>4. Len(tensors') = N
    BY <1>0, <1>1
  <2>5. QED
    BY <1>0, <1>1, <1>5, <2>1, <2>2, <2>3, <2>4 DEF Walked
<1>8. Derivable' /\ \A p \in Parameters : Tangent(p)' = Tangent(p)
  BY <1>1, <1>7, TangentStays
<1>9. upset' = {} =>
        /\ upset = {}
        /\ b # NoBuf => (\A t \in Ids : registry[t] = b => t = to)
  BY <1>6
<1>10. ASSUME Unspoilt PROVE Unspoilt'
  <2>1. ASSUME NEW i \in 1..Len(tape), tape[i].live, tape[i].op = "cross_entropy"
        PROVE  /\ mem'[tape[i].saved] = LossSlope(tensors[tape[i].ins[1]].val)
               /\ \A t \in Ids : registry'[t] # tape[i].saved
               /\ \A k \in 1..Len(pass'.todo) : pass'.todo[k].buf # tape[i].saved
               /\ \A k \in 1..Len(tape) : tape[k].saved = tape[i].saved => k = i
    <3>1. /\ mem[tape[i].saved] = LossSlope(tensors[tape[i].ins[1]].val)
          /\ \A t \in Ids : registry[t] # tape[i].saved
          /\ \A k \in 1..K : pass.todo[k].buf # tape[i].saved
          /\ \A k \in 1..Len(tape) : tape[k].saved = tape[i].saved => k = i
      BY <1>0, <1>10, <2>1 DEF Unspoilt
    <3>2. buf # tape[i].saved /\ b # tape[i].saved
      BY <1>0, <1>3, <1>4, <3>1
    <3>3. tape[i].saved \in 1..m
      BY <1>0, <1>1, <2>1, SavedIs
    <3>4. mem'[tape[i].saved] = mem[tape[i].saved]
      <4>1. tape[i].saved \in DOMAIN mem
        BY <1>0, <1>2, <3>3
      <4>2. QED
        BY <1>6, <3>2, <4>1
    <3>5. \A t \in Ids : registry'[t] # tape[i].saved
      BY <1>2, <1>4, <1>6, <3>1, <3>2
    <3>6. QED
      BY <1>5, <3>1, <3>4, <3>5
  <2>2. Len(pass'.todo) # 2
    BY <1>3, <1>5
  <2>3. \A i \in 1..Len(tape) :
          LossSlope(tensors[tape[i].ins[1]].val)'
            = LossSlope(tensors[tape[i].ins[1]].val)
    BY <1>1 DEF LossSlope
  <2>4. QED
    BY <1>1, <1>5, <2>1, <2>2, <2>3 DEF Unspoilt
<1>11. ASSUME Unspoilt, Balanced, upset' = {} PROVE Balanced'
  <2>1. ASSUME NEW p \in Parameters
        PROVE  owed'[p] = SumOf(Worth(p)', Ids) + Pending(p)'
    <3>0. PICK d : d = Tangent(p)[to]
      OBVIOUS
    <3>1. d \in Int /\ mem[buf] \in Int /\ Found(to) \in Int
      <4>1. mem[buf] \in Int
        BY <1>0, <1>2, <1>4, ElementOfSeq
      <4>2. QED
        BY <1>0, <1>1, <1>4, <3>0, <4>1, WorthInt DEF WorthTyped
    <3>2. Tangent(p)' = Tangent(p)
      BY <1>8
    <3>3. /\ Found(to)' = Found(to) + mem[buf]
          /\ \A t \in Ids : t # to => Found(t)' = Found(t)
      <4>1. CASE b = NoBuf
        <5>1. /\ registry'[to] = buf /\ mem' = mem
              /\ \A t \in Ids : t # to => registry'[t] = registry[t]
          BY <1>2, <1>4, <1>6, <4>1
        <5>2. Found(to) = 0 /\ Found(to)' = mem[buf]
          BY <1>0, <1>4, <4>1, <5>1, Bounds DEF Found
        <5>3. \A t \in Ids : t # to => Found(t)' = Found(t)
          BY <5>1 DEF Found
        <5>4. QED
          BY <3>1, <5>2, <5>3
      <4>2. CASE b # NoBuf
        <5>1. /\ registry' = registry /\ b \in 1..m
              /\ mem'[b] = mem[b] + mem[buf]
              /\ \A a \in 1..m : a # b => mem'[a] = mem[a]
          <6>1. b \in 1..m
            BY <1>2, <1>4, <4>2, Bounds
          <6>2. QED
            BY <1>0, <1>2, <1>6, <4>2, <6>1
        <5>2. Found(to)' = Found(to) + mem[buf]
          BY <1>0, <4>2, <5>1 DEF Found
        <5>3. ASSUME NEW t \in Ids, t # to PROVE Found(t)' = Found(t)
          <6>1. registry[t] # b
            BY <1>9, <1>11, <4>2, <5>3
          <6>2. registry[t] \in 0..m
            BY <1>2
          <6>3. registry[t] # NoBuf => registry[t] \in 1..m
            BY <1>2, <6>2, Bounds
          <6>4. QED
            BY <5>1, <6>1, <6>3 DEF Found
        <5>4. QED
          BY <5>2, <5>3
      <4>3. QED
        BY <4>1, <4>2
    <3>4. SumOf(Worth(p)', Ids) = SumOf(Worth(p), Ids) + mem[buf] * d
          /\ SumOf(Worth(p), Ids) \in Int
      <4>1. PICK v, w : v = Worth(p) /\ w = Worth(p)'
        OBVIOUS
      <4>2. \A t \in Ids : v[t] \in Int
        BY <1>1, <4>1, WorthInt DEF WorthTyped
      <4>3. \A t \in Ids : w[t] \in Int
        <5>1. WorthTyped'
          BY WorthInt, PTL
        <5>2. QED
          BY <1>1, <1>7, <1>8, <4>1, <5>1 DEF WorthTyped
      <4>4. \A t \in Ids : t # to => w[t] = v[t]
        BY <1>1, <3>2, <3>3, <4>1 DEF Worth
      <4>5. v[to] = Found(to) * d
        BY <1>0, <1>4, <3>0, <4>1 DEF Worth
      <4>6. w[to] = (Found(to) + mem[buf]) * d
        BY <1>0, <1>1, <1>4, <3>0, <3>2, <3>3, <4>1 DEF Worth
      <4>7. SumOf(w, Ids) = SumOf(v, Ids) - v[to] + w[to] /\ SumOf(v, Ids) \in Int
        BY <1>4, <4>2, <4>3, <4>4, WorthUpdate
      <4>8. PICK f, x : f = Found(to) /\ x = mem[buf]
        OBVIOUS
      <4>9. (f + x) * d = f * d + x * d /\ f * d \in Int /\ x * d \in Int
        BY <3>1, <4>8
      <4>10. QED
        BY <4>1, <4>5, <4>6, <4>7, <4>8, <4>9
    <3>5. /\ Pending(p) = mem[buf] * d + Pending(p)'
          /\ Pending(p)' \in Int
      <4>1. Due(p, 1) = mem[buf] * d
        BY <1>0, <3>0 DEF Due
      <4>2. mem[buf] * d \in Int
        BY <3>1
      <4>3. CASE K = 1
        <5>1. Len(pass.todo) = 1 /\ Len(pass'.todo) = 0
          BY <1>0, <1>5, <4>3
        <5>2. Pending(p)' = 0
          BY <5>1 DEF Pending
        <5>3. Pending(p) = Due(p, 1)
          BY <4>1, <4>2, <5>1 DEF Pending
        <5>4. QED
          BY <4>1, <4>2, <5>2, <5>3
      <4>4. CASE K = 2
        <5>1. Len(pass.todo) = 2 /\ Len(pass'.todo) = 1
              /\ pass'.todo[1] = pass.todo[2]
          BY <1>0, <1>5, <4>4
        <5>2. PICK a, u : a = pass.todo[2].buf /\ u = pass.todo[2].to
          OBVIOUS
        <5>3. a \in 1..m /\ u \in Ids /\ u <= N /\ a # b
          <6>0. 2 \in 1..K
            BY <4>4
          <6>1. pass.todo[2] \in Todo
            BY <1>0, <1>2, <6>0, ElementOfSeq
          <6>2. u \in Ids /\ a \in Nat \ {0}
            BY <5>2, <6>1 DEF Todo
          <6>3. a <= m
            BY <1>0, <1>1, <5>2, <6>0 DEF TapeTypes
          <6>4. u <= N
            BY <1>0, <1>1, <5>2, <6>0 DEF Walked
          <6>5. registry[to] # a
            BY <1>4, <1>11, <5>1, <5>2 DEF Unspoilt
          <6>6. QED
            BY <1>0, <1>2, <6>2, <6>3, <6>4, <6>5
        <5>4. mem'[a] = mem[a] /\ mem[a] \in Int
          <6>1. mem[a] \in Int
            BY <1>0, <1>2, <5>3, ElementOfSeq
          <6>2. a \in DOMAIN mem
            BY <1>0, <1>2, <5>3
          <6>3. mem'[a] = mem[a]
            BY <1>6, <5>3, <6>2
          <6>4. QED
            BY <6>1, <6>3
        <5>5. Tangent(p)[u] \in Int
          BY <1>0, <1>1, <5>3, WorthInt DEF WorthTyped
        <5>6. Due(p, 1)' = Due(p, 2)
          BY <3>2, <5>1, <5>2, <5>4 DEF Due
        <5>7. Due(p, 2) \in Int
          BY <5>2, <5>4, <5>5 DEF Due
        <5>8. Pending(p)' = Due(p, 1)'
          BY <5>1, <5>6, <5>7 DEF Pending
        <5>9. Pending(p) = Due(p, 1) + Due(p, 2)
          BY <4>1, <4>2, <5>1 DEF Pending
        <5>10. QED
          BY <4>1, <4>2, <5>6, <5>7, <5>8, <5>9
      <4>5. QED
        BY <1>3, <4>3, <4>4
    <3>6. mem[buf] * d \in Int
      BY <3>1
    <3>7. owed'[p] = SumOf(Worth(p), Ids) + Pending(p)
      BY <1>1, <1>11 DEF Balanced
    <3>8. QED
      BY <3>4, <3>5, <3>6, <3>7
  <2>2. QED
    BY <2>1 DEF Balanced
<1>12. upset' = {} => Unspoilt' /\ Balanced'
  <2>1. SUFFICES ASSUME upset' = {} PROVE Unspoilt' /\ Balanced'
    OBVIOUS
  <2>2. Unspoilt /\ Balanced
    BY <1>9, <2>1 DEF GInv
  <2>3. QED
    BY <1>10, <1>11, <2>1, <2>2
<1>13. QED
  BY <1>7, <1>8, <1>12 DEF GInv

\* What the walk hands out of what a closure returned.
LEMMA WantedShape ==
  ASSUME NEW n \in NodeType, NEW t, NEW m, Sound(n, t, m), NEW bufs
  PROVE  LET w(j) == [to |-> n.ins[j], buf |-> bufs[j]]
             W == Wanted(n, bufs)
         IN  /\ n.op \notin Binary => n.needs[1] /\ Len(W) = 1 /\ W[1] = w(1)
             /\ n.op \in Binary =>
                  /\ n.needs[1] \in BOOLEAN /\ n.needs[2] \in BOOLEAN
                  /\ n.needs[1] /\ n.needs[2] =>
                       Len(W) = 2 /\ W[1] = w(1) /\ W[2] = w(2)
                  /\ n.needs[1] /\ ~n.needs[2] => Len(W) = 1 /\ W[1] = w(1)
                  /\ ~n.needs[1] /\ n.needs[2] => Len(W) = 1 /\ W[1] = w(2)
                  /\ ~n.needs[1] /\ ~n.needs[2] => Len(W) = 0
<1> DEFINE w(j) == [to |-> n.ins[j], buf |-> bufs[j]]
           W == Wanted(n, bufs)
<1>1. PICK x, y : x = w(1) /\ y = w(2)
  OBVIOUS
<1>2. Len(<<x>>) = 1 /\ <<x>>[1] = x /\ Len(<<y>>) = 1 /\ <<y>>[1] = y
  OBVIOUS
<1>3. ASSUME n.op \notin Binary PROVE n.needs[1] /\ Len(W) = 1 /\ W[1] = w(1)
  <2>1. n.needs = <<TRUE>>
    BY <1>3, NodeParts DEF Sound
  <2>2. n.needs[1]
    BY <2>1
  <2>3. W = <<x>>
    BY <1>1, <1>3, <2>2 DEF Wanted
  <2> HIDE DEF w, W
  <2>4. QED
    BY <1>1, <1>2, <2>2, <2>3
<1>4. ASSUME n.op \in Binary
      PROVE  /\ n.needs[1] \in BOOLEAN /\ n.needs[2] \in BOOLEAN
             /\ n.needs[1] /\ n.needs[2] =>
                  Len(W) = 2 /\ W[1] = w(1) /\ W[2] = w(2)
             /\ n.needs[1] /\ ~n.needs[2] => Len(W) = 1 /\ W[1] = w(1)
             /\ ~n.needs[1] /\ n.needs[2] => Len(W) = 1 /\ W[1] = w(2)
             /\ ~n.needs[1] /\ ~n.needs[2] => Len(W) = 0
  <2>1. Len(n.needs) = 2
    BY <1>4 DEF Sound
  <2>2. n.needs[1] \in BOOLEAN /\ n.needs[2] \in BOOLEAN
    BY <2>1, NodeParts
  <2>3. W = (IF n.needs[1] THEN <<x>> ELSE << >>)
              \o (IF n.needs[2] THEN <<y>> ELSE << >>)
    BY <1>1, <1>4 DEF Wanted
  <2> HIDE DEF w, W
  <2>4. /\ Len(<<x>> \o <<y>>) = 2
        /\ (<<x>> \o <<y>>)[1] = x /\ (<<x>> \o <<y>>)[2] = y
    <3>1. x \in {x, y} /\ y \in {x, y}
      OBVIOUS
    <3>2. QED
      BY <3>1, PairLemma
  <2>5. /\ <<x>> \o << >> = <<x>> /\ << >> \o <<y>> = <<y>>
        /\ Len(<< >> \o << >>) = 0
    OBVIOUS
  <2>6. QED
    BY <1>1, <1>2, <2>2, <2>3, <2>4, <2>5
<1>5. QED
  BY <1>3, <1>4

\* What a closure returns for g: g times the slope, in a new buffer; but
\* cross_entropy returns the slope it saved, which is right when g is 1.
LEMMA ReturnedIs ==
  ASSUME TapeTypes, NEW n \in NodeType, Sound(n, Len(tensors), Len(mem)),
         NEW g \in Int, NEW j \in 1..Len(n.needs), n.needs[j]
  PROVE  LET c == Contribution(n, g)
         IN  /\ n.op = "cross_entropy" =>
                  c.new = << >> /\ c.bufs[j] = n.saved /\ j = 1
             /\ n.op # "cross_entropy" =>
                  /\ c.bufs[j] - Len(mem) \in 1..Len(c.new)
                  /\ c.bufs[j] \in Int
                  /\ c.new[c.bufs[j] - Len(mem)] = g * Slope(n, j)
<1> DEFINE c == Contribution(n, g)
<1>1. Len(mem) \in Nat
  BY DEF TapeTypes
<1>2. n.op \in {"add", "mul", "scale", "relu", "cross_entropy"}
  BY NodeParts DEF Binary, Unary
<1>4. CASE n.op = "add"
  <2>1. c = [new |-> <<g>>, bufs |-> <<Len(mem) + 1, Len(mem) + 1>>]
    BY <1>4 DEF Contribution
  <2>2. j \in {1, 2} /\ Slope(n, j) = 1
    <3>1. Len(n.needs) = 2
      BY <1>4 DEF Sound, Binary
    <3>2. QED
      BY <1>4, <3>1 DEF Slope
  <2>3. g * Slope(n, j) = g
    BY <2>2
  <2>4. c.bufs[j] = Len(mem) + 1 /\ c.new = <<g>>
    BY <2>1, <2>2
  <2>5. c.bufs[j] - Len(mem) = 1 /\ c.bufs[j] \in Int
    BY <1>1, <2>4
  <2>6. Len(<<g>>) = 1 /\ <<g>>[1] = g
    OBVIOUS
  <2>7. QED
    BY <1>4, <2>3, <2>4, <2>5, <2>6
<1>5. CASE n.op = "mul"
  <2>1. Len(n.needs) = 2 /\ j \in {1, 2}
    BY <1>5 DEF Sound, Binary
  <2>2. n.needs[1] \in BOOLEAN /\ n.needs[2] \in BOOLEAN
    BY <2>1, NodeParts
  <2>3. PICK x, y : x = g * Slope(n, 1) /\ y = g * Slope(n, 2)
    OBVIOUS
  <2>4. CASE n.needs[1] /\ n.needs[2]
    <3>1. c = [new |-> <<x, y>>, bufs |-> <<Len(mem) + 1, Len(mem) + 2>>]
      BY <1>5, <2>3, <2>4 DEF Contribution
    <3>2. c.new = <<x, y>> /\ c.bufs[j] = Len(mem) + j
      BY <2>1, <3>1
    <3>3. c.bufs[j] - Len(mem) = j /\ c.bufs[j] \in Int
      BY <1>1, <2>1, <3>2
    <3>4. Len(<<x, y>>) = 2 /\ <<x, y>>[1] = x /\ <<x, y>>[2] = y
      OBVIOUS
    <3>5. QED
      BY <1>5, <2>1, <2>3, <3>2, <3>3, <3>4
  <2>5. CASE n.needs[1] /\ ~n.needs[2]
    <3>1. c = [new |-> <<x>>, bufs |-> <<Len(mem) + 1, NoBuf>>]
      BY <1>5, <2>3, <2>5 DEF Contribution
    <3>2. j = 1
      BY <2>1, <2>5
    <3>3. c.new = <<x>> /\ c.bufs[j] = Len(mem) + 1
      BY <3>1, <3>2
    <3>4. c.bufs[j] - Len(mem) = 1 /\ c.bufs[j] \in Int
      BY <1>1, <3>3
    <3>5. Len(<<x>>) = 1 /\ <<x>>[1] = x
      OBVIOUS
    <3>6. QED
      BY <1>5, <2>3, <3>2, <3>3, <3>4, <3>5
  <2>6. CASE ~n.needs[1]
    <3>1. c = [new |-> <<y>>, bufs |-> <<NoBuf, Len(mem) + 1>>]
      BY <1>5, <2>3, <2>6 DEF Contribution
    <3>2. j = 2
      BY <2>1, <2>6
    <3>3. c.new = <<y>> /\ c.bufs[j] = Len(mem) + 1
      BY <3>1, <3>2
    <3>4. c.bufs[j] - Len(mem) = 1 /\ c.bufs[j] \in Int
      BY <1>1, <3>3
    <3>5. Len(<<y>>) = 1 /\ <<y>>[1] = y
      OBVIOUS
    <3>6. QED
      BY <1>5, <2>3, <3>2, <3>3, <3>4, <3>5
  <2>7. QED
    BY <2>2, <2>4, <2>5, <2>6
<1>6. CASE n.op \in {"scale", "relu"}
  <2>1. n.needs = <<TRUE>>
    BY <1>6 DEF Sound, Unary
  <2>2. j = 1
    BY <2>1
  <2>3. PICK x : x = g * Slope(n, 1)
    OBVIOUS
  <2>4. c = [new |-> <<x>>, bufs |-> <<Len(mem) + 1>>]
    BY <1>6, <2>3 DEF Contribution
  <2>5. c.new = <<x>> /\ c.bufs[j] = Len(mem) + 1
    BY <2>2, <2>4
  <2>6. c.bufs[j] - Len(mem) = 1 /\ c.bufs[j] \in Int
    BY <1>1, <2>5
  <2>7. Len(<<x>>) = 1 /\ <<x>>[1] = x
    OBVIOUS
  <2>8. QED
    BY <1>6, <2>2, <2>3, <2>5, <2>6, <2>7
<1>7. CASE n.op = "cross_entropy"
  <2>1. n.needs = <<TRUE>>
    BY <1>7 DEF Sound, Unary
  <2>2. j = 1
    BY <2>1
  <2>3. c = [new |-> << >>, bufs |-> <<n.saved>>]
    BY <1>7 DEF Contribution
  <2>4. QED
    BY <1>7, <2>2, <2>3
<1>8. QED
  BY <1>2, <1>4, <1>5, <1>6, <1>7

\* What a closure returns is worth what the gradient of its output was: the
\* chain rule.
LEMMA CallKeeps ==
  ASSUME GInv, IInv', CallClosure
  PROVE  GInv'
<1>0. PICK m, N, o, n, g, c, W :
         /\ m = Len(mem) /\ N = Len(tensors) /\ o = pass.node
         /\ n = tape[o] /\ g = mem[registry[n.out]]
         /\ c = Contribution(n, g) /\ W = Wanted(n, c.bufs)
  <2>1. PICK n : n = tape[pass.node]
    OBVIOUS
  <2>2. PICK g : g = mem[registry[n.out]]
    OBVIOUS
  <2>3. PICK c : c = Contribution(n, g)
    OBVIOUS
  <2>4. QED
    BY <2>1, <2>2, <2>3
<1>1. /\ IInv /\ Walked /\ Derivable /\ TapeTypes /\ TapeTypes'
      /\ AtNode /\ Spend /\ pass.on /\ pass.todo = << >>
      /\ UNCHANGED <<registry, tensors, owed>>
      /\ registry[n.out] # NoBuf /\ n.live
      /\ mem' = mem \o c.new
      /\ pass' = [pass EXCEPT !.node = @ - 1, !.todo = W]
      /\ upset' = upset \cup (IF n.op = "cross_entropy" /\ g # 1
                              THEN {"unscaled"} ELSE {})
  BY <1>0 DEF GInv, IInv, CallClosure, AtNode, Skippable, debts
<1>2. /\ pass'.on /\ pass'.node = o - 1 /\ pass'.todo = W /\ Len(pass.todo) = 0
  BY <1>0, <1>1 DEF TapeTypes
<1>3. o \in 1..Len(tape)
  <2>1. /\ pass \in [on : BOOLEAN, node : Nat, todo : Seq(Todo)]
        /\ pass.node <= Len(tape) /\ Len(tape) \in Nat
    BY <1>1 DEF TapeTypes
  <2>2. pass.node \in Nat
    BY <2>1
  <2>3. pass.node > 0
    BY <1>1 DEF AtNode
  <2>4. QED
    BY <1>0, <2>1, <2>2, <2>3
<1>4. /\ n \in NodeType /\ Sound(n, N, m) /\ n.out \in Ids /\ N \in Nat
      /\ m \in Nat /\ mem \in Seq(Int) /\ registry \in [Ids -> 0..m]
  <2>1. n \in NodeType /\ Sound(n, N, m) /\ n.out \in Ids
    BY <1>0, <1>1, <1>3, NodeAt
  <2>2. /\ Len(tensors) \in Nat /\ Len(mem) \in Nat /\ mem \in Seq(Int)
        /\ registry \in [Ids -> 0..Len(mem)]
    BY <1>1 DEF TapeTypes
  <2>3. QED
    BY <1>0, <2>1, <2>2
<1>5. g \in Int /\ registry[n.out] \in 1..m
  <2>1. registry[n.out] \in 1..m
    BY <1>1, <1>4, Bounds
  <2>2. QED
    BY <1>0, <1>4, <2>1, ElementOfSeq
<1>6. Len(n.needs) = Len(n.ins) /\ Len(n.ins) \in Nat
  <2>1. n.op \in Binary \cup Unary /\ Len(n.ins) \in Nat
    BY <1>4, NodeParts
  <2>2. Len(<<TRUE>>) = 1
    OBVIOUS
  <2>3. QED
    BY <1>4, <2>1, <2>2 DEF Sound
<1>7. /\ Len(W) \in {0, 1, 2}
      /\ Len(W) = 2 => n.op \in Binary
      /\ \A k \in 1..Len(W) : \E j \in 1..Len(n.needs) :
           n.needs[j] /\ W[k] = [to |-> n.ins[j], buf |-> c.bufs[j]]
  <2>1. CASE n.op \in Binary
    <3>1. Len(n.needs) = 2
      BY <1>4, <2>1 DEF Sound
    <3>2. 1 \in 1..Len(n.needs) /\ 2 \in 1..Len(n.needs)
      BY <3>1
    <3>3. PICK x, y : x = [to |-> n.ins[1], buf |-> c.bufs[1]]
                    /\ y = [to |-> n.ins[2], buf |-> c.bufs[2]]
      OBVIOUS
    <3>4. /\ n.needs[1] \in BOOLEAN /\ n.needs[2] \in BOOLEAN
          /\ n.needs[1] /\ n.needs[2] => Len(W) = 2 /\ W[1] = x /\ W[2] = y
          /\ n.needs[1] /\ ~n.needs[2] => Len(W) = 1 /\ W[1] = x
          /\ ~n.needs[1] /\ n.needs[2] => Len(W) = 1 /\ W[1] = y
          /\ ~n.needs[1] /\ ~n.needs[2] => Len(W) = 0
      BY <1>0, <1>4, <2>1, <3>3, WantedShape
    <3>5. \A k \in 1..Len(W) : (n.needs[1] /\ W[k] = x) \/ (n.needs[2] /\ W[k] = y)
      BY <3>4
    <3>6. Len(W) \in {0, 1, 2}
      BY <3>4
    <3>7. QED
      BY <2>1, <3>2, <3>3, <3>5, <3>6
  <2>2. CASE n.op \notin Binary
    <3>1. 1 \in 1..Len(n.needs)
      BY <1>4, <1>6, <2>2, OperandsOf
    <3>2. PICK x : x = [to |-> n.ins[1], buf |-> c.bufs[1]]
      OBVIOUS
    <3>3. n.needs[1] /\ Len(W) = 1 /\ W[1] = x
      <4>1. n.needs[1]
        BY <1>4, <2>2, WantedShape
      <4>2. Len(W) = 1
        BY <1>0, <1>4, <2>2, WantedShape
      <4>3. W[1] = x
        BY <1>0, <1>4, <2>2, <3>2, WantedShape
      <4>4. QED
        BY <4>1, <4>2, <4>3
    <3>4. \A k \in 1..Len(W) : n.needs[1] /\ W[k] = x
      BY <3>3
    <3>5. QED
      BY <3>1, <3>2, <3>3, <3>4
  <2>3. QED
    BY <2>1, <2>2
<1>8. \A j \in 1..Len(n.ins) :
        n.ins[j] \in Ids /\ n.ins[j] \in 1..N /\ n.ins[j] # n.out
  <2>1. SUFFICES ASSUME NEW j \in 1..Len(n.ins)
                 PROVE  n.ins[j] \in Ids /\ n.ins[j] \in 1..N /\ n.ins[j] # n.out
    OBVIOUS
  <2>2. n.ins[j] < n.out
    BY <1>0, <1>1, <1>3 DEF Walked
  <2>3. n.ins[j] \in 1..N /\ n.ins[j] \in Ids
    BY <1>4, NodeParts, OperandsIn
  <2>4. QED
    BY <2>2, <2>3
<1>9. /\ Len(pass'.todo) <= 2
      /\ \A k \in 1..Len(pass'.todo) : pass'.todo[k].to <= Len(tensors)
  <2>1. ASSUME NEW k \in 1..Len(W) PROVE W[k].to <= N
    <3>1. PICK j \in 1..Len(n.needs) : W[k] = [to |-> n.ins[j], buf |-> c.bufs[j]]
      BY <1>7
    <3>2. W[k].to = n.ins[j]
      BY <3>1
    <3>3. n.ins[j] \in 1..N
      BY <1>6, <1>8
    <3>4. n.ins[j] <= N
      BY <1>4, <3>3
    <3>5. QED
      BY <3>2, <3>4
  <2>2. Len(W) <= 2
    <3>1. Len(W) \in {0, 1, 2}
      BY <1>7
    <3>2. \A q \in {0, 1, 2} : q <= 2
      OBVIOUS
    <3>3. QED
      BY <3>1, <3>2, Zenon
  <2>3. pass'.todo = W /\ Len(tensors) = N
    BY <1>0, <1>2
  <2>4. QED
    BY <2>1, <2>2, <2>3
<1>10. /\ Len(tape') = Len(tape)
       /\ tape'[o] = [n EXCEPT !.live = FALSE]
       /\ \A i \in 1..Len(tape) : i # o => tape'[i] = tape[i]
       /\ \A i \in 1..Len(tape) : tape'[i].live => tape[i].live /\ i < o
       /\ Walked' /\ Derivable'
       /\ \A p \in Parameters : Tangent(p)' = [Tangent(p) EXCEPT ![n.out] = 0]
  BY <1>0, <1>1, <1>2, <1>9, SpendKeeps
<1>11. /\ c.new \in Seq(Int) /\ Len(c.new) \in Nat
       /\ Len(mem') = m + Len(c.new)
       /\ \A b \in 1..m : mem'[b] = mem[b]
       /\ \A b \in Int : b - m \in 1..Len(c.new) => mem'[b] = c.new[b - m]
  <2>1. c.new \in Seq(Int)
    BY <1>0, <1>1, <1>4, <1>5, ContributionLemma
  <2>2. Len(c.new) \in Nat
    BY <2>1
  <2>3. /\ Len(mem \o c.new) = Len(mem) + Len(c.new)
        /\ \A b \in 1..Len(mem) + Len(c.new) : (mem \o c.new)[b] =
             IF b <= Len(mem) THEN mem[b] ELSE c.new[b - Len(mem)]
    BY <1>4, <2>1, ConcatProperties
  <2>4. \A b \in 1..m + Len(c.new) :
          mem'[b] = IF b <= m THEN mem[b] ELSE c.new[b - m]
    BY <1>0, <1>1, <2>3
  <2>5. \A b \in 1..m : b \in 1..m + Len(c.new) /\ b <= m
    BY <1>4, <2>2
  <2>6. \A b \in Int : b - m \in 1..Len(c.new) =>
          b \in 1..m + Len(c.new) /\ ~(b <= m)
    BY <1>4, <2>2
  <2>7. QED
    BY <1>0, <1>1, <2>1, <2>2, <2>3, <2>4, <2>5, <2>6
<1>12. ASSUME upset' = {}, Unspoilt, NEW j \in 1..Len(n.needs), n.needs[j]
       PROVE  /\ mem'[c.bufs[j]] = g * Slope(n, j)
              /\ n.op = "cross_entropy" => c.bufs[j] = n.saved
              /\ n.op # "cross_entropy" => c.bufs[j] \in Int /\ m < c.bufs[j]
  <2>1. CASE n.op = "cross_entropy"
    <3>1. c.bufs[j] = n.saved /\ j = 1
      <4>1. Sound(n, Len(tensors), Len(mem)) /\ c = Contribution(n, g)
        BY <1>0, <1>4
      <4>2. QED
        BY <1>1, <1>4, <1>5, <1>12, <2>1, <4>1, ReturnedIs
    <3>2. g = 1
      BY <1>1, <1>12, <2>1
    <3>3. n.saved \in 1..m
      BY <1>0, <1>1, <1>3, <2>1, SavedIs
    <3>4. mem'[n.saved] = LossSlope(tensors[n.ins[1]].val)
      <4>1. \A i \in 1..Len(tape) : tape[i].live /\ tape[i].op = "cross_entropy" =>
              mem[tape[i].saved] = LossSlope(tensors[tape[i].ins[1]].val)
        BY <1>12 DEF Unspoilt
      <4>2. n = tape[o]
        BY <1>0
      <4>3. mem[n.saved] = LossSlope(tensors[n.ins[1]].val)
        BY <1>1, <1>3, <2>1, <4>1, <4>2
      <4>4. QED
        BY <1>11, <3>3, <4>3
    <3>5. Slope(n, j) = LossSlope(tensors[n.ins[1]].val)
      BY <2>1, <3>1 DEF Slope
    <3>6. Slope(n, j) \in Int
      BY <1>0, <1>1, <1>4, <1>6, SlopeType
    <3>7. QED
      BY <2>1, <3>1, <3>2, <3>4, <3>5, <3>6
  <2>2. CASE n.op # "cross_entropy"
    <3>1. /\ c.bufs[j] - m \in 1..Len(c.new) /\ c.bufs[j] \in Int
          /\ c.new[c.bufs[j] - m] = g * Slope(n, j)
      <4>1. Sound(n, Len(tensors), Len(mem)) /\ c = Contribution(n, g) /\ m = Len(mem)
        BY <1>0, <1>4
      <4>2. QED
        BY <1>1, <1>4, <1>5, <1>12, <2>2, <4>1, ReturnedIs
    <3>2. m < c.bufs[j]
      BY <1>4, <1>11, <3>1
    <3>3. mem'[c.bufs[j]] = g * Slope(n, j)
      BY <1>11, <3>1
    <3>4. QED
      BY <2>2, <3>1, <3>2, <3>3
  <2>3. QED
    BY <2>1, <2>2
<1>13. ASSUME Unspoilt, upset' = {} PROVE Unspoilt'
  <2>1. ASSUME NEW i \in 1..Len(tape), tape'[i].live, tape'[i].op = "cross_entropy"
        PROVE  /\ mem'[tape'[i].saved] = LossSlope(tensors[tape'[i].ins[1]].val)
               /\ \A t \in Ids : registry[t] # tape'[i].saved
               /\ \A k \in 1..Len(W) : W[k].buf # tape'[i].saved
               /\ \A k \in 1..Len(tape) : tape'[k].saved = tape'[i].saved => k = i
    <3>1. i # o /\ tape'[i] = tape[i] /\ tape[i].live
      BY <1>3, <1>10, <2>1
    <3>2. /\ mem[tape[i].saved] = LossSlope(tensors[tape[i].ins[1]].val)
          /\ \A t \in Ids : registry[t] # tape[i].saved
          /\ \A k \in 1..Len(tape) : tape[k].saved = tape[i].saved => k = i
      BY <1>13, <2>1, <3>1 DEF Unspoilt
    <3>3. tape[i].saved \in 1..m
      BY <1>0, <1>1, <2>1, <3>1, SavedIs
    <3>4. ASSUME NEW k \in 1..Len(W) PROVE W[k].buf # tape[i].saved
      <4>1. PICK j \in 1..Len(n.needs) :
              n.needs[j] /\ W[k] = [to |-> n.ins[j], buf |-> c.bufs[j]]
        BY <1>7
      <4>2. W[k].buf = c.bufs[j]
        BY <4>1
      <4>3. CASE n.op = "cross_entropy"
        <5>1. W[k].buf = tape[o].saved
          BY <1>0, <1>12, <1>13, <4>1, <4>2, <4>3
        <5>2. QED
          BY <1>3, <3>1, <3>2, <5>1
      <4>4. CASE n.op # "cross_entropy"
        <5>1. c.bufs[j] \in Int /\ m < c.bufs[j]
          BY <1>12, <1>13, <4>1, <4>4
        <5>2. QED
          BY <1>4, <3>3, <4>2, <5>1
      <4>5. QED
        BY <4>3, <4>4
    <3>5. \A k \in 1..Len(tape) : tape'[k].saved = tape[k].saved
      BY <1>0, <1>4, <1>10 DEF NodeType
    <3>6. QED
      BY <1>11, <3>1, <3>2, <3>3, <3>4, <3>5
  <2>2. ASSUME Len(W) = 2, NEW k \in 1..2, NEW t \in Ids PROVE registry[t] # W[k].buf
    <3>1. PICK j \in 1..Len(n.needs) :
            n.needs[j] /\ W[k] = [to |-> n.ins[j], buf |-> c.bufs[j]]
      BY <1>7, <2>2
    <3>2. W[k].buf = c.bufs[j]
      BY <3>1
    <3>3. n.op # "cross_entropy"
      BY <1>7, <2>2 DEF Binary
    <3>4. c.bufs[j] \in Int /\ m < c.bufs[j]
      BY <1>12, <1>13, <3>1, <3>3
    <3>5. registry[t] \in 0..m
      BY <1>4
    <3>6. QED
      BY <1>4, <3>2, <3>4, <3>5
  <2>3. \A i : LossSlope(tensors[tape[i].ins[1]].val)'
                = LossSlope(tensors[tape'[i].ins[1]].val)
    BY <1>1 DEF LossSlope
  <2>4. /\ Len(tape') = Len(tape) /\ pass'.on /\ pass'.todo = W
        /\ registry' = registry
    BY <1>1, <1>2, <1>10
  <2>5. QED
    BY <2>1, <2>2, <2>3, <2>4 DEF Unspoilt
<1>14. ASSUME Unspoilt, Balanced, upset' = {} PROVE Balanced'
  <2>1. ASSUME NEW p \in Parameters
        PROVE  owed'[p] = SumOf(Worth(p)', Ids) + Pending(p)'
    <3>0. PICK D, x : D = Tangent(p) /\ x = n.out
      OBVIOUS
    <3>1. /\ x \in Ids /\ x \in 1..N /\ x # p /\ x <= N
          /\ D \in [1..N -> Int] /\ D[x] = Through(n, D)
          /\ Tangent(p)' = [D EXCEPT ![x] = 0]
      <4>1. n.out \in 1..N /\ n.out # p
        BY <1>0, <1>1, <1>3, OutputIsLate
      <4>2. Solves(p, D)
        BY <1>1, <3>0, TangentFacts
      <4>3. D \in [1..N -> Int] /\ D[n.out] = Through(n, D)
        BY <1>0, <1>1, <1>3, <4>2 DEF Solves
      <4>4. n.out <= N
        BY <1>4, <4>1
      <4>5. QED
        BY <1>4, <1>10, <3>0, <4>1, <4>3, <4>4
    <3>2. \A t \in Ids : Found(t)' = Found(t) /\ Found(t) \in Int
      <4>1. SUFFICES ASSUME NEW t \in Ids PROVE Found(t)' = Found(t) /\ Found(t) \in Int
        OBVIOUS
      <4>2. Found(t) \in Int
        BY <1>1, <2>1, WorthInt DEF WorthTyped
      <4>3. registry[t] # NoBuf => registry[t] \in 1..m
        BY <1>4, Bounds
      <4>4. registry[t] # NoBuf => mem'[registry[t]] = mem[registry[t]]
        BY <1>11, <4>3
      <4>5. QED
        BY <1>1, <4>2, <4>4 DEF Found
    <3>3. /\ SumOf(Worth(p)', Ids) = SumOf(Worth(p), Ids) - g * D[x]
          /\ SumOf(Worth(p), Ids) \in Int
      <4>1. PICK v, w : v = Worth(p) /\ w = Worth(p)'
        OBVIOUS
      <4>2. \A t \in Ids : v[t] \in Int
        BY <1>1, <4>1, WorthInt DEF WorthTyped
      <4>3. \A t \in Ids : w[t] \in Int
        <5>1. WorthTyped'
          BY WorthInt, PTL
        <5>2. QED
          BY <1>1, <1>10, <4>1, <5>1 DEF WorthTyped
      <4>4. ASSUME NEW t \in Ids, t # x PROVE w[t] = v[t]
        <5>1. t <= N => Tangent(p)'[t] = Tangent(p)[t]
          <6>1. t <= N => t \in 1..N
            BY <1>4, IdsAre
          <6>2. QED
            BY <3>0, <3>1, <4>4, <6>1
        <5>2. Len(tensors') = N /\ Len(tensors) = N
          BY <1>0, <1>1
        <5>3. QED
          BY <3>2, <4>1, <5>1, <5>2 DEF Worth
      <4>5. v[x] = g * D[x]
        <5>1. Found(x) = g
          BY <1>0, <1>1, <3>0 DEF Found
        <5>2. v[x] = Found(x) * Tangent(p)[x]
          BY <1>0, <3>1, <4>1 DEF Worth
        <5>3. QED
          BY <3>0, <5>1, <5>2
      <4>6. w[x] = 0
        <5>1. Tangent(p)'[x] = 0
          BY <3>1
        <5>2. w[x] = Found(x)' * Tangent(p)'[x]
          BY <1>0, <1>1, <3>1, <4>1 DEF Worth
        <5>3. Found(x)' \in Int
          BY <3>1, <3>2
        <5>4. QED
          BY <5>1, <5>2, <5>3
      <4>7. SumOf(w, Ids) = SumOf(v, Ids) - v[x] + w[x] /\ SumOf(v, Ids) \in Int
        <5>1. x \in Ids /\ \A t \in Ids : t # x => w[t] = v[t]
          BY <3>1, <4>4
        <5>2. QED
          BY <4>2, <4>3, <5>1, WorthUpdate
      <4>8. g * D[x] \in Int
        BY <1>5, <3>1
      <4>9. QED
        BY <4>1, <4>5, <4>6, <4>7, <4>8
    <3>4. Pending(p)' = g * Through(n, D)
      <4>1. ASSUME NEW j \in 1..Len(n.needs)
            PROVE  Slope(n, j) \in Int /\ D[n.ins[j]] \in Int
        <5>1. n.ins[j] \in 1..N
          BY <1>6, <1>8
        <5>2. Slope(n, j) \in Int
          BY <1>0, <1>1, <1>4, <1>6, SlopeType
        <5>3. QED
          BY <3>1, <5>1, <5>2
      <4>2. ASSUME NEW j \in 1..Len(n.needs), n.needs[j], NEW k \in 1..2,
                   W[k] = [to |-> n.ins[j], buf |-> c.bufs[j]]
            PROVE  Due(p, k)' = g * (Slope(n, j) * D[n.ins[j]])
        <5>1. W[k].to = n.ins[j] /\ W[k].buf = c.bufs[j]
          BY <4>2
        <5>2. mem'[c.bufs[j]] = g * Slope(n, j)
          BY <1>12, <1>14, <4>2
        <5>3. n.ins[j] \in 1..N /\ n.ins[j] # x
          BY <1>6, <1>8, <3>0
        <5>4. Tangent(p)'[n.ins[j]] = D[n.ins[j]]
          BY <3>1, <5>3
        <5>5. Due(p, k)' = (g * Slope(n, j)) * D[n.ins[j]]
          BY <1>2, <5>1, <5>2, <5>4 DEF Due
        <5>6. QED
          BY <1>5, <4>1, <5>5
      <4>3. CASE n.op \in Binary
        <5>1. Len(n.needs) = 2
          BY <1>4, <4>3 DEF Sound
        <5>2. 1 \in 1..Len(n.needs) /\ 2 \in 1..Len(n.needs)
          BY <5>1
        <5>3. PICK a, b : a = Slope(n, 1) * D[n.ins[1]] /\ b = Slope(n, 2) * D[n.ins[2]]
          OBVIOUS
        <5>4. a \in Int /\ b \in Int /\ g * a \in Int /\ g * b \in Int
              /\ g * (a + b) = g * a + g * b
          <6>1. a \in Int /\ b \in Int
            BY <4>1, <5>2, <5>3
          <6>2. QED
            BY <1>5, <6>1
        <5>5. Through(n, D) = (IF n.needs[1] THEN a ELSE 0) + (IF n.needs[2] THEN b ELSE 0)
          BY <4>3, <5>3 DEF Through
        <5>6. PICK y, z : y = [to |-> n.ins[1], buf |-> c.bufs[1]]
                        /\ z = [to |-> n.ins[2], buf |-> c.bufs[2]]
          OBVIOUS
        <5>7. /\ n.needs[1] \in BOOLEAN /\ n.needs[2] \in BOOLEAN
              /\ n.needs[1] /\ n.needs[2] => Len(W) = 2 /\ W[1] = y /\ W[2] = z
              /\ n.needs[1] /\ ~n.needs[2] => Len(W) = 1 /\ W[1] = y
              /\ ~n.needs[1] /\ n.needs[2] => Len(W) = 1 /\ W[1] = z
              /\ ~n.needs[1] /\ ~n.needs[2] => Len(W) = 0
          BY <1>0, <1>4, <4>3, <5>6, WantedShape
        <5>8. \A k \in 1..2 : /\ n.needs[1] /\ W[k] = y => Due(p, k)' = g * a
                              /\ n.needs[2] /\ W[k] = z => Due(p, k)' = g * b
          BY <4>2, <5>2, <5>3, <5>6
        <5>9. 1 \in 1..2 /\ 2 \in 1..2
          OBVIOUS
        <5>10. Pending(p)' = (IF Len(W) >= 1 THEN Due(p, 1)' ELSE 0)
                               + (IF Len(W) = 2 THEN Due(p, 2)' ELSE 0)
          BY <1>2 DEF Pending
        <5>11. CASE n.needs[1] /\ n.needs[2]
          <6>1. Due(p, 1)' = g * a /\ Due(p, 2)' = g * b /\ Len(W) = 2
            BY <5>7, <5>8, <5>9, <5>11
          <6>2. QED
            BY <5>4, <5>5, <5>10, <5>11, <6>1
        <5>12. CASE n.needs[1] /\ ~n.needs[2]
          <6>1. Due(p, 1)' = g * a /\ Len(W) = 1
            BY <5>7, <5>8, <5>9, <5>12
          <6>2. QED
            BY <5>4, <5>5, <5>10, <5>12, <6>1
        <5>13. CASE ~n.needs[1] /\ n.needs[2]
          <6>1. Due(p, 1)' = g * b /\ Len(W) = 1
            BY <5>7, <5>8, <5>9, <5>13
          <6>2. QED
            BY <5>4, <5>5, <5>10, <5>13, <6>1
        <5>14. CASE ~n.needs[1] /\ ~n.needs[2]
          <6>1. Len(W) = 0 /\ g * 0 = 0
            BY <1>5, <5>7, <5>14
          <6>2. QED
            BY <5>5, <5>10, <5>14, <6>1
        <5>15. QED
          BY <5>7, <5>11, <5>12, <5>13, <5>14
      <4>4. CASE n.op \notin Binary
        <5>1. 1 \in 1..Len(n.needs)
          BY <1>4, <1>6, <4>4, OperandsOf
        <5>2. PICK y : y = [to |-> n.ins[1], buf |-> c.bufs[1]]
          OBVIOUS
        <5>3. n.needs[1] /\ Len(W) = 1 /\ W[1] = y
          <6>1. n.needs[1]
            BY <1>4, <4>4, WantedShape
          <6>2. Len(W) = 1
            BY <1>0, <1>4, <4>4, WantedShape
          <6>3. W[1] = y
            BY <1>0, <1>4, <4>4, <5>2, WantedShape
          <6>4. QED
            BY <6>1, <6>2, <6>3
        <5>4. Due(p, 1)' = g * (Slope(n, 1) * D[n.ins[1]])
          <6>1. 1 \in 1..2
            OBVIOUS
          <6>2. QED
            BY <4>2, <5>1, <5>2, <5>3, <6>1
        <5>5. Through(n, D) = Slope(n, 1) * D[n.ins[1]]
          BY <4>4, <5>3 DEF Through
        <5>6. g * (Slope(n, 1) * D[n.ins[1]]) \in Int
          BY <1>5, <4>1, <5>1
        <5>7. Pending(p)' = Due(p, 1)'
          BY <1>2, <5>3, <5>4, <5>6 DEF Pending
        <5>8. QED
          BY <5>4, <5>5, <5>7
      <4>5. QED
        BY <4>3, <4>4
    <3>5. Pending(p) = 0
      BY <1>2 DEF Pending
    <3>6. owed'[p] = SumOf(Worth(p), Ids) + Pending(p)
      BY <1>1, <1>14 DEF Balanced
    <3>7. g * D[x] \in Int
      BY <1>5, <3>1
    <3>8. QED
      BY <3>1, <3>3, <3>4, <3>5, <3>6, <3>7
  <2>2. QED
    BY <2>1 DEF Balanced
<1>15. upset' = {} => Unspoilt' /\ Balanced'
  <2>1. SUFFICES ASSUME upset' = {} PROVE Unspoilt' /\ Balanced'
    OBVIOUS
  <2>2. upset = {}
    BY <1>1, <2>1
  <2>3. Unspoilt /\ Balanced
    BY <2>2 DEF GInv
  <2>4. QED
    BY <1>13, <1>14, <2>1, <2>3
<1>16. QED
  BY <1>10, <1>15 DEF GInv

\* The sum is kept by every step.
LEMMA GradsNext == GInv /\ Referred /\ [Next]_vars => GInv'
<1> SUFFICES ASSUME GInv, Referred, [Next]_vars PROVE GInv'
  OBVIOUS
<1>0. IInv'
  BY NextHolds DEF GInv
<1>1. ASSUME NEW on \in BOOLEAN, EnableOrDisable(on) PROVE GInv'
  BY <1>0, <1>1, QuietKeeps DEF EnableOrDisable, grads, past, debts
<1>2. ASSUME NEW kind \in GuardKinds, NewGuard(kind) PROVE GInv'
  BY <1>0, <1>2, QuietKeeps DEF NewGuard, grads, past, debts
<1>3. CASE DropGuard
  BY <1>0, <1>3, QuietKeeps DEF DropGuard, grads, past, debts
<1>4. ASSUME NEW op \in Ops \cap Unary, NEW a \in DOMAIN tensors, Forward(op, <<a>>)
      PROVE  GInv'
  <2>1. <<a>> \in Seq(DOMAIN tensors) /\ Len(<<a>>) = 1 /\ op \in Binary \cup Unary
    OBVIOUS
  <2>2. QED
    BY <1>0, <1>4, <2>1, ForwardKeeps
<1>5. ASSUME NEW op \in Ops \cap Binary, NEW a \in DOMAIN tensors,
             NEW b \in DOMAIN tensors, Forward(op, <<a, b>>)
      PROVE  GInv'
  <2>1. <<a, b>> \in Seq(DOMAIN tensors) /\ op \in Binary \cup Unary /\ op \notin Unary
    BY DEF Binary, Unary
  <2>2. QED
    BY <1>0, <1>5, <2>1, ForwardKeeps
<1>6. ASSUME NEW t \in Outputs, SetRequiresGrad(t) PROVE GInv'
  <2>1. /\ UNCHANGED <<tape, registry, mem, pass, owed, upset>>
        /\ tensors' = [tensors EXCEPT ![t].req = TRUE]
    BY <1>6 DEF SetRequiresGrad, grads, past, debts
  <2>2. tensors \in Seq([val : Int, req : BOOLEAN]) /\ t \in 1..Len(tensors)
    BY DEF GInv, IInv, TapeTypes, Outputs
  <2>3. PICK r : r = [tensors[t] EXCEPT !.req = TRUE]
    OBVIOUS
  <2>4. tensors[t] \in [val : Int, req : BOOLEAN]
    BY <2>2, ElementOfSeq
  <2>5. r.val = tensors[t].val
    BY <2>3, <2>4
  <2>6. tensors' = [tensors EXCEPT ![t] = r]
    BY <2>1, <2>3
  <2>7. /\ Len(tensors') = Len(tensors)
        /\ \A u \in 1..Len(tensors) : tensors'[u] = IF u = t THEN r ELSE tensors[u]
    BY <2>2, <2>6
  <2>8. \A u \in 1..Len(tensors) : tensors'[u].val = tensors[u].val
    BY <2>5, <2>7
  <2>9. QED
    BY <1>0, <2>1, <2>7, <2>8, QuietKeeps
<1>7. ASSUME NEW loss \in Outputs, NEW seed \in {1, 3}, Backward(loss, seed)
      PROVE  GInv'
  BY <1>0, <1>7, BackwardKeeps
<1>8. CASE SkipNode
  BY <1>0, <1>8, SkipKeeps
<1>9. CASE CallClosure
  BY <1>0, <1>9, CallKeeps
<1>10. CASE Accumulate
  BY <1>0, <1>10, AccumulateKeeps
<1>11. CASE FinishPass
  BY <1>0, <1>11, FinishKeeps
<1>12. CASE FailPass
  BY <1>0, <1>12, FailKeeps
<1>13. CASE SyncGrads
  BY <1>0, <1>13, QuietKeeps DEF SyncGrads, graph, debts
<1>14. CASE Clear
  BY <1>0, <1>14, ClearKeeps
<1>15. CASE UNCHANGED vars
  BY <1>0, <1>15, QuietKeeps DEF vars, graph, grads, past, debts
<1>16. QED
  BY <1>1, <1>2, <1>3, <1>4, <1>5, <1>6, <1>7, <1>8, <1>9, <1>10, <1>11,
     <1>12, <1>13, <1>14, <1>15 DEF Next

-----------------------------------------------------------------------------
\* What the equations say of Tangent, for a state and for the next one.
Tangents ==
  TapeTypes /\ Walked /\ Derivable => \A p \in Parameters :
    /\ \A t \in 1..Len(tensors) :
         (\A i \in 1..Len(tape) : tape[i].live => tape[i].out # t)
           => Tangent(p)[t] = Leaf(t).by[p]
    /\ \A i \in 1..Len(tape) :
         tape[i].live => Tangent(p)[tape[i].out] = Through(tape[i], Tangent(p))

LEMMA TangentsAre == Tangents
<1> SUFFICES ASSUME TapeTypes, Walked, Derivable, NEW p \in Parameters
             PROVE  /\ \A t \in 1..Len(tensors) :
                         (\A i \in 1..Len(tape) : tape[i].live => tape[i].out # t)
                           => Tangent(p)[t] = Leaf(t).by[p]
                    /\ \A i \in 1..Len(tape) :
                         tape[i].live
                           => Tangent(p)[tape[i].out] = Through(tape[i], Tangent(p))
  BY DEF Tangents
<1>1. Solves(p, Tangent(p))
  BY TangentFacts
<1>2. ASSUME NEW t PROVE Leaf(t).by[p] = IF p = t THEN 1 ELSE 0
  BY DEF Leaf
<1>3. QED
  BY <1>1, <1>2 DEF Solves

LEMMA DualAt ==
  ASSUME Referred, NEW t \in 1..Len(tensors)
  PROVE  /\ dual[t] \in Dual /\ dual[t].by \in [Parameters -> Int]
         /\ dual[t].via \subseteq 1..Len(tape)
<1>1. dual[t] \in Dual
  BY ElementOfSeq DEF Referred
<1>2. QED
  BY <1>1 DEF Referred, Dual

LEMMA LeafType ==
  ASSUME NEW t
  PROVE  Leaf(t) \in Dual /\ Leaf(t).via = {}
BY DEF Leaf, Dual

\* At first, and after clear(), the reference knows leaves alone.
LeavesReferred ==
  /\ TapeTypes /\ Walked /\ Derivable /\ tape = << >>
  /\ dual = [t \in 1..Len(tensors) |-> Leaf(t)]
  => Referred

LEMMA ReferredToLeaves == LeavesReferred
<1> SUFFICES ASSUME TapeTypes, Walked, Derivable, tape = << >>,
                    dual = [t \in 1..Len(tensors) |-> Leaf(t)]
             PROVE  Referred
  BY DEF LeavesReferred
<1>1. Len(tensors) \in Nat /\ Len(tape) = 0
  BY DEF TapeTypes
<1>2. dual \in Seq(Dual) /\ Len(dual) = Len(tensors)
  <2>1. dual \in [1..Len(tensors) -> Dual]
    BY LeafType
  <2>2. QED
    BY <1>1, <2>1, FunctionIsSequence
<1>3. ASSUME NEW t \in 1..Len(tensors), NEW p \in Parameters
      PROVE  dual[t].via = {} /\ Tangent(p)[t] = dual[t].by[p]
  <2>1. dual[t] = Leaf(t)
    OBVIOUS
  <2>2. Tangent(p)[t] = Leaf(t).by[p]
    BY <1>1, TangentsAre DEF Tangents
  <2>3. QED
    BY <2>1, <2>2, LeafType
<1>4. \A t \in 1..Len(tensors) : dual[t].via \subseteq 1..Len(tape)
  BY LeafType
<1>5. QED
  BY <1>1, <1>2, <1>3, <1>4 DEF Referred

LEMMA ReferredInit == Init => Referred
<1> SUFFICES ASSUME Init PROVE Referred
  OBVIOUS
<1>1. TapeTypes /\ Walked /\ Derivable
  BY GInit DEF GInv, IInv
<1>2. tape = << >> /\ dual = [p \in Parameters |-> Leaf(p)]
  BY DEF Init
<1>3. Len(tensors) = Len(LeafValues)
  <2>1. DOMAIN tensors = 1..Len(LeafValues)
    BY DEF Init, Parameters
  <2>2. /\ DOMAIN tensors = 1..Len(tensors) /\ Len(LeafValues) \in Nat
        /\ Len(tensors) \in Nat /\ Len(LeafValues) <= Len(tensors)
    BY <1>1, Bounds DEF TapeTypes
  <2>3. Len(tensors) \in 1..Len(tensors) => Len(tensors) \in 1..Len(LeafValues)
    BY <2>1, <2>2
  <2>4. QED
    BY <2>2, <2>3
<1>4. QED
  BY <1>1, <1>2, <1>3, ReferredToLeaves DEF Parameters, LeavesReferred

LEMMA ReferredClear ==
  ASSUME Referred, GInv', Clear
  PROVE  Referred'
<1>1. TapeTypes' /\ Walked' /\ Derivable'
  BY DEF GInv, IInv
<1>2. /\ tape' = << >> /\ tensors' = tensors
      /\ dual' = [t \in DOMAIN dual |-> Leaf(t)]
  BY DEF Clear
<1>3. DOMAIN dual = 1..Len(tensors)
  BY DEF Referred
<1>4. dual' = [t \in 1..Len(tensors') |-> Leaf(t)]
  BY <1>2, <1>3
<1>5. \A t : Leaf(t)' = Leaf(t)
  BY DEF Leaf
<1>6. LeavesReferred'
  BY ReferredToLeaves, PTL
<1>7. QED
  BY <1>1, <1>2, <1>4, <1>5, <1>6 DEF LeavesReferred

\* Neither the nodes nor the values change, and nothing is recorded.
LEMMA ReferredStays ==
  ASSUME GInv, GInv', Referred, UNCHANGED <<tape, dual>>,
         Len(tensors') = Len(tensors),
         \A t \in 1..Len(tensors) : tensors'[t].val = tensors[t].val
  PROVE  Referred'
<1>1. /\ TapeTypes /\ Walked /\ Derivable /\ TapeTypes' /\ Walked'
  BY DEF GInv, IInv
<1>2. \A p \in Parameters : Tangent(p)' = Tangent(p)
  BY <1>1, TangentStays
<1>3. \A t : Intact(t)' <=> Intact(t)
  BY DEF Intact
<1>4. QED
  BY <1>2, <1>3 DEF Referred

\* A closure is taken: whatever comes through its node is no longer intact.
LEMMA ReferredSpent ==
  ASSUME GInv, GInv', Referred, AtNode, Spend, UNCHANGED <<tensors, dual>>
  PROVE  Referred'
<1>1. /\ TapeTypes /\ Walked /\ Derivable /\ TapeTypes' /\ Walked'
      /\ Len(tape) \in Nat
  BY DEF GInv, IInv, TapeTypes
<1>2. PICK o : o = pass.node
  OBVIOUS
<1>3. /\ o \in 1..Len(tape) /\ tape' = [tape EXCEPT ![o].live = FALSE]
      /\ \A i \in 1..Len(tape) : o < i => ~tape[i].live
  <2>1. pass.on /\ pass.node > 0 /\ pass.node \in Nat /\ pass.node <= Len(tape)
    BY <1>1 DEF AtNode, TapeTypes
  <2>2. QED
    BY <1>1, <1>2, <2>1 DEF Spend, Walked
<1>4. /\ Len(tape') = Len(tape)
      /\ tape'[o].live = FALSE /\ tape'[o].out = tape[o].out
      /\ \A i \in 1..Len(tape) : i # o => tape'[i] = tape[i]
  BY <1>1, <1>3 DEF TapeTypes
<1>5. \A p \in Parameters :
        Tangent(p)' = [Tangent(p) EXCEPT ![tape[o].out] = 0]
  BY <1>1, <1>3, TangentSpent
<1>6. ASSUME NEW t \in 1..Len(tensors), Intact(t)', NEW p \in Parameters
      PROVE  Tangent(p)'[t] = dual[t].by[p]
  <2>1. dual[t].via \subseteq 1..Len(tape)
    BY DualAt
  <2>2. \A i \in dual[t].via : tape'[i].live
    BY <1>6 DEF Intact
  <2>3. o \notin dual[t].via
    BY <1>4, <2>2
  <2>4. Intact(t)
    BY <1>4, <2>1, <2>2, <2>3 DEF Intact
  <2>5. t # tape[o].out
    BY <1>3, <2>3 DEF Referred
  <2>6. Tangent(p) \in [1..Len(tensors) -> Int]
    BY <1>1, TangentFacts DEF Solves
  <2>7. Tangent(p)'[t] = Tangent(p)[t]
    BY <1>5, <2>5, <2>6
  <2>8. QED
    BY <2>4, <2>7 DEF Referred
<1>7. \A i \in 1..Len(tape') : i \in dual'[tape'[i].out].via
  BY <1>4 DEF Referred
<1>8. QED
  BY <1>4, <1>6, <1>7 DEF Referred

\* The chain rule is the step of the recursion that defines Tangent.
LEMMA ChainIs ==
  ASSUME TapeTypes, Referred, NEW n, n.op \in Binary \cup Unary,
         n.op \in Binary => 1 \in 1..Len(n.ins) /\ 2 \in 1..Len(n.ins),
         n.op \in Unary => 1 \in 1..Len(n.ins),
         \A j \in 1..Len(n.ins) : n.ins[j] \in 1..Len(tensors)
  PROVE  /\ Chain(n) \in Dual
         /\ Len(tape) + 1 \in Chain(n).via
         /\ Chain(n).via \subseteq 1..Len(tape) + 1
         /\ \A p \in Parameters : \A D :
              (\A j \in 1..Len(n.ins) :
                 n.needs[j] /\ dual[n.ins[j]].via \subseteq Chain(n).via
                   => D[n.ins[j]] = dual[n.ins[j]].by[p])
                => Through(n, D) = Chain(n).by[p]
<1> DEFINE term(j, p) == IF n.needs[j] THEN Slope(n, j) * dual[n.ins[j]].by[p] ELSE 0
           behind(j) == IF n.needs[j] THEN dual[n.ins[j]].via ELSE {}
           two == n.op \in Binary
<1>1. Chain(n) = [by  |-> [p \in Parameters |-> IF two THEN term(1, p) + term(2, p)
                                                ELSE term(1, p)],
                  via |-> {Len(tape) + 1} \cup behind(1)
                            \cup (IF two THEN behind(2) ELSE {})]
  BY DEF Chain
<1>2. Len(tape) \in Nat
  BY DEF TapeTypes
<1>3. /\ 1 \in 1..Len(n.ins)
      /\ two => 2 \in 1..Len(n.ins)
  OBVIOUS
<1>4. \A j \in 1..Len(n.ins) : /\ dual[n.ins[j]].by \in [Parameters -> Int]
                               /\ dual[n.ins[j]].via \subseteq 1..Len(tape)
                               /\ tensors[n.ins[j]].val \in Int
  <2>1. SUFFICES ASSUME NEW t \in 1..Len(tensors)
                 PROVE  /\ dual[t].by \in [Parameters -> Int]
                        /\ dual[t].via \subseteq 1..Len(tape)
                        /\ tensors[t].val \in Int
    OBVIOUS
  <2>2. tensors[t] \in [val : Int, req : BOOLEAN]
    BY ElementOfSeq DEF TapeTypes
  <2>3. QED
    BY <2>2, DualAt
<1>5. \A j \in {1, 2} : j = 1 \/ two => Slope(n, j) \in Int
  <2>1. tensors[n.ins[1]].val \in Int /\ (two => tensors[n.ins[2]].val \in Int)
    BY <1>3, <1>4
  <2>2. CASE two
    <3>1. n.op = "add" \/ n.op = "mul"
      BY <2>2 DEF Binary
    <3>2. QED
      BY <2>1, <2>2, <3>1 DEF Slope
  <2>3. CASE ~two
    <3>1. n.op = "scale" \/ n.op = "relu" \/ n.op = "cross_entropy"
      BY <2>3 DEF Unary
    <3>2. QED
      BY <2>1, <2>3, <3>1 DEF Slope, Factor, LossSlope
  <2>4. QED
    BY <2>2, <2>3
<1>6. ASSUME NEW j \in {1, 2}, j = 1 \/ two, NEW p \in Parameters
      PROVE  term(j, p) \in Int /\ behind(j) \subseteq 1..Len(tape)
  <2>1. j \in 1..Len(n.ins)
    BY <1>3, <1>6
  <2>2. dual[n.ins[j]].by[p] \in Int /\ dual[n.ins[j]].via \subseteq 1..Len(tape)
    BY <1>4, <2>1
  <2>3. Slope(n, j) \in Int
    BY <1>5, <1>6
  <2>4. QED
    BY <2>2, <2>3
<1>7. ASSUME NEW j \in {1, 2}, j = 1 \/ two
      PROVE  behind(j) \subseteq 1..Len(tape) /\ behind(j) \subseteq Chain(n).via
  <2>1. j \in 1..Len(n.ins)
    BY <1>3, <1>7
  <2>2. behind(j) \subseteq 1..Len(tape)
    BY <1>4, <2>1
  <2>3. QED
    BY <1>1, <1>7, <2>2
<1>8. ASSUME NEW p \in Parameters, NEW D,
             \A j \in 1..Len(n.ins) :
               n.needs[j] /\ dual[n.ins[j]].via \subseteq Chain(n).via
                 => D[n.ins[j]] = dual[n.ins[j]].by[p]
      PROVE  Through(n, D) = Chain(n).by[p]
  <2> DEFINE here(j) == IF n.needs[j] THEN Slope(n, j) * D[n.ins[j]] ELSE 0
  <2>1. ASSUME NEW j \in {1, 2}, j = 1 \/ two PROVE here(j) = term(j, p)
    <3>1. CASE n.needs[j]
      <4>1. dual[n.ins[j]].via \subseteq Chain(n).via
        BY <1>7, <2>1, <3>1
      <4>2. j \in 1..Len(n.ins)
        BY <1>3, <2>1
      <4>3. QED
        BY <1>8, <3>1, <4>1, <4>2
    <3>2. CASE ~n.needs[j]
      BY <3>2
    <3>3. QED
      BY <3>1, <3>2
  <2>2. Through(n, D) = IF two THEN here(1) + here(2) ELSE here(1)
    BY DEF Through
  <2>3. Chain(n).by[p] = IF two THEN term(1, p) + term(2, p) ELSE term(1, p)
    BY <1>1
  <2> HIDE DEF here, term, two
  <2>4. here(1) = term(1, p) /\ (two => here(2) = term(2, p))
    BY <2>1
  <2>5. QED
    BY <2>2, <2>3, <2>4
<1>9. Chain(n) \in Dual
  <2>1. \A p \in Parameters : term(1, p) \in Int /\ (two => term(2, p) \in Int)
    BY <1>6
  <2>2. behind(1) \subseteq Nat /\ (two => behind(2) \subseteq Nat)
    BY <1>7
  <2> HIDE DEF term, behind, two
  <2>3. \A p \in Parameters :
          (IF two THEN term(1, p) + term(2, p) ELSE term(1, p)) \in Int
    BY <2>1
  <2>4. {Len(tape) + 1} \cup behind(1) \cup (IF two THEN behind(2) ELSE {})
          \in SUBSET Nat
    BY <1>2, <2>2
  <2>5. QED
    BY <1>1, <2>3, <2>4 DEF Dual
<1>10. Len(tape) + 1 \in Chain(n).via /\ Chain(n).via \subseteq 1..Len(tape) + 1
  <2>1. behind(1) \subseteq 1..Len(tape) /\ (two => behind(2) \subseteq 1..Len(tape))
    BY <1>7
  <2>2. Chain(n).via = {Len(tape) + 1} \cup behind(1)
                         \cup (IF two THEN behind(2) ELSE {})
    BY <1>1
  <2> HIDE DEF behind, two
  <2>3. QED
    BY <1>2, <2>1, <2>2
<1>11. QED
  BY <1>8, <1>9, <1>10

\* A new node reads values that stay as they are.
LEMMA ThroughNew ==
  ASSUME NEW n, n.op \in Binary \cup Unary, NEW D,
         tensors'[n.ins[1]].val = tensors[n.ins[1]].val,
         n.op \in Binary => tensors'[n.ins[2]].val = tensors[n.ins[2]].val
  PROVE  Through(n, D)' = Through(n, D)
<1>1. CASE n.op \in Binary
  <2>1. n.op = "add" \/ n.op = "mul"
    BY <1>1 DEF Binary
  <2>2. Slope(n, 1)' = Slope(n, 1) /\ Slope(n, 2)' = Slope(n, 2)
    BY <1>1, <2>1 DEF Slope
  <2>3. QED
    BY <1>1, <2>2 DEF Through
<1>2. CASE n.op \notin Binary
  <2>1. n.op = "scale" \/ n.op = "relu" \/ n.op = "cross_entropy"
    BY <1>2 DEF Unary
  <2>2. Slope(n, 1)' = Slope(n, 1)
    BY <2>1 DEF Slope, LossSlope
  <2>3. QED
    BY <1>2, <2>2 DEF Through
<1>3. QED
  BY <1>1, <1>2

\* The older tensors are as they were.  The new one is a leaf, or the chain
\* rule gives it what the recursion gives it.
LEMMA ReferredForward ==
  ASSUME GInv, GInv', Referred, NEW op \in Binary \cup Unary,
         NEW ins \in Seq(DOMAIN tensors),
         op \in Binary => Len(ins) = 2, op \in Unary => Len(ins) = 1,
         Forward(op, ins)
  PROVE  Referred'
<1>0. PICK N, L : N = Len(tensors) /\ L = Len(tape)
  OBVIOUS
<1>1. /\ TapeTypes /\ Walked /\ Derivable /\ TapeTypes' /\ Walked' /\ Derivable'
      /\ N \in Nat /\ L \in Nat /\ DOMAIN tensors = 1..N
      /\ tape \in Seq(NodeType) /\ tape' \in Seq(NodeType)
      /\ dual \in Seq(Dual) /\ Len(dual) = N
      /\ Len(LeafValues) <= N /\ Len(LeafValues) \in Nat
  BY <1>0, Bounds DEF GInv, IInv, TapeTypes, Referred
<1>2. Len(tensors') = N + 1 /\ \A t \in 1..N : tensors'[t] = tensors[t]
  <2>1. PICK x : tensors' = Append(tensors, x)
    BY DEF Forward
  <2>2. PICK S : tensors \in Seq(S)
    BY <1>1 DEF TapeTypes
  <2>3. tensors \in Seq(S \cup {x})
    BY <2>2
  <2>4. QED
    BY <1>0, <2>1, <2>3, AppendProperties
<1>3. \A j \in 1..Len(ins) : ins[j] \in 1..N
  BY <1>1, ElementOfSeq
<1>4. \A p \in Parameters : p # N + 1
  BY <1>1 DEF Parameters
<1>5. ASSUME NEW d \in Dual, dual' = Append(dual, d), d.via \subseteq 1..Len(tape'),
             \A i \in 1..L : tape'[i] = tape[i], Len(tape') \in {L, L + 1},
             Len(tape') = L + 1 => tape'[L + 1].out = N + 1 /\ L + 1 \in d.via,
             \/ UNCHANGED tape
             \/ \E n \in NodeType :
                  tape' = Append(tape, n) /\ n.out = Len(tensors) + 1 /\ n.live,
             \A p \in Parameters :
               (\A i \in d.via : tape'[i].live) => Tangent(p)'[N + 1] = d.by[p]
      PROVE  Referred'
  <2>1. /\ dual' \in Seq(Dual) /\ Len(dual') = N + 1 /\ dual'[N + 1] = d
        /\ \A t \in 1..N : dual'[t] = dual[t]
    BY <1>1, <1>5, AppendProperties
  <2>2. \A p \in Parameters : \A t \in 1..N : Tangent(p)'[t] = Tangent(p)[t]
    BY <1>0, <1>1, <1>2, <1>5, TangentGrows
  <2>3. \A t \in 1..N : dual[t].via \subseteq 1..L
    BY <1>0, DualAt
  <2>4. ASSUME NEW t \in 1..N, NEW p \in Parameters, Intact(t)'
        PROVE  Tangent(p)'[t] = dual'[t].by[p]
    <3>1. \A i \in dual[t].via : tape'[i].live
      BY <2>1, <2>4 DEF Intact
    <3>2. Intact(t)
      BY <1>5, <2>3, <3>1 DEF Intact
    <3>3. Tangent(p)[t] = dual[t].by[p]
      BY <1>0, <3>2 DEF Referred
    <3>4. QED
      BY <2>1, <2>2, <3>3
  <2>5. ASSUME NEW p \in Parameters, Intact(N + 1)'
        PROVE  Tangent(p)'[N + 1] = dual'[N + 1].by[p]
    <3>1. \A i \in d.via : tape'[i].live
      BY <2>1, <2>5 DEF Intact
    <3>2. QED
      BY <1>5, <2>1, <3>1
  <2>6. \A t \in 1..N + 1 : dual'[t].via \subseteq 1..Len(tape')
    <3>1. SUFFICES ASSUME NEW t \in 1..N + 1
                   PROVE  dual'[t].via \subseteq 1..Len(tape')
      OBVIOUS
    <3>2. CASE t \in 1..N
      BY <1>1, <1>5, <2>1, <2>3, <3>2
    <3>3. CASE t = N + 1
      BY <1>5, <2>1, <3>3
    <3>4. QED
      BY <1>1, <3>2, <3>3
  <2>7. \A i \in 1..Len(tape') : i \in dual'[tape'[i].out].via
    <3>1. SUFFICES ASSUME NEW i \in 1..Len(tape')
                   PROVE  i \in dual'[tape'[i].out].via
      OBVIOUS
    <3>2. CASE i \in 1..L
      <4>1. i \in dual[tape[i].out].via
        BY <1>0, <3>2 DEF Referred
      <4>2. tape[i].out \in 1..N
        <5>1. tape[i].out \in Ids /\ tape[i].out <= N
          BY <1>0, <1>1, <3>2, NodeAt DEF Walked
        <5>2. QED
          BY <1>1, <5>1, IdsAre
      <4>3. QED
        BY <1>5, <2>1, <3>2, <4>1, <4>2
    <3>3. CASE i \notin 1..L
      <4>1. i = L + 1 /\ Len(tape') = L + 1
        BY <1>1, <1>5, <3>3
      <4>2. QED
        BY <1>5, <2>1, <4>1
    <3>4. QED
      BY <3>2, <3>3
  <2>8. \A t \in 1..N + 1 : \A p \in Parameters :
          Intact(t)' => Tangent(p)'[t] = dual'[t].by[p]
    <3>1. SUFFICES ASSUME NEW t \in 1..N + 1, NEW p \in Parameters, Intact(t)'
                   PROVE  Tangent(p)'[t] = dual'[t].by[p]
      OBVIOUS
    <3>2. CASE t \in 1..N
      BY <2>4, <3>1, <3>2
    <3>3. CASE t \notin 1..N
      <4>1. t = N + 1
        BY <1>1, <3>3
      <4>2. Intact(N + 1)'
        BY <3>1, <4>1
      <4>3. QED
        BY <2>5, <4>1, <4>2
    <3>4. QED
      BY <3>2, <3>3
  <2>9. QED
    BY <1>2, <2>1, <2>6, <2>7, <2>8 DEF Referred
<1>6. Tangents'
  BY TangentsAre, PTL
<1>7. CASE ~(recording /\ Tracked(ins))
  <2>1. dual' = Append(dual, Leaf(N + 1)) /\ tape' = tape
    BY <1>0, <1>7 DEF Forward
  <2>2. PICK d : d = Leaf(N + 1)
    OBVIOUS
  <2>3. /\ d \in Dual /\ d.via = {} /\ \A p \in Parameters : d.by[p] = 0
    BY <1>4, <2>2, LeafType DEF Leaf
  <2>4. ASSUME NEW p \in Parameters PROVE Tangent(p)'[N + 1] = d.by[p]
    <3>1. \A i \in 1..Len(tape') : tape'[i].out # N + 1
      <4>1. SUFFICES ASSUME NEW i \in 1..L PROVE tape[i].out # N + 1
        BY <1>0, <2>1
      <4>2. tape[i].out \in Ids /\ tape[i].out <= N
        BY <1>0, <1>1, NodeAt DEF Walked
      <4>3. QED
        BY <1>1, <4>2, IdsAre
    <3>2. N + 1 \in 1..Len(tensors')
      BY <1>1, <1>2
    <3>3. Tangent(p)'[N + 1] = Leaf(N + 1)'.by[p]
      BY <1>1, <1>6, <3>1, <3>2 DEF Tangents, Leaf
    <3>4. QED
      BY <1>4, <2>3, <3>3 DEF Leaf
  <2>5. /\ Len(tape') \in {L, L + 1} /\ Len(tape') # L + 1
        /\ \A i \in 1..L : tape'[i] = tape[i]
        /\ d.via \subseteq 1..Len(tape') /\ dual' = Append(dual, d)
    BY <1>0, <1>1, <2>1, <2>2, <2>3
  <2>6. QED
    BY <1>5, <2>1, <2>3, <2>4, <2>5
<1>8. CASE recording /\ Tracked(ins)
  <2>1. PICK saved : tape' = Append(tape, Node(op, ins, saved))
    BY <1>8 DEF Forward
  <2>2. PICK n : n = Node(op, ins, saved)
    OBVIOUS
  <2>3. n.op = op /\ n.out = N + 1 /\ n.live /\ n.ins = ins
    BY <1>0, <2>2 DEF Node
  <2>4. PICK d : d = Chain(n)
    OBVIOUS
  <2>5. dual' = Append(dual, d)
    <3>1. dual' = Append(dual, Chain(Node(op, ins, NoBuf)))
      BY <1>8 DEF Forward
    <3>2. PICK k : k = Node(op, ins, NoBuf)
      OBVIOUS
    <3>3. k.op = n.op /\ k.ins = n.ins /\ k.needs = n.needs
      BY <2>2, <3>2 DEF Node
    <3>4. \A j : Slope(k, j) = Slope(n, j)
      BY <3>3 DEF Slope
    <3>5. Chain(k) = Chain(n)
      BY <3>3, <3>4 DEF Chain
    <3>6. QED
      BY <2>4, <3>1, <3>2, <3>5
  <2>6. /\ Len(tape') = L + 1 /\ tape'[L + 1] = n /\ tape' = Append(tape, n)
        /\ \A i \in 1..L : tape'[i] = tape[i]
    <3>1. tape \in Seq(NodeType \cup {n})
      BY <1>1
    <3>2. QED
      BY <1>0, <2>1, <2>2, <3>1, AppendProperties
  <2>7. n \in NodeType
    <3>1. L + 1 \in 1..Len(tape')
      BY <1>1, <2>6
    <3>2. QED
      BY <1>1, <2>6, <3>1, ElementOfSeq
  <2>8. /\ n.op \in Binary => 1 \in 1..Len(n.ins) /\ 2 \in 1..Len(n.ins)
        /\ n.op \in Unary => 1 \in 1..Len(n.ins)
        /\ \A j \in 1..Len(n.ins) : n.ins[j] \in 1..Len(tensors)
    <3>1. /\ op \in Binary => 1 \in 1..Len(ins) /\ 2 \in 1..Len(ins)
          /\ op \in Unary => 1 \in 1..Len(ins)
      OBVIOUS
    <3>2. QED
      BY <1>0, <1>3, <2>3, <3>1
  <2>9. /\ d \in Dual /\ L + 1 \in d.via /\ d.via \subseteq 1..L + 1
        /\ \A p \in Parameters : \A D :
             (\A j \in 1..Len(n.ins) :
                n.needs[j] /\ dual[n.ins[j]].via \subseteq d.via
                  => D[n.ins[j]] = dual[n.ins[j]].by[p])
               => Through(n, D) = d.by[p]
    BY <1>0, <1>1, <2>3, <2>4, <2>8, ChainIs
  <2>10. ASSUME NEW p \in Parameters, \A i \in d.via : tape'[i].live
         PROVE  Tangent(p)'[N + 1] = d.by[p]
    <3>1. PICK D : D = Tangent(p)'
      OBVIOUS
    <3>2. ASSUME NEW j \in 1..Len(n.ins), n.needs[j],
                 dual[n.ins[j]].via \subseteq d.via
          PROVE  D[n.ins[j]] = dual[n.ins[j]].by[p]
      <4>1. PICK t : t = n.ins[j]
        OBVIOUS
      <4>2. t \in 1..N /\ dual[t].via \subseteq d.via /\ dual[t].via \subseteq 1..L
        BY <1>0, <2>8, <3>2, <4>1, DualAt
      <4>3. Intact(t)
        BY <2>6, <2>10, <4>2 DEF Intact
      <4>4. Tangent(p)[t] = dual[t].by[p]
        BY <1>0, <4>2, <4>3 DEF Referred
      <4>5. D[t] = Tangent(p)[t]
        BY <1>0, <1>1, <1>2, <2>3, <2>6, <2>7, <3>1, <4>2, TangentGrows
      <4>6. QED
        BY <4>1, <4>4, <4>5
    <3>3. Through(n, D) = d.by[p]
      BY <2>9, <3>2
    <3>4. Through(n, D)' = Through(n, D)
      <4>1. n.op \in Binary \cup Unary
        BY <2>3
      <4>2. /\ tensors'[n.ins[1]].val = tensors[n.ins[1]].val
            /\ n.op \in Binary => tensors'[n.ins[2]].val = tensors[n.ins[2]].val
        BY <1>0, <1>2, <2>8, <4>1
      <4>3. QED
        BY <4>1, <4>2, ThroughNew
    <3>5. Through(tape[L + 1], D)' = Through(n, D)'
      BY <2>6, ThroughAt
    <3>6. tape'[L + 1].live /\ tape'[L + 1].out = N + 1 /\ L + 1 \in 1..Len(tape')
      BY <1>1, <2>3, <2>6
    <3>7. Tangent(p)'[tape'[L + 1].out] = Through(tape[L + 1], D)'
      BY <1>1, <1>6, <3>1, <3>6 DEF Tangents
    <3>8. QED
      BY <3>3, <3>4, <3>5, <3>6, <3>7
  <2>11. \E k \in NodeType :
            tape' = Append(tape, k) /\ k.out = Len(tensors) + 1 /\ k.live
    BY <1>0, <2>3, <2>6, <2>7
  <2>12. /\ d.via \subseteq 1..Len(tape') /\ Len(tape') \in {L, L + 1}
         /\ Len(tape') = L + 1 => tape'[L + 1].out = N + 1 /\ L + 1 \in d.via
    BY <2>3, <2>6, <2>9
  <2>13. d \in Dual
    BY <2>9
  <2>14. QED
    BY <1>5, <2>5, <2>6, <2>10, <2>11, <2>12, <2>13
<1>9. QED
  BY <1>7, <1>8

LEMMA ReferredNext == GInv /\ GInv' /\ Referred /\ [Next]_vars => Referred'
<1> SUFFICES ASSUME GInv, GInv', Referred, [Next]_vars PROVE Referred'
  OBVIOUS
<1>1. ASSUME NEW on \in BOOLEAN, EnableOrDisable(on) PROVE Referred'
  BY <1>1, ReferredStays DEF EnableOrDisable, past, debts
<1>2. ASSUME NEW kind \in GuardKinds, NewGuard(kind) PROVE Referred'
  BY <1>2, ReferredStays DEF NewGuard, past, debts
<1>3. CASE DropGuard
  BY <1>3, ReferredStays DEF DropGuard, past, debts
<1>4. ASSUME NEW op \in Ops \cap Unary, NEW a \in DOMAIN tensors, Forward(op, <<a>>)
      PROVE  Referred'
  <2>1. /\ <<a>> \in Seq(DOMAIN tensors) /\ Len(<<a>>) = 1
        /\ op \in Binary \cup Unary /\ op \notin Binary
    BY DEF Binary, Unary
  <2>2. QED
    BY <1>4, <2>1, ReferredForward
<1>5. ASSUME NEW op \in Ops \cap Binary, NEW a \in DOMAIN tensors,
             NEW b \in DOMAIN tensors, Forward(op, <<a, b>>)
      PROVE  Referred'
  <2>1. /\ <<a, b>> \in Seq(DOMAIN tensors) /\ Len(<<a, b>>) = 2
        /\ op \in Binary \cup Unary /\ op \notin Unary
    BY DEF Binary, Unary
  <2>2. QED
    BY <1>5, <2>1, ReferredForward
<1>6. ASSUME NEW t \in Outputs, SetRequiresGrad(t) PROVE Referred'
  <2>1. /\ UNCHANGED <<tape, dual>>
        /\ tensors' = [tensors EXCEPT ![t].req = TRUE]
    BY <1>6 DEF SetRequiresGrad, past, debts
  <2>2. tensors \in Seq([val : Int, req : BOOLEAN]) /\ t \in 1..Len(tensors)
    BY DEF GInv, IInv, TapeTypes, Outputs
  <2>3. PICK r : r = [tensors[t] EXCEPT !.req = TRUE]
    OBVIOUS
  <2>4. tensors[t] \in [val : Int, req : BOOLEAN]
    BY <2>2, ElementOfSeq
  <2>5. r.val = tensors[t].val
    BY <2>3, <2>4
  <2>6. tensors' = [tensors EXCEPT ![t] = r]
    BY <2>1, <2>3
  <2>7. /\ Len(tensors') = Len(tensors)
        /\ \A u \in 1..Len(tensors) : tensors'[u] = IF u = t THEN r ELSE tensors[u]
    BY <2>2, <2>6
  <2>8. \A u \in 1..Len(tensors) : tensors'[u].val = tensors[u].val
    BY <2>5, <2>7
  <2>9. QED
    BY <2>1, <2>7, <2>8, ReferredStays
<1>7. ASSUME NEW loss \in Outputs, NEW seed \in {1, 3}, Backward(loss, seed)
      PROVE  Referred'
  BY <1>7, ReferredStays DEF Backward, graph
<1>8. CASE SkipNode
  BY <1>8, ReferredSpent DEF SkipNode, past, debts
<1>9. CASE CallClosure
  BY <1>9, ReferredSpent DEF CallClosure, debts
<1>10. CASE Accumulate
  BY <1>10, ReferredStays DEF Accumulate, graph, debts
<1>11. CASE FinishPass
  BY <1>11, ReferredStays DEF FinishPass, graph, past, debts
<1>12. CASE FailPass
  <2>1. CASE AtNode /\ Spend
    BY <1>12, <2>1, ReferredSpent DEF FailPass, debts
  <2>2. CASE UNCHANGED tape
    BY <1>12, <2>2, ReferredStays DEF FailPass, debts
  <2>3. QED
    BY <1>12, <2>1, <2>2 DEF FailPass
<1>13. CASE SyncGrads
  BY <1>13, ReferredStays DEF SyncGrads, graph, debts
<1>14. CASE Clear
  BY <1>14, ReferredClear
<1>15. CASE UNCHANGED vars
  BY <1>15, ReferredStays DEF vars, graph, past, debts
<1>16. QED
  BY <1>1, <1>2, <1>3, <1>4, <1>5, <1>6, <1>7, <1>8, <1>9, <1>10, <1>11,
     <1>12, <1>13, <1>14, <1>15 DEF Next

\* At rest no tensor but p holds anything worth something to p.
LEMMA GradsAtRest == GInv => GradsRight
<1> SUFFICES ASSUME GInv, ~pass.on, upset = {}, NEW p \in Parameters
             PROVE  Found(p) = owed[p]
  BY DEF GradsRight, RightFor
<1>1. TapeTypes /\ Walked /\ Derivable /\ Unspoilt /\ Balanced
  BY DEF GInv, IInv
<1>2. Pending(p) = 0
  <2>1. pass = AtRest
    BY <1>1 DEF TapeTypes
  <2>2. Len(pass.todo) = 0
    BY <2>1, Bounds
  <2>3. QED
    BY <2>2 DEF Pending
<1>3. p \in Ids /\ p \in 1..Len(tensors) /\ p <= Len(tensors) /\ Len(tensors) \in Nat
  <2>1. /\ p \in 1..Len(LeafValues) /\ Len(LeafValues) <= Len(tensors)
        /\ Len(tensors) \in Nat /\ Len(LeafValues) \in Nat
    BY <1>1, Bounds DEF TapeTypes, Parameters
  <2>2. QED
    BY <2>1, Bounds
<1>4. ASSUME NEW t \in Ids, t # p PROVE Worth(p)[t] = 0
  <2>1. CASE t <= Len(tensors)
    <3>1. t \in 1..Len(tensors)
      BY <1>3, <2>1, IdsAre
    <3>2. \A i \in 1..Len(tape) : tape[i].live /\ tape[i].out = t =>
                                    registry[t] = NoBuf
      BY <1>1 DEF Unspoilt
    <3>3. QED
      BY <1>1, <1>4, <3>1, <3>2, DeadOutput
  <2>2. CASE ~(t <= Len(tensors))
    BY <2>2 DEF Worth
  <2>3. QED
    BY <2>1, <2>2
<1>5. Worth(p)[p] = Found(p) /\ Found(p) \in Int
  <2>1. Found(p) \in Int
    BY <1>1, <1>3, WorthInt DEF WorthTyped
  <2>2. Tangent(p)[p] = 1
    BY <1>1, TangentFacts DEF Solves
  <2>3. QED
    BY <1>3, <2>1, <2>2 DEF Worth
<1>6. PICK v : v = Worth(p)
  OBVIOUS
<1>7. SumOf(v, Ids) = v[p]
  <2>1. /\ v[p] \in Int
        /\ \A t \in Ids : t # p => v[t] = 0
    BY <1>4, <1>5, <1>6
  <2>2. QED
    BY <1>3, <2>1, IdsFinite, SumOne
<1>8. owed[p] = SumOf(v, Ids) + Pending(p)
  BY <1>1, <1>6 DEF Balanced
<1>9. QED
  BY <1>2, <1>5, <1>6, <1>7, <1>8

\* Whatever graph a program records, the gradients registered between passes
\* are the derivatives of the losses by the parameters, computed as the
\* program ran and through every node it recorded, as long as no pass failed,
\* no loss came through a node an earlier pass had taken, no cross_entropy met
\* a gradient other than 1 and no buffer two tensors held was accumulated
\* into (tape.rs, backward and backward_from_grad).
THEOREM GradientsRight == Spec => []GradsRight
<1>1. Init => GInv /\ Referred
  BY GInit, ReferredInit
<1>2. GInv /\ Referred /\ [Next]_vars => GInv' /\ Referred'
  BY GradsNext, ReferredNext
<1>3. GInv => GradsRight
  BY GradsAtRest
<1>4. QED
  BY <1>1, <1>2, <1>3, PTL DEF Spec
=============================================================================
