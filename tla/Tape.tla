-------------------------------- MODULE Tape --------------------------------
(***************************************************************************)
(* The reverse-mode autodiff engine of src/src/ignis/tape.rs, driven by    *)
(* the operations of ops/add.rs, ops/shape_ops.rs and                      *)
(* ops/cross_entropy.rs.                                                   *)
(*                                                                         *)
(* A tensor holds one integer.  Forward operations append nodes to a       *)
(* thread-local tape; a backward pass walks it from the end, takes the     *)
(* closure out of every node it meets, and adds what the closure returns   *)
(* to the gradient registry, which maps tensors to buffers.  Buffers are   *)
(* shared by reference, as Arc<GpuBuffer> is: `registry', `grad' and       *)
(* `todo' hold buffer numbers and `mem' their contents.                    *)
(*                                                                         *)
(* GpuRuntime::dispatch waits for its kernel, so an accumulation is done   *)
(* when gpu_accumulate_grad returns.  A gradient is checked against the    *)
(* derivative computed the other way round, from inputs to outputs, by the *)
(* history variable `dual' as the operations are recorded: what a pass     *)
(* does to the tape does not change it.                                    *)
(***************************************************************************)
EXTENDS Integers, Sequences, FiniteSets

CONSTANTS
  LeafValues,   \* values of the tensors the program starts with
  Ops,          \* operations the program uses
  GuardKinds,   \* guards it uses: NoGrad::new() and Tape::no_grad()
  MaxTensors,   \* bound on the tensors created
  MaxPasses,    \* bound on the calls of backward and backward_from_grad
  MaxGuards     \* bound on the depth of nested guards

Binary == {"add", "mul"}
Unary  == {"scale", "relu", "cross_entropy"}

ASSUME OpsAssumption   == Ops \subseteq Binary \cup Unary
ASSUME GuardAssumption == GuardKinds \subseteq {"NoGrad", "no_grad"}
ASSUME BoundAssumption ==
  /\ LeafValues \in Seq(Int)
  /\ {MaxTensors, MaxPasses, MaxGuards} \subseteq Nat
  /\ Len(LeafValues) <= MaxTensors

VARIABLES
  tensors,    \* by TensorId: value and requires_grad
  tape,       \* TAPE_NODES
  registry,   \* GRAD_REGISTRY: tensor -> buffer
  grad,       \* Tensor.grad: tensor -> buffer
  mem,        \* contents of the gradient buffers allocated so far
  recording,  \* TAPE_RECORDING
  guards,     \* live guards, innermost last
  pass,       \* the backward pass under way
  passes,     \* calls of backward so far
  dual,       \* history: by TensorId, its derivatives and the nodes behind
  asked,      \* history: the nodes behind the losses since clear()
  owed,       \* history: per parameter, the derivatives due since clear()
  upset,      \* history: what has spoilt a gradient since clear()
  kept        \* history: per parameter, what .grad held at clear()

graph == <<tensors, tape, recording, guards>>
grads == <<registry, grad, mem>>
debts == <<dual, asked, owed>>
past  == <<debts, upset, kept>>
vars  == <<graph, grads, pass, passes, past>>

NoBuf == 0
Ids   == 1..MaxTensors
Parameters == 1..Len(LeafValues)   \* the tensors whose gradient is asked for
Factor == 2                        \* the scalar of ops::add::scale

AtRest == [on |-> FALSE, node |-> 0, todo |-> << >>]

\* A tensor that comes from no recorded operation.
Leaf(t) == [by |-> [p \in Parameters |-> IF p = t THEN 1 ELSE 0], via |-> {}]

\* Parameters exist before the first step; the program marks some of them.
Init ==
  /\ \E marked \in SUBSET Parameters :
       tensors = [p \in Parameters |->
                    [val |-> LeafValues[p], req |-> p \in marked]]
  /\ tape = << >>
  /\ registry = [t \in Ids |-> NoBuf]
  /\ grad = [t \in Ids |-> NoBuf]
  /\ mem = << >>
  /\ recording = FALSE
  /\ guards = << >>
  /\ pass = AtRest
  /\ passes = 0
  /\ dual = [p \in Parameters |-> Leaf(p)]
  /\ asked = {}
  /\ owed = [p \in Parameters |-> 0]
  /\ upset = {}
  /\ kept = [p \in Parameters |-> << >>]
-----------------------------------------------------------------------------
(* Recording control *)

EnableOrDisable(on) ==
  /\ ~pass.on
  /\ guards = << >>
  /\ recording' = on
  /\ UNCHANGED <<tensors, tape, guards, grads, pass, passes, past>>

NewGuard(kind) ==
  /\ ~pass.on
  /\ Len(guards) < MaxGuards
  /\ guards' = Append(guards, [kind |-> kind, was |-> recording])
  /\ recording' = FALSE
  /\ UNCHANGED <<tensors, tape, grads, pass, passes, past>>

\* Mutant: the guard enables recording whatever it found.
RestoredAlways(g) == TRUE

\* NoGrad enables only what it found enabled; NoGradGuard enables always.
Restored(g) == g.kind = "no_grad" \/ g.was

\* Guards are scoped values: the innermost goes first.
DropGuard ==
  /\ ~pass.on
  /\ guards # << >>
  /\ recording' = (recording \/ Restored(guards[Len(guards)]))
  /\ guards' = SubSeq(guards, 1, Len(guards) - 1)
  /\ UNCHANGED <<tensors, tape, grads, pass, passes, past>>
-----------------------------------------------------------------------------
(* Forward operations *)

Tracked(ins) == \E j \in DOMAIN ins : tensors[ins[j]].req

\* relu and cross_entropy return an untracked tensor even from tracked input.
OutputTracked(op, ins) == op \in {"add", "mul", "scale"} /\ Tracked(ins)

Value(op, ins) ==
  LET v(j) == tensors[ins[j]].val
  IN  CASE op = "add"   -> v(1) + v(2)
        [] op = "mul"   -> v(1) * v(2)
        [] op = "scale" -> Factor * v(1)
        [] op = "relu"  -> IF v(1) > 0 THEN v(1) ELSE 0
        [] op = "cross_entropy" -> v(1)

\* The slope cross_entropy computes in its forward pass, for one class.
LossSlope(v) == v - 1

Node(op, ins, saved) ==
  [op |-> op, out |-> Len(tensors) + 1, ins |-> ins,
   needs |-> IF op \in Binary THEN [j \in 1..2 |-> tensors[ins[j]].req]
                              ELSE <<TRUE>>,
   live |-> TRUE, saved |-> saved]

\* Partial derivative of node n by its j-th input.
Slope(n, j) ==
  LET v(k) == tensors[n.ins[k]].val
  IN  CASE n.op = "add"   -> 1
        [] n.op = "mul"   -> v(3 - j)
        [] n.op = "scale" -> Factor
        [] n.op = "relu"  -> IF v(1) > 0 THEN 1 ELSE 0
        [] n.op = "cross_entropy" -> LossSlope(v(1))

\* The reference: the chain rule from the inputs of a new node to its output.
Chain(n) ==
  LET term(j, p) == IF n.needs[j] THEN Slope(n, j) * dual[n.ins[j]].by[p] ELSE 0
      behind(j)  == IF n.needs[j] THEN dual[n.ins[j]].via ELSE {}
  IN  [by  |-> [p \in Parameters |-> IF n.op \in Binary
                                    THEN term(1, p) + term(2, p) ELSE term(1, p)],
       via |-> {Len(tape) + 1} \cup behind(1)
                 \cup (IF n.op \in Binary THEN behind(2) ELSE {})]

Forward(op, ins) ==
  /\ ~pass.on
  /\ Len(tensors) < MaxTensors
  /\ tensors' = Append(tensors, [val |-> Value(op, ins),
                                 req |-> OutputTracked(op, ins)])
  /\ IF recording /\ Tracked(ins)
     THEN /\ IF op = "cross_entropy"
             THEN /\ mem' = Append(mem, LossSlope(tensors[ins[1]].val))
                  /\ tape' = Append(tape, Node(op, ins, Len(mem) + 1))
             ELSE tape' = Append(tape, Node(op, ins, NoBuf)) /\ UNCHANGED mem
          /\ dual' = Append(dual, Chain(Node(op, ins, NoBuf)))
     ELSE /\ dual' = Append(dual, Leaf(Len(tensors) + 1))
          /\ UNCHANGED <<tape, mem>>
  /\ UNCHANGED <<recording, guards, registry, grad, pass, passes, asked, owed,
                 upset, kept>>

\* As nn/embedding.rs does with the result of the operation it has just done.
SetRequiresGrad(t) ==
  /\ ~pass.on
  /\ t = Len(tensors)
  /\ tensors' = [tensors EXCEPT ![t].req = TRUE]
  /\ UNCHANGED <<tape, recording, guards, grads, pass, passes, past>>
-----------------------------------------------------------------------------
(* Backward passes *)

\* What is wrong with a loss before its pass starts: an earlier loss came
\* through the same nodes (PyTorch refuses that without retain_graph), or an
\* earlier pass took the closure of a node that was no concern of its own,
\* be it from a loss or from a tensor nothing was recorded for.
Taken(loss) == \E i \in dual[loss].via \ asked : ~tape[i].live

Spoilt(loss) ==
  {why \in {"again", "lost", "emptied"} :
     \/ why = "again" /\ dual[loss].via \cap asked # {}
     \/ why = "lost" /\ Taken(loss) /\ asked # {}
     \/ why = "emptied" /\ Taken(loss) /\ asked = {}}

\* backward seeds with 1; backward_from_grad with the caller's gradient.
Backward(loss, seed) ==
  /\ ~pass.on
  /\ passes < MaxPasses
  /\ mem' = Append(mem, seed)
  /\ grad' = [grad EXCEPT ![loss] = Len(mem) + 1]
  /\ registry' = [registry EXCEPT ![loss] = Len(mem) + 1]
  /\ pass' = [on |-> TRUE, node |-> Len(tape), todo |-> << >>]
  /\ passes' = passes + 1
  /\ owed' = [p \in Parameters |-> owed[p] + seed * dual[loss].by[p]]
  /\ asked' = asked \cup dual[loss].via
  /\ upset' = upset \cup Spoilt(loss)
  /\ UNCHANGED <<graph, dual, kept>>

\* What the closure of n returns for the output gradient g: the contents of
\* the buffers it allocates, and for each input that needs one its buffer.
Contribution(n, g) ==
  LET fresh(k) == Len(mem) + k
  IN  CASE n.op = "add" ->
             [new |-> <<g>>, bufs |-> <<fresh(1), fresh(1)>>]
        [] n.op = "mul" /\ n.needs[1] /\ n.needs[2] ->
             [new |-> <<g * Slope(n, 1), g * Slope(n, 2)>>,
              bufs |-> <<fresh(1), fresh(2)>>]
        [] n.op = "mul" /\ n.needs[1] /\ ~n.needs[2] ->
             [new |-> <<g * Slope(n, 1)>>, bufs |-> <<fresh(1), NoBuf>>]
        [] n.op = "mul" /\ ~n.needs[1] ->
             [new |-> <<g * Slope(n, 2)>>, bufs |-> <<NoBuf, fresh(1)>>]
        [] n.op \in {"scale", "relu"} ->
             [new |-> <<g * Slope(n, 1)>>, bufs |-> <<fresh(1)>>]
        [] n.op = "cross_entropy" ->
             [new |-> << >>, bufs |-> <<n.saved>>]

Wanted(n, bufs) ==
  LET one(j) == IF n.needs[j] THEN <<[to |-> n.ins[j], buf |-> bufs[j]]>>
                ELSE << >>
  IN  IF n.op \in Binary THEN one(1) \o one(2) ELSE one(1)

\* The walk's step onto node pass.node, whose closure is taken in any case.
AtNode == pass.on /\ pass.node > 0 /\ pass.todo = << >>

Spend == tape' = [tape EXCEPT ![pass.node].live = FALSE]

Skippable(n) == registry[n.out] = NoBuf \/ ~n.live

SkipNode ==
  /\ AtNode
  /\ Skippable(tape[pass.node])
  /\ Spend
  /\ pass' = [pass EXCEPT !.node = @ - 1]
  /\ UNCHANGED <<tensors, recording, guards, grads, passes, past>>

CallClosure ==
  LET n == tape[pass.node]
      g == mem[registry[n.out]]
      c == Contribution(n, g)
  IN  /\ AtNode
      /\ ~Skippable(n)
      /\ Spend
      /\ mem' = mem \o c.new
      /\ pass' = [pass EXCEPT !.node = @ - 1, !.todo = Wanted(n, c.bufs)]
      /\ upset' = upset \cup (IF n.op = "cross_entropy" /\ g # 1
                              THEN {"unscaled"} ELSE {})
      /\ UNCHANGED <<tensors, recording, guards, registry, grad, passes,
                     debts, kept>>

\* Mutant: a second gradient takes the place of the first.
AddInPlaceReplaces(b, new) == mem' = [mem EXCEPT ![b] = mem[new]]

\* gpu_accumulate_grad: existing += new.
AddInPlace(b, new) == mem' = [mem EXCEPT ![b] = @ + mem[new]]

Accumulate ==
  LET in    == pass.todo[1]
      b     == registry[in.to]
      users == {t \in Ids : registry[t] = b}
  IN  /\ pass.on
      /\ pass.todo # << >>
      /\ IF b = NoBuf
         THEN /\ registry' = [registry EXCEPT ![in.to] = in.buf]
              /\ UNCHANGED <<mem, upset>>
         ELSE /\ AddInPlace(b, in.buf)
              /\ upset' = upset \cup (IF users # {in.to} THEN {"shared"} ELSE {})
              /\ UNCHANGED registry
      /\ pass' = [pass EXCEPT !.todo = Tail(@)]
      /\ UNCHANGED <<graph, grad, passes, debts, kept>>

FinishPass ==
  /\ pass.on
  /\ pass.node = 0
  /\ pass.todo = << >>
  /\ pass' = AtRest
  /\ UNCHANGED <<graph, grads, passes, past>>

\* A closure, an accumulation or the last synchronize fails: `?' leaves the
\* walk there, with the closures taken so far gone.
FailPass ==
  /\ pass.on
  /\ \/ AtNode /\ ~Skippable(tape[pass.node]) /\ Spend
     \/ ~AtNode /\ UNCHANGED tape
  /\ pass' = AtRest
  /\ upset' = upset \cup {"failed"}
  /\ UNCHANGED <<tensors, recording, guards, grads, passes, debts, kept>>
-----------------------------------------------------------------------------
SyncGrads ==
  /\ ~pass.on
  /\ grad' = [t \in Ids |-> IF t \in Parameters /\ registry[t] # NoBuf
                            THEN registry[t] ELSE grad[t]]
  /\ kept' = [p \in Parameters |-> IF registry[p] # NoBuf THEN << >> ELSE kept[p]]
  /\ UNCHANGED <<graph, registry, mem, pass, passes, debts, upset>>

\* Mutant: clear() drops the nodes and leaves the gradients registered.
DrainNothing(r) == r

Drained(r) == [t \in Ids |-> NoBuf]

Clear ==
  /\ ~pass.on
  /\ tape' = << >>
  /\ registry' = Drained(registry)
  /\ dual' = [t \in DOMAIN dual |-> Leaf(t)]
  /\ asked' = {}
  /\ owed' = [p \in Parameters |-> 0]
  /\ upset' = {}
  /\ kept' = [p \in Parameters |->
                IF grad[p] = NoBuf THEN << >> ELSE <<mem[grad[p]]>>]
  /\ UNCHANGED <<tensors, recording, guards, grad, mem, pass, passes>>

Outputs == DOMAIN tensors \ Parameters

Next ==
  \/ \E on \in BOOLEAN : EnableOrDisable(on)
  \/ \E kind \in GuardKinds : NewGuard(kind)
  \/ DropGuard
  \/ \E op \in Ops \cap Unary, a \in DOMAIN tensors : Forward(op, <<a>>)
  \/ \E op \in Ops \cap Binary, a, b \in DOMAIN tensors : Forward(op, <<a, b>>)
  \/ \E t \in Outputs : SetRequiresGrad(t)
  \/ \E loss \in Outputs, seed \in {1, 3} : Backward(loss, seed)
  \/ SkipNode
  \/ CallClosure
  \/ Accumulate
  \/ FinishPass
  \/ FailPass
  \/ SyncGrads
  \/ Clear

Spec == Init /\ [][Next]_vars
-----------------------------------------------------------------------------
Found(p) == IF registry[p] = NoBuf THEN 0 ELSE mem[registry[p]]

RightFor(p) == tensors[p].req => Found(p) = owed[p]

(* Between passes, the gradient registered for a tracked parameter is the  *)
(* sum, over the passes since clear(), of the loss's derivative by it      *)
(* through everything recorded behind the loss, whatever the graph:        *)
(* diamonds, repeated operands, untracked operands, operations done under  *)
(* no_grad, one graph after another between two clear().  Excepted are the *)
(* gradients spoilt since clear() by a pass that failed, by a              *)
(* cross_entropy that met a gradient other than 1, by a loss whose graph   *)
(* an earlier pass had walked or, unasked, emptied, and by an accumulation *)
(* into a buffer that two tensors held; AddPassesThrough and               *)
(* LossesAccumulate are about these last two.                              *)
GradsRight ==
  ~pass.on /\ upset = {} => \A p \in Parameters : RightFor(p)

(* The same without the exception for shared buffers: what the comment on  *)
(* add promises, "gradient passes through unchanged" to both operands.     *)
AddPassesThrough ==
  ~pass.on /\ upset \subseteq {"shared"} => \A p \in Parameters : RightFor(p)

(* The same without the exception for losses that lost their closures:     *)
(* backward is to work "like PyTorch's loss.backward()", where two losses  *)
(* that share no recorded operation can be recorded together and walked    *)
(* one after the other, their gradients adding up.                         *)
LossesAccumulate ==
  ~pass.on /\ upset \subseteq {"lost"} => \A p \in Parameters : RightFor(p)

(* A gradient the caller took with sync_grads is a snapshot once the tape  *)
(* is cleared: no later pass writes into its buffer.                       *)
HeldGradStable ==
  \A p \in Parameters : kept[p] # << >> => kept[p] = <<mem[grad[p]]>>

(* Nested NoGrad guards: nothing is recorded while one is alive, and the   *)
(* last one to go leaves recording as the first one found it.              *)
GuardsNest ==
  [][ /\ (guards' # << >> => ~recording')
      /\ (Len(guards) = 1 /\ guards' = << >> => recording' = guards[1].was)
    ]_vars
=============================================================================
