----------------------------- MODULE Optimizer -----------------------------
(***************************************************************************)
(* The optimiser of the T0 compiler: opt_passes.rs, the SSA passes of      *)
(* ssa_ir.rs and the dominator tree of domtree.rs, in the order compile.rs *)
(* runs them.                                                              *)
(*                                                                         *)
(* A kernel is a sequence of operations.  An operand that is positive is a *)
(* vector register, one that is zero or negative is the constant -o; an    *)
(* address, a register pair in the code, is one register.  Wave-wide       *)
(* machine state is executed for the lanes in Lanes with integer           *)
(* arithmetic modulo Prime, and a load delivers as late as its wait        *)
(* allows, so an operation moved ahead of a wait reads the old value.      *)
(***************************************************************************)
EXTENDS Integers, Sequences, FiniteSets, SequencesExt, FiniteSetsExt

CONSTANTS
    Programs,   \* the kernels that may be compiled
    Settings,   \* what a kernel asks of the optimiser: [level, noCse, skip]
    Inputs,     \* scalar arguments the kernels are executed with
    Lanes,      \* lanes of the wave
    Regs,       \* vector registers, those of unrolled copies included
    Fuel,       \* steps after which an execution is abandoned
    Unset       \* no level is asked for

VARIABLES
    source,     \* the kernel being compiled
    ops,        \* its operations now
    func,       \* its SSA form, or NoFunc between the SSA phases
    pass,       \* the next pass
    round,      \* rounds of the cleaning loop
    env,        \* T0_OPT_LEVEL and T0_DISABLE_PASS of the process
    bypass      \* the kernel is compiled without optimisation

vars == <<source, ops, func, pass, round, env, bypass>>

Prime == 1009
NoFunc == [insts |-> <<>>, blocks |-> <<>>]
NoVal == <<0, 0>>

-----------------------------------------------------------------------------
(* Operations (ir.rs). *)

Nop == [k |-> "nop", d |-> 0, s |-> <<>>, sd |-> 0, ss |-> <<>>, n |-> 0, w |-> 1]
Vector(k, d, s) == [Nop EXCEPT !.k = k, !.d = d, !.s = s]
Memory(k, d, s, n) == [Vector(k, d, s) EXCEPT !.n = n]
Scalar(k, sd, ss, n) == [Nop EXCEPT !.k = k, !.sd = sd, !.ss = ss, !.n = n]

IsReg(o) == o > 0
IsConst(o) == o <= 0
VRegDefs(op) == IF op.d = 0 THEN <<>> ELSE [i \in 1..op.w |-> op.d + i - 1]
VRegUses(op) ==
    SelectSeq(IF op.k = "store"
                THEN [i \in 1..op.w |-> op.s[1] + i - 1] \o <<op.s[2]>>
                ELSE op.s, IsReg)
DefSet(op) == ToSet(VRegDefs(op))
UseSet(op) == ToSet(VRegUses(op))

Arith == {"add", "sub", "mul", "fma"}
Pure == Arith \cup {"mov", "movi", "and", "fromS"}
HasSideEffects(op) == op.k \notin Pure
Branches == {"br", "brscc0", "brscc1"}
EndsBlock == Branches \cup {"end"}
RenameUses(op, old, new) ==
    [op EXCEPT !.s = [i \in DOMAIN @ |-> IF @[i] = old THEN new ELSE @[i]]]

-----------------------------------------------------------------------------
(* What a kernel does: the stores of its wave. *)

MemoryAt(a) == (7 * a + 3) % Prime
Calc(k, x) ==
    CASE k = "add" -> (x[1] + x[2]) % Prime
      [] k = "sub" -> (x[1] - x[2]) % Prime
      [] k = "mul" -> (x[1] * x[2]) % Prime
      [] k = "fma" -> (x[1] * x[2] + x[3]) % Prime
      [] k = "and" -> x[1] % (x[2] + 1)
      [] k \in {"mov", "movi"} -> x[1]

Booted(in) ==
    [pc |-> 1, v |-> [r \in Regs |-> [l \in Lanes |-> 500 + 11 * r + l]],
     s |-> in, vcc |-> {}, scc |-> FALSE, exec |-> Lanes,
     load |-> <<>>, lds |-> <<>>, out |-> <<>>]

LabelAt(p, n) == CHOOSE i \in DOMAIN p : p[i].k = "label" /\ p[i].n = n
\* A load that has arrived is written to its registers, in the lanes that were active.
Deliver(v, ld) ==
    [r \in Regs |-> IF r \in DOMAIN ld.val
                      THEN [l \in Lanes |-> IF l \in ld.exec THEN ld.val[r][l] ELSE v[r][l]]
                      ELSE v[r]]
Waited(m, q, n) ==
    LET k == IF Len(m[q]) > n THEN Len(m[q]) - n ELSE 0
    IN  [m EXCEPT !.v = FoldLeft(Deliver, @, SubSeq(m[q], 1, k)),
                  ![q] = SubSeq(@, k + 1, Len(@))]

Executed(p, m) ==
    LET op == p[m.pc]
        val(o, l) == IF IsReg(o) THEN m.v[o][l] ELSE -o
        set(f) == [m EXCEPT !.v[op.d] = [l \in Lanes |-> IF l \in m.exec THEN f[l] ELSE @[l]]]
        next == CASE op.k \in Pure \ {"fromS"} ->
                       set([l \in Lanes |-> Calc(op.k, [i \in DOMAIN op.s |-> val(op.s[i], l)])])
                  [] op.k = "fromS" -> set([l \in Lanes |-> m.s[op.ss[1]]])
                  [] op.k = "cnd" ->
                       set([l \in Lanes |-> val(op.s[IF l \in m.vcc THEN 2 ELSE 1], l)])
                  [] op.k = "cmp" ->
                       [m EXCEPT !.vcc = {l \in m.exec : val(op.s[1], l) < val(op.s[2], l)}]
                  [] op.k \in {"load", "lds"} ->
                       [m EXCEPT ![op.k] = Append(@,
                          [exec |-> m.exec,
                           val |-> [r \in DefSet(op) |-> [l \in Lanes |->
                                      MemoryAt(val(op.s[1], l) + op.n + (r - op.d))]]])]
                  [] op.k = "store" ->
                       [m EXCEPT !.out = @ \o [i \in 1..op.w |->
                          <<op.n + i - 1, [l \in m.exec |-> <<val(op.s[2], l), m.v[op.s[1] + i - 1][l]>>]>>]]
                  [] op.k = "wait" -> Waited(m, "load", op.n)
                  [] op.k = "waitl" -> Waited(m, "lds", op.n)
                  [] op.k = "savex" -> [m EXCEPT !.s[op.sd] = m.exec, !.exec = @ \cap m.vcc]
                  [] op.k = "restx" -> [m EXCEPT !.exec = m.s[op.ss[1]]]
                  [] op.k = "smov" -> [m EXCEPT !.s[op.sd] = IF op.ss = <<>> THEN op.n ELSE m.s[op.ss[1]]]
                  [] op.k = "sadd" -> [m EXCEPT !.s[op.sd] = m.s[op.ss[1]] + op.n, !.scc = FALSE]
                  [] op.k = "smul" -> [m EXCEPT !.s[op.sd] = m.s[op.ss[1]] * op.n]
                  [] op.k = "scmplt" -> [m EXCEPT !.scc = m.s[op.ss[1]] < m.s[op.ss[2]]]
                  [] op.k = "scmpge" -> [m EXCEPT !.scc = m.s[op.ss[1]] >= m.s[op.ss[2]]]
                  [] OTHER -> m
        taken == op.k = "br" \/ (op.k = "brscc1" /\ m.scc) \/ (op.k = "brscc0" /\ ~m.scc)
    IN  [next EXCEPT !.pc = IF taken THEN LabelAt(p, op.n) ELSE @ + 1]

RECURSIVE Run(_, _, _)
Run(p, m, fuel) ==
    IF fuel = 0 \/ m.pc > Len(p) THEN <<"runs away">>
    ELSE IF p[m.pc].k = "end" THEN m.out ELSE Run(p, Executed(p, m), fuel - 1)

Stores(p) == [in \in Inputs |-> Run(p, Booted(in), Fuel)]

-----------------------------------------------------------------------------
(* SSA form: a value is <<instruction, register>>, a scalar register's      *)
(* value is <<instruction, -register>>.                                     *)

VRegOf(m) == m[2]
LatestDef(p, i, r) ==
    LET D == {j \in 1..(i - 1) : r \in DefSet(p[j]) \/ (r < 0 /\ p[j].sd = -r)}
    IN  IF D = {} THEN NoVal ELSE <<Max(D), r>>

Lifted(p, i) ==
    LET op == p[i]
        vuses == VRegUses(op)
        suses == SelectSeq([j \in DOMAIN op.ss |-> LatestDef(p, i, -op.ss[j])],
                           LAMBDA m : m # NoVal)
        vdefs == VRegDefs(op)
    IN  [op |-> op,
         defs |-> [j \in DOMAIN vdefs |-> <<i, vdefs[j]>>]
                    \o (IF op.sd = 0 THEN <<>> ELSE <<<<i, -op.sd>>>>),
         uses |-> [j \in DOMAIN vuses |-> LatestDef(p, i, vuses[j])] \o suses]

BlockStarts(p) ==
    {i \in DOMAIN p : i = 1 \/ p[i].k = "label" \/ p[i - 1].k \in EndsBlock}
LiftToSsa(p) ==
    LET starts == SetToSortSeq(BlockStarts(p) \cup {Len(p) + 1}, LAMBDA x, y : x < y)
    IN  [insts |-> [i \in DOMAIN p |-> Lifted(p, i)],
         blocks |-> [b \in 1..(Len(starts) - 1) |->
                       [j \in 1..(starts[b + 1] - starts[b]) |-> starts[b] + j - 1]]]

InBlock(f, b) == ToSet(f.blocks[b])
Linear(f) == FlattenSeq(f.blocks)
Replace(f, i, op, uses) == [f EXCEPT !.insts[i] = [@ EXCEPT !.op = op, !.uses = uses]]
Drop(f, dead) ==
    [f EXCEPT !.blocks = [b \in DOMAIN @ |-> SelectSeq(@[b], LAMBDA i : i \notin dead)]]

\* Emission: every use is renamed to the register its value was defined in.
Lower(f) ==
    LET rename(op, uses) ==
          FoldLeft(LAMBDA o, j :
                     LET now == VRegUses(o)
                     IN  IF j <= Len(now) /\ VRegOf(uses[j]) > 0
                           THEN RenameUses(o, now[j], VRegOf(uses[j])) ELSE o,
                   op, [j \in DOMAIN uses |-> j])
        order == Linear(f)
    IN  [j \in DOMAIN order |-> rename(f.insts[order[j]].op, f.insts[order[j]].uses)]

-----------------------------------------------------------------------------
(* The control flow graph and its dominators (domtree.rs). *)

Succs(f, b) ==
    LET last == f.insts[Last(f.blocks[b])].op
        target == {c \in DOMAIN f.blocks : f.blocks[c] # <<>>
                     /\ f.insts[Head(f.blocks[c])].op.k = "label"
                     /\ f.insts[Head(f.blocks[c])].op.n = last.n}
        next == {b + 1} \cap DOMAIN f.blocks
    IN  IF f.blocks[b] = <<>> THEN next
        ELSE CASE last.k = "br" -> target
               [] last.k \in {"brscc0", "brscc1"} -> target \cup next
               [] last.k = "end" -> {}
               [] OTHER -> next
Preds(f, b) == {a \in DOMAIN f.blocks : b \in Succs(f, a)}

RECURSIVE Grow(_, _, _)
Grow(f, S, avoid) ==
    LET T == S \cup ((UNION {Succs(f, b) : b \in S}) \ avoid) IN IF T = S THEN S ELSE Grow(f, T, avoid)
Dominates(f, a, b) == a = b \/ a = 1 \/ b \notin Grow(f, {1}, {a})
Idom(f, b) ==
    LET strict == {a \in DOMAIN f.blocks \ {b} : Dominates(f, a, b)}
    IN  IF b = 1 THEN 1 ELSE CHOOSE a \in strict : \A c \in strict : Dominates(f, c, a)
-----------------------------------------------------------------------------
(* The SSA passes (ssa_ir.rs). *)

\* Arithmetic on values that are known constants becomes a constant move.
Fold(f) ==
    LET step(st, i) ==
          LET in == st.f.insts[i]
              known == \A j \in DOMAIN in.uses : in.uses[j] \in DOMAIN st.val
              c == Calc(in.op.k, [j \in DOMAIN in.uses |-> st.val[in.uses[j]]])
          IN  IF in.op.k = "mov" /\ IsConst(in.op.s[1])
                THEN [st EXCEPT !.val = (in.defs[1] :> -in.op.s[1]) @@ @]
              ELSE IF in.op.k \in Arith /\ Len(in.uses) = Len(in.op.s) /\ known
                THEN [f |-> Replace(st.f, i, Vector("mov", in.op.d, <<-c>>), <<>>),
                      val |-> (in.defs[1] :> c) @@ st.val]
              ELSE st
    IN  FoldLeft(step, [f |-> f, val |-> <<>>], Linear(f)).f

\* The peephole rules.  The values an instruction uses are kept as they were.
Simpler(in) ==
    LET s == in.op.s
        to(k, t) == Vector(k, in.op.d, t)
    IN  CASE in.op.k = "add" /\ s[2] = 0 -> to("mov", <<s[1]>>)
          [] in.op.k = "add" /\ s[2] # 0 /\ s[1] = 0 -> to("mov", <<s[2]>>)
          [] in.op.k = "mul" /\ s[2] = -1 -> to("mov", <<s[1]>>)
          [] in.op.k = "mul" /\ s[2] # -1 /\ s[1] = -1 -> to("mov", <<s[2]>>)
          [] in.op.k = "mul" /\ -1 \notin ToSet(s) /\ 0 \in ToSet(s) -> to("mov", <<0>>)
          [] in.op.k = "sub" /\ s[2] = 0 -> to("mov", <<s[1]>>)
          [] in.op.k = "sub" /\ Len(in.uses) = 2 /\ in.uses[1] = in.uses[2] -> to("mov", <<0>>)
          [] in.op.k = "fma" /\ (s[1] = 0 \/ s[2] = 0) -> to("mov", <<s[3]>>)
          [] in.op.k = "fma" /\ 0 \notin {s[1], s[2]} /\ s[2] = -1 -> to("add", <<s[1], s[3]>>)
          [] in.op.k = "fma" /\ s[2] \notin {0, -1} /\ s[1] = -1 -> to("add", <<s[2], s[3]>>)
          [] in.op.k = "fma" /\ {s[1], s[2]} \cap {0, -1} = {} /\ s[3] = 0
               -> to("mul", <<s[1], s[2]>>)
          [] OTHER -> in.op
Simplify(f) == [f EXCEPT !.insts = [i \in DOMAIN @ |-> [@[i] EXCEPT !.op = Simpler(f.insts[i])]]]

\* Uses of a copy become uses of what it copies, through chains of copies.
CopyProp(f) ==
    LET in(i) == f.insts[i]
        copies == {i \in ToSet(Linear(f)) : /\ in(i).op.k = "mov" /\ IsReg(in(i).op.s[1])
                                            /\ Len(in(i).defs) = 1 /\ Len(in(i).uses) = 1}
        copyOf == [m \in {in(i).defs[1] : i \in copies} |->
                     (CHOOSE i \in copies : in(i).defs[1] = m)]
        origin[m \in DOMAIN copyOf] ==
            LET s == in(copyOf[m]).uses[1] IN IF s \in DOMAIN copyOf THEN origin[s] ELSE s
        to(m) == IF m \in DOMAIN copyOf THEN origin[m] ELSE m
    IN  [f EXCEPT !.insts =
           [i \in DOMAIN @ |-> [@[i] EXCEPT !.uses = [j \in DOMAIN @ |-> to(@[j])]]]]

\* What two computations must share to be one: the inline constants of the
\* bitwise operations are not part of it.
CseKey(in) ==
    LET consts == IF in.op.k = "and" THEN <<>>
                  ELSE SelectSeq([j \in DOMAIN in.op.s |-> <<-j, in.op.s[j]>>],
                                 LAMBDA c : IsConst(c[2]))
        all == in.uses \o consts
    IN  IF in.op.k = "sub" \/ Len(all) < 2 THEN <<in.op.k, {}, all>>
        ELSE <<in.op.k, {all[1], all[2]}, SubSeq(all, 3, Len(all))>>
CseCandidate(in) ==
    in.op.k \in Arith \cup {"and"} /\ Len(in.defs) = 1 /\ NoVal \notin ToSet(in.uses)

\* Every block starts from the computations its immediate dominator has seen;
\* the blocks are numbered in an order in which dominators come first.
Cse(f) ==
    LET inst(st, i) ==
          LET in == f.insts[i]
              key == CseKey(in)
              prev == st.seen[key]
          IN  CASE in.op.k = "barrier" -> [st EXCEPT !.seen = <<>>]
                [] in.op.k # "barrier" /\ ~CseCandidate(in) -> st
                [] CseCandidate(in) /\ key \in DOMAIN st.seen ->
                     [st EXCEPT !.f = Replace(@, i, Vector("mov", in.op.d, <<VRegOf(prev)>>), <<prev>>)]
                [] OTHER -> [st EXCEPT !.seen = (key :> in.defs[1]) @@ @]
        block(st, b) ==
          LET end == FoldLeft(inst, [f |-> st.f,
                                     seen |-> IF b = 1 THEN <<>> ELSE st.tables[Idom(f, b)]],
                              f.blocks[b])
          IN  [f |-> end.f, tables |-> Append(st.tables, end.seen)]
    IN  FoldLeft(block, [f |-> f, tables |-> <<>>], [b \in DOMAIN f.blocks |-> b]).f

\* A multiplication whose one use is an addition becomes part of it.
Combine(f) ==
    LET uses == FlattenSeq([j \in DOMAIN Linear(f) |-> f.insts[Linear(f)[j]].uses])
        once(m) == Cardinality({j \in DOMAIN uses : uses[j] = m}) = 1
        step(st, i) ==
          LET in == st.f.insts[i]
              product(j) == st.f.insts[in.uses[j][1]]
              fits == {j \in DOMAIN in.uses :
                         /\ once(in.uses[j]) /\ in.uses[j] # NoVal
                         /\ in.uses[j][1] \in ToSet(Linear(f)) \ st.dead
                         /\ product(j).op.k = "mul"
                         /\ j = 2 \/ IsReg(in.op.s[1]) \/ Len(in.uses) = 1}
              j == Min(fits)
              first == j = 1 /\ IsReg(in.op.s[1])
              other == in.op.s[IF first THEN 2 ELSE 1]
          IN  IF in.op.k # "add" \/ i \in st.dead \/ fits = {} THEN st
              ELSE [f |-> Replace(st.f, i, Vector("fma", in.op.d, Append(product(j).op.s, other)),
                                  product(j).uses
                                    \o (IF Len(in.uses) = 2 THEN <<in.uses[3 - j]>> ELSE <<>>)),
                    dead |-> st.dead \cup {in.uses[j][1]}]
        end == FoldLeft(step, [f |-> f, dead |-> {}], Linear(f))
    IN  Drop(end.f, end.dead)

\* Natural loops, in the order of their back edges.
RECURSIVE BackFrom(_, _, _)
BackFrom(f, S, h) ==
    LET T == S \cup UNION {Preds(f, b) : b \in S \ {h}} IN IF T = S THEN S ELSE BackFrom(f, T, h)
NaturalLoops(f) ==
    LET edges == {e \in (DOMAIN f.blocks) \X (DOMAIN f.blocks) :
                    e[2] \in Succs(f, e[1]) /\ Dominates(f, e[2], e[1]) /\ e[2] # 1}
    IN  [e \in edges |-> [header |-> e[2], pre |-> Idom(f, e[2]),
                          body |-> BackFrom(f, {e[1], e[2]}, e[2])]]

LoopInsts(f, loop) == UNION {InBlock(f, b) : b \in loop.body}
RECURSIVE Invariants(_, _, _)
Invariants(f, loop, I) ==
    LET in(i) == f.insts[i]
        definedBy(r) == {i \in LoopInsts(f, loop) : r \in DefSet(in(i).op)}
        outside(m) == m[1] \in ToSet(Linear(f)) \ LoopInsts(f, loop)
        fixed(m) ==
          /\ m # NoVal
          /\ m[1] \in I \/ (outside(m) /\ (VRegOf(m) > 0 => definedBy(VRegOf(m)) = {}))
        J == {i \in LoopInsts(f, loop) \ InBlock(f, loop.header) :
                /\ ~HasSideEffects(in(i).op)
                /\ UseSet(in(i).op) \cap DefSet(in(i).op) = {}
                /\ \A r \in DefSet(in(i).op) : Cardinality(definedBy(r)) = 1
                /\ \A u \in ToSet(in(i).uses) : fixed(u)}
    IN  IF J = I THEN I ELSE Invariants(f, loop, J)

\* The invariants go before the preheader's terminator in the order in which a
\* HashSet yields them, which is any.
LicmLimit == 100
Hoisted(f, loop, order) ==
    LET g == Drop(f, ToSet(order))
        pre == g.blocks[loop.pre]
        ends == pre # <<>> /\ f.insts[Last(pre)].op.k \in EndsBlock
        at == IF ends THEN Len(pre) - 1 ELSE Len(pre)
    IN  [g EXCEPT !.blocks[loop.pre] = SubSeq(@, 1, at) \o order \o SubSeq(@, at + 1, Len(@))]
Hoists(f, loop) ==
    IF Cardinality(LoopInsts(f, loop)) > LicmLimit THEN {f}
    ELSE {Hoisted(f, loop, order) : order \in SetToSeqs(Invariants(f, loop, {}))}
Licm(f) ==
    LET loops == NaturalLoops(f)
        order == SetToSortSeq(DOMAIN loops, LAMBDA d, e : d[1] < e[1] \/ (d[1] = e[1] /\ d[2] < e[2]))
    IN  FoldLeft(LAMBDA S, e : UNION {Hoists(g, loops[e]) : g \in S}, {f}, order)

\* Definitions in a loop of registers that are used in the loop: the next
\* iteration may read them although no later operation does.
LoopCarriedNone(f) == {}   \* mutant: only uses further down count
LoopCarried(f) ==
    LET p == Linear(f)
        op(j) == f.insts[p[j]].op
        ranges == {r \in (DOMAIN p) \X (DOMAIN p) :
                     /\ r[1] < r[2] /\ op(r[1]).k = "label"
                     /\ op(r[2]).k \in Branches /\ op(r[2]).n = op(r[1]).n}
        used(r) == UNION {UseSet(op(i)) : i \in r[1]..r[2]}
    IN  UNION {{p[j] : j \in {j \in r[1]..r[2] : DefSet(op(j)) \cap used(r) # {}}} : r \in ranges}

Dce(f) ==
    LET all == ToSet(Linear(f))
        roots == {i \in all : HasSideEffects(f.insts[i].op) \/ f.insts[i].defs = <<>>}
        producers(S) == {m[1] : m \in UNION {ToSet(f.insts[i].uses) : i \in S}}
        RECURSIVE Needed(_)
        Needed(S) == LET T == S \cup (producers(S) \cap all) IN IF T = S THEN S ELSE Needed(T)
    IN  Drop(f, all \ Needed(roots \cup LoopCarried(f)))

\* Waits that the operations of their own block leave nothing to wait for.
Unknown == 1000
OptimizeWaits(f) ==
    LET step(st, i) ==
          LET op == f.insts[i].op
              q == IF op.k = "wait" THEN "vm" ELSE "lg"
          IN  CASE op.k \in Branches \cup {"label", "barrier"} ->
                     [st EXCEPT !.vm = Unknown, !.lg = Unknown]
                [] op.k \in {"load", "store"} -> [st EXCEPT !.vm = @ + 1]
                [] op.k = "lds" -> [st EXCEPT !.lg = @ + 1]
                [] op.k \in {"wait", "waitl"} ->
                     IF st[q] <= op.n THEN [st EXCEPT !.drop = @ \cup {i}]
                                      ELSE [st EXCEPT ![q] = op.n]
                [] OTHER -> st
        redundant(b) == FoldLeft(step, [vm |-> 0, lg |-> 0, drop |-> {}], f.blocks[b]).drop
    IN  Drop(f, UNION {redundant(b) : b \in DOMAIN f.blocks})

-----------------------------------------------------------------------------
(* The passes on operations (opt_passes.rs). *)

PositionOf(p, n) == {i \in DOMAIN p : p[i].k = "label" /\ p[i].n = n}
\* The loops ForBegin and ForEnd are lowered to, by header and back edge.
CountedLoops(p) ==
    {<<h, e>> \in (DOMAIN p) \X (DOMAIN p) :
       /\ h + 3 < e - 1
       /\ p[h].k = "label" /\ p[e].k = "br" /\ p[e].n = p[h].n
       /\ p[e - 1].k = "sadd" /\ p[e - 1].ss = <<p[e - 1].sd>>
       /\ p[h + 1].k = "scmpge" /\ p[h + 1].ss[1] = p[e - 1].sd
       /\ p[h + 2].k = "brscc1" /\ PositionOf(p, p[h + 2].n) = {e + 1}}
UnrollFactor(size) == IF size <= 16 THEN 4 ELSE IF size <= 48 THEN 2 ELSE 1
MaxVReg(p) == Max({0} \cup UNION {DefSet(p[i]) \cup UseSet(p[i]) : i \in DOMAIN p})

UnrollLoop(p, h, e) ==
    LET body == SubSeq(p, h + 3, e - 2)
        defined == UNION {DefSet(body[i]) : i \in DOMAIN body}
        stride == MaxVReg(p) + 1
        moved(r, c) == IF r \in defined THEN r + c * stride ELSE r
        copy(c) == [i \in DOMAIN body |-> [body[i] EXCEPT !.d = moved(@, c),
                                             !.s = [j \in DOMAIN @ |-> moved(@[j], c)]]]
                     \o <<p[e - 1]>>
        factor == UnrollFactor(Len(body))
        unsafe == Branches \cup {"label", "barrier"}
    IN  IF \E i \in DOMAIN body : body[i].k \in unsafe THEN p
        ELSE SubSeq(p, 1, h + 2) \o FlattenSeq([c \in 1..factor |-> copy(c - 1)])
               \o SubSeq(p, e, Len(p))
\* Later loops first, so that the positions of the earlier ones still hold.
LoopUnroll(p) ==
    FoldLeft(LAMBDA q, l : UnrollLoop(q, l[1], l[2]), p,
             SetToSortSeq(CountedLoops(p), LAMBDA k, l : k[2] > l[2]))

\* Neighbouring words of one address become one access of two or four words.
Adjacent(p, i, n) ==
    /\ i + n - 1 <= Len(p)
    /\ \A j \in i..(i + n - 1) :
         /\ p[j].k = p[i].k /\ p[j].w = 1 /\ p[j].n = p[i].n + (j - i)
         /\ \/ p[i].k = "load" /\ p[j].s = p[i].s /\ p[j].d = p[i].d + (j - i)
            \/ p[i].k = "store" /\ p[j].s = <<p[i].s[1] + (j - i), p[i].s[2]>>
RECURSIVE CoalesceFrom(_, _)
CoalesceFrom(p, i) ==
    LET n == IF i <= Len(p) /\ Adjacent(p, i, 4) THEN 4
             ELSE IF i <= Len(p) /\ Adjacent(p, i, 2) THEN 2 ELSE 1
    IN  IF i > Len(p) THEN <<>>
        ELSE <<IF n = 1 THEN p[i] ELSE [p[i] EXCEPT !.w = n]>> \o CoalesceFrom(p, i + n)
CoalesceLoads(p) == CoalesceFrom(p, 1)

\* Behind a run of loads, pure operations that depend on nothing in between go
\* ahead of the others, up to the matching wait.
WaitFor(k) == IF k = "load" THEN "wait" ELSE "waitl"
Split(loads, window) ==
    LET loaded == UNION {DefSet(loads[i]) : i \in DOMAIN loads}
        step(st, op) ==
          LET passed == UNION {DefSet(st.stay[i]) : i \in DOMAIN st.stay}
              read == UNION {UseSet(st.stay[i]) : i \in DOMAIN st.stay}
              scalars == {st.stay[i].sd : i \in DOMAIN st.stay}
          IN  IF /\ ~HasSideEffects(op)
                 /\ (UseSet(op) \cup DefSet(op)) \cap (loaded \cup passed) = {}
                 /\ DefSet(op) \cap read = {}
                 /\ ToSet(op.ss) \cap scalars = {}
                THEN [st EXCEPT !.ahead = Append(@, op)]
                ELSE [st EXCEPT !.stay = Append(@, op)]
        end == FoldLeft(step, [ahead |-> <<>>, stay |-> <<>>], window)
    IN  end.ahead \o end.stay
RECURSIVE Scheduled(_)
Scheduled(b) ==
    LET k == Head(b).k
        n == Min({i \in DOMAIN b : b[i].k # k} \cup {Len(b) + 1}) - 1
        stop == Min({i \in (n + 1)..Len(b) :
                       b[i].k \in Branches \cup {WaitFor(k), "barrier", "label"}} \cup {Len(b) + 1})
        rest == IF stop <= Len(b) /\ b[stop].k = WaitFor(k)
                  THEN <<b[stop]>> \o Scheduled(SubSeq(b, stop + 1, Len(b)))
                  ELSE Scheduled(SubSeq(b, stop, Len(b)))
    IN  CASE b = <<>> -> <<>>
          [] b # <<>> /\ k \notin {"load", "lds"} -> <<Head(b)>> \o Scheduled(Tail(b))
          [] OTHER -> SubSeq(b, 1, n) \o Split(SubSeq(b, 1, n), SubSeq(b, n + 1, stop - 1)) \o rest
Schedule(p) ==
    LET starts == SetToSortSeq({1, Len(p) + 1} \cup {i \in DOMAIN p : p[i].k = "label"},
                               LAMBDA x, y : x < y)
        region(j) == SubSeq(p, starts[j], starts[j + 1] - 1)
    IN  FlattenSeq([j \in 1..(Len(starts) - 1) |->
          IF Len(region(j)) < 3 THEN region(j) ELSE Scheduled(region(j))])

-----------------------------------------------------------------------------
(* The live intervals the register allocator is given (ssa_ir.rs). *)

\* A value from before a loop that is last used in it lives to the loop's end,
\* and so does one that updates in place what a register held before all loops.
ExtendedNever(m, last, loop, early) == last   \* mutant: loops are not looked at
Extended(m, last, loop, early) ==
    IF /\ last \in loop[1]..loop[2]
       /\ m[1] < loop[1] \/ (m[1] <= loop[2] /\ VRegOf(m) \in early)
      THEN loop[2] ELSE last

Intervals(p) ==
    LET f == LiftToSsa(p)
        back == {e \in (DOMAIN f.blocks) \X (DOMAIN f.blocks) : e[2] \in Succs(f, e[1]) /\ e[2] <= e[1]}
        loops == {<<Head(f.blocks[e[2]]), Last(f.blocks[e[1]])>> : e \in back}
        order == SetToSortSeq(loops, LAMBDA k, l : k[2] < l[2] \/ (k[2] = l[2] /\ k[1] < l[1]))
        usesOf(m) == {i \in DOMAIN p : m \in ToSet(f.insts[i].uses)}
        defined == UNION {{<<i, r>> : r \in DefSet(p[i])} : i \in DOMAIN p}
        early == {VRegOf(m) : m \in {m \in defined : \A l \in loops : m[1] < l[1]}}
        lastUse(m) == FoldLeft(LAMBDA last, l : Extended(m, last, l, early), Max(usesOf(m)), order)
        used(r) == {m \in defined : VRegOf(m) = r /\ usesOf(m) # {}}
    IN  [r \in {VRegOf(m) : m \in {m \in defined : usesOf(m) # {}}} |->
           [def |-> Min({m[1] : m \in used(r)}),
            last |-> Max({lastUse(m) : m \in used(r)} \cup {m[1] : m \in used(r)})]]

-----------------------------------------------------------------------------
(* Compiling (opt_passes.rs, compile.rs). *)

Init ==
    /\ source = <<>> /\ ops = <<>> /\ func = NoFunc /\ round = 0
    /\ pass = "idle" /\ env = [level |-> 4, noCse |-> FALSE] /\ bypass = FALSE

\* A kernel's wishes go into the environment of the process and stay there.
Wished(e, asked) ==
    [level |-> IF asked.level = Unset THEN e.level ELSE asked.level,
     noCse |-> e.noCse \/ asked.noCse]
Compile(p, asked) ==
    /\ pass = "idle"
    /\ source' = p /\ ops' = p
    /\ env' = Wished(env, asked)
    /\ bypass' = (asked.skip \/ env'.level = 0)
    /\ pass' = IF bypass' THEN "done" ELSE "lift"
    /\ UNCHANGED <<func, round>>

Lift ==
    /\ pass \in {"lift", "relift"}
    /\ func' = LiftToSsa(ops)
    /\ pass' = IF pass = "lift" THEN "fold" ELSE "clean"
    /\ round' = 0
    /\ UNCHANGED <<source, ops, env, bypass>>

SsaPass(name, next, result) ==
    /\ pass = name /\ pass' = next
    /\ func' = result
    /\ UNCHANGED <<source, ops, round, env, bypass>>
FoldPass == SsaPass("fold", "simplify", Fold(func))
SimplifyPass == SsaPass("simplify", "copy", Simplify(func))
CopyPass == SsaPass("copy", "cse", CopyProp(func))
CsePass == SsaPass("cse", "combine", IF env.noCse THEN func ELSE Cse(func))
CombinePass == SsaPass("combine", "licm", Combine(func))
LicmPass == pass = "licm" /\ \E g \in Licm(func) : SsaPass("licm", "lower", g)
WaitPass == SsaPass("waits", "emit", OptimizeWaits(func))

\* Simplification and dead code removal, until nothing changes, five times at most.
MaxRounds == 5
CleanPass ==
    LET g == Dce(Simplify(func))
        settled == g = func \/ round + 1 = MaxRounds
    IN  /\ pass = "clean"
        /\ func' = g
        /\ round' = round + 1
        /\ pass' = IF ~settled THEN "clean" ELSE IF env.level >= 4 THEN "waits" ELSE "emit"
        /\ UNCHANGED <<source, ops, env, bypass>>

Emit ==
    /\ pass \in {"lower", "emit"}
    /\ ops' = Lower(func)
    /\ func' = NoFunc
    /\ pass' = IF pass = "emit" THEN "coalesce" ELSE IF env.level <= 1 THEN "done" ELSE "unroll"
    /\ UNCHANGED <<source, round, env, bypass>>

OpsPass(name, next, result) ==
    /\ pass = name /\ pass' = next
    /\ ops' = result
    /\ UNCHANGED <<source, func, round, env, bypass>>
UnrollPass == OpsPass("unroll", IF env.level <= 2 THEN "done" ELSE "relift", LoopUnroll(ops))
CoalescePass == OpsPass("coalesce", IF env.level >= 4 THEN "schedule" ELSE "done", CoalesceLoads(ops))
SchedulePass == OpsPass("schedule", "done", Schedule(ops))

Done ==
    /\ pass = "done"
    /\ pass' = "idle" /\ source' = <<>> /\ ops' = <<>> /\ round' = 0 /\ bypass' = FALSE
    /\ UNCHANGED <<func, env>>

Next ==
    \/ \E p \in Programs, asked \in Settings : Compile(p, asked)
    \/ Lift \/ FoldPass \/ SimplifyPass \/ CopyPass \/ CsePass \/ CombinePass \/ LicmPass
    \/ Emit \/ UnrollPass \/ CleanPass \/ WaitPass \/ CoalescePass \/ SchedulePass \/ Done

Spec == Init /\ [][Next]_vars

-----------------------------------------------------------------------------
(* Properties. *)

\* After every pass, whatever levels earlier kernels left in the environment,
\* the kernel stores what it was written to store, in the order it was written to.
StoresKept ==
    Stores(IF func = NoFunc THEN ops ELSE Lower(func)) = Stores(source)

\* A register that will be read is inside the interval reported to the
\* allocator, around the loops too: nothing else may be given its place.
LiveAfter(p, i, r) ==
    LET next(j) == (IF p[j].k \in {"br", "end"} THEN {} ELSE {j + 1})
                     \cup (IF p[j].k \in Branches THEN PositionOf(p, p[j].n) ELSE {})
        RECURSIVE Reach(_)
        Reach(S) == LET T == S \cup UNION {next(j) : j \in {j \in S : r \notin DefSet(p[j])}}
                    IN  IF T = S THEN S ELSE Reach(T)
    IN  \E j \in Reach(next(i)) : r \in UseSet(p[j])
IntervalsCover ==
    pass = "done" =>
      LET I == Intervals(ops)
      IN  \A i \in DOMAIN ops, r \in UNION {DefSet(ops[j]) : j \in DOMAIN ops} :
            LiveAfter(ops, i, r) /\ (\E j \in 1..i : r \in DefSet(ops[j])) =>
              /\ r \in DOMAIN I
              /\ I[r].def <= i
              /\ i < I[r].last \/ ops[i].k \in EndsBlock
=============================================================================
