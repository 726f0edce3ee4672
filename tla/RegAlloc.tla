------------------------------ MODULE RegAlloc ------------------------------
(***************************************************************************)
(* Vector register allocation in the T0 compiler (t0/ssa_regalloc.rs,      *)
(* t0/regalloc.rs, called from t0/compile.rs): virtual registers, declared *)
(* in consecutive aligned groups, are given physical VGPRs by linear scan. *)
(* The kernel compiler uses the "ssa" allocator, one interval per virtual  *)
(* register in the order of their definitions; set_ssa_regalloc(false)     *)
(* selects the "legacy" one, one interval per group in the order of their  *)
(* declarations.  One action is one turn of an allocator's loop.           *)
(*                                                                         *)
(* The input is the result of the liveness analysis: where each referenced *)
(* register is first defined and last used.  SGPRs, which are handed out   *)
(* by a counter and never reused, and the insertion of spill code are left *)
(* out.                                                                    *)
(***************************************************************************)
EXTENDS Integers, Sequences, FiniteSets

CONSTANTS
  Kinds,         \* the allocators: a subset of {"ssa", "legacy"}
  Declarations,  \* the kernels: sequences of groups [count, align]
  Horizon,       \* the number of instructions
  MaxUsed,       \* bound on the referenced registers of a kernel
  U8,            \* physical register numbers are u8: 256
  Limit,         \* max_vgprs of the ssa allocator: 254
  LegacyLimit    \* the bound the legacy allocator asserts: 255

Alignments == {1, 2, 4, 8}

ASSUME LimitAssumption ==
  /\ Kinds \subseteq {"ssa", "legacy"}
  /\ U8 \in Nat
  /\ Limit \in 1..(U8 - 1)
  /\ LegacyLimit \in 1..(U8 - 1)
  /\ Horizon \in Nat

ASSUME DeclarationAssumption ==
  Declarations \subseteq Seq([count : Nat \ {0}, align : Alignments])

VARIABLES
  kind,       \* which allocator runs
  groups,     \* vreg_allocs, less the groups nothing refers to
  live,       \* referenced virtual register |-> [def, last]
  todo,       \* the registers whose turn has not come
  free,       \* ranges of free physical registers below high
  high,       \* next_free / max_vgpr: nothing was handed out from here on
  active,     \* ranges in use: [start, count, last, owner]
  groupBase,  \* group |-> its first physical register, or Unmapped
  reg,        \* vgpr_map: virtual register |-> physical, or Unmapped
  spills,     \* the registers that were spilled to LDS
  dead,       \* (ssa) does the kernel write registers it never reads?
  total,      \* total_vgprs, the number the kernel declares
  phase,      \* "running", "done" or "panicked"
  wrapped     \* history: has a register number wrapped around?

vars == <<kind, groups, live, todo, free, high, active, groupBase, reg,
          spills, dead, total, phase, wrapped>>
input == <<kind, groups, live, dead>>

Unmapped == U8

\* The virtual register at index i of group g is <<g, i>>.
VRegs == UNION {{g} \X (0..(groups[g].count - 1)) : g \in DOMAIN groups}
Used == DOMAIN live
Members(g) == {v \in Used : v[1] = g}
Regs(r) == r.start .. (r.start + r.count - 1)
AllRegs(ranges) == UNION {Regs(r) : r \in ranges}
Intervals == {i \in [def : 1..Horizon, last : 1..Horizon] : i.def <= i.last}

Init ==
  /\ kind \in Kinds
  /\ groups \in Declarations
  /\ dead \in (IF kind = "ssa" THEN BOOLEAN ELSE {FALSE})
  /\ \E used \in SUBSET VRegs :
       /\ Cardinality(used) <= MaxUsed
       /\ \A g \in DOMAIN groups : \E v \in used : v[1] = g
       /\ live \in [used -> Intervals]
  /\ todo = Used
  /\ free = {}
  /\ high = 1
  /\ active = {}
  /\ groupBase = [g \in DOMAIN groups |-> Unmapped]
  /\ reg = [v \in Used |-> Unmapped]
  /\ spills = {}
  /\ total = 0
  /\ phase = "running"
  /\ wrapped = FALSE
-----------------------------------------------------------------------------
(* FreePool: the ranges that can be handed out.                            *)

\* (start + mask) & !mask, on u8.
AlignUp(s, align) == (((s + align - 1) % U8) \div align) * align
Gap(s, align) == (AlignUp(s, align) - s) % U8
Wraps(s, align) == s + align - 1 >= U8

Fits(pool, n, align) == {r \in pool : r.count >= n + Gap(r.start, align)}

\* The wasted registers are r.count - n, whatever the gap.
BestFits(pool, n, align) ==
  {r \in Fits(pool, n, align) :
     \A q \in Fits(pool, n, align) : r.count <= q.count}

NonEmpty(ranges) == {r \in ranges : r.count > 0}

\* What is left of the pool once n registers of r are taken.
WithoutFit(pool, r, n, align) ==
  LET gap == Gap(r.start, align)
  IN  (pool \ {r}) \cup
      NonEmpty({[start |-> r.start + n + gap, count |-> r.count - (n + gap)],
                [start |-> r.start, count |-> gap]})

TopEnd(n, align) == AlignUp(high, align) + n

\* Mutant: the skipped registers are lost.
TopGapLost(align) == {}

\* The ssa allocator keeps the registers the alignment skips; legacy drops them.
TopGap(align) ==
  IF kind = "ssa"
  THEN NonEmpty({[start |-> high, count |-> Gap(high, align)]})
  ELSE {}

Bound == IF kind = "ssa" THEN Limit ELSE LegacyLimit

\* Maximal runs of consecutive members of S: the sorted and merged ranges.
Coalesced(S) ==
  {r \in [start : S, count : 1..U8] :
     /\ Regs(r) \subseteq S
     /\ (r.start - 1) \notin S
     /\ (r.start + r.count) \notin S}
-----------------------------------------------------------------------------
(* Expiry: what the turn of an interval that starts at now gives back.     *)

\* Mutant: an interval expires where the next one starts.
KeptShort(now) == {a \in active : a.last > now}

Kept(now) == {a \in active : a.last >= now}

Pool(now) ==
  LET expired == {[start |-> a.start, count |-> a.count] :
                    a \in active \ Kept(now)}
  IN  IF expired = {} THEN free
      ELSE IF kind = "ssa" THEN Coalesced(AllRegs(free \cup expired))
      ELSE free \cup expired

\* The members of g that give its interval its ends.
FirstOf(g) == {u \in Members(g) :
                 \A v \in Members(g) : live[u].def <= live[v].def}
LastOf(g) == {u \in Members(g) :
                \A v \in Members(g) : live[v].last <= live[u].last}

\* Intervals of equal definition are taken in the order of the version that
\* the merge kept, which is the one its hash map yielded first: in any order.
SsaTurn(v) ==
  /\ phase = "running" /\ kind = "ssa"
  /\ v \in todo
  /\ \A w \in todo : live[v].def <= live[w].def

LegacyTurn(g) ==
  /\ phase = "running" /\ kind = "legacy"
  /\ g \in {v[1] : v \in todo}
  /\ \A w \in todo : g <= w[1]

\* S, a part of group g, gets its place in a range of the active list.
Claim(S, g, now, last, owner, base, count) ==
  /\ todo' = todo \ S
  /\ reg' = [v \in Used |-> IF v \in S THEN base + v[2] ELSE reg[v]]
  /\ groupBase' = [groupBase EXCEPT ![g] = base]
  /\ active' = Kept(now) \cup {[start |-> base, count |-> count,
                                last |-> last, owner |-> owner]}

\* The smallest free range that fits is split.
PlaceInRange(S, g, now, last, owner) ==
  LET n == groups[g].count
      align == groups[g].align
  IN  \E r \in BestFits(Pool(now), n, align) :
        /\ Claim(S, g, now, last, owner, AlignUp(r.start, align), n)
        /\ free' = WithoutFit(Pool(now), r, n, align)
        /\ UNCHANGED <<input, high, spills, total, phase, wrapped>>

\* No range fits: the group goes on top, and the high-water mark moves.
PlaceOnTop(S, g, now, last, owner) ==
  LET n == groups[g].count
      align == groups[g].align
  IN  /\ Fits(Pool(now), n, align) = {}
      /\ TopEnd(n, align) <= Bound
      /\ Claim(S, g, now, last, owner, AlignUp(high, align), n)
      /\ free' = Pool(now) \cup TopGap(align)
      /\ high' = TopEnd(n, align)
      /\ wrapped' = (wrapped \/ Wraps(high, align))
      /\ UNCHANGED <<input, spills, total, phase>>

Place(S, g, now, last, owner) ==
  \/ PlaceInRange(S, g, now, last, owner)
  \/ PlaceOnTop(S, g, now, last, owner)

NoRoom(g, now) ==
  LET n == groups[g].count
      align == groups[g].align
  IN  Fits(Pool(now), n, align) = {} /\ TopEnd(n, align) > Bound

\* With overflow checks (a debug build) the rounding panics where it wraps.
RoundingOverflows(g, now) ==
  LET align == groups[g].align
  IN  \/ \E r \in Pool(now) : Wraps(r.start, align)
      \/ Fits(Pool(now), groups[g].count, align) = {} /\ Wraps(high, align)

GroupPlaced(g) == groupBase[g] # Unmapped

\* A register of a group that has its place.
JoinGroup(v) ==
  /\ SsaTurn(v)
  /\ GroupPlaced(v[1])
  /\ todo' = todo \ {v}
  /\ reg' = [reg EXCEPT ![v] = groupBase[v[1]] + v[2]]
  /\ active' = Kept(live[v].def)
  /\ free' = Pool(live[v].def)
  /\ UNCHANGED <<input, high, groupBase, spills, total, phase, wrapped>>

\* Mutant: the group is reserved anew for each of its registers.
PlaceGroupAgain(v) ==
  /\ SsaTurn(v)
  /\ Place({v}, v[1], live[v].def, live[v].last, v)

\* The first register of its group places the group, for its own lifetime.
PlaceGroup(v) ==
  /\ SsaTurn(v)
  /\ ~GroupPlaced(v[1])
  /\ Place({v}, v[1], live[v].def, live[v].last, v)

Scalars(now) == {a \in Kept(now) : a.count = 1}

\* Nothing fits: of v and the single registers in use, the one that is needed
\* longest is spilled.
SpillFor(v) ==
  LET now == live[v].def
  IN  /\ SsaTurn(v)
      /\ ~GroupPlaced(v[1])
      /\ NoRoom(v[1], now)
      /\ \E a \in Scalars(now) :
           /\ \A b \in Scalars(now) : b.last <= a.last
           /\ IF a.last > live[v].last
              THEN /\ spills' = spills \cup {a.owner}
                   /\ reg' = [reg EXCEPT ![v] = a.start]
                   /\ active' = (Kept(now) \ {a}) \cup
                                  {[start |-> a.start, count |-> 1,
                                    last |-> live[v].last, owner |-> v]}
              ELSE /\ spills' = spills \cup {v}
                   /\ reg' = [reg EXCEPT ![v] = 0]
                   /\ active' = Kept(now)
      /\ todo' = todo \ {v}
      /\ free' = Pool(now)
      /\ UNCHANGED <<input, high, groupBase, total, phase, wrapped>>

Panic ==
  /\ phase' = "panicked"
  /\ UNCHANGED <<input, todo, free, high, active, groupBase, reg, spills,
                 total, wrapped>>

\* panic! when every active range is a group, or the rounding overflows.
SsaPanics(v) ==
  /\ SsaTurn(v)
  /\ ~GroupPlaced(v[1])
  /\ \/ NoRoom(v[1], live[v].def) /\ Scalars(live[v].def) = {}
     \/ RoundingOverflows(v[1], live[v].def)
  /\ Panic

LegacyPlace(g) ==
  /\ LegacyTurn(g)
  /\ \E u \in FirstOf(g), w \in LastOf(g) :
       Place(Members(g), g, live[u].def, live[w].last, <<g, 0>>)

\* assert!(end <= 255), or the rounding overflows.
LegacyPanics(g) ==
  /\ LegacyTurn(g)
  /\ \E u \in FirstOf(g) :
       NoRoom(g, live[u].def) \/ RoundingOverflows(g, live[u].def)
  /\ Panic

\* to_legacy_regalloc maps every register that is written but never read to
\* the one scratch register after the last, and counts it.
Fallback == high

\* Mutant: the scratch register of the dead definitions is not counted.
DeclaredVgprsNoScratch == high

\* Mutant: the cap is forgotten.
DeclaredVgprsUncapped == IF dead THEN Fallback + 1 ELSE high

DeclaredVgprs ==
  IF kind = "legacy" THEN high
  ELSE LET wanted == IF dead THEN Fallback + 1 ELSE high
       IN  IF wanted <= Limit THEN wanted ELSE Limit

Finish ==
  /\ phase = "running"
  /\ todo = {}
  /\ total' = DeclaredVgprs
  /\ phase' = "done"
  /\ UNCHANGED <<input, todo, free, high, active, groupBase, reg, spills,
                 wrapped>>

Step(v) == JoinGroup(v) \/ PlaceGroup(v) \/ SpillFor(v) \/ SsaPanics(v)
LegacyStep(g) == LegacyPlace(g) \/ LegacyPanics(g)

Next ==
  \/ \E v \in Used : Step(v)
  \/ \E g \in DOMAIN groups : LegacyStep(g)
  \/ Finish

Spec == Init /\ [][Next]_vars
-----------------------------------------------------------------------------
(* Properties.                                                             *)

(* Every range lies within the u8 numbers, and the high-water mark and the *)
(* declared number of registers within the limit.                          *)
TypeOK ==
  /\ todo \subseteq Used
  /\ high \in 1..Bound
  /\ free \subseteq [start : Nat, count : Nat \ {0}]
  /\ active \subseteq [start : Nat, count : Nat \ {0}, last : 1..Horizon,
                      owner : VRegs]
  /\ \A r \in free \cup active : r.start + r.count <= U8
  /\ groupBase \in [DOMAIN groups -> 0..U8]
  /\ reg \in [Used -> Nat]
  /\ spills \subseteq Used
  /\ total \in 0..Bound
  /\ phase \in {"running", "done", "panicked"}
  /\ wrapped \in BOOLEAN

\* Spilling hands registers over outside the pool, and rounding next to the
\* end of the u8 range restarts at register 0: see the README.
Undisturbed == spills = {} /\ ~wrapped

Mapped == {v \in Used : reg[v] # Unmapped}
Overlap(v, w) ==
  live[v].def <= live[w].last /\ live[w].def <= live[v].last
Clash(v, w) == v # w /\ Overlap(v, w) /\ reg[v] = reg[w]

\* The register that places the group is used as late as the whole group.
Led(g) == FirstOf(g) \subseteq LastOf(g)

\* The group is first defined after all the groups declared before it.
InOrder(g) ==
  \A v \in Members(g), w \in Used :
    w[1] < g => \E u \in Members(w[1]) : live[u].def <= live[v].def

Trusted(v) == IF kind = "ssa" THEN Led(v[1]) ELSE InOrder(v[1])

(* No two values that are alive at once share a physical register, when    *)
(* both groups live as the allocator expects: the ssa allocator frees a    *)
(* group with the register that placed it, the legacy one takes the groups *)
(* in the order of their declarations.                                     *)
TrustedNeverClash ==
  Undisturbed => \A v, w \in Mapped :
                   Trusted(v) /\ Trusted(w) => ~Clash(v, w)

(* "The group leader manages the range" (ssa_regalloc.rs:369): no two      *)
(* values alive at once share a register, however the groups live.         *)
NeverClash == Undisturbed => \A v, w \in Mapped : ~Clash(v, w)

(* The registers of a group are consecutive and start at their alignment,  *)
(* as WMMA operands and wide loads need, and never at v0, which holds the  *)
(* work-item id.                                                           *)
GroupsTogether ==
  Undisturbed => \A v \in Mapped :
    /\ reg[v] = groupBase[v[1]] + v[2]
    /\ groupBase[v[1]] % groups[v[1]].align = 0
    /\ groupBase[v[1]] > 0

(* Below the high-water mark the ssa allocator loses no register: each is  *)
(* free or in use, the gaps of the alignment included, and none is both.   *)
NothingLost ==
  Undisturbed /\ kind = "ssa" =>
    /\ AllRegs(free) \cup AllRegs(active) = 1..(high - 1)
    /\ AllRegs(free) \cap AllRegs(active) = {}

(* The kernel declares every register that holds a value.  The scratch     *)
(* register of the dead definitions holds none, and is declared as long as *)
(* the file is not full.  In a full file it is the first register that is  *)
(* not declared, v254: the cap of 254 at ssa_regalloc.rs:123-127 leaves it *)
(* out, where the comment above it says it "aliases with register 253".    *)
KernelFits ==
  phase = "done" /\ Undisturbed =>
    /\ \A v \in Mapped : reg[v] < total
    /\ dead => /\ \A v \in Mapped : reg[v] # Fallback
               /\ high < Limit => Fallback < total
               /\ high = Limit => Fallback = total

(* "v0 reserved for TID" (ssa_regalloc.rs:328): no value is placed in      *)
(* register 0.                                                             *)
V0Reserved == spills = {} => \A v \in Mapped : reg[v] # 0
=============================================================================
