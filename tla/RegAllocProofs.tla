--------------------------- MODULE RegAllocProofs ---------------------------
(***************************************************************************)
(* Proofs about RegAlloc, for every register file, kernel and liveness:    *)
(* type correctness, that two values alive at once never share a register  *)
(* as long as their groups live as the allocator expects, and that the     *)
(* pool and the active list account for every register.                    *)
(***************************************************************************)
EXTENDS RegAlloc, WellFoundedInduction, TLAPS

\* Two ranges without a common register.
Apart(r, q) == r.start + r.count <= q.start \/ q.start + q.count <= r.start
Range == [start : Nat, count : Nat \ {0}]
Entry == [start : Nat, count : Nat \ {0}, last : 1..Horizon, owner : VRegs]

TypeInv ==
  /\ TypeOK
  /\ kind \in {"ssa", "legacy"}
  /\ groups \in Seq([count : Nat \ {0}, align : Alignments])
  /\ Used \subseteq VRegs
  /\ live \in [Used -> Intervals]
  /\ kind = "ssa" => \A a \in active : a.owner \in Used
-----------------------------------------------------------------------------
(* Registers and groups.                                                   *)

\* The declared limit is a u8 above zero.
LEMMA BoundType == Bound \in 1..(U8 - 1) /\ U8 \in Nat
BY LimitAssumption DEF Bound

\* A virtual register is an index of a declared group.
LEMMA UsedType ==
  ASSUME TypeInv, NEW v \in Used
  PROVE  /\ v[1] \in DOMAIN groups
         /\ v[2] \in 0..(groups[v[1]].count - 1)
         /\ v = <<v[1], v[2]>>
         /\ groups[v[1]].count \in Nat \ {0}
         /\ groups[v[1]].align \in Alignments
         /\ live[v].def \in 1..Horizon
         /\ live[v].last \in 1..Horizon
         /\ live[v].def <= live[v].last
         /\ v \in VRegs
<1>1. PICK g \in DOMAIN groups : v \in {g} \X (0..(groups[g].count - 1))
  BY DEF TypeInv, VRegs
<1>2. v[1] = g /\ v[2] \in 0..(groups[g].count - 1) /\ v = <<v[1], v[2]>>
  BY <1>1
<1>3. groups[g] \in [count : Nat \ {0}, align : Alignments]
  <2>1. ASSUME NEW G, groups \in Seq(G)
        PROVE  groups[g] \in G
    BY <2>1
  <2> QED
    BY <2>1 DEF TypeInv
<1>4. live[v] \in Intervals
  BY DEF TypeInv
<1> QED
  BY <1>2, <1>3, <1>4 DEF Intervals, TypeInv

\* What rounding up on u8 gives: the next multiple, unless it wraps.
LEMMA AlignLemma ==
  ASSUME NEW s \in 0..(U8 - 1), NEW align \in Alignments
  PROVE  /\ AlignUp(s, align) \in 0..(U8 - 1)
         /\ Gap(s, align) \in 0..(U8 - 1)
         /\ \/ s + Gap(s, align) = AlignUp(s, align)
            \/ s + Gap(s, align) = U8 /\ AlignUp(s, align) = 0
         /\ ~Wraps(s, align) => s + Gap(s, align) = AlignUp(s, align)
         /\ AlignUp(s, align) % align = 0
<1> DEFINE x == s + align - 1
           y == x % U8
           z == (y \div align) * align
<1>0. U8 \in Nat /\ U8 > 0 /\ align \in 1..8 /\ s \in Int
  BY LimitAssumption DEF Alignments
<1>1. y \in 0..(U8 - 1) /\ (x < U8 => y = x)
  BY <1>0
<1>2. z \in Nat /\ z <= y /\ z > y - align /\ z % align = 0
  <2>1. CASE align = 1
    BY <2>1, <1>1, <1>0
  <2>2. CASE align = 2
    BY <2>2, <1>1, <1>0
  <2>3. CASE align = 4
    BY <2>3, <1>1, <1>0
  <2>4. CASE align = 8
    BY <2>4, <1>1, <1>0
  <2> QED
    BY <2>1, <2>2, <2>3, <2>4 DEF Alignments
<1>3. AlignUp(s, align) = z /\ Gap(s, align) = (z - s) % U8
  BY DEF AlignUp, Gap
<1> HIDE DEF y, z
<1>4. z \in 0..(U8 - 1)
  BY <1>1, <1>2, <1>0
<1>5. z >= s => (z - s) % U8 = z - s
  BY <1>4, <1>0
<1>6. z < s => (z - s) % U8 = z - s + U8
  BY <1>4, <1>0
<1>7. ~Wraps(s, align) => z >= s
  BY <1>0, <1>1, <1>2 DEF Wraps
<1>8. z < s => z = 0
  <2> SUFFICES ASSUME z < s
               PROVE  z = 0
    OBVIOUS
  <2>0. x >= U8 /\ x \in Int
    BY <1>0, <1>1, <1>2
  <2>1. y < align
    <3>1. CASE U8 < align
      BY <3>1, <1>0, <1>1
    <3>2. CASE U8 >= align
      <4>1. x % U8 = x - U8
        BY <3>2, <2>0, <1>0
      <4> QED
        BY <4>1, <1>0 DEF y
    <3> QED
      BY <3>1, <3>2, <1>0
  <2>2. CASE align = 1
    BY <2>2, <2>1, <1>1, <1>0 DEF z
  <2>3. CASE align = 2
    BY <2>3, <2>1, <1>1, <1>0 DEF z
  <2>4. CASE align = 4
    BY <2>4, <2>1, <1>1, <1>0 DEF z
  <2>5. CASE align = 8
    BY <2>5, <2>1, <1>1, <1>0 DEF z
  <2> QED
    BY <2>2, <2>3, <2>4, <2>5 DEF Alignments
<1> QED
  BY <1>0, <1>2, <1>3, <1>4, <1>5, <1>6, <1>7, <1>8

-----------------------------------------------------------------------------
(* The pool.                                                               *)

\* No register is in two ranges, nor in register 0, nor at top or above.
Clean(pool, used, top) ==
  /\ \A r \in pool : r.start >= 1 /\ r.start + r.count <= top
  /\ \A a \in used : a.start >= 1 /\ a.start + a.count <= top
  /\ \A r, q \in pool : r # q => Apart(r, q)
  /\ \A a, b \in used : a # b => Apart(a, b)
  /\ \A r \in pool, a \in used : Apart(r, a)

Ranges(pool) == pool \subseteq Range /\ \A r \in pool : r.start + r.count <= U8

\* Merging ranges gives ranges of the same registers, apart from one another.
LEMMA CoalescedLemma ==
  ASSUME NEW pool, Ranges(pool)
  PROVE  /\ Ranges(Coalesced(AllRegs(pool)))
         /\ \A r, q \in Coalesced(AllRegs(pool)) : r # q => Apart(r, q)
         /\ \A k \in Range : (\A r \in pool : Apart(r, k))
              => \A q \in Coalesced(AllRegs(pool)) : Apart(q, k)
         /\ \A top \in Nat :
              (\A r \in pool : r.start >= 1 /\ r.start + r.count <= top)
                => \A q \in Coalesced(AllRegs(pool)) :
                     q.start >= 1 /\ q.start + q.count <= top
<1> DEFINE S == AllRegs(pool)
<1>0. U8 \in Nat
  BY LimitAssumption
<1>1. ASSUME NEW i \in S
      PROVE  \E r \in pool : i \in Int /\ r.start <= i /\ i < r.start + r.count
                             /\ r.start \in Nat /\ r.count \in Nat
  <2>1. PICK r \in pool : i \in Regs(r)
    BY <1>1 DEF AllRegs
  <2>2. r.start \in Nat /\ r.count \in Nat
    BY DEF Ranges, Range
  <2> QED
    BY <2>1, <2>2 DEF Regs
<1>2. ASSUME NEW r \in pool, NEW i \in Int, r.start <= i, i < r.start + r.count
      PROVE  i \in S
  <2>1. r.start \in Nat /\ r.count \in Nat
    BY DEF Ranges, Range
  <2>2. i \in Regs(r)
    BY <2>1, <1>2 DEF Regs
  <2> QED
    BY <2>2 DEF AllRegs
<1>3. ASSUME NEW q \in Coalesced(S)
      PROVE  /\ q \in Range /\ q.start \in S /\ q.start + q.count - 1 \in S
             /\ q.start - 1 \notin S /\ q.start + q.count \notin S
             /\ \A i \in Int : q.start <= i /\ i < q.start + q.count => i \in S
  <2>1. q \in [start : S, count : 1..U8] /\ Regs(q) \subseteq S
        /\ q.start - 1 \notin S /\ q.start + q.count \notin S
    BY DEF Coalesced
  <2>2. q.start \in S /\ q.count \in 1..U8
    BY <2>1
  <2>3. q.start \in Nat
    BY <2>2, <1>1
  <2>4. q \in Range
    BY <2>1, <2>2, <2>3, <1>0 DEF Range
  <2>5. \A i \in Int : q.start <= i /\ i < q.start + q.count => i \in S
    BY <2>1, <2>2, <2>3, <1>0 DEF Regs
  <2> QED
    BY <2>1, <2>2, <2>3, <2>4, <2>5, <1>0
<1> HIDE DEF S
<1>4. \A r \in pool : r.start \in Nat /\ r.count \in Nat \ {0}
                      /\ r.start + r.count <= U8
  BY DEF Ranges, Range
<1>5. Ranges(Coalesced(S))
  <2> SUFFICES ASSUME NEW q \in Coalesced(S)
               PROVE  q \in Range /\ q.start + q.count <= U8
    BY DEF Ranges
  <2>1. PICK r \in pool : /\ r.start <= q.start + q.count - 1
                          /\ q.start + q.count - 1 < r.start + r.count
    BY <1>1, <1>3
  <2> QED
    BY <2>1, <1>3, <1>4, <1>0 DEF Range
<1>6. ASSUME NEW r \in Coalesced(S), NEW q \in Coalesced(S), r # q
      PROVE  Apart(r, q)
  <2> SUFFICES ASSUME ~Apart(r, q)
               PROVE  FALSE
    OBVIOUS
  <2>0. r \in Range /\ q \in Range
    BY <1>3
  <2>1. r.start \in Nat /\ r.count \in Nat /\ q.start \in Nat /\ q.count \in Nat
    BY <2>0 DEF Range
  <2>2. q.start < r.start + r.count /\ r.start < q.start + q.count
    BY <2>1 DEF Apart
  <2>3. ~(r.start < q.start)
    BY <2>1, <2>2, <1>3
  <2>4. ~(q.start < r.start)
    BY <2>1, <2>2, <1>3
  <2>5. ~(r.count < q.count)
    BY <2>1, <2>3, <2>4, <1>3
  <2>6. ~(q.count < r.count)
    BY <2>1, <2>3, <2>4, <1>3
  <2>7. r.start = q.start /\ r.count = q.count
    BY <2>1, <2>3, <2>4, <2>5, <2>6
  <2> QED
    BY <2>0, <2>7, <1>6 DEF Range
<1>7. ASSUME NEW k \in Range, \A r \in pool : Apart(r, k),
             NEW q \in Coalesced(S)
      PROVE  Apart(q, k)
  <2> SUFFICES ASSUME ~Apart(q, k)
               PROVE  FALSE
    OBVIOUS
  <2>1. q.start \in Nat /\ q.count \in Nat \ {0}
        /\ k.start \in Nat /\ k.count \in Nat \ {0}
    BY <1>3 DEF Range
  <2> DEFINE i == IF q.start <= k.start THEN k.start ELSE q.start
  <2>2. i \in Int /\ q.start <= i /\ i < q.start + q.count
        /\ k.start <= i /\ i < k.start + k.count
    BY <2>1 DEF Apart
  <2>3. i \in S
    BY <2>2, <1>3
  <2>4. PICK r \in pool : r.start <= i /\ i < r.start + r.count
    BY <2>3, <1>1
  <2> QED
    BY <2>1, <2>2, <2>4, <1>4, <1>7 DEF Apart
<1>8. ASSUME NEW top \in Nat, NEW q \in Coalesced(S),
             \A r \in pool : r.start >= 1 /\ r.start + r.count <= top
      PROVE  q.start >= 1 /\ q.start + q.count <= top
  <2>1. PICK r \in pool : r.start <= q.start
    BY <1>1, <1>3
  <2>2. PICK p \in pool : q.start + q.count - 1 < p.start + p.count
    BY <1>1, <1>3
  <2>3. q.start \in Nat /\ q.count \in Nat
    BY <1>3 DEF Range
  <2> QED
    BY <2>1, <2>2, <2>3, <1>4, <1>8
<1> QED
  BY <1>5, <1>6, <1>7, <1>8 DEF S

\* The free pool and the active list are ranges below the high-water mark.
LEMMA EntryType ==
  ASSUME TypeInv
  PROVE  /\ Ranges(free)
         /\ \A a \in active : a \in Entry /\ a.start \in Nat
              /\ a.count \in Nat \ {0} /\ a.last \in Int
              /\ a.start + a.count <= U8
         /\ high \in 1..(U8 - 1) /\ high <= Bound
<1>1. free \subseteq Range /\ active \subseteq Entry
  BY DEF TypeInv, TypeOK, Range, Entry
<1>2. \A a \in Entry : a.start \in Nat /\ a.count \in Nat \ {0} /\ a.last \in Int
  BY LimitAssumption DEF Entry
<1>3. high \in 1..(U8 - 1) /\ high <= Bound
  BY BoundType DEF TypeInv, TypeOK
<1> QED
  BY <1>1, <1>2, <1>3 DEF TypeInv, TypeOK, Ranges

\* Expiry keeps the registers of every interval that goes on out of the pool.
LEMMA PoolLemma ==
  ASSUME TypeInv, NEW now \in Int
  PROVE  /\ Ranges(Pool(now))
         /\ Kept(now) \subseteq active
         /\ Clean(free, active, high) => Clean(Pool(now), Kept(now), high)
<1> DEFINE expired == {[start |-> a.start, count |-> a.count] :
                         a \in active \ Kept(now)}
           both == free \cup expired
<1>0. high \in Nat
  BY EntryType
<1>1. Kept(now) \subseteq active
  BY DEF Kept
<1>2. \A e \in expired : \E a \in active \ Kept(now) :
        e = [start |-> a.start, count |-> a.count]
        /\ e.start = a.start /\ e.count = a.count
  OBVIOUS
<1>3. \A e \in expired : e \in Range /\ e.start + e.count <= U8
  BY <1>2, EntryType DEF Range
<1>4. Ranges(both)
  BY <1>3, EntryType DEF Ranges
<1>5. ASSUME Clean(free, active, high)
      PROVE  Clean(both, Kept(now), high)
  <2>1. \A r \in both : r.start >= 1 /\ r.start + r.count <= high
    BY <1>2, <1>5 DEF Clean
  <2>2. \A a \in Kept(now) : a.start >= 1 /\ a.start + a.count <= high
    BY <1>1, <1>5 DEF Clean
  <2>3. ASSUME NEW r \in both, NEW q \in both, r # q
        PROVE  Apart(r, q)
    <3>1. CASE r \in free /\ q \in free
      BY <3>1, <2>3, <1>5 DEF Clean
    <3>2. CASE r \in expired /\ q \in free
      BY <3>2, <1>2, <1>5 DEF Clean, Apart
    <3>3. CASE r \in free /\ q \in expired
      BY <3>3, <1>2, <1>5 DEF Clean, Apart
    <3>4. CASE r \in expired /\ q \in expired
      BY <3>4, <2>3, <1>2, <1>5 DEF Clean, Apart
    <3> QED
      BY <3>1, <3>2, <3>3, <3>4
  <2>4. \A a, b \in Kept(now) : a # b => Apart(a, b)
    BY <1>1, <1>5 DEF Clean
  <2>5. ASSUME NEW r \in both, NEW a \in Kept(now)
        PROVE  Apart(r, a)
    <3>1. CASE r \in free
      BY <3>1, <1>1, <1>5 DEF Clean
    <3>2. CASE r \in expired
      <4>1. PICK b \in active \ Kept(now) : r.start = b.start /\ r.count = b.count
        BY <3>2, <1>2
      <4>2. Apart(b, a)
        BY <4>1, <1>1, <1>5 DEF Clean
      <4> QED
        BY <4>1, <4>2 DEF Apart
    <3> QED
      BY <3>1, <3>2
  <2> QED
    BY <2>1, <2>2, <2>3, <2>4, <2>5 DEF Clean
<1>6. CASE expired = {}
  <2>1. Pool(now) = free
    BY <1>6 DEF Pool
  <2>2. both = free
    BY <1>6
  <2> QED
    BY <2>1, <2>2, <1>1, <1>4, <1>5
<1>7. CASE expired # {} /\ kind # "ssa"
  <2>1. Pool(now) = both
    BY <1>7 DEF Pool
  <2> QED
    BY <2>1, <1>1, <1>4, <1>5
<1>8. CASE expired # {} /\ kind = "ssa"
  <2>1. Pool(now) = Coalesced(AllRegs(both))
    BY <1>8 DEF Pool
  <2>2. ASSUME Clean(free, active, high)
        PROVE  Clean(Pool(now), Kept(now), high)
    <3> HIDE DEF both
    <3>1. Clean(both, Kept(now), high)
      BY <1>5, <2>2
    <3>2. \A a \in Kept(now) : [start |-> a.start, count |-> a.count] \in Range
      BY <1>1, EntryType DEF Range
    <3>3. ASSUME NEW a \in Kept(now), NEW q \in Pool(now)
          PROVE  Apart(q, a)
      <4> DEFINE k == [start |-> a.start, count |-> a.count]
      <4>1. \A r \in both : Apart(r, k)
        BY <3>1 DEF Clean, Apart
      <4>2. Apart(q, k)
        BY <4>1, <3>2, <2>1, <1>4, CoalescedLemma
      <4> QED
        BY <4>2 DEF Apart
    <3>4. \A q \in Pool(now) : q.start >= 1 /\ q.start + q.count <= high
      BY <3>1, <2>1, <1>4, <1>0, CoalescedLemma DEF Clean
    <3>5. \A r, q \in Pool(now) : r # q => Apart(r, q)
      BY <2>1, <1>4, CoalescedLemma
    <3> QED
      BY <3>1, <3>3, <3>4, <3>5 DEF Clean
  <2>3. Ranges(Pool(now))
    BY <2>1, <1>4, CoalescedLemma
  <2> QED
    BY <2>2, <2>3, <1>1
<1> QED
  BY <1>6, <1>7, <1>8

\* A range taken out of the pool is apart from what stays in it.
LEMMA FitLemma ==
  ASSUME NEW pool, Ranges(pool), NEW n \in Nat \ {0}, NEW align \in Alignments,
         NEW r \in Fits(pool, n, align)
  PROVE  LET base == AlignUp(r.start, align)
             rest == WithoutFit(pool, r, n, align)
         IN  /\ base \in 0..(U8 - 1)
             /\ base >= r.start /\ base + n <= r.start + r.count
             /\ base + n <= U8
             /\ Ranges(rest)
             /\ \A q \in rest : (q \in pool /\ q # r)
                  \/ /\ q.start >= r.start
                     /\ q.start + q.count <= r.start + r.count
                     /\ q.start + q.count <= base \/ base + n <= q.start
             /\ \A p, q \in rest :
                  p # q /\ ~(p \in pool /\ p # r) /\ ~(q \in pool /\ q # r)
                    => Apart(p, q)
<1> DEFINE base == AlignUp(r.start, align)
           gap == Gap(r.start, align)
           after == [start |-> r.start + n + gap, count |-> r.count - (n + gap)]
           before == [start |-> r.start, count |-> gap]
           rest == WithoutFit(pool, r, n, align)
<1>0. U8 \in Nat
  BY LimitAssumption
<1>1. r \in pool /\ r.count >= n + gap
  BY DEF Fits
<1>2. r.start \in Nat /\ r.count \in Nat \ {0} /\ r.start + r.count <= U8
  BY <1>1 DEF Ranges, Range
<1>3. r.start \in 0..(U8 - 1)
  BY <1>0, <1>2
<1>4. base \in 0..(U8 - 1) /\ gap \in 0..(U8 - 1)
      /\ (r.start + gap = base \/ r.start + gap = U8)
  BY <1>3, AlignLemma
<1> HIDE DEF base, gap
<1>5. r.start + gap = base
  BY <1>0, <1>1, <1>2, <1>4
<1>6. rest = (pool \ {r}) \cup NonEmpty({after, before})
  BY DEF WithoutFit, gap
<1>7. \A q \in rest : \/ q \in pool /\ q # r
                      \/ q = after /\ q.count > 0
                      \/ q = before /\ q.count > 0
  BY <1>6 DEF NonEmpty
<1>8. /\ after.start = base + n /\ after.count = r.start + r.count - (base + n)
      /\ before.start = r.start /\ before.count = base - r.start
      /\ after.count \in Nat
  BY <1>0, <1>1, <1>2, <1>4, <1>5
<1>9. /\ after.count > 0 => after \in Range /\ after.start + after.count <= U8
      /\ before.count > 0 => before \in Range /\ before.start + before.count <= U8
  BY <1>0, <1>1, <1>2, <1>4, <1>5 DEF Range
<1>10. Ranges(rest)
  <2> SUFFICES ASSUME NEW q \in rest
               PROVE  q \in Range /\ q.start + q.count <= U8
    BY DEF Ranges
  <2>1. CASE q \in pool
    BY <2>1 DEF Ranges
  <2>2. CASE q = after /\ q.count > 0
    BY <2>2, <1>9
  <2>3. CASE q = before /\ q.count > 0
    BY <2>3, <1>9
  <2> QED
    BY <2>1, <2>2, <2>3, <1>7
<1> HIDE DEF after, before, rest
<1>11. \A q \in rest : (q \in pool /\ q # r)
         \/ /\ q.start >= r.start
            /\ q.start + q.count <= r.start + r.count
            /\ q.start + q.count <= base \/ base + n <= q.start
  BY <1>7, <1>8, <1>0, <1>1, <1>2, <1>4, <1>5
<1>12. ASSUME NEW p \in rest, NEW q \in rest, p # q,
              ~(p \in pool /\ p # r), ~(q \in pool /\ q # r)
       PROVE  Apart(p, q)
  <2>1. (p = after /\ q = before) \/ (p = before /\ q = after)
    BY <1>7, <1>12
  <2>2. Apart(after, before) /\ Apart(before, after)
    BY <1>8, <1>0, <1>2, <1>4 DEF Apart
  <2> QED
    BY <2>1, <2>2
<1>13. base >= r.start /\ base + n <= r.start + r.count /\ base + n <= U8
  BY <1>0, <1>1, <1>2, <1>4, <1>5
<1> QED
  BY <1>4, <1>10, <1>11, <1>12, <1>13 DEF base, rest

\* The new entry of the active list.
EntryAt(g, last, owner, base) ==
  [start |-> base, count |-> groups[g].count, last |-> last, owner |-> owner]

\* What a step changes that places a group at base.
PlacedAt(S, g, now, last, owner, base) ==
  /\ todo' = todo \ S
  /\ reg' = [v \in Used |-> IF v \in S THEN base + v[2] ELSE reg[v]]
  /\ groupBase' = [groupBase EXCEPT ![g] = base]
  /\ active' = Kept(now) \cup {EntryAt(g, last, owner, base)}
  /\ base + groups[g].count <= U8 /\ base % groups[g].align = 0
  /\ EntryAt(g, last, owner, base) \in Entry
  /\ Ranges(free')
  /\ high' \in 1..Bound
  /\ wrapped' \in BOOLEAN /\ (wrapped => wrapped')
  /\ ~wrapped' => high <= high'
  /\ Clean(Pool(now), Kept(now), high) /\ ~wrapped'
       => Clean(free', active', high')
  /\ UNCHANGED <<kind, groups, live, dead, spills, total, phase>>

\* Placing a group keeps the ranges apart unless the rounding wraps.
LEMMA PlaceLemma ==
  ASSUME TypeInv, NEW S \in SUBSET Used, NEW g \in DOMAIN groups,
         groups[g].count \in Nat \ {0}, groups[g].align \in Alignments,
         NEW now \in Int, NEW last \in 1..Horizon, NEW owner \in VRegs,
         Place(S, g, now, last, owner)
  PROVE  \E base \in 0..(U8 - 1) : PlacedAt(S, g, now, last, owner, base)
<1> DEFINE n == groups[g].count
           align == groups[g].align
           pool == Pool(now)
           used == Kept(now)
<1>0. U8 \in Nat /\ Bound \in 1..(U8 - 1) /\ high \in 1..(U8 - 1)
  BY BoundType, EntryType
<1>1. Ranges(pool) /\ used \subseteq active
  BY PoolLemma
<1>2. ASSUME NEW base \in 0..(U8 - 1)
      PROVE  EntryAt(g, last, owner, base) \in Entry
  BY DEF Entry, EntryAt
<1>3. \A a \in used : a.start \in Nat /\ a.count \in Nat
  BY <1>1, EntryType
<1>4. \A q \in pool : q.start \in Nat /\ q.count \in Nat
  BY <1>1 DEF Ranges, Range
<1>5. CASE PlaceInRange(S, g, now, last, owner)
  <2>1. PICK r \in BestFits(pool, n, align) :
          /\ Claim(S, g, now, last, owner, AlignUp(r.start, align), n)
          /\ free' = WithoutFit(pool, r, n, align)
          /\ UNCHANGED <<input, high, spills, total, phase, wrapped>>
    BY <1>5 DEF PlaceInRange
  <2> DEFINE base == AlignUp(r.start, align)
             rest == WithoutFit(pool, r, n, align)
             e == EntryAt(g, last, owner, base)
  <2>2. r \in Fits(pool, n, align) /\ r \in pool
    BY DEF BestFits, Fits
  <2> HIDE DEF pool, used, n, align
  <2>3. /\ base \in 0..(U8 - 1)
        /\ base >= r.start /\ base + n <= r.start + r.count
        /\ base + n <= U8
        /\ Ranges(rest)
        /\ \A q \in rest : (q \in pool /\ q # r)
             \/ /\ q.start >= r.start
                /\ q.start + q.count <= r.start + r.count
                /\ q.start + q.count <= base \/ base + n <= q.start
        /\ \A p, q \in rest :
             p # q /\ ~(p \in pool /\ p # r) /\ ~(q \in pool /\ q # r)
               => Apart(p, q)
    <3>1. n \in Nat \ {0} /\ align \in Alignments
      BY DEF n, align
    <3> QED
      BY <3>1, <2>2, <1>1, FitLemma
  <2>n. n \in Nat \ {0}
    BY DEF n
  <2>4. ASSUME Clean(pool, used, high)
        PROVE  Clean(rest, used \cup {e}, high)
    <3> HIDE DEF base, rest
    <3>1. r.start >= 1 /\ r.start + r.count <= high /\ r.start \in Nat /\ r.count \in Nat
      BY <2>2, <2>4, <1>4 DEF Clean
    <3>r. \A q \in rest : q.start \in Nat /\ q.count \in Nat
      BY <2>3 DEF Ranges, Range
    <3>2. \A q \in rest : q.start >= 1 /\ q.start + q.count <= high
      BY <3>1, <3>r, <2>3, <2>4, <1>0 DEF Clean
    <3>3. e.start = base /\ e.count = n
      BY DEF EntryAt, n
    <3> HIDE DEF e
    <3>4. \A a \in used \cup {e} : a.start >= 1 /\ a.start + a.count <= high
      BY <3>1, <3>3, <2>3, <2>4, <2>n, <1>0, <1>3 DEF Clean
    <3>5. ASSUME NEW p \in rest, NEW q \in rest, p # q
          PROVE  Apart(p, q)
      <4>1. CASE p \in pool /\ p # r /\ q \in pool /\ q # r
        BY <4>1, <3>5, <2>4 DEF Clean
      <4>2. CASE p \in pool /\ p # r /\ ~(q \in pool /\ q # r)
        <5>1. Apart(p, r)
          BY <4>2, <2>2, <2>4 DEF Clean
        <5>2. q.start >= r.start /\ q.start + q.count <= r.start + r.count
          BY <4>2, <2>3
        <5> QED
          BY <5>1, <5>2, <3>1, <3>r DEF Apart
      <4>3. CASE ~(p \in pool /\ p # r) /\ q \in pool /\ q # r
        <5>1. Apart(q, r)
          BY <4>3, <2>2, <2>4 DEF Clean
        <5>2. p.start >= r.start /\ p.start + p.count <= r.start + r.count
          BY <4>3, <2>3
        <5> QED
          BY <5>1, <5>2, <3>1, <3>r DEF Apart
      <4>4. CASE ~(p \in pool /\ p # r) /\ ~(q \in pool /\ q # r)
        BY <4>4, <3>5, <2>3
      <4> QED
        BY <4>1, <4>2, <4>3, <4>4
    <3>6. \A a \in used : Apart(r, a) /\ Apart(e, a) /\ Apart(a, e)
      <4> TAKE a \in used
      <4>1. Apart(r, a)
        BY <2>2, <2>4 DEF Clean
      <4> QED
        BY <4>1, <3>1, <3>3, <2>3, <2>n, <1>0, <1>3 DEF Apart
    <3>7. \A a, b \in used \cup {e} : a # b => Apart(a, b)
      BY <3>6, <2>4 DEF Clean
    <3>8. ASSUME NEW q \in rest, NEW a \in used \cup {e}
          PROVE  Apart(q, a)
      <4>1. CASE q \in pool /\ q # r /\ a \in used
        BY <4>1, <2>4 DEF Clean
      <4>2. CASE ~(q \in pool /\ q # r) /\ a \in used
        <5>1. q.start >= r.start /\ q.start + q.count <= r.start + r.count
          BY <4>2, <2>3
        <5> QED
          BY <5>1, <4>2, <3>6, <3>1, <3>r, <1>3 DEF Apart
      <4>3. CASE q \in pool /\ q # r /\ a = e
        <5>1. Apart(q, r)
          BY <4>3, <2>2, <2>4 DEF Clean
        <5> QED
          BY <5>1, <4>3, <3>3, <2>3, <2>n, <3>1, <3>r, <1>0 DEF Apart
      <4>4. CASE ~(q \in pool /\ q # r) /\ a = e
        BY <4>4, <3>3, <2>3 DEF Apart
      <4> QED
        BY <4>1, <4>2, <4>3, <4>4
    <3> QED
      BY <3>2, <3>4, <3>5, <3>7, <3>8 DEF Clean
  <2>5. /\ todo' = todo \ S
        /\ reg' = [v \in Used |-> IF v \in S THEN base + v[2] ELSE reg[v]]
        /\ groupBase' = [groupBase EXCEPT ![g] = base]
        /\ active' = used \cup {e}
        /\ free' = rest
        /\ high' = high /\ wrapped' = wrapped
        /\ UNCHANGED <<kind, groups, live, dead, spills, total, phase>>
    BY <2>1 DEF Claim, input, used, n, EntryAt
  <2>6. wrapped \in BOOLEAN /\ high \in 1..Bound /\ high <= high
    BY <1>0 DEF TypeInv, TypeOK
  <2>a. base % align = 0
    <3>1. r.start \in 0..(U8 - 1) /\ align \in Alignments
      BY <2>2, <1>0, <1>1 DEF Ranges, Range, align
    <3> QED
      BY <3>1, AlignLemma
  <2> HIDE DEF base, rest
  <2>7. EntryAt(g, last, owner, base) \in Entry
    BY <2>3, <1>2
  <2>8. PlacedAt(S, g, now, last, owner, base)
    BY <2>3, <2>4, <2>5, <2>6, <2>7, <2>a DEF used, n, align, pool, PlacedAt
  <2> QED
    BY <2>3, <2>8
<1>6. CASE PlaceOnTop(S, g, now, last, owner)
  <2> DEFINE base == AlignUp(high, align)
             gap == Gap(high, align)
             e == EntryAt(g, last, owner, base)
  <2> HIDE DEF pool, used, n, align
  <2>1. /\ base + n <= Bound
        /\ Claim(S, g, now, last, owner, base, n)
        /\ free' = pool \cup TopGap(align)
        /\ high' = base + n
        /\ wrapped' = (wrapped \/ Wraps(high, align))
        /\ UNCHANGED <<input, spills, total, phase>>
    BY <1>6 DEF PlaceOnTop, TopEnd, n, align, pool
  <2>n. n \in Nat \ {0} /\ align \in Alignments
    BY DEF n, align
  <2>2. /\ base \in 0..(U8 - 1) /\ gap \in 0..(U8 - 1)
        /\ \/ high + gap = base
           \/ high + gap = U8
        /\ ~Wraps(high, align) => high + gap = base
        /\ base % align = 0
    BY <1>0, <2>n, AlignLemma
  <2> HIDE DEF base, gap
  <2>3. \A q \in TopGap(align) :
          q.start = high /\ q.count = gap /\ gap > 0 /\ q \in Range
    BY <1>0, <2>2 DEF TopGap, NonEmpty, gap, Range
  <2>4. ASSUME NEW q \in TopGap(align)
        PROVE  q.start + q.count <= U8
    BY <2>2, <2>3, <2>n, <2>1, <1>0
  <2>5. Ranges(free')
    BY <2>1, <2>3, <2>4, <1>1 DEF Ranges
  <2>6. ASSUME Clean(pool, used, high), ~Wraps(high, align)
        PROVE  Clean(free', used \cup {e}, high')
    <3>0. high + gap = base /\ high' = base + n /\ high <= base
      BY <2>6, <2>1, <2>2, <1>0
    <3>1. e.start = base /\ e.count = n
      BY DEF EntryAt, n
    <3> HIDE DEF e
    <3>2. \A q \in free' : \/ q \in pool
                           \/ q.start = high /\ q.count = gap
      BY <2>1, <2>3
    <3>3. \A q \in free' : q.start >= 1 /\ q.start + q.count <= high'
      BY <3>0, <3>2, <2>6, <2>n, <2>2, <1>0, <1>4 DEF Clean
    <3>4. \A a \in used \cup {e} : a.start >= 1 /\ a.start + a.count <= high'
      BY <3>0, <3>1, <2>6, <2>n, <2>2, <1>0, <1>3 DEF Clean
    <3>5. ASSUME NEW p \in free', NEW q \in free', p # q
          PROVE  Apart(p, q)
      <4>1. CASE p \in pool /\ q \in pool
        BY <4>1, <3>5, <2>6 DEF Clean
      <4>2. CASE p \in pool /\ q \notin pool
        BY <4>2, <3>2, <2>6 DEF Clean, Apart
      <4>3. CASE p \notin pool /\ q \in pool
        BY <4>3, <3>2, <2>6 DEF Clean, Apart
      <4>4. CASE p \notin pool /\ q \notin pool
        <5>1. p \in TopGap(align) /\ q \in TopGap(align)
          BY <4>4, <2>1
        <5> QED
          BY <5>1, <3>5 DEF TopGap, NonEmpty
      <4> QED
        BY <4>1, <4>2, <4>3, <4>4
    <3>6. \A a \in used : Apart(e, a) /\ Apart(a, e)
      BY <3>0, <3>1, <2>6, <2>2, <1>0, <1>3 DEF Clean, Apart
    <3>7. \A a, b \in used \cup {e} : a # b => Apart(a, b)
      BY <3>6, <2>6 DEF Clean
    <3>8. ASSUME NEW q \in free', NEW a \in used \cup {e}
          PROVE  Apart(q, a)
      <4>1. CASE q \in pool /\ a \in used
        BY <4>1, <2>6 DEF Clean
      <4>2. CASE q \notin pool /\ a \in used
        <5>1. a.start \in Nat /\ a.count \in Nat /\ a.start + a.count <= high
          BY <4>2, <1>3, <2>6 DEF Clean
        <5> QED
          BY <5>1, <4>2, <3>2 DEF Apart
      <4>3. CASE q \in pool /\ a = e
        BY <4>3, <3>0, <3>1, <2>6, <2>2, <1>0, <1>4 DEF Clean, Apart
      <4>4. CASE q \notin pool /\ a = e
        BY <4>4, <3>0, <3>1, <3>2, <2>2, <1>0 DEF Apart
      <4> QED
        BY <4>1, <4>2, <4>3, <4>4
    <3> QED
      BY <3>3, <3>4, <3>5, <3>7, <3>8 DEF Clean
  <2>7. /\ todo' = todo \ S
        /\ reg' = [v \in Used |-> IF v \in S THEN base + v[2] ELSE reg[v]]
        /\ groupBase' = [groupBase EXCEPT ![g] = base]
        /\ active' = used \cup {e}
        /\ UNCHANGED <<kind, groups, live, dead, spills, total, phase>>
    BY <2>1 DEF Claim, input, used, n, EntryAt
  <2>8. wrapped' \in BOOLEAN /\ (wrapped => wrapped')
        /\ (~wrapped' => ~Wraps(high, align))
    <3>1. wrapped \in BOOLEAN /\ Wraps(high, align) \in BOOLEAN
      BY DEF TypeInv, TypeOK, Wraps
    <3> QED
      BY <3>1, <2>1
  <2>t. /\ high' \in 1..Bound /\ base + n <= U8
        /\ ~Wraps(high, align) => high <= high'
    BY <2>1, <2>2, <2>n, <1>0
  <2>9. EntryAt(g, last, owner, base) \in Entry
    BY <2>2, <1>2
  <2>10. PlacedAt(S, g, now, last, owner, base)
    BY <2>2, <2>5, <2>6, <2>7, <2>8, <2>9, <2>t DEF used, n, align, pool, PlacedAt
  <2> QED
    BY <2>2, <2>10
<1> QED
  BY <1>5, <1>6 DEF Place

-----------------------------------------------------------------------------
(* Type correctness.                                                       *)

\* What every step gives that keeps the input and the types.
LEMMA TypeFrame ==
  ASSUME TypeInv, UNCHANGED input, todo' \subseteq todo, Ranges(free'),
         high' \in 1..Bound, active' \subseteq Entry,
         \A a \in active' : a.start + a.count <= U8,
         kind = "ssa" => \A a \in active' : a.owner \in Used,
         groupBase' \in [DOMAIN groups -> 0..U8], reg' \in [Used -> Nat],
         spills' \subseteq Used, total' \in 0..Bound,
         phase' \in {"running", "done", "panicked"}, wrapped' \in BOOLEAN
  PROVE  TypeInv'
<1>1. Bound' = Bound /\ Used' = Used /\ VRegs' = VRegs
  BY DEF input, Bound, Used, VRegs
<1>2. free' \subseteq [start : Nat, count : Nat \ {0}]
      /\ \A r \in free' : r.start + r.count <= U8
  BY DEF Ranges, Range
<1>3. active' \subseteq [start : Nat, count : Nat \ {0}, last : 1..Horizon,
                         owner : VRegs']
  BY <1>1 DEF Entry
<1>4. todo' \subseteq Used' /\ spills' \subseteq Used'
  BY <1>1 DEF TypeInv, TypeOK
<1>5. groupBase' \in [DOMAIN groups' -> 0..U8] /\ reg' \in [Used' -> Nat]
  BY <1>1 DEF input
<1>6. TypeOK'
  BY <1>1, <1>2, <1>3, <1>4, <1>5 DEF TypeOK
<1> QED
  BY <1>1, <1>6 DEF TypeInv, input

\* A kernel comes to the allocator with its types.
LEMMA InitType == Init => TypeInv
<1> SUFFICES ASSUME Init
             PROVE  TypeInv
  OBVIOUS
<1>1. PICK used \in SUBSET VRegs : live \in [used -> Intervals]
  BY DEF Init
<1>2. Used = used /\ live \in [Used -> Intervals]
  BY <1>1 DEF Used
<1>3. kind \in {"ssa", "legacy"}
      /\ groups \in Seq([count : Nat \ {0}, align : Alignments])
  BY LimitAssumption, DeclarationAssumption DEF Init
<1>4. groupBase \in [DOMAIN groups -> 0..U8] /\ reg \in [Used -> Nat]
  BY LimitAssumption DEF Init, Unmapped
<1>5. high \in 1..Bound /\ total \in 0..Bound
  BY BoundType DEF Init
<1> QED
  BY <1>2, <1>3, <1>4, <1>5 DEF Init, TypeInv, TypeOK

\* Of a group, an end of its interval is the end of one of its registers.
LEMMA EndsLemma ==
  ASSUME TypeInv, NEW g \in DOMAIN groups
  PROVE  /\ Members(g) \subseteq Used
         /\ FirstOf(g) \subseteq Members(g) /\ LastOf(g) \subseteq Members(g)
         /\ \A u \in FirstOf(g), v \in Members(g) : live[u].def <= live[v].def
         /\ \A u \in LastOf(g), v \in Members(g) : live[v].last <= live[u].last
         /\ \A v \in Members(g) : v[1] = g
BY DEF Members, FirstOf, LastOf

\* Placing a group keeps the types.
LEMMA PlacedType ==
  ASSUME TypeInv, NEW S \in SUBSET Used, NEW g \in DOMAIN groups,
         NEW now \in Int, NEW last \in 1..Horizon, NEW owner \in VRegs,
         NEW base \in 0..(U8 - 1), PlacedAt(S, g, now, last, owner, base),
         kind = "ssa" => owner \in Used
  PROVE  TypeInv'
<1> DEFINE e == EntryAt(g, last, owner, base)
<1>0. U8 \in Nat
  BY LimitAssumption
<1>1. active' = Kept(now) \cup {e} /\ Kept(now) \subseteq active
  BY PoolLemma DEF PlacedAt
<1>2. e \in Entry /\ e.start + e.count <= U8 /\ e.owner = owner
  BY DEF PlacedAt, EntryAt
<1>3. active' \subseteq Entry
  BY <1>1, <1>2, EntryType
<1>4. \A a \in active' : a.start + a.count <= U8
  BY <1>1, <1>2, EntryType
<1>5. kind = "ssa" => \A a \in active' : a.owner \in Used
  BY <1>1, <1>2 DEF TypeInv
<1>6. groupBase' \in [DOMAIN groups -> 0..U8]
  <2>1. groupBase \in [DOMAIN groups -> 0..U8] /\ base \in 0..U8
    BY <1>0 DEF TypeInv, TypeOK
  <2>2. groupBase' = [groupBase EXCEPT ![g] = base]
    BY DEF PlacedAt
  <2> QED
    BY <2>1, <2>2
<1>7. reg' \in [Used -> Nat]
  <2>1. ASSUME NEW v \in Used
        PROVE  reg[v] \in Nat /\ base + v[2] \in Nat
    <3>1. reg \in [Used -> Nat]
      BY DEF TypeInv, TypeOK
    <3>2. v[2] \in Nat
      BY UsedType
    <3> QED
      BY <3>1, <3>2, <1>0
  <2>2. reg' = [v \in Used |-> IF v \in S THEN base + v[2] ELSE reg[v]]
    BY DEF PlacedAt
  <2> QED
    BY <2>1, <2>2
<1>8. UNCHANGED input /\ todo' \subseteq todo
  BY DEF PlacedAt, input
<1>9. spills' \subseteq Used /\ total' \in 0..Bound
      /\ phase' \in {"running", "done", "panicked"}
  BY DEF PlacedAt, TypeInv, TypeOK
<1>10. Ranges(free') /\ high' \in 1..Bound /\ wrapped' \in BOOLEAN
  BY DEF PlacedAt
<1> QED
  BY <1>3, <1>4, <1>5, <1>6, <1>7, <1>8, <1>9, <1>10, TypeFrame

\* The turn of v is a turn at its definition, and of a group at its first one.
LEMMA SsaPlaced ==
  ASSUME TypeInv, NEW v \in Used, PlaceGroup(v)
  PROVE  \E base \in 0..(U8 - 1) :
           PlacedAt({v}, v[1], live[v].def, live[v].last, v, base)
<1>1. /\ v[1] \in DOMAIN groups /\ v \in VRegs
      /\ groups[v[1]].count \in Nat \ {0} /\ groups[v[1]].align \in Alignments
      /\ live[v].def \in Int /\ live[v].last \in 1..Horizon
  BY UsedType, LimitAssumption
<1>2. Place({v}, v[1], live[v].def, live[v].last, v)
  BY DEF PlaceGroup
<1> QED
  BY <1>1, <1>2, PlaceLemma

\* The legacy allocator places a whole group, at one base.
LEMMA LegacyPlaced ==
  ASSUME TypeInv, NEW g \in DOMAIN groups, LegacyPlace(g)
  PROVE  \E u \in FirstOf(g), w \in LastOf(g), base \in 0..(U8 - 1) :
           PlacedAt(Members(g), g, live[u].def, live[w].last, <<g, 0>>, base)
<1>1. PICK u \in FirstOf(g), w \in LastOf(g) :
        Place(Members(g), g, live[u].def, live[w].last, <<g, 0>>)
  BY DEF LegacyPlace
<1>2. u \in Used /\ w \in Used /\ u[1] = g /\ Members(g) \subseteq Used
  BY EndsLemma
<1>3. /\ groups[g].count \in Nat \ {0} /\ groups[g].align \in Alignments
      /\ live[u].def \in Int /\ live[w].last \in 1..Horizon
  BY <1>2, UsedType, LimitAssumption
<1>4. <<g, 0>> \in VRegs
  <2>1. <<g, 0>> \in {g} \X (0..(groups[g].count - 1))
    BY <1>3
  <2> QED
    BY <2>1 DEF VRegs
<1>5. \E base \in 0..(U8 - 1) :
        PlacedAt(Members(g), g, live[u].def, live[w].last, <<g, 0>>, base)
  BY <1>1, <1>2, <1>3, <1>4, PlaceLemma
<1> QED
  BY <1>5

\* A later member of a placed group keeps the types.
LEMMA JoinType ==
  ASSUME TypeInv, NEW v \in Used, JoinGroup(v)
  PROVE  TypeInv'
<1>1. /\ todo' = todo \ {v}
      /\ reg' = [reg EXCEPT ![v] = groupBase[v[1]] + v[2]]
      /\ active' = Kept(live[v].def) /\ free' = Pool(live[v].def)
      /\ UNCHANGED <<input, high, groupBase, spills, total, phase, wrapped>>
  BY DEF JoinGroup
<1>2. live[v].def \in Int /\ v[1] \in DOMAIN groups /\ v[2] \in Nat
  BY UsedType, LimitAssumption
<1>3. Ranges(free') /\ active' \subseteq active
  BY <1>1, <1>2, PoolLemma
<1>4. reg' \in [Used -> Nat]
  <2>1. reg \in [Used -> Nat] /\ groupBase[v[1]] \in Nat
    BY <1>2, LimitAssumption DEF TypeInv, TypeOK
  <2> QED
    BY <2>1, <1>1, <1>2
<1>5. /\ active' \subseteq Entry /\ \A a \in active' : a.start + a.count <= U8
      /\ kind = "ssa" => \A a \in active' : a.owner \in Used
  BY <1>3, EntryType DEF TypeInv
<1>6. /\ high' \in 1..Bound /\ groupBase' \in [DOMAIN groups -> 0..U8]
      /\ spills' \subseteq Used /\ total' \in 0..Bound
      /\ phase' \in {"running", "done", "panicked"} /\ wrapped' \in BOOLEAN
  BY <1>1 DEF TypeInv, TypeOK
<1> QED
  BY <1>1, <1>3, <1>4, <1>5, <1>6, TypeFrame

\* A spill keeps the types, though it hands a register over by itself.
LEMMA SpillType ==
  ASSUME TypeInv, NEW v \in Used, SpillFor(v)
  PROVE  TypeInv'
<1> DEFINE now == live[v].def
<1>1. PICK a \in Scalars(now) :
        IF a.last > live[v].last
        THEN /\ spills' = spills \cup {a.owner}
             /\ reg' = [reg EXCEPT ![v] = a.start]
             /\ active' = (Kept(now) \ {a}) \cup
                            {[start |-> a.start, count |-> 1,
                              last |-> live[v].last, owner |-> v]}
        ELSE /\ spills' = spills \cup {v}
             /\ reg' = [reg EXCEPT ![v] = 0]
             /\ active' = Kept(now)
  BY DEF SpillFor
<1>2. /\ todo' = todo \ {v} /\ free' = Pool(now)
      /\ UNCHANGED <<input, high, groupBase, total, phase, wrapped>>
      /\ kind = "ssa"
  BY DEF SpillFor, SsaTurn
<1>3. now \in Int /\ live[v].last \in 1..Horizon /\ v \in VRegs
  BY UsedType, LimitAssumption
<1>4. Ranges(free') /\ Kept(now) \subseteq active
  BY <1>2, <1>3, PoolLemma
<1>5. /\ a \in active /\ a \in Entry /\ a.start \in Nat /\ a.owner \in Used
      /\ a.start + 1 <= U8
  <2>1. a \in active /\ a.count = 1
    BY <1>4 DEF Scalars
  <2>2. a.owner \in Used
    BY <2>1, <1>2 DEF TypeInv
  <2> QED
    BY <2>1, <2>2, EntryType
<1> DEFINE e == [start |-> a.start, count |-> 1, last |-> live[v].last,
                 owner |-> v]
<1>6. e \in Entry /\ e.start + e.count <= U8 /\ e.owner \in Used
  BY <1>3, <1>5 DEF Entry
<1> HIDE DEF e, now
<1>7. active' \subseteq Kept(now) \cup {e}
  BY <1>1 DEF e
<1>8. /\ active' \subseteq Entry /\ \A b \in active' : b.start + b.count <= U8
      /\ \A b \in active' : b.owner \in Used
  <2>1. \A b \in active : b.owner \in Used
    BY <1>2 DEF TypeInv
  <2>2. \A b \in active' : b \in active \/ b = e
    BY <1>4, <1>7
  <2> QED
    BY <2>1, <2>2, <1>6, EntryType
<1>9. reg' \in [Used -> Nat] /\ spills' \subseteq Used
  <2>1. reg \in [Used -> Nat] /\ spills \subseteq Used
    BY DEF TypeInv, TypeOK
  <2>2. CASE a.last > live[v].last
    BY <2>1, <2>2, <1>1, <1>5
  <2>3. CASE ~(a.last > live[v].last)
    BY <2>1, <2>3, <1>1, <1>5
  <2> QED
    BY <2>2, <2>3
<1>10. /\ high' \in 1..Bound /\ groupBase' \in [DOMAIN groups -> 0..U8]
       /\ total' \in 0..Bound
       /\ phase' \in {"running", "done", "panicked"} /\ wrapped' \in BOOLEAN
  BY <1>2 DEF TypeInv, TypeOK
<1> QED
  BY <1>2, <1>4, <1>8, <1>9, <1>10, TypeFrame

\* The last steps change the phase, and the declared number of registers.
LEMMA EndType ==
  ASSUME TypeInv, Panic \/ Finish
  PROVE  TypeInv'
<1>1. UNCHANGED <<input, todo, free, high, active, groupBase, reg, spills, wrapped>>
  BY DEF Panic, Finish
<1>2. phase' \in {"running", "done", "panicked"} /\ total' \in 0..Bound
  <2>1. CASE Panic
    BY <2>1 DEF Panic, TypeInv, TypeOK
  <2>2. CASE Finish
    <3>1. DeclaredVgprs \in 0..Bound
      <4>1. /\ high \in Nat /\ high <= Bound /\ Limit \in Nat
            /\ kind \in {"ssa", "legacy"}
        BY LimitAssumption, EntryType DEF TypeInv
      <4>2. CASE kind = "legacy"
        BY <4>1, <4>2 DEF DeclaredVgprs
      <4>3. CASE kind = "ssa"
        <5>1. DeclaredVgprs \in {high, high + 1, Limit} /\ DeclaredVgprs <= Limit
          <6>1. (IF dead THEN high + 1 ELSE high) \in {high, high + 1}
            OBVIOUS
          <6> QED
            BY <4>1, <4>3, <6>1 DEF DeclaredVgprs, Fallback
        <5> QED
          BY <4>1, <4>3, <5>1 DEF Bound
      <4> QED
        BY <4>1, <4>2, <4>3
    <3> QED
      BY <2>2, <3>1 DEF Finish
  <2> QED
    BY <2>1, <2>2
<1>3. Ranges(free) /\ active \subseteq Entry
      /\ \A a \in active : a.start + a.count <= U8
  BY EntryType
<1> QED
  BY <1>1, <1>2, <1>3, TypeFrame DEF TypeInv, TypeOK

\* Every step of either allocator keeps the types.
LEMMA TypeStep == TypeInv /\ [Next]_vars => TypeInv'
<1> SUFFICES ASSUME TypeInv, [Next]_vars
             PROVE  TypeInv'
  OBVIOUS
<1>1. ASSUME NEW v \in Used, JoinGroup(v)
      PROVE  TypeInv'
  BY <1>1, JoinType
<1>2. ASSUME NEW v \in Used, PlaceGroup(v)
      PROVE  TypeInv'
  <2>1. PICK base \in 0..(U8 - 1) :
          PlacedAt({v}, v[1], live[v].def, live[v].last, v, base)
    BY <1>2, SsaPlaced
  <2>2. /\ v[1] \in DOMAIN groups /\ v \in VRegs /\ {v} \in SUBSET Used
        /\ live[v].def \in Int /\ live[v].last \in 1..Horizon
    BY UsedType, LimitAssumption
  <2> QED
    BY <2>1, <2>2, PlacedType
<1>3. ASSUME NEW v \in Used, SpillFor(v)
      PROVE  TypeInv'
  BY <1>3, SpillType
<1>4. ASSUME NEW v \in Used, SsaPanics(v)
      PROVE  TypeInv'
  BY <1>4, EndType DEF SsaPanics
<1>5. ASSUME NEW g \in DOMAIN groups, LegacyPlace(g)
      PROVE  TypeInv'
  <2>1. PICK u \in FirstOf(g), w \in LastOf(g), base \in 0..(U8 - 1) :
          PlacedAt(Members(g), g, live[u].def, live[w].last, <<g, 0>>, base)
    BY <1>5, LegacyPlaced
  <2>2. u \in Used /\ w \in Used /\ Members(g) \in SUBSET Used
    BY EndsLemma
  <2>3. live[u].def \in Int /\ live[w].last \in 1..Horizon
    BY <2>2, UsedType, LimitAssumption
  <2>4. <<g, 0>> \in VRegs
    <3>1. groups[g].count \in Nat \ {0}
      BY <2>2, UsedType, EndsLemma
    <3>2. <<g, 0>> \in {g} \X (0..(groups[g].count - 1))
      BY <3>1
    <3> QED
      BY <3>2 DEF VRegs
  <2>5. kind # "ssa"
    BY <1>5 DEF LegacyPlace, LegacyTurn
  <2> QED
    BY <2>1, <2>2, <2>3, <2>4, <2>5, PlacedType
<1>6. ASSUME NEW g \in DOMAIN groups, LegacyPanics(g)
      PROVE  TypeInv'
  BY <1>6, EndType DEF LegacyPanics
<1>7. CASE Finish
  BY <1>7, EndType
<1>8. CASE UNCHANGED vars
  <2>1. Ranges(free) /\ active \subseteq Entry
        /\ \A a \in active : a.start + a.count <= U8
    BY EntryType
  <2> QED
    BY <1>8, <2>1, TypeFrame DEF vars, input, TypeInv, TypeOK
<1> QED
  BY <1>1, <1>2, <1>3, <1>4, <1>5, <1>6, <1>7, <1>8
     DEF Next, Step, LegacyStep

(* Whatever the kernel, the register file and the liveness, the allocators *)
(* keep every range within the u8 numbers and the high-water mark and the  *)
(* declared number of registers within the limit (ssa_regalloc.rs:183-290, *)
(* regalloc.rs:164-300).                                                   *)
THEOREM TypeCorrect == Spec => []TypeOK
<1>1. TypeInv => TypeOK
  BY DEF TypeInv
<1> QED
  BY InitType, TypeStep, <1>1, PTL DEF Spec

-----------------------------------------------------------------------------
(* The invariant behind the safety of the allocation.                      *)

\* The registers whose turn has come are in the place of their groups.
Maps ==
  /\ \A v \in Used \ todo : GroupPlaced(v[1]) /\ reg[v] = groupBase[v[1]] + v[2]
  /\ \A v \in todo : reg[v] = Unmapped

\* A group is placed at its alignment, above register 0 and below high.
PlacedRight ==
  \A g \in DOMAIN groups : GroupPlaced(g) =>
    /\ groupBase[g] >= 1 /\ groupBase[g] + groups[g].count <= high
    /\ groupBase[g] % groups[g].align = 0

\* A range stays in use until the register that placed it was used for the
\* last time: after that, everything to come is defined later.
SsaHeld ==
  kind = "ssa" => \A g \in DOMAIN groups : GroupPlaced(g) =>
    \E u \in FirstOf(g) :
      \/ EntryAt(g, live[u].last, u, groupBase[g]) \in active
      \/ \A w \in todo : live[u].last < live[w].def

\* The groups get their turns in the order of their declarations.
LegacyOrder ==
  kind = "legacy" => \A g \in DOMAIN groups : GroupPlaced(g) =>
    \A v \in todo : g < v[1]

\* A range stays in use until a group has its turn that is defined later.
LegacyHeld ==
  kind = "legacy" => \A g \in DOMAIN groups : GroupPlaced(g) =>
    \E w \in LastOf(g) :
      \/ EntryAt(g, live[w].last, <<g, 0>>, groupBase[g]) \in active
      \/ \E h \in DOMAIN groups :
           /\ GroupPlaced(h) /\ Members(h) # {}
           /\ \A u \in Members(h) : live[w].last < live[u].def

NoClash ==
  \A v, w \in Used \ todo : Trusted(v) /\ Trusted(w) => ~Clash(v, w)

Declared ==
  /\ dead => kind = "ssa"
  /\ phase = "done" => /\ high <= total
                       /\ dead /\ high < Limit => total = high + 1
                       /\ dead /\ high = Limit => total = high

Safe ==
  /\ Maps /\ PlacedRight /\ SsaHeld /\ LegacyOrder /\ LegacyHeld /\ NoClash
  /\ Declared
  /\ Clean(free, active, high)

Inv == TypeInv /\ (Undisturbed => Safe)

\* The input decides which groups are trusted and which values overlap.
LEMMA InputFrame ==
  ASSUME UNCHANGED input
  PROVE  /\ Used' = Used /\ VRegs' = VRegs
         /\ \A g \in DOMAIN groups : /\ Members(g)' = Members(g)
                                     /\ FirstOf(g)' = FirstOf(g)
                                     /\ LastOf(g)' = LastOf(g)
         /\ \A v \in Used : Trusted(v)' <=> Trusted(v)
         /\ \A v, w \in Used : Overlap(v, w)' <=> Overlap(v, w)
<1>0. kind' = kind /\ groups' = groups /\ live' = live
  BY DEF input
<1>1. Used' = Used /\ VRegs' = VRegs
  BY <1>0 DEF Used, VRegs
<1>2. \A g : Members(g)' = Members(g)
  BY <1>1 DEF Members
<1>3. \A g : FirstOf(g)' = FirstOf(g) /\ LastOf(g)' = LastOf(g)
  BY <1>0, <1>2 DEF FirstOf, LastOf
<1>4. \A g : Led(g)' <=> Led(g)
  BY <1>3 DEF Led
<1>5. \A g : InOrder(g)' <=> InOrder(g)
  BY <1>0, <1>1, <1>2 DEF InOrder
<1>6. \A v \in Used : Trusted(v)' <=> Trusted(v)
  BY <1>0, <1>4, <1>5 DEF Trusted
<1>7. \A v, w \in Used : Overlap(v, w)' <=> Overlap(v, w)
  BY <1>0 DEF Overlap
<1> QED
  BY <1>1, <1>2, <1>3, <1>6, <1>7

\* The range of w's group is in use where a register of another turn begins.
InUse(w, now) ==
  \E a \in Kept(now) : /\ a.start = groupBase[w[1]]
                       /\ a.count = groups[w[1]].count
                       /\ a.owner[1] = w[1]

\* ssa: a placed group still alive at the next turn holds its registers.
LEMMA SsaInUse ==
  ASSUME TypeInv, Safe, kind = "ssa", NEW v \in todo, NEW w \in Used,
         GroupPlaced(w[1]), Led(w[1]), live[v].def <= live[w].last
  PROVE  InUse(w, live[v].def)
<1>1. w[1] \in DOMAIN groups /\ w \in Members(w[1]) /\ v \in Used
  BY UsedType DEF Members, TypeInv, TypeOK
<1>2. PICK u \in FirstOf(w[1]) :
        \/ EntryAt(w[1], live[u].last, u, groupBase[w[1]]) \in active
        \/ \A x \in todo : live[u].last < live[x].def
  BY <1>1 DEF Safe, SsaHeld
<1>3. u \in LastOf(w[1]) /\ u[1] = w[1] /\ u \in Used
  BY <1>1, EndsLemma DEF Led
<1>4. live[w].last <= live[u].last
  BY <1>1, <1>3, EndsLemma
<1>5. /\ live[u].last \in Int /\ live[v].def \in Int /\ live[w].last \in Int
  BY <1>1, <1>3, UsedType, LimitAssumption
<1>6. live[v].def <= live[u].last
  BY <1>4, <1>5
<1> DEFINE a == EntryAt(w[1], live[u].last, u, groupBase[w[1]])
<1>7. a \in active
  BY <1>2, <1>5, <1>6
<1>8. /\ a.start = groupBase[w[1]] /\ a.count = groups[w[1]].count
      /\ a.owner = u /\ a.last = live[u].last
  BY DEF EntryAt
<1> HIDE DEF a
<1>9. a \in Kept(live[v].def)
  BY <1>5, <1>6, <1>7, <1>8 DEF Kept
<1> QED
  BY <1>3, <1>8, <1>9 DEF InUse

\* legacy: a placed group still alive at the next turn holds its registers.
LEMMA LegacyInUse ==
  ASSUME TypeInv, Safe, NEW g \in DOMAIN groups, LegacyTurn(g),
         NEW u \in FirstOf(g), NEW v \in Members(g), InOrder(g),
         NEW w \in Used, GroupPlaced(w[1]), live[v].def <= live[w].last
  PROVE  InUse(w, live[u].def)
<1>0. /\ kind = "legacy" /\ \E x \in todo : x[1] = g
  BY DEF LegacyTurn
<1>1. w[1] \in DOMAIN groups /\ w \in Members(w[1])
  BY UsedType DEF Members
<1>2. PICK l \in LastOf(w[1]) :
        \/ EntryAt(w[1], live[l].last, <<w[1], 0>>, groupBase[w[1]]) \in active
        \/ \E h \in DOMAIN groups :
             /\ GroupPlaced(h) /\ Members(h) # {}
             /\ \A x \in Members(h) : live[l].last < live[x].def
  BY <1>0, <1>1 DEF Safe, LegacyHeld
<1>3. /\ u \in Used /\ v \in Used /\ l \in Used
      /\ live[u].def <= live[v].def /\ live[w].last <= live[l].last
  BY <1>1, EndsLemma
<1>4. /\ live[u].def \in Int /\ live[v].def \in Int /\ live[w].last \in Int
      /\ live[l].last \in Int
  BY <1>3, UsedType, LimitAssumption
<1>5. live[v].def <= live[l].last /\ live[u].def <= live[l].last
  BY <1>3, <1>4
<1>6. ASSUME NEW h \in DOMAIN groups, GroupPlaced(h), Members(h) # {},
             \A x \in Members(h) : live[l].last < live[x].def
      PROVE  FALSE
  <2>1. h < g
    BY <1>0, <1>6 DEF Safe, LegacyOrder
  <2>2. PICK x \in Members(h) : TRUE
    BY <1>6
  <2>3. x \in Used /\ x[1] = h
    BY <2>2, EndsLemma
  <2>4. PICK y \in Members(h) : live[y].def <= live[v].def
    BY <2>1, <2>3 DEF InOrder
  <2>5. y \in Used /\ live[y].def \in Int
    BY <2>4, EndsLemma, UsedType, LimitAssumption
  <2>6. live[l].last < live[y].def
    BY <2>4, <1>6
  <2> QED
    BY <2>4, <2>5, <2>6, <1>4, <1>5
<1> DEFINE a == EntryAt(w[1], live[l].last, <<w[1], 0>>, groupBase[w[1]])
<1>7. a \in active
  BY <1>2, <1>6
<1>8. /\ a.start = groupBase[w[1]] /\ a.count = groups[w[1]].count
      /\ a.owner = <<w[1], 0>> /\ a.last = live[l].last
  BY DEF EntryAt
<1>9. a.owner[1] = w[1]
  BY <1>8
<1> HIDE DEF a
<1>10. a \in Kept(live[u].def)
  BY <1>4, <1>5, <1>7, <1>8 DEF Kept
<1> QED
  BY <1>8, <1>9, <1>10 DEF InUse

\* Placing the registers S of a new group keeps what holds of all registers.
LEMMA PlacedSafe ==
  ASSUME TypeInv, Safe, NEW g \in DOMAIN groups, NEW S \in SUBSET Members(g),
         NEW now \in Int, NEW last \in 1..Horizon, NEW owner \in VRegs,
         NEW base \in 0..(U8 - 1), PlacedAt(S, g, now, last, owner, base),
         ~wrapped', ~GroupPlaced(g), owner[1] = g, S \subseteq todo,
         \A v \in S : \A w \in Used \ todo :
           Trusted(v) /\ Trusted(w) /\ Overlap(v, w) => InUse(w, now)
  PROVE  Maps' /\ PlacedRight' /\ NoClash' /\ Clean(free', active', high')
<1> DEFINE e == EntryAt(g, last, owner, base)
<1>0. /\ UNCHANGED input /\ todo' = todo \ S
      /\ reg' = [v \in Used |-> IF v \in S THEN base + v[2] ELSE reg[v]]
      /\ groupBase' = [groupBase EXCEPT ![g] = base]
      /\ active' = Kept(now) \cup {e}
      /\ high <= high'
  BY DEF PlacedAt, input
<1>1. /\ Used' = Used /\ groups' = groups
      /\ \A v \in Used : Trusted(v)' <=> Trusted(v)
      /\ \A v, w \in Used : Overlap(v, w)' <=> Overlap(v, w)
  BY <1>0, InputFrame DEF input
<1>2. U8 \in Nat /\ groups[g].count \in Nat /\ high \in Int /\ high' \in Int
  <2>1. groups[g].count \in Nat
    BY DEF PlacedAt, EntryAt, Entry
  <2>2. high \in Int /\ high' \in Int
    BY EntryType, BoundType DEF PlacedAt
  <2> QED
    BY <2>1, <2>2, LimitAssumption
<1>3. groupBase \in [DOMAIN groups -> 0..U8] /\ todo \subseteq Used
      /\ reg \in [Used -> Nat]
  BY DEF TypeInv, TypeOK
<1>4. /\ groupBase'[g] = base
      /\ \A h \in DOMAIN groups : h # g => groupBase'[h] = groupBase[h]
  BY <1>0, <1>3
<1>5. \A v \in S : v \in Used /\ v[1] = g
  BY EndsLemma
<1>6. \A v \in Used \ todo : v[1] # g /\ v[1] \in DOMAIN groups
  BY UsedType DEF Safe, Maps
<1>7. Clean(free', active', high')
  <2>1. Clean(Pool(now), Kept(now), high)
    BY PoolLemma DEF Safe
  <2> QED
    BY <2>1 DEF PlacedAt
<1>8. e.start = base /\ e.count = groups[g].count /\ e.owner = owner /\ e \in active'
  BY <1>0 DEF EntryAt
<1> HIDE DEF e
<1>9. base >= 1 /\ base + groups[g].count <= high'
  BY <1>7, <1>8 DEF Clean
<1>10. Maps'
  <2>1. ASSUME NEW v \in S
        PROVE  groupBase'[v[1]] # U8 /\ reg'[v] = groupBase'[v[1]] + v[2]
    BY <1>0, <1>2, <1>4, <1>5
  <2>2. ASSUME NEW v \in Used \ todo
        PROVE  groupBase'[v[1]] # U8 /\ reg'[v] = groupBase'[v[1]] + v[2]
    <3>1. groupBase[v[1]] # U8 /\ reg[v] = groupBase[v[1]] + v[2]
      BY DEF Safe, Maps, GroupPlaced, Unmapped
    <3>2. v \notin S
      BY <1>6, <1>5
    <3> QED
      BY <3>1, <3>2, <1>0, <1>4, <1>6
  <2>3. \A v \in todo' : reg'[v] = U8
    BY <1>0, <1>3 DEF Safe, Maps, Unmapped
  <2>4. Used' \ todo' = (Used \ todo) \cup S
    BY <1>0, <1>1, <1>5
  <2> QED
    BY <2>1, <2>2, <2>3, <2>4 DEF Maps, GroupPlaced, Unmapped
<1>11. PlacedRight'
  <2> SUFFICES ASSUME NEW h \in DOMAIN groups, groupBase'[h] # U8
               PROVE  /\ groupBase'[h] >= 1
                      /\ groupBase'[h] + groups[h].count <= high'
                      /\ groupBase'[h] % groups[h].align = 0
    BY <1>1 DEF PlacedRight, GroupPlaced, Unmapped
  <2>1. CASE h = g
    BY <2>1, <1>4, <1>9 DEF PlacedAt
  <2>2. CASE h # g
    <3>1. /\ groupBase[h] >= 1 /\ groupBase[h] + groups[h].count <= high
          /\ groupBase[h] % groups[h].align = 0
      BY <2>2, <1>4 DEF Safe, PlacedRight, GroupPlaced, Unmapped
    <3>2. groups[h].count \in Int /\ groupBase[h] \in Int
      <4>1. ASSUME NEW G, groups \in Seq(G)
            PROVE  groups[h] \in G
        BY <4>1
      <4>2. groups[h] \in [count : Nat \ {0}, align : Alignments]
        BY <4>1 DEF TypeInv
      <4> QED
        BY <4>2, <1>2, <1>3
    <3> QED
      BY <2>2, <3>1, <3>2, <1>0, <1>2, <1>4
  <2> QED
    BY <2>1, <2>2
<1>12. ASSUME NEW v \in S, NEW w \in Used \ todo,
              Trusted(v), Trusted(w), Overlap(v, w)
       PROVE  reg'[v] # reg'[w]
  <2>1. PICK a \in Kept(now) : /\ a.start = groupBase[w[1]]
                               /\ a.count = groups[w[1]].count
                               /\ a.owner[1] = w[1]
    BY <1>12 DEF InUse
  <2>2. a # e /\ a \in active'
    BY <2>1, <1>0, <1>6, <1>8
  <2>3. Apart(a, e)
    BY <2>2, <1>7, <1>8 DEF Clean
  <2>4. reg'[v] = base + v[2] /\ v[2] \in 0..(groups[g].count - 1)
    BY <1>0, <1>5, UsedType
  <2>5. reg'[w] = groupBase[w[1]] + w[2] /\ w[2] \in 0..(groups[w[1]].count - 1)
    BY <1>0, <1>5, <1>6, UsedType DEF Safe, Maps
  <2>6. groupBase[w[1]] \in Nat /\ groups[w[1]].count \in Nat
    BY <1>2, <1>3, <1>6, UsedType
  <2> HIDE DEF e
  <2> QED
    BY <2>1, <2>3, <2>4, <2>5, <2>6, <1>2, <1>8 DEF Apart
<1>13. NoClash'
  <2> SUFFICES ASSUME NEW v \in Used \ todo', NEW w \in Used \ todo', v # w,
                      Trusted(v), Trusted(w), Overlap(v, w)
               PROVE  reg'[v] # reg'[w]
    BY <1>1 DEF NoClash, Clash
  <2>0. Overlap(w, v)
    BY DEF Overlap
  <2>1. CASE v \in S /\ w \in S
    <3>1. /\ reg'[v] = base + v[2] /\ reg'[w] = base + w[2]
          /\ v[1] = g /\ w[1] = g
      BY <2>1, <1>0, <1>5
    <3>2. /\ v = <<v[1], v[2]>> /\ w = <<w[1], w[2]>>
          /\ v[2] \in Int /\ w[2] \in Int
      BY UsedType
    <3> QED
      BY <3>1, <3>2
  <2>2. CASE v \in S /\ w \notin S
    BY <2>2, <1>0, <1>12
  <2>3. CASE v \notin S /\ w \in S
    BY <2>0, <2>3, <1>0, <1>12
  <2>4. CASE v \notin S /\ w \notin S
    <3>1. v \in Used \ todo /\ w \in Used \ todo
      BY <2>4, <1>0
    <3>2. reg[v] # reg[w]
      BY <3>1 DEF Safe, NoClash, Clash
    <3> QED
      BY <2>4, <3>2, <1>0
  <2> QED
    BY <2>1, <2>2, <2>3, <2>4
<1> QED
  BY <1>7, <1>10, <1>11, <1>13

\* Before the first turn nothing is placed.
LEMMA InitSafe == Init => Safe
<1> SUFFICES ASSUME Init
             PROVE  Safe
  OBVIOUS
<1>1. /\ todo = Used /\ free = {} /\ active = {} /\ phase = "running"
      /\ \A g \in DOMAIN groups : ~GroupPlaced(g)
      /\ \A v \in Used : reg[v] = Unmapped
      /\ dead => kind = "ssa"
  BY DEF Init, GroupPlaced
<1> QED
  BY <1>1 DEF Safe, Maps, PlacedRight, SsaHeld, LegacyOrder, LegacyHeld,
              NoClash, Declared, Clean

\* The first member of a group takes a range nobody alive has.
LEMMA PlaceGroupSafe ==
  ASSUME TypeInv, Safe, NEW v \in Used, PlaceGroup(v), ~wrapped'
  PROVE  Safe'
<1> DEFINE g == v[1]
           now == live[v].def
           last == live[v].last
<1>0. /\ kind = "ssa" /\ v \in todo /\ ~GroupPlaced(g) /\ phase = "running"
      /\ \A w \in todo : live[v].def <= live[w].def
  BY DEF PlaceGroup, SsaTurn
<1>1. PICK base \in 0..(U8 - 1) : PlacedAt({v}, g, now, last, v, base)
  BY SsaPlaced
<1>2. g \in DOMAIN groups /\ v \in Members(g) /\ v \in VRegs
      /\ now \in Int /\ last \in 1..Horizon
  BY UsedType, LimitAssumption DEF Members
<1>3. /\ UNCHANGED input /\ todo' = todo \ {v} /\ phase' = phase
      /\ groupBase' = [groupBase EXCEPT ![g] = base]
      /\ active' = Kept(now) \cup {EntryAt(g, last, v, base)}
  BY <1>1 DEF PlacedAt, input
<1>4. /\ \A h \in DOMAIN groups : FirstOf(h)' = FirstOf(h)
      /\ groups' = groups /\ live' = live /\ kind' = kind
  BY <1>3, InputFrame DEF input
<1>5. /\ groupBase'[g] = base
      /\ \A h \in DOMAIN groups : h # g => groupBase'[h] = groupBase[h]
  BY <1>2, <1>3 DEF TypeInv, TypeOK
<1>6. ASSUME NEW w \in Used \ todo, Trusted(v), Trusted(w), Overlap(v, w)
      PROVE  InUse(w, now)
  BY <1>0, <1>6, SsaInUse DEF Safe, Maps, Trusted, Overlap
<1>7. Maps' /\ PlacedRight' /\ NoClash' /\ Clean(free', active', high')
  <2> HIDE DEF g, now, last
  <2>1. {v} \in SUBSET Members(g) /\ {v} \subseteq todo /\ v[1] = g
    BY <1>0, <1>2 DEF g
  <2> QED
    BY <2>1, <1>0, <1>1, <1>2, <1>6, PlacedSafe
<1>8. SsaHeld'
  <2> SUFFICES ASSUME NEW h \in DOMAIN groups, groupBase'[h] # U8
               PROVE  \E u \in FirstOf(h) :
                        \/ EntryAt(h, live[u].last, u, groupBase'[h]) \in active'
                        \/ \A w \in todo' : live[u].last < live[w].def
    BY <1>4 DEF SsaHeld, GroupPlaced, Unmapped, EntryAt
  <2>1. CASE h = g
    <3>1. Members(g) \subseteq todo
      BY <1>0, EndsLemma, <1>2 DEF Safe, Maps
    <3>2. v \in FirstOf(g)
      BY <3>1, <1>0, <1>2 DEF FirstOf
    <3> QED
      BY <2>1, <3>2, <1>3, <1>5
  <2>2. CASE h # g
    <3>1. PICK u \in FirstOf(h) :
            \/ EntryAt(h, live[u].last, u, groupBase[h]) \in active
            \/ \A w \in todo : live[u].last < live[w].def
      BY <2>2, <1>0, <1>5 DEF Safe, SsaHeld, GroupPlaced, Unmapped
    <3>2. u \in Used
      BY EndsLemma
    <3> DEFINE a == EntryAt(h, live[u].last, u, groupBase[h])
    <3>3. a.last = live[u].last
      BY DEF EntryAt
    <3> HIDE DEF a
    <3>4. CASE \A w \in todo : live[u].last < live[w].def
      BY <3>4, <1>3
    <3>5. CASE a \in active /\ live[u].last >= now
      <4>1. a \in active'
        BY <3>3, <3>5, <1>3 DEF Kept
      <4> QED
        BY <4>1, <2>2, <1>5 DEF a
    <3>6. CASE live[u].last < now
      <4>1. ASSUME NEW w \in todo
            PROVE  live[u].last < live[w].def
        <5>1. w \in Used /\ live[w].def \in Int /\ live[u].last \in Int
          <6>1. w \in Used
            BY DEF TypeInv, TypeOK
          <6> QED
            BY <6>1, <3>2, UsedType, LimitAssumption
        <5> QED
          BY <5>1, <3>6, <1>0, <1>2
      <4> QED
        BY <4>1, <1>3
    <3>7. live[u].last \in Int
      BY <3>2, UsedType, LimitAssumption
    <3> QED
      BY <3>1, <3>4, <3>5, <3>6, <3>7, <1>2 DEF a
  <2> QED
    BY <2>1, <2>2
<1>9. kind' # "legacy" /\ Declared'
  BY <1>0, <1>3, <1>4 DEF Safe, Declared, input
<1> QED
  BY <1>7, <1>8, <1>9 DEF Safe, LegacyOrder, LegacyHeld

\* A group of the legacy allocator takes a range nobody alive has.
LEMMA LegacyPlaceSafe ==
  ASSUME TypeInv, Safe, NEW g \in DOMAIN groups, LegacyPlace(g), ~wrapped'
  PROVE  Safe'
<1>0. /\ kind = "legacy" /\ phase = "running" /\ LegacyTurn(g)
      /\ \E x \in todo : x[1] = g
      /\ \A x \in todo : g <= x[1]
  BY DEF LegacyPlace, LegacyTurn
<1>1. PICK u \in FirstOf(g), l \in LastOf(g), base \in 0..(U8 - 1) :
        PlacedAt(Members(g), g, live[u].def, live[l].last, <<g, 0>>, base)
  BY LegacyPlaced
<1> DEFINE now == live[u].def
           last == live[l].last
<1>2. /\ u \in Used /\ l \in Used /\ Members(g) \subseteq Used /\ u \in Members(g)
      /\ \A x \in Members(g) : now <= live[x].def /\ x[1] = g
  BY EndsLemma
<1>3. now \in Int /\ last \in 1..Horizon
  BY <1>2, UsedType, LimitAssumption
<1>4. ~GroupPlaced(g) /\ <<g, 0>> \in VRegs /\ g \in Int
  <2>1. g \in Int
    BY DEF TypeInv
  <2>2. ~GroupPlaced(g)
    <3>1. PICK x \in todo : x[1] = g
      BY <1>0
    <3>2. GroupPlaced(g) => g < g
      BY <3>1, <1>0 DEF Safe, LegacyOrder
    <3> QED
      BY <2>1, <3>2
  <2>3. groups[g].count \in Nat \ {0}
    BY <1>2, UsedType
  <2>4. <<g, 0>> \in {g} \X (0..(groups[g].count - 1))
    BY <2>3
  <2> QED
    BY <2>1, <2>2, <2>4 DEF VRegs
<1>5. /\ UNCHANGED input /\ todo' = todo \ Members(g) /\ phase' = phase
      /\ groupBase' = [groupBase EXCEPT ![g] = base]
      /\ active' = Kept(now) \cup {EntryAt(g, last, <<g, 0>>, base)}
  BY <1>1 DEF PlacedAt, input
<1>6. /\ \A h \in DOMAIN groups : /\ LastOf(h)' = LastOf(h)
                                  /\ Members(h)' = Members(h)
      /\ groups' = groups /\ live' = live /\ kind' = kind
  BY <1>5, InputFrame DEF input
<1>7. /\ groupBase'[g] = base
      /\ \A h \in DOMAIN groups : h # g => groupBase'[h] = groupBase[h]
  BY <1>5 DEF TypeInv, TypeOK
<1>8. base # U8 /\ groupBase'[g] # U8
  BY <1>7, LimitAssumption
<1>9. Members(g) \subseteq todo
  <2>1. \A x \in Members(g) : x \in Used /\ x[1] = g
    BY <1>2
  <2> QED
    BY <2>1, <1>4 DEF Safe, Maps
<1>10. ASSUME NEW v \in Members(g), NEW w \in Used \ todo,
              Trusted(v), Trusted(w), Overlap(v, w)
       PROVE  InUse(w, now)
  <2>1. GroupPlaced(w[1]) /\ live[v].def <= live[w].last
    BY <1>10 DEF Safe, Maps, Overlap
  <2>2. InOrder(g)
    BY <1>0, <1>2, <1>10 DEF Trusted
  <2> QED
    BY <2>1, <2>2, <1>0, LegacyInUse
<1>11. Maps' /\ PlacedRight' /\ NoClash' /\ Clean(free', active', high')
  <2> HIDE DEF now, last
  <2>1. <<g, 0>>[1] = g /\ Members(g) \in SUBSET Members(g)
    OBVIOUS
  <2>2. PlacedAt(Members(g), g, now, last, <<g, 0>>, base)
    BY <1>1 DEF now, last
  <2> QED
    BY <2>1, <2>2, <1>3, <1>4, <1>9, <1>10, PlacedSafe
<1>12. LegacyOrder'
  <2> SUFFICES ASSUME NEW h \in DOMAIN groups, groupBase'[h] # U8,
                      NEW x \in todo'
               PROVE  h < x[1]
    BY <1>6 DEF LegacyOrder, GroupPlaced, Unmapped
  <2>1. x \in todo /\ x \notin Members(g)
    BY <1>5
  <2>2. x \in Used /\ x[1] # g /\ x[1] \in Int /\ g <= x[1]
    <3>1. x \in Used
      BY <2>1 DEF TypeInv, TypeOK
    <3>2. x[1] \in DOMAIN groups
      BY <3>1, UsedType
    <3>3. x[1] \in Int
      BY <3>2 DEF TypeInv
    <3> QED
      BY <2>1, <3>1, <3>3, <1>0 DEF Members
  <2>3. CASE h = g
    BY <2>2, <2>3, <1>4
  <2>4. CASE h # g
    BY <2>1, <2>4, <1>0, <1>7 DEF Safe, LegacyOrder, GroupPlaced, Unmapped
  <2> QED
    BY <2>3, <2>4
<1>13. LegacyHeld'
  <2> SUFFICES ASSUME NEW h \in DOMAIN groups, groupBase'[h] # U8
               PROVE  \E w \in LastOf(h) :
                 \/ EntryAt(h, live[w].last, <<h, 0>>, groupBase'[h]) \in active'
                 \/ \E k \in DOMAIN groups :
                      /\ groupBase'[k] # U8 /\ Members(k) # {}
                      /\ \A x \in Members(k) : live[w].last < live[x].def
    BY <1>6 DEF LegacyHeld, GroupPlaced, Unmapped, EntryAt
  <2>1. CASE h = g
    BY <2>1, <1>5, <1>7
  <2>2. CASE h # g
    <3>1. PICK w \in LastOf(h) :
            \/ EntryAt(h, live[w].last, <<h, 0>>, groupBase[h]) \in active
            \/ \E k \in DOMAIN groups :
                 /\ GroupPlaced(k) /\ Members(k) # {}
                 /\ \A x \in Members(k) : live[w].last < live[x].def
      BY <2>2, <1>0, <1>7 DEF Safe, LegacyHeld, GroupPlaced, Unmapped
    <3>2. live[w].last \in Int
      BY EndsLemma, UsedType, LimitAssumption
    <3> DEFINE a == EntryAt(h, live[w].last, <<h, 0>>, groupBase[h])
    <3>3. a.last = live[w].last
      BY DEF EntryAt
    <3> HIDE DEF a
    <3>4. CASE a \in active /\ live[w].last >= now
      <4>1. a \in active'
        BY <3>3, <3>4, <1>5 DEF Kept
      <4> QED
        BY <4>1, <2>2, <1>7 DEF a
    <3>5. CASE live[w].last < now
      <4>1. ASSUME NEW x \in Members(g)
            PROVE  live[w].last < live[x].def
        <5>1. live[x].def \in Int /\ now <= live[x].def
          <6>1. x \in Used /\ now <= live[x].def
            BY <1>2
          <6>2. live[x].def \in Int
            BY <6>1, UsedType, LimitAssumption
          <6> QED
            BY <6>1, <6>2
        <5> QED
          BY <5>1, <3>2, <3>5, <1>3
      <4>2. Members(g) # {}
        BY <1>2
      <4> QED
        BY <4>1, <4>2, <1>8
    <3>6. CASE \E k \in DOMAIN groups :
                 /\ GroupPlaced(k) /\ Members(k) # {}
                 /\ \A x \in Members(k) : live[w].last < live[x].def
      <4>1. \A k \in DOMAIN groups : GroupPlaced(k) => groupBase'[k] # U8
        BY <1>4, <1>7 DEF GroupPlaced, Unmapped
      <4> QED
        BY <3>6, <4>1
    <3> QED
      BY <3>1, <3>2, <3>4, <3>5, <3>6, <1>3 DEF a
  <2> QED
    BY <2>1, <2>2
<1>14. kind' # "ssa" /\ Declared'
  BY <1>0, <1>5, <1>6 DEF Safe, Declared, input
<1> QED
  BY <1>11, <1>12, <1>13, <1>14 DEF Safe, SsaHeld

\* A later member takes the register its group already holds.
LEMMA JoinSafe ==
  ASSUME TypeInv, Safe, NEW v \in Used, JoinGroup(v)
  PROVE  Safe'
<1> DEFINE g == v[1]
           now == live[v].def
<1>0. /\ kind = "ssa" /\ v \in todo /\ GroupPlaced(g) /\ phase = "running"
      /\ \A w \in todo : live[v].def <= live[w].def
      /\ todo' = todo \ {v}
      /\ reg' = [reg EXCEPT ![v] = groupBase[g] + v[2]]
      /\ active' = Kept(now) /\ free' = Pool(now)
      /\ UNCHANGED <<input, high, groupBase, phase>>
  BY DEF JoinGroup, SsaTurn
<1>1. /\ g \in DOMAIN groups /\ now \in Int /\ v[2] \in 0..(groups[g].count - 1)
  BY UsedType, LimitAssumption
<1>2. /\ Used' = Used /\ groups' = groups /\ live' = live /\ kind' = kind
      /\ \A h \in DOMAIN groups : FirstOf(h)' = FirstOf(h)
      /\ \A x \in Used : Trusted(x)' <=> Trusted(x)
      /\ \A x, w \in Used : Overlap(x, w)' <=> Overlap(x, w)
  BY <1>0, InputFrame DEF input
<1>3. reg \in [Used -> Nat] /\ todo \subseteq Used
      /\ groupBase \in [DOMAIN groups -> 0..U8] /\ U8 \in Nat
  BY LimitAssumption DEF TypeInv, TypeOK
<1>4. /\ reg'[v] = groupBase[g] + v[2]
      /\ \A x \in Used : x # v => reg'[x] = reg[x]
  BY <1>0, <1>3
<1>5. Clean(free', active', high')
  BY <1>0, <1>1, PoolLemma DEF Safe
<1>6. Maps'
  <2>1. \A x \in Used \ todo' : groupBase[x[1]] # U8
                                /\ reg'[x] = groupBase[x[1]] + x[2]
    BY <1>0, <1>4 DEF Safe, Maps, GroupPlaced, Unmapped
  <2>2. \A x \in todo' : reg'[x] = U8
    BY <1>0, <1>3, <1>4 DEF Safe, Maps, Unmapped
  <2> QED
    BY <2>1, <2>2, <1>0, <1>2 DEF Maps, GroupPlaced, Unmapped
<1>7. PlacedRight'
  BY <1>0, <1>2 DEF Safe, PlacedRight, GroupPlaced, Unmapped
<1>8. SsaHeld'
  <2> SUFFICES ASSUME NEW h \in DOMAIN groups, groupBase[h] # U8
               PROVE  \E u \in FirstOf(h) :
                        \/ EntryAt(h, live[u].last, u, groupBase[h]) \in active'
                        \/ \A w \in todo' : live[u].last < live[w].def
    BY <1>0, <1>2 DEF SsaHeld, GroupPlaced, Unmapped, EntryAt
  <2>1. PICK u \in FirstOf(h) :
          \/ EntryAt(h, live[u].last, u, groupBase[h]) \in active
          \/ \A w \in todo : live[u].last < live[w].def
    BY <1>0 DEF Safe, SsaHeld, GroupPlaced, Unmapped
  <2>2. u \in Used
    BY EndsLemma
  <2>3. live[u].last \in Int
    BY <2>2, UsedType, LimitAssumption
  <2> DEFINE a == EntryAt(h, live[u].last, u, groupBase[h])
  <2>4. a.last = live[u].last
    BY DEF EntryAt
  <2> HIDE DEF a
  <2>5. CASE \A w \in todo : live[u].last < live[w].def
    BY <2>5, <1>0
  <2>6. CASE a \in active /\ live[u].last >= now
    BY <2>4, <2>6, <1>0 DEF Kept, a
  <2>7. CASE live[u].last < now
    <3>1. ASSUME NEW w \in todo
          PROVE  live[u].last < live[w].def
      <4>1. w \in Used /\ now <= live[w].def
        BY <1>0, <1>3
      <4>2. live[w].def \in Int
        BY <4>1, UsedType, LimitAssumption
      <4> QED
        BY <4>1, <4>2, <2>3, <2>7, <1>1
    <3> QED
      BY <3>1, <1>0
  <2> QED
    BY <2>1, <2>3, <2>5, <2>6, <2>7, <1>1 DEF a
<1>9. ASSUME NEW w \in Used \ todo, Trusted(v), Trusted(w), Overlap(v, w)
      PROVE  reg'[v] # reg'[w]
  <2>1. /\ GroupPlaced(w[1]) /\ reg[w] = groupBase[w[1]] + w[2] /\ w # v
        /\ w \in Used
    BY <1>0 DEF Safe, Maps
  <2>2. /\ w[1] \in DOMAIN groups /\ w[2] \in 0..(groups[w[1]].count - 1)
        /\ w = <<w[1], w[2]>> /\ v = <<v[1], v[2]>>
        /\ groups[w[1]].count \in Nat /\ groups[g].count \in Nat
    BY <2>1, UsedType
  <2>3. reg'[w] = groupBase[w[1]] + w[2]
    BY <2>1, <1>4
  <2>4. CASE w[1] = g
    BY <2>1, <2>2, <2>3, <2>4, <1>1, <1>3, <1>4
  <2>5. CASE w[1] # g
    <3>1. InUse(w, now)
      BY <2>1, <1>0, <1>9, SsaInUse DEF Trusted, Overlap
    <3>2. InUse(v, now)
      <4>1. live[v].def <= live[v].last /\ Led(v[1])
        BY <1>0, <1>9, UsedType DEF Trusted
      <4> QED
        BY <4>1, <1>0, SsaInUse
    <3>3. PICK a \in Kept(now) : /\ a.start = groupBase[w[1]]
                                 /\ a.count = groups[w[1]].count
                                 /\ a.owner[1] = w[1]
      BY <3>1 DEF InUse
    <3>4. PICK b \in Kept(now) : /\ b.start = groupBase[g]
                                 /\ b.count = groups[g].count
                                 /\ b.owner[1] = g
      BY <3>2 DEF InUse
    <3>5. Apart(a, b)
      BY <2>5, <3>3, <3>4, <1>0, <1>5 DEF Clean
    <3>6. groupBase[w[1]] \in Nat /\ groupBase[g] \in Nat
      BY <2>2, <1>1, <1>3
    <3> QED
      BY <2>2, <2>3, <3>3, <3>4, <3>5, <3>6, <1>1, <1>4 DEF Apart
  <2> QED
    BY <2>4, <2>5
<1>10. NoClash'
  <2> SUFFICES ASSUME NEW x \in Used \ todo', NEW w \in Used \ todo', x # w,
                      Trusted(x), Trusted(w), Overlap(x, w)
               PROVE  reg'[x] # reg'[w]
    BY <1>2 DEF NoClash, Clash
  <2>0. Overlap(w, x)
    BY DEF Overlap
  <2>1. CASE x = v
    BY <2>1, <1>0, <1>9
  <2>2. CASE w = v
    BY <2>0, <2>2, <1>0, <1>9
  <2>3. CASE x # v /\ w # v
    <3>1. x \in Used \ todo /\ w \in Used \ todo
      BY <2>3, <1>0
    <3>2. reg[x] # reg[w]
      BY <3>1 DEF Safe, NoClash, Clash
    <3> QED
      BY <2>3, <3>2, <1>4
  <2> QED
    BY <2>1, <2>2, <2>3
<1> QED
  BY <1>0, <1>2, <1>5, <1>6, <1>7, <1>8, <1>10
     DEF Safe, LegacyOrder, LegacyHeld, Declared

\* A step that gives no register changes nothing that Safe speaks of.
LEMMA IdleSafe ==
  ASSUME TypeInv, Safe,
         UNCHANGED <<input, todo, free, high, active, groupBase, reg>>,
         Declared'
  PROVE  Safe'
<1>1. /\ Used' = Used /\ groups' = groups /\ live' = live /\ kind' = kind
      /\ \A h \in DOMAIN groups : /\ FirstOf(h)' = FirstOf(h)
                                  /\ LastOf(h)' = LastOf(h)
                                  /\ Members(h)' = Members(h)
      /\ \A x \in Used : Trusted(x)' <=> Trusted(x)
      /\ \A x, w \in Used : Overlap(x, w)' <=> Overlap(x, w)
  BY InputFrame DEF input
<1>2. Maps' /\ PlacedRight' /\ LegacyOrder'
  BY <1>1 DEF Safe, Maps, PlacedRight, LegacyOrder, GroupPlaced, Unmapped
<1>3. SsaHeld'
  BY <1>1 DEF Safe, SsaHeld, GroupPlaced, Unmapped, EntryAt
<1>4. LegacyHeld'
  BY <1>1 DEF Safe, LegacyHeld, GroupPlaced, Unmapped, EntryAt
<1>5. NoClash'
  BY <1>1 DEF Safe, NoClash, Clash
<1>6. Clean(free', active', high')
  BY DEF Safe
<1> QED
  BY <1>2, <1>3, <1>4, <1>5, <1>6 DEF Safe

\* The end of either scan declares enough registers for what it placed.
LEMMA FinishSafe ==
  ASSUME TypeInv, Safe, Finish
  PROVE  Safe'
<1>1. high \in Int /\ Limit \in Int /\ high <= Bound
  BY EntryType, LimitAssumption
<1>2. high <= DeclaredVgprs
  <2>1. CASE kind = "legacy"
    BY <2>1, <1>1 DEF DeclaredVgprs
  <2>2. CASE kind = "ssa"
    BY <2>2, <1>1 DEF DeclaredVgprs, Bound, Fallback
  <2> QED
    BY <2>1, <2>2 DEF TypeInv
<1>3. total' = DeclaredVgprs
      /\ UNCHANGED <<input, todo, free, high, active, groupBase, reg>>
  BY DEF Finish
<1>4. dead => kind = "ssa"
  BY DEF Safe, Declared
<1>5. dead /\ high < Limit => DeclaredVgprs = high + 1
  BY <1>1, <1>4 DEF DeclaredVgprs, Fallback
<1>6. dead /\ high = Limit => DeclaredVgprs = high
  BY <1>1, <1>4 DEF DeclaredVgprs, Fallback
<1>7. UNCHANGED <<kind, dead>>
  BY <1>3 DEF input
<1>8. Declared'
  BY <1>2, <1>3, <1>4, <1>5, <1>6, <1>7 DEF Declared
<1> QED
  BY <1>3, <1>8, IdleSafe

\* No step breaks the invariant of a scan without a spill or a wrap.
LEMMA SafeStep == Inv /\ [Next]_vars => Inv'
<1> SUFFICES ASSUME Inv, [Next]_vars, Undisturbed'
             PROVE  Safe'
  BY TypeStep DEF Inv
<1>0. TypeInv
  BY DEF Inv
<1>1. ASSUME NEW v \in Used, JoinGroup(v)
      PROVE  Safe'
  <2>1. Undisturbed
    BY <1>1 DEF JoinGroup, Undisturbed
  <2> QED
    BY <2>1, <1>0, <1>1, JoinSafe DEF Inv
<1>2. ASSUME NEW v \in Used, PlaceGroup(v)
      PROVE  Safe'
  <2>1. PICK base \in 0..(U8 - 1) :
          PlacedAt({v}, v[1], live[v].def, live[v].last, v, base)
    BY <1>0, <1>2, SsaPlaced
  <2>2. Undisturbed /\ ~wrapped'
    BY <2>1 DEF PlacedAt, Undisturbed
  <2> QED
    BY <2>2, <1>0, <1>2, PlaceGroupSafe DEF Inv
<1>3. ASSUME NEW v \in Used, SpillFor(v)
      PROVE  FALSE
  <2>1. spills' # {}
    BY <1>3 DEF SpillFor
  <2> QED
    BY <2>1 DEF Undisturbed
<1>4. ASSUME Panic
      PROVE  Safe'
  <2>1. /\ Undisturbed /\ phase' # "done"
        /\ UNCHANGED <<input, todo, free, high, active, groupBase, reg>>
    BY <1>4 DEF Panic, Undisturbed
  <2>2. Declared'
    BY <1>4, <2>1 DEF Panic, Inv, Safe, Declared, input
  <2> QED
    BY <2>1, <2>2, <1>0, IdleSafe DEF Inv
<1>5. ASSUME NEW g \in DOMAIN groups, LegacyPlace(g)
      PROVE  Safe'
  <2>1. PICK u \in FirstOf(g), w \in LastOf(g), base \in 0..(U8 - 1) :
          PlacedAt(Members(g), g, live[u].def, live[w].last, <<g, 0>>, base)
    BY <1>0, <1>5, LegacyPlaced
  <2>2. Undisturbed /\ ~wrapped'
    BY <2>1 DEF PlacedAt, Undisturbed
  <2> QED
    BY <2>2, <1>0, <1>5, LegacyPlaceSafe DEF Inv
<1>6. CASE Finish
  <2>1. Undisturbed
    BY <1>6 DEF Finish, Undisturbed
  <2> QED
    BY <2>1, <1>0, <1>6, FinishSafe DEF Inv
<1>7. CASE UNCHANGED vars
  <2>1. /\ Undisturbed /\ phase' = phase /\ total' = total
        /\ UNCHANGED <<input, todo, free, high, active, groupBase, reg>>
    BY <1>7 DEF vars, input, Undisturbed
  <2>2. Declared'
    BY <2>1 DEF Inv, Safe, Declared, input
  <2> QED
    BY <2>1, <2>2, <1>0, IdleSafe DEF Inv
<1> QED
  BY <1>1, <1>2, <1>3, <1>4, <1>5, <1>6, <1>7
     DEF Next, Step, LegacyStep, SsaPanics, LegacyPanics

\* A register that got its turn is below the end of the u8 range.
LEMMA MappedLemma ==
  ASSUME TypeInv, Safe
  PROVE  /\ Mapped \subseteq Used \ todo
         /\ \A v \in Mapped :
              /\ v[1] \in DOMAIN groups /\ GroupPlaced(v[1])
              /\ reg[v] = groupBase[v[1]] + v[2] /\ reg[v] < high
<1>1. Mapped \subseteq Used \ todo
  BY DEF Mapped, Safe, Maps
<1>2. ASSUME NEW v \in Mapped
      PROVE  /\ v[1] \in DOMAIN groups /\ GroupPlaced(v[1])
             /\ reg[v] = groupBase[v[1]] + v[2] /\ reg[v] < high
  <2>1. /\ v[1] \in DOMAIN groups /\ v[2] \in 0..(groups[v[1]].count - 1)
        /\ groups[v[1]].count \in Nat
    BY <1>1, UsedType
  <2>2. GroupPlaced(v[1]) /\ reg[v] = groupBase[v[1]] + v[2]
    BY <1>1 DEF Safe, Maps
  <2>3. groupBase[v[1]] + groups[v[1]].count <= high
    BY <2>1, <2>2 DEF Safe, PlacedRight
  <2>4. groupBase[v[1]] \in Nat /\ high \in Int
    BY <2>1, EntryType, LimitAssumption DEF TypeInv, TypeOK
  <2> QED
    BY <2>1, <2>2, <2>3, <2>4
<1> QED
  BY <1>1, <1>2

\* The invariant holds of every behaviour of either allocator.
LEMMA InvAlways == Spec => []Inv
<1>1. Init => Inv
  BY InitType, InitSafe DEF Inv
<1> QED
  BY <1>1, SafeStep, PTL DEF Spec

(* Two values that are alive at once never share a physical register, for  *)
(* every kernel, when both groups live as the allocator expects: the one   *)
(* that ssa_regalloc.rs frees with its leader (403-416) is led by it, and  *)
(* the one that regalloc.rs takes by declaration (189-201) is in order.    *)
THEOREM NeverClashTrusted == Spec => []TrustedNeverClash
<1>1. Inv => TrustedNeverClash
  <2> SUFFICES ASSUME Inv, Undisturbed, NEW v \in Mapped, NEW w \in Mapped,
                      Trusted(v), Trusted(w)
               PROVE  ~Clash(v, w)
    BY DEF TrustedNeverClash
  <2>1. v \in Used \ todo /\ w \in Used \ todo /\ NoClash
    BY MappedLemma DEF Inv, Safe
  <2> QED
    BY <2>1 DEF NoClash
<1> QED
  BY <1>1, InvAlways, PTL

(* A group's registers are consecutive from a base at its alignment, never *)
(* v0, without any condition on lifetimes (ssa_regalloc.rs:363-373).       *)
THEOREM GroupsStayTogether == Spec => []GroupsTogether
<1>1. Inv => GroupsTogether
  <2> SUFFICES ASSUME Inv, Undisturbed, NEW v \in Mapped
               PROVE  /\ reg[v] = groupBase[v[1]] + v[2]
                      /\ groupBase[v[1]] % groups[v[1]].align = 0
                      /\ groupBase[v[1]] > 0
    BY DEF GroupsTogether
  <2>1. /\ v[1] \in DOMAIN groups /\ GroupPlaced(v[1])
        /\ reg[v] = groupBase[v[1]] + v[2] /\ TypeInv /\ PlacedRight
    BY MappedLemma DEF Inv, Safe
  <2>2. groupBase[v[1]] \in Int
    BY <2>1, LimitAssumption DEF TypeInv, TypeOK
  <2> QED
    BY <2>1, <2>2 DEF PlacedRight
<1> QED
  BY <1>1, InvAlways, PTL

(* The kernel declares every register that holds a value; the scratch      *)
(* register of the dead definitions holds none, and it is declared exactly *)
(* when the file is not full (ssa_regalloc.rs:94-127): in a full one it is *)
(* the first register past the declared ones, whatever the limit.          *)
THEOREM KernelAlwaysFits == Spec => []KernelFits
<1>1. Inv => KernelFits
  <2> SUFFICES ASSUME Inv, Undisturbed, phase = "done"
               PROVE  /\ \A v \in Mapped : reg[v] < total
                      /\ dead => /\ \A v \in Mapped : reg[v] # Fallback
                                 /\ high < Limit => Fallback < total
                                 /\ high = Limit => Fallback = total
    BY DEF KernelFits
  <2>1. /\ TypeInv /\ high <= total
        /\ dead /\ high < Limit => total = high + 1
        /\ dead /\ high = Limit => total = high
        /\ high \in Nat /\ total \in Int
    BY EntryType, BoundType DEF Inv, Safe, Declared, TypeInv, TypeOK
  <2>2. ASSUME NEW v \in Mapped
        PROVE  reg[v] < total /\ reg[v] # Fallback
    <3>1. reg[v] < high
      BY MappedLemma DEF Inv
    <3>2. reg[v] \in Nat
      BY <2>1 DEF Mapped, TypeInv, TypeOK
    <3> QED
      BY <2>1, <3>1, <3>2 DEF Fallback
  <2>3. dead => /\ high < Limit => Fallback < total
                /\ high = Limit => Fallback = total
    BY <2>1 DEF Fallback
  <2> QED
    BY <2>2, <2>3
<1> QED
  BY <1>1, InvAlways, PTL

-----------------------------------------------------------------------------
(* No register is lost.                                                    *)

Holds(r, i) == r.start <= i /\ i < r.start + r.count

\* Every register from 1 to below top is free or in use.
Full(pool, used, top) ==
  \A i \in Int : 1 <= i /\ i < top => \E r \in pool \cup used : Holds(r, i)

\* A non-empty set of naturals has a least member.
LEMMA Least ==
  ASSUME NEW U \in SUBSET Nat, U # {}
  PROVE  \E x \in U : \A y \in U : x <= y
<1> DEFINE R == OpToRel(<, Nat)
<1>1. PICK x \in U : \A y \in U : ~(<<y, x>> \in R)
  <2>1. IsWellFoundedOn(R, Nat) /\ U \subseteq Nat
    BY NatLessThanWellFounded
  <2> HIDE DEF R
  <2>2. QED
    BY <2>1, WFMin
<1>2. \A y \in U : ~(y < x)
  BY <1>1 DEF OpToRel
<1> HIDE DEF R
<1>3. QED
  BY <1>2

\* From a register of the pool on, the pool goes on for a while, and stops.
LEMMA RunUp ==
  ASSUME NEW S, S \subseteq 0..(U8 - 1), NEW i \in S
  PROVE  \E e \in Nat : /\ i + e + 1 \notin S /\ i + e \in S
                        /\ \A j \in Int : i <= j /\ j <= i + e => j \in S
<1> DEFINE U == {n \in Nat : i + n + 1 \notin S}
<1>0. U8 \in Nat /\ i \in Int /\ 0 <= i /\ i <= U8 - 1
  BY LimitAssumption
<1>1. U8 \in U
  <2>1. i + U8 + 1 \notin 0..(U8 - 1)
    BY <1>0
  <2> QED
    BY <2>1, <1>0
<1>2. PICK e \in U : \A y \in U : e <= y
  <2>1. U \in SUBSET Nat /\ U # {}
    BY <1>1
  <2> HIDE DEF U
  <2> QED
    BY <2>1, Least
<1>3. e \in Nat /\ i + e + 1 \notin S
  OBVIOUS
<1>4. ASSUME NEW j \in Int, i <= j, j <= i + e
      PROVE  j \in S
  <2>1. CASE j = i
    BY <2>1
  <2>2. CASE j # i
    <3> DEFINE n == j - i - 1
    <3>1. n \in Nat /\ n < e /\ i + n + 1 = j
      BY <2>2, <1>4, <1>3, <1>0
    <3>2. n \notin U
      <4> HIDE DEF U, n
      <4> QED
        BY <3>1, <1>2, <1>3
    <3> HIDE DEF n
    <3> QED
      BY <3>1, <3>2
  <2> QED
    BY <2>1, <2>2
<1>5. i + e \in S
  BY <1>0, <1>3, <1>4
<1> QED
  BY <1>3, <1>4, <1>5

\* And so it does downwards.
LEMMA RunDown ==
  ASSUME NEW S, S \subseteq 0..(U8 - 1), NEW i \in S
  PROVE  \E d \in Nat : /\ i - d - 1 \notin S /\ i - d \in S
                        /\ \A j \in Int : i - d <= j /\ j <= i => j \in S
<1> DEFINE U == {n \in Nat : i - n - 1 \notin S}
<1>0. U8 \in Nat /\ i \in Int /\ 0 <= i /\ i <= U8 - 1
  BY LimitAssumption
<1>1. U8 \in U
  <2>1. i - U8 - 1 \notin 0..(U8 - 1)
    BY <1>0
  <2> QED
    BY <2>1, <1>0
<1>2. PICK d \in U : \A y \in U : d <= y
  <2>1. U \in SUBSET Nat /\ U # {}
    BY <1>1
  <2> HIDE DEF U
  <2> QED
    BY <2>1, Least
<1>3. d \in Nat /\ i - d - 1 \notin S
  OBVIOUS
<1>4. ASSUME NEW j \in Int, i - d <= j, j <= i
      PROVE  j \in S
  <2>1. CASE j = i
    BY <2>1
  <2>2. CASE j # i
    <3> DEFINE n == i - j - 1
    <3>1. n \in Nat /\ n < d /\ i - n - 1 = j
      BY <2>2, <1>4, <1>3, <1>0
    <3>2. n \notin U
      <4> HIDE DEF U, n
      <4> QED
        BY <3>1, <1>2, <1>3
    <3> HIDE DEF n
    <3> QED
      BY <3>1, <3>2
  <2> QED
    BY <2>1, <2>2
<1>5. i - d \in S
  BY <1>0, <1>3, <1>4
<1> QED
  BY <1>3, <1>4, <1>5

\* Merging loses no register: each lies in a maximal run.
LEMMA CoalescedHolds ==
  ASSUME NEW pool, Ranges(pool), NEW p \in pool, NEW i \in Int, Holds(p, i)
  PROVE  \E q \in Coalesced(AllRegs(pool)) : Holds(q, i)
<1> DEFINE S == AllRegs(pool)
<1>0. U8 \in Nat
  BY LimitAssumption
<1>1. S \subseteq 0..(U8 - 1)
  <2> SUFFICES ASSUME NEW j \in S
               PROVE  j \in 0..(U8 - 1)
    OBVIOUS
  <2>1. PICK r \in pool : j \in Regs(r)
    BY DEF AllRegs
  <2>2. r.start \in Nat /\ r.count \in Nat /\ r.start + r.count <= U8
    BY DEF Ranges, Range
  <2> QED
    BY <2>1, <2>2, <1>0 DEF Regs
<1>2. i \in S
  <2>1. p.start \in Nat /\ p.count \in Nat
    BY DEF Ranges, Range
  <2>2. i \in Regs(p)
    BY <2>1 DEF Regs, Holds
  <2> QED
    BY <2>2 DEF AllRegs
<1> HIDE DEF S
<1>3. PICK e \in Nat : /\ i + e + 1 \notin S /\ i + e \in S
                       /\ \A j \in Int : i <= j /\ j <= i + e => j \in S
  BY <1>1, <1>2, RunUp
<1>4. PICK d \in Nat : /\ i - d - 1 \notin S /\ i - d \in S
                       /\ \A j \in Int : i - d <= j /\ j <= i => j \in S
  BY <1>1, <1>2, RunDown
<1> DEFINE q == [start |-> i - d, count |-> d + e + 1]
<1>5. i - d \in 0..(U8 - 1) /\ i + e \in 0..(U8 - 1)
  BY <1>1, <1>3, <1>4
<1>6. q \in [start : S, count : 1..U8]
  <2>1. d + e + 1 \in 1..U8
    BY <1>5, <1>0
  <2> QED
    BY <2>1, <1>4
<1>7. q.start = i - d /\ q.start + q.count = i + e + 1
  OBVIOUS
<1>8. Regs(q) \subseteq S
  <2> SUFFICES ASSUME NEW j \in Regs(q)
               PROVE  j \in S
    OBVIOUS
  <2>1. j \in Int /\ i - d <= j /\ j <= i + e
    BY DEF Regs
  <2> QED
    BY <2>1, <1>3, <1>4
<1>9. q \in Coalesced(S)
  <2>1. q.start - 1 = i - d - 1
    BY <1>7
  <2> HIDE DEF q
  <2> QED
    BY <2>1, <1>3, <1>4, <1>6, <1>7, <1>8 DEF Coalesced
<1>10. Holds(q, i)
  BY <1>7 DEF Holds
<1> HIDE DEF q
<1> QED
  BY <1>9, <1>10 DEF S

\* What expires is free.
LEMMA PoolFull ==
  ASSUME TypeInv, NEW now \in Int, Full(free, active, high)
  PROVE  Full(Pool(now), Kept(now), high)
<1> SUFFICES ASSUME NEW i \in Int, 1 <= i, i < high
             PROVE  \E r \in Pool(now) \cup Kept(now) : Holds(r, i)
  BY DEF Full
<1> DEFINE expired == {[start |-> a.start, count |-> a.count] :
                         a \in active \ Kept(now)}
           both == free \cup expired
<1>1. PICK r \in free \cup active : Holds(r, i)
  BY DEF Full
<1>2. CASE r \in Kept(now)
  BY <1>1, <1>2
<1>3. CASE r \notin Kept(now)
  <2>1. \E p \in both : Holds(p, i)
    <3>1. CASE r \in free
      BY <3>1, <1>1
    <3>2. CASE r \in active
      <4> DEFINE p == [start |-> r.start, count |-> r.count]
      <4>1. p \in expired /\ p.start = r.start /\ p.count = r.count
        BY <3>2, <1>3
      <4>2. Holds(p, i)
        BY <4>1, <1>1 DEF Holds
      <4> QED
        BY <4>1, <4>2
    <3> QED
      BY <3>1, <3>2
  <2>2. Ranges(both)
    <3>1. \A e \in expired : e \in Range /\ e.start + e.count <= U8
      <4> SUFFICES ASSUME NEW a \in active
                   PROVE  /\ [start |-> a.start, count |-> a.count] \in Range
                          /\ a.start + a.count <= U8
        OBVIOUS
      <4> QED
        BY EntryType DEF Range
    <3> QED
      BY <3>1, EntryType DEF Ranges
  <2>3. Pool(now) = both \/ Pool(now) = Coalesced(AllRegs(both))
    BY DEF Pool
  <2> HIDE DEF both
  <2>4. \E p \in Pool(now) : Holds(p, i)
    BY <2>1, <2>2, <2>3, CoalescedHolds
  <2> QED
    BY <2>4
<1> QED
  BY <1>2, <1>3

\* Splitting a range loses no register of it.
LEMMA FitFull ==
  ASSUME NEW pool, Ranges(pool), NEW n \in Nat \ {0}, NEW align \in Alignments,
         NEW r \in Fits(pool, n, align), NEW i \in Int, Holds(r, i)
  PROVE  \/ /\ AlignUp(r.start, align) <= i
            /\ i < AlignUp(r.start, align) + n
         \/ \E q \in WithoutFit(pool, r, n, align) : Holds(q, i)
<1> DEFINE base == AlignUp(r.start, align)
           gap == Gap(r.start, align)
           after == [start |-> r.start + n + gap, count |-> r.count - (n + gap)]
           before == [start |-> r.start, count |-> gap]
           rest == WithoutFit(pool, r, n, align)
<1>0. U8 \in Nat
  BY LimitAssumption
<1>1. r \in pool /\ r.count >= n + gap
  BY DEF Fits
<1>2. r.start \in Nat /\ r.count \in Nat \ {0} /\ r.start + r.count <= U8
  BY <1>1 DEF Ranges, Range
<1>3. r.start \in 0..(U8 - 1)
  BY <1>0, <1>2
<1>4. base \in 0..(U8 - 1) /\ gap \in 0..(U8 - 1)
      /\ (r.start + gap = base \/ r.start + gap = U8)
  BY <1>3, AlignLemma
<1> HIDE DEF base, gap
<1>5. r.start + gap = base
  BY <1>0, <1>1, <1>2, <1>4
<1>6. rest = (pool \ {r}) \cup NonEmpty({after, before})
  BY DEF WithoutFit, gap
<1>7. (after.count > 0 => after \in rest) /\ (before.count > 0 => before \in rest)
  BY <1>6 DEF NonEmpty
<1>8. /\ after.start = base + n
      /\ after.start + after.count = r.start + r.count
      /\ after.count = r.start + r.count - (base + n)
      /\ before.start = r.start /\ before.count = base - r.start
      /\ before.start + before.count = base
  BY <1>0, <1>1, <1>2, <1>4, <1>5
<1> HIDE DEF after, before, rest
<1>9. r.start <= i /\ i < r.start + r.count
  BY DEF Holds
<1>10. CASE i < base
  <2>1. before.count > 0 /\ Holds(before, i)
    BY <1>10, <1>2, <1>4, <1>8, <1>9 DEF Holds
  <2> QED
    BY <2>1, <1>7 DEF rest
<1>11. CASE i >= base + n
  <2>1. after.count > 0 /\ Holds(after, i)
    BY <1>11, <1>2, <1>4, <1>8, <1>9 DEF Holds
  <2> QED
    BY <2>1, <1>7 DEF rest
<1> QED
  BY <1>10, <1>11, <1>4 DEF base

\* A group that is placed takes up what the pool gives for it; on top, what
\* the alignment skips goes to the pool.
LEMMA PlaceFull ==
  ASSUME TypeInv, kind = "ssa", NEW S, NEW g \in DOMAIN groups,
         groups[g].count \in Nat \ {0}, groups[g].align \in Alignments,
         NEW now \in Int, NEW last, NEW owner,
         Place(S, g, now, last, owner), ~wrapped',
         Full(Pool(now), Kept(now), high)
  PROVE  Full(free', active', high')
<1> DEFINE n == groups[g].count
           align == groups[g].align
           pool == Pool(now)
           used == Kept(now)
<1>0. U8 \in Nat /\ Bound \in 1..(U8 - 1) /\ high \in 1..(U8 - 1)
  BY BoundType, EntryType
<1>1. Ranges(pool)
  BY PoolLemma
<1>n. n \in Nat \ {0} /\ align \in Alignments
  OBVIOUS
<1>f. Full(pool, used, high)
  OBVIOUS
<1>2. CASE PlaceInRange(S, g, now, last, owner)
  <2>1. PICK r \in BestFits(pool, n, align) :
          /\ Claim(S, g, now, last, owner, AlignUp(r.start, align), n)
          /\ free' = WithoutFit(pool, r, n, align)
          /\ high' = high
    BY <1>2 DEF PlaceInRange
  <2> DEFINE e == [start |-> AlignUp(r.start, align), count |-> n,
                   last |-> last, owner |-> owner]
             rest == WithoutFit(pool, r, n, align)
  <2>2. r \in Fits(pool, n, align) /\ active' = used \cup {e}
    BY <2>1 DEF BestFits, Claim
  <2> HIDE DEF pool, used, n, align
  <2>3. ASSUME NEW i \in Int, 1 <= i, i < high
        PROVE  \E q \in rest \cup (used \cup {e}) : Holds(q, i)
    <3>1. PICK q \in pool \cup used : Holds(q, i)
      BY <1>f, <2>3 DEF Full
    <3>2. CASE q = r
      <4>1. \/ AlignUp(r.start, align) <= i /\ i < AlignUp(r.start, align) + n
            \/ \E p \in rest : Holds(p, i)
        BY <1>1, <1>n, <2>2, <3>1, <3>2, FitFull
      <4>2. CASE \E p \in rest : Holds(p, i)
        BY <4>2
      <4>3. CASE AlignUp(r.start, align) <= i /\ i < AlignUp(r.start, align) + n
        <5>1. Holds(e, i)
          BY <4>3 DEF Holds
        <5> QED
          BY <5>1
      <4> QED
        BY <4>1, <4>2, <4>3
    <3>3. CASE q \in pool /\ q # r
      <4>1. q \in rest
        BY <3>3 DEF WithoutFit
      <4> QED
        BY <3>1, <4>1
    <3>4. CASE q \in used
      BY <3>1, <3>4
    <3> QED
      BY <3>1, <3>2, <3>3, <3>4
  <2> HIDE DEF e, rest
  <2>4. Full(rest, used \cup {e}, high)
    BY <2>3 DEF Full
  <2> QED
    BY <2>1, <2>2, <2>4 DEF rest
<1>3. CASE PlaceOnTop(S, g, now, last, owner)
  <2> DEFINE base == AlignUp(high, align)
             gap == Gap(high, align)
             e == [start |-> base, count |-> n, last |-> last, owner |-> owner]
             skipped == [start |-> high, count |-> gap]
  <2>1. /\ Claim(S, g, now, last, owner, base, n)
        /\ free' = pool \cup TopGap(align)
        /\ high' = base + n
        /\ ~Wraps(high, align)
    BY <1>3 DEF PlaceOnTop, TopEnd
  <2>2. active' = used \cup {e}
    BY <2>1 DEF Claim
  <2>3. base \in 0..(U8 - 1) /\ gap \in 0..(U8 - 1) /\ high + gap = base
    BY <1>0, <1>n, <2>1, AlignLemma
  <2>4. gap > 0 => skipped \in TopGap(align)
    BY DEF TopGap, NonEmpty
  <2> HIDE DEF pool, used, n, align, base, gap
  <2>5. ASSUME NEW i \in Int, 1 <= i, i < base + n
        PROVE  \E q \in (pool \cup TopGap(align)) \cup (used \cup {e}) : Holds(q, i)
    <3>1. CASE i < high
      <4>1. \E q \in pool \cup used : Holds(q, i)
        BY <1>f, <2>5, <3>1 DEF Full
      <4> QED
        BY <4>1
    <3>2. CASE high <= i /\ i < base
      <4>1. gap > 0 /\ skipped \in TopGap(align)
        BY <1>0, <2>3, <2>4, <3>2
      <4>2. skipped.start = high /\ skipped.start + skipped.count = base
        BY <2>3
      <4>3. Holds(skipped, i)
        BY <4>2, <3>2 DEF Holds
      <4> QED
        BY <4>1, <4>3
    <3>3. CASE base <= i
      <4>1. Holds(e, i)
        BY <2>5, <3>3 DEF Holds
      <4> QED
        BY <4>1
    <3> QED
      BY <1>0, <2>3, <3>1, <3>2, <3>3
  <2> HIDE DEF e, skipped
  <2>6. Full(pool \cup TopGap(align), used \cup {e}, base + n)
    BY <2>5 DEF Full
  <2> QED
    BY <2>1, <2>2, <2>6
<1> QED
  BY <1>2, <1>3 DEF Place

\* What the ssa allocator hands out and gives back accounts for everything.
Accounted == Undisturbed /\ kind = "ssa" => Full(free, active, high)

\* There is nothing below the first high-water mark.
LEMMA InitFull == Init => Accounted
<1> SUFFICES ASSUME Init
             PROVE  Full(free, active, high)
  BY DEF Accounted
<1>1. high = 1
  BY DEF Init
<1> QED
  BY <1>1 DEF Full

\* Every step of the allocator accounts for every register.
LEMMA FullStep ==
  ASSUME Inv, Accounted, [Next]_vars
  PROVE  Accounted'
<1> SUFFICES ASSUME Undisturbed', kind' = "ssa"
             PROVE  Full(free', active', high')
  BY DEF Accounted
<1>0. TypeInv
  BY DEF Inv
<1>1. ASSUME NEW v \in Used, JoinGroup(v)
      PROVE  Full(free', active', high')
  <2>1. /\ Undisturbed /\ kind = "ssa" /\ high' = high
        /\ active' = Kept(live[v].def) /\ free' = Pool(live[v].def)
    BY <1>1 DEF JoinGroup, Undisturbed, SsaTurn
  <2>2. live[v].def \in Int
    BY <1>0, UsedType, LimitAssumption
  <2>3. Full(Pool(live[v].def), Kept(live[v].def), high)
    BY <1>0, <2>1, <2>2, PoolFull DEF Accounted
  <2> QED
    BY <2>1, <2>3
<1>2. ASSUME NEW v \in Used, PlaceGroup(v)
      PROVE  Full(free', active', high')
  <2>1. PICK base \in 0..(U8 - 1) :
          PlacedAt({v}, v[1], live[v].def, live[v].last, v, base)
    BY <1>0, <1>2, SsaPlaced
  <2>2. Undisturbed /\ ~wrapped' /\ kind = "ssa"
    BY <2>1 DEF PlacedAt, Undisturbed
  <2>3. /\ v[1] \in DOMAIN groups /\ live[v].def \in Int
        /\ groups[v[1]].count \in Nat \ {0} /\ groups[v[1]].align \in Alignments
    BY <1>0, UsedType, LimitAssumption
  <2>4. Place({v}, v[1], live[v].def, live[v].last, v)
    BY <1>2 DEF PlaceGroup
  <2>5. Full(Pool(live[v].def), Kept(live[v].def), high)
    BY <1>0, <2>2, <2>3, PoolFull DEF Accounted
  <2> QED
    BY <1>0, <2>2, <2>3, <2>4, <2>5, PlaceFull
<1>3. ASSUME NEW v \in Used, SpillFor(v)
      PROVE  FALSE
  <2>1. spills' # {}
    BY <1>3 DEF SpillFor
  <2> QED
    BY <2>1 DEF Undisturbed
<1>4. ASSUME NEW g \in DOMAIN groups, LegacyPlace(g)
      PROVE  FALSE
  <2>1. kind = "legacy" /\ kind' = kind
    BY <1>4 DEF LegacyPlace, LegacyTurn, Place, PlaceInRange, PlaceOnTop, input
  <2> QED
    BY <2>1
<1>5. CASE Panic \/ Finish \/ UNCHANGED vars
  <2>1. Undisturbed /\ UNCHANGED <<kind, free, active, high>>
    BY <1>5 DEF Panic, Finish, vars, input, Undisturbed
  <2> QED
    BY <2>1 DEF Accounted
<1> QED
  BY <1>1, <1>2, <1>3, <1>4, <1>5
     DEF Next, Step, LegacyStep, SsaPanics, LegacyPanics

(* The ssa allocator loses no register and hands none out twice: below the *)
(* high-water mark each is free or in use, never both, through splits,     *)
(* alignment gaps, expiry and merging (ssa_regalloc.rs:183-290).           *)
THEOREM NoRegisterLost == Spec => []NothingLost
<1>1. Init => Inv /\ Accounted
  BY InitType, InitSafe, InitFull DEF Inv
<1>2. Inv /\ Accounted /\ [Next]_vars => (Inv /\ Accounted)'
  BY SafeStep, FullStep
<1>3. Inv /\ Accounted => NothingLost
  <2> SUFFICES ASSUME Inv, Full(free, active, high), Undisturbed, kind = "ssa"
               PROVE  /\ AllRegs(free) \cup AllRegs(active) = 1..(high - 1)
                      /\ AllRegs(free) \cap AllRegs(active) = {}
    BY DEF NothingLost, Accounted
  <2>1. /\ high \in Nat /\ Clean(free, active, high)
        /\ \A r \in free \cup active : r.start \in Nat /\ r.count \in Nat
    BY EntryType DEF Inv, Safe, Ranges, Range
  <2>2. ASSUME NEW i \in AllRegs(free) \cup AllRegs(active)
        PROVE  i \in 1..(high - 1)
    <3>1. PICK r \in free \cup active : i \in Regs(r)
      BY DEF AllRegs
    <3>2. r.start >= 1 /\ r.start + r.count <= high
      BY <2>1 DEF Clean
    <3> QED
      BY <2>1, <3>1, <3>2 DEF Regs
  <2>3. ASSUME NEW i \in 1..(high - 1)
        PROVE  i \in AllRegs(free) \cup AllRegs(active)
    <3>1. PICK r \in free \cup active : Holds(r, i)
      BY <2>1 DEF Full
    <3>2. i \in Regs(r)
      BY <2>1, <3>1 DEF Regs, Holds
    <3> QED
      BY <3>2 DEF AllRegs
  <2>4. ASSUME NEW i \in AllRegs(free), i \in AllRegs(active)
        PROVE  FALSE
    <3>1. PICK r \in free : i \in Regs(r)
      BY DEF AllRegs
    <3>2. PICK a \in active : i \in Regs(a)
      BY <2>4 DEF AllRegs
    <3>3. Apart(r, a)
      BY <2>1 DEF Clean
    <3> QED
      BY <2>1, <3>1, <3>2, <3>3 DEF Regs, Apart
  <2> QED
    BY <2>2, <2>3, <2>4
<1> QED
  BY <1>1, <1>2, <1>3, PTL DEF Spec
=============================================================================
