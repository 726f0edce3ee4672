-------------------------------- MODULE Sums --------------------------------
(***************************************************************************)
(* Finite sums, as MapThenSumSet of the community modules computes them,   *)
(* and the induction their facts rest on.                                  *)
(*                                                                         *)
(* MapThenSumSet recurses over the subsets of a set through CHOOSE.  That  *)
(* its recursion has a solution, and one only, is proved by induction over *)
(* the size of a finite set; the induction comes from the well-ordering of *)
(* the naturals, applied to the set of counterexamples.                    *)
(***************************************************************************)
EXTENDS Integers, FiniteSetsExt, FiniteSetTheorems, TLAPS

\* Induction over the naturals, for a set of them.
LEMMA Induction ==
  ASSUME NEW T \in SUBSET Nat, 0 \in T, \A n \in T : n + 1 \in T
  PROVE  \A n \in Nat : n \in T
<1> DEFINE U == Nat \ T
           R == OpToRel(<, Nat)
<1> SUFFICES ASSUME U # {} PROVE FALSE
  OBVIOUS
<1>1. PICK x \in U : \A y \in U : ~(<<y, x>> \in R)
  <2>1. IsWellFoundedOn(R, Nat) /\ U \subseteq Nat
    BY NatLessThanWellFounded
  <2> HIDE DEF U, R
  <2>2. QED
    BY <2>1, WFMin
<1>2. \A y \in Nat : y < x => <<y, x>> \in R
  BY <1>1 DEF OpToRel
<1> HIDE DEF R
<1>3. x \in Nat /\ x \notin T /\ x # 0
  OBVIOUS
<1>4. x - 1 \in Nat /\ x - 1 < x /\ (x - 1) + 1 = x
  BY <1>3
<1>5. x - 1 \in T
  BY <1>1, <1>2, <1>4
<1>6. QED
  BY <1>3, <1>4, <1>5

\* The sum of v[x] over x in S.
SumOf(v, S) == MapThenSumSet(LAMBDA x : v[x], S)

\* MapThenSumSet's recursion: the element it removes, its equation, its choice.
Pick(s) == CHOOSE x \in s : TRUE
Fixed(g, v, S) ==
  g = [s \in SUBSET S |-> IF s = {} THEN 0 ELSE v[Pick(s)] + g[s \ {Pick(s)}]]
Iter(v, S) == CHOOSE g : Fixed(g, v, S)

\* SumOf is the solution that TLA+ chooses.
LEMMA SumIter ==
  ASSUME NEW v, NEW S
  PROVE  SumOf(v, S) = Iter(v, S)[S]
BY DEF SumOf, MapThenSumSet, MapThenFoldSet, Iter, Fixed, Pick

\* What is removed was there.
LEMMA PickLemma == \A s : s # {} => Pick(s) \in s
BY DEF Pick


\* What a removal from a finite set leaves.
LEMMA WithoutLemma ==
  ASSUME NEW s, IsFiniteSet(s), NEW x \in s
  PROVE  /\ IsFiniteSet(s \ {x})
         /\ Cardinality(s) \in Nat /\ Cardinality(s) > 0
         /\ Cardinality(s \ {x}) \in Nat
         /\ Cardinality(s \ {x}) = Cardinality(s) - 1
<1>1. IsFiniteSet(s \ {x}) /\ Cardinality(s \ {x}) = Cardinality(s) - 1
  BY FS_RemoveElement
<1>2. Cardinality(s) \in Nat /\ Cardinality(s \ {x}) \in Nat
  BY <1>1, FS_CardinalityType
<1>3. QED
  BY <1>1, <1>2

\* To show that every finite set is in a family, it is enough to add the sets
\* of one size after the other.
LEMMA FiniteInduction ==
  ASSUME NEW S, IsFiniteSet(S), NEW F \in SUBSET SUBSET S, {} \in F,
         \A s \in SUBSET S :
           (s # {} /\ \A x \in s : s \ {x} \in F) => s \in F
  PROVE  S \in F
<1> DEFINE T == {n \in Nat : \A s \in SUBSET S : Cardinality(s) = n => s \in F}
<1>0. \A s \in SUBSET S : IsFiniteSet(s) /\ Cardinality(s) \in Nat
  BY FS_Subset, FS_CardinalityType
<1>1. 0 \in T
  BY <1>0, FS_EmptySet
<1>2. ASSUME NEW n \in T PROVE n + 1 \in T
  <2>1. SUFFICES ASSUME NEW s \in SUBSET S, Cardinality(s) = n + 1
                 PROVE  s \in F
    OBVIOUS
  <2>2. n \in Nat
    OBVIOUS
  <2>3. s # {}
    BY <2>1, <2>2, FS_EmptySet
  <2>4. ASSUME NEW x \in s PROVE s \ {x} \in F
    <3>1. Cardinality(s \ {x}) = Cardinality(s) - 1
      BY <1>0, WithoutLemma
    <3>2. Cardinality(s \ {x}) = n
      BY <3>1, <2>1, <2>2
    <3>3. s \ {x} \in SUBSET S
      OBVIOUS
    <3>4. QED
      BY <3>2, <3>3
  <2>5. QED
    BY <2>3, <2>4
<1>3. \A n \in Nat : n \in T
  <2> HIDE DEF T
  <2>1. QED
    BY <1>1, <1>2, Induction DEF T
<1>4. Cardinality(S) \in T
  BY <1>0, <1>3
<1>5. QED
  BY <1>4

\* One step of the recursion.
LEMMA FixedStep ==
  ASSUME NEW v, NEW S, NEW g, Fixed(g, v, S), NEW s \in SUBSET S
  PROVE  /\ s = {} => g[s] = 0
         /\ s # {} => /\ Pick(s) \in s /\ s \ {Pick(s)} \in SUBSET S
                      /\ g[s] = v[Pick(s)] + g[s \ {Pick(s)}]
<1>1. g[s] = IF s = {} THEN 0 ELSE v[Pick(s)] + g[s \ {Pick(s)}]
  BY DEF Fixed
<1>2. QED
  BY <1>1, PickLemma

\* Its first step.
LEMMA FixedTop ==
  ASSUME NEW v, NEW S, NEW g, Fixed(g, v, S), S # {}
  PROVE  /\ Pick(S) \in S
         /\ g[S] = v[Pick(S)] + g[S \ {Pick(S)}]
<1>1. S \in SUBSET S
  OBVIOUS
<1>2. QED
  BY <1>1, FixedStep

\* Two solutions agree on every finite set that both cover.
LEMMA FixedUnique ==
  ASSUME NEW v, NEW A, NEW B, NEW g, NEW h, Fixed(g, v, A), Fixed(h, v, B),
         NEW S \in SUBSET A, S \in SUBSET B, IsFiniteSet(S)
  PROVE  g[S] = h[S]
<1> DEFINE F == {s \in SUBSET S : g[s] = h[s]}
<1>1. {} \in F
  BY FixedStep
<1>2. ASSUME NEW s \in SUBSET S, s # {}, \A x \in s : s \ {x} \in F
      PROVE  s \in F
  <2>1. s \in SUBSET A /\ s \in SUBSET B
    OBVIOUS
  <2>2. /\ Pick(s) \in s
        /\ g[s] = v[Pick(s)] + g[s \ {Pick(s)}]
        /\ h[s] = v[Pick(s)] + h[s \ {Pick(s)}]
    BY <2>1, <1>2, FixedStep
  <2>3. g[s \ {Pick(s)}] = h[s \ {Pick(s)}]
    BY <2>2, <1>2
  <2>4. QED
    BY <2>2, <2>3
<1>3. S \in F
  <2> HIDE DEF F
  <2>1. F \in SUBSET SUBSET S
    BY DEF F
  <2>2. QED
    BY <2>1, <1>1, <1>2, FiniteInduction
<1>4. QED
  BY <1>3

\* The choice is a solution: by induction, extending those of smaller sets.
LEMMA FixedExists ==
  ASSUME NEW v, NEW S, IsFiniteSet(S)
  PROVE  Fixed(Iter(v, S), v, S)
<1> DEFINE F == {s \in SUBSET S : \A u \in SUBSET s : Fixed(Iter(v, u), v, u)}
<1>0. \A s \in SUBSET S : IsFiniteSet(s)
  BY FS_Subset
<1>1. {} \in F
  <2> DEFINE g == [s \in {{}} |-> 0]
  <2>1. Fixed(g, v, {})
    BY DEF Fixed
  <2>2. Fixed(Iter(v, {}), v, {})
    BY <2>1 DEF Iter
  <2>3. QED
    BY <2>2
<1>2. ASSUME NEW s \in SUBSET S, s # {}, \A x \in s : s \ {x} \in F
      PROVE  s \in F
  <2> DEFINE G(u) == Iter(v, u)[u]
             h == [u \in SUBSET s |-> IF u = {} THEN 0
                                      ELSE v[Pick(u)] + G(u \ {Pick(u)})]
  <2>1. ASSUME NEW u \in SUBSET s, u # s PROVE Fixed(Iter(v, u), v, u)
    <3>1. PICK x \in s : x \notin u
      BY <2>1
    <3>2. u \in SUBSET (s \ {x}) /\ s \ {x} \in F
      BY <3>1, <1>2
    <3>3. QED
      BY <3>2
  <2>2. ASSUME NEW u \in SUBSET s, u # s PROVE h[u] = G(u)
    <3>1. Fixed(Iter(v, u), v, u) /\ u \in SUBSET u
      BY <2>1, <2>2
    <3>2. CASE u = {}
      BY <3>1, <3>2, FixedStep
    <3>3. CASE u # {}
      <4>1. /\ Pick(u) \in u
            /\ Iter(v, u)[u] = v[Pick(u)] + Iter(v, u)[u \ {Pick(u)}]
        BY <3>1, <3>3, FixedTop
      <4> DEFINE w == u \ {Pick(u)}
      <4>2. w \in SUBSET s /\ w # s /\ w \in SUBSET u /\ w \in SUBSET w
        BY <4>1
      <4>3. Fixed(Iter(v, w), v, w)
        BY <4>2, <2>1
      <4>4. Iter(v, u)[w] = Iter(v, w)[w]
        <5> HIDE DEF w
        <5>1. IsFiniteSet(w)
          BY <4>2, <1>0
        <5>2. QED
          BY <3>1, <4>2, <4>3, <5>1, FixedUnique
      <4>5. h[u] = v[Pick(u)] + G(w)
        BY <3>3
      <4>6. QED
        BY <4>1, <4>4, <4>5
    <3>4. QED
      BY <3>2, <3>3
  <2>3. Fixed(h, v, s)
    <3>1. ASSUME NEW u \in SUBSET s, u # {}
          PROVE  G(u \ {Pick(u)}) = h[u \ {Pick(u)}]
      <4>1. Pick(u) \in u
        BY <3>1, PickLemma
      <4>2. u \ {Pick(u)} \in SUBSET s /\ u \ {Pick(u)} # s
        BY <4>1
      <4>3. QED
        BY <4>2, <2>2
    <3> DEFINE k == [u \in SUBSET s |-> IF u = {} THEN 0
                                        ELSE v[Pick(u)] + h[u \ {Pick(u)}]]
    <3>2. \A u \in SUBSET s : h[u] = k[u]
      BY <3>1
    <3>3. h = k
      BY <3>2
    <3> HIDE DEF h
    <3>4. QED
      BY <3>3 DEF Fixed
  <2>4. Fixed(Iter(v, s), v, s)
    <3> HIDE DEF h
    <3>1. QED
      BY <2>3 DEF Iter
  <2>5. QED
    BY <2>1, <2>4
<1>3. S \in F
  <2> HIDE DEF F
  <2>1. F \in SUBSET SUBSET S
    BY DEF F
  <2>2. QED
    BY <2>1, <1>1, <1>2, FiniteInduction
<1>4. QED
  BY <1>3

-----------------------------------------------------------------------------
\* The empty sum.
LEMMA SumEmpty ==
  ASSUME NEW v
  PROVE  SumOf(v, {}) = 0
<1>1. Fixed(Iter(v, {}), v, {})
  BY FS_EmptySet, FixedExists
<1>2. QED
  BY <1>1, SumIter, FixedStep

\* The recursion, for sums.
LEMMA SumPick ==
  ASSUME NEW v, NEW S, IsFiniteSet(S), S # {}
  PROVE  /\ Pick(S) \in S
         /\ SumOf(v, S) = v[Pick(S)] + SumOf(v, S \ {Pick(S)})
<1> DEFINE w == S \ {Pick(S)}
<1>1. Fixed(Iter(v, S), v, S) /\ S \in SUBSET S
  BY FixedExists
<1>2. /\ Pick(S) \in S
      /\ Iter(v, S)[S] = v[Pick(S)] + Iter(v, S)[w]
  BY <1>1, FixedTop
<1>3. IsFiniteSet(w) /\ w \in SUBSET S /\ w \in SUBSET w
  BY FS_Subset
<1>4. Fixed(Iter(v, w), v, w)
  BY <1>3, FixedExists
<1>5. Iter(v, S)[w] = Iter(v, w)[w]
  <2> HIDE DEF w
  <2>1. QED
    BY <1>1, <1>3, <1>4, FixedUnique
<1>6. QED
  BY <1>2, <1>5, SumIter

\* Sums of integers are integers.
LEMMA SumInt ==
  ASSUME NEW S, IsFiniteSet(S), NEW v, \A x \in S : v[x] \in Int
  PROVE  SumOf(v, S) \in Int
<1> DEFINE F == {s \in SUBSET S : SumOf(v, s) \in Int}
<1>1. {} \in F
  BY SumEmpty
<1>2. ASSUME NEW s \in SUBSET S, s # {}, \A x \in s : s \ {x} \in F
      PROVE  s \in F
  <2>1. IsFiniteSet(s)
    BY FS_Subset
  <2>2. /\ Pick(s) \in s
        /\ SumOf(v, s) = v[Pick(s)] + SumOf(v, s \ {Pick(s)})
    BY <2>1, <1>2, SumPick
  <2>3. v[Pick(s)] \in Int /\ SumOf(v, s \ {Pick(s)}) \in Int
    BY <1>2, <2>2
  <2>4. QED
    BY <2>2, <2>3
<1>3. S \in F
  <2> HIDE DEF F
  <2>1. F \in SUBSET SUBSET S
    BY DEF F
  <2>2. QED
    BY <2>1, <1>1, <1>2, FiniteInduction
<1>4. QED
  BY <1>3

\* Any summand may be taken out first.
LEMMA SumSplit ==
  ASSUME NEW S, IsFiniteSet(S), NEW v, \A y \in S : v[y] \in Int, NEW x \in S
  PROVE  /\ SumOf(v, S) = v[x] + SumOf(v, S \ {x})
         /\ SumOf(v, S \ {x}) \in Int
<1> DEFINE F == {s \in SUBSET S :
                   \A y \in s : SumOf(v, s) = v[y] + SumOf(v, s \ {y})}
<1>1. \A s \in SUBSET S : IsFiniteSet(s) /\ SumOf(v, s) \in Int
  BY FS_Subset, SumInt
<1>2. ASSUME NEW s \in SUBSET S, s # {}, \A z \in s : s \ {z} \in F
      PROVE  s \in F
  <2>1. SUFFICES ASSUME NEW y \in s PROVE SumOf(v, s) = v[y] + SumOf(v, s \ {y})
    OBVIOUS
  <2> DEFINE z == Pick(s)
  <2>2. z \in s /\ SumOf(v, s) = v[z] + SumOf(v, s \ {z})
    BY <1>1, <1>2, SumPick
  <2>3. CASE y = z
    BY <2>2, <2>3
  <2>4. CASE y # z
    <3> DEFINE r == (s \ {z}) \ {y}
    <3>1. r = (s \ {y}) \ {z} /\ r \in SUBSET S
      OBVIOUS
    <3>2. y \in s \ {z} /\ z \in s \ {y}
      BY <2>2, <2>4
    <3>3. SumOf(v, s \ {z}) = v[y] + SumOf(v, r)
      BY <1>2, <2>2, <3>2
    <3>4. SumOf(v, s \ {y}) = v[z] + SumOf(v, r)
      BY <1>2, <3>1, <3>2
    <3>5. SumOf(v, r) \in Int /\ v[y] \in Int /\ v[z] \in Int
      BY <1>1, <3>1, <2>2
    <3> HIDE DEF r, z
    <3>6. QED
      BY <2>2, <3>3, <3>4, <3>5
  <2>5. QED
    BY <2>3, <2>4
<1>3. S \in F
  <2>1. {} \in F
    OBVIOUS
  <2> HIDE DEF F
  <2>2. F \in SUBSET SUBSET S
    BY DEF F
  <2>3. QED
    BY <2>1, <2>2, <1>2, FiniteInduction
<1>4. QED
  BY <1>1, <1>3

\* Equal summands have equal sums.
LEMMA SumSame ==
  ASSUME NEW S, IsFiniteSet(S), NEW v, NEW w, \A x \in S : v[x] = w[x]
  PROVE  SumOf(v, S) = SumOf(w, S)
<1> DEFINE F == {s \in SUBSET S : SumOf(v, s) = SumOf(w, s)}
<1>1. {} \in F
  BY SumEmpty
<1>2. ASSUME NEW s \in SUBSET S, s # {}, \A x \in s : s \ {x} \in F
      PROVE  s \in F
  <2>1. IsFiniteSet(s)
    BY FS_Subset
  <2>2. /\ Pick(s) \in s
        /\ SumOf(v, s) = v[Pick(s)] + SumOf(v, s \ {Pick(s)})
        /\ SumOf(w, s) = w[Pick(s)] + SumOf(w, s \ {Pick(s)})
    BY <2>1, <1>2, SumPick
  <2>3. v[Pick(s)] = w[Pick(s)]
    BY <2>2
  <2>4. SumOf(v, s \ {Pick(s)}) = SumOf(w, s \ {Pick(s)})
    BY <1>2, <2>2
  <2>5. QED
    BY <2>2, <2>3, <2>4
<1>3. S \in F
  <2> HIDE DEF F
  <2>1. F \in SUBSET SUBSET S
    BY DEF F
  <2>2. QED
    BY <2>1, <1>1, <1>2, FiniteInduction
<1>4. QED
  BY <1>3

\* One summand changes.
LEMMA SumUpdate ==
  ASSUME NEW S, IsFiniteSet(S), NEW v, NEW w, NEW x \in S,
         \A y \in S : v[y] \in Int /\ w[y] \in Int,
         \A y \in S \ {x} : w[y] = v[y]
  PROVE  SumOf(w, S) = SumOf(v, S) - v[x] + w[x]
<1>1. SumOf(v, S) = v[x] + SumOf(v, S \ {x}) /\ SumOf(v, S \ {x}) \in Int
  BY SumSplit
<1>2. SumOf(w, S) = w[x] + SumOf(w, S \ {x}) /\ SumOf(w, S \ {x}) \in Int
  BY SumSplit
<1>3. SumOf(v, S \ {x}) = SumOf(w, S \ {x})
  <2>1. IsFiniteSet(S \ {x})
    BY FS_Subset
  <2>2. QED
    BY <2>1, SumSame
<1>4. v[x] \in Int /\ w[x] \in Int
  OBVIOUS
<1>5. QED
  BY <1>1, <1>2, <1>3, <1>4

\* Nothing but zeros.
LEMMA SumZero ==
  ASSUME NEW S, IsFiniteSet(S), NEW v, \A x \in S : v[x] = 0
  PROVE  SumOf(v, S) = 0
<1> DEFINE F == {s \in SUBSET S : SumOf(v, s) = 0}
<1>1. {} \in F
  BY SumEmpty
<1>2. ASSUME NEW s \in SUBSET S, s # {}, \A x \in s : s \ {x} \in F
      PROVE  s \in F
  <2>1. IsFiniteSet(s)
    BY FS_Subset
  <2>2. /\ Pick(s) \in s
        /\ SumOf(v, s) = v[Pick(s)] + SumOf(v, s \ {Pick(s)})
    BY <2>1, <1>2, SumPick
  <2>3. v[Pick(s)] = 0 /\ SumOf(v, s \ {Pick(s)}) = 0
    BY <1>2, <2>2
  <2>4. QED
    BY <2>2, <2>3
<1>3. S \in F
  <2> HIDE DEF F
  <2>1. F \in SUBSET SUBSET S
    BY DEF F
  <2>2. QED
    BY <2>1, <1>1, <1>2, FiniteInduction
<1>4. QED
  BY <1>3

\* Nothing but one summand.
LEMMA SumOne ==
  ASSUME NEW S, IsFiniteSet(S), NEW v, NEW x \in S, v[x] \in Int,
         \A y \in S \ {x} : v[y] = 0
  PROVE  SumOf(v, S) = v[x]
<1>1. \A y \in S : v[y] \in Int
  OBVIOUS
<1>2. SumOf(v, S) = v[x] + SumOf(v, S \ {x})
  BY <1>1, SumSplit
<1>3. SumOf(v, S \ {x}) = 0
  <2>1. IsFiniteSet(S \ {x})
    BY FS_Subset
  <2>2. QED
    BY <2>1, SumZero
<1>4. QED
  BY <1>2, <1>3
=============================================================================
