-------------------------- MODULE GpuMemoryProofs --------------------------
(***************************************************************************)
(* GpuMemory for every number of threads, addresses, buffers and sizes: a  *)
(* buffer in somebody's hands stays mapped to itself on the host and on    *)
(* the GPU, is large enough, and is lost only by a failed allocation; and  *)
(* with a TLB that is flushed and a caller that waits, kernels reach their *)
(* own buffers and buffers from alloc_zero hold zeroes.  cached_bytes is   *)
(* what the pool holds.                                                    *)
(***************************************************************************)
EXTENDS GpuMemory, Sums, FiniteSetTheorems, SequenceTheorems, TLAPS

Bo == [va : Addresses, size : Nat, live : BOOLEAN, data : Int]
Kernel == [va : Addresses, lease : Leases]

MemoryTypes ==
  /\ hostMap \in [Addresses -> {"free", "reserved", "mapped"}]
  /\ gpuMap \in [Addresses -> Buffers \cup {None}]
  /\ tlb \in [Addresses -> Buffers \cup {None}]
  /\ bo \in [Buffers -> Bo]
  /\ lease \in [Buffers -> Leases \cup {None}]
  /\ asked \in [Leases -> [bytes : Requests, zeroed : BOOLEAN]]
  /\ nBuffers \in Nat /\ nLeases \in Nat
  /\ held \in [Threads -> SUBSET Buffers]
  /\ cache \in [Sizes -> Seq(Buffers)]
  /\ pc \in [Threads -> Steps]
  /\ op \in [Threads -> AllCalls]
  /\ want \in [Threads -> Requests]
  /\ at \in [Threads -> Addresses]
  /\ cur \in [Threads -> Buffers \cup {None}]
  /\ dropping \in [Threads -> Seq(Buffers)]
  /\ queue \in Seq(Kernel)
  /\ failures \in Nat

\* Where a BO is.
InCache(b)   == \E s \in Sizes : \E i \in 1..Len(cache[s]) : cache[s][i] = b
InDrop(t, b) == \E i \in 1..Len(dropping[t]) : dropping[t][i] = b
Builds(t, b) == pc[t] \in {"map", "mmap"} /\ cur[t] = b
Has(t, b)    == b \in held[t] \/ InDrop(t, b) \/ Builds(t, b)

\* The calls that may yet allocate a BO, and those that may yet hand out a
\* lease.
Reserving == {u \in Threads : pc[u] \in {"reserve", "alloc"}}
Taking == {u \in Threads : pc[u] \in {"lookup", "reserve", "alloc", "map",
                                      "mmap"}}

Bounded ==
  /\ nBuffers + Cardinality(Reserving) <= MaxBuffers
  /\ nLeases + Cardinality(Taking) <= MaxLeases

\* A thread drops buffers at the steps of Drop and only then.
DropSteps == {"munmap", "unmap", "free"}

CallShape ==
  \A t \in Threads :
    /\ pc[t] \in DropSteps <=> dropping[t] # << >>
    /\ pc[t] \in {"map", "mmap"} => cur[t] \in 1..nBuffers
    /\ pc[t] = "zero" => cur[t] \in held[t]

\* A BO is in one place, once, and has a number that was given out.
Apart ==
  /\ \A t \in Threads, b \in Buffers : Has(t, b) => b <= nBuffers
  /\ \A b \in Buffers : InCache(b) => b <= nBuffers
  /\ \A t, u \in Threads, b \in Buffers : Has(t, b) /\ Has(u, b) => t = u
  /\ \A t \in Threads, b \in Buffers : Has(t, b) => ~InCache(b)
  /\ \A t \in Threads : \A b \in held[t] : ~InDrop(t, b) /\ ~Builds(t, b)
  /\ \A t \in Threads : \A i, j \in 1..Len(dropping[t]) :
       dropping[t][i] = dropping[t][j] => i = j
  /\ \A s, r \in Sizes : \A i \in 1..Len(cache[s]), j \in 1..Len(cache[r]) :
       cache[s][i] = cache[r][j] => s = r /\ i = j

\* A BO is mapped while somebody has it or the cache does, until its Drop
\* unmaps it; an address is somebody's from its reservation on.
Up(b) == bo[b].live /\ hostMap[bo[b].va] = "mapped" /\ gpuMap[bo[b].va] = b

Settled(b) ==
  \/ \E t \in Threads : b \in held[t]
  \/ InCache(b)
  \/ \E t \in Threads : \E i \in 1..Len(dropping[t]) :
       dropping[t][i] = b /\ (i # 1 \/ pc[t] = "munmap")

Claiming == {"alloc", "map", "mmap"}

Mapped ==
  /\ \A b \in Buffers : Settled(b) => Up(b)
  /\ \A t \in Threads : pc[t] \in Claiming => hostMap[at[t]] = "reserved"
  /\ \A t, u \in Threads :
       pc[t] \in Claiming /\ pc[u] \in Claiming /\ at[t] = at[u] => t = u
  /\ \A t \in Threads : pc[t] \in {"map", "mmap"} =>
       bo[cur[t]].live /\ bo[cur[t]].va = at[t]
  /\ \A t \in Threads : pc[t] = "mmap" => gpuMap[at[t]] = cur[t]

\* Nobody shares a lease.
Leased ==
  /\ \A t \in Threads : \A b \in held[t] : lease[b] \in 1..nLeases
  /\ \A t, u \in Threads : \A b \in held[t], c \in held[u] :
       lease[b] = lease[c] => b = c

\* The cache is sorted by size, and what comes out of it is large enough.
Sized ==
  /\ \A t \in Threads : \A b \in held[t] :
       bo[b].size \in Sizes /\ bo[b].size >= asked[lease[b]].bytes
  /\ \A t \in Threads, b \in Buffers :
       Builds(t, b) => bo[b].size = Aligned(want[t])
  /\ \A s \in Sizes : \A i \in 1..Len(cache[s]) : bo[cache[s][i]].size = s

-----------------------------------------------------------------------------
\* Rounding up to pages loses no byte.
LEMMA AlignedType ==
  ASSUME NEW n \in Nat PROVE Aligned(n) \in Nat /\ Aligned(n) >= n
<1> DEFINE k == n + Page - 1
           q == k \div Page
<1>1. Page \in Nat \ {0} /\ k \in Nat
  BY SizeAssumption
<1>2. q \in Nat /\ k < (q + 1) * Page
  BY <1>1, SMT
<1>3. (q + 1) * Page = q * Page + Page /\ q * Page \in Nat
  BY <1>1, <1>2, SMT
<1> HIDE DEF q
<1>4. n <= q * Page
  BY <1>1, <1>2, <1>3
<1>5. QED
  BY <1>3, <1>4 DEF Aligned, q

\* Sizes are numbers of bytes, and every request has one.
LEMMA SizesType ==
  Sizes \subseteq Nat /\ \A n \in Requests : Aligned(n) \in Sizes
BY AlignedType, SizeAssumption DEF Sizes

\* Counting the threads inside a call.
LEMMA OneLess ==
  ASSUME NEW S, NEW T, NEW t, IsFiniteSet(S), t \in S, T \subseteq S \ {t}
  PROVE  /\ IsFiniteSet(T) /\ Cardinality(T) + 1 <= Cardinality(S)
         /\ Cardinality(T) \in Nat /\ Cardinality(S) \in Nat
<1>1. IsFiniteSet(S \ {t}) /\ Cardinality(S \ {t}) = Cardinality(S) - 1
  BY FS_RemoveElement
<1>2. IsFiniteSet(T) /\ Cardinality(T) <= Cardinality(S \ {t})
  BY <1>1, FS_Subset
<1>3. QED
  BY <1>1, <1>2, FS_CardinalityType

\* A set that gains at most one member.
LEMMA OneMore ==
  ASSUME NEW S, NEW T, NEW t, IsFiniteSet(S), T \subseteq S \cup {t}
  PROVE  /\ IsFiniteSet(T) /\ Cardinality(T) <= Cardinality(S) + 1
         /\ Cardinality(T) \in Nat /\ Cardinality(S) \in Nat
<1>0. Cardinality(S) \in Nat
  BY FS_CardinalityType
<1>1. IsFiniteSet(S \cup {t}) /\ Cardinality(S \cup {t}) <= Cardinality(S) + 1
  <2>1. /\ IsFiniteSet(S \cup {t})
        /\ Cardinality(S \cup {t}) = IF t \in S THEN Cardinality(S)
                                                ELSE Cardinality(S) + 1
    BY FS_AddElement
  <2>2. QED
    BY <1>0, <2>1
<1>2. IsFiniteSet(T) /\ Cardinality(T) <= Cardinality(S \cup {t})
  BY <1>1, FS_Subset
<1>3. QED
  BY <1>1, <1>2, FS_CardinalityType

\* A set that gains no member.
LEMMA NoMore ==
  ASSUME NEW S, NEW T, IsFiniteSet(S), T \subseteq S
  PROVE  /\ IsFiniteSet(T) /\ Cardinality(T) <= Cardinality(S)
         /\ Cardinality(T) \in Nat /\ Cardinality(S) \in Nat
BY FS_Subset, FS_CardinalityType

\* Writing to a BO.
LEMMA BoData ==
  ASSUME NEW x \in Bo, NEW d \in Int PROVE [x EXCEPT !.data = d] \in Bo
<1>1. [x EXCEPT !.data = d] =
        [va |-> x.va, size |-> x.size, live |-> x.live, data |-> d]
  BY DEF Bo
<1>2. x.va \in Addresses /\ x.size \in Nat /\ x.live \in BOOLEAN
  BY DEF Bo
<1>3. QED
  BY <1>1, <1>2 DEF Bo

\* Freeing a BO.
LEMMA BoFreed == ASSUME NEW x \in Bo PROVE [x EXCEPT !.live = FALSE] \in Bo
BY DEF Bo

\* What is left of a sequence behind its head, and before its last element.
LEMMA TailLemma ==
  ASSUME NEW S, NEW s \in Seq(S), s # << >>
  PROVE  /\ Tail(s) \in Seq(S) /\ Len(Tail(s)) = Len(s) - 1
         /\ \A i \in 1..Len(s) - 1 : Tail(s)[i] = s[i + 1]
         /\ Len(s) > 1 <=> Tail(s) # << >>
         /\ 1 \in 1..Len(s) /\ Head(s) = s[1] /\ Head(s) \in S
<1>1. /\ Tail(s) \in Seq(S) /\ Len(Tail(s)) = Len(s) - 1
      /\ \A i \in 1..Len(s) - 1 : Tail(s)[i] = s[i + 1]
      /\ Head(s) = s[1] /\ Head(s) \in S
  BY HeadTailProperties
<1>2. Len(s) \in Nat \ {0}
  OBVIOUS
<1>3. Len(Tail(s)) = 0 <=> Tail(s) = << >>
  BY <1>1, EmptySeq
<1>4. QED
  BY <1>1, <1>2, <1>3

\* Popping the last of a non-empty Vec.
LEMMA FrontLemma ==
  ASSUME NEW S, NEW s \in Seq(S), s # << >>
  PROVE  /\ Front(s) \in Seq(S) /\ Len(Front(s)) = Len(s) - 1
         /\ \A i \in 1..Len(s) - 1 : Front(s)[i] = s[i]
         /\ Len(s) \in Nat \ {0} /\ Len(s) \in 1..Len(s)
         /\ Last(s) = s[Len(s)] /\ Last(s) \in S
<1>1. Len(s) \in Nat \ {0} /\ \A i \in 1..Len(s) : s[i] \in S
  OBVIOUS
<1>2. Len(s) - 1 \in Nat /\ 1 <= Len(s) /\ Len(s) \in 1..Len(s)
  BY <1>1
<1>3. \A i \in 1..Len(s) - 1 : s[i] \in S
  BY <1>1, <1>2
<1> DEFINE n == Len(s) - 1
<1> HIDE DEF n
<1>6. n \in Int /\ 1 \in Int /\ \A i \in 1..n : s[i] \in S
  BY <1>2, <1>3 DEF n
<1>7. /\ SubSeq(s, 1, n) \in Seq(S)
      /\ Len(SubSeq(s, 1, n)) = IF 1 <= n THEN n - 1 + 1 ELSE 0
      /\ \A i \in 1..n - 1 + 1 : SubSeq(s, 1, n)[i] = s[1 + i - 1]
  BY <1>6, SubSeqProperties
<1>8. n \in Nat
  BY <1>2 DEF n
<1>4. /\ SubSeq(s, 1, n) \in Seq(S)
      /\ Len(SubSeq(s, 1, n)) = n
      /\ \A i \in 1..n : SubSeq(s, 1, n)[i] = s[i]
  BY <1>7, <1>8
<1>5. QED
  BY <1>1, <1>2, <1>4 DEF Front, Last, n

-----------------------------------------------------------------------------
\* There is a number for the BO a thread allocates, and for the lease it takes.
LEMMA NumbersLeft ==
  ASSUME IsFiniteSet(Threads), MemoryTypes, Bounded, NEW t \in Threads
  PROVE  /\ pc[t] = "alloc" => nBuffers + 1 \in Buffers
         /\ pc[t] \in {"lookup", "mmap"} => nLeases + 1 \in Leases
         /\ nBuffers <= MaxBuffers /\ nLeases <= MaxLeases
<1>1. IsFiniteSet(Reserving) /\ Cardinality(Reserving) \in Nat
  BY FS_Subset, FS_CardinalityType DEF Reserving
<1>2. IsFiniteSet(Taking) /\ Cardinality(Taking) \in Nat
  BY FS_Subset, FS_CardinalityType DEF Taking
<1>3. pc[t] = "alloc" => Cardinality(Reserving) >= 1
  BY <1>1, FS_EmptySet DEF Reserving
<1>4. pc[t] \in {"lookup", "mmap"} => Cardinality(Taking) >= 1
  BY <1>2, FS_EmptySet DEF Taking
<1>5. /\ nBuffers + Cardinality(Reserving) <= MaxBuffers /\ nBuffers \in Nat
      /\ nLeases + Cardinality(Taking) <= MaxLeases /\ nLeases \in Nat
      /\ MaxBuffers \in Nat /\ MaxLeases \in Nat
  BY BoundAssumption DEF Bounded, MemoryTypes
<1>6. QED
  BY <1>1, <1>2, <1>3, <1>4, <1>5 DEF Buffers, Leases

\* Cached buffers leave the cache in some order, each once.
LEMMA ClearOrder ==
  ASSUME MemoryTypes, NEW all \in SetToSeqs(Cached)
  PROVE  /\ all \in Seq(Buffers)
         /\ \A i \in 1..Len(all) : InCache(all[i])
         /\ \A i, j \in 1..Len(all) : all[i] = all[j] => i = j
         /\ \A b : InCache(b) => \E i \in 1..Len(all) : all[i] = b
         /\ all = << >> <=> \A s \in Sizes : cache[s] = << >>
<1> DEFINE n == Cardinality(Cached)
<1>1. \A b : b \in Cached <=> InCache(b)
  BY DEF Cached, InCache, ToSet, MemoryTypes
<1>2. Cached \subseteq Buffers
  BY DEF Cached, ToSet, MemoryTypes
<1>3. IsFiniteSet(Cached) /\ n \in Nat
  <2>1. IsFiniteSet(Buffers)
    BY FS_Interval, BoundAssumption DEF Buffers
  <2>2. IsFiniteSet(Cached)
    BY <1>2, <2>1, FS_Subset
  <2>3. QED
    BY <2>2, FS_CardinalityType
<1>4. /\ all \in [1..n -> Cached]
      /\ \A i, j \in 1..n : i # j => all[i] # all[j]
  BY DEF SetToSeqs
<1> HIDE DEF n
<1>5. all \in Seq(Cached) /\ Len(all) = n /\ DOMAIN all = 1..n
  BY <1>3, <1>4
<1>6. all \in Injection(1..n, Cached)
  BY <1>4 DEF Injection, IsInjective
<1>7. Cardinality(1..n) = n
  BY <1>3, FS_Interval
<1>8. all \in Surjection(1..n, Cached)
  BY <1>3, <1>6, <1>7, FS_Injection DEF n
<1>9. \A b \in Cached : \E i \in 1..n : all[i] = b
  BY <1>8 DEF Surjection
<1>10. all = << >> <=> Cached = {}
  BY <1>4, <1>5, <1>9
<1>11. Cached = {} <=> \A s \in Sizes : cache[s] = << >>
  <2>1. ASSUME NEW s \in Sizes, cache[s] # << >> PROVE Cached # {}
    <3>1. cache[s] \in Seq(Buffers) /\ 1 \in 1..Len(cache[s])
      BY <2>1 DEF MemoryTypes
    <3>2. InCache(cache[s][1])
      BY <3>1 DEF InCache
    <3>3. QED
      BY <3>2, <1>1
  <2>2. ASSUME NEW b, b \in Cached
        PROVE  \E s \in Sizes : cache[s] # << >>
    BY <1>1, <2>2 DEF InCache, MemoryTypes
  <2>3. QED
    BY <2>1, <2>2
<1>12. QED
  BY <1>1, <1>2, <1>4, <1>5, <1>9, <1>10, <1>11

\* Every step keeps the types and the shape of a call.
LEMMA TypesStep ==
  ASSUME IsFiniteSet(Threads), MemoryTypes, Bounded, CallShape, Leased, Sized,
         [Next]_vars
  PROVE  MemoryTypes' /\ CallShape'
<1> USE DEF MemoryTypes, CallShape, DropSteps, Goto, host, device, ledger, local,
            Steps
<1>1. ASSUME NEW t \in Threads, NEW c \in Calls \cap {"alloc", "alloc_zero"},
             NEW n \in Requests, CallAlloc(t, c, n)
      PROVE  MemoryTypes' /\ CallShape'
  BY <1>1 DEF CallAlloc, AllCalls
<1>2. ASSUME NEW t \in Threads, LookUpHit(t)
      PROVE  MemoryTypes' /\ CallShape'
  <2>1. PICK s \in Matches(t) :
          /\ cache' = [cache EXCEPT ![s] = Front(@)]
          /\ Lease(t, Last(cache[s]))
          /\ cur' = [cur EXCEPT ![t] = Last(cache[s])]
          /\ held' = [held EXCEPT ![t] = @ \cup {Last(cache[s])}]
    BY <1>2 DEF LookUpHit
  <2>2. s \in Sizes /\ cache[s] \in Seq(Buffers) /\ cache[s] # << >>
    BY <2>1 DEF Matches
  <2>3. Last(cache[s]) \in Buffers /\ Front(cache[s]) \in Seq(Buffers)
    BY <2>2 DEF Last, Front
  <2>4. nLeases + 1 \in Leases /\ nLeases + 1 \in Nat
    BY <1>2, NumbersLeft DEF LookUpHit
  <2>5. AfterAlloc(t) \in {"zero", "idle"}
    BY DEF AfterAlloc
  <2>9. /\ cache' \in [Sizes -> Seq(Buffers)]
        /\ cur' \in [Threads -> Buffers \cup {None}]
        /\ held' \in [Threads -> SUBSET Buffers]
    BY <2>1, <2>2, <2>3
  <2>10. /\ nLeases' \in Nat
         /\ lease' \in [Buffers -> Leases \cup {None}]
         /\ asked' \in [Leases -> [bytes : Requests, zeroed : BOOLEAN]]
    BY <2>1, <2>3, <2>4 DEF Lease
  <2>6. MemoryTypes'
    BY <1>2, <2>5, <2>9, <2>10 DEF LookUpHit
  <2>7. CallShape'
    BY <1>2, <2>1, <2>2, <2>3, <2>5 DEF LookUpHit, Lease
  <2>8. QED
    BY <2>6, <2>7
<1>3. ASSUME NEW t \in Threads, LookUpMiss(t)
      PROVE  MemoryTypes' /\ CallShape'
  BY <1>3 DEF LookUpMiss
<1>4. ASSUME NEW t \in Threads, ReserveAddress(t)
      PROVE  MemoryTypes' /\ CallShape'
  BY <1>4 DEF ReserveAddress
<1>5. ASSUME NEW t \in Threads, AllocMemory(t)
      PROVE  MemoryTypes' /\ CallShape'
  <2>1. nBuffers + 1 \in Buffers
    BY <1>5, NumbersLeft DEF AllocMemory
  <2>2. Aligned(want[t]) \in Nat
    BY AlignedType, SizeAssumption
  <2>3. [va |-> at[t], size |-> Aligned(want[t]), live |-> TRUE, data |-> -1]
          \in Bo
    BY <2>2 DEF Bo
  <2>4. MemoryTypes'
    BY <1>5, <2>1, <2>3 DEF AllocMemory
  <2>5. CallShape'
    BY <1>5, <2>1 DEF AllocMemory
  <2>6. QED
    BY <2>4, <2>5
<1>6. ASSUME NEW t \in Threads, AllocFails(t)
      PROVE  MemoryTypes' /\ CallShape'
  BY <1>6 DEF AllocFails, GiveUp
<1>7. ASSUME NEW t \in Threads, MapMemory(t)
      PROVE  MemoryTypes' /\ CallShape'
  BY <1>7 DEF MapMemory
<1>8. ASSUME NEW t \in Threads, MapClashes(t)
      PROVE  MemoryTypes' /\ CallShape'
  BY <1>8 DEF MapClashes, GiveUp
<1>9. ASSUME NEW t \in Threads, MapOnHost(t)
      PROVE  MemoryTypes' /\ CallShape'
  <2>1. nLeases + 1 \in Leases
    BY <1>9, NumbersLeft DEF MapOnHost
  <2>2. cur[t] \in Buffers
    BY <1>9, NumbersLeft, BoundAssumption DEF MapOnHost, Buffers
  <2>3. AfterAlloc(t) \in {"zero", "idle"}
    BY DEF AfterAlloc
  <2>4. MemoryTypes'
    BY <1>9, <2>1, <2>2, <2>3 DEF MapOnHost, Lease
  <2>5. CallShape'
    BY <1>9, <2>1, <2>2, <2>3 DEF MapOnHost, Lease
  <2>6. QED
    BY <2>4, <2>5
<1>10. ASSUME NEW t \in Threads, Zero(t)
      PROVE  MemoryTypes' /\ CallShape'
  <2>6. cur[t] \in held[t] /\ held[t] \subseteq Buffers
    BY <1>10 DEF Zero
  <2>1. cur[t] \in Buffers /\ bo[cur[t]] \in Bo
    BY <2>6
  <2>2. [bo[cur[t]] EXCEPT !.data = None] \in Bo
    <3>1. None \in Int
      BY DEF None
    <3>2. QED
      BY <2>1, <3>1, BoData
  <2>3. bo' = [bo EXCEPT ![cur[t]] = [bo[cur[t]] EXCEPT !.data = None]]
    BY <1>10, <2>1 DEF Zero, Bo
  <2>4. bo' \in [Buffers -> Bo]
    BY <2>1, <2>2, <2>3
  <2>5. QED
    BY <1>10, <2>4 DEF Zero
<1>11. ASSUME NEW t \in Threads, Munmap(t)
      PROVE  MemoryTypes' /\ CallShape'
  BY <1>11 DEF Munmap
<1>12. ASSUME NEW t \in Threads, UnmapMemory(t)
      PROVE  MemoryTypes' /\ CallShape'
  BY <1>12 DEF UnmapMemory
<1>13. ASSUME NEW t \in Threads, FreeMemory(t)
      PROVE  MemoryTypes' /\ CallShape'
  <2>1. dropping[t] \in Seq(Buffers) /\ dropping[t] # << >>
    BY <1>13 DEF FreeMemory
  <2>7. Head(dropping[t]) \in Buffers
    BY <2>1, TailLemma
  <2>2. /\ Tail(dropping[t]) \in Seq(Buffers)
        /\ Len(dropping[t]) > 1 <=> Tail(dropping[t]) # << >>
    BY <2>1, TailLemma
  <2>8. [bo[Victim(t)] EXCEPT !.live = FALSE] \in Bo
    BY <2>7, BoFreed DEF Victim
  <2>9. bo' = [bo EXCEPT ![Victim(t)] = [bo[Victim(t)] EXCEPT !.live = FALSE]]
    BY <1>13 DEF FreeMemory
  <2>3. bo' \in [Buffers -> Bo]
    BY <2>7, <2>8, <2>9 DEF Victim
  <2>4. MemoryTypes'
    BY <1>13, <2>1, <2>2, <2>3 DEF FreeMemory
  <2>5. CallShape'
    BY <1>13, <2>1, <2>2 DEF FreeMemory
  <2>6. QED
    BY <2>4, <2>5
<1>14. ASSUME NEW t \in Threads, ClearDone(t)
      PROVE  MemoryTypes' /\ CallShape'
  BY <1>14 DEF ClearDone
<1>15. ASSUME NEW t \in Threads, Clear(t)
      PROVE  MemoryTypes' /\ CallShape'
  <2>1. PICK all \in SetToSeqs(Cached) : dropping' = [dropping EXCEPT ![t] = all]
    BY <1>15 DEF Clear
  <2>2. all \in Seq(Buffers) /\ (all = << >> <=> \A s \in Sizes : cache[s] = << >>)
    BY ClearOrder
  <2>3. MemoryTypes'
    BY <1>15, <2>1, <2>2 DEF Clear, AllCalls
  <2>4. CallShape'
    BY <1>15, <2>1, <2>2 DEF Clear
  <2>5. QED
    BY <2>3, <2>4
<1>16. ASSUME NEW t \in Threads, NEW b \in held[t], Launch(t, b)
      PROVE  MemoryTypes' /\ CallShape'
  <2>1. b \in Buffers /\ lease[b] \in Leases
    BY <1>16, NumbersLeft, BoundAssumption DEF Leased, Leases
  <2>2. queue' \in Seq(Kernel)
    BY <1>16, <2>1 DEF Launch, Bo, Kernel
  <2>3. QED
    BY <1>16, <2>2 DEF Launch
<1>17. ASSUME NEW t \in Threads, NEW b \in held[t], Recycle(t, b)
      PROVE  MemoryTypes' /\ CallShape'
  <2>1. b \in Buffers /\ bo[b].size \in Sizes
    BY <1>17 DEF Sized
  <2>2. cache' \in [Sizes -> Seq(Buffers)]
    BY <1>17, <2>1 DEF Recycle
  <2>3. MemoryTypes'
    BY <1>17, <2>1, <2>2 DEF Recycle
  <2>4. CallShape'
    BY <1>17, <2>1 DEF Recycle, MayGiveUp
  <2>5. QED
    BY <2>3, <2>4
<1>18. ASSUME NEW t \in Threads, NEW b \in held[t], DropBuffer(t, b)
      PROVE  MemoryTypes' /\ CallShape'
  <2>1. b \in Buffers /\ <<b>> \in Seq(Buffers) /\ <<b>> # << >>
    BY <1>18
  <2>2. MemoryTypes'
    BY <1>18, <2>1 DEF DropBuffer, AllCalls
  <2>3. CallShape'
    BY <1>18, <2>1 DEF DropBuffer, MayGiveUp
  <2>4. QED
    BY <2>2, <2>3
<1>19. CASE GpuRun
  <2> DEFINE q == Head(queue)
             b == Reached(q.va)
  <2>1. queue # << >> /\ q \in Kernel
    BY <1>19, HeadTailProperties DEF GpuRun
  <2>2. b \in Buffers \cup {None} /\ q.lease \in Int
    BY <2>1 DEF Reached, Leases, Kernel
  <2>3. bo' \in [Buffers -> Bo]
    <3>1. CASE b = None
      BY <1>19, <3>1 DEF GpuRun
    <3>2. CASE b \in Buffers /\ b # None
      <4>1. [bo[b] EXCEPT !.data = q.lease] \in Bo
        BY <2>2, <3>2, BoData
      <4>2. bo' = [bo EXCEPT ![b] = [bo[b] EXCEPT !.data = q.lease]]
        BY <1>19, <3>2 DEF GpuRun
      <4>3. QED
        BY <3>2, <4>1, <4>2
    <3>3. QED
      BY <2>2, <3>1, <3>2
  <2>4. queue' \in Seq(Kernel)
    BY <1>19 DEF GpuRun
  <2>5. tlb' \in [Addresses -> Buffers \cup {None}]
    BY <1>19, <2>1, <2>2 DEF GpuRun
  <2>6. QED
    BY <1>19, <2>3, <2>4, <2>5 DEF GpuRun
<1>20. CASE UNCHANGED vars
  BY <1>20 DEF vars
<1>21. QED
  BY <1>1, <1>2, <1>3, <1>4, <1>5, <1>6, <1>7, <1>8, <1>9, <1>10, <1>11,
     <1>12, <1>13, <1>14, <1>15, <1>16, <1>17, <1>18, <1>19, <1>20 DEF Next, Step

\* A call counts the number it may need before it needs it.
LEMMA BoundedStep ==
  ASSUME IsFiniteSet(Threads), MemoryTypes, Bounded, [Next]_vars
  PROVE  Bounded'
<1>1. /\ IsFiniteSet(Reserving) /\ IsFiniteSet(Taking)
      /\ nBuffers \in Nat /\ nLeases \in Nat
      /\ MaxBuffers \in Nat /\ MaxLeases \in Nat
  BY FS_Subset, BoundAssumption DEF Reserving, Taking, MemoryTypes
<1>2. ASSUME NEW t \in Threads, NEW c \in Calls, NEW n \in Requests,
             CallAlloc(t, c, n)
      PROVE  Bounded'
  <2> DEFINE Busy == {u \in Threads : pc[u] # "idle"}
  <2>1. /\ pc[t] = "idle" /\ pc' = [pc EXCEPT ![t] = "lookup"]
        /\ nLeases + Cardinality(Busy) < MaxLeases
        /\ nBuffers' = nBuffers /\ nLeases' = nLeases
    BY <1>2 DEF CallAlloc, Goto, ledger
  <2>2. Reserving' \subseteq Reserving /\ Taking' \subseteq Busy \cup {t}
    BY <2>1 DEF Reserving, Taking, MemoryTypes
  <2>3. IsFiniteSet(Busy)
    BY FS_Subset
  <2>4. /\ Cardinality(Taking') <= Cardinality(Busy) + 1
        /\ Cardinality(Taking') \in Nat /\ Cardinality(Busy) \in Nat
    BY <2>2, <2>3, OneMore
  <2>5. /\ Cardinality(Reserving') <= Cardinality(Reserving)
        /\ Cardinality(Reserving') \in Nat /\ Cardinality(Reserving) \in Nat
    BY <1>1, <2>2, NoMore
  <2> HIDE DEF Busy
  <2>6. QED
    BY <1>1, <2>1, <2>4, <2>5 DEF Bounded
<1>3. ASSUME NEW t \in Threads, LookUpMiss(t)
      PROVE  Bounded'
  <2> DEFINE Busy == {u \in Threads : pc[u] \in {"reserve", "alloc"}}
  <2>1. /\ pc[t] = "lookup" /\ pc' = [pc EXCEPT ![t] = "reserve"]
        /\ nBuffers + Cardinality(Busy) < MaxBuffers
        /\ nBuffers' = nBuffers /\ nLeases' = nLeases
    BY <1>3 DEF LookUpMiss, Goto, ledger
  <2>2. Busy = Reserving
    BY DEF Reserving
  <2>3. Reserving' \subseteq Reserving \cup {t} /\ Taking' \subseteq Taking
    BY <2>1 DEF Reserving, Taking, MemoryTypes
  <2>4. /\ Cardinality(Reserving') <= Cardinality(Reserving) + 1
        /\ Cardinality(Reserving') \in Nat /\ Cardinality(Reserving) \in Nat
    BY <1>1, <2>3, OneMore
  <2>5. /\ Cardinality(Taking') <= Cardinality(Taking)
        /\ Cardinality(Taking') \in Nat /\ Cardinality(Taking) \in Nat
    BY <1>1, <2>3, NoMore
  <2> HIDE DEF Busy
  <2>6. QED
    BY <1>1, <2>1, <2>2, <2>4, <2>5 DEF Bounded
<1>4. ASSUME NEW t \in Threads, AllocMemory(t)
      PROVE  Bounded'
  <2>1. /\ pc[t] = "alloc" /\ pc' = [pc EXCEPT ![t] = "map"]
        /\ nBuffers' = nBuffers + 1 /\ nLeases' = nLeases
    BY <1>4 DEF AllocMemory, Goto
  <2>2. /\ Reserving' \subseteq Reserving \ {t} /\ t \in Reserving
        /\ Taking' \subseteq Taking
    BY <2>1 DEF Reserving, Taking, MemoryTypes
  <2>3. /\ Cardinality(Reserving') + 1 <= Cardinality(Reserving)
        /\ Cardinality(Reserving') \in Nat /\ Cardinality(Reserving) \in Nat
    BY <1>1, <2>2, OneLess
  <2>4. /\ Cardinality(Taking') <= Cardinality(Taking)
        /\ Cardinality(Taking') \in Nat /\ Cardinality(Taking) \in Nat
    BY <1>1, <2>2, NoMore
  <2>5. QED
    BY <1>1, <2>1, <2>3, <2>4 DEF Bounded
<1>5. ASSUME NEW t \in Threads, LookUpHit(t) \/ MapOnHost(t)
      PROVE  Bounded'
  <2>1. /\ pc[t] \in {"lookup", "mmap"}
        /\ pc' = [pc EXCEPT ![t] = AfterAlloc(t)]
        /\ nBuffers' = nBuffers /\ nLeases' = nLeases + 1
    BY <1>5 DEF LookUpHit, MapOnHost, Lease, Goto
  <2>2. /\ Reserving' \subseteq Reserving
        /\ Taking' \subseteq Taking \ {t} /\ t \in Taking
    BY <2>1 DEF Reserving, Taking, MemoryTypes, AfterAlloc
  <2>3. /\ Cardinality(Taking') + 1 <= Cardinality(Taking)
        /\ Cardinality(Taking') \in Nat /\ Cardinality(Taking) \in Nat
    BY <1>1, <2>2, OneLess
  <2>4. /\ Cardinality(Reserving') <= Cardinality(Reserving)
        /\ Cardinality(Reserving') \in Nat /\ Cardinality(Reserving) \in Nat
    BY <1>1, <2>2, NoMore
  <2>5. QED
    BY <1>1, <2>1, <2>3, <2>4 DEF Bounded
<1>6. ASSUME /\ nBuffers' = nBuffers /\ nLeases' = nLeases
             /\ Reserving' \subseteq Reserving /\ Taking' \subseteq Taking
      PROVE  Bounded'
  <2>1. /\ Cardinality(Taking') <= Cardinality(Taking)
        /\ Cardinality(Taking') \in Nat /\ Cardinality(Taking) \in Nat
        /\ Cardinality(Reserving') <= Cardinality(Reserving)
        /\ Cardinality(Reserving') \in Nat /\ Cardinality(Reserving) \in Nat
    BY <1>1, <1>6, NoMore
  <2>2. QED
    BY <1>1, <1>6, <2>1 DEF Bounded
<1>7. ASSUME NEW t \in Threads,
             \/ ReserveAddress(t) \/ AllocFails(t) \/ MapMemory(t)
             \/ MapClashes(t) \/ Zero(t) \/ Munmap(t) \/ UnmapMemory(t)
             \/ FreeMemory(t) \/ ClearDone(t) \/ Clear(t)
             \/ \E b \in held[t] : Recycle(t, b) \/ DropBuffer(t, b)
                                    \/ Launch(t, b)
      PROVE  Bounded'
  <2>1. nBuffers' = nBuffers /\ nLeases' = nLeases
    BY <1>7 DEF ReserveAddress, AllocFails, GiveUp, MapMemory, MapClashes, Zero,
       Munmap, UnmapMemory, FreeMemory, ClearDone, Clear, Recycle, DropBuffer,
       Launch, ledger
  <2>2. \E x \in Steps : /\ pc' = [pc EXCEPT ![t] = x]
                         /\ x \in {"reserve", "alloc"} => t \in Reserving
                         /\ x \in {"lookup", "reserve", "alloc", "map", "mmap"}
                              => t \in Taking
    <3>1. CASE ReserveAddress(t) \/ AllocFails(t) \/ MapMemory(t) \/ MapClashes(t)
      BY <3>1 DEF ReserveAddress, AllocFails, GiveUp, MapMemory, MapClashes,
         Goto, Steps, Reserving, Taking
    <3>2. CASE Zero(t) \/ Munmap(t) \/ UnmapMemory(t) \/ FreeMemory(t)
               \/ ClearDone(t) \/ Clear(t)
      BY <3>2 DEF Zero, Munmap, UnmapMemory, FreeMemory, ClearDone, Clear, Goto,
         Steps
    <3>3. CASE \E b \in held[t] : Recycle(t, b) \/ DropBuffer(t, b)
                                  \/ Launch(t, b)
      BY <3>3 DEF Recycle, DropBuffer, Launch, MayGiveUp, Goto, Steps,
         MemoryTypes
    <3>4. QED
      BY <1>7, <3>1, <3>2, <3>3
  <2>3. Reserving' \subseteq Reserving /\ Taking' \subseteq Taking
    BY <2>2 DEF Reserving, Taking, MemoryTypes
  <2>4. QED
    BY <1>6, <2>1, <2>3
<1>8. CASE GpuRun \/ UNCHANGED vars
  BY <1>6, <1>8 DEF GpuRun, vars, ledger, Reserving, Taking
<1>9. QED
  BY <1>2, <1>3, <1>4, <1>5, <1>7, <1>8 DEF Next, Step

-----------------------------------------------------------------------------
\* What BufferPool::alloc takes out of the cache is no longer in it.
LEMMA HitLemma ==
  ASSUME MemoryTypes, Apart, NEW t \in Threads, LookUpHit(t)
  PROVE  \E s \in Sizes \cap {Aligned(want[t])}, b \in Buffers :
           /\ InCache(b)
           /\ cache[s] # << >> /\ b = cache[s][Len(cache[s])]
           /\ Len(cache[s]) \in 1..Len(cache[s])
           /\ held' = [held EXCEPT ![t] = @ \cup {b}]
           /\ cur' = [cur EXCEPT ![t] = b]
           /\ Lease(t, b)
           /\ \A c : InCache(c)' <=> InCache(c) /\ c # b
           /\ \A r \in Sizes : /\ Len(cache'[r]) <= Len(cache[r])
                               /\ \A i \in 1..Len(cache'[r]) :
                                    /\ i \in 1..Len(cache[r])
                                    /\ cache'[r][i] = cache[r][i]
<1>1. PICK s \in Matches(t) :
        /\ cache' = [cache EXCEPT ![s] = Front(@)]
        /\ Lease(t, Last(cache[s]))
        /\ cur' = [cur EXCEPT ![t] = Last(cache[s])]
        /\ held' = [held EXCEPT ![t] = @ \cup {Last(cache[s])}]
  BY DEF LookUpHit
<1> DEFINE b == Last(cache[s])
           n == Len(cache[s])
<1>2. /\ s \in Sizes \cap {Aligned(want[t])} /\ cache[s] \in Seq(Buffers)
      /\ cache[s] # << >>
  BY <1>1 DEF Matches, MemoryTypes
<1>3. /\ Len(Front(cache[s])) = n - 1 /\ n \in Nat \ {0} /\ n \in 1..n
      /\ \A i \in 1..n - 1 : Front(cache[s])[i] = cache[s][i]
      /\ b = cache[s][n] /\ b \in Buffers
  BY <1>2, FrontLemma
<1>4. \A r \in Sizes : /\ cache[r] \in Seq(Buffers)
                       /\ cache'[r] = IF r = s THEN Front(cache[s]) ELSE cache[r]
  BY <1>1, <1>2 DEF MemoryTypes
<1>5. InCache(b)
  BY <1>2, <1>3 DEF InCache
<1> HIDE DEF b, n
<1>6. \A r \in Sizes : /\ Len(cache'[r]) <= Len(cache[r])
                       /\ \A i \in 1..Len(cache'[r]) :
                            /\ i \in 1..Len(cache[r])
                            /\ cache'[r][i] = cache[r][i]
                            /\ r = s => i # n
  <2> SUFFICES ASSUME NEW r \in Sizes
               PROVE  /\ Len(cache'[r]) <= Len(cache[r])
                      /\ \A i \in 1..Len(cache'[r]) :
                           /\ i \in 1..Len(cache[r])
                           /\ cache'[r][i] = cache[r][i]
                           /\ r = s => i # n
    OBVIOUS
  <2>1. CASE r = s
    BY <1>3, <1>4, <2>1 DEF n
  <2>2. CASE r # s
    BY <1>4, <2>2
  <2>3. QED
    BY <2>1, <2>2
<1>7. ASSUME NEW c, InCache(c)' PROVE InCache(c) /\ c # b
  <2>1. PICK r \in Sizes : \E i \in 1..Len(cache'[r]) : cache'[r][i] = c
    BY <1>7 DEF InCache
  <2>2. PICK i \in 1..Len(cache'[r]) : cache'[r][i] = c
    BY <2>1
  <2>3. i \in 1..Len(cache[r]) /\ cache[r][i] = c /\ (r = s => i # n)
    BY <1>6, <2>2
  <2>4. c # b
    BY <1>2, <1>3, <2>3 DEF Apart, n
  <2>5. QED
    BY <2>3, <2>4 DEF InCache
<1>8. ASSUME NEW c, InCache(c), c # b PROVE InCache(c)'
  <2>1. PICK r \in Sizes : \E i \in 1..Len(cache[r]) : cache[r][i] = c
    BY <1>8 DEF InCache
  <2>2. PICK i \in 1..Len(cache[r]) : cache[r][i] = c
    BY <2>1
  <2>3. i \in 1..Len(cache'[r]) /\ cache'[r][i] = c
    <3>1. CASE r = s
      <4>1. i # n
        BY <1>3, <1>8, <2>2, <3>1
      <4>2. i \in 1..n - 1
        BY <1>3, <2>2, <3>1, <4>1 DEF n
      <4>3. QED
        BY <1>3, <1>4, <2>2, <3>1, <4>2
    <3>2. CASE r # s
      BY <1>4, <2>2, <3>2
    <3>3. QED
      BY <3>1, <3>2
  <2>4. QED
    BY <2>3 DEF InCache
<1>9. QED
  <2>1. /\ b = cache[s][Len(cache[s])] /\ Len(cache[s]) \in 1..Len(cache[s])
    BY <1>3 DEF n
  <2>2. /\ held' = [held EXCEPT ![t] = @ \cup {b}]
        /\ cur' = [cur EXCEPT ![t] = b] /\ Lease(t, b)
    BY <1>1 DEF b
  <2>3. \A c : InCache(c)' <=> InCache(c) /\ c # b
    BY <1>7, <1>8
  <2>4. b \in Buffers
    BY <1>3
  <2>5. QED
    BY <1>2, <1>5, <1>6, <2>1, <2>2, <2>3, <2>4

\* What recycle puts into the cache is in it once more.
LEMMA RecycleLemma ==
  ASSUME MemoryTypes, NEW t \in Threads, NEW b \in Buffers, Recycle(t, b),
         bo[b].size \in Sizes
  PROVE  /\ \A c : InCache(c)' <=> InCache(c) \/ c = b
         /\ \A r \in Sizes : \A i \in 1..Len(cache'[r]) :
              \/ i \in 1..Len(cache[r]) /\ cache'[r][i] = cache[r][i]
              \/ /\ r = bo[b].size /\ i = Len(cache[r]) + 1
                 /\ cache'[r][i] = b
<1> DEFINE s == bo[b].size
<1>1. cache' = [cache EXCEPT ![s] = Append(@, b)]
  BY DEF Recycle
<1>2. \A r \in Sizes : /\ cache[r] \in Seq(Buffers) /\ Len(cache[r]) \in Nat
                       /\ cache'[r] = IF r = s THEN Append(cache[s], b)
                                              ELSE cache[r]
  BY <1>1 DEF MemoryTypes
<1> HIDE DEF s
<1>3. /\ Len(Append(cache[s], b)) = Len(cache[s]) + 1
      /\ \A i \in 1..Len(cache[s]) : Append(cache[s], b)[i] = cache[s][i]
      /\ Append(cache[s], b)[Len(cache[s]) + 1] = b
  BY <1>2, AppendProperties DEF s
<1>4. s \in Sizes /\ Len(cache[s]) \in Nat /\ cache'[s] = Append(cache[s], b)
  BY <1>2 DEF s
<1>13. Len(cache'[s]) = Len(cache[s]) + 1
  BY <1>3, <1>4
<1>5. \A r \in Sizes : \A i \in 1..Len(cache'[r]) :
        \/ i \in 1..Len(cache[r]) /\ cache'[r][i] = cache[r][i]
        \/ r = s /\ i = Len(cache[r]) + 1 /\ cache'[r][i] = b
  <2> SUFFICES ASSUME NEW r \in Sizes, NEW i \in 1..Len(cache'[r])
               PROVE  \/ i \in 1..Len(cache[r]) /\ cache'[r][i] = cache[r][i]
                      \/ r = s /\ i = Len(cache[r]) + 1 /\ cache'[r][i] = b
    OBVIOUS
  <2>1. CASE r = s
    BY <1>3, <1>4, <1>13, <2>1
  <2>2. CASE r # s
    BY <1>2, <2>2
  <2>3. QED
    BY <2>1, <2>2
<1>6. \A r \in Sizes : \A i \in 1..Len(cache[r]) :
        i \in 1..Len(cache'[r]) /\ cache'[r][i] = cache[r][i]
  <2> SUFFICES ASSUME NEW r \in Sizes, NEW i \in 1..Len(cache[r])
               PROVE  i \in 1..Len(cache'[r]) /\ cache'[r][i] = cache[r][i]
    OBVIOUS
  <2>1. CASE r = s
    BY <1>3, <1>4, <1>13, <2>1
  <2>2. CASE r # s
    BY <1>2, <2>2
  <2>3. QED
    BY <2>1, <2>2
<1>7. Len(cache[s]) + 1 \in 1..Len(cache'[s])
  BY <1>4, <1>13
<1>8. cache'[s][Len(cache[s]) + 1] = b
  BY <1>3, <1>4
<1>9. \A c : InCache(c)' => InCache(c) \/ c = b
  BY <1>5 DEF InCache
<1>10. \A c : InCache(c) => InCache(c)'
  BY <1>6 DEF InCache
<1>11. InCache(b)'
  BY <1>4, <1>7, <1>8 DEF InCache
<1>12. QED
  BY <1>5, <1>9, <1>10, <1>11 DEF s

\* What clear takes out of the cache is what the thread is to drop.
LEMMA ClearLemma ==
  ASSUME MemoryTypes, NEW t \in Threads, Clear(t)
  PROVE  \E all \in Seq(Buffers) :
           /\ dropping' = [dropping EXCEPT ![t] = all]
           /\ \A i \in 1..Len(all) : InCache(all[i])
           /\ \A i, j \in 1..Len(all) : all[i] = all[j] => i = j
           /\ \A b : InCache(b) => \E i \in 1..Len(all) : all[i] = b
           /\ all = << >> <=> pc'[t] = "clear"
           /\ \A b : ~InCache(b)'
<1>1. PICK all \in SetToSeqs(Cached) : dropping' = [dropping EXCEPT ![t] = all]
  BY DEF Clear
<1>2. all = << >> <=> pc'[t] = "clear"
  BY ClearOrder DEF Clear, Goto, MemoryTypes
<1>3. \A b : ~InCache(b)'
  BY DEF Clear, InCache
<1>4. QED
  BY <1>1, <1>2, <1>3, ClearOrder

\* Most steps move no BO, or lose the one they were building.
LEMMA QuietApart ==
  ASSUME Apart, UNCHANGED <<held, dropping, cache, nBuffers>>,
         \A u \in Threads : \A b : Builds(u, b)' => Builds(u, b)
  PROVE  Apart'
<1>1. /\ \A u \in Threads : \A b : InDrop(u, b)' <=> InDrop(u, b)
      /\ \A b : InCache(b)' <=> InCache(b)
  BY DEF InDrop, InCache
<1>2. \A u \in Threads : \A b : Has(u, b)' => Has(u, b)
  BY <1>1 DEF Has
<1>3. /\ \A t \in Threads, b \in Buffers : Has(t, b)' => b <= nBuffers'
      /\ \A b \in Buffers : InCache(b)' => b <= nBuffers'
      /\ \A t \in Threads, b \in Buffers : Has(t, b)' => ~InCache(b)'
  BY <1>1, <1>2 DEF Apart
<1>4. \A t, u \in Threads, b \in Buffers : Has(t, b)' /\ Has(u, b)' => t = u
  BY <1>2 DEF Apart
<1>5. \A t \in Threads : \A b \in held'[t] : ~InDrop(t, b)' /\ ~Builds(t, b)'
  BY <1>1 DEF Apart
<1>6. /\ \A t \in Threads : \A i, j \in 1..Len(dropping'[t]) :
           dropping'[t][i] = dropping'[t][j] => i = j
      /\ \A s, r \in Sizes :
           \A i \in 1..Len(cache'[s]), j \in 1..Len(cache'[r]) :
             cache'[s][i] = cache'[r][j] => s = r /\ i = j
  BY DEF Apart
<1>7. QED
  BY <1>3, <1>4, <1>5, <1>6 DEF Apart

\* The steps that take a BO from one place put it into one other.
LEMMA ApartStep ==
  ASSUME IsFiniteSet(Threads), MemoryTypes, Bounded, CallShape, Sized, Apart,
         [Next]_vars
  PROVE  Apart'
<1> USE DEF Goto, host, device, ledger, local
<1>1. ASSUME NEW t \in Threads,
             \/ \E c \in Calls, n \in Requests : CallAlloc(t, c, n)
             \/ LookUpMiss(t) \/ ReserveAddress(t) \/ AllocFails(t)
             \/ MapMemory(t) \/ MapClashes(t)
      PROVE  Apart'
  <2>1. UNCHANGED <<held, dropping, cache, nBuffers, cur>>
    BY <1>1 DEF CallAlloc, LookUpMiss, ReserveAddress, AllocFails, GiveUp,
       MapMemory, MapClashes
  <2>2. \A u \in Threads : pc'[u] \in {"map", "mmap"} => pc[u] \in {"map", "mmap"}
    BY <1>1 DEF CallAlloc, LookUpMiss, ReserveAddress, AllocFails, GiveUp,
       MapMemory, MapClashes, MemoryTypes
  <2>3. QED
    BY <2>1, <2>2, QuietApart DEF Builds
<1>2. ASSUME NEW t \in Threads,
             \/ Zero(t) \/ Munmap(t) \/ UnmapMemory(t) \/ ClearDone(t)
             \/ \E b \in held[t] : Launch(t, b)
      PROVE  Apart'
  <2>1. UNCHANGED <<held, dropping, cache, nBuffers, cur>>
    BY <1>2 DEF Zero, Munmap, UnmapMemory, ClearDone, Launch
  <2>2. \A u \in Threads : pc'[u] \in {"map", "mmap"} => pc[u] \in {"map", "mmap"}
    BY <1>2 DEF Zero, Munmap, UnmapMemory, ClearDone, Launch, MemoryTypes
  <2>3. QED
    BY <2>1, <2>2, QuietApart DEF Builds
<1>3. CASE GpuRun \/ UNCHANGED vars
  BY <1>3, QuietApart DEF GpuRun, vars, Builds
<1>4. ASSUME NEW t \in Threads, AllocMemory(t)
      PROVE  Apart'
  <2>1. /\ UNCHANGED <<held, dropping, cache>> /\ pc[t] = "alloc"
        /\ nBuffers' = nBuffers + 1 /\ nBuffers + 1 \in Buffers
        /\ nBuffers \in Nat
    BY <1>4, NumbersLeft DEF AllocMemory, MemoryTypes
  <2>2. \A u \in Threads, b \in Buffers :
          Builds(u, b)' <=> IF u = t THEN b = nBuffers + 1 ELSE Builds(u, b)
    BY <1>4 DEF AllocMemory, Builds, MemoryTypes
  <2>3. \A u \in Threads, b \in Buffers : Builds(u, b) => b # nBuffers + 1
    BY <2>1 DEF Apart, Has, Buffers
  <2>4. \A b : (InCache(b)' <=> InCache(b))
               /\ \A u \in Threads : InDrop(u, b)' <=> InDrop(u, b)
    BY <2>1 DEF InCache, InDrop
  <2>5. \A u \in Threads, b \in Buffers :
          Has(u, b)' <=> \/ b \in held[u] \/ InDrop(u, b)
                        \/ IF u = t THEN b = nBuffers + 1 ELSE Builds(u, b)
    BY <2>1, <2>2, <2>4 DEF Has
  <2>6. \A u \in Threads : held[u] \subseteq Buffers
    BY DEF MemoryTypes
  <2>7. \A u \in Threads, b \in Buffers :
          Has(u, b)' => Has(u, b) \/ (u = t /\ b = nBuffers + 1)
    BY <2>5 DEF Has
  <2>8. ~InCache(nBuffers + 1) /\ \A u \in Threads : ~Has(u, nBuffers + 1)
    BY <2>1 DEF Apart
  <2>9. /\ \A u \in Threads, b \in Buffers : Has(u, b)' => b <= nBuffers'
        /\ \A b \in Buffers : InCache(b)' => b <= nBuffers'
    BY <2>1, <2>4, <2>7 DEF Apart, Buffers
  <2>10. \A u, w \in Threads, b \in Buffers : Has(u, b)' /\ Has(w, b)' => u = w
    BY <2>7, <2>8 DEF Apart
  <2>11. \A u \in Threads, b \in Buffers : Has(u, b)' => ~InCache(b)'
    BY <2>4, <2>7, <2>8 DEF Apart
  <2>12. \A u \in Threads : \A b \in held'[u] : ~InDrop(u, b)' /\ ~Builds(u, b)'
    BY <2>1, <2>2, <2>4, <2>6, <2>8 DEF Apart, Has
  <2>13. QED
    BY <2>1, <2>9, <2>10, <2>11, <2>12 DEF Apart
<1>5. ASSUME NEW t \in Threads, MapOnHost(t)
      PROVE  Apart'
  <2>1. /\ UNCHANGED <<dropping, cache, nBuffers, cur>> /\ pc[t] = "mmap"
        /\ held' = [held EXCEPT ![t] = @ \cup {cur[t]}]
        /\ pc' = [pc EXCEPT ![t] = AfterAlloc(t)]
        /\ dropping[t] = << >>
    BY <1>5 DEF MapOnHost, CallShape, DropSteps
  <2>2. \A u \in Threads, b \in Buffers :
          Builds(u, b)' <=> u # t /\ Builds(u, b)
    BY <2>1 DEF Builds, AfterAlloc, MemoryTypes
  <2>3. \A u \in Threads : held'[u] = IF u = t THEN held[t] \cup {cur[t]}
                                              ELSE held[u]
    BY <2>1 DEF MemoryTypes
  <2>4. \A u \in Threads, b \in Buffers : Has(u, b)' <=> Has(u, b)
    BY <2>1, <2>2, <2>3 DEF Has, InDrop, Builds
  <2>5. \A b : InCache(b)' <=> InCache(b)
    BY <2>1 DEF InCache
  <2>6. \A u \in Threads : \A b \in held'[u] : ~InDrop(u, b)' /\ ~Builds(u, b)'
    <3> SUFFICES ASSUME NEW u \in Threads, NEW b \in held'[u]
                 PROVE  ~InDrop(u, b)' /\ ~Builds(u, b)'
      OBVIOUS
    <3>1. b \in Buffers
      BY <1>5, <2>3, NumbersLeft, BoundAssumption
         DEF MemoryTypes, CallShape, MapOnHost, Buffers
    <3>2. CASE u = t
      BY <2>1, <2>2, <3>1, <3>2 DEF InDrop
    <3>3. CASE u # t
      BY <2>1, <2>2, <2>3, <3>1, <3>3 DEF InDrop, Apart
    <3>4. QED
      BY <3>2, <3>3
  <2>7. QED
    BY <2>1, <2>4, <2>5, <2>6 DEF Apart
<1>6. ASSUME NEW t \in Threads, LookUpHit(t)
      PROVE  Apart'
  <2>1. PICK s \in Sizes \cap {Aligned(want[t])}, b \in Buffers :
           /\ InCache(b)
           /\ held' = [held EXCEPT ![t] = @ \cup {b}]
           /\ \A c : InCache(c)' <=> InCache(c) /\ c # b
           /\ \A r \in Sizes : /\ Len(cache'[r]) <= Len(cache[r])
                               /\ \A i \in 1..Len(cache'[r]) :
                                    /\ i \in 1..Len(cache[r])
                                    /\ cache'[r][i] = cache[r][i]
    BY <1>6, HitLemma
  <2>2. /\ UNCHANGED <<dropping, nBuffers>> /\ pc[t] = "lookup"
        /\ pc' = [pc EXCEPT ![t] = AfterAlloc(t)]
        /\ \A u \in Threads : u # t => cur'[u] = cur[u]
    BY <1>6 DEF LookUpHit, Lease, MemoryTypes
  <2>3. \A u \in Threads, c \in Buffers : Builds(u, c)' <=> Builds(u, c)
    BY <2>2 DEF Builds, AfterAlloc, MemoryTypes
  <2>4. \A u \in Threads : held'[u] = IF u = t THEN held[t] \cup {b} ELSE held[u]
    BY <2>1 DEF MemoryTypes
  <2>5. \A u \in Threads, c \in Buffers : InDrop(u, c)' <=> InDrop(u, c)
    BY <2>2 DEF InDrop
  <2>6. \A u \in Threads, c \in Buffers :
          Has(u, c)' <=> Has(u, c) \/ (u = t /\ c = b)
    BY <2>3, <2>4, <2>5 DEF Has
  <2>7. \A u \in Threads : ~Has(u, b)
    BY <2>1 DEF Apart
  <2>8. \A r, q \in Sizes : \A i \in 1..Len(cache'[r]), j \in 1..Len(cache'[q]) :
          cache'[r][i] = cache'[q][j] => r = q /\ i = j
    BY <2>1 DEF Apart
  <2>9. \A u \in Threads : \A c \in held'[u] : ~InDrop(u, c)' /\ ~Builds(u, c)'
    <3> SUFFICES ASSUME NEW u \in Threads, NEW c \in held'[u]
                 PROVE  ~InDrop(u, c)' /\ ~Builds(u, c)'
      OBVIOUS
    <3>1. c \in Buffers /\ (c = b \/ c \in held[u])
      BY <2>4 DEF MemoryTypes
    <3>2. QED
      BY <2>3, <2>5, <2>7, <3>1 DEF Apart, Has
  <2>10. /\ \A u \in Threads, c \in Buffers : Has(u, c)' => c <= nBuffers'
         /\ \A c \in Buffers : InCache(c)' => c <= nBuffers'
    BY <2>1, <2>2, <2>6 DEF Apart
  <2>11. \A u, w \in Threads, c \in Buffers : Has(u, c)' /\ Has(w, c)' => u = w
    BY <2>6, <2>7 DEF Apart
  <2>12. \A u \in Threads, c \in Buffers : Has(u, c)' => ~InCache(c)'
    BY <2>1, <2>6 DEF Apart
  <2>13. QED
    BY <2>2, <2>8, <2>9, <2>10, <2>11, <2>12 DEF Apart
<1>7. ASSUME NEW t \in Threads, NEW b \in held[t], Recycle(t, b)
      PROVE  Apart'
  <2>1. b \in Buffers /\ bo[b].size \in Sizes /\ Has(t, b)
    BY DEF MemoryTypes, Sized, Has
  <2>2. /\ \A c : InCache(c)' <=> InCache(c) \/ c = b
        /\ \A r \in Sizes : \A i \in 1..Len(cache'[r]) :
             \/ i \in 1..Len(cache[r]) /\ cache'[r][i] = cache[r][i]
             \/ /\ r = bo[b].size /\ i = Len(cache[r]) + 1
                /\ cache'[r][i] = b
    BY <1>7, <2>1, RecycleLemma
  <2>3. /\ UNCHANGED <<dropping, nBuffers, pc, cur>>
        /\ held' = [held EXCEPT ![t] = @ \ {b}]
    BY <1>7 DEF Recycle
  <2>4. \A u \in Threads : held'[u] = IF u = t THEN held[t] \ {b} ELSE held[u]
    BY <2>3 DEF MemoryTypes
  <2>5. \A u \in Threads : \A c : /\ InDrop(u, c)' <=> InDrop(u, c)
                                  /\ Builds(u, c)' <=> Builds(u, c)
    BY <2>3 DEF InDrop, Builds
  <2>6. ~InDrop(t, b) /\ ~Builds(t, b) /\ ~InCache(b)
    BY <2>1 DEF Apart
  <2>7. \A u \in Threads, c \in Buffers : Has(u, c)' => Has(u, c) /\ c # b
    <3> SUFFICES ASSUME NEW u \in Threads, NEW c \in Buffers, Has(u, c)'
                 PROVE  Has(u, c) /\ c # b
      OBVIOUS
    <3>1. Has(u, c)
      BY <2>4, <2>5 DEF Has
    <3>2. ASSUME c = b PROVE FALSE
      <4>1. u = t
        BY <2>1, <3>1, <3>2 DEF Apart
      <4>2. QED
        BY <2>4, <2>5, <2>6, <3>2, <4>1 DEF Has
    <3>3. QED
      BY <3>1, <3>2
  <2>8. \A r, q \in Sizes : \A i \in 1..Len(cache'[r]), j \in 1..Len(cache'[q]) :
          cache'[r][i] = cache'[q][j] => r = q /\ i = j
    <3>1. \A r \in Sizes : \A i \in 1..Len(cache[r]) : cache[r][i] # b
      BY <2>6 DEF InCache
    <3> SUFFICES ASSUME NEW r \in Sizes, NEW q \in Sizes,
                        NEW i \in 1..Len(cache'[r]),
                        NEW j \in 1..Len(cache'[q]), cache'[r][i] = cache'[q][j]
                 PROVE  r = q /\ i = j
      OBVIOUS
    <3>2. \/ i \in 1..Len(cache[r]) /\ cache'[r][i] = cache[r][i]
          \/ r = bo[b].size /\ i = Len(cache[r]) + 1 /\ cache'[r][i] = b
      BY <2>2
    <3>3. \/ j \in 1..Len(cache[q]) /\ cache'[q][j] = cache[q][j]
          \/ q = bo[b].size /\ j = Len(cache[q]) + 1 /\ cache'[q][j] = b
      BY <2>2
    <3>4. CASE cache'[r][i] = b
      BY <3>1, <3>2, <3>3, <3>4
    <3>5. CASE cache'[r][i] # b
      BY <3>2, <3>3, <3>5 DEF Apart
    <3>6. QED
      BY <3>4, <3>5
  <2>9. \A u \in Threads : \A c \in held'[u] : ~InDrop(u, c)' /\ ~Builds(u, c)'
    BY <2>4, <2>5 DEF Apart
  <2>10. /\ \A u \in Threads, c \in Buffers : Has(u, c)' => c <= nBuffers'
         /\ \A c \in Buffers : InCache(c)' => c <= nBuffers'
    BY <2>1, <2>2, <2>3, <2>7 DEF Apart
  <2>11. \A u, w \in Threads, c \in Buffers : Has(u, c)' /\ Has(w, c)' => u = w
    BY <2>7 DEF Apart
  <2>12. \A u \in Threads, c \in Buffers : Has(u, c)' => ~InCache(c)'
    BY <2>2, <2>7 DEF Apart
  <2>13. QED
    BY <2>3, <2>8, <2>9, <2>10, <2>11, <2>12 DEF Apart
<1>8. ASSUME NEW t \in Threads, NEW b \in held[t], DropBuffer(t, b)
      PROVE  Apart'
  <2>1. b \in Buffers /\ Has(t, b) /\ dropping[t] = << >>
    BY <1>8 DEF MemoryTypes, Has, CallShape, DropSteps, DropBuffer, MayGiveUp
  <2>2. /\ UNCHANGED <<cache, nBuffers, cur>>
        /\ held' = [held EXCEPT ![t] = @ \ {b}]
        /\ dropping' = [dropping EXCEPT ![t] = <<b>>]
        /\ pc[t] = "idle" /\ pc' = [pc EXCEPT ![t] = "munmap"]
    BY <1>8 DEF DropBuffer, MayGiveUp
  <2>3. \A u \in Threads :
          /\ held'[u] = IF u = t THEN held[t] \ {b} ELSE held[u]
          /\ dropping'[u] = IF u = t THEN <<b>> ELSE dropping[u]
    BY <2>2 DEF MemoryTypes
  <2>4. \A u \in Threads : \A c : /\ Builds(u, c)' <=> Builds(u, c)
                                  /\ InDrop(u, c)' <=> InDrop(u, c) \/ (u = t /\ c = b)
    <3> SUFFICES ASSUME NEW u \in Threads, NEW c
                 PROVE  /\ Builds(u, c)' <=> Builds(u, c)
                        /\ InDrop(u, c)' <=> InDrop(u, c) \/ (u = t /\ c = b)
      OBVIOUS
    <3>1. Builds(u, c)' <=> Builds(u, c)
      BY <2>2 DEF Builds, MemoryTypes
    <3>2. CASE u = t
      BY <2>1, <2>3, <3>1, <3>2 DEF InDrop
    <3>3. CASE u # t
      BY <2>3, <3>1, <3>3 DEF InDrop
    <3>4. QED
      BY <3>2, <3>3
  <2>5. \A b1 : InCache(b1)' <=> InCache(b1)
    BY <2>2 DEF InCache
  <2>6. \A u \in Threads, c \in Buffers : Has(u, c)' => Has(u, c)
    BY <2>1, <2>3, <2>4 DEF Has
  <2>7. \A u \in Threads : \A c \in held'[u] : ~InDrop(u, c)' /\ ~Builds(u, c)'
    BY <2>3, <2>4 DEF Apart
  <2>8. \A u \in Threads : \A i, j \in 1..Len(dropping'[u]) :
          dropping'[u][i] = dropping'[u][j] => i = j
    <3> SUFFICES ASSUME NEW u \in Threads
                 PROVE  \A i, j \in 1..Len(dropping'[u]) :
                          dropping'[u][i] = dropping'[u][j] => i = j
      OBVIOUS
    <3>1. CASE u = t
      BY <2>3, <3>1
    <3>2. CASE u # t
      BY <2>3, <3>2 DEF Apart
    <3>3. QED
      BY <3>1, <3>2
  <2>9. QED
    BY <2>2, <2>5, <2>6, <2>7, <2>8 DEF Apart
<1>9. ASSUME NEW t \in Threads, Clear(t)
      PROVE  Apart'
  <2>1. PICK all \in Seq(Buffers) :
           /\ dropping' = [dropping EXCEPT ![t] = all]
           /\ \A i \in 1..Len(all) : InCache(all[i])
           /\ \A i, j \in 1..Len(all) : all[i] = all[j] => i = j
           /\ \A b : InCache(b) => \E i \in 1..Len(all) : all[i] = b
           /\ \A b : ~InCache(b)'
    BY <1>9, ClearLemma
  <2>2. /\ UNCHANGED <<held, nBuffers, cur>> /\ pc[t] = "idle"
        /\ \E x \in {"clear", "munmap"} : pc' = [pc EXCEPT ![t] = x]
        /\ dropping[t] = << >>
    BY <1>9 DEF Clear, CallShape, DropSteps
  <2>3. \A u \in Threads : dropping'[u] = IF u = t THEN all ELSE dropping[u]
    BY <2>1 DEF MemoryTypes
  <2>4. \A u \in Threads : \A c : /\ Builds(u, c)' <=> Builds(u, c)
                                  /\ u = t => ~InDrop(u, c)
                                  /\ InDrop(u, c)' <=> InDrop(u, c)
                                                   \/ (u = t /\ InCache(c))
    <3> SUFFICES ASSUME NEW u \in Threads, NEW c
                 PROVE  /\ Builds(u, c)' <=> Builds(u, c)
                        /\ u = t => ~InDrop(u, c)
                        /\ InDrop(u, c)' <=> InDrop(u, c) \/ (u = t /\ InCache(c))
      OBVIOUS
    <3>1. Builds(u, c)' <=> Builds(u, c)
      BY <2>2 DEF Builds, MemoryTypes
    <3>2. CASE u = t
      BY <2>1, <2>2, <2>3, <3>1, <3>2 DEF InDrop
    <3>3. CASE u # t
      BY <2>3, <3>1, <3>3 DEF InDrop
    <3>4. QED
      BY <3>2, <3>3
  <2>5. \A u \in Threads, c \in Buffers :
          Has(u, c)' => Has(u, c) \/ (u = t /\ InCache(c))
    BY <2>2, <2>4 DEF Has
  <2>6. \A u \in Threads : \A c \in held'[u] : ~InDrop(u, c)' /\ ~Builds(u, c)'
    BY <2>2, <2>4 DEF Apart, Has, MemoryTypes
  <2>7. \A u \in Threads : \A i, j \in 1..Len(dropping'[u]) :
          dropping'[u][i] = dropping'[u][j] => i = j
    <3> SUFFICES ASSUME NEW u \in Threads
                 PROVE  \A i, j \in 1..Len(dropping'[u]) :
                          dropping'[u][i] = dropping'[u][j] => i = j
      OBVIOUS
    <3>1. CASE u = t
      BY <2>1, <2>3, <3>1
    <3>2. CASE u # t
      BY <2>3, <3>2 DEF Apart
    <3>3. QED
      BY <3>1, <3>2
  <2>8. cache' = [s \in Sizes |-> << >>]
    BY <1>9 DEF Clear
  <2>9. \A u, w \in Threads, c \in Buffers : Has(u, c)' /\ Has(w, c)' => u = w
    BY <2>5 DEF Apart
  <2>10. QED
    BY <2>1, <2>2, <2>5, <2>6, <2>7, <2>8, <2>9 DEF Apart
<1>10. ASSUME NEW t \in Threads, FreeMemory(t)
      PROVE  Apart'
  <2>1. /\ UNCHANGED <<held, cache, nBuffers, cur>>
        /\ dropping' = [dropping EXCEPT ![t] = Tail(@)]
        /\ pc[t] = "free"
        /\ \E x \in {"munmap", "clear", "idle"} : pc' = [pc EXCEPT ![t] = x]
        /\ dropping[t] \in Seq(Buffers) /\ dropping[t] # << >>
    BY <1>10 DEF FreeMemory, CallShape, DropSteps, MemoryTypes
  <2>2. \A u \in Threads :
          dropping'[u] = IF u = t THEN Tail(dropping[t]) ELSE dropping[u]
    BY <2>1 DEF MemoryTypes
  <2>3. /\ Len(Tail(dropping[t])) = Len(dropping[t]) - 1
        /\ Len(dropping[t]) \in Nat
        /\ \A i \in 1..Len(dropping[t]) - 1 :
             Tail(dropping[t])[i] = dropping[t][i + 1]
    BY <2>1, TailLemma
  <2>4. \A u \in Threads, c \in Buffers :
          /\ Builds(u, c)' <=> Builds(u, c)
          /\ InDrop(u, c)' => InDrop(u, c)
    <3> SUFFICES ASSUME NEW u \in Threads, NEW c \in Buffers
                 PROVE  /\ Builds(u, c)' <=> Builds(u, c)
                        /\ InDrop(u, c)' => InDrop(u, c)
      OBVIOUS
    <3>1. Builds(u, c)' <=> Builds(u, c)
      BY <2>1 DEF Builds, MemoryTypes
    <3>2. CASE u = t
      <4>1. ASSUME NEW i \in 1..Len(dropping'[u]), dropping'[u][i] = c
            PROVE  InDrop(u, c)
        <5>1. i \in 1..Len(dropping[t]) - 1 /\ dropping[t][i + 1] = c
          BY <2>2, <2>3, <3>2, <4>1
        <5>2. i + 1 \in 1..Len(dropping[t])
          BY <2>3, <5>1
        <5>3. QED
          BY <3>2, <5>1, <5>2 DEF InDrop
      <4>2. QED
        BY <3>1, <4>1 DEF InDrop
    <3>3. CASE u # t
      BY <2>2, <3>1, <3>3 DEF InDrop
    <3>4. QED
      BY <3>2, <3>3
  <2>5. \A u \in Threads, c \in Buffers : Has(u, c)' => Has(u, c)
    BY <2>1, <2>4 DEF Has
  <2>6. \A c : InCache(c)' <=> InCache(c)
    BY <2>1 DEF InCache
  <2>7. \A u \in Threads : \A i, j \in 1..Len(dropping'[u]) :
          dropping'[u][i] = dropping'[u][j] => i = j
    <3> SUFFICES ASSUME NEW u \in Threads, NEW i \in 1..Len(dropping'[u]),
                        NEW j \in 1..Len(dropping'[u]),
                        dropping'[u][i] = dropping'[u][j]
                 PROVE  i = j
      OBVIOUS
    <3>1. CASE u = t
      <4>1. /\ i \in 1..Len(dropping[t]) - 1 /\ j \in 1..Len(dropping[t]) - 1
            /\ dropping[t][i + 1] = dropping[t][j + 1]
        BY <2>2, <2>3, <3>1
      <4>2. i + 1 \in 1..Len(dropping[t]) /\ j + 1 \in 1..Len(dropping[t])
        BY <2>3, <4>1
      <4>3. i + 1 = j + 1
        BY <4>1, <4>2 DEF Apart
      <4>4. QED
        BY <4>1, <4>3
    <3>2. CASE u # t
      BY <2>2, <3>2 DEF Apart
    <3>3. QED
      BY <3>1, <3>2
  <2>8. \A u \in Threads : \A c \in held'[u] : ~InDrop(u, c)' /\ ~Builds(u, c)'
    BY <2>1, <2>4 DEF Apart, MemoryTypes
  <2>9. QED
    BY <2>1, <2>5, <2>6, <2>7, <2>8 DEF Apart
<1>11. QED
  BY <1>1, <1>2, <1>3, <1>4, <1>5, <1>6, <1>7, <1>8, <1>9, <1>10
     DEF Next, Step

-----------------------------------------------------------------------------
\* The BO a thread is dropping is in no other place.
LEMMA VictimLemma ==
  ASSUME MemoryTypes, CallShape, Apart, NEW t \in Threads, pc[t] \in DropSteps
  PROVE  /\ Victim(t) \in Buffers /\ Victim(t) = dropping[t][1]
         /\ 1 \in 1..Len(dropping[t])
         /\ \A u \in Threads : Victim(t) \notin held[u] /\ ~Builds(u, Victim(t))
         /\ ~InCache(Victim(t))
         /\ \A u \in Threads : \A i \in 1..Len(dropping[u]) :
              dropping[u][i] = Victim(t) => u = t /\ i = 1
<1> DEFINE v == Victim(t)
<1>1. dropping[t] \in Seq(Buffers) /\ dropping[t] # << >>
  BY DEF MemoryTypes, CallShape
<1>2. v = dropping[t][1] /\ v \in Buffers /\ 1 \in 1..Len(dropping[t])
  BY <1>1, TailLemma DEF Victim
<1> HIDE DEF v
<1>3. InDrop(t, v) /\ Has(t, v)
  BY <1>2 DEF InDrop, Has
<1>4. ASSUME NEW u \in Threads, Has(u, v) PROVE u = t
  BY <1>2, <1>3, <1>4 DEF Apart
<1>5. ASSUME NEW u \in Threads, v \in held[u] PROVE FALSE
  BY <1>3, <1>4, <1>5 DEF Apart, Has
<1>6. ASSUME NEW u \in Threads, Builds(u, v) PROVE FALSE
  <2>1. u = t
    BY <1>4, <1>6 DEF Has
  <2>2. QED
    BY <1>6, <2>1 DEF Builds, DropSteps
<1>7. ~InCache(v)
  BY <1>2, <1>3 DEF Apart
<1>8. ASSUME NEW u \in Threads, NEW i \in 1..Len(dropping[u]), dropping[u][i] = v
      PROVE  u = t /\ i = 1
  <2>1. u = t
    BY <1>4, <1>8 DEF Has, InDrop
  <2>2. QED
    BY <1>2, <1>8, <2>1 DEF Apart
<1>9. QED
  BY <1>2, <1>5, <1>6, <1>7, <1>8 DEF v

\* A write to a BO's memory changes its contents and no more.
LEMMA BoWritten ==
  ASSUME MemoryTypes, NEW x, NEW d, bo' = [bo EXCEPT ![x].data = d]
  PROVE  \A b \in Buffers :
           /\ bo'[b].live = bo[b].live /\ bo'[b].va = bo[b].va
           /\ bo'[b].size = bo[b].size
           /\ bo'[b].data = IF b = x THEN d ELSE bo[b].data
<1> SUFFICES ASSUME NEW b \in Buffers
             PROVE  /\ bo'[b].live = bo[b].live /\ bo'[b].va = bo[b].va
                    /\ bo'[b].size = bo[b].size
                    /\ bo'[b].data = IF b = x THEN d ELSE bo[b].data
  OBVIOUS
<1>1. bo[b] \in Bo
  BY DEF MemoryTypes
<1>2. bo'[b] = IF b = x THEN [bo[b] EXCEPT !.data = d] ELSE bo[b]
  BY DEF MemoryTypes
<1>3. QED
  BY <1>1, <1>2 DEF Bo

\* A write changes the contents of one BO.
Writes(x, d) == bo' = [bo EXCEPT ![x].data = d]

\* The contents a write leaves.
LEMMA DataWritten ==
  ASSUME MemoryTypes, NEW x, NEW d, Writes(x, d), NEW b \in Buffers
  PROVE  bo'[b].data = IF b = x THEN d ELSE bo[b].data
<1>1. bo[b] \in Bo
  BY DEF MemoryTypes
<1>2. bo'[b] = IF b = x THEN [bo[b] EXCEPT !.data = d] ELSE bo[b]
  BY DEF MemoryTypes, Writes
<1>3. QED
  BY <1>1, <1>2 DEF Bo

\* Most steps leave the mappings alone.
LEMMA QuietMapped ==
  ASSUME MemoryTypes, CallShape, nBuffers <= MaxBuffers, Mapped,
         UNCHANGED <<hostMap, gpuMap>>,
         \A b \in Buffers : bo'[b].live = bo[b].live /\ bo'[b].va = bo[b].va,
         \A b \in Buffers : Settled(b)' => Settled(b),
         \A u \in Threads : pc'[u] \in Claiming =>
           pc'[u] = pc[u] /\ at'[u] = at[u] /\ cur'[u] = cur[u]
  PROVE  Mapped'
<1>1. \A b \in Buffers : Up(b)' <=> Up(b)
  BY DEF Up
<1>2. \A u \in Threads : pc[u] \in {"map", "mmap"} => cur[u] \in Buffers
  BY BoundAssumption DEF CallShape, Buffers, MemoryTypes
<1>3. \A b \in Buffers : Settled(b)' => Up(b)'
  BY <1>1 DEF Mapped
<1>4. \A u \in Threads : pc'[u] \in {"map", "mmap"} =>
        bo'[cur'[u]].live /\ bo'[cur'[u]].va = at'[u]
  BY <1>2 DEF Mapped, Claiming
<1>5. QED
  BY <1>3, <1>4 DEF Mapped, Claiming

\* No step unmaps, for the host or for the GPU, what somebody still has.
LEMMA MappedStep ==
  ASSUME IsFiniteSet(Threads), MemoryTypes, Bounded, CallShape, Sized, Apart,
         Mapped, [Next]_vars
  PROVE  Mapped'
<1> USE DEF Goto, host, device, ledger, local
<1>0. nBuffers <= MaxBuffers /\ nBuffers \in Nat
  <2>1. CASE \E t \in Threads : TRUE
    BY <2>1, NumbersLeft DEF MemoryTypes
  <2>2. CASE Threads = {}
    BY <2>2, FS_EmptySet, BoundAssumption DEF Bounded, Reserving, MemoryTypes
  <2>3. QED
    BY <2>1, <2>2
<1>1. ASSUME NEW t \in Threads,
             \/ \E c \in Calls, n \in Requests : CallAlloc(t, c, n)
             \/ LookUpMiss(t) \/ AllocFails(t) \/ MapClashes(t)
             \/ ClearDone(t) \/ \E b \in held[t] : Launch(t, b)
      PROVE  Mapped'
  <2>1. UNCHANGED <<hostMap, gpuMap, bo, held, dropping, cache, cur, at>>
    BY <1>1 DEF CallAlloc, LookUpMiss, AllocFails, GiveUp, MapClashes, ClearDone,
       Launch
  <2>2. \E x \in {"lookup", "reserve", "idle"} : pc' = [pc EXCEPT ![t] = x]
    <3>1. CASE \E b \in held[t] : Launch(t, b)
      BY <3>1 DEF Launch, MemoryTypes
    <3>2. CASE \/ \E c \in Calls, n \in Requests : CallAlloc(t, c, n)
               \/ LookUpMiss(t) \/ AllocFails(t) \/ MapClashes(t)
               \/ ClearDone(t)
      BY <3>2 DEF CallAlloc, LookUpMiss, AllocFails, GiveUp, MapClashes,
         ClearDone
    <3>3. QED
      BY <1>1, <3>1, <3>2
  <2>3. \A u \in Threads : pc'[u] \in Claiming \cup {"munmap"} => pc'[u] = pc[u]
    BY <2>2 DEF MemoryTypes, Claiming
  <2>4. \A b \in Buffers : Settled(b)' => Settled(b)
    BY <2>1, <2>3 DEF Settled, InCache
  <2>5. QED
    BY <1>0, <2>1, <2>3, <2>4, QuietMapped
<1>2. CASE GpuRun \/ (\E t \in Threads : Zero(t)) \/ UNCHANGED vars
  <2>1. UNCHANGED <<hostMap, gpuMap, held, dropping, cache, cur, at>>
    BY <1>2 DEF GpuRun, Zero, vars
  <2>2. \A u \in Threads : pc'[u] \in Claiming \cup {"munmap"} => pc'[u] = pc[u]
    BY <1>2 DEF GpuRun, Zero, vars, MemoryTypes, Claiming
  <2>3. \A b \in Buffers : bo'[b].live = bo[b].live /\ bo'[b].va = bo[b].va
    <3> SUFFICES ASSUME NEW b \in Buffers
                 PROVE  bo'[b].live = bo[b].live /\ bo'[b].va = bo[b].va
      OBVIOUS
    <3>1. CASE GpuRun
      BY <3>1, BoWritten DEF GpuRun
    <3>2. ASSUME NEW t \in Threads, Zero(t)
          PROVE  bo'[b].live = bo[b].live /\ bo'[b].va = bo[b].va
      BY <3>2, BoWritten DEF Zero
    <3>3. CASE UNCHANGED vars
      BY <3>3 DEF vars
    <3>4. QED
      BY <1>2, <3>1, <3>2, <3>3
  <2>4. \A b \in Buffers : Settled(b)' => Settled(b)
    BY <2>1, <2>2 DEF Settled, InCache
  <2>5. QED
    BY <1>0, <2>1, <2>2, <2>3, <2>4, QuietMapped
<1>3. ASSUME NEW t \in Threads, LookUpHit(t)
      PROVE  Mapped'
  <2>1. PICK b \in Buffers : /\ InCache(b)
                            /\ held' = [held EXCEPT ![t] = @ \cup {b}]
                            /\ cur' = [cur EXCEPT ![t] = b]
                            /\ \A c : InCache(c)' <=> InCache(c) /\ c # b
    BY <1>3, HitLemma
  <2>2. /\ UNCHANGED <<hostMap, gpuMap, bo, dropping, at>>
        /\ \E x \in {"zero", "idle"} : pc' = [pc EXCEPT ![t] = x]
    BY <1>3 DEF LookUpHit, Lease, AfterAlloc
  <2>3. \A u \in Threads : pc'[u] \in Claiming \cup {"munmap"} =>
          pc'[u] = pc[u] /\ cur'[u] = cur[u]
    BY <2>1, <2>2 DEF MemoryTypes, Claiming
  <2>4. \A c \in Buffers : (\E u \in Threads : c \in held'[u]) =>
          c = b \/ \E u \in Threads : c \in held[u]
    BY <2>1 DEF MemoryTypes
  <2>5. \A c \in Buffers : Settled(c)' => Settled(c)
    BY <2>1, <2>2, <2>3, <2>4 DEF Settled
  <2>6. QED
    BY <1>0, <2>2, <2>3, <2>5, QuietMapped
<1>4. ASSUME NEW t \in Threads, NEW b \in held[t], Recycle(t, b)
      PROVE  Mapped'
  <2>1. b \in Buffers /\ bo[b].size \in Sizes
    BY DEF MemoryTypes, Sized
  <2>2. \A c : InCache(c)' <=> InCache(c) \/ c = b
    BY <1>4, <2>1, RecycleLemma
  <2>3. /\ UNCHANGED <<hostMap, gpuMap, bo, dropping, at, pc, cur>>
        /\ held' = [held EXCEPT ![t] = @ \ {b}]
    BY <1>4 DEF Recycle
  <2>4. \A c : (\E u \in Threads : c \in held'[u]) => \E u \in Threads : c \in held[u]
    BY <2>3 DEF MemoryTypes
  <2>5. \A c \in Buffers : Settled(c)' => Settled(c)
    BY <2>2, <2>3, <2>4 DEF Settled
  <2>6. QED
    BY <1>0, <2>3, <2>5, QuietMapped
<1>5. ASSUME NEW t \in Threads, NEW b \in held[t], DropBuffer(t, b)
      PROVE  Mapped'
  <2>1. /\ UNCHANGED <<hostMap, gpuMap, bo, cache, at, cur>>
        /\ held' = [held EXCEPT ![t] = @ \ {b}]
        /\ dropping' = [dropping EXCEPT ![t] = <<b>>]
        /\ pc' = [pc EXCEPT ![t] = "munmap"]
    BY <1>5 DEF DropBuffer
  <2>2. \A c : (\E u \in Threads : c \in held'[u]) => \E u \in Threads : c \in held[u]
    BY <2>1 DEF MemoryTypes
  <2>3. \A u \in Threads : u # t => dropping'[u] = dropping[u] /\ pc'[u] = pc[u]
    BY <2>1 DEF MemoryTypes
  <2>4. \A i \in 1..Len(dropping'[t]) : dropping'[t][i] = b
    BY <2>1 DEF MemoryTypes
  <2>5. \A c \in Buffers : Settled(c)' => Settled(c)
    BY <2>1, <2>2, <2>3, <2>4 DEF Settled, InCache
  <2>6. \A u \in Threads : pc'[u] \in Claiming => pc'[u] = pc[u]
    BY <2>1 DEF MemoryTypes, Claiming
  <2>7. QED
    BY <1>0, <2>1, <2>5, <2>6, QuietMapped
<1>6. ASSUME NEW t \in Threads, Clear(t)
      PROVE  Mapped'
  <2>1. PICK all \in Seq(Buffers) :
           /\ dropping' = [dropping EXCEPT ![t] = all]
           /\ \A i \in 1..Len(all) : InCache(all[i])
           /\ \A b : ~InCache(b)'
    BY <1>6, ClearLemma
  <2>2. /\ UNCHANGED <<hostMap, gpuMap, bo, held, at, cur>>
        /\ \E x \in {"clear", "munmap"} : pc' = [pc EXCEPT ![t] = x]
    BY <1>6 DEF Clear
  <2>3. \A u \in Threads : u # t => dropping'[u] = dropping[u] /\ pc'[u] = pc[u]
    BY <2>1, <2>2 DEF MemoryTypes
  <2>4. \A i \in 1..Len(dropping'[t]) : InCache(dropping'[t][i])
    BY <2>1 DEF MemoryTypes
  <2>5. \A c \in Buffers : Settled(c)' => Settled(c)
    BY <2>1, <2>2, <2>3, <2>4 DEF Settled
  <2>6. \A u \in Threads : pc'[u] \in Claiming => pc'[u] = pc[u]
    BY <2>2 DEF MemoryTypes, Claiming
  <2>7. QED
    BY <1>0, <2>2, <2>5, <2>6, QuietMapped
<1>7. ASSUME NEW t \in Threads, ReserveAddress(t)
      PROVE  Mapped'
  <2>1. PICK a \in Addresses : /\ hostMap[a] = "free"
                              /\ hostMap' = [hostMap EXCEPT ![a] = "reserved"]
                              /\ at' = [at EXCEPT ![t] = a]
    BY <1>7 DEF ReserveAddress
  <2>2. /\ UNCHANGED <<gpuMap, bo, held, dropping, cache, cur>>
        /\ pc[t] = "reserve" /\ pc' = [pc EXCEPT ![t] = "alloc"]
    BY <1>7 DEF ReserveAddress
  <2>3. \A b \in Buffers : Settled(b)' => Settled(b)
    BY <2>2 DEF Settled, InCache, MemoryTypes
  <2>4. \A c \in Addresses : hostMap'[c] = IF c = a THEN "reserved" ELSE hostMap[c]
    BY <2>1 DEF MemoryTypes
  <2>5. \A b \in Buffers : bo[b].va \in Addresses
    BY DEF MemoryTypes, Bo
  <2>6. \A b \in Buffers : Settled(b)' => Up(b)'
    BY <2>1, <2>2, <2>3, <2>4, <2>5 DEF Mapped, Up
  <2>7. \A u \in Threads : /\ u # t => pc'[u] = pc[u] /\ at'[u] = at[u]
                           /\ u = t => pc'[u] = "alloc" /\ at'[u] = a
                           /\ at[u] \in Addresses
    BY <2>1, <2>2 DEF MemoryTypes
  <2>8. \A u \in Threads : u # t /\ pc[u] \in Claiming => at[u] # a
    BY <2>1 DEF Mapped
  <2>9. \A u \in Threads : pc'[u] \in Claiming => hostMap'[at'[u]] = "reserved"
    BY <2>1, <2>4, <2>7, <2>8 DEF Mapped
  <2>10. \A u, w \in Threads :
           pc'[u] \in Claiming /\ pc'[w] \in Claiming /\ at'[u] = at'[w] => u = w
    BY <2>7, <2>8 DEF Mapped
  <2>11. \A u \in Threads : pc'[u] \in {"map", "mmap"} => u # t
    BY <2>7
  <2>12. QED
    BY <2>2, <2>6, <2>7, <2>9, <2>10, <2>11 DEF Mapped
<1>8. ASSUME NEW t \in Threads, AllocMemory(t)
      PROVE  Mapped'
  <2> DEFINE n == nBuffers + 1
  <2>1. /\ UNCHANGED <<hostMap, gpuMap, held, dropping, cache, at>>
        /\ pc[t] = "alloc" /\ pc' = [pc EXCEPT ![t] = "map"]
        /\ cur' = [cur EXCEPT ![t] = n]
        /\ bo' = [bo EXCEPT ![n] = [va |-> at[t], size |-> Aligned(want[t]),
                                    live |-> TRUE, data |-> -1]]
    BY <1>8 DEF AllocMemory
  <2>2. n \in Buffers /\ n \in Nat
    BY <2>1, NumbersLeft, <1>0
  <2> HIDE DEF n
  <2>3. \A b \in Buffers : Settled(b)' => Settled(b)
    BY <2>1 DEF Settled, InCache, MemoryTypes
  <2>4. /\ \A b \in Buffers : b # n => bo'[b] = bo[b]
        /\ bo'[n].live /\ bo'[n].va = at[t]
    BY <2>1, <2>2 DEF MemoryTypes
  <2>5. \A u \in Threads : ~Has(u, n) /\ ~InCache(n)
    BY <1>0, <2>2 DEF Apart, n
  <2>6. ~Settled(n)
    BY <2>5 DEF Settled, Has, InDrop
  <2>7. \A b \in Buffers : Settled(b)' => Up(b)'
    BY <2>1, <2>3, <2>4, <2>6 DEF Mapped, Up
  <2>8. \A u \in Threads : /\ u # t => pc'[u] = pc[u] /\ cur'[u] = cur[u]
                           /\ u = t => pc'[u] = "map" /\ cur'[u] = n
    BY <2>1 DEF MemoryTypes
  <2>9. \A u \in Threads : pc[u] \in {"map", "mmap"} => cur[u] \in Buffers /\ cur[u] # n
    BY <1>0, BoundAssumption DEF CallShape, Buffers, n
  <2>10. \A u \in Threads : pc'[u] \in {"map", "mmap"} =>
           bo'[cur'[u]].live /\ bo'[cur'[u]].va = at'[u]
    BY <2>1, <2>4, <2>8, <2>9 DEF Mapped
  <2>11. \A u \in Threads : pc'[u] \in Claiming => pc[u] \in Claiming
    BY <2>1, <2>8 DEF Claiming
  <2>12. \A u \in Threads : pc'[u] = "mmap" => u # t
    BY <2>8
  <2>13. QED
    BY <2>1, <2>7, <2>8, <2>10, <2>11, <2>12 DEF Mapped
<1>9. ASSUME NEW t \in Threads, MapMemory(t)
      PROVE  Mapped'
  <2>1. /\ UNCHANGED <<hostMap, bo, held, dropping, cache, cur, at>>
        /\ pc[t] = "map" /\ pc' = [pc EXCEPT ![t] = "mmap"]
        /\ gpuMap[at[t]] = None
        /\ gpuMap' = [gpuMap EXCEPT ![at[t]] = cur[t]]
    BY <1>9 DEF MapMemory
  <2>2. \A b \in Buffers : Settled(b)' => Settled(b)
    BY <2>1 DEF Settled, InCache, MemoryTypes
  <2>3. \A a \in Addresses : gpuMap'[a] = IF a = at[t] THEN cur[t] ELSE gpuMap[a]
    BY <2>1 DEF MemoryTypes
  <2>10. \A b \in Buffers : b # None
    BY BoundAssumption DEF Buffers, None
  <2>4. \A b \in Buffers : bo[b].va \in Addresses /\ b # None
    BY <2>10 DEF MemoryTypes, Bo
  <2>5. \A b \in Buffers : Settled(b)' => Up(b)'
    BY <2>1, <2>2, <2>3, <2>4 DEF Mapped, Up
  <2>6. \A u \in Threads : /\ u # t => pc'[u] = pc[u]
                           /\ u = t => pc'[u] = "mmap"
                           /\ at[u] \in Addresses
    BY <2>1 DEF MemoryTypes
  <2>7. \A u \in Threads : pc'[u] = "mmap" => gpuMap'[at'[u]] = cur'[u]
    BY <2>1, <2>3, <2>6 DEF Mapped, Claiming
  <2>8. \A u \in Threads : /\ pc'[u] \in Claiming => pc[u] \in Claiming
                           /\ pc'[u] \in {"map", "mmap"}
                                => pc[u] \in {"map", "mmap"}
    BY <2>1, <2>6 DEF Claiming
  <2>9. QED
    BY <2>1, <2>5, <2>7, <2>8 DEF Mapped
<1>10. ASSUME NEW t \in Threads, MapOnHost(t)
      PROVE  Mapped'
  <2> DEFINE b0 == cur[t]
  <2>1. /\ UNCHANGED <<gpuMap, bo, dropping, cache, cur, at>>
        /\ pc[t] = "mmap" /\ \E x \in {"zero", "idle"} : pc' = [pc EXCEPT ![t] = x]
        /\ hostMap' = [hostMap EXCEPT ![at[t]] = "mapped"]
        /\ held' = [held EXCEPT ![t] = @ \cup {b0}]
    BY <1>10 DEF MapOnHost, AfterAlloc
  <2>2. /\ b0 \in Buffers /\ bo[b0].live /\ bo[b0].va = at[t]
        /\ gpuMap[at[t]] = b0
    BY <1>0, <2>1, BoundAssumption DEF CallShape, Buffers, Mapped
  <2> HIDE DEF b0
  <2>3. \A u \in Threads :
          /\ u # t => pc'[u] = pc[u] /\ held'[u] = held[u]
          /\ u = t => pc'[u] \in {"zero", "idle"} /\ held'[u] = held[u] \cup {b0}
          /\ at[u] \in Addresses
    BY <2>1 DEF MemoryTypes
  <2>4. \A b \in Buffers : Settled(b)' => Settled(b) \/ b = b0
    BY <2>1, <2>3 DEF Settled, InCache
  <2>5. \A a \in Addresses : hostMap'[a] = IF a = at[t] THEN "mapped" ELSE hostMap[a]
    BY <2>1 DEF MemoryTypes
  <2>6. \A b \in Buffers : bo[b].va \in Addresses
    BY DEF MemoryTypes, Bo
  <2>7. \A b \in Buffers : Settled(b)' => Up(b)'
    BY <2>1, <2>2, <2>4, <2>5, <2>6 DEF Mapped, Up
  <2>8. \A u \in Threads : pc'[u] \in Claiming => u # t /\ pc[u] \in Claiming
    BY <2>3 DEF Claiming
  <2>9. \A u \in Threads : pc'[u] \in Claiming => hostMap'[at'[u]] = "reserved"
    BY <2>1, <2>3, <2>5, <2>8 DEF Mapped, Claiming
  <2>10. \A u \in Threads : pc'[u] \in {"map", "mmap"} => pc'[u] = pc[u]
    BY <2>3
  <2>11. QED
    BY <2>1, <2>7, <2>8, <2>9, <2>10 DEF Mapped
<1>11. ASSUME NEW t \in Threads, Munmap(t)
      PROVE  Mapped'
  <2> DEFINE v == Victim(t)
  <2>1. /\ UNCHANGED <<gpuMap, bo, held, dropping, cache, cur, at>>
        /\ pc[t] = "munmap" /\ pc' = [pc EXCEPT ![t] = "unmap"]
        /\ hostMap' = [hostMap EXCEPT ![bo[v].va] = "free"]
    BY <1>11 DEF Munmap
  <2>2. /\ v \in Buffers /\ v = dropping[t][1] /\ 1 \in 1..Len(dropping[t])
        /\ ~InCache(v) /\ \A u \in Threads : v \notin held[u]
        /\ \A u \in Threads : \A i \in 1..Len(dropping[u]) :
              dropping[u][i] = v => u = t /\ i = 1
    BY <2>1, VictimLemma DEF DropSteps
  <2>3. Settled(v)
    BY <2>1, <2>2 DEF Settled
  <2>4. Up(v)
    BY <2>2, <2>3 DEF Mapped
  <2> HIDE DEF v
  <2>5. \A u \in Threads : /\ u # t => pc'[u] = pc[u]
                           /\ u = t => pc'[u] = "unmap"
                           /\ at[u] \in Addresses
    BY <2>1 DEF MemoryTypes
  <2>6. \A b \in Buffers : Settled(b)' => Settled(b) /\ b # v
    BY <2>1, <2>2, <2>5 DEF Settled, InCache
  <2>7. \A b \in Buffers : bo[b].va \in Addresses
    BY DEF MemoryTypes, Bo
  <2>8. \A a \in Addresses : hostMap'[a] = IF a = bo[v].va THEN "free" ELSE hostMap[a]
    BY <2>1 DEF MemoryTypes
  <2>9. ASSUME NEW b \in Buffers, Settled(b)' PROVE Up(b)'
    <3>1. Up(b) /\ b # v
      BY <2>6, <2>9 DEF Mapped
    <3>2. bo[b].va # bo[v].va
      BY <2>4, <3>1 DEF Up
    <3>3. QED
      BY <2>1, <2>7, <2>8, <3>1, <3>2 DEF Up
  <2>10. \A u \in Threads : pc'[u] \in Claiming => u # t /\ pc[u] = pc'[u]
    BY <2>5 DEF Claiming
  <2>11. \A u \in Threads : pc[u] \in Claiming => at[u] # bo[v].va
    BY <2>4 DEF Mapped, Up
  <2>12. \A u \in Threads : pc'[u] \in Claiming => hostMap'[at'[u]] = "reserved"
    BY <2>1, <2>5, <2>8, <2>10, <2>11 DEF Mapped
  <2>13. \A u \in Threads : pc'[u] \in {"map", "mmap"} => pc'[u] = pc[u]
    BY <2>5
  <2>14. QED
    BY <2>1, <2>9, <2>10, <2>12, <2>13 DEF Mapped
<1>12. ASSUME NEW t \in Threads, UnmapMemory(t)
      PROVE  Mapped'
  <2> DEFINE v == Victim(t)
  <2>1. /\ UNCHANGED <<hostMap, bo, held, dropping, cache, cur, at>>
        /\ pc[t] = "unmap" /\ pc' = [pc EXCEPT ![t] = "free"]
        /\ gpuMap' = [gpuMap EXCEPT ![bo[v].va] = IF @ = v THEN None ELSE @]
    BY <1>12 DEF UnmapMemory
  <2>2. /\ v \in Buffers
        /\ ~InCache(v) /\ \A u \in Threads : v \notin held[u] /\ ~Builds(u, v)
        /\ \A u \in Threads : \A i \in 1..Len(dropping[u]) :
              dropping[u][i] = v => u = t /\ i = 1
    BY <2>1, VictimLemma DEF DropSteps
  <2> HIDE DEF v
  <2>3. \A u \in Threads : /\ u # t => pc'[u] = pc[u]
                           /\ u = t => pc'[u] = "free"
                           /\ at[u] \in Addresses
    BY <2>1 DEF MemoryTypes
  <2>4. \A b \in Buffers : Settled(b)' => Settled(b) /\ b # v
    BY <2>1, <2>2, <2>3 DEF Settled, InCache
  <2>5. \A b \in Buffers : bo[b].va \in Addresses
    BY DEF MemoryTypes, Bo
  <2>6. \A a \in Addresses : gpuMap[a] # v => gpuMap'[a] = gpuMap[a]
    BY <2>1 DEF MemoryTypes
  <2>7. \A b \in Buffers : Settled(b)' => Up(b)'
    BY <2>1, <2>4, <2>5, <2>6 DEF Mapped, Up
  <2>8. \A u \in Threads : pc'[u] \in Claiming => pc'[u] = pc[u]
    BY <2>3 DEF Claiming
  <2>9. \A u \in Threads : pc'[u] = "mmap" => gpuMap'[at'[u]] = cur'[u]
    BY <2>1, <2>2, <2>3, <2>6 DEF Mapped, Builds
  <2>10. \A u \in Threads : pc'[u] \in {"map", "mmap"} => pc'[u] = pc[u]
    BY <2>3
  <2>11. QED
    BY <2>1, <2>7, <2>8, <2>9, <2>10 DEF Mapped
<1>13. ASSUME NEW t \in Threads, FreeMemory(t)
      PROVE  Mapped'
  <2> DEFINE v == Victim(t)
  <2>1. /\ UNCHANGED <<hostMap, gpuMap, held, cache, cur, at>>
        /\ pc[t] = "free"
        /\ \E x \in {"munmap", "clear", "idle"} : pc' = [pc EXCEPT ![t] = x]
        /\ bo' = [bo EXCEPT ![v].live = FALSE]
        /\ dropping' = [dropping EXCEPT ![t] = Tail(@)]
    BY <1>13 DEF FreeMemory
  <2>2. /\ v \in Buffers /\ v = dropping[t][1]
        /\ ~InCache(v) /\ \A u \in Threads : v \notin held[u] /\ ~Builds(u, v)
        /\ \A u \in Threads : \A i \in 1..Len(dropping[u]) :
              dropping[u][i] = v => u = t /\ i = 1
    BY <2>1, VictimLemma DEF DropSteps
  <2>3. dropping[t] \in Seq(Buffers) /\ dropping[t] # << >>
    BY <2>1 DEF MemoryTypes, CallShape, DropSteps
  <2>4. /\ Len(Tail(dropping[t])) = Len(dropping[t]) - 1
        /\ Len(dropping[t]) \in Nat
        /\ \A i \in 1..Len(dropping[t]) - 1 :
             Tail(dropping[t])[i] = dropping[t][i + 1]
    BY <2>3, TailLemma
  <2> HIDE DEF v
  <2>5. \A u \in Threads : /\ u # t => pc'[u] = pc[u] /\ dropping'[u] = dropping[u]
                           /\ u = t => pc'[u] \in {"munmap", "clear", "idle"}
                                      /\ dropping'[u] = Tail(dropping[u])
    BY <2>1 DEF MemoryTypes
  <2>6. ASSUME NEW b \in Buffers, Settled(b)' PROVE Settled(b) /\ b # v
    <3>1. ASSUME NEW u \in Threads, NEW i \in 1..Len(dropping'[u]),
                 dropping'[u][i] = b, i # 1 \/ pc'[u] = "munmap"
          PROVE  Settled(b) /\ b # v
      <4>1. CASE u = t
        <5>1. i \in 1..Len(dropping[t]) - 1 /\ dropping[t][i + 1] = b
          BY <2>4, <2>5, <3>1, <4>1
        <5>2. i + 1 \in 1..Len(dropping[t]) /\ i + 1 # 1
          BY <2>4, <5>1
        <5>3. QED
          BY <2>2, <5>1, <5>2 DEF Settled
      <4>2. CASE u # t
        BY <2>2, <2>5, <3>1, <4>2 DEF Settled
      <4>3. QED
        BY <4>1, <4>2
    <3>2. CASE InCache(b)'
      <4>1. InCache(b)
        BY <2>1, <3>2 DEF InCache
      <4>2. QED
        BY <2>2, <4>1 DEF Settled
    <3>3. CASE \E u \in Threads : b \in held'[u]
      BY <2>1, <2>2, <3>3 DEF Settled
    <3>4. QED
      BY <2>6, <3>1, <3>2, <3>3 DEF Settled
  <2>7. \A b \in Buffers : b # v => bo'[b] = bo[b]
    BY <2>1 DEF MemoryTypes
  <2>9. \A b \in Buffers : Settled(b)' => Up(b)'
    BY <2>1, <2>6, <2>7 DEF Mapped, Up
  <2>10. \A u \in Threads : /\ pc'[u] \in Claiming => pc'[u] = pc[u]
                            /\ pc'[u] \in {"map", "mmap"} => pc'[u] = pc[u]
    BY <2>5 DEF Claiming
  <2>11. \A u \in Threads : pc[u] \in {"map", "mmap"} => cur[u] \in Buffers /\ cur[u] # v
    BY <1>0, <2>2, BoundAssumption DEF CallShape, Buffers, Builds
  <2>12. QED
    BY <2>1, <2>7, <2>9, <2>10, <2>11 DEF Mapped
<1>20. QED
  BY <1>1, <1>2, <1>3, <1>4, <1>5, <1>6, <1>7, <1>8, <1>9, <1>10, <1>11, <1>12,
     <1>13 DEF Next, Step

-----------------------------------------------------------------------------
\* Sizes and leases stay what they were when a buffer was handed out.
QuietHands ==
  /\ UNCHANGED <<asked, nLeases>>
  /\ \A t \in Threads : held'[t] \subseteq held[t]
  /\ \A t \in Threads : \A b \in held'[t] : lease'[b] = lease[b]
  /\ \A b \in Buffers : bo'[b].size = bo[b].size
  /\ \A t \in Threads, b \in Buffers :
       Builds(t, b)' => Builds(t, b) /\ want'[t] = want[t]

\* A step that hands nothing out keeps leases and sizes.
LEMMA QuietLeased ==
  ASSUME MemoryTypes, Leased, Sized, QuietHands
  PROVE  /\ Leased'
         /\ \A t \in Threads : \A b \in held'[t] :
              bo'[b].size \in Sizes /\ bo'[b].size >= asked'[lease'[b]].bytes
         /\ \A t \in Threads, b \in Buffers :
              Builds(t, b)' => bo'[b].size = Aligned(want'[t])
<1>1. \A t \in Threads : held[t] \subseteq Buffers
  BY DEF MemoryTypes
<1>2. Leased'
  BY DEF Leased, QuietHands
<1>3. \A t \in Threads : \A b \in held'[t] :
        bo'[b].size \in Sizes /\ bo'[b].size >= asked'[lease'[b]].bytes
  BY <1>1 DEF Sized, QuietHands
<1>4. \A t \in Threads, b \in Buffers :
        Builds(t, b)' => bo'[b].size = Aligned(want'[t])
  BY DEF Sized, QuietHands
<1>5. QED
  BY <1>2, <1>3, <1>4

\* A buffer handed out is as large as asked for, and its lease is new.
LEMMA HandOut ==
  ASSUME MemoryTypes, Leased, Sized, NEW t \in Threads, NEW b \in Buffers,
         Lease(t, b), nLeases + 1 \in Leases, UNCHANGED bo,
         held' = [held EXCEPT ![t] = @ \cup {b}],
         \A u \in Threads : b \notin held[u],
         bo[b].size = Aligned(want[t])
  PROVE  /\ Leased'
         /\ \A u \in Threads : \A c \in held'[u] :
              bo'[c].size \in Sizes /\ bo'[c].size >= asked'[lease'[c]].bytes
<1> DEFINE n == nLeases + 1
<1>1. /\ nLeases' = n /\ lease' = [lease EXCEPT ![b] = n]
      /\ asked' = [asked EXCEPT ![n] =
                     [bytes |-> want[t], zeroed |-> op[t] = "alloc_zero"]]
      /\ nLeases \in Nat
  BY DEF Lease, MemoryTypes
<1>2. \A u \in Threads : /\ held[u] \subseteq Buffers
                         /\ held'[u] = IF u = t THEN held[t] \cup {b} ELSE held[u]
  BY DEF MemoryTypes
<1>3. \A c \in Buffers : lease'[c] = IF c = b THEN n ELSE lease[c]
  BY <1>1 DEF MemoryTypes
<1>4. \A l \in Leases : l # n => asked'[l] = asked[l]
  BY <1>1 DEF MemoryTypes
<1>5. asked'[n].bytes = want[t] /\ want[t] \in Requests
  BY <1>1 DEF MemoryTypes
<1>6. bo[b].size \in Sizes /\ bo[b].size >= want[t]
  BY <1>5, AlignedType, SizesType, SizeAssumption
<1>7. \A u \in Threads : \A c \in held[u] :
        lease[c] \in 1..nLeases /\ lease[c] \in Leases /\ lease[c] # n
  BY <1>1, BoundAssumption DEF Leased, Leases
<1> HIDE DEF n
<1>8. \A u \in Threads : \A c \in held'[u] :
        bo'[c].size \in Sizes /\ bo'[c].size >= asked'[lease'[c]].bytes
  BY <1>2, <1>3, <1>4, <1>5, <1>6, <1>7 DEF Sized
<1>9. \A u \in Threads : \A c \in held'[u] : lease'[c] \in 1..nLeases'
  BY <1>1, <1>2, <1>3, <1>7 DEF n
<1>10. \A u, w \in Threads : \A c \in held'[u], d \in held'[w] :
         lease'[c] = lease'[d] => c = d
  BY <1>2, <1>3, <1>7 DEF Leased
<1>11. QED
  BY <1>8, <1>9, <1>10 DEF Leased

\* No step gives a buffer a lease that is in use, or a request less than it
\* asked for.
LEMMA SizedStep ==
  ASSUME IsFiniteSet(Threads), MemoryTypes, Bounded, CallShape, Apart, Sized,
         Leased, [Next]_vars
  PROVE  Leased' /\ Sized'
<1> USE DEF Goto, host, device, ledger, local
<1>1. ASSUME NEW t \in Threads,
             \/ \E c \in Calls, n \in Requests : CallAlloc(t, c, n)
             \/ LookUpMiss(t) \/ ReserveAddress(t) \/ AllocFails(t)
             \/ MapMemory(t) \/ MapClashes(t)
      PROVE  Leased' /\ Sized'
  <2>1. /\ UNCHANGED <<asked, nLeases, held, lease, bo, cache, cur>>
        /\ \A u \in Threads : pc'[u] \in {"map", "mmap"}
             => pc[u] \in {"map", "mmap"} /\ want'[u] = want[u]
    BY <1>1 DEF CallAlloc, LookUpMiss, ReserveAddress, AllocFails, GiveUp,
       MapMemory, MapClashes, MemoryTypes
  <2>2. QuietHands
    BY <2>1 DEF QuietHands, Builds
  <2>3. QED
    BY <2>1, <2>2, QuietLeased DEF Sized
<1>2. ASSUME NEW t \in Threads,
             \/ Munmap(t) \/ UnmapMemory(t) \/ ClearDone(t)
             \/ \E b \in held[t] : Launch(t, b)
      PROVE  Leased' /\ Sized'
  <2>1. /\ UNCHANGED <<asked, nLeases, held, lease, bo, cache, cur, want>>
        /\ \A u \in Threads : pc'[u] \in {"map", "mmap"}
             => pc[u] \in {"map", "mmap"}
    BY <1>2 DEF Munmap, UnmapMemory, ClearDone, Launch, MemoryTypes
  <2>2. QuietHands
    BY <2>1 DEF QuietHands, Builds
  <2>3. QED
    BY <2>1, <2>2, QuietLeased DEF Sized
<1>3. CASE UNCHANGED vars
  <2>1. QuietHands /\ UNCHANGED <<bo, cache>>
    BY <1>3 DEF QuietHands, Builds, vars
  <2>2. QED
    BY <2>1, QuietLeased DEF Sized
<1>4. CASE GpuRun \/ \E t \in Threads : Zero(t)
  <2>1. /\ UNCHANGED <<asked, nLeases, held, lease, cache, cur, want>>
        /\ \A u \in Threads : pc'[u] \in {"map", "mmap"}
             => pc[u] \in {"map", "mmap"}
    BY <1>4 DEF GpuRun, Zero, MemoryTypes
  <2>2. \A b \in Buffers : bo'[b].size = bo[b].size
    <3>1. CASE GpuRun
      BY <3>1, BoWritten DEF GpuRun
    <3>2. CASE \E t \in Threads : Zero(t)
      BY <3>2, BoWritten DEF Zero
    <3>3. QED
      BY <1>4, <3>1, <3>2
  <2>3. QuietHands
    BY <2>1, <2>2 DEF QuietHands, Builds
  <2>4. \A s \in Sizes : \A i \in 1..Len(cache[s]) : cache[s][i] \in Buffers
    BY DEF MemoryTypes
  <2>5. QED
    BY <2>1, <2>2, <2>3, <2>4, QuietLeased DEF Sized
<1>5. ASSUME NEW t \in Threads, FreeMemory(t)
      PROVE  Leased' /\ Sized'
  <2>1. /\ UNCHANGED <<asked, nLeases, held, lease, cache, cur, want>>
        /\ \A u \in Threads : pc'[u] \in {"map", "mmap"}
             => pc[u] \in {"map", "mmap"}
        /\ bo' = [bo EXCEPT ![Victim(t)].live = FALSE]
    BY <1>5 DEF FreeMemory, MemoryTypes
  <2>2. \A b \in Buffers : bo'[b].size = bo[b].size
    <3> SUFFICES ASSUME NEW b \in Buffers PROVE bo'[b].size = bo[b].size
      OBVIOUS
    <3>1. bo[b] \in Bo
      BY DEF MemoryTypes
    <3>2. bo'[b] = bo[b] \/ bo'[b] = [bo[b] EXCEPT !.live = FALSE]
      BY <2>1 DEF MemoryTypes
    <3>3. QED
      BY <3>1, <3>2 DEF Bo
  <2>3. QuietHands
    BY <2>1, <2>2 DEF QuietHands, Builds
  <2>4. \A s \in Sizes : \A i \in 1..Len(cache[s]) : cache[s][i] \in Buffers
    BY DEF MemoryTypes
  <2>5. QED
    BY <2>1, <2>2, <2>3, <2>4, QuietLeased DEF Sized
<1>6. ASSUME NEW t \in Threads, Clear(t)
      PROVE  Leased' /\ Sized'
  <2>1. /\ UNCHANGED <<asked, nLeases, held, lease, bo, cur, want>>
        /\ cache' = [s \in Sizes |-> << >>]
        /\ \A u \in Threads : pc'[u] \in {"map", "mmap"}
             => pc[u] \in {"map", "mmap"}
    BY <1>6 DEF Clear, MemoryTypes
  <2>2. QuietHands
    BY <2>1 DEF QuietHands, Builds
  <2>3. QED
    BY <2>1, <2>2, QuietLeased DEF Sized
<1>7. ASSUME NEW t \in Threads, NEW b \in held[t], DropBuffer(t, b)
      PROVE  Leased' /\ Sized'
  <2>1. /\ UNCHANGED <<asked, nLeases, bo, cache, cur, want>>
        /\ held' = [held EXCEPT ![t] = @ \ {b}]
        /\ lease' = [lease EXCEPT ![b] = None]
        /\ \A u \in Threads : pc'[u] \in {"map", "mmap"}
             => pc[u] \in {"map", "mmap"}
    BY <1>7 DEF DropBuffer, MemoryTypes
  <2>2. \A u \in Threads : held'[u] \subseteq held[u] /\ b \notin held'[u]
    BY <2>1 DEF MemoryTypes, Apart, Has
  <2>3. \A u \in Threads : \A c \in held'[u] : lease'[c] = lease[c]
    BY <2>1, <2>2 DEF MemoryTypes
  <2>4. QuietHands
    BY <2>1, <2>2, <2>3 DEF QuietHands, Builds
  <2>5. QED
    BY <2>1, <2>4, QuietLeased DEF Sized
<1>8. ASSUME NEW t \in Threads, NEW b \in held[t], Recycle(t, b)
      PROVE  Leased' /\ Sized'
  <2>1. /\ UNCHANGED <<asked, nLeases, bo, cur, want, pc>>
        /\ held' = [held EXCEPT ![t] = @ \ {b}]
        /\ lease' = [lease EXCEPT ![b] = None]
    BY <1>8 DEF Recycle
  <2>2. \A u \in Threads : held'[u] \subseteq held[u] /\ b \notin held'[u]
    BY <2>1 DEF MemoryTypes, Apart, Has
  <2>3. \A u \in Threads : \A c \in held'[u] : lease'[c] = lease[c]
    BY <2>1, <2>2 DEF MemoryTypes
  <2>4. QuietHands
    BY <2>1, <2>2, <2>3 DEF QuietHands, Builds
  <2>5. \A r \in Sizes : \A i \in 1..Len(cache'[r]) :
          \/ i \in 1..Len(cache[r]) /\ cache'[r][i] = cache[r][i]
          \/ r = bo[b].size /\ cache'[r][i] = b
    <3>1. b \in Buffers /\ bo[b].size \in Sizes
      BY DEF MemoryTypes, Sized
    <3>2. QED
      BY <1>8, <3>1, RecycleLemma
  <2>6. \A s \in Sizes : \A i \in 1..Len(cache'[s]) : bo'[cache'[s][i]].size = s
    BY <2>1, <2>5 DEF Sized
  <2>7. QED
    BY <2>4, <2>6, QuietLeased DEF Sized
<1>9. ASSUME NEW t \in Threads, LookUpHit(t)
      PROVE  Leased' /\ Sized'
  <2>1. PICK s \in Sizes \cap {Aligned(want[t])}, b \in Buffers :
           /\ InCache(b)
           /\ b = cache[s][Len(cache[s])] /\ Len(cache[s]) \in 1..Len(cache[s])
           /\ held' = [held EXCEPT ![t] = @ \cup {b}]
           /\ Lease(t, b)
           /\ \A r \in Sizes : \A i \in 1..Len(cache'[r]) :
                i \in 1..Len(cache[r]) /\ cache'[r][i] = cache[r][i]
    BY <1>9, HitLemma
  <2>2. /\ UNCHANGED <<bo, want>> /\ pc[t] = "lookup"
        /\ pc' = [pc EXCEPT ![t] = AfterAlloc(t)]
        /\ \A u \in Threads : u # t => cur'[u] = cur[u]
        /\ nLeases + 1 \in Leases
    BY <1>9, NumbersLeft DEF LookUpHit, MemoryTypes
  <2>3. bo[b].size = Aligned(want[t])
    BY <2>1 DEF Sized
  <2>4. \A u \in Threads : b \notin held[u]
    BY <2>1 DEF Apart, Has
  <2>5. /\ Leased'
        /\ \A u \in Threads : \A c \in held'[u] :
              bo'[c].size \in Sizes /\ bo'[c].size >= asked'[lease'[c]].bytes
    BY <2>1, <2>2, <2>3, <2>4, HandOut
  <2>6. \A u \in Threads, c \in Buffers : Builds(u, c)' => Builds(u, c)
    BY <2>2 DEF Builds, AfterAlloc, MemoryTypes
  <2>7. \A u \in Threads, c \in Buffers :
          Builds(u, c)' => bo'[c].size = Aligned(want'[u])
    BY <2>2, <2>6 DEF Sized
  <2>8. \A r \in Sizes : \A i \in 1..Len(cache'[r]) : bo'[cache'[r][i]].size = r
    BY <2>1, <2>2 DEF Sized
  <2>9. QED
    BY <2>5, <2>7, <2>8 DEF Sized
<1>10. ASSUME NEW t \in Threads, MapOnHost(t)
      PROVE  Leased' /\ Sized'
  <2> DEFINE b == cur[t]
  <2>1. /\ UNCHANGED <<bo, want, cur, cache>> /\ pc[t] = "mmap"
        /\ pc' = [pc EXCEPT ![t] = AfterAlloc(t)]
        /\ held' = [held EXCEPT ![t] = @ \cup {b}] /\ Lease(t, b)
        /\ nLeases + 1 \in Leases
    BY <1>10, NumbersLeft DEF MapOnHost
  <2>2. b \in Buffers /\ Builds(t, b)
    BY <2>1, NumbersLeft, BoundAssumption DEF CallShape, Buffers, Builds, MemoryTypes
  <2> HIDE DEF b
  <2>3. bo[b].size = Aligned(want[t])
    BY <2>2 DEF Sized
  <2>4. \A u \in Threads : b \notin held[u]
    BY <2>2 DEF Apart, Has
  <2>5. /\ Leased'
        /\ \A u \in Threads : \A c \in held'[u] :
              bo'[c].size \in Sizes /\ bo'[c].size >= asked'[lease'[c]].bytes
    BY <2>1, <2>2, <2>3, <2>4, HandOut
  <2>6. \A u \in Threads, c \in Buffers : Builds(u, c)' => Builds(u, c)
    BY <2>1 DEF Builds, AfterAlloc, MemoryTypes
  <2>7. \A u \in Threads, c \in Buffers :
          Builds(u, c)' => bo'[c].size = Aligned(want'[u])
    BY <2>1, <2>6 DEF Sized
  <2>8. QED
    BY <2>1, <2>5, <2>7 DEF Sized
<1>11. ASSUME NEW t \in Threads, AllocMemory(t)
      PROVE  Leased' /\ Sized'
  <2> DEFINE n == nBuffers + 1
  <2>1. /\ UNCHANGED <<asked, nLeases, held, lease, cache, want>>
        /\ pc[t] = "alloc" /\ pc' = [pc EXCEPT ![t] = "map"]
        /\ cur' = [cur EXCEPT ![t] = n]
        /\ bo' = [bo EXCEPT ![n] = [va |-> at[t], size |-> Aligned(want[t]),
                                    live |-> TRUE, data |-> -1]]
    BY <1>11 DEF AllocMemory
  <2>2. n \in Buffers /\ n \in Nat /\ nBuffers < n /\ nBuffers \in Nat
    BY <2>1, NumbersLeft DEF MemoryTypes, Buffers
  <2> HIDE DEF n
  <2>3. /\ \A b \in Buffers : b # n => bo'[b] = bo[b]
        /\ bo'[n].size = Aligned(want[t])
    BY <2>1, <2>2 DEF MemoryTypes
  <2>4. ~InCache(n) /\ \A u \in Threads : n \notin held[u]
    BY <2>2 DEF Apart, Has, Buffers
  <2>5. /\ \A u \in Threads : held[u] \subseteq Buffers
        /\ \A s \in Sizes : \A i \in 1..Len(cache[s]) :
             cache[s][i] \in Buffers /\ cache[s][i] # n
    BY <2>4 DEF MemoryTypes, InCache
  <2>6. Leased'
    BY <2>1 DEF Leased
  <2>7. \A u \in Threads : \A c \in held'[u] :
          bo'[c].size \in Sizes /\ bo'[c].size >= asked'[lease'[c]].bytes
    BY <2>1, <2>3, <2>4, <2>5 DEF Sized
  <2>8. \A s \in Sizes : \A i \in 1..Len(cache'[s]) : bo'[cache'[s][i]].size = s
    BY <2>1, <2>3, <2>5 DEF Sized
  <2>9. ASSUME NEW u \in Threads, NEW c \in Buffers, Builds(u, c)'
        PROVE  bo'[c].size = Aligned(want'[u])
    <3>1. CASE u = t
      BY <2>1, <2>3, <2>9, <3>1 DEF Builds, MemoryTypes
    <3>2. CASE u # t
      <4>1. Builds(u, c)
        BY <2>1, <2>9, <3>2 DEF Builds, MemoryTypes
      <4>2. c # n
        BY <2>2, <4>1 DEF Apart, Has, Buffers
      <4>3. QED
        BY <2>1, <2>3, <4>1, <4>2 DEF Sized
    <3>3. QED
      BY <3>1, <3>2
  <2>10. QED
    BY <2>6, <2>7, <2>8, <2>9 DEF Sized
<1>12. QED
  BY <1>1, <1>2, <1>3, <1>4, <1>5, <1>6, <1>7, <1>8, <1>9, <1>10, <1>11
     DEF Next, Step

-----------------------------------------------------------------------------
\* A BO that somebody can still free.
Tracked(b) == InCache(b) \/ \E t \in Threads : Has(t, b)

Leaks == failures = 0 => \A b \in Buffers : bo[b].live => Tracked(b)

\* No step loses a BO, except an allocation that fails.
LEMMA LeaksStep ==
  ASSUME IsFiniteSet(Threads), MemoryTypes, Bounded, CallShape, Apart, Sized,
         Leaks, [Next]_vars
  PROVE  Leaks'
<1> USE DEF Goto, host, device, ledger, local
<1>1. ASSUME NEW t \in Threads, AllocFails(t) \/ MapClashes(t)
      PROVE  Leaks'
  BY <1>1 DEF AllocFails, MapClashes, GiveUp, Leaks, MemoryTypes
<1>2. ASSUME UNCHANGED failures,
             \A b \in Buffers : bo'[b].live => bo[b].live \/ Tracked(b)',
             \A b \in Buffers : bo'[b].live /\ Tracked(b) => Tracked(b)'
      PROVE  Leaks'
  BY <1>2 DEF Leaks
<1>3. ASSUME NEW t \in Threads,
             \/ \E c \in Calls, n \in Requests : CallAlloc(t, c, n)
             \/ LookUpMiss(t) \/ ReserveAddress(t) \/ MapMemory(t)
             \/ Munmap(t) \/ UnmapMemory(t) \/ ClearDone(t)
             \/ \E b \in held[t] : Launch(t, b)
      PROVE  Leaks'
  <2>1. /\ UNCHANGED <<failures, held, dropping, cache, bo, cur>>
        /\ \A u \in Threads : pc[u] \in {"map", "mmap"}
             => pc'[u] \in {"map", "mmap"}
    BY <1>3 DEF CallAlloc, LookUpMiss, ReserveAddress, MapMemory, Munmap,
       UnmapMemory, ClearDone, Launch, MemoryTypes
  <2>2. \A b \in Buffers : Tracked(b) => Tracked(b)'
    BY <2>1 DEF Tracked, InCache, Has, InDrop, Builds
  <2>3. QED
    BY <1>2, <2>1, <2>2
<1>4. CASE UNCHANGED vars
  BY <1>4 DEF vars, Leaks, Tracked, InCache, Has, InDrop, Builds
<1>5. CASE GpuRun \/ \E t \in Threads : Zero(t)
  <2>1. /\ UNCHANGED <<failures, held, dropping, cache, cur>>
        /\ \A u \in Threads : pc[u] \in {"map", "mmap"}
             => pc'[u] \in {"map", "mmap"}
    BY <1>5 DEF GpuRun, Zero, MemoryTypes
  <2>2. \A b \in Buffers : bo'[b].live = bo[b].live
    <3>1. CASE GpuRun
      BY <3>1, BoWritten DEF GpuRun
    <3>2. CASE \E t \in Threads : Zero(t)
      BY <3>2, BoWritten DEF Zero
    <3>3. QED
      BY <1>5, <3>1, <3>2
  <2>3. \A b \in Buffers : Tracked(b) => Tracked(b)'
    BY <2>1 DEF Tracked, InCache, Has, InDrop, Builds
  <2>4. QED
    BY <1>2, <2>1, <2>2, <2>3
<1>6. ASSUME NEW t \in Threads, AllocMemory(t)
      PROVE  Leaks'
  <2>1. PICK n \in Buffers : n = nBuffers + 1
    BY <1>6, NumbersLeft DEF AllocMemory
  <2>2. /\ UNCHANGED <<failures, held, dropping, cache>>
        /\ pc[t] = "alloc" /\ pc' = [pc EXCEPT ![t] = "map"]
        /\ cur' = [cur EXCEPT ![t] = n]
        /\ \A b \in Buffers : b # n => bo'[b] = bo[b]
    BY <1>6, <2>1 DEF AllocMemory, MemoryTypes
  <2>3. Builds(t, n)'
    BY <2>2 DEF Builds, MemoryTypes
  <2>4. \A u \in Threads, b \in Buffers : Has(u, b) => Has(u, b)'
    BY <2>2 DEF Has, InDrop, Builds, MemoryTypes
  <2>5. \A b \in Buffers : Tracked(b) => Tracked(b)'
    BY <2>2, <2>4 DEF Tracked, InCache
  <2>6. \A b \in Buffers : bo'[b].live => bo[b].live \/ Tracked(b)'
    BY <2>2, <2>3 DEF Tracked, Has
  <2>7. QED
    BY <1>2, <2>2, <2>5, <2>6
<1>7. ASSUME NEW t \in Threads, LookUpHit(t)
      PROVE  Leaks'
  <2>1. PICK s \in Sizes, b \in Buffers :
           /\ held' = [held EXCEPT ![t] = @ \cup {b}]
           /\ \A c : InCache(c)' <=> InCache(c) /\ c # b
    BY <1>7, HitLemma
  <2>2. /\ UNCHANGED <<failures, bo, dropping>> /\ pc[t] = "lookup"
        /\ \A u \in Threads : u # t => pc'[u] = pc[u] /\ cur'[u] = cur[u]
    BY <1>7 DEF LookUpHit, MemoryTypes
  <2>3. \A u \in Threads, c \in Buffers : Has(u, c) => Has(u, c)'
    BY <2>1, <2>2 DEF Has, InDrop, Builds, MemoryTypes
  <2>4. b \in held'[t]
    BY <2>1 DEF MemoryTypes
  <2>5. \A c \in Buffers : Tracked(c) => Tracked(c)'
    BY <2>1, <2>3, <2>4 DEF Tracked, Has
  <2>6. QED
    BY <1>2, <2>2, <2>5
<1>8. ASSUME NEW t \in Threads, MapOnHost(t)
      PROVE  Leaks'
  <2>1. /\ UNCHANGED <<failures, bo, dropping, cache, cur>>
        /\ held' = [held EXCEPT ![t] = @ \cup {cur[t]}]
        /\ \A u \in Threads : u # t => pc'[u] = pc[u]
    BY <1>8 DEF MapOnHost, MemoryTypes
  <2>2. \A u \in Threads, c \in Buffers : Has(u, c) => Has(u, c)'
    BY <2>1 DEF Has, InDrop, Builds, MemoryTypes
  <2>3. \A c \in Buffers : Tracked(c) => Tracked(c)'
    BY <2>1, <2>2 DEF Tracked, InCache
  <2>4. QED
    BY <1>2, <2>1, <2>3
<1>9. ASSUME NEW t \in Threads, NEW b \in held[t], Recycle(t, b)
      PROVE  Leaks'
  <2>1. /\ UNCHANGED <<failures, bo, dropping, pc, cur>>
        /\ held' = [held EXCEPT ![t] = @ \ {b}]
    BY <1>9 DEF Recycle
  <2>2. \A c : InCache(c)' <=> InCache(c) \/ c = b
    <3>1. b \in Buffers /\ bo[b].size \in Sizes
      BY DEF MemoryTypes, Sized
    <3>2. QED
      BY <1>9, <3>1, RecycleLemma
  <2>3. \A u \in Threads, c \in Buffers : Has(u, c) => Has(u, c)' \/ c = b
    BY <2>1 DEF Has, InDrop, Builds, MemoryTypes
  <2>4. \A c \in Buffers : Tracked(c) => Tracked(c)'
    BY <2>2, <2>3 DEF Tracked
  <2>5. QED
    BY <1>2, <2>1, <2>4
<1>10. ASSUME NEW t \in Threads, NEW b \in held[t], DropBuffer(t, b)
      PROVE  Leaks'
  <2>1. /\ UNCHANGED <<failures, bo, cache, cur>> /\ pc[t] = "idle"
        /\ held' = [held EXCEPT ![t] = @ \ {b}]
        /\ dropping' = [dropping EXCEPT ![t] = <<b>>]
        /\ pc' = [pc EXCEPT ![t] = "munmap"]
    BY <1>10 DEF DropBuffer, MayGiveUp
  <2>2. dropping[t] = << >>
    BY <2>1 DEF CallShape, DropSteps
  <2>3. dropping'[t] = <<b>> /\ Len(<<b>>) = 1 /\ <<b>>[1] = b
    BY <2>1 DEF MemoryTypes
  <2>4. InDrop(t, b)'
    BY <2>3 DEF InDrop
  <2>5. \A u \in Threads, c \in Buffers : Has(u, c) => Has(u, c)' \/ c = b
    BY <2>1, <2>2 DEF Has, InDrop, Builds, MemoryTypes
  <2>6. \A c \in Buffers : Tracked(c) => Tracked(c)'
    BY <2>1, <2>4, <2>5 DEF Tracked, InCache, Has
  <2>7. QED
    BY <1>2, <2>1, <2>6
<1>11. ASSUME NEW t \in Threads, Clear(t)
      PROVE  Leaks'
  <2>1. PICK all \in Seq(Buffers) :
           /\ dropping' = [dropping EXCEPT ![t] = all]
           /\ \A b : InCache(b) => \E i \in 1..Len(all) : all[i] = b
    BY <1>11, ClearLemma
  <2>2. /\ UNCHANGED <<failures, bo, held, cur>> /\ pc[t] = "idle"
        /\ \A u \in Threads : u # t => pc'[u] = pc[u]
    BY <1>11 DEF Clear, MemoryTypes
  <2>3. dropping[t] = << >>
    BY <2>2 DEF CallShape, DropSteps
  <2>4. \A b \in Buffers : InCache(b) => InDrop(t, b)'
    BY <2>1 DEF InDrop, MemoryTypes
  <2>5. \A u \in Threads, c \in Buffers : Has(u, c) => Has(u, c)'
    BY <2>1, <2>2, <2>3 DEF Has, InDrop, Builds, MemoryTypes
  <2>6. \A c \in Buffers : Tracked(c) => Tracked(c)'
    BY <2>4, <2>5 DEF Tracked, Has
  <2>7. QED
    BY <1>2, <2>2, <2>6
<1>12. ASSUME NEW t \in Threads, FreeMemory(t)
      PROVE  Leaks'
  <2> DEFINE v == Victim(t)
  <2>1. /\ UNCHANGED <<failures, held, cache, cur>> /\ pc[t] = "free"
        /\ bo' = [bo EXCEPT ![v].live = FALSE]
        /\ dropping' = [dropping EXCEPT ![t] = Tail(@)]
        /\ \A u \in Threads : u # t => pc'[u] = pc[u]
    BY <1>12 DEF FreeMemory, MemoryTypes
  <2>2. v \in Buffers /\ v = dropping[t][1]
    BY <2>1, VictimLemma DEF DropSteps
  <2>3. dropping[t] \in Seq(Buffers) /\ dropping[t] # << >>
    BY <2>1 DEF MemoryTypes, CallShape, DropSteps
  <2> HIDE DEF v
  <2>4. \A c \in Buffers : /\ bo'[c].live => bo[c].live
                           /\ bo'[c].live => c # v
    <3> SUFFICES ASSUME NEW c \in Buffers
                 PROVE  bo'[c].live => bo[c].live /\ c # v
      OBVIOUS
    <3>1. bo[c] \in Bo
      BY DEF MemoryTypes
    <3>2. bo'[c] = IF c = v THEN [bo[c] EXCEPT !.live = FALSE] ELSE bo[c]
      BY <2>1 DEF MemoryTypes
    <3>3. QED
      BY <3>1, <3>2 DEF Bo
  <2>5. \A c \in Buffers : InDrop(t, c) => InDrop(t, c)' \/ c = v
    <3> SUFFICES ASSUME NEW c \in Buffers, NEW i \in 1..Len(dropping[t]),
                        dropping[t][i] = c, c # v
                 PROVE  InDrop(t, c)'
      BY DEF InDrop
    <3>1. dropping'[t] = Tail(dropping[t])
      BY <2>1 DEF MemoryTypes
    <3>2. /\ Len(Tail(dropping[t])) = Len(dropping[t]) - 1
          /\ \A j \in 1..Len(dropping[t]) - 1 :
               Tail(dropping[t])[j] = dropping[t][j + 1]
      BY <2>3, TailLemma
    <3>3. i # 1 /\ Len(dropping[t]) \in Nat
      BY <2>2, <2>3
    <3>4. i - 1 \in 1..Len(dropping[t]) - 1 /\ (i - 1) + 1 = i
      BY <3>3
    <3>5. QED
      BY <3>1, <3>2, <3>4 DEF InDrop
  <2>6. \A u \in Threads, c \in Buffers : Has(u, c) => Has(u, c)' \/ c = v
    <3>1. \A c \in Buffers : Has(t, c) => Has(t, c)' \/ c = v
      BY <2>1, <2>5 DEF Has, Builds
    <3>2. \A u \in Threads : u # t => UNCHANGED <<pc[u], dropping[u]>>
      BY <2>1 DEF MemoryTypes
    <3>3. \A u \in Threads, c \in Buffers :
            u # t /\ Has(u, c) => Has(u, c)'
      BY <2>1, <3>2 DEF Has, InDrop, Builds
    <3>4. QED
      BY <3>1, <3>3
  <2>7. \A c \in Buffers : bo'[c].live /\ Tracked(c) => Tracked(c)'
    BY <2>1, <2>4, <2>6 DEF Tracked, InCache
  <2>8. QED
    BY <1>2, <2>1, <2>4, <2>7
<1>13. QED
  BY <1>1, <1>3, <1>4, <1>5, <1>6, <1>7, <1>8, <1>9, <1>10, <1>11, <1>12
     DEF Next, Step

-----------------------------------------------------------------------------
\* What is true of the GPU when unmapping flushes its TLB and the caller waits
\* for its kernels: cached translations are the page table's, and a kernel's
\* buffer is still its owner's.
TlbTrue == \A a \in Addresses : tlb[a] # None => tlb[a] = gpuMap[a]

Served(q) ==
  \E t \in Threads : \E b \in held[t] : lease[b] = q.lease /\ bo[b].va = q.va

QueueServed == \A i \in 1..Len(queue) : Served(queue[i])

\* Unmapping is the one step that takes a translation away, and it flushes.
LEMMA TlbStep ==
  ASSUME MemoryTypes, CallShape, Apart, TlbTrue, ~StaleTlb, [Next]_vars
  PROVE  TlbTrue'
<1> USE DEF host, device, ledger, local
<1>1. ASSUME NEW t \in Threads,
             \/ \E c \in Calls, n \in Requests : CallAlloc(t, c, n)
             \/ LookUpHit(t) \/ LookUpMiss(t) \/ ReserveAddress(t)
             \/ AllocMemory(t) \/ AllocFails(t) \/ MapClashes(t)
             \/ MapOnHost(t) \/ Zero(t) \/ Munmap(t) \/ FreeMemory(t)
             \/ ClearDone(t) \/ Clear(t)
             \/ \E b \in held[t] :
                  Launch(t, b) \/ Recycle(t, b) \/ DropBuffer(t, b)
      PROVE  TlbTrue'
  <2>1. UNCHANGED <<gpuMap, tlb>>
    BY <1>1 DEF CallAlloc, LookUpHit, LookUpMiss, ReserveAddress, AllocMemory,
       AllocFails, MapClashes, MapOnHost, Zero, Munmap, FreeMemory, ClearDone,
       Clear, Launch, Recycle, DropBuffer
  <2>2. QED
    BY <2>1 DEF TlbTrue
<1>2. CASE UNCHANGED vars
  BY <1>2 DEF vars, TlbTrue
<1>3. ASSUME NEW t \in Threads, MapMemory(t)
      PROVE  TlbTrue'
  BY <1>3 DEF MapMemory, TlbTrue, MemoryTypes
<1>4. ASSUME NEW t \in Threads, UnmapMemory(t)
      PROVE  TlbTrue'
  <2> DEFINE a == bo[Victim(t)].va
  <2>1. a \in Addresses
    BY <1>4, VictimLemma DEF UnmapMemory, DropSteps, MemoryTypes, Bo
  <2>2. /\ gpuMap' = [gpuMap EXCEPT ![a] = IF @ = Victim(t) THEN None ELSE @]
        /\ tlb' = [tlb EXCEPT ![a] = None]
    BY <1>4 DEF UnmapMemory
  <2> HIDE DEF a
  <2>3. QED
    BY <2>1, <2>2 DEF TlbTrue, MemoryTypes
<1>5. CASE GpuRun
  <2> DEFINE q == Head(queue)
  <2>1. tlb' = [tlb EXCEPT ![q.va] = Reached(q.va)] /\ UNCHANGED gpuMap
    BY <1>5 DEF GpuRun
  <2>0. q \in Kernel
    BY <1>5, TailLemma DEF GpuRun, MemoryTypes
  <2>2. q.va \in Addresses
    BY <2>0 DEF Kernel
  <2> HIDE DEF q
  <2>3. Reached(q.va) = gpuMap[q.va]
    BY <2>2 DEF Reached, TlbTrue
  <2>4. QED
    BY <2>1, <2>2, <2>3 DEF TlbTrue, MemoryTypes
<1>6. QED
  BY <1>1, <1>2, <1>3, <1>4, <1>5 DEF Next, Step

\* A caller that waits leaves the buffers of its kernels where they are.
LEMMA ServedStep ==
  ASSUME IsFiniteSet(Threads), MemoryTypes, Bounded, CallShape, Apart, Sized,
         Leased, QueueServed, WaitsFirst, [Next]_vars
  PROVE  QueueServed'
<1> USE DEF host, device, ledger, local
<1>1. ASSUME \A i \in 1..Len(queue') :
               \E j \in 1..Len(queue) : queue'[i] = queue[j],
             \A t \in Threads : \A b \in held[t] :
               \/ /\ b \in held'[t] /\ lease'[b] = lease[b]
                  /\ bo'[b].va = bo[b].va
               \/ \A j \in 1..Len(queue) : lease[b] # queue[j].lease
      PROVE  QueueServed'
  <2>1. ASSUME NEW i \in 1..Len(queue')
        PROVE  \E t \in Threads : \E b \in held'[t] :
                  lease'[b] = queue'[i].lease /\ bo'[b].va = queue'[i].va
    <3>1. PICK j \in 1..Len(queue) : queue'[i] = queue[j]
      BY <1>1, <2>1
    <3>2. PICK t \in Threads : \E b \in held[t] :
                  lease[b] = queue[j].lease /\ bo[b].va = queue[j].va
      BY DEF QueueServed, Served
    <3>3. PICK b \in held[t] :
                  lease[b] = queue[j].lease /\ bo[b].va = queue[j].va
      BY <3>2
    <3>4. b \in held'[t] /\ lease'[b] = lease[b] /\ bo'[b].va = bo[b].va
      BY <1>1, <3>3
    <3>5. QED
      BY <3>1, <3>3, <3>4
  <2>2. QED
    BY <2>1 DEF QueueServed, Served
<1>2. \A t \in Threads : held[t] \subseteq Buffers
  BY DEF MemoryTypes
<1>3. ASSUME NEW t \in Threads,
             \/ \E c \in Calls, n \in Requests : CallAlloc(t, c, n)
             \/ LookUpMiss(t) \/ ReserveAddress(t) \/ AllocFails(t)
             \/ MapMemory(t) \/ MapClashes(t) \/ Munmap(t)
             \/ UnmapMemory(t) \/ ClearDone(t) \/ Clear(t)
      PROVE  QueueServed'
  <2>1. UNCHANGED <<queue, held, lease, bo>>
    BY <1>3 DEF CallAlloc, LookUpMiss, ReserveAddress, AllocFails, MapMemory,
       MapClashes, Munmap, UnmapMemory, ClearDone, Clear
  <2>2. QED
    BY <2>1 DEF QueueServed, Served
<1>4. CASE UNCHANGED vars
  BY <1>4 DEF vars, QueueServed, Served
<1>5. ASSUME NEW t \in Threads, Zero(t)
      PROVE  QueueServed'
  <2>1. UNCHANGED <<queue, held, lease>>
    BY <1>5 DEF Zero
  <2>2. \A b \in Buffers : bo'[b].va = bo[b].va
    BY <1>5, BoWritten DEF Zero
  <2>3. QED
    BY <1>1, <1>2, <2>1, <2>2
<1>6. ASSUME NEW t \in Threads, FreeMemory(t)
      PROVE  QueueServed'
  <2>1. /\ UNCHANGED <<queue, held, lease>>
        /\ bo' = [bo EXCEPT ![Victim(t)].live = FALSE]
    BY <1>6 DEF FreeMemory
  <2>2. \A b \in Buffers : bo'[b].va = bo[b].va
    <3> SUFFICES ASSUME NEW b \in Buffers PROVE bo'[b].va = bo[b].va
      OBVIOUS
    <3>1. bo[b] \in Bo
      BY DEF MemoryTypes
    <3>2. bo'[b] = bo[b] \/ bo'[b] = [bo[b] EXCEPT !.live = FALSE]
      BY <2>1 DEF MemoryTypes
    <3>3. QED
      BY <3>1, <3>2 DEF Bo
  <2>3. QED
    BY <1>1, <1>2, <2>1, <2>2
<1>7. ASSUME NEW t \in Threads, AllocMemory(t)
      PROVE  QueueServed'
  <2>1. PICK n \in Buffers : n = nBuffers + 1
    BY <1>7, NumbersLeft DEF AllocMemory
  <2>2. /\ UNCHANGED <<queue, held, lease>>
        /\ \A b \in Buffers : b # n => bo'[b] = bo[b]
    BY <1>7, <2>1 DEF AllocMemory, MemoryTypes
  <2>3. \A u \in Threads : n \notin held[u]
    BY <2>1 DEF Apart, Has, Buffers, MemoryTypes
  <2>4. QED
    BY <1>1, <1>2, <2>2, <2>3
<1>8. ASSUME NEW t \in Threads, LookUpHit(t) \/ MapOnHost(t)
      PROVE  QueueServed'
  <2>1. PICK b \in Buffers : /\ held' = [held EXCEPT ![t] = @ \cup {b}]
                             /\ Lease(t, b) /\ \A u \in Threads : b \notin held[u]
    <3>1. CASE LookUpHit(t)
      BY <3>1, HitLemma DEF Apart, Has
    <3>2. CASE MapOnHost(t)
      <4>1. cur[t] \in Buffers /\ Builds(t, cur[t])
        BY <3>2, NumbersLeft, BoundAssumption
           DEF CallShape, Buffers, Builds, MemoryTypes, MapOnHost
      <4>2. QED
        BY <3>2, <4>1 DEF MapOnHost, Apart, Has
    <3>3. QED
      BY <1>8, <3>1, <3>2
  <2>2. UNCHANGED <<queue, bo>>
    BY <1>8 DEF LookUpHit, MapOnHost
  <2>3. \A u \in Threads : \A c \in held[u] :
          c \in held'[u] /\ lease'[c] = lease[c]
    BY <1>2, <2>1 DEF Lease, MemoryTypes
  <2>4. QED
    BY <1>1, <2>2, <2>3
<1>9. ASSUME NEW t \in Threads, NEW b \in held[t],
             Recycle(t, b) \/ DropBuffer(t, b)
      PROVE  QueueServed'
  <2>1. /\ UNCHANGED <<queue, bo>>
        /\ held' = [held EXCEPT ![t] = @ \ {b}]
        /\ lease' = [lease EXCEPT ![b] = None]
        /\ ~InFlight(b)
    BY <1>9 DEF Recycle, DropBuffer, MayGiveUp
  <2>2. \A j \in 1..Len(queue) : lease[b] # queue[j].lease
    BY <2>1 DEF InFlight, MemoryTypes
  <2>3. \A u \in Threads : \A c \in held[u] : c # b =>
          c \in held'[u] /\ lease'[c] = lease[c]
    BY <1>2, <2>1 DEF MemoryTypes
  <2>4. QED
    BY <1>1, <2>1, <2>2, <2>3
<1>10. ASSUME NEW t \in Threads, NEW b \in held[t], Launch(t, b)
      PROVE  QueueServed'
  <2> DEFINE q == [va |-> bo[b].va, lease |-> lease[b]]
  <2>1. UNCHANGED <<held, lease, bo>> /\ queue' = Append(queue, q)
    BY <1>10 DEF Launch
  <2>2. \A i \in 1..Len(queue') :
          \/ i \in 1..Len(queue) /\ queue'[i] = queue[i]
          \/ queue'[i] = q
    BY <2>1 DEF MemoryTypes
  <2>3. QED
    BY <2>1, <2>2 DEF QueueServed, Served
<1>11. CASE GpuRun
  <2> DEFINE q == Head(queue)
  <2>1. /\ UNCHANGED <<held, lease>> /\ queue # << >> /\ queue' = Tail(queue)
        /\ \/ bo' = bo
           \/ bo' = [bo EXCEPT ![Reached(q.va)].data = q.lease]
    BY <1>11 DEF GpuRun
  <2>2. \A b \in Buffers : bo'[b].va = bo[b].va
    BY <2>1, BoWritten
  <2>3. /\ queue \in Seq(Kernel)
        /\ Len(queue) \in Nat
    BY DEF MemoryTypes
  <2>4. /\ Len(queue') = Len(queue) - 1
        /\ \A i \in 1..Len(queue) - 1 : queue'[i] = queue[i + 1]
    BY <2>1, <2>3, TailLemma
  <2>5. \A i \in 1..Len(queue) - 1 : i + 1 \in 1..Len(queue)
    BY <2>3
  <2>6. \A i \in 1..Len(queue') :
          \E j \in 1..Len(queue) : queue'[i] = queue[j]
    BY <2>4, <2>5
  <2>7. QED
    BY <1>1, <1>2, <2>1, <2>2, <2>6
<1>12. QED
  BY <1>3, <1>4, <1>5, <1>6, <1>7, <1>8, <1>9, <1>10, <1>11 DEF Next, Step

\* The kernel at the head of the queue reaches the buffer it was given.
LEMMA RunLemma ==
  ASSUME MemoryTypes, Mapped, TlbTrue, QueueServed, queue # << >>
  PROVE  LET q == Head(queue)
             b == Reached(q.va)
         IN  b \in Buffers /\ b # None /\ lease[b] = q.lease
<1> DEFINE q == Head(queue)
<1>0. q = queue[1] /\ 1 \in 1..Len(queue) /\ q \in Kernel
  BY TailLemma DEF MemoryTypes
<1>1. q = queue[1] /\ 1 \in 1..Len(queue) /\ q.va \in Addresses
  BY <1>0 DEF Kernel
<1> HIDE DEF q
<1>2. PICK t \in Threads : \E b \in held[t] : lease[b] = q.lease
                                               /\ bo[b].va = q.va
  BY <1>1 DEF QueueServed, Served
<1>3. PICK b \in held[t] : lease[b] = q.lease /\ bo[b].va = q.va
  BY <1>2
<1>8. b \in Buffers
  BY DEF MemoryTypes
<1>4. Up(b)
  BY <1>8 DEF Mapped, Settled
<1>5. Reached(q.va) = b
  BY <1>1, <1>3, <1>4 DEF Reached, TlbTrue, Up
<1>6. b # None
  BY <1>8, BoundAssumption DEF Buffers, None
<1>7. QED
  BY <1>3, <1>5, <1>6, <1>8 DEF q

\* No kernel strays.
LEMMA StrayStep ==
  ASSUME MemoryTypes, Mapped, TlbTrue, QueueServed, ~stray, [Next]_vars
  PROVE  ~stray'
<1>1. CASE GpuRun
  BY <1>1, RunLemma DEF GpuRun
<1>2. ASSUME NEW t \in Threads,
             \/ \E c \in Calls, n \in Requests : CallAlloc(t, c, n)
             \/ LookUpHit(t) \/ LookUpMiss(t) \/ ReserveAddress(t)
             \/ AllocMemory(t) \/ AllocFails(t) \/ MapMemory(t)
             \/ MapClashes(t) \/ MapOnHost(t)
      PROVE  UNCHANGED stray
  BY <1>2 DEF device, CallAlloc, LookUpHit, LookUpMiss, ReserveAddress,
     AllocMemory, AllocFails, MapMemory, MapClashes, MapOnHost
<1>3. ASSUME NEW t \in Threads,
             \/ Zero(t) \/ Munmap(t) \/ UnmapMemory(t) \/ FreeMemory(t)
             \/ ClearDone(t) \/ Clear(t)
             \/ \E b \in held[t] :
                  Launch(t, b) \/ Recycle(t, b) \/ DropBuffer(t, b)
      PROVE  UNCHANGED stray
  BY <1>3 DEF device, Zero, Munmap, UnmapMemory, FreeMemory, ClearDone, Clear,
     Launch, Recycle, DropBuffer
<1>4. CASE UNCHANGED vars
  BY <1>4 DEF vars, device
<1>5. QED
  BY <1>1, <1>2, <1>3, <1>4 DEF Next, Step

-----------------------------------------------------------------------------
\* Zeroes stay until the owner's own kernels write.
QuietZeroes ==
  /\ \A t \in Threads : held'[t] \subseteq held[t]
  /\ \A t \in Threads : \A b \in held'[t] :
       /\ asked'[lease'[b]] = asked[lease[b]] /\ lease'[b] = lease[b]
       /\ pc[t] = "zero" /\ cur[t] = b => pc'[t] = "zero" /\ cur'[t] = b
       /\ bo'[b].data \in {bo[b].data, None, lease[b]}

\* A step that writes no buffer but its owner's keeps zeroes.
LEMMA ZeroesKept ==
  ASSUME FreshStaysZero, QuietZeroes PROVE FreshStaysZero'
BY DEF FreshStaysZero, QuietZeroes

\* A buffer handed out to alloc_zero is yet to be zeroed.
LEMMA ZeroesHandedOut ==
  ASSUME MemoryTypes, Leased, FreshStaysZero, NEW t \in Threads,
         NEW b \in Buffers, Lease(t, b), nLeases + 1 \in Leases, UNCHANGED bo,
         held' = [held EXCEPT ![t] = @ \cup {b}],
         \A u \in Threads : b \notin held[u],
         \A u \in Threads : u # t => pc'[u] = pc[u] /\ cur'[u] = cur[u],
         pc[t] # "zero", cur'[t] = b,
         pc' = [pc EXCEPT ![t] = AfterAlloc(t)]
  PROVE  FreshStaysZero'
<1> DEFINE n == nLeases + 1
<1>1. /\ nLeases' = n /\ lease' = [lease EXCEPT ![b] = n]
      /\ asked' = [asked EXCEPT ![n] =
                     [bytes |-> want[t], zeroed |-> op[t] = "alloc_zero"]]
      /\ nLeases \in Nat
  BY DEF Lease, MemoryTypes
<1>2. \A u \in Threads : /\ held[u] \subseteq Buffers
                         /\ held'[u] = IF u = t THEN held[t] \cup {b} ELSE held[u]
  BY DEF MemoryTypes
<1>3. \A c \in Buffers : lease'[c] = IF c = b THEN n ELSE lease[c]
  BY <1>1 DEF MemoryTypes
<1>4. \A u \in Threads : \A c \in held[u] :
        lease[c] \in Leases /\ lease[c] # n /\ c # b
  BY <1>1, BoundAssumption DEF Leased, Leases
<1>5. \A l \in Leases : l # n => asked'[l] = asked[l]
  BY <1>1 DEF MemoryTypes
<1>6. asked'[n].zeroed <=> op[t] = "alloc_zero"
  BY <1>1 DEF MemoryTypes
<1>7. op[t] = "alloc_zero" => pc'[t] = "zero"
  BY DEF AfterAlloc, MemoryTypes
<1> HIDE DEF n
<1> SUFFICES ASSUME NEW u \in Threads, NEW c \in held'[u],
                    asked'[lease'[c]].zeroed,
                    ~(pc'[u] = "zero" /\ cur'[u] = c)
             PROVE  bo'[c].data \in {None, lease'[c]}
  BY DEF FreshStaysZero
<1>8. CASE c = b
  <2>1. u = t
    BY <1>2, <1>8
  <2>2. lease'[c] = n
    BY <1>3, <1>8
  <2>3. QED
    BY <1>6, <1>7, <1>8, <2>1, <2>2
<1>9. CASE c # b
  <2>1. c \in held[u]
    BY <1>2, <1>9
  <2>2. lease'[c] = lease[c] /\ asked'[lease'[c]] = asked[lease[c]]
    BY <1>2, <1>3, <1>4, <1>5, <2>1
  <2>3. ~(pc[u] = "zero" /\ cur[u] = c)
    BY <1>9
  <2>4. QED
    BY <2>1, <2>2, <2>3 DEF FreshStaysZero
<1>10. QED
  BY <1>8, <1>9

\* Nobody but the owner of a zeroed buffer writes it.
LEMMA ZeroesStep ==
  ASSUME IsFiniteSet(Threads), MemoryTypes, Bounded, CallShape, Apart, Sized,
         Leased, Mapped, TlbTrue, QueueServed, FreshStaysZero, [Next]_vars
  PROVE  FreshStaysZero'
<1> USE DEF Goto, host, device, ledger, local
<1>0. \A t \in Threads : held[t] \subseteq Buffers
  BY DEF MemoryTypes
<1>1. ASSUME NEW t \in Threads,
             \/ \E c \in Calls, n \in Requests : CallAlloc(t, c, n)
             \/ LookUpMiss(t) \/ ReserveAddress(t) \/ AllocFails(t)
             \/ MapMemory(t) \/ MapClashes(t) \/ Munmap(t)
             \/ UnmapMemory(t) \/ ClearDone(t) \/ Clear(t)
             \/ \E b \in held[t] : Launch(t, b)
      PROVE  FreshStaysZero'
  <2>1. UNCHANGED <<held, asked, lease, bo, cur>>
    BY <1>1 DEF CallAlloc, LookUpMiss, ReserveAddress, AllocFails, MapMemory,
       MapClashes, Munmap, UnmapMemory, ClearDone, Clear, Launch
  <2>2. \A u \in Threads : pc[u] = "zero" => pc'[u] = "zero"
    BY <1>1 DEF CallAlloc, LookUpMiss, ReserveAddress, AllocFails, GiveUp,
       MapMemory, MapClashes, Munmap, UnmapMemory, ClearDone, Clear, Launch,
       MemoryTypes
  <2>3. QuietZeroes
    BY <2>1, <2>2 DEF QuietZeroes
  <2>4. QED
    BY <2>3, ZeroesKept
<1>2. CASE UNCHANGED vars
  BY <1>2, ZeroesKept DEF vars, QuietZeroes
<1>3. ASSUME NEW t \in Threads, LookUpHit(t)
      PROVE  FreshStaysZero'
  <2>1. PICK b \in Buffers :
           /\ InCache(b) /\ Lease(t, b)
           /\ held' = [held EXCEPT ![t] = @ \cup {b}]
           /\ cur' = [cur EXCEPT ![t] = b]
    BY <1>3, HitLemma
  <2>2. \A u \in Threads : b \notin held[u]
    BY <2>1 DEF Apart, Has
  <2>3. /\ UNCHANGED bo /\ pc[t] = "lookup" /\ nLeases + 1 \in Leases
        /\ pc' = [pc EXCEPT ![t] = AfterAlloc(t)]
    BY <1>3, NumbersLeft DEF LookUpHit
  <2>4. /\ \A u \in Threads : u # t => pc'[u] = pc[u] /\ cur'[u] = cur[u]
        /\ cur'[t] = b
    BY <2>1, <2>3 DEF MemoryTypes
  <2>5. QED
    BY <2>1, <2>2, <2>3, <2>4, ZeroesHandedOut
<1>4. ASSUME NEW t \in Threads, MapOnHost(t)
      PROVE  FreshStaysZero'
  <2>1. PICK b \in Buffers : b = cur[t] /\ Builds(t, b)
    BY <1>4, NumbersLeft, BoundAssumption
       DEF CallShape, Buffers, Builds, MemoryTypes, MapOnHost
  <2>2. \A u \in Threads : b \notin held[u]
    BY <2>1 DEF Apart, Has
  <2>3. /\ UNCHANGED <<bo, cur>> /\ pc[t] = "mmap" /\ nLeases + 1 \in Leases
        /\ pc' = [pc EXCEPT ![t] = AfterAlloc(t)]
        /\ Lease(t, b) /\ held' = [held EXCEPT ![t] = @ \cup {b}]
    BY <1>4, <2>1, NumbersLeft DEF MapOnHost
  <2>4. /\ \A u \in Threads : u # t => pc'[u] = pc[u] /\ cur'[u] = cur[u]
        /\ cur'[t] = b
    BY <2>1, <2>3 DEF MemoryTypes
  <2>5. QED
    BY <2>1, <2>2, <2>3, <2>4, ZeroesHandedOut
<1>5. ASSUME NEW t \in Threads, NEW b \in held[t],
             Recycle(t, b) \/ DropBuffer(t, b)
      PROVE  FreshStaysZero'
  <2>1. /\ UNCHANGED <<bo, asked, cur>> /\ pc[t] = "idle"
        /\ held' = [held EXCEPT ![t] = @ \ {b}]
        /\ lease' = [lease EXCEPT ![b] = None]
        /\ \A u \in Threads : u # t => pc'[u] = pc[u]
    BY <1>5 DEF Recycle, DropBuffer, MayGiveUp, MemoryTypes
  <2>2. \A u \in Threads : held'[u] \subseteq held[u] /\ b \notin held'[u]
    BY <2>1 DEF MemoryTypes, Apart, Has
  <2>3. \A u \in Threads : \A c \in held'[u] : lease'[c] = lease[c]
    BY <1>0, <2>1, <2>2 DEF MemoryTypes
  <2>4. QuietZeroes
    BY <2>1, <2>2, <2>3 DEF QuietZeroes
  <2>5. QED
    BY <2>4, ZeroesKept
<1>6. ASSUME NEW t \in Threads, AllocMemory(t)
      PROVE  FreshStaysZero'
  <2>1. PICK n \in Buffers : n = nBuffers + 1
    BY <1>6, NumbersLeft DEF AllocMemory
  <2>2. /\ UNCHANGED <<held, lease, asked>> /\ pc[t] = "alloc"
        /\ \A b \in Buffers : b # n => bo'[b] = bo[b]
        /\ \A u \in Threads : u # t => pc'[u] = pc[u] /\ cur'[u] = cur[u]
    BY <1>6, <2>1 DEF AllocMemory, MemoryTypes
  <2>3. \A u \in Threads : n \notin held[u]
    BY <2>1 DEF Apart, Has, Buffers, MemoryTypes
  <2>4. \A u \in Threads : \A b \in held[u] : bo'[b] = bo[b]
    BY <1>0, <2>2, <2>3
  <2>5. QuietZeroes
    BY <2>2, <2>4 DEF QuietZeroes
  <2>6. QED
    BY <2>5, ZeroesKept
<1>7. ASSUME NEW t \in Threads, FreeMemory(t)
      PROVE  FreshStaysZero'
  <2>1. /\ UNCHANGED <<held, lease, asked, cur>> /\ pc[t] = "free"
        /\ bo' = [bo EXCEPT ![Victim(t)].live = FALSE]
        /\ \A u \in Threads : u # t => pc'[u] = pc[u]
    BY <1>7 DEF FreeMemory, MemoryTypes
  <2>2. \A b \in Buffers : bo'[b].data = bo[b].data
    <3> SUFFICES ASSUME NEW b \in Buffers PROVE bo'[b].data = bo[b].data
      OBVIOUS
    <3>1. bo[b] \in Bo
      BY DEF MemoryTypes
    <3>2. bo'[b] = bo[b] \/ bo'[b] = [bo[b] EXCEPT !.live = FALSE]
      BY <2>1 DEF MemoryTypes
    <3>3. QED
      BY <3>1, <3>2 DEF Bo
  <2>3. QuietZeroes
    BY <1>0, <2>1, <2>2 DEF QuietZeroes
  <2>4. QED
    BY <2>3, ZeroesKept
<1>8. ASSUME NEW t \in Threads, Zero(t)
      PROVE  FreshStaysZero'
  <2>1. PICK x \in Buffers : x = cur[t] /\ x \in held[t]
    BY <1>0, <1>8 DEF Zero, CallShape
  <2>2. /\ UNCHANGED <<held, lease, asked, cur>>
        /\ Writes(x, None)
        /\ \A u \in Threads : u # t => pc'[u] = pc[u]
    BY <1>8, <2>1 DEF Zero, MemoryTypes, Writes
  <2>3. \A b \in Buffers : bo'[b].data = IF b = x THEN None ELSE bo[b].data
    BY <2>2, DataWritten
  <2>4. \A u \in Threads : \A b \in held[u] :
          b # x /\ pc[u] = "zero" /\ cur[u] = b => pc'[u] = "zero"
    BY <2>1, <2>2
  <2>5. QED
    BY <1>0, <2>2, <2>3, <2>4 DEF FreshStaysZero
<1>9. CASE GpuRun
  <2>1. PICK x \in Buffers : Writes(x, lease[x])
    <3> DEFINE q == Head(queue)
               r == Reached(q.va)
    <3>1. r \in Buffers /\ r # None /\ lease[r] = q.lease
      BY <1>9, RunLemma DEF GpuRun
    <3>2. Writes(r, q.lease)
      BY <1>9, <3>1 DEF GpuRun, Writes
    <3> HIDE DEF q, r
    <3>3. QED
      BY <3>1, <3>2, Zenon
  <2>2. UNCHANGED <<held, lease, asked, cur, pc>>
    BY <1>9 DEF GpuRun
  <2>3. \A b \in Buffers : bo'[b].data = IF b = x THEN lease[x] ELSE bo[b].data
    BY <2>1, DataWritten
  <2>4. QuietZeroes
    BY <1>0, <2>2, <2>3 DEF QuietZeroes
  <2>5. QED
    BY <2>4, ZeroesKept
<1>10. QED
  BY <1>1, <1>2, <1>3, <1>4, <1>5, <1>6, <1>7, <1>8, <1>9 DEF Next, Step

-----------------------------------------------------------------------------
MemoryInv == /\ MemoryTypes /\ Bounded /\ CallShape /\ Apart /\ Mapped
             /\ Leased /\ Sized /\ Leaks

\* Nothing is allocated and nobody is inside a call at first.
LEMMA MemoryInit == Init => MemoryInv
<1> SUFFICES ASSUME Init PROVE MemoryInv
  OBVIOUS
<1>0. /\ SomeAddress \in Addresses /\ SomeRequest \in Requests
      /\ 0 \notin Buffers /\ MaxBuffers \in Nat /\ MaxLeases \in Nat
  BY SpaceAssumption, BoundAssumption DEF SomeAddress, SomeRequest, Buffers
<1>1. /\ \A t \in Threads : pc[t] = "idle" /\ held[t] = {} /\ dropping[t] = << >>
      /\ \A s \in Sizes : cache[s] = << >>
      /\ \A b \in Buffers : bo[b].live = FALSE
  BY DEF Init
<1>2. MemoryTypes
  BY <1>0 DEF Init, MemoryTypes, Bo, None, Steps, AllCalls
<1>3. Bounded
  <2>1. Reserving = {} /\ Taking = {}
    BY <1>1 DEF Reserving, Taking
  <2>2. nBuffers = 0 /\ nLeases = 0
    BY DEF Init
  <2>3. QED
    BY <1>0, <2>1, <2>2, FS_EmptySet DEF Bounded
<1>4. CallShape
  BY <1>1 DEF CallShape, DropSteps
<1>12. /\ \A t \in Threads : 1..Len(dropping[t]) = {}
       /\ \A s \in Sizes : 1..Len(cache[s]) = {}
  BY <1>1
<1>5. \A b : ~InCache(b) /\ \A t \in Threads : ~Has(t, b)
  BY <1>1, <1>12 DEF InCache, Has, InDrop, Builds
<1>6. Apart
  BY <1>1, <1>5, <1>12 DEF Apart
<1>7. \A b \in Buffers : ~Settled(b)
  BY <1>1, <1>5, <1>12 DEF Settled
<1>8. Mapped
  BY <1>1, <1>7 DEF Mapped, Claiming
<1>9. Leased /\ Sized
  BY <1>1, <1>12 DEF Leased, Sized, Builds
<1>10. Leaks
  BY <1>1 DEF Leaks
<1>11. QED
  BY <1>2, <1>3, <1>4, <1>6, <1>8, <1>9, <1>10 DEF MemoryInv

\* The invariant is inductive.
LEMMA MemoryNext ==
  ASSUME IsFiniteSet(Threads), MemoryInv, [Next]_vars PROVE MemoryInv'
<1>1. MemoryTypes' /\ CallShape'
  BY TypesStep DEF MemoryInv
<1>2. Bounded'
  BY BoundedStep DEF MemoryInv
<1>3. Apart'
  BY ApartStep DEF MemoryInv
<1>4. Mapped'
  BY MappedStep DEF MemoryInv
<1>5. Leased' /\ Sized'
  BY SizedStep DEF MemoryInv
<1>6. Leaks'
  BY LeaksStep DEF MemoryInv
<1>7. QED
  BY <1>1, <1>2, <1>3, <1>4, <1>5, <1>6 DEF MemoryInv

\* The invariant holds in every reachable state.
LEMMA MemoryInvariant ==
  ASSUME IsFiniteSet(Threads) PROVE Spec => []MemoryInv
<1>1. Init => MemoryInv
  BY MemoryInit
<1>2. MemoryInv /\ [Next]_vars => MemoryInv'
  BY MemoryNext
<1>3. QED
  BY <1>1, <1>2, PTL DEF Spec

\* Every buffer in somebody's hands is mapped, on the host and on the GPU, and
\* to its own BO, whatever KFD and mmap refuse and whether or not callers wait:
\* the order munmap, UNMAP, FREE never takes an address from its new owner.
THEOREM BuffersAreMapped ==
  ASSUME IsFiniteSet(Threads) PROVE Spec => []MappedToItself
<1>1. MemoryInv => MappedToItself
  BY DEF MemoryInv, MappedToItself, Mapped, Settled, Up, MemoryTypes
<1>2. QED
  BY <1>1, MemoryInvariant, PTL

\* BufferPool never hands out a buffer smaller than asked for, whichever call
\* it was first allocated for.
THEOREM BuffersAreBigEnough ==
  ASSUME IsFiniteSet(Threads) PROVE Spec => []BigEnough
<1>1. MemoryInv => BigEnough
  BY DEF MemoryInv, BigEnough, Sized
<1>2. QED
  BY <1>1, MemoryInvariant, PTL

\* Only the error paths of alloc_memory lose a BO: every other one is a
\* GpuBuffer's or a call's.
THEOREM FailuresAloneLeak ==
  ASSUME IsFiniteSet(Threads) PROVE Spec => []LeaksOnlyOnFailure
<1>1. ASSUME MemoryInv, NEW b \in Buffers, Tracked(b)
      PROVE  b \in Owned \cup Underway
  <2>5. MemoryTypes
    BY <1>1 DEF MemoryInv
  <2>0. InCache(b) => b \in Cached
    <3>1. ASSUME NEW s \in Sizes, NEW i \in 1..Len(cache[s]), cache[s][i] = b
          PROVE  b \in Cached
      <4>1. cache[s] \in Seq(Buffers)
        BY <2>5 DEF MemoryTypes
      <4>2. b \in ToSet(cache[s])
        BY <3>1, <4>1 DEF ToSet
      <4>3. QED
        BY <4>2 DEF Cached
    <3>2. QED
      BY <3>1 DEF InCache
  <2>1. b \in Cached => b \in Owned
    BY DEF Owned
  <2>2. \A t \in Threads : b \in held[t] => b \in Owned
    BY DEF Owned
  <2>3. \A t \in Threads : InDrop(t, b) => b \in Underway
    BY <1>1 DEF InDrop, Underway, ToSet, MemoryInv, MemoryTypes
  <2>4. \A t \in Threads : Builds(t, b) => b \in Underway
    BY DEF Builds, Underway
  <2>6. QED
    BY <1>1, <2>0, <2>1, <2>2, <2>3, <2>4 DEF Tracked, Has
<1>2. MemoryInv => LeaksOnlyOnFailure
  BY <1>1 DEF MemoryInv, Leaks, LeaksOnlyOnFailure
<1>3. QED
  BY <1>2, MemoryInvariant, PTL

\* With a flushed TLB and a caller that waits, what the kernels rely on holds
\* from the start.
LEMMA KernelInvariant ==
  ASSUME IsFiniteSet(Threads), ~StaleTlb, WaitsFirst
  PROVE  Spec => [](TlbTrue /\ QueueServed /\ ~stray /\ FreshStaysZero)
<1> DEFINE KInv == TlbTrue /\ QueueServed /\ ~stray /\ FreshStaysZero
<1>1. Init => KInv
  BY DEF Init, TlbTrue, QueueServed, FreshStaysZero
<1>2. MemoryInv /\ KInv /\ [Next]_vars => KInv'
  <2> SUFFICES ASSUME MemoryInv, KInv, [Next]_vars PROVE KInv'
    OBVIOUS
  <2>1. TlbTrue'
    BY TlbStep DEF MemoryInv
  <2>2. QueueServed'
    BY ServedStep DEF MemoryInv
  <2>3. ~stray'
    BY StrayStep DEF MemoryInv
  <2>4. FreshStaysZero'
    BY ZeroesStep DEF MemoryInv
  <2>5. QED
    BY <2>1, <2>2, <2>3, <2>4
<1>3. QED
  BY <1>1, <1>2, MemoryInvariant, PTL DEF Spec

\* A kernel reaches its own buffer however the pool hands memory round, when
\* unmapping flushes the TLB and callers wait for the kernels of the buffers
\* they give up.
THEOREM KernelsReachTheirBuffers ==
  ASSUME IsFiniteSet(Threads), ~StaleTlb, WaitsFirst
  PROVE  Spec => []KernelsTouchOwnBuffer
<1>1. ~stray => KernelsTouchOwnBuffer
  BY DEF KernelsTouchOwnBuffer
<1>2. QED
  BY <1>1, KernelInvariant, PTL

\* On the same terms a buffer from alloc_zero holds zeroes until its owner's
\* kernels write it: no kernel of an earlier owner comes late.
THEOREM FreshBuffersStayZero ==
  ASSUME IsFiniteSet(Threads), ~StaleTlb, WaitsFirst
  PROVE  Spec => []FreshStaysZero
BY KernelInvariant, PTL

-----------------------------------------------------------------------------
\* What the cache holds, per size.
Bytes == [s \in Sizes |-> s * Len(cache[s])]

\* cached_bytes counts the cache whenever a call may change either; clear()
\* has the lock from emptying the cache until it has reset the count.
Counted ==
  /\ lock = NoOne => cachedBytes = SumOf(Bytes, Sizes)
  /\ \A t \in Threads : pc[t] = "clear" => op[t] = "clear"
  /\ \A t \in Threads : op[t] = "clear" /\ pc[t] # "idle" =>
       lock = t /\ \A s \in Sizes : cache[s] = << >>

\* Finitely many requests have finitely many sizes.
LEMMA SizesFinite ==
  ASSUME IsFiniteSet(Requests) PROVE IsFiniteSet(Sizes)
<1> DEFINE f == [n \in Requests |-> Aligned(n)]
<1>1. f \in Surjection(Requests, Sizes)
  BY DEF Surjection, Sizes
<1>2. QED
  BY <1>1, FS_Surjection

\* A step that touches neither the cache nor its count.
LEMMA QuietCounted ==
  ASSUME Counted, UNCHANGED <<lock, cache, cachedBytes>>,
         \A u \in Threads : pc'[u] = "clear" => op'[u] = "clear",
         \A u \in Threads : op'[u] = "clear" /\ pc'[u] # "idle" =>
                              op[u] = "clear" /\ pc[u] # "idle"
  PROVE  Counted'
BY DEF Counted, Bytes

\* What a sum over the sizes becomes when one summand changes.
LEMMA SizesUpdate ==
  ASSUME NEW v, NEW w, NEW s \in Sizes, IsFiniteSet(Sizes),
         \A r \in Sizes : v[r] \in Int /\ w[r] \in Int,
         \A r \in Sizes \ {s} : w[r] = v[r]
  PROVE  SumOf(w, Sizes) = SumOf(v, Sizes) - v[s] + w[s]
BY SumUpdate

\* One size gains or loses one buffer.
LEMMA BytesChange ==
  ASSUME MemoryTypes, IsFiniteSet(Requests), NEW s \in Sizes,
         NEW d \in {-1, 1},
         \A r \in Sizes : r # s => cache'[r] = cache[r],
         Len(cache'[s]) \in Nat, Len(cache'[s]) = Len(cache[s]) + d
  PROVE  /\ SumOf(Bytes', Sizes) = SumOf(Bytes, Sizes) + s * d
         /\ SumOf(Bytes, Sizes) \in Int /\ s \in Nat
<1>1. IsFiniteSet(Sizes)
  BY SizesFinite
<1>2. PICK v, w : v = Bytes /\ w = Bytes'
  OBVIOUS
<1>3. Sizes \subseteq Nat
  BY SizesType
<1>4. \A r \in Sizes : Len(cache[r]) \in Nat /\ Len(cache'[r]) \in Nat
  BY DEF MemoryTypes
<1>5. \A r \in Sizes : v[r] = r * Len(cache[r]) /\ w[r] = r * Len(cache'[r])
  BY <1>2 DEF Bytes
<1>6. ASSUME NEW r \in Sizes PROVE v[r] \in Int /\ w[r] \in Int
  BY <1>3, <1>4, <1>5
<1>7. \A r \in Sizes \ {s} : w[r] = v[r]
  BY <1>5
<1>8. SumOf(w, Sizes) = SumOf(v, Sizes) - v[s] + w[s] /\ SumOf(v, Sizes) \in Int
  <2>1. \A r \in Sizes : v[r] \in Int /\ w[r] \in Int
    BY <1>6
  <2>2. SumOf(w, Sizes) = SumOf(v, Sizes) - v[s] + w[s]
    BY <1>1, <1>7, <2>1, SizesUpdate
  <2>3. SumOf(v, Sizes) \in Int
    BY <1>1, <2>1, SumInt
  <2>4. QED
    BY <2>2, <2>3
<1>9. w[s] = v[s] + s * d
  <2>1. PICK k : k = Len(cache[s])
    OBVIOUS
  <2>2. s \in Nat /\ k \in Nat
    BY <1>3, <1>4, <2>1
  <2>3. s * (k + d) = s * k + s * d
    BY <2>2
  <2>4. QED
    BY <1>5, <2>1, <2>3
<1>10. s * d \in Int /\ v[s] \in Int
  BY <1>3, <1>6
<1>11. QED
  BY <1>2, <1>3, <1>8, <1>9, <1>10

LEMMA CountedStep ==
  ASSUME MemoryInv, IsFiniteSet(Requests), Counted, [Next]_vars
  PROVE  Counted'
<1>0. /\ MemoryTypes /\ Sized
      /\ NoOne \notin Threads
  BY NoOneAssumption DEF MemoryInv
<1>1. ASSUME NEW t \in Threads, NEW c \in Calls \cap {"alloc", "alloc_zero"},
             NEW n \in Requests, CallAlloc(t, c, n)
      PROVE  Counted'
  <2>1. /\ UNCHANGED <<lock, cache, cachedBytes>> /\ c # "clear"
        /\ pc' = [pc EXCEPT ![t] = "lookup"] /\ op' = [op EXCEPT ![t] = c]
    BY <1>1 DEF CallAlloc, Goto, host
  <2>2. QED
    BY <1>0, <2>1, QuietCounted DEF MemoryTypes, Counted
<1>2. ASSUME NEW t \in Threads, LookUpHit(t) PROVE Counted'
  <2>1. PICK s \in Matches(t) :
          /\ cache' = [cache EXCEPT ![s] = Front(cache[s])]
          /\ cachedBytes' = cachedBytes - s
    BY <1>2 DEF LookUpHit
  <2>2. /\ pc[t] = "lookup" /\ lock = NoOne /\ UNCHANGED <<lock, op>>
        /\ \E k \in {"zero", "idle"} : pc' = [pc EXCEPT ![t] = k]
    BY <1>2 DEF LookUpHit, Goto, AfterAlloc
  <2>3. s \in Sizes /\ cache[s] # << >> /\ cache[s] \in Seq(Buffers)
    BY <1>0, <2>1 DEF Matches, MemoryTypes
  <2>4. /\ Len(Front(cache[s])) = Len(cache[s]) + (-1)
        /\ Len(Front(cache[s])) \in Nat
    <3>1. /\ Front(cache[s]) \in Seq(Buffers)
          /\ Len(Front(cache[s])) = Len(cache[s]) - 1
          /\ Len(cache[s]) \in Nat \ {0}
      BY <2>3, FrontLemma
    <3>2. QED
      BY <3>1
  <2>5. /\ cache'[s] = Front(cache[s])
        /\ \A r \in Sizes : r # s => cache'[r] = cache[r]
    BY <1>0, <2>1, <2>3 DEF MemoryTypes
  <2>6. /\ SumOf(Bytes', Sizes) = SumOf(Bytes, Sizes) + s * (-1)
        /\ SumOf(Bytes, Sizes) \in Int /\ s \in Nat
    <3>1. -1 \in {-1, 1}
      OBVIOUS
    <3>2. QED
      BY <1>0, <2>3, <2>4, <2>5, <3>1, BytesChange
  <2>7. cachedBytes = SumOf(Bytes, Sizes)
    BY <2>2 DEF Counted
  <2>8. cachedBytes' = SumOf(Bytes', Sizes)
    BY <2>1, <2>6, <2>7
  <2>9. \A u \in Threads : /\ pc'[u] = "clear" => op'[u] = "clear"
                           /\ ~(op'[u] = "clear" /\ pc'[u] # "idle")
    BY <1>0, <2>2 DEF Counted, MemoryTypes
  <2>10. QED
    BY <2>8, <2>9 DEF Counted
<1>3. ASSUME NEW t \in Threads,
             \/ LookUpMiss(t) \/ ReserveAddress(t) \/ AllocMemory(t)
             \/ MapMemory(t) \/ MapOnHost(t)
      PROVE  Counted'
  <2>1. /\ UNCHANGED <<lock, cache, cachedBytes, op>>
        /\ pc[t] # "idle"
        /\ \E k \in Steps \ {"clear"} : pc' = [pc EXCEPT ![t] = k]
    BY <1>3 DEF LookUpMiss, ReserveAddress, AllocMemory, MapMemory, MapOnHost,
                Goto, host, local, Steps, AfterAlloc
  <2>2. QED
    BY <1>0, <2>1, QuietCounted DEF MemoryTypes, Counted
<1>4. ASSUME NEW t \in Threads, AllocFails(t) \/ MapClashes(t) \/ Zero(t)
      PROVE  Counted'
  <2>1. /\ UNCHANGED <<lock, cache, cachedBytes, op>>
        /\ pc' = [pc EXCEPT ![t] = "idle"]
    BY <1>4 DEF AllocFails, MapClashes, Zero, GiveUp, Goto, host, local
  <2>2. QED
    BY <1>0, <2>1, QuietCounted DEF MemoryTypes, Counted
<1>5. ASSUME NEW t \in Threads, Munmap(t) \/ UnmapMemory(t) \/ FreeMemory(t)
      PROVE  Counted'
  <2>1. /\ UNCHANGED <<lock, cache, cachedBytes, op>>
        /\ pc[t] # "idle"
        /\ \E k \in Steps : /\ pc' = [pc EXCEPT ![t] = k]
                            /\ k = "clear" => op[t] = "clear"
    BY <1>5 DEF Munmap, UnmapMemory, FreeMemory, Goto, host, local, Steps
  <2>2. QED
    BY <1>0, <2>1, QuietCounted DEF MemoryTypes, Counted
<1>6. ASSUME NEW t \in Threads, ClearDone(t) PROVE Counted'
  <2>1. /\ pc[t] = "clear" /\ op[t] = "clear" /\ lock = t
        /\ \A s \in Sizes : cache[s] = << >>
    BY <1>6 DEF ClearDone, Counted
  <2>2. /\ cachedBytes' = 0 /\ lock' = NoOne /\ UNCHANGED <<cache, op>>
        /\ pc' = [pc EXCEPT ![t] = "idle"]
    BY <1>6 DEF ClearDone, Goto, local
  <2>3. \A u \in Threads : op[u] = "clear" /\ pc[u] # "idle" => u = t
    BY <2>1 DEF Counted
  <2>4. SumOf(Bytes', Sizes) = 0
    <3>1. PICK w : w = Bytes'
      OBVIOUS
    <3>2. IsFiniteSet(Sizes)
      BY SizesFinite
    <3>3. \A s \in Sizes : s \in Nat
      BY SizesType
    <3>4. \A s \in Sizes : w[s] = 0
      BY <2>1, <2>2, <3>1, <3>3 DEF Bytes
    <3>5. SumOf(w, Sizes) = 0
      BY <3>2, <3>4, SumZero
    <3>6. QED
      BY <3>1, <3>5
  <2>5. \A u \in Threads : /\ pc'[u] = "clear" => op'[u] = "clear"
                           /\ ~(op'[u] = "clear" /\ pc'[u] # "idle")
    BY <1>0, <2>2, <2>3 DEF MemoryTypes, Counted
  <2>6. QED
    BY <2>2, <2>4, <2>5 DEF Counted
<1>7. ASSUME NEW t \in Threads, NEW b \in held[t], Recycle(t, b) PROVE Counted'
  <2>0. b \in Buffers /\ bo[b].size \in Sizes
    BY <1>0 DEF MemoryTypes, Sized
  <2>1. PICK s : s = bo[b].size
    OBVIOUS
  <2>2. /\ pc[t] = "idle" /\ lock = NoOne /\ UNCHANGED <<lock, op, pc>>
        /\ cache' = [cache EXCEPT ![s] = Append(cache[s], b)]
        /\ cachedBytes' = cachedBytes + s
    BY <1>7, <2>1 DEF Recycle, MayGiveUp, local
  <2>3. s \in Sizes /\ cache[s] \in Seq(Buffers)
    BY <1>0, <2>0, <2>1 DEF MemoryTypes
  <2>4. /\ Len(Append(cache[s], b)) = Len(cache[s]) + 1
        /\ Len(Append(cache[s], b)) \in Nat
    BY <2>0, <2>3
  <2>5. /\ cache'[s] = Append(cache[s], b)
        /\ \A r \in Sizes : r # s => cache'[r] = cache[r]
    BY <1>0, <2>2, <2>3 DEF MemoryTypes
  <2>6. /\ SumOf(Bytes', Sizes) = SumOf(Bytes, Sizes) + s * 1
        /\ SumOf(Bytes, Sizes) \in Int /\ s \in Nat
    <3>1. 1 \in {-1, 1}
      OBVIOUS
    <3>2. QED
      BY <1>0, <2>3, <2>4, <2>5, <3>1, BytesChange
  <2>7. cachedBytes = SumOf(Bytes, Sizes)
    BY <2>2 DEF Counted
  <2>8. cachedBytes' = SumOf(Bytes', Sizes)
    BY <2>2, <2>6, <2>7
  <2>9. \A u \in Threads : /\ pc'[u] = "clear" => op'[u] = "clear"
                           /\ ~(op'[u] = "clear" /\ pc'[u] # "idle")
    BY <1>0, <2>2 DEF Counted
  <2>10. QED
    BY <2>8, <2>9 DEF Counted
<1>8. ASSUME NEW t \in Threads, NEW b \in held[t], DropBuffer(t, b)
      PROVE  Counted'
  BY <1>0, <1>8, QuietCounted DEF DropBuffer, Goto, Counted, MemoryTypes
<1>9. ASSUME NEW t \in Threads, Clear(t) PROVE Counted'
  <2>1. /\ lock = NoOne /\ lock' = t /\ t # NoOne
        /\ cache' = [s \in Sizes |-> << >>]
        /\ op' = [op EXCEPT ![t] = "clear"]
        /\ \E k \in {"clear", "munmap"} : pc' = [pc EXCEPT ![t] = k]
    BY <1>0, <1>9 DEF Clear, Goto
  <2>2. \A u \in Threads : op[u] = "clear" => pc[u] = "idle"
    BY <1>0, <2>1 DEF Counted
  <2>3. QED
    BY <1>0, <2>1, <2>2 DEF Counted, MemoryTypes
<1>10. ASSUME NEW t \in Threads, NEW b \in held[t], Launch(t, b) PROVE Counted'
  BY <1>10, QuietCounted DEF Launch, host, local, Counted
<1>11. CASE GpuRun
  BY <1>11, QuietCounted DEF GpuRun, host, local, Counted
<1>12. CASE UNCHANGED vars
  BY <1>12, QuietCounted DEF vars, host, local, Counted
<1>13. QED
  BY <1>1, <1>2, <1>3, <1>4, <1>5, <1>6, <1>7, <1>8, <1>9, <1>10, <1>11, <1>12
     DEF Next, Step

\* BufferPool's cached_bytes is the sum over the cache, whenever nobody is
\* inside clear(): alloc, recycle and clear keep the two together, whatever the
\* sizes and the callers.
THEOREM CacheIsCounted ==
  ASSUME IsFiniteSet(Threads), IsFiniteSet(Requests)
  PROVE  Spec => []CachedBytesRight
<1>1. Init => Counted
  <2> SUFFICES ASSUME Init PROVE Counted
    OBVIOUS
  <2>1. /\ pc = [t \in Threads |-> "idle"] /\ cachedBytes = 0
        /\ cache = [s \in Sizes |-> << >>]
    BY DEF Init
  <2>2. PICK v : v = Bytes
    OBVIOUS
  <2>3. \A s \in Sizes : s \in Nat
    BY SizesType
  <2>4. \A s \in Sizes : v[s] = 0
    BY <2>1, <2>2, <2>3 DEF Bytes
  <2>5. SumOf(v, Sizes) = 0
    BY <2>4, SizesFinite, SumZero
  <2>6. QED
    BY <2>1, <2>2, <2>5 DEF Counted
<1>2. Counted => CachedBytesRight
  BY DEF Counted, CachedBytesRight, Bytes, SumOf
<1>3. QED
  BY <1>1, <1>2, CountedStep, MemoryInvariant, PTL DEF Spec
=============================================================================
