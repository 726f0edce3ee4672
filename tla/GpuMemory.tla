----------------------------- MODULE GpuMemory -----------------------------
(***************************************************************************)
(* GPU memory: GpuBuffer (kfd/mod.rs), which reserves a virtual address,   *)
(* allocates a buffer object (BO) through KFD and maps it on the GPU and   *)
(* on the host, and BufferPool (ignis/gpu_context.rs), which keeps freed   *)
(* buffers by size instead of unmapping them.                              *)
(*                                                                         *)
(* Every system call of an allocation and of Drop is a step of its own.    *)
(* The kernel driver and the GPU's TLB are not in the repository: they are *)
(* modelled from what the code and its comments rely on.                   *)
(***************************************************************************)
EXTENDS Integers, Sequences, FiniteSets, FiniteSetsExt, SequencesExt

CONSTANTS Threads,
          Addresses,   \* the virtual addresses mmap hands out
          MaxBuffers,  \* bound on the BOs a behaviour allocates
          MaxLeases,   \* bound on the buffers handed to the caller
          MaxQueue,    \* bound on the kernels in flight
          Page,        \* 4096 in the code
          Requests,    \* sizes in bytes the caller asks for
          Calls,       \* the methods the host uses
          MayFail,     \* TRUE: an ioctl or mmap may fail
          StaleTlb,    \* TRUE: UNMAP leaves the GPU's TLB alone
          WaitsFirst   \* TRUE: the caller waits for its kernels before it
                       \* gives a buffer up

AllCalls == {"alloc", "alloc_zero", "recycle", "drop", "clear"}

ASSUME SizeAssumption == Page \in Nat \ {0} /\ Requests \subseteq Nat \ {0}
ASSUME SpaceAssumption == Addresses # {} /\ Requests # {}
ASSUME BoundAssumption ==
  MaxBuffers \in Nat /\ MaxLeases \in Nat /\ MaxQueue \in Nat
ASSUME CallsAssumption == Calls \subseteq AllCalls
ASSUME ModeAssumption ==
  MayFail \in BOOLEAN /\ StaleTlb \in BOOLEAN /\ WaitsFirst \in BOOLEAN

None    == 0
NoOne   == "no thread"
Buffers == 1..MaxBuffers
Leases  == 1..MaxLeases
ASSUME NoOneAssumption == NoOne \notin Threads

Aligned(n) == ((n + Page - 1) \div Page) * Page
Sizes == {Aligned(n) : n \in Requests}

VARIABLES
  hostMap,     \* address -> "free", "reserved" or "mapped" in the process
  gpuMap,      \* address -> the BO the GPU's page table maps there
  tlb,         \* address -> the BO of the GPU's cached translation
  bo,          \* BO -> its address and size, whether KFD still has it, the
               \* lease that last wrote it
  lease,       \* BO -> the lease of its present owner, None when it has none
  asked,       \* lease -> the bytes asked for, and whether zeroed
  nBuffers, nLeases,
  held,        \* per thread: the BOs of its GpuBuffer values
  cache,       \* aligned size -> Vec<GpuBuffer>
  cachedBytes,
  lock,        \* owner of the mutex around the cache
  queue,       \* kernels in flight, oldest first: address and lease
  pc, op,      \* per thread: next step, and the call it is inside
  want,        \* per thread: bytes of its alloc
  at,          \* per thread: the address its alloc has reserved
  cur,         \* per thread: the BO its alloc is building
  dropping,    \* per thread: GpuBuffers whose Drop is yet to finish
  failures,    \* history: allocations that returned Err
  stray        \* history: a kernel reached memory that is not its buffer

host  == <<hostMap, held, cache, cachedBytes, lock>>
device == <<gpuMap, tlb, queue, stray>>
ledger == <<bo, lease, asked, nBuffers, nLeases>>
local  == <<op, want, at, cur, dropping>>
vars == <<host, device, ledger, pc, local, failures>>

Steps == {"idle", "lookup", "reserve", "alloc", "map", "mmap", "zero",
          "clear", "munmap", "unmap", "free"}

SomeAddress == CHOOSE a \in Addresses : TRUE
SomeRequest == CHOOSE n \in Requests : TRUE

Init ==
  /\ hostMap = [a \in Addresses |-> "free"]
  /\ gpuMap = [a \in Addresses |-> None]
  /\ tlb = [a \in Addresses |-> None]
  /\ bo = [b \in Buffers |-> [va |-> SomeAddress, size |-> 0, live |-> FALSE,
                              data |-> None]]
  /\ lease = [b \in Buffers |-> None]
  /\ asked = [l \in Leases |-> [bytes |-> SomeRequest, zeroed |-> FALSE]]
  /\ nBuffers = 0 /\ nLeases = 0
  /\ held = [t \in Threads |-> {}]
  /\ cache = [s \in Sizes |-> << >>]
  /\ cachedBytes = 0
  /\ lock = NoOne
  /\ queue = << >>
  /\ pc = [t \in Threads |-> "idle"]
  /\ op = [t \in Threads |-> "alloc"]
  /\ want = [t \in Threads |-> SomeRequest]
  /\ at = [t \in Threads |-> SomeAddress]
  /\ cur = [t \in Threads |-> None]
  /\ dropping = [t \in Threads |-> << >>]
  /\ failures = 0 /\ stray = FALSE
-----------------------------------------------------------------------------
(* BufferPool::alloc *)

Goto(t, step) == pc' = [pc EXCEPT ![t] = step]

CallAlloc(t, c, n) ==
  /\ pc[t] = "idle"
  /\ nLeases + Cardinality({u \in Threads : pc[u] # "idle"}) < MaxLeases
  /\ Goto(t, "lookup")
  /\ op' = [op EXCEPT ![t] = c]
  /\ want' = [want EXCEPT ![t] = n]
  /\ UNCHANGED <<host, device, ledger, at, cur, dropping, failures>>

\* The caller becomes the owner of b.
Lease(t, b) ==
  /\ nLeases' = nLeases + 1
  /\ lease' = [lease EXCEPT ![b] = nLeases + 1]
  /\ asked' = [asked EXCEPT ![nLeases + 1] =
                 [bytes |-> want[t], zeroed |-> op[t] = "alloc_zero"]]

AfterAlloc(t) == IF op[t] = "alloc_zero" THEN "zero" ELSE "idle"

\* Mutant: any cached buffer will do.
MatchesAny(t) == {s \in Sizes : cache[s] # << >>}
Matches(t)    == {s \in Sizes \cap {Aligned(want[t])} : cache[s] # << >>}

LookUpHit(t) ==
  /\ pc[t] = "lookup" /\ lock = NoOne
  /\ \E s \in Matches(t) :
       /\ cache' = [cache EXCEPT ![s] = Front(@)]
       /\ cachedBytes' = cachedBytes - s
       /\ Lease(t, Last(cache[s]))
       /\ cur' = [cur EXCEPT ![t] = Last(cache[s])]
       /\ held' = [held EXCEPT ![t] = @ \cup {Last(cache[s])}]
  /\ Goto(t, AfterAlloc(t))
  /\ UNCHANGED <<hostMap, lock, device, bo, nBuffers, op, want, at, dropping,
                 failures>>

LookUpMiss(t) ==
  /\ pc[t] = "lookup" /\ lock = NoOne
  /\ Matches(t) = {}
  /\ nBuffers + Cardinality({u \in Threads : pc[u] \in {"reserve", "alloc"}})
       < MaxBuffers
  /\ Goto(t, "reserve")
  /\ UNCHANGED <<host, device, ledger, local, failures>>

-----------------------------------------------------------------------------
(* KfdDevice::alloc_memory *)

\* alloc_va: the process's address space has a hole of the size.
ReserveAddress(t) ==
  /\ pc[t] = "reserve"
  /\ \E a \in Addresses :
       /\ hostMap[a] = "free"
       /\ hostMap' = [hostMap EXCEPT ![a] = "reserved"]
       /\ at' = [at EXCEPT ![t] = a]
  /\ Goto(t, "alloc")
  /\ UNCHANGED <<held, cache, cachedBytes, lock, device, ledger, op, want, cur,
                 dropping, failures>>

\* The aligned size is what GpuBuffer.size reports; the contents of a new BO
\* are whatever the memory last held.
AllocMemory(t) ==
  /\ pc[t] = "alloc"
  /\ nBuffers' = nBuffers + 1
  /\ bo' = [bo EXCEPT ![nBuffers + 1] =
              [va |-> at[t], size |-> Aligned(want[t]), live |-> TRUE,
               data |-> -1]]
  /\ cur' = [cur EXCEPT ![t] = nBuffers + 1]
  /\ Goto(t, "map")
  /\ UNCHANGED <<host, device, lease, asked, nLeases, op, want, at, dropping,
                 failures>>

\* `?` returns with the address still reserved and the BO still allocated: no
\* GpuBuffer exists yet whose Drop would release them.
GiveUp(t) ==
  /\ Goto(t, "idle")
  /\ failures' = failures + 1

AllocFails(t) ==
  /\ pc[t] \in {"alloc", "map", "mmap"}
  /\ MayFail
  /\ GiveUp(t)
  /\ UNCHANGED <<host, device, ledger, local>>

MapMemory(t) ==
  /\ pc[t] = "map"
  /\ gpuMap[at[t]] = None
  /\ gpuMap' = [gpuMap EXCEPT ![at[t]] = cur[t]]
  /\ Goto(t, "mmap")
  /\ UNCHANGED <<host, tlb, queue, stray, ledger, local, failures>>

\* The driver refuses a range that another BO's mapping still covers.
MapClashes(t) ==
  /\ pc[t] = "map"
  /\ gpuMap[at[t]] # None
  /\ GiveUp(t)
  /\ UNCHANGED <<host, device, ledger, local>>

MapOnHost(t) ==
  /\ pc[t] = "mmap"
  /\ hostMap' = [hostMap EXCEPT ![at[t]] = "mapped"]
  /\ held' = [held EXCEPT ![t] = @ \cup {cur[t]}]
  /\ Lease(t, cur[t])
  /\ Goto(t, AfterAlloc(t))
  /\ UNCHANGED <<cache, cachedBytes, lock, device, bo, nBuffers, local,
                 failures>>

\* Mutant: only a new BO is zeroed.
ZeroNothing(t) ==
  /\ pc[t] = "zero"
  /\ Goto(t, "idle")
  /\ UNCHANGED <<host, device, ledger, local, failures>>

\* alloc_zero and alloc_f32 clear the buffer through the host mapping.
Zero(t) ==
  /\ pc[t] = "zero"
  /\ bo' = [bo EXCEPT ![cur[t]].data = None]
  /\ Goto(t, "idle")
  /\ UNCHANGED <<host, device, lease, asked, nBuffers, nLeases, local,
                 failures>>

-----------------------------------------------------------------------------
(* Giving buffers up *)

InFlight(b) == \E i \in DOMAIN queue : queue[i].lease = lease[b]

\* Mutant: the caller does not wait.
MayGiveUpAtOnce(t, b) == pc[t] = "idle" /\ b \in held[t]

MayGiveUp(t, b) ==
  /\ pc[t] = "idle"
  /\ b \in held[t]
  /\ WaitsFirst => ~InFlight(b)

Recycle(t, b) ==
  /\ MayGiveUp(t, b)
  /\ lock = NoOne
  /\ cache' = [cache EXCEPT ![bo[b].size] = Append(@, b)]
  /\ cachedBytes' = cachedBytes + bo[b].size
  /\ held' = [held EXCEPT ![t] = @ \ {b}]
  /\ lease' = [lease EXCEPT ![b] = None]
  /\ UNCHANGED <<hostMap, lock, device, bo, asked, nBuffers, nLeases, pc, local,
                 failures>>

DropBuffer(t, b) ==
  /\ MayGiveUp(t, b)
  /\ held' = [held EXCEPT ![t] = @ \ {b}]
  /\ lease' = [lease EXCEPT ![b] = None]
  /\ dropping' = [dropping EXCEPT ![t] = <<b>>]
  /\ op' = [op EXCEPT ![t] = "drop"]
  /\ Goto(t, "munmap")
  /\ UNCHANGED <<hostMap, cache, cachedBytes, lock, device, bo, asked, nBuffers,
                 nLeases, want, at, cur, failures>>

Cached == UNION {ToSet(cache[s]) : s \in Sizes}

\* cache.clear() drops every buffer while it holds the lock, in the order in
\* which the HashMap has them.
Clear(t) ==
  /\ pc[t] = "idle" /\ lock = NoOne
  /\ lock' = t
  /\ \E all \in SetToSeqs(Cached) : dropping' = [dropping EXCEPT ![t] = all]
  /\ cache' = [s \in Sizes |-> << >>]
  /\ op' = [op EXCEPT ![t] = "clear"]
  /\ Goto(t, IF \A s \in Sizes : cache[s] = << >> THEN "clear" ELSE "munmap")
  /\ UNCHANGED <<hostMap, held, cachedBytes, device, ledger, want, at, cur,
                 failures>>

\* Mutant: cached_bytes keeps its value.
ClearDoneUncounted(t) ==
  /\ pc[t] = "clear"
  /\ lock' = NoOne
  /\ Goto(t, "idle")
  /\ UNCHANGED <<hostMap, held, cache, cachedBytes, device, ledger, local,
                 failures>>

ClearDone(t) ==
  /\ pc[t] = "clear"
  /\ cachedBytes' = 0
  /\ lock' = NoOne
  /\ Goto(t, "idle")
  /\ UNCHANGED <<hostMap, held, cache, device, ledger, local, failures>>

(* GpuBuffer::drop: munmap, UNMAP_MEMORY, FREE_MEMORY *)

Victim(t) == Head(dropping[t])

Munmap(t) ==
  /\ pc[t] = "munmap"
  /\ hostMap' = [hostMap EXCEPT ![bo[Victim(t)].va] = "free"]
  /\ Goto(t, "unmap")
  /\ UNCHANGED <<held, cache, cachedBytes, lock, device, ledger, local,
                 failures>>

UnmapMemory(t) ==
  /\ pc[t] = "unmap"
  /\ LET a == bo[Victim(t)].va IN
       /\ gpuMap' = [gpuMap EXCEPT ![a] = IF @ = Victim(t) THEN None ELSE @]
       /\ tlb' = IF StaleTlb THEN tlb ELSE [tlb EXCEPT ![a] = None]
  /\ Goto(t, "free")
  /\ UNCHANGED <<host, queue, stray, ledger, local, failures>>

\* Mutant: the BO is never freed.
FreeNothing(t) ==
  /\ pc[t] = "free"
  /\ dropping' = [dropping EXCEPT ![t] = Tail(@)]
  /\ Goto(t, IF Len(dropping[t]) > 1 THEN "munmap"
             ELSE IF op[t] = "clear" THEN "clear" ELSE "idle")
  /\ UNCHANGED <<host, device, ledger, op, want, at, cur, failures>>

\* Mutant: the range is unmapped a second time.
FreeMemoryMunmaps(t) ==
  /\ pc[t] = "free"
  /\ bo' = [bo EXCEPT ![Victim(t)].live = FALSE]
  /\ hostMap' = [hostMap EXCEPT ![bo[Victim(t)].va] = "free"]
  /\ dropping' = [dropping EXCEPT ![t] = Tail(@)]
  /\ Goto(t, IF Len(dropping[t]) > 1 THEN "munmap"
             ELSE IF op[t] = "clear" THEN "clear" ELSE "idle")
  /\ UNCHANGED <<held, cache, cachedBytes, lock, device, lease, asked, nBuffers,
                 nLeases, op, want, at, cur, failures>>

FreeMemory(t) ==
  /\ pc[t] = "free"
  /\ bo' = [bo EXCEPT ![Victim(t)].live = FALSE]
  /\ dropping' = [dropping EXCEPT ![t] = Tail(@)]
  /\ Goto(t, IF Len(dropping[t]) > 1 THEN "munmap"
             ELSE IF op[t] = "clear" THEN "clear" ELSE "idle")
  /\ UNCHANGED <<host, device, lease, asked, nBuffers, nLeases, op, want, at,
                 cur, failures>>

-----------------------------------------------------------------------------
(* Kernels *)

\* The caller submits a kernel that writes its buffer.
Launch(t, b) ==
  /\ pc[t] = "idle"
  /\ b \in held[t]
  /\ Len(queue) < MaxQueue
  /\ queue' = Append(queue, [va |-> bo[b].va, lease |-> lease[b]])
  /\ UNCHANGED <<host, gpuMap, tlb, stray, ledger, pc, local, failures>>

\* Where the GPU's translation of an address leads.
Reached(a) == IF tlb[a] # None THEN tlb[a] ELSE gpuMap[a]

GpuRun ==
  /\ queue # << >>
  /\ LET q == Head(queue)
         b == Reached(q.va)
     IN  /\ stray' = (stray \/ b = None \/ lease[b] # q.lease)
         /\ bo' = IF b = None THEN bo ELSE [bo EXCEPT ![b].data = q.lease]
         /\ tlb' = [tlb EXCEPT ![q.va] = b]
  /\ queue' = Tail(queue)
  /\ UNCHANGED <<host, gpuMap, lease, asked, nBuffers, nLeases, pc, local,
                 failures>>

-----------------------------------------------------------------------------
Step(t) ==
  \/ LookUpHit(t) \/ LookUpMiss(t)
  \/ ReserveAddress(t) \/ AllocMemory(t) \/ AllocFails(t) \/ MapMemory(t)
  \/ MapClashes(t) \/ MapOnHost(t) \/ Zero(t)
  \/ Munmap(t) \/ UnmapMemory(t) \/ FreeMemory(t) \/ ClearDone(t)

Next ==
  \/ \E t \in Threads :
       \/ Step(t)
       \/ \E c \in Calls \cap {"alloc", "alloc_zero"}, n \in Requests :
            CallAlloc(t, c, n)
       \/ \E b \in held[t] :
            \/ Launch(t, b)
            \/ "recycle" \in Calls /\ Recycle(t, b)
            \/ "drop" \in Calls /\ DropBuffer(t, b)
       \/ "clear" \in Calls /\ Clear(t)
  \/ GpuRun

Spec == Init /\ [][Next]_vars

-----------------------------------------------------------------------------
(* Properties *)

\* A kernel reaches the memory of the buffer it was submitted with: never an
\* unmapped address, a BO already freed, or a buffer that has a new owner.
\* (GpuRuntime::buffer_pool: "eliminates VA reuse race".)
KernelsTouchOwnBuffer == ~stray

\* A buffer from alloc_zero holds zeroes until its own owner's kernels write it.
FreshStaysZero ==
  \A t \in Threads : \A b \in held[t] :
    asked[lease[b]].zeroed /\ ~(pc[t] = "zero" /\ cur[t] = b)
      => bo[b].data \in {None, lease[b]}

\* A buffer is at least as large as its owner asked for, whichever earlier
\* request it was allocated for.
BigEnough ==
  \A t \in Threads : \A b \in held[t] : bo[b].size >= asked[lease[b]].bytes

\* Between two holders of the lock, cached_bytes is what the cache holds.
CachedBytesRight ==
  lock = NoOne =>
    LET bytes == [s \in Sizes |-> s * Len(cache[s])]
    IN  cachedBytes = MapThenSumSet(LAMBDA s : bytes[s], Sizes)

\* A live buffer's address is mapped, for the host and for the GPU, and to it.
MappedToItself ==
  \A t \in Threads : \A b \in held[t] :
    /\ bo[b].live
    /\ hostMap[bo[b].va] = "mapped"
    /\ gpuMap[bo[b].va] = b

Owned    == (UNION {held[t] : t \in Threads}) \cup Cached
Underway == {cur[t] : t \in {u \in Threads : pc[u] \in {"map", "mmap"}}}
              \cup UNION {ToSet(dropping[t]) : t \in Threads}

\* Only a failed allocation leaks: every BO that KFD still has belongs to a
\* GpuBuffer or to a call in progress.
LeaksOnlyOnFailure ==
  failures = 0 =>
    \A b \in Buffers : bo[b].live => b \in Owned \cup Underway

=============================================================================
