# A verification project for t0-gpu

t0-gpu is a Rust program that talks to an AMD RDNA3 GPU without the vendor's
user-space stack. It compiles kernels itself, drives the GPU through
`/dev/kfd`, and has a small training framework, Ignis, on top. This directory
holds TLA+ modules of its core, the TLC configurations that check them on small
instances, and TLAPS proofs for the parts that hold on instances of any size.

The modules follow a number through the whole program: a kernel is described
(`BlockBuilder`), translated and lowered (`TileSsa`, `TiledGemm`), generated
(`GemmKernel`), optimised (`Optimizer`), given registers (`RegAlloc`) or written by
hand (`Rdna3Assembler`); it is launched (`GpuRuntime`, `AqlQueue`) on buffers
(`GpuMemory`), and its results become gradients (`Tape`).

Paths below are relative to the crate: `kfd/mod.rs` is `src/src/kfd/mod.rs`.

## 1. Inventory

### 1.1 The parts and how they interact

```
 ignis: nn, ops, tensor  --records-->  tape  --runs closures-->  gradients
            |  dispatch, alloc_f32, read_f32                        |
            v                                                       v
 ignis/gpu_context: GpuRuntime ---- BufferPool, caches, poison flag
            |  submit, wait_idle          |  alloc_memory, Drop
            v                             v
 kfd/mod: DispatchPool, AqlQueue     KfdDevice, GpuBuffer
            |  ring, write_ptr, doorbell  |  ioctls, mmap
            v                             v
        the GPU's command processor   the kernel driver, the GPU's page table
            ^
            |  code objects
 t0: block_dsl, tile_ssa -> tile_ssa_lower -> ssa_ir, opt_passes -> ssa_regalloc -> asm -> ELF
     cost_model -> gemm_gen, tile_ir ------^
 rdna3_asm: hand-written kernels, straight to words
```

Two kinds of concurrency matter. The GPU runs beside the host and shares memory
with it: the ring, the kernel arguments, the signals, the buffers. And the host
may have several threads: `AqlQueue`, `Pm4Queue` and `GpuBuffer` are declared
`Send` and `Sync`, `GpuRuntime` is shared by `Arc`, and its fields carry mutexes
and atomics, although nothing in the crate spawns a thread and the GPU tests
run with `--test-threads=1`.

| Component | State | Operations | What is hard | What makes it correct |
|---|---|---|---|---|
| AQL queue (`kfd/mod.rs` 1168-1755, 2283) | ring of 64-byte packets, `write_ptr`, `read_ptr`, doorbell, completion signals | `submit`, `submit_batch`, `submit_fast`, `ring_doorbell`, `dispatch`, `dispatch_signal`, `wait_idle`, `wait_idle_spin`, Drop | the GPU reads slots while the host writes them; wrap-around; timeouts; hang | no packet lost, torn, overwritten, reordered or run twice; Ok is true; waits end |
| Ignis runtime (`ignis/gpu_context.rs`) | slot counter, kernarg pool, poison flag, caches | `dispatch`, `dispatch_async`, `dispatch_bench`, `wait_idle`, `read_f32` | argument buffers are reused while packets are in flight; the pool grows under live references; poisoning races with other dispatches | each kernel reads its own arguments; a poisoned queue gets no more work; reads are complete |
| GPU memory (`kfd/mod.rs` 554-668, 1040-1080) | virtual addresses, buffer objects, GPU and host mappings | `alloc_memory` (three system calls), Drop (three more) | partial failure; another thread's calls at the same address; the GPU's TLB | a buffer is mapped to itself while it lives; a kernel reaches its own buffer; no leak without a failure |
| Buffer pool (`ignis/gpu_context.rs` 20-80) | free buffers by size, `cached_bytes` | `alloc`, `recycle`, `clear` | reuse with old contents; one lock around many system calls | big enough, zeroed when promised, counted exactly |
| Tape (`ignis/tape.rs`, `ignis/ops`) | nodes with one-shot closures, gradient registry, recording flag | record, `backward`, `backward_from_grad`, `sync_grads`, `clear`, guards | shared buffers accumulated in place; a pass that fails halfway; nested guards | gradients are the derivatives; taken gradients do not change; guards nest |
| Register allocation (`t0/ssa_regalloc.rs`, `t0/regalloc.rs`) | free ranges, active intervals, high-water mark, u8 numbers | expire, place a group, join it, spill, declare | groups whose registers die apart; alignment in u8; dead definitions | values alive at once never share a register; groups consecutive and aligned; the kernel declares enough |
| KFD device (`kfd/mod.rs` 273-553, 669-915) | the process's one VM, event page | `open`, `create_queue`, Drop | check-then-open race; error paths | one VM, everything released on failure |
| PM4 queue, PM4 packets (`kfd/mod.rs` 1849-2280, 2351-2520) | a byte ring, an indirect buffer | `submit_pm4`, `dispatch_pm4`, fences | wraps without a check of space | as the AQL queue |
| Runtime caches (`ignis/gpu_context.rs` 160-430) | kernels, argument layouts, bf16 copies | `ensure_kernel_*`, `get_or_create_bf16`, `invalidate_bf16` | two maps under two locks; stale copies | a cached layout has its kernel; a bf16 copy is its weight |
| Loss scaler, schedules, clipping | counters | `update`, `unscale_grads` | a NaN halfway | all or no gradient unscaled |
| Block language and lowering (`t0/block_dsl.rs`, `block_dsl_to_ssa.rs`, `tile_ssa.rs`, `tile_ssa_lower.rs`) | nodes, typed blocks, instructions, the maps from values to registers | the nodes of `BlockKernel`, `block_to_ssa`, `lower_elementwise_1d` | masks, loops, LDS shared by waves, memoised constants, types lost between levels | a kernel leaves the buffers its description says, however waves interleave |
| Kernel builders (`t0/*_kernels.rs`, `ignis/ops`) | none | a builder and a CPU reference each | rows that do not fill a workgroup | as their references |
| GEMM generators (`t0/tile_ir.rs`, `gemm_gen.rs`) | generated code | K loop with two LDS buffers, tiling, swizzle, stores | loads in flight, waits counted by hand, barriers, peeled iterations | each product once, operands arrived, no race on LDS |
| Cost model, front ends of GEMM (`t0/cost_model.rs`, `tile_ssa*.rs`, `block_dsl.rs`) | none | search, conversion of configurations, launches | three descriptions of one kernel that must agree | what is chosen can be generated, and is launched as generated |
| SSA passes and scheduling (`t0/ssa_ir.rs`, `domtree.rs`, `opt_passes.rs`) | instruction lists, environment variables | lift, thirteen passes, intervals | loops without phis, masks, waits; settings that leak from kernel to kernel | a kernel stores what it was written to store; intervals cover every use |
| Assembler (`rdna3_asm.rs`) | words, counters, placeholders | encoders, methods, patches, sequences | field widths, forward branches, counted waits | the words are the instructions meant; the sequences compute what they say |
| Layers, autotuners' measurements, ELF, verifier | none that lasts | - | - | tested by comparing bytes or numbers |

`PROJECT.json` lists every component with what is modelled of it or why it is
not, and the hazards, each at its line and with the properties that cover it.

### 1.2 What is not modelled, and why

* ELF writing and reading, the text assembler and the verifier map values to
  bytes. They keep no state, and a test that compares bytes says more about them
  than a model could. (`rdna3_asm.rs` is different: its counters, placeholders
  and sequences are state, and its encoders are modelled.)
* Rounding. Floats are a prime field (`WaveMachine`), so a sum may be taken in any
  order and a product may not be confused with an integer, but nothing is said
  of precision. The two places where the code is about precision are out of
  reach for the same reason: the mixed-precision loss scaler, and the unpadding
  kernel of `ignis/ops/math.rs`, which divides by a float reciprocal.
* The kernel driver, the command processor, the TLB and the waves of the GPU are
  not in the repository. Their actions are written from what the host code and
  its comments rely on, and marked external in the map.
* `KfdDevice::open`, PM4 packets, the runtime's caches, spill code, attention
  kernels and layers: section 5 says what they would need.

## 2. The modules

| Module | Models | Checked by | Proved in |
|---|---|---|---|
| `CommandQueue` | abstract: what a queue promises | `aql_queue`, as a PROPERTY | `AqlQueueProofs` |
| `AqlQueue` | `AqlQueue` of `kfd/mod.rs` and the command processor | `MCAqlQueue` | `AqlQueueProofs` |
| `GpuRuntime` | `GpuRuntime`'s dispatch and wait, `DispatchPool` | `MCGpuRuntime` | `GpuRuntimeProofs` |
| `GpuMemory` | `alloc_memory`, `GpuBuffer::drop`, `BufferPool` | `MCGpuMemory` | `GpuMemoryProofs` |
| `Tape` | `Tape`, five operations and their closures | `MCTape` | `TapeProofs` |
| `RegAlloc` | the ssa and the legacy vector register allocators | `MCRegAlloc` | `RegAllocProofs` |
| `BlockBuilder` | `BlockKernel`'s methods and their assertions | `MCTileSsa` | - |
| `BlockKernels`, `TensorKernels`, `ElemKernels` | the kernel builders, their CPU references and the launches of the GPU tests; `ElemChain` | `MCTileSsa` | - |
| `TileSsa` | `block_to_ssa`, `lower_elementwise_1d`, the run of the result | `MCTileSsa` | - |
| `WaveMachine` | external: a wave, its masks, LDS, memory | with `TileSsa` | - |
| `GemmKernel` | the two GEMM generators, the wait passes, the waves | `MCGemmKernel` | `GemmKernelProofs`, `GemmProducts` |
| `TiledGemm` | presets, the cost model's search, three front ends, launches | `MCGemmKernel` | - |
| `Optimizer` | lift, passes, dominators, intervals, environment | `MCOptimizer` | - |
| `Gfx11` | the encoders of `rdna3_asm.rs` | `MCRdna3Assembler` | - |
| `Gfx11Isa`, `LaneWave` | external: the instruction formats; a wave of 32 lanes | with `Rdna3Assembler` | - |
| `Rdna3Assembler` | its methods, counters, patches and sequences | `MCRdna3Assembler` | - |

`AqlQueue` implements `CommandQueue`, and `GpuRuntime` is written over the
FIFO of `CommandQueue`: that is how the two levels compose. `GpuMemory` takes
from the level above only that kernels are launched with a buffer's address and
run later. `TiledGemm` extends `GemmKernel`, `TileSsa` runs what it lowers on
`WaveMachine`, and `Rdna3Assembler` reads its own words back with `Gfx11Isa`
and runs them on `LaneWave`. Each MC module names the sets of kernels, threads
or launches for its configurations.

In every module a name ending in a mutation (`HasRingSpaceWhenFull`,
`NextSlotShort`) is a plausible bug next to the definition it would replace;
none is part of a specification. `PROJECT.json` pairs each with the property it
breaks.

### 2.1 AqlQueue

A call is cut at every access to memory that the command processor or another
thread can see. `pc[t]` is the next such access:

| Step | Code |
|---|---|
| `space` | `ensure_ring_space`: reads both pointers, spins or panics after its timeout |
| `claim` | `let write_idx = *write_ptr` |
| `arm` | `dispatch_signal` sets the signal to 1 |
| `object`, `kernarg`, `header` | the writes to the slot, the header last |
| `publish` | `write_ptr = write_idx + 1` |
| `doorbell` | the doorbell takes the index of the last packet |
| `target` | the read of `write_ptr` at the start of a wait, `ring_doorbell` or Drop |
| `poll` | `wait_read_ptr`, `wait_signal`, and the drain in Drop |

The 64-byte packet becomes four fields: header, kernel object, kernarg address
and signal. The object and the kernarg address stand for the packet's two
halves, so a torn packet is one in which they differ. A packet is a number, given
out when its call starts.

The command processor looks at the slot at `read_ptr` at any time, doorbell or
not (`CpLaunch` has no guard on the doorbell), because the code says it
prefetches; fairness only obliges it to look once the doorbell covers the slot.
It ends a kernel, decrements the signal, and then moves `read_ptr`
(`CpComplete`, `CpRetire`), in two steps. It may hang for good in a kernel.

`MayTimeOut` says when a clock may run out. With `SlowGpu = FALSE` a kernel that
ends does so before the host's timeout, so a timeout needs a hang or a packet
without a doorbell. With `SlowGpu = TRUE` a wait may time out at any time.

`Serialized`: `submit` is a read-modify-write of `write_ptr` without a lock.
Two threads inside it claim the same slot. The runs and the theorems let threads
take turns; a call of one thread and the GPU still interleave at every step.

`MayCall` is what the methods' documentation asks of the caller: a batch is
followed by `ring_doorbell` before it fills the ring (`BatchLimit`), and a wait
comes after the doorbell.

### 2.2 GpuRuntime

`dispatch` is `next_slot`, `write_kernargs` (`ensure_slot`, then the write under a
second lock), `submit`, `wait_idle`, and `mark_poisoned` if the wait fails.
`dispatch_async` stops after the submission. `dispatch_bench` waits with
`wait_idle_spin`, which has no clock. `read_f32` waits and drops the error.

The kernarg pool is a `Vec` that starts with 64 buffers and grows to 256, one slot
at a time. The model keeps the length, the capacity and the number of times the
`Vec` has moved: the reference `write_kernargs` returns outlives the lock, and is
dangling after a move. `alloc_uncached` may fail (`scarce`) and its panic
poisons the mutex.

`Setups` are the programs considered: which threads use which calls, on how many
slots, on what GPU. One run then covers three programs: one thread whose pool
grows and fails to, two threads that dispatch and read on a slow GPU, and two that
`dispatch` and `dispatch_async` on one. They are kept apart because
a program with everything fails: with two threads and a growing pool the `Vec` moves
under the other thread's reference (`kfd/mod.rs:2905`), and with two threads and
slots that come around, one thread may stop between `write_kernargs` and
`submit` while the other dispatches 256 kernels, the last of which overwrites its
arguments.

`failed` is a history variable, the threads that have had an error from a `dispatch`,
be it a timeout or a refusal; each packet in `submitted` carries the call and the
thread it comes from and who had failed by then. `FailureIsFinal` compares the two. The
flag itself is stored and loaded `Relaxed` (`gpu_context.rs:151`, `:155`); the model has one
memory order for all threads, so a store that another thread sees late is outside it.
`mark_poisoned` announces that "all subsequent dispatches will fail fast"
(`gpu_context.rs:156`). That is what `FailureIsFinal` says of `dispatch`, but for the
calls already past the check. It is not so for `dispatch_async` and
`dispatch_bench`: the third program puts packets of the former in the queue after a failure.

### 2.3 GpuMemory

`alloc_memory` is `ReserveAddress`, `AllocMemory`, `MapMemory`, `MapOnHost`, with
`AllocFails` at every `?`; Drop is `Munmap`, `UnmapMemory`, `FreeMemory`. The pool
sits on top with its lock; `clear` drops every buffer while it holds it. A
buffer handed to a caller is a lease, and a kernel in flight carries the address
and the lease it was launched with: `GpuRun` follows the TLB, or the page table,
to whatever is there by then. `StaleTlb` says whether unmapping invalidates the
TLB. `WaitsFirst` says whether the caller waits for its kernels before it gives a
buffer up. With a TLB that keeps old translations (`StaleTlb = TRUE`) a kernel
reaches a buffer that has got the address of a dropped one, which is what the
pool was written to avoid (`kfd/mod.rs:1057`) and `Tensor`, which never recycles,
brings back.

### 2.4 Tape

A tensor holds one integer, an operation appends a node, and a backward pass
walks the tape from its end: `SkipNode` for a node nobody needs or whose closure
is gone, `CallClosure`, `Accumulate` once for each gradient it returns,
`FailPass` at any `?`. Gradient buffers are numbers into `mem`, so that sharing
one, as the code does with `Arc<GpuBuffer>`, is visible. The five operations
are chosen for their different closures: `add` hands out one buffer twice, `mul`
reads its saved inputs, `scale` makes a new buffer, `relu` returns a tensor that
is not tracked, and `cross_entropy` returns a buffer saved in the forward pass
and ignores the gradient it is given.

The reference is forward-mode, and kept apart from what the passes consume. The
history variable `dual` gets, when an operation is recorded, the derivatives of its
output by every parameter and the set of nodes behind it (`Chain`), and only
`clear` changes them. `owed` sums, over the passes, the derivatives of their
losses; `asked` is the set of nodes behind those losses. `upset` collects the reasons
why a gradient may differ from what is owed:

| Reason | When |
|---|---|
| `failed` | a pass ended with an error |
| `unscaled` | `cross_entropy`'s closure met a gradient other than 1, which it ignores |
| `shared` | an accumulation went into a buffer two tensors hold |
| `again` | a loss shares a node with an earlier one: PyTorch refuses that, unless asked to keep the graph |
| `lost` | a closure behind a loss was taken by the pass of a loss that has nothing to do with it |
| `emptied` | the same, by a pass from a tensor nothing was recorded for |

`GradsRight` asks for the gradients owed as long as there is none of these.
`AddPassesThrough` and `LossesAccumulate` ask for them in spite of `shared`
and of `lost`, and fail (section 3).

Choices of the code that the model keeps: several operations return untracked
tensors, so that what follows is not recorded; a pass consumes the closures of
the nodes it only passes by (`tape.rs:185`), and after a failure those
closures stay gone; the no_grad guard enables recording whatever it found
(`tape.rs:445`), which is why `GuardsNest` is checked for `NoGrad` guards.
One it does not keep: `backward_from_grad` registers the caller's own buffer
(`tape.rs:253`), the model a fresh one with the same contents, so that a caller who
passes the same `Arc` twice, or a gradient it got from `sync_grads`, is left out.

### 2.5 RegAlloc

One action is one turn of an allocator's loop. The input is arbitrary: a sequence
of groups, the registers of them that are referenced, and for each its first
definition and last use. `Pool(now)` is the free pool after the expiry with
which a turn begins. `PlaceInRange` and `PlaceOnTop` are the two ways to place a
group, `JoinGroup` is a register whose group has its place, `SpillFor` and
`SsaPanics` are the two ways to fail. `LegacyPlace` takes a whole group.
Arithmetic on register numbers is modulo `U8`, and `wrapped` records a rounding that
wrapped in a release build; a debug build panics there, which is a disjunct of
`SsaPanics` and `LegacyPanics`.

Intervals with the same definition point are taken in any order, because the
order comes from a hash map.

`Undisturbed` (nothing spilled, nothing wrapped) guards the safety properties.
A spill gives the spilled value register 0, or hands a register over without
telling the pool, and relies on the spill code that `insert_spill_*` adds later,
which is not modelled; a rounding that wraps places a group on v0, which is
reserved (`t0/ssa_regalloc.rs:207`). `TypeOK` holds in those states too.

`Trusted` is the assumption each allocator makes about a group without saying
so. The ssa allocator frees a group when the register that placed it dies, so that
register must be the last of the group to be used; a pair whose second register
lives longer loses it (`t0/ssa_regalloc.rs:403`). The legacy one expires by the
first definition of the group declared next, so groups must be first defined in
the order of their declarations.

Definitions that are never used go to one scratch register behind the last
(`Fallback`, `ssa_regalloc.rs:94`). `KernelFits` says exactly when it is declared: while the
file is not full. In a full file the dead definitions are written to v254 with 254
registers declared, v0 to v253, where the comment at `ssa_regalloc.rs:119-122` says that
the scratch "aliases with register 253". Registers are handed out in granules of 8
(`rdna3_code_object.rs:111`), so the hardware has a v254 all the same; the
allocator's count says it has not. The run reaches both cases.

### 2.6 From a kernel's description to its buffers: BlockBuilder, TileSsa, WaveMachine

A kernel record holds the nodes of a `BlockKernel`, the arguments and the buffers it
is launched with, the shape of the grid, and the buffers its reference leaves
(`final`). The builders in `BlockKernels`, `TensorKernels` and `ElemKernels` are
those of `t0/*_kernels.rs`, `ignis/ops` and the tests of `block_dsl.rs` that run on the
GPU, each beside the CPU function the repository compares it with, written
independently as sums and maximums over rows. `BlockBuilder` checks the assertions
that `BlockKernel`'s methods make while the nodes are put in (`BuilderAccepts`).

`TileSsa` then takes three phases:

* `Translate...`: one action per kind of node, `block_to_ssa`: the node's value, its
  type, its shape, the block it ends up in.
* `Lower...`: one action per kind of instruction, `lower_elementwise_1d`: the
  registers, the constants that are moved once (`get_vreg`), the copies of block
  arguments, masks saved and restored, LDS slots.
* `Run...`: the waves of each workgroup. Instructions that only touch a wave's
  registers commute, so the lowest wave goes first; a shared instruction (LDS, stores,
  atomics, barriers, loads from a buffer the kernel also writes) runs when every
  wave is at one, and then in any order. That is a reduction of the
  interleavings, not an assumption on the hardware.

`WaveMachine` is the hardware: 4 lanes in place of 32, EXEC, VCC, SCC. Floats are the
integers modulo 251, integers wrap at 502, and the two are different words, so that
an integer instruction applied to a float (or the other way round) shows. `exp`, `log`,
`rsqrt` and the like are fixed functions without meaning: that a kernel and its
reference apply the same one to the same argument is the point.

### 2.7 GemmKernel and TiledGemm

`Compiled(spec)` is the list of instructions whose order matters, as `lower_gemm`
(`tile_ir.rs`) or `generate_lds_db` (`gemm_gen.rs`) emits them: prologue, first
iteration, loop, tail, epilogue, after `optimize_waitcnt` and the emitter's own
clamping. Registers hold what they are loaded with: a slice of X or WT by its K, a
fragment by its rows; an accumulator is a bag of products. A wave issues in
order, its loads and stores land in order when a wait asks for them (the latest the
hardware may) or, in the launches `Prompt`, at any time before; and waves interleave
at every instruction. `EachProductOnce` then says the bag is what it should be, and
`OperandsArrived` and `NoLdsRace` that it is not so by luck.
Addresses are checked apart, by `LayoutRight`: LDS with its swizzle, partitions of K,
workgroups, the stores and their masks. It is about the launch alone, and all three parts
are proved (section 4.8).

`TiledGemm` is the way there: presets, the cost model's search with what it
generates to count instructions, `Dot` of the SSA front end, `tile_gemm` of BlockDSL,
the layers' backward passes and the suite's launches. It states, as assumptions
that TLC evaluates, which of these configurations are generated, loaded, and launched
right, and exactly when they are not.

### 2.8 Optimizer

A program is a list of operations over registers. `Compile` takes a kernel with its
wishes (`opt_level`, `skip_cse`, no optimisation), which stay in the environment of
the process; then one action per pass, in the order of `compile.rs` and
`optimize()`. `Run` executes a program with integers modulo 1009, lanes, an
execution mask, loads that deliver as late as their wait allows. `StoresKept`
compares, after every pass, what the program stores with what its source stores, for
every trip count, at every level that the kernels before left behind.

### 2.9 Gfx11 and Rdna3Assembler

`Gfx11` writes each encoder of `rdna3_asm.rs` as a row: its format, its fixed bits and
where each argument goes. `Gfx11Isa` is the processor's view, the formats, their
lengths and the branches, and knows nothing of the rows. With it `BranchesLand`
finds the instructions again in the words: literals and second words are never taken for
an instruction, and branches, patched or not, go where they were meant to. It says
nothing of opcodes and operands: for these there is only `LlvmVerified`, an
assumption that TLC evaluates, which compares the encoders with the words that the comments quote
from LLVM. An encoder without such a quotation is not judged (section 3.1). `Rdna3Assembler` is the assembler: words,
the counts of operations outstanding, the declared registers, placeholders and
forward branches that are patched later; and the sequences it offers (stores,
atomics and transposes of a WMMA tile, the reduction over a wave), which `LaneWave`
runs on all 32 lanes with real 16-bit halves.

## 3. The runs

| Run | Result | Instance | What it shows |
|---|---|---|---|
| `aql_queue` | passes | 2 threads in turns, all calls, 3 slots, headroom 1, 4 packets | safety of the ring, truth of Ok, timeouts only when hung, liveness, and that the queue implements `CommandQueue` |
| `gpu_runtime` | passes | 1 thread, all calls, 3 slots growing from 1, 6 packets, scarce memory; 2 threads, `dispatch`, `wait_idle`, `read_f32`, slow GPU; 2 threads, `dispatch`, `dispatch_async`, slow GPU | arguments intact over two growths and a wrap; reads complete; an error of dispatch is final and bounds the queue; calls return |
| `gpu_memory` | passes | 2 threads, all calls, 2 addresses, 2 buffers, 3 leases, failures | ownership, sizes, zeroes, mappings, counter, leaks |
| `tape` | passes | 2 parameters, 2 operations of `add`, `mul`, `cross_entropy`, 2 passes, 2 guards | gradients add up to the derivatives computed forwards; snapshots stable; guards nest |
| `tape_alias` | `AddPassesThrough` fails | 3 operations of `add`, `scale`, 1 pass | the buffer `add` shares is accumulated into |
| `tape_losses` | `LossesAccumulate` fails | 2 parameters, 2 operations of `add`, `mul`, 2 passes | the pass of one loss takes the closures of another |
| `reg_alloc` | passes | 5 kernels, 3 instructions, 8 numbers, 5 usable | no clash for trusted groups, groups whole, nothing lost, every value declared, the scratch register exactly when the file is not full |
| `tile_ssa` | passes | 83 kernels, 1 to 3 workgroups of 2 waves of 4 lanes | every kernel leaves what its reference computes, whatever the order of the waves, and ends |
| `gemm_kernel` | passes | launches of both generators, 1 or 2 waves; layouts and choices of all | each product once, operands arrived, no LDS race, layout, every wave ends |
| `optimizer` | passes | 6 families of kernels, all levels, 2 trip counts, 2 lanes | stores kept by every pass, intervals cover |
| `opt_masked_load` | `StoresKept` fails | a masked load with a default | the default is removed as dead |
| `rdna3_asm` | passes | every encoder, method and sequence; free kernels of up to 6 words | instructions start where calls began and branches land; sequences compute what they document |

The three that fail each check one statement the code's comments make and the
code does not keep; `PROJECT.json` quotes them under "findings". In short:

1. `add` returns one buffer for both operands, and in-place accumulation onto one
   changes the other (`ignis/ops/add.rs:102`).
2. The zero that a masked load writes first is removed, because the load is not a
   use of it (`t0/ssa_ir.rs:773`).
3. A backward pass takes the closures of every node on the tape (`ignis/tape.rs:185`). With two
   losses recorded together, `x + x` and `y + x`, the pass of the second leaves the first
   without gradient and without error: `x` gets 1 where 3 is due.

### 3.1 Met on the way, without a run

The modules keep these behaviours where the runs can be kept sound around them, and
the instances leave them out where they cannot. Nothing here is claimed by a
check unless it says so.

*Queue, runtime, memory, tape, registers.* After a timeout a signal used again by
`dispatch_signal` is decremented by the late packet, so Ok may be early
(`kfd/mod.rs:1595`; `OkMeansDone` fails with `SlowGpu`). `write_kernargs` returns a
reference into a `Vec` another thread may move (`kfd/mod.rs:2905`).
`dispatch_async` and `dispatch_bench` ignore the poison flag (`gpu_context.rs:332`), against
the message at `:156`. In a full file the scratch register is not among those declared
(`ssa_regalloc.rs:123`), against the comment above it. A second pass through the same nodes
finds no closures and reports no error (`tape.rs:185`).
A dropped pool buffer's address is reused through a stale translation
(`kfd/mod.rs:1057`). The ssa allocator frees a group with the register that placed it
(`ssa_regalloc.rs:403`), and rounding in u8 wraps (`:207`). `tape.rs:383` speaks of a
background thread where the drop is synchronous.

*Block language and lowering.* `lt_f32` and `gt_f32` become unsigned comparisons.
`load_bf16` always fails on its type. The examples in the documentation of
`for_range_acc` and `for_range_with_acc` do not compile to what they say, because a
float, or a vector register, is copied to a scalar one. A constant first moved to
a register inside a mask or in a loop that runs zero times is used unwritten
after it. Block arguments are copied one after the other, so a swap loses one. A
workgroup reduction in a loop has no barrier at its end. `u32` maxima are float
maxima. `test_compile_2d_row_sum` says row-wise and sums over rows (the run checks what it
does). The embedding kernel of `ignis/ops/embedding.rs:17` never compiles: a masked load
at a scalar index panics (`tile_ssa.rs:785`). A product of two scalar values is lowered to `s_mul_i32`
whatever their type (`tile_ssa_lower.rs:579-617`), so that AdamW's `lr * wd`
(`adamw_kernels.rs:93`) multiplies the bit patterns of two floats, for 1e-3 and 0.01 about
-4.7e23, against "Weight decay: p = p * (1 - lr * wd)" on the line before: the run
leaves that kernel out, and with `Kernels <- AdamwKernels` TLC finds `LoweredRight` violated. `elementwise_binary` of `math.rs` takes a
length and does not look at it.

*GEMM.* The tiled kernel reads M at offset 40, and its callers pass 40 bytes
(`tile_ssa_lower.rs:1453`, `block_dsl.rs:1731`): right only if the slot held at least M
(`TiledNeedsM`). `cost_model` generates every candidate to count its instructions, and
generating `tile_k` 48 panics when 48 divides K (`SearchEndsUnlessK48`). Eight waves on a
64-column tile of 16 load no WT (`CandidatesLoadBoth`). A configuration from `auto`
that does not swap the grid is compiled as one that does (`AutoNeedsSwappedGrid`). Two
presets and one sweep entry need more registers than there are, and one preset is
refused (`PresetsLower`). Two-pass configurations halve the grid, and no caller makes a
second pass. `tile_auto_select` may ask for a split of 3, 5, 6 or 7, which
`lower_gemm` refuses. Launches have whole tiles of K: the clamped addresses and the zeroes
`lower_gemm` fills in behind K (`tile_ir.rs:768-770`) are not modelled. `gemm_gen` masks nothing, so ragged sizes are the caller's to
pad. Streaming kernels with several sub-steps overwrite a fragment that is still in
use, and start before the first one has arrived (`tile_ir.rs:2052`, `:2072`); the
instances have none, three presets are such kernels (`PresetsStaged`). The kernel of
`tile_128x128_k32_swap` adds the step along K behind the exchange of the banks
(`tile_ir.rs:2703`), so that its second step looks for its chunks in other rows; with 16 to
a tile there is no second step. `tile_256x64_k64_wgp` needs 80 KB of LDS and says that WGP
mode has them (`tile_ir.rs:310`); `lower_gemm` switches that mode off for it (`:597`). No
launch of the run is of either (`PresetsLaid`).

*Optimiser.* LICM hoists chained invariants in the order of a hash set, and also the
copy of a scalar loop counter (`ssa_ir.rs:1808`, against the comment at 328). Copy
propagation and constant folding look through loops without phis. The CSE key leaves
out the constants of the bitwise operations and the low bits of floats. Unrolling has
no remainder loop. The scheduler moves operations past waits of other counters and past
`SaveExec`. The instances keep clear of these.

*Assembler.* `s_waitcnt_vmcnt(n)` quotes 0xBF8913F7 for 4 and a pattern that shifts `n`
(`rdna3_asm.rs:61-66`); the code puts `n` into bits that 0x07 already covers or that are not the
count's, and asks for zero for every `n` up to 15; `s_waitcnt_lgkmcnt` keeps two bits of `n`. `v_cmp_lt_f32`
(`:1536`) has the word of an integer comparison, next to a warning against just that in
`v_cmp_gt_f32`. `ds_write_b128` (`:596`) has 0xD8FD where `ds_store_b128` has
0xDB7C, verified (`:691`). `v_mul_u32_u24_imm`, `global_atomic_add_u32` (against the "LLVM verified"
word at `:1476`), its form without a result and `asm.global_atomic_add_f32` put operands
in the wrong place. `Gfx11` keeps all of these as they are; no run judges them. The XOR
patterns of `build_warp_max_reduction` are not the ones its comments name, though
lane 0 gets the maximum. `reg_transpose_valu_only` is not a transpose.
`lds_load_transposed_tile` ignores the swizzle. `ds_swizzle` is not counted.

### 3.2 Why the bounds are enough

* `aql_queue`: 4 packets on 3 slots wrap the ring and reuse a slot; with one slot
  of headroom, 2 packets fill it, so that a third call waits for space, and
  `submit_fast` may still use the last slot. A batch of two leaves a doorbell
  that covers several packets. Two threads are what it takes to have one call's
  leftovers (a batch without a doorbell, an armed signal) met by another's.
* `gpu_runtime`: from one slot to three the pool grows twice, and one growth moves
  the `Vec` while packets point at its buffers; 6 packets use every slot twice.
  The two-thread programs have a pool that is already full-sized. With 4 packets each
  thread can have dispatched before one of them fails, and the other still gets its late packet in
  and is then refused; 3 are enough with `dispatch_async`, which adds packets of a failed thread.
* `gpu_memory`: two addresses and two buffer objects make every reuse of an
  address or of a cached buffer happen; the sizes 1 and 3 with a page of 2 round to
  two different pool keys. Threads are symmetric: no CHOOSE is over them.
* `tape`: with two parameters and two operations there are diamonds (`x*x`
  followed by `+x`), repeated operands, losses that reach only part of the tape, two
  losses with or without a node in common,
  and an operation done under a guard between two recorded ones. Two passes are
  needed for what a pass leaves behind. `scale` and `relu` add no new way to
  share a buffer; `scale` is in `tape_alias`.
* `reg_alloc`: the five kernels have single registers, pairs, and pairs that start
  at a multiple of four; 3 instructions give every order of overlap of the up to
  four values; 5 usable registers are few enough to spill, to panic, and to fit
  into freed ranges. The proofs remove the bounds for all five of its properties.
* `tile_ssa`: a block of 8 threads is two waves of 4, the smallest with a barrier that
  matters; rows of 5 and buffers of 7 or 13 elements fill neither a wave nor a
  workgroup, and make the last workgroup partial. 251 is large enough for the
  small integers of the inputs to stay apart and small enough that an accidental
  equality of two whole buffers would need many coincidences at once. `INLINE_MAX` is 4,
  so constants on both sides of the inline limit occur.
* `gemm_kernel`: one and two waves are run at every interleaving; four waves and more
  only differ in which slices a wave moves, and their layouts are evaluated. In two of
  the launches, of one wave and of two, loads and stores land at any time (`Early`). For
  `OperandsArrived`, `NoLdsRace`, `EachProductOnce` and `LayoutRight` the proofs remove the
  bounds. K has one tile or more, an odd and an even number, so the peeled iterations occur with and without a loop between.
* `optimizer`: each family is generated over its constants and operands, so that every
  rule of every pass has an operation it applies to and one it nearly applies to.
  Trip counts 0 and 4 are a loop that does not run and one that goes round as often as
  it is unrolled. Kernels are compiled one after the other in any combination of settings, which is what the
  environment needs. `Fuel` is never reached by a source program.
* `rdna3_asm`: registers and constants at both ends of their ranges; six words are
  enough for instructions of two words and of three, a forward branch over one and a loop back. The
  sequences run with addresses 600 bytes below a 2^32 boundary, so that carries occur.

### 3.3 Fairness

In the modules of the host `Spec` has none, and every safety property is checked
without it or holds all the same. `FairSpec`, used by `aql_queue` and `gpu_runtime`,
asks:

* weak fairness of each thread's `Step`: host code inside a call is not stopped
  for ever; its loops poll and have clocks;
* weak fairness of the GPU's steps on packets whose doorbell has been rung (in
  `GpuRuntime`, on a queue that is not empty), unless it has hung.

Nothing obliges a caller to call, the GPU to look at a packet without a
doorbell, or a hung GPU to do anything. A timeout is a step a thread may take
only when `MayTimeOut` allows it, and fairness of `Step` takes it in the end
when nothing else is possible; `wait_idle_spin` and `dispatch_bench` have no
such step, which is why `CallsReturn` excepts them on a hung GPU.

`GemmKernel` asks that some wave goes on while one can, and that a barrier all waves
have reached opens; `TileSsa`, that the compiler and then the GPU go on while
anything can happen. Neither asks that any particular wave is scheduled: a kernel
that needs one wave to overtake another would fail `KernelEnds` or `KernelsReturn`.

CHECK_DEADLOCK is off in the runs of the host, of the allocator and of the
assembler: a program may stop calling, the queue may have been dropped, an
allocator finishes, and the bounds on packets and buffers run out. It is on in
`gemm_kernel`, `optimizer` and `tile_ssa`: a wave stuck at a barrier, a compiler
without a rule for a node, or a kernel that accesses memory outside its buffers
is a deadlock there.

## 4. What is proved

All proofs are checked to the last leaf by TLAPS, for every value of the
constants that satisfies the named assumptions.

### 4.1 AqlQueueProofs

Under `Serialized`, for any number of threads, slots and packets, with
`Headroom < Slots` (`SlotsAssumption`; the code's `ring_slots - 64` underflows
otherwise):

* `TypeCorrect`, `NeverOverwritten`, `NeverTorn`, `RunInOrder`: `[]TypeOK`,
  `[]NoOverwrite`, `[]LaunchedWhole`, `[]ExecutedInOrder`.
* `OkIsTrue`: `[]OkMeansDone` if `dispatch_signal` is not used, on a GPU of any
  speed. With it the statement is false on a slow GPU, where a late packet
  decrements a signal that is in use again; on one that is not, it is proved
  too (section 4.3).

The four are not inductive one by one. That no slot is overwritten needs to know
that at most `Slots` packets are unretired, which needs the space check of a
call to be still valid when it writes, which needs that nobody else moved
`write_ptr` since. The invariant `RingInv` adds `OneCaller` (one thread is
inside a call), `PointersAgree` (`write_ptr` lags the valid headers by one exactly
between `header` and `publish`; `read_ptr` lags the runs by one exactly while
retiring; at most `Slots` apart), `ClaimIsFree` (a call past `space` has a free
slot and has written what its step says) and `HeadersValid` (a valid header
belongs to an unretired packet the processor has not fetched). `SlotsDistinct` is
the arithmetic: numbers less than `Slots` apart have different slots.
`OkIsTrue` adds `WaitsCount`: what a wait compares with is at least what its Ok
will be taken for.

### 4.2 The refinement

`QueueImplementsFifo`, at the end of `AqlQueueProofs`: `Spec => ImplementsCommandQueue` under `Serialized` and
without `dispatch_signal`, for any number of threads, slots and packets and a GPU
of any speed. The mapping is the one TLC checks: the packets issued and not yet run
are the FIFO; a wait is under way from its call, a `dispatch` from its packet's
header, until it reports. Two invariants are added to `RingInv`: `WaitsCount`, and
`CallMatches` (a thread's step belongs to the call it is inside, which has not
reported, on a queue that exists), without which a step between two visible ones
need not be a stutter. Then one lemma per step that is visible above: `CallRefines`,
`HeaderRefines` (an issue), `CompleteRefines` (a run: `PointersAgree` and
`LaunchedWhole` say that the packet run is the head of the FIFO), `ReportRefines`
(`WaitsCount` gives the guard of `WaitOk`), `DropRefines`; `InnerSteps` and
`Stutter` are the rest.

### 4.3 Timeouts

Also in `AqlQueueProofs`.
With `Serialized`, kernels that end before the host's timeouts (`~SlowGpu`) and
batches the ring has room for (`BatchLimit <= Slots - Headroom`), for any number of
threads, slots and packets: `TimeoutsAreHangs`, `DropDrains`, `OkIsTrueInTime` and
`QueueImplementsFifoInTime` state `[]TimeoutMeansHung`, `[]DropLosesNothing`,
`[]OkMeansDone` and `ImplementsCommandQueue`, the last two with `dispatch_signal`
too. The bound on batches is needed: a caller that fills the ring without a
doorbell makes `ensure_ring_space` wait for a GPU that was told nothing, and panic
with nothing hung. Keeping it is the caller's part (`MayCall`).

`HangInv` adds to `RingInv`:

* `BellInv`: the doorbell covers everything whenever a call polls, and fewer than
  `BatchLimit` packets lack one when a call asks for space. So a wait always has a
  packet the GPU must run, and its timeout needs a hang.
* `SignalsAwaited`: until a hang, a packet in flight that carries a thread's signal is
  the last one, and the thread is still inside the `dispatch_signal` that issued it.
  A call that gave up would leave its packet behind; it gives up only on a hang.
* `SignalArmed`: from `arm` until that packet has run the signal is 1, and not above
  0 afterwards. `CompleteDisarms` is the step that matters: a kernel's end decrements
  the signal it carries (`SignalFetched`), which by `SignalsAwaited` is its own call's.

### 4.4 GpuRuntimeProofs

For every set of programs (`SetupAssumption`), any number of threads and slots, on a
GPU of any speed unless said otherwise:

* `DispatchFailsFast`, `ReadsAreComplete`: `[]FailureIsFinal`, `[]ReadComplete`,
  from `RuntimeInv`: a thread's step belongs to its call (`CallOrder`), every packet
  submitted is queued or has run (`Counted`), and `FailureSeen`: once a thread has had an
  error the flag is up, a thread that has had one is not on its way to submit for
  `dispatch`, and neither is one whose packet came after somebody's error. The last is
  what makes "at most once more" inductive: such a thread must begin again, and
  then meets the flag, which every path to an error has set and nothing takes down.
* `DispatchBoundsQueue`, for finitely many threads: `[]QueueBounded`. The invariant
  gives each queued packet an owner (`OwnedBy`), a thread that waits for it or is
  about to poison the queue, no thread twice; once the flag is up, an owner may
  leave but nobody else gets past the flag. That is an injection from packets to
  threads, kept through submissions, runs and timeouts; the bound is the
  pigeonhole.
* `ArgumentsIntactAlone`, for programs of one thread on a GPU that is not slow,
  with fewer packets unwaited than slots (`OneThread`): `[]ArgsIntact`. `Back(k)`
  is the slot handed out `k` calls ago, and the last `wrap` of them differ
  (`BackLemma`). `SlotsOwned` says that the packets in the queue, from the newest,
  use the most recent slots, each with its own arguments; `Room` that there are
  fewer of them than slots; `SlotHeld` that the slot being prepared is the newest,
  and that the reference `write_kernargs` uses is still good when the arguments
  are written, the `Vec` having moved only before. Behind a panic that poisoned the
  mutex no dispatch gets to its arguments any more, so nothing is reused; behind a
  hang nothing runs.

### 4.5 GpuMemoryProofs

For finitely many threads and any number of addresses, buffers, leases, sizes and
kernels in flight:

* `BuffersAreMapped`, `BuffersAreBigEnough`, `FailuresAloneLeak`:
  `[]MappedToItself`, `[]BigEnough`, `[]LeaksOnlyOnFailure`, in every mode: system
  calls may fail, the TLB may be stale, callers need not wait.
* `KernelsReachTheirBuffers`, `FreshBuffersStayZero`: `[]KernelsTouchOwnBuffer`,
  `[]FreshStaysZero`, for a TLB that is flushed and callers that wait
  (`~StaleTlb`, `WaitsFirst`). What goes wrong without the first is in section 2.3.

* `CacheIsCounted`, for finitely many requests too: `[]CachedBytesRight`, in every
  mode.

None of the six is inductive. `MemoryInv` adds:

* `Apart`: a BO is in one place, once: in one thread's hands, in one thread's list of
  buffers to drop, being built by one thread, or in the cache at one position. The
  cases that matter are `Clear`, which turns the cache into such a list in whatever
  order the `HashMap` has it (`ClearOrder` shows the order is a permutation), and
  `LookUpHit`, which must not leave a second copy behind.
* `Mapped`: a BO is mapped to itself while held, cached, or in a list and not yet at
  its `munmap`; and an address is one allocation's from `alloc_va` on (`Claiming`).
  Between `munmap` and `UNMAP` another thread may get the address; its `MAP` then
  fails, because the page table still has the old BO, so the old one's `UNMAP` never
  takes away a mapping that is not its own.
* `Leased`, `Sized`: leases are not shared, a cached buffer has the size of its key, and
  one that is being built the size that was asked for.
* `Bounded`: the calls in progress find a number for what they may yet allocate, by
  counting them; this is why the threads are finite.
* `TlbTrue`, `QueueServed` for the last two: cached translations are the page table's,
  and the buffer of every kernel in flight is still held, at its address.
* `Counted` for the count: it is the sum over the cache whenever the lock is free, and
  `clear()` holds the lock, over an empty cache, from taking the buffers until it
  has reset the count. The rest is what the sum becomes when one size gains or loses
  a buffer (`BytesChange`), from the lemmas of `Sums`.

### 4.6 RegAllocProofs

For every kernel, liveness, register file and limit (`LimitAssumption`,
`DeclarationAssumption`: alignments are 1, 2, 4 or 8, groups are not empty):

* `TypeCorrect`: `[]TypeOK`, in spilled and wrapped states too. The invariant
  `TypeInv` adds that ranges below the high-water mark stay below `U8`.
* `NeverClashTrusted`, `GroupsStayTogether`, `KernelAlwaysFits`:
  `[]TrustedNeverClash`, `[]GroupsTogether`, `[]KernelFits`.
* `NoRegisterLost`: `[]NothingLost`. Until the file wraps or something is spilled,
  every register below the high-water mark is in an active or a free range.

The invariant of the first four is `TypeInv /\ (Undisturbed => Safe)`. A new value does not clash
because the range it gets was free (`Clean`: free ranges and active ranges
are disjoint and below the high-water mark) and a value still alive has its
whole range in the active list (`SsaHeld`, `LegacyHeld`). The last two say until
when: until the group's trusted end has passed, and then everything to come is
defined later. For the ssa allocator that is the order of the turns; for the
legacy one it needs `LegacyOrder`. The lemmas about ranges come first:
`AlignLemma` (rounding in u8), `CoalescedLemma` (merging loses and invents no
register, and runs do not overlap), `PoolLemma`, `FitLemma`, `PlaceLemma`.

`NoRegisterLost` adds `Accounted`. Its lemmas are the other half of those: merging
keeps every register (`CoalescedHolds`: one that is in the pool is in a maximal run,
found by going down and up from it, `RunDown` and `RunUp`, each an application of
the least-number principle `Least`), expiry gives the whole range back
(`PoolFull`), taking from the pool keeps the rest of the range (`FitFull`), and a
fresh range leaves the registers it skips for its alignment in the pool
(`PlaceFull`).

### 4.7 TapeProofs, Sums

For any operations, any number of parameters and tensors, and any sequence of
passes, guards and failures the bounds of `Tape` allow:

* `SnapshotsStable`: `[]HeldGradStable`. The invariant `IInv` is the types of the tape
  (`TapeTypes`) and `Held`: a buffer a caller took with `sync_grads` is in no
  registry, pending list or saved field once the tape is cleared, and a pass only
  writes into buffers that it makes or that those hold.
* `NoGradNests`: `GuardsNest`, an action property, for programs whose guards are all
  `NoGrad`: under a guard nothing is recorded, every guard but the outermost found
  recording off (`Nested`), so only the last `drop` can turn it on. With `no_grad`
  guards it is false (section 2.4).
* `GradientsRight`: `[]GradsRight`. Over any number of passes, reverse mode adds up to what
  the chain rule gave when the operations were recorded (`dual`), through
  repeated and untracked operands, diamonds and one graph after another, with the exceptions of
  section 2.4 and no others.

`GradientsRight` is a conservation law. A gradient held by a tensor is worth to a
parameter `p` its product with `Tangent(p)` of that tensor, its derivative through the nodes that
still have their closures. This is a device of the proof, it shrinks as a pass goes on, and nothing in the
property is about it. `Balanced` says that
what is owed to `p` is what the registry and the contributions not yet
accumulated are worth together (`Worth`, `Pending`). Seeding a pass adds what it
owes; a closure replaces its output's worth by equal contributions to its inputs;
an accumulation moves one into the registry. When no closure is left, only the
gradient of `p` is worth anything to `p`. It needs that

* inputs are older than outputs and everything behind the walk has lost its closure
  (`Walked`), so that consuming a closure changes no derivative that is still used;
* `Tangent`, a recursive function, satisfies its equation, and is the only
  one that does (`Derivable`, `Solves`): by induction along the tape;
* the device agrees with the reference where it is used: for a tensor none of whose nodes has been taken
  (`Intact`), `Tangent(p)` is the derivative in `dual` (`Referred`). A loss that spoils nothing
  is intact, because its nodes are then neither behind an earlier loss nor taken by its pass,
  so what `owed` gains from `dual` is what the seed is worth;
* saved slopes and contributions are in nobody's gradient buffer (`Unspoilt`). This
  is where an `Arc` handed out twice could do harm: an in-place accumulation
  into a buffer somebody else still needs.

`Sums` has the facts about finite sums these proofs need: `MapThenSumSet` recurses
over subsets through CHOOSE, and its recursion has exactly one solution. The
induction theorems of the library take an operator as a parameter, which the provers
cannot instantiate; `Induction` states the principle for a set of naturals and takes
it from their well-ordering (`NatLessThanWellFounded` and `WFMin`, which have no such
parameter), applied to the set of counterexamples.

### 4.8 GemmKernelProofs, GemmProducts

`TilesNeverRace`: `[]NoLdsRace` for every kernel that `lower_gemm` and `gemm_gen` can
make (any tile, depth, split of K, streaming or not, with or without the exchange of
accumulators), after both passes over its waits, for any number of waves and of
iterations. The one assumption, `ProblemsAssumption`, is that a launch is of a kernel
the generators do not refuse, with positive sizes and at least one whole wave;
TLC evaluates it on the launches of the run.

*What a kernel looks like.* `Phased` says that the three blocks with a barrier are
`Ordered`: their LDS loads are from one buffer and their LDS stores to the other,
a wait for every LDS operation follows the last of them, and then come the barrier and the
advance of `k_iter`; and that the epilogues and the stores to Y are `Good`, without a
store to a tile. `LoweredPhased` shows it of what the generators emit, part by part
(`BulkStepGood`, `StreamColumnsGood`, `GenStepGood`, ...), and needs of their numbers only
that they are counts (`Sized`): `gemm_gen` repeats something `NRowBlocks - 1` times, so
there it needs one row block.

*What the passes leave of it.* Both passes drop or lower waits from what they count as
outstanding. `OutstandingLemma`: as long as no wait for everything has followed an LDS
operation, that count is at least 1, in the block and in the text the block is part of.
So the first wait for everything behind the last LDS operation stays
(`OptimizeReplaces`, `EmitReplaces`), and `ReplacedOrdered`, by induction along the block,
puts the block together again: each LDS operation that is left is still followed by such a
wait (`Awaited`). Hence `CompiledPhased`.

*Why waves stay in step.* The barrier has no number, and waves are up to a block apart.
The invariant `InStep` says that there are a phase `n` (a block with a barrier, or an
epilogue) and a `K` such that every wave is `Inside` it, in front of its barrier with
`k_iter = K`; or `Coming`, behind the barrier before it, with nothing in flight, and bound
for `n` by the `K` it has or will have; or `Leaving`, in the epilogue `n` or what
follows, with no store to a tile in flight. `InFlight` ties what is in flight to the block and to an
LDS operation without a wait for everything behind it, so that a wave at its barrier has nothing in
flight, and what is in flight at any time is of one phase. All waves have the same
`k_iter` there, so all take the same branch; when the barrier opens all waves go on to the
same next phase. `NoRaceInPhase` draws the conclusion: a store in flight is from a wave inside the
phase; what another wave has in flight is a load from the other buffer, or a store to a
slice that differs since the waves' numbers do (`SlicesApart`).

`OperandsAlwaysArrive`, also in `GemmKernelProofs`: `[]OperandsArrived`, for the kernels that are
`Staged`: any tile, depth, split and wave count, by `gemm_gen`, in bulk, streaming, or with
exchanged accumulators, except a streaming kernel with more than one step of 16 to a tile,
of which it is false (section 3.1). `MCGemmKernel` has TLC evaluate that every launch of
the run is `Staged`, and which presets are not (`PresetsStaged`: three that the
generator accepts).

*The generated code.* `TilesNeverRace` needs one wait per block; here each count of each
wait matters. What is known in front of an instruction is a set of facts `<<r, a>>`: behind
every operation that may still write the register `r`, at least `a` others of its counter
were issued. An operation ages the facts of all registers but its own; `Wait(c, n)`
makes every register aged `n` clear, of any age. `Work(V, F, q, W, G)` says of a piece of code
that behind anything of which `V` (global loads) and `F` (LDS) are known it needs only what
is clear, and leaves `W` and `G` known. Pieces compose (`WorkThen`, `WorkEach`, `WorkWhen`), so
each generator is a path through a few sets: `Aging` and `Ripe` for columns loaded
together and waited for in turn, `Flow` and `Ahead` for fragments of B two columns
ahead, `Landed` for the rows of X and WT on their way to LDS. `LoweredWork` closes it:
every block takes nothing outstanding but fragments to the same.

*The passes.* A set of facts is no longer true once a pass has dropped a wait. So
`WorkSound` turns it into what the list alone says: `Alive` is an operation that no wait in
the block has covered, with its age, and `Sound` that no such operation writes what the next
instruction needs. `OutstandingAlive` is the heart: what a pass counts as outstanding is
more than the age of anything alive, though the pass forgets counts, starts a block from
a bound, and only learns from waits. Hence a wait it drops had nothing to wait for, and one
it lowers waits for more (`MayBecome`, `PassSound`): `CompiledSound`. The emitter works on the
text of all blocks, a suffix of which is the block (`AliveJoin`).

*The waves.* The invariant `Tracked`, beside `InStep`: the i-th newest outstanding operation
of a wave is one that may be alive where it stands, with that age. Issuing, landing
and waiting each keep it by `AliveStep`. A wave that leaves a block has waited for its
global loads (`Quits`), and, by `InStep`, for the LDS too if a barrier was in it; from an
epilogue it may take fragments along into the stores of Y, which need only the
temporary (`Plain`).

`SumsAreRight`, in `GemmProducts`: `[]EachProductOnce`. It is what the other two are
for: when a wave is through, what it stored for each block of the result is the bag of the
products of its share of K, each of them once. The launches are `Whole`:

* the kernel is `Staged`, and of one of the two generators modelled; a wave has at least
  one row block, and at most two when accumulators take turns in one set of registers, as
  `emit_acc_swap` keeps one slot;
* a tile is whole steps of 16 and a power of two of 16-byte chunks to a row, and is
  moved by whole rounds of loads of the workgroup. `LoadsPerThread` rounds down, so
  that a tile that is not loses its last slices;
* the share of K is whole tiles, and the matrices reach into the last step of it.
  `gemm_gen` masks nothing, so its callers pad K; `tile_ir` pads it, and what it reads
  beyond K by more than a step is a product of zeros that `Expected` does not count.

`MCGemmKernel` has TLC evaluate that every launch of the run is `Whole` (`SoundIsWhole`),
and that each `Staged` preset is on whole tiles (`PresetsWhole`). The theorem is for any
`Prompt`: operations may land when they are waited for or at any time before.

*What a wave knows.* What is known in front of an instruction is a record: which
register holds which half of which fragment, or a piece of the next tile; which pieces are
stored; which accumulator, slot or temporary holds the sum of which block; what is in
memory; and which products of the tile are added. `Learns(s, x, k, l)` is what the
instruction `x` takes it to, `Leads(s, q, k, l)` that there is a trail of such steps along
the code `q`. A product needs its two fragments and the accumulator of its block, and
must not be added yet; the end of a tile needs all of them added. Trails compose
(`LeadsThen`, `LeadsEach`, `LeadsWhen`), so each generator is led once: `BulkStepLeads`,
`StreamStepLeads`, `GenStepLeads`, `SwapComputeLeads`, `CoopLoadLeads`, `LdsStoresLead`,
`StoreLeads`; `LoweredLeads` closes it, each block leading from what its predecessors
leave (`Start`) to what its successors need (`End`). A wait teaches nothing, so the
passes keep all trails (`OptimizeLeads`, `EmitLeads`, `CompiledLeads`).

*What knowing means.* `KnowsIn` gives each entry its meaning in a state with operations
outstanding: a register holds the value, or the last outstanding load for it will bring
it; a slot holds the sum, or the last outstanding exchange will. So issuing
(`KnowsIssue`), landing (`KnowsTail`, `KnowsLanded`) and everything between keep it
without a word about when anything lands. Only a product, a move and a store need
the value itself, and there `OperandsAlwaysArrive` is used: by `Tracked` nothing
outstanding writes their operands, so the value is in the register (`OperandArrived`).
`TotalStep` is the arithmetic of it: one more product is one more element of the bag, as
no two steps of K have the same (`ProductsDiffer`).

*The waves.* The invariant `Summing`, beside `InStep` and `Tracked`, says of each wave
that it knows what the trail of its block says where it stands (`Learned`); that `k_iter`
and the address it loads from are at the same tile (`Counted`); that what is outstanding
is of that tile (`Queues`); and that the buffer it computes from holds the tile, every
slice of it (`Filled`). Other waves come in twice. A store of one changes no buffer
another computes from, which is `InStep` (`StoringWaves`, `BesideStore`). And at the
barrier each wave knows its own pieces stored with nothing outstanding; together they are
all slices (`AllStored`), so what all compute from next is whole (`OpensRight`).
The end of a tile adds its steps to the finished ones (`TotalAdvance`), and when `k_iter`
has reached the end of the share all its steps are summed (`SumsHere`).

The model writes registers and stores with explicit functions (`With`), as the prover
knows nothing of `:>` and `@@`.

`LayoutsAreRight`, in `GemmKernelProofs`: `[]LayoutRight`. A wave reads each chunk where a
thread put it, no two share an address, all fit in 64 KB; the partitions of K are whole
tiles that make up K; and the workgroups of the grid store every element of Y once for each
partition, none twice and nothing outside. The launches are `Laid`: the rows of a tile are
whole blocks of 16 for each wave, the loads whole rounds; in a kernel of `lower_gemm` a round
is a multiple of eight rows, and one that exchanges accumulators has one step of K to a
tile; the arguments are the sizes, the partitions are told planes that do not overlap, the
share of K is whole tiles, and where nothing is masked the matrices are whole tiles. The
run's launches are (`SoundIsLaid`), and so are the presets on whole tiles but five
(`PresetsLaid`), which `Lowers`, `Staged` or the code above rule out one by one.

*Shared memory.* The address a thread writes to is its number with the row XORed into the
last three bits; the address a lane reads from is computed from block, lane and step
instead, with the lane's row XORed in. They agree since the exchange only sees a row's place
among eight and commutes with adding multiples of eight (`XorShift`, `ReadWhereWritten`): this
is where a round that is no multiple of eight rows, or a step added behind the exchange,
would break it. No two chunks share an address because every address has one: an
exchange with the row, which is the number divided by the chunks of a row, can be undone
from the highest bit down (`XorBits`, `AllExchanges`, for each power of two), so a round of
loads is onto its addresses (`SwizzleOnto`, `RoundFull`), and rounds and matrices fill their
parts (`PartFull`, `LdsIsRight`).

*Y.* A row is read as a number of four digits: workgroup, wave, row block, and the place
in it, which is half a lane and a register; a column of three. `OnePlace` and `SomePlace` say
that it has such digits and no others, `OneAddress` the same of partition, row and column
in an address. Hence what two blocks store is disjoint (`StoredApart`), every element is
stored (`AllOfY`), inside (`StoredIn`, `InsideY`), by a workgroup that does not leave
early (`NoneLeaves`), and the blocks' sizes add up to that of their union (`Families`).

### 4.9 Only model-checked

* Liveness (`CallsReturn`, `DoorbellRuns`, `KernelEnds`, `KernelsReturn`): the prover has
  no fairness.
* `ArgsIntact` with two threads. It holds in the run's instance because two
  threads never wrap three slots; for any number of threads it is false (section 2.2).
* `OperandsArrived` and `EachProductOnce` of `GemmKernel` are proved for `Staged` kernels
  only, being false of the others, and `LayoutRight` for `Laid` launches. A launch that is
  not `Laid` may be right by accident, as when all columns of Y are in the first of
  the two passes a configuration asks for.
* The compiler: `StoresKept` and `IntervalsCover` of `Optimizer`, `LoweredRight` of
  `TileSsa`, `BranchesLand` and `LanesRight` of `Rdna3Assembler`. They say what a program
  computes, or reads back as, after a transformation of its text, and would be proved by
  induction over programs, which the library's theorems do not give here. The
  backends lose SMT besides where an operator is declared `RECURSIVE`
  (`Optimizer`) and cannot use `Bitwise` (`LaneWave`, on which `Rdna3Assembler` runs).
  These are checked program by program, over families of programs.

## 5. Plan

The order is that of what a mistake costs: wrong results without an error first,
then hangs, then leaks. The modules of section 2 are done. Next:

1. `RuntimeCaches`: kernels, layouts and bf16 copies under their locks. Hazards at
   `gpu_context.rs:401` and `fusion.rs:55`.
2. `KfdOpen`: `open` with its singleton and error paths, two threads; the VM is
   acquired once, everything is released when a step fails.
3. `Pm4Queue`: byte pointers, the indirect buffer, `submit_pm4` in the AQL ring
   beside `submit`; `GpuMemset` and `gpu_zero` with their one kernarg buffer.
4. `SpillCode`: `insert_spill_*` after `RegAlloc`, so that `Undisturbed` can drop its
   first half; the reference is the value each use must see.
5. Composition of `Optimizer` and `RegAlloc`: intervals of a program in place of
   intervals from everywhere.
6. WMMA and reshapes in `TileSsa`, the NN layout of the GEMM generators, attention.

The proof that would be worth most now: that what the memory of Y holds at the end is
the product of the matrices. `SumsAreRight` says which slices a block is the sum of and
`LayoutsAreRight` which elements they are and where a block goes; what is missing between
them is the matrix instruction, lane by lane, in `GemmKernel`.

## 6. Running it

```
tlc -workers 2 -config AqlQueue.cfg MCAqlQueue      # and so on for each run
tlc -workers 2 -config TileSsa.cfg MCTileSsa
tlc -workers 2 -config TapeLosses.cfg MCTape        # fails, see section 3
tlapm AqlQueueProofs.tla
tlapm GpuRuntimeProofs.tla
tlapm GpuMemoryProofs.tla
tlapm RegAllocProofs.tla
tlapm GemmKernelProofs.tla
tlapm GemmProducts.tla
tlapm TapeProofs.tla
tlapm Sums.tla
```

The largest runs are `tape` (about 8 million states) and `gpu_memory` (about 4.5
million): one to three minutes each on two cores; `gemm_kernel` takes a minute and a
half for 137 thousand states, a third of it for the assumptions of `TiledGemm`.
Proofs take about half an hour together.
