# Specifications of Block-Sparse-Attention

TLA+ models of the parts of this repository that are hard to test: the
synchronisation inside the warp-specialised GPU kernels, the distribution of
tiles over CTAs, the parallel construction of the backward work list, and the
cache of compiled kernels that processes share.  TLC checks the models on small
instances (`MC*.tla`, `*.cfg`); TLAPS proves the most important facts for every
value of the constants (`*Proofs.tla`).  Paths are relative to `src/`.

## 1. The system

`bsa_attn_interface.py` (and the `bsa_fp8*.py`, `bsa_sage*.py` entry points)
takes Q, K, V and, per query block, a list of the K/V blocks to attend to
(`q2k_block_index`, with one count for all rows or `q2k_block_nums`).  It picks
a kernel by architecture and block size, finds it among the ahead-of-time (AOT)
artifacts or in the JIT cache, compiles it if neither has it, and launches it.

| Component | State it keeps | Operations | Interacts with |
|---|---|---|---|
| Interface and dispatch (`bsa_attn_interface.py`) | compile caches, FP8 fast-entry caches, number of SMs | forward, backward, split policy, workspace sizing | all below |
| JIT cache (`utils/cache_utils.py`) | dict per process; `.so`, `.o`, `.lock` per key on disk | lookup, export, `FileLock`, `clear` | other processes, through the directory |
| AOT builders and loaders (`csrc/fwd/*/aot_*.py`) | artifacts and a manifest on disk; cached manifests, libraries and executors | build, validate, load, bind, clear | builders in other processes |
| Pipelines (`csrc/utils/pipeline.py`) | a full and an empty mbarrier per stage; one phase index per side | acquire, commit, wait, release, tail | every kernel |
| Tile schedulers (`csrc/utils/*tile_scheduler.py`) | a linear index or the last CLC answer, per warp role | current work, advance | every kernel, grid launch |
| SM100 blk64 forward (`csrc/fwd/sm100_blk64/bsa_fwd_sm100.py`) | shared memory, tensor memory, about twenty mbarriers, one named barrier per softmax warp | load, MMA, softmax, correction, epilogue, CLC scheduler warps | TMA, tensor core |
| Combine (`bsa_fwd_combine.py`) | partial outputs and LSEs in global memory | merge splits | forward with split KV |
| SM90 forward (`csrc/fwd/sm90_blk64`) | one tile each of Q, K, V in shared memory, three full mbarriers | one warpgroup: TMA loads by its warp 0 between WGMMAs, softmax, store | TMA, WGMMA |
| SM120 forward (`csrc/fwd/sm120_blk64`: BF16, FP8, Sage) | one stage of each tile with full and empty mbarriers | four warps with their own MMAs; warp 0 loads too | TMA |
| SM100 blk128 forward (`csrc/fwd/sm100_blk128`: BF16, FP8 fused PV) | K/V ring, two streams of S, P, O in tensor memory, statistics in shared memory | load, MMA, two softmax warpgroups, correction, epilogue | TMA, tensor core |
| Bucketed CSR (`csrc/bwd/bucketed_k2q_csr.py`) | counts, offsets, cursors, indices in global memory | count, local prefix, finalize, scatter | backward kernels |
| SM100 blk64 backward (`csrc/bwd/sm100_blk64/bsa_bwd_sm100.py`) | shared memory, tensor memory, ten pipelines, four named barriers, FP32 accumulators of dQ, dK, dV | load, MMA, compute, reduce warps; `sum_OdO` before, `convert` after | CSR, forward LSE, TMA, tensor core |
| SM100 blk128 backward (`csrc/bwd/sm100_blk128`) | tensor memory in which P, dS and dQ take the columns of S and dP; two stages of Q | load, MMA, two compute warpgroups, reduce warps | CSR, forward LSE, TMA, tensor core |
| SM90 backward (`csrc/bwd/sm90_blk64`) | three stages of Q and dO, one of P, dS, dQ; dV and dK in the memory of V and K | load warp, dQ store warp, two WGMMA warpgroups | the preprocess kernel, CSR, TMA |
| Quantization (`*quant*.py`) | scales | per-block and per-channel quantization | FP8 and sage kernels |
| Helpers (`csrc/utils/*`) | none | layouts, descriptors, softmax arithmetic | kernels |

**What is hard.** Six warp roles of a CTA run with no common program order; TMA
copies and tensor-core operations complete later than they are issued and
signal by themselves.  Memory is reused on purpose: P over S in tensor memory,
the epilogue over the K/V ring, one slot for scales and then for row sums.  An
mbarrier wait sees one parity bit.  A persistent CTA goes through tiles that may
be empty, and each role has to skip the same things.  Under cluster launch
control (CLC) all roles read one answer that the next query overwrites.  The JIT
cache is shared by processes that may die in the middle of a link, with or without
the linker they started, or clear the directory.

**What makes each part correct.** A pipeline: a reader reads the item it waited
for, every item gets through.  A forward CTA: each tile is stored once and is
the attention of all of its own K/V groups, and all roles finish.  A scheduler:
each tile is computed by exactly one CTA, all roles agree on it, the splits of a
row cover it exactly.  Any other forward kernel: each piece of O and LSE is
written once and is exact, also when a row's maximum rises late or all its blocks
are masked, and P never exceeds its number format.  The CSR: it is the inverse of the index, whatever order
the threads run in.  A backward CTA: each Q block of its list is added to each
gradient once, and no other block is.  The JIT cache: no process loads a library that another
one is writing, nobody overwrites a mapped one, every call returns.

## 2. The modules

| Module | Models | Kind |
|---|---|---|
| `PipelineContract` | what a circular buffer promises | abstract |
| `MbarPipeline` | `csrc/utils/pipeline.py` | implements `PipelineContract` |
| `MbarPipelineProofs` | proofs about it | TLAPS |
| `TileOutputContract` | what a persistent forward CTA promises | abstract |
| `Sm100Blk64Fwd` | one CTA of `bsa_fwd_sm100.py` (blk64) | implements `TileOutputContract` |
| `Sm100Blk64FwdControlProofs`, `Sm100Blk64FwdProofs` | proofs about it: who may go how far; what the memory holds | TLAPS |
| `Mbarrier` | mbarriers and named barriers, as the next nine modules use them | operators |
| `OnlineSoftmax` | the row state of the softmax, eager and lazy | operators |
| `OutputContract` | what a kernel promises of its outputs | abstract |
| `Sm90Fwd`, `Sm120Fwd` | one CTA of the SM90 kernel; of the three SM120 kernels | state machines |
| `Sm100Blk128` | what the two blk128 forward kernels share | part of the next two |
| `Sm100Blk128Fwd`, `Sm100Blk128FusedPv` | one CTA of the BF16 kernel; of the FP8 kernel | state machines |
| `ForwardKernels` | the dispatcher's choice among these four | implements `OutputContract` |
| `ForwardKernelsProofs` | proofs that P fits FP8 | TLAPS |
| `Sm90Bwd`, `Sm100Blk128Bwd` | one CTA of the SM90 and of the blk128 backward kernel | state machines |
| `BackwardKernels` | the choice between these two | implements `OutputContract` |
| `SplitKv` | split boundaries, device and host | operators |
| `TileSchedule` | schedulers over a whole grid; EXTENDS `SplitKv` | state machine |
| `TileScheduleProofs` | proofs about both | TLAPS |
| `BucketedK2QCsr` | the four kernels of the CSR builder | state machine |
| `BucketedK2QCsrProofs` | proofs about them | TLAPS |
| `GradientContract` | what a CTA of a backward kernel promises | abstract |
| `Sm100Blk64Bwd` | one CTA of `bsa_bwd_sm100.py` (blk64) | implements `GradientContract` |
| `Sm100Blk64BwdProofs` | proofs about it | TLAPS |
| `JitCache` | `utils/cache_utils.py` and its use in the interface | state machine |
| `AotArtifacts` | `csrc/fwd/*/aot_*.py` and the FP8 fast entries of the interface | state machine |
| `KernelCachesProofs` | proofs about both caches | TLAPS |

Definitions that start a comment with "A bug for the runs to find" are mutated
forms of the definition that follows them; nothing uses them.  They exist so
that each property can be shown to fail when the code is wrong
(`PROJECT.json`, "mutants").

### MbarPipeline

`full[s]`, `empty[s]` are the mbarriers of stage s: completed phases (`done`)
and arrivals of the current one (`count`).  A wait sees `done % 2` only.
`pstate`, `cstate` are the phase indices of `PipelineStateSimple`; `IndexOf`,
`PhaseOf`, `Advance` are its `index`, `phase`, `advance`, including the special
case of one stage.  Each of `ProducerAcquire`, `ProducerCommit`, `ConsumerWait`,
`ConsumerRelease` is the method of that name.  Commits and releases come later
and in any order, because TMA commits when bytes land and the kernels release
with older clones of a state.  `acquired`, `filling`, `waited`, `reading` are
history: they are the variables of `PipelineContract`, and no guard but the bound
`Items` reads them.  The mbarrier itself is hardware.

### Sm100Blk64Fwd

One CTA.  The registers of each role are one record (`ld`, `mm`, `sm`, `co`,
`ep`) with a program counter, its tile, and its phase bits.  An action is the
code from one wait to the next: a wait is a guard `Done(barrier, phase)`, an
arrival an update by `Arrive`.  `inflight` holds the TMA copies issued and not
landed; `tc` is the queue of the tensor core, which executes in issue order and
arrives on the barriers committed after an operation.

Data is tags.  `kv[s]` says which K or V group of which tile is in slot s, `sp`
whose scores or probabilities are in an S/P stage and how much of P is written,
`o` which contributions an O stage has accumulated and how many corrections were
applied before each.  A step that reads something else than it should produces
the tag `Broken`.  `CorrectionCombine` accepts exactly the set `Contributions`
that the tile's groups make; the epilogue's `out` is then the tile number or
`Broken`, which is what `TileOutputContract` speaks about.

The unit inside a warpgroup is a pair of warps (`Warps`), the ones that share
output rows and one `reduce` mbarrier; two of the launches have a full pair.
BF16 aliases the epilogue onto the ring (`AliasEpilogue`) and, when persistent,
keeps the load warp out with `pipeline_load_epi`; persistent FP8 has separate
buffers.  Left out: lanes, swizzles, masks, LSE output, the values of the
softmax, the sage V scales (one warp's private slice), the CLC queries
(`TileSchedule` models them: here a launch is the list of tiles the CTA got),
FP8 with split KV (scales are read from global memory there, so
`ScalesMatchScores` does not apply), and more than one load warp.  With
`allow_empty_block_nums` off the interface's contract is that no row is empty;
`Launches` with an empty tile are launches with it on.

### ForwardKernels: Sm90Fwd, Sm120Fwd, Sm100Blk128Fwd, Sm100Blk128FusedPv

`ForwardKernels` picks a launch, and with it the kernel; the state of all kernels
is in the same variables, whose shape each `Init` gives.  `bar` maps a barrier to
its parity, the arrivals and the bytes it still lacks (`Mbarrier`), and nothing
else is known to a waiter; a named barrier is one that counts arrivals.
`inflight` are copies issued and not complete, `tc` the products issued and not
complete.  The unit is a warp, and a warp stands for the rows it owns, as one row:
a launch gives the score of that row in each block (`NegInf` where it is masked).
`OnlineSoftmax` computes with terms `<<block, exponent>>`: a sum or an output is
the set of the terms added up, so a block that is missing, doubled, stale or
relative to another maximum than the rest is seen in the result.  `Broken` is the
term of a product whose operands do not belong together.  Exponents are whole:
the thresholds of the lazy rescaling (8 for BF16, log2(448/128) = 1.8 for FP8,
log2(448/256) = 0.8 for Sage) are 8, 1, and, in half powers of two, 1.

* `Sm90Fwd`: one warpgroup.  K and V have no empty barrier: warp 0 loads the next
  block once its own `wait_group(0)` has returned (`bsa_fwd_sm90.py:226-231`), and
  nothing in the code says that the other warps have read the last one.  The model
  assumes, as the kernel must, that a WGMMA starts when its whole warpgroup has come
  to it and is over for all warps at once; what the run shows of this kernel rests on
  that.  A split is a launch with the split's blocks.
* `Sm120Fwd`: each warp multiplies on its own, so they drift apart.
* `Sm100Blk128` has the load warp, the copies and the epilogue of both blk128
  kernels and the phantom block of an odd list; `Sm100Blk128Fwd` the S/P columns,
  the statistics slot and the named barriers of BF16; `Sm100Blk128FusedPv` the one
  S tile, the three P slots and the denominator in extra columns of O, and the
  SM103 build beside the SM100 one.  A tile of the FP8 kernel is one split of a
  query tile (`_split_block_range`); pieces of it are merged by the combine
  kernel.

Left out: lanes, masks inside a block, layouts, `pack_gqa`, GQA, the CLC queries.

### BackwardKernels: Sm90Bwd, Sm100Blk128Bwd

One CTA is one K/V block and its list of Q blocks (`launch.edges`).  Memory holds
the number of the Q block whose data it has, per warp where warps write it; an
accumulator holds the set of blocks added.  `out` has a piece for dQ of each listed
block and for dK and dV.

* `Sm90Bwd`: `tc[g][w]` are the WGMMAs that warp w of warpgroup g has issued, each
  for its own rows, and waits for in order.  `PreprocessEnds` is the end of the preprocess kernel, which this kernel
  overlaps (programmatic dependent launch); before it LSE and dPsum are garbage.
* `Sm100Blk128Bwd`: K arrives on the barrier of the first Q and V on that of the
  first dO; the arrivals at `tmem_alloc` by the warps that only make them are in
  `Init`.  `accum` selects the epilogue that adds to FP32 accumulators.

*What orders the warps of a warpgroup.*  Before a WGMMA each warp only fences
(`bsa_bwd_sm90.py:1669-1671`).  All products but one read what the same warp has in
registers and what a copy has brought; dQ reads the dS of all warps.  So a launch
says in `lockstep` for which products the warps wait for each other: for the others
each warp issues its rows when it comes to them.  `Promised` leaves out what the
code does not ensure: dQ if its product is not in `lockstep` and there are several
warps, and dQ and dK on a list of one block (section 3, "One Q block on SM90").
`OperandsHeld` says in these two cases how far things may go wrong.

The models assume of the hardware that the shared memory of a CTA that has exited is
not reused before its bulk stores have read it (`Sm90Bwd` and `Sm100Blk128Bwd` leave
without waiting for the last stores of dK and dV).

### SplitKv and TileSchedule

`SplitKv` has the boundary of split i of n blocks twice: as the kernel computes
it (`Offset`) and as the host builds the offsets tensor (`HostOffset`).
`TileSchedule` is a whole launch: CTAs are started by the hardware in any order
when an SM is free, each role of a running CTA has its own scheduler, and under
CLC the scheduler warp's query cancels some pending CTA and takes its tile.
`took` is history: what each role worked on.

### BucketedK2QCsr

One (batch, head).  Each action is one thread of one of the four kernels; the
kernels follow one another on one stream.  A scatter thread takes its slot with
the atomic cursor in one step and writes in another.  What `torch.empty` leaves
is `Garbage`.

### Sm100Blk64Bwd

One CTA: one K/V block and its list of Q blocks, two per iteration.  Actions are
named after the roles: `Load*` (`load`), `Mma*` (`mma`), `Compute*` (`compute`
and `epilogue`), `Reduce*` (`reduce`); `Land`, `StoreRead` and `TensorCore` are
the copies and MMAs that go on by themselves.  `Expected` gives each barrier the
arrivals its `CooperativeGroup` names, in warps.  Every pipeline state advances
once per iteration, so stage and phase follow from the role's count `n`
(`ConsumerPhase`, `ProducerPhase`, and the `2` forms for two stages); the
release state of Q is `n - 1`.  A region of memory holds the number of the pair
whose data it has, and a product of operands of different pairs is `Broken`.
`tdPdQ` is one variable because `tmem_dP_offset = tmem_dQ_offset`.  A role's
arrivals between which it does not wait are one step: no other role can use one
of them before the next to undo it.  `Bytes` counts the bytes a barrier expects
in halves of a Q tile.  The refinement maps an accumulator over the pairs
`1 .. n` to what those pairs contribute to it (`Contributions`).

### JitCache

One key.  Locks are per open file and inode, as with `flock`: `path` is the
inode the name refers to, `fd[p]` the one process p has open.  A call is the
caller's pattern `if key not in cache: cache[key] = compile(); cache[key](..)`:
`Ask`, `Open`, `Try`/`Retry`/`Timeout`, then `Lookup` and `LoadModule`, or `Compile`
and again a lock, `Recheck`, `Export`, `LinkBegins`, `LinkEnds`, `RemoveObj`.  The
link is two steps since the output exists before it is whole.  `BeginClear`
takes the directory listing, `UnlinkDoomed` removes one file at a time without a
lock.  `Crash` ends a process with its linker; the kernel drops its lock, a
library it was linking stays "torn".  The linker is a child process (line 269) and
the descriptor of the lock, from `os.open` (136), is closed in it, so when only the
Python process is killed the lock is free and the linker goes on:
`CrashLeavesLinker`.  `orphans` counts such linkers, those that have yet to open
their output (`OrphanBegins`) and those that write (`OrphanEnds`: it finishes or is
killed too); a library whose file such a linker writes is "orphan".  `LinkBegins`
may find that there is nothing to do: distutils, which the compiler object comes
from, skips a link whose output is newer than its input.  `lost` is history: what
crashes did to linkers.  Left out: failing compilations, linkers that fail by
themselves, and several keys (each has its own three files).

### AotArtifacts

One variant of a split call: a producer and a combine kernel, from the same
build.  A library or manifest is the number of the build that wrote it; that
stands for its checksum or its `stat` (`st_mtime_ns`, size and inode differ
between two manifests, since each is a new file moved into place).  `Torn` is a
library whose linker has not finished.  `kind` selects one of the repository's
loaders: SM100 blk64 caches manifests by `stat`, and for FP8 keeps the pair of
kernels under a token; SM90 and SM120 cache manifests by path; FP8 blk128 also,
and keeps the pair until its cache is cleared.  (SM120 has no combine kernel; its
lookup is the first turn.)  A call is `Call`, then for each kernel `Stat`, `Read`,
`Restat`, `Check`, `Hash`, `Load` as far as the caches make it go, and `Finish`.
One builder per directory, as the Makefile starts them.  Left out: the target,
CPU and version checks (constants of a machine), several devices, the layout
checks, edits of the sources during a build.

## 3. The runs

| Run | Instance | Shows |
|---|---|---|
| `mbar` | 2 producers, 2 consumers, 2 stages, 5 items | `ReadsItsItem`, `PhasesInStep`, refinement of `PipelineContract`, every item passes |
| `sm100` | pairs: FP8 with 12 blocks, BF16 with empty tiles; one warp: `0,20,8,0` BF16, `12,8` FP8, single tiles | `TmemExclusive`, `StatsHandedOver`, `ScalesMatchScores`, `NothingDangling`, `OperandsHeld`, `EpilogueOwnsRing`, refinement of `TileOutputContract`, `EveryTileStored` |
| `forward_kernels` | 3 launches of SM90 and 4 of SM120 with 3 warps, up to 4 blocks; 1 of blk128 BF16 and 4 of blk128 FP8 with one warp per warpgroup, up to 3 tiles, and an empty tile of each with two | `OperandsHeld`, `PFitsFp8`, refinement of `OutputContract`, `EveryOutputWritten` |
| `backward_kernels` | SM90: 4, 2, 1 and no blocks, 1 or 2 warps that wait or not at dQ and dK; blk128: 3, 1 and no blocks, 1 or 2 reduce warps, dQ in 1 or 2 chunks, both epilogues | `OperandsHeld`, refinement of `OutputContract`, `EveryGradientWritten` |
| `tile_schedule` | 2 roles; 5 launches of 4 to 6 tiles, 2 or 3 SMs | `RolesAgree`, `NoTileTwice`, `KvCoveredOnce`, `EveryCtaFinishes` |
| `k2q_csr` | 3 q blocks, groups of 2, 2 kv blocks, rows of 3, tiles of 2 threads | `SlotWrittenOnce`, `CsrInvertsQ2K` |
| `bwd` | lists of 5, 2 and no Q blocks, whole blocks; 1 or 2 compute and reduce warps; dQ in 1 or 2 chunks | `OperandsHeld`, `TmemHandedOver`, `OnlyLastdQAfterFree`, refinement of `GradientContract`, `EveryGradientAdded` |
| `bwd_ragged` | 3 Q blocks, the last half full | a violation of `PaddingAddsNothing`, see below |
| `jit_cache` | 2 processes, crashes, up to 2 linkers without a process, up to 2 clears | `LockedUntilCleared`, `LoadsSettledLibrary`, `NoHoldAndWait`, `NeverRewritten`, `EveryCallReturns` |
| `jit_cache_cleared` | 2 processes, 1 clear | a violation of `LoadsLocked`, see below |
| `aot` | every loader, strict or not; 3 builds, 1 edit, 1 clear | `NeverOlder`, `FingerprintHolds`, `ErrorsAreReal`, `LoadsWhatIsNamed` |
| `aot_fast_entry` | SM100 blk64 FP8, 2 builds | a violation of `FastEntryIsCurrent`, see below |

**Bounds and why they are enough.**  `Items = 5` over two stages uses each stage
more than twice, so each parity value comes back; the proofs cover the rest.
8, 12 and 20 blocks are 2, 4 and 6 groups: no rescaling, one pair of rescalings,
the steady state of the MMA loop.  The ring has the code's three slots, the
stages the code's two.  The lists of tiles put an empty tile first, last and
between full ones; three and four tiles bring every one-bit phase back to its
start.  In `tile_schedule` there are more tiles than SMs, and 27 blocks in two
splits take the aligned boundaries with a remainder, 5 the even ones.  In
`k2q_csr` the last group and the last thread tile are ragged, an entry repeats,
one is negative, one is out of range, and counts exceed the row.  In `bwd`
five blocks are three pairs, the last one padded: both stages of Q are used
again, and each parity comes back; the order of the list is not that of the
blocks.  Two chunks over two stages of dQ, three pairs long, refill each stage
while its store may be under way; the code has four chunks.  In `forward_kernels` a score rises above each threshold
after others were kept below it, a row is masked in its first, a middle or its
only block, and lists of 0, 1, 2 (no steady state), 3 (a phantom block) and 4
blocks bring back each parity; three warps are a leader and two that drift apart.  In
`backward_kernels` four blocks over the three stages of SM90 and three over the
two of blk128 use a stage again; 2 and 1 blocks on SM90 are the shortest list on
which V is ordered and the one on which it is not.  Warps that do not wait are run
at dQ and dK, the products of which one reads what other warps wrote.  The non-empty
launches of the blk128 kernels, forward and backward, have one warp in each softmax
or compute warpgroup: arrivals of several there are run with empty lists only.
`MaxClearCalls` bounds the calls of `clear()`; crashes are unbounded, `MaxOrphans`
bounds the linkers that live on after them at a time: two, so that one may undo what
the other does.  In `aot` three builds are
one in place, one interrupted and one complete; a second source version and a
second cache generation are what a check can confuse with the first.

**Fairness.**  Warps of a resident CTA are scheduled by the hardware, copies and
MMAs complete, and a CTA starts when an SM is free: weak fairness of each role,
of `Land`, `TensorCore`, `Start`, `Answer`.  Nothing is assumed about order
between roles.  In `JitCache` a process in a call goes on (weak fairness of
`CacheStep`); no one is obliged to call, clear or crash, and no linker that nobody
waits for is obliged to end.  `Timeout` has strong
fairness since the deadline of the polling loop is real time: a process that
polls for ever would pass it, although it leaves "sleep" at each retry.

In `Sm100Blk64Bwd`, `ForwardKernels` and `BackwardKernels` no step repeats, so it is enough that the CTA as a whole goes
on while any of its warps, copies or MMAs can (`WF_vars(Next)`; `BackwardKernels`
spells it out in a form that TLC checks faster).

**Findings.**  `jit_cache_cleared`: `JITPersistentCache.clear` unlinks the
`.lock` file with the rest and takes no lock (`utils/cache_utils.py:279-286`).
A process that holds the exclusive lock and links keeps it on the unlinked
inode; the next process creates a new lock file, gets its shared lock at once
and loads the library half-linked.  The docstring of `_try_load_from_storage`
(line 224) says the shared lock prevents concurrent writes.  Until a `clear()`
it does, as far as processes go (`LockedUntilCleared`), but not those of a linker
whose process was killed (`LoadsSettledLibrary`, `NeverRewritten`).

`aot_fast_entry`: the README says the fast entry of repeated FP8 calls is
invalidated when the manifest identity changes (170-171).  The entry's token is
read after its kernels were resolved (`bsa_attn_interface.py:2816`).  When a
build replaces the manifest in between, the old kernels carry the new token and
are served until the next build or `clear`.  They are never older than the
manifest at the start of the call that stored them (`NeverOlder`).  `NeverOlder`
does not exclude a newer library than the one that was hashed: the code loads it
by name after the hash.

`bwd_ragged`: an odd list of Q blocks is padded with block `seqlen_q // 64`, "out
of box, tma can fill zeros automatically" (`bsa_bwd_sm100.py:1110`, also 1324 and
1983).  That holds when `seqlen_q` is a multiple of 64, which every test of this
kernel uses (run `bwd`).  Otherwise the block is the partial last
one: it is loaded and added to dK, dV and dQ, a second time if the list names it.

Four more, which no expected-violation run shows: the passing runs contain the
first three and restrict what they claim to what is left, and the last is outside
the models.

*One Q block on SM90.*  Warpgroup 1's epilogue writes dV over V in shared memory
(`bsa_bwd_sm90.py:1731-1745`).  Warpgroup 2 copies V to registers at its first
block (1639-1641).  From the second block on, warpgroup 1 has waited for
warpgroup 2 to use P of the first (`PdSConsumed`); a list of exactly one block has
no such wait, and warpgroup 1 needs nothing of warpgroup 2 to finish.  So dP, and
with it dQ and dK, may be computed from dV.  The run has such lists; on them
`OperandsHeld` allows V to be replaced by dV, and `Promised` is dV only.  Without
either exception (`VOrdered == TRUE`) TLC finds the property violated.  The time
between the two is long, so a test will hardly see it: `tests/test_flash_bwd.py:975-995`
has a case of that shape.

*dS by a fence only.*  In the same kernel dQ reads the dS of all four warps, which
are ordered by nothing but each warp's fence (1669-1671).  If the hardware lets a
warp start its rows of a WGMMA before the others have come to it, that warp may
read rows of dS that are one block old.  The run has a launch in which it does: dV
and dK are exact there, dQ is not promised, and without that exception
(`dSOrdered == TRUE`) both properties are violated.

*Linkers that outlive their process.*  The lock of the JIT cache ends with the
process that asked for it; its linker may not (`CrashLeavesLinker`).  Another process
then gets the lock, and loads what the linker is still writing, or exports anew and
has its finished library rewritten.  No doc of the repository speaks of it.
`LoadsSettledLibrary` and `NeverRewritten` say that no other cause has these effects.
`EveryCallReturns` counts an exception as a return: a call that waited for the lock
too long raises although its kernel was compiled, and the property allows it.

*Padding and blocks of 128.*  `bsa_attn_bwd` documents `block_sizes` as "Same as
forward" (`bsa_attn_interface.py:3794`).  For `sparse_block_size=128` it is not
passed on (3944-3955): the backward kernel masks the end of the sequence only, so
padding tokens inside a block get, and contribute to, gradients.

## 4. The proofs

`MbarPipelineProofs`, from `StagesAssumption`, `ItemsAssumption` and
`SidesAssumption` only (at least one stage; finite, non-empty sides):

* `InStep`: `Spec => [](TypeOK /\ PhasesInStep)`.  `PhasesInStep` is the
  inductive invariant, checked by the run `mbar` first: a phase index stands for
  the number of items passed; on each stage every thread's arrivals are the
  barrier's completed phases or one more; the count is the number of threads one
  ahead; the full barrier is zero or one phase ahead of the empty one.  It is
  needed because `ReadsItsItem` alone says nothing of parities: a wait that
  passes tells only that `done` has a certain parity, and the phase follows
  because it can be one of two neighbours.  One lemma per action.
* `ReadsItsItemHolds`: `Spec => []ReadsItsItem`, from the invariant.
* `Implementation`: `Spec => Contract!Spec`: an acquire or a wait that passes is
  one the contract allows.

`KernelCachesProofs`, of the JIT cache, from `BoundAssumption` and `ProcsAssumption` (the marks of the
library on disk are not names of processes), for every set of processes, any number
of crashes and linkers left behind, and any bounds:

* `Invariance`: `CacheSpec => []IndInv`, checked with TLC first.  `Holding` says that
  what a process has open and holds follows from where it is, `Linkers` that linkers
  without a process and unfinished libraries come from crashes.  Until a `clear()`,
  `OneLock` says that all open lock files are the one the name refers to and that
  an exclusive lock is alone, and `Found` that who is about to load has a library; if no crash has left a linker behind either, `OneWriter`
  says that what is on disk follows from where its holder is.  The properties alone
  are not inductive: a process at "export" excludes another at "load" only because
  both hold locks, on one inode.
* `Exclusion` (`LockedUntilCleared`), `SettledLibrary` (`LoadsSettledLibrary`),
  `NeverHoldsAndWaits` (`NoHoldAndWait`) and `LibraryIsFinal` (`NeverRewritten`)
  follow from it.

`ForwardKernelsProofs`, from `LaunchesAssumption` only (scores are whole; lists
have any length, scores any order and size, and there are any number of warps):

* `PFits`: `FairSpec => []PFitsFp8`.  The heart is `LazyUpdateFits`: a lazy update either moves the maximum to the new score
  or leaves it less than the threshold below, so no exponent of P passes the
  threshold, whatever the row was; an eager update leaves none above zero.  The
  property alone is not inductive, because a step computes P from registers and
  from what a tile holds.  `Sm120FitsInv` and `FusedPvFitsInv` add what that
  takes: rows are rows; a warp in its
  loop is at a block of its list, so the score it reads exists; and on SM120 the K
  tile, and every copy still under way to it, is of a block of the list or of
  none.  A product from a tile that is not there gives an unusable P, which is
  `OperandsHeld`'s concern.  `SameSoftmax` says that the row operations of the two
  kernels are those the facts are about.

`TileScheduleProofs`, from `LaunchesAssumption` and `RolesAssumption`, for every
grid, number of splits and of SMs and set of roles:

* `HostAgrees` (the clamp never changes a boundary), `SplitsDisjoint`,
  `SplitsCover`, for all counts, splits and indices: by monotonicity of `Offset`
  and its values at 0 and at the number of splits.
* `Agreement`: `Spec => []RolesAgree`.  `AgreeInv` (checked with TLC on the
  launches of `tile_schedule` first) is needed because two roles with equal
  histories may still be about to take different tiles.  Without answers,
  `FixedOrder`: the i-th tile is a function of i.  Under CLC, `InTurn`: no role is
  more than one answer behind, and none while a query is open, which is what
  `Released` buys; so `Together`: what a role is about to take is what any role
  ahead of it took there.
* `TilesOnce` (`NoTileTwice`) and `BlocksOnce` (`KvCoveredOnce`).  Two lemmas say
  that linear indices and grid coordinates are numbered by tiles one to one
  (`StaticTileOneToOne`, `GridTileOneToOne`); that settles the two schedulers
  without answers, with `RoleOK`: a role that is through has gone past the last
  index.  Under CLC nothing in the state says which coordinates a CTA was given,
  so the inductive invariant `ShareInv` says that there is a function `own` that
  does (`Owns`): a CTA's own coordinate first, then the ones it got in answers,
  the last of them in the pipeline still; all but the first were cancelled; no
  coordinate is in two places; a cancelled CTA's is in some running one's; and
  what a role took is the beginning of it.  `SchedOK` and `Out` add that nobody
  asks again after the empty answer, so that a role that is through has taken
  them all.  `ShareInv` was checked with TLC with `own` as a history variable.

`KernelCachesProofs`, of the AOT artifacts, from `BoundsAssumption` and `KindsAssumption`, for any
number of builds, edits and clears and every combination of cache key, fast entry
and strictness, also those no loader has:

* `Caching`: `Spec => []IInv`, checked with TLC over all of those combinations
  first.  `NeverOlder` and `FingerprintHolds` speak of the kernels in hand; the
  invariant follows a checksum there: numbers on disk only grow (`Grows`), a
  cached manifest or library is not older than its key (`Cached`), what an entry
  of this generation holds is as good as what a call holds (`Holds`), and a lookup
  goes by a manifest no older than `since` at each of its steps (`Named`).
  `Undisturbed` is what `ErrorsAreReal` needs: it lists the reasons to refuse and
  says that, with no writer, each is still absent at every step, from a cache too.
* `KernelsAreRecent`, `KernelsFitTheSources`, `RefusalsHaveReasons` follow from
  it, and the action property `LoadsWhatIsNamed` (`LoadedAsNamed`): between the
  hash and the load of a library nothing changes unless somebody writes.

`BucketedK2QCsrProofs`, from `SizesAssumption` and `InputsAssumption` (positive
sizes, integer entries and counts), for every launch, also with counts and entries
out of range:

* `Invariance`: `Spec => []IInv`, checked with TLC on 32 launches first.  An edge
  is a thread that reads an entry and keeps it; `OneThreadAnEntry` and
  `EveryEntryHasAThread` say that tiles and threads number the entries of the rows
  one to one.  `IInv` says what each kernel leaves for the next in terms of sets of
  edges: a counter is the number of edges counted so far, a prefix sum that of the
  group's edges below a kv block, an offset that of all edges before the slice
  (`Start`), a cursor `Start` plus the edges of the slice that have a slot.  For the
  last kernel nothing in the state says which slot a thread that is done had, so
  the invariant says that there is a function `slot` that does (`Scatters`): it is
  one to one, each slot is in its slice and below its cursor, the buffer holds at a
  written slot the q block of the thread it belongs to, and everything else is as
  allocated.  `SumIs` gives the loops' sums from their recursion, by a least
  counterexample, as induction cannot be used.
* `TypesHold` (`TypeOK`: every slot is inside the buffer), `NoLostEdge`
  (`SlotWrittenOnce`) and `InverseIndex` (`CsrInvertsQ2K`).  For the last,
  `SliceIsFull`: when all is done `slot` maps the edges of a slice one to one into
  as many slots, so onto them; counting them row by row gives the entries that name
  the kv block (`EdgesOfRow`).

`Sm100Blk64FwdControlProofs` and `Sm100Blk64FwdProofs`, from
`LaunchesAssumption` only, for every list of tiles, every
number of sparse blocks in each of them, FP8 or BF16, persistent or not, and
every number of warps.  All of its safety invariants are proved, and the refinement:

* `ControlHolds`: `Spec => []ControlInvariant`.  The properties say nothing of
  barriers, and a wait sees one parity bit of a counter that runs over tiles which
  may be empty.  So `Control` counts over the whole launch: `Steps(l, t)` steps of
  each stage belong to the tiles before t, and what a role has loaded, issued,
  read, announced, returned or stored is a number that its registers determine
  (`KvLoads`, `Issued`, `Stored`, `Signals`, `Lets`, `Meets`, `Returns`, `Waited`,
  `Reduced`).  The phase of a barrier is the count of the role that completes it
  (`Phases`; `AllOf` where several warps arrive), and each conjunct says how far one
  role may be ahead of another: a wait that passes then tells which of two
  neighbouring counts it is.  The tensor core lags behind the MMA warp by
  its queue, and no variable says where it is, so the invariant is existential: `st`
  are the points before, between and after the queued operations (`Queue`), each the
  next of the one program that `Step` defines, the last one what the MMA warp has
  issued; `st[1]` is where the tensor core is.
* `TmemExclusiveHolds`, `EpilogueOwnsRingHolds` and `NothingDanglingHolds` follow
  from it: an operation in the queue has a point after `st[1]`, so the roles it
  waited for are as far as that point says and those that touch its memory no
  further.
* `StatsHandedOverHolds`, `OperandsHeldHolds` and `ScalesMatchScoresHolds` add what
  the memory holds: a statistics slot what its softmax warp last left there
  (`StatData`); the K/V ring and Q the items between the slot the tensor core
  reads next and the last one loaded (`QData`, `KvData`); the K scales those of the
  QK issued last (`ScaleData`); an S/P stage scores or probabilities as the
  softmax warp has read and written them (`SpData`).
  `CorrectionDataHolds` is what `StatsHandedOver` is for: a correction warp never
  has a statistic of another step.
* `ContractImplemented`: `Spec => ImplementsContract`, the refinement of
  `TileOutputContract`, with no further assumption.  `OData` says what a warp's rows
  of O are, by how many PVs of a stage are done and how often the correction warp
  has let the MMA warp go on: the tile, the sum of the groups so far and the number
  of corrections.  `ExchangeData`, `OTileData` and `OutData` follow a tile from there:
  a warp that has come to the second meeting of the reduce barrier has left its half
  in `exch`, the O tile is whole when the last correction warp has left it, and global
  memory holds the tiles up to the one the epilogue warp is at.  They need
  `RingFree`: a copy to the ring, which would overwrite them in BF16, neither starts
  nor lands meanwhile.  `EpilogueStore` is then the `Store` of the contract
  and every other step leaves global memory alone.

The conjuncts of `Control` and the data invariants were checked with TLC first,
on launches like those of `sm100` with pairs, empty tiles, both formats and single
tiles, with the points of `st` computed back from the queue.

`Sm100Blk64BwdProofs`, from `LaunchesAssumption` only, for every list of Q blocks
and every number of compute warps, of reduce warps and of pieces of dQ:

* `Invariance`: `Spec => []Inv`, checked with TLC on the launches of `bwd` first.
  The properties say nothing of barriers, and a wait sees one parity bit, so `Inv`
  counts in pairs instead how far each role is, in loading, waiting and storing.
  It says how far one may be ahead of another (`LoadOrder`, `ComputeOrder`,
  `MmaOrder`, `ReduceOrder`), and that the phase of every barrier is the count of
  the role that completes it (`Phases`, `Pending`; `AllOf` where several warps
  arrive).  A wait that passes then tells which of two neighbouring counts it is.
  The MMA warp's operations are numbered as a program (`InProgram`): the queue is a
  piece of it, and tensor memory is what its executed part leaves
  (`TensorMemory`).  A CTA without Q blocks takes no step (`Idle`).
* `OperandsAreHeld` (`OperandsHeld`), `TmemIsHandedOver` (`TmemHandedOver`) and
  `FreedWithLastdQ` (`OnlyLastdQAfterFree`) follow from it: an operation that is
  queued has a number after those executed, so the roles it waited for are as far
  as that number says, and those that overwrite its operands are not further.
* `Implementation`: `Spec => ImplementsContract`, if a list of odd length comes
  with a `seqlen_q` that is a multiple of 64 (`PaddingOutside`); without it the
  finding `bwd_ragged` above shows that the statement is false.  `StoringInv` adds
  to `Inv` the way of dQ out: piece i of pair n + 1 is store number
  `n * Chunks + i`; the reduce warps meet twice for each store and none is past a
  meeting alone (`Meeting`); the stores under way are among the latest two, so a
  stage is refilled only when it has been read (`UnderWay`), and they are whole
  (`Pieces`); what is in dQ is what was stored and is not under way (`dQSoFar`).
  A store that is read is then an `AddQ` of the contract, an epilogue an `AddV` or
  `AddK`, and every other step changes nothing the contract sees.

Only model-checked: all liveness properties (`EveryTileStored`, `EveryCtaFinishes`,
`EveryGradientAdded`, `EveryCallReturns` and the like: fairness is outside TLAPS's
reach here); `OperandsHeld` of the other two backward kernels and of the other
forward kernels; and the refinement of `OutputContract`.

## 5. Not modelled

Numerical content (softmax, quantization, FP8 conversions), memory layouts and
descriptors, argument validation, profiling and logging.  The combine kernel
(`bsa_fwd_combine.py`): each thread waits for its own cp.async copies and merges
its own elements.  The policy that chooses a number of splits: what holds of the
boundaries holds for every number.  The varlen scheduler, which only the
element-wise pre- and postprocess kernels use.  In the blk64 backward kernel, nothing orders the
last dQ before the compute warps free tensor memory
(`bsa_bwd_sm100.py:929-936`); `OnlyLastdQAfterFree` says that nothing else can be
left, not that dQ is safe.  `sum_OdO` and `convert` are element-wise and ordered
by the stream.  Two more limits: `_phase_index` is an Int32 which no launch brings
near overflow, so it is a natural number; and an mbarrier is assumed to behave as
PTX says.

## 6. Plan

Written in this order because the rest relies on it: pipelines, the SM100 blk64
forward CTA, scheduling and splits, the CSR, the JIT cache, the AOT artifacts,
the SM100 blk64 backward CTA, the other forward kernels, the other backward
kernels.

What is left: the even split of the blk128 FP8 kernel and the combine kernel as one
composition with the workspace; proofs of `OperandsHeld` for the four forward
kernels and for the SM90 and blk128 backward kernels.
