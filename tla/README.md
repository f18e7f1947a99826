# Stream-CQSA in TLA+

A verification development for Stream-CQSA v2 (`src/stream_cqsa` and the CQS kernels in
`src/native/csrc/flash_attn`), exact attention for sequences that do not fit in device
memory.  The call is decomposed into subproblems by cyclic quorums; each subproblem is
gathered, attended with a group mask and merged into an online-softmax accumulator.  The
claim the whole program rests on is *exactness*: whatever the decomposition, the engine,
the number of streams, waves or ranks, and the out-of-memory failures met on the way,
every ordered token pair (query, key) contributes to the output exactly once, and so
does its gradient.

Paths below are relative to `src/`; `SS` is `stream_cqsa/stable_stream.py`, `REF` is
`stream_cqsa/reference.py`, `NW` is `stream_cqsa/native_wave.py`.

## 1. Inventory

| Component | State | Operations | Interacts with | Hard part | Correct when |
|---|---|---|---|---|---|
| Cyclic-quorum decomposition (`REF`) | local sequence, label history | `chunk_layout`, `quorum_chunks`, `build_path_state`, `group_bits_for_path`, keep mask, `segment_block_base` | task builder, kernels (block map, group bits) | remainders, empty chunks, reindexed labels, gather order | the children of a subproblem partition its pairs; the block map addresses every row |
| Task builder, hybrid schedule (`SS` 295-551) | task list, task cache | `build_tasks`, `refine_task`, `max_depth_for`, `check_quorum_set` | all engines | refining one subproblem in the middle of a run | every mixture of depths covers each pair once |
| Forward engine (`SS` 1155-1883) | pending queue, streams, pinned slots, `slot_done`, `slot_merge`, accumulator, retry counters | issue, gather, launch, merge, recover, join | device streams, merge worker, chunk pool, accumulator | four kinds of actors, buffer reuse, failures in any of them | nothing lost or merged twice, buffers owned, bounded in flight, always ends |
| Device chunk pool (`SS` 850-966) | `slot_of`, `refcount`, `last_event`, `free`, rows on the device | `acquire`, `_evict_one`, `release`, `block_base` | forward engine, streams | references dropped at enqueue, copies on other streams | a kernel reads its own tokens; the pool suffices |
| Accumulator arithmetic (`SS` 162-292) | `acc`, `l`, `m`, `dirty` | `merge_lse`, `_merge`, `finish` | engines | rows with no key, partial commit | order independence |
| Backward engine (`SS` 1999-2590) | gradient accumulators, slots, scatter futures | gather, backward kernel, flush, scatter, escalate | streams, scatter worker | whole-call escalation, three additive commits | every pair's gradient added once |
| Native wave runner (`NW`) | wave plan, chunk pool, two pinned staging buffers, accumulators | `plan_waves`, `build_wave_tables`, `ChunkPool.load`, wave forward, merge, fold, wave backward | CUDA extension, API | packed layouts, residence across waves, reuse of staging buffers | as the forward engine |
| CUDA kernels (`flash_fwd_kernel.h`, `flash_bwd_kernel.h`, `mask.h`) | shared-memory tiles, copies in flight, registers | tile verdicts, masking loop, live loop, epilogues, atomic adds | engines, waves (block map, summaries) | copies that land at any time, skipped tiles, ragged tails, staging over live tiles | each row sums its kept keys once, no stale operand |
| Multi-device engine (`distributed.py`) | shard per rank, partial output and lse | `_shard`, engine, cross-rank merge | engines (`task_subset`), collectives | refinement on one rank only, sharded output, number of collectives | the ranks' results add up, and all return |
| Drop-in API (`api.py`) | evicted tensors, patched SDPA | `attention`, evict/restore, deliver, `patch_sdpa` | caller, planner, engines | many exits, fallbacks after an eviction, nesting | inputs accounted for, gradients connected, patch balanced |
| Parallelism and depth planner (`SS` 554-623, `autoconfig.py`, `memory_fitting.py`) | calibration file | `choose_parallelism`, `plan_decomposition` | engines, API | stale calibration | the planned working set fits |
| Fallback ladders (`oom_fallback.py`) | attempts | `attention_oom_safe`, `stream_cqsa_auto` | engines | a rung failing otherwise | every rung tried once, in order |
| Autograd wrappers (`native_autograd.py`, `autograd_op.py`) | saved output, lse | forward, backward | engines | depth used by the backward | gradients of what was computed |
| v1 engines, Triton kernel, tracing, benchmarks | - | - | - | superseded, compiler-scheduled or reporting | - |
| CUTLASS (`csrc/cutlass`) | - | - | kernels | vendored, about 700,000 lines | - |

How they interact: `attention` plans the call, places or evicts the inputs and picks an
engine.  The stream engine issues one subproblem at a time to CUDA streams (FIFO queues
the host never waits on except through events) and, with the accumulator in host memory,
hands merges to one worker thread through futures; its recovery from an out-of-memory
failure is an `except` clause that has to bring all of these to rest before it changes
the queue.  The wave engine issues many subproblems in one launch to one stream.  Both
launch the same kernels, told by a block map where the rows of a subproblem lie.  With
several devices every rank runs an engine on its share and the partial results are
merged by collectives. `PROJECT.json` lists each hazard at the line where it bites.

## 2. Modules

| Module | Models | Notes |
|---|---|---|
| `Decomposition` | `REF`, `check_quorum_set`, `refine_task`, `max_depth_for` | pure operators; a subproblem is its path, its token *set* and the groups of each token; no recursion, so theorems can be stated about it |
| `PathState` | `build_path_state` and its readers, as the walk over *sequences* they are | both gather orders, alignment, labels reindexed; ties the set-based operators to the code |
| `HybridCover` | what a forward call promises | the abstract specification: `Deepen`, `Refine`, `Merge` |
| `TaskTree` | `build_tasks`, `refine_task` by path | task lists in the order the code makes them; tabulated for TLC |
| `StreamForward` | `stream_cqsa_forward` | host thread, caller's stream, streams, merge stream, merge worker, failures and recovery; implements `HybridCover` |
| `ChunkPool` | `DeviceChunkPool` with the loop and the recovery around it | `shared_chunks=True` |
| `BackwardCall` | arguments and end of `stream_cqsa_backward` | shared by the two paths |
| `BackwardDevice` | its loop over device inputs | sequential; three additions per subproblem |
| `BackwardHost` | `_stream_cqsa_backward_host` and the escalation around it | host thread, caller's stream, streams, scatter workers; restart of the whole call |
| `Backward` | both, chosen as the code chooses | one specification, one termination property |
| `TileMask` | `cqs_block_summaries` and the verdicts of `mask.h` | pure operators |
| `KernelCall` | what a launch works on; tiles in shared memory | parameters of both kernels |
| `ForwardKernel` | `compute_attn_1rowblock` | two warps, `cp.async`, barriers, masking loop and live loop |
| `BackwardKernel` | `compute_dq_dk_dv_1colblock` and its loop over column blocks | two warps, double buffer, P and dS through shared memory, staged epilogue |
| `KernelPair` | forward, lse merge, backward of one subproblem | INSTANCEs the two kernels |
| `WaveTables` | `plan_waves`, `build_wave_tables`, the block maps | pure operators over `TaskTree` |
| `NativeWave` | `wave_forward`, `ChunkPool.load`, the merges, `wave_backward` | host against one stream |
| `Distributed` | `dist_stream_cqsa_forward`, `dist_stream_cqsa_backward` | EXTENDS `HybridCover`: an engine is that promise |
| `FrontEnd` | `attention`, `patch_sdpa`, `patched_sdpa` | an engine is one step that returns, runs out of memory or raises |
| `DecompositionProofs` | a theorem about the decomposition; lemmas about paths, task lists and hybrid schedules | checked by TLAPS (section 5), like the next two rows |
| `SubproblemProofs` | theorems about `PathState` and `KernelPair`: one subproblem, its tokens and groups, the tiles they mask, and what both kernels sum | |
| `StreamForwardProofs`, `ChunkPoolProofs`, `BackwardProofs`, `NativeWaveProofs`, `DistributedProofs`, `FrontEndProofs` | theorems about the component each is named after; `DistributedProofs` also those about `HybridCover`, which `Distributed` extends | |
| `MC*` | constants for TLC | |

The layers meet in what each assumes of the one below: `FrontEnd` and `Distributed` use
an engine as its promise, `StreamForward` is proved to keep that promise, the engines
use a kernel as the sum over the pairs a subproblem keeps, and `KernelPair` checks that
of the kernels.

Some definitions are preceded by a *fault*, a plausible wrong version of the definition
that follows (an event not waited for, a verdict with AND and OR confused, ...).  Faults
are used by no specification: they are substituted one at a time to see that a property
notices.  `PROJECT.json` pairs each property with its fault.

### State and actions against the code

*Decomposition.*  The engines call with `sorted_gather=True`, which makes the local
order the global order; a subproblem is then determined by the set of its tokens, a
local position is `Rank`, and `Label` is the chunk of that position in `chunk_layout` of
the local length.  `Child` is one more iteration of `build_path_state` followed by
`group_bits_for_path`: group numbers (`level * l + index`) become pairs `<<level,
chunk>>`.  `Kept` is `bits[row] & bits[col] == 0`.  `PathState` keeps the sequences
instead: `Descend` is the body of `for owner in path`, `Reindex` the fancy indexing of
the label history, `BlockBase` the map of `segment_block_base`.

*StreamForward.*  `pc` is the position of the host thread: `build`, `loop`, `slot`
(`slot_done[slot].synchronize()`), `gather`, `launch`, `d2h`, `merge`, `except`, `sync`
(`torch.cuda.synchronize`), `drain` (collecting `slot_merge`), `join`, `end`.  A stream
is a queue of operations; an event recorded for a subproblem has fired when none of its
operations is left in the queue (`WorkDone`, `MergeDone`); `caller` is the work the
caller's stream still has when the call is made, which a new stream waits for
(`EntryWait`).  Buffers contain the *name of the subproblem* whose rows they hold
(`pinned`, `dev`, `out`, `result`), so that reuse that comes too early makes a merge
count the wrong subproblem.  A merge on the device is two steps (`MergeRead`,
`MergeCommit`), since it is a read-modify-write of `acc`/`l`/`m`.  The three accumulator
placements are chosen in `Init`: `gpu` (merge stream), `worker` (`_FWD_MERGE_ASYNC`),
`inline` (host thread).  A failure may hit the gather, the kernel, the merge on the host
thread and the merge job; it is either an out-of-memory error or any other, and a failed
merge leaves `dirty` set or not.  `HandleOom`, `Synchronize`, `DrainMerge`,
`HalveStreams`, `RefineTask` and `GiveUp` are the statements of the `except` clause in
their order; the retry budget is tested in `Resume`.

*ChunkPool.*  `Hit`, `MissFree`, `MissEvict` and `Exhausted` are one iteration of the
loop of `acquire`; `slot_of` is kept in insertion order because `_evict_one` scans the
dict in that order; `MergeAndRelease` contains `release`, which drops references when
the work is *enqueued*; an out-of-memory failure leaves the references of the failed
subproblem behind, as the code does.

*Backward.*  `host_resident` is the branch `stream_from_host and not q.is_cuda`. In
`BackwardHost` one attempt is the body of `_stream_cqsa_backward_host`: `Flush` is
`flush` (wait for the slot's event, then scatter or submit the scatter), `ReuseSlot` the
`result()` before a slot is refilled, `Gather` and `Output` the statements on the slot's
stream, `DrainSlot` and `CollectScatter` the two loops at the end.  `Escalate` is the
handler around it.  Whatever the function allocates is indexed by the depth of the
attempt (`stage_out`, `added`, `jobs`), because nothing shuts the worker of a failed
attempt down: its jobs may still run while the next attempt does.  `shard` is
`task_subset`.  Additions on the device (`index_add_`) are single steps since that
kernel adds atomically.  In `BackwardDevice`, `AddDq`, `AddDk`, `AddDv` are the three
`index_add_` calls of `_run_bwd_task`, `AddFails` a failure of one of them, `DirtyAfter`
the handler around the last two.

*Kernels.*  A CTA is two warps that run freely between barriers.  A `cp.async` is issued
into `inflight` and lands (`Land`) at any later time before the wait of the warp that
issued it; `Sync` is a `__syncthreads` with those waits.  A tile in shared memory is two
parts, one per copying warp, each naming the first row it holds and how many rows were
copied; rows beyond are zero if the copy cleared them and *junk* if it did not, so a
mask that lets a junk row through shows.  Registers hold bags of the (query, key, value)
rows that were multiplied.  `NextLive` is the search for the next unmasked tile in the
live loop, `TileMasked` and `Active` the verdicts, `MaskSteps` is `n_masking_steps`,
`ActiveIn` the per-warp verdict of the backward.  CTAs of a launch share nothing but
atomic adds, so they run one after the other; in deterministic mode one CTA walks
several column blocks in the same shared memory, which is modelled.  `KernelPair!Merge`
is the lse merge between the two launches, reduced to whether a token has a finite
global lse.

*NativeWave.*  The host builds the waves (`Plan`), loads the chunks a wave lacks
(`BeginLoad`, one `CopyChunk` per tensor through the two staging buffers), launches
(`Launch`), folds into host accumulators or not (`Fold`), and ends a batch element
(`Output`); the stream executes what was enqueued, in order.  An operand is the row a
kernel finds at the address it computes from the block map (`KernelRow`, with
`SequenceOffset` for the packed layouts), so a wrong map, slot or residence produces a
term of the wrong row.

*Distributed.*  `Shard` is `_shard`, `PathIdx` the index `task_subset` filters by,
`RankMerge` and `RankRefine` a step of the rank's engine, `AllReduce` one round of
collectives over `chunk_tokens` rows of one buffer: the three of the forward (maximum,
weighted rows, weights), or the sum of one gradient, which replaces the rank's own
partial.  A partial result is the number of times the rank attended each pair; the lse
weights make the merge of ranks their sum.

*FrontEnd.*  A tensor is where its storage is.  `Begin` to `Leave` follow `attention`
and `_run` statement by statement: `Reject`/`Accept`, `EvictOne` per tensor and
`Evicted` for the record made at the end, `Plan`, the monolithic call and its fallback,
`Place` with the five ways inputs on the device are dealt with, `WaveReturns`,
`WaveOom`, `ClassicReturns`, `Deliver`, the `finally` and the restoration tensor by
tensor.  What fits and what the planner answers are left open.  `Settings` applies what
the caller pins over the placement chosen: nothing, settings that may move the
accumulator, or `stream_from_host` too.  `operand` is what the local names denote: where
it is, whether the caller's graph reaches it and where its gradient goes.

## 3. Runs

| Run | Question | Bounds | Result |
|---|---|---|---|
| `path_state` | are coverage, block map and causal order right, and do the set-based operators agree with the walk? | c=3 in blocks of 2, N=0..13, paths up to 3; default c=7 (0,1,3) and its translate (1,2,4), N=5..16, paths up to 2; both gather orders | pass |
| `forward` | does the engine implement `HybridCover`, keep its buffers, and always end? | c=3, N=9, two streams, every accumulator and input placement, up to 4 out-of-memory failures, any other failure | pass |
| `chunk_pool` | does eviction respect running kernels, does the pool suffice? | c=7, N=49, 1, 2 or 4 streams, 3, 6 or 7 slots, 4 failures | pass |
| `backward` | is anything half added retried, are slots and accumulators safe across scatters, restarts and shards, does the call always end? | c=3, N=10, both paths, 1 or 2 streams, all 7 shards, failures unbounded | pass |
| `kernel_pair` | do the kernels compute exactly the kept pairs, whatever order copies land in? | 27 launches: summary blocks of 2 tokens, tiles of 2 and 4, up to 12 tokens | pass |
| `native_wave` | do waves, pool and packed layouts give the exact rows and gradients? | c=3, N=7, blocks of 2, depths 1 and 2, waves of one, two or all subproblems, pools of 2 or 3 slots, 1 or 2 batch elements | pass |
| `distributed` | do the ranks' shards add up, replicated and sharded, and do all ranks return? | c=3, N=10, blocks of 4, 2 and 4 ranks, forward and backward, every choice of refinements, one rank may raise, 4 rows per collective | pass |
| `front_end` | are inputs accounted for, gradients connected, operands where the engine looks, the patch balanced? | one call with every combination of options, inputs anywhere, one object passed twice; two nested contexts | pass |
| `chunk_pool_refined` | `shared_chunks` and refinement | c=3, N=9, one stream, one failure | violation |
| `chunk_pool_hit` | a pool hit while the copy is in flight | c=7, N=14, two streams, no failure | violation |
| `wave_batch` | a chunk pool across batch elements | c=3, N=7, two elements on the host, depth 1 | violation |
| `wave_fold` | host accumulators and rows without a key | c=3, N=7, depth 2, one subproblem per wave | violation |

**Why the bounds are enough.**  c=3 with offsets {0,1} is the smallest perfect
difference set with more than one offset: every quorum overlaps every other, a chunk is
gathered by two subproblems, and masking is needed from level one.  N values are taken
below, at and above multiples of c (and of c times the alignment), so that chunks are
uneven or empty.  With N=9 or 10 a subproblem can be refined exactly once more, so a run
meets halving, refinement and the final refusal at the deepest level.  Three subproblems
on two streams make slots wrap around; four streams halved twice occur in `chunk_pool`.
Pools of 3 (one quorum), 6 (two quorums) and 7 slots evict at every miss, sometimes and
never.  `OomBound` bounds the number of injected out-of-memory failures: in `forward` it
allows a halving and the refinement of all three subproblems.  The backward needs no
such bound: every recovery goes one level deeper.

A kernel tile of 64 or 128 tokens is 2 or 4, a summary block 2: tiles of one block and
of two, longer and shorter than they are wide, even and ragged sequences, and up to six
column tiles, so that the masking loop is followed by a live loop that skips, prefetches
and returns to a buffer in use.  Two warps are enough for every order of two accesses to
a part of a tile.  The wave calls give every layout (padded, packed, gathered, in
place), a ragged last block, empty chunks two levels down, and waves that find some, all
or none of their chunks resident.  Four ranks are one more than there are tasks; ten
rows in blocks of four straddle the shards of two and of four ranks.  One call in
`front_end` suffices because a call leaves nothing behind but where the inputs are and
the patch, and both start in every state they can be in; `MaxNested` of two lets an
inner context find the patch an outer one put in place.

Deadlock is checked in `chunk_pool`, `backward`, `kernel_pair`, `native_wave` and
`front_end` (where a call ends there is an explicit step that stays there). `PathState`
stops at its bound and `StreamForward` when the call has ended, where `Terminates` says
what deadlock freedom would.  In `Distributed` ranks really wait forever once another
one raised (`RaiseBound` allows one): no timeout is in the code, and `JointlyDone` is
about runs without it.

`PathState`, `KernelPair` and `NativeWave` define a type invariant `TypeOK` that no run
lists; what it says of a state follows there from the stronger properties.
`MCDistributedShort.cfg` is a configuration beside the listed ones (section 4).

**Fairness.**  `Terminates` and `JointlyDone` assume weak fairness of the host thread,
the caller's stream, each stream, each worker thread, and of the ranks together with the
collectives all of them have entered (`Progress`: a call takes finitely many steps, so
it does not matter which rank goes first): CUDA executes what was enqueued, the
operating system schedules the threads, the collective library completes.  Failures
(`ComputeFails`, `MergeFails`, `WorkerFails`, `IssueFails`, `ScatterFails`,
`RankRaises`) carry no fairness: they may happen, and are never needed.  The choice
between merging and refining in `Distributed` is not constrained: a task is refined at
most down to the deepest level.

**Main properties.**  `HeldOnce`: on every finest path of the decomposition exactly one
subproblem is owed or was merged once, through all halvings, refinements and failures.
`ImplementsCover`: each step of the engine is a step of `HybridCover` or a stutter, with
"pending" the subproblems still owed and "attended" what was merged.  `CoverSteps`: the
same of the backward on the device, whose queue is refined in the same way.
`ReturnedExact`: a call that returns owes nothing and no merge was half applied; in
`Backward` about the token pairs of the shard, so that ranks that escalated and ranks
that did not add up to the whole gradient. `StagingOwned`, `OutputOwned`: pinned buffers
are not reused early. `BoundedInFlight`: the memory bound.  `QuiescentRecovery`: the
queue is changed only when nothing runs.  `KeepsItsChunks`, `NoPendingOverwrite`,
`PoolSuffices`, `ReadsItsTokens`: the pool.  `GradientsOwned`, `OwedOrAdded`: a scatter
finds its own gradients, and a restarted call starts from nothing.  `QueuedIsClean`:
what waits in the queue was not added in part.  `VerdictsSound`: a skipped tile keeps no
pair, an unmasked one masks none, and the fast path equals the general one.
`RowsExact`, `GradientsExact`: what the kernels and the waves sum is exactly the kept
pairs, of the right rows, with no NaN and no stale operand.  `NeverAsserts`: the pool's
assertions. `RanksExact`: every row a rank promises, and each row of a sharded output on
one rank.  `InputsAccounted`, `GradConnected`, `OperandsPlaced`, `Routing`: the API.

## 4. What the violations show

* `chunk_pool_refined`.  With `shared_chunks` the chunks of a task come from
  `task.path[0]`, also for a task refined to depth two: its kernel reads the first rows
  of the parent's chunks.
* `chunk_pool_hit`.  The copy of a chunk is asynchronous on the stream of the subproblem
  that missed; a second subproblem on another stream that hits the chunk is ordered
  behind nothing.
* `wave_batch`.  The chunk pool of the wave engine names what is resident by chunk id
  only and keeps it from one batch element to the next: with inputs on the host and two
  elements the second is computed on chunks of the first.
* `wave_fold`.  With host accumulators, a wave that touches a token before any of its
  keys was attended and gives it no key folds it with the weight exp(-inf + inf): the
  row stays NaN.  The comment at `NW`:357 excludes the case; two levels and one
  subproblem per wave suffice for it.

Noted while modelling, each without a run of its own:

* `check_quorum_set` tests differences only, so a translate such as (1,2,4) for c=7 is
  accepted; its owner is not in its own quorum and the diagonal blocks are attended by
  no subproblem.  `ChildrenCoverOnce` states what is lost, no more and no less, and
  `path_state` has the translate among its calls.  Every entry of `QUORUM_SETS` contains
  0; the proofs above the walk have this as `OwnerAssumption`.
* The retry budget `64 + 16 * tasks * depth` (`SS` 1740) is below one failure per
  refinable subproblem from depth six at c=3 (N >= 729) and depth five at c=7.
* `PoolSuffices` fails with escalation allowed or with fewer slots than the default,
  because references of failed subproblems are never returned (the code then stops with
  "chunk pool exhausted", not with a wrong result).
* `SS` 2467 passes `interest_set` to a cached function as it came: a list, accepted
  everywhere else, is not hashable there.  The model passes a tuple.
* A caller with host tensors, or a forced eviction, and a plan that keeps the inputs on
  the device reaches `stream_cqsa_forward` with `stream_from_host=False` and CPU tensors
  (`api.py` 372, 459-477): the pure PyTorch path runs.
* Moving host inputs to the device for the monolithic kernel (`api.py` 353) is outside
  the `try` that falls back to decomposition.
* Of an object passed twice, the second `_ToHost` copy is made of a tensor already on
  the host, and its gradient goes there (`api.py` 217); `GradConnected` exempts it.
* `wave_backward` returns device gradients for host operands (`NW` 616, 640).
* A forced eviction that fails half-way, and planning that fails after one, leave inputs
  on the host (`api.py` 223, 307-312); `InputsAccounted` names these exits.
* The inner exit of two nested `patched_sdpa` contexts does not restore the outer one's
  `min_tokens`.
* With fewer tokens than the depth asks for, empty subproblems are skipped when the list
  is built, so positions in it (`_shard`) and `path_idx` (`task_subset`) part.
  `Distributed` is run with a depth the length admits, and `FullList` is the hypothesis
  of its theorem.  `tlc -config MCDistributedShort.cfg MCDistributed` shows three tokens
  in the default decomposition: six subproblems of seven are not empty, no rank takes
  the one numbered six, and the two pairs it keeps are lost (`RanksExact` is violated).
* With more ranks than tasks a rank's shard is empty.  If its streamed backward then
  runs out of memory while allocating, the escalation (`SS` 2479) asks for the first of
  no paths and raises `StopIteration` in place of going deeper; `BackwardCall` starts
  from shards that are not empty.

## 5. Proofs

Checked by TLAPS for every value of the constants.  The assumptions are those the
modules state; TLC evaluates each of them in the runs.

| Assumption | Says |
|---|---|
| `DecompositionAssumption` | c > 0, a positive alignment, offsets that are a perfect difference set in the sense of `check_quorum_set` |
| `OwnerAssumption` | 0 is an offset, as in every entry of `QUORUM_SETS` (section 4) |
| `ItrAssumption` | the initial depth is at least one |
| `ForwardAssumption`, `PoolAssumption`, `BackwardAssumption`, `BackwardCallAssumption` | at least one stream, at least one slot, finitely many choices of the number of streams; `None` is not a subproblem; `Itr = 1` for the chunk pool, as the code requires of `shared_chunks` |
| `CallsAssumption`, `SegAlignAssumption`, `TileMaskAssumption` | a launch as the wrappers make it: lengths and tile sizes positive, padding to whole blocks, an even number of columns in a backward tile (two warps share them), a block of the block map is whole blocks of the summaries (128 and 64 tokens); a tile side divides a block of the map and one side of a tile the other (the launchers' tiles are 128x128, 128x64, 64x64, 128x32, 64x128 and 64x32), causal launches are padded (`uniform`) and others packed (`varlen`), and two tokens of a launch have different rows (`BlockMapExact` is where that comes from) |
| `FrontEndAssumption` | a call passes three tensors; bounds are numbers |
| `DistributedAssumption` | a finite set of world sizes, each at least one; at least one row per collective |
| `PathAssumption` | a task builder is given offsets of its chunks, a positive number of chunks and a positive alignment |
| `WaveAssumption` | a wave call has at least one batch element, depths that `build_tasks` admits, and as many slots as a quorum has chunks at least |

Nothing bounds the streams, tasks, ranks, chunks, tiles, failures or depths, and
`OomBound` and `RaiseBound` are any number.

| Module | Theorem | States |
|---|---|---|
| `DecompositionProofs` | `ChildrenPartition` | the kept pairs of the children of a well-formed subproblem partition its kept pairs |
| `SubproblemProofs` | `ChildrenCover` | `ChildrenCoverOnce`: for every quorum set the check accepts |
| | `CausalOrder`, `BlocksAddressed` | `LocalCausalIsGlobal`, `BlockMapExact` |
| | `WalkMatches` | `MatchesDecomposition`: the operators of all other proofs are what the walk computes |
| | `VerdictsAreSound` | `VerdictsSound`: for every launch, in both kernels |
| | `RowsAreExact` | `RowsExact`: for every launch of the forward kernel |
| | `GradientsAreExact` | `GradientsExact`: for every launch of the backward kernel behind it |
| `StreamForwardProofs` | `TypeCorrect`, `StagingSafe`, `OutputSafe`, `BackpressureSafe`, `RecoveryQuiescent` | `TypeOK`, `StagingOwned`, `OutputOwned`, `BoundedInFlight`, `QuiescentRecovery` |
| | `NothingLostOrDoubled`, `ReturnsExact` | `HeldOnce`, `ReturnedExact` |
| | `Implements` | `ImplementsCover`: the engine implements `HybridCover` |
| | `PairsExactlyOnce`, `AttentionExact` | `ExactlyOnce` in every state of the engine; a call that returns attended every ordered pair exactly once |
| `ChunkPoolProofs` | `TypeCorrect`, `ChunksKept`, `NothingOverwritten`, `PoolIsEnough` | `TypeOK`, `KeepsItsChunks`, `NoPendingOverwrite`, `PoolSuffices` |
| `BackwardProofs` | `TypeCorrect`, `RecoverySound`, `StagingSafe`, `ScatterSafe`, `NothingLostOrDoubled`, `ReturnsExact` | `TypeOK`, `QueuedIsClean`, `StagingOwned`, `GradientsOwned`, `OwedOrAdded`, `ReturnedExact` |
| | `Implements` | `CoverSteps`: the device path follows the abstract schedule |
| `NativeWaveProofs` | `TypeCorrect`, `StagingSafe`, `AssertsHold` | `TypeOK`, `StagingOwned`, `NeverAsserts` |
| | `ReturnsExact` | `ReturnedExact`, for the calls outside the two defects of section 4 |
| | `GradientsSum` | `GradientsExact` |
| `DistributedProofs` | `TypeCorrect`, `CoverCorrect`, `ReturnExact` | every hybrid schedule is exact: `TypeOK`, `ExactlyOnce`, and at the end each pair once |
| | `RanksCorrect`, `RanksCorrectAtDepth` | `RanksExact`, when no subproblem of the initial depth is empty; when the length admits that depth |
| `FrontEndProofs` | `InputsAccountedFor`, `GradientsConnected`, `OperandsWherePlanned`, `RoutedWithinContexts` | `InputsAccounted`, `GradConnected`, `OperandsPlaced`, `Routing` |

Every inductive invariant below was checked by TLC on the bounds of its component's run
before it was proved.

**Decomposition and hybrid schedules.**  `chunk_layout` gives every local position
exactly one chunk (`ChunkAtType`, `LabelType`); two different chunks meet in the quorum
of exactly one owner (`QuorumPair`, from the difference set); a chunk is unmasked
against itself only below its own owner (`OneOwner`, from `OwnerGathered`); and
`ChildKept` describes the pairs a child keeps.  `ExactlyOnce` alone says nothing of the
pairs while levels are being built, so the inductive invariant `CoverInv` adds that
nothing is attended before the level is reached; `RefineKeepers` and `DeepenKeepers`
carry "one keeper" over a replacement.

**The walk** (`SubproblemProofs`).  The inductive invariant `WalkInv` says of the local
sequence that every token is in it once and, under `sorted_gather`, in order and in
blocks (`Blocks0`: a row that starts no block follows the row before it); of the labels
that there is one per level and row; and that tokens and groups are those of the
set-based `Child`.  `LabelsAre`, `GatherIs` and `RankIs` read the code's list operations
as sets: a segment holds the positions of its chunk (`SegmentIs`, from a chunk layout
whose chunks are apart, `ChunksApart`), a gather holds each position of the quorum's
chunks once and in order, and a place in an ordered list is a rank.  Chunk boundaries
are block boundaries (`CutIs`, `SameBlock`), so the gather moves whole blocks to the
start of a block (`BlocksMove`).  For coverage `BelowIs` describes the pairs an owner
keeps and `OwnerIs` finds, from the multiset test of `check_quorum_set`, the one owner
of two chunks; a chunk paired with itself is kept by its own owner only, which gathers it
iff 0 is an offset (section 4).

**Task lists** (also in `DecompositionProofs`).  The subproblem of a path, its ancestors
and the lists of `build_tasks` are recursive functions.  Such a function is a `CHOOSE`,
so each is first shown to exist up to the depth it is needed to (`TasksExist`,
`TaskListsExist`, `LevelsExist`), by induction in the form of a set of numbers that
holds 0 and successors (`Induction`); the library's induction theorems, which take an
operator, cannot be used.  `KidsIs` and `TasksAre` are the two facts everything else
cites: `refine_task` and one level of `build_tasks` give the non-empty children, each
once.

**Forward engine.**  The inductive invariant has nine parts.  `LaneInv` says what a
stream can still have in its queue: a suffix of load, kernel, copy, for the one
subproblem that owns the stream.  `DataInv` says that the owner's rows are where the
next operation reads them, `MergeInv` that the merge stream holds whole merges in order,
each guarded by its slot, `JobInv` that every merge job is the one its slot waits for
and that its rows are in the slot's output or on their way.  With these the buffer
properties follow.  `CustodyInv` says that a subproblem is queued, in the host's hands,
or handed to a merge, and in one of the three only; `CoverInv` that what is held forms a
cover: none descends from another and every leaf descends from one.  `HeldOnce` is not
inductive without them, because a failed merge is found only when its future is
collected.  For the refinement, `BuildMaps`, `RefineMaps` and `MergeMaps` map three
kinds of step to `Deepen`, `Refine` and `Merge` (`AccStep`: every step adds one held
subproblem that was not merged, or none), and every other step stutters.  `CoverCorrect`
is then instantiated on the mapped state, which gives `PairsExactlyOnce` and, with
`ReturnsExact`, `AttentionExact`: the claim of the program from the assumptions on the
quorum set alone.

**Chunk pool.**  The host forgets a reference when it *enqueues* the kernel, so the
dict, the counts and the queues have to be related: `Placed` says that the chunks of
every operation not yet done are resident in the slots it addresses, `EventInv` that a
chunk's event is the last merge that needs it, `ContentInv` that a resident chunk's rows
are in its slot or on their way, `DictInv` that dict and free list share the slots out.
`PoolIsEnough` needs a count on top (`LeakInv`): each halving loses the references of
one subproblem, a quorum's worth at most, and takes at least one stream with as many
slots out of use.

**Backward.**  The two paths share `CallInv`.  `DeviceInv` describes the subproblem in
hand, between the three additions (`CurInv`), and the queue together with what was added
as a set in which none descends from another and every leaf of the shard descends from
one (`OpenInv`).  `HostInv` follows futures, jobs and slots of an
attempt (`LaneInv`, `JobInv`, `FutureInv`), says that nothing of a depth not yet
attempted exists (`FreshInv`) and that what an attempt added is what its collected
scatters were (`AddedInv`): that is why the worker of an abandoned attempt, which is
never shut down, cannot disturb the next one.  `ReturnsExact` counts pairs: whichever
cover of the shard the call ended with keeps each pair of the shard once.

**Kernels.**  No step changes what was launched (`SameCall`), so `VerdictsSound` is a
fact about tiles.  A range's blocks contain the block of each of its tokens (`InBlocks`,
also where the tables are padded, since padding ends with a whole block, `WholeBlocks`);
the OR over the blocks then contains the groups of each token and the AND is contained
in them (`RangesAre`), which is the direction each verdict needs, whatever else the
blocks hold.  `FastIsGeneral` shows that the two blocks the forward's fast path reads
are those of the range.  In the backward a warp tests the half of the tile it scores
(`SpanIs`).

**The forward kernel.**  The inductive invariant `FwdInv` says that the warps of a CTA
are never a barrier apart (`Lockstep`): all before the first one (`Starting`), all
between the barrier behind K and the one behind V of the same tile (`Scoring`), or all
past that one, with the next K on its way (`Folding`).  In each stage a slot that
somebody may still read is not copied into, every copy issued and not in flight has
landed (`Coming`), and a row holds the sum over the kept keys of the tiles behind the
one it is at (`Folded`).  One action is then one lemma (`LandStep`, `SyncStep`, ...):
only the warp that moves has to be looked at (`OneWarp`).  `ScoresAre` and `FoldIs` read
the tiles: a row of sQ, sK or sV is the row of its token because a tile lies in one
block of the map (`InOneBlock`), the mask leaves just the kept keys (`KeptIs`, where
`BelowDiagonal` is why the live loop needs no causal or length mask, and the verdicts
are those of `ForwardSound`), and a tile that the search passes over has none
(`SearchIs`).  `FirstIs` says that nothing is kept behind the first tile.

**The backward kernel.**  `BwdInv` has the same form.  At column block nb and row block m
the warps are in one of seven stages (`InStep`): loading K, V and the last row block;
computing P and dS into shared memory; summing dV; then dQ and dK, while the next dO
arrives; refilling Q where there is one buffer; staging dK and dV, which share the memory
of K and V; storing them.  Each stage names the copies that may be in flight (`Issued`),
which go to slots that nobody reads until the next barrier, and says what is summed: a
query has the keys of the column blocks behind (and of nb, once its row block was
visited, `QueriesSummed`), a key the queries of the row blocks visited (`KeysSummed`,
`ValuesSummed`).  A warp reads the columns of P and dS that the other one wrote: why
`Shared` speaks of both.  What a multiplication adds is the tile's share of the kept
pairs and no more (`ScoreKept`, the element test; `VerdictsSound` for tiles skipped or
not tested), and the rows a causal column block does not visit have nothing to add.
After the last column block nothing is missing (`GradientsDone`).  `KernelInv` joins
`FwdInv` to it: the backward may trust the lse of a token that keeps a key to be finite
because the forward stored it so (`MergeGivesLse`, from `RowsRight`).

**Waves.**  `PoolInv` is about the host and the pool: the waves deal out the task list,
each task in one of them (`PlanDeals`, an induction over the list; `WavesAre`), a wave's
chunks fit the slots (`LoadSlots`), a staging buffer has at most one copy in the queue
and its event guards it (`StagingStays`).  `StagingOwned` and `NeverAsserts` follow. For
the results `SimInv` says where the stream is in the call (`Pos`) and that what is still
in its queue leads from there to where the host is (`Linked`, step by step `Runs`): the
accumulators then are those of a position, whatever the queue holds.  After w waves a
token's sum is over the keys of the first w waves (`KeysTo`), which waves share out
(`KeysAre`).  That each term is of the right rows follows the address a kernel computes
from a row of the padded or packed launch to the pool row of its token (`OperandIs`,
from `BlockOf`: an aligned gather keeps blocks together); the gradients need that the
packed softmax sums are read where they were written (`DpsumIs`). `Sound`, the
hypothesis of `ReturnsExact`, excludes the two defects that `wave_batch` and `wave_fold`
show and no other call: host inputs with a second batch element, and host accumulators
with a wave that meets a token before its first key.

**Ranks.**  The rank's engines together are one hybrid schedule (`Projects`), so
`TypeOK` and `CoverCorrect` hold of them.  On top: no subproblem's path is shorter than
the levels built (`PathInv`), so that its first `Itr` owners name the rank it belongs
to; a rank past its engine owes nothing (`ReadyInv`); a pair that was attended was
counted by exactly one rank (`PartInv`); all ranks are in the same round of collectives
(`RoundInv`); and rows whose round is past are complete while the others are still the
rank's partial (`ResultInv`).  `RanksCorrect` assumes that no
task of the initial depth is empty (`FullList`), because `_shard` takes positions in the
task list and `task_subset` takes path indices (section 4); `DepthFillsList` derives it
from `Itr <= MaxDepth`, which `max_depth_for` guarantees: a child gathers the whole
chunk of its owner.

**API.**  `GradInv`, `PlaceInv`, `MoveInv` and `AccountInv` give, per control point of
`attention`, where the operands and the inputs are, and `PatchInv` reads the patch and
the length threshold off the stack of open contexts.

**Only model-checked.**

* Liveness (`Terminates`, `JointlyDone`) and whatever needs `ENABLED`: out of this
  prover's reach.
* What the runs that end in a violation show: they are counterexamples.

## 6. Not modelled

* Floating point: the online softmax and its weights, rounding, the dtype of epilogues.
  Accumulators count or collect what is summed; NaN and infinite maxima are kept where
  the code treats them (`RowsExact`, `FoldsFinite`).
* `csrc/cutlass`: vendored CUTLASS/CuTe, nearly all of the repository's C++ (about
  700,000 lines of architecture wrappers, layouts and traits).  It holds none of this
  program's logic; the kernels use its copies, barriers and matrix products, which
  appear as issue, wait, land and multiply.  A share of lines mapped over the whole tree
  is for this reason close to zero and says nothing of the program's own code.
* FlashAttention features the CQS entry points never set: split-KV, dropout, ALiBi,
  softcap, local windows, appended and paged keys, the path of the backward that is not
  parallel over columns (`Is_first`, `Is_last`).  `Is_V_in_regs` and the half-precision
  staging of O change only where a value is held.  Heads and batch are independent grid
  dimensions of a launch.
* The planner, `autoconfig.py`, `memory_fitting.py` and byte budgets: arithmetic on
  measured rates and estimates.  Every engine is checked for every plan, so no result
  depends on it; failures are injected anywhere instead.
* `oom_fallback.py` and the v1 engines: deprecated entry points over the same engine.
  `stream_cqsa_auto` (332) relocates inputs one by one inside its `try`.
* The Triton kernel: the compiler schedules its warps.  Its layout in a wave is
  modelled.
* Autograd wrappers: PyTorch's bookkeeping of saved tensors; the two calls they make are
  modelled.
* The monolithic call at `itr=0`, `task_subset` of the forward other than in
  `Distributed`, the CPU-only path, `sorted_gather=False` beyond `PathState`, the task
  cache (marks are reset when a list is handed out), `place_inputs`, `estimate`,
  `plan_only`, the adapters, tracing, progress, the developer kit and benchmarks.

## 7. Plan

Modelled: decomposition, hybrid cover, forward engine, chunk pool, both backward paths
composed, the kernels, the wave engine, the ranks and the API; what is left out is
listed in section 6 with its reason.  Proved: every safety property of the passing runs.
