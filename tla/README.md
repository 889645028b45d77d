# TinyVDB: a verification project

TLA+ models of TinyVDB (pure C11: sparse volumes, a VDB reader and writer, CPU
algorithms on a task pool, GPU operators on Vulkan or CUDA), TLC runs that check
them on small instances, and TLAPS proofs that hold for every instance. Paths
are relative to the directory that holds `src/`; "`thread.c:301`" abbreviates
`src/src/tinyvdb_thread.c`, line 301, and so on.

## 1. The system

| component | files (lines) | state it keeps | operations | talks to |
|---|---|---|---|---|
| task pool | tinyvdb_thread.c (345) | one job slot, `pending`, `generation`, two mutexes, two conditions, the thread-local `executing_pool` | create, for, destroy, legacy `tvdb_parallel_for` | callbacks of every CPU algorithm; its own callers, from any thread |
| Vulkan dispatch engine | tinyvdb_gpu.c 583-700, 1918-2408, 4850-4896, 12291-12436 | pipeline cache, descriptor and command pools, ring of 64 deferred submissions, queue of 8 deferred calls | dispatch, flush, context create and destroy | the Vulkan driver; all GPU operators |
| GPU operators | tinyvdb_gpu.c, the rest (about 11000) | buffers of one call | about a hundred: build buffers, dispatch once or in a chain, read back | dispatch engine |
| GPU hash set | tinyvdb_gpu_hash_insert.comp, tinyvdb_gpu_hash_compact.comp, tinyvdb_gpu.c 3589-3616, 10331-10490 | slots with states 0, 1, 2 | insert (one shader thread per point), compact, host dedup | dispatch engine |
| GPU resident grids, external buffers | tinyvdb_gpu_resident.inl (1025), tinyvdb_gpu_compute.c (978) | shared topology counts, `live_bytes`, scratch values, imported memory | upload, in-place operators, share, destroy, import, export | dispatch engine |
| GPU sparse image sampling | tinyvdb_gpu.c 5820-6480 | `in_flight` of images and batches, fences | record, dispatch, wait, update, destroy | driver queue, without the dispatch engine |
| VDB reader and writer | tinyvdb_io.h (4990) | file, grids, trees, partial loads | open, load one, load all, save, close | tree, arena, codecs |
| tree maintenance | tinyvdb_tree.c (1538) | node arrays, validated index | index, flood fill, prune | pool, I/O |
| coordinate hashes | tinyvdb_grid_index.c (286), tinyvdb_sparse_tools.c (2503) | open-addressing tables | insert, find, grow | sparse algorithms |
| sparse grids and trees | tinyvdb_sparse.c, tinyvdb_sparse_tree.c, tinyvdb_sdf_tree.c | node and value arrays | rebuilds in two passes, count and fill | pool |
| arena, lifecycle, checked sizes | tvdb_memory.c, tinyvdb_lifecycle.c, tinyvdb_checked.h | arena offset | alloc, reset, destroy | everything |
| jagged arrays, autograd | tinyvdb_jagged.c, tinyvdb_autograd.c | offsets | concat, split, index | |
| numeric algorithms, meshing, NanoVDB | tinyvdb_ops.c, tinyvdb_levelset.c, tinyvdb_poisson.c, tinyvdb_tetmesh.c, tinyvdb_to_nanovdb.c, ... | none between calls | pure functions over arrays | pool |
| Python bindings | python/src/_tinyvdb.c (4615) | `busy`, `generation`, `is_open` of a file | methods that release the GIL | reader, GPU context |
| vendored | miniz, lz4, zstd, third_party | | | |

What is hard here, and where:

- *Interleaving.* A pool has up to 255 workers and any number of callers around
  one job slot written without atomics (`thread.c:301`), a weak compare-and-swap
  that hands out chunks (137), a counter of workers that have yet to pass (307),
  and two conditions with broadcasts (33-46).
- *Nesting.* Callbacks may call their own pool or another one; whether a call
  runs serially depends on one thread-local pointer (272).
- *Asynchrony.* A deferred GPU dispatch returns before the device has run it: its
  fence, command buffer, descriptor set and buffers change owner three times
  (dispatch, ring, deferred queue), and each owner can fail, overflow or be
  drained by somebody else.
- *Partial failure.* Every Vulkan call and every allocation may fail; cleanup is
  by ladders of labels.
- *Sharing.* Device grids of one topology share its buffers by a count; Python views
  borrow pointers into a file that another thread, or a conversion of an argument,
  may close, reload or change while a call works on it without the GIL.
- *Two sides of a format.* The writer of a node chooses among seven encodings; the
  reader has to find the same sections from one byte and the format.
- *Limits.* Ring of 64, queue of 8, cache of 128, pool of 256 threads.

`PROJECT.json` lists each hazard with its line and the properties that watch it.

What makes each component correct:

- task pool: each index of a call's range is covered once, by disjoint chunks of
  at most `grain`; a call returns after all its callbacks and always returns; the
  slot is never rewritten under a reader; destroy ends and frees nothing in use.
- dispatch engine: an object of a submission in flight is alive; each object is
  released once and none is leaked; a call that returned OK leaves its result in
  the output, at once or at the flush; no fence is waited for in vain.
- hash set: after the compaction and the dedup, the set of inserted voxels; no thread
  waits for another.
- resident grids: a topology dies with its last grid; failed operators leave the
  grid as it was (an upload in place excepted); imported memory is released by its owner.
- sampling: no buffer of a batch in flight is touched.
- reader and writer: a failed load leaves a closable file; nothing is freed twice or
  leaked; a node that is saved and loaded keeps its values and its place in the stream.
- tree: prune and flood fill keep the value of every voxel.
- hashes: the table is the function it stands for, and growth keeps it.
- arena: no overflow, allocations disjoint and aligned.
- Python: no method runs on a file that another thread is closing; a view that is
  not refused points at what its file has now.

## 2. Plan

Order: what every other part runs on first, then what is concurrent or
asynchronous, then the sequential code with intricate ownership.

| | modules | abstract specification | runs | proofs | state |
|---|---|---|---|---|---|
| 1 | `ThreadPool`, `ThreadPoolInvariants`, `MCThreadPool`, `ThreadPoolProofs`, `ThreadPoolDataProofs` | `ParallelFor` | thread_pool, thread_pool_live | control and data invariants, all safety properties, the refinement | done |
| 2 | `PoolNesting`, `PoolNestingInvariants`, `MCPoolNesting`, `PoolNestingProofs` | | pool_nesting, pool_mutual | all its safety properties | done |
| 3 | `GpuDispatch`, `GpuDispatchInvariants`, `MCGpuDispatch`, `GpuDispatchProofs` | | gpu_dispatch, gpu_lost, gpu_abandoned, gpu_preset | all its safety properties | done |
| 4 | `GpuHashSet`, `MCGpuHashSet`, `GpuHashSetProofs` | a set of voxels (`VoxelsExact`) | gpu_hash | all its safety properties | done |
| 5 | `GpuResident`, `GpuResidentInvariants`, `MCGpuResident`, `GpuResidentProofs` | a whole value per known grid (`GridsWhole`) | gpu_resident | all its safety properties | done |
| 6 | `MaskCodec`, `MaskCodecProofs` | the identity up to half truncation (`RoundTrip`) | py_owner | `RoundTrip` | done |
| 7 | `VdbFile`, `PyOwner`, `PyOwnerInvariants`, `MCPyOwner`, `PyOwnerProofs` | | py_owner, py_convert | all its safety properties | done |
| 8 | `GpuSampleBatch` | | one | `in_flight` equals "fence pending" | later |
| 9 | `CoordHash` (grid index and sparse tools) | a partial function | one | probing invariant | later |
| 10 | `TreeMaintenance` | a function from voxels to values | with 9 | | later |
| 11 | arena, jagged | | with 9 | arena bounds | later |

`PoolNesting` composes several pools, each abstracted to what `ThreadPool` and
`ParallelFor` show of one. `GpuHashSet`, `GpuResident` and the operators use the
dispatch engine as `GpuDispatch` shows it: work submitted is finished before its
buffers are read. `PyOwner` composes the file and the codec: its loads and saves are
what moves the memory of `VdbFile` and the nodes of `MaskCodec`. Modules that are
proved about hold no recursive operator.

## 3. The modules

**`ThreadPool`** follows `thread.c`, C11 and pthread back ends, one pool, from
`tvdb_thread_pool_create` to the `free` in `tvdb_thread_pool_destroy`. `Owner`
creates and destroys; `Caller`s submit; `Worker`s are `p->workers`. `pc` holds the
place of every thread. Variables are named after the fields; `lo`, `hi` are
`begin` and `begin + take` of `drain_job` and `serial_for`; `executing[t]` says
that `executing_pool` of `t` is this pool. Granularity: one access to shared
memory per step. The job slot is written in two steps, cursor first, because it
is read without the mutex in `drain_job`; a critical section of `worker_loop`
is a step for the lock and a step for the body. Releasing the mutex and joining
the wait set are one step, as POSIX has it. Every failure of `create` is an
alternative (`Allocate`, `InitPrimitive`, `AllocHandles`, `Spawn`); it runs the
code of `destroy`, as the source does. `hits` counts what callbacks cover: it is
the observation the header's promise is about, not a field of the pool.
*Contract used*: destroy is called when no call is in progress (`thread.h`, at
`tvdb_thread_pool_destroy`).

**`ParallelFor`** is the promise of `thread.h:24-30` with no pool in it.
`ThreadPool` implements it by the mapping at its end: what is left to do is the
distance from the cursor to the end of the slot, what is active are the chunks
claimed for the call and not completed.

**`PoolNesting`** follows `tvdb_thread_pool_for` across pools. Each thread has a
stack of frames: a caller's, a worker's or a serial one, with the saved value of
`executing_pool` (the C local `previous`). Claiming a chunk, joining and leaving
a job are single steps here; their interleavings are `ThreadPool`'s subject.

**`GpuDispatch`** follows `tvdb_vk_dispatch` and its callers. One host thread, one
action per Vulkan call (`Drain`, `Pipeline`, `AllocSet`, `AllocCmd`,
`CreateFence`, `Record`, `Submit`, `Park`, `Wait`), each with its success and its
`goto fail_...`; the callers are `tvdb_gpu_dispatch` (kinds "now" and "defer"),
the operators that queue several dispatches and flush once ("chain": conv
transpose 12240-12288, also 6544, 10730, 10880), those that bind sets of their
own ("preset": mean curvature flow 8074-8191, mesh to SDF 11321, 12005),
`tvdb_gpu_dispatch_flush` and `tvdb_gpu_context_destroy`. `live` is the set of
Vulkan objects that exist, `twice` collects any that are destroyed without
existing, `flight` and `ran` are the submissions the device has and has finished.
The driver is external: `Finish` completes any submission in flight (no
order is assumed, which is weaker than a Vulkan queue gives), `Lose` loses the
device. Abstractions: all buffers of a call are one object (creation that fails
halfway has released the earlier ones, 12381-12389 and 12434); the ring and the
queue are sets, as their slots are interchangeable; a dispatch picks its shader
and shape freely; each call has an output array of its own. A wait may return an
error because the device is lost or for any other reason the driver has: the code
treats all alike. `outcome` is what the application was told of a call, and
`unwaited` the calls that a failed wait was for: two observations the properties are
about. The branch at 2295 (more than one dynamic descriptor) is
unreachable from the callers in the repository and left out.

**`GpuHashSet`** follows `tvdb_gpu_voxelize_hashed` (`gpu.c:10364`) and its kernels,
which are the same in GLSL and in CUDA. One thread per point: `Claim`, `Meet` and
`Pass` are the three outcomes of the exchange on `state[slot]`, `Compare`, `Write`
and `Publish` the accesses that follow, each a step of its own, since another thread
may come between any two. `Advance` is the end of the loop body. One thread per
slot: `Draw` is the `atomicAdd`, `Emit` the copy. `InsertDone` and `ReadBack` are
the ends of the two dispatches, which `GpuDispatch` shows to be waited for (on CUDA,
launches on one stream are in order). Abstractions: a voxel is a value, its three
words are written in one step (nobody reads them before the publication); the hash
is any function `Home`; the sorted list without duplicates is a set. Fresh key and
output buffers hold an arbitrary voxel. The barrier of the source is why `Write`
comes before `Publish` for every observer: weaker memory is not modelled.

**`GpuResident`** follows `tinyvdb_gpu_resident.inl`. `own` is what the caller's sparse
handles and the local pointers of an operation own (`resident_topology` and values), `dense`
the buffers of a dense grid with its two scratch buffers, `refs` the count of a topology;
`data` is what a buffer holds: nothing yet, coordinates without an index, a complete result,
or what a failure left ("torn"). `known` are the grids the caller can count on: their last
writing succeeded, from inputs that were known (`sure` keeps that of the operation in
progress). `tvdb_gpu_dense_grid_create` hands out a grid that is allocated and unwritten, so
not known; `tvdb_gpu_dense_grid_upload` is an operation of its own, which overwrites the
buffer of the grid in place and, when it fails, leaves it torn and no longer known. An
operation on such a grid proceeds as in the code and makes an output that is not known
either. An operation is the list of its steps (`SparseUpload`, `SparseConv`, `SparseMorph`,
..., each read off the function of that name), and every step that allocates, transfers or
dispatches may fail, which empties the list; `Finish` is the clean-up label that both
outcomes reach. A result is complete if its inputs were. Calls on a context are serialized
(`tinyvdb_gpu_resident.h:8`), so one `job` is enough. Abstractions: the buffers of a
topology are one cell; a batch of dispatches with its check is one step; sizes and values
are left out. The dense operations not named (stencil, advection, ...) are `Compute` with
other kernels.

**`VdbFile`** is what `tvdb_file_t` owns: the array of grids, and per grid one block for
all that a load or build allocated. **`PyOwner`** follows `python/src/_tinyvdb.c`:
`state`, `busy` and `generation` of each `VDBFile`, the views that borrow from it, and
for each thread the call it is in. An action is what runs between two releases of the
GIL; a call that releases it is `Begin`, (`Resume` after conversions that ran Python
code), the steps of its heavy work, each with its failure, and `Leave`. `Admitted` and
`Confirmed` are the checks before and after the conversion of arguments, call by call.
`Yielding` names the calls whose arguments run Python code. `VDBTree.node` is `GetNode`
when its index is an integer; with an index whose conversion runs Python code it is a
call ("node"), admitted, converted and then `TakeNode`, which does not look again
and finds anything in an array that has gone. "release" is for `replace` and `extend`
whose buffers run Python code when they are released: `Leave` is then `Release`, after
which the file is no longer busy, and `CountUp`, the new generation.
The allocator may hand out a freed address again, which is what makes a stale view
dangerous: a comparison of addresses would not see it. Abstractions: `work` stands for
every call that reads or writes values in place; saving reads only; accessors that
release nothing and allocate nothing have no action.

**`MaskCodec`** follows `tvdb__write_mask_values` and `tvdb__read_mask_values`: what the
writer stores for a node (flag, up to two inactive values, a selection mask, a chunk)
and what the reader makes of it, for any format. Half precision is any idempotent
truncation. The bytes of a section and its block compression are left out.

## 4. The runs

| run | instance | distinct states | what it shows |
|---|---|---|---|
| thread_pool | 2 callers, up to 2 workers, 2 calls, ranges of 5 shapes, 1 spurious event | 488 thousand | the safety of the pool and that it implements `ParallelFor` |
| thread_pool_live | 2 callers, 2 workers, 2 calls, one shape | 75 thousand | calls return, destroy ends |
| pool_nesting | 2 pools of 2 threads, 2 application threads, 3 calls, calls from `a` to `a` and `b`, from `b` to `b` | 21 thousand | re-entrant calls run serially, every call returns |
| pool_mutual | the same, one application thread, calls both ways | (violation) | finding 1 |
| gpu_dispatch | 3 calls of 6 kinds, chains of 3, ring of 2, queue of 1, cache of 1, 2 shapes, any step of the first dispatch of a call, the last dispatch of a chain and waits may fail, device may be lost | 568 thousand | ownership, results and progress of the dispatch engine |
| gpu_hash | 3 points, any voxels of 3, 16 slots, two voxels hash to the last slot and one to the first | 109 thousand | the hash set returns the voxels of its points, and no thread waits for another |
| gpu_resident | 2 sparse handles, 2 dense grids, up to 2 iterations, any step may fail | 424 thousand | ownership, counts and outcome of the resident operations |
| py_owner | 2 threads, 2 views, an owner from disk and one from maintenance, 2 grids, arguments of tree operations and `node` and releases of buffers run Python code | 412 thousand | no view dangles, no work is disturbed, nothing leaks; every node of 3 values round-trips |
| py_convert | the instance of py_owner, conversions of `work` run Python code | (violation) | finding 5 |
| gpu_lost, gpu_abandoned, gpu_preset | as named below | (violation) | findings 2, 3, 4 |

Why the bounds are enough to be interesting. *thread_pool*: two workers are what
it takes for one to be late while the other finishes, for a broadcast to matter,
and for three threads to compete for a chunk; two callers compete for `submit`;
two calls make a worker of the first job meet the slot of the second; ranges have
an uneven tail, one chunk only, no index, inverted bounds, grain zero. Counts 0, 1,
3 and 4 reach the default size, the pool without workers, a full pool and a
refusal. *gpu_dispatch*: a chain of three overflows the ring of two with
something in it; two deferred calls overflow the queue of one; two shapes
overflow the cache of one; three calls allow "defer, then anything that drains,
then flush or destroy". Waits fail at each place that waits (`SomeWaits`). Of the later
dispatches of a chain only the last may fail, after the ring has overflowed and been
drained, so that a full ring is left to the next call; a failure earlier in a chain is left to
gpu_abandoned, where it breaks a promise; a failure under a preset set is in this
run, and `ReleasedOnce` names the sets it excludes, which gpu_preset is about.

*gpu_hash*: sixteen slots are what the code allots to three points; probe
sequences wrap around and run into each other; three threads are enough for two to
race for a slot while a third, with the same voxel, passes both and publishes it again.

*gpu_resident*: two handles let an output be the input, another handle of the same
topology, or the last one of it; two iterations make a morphology read the result of
its own first step, and three passes of a filter end in either scratch buffer. There
are more buffers (14) and topologies (6) than are ever in use, so a failure to allocate
is a choice and never forced. Which free buffer an allocation gets makes no
difference: the VIEW describes a state by the contents, owners and counts of what each
pointer points at, which determines all that the actions and the properties look at.

*py_owner*: two threads, one of which works while the other closes, reloads or drops; two
views for the calls that take two (csg); each address is one of two (`Copies`), so that a
freed one comes back; `f1` lives through two reloads, replacements or closes
(`MaxGeneration`), enough for a view to be two generations old; `f2` is an owner that a
maintenance call returns. `Disk = {f1}` says which owners the application opens, and
`Yielding` which calls have arguments, or buffers, that run Python code: the tree
operations, which look at their view again, `node`, which changes nothing, and releases;
py_convert is the run where others do. The VIEW describes an address by whether it is the
one in use for its purpose, and a view that is refused for ever by its file: the addresses
of one purpose are interchangeable, and nothing looks at such a view again. Without the
VIEW, TLC finds no violation of `OwnerInv` either (7.6 million states). Three entries and
three values tell one, two and more inactive values apart, with and without the background.

`CoveredExactlyOnce`, `ChunksDisjoint`, `NoCallbackAfterReturn` state the three
sentences of the header's comment. `NoLostWakeup` and `PendingCountsWorkers` say
why calls return. `OwedIsWaitedFor` and `ResultsArrive` say that nobody takes a
deferred call out of the ring without its output being delivered later.

**Fairness.** *ThreadPool*: weak fairness of every thread's own steps (the operating system
runs threads), of Owner inside create and destroy, and strong fairness of leaving a
callback: a callback may call the pool again and again (`Reenter`), and the assumption is
that a callback ends, which any caller needs. Nothing is assumed of mutexes beyond that: the
bounded number of calls and spurious events makes them contended finitely often. Nobody is
obliged to call or to destroy. *PoolNesting*: the same. *GpuDispatch*: the host thread runs
and the device finishes what it has, unless it is lost (in which case waits return an
error). A wait that may fail need not, so the host cannot rely on it: its fairness counts a
failing wait as a step only if the device is lost. *GpuHashSet*: only the thread named
`Watched` is scheduled, and nothing is assumed of the others, as a GPU may leave a workgroup
waiting until another has ended; that the thread ends all the same is `WaitFree`.

**Deadlock** is checked in every run. In the pool and the dispatch engine `Rest` is the
stutter of a system that is done, and nothing else may stop; `GpuResident` and
`PyOwner` can always begin something.

**Findings**, each with a run that ends in a counterexample:

1. *pool_mutual.* `thread.h:27` promises that re-entrant calls on the same pool run
   serially. `executing_pool == p` (`thread.c:272`) sees only the innermost pool: a
   callback of A calls B, a callback of B on the same thread calls A, and the
   thread locks a `submit` mutex it already holds.
2. *gpu_lost.* `tvdb_vk_drain_pending` empties the ring when its wait fails
   (`gpu.c:2085`). If a synchronous dispatch did the draining, the deferred queue
   still holds its calls; the next flush has nothing to wait for, copies buffers
   the device never wrote and returns `TVDB_OK`.
3. *gpu_abandoned.* The operators with several deferred dispatches flush only if
   all were queued (12279 and others). When a later one fails they destroy
   buffers of an earlier one that the device still uses, which the comment at
   12306 says must not happen.
4. *gpu_preset.* The failure path of `tvdb_vk_dispatch` (2399) frees a set that
   "is owned by the caller; not freed by the dispatch" (1937); its caller frees
   it again (8182).
5. *py_convert.* `python/README.md:484` says that access through a stale view raises
   `ValueError`, and `tests/test_tree_python.py:109` tests it for the tree operations,
   as "argument conversion can call Python". `morph_active` checks its view
   (`_tinyvdb.c:1199`), converts its arguments (1202) and does not check again, so an
   `__index__` that closes the file leaves it working on a freed grid; so do
   `materialize_dense`, `update_from_sparse` and, for its first view, `csg`; and
   `VDBTree.node` (946) reads the freed tree after the conversion of its index.

Two more divergences from `python/README.md:482-485` the properties name and except.
`VDBTree.node` (946-950) looks into the tree after the conversion of its index, and not
at its view: `TakeNode` then finds anything, and `WorkUndisturbed` is not said of it. And
`replace_grid_from_sparse` clears `busy` (2148), releases its buffers (2149) and counts
the generation up last (2151), as `extend` does (2107-2110): a `__release_buffer__`
written in Python (PEP 688, Python 3.12) is let through to a node view of the replaced
tree, whose memory is freed. `ViewsNeverDangle` excepts nodes then (`Releasing`); without
the exception TLC violates it in py_owner.

## 5. The proofs

For the pool, everything below holds for any number of threads, callers, calls and
spurious events, and any ranges, from `ThreadAssumption` and `RangeAssumption` alone;
for nested pools, for any pools, workers and calls, from `PoolAssumption`; for the
dispatch engine, for any lengths of ring, queue, cache and chains and any set of Vulkan
calls that fail, from `DispatchAssumption`, with the premise that one theorem names; for the
hash set, for any points, voxels and hash, from `TableAssumption`; for resident grids,
for any handles, dense grids, buffers, topologies and iterations, from
`ResidentAssumption` (the names are apart, those of buffers and topologies are numbers,
as an allocation takes the least that is free); for the codec, for nodes of any number
of entries and any values, from `CodecAssumption`; for the Python owner, for any
threads, views, files, grids and addresses, from `FileAssumption`, `OwnerAssumption` and
the premise on `Yielding` given below.

| module | theorems |
|---|---|
| `ThreadPoolProofs` | `ControlHolds`; `TypeCorrect`, `PendingExact`, `SlotQuiet`, `ReentryIsSerial`, `WakeupsKept`, `ReleaseIsSafe`, `JobsInOrder` |
| `ThreadPoolDataProofs` | `DataHolds`; `CoveredOnce`, `DisjointChunks`, `ReturnsLast`; `Implements`: the pool implements `ParallelFor` |
| `PoolNestingProofs` | `TypesHold`, `ExecutingFollows`, `NoPoolWaitsForItself` |
| `GpuDispatchProofs` | `TypesHold`, `EachReleasedOnce`, `NothingEverLeaks`, `OwedAreWaitedFor`, `EveryResultArrives`, `EverythingInUseIsAlive`, `OthersNeverGetGarbage`, `FlushIsTruthfulUnlessAWaitFails` |
| `GpuHashSetProofs` | `TableHolds`; `ExactVoxels`, `PublishedKept` |
| `GpuResidentProofs` | `TypesHold`, `HeldGridsWhole`, `FailuresKeepGrids`, `BuffersAccountedFor` |
| `MaskCodecProofs` | `RoundTripHolds`: every node and format round-trips |
| `PyOwnerProofs` | `OwnerInvHolds`; `TypeHolds`, `ViewsNeverDangleHolds`, `WorkUndisturbedHolds`, `NothingLeakedHolds`, `FailureKeepsGridsHolds`, `NodesRoundTripHolds` |

So every safety property that a passing run checks is also proved. None of them is
inductive alone. For the pool, two invariants of `ThreadPoolInvariants` carry
them, and TLC checks both in the same run.

**`Control`: who holds what, and who owes what.** That the slot is quiet when it is
filled needs that a caller who holds `submit` and is not working leaves no worker
owing a pass (`QuietBetweenJobs`); that needs that the previous caller saw
`pending = 0` under the mutex (`MutexHeld`, `SubmitHeld`) and that `pending`
counts the owing workers exactly (`PendingCountsWorkers`); and the count stays
exact only because every started worker has seen the current generation or the one
before (`SeenCurrent`) and the workers are `1 .. created` (`WorkersKnown`), so
that `p->pending = p->created` counts all of them. `Lifetime` confines calls to
the time between create and destroy, which makes `stop` and the release safe.
There is one lemma per group of actions (`DrainControl`, `WorkerControl`,
`StartControl`, `CallerControl`, `LockControl`, `CreateControl`,
`DestroyControl`), each with one step per action; the lemmas about `Owing`
(`OwingFinite`, `NobodyOwes`, `StartedCount`) carry the counting.

**`Data`: what is claimed, and what is covered.** On top of `Control`: the slot
holds the arguments of the one working caller (`SlotKnown`); a thread's idea of the
cursor is never ahead of it, and a claimed chunk lies between the begin of the range
and the cursor (`ChunkKnown`); claimed chunks are apart (`ClaimsDisjoint`), because
a successful exchange starts a chunk where all the others end; and `hits` of a call
in progress is 1 on the indices behind the cursor that are in no chunk in progress
and 0 elsewhere (`HitsKnown`). The caller leaves only when `pending` is zero, when by
`Control` nobody is inside `drain_job`, so no chunk is in progress and the cursor is
at the end: what is covered is the range. Steps the data does not see are dealt with
once, by frame lemmas: `QuietStep` (threads move among places that are alike),
`UnclaimedStep` (a thread inside `drain_job` that has claimed nothing) and
`OutsideStep` (a caller outside the job, which changes what is its own).

**The refinement.** `Views` says what the mapping shows of a caller in terms of where
it is: nothing to do when idle or leaving, the whole range until the job is
published, `job.next .. job.end - 1` and the claimed chunks of all threads while it
works, its own loop when it runs serially. From `Control` and `Data` the views hold
(`ViewsHold`, through `ServesIs`: the callbacks of a call are the claimed chunks
exactly while its caller works). Then `Claim` and `SerialChunk` are `Take`,
`LeaveCallback` and `SerialNext` are `Complete`, `SerialReturn` and `UnlockSubmit`
are `Return`, the four ways a call begins are `Start`, and all other steps, filling
and publishing the slot included, change no view (`UnseenMoves`, `Unseen`).

**Nested pools.** `IInv` of `PoolNestingInvariants` is about call stacks. The frames under
the innermost are all in a callback (`OthersInCallback`), each has saved the pool of the
frame under it (`SavedIsOuter`), and `executing_pool` is that of the innermost frame, or
what it saved while it submits, waits or leaves (`ExecutingExpected`). So a return, at any
depth and after any mixture of serial calls, submissions and jobs served as a worker,
restores what was there: `ExecutingFollows`. `KindsRight` keeps from the call what was true
when it chose to submit, that its pool is not the one it is called from. With it,
`NoPoolWaitsForItself`: if pools can be ranked so that callbacks only call their own pool or
a higher one (`NestsUpwards`), the ranks along a stack never fall (`Upwards`); a frame that
submits is of another pool than the one below it, so strictly higher than it and than all
below. The premise is what the header leaves out: pool_mutual has none of these ranks, and
violates the property. One lemma per action says what becomes of a stack (`StackSteps`:
nothing, another frame on top of the same pool, one less, one more).

**The dispatch engine.** `IInv` of `GpuDispatchInvariants` has four parts. What the host is
in the middle of (`Control`) and which submissions there can be (`JobsKnown`, `QueueKnown`).
What the device may be at work on (`DeviceKnown`): what is parked in the ring and the
dispatch in hand, and nothing else; so a ring that has been waited for can be released. Who
owns every object (`OwnersExact`): an object exists exactly if the call in hand has come to
the step that makes it and not to one that gives it away, or the ring or the queue has it;
the failure ladder of `tvdb_vk_dispatch` is right because `HasSet`, `HasCmd` and `HasFence`
grow along its steps as its labels do, and `EachReleasedOnce` and `NothingEverLeaks` follow.
And what is owed (`Owed`, `Read`): the submissions behind a queued output are in the ring or
done, so the flush, which waits for the ring, copies results. `RingKnown` is what a dispatch
that waits, and a chain that flushed, know of the ring; without it the buffers a chain
releases at its end could still be in use. A failed wait empties the ring all the same, so
what follows it is said of the calls it was not for: `unwaited` grows by the calls behind
what is waited for, whatever the reason of the failure, and `Left` is what the device may
still be at work on then. `Unanswered` says that the application has been told nothing yet
of the call in hand. So `OthersNeverGetGarbage` confines the defect of gpu_lost to the calls
whose own dispatches were taken out of the ring by a failed wait, and, with no premise on
the device, `FlushIsTruthfulUnlessAWaitFails` says that without such a wait there is no
garbage; that a wait can fail so is what gpu_lost shows. One theorem has a premise, a
condition on constants that a finding shows to be necessary. `EverythingInUseIsAlive` has
`PresetsOutlive`: no preset dispatch after the second fails between its command buffer and
its submission. The sets of a preset caller take turns, so such a failure frees the set of
an earlier dispatch in flight, the defect of gpu_preset; the run gpu_dispatch, where of
preset dispatches only the first may fail, satisfies it. `PresetsInUse` is the invariant
that is added then. TLC checks `IInv` on the instance of gpu_dispatch with every Vulkan call
and every wait failing (4.5 million states), and `PresetsInUse` with every one but those.

**The hash set.** `TableInvariant` is inductive. `Ownership`: a slot that is not empty
has exactly one owner, whose step tells the state and the key of the slot. `Probing`:
a thread at its i-th probe is at the i-th slot of its sequence and all before are
taken. A sequence as long as the table meets every slot (`ProbesReachAll`), each taken
slot is the slot of a point, so there are at most as many as points (`TakenCount`, by
a surjection), fewer than slots: one lies ahead that is empty (`EmptyAhead`), and no
thread runs out of probes (`AdvanceMoves`). Only `2 * n <= cap` is used of the size, as
the comment in the shader says. `Gathering`: the places drawn so far are `0 ..
counter - 1`, each once, by published slots, so that no more are drawn than there are
points and `cand > n` cuts nothing off (`DrawnCount`). With every thread returned the
published keys are the voxels (`PublishedAreVoxels`), and the candidates are these.

**Resident grids.** An operation is the list of the steps it has left, so its invariant has
to speak of every rest of every list. `GpuResidentInvariants` does it with an outline: which
local pointers own a topology and values, which of those are unshared, listed, indexed and
filled, what scratch buffers there are and hold a result, what the inputs and the output
are, and whether the output has been replaced. `Allowed` is what a step needs of the outline
and `After` what it makes of it; `Goes` says that every step of a list is allowed when it
comes; `Meets` says what the outline claims of the state. `JobKnown`: while an operation is
in progress its state meets an outline from which the steps it has left go through, every
grid but its output is as it was, and the output too until it is replaced, after which
nothing can fail any more. The other half of `IInv` is about owners: `BuffersExact` (a
buffer has one owner if it is allocated, none otherwise) and `TopologiesExact` (`refs`
counts the owners). The proof has three layers. The ownership lemmas (`TakeValues`,
`TakeTopology`, `Emptied`, `Moved`, `Swapped`, `Exchanged`, ...) say, of any owners and
counts, that one kind of movement keeps the books. The lemmas `...Keeps`, one per action,
show that a step that is allowed keeps `IInv`: where it fails, the operation ends with what
it had; where it succeeds, the state meets the next outline. A step that writes does so only
to what is not shared and no caller holds, which is what `fresh` is for (`FreshAlone`,
`Runs`). What the outline says of contents holds only if the inputs were known (`Has`): the
books are kept for all grids, known or not, and an operation on a torn grid can make its own
output unknown and nothing else. The upload in place writes to a buffer that only its grid
owns, so no other grid sees it. The lemmas `...Sound`, one per operation, show that its list
goes through from where the operation begins. They put the list together as the code does
(`LeadsThen`): a step of a convolution or a morphology leads from `Ready` to `Built`
(`StepLeads`), an iteration back to `Ready`, and from the second one on to the very outline
it began with, so that any number of iterations does (`IteratedLeads`); the passes of a
filter alternate between the scratch buffers (`PassesLead`). What the four theorems state
follows from `IInv` at once, but for the sum of `AccountedFor`. TLC checks `IInv`, with
`Goes` computed, on the instance of gpu_resident.

**The codec.** No state and no induction: a chain of facts about one node. The scan
over the inactive entries meets a least one with a value of any given kind
(`LeastVoxel`, `ScanFinds`), so `First` and `Second` are kinds of the node as soon as it
has one and two of them (`FirstKnown`, `SecondKnown`, `PairKnown`), and a node that is
neither has more (`ManyKinds`). `FlagMeans` turns the choice of a flag into a statement
about the kinds. `PlainNode` and `MaskedNode` compute what the reader makes of a node
stored whole and one stored by its active values. `AlignedHolds` and `FaithfulHolds`
follow by cases on the flag. `SettledIsKept` says that a node whose values are all
stored exactly is read back unchanged, and `ReloadedSettles` that one round, as
truncation is idempotent, leaves such a node or one encoded in the same way:
together, `Stable`.

**The Python owner.** `OwnerInv` (`PyOwnerInvariants`, which TLC checks in py_owner) is
inductive. `CallsShaped` and `ViewsHeld` say what a call knows of itself at its place, and
that the views it works on do not change under it. `BlocksApart` and `HeapExact`: the
allocated blocks are exactly those that a file or a call holds, and none has two holders.
So an address that is handed out again can meet an old one only in a view, never in a
holder; the lemmas on how memory moves (`TakeUp`, `GiveUp`, `HandOver`, `SetUp`,
`AdoptMemory`) each keep the two parts through one kind of movement. `BusyExact`: `busy`
is set exactly while a call works on the file, and then one call does; so a step of the
work moves what no other work looks at (`ForeignKept`), and `Close`, which refuses a busy
file, disturbs no work. `ViewsKnown`: no view is ahead of its file's generation, and one
of the current generation belongs to an open file and points at what the file has,
unless a replacement has been installed and has yet to count the generation up
(`Replaced`): then the file is still busy and the view is refused, unless the
buffers of the replacement are being released (`Release`). `WorkKnown` and
`GridsKept` say what a reload or a replacement has done so far. There is one lemma per
action; `StillStep` and `OwnFileStep` hold what the steps of the work have in common,
`LeaveFrame` the two ways to end a call. All this holds if only the tree operations and `node`
convert arguments that run Python code, and whether or not releases of buffers do
(`Yielding \subseteq {"maintain", "node", "release"}`, the premise of the theorems). It is
necessary: py_convert violates `WorkUndisturbed` without. The tree operations need no such
premise, because they check their view again (`Confirmed`), nor does `node`, which holds
nothing when others run. With arguments and releases that run no Python code
(`Yielding = {}`) the premise holds as well.

Only model-checked: all liveness (`CallsReturn`, `DestroyCompletes`, `WaitFree`), which is
out of the prover's reach, as are recursive operators and induction over data.

## 6. Not modelled

- The GCD and single-threaded back ends of the pool; the legacy
  `tvdb_parallel_for`, which is a create, one call and a destroy.
- The CUDA branches (synchronous calls), device-local staging copies
  (`tvdb_vk_run_copies`), the layouts and counts of descriptors, and the layouts and shader
  modules of a pipeline that fails half-built.
- Floating-point kernels and meshing: their correctness is numerical.
- NanoVDB layout: pure, sequential, byte offsets.
- Of the reader and writer: the header, metadata, transform and tree parsers with their
  limits, block compression, and files of versions without a flag per node.
- Of the Python bindings: owners made from bytes (`bytes_ref`; they are opened once),
  accessors that neither allocate nor release the GIL, conversions of theirs that run
  Python code (that of `node` is modelled; `grid` looks at the number of grids
  after its own), point-data blobs, and the dense,
  image and GPU types.
- Of the resident grids: what a caller does itself to the buffer of a dense grid, with
  `tvdb_gpu_dense_grid_buffer`, `tvdb_gpu_buffer_upload` and dispatches of its own; CSG,
  stencil, advection (as `Compute`), the Poisson solver and reductions with their
  workspaces, metrics, external memory.
- The sampling batches of the GPU (`gpu.c:5820-6480`): read, not modelled, planned. An image
  and a batch each have an `in_flight` flag and a fence of their own, which the dispatch
  engine does not know; the question to model is whether a flag is cleared only after
  its fence was waited for.
- The arena and the legacy `tvdb_parallel_for`: sequential arithmetic on sizes.
- The index, the coordinate hashes and tree maintenance: planned, not reached.
- Vendored code, examples, the web demo.
- The rest of section 1 that section 2 plans and has not reached yet.
