# A verification of the KV-cache offloading server

This directory holds TLA+ models of the server in `swiftllm/`: the control
plane and the scheduler, the asyncio tasks around them, the start of a server
with its profiler, and a worker's forward pass, once as a host program against
CUDA streams and once as the programs of its kernels on one or more ranks.
Configurations model-check them with TLC; TLAPS checks theorems about the block
manager, the scheduler, the engine loop, its refinement to the block manager and
what it can die of, the streams of tokens, and the shards of a tensor parallel
model. Paths below are
relative to the repository; line numbers are those of the commit modelled.

## 1. Inventory

The server answers generation requests with a transformer whose KV cache is
kept in fixed-size blocks on the GPU and, for offloaded sequences, in CPU
memory. Offloaded sequences are not only parked there: the CPU computes their
attention itself, while the GPU works on another sub-batch.

```
 HTTP handlers ──► untokenized list ──► tokenizer loop ──► waiting queue
      ▲                                                        │
      │ output_q, finished_event                               ▼
      └──────── main loop:  get_next_batch ─► prepare ─► forward ─► update_and_free
                            (Scheduler)    (BlockManager) (workers) remove_finished
                                 ▲
                 predictor's tables ◄── profiler, at start-up ◄──► files
```

| Component | State | Operations | Talks to | What is hard | What makes it correct |
|---|---|---|---|---|---|
| Block manager, `server/block_manager.py` | per device: block table, blocks per row, free bitmap and free counter per split | alloc, free, `_initiate_swap`, `prepare`, `update_and_free` | main loop (calls), worker (lists of mappings and swaps) | a prompt bound for the CPU is allocated and freed within one call; lengths differ by the newest token; the worker is sent differences only | blocks are free or owned once; the counter agrees with the bitmap; a sequence has the blocks its tokens need, on one device; rows only grow |
| Scheduler, `server/scheduler.py` | waiting, GPU and CPU decoding queues, free request ids | `get_next_batch` (two policies), `on_requests_arrival`, `remove_finished_requests` | predictor (times), block manager (through the batches) | requests are cut from a batch after they were counted; queues are popped by count; two policies share the queues | no request lost or twice; queues say where KV is; ids are exact; no batch that cannot be prepared; every request finishes |
| Engine, `server/engine.py` | the iteration in progress | initialization, main loop, tokenizer loop, request handlers | all of the above | arrivals during an awaited forward pass; a live request is read after a yield | streams in order and complete; no request dropped; handlers end |
| API server, tokenization engine | none of their own | HTTP calls; awaited tokenization | engine | clients that go away; a process that ends | as above |
| Predictor, `perfpredictor.py` | samples, index lists and times of four tables | look-up, interpolation | scheduler | index lists and samples are replaced apart from each other; CPU rows of different lengths | a look-up reads the samples around its argument |
| Profiler, `server/profiler.py` | files of tables | counts blocks, measures and stores tables | block manager, executor, predictor | files of other configurations, files a crash left unfinished; entries taken over from a shorter file; placeholders | an engine that starts has complete tables and caches that fit |
| Executors, `server/executor.py` | the workers | one call per iteration, to one worker or to all of Ray's | engine, workers | what is pickled of a request; ranks that must meet in every collective | the iteration returns the tokens of the whole model |
| Forward pass, `worker/model.py`, `worker/layers/` | KV memory on both devices, buffers, two streams, one event, timing events | `do_one_iteration`: sequential or two-batch pipeline | block manager's results, swapper, CPU attention | the host runs ahead of two asynchronous streams; buffers are shared by layers and sub-batches; rows are found by sums | every attention and every copy reads the KV it should; the tokens returned are the right ones |
| Swapper, `worker/block_swapper.py`, `csrc/src/block_swapping.cpp`, `worker/quantize.py` | block tables, swap buffers, scales | set tables, swap in, swap out (FP16, or INT8 in two ways) | copy stream, host | runs of adjacent blocks; INT8 staging buffers that the host reads | each block arrives where its row says, with its own scales |
| KV and attention kernels, `csrc/src/small_kernels.cu`, `worker/kernels/` | KV memory | store, paged attention, prefill, element-wise kernels | streams | strides, tiles and sequence blocks; programs that share cells | no races, no access outside, each key of a sequence attended to once |
| CPU attention, `pacpu/` | KV memory on the CPU, partial outputs | store, attend and gather, over threads | host thread | split of one sequence over several threads | every token of every sequence once |
| Weights and buffers, `worker/weight.py`, `worker/buffer.py` | a rank's shards; rows of the batches | load, allocate | ranks | heads that ranks cannot share | shards partition the model; a rank has the k/v heads of its query heads |

Every component, with its sources and what is left out of it, is in
`PROJECT.json` under `components`; everything this code does that is hard to
test is there under `hazards`, with the properties that cover it or a note
saying why none does.

## 2. Modules

```
 DeviceBlocks ◄─ BlockManager ◄─ MCBlockManager               (TLC)
                    ▲        ▲
                    │        └── ForwardPass ─► LayerCalls     (TLC, INSTANCE BlockManager)
                    │                               ▲
                    │            MCModelWorkers ─► ModelWorkers ─► LayerKernels
                    │                    (TLC)          └──► BatchLayout, Shards, KernelChecks
                    └── NeoEngine ─► Scheduler ─► Queues       (TLC, INSTANCE BlockManager)
 MCPerfTables ─► PerfTables ─► PerfPredictor, PerfEvents, KernelChecks
                   (TLC)  └──► BatchLayout, Shards (INSTANCE)
 RequestStream                                                 (TLC)

 proofs (TLAPS):
 BlockManagerProofs ─► BlockManager ─► DeviceBlocks
 NeoEngineProofs ─► SchedulerProofs ─► QueuesProofs ─► Queues
        └──► BlockManagerProofs (INSTANCE)
 PerfTablesProofs ─► PerfTables, QueuesProofs
 RequestStreamProofs ─► QueuesProofs
 ForwardPassProofs ─► ForwardPass, QueuesProofs
 ShardsProofs ─► Shards
```

### DeviceBlocks: one device

`DeviceBlockManager` as operators on a record: `table[id]` is the live prefix of
a row of `block_table` (its length is `seq_num_blks[id]`), `free[s]` the bitmap
of split `s`, `nfree[s]` the counter `num_free_blocks[s]`, `ok` is FALSE once a
call has raised. `Alloc` takes the lowest free blocks in slot order, as
`torch.nonzero` on the bitmap does. The blocks of the first `splitPoint`
requests come from split 1, the intermediate layer. The counter is kept as
state of its own and not computed from the bitmap: `_get_new_blk_ids` trusts it.

### BlockManager: both devices under any legal caller

`Prepare(c)` is the whole of `prepare`: the assertions, the conventional swaps,
the allocation for one or two sub-batches, and the swap-out of prompts that are
prefilled for the CPU, in that order. `PrepareRaises(c)` is a call on which an
assertion or an allocation fails. `UpdateAndFree(finished)` gives every request
of the iteration its token and frees those that finish. `LegalCall` is the
caller's contract: prompts go to unused rows, decodes run where the KV is after
the swaps, no request is named twice. This module is the abstract specification
that the engine is shown to implement.

### Scheduler and NeoEngine: the server's main loop

`Scheduler` has the two policies as operators from a snapshot to the *set* of
results `get_next_batch` may return. The performance predictor is an oracle:
where the code compares predicted times, both outcomes are in the set. What is
shown therefore holds for every profile. One bound of the predictor is control
and is kept (`CdecTooLong`): the table of CPU decode times has an end, and a
lookup past it raises. Loops that walk a queue and stop at the first request
that does not fit are the longest prefix all of whose positions fit
(`LongestPrefix`), and the batches that may come of one choice of decodes are a
set (`Lists`). `Queues` has what a filter keeps of a queue.

`NeoEngine` is the loop of `AsyncEngine` with these operators and the block
manager's. An action is a stretch without an await:

| Action | Code |
|---|---|
| `Arrive` | `on_requests_arrival`, at any time the loop awaits |
| `Schedule` | `get_next_batch`, ids, `prepare`, up to the awaited forward pass |
| `Sleep`, `Wake` | nothing to do: `asyncio.sleep` |
| `Raise` | an exception in either; the server exits |
| `Complete` | `update_and_free`, `remove_finished_requests` |

A finished request keeps its `request_id` field though its row is given away,
as in the code. `Modes` lets `always_use_gpu` change from step to step, as
`engine_config.py:38` allows, and `PartialOfflOff` makes the run take both
values of `disable_partial_offl`, which is fixed at the start.

### RequestStream: the tasks around the main loop

Handlers that stream or wait, the tokenizer loop, clients that disconnect, and
the end of the process when the loop's length assertion fails. The main loop is
abstracted to `Iterate`: any non-empty set of entered requests gets a token.

### LayerCalls: the host's program

The order in which a forward pass calls the parts of each layer: `forward` layer
by layer for one batch, `forward_first_stage`, `forward_double` and
`forward_last_stage` for two. Two modules give these calls a meaning.

### ForwardPass: host, streams and copies

Each host action queues operations on the compute or on the copy stream. A
stream is a FIFO queue; `wait_stream` becomes a wait operation that counts down
the operations the other stream had queued at that moment. The host blocks only
on `qkvtr_e` and, at `End`, on the output tokens (the `tolist` that synchronizes
the compute stream). Everything else interleaves freely, which is every relative
speed of the host and the two streams.

Memory is modelled by content: a block holds `<<layer, row, born, j, tokens>>`,
the KV of the `j`-th block of one request in one layer with so many of its
tokens, or nothing. Attention over anything but the right content is visible,
and so is a copy of the wrong, stale or half-written block. `SwapBlocks` copies
maximal runs that are adjacent on both sides, as `block_swapping.cpp` does.
The control plane is `BlockManager` itself, and the worker's tables are patched
with the blocks that each allocation adds, as `set_block_tables` is.

Under `--int8-transfer` and `--int8-cpu-kv` (`swapMode`) a call of
`swap_blocks` becomes a loop over blocks on the host. Swapping out, the copy
stream quantizes a block and copies it into a staging buffer, and the *host*
stores that buffer into the cache (`StageBlock`, `StoreStaged`); swapping in,
everything runs on the copy stream (`FetchBlock`). Nothing orders the store
after the copy. `EarlyStores = TRUE` is the code as it is; with `FALSE` the
copy is assumed to be the faster one, which is how the rest of the INT8 paths
is checked in `forward_pass` apart from this race (section 4).

### BatchLayout, LayerKernels and ModelWorkers: data and ranks

`BatchLayout` has the layout of a sub-batch: the order of its requests, the
input tokens, the sums and indices that find a row, the size of sequence
blocks, the state pickled for a remote worker. `LayerKernels` has one operator
per program of a launch, from the memory of a rank to the cells the program
reads and the values it writes. A value is the set of the *parts* it was
computed from: which component (a head's key, an FFN channel, ...), of which
layer, for which token, of which head or channel. A program that finds one part
too few, one twice, or one of another token or layer produces `Wrong`, which
stays wrong through everything computed from it. Sums over heads, channels
and ranks are unions whose members must be disjoint. INT8 codes name
the group their scale was taken over and the cell it is kept in; decoding with
anything else is `Wrong`, and so is a code that is read as FP16.

`ModelWorkers` runs the launches of an iteration on every rank. Programs of one
launch run in any order, ranks at any speed; collective operations happen when
all ranks have reached them. `Shards` is the division of the weights, which
`LayerKernels` uses for the index that a rank's head or channel has in the
whole model.

A launch that its kernel refuses (`Accepts`: heads that csrc was not compiled
for, sequence blocks that are not whole blocks, a library for another model or
block size) ends the iteration of the rank (`Raise`). The kernel on the CPU
writes scores, sums and partial outputs into arrays that are global and of
fixed size, which are cells of that many and no more, so that
`AccessesInBounds` covers them.

### KernelChecks: what the kernels are compiled for

A build of `pacpu` has the heads of a rank, the number of layers, the size of a
block and the sizes of its arrays built in, and `csrc` a list of numbers of heads.
`HyperParamsExpected`, `RotaryCompiled`, `StoreCompiled` and `WholeSeqBlocks` are
the checks a call makes; `ScratchHolds` is what no call checks. A library is named
by the numbers it was built with. `LayerKernels` and `PerfTables` use these.

### PerfPredictor, PerfEvents and PerfTables: the start of a server

`PerfPredictor` has the sample lists built from a configuration, the index
lists, and which samples a look-up reads. `PerfEvents` has the events that a
monitored forward pass records and the pairs of events that its times are
between; event objects outlive an iteration, so a time may be read from an
event of an earlier one. `PerfTables` is the start itself: blocks are counted
(`Start`, `StartRaises`), then for each of the four tables a stored file is
loaded (`Load`, `LoadFails`), or entries are taken over (`TakeKnown`) or
measured in a test case of `NWarmup + NRepeat` iterations (`BeginCase`,
`Iterate`, `EndCase`), and the file is opened and written (`OpenFile`,
`WriteFile`). An iteration fails (`IterationFails`) when a kernel refuses the test
case (`KernelsRun`): which kernels it calls, and with which sequence block, is that
of `BatchLayout`, and the heads of a rank are those of `Shards`. A test case beyond
the arrays of the CPU kernel overwrites other memory, after which the process may
die or go on. A start whose tables are all on disk calls none of these kernels: a
library for another model is then found by the first decode on the CPU. `Crash` may happen between any two of these; what is on disk is
what later starts, with the same or another configuration, find. A time is
named by the test cases it was measured in, so that an entry in the wrong place
or a mean over the wrong results is visible. Placeholders of the CPU table are
extrapolated as in the code, from named neighbours.

## 3. What the runs check

| Run | Instance | Distinct states | Shows |
|---|---|---|---|
| `block_manager` | 2 interchangeable rows, 3 blocks on each device, block size 2, lengths up to 5, intermediate layer | 1327 (up to symmetry) | `AccountingExact`, `BlocksMatchLength`, `RowsStable` under every legal caller |
| `engine_offload` | 4 requests, 3 GPU and 9 CPU blocks, prompts and outputs of 1 or 3, both policies at any time, decodes on the CPU alone or beside the GPU | 57127 | nothing is lost or twice, queues and ids agree with the devices, prompts start in order of arrival, no exception, each step is one of `BlockManager` (`ImplementsBlockManager`), and `EveryRequestFinishes` |
| `engine_full` | intermediate layer, 4 GPU blocks for sequences of up to 8 tokens, 6 CPU blocks, 3 ids | 16527 | `DiesOnlyWhenFull`: `Raise` happens for want of ids and for want of CPU blocks, and for nothing else; until then queues, ids and devices agree |
| `request_stream` | 2 clients, outputs of 1 or 2 | 10885 | `StreamInOrder`, `NoRequestDropped`, `HandlersEnd` |
| `forward_pass` | 2 layers and the intermediate one, 2 rows, 2 iterations, prompts of 4, block size 2, swaps in FP16 or INT8 | 193962 | `GpuReadsRight`, `QkvArrive`, `CpuReadsRight`, `OutputsArrive`, `SwapsReadRight`, `KVInPlace` |
| `startup` | 16 command lines, two starts, crashes between all steps | 59111 | `TablesComplete`, `LookupsBracket`, `ProfilingLeavesNothing`, `CacheFits`, `SupportedStarts` |
| `model_workers` | 12 models and batches, 2 layers, 1 or 2 ranks | 39396 | `NextTokensRight`, `KVWritten`, `NoRaces`, `AccessesInBounds`, `IterationReturns` |

Every property of these runs has a mutant in `PROJECT.json`: a plausible bug in
one definition that makes TLC find the property violated under the same
configuration. Mutants stand directly before the definition they alter and
nothing else uses them.

### Bounds, and why they are enough

*Engine.* With a block size of 2, prompts of 1 and 3 tokens and outputs up to 3,
sequences cross a block boundary while they decode, both as a prompt that fills
its block and as one that does not. Three GPU blocks hold one long request and
one short one, so the third causes swap-out, swap-in, prefills for the CPU and,
with `LinrThreshold` 4, prompts for the CPU that are cut again in step 5 of the
scheduler. These cases, both execution modes, and a batch with prompts for both
devices were each confirmed reachable. Four requests are the fewest with which
one is on either device, one in prefill and one waiting. In `engine_full` a
sequence grows by five tokens from its prompt, over two block boundaries, and
four requests are one more than there are ids; two of full length fill the CPU.
Death by ids alone and death by CPU blocks alone were each confirmed reachable.
The passing runs have the intermediate layer. The default build without it ends
early in `shared_pool_overcommit`; that its queues, ids and devices agree until
then is proved (the theorems but `EngineLives` and `DiesOnlyFull` hold for
either build) and was run by hand (5 CPU blocks, 3 ids, 13442 states).

*Forward pass.* Two iterations are what it takes for work left on the copy
stream to meet the next iteration; a request prefilled in the first is decoded,
swapped or both in the second. Two layers are the fewest with a first, a last
and a double stage. A prompt of 4 fills two blocks, so that swaps have runs to
find within and across sequences and the first decode needs a block more;
prompts that leave their last block partly filled (2 and 3, 2 and 4 together,
some 626000 states each) were run by hand and hold. The run leaves out
`--int8-cpu-kv`, which differs from `--int8-transfer` in what is on the copy
stream of a swap-in only, where it is as for FP16; it too holds, run by hand.
`model_workers` and `int8_swap_out` have it.

*Start-up.* `DenseBits` 3 in place of 9 makes the dense part of the linear
table seven samples; the rest of every list is as in the code. Two
starts are one that leaves a file and one that finds it, wherever the first
was killed. Each unsupported command line is just beyond one of the conditions
of `Supported`, and six more just beyond one of `Compiled`: a block size other
than the library's, one larger than the smallest sequence block, a library for
another degree, heads that csrc does not have, ranks that cannot share the model,
and more tokens on the CPU than its arrays hold. Each was confirmed to fail, the
last one to fail or to serve, so that the conjuncts are not stronger than needed.
`SupportedStarts` is about the other five: `Base`, `Wider` and the three servers
that `evaluation/` starts for one configuration.
Blocks have 4 tokens, which is then what the library is built with, sequence
blocks 8 or 16, and one command line runs on two ranks with a library of its
own. The GPU memory in use is 0 or 10 of 80 slots. All starts have GPUs for
their ranks.

*Workers.* Each world is there for a case, named in `MCModelWorkers`: grouped
heads with decodes on both devices, prompts of several tiles, decodes split
over sequence blocks and over three threads (one sequence on two of them), two
sub-batches, two ranks, prompts for the CPU with and without the intermediate
layer, swaps in both INT8 ways, two ranks for one k/v head, which do not load, and
two worlds whose launches are refused. Blocks of a sequence are neither adjacent
nor ordered, and sequences outside the batch lie between them. Programs of a launch
do not read what others write (`NoRaces`), so that their order makes no
difference and one order would do; the run takes any. The programs of a group of
query heads in paged attention share one cell: each stores the newest key and value
into its block before it loads that block (`paged_attn.py:73-90`), so what it loads
of that cell is its own store, and that the others store the same there is what
`NoRaces` compares. The arrays of the CPU kernel hold 2 sequences and 8 tokens,
which the batches reach.

*Deadlock* is not checked: a server that has died or serves, a run at its bound
on requests, starts or iterations, and a block manager whose caller has no more
calls all stop, as they should.

### Fairness

`NeoEngine` assumes `WF_pc(Turn)`: in every state but "dead" the main loop
takes another turn. `get_next_batch` always returns, the forward pass always
returns (`IterationReturns` for the ranks), and `asyncio.sleep` ends; nothing is
assumed of arrivals, of the predictor, or of which policy is in force.
`RequestStream` assumes that asyncio runs each ready task, that the tokenizer
answers, and that each entered request goes on to get tokens, which is
`EveryRequestFinishes` of `NeoEngine`. `ModelWorkers` assumes that a launched
kernel runs and that a collective operation completes once every rank has called
it (`Continue`); it does not assume that they ever do. `BlockManager`,
`ForwardPass` and `PerfTables` state safety only.

## 4. Disagreements with what the code says of itself

Each is a run that TLC finds violated (`PROJECT.json`, `findings`, quotes the
lines).

* `shared_pool_overcommit`: without `extra_layer_for_cprf` (the default), prompts
  for the GPU and prompts for the CPU are each budgeted against all GPU blocks
  but share one pool, and `prepare` raises (`scheduler.py:300`).
* `starved_request`: a request on the CPU that needs more than 95% of the GPU's
  blocks is neither swapped in nor, on an idle GPU, decoded
  (`scheduler.py:173,278`): its client waits for ever.
* `int8_swap_out`: with INT8 swapping, the host stores a block it has only asked
  the copy stream for (`block_swapper.py:207`, and line 265 for INT8
  transfers). Both methods call themselves correct but slow. `forward_pass`
  shows that nothing else is wrong with the INT8 paths: it assumes that each
  such copy has run before the store.
* `stale_index`: tables that were stored for another configuration replace the
  sample lists and not the index lists made from them (`profiler.py:52`), so
  look-ups interpolate between samples that do not surround their argument.
* `stream_truncated`: a stream that resumes after the last iteration ends with
  tokens still queued (`engine.py:135`).

Two more that the models reproduce by a change of their constants, and that no
run is kept for: the guard on free ids (`scheduler.py:293`) admits one prompt
more than there are ids when `max_seqs_in_block_table = max_batch_size`, which
the engine's assertion allows (`MaxIds = 1` and two requests in `NeoEngine`);
and `forward_last_stage` does not swap out the second sub-batch's prompts
(`transformer_layer.py:511`; `CprfInSecond = TRUE` in `ForwardPass`). The
scheduler never puts prompts there; a variant given in `examples/example.py:169` does.

One worry of the code is shown to be unfounded: "if swapping is too slow,
there's risk that we writes to what's being swapped out"
(`transformer_layer.py:238`). `SwapsReadRight` holds, because `_preproj`
waits for the copy stream before it stores the next prompts; without that wait
(mutant `PreprojUnordered`) it does not.

What `SupportedStarts` had to exempt is worth knowing as well. A server that is
killed between `open(path, "w")` and the end of `json.dump` cannot be started
again until the file is removed by hand (`profiler.py:172`). Batches shorter than
the dense part of the linear table, and swap spaces of fewer blocks than
`max_batch_size`, end the profiler with an exception. So does every block size but
the one the library is built with (16, `dtype.h:19`, though `--block-size` is an
option), as soon as a test case decodes on the CPU (`pacpu.cpp:47-63`); a library
built with another would need a power of two from 4 on that divides every sequence
block (`paged_attn.py:200`). The heads of a rank must be among those csrc is compiled
for, and `--library-path`, which is optional, must be the build for this model and
degree. Nothing checks that the tokens of a test case on the CPU fit `MAX_TOK_NUM`:
with a large swap space the profiler writes past `attn_score_buf` (`core.h:283`).

What the properties do not reach, run by run:

* `KVInPlace` in `forward_pass` is about batches whose prompts for the CPU are in the
  first sub-batch, as the scheduler forms them; with `CprfInSecond = TRUE` it fails
  (above). It assumes that staged INT8 copies win; without that it is
  `int8_swap_out`.
* `EngineNeverDies` in `engine_offload` is about a server with ids and CPU blocks to
  spare; the ways to die of too few are in `engine_full`, where `DiesOnlyWhenFull`
  exempts them and nothing else.
* `StartsInOrder` is about the start of prompts. The decode queues do not keep the
  order of arrival: a victim goes in front of older requests (`scheduler.py:270`).
* The entry that `qk_product` reads behind a sequence of whole blocks
  (`pacpu.ispc:16`) is one of the block table, whose entries are not cells here.

## 5. What is proved

### The block manager

The theorems hold for every set of rows, block size, number of blocks, batch
limit and maximal length, with or without the intermediate layer. The only
assumptions are the named ones on the constants: the block size is a positive
natural number, sizes and limits are naturals, the switch is a Boolean.

* `BlockManagerProofs!TypeCorrect`: `Spec => []TypeOK`
* `BlockManagerProofs!Accounting`: `Spec => []AccountingExact`
* `BlockManagerProofs!Coverage`: `Spec => []BlocksMatchLength`

None of the three is inductive alone. `prepare` reads the counter to decide
whether it may allocate, and the bitmap to decide what, so accounting needs the
types and the agreement of the two. A swap allocates for a length and frees a
row, so that coverage (rows have the length the sequence needs, on one device)
is what makes the accounting of a swap come out; and coverage in turn needs the
accounting, for otherwise an allocation could take a block that a row still
names. At the end of an iteration rows are freed into split 0, which is right
only because the intermediate layer is empty by then. The inductive invariant
`IInv` is the three together with the fact that outside an iteration no batch is
running, so that every sequence is then one token short.

The argument runs in two layers. The first part of `BlockManagerProofs` shows what
one call does to one device that is exact with a given set of rows in the intermediate split:
`AllocSound` (the new blocks are distinct, were free, and are counted; old
entries stay) and `FreeSound`. They rest on `NthFreeProperty` (the k-th lowest
free block exists and is unique) and `AssignInjective`. The second part
follows `prepare` through its steps on the pair of devices, with the set of rows
in the intermediate split as it grows (`AllocForBatchSound`) and shrinks
(`CprfsSound`): `SwapSound`, then `OneBatch` or `TwoBatches`, joined in
`PrepareSound`. `OkBackwards` supplies that a call that did not raise did not
raise at any earlier step. `PrepareIInv`, `UpdateIInv` and `StutterIInv` are the
cases of `NextIInv`.

The actions are guarded by `LegalCall`; `Calls` is the set of calls that `Next`
draws from, which TLC can enumerate: any choice of batch and of swap for each
row, in any order of the rows.

### The shards

* `ShardsProofs!ShardsPartition`: for every size and every number of ranks that
  divides it, the slices the ranks load are disjoint, cover the dimension, and
  have the size the kernels take from the registered shape.
* `ShardsProofs!HeadsAligned`: for every number of query and k/v heads that
  loads on `ws` ranks, the k/v head a rank's kernels compute from the rank's own
  head counts is the one the whole model would use.

Both are arithmetic: that the ranks divide a dimension turns the slices
`rk * size // ws` into multiples of one part, and that they divide the k/v heads
makes the size of a query group the same on a rank as in the model. A model
whose k/v heads the ranks do not divide does not load, which `HeadsAligned`
needs and `Loads` says. `model_workers` uses the same operators for the index of
a head on a rank.

### Queues and scheduler

* `SchedulerProofs!SchedulerPromise`: for all queues, lengths, cache sizes and
  answers of the predictor, a result of either policy starts the first `n`
  waiting requests and no others, its queues hold exactly those and the decodes
  there were, each once, and its batches, if there are any, run distinct requests
  of these queues, among them every one that starts and the whole GPU queue.
* `SchedulerProofs!SchedulerPlaces`: the decodes of a batch for the GPU come from
  the queue of the GPU as the swaps leave it, those for the CPU from the other;
  the first batch prefills all that start, and each joins the queue of the device
  it is prefilled for.
* `SchedulerProofs!SchedulerAffords`: when the GPU can hold any one request alone
  (`Feasible`), the CPU can hold all that are queued and each that waits finds an
  id (`Roomy`), neither policy raises; swaps go one way; the requests left to the
  GPU, and the prompts for the CPU in their one intermediate layer, need no more
  than the GPU's blocks; no batch is empty; and the batches of an iteration
  together stay within `max_batch_size` and `max_tokens_in_batch`.

The first two follow one path through the policies: `Plan` names what a policy
decides before the mode is chosen (who stays, who is swapped, who starts), `Moves`
what swaps do to two queues, and `Shape` which batches `_decide_mode_and_gen_batch`
makes of it. The third follows the same path with the amounts: `Paid` says what
those decisions cost, and the cuts of step 5 only lower it. `QueuesProofs` has the facts about sequences these need: what `Kept`,
`PickAt`, slices and concatenation keep, and that positions are found by counting
(`Nth`). Where such a fact asks for induction, it is by the least counterexample
(`Least`): a set of naturals that is not empty has a least member, and this one
lemma is proved from the numbers below each member, so that no fact with an
operator as its parameter is needed. Counts of prompts (`NumPrefs`) are sums over
at most two batches, which are expanded.

Sums of blocks and of tokens are sums over queues of any length, folds by
definition. They are related to counting: `Weight(S, w)` is the number of pairs
of an element of `S` and a number up to its weight, so that sums of disjoint sets
add up, a smaller set weighs less, and a one-to-one renaming (requests by rows)
keeps the weight, all by the library's theorems on cardinality. That the fold
gives this number is `SumIsWeight`, again by a least counterexample: the function
that assigns every subset its fold and the one that assigns it its weight satisfy
the same recursion.

### The engine loop

For any number of requests, any prompts, outputs and limits, every size of the
caches, both switches, and arrivals at any time:

* `NeoEngineProofs!NothingLost`: `Spec => []NoRequestLost`
* `NeoEngineProofs!IdsNeverShared`: `Spec => []IdsExact`
* `NeoEngineProofs!FirstComeFirstServed`: `Spec => []StartsInOrder`
* `NeoEngineProofs!DevicesMatch`: `Spec => []QueuesMatchDevices`
* `NeoEngineProofs!EngineTypes`: `Spec => []TypeOK`
* `NeoEngineProofs!EngineBlocksExact`: `AccountingExact` and `BlocksMatchLength`
  of the block manager hold in every state of the engine.
* `NeoEngineProofs!EngineImplements`: `Spec => ImplementsBlockManager`

The assumptions are `SchedulerAssumption` and `EngineAssumption`; neither says
that there is room for anything, and an engine that raises is covered up to then.

The invariant of the first three, `NeoEngineProofs!IInv`, joins them with what
they need of one another. That nothing is lost when requests finish needs to know
that the running batches name decodes of the queues, each once
(`RunningDecodes`). That ids are exact needs the queues: the requests that start
are those without an id, which are the waiting ones (`WaitingInOrder`). First come,
first served needs that the waiting queue is in order of arrival and that
everything before it has started. `Initially` and `Stepwise` are its two halves;
the case of `Schedule` is `SchedulerPromise` and no more is used of the policies.

The refinement needs both sides at once. `NeoEngineProofs!DevInv` is `IInv`, the
inductive invariant of `BlockManagerProofs` on the mapped state, that queues and
devices agree, that the batches in progress consist of requests with a row, and
that a request fits (`Fits`). Each part needs others: the call is legal because a
decode is where its queue says (`QueuesMatchDevices`), prompts are given rows
that nobody holds (`IdsExact`) and hence of length 0 (`StartLens`), and a prompt
leaves room for a token (`Fits`); the queues agree with the devices afterwards
because `prepare` puts every row where `PreparePlaces` of `BlockManagerProofs`
says and `SchedulerPlaces` puts every request in that queue; a sequence stays
below `max_seq_len` because it is below its own end. `ChosenPlaces` is the heart:
the rows of what the scheduler returned are a legal call, and one that fills the
rows of the new queues. `CompleteUpdates` is the step back.

The module instantiates `BlockManagerProofs` with the substitution `NeoEngine`
has for `BlockManager`. To the prover these are two instances, so the first
lemmas show operator by operator that they define the same.

### What the server can die of

Any exception in the main loop ends the process, with all requests in it. The code
has no place that says when this may happen: blocks and ids are compared in the
scheduler and taken in the block manager, by other counts.

* `NeoEngineProofs!DiesOnlyFull`: `Sized` implies `Spec => []DiesOnlyWhenFull`.
  With the intermediate layer, a GPU that holds the longest sequence, and a batch
  limit and a threshold of the predictor that are not 0 (`Sized`), the server dies
  only in a state in which there are more requests than ids or the requests need
  more blocks than the CPU has. So it does not matter that CPU blocks are checked
  only when a prompt is admitted (`scheduler.py:257`), that victims are put on the
  CPU unchecked, that swapped lengths differ by a token, or that both policies may
  alternate: none of it fails while there is room at all.
* `NeoEngineProofs!EngineLives`: `Sized` and `Ample` imply
  `Spec => []EngineNeverDies`. `Ample` is room for all requests that will ever be
  sent: an id for each, and the blocks of as many longest sequences on the CPU.

`Sized` is needed: without the intermediate layer `shared_pool_overcommit` is a
death with room to spare; a sequence that outgrows the GPU ends in a swap-out
without a batch, which `prepare` refuses; and with `LinrThreshold = 0` step 5 may
cut the first batch to nothing, which `prepare` refuses as well. (A batch limit of
0 would only mean that nothing ever runs.)

The argument has three parts. `SchedulerAffords` is the scheduler's: the snapshot
of a state with room is `Feasible` and `Roomy` (`SnapshotFeasible`,
`SnapshotRoomy`; ids suffice because those taken are one for each request that
runs, `IdsSuffice`). `BlockManagerProofs!PrepareRuns` is the block manager's: a
legal call never runs out of blocks if what it leaves on the GPU, what it prefills
for the CPU and what it leaves on the CPU each fit (`Spacious`), because
allocation fails only by the counter, and the counter is exact, so that every
step of `prepare` is a comparison of what is held with what there is. Between them
`CallSpacious` and `CallAsserts` carry the scheduler's amounts, which count
requests, to the block manager's, which count rows. The invariant is `DevInv` of
the refinement together with `GpuKept`: under `disable_partial_offl` the scheduler
counts no GPU blocks, and nothing is ever queued for the GPU (`GpuUnused`).

### The streams of tokens

* `RequestStreamProofs!TypesHold`, `StreamsInOrder`, `NothingDropped`:
  `Spec => []TypeOK`, `[]StreamInOrder` and `[]NoRequestDropped` for any set of
  clients and any interleaving of handlers, tokenizer loop and main loop.

`StreamInOrder` says that what a client got and what is queued for it are, end to
end, what was generated. The invariant adds what no action says for itself: a
client that has submitted nothing has no tokens and is in no list, a handler
that waits for the end does not stream, and what is still to be tokenized was
submitted as text.

### Rows

* `BlockManagerProofs!RowsStay`: `Spec => RowsStable`. This is an action property:
  from the inductive invariant, `prepare` only appends to a row that had blocks on
  a device, or empties it, and the end of an iteration does the latter.

### The forward pass

For every number of layers, batches of any size, any number of iterations, all ways
of swapping, and at every relative speed of the host and of the two streams:

* `ForwardPassProofs!OutputsInTime`: `Spec => []OutputsArrive`
* `ForwardPassProofs!QkvInTime`: `Spec => []QkvArrive`

These are the two places where the code keeps three actors in step with one buffer,
one event and one wait each. Nothing in it says why that suffices; the proof says it
in three parts.

The first is about the host alone. A sub-batch is *free*, *projected* (`preproj` was
called), *moving* (`transfer_qkv` was) or *attended* (`cpu_attention` was), and
`postproj` frees it. `Script(s, p, q)` says that the calls `s` take both sub-batches
from the phases `p` to `q` without ever letting the two move at once. That
`forward` for all layers, and the pipeline of two sub-batches with its first stage,
`forward_double` for each layer and last stage, are such scripts is `BatchesScript`:
it holds for every number of layers because each stage begins and ends with the same
phases (`Between`), although the stage is one layer on. The calls for single blocks
that INT8 swaps add to the host's program leave the phases alone (`BlockScript`);
that there are only finitely many of them needs that rows are sequences (`PlaneInv`,
`PlanePrepare`).

The second is about the streams. `Extended`, `Advanced` and `Nearer` are all that ever
happens to what a stream has still to run: more comes behind it, its first operation
runs, and its waits come one operation nearer.

The third joins the two. What is under way for a sub-batch with decodes on the CPU
depends on its phase. `QkvOf`: the only projections in the compute stream are of the
layer it is on, or they have run and `qkv` is of that layer. `MovingOf`: all its
projections in the compute stream run before the copy of q, k, v starts (`Settled`: the
copy waits for as much of the compute stream as there was), the buffer is its own, and
every copy into or out of a buffer is followed by the event, so that an event that has
happened means that all of them have. `Arrives`: the outputs are in `attn_out`, or the
host has computed them, their copy is in the copy stream, and the compute stream has a
wait for it before the projection. The lemmas `…Grows`, `…Compute` and `…Comm` follow
each of these through the three things that can happen to a stream, `Stream…` put them
together for each kind of step, and `…Step` are the cases of `NextFInv`.
`QkvHaveArrived` and `OutputsHaveArrived` read the properties off the invariant.

The sub-batches without decodes on the CPU are left out of the invariant: for them
`transfer_qkv` copies nothing and the phases go by. The invariant `FInv` was checked
with TLC on the instance of `forward_pass` before it was proved.

### The start of a server

For every set of command lines and measured peaks, any number of starts and layers,
any depth of the dense samples, and files left by any earlier starts, whole or torn:

* `PerfTablesProofs!TablesTyped`: `Spec => []TypeOK`
* `PerfTablesProofs!ProfilingReturnsAll`: `Spec => []ProfilingLeavesNothing`
* `PerfTablesProofs!CacheAllocated`: `Spec => []CacheFits`
* `PerfTablesProofs!LookupsServed`: `Spec => []LookupsBracket`
* `PerfTablesProofs!ServedComplete`: `Spec => []TablesComplete`, from `TwoBlocks`: the
  longest sequences of every command line have at least two blocks
* `PerfTablesProofs!LookupsExact`: the same of one look-up, for any list of sizes
  that never falls and any table that agrees with it and may go on behind it.

`StartAssumption` is what a command line can be (`CommandLines`): integers, of which
those that something is divided by are positive. The code refuses none of the others,
and `Start` decides what fails.

The sample lists are made of powers of two up to the bit length of a limit, and no
prover knows what those are. `Doubling` counts subsets: the subsets of a set with one
element more are twice as many. So `2^n` is positive, doubles and grows, and every
number is below some power (`PowerBeyond`), which makes `BitLength` what it should be
(`Bits`). From this `StepListRises`, `CdecSRises`, `CdecAggRises` and `LinrRises` show
that the lists never fall and end in the limit they are chosen for; the linear one
only when a batch is at least as large as the dense part, which `Supported` says.
`SortedRises` needs that ranks exist in a finite set, and `LbIdxRight`, that
`_get_lb_idx_list` gives the first sample that is not smaller, goes over the list
segment by segment, with a least counterexample in place of induction. Why a linear
table of a longer batch still answers right, although the index list is that of the
shorter one, is `LinrGoesOn`: the longer list agrees with the shorter one in all but
the last sample, and there it is no smaller.

The inductive invariant `StartInv` has four parts. `ControlInv`: while tables are
profiled or served, the configuration is one that the start did not refuse, so that
all sizes are positive (`StartLegal`). `FilesInv`: a file that is not torn has an entry
for each of its samples, a linear one has the samples of some size of batch, and the
tables done so far are what disk holds and reach as far as this configuration.
`MonitorInv`: results are kept from the first timed iteration on, one for each.
`CaseInv`: a test case holds exactly its own blocks while it runs, and nothing
between two. It was checked with TLC on the instance of `startup` before it was proved.

What is served was measured for its own sample: `TimedInv`, again checked with TLC
first, is added to `StartInv`. `MeasuredTimed`: the entries measured so far have the
times of their samples. `ResultsTimed`: the results kept of a running case are its own;
this needs that every event an iteration reads has been recorded again in that same
iteration (`IterationTimes`), since events of the last case are never cleared.
`FilesTimed`: a complete file has the times of the samples it names, whoever wrote it,
so that entries taken over from a shorter linear table stay right. `TornFills`: once the
cdec file is open for writing, the assertions of the two filling loops hold of what is
about to be written.

That filling then leaves no cell without a number is most of the proof. A
placeholder is filled from three neighbours which may be placeholders themselves, by
a recursive function for each of the two kinds.
`FillExists` shows by a least counterexample over the distance to the filled corner
that such a function exists, `FillTimes` that it has no value but those of measured and
extrapolated cells. What is left is that no placeholder asks for a cell outside of the
table or of the other kind: the numbers of sequences at most double from one row to the
next (`CdecSRises`), so that the tokens of two rows overlap, if sequences have two blocks
(`RowsReach`), and each row has samples of its own within the table (`CellsFilled`).

`TwoBlocks` is asked for although `TablesComplete` is only about configurations with
sequences of two blocks. A start with sequences of one block may leave cells that are
not a number in its cdec file, which a later, supported start with the same samples
loads. TLC finds this with a block of 4 tokens, batches of 7, a swap space of 24, a batch
size of 3, 2 GPU blocks and `RotarySlack` 4. The code excludes neither start; the
default `max_blocks_per_seq` is 512.

### Only model-checked

* `EngineNeverDies` of the instance of `engine_offload`, whose CPU holds the
  requests although not as many of the greatest length (`Ample` asks for more).
* What the blocks hold in `ForwardPass` (`GpuReadsRight`, `CpuReadsRight`,
  `SwapsReadRight`, `KVInPlace`): each is about the content of every block at every
  relative speed of the copies, and an invariant of it has to follow both devices'
  tables, the copies under way and the tokens they move all at once.
* `SupportedStarts` of `PerfTables`: that no test case of a configuration that fits its
  own limits (`Supported`) and the compiled kernels (`Compiled`) is refused.
* Everything about `ModelWorkers`.
* Liveness under fairness, which the prover does not reach, nor ENABLED.
* Facts by the library's induction theorems, which take an operator as parameter
  that the installed provers cannot instantiate. What was needed here (positions in
  a queue, sums) has a least counterexample in its place. No module declares a
  RECURSIVE operator.

## 6. What is not modelled

* Numerics: values are abstracted to what they were computed from. Rounding, and
  with it the error of INT8 (`tests/test_int8_correctness.py`), is outside.
* The event objects of the two-batch pipeline. Profiling, which alone turns the
  monitor on, runs single batches.
* The prefill kernel for GPUs before Ampere together with tensor parallelism: it
  is given the head counts of the whole model (`prefill_attn.py:127`); the
  worlds of two ranks take flash attention.
* A parallel region with fewer threads than `omp_get_max_threads()`
  (`core.h:287`), which would leave tasks undone.
* `max_output_len = 0`, which the code accepts and then never finishes
  (`structs.py:65`): a hazard without a property.
* CPU blocks under `--int8-cpu-kv` are counted at FP16 size (`profiler.py:416`):
  fewer blocks than fit do no harm but to the number of offloaded sequences.
* HTTP, text, weight file formats, Ray's own start-up.
* The vector loops of the CPU kernels, and with them the entry of the block table
  that a loop over blocks reads in vain (`pacpu.ispc:16`).
* Fewer GPUs than ranks.
* `kernels/kvcache_mgmt.py`, `kernels/block_mgmt.py` and `csrc/src/attention.cu`,
  which nothing uses, and the profiler's launch table and pipelined test cases,
  which nothing calls.
* Clients, benchmarks, plots and notebooks. Of `evaluation/` the command lines of
  the compared servers are modelled.

Approximations inside what is modelled: in `ForwardPass` the tensors q, k, v of a
sub-batch are one register each, since the allocator reuses them in stream order,
and the rank-0 worker is taken, which alone reads the output tokens back; in
`ModelWorkers` launches run one after the other, which `ForwardPass` is about,
and an all-reduce is one step; in `PerfTables` the GPU memory in use at the
peak is an input, and a file is either complete or unreadable.

## 7. Plan

Done: the block manager and its theorems, the scheduler and the engine loop, their
invariants, their refinement to the block manager and what the loop can die of,
with proofs, the request
handlers with theirs, the forward pass with FP16 and INT8 swaps and the theorems about
its streams, the start of the server with predictor and profiler and the theorems about
its tables, the kernels, the CPU kernel and the ranks, the shards and their theorems.

Next, most important first:

1. **Start-up**: that a supported configuration starts (`SupportedStarts`), for any
   configuration.
2. **Streams**: `SwapsReadRight` for any number of layers, by an invariant on the
   waits in the two queues; a lemma that `SwapBlocks` is the plain copy when the
   targets are distinct.
3. **Layout**: that `AllLastTokens` is injective and within the buffers for
   batches of any size.
4. **Model**: the pipeline's timing events, and fewer threads than tasks.
