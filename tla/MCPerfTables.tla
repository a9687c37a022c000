----------------------------- MODULE MCPerfTables -----------------------------
(* Small command lines for PerfTables: widths below 8 have a sample each. *)
EXTENDS PerfTables

(* Kernels and builds of pacpu for the model on one rank and on two. *)
MCHeads == {<<8, 4>>, <<4, 2>>}

OneRank == Library(8, 4, 2)

TwoRanks == Library(4, 2, 2)

Base ==
    [CliDefaults EXCEPT !.library_path = OneRank, !.block_size = 4, !.max_blocks_per_seq = 4, !.swap_space = 64,
                        !.max_seqs_in_block_table = 4, !.max_batch_size = 3, !.max_tokens_in_batch = 11]

(* Two ranks, a longer batch and the extra layer. *)
Wider ==
    [Base EXCEPT !.max_tokens_in_batch = 13, !.extra_layer_for_cprf = TRUE,
                 !.tensor_parallel_degree = 2, !.library_path = TwoRanks]

(* An evaluation on a fixed number of blocks. *)
Evaluation ==
    [num_gpu_blocks_override |-> 7, swap_space |-> 160, block_size |-> 4, max_num_seqs |-> 2,
     max_num_batched_tokens |-> 8, tensor_parallel_size |-> 1, library |-> OneRank]

MCEvaluations == {Evaluation}

Evaluated == {CommandLine(name, Evaluation) : name \in Servers}

(* Each just beyond what can be profiled. *)
ShortBatch == [Base EXCEPT !.max_tokens_in_batch = 6]

SmallSwap == [Base EXCEPT !.swap_space = 16]

OddBlocks == [Base EXCEPT !.block_size = 3]

SmallBlocks == [Base EXCEPT !.block_size = 2]

PerChannel == [Base EXCEPT !.int8_cpu_kv = TRUE, !.quant_granularity = "per-channel"]

(* Each just beyond what was compiled. *)
LargeBlocks == [Base EXCEPT !.block_size = 8]

HugeBlocks == [Base EXCEPT !.block_size = 16, !.max_batch_size = 2]

OtherLibrary == [Base EXCEPT !.tensor_parallel_degree = 2]

NoKernels ==
    [Base EXCEPT !.tensor_parallel_degree = 4, !.library_path = Library(2, 1, 2), !.num_gpu_blocks_override = 8]

UnevenRanks == [Base EXCEPT !.tensor_parallel_degree = 8]

LargeSwap == [Base EXCEPT !.swap_space = 96]

NotCompiled == {LargeBlocks, HugeBlocks, OtherLibrary, NoKernels, UnevenRanks, LargeSwap}

Restarts == {Base, Wider} \cup Evaluated

Unsupported == {Base, ShortBatch, SmallSwap, OddBlocks, SmallBlocks, PerChannel}

OneConfig == {Base}

AllConfigs == Restarts \cup Unsupported \cup NotCompiled

=============================================================================
