------------------------------ MODULE PerfTables ------------------------------
(***************************************************************************)
(* The start of a server (server/engine.py, server/profiler.py): the       *)
(* blocks are counted, four tables of measured times are loaded from disk  *)
(* or profiled sample by sample and written, and the scheduler is served   *)
(* from them.  Starts with other configurations find the files of earlier  *)
(* ones, and a crash may leave a file that was opened and not yet written. *)
(***************************************************************************)
EXTENDS PerfPredictor, PerfEvents, KernelChecks, FiniteSets

CONSTANTS
    Configs,            \* the command lines a start may be given
    Evaluations,        \* the configuration files of evaluation/server.py
    Peaks,              \* the GPU memory in use that a start may measure
    UsableMemory,       \* total memory times gpu_mem_utilization, in KV slots of one layer
    NWarmup,            \* iterations of a test case before the timed ones (the code: 2)
    NRepeat,            \* timed iterations (the code: 3)
    MaxStarts,          \* bound on the starts of a behaviour
    NumQHeads, NumKvHeads, HeadDim, FfnInterDim, VocabSize,     \* the model
    MaxSeqBlock, MinSeqBlock, Occupancy, MaxSplit               \* of BatchLayout

Layout == INSTANCE BatchLayout

Tensor == INSTANCE Shards

(* add_cli_args: every argument is an integer, a switch or one of its choices, and the sizes     *)
(* that others are divided by are positive.                                                      *)
CommandLines ==
    [block_size : Nat \ {0}, max_blocks_per_seq : Nat \ {0}, num_gpu_blocks_override : Nat \cup {-1},
     swap_space : Nat, max_seqs_in_block_table : Nat, max_batch_size : Nat \ {0}, max_tokens_in_batch : Nat,
     extra_layer_for_cprf : BOOLEAN, disable_partial_offl : BOOLEAN, always_use_gpu : BOOLEAN,
     int8_cpu_kv : BOOLEAN, int8_transfer : BOOLEAN,
     quant_granularity : {"per-token", "per-channel", "per-token-per-head"},
     library_path : Libraries, tensor_parallel_degree : Int, num_cpu_blocks : {-1}, num_gpu_blocks : {-1}]

ASSUME StartAssumption ==
    /\ Configs \subseteq CommandLines /\ Configs # {}
    /\ \A e \in Evaluations : e.num_gpu_blocks_override \in Nat /\ e.block_size \in Nat
    /\ Peaks \subseteq Nat /\ UsableMemory \in Nat
    /\ NWarmup \in Nat /\ NRepeat \in Nat \ {0} /\ MaxStarts \in Nat
VARIABLES
    disk,       \* the files of profile_result_path: absent, opened but not written, or complete
    conf,       \* the engine's configuration, with the numbers of blocks
    pp,         \* the predictor's tables
    measured,   \* the times of the table being profiled
    run,        \* the iteration of the running test case, or Idle
    monitor,    \* monitor_performance of the worker that reports (rank 0)
    events,     \* its timing events, each with the iteration and the step that recorded it
    results,    \* its perf_results, each named by the sample whose times it read
    held,       \* blocks <<gpu, cpu>> that profiling requests hold in the block manager
    pc,         \* "down", the table being prepared, "serving", or "failed"
    free,       \* the memory left when the blocks were counted
    starts      \* starts so far

case == <<run, monitor, events, results>>

vars == <<disk, conf, pp, measured, case, held, pc, free, starts>>

Absent == [state |-> "absent"]

Torn == [state |-> "torn"]

File(Ss, xs, ys) == [state |-> "complete", S |-> Ss, xs |-> xs, ys |-> ys]

Idle == -NWarmup - 1

(* A time is the mean of some results, and is named by them; other entries by what they are. *)
Measured(res) == [kind |-> "measured", at |-> res]

Mark(kind) == [kind |-> kind, at |-> <<>>]

NextTable == [linr |-> "pref", pref |-> "gdec", gdec |-> "cdec", cdec |-> "serving"]

NoTables == [t \in Tables |-> Absent]

(* add_cli_args: what a command line leaves unsaid *)
CliDefaults ==
    [block_size |-> 16, max_blocks_per_seq |-> 512, num_gpu_blocks_override |-> -1, swap_space |-> 20,
     max_seqs_in_block_table |-> 768, max_batch_size |-> 512, max_tokens_in_batch |-> 3072,
     extra_layer_for_cprf |-> FALSE, disable_partial_offl |-> FALSE, always_use_gpu |-> FALSE,
     int8_cpu_kv |-> FALSE, int8_transfer |-> FALSE, quant_granularity |-> "per-token",
     library_path |-> NoLibrary, tensor_parallel_degree |-> 1, num_cpu_blocks |-> -1, num_gpu_blocks |-> -1]

Servers == {"base", "ours", "fsdc"}

(* The GPU blocks an evaluated server is given: an extra layer's worth less where it has that layer. *)
Override(name, config) ==
    IF name = "base" THEN config.num_gpu_blocks_override
    ELSE (config.num_gpu_blocks_override * NumLayers) \div (NumLayers + 1)

(* start_server: the command line of a server to be evaluated *)
CommandLine(name, config) ==
    [CliDefaults EXCEPT
        !.always_use_gpu = (name = "base"),
        !.extra_layer_for_cprf = (name # "base"),
        !.disable_partial_offl = (name = "fsdc"),
        !.num_gpu_blocks_override = Override(name, config),
        !.swap_space = IF name = "base" THEN config.swap_space \div 8 ELSE config.swap_space,
        !.block_size = config.block_size,
        !.max_blocks_per_seq = (config.max_num_batched_tokens - 1) \div config.block_size + 1,
        !.max_seqs_in_block_table = config.max_num_seqs,
        !.max_batch_size = config.max_num_seqs,
        !.max_tokens_in_batch = config.max_num_batched_tokens,
        !.tensor_parallel_degree = config.tensor_parallel_size,
        !.library_path = config.library]

(***************************************************************************)
(* The blocks                                                              *)
(***************************************************************************)

(* get_kvslot_size, in slots of one layer *)
KvSlotSize(extra) == NumLayers + IF extra THEN 1 ELSE 0

(* profile_num_blocks: the copies of the derived numbers in the configuration. *)
NumCpuBlocks(c) == c.swap_space \div (c.block_size * KvSlotSize(FALSE))

(* mutant: the extra layer is not counted *)
NumGpuBlocksWithoutExtra(c, peak) ==
    IF c.num_gpu_blocks_override # -1 THEN c.num_gpu_blocks_override
    ELSE (UsableMemory - peak) \div (c.block_size * KvSlotSize(FALSE))

NumGpuBlocks(c, peak) ==
    IF c.num_gpu_blocks_override # -1 THEN c.num_gpu_blocks_override
    ELSE (UsableMemory - peak) \div (c.block_size * KvSlotSize(c.extra_layer_for_cprf))

WithBlocks(c, peak) ==
    [c EXCEPT !.num_cpu_blocks = NumCpuBlocks(c), !.num_gpu_blocks = NumGpuBlocks(c, peak)]

(* Swapper.__init__: the slots of one layer that k_cache and v_cache take. *)
CacheSlots(c) == (NumLayers + IF c.extra_layer_for_cprf THEN 1 ELSE 0) * c.num_gpu_blocks * c.block_size

(* Engine.__init__'s assertions *)
EngineAsserts(c) ==
    /\ c.max_batch_size <= c.max_tokens_in_batch
    /\ c.max_batch_size <= c.max_seqs_in_block_table
    /\ c.tensor_parallel_degree >= 1

(* Swapper.__init__ refuses one scale per channel in an INT8 cache on the CPU. *)
SwapperRaises(c) == c.int8_cpu_kv /\ c.quant_granularity = "per-channel"

(* load_weights divides each split dimension between the ranks. *)
WeightsLoad(c) ==
    Tensor!Loads(Tensor!LayerWeights(NumQHeads, NumKvHeads, FfnInterDim) \cup Tensor!ModelWeights(VocabSize),
                 c.tensor_parallel_degree)

(* The heads of a rank. *)
LocalQ(c) == Tensor!RealSize(NumQHeads, c.tensor_parallel_degree)

LocalKv(c) == Tensor!RealSize(NumKvHeads, c.tensor_parallel_degree)

(* Every pass begins with projections and their rotary embedding. *)
Projects(c) == RotaryCompiled(LocalQ(c), LocalKv(c), HeadDim)

(* profile_num_blocks raises unless the forged batch runs, memory is left and a full batch fits; *)
(* then the predictor is built.                                                                  *)
StartRaises(c, peak) ==
    \/ ~EngineAsserts(c)
    \/ ~WeightsLoad(c)
    \/ c.num_gpu_blocks_override = -1 /\ (~Projects(c) \/ UsableMemory < peak)
    \/ NumGpuBlocks(c, peak) * c.block_size < c.max_tokens_in_batch
    \/ SwapperRaises(c)
    \/ FractionalSamples(WithBlocks(c, peak))

Init ==
    /\ disk = NoTables
    /\ conf = CHOOSE c \in Configs : TRUE
    /\ pp = NoTables
    /\ measured = <<>>
    /\ run = Idle /\ monitor = FALSE /\ events = NoEvents /\ results = <<>>
    /\ held = <<0, 0>>
    /\ pc = "down"
    /\ free = 0
    /\ starts = 0

Start(c, peak) ==
    /\ pc \in {"down", "failed"}
    /\ starts < MaxStarts
    /\ starts' = starts + 1
    /\ conf' = WithBlocks(c, peak)
    /\ free' = UsableMemory - peak
    /\ pc' = IF StartRaises(c, peak) THEN "failed" ELSE "linr"
    /\ pp' = NoTables /\ measured' = <<>> /\ held' = <<0, 0>>
    /\ run' = Idle /\ monitor' = FALSE /\ events' = NoEvents /\ results' = <<>>
    /\ UNCHANGED disk

(***************************************************************************)
(* Profiling                                                               *)
(***************************************************************************)

Samples(t) == SampleList(conf, t)

(* _profile_linr measures from the largest sample down; the other tables from the smallest up. *)
CurrentSample(t) ==
    LET n == Len(measured) IN
    IF t = "linr" THEN Samples(t)[Len(Samples(t)) - n] ELSE Samples(t)[n + 1]

(* The loop over the cdec table is over both arguments. *)
CurrentCell ==
    LET n == Len(measured)  w == Len(Samples("cdec")) IN <<(n \div w) + 1, (n % w) + 1>>

Cells(t) == IF t = "cdec" THEN Len(CdecSList(conf)) * Len(Samples(t)) ELSE Len(Samples(t))

(* The value _profile_cdec puts without measuring: below a row's first sample or beyond its last. *)
Placeholder(i, j) ==
    LET N == CdecAgg(conf)[j]  row == CdecNLists(conf)[i]
    IN  Mark(IF N < row[1] THEN "zero" ELSE IF N > Last(row) THEN "inf" ELSE "none")

(* A file is used when it reaches as far as the configured samples. *)
Reaches(f, t) ==
    /\ f.state = "complete"
    /\ Last(f.xs) >= Last(Samples(t))
    /\ t = "cdec" => Last(f.S) >= Last(CdecSList(conf))

(* _profile_cdec compares and stores N_lists; look-ups use the columns of the current start. *)
Loaded(f, t) == IF t = "cdec" THEN [f EXCEPT !.xs = Samples(t)] ELSE f

(* The requests of a test case, as lists of lengths: one prompt of S tokens, ... *)
PromptCase(S) == [pref |-> <<S>>, gdec |-> <<>>, cdec |-> <<>>]

(* ... sequences of the greatest length and one of the rest of N tokens, on the GPU, ... *)
GdecCase(N) ==
    LET L == MaxSeqLen(conf)
    IN  [pref |-> <<>>, gdec |-> Repeated((N - 1) \div L, L) \o <<((N - 1) % L) + 1>>, cdec |-> <<>>]

(* ... or N tokens in S sequences as even as possible, in whole blocks, on the CPU. *)
CdecCase(S, N) ==
    LET NB == N \div conf.block_size
        even(blocks, seqs) == Repeated(seqs, blocks * conf.block_size)
    IN  [pref |-> <<>>, gdec |-> <<>>,
         cdec |-> even(NB \div S, S - (NB % S)) \o even(NB \div S + 1, NB % S)]

TestCase(t) ==
    CASE t \in {"linr", "pref"} -> PromptCase(CurrentSample(t))
      [] t = "gdec" -> GdecCase(CurrentSample(t))
      [] t = "cdec" -> CdecCase(CdecSList(conf)[CurrentCell[1]], CdecAgg(conf)[CurrentCell[2]])

Total(s) == FoldSeq(LAMBDA a, b : a + b, 0, s)

BlocksOf(lens) == Total([i \in DOMAIN lens |-> CeilDiv(lens[i], conf.block_size)])

NumReqs(tc) == Len(tc.pref) + Len(tc.gdec) + Len(tc.cdec)

(* What prepare, the block tables and the rotary table require of a test case. *)
TestCaseRuns(tc) ==
    /\ NumReqs(tc) <= conf.max_batch_size
    /\ Total(tc.pref) + Len(tc.gdec) + Len(tc.cdec) <= conf.max_tokens_in_batch
    /\ held[1] + BlocksOf(tc.pref \o tc.gdec) <= conf.num_gpu_blocks
    /\ held[2] + BlocksOf(tc.cdec) <= conf.num_cpu_blocks
    /\ \A len \in ToSet(tc.pref \o tc.gdec \o tc.cdec) : len <= MaxSeqLen(conf) + RotarySlack

(* What the kernels of a pass raise on: heads nobody compiled, a sequence block that is not whole *)
(* blocks, or a library that was not made for this model, this degree and this size of blocks.    *)
KernelsRun(tc) ==
    LET seqBlock == Layout!SeqBlockSize(NumKvHeads, Total(tc.gdec), Layout!Largest(tc.gdec)) IN
    /\ Projects(conf)
    /\ tc.pref # <<>> => StoreCompiled(LocalKv(conf), HeadDim)
    /\ tc.gdec # <<>> => WholeSeqBlocks(seqBlock, conf.block_size)
    /\ tc.cdec # <<>> => HyperParamsExpected(conf.library_path, LocalQ(conf), LocalKv(conf), NumLayers,
                                            HeadDim, conf.block_size)

(* create_request(..., quick_stop=True) and is_finished after the one token of a test case. *)
(* mutant: no quick stop, as for the requests of examples *)
CreateEndless(output) == [output_len |-> output, max_output_len |-> 10^9]

CreateRequest(output) == [output_len |-> output, max_output_len |-> output + 1]

FinishedAfterOne(req) == req.output_len + 1 = req.max_output_len

(* prepare allocates for every request, update_and_free releases the ones that have finished. *)
Allocated(tc) == <<held[1] + BlocksOf(tc.pref \o tc.gdec), held[2] + BlocksOf(tc.cdec)>>

Released(tc) ==
    LET freed(lens, output) == IF FinishedAfterOne(CreateRequest(output)) THEN BlocksOf(lens) ELSE 0
    IN  <<held[1] - freed(tc.pref, 0) - freed(tc.gdec, 1), held[2] - freed(tc.cdec, 1)>>

(* The time of a sample is known without a run: an entry of the old file, or a placeholder. *)
KnownTime(t) ==
    CASE t = "linr" -> IF disk[t].state = "complete" /\ CurrentSample(t) \in ToSet(disk[t].xs)
                       THEN disk[t].ys[CHOOSE k \in DOMAIN disk[t].xs : disk[t].xs[k] = CurrentSample(t)]
                       ELSE Mark("none")
      [] t = "cdec" -> Placeholder(CurrentCell[1], CurrentCell[2])
      [] OTHER -> Mark("none")

CurrentCase(t) ==
    IF t = "cdec" THEN <<CdecSList(conf)[CurrentCell[1]], CdecAgg(conf)[CurrentCell[2]]>>
    ELSE <<CurrentSample(t)>>

(* `assert N % block_size == 0` *)
WholeBlocks(t) == t = "cdec" => CdecAgg(conf)[CurrentCell[2]] % conf.block_size = 0

(* A row's placeholders are extrapolated from the entries around them, zeros from the row above *)
(* and the column to the right, then infinities from the row below and the column to the left.  *)
Combine(a, b, c) ==
    Mark(IF "nan" \in {a.kind, b.kind} \/ c.kind \in {"nan", "inf"} THEN "nan"
         ELSE IF "inf" \in {a.kind, b.kind} THEN "inf" ELSE "extrapolated")

CdecCells == (1..Len(CdecSList(conf))) \X (1..Len(CdecAgg(conf)))

RawTime(i, j) == measured[(i - 1) * Len(CdecAgg(conf)) + j]

ZeroFilled ==
    LET z[p \in CdecCells] ==
            IF RawTime(p[1], p[2]).kind # "zero" THEN RawTime(p[1], p[2])
            ELSE Combine(z[<<p[1] - 1, p[2]>>], z[<<p[1], p[2] + 1>>], z[<<p[1] - 1, p[2] + 1>>])
    IN  z

InfFilled ==
    LET zeroFilled == ZeroFilled
        f[p \in CdecCells] ==
            IF zeroFilled[p].kind # "inf" THEN zeroFilled[p]
            ELSE Combine(f[<<p[1] + 1, p[2]>>], f[<<p[1], p[2] - 1>>], f[<<p[1] + 1, p[2] - 1>>])
    IN  f

(* The assertions inside the two loops. *)
FillAsserts ==
    /\ \A p \in CdecCells : RawTime(p[1], p[2]).kind = "zero" => p[1] > 1 /\ p[2] < Len(CdecAgg(conf))
    /\ \A p \in CdecCells : ZeroFilled[p].kind = "inf" => p[1] < Len(CdecSList(conf)) /\ p[2] > 1

(* What is stored for a table; T_list was built in reverse for the linear part. *)
Profiled(t) ==
    CASE t = "linr" -> File(<<>>, Samples(t), Reverse(measured))
      [] t = "cdec" -> LET filled == InfFilled IN
                       File(CdecSList(conf), Samples(t),
                            [i \in DOMAIN CdecSList(conf) |-> [j \in DOMAIN Samples(t) |-> filled[<<i, j>>]]])
      [] OTHER -> File(<<>>, Samples(t), measured)

(***************************************************************************)
(* Actions of init_profile_tables, one table after the other               *)
(***************************************************************************)

AllMeasured(t) == Len(measured) = Cells(t)

Adopt(t, file) ==
    /\ pp' = [pp EXCEPT ![t] = file]
    /\ pc' = NextTable[t]
    /\ measured' = <<>>

Fail ==
    /\ pc' = "failed"
    /\ UNCHANGED <<disk, conf, pp, measured, case, held, free, starts>>

(* mutant: a file that cannot be read is taken as it is *)
LoadAnyway(t) ==
    /\ pc = t /\ measured = <<>>
    /\ disk[t] = Torn
    /\ Adopt(t, disk[t])
    /\ UNCHANGED <<disk, conf, case, held, free, starts>>

(* The file exists: json.load raises on one that was never written. *)
LoadFails(t) ==
    /\ pc = t /\ measured = <<>>
    /\ disk[t] = Torn
    /\ Fail

Load(t) ==
    /\ pc = t /\ measured = <<>>
    /\ Reaches(disk[t], t)
    /\ Adopt(t, Loaded(disk[t], t))
    /\ UNCHANGED <<disk, conf, case, held, free, starts>>

Profiling(t) == pc = t /\ run = Idle /\ disk[t] # Torn /\ ~Reaches(disk[t], t) /\ ~AllMeasured(t)

TakeKnown(t) ==
    /\ Profiling(t)
    /\ KnownTime(t) # Mark("none")
    /\ measured' = Append(measured, KnownTime(t))
    /\ UNCHANGED <<disk, conf, pp, case, held, pc, free, starts>>

(* _run_test_case: prepare allocates the requests' blocks, once for all iterations. *)
BeginCase(t) ==
    /\ Profiling(t)
    /\ KnownTime(t) = Mark("none")
    /\ WholeBlocks(t) /\ TestCaseRuns(TestCase(t))
    /\ held' = Allocated(TestCase(t))
    /\ run' = -NWarmup
    /\ UNCHANGED <<disk, conf, pp, measured, monitor, events, results, pc, free, starts>>

BeginFails(t) ==
    /\ Profiling(t)
    /\ KnownTime(t) = Mark("none")
    /\ ~(WholeBlocks(t) /\ TestCaseRuns(TestCase(t)))
    /\ Fail

(* A ModelPerfResult of the iteration that has just run. *)
PerfResult(t) == IF TimesOf(events', <<t, CurrentCase(t), run>>) THEN CurrentCase(t) ELSE <<>>

(* One iteration; the monitor is turned on before iteration 0, and a forward pass records while it is on. *)
Iterate(t) ==
    /\ pc = t
    /\ run \in -NWarmup..(NRepeat - 1)
    /\ KernelsRun(TestCase(t))
    /\ monitor' = (monitor \/ run = 0)
    /\ events' = IF monitor' THEN Recorded(events, IterationEvents(t = "cdec"), <<t, CurrentCase(t), run>>)
                 ELSE events
    /\ results' = IF monitor' THEN Append(results, PerfResult(t)) ELSE results
    /\ run' = run + 1
    /\ UNCHANGED <<disk, conf, pp, measured, held, pc, free, starts>>

(* A kernel raises.  A case beyond the arrays of pacpu overwrites other memory: it may end the    *)
(* process here, or go unnoticed, since of a test case only the times are kept.                   *)
IterationFails(t) ==
    /\ pc = t
    /\ run \in -NWarmup..(NRepeat - 1)
    /\ LET tc == TestCase(t) IN ~KernelsRun(tc) \/ ~ScratchHolds(Len(tc.cdec), Total(tc.cdec))
    /\ Fail

(* turn_off_perf_monitor_and_flush_results: the events keep what was recorded last. *)
Flush == monitor' = FALSE /\ results' = <<>>

EndCase(t) ==
    /\ pc = t
    /\ run = NRepeat
    /\ held' = Released(TestCase(t))
    /\ measured' = Append(measured, Measured(results))
    /\ Flush
    /\ run' = Idle
    /\ UNCHANGED <<events, disk, conf, pp, pc, free, starts>>

FillFails ==
    /\ pc = "cdec" /\ AllMeasured("cdec") /\ disk["cdec"] # Torn
    /\ ~FillAsserts
    /\ Fail

(* open(result_path, "w") *)
OpenFile(t) ==
    /\ pc = t /\ AllMeasured(t) /\ run = Idle /\ disk[t] # Torn
    /\ t = "cdec" => FillAsserts
    /\ disk' = [disk EXCEPT ![t] = Torn]
    /\ UNCHANGED <<conf, pp, measured, case, held, pc, free, starts>>

(* json.dump, and the file is closed *)
WriteFile(t) ==
    /\ pc = t /\ AllMeasured(t) /\ disk[t] = Torn
    /\ disk' = [disk EXCEPT ![t] = Profiled(t)]
    /\ Adopt(t, Profiled(t))
    /\ UNCHANGED <<conf, case, held, free, starts>>

(* The server is killed, while it starts or while it serves: what is on disk stays. *)
Crash ==
    /\ pc \notin {"down", "failed"}
    /\ pc' = "down"
    /\ UNCHANGED <<disk, conf, pp, measured, case, held, free, starts>>

Next ==
    \/ \E c \in Configs, peak \in Peaks : Start(c, peak)
    \/ \E t \in Tables :
        \/ LoadFails(t) \/ Load(t) \/ TakeKnown(t) \/ OpenFile(t) \/ WriteFile(t)
        \/ BeginCase(t) \/ BeginFails(t) \/ Iterate(t) \/ IterationFails(t) \/ EndCase(t)
    \/ FillFails
    \/ Crash

Spec == Init /\ [][Next]_vars

-------------------------------------------------------------------------------

(* initialize_async: the engine is initialized when its last table is there *)
Initialized == pc = "serving"

Lb(t) == LbIdx(Samples(t))

CdecRowLb == LbIdx(CdecSList(conf))

(* The configurations whose test cases fit their own limits: the samples below 2^DenseBits and the *)
(* longest prompt fit a batch, no row of cdec ends before it begins, and a GPU full of the      *)
(* longest sequences fits the batch size.                                                       *)
Supported(c) ==
    /\ EngineAsserts(c) /\ ~SwapperRaises(c)
    /\ \E k \in 2..10 : c.block_size = 2^k
    /\ c.max_tokens_in_batch \in (2^DenseBits - 1)..(MaxSeqLen(c) + RotarySlack)
    /\ c.max_tokens_in_batch <= MaxGpuTokens(c)
    /\ c.max_blocks_per_seq >= 2
    /\ c.max_batch_size <= c.num_cpu_blocks
    /\ CeilDiv(c.num_gpu_blocks, c.max_blocks_per_seq) <= c.max_batch_size

(* The configurations the kernels were compiled for: the ranks can share the model, csrc has      *)
(* their heads and the library is theirs; the smallest sequence block is whole blocks, so that    *)
(* all are; and the largest test case on the CPU fits the arrays of pacpu.                        *)
Compiled(c) ==
    /\ WeightsLoad(c) /\ Projects(c)
    /\ HyperParamsExpected(c.library_path, LocalQ(c), LocalKv(c), NumLayers, HeadDim, c.block_size)
    /\ WholeSeqBlocks(MinSeqBlock, c.block_size)
    /\ ScratchHolds(c.max_batch_size, Smaller(c.max_batch_size * MaxSeqLen(c), MaxCpuTokens(c)))

LookupsRight(t) ==
    IF t = "cdec"
    THEN \A S \in 0..conf.max_batch_size, N \in 0..Last(Samples(t)) :
            /\ CdecAnswers(S, N, pp[t].S, pp[t].xs, pp[t].ys, CdecRowLb, Lb(t))
            /\ Bracketed(S, pp[t].S, SamplesRead(S, pp[t].S, CdecRowLb))
            /\ Bracketed(N, pp[t].xs, SamplesRead(N, pp[t].xs, Lb(t)))
    ELSE \A x \in 0..Last(Samples(t)) :
            /\ Answers(x, pp[t].xs, Len(pp[t].ys), Lb(t))
            /\ Bracketed(x, pp[t].xs, SamplesRead(x, pp[t].xs, Lb(t)))

(* The samples on disk are the ones of this configuration. *)
OwnSamples(t) == disk[t].xs = Samples(t) /\ (t = "cdec" => disk[t].S = CdecSList(conf))

TypeOK ==
    /\ DOMAIN disk = Tables /\ DOMAIN pp = Tables
    /\ \A t \in Tables : disk[t].state \in {"absent", "torn", "complete"} /\ pp[t].state \in {"absent", "complete"}
    /\ held \in Nat \X Nat /\ starts \in 0..MaxStarts
    /\ run \in Idle..NRepeat /\ monitor \in BOOLEAN /\ Len(results) <= NRepeat
    /\ pc \in Tables \cup {"down", "serving", "failed"}

(* A configuration that fits its own limits and the compiled kernels starts: whatever is on disk *)
(* and wherever earlier starts were killed, every test case is a batch that the block manager,   *)
(* the model and its kernels accept, and every table can be filled.  The one thing that stops it *)
(* is a file a crash left unwritten.                                                             *)
SupportedStarts ==
    [][pc' = "failed" => \/ ~(Supported(conf') /\ Compiled(conf'))
                         \/ pc \in Tables /\ disk[pc] = Torn]_vars

(* What is served is complete: every sample has a time, the mean of the timed iterations of its  *)
(* own test case and of nothing else (or, in cdec, extrapolated), also where entries were taken  *)
(* over from an earlier, shorter file.                                                           *)
TablesComplete ==
    LET timed(sample) == Measured(Repeated(NRepeat, sample)) IN
    Initialized /\ Supported(conf) =>
        /\ \A t \in Tables \ {"cdec"} : pp[t].ys = [i \in DOMAIN pp[t].xs |-> timed(<<pp[t].xs[i]>>)]
        /\ OwnSamples("cdec") =>
            \A p \in CdecCells :
                pp["cdec"].ys[p[1]][p[2]] \in
                    {Mark("extrapolated"), timed(<<CdecSList(conf)[p[1]], CdecAgg(conf)[p[2]]>>)}

(* Look-ups of times: for every width the scheduler can ask for there is an answer, it is the    *)
(* sample itself or lies between its two neighbours.  For the linear table this holds even       *)
(* when the table was profiled under a configuration with a longer list.                         *)
LookupsBracket ==
    Initialized /\ Supported(conf) =>
        \A t \in Tables : t = "linr" \/ OwnSamples(t) => LookupsRight(t)

(* _get_lb_idx_list's "find the smallest j s.t. input_list[j] >= i", for the lists the look-ups  *)
(* use: the ones read from disk.                                                                 *)
IndexOfLoadedTable ==
    Initialized /\ Supported(conf) => \A t \in Tables \ {"cdec"} : LookupsRight(t)

(* Every test case gives all of its blocks back before the next one, and before the scheduler     *)
(* starts from what it takes for an empty cache.                                                 *)
ProfilingLeavesNothing == run = Idle => held = <<0, 0>>

(* The cache the workers allocate fits the memory that was free when its blocks were counted,    *)
(* the extra layer for prefills on the CPU included; and the servers that are evaluated against  *)
(* each other on a given number of blocks have caches no larger than that of the base.           *)
CacheFits ==
    pc \in Tables =>
        /\ conf.num_gpu_blocks_override = -1 => CacheSlots(conf) <= free
        /\ \A name \in Servers, config \in Evaluations :
              conf = WithBlocks(CommandLine(name, config), UsableMemory - free) =>
                  CacheSlots(conf) <= NumLayers * config.num_gpu_blocks_override * config.block_size

=============================================================================
