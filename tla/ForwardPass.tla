---------------------------- MODULE ForwardPass ----------------------------
(***************************************************************************)
(* A worker's forward pass (swiftllm/worker/model.py, transformer_layer.py,*)
(* block_swapper.py): a host program that launches work on two CUDA        *)
(* streams, computes the attention of offloaded sequences itself, and      *)
(* keeps all of them in step with stream waits and one event.              *)
(*                                                                         *)
(* Each stream runs its operations in order, at its own pace.  The host    *)
(* runs ahead of both and blocks only on the event qkvtr_e and on the      *)
(* output tokens.  The control plane is module BlockManager: it decides    *)
(* which blocks a sequence has, the worker moves and fills them.           *)
(***************************************************************************)
EXTENDS LayerCalls, FiniteSets

CONSTANTS
  Ids, BlockSize, ExtraLayer, NumGpu, NumCpu,   \* as in BlockManager
  MaxBatch, MaxTokens, MaxLen,
  Prompts,      \* the prompt lengths requests may have
  CprfInSecond, \* may the second sub-batch prefill for the CPU?
  SwapModes,    \* the ways of swapping an engine may be started with
  EarlyStores,  \* may the host store a block before its copy has run?
  MaxIters      \* bound on the number of iterations

ASSUME PlaneAssumption == BlockSize \in Nat \ {0} /\ MaxLen \in Nat
ASSUME ForwardAssumption ==
  MaxIters \in Nat /\ CprfInSecond \in BOOLEAN
  /\ SwapModes \subseteq {"fp16", "int8_transfer", "int8_cpu_kv"} /\ EarlyStores \in BOOLEAN

VARIABLES
  gpu, cpu, lens, running, pc,  \* the control plane: see BlockManager
  gtable, ctable,   \* the worker's gpu_block_table and cpu_block_table
  gmem, cmem,       \* k_cache/v_cache and k_swap/v_swap, by layer and block
  host,             \* the calls the host has still to make in this iteration
  compute, comm,    \* what the two streams have still to run
  cprfSwap,         \* src_blk_ids and dst_blk_ids of each sub-batch
  qkv,              \* the layer the q, k, v of each sub-batch belong to
  qkvCpu, oCpu,     \* the pinned buffers: sub-batch and layer they belong to
  attnOut,          \* the same of the rows of attn_out_buf the CPU computes
  staging,          \* the last quantized block to reach host memory
  swapMode,         \* --int8-transfer, --int8-cpu-kv or neither
  born,             \* the iteration that prefilled the request of a row
  iters             \* iterations so far

plane == <<gpu, cpu, lens, running, pc>>
memory == <<gtable, ctable, gmem, cmem>>
buffers == <<qkv, qkvCpu, oCpu, attnOut>>
quantized == <<staging, swapMode>>
vars == <<plane, memory, host, compute, comm, cprfSwap, buffers, quantized, born, iters>>

BM == INSTANCE BlockManager

MaxBlocks == BM!BlocksFor(MaxLen)

(* The layer a prompt bound for the CPU is prefilled in.                   *)
ItmLayer(l) == IF ExtraLayer THEN NumLayers ELSE l

Nothing == << >>

-----------------------------------------------------------------------------
(* The content of a block: the KV of layer l for the tokens in the j-th    *)
(* block of a request of length len.                                       *)

Tokens(len, j) == IF len < j * BlockSize THEN len - (j - 1) * BlockSize ELSE BlockSize

Content(l, r, j, len) == <<l, r, born[r], j, Tokens(len, j)>>

(* The KV of the first len tokens of r is in the blocks of its row.        *)
Holds(mem, table, l, r, len) ==
  \A j \in 1 .. BM!BlocksFor(len) : mem[l][table[r][j]] = Content(l, r, j, len)

(* The newest token of the rows of seq joins their KV; on blocks that do   *)
(* not hold what precedes it, the result is of no use.                     *)
AppendToken(mem, table, l, seq) ==
  [mem EXCEPT ![l] = [blk \in DOMAIN @ |->
     IF \E r \in ToSet(seq) : blk = table[r][BM!BlocksFor(lens[r])]
     THEN LET r == CHOOSE r \in ToSet(seq) : blk = table[r][BM!BlocksFor(lens[r])]
          IN IF Holds(mem, table, l, r, lens[r] - 1)
             THEN Content(l, r, BM!BlocksFor(lens[r]), lens[r]) ELSE Nothing
     ELSE @[blk]]]

(* store_kvcache, for layer l: prompts of cprf are put in layer itm.       *)
StorePrompts(mem, b, itm, l) ==
  LET slots(seq) == {s \in ToSet(seq) \X (1 .. MaxBlocks) : s[2] <= BM!BlocksFor(lens[s[1]])}
      written(m, layer, seq) ==
        [m EXCEPT ![layer] = [blk \in DOMAIN @ |->
           IF \E s \in slots(seq) : gtable[s[1]][s[2]] = blk
           THEN LET s == CHOOSE s \in slots(seq) : gtable[s[1]][s[2]] = blk
                IN Content(l, s[1], s[2], lens[s[1]])
           ELSE @[blk]]]
  IN written(written(mem, itm, b.cprf), l, b.gprf)

(* Mutant: runs are found on the destination side only.                    *)
RunStartsOfTarget(src, dst) == {i \in DOMAIN src : i = 1 \/ dst[i] # dst[i - 1] + 1}

(* swap_blocks copies maximal runs of blocks that are adjacent on both     *)
(* sides: block i is copied with the run that starts at RunStart(i).       *)
RunStarts(src, dst) ==
  {i \in DOMAIN src : i = 1 \/ src[i] # src[i - 1] + 1 \/ dst[i] # dst[i - 1] + 1}

RunStart(src, dst, i) ==
  CHOOSE s \in RunStarts(src, dst) : s <= i /\ \A t \in RunStarts(src, dst) : t <= i => t <= s

SwapBlocks(from, to, src, dst) ==
  LET start(i) == RunStart(src, dst, i)
      into(blk) == {i \in DOMAIN dst : dst[start(i)] + i - start(i) = blk}
  IN [blk \in DOMAIN to |->
        IF into(blk) = {} THEN to[blk]
        ELSE LET i == CHOOSE i \in into(blk) : \A k \in into(blk) : k <= i
             IN from[src[start(i)] + i - start(i)]]

-----------------------------------------------------------------------------
(* Streams.                                                                *)

(* wait_stream: wait for all that q has to run now.                        *)
WaitFor(q) == IF q = << >> THEN << >> ELSE <<[op |-> "wait", left |-> Len(q)]>>

(* q once the other stream has run one more operation.                     *)
OneLess(q) ==
  [i \in DOMAIN q |-> IF q[i].op = "wait" /\ q[i].left > 0
                      THEN [q[i] EXCEPT !.left = @ - 1] ELSE q[i]]

Ready(q) == q # << >> /\ (Head(q).op = "wait" => Head(q).left = 0)

(* A call of swap_blocks; kv is what the source blocks are to hold then.   *)
Swap(dir, ids, gl, cl) ==
  [op |-> "swap", dir |-> dir, src |-> ids.src, dst |-> ids.dst, kv |-> ids.kv[cl],
   gl |-> gl, cl |-> cl]

OneBlock(swap, k) ==
  [swap EXCEPT !.src = <<swap.src[k]>>, !.dst = <<swap.dst[k]>>, !.kv = <<swap.kv[k]>>]

On(op, b, l) == [op |-> op, b |-> b, l |-> l]

-----------------------------------------------------------------------------
(* What the host does for a call of swap_blocks: FP16 blocks are left to   *)
(* the copy stream.  With INT8 the host goes through the blocks; swapping  *)
(* out it has one quantized and its copy to the host started, then stores  *)
(* the copy in k_swap (and k_swap_scales) itself.                          *)
SwapCalls(swap) ==
  FlattenSeq([k \in DOMAIN swap.src |->
    IF swap.dir = "in" THEN <<[f |-> "fetch", swap |-> OneBlock(swap, k)]>>
    ELSE <<[f |-> "stage", swap |-> OneBlock(swap, k)],
           [f |-> "store_staged", swap |-> OneBlock(swap, k)]>>])

OnStream(swaps) == IF swapMode = "fp16" THEN swaps ELSE << >>
OnHost(swaps) ==
  IF swapMode = "fp16" THEN << >> ELSE FlattenSeq([i \in DOMAIN swaps |-> SwapCalls(swaps[i])])

-----------------------------------------------------------------------------
(* do_one_iteration: prepare's results reach the worker.                   *)

(* The devices after each step of prepare: at first, after the swaps, after*)
(* the allocation for each sub-batch, at last.                             *)
Stages(c) ==
  LET len == BM!LensWith(c)
      swapped == BM!Swap([gpu |-> gpu, cpu |-> cpu], c.swapOut, c.swapIn, len)
      first == BM!AllocForBatch(swapped, c.batches[1], len)
      both == IF Len(c.batches) = 1 THEN first ELSE BM!AllocForBatch(first, c.batches[2], len)
  IN <<[gpu |-> gpu, cpu |-> cpu], swapped, first, both, BM!Prepared(c)>>

(* set_block_tables: alloc reports the blocks it adds to a row, no others. *)
Mapped(table, before, after) ==
  [r \in Ids |-> [j \in 1 .. MaxBlocks |->
     IF Len(before[r]) < j /\ j <= Len(after[r]) THEN after[r][j] ELSE table[r][j]]]

NewTable(table, rows) ==
  FoldLeftDomain(LAMBDA t, k : IF k = Len(rows) THEN t ELSE Mapped(t, rows[k], rows[k + 1]),
                 table, rows)

Pids(rows, seq) == FlattenSeq([i \in DOMAIN seq |-> rows[seq[i]]])

Contents(seq, len, from) ==
  [l \in Layers |-> FlattenSeq([i \in DOMAIN seq |->
     [j \in 1 .. BM!BlocksFor(len[seq[i]]) |-> <<l, seq[i], from[seq[i]], j, Tokens(len[seq[i]], j)>>]])]

(* The swaps of whole sequences, layer by layer, on the copy stream.       *)
ConventionalSwaps(c, s) ==
  LET out == c.swapOut # << >>
      seq == c.swapOut \o c.swapIn
      ids == [src |-> Pids(IF out THEN s[1].gpu.table ELSE s[1].cpu.table, seq),
              dst |-> Pids(IF out THEN s[2].cpu.table ELSE s[2].gpu.table, seq),
              kv  |-> Contents(seq, BM!OmitLast(lens), born)]
  IN IF seq = << >> THEN << >>
     ELSE [i \in 1 .. NumLayers |-> Swap(IF out THEN "out" ELSE "in", ids, i - 1, i - 1)]

CprfSwap(s, b, len, from) ==
  [src |-> Pids(s[4].gpu.table, b.cprf), dst |-> Pids(s[5].cpu.table, b.cprf),
   kv |-> Contents(b.cprf, len, from)]

Init ==
  /\ BM!Init
  /\ gtable = [r \in Ids |-> [j \in 1 .. MaxBlocks |-> 0]] /\ ctable = gtable
  /\ gmem = [l \in Layers \cup {ItmLayer(0)} |-> [blk \in 0 .. (NumGpu - 1) |-> Nothing]]
  /\ cmem = [l \in Layers |-> [blk \in 0 .. (NumCpu - 1) |-> Nothing]]
  /\ host = << >> /\ compute = << >> /\ comm = << >> /\ cprfSwap = << >>
  /\ qkv = <<Nothing, Nothing>> /\ attnOut = <<Nothing, Nothing>>
  /\ qkvCpu = Nothing /\ oCpu = Nothing
  /\ staging = Nothing /\ swapMode \in SwapModes
  /\ born = [r \in Ids |-> 0]
  /\ iters = 0

Begin(c) ==
  LET s == Stages(c)
  IN /\ BM!Prepare(c)
     /\ gtable' = NewTable(gtable, [k \in DOMAIN s |-> s[k].gpu.table])
     /\ ctable' = NewTable(ctable, [k \in DOMAIN s |-> s[k].cpu.table])
     /\ comm' = comm \o OnStream(ConventionalSwaps(c, s))
     /\ born' = [r \in Ids |-> IF r \in BM!Prefilled(c.batches) THEN iters + 1 ELSE born[r]]
     /\ cprfSwap' = [k \in DOMAIN c.batches |-> CprfSwap(s, c.batches[k], lens', born')]
     /\ host' = OnHost(ConventionalSwaps(c, s)) \o ForwardBatches(c.batches)
     /\ iters' = iters + 1
     /\ UNCHANGED <<gmem, cmem, compute, buffers, quantized>>

-----------------------------------------------------------------------------
(* The calls of the host.                                                  *)

Calling(f) == host # << >> /\ Head(host).f = f

Returns == host' = Tail(host)

HostOnly == UNCHANGED <<plane, memory, cprfSwap, buffers, quantized, born, iters>>

Sub == running[Head(host).b]

(* _compute_wait_comm.                                                     *)
ComputeWaitComm ==
  /\ Calling("wait_comm") /\ Returns
  /\ compute' = compute \o WaitFor(comm)
  /\ UNCHANGED comm /\ HostOnly

(* Mutant: prompts are stored without waiting for the copies.              *)
PreprojUnordered ==
  /\ Calling("preproj") /\ Returns
  /\ LET b == Head(host).b
         l == Head(host).l
     IN compute' = compute \o <<On("qkv", b, l)>> \o
          (IF BM!Prefs(Sub) = {} THEN << >> ELSE <<On("store", b, l)>>)
  /\ UNCHANGED comm /\ HostOnly

Preproj ==
  /\ Calling("preproj") /\ Returns
  /\ LET b == Head(host).b
         l == Head(host).l
     IN compute' = compute \o <<On("qkv", b, l)>> \o
          (IF BM!Prefs(Sub) = {} THEN << >> ELSE WaitFor(comm) \o <<On("store", b, l)>>)
  /\ UNCHANGED comm /\ HostOnly

(* Mutant: the copy stream does not wait for the projections.              *)
TransferQkvUnordered ==
  /\ Calling("transfer_qkv") /\ Returns
  /\ LET b == Head(host).b
     IN comm' = comm \o
          (IF Sub.cdec = << >> THEN << >> ELSE <<On("copy_qkv", b, 0), On("qkvtr_e", b, 0)>>)
  /\ UNCHANGED compute /\ HostOnly

TransferQkv ==
  /\ Calling("transfer_qkv") /\ Returns
  /\ LET b == Head(host).b
     IN comm' = comm \o WaitFor(compute) \o
          (IF Sub.cdec = << >> THEN << >> ELSE <<On("copy_qkv", b, 0), On("qkvtr_e", b, 0)>>)
  /\ UNCHANGED compute /\ HostOnly

(* The prompts' and the GPU decodes' part of _attention.                   *)
LaunchAttention ==
  /\ Calling("launch_attention") /\ Returns
  /\ compute' = IF Sub.gdec = << >> THEN compute
                ELSE Append(compute, On("decode", Head(host).b, Head(host).l))
  /\ UNCHANGED comm /\ HostOnly

(* qkvtr_e.synchronize returns once the latest q, k, v are in host memory. *)
QkvTransferred == \A i \in DOMAIN comm : comm[i].op # "qkvtr_e"

(* Mutant: the projection does not wait for the attention of the host.     *)
CpuAttentionUnawaited ==
  /\ Calling("cpu_attention") /\ Sub.cdec # << >> /\ QkvTransferred /\ Returns
  /\ LET b == Head(host).b
         l == Head(host).l
     IN /\ cmem' = AppendToken(cmem, ctable, l, Sub.cdec)
        /\ oCpu' = qkvCpu
        /\ comm' = Append(comm, On("copy_o", b, l))
        /\ compute' = compute
  /\ UNCHANGED <<plane, gtable, ctable, gmem, cprfSwap, qkv, qkvCpu, attnOut, quantized,
                 born, iters>>

(* The CPU decodes' part: the host stores the new tokens and attends, the  *)
(* outputs go back on the copy stream, and the compute stream waits.       *)
CpuAttention ==
  /\ Calling("cpu_attention") /\ Sub.cdec # << >> /\ QkvTransferred /\ Returns
  /\ LET b == Head(host).b
         l == Head(host).l
     IN /\ cmem' = AppendToken(cmem, ctable, l, Sub.cdec)
        /\ oCpu' = qkvCpu
        /\ comm' = Append(comm, On("copy_o", b, l))
        /\ compute' = compute \o WaitFor(comm')
  /\ UNCHANGED <<plane, gtable, ctable, gmem, cprfSwap, qkv, qkvCpu, attnOut, quantized,
                 born, iters>>

NoCpuAttention ==
  /\ Calling("cpu_attention") /\ Sub.cdec = << >> /\ Returns
  /\ compute' = compute \o WaitFor(comm)
  /\ UNCHANGED comm /\ HostOnly

SwapOutBlocks ==
  /\ Calling("swap_out")
  /\ LET l == Head(host).l
         swaps == IF Sub.cprf = << >> THEN << >>
                  ELSE <<Swap("out", cprfSwap[Head(host).b], ItmLayer(l), l)>>
     IN /\ comm' = comm \o OnStream(swaps)
        /\ host' = OnHost(swaps) \o Tail(host)
  /\ UNCHANGED compute /\ HostOnly

(* Swapping out with INT8: quantize_int8 and .to("cpu", non_blocking=True) *)
(* for one block, on the copy stream.                                      *)
StageBlock ==
  /\ Calling("stage") /\ Returns
  /\ comm' = Append(comm, [Head(host).swap EXCEPT !.op = "stage"])
  /\ UNCHANGED compute /\ HostOnly

Staged == \A i \in DOMAIN comm : comm[i].op # "stage"

(* The assignment to k_swap that follows at once: what it reads before the *)
(* copy has run is of no use.                                              *)
StoreStaged ==
  /\ Calling("store_staged") /\ Returns
  /\ EarlyStores \/ Staged
  /\ LET o == Head(host).swap
     IN cmem' = [cmem EXCEPT ![o.cl][o.dst[1]] = IF Staged THEN staging ELSE Nothing]
  /\ UNCHANGED <<plane, gtable, ctable, gmem, compute, comm, cprfSwap, buffers, quantized,
                 born, iters>>

(* Swapping in: INT8 blocks go over as they are; FP16 ones are quantized by*)
(* the host as it makes the call.                                          *)
FetchBlock ==
  /\ Calling("fetch") /\ Returns
  /\ LET o == Head(host).swap
     IN comm' = Append(comm, IF swapMode = "int8_cpu_kv" THEN o
                             ELSE [op |-> "put", gl |-> o.gl, dst |-> o.dst, kv |-> o.kv,
                                   data |-> cmem[o.cl][o.src[1]]])
  /\ UNCHANGED compute /\ HostOnly

Postproj ==
  /\ Calling("postproj") /\ Returns
  /\ compute' = Append(compute, On("postproj", Head(host).b, Head(host).l))
  /\ UNCHANGED comm /\ HostOnly

(* The output tokens are on the host when the compute stream has run all;  *)
(* then update_and_free.  Copies may still be under way.                   *)
End(finished) ==
  /\ host = << >> /\ compute = << >>
  /\ BM!UpdateAndFree(finished)
  /\ UNCHANGED <<memory, host, compute, comm, cprfSwap, buffers, quantized, born, iters>>

-----------------------------------------------------------------------------
(* The operations of the streams.                                          *)

RunCompute ==
  /\ Ready(compute)
  /\ compute' = Tail(compute) /\ comm' = OneLess(comm)
  /\ LET o == Head(compute)
     IN /\ qkv' = IF o.op = "qkv" THEN [qkv EXCEPT ![o.b] = <<o.b, o.l>>] ELSE qkv
        /\ gmem' = CASE o.op = "store" -> StorePrompts(gmem, running[o.b], ItmLayer(o.l), o.l)
                     [] o.op = "decode" -> AppendToken(gmem, gtable, o.l, running[o.b].gdec)
                     [] OTHER -> gmem
  /\ UNCHANGED <<plane, gtable, ctable, cmem, host, cprfSwap, qkvCpu, oCpu, attnOut,
                 quantized, born, iters>>

RunComm ==
  /\ Ready(comm)
  /\ comm' = Tail(comm) /\ compute' = OneLess(compute)
  /\ LET o == Head(comm)
     IN /\ qkvCpu' = IF o.op = "copy_qkv" THEN qkv[o.b] ELSE qkvCpu
        /\ attnOut' = IF o.op = "copy_o" THEN [attnOut EXCEPT ![o.b] = oCpu] ELSE attnOut
        /\ cmem' = IF o.op = "swap" /\ o.dir = "out"
                   THEN [cmem EXCEPT ![o.cl] = SwapBlocks(gmem[o.gl], @, o.src, o.dst)] ELSE cmem
        /\ gmem' = CASE o.op = "swap" /\ o.dir = "in" ->
                          [gmem EXCEPT ![o.gl] = SwapBlocks(cmem[o.cl], @, o.src, o.dst)]
                     [] o.op = "put" -> [gmem EXCEPT ![o.gl][o.dst[1]] = o.data]
                     [] OTHER -> gmem
        /\ staging' = IF o.op = "stage" THEN gmem[o.gl][o.src[1]] ELSE staging
  /\ UNCHANGED <<plane, gtable, ctable, host, cprfSwap, qkv, oCpu, swapMode, born, iters>>

(* The batches of the scheduler prefill in the first sub-batch only;       *)
(* hand-made ones (examples/example.py) in either.  MaxIters bounds them.  *)
Calls == IF pc # "idle" \/ iters = MaxIters THEN {} ELSE
  {c \in {BM!CallOf(choice, order, len) :
            choice \in [Ids -> BM!Choices], order \in BM!Orders, len \in Prompts} :
     Len(c.batches) = 1 \/ CprfInSecond \/ BM!Prefs(c.batches[2]) = {}}

HostStep ==
  \/ ComputeWaitComm \/ Preproj \/ TransferQkv \/ LaunchAttention
  \/ CpuAttention \/ NoCpuAttention \/ SwapOutBlocks \/ Postproj
  \/ StageBlock \/ StoreStaged \/ FetchBlock

Next ==
  \/ \E c \in Calls : Begin(c)
  \/ HostStep
  \/ RunCompute
  \/ RunComm
  \/ \E finished \in SUBSET Ids : End(finished)

Spec == Init /\ [][Next]_vars
-----------------------------------------------------------------------------
(* Paged attention finds the KV of every earlier token of its sequences in *)
(* their blocks: swaps in have arrived, none has been overwritten, and the *)
(* worker's table agrees with the control plane's.                         *)
GpuReadsRight ==
  compute # << >> /\ Head(compute).op = "decode" =>
    \A r \in ToSet(running[Head(compute).b].gdec) :
      Holds(gmem, gtable, Head(compute).l, r, lens[r] - 1)

AttendsOnCpu == Calling("cpu_attention") /\ Sub.cdec # << >> /\ QkvTransferred

(* When the attention of the host starts, the pinned buffers hold q, k and *)
(* v of this sub-batch and layer.                                          *)
QkvArrive == AttendsOnCpu => qkvCpu = <<Head(host).b, Head(host).l>>

(* It finds the KV of every earlier token of its sequences in their        *)
(* blocks on the CPU: copies have arrived there before the event.          *)
CpuReadsRight ==
  AttendsOnCpu => \A r \in ToSet(Sub.cdec) : Holds(cmem, ctable, Head(host).l, r, lens[r] - 1)

(* The output projection reads the outputs of its own layer's attention on *)
(* the CPU, not those of an earlier layer.                                 *)
OutputsArrive ==
  compute # << >> /\ Head(compute).op = "postproj" /\ running[Head(compute).b].cdec # << >> =>
    attnOut[Head(compute).b] = <<Head(compute).b, Head(compute).l>>

(* A copy finds in its source blocks the KV it is there to move, in spite  *)
(* of "if swapping is too slow, there's risk that we writes to what's being*)
(* swapped out" (transformer_layer.py:238): no later layer or iteration    *)
(* has written to them, and all that should be there has been.             *)
SwapsReadRight ==
  comm # << >> /\ Head(comm).op \in {"swap", "stage", "put"} =>
    LET o == Head(comm)
    IN IF o.op = "put" THEN o.data = o.kv[1]
       ELSE \A k \in DOMAIN o.src :
              (IF o.dir = "out" THEN gmem[o.gl] ELSE cmem[o.cl])[o.src[k]] = o.kv[k]

(* Between iterations, and once the copies are done, the KV of every live  *)
(* sequence is, in every layer, in the blocks of the device it is on.      *)
KVInPlace ==
  pc = "idle" /\ comm = << >> =>
    \A l \in Layers, r \in Ids :
      /\ gpu.table[r] # << >> => Holds(gmem, gtable, l, r, lens[r] - 1)
      /\ cpu.table[r] # << >> => Holds(cmem, ctable, l, r, lens[r] - 1)
=============================================================================
