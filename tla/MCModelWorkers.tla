--------------------------- MODULE MCModelWorkers ---------------------------
(***************************************************************************)
(* Small models and batches for ModelWorkers.  Each sequence has blocks    *)
(* that are neither adjacent nor in order, and a sequence that is not in   *)
(* the batch has blocks between them.                                      *)
(***************************************************************************)
EXTENDS ModelWorkers

Req(id, prompt, output) ==
  [request_id |-> id, prompt_len |-> prompt, output_len |-> output,
   prompt_token_ids |-> [j \in 1 .. prompt |-> <<id, j - 1>>],
   output_token_ids |-> [j \in 1 .. output |-> <<id, prompt + j - 1>>]]

Batch(cprf, gprf, gdec, cdec) == [cprf |-> cprf, gprf |-> gprf, gdec |-> gdec, cdec |-> cdec]

On(dev, reqs, less) ==
  {[dev |-> dev, id |-> reqs[i].request_id, len |-> SeqLen(reqs[i]) - less] : i \in DOMAIN reqs}

Bystanders == {[dev |-> "gpu", id |-> 5, len |-> 3], [dev |-> "cpu", id |-> 6, len |-> 3]}

(* The blocks of sequences 0 to 6 on the GPU and on the CPU.               *)
GpuTable(id) ==
  CASE id = 0 -> <<3, 1, 8>> [] id = 1 -> <<6, 2, 9, 4>> [] id = 2 -> <<0>> [] id = 4 -> <<2>>
    [] id = 5 -> <<7, 5>> [] OTHER -> << >>
CpuTable(id) ==
  CASE id = 0 -> <<5, 2>> [] id = 2 -> <<4>> [] id = 3 -> <<2, 0, 5>> [] id = 4 -> <<6, 3>>
    [] id = 6 -> <<1, 7>> [] OTHER -> << >>

Blocks(table(_), reqs) ==
  FlattenSeq([i \in DOMAIN reqs |-> UpTo(table(reqs[i].request_id), CeilDiv(SeqLen(reqs[i]), BlockSize))])

(* The command line, the sequences swapped before the forward pass, and    *)
(* whether that is out of the GPU.                                         *)
Fp16 == [int8_cpu_kv |-> FALSE, int8_transfer |-> FALSE, quant_granularity |-> "per-token"]
Int8CpuKv == [Fp16 EXCEPT !.int8_cpu_kv = TRUE]
PerChannelTransfer == [Fp16 EXCEPT !.int8_transfer = TRUE, !.quant_granularity = "per-channel"]

Swaps(reqs, out) == [reqs |-> reqs, out |-> out]

Swapping(swaps) ==
  LET blocks(table(_)) ==
        FlattenSeq([i \in DOMAIN swaps.reqs |->
          UpTo(table(swaps.reqs[i].request_id), CeilDiv(SeqLen(swaps.reqs[i]) - 1, BlockSize))])
  IN [src |-> IF swaps.out THEN blocks(GpuTable) ELSE blocks(CpuTable),
      dst |-> IF swaps.out THEN blocks(CpuTable) ELSE blocks(GpuTable), is_swap_out |-> swaps.out]

World(ws, nq, nkv, ffn, flash, extra, quant, swaps, batches) ==
  LET args == Received(ws, [k \in DOMAIN batches |-> ForwardArgs(batches[k], nkv)])
      tokens == FlattenSeq([k \in DOMAIN batches |-> GetInputTokens(args[k].all_reqs)])
      kinds(dev, less) == UNION {On(dev, IF dev = "gpu" THEN batches[k].gdec ELSE batches[k].cdec, less) :
                                   k \in DOMAIN batches}
      other(r) == [r EXCEPT !.dev = IF r.dev = "gpu" THEN "cpu" ELSE "gpu"]
      before == kinds("gpu", 1) \cup kinds("cpu", 1)
  IN [world_size |-> ws, num_q_heads |-> nq, num_kv_heads |-> nkv, ffn_inter_dim |-> ffn,
      head_dim |-> 128, library |-> Library(nq \div ws, nkv \div ws, NumLayers),
      vocab_size |-> 2 * ws, flash |-> flash, extra_layer_for_cprf |-> extra,
      batches |-> AllocForBatches(args), tokens |-> tokens,
      vocab_id |-> [t \in ToSet(tokens) |-> (t[1] + t[2]) % (2 * ws)],
      gpu_block_table |-> [id \in 0 .. 6 |-> GpuTable(id)],
      cpu_block_table |-> [id \in 0 .. 6 |-> CpuTable(id)],
      src_blk_ids |-> [k \in DOMAIN batches |-> Blocks(GpuTable, batches[k].cprf)],
      dst_blk_ids |-> [k \in DOMAIN batches |-> Blocks(CpuTable, batches[k].cprf)],
      swappings |-> Swapping(swaps),
      residents |-> {IF r.id \in ToSet(GetIds(swaps.reqs)) THEN other(r) ELSE r : r \in before} \cup Bystanders,
      results |-> kinds("gpu", 0) \cup kinds("cpu", 0) \cup Bystanders \cup
                  UNION {On("gpu", batches[k].gprf, 0) \cup On("cpu", batches[k].cprf, 0) :
                           k \in DOMAIN batches}] @@ quant

(* The numbers of heads that csrc is compiled for.                         *)
MCHeads == {<<4, 2>>, <<2, 1>>}

None == << >>
NoSwaps == Swaps(None, FALSE)

(* Grouped heads with decodes on both devices; two prompts of several      *)
(* tiles without the intermediate layer; decodes split over sequence blocks*)
(* and threads; two sub-batches; and the same on two ranks, where half the *)
(* heads, channels and tokens are those of the other.  The seventh does not*)
(* load: two ranks cannot share a k/v head.  Three more swap blocks and    *)
(* keep or send them as INT8.  The last two raise: nobody compiled kernels *)
(* for the heads of the one, and the other's library is for another model. *)
MCWorlds == {
  World(1, 4, 2, 1, FALSE, TRUE, Fp16, NoSwaps,
        <<Batch(None, <<Req(0, 2, 0)>>, <<Req(1, 2, 3)>>, <<Req(3, 1, 2)>>)>>),
  World(1, 2, 1, 1, FALSE, FALSE, Fp16, NoSwaps,
        <<Batch(<<Req(2, 2, 0)>>, <<Req(0, 5, 0)>>, None, None)>>),
  World(1, 2, 1, 1, FALSE, TRUE, Fp16, NoSwaps,
        <<Batch(None, None, <<Req(1, 2, 5), Req(0, 1, 3)>>, <<Req(3, 4, 1), Req(4, 1, 2)>>)>>),
  World(1, 2, 1, 2, FALSE, TRUE, Fp16, NoSwaps,
        <<Batch(<<Req(2, 2, 0)>>, <<Req(0, 1, 0)>>, None, <<Req(4, 1, 2)>>),
          Batch(None, None, <<Req(1, 2, 3)>>, <<Req(3, 3, 1)>>)>>),
  World(2, 4, 2, 2, TRUE, TRUE, Fp16, NoSwaps,
        <<Batch(None, <<Req(0, 2, 0)>>, <<Req(1, 2, 3)>>, None)>>),
  World(2, 4, 2, 2, TRUE, TRUE, Fp16, NoSwaps,
        <<Batch(<<Req(2, 2, 0)>>, None, None, None), Batch(None, None, None, <<Req(3, 3, 1)>>)>>),
  World(2, 2, 1, 2, TRUE, TRUE, Fp16, NoSwaps,
        <<Batch(None, <<Req(0, 2, 0)>>, None, None)>>),
  World(1, 2, 1, 1, TRUE, TRUE, Int8CpuKv, Swaps(<<Req(4, 1, 2)>>, TRUE),
        <<Batch(<<Req(2, 2, 0)>>, None, None, <<Req(3, 3, 1), Req(4, 1, 2)>>)>>),
  World(1, 2, 1, 1, TRUE, FALSE, Int8CpuKv, Swaps(<<Req(0, 1, 3)>>, FALSE),
        <<Batch(None, None, <<Req(0, 1, 3)>>, None)>>),
  World(1, 2, 1, 1, TRUE, FALSE, PerChannelTransfer, Swaps(<<Req(0, 1, 3)>>, FALSE),
        <<Batch(<<Req(2, 2, 0)>>, None, <<Req(0, 1, 3)>>, None)>>),
  World(1, 2, 2, 1, TRUE, FALSE, Fp16, NoSwaps, <<Batch(None, <<Req(2, 2, 0)>>, None, None)>>),
  [World(1, 2, 1, 1, TRUE, FALSE, Fp16, NoSwaps, <<Batch(None, None, None, <<Req(4, 1, 2)>>)>>)
     EXCEPT !.library = Library(4, 2, NumLayers)]
}
=============================================================================
