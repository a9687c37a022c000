---------------------------- MODULE BatchLayout ----------------------------
(***************************************************************************)
(* How a sub-batch is laid out for the kernels: SubBatch and Request of    *)
(* swiftllm/structs.py, _prepare_inputs of swiftllm/worker/model.py and    *)
(* alloc_for_batches of swiftllm/worker/buffer.py.  The rows of a batch    *)
(* are tokens: all those of its prompts, then the newest of every sequence *)
(* that decodes, those on the CPU last.  Sequences, rows and positions are *)
(* numbered from 0.                                                        *)
(***************************************************************************)
EXTENDS Integers, Sequences, SequencesExt

CONSTANTS
  MaxSeqBlock, MinSeqBlock,  \* the largest and smallest seq_block_size
  Occupancy, MaxSplit        \* programs wanted, blocks of a sequence at most

ASSUME LayoutAssumption ==
  {MaxSeqBlock, MinSeqBlock, Occupancy, MaxSplit} \subseteq Nat \ {0}

Total(s) == FoldLeft(LAMBDA a, x : a + x, 0, s)
Largest(s) == FoldLeft(LAMBDA a, x : IF x > a THEN x ELSE a, 0, s)
UpTo(s, n) == SubSeq(s, 1, n)
CeilDiv(a, b) == (a + b - 1) \div b

(* Request                                                                 *)
SeqLen(req) == req.prompt_len + req.output_len
GetIds(reqs) == [i \in DOMAIN reqs |-> reqs[i].request_id]
GetLens(reqs) == [i \in DOMAIN reqs |-> SeqLen(reqs[i])]

(* A token of a request is named by its position.                          *)
Token(req, pos) == <<req.request_id, pos>>

LastToken(tokens) == SubSeq(tokens, Len(tokens), Len(tokens))

GetInputTokens(reqs) ==
  FlattenSeq([i \in DOMAIN reqs |->
    IF reqs[i].output_len = 0 THEN reqs[i].prompt_token_ids ELSE LastToken(reqs[i].output_token_ids)])

(* __getstate__: what of a request is sent to another process.             *)
GetState(req) ==
  [req EXCEPT !.prompt_token_ids = IF req.output_len = 0 THEN @ ELSE << >>,
              !.output_token_ids = IF req.output_len > 0 THEN LastToken(@) ELSE << >>]

(* The loop goes on halving from s.                                        *)
Halves(s, heads, sum, longest) ==
  /\ heads * sum < Occupancy * s
  /\ s \div 2 >= MinSeqBlock
  /\ longest <= MaxSplit * (s \div 2)

SeqBlockSize(heads, sum, longest) ==
  LET size[s \in 1 .. MaxSeqBlock] ==
        IF Halves(s, heads, sum, longest) THEN size[s \div 2] ELSE s
  IN size[MaxSeqBlock]

(* set_model_forward_args                                                  *)
ForwardArgs(batch, heads) ==
  LET prefs == batch.cprf \o batch.gprf
      all == prefs \o batch.gdec \o batch.cdec
      lens == GetLens(all)
      toks == Total(GetLens(prefs))
      gdec == GetLens(batch.gdec)
      block == SeqBlockSize(heads, Total(gdec), Largest(gdec))
  IN [all_reqs |-> all, batch_size |-> Len(all),
      iter_width |-> toks + Len(batch.gdec) + Len(batch.cdec),
      num_cprfs |-> Len(batch.cprf), num_prefs |-> Len(prefs),
      num_gdecs |-> Len(batch.gdec), num_cdecs |-> Len(batch.cdec),
      num_prgds |-> Len(prefs) + Len(batch.gdec),
      seq_ids |-> GetIds(all), seq_lens |-> lens,
      sum_pref_toks |-> toks, sum_prgd_toks |-> toks + Len(batch.gdec),
      max_pref_toks |-> Largest(GetLens(prefs)),
      seq_block_size |-> block, num_seq_blocks |-> CeilDiv(Largest(gdec), block)]

(* Where the prompts start, and where the last one ends.                   *)
PrefStLocs(a) == [i \in 1 .. (a.num_prefs + 1) |-> Total(UpTo(a.seq_lens, i - 1))]

PositionIndices(a) ==
  FlattenSeq([i \in 1 .. a.num_prefs |->
                [j \in 1 .. a.all_reqs[i].prompt_len |-> j - 1]]) \o
  [i \in 1 .. (a.batch_size - a.num_prefs) |-> SeqLen(a.all_reqs[a.num_prefs + i]) - 1]

(* Mutant: the range of the decodes ends before the last.                  *)
LastTokenIndicesShort(a) ==
  [i \in 1 .. a.num_prefs |-> PrefStLocs(a)[i + 1] - 1] \o
  [i \in 1 .. (a.iter_width - a.sum_pref_toks - 1) |-> a.sum_pref_toks + i - 1]

LastTokenIndices(a) ==
  [i \in 1 .. a.num_prefs |-> PrefStLocs(a)[i + 1] - 1] \o
  [i \in 1 .. (a.iter_width - a.sum_pref_toks) |-> a.sum_pref_toks + i - 1]

(* What _prepare_inputs adds, and the first row of the batch in buffers    *)
(* that hold all batches one after the other.                              *)
PrepareInputs(a, offs) ==
  [args |-> a, st_locs |-> PrefStLocs(a), position_indices |-> PositionIndices(a),
   last_token_indices |-> LastTokenIndices(a), offs |-> offs]

AllocForBatches(args) ==
  [b \in DOMAIN args |->
     PrepareInputs(args[b], Total([k \in 1 .. (b - 1) |-> args[k].iter_width]))]

(* Mutant: the second batch's indices are not shifted.                     *)
AllLastTokensUnshifted(batches) ==
  FlattenSeq([b \in DOMAIN batches |-> batches[b].last_token_indices])

(* The post-layer's rows: the last token of every sequence of every batch. *)
AllLastTokens(batches) ==
  FlattenSeq([b \in DOMAIN batches |->
    [i \in DOMAIN batches[b].last_token_indices |->
       batches[b].last_token_indices[i] + batches[b].offs]])
=============================================================================
