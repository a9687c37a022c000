---------------------------- MODULE BlockManager ----------------------------
(***************************************************************************)
(* The control plane's bookkeeping of KV blocks on the GPU and on the CPU  *)
(* (class BlockManager of swiftllm/server/block_manager.py), driven by any *)
(* caller that keeps to its contract: Engine.step with hand-made batches,  *)
(* or the scheduler of the server.                                         *)
(*                                                                         *)
(* An iteration is prepare, the forward pass, then update_and_free.  A     *)
(* sequence of length n enters an iteration with blocks for its first n-1  *)
(* tokens: the KV of its newest token is computed by the forward pass.     *)
(***************************************************************************)
EXTENDS DeviceBlocks, Functions

CONSTANTS
  NumGpu,      \* num_gpu_blocks: blocks of the GPU cache, per split
  NumCpu,      \* num_cpu_blocks: blocks of the CPU swap space, per split
  MaxBatch,    \* max_batch_size
  MaxTokens,   \* max_tokens_in_batch
  MaxLen       \* longest sequence of the model (max_seq_len)

ASSUME DeviceSizeAssumption == NumGpu \in Nat /\ NumCpu \in Nat
ASSUME BudgetAssumption == MaxBatch \in Nat /\ MaxTokens \in Nat /\ MaxLen \in Nat

VARIABLES
  gpu,      \* gpu_block_manager
  cpu,      \* cpu_block_manager
  lens,     \* seq_len of the request that holds a row, 0 for an unused row
  running,  \* the batches of the iteration in progress
  pc        \* "idle" between iterations, "exec" within one, "dead" after a raise

bmVars == <<gpu, cpu, lens, running, pc>>

-----------------------------------------------------------------------------
(* A sub-batch is four lists of requests (SubBatch.__init__); the forward  *)
(* pass sees them concatenated (all_reqs).                                 *)

PrGds(b) == b.cprf \o b.gprf \o b.gdec

AllReqs(b) == PrGds(b) \o b.cdec

Prefs(b) == Elems(b.cprf \o b.gprf)

Reqs(batches) == UNION {Elems(AllReqs(batches[k])) : k \in 1 .. Len(batches)}

BatchSize(batches) == SumFunction([k \in 1 .. Len(batches) |-> Len(AllReqs(batches[k]))])

(* A prefill brings its whole prompt to the linear layers, a decode one    *)
(* token (perfdata.s).                                                     *)
IterWidth(batches, len) ==
  SumFunction([k \in 1 .. Len(batches) |->
                 LET all == AllReqs(batches[k])
                 IN SumFunction([i \in 1 .. Len(all) |->
                      IF all[i] \in Prefs(batches[k]) THEN len[all[i]] ELSE 1])])

-----------------------------------------------------------------------------
(* The steps of prepare, each on the pair of devices p = [gpu, cpu].       *)

Target(len) == [id \in Ids |-> BlocksFor(len[id])]

(* Mutant: omit_last is forgotten.                                         *)
OmitNone(len) == len

(* omit_last: the newest token has no KV yet, so it needs no block.        *)
OmitLast(len) == [id \in Ids |-> len[id] - 1]

SwapOut(p, ids, split, target) ==
  [gpu |-> Free(p.gpu, Elems(ids), split), cpu |-> Alloc(p.cpu, ids, 0, target)]

(* Mutant: the blocks on the CPU are not released.                         *)
SwapInCopy(p, ids, target) == [cpu |-> p.cpu, gpu |-> Alloc(p.gpu, ids, 0, target)]

SwapIn(p, ids, target) ==
  [cpu |-> Free(p.cpu, Elems(ids), 0), gpu |-> Alloc(p.gpu, ids, 0, target)]

(* 1. Conventional swaps.                                                  *)
Swap(p, swapOut, swapIn, len) ==
  IF swapOut # << >> THEN SwapOut(p, swapOut, 0, Target(OmitLast(len)))
                     ELSE SwapIn(p, swapIn, Target(OmitLast(len)))

(* 2. Blocks for every token of the batch.                                 *)
AllocForBatch(p, b, len) ==
  [gpu |-> Alloc(p.gpu, PrGds(b), IF ExtraLayer THEN Len(b.cprf) ELSE 0, Target(len)),
   cpu |-> Alloc(p.cpu, b.cdec, 0, Target(len))]

(* Mutant: the blocks of the intermediate layer are given back to split 0. *)
SwapOutCprfsFromCache(p, b, len) == SwapOut(p, b.cprf, 0, Target(len))

(* 3. Prompts prefilled for the CPU leave the GPU in the same iteration.   *)
SwapOutCprfs(p, b, len) == SwapOut(p, b.cprf, ItmSplit, Target(len))

PreparedDevices(p, batches, swapOut, swapIn, len) ==
  LET swapped == Swap(p, swapOut, swapIn, len)
      first   == AllocForBatch(swapped, batches[1], len)
  IN IF Len(batches) = 1
     THEN SwapOutCprfs(first, batches[1], len)
     ELSE LET second == AllocForBatch(first, batches[2], len)
          IN SwapOutCprfs(SwapOutCprfs(second, batches[1], len), batches[2], len)

(* The assertions of prepare.                                              *)
PrepareAsserts(batches, swapOut, swapIn, len) ==
  /\ swapOut = << >> \/ swapIn = << >>
  /\ Len(batches) \in {1, 2}
  /\ \A k \in 1 .. Len(batches) : AllReqs(batches[k]) # << >>
  /\ BatchSize(batches) <= MaxBatch
  /\ IterWidth(batches, len) <= MaxTokens

-----------------------------------------------------------------------------
(* What a caller must respect.                                             *)

OnGpu == {id \in Ids : gpu.table[id] # << >>}
OnCpu == {id \in Ids : cpu.table[id] # << >>}
Unused == {id \in Ids : lens[id] = 0}

BatchType(b) ==
  /\ b = [cprf |-> b.cprf, gprf |-> b.gprf, gdec |-> b.gdec, cdec |-> b.cdec]
  /\ b.cprf \in Seq(Ids) /\ b.gprf \in Seq(Ids)
  /\ b.gdec \in Seq(Ids) /\ b.cdec \in Seq(Ids)

(* A call c = [batches, swapOut, swapIn, prompt]: prompts go to unused     *)
(* rows, a decode runs where the KV of its sequence is after the swaps,    *)
(* and no request is named twice.                                          *)
LegalCall(c) ==
  LET onGpu == (OnGpu \ Elems(c.swapOut)) \cup Elems(c.swapIn)
      onCpu == (OnCpu \ Elems(c.swapIn)) \cup Elems(c.swapOut)
  IN /\ c.swapOut \in Seq(Ids) /\ c.swapIn \in Seq(Ids)
     /\ Distinct(c.swapOut) /\ Distinct(c.swapIn)
     /\ Elems(c.swapOut) \subseteq OnGpu
     /\ Elems(c.swapIn) \subseteq OnCpu
     /\ c.prompt \in [Ids -> 1 .. (MaxLen - 1)]
     /\ c.batches \in Seq({c.batches[k] : k \in 1 .. Len(c.batches)})
     /\ \A k \in 1 .. Len(c.batches) :
          LET b == c.batches[k]
          IN /\ BatchType(b)
             /\ Distinct(AllReqs(b))
             /\ Prefs(b) \subseteq Unused
             /\ Elems(b.gdec) \subseteq onGpu
             /\ Elems(b.cdec) \subseteq onCpu
     /\ \A k, l \in 1 .. Len(c.batches) :
          k # l => Elems(AllReqs(c.batches[k])) \cap Elems(AllReqs(c.batches[l])) = {}

Prefilled(batches) == UNION {Prefs(batches[k]) : k \in 1 .. Len(batches)}

-----------------------------------------------------------------------------

Init ==
  /\ gpu = NewDevice(NumGpu)
  /\ cpu = NewDevice(NumCpu)
  /\ lens = [id \in Ids |-> 0]
  /\ running = << >>
  /\ pc = "idle"

(* The sequence lengths once the prompts of a call are known.              *)
LensWith(c) ==
  [id \in Ids |-> IF id \in Prefilled(c.batches) THEN c.prompt[id] ELSE lens[id]]

Prepared(c) ==
  PreparedDevices([gpu |-> gpu, cpu |-> cpu], c.batches, c.swapOut, c.swapIn, LensWith(c))

PrepareSucceeds(c) ==
  /\ PrepareAsserts(c.batches, c.swapOut, c.swapIn, LensWith(c))
  /\ Prepared(c).gpu.ok
  /\ Prepared(c).cpu.ok

Prepare(c) ==
  /\ pc = "idle"
  /\ LegalCall(c)
  /\ PrepareSucceeds(c)
  /\ gpu' = Prepared(c).gpu
  /\ cpu' = Prepared(c).cpu
  /\ lens' = LensWith(c)
  /\ running' = c.batches
  /\ pc' = "exec"

(* An assertion or an allocation raises; no iteration follows.             *)
PrepareRaises(c) ==
  /\ pc = "idle"
  /\ LegalCall(c)
  /\ ~PrepareSucceeds(c)
  /\ pc' = "dead"
  /\ UNCHANGED <<gpu, cpu, lens, running>>

(* Mutant: no bound on the length of a sequence.                           *)
UpdateUnbounded(finished) ==
  /\ pc = "exec"
  /\ gpu' = Free(gpu, finished, 0)
  /\ cpu' = Free(cpu, finished, 0)
  /\ lens' = [id \in Ids |-> IF id \in finished THEN 0
                            ELSE IF id \in Reqs(running) THEN lens[id] + 1
                            ELSE lens[id]]
  /\ running' = << >>
  /\ pc' = "idle"

(* Every request of the iteration gets one token; the finished ones give   *)
(* back their blocks on both devices and their rows.  A request finishes   *)
(* no later than at the length the engine admitted it for.                 *)
UpdateAndFree(finished) ==
  /\ pc = "exec"
  /\ finished \in SUBSET Reqs(running)
  /\ \A id \in Reqs(running) \ finished : lens[id] + 1 < MaxLen
  /\ gpu' = Free(gpu, finished, 0)
  /\ cpu' = Free(cpu, finished, 0)
  /\ lens' = [id \in Ids |-> IF id \in finished THEN 0
                            ELSE IF id \in Reqs(running) THEN lens[id] + 1
                            ELSE lens[id]]
  /\ running' = << >>
  /\ pc' = "idle"

-----------------------------------------------------------------------------
(* The calls a caller can make now.  A choice gives every row a batch (0   *)
(* for none) and a flag: of an unused row, prefill for the CPU; of a used  *)
(* one, swap it.  All lists of a call follow one order of the rows.        *)

Choices == [batch : 0 .. 2, flag : BOOLEAN]

ListOf(order, S) == SelectSeq(order, LAMBDA id : id \in S)

BatchOf(k, choice, order) ==
  LET mine == {id \in Ids : choice[id].batch = k}
      flagged == {id \in Ids : choice[id].flag}
      onGpu == (OnGpu \ flagged) \cup (OnCpu \cap flagged)
      onCpu == (OnCpu \ flagged) \cup (OnGpu \cap flagged)
  IN [cprf |-> ListOf(order, mine \cap Unused \cap flagged),
      gprf |-> ListOf(order, (mine \cap Unused) \ flagged),
      gdec |-> ListOf(order, mine \cap onGpu),
      cdec |-> ListOf(order, mine \cap onCpu)]

CallOf(choice, order, len) ==
  LET flagged == {id \in Ids : choice[id].flag}
  IN [batches |-> IF \E id \in Ids : choice[id].batch = 2
                  THEN <<BatchOf(1, choice, order), BatchOf(2, choice, order)>>
                  ELSE <<BatchOf(1, choice, order)>>,
      swapOut |-> ListOf(order, OnGpu \cap flagged),
      swapIn  |-> ListOf(order, OnCpu \cap flagged),
      prompt  |-> [id \in Ids |-> len]]

Orders == {order \in [1 .. Cardinality(Ids) -> Ids] : Distinct(order)}

Calls == {CallOf(choice, order, len) :
            choice \in [Ids -> Choices], order \in Orders, len \in 1 .. (MaxLen - 1)}

Next ==
  \/ \E c \in Calls : Prepare(c) \/ PrepareRaises(c)
  \/ \E finished \in SUBSET Reqs(running) : UpdateAndFree(finished)

Spec == Init /\ [][Next]_bmVars

-----------------------------------------------------------------------------
(* Types of all variables.                                                 *)
TypeOK ==
  /\ DeviceType(gpu, NumGpu) /\ gpu.ok
  /\ DeviceType(cpu, NumCpu) /\ cpu.ok
  /\ lens \in [Ids -> 0 .. MaxLen]
  /\ Reqs(running) \subseteq Ids
  /\ pc \in {"idle", "exec", "dead"}

(* On both devices every block is free or in exactly one row, and the free *)
(* counter that _get_new_blk_ids trusts agrees with the bitmap, whatever   *)
(* sequence of swaps, prefills through the intermediate layer, decodes and *)
(* releases came before: no block is owned twice, none leaks, and after    *)
(* prepare nothing is left in the intermediate layer.                      *)
AccountingExact ==
  /\ ExactAccounting(gpu, {}, NumGpu)
  /\ ExactAccounting(cpu, {}, NumCpu)

(* A live sequence has all its blocks on one device, and exactly as many   *)
(* as the tokens whose KV it must hold: all of them within an iteration it *)
(* takes part in, all but the newest otherwise.  The equal length of the   *)
(* source and destination lists of a swap rests on it.                     *)
BlocksMatchLength ==
  \A id \in Ids :
    LET stored == IF lens[id] = 0 \/ id \in Reqs(running) THEN lens[id] ELSE lens[id] - 1
    IN {Len(gpu.table[id]), Len(cpu.table[id])} = {0, BlocksFor(stored)}

(* As long as a sequence stays on a device, its logical blocks keep their  *)
(* physical blocks: the worker is sent new mappings only.                  *)
RowsOnlyGrow ==
  \A id \in Ids :
    /\ gpu'.table[id] # << >> =>
         SubSeq(gpu'.table[id], 1, Len(gpu.table[id])) = gpu.table[id]
    /\ cpu'.table[id] # << >> =>
         SubSeq(cpu'.table[id], 1, Len(cpu.table[id])) = cpu.table[id]

RowsStable == [][RowsOnlyGrow]_bmVars
=============================================================================
