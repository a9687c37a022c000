------------------------------ MODULE Scheduler ------------------------------
(***************************************************************************)
(* The decisions of swiftllm/server/scheduler.py, as operators from a      *)
(* snapshot s of the scheduler to the results of get_next_batch:           *)
(*                                                                         *)
(*   s.waiting, s.gpuq, s.cpuq   the three queues, sequences of requests   *)
(*   s.avail                     RequestIdManager.available_ids            *)
(*   s.plen[r], s.len[r]         prompt_len and seq_len of a request       *)
(*                                                                         *)
(* The performance predictor is an oracle: wherever the code compares      *)
(* predicted times, both outcomes are results.  Where a loop walks a queue *)
(* and stops at the first request that does not fit, the model takes the   *)
(* longest prefix all of whose requests fit.                               *)
(***************************************************************************)
EXTENDS Queues, Functions, FiniteSetsExt, SequencesExt

CONSTANTS
  BlockSize,          \* tokens per block
  NumGpu, NumCpu,     \* num_gpu_blocks, num_cpu_blocks
  MaxBatch,           \* max_batch_size
  MaxTokens,          \* max_tokens_in_batch
  MaxLen,             \* max_seq_len
  LinrThreshold       \* linr_S_threshold of the predictor

ASSUME SchedulerAssumption ==
  /\ BlockSize \in Nat \ {0} /\ NumGpu \in Nat /\ NumCpu \in Nat
  /\ MaxBatch \in Nat /\ MaxTokens \in Nat /\ MaxBatch <= MaxTokens
  /\ MaxLen \in Nat /\ LinrThreshold \in Nat

VARIABLE numGpuBlocks  \* num_gpu_blocks of the scheduler, set at start-up

-----------------------------------------------------------------------------
(* Thresholds.                                                             *)

(* Mutant: the product is truncated.                                       *)
SwapInLimitTruncated == (95 * numGpuBlocks) \div 100

(* round(swap_out_threshold * 0.95): Python rounds a half to even.         *)
SwapInLimit ==
  LET q == (95 * numGpuBlocks) \div 100
      r == (95 * numGpuBlocks) % 100
  IN IF r > 50 \/ (r = 50 /\ q % 2 = 1) THEN q + 1 ELSE q

CpuThreshold == NumCpu - NumGpu

-----------------------------------------------------------------------------
(* Queues.                                                                 *)

BlockNeeded(len) == (len + BlockSize - 1) \div BlockSize

Sum(q, f) == SumFunction([i \in DOMAIN q |-> f[q[i]]])

Blocks(q, len) == SumFunction([i \in DOMAIN q |-> BlockNeeded(len[q[i]])])

First(q, k) == SubSeq(q, 1, k)
After(q, k) == SubSeq(q, k + 1, Len(q))

(* How many elements of q come before the first position not in fits.      *)
LongestPrefix(q, fits) == Max({k \in 0 .. Len(q) : 1 .. k \subseteq fits})

Smaller(a, b) == IF a <= b THEN a ELSE b

Batch(cprf, gprf, gdec, cdec) == [cprf |-> cprf, gprf |-> gprf, gdec |-> gdec, cdec |-> cdec]

BatchReqs(b) == b.cprf \o b.gprf \o b.gdec \o b.cdec

NumPrefs(batches) ==
  SumFunction([k \in DOMAIN batches |-> Len(batches[k].cprf) + Len(batches[k].gprf)])

(* perfdata.s, the width of the linear layers.                             *)
Width(b, plen) == Sum(b.cprf, plen) + Sum(b.gprf, plen) + Len(b.gdec) + Len(b.cdec)

KeepCprf(b, k) == [b EXCEPT !.cprf = First(@, k)]

(* ScheduleBudget: n requests of so many tokens do not overspend it, and   *)
(* the decodes, of one token each, that it still pays for.                 *)
WithinBudget(n, tokens) == n <= MaxBatch /\ tokens <= MaxTokens
Room(n, tokens) == Smaller(MaxBatch - n, MaxTokens - tokens)

-----------------------------------------------------------------------------
(* _decide_mode_and_gen_batch.                                             *)

(* Steps 2 and 4 take prompts for the CPU off the end of the batch while   *)
(* what remains is at least as wide as the threshold.                      *)
KeptMin(b, plen) ==
  Max({0} \cup {k \in 1 .. Len(b.cprf) : Width(KeepCprf(b, k - 1), plen) < LinrThreshold})

(* Step 3: the positions of cpuq that may be decoded on the CPU when room  *)
(* of them fit the budget.  A request is skipped when the CPU would become *)
(* the bottleneck, and then every later one at least as long with it; with *)
(* no GPU decodes to wait for, none is skipped.                            *)
CpuDecodes(cpuq, len, room) ==
  IF numGpuBlocks = 0 THEN {{i \in DOMAIN cpuq : i <= room}}
  ELSE {T \in SUBSET DOMAIN cpuq :
          /\ Cardinality(T) <= room
          /\ \A i \in T, j \in DOMAIN cpuq \ T : j < i => len[cpuq[j]] > len[cpuq[i]]}

(* The first one goes to the second sub-batch, the others to either.       *)
CpuSplits(T) ==
  {second \in SUBSET T : T # {} => \A i \in T : (\A j \in T : i <= j) => i \in second}

NonEmpty(batches) == PickAt(batches, {k \in DOMAIN batches : BatchReqs(batches[k]) # << >>})

(* The lists of batches that may be returned when the positions T of cpuq  *)
(* are decoded, those in second by the second sub-batch.                   *)
Lists(all, cpuq, T, second, plen) ==
  LET b0 == [all EXCEPT !.cdec = PickAt(cpuq, T \ second)]
      b1 == Batch(<< >>, << >>, << >>, PickAt(cpuq, second))
      gpuOnly == KeepCprf(all, KeptMin(all, plen))
  IN IF numGpuBlocks = 0 THEN {NonEmpty(<<b0, b1>>)}
     ELSE IF T = {} THEN {<<gpuOnly>>}
     ELSE {<<gpuOnly>>} \cup
          {<<KeepCprf(b0, k), b1>> : k \in KeptMin(b0, plen) .. Len(all.cprf)}

Decide(toGpu, toCpu, gpuq, cpuq, room, s) ==
  LET all == Batch(toCpu, toGpu, gpuq, << >>)
  IN IF BatchReqs(all) = << >> /\ numGpuBlocks > 0 THEN {<< >>}
     ELSE UNION {UNION {Lists(all, cpuq, T, second, s.plen) : second \in CpuSplits(T)} :
                   T \in CpuDecodes(cpuq, s.len, room)}

(* The table of CPU decode times ends at the tokens the CPU cache holds.   *)
CdecTooLong(batches, len) ==
  \E k \in DOMAIN batches :
    Sum(batches[k].cdec, len) > Smaller(MaxBatch * MaxLen, NumCpu * BlockSize)

-----------------------------------------------------------------------------
(* _get_next_batch_new.                                                    *)

(* Step 2: the GPU decodes that stay; victims are taken off the end.       *)
Staying(s) ==
  Max({k \in 0 .. Len(s.gpuq) :
         WithinBudget(k, k) /\ Blocks(First(s.gpuq, k), s.len) <= numGpuBlocks})

(* Mutant: the last victim popped is not put back.                         *)
OffloadedLessOne(s, k) == After(s.gpuq, k + 1) \o s.cpuq

(* The queue of CPU decodes once the victims are put at its front.         *)
Offloaded(s, k) == After(s.gpuq, k) \o s.cpuq

(* Step 3: how many of cpuq come back to the GPU.                          *)
Returning(gpuq, cpuq, len) ==
  LongestPrefix(cpuq, {i \in DOMAIN cpuq :
    /\ Blocks(gpuq, len) + Blocks(First(cpuq, i), len) <= SwapInLimit
    /\ WithinBudget(Len(gpuq) + i, Len(gpuq) + i)})

(* Mutant: the blocks of the GPU decodes are not counted.                  *)
FitOnGpuAlone(gpuq, s) ==
  LongestPrefix(s.waiting, {i \in DOMAIN s.waiting :
    Blocks(First(s.waiting, i), s.len) <= numGpuBlocks})

(* Step 4: how many of waiting would be prefilled to stay on the GPU, and  *)
(* how many are admitted beside the decodes of gpuq.                       *)
FitOnGpu(gpuq, s) ==
  LongestPrefix(s.waiting, {i \in DOMAIN s.waiting :
    Blocks(gpuq, s.len) + Blocks(First(s.waiting, i), s.len) <= numGpuBlocks})

Admitted(gpuq, cpuq, s) ==
  LET g == FitOnGpu(gpuq, s)
  IN LongestPrefix(s.waiting, {i \in DOMAIN s.waiting :
       LET cur == BlockNeeded(s.len[s.waiting[i]])
           toCpu == Blocks(SubSeq(s.waiting, g + 1, i - 1), s.len)
       IN /\ toCpu + cur <= NumGpu
          /\ Blocks(cpuq, s.len) + toCpu + cur <= CpuThreshold
          /\ Len(s.avail) >= i - 1
          /\ WithinBudget(Len(gpuq) + i, Len(gpuq) + Sum(First(s.waiting, i), s.plen))})

Result(batches, swapOut, swapIn, gpuq, cpuq, ok) ==
  [batches |-> batches, swapOut |-> swapOut, swapIn |-> swapIn,
   gpuq |-> gpuq, cpuq |-> cpuq, ok |-> ok]

(* Step 6: the prompts of the batches leave the queue and get ids.         *)
Launch(batches, swapOut, swapIn, gpuq, cpuq, s) ==
  Result(batches, swapOut, swapIn,
         gpuq \o (IF batches = << >> THEN << >> ELSE batches[1].gprf),
         cpuq \o (IF batches = << >> THEN << >> ELSE batches[1].cprf),
         /\ NumPrefs(batches) <= Len(s.avail)
         /\ swapOut = << >> \/ swapIn = << >>
         /\ ~CdecTooLong(batches, s.len))

NextBatchNew(s) ==
  LET m == Staying(s)
      stay == First(s.gpuq, m)
      off == Offloaded(s, m)
      k == Returning(stay, off, s.len)
      gpuq == stay \o First(off, k)
      cpuq == After(off, k)
      a == Admitted(gpuq, cpuq, s)
      g == Smaller(a, FitOnGpu(gpuq, s))
      room == Room(Len(gpuq) + a, Len(gpuq) + Sum(First(s.waiting, a), s.plen))
  IN {Launch(batches, Reverse(After(s.gpuq, m)), First(off, k), gpuq, cpuq, s) :
        batches \in Decide(First(s.waiting, g), SubSeq(s.waiting, g + 1, a), gpuq, cpuq, room, s)}

-----------------------------------------------------------------------------
(* _get_next_batch_old, the GPU-only mode (always_use_gpu).                *)

(* The list of victims is reversed once by reverse() and once more by      *)
(* extendleft().                                                           *)
OffloadedOld(s, k) == Reverse(After(s.gpuq, k)) \o s.cpuq

(* Without CPU decodes, prompts join the batch while they fit.             *)
AdmittedOld(s) ==
  LongestPrefix(s.waiting, {i \in DOMAIN s.waiting :
    /\ Len(s.gpuq) + i <= MaxBatch
    /\ Blocks(s.gpuq, s.len) + Blocks(First(s.waiting, i), s.len) <= numGpuBlocks
    /\ Len(s.gpuq) + Sum(First(s.waiting, i), s.plen) <= MaxTokens})

(* With them, and no victim, CPU decodes come back while they fit.         *)
ReturningOld(gpuq, cpuq, len) ==
  LongestPrefix(cpuq, {i \in DOMAIN cpuq :
    /\ Len(gpuq) + i <= MaxBatch
    /\ Blocks(gpuq, len) + Blocks(First(cpuq, i), len) <= numGpuBlocks})

StayingOld(s) ==
  Max({k \in 0 .. Len(s.gpuq) : k <= MaxBatch /\ Blocks(First(s.gpuq, k), s.len) <= numGpuBlocks})

NextBatchOld(s) ==
  LET m == StayingOld(s)
      victims == After(s.gpuq, m)
      off == OffloadedOld(s, m)
      prompts == First(s.waiting, AdmittedOld(s))
      k == IF victims = << >> THEN ReturningOld(s.gpuq, off, s.len) ELSE 0
      gpuq == First(s.gpuq, m) \o First(off, k)
  IN {IF off = << >> /\ s.gpuq \o prompts # << >>
      THEN Result(<<Batch(<< >>, prompts, s.gpuq, << >>)>>, << >>, << >>,
                  s.gpuq \o prompts, << >>, Len(prompts) <= Len(s.avail))
      ELSE Result(NonEmpty(<<Batch(<< >>, << >>, gpuq, << >>)>>),
                  victims, First(off, k), gpuq, After(off, k), TRUE)}
=============================================================================
