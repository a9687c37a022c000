------------------------------ MODULE NeoEngine ------------------------------
(***************************************************************************)
(* AsyncEngine's main event loop (swiftllm/server/engine.py): the          *)
(* scheduler, the request ids and the block manager, with requests that    *)
(* arrive at any time the event loop runs other tasks.                     *)
(*                                                                         *)
(* get_next_batch and prepare run without an await between them, so they   *)
(* are one step; the forward pass is awaited, and arrivals interleave with *)
(* it; update_and_free and remove_finished_requests are one step again.    *)
(* Any exception in the loop ends the process (pc = "dead").               *)
(***************************************************************************)
EXTENDS Scheduler

CONSTANTS
  NumReqs,     \* requests 1 .. NumReqs, numbered in order of arrival
  Prompts,     \* the prompt lengths requests may have
  Outputs,     \* the max_output_len requests may have
  MaxIds,      \* max_seqs_in_block_table
  ExtraLayer,  \* the switch extra_layer_for_cprf
  PartialOfflOff, \* the values disable_partial_offl may have, fixed at start
  Modes        \* the values always_use_gpu may take from step to step

ASSUME EngineAssumption ==
  /\ NumReqs \in Nat /\ MaxIds \in Nat /\ MaxBatch <= MaxIds
  /\ Prompts \subseteq Nat \ {0} /\ Outputs \subseteq Nat \ {0}
  /\ Modes \subseteq BOOLEAN /\ PartialOfflOff \subseteq BOOLEAN /\ ExtraLayer \in BOOLEAN

VARIABLES
  waiting, gpuq, cpuq,  \* the scheduler's queues
  avail,                \* available_ids
  rid,                  \* request_id, -1 before it is given one
  plen, olen, mlen,     \* prompt_len, output_len, max_output_len
  iter,                 \* what get_next_batch returned for this iteration
  gpu, cpu,             \* the two device block managers
  pc                    \* "sched", "sleep", "exec" in the forward pass, "dead"

queues == <<waiting, gpuq, cpuq>>
devices == <<gpu, cpu>>
vars == <<numGpuBlocks, queues, avail, rid, plen, olen, mlen, iter, devices, pc>>

Reqs == 1 .. NumReqs
Ids == 0 .. (MaxIds - 1)
Idle == [batches |-> << >>, swapOut |-> << >>, swapIn |-> << >>]

SeqLen == [r \in Reqs |-> plen[r] + olen[r]]
Arrived == {r \in Reqs : plen[r] > 0}
Finished == {r \in Arrived : olen[r] = mlen[r]}

(* The rows of the block tables.                                           *)
Rows(q, id) == [i \in DOMAIN q |-> id[q[i]]]
RowBatches(batches, id) ==
  [k \in DOMAIN batches |->
     Batch(Rows(batches[k].cprf, id), Rows(batches[k].gprf, id),
           Rows(batches[k].gdec, id), Rows(batches[k].cdec, id))]

(* A finished request keeps its request_id, but the row is no longer its.  *)
Holders == {r \in Reqs : rid[r] # -1} \ Finished

RowLens == [row \in Ids |->
  IF \E r \in Holders : rid[r] = row
  THEN SeqLen[CHOOSE r \in Holders : rid[r] = row] ELSE 0]

(* The block manager knows a request by its row.                           *)
BM == INSTANCE BlockManager WITH
        lens <- RowLens,
        running <- IF pc = "exec" THEN RowBatches(iter.batches, rid) ELSE << >>,
        pc <- IF pc \in {"sched", "sleep"} THEN "idle" ELSE pc

(* Under disable_partial_offl no decode runs on the GPU.                   *)
Init ==
  /\ numGpuBlocks \in {IF off THEN 0 ELSE NumGpu : off \in PartialOfflOff}
  /\ waiting = << >> /\ gpuq = << >> /\ cpuq = << >>
  /\ avail = [i \in 1 .. MaxIds |-> i - 1]
  /\ rid = [r \in Reqs |-> -1]
  /\ plen = [r \in Reqs |-> 0]
  /\ olen = [r \in Reqs |-> 0]
  /\ mlen = [r \in Reqs |-> 0]
  /\ iter = Idle
  /\ gpu = BM!NewDevice(NumGpu) /\ cpu = BM!NewDevice(NumCpu)
  /\ pc = "sched"

(* Mutant: arrivals are put at the front of the queue.                     *)
ArriveAtFront(r, p, m) ==
  /\ pc # "dead"
  /\ Arrived = 1 .. (r - 1)
  /\ p + m <= MaxLen
  /\ waiting' = <<r>> \o waiting
  /\ plen' = [plen EXCEPT ![r] = p]
  /\ mlen' = [mlen EXCEPT ![r] = m]
  /\ UNCHANGED <<gpuq, cpuq, avail, rid, olen, iter, devices, pc>>

(* on_requests_arrival, after the length assertion of the tokenizer loop.  *)
Arrive(r, p, m) ==
  /\ pc # "dead"
  /\ Arrived = 1 .. (r - 1)
  /\ p + m <= MaxLen
  /\ waiting' = Append(waiting, r)
  /\ plen' = [plen EXCEPT ![r] = p]
  /\ mlen' = [mlen EXCEPT ![r] = m]
  /\ UNCHANGED <<gpuq, cpuq, avail, rid, olen, iter, devices, pc>>

Snapshot ==
  [waiting |-> waiting, gpuq |-> gpuq, cpuq |-> cpuq, avail |-> avail,
   plen |-> plen, len |-> SeqLen]

NextBatches(gpuOnly) ==
  IF gpuOnly THEN NextBatchOld(Snapshot) ELSE NextBatchNew(Snapshot)

NothingToDo(res) == res.batches = << >> /\ res.swapOut = << >> /\ res.swapIn = << >>

(* Mutant: ids are given from the end of the list.                         *)
GivenIdsFromEnd(n) ==
  [r \in Reqs |-> IF \E i \in 1 .. n : waiting[i] = r
                  THEN Reverse(avail)[CHOOSE i \in 1 .. n : waiting[i] = r] ELSE rid[r]]

(* The first n waiting requests take the first n available ids.            *)
GivenIds(n) ==
  [r \in Reqs |-> IF \E i \in 1 .. n : waiting[i] = r
                  THEN avail[CHOOSE i \in 1 .. n : waiting[i] = r] ELSE rid[r]]

(* free_ids: ids given back are given out again after all others.          *)
FreedIds(ids) == avail \o ids

RowLensWith(id) ==
  [row \in Ids |-> IF \E r \in Reqs \ Finished : id[r] = row
                   THEN SeqLen[CHOOSE r \in Reqs \ Finished : id[r] = row] ELSE 0]

(* prepare for the result res of get_next_batch, with ids given by id.     *)
PrepareAsserts(res, id) ==
  BM!PrepareAsserts(RowBatches(res.batches, id), Rows(res.swapOut, id),
                    Rows(res.swapIn, id), RowLensWith(id))

PreparedDevices(res, id) ==
  BM!PreparedDevices([gpu |-> gpu, cpu |-> cpu], RowBatches(res.batches, id),
                     Rows(res.swapOut, id), Rows(res.swapIn, id), RowLensWith(id))

(* Neither get_next_batch nor prepare raises.                              *)
Succeeds(res) ==
  /\ res.ok
  /\ LET id == GivenIds(NumPrefs(res.batches))
     IN /\ PrepareAsserts(res, id)
        /\ PreparedDevices(res, id).gpu.ok
        /\ PreparedDevices(res, id).cpu.ok

Schedule(gpuOnly) ==
  /\ pc = "sched"
  /\ \E res \in NextBatches(gpuOnly) :
       LET n == NumPrefs(res.batches)
           id == GivenIds(n)
           p == PreparedDevices(res, id)
       IN /\ ~NothingToDo(res) /\ Succeeds(res)
          /\ waiting' = After(waiting, n)
          /\ avail' = After(avail, n)
          /\ rid' = id
          /\ gpuq' = res.gpuq /\ cpuq' = res.cpuq
          /\ iter' = [batches |-> res.batches, swapOut |-> res.swapOut, swapIn |-> res.swapIn]
          /\ gpu' = p.gpu /\ cpu' = p.cpu
          /\ pc' = "exec"
  /\ UNCHANGED <<plen, olen, mlen>>

(* Nothing to do: the loop sleeps, while others may run.                   *)
Sleep(gpuOnly) ==
  /\ pc = "sched"
  /\ \E res \in NextBatches(gpuOnly) : NothingToDo(res)
  /\ pc' = "sleep"
  /\ UNCHANGED <<queues, avail, rid, plen, olen, mlen, iter, devices>>

Wake ==
  /\ pc = "sleep"
  /\ pc' = "sched"
  /\ UNCHANGED <<queues, avail, rid, plen, olen, mlen, iter, devices>>

(* The exception reaches the server, which exits: no state is left.        *)
Raise(gpuOnly) ==
  /\ pc = "sched"
  /\ \E res \in NextBatches(gpuOnly) : ~NothingToDo(res) /\ ~Succeeds(res)
  /\ pc' = "dead"
  /\ UNCHANGED <<queues, avail, rid, plen, olen, mlen, iter, devices>>

(* Mutant: the second sub-batch gets no tokens.                            *)
IterReqsOfFirst == BatchReqs(iter.batches[1])

(* The requests of the iteration in the order of their output tokens.      *)
IterReqs ==
  IF Len(iter.batches) = 2 THEN BatchReqs(iter.batches[1]) \o BatchReqs(iter.batches[2])
                           ELSE BatchReqs(iter.batches[1])

(* Mutant: finished requests stay in the queues.                           *)
UnfinishedAll(q, finished) == q

(* The filter of remove_finished_requests.                                 *)
Unfinished(q, finished) == Kept(q, Reqs \ finished)

(* Every request of the iteration gets a token; those that reach their     *)
(* max_output_len leave the queues and give back blocks and ids.           *)
Complete ==
  LET ran == ToSet(IterReqs)
      finished == {r \in ran : olen[r] + 1 = mlen[r]}
      rows == {rid[r] : r \in finished}
  IN /\ pc = "exec"
     /\ olen' = [r \in Reqs |-> IF r \in ran THEN olen[r] + 1 ELSE olen[r]]
     /\ gpu' = BM!Free(gpu, rows, 0)
     /\ cpu' = BM!Free(cpu, rows, 0)
     /\ gpuq' = Unfinished(gpuq, finished)
     /\ cpuq' = Unfinished(cpuq, finished)
     /\ avail' = FreedIds(Rows(Kept(IterReqs, finished), rid))
     /\ iter' = Idle
     /\ pc' = "sched"
     /\ UNCHANGED <<waiting, rid, plen, mlen>>

(* always_use_gpu can be altered at any time, but not combined with        *)
(* disable_partial_offl, which leaves its policy no blocks.                *)
ModesNow == IF numGpuBlocks = 0 THEN Modes \ {TRUE} ELSE Modes

Step ==
  \/ \E r \in Reqs, p \in Prompts, m \in Outputs : Arrive(r, p, m)
  \/ \E mode \in ModesNow : Schedule(mode)
  \/ \E mode \in ModesNow : Sleep(mode)
  \/ \E mode \in ModesNow : Raise(mode)
  \/ Wake
  \/ Complete

Next == Step /\ UNCHANGED numGpuBlocks

Spec == Init /\ [][Next]_vars

(* The event loop goes on: some step is possible in every state of pc but  *)
(* "dead", as get_next_batch always returns and so does the forward pass.  *)
Turn == pc # "dead" /\ pc' \in {"sched", "sleep", "exec", "dead"} \ {pc}

FairSpec == Spec /\ WF_pc(Turn)
-----------------------------------------------------------------------------
TypeOK ==
  /\ waiting \in Seq(Reqs) /\ gpuq \in Seq(Reqs) /\ cpuq \in Seq(Reqs)
  /\ avail \in Seq(Ids) /\ rid \in [Reqs -> Ids \cup {-1}]
  /\ plen \in [Reqs -> Prompts \cup {0}] /\ mlen \in [Reqs -> Outputs \cup {0}]
  /\ \A r \in Reqs : olen[r] \in 0 .. mlen[r]
  /\ BM!DeviceType(gpu, NumGpu) /\ BM!DeviceType(cpu, NumCpu)
  /\ pc \in {"sched", "sleep", "exec", "dead"}

(* Every request that has arrived and is not finished is in exactly one    *)
(* queue, once: the pops, slices and filters of an iteration, and arrivals *)
(* during it, neither lose nor duplicate one.                              *)
NoRequestLost ==
  LET all == waiting \o gpuq \o cpuq
  IN IsInjective(all) /\ ToSet(all) = Arrived \ Finished

(* The queues say where the KV of a request is: the decodes of gpuq have   *)
(* rows on the GPU only, those of cpuq on the CPU only, and no other row   *)
(* of either device holds a block.                                         *)
QueuesMatchDevices ==
  /\ {rid[r] : r \in ToSet(gpuq)} = {row \in Ids : gpu.table[row] # << >>}
  /\ {rid[r] : r \in ToSet(cpuq)} = {row \in Ids : cpu.table[row] # << >>}

(* An id is available or held by one unfinished request, never both.       *)
IdsExact ==
  /\ IsInjective(avail)
  /\ \A r, q \in Holders : rid[r] = rid[q] => r = q
  /\ ToSet(avail) = Ids \ {rid[r] : r \in Holders}

(* Prompts start in the order of arrival: "a strict FCFS scheduler".       *)
StartsInOrder == \A r, q \in Arrived : r < q /\ rid[q] # -1 => rid[r] # -1

(* No exception ends the server: a batch the scheduler forms never runs    *)
(* out of blocks or request ids, and never fails an assertion of prepare.  *)
EngineNeverDies == pc # "dead"

(* Enough ids for the requests that are not finished, and enough blocks on *)
(* the CPU for all they hold.                                              *)
RoomForAll ==
  LET live == Arrived \ Finished
  IN /\ Cardinality(live) <= MaxIds
     /\ SumFunction([r \in live |-> BlockNeeded(SeqLen[r])]) <= NumCpu

(* Where the GPU holds the longest sequence, the server dies only of more  *)
(* requests than the CPU or the block table has room for: as long as there *)
(* is, no growing decode, victim or swap runs out of blocks on a device.   *)
DiesOnlyWhenFull == pc = "dead" => ~RoomForAll

(* Every request that arrives is answered in full.                         *)
EveryRequestFinishes == \A r \in Reqs : r \in Arrived ~> r \in Finished

(* Each step is one of the block manager's, on calls that respect its      *)
(* contract.                                                               *)
BlockManagerCall ==
  [batches |-> RowBatches(iter'.batches, rid'),
   swapOut |-> Rows(iter'.swapOut, rid'), swapIn |-> Rows(iter'.swapIn, rid'),
   prompt |-> [row \in Ids |-> IF \E r \in Reqs \ Finished : rid'[r] = row
                               THEN plen[CHOOSE r \in Reqs \ Finished : rid'[r] = row] ELSE 1]]

BlockManagerStep ==
  \/ \E call \in {BlockManagerCall} : BM!Prepare(call)
  \/ \E done \in {{rid[r] : r \in Finished' \ Finished}} : BM!UpdateAndFree(done)
  \/ pc' = "dead" /\ UNCHANGED devices
  \/ UNCHANGED <<devices, iter, olen, rid>>

ImplementsBlockManager == BM!Init /\ [][BlockManagerStep]_vars
=============================================================================
