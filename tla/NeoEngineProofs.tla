--------------------------- MODULE NeoEngineProofs ---------------------------
(***************************************************************************)
(* The event loop loses no request, gives every id to one request at a     *)
(* time and starts prompts in the order they arrived, for any number of    *)
(* requests, any sizes of the two caches and any answer of the predictor;  *)
(* and it implements the block manager: every step of it is one of the     *)
(* block manager's on a legal call, and its queues tell where the KV of    *)
(* every request is.                                                       *)
(***************************************************************************)
EXTENDS NeoEngine, SchedulerProofs

-----------------------------------------------------------------------------
(* Part I.  Requests, ids and order: the inductive invariant.              *)

QueueTypes ==
  /\ waiting \in Seq(Reqs) /\ gpuq \in Seq(Reqs) /\ cpuq \in Seq(Reqs)
  /\ avail \in Seq(Ids) /\ rid \in [Reqs -> Ids \cup {-1}]
  /\ plen \in [Reqs -> Prompts \cup {0}] /\ mlen \in [Reqs -> Outputs \cup {0}]
  /\ olen \in [Reqs -> Nat] /\ \A r \in Reqs : olen[r] <= mlen[r]
  /\ numGpuBlocks \in Nat
  /\ pc \in {"sched", "sleep", "exec", "dead"}

(* Requests arrive in the order of their numbers, and one that has not yet *)
(* arrived has neither an id nor an output length.                         *)
ArrivedInOrder ==
  /\ \A r \in Arrived, q \in Reqs : q < r => q \in Arrived
  /\ \A r \in Reqs \ Arrived : rid[r] = -1 /\ mlen[r] = 0

(* What waits has no id, in the order of arrival, and all else has one.    *)
WaitingInOrder ==
  /\ \A i, j \in DOMAIN waiting : i < j => waiting[i] < waiting[j]
  /\ \A r \in Arrived : rid[r] = -1 <=> r \in ToSet(waiting)

(* Within an iteration the batches run unfinished requests, each once.     *)
RunningDecodes ==
  pc = "exec" => Ready(Reqs, iter.batches, {}, ToSet(gpuq) \cup ToSet(cpuq))

IInv ==
  /\ QueueTypes /\ NoRequestLost /\ ArrivedInOrder /\ WaitingInOrder /\ StartsInOrder
  /\ RunningDecodes /\ IdsExact

-----------------------------------------------------------------------------
(* Three queues end to end.                                                *)
LEMMA ThreeQueues ==
  ASSUME NEW R, NEW w \in Seq(R), NEW g \in Seq(R), NEW c \in Seq(R)
  PROVE  /\ ToSet(w \o g \o c) = ToSet(w) \cup ToSet(g) \cup ToSet(c)
         /\ IsInjective(w \o g \o c) <=>
              /\ IsInjective(w) /\ IsInjective(g) /\ IsInjective(c)
              /\ ToSet(w) \cap (ToSet(g) \cup ToSet(c)) = {} /\ ToSet(g) \cap ToSet(c) = {}
<1>1. PICK x : x = w \o g
  OBVIOUS
<1>2. /\ x \in Seq(R) /\ ToSet(x) = ToSet(w) \cup ToSet(g)
      /\ IsInjective(x) <=> IsInjective(w) /\ IsInjective(g) /\ ToSet(w) \cap ToSet(g) = {}
  <2>1. /\ w \o g \in Seq(R) /\ ToSet(w \o g) = ToSet(w) \cup ToSet(g)
        /\ IsInjective(w \o g) <=>
             IsInjective(w) /\ IsInjective(g) /\ ToSet(w) \cap ToSet(g) = {}
    BY ConcatMembers
  <2>2. QED
    BY <1>1, <2>1
<1>3. /\ ToSet(x \o c) = ToSet(x) \cup ToSet(c)
      /\ IsInjective(x \o c) <=> IsInjective(x) /\ IsInjective(c) /\ ToSet(x) \cap ToSet(c) = {}
  <2>1. x \in Seq(R)
    BY <1>2
  <2>2. QED
    BY <2>1, ConcatMembers
<1>4. w \o g \o c = x \o c
  BY <1>1
<1>5. ToSet(x) \cap ToSet(c) = {} <=> ToSet(w) \cap ToSet(c) = {} /\ ToSet(g) \cap ToSet(c) = {}
  BY <1>2
<1>6. ToSet(w) \cap (ToSet(g) \cup ToSet(c)) = {} <=>
        ToSet(w) \cap ToSet(g) = {} /\ ToSet(w) \cap ToSet(c) = {}
  OBVIOUS
<1>7. QED
  BY <1>2, <1>3, <1>4, <1>5, <1>6

(* NoRequestLost, queue by queue.                                          *)
Separate(w, g, c, all) ==
  /\ IsInjective(w) /\ IsInjective(g) /\ IsInjective(c)
  /\ ToSet(w) \cap (ToSet(g) \cup ToSet(c)) = {} /\ ToSet(g) \cap ToSet(c) = {}
  /\ ToSet(w) \cup ToSet(g) \cup ToSet(c) = all

LEMMA NothingLostIs ==
  ASSUME waiting \in Seq(Reqs), gpuq \in Seq(Reqs), cpuq \in Seq(Reqs)
  PROVE  NoRequestLost <=> Separate(waiting, gpuq, cpuq, Arrived \ Finished)
BY ThreeQueues DEF NoRequestLost, Separate

LEMMA NothingLostNext ==
  ASSUME waiting' \in Seq(Reqs), gpuq' \in Seq(Reqs), cpuq' \in Seq(Reqs)
  PROVE  NoRequestLost' <=> Separate(waiting', gpuq', cpuq', (Arrived \ Finished)')
BY ThreeQueues DEF NoRequestLost, Separate

(* The rows of a list of requests.                                         *)
LEMMA RowsMembers ==
  ASSUME NEW R, NEW q \in Seq(R), NEW id, NEW I, \A r \in ToSet(q) : id[r] \in I
  PROVE  /\ Rows(q, id) \in Seq(I) /\ Len(Rows(q, id)) = Len(q)
         /\ ToSet(Rows(q, id)) = {id[r] : r \in ToSet(q)}
         /\ IsInjective(q) /\ (\A r, p \in ToSet(q) : id[r] = id[p] => r = p)
              => IsInjective(Rows(q, id))
<1> DEFINE n == Len(q)
<1>1. DOMAIN q = 1 .. n /\ n \in Nat /\ \A i \in 1 .. n : q[i] \in ToSet(q)
  BY DEF ToSet
<1>2. Rows(q, id) = [i \in 1 .. n |-> id[q[i]]]
  BY <1>1 DEF Rows
<1>3. Rows(q, id) \in [1 .. n -> I]
  BY <1>1, <1>2
<1>4. Rows(q, id) \in Seq(I) /\ Len(Rows(q, id)) = n
  BY <1>1, <1>3
<1>5. ToSet(Rows(q, id)) = {id[r] : r \in ToSet(q)}
  <2>1. ToSet(Rows(q, id)) = {id[q[i]] : i \in 1 .. n}
    BY <1>2 DEF ToSet
  <2>2. ToSet(q) = {q[i] : i \in 1 .. n}
    BY <1>1 DEF ToSet
  <2>3. QED
    BY <2>1, <2>2
<1>6. ASSUME IsInjective(q), \A r, p \in ToSet(q) : id[r] = id[p] => r = p
      PROVE  IsInjective(Rows(q, id))
  BY <1>1, <1>2, <1>6 DEF IsInjective
<1>7. QED
  BY <1>4, <1>5, <1>6

-----------------------------------------------------------------------------
LEMMA Initially == Init => IInv
<1> SUFFICES ASSUME Init PROVE IInv
  OBVIOUS
<1>1. PICK e : e = << >>
  OBVIOUS
<1>2. /\ waiting = e /\ gpuq = e /\ cpuq = e /\ avail = [i \in 1 .. MaxIds |-> i - 1]
      /\ rid = [r \in Reqs |-> -1] /\ plen = [r \in Reqs |-> 0]
      /\ olen = [r \in Reqs |-> 0] /\ mlen = [r \in Reqs |-> 0] /\ pc = "sched"
  BY <1>1 DEF Init
<1>3. e \in Seq(Reqs) /\ ToSet(e) = {} /\ IsInjective(e) /\ DOMAIN e = {}
  BY <1>1 DEF ToSet, IsInjective
<1>4. MaxIds \in Nat /\ NumGpu \in Nat
  BY EngineAssumption, SchedulerAssumption
<1>5. Arrived = {} /\ Finished = {} /\ Holders = {}
  BY <1>2 DEF Arrived, Finished, Holders
<1>6. /\ avail \in Seq(Ids) /\ ToSet(avail) = Ids /\ IsInjective(avail)
  <2>1. avail \in [1 .. MaxIds -> Ids]
    BY <1>2, <1>4 DEF Ids
  <2>2. avail \in Seq(Ids)
    BY <1>4, <2>1
  <2>3. ToSet(avail) = {i - 1 : i \in 1 .. MaxIds}
    BY <1>2, <1>4 DEF ToSet
  <2>4. \A k \in Ids : k + 1 \in 1 .. MaxIds /\ k = (k + 1) - 1
    BY <1>4 DEF Ids
  <2>5. {i - 1 : i \in 1 .. MaxIds} = Ids
    BY <1>4, <2>4 DEF Ids
  <2>6. IsInjective(avail)
    BY <1>2, <1>4 DEF IsInjective
  <2>7. QED
    BY <2>2, <2>3, <2>5, <2>6
<1>7. QueueTypes
  <2>1. numGpuBlocks \in Nat
    BY <1>4 DEF Init
  <2>2. QED
    BY <1>2, <1>3, <1>6, <2>1 DEF QueueTypes
<1>8. NoRequestLost
  <2>1. Separate(waiting, gpuq, cpuq, Arrived \ Finished)
    BY <1>2, <1>3, <1>5 DEF Separate
  <2>2. QED
    BY <1>2, <1>3, <2>1, NothingLostIs
<1>9. ArrivedInOrder /\ StartsInOrder
  BY <1>2, <1>5 DEF ArrivedInOrder, StartsInOrder
<1>10. WaitingInOrder
  BY <1>2, <1>3, <1>5 DEF WaitingInOrder
<1>11. RunningDecodes
  BY <1>2 DEF RunningDecodes
<1>12. IdsExact
  BY <1>5, <1>6 DEF IdsExact
<1>13. QED
  BY <1>7, <1>8, <1>9, <1>10, <1>11, <1>12 DEF IInv

(* The steps that move no request.                                         *)
LEMMA Resting ==
  ASSUME IInv, UNCHANGED <<queues, avail, rid, plen, olen, mlen, iter, numGpuBlocks>>,
         pc' \in {"sched", "sleep", "dead"} \/ pc' = pc
  PROVE  IInv'
<1>1. /\ waiting' = waiting /\ gpuq' = gpuq /\ cpuq' = cpuq /\ avail' = avail /\ rid' = rid
      /\ plen' = plen /\ olen' = olen /\ mlen' = mlen /\ iter' = iter
      /\ numGpuBlocks' = numGpuBlocks
  BY DEF queues
<1>2. Arrived' = Arrived /\ Finished' = Finished /\ Holders' = Holders
  BY <1>1 DEF Arrived, Finished, Holders
<1>3. QueueTypes'
  BY <1>1 DEF IInv, QueueTypes
<1>4. NoRequestLost'
  BY <1>1, <1>2 DEF IInv, NoRequestLost
<1>5. ArrivedInOrder' /\ StartsInOrder'
  BY <1>1, <1>2 DEF IInv, ArrivedInOrder, StartsInOrder
<1>6. WaitingInOrder'
  BY <1>1, <1>2 DEF IInv, WaitingInOrder
<1>7. RunningDecodes'
  BY <1>1 DEF IInv, RunningDecodes
<1>8. IdsExact'
  BY <1>1, <1>2 DEF IInv, IdsExact
<1>9. QED
  BY <1>3, <1>4, <1>5, <1>6, <1>7, <1>8 DEF IInv

-----------------------------------------------------------------------------
(* A new request is the last to wait.                                      *)
LEMMA Arrives ==
  ASSUME IInv, NEW r \in Reqs, NEW p \in Prompts, NEW m \in Outputs, Arrive(r, p, m),
         numGpuBlocks' = numGpuBlocks
  PROVE  IInv'
<1>1. /\ waiting' = Append(waiting, r) /\ gpuq' = gpuq /\ cpuq' = cpuq /\ avail' = avail
      /\ rid' = rid /\ plen' = [plen EXCEPT ![r] = p] /\ olen' = olen
      /\ mlen' = [mlen EXCEPT ![r] = m] /\ iter' = iter /\ pc' = pc
      /\ Arrived = 1 .. (r - 1)
  BY DEF Arrive
<1>2. QueueTypes /\ p \in Nat \ {0} /\ m \in Nat \ {0} /\ Reqs \subseteq Nat
  BY EngineAssumption DEF IInv, Reqs
<1>3. r \notin Arrived /\ rid[r] = -1 /\ mlen[r] = 0 /\ olen[r] = 0
  <2>1. r \notin Arrived
    BY <1>1, <1>2
  <2>2. rid[r] = -1 /\ mlen[r] = 0
    BY <2>1 DEF IInv, ArrivedInOrder
  <2>3. olen[r] \in Nat /\ olen[r] <= mlen[r]
    BY <1>2 DEF QueueTypes
  <2>4. QED
    BY <2>1, <2>2, <2>3
<1>4. \A q \in Reqs \ {r} : plen'[q] = plen[q] /\ mlen'[q] = mlen[q]
  BY <1>1, <1>2 DEF QueueTypes
<1>5. plen'[r] = p /\ mlen'[r] = m
  BY <1>1, <1>2 DEF QueueTypes
<1>6. Arrived' = Arrived \cup {r}
  <2>1. Arrived' = {q \in Reqs : plen'[q] > 0}
    BY DEF Arrived
  <2>2. p > 0
    BY <1>2
  <2>3. \A q \in Reqs : plen'[q] > 0 <=> plen[q] > 0 \/ q = r
    BY <1>4, <1>5, <2>2
  <2>4. QED
    BY <2>1, <2>3 DEF Arrived
<1>7. Finished' = Finished
  BY <1>1, <1>2, <1>3, <1>4, <1>5, <1>6 DEF Finished
<1>8. Holders' = Holders
  BY <1>1, <1>7 DEF Holders
<1>9. waiting \in Seq(Reqs) /\ gpuq \in Seq(Reqs) /\ cpuq \in Seq(Reqs)
  BY <1>2 DEF QueueTypes
<1>10. Separate(waiting, gpuq, cpuq, Arrived \ Finished)
  BY <1>9, NothingLostIs DEF IInv
<1>11. r \notin ToSet(waiting) /\ r \notin ToSet(gpuq) /\ r \notin ToSet(cpuq)
  BY <1>3, <1>10 DEF Separate
<1>12. /\ waiting' \in Seq(Reqs) /\ ToSet(waiting') = ToSet(waiting) \cup {r}
       /\ IsInjective(waiting')
  <2>1. /\ Append(waiting, r) \in Seq(Reqs) /\ ToSet(Append(waiting, r)) = ToSet(waiting) \cup {r}
        /\ IsInjective(Append(waiting, r)) <=> IsInjective(waiting) /\ r \notin ToSet(waiting)
    BY <1>9, AppendMembers
  <2>2. IsInjective(waiting)
    BY <1>10 DEF Separate
  <2>3. QED
    BY <1>1, <1>11, <2>1, <2>2
<1>13. QueueTypes'
  <2>1. plen' \in [Reqs -> Prompts \cup {0}] /\ mlen' \in [Reqs -> Outputs \cup {0}]
    BY <1>1, <1>2 DEF QueueTypes
  <2>2. \A q \in Reqs : olen'[q] <= mlen'[q]
    <3>1. olen'[r] <= mlen'[r]
      BY <1>1, <1>2, <1>3, <1>5
    <3>2. \A q \in Reqs \ {r} : olen'[q] <= mlen'[q]
      BY <1>1, <1>2, <1>4 DEF QueueTypes
    <3>3. QED
      BY <3>1, <3>2
  <2>3. QED
    BY <1>1, <1>2, <1>12, <2>1, <2>2 DEF QueueTypes
<1>14. NoRequestLost'
  <2>1. r \notin Finished
    BY <1>3 DEF Finished
  <2>2. (Arrived \ Finished)' = (Arrived \ Finished) \cup {r}
    BY <1>6, <1>7, <2>1
  <2>3. Separate(waiting', gpuq', cpuq', (Arrived \ Finished)')
    BY <1>1, <1>10, <1>11, <1>12, <2>2 DEF Separate
  <2>4. QED
    BY <1>1, <1>9, <1>12, <2>3, NothingLostNext
<1>15. ArrivedInOrder'
  <2>1. \A q \in Reqs \ Arrived' : rid'[q] = -1 /\ mlen'[q] = 0
    BY <1>1, <1>4, <1>6 DEF IInv, ArrivedInOrder
  <2>2. \A o \in Arrived', q \in Reqs : q < o => q \in Arrived'
    BY <1>1, <1>2, <1>6 DEF Reqs
  <2>3. QED
    BY <2>1, <2>2 DEF ArrivedInOrder
<1>16. WaitingInOrder'
  <2>1. \A i, j \in DOMAIN waiting' : i < j => waiting'[i] < waiting'[j]
    <3>1. Len(waiting) \in Nat /\ DOMAIN waiting = 1 .. Len(waiting)
      BY <1>9
    <3>2. DOMAIN waiting' = 1 .. Len(waiting) + 1 /\ waiting'[Len(waiting) + 1] = r
      BY <1>1, <1>9
    <3>3. \A i \in DOMAIN waiting : waiting'[i] = waiting[i]
      BY <1>1, <1>9
    <3>4. \A i \in DOMAIN waiting : waiting[i] < r
      <4>1. \A i \in DOMAIN waiting : waiting[i] \in ToSet(waiting)
        BY <1>9 DEF ToSet
      <4>2. ToSet(waiting) \subseteq 1 .. (r - 1)
        BY <1>1, <1>10 DEF Separate
      <4>3. QED
        BY <1>2, <4>1, <4>2
    <3>5. \A i, j \in DOMAIN waiting : i < j => waiting[i] < waiting[j]
      BY DEF IInv, WaitingInOrder
    <3> SUFFICES ASSUME NEW i \in DOMAIN waiting', NEW j \in DOMAIN waiting', i < j
                 PROVE  waiting'[i] < waiting'[j]
      OBVIOUS
    <3>6. i \in DOMAIN waiting /\ (j \in DOMAIN waiting \/ j = Len(waiting) + 1)
      BY <3>1, <3>2
    <3>7. QED
      BY <3>2, <3>3, <3>4, <3>5, <3>6
  <2>2. \A q \in Arrived' : rid'[q] = -1 <=> q \in ToSet(waiting')
    BY <1>1, <1>3, <1>6, <1>12 DEF IInv, WaitingInOrder
  <2>3. QED
    BY <2>1, <2>2 DEF WaitingInOrder
<1>17. StartsInOrder'
  <2>1. \A o, q \in Arrived : o < q /\ rid[q] # -1 => rid[o] # -1
    BY DEF IInv, StartsInOrder
  <2>2. \A q \in Arrived : q < r /\ q \in Nat
    BY <1>1, <1>2
  <2>3. \A o, q \in Arrived' : o < q /\ rid'[q] # -1 => rid'[o] # -1
    BY <1>1, <1>2, <1>3, <1>6, <2>1, <2>2
  <2>4. QED
    BY <2>3 DEF StartsInOrder
<1>18. RunningDecodes'
  BY <1>1 DEF IInv, RunningDecodes
<1>19. IdsExact'
  BY <1>1, <1>8 DEF IInv, IdsExact
<1>20. QED
  BY <1>13, <1>14, <1>15, <1>16, <1>17, <1>18, <1>19 DEF IInv

-----------------------------------------------------------------------------
(* Complete: the tokens of an iteration, and what finishes with them.      *)
Ran == ToSet(IterReqs)
Done == {r \in Ran : olen[r] + 1 = mlen[r]}

LEMMA Answers ==
  ASSUME IInv, Complete
  PROVE  /\ IterReqs \in Seq(Reqs) /\ IsInjective(IterReqs)
         /\ Ran \subseteq Holders /\ Done \subseteq Ran /\ Ran \cap ToSet(waiting) = {}
         /\ \A r \in Ran : olen[r] + 1 <= mlen[r]
         /\ \A r \in Reqs : olen'[r] = IF r \in Ran THEN olen[r] + 1 ELSE olen[r]
         /\ Arrived' = Arrived /\ Finished' = Finished \cup Done /\ Holders' = Holders \ Done
         /\ gpuq' \in Seq(Reqs) /\ ToSet(gpuq') = ToSet(gpuq) \ Done
         /\ IsInjective(gpuq) => IsInjective(gpuq')
         /\ cpuq' \in Seq(Reqs) /\ ToSet(cpuq') = ToSet(cpuq) \ Done
         /\ IsInjective(cpuq) => IsInjective(cpuq')
<1>1. /\ pc = "exec" /\ pc' = "sched"
      /\ olen' = [r \in Reqs |-> IF r \in Ran THEN olen[r] + 1 ELSE olen[r]]
      /\ gpuq' = Kept(gpuq, Reqs \ Done) /\ cpuq' = Kept(cpuq, Reqs \ Done)
      /\ waiting' = waiting /\ rid' = rid /\ plen' = plen /\ mlen' = mlen
  BY DEF Complete, Unfinished, Ran, Done
<1>2. QueueTypes /\ Reqs \subseteq Nat
  BY DEF IInv, Reqs
<1>3. waiting \in Seq(Reqs) /\ gpuq \in Seq(Reqs) /\ cpuq \in Seq(Reqs)
  BY <1>2 DEF QueueTypes
<1>4. Separate(waiting, gpuq, cpuq, Arrived \ Finished)
  BY <1>3, NothingLostIs DEF IInv
<1>5. /\ IterReqs \in Seq(Reqs) /\ IsInjective(IterReqs)
      /\ Ran \subseteq ToSet(gpuq) \cup ToSet(cpuq)
  BY <1>1 DEF Ran, IInv, RunningDecodes, Ready, Running, IterReqs
<1>6. /\ Ran \subseteq Arrived \ Finished /\ Ran \subseteq Reqs /\ Ran \cap ToSet(waiting) = {}
  BY <1>4, <1>5 DEF Separate, Arrived
<1>7. \A r \in Ran : rid[r] # -1
  BY <1>6 DEF IInv, WaitingInOrder
<1>8. Ran \subseteq Holders
  BY <1>6, <1>7 DEF Holders
<1>9. \A r \in Ran : olen[r] + 1 <= mlen[r]
  <2>1. \A r \in Ran : olen[r] <= mlen[r] /\ olen[r] \in Nat /\ mlen[r] \in Nat
    <3>1. Outputs \cup {0} \subseteq Nat
      BY EngineAssumption
    <3>2. \A r \in Reqs : mlen[r] \in Nat
      BY <1>2, <3>1 DEF QueueTypes
    <3>3. \A r \in Reqs : olen[r] <= mlen[r] /\ olen[r] \in Nat
      BY <1>2 DEF QueueTypes
    <3>4. QED
      BY <1>6, <3>2, <3>3
  <2>2. \A r \in Ran : olen[r] # mlen[r]
    BY <1>6 DEF Finished
  <2>3. QED
    BY <2>1, <2>2
<1>10. \A r \in Reqs : olen'[r] = IF r \in Ran THEN olen[r] + 1 ELSE olen[r]
  BY <1>1
<1>11. Done \subseteq Ran
  BY DEF Done
<1>12. Arrived' = Arrived
  BY <1>1 DEF Arrived
<1>13. Finished' = Finished \cup Done
  <2>1. Finished' = {r \in Arrived : olen'[r] = mlen[r]}
    BY <1>1, <1>12 DEF Finished
  <2>2. Arrived \subseteq Reqs
    BY DEF Arrived
  <2>3. \A r \in Arrived : olen'[r] = mlen[r] <=> r \in Finished \/ r \in Done
    <3> SUFFICES ASSUME NEW r \in Arrived
                 PROVE  olen'[r] = mlen[r] <=> r \in Finished \/ r \in Done
      OBVIOUS
    <3>1. CASE r \in Ran
      BY <1>6, <1>10, <2>2, <3>1 DEF Done, Finished
    <3>2. CASE r \notin Ran
      BY <1>10, <2>2, <3>2 DEF Done, Finished
    <3>3. QED
      BY <3>1, <3>2
  <2>4. Finished \subseteq Arrived /\ Done \subseteq Arrived
    BY <1>6, <1>11 DEF Finished
  <2>5. QED
    BY <2>1, <2>3, <2>4
<1>14. Holders' = Holders \ Done
  BY <1>1, <1>13 DEF Holders
<1>15. /\ gpuq' \in Seq(Reqs) /\ ToSet(gpuq') = ToSet(gpuq) \ Done
       /\ IsInjective(gpuq) => IsInjective(gpuq')
  <2>1. /\ gpuq' \in Seq(Reqs) /\ ToSet(gpuq') = ToSet(gpuq) \cap (Reqs \ Done)
        /\ IsInjective(gpuq) => IsInjective(gpuq')
    BY <1>1, <1>3, KeptMembers
  <2>2. ToSet(gpuq) \subseteq Reqs
    BY <1>3, Members
  <2>3. QED
    BY <2>1, <2>2
<1>16. /\ cpuq' \in Seq(Reqs) /\ ToSet(cpuq') = ToSet(cpuq) \ Done
       /\ IsInjective(cpuq) => IsInjective(cpuq')
  <2>1. /\ cpuq' \in Seq(Reqs) /\ ToSet(cpuq') = ToSet(cpuq) \cap (Reqs \ Done)
        /\ IsInjective(cpuq) => IsInjective(cpuq')
    BY <1>1, <1>3, KeptMembers
  <2>2. ToSet(cpuq) \subseteq Reqs
    BY <1>3, Members
  <2>3. QED
    BY <2>1, <2>2
<1>17. QED
  BY <1>5, <1>6, <1>8, <1>9, <1>10, <1>11, <1>12, <1>13, <1>14, <1>15, <1>16

LEMMA Completes ==
  ASSUME IInv, Complete, numGpuBlocks' = numGpuBlocks
  PROVE  IInv'
<1> DEFINE K == Kept(IterReqs, Done)
<1>1. /\ pc = "exec" /\ pc' = "sched"
      /\ olen' = [r \in Reqs |-> IF r \in Ran THEN olen[r] + 1 ELSE olen[r]]
      /\ avail' = avail \o Rows(K, rid)
      /\ waiting' = waiting /\ rid' = rid /\ plen' = plen /\ mlen' = mlen
  BY DEF Complete, FreedIds, Ran, Done
<1>2. QueueTypes
  BY DEF IInv
<1>3. waiting \in Seq(Reqs) /\ gpuq \in Seq(Reqs) /\ cpuq \in Seq(Reqs)
  BY <1>2 DEF QueueTypes
<1>4. Separate(waiting, gpuq, cpuq, Arrived \ Finished)
  BY <1>3, NothingLostIs DEF IInv
<1>5. IterReqs \in Seq(Reqs) /\ IsInjective(IterReqs)
  BY Answers
<1>6. Ran \subseteq Holders /\ Done \subseteq Ran /\ Ran \cap ToSet(waiting) = {}
  BY Answers
<1>7. Holders \subseteq Reqs /\ \A r \in Holders : rid[r] \in Ids
  BY <1>2 DEF QueueTypes, Holders
<1>8. \A r \in Ran : olen[r] + 1 <= mlen[r]
  BY Answers
<1>9. \A r \in Reqs : olen'[r] = IF r \in Ran THEN olen[r] + 1 ELSE olen[r]
  BY <1>1
<1>10. Arrived' = Arrived /\ Finished' = Finished \cup Done /\ Holders' = Holders \ Done
  BY Answers
<1>11. /\ gpuq' \in Seq(Reqs) /\ ToSet(gpuq') = ToSet(gpuq) \ Done
       /\ IsInjective(gpuq) => IsInjective(gpuq')
  BY Answers
<1>12. /\ cpuq' \in Seq(Reqs) /\ ToSet(cpuq') = ToSet(cpuq) \ Done
       /\ IsInjective(cpuq) => IsInjective(cpuq')
  BY Answers
<1>13. K \in Seq(Reqs) /\ ToSet(K) = Done /\ IsInjective(K)
  <2>1. /\ K \in Seq(Reqs) /\ ToSet(K) = Ran \cap Done
        /\ IsInjective(IterReqs) => IsInjective(K)
    BY <1>5, KeptMembers DEF Ran
  <2>2. QED
    BY <1>5, <1>6, <2>1
<1> HIDE DEF K
<1>14. \A r \in Done : rid[r] \in Ids
  BY <1>6, <1>7
<1>15. IdsExact
  BY DEF IInv
<1>16. /\ Rows(K, rid) \in Seq(Ids) /\ IsInjective(Rows(K, rid))
       /\ ToSet(Rows(K, rid)) = {rid[r] : r \in Done}
  <2>1. \A r \in Done : rid[r] \in Ids
    BY <1>2, <1>6, <1>7 DEF QueueTypes
  <2>2. \A r, p \in Done : rid[r] = rid[p] => r = p
    BY <1>6, <1>15 DEF IdsExact
  <2>3. \A r \in ToSet(K) : rid[r] \in Ids
    BY <1>13, <2>1
  <2>4. /\ Rows(K, rid) \in Seq(Ids)
        /\ ToSet(Rows(K, rid)) = {rid[r] : r \in ToSet(K)}
        /\ IsInjective(K) /\ (\A r, p \in ToSet(K) : rid[r] = rid[p] => r = p)
             => IsInjective(Rows(K, rid))
    BY ONLY <1>13, <2>3, RowsMembers
  <2>5. QED
    BY <1>13, <2>2, <2>4
<1>17. /\ avail' \in Seq(Ids) /\ ToSet(avail') = ToSet(avail) \cup {rid[r] : r \in Done}
       /\ IsInjective(avail')
  <2>1. avail \in Seq(Ids) /\ IsInjective(avail)
    BY <1>2, <1>15 DEF QueueTypes, IdsExact
  <2>2. ToSet(avail) \cap {rid[r] : r \in Done} = {}
    BY <1>6, <1>15 DEF IdsExact
  <2>3. PICK f : f = Rows(K, rid)
    OBVIOUS
  <2>4. /\ f \in Seq(Ids) /\ IsInjective(f) /\ ToSet(f) = {rid[r] : r \in Done}
    BY <1>16, <2>3
  <2>5. ToSet(avail) \cap ToSet(f) = {}
    BY <2>2, <2>4
  <2>6. /\ avail \o f \in Seq(Ids) /\ ToSet(avail \o f) = ToSet(avail) \cup ToSet(f)
        /\ IsInjective(avail \o f)
    BY <2>1, <2>4, <2>5, ConcatMembers
  <2>7. QED
    BY <1>1, <2>3, <2>4, <2>6
<1>18. QueueTypes'
  <2>1. olen' \in [Reqs -> Nat]
    BY <1>1, <1>2 DEF QueueTypes
  <2>2. \A r \in Reqs : olen'[r] <= mlen'[r]
    BY <1>1, <1>2, <1>8, <1>9 DEF QueueTypes
  <2>3. QED
    BY <1>1, <1>2, <1>3, <1>11, <1>12, <1>17, <2>1, <2>2 DEF QueueTypes
<1>19. NoRequestLost'
  <2>1. (Arrived \ Finished)' = (Arrived \ Finished) \ Done
    BY <1>10
  <2>2. ToSet(waiting) \cap Done = {}
    BY <1>6
  <2>3. Separate(waiting', gpuq', cpuq', (Arrived \ Finished)')
    BY <1>1, <1>4, <1>11, <1>12, <2>1, <2>2 DEF Separate
  <2>4. QED
    BY <1>1, <1>3, <1>11, <1>12, <2>3, NothingLostNext
<1>20. ArrivedInOrder' /\ StartsInOrder' /\ WaitingInOrder'
  BY <1>1, <1>10 DEF IInv, ArrivedInOrder, StartsInOrder, WaitingInOrder
<1>21. RunningDecodes'
  BY <1>1 DEF RunningDecodes
<1>22. IdsExact'
  <2>1. \A r, q \in Holders' : rid'[r] = rid'[q] => r = q
    BY <1>1, <1>10, <1>15 DEF IdsExact
  <2>2. ToSet(avail') = Ids \ {rid'[r] : r \in Holders'}
    <3>1. ToSet(avail) = Ids \ {rid[r] : r \in Holders}
      BY <1>15 DEF IdsExact
    <3>2. {rid[r] : r \in Done} \cap {rid[r] : r \in Holders \ Done} = {}
      BY <1>6, <1>15 DEF IdsExact
    <3>3. {rid[r] : r \in Holders} = {rid[r] : r \in Done} \cup {rid[r] : r \in Holders \ Done}
      BY <1>6
    <3>4. {rid[r] : r \in Done} \subseteq Ids
      BY <1>2, <1>6, <1>7 DEF QueueTypes
    <3>5. {rid'[r] : r \in Holders'} = {rid[r] : r \in Holders \ Done}
      BY <1>1, <1>10
    <3>6. PICK D, E : D = {rid[r] : r \in Done} /\ E = {rid[r] : r \in Holders \ Done}
      OBVIOUS
    <3>7. ToSet(avail') = (Ids \ (D \cup E)) \cup D
      BY <1>17, <3>1, <3>3, <3>6
    <3>8. D \cap E = {} /\ D \subseteq Ids
      BY <3>2, <3>4, <3>6
    <3>9. QED
      BY <3>5, <3>6, <3>7, <3>8
  <2>3. QED
    BY <1>17, <2>1, <2>2 DEF IdsExact
<1>23. QED
  BY <1>15, <1>18, <1>19, <1>20, <1>21, <1>22 DEF IInv

-----------------------------------------------------------------------------
(* Schedule: the first n of waiting start with the first n ids.            *)
LEMMA GivenIdsGive ==
  ASSUME waiting \in Seq(Reqs), IsInjective(waiting), avail \in Seq(Ids),
         rid \in [Reqs -> Ids \cup {-1}], NEW n \in 0 .. Len(waiting), n <= Len(avail)
  PROVE  LET F == ToSet(First(waiting, n))
         IN /\ F = {waiting[i] : i \in 1 .. n} /\ F \subseteq Reqs
            /\ GivenIds(n) \in [Reqs -> Ids \cup {-1}]
            /\ \A i \in 1 .. n : GivenIds(n)[waiting[i]] = avail[i]
            /\ \A r \in Reqs \ F : GivenIds(n)[r] = rid[r]
<1> DEFINE F == ToSet(First(waiting, n))
<1>1. PICK f : f = SubSeq(waiting, 1, n)
  OBVIOUS
<1>2. f \in Seq(Reqs) /\ Len(f) = n /\ \A i \in 1 .. n : f[i] = waiting[i]
  <2>1. /\ SubSeq(waiting, 1, n) \in Seq(Reqs) /\ Len(SubSeq(waiting, 1, n)) = n
        /\ \A i \in 1 .. n : SubSeq(waiting, 1, n)[i] = waiting[i]
    BY CutMembers
  <2>2. QED
    BY <1>1, <2>1
<1>3. F = {waiting[i] : i \in 1 .. n} /\ F \subseteq Reqs
  <2>1. F = ToSet(f)
    BY <1>1 DEF First
  <2>2. DOMAIN f = 1 .. n /\ ToSet(f) \subseteq Reqs
    BY <1>2, Members
  <2>3. ToSet(f) = {f[i] : i \in 1 .. n}
    BY <2>2 DEF ToSet
  <2>4. {f[i] : i \in 1 .. n} = {waiting[i] : i \in 1 .. n}
    BY <1>2
  <2> HIDE DEF F
  <2>5. QED
    BY ONLY <2>1, <2>2, <2>3, <2>4
<1>4. \A i \in 1 .. n : i \in DOMAIN waiting /\ waiting[i] \in Reqs /\ avail[i] \in Ids
  OBVIOUS
<1>5. \A i, j \in 1 .. n : waiting[i] = waiting[j] => i = j
  BY <1>4 DEF IsInjective
<1>6. \A i \in 1 .. n : GivenIds(n)[waiting[i]] = avail[i]
  <2> SUFFICES ASSUME NEW i \in 1 .. n PROVE GivenIds(n)[waiting[i]] = avail[i]
    OBVIOUS
  <2>1. (CHOOSE j \in 1 .. n : waiting[j] = waiting[i]) = i
    BY <1>5
  <2>2. QED
    BY <1>4, <2>1 DEF GivenIds
<1>7. \A r \in Reqs \ F : GivenIds(n)[r] = rid[r]
  BY <1>3 DEF GivenIds
<1>8. GivenIds(n) \in [Reqs -> Ids \cup {-1}]
  <2>1. \A r \in Reqs : GivenIds(n)[r] \in Ids \cup {-1}
    <3> SUFFICES ASSUME NEW r \in Reqs PROVE GivenIds(n)[r] \in Ids \cup {-1}
      OBVIOUS
    <3>1. CASE r \in F
      BY <1>3, <1>4, <1>6, <3>1
    <3>2. CASE r \notin F
      BY <1>7, <3>2
    <3>3. QED
      BY <3>1, <3>2
  <2>2. GivenIds(n) = [r \in Reqs |-> GivenIds(n)[r]]
    BY DEF GivenIds
  <2>3. QED
    BY <2>1, <2>2
<1>9. QED
  BY <1>3, <1>6, <1>7, <1>8

LEMMA SnapshotOrderly == ASSUME QueueTypes, NoRequestLost PROVE Orderly(Reqs, Snapshot)
<1>1. waiting \in Seq(Reqs) /\ gpuq \in Seq(Reqs) /\ cpuq \in Seq(Reqs)
  BY DEF QueueTypes
<1>2. Separate(waiting, gpuq, cpuq, Arrived \ Finished)
  BY <1>1, NothingLostIs
<1>3. Snapshot.waiting = waiting /\ Snapshot.gpuq = gpuq /\ Snapshot.cpuq = cpuq
  BY DEF Snapshot
<1>4. QED
  BY <1>1, <1>2, <1>3 DEF Separate, Orderly

(* prepare refuses an empty list of batches.                               *)
LEMMA BatchesGiven == ASSUME NEW res, NEW id, PrepareAsserts(res, id) PROVE res.batches # << >>
<1>1. Len(RowBatches(res.batches, id)) \in {1, 2}
  BY DEF PrepareAsserts, BM!PrepareAsserts
<1>2. ASSUME res.batches = << >> PROVE FALSE
  <2>1. DOMAIN res.batches = {}
    BY <1>2
  <2>2. RowBatches(res.batches, id) = << >>
    BY <2>1 DEF RowBatches
  <2>3. Len(RowBatches(res.batches, id)) = 0
    BY <2>2
  <2>4. QED
    BY <1>1, <2>3
<1>3. QED
  BY <1>2

(* A queue of different elements, cut in two.                              *)
LEMMA CutQueue ==
  ASSUME NEW A, NEW q \in Seq(A), IsInjective(q), NEW n \in 0 .. Len(q),
         NEW f, NEW g, f = First(q, n), g = After(q, n)
  PROVE  /\ f \in Seq(A) /\ Len(f) = n /\ \A i \in 1 .. n : f[i] = q[i]
         /\ g \in Seq(A) /\ Len(g) = Len(q) - n /\ \A i \in 1 .. Len(q) - n : g[i] = q[n + i]
         /\ ToSet(q) = ToSet(f) \cup ToSet(g) /\ ToSet(f) \cap ToSet(g) = {}
         /\ IsInjective(f) /\ IsInjective(g)
<1>1. f = SubSeq(q, 1, n) /\ g = SubSeq(q, n + 1, Len(q))
  BY DEF First, After
<1>2. /\ SubSeq(q, 1, n) \in Seq(A) /\ Len(SubSeq(q, 1, n)) = n
      /\ \A i \in 1 .. n : SubSeq(q, 1, n)[i] = q[i]
  BY CutMembers
<1>3. /\ SubSeq(q, n + 1, Len(q)) \in Seq(A) /\ Len(SubSeq(q, n + 1, Len(q))) = Len(q) - n
      /\ \A i \in 1 .. Len(q) - n : SubSeq(q, n + 1, Len(q))[i] = q[n + i]
  BY CutMembers
<1>4. ToSet(q) = ToSet(SubSeq(q, 1, n)) \cup ToSet(SubSeq(q, n + 1, Len(q)))
  BY CutMembers
<1>5. /\ IsInjective(SubSeq(q, 1, n)) /\ IsInjective(SubSeq(q, n + 1, Len(q)))
      /\ ToSet(SubSeq(q, 1, n)) \cap ToSet(SubSeq(q, n + 1, Len(q))) = {}
  BY CutMembers
<1>6. QED
  BY <1>1, <1>2, <1>3, <1>4, <1>5

(* What a successful get_next_batch and prepare do to the queues.          *)
LEMMA Scheduled ==
  ASSUME IInv, NEW mode, Schedule(mode)
  PROVE  \E n \in 0 .. Len(waiting) :
           /\ n <= Len(avail) /\ waiting' = After(waiting, n)
           /\ avail' = After(avail, n) /\ rid' = GivenIds(n)
           /\ gpuq' \in Seq(Reqs) /\ IsInjective(gpuq')
           /\ cpuq' \in Seq(Reqs) /\ IsInjective(cpuq')
           /\ ToSet(gpuq') \cap ToSet(cpuq') = {}
           /\ ToSet(gpuq') \cup ToSet(cpuq') =
                ToSet(First(waiting, n)) \cup ToSet(gpuq) \cup ToSet(cpuq)
           /\ Ready(Reqs, iter'.batches, {}, ToSet(gpuq') \cup ToSet(cpuq'))
           /\ pc' = "exec" /\ plen' = plen /\ olen' = olen /\ mlen' = mlen
<1>1. PICK res \in NextBatches(mode) :
        /\ Succeeds(res)
        /\ waiting' = After(waiting, NumPrefs(res.batches))
        /\ avail' = After(avail, NumPrefs(res.batches))
        /\ rid' = GivenIds(NumPrefs(res.batches))
        /\ gpuq' = res.gpuq /\ cpuq' = res.cpuq
        /\ iter' = [batches |-> res.batches, swapOut |-> res.swapOut, swapIn |-> res.swapIn]
        /\ pc' = "exec"
  BY DEF Schedule
<1>2. plen' = plen /\ olen' = olen /\ mlen' = mlen
  BY DEF Schedule
<1>3. res \in NextBatchNew(Snapshot) \cup NextBatchOld(Snapshot)
  BY DEF NextBatches
<1>4. numGpuBlocks \in Nat /\ QueueTypes /\ NoRequestLost
  BY DEF IInv, QueueTypes
<1>5. Promised(Reqs, Snapshot, res)
  <2>1. Orderly(Reqs, Snapshot)
    BY <1>4, SnapshotOrderly
  <2>2. QED
    BY <1>3, <1>4, <2>1, SchedulerPromise
<1>6. res.ok /\ res.batches # << >>
  BY <1>1, BatchesGiven DEF Succeeds
<1> DEFINE n == NumPrefs(res.batches)
<1>7. /\ Snapshot.waiting = waiting /\ Snapshot.gpuq = gpuq /\ Snapshot.cpuq = cpuq
      /\ Snapshot.avail = avail
  BY DEF Snapshot
<1>8. /\ n \in 0 .. Len(waiting) /\ (n = 0 \/ n <= Len(avail))
      /\ res.gpuq \in Seq(Reqs) /\ IsInjective(res.gpuq)
      /\ res.cpuq \in Seq(Reqs) /\ IsInjective(res.cpuq)
      /\ ToSet(res.gpuq) \cap ToSet(res.cpuq) = {}
      /\ ToSet(res.gpuq) \cup ToSet(res.cpuq) =
           ToSet(First(waiting, n)) \cup ToSet(gpuq) \cup ToSet(cpuq)
      /\ Ready(Reqs, res.batches, ToSet(First(waiting, n)) \cup ToSet(res.gpuq),
               ToSet(res.gpuq) \cup ToSet(res.cpuq))
  BY <1>5, <1>6, <1>7 DEF Promised
<1>9. n <= Len(avail)
  <2>1. Len(avail) \in Nat
    BY <1>4 DEF QueueTypes
  <2>2. QED
    BY <1>8, <2>1
<1>10. Ready(Reqs, iter'.batches, {}, ToSet(gpuq') \cup ToSet(cpuq'))
  BY <1>1, <1>8 DEF Ready
<1>11. QED
  <2> HIDE DEF n
  <2>1. waiting' = After(waiting, n) /\ avail' = After(avail, n) /\ rid' = GivenIds(n)
    BY <1>1 DEF n
  <2>2. QED
    BY <1>1, <1>2, <1>8, <1>9, <1>10, <2>1

LEMMA Schedules ==
  ASSUME IInv, NEW mode, Schedule(mode), numGpuBlocks' = numGpuBlocks
  PROVE  IInv'
<1>1. PICK n \in 0 .. Len(waiting) :
           /\ n <= Len(avail) /\ waiting' = After(waiting, n)
           /\ avail' = After(avail, n) /\ rid' = GivenIds(n)
           /\ gpuq' \in Seq(Reqs) /\ IsInjective(gpuq')
           /\ cpuq' \in Seq(Reqs) /\ IsInjective(cpuq')
           /\ ToSet(gpuq') \cap ToSet(cpuq') = {}
           /\ ToSet(gpuq') \cup ToSet(cpuq') =
                ToSet(First(waiting, n)) \cup ToSet(gpuq) \cup ToSet(cpuq)
           /\ Ready(Reqs, iter'.batches, {}, ToSet(gpuq') \cup ToSet(cpuq'))
           /\ pc' = "exec" /\ plen' = plen /\ olen' = olen /\ mlen' = mlen
  BY Scheduled
<1>2. QueueTypes /\ Reqs \subseteq Nat /\ IdsExact
  BY DEF IInv, Reqs
<1>3. /\ waiting \in Seq(Reqs) /\ gpuq \in Seq(Reqs) /\ cpuq \in Seq(Reqs)
      /\ avail \in Seq(Ids) /\ rid \in [Reqs -> Ids \cup {-1}]
  BY <1>2 DEF QueueTypes
<1>4. Separate(waiting, gpuq, cpuq, Arrived \ Finished)
  BY <1>3, NothingLostIs DEF IInv
<1>5. IsInjective(waiting)
  BY <1>4 DEF Separate
<1> DEFINE F == ToSet(First(waiting, n))
           W == ToSet(After(waiting, n))
           X == {avail[i] : i \in 1 .. n}
<1>6. /\ F = {waiting[i] : i \in 1 .. n} /\ F \subseteq Reqs
      /\ rid' \in [Reqs -> Ids \cup {-1}]
      /\ \A i \in 1 .. n : rid'[waiting[i]] = avail[i]
      /\ \A r \in Reqs \ F : rid'[r] = rid[r]
  BY <1>1, <1>3, <1>5, GivenIdsGive
<1>7. /\ After(waiting, n) \in Seq(Reqs) /\ Len(After(waiting, n)) = Len(waiting) - n
      /\ \A i \in 1 .. Len(waiting) - n : After(waiting, n)[i] = waiting[n + i]
      /\ ToSet(waiting) = F \cup W /\ F \cap W = {} /\ IsInjective(After(waiting, n))
  <2>1. PICK f, g : f = First(waiting, n) /\ g = After(waiting, n)
    OBVIOUS
  <2>2. waiting \in Seq(Reqs) /\ n \in 0 .. Len(waiting)
    BY <1>3
  <2>3. /\ g \in Seq(Reqs) /\ Len(g) = Len(waiting) - n
        /\ \A i \in 1 .. Len(waiting) - n : g[i] = waiting[n + i]
        /\ ToSet(waiting) = ToSet(f) \cup ToSet(g) /\ ToSet(f) \cap ToSet(g) = {}
        /\ IsInjective(g)
    <3>1. g \in Seq(Reqs) /\ Len(g) = Len(waiting) - n
      BY ONLY <1>5, <2>1, <2>2, CutQueue
    <3>2. \A i \in 1 .. Len(waiting) - n : g[i] = waiting[n + i]
      <4>1. g = SubSeq(waiting, n + 1, Len(waiting))
        BY <2>1 DEF After
      <4>2. \A i \in 1 .. Len(waiting) - n :
              SubSeq(waiting, n + 1, Len(waiting))[i] = waiting[n + i]
        BY ONLY <2>2, CutMembers
      <4>3. QED
        BY <4>1, <4>2
    <3>3. ToSet(waiting) = ToSet(f) \cup ToSet(g) /\ ToSet(f) \cap ToSet(g) = {}
      BY ONLY <1>5, <2>1, <2>2, CutQueue
    <3>4. IsInjective(g)
      BY ONLY <1>5, <2>1, <2>2, CutQueue
    <3>5. QED
      BY <3>1, <3>2, <3>3, <3>4
  <2>4. QED
    BY <2>1, <2>3
<1>8. /\ After(avail, n) \in Seq(Ids) /\ IsInjective(After(avail, n))
      /\ ToSet(avail) = X \cup ToSet(After(avail, n)) /\ X \cap ToSet(After(avail, n)) = {}
      /\ X \subseteq Ids /\ \A i \in 1 .. n : avail[i] \in Ids
      /\ \A i, j \in 1 .. n : avail[i] = avail[j] => i = j
  <2>1. IsInjective(avail) /\ n \in 0 .. Len(avail)
    BY <1>1, <1>2, <1>3 DEF IdsExact
  <2>2. PICK f, g : f = First(avail, n) /\ g = After(avail, n)
    OBVIOUS
  <2>3. /\ f \in Seq(Ids) /\ Len(f) = n /\ g \in Seq(Ids) /\ \A i \in 1 .. n : f[i] = avail[i]
        /\ ToSet(avail) = ToSet(f) \cup ToSet(g)
        /\ IsInjective(f) /\ IsInjective(g) /\ ToSet(f) \cap ToSet(g) = {}
    <3>1. avail \in Seq(Ids)
      BY <1>3
    <3>2. QED
      BY ONLY <2>1, <2>2, <3>1, CutQueue
  <2>4. DOMAIN f = 1 .. n /\ ToSet(f) \subseteq Ids
    BY <2>3, Members
  <2>5. ToSet(f) = X
    BY <2>3, <2>4 DEF ToSet
  <2>6. \A i \in 1 .. n : avail[i] \in Ids
    BY <2>4, <2>5
  <2>7. \A i, j \in 1 .. n : avail[i] = avail[j] => i = j
    BY <2>3, <2>4 DEF IsInjective
  <2>8. After(avail, n) = g
    BY <2>2
  <2>9. QED
    BY <2>3, <2>4, <2>5, <2>6, <2>7, <2>8
<1>9. ToSet(waiting') = W /\ ToSet(avail') = ToSet(After(avail, n))
  BY <1>1
<1>10. F \subseteq ToSet(waiting) /\ ToSet(waiting) = F \cup W /\ F \cap W = {}
  BY <1>7
<1> HIDE DEF F, W, X
<1>11. Arrived' = Arrived /\ Finished' = Finished
  BY <1>1 DEF Arrived, Finished
<1>12. F \subseteq Arrived \ Finished /\ Arrived \subseteq Reqs
  BY <1>4, <1>10 DEF Separate, Arrived
<1>13. \A r \in F : rid[r] = -1 /\ rid'[r] \in X
  <2>1. \A r \in F : rid[r] = -1
    BY <1>10, <1>12 DEF IInv, WaitingInOrder
  <2>2. \A r \in F : rid'[r] \in X
    BY <1>6 DEF X
  <2>3. QED
    BY <2>1, <2>2
<1>14. -1 \notin Ids
  BY EngineAssumption DEF Ids
<1>15. Holders' = Holders \cup F /\ Holders \cap F = {} /\ Holders \subseteq Reqs
  <2>1. \A r \in F : rid'[r] # -1
    BY <1>8, <1>13, <1>14
  <2>2. Holders' = {r \in Reqs : rid'[r] # -1} \ Finished
    BY <1>11 DEF Holders
  <2>3. Holders \cap F = {}
    BY <1>13 DEF Holders
  <2>4. \A r \in Reqs \ F : rid'[r] # -1 <=> rid[r] # -1
    BY <1>6
  <2>5. \A r \in Reqs : r \in Holders' <=> r \in Holders \/ r \in F
    BY <1>12, <2>1, <2>2, <2>4 DEF Holders
  <2>6. Holders' \subseteq Reqs /\ Holders \subseteq Reqs
    BY <2>2 DEF Holders
  <2>7. QED
    BY <1>6, <2>3, <2>5, <2>6
<1>16. QueueTypes'
  BY <1>1, <1>2, <1>6, <1>7, <1>8 DEF QueueTypes
<1>17. NoRequestLost'
  <2>1. Separate(waiting', gpuq', cpuq', (Arrived \ Finished)')
    <3>1. ToSet(gpuq') \cup ToSet(cpuq') = F \cup ToSet(gpuq) \cup ToSet(cpuq)
      BY <1>1 DEF F
    <3>2. IsInjective(waiting')
      BY <1>1, <1>7
    <3>3. W \cap (ToSet(gpuq') \cup ToSet(cpuq')) = {}
      BY <1>4, <1>10, <3>1 DEF Separate
    <3>4. W \cup ToSet(gpuq') \cup ToSet(cpuq') = Arrived \ Finished
      BY <1>4, <1>10, <3>1 DEF Separate
    <3>5. QED
      BY <1>1, <1>9, <1>11, <3>2, <3>3, <3>4 DEF Separate
  <2>2. QED
    BY <1>1, <1>7, <2>1, NothingLostNext
<1>18. ArrivedInOrder'
  <2>1. \A r \in Reqs \ Arrived : rid'[r] = rid[r]
    BY <1>6, <1>12
  <2>2. QED
    BY <1>1, <1>11, <2>1 DEF IInv, ArrivedInOrder
<1>19. \A i, j \in DOMAIN waiting : i < j => waiting[i] < waiting[j]
  BY DEF IInv, WaitingInOrder
<1>20. DOMAIN waiting = 1 .. Len(waiting) /\ Len(waiting) \in Nat
  BY <1>3
<1>21. WaitingInOrder'
  <2>1. \A i, j \in DOMAIN waiting' : i < j => waiting'[i] < waiting'[j]
    <3>1. DOMAIN waiting' = 1 .. Len(waiting) - n
      BY <1>1, <1>7
    <3>2. \A i \in 1 .. Len(waiting) - n : waiting'[i] = waiting[n + i] /\ n + i \in DOMAIN waiting
      BY <1>1, <1>7, <1>20
    <3>3. \A i, j \in 1 .. Len(waiting) - n : i < j => n + i < n + j
      BY <1>20
    <3>4. QED
      BY <1>19, <3>1, <3>2, <3>3
  <2>2. \A r \in Arrived : rid'[r] = -1 <=> r \in W
    <3>1. \A r \in Arrived : rid[r] = -1 <=> r \in ToSet(waiting)
      BY DEF IInv, WaitingInOrder
    <3>2. \A r \in F : rid'[r] # -1
      BY <1>8, <1>13, <1>14
    <3>3. QED
      BY <1>6, <1>10, <1>12, <3>1, <3>2
  <2>3. QED
    BY <1>9, <1>11, <2>1, <2>2 DEF WaitingInOrder
<1>22. StartsInOrder'
  <2> SUFFICES ASSUME NEW r \in Arrived, NEW q \in Arrived, r < q, rid'[q] # -1
               PROVE  rid'[r] # -1
    BY <1>11 DEF StartsInOrder
  <2>1. rid'[r] # -1 <=> r \in F \/ rid[r] # -1
    BY <1>6, <1>8, <1>12, <1>13, <1>14
  <2>2. CASE q \notin F
    <3>1. rid[q] # -1
      BY <1>6, <1>12, <2>2
    <3>2. rid[r] # -1
      BY <3>1 DEF IInv, StartsInOrder
    <3>3. QED
      BY <2>1, <3>2
  <2>3. CASE q \in F /\ rid[r] = -1
    <3>1. PICK j \in 1 .. n : q = waiting[j]
      BY <1>6, <2>3
    <3>2. r \in ToSet(waiting)
      BY <2>3 DEF IInv, WaitingInOrder
    <3>3. PICK i \in DOMAIN waiting : r = waiting[i]
      BY <1>3, <1>20, <3>2, Members
    <3>4. j \in DOMAIN waiting /\ i \in Nat /\ j \in Nat
      BY <1>20
    <3>5. i <= n
      <4>1. ASSUME j < i PROVE FALSE
        <5>1. waiting[j] < waiting[i]
          BY <1>19, <3>4, <4>1
        <5>2. r \in Nat /\ q \in Nat
          BY <1>2, <1>12
        <5>3. QED
          BY <3>1, <3>3, <5>1, <5>2
      <4>2. QED
        BY <3>4, <4>1
    <3>6. r \in F
      BY <1>6, <1>20, <3>3, <3>5
    <3>7. QED
      BY <2>1, <3>6
  <2>4. CASE rid[r] # -1
    BY <2>1, <2>4
  <2>5. QED
    BY <2>2, <2>3, <2>4
<1>23. RunningDecodes'
  BY <1>1 DEF RunningDecodes
<1>24. IdsExact'
  <2>1. /\ \A r, q \in Holders : rid[r] = rid[q] => r = q
        /\ ToSet(avail) = Ids \ {rid[r] : r \in Holders}
    BY <1>2 DEF IdsExact
  <2>2. \A r \in Holders : rid'[r] = rid[r] /\ rid[r] \notin X /\ rid[r] \in Ids
    <3>1. \A r \in Holders : rid'[r] = rid[r]
      BY <1>6, <1>15
    <3>2. \A r \in Holders : rid[r] \notin X
      BY <1>8, <2>1
    <3>3. \A r \in Holders : rid[r] \in Ids
      BY <1>3, <1>15 DEF Holders
    <3>4. QED
      BY <3>1, <3>2, <3>3
  <2>3. \A r, q \in F : rid'[r] = rid'[q] => r = q
    BY <1>6, <1>8
  <2>4. \A r, q \in Holders' : rid'[r] = rid'[q] => r = q
    BY <1>13, <1>15, <2>1, <2>2, <2>3
  <2>5. {rid'[r] : r \in F} = X
    BY <1>6 DEF X
  <2>6. {rid'[r] : r \in Holders'} = {rid[r] : r \in Holders} \cup X
    BY <1>15, <2>2, <2>5
  <2>7. ToSet(avail') = Ids \ ({rid[r] : r \in Holders} \cup X)
    BY <1>8, <1>9, <2>1
  <2>8. QED
    BY <1>1, <1>8, <2>4, <2>6, <2>7 DEF IdsExact
<1>25. QED
  BY <1>16, <1>17, <1>18, <1>21, <1>22, <1>23, <1>24 DEF IInv

-----------------------------------------------------------------------------
LEMMA Stepwise == ASSUME IInv, [Next]_vars PROVE IInv'
<1>1. CASE UNCHANGED vars
  <2>1. UNCHANGED <<queues, avail, rid, plen, olen, mlen, iter, numGpuBlocks>> /\ pc' = pc
    BY <1>1 DEF vars
  <2>2. QED
    BY <2>1, Resting
<1>2. CASE Next
  <2>1. numGpuBlocks' = numGpuBlocks
    BY <1>2 DEF Next
  <2>2. ASSUME NEW r \in Reqs, NEW p \in Prompts, NEW m \in Outputs, Arrive(r, p, m)
        PROVE  IInv'
    BY <2>1, <2>2, Arrives
  <2>3. ASSUME NEW mode, Schedule(mode) PROVE IInv'
    BY <2>1, <2>3, Schedules
  <2>4. ASSUME NEW mode, Sleep(mode) \/ Raise(mode) PROVE IInv'
    <3>1. /\ UNCHANGED <<queues, avail, rid, plen, olen, mlen, iter, numGpuBlocks>>
          /\ pc' \in {"sched", "sleep", "dead"}
      BY <2>1, <2>4 DEF Sleep, Raise
    <3>2. QED
      BY <3>1, Resting
  <2>5. CASE Wake
    <3>1. /\ UNCHANGED <<queues, avail, rid, plen, olen, mlen, iter, numGpuBlocks>>
          /\ pc' \in {"sched", "sleep", "dead"}
      BY <2>1, <2>5 DEF Wake
    <3>2. QED
      BY <3>1, Resting
  <2>6. CASE Complete
    BY <2>1, <2>6, Completes
  <2>7. QED
    BY <1>2, <2>2, <2>3, <2>4, <2>5, <2>6 DEF Next, Step
<1>3. QED
  BY <1>1, <1>2

(* The invariant the next theorems read off.                               *)
THEOREM EngineInvariant == Spec => []IInv
<1>1. Init => IInv
  BY Initially
<1>2. IInv /\ [Next]_vars => IInv'
  BY Stepwise
<1>3. QED
  BY <1>1, <1>2, PTL DEF Spec

(* NoRequestLost for any number of requests: pops, slices, filters and     *)
(* arrivals between them leave each unfinished request in one queue, once. *)
THEOREM NothingLost == Spec => []NoRequestLost
<1>1. IInv => NoRequestLost
  BY DEF IInv
<1>2. QED
  BY <1>1, EngineInvariant, PTL

(* IdsExact: an id given back on completion is free exactly until it is    *)
(* given again, so no two live requests share a row of the block tables.   *)
THEOREM IdsNeverShared == Spec => []IdsExact
<1>1. IInv => IdsExact
  BY DEF IInv
<1>2. QED
  BY <1>1, EngineInvariant, PTL

(* StartsInOrder: first come, first served, whichever prompts fit.         *)
THEOREM FirstComeFirstServed == Spec => []StartsInOrder
<1>1. IInv => StartsInOrder
  BY DEF IInv
<1>2. QED
  BY <1>1, EngineInvariant, PTL

-----------------------------------------------------------------------------
(* Part II.  The devices and the block manager.                            *)

(* The block manager as NeoEngine instantiates it, with its theorems.      *)
BMP == INSTANCE BlockManagerProofs WITH
         lens <- RowLens,
         running <- IF pc = "exec" THEN RowBatches(iter.batches, rid) ELSE << >>,
         pc <- IF pc \in {"sched", "sleep"} THEN "idle" ELSE pc

-----------------------------------------------------------------------------
(* The two instances define the same.                                      *)
LEMMA SameFree ==
  ASSUME NEW d, NEW S, NEW s
  PROVE  BM!Free(d, S, s) = BMP!Free(d, S, s)
BY DEF BM!Free, BMP!Free, BM!PidOf, BMP!PidOf, BM!HeldSlots, BMP!HeldSlots,
   BM!Cardinality, BMP!Cardinality

LEMMA SameAlloc ==
  ASSUME NEW d, NEW ids, NEW split, NEW target
  PROVE  BM!Alloc(d, ids, split, target) = BMP!Alloc(d, ids, split, target)
BY DEF BM!Alloc, BMP!Alloc, BM!AllocRaises, BMP!AllocRaises, BM!SlotsOf, BMP!SlotsOf,
       BM!NewSlots, BMP!NewSlots, BM!Before, BMP!Before, BM!NthFree, BMP!NthFree,
       BM!Assign, BMP!Assign, BM!NewRows, BMP!NewRows, BM!Elems, BMP!Elems,
       BM!Splits, BMP!Splits, BM!Cardinality, BMP!Cardinality

LEMMA SameSwap ==
  ASSUME NEW p, NEW ids, NEW split, NEW target
  PROVE  /\ BM!SwapOut(p, ids, split, target) = BMP!SwapOut(p, ids, split, target)
         /\ BM!SwapIn(p, ids, target) = BMP!SwapIn(p, ids, target)
<1>1. BM!Elems(ids) = BMP!Elems(ids)
  BY DEF BM!Elems, BMP!Elems
<1>2. QED
  BY <1>1, SameAlloc, SameFree DEF BM!SwapOut, BMP!SwapOut, BM!SwapIn, BMP!SwapIn

LEMMA SameTargets ==
  ASSUME NEW len
  PROVE  BM!Target(len) = BMP!Target(len) /\ BM!OmitLast(len) = BMP!OmitLast(len)
BY DEF BM!Target, BMP!Target, BM!OmitLast, BMP!OmitLast, BM!BlocksFor, BMP!BlocksFor

LEMMA SameSwaps ==
  ASSUME NEW p, NEW swapOut, NEW swapIn, NEW len
  PROVE  BM!Swap(p, swapOut, swapIn, len) = BMP!Swap(p, swapOut, swapIn, len)
<1>1. \A l : BM!Target(l) = BMP!Target(l) /\ BM!OmitLast(l) = BMP!OmitLast(l)
  BY SameTargets
<1>2. \A q, ids, s, t : /\ BM!SwapOut(q, ids, s, t) = BMP!SwapOut(q, ids, s, t)
                        /\ BM!SwapIn(q, ids, t) = BMP!SwapIn(q, ids, t)
  BY SameSwap
<1>3. QED
  BY <1>1, <1>2 DEF BM!Swap, BMP!Swap

LEMMA SameBatchSteps ==
  ASSUME NEW p, NEW b, NEW len
  PROVE  /\ BM!AllocForBatch(p, b, len) = BMP!AllocForBatch(p, b, len)
         /\ BM!SwapOutCprfs(p, b, len) = BMP!SwapOutCprfs(p, b, len)
<1>1. BM!Target(len) = BMP!Target(len)
  BY SameTargets
<1>2. BM!PrGds(b) = BMP!PrGds(b) /\ BM!ItmSplit = BMP!ItmSplit
  BY DEF BM!PrGds, BMP!PrGds, BM!ItmSplit, BMP!ItmSplit
<1>3. \A q, ids, s, t : BM!SwapOut(q, ids, s, t) = BMP!SwapOut(q, ids, s, t)
  BY SameSwap
<1>4. \A d, ids, s, t : BM!Alloc(d, ids, s, t) = BMP!Alloc(d, ids, s, t)
  BY SameAlloc
<1>5. BM!AllocForBatch(p, b, len) = BMP!AllocForBatch(p, b, len)
  BY <1>1, <1>2, <1>4 DEF BM!AllocForBatch, BMP!AllocForBatch
<1>6. QED
  BY <1>1, <1>2, <1>3, <1>5 DEF BM!SwapOutCprfs, BMP!SwapOutCprfs

LEMMA SameDevices ==
  ASSUME NEW p, NEW batches, NEW swapOut, NEW swapIn, NEW len
  PROVE  BM!PreparedDevices(p, batches, swapOut, swapIn, len) =
           BMP!PreparedDevices(p, batches, swapOut, swapIn, len)
<1>1. BM!Swap(p, swapOut, swapIn, len) = BMP!Swap(p, swapOut, swapIn, len)
  BY SameSwaps
<1>2. \A q, b : /\ BM!AllocForBatch(q, b, len) = BMP!AllocForBatch(q, b, len)
                /\ BM!SwapOutCprfs(q, b, len) = BMP!SwapOutCprfs(q, b, len)
  BY SameBatchSteps
<1>3. QED
  BY <1>1, <1>2 DEF BM!PreparedDevices, BMP!PreparedDevices

LEMMA SameSum == ASSUME NEW f PROVE BM!SumFunction(f) = BMP!SumFunction(f)
BY DEF BM!SumFunction, BMP!SumFunction, BM!SumFunctionOnSet, BMP!SumFunctionOnSet,
       BM!FoldFunctionOnSet, BMP!FoldFunctionOnSet, BM!MapThenFoldSet, BMP!MapThenFoldSet

LEMMA SameAsserts ==
  ASSUME NEW batches, NEW swapOut, NEW swapIn, NEW len
  PROVE  BM!PrepareAsserts(batches, swapOut, swapIn, len) <=>
           BMP!PrepareAsserts(batches, swapOut, swapIn, len)
<1>1. BM!BatchSize(batches) = BMP!BatchSize(batches)
  BY SameSum DEF BM!BatchSize, BMP!BatchSize, BM!AllReqs, BMP!AllReqs, BM!PrGds, BMP!PrGds
<1>2. BM!IterWidth(batches, len) = BMP!IterWidth(batches, len)
  BY SameSum DEF BM!IterWidth, BMP!IterWidth, BM!AllReqs, BMP!AllReqs, BM!PrGds, BMP!PrGds,
                 BM!Prefs, BMP!Prefs, BM!Elems, BMP!Elems
<1>3. \A b : BM!AllReqs(b) = BMP!AllReqs(b)
  BY DEF BM!AllReqs, BMP!AllReqs, BM!PrGds, BMP!PrGds
<1>4. QED
  BY <1>1, <1>2, <1>3 DEF BM!PrepareAsserts, BMP!PrepareAsserts

LEMMA SamePrepared ==
  ASSUME NEW c
  PROVE  /\ BM!LensWith(c) = BMP!LensWith(c)
         /\ BM!Prepared(c) = BMP!Prepared(c)
<1>1. BM!LensWith(c) = BMP!LensWith(c)
  BY DEF BM!LensWith, BMP!LensWith, BM!Prefilled, BMP!Prefilled, BM!Prefs, BMP!Prefs,
         BM!Elems, BMP!Elems
<1>2. QED
  BY <1>1, SameDevices DEF BM!Prepared, BMP!Prepared

LEMMA SameLegal == ASSUME NEW c PROVE BM!LegalCall(c) <=> BMP!LegalCall(c)
BY DEF BM!LegalCall, BMP!LegalCall, BM!OnGpu, BMP!OnGpu, BM!OnCpu, BMP!OnCpu,
       BM!Elems, BMP!Elems, BM!Distinct, BMP!Distinct, BM!BatchType, BMP!BatchType,
       BM!AllReqs, BMP!AllReqs, BM!PrGds, BMP!PrGds, BM!Prefs, BMP!Prefs,
       BM!Unused, BMP!Unused

LEMMA SamePrepare == ASSUME NEW c PROVE BM!Prepare(c) <=> BMP!Prepare(c)
<1>1. BM!PrepareSucceeds(c) <=> BMP!PrepareSucceeds(c)
  BY SamePrepared, SameAsserts DEF BM!PrepareSucceeds, BMP!PrepareSucceeds
<1>2. QED
  BY <1>1, SameLegal, SamePrepared DEF BM!Prepare, BMP!Prepare

LEMMA SameUpdate == ASSUME NEW done PROVE BM!UpdateAndFree(done) <=> BMP!UpdateAndFree(done)
<1>1. \A batches : BM!Reqs(batches) = BMP!Reqs(batches)
  BY DEF BM!Reqs, BMP!Reqs, BM!AllReqs, BMP!AllReqs, BM!PrGds, BMP!PrGds, BM!Elems, BMP!Elems
<1>2. BM!Free(gpu, done, 0) = BMP!Free(gpu, done, 0) /\ BM!Free(cpu, done, 0) = BMP!Free(cpu, done, 0)
  BY SameFree
<1>3. QED
  BY <1>1, <1>2 DEF BM!UpdateAndFree, BMP!UpdateAndFree

LEMMA SameInit == BM!Init <=> BMP!Init
BY DEF BM!Init, BMP!Init, BM!NewDevice, BMP!NewDevice, BM!Splits, BMP!Splits

LEMMA SameType == ASSUME NEW d, NEW n PROVE BM!DeviceType(d, n) <=> BMP!DeviceType(d, n)
BY DEF BM!DeviceType, BMP!DeviceType, BM!Splits, BMP!Splits

(* The sizes that the block manager assumes.                               *)
LEMMA Sizes ==
  /\ BlockSize \in Nat \ {0} /\ ExtraLayer \in BOOLEAN /\ NumGpu \in Nat /\ NumCpu \in Nat
  /\ MaxBatch \in Nat /\ MaxTokens \in Nat /\ MaxLen \in Nat
BY SchedulerAssumption, EngineAssumption

LEMMA Updates == ASSUME BMP!IInv, NEW done, BMP!UpdateAndFree(done) PROVE BMP!IInv'
<1>1. BMP!UpdateAndFree(done) => BMP!IInv'
  BY Sizes, BMP!UpdateIInv
<1>2. QED
  BY <1>1

LEMMA Prepares == ASSUME BMP!IInv, NEW call, BMP!Prepare(call) PROVE BMP!IInv'
  BY Sizes, BMP!PrepareIInv

-----------------------------------------------------------------------------
(* The rows of a set of requests, and tables filled in request by request. *)
RowsOf(S, id) == {id[r] : r \in S}

ByRow(H, id, val, none) ==
  [row \in Ids |-> IF \E r \in H : id[r] = row THEN val[CHOOSE r \in H : id[r] = row] ELSE none]

LEMMA RowSets ==
  ASSUME NEW H, NEW id, \A r, q \in H : id[r] = id[q] => r = q,
         NEW S, S \subseteq H, NEW T, T \subseteq H
  PROVE  /\ RowsOf(S \cup T, id) = RowsOf(S, id) \cup RowsOf(T, id)
         /\ RowsOf(S \ T, id) = RowsOf(S, id) \ RowsOf(T, id)
         /\ S \cap T = {} => RowsOf(S, id) \cap RowsOf(T, id) = {}
BY DEF RowsOf

LEMMA RowSubsets ==
  ASSUME NEW id, NEW S, NEW T, S \subseteq T
  PROVE  RowsOf(S, id) \subseteq RowsOf(T, id)
BY DEF RowsOf

LEMMA SameRows ==
  ASSUME NEW S, NEW id, NEW jd, \A r \in S : id[r] = jd[r]
  PROVE  RowsOf(S, id) = RowsOf(S, jd)
BY DEF RowsOf

LEMMA ByRowIs ==
  ASSUME NEW H, NEW id, NEW val, NEW none,
         \A r, q \in H : id[r] \in Ids /\ id[r] = id[q] => r = q
  PROVE  /\ \A r \in H : id[r] \in Ids => ByRow(H, id, val, none)[id[r]] = val[r]
         /\ \A row \in Ids : row \notin RowsOf(H, id) => ByRow(H, id, val, none)[row] = none
<1>1. ASSUME NEW r \in H, id[r] \in Ids
      PROVE  ByRow(H, id, val, none)[id[r]] = val[r]
  <2>1. (CHOOSE q \in H : id[q] = id[r]) = r
    BY <1>1
  <2>2. QED
    BY <1>1, <2>1 DEF ByRow
<1>2. ASSUME NEW row \in Ids, row \notin RowsOf(H, id)
      PROVE  ByRow(H, id, val, none)[row] = none
  BY <1>2 DEF ByRow, RowsOf
<1>3. QED
  BY <1>1, <1>2

(* Two tables with the same entries are one.                               *)
LEMMA SameTables ==
  ASSUME NEW H, NEW G, NEW id, NEW val, NEW none, G \subseteq H,
         \A r, q \in H : id[r] \in Ids /\ id[r] = id[q] => r = q,
         \A r \in H \ G : id[r] \notin Ids
  PROVE  ByRow(H, id, val, none) = ByRow(G, id, val, none)
<1>1. \A r, q \in G : id[r] \in Ids /\ id[r] = id[q] => r = q
  OBVIOUS
<1>2. ASSUME NEW row \in Ids
      PROVE  ByRow(H, id, val, none)[row] = ByRow(G, id, val, none)[row]
  <2>1. CASE row \in RowsOf(G, id)
    <3>1. PICK r \in G : row = id[r]
      BY <2>1 DEF RowsOf
    <3>2. ByRow(H, id, val, none)[row] = val[r]
      BY <3>1, ByRowIs
    <3>3. ByRow(G, id, val, none)[row] = val[r]
      BY <1>1, <3>1, ByRowIs
    <3>4. QED
      BY <3>2, <3>3
  <2>2. CASE row \notin RowsOf(G, id)
    <3>1. row \notin RowsOf(H, id)
      BY <2>2 DEF RowsOf
    <3>2. ByRow(H, id, val, none)[row] = none
      BY <3>1, ByRowIs
    <3>3. ByRow(G, id, val, none)[row] = none
      BY <1>1, <2>2, ByRowIs
    <3>4. QED
      BY <3>2, <3>3
  <2>3. QED
    BY <2>1, <2>2
<1>3. QED
  BY <1>2 DEF ByRow

LEMMA SameEntries ==
  ASSUME NEW H, NEW id, NEW val, NEW wal, NEW none, \A r \in H : val[r] = wal[r]
  PROVE  ByRow(H, id, val, none) = ByRow(H, id, wal, none)
<1>1. ASSUME NEW row \in Ids
      PROVE  ByRow(H, id, val, none)[row] = ByRow(H, id, wal, none)[row]
  <2>1. CASE \E r \in H : id[r] = row
    <3>1. PICK q : q = CHOOSE r \in H : id[r] = row
      OBVIOUS
    <3>2. q \in H
      BY <2>1, <3>1
    <3>3. val[q] = wal[q]
      BY <3>2
    <3>4. QED
      BY <2>1, <3>1, <3>3 DEF ByRow
  <2>2. QED
    BY <2>1 DEF ByRow
<1>2. QED
  BY <1>1 DEF ByRow

LEMMA RowTables ==
  /\ RowLens = ByRow(Holders, rid, SeqLen, 0)
  /\ RowLens' = ByRow(Holders', rid', SeqLen', 0)
  /\ \A id : RowLensWith(id) = ByRow(Reqs \ Finished, id, SeqLen, 0)
BY DEF RowLens, RowLensWith, ByRow

-----------------------------------------------------------------------------
(* The lists of a batch, request by request and row by row.                *)
(* Every request of H has a row of its own.                                *)
OwnRows(H, id) == (\A r \in H : id[r] \in Ids) /\ (\A r, q \in H : id[r] = id[q] => r = q)

LEMMA RowList ==
  ASSUME NEW H, NEW id, OwnRows(H, id), NEW q, q \in Seq(H)
  PROVE  /\ Rows(q, id) \in Seq(Ids) /\ Len(Rows(q, id)) = Len(q)
         /\ BMP!Elems(Rows(q, id)) = RowsOf(ToSet(q), id)
         /\ IsInjective(q) => BMP!Distinct(Rows(q, id))
<1>1. ToSet(q) \subseteq H
  BY Members
<1>2. /\ Rows(q, id) \in Seq(Ids) /\ Len(Rows(q, id)) = Len(q)
      /\ ToSet(Rows(q, id)) = {id[r] : r \in ToSet(q)}
      /\ IsInjective(q) => IsInjective(Rows(q, id))
  <2>1. \A r \in ToSet(q) : id[r] \in Ids
    BY <1>1 DEF OwnRows
  <2>2. \A r, p \in ToSet(q) : id[r] = id[p] => r = p
    BY <1>1 DEF OwnRows
  <2>3. /\ Rows(q, id) \in Seq(Ids) /\ Len(Rows(q, id)) = Len(q)
        /\ ToSet(Rows(q, id)) = {id[r] : r \in ToSet(q)}
        /\ IsInjective(q) /\ (\A r, p \in ToSet(q) : id[r] = id[p] => r = p)
             => IsInjective(Rows(q, id))
    BY ONLY <2>1, q \in Seq(H), RowsMembers
  <2>4. QED
    BY <2>2, <2>3
<1>3. PICK s : s = Rows(q, id)
  OBVIOUS
<1>4. s \in Seq(Ids) /\ DOMAIN s = 1 .. Len(s)
  BY <1>2, <1>3
<1>5. BMP!Elems(s) = ToSet(s) /\ (IsInjective(s) => BMP!Distinct(s))
  BY <1>4 DEF BMP!Elems, ToSet, BMP!Distinct, IsInjective
<1>6. QED
  BY <1>2, <1>3, <1>5 DEF RowsOf

LEMMA EndToEnd ==
  ASSUME NEW I, NEW a \in Seq(I), NEW b \in Seq(I)
  PROVE  /\ a \o b = [i \in 1 .. Len(a) + Len(b) |-> (a \o b)[i]]
         /\ \A i \in 1 .. Len(a) : (a \o b)[i] = a[i]
         /\ \A i \in Len(a) + 1 .. Len(a) + Len(b) : (a \o b)[i] = b[i - Len(a)]
<1>1. a \o b \in Seq(I) /\ Len(a \o b) = Len(a) + Len(b)
  OBVIOUS
<1>2. PICK u : u = a \o b
  OBVIOUS
<1>3. u \in Seq(I) => u = [i \in 1 .. Len(u) |-> u[i]]
  OBVIOUS
<1>4. a \o b = [i \in 1 .. Len(a) + Len(b) |-> (a \o b)[i]]
  BY <1>1, <1>2, <1>3
<1>5. QED
  BY <1>4

LEMMA RowsConcat ==
  ASSUME NEW R, NEW s, s \in Seq(R), NEW t, t \in Seq(R), NEW id
  PROVE  Rows(s \o t, id) = Rows(s, id) \o Rows(t, id)
<1>1. /\ Len(s) \in Nat /\ DOMAIN s = 1 .. Len(s) /\ Len(t) \in Nat /\ DOMAIN t = 1 .. Len(t)
      /\ Len(s \o t) = Len(s) + Len(t) /\ DOMAIN (s \o t) = 1 .. Len(s) + Len(t)
      /\ \A i \in 1 .. Len(s) : (s \o t)[i] = s[i]
      /\ \A i \in Len(s) + 1 .. Len(s) + Len(t) : (s \o t)[i] = t[i - Len(s)]
  OBVIOUS
<1>2. PICK a, b : a = [i \in 1 .. Len(s) |-> id[s[i]]] /\ b = [i \in 1 .. Len(t) |-> id[t[i]]]
  OBVIOUS
<1>3. Rows(s, id) = a /\ Rows(t, id) = b
  BY <1>1, <1>2 DEF Rows
<1>4. PICK I : (\A i \in 1 .. Len(s) : a[i] \in I) /\ (\A i \in 1 .. Len(t) : b[i] \in I)
  <2>1. WITNESS {a[i] : i \in 1 .. Len(s)} \cup {b[i] : i \in 1 .. Len(t)}
  <2>2. QED
    OBVIOUS
<1>5. a \in [1 .. Len(s) -> I] /\ b \in [1 .. Len(t) -> I]
  BY <1>2, <1>4
<1>6. /\ a \o b = [i \in 1 .. Len(s) + Len(t) |-> (a \o b)[i]]
      /\ \A i \in 1 .. Len(s) : (a \o b)[i] = a[i]
      /\ \A i \in Len(s) + 1 .. Len(s) + Len(t) : (a \o b)[i] = b[i - Len(s)]
  <2>1. PICK m, n : m = Len(s) /\ n = Len(t)
    OBVIOUS
  <2>2. m \in Nat
    BY <1>1, <2>1
  <2>3. n \in Nat
    BY <1>1, <2>1
  <2>4. a \in Seq(I) /\ Len(a) = m
    <3>1. a \in [1 .. m -> I]
      BY <1>5, <2>1
    <3>2. QED
      BY ONLY <2>2, <3>1
  <2>5. b \in Seq(I) /\ Len(b) = n
    <3>1. b \in [1 .. n -> I]
      BY <1>5, <2>1
    <3>2. QED
      BY ONLY <2>3, <3>1
  <2>6. /\ a \o b = [i \in 1 .. Len(a) + Len(b) |-> (a \o b)[i]]
        /\ \A i \in 1 .. Len(a) : (a \o b)[i] = a[i]
        /\ \A i \in Len(a) + 1 .. Len(a) + Len(b) : (a \o b)[i] = b[i - Len(a)]
    BY ONLY <2>4, <2>5, EndToEnd
  <2>7. QED
    BY <2>1, <2>4, <2>5, <2>6
<1>7. \A i \in 1 .. Len(s) + Len(t) : (a \o b)[i] = id[(s \o t)[i]]
  <2> SUFFICES ASSUME NEW i \in 1 .. Len(s) + Len(t) PROVE (a \o b)[i] = id[(s \o t)[i]]
    OBVIOUS
  <2>1. CASE i \in 1 .. Len(s)
    BY <1>1, <1>2, <1>6, <2>1
  <2>2. CASE i \in Len(s) + 1 .. Len(s) + Len(t)
    <3>1. i - Len(s) \in 1 .. Len(t)
      BY <1>1, <2>2
    <3>2. b[i - Len(s)] = id[t[i - Len(s)]]
      BY <1>2, <3>1
    <3>3. QED
      BY <1>1, <1>6, <2>2, <3>2
  <2>3. QED
    <3>1. i \in 1 .. Len(s) \/ i \in Len(s) + 1 .. Len(s) + Len(t)
      BY <1>1
    <3>2. QED
      BY <2>1, <2>2, <3>1
<1>8. Rows(s \o t, id) = [i \in 1 .. Len(s) + Len(t) |-> id[(s \o t)[i]]]
  BY <1>1 DEF Rows
<1>9. Rows(s \o t, id) = a \o b
  BY <1>6, <1>7, <1>8
<1>10. QED
  BY <1>3, <1>9

(* A batch of requests of H, and the batch of their rows.                  *)
BatchIn(H, b) ==
  /\ b = Batch(b.cprf, b.gprf, b.gdec, b.cdec)
  /\ b.cprf \in Seq(H) /\ b.gprf \in Seq(H) /\ b.gdec \in Seq(H) /\ b.cdec \in Seq(H)

RowBatch(b, id) ==
  Batch(Rows(b.cprf, id), Rows(b.gprf, id), Rows(b.gdec, id), Rows(b.cdec, id))

LEMMA BatchList ==
  ASSUME NEW H, NEW id, NEW b, BatchIn(H, b)
  PROVE  BatchReqs(b) \in Seq(H) /\ BMP!AllReqs(RowBatch(b, id)) = Rows(BatchReqs(b), id)
<1>1. b.cprf \in Seq(H) /\ b.gprf \in Seq(H) /\ b.gdec \in Seq(H) /\ b.cdec \in Seq(H)
  BY DEF BatchIn
<1>2. PICK c, g, d, e : c = b.cprf /\ g = b.gprf /\ d = b.gdec /\ e = b.cdec
  OBVIOUS
<1>3. c \in Seq(H) /\ g \in Seq(H) /\ d \in Seq(H) /\ e \in Seq(H)
  BY <1>1, <1>2
<1>4. /\ RowBatch(b, id).cprf = Rows(c, id) /\ RowBatch(b, id).gprf = Rows(g, id)
      /\ RowBatch(b, id).gdec = Rows(d, id) /\ RowBatch(b, id).cdec = Rows(e, id)
  BY <1>2 DEF RowBatch, Batch
<1>5. BatchReqs(b) = ((c \o g) \o d) \o e
  BY <1>2 DEF BatchReqs
<1>6. PICK x, y : x = c \o g /\ y = x \o d
  OBVIOUS
<1>7. x \in Seq(H) /\ y \in Seq(H) /\ d \in Seq(H) /\ e \in Seq(H)
  BY <1>3, <1>6
<1>8. Rows(c \o g, id) = Rows(c, id) \o Rows(g, id)
  BY ONLY <1>3, RowsConcat, SMTT(30)
<1>9. Rows(x \o d, id) = Rows(x, id) \o Rows(d, id)
  BY ONLY <1>7, RowsConcat, SMTT(30)
<1>10. Rows(y \o e, id) = Rows(y, id) \o Rows(e, id)
  BY ONLY <1>7, RowsConcat, SMTT(30)
<1>11. BatchReqs(b) \in Seq(H)
  BY <1>5, <1>6, <1>7
<1>12. Rows(BatchReqs(b), id) = ((Rows(c, id) \o Rows(g, id)) \o Rows(d, id)) \o Rows(e, id)
  BY <1>5, <1>6, <1>8, <1>9, <1>10
<1>13. QED
  BY <1>4, <1>11, <1>12 DEF BMP!AllReqs, BMP!PrGds

LEMMA BatchRows ==
  ASSUME NEW H, NEW id, OwnRows(H, id), NEW b, BatchIn(H, b)
  PROVE  /\ BMP!BatchType(RowBatch(b, id))
         /\ BatchReqs(b) \in Seq(H)
         /\ BMP!Elems(BMP!AllReqs(RowBatch(b, id))) = RowsOf(ToSet(BatchReqs(b)), id)
         /\ IsInjective(BatchReqs(b)) => BMP!Distinct(BMP!AllReqs(RowBatch(b, id)))
         /\ BMP!Prefs(RowBatch(b, id)) = RowsOf(ToSet(b.cprf) \cup ToSet(b.gprf), id)
         /\ BMP!Elems(RowBatch(b, id).cprf) = RowsOf(ToSet(b.cprf), id)
         /\ BMP!Elems(RowBatch(b, id).gprf) = RowsOf(ToSet(b.gprf), id)
         /\ BMP!Elems(RowBatch(b, id).gdec) = RowsOf(ToSet(b.gdec), id)
         /\ BMP!Elems(RowBatch(b, id).cdec) = RowsOf(ToSet(b.cdec), id)
<1>1. b.cprf \in Seq(H) /\ b.gprf \in Seq(H) /\ b.gdec \in Seq(H) /\ b.cdec \in Seq(H)
  BY DEF BatchIn
<1>2. PICK c, g, d, e : c = b.cprf /\ g = b.gprf /\ d = b.gdec /\ e = b.cdec
  OBVIOUS
<1>3. c \in Seq(H) /\ g \in Seq(H) /\ d \in Seq(H) /\ e \in Seq(H)
  BY <1>1, <1>2
<1>4. /\ RowBatch(b, id).cprf = Rows(c, id) /\ RowBatch(b, id).gprf = Rows(g, id)
      /\ RowBatch(b, id).gdec = Rows(d, id) /\ RowBatch(b, id).cdec = Rows(e, id)
      /\ RowBatch(b, id) = Batch(Rows(c, id), Rows(g, id), Rows(d, id), Rows(e, id))
  BY <1>2 DEF RowBatch, Batch
<1>5. /\ Rows(c, id) \in Seq(Ids) /\ BMP!Elems(Rows(c, id)) = RowsOf(ToSet(c), id)
      /\ Rows(g, id) \in Seq(Ids) /\ BMP!Elems(Rows(g, id)) = RowsOf(ToSet(g), id)
      /\ Rows(d, id) \in Seq(Ids) /\ BMP!Elems(Rows(d, id)) = RowsOf(ToSet(d), id)
      /\ Rows(e, id) \in Seq(Ids) /\ BMP!Elems(Rows(e, id)) = RowsOf(ToSet(e), id)
  <2>1. \A q \in Seq(H) : Rows(q, id) \in Seq(Ids) /\ BMP!Elems(Rows(q, id)) = RowsOf(ToSet(q), id)
    BY RowList
  <2>2. QED
    BY <1>3, <2>1
<1>6. BMP!BatchType(RowBatch(b, id))
  BY <1>4, <1>5 DEF BMP!BatchType, Batch
<1>7. c \o g \in Seq(H) /\ BatchReqs(b) \in Seq(H)
  <2>1. BatchReqs(b) \in Seq(H)
    BY BatchList
  <2>2. QED
    BY <1>3, <2>1
<1>8. BMP!AllReqs(RowBatch(b, id)) = Rows(BatchReqs(b), id)
  BY BatchList
<1>9. /\ BMP!Elems(Rows(BatchReqs(b), id)) = RowsOf(ToSet(BatchReqs(b)), id)
      /\ IsInjective(BatchReqs(b)) => BMP!Distinct(Rows(BatchReqs(b), id))
  <2>1. PICK q : q = BatchReqs(b)
    OBVIOUS
  <2>2. q \in Seq(H)
    BY <1>7, <2>1
  <2>3. BMP!Elems(Rows(q, id)) = RowsOf(ToSet(q), id) /\ (IsInjective(q) => BMP!Distinct(Rows(q, id)))
    BY <2>2, RowList
  <2>4. QED
    BY <2>1, <2>3
<1>10. BMP!Prefs(RowBatch(b, id)) = RowsOf(ToSet(c) \cup ToSet(g), id)
  <2>1. Rows(c \o g, id) = Rows(c, id) \o Rows(g, id)
    BY ONLY <1>3, RowsConcat, SMTT(30)
  <2>2. BMP!Prefs(RowBatch(b, id)) = BMP!Elems(Rows(c \o g, id))
    BY <1>4, <2>1 DEF BMP!Prefs
  <2>3. ToSet(c \o g) = ToSet(c) \cup ToSet(g)
    BY <1>3, ConcatMembers
  <2>4. PICK x : x = c \o g
    OBVIOUS
  <2>5. BMP!Elems(Rows(x, id)) = RowsOf(ToSet(x), id)
    BY <1>7, <2>4, RowList
  <2>6. QED
    BY <2>2, <2>3, <2>4, <2>5
<1>11. QED
  BY <1>2, <1>4, <1>5, <1>6, <1>7, <1>8, <1>9, <1>10

LEMMA FirstOfTwo == ASSUME NEW m, m = 1 \/ m = 2 PROVE 1 \in 1 .. m
OBVIOUS

(* The one or two batches of an iteration.                                 *)
BatchesIn(H, batches) ==
  /\ DOMAIN batches = 1 .. Len(batches) /\ Len(batches) \in {1, 2}
  /\ \A k \in 1 .. Len(batches) : BatchIn(H, batches[k])

LEMMA BatchesApart ==
  ASSUME NEW H, NEW batches, BatchesIn(H, batches)
  PROVE  /\ \A x : x \in ToSet(Running(batches)) <=>
                     \E k \in 1 .. Len(batches) : x \in ToSet(BatchReqs(batches[k]))
         /\ IsInjective(Running(batches)) =>
              /\ \A k \in 1 .. Len(batches) : IsInjective(BatchReqs(batches[k]))
              /\ \A k, l \in 1 .. Len(batches) :
                   k # l => ToSet(BatchReqs(batches[k])) \cap ToSet(BatchReqs(batches[l])) = {}
<1>1. \A k \in 1 .. Len(batches) : BatchReqs(batches[k]) \in Seq(H)
  <2>1. ASSUME NEW k \in 1 .. Len(batches) PROVE BatchReqs(batches[k]) \in Seq(H)
    <3>1. PICK b : b = batches[k]
      OBVIOUS
    <3>2. b.cprf \in Seq(H) /\ b.gprf \in Seq(H) /\ b.gdec \in Seq(H) /\ b.cdec \in Seq(H)
      BY <3>1 DEF BatchesIn, BatchIn
    <3>3. b.cprf \o b.gprf \o b.gdec \o b.cdec \in Seq(H)
      BY <3>2
    <3>4. QED
      BY <3>1, <3>3 DEF BatchReqs
  <2>2. QED
    BY <2>1
<1>2. CASE Len(batches) = 1
  <2>1. Running(batches) = BatchReqs(batches[1]) /\ 1 .. Len(batches) = {1}
    BY <1>2 DEF Running
  <2>2. QED
    BY <2>1
<1>3. CASE Len(batches) = 2
  <2>1. PICK s, t : s = BatchReqs(batches[1]) /\ t = BatchReqs(batches[2])
    OBVIOUS
  <2>2. 1 .. Len(batches) = {1, 2}
    BY <1>3
  <2>3. s \in Seq(H) /\ t \in Seq(H)
    BY <1>1, <2>1, <2>2
  <2>4. Running(batches) = s \o t
    BY <1>3, <2>1 DEF Running
  <2>5. /\ ToSet(s \o t) = ToSet(s) \cup ToSet(t)
        /\ IsInjective(s \o t) <=> IsInjective(s) /\ IsInjective(t) /\ ToSet(s) \cap ToSet(t) = {}
    BY <2>3, ConcatMembers
  <2>6. \A k \in 1 .. Len(batches) : (k = 1 /\ BatchReqs(batches[k]) = s)
                                     \/ (k = 2 /\ BatchReqs(batches[k]) = t)
    BY <2>1, <2>2
  <2>7. /\ 1 \in 1 .. Len(batches) /\ 2 \in 1 .. Len(batches)
        /\ BatchReqs(batches[1]) = s /\ BatchReqs(batches[2]) = t
    BY <2>1, <2>2
  <2>8. \A x : x \in ToSet(Running(batches)) <=>
                 \E k \in 1 .. Len(batches) : x \in ToSet(BatchReqs(batches[k]))
    BY <2>4, <2>5, <2>6, <2>7
  <2>9. ASSUME IsInjective(Running(batches))
        PROVE  /\ \A k \in 1 .. Len(batches) : IsInjective(BatchReqs(batches[k]))
               /\ \A k, l \in 1 .. Len(batches) :
                    k # l => ToSet(BatchReqs(batches[k])) \cap ToSet(BatchReqs(batches[l])) = {}
    <3>1. IsInjective(s) /\ IsInjective(t) /\ ToSet(s) \cap ToSet(t) = {}
      BY <2>4, <2>5, <2>9
    <3>2. QED
      BY <2>6, <3>1
  <2>10. QED
    BY <2>8, <2>9
<1>4. QED
  BY <1>2, <1>3 DEF BatchesIn

LEMMA RowBatchList ==
  ASSUME NEW H, NEW batches, BatchesIn(H, batches), NEW id, NEW rows, rows = RowBatches(batches, id)
  PROVE  /\ Len(rows) = Len(batches) /\ rows \in Seq({rows[k] : k \in 1 .. Len(rows)})
         /\ \A k \in 1 .. Len(batches) : rows[k] = RowBatch(batches[k], id)
<1>1. DOMAIN batches = 1 .. Len(batches) /\ Len(batches) \in Nat
  BY DEF BatchesIn
<1>2. rows = [k \in 1 .. Len(batches) |-> RowBatch(batches[k], id)]
  BY <1>1 DEF RowBatches, RowBatch
<1>3. Len(rows) = Len(batches) /\ DOMAIN rows = 1 .. Len(batches)
  BY <1>1, <1>2
<1>4. \A k \in 1 .. Len(batches) : rows[k] = RowBatch(batches[k], id)
  BY <1>2
<1>5. rows \in Seq({rows[k] : k \in 1 .. Len(rows)})
  <2>1. PICK S : S = {rows[k] : k \in 1 .. Len(rows)}
    OBVIOUS
  <2>2. \A k \in 1 .. Len(batches) : rows[k] \in S
    BY <1>3, <2>1
  <2>3. rows \in [1 .. Len(batches) -> S]
    BY <1>2, <2>2
  <2>4. rows \in Seq(S)
    BY ONLY <1>1, <2>3
  <2>5. QED
    BY <2>1, <2>4
<1>6. QED
  BY <1>3, <1>4, <1>5

LEMMA BatchesRows ==
  ASSUME NEW H, NEW id, OwnRows(H, id), NEW batches, BatchesIn(H, batches), NEW rows,
         rows = RowBatches(batches, id)
  PROVE  BMP!Reqs(rows) = RowsOf(ToSet(Running(batches)), id)
<1>1. Len(rows) = Len(batches) /\ \A k \in 1 .. Len(batches) : rows[k] = RowBatch(batches[k], id)
  <2>1. BatchesIn(H, batches)
    OBVIOUS
  <2>2. rows = RowBatches(batches, id)
    OBVIOUS
  <2>3. Len(rows) = Len(batches)
    BY ONLY <2>1, <2>2, RowBatchList
  <2>4. \A k \in 1 .. Len(batches) : rows[k] = RowBatch(batches[k], id)
    BY ONLY <2>1, <2>2, RowBatchList
  <2>5. QED
    BY <2>3, <2>4
<1>2. \A k \in 1 .. Len(batches) :
        BMP!Elems(BMP!AllReqs(rows[k])) = RowsOf(ToSet(BatchReqs(batches[k])), id)
  <2>1. ASSUME NEW k \in 1 .. Len(batches)
        PROVE  BMP!Elems(BMP!AllReqs(RowBatch(batches[k], id))) =
                 RowsOf(ToSet(BatchReqs(batches[k])), id)
    <3>1. PICK y : y = batches[k]
      OBVIOUS
    <3>2. BatchIn(H, y)
      BY <3>1 DEF BatchesIn
    <3>3. BMP!Elems(BMP!AllReqs(RowBatch(y, id))) = RowsOf(ToSet(BatchReqs(y)), id)
      BY <3>2, BatchRows
    <3>4. QED
      BY <3>1, <3>3
  <2>2. QED
    BY <1>1, <2>1
<1>3. \A x : x \in BMP!Reqs(rows) <=>
               \E k \in 1 .. Len(batches) : x \in RowsOf(ToSet(BatchReqs(batches[k])), id)
  BY <1>1, <1>2 DEF BMP!Reqs
<1>4. \A x : x \in ToSet(Running(batches)) <=>
               \E k \in 1 .. Len(batches) : x \in ToSet(BatchReqs(batches[k]))
  BY BatchesApart
<1>5. \A x : x \in BMP!Reqs(rows) <=> x \in RowsOf(ToSet(Running(batches)), id)
  BY <1>3, <1>4 DEF RowsOf
<1>6. QED
  BY <1>5

-----------------------------------------------------------------------------
(* The inductive invariant: the engine's, the block manager's on the rows, *)
(* and what relates the two.                                               *)

(* A request leaves room for its whole answer, and has got none of it      *)
(* before it is given an id.                                               *)
Fits ==
  /\ \A r \in Arrived : mlen[r] > 0 /\ plen[r] + mlen[r] <= MaxLen
  /\ \A r \in Reqs : rid[r] = -1 => olen[r] = 0

IterBatches == pc = "exec" => BatchesIn(Holders, iter.batches)

DevInv == IInv /\ Fits /\ IterBatches /\ BMP!IInv /\ QueuesMatchDevices

(* The types a proof about lengths needs.                                  *)
LEMMA Lengths ==
  ASSUME IInv
  PROVE  /\ \A r \in Reqs : plen[r] \in Nat /\ olen[r] \in Nat /\ mlen[r] \in Nat
         /\ \A r \in Reqs : SeqLen[r] = plen[r] + olen[r]
         /\ Arrived \subseteq Reqs /\ Finished \subseteq Arrived /\ Holders \subseteq Arrived \ Finished
         /\ -1 \notin Ids
<1>1. Outputs \cup {0} \subseteq Nat /\ Prompts \cup {0} \subseteq Nat /\ MaxIds \in Nat
  BY EngineAssumption
<1>2. \A r \in Reqs : plen[r] \in Nat /\ olen[r] \in Nat /\ mlen[r] \in Nat
  BY <1>1 DEF IInv, QueueTypes
<1>3. \A r \in Reqs : SeqLen[r] = plen[r] + olen[r]
  BY DEF SeqLen
<1>4. Holders \subseteq Arrived \ Finished
  BY DEF IInv, ArrivedInOrder, Holders
<1>5. -1 \notin Ids
  BY <1>1 DEF Ids
<1>6. QED
  BY <1>2, <1>3, <1>4, <1>5 DEF Arrived, Finished

(* What a queue of decodes holds has a row of its own.                     *)
QueuedHold ==
  /\ ToSet(gpuq) \cup ToSet(cpuq) = Holders /\ ToSet(gpuq) \cap ToSet(cpuq) = {}
  /\ \A r \in Holders : rid[r] \in Ids
  /\ \A r, q \in Holders : rid[r] = rid[q] => r = q

LEMMA RowsHeld == IInv => QueuedHold
<1> SUFFICES ASSUME IInv PROVE QueuedHold
  OBVIOUS
<1>1. waiting \in Seq(Reqs) /\ gpuq \in Seq(Reqs) /\ cpuq \in Seq(Reqs) /\ rid \in [Reqs -> Ids \cup {-1}]
  BY DEF IInv, QueueTypes
<1>2. Separate(waiting, gpuq, cpuq, Arrived \ Finished)
  BY <1>1, NothingLostIs DEF IInv
<1>3. \A r \in Arrived : rid[r] = -1 <=> r \in ToSet(waiting)
  BY DEF IInv, WaitingInOrder
<1>4. Holders \subseteq Arrived \ Finished /\ Arrived \subseteq Reqs
  BY Lengths
<1>5. Holders = (Arrived \ Finished) \ ToSet(waiting)
  BY <1>3, <1>4 DEF Holders
<1>6. ToSet(gpuq) \cup ToSet(cpuq) = Holders /\ ToSet(gpuq) \cap ToSet(cpuq) = {}
  BY <1>2, <1>5 DEF Separate
<1>7. \A r \in Holders : rid[r] \in Ids
  BY <1>1 DEF Holders
<1>8. \A r, q \in Holders : rid[r] = rid[q] => r = q
  BY DEF IInv, IdsExact
<1>9. QED
  BY <1>6, <1>7, <1>8 DEF QueuedHold

LEMMA RowsHeldNext == IInv' => QueuedHold'
  BY RowsHeld, PTL

LEMMA Matching ==
  QueuesMatchDevices <=> RowsOf(ToSet(gpuq), rid) = BMP!OnGpu /\ RowsOf(ToSet(cpuq), rid) = BMP!OnCpu
BY DEF QueuesMatchDevices, RowsOf, BMP!OnGpu, BMP!OnCpu

LEMMA MatchingNext ==
  QueuesMatchDevices' <=>
    /\ RowsOf(ToSet(gpuq'), rid') = {row \in Ids : gpu'.table[row] # << >>}
    /\ RowsOf(ToSet(cpuq'), rid') = {row \in Ids : cpu'.table[row] # << >>}
BY DEF QueuesMatchDevices, RowsOf

-----------------------------------------------------------------------------
LEMMA InitBM == Init => BM!Init
<1> SUFFICES ASSUME Init PROVE BM!Init
  OBVIOUS
<1>1. Holders = {}
  BY DEF Init, Holders
<1>2. RowLens = [row \in Ids |-> 0]
  BY <1>1 DEF RowLens
<1>3. QED
  BY <1>2 DEF Init, BM!Init

LEMMA InitDev == Init => DevInv
<1> SUFFICES ASSUME Init PROVE DevInv
  OBVIOUS
<1>1. IInv
  BY Initially
<1>2. BMP!Init
  BY InitBM, SameInit
<1>3. BMP!IInv
  BY <1>2, Sizes, BMP!InitIInv
<1>4. Fits /\ IterBatches
  BY DEF Init, Fits, IterBatches, Arrived
<1>5. QueuesMatchDevices
  <2>1. \A row \in Ids : gpu.table[row] = << >> /\ cpu.table[row] = << >>
    BY <1>2 DEF BMP!Init, BMP!NewDevice
  <2>2. PICK e : e = << >>
    OBVIOUS
  <2>3. gpuq = e /\ cpuq = e /\ ToSet(e) = {}
    BY <2>2 DEF Init, ToSet
  <2>4. QED
    BY <2>1, <2>3 DEF QueuesMatchDevices
<1>6. QED
  BY <1>1, <1>3, <1>4, <1>5 DEF DevInv

(* The steps that touch no device.                                         *)
LEMMA RestingDev ==
  ASSUME DevInv, IInv', Fits', gpu' = gpu, cpu' = cpu, RowLens' = RowLens, iter' = iter,
         rid' = rid, Holders' = Holders, gpuq' = gpuq, cpuq' = cpuq,
         pc' = pc \/ (pc # "exec" /\ pc' \in {"sched", "sleep", "dead"})
  PROVE  DevInv'
<1>1. IterBatches'
  BY DEF DevInv, IterBatches
<1>2. QueuesMatchDevices'
  BY DEF DevInv, QueuesMatchDevices
<1> DEFINE run == IF pc = "exec" THEN RowBatches(iter.batches, rid) ELSE << >>
<1>3. run' = run
  BY DEF RowBatches, Rows
<1>4. BMP!Reqs(run)' = BMP!Reqs(run)
  BY <1>3 DEF BMP!Reqs
<1> HIDE DEF run
<1>5. /\ BMP!TypeOK /\ BMP!AccountingExact /\ BMP!BlocksMatchLength
      /\ pc # "exec" => run = << >>
  BY DEF DevInv, BMP!IInv, run
<1>6. BMP!TypeOK'
  BY <1>4, <1>5 DEF BMP!TypeOK, run
<1>7. BMP!AccountingExact'
  BY <1>5 DEF BMP!AccountingExact
<1>8. BMP!BlocksMatchLength'
  BY <1>4, <1>5 DEF BMP!BlocksMatchLength, run
<1>9. BMP!IInv'
  BY <1>6, <1>7, <1>8 DEF BMP!IInv
<1>10. QED
  BY <1>1, <1>2, <1>9 DEF DevInv

(* An arrival fills no row.                                                *)
LEMMA ArriveDev ==
  ASSUME DevInv, IInv', NEW r \in Reqs, NEW p \in Prompts, NEW m \in Outputs, Arrive(r, p, m)
  PROVE  DevInv'
<1>1. /\ rid' = rid /\ olen' = olen /\ iter' = iter /\ gpuq' = gpuq /\ cpuq' = cpuq /\ pc' = pc
      /\ plen' = [plen EXCEPT ![r] = p] /\ mlen' = [mlen EXCEPT ![r] = m]
      /\ gpu' = gpu /\ cpu' = cpu /\ Arrived = 1 .. (r - 1) /\ p + m <= MaxLen
  BY DEF Arrive, devices
<1>2. IInv /\ Fits
  BY DEF DevInv
<1>3. plen \in [Reqs -> Prompts \cup {0}] /\ mlen \in [Reqs -> Outputs \cup {0}]
  BY <1>2 DEF IInv, QueueTypes
<1>4. p \in Nat \ {0} /\ m \in Nat \ {0} /\ r \in Nat
  BY EngineAssumption DEF Reqs
<1>5. r \notin Arrived
  BY <1>1, <1>4
<1>6. rid[r] = -1 /\ mlen[r] = 0 /\ olen[r] = 0
  BY <1>2, <1>5 DEF IInv, ArrivedInOrder, Fits
<1>7. \A q \in Reqs : plen'[q] = (IF q = r THEN p ELSE plen[q])
                      /\ mlen'[q] = (IF q = r THEN m ELSE mlen[q])
  BY <1>1, <1>3
<1>8. Arrived' = Arrived \cup {r}
  <2>1. Arrived' = {q \in Reqs : plen'[q] > 0}
    BY DEF Arrived
  <2>2. \A q \in Reqs : plen'[q] > 0 <=> plen[q] > 0 \/ q = r
    BY <1>4, <1>7
  <2>3. QED
    BY <2>1, <2>2 DEF Arrived
<1>9. Finished' = Finished
  <2>1. \A q \in Arrived' : olen'[q] = mlen'[q] <=> q \in Finished
    <3>1. olen'[r] # mlen'[r] /\ r \notin Finished
      BY <1>1, <1>4, <1>5, <1>6, <1>7 DEF Finished
    <3>2. \A q \in Arrived : q # r /\ q \in Reqs
      BY <1>5 DEF Arrived
    <3>3. QED
      BY <1>1, <1>7, <1>8, <3>1, <3>2 DEF Finished
  <2>2. Finished \subseteq Arrived'
    BY <1>8 DEF Finished
  <2>3. Finished' = {q \in Arrived' : olen'[q] = mlen'[q]}
    BY DEF Finished
  <2>4. QED
    BY <2>1, <2>2, <2>3
<1>10. Holders' = Holders
  BY <1>1, <1>9 DEF Holders
<1>11. \A q \in Holders : SeqLen'[q] = SeqLen[q] /\ q \in Reqs
  <2>1. SeqLen' = [q \in Reqs |-> plen'[q] + olen'[q]]
    BY DEF SeqLen
  <2>2. \A q \in Holders : q \in Reqs /\ q # r
    BY <1>6 DEF Holders
  <2>3. QED
    BY <1>1, <1>7, <2>1, <2>2 DEF SeqLen
<1>12. RowLens' = RowLens
  <2>1. RowLens' = ByRow(Holders, rid, SeqLen', 0) /\ RowLens = ByRow(Holders, rid, SeqLen, 0)
    BY <1>1, <1>10, RowTables
  <2>2. ByRow(Holders, rid, SeqLen', 0) = ByRow(Holders, rid, SeqLen, 0)
    BY <1>11, SameEntries
  <2>3. QED
    BY <2>1, <2>2
<1>13. Fits'
  <2>1. \A q \in Arrived' : mlen'[q] > 0 /\ plen'[q] + mlen'[q] <= MaxLen
    BY <1>1, <1>2, <1>4, <1>7, <1>8 DEF Fits, Arrived
  <2>2. \A q \in Reqs : rid'[q] = -1 => olen'[q] = 0
    BY <1>1, <1>2 DEF Fits
  <2>3. QED
    BY <2>1, <2>2 DEF Fits
<1>14. QED
  BY <1>1, <1>10, <1>12, <1>13, RestingDev

(* Sleeping, waking and raising change only pc.                            *)
LEMMA IdleDev ==
  ASSUME DevInv, IInv', UNCHANGED <<queues, rid, plen, olen, mlen, iter, devices>>,
         pc' = pc \/ (pc # "exec" /\ pc' \in {"sched", "sleep", "dead"})
  PROVE  DevInv'
<1>1. /\ rid' = rid /\ olen' = olen /\ iter' = iter /\ gpuq' = gpuq /\ cpuq' = cpuq
      /\ plen' = plen /\ mlen' = mlen /\ gpu' = gpu /\ cpu' = cpu
  BY DEF queues, devices
<1>2. Arrived' = Arrived /\ Finished' = Finished /\ Holders' = Holders /\ SeqLen' = SeqLen
  BY <1>1 DEF Arrived, Finished, Holders, SeqLen
<1>3. RowLens' = RowLens
  BY <1>1, <1>2 DEF RowLens
<1>4. Fits'
  BY <1>1, <1>2 DEF DevInv, Fits
<1>5. QED
  BY <1>1, <1>2, <1>3, <1>4, RestingDev

-----------------------------------------------------------------------------
(* Complete updates and frees: its requests' rows get a token, those that  *)
(* finish are given back.                                                  *)
LEMMA CompleteLens ==
  ASSUME DevInv, Complete
  PROVE  LET run == RowsOf(Ran, rid)
             rows == RowsOf(Done, rid)
         IN /\ rows \subseteq run
            /\ \A row \in run \ rows : RowLens[row] + 1 < MaxLen
            /\ RowLens' = [row \in Ids |-> IF row \in rows THEN 0
                                           ELSE IF row \in run THEN RowLens[row] + 1
                                           ELSE RowLens[row]]
<1>1. IInv /\ Fits /\ QueuedHold
  BY RowsHeld DEF DevInv
<1>2. /\ Ran \subseteq Holders /\ Done \subseteq Ran /\ Holders' = Holders \ Done
      /\ \A r \in Ran : olen[r] + 1 <= mlen[r]
      /\ \A r \in Reqs : olen'[r] = IF r \in Ran THEN olen[r] + 1 ELSE olen[r]
  BY <1>1, Answers
<1>3. rid' = rid /\ plen' = plen
  BY DEF Complete
<1>4. /\ \A r \in Holders : rid[r] \in Ids
      /\ \A r, q \in Holders : rid[r] = rid[q] => r = q
  BY <1>1 DEF QueuedHold
<1>5. /\ \A r \in Reqs : plen[r] \in Nat /\ olen[r] \in Nat /\ mlen[r] \in Nat
      /\ \A r \in Reqs : SeqLen[r] = plen[r] + olen[r]
      /\ Arrived \subseteq Reqs /\ Holders \subseteq Arrived
  BY <1>1, Lengths
<1>6. \A r \in Reqs : SeqLen'[r] = IF r \in Ran THEN SeqLen[r] + 1 ELSE SeqLen[r]
  <2>1. SeqLen' = [r \in Reqs |-> plen'[r] + olen'[r]]
    BY DEF SeqLen
  <2>2. QED
    BY <1>2, <1>3, <1>5, <2>1
<1>7. MaxLen \in Nat
  BY Sizes
<1>8. \A r \in Ran \ Done : SeqLen[r] + 1 < MaxLen
  <2> SUFFICES ASSUME NEW r \in Ran \ Done PROVE SeqLen[r] + 1 < MaxLen
    OBVIOUS
  <2>1. r \in Arrived /\ r \in Reqs
    BY <1>2, <1>5
  <2>2. plen[r] + mlen[r] <= MaxLen /\ olen[r] + 1 <= mlen[r] /\ olen[r] + 1 # mlen[r]
    BY <1>1, <1>2, <2>1 DEF Fits, Done
  <2>3. QED
    BY <1>5, <1>7, <2>1, <2>2
<1> DEFINE run == RowsOf(Ran, rid)
           rows == RowsOf(Done, rid)
           none == 0
<1>9. /\ RowLens = ByRow(Holders, rid, SeqLen, 0)
      /\ RowLens' = ByRow(Holders \ Done, rid, SeqLen', 0)
  BY <1>2, <1>3, RowTables
<1>10. \A r \in Holders : RowLens[rid[r]] = SeqLen[r]
  BY <1>4, <1>9, ByRowIs
<1>11. \A row \in Ids : row \notin RowsOf(Holders, rid) => RowLens[row] = 0
  BY <1>4, <1>9, ByRowIs
<1>12. \A r \in Holders \ Done : RowLens'[rid[r]] = SeqLen'[r]
  <2>1. PICK H, val : H = Holders \ Done /\ val = SeqLen'
    OBVIOUS
  <2>2. \A r, q \in H : rid[r] \in Ids /\ rid[r] = rid[q] => r = q
    BY <1>4, <2>1
  <2>3. \A r \in H : rid[r] \in Ids => ByRow(H, rid, val, 0)[rid[r]] = val[r]
    BY ONLY <2>2, ByRowIs
  <2>4. QED
    BY <1>4, <1>9, <2>1, <2>3
<1>13. \A row \in Ids : row \notin RowsOf(Holders \ Done, rid) => RowLens'[row] = 0
  <2>1. PICK H, val : H = Holders \ Done /\ val = SeqLen'
    OBVIOUS
  <2>2. \A r, q \in H : rid[r] \in Ids /\ rid[r] = rid[q] => r = q
    BY <1>4, <2>1
  <2>3. \A row \in Ids : row \notin RowsOf(H, rid) => ByRow(H, rid, val, 0)[row] = 0
    BY ONLY <2>2, ByRowIs
  <2>4. QED
    BY <1>9, <2>1, <2>3
<1>14. rows \subseteq run
  BY <1>2, RowSubsets
<1>15. run \ rows = RowsOf(Ran \ Done, rid)
  BY <1>2, <1>4 DEF RowsOf
<1>16. \A row \in run \ rows : RowLens[row] + 1 < MaxLen
  <2>1. \A r \in Ran \ Done : RowLens[rid[r]] + 1 < MaxLen
    BY <1>2, <1>8, <1>10
  <2>2. QED
    BY <1>15, <2>1 DEF RowsOf
<1>17. ASSUME NEW row \in Ids
       PROVE  RowLens'[row] = IF row \in rows THEN 0
                              ELSE IF row \in run THEN RowLens[row] + 1 ELSE RowLens[row]
  <2>1. CASE row \in rows
    <3>1. row \notin RowsOf(Holders \ Done, rid)
      BY <1>2, <1>4, <2>1 DEF RowsOf
    <3>2. QED
      BY <1>13, <2>1, <3>1
  <2>2. CASE row \in run \ rows
    <3>1. PICK r \in Ran \ Done : row = rid[r]
      BY <1>15, <2>2 DEF RowsOf
    <3>2. RowLens'[row] = SeqLen[r] + 1 /\ RowLens[row] = SeqLen[r]
      BY <1>2, <1>5, <1>6, <1>10, <1>12, <3>1
    <3>3. QED
      BY <2>2, <3>2
  <2>3. CASE row \in RowsOf(Holders, rid) \ run
    <3>1. PICK r \in Holders : row = rid[r]
      BY <2>3 DEF RowsOf
    <3>2. r \notin Ran
      BY <2>3, <3>1 DEF RowsOf
    <3>3. RowLens'[row] = SeqLen[r] /\ RowLens[row] = SeqLen[r]
      BY <1>2, <1>5, <1>6, <1>10, <1>12, <3>1, <3>2
    <3>4. row \notin run /\ row \notin rows
      BY <1>14, <2>3
    <3>5. QED
      BY <3>3, <3>4
  <2>4. CASE row \notin RowsOf(Holders, rid)
    <3>1. row \notin run /\ row \notin rows /\ row \notin RowsOf(Holders \ Done, rid)
      BY <1>2, <2>4 DEF RowsOf
    <3>2. RowLens'[row] = 0 /\ RowLens[row] = 0
      BY <1>11, <1>13, <2>4, <3>1
    <3>3. QED
      BY <3>1, <3>2
  <2>5. QED
    BY <2>1, <2>2, <2>3, <2>4
<1>18. RowLens' = [row \in Ids |-> IF row \in rows THEN 0
                                   ELSE IF row \in run THEN RowLens[row] + 1 ELSE RowLens[row]]
  <2>1. RowLens' = [row \in Ids |-> RowLens'[row]]
    BY DEF RowLens
  <2>2. QED
    BY <1>17, <2>1
<1>19. QED
  BY <1>14, <1>16, <1>18

LEMMA CompleteUpdates ==
  ASSUME DevInv, Complete
  PROVE  /\ Finished' \ Finished = Done
         /\ BMP!UpdateAndFree(RowsOf(Done, rid))
<1>1. IInv /\ QueuedHold /\ IterBatches
  BY RowsHeld DEF DevInv
<1>2. /\ Ran \subseteq Holders /\ Done \subseteq Ran /\ Finished' = Finished \cup Done
  BY <1>1, Answers
<1>3. Finished' \ Finished = Done
  BY <1>2 DEF Holders
<1>4. pc = "exec" /\ pc' = "sched"
  BY DEF Complete
<1>5. /\ gpu' = BM!Free(gpu, RowsOf(Done, rid), 0) /\ cpu' = BM!Free(cpu, RowsOf(Done, rid), 0)
  BY DEF Complete, RowsOf, Done, Ran
<1>6. /\ gpu' = BMP!Free(gpu, RowsOf(Done, rid), 0) /\ cpu' = BMP!Free(cpu, RowsOf(Done, rid), 0)
  BY <1>5, SameFree
<1>7. BMP!Reqs(RowBatches(iter.batches, rid)) = RowsOf(Ran, rid)
  <2>1. /\ \A r \in Holders : rid[r] \in Ids
        /\ \A r, q \in Holders : rid[r] = rid[q] => r = q
    BY <1>1 DEF QueuedHold
  <2>2. BatchesIn(Holders, iter.batches)
    BY <1>1, <1>4 DEF IterBatches
  <2>3. Ran = ToSet(Running(iter.batches))
    BY DEF Ran, IterReqs, Running
  <2>4. PICK H, rows : H = Holders /\ rows = RowBatches(iter.batches, rid)
    OBVIOUS
  <2>5. OwnRows(H, rid)
    BY <2>1, <2>4 DEF OwnRows
  <2>6. BatchesIn(H, iter.batches)
    BY <2>2, <2>4
  <2>7. rows = RowBatches(iter.batches, rid)
    BY <2>4
  <2>8. BMP!Reqs(rows) = RowsOf(ToSet(Running(iter.batches)), rid)
    BY ONLY <2>5, <2>6, <2>7, BatchesRows
  <2>9. QED
    BY <2>3, <2>4, <2>8
<1>8. /\ RowsOf(Done, rid) \subseteq RowsOf(Ran, rid)
      /\ \A row \in RowsOf(Ran, rid) \ RowsOf(Done, rid) : RowLens[row] + 1 < MaxLen
      /\ RowLens' = [row \in Ids |-> IF row \in RowsOf(Done, rid) THEN 0
                                     ELSE IF row \in RowsOf(Ran, rid) THEN RowLens[row] + 1
                                     ELSE RowLens[row]]
  BY CompleteLens
<1>9. BMP!UpdateAndFree(RowsOf(Done, rid))
  BY <1>4, <1>6, <1>7, <1>8 DEF BMP!UpdateAndFree
<1>10. QED
  BY <1>3, <1>9

(* The rows that keep blocks when some are given back.                     *)
LEMMA FreedRows ==
  ASSUME NEW d, NEW S, NEW n, BMP!DeviceType(d, n), d.ok
  PROVE  \A row \in Ids : BMP!Free(d, S, 0).table[row] = IF row \in S THEN << >> ELSE d.table[row]
<1>1. d = [table |-> d.table, free |-> d.free, nfree |-> d.nfree, ok |-> d.ok]
  BY DEF BMP!DeviceType
<1>2. BMP!Free(d, S, 0).table = [row \in Ids |-> IF row \in S THEN << >> ELSE d.table[row]]
  BY <1>1 DEF BMP!Free
<1>3. QED
  BY <1>2

LEMMA CompleteDev ==
  ASSUME DevInv, IInv', Complete
  PROVE  DevInv'
<1>1. IInv /\ Fits /\ QueuedHold /\ BMP!IInv /\ QueuesMatchDevices
  BY RowsHeld DEF DevInv
<1>2. /\ Ran \subseteq Holders /\ Done \subseteq Ran /\ Arrived' = Arrived
      /\ \A r \in Reqs : olen'[r] = IF r \in Ran THEN olen[r] + 1 ELSE olen[r]
      /\ ToSet(gpuq') = ToSet(gpuq) \ Done /\ ToSet(cpuq') = ToSet(cpuq) \ Done
  BY <1>1, Answers
<1>3. rid' = rid /\ plen' = plen /\ mlen' = mlen /\ pc' = "sched"
  BY DEF Complete
<1>4. BMP!UpdateAndFree(RowsOf(Done, rid))
  BY CompleteUpdates
<1>5. BMP!IInv'
  BY <1>1, <1>4, Updates
<1>6. Fits'
  BY <1>1, <1>2, <1>3 DEF Fits, Holders
<1>7. IterBatches'
  BY <1>3 DEF IterBatches
<1>8. QueuesMatchDevices'
  <2>1. /\ BMP!DeviceType(gpu, NumGpu) /\ gpu.ok /\ BMP!DeviceType(cpu, NumCpu) /\ cpu.ok
    BY <1>1 DEF BMP!IInv, BMP!TypeOK
  <2>2. /\ gpu' = BMP!Free(gpu, RowsOf(Done, rid), 0) /\ cpu' = BMP!Free(cpu, RowsOf(Done, rid), 0)
    BY <1>4 DEF BMP!UpdateAndFree
  <2>3. \A row \in Ids :
          /\ gpu'.table[row] = IF row \in RowsOf(Done, rid) THEN << >> ELSE gpu.table[row]
          /\ cpu'.table[row] = IF row \in RowsOf(Done, rid) THEN << >> ELSE cpu.table[row]
    BY <2>1, <2>2, FreedRows
  <2>4. /\ {row \in Ids : gpu'.table[row] # << >>} = BMP!OnGpu \ RowsOf(Done, rid)
        /\ {row \in Ids : cpu'.table[row] # << >>} = BMP!OnCpu \ RowsOf(Done, rid)
    BY <2>3 DEF BMP!OnGpu, BMP!OnCpu
  <2>5. PICK G, C, D, H : G = ToSet(gpuq) /\ C = ToSet(cpuq) /\ D = Done /\ H = Holders
    OBVIOUS
  <2>6. G \subseteq H /\ C \subseteq H /\ D \subseteq H /\ \A r, q \in H : rid[r] = rid[q] => r = q
    BY <1>1, <1>2, <2>5 DEF QueuedHold
  <2>7. /\ RowsOf(G \ D, rid) = RowsOf(G, rid) \ RowsOf(D, rid)
        /\ RowsOf(C \ D, rid) = RowsOf(C, rid) \ RowsOf(D, rid)
    BY <2>6 DEF RowsOf
  <2>8. RowsOf(G, rid) = BMP!OnGpu /\ RowsOf(C, rid) = BMP!OnCpu
    BY <1>1, <2>5, Matching
  <2>9. QED
    BY <1>2, <1>3, <2>4, <2>5, <2>7, <2>8, MatchingNext
<1>9. QED
  BY <1>5, <1>6, <1>7, <1>8 DEF DevInv

-----------------------------------------------------------------------------
(* Schedule: the first n waiting requests, those of F, are given ids, and  *)
(* with those that have one already they are G.                            *)
Start(n, id, F, G) ==
  /\ n \in 0 .. Len(waiting) /\ n <= Len(avail) /\ id = GivenIds(n)
  /\ F = ToSet(First(waiting, n)) /\ G = Holders \cup F

(* Each then has a row that no other of G has.                             *)
LEMMA StartRows ==
  ASSUME IInv, Fits, NEW n, NEW id, NEW F, NEW G, Start(n, id, F, G)
  PROVE  /\ F \subseteq Arrived \ Finished /\ Holders \cap F = {} /\ G \subseteq Reqs
         /\ \A r \in Holders : id[r] = rid[r]
         /\ \A r \in F : id[r] # -1 /\ SeqLen[r] = plen[r]
         /\ \A r \in Reqs \ F : id[r] = rid[r]
         /\ OwnRows(G, id)
<1>1. /\ waiting \in Seq(Reqs) /\ avail \in Seq(Ids) /\ rid \in [Reqs -> Ids \cup {-1}]
  BY DEF IInv, QueueTypes
<1>2. Separate(waiting, gpuq, cpuq, Arrived \ Finished)
  BY NothingLostIs DEF IInv, QueueTypes
<1>3. IsInjective(waiting) /\ ToSet(waiting) \subseteq Arrived \ Finished
  BY <1>2 DEF Separate
<1>4. /\ n \in 0 .. Len(waiting) /\ n <= Len(avail) /\ id = GivenIds(n)
      /\ F = ToSet(First(waiting, n)) /\ G = Holders \cup F
  BY DEF Start
<1>5. /\ F = {waiting[i] : i \in 1 .. n} /\ F \subseteq Reqs
      /\ \A i \in 1 .. n : id[waiting[i]] = avail[i]
      /\ \A r \in Reqs \ F : id[r] = rid[r]
  BY <1>1, <1>3, <1>4, GivenIdsGive
<1>6. /\ \A i \in 1 .. n : i \in DOMAIN waiting /\ i \in DOMAIN avail /\ avail[i] \in Ids
  BY <1>1, <1>4
<1>7. F \subseteq ToSet(waiting) /\ \A i \in 1 .. n : avail[i] \in ToSet(avail)
  BY <1>5, <1>6 DEF ToSet
<1>8. F \subseteq Arrived \ Finished
  BY <1>3, <1>7
<1>9. \A r \in F : rid[r] = -1
  BY <1>7, <1>8 DEF IInv, WaitingInOrder
<1>10. Holders \cap F = {} /\ Holders \subseteq Reqs
  BY <1>9 DEF Holders
<1>11. \A r \in Holders : id[r] = rid[r]
  BY <1>5, <1>10
<1>12. -1 \notin Ids /\ \A r \in Reqs : SeqLen[r] = plen[r] + olen[r] /\ plen[r] \in Nat
  BY Lengths
<1>13. \A r \in F : id[r] # -1
  BY <1>5, <1>6, <1>12
<1>14. \A r \in F : SeqLen[r] = plen[r]
  <2>1. \A r \in F : r \in Reqs /\ olen[r] = 0
    BY <1>5, <1>9 DEF Fits
  <2>2. QED
    BY <1>12, <2>1
<1>15. \A r \in G : id[r] \in Ids
  <2>1. \A r \in Holders : rid[r] \in Ids
    BY RowsHeld DEF QueuedHold
  <2>2. QED
    BY <1>4, <1>5, <1>6, <1>11, <2>1
<1>16. \A r, q \in G : id[r] = id[q] => r = q
  <2>1. /\ \A r, q \in Holders : rid[r] = rid[q] => r = q
        /\ \A r \in Holders : rid[r] \notin ToSet(avail)
        /\ IsInjective(avail)
    BY DEF IInv, IdsExact
  <2>2. \A r \in F : id[r] \in ToSet(avail)
    BY <1>5, <1>7
  <2>3. \A r, q \in F : id[r] = id[q] => r = q
    <3>1. \A i, j \in DOMAIN avail : avail[i] = avail[j] => i = j
      BY <2>1 DEF IsInjective
    <3>2. \A i, j \in 1 .. n : avail[i] = avail[j] => i = j
      BY <1>6, <3>1
    <3>3. QED
      BY <1>5, <3>2
  <2>4. QED
    BY <1>4, <1>11, <2>1, <2>2, <2>3
<1>17. QED
  BY <1>4, <1>5, <1>8, <1>10, <1>11, <1>13, <1>14, <1>15, <1>16 DEF OwnRows

(* Schedule makes G of the holders.                                        *)
LEMMA Starts ==
  ASSUME IInv, Fits, NEW n, NEW id, id = rid', NEW F, NEW G, Start(n, id, F, G),
         plen' = plen, olen' = olen, mlen' = mlen
  PROVE  /\ Arrived' = Arrived /\ Finished' = Finished /\ SeqLen' = SeqLen
         /\ Holders' = G /\ \A r \in Reqs : rid'[r] = -1 => rid[r] = -1
<1>1. /\ F \subseteq Arrived \ Finished /\ G \subseteq Reqs
      /\ \A r \in F : id[r] # -1
      /\ \A r \in Reqs \ F : id[r] = rid[r]
      /\ G = Holders \cup F
  <2>1. G = Holders \cup F
    BY DEF Start
  <2>2. QED
    BY <2>1, StartRows
<1>2. Arrived' = Arrived
  BY DEF Arrived
<1>3. Finished' = Finished
  BY <1>2 DEF Finished
<1>4. SeqLen' = SeqLen
  BY DEF SeqLen
<1>5. Holders' = {r \in Reqs : id[r] # -1} \ Finished
  BY <1>3 DEF Holders
<1>6. \A r \in Reqs : r \in Holders' <=> r \in Holders \/ r \in F
  BY <1>1, <1>5 DEF Holders
<1>7. Holders' \subseteq Reqs
  BY <1>5
<1>8. QED
  BY <1>1, <1>2, <1>3, <1>4, <1>6, <1>7

(* The prompt lengths by row, as a call of the block manager names them.   *)
RowPrompts(id) == ByRow(Reqs \ Finished, id, plen, 1)

LEMMA StartLens ==
  ASSUME IInv, Fits, NEW n, NEW id, NEW F, NEW G, Start(n, id, F, G)
  PROVE  /\ RowLensWith(id) = ByRow(G, id, SeqLen, 0)
         /\ \A r \in G : RowLensWith(id)[id[r]] = SeqLen[r]
         /\ \A row \in RowsOf(F, id) : RowLens[row] = 0
         /\ RowLensWith(id) = [row \in Ids |-> IF row \in RowsOf(F, id) THEN RowPrompts(id)[row]
                                               ELSE RowLens[row]]
         /\ G # {} => RowPrompts(id) \in [Ids -> 1 .. (MaxLen - 1)]
<1>1. /\ F \subseteq Arrived \ Finished /\ Holders \cap F = {} /\ G \subseteq Reqs
      /\ \A r \in Holders : id[r] = rid[r]
      /\ \A r \in F : SeqLen[r] = plen[r]
      /\ \A r \in Reqs \ F : id[r] = rid[r]
      /\ G = Holders \cup F
  <2>1. G = Holders \cup F
    BY DEF Start
  <2>2. QED
    BY <2>1, StartRows
<1>2. (\A r \in G : id[r] \in Ids) /\ (\A r, q \in G : id[r] = id[q] => r = q)
  BY StartRows DEF OwnRows
<1>3. /\ \A r \in Holders : rid[r] \in Ids
      /\ \A r, q \in Holders : rid[r] = rid[q] => r = q
  BY <1>1, <1>2
<1>4. /\ -1 \notin Ids /\ Arrived \subseteq Reqs /\ Holders \subseteq Arrived \ Finished
      /\ \A r \in Reqs : plen[r] \in Nat /\ mlen[r] \in Nat
  BY Lengths
<1>5. PICK K : K = Reqs \ Finished
  OBVIOUS
<1>6. /\ G \subseteq K /\ \A r \in K \ G : id[r] \notin Ids
      /\ \A r, q \in K : id[r] \in Ids /\ id[r] = id[q] => r = q
      /\ \A r, q \in G : id[r] \in Ids /\ id[r] = id[q] => r = q
  <2>1. \A r \in K \ G : id[r] = -1
    BY <1>1, <1>5 DEF Holders
  <2>2. G \subseteq K
    BY <1>1, <1>4, <1>5
  <2>3. QED
    BY <1>2, <1>4, <2>1, <2>2
<1>7. \A val, none : ByRow(K, id, val, none) = ByRow(G, id, val, none)
  BY <1>6, SameTables
<1>8. RowLensWith(id) = ByRow(G, id, SeqLen, 0) /\ RowPrompts(id) = ByRow(G, id, plen, 1)
  <2>1. RowLensWith(id) = ByRow(K, id, SeqLen, 0)
    BY <1>5, RowTables
  <2>2. RowPrompts(id) = ByRow(K, id, plen, 1)
    BY <1>5 DEF RowPrompts
  <2>3. QED
    BY <1>7, <2>1, <2>2
<1>9. PICK lens, prompts : lens = RowLensWith(id) /\ prompts = RowPrompts(id)
  OBVIOUS
<1>10. /\ \A r \in G : lens[id[r]] = SeqLen[r] /\ prompts[id[r]] = plen[r]
       /\ \A row \in Ids : row \notin RowsOf(G, id) => lens[row] = 0 /\ prompts[row] = 1
  <2>1. \A val, none :
          /\ \A r \in G : id[r] \in Ids => ByRow(G, id, val, none)[id[r]] = val[r]
          /\ \A row \in Ids : row \notin RowsOf(G, id) => ByRow(G, id, val, none)[row] = none
    BY <1>6, ByRowIs
  <2>2. QED
    BY <1>2, <1>8, <1>9, <2>1
<1>11. /\ \A r \in Holders : RowLens[rid[r]] = SeqLen[r]
       /\ \A row \in Ids : row \notin RowsOf(Holders, rid) => RowLens[row] = 0
  BY <1>3, RowTables, ByRowIs
<1>12. \A row \in RowsOf(F, id) : RowLens[row] = 0
  <2>1. RowsOf(Holders, rid) = RowsOf(Holders, id)
    BY <1>1, SameRows
  <2>2. RowsOf(F, id) \cap RowsOf(Holders, id) = {}
    BY <1>1, <1>2 DEF RowsOf
  <2>3. RowsOf(F, id) \subseteq Ids
    BY <1>1, <1>2 DEF RowsOf
  <2>4. QED
    BY <1>11, <2>1, <2>2, <2>3
<1>13. ASSUME NEW row \in Ids
       PROVE  lens[row] = IF row \in RowsOf(F, id) THEN prompts[row] ELSE RowLens[row]
  <2>1. CASE row \in RowsOf(F, id)
    <3>1. PICK r \in F : row = id[r]
      BY <2>1 DEF RowsOf
    <3>2. lens[row] = SeqLen[r] /\ prompts[row] = plen[r]
      BY <1>1, <1>10, <3>1
    <3>3. QED
      BY <1>1, <2>1, <3>2
  <2>2. CASE row \notin RowsOf(F, id) /\ row \in RowsOf(G, id)
    <3>1. PICK r \in G : row = id[r]
      BY <2>2 DEF RowsOf
    <3>2. r \in Holders
      BY <1>1, <2>2, <3>1 DEF RowsOf
    <3>3. lens[row] = SeqLen[r] /\ RowLens[rid[r]] = SeqLen[r] /\ row = rid[r]
      BY <1>1, <1>10, <1>11, <3>1, <3>2
    <3>4. QED
      BY <2>2, <3>3
  <2>3. CASE row \notin RowsOf(G, id)
    <3>1. row \notin RowsOf(F, id) /\ row \notin RowsOf(Holders, rid)
      BY <1>1, <2>3 DEF RowsOf
    <3>2. QED
      BY <1>10, <1>11, <2>3, <3>1
  <2>4. QED
    BY <2>1, <2>2, <2>3
<1>14. lens = [row \in Ids |-> IF row \in RowsOf(F, id) THEN prompts[row] ELSE RowLens[row]]
  <2>1. lens = [row \in Ids |-> lens[row]]
    BY <1>8, <1>9 DEF ByRow
  <2>2. QED
    BY <1>13, <2>1
<1>15. G # {} => prompts \in [Ids -> 1 .. (MaxLen - 1)]
  <2> SUFFICES ASSUME G # {} PROVE prompts \in [Ids -> 1 .. (MaxLen - 1)]
    OBVIOUS
  <2>1. \A r \in G : plen[r] \in 1 .. (MaxLen - 1)
    <3> SUFFICES ASSUME NEW r \in G PROVE plen[r] \in 1 .. (MaxLen - 1)
      OBVIOUS
    <3>1. r \in Arrived /\ r \in Reqs
      BY <1>1, <1>4
    <3>2. mlen[r] > 0 /\ plen[r] + mlen[r] <= MaxLen /\ plen[r] > 0
      BY <3>1 DEF Fits, Arrived
    <3>3. MaxLen \in Nat
      BY Sizes
    <3>4. QED
      BY <1>4, <3>1, <3>2, <3>3
  <2>2. 1 \in 1 .. (MaxLen - 1)
    <3>1. PICK r \in G : TRUE
      OBVIOUS
    <3>2. plen[r] \in 1 .. (MaxLen - 1) /\ MaxLen \in Nat
      BY <2>1, Sizes
    <3>3. QED
      BY <3>2
  <2>3. ASSUME NEW row \in Ids PROVE prompts[row] \in 1 .. (MaxLen - 1)
    <3>1. CASE row \in RowsOf(G, id)
      BY <1>10, <2>1, <3>1 DEF RowsOf
    <3>2. CASE row \notin RowsOf(G, id)
      BY <1>10, <2>2, <3>2
    <3>3. QED
      BY <3>1, <3>2
  <2>4. prompts = [row \in Ids |-> prompts[row]]
    BY <1>8, <1>9 DEF ByRow
  <2>5. QED
    BY <2>3, <2>4
<1>16. QED
  BY <1>8, <1>9, <1>10, <1>12, <1>14, <1>15

(* A result res of get_next_batch with which requests are chosen: those of *)
(* c start for the CPU and those of p for the GPU, once the swaps have     *)
(* made gq and cq of the queues of decodes.                                *)
Chosen(res, n, id, F, G, c, p, gq, cq) ==
  /\ Start(n, id, F, G) /\ G # {}
  /\ res.swapOut = << >> \/ res.swapIn = << >>
  /\ Moves(Reqs, gpuq, cpuq, res.swapOut, res.swapIn, gq, cq)
  /\ ToSet(p) \cup ToSet(c) = F
  /\ DOMAIN res.batches = 1 .. Len(res.batches) /\ Len(res.batches) \in {1, 2}
  /\ \A k \in 1 .. Len(res.batches) : Within(Reqs, res.batches[k], c, p, gq, cq)
  /\ res.batches[1].cprf = c /\ res.batches[1].gprf = p
  /\ IsInjective(Running(res.batches))

LEMMA SeqOn ==
  ASSUME NEW R, NEW H, NEW q, q \in Seq(R), ToSet(q) \subseteq H
  PROVE  q \in Seq(H)
<1>1. DOMAIN q = 1 .. Len(q) /\ Len(q) \in Nat /\ q = [i \in 1 .. Len(q) |-> q[i]]
  OBVIOUS
<1>2. \A i \in 1 .. Len(q) : q[i] \in H
  BY <1>1 DEF ToSet
<1>3. QED
  BY <1>1, <1>2

LEMMA ChosenSets ==
  ASSUME IInv, Fits, NEW res, NEW n, NEW id, NEW F, NEW G, NEW c, NEW p, NEW gq, NEW cq,
         Chosen(res, n, id, F, G, c, p, gq, cq)
  PROVE  /\ res.swapOut \in Seq(Holders) /\ IsInjective(res.swapOut)
         /\ res.swapIn \in Seq(Holders) /\ IsInjective(res.swapIn)
         /\ ToSet(res.swapOut) \subseteq ToSet(gpuq) /\ ToSet(res.swapIn) \subseteq ToSet(cpuq)
         /\ ToSet(gq) = (ToSet(gpuq) \ ToSet(res.swapOut)) \cup ToSet(res.swapIn)
         /\ ToSet(cq) = (ToSet(cpuq) \ ToSet(res.swapIn)) \cup ToSet(res.swapOut)
         /\ ToSet(gq) \subseteq Holders /\ ToSet(cq) \subseteq Holders
         /\ ToSet(p) \subseteq G /\ ToSet(c) \subseteq G /\ Holders \subseteq G
         /\ BatchesIn(G, res.batches)
<1>1. ToSet(gpuq) \cup ToSet(cpuq) = Holders /\ ToSet(gpuq) \cap ToSet(cpuq) = {}
  BY RowsHeld DEF QueuedHold
<1>2. Moves(Reqs, gpuq, cpuq, res.swapOut, res.swapIn, gq, cq)
  BY DEF Chosen
<1> DEFINE o == ToSet(res.swapOut)
           b == ToSet(res.swapIn)
<1>3. o = {} \/ b = {}
  BY DEF Chosen, ToSet
<1>4. /\ res.swapOut \in Seq(Reqs) /\ res.swapIn \in Seq(Reqs)
      /\ IsInjective(res.swapOut) /\ IsInjective(res.swapIn)
      /\ o \subseteq ToSet(gpuq) /\ b \subseteq ToSet(cpuq) \cup o
      /\ ToSet(gq) = (ToSet(gpuq) \ o) \cup b /\ ToSet(cq) = (ToSet(cpuq) \cup o) \ b
  BY <1>2 DEF Moves
<1> HIDE DEF o, b
<1>5. /\ b \subseteq ToSet(cpuq) /\ ToSet(cq) = (ToSet(cpuq) \ b) \cup o
      /\ ToSet(gq) \subseteq Holders /\ ToSet(cq) \subseteq Holders
      /\ o \subseteq Holders /\ b \subseteq Holders
  BY <1>1, <1>3, <1>4
<1>6. res.swapOut \in Seq(Holders) /\ res.swapIn \in Seq(Holders)
  BY <1>4, <1>5, SeqOn DEF o, b
<1>7. G = Holders \cup F /\ ToSet(p) \cup ToSet(c) = F
  BY DEF Chosen, Start
<1>8. BatchesIn(G, res.batches)
  <2>1. DOMAIN res.batches = 1 .. Len(res.batches) /\ Len(res.batches) \in {1, 2}
    BY DEF Chosen
  <2>2. ASSUME NEW k \in 1 .. Len(res.batches) PROVE BatchIn(G, res.batches[k])
    <3>1. PICK x : x = res.batches[k]
      OBVIOUS
    <3>2. Within(Reqs, x, c, p, gq, cq)
      BY <3>1 DEF Chosen
    <3>3. /\ x = Batch(x.cprf, x.gprf, x.gdec, x.cdec)
          /\ x.cprf \in Seq(Reqs) /\ x.gprf \in Seq(Reqs)
          /\ x.gdec \in Seq(Reqs) /\ x.cdec \in Seq(Reqs)
          /\ ToSet(x.cprf) \subseteq G /\ ToSet(x.gprf) \subseteq G
          /\ ToSet(x.gdec) \subseteq G /\ ToSet(x.cdec) \subseteq G
      BY <1>5, <1>7, <3>1, <3>2 DEF Within
    <3>4. x.cprf \in Seq(G) /\ x.gprf \in Seq(G) /\ x.gdec \in Seq(G) /\ x.cdec \in Seq(G)
      BY <3>3, SeqOn
    <3>5. BatchIn(G, x)
      BY <3>3, <3>4 DEF BatchIn
    <3>6. QED
      BY <3>1, <3>5
  <2>3. QED
    BY <2>1, <2>2 DEF BatchesIn
<1>9. QED
  BY <1>4, <1>5, <1>6, <1>7, <1>8 DEF o, b

(* What the event loop then asks of the block manager, as the block        *)
(* manager's module names it: a legal call, which places the KV as the     *)
(* queues are to tell.                                                     *)
CallFor(res, id) ==
  [batches |-> RowBatches(res.batches, id),
   swapOut |-> Rows(res.swapOut, id), swapIn |-> Rows(res.swapIn, id),
   prompt |-> RowPrompts(id)]

LEMMA ChosenPlaces ==
  ASSUME IInv, Fits, QueuesMatchDevices,
         NEW res, NEW n, NEW id, NEW F, NEW G, NEW c, NEW p, NEW gq, NEW cq,
         Chosen(res, n, id, F, G, c, p, gq, cq), NEW call, call = CallFor(res, id)
  PROVE  /\ BMP!LegalCall(call)
         /\ (BMP!OnGpu \ BMP!Elems(call.swapOut)) \cup BMP!Elems(call.swapIn) = RowsOf(ToSet(gq), id)
         /\ (BMP!OnCpu \ BMP!Elems(call.swapIn)) \cup BMP!Elems(call.swapOut) = RowsOf(ToSet(cq), id)
         /\ BMP!Gprfs(call) = RowsOf(ToSet(p), id) /\ BMP!Cprfs(call) = RowsOf(ToSet(c), id)
         /\ BMP!LensWith(call) = RowLensWith(id)
<1>1. Start(n, id, F, G) /\ G # {}
  BY DEF Chosen
<1>2. OwnRows(G, id) /\ \A r \in Holders : id[r] = rid[r]
  BY <1>1, StartRows
<1>3. PICK H : H = Holders
  OBVIOUS
<1>4. /\ \A r \in H : rid[r] \in Ids
      /\ \A r, q \in H : rid[r] = rid[q] => r = q
      /\ \A r \in G : id[r] \in Ids
      /\ \A r, q \in G : id[r] = id[q] => r = q
      /\ ToSet(gpuq) \subseteq H /\ ToSet(cpuq) \subseteq H /\ ToSet(gpuq) \cap ToSet(cpuq) = {}
  BY <1>2, <1>3, RowsHeld DEF QueuedHold, OwnRows
<1>5. /\ res.swapOut \in Seq(H) /\ IsInjective(res.swapOut)
      /\ res.swapIn \in Seq(H) /\ IsInjective(res.swapIn)
      /\ ToSet(res.swapOut) \subseteq ToSet(gpuq) /\ ToSet(res.swapIn) \subseteq ToSet(cpuq)
      /\ ToSet(gq) = (ToSet(gpuq) \ ToSet(res.swapOut)) \cup ToSet(res.swapIn)
      /\ ToSet(cq) = (ToSet(cpuq) \ ToSet(res.swapIn)) \cup ToSet(res.swapOut)
      /\ ToSet(gq) \subseteq H /\ ToSet(cq) \subseteq H
      /\ ToSet(p) \subseteq G /\ ToSet(c) \subseteq G /\ H \subseteq G
      /\ BatchesIn(G, res.batches)
  BY <1>3, ChosenSets
<1>6. ToSet(p) \cup ToSet(c) = F
  BY DEF Chosen
<1>7. \A r \in H : id[r] = rid[r]
  BY <1>2, <1>3
<1>8. /\ \A row \in RowsOf(F, id) : RowLens[row] = 0
      /\ RowPrompts(id) \in [Ids -> 1 .. (MaxLen - 1)]
      /\ RowLensWith(id) = [row \in Ids |-> IF row \in RowsOf(F, id) THEN RowPrompts(id)[row]
                                            ELSE RowLens[row]]
  BY <1>1, StartLens
<1>9. QueuesMatchDevices
  OBVIOUS
<1>10. PICK rows, out, back :
         rows = RowBatches(res.batches, id) /\ out = Rows(res.swapOut, id) /\ back = Rows(res.swapIn, id)
  OBVIOUS
<1>11. call.batches = rows /\ call.swapOut = out /\ call.swapIn = back /\ call.prompt = RowPrompts(id)
  BY <1>10 DEF CallFor
<1>12. /\ out \in Seq(Ids) /\ BMP!Elems(out) = RowsOf(ToSet(res.swapOut), id) /\ BMP!Distinct(out)
       /\ back \in Seq(Ids) /\ BMP!Elems(back) = RowsOf(ToSet(res.swapIn), id) /\ BMP!Distinct(back)
  <2>1. OwnRows(H, id)
    BY <1>4, <1>5 DEF OwnRows
  <2>2. \A q \in Seq(H) : /\ Rows(q, id) \in Seq(Ids) /\ BMP!Elems(Rows(q, id)) = RowsOf(ToSet(q), id)
                          /\ IsInjective(q) => BMP!Distinct(Rows(q, id))
    BY <2>1, RowList
  <2>3. QED
    BY <1>5, <1>10, <2>2
<1>13. BMP!OnGpu = RowsOf(ToSet(gpuq), id) /\ BMP!OnCpu = RowsOf(ToSet(cpuq), id)
  <2>1. RowsOf(ToSet(gpuq), rid) = BMP!OnGpu /\ RowsOf(ToSet(cpuq), rid) = BMP!OnCpu
    BY <1>9, Matching
  <2>2. \A S : S \subseteq H => RowsOf(S, rid) = RowsOf(S, id)
    BY <1>7 DEF RowsOf
  <2>3. QED
    BY <1>4, <2>1, <2>2
<1>14. /\ \A S, T : S \subseteq T => RowsOf(S, id) \subseteq RowsOf(T, id)
       /\ \A S, T : S \subseteq G /\ T \subseteq G =>
            /\ RowsOf(S \cup T, id) = RowsOf(S, id) \cup RowsOf(T, id)
            /\ RowsOf(S \ T, id) = RowsOf(S, id) \ RowsOf(T, id)
            /\ S \cap T = {} => RowsOf(S, id) \cap RowsOf(T, id) = {}
  <2>1. \A r, q \in G : id[r] = id[q] => r = q
    BY <1>4
  <2>2. QED
    BY ONLY <2>1 DEF RowsOf
<1>15. PICK g, x, o, b : g = ToSet(gpuq) /\ x = ToSet(cpuq) /\ o = ToSet(res.swapOut) /\ b = ToSet(res.swapIn)
  OBVIOUS
<1>16. /\ o \subseteq g /\ b \subseteq x /\ g \subseteq G /\ x \subseteq G
       /\ ToSet(gq) = (g \ o) \cup b /\ ToSet(cq) = (x \ b) \cup o
  BY <1>4, <1>5, <1>15
<1>17. /\ (BMP!OnGpu \ BMP!Elems(out)) \cup BMP!Elems(back) = RowsOf(ToSet(gq), id)
       /\ (BMP!OnCpu \ BMP!Elems(back)) \cup BMP!Elems(out) = RowsOf(ToSet(cq), id)
       /\ BMP!Elems(out) \subseteq BMP!OnGpu /\ BMP!Elems(back) \subseteq BMP!OnCpu
  <2>1. /\ RowsOf((g \ o) \cup b, id) = (RowsOf(g, id) \ RowsOf(o, id)) \cup RowsOf(b, id)
        /\ RowsOf((x \ b) \cup o, id) = (RowsOf(x, id) \ RowsOf(b, id)) \cup RowsOf(o, id)
        /\ RowsOf(o, id) \subseteq RowsOf(g, id) /\ RowsOf(b, id) \subseteq RowsOf(x, id)
    <3>1. g \ o \subseteq G /\ x \ b \subseteq G /\ o \subseteq G /\ b \subseteq G
      BY <1>16
    <3>2. /\ RowsOf((g \ o) \cup b, id) = RowsOf(g \ o, id) \cup RowsOf(b, id)
          /\ RowsOf((x \ b) \cup o, id) = RowsOf(x \ b, id) \cup RowsOf(o, id)
      BY <1>14, <3>1
    <3>3. /\ RowsOf(g \ o, id) = RowsOf(g, id) \ RowsOf(o, id)
          /\ RowsOf(x \ b, id) = RowsOf(x, id) \ RowsOf(b, id)
      BY <1>14, <1>16, <3>1
    <3>4. RowsOf(o, id) \subseteq RowsOf(g, id) /\ RowsOf(b, id) \subseteq RowsOf(x, id)
      BY <1>14, <1>16
    <3>5. QED
      BY <3>2, <3>3, <3>4
  <2>2. QED
    BY <1>12, <1>13, <1>15, <1>16, <2>1
<1>18. /\ Len(rows) = Len(res.batches) /\ rows \in Seq({rows[k] : k \in 1 .. Len(rows)})
       /\ \A k \in 1 .. Len(res.batches) : rows[k] = RowBatch(res.batches[k], id)
  <2>1. PICK batches : batches = res.batches
    OBVIOUS
  <2>2. BatchesIn(G, batches)
    BY <1>5, <2>1
  <2>3. rows = RowBatches(batches, id)
    BY <1>10, <2>1
  <2>4. Len(rows) = Len(batches)
    BY ONLY <2>2, <2>3, RowBatchList
  <2>5. rows \in Seq({rows[k] : k \in 1 .. Len(rows)})
    BY ONLY <2>2, <2>3, RowBatchList
  <2>6. \A k \in 1 .. Len(batches) : rows[k] = RowBatch(batches[k], id)
    BY ONLY <2>2, <2>3, RowBatchList
  <2>7. QED
    BY <2>1, <2>4, <2>5, <2>6
<1>19. ASSUME NEW k \in 1 .. Len(rows)
       PROVE  LET y == res.batches[k]
              IN /\ BMP!BatchType(rows[k])
                 /\ BMP!Elems(BMP!AllReqs(rows[k])) = RowsOf(ToSet(BatchReqs(y)), id)
                 /\ IsInjective(BatchReqs(y)) => BMP!Distinct(BMP!AllReqs(rows[k]))
                 /\ BMP!Prefs(rows[k]) = RowsOf(ToSet(y.cprf) \cup ToSet(y.gprf), id)
                 /\ BMP!Elems(rows[k].cprf) = RowsOf(ToSet(y.cprf), id)
                 /\ BMP!Elems(rows[k].gprf) = RowsOf(ToSet(y.gprf), id)
                 /\ BMP!Elems(rows[k].gdec) = RowsOf(ToSet(y.gdec), id)
                 /\ BMP!Elems(rows[k].cdec) = RowsOf(ToSet(y.cdec), id)
                 /\ BatchReqs(y) \in Seq(G)
  <2>1. PICK y : y = res.batches[k]
    OBVIOUS
  <2>2. BatchIn(G, y) /\ rows[k] = RowBatch(y, id)
    BY <1>5, <1>18, <2>1 DEF BatchesIn
  <2>3. OwnRows(G, id)
    BY <1>4 DEF OwnRows
  <2>4. BatchIn(G, y)
    BY <2>2
  <2>5. /\ BMP!BatchType(RowBatch(y, id))
        /\ BatchReqs(y) \in Seq(G)
        /\ BMP!Elems(BMP!AllReqs(RowBatch(y, id))) = RowsOf(ToSet(BatchReqs(y)), id)
        /\ IsInjective(BatchReqs(y)) => BMP!Distinct(BMP!AllReqs(RowBatch(y, id)))
        /\ BMP!Prefs(RowBatch(y, id)) = RowsOf(ToSet(y.cprf) \cup ToSet(y.gprf), id)
        /\ BMP!Elems(RowBatch(y, id).cprf) = RowsOf(ToSet(y.cprf), id)
        /\ BMP!Elems(RowBatch(y, id).gprf) = RowsOf(ToSet(y.gprf), id)
        /\ BMP!Elems(RowBatch(y, id).gdec) = RowsOf(ToSet(y.gdec), id)
        /\ BMP!Elems(RowBatch(y, id).cdec) = RowsOf(ToSet(y.cdec), id)
    BY ONLY <2>3, <2>4, BatchRows
  <2>6. QED
    BY <2>1, <2>2, <2>5
<1>20. \A k \in 1 .. Len(rows) :
         /\ ToSet(res.batches[k].cprf) \subseteq ToSet(c) /\ ToSet(res.batches[k].gprf) \subseteq ToSet(p)
         /\ ToSet(res.batches[k].gdec) \subseteq ToSet(gq) /\ ToSet(res.batches[k].cdec) \subseteq ToSet(cq)
  BY <1>18 DEF Chosen, Within
<1>21. /\ 1 \in 1 .. Len(rows) /\ res.batches[1].cprf = c /\ res.batches[1].gprf = p
       /\ IsInjective(Running(res.batches))
  BY <1>18 DEF Chosen
<1>22. F \subseteq G
  BY <1>5, <1>6
<1>23. \A k \in 1 .. Len(rows) : ToSet(BatchReqs(res.batches[k])) \subseteq G
  <2>1. \A q \in Seq(G) : ToSet(q) \subseteq G
    BY DEF ToSet
  <2>2. QED
    BY <1>19, <2>1
<1>24. /\ \A k \in 1 .. Len(rows) : IsInjective(BatchReqs(res.batches[k]))
       /\ \A k, l \in 1 .. Len(rows) :
            k # l => ToSet(BatchReqs(res.batches[k])) \cap ToSet(BatchReqs(res.batches[l])) = {}
  <2>1. PICK batches : batches = res.batches
    OBVIOUS
  <2>2. BatchesIn(G, batches)
    BY <1>5, <2>1
  <2>3. /\ IsInjective(Running(batches)) =>
             /\ \A k \in 1 .. Len(batches) : IsInjective(BatchReqs(batches[k]))
             /\ \A k, l \in 1 .. Len(batches) :
                  k # l => ToSet(BatchReqs(batches[k])) \cap ToSet(BatchReqs(batches[l])) = {}
    BY ONLY <2>2, BatchesApart
  <2>4. QED
    BY <1>18, <1>21, <2>1, <2>3
<1>25. PICK onGpu, onCpu : /\ onGpu = (BMP!OnGpu \ BMP!Elems(out)) \cup BMP!Elems(back)
                           /\ onCpu = (BMP!OnCpu \ BMP!Elems(back)) \cup BMP!Elems(out)
  OBVIOUS
<1>26. onGpu = RowsOf(ToSet(gq), id) /\ onCpu = RowsOf(ToSet(cq), id)
  BY <1>17, <1>25
<1>27. ASSUME NEW k \in 1 .. Len(rows)
       PROVE  /\ BMP!BatchType(rows[k]) /\ BMP!Distinct(BMP!AllReqs(rows[k]))
              /\ BMP!Prefs(rows[k]) \subseteq BMP!Unused
              /\ BMP!Elems(rows[k].gdec) \subseteq onGpu /\ BMP!Elems(rows[k].cdec) \subseteq onCpu
  <2>1. BMP!BatchType(rows[k]) /\ BMP!Distinct(BMP!AllReqs(rows[k]))
    BY <1>19, <1>24
  <2>2. /\ BMP!Elems(rows[k].gdec) = RowsOf(ToSet(res.batches[k].gdec), id)
        /\ BMP!Elems(rows[k].cdec) = RowsOf(ToSet(res.batches[k].cdec), id)
        /\ BMP!Prefs(rows[k]) =
             RowsOf(ToSet(res.batches[k].cprf) \cup ToSet(res.batches[k].gprf), id)
    BY <1>19
  <2>3. BMP!Elems(rows[k].gdec) \subseteq onGpu /\ BMP!Elems(rows[k].cdec) \subseteq onCpu
    BY <1>14, <1>20, <1>26, <2>2
  <2>4. ToSet(res.batches[k].cprf) \cup ToSet(res.batches[k].gprf) \subseteq F
    BY <1>6, <1>20
  <2>5. F \subseteq G
    BY <1>22
  <2>6. BMP!Prefs(rows[k]) \subseteq RowsOf(F, id)
    BY <1>14, <2>2, <2>4
  <2>7. RowsOf(F, id) \subseteq Ids
    BY <1>4, <2>5 DEF RowsOf
  <2>8. BMP!Prefs(rows[k]) \subseteq BMP!Unused
    BY <1>8, <2>6, <2>7 DEF BMP!Unused
  <2>9. QED
    BY <2>1, <2>3, <2>8
<1>28. ASSUME NEW k \in 1 .. Len(rows), NEW l \in 1 .. Len(rows), k # l
       PROVE  BMP!Elems(BMP!AllReqs(rows[k])) \cap BMP!Elems(BMP!AllReqs(rows[l])) = {}
  <2>1. PICK u, v : u = ToSet(BatchReqs(res.batches[k])) /\ v = ToSet(BatchReqs(res.batches[l]))
    OBVIOUS
  <2>2. u \subseteq G /\ v \subseteq G /\ u \cap v = {}
    BY <1>23, <1>24, <1>28, <2>1
  <2>3. RowsOf(u, id) \cap RowsOf(v, id) = {}
    BY <1>14, <2>2
  <2>4. QED
    BY <1>19, <2>1, <2>3
<1>29. BMP!LegalCall(call)
  <2>1. /\ out \in Seq(Ids) /\ back \in Seq(Ids) /\ BMP!Distinct(out) /\ BMP!Distinct(back)
        /\ BMP!Elems(out) \subseteq BMP!OnGpu /\ BMP!Elems(back) \subseteq BMP!OnCpu
    BY <1>12, <1>17
  <2>2. call.prompt \in [Ids -> 1 .. (MaxLen - 1)]
    BY <1>8, <1>11
  <2>3. call.batches \in Seq({call.batches[k] : k \in 1 .. Len(call.batches)})
    BY <1>11, <1>18
  <2>4. \A k \in 1 .. Len(call.batches) :
          /\ BMP!BatchType(call.batches[k]) /\ BMP!Distinct(BMP!AllReqs(call.batches[k]))
          /\ BMP!Prefs(call.batches[k]) \subseteq BMP!Unused
          /\ BMP!Elems(call.batches[k].gdec) \subseteq
               (BMP!OnGpu \ BMP!Elems(call.swapOut)) \cup BMP!Elems(call.swapIn)
          /\ BMP!Elems(call.batches[k].cdec) \subseteq
               (BMP!OnCpu \ BMP!Elems(call.swapIn)) \cup BMP!Elems(call.swapOut)
    BY <1>11, <1>25, <1>27
  <2>5. \A k, l \in 1 .. Len(call.batches) :
          k # l => BMP!Elems(BMP!AllReqs(call.batches[k])) \cap
                     BMP!Elems(BMP!AllReqs(call.batches[l])) = {}
    BY <1>11, <1>28
  <2>6. /\ call.swapOut \in Seq(Ids) /\ call.swapIn \in Seq(Ids)
        /\ BMP!Distinct(call.swapOut) /\ BMP!Distinct(call.swapIn)
        /\ BMP!Elems(call.swapOut) \subseteq BMP!OnGpu /\ BMP!Elems(call.swapIn) \subseteq BMP!OnCpu
    BY <1>11, <2>1
  <2>7. QED
    BY ONLY <2>2, <2>3, <2>4, <2>5, <2>6 DEF BMP!LegalCall
<1>30. \A k \in 1 .. Len(rows) :
         /\ BMP!Elems(rows[k].gprf) = RowsOf(ToSet(res.batches[k].gprf), id)
         /\ BMP!Elems(rows[k].cprf) = RowsOf(ToSet(res.batches[k].cprf), id)
  BY <1>19
<1>31. BMP!Gprfs(call) = RowsOf(ToSet(p), id)
  <2>1. \A y : y \in BMP!Gprfs(call) <=> \E k \in 1 .. Len(rows) : y \in BMP!Elems(rows[k].gprf)
    BY <1>11 DEF BMP!Gprfs
  <2>2. \A k \in 1 .. Len(rows) : BMP!Elems(rows[k].gprf) \subseteq RowsOf(ToSet(p), id)
    BY <1>14, <1>20, <1>30
  <2>3. BMP!Elems(rows[1].gprf) = RowsOf(ToSet(p), id)
    BY <1>21, <1>30
  <2>4. QED
    BY <1>21, <2>1, <2>2, <2>3
<1>32. BMP!Cprfs(call) = RowsOf(ToSet(c), id)
  <2>1. \A y : y \in BMP!Cprfs(call) <=> \E k \in 1 .. Len(rows) : y \in BMP!Elems(rows[k].cprf)
    BY <1>11 DEF BMP!Cprfs
  <2>2. \A k \in 1 .. Len(rows) : BMP!Elems(rows[k].cprf) \subseteq RowsOf(ToSet(c), id)
    BY <1>14, <1>20, <1>30
  <2>3. BMP!Elems(rows[1].cprf) = RowsOf(ToSet(c), id)
    BY <1>21, <1>30
  <2>4. QED
    BY <1>21, <2>1, <2>2, <2>3
<1>33. BMP!LensWith(call) = RowLensWith(id)
  <2>1. BMP!Prefilled(call.batches) = BMP!Gprfs(call) \cup BMP!Cprfs(call)
    BY <1>29, Sizes, BMP!CallPrompts
  <2>2. RowsOf(ToSet(p), id) \cup RowsOf(ToSet(c), id) = RowsOf(ToSet(p) \cup ToSet(c), id)
    BY DEF RowsOf
  <2>3. BMP!Prefilled(call.batches) = RowsOf(F, id)
    BY <1>6, <1>31, <1>32, <2>1, <2>2
  <2>4. QED
    BY <1>8, <1>11, <2>3 DEF BMP!LensWith
<1>34. QED
  BY <1>11, <1>17, <1>29, <1>31, <1>32, <1>33

(* What the event loop then does, in the block manager's words.            *)
LEMMA CallDoes ==
  ASSUME NEW res, NEW id, NEW call, call = CallFor(res, id), BMP!LensWith(call) = RowLensWith(id)
  PROVE  /\ PrepareAsserts(res, id) <=>
              BMP!PrepareAsserts(call.batches, call.swapOut, call.swapIn, BMP!LensWith(call))
         /\ PreparedDevices(res, id) = BMP!Prepared(call)
<1>1. /\ call.batches = RowBatches(res.batches, id) /\ call.swapOut = Rows(res.swapOut, id)
      /\ call.swapIn = Rows(res.swapIn, id)
  BY DEF CallFor
<1>2. PrepareAsserts(res, id) <=>
        BM!PrepareAsserts(call.batches, call.swapOut, call.swapIn, BMP!LensWith(call))
  BY <1>1 DEF PrepareAsserts
<1>3. PreparedDevices(res, id) =
        BM!PreparedDevices([gpu |-> gpu, cpu |-> cpu], call.batches, call.swapOut, call.swapIn,
                           BMP!LensWith(call))
  BY <1>1 DEF PreparedDevices
<1>4. QED
  BY <1>2, <1>3, SameAsserts, SameDevices DEF BMP!Prepared

(* A result of get_next_batch that runs something chooses its requests.    *)
LEMMA Chooses ==
  ASSUME IInv, Fits, NEW mode, NEW res \in NextBatches(mode), res.ok, res.batches # << >>,
         res.swapOut = << >> \/ res.swapIn = << >>, BatchReqs(res.batches[1]) # << >>,
         NEW c, NEW p, NEW gq, NEW cq, Placing(Reqs, Snapshot, res, c, p, gq, cq),
         NEW n, n = NumPrefs(res.batches), NEW F, F = ToSet(First(waiting, n)),
         NEW G, G = Holders \cup F
  PROVE  Chosen(res, n, GivenIds(n), F, G, c, p, gq, cq)
<1>1. res \in NextBatchNew(Snapshot) \cup NextBatchOld(Snapshot)
  BY DEF NextBatches
<1>2. numGpuBlocks \in Nat /\ QueueTypes /\ NoRequestLost
  BY DEF IInv, QueueTypes
<1>3. Orderly(Reqs, Snapshot)
  BY <1>2, SnapshotOrderly
<1>4. Promised(Reqs, Snapshot, res)
  BY <1>1, <1>2, <1>3, SchedulerPromise
<1>5. /\ Snapshot.waiting = waiting /\ Snapshot.gpuq = gpuq /\ Snapshot.cpuq = cpuq
      /\ Snapshot.avail = avail
  BY DEF Snapshot
<1>6. n \in 0 .. Len(waiting) /\ n <= Len(avail)
  <2>1. n \in 0 .. Len(waiting) /\ (n = 0 \/ n <= Len(avail))
    BY <1>4, <1>5 DEF Promised
  <2>2. Len(avail) \in Nat
    BY <1>2 DEF QueueTypes
  <2>3. QED
    BY <2>1, <2>2
<1>7. PICK batches : batches = res.batches
  OBVIOUS
<1>8. /\ Len(batches) \in {1, 2} /\ IsInjective(Running(batches))
      /\ ToSet(Running(batches)) \subseteq ToSet(res.gpuq) \cup ToSet(res.cpuq)
      /\ ToSet(res.gpuq) \cup ToSet(res.cpuq) = F \cup ToSet(gpuq) \cup ToSet(cpuq)
  BY <1>4, <1>5, <1>7 DEF Promised, Ready
<1>9. /\ Moves(Reqs, gpuq, cpuq, res.swapOut, res.swapIn, gq, cq)
      /\ ToSet(p) \cup ToSet(c) = F
      /\ DOMAIN batches = 1 .. Len(batches)
      /\ \A k \in 1 .. Len(batches) : Within(Reqs, batches[k], c, p, gq, cq)
      /\ batches[1].cprf = c /\ batches[1].gprf = p
  BY <1>5, <1>7 DEF Placing
<1>10. G # {}
  <2>1. ASSUME NEW k \in 1 .. Len(batches) PROVE BatchIn(Reqs, batches[k])
    BY <1>9 DEF Within, BatchIn
  <2>2. BatchesIn(Reqs, batches)
    BY <1>8, <1>9, <2>1 DEF BatchesIn
  <2>3. \A x : x \in ToSet(Running(batches)) <=>
                 \E k \in 1 .. Len(batches) : x \in ToSet(BatchReqs(batches[k]))
    BY <2>2, BatchesApart
  <2>4. PICK q : q = BatchReqs(batches[1])
    OBVIOUS
  <2>5. 1 \in 1 .. Len(batches)
    <3>1. Len(batches) = 1 \/ Len(batches) = 2
      BY <1>8
    <3>2. QED
      BY ONLY <3>1, FirstOfTwo
  <2>6. q \in Seq(Reqs) /\ q # << >>
    BY <1>7, <2>1, <2>4, <2>5, BatchList
  <2>7. 1 \in DOMAIN q
    BY ONLY <2>6
  <2>8. q[1] \in ToSet(q)
    BY <2>7 DEF ToSet
  <2>9. q[1] \in ToSet(Running(batches))
    BY <2>3, <2>4, <2>5, <2>8
  <2>10. ToSet(gpuq) \cup ToSet(cpuq) = Holders
    BY RowsHeld DEF QueuedHold
  <2>11. QED
    BY <1>8, <2>9, <2>10
<1>11. Start(n, GivenIds(n), F, G)
  BY <1>6 DEF Start
<1>12. QED
  BY <1>7, <1>8, <1>9, <1>10, <1>11 DEF Chosen

(* A step that takes the result res of get_next_batch.                     *)
Taking(res, n, id, F, G, c, p, gq, cq) ==
  /\ Chosen(res, n, id, F, G, c, p, gq, cq) /\ id = rid'
  /\ plen' = plen /\ olen' = olen /\ mlen' = mlen /\ pc = "sched" /\ pc' = "exec"
  /\ iter' = [batches |-> res.batches, swapOut |-> res.swapOut, swapIn |-> res.swapIn]
  /\ PrepareAsserts(res, id)
  /\ gpu' = PreparedDevices(res, id).gpu /\ cpu' = PreparedDevices(res, id).cpu
  /\ gpu'.ok /\ cpu'.ok
  /\ ToSet(gpuq') = ToSet(gq) \cup ToSet(p) /\ ToSet(cpuq') = ToSet(cq) \cup ToSet(c)

(* prepare's assertions on the requests rather than their rows.            *)
LEMMA AssertedLists ==
  ASSUME NEW res, NEW id, PrepareAsserts(res, id), NEW R,
         res.swapOut \in Seq(R), res.swapIn \in Seq(R), BatchesIn(R, res.batches)
  PROVE  /\ res.swapOut = << >> \/ res.swapIn = << >>
         /\ BatchReqs(res.batches[1]) # << >>
<1>1. PICK rows, batches : rows = RowBatches(batches, id) /\ batches = res.batches
  OBVIOUS
<1>2. /\ Rows(res.swapOut, id) = << >> \/ Rows(res.swapIn, id) = << >>
      /\ \A k \in 1 .. Len(rows) : BM!AllReqs(rows[k]) # << >>
  BY <1>1 DEF PrepareAsserts, BM!PrepareAsserts
<1>3. \A q \in Seq(R) : Rows(q, id) = << >> <=> q = << >>
  BY DEF Rows
<1>4. BatchesIn(R, batches)
  BY <1>1
<1>5. Len(rows) = Len(batches) /\ \A k \in 1 .. Len(batches) : rows[k] = RowBatch(batches[k], id)
  <2>1. rows = RowBatches(batches, id)
    BY <1>1
  <2>2. Len(rows) = Len(batches)
    BY ONLY <1>4, <2>1, RowBatchList
  <2>3. \A k \in 1 .. Len(batches) : rows[k] = RowBatch(batches[k], id)
    BY ONLY <1>4, <2>1, RowBatchList
  <2>4. QED
    BY <2>2, <2>3
<1>6. 1 \in 1 .. Len(batches)
  BY <1>4 DEF BatchesIn
<1>7. BM!AllReqs(RowBatch(batches[1], id)) # << >>
  BY <1>2, <1>5, <1>6
<1>8. BatchReqs(batches[1]) \in Seq(R) /\ BM!AllReqs(RowBatch(batches[1], id)) = Rows(BatchReqs(batches[1]), id)
  <2>1. BatchIn(R, batches[1])
    BY <1>4, <1>6 DEF BatchesIn
  <2>2. BM!AllReqs(RowBatch(batches[1], id)) = BMP!AllReqs(RowBatch(batches[1], id))
    BY DEF BM!AllReqs, BMP!AllReqs, BM!PrGds, BMP!PrGds
  <2>3. QED
    BY <2>1, <2>2, BatchList
<1>9. QED
  BY <1>1, <1>2, <1>3, <1>7, <1>8

LEMMA Takes ==
  ASSUME IInv, Fits, NEW mode, Schedule(mode)
  PROVE  \E res, n, id, F, G, c, p, gq, cq : Taking(res, n, id, F, G, c, p, gq, cq)
<1>1. PICK res \in NextBatches(mode) :
        /\ Succeeds(res)
        /\ rid' = GivenIds(NumPrefs(res.batches))
        /\ gpuq' = res.gpuq /\ cpuq' = res.cpuq
        /\ iter' = [batches |-> res.batches, swapOut |-> res.swapOut, swapIn |-> res.swapIn]
        /\ gpu' = PreparedDevices(res, GivenIds(NumPrefs(res.batches))).gpu
        /\ cpu' = PreparedDevices(res, GivenIds(NumPrefs(res.batches))).cpu
  BY DEF Schedule
<1>2. plen' = plen /\ olen' = olen /\ mlen' = mlen /\ pc = "sched" /\ pc' = "exec"
  BY DEF Schedule
<1>3. res \in NextBatchNew(Snapshot) \cup NextBatchOld(Snapshot)
  BY DEF NextBatches
<1>4. numGpuBlocks \in Nat /\ Orderly(Reqs, Snapshot)
  BY SnapshotOrderly DEF IInv, QueueTypes
<1>5. PICK c, p, gq, cq : Placing(Reqs, Snapshot, res, c, p, gq, cq)
  BY <1>3, <1>4, SchedulerPlaces
<1>6. Promised(Reqs, Snapshot, res)
  BY <1>3, <1>4, SchedulerPromise
<1>7. PICK n, F, G, id : /\ n = NumPrefs(res.batches) /\ F = ToSet(First(waiting, n))
                         /\ G = Holders \cup F /\ id = GivenIds(n)
  OBVIOUS
<1>8. res.ok /\ PrepareAsserts(res, id)
  BY <1>1, <1>7 DEF Succeeds
<1>9. res.batches # << >>
  BY <1>8, BatchesGiven
<1>10. /\ res.swapOut \in Seq(Reqs) /\ res.swapIn \in Seq(Reqs)
       /\ ToSet(gpuq') = ToSet(gq) \cup ToSet(p) /\ ToSet(cpuq') = ToSet(cq) \cup ToSet(c)
       /\ DOMAIN res.batches = 1 .. Len(res.batches)
       /\ \A k \in 1 .. Len(res.batches) : Within(Reqs, res.batches[k], c, p, gq, cq)
  BY <1>1, <1>5 DEF Placing, Moves
<1>11. BatchesIn(Reqs, res.batches)
  <2>1. Len(res.batches) \in {1, 2}
    BY <1>6, <1>9 DEF Promised, Ready
  <2>2. QED
    BY <1>10, <2>1 DEF BatchesIn, BatchIn, Within
<1>12. (res.swapOut = << >> \/ res.swapIn = << >>) /\ BatchReqs(res.batches[1]) # << >>
  BY <1>8, <1>10, <1>11, AssertedLists
<1>13. Chosen(res, n, id, F, G, c, p, gq, cq)
  BY <1>5, <1>7, <1>8, <1>9, <1>12, Chooses
<1>14. /\ gpu' = PreparedDevices(res, id).gpu /\ cpu' = PreparedDevices(res, id).cpu
       /\ gpu'.ok /\ cpu'.ok /\ id = rid'
  BY <1>1, <1>7 DEF Succeeds
<1>15. Taking(res, n, id, F, G, c, p, gq, cq)
  BY <1>1, <1>2, <1>8, <1>10, <1>13, <1>14 DEF Taking
<1>16. QED
  BY <1>15

(* What the step does: its call of the block manager succeeds.             *)
LEMMA Taken ==
  ASSUME DevInv, NEW res, NEW n, NEW id, NEW F, NEW G, NEW c, NEW p, NEW gq, NEW cq,
         Taking(res, n, id, F, G, c, p, gq, cq), NEW call, call = CallFor(res, id)
  PROVE  /\ Holders' = G /\ Arrived' = Arrived /\ Finished' = Finished /\ SeqLen' = SeqLen
         /\ \A r \in Reqs : rid'[r] = -1 => rid[r] = -1
         /\ call = BlockManagerCall /\ BMP!LegalCall(call)
         /\ (BMP!OnGpu \ BMP!Elems(call.swapOut)) \cup BMP!Elems(call.swapIn) = RowsOf(ToSet(gq), id)
         /\ (BMP!OnCpu \ BMP!Elems(call.swapIn)) \cup BMP!Elems(call.swapOut) = RowsOf(ToSet(cq), id)
         /\ BMP!Gprfs(call) = RowsOf(ToSet(p), id) /\ BMP!Cprfs(call) = RowsOf(ToSet(c), id)
         /\ BMP!LensWith(call) = RowLens' /\ BMP!PrepareSucceeds(call)
         /\ gpu' = BMP!Prepared(call).gpu /\ cpu' = BMP!Prepared(call).cpu
<1>1. IInv /\ Fits /\ QueuesMatchDevices
  BY DEF DevInv
<1>2. /\ Chosen(res, n, id, F, G, c, p, gq, cq) /\ id = rid'
      /\ plen' = plen /\ olen' = olen /\ mlen' = mlen
      /\ iter' = [batches |-> res.batches, swapOut |-> res.swapOut, swapIn |-> res.swapIn]
      /\ PrepareAsserts(res, id)
      /\ gpu' = PreparedDevices(res, id).gpu /\ cpu' = PreparedDevices(res, id).cpu
      /\ gpu'.ok /\ cpu'.ok
  BY DEF Taking
<1>3. Start(n, id, F, G)
  BY <1>2 DEF Chosen
<1>4. /\ Arrived' = Arrived /\ Finished' = Finished /\ SeqLen' = SeqLen
      /\ Holders' = G /\ \A r \in Reqs : rid'[r] = -1 => rid[r] = -1
  BY <1>1, <1>2, <1>3, Starts
<1>5. RowLensWith(id) = RowLens'
  <2>1. RowLensWith(id) = ByRow(G, id, SeqLen, 0)
    BY <1>1, <1>3, StartLens
  <2>2. QED
    BY <1>2, <1>4, <2>1, RowTables
<1>6. /\ BMP!LegalCall(call)
      /\ (BMP!OnGpu \ BMP!Elems(call.swapOut)) \cup BMP!Elems(call.swapIn) = RowsOf(ToSet(gq), id)
      /\ (BMP!OnCpu \ BMP!Elems(call.swapIn)) \cup BMP!Elems(call.swapOut) = RowsOf(ToSet(cq), id)
      /\ BMP!Gprfs(call) = RowsOf(ToSet(p), id) /\ BMP!Cprfs(call) = RowsOf(ToSet(c), id)
      /\ BMP!LensWith(call) = RowLensWith(id)
  BY <1>1, <1>2, ChosenPlaces
<1>7. call = BlockManagerCall
  <2>1. /\ iter'.batches = res.batches /\ iter'.swapOut = res.swapOut
        /\ iter'.swapIn = res.swapIn
    BY <1>2
  <2>2. RowPrompts(id) = [row \in Ids |-> IF \E r \in Reqs \ Finished : id[r] = row
                            THEN plen[CHOOSE r \in Reqs \ Finished : id[r] = row] ELSE 1]
    BY DEF RowPrompts, ByRow
  <2>3. QED
    BY <1>2, <2>1, <2>2 DEF BlockManagerCall, CallFor
<1>8. /\ BMP!PrepareAsserts(call.batches, call.swapOut, call.swapIn, BMP!LensWith(call))
      /\ PreparedDevices(res, id) = BMP!Prepared(call)
  BY <1>2, <1>6, CallDoes
<1>9. BMP!PrepareSucceeds(call)
  BY <1>2, <1>8 DEF BMP!PrepareSucceeds
<1>10. QED
  BY <1>2, <1>4, <1>5, <1>6, <1>7, <1>8, <1>9

LEMMA CallPrepares ==
  ASSUME DevInv, NEW res, NEW n, NEW id, NEW F, NEW G, NEW c, NEW p, NEW gq, NEW cq,
         Taking(res, n, id, F, G, c, p, gq, cq), NEW call, call = BlockManagerCall
  PROVE  BMP!Prepare(call)
<1>1. BMP!LegalCall(call)
  BY Taken
<1>2. /\ BMP!LensWith(call) = RowLens' /\ BMP!PrepareSucceeds(call)
      /\ gpu' = BMP!Prepared(call).gpu /\ cpu' = BMP!Prepared(call).cpu
  BY Taken
<1>3. pc = "sched" /\ pc' = "exec"
  BY DEF Taking
<1>4. call.batches = RowBatches(iter'.batches, rid')
  BY DEF BlockManagerCall
<1>5. QED
  BY <1>1, <1>2, <1>3, <1>4 DEF BMP!Prepare

(* After it the queues tell again where the KV is.                         *)
LEMMA CallMatches ==
  ASSUME DevInv, IInv', NEW res, NEW n, NEW id, NEW F, NEW G, NEW c, NEW p, NEW gq, NEW cq,
         Taking(res, n, id, F, G, c, p, gq, cq)
  PROVE  QueuesMatchDevices'
<1>1. PICK call : call = CallFor(res, id)
  OBVIOUS
<1>2. G = Holders' /\ id = rid'
  BY <1>1, Taken DEF Taking
<1>3. /\ BMP!LegalCall(call)
      /\ (BMP!OnGpu \ BMP!Elems(call.swapOut)) \cup BMP!Elems(call.swapIn) = RowsOf(ToSet(gq), id)
      /\ (BMP!OnCpu \ BMP!Elems(call.swapIn)) \cup BMP!Elems(call.swapOut) = RowsOf(ToSet(cq), id)
      /\ BMP!Gprfs(call) = RowsOf(ToSet(p), id) /\ BMP!Cprfs(call) = RowsOf(ToSet(c), id)
  BY <1>1, Taken
<1>4. /\ BMP!PrepareSucceeds(call)
      /\ gpu' = BMP!Prepared(call).gpu /\ cpu' = BMP!Prepared(call).cpu
  BY <1>1, Taken
<1>5. BMP!IInv /\ pc = "sched"
  BY DEF DevInv, Taking
<1>6. \A row \in Ids :
        /\ gpu'.table[row] # << >> <=> row \in RowsOf(ToSet(p), id) \cup RowsOf(ToSet(gq), id)
        /\ cpu'.table[row] # << >> <=> row \in RowsOf(ToSet(c), id) \cup RowsOf(ToSet(cq), id)
  <2>1. \A row \in Ids :
          /\ BMP!Prepared(call).gpu.table[row] # << >> <=>
               row \in BMP!Gprfs(call) \cup (BMP!OnGpu \ BMP!Elems(call.swapOut))
                         \cup BMP!Elems(call.swapIn)
          /\ BMP!Prepared(call).cpu.table[row] # << >> <=>
               row \in BMP!Cprfs(call) \cup (BMP!OnCpu \ BMP!Elems(call.swapIn))
                         \cup BMP!Elems(call.swapOut)
    BY <1>3, <1>4, <1>5, Sizes, BMP!PreparePlaces
  <2>2. QED
    BY <1>3, <1>4, <2>1
<1>7. ToSet(gpuq') = ToSet(gq) \cup ToSet(p) /\ ToSet(cpuq') = ToSet(cq) \cup ToSet(c)
  BY DEF Taking
<1>8. /\ RowsOf(ToSet(gpuq'), id) = RowsOf(ToSet(gq), id) \cup RowsOf(ToSet(p), id)
      /\ RowsOf(ToSet(cpuq'), id) = RowsOf(ToSet(cq), id) \cup RowsOf(ToSet(c), id)
  BY <1>7 DEF RowsOf
<1>9. RowsOf(ToSet(gpuq'), id) \subseteq Ids /\ RowsOf(ToSet(cpuq'), id) \subseteq Ids
  <2>1. QueuedHold'
    BY RowsHeldNext
  <2>2. PICK g, x : g = ToSet(gpuq') /\ x = ToSet(cpuq')
    OBVIOUS
  <2>3. (\A r \in G : id[r] \in Ids) /\ g \subseteq G /\ x \subseteq G
    BY <1>2, <2>1, <2>2 DEF QueuedHold
  <2>4. QED
    BY <2>2, <2>3 DEF RowsOf
<1>10. /\ RowsOf(ToSet(gpuq'), id) = {row \in Ids : gpu'.table[row] # << >>}
       /\ RowsOf(ToSet(cpuq'), id) = {row \in Ids : cpu'.table[row] # << >>}
  BY <1>6, <1>8, <1>9
<1>11. QED
  BY <1>2, <1>10, MatchingNext

LEMMA ScheduleDev ==
  ASSUME DevInv, IInv', NEW mode, Schedule(mode)
  PROVE  DevInv'
<1>1. IInv /\ Fits /\ BMP!IInv
  BY DEF DevInv
<1>2. PICK res, n, id, F, G, c, p, gq, cq : Taking(res, n, id, F, G, c, p, gq, cq)
  BY <1>1, Takes
<1>3. BMP!IInv'
  <2>1. PICK call : call = BlockManagerCall
    OBVIOUS
  <2>2. BMP!Prepare(call)
    BY <1>2, <2>1, CallPrepares
  <2>3. QED
    BY <1>1, <2>2, Prepares
<1>4. QueuesMatchDevices'
  BY <1>2, CallMatches
<1>5. Fits'
  <2>1. plen' = plen /\ olen' = olen /\ mlen' = mlen
    BY <1>2 DEF Taking
  <2>2. Arrived' = Arrived /\ \A r \in Reqs : rid'[r] = -1 => rid[r] = -1
    BY <1>2, Taken
  <2>3. QED
    BY <1>1, <2>1, <2>2 DEF Fits
<1>6. IterBatches'
  <2>1. Chosen(res, n, id, F, G, c, p, gq, cq)
    BY <1>2 DEF Taking
  <2>2. BatchesIn(G, res.batches)
    BY <1>1, <2>1, ChosenSets
  <2>3. G = Holders' /\ iter'.batches = res.batches
    BY <1>2, Taken DEF Taking
  <2>4. QED
    BY <2>2, <2>3 DEF IterBatches
<1>7. QED
  BY <1>3, <1>4, <1>5, <1>6 DEF DevInv

-----------------------------------------------------------------------------
(* Every step keeps the invariant, and is one of the block manager's.      *)
LEMMA StepDev == ASSUME DevInv, [Next]_vars PROVE DevInv'
<1>1. IInv /\ IInv'
  BY Stepwise DEF DevInv
<1>2. CASE UNCHANGED vars
  <2>1. UNCHANGED <<queues, rid, plen, olen, mlen, iter, devices>> /\ pc' = pc
    BY <1>2 DEF vars
  <2>2. QED
    BY <1>1, <2>1, IdleDev
<1>3. CASE Next
  <2>1. ASSUME NEW r \in Reqs, NEW p \in Prompts, NEW m \in Outputs, Arrive(r, p, m)
        PROVE  DevInv'
    BY <1>1, <2>1, ArriveDev
  <2>2. ASSUME NEW mode, Schedule(mode) PROVE DevInv'
    BY <1>1, <2>2, ScheduleDev
  <2>3. ASSUME NEW mode, Sleep(mode) \/ Raise(mode) PROVE DevInv'
    <3>1. /\ UNCHANGED <<queues, rid, plen, olen, mlen, iter, devices>>
          /\ pc # "exec" /\ pc' \in {"sched", "sleep", "dead"}
      BY <2>3 DEF Sleep, Raise
    <3>2. QED
      BY <1>1, <3>1, IdleDev
  <2>4. CASE Wake
    <3>1. /\ UNCHANGED <<queues, rid, plen, olen, mlen, iter, devices>>
          /\ pc # "exec" /\ pc' \in {"sched", "sleep", "dead"}
      BY <2>4 DEF Wake
    <3>2. QED
      BY <1>1, <3>1, IdleDev
  <2>5. CASE Complete
    BY <1>1, <2>5, CompleteDev
  <2>6. QED
    BY <1>3, <2>1, <2>2, <2>3, <2>4, <2>5 DEF Next, Step
<1>4. QED
  BY <1>2, <1>3

LEMMA StepImplements == ASSUME DevInv, [Next]_vars PROVE [BlockManagerStep]_vars
<1>1. IInv /\ IInv'
  BY Stepwise DEF DevInv
<1>2. CASE Next
  <2>1. ASSUME NEW r \in Reqs, NEW p \in Prompts, NEW m \in Outputs, Arrive(r, p, m)
        PROVE  BlockManagerStep
    <3>1. UNCHANGED <<devices, iter, olen, rid>>
      BY <2>1 DEF Arrive
    <3>2. QED
      BY <3>1 DEF BlockManagerStep
  <2>2. ASSUME NEW mode, Schedule(mode) PROVE BlockManagerStep
    <3>1. PICK res, n, id, F, G, c, p, gq, cq : Taking(res, n, id, F, G, c, p, gq, cq)
      BY <1>1, <2>2, Takes DEF DevInv
    <3>2. PICK call : call = BlockManagerCall
      OBVIOUS
    <3>3. BMP!Prepare(call)
      BY <3>1, <3>2, <1>1, CallPrepares
    <3>4. BM!Prepare(call)
      BY <3>3, SamePrepare
    <3>5. \E d \in {BlockManagerCall} : BM!Prepare(d)
      BY <3>2, <3>4
    <3>6. QED
      BY <3>5 DEF BlockManagerStep
  <2>3. ASSUME NEW mode, Sleep(mode) PROVE BlockManagerStep
    <3>1. UNCHANGED <<devices, iter, olen, rid>>
      BY <2>3 DEF Sleep
    <3>2. QED
      BY <3>1 DEF BlockManagerStep
  <2>4. ASSUME NEW mode, Raise(mode) PROVE BlockManagerStep
    <3>1. pc' = "dead" /\ UNCHANGED devices
      BY <2>4 DEF Raise
    <3>2. QED
      BY <3>1 DEF BlockManagerStep
  <2>5. CASE Wake
    <3>1. UNCHANGED <<devices, iter, olen, rid>>
      BY <2>5 DEF Wake
    <3>2. QED
      BY <3>1 DEF BlockManagerStep
  <2>6. CASE Complete
    <3>1. PICK done : done = RowsOf(Done, rid)
      OBVIOUS
    <3>2. Finished' \ Finished = Done /\ BMP!UpdateAndFree(done)
      BY <2>6, <3>1, CompleteUpdates
    <3>3. BM!UpdateAndFree(done)
      BY <3>2, SameUpdate
    <3>4. done = {rid[r] : r \in Finished' \ Finished}
      BY <3>1, <3>2 DEF RowsOf
    <3>5. \E d \in {{rid[r] : r \in Finished' \ Finished}} : BM!UpdateAndFree(d)
      BY <3>3, <3>4
    <3>6. QED
      BY <3>5 DEF BlockManagerStep
  <2>7. QED
    BY <1>2, <2>1, <2>2, <2>3, <2>4, <2>5, <2>6 DEF Next, Step
<1>3. QED
  BY <1>2

LEMMA SameExact ==
  /\ BM!AccountingExact <=> BMP!AccountingExact
  /\ BM!BlocksMatchLength <=> BMP!BlocksMatchLength
<1>1. \A d, s, n : BM!ExactAccounting(d, s, n) <=> BMP!ExactAccounting(d, s, n)
  <2>1. \A d, s, k : BM!Held(d, s, k) = BMP!Held(d, s, k)
    BY DEF BM!Held, BMP!Held, BM!HeldSlots, BMP!HeldSlots, BM!SplitOf, BMP!SplitOf,
           BM!ItmSplit, BMP!ItmSplit
  <2>2. \A d, v : BM!PidOf(d, v) = BMP!PidOf(d, v)
    BY DEF BM!PidOf, BMP!PidOf
  <2>3. BM!Splits = BMP!Splits
    BY DEF BM!Splits, BMP!Splits
  <2>4. \A S : BM!Cardinality(S) = BMP!Cardinality(S)
    BY DEF BM!Cardinality, BMP!Cardinality
  <2>5. \A d, s : BM!NoSharing(d, s) <=> BMP!NoSharing(d, s)
    BY <2>1, <2>2, <2>3 DEF BM!NoSharing, BMP!NoSharing
  <2>6. \A d, s, n : BM!FreeIsComplement(d, s, n) <=> BMP!FreeIsComplement(d, s, n)
    BY <2>1, <2>2, <2>3 DEF BM!FreeIsComplement, BMP!FreeIsComplement
  <2>7. \A d : BM!CounterExact(d) <=> BMP!CounterExact(d)
    BY <2>3, <2>4 DEF BM!CounterExact, BMP!CounterExact
  <2>8. QED
    BY <2>5, <2>6, <2>7 DEF BM!ExactAccounting, BMP!ExactAccounting
<1>2. BM!AccountingExact <=> BMP!AccountingExact
  BY <1>1 DEF BM!AccountingExact, BMP!AccountingExact
<1>3. \A batches : BM!Reqs(batches) = BMP!Reqs(batches)
  BY DEF BM!Reqs, BMP!Reqs, BM!AllReqs, BMP!AllReqs, BM!PrGds, BMP!PrGds, BM!Elems, BMP!Elems
<1>4. \A len : BM!BlocksFor(len) = BMP!BlocksFor(len)
  BY DEF BM!BlocksFor, BMP!BlocksFor
<1>5. QED
  BY <1>2, <1>3, <1>4 DEF BM!BlocksMatchLength, BMP!BlocksMatchLength

(* The invariant holds in every state the event loop reaches.              *)
THEOREM DevicesInvariant == Spec => []DevInv
<1>1. Init => DevInv
  BY InitDev
<1>2. DevInv /\ [Next]_vars => DevInv'
  BY StepDev
<1>3. QED
  BY <1>1, <1>2, PTL DEF Spec

(* The queues of decodes say where the KV of a request is, through every   *)
(* swap, prefill and release, and no other row holds a block.              *)
THEOREM DevicesMatch == Spec => []QueuesMatchDevices
<1>1. DevInv => QueuesMatchDevices
  BY DEF DevInv
<1>2. QED
  BY <1>1, DevicesInvariant, PTL

(* The types of the event loop's state.                                    *)
THEOREM EngineTypes == Spec => []TypeOK
<1>1. DevInv => TypeOK
  <2>1. SUFFICES ASSUME DevInv PROVE TypeOK
    OBVIOUS
  <2>2. IInv /\ BMP!IInv
    BY <2>1 DEF DevInv
  <2>3. BM!DeviceType(gpu, NumGpu) /\ BM!DeviceType(cpu, NumCpu)
    BY <2>2, SameType DEF BMP!IInv, BMP!TypeOK
  <2>4. QueueTypes
    BY <2>2 DEF IInv
  <2>5. \A r \in Reqs : olen[r] \in 0 .. mlen[r]
    <3>1. \A r \in Reqs : olen[r] \in Nat /\ mlen[r] \in Nat /\ olen[r] <= mlen[r]
      BY <2>2, <2>4, Lengths DEF QueueTypes
    <3>2. QED
      BY <3>1
  <2>6. QED
    BY <2>3, <2>4, <2>5 DEF TypeOK, QueueTypes
<1>2. QED
  BY <1>1, DevicesInvariant, PTL

(* Driven by the scheduler, the block manager owns no block twice and      *)
(* loses none, and every request has the blocks its length needs.          *)
THEOREM EngineBlocksExact == Spec => [](BM!AccountingExact /\ BM!BlocksMatchLength)
<1>1. DevInv => BM!AccountingExact /\ BM!BlocksMatchLength
  BY SameExact DEF DevInv, BMP!IInv
<1>2. QED
  BY <1>1, DevicesInvariant, PTL

(* The event loop implements the block manager: whatever arrives and       *)
(* whatever the scheduler decides, its steps are calls of the block        *)
(* manager that respect its contract, or leave the devices alone.          *)
THEOREM EngineImplements == Spec => ImplementsBlockManager
<1>1. Init => BM!Init
  BY InitBM
<1>2. DevInv /\ [Next]_vars => [BlockManagerStep]_vars
  BY StepImplements
<1>3. QED
  BY <1>1, <1>2, DevicesInvariant, PTL DEF Spec, ImplementsBlockManager
-----------------------------------------------------------------------------
(* The server dies only when it is full.  What the sizes it is started     *)
(* with must allow: the intermediate layer, a GPU that holds the longest   *)
(* sequence, and a batch of something.                                     *)
Sized ==
  /\ ExtraLayer /\ BlockNeeded(MaxLen - 1) <= NumGpu
  /\ MaxBatch # 0 /\ LinrThreshold # 0

(* Under disable_partial_offl no decode is ever queued for the GPU.        *)
GpuKept == numGpuBlocks \in {0, NumGpu} /\ (numGpuBlocks = 0 => gpuq = << >>)

Live == Arrived \ Finished

(* An unfinished request has room for one token more.                      *)
LEMMA LiveLens ==
  ASSUME IInv, Fits
  PROVE  \A r \in Live : r \in Reqs /\ SeqLen[r] \in Nat /\ SeqLen[r] > 0 /\ SeqLen[r] <= MaxLen - 1
<1> SUFFICES ASSUME NEW r \in Live
             PROVE  r \in Reqs /\ SeqLen[r] \in Nat /\ SeqLen[r] > 0 /\ SeqLen[r] <= MaxLen - 1
  OBVIOUS
<1>1. r \in Reqs /\ r \in Arrived /\ r \notin Finished
  BY DEF Live, Arrived
<1>2. /\ plen[r] \in Nat /\ olen[r] \in Nat /\ mlen[r] \in Nat /\ SeqLen[r] = plen[r] + olen[r]
  BY <1>1, Lengths
<1>3. plen[r] > 0 /\ olen[r] # mlen[r] /\ olen[r] <= mlen[r] /\ plen[r] + mlen[r] <= MaxLen
  BY <1>1 DEF Arrived, Finished, Fits, IInv, QueueTypes
<1>4. MaxLen \in Nat
  BY Sizes
<1>5. QED
  BY <1>1, <1>2, <1>3, <1>4

(* What a number of blocks it needs.                                       *)
LEMMA LiveBlocks ==
  ASSUME IInv, Fits, Sized
  PROVE  \A r \in Live : /\ BlockNeeded(SeqLen[r]) \in Nat /\ BlockNeeded(SeqLen[r]) > 0
                         /\ BlockNeeded(SeqLen[r]) <= BlockNeeded(MaxLen - 1)
                         /\ BlockNeeded(SeqLen[r]) <= NumGpu
<1> SUFFICES ASSUME NEW r \in Live
             PROVE  /\ BlockNeeded(SeqLen[r]) \in Nat /\ BlockNeeded(SeqLen[r]) > 0
                    /\ BlockNeeded(SeqLen[r]) <= BlockNeeded(MaxLen - 1)
                    /\ BlockNeeded(SeqLen[r]) <= NumGpu
  OBVIOUS
<1>1. PICK l, m : l = SeqLen[r] /\ m = MaxLen - 1
  OBVIOUS
<1>2. l \in Nat /\ l > 0 /\ l <= m /\ m \in Nat
  <2>1. SeqLen[r] \in Nat /\ SeqLen[r] > 0 /\ SeqLen[r] <= MaxLen - 1 /\ MaxLen \in Nat
    BY LiveLens, Sizes
  <2>2. QED
    BY <1>1, <2>1
<1>3. /\ BlockNeeded(l) \in Nat /\ l <= BlockSize * BlockNeeded(l) /\ BlockNeeded(m) \in Nat
  BY <1>2, BlockNeededHolds
<1>4. BlockNeeded(l) <= BlockNeeded(m)
  BY <1>2, BlockNeededGrows
<1>5. BlockNeeded(m) <= NumGpu /\ NumGpu \in Nat /\ BlockSize \in Nat
  BY <1>1, Sizes DEF Sized
<1>6. BlockNeeded(l) # 0
  BY <1>2, <1>3, <1>5
<1>7. QED
  BY <1>1, <1>3, <1>4, <1>5, <1>6

(* The queues, as get_next_batch finds them.                               *)
LEMMA SnapshotFeasible ==
  ASSUME IInv, Fits, Sized, GpuKept
  PROVE  /\ Orderly(Reqs, Snapshot) /\ Feasible(Reqs, Snapshot) /\ Queued(Snapshot) = Live
         /\ Measured(Reqs, Snapshot.len) /\ Snapshot.len = SeqLen
         /\ \A x \in Queued(Snapshot) : BlockNeeded(Snapshot.len[x]) > 0
<1>1. Orderly(Reqs, Snapshot)
  BY SnapshotOrderly DEF IInv
<1>2. /\ Snapshot.waiting = waiting /\ Snapshot.gpuq = gpuq /\ Snapshot.cpuq = cpuq
      /\ Snapshot.len = SeqLen /\ Snapshot.plen = plen
  BY DEF Snapshot
<1>3. Separate(waiting, gpuq, cpuq, Arrived \ Finished)
  BY NothingLostIs DEF IInv, QueueTypes
<1>4. Queued(Snapshot) = Live /\ ToSet(gpuq) \subseteq Live
  BY <1>2, <1>3 DEF Separate, Queued, Live
<1>5. Measured(Reqs, SeqLen) /\ Measured(Reqs, plen)
  BY Lengths DEF Measured
<1>6. Feasible(Reqs, Snapshot)
  BY <1>2, <1>4, <1>5, LiveBlocks DEF Feasible, GpuKept, Sized
<1>7. QED
  BY <1>1, <1>2, <1>4, <1>5, <1>6, LiveBlocks

LEMMA InitKept == Init => GpuKept
BY DEF Init, GpuKept

LEMMA StepKept ==
  ASSUME Sized, IInv, Fits, GpuKept, [Next]_vars
  PROVE  GpuKept'
<1>1. CASE UNCHANGED vars
  BY <1>1 DEF vars, queues, GpuKept
<1>2. CASE Next
  <2>1. numGpuBlocks' = numGpuBlocks
    BY <1>2 DEF Next
  <2>2. CASE gpuq' = gpuq
    BY <2>1, <2>2 DEF GpuKept
  <2>3. ASSUME NEW mode, Schedule(mode) PROVE GpuKept'
    <3>1. PICK res \in NextBatches(mode) : gpuq' = res.gpuq
      BY <2>3 DEF Schedule
    <3>2. res \in NextBatchNew(Snapshot) \cup NextBatchOld(Snapshot)
      BY DEF NextBatches
    <3>3. ASSUME numGpuBlocks = 0 PROVE res.gpuq = << >>
      BY <3>2, <3>3, SnapshotFeasible, GpuUnused
    <3>4. QED
      BY <2>1, <3>1, <3>3 DEF GpuKept
  <2>4. CASE Complete
    <3>1. gpuq' \in Seq(Reqs) /\ ToSet(gpuq') = ToSet(gpuq) \ Done
      BY <2>4, Answers
    <3>2. ASSUME gpuq = << >> PROVE gpuq' = << >>
      <4>1. ToSet(gpuq') = {}
        BY <3>1, <3>2 DEF ToSet
      <4>2. PICK q : q = gpuq'
        OBVIOUS
      <4>3. q \in Seq(Reqs) /\ \A i \in DOMAIN q : FALSE
        BY <3>1, <4>1, <4>2 DEF ToSet
      <4>4. q = << >>
        <5>1. Len(q) \in Nat /\ DOMAIN q = 1 .. Len(q)
          BY <4>3
        <5>2. Len(q) = 0
          <6>1. ASSUME Len(q) # 0 PROVE FALSE
            <7>1. 1 \in DOMAIN q
              BY ONLY <5>1, <6>1
            <7>2. QED
              BY <4>3, <7>1
          <6>2. QED
            BY <6>1
        <5>3. QED
          BY <4>3, <5>2
      <4>5. QED
        BY <4>2, <4>4
    <3>3. QED
      BY <2>1, <3>2 DEF GpuKept
  <2>5. QED
    BY <1>2, <2>2, <2>3, <2>4 DEF Next, Step, Arrive, Sleep, Raise, Wake, queues
<1>3. QED
  BY <1>1, <1>2
(* Room for all of them is what get_next_batch asks for: the CPU can hold  *)
(* the KV of every request that is queued, and all that wait find an id.   *)
LEMMA SameSize ==
  ASSUME NEW S, IsFiniteSet(S), NEW g, \A x, y \in S : g[x] = g[y] => x = y
  PROVE  IsFiniteSet({g[x] : x \in S}) /\ Cardinality({g[x] : x \in S}) = Cardinality(S)
<1> DEFINE T == {g[x] : x \in S}
           k == [x \in S |-> g[x]]
<1>1. k \in Bijection(S, T)
  BY DEF Bijection, Injection, Surjection, IsInjective
<1>2. QED
  BY <1>1, FS_Bijection DEF ExistsBijection

LEMMA LiveFinite == IsFiniteSet(Live) /\ IsFiniteSet(Holders)
<1>1. IsFiniteSet(Reqs)
  BY EngineAssumption, FS_Interval DEF Reqs
<1>2. Live \subseteq Reqs /\ Holders \subseteq Reqs
  BY DEF Live, Arrived, Holders
<1>3. QED
  BY <1>1, <1>2, FS_Subset

LEMMA IdsSuffice ==
  ASSUME IInv, Cardinality(Live) <= MaxIds
  PROVE  Len(waiting) <= Len(avail)
<1>1. /\ waiting \in Seq(Reqs) /\ avail \in Seq(Ids)
      /\ Separate(waiting, gpuq, cpuq, Arrived \ Finished)
  BY NothingLostIs DEF IInv, QueueTypes
<1>2. IsInjective(waiting) /\ IsInjective(avail)
  BY <1>1 DEF Separate, IInv, IdsExact
<1>3. /\ Cardinality(ToSet(waiting)) = Len(waiting) /\ IsFiniteSet(ToSet(waiting))
      /\ Cardinality(ToSet(avail)) = Len(avail) /\ IsFiniteSet(ToSet(avail))
  BY <1>1, <1>2, LenIsCardinality
<1>4. PICK w, H, i : w = ToSet(waiting) /\ H = Holders /\ i = {rid[r] : r \in Holders}
  OBVIOUS
<1>5. Live = w \cup H /\ w \cap H = {}
  BY <1>1, <1>4, RowsHeld DEF Separate, Live, QueuedHold
<1>6. IsFiniteSet(w) /\ IsFiniteSet(H) /\ IsFiniteSet(i) /\ Cardinality(i) = Cardinality(H)
  <2>1. \A r, q \in H : rid[r] = rid[q] => r = q
    BY <1>4, RowsHeld DEF QueuedHold
  <2>2. IsFiniteSet(w) /\ IsFiniteSet(H)
    BY <1>3, <1>4, LiveFinite
  <2>3. QED
    BY <1>4, <2>1, <2>2, SameSize
<1>7. Cardinality(Live) = Cardinality(w) + Cardinality(H)
  <2>1. Cardinality(w \cup H) = Cardinality(w) + Cardinality(H) - Cardinality(w \cap H)
    BY <1>6, FS_Union
  <2>2. Cardinality(w \cap H) = 0 /\ Cardinality(w) \in Nat /\ Cardinality(H) \in Nat
    BY <1>5, <1>6, FS_EmptySet, FS_CardinalityType
  <2>3. QED
    BY <1>5, <2>1, <2>2
<1>8. Ids = ToSet(avail) \cup i /\ ToSet(avail) \cap i = {}
  <2>1. ToSet(avail) = Ids \ i
    BY <1>4 DEF IInv, IdsExact
  <2>2. i \subseteq Ids
    BY <1>4, RowsHeld DEF QueuedHold
  <2>3. QED
    BY <2>1, <2>2
<1>9. Cardinality(Ids) = MaxIds /\ MaxIds \in Nat
  <2>1. MaxIds \in Nat
    BY EngineAssumption
  <2>2. Cardinality(0 .. (MaxIds - 1)) = IF 0 > MaxIds - 1 THEN 0 ELSE (MaxIds - 1) - 0 + 1
    BY <2>1, FS_Interval
  <2>3. QED
    BY <2>1, <2>2 DEF Ids
<1>10. Cardinality(Ids) = Len(avail) + Cardinality(H)
  <2>1. PICK a : a = ToSet(avail)
    OBVIOUS
  <2>2. IsFiniteSet(a) /\ Cardinality(a) = Len(avail)
    BY <1>3, <2>1
  <2>3. Cardinality(a \cup i) = Cardinality(a) + Cardinality(i) - Cardinality(a \cap i)
    BY <1>6, <2>2, FS_Union
  <2>4. Cardinality(a \cap i) = 0 /\ Cardinality(a) \in Nat /\ Cardinality(i) \in Nat
    BY <1>6, <1>8, <2>1, <2>2, FS_EmptySet, FS_CardinalityType
  <2>5. QED
    BY <1>6, <1>8, <2>1, <2>2, <2>3, <2>4
<1>11. /\ Len(waiting) = Cardinality(w) /\ Cardinality(w) \in Nat /\ Cardinality(H) \in Nat
       /\ Len(avail) \in Nat
  BY <1>1, <1>3, <1>4, <1>6, FS_CardinalityType
<1>12. QED
  BY <1>7, <1>9, <1>10, <1>11

LEMMA SnapshotRoomy ==
  ASSUME IInv, Fits, Sized, GpuKept, RoomForAll
  PROVE  /\ Roomy(Reqs, Snapshot)
         /\ Weighs(Live, Needs(Reqs, SeqLen)) /\ Weight(Live, Needs(Reqs, SeqLen)) <= NumCpu
<1>1. PICK f, w, L : /\ L = Live /\ f = [r \in L |-> BlockNeeded(SeqLen[r])]
                     /\ w = Needs(Reqs, SeqLen)
  OBVIOUS
<1>2. Cardinality(L) <= MaxIds /\ SumFunction(f) <= NumCpu
  BY <1>1 DEF RoomForAll, Live
<1>3. \A r \in L : w[r] \in Nat /\ f[r] = w[r]
  <2>1. \A r \in L : r \in Reqs /\ BlockNeeded(SeqLen[r]) \in Nat
    BY <1>1, LiveLens, LiveBlocks
  <2>2. QED
    BY <1>1, <2>1 DEF Needs
<1>4. IsFiniteSet(L) /\ DOMAIN f = L
  BY <1>1, LiveFinite
<1>5. Weighs(L, f)
  BY <1>3, <1>4 DEF Weighs
<1>6. SumFunction(f) = Weight(L, f)
  BY <1>4, <1>5, SumIsWeight
<1>7. Weighs(L, w) /\ Weight(L, w) <= Weight(L, f)
  <2>1. \A r \in L : w[r] \in Nat /\ w[r] <= f[r]
    BY <1>3
  <2>2. L \subseteq L
    OBVIOUS
  <2>3. QED
    BY <1>5, <2>1, <2>2, WeightSubset
<1>8. Weight(L, w) <= NumCpu
  <2>1. Weight(L, w) \in Nat /\ Weight(L, f) \in Nat
    BY <1>5, <1>7, WeightFinite
  <2>2. QED
    BY <1>2, <1>6, <1>7, <2>1, Sizes
<1>9. Len(waiting) <= Len(avail)
  BY <1>1, <1>2, IdsSuffice
<1>10. Len(avail) \in Nat
  BY DEF IInv, QueueTypes
<1>11. Snapshot.waiting = waiting /\ Snapshot.avail = avail /\ Snapshot.len = SeqLen
  BY DEF Snapshot
<1>12. Queued(Snapshot) = L
  BY <1>1, SnapshotFeasible
<1>13. \A x \in L : SeqLen[x] <= MaxLen
  <2>1. MaxLen \in Nat /\ \A x \in L : SeqLen[x] \in Nat /\ SeqLen[x] <= MaxLen - 1
    BY <1>1, LiveLens, Sizes
  <2>2. QED
    BY <2>1
<1>14. QED
  BY <1>1, <1>7, <1>8, <1>9, <1>10, <1>11, <1>12, <1>13 DEF Roomy
(* The rows of requests need the blocks that the requests do.              *)
LEMMA SameCount ==
  ASSUME NEW S
  PROVE  BMP!Cardinality(S) = Cardinality(S) /\ (BMP!IsFiniteSet(S) <=> IsFiniteSet(S))
<1>1. BMP!IsFiniteSet(S) <=> IsFiniteSet(S)
  BY DEF BMP!IsFiniteSet, IsFiniteSet
<1>2. BMP!Cardinality(S) = Cardinality(S)
  BY DEF BMP!Cardinality, Cardinality
<1>3. QED
  BY <1>1, <1>2
LEMMA RowsRoom ==
  ASSUME NEW S, NEW id, OwnRows(S, id), NEW w, Weighs(S, w), NEW n, Weight(S, w) <= n,
         NEW lens, \A r \in S : w[r] = BlockNeeded(lens[id[r]])
  PROVE  BMP!Room(RowsOf(S, id), lens, n)
<1>1. PICK T, v : T = RowsOf(S, id) /\ v = [row \in Ids |-> BMP!BlocksFor(lens[row])]
  OBVIOUS
<1>2. \A row \in T : row \in Ids /\ v[row] = BMP!BlocksFor(lens[row])
  BY <1>1 DEF RowsOf, OwnRows
<1>3. \A r \in S : v[id[r]] = w[r]
  <2>1. \A r \in S : v[id[r]] = BMP!BlocksFor(lens[id[r]])
    BY <1>1 DEF OwnRows
  <2>2. \A len : BMP!BlocksFor(len) = BlockNeeded(len)
    BY DEF BMP!BlocksFor, BlockNeeded
  <2>3. QED
    BY <2>1, <2>2
<1>4. Weighs(T, v) /\ Weight(T, v) = Weight(S, w)
  <2>1. T = {id[r] : r \in S} /\ \A x, y \in S : id[x] = id[y] => x = y
    BY <1>1 DEF RowsOf, OwnRows
  <2>2. QED
    BY <1>3, <2>1, WeightImage
<1>5. BMP!RowSlots(T, lens) = Slots(T, v)
  <2>1. \A row \in T : {row} \X (1 .. BMP!BlocksFor(lens[row])) = {row} \X (1 .. v[row])
    BY <1>2
  <2>2. QED
    BY <2>1 DEF BMP!RowSlots, Slots
<1>6. IsFiniteSet(Slots(T, v)) /\ Weight(T, v) = Cardinality(Slots(T, v))
  BY <1>4, WeightFinite DEF Weight
<1>7. QED
  BY <1>1, <1>4, <1>5, <1>6, SameCount DEF BMP!Room

LEMMA CallSpacious ==
  ASSUME IInv, Fits, Sized, GpuKept, RoomForAll,
         NEW res, NEW n, NEW id, NEW F, NEW G, NEW c, NEW p, NEW gq, NEW cq,
         Chosen(res, n, id, F, G, c, p, gq, cq), QueuesMatchDevices,
         Affords(Reqs, Snapshot, res, c, p, gq), NEW call, call = CallFor(res, id)
  PROVE  BMP!Spacious(call, BMP!LensWith(call))
<1>1. Start(n, id, F, G) /\ ToSet(p) \cup ToSet(c) = F
  BY DEF Chosen
<1>2. OwnRows(G, id) /\ G \subseteq Live
  <2>1. F \subseteq Arrived \ Finished /\ OwnRows(G, id)
    BY <1>1, StartRows
  <2>2. Holders \subseteq Arrived \ Finished
    BY Lengths
  <2>3. QED
    BY <1>1, <2>1, <2>2 DEF Start, Live
<1>3. PICK lens, w : lens = RowLensWith(id) /\ w = Needs(Reqs, SeqLen)
  OBVIOUS
<1>4. /\ (BMP!OnGpu \ BMP!Elems(call.swapOut)) \cup BMP!Elems(call.swapIn) = RowsOf(ToSet(gq), id)
      /\ (BMP!OnCpu \ BMP!Elems(call.swapIn)) \cup BMP!Elems(call.swapOut) = RowsOf(ToSet(cq), id)
      /\ BMP!Gprfs(call) = RowsOf(ToSet(p), id) /\ BMP!Cprfs(call) = RowsOf(ToSet(c), id)
      /\ BMP!LensWith(call) = lens
  BY <1>3, ChosenPlaces
<1>5. ToSet(gq) \subseteq G /\ ToSet(cq) \subseteq G /\ ToSet(p) \subseteq G /\ ToSet(c) \subseteq G
  BY ChosenSets
<1>6. PICK sg, sx, sc : /\ sg = ToSet(gq) \cup ToSet(p) /\ sx = ToSet(c)
                        /\ sc = ToSet(cq) \cup ToSet(c)
  OBVIOUS
<1>7. BMP!GpuRows(call) = RowsOf(sg, id) /\ BMP!Cprfs(call) = RowsOf(sx, id)
      /\ BMP!CpuRows(call) = RowsOf(sc, id)
  BY <1>4, <1>6 DEF BMP!GpuRows, BMP!CpuRows, RowsOf
<1>8. sg \subseteq G /\ sx \subseteq G /\ sc \subseteq G
  BY <1>5, <1>6
<1>9. Weighs(Live, w) /\ Weight(Live, w) <= NumCpu
  BY <1>3, SnapshotRoomy
<1>10. ASSUME NEW S, S \subseteq G PROVE Weighs(S, w) /\ Weight(S, w) <= Weight(Live, w)
  <2>1. S \subseteq Live /\ \A x \in S : w[x] \in Nat /\ w[x] <= w[x]
    BY <1>2, <1>9, <1>10 DEF Weighs
  <2>2. QED
    BY <1>9, <2>1, WeightSubset
<1>11. Snapshot.len = SeqLen
  BY DEF Snapshot
<1>12. Weight(sg, w) <= NumGpu /\ Weight(sx, w) <= NumGpu
  BY <1>3, <1>6, <1>11 DEF Affords
<1>13. Weight(sc, w) <= NumCpu
  <2>1. Weight(sc, w) \in Nat /\ Weight(Live, w) \in Nat
    BY <1>8, <1>9, <1>10, WeightFinite
  <2>2. QED
    BY <1>8, <1>9, <1>10, <2>1, Sizes
<1>14. ASSUME NEW S, S \subseteq G, NEW k, Weight(S, w) <= k PROVE BMP!Room(RowsOf(S, id), lens, k)
  <2>1. OwnRows(S, id)
    BY <1>2, <1>14 DEF OwnRows
  <2>2. Weighs(S, w)
    BY <1>10, <1>14
  <2>3. \A r \in S : w[r] = BlockNeeded(lens[id[r]])
    <3>1. \A r \in G : lens[id[r]] = SeqLen[r]
      BY <1>1, <1>3, StartLens
    <3>2. \A r \in G : r \in Reqs
      BY <1>1, StartRows
    <3>3. QED
      BY <1>3, <1>14, <3>1, <3>2 DEF Needs
  <2>4. QED
    BY <1>14, <2>1, <2>2, <2>3, RowsRoom
<1>15. QED
  BY <1>4, <1>7, <1>8, <1>12, <1>13, <1>14 DEF BMP!Spacious, Sized
(* The requests a batch runs, counted row by row.                          *)
LEMMA PlainSum == ASSUME NEW f PROVE BMP!SumFunction(f) = SumFunction(f)
BY DEF SumFunction, BMP!SumFunction, SumFunctionOnSet, BMP!SumFunctionOnSet,
       FoldFunctionOnSet, BMP!FoldFunctionOnSet, MapThenFoldSet, BMP!MapThenFoldSet

RowWidth(b, lens) ==
  LET all == BMP!AllReqs(b)
  IN BMP!SumFunction([i \in 1 .. Len(all) |-> IF all[i] \in BMP!Prefs(b) THEN lens[all[i]] ELSE 1])

LEMMA BatchWidth ==
  ASSUME NEW H, NEW id, OwnRows(H, id), NEW b, BatchIn(H, b), NEW q, q = BatchReqs(b),
         IsInjective(q), NEW lens, NEW load,
         \A x \in ToSet(q) : /\ load[x] \in Nat
                             /\ load[x] = IF x \in ToSet(b.cprf) \cup ToSet(b.gprf)
                                          THEN lens[id[x]] ELSE 1
  PROVE  /\ Len(BMP!AllReqs(RowBatch(b, id))) = Cardinality(ToSet(q))
         /\ RowWidth(RowBatch(b, id), lens) = Weight(ToSet(q), load)
         /\ Weighs(ToSet(q), load)
<1>1. PICK rows, x, all : /\ rows = RowBatch(b, id) /\ x = ToSet(b.cprf) \cup ToSet(b.gprf)
                          /\ all = BMP!AllReqs(rows)
  OBVIOUS
<1>2. q \in Seq(H) /\ all = Rows(q, id)
  BY <1>1, BatchList
<1>3. DOMAIN all = DOMAIN q /\ Len(all) = Len(q) /\ \A i \in DOMAIN q : all[i] = id[q[i]]
  <2>1. Len(Rows(q, id)) = Len(q)
    BY <1>2, RowList
  <2>2. QED
    BY <1>2, <2>1 DEF Rows
<1>4. BMP!Prefs(rows) = RowsOf(x, id)
  BY <1>1, BatchRows
<1>5. x \subseteq H
  <2>1. b.cprf \in Seq(H) /\ b.gprf \in Seq(H)
    BY DEF BatchIn
  <2>2. QED
    BY <1>1, <2>1 DEF ToSet
<1>6. ASSUME NEW i \in DOMAIN q
      PROVE  (IF all[i] \in BMP!Prefs(rows) THEN lens[all[i]] ELSE 1) = load[q[i]]
  <2>1. q[i] \in H /\ q[i] \in ToSet(q)
    BY <1>2 DEF ToSet
  <2>2. all[i] \in BMP!Prefs(rows) <=> q[i] \in x
    BY <1>3, <1>4, <1>5, <2>1 DEF RowsOf, OwnRows
  <2>3. load[q[i]] = IF q[i] \in x THEN lens[id[q[i]]] ELSE 1
    BY <1>1, <2>1
  <2>4. QED
    BY <1>3, <2>2, <2>3
<1>7. Len(q) \in Nat /\ DOMAIN q = 1 .. Len(q)
  BY <1>2
<1>8. RowWidth(rows, lens) = BMP!SumFunction([i \in DOMAIN q |-> load[q[i]]])
  <2>1. [i \in 1 .. Len(all) |-> IF all[i] \in BMP!Prefs(rows) THEN lens[all[i]] ELSE 1] =
          [i \in DOMAIN q |-> load[q[i]]]
    BY <1>3, <1>6, <1>7
  <2>2. QED
    BY <1>1, <2>1 DEF RowWidth
<1>9. /\ Weighs(ToSet(q), load)
      /\ SumFunction([i \in DOMAIN q |-> load[q[i]]]) = Weight(ToSet(q), load)
  <2>1. \A y \in ToSet(q) : load[y] \in Nat
    OBVIOUS
  <2>2. QED
    BY <1>2, <2>1, SumOfQueue
<1>10. Cardinality(ToSet(q)) = Len(q)
  BY <1>2, LenIsCardinality
<1>11. QED
  BY <1>1, <1>3, <1>8, <1>9, <1>10, PlainSum

(* What the requests of the batches bring to the linear layers: a prefill  *)
(* its whole length, a decode one token.                                   *)
Loads(load, batches, id, lens) ==
  \A k \in 1 .. Len(batches) : \A x \in ToSet(BatchReqs(batches[k])) :
    /\ load[x] \in Nat
    /\ load[x] = IF x \in ToSet(batches[k].cprf) \cup ToSet(batches[k].gprf)
                 THEN lens[id[x]] ELSE 1

(* One or two batches of different requests, counted together.             *)
LEMMA BatchesWidth ==
  ASSUME NEW H, NEW id, OwnRows(H, id), NEW batches, BatchesIn(H, batches),
         NEW run, run = ToSet(Running(batches)), IsInjective(Running(batches)),
         NEW lens, NEW load, Loads(load, batches, id, lens),
         NEW rows, rows = RowBatches(batches, id)
  PROVE  /\ BMP!BatchSize(rows) = Cardinality(run)
         /\ BMP!IterWidth(rows, lens) = Weight(run, load)
<1>1. Len(rows) = Len(batches)
  BY RowBatchList
<1>2. \A k \in 1 .. Len(batches) : rows[k] = RowBatch(batches[k], id)
  <2>1. BatchesIn(H, batches) /\ rows = RowBatches(batches, id)
    OBVIOUS
  <2>2. QED
    BY ONLY <2>1, RowBatchList
<1>3. /\ \A x : x \in run <=> \E k \in 1 .. Len(batches) : x \in ToSet(BatchReqs(batches[k]))
      /\ \A k \in 1 .. Len(batches) : IsInjective(BatchReqs(batches[k]))
      /\ \A k, l \in 1 .. Len(batches) :
           k # l => ToSet(BatchReqs(batches[k])) \cap ToSet(BatchReqs(batches[l])) = {}
  BY BatchesApart
<1>4. ASSUME NEW k \in 1 .. Len(batches)
      PROVE  /\ Len(BMP!AllReqs(rows[k])) = Cardinality(ToSet(BatchReqs(batches[k])))
             /\ RowWidth(rows[k], lens) = Weight(ToSet(BatchReqs(batches[k])), load)
             /\ Weighs(ToSet(BatchReqs(batches[k])), load)
  <2>1. PICK b, q : b = batches[k] /\ q = BatchReqs(b)
    OBVIOUS
  <2>2. BatchIn(H, b)
    BY <2>1 DEF BatchesIn
  <2>3. IsInjective(q)
    BY <1>3, <2>1
  <2>4. \A x \in ToSet(q) : /\ load[x] \in Nat
                            /\ load[x] = IF x \in ToSet(b.cprf) \cup ToSet(b.gprf)
                                         THEN lens[id[x]] ELSE 1
    BY <2>1 DEF Loads
  <2>5. q = BatchReqs(b)
    BY <2>1
  <2>6. /\ Len(BMP!AllReqs(RowBatch(b, id))) = Cardinality(ToSet(q))
        /\ RowWidth(RowBatch(b, id), lens) = Weight(ToSet(q), load)
        /\ Weighs(ToSet(q), load)
    BY ONLY OwnRows(H, id), <2>2, <2>3, <2>4, <2>5, BatchWidth
  <2>7. QED
    BY <1>2, <2>1, <2>6
<1>5. PICK m : m = Len(batches)
  OBVIOUS
<1>6. PICK s, l : /\ s = [k \in 1 .. m |-> Len(BMP!AllReqs(rows[k]))]
                  /\ l = [k \in 1 .. m |-> RowWidth(rows[k], lens)]
  OBVIOUS
<1>7. BMP!BatchSize(rows) = SumFunction(s) /\ BMP!IterWidth(rows, lens) = SumFunction(l)
  BY <1>1, <1>5, <1>6, PlainSum DEF BMP!BatchSize, BMP!IterWidth, RowWidth
<1>8. PICK t : t = [k \in 1 .. m |-> ToSet(BatchReqs(batches[k]))]
  OBVIOUS
<1>9. \A k \in 1 .. m : /\ s[k] = Cardinality(t[k]) /\ l[k] = Weight(t[k], load)
                        /\ Weighs(t[k], load) /\ IsFiniteSet(t[k])
                        /\ s[k] \in Nat /\ l[k] \in Nat
  <2>1. \A k \in 1 .. m : /\ s[k] = Cardinality(t[k]) /\ l[k] = Weight(t[k], load)
                          /\ Weighs(t[k], load)
    BY <1>4, <1>5, <1>6, <1>8
  <2>2. QED
    BY <2>1, WeightFinite, FS_CardinalityType DEF Weighs
<1>10. DOMAIN s = 1 .. m /\ DOMAIN l = 1 .. m
  BY <1>6
<1>11. m = 1 \/ m = 2
  BY <1>5 DEF BatchesIn
<1>12. CASE m = 1
  <2>1. run = t[1]
    <3>1. \A x : x \in run <=> \E k \in 1 .. m : x \in t[k]
      BY <1>3, <1>5, <1>8
    <3>2. QED
      BY ONLY <1>12, <3>1
  <2>2. DOMAIN s = {1} /\ DOMAIN l = {1} /\ 1 \in 1 .. m
    BY <1>10, <1>12
  <2>3. SumFunction(s) = s[1] /\ SumFunction(l) = l[1]
    BY <1>9, <2>2, SumOne
  <2>4. QED
    BY <1>7, <1>9, <2>1, <2>2, <2>3
<1>13. CASE m = 2
  <2>1. 1 \in 1 .. m /\ 2 \in 1 .. m
    BY <1>13
  <2>2. run = t[1] \cup t[2] /\ t[1] \cap t[2] = {}
    <3>1. \A k \in 1 .. m : k = 1 \/ k = 2
      BY <1>13
    <3>2. \A x : x \in run <=> \E k \in 1 .. m : x \in t[k]
      BY <1>3, <1>5, <1>8
    <3>3. run = t[1] \cup t[2]
      BY <2>1, <3>1, <3>2
    <3>4. PICK k, j : k = 1 /\ j = 2
      OBVIOUS
    <3>5. t[k] \cap t[j] = {}
      BY <1>3, <1>5, <1>8, <2>1, <3>4
    <3>6. QED
      BY <3>3, <3>4, <3>5
  <2>3. DOMAIN s = {1, 2} /\ DOMAIN l = {1, 2}
    BY <1>10, <1>13
  <2>4. SumFunction(s) = s[1] + s[2] /\ SumFunction(l) = l[1] + l[2]
    BY <1>9, <2>1, <2>3, SumTwo
  <2>5. Weight(run, load) = l[1] + l[2]
    <3>1. PICK a, b : a = t[1] /\ b = t[2]
      OBVIOUS
    <3>2. /\ Weighs(a, load) /\ Weighs(b, load) /\ a \cap b = {}
          /\ Weight(a, load) = l[1] /\ Weight(b, load) = l[2] /\ run = a \cup b
      BY <1>9, <2>1, <2>2, <3>1
    <3>3. Weight(a \cup b, load) = Weight(a, load) + Weight(b, load)
      <4>1. Weighs(a, load) /\ Weighs(b, load) /\ a \cap b = {}
        BY <3>2
      <4>2. QED
        BY ONLY <4>1, WeightJoin
    <3>4. QED
      BY <3>2, <3>3
  <2>6. Cardinality(run) = s[1] + s[2]
    <3>1. PICK a, b : a = t[1] /\ b = t[2]
      OBVIOUS
    <3>2. IsFiniteSet(a) /\ IsFiniteSet(b) /\ a \cap b = {}
      BY <1>9, <2>1, <2>2, <3>1
    <3>3. Cardinality(a \cup b) = Cardinality(a) + Cardinality(b) - Cardinality(a \cap b)
      BY <3>2, FS_Union
    <3>4. Cardinality(a \cap b) = 0 /\ Cardinality(a) \in Nat /\ Cardinality(b) \in Nat
      BY <3>2, FS_EmptySet, FS_CardinalityType
    <3>5. QED
      BY <1>9, <2>1, <2>2, <3>1, <3>3, <3>4
  <2>7. QED
    BY <1>7, <2>4, <2>5, <2>6
<1>14. QED
  BY <1>11, <1>12, <1>13

LEMMA PrefsRun ==
  ASSUME NEW H, NEW b, BatchIn(H, b)
  PROVE  \A x \in ToSet(b.cprf) \cup ToSet(b.gprf) : x \in ToSet(BatchReqs(b))
<1>1. PICK c, g, d, e : c = b.cprf /\ g = b.gprf /\ d = b.gdec /\ e = b.cdec
  OBVIOUS
<1>2. c \in Seq(H) /\ g \in Seq(H) /\ d \in Seq(H) /\ e \in Seq(H)
  BY <1>1 DEF BatchIn
<1>3. PICK x, y : x = c \o g /\ y = x \o d
  OBVIOUS
<1>4. x \in Seq(H) /\ y \in Seq(H)
  BY <1>2, <1>3
<1>5. ToSet(x) = ToSet(c) \cup ToSet(g)
  BY <1>2, <1>3, ConcatMembers
<1>6. ToSet(y) = ToSet(x) \cup ToSet(d)
  <2>1. x \in Seq(H) /\ d \in Seq(H)
    BY <1>2, <1>4
  <2>2. ToSet(x \o d) = ToSet(x) \cup ToSet(d)
    BY ONLY <2>1, ConcatMembers
  <2>3. QED
    BY <1>3, <2>2
<1>7. ToSet(y \o e) = ToSet(y) \cup ToSet(e)
  BY <1>2, <1>4, ConcatMembers
<1>8. BatchReqs(b) = y \o e
  BY <1>1, <1>3 DEF BatchReqs
<1>9. QED
  BY <1>1, <1>5, <1>6, <1>7, <1>8

(* prepare's assertions on the batches hold when the scheduler affords     *)
(* them.                                                                   *)
LEMMA ChosenLoad ==
  ASSUME IInv, Fits, NEW res, NEW n, NEW id, NEW F, NEW G, NEW c, NEW p, NEW gq, NEW cq,
         Chosen(res, n, id, F, G, c, p, gq, cq), NEW load, load = Load(Reqs, Snapshot, n)
  PROVE  Loads(load, res.batches, id, RowLensWith(id))
<1>1. PICK batches, lens : batches = res.batches /\ lens = RowLensWith(id)
  OBVIOUS
<1>2. /\ Start(n, id, F, G) /\ ToSet(p) \cup ToSet(c) = F
      /\ \A k \in 1 .. Len(batches) : Within(Reqs, batches[k], c, p, gq, cq)
      /\ batches[1].cprf = c /\ batches[1].gprf = p /\ Len(batches) \in {1, 2}
      /\ IsInjective(Running(batches))
  BY <1>1 DEF Chosen
<1>3. BatchesIn(G, batches)
  BY <1>1, ChosenSets
<1>4. \A k, l \in 1 .. Len(batches) :
        k # l => ToSet(BatchReqs(batches[k])) \cap ToSet(BatchReqs(batches[l])) = {}
  BY <1>2, <1>3, BatchesApart
<1>5. /\ G \subseteq Reqs /\ F \subseteq G
      /\ \A x \in F : SeqLen[x] = plen[x]
      /\ \A x \in G : lens[id[x]] = SeqLen[x] /\ plen[x] \in Nat
  <2>1. F \subseteq Arrived \ Finished /\ G \subseteq Reqs /\ \A x \in F : SeqLen[x] = plen[x]
    BY <1>2, StartRows
  <2>2. \A x \in G : lens[id[x]] = SeqLen[x]
    BY <1>1, <1>2, StartLens
  <2>3. \A x \in Reqs : plen[x] \in Nat
    BY Lengths
  <2>4. QED
    BY <1>2, <2>1, <2>2, <2>3 DEF Start
<1>6. \A x \in G : load[x] = IF x \in F THEN plen[x] ELSE 1
  <2>1. Snapshot.waiting = waiting /\ Snapshot.plen = plen
    BY DEF Snapshot
  <2>2. ToSet(First(Snapshot.waiting, n)) = F
    BY <1>2, <2>1 DEF Start
  <2>3. QED
    BY <1>5, <2>1, <2>2 DEF Load
<1>7. ASSUME NEW k \in 1 .. Len(batches), NEW x \in ToSet(BatchReqs(batches[k]))
      PROVE  x \in G /\ (x \in F <=> x \in ToSet(batches[k].cprf) \cup ToSet(batches[k].gprf))
  <2>1. PICK b, a, q : b = batches[k] /\ a = batches[1] /\ q = BatchReqs(b)
    OBVIOUS
  <2>2. 1 \in 1 .. Len(batches)
    <3>1. Len(batches) = 1 \/ Len(batches) = 2
      BY <1>2
    <3>2. QED
      BY ONLY <3>1, FirstOfTwo
  <2>3. BatchIn(G, b) /\ BatchIn(G, a)
    BY <1>3, <2>1, <2>2 DEF BatchesIn
  <2>4. q \in Seq(G) /\ x \in ToSet(q)
    BY <2>1, <2>3, BatchList
  <2>5. x \in G
    BY <2>4 DEF ToSet
  <2>6. ToSet(b.cprf) \cup ToSet(b.gprf) \subseteq F
    BY <1>2, <2>1 DEF Within
  <2>7. ASSUME x \in F PROVE x \in ToSet(b.cprf) \cup ToSet(b.gprf)
    <3>1. x \in ToSet(a.cprf) \cup ToSet(a.gprf)
      BY <1>2, <2>1, <2>7
    <3>2. CASE k = 1
      BY <2>1, <3>1, <3>2
    <3>3. CASE k # 1
      <4>1. x \in ToSet(BatchReqs(a))
        BY <2>3, <3>1, PrefsRun
      <4>2. PICK l : l = 1
        OBVIOUS
      <4>3. ToSet(BatchReqs(batches[k])) \cap ToSet(BatchReqs(batches[l])) = {}
        BY <1>4, <2>2, <3>3, <4>2
      <4>4. QED
        BY <2>1, <4>1, <4>2, <4>3
    <3>4. QED
      BY <3>2, <3>3
  <2>8. QED
    BY <2>1, <2>5, <2>6, <2>7
<1>8. ASSUME NEW k \in 1 .. Len(batches), NEW x \in ToSet(BatchReqs(batches[k]))
      PROVE  /\ load[x] \in Nat
             /\ load[x] = IF x \in ToSet(batches[k].cprf) \cup ToSet(batches[k].gprf)
                          THEN lens[id[x]] ELSE 1
  <2>1. x \in G /\ (x \in F <=> x \in ToSet(batches[k].cprf) \cup ToSet(batches[k].gprf))
    BY <1>7
  <2>2. load[x] = IF x \in F THEN plen[x] ELSE 1
    BY <1>6, <2>1
  <2>3. x \in F => lens[id[x]] = plen[x]
    BY <1>5, <2>1
  <2>4. QED
    BY <1>5, <2>1, <2>2, <2>3
<1>9. QED
  BY <1>1, <1>8 DEF Loads

LEMMA CallAsserts ==
  ASSUME IInv, Fits, QueuesMatchDevices,
         NEW res, NEW n, NEW id, NEW F, NEW G, NEW c, NEW p, NEW gq, NEW cq,
         Chosen(res, n, id, F, G, c, p, gq, cq), n = NumPrefs(res.batches), res.batches # << >>,
         Affords(Reqs, Snapshot, res, c, p, gq), NEW call, call = CallFor(res, id)
  PROVE  BMP!PrepareAsserts(call.batches, call.swapOut, call.swapIn, BMP!LensWith(call))
<1>1. PICK batches, rows, lens, load, run :
        /\ batches = res.batches /\ rows = RowBatches(batches, id) /\ lens = RowLensWith(id)
        /\ load = Load(Reqs, Snapshot, n) /\ run = ToSet(Running(batches))
  OBVIOUS
<1>2. BMP!LensWith(call) = lens
  BY <1>1, ChosenPlaces
<1>3. call.batches = rows /\ call.swapOut = Rows(res.swapOut, id) /\ call.swapIn = Rows(res.swapIn, id)
  BY <1>1 DEF CallFor
<1>4. BatchesIn(G, batches)
  BY <1>1, ChosenSets
<1>5. OwnRows(G, id)
  <2>1. Start(n, id, F, G)
    BY DEF Chosen
  <2>2. QED
    BY <2>1, StartRows
<1>6. IsInjective(Running(batches)) /\ Len(batches) \in {1, 2}
      /\ (res.swapOut = << >> \/ res.swapIn = << >>)
  BY <1>1 DEF Chosen
<1>7. Loads(load, batches, id, lens)
  BY <1>1, ChosenLoad
<1>8. /\ BMP!BatchSize(rows) = Cardinality(run)
      /\ BMP!IterWidth(rows, lens) = Weight(run, load)
  <2>1. rows = RowBatches(batches, id) /\ run = ToSet(Running(batches))
    BY <1>1
  <2>2. IsInjective(Running(batches))
    BY <1>6
  <2>3. QED
    BY ONLY <1>4, <1>5, <1>7, <2>1, <2>2, BatchesWidth
<1>9. Weight(run, load) <= MaxTokens /\ Cardinality(run) <= MaxBatch
  BY <1>1 DEF Affords
<1>10. Len(rows) = Len(batches) /\ \A k \in 1 .. Len(batches) : rows[k] = RowBatch(batches[k], id)
  <2>1. BatchesIn(G, batches) /\ rows = RowBatches(batches, id)
    BY <1>1, <1>4
  <2>2. Len(rows) = Len(batches)
    BY ONLY <2>1, RowBatchList
  <2>3. \A k \in 1 .. Len(batches) : rows[k] = RowBatch(batches[k], id)
    BY ONLY <2>1, RowBatchList
  <2>4. QED
    BY <2>2, <2>3
<1>11. ASSUME NEW k \in 1 .. Len(rows) PROVE BMP!AllReqs(rows[k]) # << >>
  <2>1. PICK b, q : b = batches[k] /\ q = BatchReqs(b)
    OBVIOUS
  <2>2. BatchIn(G, b)
    BY <1>4, <1>10, <2>1 DEF BatchesIn
  <2>3. q \in Seq(G) /\ BMP!AllReqs(RowBatch(b, id)) = Rows(q, id)
    BY <2>1, <2>2, BatchList
  <2>4. q # << >>
    BY <1>1, <1>10, <2>1 DEF Affords, Full
  <2>5. Rows(q, id) # << >>
    <3>1. Len(Rows(q, id)) = Len(q)
      BY <1>5, <2>3, RowList
    <3>2. Len(q) # 0
      BY ONLY <2>3, <2>4
    <3>3. QED
      BY <3>1, <3>2
  <2>6. QED
    BY <1>10, <2>1, <2>3, <2>5
<1>12. Rows(res.swapOut, id) = << >> \/ Rows(res.swapIn, id) = << >>
  <2>1. \A q : q = << >> => Rows(q, id) = << >>
    BY DEF Rows
  <2>2. QED
    BY <1>6, <2>1
<1>13. QED
  BY <1>2, <1>3, <1>6, <1>8, <1>9, <1>10, <1>11, <1>12 DEF BMP!PrepareAsserts

(* With room for all, every result of get_next_batch that asks for         *)
(* anything is carried out.                                                *)
LEMMA NeverRaises ==
  ASSUME DevInv, Sized, GpuKept, RoomForAll, pc = "sched", NEW mode, NEW res \in NextBatches(mode),
         ~NothingToDo(res)
  PROVE  Succeeds(res)
<1>1. IInv /\ Fits /\ QueuesMatchDevices /\ BMP!IInv
  BY DEF DevInv
<1>2. /\ Orderly(Reqs, Snapshot) /\ Feasible(Reqs, Snapshot) /\ Roomy(Reqs, Snapshot)
      /\ numGpuBlocks \in Nat
  BY <1>1, SnapshotFeasible, SnapshotRoomy DEF IInv, QueueTypes
<1>3. res \in NextBatchNew(Snapshot) \cup NextBatchOld(Snapshot)
  BY DEF NextBatches
<1>4. PICK c, p, gq, cq : /\ Placing(Reqs, Snapshot, res, c, p, gq, cq)
                          /\ Affords(Reqs, Snapshot, res, c, p, gq)
  BY <1>2, <1>3, SchedulerAffords
<1>5. /\ res.ok /\ (res.swapOut = << >> \/ res.swapIn = << >>) /\ res.batches # << >>
      /\ Full(res.batches)
  BY <1>4 DEF Affords, NothingToDo
<1>6. Len(res.batches) \in {1, 2}
  <2>1. Promised(Reqs, Snapshot, res)
    BY <1>2, <1>3, SchedulerPromise
  <2>2. QED
    BY <1>5, <2>1 DEF Promised, Ready
<1>7. BatchReqs(res.batches[1]) # << >>
  <2>1. Len(res.batches) = 1 \/ Len(res.batches) = 2
    BY <1>6
  <2>2. 1 \in 1 .. Len(res.batches)
    BY ONLY <2>1, FirstOfTwo
  <2>3. QED
    BY <1>5, <2>2 DEF Full
<1>8. PICK n, F, G, id : /\ n = NumPrefs(res.batches) /\ F = ToSet(First(waiting, n))
                         /\ G = Holders \cup F /\ id = GivenIds(n)
  OBVIOUS
<1>9. Chosen(res, n, id, F, G, c, p, gq, cq)
  BY <1>1, <1>4, <1>5, <1>7, <1>8, Chooses
<1>10. PICK call : call = CallFor(res, id)
  OBVIOUS
<1>11. BMP!LegalCall(call) /\ BMP!LensWith(call) = RowLensWith(id)
  BY <1>1, <1>9, <1>10, ChosenPlaces
<1>12. BMP!Spacious(call, BMP!LensWith(call))
  BY <1>1, <1>4, <1>9, <1>10, CallSpacious
<1>13. BMP!PrepareAsserts(call.batches, call.swapOut, call.swapIn, BMP!LensWith(call))
  BY <1>1, <1>4, <1>5, <1>8, <1>9, <1>10, CallAsserts
<1>14. BMP!Prepared(call).gpu.ok /\ BMP!Prepared(call).cpu.ok
  <2>1. (call.swapOut = << >> \/ call.swapIn = << >>) /\ Len(call.batches) \in {1, 2}
    BY <1>13 DEF BMP!PrepareAsserts
  <2>2. QED
    BY <1>1, <1>11, <1>12, <2>1, Sizes, BMP!PrepareRuns
<1>15. PrepareAsserts(res, id) /\ PreparedDevices(res, id) = BMP!Prepared(call)
  BY <1>10, <1>11, <1>13, CallDoes
<1>16. QED
  BY <1>5, <1>8, <1>14, <1>15 DEF Succeeds

(* A step that leaves the requests alone leaves room or none.              *)
LEMMA SameRoom ==
  ASSUME plen' = plen, olen' = olen, mlen' = mlen
  PROVE  RoomForAll' <=> RoomForAll
<1>1. Arrived' = Arrived
  BY DEF Arrived
<1>2. Finished' = Finished
  BY <1>1 DEF Finished
<1>3. SeqLen' = SeqLen
  BY DEF SeqLen
<1>4. QED
  BY <1>1, <1>2, <1>3 DEF RoomForAll

LEMMA StepDies ==
  ASSUME Sized, DevInv, GpuKept, DiesOnlyWhenFull, [Next]_vars
  PROVE  DiesOnlyWhenFull'
<1>1. SUFFICES ASSUME pc' = "dead" PROVE ~RoomForAll'
  BY DEF DiesOnlyWhenFull
<1>2. CASE pc = "dead"
  <2>1. ~Next
    BY <1>2 DEF Next, Step, Arrive, Schedule, Sleep, Raise, Wake, Complete
  <2>2. plen' = plen /\ olen' = olen /\ mlen' = mlen
    BY <2>1 DEF vars
  <2>3. QED
    BY <1>2, <2>2, SameRoom DEF DiesOnlyWhenFull
<1>3. CASE pc # "dead"
  <2>1. Next
    BY <1>1, <1>3 DEF vars
  <2>2. PICK mode \in ModesNow : Raise(mode)
    BY <1>1, <1>3, <2>1 DEF Next, Step, Arrive, Schedule, Sleep, Wake, Complete
  <2>3. PICK res \in NextBatches(mode) : ~NothingToDo(res) /\ ~Succeeds(res)
    BY <2>2 DEF Raise
  <2>4. pc = "sched" /\ plen' = plen /\ olen' = olen /\ mlen' = mlen
    BY <2>2 DEF Raise
  <2>5. ~RoomForAll
    BY <2>3, <2>4, NeverRaises
  <2>6. QED
    BY <2>4, <2>5, SameRoom
<1>4. QED
  BY <1>2, <1>3

(* With the intermediate layer, on a GPU that holds the longest sequence,  *)
(* the server dies only of more requests than the block table or the CPU   *)
(* has room for: every exception the iteration can raise, whatever the     *)
(* predictor answers, is raised in a state that is full.                   *)
THEOREM DiesOnlyFull == ASSUME Sized PROVE Spec => []DiesOnlyWhenFull
<1> DEFINE J == GpuKept /\ DiesOnlyWhenFull
<1>1. Init => J
  BY InitKept DEF Init, DiesOnlyWhenFull
<1>2. DevInv /\ J /\ [Next]_vars => J'
  BY StepKept, StepDies DEF DevInv
<1>3. J => DiesOnlyWhenFull
  OBVIOUS
<1> HIDE DEF J
<1>4. QED
  BY <1>1, <1>2, <1>3, DevicesInvariant, PTL DEF Spec

(* How many requests may be sent at all: one row each in the block table,  *)
(* and on the CPU the blocks of as many sequences of the greatest length.  *)
Ample == NumReqs <= MaxIds /\ NumReqs * BlockNeeded(MaxLen - 1) <= NumCpu

LEMMA AmpleRoom ==
  ASSUME IInv, Fits, Sized, Ample
  PROVE  RoomForAll
<1>1. PICK f, L, b : /\ L = Live /\ f = [r \in L |-> BlockNeeded(SeqLen[r])]
                     /\ b = BlockNeeded(MaxLen - 1)
  OBVIOUS
<1>2. \A r \in L : f[r] \in Nat /\ f[r] <= b /\ f[r] > 0
  BY <1>1, LiveBlocks
<1>3. IsFiniteSet(L) /\ DOMAIN f = L
  BY <1>1, LiveFinite
<1>4. Weighs(L, f)
  BY <1>2, <1>3 DEF Weighs
<1>5. SumFunction(f) = Weight(L, f) /\ Weight(L, f) \in Nat
  BY <1>3, <1>4, SumIsWeight, WeightFinite
<1>6. Cardinality(L) <= NumReqs /\ Cardinality(L) \in Nat /\ NumReqs \in Nat
  <2>1. L \subseteq Reqs
    BY <1>1 DEF Live, Arrived
  <2>2. NumReqs \in Nat
    BY EngineAssumption
  <2>3. IsFiniteSet(Reqs) /\ Cardinality(Reqs) = NumReqs
    <3>1. IsFiniteSet(1 .. NumReqs)
          /\ Cardinality(1 .. NumReqs) = IF 1 > NumReqs THEN 0 ELSE NumReqs - 1 + 1
      BY <2>2, FS_Interval
    <3>2. QED
      BY <2>2, <3>1 DEF Reqs
  <2>4. QED
    BY <1>3, <2>1, <2>2, <2>3, FS_Subset, FS_CardinalityType
<1>7. Weight(L, f) <= NumCpu
  <2>1. CASE L = {}
    <3>1. 0 \in Nat /\ \A r \in L : f[r] \in Nat /\ f[r] <= 0
      BY <2>1
    <3>2. Weight(L, f) <= Cardinality(L) * 0
      BY <1>3, <3>1, WeightCount
    <3>3. QED
      BY <1>5, <1>6, <3>2, Sizes
  <2>2. CASE L # {}
    <3>1. MaxLen - 1 \in Nat
      <4>1. \A r \in L : SeqLen[r] \in Nat /\ SeqLen[r] <= MaxLen - 1
        BY <1>1, LiveLens
      <4>2. QED
        BY <2>2, <4>1, Sizes
    <3>2. b \in Nat
      BY <1>1, <3>1, BlockNeededHolds
    <3>3. Weight(L, f) <= Cardinality(L) * b
      BY <1>2, <1>3, <3>2, WeightCount
    <3>4. Cardinality(L) * b <= NumReqs * b
      BY <1>6, <3>2, Times
    <3>5. NumReqs * b <= NumCpu /\ NumReqs * b \in Nat /\ Cardinality(L) * b \in Nat
      BY <1>1, <1>6, <3>2 DEF Ample
    <3>6. QED
      BY <1>5, <3>3, <3>4, <3>5, Sizes
  <2>3. QED
    BY <2>1, <2>2
<1>8. Cardinality(L) <= MaxIds
  BY <1>6, EngineAssumption DEF Ample
<1>9. QED
  BY <1>1, <1>5, <1>7, <1>8 DEF RoomForAll, Live

(* Where there is room for all requests that will ever be sent, the server *)
(* never dies.                                                             *)
THEOREM EngineLives == ASSUME Sized, Ample PROVE Spec => []EngineNeverDies
<1>1. DevInv /\ DiesOnlyWhenFull => EngineNeverDies
  BY AmpleRoom DEF DevInv, DiesOnlyWhenFull, EngineNeverDies
<1>2. QED
  BY <1>1, DevicesInvariant, DiesOnlyFull, PTL
=============================================================================
