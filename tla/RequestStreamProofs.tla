------------------------- MODULE RequestStreamProofs -------------------------
(***************************************************************************)
(* Proofs about RequestStream: the types, that text prompts enter the      *)
(* scheduler in order and none is dropped, and that a stream yields its    *)
(* tokens in order.  The three are proved together with what an            *)
(* undescribed request looks like and which requests are where, which no   *)
(* action says for itself.                                                 *)
(***************************************************************************)
EXTENDS RequestStream, QueuesProofs

(* A client that has not submitted has no tokens and is in no list.        *)
NothingYet(c) ==
  kind[c] = "none" =>
    outLen[c] = 0 /\ outQ[c] = << >> /\ got[c] = << >> /\ c \notin ToSet(entered)

(* Streams do not wait for the end of the request.                         *)
WaitersDoNotStream ==
  \A c \in Clients : handler[c] = "waiting" => kind[c] \in {"text", "tokens"}

(* What is yet to be tokenized was submitted as text.                      *)
TextPending == ToSet(batch) \cup ToSet(untok) \subseteq {c \in Clients : kind[c] \in {"stream", "text"}}

IInv ==
  /\ TypeOK /\ StreamInOrder /\ NoRequestDropped
  /\ \A c \in Clients : NothingYet(c)
  /\ WaitersDoNotStream /\ TextPending

(* The requests that NoRequestDropped follows.                             *)
Texts == {c \in Clients : kind[c] # "tokens"}

-----------------------------------------------------------------------------
LEMMA InitHolds == Init => IInv
<1> SUFFICES ASSUME Init PROVE IInv
  OBVIOUS
<1>1. ASSUME NEW A PROVE << >> \in Seq(A) /\ Len(<< >>) = 0 /\ ToSet(<< >>) = {}
  BY DEF ToSet
<1>2. \A c \in Clients : kind[c] = "none" /\ handler[c] = "none" /\ outLen[c] = 0
                         /\ outQ[c] = << >> /\ got[c] = << >>
  BY DEF Init
<1>3. untok = << >> /\ batch = << >> /\ entered = << >> /\ submitted = << >>
  BY DEF Init
<1>4. TypeOK
  BY <1>1 DEF Init, TypeOK
<1>5. StreamInOrder
  BY <1>2 DEF StreamInOrder
<1>6. NoRequestDropped
  BY <1>3, KeptNone DEF NoRequestDropped
<1>7. (\A c \in Clients : NothingYet(c)) /\ WaitersDoNotStream /\ TextPending
  BY <1>1, <1>2, <1>3 DEF NothingYet, WaitersDoNotStream, TextPending
<1>8. QED
  BY <1>4, <1>5, <1>6, <1>7 DEF IInv

(* A stream of a request that has no tokens yet is in order.               *)
LEMMA NoneInOrder == << >> \o << >> = [i \in 1 .. 0 |-> i]
OBVIOUS

(* Describing a request that nothing is known of changes no stream.        *)
LEMMA DescribeKeepsOrder ==
  ASSUME IInv, NEW c \in Clients, NEW k, NEW m, NEW f, Describe(c, k, m, f),
         UNCHANGED <<outLen, outQ, got>>
  PROVE  StreamInOrder'
<1> SUFFICES ASSUME NEW d \in Clients, kind'[d] = "stream"
             PROVE  got[d] \o outQ[d] = [i \in 1 .. outLen[d] |-> i]
  BY DEF StreamInOrder
<1>1. CASE d = c
  BY <1>1, NoneInOrder DEF IInv, NothingYet, Describe
<1>2. CASE d # c
  BY <1>2 DEF IInv, StreamInOrder, Describe, TypeOK
<1>3. QED
  BY <1>1, <1>2

LEMMA SubmitTextKeeps ==
  ASSUME IInv, NEW c \in Clients, NEW k \in {"stream", "text"}, NEW m \in Outputs,
         NEW f \in BOOLEAN, SubmitText(c, k, m, f)
  PROVE  IInv'
<1> USE DEF IInv
<1>1. /\ kind[c] = "none" /\ kind' = [kind EXCEPT ![c] = k]
      /\ want' = [want EXCEPT ![c] = m] /\ fits' = [fits EXCEPT ![c] = f]
      /\ untok' = Append(untok, c) /\ submitted' = Append(submitted, c)
      /\ handler' = [handler EXCEPT ![c] = IF k = "stream" THEN "getting" ELSE "waiting"]
      /\ UNCHANGED <<batch, entered, outLen, outQ, got, up>>
  BY DEF SubmitText, Describe
<1>2. /\ {untok, batch, entered, submitted} \subseteq Seq(Clients)
      /\ kind \in [Clients -> {"none", "stream", "text", "tokens"}]
  BY DEF TypeOK
<1>3. TypeOK'
  <2>1. untok' \in Seq(Clients) /\ submitted' \in Seq(Clients)
    BY <1>1, <1>2
  <2>2. \A d \in Clients : outLen'[d] \in 0 .. want'[d]
    BY <1>1, StreamAssumption DEF TypeOK, NothingYet
  <2>3. QED
    BY <1>1, <2>1, <2>2 DEF TypeOK
<1>4. StreamInOrder'
  BY <1>1, DescribeKeepsOrder DEF SubmitText
<1>5. NoRequestDropped'
  <2>1. Kept(entered, Texts') = Kept(entered, Texts)
    <3>1. \A d \in ToSet(entered) : d \in Texts' <=> d \in Texts
      BY <1>1, <1>2 DEF Texts, NothingYet
    <3>2. QED
      BY <1>2, <3>1, KeptSame
  <2>2. PICK K \in Seq(Clients) : K = Kept(entered, Texts) \o batch
    <3>1. entered \in Seq(Clients) /\ batch \in Seq(Clients)
      BY <1>2
    <3>2. Kept(entered, Texts) \in Seq(Clients)
      BY <3>1, KeptMembers
    <3>3. Kept(entered, Texts) \o batch \in Seq(Clients)
      BY <3>1, <3>2, ConcatProperties
    <3>4. QED
      BY <3>3
  <2>3. K \o Append(untok, c) = Append(K \o untok, c)
    BY <1>2
  <2>4. Kept(entered, Texts) \o batch \o untok = submitted
    BY DEF NoRequestDropped, Texts
  <2>5. Kept(entered', Texts') \o batch' \o untok' = submitted'
    BY <1>1, <2>1, <2>2, <2>3, <2>4
  <2>6. QED
    BY <2>5 DEF NoRequestDropped, Texts
<1>6. ASSUME NEW d \in Clients PROVE NothingYet(d)'
  BY <1>1, <1>2 DEF NothingYet
<1>7. WaitersDoNotStream'
  BY <1>1, <1>2 DEF WaitersDoNotStream, TypeOK
<1>8. TextPending'
  <2>1. ToSet(untok') = ToSet(untok) \cup {c}
    <3>1. untok \in Seq(Clients)
      BY <1>2
    <3>2. QED
      BY <1>1, <3>1, AppendMembers
  <2>2. QED
    BY <1>1, <1>2, <2>1 DEF TextPending
<1>9. QED
  BY <1>3, <1>4, <1>5, <1>6, <1>7, <1>8

LEMMA SubmitTokensKeeps ==
  ASSUME IInv, NEW c \in Clients, NEW m \in Outputs, NEW f \in BOOLEAN, SubmitTokens(c, m, f)
  PROVE  IInv'
<1> USE DEF IInv
<1>1. /\ kind[c] = "none" /\ kind' = [kind EXCEPT ![c] = "tokens"]
      /\ want' = [want EXCEPT ![c] = m] /\ fits' = [fits EXCEPT ![c] = f]
      /\ entered' = IF f THEN Append(entered, c) ELSE entered
      /\ handler' = [handler EXCEPT ![c] = IF f THEN "waiting" ELSE "refused"]
      /\ UNCHANGED <<untok, batch, outLen, outQ, got, up, submitted>>
  BY DEF SubmitTokens, Describe
<1>2. /\ {untok, batch, entered, submitted} \subseteq Seq(Clients)
      /\ kind \in [Clients -> {"none", "stream", "text", "tokens"}]
  BY DEF TypeOK
<1>3. TypeOK'
  <2>1. entered' \in Seq(Clients)
    BY <1>1, <1>2
  <2>2. \A d \in Clients : outLen'[d] \in 0 .. want'[d]
    BY <1>1, StreamAssumption DEF TypeOK, NothingYet
  <2>3. QED
    BY <1>1, <2>1, <2>2 DEF TypeOK
<1>4. StreamInOrder'
  BY <1>1, DescribeKeepsOrder DEF SubmitTokens
<1>5. NoRequestDropped'
  <2>1. Kept(entered, Texts') = Kept(entered, Texts)
    <3>1. \A d \in ToSet(entered) : d \in Texts' <=> d \in Texts
      BY <1>1, <1>2 DEF Texts, NothingYet
    <3>2. QED
      BY <1>2, <3>1, KeptSame
  <2>2. c \notin Texts'
    BY <1>1, <1>2 DEF Texts
  <2>3. Kept(Append(entered, c), Texts') = Kept(entered, Texts')
    BY <1>2, <2>2, KeptAppend
  <2>4. Kept(entered', Texts') = Kept(entered, Texts)
    BY <1>1, <2>1, <2>3
  <2>5. Kept(entered', Texts') \o batch' \o untok' = submitted'
    BY <1>1, <2>4 DEF NoRequestDropped, Texts
  <2>6. QED
    BY <2>5 DEF NoRequestDropped, Texts
<1>6. ASSUME NEW d \in Clients PROVE NothingYet(d)'
  <2>1. ToSet(Append(entered, c)) = ToSet(entered) \cup {c}
    BY <1>2 DEF ToSet
  <2>2. QED
    BY <1>1, <1>2, <2>1 DEF NothingYet
<1>7. WaitersDoNotStream'
  BY <1>1, <1>2 DEF WaitersDoNotStream, TypeOK
<1>8. TextPending'
  BY <1>1, <1>2 DEF TextPending
<1>9. QED
  BY <1>3, <1>4, <1>5, <1>6, <1>7, <1>8

(* A token that moves from the head of one list to the end of another.     *)
LEMMA HeadMoves ==
  ASSUME NEW S, NEW g \in Seq(S), NEW q \in Seq(S), q # << >>
  PROVE  Append(g, Head(q)) \o Tail(q) = g \o q
<1>1. PICK h, t : h = <<Head(q)>> /\ t = Tail(q)
  OBVIOUS
<1>2. h \in Seq(S) /\ t \in Seq(S)
  BY <1>1
<1>3. Append(g, Head(q)) = g \o h /\ h \o t = q
  BY <1>1
<1>4. (g \o h) \o t = g \o (h \o t)
  BY ONLY <1>2, g \in Seq(S), ConcatAssociative
<1>5. QED
  BY <1>1, <1>3, <1>4

LEMMA GetKeeps ==
  ASSUME IInv, NEW c \in Clients, Get(c)
  PROVE  IInv'
<1> USE DEF IInv
<1>1. /\ handler[c] = "getting" /\ outQ[c] # << >>
      /\ got' = [got EXCEPT ![c] = Append(@, Head(outQ[c]))]
      /\ outQ' = [outQ EXCEPT ![c] = Tail(@)]
      /\ handler' = [handler EXCEPT ![c] = "sending"]
      /\ UNCHANGED <<kind, fits, want, untok, batch, entered, outLen, up, submitted>>
  BY DEF Get
<1>2. outQ[c] \in Seq(Nat) /\ got[c] \in Seq(Nat)
  BY DEF TypeOK
<1>3. TypeOK'
  <2>1. Append(got[c], Head(outQ[c])) \in Seq(Nat) /\ Tail(outQ[c]) \in Seq(Nat)
    BY <1>1, <1>2
  <2>2. QED
    BY <1>1, <2>1 DEF TypeOK
<1>4. StreamInOrder'
  <2>1. ASSUME NEW g \in Seq(Nat), NEW q \in Seq(Nat), q # << >>
        PROVE  Append(g, Head(q)) \o Tail(q) = g \o q
    BY ONLY q \in Seq(Nat), g \in Seq(Nat), <2>1, HeadMoves
  <2>2. got'[c] \o outQ'[c] = got[c] \o outQ[c]
    BY <1>1, <1>2, <2>1 DEF TypeOK
  <2>3. \A d \in Clients : got'[d] \o outQ'[d] = got[d] \o outQ[d]
    BY <1>1, <2>2 DEF TypeOK
  <2>4. QED
    BY <1>1, <2>3 DEF StreamInOrder
<1>5. NoRequestDropped' /\ TextPending'
  BY <1>1 DEF NoRequestDropped, TextPending
<1>6. ASSUME NEW d \in Clients PROVE NothingYet(d)'
  <2>1. kind[c] # "none"
    BY <1>1 DEF NothingYet
  <2>2. QED
    BY <1>1, <2>1 DEF NothingYet, TypeOK
<1>7. WaitersDoNotStream'
  BY <1>1 DEF WaitersDoNotStream, TypeOK
<1>8. QED
  BY <1>3, <1>4, <1>5, <1>6, <1>7

LEMMA AnswerKeeps ==
  ASSUME IInv, NEW c \in Clients, Answer(c)
  PROVE  IInv'
<1> USE DEF IInv
<1>1. /\ handler[c] = "waiting"
      /\ handler' = [handler EXCEPT ![c] = "answered"]
      /\ got' = [got EXCEPT ![c] = outQ[c]]
      /\ UNCHANGED <<kind, fits, want, untok, batch, entered, outLen, outQ, up, submitted>>
  BY DEF Answer
<1>2. kind[c] \in {"text", "tokens"}
  BY <1>1 DEF WaitersDoNotStream
<1>3. TypeOK'
  BY <1>1 DEF TypeOK
<1>4. StreamInOrder'
  BY <1>1, <1>2 DEF StreamInOrder, TypeOK
<1>5. NoRequestDropped' /\ TextPending'
  BY <1>1 DEF NoRequestDropped, TextPending
<1>6. ASSUME NEW d \in Clients PROVE NothingYet(d)'
  BY <1>1, <1>2 DEF NothingYet, TypeOK
<1>7. WaitersDoNotStream'
  BY <1>1 DEF WaitersDoNotStream, TypeOK
<1>8. QED
  BY <1>3, <1>4, <1>5, <1>6, <1>7

(* A step of a handler that only moves it on.                              *)
LEMMA HandlerKeeps ==
  ASSUME IInv, NEW c \in Clients, Resume(c) \/ Disconnect(c)
  PROVE  IInv'
<1> USE DEF IInv
<1>1. /\ \E h \in {"ended", "getting", "gone"} : handler' = [handler EXCEPT ![c] = h]
      /\ UNCHANGED <<kind, fits, want, untok, batch, entered, outLen, outQ, got, up, submitted>>
  BY DEF Resume, Disconnect
<1>2. TypeOK' /\ WaitersDoNotStream'
  BY <1>1 DEF TypeOK, WaitersDoNotStream
<1>3. StreamInOrder' /\ NoRequestDropped' /\ TextPending' /\ \A d \in Clients : NothingYet(d)'
  BY <1>1 DEF StreamInOrder, NoRequestDropped, TextPending, NothingYet
<1>4. QED
  BY <1>2, <1>3

LEMMA TakeUntokenizedKeeps ==
  ASSUME IInv, TakeUntokenized
  PROVE  IInv'
<1> USE DEF IInv
<1>1. /\ batch = << >> /\ batch' = untok /\ untok' = << >>
      /\ UNCHANGED <<kind, fits, want, entered, outLen, outQ, got, handler, up, submitted>>
  BY DEF TakeUntokenized
<1>2. untok \in Seq(Clients) /\ entered \in Seq(Clients) /\ ToSet(<< >>) = {}
  BY DEF TypeOK, ToSet
<1>3. TypeOK'
  BY <1>1 DEF TypeOK
<1>4. NoRequestDropped'
  <2>1. PICK K \in Seq(Clients) : K = Kept(entered, Texts)
    BY <1>2, KeptMembers
  <2>2. (K \o << >>) \o untok = (K \o untok) \o << >>
    BY <1>2
  <2>3. QED
    BY <1>1, <2>1, <2>2 DEF NoRequestDropped, Texts
<1>5. StreamInOrder' /\ WaitersDoNotStream' /\ \A d \in Clients : NothingYet(d)'
  BY <1>1 DEF StreamInOrder, WaitersDoNotStream, NothingYet
<1>6. TextPending'
  BY <1>1, <1>2 DEF TextPending
<1>7. QED
  BY <1>3, <1>4, <1>5, <1>6

LEMMA TokenizedKeeps ==
  ASSUME IInv, Tokenized
  PROVE  IInv'
<1> USE DEF IInv
<1>1. UNCHANGED <<kind, fits, want, untok, outLen, outQ, got, handler, submitted>>
  BY DEF Tokenized
<1>2. {untok, batch, entered} \subseteq Seq(Clients)
  BY DEF TypeOK
<1>3. CASE up' = FALSE /\ UNCHANGED <<entered, batch>>
  <2>1. TypeOK'
    BY <1>1, <1>3 DEF TypeOK
  <2>2. QED
    BY <1>1, <1>3, <2>1
       DEF StreamInOrder, WaitersDoNotStream, NothingYet, NoRequestDropped, TextPending
<1>4. CASE entered' = entered \o batch /\ batch' = << >> /\ up' = up
  <2>1. TypeOK'
    <3>1. entered' \in Seq(Clients) /\ batch' \in Seq(Clients)
      BY <1>2, <1>4
    <3>2. QED
      BY <1>1, <1>4, <3>1 DEF TypeOK
  <2>2. NoRequestDropped'
    <3>1. Kept(entered \o batch, Texts) = Kept(entered, Texts) \o batch
      <4>1. ToSet(batch) \subseteq Texts
        BY DEF TextPending, Texts
      <4>2. Kept(batch, Texts) = batch
        BY <1>2, <4>1, KeptAll
      <4>3. entered \in Seq(Clients) /\ batch \in Seq(Clients)
        BY <1>2
      <4>4. Kept(entered \o batch, Texts) = Kept(entered, Texts) \o Kept(batch, Texts)
        <5> HIDE DEF IInv
        <5>1. QED
          BY <4>3, KeptConcat
      <4>5. QED
        BY <4>2, <4>4
    <3>2. PICK K \in Seq(Clients) : K = Kept(entered, Texts) \o batch
      <4>1. entered \in Seq(Clients) /\ batch \in Seq(Clients)
        BY <1>2
      <4>2. Kept(entered, Texts) \in Seq(Clients)
        BY <4>1, KeptMembers
      <4>3. Kept(entered, Texts) \o batch \in Seq(Clients)
        BY <4>1, <4>2, ConcatProperties
      <4>4. QED
        BY <4>3
    <3>3. K \o << >> = K
      BY <3>2
    <3>4. QED
      BY <1>1, <1>4, <3>1, <3>2, <3>3 DEF NoRequestDropped, Texts
  <2>3. StreamInOrder' /\ WaitersDoNotStream'
    BY <1>1, <1>4 DEF StreamInOrder, WaitersDoNotStream
  <2>4. ToSet(entered') = ToSet(entered) \cup ToSet(batch) /\ ToSet(batch') = {}
    <3>1. ToSet(entered \o batch) = ToSet(entered) \cup ToSet(batch)
      BY <1>2, ConcatMembers
    <3>2. QED
      <4>1. ToSet(<< >>) = {}
        BY DEF ToSet
      <4>2. QED
        BY <1>4, <3>1, <4>1
  <2>5. ASSUME NEW d \in Clients PROVE NothingYet(d)'
    BY <1>1, <2>4 DEF NothingYet, TextPending
  <2>6. TextPending'
    BY <1>1, <2>4 DEF TextPending
  <2>7. QED
    BY <2>1, <2>2, <2>3, <2>5, <2>6
<1>5. QED
  BY <1>3, <1>4 DEF Tokenized

LEMMA IterateKeeps ==
  ASSUME IInv, NEW S \in SUBSET Running, Iterate(S)
  PROVE  IInv'
<1> USE DEF IInv
<1>1. /\ outLen' = [c \in Clients |-> IF c \in S THEN outLen[c] + 1 ELSE outLen[c]]
      /\ outQ' = [c \in Clients |-> IF c \in S THEN Append(outQ[c], outLen[c] + 1) ELSE outQ[c]]
      /\ UNCHANGED <<kind, fits, want, untok, batch, entered, got, handler, up, submitted>>
  BY DEF Iterate
<1>2. \A c \in S : c \in ToSet(entered) /\ outLen[c] # want[c]
  BY DEF Running
<1>3. \A c \in Clients : /\ want[c] \in Nat /\ outLen[c] \in Nat /\ outLen[c] <= want[c]
                         /\ outQ[c] \in Seq(Nat) /\ got[c] \in Seq(Nat)
  <2>1. ASSUME NEW c \in Clients
        PROVE  want[c] \in Nat /\ outLen[c] \in Nat /\ outLen[c] <= want[c]
    <3>1. want \in [Clients -> Outputs \cup {0}] /\ outLen[c] \in 0 .. want[c]
      BY DEF TypeOK
    <3>2. want[c] \in Nat
      <4>1. \A m \in Outputs \cup {0} : m \in Nat
        BY StreamAssumption
      <4>2. want[c] \in Outputs \cup {0}
        BY <3>1
      <4>3. QED
        BY <4>1, <4>2
    <3>3. QED
      BY <3>1, <3>2
  <2>2. ASSUME NEW c \in Clients PROVE outQ[c] \in Seq(Nat) /\ got[c] \in Seq(Nat)
    BY DEF TypeOK
  <2>3. QED
    BY <2>1, <2>2
<1>4. TypeOK'
  <2>1. ASSUME NEW c \in Clients
        PROVE  outLen'[c] \in 0 .. want[c] /\ outQ'[c] \in Seq(Nat)
    BY <1>1, <1>2, <1>3
  <2>2. outQ' \in [Clients -> Seq(Nat)]
    BY <1>1, <2>1
  <2>3. QED
    BY <1>1, <2>1, <2>2 DEF TypeOK
<1>5. StreamInOrder'
  <2>1. SUFFICES ASSUME NEW c \in Clients, kind[c] = "stream"
                 PROVE  got[c] \o outQ'[c] = [i \in 1 .. outLen'[c] |-> i]
    BY <1>1 DEF StreamInOrder
  <2>2. got[c] \o outQ[c] = [i \in 1 .. outLen[c] |-> i]
    BY <2>1 DEF StreamInOrder
  <2>3. CASE c \notin S
    BY <1>1, <2>2, <2>3
  <2>4. CASE c \in S
    <3>1. PICK g \in Seq(Nat), q \in Seq(Nat), n \in Nat :
            g = got[c] /\ q = outQ[c] /\ n = outLen[c]
      BY <1>3
    <3>2. g \o Append(q, n + 1) = Append(g \o q, n + 1)
      OBVIOUS
    <3>3. Append([i \in 1 .. n |-> i], n + 1) = [i \in 1 .. n + 1 |-> i]
      OBVIOUS
    <3>4. QED
      BY <1>1, <2>2, <2>4, <3>1, <3>2, <3>3
  <2>5. QED
    BY <2>3, <2>4
<1>6. NoRequestDropped' /\ TextPending' /\ WaitersDoNotStream'
  BY <1>1 DEF NoRequestDropped, TextPending, WaitersDoNotStream
<1>7. ASSUME NEW d \in Clients PROVE NothingYet(d)'
  BY <1>1, <1>2 DEF NothingYet
<1>8. QED
  BY <1>4, <1>5, <1>6, <1>7

-----------------------------------------------------------------------------
LEMMA StepKeeps == IInv /\ [Next]_vars => IInv'
<1> SUFFICES ASSUME IInv, [Next]_vars PROVE IInv'
  OBVIOUS
<1>1. CASE \E c \in Clients, k \in {"stream", "text"}, m \in Outputs, f \in BOOLEAN :
             SubmitText(c, k, m, f)
  BY <1>1, SubmitTextKeeps
<1>2. CASE \E c \in Clients, m \in Outputs, f \in BOOLEAN : SubmitTokens(c, m, f)
  BY <1>2, SubmitTokensKeeps
<1>3. CASE \E c \in Clients : Get(c)
  BY <1>3, GetKeeps
<1>4. CASE \E c \in Clients : Answer(c)
  BY <1>4, AnswerKeeps
<1>5. CASE \E c \in Clients : Resume(c) \/ Disconnect(c)
  BY <1>5, HandlerKeeps
<1>6. CASE TakeUntokenized
  BY <1>6, TakeUntokenizedKeeps
<1>7. CASE Tokenized
  BY <1>7, TokenizedKeeps
<1>8. CASE \E S \in SUBSET Running : Iterate(S)
  BY <1>8, IterateKeeps
<1>9. CASE UNCHANGED vars
  BY <1>9 DEF vars, IInv, TypeOK, StreamInOrder, NoRequestDropped, NothingYet,
              WaitersDoNotStream, TextPending
<1>10. QED
  BY <1>1, <1>2, <1>3, <1>4, <1>5, <1>6, <1>7, <1>8, <1>9 DEF Next

(* The inductive invariant holds in every reachable state.                 *)
THEOREM IInvHolds == Spec => []IInv
BY InitHolds, StepKeeps, PTL DEF Spec

(* The lists, queues and handlers of the server keep their types; no       *)
(* request is given more tokens than it asked for.                         *)
THEOREM TypesHold == Spec => []TypeOK
<1>1. IInv => TypeOK
  BY DEF IInv
<1>2. QED
  BY <1>1, IInvHolds, PTL

(* Whatever the handlers and the engine interleave, a stream yields its    *)
(* tokens in the order they were generated, and loses none.                *)
THEOREM StreamsInOrder == Spec => []StreamInOrder
<1>1. IInv => StreamInOrder
  BY DEF IInv
<1>2. QED
  BY <1>1, IInvHolds, PTL

(* A text prompt that arrives at any point of the tokenizer loop enters    *)
(* the scheduler once, in the order of submission.                         *)
THEOREM NothingDropped == Spec => []NoRequestDropped
<1>1. IInv => NoRequestDropped
  BY DEF IInv
<1>2. QED
  BY <1>1, IInvHolds, PTL
=============================================================================
