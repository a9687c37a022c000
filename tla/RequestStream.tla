---------------------------- MODULE RequestStream ----------------------------
(***************************************************************************)
(* The tasks around the engine's main loop (AsyncEngine of                 *)
(* swiftllm/server/engine.py): request handlers, which submit a request    *)
(* and stream its tokens or wait for its completion, and the tokenizer     *)
(* loop.  All run in one asyncio event loop, so a task runs undisturbed    *)
(* from one await to the next, and an action is such a stretch.            *)
(*                                                                         *)
(* The main loop is abstracted to Iterate: an iteration gives one token to *)
(* any of the requests that have entered the scheduler (module NeoEngine). *)
(* The i-th token of a request is the number i.                            *)
(***************************************************************************)
EXTENDS Queues, SequencesExt

CONSTANTS
  Clients,   \* one request each
  Outputs    \* the max_output_len requests may have

ASSUME StreamAssumption == Outputs \subseteq Nat \ {0}

VARIABLES
  kind,       \* "none", "stream", "text" (wait), "tokens" (wait, tokenized)
  fits,       \* prompt_len + max_output_len <= max_seq_len
  want,       \* max_output_len
  untok,      \* untokenized_raw_requests
  batch,      \* cur_untokenized_raw_requests, while the tokenizer is awaited
  entered,    \* every request handed to the scheduler, in that order
  outLen,     \* output_len
  outQ,       \* output_q
  got,        \* the tokens the client has been sent
  handler,    \* where the request handler is
  up,         \* FALSE once an exception has ended the process
  submitted   \* history: the requests submitted as text, in that order

vars == <<kind, fits, want, untok, batch, entered, outLen, outQ, got, handler, up, submitted>>

Init ==
  /\ kind = [c \in Clients |-> "none"]
  /\ fits = [c \in Clients |-> TRUE]
  /\ want = [c \in Clients |-> 0]
  /\ untok = << >> /\ batch = << >> /\ entered = << >> /\ submitted = << >>
  /\ outLen = [c \in Clients |-> 0]
  /\ outQ = [c \in Clients |-> << >>]
  /\ got = [c \in Clients |-> << >>]
  /\ handler = [c \in Clients |-> "none"]
  /\ up = TRUE

Describe(c, k, m, f) ==
  /\ up /\ kind[c] = "none"
  /\ kind' = [kind EXCEPT ![c] = k]
  /\ want' = [want EXCEPT ![c] = m]
  /\ fits' = [fits EXCEPT ![c] = f]

-----------------------------------------------------------------------------
(* Request handlers.                                                       *)

(* add_request_and_stream, and add_request_and_wait with a text prompt.    *)
SubmitText(c, k, m, f) ==
  /\ Describe(c, k, m, f)
  /\ untok' = Append(untok, c)
  /\ submitted' = Append(submitted, c)
  /\ handler' = [handler EXCEPT ![c] = IF k = "stream" THEN "getting" ELSE "waiting"]
  /\ UNCHANGED <<batch, entered, outLen, outQ, got, up>>

(* add_request_and_wait with a tokenized prompt: a request that is too     *)
(* long fails its own handler.                                             *)
SubmitTokens(c, m, f) ==
  /\ Describe(c, "tokens", m, f)
  /\ entered' = IF f THEN Append(entered, c) ELSE entered
  /\ handler' = [handler EXCEPT ![c] = IF f THEN "waiting" ELSE "refused"]
  /\ UNCHANGED <<untok, batch, outLen, outQ, got, up, submitted>>

(* Mutant: the newest token is taken first.                                *)
GetLast(c) ==
  /\ up /\ handler[c] = "getting" /\ outQ[c] # << >>
  /\ got' = [got EXCEPT ![c] = Append(@, Last(outQ[c]))]
  /\ outQ' = [outQ EXCEPT ![c] = Front(@)]
  /\ handler' = [handler EXCEPT ![c] = "sending"]
  /\ UNCHANGED <<kind, fits, want, untok, batch, entered, outLen, up, submitted>>

(* output_q.get() returns, and the token is yielded.                       *)
Get(c) ==
  /\ up /\ handler[c] = "getting" /\ outQ[c] # << >>
  /\ got' = [got EXCEPT ![c] = Append(@, Head(outQ[c]))]
  /\ outQ' = [outQ EXCEPT ![c] = Tail(@)]
  /\ handler' = [handler EXCEPT ![c] = "sending"]
  /\ UNCHANGED <<kind, fits, want, untok, batch, entered, outLen, up, submitted>>

(* Mutant: the generator does not break.                                   *)
ResumeForever(c) ==
  /\ up /\ handler[c] = "sending"
  /\ handler' = [handler EXCEPT ![c] = "getting"]
  /\ UNCHANGED <<kind, fits, want, untok, batch, entered, outLen, outQ, got, up, submitted>>

(* After the yield the generator looks at the request as it is now.        *)
Resume(c) ==
  /\ up /\ handler[c] = "sending"
  /\ handler' = [handler EXCEPT ![c] = IF outLen[c] = want[c] THEN "ended" ELSE "getting"]
  /\ UNCHANGED <<kind, fits, want, untok, batch, entered, outLen, outQ, got, up, submitted>>

(* finished_event is set once the request is_finished(), for good.         *)
Answer(c) ==
  /\ up /\ handler[c] = "waiting"
  /\ outLen[c] = want[c]
  /\ handler' = [handler EXCEPT ![c] = "answered"]
  /\ got' = [got EXCEPT ![c] = outQ[c]]
  /\ UNCHANGED <<kind, fits, want, untok, batch, entered, outLen, outQ, up, submitted>>

(* The client goes away; its request is not aborted.                       *)
Disconnect(c) ==
  /\ up /\ handler[c] \in {"getting", "sending", "waiting"}
  /\ handler' = [handler EXCEPT ![c] = "gone"]
  /\ UNCHANGED <<kind, fits, want, untok, batch, entered, outLen, outQ, got, up, submitted>>

-----------------------------------------------------------------------------
(* _tokenize_raw_request_event_loop.                                       *)

TakeUntokenized ==
  /\ up /\ batch = << >> /\ untok # << >>
  /\ batch' = untok
  /\ untok' = << >>
  /\ UNCHANGED <<kind, fits, want, entered, outLen, outQ, got, handler, up, submitted>>

(* Mutant: the list is cleared when the tokenizer answers.                 *)
TokenizedAndCleared ==
  /\ up /\ batch # << >>
  /\ IF \A i \in DOMAIN batch : fits[batch[i]]
     THEN entered' = entered \o batch /\ batch' = << >> /\ up' = up
     ELSE up' = FALSE /\ UNCHANGED <<entered, batch>>
  /\ untok' = << >>
  /\ UNCHANGED <<kind, fits, want, outLen, outQ, got, handler, submitted>>

(* The tokenizer answers.  A request that is too long fails the assertion  *)
(* in the loop, which ends the process.                                    *)
Tokenized ==
  /\ up /\ batch # << >>
  /\ IF \A i \in DOMAIN batch : fits[batch[i]]
     THEN entered' = entered \o batch /\ batch' = << >> /\ up' = up
     ELSE up' = FALSE /\ UNCHANGED <<entered, batch>>
  /\ UNCHANGED <<kind, fits, want, untok, outLen, outQ, got, handler, submitted>>

-----------------------------------------------------------------------------
(* Mutant: a finished request is run on.                                   *)
RunningAll == ToSet(entered)

Running == {c \in ToSet(entered) : outLen[c] # want[c]}

(* Request.update_output for the requests S of an iteration.               *)
Iterate(S) ==
  /\ up /\ S # {} /\ S \subseteq Running
  /\ outLen' = [c \in Clients |-> IF c \in S THEN outLen[c] + 1 ELSE outLen[c]]
  /\ outQ' = [c \in Clients |-> IF c \in S THEN Append(outQ[c], outLen[c] + 1) ELSE outQ[c]]
  /\ UNCHANGED <<kind, fits, want, untok, batch, entered, got, handler, up, submitted>>

Next ==
  \/ \E c \in Clients, m \in Outputs, f \in BOOLEAN :
       \/ \E k \in {"stream", "text"} : SubmitText(c, k, m, f)
       \/ SubmitTokens(c, m, f)
  \/ \E c \in Clients : Get(c)
  \/ \E c \in Clients : Resume(c)
  \/ \E c \in Clients : Answer(c)
  \/ \E c \in Clients : Disconnect(c)
  \/ TakeUntokenized
  \/ Tokenized
  \/ \E S \in SUBSET Running : Iterate(S)

Spec == Init /\ [][Next]_vars

(* Ready tasks are run, the tokenizer answers, and every request that has  *)
(* entered goes on to get tokens (EveryRequestFinishes of NeoEngine).      *)
FairSpec ==
  /\ Spec
  /\ WF_vars(TakeUntokenized) /\ WF_vars(Tokenized)
  /\ \A c \in Clients :
       /\ WF_vars(Get(c)) /\ WF_vars(Resume(c)) /\ WF_vars(Answer(c))
       /\ WF_vars(\E S \in SUBSET Running : c \in S /\ Iterate(S))

-----------------------------------------------------------------------------
TypeOK ==
  /\ kind \in [Clients -> {"none", "stream", "text", "tokens"}]
  /\ fits \in [Clients -> BOOLEAN] /\ want \in [Clients -> Outputs \cup {0}]
  /\ {untok, batch, entered, submitted} \subseteq Seq(Clients)
  /\ \A c \in Clients : outLen[c] \in 0 .. want[c]
  /\ outQ \in [Clients -> Seq(Nat)] /\ got \in [Clients -> Seq(Nat)]
  /\ handler \in [Clients -> {"none", "getting", "sending", "ended", "waiting",
                              "answered", "refused", "gone"}]
  /\ up \in BOOLEAN

(* A stream yields the tokens in the order they were generated; one not    *)
(* yet yielded is still queued.                                            *)
StreamInOrder ==
  \A c \in Clients : kind[c] = "stream" =>
    got[c] \o outQ[c] = [i \in 1 .. outLen[c] |-> i]

(* A request that arrives while the tokenizer is awaited is neither lost   *)
(* nor tokenized twice, and text prompts enter in order of submission.     *)
NoRequestDropped ==
  Kept(entered, {c \in Clients : kind[c] # "tokens"}) \o batch \o untok = submitted

(* A handler is not left waiting: it ends, unless its client goes or the   *)
(* server does.                                                            *)
HandlersEnd ==
  \A c \in Clients :
    handler[c] \in {"getting", "waiting"} ~>
      handler[c] \in {"ended", "answered", "gone"} \/ ~up

(* "stream the output of the request": a stream that ends has sent it all. *)
StreamComplete ==
  \A c \in Clients : handler[c] = "ended" => Len(got[c]) = want[c]
=============================================================================
