------------------------------ MODULE AsyncLLM -------------------------------
(***************************************************************************)
(* The front end (AsyncLLM) as its asyncio tasks interleave: the calls of  *)
(* generate(), one of which reads its collector at its own pace and may be *)
(* cancelled or aborted; the task that handles the engine's outputs, which *)
(* lets others run between two chunks of outputs; and the engine behind    *)
(* two sockets, reduced to what it promises: each request yields tokens    *)
(* until it finishes, is aborted, or the engine dies.                      *)
(***************************************************************************)
EXTENDS OutputProcessor

CONSTANTS
  OutputKinds,   \* OutputKinds[c]: the kinds of output call c may ask for
  MaxTokens,     \* MaxTokens[c]: the length of each sample
  MaxBatches     \* bound: batches of outputs under way

ASSUME AsyncLLMAssumption ==
  /\ OutputKinds \in [Calls -> SUBSET Kinds]
  /\ MaxTokens \in [Calls -> Nat \ {0}]

VARIABLES
  call,          \* where generate() stands
  op,            \* the OutputProcessor and its collectors
  received,      \* the tokens the caller has
  ending,        \* the finish_reason the caller has
  to_engine,     \* messages to the engine
  from_engine,   \* batches of outputs; Dead is the exception after the last
  to_abort,      \* requests to abort when the handler goes on
  handler,       \* output_handler: is it running?
  engine,        \* what the engine does with a request, its tokens so far
  engine_alive,
  engine_dead,   \* resources.engine_dead: what the front end knows
  aborted_ids    \* history: external IDs that were aborted

callerVars == <<call, received, ending>>
engineVars == <<engine, engine_alive>>
vars == <<callerVars, op, to_engine, from_engine, to_abort, handler, engineVars,
          engine_dead, aborted_ids>>

Dead == <<>>

Init ==
  /\ call = [c \in Calls |-> "new"]
  /\ op = NoRequests
  /\ received = [ch \in Child |-> <<>>]
  /\ ending = [ch \in Child |-> Unfinished]
  /\ to_engine = <<>>
  /\ from_engine = <<>>
  /\ to_abort = {}
  /\ handler = "running"
  /\ engine = [ch \in Child |-> [state |-> "absent", tokens |-> 0]]
  /\ engine_alive = TRUE
  /\ engine_dead = FALSE
  /\ aborted_ids = {}

Message(type, chs) == [type |-> type, children |-> chs]

\* What is sent to a dead engine is lost.
Send(m) == to_engine' = IF engine_alive THEN Append(to_engine, m) ELSE <<>>

\* abort_requests_async; nothing is sent for nobody, or to an engine known to be dead.
SendAbort(chs) ==
  IF chs = {} \/ engine_dead THEN UNCHANGED to_engine ELSE Send(Message("ABORT", chs))

Errored == engine_dead \/ handler = "done"

-----------------------------------------------------------------------------
(* generate *)

\* add_request.  Its sends complete at once: the socket has no high-water mark.
Generate(c, kind) ==
  /\ call[c] = "new"
  /\ IF Errored
       THEN /\ call' = [call EXCEPT ![c] = "failed"]
            /\ UNCHANGED <<op, to_engine>>
       ELSE /\ call' = [call EXCEPT ![c] = "running"]
            /\ op' = WithCall(op, c, kind)
            /\ Send(Message("ADD", Children(c)))
  /\ UNCHANGED <<received, ending, from_engine, to_abort, handler, engineVars,
                 engine_dead, aborted_ids>>

\* The call takes what its collector holds.
Consume(c) ==
  LET q == op.queue[c]
  IN  /\ call[c] = "running"
      /\ q # Nothing
      /\ op' = [op EXCEPT !.queue[c] = Nothing]
      /\ received' = [ch \in Child |->
           IF ch \notin DOMAIN q.outputs THEN received[ch]
           ELSE IF op.output_kind[c] = "DELTA" THEN received[ch] \o q.outputs[ch].tokens
           ELSE q.outputs[ch].tokens]
      /\ ending' = [ch \in Child |->
           IF ch \in DOMAIN q.outputs THEN q.outputs[ch].reason ELSE ending[ch]]
      /\ call' = [call EXCEPT ![c] = IF q.error THEN "failed"
                                     ELSE IF q.finished THEN "done" ELSE @]
      /\ UNCHANGED <<to_engine, from_engine, to_abort, handler, engineVars,
                     engine_dead, aborted_ids>>

\* The client disconnects, and what was kept for it is garbage.
Cancel(c) ==
  /\ call[c] = "running"
  /\ call' = [call EXCEPT ![c] = "cancelled"]
  /\ op' = WithoutGarbage(AbortedByCall(op, c), c)
  /\ SendAbort(ToAbortByCall(op, c))
  /\ received' = [ch \in Child |-> IF CallOf(ch) = c THEN <<>> ELSE received[ch]]
  /\ ending' = [ch \in Child |-> IF CallOf(ch) = c THEN Unfinished ELSE ending[ch]]
  /\ UNCHANGED <<from_engine, to_abort, handler, engineVars, engine_dead, aborted_ids>>

\* abort, by anybody who knows the external ID.
Abort(x) ==
  /\ op.external_req_ids[x] # {}
  /\ op' = AbortedByExternalId(op, x)
  /\ SendAbort(op.external_req_ids[x] \intersect op.request_states)
  /\ aborted_ids' = aborted_ids \union {x}
  /\ UNCHANGED <<callerVars, from_engine, to_abort, handler, engineVars, engine_dead>>

-----------------------------------------------------------------------------
(* output_handler *)

\* The handler takes the next chunk, here one output.  Unless it was the last of
\* its batch other tasks run before its aborts are sent.
HandleChunk(stop_string) ==
  /\ handler = "running"
  /\ from_engine # <<>>
  /\ Head(from_engine) # Dead
  /\ LET batch == Head(from_engine)
         reqs_to_abort == ReqsToAbort(op, Head(batch), stop_string)
         last == Len(batch) = 1
     IN  /\ op' = ProcessedOutput(op, Head(batch), stop_string)
         /\ from_engine' = IF last THEN Tail(from_engine)
                           ELSE [from_engine EXCEPT ![1] = Tail(batch)]
         /\ to_abort' = IF last THEN {} ELSE reqs_to_abort
         /\ SendAbort(to_abort \union (IF last THEN reqs_to_abort ELSE {}))
  /\ UNCHANGED <<callerVars, handler, engineVars, engine_dead, aborted_ids>>

\* The exception ends the handler, and every call that waits.
HandleDeath ==
  /\ handler = "running"
  /\ from_engine # <<>>
  /\ Head(from_engine) = Dead
  /\ from_engine' = Tail(from_engine)
  /\ handler' = "done"
  /\ engine_dead' = TRUE
  /\ op' = WithError(op)
  /\ UNCHANGED <<callerVars, to_engine, to_abort, engineVars, aborted_ids>>

-----------------------------------------------------------------------------
(* The engine *)

EngineReceive ==
  /\ engine_alive
  /\ to_engine # <<>>
  /\ to_engine' = Tail(to_engine)
  /\ LET m == Head(to_engine)
     IN  engine' = [ch \in Child |->
           IF ch \notin m.children THEN engine[ch]
           ELSE [engine[ch] EXCEPT !.state = IF m.type = "ADD" THEN "running" ELSE "gone"]]
  /\ UNCHANGED <<callerVars, op, from_engine, to_abort, handler, engine_alive,
                 engine_dead, aborted_ids>>

\* A step yields a token for some of the requests, and ends those that have all
\* their tokens.
EngineStep(chs) ==
  LET Reason(ch) == IF engine[ch].tokens + 1 = MaxTokens[CallOf(ch)] THEN "length" ELSE Unfinished
      Output(ch) == [child |-> ch, token |-> engine[ch].tokens + 1, reason |-> Reason(ch)]
  IN  /\ engine_alive
      /\ Len(from_engine) < MaxBatches
      /\ \A ch \in chs : engine[ch].state = "running"
      /\ \E order \in SetToSeqs(chs) :
           from_engine' = Append(from_engine, [i \in DOMAIN order |-> Output(order[i])])
      /\ engine' = [ch \in Child |->
           IF ch \notin chs THEN engine[ch]
           ELSE [tokens |-> engine[ch].tokens + 1,
                 state |-> IF Reason(ch) = Unfinished THEN "running" ELSE "gone"]]
      /\ UNCHANGED <<callerVars, op, to_engine, to_abort, handler, engine_alive,
                     engine_dead, aborted_ids>>

\* The engine dies; outputs on the socket may be lost.
EngineDies ==
  /\ engine_alive
  /\ engine_alive' = FALSE
  /\ \E k \in 0 .. Len(from_engine) :
       from_engine' = SubSeq(from_engine, 1, k) \o <<Dead>>
  /\ engine' = [ch \in Child |-> [state |-> "gone", tokens |-> 0]]
  /\ to_engine' = <<>>
  /\ UNCHANGED <<callerVars, op, to_abort, handler, engine_dead, aborted_ids>>

\* The monitor thread may see it first.
NoticeDeath ==
  /\ ~engine_alive
  /\ ~engine_dead
  /\ engine_dead' = TRUE
  /\ UNCHANGED <<callerVars, op, to_engine, from_engine, to_abort, handler, engineVars,
                 aborted_ids>>

StepOf(ch) == \E others \in SUBSET (Child \ {ch}) : EngineStep(others \union {ch})
EngineSteps == \E chs \in SUBSET Child \ {{}} : EngineStep(chs)

Next ==
  \/ \E c \in Calls :
       \/ \E kind \in OutputKinds[c] : Generate(c, kind)
       \/ Consume(c)
       \/ Cancel(c)
  \/ \E x \in ExternalIds : Abort(x)
  \/ \E stop_string \in BOOLEAN : HandleChunk(stop_string)
  \/ HandleDeath
  \/ EngineReceive
  \/ EngineSteps
  \/ EngineDies
  \/ NoticeDeath

Spec == Init /\ [][Next]_vars

\* The tasks of the event loop get their turn, the engine reads its socket, and its
\* scheduler serves every request.
FairSpec ==
  /\ Spec
  /\ \A c \in Calls : WF_vars(Consume(c))
  /\ WF_vars(\E stop_string \in BOOLEAN : HandleChunk(stop_string))
  /\ WF_vars(HandleDeath)
  /\ WF_vars(EngineReceive)
  /\ \A ch \in Child : SF_vars(StepOf(ch))

-----------------------------------------------------------------------------
Ended(c) == call[c] \in {"done", "cancelled", "failed"}

Upto(ids, n) == ids = [i \in 1 .. n |-> i]

Messages == [type : {"ADD", "ABORT"}, children : SUBSET Child]
Outputs == [child : Child, token : Nat \ {0}, reason : {"length", Unfinished}]
Piece == [tokens : Seq(Nat), reason : Reasons \union {Unfinished}]

\* Pieces of outputs, by child.
PiecesOf(f, c) == \E chs \in SUBSET Children(c) : f \in [chs -> Piece]

TypeOK ==
  /\ call \in [Calls -> {"new", "running", "done", "cancelled", "failed"}]
  /\ op.request_states \subseteq Child
  /\ op.external_req_ids \in [ExternalIds -> SUBSET Child]
  /\ op.parent_requests \subseteq {c \in Calls : HasParent(c)}
  /\ op.output_kind \in [Calls -> Kinds]
  /\ op.sent_tokens_offset \in [Child -> Nat]
  /\ \A c \in Calls :
       /\ op.child_requests[c] \subseteq Children(c)
       /\ PiecesOf(op.output_aggregator[c], c)
       /\ PiecesOf(op.queue[c].outputs, c)
       /\ op.queue[c].finished \in BOOLEAN
       /\ op.queue[c].error \in BOOLEAN
  /\ \A ch \in Child :
       /\ Upto(op.output_token_ids[ch], Len(op.output_token_ids[ch]))
       /\ op.sent_tokens_offset[ch] <= Len(op.output_token_ids[ch])
  /\ received \in [Child -> Seq(Nat)]
  /\ ending \in [Child -> Reasons \union {Unfinished}]
  /\ to_engine \in Seq(Messages)
  /\ from_engine \in Seq(Seq(Outputs))
  /\ to_abort \subseteq Child
  /\ handler \in {"running", "done"}
  /\ engine \in [Child -> [state : {"absent", "running", "gone"}, tokens : Nat]]
  /\ engine_alive \in BOOLEAN
  /\ engine_dead \in BOOLEAN
  /\ aborted_ids \subseteq ExternalIds

\* What a call has read and what waits for it are, put together, the tokens that
\* were made into outputs, each once and in order, however far it lags behind.
Pending(ch) ==
  LET outputs == op.queue[CallOf(ch)].outputs
  IN  IF ch \in DOMAIN outputs THEN outputs[ch].tokens ELSE <<>>

DeltasAddUp ==
  \A ch \in Child :
    /\ op.output_kind[CallOf(ch)] = "DELTA"
    /\ call[CallOf(ch)] \in {"running", "done"}
    /\ ~op.queue[CallOf(ch)].error
    => received[ch] \o Pending(ch) =
         SubSeq(op.output_token_ids[ch], 1,
                IF StreamInterval > 1 THEN op.sent_tokens_offset[ch]
                ELSE Len(op.output_token_ids[ch]))

\* A call that ends as it should has every sample, whole and with the reason it
\* ended for; no other call, cancelled or aborted, has cut it short, not even one
\* with the same external ID unless that ID was aborted.
DoneMeansWhole ==
  \A c \in Calls : call[c] = "done" =>
    \A ch \in Children(c) :
      /\ ch \notin op.request_states
      /\ ending[ch] # Unfinished
      /\ received[ch] = op.output_token_ids[ch]
      /\ ending[ch] = "abort" => ExternalId[c] \in aborted_ids
      /\ ending[ch] = "length" => Len(received[ch]) = MaxTokens[c]

\* The engine works for nobody else: what it computes or is about to take in is
\* known to the front end, or an abort is on its way, behind its addition.
NoOrphans ==
  engine_alive /\ ~engine_dead =>
    \A ch \in Child :
      LET Told(type) == {i \in DOMAIN to_engine :
                           to_engine[i].type = type /\ ch \in to_engine[i].children}
      IN  /\ engine[ch].state = "running" \/ Told("ADD") # {}
          /\ ch \notin op.request_states
          => \/ ch \in to_abort
             \/ \E i \in Told("ABORT") : \A j \in Told("ADD") : j < i

\* The three maps of the output processor agree.  A parent outlives its children
\* only when they were aborted by the external ID.
MapsAgree ==
  /\ \A x \in ExternalIds :
       op.external_req_ids[x] =
         {ch \in op.request_states : ExternalId[CallOf(ch)] = x}
  /\ \A c \in Calls : HasParent(c) =>
       /\ op.child_requests[c] = Children(c) \intersect op.request_states
       /\ ExternalId[c] \notin aborted_ids =>
            (c \in op.parent_requests <=> op.child_requests[c] # {})

\* Every call ends, and then the engine is rid of it.
EveryCallEnds ==
  \A c \in Calls :
    call[c] = "running" ~>
      Ended(c) /\ \A ch \in Children(c) : engine[ch].state = "gone"
=============================================================================
