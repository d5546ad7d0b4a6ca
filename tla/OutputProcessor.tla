--------------------------- MODULE OutputProcessor ---------------------------
(***************************************************************************)
(* The front end's side of a request: OutputProcessor, ParentRequest for   *)
(* the n samples of one call, and RequestOutputCollector, in which the     *)
(* outputs wait for the call that reads them.  The methods do not wait for *)
(* anything, so they are operators on a state, a record op; AsyncLLM       *)
(* interleaves them.                                                       *)
(*                                                                         *)
(* A token is its number; what matters is that each call reads each of its *)
(* tokens once and in order, and knows when it has read all.               *)
(***************************************************************************)
EXTENDS Naturals, FiniteSets, SequencesExt, FiniteSetsExt

CONSTANTS
  Calls,           \* the calls of generate()
  N,               \* N[c]: the samples of call c
  ExternalId,      \* ExternalId[c]: the request ID c was given; need not be unique
  StreamInterval

ASSUME FrontEndAssumption ==
  /\ IsFiniteSet(Calls)
  /\ N \in [Calls -> Nat \ {0}]
  /\ StreamInterval \in Nat \ {0}

Children(c) == {c} \X (1 .. N[c])
Child == UNION {Children(c) : c \in Calls}
CallOf(ch) == ch[1]
ExternalIds == {ExternalId[c] : c \in Calls}

Kinds == {"DELTA", "CUMULATIVE", "FINAL_ONLY"}
Unfinished == "none"          \* no finish_reason
Reasons == {"length", "stop", "abort"}

\* What waits in a collector: nothing, an exception, or outputs by child.
Nothing == [outputs |-> <<>>, finished |-> FALSE, error |-> FALSE]
Error == [outputs |-> <<>>, finished |-> FALSE, error |-> TRUE]

NoRequests ==
  [request_states |-> {},
   external_req_ids |-> [x \in ExternalIds |-> {}],
   parent_requests |-> {},
   child_requests |-> [c \in Calls |-> {}],
   output_aggregator |-> [c \in Calls |-> <<>>],
   output_kind |-> [c \in Calls |-> "DELTA"],
   output_token_ids |-> [ch \in Child |-> <<>>],
   sent_tokens_offset |-> [ch \in Child |-> 0],
   queue |-> [c \in Calls |-> Nothing]]

HasParent(c) == N[c] > 1

\* Partial functions are extended as dictionaries are.
With(f, x, v) == [y \in DOMAIN f \union {x} |-> IF y = x THEN v ELSE f[y]]

\* add_request, for all children of a call.
WithCall(op, c, kind) ==
  [op EXCEPT
     !.request_states = @ \union Children(c),
     !.external_req_ids[ExternalId[c]] = @ \union Children(c),
     !.parent_requests = IF HasParent(c) THEN @ \union {c} ELSE @,
     !.child_requests[c] = IF HasParent(c) THEN Children(c) ELSE @,
     !.output_kind[c] = kind]

-----------------------------------------------------------------------------
(* RequestOutputCollector *)

\* Slip: deltas replace one another as cumulative outputs do.
MergedByReplacing(aggregate, old, new) == new

\* RequestOutput.add, of the completions of one child.
Merged(aggregate, old, new) ==
  IF aggregate THEN [tokens |-> old.tokens \o new.tokens, reason |-> new.reason]
  ELSE new

\* put, of the outputs of some children.
WithPut(op, c, outputs, finished) ==
  LET q == op.queue[c]
      aggregate == op.output_kind[c] = "DELTA"
      merged == [ch \in DOMAIN q.outputs \union DOMAIN outputs |->
                   IF ch \notin DOMAIN outputs THEN q.outputs[ch]
                   ELSE IF ch \notin DOMAIN q.outputs THEN outputs[ch]
                   ELSE Merged(aggregate, q.outputs[ch], outputs[ch])]
  IN  IF q.error THEN op
      ELSE [op EXCEPT !.queue[c] = [outputs |-> merged, error |-> FALSE,
                                    finished |-> q.finished \/ finished]]

-----------------------------------------------------------------------------
(* RequestState and ParentRequest *)

\* Is an output to be made, or waited with?
OutputIsDue(op, ch, reason) ==
  LET unsent == Len(op.output_token_ids[ch]) - op.sent_tokens_offset[ch]
  IN  \/ reason # Unfinished
      \/ /\ op.output_kind[CallOf(ch)] # "FINAL_ONLY"
         /\ \/ StreamInterval = 1
            \/ op.sent_tokens_offset[ch] = 0
            \/ unsent >= StreamInterval

\* Slip: the offset advances by the interval.
SentOffsetByInterval(op, ch) == op.sent_tokens_offset[ch] + StreamInterval
SentOffset(op, ch) == Len(op.output_token_ids[ch])

\* The offset is kept only where it is used.
KeepsOffset(op, ch) == StreamInterval > 1 /\ op.output_kind[CallOf(ch)] = "DELTA"

TokensToSend(op, ch, new_token_ids) ==
  LET all == op.output_token_ids[ch]
  IN  IF op.output_kind[CallOf(ch)] # "DELTA" THEN all
      ELSE IF StreamInterval > 1
             THEN SubSeq(all, op.sent_tokens_offset[ch] + 1, Len(all))
             ELSE new_token_ids

\* Slip: the call has finished when the sample has.
CallFinishedWithSample(op, c, reason) == reason # Unfinished

\* Has the whole call finished?
CallFinished(op, c, reason) ==
  IF HasParent(c) THEN op.child_requests[c] = {} ELSE reason # Unfinished

\* make_request_output and, for a sample, get_outputs; then put.
WithOutput(op, ch, new_token_ids, reason) ==
  LET c == CallOf(ch)
      piece == [tokens |-> TokensToSend(op, ch, new_token_ids), reason |-> reason]
      returned_earlier == HasParent(c) /\ reason # Unfinished
                            /\ ch \notin op.child_requests[c]
      aggregates == HasParent(c) /\ op.output_kind[c] = "FINAL_ONLY"
      told == [op EXCEPT
        !.sent_tokens_offset[ch] = IF KeepsOffset(op, ch) THEN SentOffset(op, ch) ELSE @,
        !.child_requests[c] = IF reason # Unfinished THEN @ \ {ch} ELSE @,
        !.output_aggregator[c] = IF aggregates THEN With(@, ch, piece) ELSE @]
      outputs ==
        IF aggregates
          THEN IF told.child_requests[c] = {} THEN told.output_aggregator[c] ELSE <<>>
          ELSE IF returned_earlier THEN <<>> ELSE With(<<>>, ch, piece)
  IN  IF ~OutputIsDue(op, ch, reason) THEN op
      ELSE IF outputs = <<>> THEN told
      ELSE WithPut(told, c, outputs, CallFinished(told, c, reason))

-----------------------------------------------------------------------------
(* OutputProcessor *)

\* Slip: the external ID stays.
FinishedKeepingId(op, ch) ==
  LET c == CallOf(ch)
  IN  [op EXCEPT !.request_states = @ \ {ch},
                 !.parent_requests = IF op.child_requests[c] = {} THEN @ \ {c} ELSE @]

\* _finish_request
Finished(op, ch) ==
  LET c == CallOf(ch)
  IN  [op EXCEPT !.request_states = @ \ {ch},
                 !.external_req_ids[ExternalId[c]] = @ \ {ch},
                 !.parent_requests = IF op.child_requests[c] = {} THEN @ \ {c} ELSE @]

\* One output of process_outputs; stop_string: the detokenizer meets one.
ProcessedOutput(op, o, stop_string) ==
  LET reason == IF stop_string THEN "stop" ELSE o.reason
      detokenized == [op EXCEPT !.output_token_ids[o.child] = Append(@, o.token)]
      put == WithOutput(detokenized, o.child, <<o.token>>, reason)
  IN  IF o.child \notin op.request_states THEN op
      ELSE IF reason # Unfinished THEN Finished(put, o.child)
      ELSE put

\* Slip: what the engine has not finished is left to it.
NoneToAbort(op, o, stop_string) == {}

\* ... and its reqs_to_abort.
ReqsToAbort(op, o, stop_string) ==
  IF o.child \in op.request_states /\ stop_string /\ o.reason = Unfinished
    THEN {o.child} ELSE {}

\* Slip: no final output is produced.
AbortedSilently(op, ch) == [op EXCEPT !.request_states = @ \ {ch}]

\* abort_requests, of one child: its final output is put.
Aborted(op, ch) ==
  WithOutput([op EXCEPT !.request_states = @ \ {ch}], ch, <<>>, "abort")

AllAborted(op, chs) == FoldLeft(Aborted, op, SetToSeq(chs))

\* abort_requests with the internal ID of a call: of its only child, or of the
\* parent, whose unfinished children are aborted before it is removed.
ToAbortByCall(op, c) ==
  IF HasParent(c) /\ c \notin op.parent_requests THEN {}
  ELSE Children(c) \intersect op.request_states

AbortedByCall(op, c) ==
  AllAborted([op EXCEPT !.external_req_ids[ExternalId[c]] = @ \ ToAbortByCall(op, c),
                        !.parent_requests = @ \ {c}],
             ToAbortByCall(op, c))

\* Nobody refers to the collector and to the requests of a cancelled call any more.
WithoutGarbage(op, c) ==
  [op EXCEPT
     !.queue[c] = Nothing,
     !.output_aggregator[c] = <<>>,
     !.output_token_ids = [ch \in Child |-> IF CallOf(ch) = c THEN <<>> ELSE @[ch]],
     !.sent_tokens_offset = [ch \in Child |-> IF CallOf(ch) = c THEN 0 ELSE @[ch]]]

\* abort_requests with an external ID: of everything it was used for.  The
\* parents stay.
AbortedByExternalId(op, x) ==
  AllAborted([op EXCEPT !.external_req_ids[x] = {}],
             op.external_req_ids[x] \intersect op.request_states)

\* propagate_error
WithError(op) ==
  [op EXCEPT !.queue = [c \in Calls |->
     IF Children(c) \intersect op.request_states # {} THEN Error ELSE @[c]]]
=============================================================================
