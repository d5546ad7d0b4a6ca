--------------------------- MODULE AsyncLLMProofs ---------------------------
(***************************************************************************)
(* Proofs about the front end: for any number of calls and samples, any    *)
(* stream interval and any batches under way, the invariant FrontEndInv    *)
(* holds, and with it what the runs check of AsyncLLM.                     *)
(*                                                                         *)
(* First come the methods of the output processor, as operators on its     *)
(* state: what one output does, and what a sequence of aborts does; then   *)
(* one lemma for each part of the invariant and the actions that disturb   *)
(* it; then the theorems.                                                  *)
(***************************************************************************)
EXTENDS AsyncLLM, Induction, SequenceTheorems, TLAPS

-----------------------------------------------------------------------------
(* The invariant.  p stands for the output processor, got and end for what the callers have. *)

\* What a caller has of a request when it next reads its collector.
Queued(p, ch) == p.queue[CallOf(ch)].outputs

Have(p, got, ch) ==
  IF ch \notin DOMAIN Queued(p, ch) THEN got[ch]
  ELSE IF p.output_kind[CallOf(ch)] = "DELTA" THEN got[ch] \o Queued(p, ch)[ch].tokens
  ELSE Queued(p, ch)[ch].tokens

HaveReason(p, end, ch) ==
  IF ch \notin DOMAIN Queued(p, ch) THEN end[ch] ELSE Queued(p, ch)[ch].reason

\* How many tokens of a delta were sent.
Sent(p, ch) ==
  IF StreamInterval > 1 THEN p.sent_tokens_offset[ch] ELSE Len(p.output_token_ids[ch])

Whole(p, abortable, ch, tokens, reason) ==
  /\ reason # Unfinished
  /\ tokens = p.output_token_ids[ch]
  /\ reason = "abort" => ExternalId[CallOf(ch)] \in abortable
  /\ reason = "length" => Len(tokens) = MaxTokens[CallOf(ch)]

\* The parent of samples of which only the final output is wanted keeps them.
Aggregates(p, c) == HasParent(c) /\ p.output_kind[c] = "FINAL_ONLY"

Aggregated(p, abortable, ch) ==
  /\ ch \in DOMAIN p.output_aggregator[CallOf(ch)]
  /\ Whole(p, abortable, ch, p.output_aggregator[CallOf(ch)][ch].tokens,
           p.output_aggregator[CallOf(ch)][ch].reason)

\* unfinished: the requests that are not finished; live: the calls that may still end well.
DeltaInv(p, got, ch) ==
  p.output_kind[CallOf(ch)] = "DELTA" =>
    Have(p, got, ch) = SubSeq(p.output_token_ids[ch], 1, Sent(p, ch))

WholeInv(p, unfinished, abortable, got, end, ch) ==
  ch \notin unfinished =>
    IF Aggregates(p, CallOf(ch)) /\ Children(CallOf(ch)) \intersect unfinished # {}
      THEN Aggregated(p, abortable, ch)
      ELSE /\ Whole(p, abortable, ch, Have(p, got, ch), HaveReason(p, end, ch))
           /\ Aggregates(p, CallOf(ch)) => Aggregated(p, abortable, ch)

AccountInv(p, unfinished, live, abortable, got, end) ==
  \A ch \in Child :
    CallOf(ch) \in live /\ ~p.queue[CallOf(ch)].error =>
      DeltaInv(p, got, ch) /\ WholeInv(p, unfinished, abortable, got, end, ch)

FinishInv(p, unfinished) ==
  \A c \in Calls :
    /\ HasParent(c) => p.child_requests[c] = Children(c) \intersect unfinished
    /\ p.queue[c].finished => Children(c) \intersect unfinished = {}

\* The accounts of the calls that may still end well, with some requests unfinished.
Accounted(p, U, live, abortable, got, end) ==
  FinishInv(p, U) /\ AccountInv(p, U, live, abortable, got, end)

MapInv ==
  /\ \A x \in ExternalIds :
       op.external_req_ids[x] = {ch \in op.request_states : ExternalId[CallOf(ch)] = x}
  /\ \A c \in Calls : HasParent(c) =>
       /\ op.child_requests[c] # {} => c \in op.parent_requests
       /\ c \in op.parent_requests /\ op.child_requests[c] = {} => ExternalId[c] \in aborted_ids

Live == {c \in Calls : call[c] \in {"running", "done"}}

CallInv ==
  \A ch \in Child :
    LET c == CallOf(ch)
    IN  /\ call[c] = "new" =>
             /\ ch \notin op.request_states
             /\ received[ch] = <<>>
             /\ op.queue[c] = Nothing
             /\ op.output_aggregator[c] = <<>>
             /\ op.output_token_ids[ch] = <<>>
             /\ op.sent_tokens_offset[ch] = 0
        /\ call[c] = "done" => ch \notin op.request_states /\ op.queue[c] = Nothing

\* Outputs on their way.
Under(ch) == {at \in (DOMAIN from_engine) \X Nat :
               at[2] \in DOMAIN from_engine[at[1]] /\ from_engine[at[1]][at[2]].child = ch}
OutputAt(at) == from_engine[at[1]][at[2]]

FlowInv ==
  \A ch \in op.request_states :
    LET n == Len(op.output_token_ids[ch])
    IN  /\ \A at \in Under(ch) :
             /\ OutputAt(at).token > n
             /\ \A k \in n + 1 .. OutputAt(at).token :
                  \E to \in Under(ch) : to[1] <= at[1] /\ OutputAt(to).token = k
             /\ \A to \in Under(ch) :
                  /\ at[1] < to[1] => OutputAt(at).token < OutputAt(to).token
                  /\ at[1] = to[1] => at = to
             /\ engine_alive => OutputAt(at).token <= engine[ch].tokens
             /\ engine_alive /\ OutputAt(at).reason # Unfinished => engine[ch].state = "gone"
             /\ OutputAt(at).reason = "length" => OutputAt(at).token = MaxTokens[CallOf(ch)]
        /\ engine_alive =>
             /\ n <= engine[ch].tokens
             /\ \A k \in n + 1 .. engine[ch].tokens : \E at \in Under(ch) : OutputAt(at).token = k

Told(ch, type) == {i \in DOMAIN to_engine : to_engine[i].type = type /\ ch \in to_engine[i].children}

EngineInv ==
  \A ch \in Child :
    /\ call[CallOf(ch)] = "new" =>
         /\ Under(ch) = {}
         /\ ch \notin to_abort
         /\ Told(ch, "ADD") = {}
         /\ Told(ch, "ABORT") = {}
         /\ engine[ch].tokens = 0
         /\ engine[ch].state # "running"
         /\ engine_alive => engine[ch].state = "absent"
    /\ \A i, j \in Told(ch, "ADD") : i = j
    /\ \A i \in Told(ch, "ADD"), j \in Told(ch, "ABORT") : i < j
    /\ engine_alive /\ engine[ch].state # "absent" => Told(ch, "ADD") = {}
    /\ /\ engine_alive
       /\ ~engine_dead
       /\ engine[ch].state = "running" \/ Told(ch, "ADD") # {}
       => ch \in op.request_states \/ ch \in to_abort \/ Told(ch, "ABORT") # {}

\* The output processor as a record, for the provers.
Pieces == UNION {[chs -> Piece] : chs \in SUBSET Child}
OutputProcessors ==
  [request_states : SUBSET Child,
   external_req_ids : [ExternalIds -> SUBSET Child],
   parent_requests : SUBSET Calls,
   child_requests : [Calls -> SUBSET Child],
   output_aggregator : [Calls -> Pieces],
   output_kind : [Calls -> Kinds],
   output_token_ids : [Child -> Seq(Nat)],
   sent_tokens_offset : [Child -> Nat],
   queue : [Calls -> [outputs : Pieces, finished : BOOLEAN, error : BOOLEAN]]]

\* What belongs to a call is about its own samples.
OwnInv(p) ==
  /\ \A c \in p.parent_requests : HasParent(c)
  /\ \A c \in Calls :
       /\ p.child_requests[c] \subseteq Children(c)
       /\ DOMAIN p.output_aggregator[c] \subseteq Children(c)
       /\ DOMAIN p.queue[c].outputs \subseteq Children(c)
  /\ \A ch \in Child : p.sent_tokens_offset[ch] <= Len(p.output_token_ids[ch])

OPType(p) == p \in OutputProcessors /\ OwnInv(p)

VariableTypes ==
  /\ call \in [Calls -> {"new", "running", "done", "cancelled", "failed"}]
  /\ received \in [Child -> Seq(Nat)]
  /\ ending \in [Child -> Reasons \union {Unfinished}]
  /\ to_engine \in Seq(Messages)
  /\ from_engine \in Seq(Seq(Outputs))
  /\ to_abort \subseteq Child
  /\ handler \in {"running", "done"}
  /\ engine \in [Child -> [state : {"absent", "running", "gone"}, tokens : Nat]]
  /\ engine_alive \in BOOLEAN
  /\ engine_dead \in BOOLEAN
  /\ aborted_ids \subseteq ExternalIds

\* Tokens are numbered in their order.
TokensInOrder(p) ==
  \A ch \in Child : Upto(p.output_token_ids[ch], Len(p.output_token_ids[ch]))

FrontEndInv ==
  /\ VariableTypes
  /\ OPType(op)
  /\ TokensInOrder(op)
  /\ Accounted(op, op.request_states, Live, aborted_ids, received, ending)
  /\ MapInv
  /\ CallInv
  /\ FlowInv
  /\ EngineInv

-----------------------------------------------------------------------------
(* Calls and their samples *)

LEMMA Samples ==
  /\ \A ch \in Child : CallOf(ch) \in Calls /\ ch \in Children(CallOf(ch))
  /\ \A c \in Calls : \A ch \in Children(c) : ch \in Child /\ CallOf(ch) = c
  /\ \A c \in Calls : Children(c) # {} /\ Children(c) \subseteq Child
  /\ \A c \in Calls : ~HasParent(c) => \A ch, other \in Children(c) : ch = other
  /\ \A c \in Calls : ExternalId[c] \in ExternalIds
<1>1. \A c \in Calls : N[c] \in Nat /\ N[c] >= 1
  BY FrontEndAssumption
<1>2. \A c \in Calls : \A ch \in Children(c) : ch[1] = c /\ ch[2] \in 1 .. N[c] /\ ch = <<ch[1], ch[2]>>
  BY DEF Children
<1>3. \A c \in Calls : Children(c) \subseteq Child
  BY DEF Child
<1>4. \A ch \in Child : \E c \in Calls : ch \in Children(c)
  BY DEF Child
<1>5. \A c \in Calls : <<c, 1>> \in Children(c)
  BY <1>1 DEF Children
<1>6. \A c \in Calls : ~HasParent(c) => \A ch, other \in Children(c) : ch = other
  <2> SUFFICES ASSUME NEW c \in Calls, ~HasParent(c), NEW ch \in Children(c), NEW other \in Children(c)
               PROVE  ch = other
    OBVIOUS
  <2>1. N[c] = 1
    BY <1>1 DEF HasParent
  <2>2. ch[1] = c /\ other[1] = c /\ ch[2] = 1 /\ other[2] = 1
    BY <1>2, <2>1
  <2> QED BY <1>2, <2>2
<1>7. \A c \in Calls : ExternalId[c] \in ExternalIds
  BY DEF ExternalIds
<1>8. \A ch \in Child : CallOf(ch) \in Calls /\ ch \in Children(CallOf(ch))
  BY <1>2, <1>4 DEF CallOf
<1>9. \A c \in Calls : \A ch \in Children(c) : ch \in Child /\ CallOf(ch) = c
  BY <1>2, <1>3 DEF CallOf
<1>10. \A c \in Calls : Children(c) # {}
  BY <1>5
<1> QED BY <1>3, <1>6, <1>7, <1>8, <1>9, <1>10

LEMMA ChildIsFinite == IsFiniteSet(Child)
<1>1. ASSUME NEW c \in Calls PROVE IsFiniteSet(Children(c))
  <2>1. N[c] \in Int /\ 1 \in Int
    BY FrontEndAssumption
  <2>2. IsFiniteSet({c}) /\ IsFiniteSet(1 .. N[c])
    BY <2>1, FS_Singleton, FS_Interval
  <2> QED BY <2>2, FS_Product DEF Children
<1>2. IsFiniteSet({Children(c) : c \in Calls})
  <2> DEFINE f == [c \in Calls |-> Children(c)]
             T == {Children(c) : c \in Calls}
  <2>1. f \in Surjection(Calls, T)
    <3>1. f \in [Calls -> T]
      OBVIOUS
    <3>2. \A t \in T : \E c \in Calls : f[c] = t
      OBVIOUS
    <3> HIDE DEF f, T
    <3> QED BY <3>1, <3>2 DEF Surjection
  <2>2. IsFiniteSet(Calls)
    BY FrontEndAssumption
  <2> HIDE DEF f, T
  <2>3. IsFiniteSet(T)
    BY <2>1, <2>2, FS_Surjection
  <2> QED BY <2>3 DEF T
<1> QED BY <1>1, <1>2, FS_UNION DEF Child

-----------------------------------------------------------------------------
(* AllAborted, by its recursion over the prefixes of a sequence of requests. *)

LEMMA AbortSteps ==
  ASSUME NEW p, NEW seq \in Seq(Child)
  PROVE  \E it :
           /\ it[0] = p
           /\ \A n \in 1 .. Len(seq) : it[n] = Aborted(it[n - 1], seq[n])
           /\ FoldLeft(Aborted, p, seq) = it[Len(seq)]
<1> DEFINE D == 1 .. Len(seq)
           Value(it, s) == IF s = {} THEN p ELSE Aborted(it[s \ {Max(s)}], seq[Max(s)])
           Known(it, k) == \A s \in SUBSET D : Cardinality(s) <= k => it[s] = Value(it, s)
           T == {k \in Nat : \E it : it = [s \in SUBSET D |-> it[s]] /\ Known(it, k)}
<1>1. Len(seq) \in Nat /\ IsFiniteSet(D) /\ DOMAIN seq = D
  BY FS_Interval
<1>2. \A s \in SUBSET D : IsFiniteSet(s) /\ Cardinality(s) \in Nat
  BY <1>1, FS_Subset, FS_CardinalityType
<1>3. ASSUME NEW s \in SUBSET D, s # {}
      PROVE  /\ Max(s) \in s
             /\ s \ {Max(s)} \in SUBSET D
             /\ Cardinality(s \ {Max(s)}) = Cardinality(s) - 1
  <2>1. s \in SUBSET (0 .. Len(seq))
    BY <1>1
  <2>2. Max(s) \in s
    BY <2>1, <1>1, <1>3, MaxIsMax
  <2> QED BY <2>2, <1>2, FS_RemoveElement
<1>4. 0 \in T
  <2> DEFINE f == [s \in SUBSET D |-> p]
  <2>1. Known(f, 0)
    <3> SUFFICES ASSUME NEW s \in SUBSET D, Cardinality(s) <= 0 PROVE f[s] = Value(f, s)
      OBVIOUS
    <3>1. s = {}
      BY <1>2, FS_EmptySet
    <3> QED BY <3>1
  <2>2. f = [s \in SUBSET D |-> f[s]]
    OBVIOUS
  <2> HIDE DEF f, Known
  <2> QED BY <2>1, <2>2
<1>5. ASSUME NEW k \in T PROVE k + 1 \in T
  <2>1. PICK f : f = [s \in SUBSET D |-> f[s]] /\ Known(f, k)
    BY <1>5
  <2> DEFINE g == [s \in SUBSET D |-> IF Cardinality(s) <= k THEN f[s] ELSE Value(f, s)]
  <2>2. k \in Nat
    OBVIOUS
  <2>3. Known(g, k + 1)
    <3> SUFFICES ASSUME NEW s \in SUBSET D, Cardinality(s) <= k + 1 PROVE g[s] = Value(g, s)
      OBVIOUS
    <3>1. CASE s = {}
      <4>1. g[s] = Value(f, s)
        BY <2>1
      <4> QED BY <4>1, <3>1
    <3>2. CASE s # {}
      <4>1. g[s \ {Max(s)}] = f[s \ {Max(s)}]
        BY <1>2, <1>3, <3>2, <2>2, SMTT(40)
      <4>2. g[s] = Value(f, s)
        BY <2>1
      <4> HIDE DEF g
      <4> QED BY <4>1, <4>2, <3>2
    <3> QED BY <3>1, <3>2
  <2>4. g = [s \in SUBSET D |-> g[s]]
    OBVIOUS
  <2> HIDE DEF g, Known
  <2> QED BY <2>2, <2>3, <2>4
<1>6. Cardinality(D) \in T
  <2> HIDE DEF T
  <2>1. T \in SUBSET Nat
    BY DEF T
  <2>2. T = Nat
    BY <2>1, <1>4, <1>5, SetInduction
  <2> QED BY <2>2, <1>2
<1>7. \E it : it = [s \in SUBSET D |-> Value(it, s)]
  <2>1. PICK it : it = [s \in SUBSET D |-> it[s]] /\ Known(it, Cardinality(D))
    BY <1>6
  <2>2. \A s \in SUBSET D : Cardinality(s) <= Cardinality(D)
    BY <1>1, FS_Subset
  <2>3. \A s \in SUBSET D : it[s] = Value(it, s)
    BY <2>1, <2>2
  <2> HIDE DEF Value
  <2> QED BY <2>1, <2>3
<1>8. PICK it : it = [s \in SUBSET D |-> Value(it, s)] /\ FoldLeft(Aborted, p, seq) = it[D]
  BY Zenon, <1>1, <1>7 DEF FoldLeft, MapThenFoldSet
<1> DEFINE a == [n \in 0 .. Len(seq) |-> it[1 .. n]]
<1>9. a[0] = p
  <2>1. 1 .. 0 = {} /\ 1 .. 0 \in SUBSET D
    OBVIOUS
  <2> QED BY <2>1, <1>1, <1>8
<1>10. ASSUME NEW n \in 1 .. Len(seq)
       PROVE  a[n] = Aborted(a[n - 1], seq[n])
  <2>1. /\ n \in Nat
        /\ 1 .. n \subseteq D
        /\ n \in 1 .. n
        /\ 1 .. n \subseteq 0 .. n
    BY <1>1
  <2>2. Max(1 .. n) = n
    <3>1. 1 .. n \in SUBSET (0 .. n) /\ 1 .. n # {}
      BY <2>1
    <3>2. Max(1 .. n) \in 1 .. n /\ \A m \in 1 .. n : m <= Max(1 .. n)
      BY <2>1, <3>1, MaxIsMax
    <3> QED BY <3>2, <2>1
  <2>3. (1 .. n) \ {n} = 1 .. n - 1
    BY <2>1
  <2>4. it[1 .. n] = Value(it, 1 .. n)
    BY <1>8, <2>1
  <2>5. it[1 .. n] = Aborted(it[1 .. n - 1], seq[n])
    BY <2>1, <2>2, <2>3, <2>4
  <2>6. a[n] = it[1 .. n] /\ a[n - 1] = it[1 .. n - 1]
    BY <1>1
  <2> QED BY <2>5, <2>6
<1>11. FoldLeft(Aborted, p, seq) = a[Len(seq)]
  BY <1>8, <1>1
<1> HIDE DEF a
<1> QED BY <1>9, <1>10, <1>11

\* The sequence names each of the requests once.
LEMMA AbortOrder ==
  ASSUME NEW chs \in SUBSET Child
  PROVE  /\ SetToSeq(chs) \in Seq(Child)
         /\ \A i, j \in 1 .. Len(SetToSeq(chs)) : SetToSeq(chs)[i] = SetToSeq(chs)[j] => i = j
         /\ \A i \in 1 .. Len(SetToSeq(chs)) : SetToSeq(chs)[i] \in chs
         /\ \A ch \in chs : \E i \in 1 .. Len(SetToSeq(chs)) : SetToSeq(chs)[i] = ch
<1> DEFINE n == Cardinality(chs)
           s == SetToSeq(chs)
<1>1. IsFiniteSet(chs) /\ n \in Nat /\ ExistsBijection(1 .. n, chs)
  BY ChildIsFinite, FS_Subset, FS_CardinalityType
<1>2. \E f \in [1 .. n -> chs] : IsInjective(f)
  <2>1. PICK f \in Bijection(1 .. n, chs) : TRUE
    BY <1>1 DEF ExistsBijection
  <2>2. f \in [1 .. n -> chs] /\ IsInjective(f)
    BY <2>1 DEF Bijection, Injection
  <2> QED BY <2>2
<1>3. s \in [1 .. n -> chs] /\ IsInjective(s)
  BY <1>2 DEF SetToSeq
<1> HIDE DEF s
<1>4. \A i, j \in 1 .. n : s[i] = s[j] => i = j
  BY <1>3 DEF IsInjective
<1>5. s \in Seq(Child) /\ Len(s) = n
  BY <1>1, <1>3
<1>6. \A ch \in chs : \E i \in 1 .. n : s[i] = ch
  <2>1. s \in Injection(1 .. n, chs)
    BY <1>3 DEF Injection
  <2>2. Cardinality(1 .. n) = n
    BY <1>1, FS_Interval
  <2> HIDE DEF n
  <2>3. s \in Surjection(1 .. n, chs)
    BY <2>1, <2>2, <1>1, FS_Injection DEF n
  <2> QED BY <2>3 DEF Surjection
<1>7. /\ s \in Seq(Child)
      /\ \A i, j \in 1 .. Len(s) : s[i] = s[j] => i = j
      /\ \A i \in 1 .. Len(s) : s[i] \in chs
      /\ \A ch \in chs : \E i \in 1 .. Len(s) : s[i] = ch
  BY <1>3, <1>4, <1>5, <1>6
<1> QED BY <1>7 DEF s

-----------------------------------------------------------------------------
(* What the methods of the output processor do to its state *)

LEMMA NoPieces ==
  /\ <<>> \in Pieces
  /\ DOMAIN <<>> = {}
  /\ \A f \in Pieces : f # <<>> <=> DOMAIN f # {}
<1>1. <<>> \in [{} -> Piece] /\ DOMAIN <<>> = {}
  OBVIOUS
<1>2. <<>> \in Pieces
  BY <1>1 DEF Pieces
<1>3. ASSUME NEW f \in Pieces, DOMAIN f = {} PROVE f = <<>>
  <2>1. f \in [{} -> Piece]
    BY <1>3 DEF Pieces
  <2> QED BY <2>1, <1>1
<1> QED BY <1>1, <1>2, <1>3

LEMMA PieceType ==
  /\ \A f \in Pieces : /\ DOMAIN f \subseteq Child
                       /\ \A ch \in DOMAIN f : f[ch] \in Piece
                       /\ f = [ch \in DOMAIN f |-> f[ch]]
  /\ \A s \in SUBSET Child : \A f \in [s -> Piece] : f \in Pieces
BY DEF Pieces

LEMMA WithType ==
  ASSUME NEW f \in Pieces, NEW ch \in Child, NEW v \in Piece
  PROVE  /\ With(f, ch, v) \in Pieces
         /\ DOMAIN With(f, ch, v) = DOMAIN f \union {ch}
         /\ With(f, ch, v)[ch] = v
         /\ \A x \in DOMAIN f : x # ch => With(f, ch, v)[x] = f[x]
         /\ With(f, ch, v) # <<>>
<1> DEFINE g == With(f, ch, v)
<1>1. g = [y \in DOMAIN f \union {ch} |-> IF y = ch THEN v ELSE f[y]]
  BY DEF With
<1>2. DOMAIN f \subseteq Child /\ \A y \in DOMAIN f : f[y] \in Piece
  BY PieceType
<1>3. g \in [DOMAIN f \union {ch} -> Piece]
  BY <1>1, <1>2
<1>4. g \in Pieces
  <2> HIDE DEF g
  <2> QED BY <1>2, <1>3, PieceType
<1>5. g # <<>>
  <2>1. DOMAIN g # {}
    BY <1>1
  <2> HIDE DEF g
  <2> QED BY <2>1, <1>4, NoPieces
<1> QED BY <1>1, <1>4, <1>5

\* The parts of the state that outputs leave alone.
Keeps(p, w) ==
  /\ w.request_states = p.request_states
  /\ w.external_req_ids = p.external_req_ids
  /\ w.parent_requests = p.parent_requests
  /\ w.output_kind = p.output_kind
  /\ w.output_token_ids = p.output_token_ids

\* r is the collector q after outputs were put into it.
PutInto(q, r, outputs, finished, delta) ==
  IF q.error THEN r = q
  ELSE /\ ~r.error
       /\ r.finished = (q.finished \/ finished)
       /\ DOMAIN r.outputs = DOMAIN q.outputs \union DOMAIN outputs
       /\ \A x \in DOMAIN r.outputs :
            r.outputs[x] = IF x \notin DOMAIN outputs THEN q.outputs[x]
                           ELSE IF x \notin DOMAIN q.outputs THEN outputs[x]
                           ELSE Merged(delta, q.outputs[x], outputs[x])

LEMMA PutKeeps ==
  ASSUME NEW p, OPType(p), NEW c \in Calls, NEW outputs \in Pieces,
         DOMAIN outputs \subseteq Children(c), NEW finished \in BOOLEAN,
         NEW w, w = WithPut(p, c, outputs, finished)
  PROVE  /\ OPType(w)
         /\ Keeps(p, w)
         /\ w.child_requests = p.child_requests
         /\ w.output_aggregator = p.output_aggregator
         /\ w.sent_tokens_offset = p.sent_tokens_offset
         /\ \A d \in Calls : d # c => w.queue[d] = p.queue[d]
         /\ PutInto(p.queue[c], w.queue[c], outputs, finished, p.output_kind[c] = "DELTA")
<1> DEFINE q == p.queue[c]
           delta == p.output_kind[c] = "DELTA"
           merged == [ch \in DOMAIN q.outputs \union DOMAIN outputs |->
                        IF ch \notin DOMAIN outputs THEN q.outputs[ch]
                        ELSE IF ch \notin DOMAIN q.outputs THEN outputs[ch]
                        ELSE Merged(delta, q.outputs[ch], outputs[ch])]
           r == [outputs |-> merged, error |-> FALSE, finished |-> q.finished \/ finished]
<1>1. w = IF q.error THEN p ELSE [p EXCEPT !.queue[c] = r]
  BY DEF WithPut
<1>2. p \in OutputProcessors /\ OwnInv(p)
  BY DEF OPType
<1>3. q \in [outputs : Pieces, finished : BOOLEAN, error : BOOLEAN] /\ DOMAIN q.outputs \subseteq Children(c)
  BY <1>2 DEF OutputProcessors, OwnInv
<1>4. CASE q.error
  BY <1>4, <1>1, <1>2 DEF PutInto, Keeps, OPType
<1>5. CASE ~q.error
  <2>1. w = [p EXCEPT !.queue = [p.queue EXCEPT ![c] = r]]
    BY <1>1, <1>5, <1>2 DEF OutputProcessors
  <2>2. merged \in Pieces /\ DOMAIN merged = DOMAIN q.outputs \union DOMAIN outputs
    <3>1. \A x, y \in Piece : Merged(delta, x, y) \in Piece
      BY DEF Merged, Piece
    <3>2. /\ \A ch \in DOMAIN outputs : outputs[ch] \in Piece
          /\ \A ch \in DOMAIN q.outputs : q.outputs[ch] \in Piece
      BY <1>3, PieceType
    <3>3. merged \in [DOMAIN q.outputs \union DOMAIN outputs -> Piece]
      BY <3>1, <3>2
    <3>4. DOMAIN q.outputs \union DOMAIN outputs \in SUBSET Child
      BY <1>3, Samples
    <3> HIDE DEF merged, q
    <3> QED BY <3>3, <3>4, PieceType
  <2>3. PutInto(q, r, outputs, finished, delta)
    BY <1>5 DEF PutInto
  <2>4. r \in [outputs : Pieces, finished : BOOLEAN, error : BOOLEAN]
    <3> HIDE DEF merged
    <3> QED BY <2>2, <1>3
  <2>5. r.outputs = merged
    OBVIOUS
  <2> HIDE DEF r, merged, delta
  <2>6. w \in OutputProcessors
    <3>1. [p.queue EXCEPT ![c] = r] \in
            [Calls -> [outputs : Pieces, finished : BOOLEAN, error : BOOLEAN]]
      BY <2>4, <1>2 DEF OutputProcessors
    <3> DEFINE new == [p.queue EXCEPT ![c] = r]
    <3> HIDE DEF new
    <3>2. w = [p EXCEPT !.queue = new]
      BY <2>1 DEF new
    <3> QED BY <3>1, <3>2, <1>2 DEF OutputProcessors, new
  <2>7. /\ Keeps(p, w)
        /\ w.child_requests = p.child_requests
        /\ w.output_aggregator = p.output_aggregator
        /\ w.sent_tokens_offset = p.sent_tokens_offset
        /\ w.queue = [p.queue EXCEPT ![c] = r]
    BY <2>1, <1>2 DEF OutputProcessors, Keeps
  <2>8. \A d \in Calls : w.queue[d] = IF d = c THEN r ELSE p.queue[d]
    <3>1. p.queue \in [Calls -> [outputs : Pieces, finished : BOOLEAN, error : BOOLEAN]]
      BY <1>2 DEF OutputProcessors
    <3> QED BY <3>1, <2>7
  <2>9. DOMAIN r.outputs \subseteq Children(c)
    BY <2>2, <2>5, <1>3
  <2>10. OwnInv(w)
    BY <2>7, <2>8, <2>9, <1>2 DEF OwnInv, Keeps
  <2> QED BY <2>3, <2>6, <2>7, <2>8, <2>10 DEF OPType, delta
<1> QED BY <1>4, <1>5

\* make_request_output before anything is put.
PieceToSend(p, ch, new, reason) == [tokens |-> TokensToSend(p, ch, new), reason |-> reason]

Noted(p, ch, new, reason) ==
  [p EXCEPT
    !.sent_tokens_offset[ch] = IF KeepsOffset(p, ch) THEN SentOffset(p, ch) ELSE @,
    !.child_requests[CallOf(ch)] = IF reason # Unfinished THEN @ \ {ch} ELSE @,
    !.output_aggregator[CallOf(ch)] =
      IF Aggregates(p, CallOf(ch)) THEN With(@, ch, PieceToSend(p, ch, new, reason)) ELSE @]

\* w is what an output that is due makes of p.
NotedIn(p, w, ch, piece) ==
  /\ OPType(w)
  /\ Keeps(p, w)
  /\ \A x \in Child : w.sent_tokens_offset[x] =
       IF x = ch /\ KeepsOffset(p, ch) THEN Len(p.output_token_ids[ch]) ELSE p.sent_tokens_offset[x]
  /\ \A c \in Calls : w.child_requests[c] =
       IF c = CallOf(ch) /\ piece.reason # Unfinished THEN p.child_requests[c] \ {ch}
       ELSE p.child_requests[c]
  /\ \A c \in Calls : w.output_aggregator[c] =
       IF c = CallOf(ch) /\ Aggregates(p, c) THEN With(p.output_aggregator[c], ch, piece)
       ELSE p.output_aggregator[c]

LEMMA PieceToSendType ==
  ASSUME NEW p, OPType(p), NEW ch \in Child, NEW new \in Seq(Nat),
         NEW reason \in Reasons \union {Unfinished}
  PROVE  PieceToSend(p, ch, new, reason) \in Piece
<1>1. p.output_token_ids[ch] \in Seq(Nat) /\ p.sent_tokens_offset[ch] \in Nat
  BY DEF OPType, OutputProcessors
<1>2. SubSeq(p.output_token_ids[ch], p.sent_tokens_offset[ch] + 1, Len(p.output_token_ids[ch])) \in Seq(Nat)
  BY <1>1, SubSeqProperties
<1>3. TokensToSend(p, ch, new) \in Seq(Nat)
  BY <1>1, <1>2 DEF TokensToSend
<1> QED BY <1>3 DEF PieceToSend, Piece

LEMMA NotedKeeps ==
  ASSUME NEW p, OPType(p), NEW ch \in Child, NEW new \in Seq(Nat),
         NEW reason \in Reasons \union {Unfinished},
         NEW w, w = Noted(p, ch, new, reason)
  PROVE  NotedIn(p, w, ch, PieceToSend(p, ch, new, reason)) /\ w.queue = p.queue
<1> DEFINE c == CallOf(ch)
           piece == PieceToSend(p, ch, new, reason)
           offset == IF KeepsOffset(p, ch) THEN SentOffset(p, ch) ELSE p.sent_tokens_offset[ch]
           children == IF reason # Unfinished THEN p.child_requests[c] \ {ch} ELSE p.child_requests[c]
           pieces == IF Aggregates(p, c) THEN With(p.output_aggregator[c], ch, piece)
                     ELSE p.output_aggregator[c]
           offsets == [p.sent_tokens_offset EXCEPT ![ch] = offset]
           childrens == [p.child_requests EXCEPT ![c] = children]
           aggregators == [p.output_aggregator EXCEPT ![c] = pieces]
<1>1. p \in OutputProcessors /\ OwnInv(p) /\ c \in Calls /\ ch \in Children(c)
  BY Samples DEF OPType
<1>2. piece \in Piece /\ piece.reason = reason
  BY PieceToSendType DEF PieceToSend
<1>3. offset \in Nat /\ offset <= Len(p.output_token_ids[ch]) /\ Len(p.output_token_ids[ch]) \in Nat
  BY <1>1 DEF SentOffset, OutputProcessors, OwnInv
<1>4. children \in SUBSET Child /\ children \subseteq Children(c)
  BY <1>1 DEF OutputProcessors, OwnInv
<1>5. pieces \in Pieces /\ DOMAIN pieces \subseteq Children(c)
  <2> DEFINE f == p.output_aggregator[c]
  <2>1. f \in Pieces /\ DOMAIN f \subseteq Children(c) /\ piece \in Piece
    BY <1>1, <1>2 DEF OutputProcessors, OwnInv
  <2> HIDE DEF piece, f
  <2>2. With(f, ch, piece) \in Pieces /\ DOMAIN With(f, ch, piece) = DOMAIN f \union {ch}
    BY <2>1, WithType
  <2> QED BY <2>1, <2>2, <1>1 DEF f
<1>6. w = [p EXCEPT !.sent_tokens_offset = offsets, !.child_requests = childrens,
                    !.output_aggregator = aggregators]
  BY <1>1 DEF Noted, OutputProcessors
<1>7. offsets \in [Child -> Nat] /\ \A x \in Child : offsets[x] = IF x = ch THEN offset ELSE p.sent_tokens_offset[x]
  <2>1. p.sent_tokens_offset \in [Child -> Nat]
    BY <1>1 DEF OutputProcessors
  <2> HIDE DEF offset
  <2> QED BY <2>1, <1>3
<1>8. /\ childrens \in [Calls -> SUBSET Child]
      /\ \A d \in Calls : childrens[d] = IF d = c THEN children ELSE p.child_requests[d]
  <2>1. p.child_requests \in [Calls -> SUBSET Child]
    BY <1>1 DEF OutputProcessors
  <2> HIDE DEF children
  <2> QED BY <2>1, <1>1, <1>4
<1>9. /\ aggregators \in [Calls -> Pieces]
      /\ \A d \in Calls : aggregators[d] = IF d = c THEN pieces ELSE p.output_aggregator[d]
  <2>1. p.output_aggregator \in [Calls -> Pieces]
    BY <1>1 DEF OutputProcessors
  <2> HIDE DEF pieces
  <2> QED BY <2>1, <1>1, <1>5
<1> HIDE DEF offsets, childrens, aggregators
<1>10. w \in OutputProcessors
  BY <1>1, <1>6, <1>7, <1>8, <1>9 DEF OutputProcessors
<1>11. /\ w.sent_tokens_offset = offsets
       /\ w.child_requests = childrens
       /\ w.output_aggregator = aggregators
       /\ w.queue = p.queue
       /\ Keeps(p, w)
  BY <1>1, <1>6 DEF OutputProcessors, Keeps
<1>12. OwnInv(w)
  <2> HIDE DEF offset, children, pieces
  <2> QED BY <1>1, <1>3, <1>4, <1>5, <1>7, <1>8, <1>9, <1>11 DEF OwnInv, Keeps
<1>13. \A x \in Child : w.sent_tokens_offset[x] =
         IF x = ch /\ KeepsOffset(p, ch) THEN Len(p.output_token_ids[ch]) ELSE p.sent_tokens_offset[x]
  BY <1>7, <1>11 DEF SentOffset
<1>14. \A d \in Calls : w.child_requests[d] =
         IF d = c /\ piece.reason # Unfinished THEN p.child_requests[d] \ {ch} ELSE p.child_requests[d]
  <2> HIDE DEF piece
  <2> QED BY <1>2, <1>8, <1>11
<1>15. \A d \in Calls : w.output_aggregator[d] =
         IF d = c /\ Aggregates(p, d) THEN With(p.output_aggregator[d], ch, piece)
         ELSE p.output_aggregator[d]
  <2> HIDE DEF piece
  <2> QED BY <1>9, <1>11
<1> QED BY <1>10, <1>11, <1>12, <1>13, <1>14, <1>15 DEF NotedIn, OPType

\* What an output does: nothing if it is not due; otherwise it is noted, and put
\* into the collector, with or without the outputs of its siblings.
OutputMade(p, w, ch, piece) ==
  LET c == CallOf(ch)
      delta == p.output_kind[c] = "DELTA"
  IN  /\ NotedIn(p, w, ch, piece)
      /\ \A d \in Calls : d # c => w.queue[d] = p.queue[d]
      /\ IF Aggregates(p, c)
           THEN IF w.child_requests[c] # {} THEN w.queue[c] = p.queue[c]
                ELSE PutInto(p.queue[c], w.queue[c], w.output_aggregator[c], TRUE, delta)
           ELSE PutInto(p.queue[c], w.queue[c], With(<<>>, ch, piece),
                        CallFinished(w, c, piece.reason), delta)

LEMMA OutputMakes ==
  ASSUME NEW p, OPType(p), NEW ch \in Child, NEW new \in Seq(Nat),
         NEW reason \in Reasons \union {Unfinished},
         HasParent(CallOf(ch)) /\ reason # Unfinished => ch \in p.child_requests[CallOf(ch)],
         NEW w, w = WithOutput(p, ch, new, reason)
  PROVE  IF OutputIsDue(p, ch, reason) THEN OutputMade(p, w, ch, PieceToSend(p, ch, new, reason))
         ELSE w = p
<1> DEFINE c == CallOf(ch)
           piece == PieceToSend(p, ch, new, reason)
           told == Noted(p, ch, new, reason)
           outputs ==
             IF Aggregates(p, c)
               THEN IF told.child_requests[c] = {} THEN told.output_aggregator[c] ELSE <<>>
               ELSE With(<<>>, ch, piece)
           finished == CallFinished(told, c, reason)
<1>1. w = IF ~OutputIsDue(p, ch, reason) THEN p
          ELSE IF outputs = <<>> THEN told
          ELSE WithPut(told, c, outputs, finished)
  BY DEF WithOutput, Noted, PieceToSend, Aggregates
<1> SUFFICES ASSUME OutputIsDue(p, ch, reason) PROVE OutputMade(p, w, ch, piece)
  BY <1>1
<1>2. p \in OutputProcessors /\ OwnInv(p) /\ c \in Calls /\ ch \in Children(c)
  BY Samples DEF OPType
<1>3. piece \in Piece /\ piece.reason = reason
  BY PieceToSendType DEF PieceToSend
<1>4. NotedIn(p, told, ch, piece) /\ told.queue = p.queue
  BY NotedKeeps
<1>5. w = IF outputs = <<>> THEN told ELSE WithPut(told, c, outputs, finished)
  BY <1>1
<1>6. OPType(told) /\ told \in OutputProcessors /\ OwnInv(told)
  BY <1>4 DEF NotedIn, OPType
<1>7. outputs \in Pieces /\ DOMAIN outputs \subseteq Children(c)
  <2>1. told.output_aggregator[c] \in Pieces /\ DOMAIN told.output_aggregator[c] \subseteq Children(c)
    BY <1>6, <1>2 DEF OutputProcessors, OwnInv
  <2>2. With(<<>>, ch, piece) \in Pieces /\ DOMAIN With(<<>>, ch, piece) = {ch}
    <3> DEFINE e == <<>>
    <3>1. e \in Pieces /\ DOMAIN e = {}
      BY NoPieces
    <3> HIDE DEF piece, e
    <3>2. With(e, ch, piece) \in Pieces /\ DOMAIN With(e, ch, piece) = DOMAIN e \union {ch}
      BY <3>1, <1>3, WithType
    <3>3. With(e, ch, piece) \in Pieces /\ DOMAIN With(e, ch, piece) = {ch}
      BY <3>1, <3>2
    <3> QED BY <3>3 DEF e
  <2> HIDE DEF told, piece
  <2> QED BY <2>1, <2>2, <1>2, NoPieces
<1>8. outputs = <<>> <=> Aggregates(p, c) /\ told.child_requests[c] # {}
  <2>1. With(<<>>, ch, piece) # <<>>
    <3> DEFINE e == <<>>
    <3>1. e \in Pieces
      BY NoPieces
    <3> HIDE DEF piece, e
    <3>2. With(e, ch, piece) # <<>>
      BY <3>1, <1>3, WithType
    <3> QED BY <3>2 DEF e
  <2>2. Aggregates(p, c) => told.output_aggregator[c] # <<>>
    <3>1. p.output_aggregator[c] \in Pieces
      BY <1>2 DEF OutputProcessors
    <3>2. Aggregates(p, c) => told.output_aggregator[c] = With(p.output_aggregator[c], ch, piece)
      BY <1>2, <1>4 DEF NotedIn
    <3> DEFINE f == p.output_aggregator[c]
    <3> HIDE DEF piece, told, f
    <3>3. f \in Pieces
      BY <3>1 DEF f
    <3>4. With(f, ch, piece) # <<>>
      BY <3>3, <1>3, WithType
    <3> QED BY <3>2, <3>4 DEF f
  <2> HIDE DEF told, piece
  <2> QED BY <2>1, <2>2
<1>9. finished \in BOOLEAN
  BY DEF CallFinished
<1>10. CASE outputs = <<>>
  <2>1. w = told /\ Aggregates(p, c) /\ w.child_requests[c] # {}
    BY <1>5, <1>8, <1>10
  <2> HIDE DEF told, piece
  <2> QED BY <2>1, <1>4 DEF OutputMade
<1>11. CASE outputs # <<>>
  <2> HIDE DEF told, piece, outputs, finished
  <2>1. w = WithPut(told, c, outputs, finished)
    BY <1>5, <1>11
  <2>2. /\ OPType(w)
        /\ Keeps(told, w)
        /\ w.child_requests = told.child_requests
        /\ w.output_aggregator = told.output_aggregator
        /\ w.sent_tokens_offset = told.sent_tokens_offset
        /\ \A d \in Calls : d # c => w.queue[d] = told.queue[d]
        /\ PutInto(told.queue[c], w.queue[c], outputs, finished, told.output_kind[c] = "DELTA")
    BY <2>1, <1>2, <1>6, <1>7, <1>9, PutKeeps
  <2>3. NotedIn(p, w, ch, piece)
    BY <2>2, <1>4 DEF NotedIn, Keeps
  <2>4. told.output_kind[c] = p.output_kind[c]
    BY <1>4 DEF NotedIn, Keeps
  <2>5. PutInto(p.queue[c], w.queue[c], outputs, finished, p.output_kind[c] = "DELTA")
    BY <2>2, <2>4, <1>4
  <2>6. CASE Aggregates(p, c)
    <3>1. w.child_requests[c] = {} /\ outputs = w.output_aggregator[c]
      BY <2>2, <2>6, <1>8, <1>11 DEF outputs
    <3>2. finished = TRUE
      BY <3>1, <2>2, <2>6 DEF finished, CallFinished, Aggregates
    <3> QED BY <3>1, <3>2, <2>2, <2>3, <2>5, <2>6, <1>4 DEF OutputMade
  <2>7. CASE ~Aggregates(p, c)
    <3>1. outputs = With(<<>>, ch, piece)
      BY <2>7 DEF outputs
    <3>2. finished = CallFinished(w, c, piece.reason)
      BY <2>2, <1>3 DEF finished, CallFinished
    <3> QED BY <3>1, <3>2, <2>2, <2>3, <2>5, <2>7, <1>4 DEF OutputMade
  <2> QED BY <2>6, <2>7
<1> QED BY <1>10, <1>11

-----------------------------------------------------------------------------
(* The accounts of a call *)

LEMMA ConcatNat ==
  \A s, t, u \in Seq(Nat) : (s \o t) \o u = s \o (t \o u)
<1> TAKE s, t, u \in Seq(Nat)
<1> QED BY ConcatAssociative

LEMMA SentPrefix ==
  ASSUME NEW s \in Seq(Nat), NEW t \in Seq(Nat), NEW n \in 0 .. Len(s)
  PROVE  /\ SubSeq(s \o t, 1, n) = SubSeq(s, 1, n)
         /\ SubSeq(s, 1, n) \o SubSeq(s \o t, n + 1, Len(s \o t)) = s \o t
         /\ SubSeq(s, 1, Len(s)) \o t = s \o t
         /\ SubSeq(s \o t, 1, Len(s \o t)) = s \o t
<1>1. s \o t \in Seq(Nat) /\ Len(s \o t) = Len(s) + Len(t) /\ Len(s) \in Nat /\ Len(t) \in Nat
  BY ConcatProperties, LenProperties
<1>2. SubSeq(s \o t, 1, n) = SubSeq(s, 1, n)
  <2>1. CASE n = 0
    <3>1. SubSeq(s \o t, 1, 0) = <<>> /\ SubSeq(s, 1, 0) = <<>>
      BY SubSeqEmpty
    <3> QED BY <3>1, <2>1
  <2>2. CASE n # 0
    <3>1. 1 \in 1 .. Len(s) /\ n \in 1 .. Len(s)
      BY <1>1, <2>2
    <3> QED BY <3>1, SubSeqOfConcat1
  <2> QED BY <2>1, <2>2
<1>3. SubSeq(s \o t, 1, Len(s \o t)) = s \o t /\ SubSeq(s, 1, Len(s)) = s
  BY <1>1, SubSeqFull
<1>4. SubSeq(s \o t, 1, n) \o SubSeq(s \o t, n + 1, Len(s \o t)) = SubSeq(s \o t, 1, Len(s \o t))
  <2> DEFINE u == s \o t
  <2>1. u \in Seq(Nat) /\ 1 \in 1 .. Len(u) + 1 /\ n \in 1 - 1 .. Len(u) /\ Len(u) \in n .. Len(u)
    BY <1>1
  <2> HIDE DEF u
  <2>2. SubSeq(u, 1, n) \o SubSeq(u, n + 1, Len(u)) = SubSeq(u, 1, Len(u))
    BY <2>1, ConcatAdjacentSubSeq
  <2> QED BY <2>2 DEF u
<1> QED BY <1>2, <1>3, <1>4

\* What carries the account of one request from one state to another.
LEMMA SameAccount ==
  ASSUME NEW p, NEW w, NEW ch, NEW U, NEW V, NEW abortable,
         NEW got, NEW end, NEW got2, NEW end2,
         Keeps(p, w) \/ (w.output_kind = p.output_kind
                           /\ w.output_token_ids[ch] = p.output_token_ids[ch]),
         w.sent_tokens_offset[ch] = p.sent_tokens_offset[ch],
         Have(w, got2, ch) = Have(p, got, ch),
         HaveReason(w, end2, ch) = HaveReason(p, end, ch),
         w.output_aggregator[CallOf(ch)] = p.output_aggregator[CallOf(ch)],
         ch \in V <=> ch \in U,
         Aggregates(p, CallOf(ch)) =>
           (Children(CallOf(ch)) \intersect V = {} <=> Children(CallOf(ch)) \intersect U = {}),
         DeltaInv(p, got, ch), WholeInv(p, U, abortable, got, end, ch)
  PROVE  DeltaInv(w, got2, ch) /\ WholeInv(w, V, abortable, got2, end2, ch)
<1>1. w.output_kind = p.output_kind /\ w.output_token_ids[ch] = p.output_token_ids[ch]
  BY DEF Keeps
<1>2. DeltaInv(w, got2, ch)
  BY <1>1 DEF DeltaInv, Sent
<1>3. Aggregates(w, CallOf(ch)) <=> Aggregates(p, CallOf(ch))
  BY <1>1 DEF Aggregates
<1>4. \A tokens, reason : Whole(w, abortable, ch, tokens, reason) <=> Whole(p, abortable, ch, tokens, reason)
  BY <1>1 DEF Whole
<1>5. Aggregated(w, abortable, ch) <=> Aggregated(p, abortable, ch)
  BY <1>4 DEF Aggregated
<1> QED BY <1>2, <1>3, <1>4, <1>5 DEF WholeInv

\* m is p when some tokens of ch have been detokenized.
Detokenized(p, m, ch, new) ==
  /\ OPType(m)
  /\ m.external_req_ids = p.external_req_ids
  /\ m.parent_requests = p.parent_requests
  /\ m.child_requests = p.child_requests
  /\ m.output_aggregator = p.output_aggregator
  /\ m.output_kind = p.output_kind
  /\ m.sent_tokens_offset = p.sent_tokens_offset
  /\ m.queue = p.queue
  /\ \A x \in Child : m.output_token_ids[x] =
       IF x = ch THEN p.output_token_ids[x] \o new ELSE p.output_token_ids[x]

\* Who is unfinished after an output.
After(U, ch, reason) == IF reason = Unfinished THEN U ELSE U \ {ch}

\* The caller gets from w what it gets from p, and one piece more of ch.
HasOneMore(p, w, got, end, ch, piece) ==
  /\ Have(w, got, ch) = IF p.output_kind[CallOf(ch)] = "DELTA"
                          THEN Have(p, got, ch) \o piece.tokens ELSE piece.tokens
  /\ HaveReason(w, end, ch) = piece.reason
  /\ \A x \in Child : x # ch /\ CallOf(x) = CallOf(ch) =>
       /\ Have(w, got, x) = Have(p, got, x)
       /\ HaveReason(w, end, x) = HaveReason(p, end, x)

LEMMA PutOne ==
  ASSUME NEW p, OPType(p), NEW w, OPType(w), NEW ch \in Child, NEW piece \in Piece,
         NEW finished, w.output_kind = p.output_kind,
         PutInto(p.queue[CallOf(ch)], w.queue[CallOf(ch)], With(<<>>, ch, piece), finished,
                 p.output_kind[CallOf(ch)] = "DELTA"),
         ~p.queue[CallOf(ch)].error,
         NEW got \in [Child -> Seq(Nat)], NEW end
  PROVE  HasOneMore(p, w, got, end, ch, piece)
<1> DEFINE c == CallOf(ch)
           q == p.queue[c]
           r == w.queue[c]
           one == With(<<>>, ch, piece)
           delta == p.output_kind[c] = "DELTA"
<1>1. DOMAIN one = {ch} /\ one[ch] = piece
  BY DEF With
<1>2. /\ DOMAIN r.outputs = DOMAIN q.outputs \union {ch}
      /\ r.outputs[ch] = IF ch \in DOMAIN q.outputs THEN Merged(delta, q.outputs[ch], piece) ELSE piece
      /\ \A x \in DOMAIN q.outputs : x # ch => r.outputs[x] = q.outputs[x]
  <2> HIDE DEF one
  <2> QED BY <1>1 DEF PutInto, one
<1>3. \A x \in Child : x # ch /\ CallOf(x) = c =>
        Have(w, got, x) = Have(p, got, x) /\ HaveReason(w, end, x) = HaveReason(p, end, x)
  BY <1>2 DEF Have, HaveReason, Queued
<1>4. HaveReason(w, end, ch) = piece.reason
  BY <1>2 DEF HaveReason, Queued, Merged
<1>5. CASE ~delta
  <2>1. r.outputs[ch].tokens = piece.tokens
    BY <1>2, <1>5 DEF Merged
  <2> QED BY <1>2, <1>3, <1>4, <1>5, <2>1 DEF Have, Queued, HasOneMore
<1>6. CASE delta
  <2>1. CASE ch \in DOMAIN q.outputs
    <3>1. r.outputs[ch].tokens = q.outputs[ch].tokens \o piece.tokens
      <4> DEFINE x == q.outputs[ch]
                 y == r.outputs[ch]
      <4>1. y = Merged(delta, x, piece)
        BY <1>2, <2>1
      <4> HIDE DEF x, y
      <4>2. y = [tokens |-> x.tokens \o piece.tokens, reason |-> piece.reason]
        BY <4>1, <1>6, Zenon DEF Merged
      <4>3. y.tokens = x.tokens \o piece.tokens
        BY <4>2
      <4> QED BY <4>3 DEF x, y
    <3>2. q.outputs[ch] \in Piece
      <4>1. q.outputs \in Pieces
        BY Samples DEF OPType, OutputProcessors
      <4> QED BY <4>1, <2>1, PieceType
    <3>3. Have(w, got, ch) = got[ch] \o (q.outputs[ch].tokens \o piece.tokens)
      BY <1>2, <1>6, <2>1, <3>1 DEF Have, Queued
    <3>4. Have(p, got, ch) = got[ch] \o q.outputs[ch].tokens
      BY <1>6, <2>1 DEF Have, Queued
    <3>5. got[ch] \in Seq(Nat) /\ q.outputs[ch].tokens \in Seq(Nat) /\ piece.tokens \in Seq(Nat)
      BY <3>2 DEF Piece
    <3>6. Have(w, got, ch) = Have(p, got, ch) \o piece.tokens
      <4> DEFINE a == got[ch]
                 b == q.outputs[ch].tokens
                 d == piece.tokens
      <4>1. a \in Seq(Nat) /\ b \in Seq(Nat) /\ d \in Seq(Nat)
        BY <3>5
      <4> HIDE DEF a, b, d
      <4>2. (a \o b) \o d = a \o (b \o d)
        BY <4>1, ConcatNat
      <4> QED BY <3>3, <3>4, <4>2 DEF a, b, d
    <3> QED BY <3>6, <1>3, <1>4, <1>6 DEF HasOneMore
  <2>2. CASE ch \notin DOMAIN q.outputs
    <3>1. Have(w, got, ch) = Have(p, got, ch) \o piece.tokens
      BY <1>2, <1>6, <2>2 DEF Have, Queued
    <3> QED BY <3>1, <1>3, <1>4, <1>6 DEF HasOneMore
  <2> QED BY <2>1, <2>2
<1> QED BY <1>5, <1>6

\* One output touches its own call only.
OneOutput(p, m, w, ch) ==
  /\ OPType(w)
  /\ Keeps(m, w)
  /\ \A c \in Calls : c # CallOf(ch) =>
       /\ w.queue[c] = p.queue[c]
       /\ w.child_requests[c] = p.child_requests[c]
       /\ w.output_aggregator[c] = p.output_aggregator[c]
  /\ \A x \in Child : x # ch => w.sent_tokens_offset[x] = p.sent_tokens_offset[x]

\* One output, of a request that is not finished, keeps the accounts of all calls
\* that may still end well; it may be a last one if its reason may be given.
LEMMA OutputAccounts ==
  ASSUME NEW p, OPType(p), NEW ch \in Child, NEW new \in Seq(Nat),
         NEW reason \in Reasons \union {Unfinished},
         NEW U \in SUBSET Child, ch \in U,
         NEW live, NEW abortable, NEW got \in [Child -> Seq(Nat)], NEW end,
         NEW m, Detokenized(p, m, ch, new),
         CallOf(ch) \in live /\ reason = "abort" => ExternalId[CallOf(ch)] \in abortable,
         reason = "length" => Len(m.output_token_ids[ch]) = MaxTokens[CallOf(ch)],
         Accounted(p, U, live, abortable, got, end),
         NEW w, w = WithOutput(m, ch, new, reason)
  PROVE  OneOutput(p, m, w, ch) /\ Accounted(w, After(U, ch, reason), live, abortable, got, end)
<1> DEFINE c == CallOf(ch)
           V == After(U, ch, reason)
           piece == PieceToSend(m, ch, new, reason)
           all == m.output_token_ids[ch]
           old == p.output_token_ids[ch]
           delta == m.output_kind[c] = "DELTA"
           due == OutputIsDue(m, ch, reason)
<1>1. c \in Calls /\ ch \in Children(c)
  BY Samples
<1>2. /\ OPType(m) /\ m \in OutputProcessors /\ OwnInv(m)
      /\ p \in OutputProcessors /\ OwnInv(p)
      /\ m.child_requests = p.child_requests
      /\ m.output_aggregator = p.output_aggregator
      /\ m.output_kind = p.output_kind
      /\ m.sent_tokens_offset = p.sent_tokens_offset
      /\ m.queue = p.queue
  BY DEF Detokenized, OPType
<1>3. /\ all = old \o new
      /\ \A x \in Child : x # ch => m.output_token_ids[x] = p.output_token_ids[x]
      /\ old \in Seq(Nat)
      /\ all \in Seq(Nat)
      /\ p.sent_tokens_offset[ch] \in 0 .. Len(old)
  <2>1. /\ all = old \o new
        /\ \A x \in Child : x # ch => m.output_token_ids[x] = p.output_token_ids[x]
    BY DEF Detokenized
  <2>2. old \in Seq(Nat) /\ all \in Seq(Nat) /\ p.sent_tokens_offset[ch] \in Nat
    BY <1>2 DEF OutputProcessors
  <2>3. p.sent_tokens_offset[ch] <= Len(old)
    BY <1>2 DEF OwnInv
  <2> QED BY <2>1, <2>2, <2>3
<1> FinishInv(p, U) /\ AccountInv(p, U, live, abortable, got, end)
  BY DEF Accounted
<1>4. HasParent(c) => p.child_requests[c] = Children(c) \intersect U /\ ch \in p.child_requests[c]
  BY <1>1 DEF FinishInv
<1>5. IF due THEN OutputMade(m, w, ch, piece) ELSE w = m
  BY <1>2, <1>4, OutputMakes
<1>6. OPType(w) /\ Keeps(m, w)
  <2> HIDE DEF piece, due
  <2> QED BY <1>2, <1>5 DEF OutputMade, NotedIn, Keeps
<1>7. \A d \in Calls : d # c =>
        /\ w.queue[d] = p.queue[d]
        /\ w.child_requests[d] = p.child_requests[d]
        /\ w.output_aggregator[d] = p.output_aggregator[d]
  <2> HIDE DEF piece, due
  <2> QED BY <1>2, <1>5 DEF OutputMade, NotedIn
<1>8. \A x \in Child : x # ch => w.sent_tokens_offset[x] = p.sent_tokens_offset[x]
  <2> HIDE DEF piece, due
  <2> QED BY <1>2, <1>5 DEF OutputMade, NotedIn
<1>9. piece.reason = reason /\ piece \in Piece /\ piece.tokens = TokensToSend(m, ch, new)
  BY <1>2, PieceToSendType DEF PieceToSend
<1>10. ~due => reason = Unfinished /\ V = U
  BY DEF OutputIsDue, After
<1>11. /\ V \subseteq Child
       /\ \A x \in Child : x # ch => (x \in V <=> x \in U)
       /\ reason # Unfinished => ch \notin V
       /\ reason = Unfinished => V = U
  BY DEF After
<1>12. w.child_requests[c] = IF reason # Unfinished THEN p.child_requests[c] \ {ch}
                             ELSE p.child_requests[c]
  <2>1. CASE due
    <3> HIDE DEF piece, due
    <3> QED BY <2>1, <1>1, <1>2, <1>5, <1>9 DEF OutputMade, NotedIn
  <2>2. CASE ~due
    BY <2>2, <1>2, <1>5, <1>10
  <2> QED BY <2>1, <2>2
<1>13. HasParent(c) => w.child_requests[c] = Children(c) \intersect V
  BY <1>4, <1>12, <1>11 DEF After
<1>14. FinishInv(w, V)
  <2> SUFFICES ASSUME NEW d \in Calls
               PROVE  /\ HasParent(d) => w.child_requests[d] = Children(d) \intersect V
                      /\ w.queue[d].finished => Children(d) \intersect V = {}
    BY DEF FinishInv
  <2>1. CASE d # c
    <3>1. Children(d) \intersect V = Children(d) \intersect U
      BY <2>1, <1>11, Samples
    <3> HIDE DEF V, c
    <3> QED BY <3>1, <2>1, <1>7 DEF FinishInv
  <2>2. CASE d = c
    <3>1. ~p.queue[c].finished
      BY <1>1 DEF FinishInv
    <3>2. CASE ~due
      BY <3>1, <3>2, <2>2, <1>2, <1>5, <1>13
    <3>3. CASE due /\ Aggregates(m, c)
      <4>1. w.queue[c].finished => w.child_requests[c] = {}
        <5> HIDE DEF piece, due
        <5> QED BY <3>1, <3>3, <1>2, <1>5 DEF OutputMade, PutInto
      <4> QED BY <4>1, <3>3, <2>2, <1>13 DEF Aggregates
    <3>4. CASE due /\ ~Aggregates(m, c)
      <4>1. w.queue[c].finished => CallFinished(w, c, reason)
        <5> HIDE DEF piece, due
        <5> QED BY <3>1, <3>4, <1>2, <1>5, <1>9 DEF OutputMade, PutInto
      <4>2. CASE HasParent(c)
        BY <4>1, <4>2, <2>2, <1>13 DEF CallFinished
      <4>3. CASE ~HasParent(c)
        <5>1. w.queue[c].finished => ch \notin V
          BY <4>1, <4>3, <1>11 DEF CallFinished
        <5>2. \A x \in Children(c) : x = ch
          BY <4>3, <1>1, Samples
        <5> QED BY <5>1, <5>2, <4>3, <2>2
      <4> QED BY <4>2, <4>3
    <3> QED BY <3>2, <3>3, <3>4
  <2> QED BY <2>1, <2>2
<1>15. ASSUME NEW x \in Child, CallOf(x) # c, CallOf(x) \in live, ~w.queue[CallOf(x)].error
       PROVE  DeltaInv(w, got, x) /\ WholeInv(w, V, abortable, got, end, x)
  <2>1. /\ x # ch
        /\ CallOf(x) \in Calls
        /\ w.queue[CallOf(x)] = p.queue[CallOf(x)]
        /\ w.output_aggregator[CallOf(x)] = p.output_aggregator[CallOf(x)]
        /\ w.sent_tokens_offset[x] = p.sent_tokens_offset[x]
        /\ w.output_kind = p.output_kind
        /\ w.output_token_ids[x] = p.output_token_ids[x]
    BY <1>2, <1>3, <1>6, <1>7, <1>8, <1>15, Samples DEF Keeps
  <2>2. Have(w, got, x) = Have(p, got, x) /\ HaveReason(w, end, x) = HaveReason(p, end, x)
    BY <2>1 DEF Have, HaveReason, Queued
  <2>3. DeltaInv(p, got, x) /\ WholeInv(p, U, abortable, got, end, x)
    BY <2>1, <1>15 DEF AccountInv
  <2>4. x \in V <=> x \in U
    BY <2>1, <1>11
  <2>5. Children(CallOf(x)) \intersect V = {} <=> Children(CallOf(x)) \intersect U = {}
    <3>1. Children(CallOf(x)) \intersect V = Children(CallOf(x)) \intersect U
      BY <1>11, <1>15, Samples
    <3> QED BY <3>1
  <2> HIDE DEF V, c
  <2> QED BY <2>1, <2>2, <2>3, <2>4, <2>5, SameAccount
<1>16. ~w.queue[c].error => ~p.queue[c].error
  <2> HIDE DEF piece, due
  <2> QED BY <1>2, <1>5 DEF OutputMade, PutInto
<1>17. \A x \in Child : Have(m, got, x) = Have(p, got, x) /\ HaveReason(m, end, x) = HaveReason(p, end, x)
  BY <1>2 DEF Have, HaveReason, Queued
<1>18. w.output_kind = p.output_kind /\ w.output_token_ids = m.output_token_ids
  BY <1>2, <1>6 DEF Keeps
<1>19. Children(c) \intersect U # {} /\ (Children(c) \intersect V = {} => V # U)
  BY <1>1
\* The parent has put the outputs of all samples.
<1>20. ASSUME due, Aggregates(p, c), w.child_requests[c] = {}, ~w.queue[c].error,
              NEW x \in Children(c), x \in DOMAIN w.output_aggregator[c]
       PROVE  /\ Have(w, got, x) = w.output_aggregator[c][x].tokens
              /\ HaveReason(w, end, x) = w.output_aggregator[c][x].reason
  <2>1. Aggregates(m, c) /\ w.output_kind[c] # "DELTA"
    BY <1>2, <1>18, <1>20 DEF Aggregates
  <2>2. PutInto(m.queue[c], w.queue[c], w.output_aggregator[c], TRUE, m.output_kind[c] = "DELTA")
    <3> HIDE DEF piece, due
    <3> QED BY <2>1, <1>5, <1>20 DEF OutputMade
  <2>3. /\ x \in DOMAIN w.queue[c].outputs
        /\ \/ w.queue[c].outputs[x] = w.output_aggregator[c][x]
           \/ w.queue[c].outputs[x] =
                Merged(m.output_kind[c] = "DELTA", m.queue[c].outputs[x], w.output_aggregator[c][x])
    BY <2>2, <1>2, <1>16, <1>20 DEF PutInto
  <2>4. m.output_kind[c] # "DELTA"
    BY <2>1, <1>2, <1>18
  <2>5. w.queue[c].outputs[x] = w.output_aggregator[c][x]
    BY <2>3, <2>4 DEF Merged
  <2>6. CallOf(x) = c
    BY <1>1, <1>20, Samples
  <2> HIDE DEF c
  <2> QED BY <2>1, <2>3, <2>5, <2>6 DEF Have, HaveReason, Queued
<1>21. due /\ Aggregates(p, c) => w.output_aggregator[c] = With(p.output_aggregator[c], ch, piece)
  <2>1. Aggregates(p, c) <=> Aggregates(m, c)
    BY <1>2 DEF Aggregates
  <2> HIDE DEF piece, due
  <2> QED BY <2>1, <1>1, <1>2, <1>5 DEF OutputMade, NotedIn
<1>22. due /\ Aggregates(p, c) => reason # Unfinished
  BY <1>2 DEF OutputIsDue, Aggregates
<1>23. due /\ ~Aggregates(p, c) =>
         /\ w.output_aggregator[c] = p.output_aggregator[c]
         /\ PutInto(m.queue[c], w.queue[c], With(<<>>, ch, piece), CallFinished(w, c, piece.reason),
                    m.output_kind[c] = "DELTA")
  <2>1. Aggregates(p, c) <=> Aggregates(m, c)
    BY <1>2 DEF Aggregates
  <2> HIDE DEF piece, due
  <2> QED BY <2>1, <1>1, <1>2, <1>5 DEF OutputMade, NotedIn
<1>24. ASSUME due, ~Aggregates(p, c), ~w.queue[c].error
       PROVE  /\ Have(w, got, ch) = IF delta THEN Have(p, got, ch) \o piece.tokens ELSE piece.tokens
              /\ HaveReason(w, end, ch) = reason
              /\ \A x \in Child : x # ch /\ CallOf(x) = c =>
                   Have(w, got, x) = Have(p, got, x) /\ HaveReason(w, end, x) = HaveReason(p, end, x)
  <2> DEFINE finished == CallFinished(w, c, piece.reason)
  <2>1. /\ PutInto(m.queue[c], w.queue[c], With(<<>>, ch, piece), finished, m.output_kind[c] = "DELTA")
        /\ ~m.queue[c].error
        /\ w.output_kind = m.output_kind
        /\ OPType(m) /\ OPType(w) /\ piece \in Piece
    BY <1>24, <1>2, <1>6, <1>9, <1>16, <1>18, <1>23
  <2> DEFINE a == m
             b == w
  <2>3. /\ PutInto(a.queue[CallOf(ch)], b.queue[CallOf(ch)], With(<<>>, ch, piece), finished,
                   a.output_kind[CallOf(ch)] = "DELTA")
        /\ ~a.queue[CallOf(ch)].error
        /\ b.output_kind = a.output_kind
        /\ OPType(a) /\ OPType(b) /\ piece \in Piece
    BY <2>1
  <2> HIDE DEF finished, piece, a, b
  <2>4. HasOneMore(a, b, got, end, ch, piece)
    BY <2>3, PutOne
  <2>2. /\ Have(w, got, ch) = IF m.output_kind[c] = "DELTA"
                                THEN Have(m, got, ch) \o piece.tokens ELSE piece.tokens
        /\ HaveReason(w, end, ch) = piece.reason
        /\ \A x \in Child : x # ch /\ CallOf(x) = CallOf(ch) =>
              /\ Have(w, got, x) = Have(m, got, x)
              /\ HaveReason(w, end, x) = HaveReason(m, end, x)
    BY <2>4 DEF HasOneMore, a, b
  <2> QED BY <2>2, <1>9, <1>17
<1>25. ASSUME NEW x \in Child, CallOf(x) = c, x # ch, c \in live, ~w.queue[c].error
       PROVE  DeltaInv(w, got, x) /\ WholeInv(w, V, abortable, got, end, x)
  <2>1. DeltaInv(p, got, x) /\ WholeInv(p, U, abortable, got, end, x)
    BY <1>16, <1>25 DEF AccountInv
  <2>2. w.sent_tokens_offset[x] = p.sent_tokens_offset[x] /\ (x \in V <=> x \in U)
    BY <1>8, <1>11, <1>25
  <2>3. w.output_kind = p.output_kind /\ w.output_token_ids[x] = p.output_token_ids[x]
    BY <1>3, <1>18, <1>25
  <2>4. CASE ~due
    <3>1. /\ Have(w, got, x) = Have(p, got, x) /\ HaveReason(w, end, x) = HaveReason(p, end, x)
          /\ w.output_aggregator[c] = p.output_aggregator[c]
          /\ V = U
      BY <2>4, <1>2, <1>5, <1>10, <1>17
    <3> HIDE DEF V, due
    <3> QED BY <3>1, <2>1, <2>2, <2>3, <1>25, SameAccount
  <2>5. CASE due /\ ~Aggregates(p, c)
    <3>1. /\ Have(w, got, x) = Have(p, got, x) /\ HaveReason(w, end, x) = HaveReason(p, end, x)
          /\ w.output_aggregator[c] = p.output_aggregator[c]
      BY <2>5, <1>23, <1>24, <1>25
    <3> HIDE DEF V, due
    <3> QED BY <3>1, <2>1, <2>2, <2>3, <2>5, <1>25, SameAccount
  <2>6. CASE due /\ Aggregates(p, c)
    <3>1. Aggregates(w, c) /\ w.output_kind[c] # "DELTA"
      BY <2>6, <1>18 DEF Aggregates
    <3>2. DeltaInv(w, got, x)
      BY <3>1, <1>25 DEF DeltaInv
    <3>3. x \notin U => Aggregated(p, abortable, x)
      BY <2>1, <2>6, <1>19, <1>25 DEF WholeInv
    <3>4. x \in DOMAIN p.output_aggregator[c] =>
            /\ x \in DOMAIN w.output_aggregator[c]
            /\ w.output_aggregator[c][x] = p.output_aggregator[c][x]
      <4> DEFINE f == p.output_aggregator[c]
      <4>1. x \in DOMAIN f => x \in DOMAIN With(f, ch, piece) /\ With(f, ch, piece)[x] = f[x]
        <5> HIDE DEF f, piece
        <5> QED BY <1>25 DEF With
      <4> HIDE DEF piece
      <4> QED BY <4>1, <1>21, <2>6
    <3>5. x \notin U => Aggregated(w, abortable, x)
      BY <3>3, <3>4, <2>3, <1>25 DEF Aggregated, Whole
    <3>6. CASE Children(c) \intersect V # {}
      BY <3>1, <3>2, <3>5, <3>6, <2>2, <1>25 DEF WholeInv
    <3>7. CASE Children(c) \intersect V = {}
      <4>1. w.child_requests[c] = {}
        BY <3>7, <1>13, <2>6 DEF Aggregates
      <4>2. x \notin U => Whole(w, abortable, x, Have(w, got, x), HaveReason(w, end, x))
        BY <4>1, <3>5, <2>6, <1>20, <1>25, Samples DEF Aggregated
      <4> QED BY <4>2, <3>1, <3>2, <3>5, <3>7, <2>2, <1>25 DEF WholeInv
    <3> QED BY <3>6, <3>7
  <2> QED BY <2>4, <2>5, <2>6
<1>26. ASSUME c \in live, ~w.queue[c].error
       PROVE  DeltaInv(w, got, ch) /\ WholeInv(w, V, abortable, got, end, ch)
  <2>1. p.output_kind[c] = "DELTA" => Have(p, got, ch) = SubSeq(old, 1, Sent(p, ch))
    BY <1>16, <1>26 DEF AccountInv, DeltaInv
  <2>2. /\ w.sent_tokens_offset[ch] = IF due /\ KeepsOffset(m, ch) THEN Len(all)
                                      ELSE p.sent_tokens_offset[ch]
        /\ w.output_kind = m.output_kind
        /\ m.output_kind = p.output_kind
        /\ w.output_token_ids[ch] = all
        /\ m.sent_tokens_offset[ch] = p.sent_tokens_offset[ch]
    <3> HIDE DEF piece, due
    <3> QED BY <1>2, <1>5, <1>18 DEF OutputMade, NotedIn
  <2>3. StreamInterval \in Nat \ {0}
    BY FrontEndAssumption
  <2>4. ASSUME p.output_kind[c] = "DELTA"
        PROVE  Have(w, got, ch) = SubSeq(all, 1, Sent(w, ch)) /\ (due => Have(w, got, ch) = all)
    <3> DEFINE n == p.sent_tokens_offset[ch]
    <3>1. n \in 0 .. Len(old) /\ Len(old) \in 0 .. Len(old)
      BY <1>3
    <3>2. /\ SubSeq(all, 1, n) = SubSeq(old, 1, n)
          /\ SubSeq(old, 1, n) \o SubSeq(all, n + 1, Len(all)) = all
          /\ SubSeq(old, 1, Len(old)) \o new = all
          /\ SubSeq(all, 1, Len(all)) = all
      <4> DEFINE a == old
      <4>1. a \in Seq(Nat) /\ n \in 0 .. Len(a) /\ all = a \o new
        BY <3>1, <1>3
      <4> HIDE DEF a, n, all
      <4> QED BY <4>1, SentPrefix DEF a
    <3>3. ~Aggregates(p, c)
      BY <2>4 DEF Aggregates
    <3>4. CASE ~due
      <4>1. StreamInterval > 1
        BY <3>4, <2>2, <2>3, <2>4 DEF OutputIsDue
      <4>2. Have(w, got, ch) = SubSeq(old, 1, n)
        BY <4>1, <3>4, <2>1, <2>4, <1>5, <1>17 DEF Sent
      <4>3. Sent(w, ch) = n
        BY <4>1, <3>4, <2>2 DEF Sent
      <4> QED BY <4>2, <4>3, <3>2, <3>4
    <3>5. CASE due
      <4>1. Have(w, got, ch) = Have(p, got, ch) \o piece.tokens
        BY <3>3, <3>5, <2>2, <2>4, <1>24, <1>26
      <4>2. CASE StreamInterval > 1
        <5>1. Have(p, got, ch) = SubSeq(old, 1, n)
          BY <4>2, <2>1, <2>4 DEF Sent
        <5>2. piece.tokens = SubSeq(all, n + 1, Len(all))
          BY <4>2, <2>2, <2>4, <1>9 DEF TokensToSend
        <5>3. Sent(w, ch) = Len(all)
          BY <4>2, <3>5, <2>2, <2>4 DEF Sent, KeepsOffset
        <5> QED BY <5>1, <5>2, <5>3, <4>1, <3>2
      <4>3. CASE ~(StreamInterval > 1)
        <5>1. Have(p, got, ch) = SubSeq(old, 1, Len(old))
          BY <4>3, <2>1, <2>4 DEF Sent
        <5>2. piece.tokens = new
          BY <4>3, <2>2, <2>4, <1>9 DEF TokensToSend
        <5>3. Sent(w, ch) = Len(all)
          BY <4>3, <2>2 DEF Sent
        <5> QED BY <5>1, <5>2, <5>3, <4>1, <3>2
      <4> QED BY <4>2, <4>3
    <3> QED BY <3>4, <3>5
  <2>5. DeltaInv(w, got, ch)
    BY <2>2, <2>4 DEF DeltaInv
  <2>6. CASE reason = Unfinished
    BY <2>5, <2>6, <1>11 DEF WholeInv
  <2>7. CASE reason # Unfinished
    <3>1. due /\ ch \notin V
      BY <2>7, <1>10, <1>11
    <3>2. p.output_kind[c] # "DELTA" => piece.tokens = all
      BY <2>2, <1>9 DEF TokensToSend
    <3>3. \A tokens : tokens = all => Whole(w, abortable, ch, tokens, reason)
      BY <2>2, <2>7, <1>26 DEF Whole
    <3>4. CASE ~Aggregates(p, c)
      <4>1. Have(w, got, ch) = all
        BY <3>1, <3>2, <3>4, <2>2, <2>4, <1>24, <1>26
      <4>2. HaveReason(w, end, ch) = reason
        BY <3>1, <3>4, <1>24, <1>26
      <4>3. ~Aggregates(w, c)
        BY <3>4, <2>2 DEF Aggregates
      <4> QED BY <4>1, <4>2, <4>3, <3>3, <2>5 DEF WholeInv
    <3>5. CASE Aggregates(p, c)
      <4>1. Aggregates(w, c) /\ p.output_kind[c] # "DELTA"
        BY <3>5, <2>2 DEF Aggregates
      <4>2. ch \in DOMAIN w.output_aggregator[c] /\ w.output_aggregator[c][ch] = piece
        <5> DEFINE f == p.output_aggregator[c]
        <5>1. ch \in DOMAIN With(f, ch, piece) /\ With(f, ch, piece)[ch] = piece
          <6> HIDE DEF f, piece
          <6> QED BY DEF With
        <5> HIDE DEF piece
        <5> QED BY <5>1, <3>1, <3>5, <1>21
      <4>3. Aggregated(w, abortable, ch)
        BY <4>1, <4>2, <3>2, <3>3, <1>9 DEF Aggregated
      <4>4. CASE Children(c) \intersect V # {}
        BY <4>1, <4>3, <4>4, <2>5 DEF WholeInv
      <4>5. CASE Children(c) \intersect V = {}
        <5>1. w.child_requests[c] = {}
          BY <4>5, <3>5, <1>13 DEF Aggregates
        <5>2. Have(w, got, ch) = all /\ HaveReason(w, end, ch) = reason
          BY <5>1, <4>1, <4>2, <3>1, <3>2, <3>5, <1>1, <1>9, <1>20, <1>26
        <5> QED BY <5>2, <4>3, <4>5, <3>3, <2>5 DEF WholeInv
      <4> QED BY <4>4, <4>5
    <3> QED BY <3>4, <3>5
  <2> QED BY <2>6, <2>7
<1>27. AccountInv(w, V, live, abortable, got, end)
  BY <1>15, <1>25, <1>26 DEF AccountInv
<1> QED BY <1>6, <1>7, <1>8, <1>14, <1>27 DEF OneOutput, Accounted

-----------------------------------------------------------------------------
(* Aborts *)

\* w is what aborting some requests makes of p.
AbortsMade(p, w, chs) ==
  /\ OPType(w)
  /\ w.request_states = p.request_states \ chs
  /\ w.external_req_ids = p.external_req_ids
  /\ w.parent_requests = p.parent_requests
  /\ w.output_kind = p.output_kind
  /\ w.output_token_ids = p.output_token_ids
  /\ \A c \in Calls : (\A ch \in chs : CallOf(ch) # c) =>
       /\ w.queue[c] = p.queue[c]
       /\ w.child_requests[c] = p.child_requests[c]
       /\ w.output_aggregator[c] = p.output_aggregator[c]
  /\ \A x \in Child \ chs : w.sent_tokens_offset[x] = p.sent_tokens_offset[x]

LEMMA AbortOne ==
  ASSUME NEW p, OPType(p), NEW U \in SUBSET Child, NEW ch \in U,
         NEW live, NEW abortable, NEW got \in [Child -> Seq(Nat)], NEW end,
         CallOf(ch) \in live => ExternalId[CallOf(ch)] \in abortable,
         Accounted(p, U, live, abortable, got, end),
         NEW w, w = Aborted(p, ch)
  PROVE  AbortsMade(p, w, {ch}) /\ Accounted(w, U \ {ch}, live, abortable, got, end)
<1> DEFINE m == [p EXCEPT !.request_states = @ \ {ch}]
<1>1. p \in OutputProcessors /\ OwnInv(p) /\ ch \in Child
  BY DEF OPType
<1>2. /\ m \in OutputProcessors
      /\ m.request_states = p.request_states \ {ch}
      /\ m.external_req_ids = p.external_req_ids
      /\ m.parent_requests = p.parent_requests
      /\ m.child_requests = p.child_requests
      /\ m.output_aggregator = p.output_aggregator
      /\ m.output_kind = p.output_kind
      /\ m.output_token_ids = p.output_token_ids
      /\ m.sent_tokens_offset = p.sent_tokens_offset
      /\ m.queue = p.queue
  BY <1>1 DEF OutputProcessors
<1>3. w = WithOutput(m, ch, <<>>, "abort")
  BY DEF Aborted
<1> HIDE DEF m
<1>4. OPType(m)
  BY <1>1, <1>2 DEF OPType, OwnInv
<1>5. <<>> \in Seq(Nat) /\ "abort" \in Reasons \union {Unfinished} /\ "abort" # Unfinished
      /\ "abort" # "length"
  BY DEF Reasons, Unfinished
<1>6. Detokenized(p, m, ch, <<>>)
  <2>1. \A x \in Child : p.output_token_ids[x] \in Seq(Nat)
    BY <1>1 DEF OutputProcessors
  <2>2. \A x \in Child : p.output_token_ids[x] \o <<>> = p.output_token_ids[x]
    BY <2>1, ConcatEmptySeq
  <2> QED BY <1>2, <1>4, <2>2 DEF Detokenized
<1> DEFINE new == <<>>
           reason == "abort"
<1>8. /\ new \in Seq(Nat) /\ reason \in Reasons \union {Unfinished}
      /\ Detokenized(p, m, ch, new)
      /\ w = WithOutput(m, ch, new, reason)
      /\ reason = "length" => Len(m.output_token_ids[ch]) = MaxTokens[CallOf(ch)]
      /\ CallOf(ch) \in live /\ reason = "abort" => ExternalId[CallOf(ch)] \in abortable
      /\ After(U, ch, reason) = U \ {ch}
  BY <1>3, <1>5, <1>6 DEF After
<1> HIDE DEF new, reason
<1>9. OneOutput(p, m, w, ch) /\ Accounted(w, After(U, ch, reason), live, abortable, got, end)
  BY <1>1, <1>8, OutputAccounts
<1>10. AbortsMade(p, w, {ch})
  BY <1>2, <1>9 DEF AbortsMade, Keeps, OneOutput
<1> QED BY <1>8, <1>9, <1>10

LEMMA AbortMore ==
  ASSUME NEW p, NEW v, NEW w, NEW chs, NEW ch, AbortsMade(p, v, chs), AbortsMade(v, w, {ch})
  PROVE  AbortsMade(p, w, chs \union {ch})
BY DEF AbortsMade

LEMMA AbortsAccount ==
  ASSUME NEW p, OPType(p), NEW U \in SUBSET Child, NEW chs \in SUBSET U,
         NEW live, NEW abortable, NEW got \in [Child -> Seq(Nat)], NEW end,
         \A ch \in chs : CallOf(ch) \in live => ExternalId[CallOf(ch)] \in abortable,
         Accounted(p, U, live, abortable, got, end),
         NEW w, w = AllAborted(p, chs)
  PROVE  AbortsMade(p, w, chs) /\ Accounted(w, U \ chs, live, abortable, got, end)
<1> DEFINE seq == SetToSeq(chs)
           Before(n) == {seq[i] : i \in 1 .. n}
<1>1. /\ seq \in Seq(Child)
      /\ \A i, j \in 1 .. Len(seq) : seq[i] = seq[j] => i = j
      /\ \A i \in 1 .. Len(seq) : seq[i] \in chs
      /\ \A ch \in chs : \E i \in 1 .. Len(seq) : seq[i] = ch
  <2>1. chs \in SUBSET Child
    OBVIOUS
  <2> QED BY <2>1, AbortOrder
<1>2. w = FoldLeft(Aborted, p, seq)
  BY DEF AllAborted
<1> HIDE DEF seq
<1>3. PICK it : /\ it[0] = p
                /\ \A n \in 1 .. Len(seq) : it[n] = Aborted(it[n - 1], seq[n])
                /\ FoldLeft(Aborted, p, seq) = it[Len(seq)]
  BY <1>1, AbortSteps
<1> DEFINE Holds(n) == AbortsMade(p, it[n], Before(n))
                         /\ Accounted(it[n], U \ Before(n), live, abortable, got, end)
           T == {n \in Nat : n <= Len(seq) => Holds(n)}
<1>4. Len(seq) \in Nat
  BY <1>1
<1>5. 0 \in T
  <2>1. Before(0) = {}
    OBVIOUS
  <2>2. AbortsMade(p, p, {})
    BY DEF AbortsMade
  <2>3. U \ {} = U
    OBVIOUS
  <2> HIDE DEF Before
  <2>4. Holds(0)
    BY <2>1, <2>2, <2>3, <1>3
  <2> HIDE DEF Holds
  <2> QED BY <2>4
<1>6. ASSUME NEW n \in T PROVE n + 1 \in T
  <2> SUFFICES ASSUME n + 1 <= Len(seq) PROVE Holds(n + 1)
    OBVIOUS
  <2> DEFINE v == it[n]
             ch == seq[n + 1]
             V == U \ Before(n)
             x == it[n + 1]
  <2>1. n \in Nat /\ n + 1 \in 1 .. Len(seq) /\ Holds(n)
    BY <1>4
  <2>2. ch \in chs /\ ch \notin Before(n) /\ Before(n + 1) = Before(n) \union {ch}
    <3>1. \A i \in 1 .. n + 1 : i = n + 1 \/ i \in 1 .. n
      BY <2>1
    <3>2. \A i \in 1 .. n : i \in 1 .. n + 1 /\ i \in 1 .. Len(seq) /\ i # n + 1
      BY <2>1, <1>4
    <3> HIDE DEF T, Holds
    <3> QED BY <3>1, <3>2, <2>1, <1>1
  <2>3. x = Aborted(v, ch)
    <3>1. (n + 1) - 1 = n
      BY <2>1
    <3> QED BY <3>1, <2>1, <1>3
  <2>4. OPType(v) /\ Accounted(v, V, live, abortable, got, end) /\ AbortsMade(p, v, Before(n))
    BY <2>1 DEF AbortsMade
  <2>5. V \in SUBSET Child /\ ch \in V /\ (CallOf(ch) \in live => ExternalId[CallOf(ch)] \in abortable)
    BY <2>2
  <2>6. V \ {ch} = U \ Before(n + 1)
    BY <2>2
  <2> HIDE DEF T, Holds, Before, v, ch, V, x
  <2>7. AbortsMade(v, x, {ch}) /\ Accounted(x, V \ {ch}, live, abortable, got, end)
    BY <2>3, <2>4, <2>5, AbortOne
  <2>8. AbortsMade(p, x, Before(n) \union {ch})
    BY <2>4, <2>7, AbortMore
  <2> QED BY <2>2, <2>6, <2>7, <2>8 DEF Holds, x
<1>7. Holds(Len(seq))
  <2> HIDE DEF Holds
  <2>1. T \in SUBSET Nat
    OBVIOUS
  <2>2. T = Nat
    <3> HIDE DEF T
    <3> QED BY <2>1, <1>5, <1>6, SetInduction
  <2>3. Len(seq) \in T
    BY <1>4, <2>2
  <2> QED BY <2>3, <1>4
<1>8. Before(Len(seq)) = chs
  BY <1>1
<1> HIDE DEF Before
<1> QED BY <1>2, <1>3, <1>7, <1>8

-----------------------------------------------------------------------------
(* Messages to the engine *)

LEMMA MessageType ==
  \A type \in {"ADD", "ABORT"} : \A chs \in SUBSET Child :
    /\ Message(type, chs) \in Messages
    /\ Message(type, chs).type = type
    /\ Message(type, chs).children = chs
BY DEF Message, Messages

\* What is on its way to the engine after one message more, or after none.
LEMMA ToldAfterSend ==
  ASSUME VariableTypes, NEW type \in {"ADD", "ABORT"}, NEW chs \in SUBSET Child,
         Send(Message(type, chs))
  PROVE  /\ to_engine' \in Seq(Messages)
         /\ IF engine_alive
              THEN \A ch \in Child, kind \in {"ADD", "ABORT"} :
                     Told(ch, kind)' = Told(ch, kind) \union
                       (IF kind = type /\ ch \in chs THEN {Len(to_engine) + 1} ELSE {})
              ELSE \A ch \in Child, kind \in {"ADD", "ABORT"} : Told(ch, kind)' = {}
<1> DEFINE m == Message(type, chs)
<1>1. m \in Messages /\ m.type = type /\ m.children = chs /\ to_engine \in Seq(Messages)
  BY MessageType DEF VariableTypes
<1>2. to_engine' = IF engine_alive THEN Append(to_engine, m) ELSE <<>>
  BY DEF Send
<1> HIDE DEF m
<1>3. CASE engine_alive
  <2>1. /\ to_engine' \in Seq(Messages)
        /\ Len(to_engine) \in Nat
        /\ DOMAIN to_engine = 1 .. Len(to_engine)
        /\ DOMAIN to_engine' = 1 .. Len(to_engine) + 1
        /\ \A i \in 1 .. Len(to_engine) : to_engine'[i] = to_engine[i]
        /\ to_engine'[Len(to_engine) + 1] = m
    BY <1>1, <1>2, <1>3, AppendProperties, LenProperties
  <2>2. ASSUME NEW ch \in Child, NEW kind \in {"ADD", "ABORT"}
        PROVE  Told(ch, kind)' = Told(ch, kind) \union
                 (IF kind = type /\ ch \in chs THEN {Len(to_engine) + 1} ELSE {})
    <3>1. \A i \in 1 .. Len(to_engine) : i \in Told(ch, kind)' <=> i \in Told(ch, kind)
      BY <2>1 DEF Told
    <3>2. Len(to_engine) + 1 \in Told(ch, kind)' <=> kind = type /\ ch \in chs
      BY <2>1, <1>1 DEF Told
    <3>3. /\ Told(ch, kind)' \subseteq 1 .. Len(to_engine) + 1
          /\ Told(ch, kind) \subseteq 1 .. Len(to_engine)
      BY <2>1 DEF Told
    <3> QED BY <3>1, <3>2, <3>3, <2>1
  <2> QED BY <2>1, <2>2, <1>3
<1>4. CASE ~engine_alive
  <2>1. to_engine' \in Seq(Messages) /\ DOMAIN to_engine' = {}
    BY <1>2, <1>4
  <2>2. \A ch \in Child, kind \in {"ADD", "ABORT"} : Told(ch, kind)' = {}
    BY <2>1 DEF Told
  <2> QED BY <2>1, <2>2, <1>4
<1> QED BY <1>3, <1>4

LEMMA ToldAreNumbers ==
  ASSUME VariableTypes
  PROVE  \A ch \in Child, kind \in {"ADD", "ABORT"} : Told(ch, kind) \subseteq 1 .. Len(to_engine)
<1>1. DOMAIN to_engine = 1 .. Len(to_engine)
  BY DEF VariableTypes
<1> QED BY <1>1 DEF Told

\* A request leaves the front end with an abort on its way, or because the engine
\* is done with it.
LEMMA AbortsSent ==
  ASSUME VariableTypes, EngineInv, NEW chs \in SUBSET Child, SendAbort(chs),
         UNCHANGED <<engine, engine_alive, engine_dead>>,
         \A ch \in Child : call[CallOf(ch)]' = "new" =>
           call[CallOf(ch)] = "new" /\ Under(ch)' = {} /\ ch \notin chs /\ ch \notin to_abort',
         \A ch \in Child : ch \in op.request_states \/ ch \in to_abort =>
           \/ ch \in op.request_states' \/ ch \in to_abort' \/ ch \in chs
           \/ engine_alive => engine[ch].state = "gone"
  PROVE  EngineInv' /\ to_engine' \in Seq(Messages)
<1>1. to_engine \in Seq(Messages) /\ Len(to_engine) \in Nat
  BY DEF VariableTypes
<1>2. CASE chs = {} \/ engine_dead
  <2>1. to_engine' = to_engine
    BY <1>2 DEF SendAbort
  <2>2. \A ch, kind : Told(ch, kind)' = Told(ch, kind)
    BY <2>1 DEF Told
  <2> SUFFICES ASSUME NEW ch \in Child
               PROVE  /\ call[CallOf(ch)]' = "new" =>
                           /\ Under(ch)' = {}
                           /\ ch \notin to_abort'
                           /\ Told(ch, "ADD")' = {}
                           /\ Told(ch, "ABORT")' = {}
                           /\ engine[ch].tokens = 0
                           /\ engine[ch].state # "running"
                           /\ engine_alive => engine[ch].state = "absent"
                      /\ \A i, j \in Told(ch, "ADD")' : i = j
                      /\ \A i \in Told(ch, "ADD")', j \in Told(ch, "ABORT")' : i < j
                      /\ engine_alive /\ engine[ch].state # "absent" => Told(ch, "ADD")' = {}
                      /\ /\ engine_alive
                         /\ ~engine_dead
                         /\ engine[ch].state = "running" \/ Told(ch, "ADD")' # {}
                         => ch \in op.request_states' \/ ch \in to_abort' \/ Told(ch, "ABORT")' # {}
    BY <1>1, <2>1 DEF EngineInv
  <2> QED BY <2>2, <1>2 DEF EngineInv
<1>3. CASE ~(chs = {} \/ engine_dead)
  <2>1. Send(Message("ABORT", chs))
    BY <1>3 DEF SendAbort
  <2>2. /\ to_engine' \in Seq(Messages)
        /\ IF engine_alive
             THEN \A ch \in Child, kind \in {"ADD", "ABORT"} :
                    Told(ch, kind)' = Told(ch, kind) \union
                      (IF kind = "ABORT" /\ ch \in chs THEN {Len(to_engine) + 1} ELSE {})
             ELSE \A ch \in Child, kind \in {"ADD", "ABORT"} : Told(ch, kind)' = {}
    BY <2>1, ToldAfterSend
  <2>3. ASSUME NEW ch \in Child
        PROVE  /\ Told(ch, "ADD")' = IF engine_alive THEN Told(ch, "ADD") ELSE {}
               /\ Told(ch, "ABORT")' =
                    IF ~engine_alive THEN {}
                    ELSE IF ch \in chs THEN Told(ch, "ABORT") \union {Len(to_engine) + 1}
                    ELSE Told(ch, "ABORT")
               /\ Told(ch, "ADD") \subseteq 1 .. Len(to_engine)
    BY <2>2, ToldAreNumbers
  <2> SUFFICES ASSUME NEW ch \in Child
               PROVE  /\ call[CallOf(ch)]' = "new" =>
                           /\ Under(ch)' = {}
                           /\ ch \notin to_abort'
                           /\ Told(ch, "ADD")' = {}
                           /\ Told(ch, "ABORT")' = {}
                           /\ engine[ch].tokens = 0
                           /\ engine[ch].state # "running"
                           /\ engine_alive => engine[ch].state = "absent"
                      /\ \A i, j \in Told(ch, "ADD")' : i = j
                      /\ \A i \in Told(ch, "ADD")', j \in Told(ch, "ABORT")' : i < j
                      /\ engine_alive /\ engine[ch].state # "absent" => Told(ch, "ADD")' = {}
                      /\ /\ engine_alive
                         /\ ~engine_dead
                         /\ engine[ch].state = "running" \/ Told(ch, "ADD")' # {}
                         => ch \in op.request_states' \/ ch \in to_abort' \/ Told(ch, "ABORT")' # {}
    BY <2>2 DEF EngineInv
  <2>4. CASE ~engine_alive
    BY <2>3, <2>4 DEF EngineInv
  <2>5. CASE engine_alive
    <3>1. /\ Told(ch, "ADD")' = Told(ch, "ADD")
          /\ ch \in chs => Told(ch, "ABORT")' = Told(ch, "ABORT") \union {Len(to_engine) + 1}
          /\ ch \notin chs => Told(ch, "ABORT")' = Told(ch, "ABORT")
          /\ \A i \in Told(ch, "ADD") : i < Len(to_engine) + 1
      BY <2>3, <2>5, <1>1
    <3>2. \A i \in Told(ch, "ADD")', j \in Told(ch, "ABORT")' : i < j
      BY <3>1 DEF EngineInv
    <3> QED BY <3>1, <3>2, <2>5 DEF EngineInv
  <2> QED BY <2>4, <2>5
<1> QED BY <1>2, <1>3, <1>1 DEF SendAbort

\* Outputs on their way are what they were for the requests that stay.
LEMMA FlowStays ==
  ASSUME FlowInv, UNCHANGED <<from_engine, engine>>, engine_alive' = engine_alive,
         op'.request_states \subseteq op.request_states,
         \A ch \in op'.request_states : op'.output_token_ids[ch] = op.output_token_ids[ch]
  PROVE  FlowInv'
<1>1. \A ch : Under(ch)' = Under(ch)
  BY DEF Under
<1>2. \A at : OutputAt(at)' = OutputAt(at)
  BY DEF OutputAt
<1> SUFFICES ASSUME NEW ch \in op'.request_states
             PROVE  LET n == Len(op'.output_token_ids[ch])
                    IN  /\ \A at \in Under(ch)' :
                             /\ OutputAt(at)'.token > n
                             /\ \A k \in n + 1 .. OutputAt(at)'.token :
                                  \E to \in Under(ch)' : to[1] <= at[1] /\ OutputAt(to)'.token = k
                             /\ \A to \in Under(ch)' :
                                  /\ at[1] < to[1] => OutputAt(at)'.token < OutputAt(to)'.token
                                  /\ at[1] = to[1] => at = to
                             /\ engine_alive' => OutputAt(at)'.token <= engine'[ch].tokens
                             /\ engine_alive' /\ OutputAt(at)'.reason # Unfinished =>
                                  engine'[ch].state = "gone"
                             /\ OutputAt(at)'.reason = "length" =>
                                  OutputAt(at)'.token = MaxTokens[CallOf(ch)]
                        /\ engine_alive' =>
                             /\ n <= engine'[ch].tokens
                             /\ \A k \in n + 1 .. engine'[ch].tokens :
                                  \E at \in Under(ch)' : OutputAt(at)'.token = k
  BY DEF FlowInv
<1> QED BY <1>1, <1>2 DEF FlowInv

LEMMA MoreAbortable ==
  ASSUME NEW p, NEW U, NEW live, NEW less, NEW abortable, NEW more, NEW got, NEW end,
         less \subseteq live, abortable \subseteq more,
         Accounted(p, U, live, abortable, got, end)
  PROVE  Accounted(p, U, less, more, got, end)
<1>1. \A ch, tokens, reason :
        Whole(p, abortable, ch, tokens, reason) => Whole(p, more, ch, tokens, reason)
  BY DEF Whole
<1>2. \A ch : Aggregated(p, abortable, ch) => Aggregated(p, more, ch)
  BY <1>1 DEF Aggregated
<1>3. \A ch : WholeInv(p, U, abortable, got, end, ch) => WholeInv(p, U, more, got, end, ch)
  BY <1>1, <1>2 DEF WholeInv
<1> QED BY <1>3 DEF Accounted, AccountInv

\* The accounts speak of these fields only.
LEMMA SameAccounts ==
  ASSUME NEW p, NEW w, NEW U, NEW live, NEW abortable, NEW got, NEW end,
         w.child_requests = p.child_requests,
         w.output_aggregator = p.output_aggregator,
         w.output_kind = p.output_kind,
         w.output_token_ids = p.output_token_ids,
         w.sent_tokens_offset = p.sent_tokens_offset,
         w.queue = p.queue,
         Accounted(p, U, live, abortable, got, end)
  PROVE  Accounted(w, U, live, abortable, got, end)
<1>1. FinishInv(w, U)
  BY DEF Accounted, FinishInv
<1>2. ASSUME NEW ch \in Child, CallOf(ch) \in live, ~w.queue[CallOf(ch)].error
      PROVE  DeltaInv(w, got, ch) /\ WholeInv(w, U, abortable, got, end, ch)
  <2>1. DeltaInv(p, got, ch) /\ WholeInv(p, U, abortable, got, end, ch)
    BY <1>2 DEF Accounted, AccountInv
  <2>2. Have(w, got, ch) = Have(p, got, ch) /\ HaveReason(w, end, ch) = HaveReason(p, end, ch)
    BY DEF Have, HaveReason, Queued
  <2> QED BY <2>1, <2>2, SameAccount
<1> QED BY <1>1, <1>2 DEF Accounted, AccountInv

-----------------------------------------------------------------------------
(* The actions *)

LEMMA InitHolds == Init => FrontEndInv
<1> SUFFICES ASSUME Init PROVE FrontEndInv
  OBVIOUS
<1>1. op = NoRequests
  BY DEF Init
<1>2. <<>> \in Pieces /\ DOMAIN <<>> = {} /\ <<>> \in Seq(Nat) /\ Len(<<>>) = 0
  BY NoPieces
<1>3. Nothing \in [outputs : Pieces, finished : BOOLEAN, error : BOOLEAN]
  BY <1>2 DEF Nothing
<1>4. op \in OutputProcessors
  <2>1. "DELTA" \in Kinds
    BY DEF Kinds
  <2> QED BY <1>1, <1>2, <1>3, <2>1 DEF NoRequests, OutputProcessors
<1>5. OPType(op) /\ TokensInOrder(op)
  <2>1. OwnInv(op)
    BY <1>1, <1>2 DEF OwnInv, NoRequests, Nothing
  <2>2. Upto(<<>>, 0)
    BY DEF Upto
  <2>3. \A ch \in Child : op.output_token_ids[ch] = <<>>
    BY <1>1 DEF NoRequests
  <2> QED BY <1>2, <1>4, <2>1, <2>2, <2>3 DEF OPType, TokensInOrder
<1>6. VariableTypes
  <2>1. <<>> \in Seq(Messages) /\ <<>> \in Seq(Seq(Outputs))
    OBVIOUS
  <2> QED BY <1>2, <2>1 DEF Init, VariableTypes
<1>7. Accounted(op, op.request_states, Live, aborted_ids, received, ending)
  <2>1. Live = {}
    BY DEF Live, Init
  <2>2. AccountInv(op, op.request_states, {}, aborted_ids, received, ending)
    BY DEF AccountInv
  <2>3. FinishInv(op, op.request_states)
    BY <1>1 DEF FinishInv, NoRequests, Nothing
  <2> QED BY <2>1, <2>2, <2>3 DEF Accounted
<1>8. MapInv
  BY <1>1 DEF MapInv, NoRequests
<1>9. CallInv
  <2>1. \A ch \in Child : CallOf(ch) \in Calls
    BY Samples
  <2> QED BY <1>1, <2>1 DEF CallInv, NoRequests, Init
<1>10. FlowInv
  BY <1>1 DEF FlowInv, NoRequests
<1>11. EngineInv
  <2>1. \A ch : Under(ch) = {}
    BY DEF Under, Init
  <2>2. \A ch, type : Told(ch, type) = {}
    BY DEF Told, Init
  <2> QED BY <2>1, <2>2, Samples DEF EngineInv, Init
<1> QED BY <1>5, <1>6, <1>7, <1>8, <1>9, <1>10, <1>11 DEF FrontEndInv

\* add_request, of a call that is new.
LEMMA GenerateHolds ==
  ASSUME FrontEndInv, NEW c \in Calls, NEW kind \in OutputKinds[c], Generate(c, kind)
  PROVE  FrontEndInv'
<1>1. /\ VariableTypes
      /\ OPType(op) /\ op \in OutputProcessors /\ OwnInv(op)
      /\ TokensInOrder(op)
      /\ Accounted(op, op.request_states, Live, aborted_ids, received, ending)
      /\ FinishInv(op, op.request_states)
      /\ AccountInv(op, op.request_states, Live, aborted_ids, received, ending)
      /\ MapInv /\ CallInv /\ FlowInv /\ EngineInv
  BY DEF FrontEndInv, OPType, Accounted
<1>2. /\ call[c] = "new"
      /\ UNCHANGED <<received, ending, from_engine, to_abort, handler, engine, engine_alive,
                     engine_dead, aborted_ids>>
  BY DEF Generate, engineVars
<1>3. \A ch : Under(ch)' = Under(ch) /\ \A at : OutputAt(at)' = OutputAt(at)
  BY <1>2 DEF Under, OutputAt
<1>4. CASE Errored
  <2>1. call' = [call EXCEPT ![c] = "failed"] /\ UNCHANGED <<op, to_engine>>
    BY <1>4 DEF Generate
  <2>2. call' \in [Calls -> {"new", "running", "done", "cancelled", "failed"}]
        /\ \A d \in Calls : call'[d] = IF d = c THEN "failed" ELSE call[d]
    BY <2>1, <1>1 DEF VariableTypes
  <2>3. Live' = Live
    BY <2>2, <1>2 DEF Live
  <2>4. VariableTypes'
    BY <2>1, <2>2, <1>1, <1>2 DEF VariableTypes
  <2>5. CallInv'
    BY <2>1, <2>2, <1>1, <1>2, Samples DEF CallInv
  <2>6. \A ch, type : Told(ch, type)' = Told(ch, type)
    BY <2>1 DEF Told
  <2>7. EngineInv'
    BY <2>1, <2>2, <2>6, <1>1, <1>2, <1>3, Samples DEF EngineInv
  <2>8. MapInv'
    BY <2>1, <1>1, <1>2 DEF MapInv
  <2>9. FlowInv'
    BY <2>1, <1>1, <1>2, FlowStays
  <2> QED BY <2>1, <2>3, <2>4, <2>5, <2>7, <2>8, <2>9, <1>1, <1>2 DEF FrontEndInv
<1>5. CASE ~Errored
  <2>1. /\ call' = [call EXCEPT ![c] = "running"]
        /\ op' = WithCall(op, c, kind)
        /\ Send(Message("ADD", Children(c)))
    BY <1>5 DEF Generate
  <2>2. call' \in [Calls -> {"new", "running", "done", "cancelled", "failed"}]
        /\ \A d \in Calls : call'[d] = IF d = c THEN "running" ELSE call[d]
    BY <2>1, <1>1 DEF VariableTypes
  <2>3. Live' = Live \union {c}
    BY <2>2 DEF Live
  <2> DEFINE U == op.request_states
             X == ExternalId[c]
             ids == [op.external_req_ids EXCEPT ![X] = @ \union Children(c)]
             parents == IF HasParent(c) THEN op.parent_requests \union {c} ELSE op.parent_requests
             childrens == [op.child_requests EXCEPT ![c] = IF HasParent(c) THEN Children(c) ELSE @]
             kinds == [op.output_kind EXCEPT ![c] = kind]
  <2>4. /\ op'.request_states = U \union Children(c)
        /\ op'.external_req_ids = ids
        /\ op'.parent_requests = parents
        /\ op'.child_requests = childrens
        /\ op'.output_kind = kinds
        /\ op'.output_aggregator = op.output_aggregator
        /\ op'.output_token_ids = op.output_token_ids
        /\ op'.sent_tokens_offset = op.sent_tokens_offset
        /\ op'.queue = op.queue
        /\ op' = [op EXCEPT !.request_states = U \union Children(c), !.external_req_ids = ids,
                            !.parent_requests = parents, !.child_requests = childrens,
                            !.output_kind = kinds]
    BY <2>1, <1>1 DEF WithCall, OutputProcessors
  <2>5. Children(c) \subseteq Child /\ Children(c) # {} /\ X \in ExternalIds
    BY Samples
  <2>6. /\ ids \in [ExternalIds -> SUBSET Child]
        /\ \A x \in ExternalIds : ids[x] = IF x = X THEN op.external_req_ids[x] \union Children(c)
                                           ELSE op.external_req_ids[x]
    BY <2>5, <1>1 DEF OutputProcessors
  <2>7. /\ childrens \in [Calls -> SUBSET Child]
        /\ \A d \in Calls : childrens[d] = IF d = c /\ HasParent(c) THEN Children(c)
                                           ELSE op.child_requests[d]
    BY <2>5, <1>1 DEF OutputProcessors
  <2>8. /\ kinds \in [Calls -> Kinds]
        /\ \A d \in Calls : kinds[d] = IF d = c THEN kind ELSE op.output_kind[d]
    <3>1. kind \in Kinds
      BY AsyncLLMAssumption
    <3> QED BY <3>1, <1>1 DEF OutputProcessors
  <2>9. parents \in SUBSET Calls /\ U \in SUBSET Child
    BY <1>1 DEF OutputProcessors
  <2> HIDE DEF ids, parents, childrens, kinds
  <2>10. op' \in OutputProcessors
    BY <2>4, <2>5, <2>6, <2>7, <2>8, <2>9, <1>1 DEF OutputProcessors
  <2>11. OwnInv(op')
    BY <2>4, <2>7, <1>1 DEF OwnInv, parents
  <2>12. OPType(op)' /\ TokensInOrder(op)'
    BY <2>4, <2>10, <2>11, <1>1 DEF OPType, TokensInOrder
  <2>13. FinishInv(op', op'.request_states)
    <3> SUFFICES ASSUME NEW d \in Calls
                 PROVE  /\ HasParent(d) => op'.child_requests[d] = Children(d) \intersect op'.request_states
                        /\ op'.queue[d].finished => Children(d) \intersect op'.request_states = {}
      BY DEF FinishInv
    <3>1. CASE d = c
      <4>1. PICK ch \in Children(c) : TRUE
        BY <2>5
      <4>2. op.queue[c] = Nothing
        BY <4>1, <1>1, <1>2, Samples DEF CallInv
      <4> QED BY <3>1, <4>2, <2>4, <2>7 DEF Nothing
    <3>2. CASE d # c
      <4>1. Children(d) \intersect op'.request_states = Children(d) \intersect U
        BY <3>2, <2>4, Samples
      <4> HIDE DEF U
      <4> QED BY <4>1, <3>2, <2>4, <2>7, <1>1 DEF FinishInv, U
    <3> QED BY <3>1, <3>2
  <2>14. ASSUME NEW ch \in Child, CallOf(ch) \in Live', ~op'.queue[CallOf(ch)].error
         PROVE  /\ DeltaInv(op', received', ch)
                /\ WholeInv(op', op'.request_states, aborted_ids', received', ending', ch)
    <3>1. CASE CallOf(ch) = c
      <4>1. /\ op.queue[c] = Nothing /\ received[ch] = <<>>
            /\ op.output_token_ids[ch] = <<>> /\ op.sent_tokens_offset[ch] = 0
        BY <3>1, <1>1, <1>2 DEF CallInv
      <4>2. Have(op', received', ch) = <<>>
        BY <4>1, <3>1, <2>4, <1>2 DEF Have, Queued, Nothing
      <4>3. Sent(op', ch) = 0
        BY <4>1, <2>4 DEF Sent
      <4>4. SubSeq(<<>>, 1, 0) = <<>>
        BY SubSeqEmpty
      <4>5. DeltaInv(op', received', ch)
        BY <4>1, <4>2, <4>3, <4>4, <2>4 DEF DeltaInv
      <4>6. ch \in op'.request_states
        BY <3>1, <2>4, Samples
      <4> QED BY <4>5, <4>6 DEF WholeInv
    <3>2. CASE CallOf(ch) # c
      <4>1. CallOf(ch) \in Live /\ ~op.queue[CallOf(ch)].error /\ CallOf(ch) \in Calls
        BY <3>2, <2>3, <2>4, <2>14, Samples
      <4>2. /\ DeltaInv(op, received, ch)
            /\ WholeInv(op, U, aborted_ids, received, ending, ch)
        BY <4>1, <1>1 DEF AccountInv
      <4>3. op'.output_kind[CallOf(ch)] = op.output_kind[CallOf(ch)]
        BY <4>1, <3>2, <2>4, <2>8
      <4>4. /\ Have(op', received', ch) = Have(op, received, ch)
            /\ HaveReason(op', ending', ch) = HaveReason(op, ending, ch)
        BY <4>3, <2>4, <1>2 DEF Have, HaveReason, Queued
      <4>5. Children(CallOf(ch)) \intersect op'.request_states = Children(CallOf(ch)) \intersect U
            /\ (ch \in op'.request_states <=> ch \in U)
        BY <4>1, <3>2, <2>4, Samples
      <4>6. DeltaInv(op', received', ch)
        BY <4>2, <4>3, <4>4, <2>4 DEF DeltaInv, Sent
      <4>7. \A tokens, reason : Whole(op', aborted_ids', ch, tokens, reason) <=>
                                Whole(op, aborted_ids, ch, tokens, reason)
        BY <2>4, <1>2 DEF Whole
      <4>8. Aggregated(op', aborted_ids', ch) <=> Aggregated(op, aborted_ids, ch)
        BY <4>7, <2>4 DEF Aggregated
      <4>9. Aggregates(op', CallOf(ch)) <=> Aggregates(op, CallOf(ch))
        BY <4>3 DEF Aggregates
      <4> HIDE DEF U
      <4> QED BY <4>2, <4>4, <4>5, <4>6, <4>7, <4>8, <4>9 DEF WholeInv
    <3> QED BY <3>1, <3>2
  <2>15. Accounted(op, op.request_states, Live, aborted_ids, received, ending)'
    BY <2>13, <2>14 DEF Accounted, AccountInv
  <2>16. MapInv'
    <3>1. \A x \in ExternalIds : op'.external_req_ids[x] =
            {ch \in op'.request_states : ExternalId[CallOf(ch)] = x}
      <4>1. \A x \in ExternalIds : op.external_req_ids[x] = {ch \in U : ExternalId[CallOf(ch)] = x}
        BY <1>1 DEF MapInv
      <4>2. \A ch \in Children(c) : CallOf(ch) = c
        BY Samples
      <4> HIDE DEF U
      <4> QED BY <4>1, <4>2, <2>4, <2>6 DEF U
    <3>2. \A d \in Calls : HasParent(d) =>
            /\ op'.child_requests[d] # {} => d \in op'.parent_requests
            /\ d \in op'.parent_requests /\ op'.child_requests[d] = {} =>
                 ExternalId[d] \in aborted_ids'
      BY <2>4, <2>5, <2>7, <1>1, <1>2 DEF MapInv, parents
    <3> QED BY <3>1, <3>2 DEF MapInv
  <2>17. VariableTypes' /\ to_engine' \in Seq(Messages)
    <3>1. to_engine' \in Seq(Messages)
      BY <2>1, <2>5, <1>1, ToldAfterSend
    <3> QED BY <3>1, <2>2, <1>1, <1>2 DEF VariableTypes
  <2>18. CallInv'
    <3> SUFFICES ASSUME NEW ch \in Child
                 PROVE  /\ call'[CallOf(ch)] = "new" =>
                             /\ ch \notin op'.request_states
                             /\ received'[ch] = <<>>
                             /\ op'.queue[CallOf(ch)] = Nothing
                             /\ op'.output_aggregator[CallOf(ch)] = <<>>
                             /\ op'.output_token_ids[ch] = <<>>
                             /\ op'.sent_tokens_offset[ch] = 0
                        /\ call'[CallOf(ch)] = "done" =>
                             ch \notin op'.request_states /\ op'.queue[CallOf(ch)] = Nothing
      BY DEF CallInv
    <3>1. CallOf(ch) \in Calls /\ (CallOf(ch) # c => ch \notin Children(c))
      BY Samples
    <3> QED BY <3>1, <2>2, <2>4, <1>1, <1>2 DEF CallInv
  <2>19. FlowInv'
    <3> SUFFICES ASSUME NEW ch \in op'.request_states
                 PROVE  LET n == Len(op'.output_token_ids[ch])
                        IN  /\ \A at \in Under(ch) :
                                 /\ OutputAt(at).token > n
                                 /\ \A k \in n + 1 .. OutputAt(at).token :
                                      \E to \in Under(ch) : to[1] <= at[1] /\ OutputAt(to).token = k
                                 /\ \A to \in Under(ch) :
                                      /\ at[1] < to[1] => OutputAt(at).token < OutputAt(to).token
                                      /\ at[1] = to[1] => at = to
                                 /\ engine_alive => OutputAt(at).token <= engine[ch].tokens
                                 /\ engine_alive /\ OutputAt(at).reason # Unfinished =>
                                      engine[ch].state = "gone"
                                 /\ OutputAt(at).reason = "length" =>
                                      OutputAt(at).token = MaxTokens[CallOf(ch)]
                            /\ engine_alive =>
                                 /\ n <= engine[ch].tokens
                                 /\ \A k \in n + 1 .. engine[ch].tokens :
                                      \E at \in Under(ch) : OutputAt(at).token = k
      BY <1>2, <1>3 DEF FlowInv
    <3>1. CASE ch \in U
      BY <3>1, <2>4, <1>1 DEF FlowInv
    <3>2. CASE ch \notin U
      <4>1. CallOf(ch) = c /\ ch \in Child
        BY <3>2, <2>4, Samples
      <4>2. Under(ch) = {} /\ engine[ch].tokens = 0
        BY <4>1, <1>1, <1>2 DEF EngineInv
      <4>3. Len(op'.output_token_ids[ch]) = 0
        BY <4>1, <2>4, <1>1, <1>2 DEF CallInv
      <4> QED BY <4>2, <4>3
    <3> QED BY <3>1, <3>2
  <2>20. EngineInv'
    <3>1. IF engine_alive
            THEN \A ch \in Child, type \in {"ADD", "ABORT"} :
                   Told(ch, type)' = Told(ch, type) \union
                     (IF type = "ADD" /\ ch \in Children(c) THEN {Len(to_engine) + 1} ELSE {})
            ELSE \A ch \in Child, type \in {"ADD", "ABORT"} : Told(ch, type)' = {}
      BY <2>1, <2>5, <1>1, ToldAfterSend
    <3>2. ASSUME NEW ch \in Child
          PROVE  /\ Told(ch, "ABORT")' = IF engine_alive THEN Told(ch, "ABORT") ELSE {}
                 /\ Told(ch, "ADD")' =
                      IF ~engine_alive THEN {}
                      ELSE IF ch \in Children(c) THEN Told(ch, "ADD") \union {Len(to_engine) + 1}
                      ELSE Told(ch, "ADD")
      BY <3>1
    <3> SUFFICES ASSUME NEW ch \in Child
                 PROVE  /\ call'[CallOf(ch)] = "new" =>
                             /\ Under(ch) = {}
                             /\ ch \notin to_abort
                             /\ Told(ch, "ADD")' = {}
                             /\ Told(ch, "ABORT")' = {}
                             /\ engine[ch].tokens = 0
                             /\ engine[ch].state # "running"
                             /\ engine_alive => engine[ch].state = "absent"
                        /\ \A i, j \in Told(ch, "ADD")' : i = j
                        /\ \A i \in Told(ch, "ADD")', j \in Told(ch, "ABORT")' : i < j
                        /\ engine_alive /\ engine[ch].state # "absent" => Told(ch, "ADD")' = {}
                        /\ /\ engine_alive
                           /\ ~engine_dead
                           /\ engine[ch].state = "running" \/ Told(ch, "ADD")' # {}
                           => ch \in op'.request_states \/ ch \in to_abort \/ Told(ch, "ABORT")' # {}
      BY <1>2, <1>3 DEF EngineInv
    <3>3. CallOf(ch) \in Calls /\ (CallOf(ch) = c <=> ch \in Children(c))
      BY Samples
    <3>4. CASE CallOf(ch) = c
      <4>1. /\ Told(ch, "ADD") = {} /\ Told(ch, "ABORT") = {}
            /\ engine[ch].state # "running"
            /\ engine_alive => engine[ch].state = "absent"
        BY <3>4, <1>1, <1>2 DEF EngineInv
      <4>2. ch \in op'.request_states /\ call'[CallOf(ch)] # "new"
        BY <3>3, <3>4, <2>2, <2>4
      <4> QED BY <4>1, <4>2, <3>2
    <3>5. CASE CallOf(ch) # c
      <4>1. call'[CallOf(ch)] = call[CallOf(ch)] /\ (ch \in op'.request_states <=> ch \in U)
        BY <3>3, <3>5, <2>2, <2>4
      <4> QED BY <4>1, <3>2, <3>3, <3>5, <1>1 DEF EngineInv
    <3> QED BY <3>4, <3>5
  <2> QED BY <2>12, <2>15, <2>16, <2>17, <2>18, <2>19, <2>20 DEF FrontEndInv
<1> QED BY <1>4, <1>5

\* The call reads what its collector holds.
LEMMA ConsumeHolds ==
  ASSUME FrontEndInv, NEW c \in Calls, Consume(c)
  PROVE  FrontEndInv'
<1> DEFINE q == op.queue[c]
           U == op.request_states
<1>1. /\ VariableTypes
      /\ OPType(op) /\ op \in OutputProcessors /\ OwnInv(op)
      /\ TokensInOrder(op)
      /\ FinishInv(op, U)
      /\ AccountInv(op, U, Live, aborted_ids, received, ending)
      /\ MapInv /\ CallInv /\ FlowInv /\ EngineInv
  BY DEF FrontEndInv, OPType, Accounted
<1>2. /\ call[c] = "running"
      /\ op' = [op EXCEPT !.queue[c] = Nothing]
      /\ call' = [call EXCEPT ![c] = IF q.error THEN "failed" ELSE IF q.finished THEN "done" ELSE @]
      /\ UNCHANGED <<to_engine, from_engine, to_abort, handler, engine, engine_alive,
                     engine_dead, aborted_ids>>
  BY DEF Consume, engineVars
<1>3. /\ q \in [outputs : Pieces, finished : BOOLEAN, error : BOOLEAN]
      /\ DOMAIN q.outputs \subseteq Children(c)
      /\ \A ch \in DOMAIN q.outputs : q.outputs[ch] \in Piece
  <2>1. q \in [outputs : Pieces, finished : BOOLEAN, error : BOOLEAN] /\ DOMAIN q.outputs \subseteq Children(c)
    BY <1>1 DEF OutputProcessors, OwnInv
  <2> HIDE DEF q
  <2> QED BY <2>1, PieceType
<1>4. received' = [ch \in Child |->
           IF ch \notin DOMAIN q.outputs THEN received[ch]
           ELSE IF op.output_kind[c] = "DELTA" THEN received[ch] \o q.outputs[ch].tokens
           ELSE q.outputs[ch].tokens]
  BY DEF Consume
<1>5. ending' = [ch \in Child |->
           IF ch \in DOMAIN q.outputs THEN q.outputs[ch].reason ELSE ending[ch]]
  BY DEF Consume
<1>6. received' \in [Child -> Seq(Nat)]
  <2>1. \A ch \in DOMAIN q.outputs : q.outputs[ch].tokens \in Seq(Nat)
    BY <1>3 DEF Piece
  <2>2. \A ch \in Child : received[ch] \in Seq(Nat)
    BY <1>1 DEF VariableTypes
  <2>3. \A ch \in DOMAIN q.outputs : ch \in Child => received[ch] \o q.outputs[ch].tokens \in Seq(Nat)
    BY <2>1, <2>2
  <2> HIDE DEF q
  <2> QED BY <1>4, <2>1, <2>2, <2>3
<1>7. ending' \in [Child -> Reasons \union {Unfinished}]
  <2>1. \A ch \in DOMAIN q.outputs : q.outputs[ch].reason \in Reasons \union {Unfinished}
    BY <1>3 DEF Piece
  <2>2. \A ch \in Child : ending[ch] \in Reasons \union {Unfinished}
    BY <1>1 DEF VariableTypes
  <2> HIDE DEF q
  <2> QED BY <1>5, <2>1, <2>2
<1>8. /\ op'.request_states = U
      /\ op'.external_req_ids = op.external_req_ids
      /\ op'.parent_requests = op.parent_requests
      /\ op'.child_requests = op.child_requests
      /\ op'.output_aggregator = op.output_aggregator
      /\ op'.output_kind = op.output_kind
      /\ op'.output_token_ids = op.output_token_ids
      /\ op'.sent_tokens_offset = op.sent_tokens_offset
      /\ op'.queue = [op.queue EXCEPT ![c] = Nothing]
      /\ op' = [op EXCEPT !.queue = [op.queue EXCEPT ![c] = Nothing]]
  BY <1>1, <1>2 DEF OutputProcessors
<1>9. /\ op'.queue \in [Calls -> [outputs : Pieces, finished : BOOLEAN, error : BOOLEAN]]
      /\ \A d \in Calls : op'.queue[d] = IF d = c THEN Nothing ELSE op.queue[d]
  <2>1. Nothing \in [outputs : Pieces, finished : BOOLEAN, error : BOOLEAN]
    BY NoPieces DEF Nothing
  <2>2. op.queue \in [Calls -> [outputs : Pieces, finished : BOOLEAN, error : BOOLEAN]]
    BY <1>1 DEF OutputProcessors
  <2> QED BY <2>1, <2>2, <1>8
<1>10. op' \in OutputProcessors
  BY <1>8, <1>9, <1>1 DEF OutputProcessors
<1>11. DOMAIN Nothing.outputs = {} /\ ~Nothing.finished /\ ~Nothing.error
  BY NoPieces DEF Nothing
<1>12. OwnInv(op')
  BY <1>1, <1>8, <1>9, <1>11 DEF OwnInv
<1>13. OPType(op)' /\ TokensInOrder(op)'
  BY <1>1, <1>8, <1>10, <1>12 DEF OPType, TokensInOrder
<1>14. /\ call' \in [Calls -> {"new", "running", "done", "cancelled", "failed"}]
       /\ \A d \in Calls : call'[d] = IF d # c THEN call[d] ELSE IF q.error THEN "failed"
                                      ELSE IF q.finished THEN "done" ELSE "running"
  BY <1>1, <1>2 DEF VariableTypes
<1>15. VariableTypes'
  BY <1>1, <1>2, <1>6, <1>7, <1>14 DEF VariableTypes
<1>16. FinishInv(op', op'.request_states)
  BY <1>1, <1>8, <1>9, <1>11 DEF FinishInv
<1>17. ASSUME NEW ch \in Child, CallOf(ch) \in Live', ~op'.queue[CallOf(ch)].error
       PROVE  /\ DeltaInv(op', received', ch)
              /\ WholeInv(op', op'.request_states, aborted_ids', received', ending', ch)
  <2>1. CallOf(ch) \in Calls /\ CallOf(ch) \in Live /\ ~op.queue[CallOf(ch)].error
    BY <1>2, <1>9, <1>14, <1>17, Samples DEF Live
  <2>2. DeltaInv(op, received, ch) /\ WholeInv(op, U, aborted_ids, received, ending, ch)
    BY <2>1, <1>1 DEF AccountInv
  <2>3. /\ Have(op', received', ch) = Have(op, received, ch)
        /\ HaveReason(op', ending', ch) = HaveReason(op, ending, ch)
    <3>1. CASE CallOf(ch) = c
      <4>1. ch \notin DOMAIN Queued(op', ch) /\ Queued(op, ch) = q.outputs
        BY <3>1, <2>1, <1>9, <1>11 DEF Queued
      <4>2. Have(op', received', ch) = received'[ch] /\ HaveReason(op', ending', ch) = ending'[ch]
        BY <4>1 DEF Have, HaveReason
      <4>3. received'[ch] = IF ch \notin DOMAIN q.outputs THEN received[ch]
                            ELSE IF op.output_kind[c] = "DELTA" THEN received[ch] \o q.outputs[ch].tokens
                            ELSE q.outputs[ch].tokens
        BY <1>4
      <4>4. ending'[ch] = IF ch \in DOMAIN q.outputs THEN q.outputs[ch].reason ELSE ending[ch]
        BY <1>5
      <4> HIDE DEF q
      <4>5. Have(op, received, ch) = received'[ch]
        BY <4>1, <4>3, <3>1 DEF Have
      <4>6. HaveReason(op, ending, ch) = ending'[ch]
        BY <4>1, <4>4 DEF HaveReason
      <4> QED BY <4>2, <4>5, <4>6
    <3>2. CASE CallOf(ch) # c
      <4>1. ch \notin DOMAIN q.outputs
        BY <3>2, <1>3, Samples
      <4>2. received'[ch] = received[ch] /\ ending'[ch] = ending[ch]
        <5> HIDE DEF q
        <5> QED BY <4>1, <1>4, <1>5
      <4>3. Queued(op', ch) = Queued(op, ch)
        BY <3>2, <2>1, <1>9 DEF Queued
      <4> QED BY <4>2, <4>3, <1>8 DEF Have, HaveReason
    <3> QED BY <3>1, <3>2
  <2>4. /\ op'.output_kind = op.output_kind
        /\ op'.output_token_ids[ch] = op.output_token_ids[ch]
        /\ op'.sent_tokens_offset[ch] = op.sent_tokens_offset[ch]
        /\ op'.output_aggregator[CallOf(ch)] = op.output_aggregator[CallOf(ch)]
    BY <1>8
  <2>5. DeltaInv(op', received', ch) /\ WholeInv(op', U, aborted_ids, received', ending', ch)
    <3> DEFINE p == op
               w == op'
               got2 == received'
               end2 == ending'
               V == U
               abortable == aborted_ids
               got == received
               end == ending
    <3>1. /\ Have(w, got2, ch) = Have(p, got, ch)
          /\ HaveReason(w, end2, ch) = HaveReason(p, end, ch)
          /\ w.output_kind = p.output_kind
          /\ w.output_token_ids[ch] = p.output_token_ids[ch]
          /\ w.sent_tokens_offset[ch] = p.sent_tokens_offset[ch]
          /\ w.output_aggregator[CallOf(ch)] = p.output_aggregator[CallOf(ch)]
          /\ DeltaInv(p, got, ch) /\ WholeInv(p, V, abortable, got, end, ch)
      BY <2>2, <2>3, <2>4
    <3> HIDE DEF p, w, got2, end2, V, abortable, got, end
    <3>2. DeltaInv(w, got2, ch) /\ WholeInv(w, V, abortable, got2, end2, ch)
      BY <3>1, SameAccount
    <3> QED BY <3>2 DEF p, w, got2, end2, V, abortable, got, end
  <2> QED BY <2>5, <1>2, <1>8
<1>18. Accounted(op, op.request_states, Live, aborted_ids, received, ending)'
  BY <1>16, <1>17 DEF Accounted, AccountInv
<1>19. MapInv'
  BY <1>1, <1>2, <1>8 DEF MapInv
<1>20. CallInv'
  <2> SUFFICES ASSUME NEW ch \in Child
               PROVE  /\ call'[CallOf(ch)] = "new" =>
                           /\ ch \notin op'.request_states
                           /\ received'[ch] = <<>>
                           /\ op'.queue[CallOf(ch)] = Nothing
                           /\ op'.output_aggregator[CallOf(ch)] = <<>>
                           /\ op'.output_token_ids[ch] = <<>>
                           /\ op'.sent_tokens_offset[ch] = 0
                      /\ call'[CallOf(ch)] = "done" =>
                           ch \notin op'.request_states /\ op'.queue[CallOf(ch)] = Nothing
    BY DEF CallInv
  <2>1. CallOf(ch) \in Calls /\ ch \in Children(CallOf(ch))
    BY Samples
  <2>2. CASE CallOf(ch) = c
    <3>1. q.finished => ch \notin U
      BY <2>1, <2>2, <1>1 DEF FinishInv
    <3> QED BY <3>1, <2>1, <2>2, <1>8, <1>9, <1>14
  <2>3. CASE CallOf(ch) # c
    <3>1. ch \notin DOMAIN q.outputs
      BY <2>3, <1>3, Samples
    <3>2. received'[ch] = received[ch]
      <4> HIDE DEF q
      <4> QED BY <3>1, <1>4
    <3> QED BY <3>2, <2>1, <2>3, <1>1, <1>8, <1>9, <1>14 DEF CallInv
  <2> QED BY <2>2, <2>3
<1>21. FlowInv'
  BY <1>1, <1>2, <1>8, FlowStays
<1>22. EngineInv'
  <2>1. \A ch, type : Told(ch, type)' = Told(ch, type) /\ Under(ch)' = Under(ch)
    BY <1>2 DEF Told, Under
  <2>2. \A ch \in Child : call'[CallOf(ch)] = "new" => call[CallOf(ch)] = "new"
    BY <1>14, Samples
  <2> QED BY <2>1, <2>2, <1>1, <1>2, <1>8 DEF EngineInv
<1> QED BY <1>13, <1>15, <1>18, <1>19, <1>20, <1>21, <1>22 DEF FrontEndInv

\* The call is cancelled: its requests are aborted and what it kept is garbage.
LEMMA CancelHolds ==
  ASSUME FrontEndInv, NEW c \in Calls, Cancel(c)
  PROVE  FrontEndInv'
<1> DEFINE U == op.request_states
           chs == ToAbortByCall(op, c)
           X == ExternalId[c]
           ids == [op.external_req_ids EXCEPT ![X] = @ \ chs]
           p == [op EXCEPT !.external_req_ids[X] = @ \ chs, !.parent_requests = @ \ {c}]
           w == AllAborted(p, chs)
           live == Live \ {c}
<1>1. /\ VariableTypes
      /\ OPType(op) /\ op \in OutputProcessors /\ OwnInv(op)
      /\ TokensInOrder(op)
      /\ Accounted(op, U, Live, aborted_ids, received, ending)
      /\ FinishInv(op, U)
      /\ MapInv /\ CallInv /\ FlowInv /\ EngineInv
  BY DEF FrontEndInv, OPType, Accounted
<1>2. /\ call[c] = "running"
      /\ call' = [call EXCEPT ![c] = "cancelled"]
      /\ op' = WithoutGarbage(w, c)
      /\ SendAbort(chs)
      /\ UNCHANGED <<from_engine, to_abort, handler, engine, engine_alive, engine_dead, aborted_ids>>
  BY DEF Cancel, engineVars, AbortedByCall
<1>3. /\ received' = [ch \in Child |-> IF CallOf(ch) = c THEN <<>> ELSE received[ch]]
      /\ ending' = [ch \in Child |-> IF CallOf(ch) = c THEN Unfinished ELSE ending[ch]]
  BY DEF Cancel
<1>4. Children(c) \subseteq Child /\ X \in ExternalIds /\ \A ch \in Children(c) : CallOf(ch) = c
  BY Samples
<1>5. chs = Children(c) \intersect U
  <2>1. HasParent(c) /\ c \notin op.parent_requests => Children(c) \intersect U = {}
    BY <1>1 DEF MapInv, FinishInv
  <2> QED BY <2>1 DEF ToAbortByCall
<1> HIDE DEF chs
<1>6. /\ ids \in [ExternalIds -> SUBSET Child]
      /\ \A x \in ExternalIds : ids[x] = IF x = X THEN op.external_req_ids[x] \ chs
                                         ELSE op.external_req_ids[x]
  BY <1>1, <1>4 DEF OutputProcessors
<1>7. /\ p \in OutputProcessors
      /\ p.request_states = U
      /\ p.external_req_ids = ids
      /\ p.parent_requests = op.parent_requests \ {c}
      /\ p.child_requests = op.child_requests
      /\ p.output_aggregator = op.output_aggregator
      /\ p.output_kind = op.output_kind
      /\ p.output_token_ids = op.output_token_ids
      /\ p.sent_tokens_offset = op.sent_tokens_offset
      /\ p.queue = op.queue
  <2>1. p = [op EXCEPT !.external_req_ids = ids, !.parent_requests = @ \ {c}]
    BY <1>1 DEF OutputProcessors
  <2> HIDE DEF ids, p
  <2> QED BY <2>1, <1>1, <1>6 DEF OutputProcessors
<1> HIDE DEF ids, p
<1>8. OPType(p)
  BY <1>1, <1>7 DEF OPType, OwnInv
<1>9. Accounted(p, U, live, aborted_ids, received, ending)
  <2>1. Accounted(op, U, live, aborted_ids, received, ending)
    <3> DEFINE more == aborted_ids
               abortable == aborted_ids
    <3>1. live \subseteq Live /\ abortable \subseteq more
          /\ Accounted(op, U, Live, abortable, received, ending)
      BY <1>1
    <3> HIDE DEF U, live, more, abortable
    <3>2. Accounted(op, U, live, more, received, ending)
      BY <3>1, MoreAbortable
    <3> QED BY <3>2 DEF more
  <2> HIDE DEF U, live
  <2> QED BY <2>1, <1>7, SameAccounts
<1>10. AbortsMade(p, w, chs) /\ Accounted(w, U \ chs, live, aborted_ids, received, ending)
  <2>1. U \in SUBSET Child /\ chs \in SUBSET U /\ received \in [Child -> Seq(Nat)]
    BY <1>1, <1>5 DEF OutputProcessors, VariableTypes
  <2>2. \A ch \in chs : CallOf(ch) \in live => ExternalId[CallOf(ch)] \in aborted_ids
    BY <1>4, <1>5
  <2> DEFINE v == w
  <2>3. v = AllAborted(p, chs)
    OBVIOUS
  <2> HIDE DEF U, live, v
  <2>4. AbortsMade(p, v, chs) /\ Accounted(v, U \ chs, live, aborted_ids, received, ending)
    BY <2>1, <2>2, <2>3, <1>8, <1>9, AbortsAccount
  <2> QED BY <2>4 DEF v
<1> HIDE DEF w
<1>11. /\ w \in OutputProcessors /\ OwnInv(w)
       /\ w.request_states = U \ chs
       /\ w.external_req_ids = ids
       /\ w.parent_requests = op.parent_requests \ {c}
       /\ w.output_kind = op.output_kind
       /\ w.output_token_ids = op.output_token_ids
       /\ \A d \in Calls : d # c =>
            /\ w.queue[d] = op.queue[d]
            /\ w.child_requests[d] = op.child_requests[d]
            /\ w.output_aggregator[d] = op.output_aggregator[d]
       /\ \A x \in Child \ chs : w.sent_tokens_offset[x] = op.sent_tokens_offset[x]
  <2>1. \A ch \in chs : CallOf(ch) = c
    BY <1>4, <1>5
  <2> QED BY <2>1, <1>7, <1>10 DEF AbortsMade, OPType
<1> DEFINE queue == [w.queue EXCEPT ![c] = Nothing]
           aggs == [w.output_aggregator EXCEPT ![c] = <<>>]
           tokens == [ch \in Child |-> IF CallOf(ch) = c THEN <<>> ELSE w.output_token_ids[ch]]
           offsets == [ch \in Child |-> IF CallOf(ch) = c THEN 0 ELSE w.sent_tokens_offset[ch]]
<1>12. /\ op'.request_states = U \ chs
       /\ op'.external_req_ids = ids
       /\ op'.parent_requests = op.parent_requests \ {c}
       /\ op'.child_requests = w.child_requests
       /\ op'.output_kind = op.output_kind
       /\ op'.output_aggregator = aggs
       /\ op'.output_token_ids = tokens
       /\ op'.sent_tokens_offset = offsets
       /\ op'.queue = queue
       /\ op' = [w EXCEPT !.queue = queue, !.output_aggregator = aggs,
                          !.output_token_ids = tokens, !.sent_tokens_offset = offsets]
  BY <1>2, <1>11 DEF WithoutGarbage, OutputProcessors
<1>13. /\ queue \in [Calls -> [outputs : Pieces, finished : BOOLEAN, error : BOOLEAN]]
       /\ \A d \in Calls : queue[d] = IF d = c THEN Nothing ELSE w.queue[d]
  <2>1. Nothing \in [outputs : Pieces, finished : BOOLEAN, error : BOOLEAN]
    BY NoPieces DEF Nothing
  <2>2. w.queue \in [Calls -> [outputs : Pieces, finished : BOOLEAN, error : BOOLEAN]]
    BY <1>11 DEF OutputProcessors
  <2> QED BY <2>1, <2>2
<1>14. /\ aggs \in [Calls -> Pieces]
       /\ \A d \in Calls : aggs[d] = IF d = c THEN <<>> ELSE w.output_aggregator[d]
  <2>1. w.output_aggregator \in [Calls -> Pieces]
    BY <1>11 DEF OutputProcessors
  <2> QED BY <2>1, NoPieces
<1>15. /\ tokens \in [Child -> Seq(Nat)]
       /\ offsets \in [Child -> Nat]
       /\ \A ch \in Child : CallOf(ch) = c => tokens[ch] = <<>> /\ offsets[ch] = 0
       /\ \A ch \in Child : CallOf(ch) # c =>
            /\ tokens[ch] = op.output_token_ids[ch]
            /\ offsets[ch] = op.sent_tokens_offset[ch]
  <2>1. w.output_token_ids \in [Child -> Seq(Nat)] /\ w.sent_tokens_offset \in [Child -> Nat]
    BY <1>11 DEF OutputProcessors
  <2>2. \A ch \in Child : CallOf(ch) # c => ch \notin chs
    BY <1>4, <1>5
  <2> QED BY <2>1, <2>2, <1>11
<1> HIDE DEF queue, aggs, tokens, offsets
<1>16. op' \in OutputProcessors
  BY <1>11, <1>12, <1>13, <1>14, <1>15 DEF OutputProcessors
<1>17. DOMAIN Nothing.outputs = {} /\ ~Nothing.finished /\ ~Nothing.error /\ DOMAIN <<>> = {} /\ Len(<<>>) = 0
  BY NoPieces DEF Nothing
<1>18. OwnInv(op')
  <2>1. \A d \in op'.parent_requests : HasParent(d)
    BY <1>1, <1>12 DEF OwnInv
  <2>2. ASSUME NEW d \in Calls
        PROVE  /\ op'.child_requests[d] \subseteq Children(d)
               /\ DOMAIN op'.output_aggregator[d] \subseteq Children(d)
               /\ DOMAIN op'.queue[d].outputs \subseteq Children(d)
    <3>1. /\ w.child_requests[d] \subseteq Children(d)
          /\ DOMAIN w.output_aggregator[d] \subseteq Children(d)
          /\ DOMAIN w.queue[d].outputs \subseteq Children(d)
      BY <1>11 DEF OwnInv
    <3>2. /\ op'.child_requests[d] = w.child_requests[d]
          /\ op'.output_aggregator[d] = IF d = c THEN <<>> ELSE w.output_aggregator[d]
          /\ op'.queue[d] = IF d = c THEN Nothing ELSE w.queue[d]
      BY <1>12, <1>13, <1>14
    <3> QED BY <3>1, <3>2, <1>17
  <2>3. ASSUME NEW ch \in Child
        PROVE  op'.sent_tokens_offset[ch] <= Len(op'.output_token_ids[ch])
    <3>1. op.sent_tokens_offset[ch] <= Len(op.output_token_ids[ch])
      BY <1>1 DEF OwnInv
    <3>2. \/ offsets[ch] = 0 /\ tokens[ch] = <<>>
          \/ offsets[ch] = op.sent_tokens_offset[ch] /\ tokens[ch] = op.output_token_ids[ch]
      BY <1>15
    <3>3. 0 <= Len(<<>>)
      BY <1>17
    <3> QED BY <3>1, <3>2, <3>3, <1>12
  <2> QED BY <2>1, <2>2, <2>3 DEF OwnInv
<1>19. TokensInOrder(op')
  <2>1. Upto(<<>>, 0)
    BY DEF Upto
  <2> QED BY <2>1, <1>1, <1>12, <1>15, <1>17 DEF TokensInOrder
<1>20. OPType(op)' /\ TokensInOrder(op)'
  BY <1>16, <1>18, <1>19 DEF OPType
<1>21. /\ call' \in [Calls -> {"new", "running", "done", "cancelled", "failed"}]
       /\ \A d \in Calls : call'[d] = IF d = c THEN "cancelled" ELSE call[d]
  BY <1>1, <1>2 DEF VariableTypes
<1>22. Live' = live
  BY <1>21 DEF Live
<1>23. /\ received' \in [Child -> Seq(Nat)]
       /\ ending' \in [Child -> Reasons \union {Unfinished}]
       /\ \A ch \in Child : CallOf(ch) # c => received'[ch] = received[ch] /\ ending'[ch] = ending[ch]
  <2>1. received \in [Child -> Seq(Nat)] /\ ending \in [Child -> Reasons \union {Unfinished}]
    BY <1>1 DEF VariableTypes
  <2> QED BY <2>1, <1>3
<1>24. \A ch \in Child : call'[CallOf(ch)] = "new" => call[CallOf(ch)] = "new" /\ CallOf(ch) # c
  BY <1>2, <1>21, Samples
<1>25. EngineInv' /\ to_engine' \in Seq(Messages)
  <2>1. chs \in SUBSET Child
    BY <1>4, <1>5
  <2>2. \A ch : Under(ch)' = Under(ch)
    BY <1>2 DEF Under
  <2>3. \A ch \in Child : call[CallOf(ch)]' = "new" =>
           call[CallOf(ch)] = "new" /\ Under(ch)' = {} /\ ch \notin chs /\ ch \notin to_abort'
    BY <2>2, <1>1, <1>2, <1>4, <1>5, <1>24 DEF EngineInv
  <2>4. \A ch \in Child : ch \in op.request_states \/ ch \in to_abort =>
           \/ ch \in op.request_states' \/ ch \in to_abort' \/ ch \in chs
           \/ engine_alive => engine[ch].state = "gone"
    BY <1>2, <1>12
  <2> QED BY <2>1, <2>3, <2>4, <1>1, <1>2, AbortsSent
<1>26. VariableTypes'
  BY <1>1, <1>2, <1>21, <1>23, <1>25 DEF VariableTypes
<1>27. FinishInv(op', U \ chs)
  <2> SUFFICES ASSUME NEW d \in Calls
               PROVE  /\ HasParent(d) => op'.child_requests[d] = Children(d) \intersect (U \ chs)
                      /\ op'.queue[d].finished => Children(d) \intersect (U \ chs) = {}
    BY DEF FinishInv
  <2>1. FinishInv(w, U \ chs)
    BY <1>10 DEF Accounted
  <2> QED BY <2>1, <1>12, <1>13, <1>17 DEF FinishInv
<1>28. ASSUME NEW ch \in Child, CallOf(ch) \in live, ~op'.queue[CallOf(ch)].error
       PROVE  /\ DeltaInv(op', received', ch)
              /\ WholeInv(op', U \ chs, aborted_ids, received', ending', ch)
  <2>1. CallOf(ch) \in Calls /\ CallOf(ch) # c
    BY <1>28, Samples
  <2>2. op'.queue[CallOf(ch)] = w.queue[CallOf(ch)]
    BY <2>1, <1>12, <1>13
  <2>3. DeltaInv(w, received, ch) /\ WholeInv(w, U \ chs, aborted_ids, received, ending, ch)
    BY <2>2, <1>10, <1>28 DEF Accounted, AccountInv
  <2>4. /\ op'.output_kind = w.output_kind
        /\ op'.output_token_ids[ch] = w.output_token_ids[ch]
        /\ op'.sent_tokens_offset[ch] = w.sent_tokens_offset[ch]
        /\ op'.output_aggregator[CallOf(ch)] = w.output_aggregator[CallOf(ch)]
        /\ received'[ch] = received[ch] /\ ending'[ch] = ending[ch]
    <3>1. ch \notin chs
      BY <2>1, <1>4, <1>5
    <3> QED BY <3>1, <2>1, <1>11, <1>12, <1>14, <1>15, <1>23
  <2>5. /\ Have(op', received', ch) = Have(w, received, ch)
        /\ HaveReason(op', ending', ch) = HaveReason(w, ending, ch)
    BY <2>2, <2>4 DEF Have, HaveReason, Queued
  <2> DEFINE b == op'
             got2 == received'
             end2 == ending'
             V == U \ chs
             abortable == aborted_ids
             got == received
             end == ending
  <2>6. /\ Have(b, got2, ch) = Have(w, got, ch)
        /\ HaveReason(b, end2, ch) = HaveReason(w, end, ch)
        /\ b.output_kind = w.output_kind
        /\ b.output_token_ids[ch] = w.output_token_ids[ch]
        /\ b.sent_tokens_offset[ch] = w.sent_tokens_offset[ch]
        /\ b.output_aggregator[CallOf(ch)] = w.output_aggregator[CallOf(ch)]
        /\ DeltaInv(w, got, ch) /\ WholeInv(w, V, abortable, got, end, ch)
    BY <2>3, <2>4, <2>5
  <2> HIDE DEF b, got2, end2, V, abortable, got, end
  <2>7. DeltaInv(b, got2, ch) /\ WholeInv(b, V, abortable, got2, end2, ch)
    BY <2>6, SameAccount
  <2> QED BY <2>7 DEF b, got2, end2, V, abortable, got, end
<1>29. Accounted(op, op.request_states, Live, aborted_ids, received, ending)'
  <2>1. AccountInv(op', U \ chs, live, aborted_ids, received', ending')
    BY <1>28 DEF AccountInv
  <2> QED BY <2>1, <1>2, <1>12, <1>22, <1>27 DEF Accounted
<1>30. MapInv'
  <2>1. \A x \in ExternalIds : op'.external_req_ids[x] =
          {ch \in op'.request_states : ExternalId[CallOf(ch)] = x}
    <3>1. \A x \in ExternalIds : op.external_req_ids[x] = {ch \in U : ExternalId[CallOf(ch)] = x}
      BY <1>1 DEF MapInv
    <3>2. \A ch \in chs : ExternalId[CallOf(ch)] = X
      BY <1>4, <1>5
    <3> HIDE DEF U, X
    <3> QED BY <3>1, <3>2, <1>6, <1>12
  <2>2. ASSUME NEW d \in Calls, HasParent(d)
        PROVE  /\ op'.child_requests[d] # {} => d \in op'.parent_requests
               /\ d \in op'.parent_requests /\ op'.child_requests[d] = {} =>
                    ExternalId[d] \in aborted_ids'
    <3>1. CASE d = c
      <4>1. op'.child_requests[c] = Children(c) \intersect (U \ chs)
        BY <3>1, <2>2, <1>27 DEF FinishInv
      <4> QED BY <4>1, <3>1, <1>5, <1>12
    <3>2. CASE d # c
      BY <3>2, <2>2, <1>1, <1>2, <1>11, <1>12 DEF MapInv
    <3> QED BY <3>1, <3>2
  <2> QED BY <2>1, <2>2 DEF MapInv
<1>31. CallInv'
  <2> SUFFICES ASSUME NEW ch \in Child
               PROVE  /\ call'[CallOf(ch)] = "new" =>
                           /\ ch \notin op'.request_states
                           /\ received'[ch] = <<>>
                           /\ op'.queue[CallOf(ch)] = Nothing
                           /\ op'.output_aggregator[CallOf(ch)] = <<>>
                           /\ op'.output_token_ids[ch] = <<>>
                           /\ op'.sent_tokens_offset[ch] = 0
                      /\ call'[CallOf(ch)] = "done" =>
                           ch \notin op'.request_states /\ op'.queue[CallOf(ch)] = Nothing
    BY DEF CallInv
  <2>1. CallOf(ch) \in Calls
    BY Samples
  <2>2. CASE CallOf(ch) = c
    BY <2>1, <2>2, <1>21
  <2>3. CASE CallOf(ch) # c
    <3>1. /\ call'[CallOf(ch)] = call[CallOf(ch)]
          /\ received'[ch] = received[ch]
          /\ op'.output_token_ids[ch] = op.output_token_ids[ch]
          /\ op'.sent_tokens_offset[ch] = op.sent_tokens_offset[ch]
      BY <2>1, <2>3, <1>12, <1>15, <1>21, <1>23
    <3>2. /\ op'.queue[CallOf(ch)] = op.queue[CallOf(ch)]
          /\ op'.output_aggregator[CallOf(ch)] = op.output_aggregator[CallOf(ch)]
      BY <2>1, <2>3, <1>11, <1>12, <1>13, <1>14
    <3>3. ch \in op'.request_states => ch \in U
      BY <1>12
    <3> QED BY <3>1, <3>2, <3>3, <1>1 DEF CallInv
  <2> QED BY <2>2, <2>3
<1>32. FlowInv'
  <2>1. \A ch \in op'.request_states : op'.output_token_ids[ch] = op.output_token_ids[ch]
    <3> SUFFICES ASSUME NEW ch \in op'.request_states
                 PROVE  op'.output_token_ids[ch] = op.output_token_ids[ch]
      OBVIOUS
    <3>1. ch \in Child /\ ch \in U \ chs
      BY <1>1, <1>12 DEF OutputProcessors
    <3>2. CallOf(ch) # c
      BY <3>1, <1>5, Samples
    <3> QED BY <3>1, <3>2, <1>12, <1>15
  <2> QED BY <2>1, <1>1, <1>2, <1>12, FlowStays
<1> QED BY <1>20, <1>25, <1>26, <1>29, <1>30, <1>31, <1>32 DEF FrontEndInv

\* Everything with one external ID is aborted; the parents stay.
LEMMA AbortHolds ==
  ASSUME FrontEndInv, NEW X \in ExternalIds, Abort(X)
  PROVE  FrontEndInv'
<1> DEFINE U == op.request_states
           chs == op.external_req_ids[X] \intersect op.request_states
           ids == [op.external_req_ids EXCEPT ![X] = {}]
           p == [op EXCEPT !.external_req_ids[X] = {}]
           w == AllAborted(p, chs)
           more == aborted_ids \union {X}
<1>1. /\ VariableTypes
      /\ OPType(op) /\ op \in OutputProcessors /\ OwnInv(op)
      /\ TokensInOrder(op)
      /\ Accounted(op, U, Live, aborted_ids, received, ending)
      /\ FinishInv(op, U)
      /\ MapInv /\ CallInv /\ FlowInv /\ EngineInv
  BY DEF FrontEndInv, OPType, Accounted
<1>2. /\ op' = w
      /\ SendAbort(chs)
      /\ aborted_ids' = more
      /\ UNCHANGED <<call, received, ending, from_engine, to_abort, handler, engine, engine_alive,
                     engine_dead>>
  BY DEF Abort, engineVars, callerVars, AbortedByExternalId
<1>3. chs = {ch \in U : ExternalId[CallOf(ch)] = X}
  BY <1>1 DEF MapInv
<1> HIDE DEF chs
<1>4. /\ ids \in [ExternalIds -> SUBSET Child]
      /\ \A x \in ExternalIds : ids[x] = IF x = X THEN {} ELSE op.external_req_ids[x]
  BY <1>1 DEF OutputProcessors
<1>5. /\ p \in OutputProcessors
      /\ p.request_states = U
      /\ p.external_req_ids = ids
      /\ p.parent_requests = op.parent_requests
      /\ p.child_requests = op.child_requests
      /\ p.output_aggregator = op.output_aggregator
      /\ p.output_kind = op.output_kind
      /\ p.output_token_ids = op.output_token_ids
      /\ p.sent_tokens_offset = op.sent_tokens_offset
      /\ p.queue = op.queue
  <2>1. p = [op EXCEPT !.external_req_ids = ids]
    BY <1>1 DEF OutputProcessors
  <2> HIDE DEF ids, p
  <2> QED BY <2>1, <1>1, <1>4 DEF OutputProcessors
<1> HIDE DEF ids, p
<1>6. OPType(p)
  BY <1>1, <1>5 DEF OPType, OwnInv
<1>7. Accounted(p, U, Live, more, received, ending)
  <2>1. Accounted(op, U, Live, more, received, ending)
    <3> DEFINE less == Live
               abortable == aborted_ids
    <3>1. less \subseteq Live /\ abortable \subseteq more
          /\ Accounted(op, U, Live, abortable, received, ending)
      BY <1>1
    <3> HIDE DEF U, less, more, abortable
    <3>2. Accounted(op, U, less, more, received, ending)
      BY <3>1, MoreAbortable
    <3> QED BY <3>2 DEF less
  <2> HIDE DEF U, more
  <2> QED BY <2>1, <1>5, SameAccounts
<1>8. AbortsMade(p, w, chs) /\ Accounted(w, U \ chs, Live, more, received, ending)
  <2>1. U \in SUBSET Child /\ chs \in SUBSET U /\ received \in [Child -> Seq(Nat)]
    BY <1>1, <1>3 DEF OutputProcessors, VariableTypes
  <2>2. \A ch \in chs : CallOf(ch) \in Live => ExternalId[CallOf(ch)] \in more
    BY <1>3
  <2> DEFINE v == w
  <2>3. v = AllAborted(p, chs)
    OBVIOUS
  <2> HIDE DEF U, v, more
  <2>4. AbortsMade(p, v, chs) /\ Accounted(v, U \ chs, Live, more, received, ending)
    BY <2>1, <2>2, <2>3, <1>6, <1>7, AbortsAccount
  <2> QED BY <2>4 DEF v
<1> HIDE DEF w
<1>9. /\ op' \in OutputProcessors /\ OPType(op')
      /\ op'.request_states = U \ chs
      /\ op'.external_req_ids = ids
      /\ op'.parent_requests = op.parent_requests
      /\ op'.output_kind = op.output_kind
      /\ op'.output_token_ids = op.output_token_ids
      /\ \A d \in Calls : (\A ch \in chs : CallOf(ch) # d) =>
           /\ op'.queue[d] = op.queue[d]
           /\ op'.child_requests[d] = op.child_requests[d]
           /\ op'.output_aggregator[d] = op.output_aggregator[d]
      /\ \A x \in Child \ chs : op'.sent_tokens_offset[x] = op.sent_tokens_offset[x]
  BY <1>2, <1>5, <1>8 DEF AbortsMade, OPType
<1>10. TokensInOrder(op)' /\ OPType(op)'
  BY <1>1, <1>9 DEF TokensInOrder
<1>11. Live' = Live
  BY <1>2 DEF Live
<1>12. Accounted(op, op.request_states, Live, aborted_ids, received, ending)'
  BY <1>2, <1>8, <1>9, <1>11
<1>13. U \subseteq Child /\ chs \subseteq U
  BY <1>1, <1>3 DEF OutputProcessors
<1>14. EngineInv' /\ to_engine' \in Seq(Messages)
  <2>1. chs \in SUBSET Child
    BY <1>13
  <2>2. \A ch : Under(ch)' = Under(ch)
    BY <1>2 DEF Under
  <2>3. \A ch \in Child : call[CallOf(ch)]' = "new" =>
           call[CallOf(ch)] = "new" /\ Under(ch)' = {} /\ ch \notin chs /\ ch \notin to_abort'
    BY <2>2, <1>1, <1>2, <1>13 DEF EngineInv, CallInv
  <2>4. \A ch \in Child : ch \in op.request_states \/ ch \in to_abort =>
           \/ ch \in op.request_states' \/ ch \in to_abort' \/ ch \in chs
           \/ engine_alive => engine[ch].state = "gone"
    BY <1>2, <1>9
  <2> QED BY <2>1, <2>3, <2>4, <1>1, <1>2, AbortsSent
<1>15. VariableTypes'
  BY <1>1, <1>2, <1>14 DEF VariableTypes
<1>16. MapInv'
  <2>1. \A x \in ExternalIds : op'.external_req_ids[x] =
          {ch \in op'.request_states : ExternalId[CallOf(ch)] = x}
    <3>1. \A x \in ExternalIds : op.external_req_ids[x] = {ch \in U : ExternalId[CallOf(ch)] = x}
      BY <1>1 DEF MapInv
    <3> HIDE DEF U
    <3> QED BY <3>1, <1>3, <1>4, <1>9
  <2>2. ASSUME NEW d \in Calls, HasParent(d)
        PROVE  /\ op'.child_requests[d] # {} => d \in op'.parent_requests
               /\ d \in op'.parent_requests /\ op'.child_requests[d] = {} =>
                    ExternalId[d] \in aborted_ids'
    <3>1. op'.child_requests[d] = Children(d) \intersect (U \ chs)
      BY <2>2, <1>9, <1>12 DEF Accounted, FinishInv
    <3>2. op.child_requests[d] = Children(d) \intersect U
      BY <2>2, <1>1 DEF FinishInv
    <3>3. CASE ExternalId[d] = X
      <4>1. X \in aborted_ids'
        BY <1>2
      <4> QED BY <4>1, <3>1, <3>2, <3>3, <2>2, <1>1, <1>9 DEF MapInv
    <3>4. CASE ExternalId[d] # X
      <4>1. Children(d) \intersect (U \ chs) = Children(d) \intersect U
        BY <3>4, <1>3, Samples
      <4> HIDE DEF U
      <4> QED BY <4>1, <3>1, <3>2, <2>2, <1>1, <1>2, <1>9 DEF MapInv
    <3> QED BY <3>3, <3>4
  <2> QED BY <2>1, <2>2 DEF MapInv
<1>17. CallInv'
  <2> SUFFICES ASSUME NEW ch \in Child
               PROVE  /\ call[CallOf(ch)] = "new" =>
                           /\ ch \notin op'.request_states
                           /\ received[ch] = <<>>
                           /\ op'.queue[CallOf(ch)] = Nothing
                           /\ op'.output_aggregator[CallOf(ch)] = <<>>
                           /\ op'.output_token_ids[ch] = <<>>
                           /\ op'.sent_tokens_offset[ch] = 0
                      /\ call[CallOf(ch)] = "done" =>
                           ch \notin op'.request_states /\ op'.queue[CallOf(ch)] = Nothing
    BY <1>2 DEF CallInv
  <2>1. CallOf(ch) \in Calls
    BY Samples
  <2>2. call[CallOf(ch)] \in {"new", "done"} =>
          ch \notin chs /\ \A x \in chs : CallOf(x) # CallOf(ch)
    BY <1>1, <1>13 DEF CallInv
  <2> QED BY <2>1, <2>2, <1>1, <1>9 DEF CallInv
<1>18. FlowInv'
  BY <1>1, <1>2, <1>9, FlowStays
<1> QED BY <1>10, <1>12, <1>14, <1>15, <1>16, <1>17, <1>18 DEF FrontEndInv

\* The output taken next from the socket, if any, is at <<1, 1>>; what stays behind it
\* is renumbered by f, in the same order.
Renumbered(f) ==
  /\ \A ch : \A at \in Under(ch)' :
       /\ at[1] \in Nat /\ f[at] \in Under(ch) /\ f[at] # <<1, 1>>
       /\ OutputAt(at)' = OutputAt(f[at])
  /\ \A ch : \A at \in Under(ch) : at # <<1, 1>> => \E to \in Under(ch)' : f[to] = at
  /\ \A ch : \A at, to \in Under(ch)' :
       /\ at[1] <= to[1] <=> f[at][1] <= f[to][1]
       /\ f[at] = f[to] => at = to

LEMMA UnderType ==
  ASSUME VariableTypes, NEW ch, NEW at \in Under(ch)
  PROVE  /\ at[1] \in 1 .. Len(from_engine) /\ at[2] \in Nat
         /\ OutputAt(at) \in Outputs /\ OutputAt(at).child = ch
<1>1. from_engine \in Seq(Seq(Outputs)) /\ DOMAIN from_engine = 1 .. Len(from_engine)
  BY DEF VariableTypes
<1>2. /\ at[1] \in DOMAIN from_engine /\ at[2] \in Nat
      /\ at[2] \in DOMAIN from_engine[at[1]] /\ from_engine[at[1]][at[2]].child = ch
  BY DEF Under
<1>3. from_engine[at[1]] \in Seq(Outputs)
  BY <1>1, <1>2
<1> DEFINE b == from_engine[at[1]]
<1>4. b \in Seq(Outputs) /\ at[2] \in DOMAIN b
  BY <1>2, <1>3
<1> HIDE DEF b
<1>5. b[at[2]] \in Outputs
  BY <1>4
<1> QED BY <1>1, <1>2, <1>5 DEF OutputAt, b

LEMMA OutputTaken ==
  ASSUME VariableTypes, from_engine # <<>>,
         from_engine' = IF Len(Head(from_engine)) <= 1 THEN Tail(from_engine)
                        ELSE [from_engine EXCEPT ![1] = Tail(Head(from_engine))]
  PROVE  \E f : Renumbered(f)
<1> DEFINE N2 == Nat \X Nat
           batch == Head(from_engine)
           last == Len(batch) <= 1
           f == [at \in N2 |-> IF last THEN <<at[1] + 1, at[2]>>
                               ELSE IF at[1] = 1 THEN <<1, at[2] + 1>> ELSE at]
<1>1. /\ from_engine \in Seq(Seq(Outputs)) /\ batch \in Seq(Outputs)
      /\ batch = from_engine[1] /\ Len(batch) \in Nat
      /\ Len(from_engine) \in Nat \ {0} /\ DOMAIN from_engine = 1 .. Len(from_engine)
      /\ DOMAIN batch = 1 .. Len(batch)
  BY DEF VariableTypes
<1>2. \A i \in DOMAIN from_engine : DOMAIN from_engine[i] \subseteq Nat \ {0}
  BY <1>1
<1>3. CASE last
  <2>1. /\ DOMAIN from_engine' = 1 .. Len(from_engine) - 1
        /\ \A i \in 1 .. Len(from_engine) - 1 : from_engine'[i] = from_engine[i + 1]
    BY <1>1, <1>3, HeadTailProperties
  <2>2. \A i \in Nat, j \in Nat : f[<<i, j>>] = <<i + 1, j>>
    BY <1>3
  <2>3. ASSUME NEW ch, NEW at \in Under(ch)'
        PROVE  /\ at[1] \in Nat /\ at[2] \in Nat /\ at = <<at[1], at[2]>>
               /\ at[1] \in 1 .. Len(from_engine) - 1
               /\ f[at] = <<at[1] + 1, at[2]>>
               /\ f[at] \in Under(ch) /\ f[at] # <<1, 1>>
               /\ OutputAt(at)' = OutputAt(f[at])
    <3>1. /\ at \in (1 .. Len(from_engine) - 1) \X Nat
          /\ at[2] \in DOMAIN from_engine'[at[1]] /\ from_engine'[at[1]][at[2]].child = ch
      BY <2>1 DEF Under
    <3>2. at[1] \in 1 .. Len(from_engine) - 1 /\ at[2] \in Nat /\ at = <<at[1], at[2]>>
      BY <3>1
    <3>3. f[at] = <<at[1] + 1, at[2]>> /\ from_engine'[at[1]] = from_engine[at[1] + 1]
      BY <3>2, <2>1, <2>2
    <3>4. at[1] + 1 \in DOMAIN from_engine /\ at[1] + 1 # 1 /\ at[1] \in Nat
      BY <3>2, <1>1
    <3> HIDE DEF f
    <3>5. f[at][1] = at[1] + 1 /\ f[at][2] = at[2]
      BY <3>3
    <3>6. f[at] \in (DOMAIN from_engine) \X Nat
      BY <3>2, <3>3, <3>4
    <3>7. f[at] \in Under(ch)
      BY <3>1, <3>3, <3>5, <3>6 DEF Under
    <3>8. OutputAt(at)' = OutputAt(f[at])
      BY <3>3, <3>5 DEF OutputAt
    <3>9. f[at] # <<1, 1>>
      BY <3>4, <3>5
    <3> QED BY <3>2, <3>3, <3>4, <3>7, <3>8, <3>9
  <2>4. ASSUME NEW ch, NEW at \in Under(ch), at # <<1, 1>>
        PROVE  \E to \in Under(ch)' : f[to] = at
    <3>1. /\ at[1] \in 1 .. Len(from_engine) /\ at[2] \in Nat /\ at = <<at[1], at[2]>>
          /\ at[2] \in DOMAIN from_engine[at[1]] /\ from_engine[at[1]][at[2]].child = ch
      BY <1>1 DEF Under
    <3>2. at[1] # 1
      <4>1. ASSUME at[1] = 1 PROVE at[2] = 1
        BY <4>1, <3>1, <1>1, <1>3
      <4> QED BY <4>1, <3>1, <2>4
    <3> DEFINE to == <<at[1] - 1, at[2]>>
    <3>3. at[1] - 1 \in 1 .. Len(from_engine) - 1 /\ (at[1] - 1) + 1 = at[1] /\ at[1] - 1 \in Nat
      BY <3>1, <3>2, <1>1
    <3>4. from_engine'[at[1] - 1] = from_engine[at[1]]
      BY <2>1, <3>3
    <3>5. to \in Under(ch)'
      BY <2>1, <3>1, <3>3, <3>4 DEF Under
    <3>6. f[to] = at
      BY <2>2, <3>1, <3>3
    <3> QED BY <3>5, <3>6
  <2>5. ASSUME NEW ch, NEW at \in Under(ch)', NEW to \in Under(ch)'
        PROVE  /\ at[1] <= to[1] <=> f[at][1] <= f[to][1]
               /\ f[at] = f[to] => at = to
    <3>1. /\ at[1] \in Nat /\ at = <<at[1], at[2]>> /\ f[at] = <<at[1] + 1, at[2]>>
          /\ to[1] \in Nat /\ to = <<to[1], to[2]>> /\ f[to] = <<to[1] + 1, to[2]>>
      BY <2>3
    <3> HIDE DEF f
    <3> QED BY <3>1
  <2> HIDE DEF f
  <2> QED BY <2>3, <2>4, <2>5 DEF Renumbered
<1>4. CASE ~last
  <2>1. /\ from_engine' = [from_engine EXCEPT ![1] = Tail(batch)]
        /\ DOMAIN from_engine' = DOMAIN from_engine
        /\ from_engine'[1] = Tail(batch)
        /\ \A i \in DOMAIN from_engine : i # 1 => from_engine'[i] = from_engine[i]
    BY <1>1, <1>4
  <2>2. /\ DOMAIN Tail(batch) = 1 .. Len(batch) - 1
        /\ \A j \in 1 .. Len(batch) - 1 : Tail(batch)[j] = batch[j + 1]
    BY <1>1, <1>4, HeadTailProperties
  <2>3. \A i \in Nat, j \in Nat : f[<<i, j>>] = IF i = 1 THEN <<1, j + 1>> ELSE <<i, j>>
    BY <1>4
  <2>4. ASSUME NEW ch, NEW at \in Under(ch)'
        PROVE  /\ at[1] \in Nat /\ at[2] \in Nat /\ at = <<at[1], at[2]>>
               /\ f[at] = IF at[1] = 1 THEN <<1, at[2] + 1>> ELSE <<at[1], at[2]>>
               /\ f[at] \in Under(ch) /\ f[at] # <<1, 1>>
               /\ OutputAt(at)' = OutputAt(f[at])
    <3>1. /\ at[1] \in DOMAIN from_engine /\ at[2] \in Nat /\ at = <<at[1], at[2]>>
          /\ at[2] \in DOMAIN from_engine'[at[1]] /\ from_engine'[at[1]][at[2]].child = ch
      BY <2>1 DEF Under
    <3>2. at[1] \in Nat /\ f[at] = IF at[1] = 1 THEN <<1, at[2] + 1>> ELSE <<at[1], at[2]>>
      <4>1. at[1] \in Nat
        BY <3>1, <1>1
      <4>2. f[<<at[1], at[2]>>] = IF at[1] = 1 THEN <<1, at[2] + 1>> ELSE <<at[1], at[2]>>
        BY <4>1, <3>1, <2>3
      <4> HIDE DEF f
      <4> QED BY <4>1, <4>2, <3>1
    <3> HIDE DEF f
    <3>3. CASE at[1] = 1
      <4>1. /\ at[2] \in 1 .. Len(batch) - 1 /\ from_engine'[at[1]][at[2]] = batch[at[2] + 1]
            /\ at[2] + 1 \in DOMAIN batch /\ at[2] + 1 # 1 /\ at[2] + 1 \in Nat
        <5>1. at[2] \in DOMAIN Tail(batch) /\ from_engine'[at[1]] = Tail(batch)
          BY <3>1, <3>3, <2>1
        <5>2. at[2] \in 1 .. Len(batch) - 1 /\ Tail(batch)[at[2]] = batch[at[2] + 1]
          BY <5>1, <2>2
        <5>3. Len(batch) \in Nat /\ DOMAIN batch = 1 .. Len(batch)
          BY <1>1
        <5> DEFINE l == Len(batch)
                   j == at[2]
        <5>4. j \in 1 .. l - 1 /\ l \in Nat
          BY <5>2, <5>3
        <5> HIDE DEF l, j
        <5>5. j + 1 \in 1 .. l /\ j + 1 # 1 /\ j + 1 \in Nat
          BY <5>4
        <5>6. from_engine'[at[1]][at[2]] = batch[at[2] + 1]
          BY <5>1, <5>2
        <5> QED BY <5>2, <5>3, <5>5, <5>6 DEF l, j
      <4>2. f[at] = <<1, at[2] + 1>> /\ 1 \in DOMAIN from_engine
        BY <3>2, <3>3, <1>1
      <4>3. f[at] \in Under(ch)
        BY <4>1, <4>2, <3>1, <1>1 DEF Under
      <4>4. OutputAt(at)' = OutputAt(f[at])
        BY <4>1, <4>2, <1>1 DEF OutputAt
      <4> QED BY <3>1, <3>2, <4>1, <4>2, <4>3, <4>4
    <3>4. CASE at[1] # 1
      <4>1. f[at] = at /\ from_engine'[at[1]] = from_engine[at[1]]
        BY <3>1, <3>2, <3>4, <2>1
      <4>2. f[at] \in Under(ch) /\ OutputAt(at)' = OutputAt(f[at])
        BY <4>1, <3>1 DEF Under, OutputAt
      <4> QED BY <3>1, <3>2, <3>4, <4>1, <4>2
    <3> QED BY <3>3, <3>4
  <2>5. ASSUME NEW ch, NEW at \in Under(ch), at # <<1, 1>>
        PROVE  \E to \in Under(ch)' : f[to] = at
    <3>1. /\ at[1] \in DOMAIN from_engine /\ at[2] \in Nat /\ at = <<at[1], at[2]>>
          /\ at[2] \in DOMAIN from_engine[at[1]] /\ from_engine[at[1]][at[2]].child = ch
      BY DEF Under
    <3>2. at[1] \in Nat
      BY <3>1, <1>1
    <3>3. CASE at[1] = 1
      <4> DEFINE to == <<1, at[2] - 1>>
      <4>1. at[2] # 1 /\ at[2] \in 1 .. Len(batch)
        BY <3>1, <3>3, <2>5, <1>1
      <4>2. at[2] - 1 \in 1 .. Len(batch) - 1 /\ (at[2] - 1) + 1 = at[2] /\ at[2] - 1 \in Nat
        BY <4>1, <1>1
      <4>3. Tail(batch)[at[2] - 1] = batch[at[2]]
        BY <4>2, <2>2
      <4>4. to \in Under(ch)'
        BY <4>2, <4>3, <3>1, <3>3, <2>1, <2>2, <1>1 DEF Under
      <4>5. f[to] = at
        BY <4>2, <3>1, <3>3, <2>3
      <4> QED BY <4>4, <4>5
    <3>4. CASE at[1] # 1
      <4>1. f[at] = at
        BY <3>1, <3>2, <3>4, <2>3
      <4>2. at \in Under(ch)'
        BY <3>1, <3>4, <2>1 DEF Under
      <4> QED BY <4>1, <4>2
    <3> QED BY <3>3, <3>4
  <2>6. ASSUME NEW ch, NEW at \in Under(ch)', NEW to \in Under(ch)'
        PROVE  /\ at[1] <= to[1] <=> f[at][1] <= f[to][1]
               /\ f[at] = f[to] => at = to
    <3>1. /\ at[1] \in Nat /\ at[2] \in Nat /\ at = <<at[1], at[2]>>
          /\ f[at] = IF at[1] = 1 THEN <<1, at[2] + 1>> ELSE <<at[1], at[2]>>
          /\ to[1] \in Nat /\ to[2] \in Nat /\ to = <<to[1], to[2]>>
          /\ f[to] = IF to[1] = 1 THEN <<1, to[2] + 1>> ELSE <<to[1], to[2]>>
      BY <2>4
    <3> HIDE DEF f
    <3>2. f[at][1] = at[1] /\ f[to][1] = to[1]
      BY <3>1
    <3>3. f[at] = f[to] => at[1] = to[1] /\ at[2] = to[2]
      BY <3>1
    <3> QED BY <3>1, <3>2, <3>3
  <2> HIDE DEF f
  <2> QED BY <2>4, <2>5, <2>6 DEF Renumbered
<1> QED BY <1>3, <1>4

\* The next output of an unfinished request has the next token.
LEMMA NextToken ==
  ASSUME VariableTypes, OPType(op), FlowInv, NEW ch \in op.request_states, <<1, 1>> \in Under(ch)
  PROVE  OutputAt(<<1, 1>>).token = Len(op.output_token_ids[ch]) + 1
<1> DEFINE n == Len(op.output_token_ids[ch])
           one == <<1, 1>>
           t == OutputAt(one).token
<1>1. n \in Nat
  <2>1. op.output_token_ids[ch] \in Seq(Nat)
    BY DEF OPType, OutputProcessors
  <2> QED BY <2>1, LenProperties
<1>2. t \in Nat
  BY UnderType DEF Outputs
<1>3. /\ t > n
      /\ \A k \in n + 1 .. t : \E to \in Under(ch) : to[1] <= one[1] /\ OutputAt(to).token = k
      /\ \A to \in Under(ch) : one[1] = to[1] => one = to
  BY DEF FlowInv
<1>4. n + 1 \in n + 1 .. t
  BY <1>1, <1>2, <1>3
<1>5. PICK to \in Under(ch) : to[1] <= 1 /\ OutputAt(to).token = n + 1
  BY <1>3, <1>4
<1>6. to[1] = 1
  <2>1. to[1] \in 1 .. Len(from_engine)
    BY UnderType
  <2>2. Len(from_engine) \in Nat
    BY DEF VariableTypes
  <2> QED BY <2>1, <2>2, <1>5
<1>7. to = one
  BY <1>3, <1>6
<1> QED BY <1>5, <1>7

\* Outputs stay in their order when the first is taken, and taken into account.
LEMMA FlowTaken ==
  ASSUME VariableTypes, OPType(op), FlowInv, from_engine # <<>>,
         from_engine' = IF Len(Head(from_engine)) <= 1 THEN Tail(from_engine)
                        ELSE [from_engine EXCEPT ![1] = Tail(Head(from_engine))],
         UNCHANGED <<engine, engine_alive>>,
         op'.request_states \subseteq op.request_states,
         \A ch \in op'.request_states :
           Len(op'.output_token_ids[ch]) =
             Len(op.output_token_ids[ch]) + (IF <<1, 1>> \in Under(ch) THEN 1 ELSE 0)
  PROVE  FlowInv'
<1>1. PICK f : Renumbered(f)
  BY OutputTaken
<1>2. \A ch : \A at \in Under(ch) : at[1] \in Nat \ {0} /\ OutputAt(at).token \in Nat
  <2> SUFFICES ASSUME NEW ch, NEW at \in Under(ch)
               PROVE  at[1] \in Nat \ {0} /\ OutputAt(at).token \in Nat
    OBVIOUS
  <2>1. at[1] \in 1 .. Len(from_engine) /\ OutputAt(at) \in Outputs
    BY UnderType
  <2>2. Len(from_engine) \in Nat
    BY DEF VariableTypes
  <2> QED BY <2>1, <2>2 DEF Outputs
<1> SUFFICES ASSUME NEW ch \in op'.request_states
             PROVE  LET n == Len(op'.output_token_ids[ch])
                    IN  /\ \A at \in Under(ch)' :
                             /\ OutputAt(at)'.token > n
                             /\ \A k \in n + 1 .. OutputAt(at)'.token :
                                  \E to \in Under(ch)' : to[1] <= at[1] /\ OutputAt(to)'.token = k
                             /\ \A to \in Under(ch)' :
                                  /\ at[1] < to[1] => OutputAt(at)'.token < OutputAt(to)'.token
                                  /\ at[1] = to[1] => at = to
                             /\ engine_alive => OutputAt(at)'.token <= engine[ch].tokens
                             /\ engine_alive /\ OutputAt(at)'.reason # Unfinished =>
                                  engine[ch].state = "gone"
                             /\ OutputAt(at)'.reason = "length" =>
                                  OutputAt(at)'.token = MaxTokens[CallOf(ch)]
                        /\ engine_alive =>
                             /\ n <= engine[ch].tokens
                             /\ \A k \in n + 1 .. engine[ch].tokens :
                                  \E at \in Under(ch)' : OutputAt(at)'.token = k
  BY DEF FlowInv
<1> DEFINE n == Len(op.output_token_ids[ch])
           n2 == Len(op'.output_token_ids[ch])
           Tok(at) == OutputAt(at).token
<1>3. ch \in op.request_states /\ ch \in Child
  BY DEF OPType, OutputProcessors
<1>4. n \in Nat
  <2>1. op.output_token_ids[ch] \in Seq(Nat)
    BY <1>3 DEF OPType, OutputProcessors
  <2> QED BY <2>1, LenProperties
<1>5. n2 = n + (IF <<1, 1>> \in Under(ch) THEN 1 ELSE 0)
  OBVIOUS
<1>50. n2 \in Nat /\ n <= n2
  <2> HIDE DEF n, n2
  <2>1. CASE <<1, 1>> \in Under(ch)
    BY <2>1, <1>4, <1>5
  <2>2. CASE <<1, 1>> \notin Under(ch)
    BY <2>2, <1>4, <1>5
  <2> QED BY <2>1, <2>2
<1>6. /\ \A at \in Under(ch) :
           /\ Tok(at) > n
           /\ \A k \in n + 1 .. Tok(at) : \E to \in Under(ch) : to[1] <= at[1] /\ Tok(to) = k
           /\ \A to \in Under(ch) :
                /\ at[1] < to[1] => Tok(at) < Tok(to)
                /\ at[1] = to[1] => at = to
           /\ engine_alive => Tok(at) <= engine[ch].tokens
           /\ engine_alive /\ OutputAt(at).reason # Unfinished => engine[ch].state = "gone"
           /\ OutputAt(at).reason = "length" => Tok(at) = MaxTokens[CallOf(ch)]
      /\ engine_alive =>
           /\ n <= engine[ch].tokens
           /\ \A k \in n + 1 .. engine[ch].tokens : \E at \in Under(ch) : Tok(at) = k
  BY <1>3 DEF FlowInv
<1>7. <<1, 1>> \in Under(ch) => Tok(<<1, 1>>) = n + 1
  BY <1>3, NextToken
<1>8. \A at \in Under(ch) : at # <<1, 1>> => Tok(at) > n2
  <2>1. CASE <<1, 1>> \notin Under(ch)
    BY <2>1, <1>4, <1>5, <1>6
  <2>2. CASE <<1, 1>> \in Under(ch)
    <3> SUFFICES ASSUME NEW at \in Under(ch), at # <<1, 1>> PROVE Tok(at) > n2
      OBVIOUS
    <3>1. \A to \in Under(ch) : (<<1, 1>>[1] < to[1] => Tok(<<1, 1>>) < Tok(to))
                                /\ (<<1, 1>>[1] = to[1] => <<1, 1>> = to)
      BY <2>2, <1>6
    <3>2. at[1] # 1 /\ at[1] \in Nat \ {0}
      BY <3>1, <1>2
    <3>3. Tok(<<1, 1>>) < Tok(at)
      BY <3>1, <3>2
    <3> HIDE DEF Tok
    <3> QED BY <3>3, <2>2, <1>5, <1>7
  <2> QED BY <2>1, <2>2
<1>9. \A to \in Under(ch) : Tok(to) > n2 => to # <<1, 1>>
  <2> SUFFICES ASSUME <<1, 1>> \in Under(ch), Tok(<<1, 1>>) > n2 PROVE FALSE
    OBVIOUS
  <2> HIDE DEF Tok
  <2> QED BY <1>4, <1>5, <1>7
<1>10. /\ \A at \in Under(ch)' : /\ f[at] \in Under(ch) /\ f[at] # <<1, 1>>
                                 /\ OutputAt(at)' = OutputAt(f[at])
                                 /\ at[1] \in Nat
       /\ \A at \in Under(ch) : at # <<1, 1>> => \E to \in Under(ch)' : f[to] = at
       /\ \A at, to \in Under(ch)' : /\ at[1] <= to[1] <=> f[at][1] <= f[to][1]
                                     /\ f[at] = f[to] => at = to
  BY <1>1 DEF Renumbered
<1>11. ASSUME NEW at \in Under(ch)'
       PROVE  /\ OutputAt(at)'.token > n2
              /\ \A k \in n2 + 1 .. OutputAt(at)'.token :
                   \E to \in Under(ch)' : to[1] <= at[1] /\ OutputAt(to)'.token = k
              /\ \A to \in Under(ch)' :
                   /\ at[1] < to[1] => OutputAt(at)'.token < OutputAt(to)'.token
                   /\ at[1] = to[1] => at = to
              /\ engine_alive => OutputAt(at)'.token <= engine[ch].tokens
              /\ engine_alive /\ OutputAt(at)'.reason # Unfinished => engine[ch].state = "gone"
              /\ OutputAt(at)'.reason = "length" => OutputAt(at)'.token = MaxTokens[CallOf(ch)]
  <2>1. f[at] \in Under(ch) /\ f[at] # <<1, 1>> /\ OutputAt(at)' = OutputAt(f[at])
    BY <1>10
  <2>2. OutputAt(at)'.token = Tok(f[at])
    BY <2>1
  <2>3. Tok(f[at]) > n2
    BY <2>1, <1>8
  <2>4. ASSUME NEW k \in n2 + 1 .. Tok(f[at])
        PROVE  \E to \in Under(ch)' : to[1] <= at[1] /\ OutputAt(to)'.token = k
    <3>1. k \in n + 1 .. Tok(f[at]) /\ k > n2
      <4>1. Tok(f[at]) \in Nat
        BY <2>1, <1>2
      <4> HIDE DEF Tok, n, n2
      <4> QED BY <4>1, <1>4, <1>50
    <3>2. PICK to \in Under(ch) : to[1] <= f[at][1] /\ Tok(to) = k
      BY <3>1, <2>1, <1>6
    <3>3. to # <<1, 1>>
      BY <3>1, <3>2, <1>9
    <3>4. PICK from \in Under(ch)' : f[from] = to
      BY <3>3, <1>10
    <3>5. from[1] <= at[1] /\ OutputAt(from)' = OutputAt(to)
      BY <3>2, <3>4, <1>10
    <3> QED BY <3>2, <3>5
  <2>5. ASSUME NEW to \in Under(ch)'
        PROVE  /\ at[1] < to[1] => OutputAt(at)'.token < OutputAt(to)'.token
               /\ at[1] = to[1] => at = to
    <3>1. f[to] \in Under(ch) /\ OutputAt(to)'.token = Tok(f[to])
      BY <1>10
    <3>2. /\ f[at][1] < f[to][1] => Tok(f[at]) < Tok(f[to])
          /\ f[at][1] = f[to][1] => f[at] = f[to]
      BY <2>1, <3>1, <1>6
    <3>3. /\ at[1] <= to[1] <=> f[at][1] <= f[to][1]
          /\ to[1] <= at[1] <=> f[to][1] <= f[at][1]
          /\ f[at] = f[to] => at = to
      BY <1>10
    <3>4. /\ at[1] \in Nat /\ to[1] \in Nat /\ f[at][1] \in Nat /\ f[to][1] \in Nat
      BY <2>1, <3>1, <1>2, <1>10
    <3>5. /\ at[1] < to[1] => f[at][1] < f[to][1]
          /\ at[1] = to[1] => f[at][1] = f[to][1]
      BY <3>3, <3>4
    <3> HIDE DEF Tok
    <3> QED BY <2>2, <3>1, <3>2, <3>3, <3>5
  <2>6. /\ engine_alive => Tok(f[at]) <= engine[ch].tokens
        /\ engine_alive /\ OutputAt(f[at]).reason # Unfinished => engine[ch].state = "gone"
        /\ OutputAt(f[at]).reason = "length" => Tok(f[at]) = MaxTokens[CallOf(ch)]
    BY <2>1, <1>6
  <2> HIDE DEF Tok
  <2> QED BY <2>1, <2>2, <2>3, <2>4, <2>5, <2>6
<1>12. ASSUME engine_alive, NEW k \in n2 + 1 .. engine[ch].tokens
       PROVE  \E at \in Under(ch)' : OutputAt(at)'.token = k
  <2>1. k \in n + 1 .. engine[ch].tokens /\ k > n2
    <3>1. engine[ch].tokens \in Nat
      BY <1>3 DEF VariableTypes
    <3> HIDE DEF n, n2
    <3> QED BY <3>1, <1>4, <1>50
  <2>2. PICK to \in Under(ch) : Tok(to) = k
    BY <2>1, <1>6, <1>12
  <2>3. to # <<1, 1>>
    BY <2>1, <2>2, <1>9
  <2>4. PICK from \in Under(ch)' : f[from] = to
    BY <2>3, <1>10
  <2> QED BY <2>2, <2>4, <1>10
<1>13. engine_alive => n2 <= engine[ch].tokens
  <2>1. CASE <<1, 1>> \in Under(ch)
    <3>1. engine_alive => Tok(<<1, 1>>) <= engine[ch].tokens
      BY <2>1, <1>6
    <3> HIDE DEF Tok, n, n2
    <3> QED BY <3>1, <2>1, <1>4, <1>5, <1>7
  <2>2. CASE <<1, 1>> \notin Under(ch)
    <3> HIDE DEF n, n2
    <3> QED BY <2>2, <1>4, <1>5, <1>6
  <2> QED BY <2>1, <2>2
<1> QED BY <1>11, <1>12, <1>13

\* What an output of an unfinished request makes of the output processor.
Processed(w, o, reason) ==
  LET ch == o.child
      c == CallOf(ch)
  IN  /\ OPType(w) /\ TokensInOrder(w)
      /\ w.request_states = After(op.request_states, ch, reason)
      /\ \A x \in ExternalIds : w.external_req_ids[x] =
           IF reason # Unfinished /\ x = ExternalId[c] THEN op.external_req_ids[x] \ {ch}
           ELSE op.external_req_ids[x]
      /\ w.parent_requests =
           IF reason # Unfinished /\ w.child_requests[c] = {} THEN op.parent_requests \ {c}
           ELSE op.parent_requests
      /\ \A x \in Child : Len(w.output_token_ids[x]) =
           Len(op.output_token_ids[x]) + (IF x = ch THEN 1 ELSE 0)
      /\ \A x \in Child : x # ch =>
           /\ w.output_token_ids[x] = op.output_token_ids[x]
           /\ w.sent_tokens_offset[x] = op.sent_tokens_offset[x]
      /\ \A d \in Calls : d # c =>
           /\ w.queue[d] = op.queue[d]
           /\ w.child_requests[d] = op.child_requests[d]
           /\ w.output_aggregator[d] = op.output_aggregator[d]

LEMMA OutputProcessed ==
  ASSUME VariableTypes, OPType(op), TokensInOrder(op),
         Accounted(op, op.request_states, Live, aborted_ids, received, ending),
         NEW o \in Outputs, NEW stop_string, o.child \in op.request_states,
         o.token = Len(op.output_token_ids[o.child]) + 1,
         o.reason = "length" => o.token = MaxTokens[CallOf(o.child)],
         NEW reason, reason = IF stop_string THEN "stop" ELSE o.reason,
         NEW w, w = ProcessedOutput(op, o, stop_string)
  PROVE  /\ Processed(w, o, reason)
         /\ Accounted(w, w.request_states, Live, aborted_ids, received, ending)
<1> DEFINE ch == o.child
           c == CallOf(ch)
           U == op.request_states
           X == ExternalId[c]
           old == op.output_token_ids[ch]
           new == <<o.token>>
           all == Append(old, o.token)
           ids == [op.output_token_ids EXCEPT ![ch] = Append(@, o.token)]
           m == [op EXCEPT !.output_token_ids[ch] = Append(@, o.token)]
           put == WithOutput(m, ch, new, reason)
<1>1. /\ op \in OutputProcessors /\ OwnInv(op)
      /\ U \in SUBSET Child /\ ch \in Child /\ c \in Calls /\ X \in ExternalIds
      /\ o.token \in Nat
      /\ reason \in {"stop", "length", Unfinished}
      /\ received \in [Child -> Seq(Nat)]
  <2>1. op \in OutputProcessors /\ OwnInv(op) /\ received \in [Child -> Seq(Nat)]
    BY DEF OPType, VariableTypes
  <2>2. U \in SUBSET Child /\ ch \in Child
    BY <2>1 DEF OutputProcessors
  <2>3. c \in Calls /\ X \in ExternalIds
    BY <2>2, Samples
  <2>4. o.token \in Nat /\ o.reason \in {"length", Unfinished}
    BY DEF Outputs
  <2> QED BY <2>1, <2>2, <2>3, <2>4
<1>2. /\ old \in Seq(Nat) /\ new \in Seq(Nat) /\ all \in Seq(Nat)
      /\ all = old \o new /\ Len(all) = Len(old) + 1 /\ Len(old) \in Nat
  <2>1. old \in Seq(Nat) /\ new \in Seq(Nat)
    BY <1>1 DEF OutputProcessors
  <2> DEFINE s == old
             e == o.token
  <2>2. s \in Seq(Nat) /\ e \in Nat
    BY <1>1, <2>1
  <2> HIDE DEF s, e
  <2>3. Append(s, e) = s \o <<e>> /\ Append(s, e) \in Seq(Nat) /\ Len(Append(s, e)) = Len(s) + 1
        /\ Len(s) \in Nat
    BY <2>2, AppendIsConcat, AppendProperties, LenProperties
  <2> QED BY <2>1, <2>3 DEF s, e
<1> HIDE DEF all
<1>3. /\ ids \in [Child -> Seq(Nat)]
      /\ \A x \in Child : ids[x] = IF x = ch THEN all ELSE op.output_token_ids[x]
  <2>1. op.output_token_ids \in [Child -> Seq(Nat)]
    BY <1>1 DEF OutputProcessors
  <2>2. ids = [op.output_token_ids EXCEPT ![ch] = all]
    BY DEF all
  <2> HIDE DEF ids
  <2> QED BY <2>1, <2>2, <1>1, <1>2
<1>4. /\ m \in OutputProcessors
      /\ m.request_states = U
      /\ m.external_req_ids = op.external_req_ids
      /\ m.parent_requests = op.parent_requests
      /\ m.child_requests = op.child_requests
      /\ m.output_aggregator = op.output_aggregator
      /\ m.output_kind = op.output_kind
      /\ m.output_token_ids = ids
      /\ m.sent_tokens_offset = op.sent_tokens_offset
      /\ m.queue = op.queue
  <2>1. m = [op EXCEPT !.output_token_ids = ids]
    BY <1>1 DEF OutputProcessors
  <2> HIDE DEF ids, m
  <2> QED BY <2>1, <1>1, <1>3 DEF OutputProcessors
<1>5. w = IF reason # Unfinished THEN Finished(put, ch) ELSE put
  BY DEF ProcessedOutput
<1> HIDE DEF ids, m
<1>6. OwnInv(m)
  <2>1. ASSUME NEW x \in Child PROVE m.sent_tokens_offset[x] <= Len(m.output_token_ids[x])
    <3>1. op.sent_tokens_offset[x] <= Len(op.output_token_ids[x])
          /\ op.sent_tokens_offset[x] \in Nat
      BY <1>1 DEF OwnInv, OutputProcessors
    <3>2. CASE x = ch
      <4>1. m.output_token_ids[x] = all /\ op.output_token_ids[x] = old
        BY <3>2, <1>3, <1>4
      <4>2. Len(all) = Len(old) + 1 /\ Len(old) \in Nat
        BY <1>2
      <4> HIDE DEF old
      <4> QED BY <4>1, <4>2, <3>1, <1>4
    <3>3. CASE x # ch
      BY <3>1, <3>3, <1>3, <1>4
    <3> QED BY <3>2, <3>3
  <2> QED BY <2>1, <1>1, <1>4 DEF OwnInv
<1>7. Detokenized(op, m, ch, new)
  BY <1>2, <1>3, <1>4, <1>6 DEF Detokenized, OPType
<1>8. reason = "length" => Len(m.output_token_ids[ch]) = MaxTokens[CallOf(ch)]
  <2>1. reason = "length" => o.reason = "length"
    OBVIOUS
  <2> QED BY <2>1, <1>1, <1>2, <1>3, <1>4
<1>9. OneOutput(op, m, put, ch)
      /\ Accounted(put, After(U, ch, reason), Live, aborted_ids, received, ending)
  <2> DEFINE p == op
             live == Live
             abortable == aborted_ids
             got == received
             end == ending
  <2>1. /\ OPType(p) /\ ch \in Child /\ new \in Seq(Nat)
        /\ reason \in Reasons \union {Unfinished} /\ reason # "abort"
        /\ U \in SUBSET Child /\ ch \in U /\ got \in [Child -> Seq(Nat)]
        /\ Detokenized(p, m, ch, new)
        /\ Accounted(p, U, live, abortable, got, end)
    BY <1>1, <1>2, <1>7 DEF Reasons, Unfinished
  <2> HIDE DEF p, live, abortable, got, end, U, ch, new, put
  <2>2. put = WithOutput(m, ch, new, reason)
    BY DEF put
  <2>3. OneOutput(p, m, put, ch) /\ Accounted(put, After(U, ch, reason), live, abortable, got, end)
    BY <2>1, <2>2, <1>8, OutputAccounts
  <2> QED BY <2>3 DEF p, live, abortable, got, end
<1> HIDE DEF put
<1>10. /\ put \in OutputProcessors /\ OwnInv(put)
       /\ put.request_states = U
       /\ put.external_req_ids = op.external_req_ids
       /\ put.parent_requests = op.parent_requests
       /\ put.output_token_ids = ids
       /\ \A x \in Child : x # ch => put.sent_tokens_offset[x] = op.sent_tokens_offset[x]
       /\ \A d \in Calls : d # c =>
            /\ put.queue[d] = op.queue[d]
            /\ put.child_requests[d] = op.child_requests[d]
            /\ put.output_aggregator[d] = op.output_aggregator[d]
  BY <1>4, <1>9 DEF OneOutput, Keeps, OPType
<1> DEFINE finished == reason # Unfinished
           external == IF finished THEN [op.external_req_ids EXCEPT ![X] = @ \ {ch}]
                       ELSE op.external_req_ids
           parents == IF finished /\ put.child_requests[c] = {} THEN op.parent_requests \ {c}
                      ELSE op.parent_requests
<1>11. /\ external \in [ExternalIds -> SUBSET Child]
       /\ \A x \in ExternalIds : external[x] =
            IF finished /\ x = X THEN op.external_req_ids[x] \ {ch} ELSE op.external_req_ids[x]
       /\ parents \in SUBSET Calls /\ parents \subseteq op.parent_requests
  <2>1. op.external_req_ids \in [ExternalIds -> SUBSET Child] /\ op.parent_requests \in SUBSET Calls
    BY <1>1 DEF OutputProcessors
  <2> QED BY <2>1, <1>1
<1>12. /\ w.request_states = After(U, ch, reason)
       /\ w.external_req_ids = external
       /\ w.parent_requests = parents
       /\ w.child_requests = put.child_requests
       /\ w.output_aggregator = put.output_aggregator
       /\ w.output_kind = put.output_kind
       /\ w.output_token_ids = put.output_token_ids
       /\ w.sent_tokens_offset = put.sent_tokens_offset
       /\ w.queue = put.queue
       /\ w \in OutputProcessors
  <2>1. CASE finished
    <3>1. w = Finished(put, ch)
      BY <2>1, <1>5
    <3>2. w = [put EXCEPT !.request_states = U \ {ch}, !.external_req_ids = external,
                          !.parent_requests = parents]
      <4>1. w = [put EXCEPT !.request_states = @ \ {ch},
                            !.external_req_ids[X] = @ \ {ch},
                            !.parent_requests = IF put.child_requests[c] = {} THEN @ \ {c} ELSE @]
        BY <3>1 DEF Finished
      <4> HIDE DEF ch, c, X, U
      <4> QED BY <4>1, <2>1, <1>10 DEF OutputProcessors, U
    <3>3. U \ {ch} \in SUBSET Child /\ After(U, ch, reason) = U \ {ch}
      BY <2>1, <1>1 DEF After
    <3> HIDE DEF ch, c, X, U, external, parents
    <3> QED BY <3>2, <3>3, <1>10, <1>11 DEF OutputProcessors
  <2>2. CASE ~finished
    BY <2>2, <1>5, <1>10 DEF After
  <2> QED BY <2>1, <2>2
<1>13. Accounted(w, w.request_states, Live, aborted_ids, received, ending)
  <2> DEFINE live == Live
             abortable == aborted_ids
             got == received
             end == ending
             V == After(U, ch, reason)
  <2>1. Accounted(put, V, live, abortable, got, end)
    BY <1>9
  <2> HIDE DEF live, abortable, got, end, V
  <2>2. Accounted(w, V, live, abortable, got, end)
    BY <2>1, <1>12, SameAccounts
  <2> QED BY <2>2, <1>12 DEF live, abortable, got, end, V
<1>14. OwnInv(w)
  BY <1>10, <1>11, <1>12 DEF OwnInv
<1>15. TokensInOrder(w)
  <2> SUFFICES ASSUME NEW x \in Child
               PROVE  Upto(w.output_token_ids[x], Len(w.output_token_ids[x]))
    BY DEF TokensInOrder
  <2>1. Upto(op.output_token_ids[x], Len(op.output_token_ids[x]))
    BY DEF TokensInOrder
  <2>2. CASE x = ch
    <3>1. w.output_token_ids[x] = all /\ Len(all) = Len(old) + 1 /\ Len(old) \in Nat
          /\ all \in Seq(Nat)
      BY <2>2, <1>2, <1>3, <1>10, <1>12
    <3>2. /\ \A i \in 1 .. Len(old) : all[i] = old[i]
          /\ all[Len(old) + 1] = o.token
          /\ DOMAIN all = 1 .. Len(old) + 1
      <4> DEFINE s == old
                 e == o.token
      <4>1. s \in Seq(Nat) /\ e \in Nat
        BY <1>1, <1>2
      <4> HIDE DEF s, e
      <4>2. \A i \in 1 .. Len(s) : Append(s, e)[i] = s[i]
        BY <4>1, AppendProperties
      <4>3. Append(s, e)[Len(s) + 1] = e
        BY <4>1, AppendProperties
      <4>4. DOMAIN Append(s, e) = 1 .. Len(s) + 1
        BY <4>1, AppendProperties, LenProperties
      <4> QED BY <4>2, <4>3, <4>4 DEF s, e, all
    <3>3. \A i \in 1 .. Len(old) : old[i] = i
      BY <2>1, <2>2 DEF Upto
    <3>4. o.token = Len(old) + 1
      OBVIOUS
    <3> DEFINE s == old
               l == Len(old)
    <3>5. /\ \A i \in 1 .. l : all[i] = i
          /\ all[l + 1] = l + 1
          /\ all \in Seq(Nat) /\ DOMAIN all = 1 .. l + 1 /\ l \in Nat /\ Len(all) = l + 1
      BY <3>1, <3>2, <3>3, <3>4
    <3> HIDE DEF l
    <3>6. \A i \in 1 .. l + 1 : all[i] = i
      BY <3>5
    <3>7. all = [i \in 1 .. Len(all) |-> i]
      <4>1. all = [i \in DOMAIN all |-> all[i]]
        BY <3>5
      <4> QED BY <4>1, <3>5, <3>6
    <3> QED BY <3>1, <3>7 DEF Upto
  <2>3. CASE x # ch
    BY <2>1, <2>3, <1>3, <1>10, <1>12
  <2> QED BY <2>2, <2>3
<1>16. \A x \in Child : Len(w.output_token_ids[x]) =
         Len(op.output_token_ids[x]) + (IF x = ch THEN 1 ELSE 0)
  <2> SUFFICES ASSUME NEW x \in Child
               PROVE  Len(w.output_token_ids[x]) =
                        Len(op.output_token_ids[x]) + (IF x = ch THEN 1 ELSE 0)
    OBVIOUS
  <2>1. CASE x = ch
    BY <2>1, <1>2, <1>3, <1>10, <1>12
  <2>2. CASE x # ch
    <3>1. w.output_token_ids[x] = op.output_token_ids[x] /\ op.output_token_ids[x] \in Seq(Nat)
      BY <2>2, <1>1, <1>3, <1>10, <1>12 DEF OutputProcessors
    <3>2. Len(op.output_token_ids[x]) \in Nat
      BY <3>1, LenProperties
    <3> QED BY <3>1, <3>2, <2>2
  <2> QED BY <2>1, <2>2
<1>17. \A x \in Child : x # ch =>
         /\ w.output_token_ids[x] = op.output_token_ids[x]
         /\ w.sent_tokens_offset[x] = op.sent_tokens_offset[x]
  BY <1>3, <1>10, <1>12
<1>18. Processed(w, o, reason)
  BY <1>10, <1>11, <1>12, <1>14, <1>15, <1>16, <1>17 DEF Processed, OPType
<1> QED BY <1>13, <1>18

\* One output of the batch at hand is processed, and the aborts it asks for are sent
\* with the last of the batch.
LEMMA HandleChunkHolds ==
  ASSUME FrontEndInv, NEW stop_string \in BOOLEAN, HandleChunk(stop_string)
  PROVE  FrontEndInv'
<1> DEFINE U == op.request_states
           batch == Head(from_engine)
           o == Head(batch)
           ch == o.child
           c == CallOf(ch)
           reason == IF stop_string THEN "stop" ELSE o.reason
           reqs == ReqsToAbort(op, o, stop_string)
           last == Len(batch) = 1
           chs == to_abort \union (IF last THEN reqs ELSE {})
<1>1. /\ VariableTypes
      /\ OPType(op) /\ op \in OutputProcessors /\ OwnInv(op)
      /\ TokensInOrder(op)
      /\ Accounted(op, U, Live, aborted_ids, received, ending)
      /\ FinishInv(op, U)
      /\ MapInv /\ CallInv /\ FlowInv /\ EngineInv
  BY DEF FrontEndInv, OPType, Accounted
<1>2. /\ from_engine # <<>> /\ batch # <<>>
      /\ op' = ProcessedOutput(op, o, stop_string)
      /\ from_engine' = IF last THEN Tail(from_engine) ELSE [from_engine EXCEPT ![1] = Tail(batch)]
      /\ to_abort' = IF last THEN {} ELSE reqs
      /\ SendAbort(chs)
      /\ UNCHANGED <<call, received, ending, handler, engine, engine_alive, engine_dead, aborted_ids>>
  BY DEF HandleChunk, callerVars, engineVars, Dead
<1>3. /\ from_engine \in Seq(Seq(Outputs)) /\ batch \in Seq(Outputs) /\ batch = from_engine[1]
      /\ 1 \in DOMAIN from_engine /\ 1 \in DOMAIN batch /\ o = batch[1] /\ o \in Outputs
      /\ Len(batch) \in Nat \ {0} /\ Tail(from_engine) \in Seq(Seq(Outputs))
      /\ Tail(batch) \in Seq(Outputs)
  <2>1. from_engine \in Seq(Seq(Outputs)) /\ from_engine # <<>>
    BY <1>1, <1>2 DEF VariableTypes
  <2>2. /\ batch \in Seq(Outputs) /\ batch = from_engine[1] /\ 1 \in DOMAIN from_engine
        /\ Tail(from_engine) \in Seq(Seq(Outputs))
    BY <2>1
  <2> HIDE DEF batch
  <2>3. /\ 1 \in DOMAIN batch /\ Head(batch) = batch[1] /\ Head(batch) \in Outputs
        /\ Len(batch) \in Nat \ {0} /\ Tail(batch) \in Seq(Outputs)
    BY <2>2, <1>2
  <2> QED BY <2>1, <2>2, <2>3
<1>4. \A x : <<1, 1>> \in Under(x) <=> x = ch
  <2>1. <<1, 1>> \in (DOMAIN from_engine) \X Nat
    BY <1>3
  <2> QED BY <2>1, <1>3 DEF Under
<1>5. OutputAt(<<1, 1>>) = o
  BY <1>3 DEF OutputAt
<1>6. ch \in Child /\ c \in Calls /\ ch \in Children(c)
  BY <1>3, Samples DEF Outputs
<1>7. reqs = IF ch \in U /\ stop_string /\ o.reason = Unfinished THEN {ch} ELSE {}
  BY DEF ReqsToAbort
<1>8. from_engine' = IF Len(batch) <= 1 THEN Tail(from_engine)
                     ELSE [from_engine EXCEPT ![1] = Tail(batch)]
  <2> DEFINE l == Len(batch)
  <2>1. l \in Nat \ {0}
    BY <1>3
  <2> HIDE DEF l
  <2>2. l <= 1 <=> l = 1
    BY <2>1
  <2>3. last <=> Len(batch) <= 1
    BY <2>2 DEF l
  <2> HIDE DEF last, batch
  <2> QED BY <2>3, <1>2
<1>9. from_engine' \in Seq(Seq(Outputs))
  BY <1>2, <1>3
<1>10. ch \in U => Processed(op', o, reason)
         /\ Accounted(op', op'.request_states, Live, aborted_ids, received, ending)
  <2> SUFFICES ASSUME ch \in U
               PROVE  Processed(op', o, reason)
                        /\ Accounted(op', op'.request_states, Live, aborted_ids, received, ending)
    OBVIOUS
  <2>1. o.token = Len(op.output_token_ids[ch]) + 1
    BY <1>1, <1>4, <1>5, NextToken
  <2>2. o.reason = "length" => o.token = MaxTokens[CallOf(ch)]
    BY <1>1, <1>4, <1>5 DEF FlowInv
  <2> DEFINE out == o
             why == reason
             w == op'
  <2>3. /\ out \in Outputs /\ out.child \in op.request_states
        /\ out.token = Len(op.output_token_ids[out.child]) + 1
        /\ out.reason = "length" => out.token = MaxTokens[CallOf(out.child)]
        /\ why = IF stop_string THEN "stop" ELSE out.reason
        /\ w = ProcessedOutput(op, out, stop_string)
        /\ Accounted(op, op.request_states, Live, aborted_ids, received, ending)
    BY <2>1, <2>2, <1>1, <1>2, <1>3
  <2> HIDE DEF out, why, w
  <2>4. Processed(w, out, why) /\ Accounted(w, w.request_states, Live, aborted_ids, received, ending)
    BY <2>3, <1>1, OutputProcessed
  <2> QED BY <2>4 DEF out, why, w
<1>11. ch \notin U => op' = op
  BY <1>2 DEF ProcessedOutput
<1> HIDE DEF batch, o, chs, reqs, last
<1>12. OPType(op)' /\ TokensInOrder(op)'
  BY <1>1, <1>10, <1>11 DEF Processed
<1>13. Live' = Live
  BY <1>2 DEF Live
<1>14. Accounted(op, op.request_states, Live, aborted_ids, received, ending)'
  <2>1. Accounted(op', op'.request_states, Live, aborted_ids, received, ending)
    BY <1>1, <1>10, <1>11
  <2> QED BY <2>1, <1>2, <1>13
<1>15. op'.request_states = IF ch \in U /\ reason # Unfinished THEN U \ {ch} ELSE U
  BY <1>10, <1>11 DEF Processed, After
<1>16. FlowInv'
  <2>1. \A x \in op'.request_states : Len(op'.output_token_ids[x]) =
          Len(op.output_token_ids[x]) + (IF <<1, 1>> \in Under(x) THEN 1 ELSE 0)
    <3> SUFFICES ASSUME NEW x \in op'.request_states
                 PROVE  Len(op'.output_token_ids[x]) =
                          Len(op.output_token_ids[x]) + (IF x = ch THEN 1 ELSE 0)
      BY <1>4
    <3>1. x \in U /\ x \in Child
      BY <1>1, <1>15 DEF OutputProcessors
    <3>2. CASE ch \in U
      BY <3>1, <3>2, <1>10 DEF Processed
    <3>3. CASE ch \notin U
      <4>1. op.output_token_ids[x] \in Seq(Nat)
        BY <3>1, <1>1 DEF OutputProcessors
      <4>2. Len(op.output_token_ids[x]) \in Nat /\ x # ch
        BY <4>1, <3>1, <3>3, LenProperties
      <4> QED BY <4>2, <3>3, <1>11
    <3> QED BY <3>2, <3>3
  <2>2. op'.request_states \subseteq op.request_states
    BY <1>15
  <2>3. from_engine' = IF Len(Head(from_engine)) <= 1 THEN Tail(from_engine)
                       ELSE [from_engine EXCEPT ![1] = Tail(Head(from_engine))]
    BY <1>8 DEF batch
  <2> QED BY <2>1, <2>2, <2>3, <1>1, <1>2, FlowTaken
<1>17. reqs \subseteq U /\ U \subseteq Child
  BY <1>1, <1>7 DEF OutputProcessors
<1>18. EngineInv' /\ to_engine' \in Seq(Messages)
  <2>1. chs \in SUBSET Child
    BY <1>1, <1>17 DEF chs, VariableTypes
  <2>2. \A x : Under(x) = {} => Under(x)' = {}
    <3>1. from_engine' = IF Len(Head(from_engine)) <= 1 THEN Tail(from_engine)
                         ELSE [from_engine EXCEPT ![1] = Tail(Head(from_engine))]
      BY <1>8 DEF batch
    <3>2. PICK f : Renumbered(f)
      BY <3>1, <1>1, <1>2, OutputTaken
    <3>3. \A x : \A at \in Under(x)' : f[at] \in Under(x)
      BY <3>2 DEF Renumbered
    <3> QED BY <3>3
  <2>3. \A x \in Child : call[CallOf(x)]' = "new" =>
           call[CallOf(x)] = "new" /\ Under(x)' = {} /\ x \notin chs /\ x \notin to_abort'
    <3> SUFFICES ASSUME NEW x \in Child, call[CallOf(x)] = "new"
                 PROVE  Under(x)' = {} /\ x \notin chs /\ x \notin to_abort'
      BY <1>2
    <3>1. Under(x) = {} /\ x \notin to_abort /\ x \notin U
      BY <1>1 DEF EngineInv, CallInv
    <3> QED BY <3>1, <2>2, <1>2, <1>17 DEF chs
  <2>4. \A x \in Child : x \in op.request_states \/ x \in to_abort =>
           \/ x \in op.request_states' \/ x \in to_abort' \/ x \in chs
           \/ engine_alive => engine[x].state = "gone"
    <3> SUFFICES ASSUME NEW x \in Child, x \in U \/ x \in to_abort,
                        x \notin op'.request_states, x \notin to_abort', x \notin chs
                 PROVE  engine_alive => engine[x].state = "gone"
      OBVIOUS
    <3>1. x \notin to_abort /\ x \notin reqs
      BY <1>2 DEF chs
    <3>2. x = ch /\ ch \in U /\ reason # Unfinished
      BY <3>1, <1>15
    <3>3. o.reason # Unfinished
      BY <3>1, <3>2, <1>7
    <3>4. ASSUME engine_alive PROVE engine[x].state = "gone"
      <4>1. <<1, 1>> \in Under(ch) /\ OutputAt(<<1, 1>>).reason # Unfinished
        BY <3>3, <1>4, <1>5
      <4> QED BY <4>1, <3>2, <3>4, <1>1 DEF FlowInv
    <3> QED BY <3>4
  <2> QED BY <2>1, <2>3, <2>4, <1>1, <1>2, AbortsSent
<1>19. VariableTypes'
  <2>1. to_abort' \subseteq Child
    BY <1>2, <1>17
  <2> QED BY <2>1, <1>1, <1>2, <1>9, <1>18 DEF VariableTypes
<1>20. CASE ch \notin U
  <2>1. MapInv' /\ CallInv'
    BY <1>20, <1>1, <1>2, <1>11 DEF MapInv, CallInv
  <2> QED BY <2>1, <1>12, <1>14, <1>16, <1>18, <1>19 DEF FrontEndInv
<1>21. CASE ch \in U
  <2> HIDE DEF reason, U
  <2>1. /\ \A x \in ExternalIds : op'.external_req_ids[x] =
             IF reason # Unfinished /\ x = ExternalId[c] THEN op.external_req_ids[x] \ {ch}
             ELSE op.external_req_ids[x]
        /\ op'.parent_requests =
             IF reason # Unfinished /\ op'.child_requests[c] = {} THEN op.parent_requests \ {c}
             ELSE op.parent_requests
        /\ \A x \in Child : x # ch =>
             /\ op'.output_token_ids[x] = op.output_token_ids[x]
             /\ op'.sent_tokens_offset[x] = op.sent_tokens_offset[x]
        /\ \A d \in Calls : d # c =>
             /\ op'.queue[d] = op.queue[d]
             /\ op'.child_requests[d] = op.child_requests[d]
             /\ op'.output_aggregator[d] = op.output_aggregator[d]
    BY <1>10, <1>21 DEF Processed
  <2>2. MapInv'
    <3>1. \A x \in ExternalIds : op'.external_req_ids[x] =
            {y \in op'.request_states : ExternalId[CallOf(y)] = x}
      <4>1. \A x \in ExternalIds : op.external_req_ids[x] = {y \in U : ExternalId[CallOf(y)] = x}
        BY <1>1 DEF MapInv, U
      <4>2. CASE reason = Unfinished
        BY <4>1, <4>2, <2>1, <1>15
      <4>3. CASE reason # Unfinished
        <5>1. op'.request_states = U \ {ch}
          BY <4>3, <1>15, <1>21
        <5> SUFFICES ASSUME NEW x \in ExternalIds
                     PROVE  op'.external_req_ids[x] =
                              {y \in op'.request_states : ExternalId[CallOf(y)] = x}
          OBVIOUS
        <5>2. op'.external_req_ids[x] = IF x = ExternalId[c] THEN op.external_req_ids[x] \ {ch}
                                        ELSE op.external_req_ids[x]
          BY <4>3, <2>1
        <5> HIDE DEF ch
        <5> QED BY <4>1, <5>1, <5>2
      <4> QED BY <4>2, <4>3
    <3>2. ASSUME NEW d \in Calls, HasParent(d)
          PROVE  /\ op'.child_requests[d] # {} => d \in op'.parent_requests
                 /\ d \in op'.parent_requests /\ op'.child_requests[d] = {} =>
                      ExternalId[d] \in aborted_ids'
      <4>1. CASE d # c
        <5>1. op'.child_requests[d] = op.child_requests[d]
              /\ (d \in op'.parent_requests <=> d \in op.parent_requests)
          BY <4>1, <3>2, <2>1
        <5> QED BY <5>1, <3>2, <1>1, <1>2 DEF MapInv
      <4>2. CASE d = c
        <5>1. op'.child_requests[c] = Children(c) \intersect op'.request_states
          BY <4>2, <3>2, <1>14 DEF Accounted, FinishInv
        <5>2. op.child_requests[c] = Children(c) \intersect U
          BY <4>2, <3>2, <1>1 DEF FinishInv, U
        <5>3. c \in op.parent_requests
          BY <5>2, <4>2, <3>2, <1>1, <1>6, <1>21 DEF MapInv
        <5>4. reason = Unfinished => op'.child_requests[c] # {}
          BY <5>1, <1>6, <1>15, <1>21
        <5> QED BY <5>3, <5>4, <4>2, <2>1
      <4> QED BY <4>1, <4>2
    <3> QED BY <3>1, <3>2 DEF MapInv
  <2>3. CallInv'
    <3> SUFFICES ASSUME NEW x \in Child
                 PROVE  /\ call[CallOf(x)] = "new" =>
                             /\ x \notin op'.request_states
                             /\ received[x] = <<>>
                             /\ op'.queue[CallOf(x)] = Nothing
                             /\ op'.output_aggregator[CallOf(x)] = <<>>
                             /\ op'.output_token_ids[x] = <<>>
                             /\ op'.sent_tokens_offset[x] = 0
                        /\ call[CallOf(x)] = "done" =>
                             x \notin op'.request_states /\ op'.queue[CallOf(x)] = Nothing
      BY <1>2 DEF CallInv
    <3>1. call[c] # "new" /\ call[c] # "done"
      BY <1>1, <1>6, <1>21 DEF CallInv, U
    <3>2. CASE CallOf(x) = c
      BY <3>1, <3>2
    <3>3. CASE CallOf(x) # c
      <4>1. x # ch /\ CallOf(x) \in Calls
        BY <3>3, Samples
      <4>2. x \in op'.request_states => x \in op.request_states
        BY <1>15 DEF U
      <4> QED BY <4>1, <4>2, <3>3, <2>1, <1>1 DEF CallInv
    <3> QED BY <3>2, <3>3
  <2> QED BY <2>2, <2>3, <1>12, <1>14, <1>16, <1>18, <1>19 DEF FrontEndInv
<1> QED BY <1>20, <1>21

\* The exception reaches every call that waits.
LEMMA HandleDeathHolds == FrontEndInv /\ HandleDeath => FrontEndInv'
<1> SUFFICES ASSUME FrontEndInv, HandleDeath PROVE FrontEndInv'
  OBVIOUS
<1> DEFINE U == op.request_states
           queue == [c \in Calls |-> IF Children(c) \intersect op.request_states # {} THEN Error
                                     ELSE op.queue[c]]
<1>1. /\ VariableTypes
      /\ OPType(op) /\ op \in OutputProcessors /\ OwnInv(op)
      /\ TokensInOrder(op)
      /\ FinishInv(op, U)
      /\ AccountInv(op, U, Live, aborted_ids, received, ending)
      /\ MapInv /\ CallInv /\ FlowInv /\ EngineInv
  BY DEF FrontEndInv, OPType, Accounted
<1>2. /\ from_engine # <<>> /\ Head(from_engine) = <<>>
      /\ from_engine' = Tail(from_engine)
      /\ handler' = "done" /\ engine_dead' = TRUE
      /\ op' = WithError(op)
      /\ UNCHANGED <<call, received, ending, to_engine, to_abort, engine, engine_alive, aborted_ids>>
  BY DEF HandleDeath, callerVars, engineVars, Dead
<1>3. /\ op'.request_states = U
      /\ op'.external_req_ids = op.external_req_ids
      /\ op'.parent_requests = op.parent_requests
      /\ op'.child_requests = op.child_requests
      /\ op'.output_aggregator = op.output_aggregator
      /\ op'.output_kind = op.output_kind
      /\ op'.output_token_ids = op.output_token_ids
      /\ op'.sent_tokens_offset = op.sent_tokens_offset
      /\ op'.queue = queue
      /\ op' = [op EXCEPT !.queue = queue]
  BY <1>1, <1>2 DEF WithError, OutputProcessors
<1>4. /\ queue \in [Calls -> [outputs : Pieces, finished : BOOLEAN, error : BOOLEAN]]
      /\ \A c \in Calls : queue[c] = IF Children(c) \intersect U # {} THEN Error ELSE op.queue[c]
  <2>1. Error \in [outputs : Pieces, finished : BOOLEAN, error : BOOLEAN]
    BY NoPieces DEF Error
  <2>2. op.queue \in [Calls -> [outputs : Pieces, finished : BOOLEAN, error : BOOLEAN]]
    BY <1>1 DEF OutputProcessors
  <2> QED BY <2>1, <2>2
<1> HIDE DEF queue
<1>5. op' \in OutputProcessors
  BY <1>1, <1>3, <1>4 DEF OutputProcessors
<1>6. DOMAIN Error.outputs = {} /\ ~Error.finished /\ Error.error
  BY NoPieces DEF Error
<1>7. OwnInv(op')
  BY <1>1, <1>3, <1>4, <1>6 DEF OwnInv
<1>8. OPType(op)' /\ TokensInOrder(op)'
  BY <1>1, <1>3, <1>5, <1>7 DEF OPType, TokensInOrder
<1>9. Live' = Live
  BY <1>2 DEF Live
<1>10. FinishInv(op', op'.request_states)
  BY <1>1, <1>3, <1>4, <1>6 DEF FinishInv
<1>11. ASSUME NEW ch \in Child, CallOf(ch) \in Live, ~op'.queue[CallOf(ch)].error
       PROVE  /\ DeltaInv(op', received, ch)
              /\ WholeInv(op', U, aborted_ids, received, ending, ch)
  <2>1. op'.queue[CallOf(ch)] = op.queue[CallOf(ch)]
    BY <1>3, <1>4, <1>6, <1>11, Samples
  <2>2. DeltaInv(op, received, ch) /\ WholeInv(op, U, aborted_ids, received, ending, ch)
    BY <2>1, <1>1, <1>11 DEF AccountInv
  <2>3. Have(op', received, ch) = Have(op, received, ch)
        /\ HaveReason(op', ending, ch) = HaveReason(op, ending, ch)
    BY <2>1, <1>3 DEF Have, HaveReason, Queued
  <2> DEFINE p == op
             w == op'
             V == U
             abortable == aborted_ids
             got == received
             end == ending
  <2>4. /\ Have(w, got, ch) = Have(p, got, ch)
        /\ HaveReason(w, end, ch) = HaveReason(p, end, ch)
        /\ w.output_kind = p.output_kind
        /\ w.output_token_ids[ch] = p.output_token_ids[ch]
        /\ w.sent_tokens_offset[ch] = p.sent_tokens_offset[ch]
        /\ w.output_aggregator[CallOf(ch)] = p.output_aggregator[CallOf(ch)]
        /\ DeltaInv(p, got, ch) /\ WholeInv(p, V, abortable, got, end, ch)
    BY <2>2, <2>3, <1>3
  <2> HIDE DEF p, w, V, abortable, got, end
  <2>5. DeltaInv(w, got, ch) /\ WholeInv(w, V, abortable, got, end, ch)
    BY <2>4, SameAccount
  <2> QED BY <2>5 DEF p, w, V, abortable, got, end
<1>12. Accounted(op, op.request_states, Live, aborted_ids, received, ending)'
  <2>1. AccountInv(op', U, Live, aborted_ids, received, ending)
    BY <1>11 DEF AccountInv
  <2> QED BY <2>1, <1>2, <1>3, <1>9, <1>10 DEF Accounted
<1>13. MapInv'
  BY <1>1, <1>2, <1>3 DEF MapInv
<1>14. CallInv'
  <2>1. \A ch \in Child : call[CallOf(ch)] \in {"new", "done"} =>
          op'.queue[CallOf(ch)] = op.queue[CallOf(ch)]
    <3> SUFFICES ASSUME NEW ch \in Child, call[CallOf(ch)] \in {"new", "done"}
                 PROVE  Children(CallOf(ch)) \intersect U = {}
      BY <1>3, <1>4, Samples
    <3>1. \A x \in Children(CallOf(ch)) : x \in Child /\ CallOf(x) = CallOf(ch)
      BY Samples
    <3> QED BY <3>1, <1>1 DEF CallInv
  <2> QED BY <2>1, <1>1, <1>2, <1>3 DEF CallInv
<1>15. /\ Len(Head(from_engine)) = 0
       /\ from_engine \in Seq(Seq(Outputs))
       /\ \A x : <<1, 1>> \notin Under(x)
  <2>1. from_engine \in Seq(Seq(Outputs)) /\ from_engine[1] = <<>> /\ Len(<<>>) = 0
    BY <1>1, <1>2 DEF VariableTypes
  <2>2. DOMAIN <<>> = {}
    BY NoPieces
  <2> QED BY <2>1, <2>2, <1>2 DEF Under
<1>16. from_engine' = IF Len(Head(from_engine)) <= 1 THEN Tail(from_engine)
                      ELSE [from_engine EXCEPT ![1] = Tail(Head(from_engine))]
  BY <1>2, <1>15
<1>17. FlowInv'
  <2>1. \A ch \in op'.request_states : Len(op'.output_token_ids[ch]) =
          Len(op.output_token_ids[ch]) + (IF <<1, 1>> \in Under(ch) THEN 1 ELSE 0)
    <3> SUFFICES ASSUME NEW ch \in U
                 PROVE  Len(op.output_token_ids[ch]) = Len(op.output_token_ids[ch]) + 0
      BY <1>3, <1>15
    <3>1. op.output_token_ids[ch] \in Seq(Nat)
      BY <1>1 DEF OutputProcessors
    <3> QED BY <3>1, LenProperties
  <2> QED BY <2>1, <1>1, <1>2, <1>3, <1>16, FlowTaken
<1>18. EngineInv'
  <2>1. PICK f : Renumbered(f)
    BY <1>1, <1>2, <1>16, OutputTaken
  <2>2. \A x : Under(x) = {} => Under(x)' = {}
    BY <2>1 DEF Renumbered
  <2>3. \A ch, type : Told(ch, type)' = Told(ch, type)
    BY <1>2 DEF Told
  <2> QED BY <2>2, <2>3, <1>1, <1>2 DEF EngineInv
<1>19. VariableTypes'
  <2>1. from_engine' \in Seq(Seq(Outputs))
    BY <1>2, <1>15
  <2> QED BY <2>1, <1>1, <1>2 DEF VariableTypes
<1> QED BY <1>8, <1>12, <1>13, <1>14, <1>17, <1>18, <1>19 DEF FrontEndInv

\* The engine takes the next message.
LEMMA EngineReceiveHolds == FrontEndInv /\ EngineReceive => FrontEndInv'
<1> SUFFICES ASSUME FrontEndInv, EngineReceive PROVE FrontEndInv'
  OBVIOUS
<1> DEFINE m == Head(to_engine)
<1>1. /\ VariableTypes /\ OPType(op) /\ TokensInOrder(op)
      /\ Accounted(op, op.request_states, Live, aborted_ids, received, ending)
      /\ MapInv /\ CallInv /\ FlowInv /\ EngineInv
  BY DEF FrontEndInv
<1>2. /\ engine_alive /\ to_engine # <<>> /\ to_engine' = Tail(to_engine)
      /\ engine' = [ch \in Child |->
           IF ch \notin m.children THEN engine[ch]
           ELSE [engine[ch] EXCEPT !.state = IF m.type = "ADD" THEN "running" ELSE "gone"]]
      /\ UNCHANGED <<call, received, ending, op, from_engine, to_abort, handler, engine_alive,
                     engine_dead, aborted_ids>>
  BY DEF EngineReceive, callerVars
<1>3. /\ to_engine \in Seq(Messages) /\ to_engine' \in Seq(Messages)
      /\ m = to_engine[1] /\ m \in Messages
      /\ Len(to_engine) \in Nat \ {0} /\ DOMAIN to_engine = 1 .. Len(to_engine)
      /\ DOMAIN to_engine' = 1 .. Len(to_engine) - 1
      /\ \A i \in 1 .. Len(to_engine) - 1 : to_engine'[i] = to_engine[i + 1]
  BY <1>1, <1>2, HeadTailProperties DEF VariableTypes
<1> HIDE DEF m
<1>4. /\ engine' \in [Child -> [state : {"absent", "running", "gone"}, tokens : Nat]]
      /\ \A ch \in Child :
           /\ engine'[ch].tokens = engine[ch].tokens
           /\ engine'[ch].state = IF ch \notin m.children THEN engine[ch].state
                                  ELSE IF m.type = "ADD" THEN "running" ELSE "gone"
  <2>1. engine \in [Child -> [state : {"absent", "running", "gone"}, tokens : Nat]]
    BY <1>1 DEF VariableTypes
  <2> QED BY <2>1, <1>2
<1>5. VariableTypes'
  BY <1>1, <1>2, <1>3, <1>4 DEF VariableTypes
<1>6. /\ \A ch : Under(ch)' = Under(ch)
      /\ \A at : OutputAt(at)' = OutputAt(at)
  BY <1>2 DEF Under, OutputAt
<1>7. ASSUME NEW ch \in Child, NEW type \in {"ADD", "ABORT"}
      PROVE  /\ Told(ch, type) \subseteq 1 .. Len(to_engine)
             /\ Told(ch, type)' \subseteq Nat
             /\ \A i \in Told(ch, type)' : i + 1 \in Told(ch, type)
             /\ \A i \in Told(ch, type) : i # 1 => i - 1 \in Told(ch, type)'
             /\ 1 \in Told(ch, type) <=> m.type = type /\ ch \in m.children
  <2>1. Told(ch, type) \subseteq 1 .. Len(to_engine)
    BY <1>3 DEF Told
  <2>2. ASSUME NEW i \in Told(ch, type)' PROVE i \in Nat /\ i + 1 \in Told(ch, type)
    <3>1. i \in 1 .. Len(to_engine) - 1 /\ to_engine'[i].type = type /\ ch \in to_engine'[i].children
      BY <1>3 DEF Told
    <3>2. i + 1 \in 1 .. Len(to_engine) /\ to_engine'[i] = to_engine[i + 1] /\ i \in Nat
      BY <3>1, <1>3
    <3> QED BY <3>1, <3>2, <1>3 DEF Told
  <2>3. ASSUME NEW i \in Told(ch, type), i # 1 PROVE i - 1 \in Told(ch, type)'
    <3>1. i \in 1 .. Len(to_engine) /\ to_engine[i].type = type /\ ch \in to_engine[i].children
      BY <1>3 DEF Told
    <3>2. i - 1 \in 1 .. Len(to_engine) - 1 /\ (i - 1) + 1 = i
      BY <3>1, <2>3, <1>3
    <3>3. to_engine'[i - 1] = to_engine[i]
      BY <3>2, <1>3
    <3> QED BY <3>1, <3>2, <3>3, <1>3 DEF Told
  <2>4. 1 \in Told(ch, type) <=> m.type = type /\ ch \in m.children
    BY <1>3 DEF Told
  <2> QED BY <2>1, <2>2, <2>3, <2>4
<1>8. ASSUME NEW ch \in Child, ch \in m.children
      PROVE  /\ m.type = "ADD" => engine[ch].state = "absent" /\ Told(ch, "ADD") = {1}
             /\ m.type # "ADD" => m.type = "ABORT" /\ Told(ch, "ADD") = {}
  <2>1. m.type \in {"ADD", "ABORT"}
    BY <1>3 DEF Messages
  <2>2. CASE m.type = "ADD"
    <3>1. 1 \in Told(ch, "ADD")
      BY <2>2, <1>7, <1>8
    <3> QED BY <3>1, <2>2, <1>1, <1>2 DEF EngineInv
  <2>3. CASE m.type = "ABORT"
    <3>1. 1 \in Told(ch, "ABORT") /\ Told(ch, "ADD") \subseteq 1 .. Len(to_engine)
      BY <2>3, <1>7, <1>8
    <3>2. \A i \in Told(ch, "ADD") : i < 1 /\ i \in 1 .. Len(to_engine)
      BY <3>1, <1>1 DEF EngineInv
    <3> QED BY <3>2, <2>3, <1>3
  <2> QED BY <2>1, <2>2, <2>3
<1>9. EngineInv'
  <2> SUFFICES ASSUME NEW ch \in Child
               PROVE  /\ call[CallOf(ch)] = "new" =>
                           /\ Under(ch) = {}
                           /\ ch \notin to_abort
                           /\ Told(ch, "ADD")' = {}
                           /\ Told(ch, "ABORT")' = {}
                           /\ engine'[ch].tokens = 0
                           /\ engine'[ch].state # "running"
                           /\ engine_alive => engine'[ch].state = "absent"
                      /\ \A i, j \in Told(ch, "ADD")' : i = j
                      /\ \A i \in Told(ch, "ADD")', j \in Told(ch, "ABORT")' : i < j
                      /\ engine_alive /\ engine'[ch].state # "absent" => Told(ch, "ADD")' = {}
                      /\ /\ engine_alive
                         /\ ~engine_dead
                         /\ engine'[ch].state = "running" \/ Told(ch, "ADD")' # {}
                         => ch \in op.request_states \/ ch \in to_abort \/ Told(ch, "ABORT")' # {}
    BY <1>2, <1>6 DEF EngineInv
  <2> DEFINE A == Told(ch, "ADD")
             B == Told(ch, "ABORT")
             A2 == Told(ch, "ADD")'
             B2 == Told(ch, "ABORT")'
  <2>1. /\ A2 \subseteq Nat /\ B2 \subseteq Nat
        /\ \A i \in A2 : i + 1 \in A
        /\ \A i \in B2 : i + 1 \in B
        /\ \A i \in B : i # 1 => i - 1 \in B2
        /\ 1 \in B <=> m.type = "ABORT" /\ ch \in m.children
        /\ 1 \in A <=> m.type = "ADD" /\ ch \in m.children
    BY <1>7
  <2>2. /\ call[CallOf(ch)] = "new" =>
             /\ Under(ch) = {}
             /\ ch \notin to_abort
             /\ A = {}
             /\ B = {}
             /\ engine[ch].tokens = 0
             /\ engine[ch].state # "running"
             /\ engine_alive => engine[ch].state = "absent"
        /\ \A i, j \in A : i = j
        /\ \A i \in A, j \in B : i < j
        /\ engine_alive /\ engine[ch].state # "absent" => A = {}
        /\ /\ engine_alive
           /\ ~engine_dead
           /\ engine[ch].state = "running" \/ A # {}
           => ch \in op.request_states \/ ch \in to_abort \/ B # {}
    BY <1>1 DEF EngineInv
  <2>3. /\ ch \in m.children => \/ m.type = "ADD" /\ engine[ch].state = "absent" /\ A = {1}
                                \/ m.type = "ABORT" /\ A = {}
        /\ engine'[ch].tokens = engine[ch].tokens
        /\ engine'[ch].state = IF ch \notin m.children THEN engine[ch].state
                               ELSE IF m.type = "ADD" THEN "running" ELSE "gone"
    BY <1>4, <1>8
  <2> HIDE DEF A, B, A2, B2
  <2>4. call[CallOf(ch)] = "new" =>
          /\ Under(ch) = {}
          /\ ch \notin to_abort
          /\ A2 = {}
          /\ B2 = {}
          /\ engine'[ch].tokens = 0
          /\ engine'[ch].state # "running"
          /\ engine_alive => engine'[ch].state = "absent"
    <3> SUFFICES ASSUME call[CallOf(ch)] = "new"
                 PROVE  /\ A2 = {} /\ B2 = {} /\ ch \notin m.children
      BY <2>2, <2>3
    <3>1. A = {} /\ B = {}
      BY <2>2
    <3>2. m.type \in {"ADD", "ABORT"}
      BY <1>3 DEF Messages
    <3> QED BY <3>1, <3>2, <2>1
  <2>5. \A i, j \in A2 : i = j
    BY <2>1, <2>2
  <2>6. \A i \in A2, j \in B2 : i < j
    <3> SUFFICES ASSUME NEW i \in A2, NEW j \in B2 PROVE i < j
      OBVIOUS
    <3>1. i + 1 < j + 1 /\ i \in Nat /\ j \in Nat
      BY <2>1, <2>2
    <3> QED BY <3>1
  <2>7. ch \in m.children => A2 = {}
    <3> SUFFICES ASSUME ch \in m.children, NEW i \in A2 PROVE FALSE
      OBVIOUS
    <3>1. i + 1 \in A /\ i \in Nat /\ (A = {1} \/ A = {})
      BY <2>1, <2>3
    <3>2. i + 1 = 1
      BY <3>1
    <3>3. i = 0
      BY <3>1, <3>2
    <3>4. 0 \notin DOMAIN to_engine'
      BY <1>3
    <3> QED BY <3>3, <3>4 DEF A2, Told
  <2>8. engine_alive /\ engine'[ch].state # "absent" => A2 = {}
    BY <2>1, <2>2, <2>3, <2>7
  <2>9. /\ engine_alive
        /\ ~engine_dead
        /\ engine'[ch].state = "running" \/ A2 # {}
        => ch \in op.request_states \/ ch \in to_abort \/ B2 # {}
    <3> SUFFICES ASSUME engine_alive, ~engine_dead, engine'[ch].state = "running" \/ A2 # {},
                        ch \notin op.request_states, ch \notin to_abort
                 PROVE  B2 # {}
      OBVIOUS
    <3>1. engine[ch].state = "running" \/ A # {}
      BY <2>1, <2>3, <2>7
    <3>2. B # {}
      BY <3>1, <2>2
    <3>3. 1 \notin B
      BY <2>1, <2>3, <2>7
    <3> QED BY <3>2, <3>3, <2>1
  <2> QED BY <2>4, <2>5, <2>6, <2>8, <2>9 DEF A2, B2
<1>10. FlowInv'
  <2> SUFFICES ASSUME NEW ch \in op'.request_states
               PROVE  LET n == Len(op'.output_token_ids[ch])
                      IN  /\ \A at \in Under(ch)' :
                               /\ OutputAt(at)'.token > n
                               /\ \A k \in n + 1 .. OutputAt(at)'.token :
                                    \E to \in Under(ch)' : to[1] <= at[1] /\ OutputAt(to)'.token = k
                               /\ \A to \in Under(ch)' :
                                    /\ at[1] < to[1] => OutputAt(at)'.token < OutputAt(to)'.token
                                    /\ at[1] = to[1] => at = to
                               /\ engine_alive' => OutputAt(at)'.token <= engine'[ch].tokens
                               /\ engine_alive' /\ OutputAt(at)'.reason # Unfinished =>
                                    engine'[ch].state = "gone"
                               /\ OutputAt(at)'.reason = "length" =>
                                    OutputAt(at)'.token = MaxTokens[CallOf(ch)]
                          /\ engine_alive' =>
                               /\ n <= engine'[ch].tokens
                               /\ \A k \in n + 1 .. engine'[ch].tokens :
                                    \E at \in Under(ch)' : OutputAt(at)'.token = k
    BY DEF FlowInv
  <2>1. ch \in Child /\ op' = op /\ engine_alive' = engine_alive /\ ch \in op.request_states
    BY <1>1, <1>2 DEF OPType, OutputProcessors
  <2>2. /\ engine'[ch].tokens = engine[ch].tokens
        /\ engine[ch].state = "gone" => engine'[ch].state = "gone"
    <3>1. /\ engine'[ch].tokens = engine[ch].tokens
          /\ engine'[ch].state = IF ch \notin m.children THEN engine[ch].state
                                 ELSE IF m.type = "ADD" THEN "running" ELSE "gone"
      BY <2>1, <1>4
    <3>2. ch \in m.children /\ m.type = "ADD" => engine[ch].state = "absent"
      BY <2>1, <1>8
    <3> QED BY <3>1, <3>2
  <2>3. FlowInv
    BY <1>1
  <2> QED BY <2>1, <2>2, <2>3, <1>6 DEF FlowInv
<1>11. Live' = Live
  BY <1>2 DEF Live
<1>12. MapInv' /\ CallInv'
  BY <1>1, <1>2 DEF MapInv, CallInv
<1> QED BY <1>1, <1>2, <1>5, <1>9, <1>10, <1>11, <1>12 DEF FrontEndInv

\* A step of the engine puts one output for each request it scheduled behind all others.
LEMMA BatchAppended ==
  ASSUME VariableTypes, NEW chs \in SUBSET Child, NEW order \in SetToSeqs(chs),
         NEW out \in [chs -> Outputs], \A ch \in chs : out[ch].child = ch,
         from_engine' = Append(from_engine, [i \in DOMAIN order |-> out[order[i]]])
  PROVE  /\ from_engine' \in Seq(Seq(Outputs))
         /\ \A ch \in Child : ch \notin chs => Under(ch)' = Under(ch)
         /\ \A ch \in chs : \E at \in Under(ch)' :
              /\ Under(ch)' = Under(ch) \union {at}
              /\ at[1] = Len(from_engine) + 1
              /\ OutputAt(at)' = out[ch]
         /\ \A ch \in Child : \A at \in Under(ch) : OutputAt(at)' = OutputAt(at)
<1> DEFINE L == Len(from_engine)
           n == Cardinality(chs)
           b == [i \in DOMAIN order |-> out[order[i]]]
<1>1. /\ IsFiniteSet(chs) /\ n \in Nat
      /\ order \in [1 .. n -> chs]
      /\ \A i, j \in 1 .. n : i # j => order[i] # order[j]
  BY ChildIsFinite, FS_Subset, FS_CardinalityType DEF SetToSeqs
<1>2. \A ch \in chs : \E i \in 1 .. n : order[i] = ch
  <2>1. order \in Injection(1 .. n, chs)
    BY <1>1 DEF Injection, IsInjective
  <2>2. Cardinality(1 .. n) = n
    BY <1>1, FS_Interval
  <2> HIDE DEF n
  <2>3. order \in Surjection(1 .. n, chs)
    BY <2>1, <2>2, <1>1, FS_Injection DEF n
  <2> QED BY <2>3 DEF Surjection
<1> HIDE DEF n
<1>3. /\ b \in [1 .. n -> Outputs] /\ b \in Seq(Outputs) /\ DOMAIN b = 1 .. n
      /\ \A i \in 1 .. n : b[i] = out[order[i]] /\ b[i].child = order[i]
  <2>1. DOMAIN order = 1 .. n /\ \A i \in 1 .. n : order[i] \in chs
    BY <1>1
  <2>2. \A i \in 1 .. n : out[order[i]] \in Outputs /\ out[order[i]].child = order[i]
    BY <2>1
  <2>3. b \in [1 .. n -> Outputs]
    BY <2>1, <2>2
  <2>4. \A i \in 1 .. n : b[i] = out[order[i]] /\ b[i].child = order[i]
    BY <2>1, <2>2
  <2> HIDE DEF b
  <2>5. b \in Seq(Outputs)
    BY <2>3, <1>1
  <2> QED BY <2>3, <2>4, <2>5
<1>4. from_engine' = Append(from_engine, b)
  OBVIOUS
<1> HIDE DEF b
<1>5. /\ from_engine \in Seq(Seq(Outputs)) /\ L \in Nat /\ DOMAIN from_engine = 1 .. L
      /\ from_engine' \in Seq(Seq(Outputs))
      /\ DOMAIN from_engine' = 1 .. L + 1
      /\ \A i \in 1 .. L : from_engine'[i] = from_engine[i]
      /\ from_engine'[L + 1] = b
  <2>1. from_engine \in Seq(Seq(Outputs))
    BY DEF VariableTypes
  <2> QED BY <2>1, <1>3, <1>4, AppendProperties, LenProperties
<1> HIDE DEF L
<1>6. \A at : at[1] # L + 1 => \A ch : at \in Under(ch)' <=> at \in Under(ch)
  <2> SUFFICES ASSUME NEW at, at[1] # L + 1, NEW ch PROVE at \in Under(ch)' <=> at \in Under(ch)
    OBVIOUS
  <2>1. at \in Under(ch)' <=> /\ at \in (DOMAIN from_engine') \X Nat
                              /\ at[2] \in DOMAIN from_engine'[at[1]]
                              /\ from_engine'[at[1]][at[2]].child = ch
    BY DEF Under
  <2>2. at \in Under(ch) <=> /\ at \in (DOMAIN from_engine) \X Nat
                             /\ at[2] \in DOMAIN from_engine[at[1]]
                             /\ from_engine[at[1]][at[2]].child = ch
    BY DEF Under
  <2>3. at[1] \in 1 .. L + 1 <=> at[1] \in 1 .. L
    BY <1>5
  <2>4. at \in (DOMAIN from_engine') \X Nat <=> at \in (DOMAIN from_engine) \X Nat
    BY <2>3, <1>5
  <2>5. at \in (DOMAIN from_engine) \X Nat => from_engine'[at[1]] = from_engine[at[1]]
    BY <1>5
  <2> QED BY <2>1, <2>2, <2>4, <2>5
<1>7. \A at, ch : at[1] = L + 1 => at \notin Under(ch)
  BY <1>5 DEF Under
<1>8. \A ch : \A at : at[1] = L + 1 =>
        (at \in Under(ch)' <=> at = <<L + 1, at[2]>> /\ at[2] \in 1 .. n /\ order[at[2]] = ch)
  <2> SUFFICES ASSUME NEW ch, NEW at, at[1] = L + 1
               PROVE  at \in Under(ch)' <=>
                        at = <<L + 1, at[2]>> /\ at[2] \in 1 .. n /\ order[at[2]] = ch
    OBVIOUS
  <2>1. at \in Under(ch)' <=> /\ at \in (DOMAIN from_engine') \X Nat
                              /\ at[2] \in DOMAIN b
                              /\ b[at[2]].child = ch
    BY <1>5 DEF Under
  <2>2. at[2] \in 1 .. n => at[2] \in Nat
    OBVIOUS
  <2>3. L + 1 \in DOMAIN from_engine'
    BY <1>5
  <2>4. at \in (DOMAIN from_engine') \X Nat => at = <<at[1], at[2]>>
    OBVIOUS
  <2>5. ASSUME at = <<L + 1, at[2]>>, at[2] \in 1 .. n PROVE at \in (DOMAIN from_engine') \X Nat
    BY <2>2, <2>3, <2>5
  <2> QED BY <2>1, <2>4, <2>5, <1>3
<1>9. ASSUME NEW ch \in Child, ch \notin chs PROVE Under(ch)' = Under(ch)
  <2>1. \A i \in 1 .. n : order[i] # ch
    BY <1>1, <1>9
  <2>2. \A at : at \in Under(ch)' <=> at \in Under(ch)
    BY <2>1, <1>6, <1>7, <1>8
  <2> QED BY <2>2 DEF Under
<1>10. ASSUME NEW ch \in chs
       PROVE  \E at \in Under(ch)' : /\ Under(ch)' = Under(ch) \union {at}
                                     /\ at[1] = L + 1
                                     /\ OutputAt(at)' = out[ch]
  <2>1. PICK i \in 1 .. n : order[i] = ch
    BY <1>2
  <2>0. PICK at : at = <<L + 1, i>>
    OBVIOUS
  <2>2. at[1] = L + 1 /\ at[2] = i
    BY <2>0
  <2>3. at \in Under(ch)'
    BY <2>0, <2>1, <2>2, <1>8
  <2>4. OutputAt(at)' = out[ch]
    <3>1. OutputAt(at)' = b[i]
      BY <2>2, <1>5 DEF OutputAt
    <3>2. b[i] = out[order[i]]
      BY <1>3
    <3> QED BY <3>1, <3>2, <2>1
  <2>5. \A to : to \in Under(ch)' <=> to \in Under(ch) \/ to = at
    <3> SUFFICES ASSUME NEW to PROVE to \in Under(ch)' <=> to \in Under(ch) \/ to = at
      OBVIOUS
    <3>1. CASE to[1] # L + 1
      BY <3>1, <2>2, <1>6
    <3>2. CASE to[1] = L + 1
      <4>1. to \in Under(ch)' => to[2] = i /\ to = at
        BY <3>2, <2>0, <2>1, <1>1, <1>8
      <4> QED BY <4>1, <3>2, <2>3, <1>7
    <3> QED BY <3>1, <3>2
  <2>6. Under(ch)' = Under(ch) \union {at}
    BY <2>5
  <2> QED BY <2>2, <2>3, <2>4, <2>6
<1>11. ASSUME NEW ch \in Child, NEW at \in Under(ch) PROVE OutputAt(at)' = OutputAt(at)
  <2>1. at[1] \in 1 .. L
    BY UnderType DEF L
  <2> QED BY <2>1, <1>5 DEF OutputAt
<1> QED BY <1>5, <1>9, <1>10, <1>11 DEF L

\* Some requests get their next token.
LEMMA EngineStepHolds ==
  ASSUME FrontEndInv, NEW chs \in SUBSET Child, EngineStep(chs)
  PROVE  FrontEndInv'
<1> DEFINE Reason(ch) == IF engine[ch].tokens + 1 = MaxTokens[CallOf(ch)] THEN "length" ELSE Unfinished
           Output(ch) == [child |-> ch, token |-> engine[ch].tokens + 1, reason |-> Reason(ch)]
           out == [ch \in chs |-> Output(ch)]
<1>1. /\ VariableTypes /\ OPType(op) /\ TokensInOrder(op)
      /\ Accounted(op, op.request_states, Live, aborted_ids, received, ending)
      /\ MapInv /\ CallInv /\ FlowInv /\ EngineInv
      /\ engine \in [Child -> [state : {"absent", "running", "gone"}, tokens : Nat]]
  BY DEF FrontEndInv, VariableTypes
<1>2. /\ engine_alive
      /\ \A ch \in chs : engine[ch].state = "running"
      /\ engine' = [ch \in Child |->
           IF ch \notin chs THEN engine[ch]
           ELSE [tokens |-> engine[ch].tokens + 1,
                 state |-> IF Reason(ch) = Unfinished THEN "running" ELSE "gone"]]
      /\ UNCHANGED <<call, received, ending, op, to_engine, to_abort, handler, engine_alive,
                     engine_dead, aborted_ids>>
  BY DEF EngineStep, callerVars
<1>3. PICK order \in SetToSeqs(chs) :
        from_engine' = Append(from_engine, [i \in DOMAIN order |-> Output(order[i])])
  BY DEF EngineStep
<1>4. /\ out \in [chs -> Outputs]
      /\ \A ch \in chs : /\ out[ch].child = ch
                         /\ out[ch].token = engine[ch].tokens + 1
                         /\ out[ch].reason = Reason(ch)
  <2>1. ASSUME NEW ch \in chs PROVE Output(ch) \in Outputs
    <3>1. engine[ch].tokens \in Nat /\ ch \in Child
      BY <1>1
    <3>2. engine[ch].tokens + 1 \in Nat \ {0} /\ Reason(ch) \in {"length", Unfinished}
      BY <3>1
    <3> HIDE DEF Reason
    <3> QED BY <3>1, <3>2 DEF Outputs
  <2>2. \A ch \in chs : /\ Output(ch).child = ch
                        /\ Output(ch).token = engine[ch].tokens + 1
                        /\ Output(ch).reason = Reason(ch)
    OBVIOUS
  <2> HIDE DEF Output, Reason
  <2> QED BY <2>1, <2>2
<1>5. from_engine' = Append(from_engine, [i \in DOMAIN order |-> out[order[i]]])
  <2>1. \A i \in DOMAIN order : order[i] \in chs
    BY DEF SetToSeqs
  <2>2. \A i \in DOMAIN order : out[order[i]] = Output(order[i])
    <3> HIDE DEF Output
    <3> QED BY <2>1
  <2> HIDE DEF out, Output
  <2>3. [i \in DOMAIN order |-> Output(order[i])] = [i \in DOMAIN order |-> out[order[i]]]
    BY <2>2
  <2> QED BY <2>3, <1>3
<1> HIDE DEF out, Output
<1>6. /\ from_engine' \in Seq(Seq(Outputs))
      /\ \A ch \in Child : ch \notin chs => Under(ch)' = Under(ch)
      /\ \A ch \in chs : \E at \in Under(ch)' :
           /\ Under(ch)' = Under(ch) \union {at}
           /\ at[1] = Len(from_engine) + 1
           /\ OutputAt(at)' = out[ch]
      /\ \A ch \in Child : \A at \in Under(ch) : OutputAt(at)' = OutputAt(at)
  <2> DEFINE f == out
  <2>1. /\ f \in [chs -> Outputs] /\ \A ch \in chs : f[ch].child = ch
        /\ from_engine' = Append(from_engine, [i \in DOMAIN order |-> f[order[i]]])
    BY <1>4, <1>5
  <2> HIDE DEF f
  <2>2. /\ from_engine' \in Seq(Seq(Outputs))
        /\ \A ch \in Child : ch \notin chs => Under(ch)' = Under(ch)
        /\ \A ch \in chs : \E at \in Under(ch)' :
             /\ Under(ch)' = Under(ch) \union {at}
             /\ at[1] = Len(from_engine) + 1
             /\ OutputAt(at)' = f[ch]
        /\ \A ch \in Child : \A at \in Under(ch) : OutputAt(at)' = OutputAt(at)
    BY <2>1, <1>1, BatchAppended
  <2> QED BY <2>2 DEF f
<1>7. /\ engine' \in [Child -> [state : {"absent", "running", "gone"}, tokens : Nat]]
      /\ \A ch \in Child : ch \notin chs => engine'[ch] = engine[ch]
      /\ \A ch \in chs :
           /\ engine'[ch].tokens = engine[ch].tokens + 1
           /\ engine'[ch].state = IF Reason(ch) = Unfinished THEN "running" ELSE "gone"
  <2>1. \A ch \in chs : engine[ch].tokens + 1 \in Nat
    BY <1>1
  <2> HIDE DEF Reason
  <2> QED BY <2>1, <1>1, <1>2
<1>8. VariableTypes'
  BY <1>1, <1>2, <1>6, <1>7 DEF VariableTypes
<1>9. EngineInv'
  <2> SUFFICES ASSUME NEW ch \in Child
               PROVE  /\ call[CallOf(ch)] = "new" =>
                           /\ Under(ch)' = {}
                           /\ ch \notin to_abort
                           /\ Told(ch, "ADD")' = {}
                           /\ Told(ch, "ABORT")' = {}
                           /\ engine'[ch].tokens = 0
                           /\ engine'[ch].state # "running"
                           /\ engine_alive => engine'[ch].state = "absent"
                      /\ \A i, j \in Told(ch, "ADD")' : i = j
                      /\ \A i \in Told(ch, "ADD")', j \in Told(ch, "ABORT")' : i < j
                      /\ engine_alive /\ engine'[ch].state # "absent" => Told(ch, "ADD")' = {}
                      /\ /\ engine_alive
                         /\ ~engine_dead
                         /\ engine'[ch].state = "running" \/ Told(ch, "ADD")' # {}
                         => ch \in op.request_states \/ ch \in to_abort \/ Told(ch, "ABORT")' # {}
    BY <1>2 DEF EngineInv
  <2>1. \A type : Told(ch, type)' = Told(ch, type)
    BY <1>2 DEF Told
  <2>2. CASE ch \notin chs
    <3>1. Under(ch)' = Under(ch) /\ engine'[ch] = engine[ch]
      BY <2>2, <1>6, <1>7
    <3> QED BY <3>1, <2>1, <1>1 DEF EngineInv
  <2>3. CASE ch \in chs
    <3>1. engine[ch].state = "running"
      BY <2>3, <1>2
    <3>2. call[CallOf(ch)] # "new" /\ Told(ch, "ADD") = {}
      BY <3>1, <1>1, <1>2 DEF EngineInv
    <3> QED BY <3>1, <3>2, <2>1, <1>1 DEF EngineInv
  <2> QED BY <2>2, <2>3
<1>10. FlowInv'
  <2> SUFFICES ASSUME NEW ch \in op'.request_states
               PROVE  LET n == Len(op'.output_token_ids[ch])
                      IN  /\ \A at \in Under(ch)' :
                               /\ OutputAt(at)'.token > n
                               /\ \A k \in n + 1 .. OutputAt(at)'.token :
                                    \E to \in Under(ch)' : to[1] <= at[1] /\ OutputAt(to)'.token = k
                               /\ \A to \in Under(ch)' :
                                    /\ at[1] < to[1] => OutputAt(at)'.token < OutputAt(to)'.token
                                    /\ at[1] = to[1] => at = to
                               /\ engine_alive' => OutputAt(at)'.token <= engine'[ch].tokens
                               /\ engine_alive' /\ OutputAt(at)'.reason # Unfinished =>
                                    engine'[ch].state = "gone"
                               /\ OutputAt(at)'.reason = "length" =>
                                    OutputAt(at)'.token = MaxTokens[CallOf(ch)]
                          /\ engine_alive' =>
                               /\ n <= engine'[ch].tokens
                               /\ \A k \in n + 1 .. engine'[ch].tokens :
                                    \E at \in Under(ch)' : OutputAt(at)'.token = k
    BY DEF FlowInv
  <2>0. op' = op /\ engine_alive' = engine_alive /\ ch \in op.request_states
    BY <1>2
  <2> DEFINE n == Len(op.output_token_ids[ch])
             t == engine[ch].tokens
             Tok(at) == OutputAt(at).token
  <2>1. ch \in Child /\ n \in Nat /\ t \in Nat
    <3>1. ch \in Child /\ op.output_token_ids[ch] \in Seq(Nat)
      BY <2>0, <1>1 DEF OPType, OutputProcessors
    <3> QED BY <3>1, <1>1, LenProperties
  <2>2. /\ \A at \in Under(ch) :
             /\ Tok(at) > n
             /\ \A k \in n + 1 .. Tok(at) : \E to \in Under(ch) : to[1] <= at[1] /\ Tok(to) = k
             /\ \A to \in Under(ch) :
                  /\ at[1] < to[1] => Tok(at) < Tok(to)
                  /\ at[1] = to[1] => at = to
             /\ Tok(at) <= t
             /\ OutputAt(at).reason # Unfinished => engine[ch].state = "gone"
             /\ OutputAt(at).reason = "length" => Tok(at) = MaxTokens[CallOf(ch)]
        /\ n <= t
        /\ \A k \in n + 1 .. t : \E at \in Under(ch) : Tok(at) = k
    BY <2>0, <1>1, <1>2 DEF FlowInv
  <2>3. \A at \in Under(ch) : OutputAt(at)' = OutputAt(at)
    BY <2>1, <1>6
  <2>4. CASE ch \notin chs
    <3>1. Under(ch)' = Under(ch) /\ engine'[ch] = engine[ch]
      BY <2>1, <2>4, <1>6, <1>7
    <3> QED BY <3>1, <2>0, <2>2, <2>3
  <2>5. CASE ch \in chs
    <3>1. PICK one \in Under(ch)' : /\ Under(ch)' = Under(ch) \union {one}
                                    /\ one[1] = Len(from_engine) + 1
                                    /\ OutputAt(one)' = out[ch]
      BY <2>5, <1>6
    <3>2. /\ OutputAt(one)'.token = t + 1 /\ OutputAt(one)'.reason = Reason(ch)
          /\ engine'[ch].tokens = t + 1
          /\ engine'[ch].state = IF Reason(ch) = Unfinished THEN "running" ELSE "gone"
      BY <3>1, <2>5, <1>4, <1>7
    <3>3. \A at \in Under(ch) : at[1] \in Nat /\ at[1] < one[1] /\ OutputAt(at).token \in Nat
      <4> SUFFICES ASSUME NEW at \in Under(ch)
                   PROVE  at[1] \in Nat /\ at[1] < one[1] /\ OutputAt(at).token \in Nat
        OBVIOUS
      <4>1. at[1] \in 1 .. Len(from_engine) /\ OutputAt(at) \in Outputs
        BY <1>1, UnderType
      <4>2. Len(from_engine) \in Nat
        BY <1>1 DEF VariableTypes
      <4> QED BY <4>1, <4>2, <3>1 DEF Outputs
    <3>4. one[1] \in Nat
      <4>1. Len(from_engine) \in Nat
        BY <1>1 DEF VariableTypes
      <4> QED BY <4>1, <3>1
    <3>5. \A at \in Under(ch) : OutputAt(at).reason = Unfinished
      BY <2>2, <2>5, <1>2
    <3> HIDE DEF n, t
    <3>6. \A k \in n + 1 .. t + 1 :
            \E to \in Under(ch)' : to[1] <= one[1] /\ OutputAt(to)'.token = k
      <4> SUFFICES ASSUME NEW k \in n + 1 .. t + 1
                   PROVE  \E to \in Under(ch)' : to[1] <= one[1] /\ OutputAt(to)'.token = k
        OBVIOUS
      <4>1. CASE k = t + 1
        <5>1. one[1] <= one[1]
          BY <3>4
        <5> QED BY <5>1, <4>1, <3>1, <3>2
      <4>2. CASE k # t + 1
        <5>1. k \in n + 1 .. t
          BY <4>2, <2>1
        <5>2. PICK to \in Under(ch) : OutputAt(to).token = k
          BY <5>1, <2>2
        <5>3. to[1] <= one[1]
          BY <3>3, <3>4
        <5> QED BY <5>2, <5>3, <3>1, <2>3
      <4> QED BY <4>1, <4>2
    <3>7. ASSUME NEW at \in Under(ch)'
          PROVE  /\ OutputAt(at)'.token > n
                 /\ \A k \in n + 1 .. OutputAt(at)'.token :
                      \E to \in Under(ch)' : to[1] <= at[1] /\ OutputAt(to)'.token = k
                 /\ \A to \in Under(ch)' :
                      /\ at[1] < to[1] => OutputAt(at)'.token < OutputAt(to)'.token
                      /\ at[1] = to[1] => at = to
                 /\ OutputAt(at)'.token <= t + 1
                 /\ OutputAt(at)'.reason # Unfinished => engine'[ch].state = "gone"
                 /\ OutputAt(at)'.reason = "length" => OutputAt(at)'.token = MaxTokens[CallOf(ch)]
      <4>1. CASE at = one
        <5>1. t + 1 > n /\ t + 1 <= t + 1
          BY <2>1, <2>2
        <5>2. ASSUME NEW to \in Under(ch)'
              PROVE  ~(at[1] < to[1]) /\ (at[1] = to[1] => at = to)
          BY <3>1, <3>3, <3>4, <4>1
        <5>3. Reason(ch) # Unfinished => engine'[ch].state = "gone"
          BY <3>2
        <5>4. Reason(ch) = "length" => t + 1 = MaxTokens[CallOf(ch)]
          BY DEF Unfinished, t
        <5> HIDE DEF Reason
        <5> QED BY <5>1, <5>2, <5>3, <5>4, <4>1, <3>2, <3>6
      <4>2. CASE at # one
        <5>1. at \in Under(ch) /\ OutputAt(at)' = OutputAt(at)
          BY <4>2, <3>1, <2>3
        <5>2. Tok(at) > n /\ Tok(at) <= t /\ Tok(at) \in Nat
          BY <5>1, <2>2, <3>3
        <5>3. ASSUME NEW to \in Under(ch)'
              PROVE  /\ at[1] < to[1] => OutputAt(at)'.token < OutputAt(to)'.token
                     /\ at[1] = to[1] => at = to
          <6>1. CASE to = one
            <7>1. Tok(at) < t + 1
              BY <5>2, <2>1
            <7> QED BY <7>1, <6>1, <5>1, <3>2, <3>3, <3>4
          <6>2. CASE to # one
            <7>1. to \in Under(ch) /\ OutputAt(to)' = OutputAt(to)
              BY <6>2, <3>1, <2>3
            <7> QED BY <7>1, <5>1, <2>2
          <6> QED BY <6>1, <6>2
        <5>4. \A k \in n + 1 .. Tok(at) :
                \E to \in Under(ch)' : to[1] <= at[1] /\ OutputAt(to)'.token = k
          <6> SUFFICES ASSUME NEW k \in n + 1 .. Tok(at)
                       PROVE  \E to \in Under(ch)' : to[1] <= at[1] /\ OutputAt(to)'.token = k
            OBVIOUS
          <6>1. PICK to \in Under(ch) : to[1] <= at[1] /\ Tok(to) = k
            BY <5>1, <2>2
          <6> QED BY <6>1, <3>1, <2>3
        <5>5. Tok(at) <= t + 1
          BY <5>2, <2>1
        <5>6. OutputAt(at).reason = Unfinished
          BY <5>1, <3>5
        <5> QED BY <5>1, <5>2, <5>3, <5>4, <5>5, <5>6 DEF Unfinished
      <4> QED BY <4>1, <4>2
    <3>8. n <= t + 1
      BY <2>1, <2>2
    <3>9. \A k \in n + 1 .. t + 1 : \E at \in Under(ch)' : OutputAt(at)'.token = k
      BY <3>6
    <3> QED BY <2>0, <3>2, <3>7, <3>8, <3>9 DEF n
  <2> QED BY <2>4, <2>5
<1>11. Live' = Live
  BY <1>2 DEF Live
<1>12. MapInv' /\ CallInv'
  BY <1>1, <1>2 DEF MapInv, CallInv
<1> QED BY <1>1, <1>2, <1>8, <1>9, <1>10, <1>11, <1>12 DEF FrontEndInv

\* Some of the last batches are lost with the engine.
LEMMA EngineDiesHolds == FrontEndInv /\ EngineDies => FrontEndInv'
<1> SUFFICES ASSUME FrontEndInv, EngineDies PROVE FrontEndInv'
  OBVIOUS
<1>1. /\ VariableTypes /\ OPType(op) /\ TokensInOrder(op)
      /\ Accounted(op, op.request_states, Live, aborted_ids, received, ending)
      /\ MapInv /\ CallInv /\ FlowInv /\ EngineInv
  BY DEF FrontEndInv
<1>2. /\ engine_alive' = FALSE
      /\ engine' = [ch \in Child |-> [state |-> "gone", tokens |-> 0]]
      /\ to_engine' = <<>>
      /\ UNCHANGED <<call, received, ending, op, to_abort, handler, engine_dead, aborted_ids>>
  BY DEF EngineDies, callerVars
<1>3. PICK k \in 0 .. Len(from_engine) : from_engine' = SubSeq(from_engine, 1, k) \o <<Dead>>
  BY DEF EngineDies
<1>4. /\ from_engine' \in Seq(Seq(Outputs))
      /\ k \in Nat /\ k <= Len(from_engine) /\ Len(from_engine) \in Nat
      /\ DOMAIN from_engine = 1 .. Len(from_engine)
      /\ DOMAIN from_engine' = 1 .. k + 1
      /\ \A i \in 1 .. k : from_engine'[i] = from_engine[i]
      /\ from_engine'[k + 1] = <<>>
  <2>1. from_engine \in Seq(Seq(Outputs)) /\ Len(from_engine) \in Nat
        /\ DOMAIN from_engine = 1 .. Len(from_engine)
    BY <1>1 DEF VariableTypes
  <2> DEFINE s == SubSeq(from_engine, 1, k)
             d == <<Dead>>
  <2>2. s \in Seq(Seq(Outputs)) /\ Len(s) = k /\ \A i \in 1 .. k : s[i] = from_engine[i]
    BY <2>1
  <2>3. d \in Seq(Seq(Outputs)) /\ Len(d) = 1 /\ d[1] = <<>>
    BY DEF Dead
  <2>4. k \in Nat /\ k <= Len(from_engine)
    BY <2>1
  <2> HIDE DEF s, d
  <2>5. /\ s \o d \in Seq(Seq(Outputs)) /\ Len(s \o d) = k + 1 /\ DOMAIN (s \o d) = 1 .. k + 1
        /\ \A i \in 1 .. k : (s \o d)[i] = s[i]
        /\ (s \o d)[k + 1] = d[1]
    <3> DEFINE X == Seq(Outputs)
    <3>1. s \in Seq(X) /\ d \in Seq(X) /\ Len(s) = k /\ Len(d) = 1 /\ k \in Nat
      BY <2>2, <2>3, <2>4
    <3> HIDE DEF X
    <3>2. /\ s \o d \in Seq(X) /\ Len(s \o d) = k + 1
          /\ \A i \in 1 .. k + 1 : (s \o d)[i] = IF i <= k THEN s[i] ELSE d[i - k]
      <4>1. /\ s \o d \in Seq(X) /\ Len(s \o d) = Len(s) + Len(d)
            /\ \A i \in 1 .. Len(s) + Len(d) : (s \o d)[i] = IF i <= Len(s) THEN s[i] ELSE d[i - Len(s)]
        BY <3>1, ConcatProperties
      <4> QED BY <4>1, <3>1
    <3>3. DOMAIN (s \o d) = 1 .. k + 1
      BY <3>2, LenProperties
    <3>4. (s \o d)[k + 1] = d[1]
      <4>1. k + 1 \in 1 .. k + 1 /\ ~(k + 1 <= k) /\ (k + 1) - k = 1
        BY <3>1
      <4> QED BY <4>1, <3>2
    <3>5. \A i \in 1 .. k : (s \o d)[i] = s[i]
      <4>1. \A i \in 1 .. k : i \in 1 .. k + 1 /\ i <= k
        BY <3>1
      <4> QED BY <4>1, <3>2
    <3> QED BY <3>2, <3>3, <3>4, <3>5 DEF X
  <2> QED BY <1>3, <2>1, <2>2, <2>3, <2>4, <2>5 DEF s, d
<1>5. VariableTypes'
  <2>1. to_engine' \in Seq(Messages)
    BY <1>2
  <2>2. engine' \in [Child -> [state : {"absent", "running", "gone"}, tokens : Nat]]
    BY <1>2
  <2> QED BY <2>1, <2>2, <1>1, <1>2, <1>4 DEF VariableTypes
<1>6. \A ch, at : at \in Under(ch)' <=> at \in Under(ch) /\ at[1] <= k
  <2> SUFFICES ASSUME NEW ch, NEW at
               PROVE  at \in Under(ch)' <=> at \in Under(ch) /\ at[1] <= k
    OBVIOUS
  <2>1. at \in Under(ch)' <=> /\ at \in (1 .. k + 1) \X Nat
                              /\ at[2] \in DOMAIN from_engine'[at[1]]
                              /\ from_engine'[at[1]][at[2]].child = ch
    BY <1>4 DEF Under
  <2>2. at \in Under(ch) <=> /\ at \in (1 .. Len(from_engine)) \X Nat
                             /\ at[2] \in DOMAIN from_engine[at[1]]
                             /\ from_engine[at[1]][at[2]].child = ch
    BY <1>4 DEF Under
  <2>3. CASE at[1] = k + 1
    <3>1. ~(at[1] <= k)
      BY <2>3, <1>4
    <3>2. DOMAIN from_engine'[at[1]] = {}
      BY <2>3, <1>4, NoPieces
    <3> QED BY <3>1, <3>2, <2>1
  <2>4. CASE at[1] # k + 1
    <3>1. at[1] \in 1 .. k + 1 <=> at[1] \in 1 .. Len(from_engine) /\ at[1] <= k
      BY <2>4, <1>4
    <3>2. at \in (1 .. k + 1) \X Nat <=> at \in (1 .. Len(from_engine)) \X Nat /\ at[1] <= k
      BY <3>1
    <3>3. at \in (1 .. k + 1) \X Nat => at[1] \in 1 .. k
      BY <2>4, <1>4
    <3>4. at[1] \in 1 .. k => from_engine'[at[1]] = from_engine[at[1]]
      BY <1>4
    <3> QED BY <2>1, <2>2, <3>2, <3>3, <3>4
  <2> QED BY <2>3, <2>4
<1>7. \A ch : \A at \in Under(ch)' : at \in Under(ch) /\ at[1] \in Nat /\ OutputAt(at)' = OutputAt(at)
  <2> SUFFICES ASSUME NEW ch, NEW at \in Under(ch)'
               PROVE  at \in Under(ch) /\ at[1] \in Nat /\ OutputAt(at)' = OutputAt(at)
    OBVIOUS
  <2>1. at \in Under(ch) /\ at[1] <= k
    BY <1>6
  <2>2. at[1] \in 1 .. Len(from_engine)
    BY <2>1, <1>1, UnderType
  <2>3. at[1] \in 1 .. k
    BY <2>1, <2>2, <1>4
  <2> QED BY <2>1, <2>3, <1>4 DEF OutputAt
<1>8. EngineInv'
  <2>1. \A ch, type : Told(ch, type)' = {}
    <3>1. DOMAIN to_engine' = {}
      BY <1>2, NoPieces
    <3> QED BY <3>1 DEF Told
  <2>2. \A ch : Under(ch) = {} => Under(ch)' = {}
    BY <1>7
  <2>3. \A ch \in Child : engine'[ch].state = "gone" /\ engine'[ch].tokens = 0
    BY <1>2
  <2> QED BY <2>1, <2>2, <2>3, <1>1, <1>2 DEF EngineInv
<1>9. FlowInv'
  <2> SUFFICES ASSUME NEW ch \in op.request_states
               PROVE  \A at \in Under(ch)' :
                        /\ OutputAt(at)'.token > Len(op.output_token_ids[ch])
                        /\ \A j \in Len(op.output_token_ids[ch]) + 1 .. OutputAt(at)'.token :
                             \E to \in Under(ch)' : to[1] <= at[1] /\ OutputAt(to)'.token = j
                        /\ \A to \in Under(ch)' :
                             /\ at[1] < to[1] => OutputAt(at)'.token < OutputAt(to)'.token
                             /\ at[1] = to[1] => at = to
                        /\ OutputAt(at)'.reason = "length" =>
                             OutputAt(at)'.token = MaxTokens[CallOf(ch)]
    BY <1>2 DEF FlowInv
  <2> DEFINE n == Len(op.output_token_ids[ch])
  <2>1. \A at \in Under(ch) :
          /\ OutputAt(at).token > n
          /\ \A j \in n + 1 .. OutputAt(at).token :
               \E to \in Under(ch) : to[1] <= at[1] /\ OutputAt(to).token = j
          /\ \A to \in Under(ch) :
               /\ at[1] < to[1] => OutputAt(at).token < OutputAt(to).token
               /\ at[1] = to[1] => at = to
          /\ OutputAt(at).reason = "length" => OutputAt(at).token = MaxTokens[CallOf(ch)]
    BY <1>1 DEF FlowInv
  <2> HIDE DEF n
  <2> SUFFICES ASSUME NEW at \in Under(ch)'
               PROVE  /\ OutputAt(at)'.token > n
                      /\ \A j \in n + 1 .. OutputAt(at)'.token :
                           \E to \in Under(ch)' : to[1] <= at[1] /\ OutputAt(to)'.token = j
                      /\ \A to \in Under(ch)' :
                           /\ at[1] < to[1] => OutputAt(at)'.token < OutputAt(to)'.token
                           /\ at[1] = to[1] => at = to
                      /\ OutputAt(at)'.reason = "length" =>
                           OutputAt(at)'.token = MaxTokens[CallOf(ch)]
    BY DEF n
  <2>2. at \in Under(ch) /\ at[1] \in Nat /\ at[1] <= k /\ OutputAt(at)' = OutputAt(at)
    BY <1>6, <1>7
  <2>3. ASSUME NEW j \in n + 1 .. OutputAt(at).token
        PROVE  \E to \in Under(ch)' : to[1] <= at[1] /\ OutputAt(to)'.token = j
    <3>1. PICK to \in Under(ch) : to[1] <= at[1] /\ OutputAt(to).token = j
      BY <2>1, <2>2
    <3>2. to[1] \in 1 .. Len(from_engine)
      BY <1>1, UnderType
    <3>3. to[1] <= k
      BY <3>1, <3>2, <2>2, <1>4
    <3> QED BY <3>1, <3>3, <1>6, <1>7
  <2>4. ASSUME NEW to \in Under(ch)'
        PROVE  /\ at[1] < to[1] => OutputAt(at)'.token < OutputAt(to)'.token
               /\ at[1] = to[1] => at = to
    <3>1. to \in Under(ch) /\ OutputAt(to)' = OutputAt(to)
      BY <1>7
    <3> QED BY <3>1, <2>1, <2>2
  <2> QED BY <2>1, <2>2, <2>3, <2>4
<1>10. Live' = Live
  BY <1>2 DEF Live
<1>11. MapInv' /\ CallInv'
  BY <1>1, <1>2 DEF MapInv, CallInv
<1> QED BY <1>1, <1>2, <1>5, <1>8, <1>9, <1>10, <1>11 DEF FrontEndInv

LEMMA NoticeDeathHolds == FrontEndInv /\ NoticeDeath => FrontEndInv'
<1> SUFFICES ASSUME FrontEndInv, NoticeDeath PROVE FrontEndInv'
  OBVIOUS
<1>1. /\ VariableTypes /\ OPType(op) /\ TokensInOrder(op)
      /\ Accounted(op, op.request_states, Live, aborted_ids, received, ending)
      /\ MapInv /\ CallInv /\ FlowInv /\ EngineInv
  BY DEF FrontEndInv
<1>2. /\ engine_dead' = TRUE
      /\ UNCHANGED <<call, received, ending, op, to_engine, from_engine, to_abort, handler, engine,
                     engine_alive, aborted_ids>>
  BY DEF NoticeDeath, callerVars, engineVars
<1>3. VariableTypes'
  BY <1>1, <1>2 DEF VariableTypes
<1>4. EngineInv'
  <2>1. \A ch, type : Told(ch, type)' = Told(ch, type) /\ Under(ch)' = Under(ch)
    BY <1>2 DEF Told, Under
  <2> QED BY <2>1, <1>1, <1>2 DEF EngineInv
<1>5. FlowInv'
  BY <1>1, <1>2, FlowStays
<1>6. Live' = Live /\ MapInv' /\ CallInv'
  BY <1>1, <1>2 DEF Live, MapInv, CallInv
<1> QED BY <1>1, <1>2, <1>3, <1>4, <1>5, <1>6 DEF FrontEndInv

-----------------------------------------------------------------------------
(* The theorems *)

LEMMA StepHolds == FrontEndInv /\ [Next]_vars => FrontEndInv'
<1> SUFFICES ASSUME FrontEndInv, [Next]_vars PROVE FrontEndInv'
  OBVIOUS
<1>1. ASSUME NEW c \in Calls, NEW kind \in OutputKinds[c], Generate(c, kind) PROVE FrontEndInv'
  BY <1>1, GenerateHolds
<1>2. ASSUME NEW c \in Calls, Consume(c) PROVE FrontEndInv'
  BY <1>2, ConsumeHolds
<1>3. ASSUME NEW c \in Calls, Cancel(c) PROVE FrontEndInv'
  BY <1>3, CancelHolds
<1>4. ASSUME NEW x \in ExternalIds, Abort(x) PROVE FrontEndInv'
  BY <1>4, AbortHolds
<1>5. ASSUME NEW stop_string \in BOOLEAN, HandleChunk(stop_string) PROVE FrontEndInv'
  BY <1>5, HandleChunkHolds
<1>6. CASE HandleDeath
  BY <1>6, HandleDeathHolds
<1>7. CASE EngineReceive
  BY <1>7, EngineReceiveHolds
<1>8. CASE EngineSteps
  BY <1>8, EngineStepHolds DEF EngineSteps
<1>9. CASE EngineDies
  BY <1>9, EngineDiesHolds
<1>10. CASE NoticeDeath
  BY <1>10, NoticeDeathHolds
<1>11. CASE UNCHANGED vars
  <2>1. UNCHANGED <<call, received, ending, op, to_engine, from_engine, to_abort, handler, engine,
                    engine_alive, engine_dead, aborted_ids>>
    BY <1>11 DEF vars, callerVars, engineVars
  <2>2. \A ch, type : Told(ch, type)' = Told(ch, type) /\ Under(ch)' = Under(ch)
    BY <2>1 DEF Told, Under
  <2>3. FlowInv'
    BY <2>1, FlowStays DEF FrontEndInv
  <2>4. EngineInv'
    BY <2>1, <2>2 DEF FrontEndInv, EngineInv
  <2>5. Live' = Live
    BY <2>1 DEF Live
  <2>6. MapInv' /\ CallInv' /\ VariableTypes'
    BY <2>1 DEF FrontEndInv, MapInv, CallInv, VariableTypes
  <2> QED BY <2>1, <2>3, <2>4, <2>5, <2>6 DEF FrontEndInv
<1> QED BY <1>1, <1>2, <1>3, <1>4, <1>5, <1>6, <1>7, <1>8, <1>9, <1>10, <1>11 DEF Next

\* The inductive invariant: whatever the calls, the handler and the engine interleave
\* (async_llm.py, output_processor.py), the collectors, the maps, the outputs on their way
\* and the messages to the engine stay accounted for.
THEOREM Invariant == Spec => []FrontEndInv
<1>1. Init => FrontEndInv
  BY InitHolds
<1>2. FrontEndInv /\ [Next]_vars => FrontEndInv'
  BY StepHolds
<1> QED BY <1>1, <1>2, PTL DEF Spec

LEMMA TypeFollows == FrontEndInv => TypeOK
<1> SUFFICES ASSUME FrontEndInv PROVE TypeOK
  OBVIOUS
<1>1. VariableTypes /\ op \in OutputProcessors /\ OwnInv(op) /\ TokensInOrder(op)
  BY DEF FrontEndInv, OPType
<1>2. /\ op.request_states \subseteq Child
      /\ op.external_req_ids \in [ExternalIds -> SUBSET Child]
      /\ op.parent_requests \subseteq {c \in Calls : HasParent(c)}
      /\ op.output_kind \in [Calls -> Kinds]
      /\ op.sent_tokens_offset \in [Child -> Nat]
  BY <1>1 DEF OutputProcessors, OwnInv
<1>3. ASSUME NEW f \in Pieces, NEW c \in Calls, DOMAIN f \subseteq Children(c)
      PROVE  PiecesOf(f, c)
  <2>1. f \in [DOMAIN f -> Piece]
    BY <1>3, PieceType
  <2> QED BY <2>1, <1>3 DEF PiecesOf
<1>4. ASSUME NEW c \in Calls
      PROVE  /\ op.child_requests[c] \subseteq Children(c)
             /\ PiecesOf(op.output_aggregator[c], c)
             /\ PiecesOf(op.queue[c].outputs, c)
             /\ op.queue[c].finished \in BOOLEAN
             /\ op.queue[c].error \in BOOLEAN
  <2>1. /\ op.output_aggregator[c] \in Pieces
        /\ op.queue[c] \in [outputs : Pieces, finished : BOOLEAN, error : BOOLEAN]
    BY <1>1 DEF OutputProcessors
  <2>2. /\ op.child_requests[c] \subseteq Children(c)
        /\ DOMAIN op.output_aggregator[c] \subseteq Children(c)
        /\ DOMAIN op.queue[c].outputs \subseteq Children(c)
    BY <1>1 DEF OwnInv
  <2>3. op.queue[c].outputs \in Pieces
    BY <2>1
  <2> QED BY <2>1, <2>2, <2>3, <1>3
<1>5. ASSUME NEW ch \in Child
      PROVE  /\ Upto(op.output_token_ids[ch], Len(op.output_token_ids[ch]))
             /\ op.sent_tokens_offset[ch] <= Len(op.output_token_ids[ch])
  BY <1>1 DEF TokensInOrder, OwnInv
<1> QED BY <1>1, <1>2, <1>4, <1>5 DEF TypeOK, VariableTypes

\* Every variable keeps its type, the outputs that wait in a collector or an aggregator
\* are of the call's own samples, and tokens are appended in their order
\* (output_processor.py, process_outputs).
THEOREM TypeCorrect == Spec => []TypeOK
BY Invariant, TypeFollows, PTL

LEMMA AddUpFollows == FrontEndInv => DeltasAddUp
<1> SUFFICES ASSUME FrontEndInv, NEW ch \in Child,
                    op.output_kind[CallOf(ch)] = "DELTA",
                    call[CallOf(ch)] \in {"running", "done"},
                    ~op.queue[CallOf(ch)].error
             PROVE  received[ch] \o Pending(ch) =
                      SubSeq(op.output_token_ids[ch], 1,
                             IF StreamInterval > 1 THEN op.sent_tokens_offset[ch]
                             ELSE Len(op.output_token_ids[ch]))
  BY DEF DeltasAddUp
<1>1. CallOf(ch) \in Live
  BY Samples DEF Live
<1>2. DeltaInv(op, received, ch)
  BY <1>1 DEF FrontEndInv, Accounted, AccountInv
<1>3. Have(op, received, ch) = SubSeq(op.output_token_ids[ch], 1, Sent(op, ch))
  BY <1>2 DEF DeltaInv
<1>4. received[ch] \o <<>> = received[ch]
  <2>1. received[ch] \in Seq(Nat)
    BY DEF FrontEndInv, VariableTypes
  <2> QED BY <2>1, ConcatEmptySeq
<1>5. received[ch] \o Pending(ch) = Have(op, received, ch)
  BY <1>4 DEF Pending, Have, Queued
<1> QED BY <1>3, <1>5 DEF Sent

\* Deltas are merged when they wait (RequestOutputCollector.put) and held back until the
\* stream interval is full (make_request_output); no token is lost or sent twice.
THEOREM AddUp == Spec => []DeltasAddUp
BY Invariant, AddUpFollows, PTL

LEMMA WholeFollows == FrontEndInv => DoneMeansWhole
<1> SUFFICES ASSUME FrontEndInv, NEW c \in Calls, call[c] = "done", NEW ch \in Children(c)
             PROVE  /\ ch \notin op.request_states
                    /\ ending[ch] # Unfinished
                    /\ received[ch] = op.output_token_ids[ch]
                    /\ ending[ch] = "abort" => ExternalId[c] \in aborted_ids
                    /\ ending[ch] = "length" => Len(received[ch]) = MaxTokens[c]
  BY DEF DoneMeansWhole
<1>1. \A x \in Children(c) : x \in Child /\ CallOf(x) = c /\ x \notin op.request_states
                             /\ op.queue[c] = Nothing
  BY Samples DEF FrontEndInv, CallInv
<1>2. DOMAIN Nothing.outputs = {} /\ ~Nothing.error
  BY NoPieces DEF Nothing
<1>3. c \in Live
  BY DEF Live
<1>4. WholeInv(op, op.request_states, aborted_ids, received, ending, ch)
  BY <1>1, <1>2, <1>3 DEF FrontEndInv, Accounted, AccountInv
<1>5. Children(c) \intersect op.request_states = {}
  BY <1>1
<1>6. Whole(op, aborted_ids, ch, Have(op, received, ch), HaveReason(op, ending, ch))
  BY <1>1, <1>4, <1>5 DEF WholeInv
<1>7. Have(op, received, ch) = received[ch] /\ HaveReason(op, ending, ch) = ending[ch]
  BY <1>1, <1>2 DEF Have, HaveReason, Queued
<1> QED BY <1>1, <1>6, <1>7 DEF Whole

\* generate() ends without an exception only with every sample complete, and with the
\* reason it ended for, whoever else was cancelled or aborted in the meantime.
THEOREM Wholeness == Spec => []DoneMeansWhole
BY Invariant, WholeFollows, PTL

LEMMA OrphansFollow == FrontEndInv => NoOrphans
<1> SUFFICES ASSUME FrontEndInv, engine_alive, ~engine_dead, NEW ch \in Child,
                    engine[ch].state = "running" \/ Told(ch, "ADD") # {},
                    ch \notin op.request_states
             PROVE  ch \in to_abort \/ \E i \in Told(ch, "ABORT") : \A j \in Told(ch, "ADD") : j < i
  BY DEF NoOrphans, Told
<1>1. ch \in to_abort \/ Told(ch, "ABORT") # {}
  BY DEF FrontEndInv, EngineInv
<1>2. \A i \in Told(ch, "ADD"), j \in Told(ch, "ABORT") : i < j
  BY DEF FrontEndInv, EngineInv
<1> QED BY <1>1, <1>2

\* A request the front end has forgotten is aborted: by the call that was cancelled
\* (generate), by abort(), or by output_handler for a stop string, in the order in which
\* the engine reads its socket.
THEOREM Orphans == Spec => []NoOrphans
BY Invariant, OrphansFollow, PTL

LEMMA MapsFollow == FrontEndInv => MapsAgree
<1> SUFFICES ASSUME FrontEndInv PROVE MapsAgree
  OBVIOUS
<1>1. MapInv /\ FinishInv(op, op.request_states)
  BY DEF FrontEndInv, Accounted
<1> QED BY <1>1 DEF MapInv, FinishInv, MapsAgree

\* request_states, external_req_ids and parent_requests are changed apart, in add_request,
\* _finish_request and abort_requests; no entry of one outlives what it stands for in another.
THEOREM Maps == Spec => []MapsAgree
BY Invariant, MapsFollow, PTL
=============================================================================
