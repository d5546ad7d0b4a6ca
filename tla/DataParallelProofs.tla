------------------------- MODULE DataParallelProofs -------------------------
(***************************************************************************)
(* Proofs about the data-parallel deployment, for any number of engines,   *)
(* front ends, requests and pauses: the types, the order of the waves, the *)
(* stillness of paused engines, the discipline of the collective           *)
(* operations, and that nobody waits in one of them for an engine that     *)
(* will not come.                                                          *)
(***************************************************************************)
EXTENDS DataParallel, TLAPS

Starts == [wave : Nat, excluded : SUBSET Engines]
Wakeups == [target : Engines, wave : Nat]

-----------------------------------------------------------------------------
(* Sequences in functions *)

LEMMA AppendType ==
  ASSUME NEW S, NEW s \in Seq(S), NEW x \in S
  PROVE  Append(s, x) \in Seq(S)
OBVIOUS

LEMMA HeadTailType ==
  ASSUME NEW S, NEW s \in Seq(S), s # <<>>
  PROVE  Head(s) \in S /\ Tail(s) \in Seq(S)
OBVIOUS

LEMMA SubSeqType ==
  ASSUME NEW S, NEW s \in Seq(S), NEW k \in 0 .. Len(s)
  PROVE  SubSeq(s, k + 1, Len(s)) \in Seq(S) /\ (k # 0 => s[k] \in S)
OBVIOUS

LEMMA LenIsNat ==
  ASSUME NEW S, NEW s \in Seq(S)
  PROVE  Len(s) \in Nat
OBVIOUS

LEMMA SeqSubset ==
  ASSUME NEW S, NEW T, S \subseteq T, NEW s \in Seq(S)
  PROVE  s \in Seq(T)
OBVIOUS

LEMMA AppendAt ==
  ASSUME NEW A, NEW S, NEW g \in [A -> Seq(S)], NEW a \in A, NEW x \in S
  PROVE  [g EXCEPT ![a] = Append(@, x)] \in [A -> Seq(S)]
BY AppendType

LEMMA TailAt ==
  ASSUME NEW A, NEW S, NEW g \in [A -> Seq(S)], NEW a \in A, g[a] # <<>>
  PROVE  /\ Head(g[a]) \in S
         /\ [g EXCEPT ![a] = Tail(@)] \in [A -> Seq(S)]
BY HeadTailType

LEMMA AppendAtTwo ==
  ASSUME NEW A, NEW B, NEW S, NEW g \in [A -> [B -> Seq(S)]],
         NEW a \in A, NEW b \in B, NEW x \in S
  PROVE  [g EXCEPT ![a][b] = Append(@, x)] \in [A -> [B -> Seq(S)]]
BY AppendType

LEMMA TailAtTwo ==
  ASSUME NEW A, NEW B, NEW S, NEW g \in [A -> [B -> Seq(S)]],
         NEW a \in A, NEW b \in B, g[a][b] # <<>>
  PROVE  /\ Head(g[a][b]) \in S
         /\ [g EXCEPT ![a][b] = Tail(@)] \in [A -> [B -> Seq(S)]]
BY HeadTailType

LEMMA AppendToAll ==
  ASSUME NEW A, NEW B, NEW S, NEW g \in [A -> [B -> Seq(S)]], NEW a \in A, NEW x \in S
  PROVE  [g EXCEPT ![a] = [b \in B |-> Append(@[b], x)]] \in [A -> [B -> Seq(S)]]
<1>1. [b \in B |-> Append(g[a][b], x)] \in [B -> Seq(S)]
  BY AppendType
<1> QED BY <1>1

-----------------------------------------------------------------------------
(* Types *)

LEMMA ChannelFacts ==
  ASSUME TypeOK
  PROVE  /\ inputs \in [Fronts -> [Engines -> Seq(Messages)]]
         /\ starts \in [Engines -> Seq(Starts)]
         /\ notices \in [Engines -> Seq(Notices)]
         /\ firstReqs \in [Fronts -> Seq(Engines)]
         /\ wakeups \in [Fronts -> Seq(Wakeups)]
         /\ stats \in [Fronts -> Seq(View)]
BY DEF TypeOK, ChannelTypes, Starts, Wakeups

\* The initial values have their types.
LEMMA InitTypes == Init => TypeOK
<1> SUFFICES ASSUME Init PROVE TypeOK
  OBVIOUS
<1>1. EngineTypes
  BY DataParallelAssumption DEF Init, EngineTypes
<1>2. ClientTypes
  BY DataParallelAssumption DEF Init, ClientTypes, View, Statuses
<1>3. ChannelTypes
  BY DEF Init, ChannelTypes
<1> QED BY <1>1, <1>2, <1>3 DEF TypeOK

\* A request is sent.
LEMMA SendRequestTypes ==
  ASSUME TypeOK, NEW f \in Fronts, NEW e \in Engines, NEW r \in Requests,
         SendRequest(f, e, r)
  PROVE  TypeOK'
<1>1. status' \in [Requests -> Statuses]
  BY DEF SendRequest, TypeOK, ClientTypes, Statuses
<1>2. home' \in [Requests -> (Fronts \X Engines) \union {Nowhere}]
  BY DEF SendRequest, TypeOK, ClientTypes
<1>3. inputs' \in [Fronts -> [Engines -> Seq(Messages)]]
  <2>1. [type |-> "ADD", request |-> r, wave |-> front[f].wave] \in Messages
    BY DEF Messages, TypeOK, ClientTypes, View
  <2> QED BY <2>1, AppendAtTwo DEF SendRequest, ToEngine, TypeOK, ChannelTypes
<1>4. firstReqs' \in [Fronts -> Seq(Engines)]
  BY AppendAt DEF SendRequest, TypeOK, ChannelTypes
<1>5. UNCHANGED <<at, wave, running, steps, pauseState, pendingPause,
                  ignoring, callback, waiting, admitted, coord, front, phase,
                  pauses, answered, left, starts, notices, wakeups, stats>>
  BY DEF SendRequest, ToEngine, engineVars, clientVars, channels
<1>6. EngineTypes'
  BY <1>5 DEF TypeOK, EngineTypes
<1>7. ClientTypes'
  BY <1>1, <1>2, <1>5 DEF TypeOK, ClientTypes
<1>8. ChannelTypes'
  BY <1>3, <1>4, <1>5 DEF TypeOK, ChannelTypes, Starts, Wakeups
<1> QED BY <1>6, <1>7, <1>8 DEF TypeOK

\* A request that is under way has an engine and a front end.
HomesKnown ==
  \A r \in Requests : status[r] \in {"sent", "aborting"} => home[r] \in Fronts \X Engines

\* An abort is sent.
LEMMA SendAbortTypes ==
  ASSUME TypeOK, HomesKnown, NEW r \in Requests, SendAbort(r)
  PROVE  TypeOK'
<1>1. status' \in [Requests -> Statuses]
  BY DEF SendAbort, TypeOK, ClientTypes, Statuses
<1>2. inputs' \in [Fronts -> [Engines -> Seq(Messages)]]
  <2> DEFINE f == home[r][1]
             e == home[r][2]
             message == [type |-> "ABORT", request |-> r]
  <2>1. f \in Fronts /\ e \in Engines
    BY DEF SendAbort, HomesKnown
  <2>2. message \in Messages
    BY DEF Messages
  <2>3. inputs' = [inputs EXCEPT ![f][e] = Append(@, message)]
    BY DEF SendAbort, ToEngine
  <2>4. inputs \in [Fronts -> [Engines -> Seq(Messages)]]
    BY DEF TypeOK, ChannelTypes
  <2> HIDE DEF f, e, message
  <2> QED BY <2>1, <2>2, <2>3, <2>4, AppendAtTwo
<1>3. UNCHANGED <<at, wave, running, steps, pauseState, pendingPause,
                  ignoring, callback, waiting, admitted, coord, front, phase,
                  pauses, answered, left, home, starts, notices, firstReqs,
                  wakeups, stats>>
  BY DEF SendAbort, ToEngine, engineVars, clientVars, channels
<1>4. EngineTypes'
  BY <1>3 DEF TypeOK, EngineTypes
<1>5. ClientTypes'
  BY <1>1, <1>3 DEF TypeOK, ClientTypes
<1>6. ChannelTypes'
  BY <1>2, <1>3 DEF TypeOK, ChannelTypes, Starts, Wakeups
<1> QED BY <1>4, <1>5, <1>6 DEF TypeOK

\* The stats task forwards a FIRST_REQ.
LEMMA ForwardFirstReqTypes ==
  ASSUME TypeOK, NEW f \in Fronts, ForwardFirstReq(f)
  PROVE  TypeOK'
<1>1. front' \in [Fronts -> View]
  <2>1. [front[f] EXCEPT !.running = TRUE] \in View
    BY DEF TypeOK, ClientTypes, View
  <2>2. \A k \in 0..Len(stats[f]) : k # 0 => stats[f][k] \in View
    BY SubSeqType DEF TypeOK, ChannelTypes
  <2> QED BY <2>1, <2>2 DEF ForwardFirstReq, Drain, TypeOK, ClientTypes
<1>2. firstReqs' \in [Fronts -> Seq(Engines)]
  BY TailAt DEF ForwardFirstReq, TypeOK, ChannelTypes
<1>3. wakeups' \in [Fronts -> Seq(Wakeups)]
  <2> DEFINE message == [target |-> Head(firstReqs[f]), wave |-> front[f].wave]
  <2>1. message \in Wakeups
    BY TailAt DEF ForwardFirstReq, TypeOK, ChannelTypes, ClientTypes, View, Wakeups
  <2>2. wakeups' = [wakeups EXCEPT ![f] = Append(@, message)]
    BY DEF ForwardFirstReq
  <2> HIDE DEF message
  <2> QED BY <2>1, <2>2, AppendAt, ChannelFacts
<1>4. stats' \in [Fronts -> Seq(View)]
  <2>1. \A k \in 0..Len(stats[f]) : SubSeq(stats[f], k + 1, Len(stats[f])) \in Seq(View)
    BY SubSeqType DEF TypeOK, ChannelTypes
  <2> QED BY <2>1 DEF ForwardFirstReq, Drain, TypeOK, ChannelTypes
<1>5. UNCHANGED <<at, wave, running, steps, pauseState, pendingPause,
                  ignoring, callback, waiting, admitted, coord, phase, pauses,
                  answered, status, left, home, inputs, starts, notices>>
  BY DEF ForwardFirstReq, Drain, engineVars, clientVars, channels
<1>6. EngineTypes'
  BY <1>5 DEF TypeOK, EngineTypes
<1>7. ClientTypes'
  BY <1>1, <1>5 DEF TypeOK, ClientTypes
<1>8. ChannelTypes'
  BY <1>2, <1>3, <1>4, <1>5 DEF TypeOK, ChannelTypes, Starts, Wakeups
<1> QED BY <1>6, <1>7, <1>8 DEF TypeOK

\* The stats task reads publications.
LEMMA ReadStatsTypes ==
  ASSUME TypeOK, NEW f \in Fronts, ReadStats(f)
  PROVE  TypeOK'
<1>1. front' \in [Fronts -> View]
  <2>1. \A k \in 1..Len(stats[f]) : k \in 0..Len(stats[f]) /\ k # 0
    BY LenIsNat DEF TypeOK, ChannelTypes
  <2>2. \A k \in 1..Len(stats[f]) : stats[f][k] \in View
    BY <2>1, SubSeqType DEF TypeOK, ChannelTypes
  <2> QED BY <2>1, <2>2 DEF ReadStats, Drain, TypeOK, ClientTypes
<1>2. stats' \in [Fronts -> Seq(View)]
  <2>1. \A k \in 1..Len(stats[f]) : SubSeq(stats[f], k + 1, Len(stats[f])) \in Seq(View)
    BY SubSeqType DEF TypeOK, ChannelTypes
  <2> QED BY <2>1 DEF ReadStats, Drain, TypeOK, ChannelTypes
<1>3. UNCHANGED <<at, wave, running, steps, pauseState, pendingPause,
                  ignoring, callback, waiting, admitted, coord, phase, pauses,
                  answered, status, left, home, inputs, starts, notices,
                  firstReqs, wakeups>>
  BY DEF ReadStats, Drain, engineVars, clientVars, channels
<1>4. EngineTypes'
  BY <1>3 DEF TypeOK, EngineTypes
<1>5. ClientTypes'
  BY <1>1, <1>3 DEF TypeOK, ClientTypes
<1>6. ChannelTypes'
  BY <1>2, <1>3 DEF TypeOK, ChannelTypes, Starts, Wakeups
<1> QED BY <1>4, <1>5, <1>6 DEF TypeOK

\* The coordinator handles a FIRST_REQ.
LEMMA HandleWakeupTypes ==
  ASSUME TypeOK, NEW f \in Fronts, HandleWakeup(f)
  PROVE  TypeOK'
<1>1. coord' \in View
  BY DEF HandleWakeup, TypeOK, ClientTypes, View
<1>2. wakeups' \in [Fronts -> Seq(Wakeups)]
  <2>1. wakeups[f] # <<>> /\ wakeups' = [wakeups EXCEPT ![f] = Tail(@)]
    BY DEF HandleWakeup
  <2> QED BY <2>1, TailAt, ChannelFacts
<1>3. starts' \in [Engines -> Seq(Starts)]
  <2>1. \A x \in SUBSET Engines : [wave |-> coord.wave, excluded |-> x] \in Starts
    BY DEF TypeOK, ClientTypes, View, Starts
  <2>2. \/ UNCHANGED starts
        \/ \E x \in SUBSET Engines :
             starts' = [d \in Engines |-> Append(starts[d], [wave |-> coord.wave, excluded |-> x])]
    BY DEF HandleWakeup, Broadcast, IndexOfIdentity
  <2>3. CASE UNCHANGED starts
    BY <2>3, ChannelFacts
  <2>4. ASSUME NEW x \in Starts, starts' = [d \in Engines |-> Append(starts[d], x)]
        PROVE  starts' \in [Engines -> Seq(Starts)]
    BY <2>4, AppendType, ChannelFacts
  <2> QED BY <2>1, <2>2, <2>3, <2>4
<1>4. stats' \in [Fronts -> Seq(View)]
  <2>1. UNCHANGED stats \/ stats' = [d \in Fronts |-> Append(stats[d], coord')]
    BY DEF HandleWakeup, Publish
  <2>2. CASE UNCHANGED stats
    BY <2>2, ChannelFacts
  <2>3. CASE stats' = [d \in Fronts |-> Append(stats[d], coord')]
    BY <1>1, <2>3, AppendType, ChannelFacts
  <2> QED BY <2>1, <2>2, <2>3
<1>5. UNCHANGED <<at, wave, running, steps, pauseState, pendingPause,
                  ignoring, callback, waiting, admitted, front, phase, pauses,
                  answered, status, left, home, inputs, notices, firstReqs>>
  BY DEF HandleWakeup, Broadcast, Publish, engineVars, clientVars, channels
<1>6. EngineTypes'
  BY <1>5 DEF TypeOK, EngineTypes
<1>7. ClientTypes'
  BY <1>1, <1>5 DEF TypeOK, ClientTypes
<1>8. ChannelTypes'
  BY <1>3, <1>2, <1>4, <1>5 DEF TypeOK, ChannelTypes, Starts, Wakeups
<1> QED BY <1>6, <1>7, <1>8 DEF TypeOK

\* The client pauses the engines.
LEMMA PauseTypes ==
  ASSUME TypeOK, NEW mode \in Modes, Pause(mode)
  PROVE  TypeOK'
<1>1. phase' \in {"running", "pausing", "paused", "resuming"}
  BY DEF Pause, Call
<1>2. pauses' \in 0..MaxPauses
  BY DataParallelAssumption DEF Pause, TypeOK, ClientTypes
<1>3. answered' \in SUBSET Engines
  BY DEF Pause, Call
<1>4. inputs' \in [Fronts -> [Engines -> Seq(Messages)]]
  <2>1. [type |-> "PAUSE", mode |-> mode] \in Messages
    BY DEF Messages
  <2> QED BY <2>1, AppendToAll, DataParallelAssumption DEF Pause, Call, ToAllEngines, TypeOK, ChannelTypes
<1>5. UNCHANGED <<at, wave, running, steps, pauseState, pendingPause,
                  ignoring, callback, waiting, admitted, coord, front, status,
                  left, home, starts, notices, firstReqs, wakeups, stats>>
  BY DEF Pause, Call, ToAllEngines, engineVars, clientVars, channels
<1>6. EngineTypes'
  BY <1>5 DEF TypeOK, EngineTypes
<1>7. ClientTypes'
  BY <1>1, <1>2, <1>3, <1>5 DEF TypeOK, ClientTypes
<1>8. ChannelTypes'
  BY <1>4, <1>5 DEF TypeOK, ChannelTypes, Starts, Wakeups
<1> QED BY <1>6, <1>7, <1>8 DEF TypeOK

\* The client resumes them.
LEMMA ResumeTypes ==
  ASSUME TypeOK, Resume
  PROVE  TypeOK'
<1>1. phase' \in {"running", "pausing", "paused", "resuming"}
  BY DEF Resume, Call
<1>2. answered' \in SUBSET Engines
  BY DEF Resume, Call
<1>3. inputs' \in [Fronts -> [Engines -> Seq(Messages)]]
  <2>1. [type |-> "RESUME"] \in Messages
    BY DEF Messages
  <2> QED BY <2>1, AppendToAll, DataParallelAssumption DEF Resume, Call, ToAllEngines, TypeOK, ChannelTypes
<1>4. UNCHANGED <<at, wave, running, steps, pauseState, pendingPause,
                  ignoring, callback, waiting, admitted, coord, front, pauses,
                  status, left, home, starts, notices, firstReqs, wakeups,
                  stats>>
  BY DEF Resume, Call, ToAllEngines, engineVars, clientVars, channels
<1>5. EngineTypes'
  BY <1>4 DEF TypeOK, EngineTypes
<1>6. ClientTypes'
  BY <1>1, <1>2, <1>4 DEF TypeOK, ClientTypes
<1>7. ChannelTypes'
  BY <1>3, <1>4 DEF TypeOK, ChannelTypes, Starts, Wakeups
<1> QED BY <1>5, <1>6, <1>7 DEF TypeOK

\* The coordinator handles a notice of an engine.
LEMMA HandleNoticeTypes ==
  ASSUME TypeOK, NEW e \in Engines, HandleNotice(e)
  PROVE  TypeOK'
<1>1. coord' \in View
  <2>1. Head(notices[e]) \in Notices
    BY TailAt DEF HandleNotice, TypeOK, ChannelTypes
  <2>2. coord \in View /\ Head(notices[e]).wave \in Nat
    BY <2>1 DEF Notices, TypeOK, ClientTypes
  <2>3. \/ UNCHANGED coord
        \/ coord' = [wave |-> Head(notices[e]).wave + 1, running |-> FALSE]
        \/ coord' = [wave |-> Head(notices[e]).wave, running |-> TRUE]
    BY DEF HandleNotice, CompleteWave, StartWave
  <2> DEFINE w == Head(notices[e]).wave
  <2>4. w \in Nat /\ w + 1 \in Nat
    BY <2>2
  <2> HIDE DEF w
  <2>5. CASE coord' = [wave |-> w + 1, running |-> FALSE]
    BY <2>4, <2>5 DEF View
  <2>6. CASE coord' = [wave |-> w, running |-> TRUE]
    BY <2>4, <2>6 DEF View
  <2> QED BY <2>2, <2>3, <2>5, <2>6 DEF w
<1>2. notices' \in [Engines -> Seq(Notices)]
  BY TailAt DEF HandleNotice, TypeOK, ChannelTypes
<1>3. starts' \in [Engines -> Seq(Starts)]
  <2>1. Head(notices[e]) \in Notices
    BY TailAt DEF HandleNotice, TypeOK, ChannelTypes
  <2>2. [wave |-> Head(notices[e]).wave, excluded |-> {e}] \in Starts
    BY <2>1 DEF Notices, Starts
  <2>3. CASE UNCHANGED starts
    BY <2>3 DEF TypeOK, ChannelTypes, Starts
  <2>4. CASE starts' = [d \in Engines |->
                 Append(starts[d], [wave |-> Head(notices[e]).wave, excluded |-> {e}])]
    BY <2>2, <2>4, AppendType DEF TypeOK, ChannelTypes, Starts
  <2> QED BY <2>3, <2>4 DEF HandleNotice, CompleteWave, StartWave, Broadcast
<1>4. stats' \in [Fronts -> Seq(View)]
  <2>1. UNCHANGED stats \/ stats' = [d \in Fronts |-> Append(stats[d], coord')]
    BY DEF HandleNotice, CompleteWave, StartWave, Publish
  <2>2. CASE UNCHANGED stats
    BY <2>2, ChannelFacts
  <2>3. CASE stats' = [d \in Fronts |-> Append(stats[d], coord')]
    BY <1>1, <2>3, AppendType, ChannelFacts
  <2> QED BY <2>1, <2>2, <2>3
<1>5. UNCHANGED <<at, wave, running, steps, pauseState, pendingPause,
                  ignoring, callback, waiting, admitted, front, phase, pauses,
                  answered, status, left, home, inputs, firstReqs, wakeups>>
  BY DEF HandleNotice, CompleteWave, StartWave, Broadcast, Publish,
         engineVars, clientVars, channels
<1>6. EngineTypes'
  BY <1>5 DEF TypeOK, EngineTypes
<1>7. ClientTypes'
  BY <1>1, <1>5 DEF TypeOK, ClientTypes
<1>8. ChannelTypes'
  BY <1>3, <1>2, <1>4, <1>5 DEF TypeOK, ChannelTypes, Starts, Wakeups
<1> QED BY <1>6, <1>7, <1>8 DEF TypeOK

\* The coordinator publishes its state.
LEMMA PublishStatsTypes ==
  ASSUME TypeOK, PublishStats
  PROVE  TypeOK'
<1>1. stats' \in [Fronts -> Seq(View)]
  BY AppendType DEF PublishStats, Publish, TypeOK, ChannelTypes, ClientTypes
<1>2. UNCHANGED <<at, wave, running, steps, pauseState, pendingPause,
                  ignoring, callback, waiting, admitted, coord, front, phase,
                  pauses, answered, status, left, home, inputs, starts,
                  notices, firstReqs, wakeups>>
  BY DEF PublishStats, Publish, engineVars, clientVars, channels
<1>3. EngineTypes'
  BY <1>2 DEF TypeOK, EngineTypes
<1>4. ClientTypes'
  BY <1>2 DEF TypeOK, ClientTypes
<1>5. ChannelTypes'
  BY <1>1, <1>2 DEF TypeOK, ChannelTypes, Starts, Wakeups
<1> QED BY <1>3, <1>4, <1>5 DEF TypeOK

\* An engine takes in a request.
LEMMA HandleAddTypes ==
  ASSUME TypeOK, NEW f \in Fronts, NEW e \in Engines, HandleAdd(f, e)
  PROVE  TypeOK'
<1> DEFINE message == Head(inputs[f][e])
<1>m. message \in Messages /\ inputs' \in [Fronts -> [Engines -> Seq(Messages)]]
  BY TailAtTwo DEF HandleAdd, Receive, TypeOK, ChannelTypes
<1>1. inputs' \in [Fronts -> [Engines -> Seq(Messages)]]
  BY <1>m
<1>2. waiting' \in [Engines -> SUBSET Requests]
  <2>1. message.request \in Requests
    BY <1>m DEF HandleAdd, Receive, Messages
  <2> QED BY <2>1 DEF HandleAdd, TypeOK, EngineTypes
<1>3. wave' \in [Engines -> Nat]
  <2>1. message.wave \in Nat
    BY <1>m DEF HandleAdd, Receive, Messages
  <2> QED BY <2>1 DEF HandleAdd, TypeOK, EngineTypes
<1>4. running' \in [Engines -> BOOLEAN]
  BY DEF HandleAdd, Late, TypeOK, EngineTypes
<1>5. notices' \in [Engines -> Seq(Notices)]
  <2>1. [type |-> "start", wave |-> wave[e]] \in Notices
    BY DEF TypeOK, EngineTypes, Notices
  <2> QED BY <2>1, AppendAt DEF HandleAdd, TypeOK, ChannelTypes
<1>6. UNCHANGED <<at, steps, pauseState, pendingPause, ignoring, callback,
                  admitted, coord, front, phase, pauses, answered, status,
                  left, home, starts, firstReqs, wakeups, stats>>
  BY DEF HandleAdd, Receive, engineVars, clientVars, channels
<1>7. EngineTypes'
  BY <1>3, <1>4, <1>2, <1>6 DEF TypeOK, EngineTypes
<1>8. ClientTypes'
  BY <1>6 DEF TypeOK, ClientTypes
<1>9. ChannelTypes'
  BY <1>1, <1>5, <1>6 DEF TypeOK, ChannelTypes, Starts, Wakeups
<1> QED BY <1>7, <1>8, <1>9 DEF TypeOK

\* An engine takes in an abort.
LEMMA HandleAbortTypes ==
  ASSUME TypeOK, NEW f \in Fronts, NEW e \in Engines, HandleAbort(f, e)
  PROVE  TypeOK'
<1> DEFINE message == Head(inputs[f][e])
<1>m. message \in Messages /\ inputs' \in [Fronts -> [Engines -> Seq(Messages)]]
  BY TailAtTwo DEF HandleAbort, Receive, TypeOK, ChannelTypes
<1>1. inputs' \in [Fronts -> [Engines -> Seq(Messages)]]
  BY <1>m
<1>2. waiting' \in [Engines -> SUBSET Requests]
  BY DEF HandleAbort, Finish, TypeOK, EngineTypes
<1>3. admitted' \in [Engines -> SUBSET Requests]
  BY DEF HandleAbort, Finish, TypeOK, EngineTypes
<1>4. status' \in [Requests -> Statuses]
  BY DEF HandleAbort, Finish, Done, TypeOK, ClientTypes, Statuses
<1>5. home' \in [Requests -> (Fronts \X Engines) \union {Nowhere}]
  BY DEF HandleAbort, Finish, Done, TypeOK, ClientTypes
<1>6. UNCHANGED <<at, wave, running, steps, pauseState, pendingPause,
                  ignoring, callback, coord, front, phase, pauses, answered,
                  left, starts, notices, firstReqs, wakeups, stats>>
  BY DEF HandleAbort, Receive, Finish, Done, engineVars, clientVars, channels
<1>7. EngineTypes'
  BY <1>2, <1>3, <1>6 DEF TypeOK, EngineTypes
<1>8. ClientTypes'
  BY <1>4, <1>5, <1>6 DEF TypeOK, ClientTypes
<1>9. ChannelTypes'
  BY <1>1, <1>6 DEF TypeOK, ChannelTypes, Starts, Wakeups
<1> QED BY <1>7, <1>8, <1>9 DEF TypeOK

\* An engine takes in a call of pause_scheduler.
LEMMA HandlePauseTypes ==
  ASSUME TypeOK, NEW f \in Fronts, NEW e \in Engines, HandlePause(f, e)
  PROVE  TypeOK'
<1> DEFINE message == Head(inputs[f][e])
<1>m. message \in Messages /\ inputs' \in [Fronts -> [Engines -> Seq(Messages)]]
  BY TailAtTwo DEF HandlePause, Receive, TypeOK, ChannelTypes
<1>1. inputs' \in [Fronts -> [Engines -> Seq(Messages)]]
  BY <1>m
<1>2. waiting' \in [Engines -> SUBSET Requests]
  BY DEF HandlePause, Finish, TypeOK, EngineTypes
<1>3. admitted' \in [Engines -> SUBSET Requests]
  BY DEF HandlePause, Finish, TypeOK, EngineTypes
<1>4. status' \in [Requests -> Statuses]
  BY DEF HandlePause, Finish, Done, TypeOK, ClientTypes, Statuses
<1>5. home' \in [Requests -> (Fronts \X Engines) \union {Nowhere}]
  BY DEF HandlePause, Finish, Done, TypeOK, ClientTypes
<1>6. pauseState' \in [Engines -> {"UNPAUSED", "PAUSED_NEW", "PAUSED_ALL"}]
  BY DEF HandlePause, TypeOK, EngineTypes
<1>7. pendingPause' \in [Engines -> BOOLEAN]
  BY DEF HandlePause, TypeOK, EngineTypes
<1>8. running' \in [Engines -> BOOLEAN]
  BY DEF HandlePause, TypeOK, EngineTypes
<1>9. callback' \in [Engines -> BOOLEAN]
  BY DEF HandlePause, TypeOK, EngineTypes
<1>10. UNCHANGED <<at, wave, steps, ignoring, coord, front, phase, pauses,
                   answered, left, starts, notices, firstReqs, wakeups, stats>>
  BY DEF HandlePause, Receive, Finish, Done, engineVars, clientVars, channels
<1>11. EngineTypes'
  BY <1>8, <1>6, <1>7, <1>9, <1>2, <1>3, <1>10 DEF TypeOK, EngineTypes
<1>12. ClientTypes'
  BY <1>4, <1>5, <1>10 DEF TypeOK, ClientTypes
<1>13. ChannelTypes'
  BY <1>1, <1>10 DEF TypeOK, ChannelTypes, Starts, Wakeups
<1> QED BY <1>11, <1>12, <1>13 DEF TypeOK

\* An engine takes in a call of resume_scheduler.
LEMMA HandleResumeTypes ==
  ASSUME TypeOK, NEW f \in Fronts, NEW e \in Engines, HandleResume(f, e)
  PROVE  TypeOK'
<1> DEFINE message == Head(inputs[f][e])
<1>m. message \in Messages /\ inputs' \in [Fronts -> [Engines -> Seq(Messages)]]
  BY TailAtTwo DEF HandleResume, Receive, TypeOK, ChannelTypes
<1>1. inputs' \in [Fronts -> [Engines -> Seq(Messages)]]
  BY <1>m
<1>2. at' \in [Engines -> {"loop", "forward", "sync", "resume"}]
  BY DEF HandleResume, TypeOK, EngineTypes
<1>3. pauseState' \in [Engines -> {"UNPAUSED", "PAUSED_NEW", "PAUSED_ALL"}]
  BY DEF HandleResume, TypeOK, EngineTypes
<1>4. ignoring' \in [Engines -> BOOLEAN]
  BY DEF HandleResume, TypeOK, EngineTypes
<1>5. phase' \in {"running", "pausing", "paused", "resuming"}
  BY DEF HandleResume, Answer, TypeOK, ClientTypes
<1>6. answered' \in SUBSET Engines
  BY DEF HandleResume, Answer, TypeOK, ClientTypes
<1>7. UNCHANGED <<wave, running, steps, pendingPause, callback, waiting,
                  admitted, coord, front, pauses, status, left, home, starts,
                  notices, firstReqs, wakeups, stats>>
  BY DEF HandleResume, Receive, Answer, engineVars, clientVars, channels
<1>8. EngineTypes'
  BY <1>2, <1>3, <1>4, <1>7 DEF TypeOK, EngineTypes
<1>9. ClientTypes'
  BY <1>5, <1>6, <1>7 DEF TypeOK, ClientTypes
<1>10. ChannelTypes'
  BY <1>1, <1>7 DEF TypeOK, ChannelTypes, Starts, Wakeups
<1> QED BY <1>8, <1>9, <1>10 DEF TypeOK

\* An engine takes in a START_DP_WAVE.
LEMMA HandleStartTypes ==
  ASSUME TypeOK, NEW e \in Engines, HandleStart(e)
  PROVE  TypeOK'
<1>1. starts' \in [Engines -> Seq(Starts)]
  BY TailAt DEF HandleStart, TypeOK, ChannelTypes, Starts
<1>2. wave' \in [Engines -> Nat]
  <2>1. Head(starts[e]).wave \in Nat
    <3>1. Head(starts[e]) \in Starts
      BY TailAt, ChannelFacts DEF HandleStart
    <3> QED BY <3>1 DEF Starts
  <2> QED BY <2>1 DEF HandleStart, TypeOK, EngineTypes
<1>3. running' \in [Engines -> BOOLEAN]
  BY DEF HandleStart, Obeys, TypeOK, EngineTypes
<1>4. UNCHANGED <<at, steps, pauseState, pendingPause, ignoring, callback,
                  waiting, admitted, coord, front, phase, pauses, answered,
                  status, left, home, inputs, notices, firstReqs, wakeups,
                  stats>>
  BY DEF HandleStart, engineVars, clientVars, channels
<1>5. EngineTypes'
  BY <1>2, <1>3, <1>4 DEF TypeOK, EngineTypes
<1>6. ClientTypes'
  BY <1>4 DEF TypeOK, ClientTypes
<1>7. ChannelTypes'
  BY <1>1, <1>4 DEF TypeOK, ChannelTypes, Starts, Wakeups
<1> QED BY <1>5, <1>6, <1>7 DEF TypeOK

\* An engine without work answers a pause.
LEMMA AnswerPauseTypes ==
  ASSUME TypeOK, NEW e \in Engines, AnswerPause(e)
  PROVE  TypeOK'
<1>1. callback' \in [Engines -> BOOLEAN]
  BY DEF AnswerPause, TypeOK, EngineTypes
<1>2. phase' \in {"running", "pausing", "paused", "resuming"}
  BY DEF AnswerPause, Answer, TypeOK, ClientTypes
<1>3. answered' \in SUBSET Engines
  BY DEF AnswerPause, Answer, TypeOK, ClientTypes
<1>4. UNCHANGED <<at, wave, running, steps, pauseState, pendingPause,
                  ignoring, waiting, admitted, coord, front, pauses, status,
                  left, home, inputs, starts, notices, firstReqs, wakeups,
                  stats>>
  BY DEF AnswerPause, Answer, engineVars, clientVars, channels
<1>5. EngineTypes'
  BY <1>1, <1>4 DEF TypeOK, EngineTypes
<1>6. ClientTypes'
  BY <1>2, <1>3, <1>4 DEF TypeOK, ClientTypes
<1>7. ChannelTypes'
  BY <1>4 DEF TypeOK, ChannelTypes, Starts, Wakeups
<1> QED BY <1>5, <1>6, <1>7 DEF TypeOK

\* An engine enters a forward pass.
LEMMA BeginStepTypes ==
  ASSUME TypeOK, NEW e \in Engines, BeginStep(e)
  PROVE  TypeOK'
<1>1. at' \in [Engines -> {"loop", "forward", "sync", "resume"}]
  BY DEF BeginStep, TypeOK, EngineTypes
<1>2. UNCHANGED <<wave, running, steps, pauseState, pendingPause, ignoring,
                  callback, waiting, admitted, coord, front, phase, pauses,
                  answered, status, left, home, inputs, starts, notices,
                  firstReqs, wakeups, stats>>
  BY DEF BeginStep, engineVars, clientVars, channels
<1>3. EngineTypes'
  BY <1>1, <1>2 DEF TypeOK, EngineTypes
<1>4. ClientTypes'
  BY <1>2 DEF TypeOK, ClientTypes
<1>5. ChannelTypes'
  BY <1>2 DEF TypeOK, ChannelTypes, Starts, Wakeups
<1> QED BY <1>3, <1>4, <1>5 DEF TypeOK

\* An abort overtakes the input queue.
LEMMA AbortDuringStepTypes ==
  ASSUME TypeOK, NEW f \in Fronts, NEW e \in Engines, NEW r \in Requests,
         AbortDuringStep(f, e, r)
  PROVE  TypeOK'
<1>1. waiting' \in [Engines -> SUBSET Requests]
  BY DEF AbortDuringStep, Finish, TypeOK, EngineTypes
<1>2. admitted' \in [Engines -> SUBSET Requests]
  BY DEF AbortDuringStep, Finish, TypeOK, EngineTypes
<1>3. status' \in [Requests -> Statuses]
  BY DEF AbortDuringStep, Finish, Done, TypeOK, ClientTypes, Statuses
<1>4. home' \in [Requests -> (Fronts \X Engines) \union {Nowhere}]
  BY DEF AbortDuringStep, Finish, Done, TypeOK, ClientTypes
<1>5. UNCHANGED <<at, wave, running, steps, pauseState, pendingPause,
                  ignoring, callback, coord, front, phase, pauses, answered,
                  left, inputs, starts, notices, firstReqs, wakeups, stats>>
  BY DEF AbortDuringStep, Finish, Done, engineVars, clientVars, channels
<1>6. EngineTypes'
  BY <1>1, <1>2, <1>5 DEF TypeOK, EngineTypes
<1>7. ClientTypes'
  BY <1>3, <1>4, <1>5 DEF TypeOK, ClientTypes
<1>8. ChannelTypes'
  BY <1>5 DEF TypeOK, ChannelTypes, Starts, Wakeups
<1> QED BY <1>6, <1>7, <1>8 DEF TypeOK

\* A forward pass ends.
LEMMA EndForwardTypes ==
  ASSUME TypeOK, EndForward
  PROVE  TypeOK'
<1>1. left' \in [Requests -> Nat \ {0}]
  BY DataParallelAssumption DEF EndForward, TypeOK, ClientTypes
<1>2. status' \in [Requests -> Statuses]
  BY DEF EndForward, Done, TypeOK, ClientTypes, Statuses
<1>3. home' \in [Requests -> (Fronts \X Engines) \union {Nowhere}]
  BY DEF EndForward, Done, TypeOK, ClientTypes
<1>4. waiting' \in [Engines -> SUBSET Requests]
  BY DEF EndForward, TypeOK, EngineTypes
<1>5. admitted' \in [Engines -> SUBSET Requests]
  <2>1. \A e \in Engines : Batch(e) \subseteq Requests
    BY DEF Batch, TypeOK, EngineTypes
  <2> QED BY <2>1 DEF EndForward, TypeOK, EngineTypes
<1>6. steps' \in [Engines -> 0..SyncEvery - 1]
  <2>1. \A n \in 0..SyncEvery - 1 : NextStep(n) \in 0..SyncEvery - 1
    BY DataParallelAssumption DEF NextStep
  <2> QED BY <2>1 DEF EndForward, TypeOK, EngineTypes
<1>7. at' \in [Engines -> {"loop", "forward", "sync", "resume"}]
  BY DEF EndForward
<1>8. running' \in [Engines -> BOOLEAN]
  BY DEF EndForward, TypeOK, EngineTypes
<1>9. UNCHANGED <<wave, pauseState, pendingPause, ignoring, callback, coord,
                  front, phase, pauses, answered, inputs, starts, notices,
                  firstReqs, wakeups, stats>>
  BY DEF EndForward, Done, engineVars, clientVars, channels
<1>10. EngineTypes'
  BY <1>7, <1>8, <1>6, <1>4, <1>5, <1>9 DEF TypeOK, EngineTypes
<1>11. ClientTypes'
  BY <1>2, <1>1, <1>3, <1>9 DEF TypeOK, ClientTypes
<1>12. ChannelTypes'
  BY <1>9 DEF TypeOK, ChannelTypes, Starts, Wakeups
<1> QED BY <1>10, <1>11, <1>12 DEF TypeOK

\* The engines meet in the all-reduce.
LEMMA SyncTypes ==
  ASSUME TypeOK, Sync
  PROVE  TypeOK'
<1>1. at' \in [Engines -> {"loop", "forward", "sync", "resume"}]
  BY DEF Sync
<1>2. ignoring' \in [Engines -> BOOLEAN]
  BY DEF Sync, TypeOK, EngineTypes
<1>3. pendingPause' \in [Engines -> BOOLEAN]
  BY DEF Sync, TypeOK, EngineTypes
<1>4. running' \in [Engines -> BOOLEAN]
  BY DEF Sync, HasUnfinished, Unfinished
<1>5. wave' \in [Engines -> Nat]
  BY DEF Sync, WaveAfter, TypeOK, EngineTypes
<1>6. notices' \in [Engines -> Seq(Notices)]
  <2> DEFINE notice == [type |-> "complete", wave |-> wave[Rank0]]
  <2>1. notice \in Notices
    BY DataParallelAssumption DEF TypeOK, EngineTypes, Notices
  <2>2. UNCHANGED notices \/ notices' = [notices EXCEPT ![Rank0] = Append(@, notice)]
    BY DEF Sync
  <2> HIDE DEF notice
  <2>3. Rank0 \in Engines /\ notices \in [Engines -> Seq(Notices)]
    BY ChannelFacts, DataParallelAssumption
  <2>4. [notices EXCEPT ![Rank0] = Append(@, notice)] \in [Engines -> Seq(Notices)]
    BY <2>1, <2>3, AppendAt
  <2> QED BY <2>2, <2>3, <2>4
<1>7. UNCHANGED <<steps, pauseState, callback, waiting, admitted, coord,
                  front, phase, pauses, answered, status, left, home, inputs,
                  starts, firstReqs, wakeups, stats>>
  BY DEF Sync, engineVars, clientVars, channels
<1>8. EngineTypes'
  BY <1>1, <1>5, <1>4, <1>3, <1>2, <1>7 DEF TypeOK, EngineTypes
<1>9. ClientTypes'
  BY <1>7 DEF TypeOK, ClientTypes
<1>10. ChannelTypes'
  BY <1>6, <1>7 DEF TypeOK, ChannelTypes, Starts, Wakeups
<1> QED BY <1>8, <1>9, <1>10 DEF TypeOK

\* The engines meet in the all-reduce of resume_scheduler.
LEMMA EndResumeTypes ==
  ASSUME TypeOK, EndResume
  PROVE  TypeOK'
<1>1. at' \in [Engines -> {"loop", "forward", "sync", "resume"}]
  BY DEF EndResume
<1>2. running' \in [Engines -> BOOLEAN]
  BY DEF EndResume, Restarts, HasUnfinished, TypeOK, EngineTypes
<1>3. phase' \in {"running", "pausing", "paused", "resuming"}
  BY DEF EndResume, Answer, TypeOK, ClientTypes
<1>4. answered' \in SUBSET Engines
  BY DEF EndResume, Answer, TypeOK, ClientTypes
<1>5. UNCHANGED <<wave, steps, pauseState, pendingPause, ignoring, callback,
                  waiting, admitted, coord, front, pauses, status, left, home,
                  inputs, starts, notices, firstReqs, wakeups, stats>>
  BY DEF EndResume, Answer, engineVars, clientVars, channels
<1>6. EngineTypes'
  BY <1>1, <1>2, <1>5 DEF TypeOK, EngineTypes
<1>7. ClientTypes'
  BY <1>3, <1>4, <1>5 DEF TypeOK, ClientTypes
<1>8. ChannelTypes'
  BY <1>5 DEF TypeOK, ChannelTypes, Starts, Wakeups
<1> QED BY <1>6, <1>7, <1>8 DEF TypeOK

-----------------------------------------------------------------------------
\* What a finished request loses is its home.
LEMMA DoneKeepsHomes ==
  ASSUME TypeOK, HomesKnown, NEW rs, Done(rs)
  PROVE  HomesKnown'
BY DEF Done, HomesKnown, TypeOK, ClientTypes

\* Steps that touch neither keep the homes known.
LEMMA SameHomes ==
  ASSUME HomesKnown, UNCHANGED <<status, home>>
  PROVE  HomesKnown'
BY DEF HomesKnown

LEMMA InitHomes == Init => HomesKnown
BY DEF Init, HomesKnown

\* Types and homes are kept by every step.
LEMMA TypesNext ==
  ASSUME TypeOK, HomesKnown, [Next]_vars
  PROVE  TypeOK' /\ HomesKnown'
<1>1. ASSUME NEW f \in Fronts, NEW e \in Engines, NEW r \in Requests, SendRequest(f, e, r)
      PROVE  TypeOK' /\ HomesKnown'
  <2>1. HomesKnown'
    BY <1>1 DEF SendRequest, HomesKnown, TypeOK, ClientTypes
  <2> QED BY <1>1, <2>1, SendRequestTypes
<1>2. ASSUME NEW r \in Requests, SendAbort(r)
      PROVE  TypeOK' /\ HomesKnown'
  <2>1. HomesKnown'
    BY <1>2 DEF SendAbort, HomesKnown, TypeOK, ClientTypes
  <2> QED BY <1>2, <2>1, SendAbortTypes
<1>3. ASSUME NEW f \in Fronts, ForwardFirstReq(f) \/ ReadStats(f) \/ HandleWakeup(f)
      PROVE  TypeOK' /\ HomesKnown'
  <2>1. UNCHANGED <<status, home>>
    BY <1>3 DEF ForwardFirstReq, ReadStats, HandleWakeup, clientVars
  <2> QED BY <1>3, <2>1, SameHomes, ForwardFirstReqTypes, ReadStatsTypes, HandleWakeupTypes
<1>4. ASSUME NEW mode \in Modes, Pause(mode)
      PROVE  TypeOK' /\ HomesKnown'
  <2>1. UNCHANGED <<status, home>>
    BY <1>4 DEF Pause, Call
  <2> QED BY <1>4, <2>1, SameHomes, PauseTypes
<1>5. CASE Resume \/ PublishStats \/ Sync \/ EndResume
  <2>1. UNCHANGED <<status, home>>
    BY <1>5 DEF Resume, Call, PublishStats, Sync, EndResume, clientVars
  <2> QED BY <1>5, <2>1, SameHomes, ResumeTypes, PublishStatsTypes, SyncTypes, EndResumeTypes
<1>6. ASSUME NEW e \in Engines, HandleNotice(e) \/ HandleStart(e) \/ AnswerPause(e) \/ BeginStep(e)
      PROVE  TypeOK' /\ HomesKnown'
  <2>1. UNCHANGED <<status, home>>
    BY <1>6 DEF HandleNotice, HandleStart, AnswerPause, BeginStep, clientVars
  <2> QED BY <1>6, <2>1, SameHomes, HandleNoticeTypes, HandleStartTypes, AnswerPauseTypes,
             BeginStepTypes
<1>7. ASSUME NEW f \in Fronts, NEW e \in Engines, HandleAdd(f, e) \/ HandleResume(f, e)
      PROVE  TypeOK' /\ HomesKnown'
  <2>1. UNCHANGED <<status, home>>
    BY <1>7 DEF HandleAdd, HandleResume, clientVars
  <2> QED BY <1>7, <2>1, SameHomes, HandleAddTypes, HandleResumeTypes
<1>8. ASSUME NEW f \in Fronts, NEW e \in Engines, HandleAbort(f, e) \/ HandlePause(f, e)
      PROVE  TypeOK' /\ HomesKnown'
  <2>1. \E rs : Done(rs)
    BY <1>8 DEF HandleAbort, HandlePause, Finish
  <2> QED BY <1>8, <2>1, DoneKeepsHomes, HandleAbortTypes, HandlePauseTypes
<1>9. ASSUME NEW f \in Fronts, NEW e \in Engines, NEW r \in Requests, AbortDuringStep(f, e, r)
      PROVE  TypeOK' /\ HomesKnown'
  <2>1. \E rs : Done(rs)
    BY <1>9 DEF AbortDuringStep, Finish
  <2> QED BY <1>9, <2>1, DoneKeepsHomes, AbortDuringStepTypes
<1>10. CASE EndForward
  <2>1. \E rs : Done(rs)
    BY <1>10 DEF EndForward
  <2> QED BY <1>10, <2>1, DoneKeepsHomes, EndForwardTypes
<1>11. CASE UNCHANGED vars
  BY <1>11 DEF vars, engineVars, clientVars, channels, TypeOK, EngineTypes, ClientTypes,
       ChannelTypes, HomesKnown
<1> QED
  BY <1>1, <1>2, <1>3, <1>4, <1>5, <1>6, <1>7, <1>8, <1>9, <1>10, <1>11
  DEF Next, Progress, Environment, Engine, Handle, Together

\* The state of every process and what is in every channel has its type.
THEOREM DataParallelTypeCorrect == Spec => []TypeOK
<1>1. Init => TypeOK /\ HomesKnown
  BY InitTypes, InitHomes
<1>2. TypeOK /\ HomesKnown /\ [Next]_vars => (TypeOK /\ HomesKnown)'
  BY TypesNext
<1> QED BY <1>1, <1>2, PTL DEF Spec

-----------------------------------------------------------------------------
(* Waves *)

AddsUpTo(w) == {m \in Messages : m.type = "ADD" => m.wave <= w}
StartsUpTo(w) == {m \in Starts : m.wave <= w}
ViewsUpTo(w) == {v \in View : v.wave <= w}
NoticesUpTo(w) == {m \in Notices : m.wave <= w /\ (m.type = "complete" => m.wave < w)}

\* What carries a wave: nothing that the coordinator has still to hear of is ahead
\* of the engines, and nothing else is ahead of the coordinator.
WavesInv ==
  /\ \A e \in Engines : wave[e] = wave[Rank0]
  /\ coord.wave <= wave[Rank0]
  /\ front \in [Fronts -> ViewsUpTo(coord.wave)]
  /\ inputs \in [Fronts -> [Engines -> Seq(AddsUpTo(coord.wave))]]
  /\ starts \in [Engines -> Seq(StartsUpTo(coord.wave))]
  /\ stats \in [Fronts -> Seq(ViewsUpTo(coord.wave))]
  /\ notices \in [Engines -> Seq(NoticesUpTo(wave[Rank0]))]

LEMMA WavesAreNat ==
  ASSUME TypeOK
  PROVE  /\ Rank0 \in Engines
         /\ wave \in [Engines -> Nat]
         /\ wave[Rank0] \in Nat
         /\ coord \in View
         /\ coord.wave \in Nat
BY DataParallelAssumption DEF TypeOK, EngineTypes, ClientTypes, View

LEMMA UpToGrow ==
  ASSUME NEW v \in Nat, NEW w \in Nat, v <= w
  PROVE  /\ AddsUpTo(v) \subseteq AddsUpTo(w)
         /\ StartsUpTo(v) \subseteq StartsUpTo(w)
         /\ ViewsUpTo(v) \subseteq ViewsUpTo(w)
         /\ NoticesUpTo(v) \subseteq NoticesUpTo(w)
<1>1. AddsUpTo(v) \subseteq AddsUpTo(w)
  <2> SUFFICES ASSUME NEW m \in Messages, m.type = "ADD" => m.wave <= v
               PROVE  m.type = "ADD" => m.wave <= w
    BY DEF AddsUpTo
  <2> QED BY DEF Messages
<1>2. StartsUpTo(v) \subseteq StartsUpTo(w)
  BY DEF StartsUpTo, Starts
<1>3. ViewsUpTo(v) \subseteq ViewsUpTo(w)
  BY DEF ViewsUpTo, View
<1>4. NoticesUpTo(v) \subseteq NoticesUpTo(w)
  BY DEF NoticesUpTo, Notices
<1> QED BY <1>1, <1>2, <1>3, <1>4

LEMMA SeqGrow ==
  ASSUME NEW A, NEW S, NEW T, S \subseteq T, NEW g \in [A -> Seq(S)]
  PROVE  g \in [A -> Seq(T)]
BY SeqSubset

\* The coordinator may go on to a later wave.
LEMMA CoordinatorGrows ==
  ASSUME TypeOK, WavesInv, NEW w \in Nat, coord.wave <= w
  PROVE  /\ front \in [Fronts -> ViewsUpTo(w)]
         /\ inputs \in [Fronts -> [Engines -> Seq(AddsUpTo(w))]]
         /\ starts \in [Engines -> Seq(StartsUpTo(w))]
         /\ stats \in [Fronts -> Seq(ViewsUpTo(w))]
<1>1. /\ AddsUpTo(coord.wave) \subseteq AddsUpTo(w)
      /\ StartsUpTo(coord.wave) \subseteq StartsUpTo(w)
      /\ ViewsUpTo(coord.wave) \subseteq ViewsUpTo(w)
  BY UpToGrow, WavesAreNat
<1>2. inputs \in [Fronts -> [Engines -> Seq(AddsUpTo(w))]]
  <2>1. \A f \in Fronts : inputs[f] \in [Engines -> Seq(AddsUpTo(w))]
    BY <1>1, SeqGrow DEF WavesInv
  <2> QED BY <2>1 DEF WavesInv
<1>3. starts \in [Engines -> Seq(StartsUpTo(w))]
  BY <1>1, SeqGrow DEF WavesInv
<1>4. stats \in [Fronts -> Seq(ViewsUpTo(w))]
  BY <1>1, SeqGrow DEF WavesInv
<1>5. front \in [Fronts -> ViewsUpTo(w)]
  BY <1>1 DEF WavesInv
<1> QED BY <1>2, <1>3, <1>4, <1>5

LEMMA InitWaves == Init => WavesInv
<1> SUFFICES ASSUME Init PROVE WavesInv
  OBVIOUS
<1>1. Rank0 \in Engines /\ \A e \in Engines : wave[e] = 0
  BY DataParallelAssumption DEF Init
<1>2. coord.wave = 0 /\ front \in [Fronts -> ViewsUpTo(0)]
  BY DEF Init, ViewsUpTo, View
<1>3. /\ inputs \in [Fronts -> [Engines -> Seq(AddsUpTo(0))]]
      /\ starts \in [Engines -> Seq(StartsUpTo(0))]
      /\ stats \in [Fronts -> Seq(ViewsUpTo(0))]
      /\ notices \in [Engines -> Seq(NoticesUpTo(0))]
  BY DEF Init
<1> QED BY <1>1, <1>2, <1>3 DEF WavesInv

\* Only these steps change what carries a wave.
LEMMA WavesSame ==
  ASSUME WavesInv, UNCHANGED <<wave, coord, front, inputs, starts, stats, notices>>
  PROVE  WavesInv'
BY DEF WavesInv

LEMMA WavesFewerInputs ==
  ASSUME WavesInv, NEW f \in Fronts, NEW e \in Engines, NEW t, Receive(f, e, t),
         UNCHANGED <<wave, coord, front, starts, stats, notices>>
  PROVE  WavesInv'
<1>1. inputs' \in [Fronts -> [Engines -> Seq(AddsUpTo(coord.wave))]]
  <2>1. inputs[f][e] # <<>> /\ inputs' = [inputs EXCEPT ![f][e] = Tail(@)]
    BY DEF Receive
  <2>2. inputs \in [Fronts -> [Engines -> Seq(AddsUpTo(coord.wave))]]
    BY DEF WavesInv
  <2> QED BY <2>1, <2>2, TailAtTwo
<1> QED BY <1>1 DEF WavesInv

LEMMA WavesSendRequest ==
  ASSUME TypeOK, WavesInv, NEW f \in Fronts, NEW e \in Engines, NEW r \in Requests,
         SendRequest(f, e, r)
  PROVE  WavesInv'
<1> DEFINE message == [type |-> "ADD", request |-> r, wave |-> front[f].wave]
<1>1. message \in AddsUpTo(coord.wave)
  <2>1. front[f].wave \in Nat /\ front[f].wave <= coord.wave
    BY DEF WavesInv, ViewsUpTo, View
  <2> QED BY <2>1 DEF AddsUpTo, Messages
<1>2. inputs' = [inputs EXCEPT ![f][e] = Append(@, message)]
  BY DEF SendRequest, ToEngine
<1>3. inputs \in [Fronts -> [Engines -> Seq(AddsUpTo(coord.wave))]]
  BY DEF WavesInv
<1> HIDE DEF message
<1>4. inputs' \in [Fronts -> [Engines -> Seq(AddsUpTo(coord.wave))]]
  BY <1>1, <1>2, <1>3, AppendAtTwo
<1>5. UNCHANGED <<wave, coord, front, starts, stats, notices>>
  BY DEF SendRequest, engineVars
<1> QED BY <1>4, <1>5 DEF WavesInv

LEMMA WavesSendAbort ==
  ASSUME TypeOK, HomesKnown, WavesInv, NEW r \in Requests, SendAbort(r)
  PROVE  WavesInv'
<1> DEFINE f == home[r][1]
           e == home[r][2]
           message == [type |-> "ABORT", request |-> r]
<1>1. message \in AddsUpTo(coord.wave)
  BY DEF AddsUpTo, Messages
<1>2. inputs' = [inputs EXCEPT ![f][e] = Append(@, message)]
  BY DEF SendAbort, ToEngine
<1>3. inputs \in [Fronts -> [Engines -> Seq(AddsUpTo(coord.wave))]]
  BY DEF WavesInv
<1>4. f \in Fronts /\ e \in Engines
  BY DEF SendAbort, HomesKnown
<1> HIDE DEF message, f, e
<1>5. inputs' \in [Fronts -> [Engines -> Seq(AddsUpTo(coord.wave))]]
  BY <1>1, <1>2, <1>3, <1>4, AppendAtTwo
<1>6. UNCHANGED <<wave, coord, front, starts, stats, notices>>
  BY DEF SendAbort, engineVars
<1> QED BY <1>5, <1>6 DEF WavesInv

LEMMA WavesCall ==
  ASSUME TypeOK, WavesInv, NEW message \in Messages, message.type # "ADD", NEW during,
         Call(message, during)
  PROVE  WavesInv'
<1>1. message \in AddsUpTo(coord.wave)
  BY DEF AddsUpTo
<1>2. inputs' = [inputs EXCEPT ![Pauser] = [e \in Engines |-> Append(@[e], message)]]
  BY DEF Call, ToAllEngines
<1>3. inputs \in [Fronts -> [Engines -> Seq(AddsUpTo(coord.wave))]] /\ Pauser \in Fronts
  BY DataParallelAssumption DEF WavesInv
<1>4. inputs' \in [Fronts -> [Engines -> Seq(AddsUpTo(coord.wave))]]
  BY <1>1, <1>2, <1>3, AppendToAll
<1>5. UNCHANGED <<wave, coord, front, starts, stats, notices>>
  BY DEF Call, engineVars
<1> QED BY <1>4, <1>5 DEF WavesInv

LEMMA WavesDrain ==
  ASSUME TypeOK, WavesInv, NEW f \in Fronts, NEW view \in ViewsUpTo(coord.wave),
         NEW k \in 0..Len(stats[f]), Drain(f, k, view),
         UNCHANGED <<wave, coord, inputs, starts, notices>>
  PROVE  WavesInv'
<1>1. stats[f] \in Seq(ViewsUpTo(coord.wave))
  BY DEF WavesInv
<1>2. SubSeq(stats[f], k + 1, Len(stats[f])) \in Seq(ViewsUpTo(coord.wave))
  BY <1>1, SubSeqType
<1>3. k # 0 => stats[f][k] \in ViewsUpTo(coord.wave)
  BY <1>1, SubSeqType
<1>4. stats' \in [Fronts -> Seq(ViewsUpTo(coord.wave))]
  BY <1>2 DEF Drain, WavesInv
<1>5. front' \in [Fronts -> ViewsUpTo(coord.wave)]
  BY <1>3 DEF Drain, WavesInv
<1> QED BY <1>4, <1>5 DEF WavesInv

LEMMA WavesStatsTask ==
  ASSUME TypeOK, WavesInv, NEW f \in Fronts, ForwardFirstReq(f) \/ ReadStats(f)
  PROVE  WavesInv'
<1>1. front[f] \in ViewsUpTo(coord.wave)
  BY DEF WavesInv
<1>2. [front[f] EXCEPT !.running = TRUE] \in ViewsUpTo(coord.wave)
  BY <1>1 DEF ViewsUpTo, View
<1>3. UNCHANGED <<wave, coord, inputs, starts, notices>>
  BY DEF ForwardFirstReq, ReadStats, engineVars
<1>4. CASE ForwardFirstReq(f)
  <2>1. PICK k \in 0..Len(stats[f]) : Drain(f, k, [front[f] EXCEPT !.running = TRUE])
    BY <1>4 DEF ForwardFirstReq
  <2> QED BY <1>2, <1>3, <2>1, WavesDrain
<1>5. CASE ReadStats(f)
  <2>1. PICK k \in 1..Len(stats[f]) : Drain(f, k, front[f])
    BY <1>5 DEF ReadStats
  <2>2. k \in 0..Len(stats[f])
    BY LenIsNat, ChannelFacts
  <2> QED BY <1>1, <1>3, <2>1, <2>2, WavesDrain
<1> QED BY <1>4, <1>5

\* The coordinator publishes or broadcasts its (new) state, or does neither.
LEMMA WavesCoordinator ==
  ASSUME TypeOK, TypeOK', WavesInv,
         coord.wave <= coord'.wave, coord'.wave <= wave[Rank0],
         UNCHANGED stats \/ Publish(coord'),
         UNCHANGED starts \/ \E x \in SUBSET Engines : Broadcast(coord'.wave, x),
         notices' \in [Engines -> Seq(NoticesUpTo(wave[Rank0]))],
         UNCHANGED <<wave, front, inputs>>
  PROVE  WavesInv'
<1> DEFINE w == coord'.wave
<1>1. w \in Nat /\ coord' \in View
  BY DEF TypeOK, ClientTypes, View
<1>2. /\ front \in [Fronts -> ViewsUpTo(w)]
      /\ inputs \in [Fronts -> [Engines -> Seq(AddsUpTo(w))]]
      /\ starts \in [Engines -> Seq(StartsUpTo(w))]
      /\ stats \in [Fronts -> Seq(ViewsUpTo(w))]
  BY <1>1, CoordinatorGrows
<1>3. stats' \in [Fronts -> Seq(ViewsUpTo(w))]
  <2>1. coord' \in ViewsUpTo(w)
    BY <1>1 DEF ViewsUpTo
  <2>2. CASE Publish(coord')
    BY <1>2, <2>1, <2>2, AppendType DEF Publish
  <2> QED BY <1>2, <2>2
<1>4. starts' \in [Engines -> Seq(StartsUpTo(w))]
  <2>1. \A x \in SUBSET Engines : [wave |-> w, excluded |-> x] \in StartsUpTo(w)
    BY <1>1 DEF StartsUpTo, Starts
  <2>2. ASSUME NEW x \in SUBSET Engines, Broadcast(w, x)
        PROVE  starts' \in [Engines -> Seq(StartsUpTo(w))]
    <3>1. [wave |-> w, excluded |-> x] \in StartsUpTo(w)
      BY <2>1
    <3> QED BY <1>2, <2>2, <3>1, AppendType DEF Broadcast
  <2> QED BY <1>2, <2>2
<1> HIDE DEF w
<1>5. WavesInv'
  <2>1. (coord.wave)' = w
    BY DEF w
  <2> QED BY <1>2, <1>3, <1>4, <2>1 DEF WavesInv, w
<1> QED BY <1>5

LEMMA WavesHandleWakeup ==
  ASSUME TypeOK, TypeOK', WavesInv, NEW f \in Fronts, HandleWakeup(f)
  PROVE  WavesInv'
<1>1. UNCHANGED <<wave, front, inputs, notices>>
  BY DEF HandleWakeup, engineVars
<1>2. coord'.wave = coord.wave
  BY WavesAreNat DEF HandleWakeup, View
<1>3. UNCHANGED stats \/ Publish(coord')
  BY DEF HandleWakeup
<1>4. UNCHANGED starts \/ \E x \in SUBSET Engines : Broadcast(coord'.wave, x)
  BY <1>2 DEF HandleWakeup, IndexOfIdentity
<1>5. notices' \in [Engines -> Seq(NoticesUpTo(wave[Rank0]))]
  BY <1>1 DEF WavesInv
<1>6. coord.wave <= coord'.wave /\ coord'.wave <= wave[Rank0]
  BY <1>2, WavesAreNat DEF WavesInv
<1> QED BY <1>1, <1>3, <1>4, <1>5, <1>6, WavesCoordinator

LEMMA WavesPublish ==
  ASSUME TypeOK, TypeOK', WavesInv, PublishStats
  PROVE  WavesInv'
<1>1. UNCHANGED <<wave, front, inputs, notices, coord, starts>> /\ Publish(coord')
  BY DEF PublishStats, engineVars, Publish
<1>2. notices' \in [Engines -> Seq(NoticesUpTo(wave[Rank0]))]
  BY <1>1 DEF WavesInv
<1>3. coord.wave <= coord'.wave /\ coord'.wave <= wave[Rank0]
  BY <1>1, WavesAreNat DEF WavesInv
<1> QED BY <1>1, <1>2, <1>3, WavesCoordinator

LEMMA WavesHandleNotice ==
  ASSUME TypeOK, TypeOK', WavesInv, NEW e \in Engines, HandleNotice(e)
  PROVE  WavesInv'
<1> DEFINE notice == Head(notices[e])
<1>1. UNCHANGED <<wave, front, inputs>>
  BY DEF HandleNotice, engineVars
<1>2. /\ notice \in NoticesUpTo(wave[Rank0])
      /\ notices' \in [Engines -> Seq(NoticesUpTo(wave[Rank0]))]
  <2>1. notices[e] # <<>> /\ notices' = [notices EXCEPT ![e] = Tail(@)]
    BY DEF HandleNotice
  <2>2. notices \in [Engines -> Seq(NoticesUpTo(wave[Rank0]))]
    BY DEF WavesInv
  <2> QED BY <2>1, <2>2, TailAt
<1>3. /\ notice.wave \in Nat /\ notice.wave <= wave[Rank0]
      /\ notice.type = "complete" => notice.wave < wave[Rank0]
  BY <1>2 DEF NoticesUpTo, Notices
<1>4. UNCHANGED stats \/ Publish(coord')
  BY DEF HandleNotice, CompleteWave, StartWave
<1>5. \/ UNCHANGED coord
      \/ notice.type = "complete" /\ coord.wave <= notice.wave /\ coord'.wave = notice.wave + 1
      \/ coord'.wave = notice.wave /\ (notice.wave > coord.wave \/ notice.wave = coord.wave)
  BY DEF HandleNotice, CompleteWave, StartWave
<1>6. UNCHANGED starts \/ \E x \in SUBSET Engines : Broadcast(coord'.wave, x)
  <2>1. \/ UNCHANGED starts
        \/ coord' = [wave |-> notice.wave, running |-> TRUE] /\ Broadcast(notice.wave, {e})
    BY DEF HandleNotice, CompleteWave, StartWave
  <2> QED BY <2>1
<1>7. coord.wave <= coord'.wave /\ coord'.wave <= wave[Rank0]
  <2> HIDE DEF notice
  <2> QED BY <1>3, <1>5, WavesAreNat DEF WavesInv
<1> QED BY <1>1, <1>2, <1>4, <1>6, <1>7, WavesCoordinator

\* A request never is of a later wave than its engine.
LEMMA WavesHandleAdd ==
  ASSUME TypeOK, WavesInv, NEW f \in Fronts, NEW e \in Engines, HandleAdd(f, e)
  PROVE  WavesInv'
<1> DEFINE message == Head(inputs[f][e])
           notice == [type |-> "start", wave |-> wave[e]]
<1>1. /\ message \in AddsUpTo(coord.wave)
      /\ inputs' \in [Fronts -> [Engines -> Seq(AddsUpTo(coord.wave))]]
  <2>1. inputs[f][e] # <<>> /\ inputs' = [inputs EXCEPT ![f][e] = Tail(@)]
    BY DEF HandleAdd, Receive
  <2>2. inputs \in [Fronts -> [Engines -> Seq(AddsUpTo(coord.wave))]]
    BY DEF WavesInv
  <2> QED BY <2>1, <2>2, TailAtTwo
<1>2. message.wave \in Nat /\ message.wave <= coord.wave
  BY <1>1 DEF AddsUpTo, Messages, HandleAdd, Receive
<1>3. ~(message.wave > wave[e])
  <2> HIDE DEF message
  <2>1. wave[e] = wave[Rank0] /\ coord.wave <= wave[Rank0]
    BY DEF WavesInv
  <2> QED BY <1>2, <2>1, WavesAreNat
<1>4. UNCHANGED wave
  BY <1>3 DEF HandleAdd
<1>5. notices' \in [Engines -> Seq(NoticesUpTo(wave[Rank0]))]
  <2>1. notice \in NoticesUpTo(wave[Rank0])
    BY WavesAreNat DEF WavesInv, NoticesUpTo, Notices
  <2>2. UNCHANGED notices \/ notices' = [notices EXCEPT ![e] = Append(@, notice)]
    BY DEF HandleAdd
  <2>3. notices \in [Engines -> Seq(NoticesUpTo(wave[Rank0]))]
    BY DEF WavesInv
  <2> DEFINE S == NoticesUpTo(wave[Rank0])
  <2>4. notices \in [Engines -> Seq(S)] /\ notice \in S
    BY <2>1, <2>3
  <2> HIDE DEF notice, S
  <2>5. [notices EXCEPT ![e] = Append(@, notice)] \in [Engines -> Seq(S)]
    BY <2>4, AppendAt
  <2>6. notices' \in [Engines -> Seq(S)]
    BY <2>2, <2>4, <2>5
  <2> QED BY <2>6 DEF S
<1>6. UNCHANGED <<coord, front, starts, stats>>
  BY DEF HandleAdd
<1> QED BY <1>1, <1>4, <1>5, <1>6 DEF WavesInv

\* Neither is a START_DP_WAVE.
LEMMA WavesHandleStart ==
  ASSUME TypeOK, WavesInv, NEW e \in Engines, HandleStart(e)
  PROVE  WavesInv'
<1> DEFINE message == Head(starts[e])
<1>1. /\ message \in StartsUpTo(coord.wave)
      /\ starts' \in [Engines -> Seq(StartsUpTo(coord.wave))]
  <2>1. starts[e] # <<>> /\ starts' = [starts EXCEPT ![e] = Tail(@)]
    BY DEF HandleStart
  <2>2. starts \in [Engines -> Seq(StartsUpTo(coord.wave))]
    BY DEF WavesInv
  <2> QED BY <2>1, <2>2, TailAt
<1>2. message.wave \in Nat /\ message.wave <= coord.wave
  BY <1>1 DEF StartsUpTo, Starts
<1>3. message.wave >= wave[e] => message.wave = wave[e]
  <2> HIDE DEF message
  <2>1. wave[e] = wave[Rank0] /\ coord.wave <= wave[Rank0] /\ wave[e] \in Nat
    BY WavesAreNat DEF WavesInv
  <2> QED BY <1>2, <2>1, WavesAreNat
<1>4. UNCHANGED wave
  BY <1>3, WavesAreNat DEF HandleStart, Obeys
<1>5. UNCHANGED <<coord, front, inputs, notices, stats>>
  BY DEF HandleStart
<1> QED BY <1>1, <1>4, <1>5 DEF WavesInv

\* All count a new wave, and rank 0 reports the one that ended.
LEMMA WavesSync ==
  ASSUME TypeOK, WavesInv, Sync
  PROVE  WavesInv'
<1> DEFINE w == wave[Rank0]
           notice == [type |-> "complete", wave |-> w]
<1>1. UNCHANGED <<coord, front, inputs, starts, stats>>
  BY DEF Sync
<1>2. \/ wave' = [e \in Engines |-> wave[e]] /\ UNCHANGED notices
      \/ wave' = [e \in Engines |-> wave[e] + 1]
         /\ notices' = [notices EXCEPT ![Rank0] = Append(@, notice)]
  BY DEF Sync, WaveAfter
<1>3. w \in Nat /\ coord.wave \in Nat /\ Rank0 \in Engines
  BY WavesAreNat
<1>4. CASE wave' = [e \in Engines |-> wave[e]] /\ UNCHANGED notices
  <2>1. UNCHANGED wave
    BY <1>4, WavesAreNat
  <2> QED BY <1>1, <1>4, <2>1 DEF WavesInv
<1>5. CASE wave' = [e \in Engines |-> wave[e] + 1]
           /\ notices' = [notices EXCEPT ![Rank0] = Append(@, notice)]
  <2>1. wave'[Rank0] = w + 1 /\ \A e \in Engines : wave'[e] = w + 1
    BY <1>3, <1>5 DEF WavesInv
  <2>2. notice \in NoticesUpTo(w + 1)
    BY <1>3 DEF NoticesUpTo, Notices
  <2>3. notices \in [Engines -> Seq(NoticesUpTo(w + 1))]
    <3>1. NoticesUpTo(w) \subseteq NoticesUpTo(w + 1)
      BY <1>3, UpToGrow
    <3> QED BY <3>1, SeqGrow DEF WavesInv
  <2>4. notices' \in [Engines -> Seq(NoticesUpTo(w + 1))]
    <3> HIDE DEF notice, w
    <3> QED BY <1>3, <1>5, <2>2, <2>3, AppendAt
  <2>5. coord.wave <= w + 1
    BY <1>3 DEF WavesInv
  <2> QED BY <1>1, <2>1, <2>4, <2>5 DEF WavesInv
<1> QED BY <1>2, <1>4, <1>5

LEMMA WavesNext ==
  ASSUME TypeOK, HomesKnown, TypeOK', WavesInv, [Next]_vars
  PROVE  WavesInv'
<1>1. ASSUME NEW f \in Fronts, NEW e \in Engines, HandleAbort(f, e)
      PROVE  WavesInv'
  <2>1. UNCHANGED <<wave, coord, front, starts, stats, notices>>
    BY <1>1 DEF HandleAbort
  <2> QED BY <1>1, <2>1, WavesFewerInputs DEF HandleAbort
<1>2. ASSUME NEW f \in Fronts, NEW e \in Engines, HandlePause(f, e)
      PROVE  WavesInv'
  <2>1. UNCHANGED <<wave, coord, front, starts, stats, notices>>
    BY <1>2 DEF HandlePause
  <2> QED BY <1>2, <2>1, WavesFewerInputs DEF HandlePause
<1>3. ASSUME NEW f \in Fronts, NEW e \in Engines, HandleResume(f, e)
      PROVE  WavesInv'
  <2>1. UNCHANGED <<wave, coord, front, starts, stats, notices>>
    BY <1>3 DEF HandleResume
  <2> QED BY <1>3, <2>1, WavesFewerInputs DEF HandleResume
<1>4. ASSUME NEW mode \in Modes, Pause(mode)
      PROVE  WavesInv'
  <2>1. [type |-> "PAUSE", mode |-> mode] \in Messages
    BY DEF Messages
  <2> QED BY <1>4, <2>1, WavesCall DEF Pause
<1>5. CASE Resume
  <2>1. [type |-> "RESUME"] \in Messages
    BY DEF Messages
  <2> QED BY <1>5, <2>1, WavesCall DEF Resume
<1>6. ASSUME NEW e \in Engines, AnswerPause(e) \/ BeginStep(e)
      PROVE  WavesInv'
  <2>1. UNCHANGED <<wave, coord, front, inputs, starts, stats, notices>>
    BY <1>6 DEF AnswerPause, BeginStep, channels
  <2> QED BY <2>1, WavesSame
<1>7. ASSUME NEW f \in Fronts, NEW e \in Engines, NEW r \in Requests, AbortDuringStep(f, e, r)
      PROVE  WavesInv'
  <2>1. UNCHANGED <<wave, coord, front, inputs, starts, stats, notices>>
    BY <1>7 DEF AbortDuringStep, channels
  <2> QED BY <2>1, WavesSame
<1>8. CASE EndForward \/ EndResume \/ UNCHANGED vars
  <2>1. UNCHANGED <<wave, coord, front, inputs, starts, stats, notices>>
    BY <1>8 DEF EndForward, EndResume, vars, engineVars, channels
  <2> QED BY <2>1, WavesSame
<1> QED
  BY <1>1, <1>2, <1>3, <1>4, <1>5, <1>6, <1>7, <1>8, WavesSendRequest, WavesSendAbort,
     WavesStatsTask, WavesHandleWakeup, WavesPublish, WavesHandleNotice, WavesHandleAdd,
     WavesHandleStart, WavesSync
  DEF Next, Progress, Environment, Engine, Handle, Together

LEMMA WavesInvImplies == WavesInv => WavesInOrder
BY DEF WavesInv, WavesInOrder, ViewsUpTo

\* The engines count the same wave, and neither the coordinator nor a front end is
\* ahead of them, in whatever order the messages between them arrive.
THEOREM WavesStayInOrder == Spec => []WavesInOrder
<1> DEFINE Inv == TypeOK /\ HomesKnown /\ WavesInv
<1>1. Init => Inv
  BY InitTypes, InitHomes, InitWaves
<1>2. Inv /\ [Next]_vars => Inv'
  BY TypesNext, WavesNext
<1>3. Inv => WavesInOrder
  BY WavesInvImplies
<1> QED BY <1>1, <1>2, <1>3, PTL DEF Spec
-----------------------------------------------------------------------------
(* Pauses *)

CallTypes == {"PAUSE", "RESUME"}

\* A channel without a call of the pausing client, and one with a single call.
NoCall(s) == \A i \in 1..Len(s) : s[i].type \notin CallTypes
OneCall(s, t) ==
  \E i \in 1..Len(s) :
    /\ s[i].type = t
    /\ \A j \in 1..Len(s) : j # i => s[j].type \notin CallTypes

\* An engine that will not step whatever it is sent but a call.
Stopped(e) ==
  /\ at[e] = "loop"
  /\ ~running[e]
  /\ ~HasUnfinished(e)
  /\ ignoring[e]
  /\ pauseState[e] # "UNPAUSED"

\* No call is under way to engine e or waits for its answer.
Idle(e) ==
  /\ NoCall(inputs[Pauser][e])
  /\ ~pendingPause[e]
  /\ ~callback[e]
  /\ at[e] # "resume"

\* A pause, engine by engine: its call is under way; it has been taken in, and the
\* engine is kept running for the all-reduce; the all-reduce has found that all have
\* taken it in.
Uncalled(e) ==
  /\ OneCall(inputs[Pauser][e], "PAUSE")
  /\ ~pendingPause[e]
  /\ ~callback[e]
  /\ at[e] # "resume"

Asked(e) ==
  /\ NoCall(inputs[Pauser][e])
  /\ pendingPause[e]
  /\ callback[e]
  /\ running[e]
  /\ pauseState[e] # "UNPAUSED"
  /\ at[e] # "resume"

Agreed(e) ==
  /\ NoCall(inputs[Pauser][e])
  /\ ~pendingPause[e]
  /\ callback[e] <=> e \notin answered
  /\ ignoring[e]
  /\ pauseState[e] # "UNPAUSED"
  /\ at[e] # "resume"

\* A resumption: the call is under way; the engine waits in the all-reduce.
Unresumed(e) ==
  /\ OneCall(inputs[Pauser][e], "RESUME")
  /\ ~pendingPause[e]
  /\ ~callback[e]
  /\ Stopped(e)

Resumed(e) ==
  /\ NoCall(inputs[Pauser][e])
  /\ ~pendingPause[e]
  /\ ~callback[e]
  /\ at[e] = "resume"
  /\ ~running[e]

BeforeConsensus == answered = {} /\ \A e \in Engines : Uncalled(e) \/ Asked(e)

AfterConsensus ==
  /\ \A e \in Engines : Agreed(e)
  /\ (\A e \in Engines : running[e]) \/ (\A e \in Engines : Stopped(e))

\* The protocol of pauses and resumptions, phase by phase.
PauseInv ==
  /\ \A f \in Fronts \ {Pauser}, e \in Engines : NoCall(inputs[f][e])
  /\ phase # "pausing" => answered = {}
  /\ phase = "running" => \A e \in Engines : Idle(e)
  /\ phase = "pausing" => BeforeConsensus \/ AfterConsensus
  /\ phase = "paused" => \A e \in Engines : Idle(e) /\ Stopped(e)
  /\ phase = "resuming" => \A e \in Engines : Unresumed(e) \/ Resumed(e)

LEMMA NoCallAppend ==
  ASSUME NEW s \in Seq(Messages), NEW m \in Messages, m.type \notin CallTypes, NoCall(s)
  PROVE  NoCall(Append(s, m))
BY DEF NoCall

LEMMA OneCallAppend ==
  ASSUME NEW s \in Seq(Messages), NEW m \in Messages, m.type \notin CallTypes,
         NEW t \in CallTypes, OneCall(s, t)
  PROVE  OneCall(Append(s, m), t)
BY DEF OneCall

LEMMA FirstCallAppend ==
  ASSUME NEW s \in Seq(Messages), NEW m \in Messages, NoCall(s)
  PROVE  OneCall(Append(s, m), m.type)
<1>1. Len(s) + 1 \in 1..Len(Append(s, m)) /\ Append(s, m)[Len(s) + 1] = m
  BY LenIsNat
<1>2. \A j \in 1..Len(Append(s, m)) : j # Len(s) + 1 => Append(s, m)[j].type \notin CallTypes
  BY LenIsNat DEF NoCall
<1> QED BY <1>1, <1>2 DEF OneCall

LEMMA NoCallTail ==
  ASSUME NEW s \in Seq(Messages), s # <<>>, NoCall(s)
  PROVE  Head(s).type \notin CallTypes /\ NoCall(Tail(s))
BY DEF NoCall

LEMMA OneCallTail ==
  ASSUME NEW s \in Seq(Messages), s # <<>>, NEW t \in CallTypes, OneCall(s, t)
  PROVE  IF Head(s).type \in CallTypes THEN Head(s).type = t /\ NoCall(Tail(s))
                                       ELSE OneCall(Tail(s), t)
<1>1. PICK i \in 1..Len(s) :
        /\ s[i].type = t
        /\ \A j \in 1..Len(s) : j # i => s[j].type \notin CallTypes
  BY DEF OneCall
<1>2. /\ Len(s) \in Nat /\ Len(s) > 0 /\ Len(Tail(s)) = Len(s) - 1
      /\ Head(s) = s[1]
      /\ \A j \in 1..Len(Tail(s)) : Tail(s)[j] = s[j + 1]
  OBVIOUS
<1>3. CASE i = 1
  <2>1. Head(s).type = t
    BY <1>1, <1>2, <1>3
  <2>2. NoCall(Tail(s))
    BY <1>1, <1>2, <1>3 DEF NoCall
  <2> QED BY <2>1, <2>2
<1>4. CASE i # 1
  <2>1. Head(s).type \notin CallTypes
    BY <1>1, <1>2, <1>4
  <2>2. i - 1 \in 1..Len(Tail(s)) /\ Tail(s)[i - 1].type = t
    BY <1>1, <1>2, <1>4
  <2>3. \A j \in 1..Len(Tail(s)) : j # i - 1 => Tail(s)[j].type \notin CallTypes
    BY <1>1, <1>2, <1>4
  <2>4. OneCall(Tail(s), t)
    BY <2>2, <2>3 DEF OneCall
  <2> QED BY <2>1, <2>4
<1> QED BY <1>3, <1>4

\* What a step that is not part of a call does to the channels,
KeepsCalls ==
  \A f \in Fronts, e \in Engines :
    /\ NoCall(inputs[f][e]) => NoCall(inputs'[f][e])
    /\ \A t \in CallTypes : OneCall(inputs[f][e], t) => OneCall(inputs'[f][e], t)

\* ... to the state of a pause,
KeepsPause ==
  UNCHANGED <<phase, answered, pendingPause, ignoring, callback, pauseState>>

\* ... and to an engine.
Drifts(e) ==
  /\ running[e] => running'[e]
  /\ at[e] = "resume" => running'[e] = running[e]
  /\ at[e] = "resume" <=> at'[e] = "resume"
  /\ Stopped(e) => Stopped(e)'

LEMMA DriftKeepsPauseInv ==
  ASSUME PauseInv, KeepsCalls, KeepsPause, \A e \in Engines : Drifts(e)
  PROVE  PauseInv'
<1>1. Pauser \in Fronts /\ CallTypes = {"PAUSE", "RESUME"}
  BY DataParallelAssumption DEF CallTypes
<1>2. \A f \in Fronts \ {Pauser}, e \in Engines : NoCall(inputs'[f][e])
  BY DEF PauseInv, KeepsCalls
<1>3. \A e \in Engines : Idle(e) => Idle(e)'
  BY <1>1 DEF Idle, KeepsCalls, KeepsPause, Drifts
<1>4. \A e \in Engines : Uncalled(e) => Uncalled(e)'
  BY <1>1 DEF Uncalled, KeepsCalls, KeepsPause, Drifts
<1>5. \A e \in Engines : Asked(e) => Asked(e)'
  BY <1>1 DEF Asked, KeepsCalls, KeepsPause, Drifts
<1>6. \A e \in Engines : Agreed(e) => Agreed(e)'
  BY <1>1 DEF Agreed, KeepsCalls, KeepsPause, Drifts
<1>7. \A e \in Engines : Unresumed(e) => Unresumed(e)'
  BY <1>1 DEF Unresumed, KeepsCalls, KeepsPause, Drifts
<1>8. \A e \in Engines : Resumed(e) => Resumed(e)'
  BY <1>1 DEF Resumed, KeepsCalls, KeepsPause, Drifts
<1>9. BeforeConsensus => BeforeConsensus'
  BY <1>4, <1>5 DEF BeforeConsensus, KeepsPause
<1>10. AfterConsensus => AfterConsensus'
  BY <1>6 DEF AfterConsensus, Drifts
<1>11. \A e \in Engines : Stopped(e) => Stopped(e)'
  BY DEF Drifts
<1>12. phase' = phase /\ answered' = answered
  BY DEF KeepsPause
<1> QED BY <1>2, <1>3, <1>7, <1>8, <1>9, <1>10, <1>11, <1>12 DEF PauseInv

LEMMA SameInputs ==
  ASSUME UNCHANGED inputs
  PROVE  KeepsCalls
BY DEF KeepsCalls

LEMMA AppendKeepsCalls ==
  ASSUME TypeOK, NEW f \in Fronts, NEW e \in Engines, NEW m \in Messages,
         m.type \notin CallTypes, inputs' = [inputs EXCEPT ![f][e] = Append(@, m)]
  PROVE  KeepsCalls
<1>1. inputs \in [Fronts -> [Engines -> Seq(Messages)]]
  BY ChannelFacts
<1>2. inputs'[f][e] = Append(inputs[f][e], m) /\ inputs[f][e] \in Seq(Messages)
  BY <1>1
<1>3. \A g \in Fronts, d \in Engines : <<g, d>> # <<f, e>> => inputs'[g][d] = inputs[g][d]
  BY <1>1
<1>4. NoCall(inputs[f][e]) => NoCall(inputs'[f][e])
  BY <1>2, NoCallAppend
<1>5. \A t \in CallTypes : OneCall(inputs[f][e], t) => OneCall(inputs'[f][e], t)
  BY <1>2, OneCallAppend
<1> QED BY <1>3, <1>4, <1>5 DEF KeepsCalls

LEMMA ReceiveOne ==
  ASSUME TypeOK, NEW f \in Fronts, NEW e \in Engines, NEW t, Receive(f, e, t)
  PROVE  /\ inputs[f][e] \in Seq(Messages)
         /\ inputs[f][e] # <<>>
         /\ Head(inputs[f][e]).type = t
         /\ inputs'[f][e] = Tail(inputs[f][e])
         /\ \A g \in Fronts, d \in Engines :
              <<g, d>> # <<f, e>> => inputs'[g][d] = inputs[g][d]
BY ChannelFacts DEF Receive

LEMMA ReceiveKeepsCalls ==
  ASSUME TypeOK, NEW f \in Fronts, NEW e \in Engines, NEW t, t \notin CallTypes,
         Receive(f, e, t)
  PROVE  KeepsCalls
<1>1. NoCall(inputs[f][e]) => NoCall(inputs'[f][e])
  BY ReceiveOne, NoCallTail
<1>2. \A u \in CallTypes : OneCall(inputs[f][e], u) => OneCall(inputs'[f][e], u)
  BY ReceiveOne, OneCallTail
<1> QED BY <1>1, <1>2, ReceiveOne DEF KeepsCalls

\* A call is received from the pausing client, and is the only one.
LEMMA ReceiveCall ==
  ASSUME TypeOK, PauseInv, NEW f \in Fronts, NEW e \in Engines, NEW t \in CallTypes,
         Receive(f, e, t)
  PROVE  /\ f = Pauser
         /\ ~NoCall(inputs[Pauser][e])
         /\ \A u \in CallTypes :
              OneCall(inputs[Pauser][e], u) => u = t /\ NoCall(inputs'[Pauser][e])
<1>1. ~NoCall(inputs[f][e])
  BY ReceiveOne, NoCallTail
<1>2. f = Pauser
  BY <1>1 DEF PauseInv
<1>3. \A u \in CallTypes :
        OneCall(inputs[f][e], u) => u = t /\ NoCall(inputs'[f][e])
  BY ReceiveOne, OneCallTail
<1> QED BY <1>1, <1>2, <1>3

LEMMA SameEngines ==
  ASSUME UNCHANGED <<at, running, pauseState, ignoring, waiting, admitted>>
  PROVE  \A e \in Engines : Drifts(e)
BY DEF Drifts, Stopped, HasUnfinished, Unfinished

\* What a client sends to an engine is not a call.
LEMMA SendKeepsCalls ==
  ASSUME TypeOK, NEW f \in Fronts, NEW e \in Engines, NEW r \in Requests,
         SendRequest(f, e, r)
  PROVE  KeepsCalls
<1> DEFINE m == [type |-> "ADD", request |-> r, wave |-> front[f].wave]
<1>1. m \in Messages /\ m.type \notin CallTypes
  BY DEF Messages, CallTypes, TypeOK, ClientTypes, View
<1>2. inputs' = [inputs EXCEPT ![f][e] = Append(@, m)]
  BY DEF SendRequest, ToEngine
<1> HIDE DEF m
<1> QED BY <1>1, <1>2, AppendKeepsCalls

LEMMA AbortKeepsCalls ==
  ASSUME TypeOK, HomesKnown, NEW r \in Requests, SendAbort(r)
  PROVE  KeepsCalls
<1> DEFINE f == home[r][1]
           e == home[r][2]
           m == [type |-> "ABORT", request |-> r]
<1>1. m \in Messages /\ m.type \notin CallTypes
  BY DEF Messages, CallTypes
<1>2. f \in Fronts /\ e \in Engines
  BY DEF SendAbort, HomesKnown
<1>3. inputs' = [inputs EXCEPT ![f][e] = Append(@, m)]
  BY DEF SendAbort, ToEngine
<1> HIDE DEF m, f, e
<1> QED BY <1>1, <1>2, <1>3, AppendKeepsCalls

LEMMA PauseClients ==
  ASSUME TypeOK, PauseInv, NEW f \in Fronts,
         \/ \E e \in Engines, r \in Requests : SendRequest(f, e, r)
         \/ ForwardFirstReq(f)
         \/ ReadStats(f)
         \/ HandleWakeup(f)
  PROVE  PauseInv'
<1>1. UNCHANGED <<at, running, pauseState, ignoring, waiting, admitted>> /\ KeepsPause
  BY DEF SendRequest, ForwardFirstReq, ReadStats, HandleWakeup, KeepsPause, engineVars,
     clientVars
<1>2. KeepsCalls
  <2>1. CASE UNCHANGED inputs
    BY <2>1, SameInputs
  <2> QED BY <2>1, SendKeepsCalls DEF ForwardFirstReq, ReadStats, HandleWakeup
<1> QED BY <1>1, <1>2, SameEngines, DriftKeepsPauseInv

LEMMA PauseSendAbort ==
  ASSUME TypeOK, HomesKnown, PauseInv, NEW r \in Requests, SendAbort(r)
  PROVE  PauseInv'
<1>1. UNCHANGED <<at, running, pauseState, ignoring, waiting, admitted>> /\ KeepsPause
  BY DEF SendAbort, KeepsPause, engineVars
<1> QED BY <1>1, AbortKeepsCalls, SameEngines, DriftKeepsPauseInv

LEMMA PauseQuietSteps ==
  ASSUME TypeOK, PauseInv,
         \/ \E e \in Engines : HandleNotice(e)
         \/ PublishStats
         \/ UNCHANGED vars
  PROVE  PauseInv'
<1>1. UNCHANGED <<at, running, pauseState, ignoring, waiting, admitted>> /\ KeepsPause
  BY DEF HandleNotice, PublishStats, vars, KeepsPause, engineVars, clientVars
<1>2. UNCHANGED inputs
  BY DEF HandleNotice, PublishStats, vars, channels
<1> QED BY <1>1, <1>2, SameInputs, SameEngines, DriftKeepsPauseInv

\* A request that is taken in does not start a paused engine.
LEMMA PauseHandleAdd ==
  ASSUME TypeOK, PauseInv, NEW f \in Fronts, NEW e \in Engines, HandleAdd(f, e)
  PROVE  PauseInv'
<1>1. KeepsCalls
  BY ReceiveKeepsCalls DEF HandleAdd, CallTypes
<1>2. KeepsPause /\ UNCHANGED <<at, admitted>>
  BY DEF HandleAdd, KeepsPause, clientVars
<1>3. ASSUME NEW d \in Engines PROVE Drifts(d)
  <2>1. d # e => running'[d] = running[d] /\ waiting'[d] = waiting[d]
    BY DEF HandleAdd
  <2>2. at[e] = "loop" /\ (running'[e] <=> (running[e] \/ Late(e, Head(inputs[f][e]))))
    BY DEF HandleAdd, Receive, TypeOK, EngineTypes
  <2>3. Late(e, Head(inputs[f][e])) => pauseState[e] = "UNPAUSED"
    BY DEF Late
  <2>4. Stopped(d) => Stopped(d)'
    BY <1>2, <2>1, <2>2, <2>3 DEF Stopped, HasUnfinished, Unfinished, KeepsPause, TypeOK,
       EngineTypes
  <2> QED BY <1>2, <2>1, <2>2, <2>4 DEF Drifts
<1> QED BY <1>1, <1>2, <1>3, DriftKeepsPauseInv

LEMMA FinishDrifts ==
  ASSUME TypeOK, NEW e \in Engines, NEW rs, Finish(e, rs),
         UNCHANGED <<at, running, pauseState, ignoring>>
  PROVE  \A d \in Engines : Drifts(d)
<1>1. \A d \in Engines : waiting'[d] \subseteq waiting[d] /\ admitted'[d] \subseteq admitted[d]
  BY DEF Finish, TypeOK, EngineTypes
<1>2. \A d \in Engines : ~HasUnfinished(d) => ~HasUnfinished(d)'
  <2> SUFFICES ASSUME NEW d \in Engines, ~HasUnfinished(d)
               PROVE  ~HasUnfinished(d)'
    OBVIOUS
  <2>1. pauseState[d] \in {"UNPAUSED", "PAUSED_NEW", "PAUSED_ALL"}
    BY DEF TypeOK, EngineTypes
  <2> QED BY <1>1, <2>1 DEF HasUnfinished, Unfinished
<1> QED BY <1>2 DEF Drifts, Stopped

LEMMA PauseAborts ==
  ASSUME TypeOK, PauseInv, NEW f \in Fronts, NEW e \in Engines,
         \/ HandleAbort(f, e)
         \/ \E r \in Requests : AbortDuringStep(f, e, r)
  PROVE  PauseInv'
<1>1. KeepsPause /\ UNCHANGED <<at, running, pauseState, ignoring>>
  BY DEF HandleAbort, AbortDuringStep, KeepsPause
<1>2. KeepsCalls
  <2>1. HandleAbort(f, e) => KeepsCalls
    BY ReceiveKeepsCalls DEF HandleAbort, CallTypes
  <2>2. ASSUME NEW r \in Requests, AbortDuringStep(f, e, r) PROVE KeepsCalls
    BY <2>2, SameInputs DEF AbortDuringStep, channels
  <2> QED BY <2>1, <2>2
<1>3. \E rs : Finish(e, rs)
  BY DEF HandleAbort, AbortDuringStep
<1> QED BY <1>1, <1>2, <1>3, FinishDrifts, DriftKeepsPauseInv

\* Nor does a START_DP_WAVE, which a stopped engine ignores.
LEMMA PauseHandleStart ==
  ASSUME TypeOK, PauseInv, NEW e \in Engines, HandleStart(e)
  PROVE  PauseInv'
<1>1. KeepsPause /\ UNCHANGED <<at, waiting, admitted, inputs>>
  BY DEF HandleStart, KeepsPause, clientVars
<1>2. ASSUME NEW d \in Engines PROVE Drifts(d)
  <2>1. d # e => running'[d] = running[d]
    BY DEF HandleStart
  <2>2. at[e] = "loop" /\ (running'[e] <=> (running[e] \/ Obeys(e, Head(starts[e]))))
    BY DEF HandleStart, TypeOK, EngineTypes
  <2>3. Stopped(d) => Stopped(d)'
    BY <1>1, <2>1, <2>2 DEF Stopped, HasUnfinished, Unfinished, KeepsPause, Obeys
  <2> QED BY <1>1, <2>1, <2>2, <2>3 DEF Drifts
<1> QED BY <1>1, <1>2, SameInputs, DriftKeepsPauseInv

LEMMA PauseBeginStep ==
  ASSUME TypeOK, PauseInv, NEW e \in Engines, BeginStep(e)
  PROVE  PauseInv'
<1>1. KeepsPause /\ UNCHANGED <<running, pauseState, ignoring, waiting, admitted, inputs>>
  BY DEF BeginStep, KeepsPause, clientVars, channels
<1>2. ASSUME NEW d \in Engines PROVE Drifts(d)
  <2>1. d # e => at'[d] = at[d]
    BY DEF BeginStep
  <2>2. at[e] = "loop" /\ at'[e] = "forward" /\ HasWork(e)
    BY DEF BeginStep, TypeOK, EngineTypes
  <2>3. ~Stopped(e)
    BY <2>2 DEF Stopped, HasWork
  <2> QED BY <1>1, <2>1, <2>2, <2>3 DEF Drifts, Stopped, HasUnfinished, Unfinished
<1> QED BY <1>1, <1>2, SameInputs, DriftKeepsPauseInv

LEMMA PauseEndForward ==
  ASSUME TypeOK, PauseInv, EndForward
  PROVE  PauseInv'
<1>1. KeepsPause /\ UNCHANGED <<inputs>>
  BY DEF EndForward, KeepsPause, channels
<1>2. ASSUME NEW d \in Engines PROVE Drifts(d)
  <2>1. at[d] = "forward" /\ at'[d] # "resume" /\ (running[d] => running'[d])
    BY DEF EndForward
  <2> QED BY <2>1 DEF Drifts, Stopped
<1> QED BY <1>1, <1>2, SameInputs, DriftKeepsPauseInv

\* A call goes to all engines, when no other is under way.
LEMMA CallToAll ==
  ASSUME TypeOK, PauseInv, NEW m \in Messages, NEW during, Call(m, during),
         \A e \in Engines : NoCall(inputs[Pauser][e])
  PROVE  /\ phase' = during
         /\ answered' = {}
         /\ UNCHANGED <<at, running, pauseState, ignoring, pendingPause, callback, waiting,
                        admitted>>
         /\ \A e \in Engines : OneCall(inputs'[Pauser][e], m.type)
         /\ \A f \in Fronts \ {Pauser}, e \in Engines : NoCall(inputs'[f][e])
<1>1. inputs \in [Fronts -> [Engines -> Seq(Messages)]] /\ Pauser \in Fronts
  BY ChannelFacts, DataParallelAssumption
<1>2. inputs' = [inputs EXCEPT ![Pauser] = [e \in Engines |-> Append(@[e], m)]]
  BY DEF Call, ToAllEngines
<1>3. ASSUME NEW e \in Engines PROVE OneCall(inputs'[Pauser][e], m.type)
  <2>1. inputs'[Pauser][e] = Append(inputs[Pauser][e], m) /\ inputs[Pauser][e] \in Seq(Messages)
    BY <1>1, <1>2
  <2> QED BY <2>1, FirstCallAppend
<1>4. \A f \in Fronts \ {Pauser}, e \in Engines : NoCall(inputs'[f][e])
  BY <1>1, <1>2 DEF PauseInv
<1> QED BY <1>3, <1>4 DEF Call, engineVars

LEMMA PausePause ==
  ASSUME TypeOK, PauseInv, NEW mode \in Modes, Pause(mode)
  PROVE  PauseInv'
<1> DEFINE m == [type |-> "PAUSE", mode |-> mode]
<1>1. m \in Messages /\ m.type = "PAUSE"
  BY DEF Messages
<1>2. \A e \in Engines : Idle(e)
  BY DEF Pause, PauseInv
<1>3. /\ phase' = "pausing"
      /\ answered' = {}
      /\ UNCHANGED <<at, pendingPause, callback>>
      /\ \A e \in Engines : OneCall(inputs'[Pauser][e], "PAUSE")
      /\ \A f \in Fronts \ {Pauser}, e \in Engines : NoCall(inputs'[f][e])
  <2>1. Call(m, "pausing")
    BY DEF Pause
  <2> HIDE DEF m
  <2>2. \A e \in Engines : NoCall(inputs[Pauser][e])
    BY <1>2 DEF Idle
  <2>3. \A e \in Engines : OneCall(inputs'[Pauser][e], m.type)
    BY <1>1, <2>1, <2>2, CallToAll
  <2> QED BY <1>1, <2>1, <2>2, <2>3, CallToAll
<1>4. \A e \in Engines : Uncalled(e)'
  BY <1>2, <1>3 DEF Idle, Uncalled
<1> QED BY <1>3, <1>4 DEF PauseInv, BeforeConsensus

LEMMA PauseResume ==
  ASSUME TypeOK, PauseInv, Resume
  PROVE  PauseInv'
<1> DEFINE m == [type |-> "RESUME"]
<1>1. m \in Messages /\ m.type = "RESUME"
  BY DEF Messages
<1>2. \A e \in Engines : Idle(e) /\ Stopped(e)
  BY DEF Resume, PauseInv
<1>3. /\ phase' = "resuming"
      /\ answered' = {}
      /\ UNCHANGED <<at, running, pauseState, ignoring, pendingPause, callback, waiting,
                     admitted>>
      /\ \A e \in Engines : OneCall(inputs'[Pauser][e], "RESUME")
      /\ \A f \in Fronts \ {Pauser}, e \in Engines : NoCall(inputs'[f][e])
  <2>1. Call(m, "resuming")
    BY DEF Resume
  <2> HIDE DEF m
  <2>2. \A e \in Engines : NoCall(inputs[Pauser][e])
    BY <1>2 DEF Idle
  <2>3. \A e \in Engines : OneCall(inputs'[Pauser][e], m.type)
    BY <1>1, <2>1, <2>2, CallToAll
  <2> QED BY <1>1, <2>1, <2>2, <2>3, CallToAll
<1>4. \A e \in Engines : Stopped(e)'
  BY <1>2, <1>3 DEF Stopped, HasUnfinished, Unfinished
<1>5. \A e \in Engines : Unresumed(e)'
  BY <1>2, <1>3, <1>4 DEF Idle, Unresumed
<1> QED BY <1>3, <1>5 DEF PauseInv

\* An engine takes in a pause: it has been called, and is now asked.
LEMMA PauseHandlePause ==
  ASSUME TypeOK, PauseInv, NEW f \in Fronts, NEW e \in Engines, HandlePause(f, e)
  PROVE  PauseInv'
<1>1. Receive(f, e, "PAUSE") /\ "PAUSE" \in CallTypes /\ "RESUME" \in CallTypes
  BY DEF HandlePause, CallTypes
<1>2. /\ f = Pauser
      /\ ~NoCall(inputs[Pauser][e])
      /\ ~OneCall(inputs[Pauser][e], "RESUME")
      /\ OneCall(inputs[Pauser][e], "PAUSE") => NoCall(inputs'[Pauser][e])
  BY <1>1, ReceiveCall
<1>3. \A g \in Fronts, d \in Engines : <<g, d>> # <<Pauser, e>> => inputs'[g][d] = inputs[g][d]
  BY <1>1, <1>2, ReceiveOne
<1>4. phase = "pausing" /\ BeforeConsensus
  BY <1>2, DataParallelAssumption
  DEF PauseInv, Idle, Unresumed, Resumed, AfterConsensus, Agreed, TypeOK, ClientTypes
<1>5. Uncalled(e)
  BY <1>2, <1>4 DEF BeforeConsensus, Asked
<1>6. /\ UNCHANGED <<phase, answered, at, ignoring>>
      /\ pendingPause' = [pendingPause EXCEPT ![e] = TRUE]
      /\ running' = [running EXCEPT ![e] = TRUE]
      /\ callback' = [callback EXCEPT ![e] = TRUE]
      /\ \E state \in {"PAUSED_ALL", "PAUSED_NEW"} :
           pauseState' = [pauseState EXCEPT ![e] = state]
  BY DEF HandlePause
<1>7. Asked(e)'
  BY <1>2, <1>5, <1>6 DEF Asked, Uncalled, TypeOK, EngineTypes
<1>8. ASSUME NEW d \in Engines, d # e
      PROVE  Uncalled(d)' \/ Asked(d)'
  <2>1. inputs'[Pauser][d] = inputs[Pauser][d]
    BY <1>3, <1>8, DataParallelAssumption
  <2>2. /\ pendingPause'[d] = pendingPause[d] /\ running'[d] = running[d]
        /\ callback'[d] = callback[d] /\ pauseState'[d] = pauseState[d] /\ at'[d] = at[d]
    BY <1>6, <1>8 DEF TypeOK, EngineTypes
  <2>3. Uncalled(d) \/ Asked(d)
    BY <1>4 DEF BeforeConsensus
  <2> QED BY <2>1, <2>2, <2>3 DEF Uncalled, Asked
<1>9. \A g \in Fronts \ {Pauser}, d \in Engines : NoCall(inputs'[g][d])
  BY <1>3 DEF PauseInv
<1>10. BeforeConsensus'
  BY <1>4, <1>6, <1>7, <1>8 DEF BeforeConsensus
<1> QED BY <1>4, <1>6, <1>9, <1>10 DEF PauseInv

\* An engine takes in a resumption: it is stopped, so it does not refuse.
LEMMA PauseHandleResume ==
  ASSUME TypeOK, PauseInv, NEW f \in Fronts, NEW e \in Engines, HandleResume(f, e)
  PROVE  PauseInv'
<1>1. Receive(f, e, "RESUME") /\ "PAUSE" \in CallTypes /\ "RESUME" \in CallTypes
  BY DEF HandleResume, CallTypes
<1>2. /\ f = Pauser
      /\ ~NoCall(inputs[Pauser][e])
      /\ ~OneCall(inputs[Pauser][e], "PAUSE")
      /\ OneCall(inputs[Pauser][e], "RESUME") => NoCall(inputs'[Pauser][e])
  BY <1>1, ReceiveCall
<1>3. \A g \in Fronts, d \in Engines : <<g, d>> # <<Pauser, e>> => inputs'[g][d] = inputs[g][d]
  BY <1>1, <1>2, ReceiveOne
<1>4. phase = "resuming" /\ Unresumed(e)
  BY <1>2, DataParallelAssumption
  DEF PauseInv, Idle, Resumed, BeforeConsensus, AfterConsensus, Uncalled, Asked, Agreed,
      TypeOK, ClientTypes
<1>5. ~ResumeRefused(e) /\ ~running[e]
  BY <1>4 DEF Unresumed, Stopped, ResumeRefused
<1>6. /\ UNCHANGED <<phase, answered, running, pendingPause, callback, waiting, admitted>>
      /\ at' = [at EXCEPT ![e] = "resume"]
      /\ pauseState' = [pauseState EXCEPT ![e] = "UNPAUSED"]
      /\ ignoring' = [ignoring EXCEPT ![e] = FALSE]
  BY <1>5 DEF HandleResume
<1>7. Resumed(e)'
  BY <1>2, <1>4, <1>6 DEF Resumed, Unresumed, Stopped, TypeOK, EngineTypes
<1>8. ASSUME NEW d \in Engines, d # e
      PROVE  Unresumed(d)' \/ Resumed(d)'
  <2>1. inputs'[Pauser][d] = inputs[Pauser][d]
    BY <1>3, <1>8, DataParallelAssumption
  <2>2. at'[d] = at[d] /\ pauseState'[d] = pauseState[d] /\ ignoring'[d] = ignoring[d]
    BY <1>6, <1>8 DEF TypeOK, EngineTypes
  <2>3. Unresumed(d) \/ Resumed(d)
    BY <1>4 DEF PauseInv
  <2>4. Stopped(d) => Stopped(d)'
    BY <1>6, <2>2 DEF Stopped, HasUnfinished, Unfinished
  <2> QED BY <1>6, <2>1, <2>2, <2>3, <2>4 DEF Unresumed, Resumed
<1>9. \A g \in Fronts \ {Pauser}, d \in Engines : NoCall(inputs'[g][d])
  BY <1>3 DEF PauseInv
<1>10. answered' = {}
  BY <1>4, <1>6 DEF PauseInv
<1> QED BY <1>4, <1>6, <1>7, <1>8, <1>9, <1>10 DEF PauseInv

\* An engine has nothing to do and a pause to answer: all have agreed, and stopped.
LEMMA PauseAnswerPause ==
  ASSUME TypeOK, PauseInv, NEW e \in Engines, AnswerPause(e)
  PROVE  PauseInv'
<1>1. callback[e] /\ ~running[e]
  BY DEF AnswerPause, HasWork
<1>2. phase = "pausing" /\ AfterConsensus
  BY <1>1
  DEF PauseInv, Idle, Resumed, Unresumed, BeforeConsensus, Uncalled, Asked, TypeOK, ClientTypes
<1>3. \A d \in Engines : Stopped(d) /\ Agreed(d)
  BY <1>1, <1>2 DEF AfterConsensus
<1>4. /\ UNCHANGED <<at, running, pauseState, ignoring, pendingPause, waiting, admitted, inputs>>
      /\ callback' = [callback EXCEPT ![e] = FALSE]
  BY DEF AnswerPause, channels
<1>5. \A d \in Engines : Stopped(d)'
  BY <1>3, <1>4 DEF Stopped, HasUnfinished, Unfinished
<1>6. \A f \in Fronts \ {Pauser}, d \in Engines : NoCall(inputs'[f][d])
  BY <1>4 DEF PauseInv
<1>7. ~callback'[e] /\ \A d \in Engines : d # e => callback'[d] = callback[d]
  BY <1>4 DEF TypeOK, EngineTypes
<1>8. CASE answered \union {e} = Engines
  <2>1. answered' = {} /\ phase' = "paused"
    BY <1>2, <1>8 DEF AnswerPause, Answer
  <2>2. ASSUME NEW d \in Engines PROVE Idle(d)'
    <3>1. ~callback'[d]
      BY <1>3, <1>7, <1>8 DEF Agreed
    <3> QED BY <1>3, <1>4, <3>1 DEF Idle, Agreed
  <2> QED BY <1>5, <1>6, <2>1, <2>2 DEF PauseInv
<1>9. CASE answered \union {e} # Engines
  <2>1. answered' = answered \union {e} /\ phase' = phase
    BY <1>9 DEF AnswerPause, Answer
  <2>2. ASSUME NEW d \in Engines PROVE Agreed(d)'
    <3>1. callback'[d] <=> d \notin answered'
      BY <1>3, <1>7, <2>1 DEF Agreed
    <3> QED BY <1>3, <1>4, <3>1 DEF Agreed
  <2>3. AfterConsensus'
    BY <1>5, <2>2 DEF AfterConsensus
  <2> QED BY <1>2, <1>6, <2>1, <2>3 DEF PauseInv
<1> QED BY <1>8, <1>9

\* The all-reduce: either not all are asked, and those that are stay running, or all
\* agree to pause; once they have, they go on until none has work, and stop.
LEMMA PauseSync ==
  ASSUME TypeOK, PauseInv, Sync
  PROVE  PauseInv'
<1> DEFINE pausers == {e \in Engines : pendingPause[e]}
           consensus == pausers = Engines
           unfinished == \/ \E e \in Engines : HasUnfinished(e)
                         \/ pausers \notin {{}, Engines}
<1>1. /\ at = [e \in Engines |-> "sync"]
      /\ at' = [e \in Engines |-> "loop"]
      /\ ignoring' = [e \in Engines |-> ignoring[e] \/ consensus]
      /\ pendingPause' = [e \in Engines |-> pendingPause[e] /\ ~consensus]
      /\ running' = [e \in Engines |-> unfinished]
      /\ UNCHANGED <<pauseState, callback, waiting, admitted, phase, answered, inputs>>
  BY DEF Sync, clientVars
<1>2. Rank0 \in Engines
  BY DataParallelAssumption
<1>3. ~(\A e \in Engines : Stopped(e)) /\ phase \in {"running", "pausing"}
  BY <1>1, <1>2 DEF PauseInv, Stopped, Unresumed, Resumed, TypeOK, ClientTypes
<1>4. \A f \in Fronts \ {Pauser}, e \in Engines : NoCall(inputs'[f][e])
  BY <1>1 DEF PauseInv
<1>5. \A e \in Engines : HasUnfinished(e)' <=> HasUnfinished(e)
  BY <1>1 DEF HasUnfinished, Unfinished
<1>6. CASE phase = "running"
  <2>1. \A e \in Engines : Idle(e)
    BY <1>6 DEF PauseInv
  <2>2. \A e \in Engines : Idle(e)'
    BY <1>1, <2>1 DEF Idle
  <2> QED BY <1>1, <1>4, <1>6, <2>2 DEF PauseInv
<1>7. CASE phase = "pausing" /\ BeforeConsensus /\ ~consensus
  <2>1. ASSUME NEW e \in Engines, Uncalled(e) PROVE Uncalled(e)'
    BY <1>1, <2>1 DEF Uncalled
  <2>2. ASSUME NEW e \in Engines, Asked(e) PROVE Asked(e)'
    <3>1. e \in pausers
      BY <2>2 DEF Asked
    <3>2. unfinished
      BY <1>7, <3>1
    <3>3. running'[e] /\ pendingPause'[e] /\ at'[e] = "loop"
      BY <1>1, <1>7, <3>1, <3>2
    <3> QED BY <1>1, <2>2, <3>3 DEF Asked
  <2>3. BeforeConsensus'
    BY <1>1, <1>7, <2>1, <2>2 DEF BeforeConsensus
  <2> QED BY <1>1, <1>4, <1>7, <2>3 DEF PauseInv
<1>8. CASE phase = "pausing" /\ ((BeforeConsensus /\ consensus) \/ AfterConsensus)
  <2>1. \A e \in Engines : /\ NoCall(inputs[Pauser][e])
                           /\ callback[e] <=> e \notin answered
                           /\ pauseState[e] # "UNPAUSED"
                           /\ ignoring[e] \/ consensus
                           /\ pendingPause[e] => consensus
    <3>1. CASE AfterConsensus
      BY <3>1 DEF AfterConsensus, Agreed
    <3>2. CASE BeforeConsensus /\ consensus
      <4>1. \A e \in Engines : Asked(e)
        BY <3>2 DEF BeforeConsensus, Uncalled
      <4> QED BY <3>2, <4>1 DEF BeforeConsensus, Asked
    <3> QED BY <1>8, <3>1, <3>2
  <2>2. \A e \in Engines : Agreed(e)'
    BY <1>1, <2>1 DEF Agreed
  <2>3. (\A e \in Engines : running'[e]) \/ (\A e \in Engines : Stopped(e)')
    <3>1. CASE unfinished
      BY <1>1, <3>1
    <3>2. CASE ~unfinished
      <4>1. ASSUME NEW e \in Engines PROVE Stopped(e)'
        <5>1. at'[e] = "loop" /\ ~running'[e] /\ ~HasUnfinished(e)'
          BY <1>1, <1>5, <3>2
        <5> QED BY <2>2, <5>1 DEF Stopped, Agreed
      <4> QED BY <4>1
    <3> QED BY <3>1, <3>2
  <2>4. AfterConsensus'
    BY <2>2, <2>3 DEF AfterConsensus
  <2> QED BY <1>1, <1>4, <1>8, <2>4 DEF PauseInv
<1> QED BY <1>3, <1>6, <1>7, <1>8 DEF PauseInv

\* All have taken in the resumption.
LEMMA PauseEndResume ==
  ASSUME TypeOK, PauseInv, EndResume
  PROVE  PauseInv'
<1>1. /\ at = [e \in Engines |-> "resume"]
      /\ at' = [e \in Engines |-> "loop"]
      /\ UNCHANGED <<pendingPause, callback, inputs>>
  BY DEF EndResume, channels
<1>2. Rank0 \in Engines
  BY DataParallelAssumption
<1>3. phase = "resuming"
  BY <1>1, <1>2
  DEF PauseInv, Idle, BeforeConsensus, AfterConsensus, Uncalled, Asked, Agreed, TypeOK,
      ClientTypes
<1>4. \A e \in Engines : Resumed(e)
  BY <1>1, <1>3 DEF PauseInv, Unresumed, Stopped
<1>5. phase' = "running" /\ answered' = {}
  BY <1>3 DEF EndResume, Answer, TypeOK, ClientTypes
<1>6. \A e \in Engines : Idle(e)'
  BY <1>1, <1>4 DEF Idle, Resumed
<1>7. \A f \in Fronts \ {Pauser}, e \in Engines : NoCall(inputs'[f][e])
  BY <1>1 DEF PauseInv
<1> QED BY <1>5, <1>6, <1>7 DEF PauseInv

LEMMA InitPause == Init => PauseInv
<1> SUFFICES ASSUME Init PROVE PauseInv
  OBVIOUS
<1>1. \A f \in Fronts, e \in Engines : NoCall(inputs[f][e])
  BY DEF Init, NoCall
<1>2. Pauser \in Fronts
  BY DataParallelAssumption
<1> QED BY <1>1, <1>2 DEF Init, PauseInv, Idle

LEMMA PauseNext ==
  ASSUME TypeOK, HomesKnown, PauseInv, [Next]_vars
  PROVE  PauseInv'
BY PauseClients, PauseSendAbort, PauseQuietSteps, PauseHandleAdd, PauseAborts,
   PauseHandleStart, PauseBeginStep, PauseEndForward, PausePause, PauseResume,
   PauseHandlePause, PauseHandleResume, PauseAnswerPause, PauseSync, PauseEndResume
DEF Next, Progress, Environment, Engine, Handle, Together

LEMMA PauseInvImplies == PauseInv => PausedMeansStill
BY DEF PauseInv, PausedMeansStill, Stopped, Unresumed, Resumed, HasWork

\* Once all engines have answered a pause none starts a step before all of them have
\* met in the all-reduce of resume_scheduler, whoever sends what to them.
THEOREM PausedEnginesStayStill == Spec => []PausedMeansStill
<1> DEFINE Inv == TypeOK /\ HomesKnown /\ PauseInv
<1>1. Init => Inv
  BY InitTypes, InitHomes, InitPause
<1>2. Inv /\ [Next]_vars => Inv'
  BY TypesNext, PauseNext
<1>3. Inv => PausedMeansStill
  BY PauseInvImplies
<1> QED BY <1>1, <1>2, <1>3, PTL DEF Spec

-----------------------------------------------------------------------------
(* Collective operations *)

\* The step counters are equal, so the engines leave a forward pass together, for
\* the all-reduce or for the loop.
LockInv ==
  /\ \A e, d \in Engines : steps[e] = steps[d]
  /\ \A e, d \in Engines : at[e] = "sync" => at[d] = "sync"

LEMMA InitLock == Init => LockInv
BY DEF Init, LockInv

LEMMA InitCollectives == Init => C!Init
BY DEF Init, C!Init

LEMMA SameLock ==
  ASSUME LockInv, UNCHANGED <<at, steps>>
  PROVE  LockInv' /\ [C!Next]_at
BY DEF LockInv

LEMMA EnterIsEnter ==
  ASSUME TypeOK, LockInv, NEW e \in Engines, NEW k \in {"forward", "resume"},
         at[e] = "loop", \A d \in Engines : at[d] \in {"loop", k, "sync"},
         at' = [at EXCEPT ![e] = k], UNCHANGED steps
  PROVE  LockInv' /\ C!Next
<1>1. \A d \in Engines : at[d] \in {"loop", k}
  BY DEF LockInv
<1>2. C!Enter(e, k)
  BY <1>1 DEF C!Enter
<1>3. LockInv'
  BY <1>1 DEF LockInv, TypeOK, EngineTypes
<1> QED BY <1>2, <1>3 DEF C!Next

\* An engine with work does not meet one that waits in the all-reduce of
\* resume_scheduler.
LEMMA LockBeginStep ==
  ASSUME TypeOK, PauseInv, LockInv, NEW e \in Engines, BeginStep(e)
  PROVE  LockInv' /\ C!Next
<1>1. at[e] = "loop" /\ at' = [at EXCEPT ![e] = "forward"] /\ UNCHANGED steps /\ HasWork(e)
  BY DEF BeginStep
<1>2. phase # "resuming"
  BY <1>1 DEF PauseInv, Unresumed, Resumed, Stopped, HasWork
<1>3. \A d \in Engines : at[d] # "resume"
  BY <1>2 DEF PauseInv, Idle, BeforeConsensus, AfterConsensus, Uncalled, Asked, Agreed,
     TypeOK, ClientTypes
<1>4. \A d \in Engines : at[d] \in {"loop", "forward", "sync"}
  BY <1>3 DEF TypeOK, EngineTypes
<1> QED BY <1>1, <1>4, EnterIsEnter

LEMMA LockHandleResume ==
  ASSUME TypeOK, PauseInv, LockInv, NEW f \in Fronts, NEW e \in Engines, HandleResume(f, e)
  PROVE  LockInv' /\ [C!Next]_at
<1>1. Receive(f, e, "RESUME") /\ UNCHANGED steps
  BY DEF HandleResume
<1>2. ~NoCall(inputs[Pauser][e]) /\ ~OneCall(inputs[Pauser][e], "PAUSE")
  BY <1>1, ReceiveCall DEF CallTypes
<1>3. phase = "resuming"
  BY <1>2
  DEF PauseInv, Idle, BeforeConsensus, AfterConsensus, Uncalled, Asked, Agreed, TypeOK,
      ClientTypes
<1>4. \A d \in Engines : at[d] \in {"loop", "resume", "sync"}
  BY <1>3 DEF PauseInv, Unresumed, Resumed, Stopped
<1>5. CASE UNCHANGED at
  BY <1>1, <1>5, SameLock
<1>6. CASE at' = [at EXCEPT ![e] = "resume"]
  BY <1>1, <1>4, <1>6, EnterIsEnter DEF Receive
<1> QED BY <1>5, <1>6 DEF HandleResume

LEMMA LockEndForward ==
  ASSUME TypeOK, LockInv, EndForward
  PROVE  LockInv' /\ C!Next
<1>1. /\ at = [e \in Engines |-> "forward"]
      /\ steps' = [e \in Engines |-> NextStep(steps[e])]
      /\ at' = [e \in Engines |-> IF steps'[e] = 0 THEN "sync" ELSE "loop"]
  BY DEF EndForward
<1>2. \A e, d \in Engines : steps'[e] = steps'[d]
  BY <1>1 DEF LockInv
<1>3. Rank0 \in Engines
  BY DataParallelAssumption
<1>4. \E next \in {"loop", "sync"} : at' = [e \in Engines |-> next]
  <2>1. CASE steps'[Rank0] = 0
    <3>1. at' = [e \in Engines |-> "sync"]
      BY <1>1, <1>2, <1>3, <2>1
    <3> QED BY <3>1
  <2>2. CASE steps'[Rank0] # 0
    <3>1. at' = [e \in Engines |-> "loop"]
      BY <1>1, <1>2, <1>3, <2>2
    <3> QED BY <3>1
  <2> QED BY <2>1, <2>2
<1>5. C!Complete("forward")
  BY <1>1, <1>4 DEF C!Complete
<1>6. LockInv'
  BY <1>2, <1>4 DEF LockInv
<1> QED BY <1>5, <1>6 DEF C!Next

LEMMA LockReduce ==
  ASSUME LockInv, Sync \/ EndResume
  PROVE  LockInv' /\ C!Next
<1>1. PICK k \in {"sync", "resume"} : at = [e \in Engines |-> k]
  BY DEF Sync, EndResume
<1>2. at' = [e \in Engines |-> "loop"] /\ UNCHANGED steps
  BY DEF Sync, EndResume
<1>3. C!Complete(k)
  BY <1>1, <1>2 DEF C!Complete
<1>4. LockInv'
  BY <1>2 DEF LockInv
<1> QED BY <1>3, <1>4 DEF C!Next

LEMMA LockNext ==
  ASSUME TypeOK, PauseInv, LockInv, [Next]_vars
  PROVE  LockInv' /\ [C!Next]_at
<1>1. ASSUME NEW f \in Fronts,
             \/ ForwardFirstReq(f) \/ ReadStats(f) \/ HandleWakeup(f)
             \/ \E e \in Engines : \/ HandleAdd(f, e) \/ HandleAbort(f, e) \/ HandlePause(f, e)
                                   \/ \E r \in Requests : \/ SendRequest(f, e, r)
                                                          \/ AbortDuringStep(f, e, r)
      PROVE  UNCHANGED <<at, steps>>
  BY <1>1 DEF ForwardFirstReq, ReadStats, HandleWakeup, HandleAdd, HandleAbort, HandlePause,
     SendRequest, AbortDuringStep, engineVars
<1>2. ASSUME NEW e \in Engines, HandleNotice(e) \/ HandleStart(e) \/ AnswerPause(e)
      PROVE  UNCHANGED <<at, steps>>
  BY <1>2 DEF HandleNotice, HandleStart, AnswerPause, engineVars
<1>3. ASSUME \/ \E r \in Requests : SendAbort(r)
             \/ \E mode \in Modes : Pause(mode)
             \/ Resume \/ PublishStats \/ UNCHANGED vars
      PROVE  UNCHANGED <<at, steps>>
  BY <1>3 DEF SendAbort, Pause, Resume, Call, PublishStats, vars, engineVars
<1> QED
  BY <1>1, <1>2, <1>3, SameLock, LockBeginStep, LockHandleResume, LockEndForward, LockReduce
  DEF Next, Progress, Environment, Engine, Handle, Together

\* The engines keep the discipline of collective operations: whoever enters one meets
\* nobody who waits in another, and all leave together.
THEOREM CollectivesMatch == Spec => C!Safety
<1> DEFINE Inv == TypeOK /\ HomesKnown /\ PauseInv /\ LockInv
<1>1. Init => Inv /\ C!Init
  BY InitTypes, InitHomes, InitPause, InitLock, InitCollectives
<1>2. Inv /\ [Next]_vars => Inv' /\ [C!Next]_at
  BY TypesNext, PauseNext, LockNext
<1> QED BY <1>1, <1>2, PTL DEF Spec, C!Safety

-----------------------------------------------------------------------------
(* Nobody is left waiting *)

\* What a channel carries, in whatever order.
Under(s) == {s[i] : i \in 1..Len(s)}

\* A FIRST_REQ is on its way to the coordinator.
Waking == \E f \in Fronts : firstReqs[f] # <<>> \/ wakeups[f] # <<>>

\* The coordinator has started the wave that the engines count.
Announced == coord.running /\ coord.wave = wave[Rank0]

\* The coordinator's START_DP_WAVE for this wave is on its way to engine d; engine e
\* has asked for one.
Called(d) == \E m \in Under(starts[d]) : m.wave = wave[Rank0] /\ d \notin m.excluded
Asking(e) == \E m \in Under(notices[e]) : m.type = "start" /\ m.wave = wave[Rank0]

\* Engine d runs, or what will make it run is on its way.
WillRun(d) ==
  \/ running[d]
  \/ Called(d)
  \/ \E e \in Engines : Asking(e)
  \/ coord.wave = wave[Rank0] /\ Waking

\* Messages tell the truth. (1) the request of an abort is no longer wanted; (2) only an
\* announced wave is started; (3) whoever asks for a wave runs it; (4) a request of the
\* current wave comes with its announcement or with a FIRST_REQ.
AbortsWanted ==
  \A f \in Fronts, e \in Engines : \A m \in Under(inputs[f][e]) :
    m.type = "ABORT" => status[m.request] \in {"aborting", "done"}

StartsAnnounced ==
  \A d \in Engines : \A m \in Under(starts[d]) : m.wave = wave[Rank0] => Announced

AskersRun == \A e \in Engines : Asking(e) => running[e]

AddsAnnounced ==
  \A f \in Fronts, e \in Engines : \A m \in Under(inputs[f][e]) :
    m.type = "ADD" /\ m.wave = wave[Rank0] =>
      coord.wave = wave[Rank0] /\ (coord.running \/ Waking)

\* What a front end believes to run does run, or the front end has asked for it.
Beliefs ==
  \A f \in Fronts :
    /\ \A v \in Under(stats[f]) : v.running /\ v.wave = coord.wave => coord.running
    /\ front[f].running /\ front[f].wave = coord.wave => coord.running \/ wakeups[f] # <<>>

\* An engine outside a pause obeys.
Obedient ==
  \A e \in Engines : phase = "running" \/ at[e] = "resume" =>
    pauseState[e] = "UNPAUSED" /\ ~ignoring[e]

\* Outside a pause: all run an announced wave, or will; and if one has work, all will.
Woken ==
  phase = "running" =>
    /\ Announced => \A d \in Engines : running[d] \/ Called(d)
    /\ (\E e \in Engines : HasWork(e) \/ at[e] = "forward") => \A d \in Engines : WillRun(d)

\* A pause ends the wave that runs, and none is announced before it is complete.
WaveOver ==
  phase = "pausing" =>
    /\ ~Waking
    /\ NoCall(inputs[Pauser][Rank0]) /\ ~running[Rank0] => ~Announced

\* A wave announced during a pause has a request that the engines will find when they
\* resume.
Held(r) == status[r] = "sent" /\ \E e \in Engines : r \in waiting[e]
Coming(r) ==
  /\ status[r] = "sent"
  /\ \E f \in Fronts, e \in Engines : \E m \in Under(inputs[f][e]) :
       m.type = "ADD" /\ m.request = r

WorkHeld ==
  phase \in {"paused", "resuming"} /\ (Announced \/ Waking) =>
    /\ "paused" \in AddPhases
    /\ \E r \in Requests : Held(r) \/ (phase = "paused" /\ Coming(r))

WakeInv ==
  /\ AbortsWanted
  /\ StartsAnnounced
  /\ AskersRun
  /\ AddsAnnounced
  /\ Beliefs
  /\ Obedient
  /\ Woken
  /\ WaveOver
  /\ WorkHeld

\* The clients it takes: they call when nothing is under way, they send nothing while
\* the engines stop or resume, and they do not abort what standing engines hold.
Considerate ==
  /\ Patient
  /\ AddPhases \subseteq {"running", "paused"}
  /\ "paused" \in AddPhases => AbortPhases \intersect {"paused", "resuming"} = {}

-----------------------------------------------------------------------------
(* What is in a channel *)

LEMMA UnderEmpty == Under(<<>>) = {}
BY DEF Under

LEMMA UnderAppend ==
  ASSUME NEW S, NEW s \in Seq(S), NEW x \in S
  PROVE  Under(Append(s, x)) = Under(s) \union {x}
<1>1. /\ Len(s) \in Nat
      /\ Len(Append(s, x)) = Len(s) + 1
      /\ \A i \in 1..Len(s) : Append(s, x)[i] = s[i]
      /\ Append(s, x)[Len(s) + 1] = x
  OBVIOUS
<1>2. ASSUME NEW y \in Under(Append(s, x)) PROVE y \in Under(s) \union {x}
  <2>1. PICK i \in 1..Len(Append(s, x)) : y = Append(s, x)[i]
    BY DEF Under
  <2>2. i \in 1..Len(s) \/ i = Len(s) + 1
    BY <1>1
  <2> QED BY <1>1, <2>1, <2>2 DEF Under
<1>3. ASSUME NEW y \in Under(s) \union {x} PROVE y \in Under(Append(s, x))
  <2>1. CASE y = x
    <3>1. Len(s) + 1 \in 1..Len(Append(s, x))
      BY <1>1
    <3> QED BY <1>1, <2>1, <3>1 DEF Under
  <2>2. CASE y \in Under(s)
    <3>1. PICK i \in 1..Len(s) : y = s[i]
      BY <2>2 DEF Under
    <3>2. i \in 1..Len(Append(s, x)) /\ Append(s, x)[i] = y
      BY <1>1, <3>1
    <3> QED BY <3>2 DEF Under
  <2> QED BY <2>1, <2>2
<1> QED BY <1>2, <1>3

LEMMA UnderTail ==
  ASSUME NEW S, NEW s \in Seq(S), s # <<>>
  PROVE  Under(s) = {Head(s)} \union Under(Tail(s))
<1>1. /\ Len(s) \in Nat /\ Len(s) > 0
      /\ Len(Tail(s)) = Len(s) - 1
      /\ Head(s) = s[1]
      /\ \A i \in 1..Len(Tail(s)) : Tail(s)[i] = s[i + 1]
  OBVIOUS
<1>2. ASSUME NEW y \in Under(s) PROVE y \in {Head(s)} \union Under(Tail(s))
  <2>1. PICK i \in 1..Len(s) : y = s[i]
    BY DEF Under
  <2>2. CASE i = 1
    BY <1>1, <2>1, <2>2
  <2>3. CASE i # 1
    <3>1. i - 1 \in 1..Len(Tail(s)) /\ Tail(s)[i - 1] = y
      BY <1>1, <2>1, <2>3
    <3> QED BY <3>1 DEF Under
  <2> QED BY <2>2, <2>3
<1>3. ASSUME NEW y \in {Head(s)} \union Under(Tail(s)) PROVE y \in Under(s)
  <2>1. CASE y = Head(s)
    <3>1. 1 \in 1..Len(s)
      BY <1>1
    <3> QED BY <1>1, <2>1, <3>1 DEF Under
  <2>2. CASE y \in Under(Tail(s))
    <3>1. PICK i \in 1..Len(Tail(s)) : y = Tail(s)[i]
      BY <2>2 DEF Under
    <3>2. i + 1 \in 1..Len(s) /\ s[i + 1] = y
      BY <1>1, <3>1
    <3> QED BY <3>2 DEF Under
  <2> QED BY <2>1, <2>2
<1> QED BY <1>2, <1>3

LEMMA UnderSubSeq ==
  ASSUME NEW S, NEW s \in Seq(S), NEW k \in 0..Len(s)
  PROVE  /\ Under(SubSeq(s, k + 1, Len(s))) \subseteq Under(s)
         /\ k # 0 => s[k] \in Under(s)
<1>1. Len(s) \in Nat
  OBVIOUS
<1>2. /\ Len(SubSeq(s, k + 1, Len(s))) = Len(s) - k
      /\ \A i \in 1..Len(s) - k : SubSeq(s, k + 1, Len(s))[i] = s[k + i]
  BY <1>1
<1>3. ASSUME NEW y \in Under(SubSeq(s, k + 1, Len(s))) PROVE y \in Under(s)
  <2>1. PICK i \in 1..Len(SubSeq(s, k + 1, Len(s))) : y = SubSeq(s, k + 1, Len(s))[i]
    BY DEF Under
  <2>2. k + i \in 1..Len(s) /\ y = s[k + i]
    BY <1>1, <1>2, <2>1
  <2> QED BY <2>2 DEF Under
<1>4. k # 0 => k \in 1..Len(s)
  BY <1>1
<1> QED BY <1>3, <1>4 DEF Under

LEMMA UnderType ==
  ASSUME NEW S, NEW s \in Seq(S)
  PROVE  Under(s) \subseteq S
BY DEF Under

\* Which steps write which channel.
LEMMA StartsWriters ==
  ASSUME [Next]_vars
  PROVE  \/ UNCHANGED starts
         \/ \E f \in Fronts : HandleWakeup(f)
         \/ \E e \in Engines : HandleNotice(e) \/ HandleStart(e)
<1>1. CASE Progress
  BY <1>1, ZenonT(60) DEF Progress, Engine, Handle, Together, ForwardFirstReq, ReadStats,
     HandleAdd, HandleAbort, HandlePause, HandleResume, AnswerPause, BeginStep, EndForward,
     Sync, EndResume, channels
<1>2. CASE Environment
  BY <1>2, ZenonT(60) DEF Environment, SendRequest, SendAbort, Call, Pause, Resume,
     PublishStats, AbortDuringStep, channels
<1>3. CASE UNCHANGED vars
  BY <1>3 DEF vars, channels
<1> QED BY <1>1, <1>2, <1>3 DEF Next

LEMMA NoticesWriters ==
  ASSUME [Next]_vars
  PROVE  \/ UNCHANGED notices
         \/ \E f \in Fronts, e \in Engines : HandleAdd(f, e)
         \/ \E e \in Engines : HandleNotice(e)
         \/ Sync
<1>1. CASE Progress
  BY <1>1, ZenonT(60) DEF Progress, Engine, Handle, Together, ForwardFirstReq, ReadStats,
     HandleWakeup, HandleAbort, HandlePause, HandleResume, HandleStart, AnswerPause,
     BeginStep, EndForward, EndResume, channels
<1>2. CASE Environment
  BY <1>2, ZenonT(60) DEF Environment, SendRequest, SendAbort, Call, Pause, Resume,
     PublishStats, AbortDuringStep, channels
<1>3. CASE UNCHANGED vars
  BY <1>3 DEF vars, channels
<1> QED BY <1>1, <1>2, <1>3 DEF Next

LEMMA InputsWriters ==
  ASSUME [Next]_vars
  PROVE  \/ UNCHANGED inputs
         \/ \E f \in Fronts, e \in Engines, r \in Requests : SendRequest(f, e, r)
         \/ \E r \in Requests : SendAbort(r)
         \/ \E mode \in Modes : Pause(mode)
         \/ Resume
         \/ \E f \in Fronts, e \in Engines :
              HandleAdd(f, e) \/ HandleAbort(f, e) \/ HandlePause(f, e) \/ HandleResume(f, e)
<1>1. CASE Progress
  BY <1>1, ZenonT(60) DEF Progress, Engine, Handle, Together, ForwardFirstReq, ReadStats,
     HandleWakeup, HandleNotice, HandleStart, AnswerPause, BeginStep, EndForward, Sync,
     EndResume, channels
<1>2. CASE Environment
  BY <1>2, ZenonT(60) DEF Environment, PublishStats, AbortDuringStep, channels
<1>3. CASE UNCHANGED vars
  BY <1>3 DEF vars, channels
<1> QED BY <1>1, <1>2, <1>3 DEF Next

\* ... and the state of the coordinator and of the front ends.
LEMMA CoordWriters ==
  ASSUME [Next]_vars
  PROVE  \/ UNCHANGED coord
         \/ \E f \in Fronts : HandleWakeup(f)
         \/ \E e \in Engines : HandleNotice(e)
<1>1. CASE Progress
  BY <1>1, ZenonT(60) DEF Progress, Engine, Handle, Together, ForwardFirstReq, ReadStats,
     HandleAdd, HandleAbort, HandlePause, HandleResume, HandleStart, AnswerPause, BeginStep,
     EndForward, Sync, EndResume, channels
<1>2. CASE Environment
  BY <1>2, ZenonT(60) DEF Environment, SendRequest, SendAbort, Call, Pause, Resume,
     PublishStats, AbortDuringStep, channels
<1>3. CASE UNCHANGED vars
  BY <1>3 DEF vars, channels
<1> QED BY <1>1, <1>2, <1>3 DEF Next

LEMMA FrontWriters ==
  ASSUME [Next]_vars
  PROVE  \/ UNCHANGED front
         \/ \E f \in Fronts : ForwardFirstReq(f) \/ ReadStats(f)
<1>1. CASE Progress
  BY <1>1, ZenonT(60) DEF Progress, Engine, Handle, Together, HandleWakeup, HandleNotice,
     HandleAdd, HandleAbort, HandlePause, HandleResume, HandleStart, AnswerPause, BeginStep,
     EndForward, Sync, EndResume, channels
<1>2. CASE Environment
  BY <1>2, ZenonT(60) DEF Environment, SendRequest, SendAbort, Call, Pause, Resume,
     PublishStats, AbortDuringStep, channels
<1>3. CASE UNCHANGED vars
  BY <1>3 DEF vars, channels
<1> QED BY <1>1, <1>2, <1>3 DEF Next

LEMMA PipelineWriters ==
  ASSUME [Next]_vars
  PROVE  \/ UNCHANGED <<firstReqs, wakeups>>
         \/ \E f \in Fronts, e \in Engines, r \in Requests : SendRequest(f, e, r)
         \/ \E f \in Fronts : ForwardFirstReq(f) \/ HandleWakeup(f)
<1>1. CASE Progress
  BY <1>1, ZenonT(60) DEF Progress, Engine, Handle, Together, ReadStats, HandleNotice,
     HandleAdd, HandleAbort, HandlePause, HandleResume, HandleStart, AnswerPause, BeginStep,
     EndForward, Sync, EndResume, channels
<1>2. CASE Environment
  BY <1>2, ZenonT(60) DEF Environment, SendAbort, Call, Pause, Resume, PublishStats,
     AbortDuringStep, channels
<1>3. CASE UNCHANGED vars
  BY <1>3 DEF vars, channels
<1> QED BY <1>1, <1>2, <1>3 DEF Next

LEMMA StatsWriters ==
  ASSUME [Next]_vars
  PROVE  \/ UNCHANGED stats
         \/ \E f \in Fronts : ForwardFirstReq(f) \/ ReadStats(f) \/ HandleWakeup(f)
         \/ \E e \in Engines : HandleNotice(e)
         \/ PublishStats
<1>1. CASE Progress
  BY <1>1, ZenonT(60) DEF Progress, Engine, Handle, Together, HandleAdd, HandleAbort,
     HandlePause, HandleResume, HandleStart, AnswerPause, BeginStep, EndForward, Sync,
     EndResume, channels
<1>2. CASE Environment
  BY <1>2, ZenonT(60) DEF Environment, SendRequest, SendAbort, Call, Pause, Resume,
     AbortDuringStep, channels
<1>3. CASE UNCHANGED vars
  BY <1>3 DEF vars, channels
<1> QED BY <1>1, <1>2, <1>3 DEF Next

LEMMA RunningWriters ==
  ASSUME [Next]_vars
  PROVE  \/ UNCHANGED <<wave, running>>
         \/ \E f \in Fronts, e \in Engines : HandleAdd(f, e) \/ HandlePause(f, e)
         \/ \E e \in Engines : HandleStart(e)
         \/ EndForward
         \/ Sync
         \/ EndResume
<1>1. CASE Progress
  BY <1>1, ZenonT(60) DEF Progress, Engine, Handle, Together, ForwardFirstReq, ReadStats,
     HandleAbort, HandleWakeup, HandleNotice, HandleResume, AnswerPause, BeginStep,
     engineVars
<1>2. CASE Environment
  BY <1>2, ZenonT(60) DEF Environment, SendRequest, SendAbort, Call, Pause, Resume,
     PublishStats, AbortDuringStep, engineVars
<1>3. CASE UNCHANGED vars
  BY <1>3 DEF vars, engineVars
<1> QED BY <1>1, <1>2, <1>3 DEF Next

LEMMA PhaseWriters ==
  ASSUME [Next]_vars
  PROVE  \/ UNCHANGED phase
         \/ \E mode \in Modes : Pause(mode)
         \/ Resume
         \/ \E f \in Fronts, e \in Engines : HandleResume(f, e)
         \/ \E e \in Engines : AnswerPause(e)
         \/ EndResume
<1>1. CASE Progress
  BY <1>1, ZenonT(60) DEF Progress, Engine, Handle, Together, ForwardFirstReq, ReadStats,
     HandleAdd, HandleAbort, HandleWakeup, HandleNotice, HandlePause, HandleStart,
     BeginStep, EndForward, Sync, clientVars
<1>2. CASE Environment
  BY <1>2, ZenonT(60) DEF Environment, SendRequest, SendAbort, PublishStats,
     AbortDuringStep, clientVars
<1>3. CASE UNCHANGED vars
  BY <1>3 DEF vars, clientVars
<1> QED BY <1>1, <1>2, <1>3 DEF Next

LEMMA StatusWriters ==
  ASSUME [Next]_vars
  PROVE  \/ UNCHANGED status
         \/ \E f \in Fronts, e \in Engines, r \in Requests : SendRequest(f, e, r)
         \/ \E r \in Requests : SendAbort(r)
         \/ \E rs : Done(rs)
<1>1. ASSUME NEW f \in Fronts, NEW e \in Engines,
             \/ HandleAbort(f, e) \/ HandlePause(f, e)
             \/ \E r \in Requests : AbortDuringStep(f, e, r)
      PROVE  \E rs : Done(rs)
  <2>1. \E rs : Finish(e, rs)
    BY <1>1 DEF HandleAbort, HandlePause, AbortDuringStep
  <2> QED BY <2>1 DEF Finish
<1>2. EndForward => \E rs : Done(rs)
  BY DEF EndForward
<1> QED
  BY <1>1, <1>2, ZenonT(60)
  DEF Next, Progress, Environment, Engine, Handle, Together, ForwardFirstReq, ReadStats, Call,
      Pause, Resume, PublishStats, HandleWakeup, HandleNotice, HandleAdd, HandleResume,
      HandleStart, AnswerPause, BeginStep, Sync, EndResume, vars, clientVars

-----------------------------------------------------------------------------
(* What a step does to each channel: what it may put there, and what it loses *)

LEMMA AddIsNotAhead ==
  ASSUME TypeOK, WavesInv, NEW f \in Fronts, NEW e \in Engines, HandleAdd(f, e)
  PROVE  UNCHANGED wave
<1> DEFINE message == Head(inputs[f][e])
<1>1. message \in AddsUpTo(coord.wave)
  <2>1. inputs[f][e] # <<>>
    BY DEF HandleAdd, Receive
  <2>2. inputs \in [Fronts -> [Engines -> Seq(AddsUpTo(coord.wave))]]
    BY DEF WavesInv
  <2> QED BY <2>1, <2>2, TailAtTwo
<1>2. message.wave \in Nat /\ message.wave <= coord.wave
  BY <1>1 DEF AddsUpTo, Messages, HandleAdd, Receive
<1>3. ~(message.wave > wave[e])
  <2> HIDE DEF message
  <2>1. wave[e] = wave[Rank0] /\ coord.wave <= wave[Rank0]
    BY DEF WavesInv
  <2> QED BY <1>2, <2>1, WavesAreNat
<1> QED BY <1>3 DEF HandleAdd

LEMMA StartIsNotAhead ==
  ASSUME TypeOK, WavesInv, NEW e \in Engines, HandleStart(e)
  PROVE  /\ Head(starts[e]) \in Starts
         /\ Head(starts[e]).wave <= wave[Rank0]
         /\ UNCHANGED wave
<1> DEFINE message == Head(starts[e])
<1>1. message \in StartsUpTo(coord.wave)
  <2>1. starts[e] # <<>> /\ starts \in [Engines -> Seq(StartsUpTo(coord.wave))]
    BY DEF HandleStart, WavesInv
  <2> QED BY <2>1, TailAt
<1>2. message \in Starts /\ message.wave \in Nat /\ message.wave <= coord.wave
  BY <1>1 DEF StartsUpTo, Starts
<1>3. message.wave <= wave[Rank0] /\ (message.wave >= wave[e] => message.wave = wave[e])
  <2> HIDE DEF message
  <2>1. wave[e] = wave[Rank0] /\ coord.wave <= wave[Rank0] /\ wave[e] \in Nat
    BY WavesAreNat DEF WavesInv
  <2> QED BY <1>2, <2>1, WavesAreNat
<1>4. UNCHANGED wave
  BY <1>3, WavesAreNat DEF HandleStart, Obeys
<1> QED BY <1>2, <1>3, <1>4

\* An engine stops running only when the wave ends.
NewWave ==
  /\ Sync
  /\ wave'[Rank0] = wave[Rank0] + 1
  /\ \A e \in Engines : ~running'[e] /\ ~HasUnfinished(e)
  /\ notices' = [notices EXCEPT ![Rank0] =
                   Append(@, [type |-> "complete", wave |-> wave[Rank0]])]

SameWave ==
  /\ wave'[Rank0] = wave[Rank0]
  /\ \A e \in Engines : running[e] => running'[e]

LEMMA WaveStep ==
  ASSUME TypeOK, WavesInv, [Next]_vars
  PROVE  SameWave \/ NewWave
<1>1. Rank0 \in Engines
  BY DataParallelAssumption
<1>2. CASE UNCHANGED <<wave, running>>
  BY <1>2 DEF SameWave
<1>3. ASSUME NEW f \in Fronts, NEW e \in Engines, HandleAdd(f, e)
      PROVE  SameWave
  <2>1. UNCHANGED wave
    BY <1>3, AddIsNotAhead
  <2> QED BY <1>3, <2>1 DEF SameWave, HandleAdd, TypeOK, EngineTypes
<1>4. ASSUME NEW f \in Fronts, NEW e \in Engines, HandlePause(f, e)
      PROVE  SameWave
  BY <1>4 DEF SameWave, HandlePause, TypeOK, EngineTypes
<1>5. ASSUME NEW e \in Engines, HandleStart(e)
      PROVE  SameWave
  <2>1. UNCHANGED wave
    BY <1>5, StartIsNotAhead
  <2> QED BY <1>5, <2>1 DEF SameWave, HandleStart, TypeOK, EngineTypes
<1>6. CASE EndForward
  BY <1>6 DEF SameWave, EndForward
<1>7. CASE EndResume
  BY <1>7 DEF SameWave, EndResume
<1>8. CASE Sync
  <2> DEFINE pausers == {e \in Engines : pendingPause[e]}
             unfinished == \/ \E e \in Engines : HasUnfinished(e)
                           \/ pausers \notin {{}, Engines}
  <2>1. /\ running' = [e \in Engines |-> unfinished]
        /\ wave' = [e \in Engines |-> IF unfinished THEN wave[e] ELSE WaveAfter(e)]
        /\ notices' = IF unfinished THEN notices
              ELSE [notices EXCEPT ![Rank0] =
                      Append(@, [type |-> "complete", wave |-> wave[Rank0]])]
    BY <1>8 DEF Sync
  <2>2. CASE unfinished
    BY <1>1, <2>1, <2>2 DEF SameWave
  <2>3. CASE ~unfinished
    BY <1>1, <1>8, <2>1, <2>3 DEF NewWave, WaveAfter
  <2> QED BY <2>2, <2>3
<1> QED BY <1>2, <1>3, <1>4, <1>5, <1>6, <1>7, <1>8, RunningWriters

LEMMA BroadcastEffect ==
  ASSUME TypeOK, NEW w \in Nat, NEW x \in SUBSET Engines, Broadcast(w, x), NEW d \in Engines
  PROVE  Under(starts'[d]) = Under(starts[d]) \union {[wave |-> w, excluded |-> x]}
<1> DEFINE m == [wave |-> w, excluded |-> x]
<1>1. starts[d] \in Seq(Starts) /\ m \in Starts
  BY ChannelFacts DEF Starts
<1>2. starts'[d] = Append(starts[d], m)
  BY DEF Broadcast
<1> HIDE DEF m
<1>3. Under(starts'[d]) = Under(starts[d]) \union {m}
  BY <1>1, <1>2, UnderAppend
<1> QED BY <1>3 DEF m

LEMMA PublishEffect ==
  ASSUME TypeOK, NEW v \in View, Publish(v), NEW f \in Fronts
  PROVE  Under(stats'[f]) = Under(stats[f]) \union {v}
<1>1. stats[f] \in Seq(View) /\ stats'[f] = Append(stats[f], v)
  BY ChannelFacts DEF Publish
<1> QED BY <1>1, UnderAppend

LEMMA NoticeEffect ==
  ASSUME TypeOK, NEW e \in Engines, HandleNotice(e)
  PROVE  LET n == Head(notices[e]) IN
         /\ n \in Notices
         /\ Under(notices[e]) = {n} \union Under(notices'[e])
         /\ \A d \in Engines : d # e => notices'[d] = notices[d]
         /\ \/ /\ UNCHANGED <<coord, starts, stats>>
               /\ n.type = "complete" => coord.wave > n.wave
               /\ n.type = "start" => n.wave < coord.wave \/ (n.wave = coord.wave /\ coord.running)
            \/ /\ n.type = "complete"
               /\ coord.wave <= n.wave
               /\ coord' = [wave |-> n.wave + 1, running |-> FALSE]
               /\ Publish(coord')
               /\ UNCHANGED starts
            \/ /\ n.type = "start"
               /\ n.wave > coord.wave \/ (n.wave = coord.wave /\ ~coord.running)
               /\ coord' = [wave |-> n.wave, running |-> TRUE]
               /\ Broadcast(n.wave, {e})
               /\ Publish(coord')
<1> DEFINE n == Head(notices[e])
<1>1. notices[e] # <<>> /\ notices \in [Engines -> Seq(Notices)]
  BY ChannelFacts DEF HandleNotice
<1>2. notices' = [notices EXCEPT ![e] = Tail(@)]
  BY DEF HandleNotice
<1>3. n \in Notices
  BY <1>1, TailAt
<1>4. notices[e] \in Seq(Notices) /\ notices'[e] = Tail(notices[e])
  BY <1>1, <1>2
<1>5. Under(notices[e]) = {n} \union Under(notices'[e])
  BY <1>1, <1>4, UnderTail
<1>6. \A d \in Engines : d # e => notices'[d] = notices[d]
  BY <1>1, <1>2
<1>7. IF n.type = "complete" THEN CompleteWave(n.wave) ELSE StartWave(e, n.wave)
  BY DEF HandleNotice
<1>8. n.type \in {"complete", "start"} /\ n.wave \in Nat /\ coord.wave \in Nat
  BY <1>3, WavesAreNat DEF Notices
<1> HIDE DEF n
<1>9. CASE n.type = "complete"
  BY <1>3, <1>5, <1>6, <1>7, <1>8, <1>9 DEF CompleteWave, n
<1>10. CASE n.type = "start"
  BY <1>3, <1>5, <1>6, <1>7, <1>8, <1>10 DEF StartWave, n
<1> QED BY <1>8, <1>9, <1>10

LEMMA WakeupEffect ==
  ASSUME TypeOK, NEW f \in Fronts, HandleWakeup(f)
  PROVE  /\ wakeups[f] # <<>>
         /\ \A g \in Fronts : g # f => wakeups'[g] = wakeups[g]
         /\ UNCHANGED <<wave, running, firstReqs>>
         /\ coord'.wave = coord.wave
         /\ coord'.running
         /\ \/ coord.running /\ UNCHANGED <<coord, starts, stats>>
            \/ ~coord.running /\ Broadcast(coord.wave, {}) /\ Publish(coord')
<1>1. coord \in View /\ wakeups \in [Fronts -> Seq(Wakeups)]
  BY ChannelFacts, WavesAreNat
<1>2. /\ wakeups[f] # <<>>
      /\ wakeups' = [wakeups EXCEPT ![f] = Tail(@)]
      /\ UNCHANGED <<wave, running, firstReqs>>
  BY DEF HandleWakeup, engineVars
<1>3. \/ coord.running /\ UNCHANGED <<coord, starts, stats>>
      \/ /\ ~coord.running
         /\ coord' = [coord EXCEPT !.running = TRUE]
         /\ Broadcast(coord.wave, {})
         /\ Publish(coord')
  BY DEF HandleWakeup, IndexOfIdentity
<1> QED BY <1>1, <1>2, <1>3 DEF View

\* The coordinator goes on, and does not revoke a wave it has announced.
LEMMA CoordStep ==
  ASSUME TypeOK, WavesInv, [Next]_vars
  PROVE  /\ coord.wave <= coord'.wave
         /\ coord.running /\ coord'.wave = coord.wave => coord'.running
<1>1. coord.wave \in Nat
  BY WavesAreNat
<1>2. ASSUME NEW f \in Fronts, HandleWakeup(f)
      PROVE  /\ coord.wave <= coord'.wave
             /\ coord.running /\ coord'.wave = coord.wave => coord'.running
  BY <1>1, <1>2, WakeupEffect
<1>3. ASSUME NEW e \in Engines, HandleNotice(e)
      PROVE  /\ coord.wave <= coord'.wave
             /\ coord.running /\ coord'.wave = coord.wave => coord'.running
  <2> DEFINE n == Head(notices[e])
  <2>1. n.wave \in Nat
    BY <1>3, NoticeEffect DEF Notices
  <2>2. \/ UNCHANGED coord
        \/ coord.wave <= n.wave /\ coord' = [wave |-> n.wave + 1, running |-> FALSE]
        \/ /\ n.wave > coord.wave \/ n.wave = coord.wave
           /\ coord' = [wave |-> n.wave, running |-> TRUE]
    BY <1>3, NoticeEffect
  <2> HIDE DEF n
  <2> QED BY <1>1, <2>1, <2>2
<1> QED BY <1>1, <1>2, <1>3, CoordWriters

\* A START_DP_WAVE announces the wave that the coordinator runs,
LEMMA StartsStep ==
  ASSUME TypeOK, [Next]_vars, NEW d \in Engines, NEW m \in Under(starts'[d])
  PROVE  m \in Under(starts[d]) \/ (m.wave = coord'.wave /\ coord'.running)
<1>1. CASE UNCHANGED starts
  BY <1>1
<1>2. ASSUME NEW f \in Fronts, HandleWakeup(f)
      PROVE  m \in Under(starts[d]) \/ (m.wave = coord'.wave /\ coord'.running)
  <2>1. CASE UNCHANGED starts
    BY <2>1
  <2>2. CASE Broadcast(coord.wave, {})
    <3>1. Under(starts'[d]) = Under(starts[d]) \union {[wave |-> coord.wave, excluded |-> {}]}
      BY <2>2, BroadcastEffect, WavesAreNat
    <3>2. coord'.wave = coord.wave /\ coord'.running
      BY <1>2, WakeupEffect
    <3> QED BY <3>1, <3>2
  <2> QED BY <1>2, <2>1, <2>2, WakeupEffect
<1>3. ASSUME NEW e \in Engines, HandleNotice(e)
      PROVE  m \in Under(starts[d]) \/ (m.wave = coord'.wave /\ coord'.running)
  <2> DEFINE n == Head(notices[e])
  <2>1. n.wave \in Nat
    BY <1>3, NoticeEffect DEF Notices
  <2>2. \/ UNCHANGED starts
        \/ coord' = [wave |-> n.wave, running |-> TRUE] /\ Broadcast(n.wave, {e})
    BY <1>3, NoticeEffect
  <2> HIDE DEF n
  <2>3. CASE coord' = [wave |-> n.wave, running |-> TRUE] /\ Broadcast(n.wave, {e})
    <3>1. Under(starts'[d]) = Under(starts[d]) \union {[wave |-> n.wave, excluded |-> {e}]}
      BY <2>1, <2>3, BroadcastEffect
    <3> QED BY <2>3, <3>1
  <2> QED BY <2>2, <2>3
<1>4. ASSUME NEW e \in Engines, HandleStart(e)
      PROVE  m \in Under(starts[d])
  <2>1. starts \in [Engines -> Seq(Starts)] /\ starts[e] # <<>>
    BY <1>4, ChannelFacts DEF HandleStart
  <2>2. starts' = [starts EXCEPT ![e] = Tail(@)]
    BY <1>4 DEF HandleStart
  <2>3. starts[e] \in Seq(Starts) /\ starts'[e] = Tail(starts[e])
    BY <2>1, <2>2
  <2>4. Under(starts'[e]) \subseteq Under(starts[e])
    BY <2>1, <2>3, UnderTail
  <2>5. d # e => starts'[d] = starts[d]
    BY <2>1, <2>2
  <2> QED BY <2>4, <2>5
<1> QED BY <1>1, <1>2, <1>3, <1>4, StartsWriters

\* ... and a publication is the coordinator's state.
LEMMA StatsStep ==
  ASSUME TypeOK, TypeOK', [Next]_vars, NEW f \in Fronts
  PROVE  Under(stats'[f]) \subseteq Under(stats[f]) \union {coord'}
<1>1. coord' \in View /\ stats \in [Fronts -> Seq(View)]
  BY ChannelFacts DEF TypeOK, ClientTypes
<1>2. CASE Publish(coord')
  BY <1>1, <1>2, PublishEffect
<1>3. ASSUME NEW g \in Fronts, ForwardFirstReq(g) \/ ReadStats(g)
      PROVE  Under(stats'[f]) \subseteq Under(stats[f])
  <2>1. PICK k \in 0..Len(stats[g]) : \E v : Drain(g, k, v)
    <3>1. Len(stats[g]) \in Nat
      BY LenIsNat, ChannelFacts
    <3> QED BY <1>3, <3>1 DEF ForwardFirstReq, ReadStats
  <2>2. f = g => stats'[f] = SubSeq(stats[f], k + 1, Len(stats[f]))
    BY <1>1, <2>1 DEF Drain
  <2>3. f # g => stats'[f] = stats[f]
    BY <1>1, <2>1 DEF Drain
  <2>4. f = g => Under(stats'[f]) \subseteq Under(stats[f])
    BY <1>1, <2>1, <2>2, UnderSubSeq
  <2> QED BY <2>3, <2>4
<1>4. CASE UNCHANGED stats
  BY <1>4
<1>5. ASSUME NEW g \in Fronts, HandleWakeup(g)
      PROVE  UNCHANGED stats \/ Publish(coord')
  BY <1>5, WakeupEffect
<1>6. ASSUME NEW e \in Engines, HandleNotice(e)
      PROVE  UNCHANGED stats \/ Publish(coord')
  BY <1>6, NoticeEffect
<1>7. PublishStats => Publish(coord')
  BY DEF PublishStats, Publish
<1> QED BY <1>2, <1>3, <1>4, <1>5, <1>6, <1>7, StatsWriters

\* A front end believes what it reads, or that the wave it asks for runs.
LEMMA FrontStep ==
  ASSUME TypeOK, [Next]_vars, NEW f \in Fronts
  PROVE  \/ front'[f] = front[f]
         \/ front'[f] \in Under(stats[f])
         \/ front'[f].wave = front[f].wave /\ wakeups'[f] # <<>>
<1>1. stats \in [Fronts -> Seq(View)] /\ front \in [Fronts -> View]
  BY ChannelFacts DEF TypeOK, ClientTypes
<1>2. ASSUME NEW g \in Fronts, NEW k \in 0..Len(stats[g]), NEW v, Drain(g, k, v)
      PROVE  f # g => front'[f] = front[f]
  BY <1>1, <1>2 DEF Drain
<1>3. ASSUME NEW k \in 0..Len(stats[f]), NEW v, Drain(f, k, v)
      PROVE  front'[f] = v \/ front'[f] \in Under(stats[f])
  <2>1. front'[f] = IF k = 0 THEN v ELSE stats[f][k]
    BY <1>1, <1>3 DEF Drain
  <2>2. k # 0 => stats[f][k] \in Under(stats[f])
    BY <1>1, UnderSubSeq
  <2> QED BY <2>1, <2>2
<1>4. ASSUME NEW g \in Fronts, ForwardFirstReq(g)
      PROVE  \/ front'[f] = front[f]
             \/ front'[f] \in Under(stats[f])
             \/ front'[f].wave = front[f].wave /\ wakeups'[f] # <<>>
  <2>1. PICK k \in 0..Len(stats[g]) : Drain(g, k, [front[g] EXCEPT !.running = TRUE])
    BY <1>4 DEF ForwardFirstReq
  <2>2. CASE f # g
    BY <1>2, <2>1, <2>2
  <2>3. CASE f = g
    <3>1. [front[f] EXCEPT !.running = TRUE].wave = front[f].wave
      BY <1>1 DEF View
    <3>2. wakeups'[f] # <<>>
      <4>1. wakeups \in [Fronts -> Seq(Wakeups)]
        BY ChannelFacts
      <4>2. wakeups'[f] = Append(wakeups[f], [target |-> Head(firstReqs[f]), wave |-> front[f].wave])
        BY <1>4, <2>3, <4>1 DEF ForwardFirstReq
      <4> QED BY <4>1, <4>2
    <3> QED BY <1>3, <2>1, <2>3, <3>1, <3>2
  <2> QED BY <2>2, <2>3
<1>5. ASSUME NEW g \in Fronts, ReadStats(g)
      PROVE  front'[f] = front[f] \/ front'[f] \in Under(stats[f])
  <2>1. PICK k \in 0..Len(stats[g]) : Drain(g, k, front[g])
    <3>1. Len(stats[g]) \in Nat
      BY LenIsNat, ChannelFacts
    <3> QED BY <1>5, <3>1 DEF ReadStats
  <2> QED BY <1>2, <1>3, <2>1
<1> QED BY <1>4, <1>5, FrontWriters

\* A FIRST_REQ is lost by no one but the coordinator, who then runs the wave.
LEMMA WakeupsStep ==
  ASSUME TypeOK, [Next]_vars
  PROVE  /\ \A f \in Fronts : wakeups[f] # <<>> =>
              wakeups'[f] # <<>> \/ (coord'.running /\ coord'.wave = coord.wave)
         /\ Waking => Waking' \/ (coord'.running /\ coord'.wave = coord.wave)
<1>1. firstReqs \in [Fronts -> Seq(Engines)] /\ wakeups \in [Fronts -> Seq(Wakeups)]
  BY ChannelFacts
<1>2. CASE UNCHANGED <<firstReqs, wakeups>>
  BY <1>2 DEF Waking
<1>3. ASSUME NEW f \in Fronts, NEW e \in Engines, NEW r \in Requests, SendRequest(f, e, r)
      PROVE  /\ UNCHANGED wakeups
             /\ \A g \in Fronts : firstReqs[g] # <<>> => firstReqs'[g] # <<>>
  <2>1. UNCHANGED firstReqs \/ firstReqs' = [firstReqs EXCEPT ![f] = Append(@, e)]
    BY <1>3 DEF SendRequest
  <2>2. Append(firstReqs[f], e) # <<>>
    BY <1>1
  <2> QED BY <1>1, <1>3, <2>1, <2>2 DEF SendRequest
<1>4. ASSUME NEW f \in Fronts, ForwardFirstReq(f)
      PROVE  /\ wakeups'[f] # <<>>
             /\ \A g \in Fronts : g # f => wakeups'[g] = wakeups[g]
  <2> DEFINE m == [target |-> Head(firstReqs[f]), wave |-> front[f].wave]
  <2>1. wakeups' = [wakeups EXCEPT ![f] = Append(@, m)]
    BY <1>4 DEF ForwardFirstReq
  <2>2. wakeups'[f] = Append(wakeups[f], m) /\ wakeups[f] \in Seq(Wakeups)
    BY <1>1, <2>1
  <2> HIDE DEF m
  <2>3. wakeups'[f] # <<>>
    BY <2>2
  <2> QED BY <1>1, <2>1, <2>3
<1>5. ASSUME NEW f \in Fronts, HandleWakeup(f)
      PROVE  coord'.running /\ coord'.wave = coord.wave
  BY <1>5, WakeupEffect
<1> QED BY <1>2, <1>3, <1>4, <1>5, PipelineWriters DEF Waking

LEMMA ReceiveEffect ==
  ASSUME TypeOK, NEW f \in Fronts, NEW e \in Engines, NEW t, Receive(f, e, t)
  PROVE  /\ Head(inputs[f][e]) \in Messages
         /\ Head(inputs[f][e]).type = t
         /\ Under(inputs[f][e]) = {Head(inputs[f][e])} \union Under(inputs'[f][e])
         /\ \A g \in Fronts, d \in Engines :
              <<g, d>> # <<f, e>> => inputs'[g][d] = inputs[g][d]
<1>1. Head(inputs[f][e]) \in Messages
  BY ReceiveOne, HeadTailType
<1>2. Under(inputs[f][e]) = {Head(inputs[f][e])} \union Under(inputs'[f][e])
  BY ReceiveOne, UnderTail
<1> QED BY <1>1, <1>2, ReceiveOne

LEMMA SendEffect ==
  ASSUME TypeOK, NEW f \in Fronts, NEW e \in Engines, NEW m \in Messages, ToEngine(f, e, m)
  PROVE  /\ Under(inputs'[f][e]) = Under(inputs[f][e]) \union {m}
         /\ \A g \in Fronts, d \in Engines :
              <<g, d>> # <<f, e>> => inputs'[g][d] = inputs[g][d]
<1>1. inputs \in [Fronts -> [Engines -> Seq(Messages)]]
  BY ChannelFacts
<1>2. inputs'[f][e] = Append(inputs[f][e], m) /\ inputs[f][e] \in Seq(Messages)
  BY <1>1 DEF ToEngine
<1>3. Under(inputs'[f][e]) = Under(inputs[f][e]) \union {m}
  BY <1>2, UnderAppend
<1> QED BY <1>1, <1>3 DEF ToEngine

LEMMA CallEffect ==
  ASSUME TypeOK, NEW m \in Messages, NEW during, Call(m, during),
         NEW f \in Fronts, NEW e \in Engines
  PROVE  Under(inputs'[f][e]) \subseteq Under(inputs[f][e]) \union {m}
<1>1. inputs \in [Fronts -> [Engines -> Seq(Messages)]] /\ Pauser \in Fronts
  BY ChannelFacts, DataParallelAssumption
<1>2. inputs' = [inputs EXCEPT ![Pauser] = [d \in Engines |-> Append(@[d], m)]]
  BY DEF Call, ToAllEngines
<1>3. CASE f = Pauser
  <2>1. inputs'[f][e] = Append(inputs[f][e], m) /\ inputs[f][e] \in Seq(Messages)
    BY <1>1, <1>2, <1>3
  <2> QED BY <2>1, UnderAppend
<1>4. CASE f # Pauser
  BY <1>1, <1>2, <1>4
<1> QED BY <1>3, <1>4

\* What arrives at an engine has been sent, as what it is.
LEMMA InputsStep ==
  ASSUME TypeOK, HomesKnown, [Next]_vars, NEW f \in Fronts, NEW e \in Engines,
         NEW m \in Under(inputs'[f][e])
  PROVE  \/ m \in Under(inputs[f][e])
         \/ /\ m.type = "ADD" /\ m.wave = front[f].wave
            /\ m.request \in Requests /\ SendRequest(f, e, m.request)
         \/ m.type = "ABORT" /\ m.request \in Requests /\ SendAbort(m.request)
         \/ m.type \in CallTypes
<1>1. CASE UNCHANGED inputs
  BY <1>1
<1>2. ASSUME NEW g \in Fronts, NEW d \in Engines, NEW r \in Requests, SendRequest(g, d, r)
      PROVE  \/ m \in Under(inputs[f][e])
             \/ /\ m.type = "ADD" /\ m.wave = front[f].wave
                /\ m.request \in Requests /\ SendRequest(f, e, m.request)
  <2> DEFINE x == [type |-> "ADD", request |-> r, wave |-> front[g].wave]
  <2>1. x \in Messages /\ x.type = "ADD" /\ x.wave = front[g].wave /\ x.request = r
    BY DEF Messages, TypeOK, ClientTypes, View
  <2>2. ToEngine(g, d, x)
    BY <1>2 DEF SendRequest
  <2> HIDE DEF x
  <2>3. CASE <<g, d>> = <<f, e>>
    <3>1. f = g /\ e = d
      BY <2>3
    <3>2. m \in Under(inputs[f][e]) \/ m = x
      BY <2>1, <2>2, <3>1, SendEffect
    <3> QED BY <1>2, <2>1, <3>1, <3>2
  <2>4. CASE <<g, d>> # <<f, e>>
    <3>1. inputs'[f][e] = inputs[f][e]
      BY <2>1, <2>2, <2>4, SendEffect
    <3> QED BY <3>1
  <2> QED BY <2>3, <2>4
<1>3. ASSUME NEW r \in Requests, SendAbort(r)
      PROVE  \/ m \in Under(inputs[f][e])
             \/ m.type = "ABORT" /\ m.request \in Requests /\ SendAbort(m.request)
  <2> DEFINE x == [type |-> "ABORT", request |-> r]
             g == home[r][1]
             d == home[r][2]
  <2>1. x \in Messages /\ x.type = "ABORT" /\ x.request = r
    BY DEF Messages
  <2>2. ToEngine(g, d, x)
    BY <1>3 DEF SendAbort
  <2>3. g \in Fronts /\ d \in Engines
    BY <1>3 DEF SendAbort, HomesKnown
  <2> HIDE DEF x, g, d
  <2>4. m \in Under(inputs[f][e]) \/ m = x
    <3>1. CASE <<g, d>> = <<f, e>>
      <4>1. f = g /\ e = d
        BY <3>1
      <4> QED BY <2>1, <2>2, <2>3, <4>1, SendEffect
    <3>2. CASE <<g, d>> # <<f, e>>
      <4>1. inputs'[f][e] = inputs[f][e]
        BY <2>1, <2>2, <2>3, <3>2, SendEffect
      <4> QED BY <4>1
    <3> QED BY <3>1, <3>2
  <2> QED BY <1>3, <2>1, <2>4
<1>4. ASSUME NEW mode \in Modes, Pause(mode)
      PROVE  m \in Under(inputs[f][e]) \/ m.type \in CallTypes
  <2> DEFINE x == [type |-> "PAUSE", mode |-> mode]
  <2>1. x \in Messages /\ x.type \in CallTypes /\ Call(x, "pausing")
    BY <1>4 DEF Messages, CallTypes, Pause
  <2> HIDE DEF x
  <2> QED BY <2>1, CallEffect
<1>5. ASSUME Resume
      PROVE  m \in Under(inputs[f][e]) \/ m.type \in CallTypes
  <2> DEFINE x == [type |-> "RESUME"]
  <2>1. x \in Messages /\ x.type \in CallTypes /\ Call(x, "resuming")
    BY <1>5 DEF Messages, CallTypes, Resume
  <2> HIDE DEF x
  <2> QED BY <2>1, CallEffect
<1>6. ASSUME NEW g \in Fronts, NEW d \in Engines, NEW t \in {"ADD", "ABORT", "PAUSE", "RESUME"},
             Receive(g, d, t)
      PROVE  m \in Under(inputs[f][e])
  <2>1. CASE <<g, d>> = <<f, e>>
    <3>1. f = g /\ e = d
      BY <2>1
    <3> QED BY <1>6, <3>1, ReceiveEffect
  <2>2. CASE <<g, d>> # <<f, e>>
    <3>1. inputs'[f][e] = inputs[f][e]
      BY <1>6, <2>2, ReceiveEffect
    <3> QED BY <3>1
  <2> QED BY <2>1, <2>2
<1>7. ASSUME NEW g \in Fronts, NEW d \in Engines,
             HandleAdd(g, d) \/ HandleAbort(g, d) \/ HandlePause(g, d) \/ HandleResume(g, d)
      PROVE  \E t \in {"ADD", "ABORT", "PAUSE", "RESUME"} : Receive(g, d, t)
  BY <1>7 DEF HandleAdd, HandleAbort, HandlePause, HandleResume
<1> QED BY <1>1, <1>2, <1>3, <1>4, <1>5, <1>6, <1>7, InputsWriters

\* A request that is not wanted any more never is again.
LEMMA StatusStep ==
  ASSUME TypeOK, [Next]_vars, NEW r \in Requests, status[r] \in {"aborting", "done"}
  PROVE  status'[r] \in {"aborting", "done"}
<1>1. status \in [Requests -> Statuses]
  BY DEF TypeOK, ClientTypes
<1>2. ASSUME NEW f \in Fronts, NEW e \in Engines, NEW q \in Requests, SendRequest(f, e, q)
      PROVE  status'[r] = status[r]
  BY <1>1, <1>2 DEF SendRequest
<1>3. ASSUME NEW q \in Requests, SendAbort(q)
      PROVE  status'[r] \in {"aborting", "done"}
  BY <1>1, <1>3 DEF SendAbort
<1>4. ASSUME NEW rs, Done(rs)
      PROVE  status'[r] \in {"aborting", "done"}
  BY <1>1, <1>4 DEF Done
<1> QED BY <1>1, <1>2, <1>3, <1>4, StatusWriters

\* What taking in a request does.
LEMMA AddEffect ==
  ASSUME TypeOK, WavesInv, NEW f \in Fronts, NEW e \in Engines, HandleAdd(f, e)
  PROVE  LET m == Head(inputs[f][e]) IN
         /\ m \in Under(inputs[f][e])
         /\ m.type = "ADD" /\ m.request \in Requests
         /\ m.wave \in Nat /\ m.wave <= coord.wave
         /\ waiting' = [waiting EXCEPT ![e] = @ \union {m.request}]
         /\ UNCHANGED <<at, wave, pauseState, admitted, coord, starts, firstReqs, wakeups>>
         /\ \A d \in Engines : d # e => running'[d] = running[d] /\ notices'[d] = notices[d]
         /\ \/ /\ m.wave < wave[e] /\ pauseState[e] = "UNPAUSED"
               /\ running'[e]
               /\ Under(notices'[e]) =
                    Under(notices[e]) \union {[type |-> "start", wave |-> wave[e]]}
            \/ /\ ~(m.wave < wave[e] /\ ~running[e] /\ pauseState[e] = "UNPAUSED")
               /\ UNCHANGED <<running, notices>>
<1> DEFINE m == Head(inputs[f][e])
           n == [type |-> "start", wave |-> wave[e]]
<1>1. m \in Under(inputs[f][e]) /\ m.type = "ADD" /\ m \in Messages
  <2>1. Receive(f, e, "ADD")
    BY DEF HandleAdd
  <2> QED BY <2>1, ReceiveEffect
<1>2. m.request \in Requests /\ m.wave \in Nat
  BY <1>1 DEF Messages
<1>3. m.wave <= coord.wave
  <2>1. inputs[f][e] # <<>>
    BY DEF HandleAdd, Receive
  <2>2. inputs \in [Fronts -> [Engines -> Seq(AddsUpTo(coord.wave))]]
    BY DEF WavesInv
  <2>3. m \in AddsUpTo(coord.wave)
    BY <2>1, <2>2, TailAtTwo
  <2> QED BY <1>1, <2>3 DEF AddsUpTo
<1>4. UNCHANGED wave
  BY AddIsNotAhead
<1>5. /\ UNCHANGED <<at, pauseState, admitted, coord, starts, firstReqs, wakeups>>
      /\ waiting' = [waiting EXCEPT ![e] = @ \union {m.request}]
      /\ running' = [running EXCEPT ![e] = @ \/ Late(e, m)]
      /\ notices' = IF Late(e, m) THEN [notices EXCEPT ![e] = Append(@, n)] ELSE notices
  BY DEF HandleAdd
<1>6. notices \in [Engines -> Seq(Notices)] /\ n \in Notices /\ running \in [Engines -> BOOLEAN]
  BY ChannelFacts DEF TypeOK, EngineTypes, Notices
<1> HIDE DEF m, n
<1>7. \A d \in Engines : d # e => running'[d] = running[d] /\ notices'[d] = notices[d]
  BY <1>5, <1>6
<1>8. CASE Late(e, m)
  <2>1. notices'[e] = Append(notices[e], n) /\ notices[e] \in Seq(Notices)
    BY <1>5, <1>6, <1>8
  <2>2. Under(notices'[e]) = Under(notices[e]) \union {n}
    BY <1>6, <2>1, UnderAppend
  <2>3. running'[e]
    BY <1>5, <1>6, <1>8
  <2>4. m.wave < wave[e] /\ pauseState[e] = "UNPAUSED"
    BY <1>8 DEF Late
  <2> QED BY <1>1, <1>2, <1>3, <1>4, <1>5, <1>7, <2>2, <2>3, <2>4 DEF m, n
<1>9. CASE ~Late(e, m)
  <2>1. UNCHANGED <<running, notices>>
    BY <1>5, <1>6, <1>9
  <2>2. ~(m.wave < wave[e] /\ ~running[e] /\ pauseState[e] = "UNPAUSED")
    BY <1>9 DEF Late
  <2> QED BY <1>1, <1>2, <1>3, <1>4, <1>5, <1>7, <2>1, <2>2 DEF m
<1> QED BY <1>8, <1>9

\* Who asks for a wave runs it.
LEMMA NoticesStep ==
  ASSUME TypeOK, WavesInv, [Next]_vars, NEW e \in Engines,
         NEW n \in Under(notices'[e]), n.type = "start"
  PROVE  n \in Under(notices[e]) \/ (SameWave /\ n.wave = wave[e] /\ running'[e])
<1>1. CASE UNCHANGED notices
  BY <1>1
<1>2. ASSUME NEW f \in Fronts, NEW d \in Engines, HandleAdd(f, d)
      PROVE  n \in Under(notices[e]) \/ (SameWave /\ n.wave = wave[e] /\ running'[e])
  <2>1. SameWave
    <3>1. ~Sync
      <4>1. at[d] = "loop"
        BY <1>2 DEF HandleAdd, Receive
      <4> QED BY <4>1 DEF Sync
    <3> QED BY <3>1, WaveStep DEF NewWave
  <2>2. CASE d # e
    <3>1. notices'[e] = notices[e]
      BY <1>2, <2>2, AddEffect
    <3> QED BY <3>1
  <2>3. CASE d = e
    <3>1. \/ running'[e] /\ Under(notices'[e]) =
                              Under(notices[e]) \union {[type |-> "start", wave |-> wave[e]]}
          \/ UNCHANGED notices
      BY <1>2, <2>3, AddEffect
    <3> QED BY <2>1, <3>1
  <2> QED BY <2>2, <2>3
<1>3. ASSUME NEW d \in Engines, HandleNotice(d)
      PROVE  n \in Under(notices[e])
  <2>1. CASE d # e
    <3>1. notices'[e] = notices[e]
      BY <1>3, <2>1, NoticeEffect
    <3> QED BY <3>1
  <2>2. CASE d = e
    <3>1. Under(notices'[e]) \subseteq Under(notices[e])
      BY <1>3, <2>2, NoticeEffect
    <3> QED BY <3>1
  <2> QED BY <2>1, <2>2
<1>4. CASE Sync
  <2> DEFINE m == [type |-> "complete", wave |-> wave[Rank0]]
  <2>1. UNCHANGED notices \/ notices' = [notices EXCEPT ![Rank0] = Append(@, m)]
    BY <1>4 DEF Sync
  <2>2. m \in Notices /\ notices \in [Engines -> Seq(Notices)] /\ m.type = "complete"
    BY WavesAreNat, ChannelFacts DEF Notices
  <2> HIDE DEF m
  <2>3. e # Rank0 => notices'[e] = notices[e]
    BY <2>1, <2>2
  <2>4. CASE e = Rank0
    <3>1. notices'[e] = notices[e] \/ notices'[e] = Append(notices[e], m)
      BY <2>1, <2>2, <2>4
    <3>2. notices[e] \in Seq(Notices) /\ m \in Notices
      BY <2>2
    <3>3. Under(Append(notices[e], m)) = Under(notices[e]) \union {m}
      BY <3>2, UnderAppend
    <3>4. n # m
      BY <2>2
    <3> QED BY <3>1, <3>3, <3>4
  <2> QED BY <2>3, <2>4
<1> QED BY <1>1, <1>2, <1>3, <1>4, NoticesWriters

-----------------------------------------------------------------------------
(* Messages and beliefs *)

LEMMA WavesInNext ==
  ASSUME TypeOK, TypeOK', WavesInv, WavesInv', [Next]_vars
  PROVE  /\ wave[Rank0] \in Nat /\ wave'[Rank0] \in Nat
         /\ coord.wave \in Nat /\ coord'.wave \in Nat
         /\ coord.wave <= wave[Rank0] /\ coord'.wave <= wave'[Rank0]
         /\ coord.wave <= coord'.wave
         /\ coord.running /\ coord'.wave = coord.wave => coord'.running
         /\ wave'[Rank0] # wave[Rank0] => NewWave /\ UNCHANGED coord
<1>1. wave[Rank0] \in Nat /\ coord.wave \in Nat
  BY WavesAreNat
<1>2. wave'[Rank0] \in Nat /\ coord'.wave \in Nat
  BY DataParallelAssumption DEF TypeOK, EngineTypes, ClientTypes, View
<1>3. coord.wave <= wave[Rank0] /\ coord'.wave <= wave'[Rank0]
  BY DEF WavesInv
<1>4. NewWave => UNCHANGED coord
  BY DEF NewWave, Sync
<1> QED BY <1>1, <1>2, <1>3, <1>4, CoordStep, WaveStep DEF SameWave

LEMMA AbortsWantedNext ==
  ASSUME TypeOK, HomesKnown, AbortsWanted, [Next]_vars
  PROVE  AbortsWanted'
<1> SUFFICES ASSUME NEW f \in Fronts, NEW e \in Engines, NEW m \in Under(inputs'[f][e]),
                    m.type = "ABORT"
             PROVE  status'[m.request] \in {"aborting", "done"}
  BY DEF AbortsWanted
<1>1. \/ m \in Under(inputs[f][e])
      \/ m.request \in Requests /\ SendAbort(m.request)
  BY InputsStep DEF CallTypes
<1>2. CASE m \in Under(inputs[f][e])
  <2>1. status[m.request] \in {"aborting", "done"}
    BY <1>2 DEF AbortsWanted
  <2>2. m \in Messages
    BY <1>2, ChannelFacts, UnderType
  <2>3. m.request \in Requests
    BY <2>2 DEF Messages
  <2> QED BY <2>1, <2>3, StatusStep
<1>3. CASE m.request \in Requests /\ SendAbort(m.request)
  BY <1>3 DEF SendAbort, TypeOK, ClientTypes
<1> QED BY <1>1, <1>2, <1>3

LEMMA AnnouncedStays ==
  ASSUME TypeOK, TypeOK', WavesInv, WavesInv', [Next]_vars, Announced,
         wave'[Rank0] = wave[Rank0]
  PROVE  Announced'
BY WavesInNext DEF Announced

LEMMA StartsAnnouncedNext ==
  ASSUME TypeOK, TypeOK', WavesInv, WavesInv', StartsAnnounced, [Next]_vars
  PROVE  StartsAnnounced'
<1> SUFFICES ASSUME NEW d \in Engines, NEW m \in Under(starts'[d]), m.wave = wave'[Rank0]
             PROVE  Announced'
  BY DEF StartsAnnounced
<1>1. CASE m.wave = coord'.wave /\ coord'.running
  BY <1>1 DEF Announced
<1>2. CASE m \in Under(starts[d]) /\ wave'[Rank0] = wave[Rank0]
  BY <1>2, AnnouncedStays DEF StartsAnnounced
<1>3. CASE m \in Under(starts[d]) /\ wave'[Rank0] # wave[Rank0]
  <2>1. starts[d] \in Seq(StartsUpTo(coord.wave))
    BY DEF WavesInv
  <2>2. m.wave <= coord.wave
    BY <1>3, <2>1, UnderType DEF StartsUpTo
  <2>3. wave'[Rank0] = wave[Rank0] + 1
    BY <1>3, WavesInNext DEF NewWave
  <2> QED BY <2>2, <2>3, WavesInNext
<1> QED BY <1>1, <1>2, <1>3, StartsStep

LEMMA AskersRunNext ==
  ASSUME TypeOK, TypeOK', WavesInv, WavesInv', AskersRun, [Next]_vars
  PROVE  AskersRun'
<1> SUFFICES ASSUME NEW e \in Engines, NEW n \in Under(notices'[e]), n.type = "start",
                    n.wave = wave'[Rank0]
             PROVE  running'[e]
  BY DEF AskersRun, Asking
<1>1. CASE n \in Under(notices[e])
  <2>1. notices[e] \in Seq(NoticesUpTo(wave[Rank0]))
    BY DEF WavesInv
  <2>2. n.wave <= wave[Rank0]
    BY <1>1, <2>1, UnderType DEF NoticesUpTo
  <2>3. ~NewWave
    BY <2>2, WavesInNext DEF NewWave
  <2>4. SameWave
    BY <2>3, WaveStep
  <2>5. Asking(e)
    BY <1>1, <2>4 DEF Asking, SameWave
  <2> QED BY <2>4, <2>5 DEF AskersRun, SameWave
<1>2. CASE n \notin Under(notices[e])
  BY <1>2, NoticesStep
<1> QED BY <1>1, <1>2

LEMMA BeliefsNext ==
  ASSUME TypeOK, TypeOK', WavesInv, WavesInv', Beliefs, [Next]_vars
  PROVE  Beliefs'
<1> SUFFICES ASSUME NEW f \in Fronts
             PROVE  /\ \A v \in Under(stats'[f]) :
                         v.running /\ v.wave = coord'.wave => coord'.running
                    /\ front'[f].running /\ front'[f].wave = coord'.wave =>
                         coord'.running \/ wakeups'[f] # <<>>
  BY DEF Beliefs
<1>1. ASSUME NEW v \in Under(stats[f]), v.running, v.wave = coord'.wave
      PROVE  coord'.running
  <2>1. stats[f] \in Seq(ViewsUpTo(coord.wave))
    BY DEF WavesInv
  <2>2. v.wave <= coord.wave
    BY <2>1, UnderType DEF ViewsUpTo
  <2>3. coord'.wave = coord.wave
    BY <1>1, <2>2, WavesInNext
  <2> QED BY <1>1, <2>3, WavesInNext DEF Beliefs
<1>2. ASSUME front[f].running, front[f].wave = coord'.wave
      PROVE  coord'.running \/ wakeups'[f] # <<>>
  <2>1. front[f].wave <= coord.wave
    BY DEF WavesInv, ViewsUpTo
  <2>2. coord'.wave = coord.wave
    BY <1>2, <2>1, WavesInNext
  <2>3. coord.running \/ wakeups[f] # <<>>
    BY <1>2, <2>2 DEF Beliefs
  <2> QED BY <2>2, <2>3, WavesInNext, WakeupsStep
<1>3. \A v \in Under(stats'[f]) : v.running /\ v.wave = coord'.wave => coord'.running
  BY <1>1, StatsStep
<1>4. front'[f].running /\ front'[f].wave = coord'.wave => coord'.running \/ wakeups'[f] # <<>>
  <2>1. CASE front'[f] = front[f]
    BY <1>2, <2>1
  <2>2. CASE front'[f] \in Under(stats[f])
    BY <1>1, <2>2
  <2> QED BY <2>1, <2>2, FrontStep
<1> QED BY <1>3, <1>4

\* What a FIRST_REQ is sent for.
LEMMA SendWakes ==
  ASSUME TypeOK, Beliefs, NEW f \in Fronts, NEW e \in Engines, NEW r \in Requests,
         SendRequest(f, e, r)
  PROVE  /\ UNCHANGED <<coord, wakeups, wave>>
         /\ front[f].wave = coord.wave => coord'.running \/ Waking'
<1>1. UNCHANGED <<coord, wakeups, wave>>
  BY DEF SendRequest, engineVars
<1>2. CASE front[f].running
  BY <1>1, <1>2 DEF Beliefs, Waking
<1>3. CASE ~front[f].running
  <2>1. firstReqs \in [Fronts -> Seq(Engines)]
    BY ChannelFacts
  <2>2. firstReqs'[f] = Append(firstReqs[f], e)
    BY <1>3, <2>1 DEF SendRequest
  <2>3. firstReqs'[f] # <<>>
    BY <2>1, <2>2
  <2> QED BY <1>1, <2>3 DEF Waking
<1> QED BY <1>1, <1>2, <1>3

LEMMA AddsAnnouncedNext ==
  ASSUME TypeOK, TypeOK', HomesKnown, WavesInv, WavesInv', Beliefs, AddsAnnounced, [Next]_vars
  PROVE  AddsAnnounced'
<1> SUFFICES ASSUME NEW f \in Fronts, NEW e \in Engines, NEW m \in Under(inputs'[f][e]),
                    m.type = "ADD", m.wave = wave'[Rank0]
             PROVE  coord'.wave = wave'[Rank0] /\ (coord'.running \/ Waking')
  BY DEF AddsAnnounced
<1>1. CASE m \in Under(inputs[f][e])
  <2>1. inputs[f][e] \in Seq(AddsUpTo(coord.wave))
    BY DEF WavesInv
  <2>2. m.wave <= coord.wave
    BY <1>1, <2>1, UnderType DEF AddsUpTo
  <2>3. wave'[Rank0] = wave[Rank0]
    BY <2>2, WavesInNext DEF NewWave
  <2>4. coord.wave = wave[Rank0] /\ (coord.running \/ Waking)
    BY <1>1, <2>3 DEF AddsAnnounced
  <2>5. coord'.wave = coord.wave
    BY <2>3, <2>4, WavesInNext
  <2> QED BY <2>3, <2>4, <2>5, WavesInNext, WakeupsStep
<1>2. CASE m.wave = front[f].wave /\ m.request \in Requests /\ SendRequest(f, e, m.request)
  <2>1. /\ UNCHANGED <<coord, wave>>
        /\ front[f].wave = coord.wave => coord'.running \/ Waking'
    BY <1>2, SendWakes
  <2>2. front[f].wave <= coord.wave /\ front[f].wave \in Nat
    BY DEF WavesInv, ViewsUpTo, View
  <2>3. front[f].wave = coord.wave /\ coord'.wave = wave'[Rank0]
    BY <1>2, <2>1, <2>2, WavesInNext
  <2> QED BY <2>1, <2>3
<1> QED BY <1>1, <1>2, InputsStep DEF CallTypes

-----------------------------------------------------------------------------
(* The steps of a pause, and what is so when they are taken *)

LEMMA ModeWriters ==
  ASSUME [Next]_vars
  PROVE  \/ UNCHANGED <<pauseState, ignoring>>
         \/ \E f \in Fronts, e \in Engines : HandlePause(f, e) \/ HandleResume(f, e)
         \/ Sync
<1>1. CASE Progress
  BY <1>1, ZenonT(60) DEF Progress, Engine, Handle, Together, ForwardFirstReq, ReadStats,
     HandleAbort, HandleWakeup, HandleNotice, HandleAdd, HandleStart, AnswerPause,
     BeginStep, EndForward, EndResume, engineVars
<1>2. CASE Environment
  BY <1>2, ZenonT(60) DEF Environment, SendRequest, SendAbort, Call, Pause, Resume,
     PublishStats, AbortDuringStep, engineVars
<1>3. CASE UNCHANGED vars
  BY <1>3 DEF vars, engineVars
<1> QED BY <1>1, <1>2, <1>3 DEF Next

LEMMA AtWriters ==
  ASSUME [Next]_vars
  PROVE  \/ UNCHANGED at
         \/ \E f \in Fronts, e \in Engines : HandleResume(f, e)
         \/ \E e \in Engines : BeginStep(e)
         \/ EndForward
         \/ Sync
         \/ EndResume
<1>1. CASE Progress
  BY <1>1, ZenonT(60) DEF Progress, Engine, Handle, Together, ForwardFirstReq, ReadStats,
     HandleAbort, HandleWakeup, HandleNotice, HandleAdd, HandlePause, HandleStart,
     AnswerPause, engineVars
<1>2. CASE Environment
  BY <1>2, ZenonT(60) DEF Environment, SendRequest, SendAbort, Call, Pause, Resume,
     PublishStats, AbortDuringStep, engineVars
<1>3. CASE UNCHANGED vars
  BY <1>3 DEF vars, engineVars
<1> QED BY <1>1, <1>2, <1>3 DEF Next

LEMMA HandlePauseWhen ==
  ASSUME TypeOK, PauseInv, NEW f \in Fronts, NEW e \in Engines, HandlePause(f, e)
  PROVE  /\ phase = "pausing" /\ f = Pauser
         /\ UNCHANGED <<phase, at, ignoring>>
         /\ running'[e]
         /\ \A d \in Engines : d # e => inputs'[Pauser][d] = inputs[Pauser][d]
<1>1. Receive(f, e, "PAUSE") /\ "PAUSE" \in CallTypes /\ "RESUME" \in CallTypes
  BY DEF HandlePause, CallTypes
<1>2. f = Pauser /\ ~NoCall(inputs[Pauser][e]) /\ ~OneCall(inputs[Pauser][e], "RESUME")
  BY <1>1, ReceiveCall
<1>3. phase = "pausing"
  BY <1>2, DataParallelAssumption
  DEF PauseInv, Idle, Unresumed, Resumed, TypeOK, ClientTypes
<1>4. \A d \in Engines : d # e => inputs'[Pauser][d] = inputs[Pauser][d]
  BY <1>1, <1>2, ReceiveOne
<1>5. UNCHANGED <<phase, at, ignoring>> /\ running'[e]
  BY DEF HandlePause, TypeOK, EngineTypes
<1> QED BY <1>2, <1>3, <1>4, <1>5

LEMMA HandleResumeWhen ==
  ASSUME TypeOK, PauseInv, NEW f \in Fronts, NEW e \in Engines, HandleResume(f, e)
  PROVE  /\ phase = "resuming"
         /\ UNCHANGED <<phase, running, waiting, admitted, status>>
         /\ at' = [at EXCEPT ![e] = "resume"]
         /\ pauseState' = [pauseState EXCEPT ![e] = "UNPAUSED"]
         /\ ignoring' = [ignoring EXCEPT ![e] = FALSE]
<1>1. Receive(f, e, "RESUME") /\ "PAUSE" \in CallTypes /\ "RESUME" \in CallTypes
  BY DEF HandleResume, CallTypes
<1>2. /\ f = Pauser
      /\ ~NoCall(inputs[Pauser][e])
      /\ ~OneCall(inputs[Pauser][e], "PAUSE")
  BY <1>1, ReceiveCall
<1>3. phase = "resuming" /\ Unresumed(e)
  BY <1>2, DataParallelAssumption
  DEF PauseInv, Idle, Resumed, BeforeConsensus, AfterConsensus, Uncalled, Asked, Agreed,
      TypeOK, ClientTypes
<1>4. ~ResumeRefused(e) /\ ~running[e]
  BY <1>3 DEF Unresumed, Stopped, ResumeRefused
<1> QED BY <1>3, <1>4 DEF HandleResume

LEMMA AnswerPauseWhen ==
  ASSUME TypeOK, PauseInv, NEW e \in Engines, AnswerPause(e)
  PROVE  /\ phase = "pausing" /\ phase' \in {"pausing", "paused"}
         /\ \A d \in Engines : Stopped(d) /\ NoCall(inputs[Pauser][d])
         /\ UNCHANGED <<at, wave, running, coord, firstReqs, wakeups, inputs>>
<1>1. callback[e] /\ ~running[e]
  BY DEF AnswerPause, HasWork
<1>2. phase = "pausing" /\ AfterConsensus
  BY <1>1
  DEF PauseInv, Idle, Resumed, Unresumed, BeforeConsensus, Uncalled, Asked, TypeOK, ClientTypes
<1>3. \A d \in Engines : Stopped(d) /\ NoCall(inputs[Pauser][d])
  BY <1>1, <1>2 DEF AfterConsensus, Agreed
<1>4. phase' \in {"pausing", "paused"}
  BY <1>2 DEF AnswerPause, Answer
<1> QED BY <1>2, <1>3, <1>4 DEF AnswerPause, channels

LEMMA SyncWhen ==
  ASSUME TypeOK, PauseInv, Sync
  PROVE  /\ phase \in {"running", "pausing"}
         /\ UNCHANGED phase
         /\ phase = "running" => \A e \in Engines : ~pendingPause[e] /\ ignoring'[e] = ignoring[e]
<1>1. at = [e \in Engines |-> "sync"] /\ Rank0 \in Engines
  BY DataParallelAssumption DEF Sync
<1>2. phase \in {"running", "pausing"}
  BY <1>1 DEF PauseInv, Stopped, Unresumed, Resumed, TypeOK, ClientTypes
<1>3. ASSUME phase = "running", NEW e \in Engines
      PROVE  ~pendingPause[e] /\ ignoring'[e] = ignoring[e]
  <2>1. \A d \in Engines : ~pendingPause[d]
    BY <1>3 DEF PauseInv, Idle
  <2>2. {d \in Engines : pendingPause[d]} # Engines
    BY <1>1, <2>1
  <2>3. ignoring'[e] = (ignoring[e] \/ {d \in Engines : pendingPause[d]} = Engines)
    BY DEF Sync
  <2> QED BY <2>1, <2>2, <2>3 DEF TypeOK, EngineTypes
<1> QED BY <1>2, <1>3 DEF Sync, clientVars

LEMMA EndResumeWhen ==
  ASSUME TypeOK, PauseInv, EndResume
  PROVE  /\ phase = "resuming" /\ phase' = "running"
         /\ \A e \in Engines : at[e] = "resume" /\ ~running[e]
<1>1. at = [e \in Engines |-> "resume"] /\ Rank0 \in Engines
  BY DataParallelAssumption DEF EndResume
<1>2. phase = "resuming"
  BY <1>1
  DEF PauseInv, Idle, BeforeConsensus, AfterConsensus, Uncalled, Asked, Agreed, TypeOK,
      ClientTypes
<1>3. \A e \in Engines : at[e] = "resume" /\ ~running[e]
  BY <1>1, <1>2 DEF PauseInv, Unresumed, Stopped, Resumed
<1>4. phase' = "running"
  BY <1>2 DEF EndResume, Answer, TypeOK, ClientTypes
<1> QED BY <1>2, <1>3, <1>4

LEMMA PhaseStep ==
  ASSUME TypeOK, PauseInv, [Next]_vars
  PROVE  \/ UNCHANGED phase
         \/ \E mode \in Modes : Pause(mode)
         \/ Resume
         \/ \E e \in Engines : AnswerPause(e) /\ phase = "pausing" /\ phase' = "paused"
         \/ EndResume
BY PhaseWriters, HandleResumeWhen, AnswerPauseWhen

\* Who stands still.
LEMMA StillWhen ==
  ASSUME PauseInv, phase \in {"paused", "resuming"}
  PROVE  \A e \in Engines : ~running[e] /\ at[e] \in {"loop", "resume"}
BY DEF PauseInv, Unresumed, Resumed, Stopped

LEMMA OverWhen ==
  ASSUME PauseInv, phase = "pausing", NoCall(inputs[Pauser][Rank0]), ~running[Rank0]
  PROVE  \A e \in Engines : Stopped(e)
<1>1. Rank0 \in Engines
  BY DataParallelAssumption
<1>2. ~OneCall(inputs[Pauser][Rank0], "PAUSE")
  BY DEF NoCall, OneCall, CallTypes
<1>3. AfterConsensus
  BY <1>1, <1>2 DEF PauseInv, BeforeConsensus, Uncalled, Asked
<1> QED BY <1>1, <1>3 DEF AfterConsensus

LEMMA ObedientNext ==
  ASSUME TypeOK, TypeOK', PauseInv, PauseInv', Obedient, [Next]_vars
  PROVE  Obedient'
<1> SUFFICES ASSUME NEW e \in Engines, phase' = "running" \/ at'[e] = "resume"
             PROVE  pauseState'[e] = "UNPAUSED" /\ ~ignoring'[e]
  BY DEF Obedient
<1>1. CASE EndResume
  <2>1. at[e] = "resume" /\ UNCHANGED <<pauseState, ignoring>>
    BY <1>1, EndResumeWhen DEF EndResume
  <2> QED BY <2>1 DEF Obedient
<1>2. CASE phase = "running" /\ phase' = "running"
  <2>1. pauseState[e] = "UNPAUSED" /\ ~ignoring[e]
    BY <1>2 DEF Obedient
  <2>2. UNCHANGED <<pauseState, ignoring>> \/ Sync
    BY <1>2, ModeWriters, HandlePauseWhen, HandleResumeWhen
  <2>3. Sync => pauseState'[e] = pauseState[e] /\ ignoring'[e] = ignoring[e]
    BY <1>2, SyncWhen DEF Sync
  <2> QED BY <2>1, <2>2, <2>3
<1>3. CASE phase = "resuming" /\ phase' = "resuming"
  <2>1. at'[e] = "resume"
    BY <1>3
  <2>2. ASSUME NEW f \in Fronts, NEW d \in Engines, HandleResume(f, d)
        PROVE  pauseState'[e] = "UNPAUSED" /\ ~ignoring'[e]
    <3>1. /\ at' = [at EXCEPT ![d] = "resume"]
          /\ pauseState' = [pauseState EXCEPT ![d] = "UNPAUSED"]
          /\ ignoring' = [ignoring EXCEPT ![d] = FALSE]
      BY <2>2, HandleResumeWhen
    <3>2. CASE d = e
      BY <3>1, <3>2 DEF TypeOK, EngineTypes
    <3>3. CASE d # e
      <4>1. at[e] = "resume" /\ pauseState'[e] = pauseState[e] /\ ignoring'[e] = ignoring[e]
        BY <2>1, <3>1, <3>3 DEF TypeOK, EngineTypes
      <4> QED BY <4>1 DEF Obedient
    <3> QED BY <3>2, <3>3
  <2>3. CASE ~(\E f \in Fronts, d \in Engines : HandleResume(f, d))
    <3>1. UNCHANGED <<pauseState, ignoring>>
      BY <1>3, <2>3, ModeWriters, HandlePauseWhen, SyncWhen
    <3>2. \A d \in Engines : at[d] # "forward"
      BY <1>3, StillWhen
    <3>3. ASSUME NEW d \in Engines, BeginStep(d) PROVE at'[e] = "resume" => at[e] = "resume"
      BY <3>3 DEF BeginStep, TypeOK, EngineTypes
    <3>4. EndForward => at'[e] # "resume"
      BY DEF EndForward
    <3>5. Sync \/ EndResume => at'[e] # "resume"
      BY DEF Sync, EndResume
    <3>6. at[e] = "resume"
      BY <2>1, <2>3, <3>3, <3>4, <3>5, AtWriters
    <3> QED BY <3>1, <3>6 DEF Obedient
  <2> QED BY <2>2, <2>3
<1>4. CASE phase' # "running"
  <2>1. at'[e] = "resume"
    BY <1>4
  <2>2. phase' = "resuming"
    BY <1>4, <2>1
    DEF PauseInv, Idle, Stopped, BeforeConsensus, AfterConsensus, Uncalled, Asked, Agreed,
        TypeOK, ClientTypes
  <2>3. ~Resume
    <3> SUFFICES ASSUME Resume PROVE FALSE
      OBVIOUS
    <3>1. phase = "paused" /\ UNCHANGED at
      BY DEF Resume, Call, engineVars
    <3> QED BY <2>1, <3>1 DEF PauseInv, Stopped
  <2>4. phase = "resuming"
    BY <2>2, <2>3, PhaseStep, EndResumeWhen DEF Pause, Call
  <2> QED BY <1>3, <2>2, <2>4
<1>5. phase' = "running" => phase = "running" \/ EndResume
  BY PhaseStep DEF Pause, Resume, Call
<1> QED BY <1>1, <1>2, <1>4, <1>5

-----------------------------------------------------------------------------
(* Outside a pause *)

LEMMA WorkWriters ==
  ASSUME [Next]_vars
  PROVE  \/ UNCHANGED <<waiting, admitted>>
         \/ \E f \in Fronts, e \in Engines : HandleAdd(f, e)
         \/ \E e \in Engines : \E rs : Finish(e, rs)
         \/ EndForward
<1>1. ASSUME NEW f \in Fronts, NEW e \in Engines,
             \/ HandleAbort(f, e) \/ HandlePause(f, e)
             \/ \E r \in Requests : AbortDuringStep(f, e, r)
      PROVE  \E rs : Finish(e, rs)
  BY <1>1 DEF HandleAbort, HandlePause, AbortDuringStep
<1> QED
  BY <1>1
  DEF Next, Progress, Environment, Engine, Handle, Together, SendRequest, SendAbort,
      ForwardFirstReq, ReadStats, Call, Pause, Resume, PublishStats, HandleWakeup, HandleNotice,
      HandleResume, HandleStart, AnswerPause, BeginStep, Sync, EndResume, vars, engineVars

\* An announcement comes from a FIRST_REQ or from an engine that asks for it.
LEMMA AnnouncedArises ==
  ASSUME TypeOK, WavesInv, SameWave, ~Announced, Announced', [Next]_vars
  PROVE  \/ \E f \in Fronts : HandleWakeup(f) /\ Broadcast(coord.wave, {})
                              /\ coord.wave = wave[Rank0]
         \/ \E e \in Engines : /\ HandleNotice(e) /\ Asking(e)
                               /\ Broadcast(wave[Rank0], {e})
<1>1. coord'.running /\ coord'.wave = wave[Rank0] /\ coord' # coord
  BY DEF Announced, SameWave
<1>2. ASSUME NEW f \in Fronts, HandleWakeup(f)
      PROVE  Broadcast(coord.wave, {}) /\ coord.wave = wave[Rank0]
  BY <1>1, <1>2, WakeupEffect
<1>3. ASSUME NEW e \in Engines, HandleNotice(e)
      PROVE  Asking(e) /\ Broadcast(wave[Rank0], {e})
  <2> DEFINE n == Head(notices[e])
  <2>1. n \in Under(notices[e])
    BY <1>3, NoticeEffect
  <2>2. \/ UNCHANGED coord
        \/ coord' = [wave |-> n.wave + 1, running |-> FALSE]
        \/ n.type = "start" /\ coord' = [wave |-> n.wave, running |-> TRUE]
           /\ Broadcast(n.wave, {e})
    BY <1>3, NoticeEffect
  <2> HIDE DEF n
  <2>3. n.type = "start" /\ n.wave = wave[Rank0] /\ Broadcast(n.wave, {e})
    BY <1>1, <2>2
  <2> QED BY <2>1, <2>3 DEF Asking
<1> QED BY <1>1, <1>2, <1>3, CoordWriters

\* An engine that is called runs, or still is called.
LEMMA CalledStays ==
  ASSUME TypeOK, WavesInv, Obedient, phase = "running", SameWave, [Next]_vars,
         NEW d \in Engines, Called(d)
  PROVE  running'[d] \/ Called(d)'
<1>1. PICK m \in Under(starts[d]) : m.wave = wave[Rank0] /\ d \notin m.excluded
  BY DEF Called
<1>2. starts \in [Engines -> Seq(Starts)] /\ wave[Rank0] \in Nat
  BY ChannelFacts, WavesAreNat
<1>3. CASE m \in Under(starts'[d])
  BY <1>1, <1>3 DEF Called, SameWave
<1>4. CASE UNCHANGED starts
  BY <1>1, <1>4 DEF Called, SameWave
<1>5. ASSUME NEW w \in Nat, NEW x \in SUBSET Engines, Broadcast(w, x)
      PROVE  m \in Under(starts'[d])
  BY <1>1, <1>5, BroadcastEffect
<1>6. ASSUME NEW f \in Fronts, HandleWakeup(f)
      PROVE  UNCHANGED starts \/ m \in Under(starts'[d])
  <2>1. coord.wave \in Nat
    BY WavesAreNat
  <2> QED BY <1>5, <1>6, <2>1, WakeupEffect
<1>7. ASSUME NEW e \in Engines, HandleNotice(e)
      PROVE  UNCHANGED starts \/ m \in Under(starts'[d])
  <2>1. Head(notices[e]).wave \in Nat
    BY <1>7, NoticeEffect DEF Notices
  <2>2. UNCHANGED starts \/ Broadcast(Head(notices[e]).wave, {e})
    BY <1>7, NoticeEffect
  <2> QED BY <1>5, <2>1, <2>2
<1>8. ASSUME NEW e \in Engines, HandleStart(e)
      PROVE  running'[d] \/ m \in Under(starts'[d])
  <2>1. starts[e] # <<>> /\ starts' = [starts EXCEPT ![e] = Tail(@)]
    BY <1>8 DEF HandleStart
  <2>2. CASE e # d
    <3>1. starts'[d] = starts[d]
      BY <1>2, <2>1, <2>2
    <3> QED BY <1>1, <3>1
  <2>3. CASE e = d
    <3>1. starts[d] \in Seq(Starts) /\ starts'[d] = Tail(starts[d])
      BY <1>2, <2>1, <2>3
    <3>2. m = Head(starts[d]) \/ m \in Under(starts'[d])
      BY <1>1, <2>1, <2>3, <3>1, UnderTail
    <3>3. CASE m = Head(starts[d])
      <4>1. ~ignoring[d] /\ wave[d] = wave[Rank0]
        BY DEF Obedient, WavesInv
      <4>2. Obeys(d, m)
        BY <1>1, <1>2, <4>1 DEF Obeys
      <4> QED BY <1>8, <2>3, <3>3, <4>2 DEF HandleStart, TypeOK, EngineTypes
    <3> QED BY <3>2, <3>3
  <2> QED BY <2>2, <2>3
<1> QED BY <1>3, <1>4, <1>6, <1>7, <1>8, StartsWriters

\* All run an announced wave, or will.
AllCalled == Announced => \A d \in Engines : running[d] \/ Called(d)

LEMMA AllCalledNext ==
  ASSUME TypeOK, TypeOK', WavesInv, WavesInv', AskersRun, Obedient, AllCalled,
         phase = "running", [Next]_vars
  PROVE  AllCalled'
<1> SUFFICES ASSUME Announced', NEW d \in Engines
             PROVE  running'[d] \/ Called(d)'
  BY DEF AllCalled
<1>1. wave[Rank0] \in Nat /\ coord.wave \in Nat
  BY WavesAreNat
<1>2. SameWave
  <2> SUFFICES ASSUME NewWave PROVE FALSE
    BY WaveStep
  <2>1. wave'[Rank0] = wave[Rank0] + 1 /\ UNCHANGED coord
    BY DEF NewWave, Sync
  <2>2. coord.wave <= wave[Rank0]
    BY DEF WavesInv
  <2> QED BY <1>1, <2>1, <2>2 DEF Announced
<1>3. CASE Announced
  <2>1. running[d] \/ Called(d)
    BY <1>3 DEF AllCalled
  <2> QED BY <1>2, <2>1, CalledStays DEF SameWave
<1>4. ASSUME NEW x \in SUBSET Engines, d \notin x, Broadcast(wave[Rank0], x)
      PROVE  Called(d)'
  <2>1. [wave |-> wave[Rank0], excluded |-> x] \in Under(starts'[d])
    BY <1>1, <1>4, BroadcastEffect
  <2> QED BY <1>2, <1>4, <2>1 DEF Called, SameWave
<1>5. CASE ~Announced
  <2>1. CASE \E f \in Fronts : Broadcast(coord.wave, {}) /\ coord.wave = wave[Rank0]
    BY <1>4, <2>1
  <2>2. ASSUME NEW e \in Engines, Asking(e), Broadcast(wave[Rank0], {e})
        PROVE  running'[d] \/ Called(d)'
    <3>1. CASE d = e
      <4>1. running[d]
        BY <2>2, <3>1 DEF AskersRun
      <4> QED BY <1>2, <4>1 DEF SameWave
    <3>2. CASE d # e
      BY <1>4, <2>2, <3>2
    <3> QED BY <3>1, <3>2
  <2> QED BY <1>2, <1>5, <2>1, <2>2, AnnouncedArises
<1> QED BY <1>3, <1>5

\* An engine that is going to run stays so.
LEMMA AskingStays ==
  ASSUME TypeOK, TypeOK', WavesInv, WavesInv', SameWave, [Next]_vars, NEW e \in Engines, Asking(e)
  PROVE  Asking(e)' \/ Announced'
<1>1. PICK n \in Under(notices[e]) : n.type = "start" /\ n.wave = wave[Rank0]
  BY DEF Asking
<1>2. CASE n \in Under(notices'[e])
  BY <1>1, <1>2 DEF Asking, SameWave
<1>3. CASE UNCHANGED notices
  BY <1>1, <1>3 DEF Asking, SameWave
<1>4. ASSUME NEW f \in Fronts, NEW d \in Engines, HandleAdd(f, d)
      PROVE  n \in Under(notices'[e])
  <2>1. CASE d # e
    <3>1. notices'[e] = notices[e]
      BY <1>4, <2>1, AddEffect
    <3> QED BY <1>1, <3>1
  <2>2. CASE d = e
    <3>1. \/ UNCHANGED notices
          \/ Under(notices'[e]) =
               Under(notices[e]) \union {[type |-> "start", wave |-> wave[e]]}
      BY <1>4, <2>2, AddEffect
    <3> QED BY <1>1, <3>1
  <2> QED BY <2>1, <2>2
<1>5. ASSUME NEW d \in Engines, HandleNotice(d)
      PROVE  n \in Under(notices'[e]) \/ Announced'
  <2>1. CASE d # e
    <3>1. notices'[e] = notices[e]
      BY <1>5, <2>1, NoticeEffect
    <3> QED BY <1>1, <3>1
  <2>2. CASE d = e
    <3>1. n = Head(notices[e]) \/ n \in Under(notices'[e])
      BY <1>1, <1>5, <2>2, NoticeEffect
    <3>2. CASE n = Head(notices[e])
      <4>1. \/ UNCHANGED coord /\ (n.wave < coord.wave \/ (n.wave = coord.wave /\ coord.running))
            \/ coord' = [wave |-> n.wave, running |-> TRUE]
        BY <1>1, <1>5, <2>2, <3>2, NoticeEffect
      <4>2. coord.wave <= wave[Rank0] /\ coord.wave \in Nat /\ wave[Rank0] \in Nat
        BY WavesInNext
      <4>3. coord'.wave = wave[Rank0] /\ coord'.running
        BY <1>1, <4>1, <4>2
      <4> QED BY <4>3 DEF Announced, SameWave
    <3> QED BY <3>1, <3>2
  <2> QED BY <2>1, <2>2
<1>6. CASE Sync
  <2>1. Rank0 \in Engines /\ wave[Rank0] \in Nat
    BY WavesAreNat
  <2>2. UNCHANGED notices \/ \A d \in Engines : wave'[d] = wave[d] + 1
    BY <1>6 DEF Sync, WaveAfter
  <2> QED BY <1>3, <2>1, <2>2 DEF SameWave
<1> QED BY <1>2, <1>3, <1>4, <1>5, <1>6, NoticesWriters

LEMMA WillRunStays ==
  ASSUME TypeOK, TypeOK', WavesInv, WavesInv', Obedient, phase = "running", SameWave,
         AllCalled', [Next]_vars, NEW d \in Engines, WillRun(d)
  PROVE  WillRun(d)'
<1>1. Announced' => WillRun(d)'
  BY DEF AllCalled, WillRun
<1>2. CASE running[d]
  BY <1>2 DEF WillRun, SameWave
<1>3. CASE Called(d)
  BY <1>3, CalledStays DEF WillRun
<1>4. ASSUME NEW e \in Engines, Asking(e)
      PROVE  WillRun(d)'
  BY <1>1, <1>4, AskingStays DEF WillRun
<1>5. CASE coord.wave = wave[Rank0] /\ Waking
  <2>1. coord'.wave = wave[Rank0] /\ coord'.wave = coord.wave
    BY <1>5, WavesInNext DEF SameWave
  <2>2. Waking' \/ coord'.running
    BY <1>5, WakeupsStep
  <2>3. coord'.wave = wave'[Rank0]
    BY <2>1 DEF SameWave
  <2>4. CASE coord'.running
    BY <1>1, <2>3, <2>4 DEF Announced
  <2>5. CASE Waking'
    BY <2>3, <2>5 DEF WillRun
  <2> QED BY <2>2, <2>4, <2>5
<1> QED BY <1>2, <1>3, <1>4, <1>5 DEF WillRun

SomeoneWorks == \E e \in Engines : HasWork(e) \/ at[e] = "forward"

\* Outside a pause an engine gets work by a request or a START_DP_WAVE, or has it because
\* another one has.
LEMMA WorkArises ==
  ASSUME TypeOK, PauseInv, Obedient, Obedient', phase = "running", phase' = "running",
         [Next]_vars, SomeoneWorks'
  PROVE  \/ SomeoneWorks
         \/ \E f \in Fronts, e \in Engines : HandleAdd(f, e)
         \/ \E e \in Engines : HandleStart(e) /\ Obeys(e, Head(starts[e]))
<1>1. PICK e \in Engines : running'[e] \/ HasUnfinished(e)' \/ at'[e] = "forward"
  BY DEF SomeoneWorks, HasWork
<1>2. EndForward => SomeoneWorks
  BY <1>1 DEF EndForward, SomeoneWorks
<1>3. ~EndResume
  BY EndResumeWhen
<1>4. \A f \in Fronts, d \in Engines : ~HandlePause(f, d) /\ ~HandleResume(f, d)
  BY HandlePauseWhen, HandleResumeWhen
<1>5. CASE at'[e] = "forward"
  <2>1. ASSUME NEW d \in Engines, BeginStep(d) PROVE SomeoneWorks
    BY <2>1 DEF BeginStep, SomeoneWorks
  <2>2. Sync => at'[e] = "loop"
    BY DEF Sync
  <2> QED BY <1>2, <1>3, <1>4, <1>5, <2>1, <2>2, AtWriters DEF SomeoneWorks
<1>6. CASE running'[e]
  <2>1. CASE running[e]
    BY <2>1 DEF SomeoneWorks, HasWork
  <2>2. ASSUME NEW d \in Engines, HandleStart(d), ~running[e]
        PROVE  Obeys(d, Head(starts[d]))
    BY <1>6, <2>2 DEF HandleStart, TypeOK, EngineTypes
  <2>3. CASE Sync
    <3>1. {d \in Engines : pendingPause[d]} = {}
      BY <2>3, SyncWhen
    <3>2. running'[e] <=> \/ \E d \in Engines : HasUnfinished(d)
                          \/ {d \in Engines : pendingPause[d]} \notin {{}, Engines}
      BY <2>3 DEF Sync
    <3> QED BY <1>6, <3>1, <3>2 DEF SomeoneWorks, HasWork
  <2> QED BY <1>2, <1>3, <1>4, <1>6, <2>1, <2>2, <2>3, RunningWriters
<1>7. CASE HasUnfinished(e)'
  <2>1. pauseState[e] = "UNPAUSED" /\ pauseState'[e] = "UNPAUSED"
    BY DEF Obedient
  <2>2. waiting'[e] \union admitted'[e] # {}
    BY <1>7, <2>1 DEF HasUnfinished, Unfinished
  <2>3. ASSUME NEW d \in Engines, NEW rs, Finish(d, rs)
        PROVE  waiting'[e] \subseteq waiting[e] /\ admitted'[e] \subseteq admitted[e]
    BY <2>3 DEF Finish, TypeOK, EngineTypes
  <2>4. waiting[e] \union admitted[e] # {} => SomeoneWorks
    BY <2>1 DEF HasUnfinished, Unfinished, HasWork, SomeoneWorks
  <2> QED BY <1>2, <2>2, <2>3, <2>4, WorkWriters
<1> QED BY <1>1, <1>5, <1>6, <1>7

\* Work that arises is work for all.
LEMMA AllWillRun ==
  ASSUME TypeOK, TypeOK', WavesInv, WavesInv', Obedient, StartsAnnounced, AddsAnnounced,
         phase = "running", SameWave, AllCalled', [Next]_vars,
         SomeoneWorks => \A d \in Engines : WillRun(d),
         \/ SomeoneWorks
         \/ \E f \in Fronts, e \in Engines : HandleAdd(f, e)
         \/ \E e \in Engines : HandleStart(e) /\ Obeys(e, Head(starts[e])),
         NEW d \in Engines
  PROVE  WillRun(d)'
<1>1. Announced' => WillRun(d)'
  BY DEF AllCalled, WillRun
<1>2. CASE SomeoneWorks
  BY <1>2, WillRunStays
<1>3. ASSUME NEW f \in Fronts, NEW e \in Engines, HandleAdd(f, e)
      PROVE  WillRun(d)'
  <2> DEFINE m == Head(inputs[f][e])
  <2>1. /\ m \in Under(inputs[f][e]) /\ m.type = "ADD"
        /\ m.wave \in Nat /\ m.wave <= coord.wave
        /\ UNCHANGED <<wave, coord, firstReqs, wakeups>>
        /\ \/ Under(notices'[e]) =
                 Under(notices[e]) \union {[type |-> "start", wave |-> wave[e]]}
           \/ ~(m.wave < wave[e] /\ ~running[e] /\ pauseState[e] = "UNPAUSED")
    BY <1>3, AddEffect
  <2> HIDE DEF m
  <2>2. wave[e] = wave[Rank0] /\ coord.wave <= wave[Rank0] /\ pauseState[e] = "UNPAUSED"
    BY DEF WavesInv, Obedient
  <2>3. wave[Rank0] \in Nat /\ coord.wave \in Nat
    BY WavesAreNat
  <2>4. CASE [type |-> "start", wave |-> wave[e]] \in Under(notices'[e])
    <3>1. Asking(e)'
      BY <2>1, <2>2, <2>4 DEF Asking
    <3> QED BY <3>1 DEF WillRun
  <2>5. CASE running[e]
    <3>1. SomeoneWorks
      BY <2>5 DEF SomeoneWorks, HasWork
    <3> QED BY <1>2, <3>1
  <2>6. CASE ~(m.wave < wave[e])
    <3>1. m.wave = wave[Rank0]
      BY <2>1, <2>2, <2>3, <2>6
    <3>2. coord.wave = wave[Rank0] /\ (coord.running \/ Waking)
      BY <2>1, <3>1 DEF AddsAnnounced
    <3>3. coord'.wave = wave'[Rank0] /\ (coord'.running \/ Waking')
      BY <2>1, <3>2 DEF Waking
    <3> QED BY <1>1, <3>3 DEF Announced, WillRun
  <2> QED BY <2>1, <2>2, <2>4, <2>5, <2>6
<1>4. ASSUME NEW e \in Engines, HandleStart(e), Obeys(e, Head(starts[e]))
      PROVE  WillRun(d)'
  <2> DEFINE m == Head(starts[e])
  <2>1. starts[e] # <<>> /\ starts[e] \in Seq(Starts)
    BY <1>4, ChannelFacts DEF HandleStart
  <2>2. m \in Under(starts[e])
    BY <2>1, UnderTail
  <2>3. m.wave \in Nat /\ m.wave <= wave[Rank0] /\ UNCHANGED <<wave, coord>>
    BY <1>4, StartIsNotAhead DEF Starts, HandleStart
  <2>4. m.wave >= wave[Rank0]
    BY <1>4 DEF Obeys, WavesInv
  <2> HIDE DEF m
  <2>5. m.wave = wave[Rank0]
    BY <2>3, <2>4, WavesAreNat
  <2>6. Announced
    BY <2>2, <2>5 DEF StartsAnnounced
  <2> QED BY <1>1, <2>3, <2>6 DEF Announced
<1> QED BY <1>2, <1>3, <1>4

LEMMA WokenIs == Woken <=> (phase = "running" =>
                    AllCalled /\ (SomeoneWorks => \A d \in Engines : WillRun(d)))
BY DEF Woken, AllCalled, SomeoneWorks

\* The engines leave a pause together, with all their work or with none.
LEMMA WokenEndResume ==
  ASSUME TypeOK, PauseInv, Obedient, WorkHeld, EndResume
  PROVE  AllCalled' /\ (SomeoneWorks' => \A d \in Engines : WillRun(d)')
<1>1. /\ phase = "resuming"
      /\ \A e \in Engines : at[e] = "resume" /\ ~running[e] /\ pauseState[e] = "UNPAUSED"
  BY EndResumeWhen DEF Obedient
<1>2. /\ at' = [e \in Engines |-> "loop"]
      /\ running' = [e \in Engines |-> running[e] \/ Restarts(e)]
      /\ UNCHANGED <<wave, coord, pauseState, waiting, admitted>>
  BY DEF EndResume
<1>3. CASE \E e \in Engines : HasUnfinished(e)
  <2>1. \A e \in Engines : running'[e]
    BY <1>2, <1>3 DEF Restarts
  <2> QED BY <2>1 DEF AllCalled, WillRun
<1>4. CASE ~(\E e \in Engines : HasUnfinished(e))
  <2>1. ~Announced
    <3> SUFFICES ASSUME Announced PROVE FALSE
      OBVIOUS
    <3>1. PICK r \in Requests : Held(r)
      BY <1>1 DEF WorkHeld
    <3>2. PICK e \in Engines : r \in waiting[e]
      BY <3>1 DEF Held
    <3> QED BY <1>1, <1>4, <3>2 DEF HasUnfinished, Unfinished
  <2>2. ~Announced'
    BY <1>2, <2>1 DEF Announced
  <2>3. \A e \in Engines : ~running'[e] /\ ~HasUnfinished(e)'
    BY <1>1, <1>2, <1>4 DEF Restarts, HasUnfinished, Unfinished
  <2>4. ~SomeoneWorks'
    BY <1>2, <2>3 DEF SomeoneWorks, HasWork
  <2> QED BY <2>2, <2>4 DEF AllCalled
<1> QED BY <1>3, <1>4

LEMMA WokenNext ==
  ASSUME TypeOK, TypeOK', WavesInv, WavesInv', PauseInv, Obedient, Obedient', StartsAnnounced,
         AskersRun, AddsAnnounced, WorkHeld, Woken, [Next]_vars
  PROVE  Woken'
<1> SUFFICES ASSUME phase' = "running"
             PROVE  AllCalled' /\ (SomeoneWorks' => \A d \in Engines : WillRun(d)')
  BY DEF Woken, AllCalled, SomeoneWorks
<1>1. phase = "running" \/ EndResume
  BY PhaseStep DEF Pause, Resume, Call
<1>2. CASE phase = "running"
  <2>1. AllCalled /\ (SomeoneWorks => \A d \in Engines : WillRun(d))
    BY <1>2, WokenIs
  <2>2. AllCalled'
    BY <1>2, <2>1, AllCalledNext
  <2>3. ASSUME SomeoneWorks', NEW d \in Engines
        PROVE  WillRun(d)'
    <3>1. \/ SomeoneWorks
          \/ \E f \in Fronts, e \in Engines : HandleAdd(f, e)
          \/ \E e \in Engines : HandleStart(e) /\ Obeys(e, Head(starts[e]))
      BY <1>2, <2>3, WorkArises
    <3>2. SameWave
      <4> SUFFICES ASSUME NewWave PROVE FALSE
        BY WaveStep
      <4>1. \A e \in Engines : /\ at'[e] = "loop" /\ ~running'[e] /\ ~HasUnfinished(e)
                               /\ HasUnfinished(e)' = HasUnfinished(e)
        BY DEF NewWave, Sync, HasUnfinished
      <4> QED BY <2>3, <4>1 DEF SomeoneWorks, HasWork
    <3> QED BY <1>2, <2>1, <2>2, <3>1, <3>2, AllWillRun
  <2> QED BY <2>2, <2>3
<1>3. CASE EndResume
  BY <1>3, WokenEndResume
<1> QED BY <1>1, <1>2, <1>3

-----------------------------------------------------------------------------
(* During a pause *)

\* Only a call, or an engine that takes it in, changes which calls are under way.
LEMMA KeepsCallsNext ==
  ASSUME TypeOK, HomesKnown, [Next]_vars
  PROVE  \/ KeepsCalls
         \/ \E mode \in Modes : Pause(mode)
         \/ Resume
         \/ \E f \in Fronts, e \in Engines : HandlePause(f, e) \/ HandleResume(f, e)
<1>1. ASSUME NEW f \in Fronts, NEW e \in Engines, HandleAdd(f, e) \/ HandleAbort(f, e)
      PROVE  KeepsCalls
  <2>1. \E t \in {"ADD", "ABORT"} : Receive(f, e, t)
    BY <1>1 DEF HandleAdd, HandleAbort
  <2> QED BY <2>1, ReceiveKeepsCalls DEF CallTypes
<1> QED BY <1>1, SendKeepsCalls, AbortKeepsCalls, SameInputs, InputsWriters

\* While a pause goes on no FIRST_REQ comes up, and the wave that it ends is not
\* announced again.
LEMMA WaveOverNext ==
  ASSUME Considerate, TypeOK, TypeOK', HomesKnown, WavesInv, WavesInv', PauseInv, AskersRun,
         WaveOver, [Next]_vars
  PROVE  WaveOver'
<1> DEFINE Ended == NoCall(inputs[Pauser][Rank0]) /\ ~running[Rank0]
<1> SUFFICES ASSUME phase' = "pausing"
             PROVE  ~Waking' /\ (Ended' => ~Announced')
  BY DEF WaveOver
<1>1. Rank0 \in Engines /\ Pauser \in Fronts
  BY DataParallelAssumption
<1>2. ASSUME NEW mode \in Modes, Pause(mode)
      PROVE  ~Waking' /\ ~Ended'
  <2> DEFINE m == [type |-> "PAUSE", mode |-> mode]
  <2>1. Quiet /\ UNCHANGED <<firstReqs, wakeups>> /\ phase \in {"running", "paused"}
    BY <1>2 DEF Considerate, Pause, Call
  <2>2. ~Waking'
    BY <2>1 DEF Waking, Quiet
  <2>3. NoCall(inputs[Pauser][Rank0])
    BY <1>1, <2>1 DEF PauseInv, Idle
  <2>4. m \in Messages /\ m.type = "PAUSE"
    BY DEF Messages
  <2>5. inputs' = [inputs EXCEPT ![Pauser] = [e \in Engines |-> Append(@[e], m)]]
    BY <1>2 DEF Pause, Call, ToAllEngines
  <2>6. inputs'[Pauser][Rank0] = Append(inputs[Pauser][Rank0], m)
        /\ inputs[Pauser][Rank0] \in Seq(Messages)
    BY <1>1, <2>5, ChannelFacts
  <2> HIDE DEF m
  <2>7. OneCall(inputs'[Pauser][Rank0], "PAUSE")
    BY <2>3, <2>4, <2>6, FirstCallAppend
  <2> QED BY <2>2, <2>7 DEF NoCall, OneCall, CallTypes
<1>3. CASE phase = "pausing"
  <2>1. ~Waking /\ (Ended => ~Announced)
    BY <1>3 DEF WaveOver
  <2>2. ~(\E f \in Fronts, e \in Engines, r \in Requests : SendRequest(f, e, r))
    BY <1>3 DEF SendRequest, Considerate
  <2>3. ~(\E f \in Fronts : ForwardFirstReq(f) \/ HandleWakeup(f))
    BY <2>1 DEF Waking, ForwardFirstReq, HandleWakeup
  <2>4. ~Waking'
    BY <2>1, <2>2, <2>3, PipelineWriters DEF Waking
  <2>5. ASSUME Ended', Announced'
        PROVE  FALSE
    <3>1. SameWave
      <4> SUFFICES ASSUME NewWave PROVE FALSE
        BY WaveStep
      <4>1. wave'[Rank0] = wave[Rank0] + 1
        BY DEF NewWave
      <4> QED BY <2>5, <4>1, WavesInNext DEF Announced
    <3>2. ~running[Rank0]
      BY <1>1, <2>5, <3>1 DEF SameWave
    <3>3. NoCall(inputs[Pauser][Rank0])
      <4>1. CASE KeepsCalls
        <5>1. ~OneCall(inputs'[Pauser][Rank0], "PAUSE")
          BY <2>5 DEF NoCall, OneCall, CallTypes
        <5>2. ~Uncalled(Rank0)
          BY <1>1, <4>1, <5>1 DEF KeepsCalls, Uncalled, CallTypes
        <5> QED
          BY <1>1, <1>3, <5>2 DEF PauseInv, BeforeConsensus, AfterConsensus, Asked, Agreed
      <4>2. ASSUME NEW f \in Fronts, NEW e \in Engines, HandlePause(f, e)
            PROVE  NoCall(inputs[Pauser][Rank0])
        <5>1. running'[e] /\ \A d \in Engines : d # e => inputs'[Pauser][d] = inputs[Pauser][d]
          BY <4>2, HandlePauseWhen
        <5> QED BY <1>1, <2>5, <5>1
      <4>3. ~(\E f \in Fronts, e \in Engines : HandleResume(f, e))
        BY <1>3, HandleResumeWhen
      <4>4. ~Resume /\ ~(\E mode \in Modes : Pause(mode))
        BY <1>3 DEF Resume, Pause
      <4> QED BY <4>1, <4>2, <4>3, <4>4, KeepsCallsNext
    <3>4. ~Announced
      BY <2>1, <3>2, <3>3
    <3>5. \A e \in Engines : ~Asking(e)
      BY <1>3, <3>2, <3>3, OverWhen DEF Stopped, AskersRun
    <3>6. ~(\E f \in Fronts : HandleWakeup(f))
      BY <2>3
    <3> QED BY <2>5, <3>1, <3>4, <3>5, <3>6, AnnouncedArises
  <2> QED BY <2>4, <2>5
<1>4. phase = "pausing" \/ \E mode \in Modes : Pause(mode)
  BY PhaseStep, EndResumeWhen DEF Resume, Call
<1> QED BY <1>2, <1>3, <1>4

\* While the engines stand still no request is finished, and only a request that is
\* not wanted any more is forgotten.
LEMMA KeptWhileStill ==
  ASSUME TypeOK, PauseInv, AbortsWanted, phase \in {"paused", "resuming"},
         ~(\E q \in Requests : SendAbort(q)), [Next]_vars,
         NEW r \in Requests, status[r] = "sent"
  PROVE  /\ status'[r] = "sent"
         /\ \A e \in Engines : r \in waiting[e] => r \in waiting'[e]
<1> DEFINE Kept == /\ status'[r] = "sent"
                   /\ \A e \in Engines : r \in waiting[e] => r \in waiting'[e]
<1>1. status \in [Requests -> Statuses] /\ waiting \in [Engines -> SUBSET Requests]
  BY DEF TypeOK, ClientTypes, EngineTypes
<1>2. Rank0 \in Engines /\ \A e \in Engines : at[e] # "forward"
  BY StillWhen, DataParallelAssumption
<1>3. ASSUME NEW f \in Fronts, NEW e \in Engines, NEW q \in Requests, SendRequest(f, e, q)
      PROVE  Kept
  BY <1>1, <1>3 DEF SendRequest, engineVars
<1>4. ASSUME NEW f \in Fronts, NEW e \in Engines, HandleAdd(f, e)
      PROVE  Kept
  BY <1>1, <1>4 DEF HandleAdd, clientVars
<1>5. ASSUME NEW f \in Fronts, NEW e \in Engines, HandleAbort(f, e)
      PROVE  Kept
  <2> DEFINE q == Head(inputs[f][e]).request
  <2>1. Finish(e, {q})
    BY <1>5 DEF HandleAbort
  <2>2. q # r
    <3>1. Head(inputs[f][e]) \in Under(inputs[f][e]) /\ Head(inputs[f][e]).type = "ABORT"
      BY <1>5, ReceiveEffect DEF HandleAbort
    <3> QED BY <3>1 DEF AbortsWanted
  <2> HIDE DEF q
  <2> QED BY <1>1, <2>1, <2>2 DEF Finish, Done
<1>6. ~(\E f \in Fronts, e \in Engines : HandlePause(f, e))
  BY HandlePauseWhen
<1>7. ~(\E f \in Fronts, e \in Engines, q \in Requests : AbortDuringStep(f, e, q))
  BY <1>2 DEF AbortDuringStep
<1>8. ~EndForward
  BY <1>2 DEF EndForward
<1>9. CASE UNCHANGED <<status, waiting>>
  BY <1>9
<1>10. \/ UNCHANGED <<status, waiting>>
       \/ \E f \in Fronts, e \in Engines, q \in Requests : SendRequest(f, e, q)
       \/ \E f \in Fronts, e \in Engines : HandleAdd(f, e) \/ HandleAbort(f, e)
  BY <1>6, <1>7, <1>8
  DEF Next, Progress, Environment, Engine, Handle, Together, ForwardFirstReq, ReadStats, Call,
      Pause, Resume, PublishStats, HandleWakeup, HandleNotice, HandleResume,
      HandleStart, AnswerPause, BeginStep, Sync, EndResume, vars, engineVars, clientVars
<1> QED BY <1>3, <1>4, <1>5, <1>9, <1>10

\* A request that is coming to an engine comes, or has come.
LEMMA ComingStays ==
  ASSUME TypeOK, WavesInv, PauseInv, AbortsWanted, phase = "paused", phase' = "paused",
         ~(\E q \in Requests : SendAbort(q)), [Next]_vars,
         NEW r \in Requests, Coming(r)
  PROVE  Held(r)' \/ Coming(r)'
<1>1. /\ status[r] = "sent"
      /\ \E f \in Fronts, e \in Engines : \E m \in Under(inputs[f][e]) :
           m.type = "ADD" /\ m.request = r
  BY DEF Coming
<1>2. PICK f \in Fronts, e \in Engines : \E m \in Under(inputs[f][e]) :
        m.type = "ADD" /\ m.request = r
  BY <1>1
<1>3. PICK m \in Under(inputs[f][e]) : m.type = "ADD" /\ m.request = r
  BY <1>2
<1>4. status'[r] = "sent"
  BY <1>1, KeptWhileStill
<1>5. CASE m \in Under(inputs'[f][e])
  BY <1>3, <1>4, <1>5 DEF Coming
<1>6. ASSUME NEW g \in Fronts, NEW d \in Engines, NEW q \in Requests, SendRequest(g, d, q)
      PROVE  m \in Under(inputs'[f][e])
  <2> DEFINE x == [type |-> "ADD", request |-> q, wave |-> front[g].wave]
  <2>1. x \in Messages
    BY DEF Messages, TypeOK, ClientTypes, View
  <2>2. ToEngine(g, d, x)
    BY <1>6 DEF SendRequest
  <2> HIDE DEF x
  <2>3. CASE <<g, d>> = <<f, e>>
    <3>1. f = g /\ e = d
      BY <2>3
    <3> QED BY <2>1, <2>2, <3>1, SendEffect
  <2>4. CASE <<g, d>> # <<f, e>>
    <3>1. inputs'[f][e] = inputs[f][e]
      BY <2>1, <2>2, <2>4, SendEffect
    <3> QED BY <3>1
  <2> QED BY <2>3, <2>4
<1>7. ASSUME NEW g \in Fronts, NEW d \in Engines, HandleAdd(g, d)
      PROVE  m \in Under(inputs'[f][e]) \/ Held(r)'
  <2>1. CASE <<g, d>> # <<f, e>>
    <3>1. inputs'[f][e] = inputs[f][e]
      BY <1>7, <2>1, ReceiveEffect DEF HandleAdd
    <3> QED BY <3>1
  <2>2. CASE <<g, d>> = <<f, e>>
    <3>1. f = g /\ e = d
      BY <2>2
    <3>2. m = Head(inputs[f][e]) \/ m \in Under(inputs'[f][e])
      BY <1>7, <3>1, ReceiveEffect DEF HandleAdd
    <3>3. waiting' = [waiting EXCEPT ![e] = @ \union {Head(inputs[f][e]).request}]
      BY <1>7, <3>1, AddEffect
    <3>4. m = Head(inputs[f][e]) => r \in waiting'[e]
      BY <1>3, <3>3 DEF TypeOK, EngineTypes
    <3> QED BY <1>4, <3>2, <3>4 DEF Held
  <2> QED BY <2>1, <2>2
<1>8. ASSUME NEW g \in Fronts, NEW d \in Engines, NEW t \in {"ABORT", "PAUSE", "RESUME"},
             Receive(g, d, t)
      PROVE  m \in Under(inputs'[f][e])
  <2>1. CASE <<g, d>> # <<f, e>>
    <3>1. inputs'[f][e] = inputs[f][e]
      BY <1>8, <2>1, ReceiveEffect
    <3> QED BY <3>1
  <2>2. CASE <<g, d>> = <<f, e>>
    <3>1. f = g /\ e = d
      BY <2>2
    <3>2. Head(inputs[f][e]).type = t
          /\ Under(inputs[f][e]) = {Head(inputs[f][e])} \union Under(inputs'[f][e])
      BY <1>8, <3>1, ReceiveEffect
    <3> QED BY <1>3, <3>2
  <2> QED BY <2>1, <2>2
<1>9. ASSUME NEW g \in Fronts, NEW d \in Engines,
             HandleAbort(g, d) \/ HandlePause(g, d) \/ HandleResume(g, d)
      PROVE  m \in Under(inputs'[f][e])
  <2>1. \E t \in {"ABORT", "PAUSE", "RESUME"} : Receive(g, d, t)
    BY <1>9 DEF HandleAbort, HandlePause, HandleResume
  <2> QED BY <1>8, <2>1
<1>10. ~Resume /\ ~(\E mode \in Modes : Pause(mode))
  BY DEF Resume, Pause, Call
<1>11. CASE UNCHANGED inputs
  BY <1>5, <1>11
<1> QED BY <1>5, <1>6, <1>7, <1>9, <1>10, <1>11, InputsWriters

\* While the engines stand still a wave is announced, or a FIRST_REQ comes up, only for
\* a request sent to them.
LEMMA CauseArises ==
  ASSUME TypeOK, WavesInv, PauseInv, AskersRun, phase \in {"paused", "resuming"}, SameWave,
         [Next]_vars, ~Announced, ~Waking, Announced' \/ Waking'
  PROVE  \E f \in Fronts, e \in Engines, r \in Requests : SendRequest(f, e, r)
<1>1. ~(\E f \in Fronts : ForwardFirstReq(f) \/ HandleWakeup(f))
  BY DEF Waking, ForwardFirstReq, HandleWakeup
<1>2. CASE Announced'
  <2>1. \A e \in Engines : ~Asking(e)
    BY StillWhen DEF AskersRun
  <2> QED BY <1>1, <1>2, <2>1, AnnouncedArises
<1>3. CASE Waking'
  <2>1. ~UNCHANGED <<firstReqs, wakeups>>
    BY <1>3 DEF Waking
  <2> QED BY <1>1, <2>1, PipelineWriters
<1> QED BY <1>2, <1>3

LEMMA WorkHeldNext ==
  ASSUME Considerate, TypeOK, TypeOK', WavesInv, WavesInv', PauseInv, AbortsWanted,
         AskersRun, WaveOver, WorkHeld, [Next]_vars
  PROVE  WorkHeld'
<1> SUFFICES ASSUME phase' \in {"paused", "resuming"}, Announced' \/ Waking'
             PROVE  /\ "paused" \in AddPhases
                    /\ \E r \in Requests : Held(r)' \/ (phase' = "paused" /\ Coming(r)')
  BY DEF WorkHeld
<1>1. Rank0 \in Engines
  BY DataParallelAssumption
<1>2. ASSUME NEW e \in Engines, AnswerPause(e)
      PROVE  FALSE
  <2>1. /\ phase = "pausing"
        /\ Stopped(Rank0) /\ NoCall(inputs[Pauser][Rank0])
        /\ UNCHANGED <<wave, coord, firstReqs, wakeups>>
    BY <1>1, <1>2, AnswerPauseWhen
  <2>2. ~Waking /\ ~Announced
    BY <2>1 DEF WaveOver, Stopped
  <2> QED BY <2>1, <2>2 DEF Waking, Announced
<1>3. CASE Resume
  <2>1. Quiet /\ phase = "paused"
        /\ UNCHANGED <<wave, coord, firstReqs, wakeups, waiting, status>>
    BY <1>3 DEF Considerate, Resume, Call, engineVars
  <2>2. Announced \/ Waking
    BY <2>1 DEF Announced, Waking
  <2>3. "paused" \in AddPhases /\ \E r \in Requests : Held(r) \/ Coming(r)
    BY <2>1, <2>2 DEF WorkHeld
  <2>4. \A r \in Requests : ~Coming(r)
    <3>1. \A f \in Fronts, e \in Engines : Under(inputs[f][e]) = {}
      BY <2>1, UnderEmpty DEF Quiet
    <3> QED BY <3>1 DEF Coming
  <2>5. \A r \in Requests : Held(r) => Held(r)'
    BY <2>1 DEF Held
  <2> QED BY <2>3, <2>4, <2>5
<1>4. CASE UNCHANGED phase
  <2>1. phase \in {"paused", "resuming"}
    BY <1>4
  <2>2. SameWave
    BY <2>1, SyncWhen, WaveStep DEF NewWave
  <2>3. ASSUME NEW f \in Fronts, NEW e \in Engines, NEW r \in Requests, SendRequest(f, e, r)
        PROVE  "paused" \in AddPhases /\ phase' = "paused" /\ Coming(r)'
    <3> DEFINE m == [type |-> "ADD", request |-> r, wave |-> front[f].wave]
    <3>1. phase = "paused" /\ "paused" \in AddPhases
      BY <2>1, <2>3 DEF SendRequest, Considerate
    <3>2. status'[r] = "sent"
      BY <2>3 DEF SendRequest, TypeOK, ClientTypes
    <3>3. m \in Messages /\ m.type = "ADD" /\ m.request = r
      BY DEF Messages, TypeOK, ClientTypes, View
    <3>4. ToEngine(f, e, m)
      BY <2>3 DEF SendRequest
    <3> HIDE DEF m
    <3>5. m \in Under(inputs'[f][e])
      BY <3>3, <3>4, SendEffect
    <3> QED BY <1>4, <3>1, <3>2, <3>3, <3>5 DEF Coming
  <2>4. CASE Announced \/ Waking
    <3>1. /\ "paused" \in AddPhases
          /\ \E r \in Requests : Held(r) \/ (phase = "paused" /\ Coming(r))
      BY <2>1, <2>4 DEF WorkHeld
    <3>2. PICK r \in Requests : Held(r) \/ (phase = "paused" /\ Coming(r))
      BY <3>1
    <3>3. ~(\E q \in Requests : SendAbort(q))
      BY <2>1, <3>1 DEF Considerate, SendAbort
    <3>4. CASE Held(r)
      <4>1. PICK e \in Engines : r \in waiting[e]
        BY <3>4 DEF Held
      <4>2. status'[r] = "sent" /\ r \in waiting'[e]
        BY <2>1, <3>3, <3>4, <4>1, KeptWhileStill DEF Held
      <4> QED BY <3>1, <4>2 DEF Held
    <3>5. CASE phase = "paused" /\ Coming(r)
      <4>1. Held(r)' \/ Coming(r)'
        BY <1>4, <3>3, <3>5, ComingStays
      <4> QED BY <1>4, <3>1, <3>5, <4>1
    <3> QED BY <3>2, <3>4, <3>5
  <2>5. CASE ~Announced /\ ~Waking
    BY <2>1, <2>2, <2>3, <2>5, CauseArises
  <2> QED BY <2>4, <2>5
<1>5. UNCHANGED phase \/ Resume \/ \E e \in Engines : AnswerPause(e)
  BY PhaseStep, EndResumeWhen DEF Pause, Call
<1> QED BY <1>2, <1>3, <1>4, <1>5

-----------------------------------------------------------------------------
(* The invariant *)

LEMMA InitWake == Init => WakeInv
<1> SUFFICES ASSUME Init PROVE WakeInv
  OBVIOUS
<1>1. /\ at = [e \in Engines |-> "loop"]
      /\ running = [e \in Engines |-> FALSE]
      /\ pauseState = [e \in Engines |-> "UNPAUSED"]
      /\ ignoring = [e \in Engines |-> FALSE]
      /\ waiting = [e \in Engines |-> {}]
      /\ admitted = [e \in Engines |-> {}]
      /\ coord = [wave |-> 0, running |-> FALSE]
      /\ front = [f \in Fronts |-> [wave |-> 0, running |-> FALSE]]
      /\ phase = "running"
  BY DEF Init
<1>2. /\ \A f \in Fronts, e \in Engines : Under(inputs[f][e]) = {}
      /\ \A e \in Engines : Under(starts[e]) = {} /\ Under(notices[e]) = {}
      /\ \A f \in Fronts : Under(stats[f]) = {}
  BY UnderEmpty DEF Init
<1>3. AbortsWanted /\ StartsAnnounced /\ AskersRun /\ AddsAnnounced /\ Beliefs
  BY <1>1, <1>2 DEF AbortsWanted, StartsAnnounced, AskersRun, Asking, AddsAnnounced, Beliefs
<1>4. Obedient
  BY <1>1 DEF Obedient
<1>5. Woken
  BY <1>1 DEF Woken, Announced, HasWork, HasUnfinished, Unfinished
<1>6. WaveOver /\ WorkHeld
  BY <1>1 DEF WaveOver, WorkHeld
<1> QED BY <1>3, <1>4, <1>5, <1>6 DEF WakeInv

LEMMA WakeNext ==
  ASSUME Considerate, TypeOK, TypeOK', HomesKnown, WavesInv, WavesInv', PauseInv, PauseInv',
         WakeInv, [Next]_vars
  PROVE  WakeInv'
<1>1. /\ AbortsWanted /\ StartsAnnounced /\ AskersRun /\ AddsAnnounced /\ Beliefs
      /\ Obedient /\ Woken /\ WaveOver /\ WorkHeld
  BY DEF WakeInv
<1>2. AbortsWanted' /\ StartsAnnounced' /\ AskersRun' /\ AddsAnnounced' /\ Beliefs'
  BY <1>1, AbortsWantedNext, StartsAnnouncedNext, AskersRunNext, AddsAnnouncedNext, BeliefsNext
<1>3. Obedient'
  BY <1>1, ObedientNext
<1>4. Woken'
  BY <1>1, <1>3, WokenNext
<1>5. WaveOver' /\ WorkHeld'
  BY <1>1, WaveOverNext, WorkHeldNext
<1> QED BY <1>2, <1>3, <1>4, <1>5 DEF WakeInv

\* When nothing is under way, an engine that works is enough for all to have work.
LEMMA WakeInvImplies ==
  ASSUME TypeOK, PauseInv, LockInv, WakeInv
  PROVE  NobodyWaitsInVain
<1> SUFFICES ASSUME Quiet, NEW e \in Engines, NEW d \in Engines, at[e] # "loop"
             PROVE  at[d] = at[e] \/ (at[e] = "forward" /\ HasWork(d))
  BY DEF NobodyWaitsInVain
<1>1. /\ \A c \in Engines : Under(starts[c]) = {} /\ Under(notices[c]) = {}
      /\ ~Waking
  BY UnderEmpty DEF Quiet, Waking
<1>2. \A c \in Engines, t \in CallTypes : ~OneCall(inputs[Pauser][c], t)
  <2>1. Pauser \in Fronts
    BY DataParallelAssumption
  <2>2. \A c \in Engines : inputs[Pauser][c] = <<>>
    BY <2>1 DEF Quiet
  <2> QED BY <2>2 DEF OneCall
<1>3. CallTypes = {"PAUSE", "RESUME"}
  BY DEF CallTypes
<1>4. at[e] \in {"forward", "sync", "resume"}
  BY DEF TypeOK, EngineTypes
<1>5. CASE at[e] = "sync"
  BY <1>5 DEF LockInv
<1>6. CASE phase = "running" /\ at[e] # "sync"
  <2>1. at[e] = "forward"
    BY <1>4, <1>6 DEF PauseInv, Idle
  <2>2. WillRun(d)
    BY <1>6, <2>1 DEF WakeInv, Woken
  <2>3. ~Called(d) /\ \A c \in Engines : ~Asking(c)
    BY <1>1 DEF Called, Asking
  <2>4. running[d]
    BY <1>1, <2>2, <2>3 DEF WillRun
  <2> QED BY <2>1, <2>4 DEF HasWork
<1>7. CASE phase = "pausing" /\ at[e] # "sync"
  <2>1. \/ \A c \in Engines : Asked(c)
        \/ AfterConsensus
    BY <1>2, <1>3, <1>7 DEF PauseInv, BeforeConsensus, Uncalled
  <2>2. running[d] /\ at[e] # "resume"
    BY <2>1 DEF Asked, AfterConsensus, Agreed, Stopped
  <2> QED BY <1>4, <1>7, <2>2 DEF HasWork
<1>8. CASE phase = "paused"
  BY <1>8 DEF PauseInv, Stopped
<1>9. CASE phase = "resuming" /\ at[e] # "sync"
  <2>1. \A c \in Engines : at[c] = "resume"
    BY <1>2, <1>3, <1>9 DEF PauseInv, Unresumed, Resumed
  <2> QED BY <2>1
<1> QED BY <1>5, <1>6, <1>7, <1>8, <1>9 DEF TypeOK, ClientTypes

\* For clients that call when nothing is under way, that send nothing while the engines
\* stop or resume, and that do not abort what they have sent to standing engines,
\* nobody is left alone in a collective operation.
THEOREM NobodyIsLeftWaiting ==
  ASSUME Considerate
  PROVE  Spec => []NobodyWaitsInVain
<1> DEFINE Inv == TypeOK /\ HomesKnown /\ WavesInv /\ PauseInv /\ LockInv /\ WakeInv
<1>1. Init => Inv
  BY InitTypes, InitHomes, InitWaves, InitPause, InitLock, InitWake
<1>2. ASSUME Inv, [Next]_vars
      PROVE  Inv'
  <2>1. TypeOK' /\ HomesKnown'
    BY <1>2, TypesNext
  <2>2. WavesInv'
    BY <1>2, <2>1, WavesNext
  <2>3. PauseInv' /\ LockInv'
    BY <1>2, PauseNext, LockNext
  <2>4. WakeInv'
    BY <1>2, <2>1, <2>2, <2>3, WakeNext
  <2> QED BY <2>1, <2>2, <2>3, <2>4
<1>3. Inv => NobodyWaitsInVain
  BY WakeInvImplies
<1> QED BY <1>1, <1>2, <1>3, PTL DEF Spec

=============================================================================
