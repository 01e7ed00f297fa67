------------------------- MODULE SantiServiceProofs -------------------------
(***************************************************************************)
(* The service uses the store as StoreSpec allows, whatever turns run at   *)
(* once, whatever store calls fail and wherever the process dies; so every *)
(* theorem about the store holds of the service.                           *)
(*                                                                         *)
(* A store method is called with ids earlier calls returned.  Placed says, *)
(* for each point of a task, what those earlier calls left in the tables;  *)
(* it survives the other tasks because the tables only grow (HistoryStep). *)
(***************************************************************************)
EXTENDS SantiService, SantiStoreProofs, SequenceTheorems

HasRow(m) == \E row \in r_session_messages : row.message = m

\* The task has a turn in the table.
Owner == {"snapshot"} \cup Provider \cup Replying \cup Failing

\* The number is that of a message of the session the soul's log holds.
SeenAt(s, seq) ==
    \E row \in r_session_messages :
        row.session = s /\ row.seq = seq /\ InSoulLog(s, row.message)

Placed(t) ==
    /\ pc[t] \in {"acquire", "ref", "start"} => HasRow(User(t))
    /\ pc[t] \in Owner => t \in DOMAIN turns
    /\ pc[t] \in {"replyRef", "complete"} => InSession(Session(t), Reply(t))
    /\ pc[t] = "complete" => InSoulLog(Session(t), Reply(t))
    /\ pc[t] = "partialRef" => InSession(Session(t), Partial(t))
    /\ pc[t] = "systemRef" => InSession(Session(t), System(t))
    /\ lastSeen[t] # 0 => t \in DOMAIN turns /\ SeenAt(Session(t), lastSeen[t])
    /\ pc[t] \in {"tools", "result"} => calls[t] # <<>>

AllPlaced == \A t \in Turns : Placed(t)

ServiceInv == StoreInv /\ LocalTypeOK /\ AllPlaced

-----------------------------------------------------------------------------
(***************************************************************************)
(* The refinement step                                                     *)
(***************************************************************************)
\* A message has one row, so SeqOf and SessionOf are that row's columns.
LEMMA RowOfMessage ==
    ASSUME SessionLogDense, NEW row \in r_session_messages
    PROVE  SeqOf(row.message) = row.seq /\ SessionOf(row.message) = row.session
<1> DEFINE r == CHOOSE x \in r_session_messages : x.message = row.message
<1>1. r \in r_session_messages /\ r.message = row.message
  OBVIOUS
<1>2. r = row
  BY <1>1 DEF SessionLogDense
<1> QED
  BY <1>2 DEF SeqOf, SessionOf

LEMMA RowOfHas ==
    ASSUME SessionLogDense, NEW m, HasRow(m)
    PROVE  \E row \in r_session_messages :
               row.session = SessionOf(m) /\ row.message = m /\ row.seq = SeqOf(m)
<1>1. PICK row \in r_session_messages : row.message = m
  BY DEF HasRow
<1> QED
  BY <1>1, RowOfMessage

LEMMA RowInSession ==
    ASSUME SessionLogDense, NEW s, NEW m, InSession(s, m)
    PROVE  \E row \in r_session_messages :
               row.session = s /\ row.message = m /\ row.seq = SeqOf(m)
<1>1. PICK row \in r_session_messages : row.session = s /\ row.message = m
  BY DEF InSession
<1> QED
  BY <1>1, RowOfMessage

\* A store method called with what earlier calls returned is a step of the
\* store.
LEMMA AcquireIsStep ==
    ASSUME StoreTypeOK, NEW s, AcquireSoulSession(s)
    PROVE  StoreNext
<1>1. s \in Sessions
  BY DEF StoreTypeOK, AcquireSoulSession
<1> QED
  BY <1>1 DEF StoreNext, SessionStep

LEMMA AppendIsStep ==
    ASSUME StoreTypeOK, NEW s, NEW m \in Messages, NEW actor \in Actors,
           NEW state \in MessageStates, state = "aborted" => actor = "soul",
           AppendMessage(s, m, actor, state)
    PROVE  StoreNext
<1>1. s \in Sessions
  BY DEF StoreTypeOK, AppendMessage
<1> DEFINE row == [actor |-> actor, state |-> state]
<1>2. row \in AppendedRows /\ AppendMessage(s, m, row.actor, row.state)
  BY DEF AppendedRows, MessageRow
<1> HIDE DEF row
<1> QED
  BY <1>1, <1>2 DEF StoreNext, MessageStep

LEMMA RefIsStep ==
    ASSUME StoreTypeOK, NEW s, NEW m \in Messages, InSession(s, m), AppendMessageRef(s, m)
    PROVE  StoreNext
<1>1. s \in Sessions
  BY DEF StoreTypeOK, AppendMessageRef, AppendEntry
<1> QED
  BY <1>1 DEF StoreNext, MessageStep

LEMMA StartIsStep ==
    ASSUME SessionLogDense, NEW t \in Turns, NEW m, HasRow(m),
           StartTurn(t, SessionOf(m), m, SeqOf(m))
    PROVE  StoreNext
<1>1. PICK row \in r_session_messages :
          row.session = SessionOf(m) /\ row.message = m /\ row.seq = SeqOf(m)
  BY RowOfHas
<1>2. StartTurn(t, row.session, row.message, row.seq)
  BY <1>1
<1> QED
  BY <1>2 DEF StoreNext, TurnStep

LEMMA TurnUpdateIsStep ==
    ASSUME NEW t \in Turns,
           CompleteTurnFirstUpdate(t) \/ FailTurn(t) \/ FinishFailedTurnFirstUpdate(t)
    PROVE  StoreNext
  BY DEF StoreNext, TurnStep

LEMMA TurnEndIsStep ==
    ASSUME NEW t \in Turns, t \in DOMAIN turns, NEW seq, SeenAt(Session(t), seq),
           CompleteTurn(t, seq) \/ FinishFailedTurnContext(t, seq)
    PROVE  StoreNext
<1>1. PICK row \in r_session_messages :
          row.session = turns[t].session /\ row.seq = seq /\ InSoulLog(row.session, row.message)
  BY DEF SeenAt, Session
<1>2. CompleteTurn(t, row.seq) \/ FinishFailedTurnContext(t, row.seq)
  BY <1>1
<1> QED
  BY <1>1, <1>2 DEF StoreNext, TurnStep

LEMMA SpanIsStep ==
    ASSUME StoreTypeOK, NEW sp,
           \/ sp \in Spans /\ \E t \in Turns : AppendThinkingSpan(sp, t)
           \/ UpdateThinkingSpanSummary(sp)
           \/ \E state \in {"completed", "failed"} : FinishThinkingSpan(sp, state)
    PROVE  StoreNext
<1>1. sp \in Spans
  BY DEF StoreTypeOK, UpdateThinkingSpanSummary, FinishThinkingSpan
<1> QED
  BY <1>1 DEF StoreNext, RuntimeStep

LEMMA CallIsStep ==
    ASSUME StoreTypeOK, NEW c,
           \/ c \in Calls /\ \E t \in Turns : AppendToolCall(c, t)
           \/ \E outcome \in {"output", "error"} : AppendToolResult(c, outcome)
    PROVE  StoreNext
<1>1. c \in Calls
  BY DEF StoreTypeOK, AppendToolResult
<1> QED
  BY <1>1 DEF StoreNext, RuntimeStep

LEMMA StreamUsesStore ==
    ASSUME StoreTypeOK, NEW t \in Turns, StreamEvent(t)
    PROVE  [StoreNext]_storeVars
<1>1. ASSUME NEW state \in {"completed", "failed"}, CloseSpan(t, state)
      PROVE  [StoreNext]_storeVars
  BY <1>1, SpanIsStep DEF CloseSpan
<1>2. CASE ResponseStarted(t)
  BY <1>2, SpanIsStep DEF ResponseStarted, EnsureThinkingSpan
<1>3. CASE ReasoningSummary(t)
  BY <1>3, SpanIsStep DEF ReasoningSummary
<1>4. CASE \E delta \in Texts : TextDelta(t, delta)
  BY <1>1, <1>4 DEF TextDelta
<1>5. CASE \E c \in Calls : FunctionCallRequested(t, c)
  BY <1>1, <1>5 DEF FunctionCallRequested
<1>6. CASE Completed(t) \/ StreamFailed(t)
  BY <1>1, <1>6 DEF Completed, StreamFailed
<1>7. CASE EndOfStream(t)
  BY <1>7 DEF EndOfStream
<1>8. CASE StreamStoreError(t)
  BY <1>8, SpanIsStep DEF StreamStoreError
<1> QED
  BY <1>2, <1>3, <1>4, <1>5, <1>6, <1>7, <1>8 DEF StreamEvent

LEMMA ProviderUsesStore ==
    ASSUME StoreTypeOK, LocalTypeOK, NEW t \in Turns, Placed(t), ProviderTask(t)
    PROVE  [StoreNext]_storeVars
<1>1. CASE Request(t)
  BY <1>1 DEF Request
<1>2. CASE StartToolCall(t)
  <2>1. calls[t] \in Seq(Calls) /\ calls[t] # <<>>
    BY <1>2 DEF LocalTypeOK, Placed, StartToolCall
  <2>2. Head(calls[t]) \in Calls
    BY <2>1
  <2> QED
    BY <1>2, <2>2, CallIsStep DEF StartToolCall
<1>3. CASE FinishToolCall(t)
  BY <1>3, CallIsStep DEF FinishToolCall
<1> QED
  BY <1>1, <1>2, <1>3 DEF ProviderTask

LEMMA MessageIds ==
    ASSUME NEW t \in Turns
    PROVE  /\ User(t) \in Messages /\ Reply(t) \in Messages
           /\ Partial(t) \in Messages /\ System(t) \in Messages
  BY IdsAssumption DEF User, Reply, Partial, System

LEMMA SendUsesStore ==
    ASSUME StoreInv, NEW t \in Turns, Placed(t),
           SendTask(t) \/ RefuseSend(t) \/ \E s \in Sessions : Send(t, s)
    PROVE  [StoreNext]_storeVars
<1> StoreTypeOK /\ SessionLogDense
  BY DEF StoreInv
<1>1. CASE RefuseSend(t)
  BY <1>1 DEF RefuseSend
<1>2. ASSUME NEW s \in Sessions, Send(t, s) PROVE [StoreNext]_storeVars
  BY <1>2, MessageIds, AppendIsStep DEF Send, Actors, MessageStates
<1>3. CASE AcquireForSend(t)
  BY <1>3, AcquireIsStep DEF AcquireForSend
<1>4. CASE RefUserMessage(t)
  <2>1. InSession(SessionOf(User(t)), User(t))
    BY <1>4, RowOfHas DEF RefUserMessage, Placed, InSession
  <2> QED
    BY <1>4, <2>1, MessageIds, RefIsStep DEF RefUserMessage
<1>5. CASE StartTurnForSend(t)
  BY <1>5, StartIsStep DEF StartTurnForSend, Placed
<1>6. CASE SpawnTurn(t)
  BY <1>6 DEF SpawnTurn
<1> QED
  BY <1>1, <1>2, <1>3, <1>4, <1>5, <1>6 DEF SendTask

\* What complete_turn and finish_failed_turn_context are given.
LEMMA ReplySeen ==
    ASSUME SessionLogDense, NEW t, Placed(t), pc[t] = "complete"
    PROVE  t \in DOMAIN turns /\ SeenAt(Session(t), SeqOf(Reply(t)))
<1>1. InSession(Session(t), Reply(t)) /\ InSoulLog(Session(t), Reply(t))
  BY DEF Placed
<1> QED
  BY <1>1, RowInSession DEF SeenAt, Placed, Owner, Replying

LEMMA EndUsesStore ==
    ASSUME StoreInv, NEW t \in Turns, Placed(t), EndTask(t)
    PROVE  [StoreNext]_storeVars
<1> StoreTypeOK /\ SessionLogDense
  BY DEF StoreInv
<1>1. CASE RefuseEmptyReply(t)
  BY <1>1 DEF RefuseEmptyReply
<1>2. CASE AppendReply(t)
  BY <1>2, MessageIds, AppendIsStep DEF AppendReply, Actors, MessageStates
<1>3. CASE RefReply(t)
  BY <1>3, MessageIds, RefIsStep DEF RefReply, Placed
<1>4. CASE Complete(t)
  BY <1>4, ReplySeen, TurnEndIsStep, TurnUpdateIsStep DEF Complete
<1>5. CASE Fail(t)
  BY <1>5, TurnUpdateIsStep DEF Fail
<1>6. CASE AppendPartial(t)
  BY <1>6, MessageIds, AppendIsStep DEF AppendPartial, Actors, MessageStates
<1>7. CASE RefPartial(t)
  BY <1>7, MessageIds, RefIsStep DEF RefPartial, RefFailureMessage, Placed
<1>8. CASE AppendSystem(t)
  BY <1>8, MessageIds, AppendIsStep DEF AppendSystem, Actors, MessageStates
<1>9. CASE RefSystem(t)
  BY <1>9, MessageIds, RefIsStep DEF RefSystem, RefFailureMessage, Placed
<1>10. CASE FinishFailure(t)
  BY <1>10, TurnEndIsStep, TurnUpdateIsStep DEF FinishFailure, Placed
<1> QED
  BY <1>1, <1>2, <1>3, <1>4, <1>5, <1>6, <1>7, <1>8, <1>9, <1>10 DEF EndTask

LEMMA SessionCallUsesStore ==
    ASSUME StoreTypeOK, SessionCall
    PROVE  [StoreNext]_storeVars
  BY AcquireIsStep DEF SessionCall, StoreNext, SessionStep

LEMMA CrashUsesStore ==
    ASSUME CrashAndRestart
    PROVE  [StoreNext]_storeVars
  BY TurnUpdateIsStep DEF CrashAndRestart

\* Every step of the service is a step of the store or leaves it alone.
LEMMA NextUsesStore ==
    ASSUME ServiceInv, [Next]_vars
    PROVE  [StoreNext]_storeVars
<1> StoreInv /\ StoreTypeOK /\ LocalTypeOK /\ \A t \in Turns : Placed(t)
  BY DEF ServiceInv, StoreInv, AllPlaced
<1>1. CASE UNCHANGED vars
  BY <1>1 DEF vars, storeVars
<1>2. CASE SessionCall
  BY <1>2, SessionCallUsesStore
<1>3. CASE CrashAndRestart
  BY <1>3, CrashUsesStore
<1>4. ASSUME NEW t \in Turns,
             \/ RefuseSend(t)
             \/ \E s \in Sessions : Send(t, s)
             \/ StreamEvent(t)
             \/ Task(t)
      PROVE  [StoreNext]_storeVars
  BY <1>4, SendUsesStore, StreamUsesStore, ProviderUsesStore, EndUsesStore DEF Task
<1> QED
  BY <1>1, <1>2, <1>3, <1>4 DEF Next

-----------------------------------------------------------------------------
(***************************************************************************)
(* The types of the tasks' locals                                          *)
(***************************************************************************)
LEMMA FaultTyped ==
    ASSUME LocalTypeOK, StoreFault \/ UNCHANGED faults
    PROVE  faults' \in 0 .. MaxFaults
  BY BoundsAssumption DEF LocalTypeOK, StoreFault

LEMMA HearTyped ==
    ASSUME LocalTypeOK, NEW t \in Turns, NEW event \in {"thinking", "text", "call"},
           Hear(t, event)
    PROVE  /\ heard' \in [Turns -> 0 .. MaxEvents]
           /\ latest' \in [Turns -> {"none", "thinking", "text", "call"}]
<1>1. heard[t] + 1 \in 0 .. MaxEvents
  BY BoundsAssumption DEF LocalTypeOK, Hear
<1> QED
  BY <1>1 DEF LocalTypeOK, Hear

LEMMA StreamTyped ==
    ASSUME LocalTypeOK, StoreTypeOK, NEW t \in Turns, StreamEvent(t),
           UNCHANGED <<lastSeen, crashes>>
    PROVE  LocalTypeOK'
<1> USE DEF Live, Stopped, Sending, Provider, Replying, Failing, Texts, Activities
<1>1. CASE ResponseStarted(t)
  BY <1>1, HearTyped DEF LocalTypeOK, ResponseStarted, EnsureThinkingSpan
<1>2. CASE ReasoningSummary(t)
  BY <1>2, HearTyped DEF LocalTypeOK, ReasoningSummary
<1>3. ASSUME NEW delta \in Texts, TextDelta(t, delta) PROVE LocalTypeOK'
  BY <1>3, HearTyped DEF LocalTypeOK, TextDelta, CloseSpan
<1>4. ASSUME NEW c \in Calls, FunctionCallRequested(t, c) PROVE LocalTypeOK'
  BY <1>4, HearTyped DEF LocalTypeOK, FunctionCallRequested, CloseSpan
<1>5. CASE Completed(t)
  BY <1>5 DEF LocalTypeOK, Completed, CloseSpan, AfterStream
<1>6. CASE EndOfStream(t)
  BY <1>6 DEF LocalTypeOK, EndOfStream, AfterStream
<1>7. CASE StreamFailed(t)
  BY <1>7 DEF LocalTypeOK, StreamFailed, CloseSpan, FailWith
<1>8. CASE StreamStoreError(t)
  BY <1>8, FaultTyped DEF LocalTypeOK, StreamStoreError, FailWith
<1> QED
  BY <1>1, <1>2, <1>3, <1>4, <1>5, <1>6, <1>7, <1>8 DEF StreamEvent

LEMMA TailTyped ==
    ASSUME NEW S, NEW q \in Seq(S), q # <<>>
    PROVE  Tail(q) \in Seq(S)
  OBVIOUS

LEMMA ProviderTyped ==
    ASSUME LocalTypeOK, NEW t \in Turns, Placed(t), ProviderTask(t),
           UNCHANGED <<lastSeen, crashes>>
    PROVE  LocalTypeOK'
<1> USE DEF Live, Stopped, Sending, Provider, Replying, Failing, Texts, Activities
<1>1. CASE Request(t)
  <2>1. round' \in [Turns -> Nat] /\ faults' \in 0 .. MaxFaults
    BY <1>1, FaultTyped DEF LocalTypeOK, Request
  <2>2. /\ pc' \in [Turns -> Live \cup Stopped]
        /\ text' \in [Turns -> Texts]
        /\ activity' \in [Turns -> Activities]
    BY <1>1 DEF LocalTypeOK, Request, FailWith
  <2> QED
    BY <1>1, <2>1, <2>2 DEF LocalTypeOK, Request
<1>2. CASE StartToolCall(t)
  BY <1>2, FaultTyped DEF LocalTypeOK, StartToolCall, FailWith
<1>3. CASE FinishToolCall(t)
  <2>1. Tail(calls[t]) \in Seq(Calls)
    BY <1>3, TailTyped DEF LocalTypeOK, FinishToolCall, Placed
  <2>2. calls' \in [Turns -> Seq(Calls)]
    BY <1>3, <2>1 DEF LocalTypeOK, FinishToolCall
  <2> QED
    BY <1>3, <2>2, FaultTyped DEF LocalTypeOK, FinishToolCall, FailWith
<1> QED
  BY <1>1, <1>2, <1>3 DEF ProviderTask

LEMMA SendTyped ==
    ASSUME LocalTypeOK, NEW t \in Turns,
           SendTask(t) \/ RefuseSend(t) \/ \E s \in Sessions : Send(t, s)
    PROVE  LocalTypeOK'
<1> USE DEF Live, Stopped, Sending, Provider, Replying, Failing, unchangedTurn, roundVars, Goto
<1>1. CASE RefuseSend(t)
  BY <1>1 DEF LocalTypeOK, RefuseSend
<1>2. ASSUME NEW s \in Sessions, Send(t, s) PROVE LocalTypeOK'
  BY <1>2, FaultTyped DEF LocalTypeOK, Send
<1>3. CASE AcquireForSend(t)
  BY <1>3, FaultTyped DEF LocalTypeOK, AcquireForSend
<1>4. CASE RefUserMessage(t)
  BY <1>4, FaultTyped DEF LocalTypeOK, RefUserMessage
<1>5. CASE StartTurnForSend(t)
  BY <1>5, FaultTyped DEF LocalTypeOK, StartTurnForSend
<1>6. CASE SpawnTurn(t)
  BY <1>6, FaultTyped DEF LocalTypeOK, SpawnTurn
<1> QED
  BY <1>1, <1>2, <1>3, <1>4, <1>5, <1>6 DEF SendTask

LEMMA EndTyped ==
    ASSUME StoreInv, LocalTypeOK, NEW t \in Turns, Placed(t), EndTask(t)
    PROVE  LocalTypeOK'
<1> USE DEF Live, Stopped, Sending, Provider, Replying, Failing, Texts,
            unchangedTurn, roundVars, Goto
<1>0. \A m : InSession(Session(t), m) => SeqOf(m) \in Nat
  <2>1. SessionLogDense /\ \A row \in r_session_messages : row.seq \in Nat
    BY DEF StoreInv, StoreTypeOK
  <2> QED
    BY <2>1, RowInSession
<1>1. CASE RefuseEmptyReply(t)
  BY <1>1 DEF LocalTypeOK, RefuseEmptyReply, FailWith
<1>2. CASE AppendReply(t)
  BY <1>2, FaultTyped DEF LocalTypeOK, AppendReply, FailWith
<1>3. CASE RefReply(t)
  BY <1>3, FaultTyped DEF LocalTypeOK, RefReply, FailWith
<1>4. CASE Complete(t)
  BY <1>4, FaultTyped DEF LocalTypeOK, Complete, FailWith
<1>5. CASE Fail(t)
  BY <1>5, FaultTyped DEF LocalTypeOK, Fail
<1>6. CASE AppendPartial(t)
  BY <1>6, FaultTyped DEF LocalTypeOK, AppendPartial
<1>7. CASE RefPartial(t)
  <2>1. SeqOf(Partial(t)) \in Nat
    BY <1>0, <1>7 DEF RefPartial, Placed
  <2>2. lastSeen' \in [Turns -> Nat] /\ faults' \in 0 .. MaxFaults
    BY <1>7, <2>1, FaultTyped DEF LocalTypeOK, RefPartial, RefFailureMessage
  <2> QED
    BY <1>7, <2>2 DEF LocalTypeOK, RefPartial, RefFailureMessage
<1>8. CASE AppendSystem(t)
  BY <1>8, FaultTyped DEF LocalTypeOK, AppendSystem
<1>9. CASE RefSystem(t)
  <2>1. SeqOf(System(t)) \in Nat
    BY <1>0, <1>9 DEF RefSystem, Placed
  <2>2. lastSeen' \in [Turns -> Nat] /\ faults' \in 0 .. MaxFaults
    BY <1>9, <2>1, FaultTyped DEF LocalTypeOK, RefSystem, RefFailureMessage
  <2> QED
    BY <1>9, <2>2 DEF LocalTypeOK, RefSystem, RefFailureMessage
<1>10. CASE FinishFailure(t)
  BY <1>10, FaultTyped DEF LocalTypeOK, FinishFailure
<1> QED
  BY <1>1, <1>2, <1>3, <1>4, <1>5, <1>6, <1>7, <1>8, <1>9, <1>10 DEF EndTask

LEMMA LocalTypeStep ==
    ASSUME ServiceInv, [Next]_vars
    PROVE  LocalTypeOK'
<1> StoreInv /\ StoreTypeOK /\ LocalTypeOK /\ \A t \in Turns : Placed(t)
  BY DEF ServiceInv, StoreInv, AllPlaced
<1>1. CASE UNCHANGED vars
  BY <1>1 DEF vars, turnVars, LocalTypeOK
<1>2. CASE SessionCall
  BY <1>2 DEF SessionCall, turnVars, LocalTypeOK
<1>3. CASE CrashAndRestart
  BY <1>3, BoundsAssumption
     DEF CrashAndRestart, roundVars, LocalTypeOK, Live, Stopped
<1>4. ASSUME NEW t \in Turns,
             \/ RefuseSend(t)
             \/ \E s \in Sessions : Send(t, s)
             \/ StreamEvent(t) /\ UNCHANGED <<lastSeen, crashes>>
             \/ Task(t)
      PROVE  LocalTypeOK'
  BY <1>4, SendTyped, StreamTyped, ProviderTyped, EndTyped DEF Task
<1> QED
  BY <1>1, <1>2, <1>3, <1>4 DEF Next

-----------------------------------------------------------------------------
(***************************************************************************)
(* What earlier calls left stays there                                     *)
(***************************************************************************)
\* A task that did not move, or died, is still placed.
LEMMA PlacedKept ==
    ASSUME LogExtended, TurnsKept, NEW u, Placed(u), pc'[u] \in {pc[u], "dead"},
           lastSeen'[u] = lastSeen[u], calls'[u] = calls[u]
    PROVE  Placed(u)'
<1> USE DEF Owner, Provider, Replying, Failing
<1>1. u \in DOMAIN turns => u \in DOMAIN turns' /\ turns'[u].session = turns[u].session
  BY DEF TurnsKept
<1>2. pc'[u] \in {"acquire", "ref", "start"} => HasRow(User(u))'
  BY DEF Placed, HasRow, LogExtended, User
<1>3. pc'[u] \in {"replyRef", "complete"} => InSession(Session(u), Reply(u))'
  BY <1>1 DEF Placed, InSession, LogExtended, Session, Reply
<1>4. pc'[u] = "complete" => InSoulLog(Session(u), Reply(u))'
  BY <1>1 DEF Placed, InSoulLog, LogExtended, Session, Reply
<1>5. pc'[u] = "partialRef" => InSession(Session(u), Partial(u))'
  BY <1>1 DEF Placed, InSession, LogExtended, Session, Partial
<1>6. pc'[u] = "systemRef" => InSession(Session(u), System(u))'
  BY <1>1 DEF Placed, InSession, LogExtended, Session, System
<1>7. (lastSeen[u] # 0 => u \in DOMAIN turns /\ SeenAt(Session(u), lastSeen[u]))'
  BY <1>1 DEF Placed, SeenAt, InSoulLog, LogExtended, Session
<1> QED
  BY <1>1, <1>2, <1>3, <1>4, <1>5, <1>6, <1>7 DEF Placed

\* A task that moved to a point that asks for no message and no call.
LEMMA PlacedPlainly ==
    ASSUME LogExtended, TurnsKept, NEW t, Placed(t), lastSeen'[t] = lastSeen[t],
           pc'[t] \in {"rejected", "done", "snapshot", "request", "stream", "reply",
                       "fail", "partial", "system", "context"},
           pc'[t] \in Owner => t \in DOMAIN turns'
    PROVE  Placed(t)'
<1>1. t \in DOMAIN turns => t \in DOMAIN turns' /\ turns'[t].session = turns[t].session
  BY DEF TurnsKept
<1>2. (lastSeen[t] # 0 => t \in DOMAIN turns /\ SeenAt(Session(t), lastSeen[t]))'
  BY <1>1 DEF Placed, SeenAt, InSoulLog, LogExtended, Session
<1> QED
  BY <1>2 DEF Placed

LEMMA AppendedIsThere ==
    ASSUME NEW s, NEW m, NEW actor, NEW state, AppendMessage(s, m, actor, state)
    PROVE  InSession(s, m)' /\ HasRow(m)'
<1>1. [session |-> s, message |-> m, seq |-> NextSessionSeq(s)] \in r_session_messages'
  BY DEF AppendMessage
<1> QED
  BY <1>1 DEF InSession, HasRow

LEMMA RefIsThere ==
    ASSUME NEW s, NEW m, AppendMessageRef(s, m)
    PROVE  InSoulLog(s, m)'
<1>1. [session |-> s, type |-> "message", target |-> m, seq |-> soul_sessions[s].next_seq]
          \in r_soul_session_messages'
  BY DEF AppendMessageRef, AppendEntry
<1> QED
  BY <1>1 DEF InSoulLog

\* Where a step of a send leaves its task.
SendMoved(t) ==
    /\ lastSeen' = lastSeen
    /\ pc'[t] \in {"rejected", "acquire", "ref", "start", "snapshot", "request"}
    /\ pc'[t] \in {"acquire", "ref", "start"} => HasRow(User(t))'
    /\ pc'[t] \in {"snapshot", "request"} => t \in DOMAIN turns'

LEMMA SendPlaced ==
    ASSUME LogExtended, TurnsKept, LocalTypeOK, NEW t \in Turns, Placed(t),
           SendTask(t) \/ RefuseSend(t) \/ \E s \in Sessions : Send(t, s)
    PROVE  Placed(t)'
<1> USE DEF Goto
<1>0. HasRow(User(t)) => HasRow(User(t))'
  BY DEF HasRow, LogExtended, User
<1>1. SendMoved(t)
  <2> USE DEF SendMoved
  <2>1. CASE RefuseSend(t)
    BY <2>1 DEF RefuseSend, LocalTypeOK
  <2>2. ASSUME NEW s \in Sessions, Send(t, s) PROVE SendMoved(t)
    BY <2>2, AppendedIsThere DEF Send, LocalTypeOK
  <2>3. CASE AcquireForSend(t)
    BY <1>0, <2>3 DEF AcquireForSend, LocalTypeOK, Placed
  <2>4. CASE RefUserMessage(t)
    BY <1>0, <2>4 DEF RefUserMessage, LocalTypeOK, Placed
  <2>5. CASE StartTurnForSend(t)
    BY <2>5 DEF StartTurnForSend, StartTurn, Insert, LocalTypeOK
  <2>6. CASE SpawnTurn(t)
    BY <2>6 DEF SpawnTurn, LocalTypeOK, Placed, Owner, TurnsKept
  <2> QED
    BY <2>1, <2>2, <2>3, <2>4, <2>5, <2>6 DEF SendTask
<1>2. CASE pc'[t] \in {"acquire", "ref", "start"}
  <2>1. t \in DOMAIN turns => t \in DOMAIN turns' /\ turns'[t].session = turns[t].session
    BY DEF TurnsKept
  <2>2. (lastSeen[t] # 0 => t \in DOMAIN turns /\ SeenAt(Session(t), lastSeen[t]))'
    BY <1>1, <2>1 DEF SendMoved, Placed, SeenAt, InSoulLog, LogExtended, Session
  <2> QED
    BY <1>1, <1>2, <2>2 DEF SendMoved, Placed, Owner, Provider, Replying, Failing
<1> QED
  BY <1>1, <1>2, PlacedPlainly DEF SendMoved, Owner, Provider, Replying, Failing

\* Where a step of the provider phase leaves its task.
ProviderMoved(t) ==
    /\ lastSeen' = lastSeen
    /\ pc[t] \in Provider
    /\ pc'[t] \in {"request", "stream", "tools", "result", "reply", "fail"}
    /\ pc'[t] \in {"tools", "result"} => calls'[t] # <<>>

LEMMA StreamMoves ==
    ASSUME LocalTypeOK, NEW t \in Turns, StreamEvent(t), UNCHANGED lastSeen
    PROVE  ProviderMoved(t)
<1> USE DEF ProviderMoved, LocalTypeOK, Provider
<1>1. CASE ResponseStarted(t)
  BY <1>1 DEF ResponseStarted, Hear
<1>2. CASE ReasoningSummary(t)
  BY <1>2 DEF ReasoningSummary, Hear
<1>3. ASSUME NEW delta \in Texts, TextDelta(t, delta) PROVE ProviderMoved(t)
  BY <1>3 DEF TextDelta, Hear
<1>4. ASSUME NEW c \in Calls, FunctionCallRequested(t, c) PROVE ProviderMoved(t)
  BY <1>4 DEF FunctionCallRequested, Hear
<1>5. CASE Completed(t)
  BY <1>5 DEF Completed, AfterStream
<1>6. CASE EndOfStream(t)
  BY <1>6 DEF EndOfStream, AfterStream
<1>7. CASE StreamFailed(t)
  BY <1>7 DEF StreamFailed, FailWith
<1>8. CASE StreamStoreError(t)
  BY <1>8 DEF StreamStoreError, FailWith
<1> QED
  BY <1>1, <1>2, <1>3, <1>4, <1>5, <1>6, <1>7, <1>8 DEF StreamEvent

LEMMA ProviderMoves ==
    ASSUME LocalTypeOK, NEW t \in Turns, Placed(t), ProviderTask(t), UNCHANGED lastSeen
    PROVE  ProviderMoved(t)
<1> USE DEF ProviderMoved, LocalTypeOK, Provider
<1>1. CASE Request(t)
  BY <1>1 DEF Request, FailWith
<1>2. CASE StartToolCall(t)
  BY <1>2 DEF StartToolCall, FailWith, Placed
<1>3. CASE FinishToolCall(t)
  BY <1>3 DEF FinishToolCall, FailWith, Placed
<1> QED
  BY <1>1, <1>2, <1>3 DEF ProviderTask

LEMMA ProviderPlaced ==
    ASSUME LogExtended, TurnsKept, NEW t, Placed(t), ProviderMoved(t)
    PROVE  Placed(t)'
<1>1. t \in DOMAIN turns /\ t \in DOMAIN turns' /\ turns'[t].session = turns[t].session
  BY DEF ProviderMoved, Placed, Owner, TurnsKept
<1>2. (lastSeen[t] # 0 => t \in DOMAIN turns /\ SeenAt(Session(t), lastSeen[t]))'
  BY <1>1 DEF ProviderMoved, Placed, SeenAt, InSoulLog, LogExtended, Session
<1> QED
  BY <1>1, <1>2 DEF ProviderMoved, Placed

LEMMA EndPlaced ==
    ASSUME StoreInv, LogExtended, TurnsKept, LocalTypeOK, NEW t \in Turns, Placed(t),
           EndTask(t)
    PROVE  Placed(t)'
<1> USE DEF Goto, FailWith
<1> DEFINE Same == lastSeen' = lastSeen
           Plain == {"fail", "partial", "system", "context", "done"}
<1>0. SessionLogDense
  BY DEF StoreInv
<1>1. t \in DOMAIN turns /\ t \in DOMAIN turns' /\ turns'[t].session = turns[t].session
  BY DEF EndTask, RefuseEmptyReply, AppendReply, RefReply, Complete, Fail, AppendPartial,
         RefPartial, AppendSystem, RefSystem, FinishFailure, Placed, Owner, Replying, Failing,
         TurnsKept
<1>2. ASSUME Same
      PROVE  (lastSeen[t] # 0 => t \in DOMAIN turns /\ SeenAt(Session(t), lastSeen[t]))'
  BY <1>1, <1>2 DEF Placed, SeenAt, InSoulLog, LogExtended, Session
<1>3. CASE Same /\ pc'[t] \in Plain
  BY <1>1, <1>3, PlacedPlainly
<1>4. ASSUME Same, NEW m,
             \E row \in r_session_messages' : row.session = turns[t].session /\ row.message = m,
             \/ pc'[t] = "replyRef" /\ m = Reply(t)
             \/ pc'[t] = "partialRef" /\ m = Partial(t)
             \/ pc'[t] = "systemRef" /\ m = System(t)
      PROVE  Placed(t)'
  BY <1>1, <1>2, <1>4 DEF Placed, InSession, Session, Reply, Partial, System
<1>5. CASE RefuseEmptyReply(t) \/ Fail(t) \/ Complete(t) \/ FinishFailure(t)
  BY <1>3, <1>5 DEF RefuseEmptyReply, Fail, Complete, FinishFailure, LocalTypeOK
<1>6. CASE AppendReply(t)
  <2> DEFINE Write == AppendMessage(turns[t].session, Reply(t), "soul", "fixed")
  <2>1. \/ Same /\ pc'[t] \in Plain
        \/ Same /\ pc'[t] = "replyRef" /\ Write
    BY <1>6 DEF AppendReply, LocalTypeOK, Session
  <2>2. ASSUME Write
        PROVE  \E row \in r_session_messages' :
                   row.session = turns[t].session /\ row.message = Reply(t)
    BY <2>2, AppendedIsThere DEF InSession
  <2> QED
    BY <1>3, <1>4, <2>1, <2>2
<1>7. CASE AppendPartial(t)
  <2> DEFINE Write == AppendMessage(turns[t].session, Partial(t), "soul", "aborted")
  <2>1. \/ Same /\ pc'[t] \in Plain
        \/ Same /\ pc'[t] = "partialRef" /\ Write
    BY <1>7 DEF AppendPartial, LocalTypeOK, Session
  <2>2. ASSUME Write
        PROVE  \E row \in r_session_messages' :
                   row.session = turns[t].session /\ row.message = Partial(t)
    BY <2>2, AppendedIsThere DEF InSession
  <2> QED
    BY <1>3, <1>4, <2>1, <2>2
<1>8. CASE AppendSystem(t)
  <2> DEFINE Write == AppendMessage(turns[t].session, System(t), "system", "fixed")
  <2>1. \/ Same /\ pc'[t] \in Plain
        \/ Same /\ pc'[t] = "systemRef" /\ Write
    BY <1>8 DEF AppendSystem, LocalTypeOK, Session
  <2>2. ASSUME Write
        PROVE  \E row \in r_session_messages' :
                   row.session = turns[t].session /\ row.message = System(t)
    BY <2>2, AppendedIsThere DEF InSession
  <2> QED
    BY <1>3, <1>4, <2>1, <2>2
<1>9. CASE RefReply(t)
  <2>1. InSession(turns[t].session, Reply(t))
    BY <1>9 DEF RefReply, Placed, Session
  <2>2. CASE pc'[t] = "complete"
    <3>1. Same /\ AppendMessageRef(turns[t].session, Reply(t))
      BY <1>9, <2>2 DEF RefReply, LocalTypeOK, Session
    <3>2. InSoulLog(turns[t].session, Reply(t))'
      BY <1>1, <3>1, RefIsThere DEF InSoulLog, Reply
    <3>3. InSession(turns[t].session, Reply(t))'
      BY <1>1, <2>1 DEF InSession, LogExtended, Reply
    <3> QED
      BY <1>1, <1>2, <2>2, <3>1, <3>2, <3>3 DEF Placed, Session
  <2>3. CASE Same /\ pc'[t] = "fail"
    BY <1>3, <2>3
  <2> QED
    BY <1>9, <2>2, <2>3 DEF RefReply, LocalTypeOK
<1>10. ASSUME NEW m, InSession(turns[t].session, m), NEW next \in {"system", "context"},
              RefFailureMessage(t, m, next)
       PROVE  Placed(t)'
  <2>1. pc'[t] = next
    BY <1>10 DEF RefFailureMessage, LocalTypeOK
  <2>2. CASE Same
    BY <1>3, <1>10, <2>1, <2>2
  <2>3. CASE lastSeen' = [lastSeen EXCEPT ![t] = SeqOf(m)] /\ AppendMessageRef(Session(t), m)
    <3>1. PICK row \in r_session_messages :
              row.session = turns[t].session /\ row.message = m /\ row.seq = SeqOf(m)
      BY <1>0, <1>10, RowInSession
    <3>2. lastSeen'[t] = row.seq
      BY <2>3, <3>1 DEF LocalTypeOK
    <3>3. InSoulLog(turns[t].session, row.message)'
      BY <1>1, <2>3, <3>1, RefIsThere DEF InSoulLog, Session
    <3>4. SeenAt(Session(t), lastSeen[t])'
      BY <1>1, <3>1, <3>2, <3>3 DEF SeenAt, InSoulLog, LogExtended, Session
    <3> QED
      BY <1>1, <2>1, <3>4 DEF Placed
  <2> QED
    BY <1>10, <2>2, <2>3 DEF RefFailureMessage
<1>11. CASE RefPartial(t)
  BY <1>10, <1>11 DEF RefPartial, Placed, Session
<1>12. CASE RefSystem(t)
  BY <1>10, <1>12 DEF RefSystem, Placed, Session
<1> QED
  BY <1>5, <1>6, <1>7, <1>8, <1>9, <1>11, <1>12 DEF EndTask

\* A step of the task of t leaves the other tasks where they are.
LEMMA OthersKept ==
    ASSUME NEW t \in Turns, NEW u \in Turns \ {t}, LocalTypeOK,
           \/ RefuseSend(t)
           \/ \E s \in Sessions : Send(t, s)
           \/ StreamEvent(t) /\ UNCHANGED <<lastSeen, crashes>>
           \/ Task(t)
    PROVE  pc'[u] = pc[u] /\ lastSeen'[u] = lastSeen[u] /\ calls'[u] = calls[u]
<1> USE DEF LocalTypeOK, unchangedTurn, roundVars, Goto, FailWith
<1>1. CASE StreamEvent(t) /\ UNCHANGED <<lastSeen, crashes>>
  BY <1>1 DEF StreamEvent, ResponseStarted, ReasoningSummary, TextDelta, FunctionCallRequested,
              Completed, EndOfStream, StreamFailed, StreamStoreError, AfterStream
<1>2. CASE ProviderTask(t) /\ UNCHANGED <<lastSeen, crashes>>
  BY <1>2 DEF ProviderTask, Request, StartToolCall, FinishToolCall
<1>3. CASE RefuseSend(t) \/ (\E s \in Sessions : Send(t, s)) \/ SendTask(t)
  BY <1>3 DEF RefuseSend, Send, SendTask, AcquireForSend, RefUserMessage, StartTurnForSend,
              SpawnTurn
<1>4. CASE EndTask(t)
  BY <1>4 DEF EndTask, RefuseEmptyReply, AppendReply, RefReply, Complete, Fail, AppendPartial,
              RefPartial, AppendSystem, RefSystem, RefFailureMessage, FinishFailure
<1> QED
  BY <1>1, <1>2, <1>3, <1>4 DEF Task

LEMMA PlacedStep ==
    ASSUME ServiceInv, [Next]_vars
    PROVE  AllPlaced'
<1> StoreInv /\ StoreTypeOK /\ LocalTypeOK /\ \A t \in Turns : Placed(t)
  BY DEF ServiceInv, StoreInv, AllPlaced
<1>0. LogExtended /\ TurnsKept
  BY NextUsesStore, HistoryStep
<1>1. CASE UNCHANGED <<pc, lastSeen, calls>>
  BY <1>0, <1>1, PlacedKept DEF AllPlaced
<1>2. CASE CrashAndRestart
  <2>1. \A t \in Turns : pc'[t] \in {pc[t], "dead"} /\ lastSeen' = lastSeen /\ calls' = calls
    BY <1>2 DEF CrashAndRestart, roundVars
  <2> QED
    BY <1>0, <2>1, PlacedKept DEF AllPlaced
<1>3. ASSUME NEW t \in Turns,
             \/ RefuseSend(t)
             \/ \E s \in Sessions : Send(t, s)
             \/ StreamEvent(t) /\ UNCHANGED <<lastSeen, crashes>>
             \/ Task(t)
      PROVE  AllPlaced'
  <2>1. Placed(t)'
    BY <1>0, <1>3, SendPlaced, StreamMoves, ProviderMoves, ProviderPlaced, EndPlaced DEF Task
  <2>2. ASSUME NEW u \in Turns \ {t} PROVE Placed(u)'
    BY <1>0, <1>3, OthersKept, PlacedKept
  <2> QED
    BY <2>1, <2>2 DEF AllPlaced
<1> QED
  BY <1>1, <1>2, <1>3 DEF Next, vars, turnVars, SessionCall

LEMMA ServiceInvInit == Init => ServiceInv
<1> SUFFICES ASSUME Init PROVE ServiceInv
  OBVIOUS
<1>1. StoreInv
  BY StoreInvInit DEF Init
<1>2. LocalTypeOK
  BY BoundsAssumption DEF Init, LocalTypeOK, Stopped, Texts, Activities
<1>3. AllPlaced
  BY DEF Init, AllPlaced, Placed, Owner, Provider, Replying, Failing
<1> QED
  BY <1>1, <1>2, <1>3 DEF ServiceInv

LEMMA ServiceInvStep == ServiceInv /\ [Next]_vars => ServiceInv'
<1> SUFFICES ASSUME ServiceInv, [Next]_vars PROVE ServiceInv'
  OBVIOUS
<1>1. StoreInv'
  BY NextUsesStore, StoreInvStep DEF ServiceInv
<1> QED
  BY <1>1, LocalTypeStep, PlacedStep DEF ServiceInv

-----------------------------------------------------------------------------
(***************************************************************************)
(* The theorems                                                            *)
(***************************************************************************)
\* What is true between any two steps of the service: the store's invariant,
\* typed locals, and for every task what its next store call relies on.
THEOREM ServiceInvariant == Spec => []ServiceInv
<1>1. Init => ServiceInv
  BY ServiceInvInit
<1>2. ServiceInv /\ [Next]_vars => ServiceInv'
  BY ServiceInvStep
<1> QED
  BY <1>1, <1>2, PTL DEF Spec

\* The locals of every task and the tables keep their types.
THEOREM ServiceTypeCorrect == Spec => []ServiceTypeOK
<1>1. ServiceInv => ServiceTypeOK
  BY DEF ServiceInv, StoreInv, ServiceTypeOK
<1> QED
  BY <1>1, ServiceInvariant, PTL

\* The service implements the store's contract: whatever sends and turns run
\* interleaved, whatever calls fail and wherever the process dies, the tables
\* change only by store methods called as StoreSpec allows.
THEOREM ServiceUsesStore == Spec => StoreSpec
<1>1. Init => StoreInit
  BY DEF Init
<1>2. ServiceInv /\ [Next]_vars => [StoreNext]_storeVars
  BY NextUsesStore
<1> QED
  BY <1>1, <1>2, ServiceInvariant, PTL DEF Spec, StoreSpec
=============================================================================
