---------------------- MODULE SantiServiceSafetyProofs ----------------------
(***************************************************************************)
(* What the service promises of each turn, whatever the other turns of the *)
(* session do: its trigger is in its input, its reply is in its window,    *)
(* its end is reported once, and nothing but a crash or a store error      *)
(* leaves it running.                                                      *)
(*                                                                         *)
(* A turn has rows, entries and events of its own.  A step of another task *)
(* does not touch them (OthersLeaveOwn), so each promise is examined for   *)
(* the steps of the turn's own task and for a crash.                       *)
(***************************************************************************)
EXTENDS SantiServiceProofs

\* What belongs to turn u in the tables and among the events.
OwnTablesKept(u) ==
    /\ u \in DOMAIN turns' <=> u \in DOMAIN turns
    /\ u \in DOMAIN turns => turns'[u] = turns[u]
    /\ \A m \in Own(u) : m \in DOMAIN messages' => m \in DOMAIN messages
    /\ \A row \in r_session_messages' :
           row.message \in Own(u) => row \in r_session_messages
    /\ \A e \in r_soul_session_messages' :
           e.type = "message" /\ e.target \in Own(u) => e \in r_soul_session_messages

MessagesKept ==
    \A m \in DOMAIN messages : m \in DOMAIN messages' /\ messages'[m] = messages[m]

\* A step of one of the two chains a send and a turn's task are made of.
TaskStep(t) ==
    \/ RefuseSend(t)
    \/ \E s \in Sessions : Send(t, s)
    \/ StreamEvent(t) /\ UNCHANGED <<lastSeen, crashes>>
    \/ Task(t)

\* The step leaves the messages, the message entries and the turns alone.
ChatKept ==
    /\ UNCHANGED <<messages, r_session_messages, turns>>
    /\ \A e \in r_soul_session_messages' :
           e.type = "message" => e \in r_soul_session_messages

\* The store calls a step of the task of t can make.
StoreCall(t) ==
    \/ ChatKept
    \/ \E m \in Own(t) : \E s, actor, state : AppendMessage(s, m, actor, state)
    \/ \E m \in Own(t) : \E s : AppendMessageRef(s, m)
    \/ \E s, m, seq : StartTurn(t, s, m, seq)
    \/ /\ t \in DOMAIN turns
       /\ TurnUpdated(t)
       /\ UNCHANGED <<messages, r_session_messages, r_soul_session_messages>>

-----------------------------------------------------------------------------
(***************************************************************************)
(* A step of another task                                                  *)
(***************************************************************************)
LEMMA OwnApart ==
    ASSUME NEW t, NEW u, u # t
    PROVE  Own(t) \cap Own(u) = {}
  BY DEF Own, User, Reply, Partial, System

LEMMA MessagesStep ==
    ASSUME [StoreNext]_storeVars
    PROVE  MessagesKept
<1>1. SessionEffect
  BY SessionStepEffect
<1> QED
  BY <1>1 DEF SessionEffect, SessionTables, CreateSession, UpdateSessionTitle, AppendMessage,
              Insert, MessagesKept

LEMMA RuntimeIsQuiet ==
    ASSUME \/ \E sp, u : AppendThinkingSpan(sp, u)
           \/ \E sp : UpdateThinkingSpanSummary(sp)
           \/ \E sp, state : FinishThinkingSpan(sp, state)
           \/ \E c, u : AppendToolCall(c, u)
           \/ \E c, outcome : AppendToolResult(c, outcome)
           \/ UNCHANGED storeVars
    PROVE  ChatKept
<1>1. ASSUME NEW s, NEW type, NEW x, type # "message", AppendEntry(s, type, x),
             UNCHANGED <<messages, r_session_messages, turns>>
      PROVE  ChatKept
  BY <1>1 DEF AppendEntry, ChatKept
<1>2. CASE \E sp, u : AppendThinkingSpan(sp, u)
  BY <1>1, <1>2 DEF AppendThinkingSpan
<1>3. CASE \E c, u : AppendToolCall(c, u)
  BY <1>1, <1>3 DEF AppendToolCall
<1>4. CASE \E c, outcome : AppendToolResult(c, outcome)
  BY <1>1, <1>4 DEF AppendToolResult
<1>5. CASE \/ \E sp : UpdateThinkingSpanSummary(sp)
           \/ \E sp, state : FinishThinkingSpan(sp, state)
           \/ UNCHANGED storeVars
  BY <1>5 DEF UpdateThinkingSpanSummary, FinishThinkingSpan, storeVars, ChatKept
<1> QED
  BY <1>2, <1>3, <1>4, <1>5

LEMMA TurnWrites ==
    ASSUME NEW t,
           \/ CompleteTurnFirstUpdate(t)
           \/ FailTurn(t)
           \/ FinishFailedTurnFirstUpdate(t)
           \/ \E seq : CompleteTurn(t, seq) \/ FinishFailedTurnContext(t, seq)
    PROVE  /\ t \in DOMAIN turns
           /\ TurnUpdated(t)
           /\ UNCHANGED <<messages, r_session_messages, r_soul_session_messages>>
  BY DEF CompleteTurnFirstUpdate, FailTurn, FinishFailedTurnFirstUpdate, CompleteTurn,
         FinishFailedTurnContext, TurnUpdated

LEMMA StreamCalls ==
    ASSUME NEW t, StreamEvent(t)
    PROVE  ChatKept
<1>1. ASSUME NEW state, CloseSpan(t, state) PROVE ChatKept
  BY <1>1, RuntimeIsQuiet DEF CloseSpan
<1>2. CASE ResponseStarted(t)
  BY <1>2, RuntimeIsQuiet DEF ResponseStarted, EnsureThinkingSpan
<1>3. CASE ReasoningSummary(t)
  BY <1>3, RuntimeIsQuiet DEF ReasoningSummary
<1>4. CASE \E delta \in Texts : TextDelta(t, delta)
  BY <1>1, <1>4, RuntimeIsQuiet DEF TextDelta
<1>5. CASE \E c \in Calls : FunctionCallRequested(t, c)
  BY <1>1, <1>5 DEF FunctionCallRequested
<1>6. CASE Completed(t) \/ StreamFailed(t)
  BY <1>1, <1>6 DEF Completed, StreamFailed
<1>7. CASE EndOfStream(t)
  BY <1>7, RuntimeIsQuiet DEF EndOfStream
<1>8. CASE StreamStoreError(t)
  BY <1>8, RuntimeIsQuiet DEF StreamStoreError
<1> QED
  BY <1>2, <1>3, <1>4, <1>5, <1>6, <1>7, <1>8 DEF StreamEvent

LEMMA ProviderCalls ==
    ASSUME NEW t, ProviderTask(t)
    PROVE  ChatKept
  BY RuntimeIsQuiet DEF ProviderTask, Request, StartToolCall, FinishToolCall

LEMMA TaskCalls ==
    ASSUME NEW t, TaskStep(t)
    PROVE  StoreCall(t)
<1> Own(t) = {User(t), Reply(t), Partial(t), System(t)}
  BY DEF Own
<1> HIDE DEF Own
<1>0. CASE ChatKept
  BY <1>0 DEF StoreCall
<1>1. CASE UNCHANGED storeVars
  BY <1>0, <1>1, RuntimeIsQuiet
<1>2. CASE StreamEvent(t) \/ ProviderTask(t)
  BY <1>0, <1>2, StreamCalls, ProviderCalls
<1>3. ASSUME NEW s, NEW m \in Own(t), NEW actor, NEW state, AppendMessage(s, m, actor, state)
      PROVE  StoreCall(t)
  BY <1>3 DEF StoreCall
<1>4. ASSUME NEW s, NEW m \in Own(t), AppendMessageRef(s, m)
      PROVE  StoreCall(t)
  BY <1>4 DEF StoreCall
<1>5. ASSUME NEW s, NEW m, NEW seq, StartTurn(t, s, m, seq)
      PROVE  StoreCall(t)
  BY <1>5 DEF StoreCall
<1>6. ASSUME \/ CompleteTurnFirstUpdate(t)
             \/ FailTurn(t)
             \/ FinishFailedTurnFirstUpdate(t)
             \/ \E seq : CompleteTurn(t, seq) \/ FinishFailedTurnContext(t, seq)
      PROVE  StoreCall(t)
  BY <1>6, TurnWrites DEF StoreCall
<1>7. CASE RefuseSend(t) \/ SpawnTurn(t) \/ RefuseEmptyReply(t)
  BY <1>1, <1>7 DEF RefuseSend, SpawnTurn, RefuseEmptyReply
<1>8. CASE \E s \in Sessions : Send(t, s)
  BY <1>1, <1>3, <1>8 DEF Send
<1>9. CASE AcquireForSend(t)
  BY <1>0, <1>1, <1>9 DEF AcquireForSend, AcquireSoulSession, ChatKept
<1>10. CASE RefUserMessage(t)
  BY <1>1, <1>4, <1>10 DEF RefUserMessage
<1>11. CASE StartTurnForSend(t)
  BY <1>1, <1>5, <1>11 DEF StartTurnForSend
<1>12. CASE AppendReply(t)
  BY <1>1, <1>3, <1>12 DEF AppendReply
<1>13. CASE RefReply(t)
  BY <1>1, <1>4, <1>13 DEF RefReply
<1>14. CASE Complete(t)
  BY <1>1, <1>6, <1>14 DEF Complete
<1>15. CASE Fail(t)
  BY <1>1, <1>6, <1>15 DEF Fail
<1>16. CASE AppendPartial(t)
  BY <1>1, <1>3, <1>16 DEF AppendPartial
<1>17. CASE RefPartial(t)
  BY <1>1, <1>4, <1>17 DEF RefPartial, RefFailureMessage
<1>18. CASE AppendSystem(t)
  BY <1>1, <1>3, <1>18 DEF AppendSystem
<1>19. CASE RefSystem(t)
  BY <1>1, <1>4, <1>19 DEF RefSystem, RefFailureMessage
<1>20. CASE FinishFailure(t)
  BY <1>1, <1>6, <1>20 DEF FinishFailure
<1> QED
  BY <1>2, <1>7, <1>8, <1>9, <1>10, <1>11, <1>12, <1>13, <1>14, <1>15, <1>16, <1>17, <1>18,
     <1>19, <1>20 DEF TaskStep, Task, SendTask, EndTask

\* What one task writes is not another's.
LEMMA OthersLeaveOwn ==
    ASSUME TurnTypeOK, NEW t, StoreCall(t), NEW u, u # t
    PROVE  OwnTablesKept(u)
<1>1. Own(t) \cap Own(u) = {}
  BY OwnApart
<1>2. CASE ChatKept
  BY <1>2 DEF ChatKept, OwnTablesKept
<1>3. ASSUME NEW s, NEW m \in Own(t), NEW actor, NEW state, AppendMessage(s, m, actor, state)
      PROVE  OwnTablesKept(u)
  <2>1. \A x \in Own(u) : x \in DOMAIN messages' => x \in DOMAIN messages
    BY <1>1, <1>3 DEF AppendMessage, Insert
  <2>2. \A row \in r_session_messages' :
            row.message \in Own(u) => row \in r_session_messages
    <3> DEFINE new == [session |-> s, message |-> m, seq |-> NextSessionSeq(s)]
    <3>1. r_session_messages' = r_session_messages \cup {new} /\ new.message = m
      BY <1>3 DEF AppendMessage
    <3> HIDE DEF new
    <3> QED
      BY <1>1, <3>1
  <2>3. UNCHANGED <<turns, r_soul_session_messages>>
    BY <1>3 DEF AppendMessage
  <2> QED
    BY <2>1, <2>2, <2>3 DEF OwnTablesKept
<1>4. ASSUME NEW s, NEW m \in Own(t), AppendMessageRef(s, m)
      PROVE  OwnTablesKept(u)
  BY <1>1, <1>4 DEF AppendMessageRef, AppendEntry, OwnTablesKept
<1>5. ASSUME NEW s, NEW m, NEW seq, StartTurn(t, s, m, seq)
      PROVE  OwnTablesKept(u)
  BY <1>5 DEF StartTurn, Insert, OwnTablesKept
<1>6. ASSUME t \in DOMAIN turns, TurnUpdated(t),
             UNCHANGED <<messages, r_session_messages, r_soul_session_messages>>
      PROVE  OwnTablesKept(u)
  BY <1>6 DEF TurnTypeOK, TurnUpdated, CompletedRow, FailedRow, OwnTablesKept
<1> QED
  BY <1>2, <1>3, <1>4, <1>5, <1>6 DEF StoreCall

\* What a step of another task and most crashes leave of a turn.
Kept(u) ==
    /\ OwnTablesKept(u)
    /\ pc'[u] = pc[u] \/ (pc[u] \in Live /\ pc'[u] = "dead")
    /\ text'[u] = text[u]
    /\ lastSeen'[u] = lastSeen[u]
    /\ Terminal(u)' = Terminal(u)

LEMMA PublishedPlain ==
    ASSUME NEW event, NEW id, Publish(event, id), NEW u,
           event \notin {"message_completed", "turn_failed"} \/ id # u
    PROVE  Terminal(u)' = Terminal(u)
  BY DEF Publish, Terminal

LEMMA ProviderKeepsEvents ==
    ASSUME NEW t, StreamEvent(t) \/ ProviderTask(t), NEW u
    PROVE  Terminal(u)' = Terminal(u)
<1>0. CASE UNCHANGED published
  BY <1>0 DEF Terminal
<1>1. ASSUME NEW state, CloseSpan(t, state) PROVE Terminal(u)' = Terminal(u)
  BY <1>0, <1>1, PublishedPlain DEF CloseSpan
<1>2. CASE ResponseStarted(t)
  BY <1>0, <1>2, PublishedPlain DEF ResponseStarted, EnsureThinkingSpan
<1>3. CASE ReasoningSummary(t)
  BY <1>0, <1>3, PublishedPlain DEF ReasoningSummary
<1>4. CASE \E delta \in Texts : TextDelta(t, delta)
  BY <1>0, <1>1, <1>4 DEF TextDelta
<1>5. CASE \E c \in Calls : FunctionCallRequested(t, c)
  BY <1>1, <1>5 DEF FunctionCallRequested
<1>6. CASE Completed(t) \/ StreamFailed(t)
  BY <1>1, <1>6 DEF Completed, StreamFailed
<1>7. CASE EndOfStream(t) \/ StreamStoreError(t)
  BY <1>0, <1>7 DEF EndOfStream, StreamStoreError
<1>8. CASE ProviderTask(t)
  BY <1>0, <1>8, PublishedPlain DEF ProviderTask, Request, StartToolCall, FinishToolCall
<1> QED
  BY <1>2, <1>3, <1>4, <1>5, <1>6, <1>7, <1>8 DEF StreamEvent

LEMMA OthersKeepEvents ==
    ASSUME NEW t, TaskStep(t), NEW u, u # t
    PROVE  Terminal(u)' = Terminal(u)
<1>0. CASE UNCHANGED published
  BY <1>0 DEF Terminal
<1>1. CASE StreamEvent(t) \/ ProviderTask(t)
  BY <1>1, ProviderKeepsEvents
<1>2. CASE RefuseSend(t) \/ (\E s \in Sessions : Send(t, s)) \/ SendTask(t)
  BY <1>0, <1>2, PublishedPlain
     DEF RefuseSend, Send, SendTask, AcquireForSend, RefUserMessage, StartTurnForSend, SpawnTurn
<1>3. CASE EndTask(t)
  BY <1>0, <1>3, PublishedPlain
     DEF EndTask, RefuseEmptyReply, AppendReply, RefReply, Complete, Fail, AppendPartial,
         RefPartial, AppendSystem, RefSystem, RefFailureMessage, FinishFailure
<1> QED
  BY <1>1, <1>2, <1>3 DEF TaskStep, Task

LEMMA OthersKeepText ==
    ASSUME LocalTypeOK, NEW t \in Turns, TaskStep(t), NEW u \in Turns, u # t
    PROVE  text'[u] = text[u]
<1> USE DEF LocalTypeOK, FailWith
<1>1. CASE StreamEvent(t)
  BY <1>1 DEF StreamEvent, ResponseStarted, ReasoningSummary, TextDelta, FunctionCallRequested,
              Completed, EndOfStream, StreamFailed, StreamStoreError
<1>2. CASE ProviderTask(t)
  BY <1>2 DEF ProviderTask, Request, StartToolCall, FinishToolCall
<1>3. CASE RefuseSend(t) \/ (\E s \in Sessions : Send(t, s)) \/ SendTask(t)
  BY <1>3 DEF RefuseSend, Send, SendTask, AcquireForSend, RefUserMessage, StartTurnForSend,
              SpawnTurn
<1>4. CASE EndTask(t)
  BY <1>4 DEF EndTask, RefuseEmptyReply, AppendReply, RefReply, Complete, Fail, AppendPartial,
              RefPartial, AppendSystem, RefSystem, RefFailureMessage, FinishFailure
<1> QED
  BY <1>1, <1>2, <1>3, <1>4 DEF TaskStep, Task

\* A crash that falls between the two UPDATEs of the turn's last method.
Torn(u) ==
    /\ pc[u] \in {"complete", "context"}
    /\ pc'[u] = "dead"
    /\ pc[u] = "complete" => turns' = CompletedRow(u)
    /\ pc[u] = "context" => turns' = FailedRow(u)
    /\ UNCHANGED <<messages, r_session_messages, r_soul_session_messages, soul_sessions,
                   published, text, lastSeen>>

\* Every turn but the one whose task takes the step.
LEMMA StepOfOthers ==
    ASSUME TurnTypeOK, LocalTypeOK, [Next]_vars, NEW u \in Turns
    PROVE  TaskStep(u) \/ Kept(u) \/ Torn(u)
<1>1. CASE UNCHANGED vars
  BY <1>1 DEF vars, storeVars, turnVars, Kept, OwnTablesKept, Terminal
<1>2. CASE SessionCall
  <2>1. OwnTablesKept(u)
    <3>1. UNCHANGED <<r_soul_session_messages, turns, messages, r_session_messages>>
      BY <1>2 DEF SessionCall, CreateSession, UpdateSessionTitle, AcquireSoulSession
    <3> QED
      BY <3>1 DEF OwnTablesKept
  <2> QED
    BY <1>2, <2>1 DEF SessionCall, turnVars, Kept, Terminal
<1>3. CASE CrashAndRestart
  <2>1. /\ UNCHANGED <<published, text, lastSeen>>
        /\ pc'[u] = pc[u] \/ (pc[u] \in Live /\ pc'[u] = "dead")
        /\ pc[u] \in {"complete", "context"} => pc'[u] = "dead"
    BY <1>3 DEF CrashAndRestart, Live, Replying, Failing
  <2>2. OwnTablesKept(u) => Kept(u)
    BY <2>1 DEF Kept, Terminal
  <2>3. CASE UNCHANGED storeVars
    BY <2>2, <2>3 DEF storeVars, OwnTablesKept
  <2>4. ASSUME NEW t \in Turns,
               \/ pc[t] = "complete" /\ CompleteTurnFirstUpdate(t)
               \/ pc[t] = "context" /\ FinishFailedTurnFirstUpdate(t)
        PROVE  Kept(u) \/ Torn(u)
    <3>1. CASE t = u
      BY <2>1, <2>4, <3>1 DEF Torn, CompleteTurnFirstUpdate, FinishFailedTurnFirstUpdate
    <3>2. CASE t # u
      BY <2>2, <2>4, <3>2, TurnWrites, OthersLeaveOwn DEF StoreCall
    <3> QED
      BY <3>1, <3>2
  <2> QED
    BY <1>3, <2>3, <2>4 DEF CrashAndRestart
<1>4. ASSUME NEW t \in Turns, TaskStep(t), t # u
      PROVE  Kept(u)
  <2>1. OwnTablesKept(u)
    BY <1>4, TaskCalls, OthersLeaveOwn
  <2>2. pc'[u] = pc[u] /\ lastSeen'[u] = lastSeen[u]
    BY <1>4, OthersKept DEF TaskStep
  <2>3. text'[u] = text[u] /\ Terminal(u)' = Terminal(u)
    BY <1>4, OthersKeepText, OthersKeepEvents
  <2> QED
    BY <2>1, <2>2, <2>3 DEF Kept
<1> QED
  BY <1>1, <1>2, <1>3, <1>4 DEF Next, TaskStep

-----------------------------------------------------------------------------
(***************************************************************************)
(* How a turn ends                                                         *)
(***************************************************************************)
\* The rows a reply leaves.
ReplyStored(t) == Reply(t) \in DOMAIN messages /\ messages[Reply(t)].state = "fixed"

Ending(t) ==
    /\ pc[t] \in {"idle", "acquire", "ref", "start"} => t \notin DOMAIN turns
    /\ t \in DOMAIN turns /\ turns[t].status = "running" =>
           pc[t] \in Live \cup {"dead"} \/ faults > 0
    /\ pc[t] \in Failing \ {"fail"} => turns[t].status = "failed"
    /\ pc[t] \in {"replyRef", "complete"} => ReplyStored(t)
    /\ Terminal(t) # {} => pc[t] = "done" /\ t \in DOMAIN turns
    /\ <<"message_completed", t>> \in published =>
           /\ turns[t].status = "completed"
           /\ InSoulLog(Session(t), Reply(t))
           /\ ReplyStored(t)
           /\ <<"turn_failed", t>> \notin published

\* Store errors are counted and never forgotten.
LEMMA FaultsGrow ==
    ASSUME LocalTypeOK, [Next]_vars
    PROVE  faults' \in Nat /\ faults \in Nat /\ faults' >= faults
<1>0. faults \in Nat /\ (faults' = faults \/ StoreFault => faults' \in Nat /\ faults' >= faults)
  BY BoundsAssumption DEF LocalTypeOK, StoreFault
<1>1. CASE UNCHANGED vars \/ SessionCall \/ CrashAndRestart
  BY <1>0, <1>1 DEF vars, turnVars, SessionCall, CrashAndRestart
<1>2. ASSUME NEW t \in Turns, TaskStep(t)
      PROVE  faults' = faults \/ StoreFault
  <2>1. CASE StreamEvent(t)
    BY <2>1 DEF StreamEvent, ResponseStarted, ReasoningSummary, TextDelta,
                FunctionCallRequested, Completed, EndOfStream, StreamFailed, StreamStoreError
  <2>2. CASE ProviderTask(t)
    BY <2>2 DEF ProviderTask, Request, StartToolCall, FinishToolCall
  <2>3. CASE RefuseSend(t) \/ (\E s \in Sessions : Send(t, s)) \/ SendTask(t)
    BY <2>3 DEF RefuseSend, Send, SendTask, AcquireForSend, RefUserMessage, StartTurnForSend,
                SpawnTurn
  <2>4. CASE EndTask(t)
    BY <2>4 DEF EndTask, RefuseEmptyReply, AppendReply, RefReply, Complete, Fail,
                AppendPartial, RefPartial, AppendSystem, RefSystem, RefFailureMessage,
                FinishFailure
  <2> QED
    BY <1>2, <2>1, <2>2, <2>3, <2>4 DEF TaskStep, Task
<1> QED
  BY <1>0, <1>1, <1>2 DEF Next, TaskStep

LEMMA EndingKept ==
    ASSUME NEW u, Ending(u), Placed(u), Kept(u), LogExtended, MessagesKept,
           faults' \in Nat, faults \in Nat, faults' >= faults
    PROVE  Ending(u)'
<1> USE DEF Kept
<1>1. u \in DOMAIN turns' <=> u \in DOMAIN turns
  BY DEF OwnTablesKept
<1>2. u \in DOMAIN turns => turns'[u] = turns[u]
  BY DEF OwnTablesKept
<1>3. ReplyStored(u) => ReplyStored(u)'
  BY DEF ReplyStored, MessagesKept, Reply
<1>4. u \in DOMAIN turns /\ InSoulLog(Session(u), Reply(u)) => InSoulLog(Session(u), Reply(u))'
  BY <1>2 DEF InSoulLog, LogExtended, Session, Reply
<1>5. /\ <<"message_completed", u>> \in published' <=> <<"message_completed", u>> \in published
      /\ <<"turn_failed", u>> \in published' <=> <<"turn_failed", u>> \in published
  BY DEF Terminal
<1>6. pc[u] \in Failing => u \in DOMAIN turns
  BY DEF Placed, Owner
<1>7. Terminal(u)' # {} => u \in DOMAIN turns /\ pc'[u] = "done"
  BY <1>1 DEF Ending, Live, Sending, Provider, Replying, Failing
<1>8. <<"message_completed", u>> \in published => Terminal(u) # {}
  BY DEF Terminal
<1> QED
  BY <1>1, <1>2, <1>3, <1>4, <1>5, <1>6, <1>7, <1>8 DEF Ending, Live, Sending, Provider, Replying, Failing

LEMMA EndingTorn ==
    ASSUME NEW u, Ending(u), Torn(u)
    PROVE  Ending(u)'
<1>1. Terminal(u)' = {}
  BY DEF Ending, Torn, Terminal
<1> QED
  BY <1>1 DEF Ending, Torn, Terminal, Failing

\* The send's part: the turn's row comes with the step to snapshot, or the
\* call failed after it wrote the row.
LEMMA EndingSend ==
    ASSUME LocalTypeOK, NEW t \in Turns, Ending(t), Placed(t), TurnsKept,
           faults' \in Nat, faults \in Nat, faults' >= faults,
           RefuseSend(t) \/ SendTask(t) \/ \E s \in Sessions : Send(t, s)
    PROVE  Ending(t)'
<1> USE DEF Goto
<1>1. Terminal(t)' = {}
  <2>1. Terminal(t) = {}
    BY DEF Ending, RefuseSend, Send, SendTask, AcquireForSend, RefUserMessage,
           StartTurnForSend, SpawnTurn
  <2>2. Terminal(t)' = Terminal(t)
    <3>1. CASE UNCHANGED published
      BY <3>1 DEF Terminal
    <3> QED
      BY <3>1, PublishedPlain DEF RefuseSend, Send, SendTask, AcquireForSend, RefUserMessage,
                                  StartTurnForSend, SpawnTurn
  <2> QED
    BY <2>1, <2>2
<1>2. CASE pc'[t] = "rejected" /\ (t \notin DOMAIN turns' \/ faults' > 0)
  BY <1>1, <1>2 DEF Ending, Terminal, Failing
<1>3. CASE pc'[t] \in {"acquire", "ref", "start"} /\ t \notin DOMAIN turns'
  BY <1>1, <1>3 DEF Ending, Terminal, Failing
<1>4. CASE pc'[t] \in {"snapshot", "request"}
  BY <1>1, <1>4 DEF Ending, Terminal, Failing, Live, Sending, Provider
<1>5. CASE RefuseSend(t)
  BY <1>2, <1>5 DEF RefuseSend, LocalTypeOK, storeVars, Ending
<1>6. StoreFault => faults' > 0
  BY DEF StoreFault
<1>7. ASSUME NEW s \in Sessions, Send(t, s) PROVE Ending(t)'
  <2>1. t \notin DOMAIN turns'
    BY <1>7 DEF Send, Ending, AppendMessage, storeVars
  <2>2. pc'[t] \in {"acquire", "rejected"}
    BY <1>7 DEF Send, LocalTypeOK
  <2> QED
    BY <1>2, <1>3, <2>1, <2>2
<1>8. CASE AcquireForSend(t)
  <2>1. t \notin DOMAIN turns'
    BY <1>8 DEF AcquireForSend, Ending, AcquireSoulSession, storeVars
  <2>2. pc'[t] \in {"ref", "rejected"}
    BY <1>8 DEF AcquireForSend, LocalTypeOK
  <2> QED
    BY <1>2, <1>3, <2>1, <2>2
<1>9. CASE RefUserMessage(t)
  <2>1. t \notin DOMAIN turns'
    BY <1>9 DEF RefUserMessage, Ending, AppendMessageRef, storeVars
  <2>2. pc'[t] \in {"start", "rejected"}
    BY <1>9 DEF RefUserMessage, LocalTypeOK
  <2> QED
    BY <1>2, <1>3, <2>1, <2>2
<1>10. CASE StartTurnForSend(t)
  <2>1. pc'[t] = "snapshot" \/ (pc'[t] = "rejected" /\ StoreFault)
    BY <1>10 DEF StartTurnForSend, LocalTypeOK
  <2> QED
    BY <1>2, <1>4, <1>6, <2>1
<1>11. CASE SpawnTurn(t)
  <2>1. pc'[t] = "request" \/ (pc'[t] = "rejected" /\ StoreFault)
    BY <1>11 DEF SpawnTurn, LocalTypeOK
  <2> QED
    BY <1>2, <1>4, <1>6, <2>1
<1> QED
  BY <1>5, <1>7, <1>8, <1>9, <1>10, <1>11 DEF SendTask

\* The provider phase neither ends the turn nor says so.
LEMMA EndingProvider ==
    ASSUME LocalTypeOK, NEW t \in Turns, Ending(t), Placed(t),
           StreamEvent(t) \/ ProviderTask(t), UNCHANGED lastSeen
    PROVE  Ending(t)'
<1>1. ProviderMoved(t)
  BY StreamMoves, ProviderMoves
<1>2. UNCHANGED turns
  BY StreamCalls, ProviderCalls DEF ChatKept
<1>3. Terminal(t)' = {}
  BY <1>1, ProviderKeepsEvents DEF Ending, ProviderMoved, Provider
<1>4. <<"message_completed", t>> \notin published'
  BY <1>3 DEF Terminal
<1> QED
  BY <1>1, <1>2, <1>3, <1>4 DEF Ending, ProviderMoved, Live, Provider, Replying, Failing
\* The end of the turn.
LEMMA EndingEnd ==
    ASSUME StoreInv, LocalTypeOK, NEW t \in Turns, Ending(t), Placed(t), MessagesKept,
           LogExtended, faults' \in Nat, faults \in Nat, faults' >= faults, EndTask(t)
    PROVE  Ending(t)'
<1> USE DEF Goto, FailWith
<1> DEFINE Silent == Terminal(t)' = {}
           done   == <<"message_completed", t>>
           failed == <<"turn_failed", t>>
<1>1. t \in DOMAIN turns /\ pc[t] \notin {"done", "idle", "acquire", "ref", "start"}
  BY DEF EndTask, RefuseEmptyReply, AppendReply, RefReply, Complete, Fail, AppendPartial,
         RefPartial, AppendSystem, RefSystem, FinishFailure, Placed, Owner, Replying, Failing
<1>2. Terminal(t) = {} /\ done \notin published /\ failed \notin published
  <2>1. Terminal(t) = {}
    BY <1>1 DEF Ending
  <2> QED
    BY <2>1 DEF Terminal
<1>3. turns \in [DOMAIN turns -> TurnRow]
  BY DEF StoreInv, StoreTypeOK
<1>4. UNCHANGED published => Silent
  BY <1>2 DEF Terminal
<1>5. Silent => done \notin published'
  BY DEF Terminal
\* The task moved on without a word.
<1>6. CASE UNCHANGED turns /\ Silent /\ pc'[t] \in {"replyRef", "complete", "fail"}
           /\ (pc'[t] # "fail" => ReplyStored(t)')
  BY <1>5, <1>6 DEF Ending, Live, Replying, Failing
<1>7. CASE UNCHANGED turns /\ Silent /\ pc'[t] \in Failing /\ pc[t] \in Failing \ {"fail"}
  BY <1>5, <1>7 DEF Ending, Live, Replying, Failing
\* The turn failed.
<1>8. CASE /\ turns'[t].status = "failed" /\ t \in DOMAIN turns'
           /\ \/ Silent /\ pc'[t] \in Failing
              \/ done \notin published' /\ pc'[t] = "done"
  BY <1>5, <1>8 DEF Ending, Live, Failing
\* The store failed and nothing more is said.
<1>9. CASE /\ t \in DOMAIN turns' /\ faults' > 0
           /\ \/ Silent /\ pc'[t] = "fail"
              \/ done \notin published' /\ pc'[t] = "done"
  BY <1>5, <1>9 DEF Ending, Live, Failing
<1>10. StoreFault => faults' > 0
  BY DEF StoreFault
<1>11. CASE RefuseEmptyReply(t)
  BY <1>4, <1>6, <1>11 DEF RefuseEmptyReply, LocalTypeOK, storeVars
<1>12. CASE AppendReply(t)
  <2> DEFINE Write == AppendMessage(Session(t), Reply(t), "soul", "fixed")
  <2>1. Silent
    BY <1>4, <1>12 DEF AppendReply
  <2>2. UNCHANGED turns
    BY <1>12 DEF AppendReply, AppendMessage, storeVars
  <2>3. pc'[t] = "fail" \/ (pc'[t] = "replyRef" /\ Write)
    BY <1>12 DEF AppendReply, LocalTypeOK
  <2>4. ASSUME Write PROVE ReplyStored(t)'
    BY <2>4 DEF AppendMessage, Insert, ReplyStored, Reply
  <2> QED
    BY <1>6, <2>1, <2>2, <2>3, <2>4
<1>13. CASE RefReply(t)
  <2>1. Silent /\ pc'[t] \in {"complete", "fail"}
    BY <1>4, <1>13 DEF RefReply, LocalTypeOK
  <2>2. UNCHANGED turns
    BY <1>13 DEF RefReply, AppendMessageRef, storeVars
  <2>3. ReplyStored(t)'
    BY <1>13 DEF RefReply, Ending, ReplyStored, MessagesKept, Reply
  <2> QED
    BY <1>6, <2>1, <2>2, <2>3
<1>14. CASE Complete(t)
  <2>1. t \in DOMAIN turns'
    BY <1>1, <1>14 DEF Complete, CompleteTurn, CompleteTurnFirstUpdate, CompletedRow, storeVars
  <2>2. CASE StoreFault /\ UNCHANGED published /\ pc'[t] = "fail"
    BY <1>4, <1>9, <1>10, <2>1, <2>2
  <2>3. CASE CompleteTurn(t, SeqOf(Reply(t))) /\ Publish("message_completed", t) /\ pc'[t] = "done"
    <3>1. turns'[t].status = "completed" /\ turns'[t].session = turns[t].session
      BY <1>1, <1>3, <2>3 DEF CompleteTurn, CompletedRow, TurnRow
    <3>2. failed \notin published'
      BY <1>2, <2>3 DEF Publish
    <3>3. InSoulLog(Session(t), Reply(t))'
      BY <1>14, <3>1 DEF Complete, Placed, InSoulLog, LogExtended, Session, Reply
    <3>4. ReplyStored(t)'
      BY <1>14 DEF Complete, Ending, ReplyStored, MessagesKept, Reply
    <3> QED
      BY <2>1, <2>3, <3>1, <3>2, <3>3, <3>4 DEF Ending, Failing
  <2> QED
    BY <1>14, <2>2, <2>3 DEF Complete, LocalTypeOK
<1>15. CASE Fail(t)
  <2>1. \/ FailTurn(t) /\ pc'[t] \in {"partial", "system"} /\ UNCHANGED published
        \/ /\ StoreFault /\ Publish("turn_failed", t) /\ pc'[t] = "done"
           /\ FailTurn(t) \/ UNCHANGED turns
    BY <1>15 DEF Fail, LocalTypeOK, storeVars
  <2>2. t \in DOMAIN turns' /\ (FailTurn(t) => turns'[t].status = "failed")
    BY <1>1, <1>3, <2>1 DEF FailTurn, TurnRow
  <2>3. Publish("turn_failed", t) => done \notin published'
    BY <1>2 DEF Publish
  <2> QED
    BY <1>4, <1>8, <1>9, <1>10, <2>1, <2>2, <2>3 DEF Failing
<1>16. CASE AppendPartial(t) \/ AppendSystem(t) \/ RefPartial(t) \/ RefSystem(t)
  <2>1. UNCHANGED turns
    BY <1>16 DEF AppendPartial, AppendSystem, RefPartial, RefSystem, RefFailureMessage,
                 AppendMessage, AppendMessageRef, storeVars
  <2>2. Silent
    <3>1. UNCHANGED published \/ \E m : Publish("message_created", m)
      BY <1>16 DEF AppendPartial, AppendSystem, RefPartial, RefSystem, RefFailureMessage
    <3> QED
      BY <1>2, <1>4, <3>1, PublishedPlain
  <2>3. pc'[t] \in Failing /\ pc[t] \in Failing \ {"fail"}
    BY <1>16 DEF AppendPartial, AppendSystem, RefPartial, RefSystem, RefFailureMessage,
                 LocalTypeOK, Failing
  <2> QED
    BY <1>7, <2>1, <2>2, <2>3
<1>17. CASE FinishFailure(t)
  <2>1. turns[t].status = "failed"
    BY <1>17 DEF FinishFailure, Ending, Failing
  <2>2. turns' = turns \/ turns' = FailedRow(t)
    BY <1>17 DEF FinishFailure, FinishFailedTurnContext, FinishFailedTurnFirstUpdate, storeVars
  <2>3. turns'[t].status = "failed" /\ t \in DOMAIN turns'
    BY <1>1, <1>3, <2>1, <2>2 DEF FailedRow, TurnRow
  <2>4. pc'[t] = "done" /\ Publish("turn_failed", t)
    BY <1>17 DEF FinishFailure, LocalTypeOK
  <2>5. done \notin published'
    BY <1>2, <2>4 DEF Publish
  <2> QED
    BY <1>8, <2>3, <2>4, <2>5
<1> QED
  BY <1>11, <1>12, <1>13, <1>14, <1>15, <1>16, <1>17 DEF EndTask

\* No task takes a step after its turn's last event.
LEMMA DoneIsQuiet ==
    ASSUME LocalTypeOK, NEW t \in Turns, Placed(t), TaskStep(t)
    PROVE  pc[t] # "done"
<1>1. CASE (StreamEvent(t) \/ ProviderTask(t)) /\ UNCHANGED <<lastSeen, crashes>>
  BY <1>1, StreamMoves, ProviderMoves DEF ProviderMoved, Provider
<1>2. CASE RefuseSend(t) \/ (\E s \in Sessions : Send(t, s)) \/ SendTask(t)
  BY <1>2 DEF RefuseSend, Send, SendTask, AcquireForSend, RefUserMessage, StartTurnForSend,
              SpawnTurn
<1>3. CASE EndTask(t)
  BY <1>3 DEF EndTask, RefuseEmptyReply, AppendReply, RefReply, Complete, Fail, AppendPartial,
              RefPartial, AppendSystem, RefSystem, FinishFailure
<1> QED
  BY <1>1, <1>2, <1>3 DEF TaskStep, Task

LEMMA EndingStep ==
    ASSUME ServiceInv, [Next]_vars, NEW t \in Turns, Ending(t)
    PROVE  Ending(t)'
<1>1. StoreInv /\ LocalTypeOK /\ TurnTypeOK /\ Placed(t)
  BY TypeParts DEF ServiceInv, StoreInv, AllPlaced
<1>2. LogExtended /\ TurnsKept /\ MessagesKept
  BY NextUsesStore, HistoryStep, MessagesStep DEF ServiceInv
<1>3. faults' \in Nat /\ faults \in Nat /\ faults' >= faults
  BY <1>1, FaultsGrow
<1>4. CASE Kept(t)
  BY <1>1, <1>2, <1>3, <1>4, EndingKept
<1>5. CASE Torn(t)
  BY <1>5, EndingTorn
<1>6. CASE TaskStep(t)
  BY <1>1, <1>2, <1>3, <1>6, EndingSend, EndingProvider, EndingEnd DEF TaskStep, Task
<1> QED
  BY <1>1, <1>4, <1>5, <1>6, StepOfOthers

-----------------------------------------------------------------------------
(***************************************************************************)
(* The turn's trigger and its reply, in the logs                           *)
(***************************************************************************)
Triggered(t) ==
    /\ pc[t] = "start" =>
           \E row \in r_session_messages :
               row.message = User(t) /\ InSoulLog(row.session, User(t))
    /\ t \in DOMAIN turns =>
           /\ turns[t].trigger = User(t)
           /\ \E row \in r_session_messages :
                  /\ row.session = turns[t].session
                  /\ row.message = User(t)
                  /\ row.seq = turns[t].input_through
           /\ \E e \in r_soul_session_messages :
                  /\ e.session = turns[t].session /\ e.type = "message" /\ e.target = User(t)
                  /\ e.seq <= turns[t].base

LEMMA TriggeredKept ==
    ASSUME NEW t, Triggered(t), LogExtended, TurnsKept,
           t \in DOMAIN turns' => t \in DOMAIN turns,
           pc'[t] # "start" \/ pc'[t] = pc[t]
    PROVE  Triggered(t)'
<1>1. t \in DOMAIN turns' =>
          /\ turns'[t].session = turns[t].session
          /\ turns'[t].trigger = turns[t].trigger
          /\ turns'[t].input_through = turns[t].input_through
          /\ turns'[t].base = turns[t].base
  BY DEF TurnsKept
<1>2. pc'[t] = "start" =>
          \E row \in r_session_messages' :
              row.message = User(t) /\ InSoulLog(row.session, User(t))'
  BY DEF Triggered, InSoulLog, LogExtended, User
<1> QED
  BY <1>1, <1>2 DEF Triggered, LogExtended, User, InSoulLog

LEMMA TriggeredStep ==
    ASSUME ServiceInv, [Next]_vars, NEW t \in Turns, Triggered(t), Ending(t)
    PROVE  Triggered(t)'
<1>1. StoreInv /\ LocalTypeOK /\ TurnTypeOK /\ Placed(t)
  BY TypeParts DEF ServiceInv, StoreInv, AllPlaced
<1>2. SessionLogDense /\ SoulLogDense
  BY <1>1 DEF StoreInv
<1>3. LogExtended /\ TurnsKept
  BY NextUsesStore, HistoryStep DEF ServiceInv
<1>4. CASE /\ t \in DOMAIN turns' => t \in DOMAIN turns
           /\ pc'[t] # "start" \/ pc'[t] = pc[t]
  BY <1>3, <1>4, TriggeredKept
<1>5. CASE Kept(t)
  BY <1>4, <1>5 DEF Kept, OwnTablesKept
<1>6. CASE Torn(t)
  BY <1>4, <1>6 DEF Torn, CompletedRow, FailedRow
<1>7. CASE (StreamEvent(t) \/ ProviderTask(t)) /\ UNCHANGED <<lastSeen, crashes>>
  <2>1. pc'[t] # "start"
    BY <1>1, <1>7, StreamMoves, ProviderMoves DEF ProviderMoved
  <2>2. UNCHANGED turns
    BY <1>7, StreamCalls, ProviderCalls DEF ChatKept
  <2> QED
    BY <1>4, <2>1, <2>2
<1>8. CASE EndTask(t)
  <2>1. t \in DOMAIN turns
    BY <1>1, <1>8 DEF EndTask, RefuseEmptyReply, AppendReply, RefReply, Complete, Fail,
         AppendPartial, RefPartial, AppendSystem, RefSystem, FinishFailure, Placed, Owner,
         Replying, Failing
  <2>2. pc'[t] # "start"
    BY <1>1, <1>8 DEF EndTask, RefuseEmptyReply, AppendReply, RefReply, Complete, Fail,
         AppendPartial, RefPartial, AppendSystem, RefSystem, RefFailureMessage, FinishFailure,
         FailWith, Goto, LocalTypeOK
  <2> QED
    BY <1>4, <2>1, <2>2
<1>9. CASE \/ RefuseSend(t) \/ AcquireForSend(t) \/ SpawnTurn(t)
           \/ \E s \in Sessions : Send(t, s)
  <2>1. UNCHANGED turns
    BY <1>9 DEF RefuseSend, Send, AcquireForSend, SpawnTurn, AppendMessage, AcquireSoulSession,
                storeVars
  <2>2. pc'[t] # "start"
    BY <1>1, <1>9 DEF RefuseSend, Send, AcquireForSend, SpawnTurn, Goto, LocalTypeOK
  <2> QED
    BY <1>4, <2>1, <2>2
\* append_message_ref puts the message in the log before start_turn ...
<1>10. CASE RefUserMessage(t)
  <2> DEFINE Ref == AppendMessageRef(SessionOf(User(t)), User(t))
  <2>1. UNCHANGED <<turns, r_session_messages>>
    BY <1>10 DEF RefUserMessage, AppendMessageRef, storeVars
  <2>2. CASE pc'[t] = "start" /\ Ref
    <3>1. PICK row \in r_session_messages : row.session = SessionOf(User(t)) /\ row.message = User(t)
      BY <1>1, <1>2, <1>10, RowOfHas DEF Placed, RefUserMessage
    <3>2. InSoulLog(row.session, User(t))'
      BY <2>2, <3>1, RefIsThere DEF InSoulLog, User
    <3>3. t \notin DOMAIN turns'
      BY <1>10, <2>1 DEF RefUserMessage, Ending
    <3> QED
      BY <2>1, <2>2, <3>1, <3>2, <3>3 DEF Triggered, User, InSoulLog
  <2>3. CASE pc'[t] = "rejected"
    BY <1>4, <2>1, <2>3
  <2> QED
    BY <1>1, <1>10, <2>2, <2>3 DEF RefUserMessage, Goto, LocalTypeOK
\* ... whose base is the last position of the log at that point.
<1>11. CASE StartTurnForSend(t)
  <2>1. pc[t] = "start" /\ pc'[t] \in {"snapshot", "rejected"}
    BY <1>1, <1>11 DEF StartTurnForSend, Goto, LocalTypeOK
  <2>2. PICK row \in r_session_messages : row.message = User(t) /\ InSoulLog(row.session, User(t))
    BY <2>1 DEF Triggered
  <2>3. SessionOf(User(t)) = row.session /\ SeqOf(User(t)) = row.seq
    BY <1>2, <2>2, RowOfMessage
  <2>4. CASE StartTurn(t, row.session, User(t), row.seq)
    <3>1. PICK e \in r_soul_session_messages :
              e.session = row.session /\ e.type = "message" /\ e.target = User(t)
      BY <2>2 DEF InSoulLog
    <3>2. row.session \in DOMAIN soul_sessions
      BY <2>4 DEF StartTurn
    <3>3. e.seq \in 1 .. soul_sessions[row.session].next_seq - 1
      BY <1>2, <3>1, <3>2 DEF SoulLogDense, SoulSeqs, SeqsOf
    <3>4. e.seq <= soul_sessions[row.session].next_seq - 1
      BY <3>3
    <3>5. /\ turns'[t].trigger = User(t)
          /\ turns'[t].session = row.session
          /\ turns'[t].input_through = row.seq
          /\ turns'[t].base = soul_sessions[row.session].next_seq - 1
          /\ UNCHANGED <<r_session_messages, r_soul_session_messages>>
      BY <2>4 DEF StartTurn, Insert
    <3> QED
      BY <2>1, <2>2, <3>1, <3>4, <3>5 DEF Triggered, User
  <2>5. CASE UNCHANGED turns
    BY <1>4, <2>1, <2>5
  <2> QED
    BY <1>11, <2>3, <2>4, <2>5 DEF StartTurnForSend, storeVars
<1> QED
  BY <1>1, <1>5, <1>6, <1>7, <1>8, <1>9, <1>10, <1>11, StepOfOthers DEF TaskStep, Task, SendTask

\* A message has one entry in a log, so LogSeq is that entry's position.
LEMMA EntryOfMessage ==
    ASSUME SoulLogDense, NEW e \in r_soul_session_messages, e.type = "message"
    PROVE  LogSeq(e.session, e.target) = e.seq
<1> DEFINE Names(x) == x.session = e.session /\ x.type = "message" /\ x.target = e.target
           first == CHOOSE x \in r_soul_session_messages : Names(x)
<1>1. first \in r_soul_session_messages /\ Names(first)
  OBVIOUS
<1>2. first = e
  BY <1>1 DEF SoulLogDense
<1>3. InSoulLog(e.session, e.target)
  BY DEF InSoulLog
<1> QED
  BY <1>2, <1>3 DEF LogSeq

\* What the invariant says in terms of rows is what the property says in terms
\* of positions.
LEMMA TriggeredMeans ==
    ASSUME SessionLogDense, SoulLogDense, StoreTypeOK, NEW t \in DOMAIN turns, Triggered(t)
    PROVE  /\ turns[t].trigger = User(t)
           /\ LogSeq(Session(t), User(t)) \in 1 .. turns[t].base
           /\ SeqOf(User(t)) = turns[t].input_through
<1>1. PICK row \in r_session_messages :
          row.message = User(t) /\ row.seq = turns[t].input_through
  BY DEF Triggered
<1>2. SeqOf(User(t)) = turns[t].input_through
  BY <1>1, RowOfMessage
<1>3. PICK e \in r_soul_session_messages :
          /\ e.session = Session(t) /\ e.type = "message" /\ e.target = User(t)
          /\ e.seq <= turns[t].base
  BY DEF Triggered, Session
<1>4. LogSeq(Session(t), User(t)) = e.seq
  BY <1>3, EntryOfMessage
<1>5. e.seq \in Nat \ {0} /\ turns[t].base \in Nat
  BY DEF StoreTypeOK, TurnRow
<1> QED
  BY <1>2, <1>3, <1>4, <1>5 DEF Triggered
Windowed(t) ==
    /\ \A row \in r_session_messages :
           row.message = Reply(t) =>
               /\ t \in DOMAIN turns
               /\ row.session = turns[t].session
               /\ row.seq > turns[t].input_through
    /\ \A e \in r_soul_session_messages :
           e.type = "message" /\ e.target = Reply(t) =>
               /\ t \in DOMAIN turns
               /\ e.session = turns[t].session
               /\ e.seq > turns[t].base
    /\ t \in DOMAIN turns /\ turns[t].status = "completed" =>
           /\ \E row \in r_session_messages : row.message = Reply(t)
           /\ \E e \in r_soul_session_messages :
                  e.type = "message" /\ e.target = Reply(t) /\ e.seq <= turns[t].end

\* A step that adds no row and no entry of the reply, and does not complete
\* the turn.
LEMMA WindowedKept ==
    ASSUME NEW t, Windowed(t), LogExtended, TurnsKept,
           \A row \in r_session_messages' : row.message = Reply(t) => row \in r_session_messages,
           \A e \in r_soul_session_messages' :
               e.type = "message" /\ e.target = Reply(t) => e \in r_soul_session_messages,
           t \in DOMAIN turns' /\ turns'[t].status = "completed" =>
               /\ t \in DOMAIN turns
               /\ turns'[t].end = turns[t].end
               /\ turns[t].status = "completed"
    PROVE  Windowed(t)'
<1>1. t \in DOMAIN turns =>
          /\ t \in DOMAIN turns'
          /\ turns'[t].session = turns[t].session
          /\ turns'[t].input_through = turns[t].input_through
          /\ turns'[t].base = turns[t].base
  BY DEF TurnsKept
<1> QED
  BY <1>1 DEF Windowed, LogExtended, Reply

\* complete_turn closes the window at the end of the log as it is then.
LEMMA WindowedCompleted ==
    ASSUME StoreInv, NEW t, Windowed(t), Placed(t), pc[t] = "complete", t \in DOMAIN turns,
           turns' = CompletedRow(t), UNCHANGED <<r_session_messages, r_soul_session_messages>>
    PROVE  Windowed(t)'
<1> DEFINE s == turns[t].session
<1>1. /\ t \in DOMAIN turns'
      /\ turns'[t].session = s
      /\ turns'[t].input_through = turns[t].input_through
      /\ turns'[t].base = turns[t].base
      /\ turns'[t].end = soul_sessions[s].next_seq - 1
  BY DEF StoreInv, StoreTypeOK, TurnRow, CompletedRow
<1>2. PICK row \in r_session_messages : row.message = Reply(t)
  BY DEF Placed, InSession
<1>3. PICK e \in r_soul_session_messages :
          e.session = s /\ e.type = "message" /\ e.target = Reply(t)
  BY DEF Placed, InSoulLog, Session
<1>4. e.seq <= soul_sessions[s].next_seq - 1
  <2>1. s \in DOMAIN soul_sessions
    BY DEF StoreInv, TurnWindow
  <2>2. e.seq \in SoulSeqs(s)
    BY <1>3 DEF SoulSeqs, SeqsOf
  <2>3. e.seq \in 1 .. soul_sessions[s].next_seq - 1
    BY <2>1, <2>2 DEF StoreInv, SoulLogDense
  <2> QED
    BY <2>3
<1> QED
  BY <1>1, <1>2, <1>3, <1>4 DEF Windowed, Reply

LEMMA SeqAfterAll ==
    ASSUME StoreTypeOK, SessionLogDense, TurnWindow, NEW t \in DOMAIN turns
    PROVE  \E n \in Nat : /\ SessionSeqs(turns[t].session) = 1 .. n
                          /\ NextSessionSeq(turns[t].session) = n + 1
<1> DEFINE s == turns[t].session
<1>1. s \in Sessions
  BY DEF StoreTypeOK, TurnRow
<1>2. PICK n \in {0} \cup SessionSeqs(s) : SessionSeqs(s) = 1 .. n
  BY <1>1 DEF SessionLogDense
<1>3. n \in Nat
  BY <1>2
<1> QED
  BY <1>2, <1>3, MaxOfLog DEF NextSessionSeq

\* The reply is numbered after everything the session held, the turn's input
\* included.
LEMMA WindowedAppended ==
    ASSUME StoreInv, NEW t, Windowed(t), Triggered(t), t \in DOMAIN turns,
           LogExtended, TurnsKept,
           AppendMessage(Session(t), Reply(t), "soul", "fixed")
    PROVE  Windowed(t)'
<1> DEFINE s == turns[t].session
           new == [session |-> s, message |-> Reply(t), seq |-> NextSessionSeq(s)]
<1>1. /\ r_session_messages' = r_session_messages \cup {new}
      /\ UNCHANGED <<turns, r_soul_session_messages>>
  BY DEF AppendMessage, Session
<1>2. PICK n \in Nat : SessionSeqs(s) = 1 .. n /\ NextSessionSeq(s) = n + 1
  BY SeqAfterAll DEF StoreInv
<1>3. PICK row \in r_session_messages : row.session = s /\ row.seq = turns[t].input_through
  BY DEF Triggered
<1>4. row.seq \in 1 .. n
  BY <1>2, <1>3 DEF SessionSeqs, SeqsOf
<1>5. new.seq > turns[t].input_through
  BY <1>2, <1>3, <1>4
<1>6. new.session = s /\ new.message = Reply(t)
  OBVIOUS
<1> HIDE DEF new
<1> QED
  BY <1>1, <1>5, <1>6 DEF Windowed, Reply

\* Its entry is numbered after everything the log held, the turn's base
\* included.
LEMMA WindowedLogged ==
    ASSUME StoreInv, NEW t, Windowed(t), t \in DOMAIN turns,
           AppendMessageRef(Session(t), Reply(t))
    PROVE  Windowed(t)'
<1> DEFINE s == turns[t].session
           new == [session |-> s, type |-> "message", target |-> Reply(t),
                   seq |-> soul_sessions[s].next_seq]
<1>1. /\ r_soul_session_messages' = r_soul_session_messages \cup {new}
      /\ UNCHANGED <<turns, r_session_messages>>
  BY DEF AppendMessageRef, AppendEntry, Session
<1>2. turns[t].base < soul_sessions[s].next_seq
  BY DEF StoreInv, TurnWindow
<1>3. turns[t].base \in Nat /\ soul_sessions[s].next_seq \in Nat
  BY DEF StoreInv, StoreTypeOK, TurnRow, TurnWindow, SoulRow
<1>4. new.seq > turns[t].base
  BY <1>2, <1>3
<1>5. new.session = s
  OBVIOUS
<1> HIDE DEF new
<1> QED
  BY <1>1, <1>4, <1>5 DEF Windowed, Reply

LEMMA WindowedStep ==
    ASSUME ServiceInv, [Next]_vars, NEW t \in Turns, Windowed(t), Triggered(t)
    PROVE  Windowed(t)'
<1>1. StoreInv /\ LocalTypeOK /\ TurnTypeOK /\ Placed(t)
  BY TypeParts DEF ServiceInv, StoreInv, AllPlaced
<1>2. LogExtended /\ TurnsKept
  BY NextUsesStore, HistoryStep DEF ServiceInv
<1> DEFINE Rows    == \A row \in r_session_messages' :
                          row.message = Reply(t) => row \in r_session_messages
           Entries == \A e \in r_soul_session_messages' :
                          e.type = "message" /\ e.target = Reply(t) => e \in r_soul_session_messages
           Row     == t \in DOMAIN turns' /\ turns'[t].status = "completed" =>
                          /\ t \in DOMAIN turns
                          /\ turns'[t].end = turns[t].end
                          /\ turns[t].status = "completed"
<1>3. CASE Rows /\ Entries /\ Row
  BY <1>2, <1>3, WindowedKept
<1>4. CASE ChatKept
  BY <1>3, <1>4 DEF ChatKept
<1>5. CASE UNCHANGED storeVars
  BY <1>4, <1>5, RuntimeIsQuiet
<1>6. CASE /\ Row
           /\ UNCHANGED <<r_session_messages, r_soul_session_messages>>
  BY <1>3, <1>6
<1>7. ASSUME NEW s, NEW m, NEW actor, NEW state, m # Reply(t), AppendMessage(s, m, actor, state)
      PROVE  Windowed(t)'
  <2> DEFINE new == [session |-> s, message |-> m, seq |-> NextSessionSeq(s)]
  <2>1. r_session_messages' = r_session_messages \cup {new} /\ new.message = m
    BY <1>7 DEF AppendMessage
  <2>2. UNCHANGED <<turns, r_soul_session_messages>>
    BY <1>7 DEF AppendMessage
  <2> HIDE DEF new
  <2> QED
    BY <1>3, <1>7, <2>1, <2>2
<1>8. ASSUME NEW s, NEW m, m # Reply(t), AppendMessageRef(s, m)
      PROVE  Windowed(t)'
  <2>1. Entries
    BY <1>8 DEF AppendMessageRef, AppendEntry
  <2>2. UNCHANGED <<turns, r_session_messages>>
    BY <1>8 DEF AppendMessageRef
  <2> QED
    BY <1>3, <2>1, <2>2
<1>9. Reply(t) \notin {User(t), Partial(t), System(t)}
  BY DEF User, Reply, Partial, System
<1>10. turns \in [DOMAIN turns -> TurnRow]
  BY <1>1 DEF TurnTypeOK
<1>11. CASE Kept(t)
  BY <1>3, <1>11 DEF Kept, OwnTablesKept, Own
<1>12. CASE Torn(t)
  <2>1. CASE pc[t] = "complete"
    BY <1>1, <1>12, <2>1, WindowedCompleted DEF Torn, Placed, Owner, Replying
  <2>2. CASE pc[t] = "context"
    BY <1>6, <1>10, <1>12, <2>2 DEF Torn, FailedRow, TurnRow
  <2> QED
    BY <1>12, <2>1, <2>2 DEF Torn
<1>13. CASE StreamEvent(t) \/ ProviderTask(t)
  BY <1>4, <1>13, StreamCalls, ProviderCalls
<1>14. CASE RefuseSend(t) \/ SpawnTurn(t) \/ RefuseEmptyReply(t)
  BY <1>5, <1>14 DEF RefuseSend, SpawnTurn, RefuseEmptyReply
<1>15. CASE \E s \in Sessions : Send(t, s)
  BY <1>5, <1>7, <1>9, <1>15 DEF Send
<1>16. CASE AcquireForSend(t)
  BY <1>5, <1>6, <1>16 DEF AcquireForSend, AcquireSoulSession
<1>17. CASE RefUserMessage(t)
  BY <1>5, <1>8, <1>9, <1>17 DEF RefUserMessage
<1>18. CASE StartTurnForSend(t)
  <2>1. ASSUME NEW s, NEW m, NEW seq, StartTurn(t, s, m, seq) PROVE Windowed(t)'
    BY <1>6, <2>1 DEF StartTurn, Insert
  <2> QED
    BY <1>5, <1>18, <2>1 DEF StartTurnForSend
<1>19. CASE AppendReply(t)
  <2>1. t \in DOMAIN turns
    BY <1>1, <1>19 DEF AppendReply, Placed, Owner, Replying
  <2> QED
    BY <1>1, <1>2, <1>5, <1>19, <2>1, WindowedAppended DEF AppendReply
<1>20. CASE RefReply(t)
  <2>1. t \in DOMAIN turns
    BY <1>1, <1>20 DEF RefReply, Placed, Owner, Replying
  <2> QED
    BY <1>1, <1>5, <1>20, <2>1, WindowedLogged DEF RefReply
<1>21. CASE Complete(t)
  <2>1. t \in DOMAIN turns /\ pc[t] = "complete"
    BY <1>1, <1>21 DEF Complete, Placed, Owner, Replying
  <2>2. \/ UNCHANGED storeVars
        \/ /\ turns' = CompletedRow(t)
           /\ UNCHANGED <<r_session_messages, r_soul_session_messages>>
    BY <1>21 DEF Complete, CompleteTurn, CompleteTurnFirstUpdate
  <2> QED
    BY <1>1, <1>5, <2>1, <2>2, WindowedCompleted
<1>22. CASE Fail(t)
  <2>1. FailTurn(t) => Row /\ UNCHANGED <<r_session_messages, r_soul_session_messages>>
    BY <1>10 DEF FailTurn, TurnRow
  <2> QED
    BY <1>5, <1>6, <1>22, <2>1 DEF Fail
<1>23. CASE AppendPartial(t)
  BY <1>5, <1>7, <1>9, <1>23 DEF AppendPartial
<1>24. CASE RefPartial(t)
  BY <1>5, <1>8, <1>9, <1>24 DEF RefPartial, RefFailureMessage
<1>25. CASE AppendSystem(t)
  BY <1>5, <1>7, <1>9, <1>25 DEF AppendSystem
<1>26. CASE RefSystem(t)
  BY <1>5, <1>8, <1>9, <1>26 DEF RefSystem, RefFailureMessage
<1>27. CASE FinishFailure(t)
  <2>1. ASSUME turns' = FailedRow(t) PROVE Row
    BY <1>10, <2>1 DEF FailedRow, TurnRow
  <2>2. \/ UNCHANGED storeVars
        \/ /\ turns' = FailedRow(t)
           /\ UNCHANGED <<r_session_messages, r_soul_session_messages>>
    BY <1>27 DEF FinishFailure, FinishFailedTurnContext, FinishFailedTurnFirstUpdate
  <2> QED
    BY <1>5, <1>6, <2>1, <2>2
<1> QED
  BY <1>1, <1>11, <1>12, <1>13, <1>14, <1>15, <1>16, <1>17, <1>18, <1>19, <1>20, <1>21, <1>22,
     <1>23, <1>24, <1>25, <1>26, <1>27, StepOfOthers DEF TaskStep, Task, SendTask, EndTask

LEMMA WindowedMeans ==
    ASSUME SessionLogDense, SoulLogDense, StoreTypeOK, NEW t \in DOMAIN turns, Windowed(t),
           turns[t].status = "completed"
    PROVE  /\ LogSeq(Session(t), Reply(t)) \in turns[t].base + 1 .. turns[t].end
           /\ SeqOf(Reply(t)) > turns[t].input_through
<1>1. PICK row \in r_session_messages : row.message = Reply(t)
  BY DEF Windowed
<1>2. SeqOf(Reply(t)) > turns[t].input_through
  BY <1>1, RowOfMessage DEF Windowed
<1>3. PICK e \in r_soul_session_messages :
          e.type = "message" /\ e.target = Reply(t) /\ e.seq <= turns[t].end
  BY DEF Windowed
<1>4. e.session = Session(t) /\ e.seq > turns[t].base
  BY <1>3 DEF Windowed, Session
<1>5. LogSeq(Session(t), Reply(t)) = e.seq
  BY <1>3, <1>4, EntryOfMessage
<1>6. e.seq \in Nat /\ turns[t].base \in Nat /\ turns[t].end \in Nat \cup {NoSeq}
  BY DEF StoreTypeOK, TurnRow
<1> QED
  BY <1>2, <1>3, <1>4, <1>5, <1>6 DEF NoSeq

-----------------------------------------------------------------------------
(***************************************************************************)
(* The theorems                                                            *)
(***************************************************************************)
SafetyInv ==
    /\ ServiceInv
    /\ \A t \in Turns : Ending(t) /\ Triggered(t) /\ Windowed(t)

LEMMA SafetyInvInit == Init => SafetyInv
<1> SUFFICES ASSUME Init PROVE SafetyInv
  OBVIOUS
<1>1. DOMAIN turns = {} /\ r_session_messages = {} /\ r_soul_session_messages = {}
  BY DEF Init, StoreInit, EmptyTable
<1>2. published = {} /\ \A t \in Turns : pc[t] = "idle"
  BY DEF Init
<1> QED
  BY <1>1, <1>2, ServiceInvInit
     DEF SafetyInv, Ending, Triggered, Windowed, Terminal, Failing

LEMMA SafetyInvStep == SafetyInv /\ [Next]_vars => SafetyInv'
<1> SUFFICES ASSUME SafetyInv, [Next]_vars PROVE SafetyInv'
  OBVIOUS
<1>1. ServiceInv'
  BY ServiceInvStep DEF SafetyInv
<1>2. ASSUME NEW t \in Turns PROVE Ending(t)' /\ Triggered(t)' /\ Windowed(t)'
  BY EndingStep, TriggeredStep, WindowedStep DEF SafetyInv
<1> QED
  BY <1>1, <1>2 DEF SafetyInv

\* What is true of every turn between any two steps of the service: how it
\* ended and what was said of it, where its trigger and its reply are.
THEOREM SafetyInvariant == Spec => []SafetyInv
<1>1. Init => SafetyInv
  BY SafetyInvInit
<1>2. SafetyInv /\ [Next]_vars => SafetyInv'
  BY SafetyInvStep
<1> QED
  BY <1>1, <1>2, PTL DEF Spec

\* send_session stores the trigger and its entry before it starts the turn, so
\* the message is inside the turn's base whatever other sends write between.
THEOREM TriggersAreInput == Spec => []TriggerInInput
<1>1. SafetyInv => TriggerInInput
  BY TriggeredMeans DEF SafetyInv, ServiceInv, StoreInv, StoreTypeOK, TriggerInInput
<1> QED
  BY <1>1, SafetyInvariant, PTL

\* complete_turn closes the window behind the reply of its own turn, and the
\* reply follows the turn's input, whatever other turns write between.
THEOREM RepliesAreInWindow == Spec => []ReplyInWindow
<1>1. ASSUME SafetyInv PROVE ReplyInWindow
  <2>1. SessionLogDense /\ SoulLogDense /\ StoreTypeOK /\ DOMAIN turns \subseteq Turns
    BY <1>1 DEF SafetyInv, ServiceInv, StoreInv, StoreTypeOK
  <2> QED
    BY <1>1, <2>1, WindowedMeans DEF SafetyInv, ReplyInWindow
<1> QED
  BY <1>1, SafetyInvariant, PTL

\* A client that heard message_completed is never contradicted, although
\* complete_turn can fail after its first UPDATE.
THEOREM CompletionsAreFinal == Spec => []CompletionIsFinal
<1>1. SafetyInv => CompletionIsFinal
  BY DEF SafetyInv, Ending, ReplyStored, CompletionIsFinal
<1> QED
  BY <1>1, SafetyInvariant, PTL

\* Every way out of complete_provider_turn ends the turn.
THEOREM NoTurnIsOrphaned == Spec => []NoOrphanTurn
<1>1. SafetyInv => NoOrphanTurn
  BY DEF SafetyInv, ServiceInv, StoreInv, StoreTypeOK, Ending, NoOrphanTurn
<1> QED
  BY <1>1, SafetyInvariant, PTL

-----------------------------------------------------------------------------
(***************************************************************************)
(* SantiService implements TurnOutcome.  A step of the service moves the   *)
(* view of at most one turn; which abstract step that is follows from      *)
(* where the turn's task stands, and what its place says of the row comes  *)
(* from SafetyInv and, for the part before the outcome, from Began.        *)
(***************************************************************************)
\* Until its outcome is recorded a turn that has a task is running.
Began(t) ==
    pc[t] \in {"snapshot"} \cup Provider \cup Replying => turns[t].status = "running"

Unseen(t) == StatusOf(t)' = StatusOf(t) /\ ToldOf(t)' = ToldOf(t)

\* The abstract steps of one turn, on its own two values.
Moves(old, new, said, saying) ==
    \/ old = "none" /\ new = "running" /\ said = "nothing" /\ saying = "nothing"
    \/ /\ said = "nothing"
       /\ \/ old = "running" /\ new = "completed" /\ saying \in {"completed", "nothing"}
          \/ old \in {"running", "completed"} /\ new = "failed" /\ saying = "nothing"
          \/ old # "none" /\ saying = "failed" /\ (new = old \/ (old # "failed" /\ new = "failed"))

Noticed(t) == Moves(StatusOf(t), StatusOf(t)', ToldOf(t), ToldOf(t)')

-----------------------------------------------------------------------------
LEMMA KeptUnseen ==
    ASSUME NEW t, Kept(t)
    PROVE  Unseen(t)
<1>1. StatusOf(t)' = StatusOf(t)
  BY DEF Kept, OwnTablesKept, StatusOf
<1>2. \A e \in {"message_completed", "turn_failed"} : <<e, t>> \in published' <=> <<e, t>> \in published
  BY DEF Kept, Terminal
<1> QED
  BY <1>1, <1>2 DEF Unseen, ToldOf

LEMMA OthersUnseen ==
    ASSUME TurnTypeOK, LocalTypeOK, NEW t \in Turns, TaskStep(t), NEW u \in Turns, u # t
    PROVE  Unseen(u)
<1>1. OwnTablesKept(u)
  BY TaskCalls, OthersLeaveOwn
<1>2. Terminal(u)' = Terminal(u)
  BY OthersKeepEvents
<1>3. StatusOf(u)' = StatusOf(u)
  BY <1>1 DEF OwnTablesKept, StatusOf
<1>4. \A e \in {"message_completed", "turn_failed"} : <<e, u>> \in published' <=> <<e, u>> \in published
  BY <1>2 DEF Terminal
<1> QED
  BY <1>3, <1>4 DEF Unseen, ToldOf

\* A step is about one turn.
LEMMA OneTurnMoves ==
    ASSUME TurnTypeOK, LocalTypeOK, [Next]_vars
    PROVE  \E t : \A u \in Turns : u # t => Unseen(u)
<1>1. ASSUME UNCHANGED <<turns, published>>, NEW u PROVE Unseen(u)
  BY <1>1 DEF Unseen, StatusOf, ToldOf
<1> HIDE DEF Unseen
<1>2. CASE UNCHANGED vars
  BY <1>1, <1>2 DEF vars, storeVars, turnVars
<1>3. CASE SessionCall
  BY <1>1, <1>3 DEF SessionCall, CreateSession, UpdateSessionTitle, AcquireSoulSession, turnVars
<1>4. CASE CrashAndRestart
  <2>1. CASE UNCHANGED storeVars
    BY <1>1, <1>4, <2>1 DEF CrashAndRestart, storeVars
  <2>2. ASSUME NEW t \in Turns, CompleteTurnFirstUpdate(t) \/ FinishFailedTurnFirstUpdate(t)
        PROVE  \E x : \A u \in Turns : u # x => Unseen(u)
    <3>1. UNCHANGED published
      BY <1>4 DEF CrashAndRestart
    <3>2. ASSUME NEW u \in Turns, u # t PROVE Unseen(u)
      <4>1. OwnTablesKept(u)
        BY <2>2, <3>2, TurnWrites, OthersLeaveOwn DEF StoreCall
      <4> QED
        BY <3>1, <4>1 DEF OwnTablesKept, Unseen, StatusOf, ToldOf
    <3> QED
      BY <3>2
  <2> QED
    BY <1>4, <2>1, <2>2 DEF CrashAndRestart
<1>5. ASSUME NEW t \in Turns, TaskStep(t)
      PROVE  \E x : \A u \in Turns : u # x => Unseen(u)
  BY <1>5, OthersUnseen
<1> QED
  BY <1>2, <1>3, <1>4, <1>5 DEF Next, TaskStep

-----------------------------------------------------------------------------
(***************************************************************************)
(* The status before the outcome                                           *)
(***************************************************************************)
LEMMA BeganStep ==
    ASSUME SafetyInv, [Next]_vars, NEW t \in Turns, Began(t)
    PROVE  Began(t)'
<1> USE DEF Goto, FailWith
<1>1. LocalTypeOK /\ TurnTypeOK /\ Placed(t)
  BY TypeParts DEF SafetyInv, ServiceInv, StoreInv, AllPlaced
<1> DEFINE early == {"snapshot"} \cup Provider \cup Replying
<1>2. pc[t] \in early => t \in DOMAIN turns
  BY <1>1 DEF Placed, Owner
<1>3. CASE pc'[t] \notin early
  BY <1>3 DEF Began
<1>4. CASE pc[t] \in early /\ t \in DOMAIN turns' /\ turns'[t].status = turns[t].status
  BY <1>4 DEF Began
<1>5. CASE Kept(t)
  <2>1. "dead" \notin early
    BY DEF Provider, Replying
  <2> QED
    BY <1>2, <1>3, <1>4, <1>5, <2>1 DEF Kept, OwnTablesKept
<1>6. CASE Torn(t)
  BY <1>3, <1>6 DEF Torn, Provider, Replying
<1>7. CASE (StreamEvent(t) \/ ProviderTask(t)) /\ UNCHANGED <<lastSeen, crashes>>
  <2>1. pc[t] \in Provider
    BY <1>1, <1>7, StreamMoves, ProviderMoves DEF ProviderMoved
  <2>2. turns' = turns
    BY <1>7, StreamCalls, ProviderCalls DEF ChatKept
  <2> QED
    BY <1>2, <1>4, <2>1, <2>2
<1>8. CASE RefuseSend(t) \/ (\E s \in Sessions : Send(t, s)) \/ AcquireForSend(t) \/ RefUserMessage(t)
  BY <1>1, <1>3, <1>8 DEF RefuseSend, Send, AcquireForSend, RefUserMessage, LocalTypeOK, Provider,
                          Replying
<1>9. CASE StartTurnForSend(t)
  <2>1. ASSUME NEW s, NEW m, NEW seq, StartTurn(t, s, m, seq)
        PROVE  t \in DOMAIN turns' /\ turns'[t].status = "running"
    BY <2>1 DEF StartTurn, Insert
  <2>2. CASE pc'[t] = "snapshot"
    <3>1. StartTurn(t, SessionOf(User(t)), User(t), SeqOf(User(t)))
      BY <1>1, <1>9, <2>2 DEF StartTurnForSend, LocalTypeOK
    <3> QED
      BY <2>1, <3>1 DEF Began
  <2> QED
    BY <1>1, <1>3, <1>9, <2>2 DEF StartTurnForSend, LocalTypeOK, Provider, Replying
<1>10. CASE SpawnTurn(t)
  BY <1>2, <1>4, <1>10 DEF SpawnTurn, storeVars
<1>11. CASE AppendReply(t) \/ RefReply(t)
  <2>1. UNCHANGED turns /\ pc[t] \in Replying
    BY <1>11 DEF AppendReply, RefReply, AppendMessage, AppendMessageRef, storeVars, Replying
  <2> QED
    BY <1>2, <1>4, <2>1
<1>12. CASE \/ RefuseEmptyReply(t) \/ Complete(t) \/ Fail(t) \/ AppendPartial(t) \/ RefPartial(t)
            \/ AppendSystem(t) \/ RefSystem(t) \/ FinishFailure(t)
  BY <1>1, <1>3, <1>12 DEF RefuseEmptyReply, Complete, Fail, AppendPartial, RefPartial,
     AppendSystem, RefSystem, RefFailureMessage, FinishFailure, LocalTypeOK, Provider, Replying
<1> QED
  BY <1>1, <1>5, <1>6, <1>7, <1>8, <1>9, <1>10, <1>11, <1>12, StepOfOthers
     DEF TaskStep, Task, SendTask, EndTask

-----------------------------------------------------------------------------
(***************************************************************************)
(* The abstract step of the turn that moves                                *)
(***************************************************************************)
LEMMA TurnMoves ==
    ASSUME SafetyInv, [Next]_vars, NEW t \in Turns, Began(t)
    PROVE  Unseen(t) \/ Noticed(t)
<1> USE DEF Goto, FailWith
<1>1. LocalTypeOK /\ TurnTypeOK /\ Placed(t) /\ Ending(t)
  BY TypeParts DEF SafetyInv, ServiceInv, StoreInv, AllPlaced
<1>2. t \in DOMAIN turns => turns[t].status \in {"running", "completed", "failed"}
  BY <1>1 DEF TurnTypeOK, TurnRow
<1>3. pc[t] \in Owner => t \in DOMAIN turns
  BY <1>1 DEF Placed
<1>4. CASE UNCHANGED <<turns, published>>
  BY <1>4 DEF Unseen, StatusOf, ToldOf
<1>5. CASE Kept(t)
  BY <1>5, KeptUnseen
<1>6. ASSUME UNCHANGED turns, NEW event, NEW id, Publish(event, id),
             event \notin {"message_completed", "turn_failed"}
      PROVE  Unseen(t)
  BY <1>6 DEF Unseen, StatusOf, ToldOf, Publish
<1>7. CASE Torn(t)
  <2>1. ToldOf(t) = "nothing" /\ ToldOf(t)' = "nothing"
    BY <1>1, <1>7 DEF Torn, Ending, Terminal, ToldOf
  <2>2. t \in DOMAIN turns
    BY <1>3, <1>7 DEF Torn, Owner, Replying, Failing
  <2>3. CASE pc[t] = "complete"
    <3>1. StatusOf(t) = "running" /\ StatusOf(t)' = "completed"
      BY <1>1, <1>7, <2>2, <2>3 DEF Torn, Began, Replying, StatusOf, CompletedRow, TurnTypeOK, TurnRow
    <3> QED
      BY <2>1, <3>1 DEF Noticed, Moves
  <2>4. CASE pc[t] = "context"
    <3>1. StatusOf(t)' = StatusOf(t)
      BY <1>1, <1>7, <2>2, <2>4 DEF Torn, StatusOf, FailedRow, TurnTypeOK, TurnRow
    <3> QED
      BY <2>1, <3>1 DEF Unseen
  <2> QED
    BY <1>7, <2>3, <2>4 DEF Torn
<1>8. CASE StreamEvent(t) \/ ProviderTask(t)
  <2>1. UNCHANGED turns
    BY <1>8, StreamCalls, ProviderCalls DEF ChatKept
  <2>2. Terminal(t)' = Terminal(t)
    BY <1>8, ProviderKeepsEvents
  <2>3. \A e \in {"message_completed", "turn_failed"} : <<e, t>> \in published' <=> <<e, t>> \in published
    BY <2>2 DEF Terminal
  <2> QED
    BY <2>1, <2>3 DEF Unseen, StatusOf, ToldOf
<1>9. CASE RefuseSend(t) \/ (\E s \in Sessions : Send(t, s)) \/ AcquireForSend(t) \/ SpawnTurn(t)
  BY <1>4, <1>9 DEF RefuseSend, Send, AcquireForSend, SpawnTurn, AppendMessage, AcquireSoulSession,
                    storeVars
<1>10. CASE RefUserMessage(t)
  BY <1>4, <1>6, <1>10 DEF RefUserMessage, AppendMessageRef, storeVars
<1>11. CASE StartTurnForSend(t)
  <2>1. t \notin DOMAIN turns /\ StatusOf(t) = "none" /\ ToldOf(t) = "nothing"
    BY <1>1, <1>11 DEF StartTurnForSend, Ending, Terminal, StatusOf, ToldOf
  <2>2. ToldOf(t)' = "nothing"
    BY <1>11, <2>1 DEF StartTurnForSend, Publish, ToldOf
  <2>3. ASSUME NEW s, NEW m, NEW seq, StartTurn(t, s, m, seq)
        PROVE  StatusOf(t)' = "running"
    BY <2>3 DEF StartTurn, Insert, StatusOf
  <2>4. StatusOf(t)' \in {"none", "running"}
    BY <1>11, <2>1, <2>3 DEF StartTurnForSend, storeVars, StatusOf
  <2> QED
    BY <2>1, <2>2, <2>4 DEF Unseen, Noticed, Moves
<1>12. CASE RefuseEmptyReply(t) \/ AppendReply(t) \/ RefReply(t) \/ AppendPartial(t) \/ AppendSystem(t)
  BY <1>4, <1>12 DEF RefuseEmptyReply, AppendReply, RefReply, AppendPartial, AppendSystem,
                     AppendMessage, AppendMessageRef, storeVars
<1>13. CASE RefPartial(t) \/ RefSystem(t)
  BY <1>4, <1>6, <1>13 DEF RefPartial, RefSystem, RefFailureMessage, AppendMessageRef, storeVars
<1>14. CASE EndTask(t) /\ pc[t] \in {"complete", "fail", "context"}
  <2>1. t \in DOMAIN turns /\ ToldOf(t) = "nothing"
        /\ StatusOf(t) \in {"running", "completed", "failed"}
    BY <1>1, <1>2, <1>3, <1>14 DEF Ending, Terminal, ToldOf, StatusOf, Owner, Replying, Failing
  <2>2. CASE Complete(t)
    <3>1. StatusOf(t) = "running"
      BY <2>1, <2>2 DEF Complete, Began, Replying, StatusOf
    <3>2. StatusOf(t)' \in {"running", "completed"}
      BY <1>1, <2>1, <2>2, <3>1 DEF Complete, CompleteTurn, CompleteTurnFirstUpdate, CompletedRow,
         storeVars, StatusOf, TurnTypeOK, TurnRow
    <3>3. CASE UNCHANGED published
      BY <2>1, <3>1, <3>2, <3>3 DEF Unseen, Noticed, Moves, ToldOf
    <3>4. CASE CompleteTurn(t, SeqOf(Reply(t))) /\ Publish("message_completed", t)
      <4>1. StatusOf(t)' = "completed"
        BY <1>1, <2>1, <3>4 DEF CompleteTurn, CompletedRow, StatusOf, TurnTypeOK, TurnRow
      <4>2. ToldOf(t)' = "completed"
        BY <3>4 DEF Publish, ToldOf
      <4> QED
        BY <2>1, <3>1, <4>1, <4>2 DEF Noticed, Moves
    <3> QED
      BY <2>2, <3>3, <3>4 DEF Complete
  <2>3. CASE Fail(t)
    <3>1. StatusOf(t)' = StatusOf(t) \/ StatusOf(t)' = "failed"
      BY <1>1, <2>1, <2>3 DEF Fail, FailTurn, storeVars, StatusOf, TurnTypeOK, TurnRow
    <3>2. ToldOf(t)' \in {"nothing", "failed"}
      BY <2>1, <2>3 DEF Fail, Publish, ToldOf
    <3> QED
      BY <2>1, <3>1, <3>2 DEF Unseen, Noticed, Moves
  <2>4. CASE FinishFailure(t)
    <3>1. StatusOf(t)' = StatusOf(t)
      BY <1>1, <2>1, <2>4 DEF FinishFailure, FinishFailedTurnContext, FinishFailedTurnFirstUpdate,
         FailedRow, storeVars, StatusOf, TurnTypeOK, TurnRow
    <3>2. ToldOf(t)' = "failed"
      BY <2>1, <2>4 DEF FinishFailure, Publish, ToldOf
    <3> QED
      BY <2>1, <3>1, <3>2 DEF Noticed, Moves
  <2> QED
    BY <1>12, <1>13, <1>14, <2>2, <2>3, <2>4 DEF EndTask
<1>15. CASE Complete(t) \/ Fail(t) \/ FinishFailure(t)
  BY <1>14, <1>15 DEF EndTask, Complete, Fail, FinishFailure
<1> QED
  BY <1>1, <1>5, <1>7, <1>8, <1>9, <1>10, <1>11, <1>12, <1>13, <1>15, StepOfOthers
     DEF TaskStep, Task, SendTask, EndTask

\* A step of one turn's view is a step of the abstract turns.
LEMMA StepRefines ==
    ASSUME NEW t \in Turns, Noticed(t), \A u \in Turns : u # t => Unseen(u)
    PROVE  Outcome!Next
<1> DEFINE status == [u \in Turns |-> StatusOf(u)]
           told   == [u \in Turns |-> ToldOf(u)]
<1>1. ASSUME NEW u \in Turns, u # t
      PROVE  status'[u] = status[u] /\ told'[u] = told[u]
  BY <1>1 DEF Unseen
<1>2. status'[t] = StatusOf(t)' /\ told'[t] = ToldOf(t)'
  OBVIOUS
<1>3. status' = [status EXCEPT ![t] = StatusOf(t)'] /\ told' = [told EXCEPT ![t] = ToldOf(t)']
  BY <1>1, <1>2
<1>4. status[t] = StatusOf(t) /\ told[t] = ToldOf(t)
  OBVIOUS
<1>5. StatusOf(t)' = StatusOf(t) => status' = status
  BY <1>3, <1>4
<1>6. ToldOf(t)' = ToldOf(t) => told' = told
  BY <1>3, <1>4
<1> HIDE DEF status, told
<1> QED
  BY <1>3, <1>4, <1>5, <1>6 DEF Noticed, Moves, status, told, Outcome!Next, Outcome!Start, Outcome!Finish,
     Outcome!FinishSilently, Outcome!Break, Outcome!ReportFailure

\* A client of the service may forget the store, the tasks, the faults and the
\* crashes: what it sees of the turns is a behaviour of TurnOutcome.
THEOREM ServiceImplementsOutcome == Spec => OutcomeSpec
<1> DEFINE AllBegan == \A t \in Turns : Began(t)
<1>1. Init => AllBegan /\ Outcome!Init
  BY DEF Init, StoreInit, EmptyTable, Began, Provider, Replying, Outcome!Init, StatusOf, ToldOf
<1>2. SafetyInv /\ AllBegan /\ [Next]_vars => AllBegan'
  <2>1. ASSUME SafetyInv, AllBegan, [Next]_vars, NEW t \in Turns PROVE Began(t)'
    BY <2>1, BeganStep
  <2> QED
    BY <2>1
<1>3. ASSUME SafetyInv, AllBegan, [Next]_vars PROVE [Outcome!Next]_(Outcome!outcomeVars)
  <2>1. TurnTypeOK /\ LocalTypeOK
    BY <1>3, TypeParts DEF SafetyInv, ServiceInv, StoreInv
  <2>2. PICK t : \A u \in Turns : u # t => Unseen(u)
    BY <1>3, <2>1, OneTurnMoves
  <2>3. CASE t \in Turns /\ Noticed(t)
    BY <2>2, <2>3, StepRefines
  <2>4. CASE \A u \in Turns : Unseen(u)
    BY <2>4 DEF Unseen, Outcome!outcomeVars
  <2> QED
    BY <1>3, <2>2, <2>3, <2>4, TurnMoves
<1> HIDE DEF AllBegan
<1> QED
  BY <1>1, <1>2, <1>3, SafetyInvariant, PTL DEF Spec, OutcomeSpec, Outcome!Spec
=============================================================================
