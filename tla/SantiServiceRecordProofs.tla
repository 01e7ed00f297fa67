----------------------- MODULE SantiServiceRecordProofs ---------------------
(***************************************************************************)
(* What a turn leaves behind is whole.  The failure path                   *)
(* (service/failure.rs) leaves a record the next request reads: while no   *)
(* store call has failed, each of its points finds what the points before  *)
(* it wrote, in the turn's window and in that order.  The rounds of the    *)
(* provider phase (ProviderTurn) close the spans they open and answer the  *)
(* calls they record, every event names rows that are committed, and the   *)
(* terminal event is the last that is written or said of the turn.         *)
(***************************************************************************)
EXTENDS SantiServiceSafetyProofs

\* The entry of message m in the log of t's session, inside t's window.
Entry(t, m, e) ==
    /\ e \in r_soul_session_messages
    /\ e.session = turns[t].session
    /\ e.type = "message"
    /\ e.target = m
    /\ e.seq > turns[t].base

PartialStored(t) == Partial(t) \in DOMAIN messages /\ messages[Partial(t)].state = "aborted"

PartialLogged(t) ==
    text[t] = "text" => PartialStored(t) /\ \E e : Entry(t, Partial(t), e)

\* The notice is at n, after the partial output.
NoticeAt(t, n) ==
    /\ Entry(t, System(t), n)
    /\ text[t] = "text" => \E e : Entry(t, Partial(t), e) /\ e.seq < n.seq

Recorded(t) ==
    faults = 0 =>
        /\ pc[t] \in {"partial", "partialRef"} => text[t] = "text"
        /\ pc[t] = "partialRef" => PartialStored(t)
        /\ pc[t] \in {"system", "systemRef", "context"} => PartialLogged(t)
        /\ pc[t] = "context" => lastSeen[t] # 0 /\ \E n : NoticeAt(t, n)
        /\ <<"turn_failed", t>> \in published =>
               /\ turns[t].status = "failed"
               /\ PartialLogged(t)
               /\ \E n : NoticeAt(t, n) /\ n.seq <= turns[t].end

-----------------------------------------------------------------------------
(***************************************************************************)
(* What was recorded stays                                                 *)
(***************************************************************************)
LEMMA EntryStays ==
    ASSUME NEW t, t \in DOMAIN turns, LogExtended, TurnsKept, NEW m, NEW e, Entry(t, m, e)
    PROVE  /\ e \in r_soul_session_messages'
           /\ e.session = turns'[t].session
           /\ e.type = "message"
           /\ e.target = m
           /\ e.seq > turns'[t].base
  BY DEF Entry, LogExtended, TurnsKept

LEMMA PartialStays ==
    ASSUME NEW t, t \in DOMAIN turns, LogExtended, TurnsKept, MessagesKept,
           text'[t] = text[t], PartialLogged(t)
    PROVE  PartialLogged(t)'
<1>1. PartialStored(t) => PartialStored(t)'
  BY DEF PartialStored, MessagesKept, Partial
<1>2. ASSUME NEW e, Entry(t, Partial(t), e) PROVE \E x : Entry(t, Partial(t), x)'
  BY <1>2, EntryStays DEF Entry, Partial
<1> QED
  BY <1>1, <1>2 DEF PartialLogged

LEMMA NoticeStays ==
    ASSUME NEW t, t \in DOMAIN turns, LogExtended, TurnsKept, text'[t] = text[t],
           NEW n, NoticeAt(t, n)
    PROVE  NoticeAt(t, n)'
<1>1. Entry(t, System(t), n)'
  BY EntryStays DEF NoticeAt, Entry, System
<1>2. ASSUME NEW e, Entry(t, Partial(t), e), e.seq < n.seq
      PROVE  \E x : Entry(t, Partial(t), x)' /\ x.seq < n.seq
  BY <1>2, EntryStays DEF Entry, Partial
<1> QED
  BY <1>1, <1>2 DEF NoticeAt

LEMMA RecordedKept ==
    ASSUME NEW u, Recorded(u), Ending(u), Placed(u), Kept(u), LogExtended, TurnsKept,
           MessagesKept, faults' = 0 => faults = 0
    PROVE  Recorded(u)'
<1> SUFFICES ASSUME faults' = 0, faults = 0 PROVE Recorded(u)'
  BY DEF Recorded
<1>1. /\ pc'[u] \in {"partial", "partialRef", "system", "systemRef", "context"} =>
             pc'[u] = pc[u] /\ u \in DOMAIN turns
      /\ text'[u] = text[u] /\ lastSeen'[u] = lastSeen[u]
  BY DEF Kept, Placed, Owner, Failing
<1>2. <<"turn_failed", u>> \in published' =>
          /\ <<"turn_failed", u>> \in published
          /\ u \in DOMAIN turns
          /\ turns'[u] = turns[u]
  BY DEF Kept, Terminal, Ending, OwnTablesKept
<1>3. PartialStored(u) => PartialStored(u)'
  BY DEF PartialStored, MessagesKept, Partial
<1> QED
  BY <1>1, <1>2, <1>3, PartialStays, NoticeStays DEF Recorded

\* A step that does not move along the failure path and says nothing of it.
LEMMA RecordedElsewhere ==
    ASSUME NEW t, pc'[t] \notin {"partial", "partialRef", "system", "systemRef", "context"},
           <<"turn_failed", t>> \notin published'
    PROVE  Recorded(t)'
  BY DEF Recorded

-----------------------------------------------------------------------------
(***************************************************************************)
(* What the path records                                                   *)
(***************************************************************************)
\* A new entry is behind the turn's base and behind every entry of the log.
LEMMA EntryNow ==
    ASSUME StoreInv, NEW t, t \in DOMAIN turns, NEW m, AppendMessageRef(Session(t), m)
    PROVE  \E n : /\ n \in r_soul_session_messages'
                  /\ n.session = turns'[t].session
                  /\ n.type = "message"
                  /\ n.target = m
                  /\ n.seq > turns'[t].base
                  /\ \A x, e : Entry(t, x, e) => e.seq < n.seq
<1> DEFINE s == turns[t].session
           next == soul_sessions[s].next_seq
           n == [session |-> s, type |-> "message", target |-> m, seq |-> next]
<1>1. n \in r_soul_session_messages' /\ UNCHANGED turns
  BY DEF AppendMessageRef, AppendEntry, Session
<1>2. s \in DOMAIN soul_sessions /\ turns[t].base < next
  BY DEF StoreInv, TurnWindow
<1>3. turns[t].base \in Nat /\ next \in Nat
  BY <1>2 DEF StoreInv, StoreTypeOK, TurnRow, SoulRow
<1>4. ASSUME NEW x, NEW e, Entry(t, x, e) PROVE e.seq < next
  <2>1. e.seq \in SoulSeqs(s)
    BY <1>4 DEF Entry, SoulSeqs, SeqsOf
  <2>2. e.seq \in 1 .. next - 1
    BY <1>2, <2>1 DEF StoreInv, SoulLogDense
  <2> QED
    BY <1>3, <2>2
<1>5. n.session = s /\ n.type = "message" /\ n.target = m /\ n.seq = next
  OBVIOUS
<1> HIDE DEF n
<1> QED
  BY <1>1, <1>2, <1>3, <1>4, <1>5

LEMMA RecordedEnd ==
    ASSUME StoreInv, LocalTypeOK, NEW t \in Turns, Recorded(t), Ending(t), Placed(t),
           LogExtended, TurnsKept, MessagesKept, faults' \in Nat, faults \in Nat,
           faults' >= faults, EndTask(t)
    PROVE  Recorded(t)'
<1> SUFFICES ASSUME faults' = 0 PROVE Recorded(t)'
  BY DEF Recorded
<1> USE DEF Goto
<1>1. faults = 0 /\ ~StoreFault
  BY DEF StoreFault
<1>2. t \in DOMAIN turns /\ pc[t] # "done"
  BY DEF EndTask, RefuseEmptyReply, AppendReply, RefReply, Complete, Fail, AppendPartial,
         RefPartial, AppendSystem, RefSystem, FinishFailure, Placed, Owner, Replying, Failing
<1>3. <<"turn_failed", t>> \notin published
  BY <1>2 DEF Ending, Terminal
<1>4. CASE RefuseEmptyReply(t) \/ AppendReply(t) \/ RefReply(t) \/ Complete(t)
  <2>1. pc'[t] \in {"fail", "replyRef", "complete", "done"}
    BY <1>4 DEF RefuseEmptyReply, AppendReply, RefReply, Complete, FailWith, LocalTypeOK
  <2>2. UNCHANGED published \/ Publish("message_completed", t)
    BY <1>4 DEF RefuseEmptyReply, AppendReply, RefReply, Complete
  <2> QED
    BY <1>3, <2>1, <2>2, RecordedElsewhere DEF Publish
<1>5. CASE Fail(t)
  <2>1. /\ UNCHANGED <<text, published>>
        /\ pc'[t] = IF text[t] = "text" THEN "partial" ELSE "system"
    BY <1>1, <1>5 DEF Fail, LocalTypeOK
  <2> QED
    BY <1>3, <2>1 DEF Recorded, PartialLogged
<1>6. CASE AppendPartial(t)
  <2>1. /\ pc'[t] = "partialRef"
        /\ UNCHANGED <<text, published>>
        /\ AppendMessage(Session(t), Partial(t), "soul", "aborted")
    BY <1>1, <1>6 DEF AppendPartial, LocalTypeOK
  <2>2. PartialStored(t)'
    BY <2>1 DEF AppendMessage, Insert, PartialStored, Partial
  <2> QED
    BY <1>1, <1>3, <1>6, <2>1, <2>2 DEF Recorded, AppendPartial
<1>7. CASE RefPartial(t)
  <2>1. /\ pc'[t] = "system" /\ text' = text
        /\ Publish("message_created", Partial(t))
        /\ AppendMessageRef(Session(t), Partial(t))
    BY <1>1, <1>7 DEF RefPartial, RefFailureMessage, LocalTypeOK
  <2>2. \E e : Entry(t, Partial(t), e)'
    BY <1>2, <2>1, EntryNow DEF Entry, Partial
  <2>3. PartialStored(t)'
    BY <1>1, <1>7 DEF Recorded, RefPartial, PartialStored, MessagesKept, Partial
  <2>4. <<"turn_failed", t>> \notin published'
    BY <1>3, <2>1 DEF Publish
  <2> QED
    BY <2>1, <2>2, <2>3, <2>4 DEF Recorded, PartialLogged
<1>8. CASE AppendSystem(t)
  <2>1. pc'[t] = "systemRef" /\ UNCHANGED <<text, published>>
    BY <1>1, <1>8 DEF AppendSystem, LocalTypeOK
  <2>2. PartialLogged(t)'
    BY <1>1, <1>2, <1>8, <2>1, PartialStays DEF Recorded, AppendSystem
  <2> QED
    BY <1>3, <2>1, <2>2 DEF Recorded
<1>9. CASE RefSystem(t)
  <2>1. /\ pc'[t] = "context" /\ text' = text
        /\ lastSeen'[t] = SeqOf(System(t))
        /\ Publish("message_created", System(t))
        /\ AppendMessageRef(Session(t), System(t))
    BY <1>1, <1>9 DEF RefSystem, RefFailureMessage, LocalTypeOK
  <2>2. PartialLogged(t)
    BY <1>1, <1>9 DEF Recorded, RefSystem
  <2>3. PartialLogged(t)'
    BY <1>2, <2>1, <2>2, PartialStays
  <2>4. lastSeen'[t] # 0
    <3>1. PICK row \in r_session_messages : row.seq = SeqOf(System(t))
      BY <1>9, RowInSession DEF StoreInv, Placed, RefSystem
    <3>2. row.seq \in Nat \ {0}
      BY DEF StoreInv, StoreTypeOK
    <3> QED
      BY <2>1, <3>1, <3>2
  <2>5. \E n : NoticeAt(t, n)'
    <3>1. PICK n : /\ n \in r_soul_session_messages'
                   /\ n.session = turns'[t].session
                   /\ n.type = "message"
                   /\ n.target = System(t)
                   /\ n.seq > turns'[t].base
                   /\ \A x, e : Entry(t, x, e) => e.seq < n.seq
      BY <1>2, <2>1, EntryNow
    <3>2. Entry(t, System(t), n)'
      BY <3>1 DEF Entry, System
    <3>3. ASSUME NEW e, Entry(t, Partial(t), e)
          PROVE  \E x : Entry(t, Partial(t), x)' /\ x.seq < n.seq
      <4>1. Entry(t, Partial(t), e)'
        BY <1>2, <3>3, EntryStays DEF Entry, Partial
      <4> QED
        BY <3>1, <3>3, <4>1
    <3> QED
      BY <2>1, <2>2, <3>2, <3>3 DEF NoticeAt, PartialLogged
  <2>6. <<"turn_failed", t>> \notin published'
    BY <1>3, <2>1 DEF Publish
  <2> QED
    BY <2>1, <2>3, <2>4, <2>5, <2>6 DEF Recorded
<1>10. CASE FinishFailure(t)
  <2>1. /\ lastSeen[t] # 0 /\ turns[t].status = "failed" /\ PartialLogged(t)
        /\ \E n : NoticeAt(t, n)
    BY <1>1, <1>10 DEF FinishFailure, Recorded, Ending, Failing
  <2>2. FinishFailedTurnContext(t, lastSeen[t]) /\ pc'[t] = "done" /\ text' = text
    BY <1>1, <1>10, <2>1 DEF FinishFailure, LocalTypeOK
  <2>3. /\ turns'[t].status = "failed"
        /\ turns'[t].end = soul_sessions[turns[t].session].next_seq - 1
    BY <1>2, <2>1, <2>2 DEF FinishFailedTurnContext, FailedRow, StoreInv, StoreTypeOK, TurnRow
  <2>4. PartialLogged(t)'
    BY <1>2, <2>1, <2>2, PartialStays
  <2>5. PICK n : NoticeAt(t, n)
    BY <2>1
  <2>6. NoticeAt(t, n)'
    BY <1>2, <2>2, <2>5, NoticeStays
  <2>7. n.seq <= turns'[t].end
    <3> DEFINE s == turns[t].session
    <3>1. n.seq \in SoulSeqs(s) /\ s \in DOMAIN soul_sessions
      BY <1>2, <2>5 DEF NoticeAt, Entry, SoulSeqs, SeqsOf, StoreInv, TurnWindow
    <3>2. n.seq \in 1 .. soul_sessions[s].next_seq - 1
      BY <3>1 DEF StoreInv, SoulLogDense
    <3> QED
      BY <2>3, <3>2
  <2> QED
    BY <2>2, <2>3, <2>4, <2>6, <2>7 DEF Recorded
<1> QED
  BY <1>4, <1>5, <1>6, <1>7, <1>8, <1>9, <1>10 DEF EndTask

LEMMA RecordedStep ==
    ASSUME SafetyInv, [Next]_vars, NEW t \in Turns, Recorded(t)
    PROVE  Recorded(t)'
<1>1. /\ ServiceInv /\ StoreInv /\ LocalTypeOK /\ TurnTypeOK
      /\ Placed(t) /\ Ending(t) /\ Ending(t)'
  BY TypeParts, EndingStep DEF SafetyInv, ServiceInv, StoreInv, AllPlaced
<1>2. LogExtended /\ TurnsKept /\ MessagesKept
  BY <1>1, NextUsesStore, HistoryStep, MessagesStep
<1>3. faults' \in Nat /\ faults \in Nat /\ faults' >= faults
  BY <1>1, FaultsGrow
<1>4. pc'[t] # "done" => <<"turn_failed", t>> \notin published'
  BY <1>1 DEF Ending, Terminal
<1>5. CASE pc'[t] \notin {"partial", "partialRef", "system", "systemRef", "context", "done"}
  BY <1>4, <1>5, RecordedElsewhere
<1>6. CASE Kept(t)
  BY <1>1, <1>2, <1>3, <1>6, RecordedKept
<1>7. CASE Torn(t)
  BY <1>5, <1>7 DEF Torn
<1>8. CASE (StreamEvent(t) \/ ProviderTask(t)) /\ UNCHANGED <<lastSeen, crashes>>
  BY <1>1, <1>5, <1>8, StreamMoves, ProviderMoves DEF ProviderMoved
<1>9. CASE RefuseSend(t) \/ SendTask(t) \/ \E s \in Sessions : Send(t, s)
  BY <1>1, <1>5, <1>9
     DEF RefuseSend, Send, SendTask, AcquireForSend, RefUserMessage, StartTurnForSend,
         SpawnTurn, Goto, LocalTypeOK
<1>10. CASE EndTask(t)
  BY <1>1, <1>2, <1>3, <1>10, RecordedEnd
<1> QED
  BY <1>1, <1>6, <1>7, <1>8, <1>9, <1>10, StepOfOthers DEF TaskStep, Task

LEMMA RecordedMeans ==
    ASSUME StoreInv, NEW t, Ending(t), Recorded(t), faults = 0,
           <<"turn_failed", t>> \in published
    PROVE  LET turn   == turns[t]
               notice == LogSeq(turn.session, System(t)) IN
           /\ turn.status = "failed"
           /\ notice \in turn.base + 1 .. turn.end
           /\ text[t] = "text" =>
                  /\ Partial(t) \in DOMAIN messages
                  /\ messages[Partial(t)].state = "aborted"
                  /\ LogSeq(turn.session, Partial(t)) \in turn.base + 1 .. notice - 1
<1>1. t \in DOMAIN turns
  BY DEF Ending, Terminal
<1>2. turns[t].base \in Nat /\ turns[t].end \in Int
  BY <1>1 DEF StoreInv, StoreTypeOK, TurnRow, NoSeq
<1>3. ASSUME NEW m, NEW e, Entry(t, m, e)
      PROVE  LogSeq(turns[t].session, m) = e.seq /\ e.seq \in Nat
  BY <1>3, EntryOfMessage DEF Entry, StoreInv, StoreTypeOK
<1>4. PICK n : NoticeAt(t, n) /\ n.seq <= turns[t].end
  BY DEF Recorded
<1>5. /\ Entry(t, System(t), n) /\ n.seq > turns[t].base
      /\ LogSeq(turns[t].session, System(t)) = n.seq /\ n.seq \in Nat
  BY <1>3, <1>4 DEF NoticeAt, Entry
<1>6. LogSeq(turns[t].session, System(t)) \in turns[t].base + 1 .. turns[t].end
  BY <1>2, <1>4, <1>5
<1>7. ASSUME text[t] = "text"
      PROVE  /\ PartialStored(t)
             /\ LogSeq(turns[t].session, Partial(t)) \in turns[t].base + 1 .. n.seq - 1
  <2>1. PICK e : Entry(t, Partial(t), e) /\ e.seq < n.seq
    BY <1>4, <1>7 DEF NoticeAt
  <2>2. /\ LogSeq(turns[t].session, Partial(t)) = e.seq
        /\ e.seq \in Nat /\ e.seq > turns[t].base
    BY <1>3, <2>1 DEF Entry
  <2> QED
    BY <1>2, <1>5, <1>7, <2>1, <2>2 DEF Recorded, PartialLogged
<1> QED
  BY <1>5, <1>6, <1>7 DEF Recorded, PartialStored

\* A failure that was reported is in the turn's window for the next request to
\* read, behind the partial output, whatever other turns write between.
THEOREM FailuresAreRecorded == Spec => []FailureIsRecorded
<1> DEFINE AllRecorded == \A t \in Turns : Recorded(t)
<1>1. Init => AllRecorded
  BY DEF Init, Recorded
<1>2. SafetyInv /\ AllRecorded /\ [Next]_vars => AllRecorded'
  <2>1. ASSUME SafetyInv, AllRecorded, [Next]_vars, NEW t \in Turns PROVE Recorded(t)'
    BY <2>1, RecordedStep
  <2> QED
    BY <2>1
<1>3. SafetyInv /\ AllRecorded => FailureIsRecorded
  BY RecordedMeans DEF SafetyInv, ServiceInv, FailureIsRecorded
<1> HIDE DEF AllRecorded
<1> QED
  BY <1>1, <1>2, <1>3, SafetyInvariant, PTL DEF Spec

-----------------------------------------------------------------------------
(***************************************************************************)
(* The rounds of the provider phase                                        *)
(***************************************************************************)
RuntimeRows == <<thinking_spans, tool_calls, tool_results>>

\* A step that concerns no round: what the rounds keep stays, a task that is in
\* a round, or dead, stays there unless the process dies, and none comes to
\* run a tool.
RoundsKept ==
    /\ UNCHANGED <<RuntimeRows, current, summarised, calls, truncated>>
    /\ \A u \in Turns : pc[u] \in {"stream", "result", "dead"} => pc'[u] \in {pc[u], "dead"}
    /\ \A u \in Turns : pc'[u] = "result" => pc[u] = "result"

LEMMA RoundStep ==
    ASSUME LocalTypeOK, [Next]_vars
    PROVE  \/ RoundsKept
           \/ \E t \in Turns : (StreamEvent(t) \/ ProviderTask(t)) /\ UNCHANGED <<lastSeen, crashes>>
<1> USE DEF LocalTypeOK, RoundsKept, RuntimeRows, unchangedTurn, roundVars, Goto, FailWith
<1>1. CASE UNCHANGED vars
  BY <1>1 DEF vars, storeVars, turnVars
<1>2. CASE SessionCall
  BY <1>2 DEF SessionCall, turnVars, CreateSession, UpdateSessionTitle, AcquireSoulSession
<1>3. CASE CrashAndRestart
  BY <1>3 DEF CrashAndRestart, storeVars, CompleteTurnFirstUpdate, FinishFailedTurnFirstUpdate
<1>4. ASSUME NEW t \in Turns, RefuseSend(t) \/ (\E s \in Sessions : Send(t, s)) \/ SendTask(t)
      PROVE  RoundsKept
  <2>1. CASE RefuseSend(t)
    BY <2>1 DEF RefuseSend, storeVars
  <2>2. CASE \E s \in Sessions : Send(t, s)
    BY <2>2 DEF Send, storeVars, AppendMessage
  <2>3. CASE AcquireForSend(t)
    BY <2>3 DEF AcquireForSend, storeVars, AcquireSoulSession
  <2>4. CASE RefUserMessage(t)
    BY <2>4 DEF RefUserMessage, storeVars, AppendMessageRef
  <2>5. CASE StartTurnForSend(t)
    BY <2>5 DEF StartTurnForSend, storeVars, StartTurn
  <2>6. CASE SpawnTurn(t)
    BY <2>6 DEF SpawnTurn, storeVars
  <2> QED
    BY <1>4, <2>1, <2>2, <2>3, <2>4, <2>5, <2>6 DEF SendTask
<1>5. ASSUME NEW t \in Turns, EndTask(t) PROVE RoundsKept
  <2>1. CASE RefuseEmptyReply(t)
    BY <2>1 DEF RefuseEmptyReply, storeVars
  <2>2. CASE AppendReply(t)
    BY <2>2 DEF AppendReply, storeVars, AppendMessage
  <2>3. CASE RefReply(t)
    BY <2>3 DEF RefReply, storeVars, AppendMessageRef
  <2>4. CASE Complete(t)
    BY <2>4 DEF Complete, storeVars, CompleteTurnFirstUpdate, CompleteTurn
  <2>5. CASE Fail(t)
    BY <2>5 DEF Fail, storeVars, FailTurn
  <2>6. CASE AppendPartial(t) \/ AppendSystem(t)
    BY <2>6 DEF AppendPartial, AppendSystem, storeVars, AppendMessage
  <2>7. CASE RefPartial(t) \/ RefSystem(t)
    BY <2>7 DEF RefPartial, RefSystem, RefFailureMessage, storeVars, AppendMessageRef
  <2>8. CASE FinishFailure(t)
    BY <2>8 DEF FinishFailure, storeVars, FinishFailedTurnFirstUpdate, FinishFailedTurnContext
  <2> QED
    BY <1>5, <2>1, <2>2, <2>3, <2>4, <2>5, <2>6, <2>7, <2>8 DEF EndTask
<1> QED
  BY <1>1, <1>2, <1>3, <1>4, <1>5 DEF Next, Task

-----------------------------------------------------------------------------
(***************************************************************************)
(* Spans                                                                   *)
(***************************************************************************)
\* The spans a task holds are in the table, and of its own turn.
SpansNamed(t) == {current[t], summarised[t]} \ {None} \subseteq SpansOf(t)

\* A span of the task's turn that runs is the one the task holds open.
Excused(t) == truncated[t] \/ pc[t] = "dead" \/ faults > 0

Settled(t) ==
    \A sp \in DOMAIN thinking_spans :
        thinking_spans[sp].turn = t /\ thinking_spans[sp].state = "running" =>
            (pc[t] = "stream" /\ current[t] = sp) \/ Excused(t)

\* What a step of t's rounds leaves of another turn.
LEMMA OthersKeepRounds ==
    ASSUME LocalTypeOK, NEW t \in Turns, NEW u \in Turns \ {t}, StreamEvent(t) \/ ProviderTask(t)
    PROVE  /\ pc'[u] = pc[u] /\ calls'[u] = calls[u] /\ truncated'[u] = truncated[u]
           /\ current'[u] = current[u] /\ summarised'[u] = summarised[u]
<1> USE DEF LocalTypeOK, FailWith, Hear, CloseSpan
<1>1. CASE StreamEvent(t)
  <2>1. CASE ResponseStarted(t) \/ ReasoningSummary(t)
    BY <2>1 DEF ResponseStarted, ReasoningSummary, EnsureThinkingSpan
  <2>2. CASE (\E delta \in Texts : TextDelta(t, delta)) \/ (\E c \in Calls : FunctionCallRequested(t, c))
    BY <2>2 DEF TextDelta, FunctionCallRequested
  <2>3. CASE Completed(t) \/ EndOfStream(t)
    BY <2>3 DEF Completed, EndOfStream, AfterStream
  <2>4. CASE StreamFailed(t) \/ StreamStoreError(t)
    BY <2>4 DEF StreamFailed, StreamStoreError
  <2> QED
    BY <1>1, <2>1, <2>2, <2>3, <2>4 DEF StreamEvent
<1>2. CASE ProviderTask(t)
  BY <1>2 DEF ProviderTask, Request, StartToolCall, FinishToolCall
<1> QED
  BY <1>1, <1>2

\* What a step does to the spans and to the one its task holds open: nothing,
\* or the open span ends, or, with none open, a new one is opened.
SpanEnded(t) ==
    /\ current[t] # None
    /\ \E state \in {"completed", "failed"} : FinishThinkingSpan(current[t], state)

SpanOpened(t) ==
    /\ current[t] = None
    /\ current'[t] = NewSpan(t)
    /\ pc'[t] = "stream"
    /\ AppendThinkingSpan(NewSpan(t), t)

SpanKept(t) ==
    /\ \A sp \in DOMAIN thinking_spans' :
           /\ sp \in DOMAIN thinking_spans
           /\ thinking_spans'[sp].turn = thinking_spans[sp].turn
           /\ thinking_spans'[sp].state = thinking_spans[sp].state
    /\ (pc'[t] = "stream" /\ current'[t] = current[t]) \/ current[t] = None
          \/ pc[t] # "stream" \/ truncated'[t]

SpanStep(t) == SpanEnded(t) \/ SpanOpened(t) \/ SpanKept(t) \/ faults' > 0

LEMMA RoundSpans ==
    ASSUME LocalTypeOK, StoreTypeOK, NEW t \in Turns, StreamEvent(t) \/ ProviderTask(t)
    PROVE  SpanStep(t)
<1> USE DEF LocalTypeOK, SpanStep
<1>0. StoreFault => faults' > 0
  BY BoundsAssumption DEF StoreFault
<1>1. ASSUME NEW sp, UpdateThinkingSpanSummary(sp), pc'[t] = pc[t], current'[t] = current[t], pc[t] = "stream"
      PROVE  SpanKept(t)
  <2>1. sp \in DOMAIN thinking_spans /\ thinking_spans[sp] \in SpanRow
    BY <1>1 DEF UpdateThinkingSpanSummary, StoreTypeOK
  <2>2. SpanUpdated(sp) /\ thinking_spans'[sp].state = thinking_spans[sp].state
    BY <1>1, <2>1 DEF UpdateThinkingSpanSummary, SpanUpdated, SpanRow
  <2> QED
    BY <1>1, <2>2 DEF SpanKept, SpanUpdated
<1>2. ASSUME NEW state \in {"completed", "failed"}, CloseSpan(t, state)
      PROVE  SpanEnded(t) \/ SpanKept(t)
  BY <1>2 DEF CloseSpan, SpanEnded, SpanKept, storeVars
<1>3. CASE ResponseStarted(t)
  BY <1>3 DEF ResponseStarted, EnsureThinkingSpan, Hear, SpanOpened, SpanKept, storeVars
<1>4. CASE ReasoningSummary(t)
  BY <1>1, <1>4 DEF ReasoningSummary, Hear, SpanKept, storeVars
<1>5. CASE \E delta \in Texts : TextDelta(t, delta)
  BY <1>2, <1>5 DEF TextDelta, Hear, SpanKept, storeVars
<1>6. CASE \E c \in Calls : FunctionCallRequested(t, c)
  BY <1>2, <1>6 DEF FunctionCallRequested
<1>7. CASE Completed(t) \/ StreamFailed(t)
  BY <1>2, <1>7 DEF Completed, StreamFailed
<1>8. CASE EndOfStream(t)
  BY <1>8 DEF EndOfStream, SpanKept, storeVars
<1>9. CASE StreamStoreError(t)
  BY <1>0, <1>9 DEF StreamStoreError
<1>10. CASE ProviderTask(t)
  BY <1>10 DEF ProviderTask, Request, StartToolCall, FinishToolCall, SpanKept, storeVars,
               AppendToolCall, AppendToolResult
<1> QED
  BY <1>3, <1>4, <1>5, <1>6, <1>7, <1>8, <1>9, <1>10 DEF StreamEvent

LEMMA ExcusesStay ==
    ASSUME LocalTypeOK, [Next]_vars, NEW t \in Turns, Excused(t)
    PROVE  Excused(t)'
<1>1. faults > 0 => faults' > 0
  BY FaultsGrow
<1>2. CASE RoundsKept
  BY <1>1, <1>2 DEF RoundsKept, Excused
<1>3. ASSUME NEW u \in Turns, StreamEvent(u) \/ ProviderTask(u), UNCHANGED <<lastSeen, crashes>>
      PROVE  Excused(t)'
  <2>1. CASE u # t
    BY <1>1, <1>3, <2>1, OthersKeepRounds DEF Excused
  <2>2. CASE u = t
    <3>1. pc[t] # "dead"
      BY <1>3, <2>2 DEF StreamEvent, ResponseStarted, ReasoningSummary, TextDelta, Hear,
         FunctionCallRequested, Completed, EndOfStream, StreamFailed, StreamStoreError,
         ProviderTask, Request, StartToolCall, FinishToolCall
    <3>2. truncated[t] => truncated'[t]
      BY <1>3, <2>2 DEF StreamEvent, ResponseStarted, ReasoningSummary, TextDelta,
         FunctionCallRequested, Completed, EndOfStream, StreamFailed, StreamStoreError,
         ProviderTask, Request, StartToolCall, FinishToolCall, LocalTypeOK
    <3> QED
      BY <1>1, <3>1, <3>2 DEF Excused
  <2> QED
    BY <2>1, <2>2
<1> QED
  BY <1>2, <1>3, RoundStep

LEMMA SettledStep ==
    ASSUME ServiceInv, [Next]_vars, NEW t \in Turns, Settled(t)
    PROVE  Settled(t)'
<1>0. LocalTypeOK /\ StoreTypeOK /\ RuntimeTypeOK
  BY TypeParts DEF ServiceInv, StoreInv
<1>1. EndedSpansKept
  BY <1>0, NextUsesStore, EndedSpansStep DEF ServiceInv
<1>2. Excused(t) => Excused(t)'
  BY <1>0, ExcusesStay
<1> SUFFICES ASSUME ~Excused(t)', ~Excused(t),
                    NEW sp \in DOMAIN thinking_spans',
                    thinking_spans'[sp].turn = t, thinking_spans'[sp].state = "running"
             PROVE  pc'[t] = "stream" /\ current'[t] = sp
  BY <1>2 DEF Settled, Excused
<1>3. CASE RoundsKept
  BY <1>3 DEF RoundsKept, RuntimeRows, Settled, Excused
<1>4. ASSUME NEW u \in Turns, StreamEvent(u) \/ ProviderTask(u)
      PROVE  pc'[t] = "stream" /\ current'[t] = sp
  <2>0. SpanStep(u) /\ ~(faults' > 0)
    BY <1>0, <1>4, RoundSpans DEF Excused
  <2>1. CASE u # t
    <3>1. pc'[t] = pc[t] /\ current'[t] = current[t]
      BY <1>0, <1>4, <2>1, OthersKeepRounds
    <3>2. /\ sp \in DOMAIN thinking_spans
          /\ thinking_spans[sp].turn = t /\ thinking_spans[sp].state = "running"
      <4>1. CASE SpanEnded(u)
        BY <1>0, <1>1, <4>1 DEF SpanEnded, FinishThinkingSpan, RuntimeTypeOK, SpanRow
      <4>2. CASE SpanOpened(u)
        BY <2>1, <4>2 DEF SpanOpened, AppendThinkingSpan, Insert
      <4>3. CASE SpanKept(u)
        BY <4>3 DEF SpanKept
      <4> QED
        BY <2>0, <4>1, <4>2, <4>3 DEF SpanStep
    <3> QED
      BY <3>1, <3>2 DEF Settled
  <2>2. CASE u = t
    <3>1. CASE SpanEnded(t)
      <4>1. PICK state \in {"completed", "failed"} : FinishThinkingSpan(current[t], state)
        BY <3>1 DEF SpanEnded
      <4>2. /\ sp \in DOMAIN thinking_spans /\ sp # current[t]
            /\ thinking_spans[sp].turn = t /\ thinking_spans[sp].state = "running"
        BY <1>0, <4>1 DEF FinishThinkingSpan, RuntimeTypeOK, SpanRow
      <4> QED
        BY <4>2 DEF Settled
    <3>2. CASE SpanOpened(t)
      <4>1. sp \in DOMAIN thinking_spans => thinking_spans'[sp] = thinking_spans[sp]
        BY <3>2 DEF SpanOpened, AppendThinkingSpan, Insert
      <4>2. sp \notin DOMAIN thinking_spans => sp = NewSpan(t)
        BY <3>2 DEF SpanOpened, AppendThinkingSpan, Insert
      <4>3. sp \in DOMAIN thinking_spans => FALSE
        <5> SUFFICES ASSUME sp \in DOMAIN thinking_spans PROVE FALSE
          OBVIOUS
        <5>1. current[t] = sp
          BY <4>1 DEF Settled
        <5>2. sp \in Spans
          BY <1>0 DEF RuntimeTypeOK
        <5> QED
          BY <3>2, <5>1, <5>2, IdsAssumption DEF SpanOpened
      <4> QED
        BY <3>2, <4>2, <4>3 DEF SpanOpened
    <3>3. CASE SpanKept(t)
      <4>1. pc[t] = "stream" /\ current[t] = sp /\ sp \in Spans
        BY <1>0, <3>3 DEF SpanKept, Settled, RuntimeTypeOK
      <4> QED
        BY <3>3, <4>1, IdsAssumption DEF SpanKept, Excused
    <3> QED
      BY <2>0, <2>2, <3>1, <3>2, <3>3 DEF SpanStep
  <2> QED
    BY <2>1, <2>2
<1> QED
  BY <1>0, <1>3, <1>4, RoundStep

LEMMA NamedStep ==
    ASSUME ServiceInv, [Next]_vars, NEW t \in Turns, SpansNamed(t)
    PROVE  SpansNamed(t)'
<1>0. LocalTypeOK /\ RuntimeTypeOK
  BY TypeParts DEF ServiceInv, StoreInv
<1>1. RowsKept
  BY <1>0, NextUsesStore, RuntimeStepEffect, RowsKeptStep DEF ServiceInv
<1>2. SpansOf(t) \subseteq SpansOf(t)'
  BY <1>1 DEF RowsKept, SpansOf
<1>3. CASE RoundsKept
  BY <1>2, <1>3 DEF RoundsKept, SpansNamed
<1>4. ASSUME NEW u \in Turns, StreamEvent(u) \/ ProviderTask(u)
      PROVE  SpansNamed(t)'
  <2>1. CASE u # t
    BY <1>0, <1>2, <1>4, <2>1, OthersKeepRounds DEF SpansNamed
  <2>2. CASE u = t
    <3> USE DEF LocalTypeOK
    <3>1. CASE ResponseStarted(t)
      <4>1. \/ /\ current'[t] = current[t]
               /\ summarised'[t] \in {summarised[t], current[t]}
            \/ /\ AppendThinkingSpan(NewSpan(t), t)
               /\ current'[t] = NewSpan(t) /\ summarised'[t] = NewSpan(t)
        BY <1>0, <3>1 DEF ResponseStarted, EnsureThinkingSpan
      <4>2. AppendThinkingSpan(NewSpan(t), t) => NewSpan(t) \in SpansOf(t)'
        BY DEF AppendThinkingSpan, Insert, SpansOf
      <4> QED
        BY <1>2, <4>1, <4>2 DEF SpansNamed
    <3>2. CASE ~ResponseStarted(t)
      <4>1. /\ current'[t] \in {None, current[t]}
            /\ summarised'[t] \in {None, summarised[t]}
        BY <1>0, <1>4, <2>2, <3>2
           DEF StreamEvent, ReasoningSummary, TextDelta, FunctionCallRequested, Completed,
               EndOfStream, StreamFailed, StreamStoreError, CloseSpan, ProviderTask, Request,
               StartToolCall, FinishToolCall
      <4> QED
        BY <1>2, <4>1 DEF SpansNamed
    <3> QED
      BY <3>1, <3>2
  <2> QED
    BY <2>1, <2>2
<1> QED
  BY <1>0, <1>3, <1>4, RoundStep

-----------------------------------------------------------------------------
(***************************************************************************)
(* Calls                                                                   *)
(***************************************************************************)
\* A call of the turn without a result is the one the task is running.
Answered(t) ==
    \A c \in DOMAIN tool_calls \ DOMAIN tool_results :
        tool_calls[c] = t =>
            (pc[t] = "result" /\ Head(calls[t]) = c) \/ pc[t] = "dead" \/ faults > 0

LEMMA StreamKeepsCalls ==
    ASSUME NEW t, StreamEvent(t)
    PROVE  UNCHANGED <<tool_calls, tool_results>> /\ pc[t] = "stream"
<1>1. ASSUME NEW state, CloseSpan(t, state) PROVE UNCHANGED <<tool_calls, tool_results>>
  BY <1>1 DEF CloseSpan, FinishThinkingSpan, storeVars
<1>2. CASE ResponseStarted(t) \/ ReasoningSummary(t)
  BY <1>2 DEF ResponseStarted, EnsureThinkingSpan, ReasoningSummary, Hear, storeVars,
              AppendThinkingSpan, UpdateThinkingSpanSummary
<1>3. CASE (\E delta \in Texts : TextDelta(t, delta)) \/ (\E c \in Calls : FunctionCallRequested(t, c))
  BY <1>1, <1>3 DEF TextDelta, FunctionCallRequested, Hear, storeVars
<1>4. CASE Completed(t) \/ EndOfStream(t) \/ StreamFailed(t)
  BY <1>1, <1>4 DEF Completed, EndOfStream, StreamFailed, storeVars
<1>5. CASE StreamStoreError(t)
  BY <1>5 DEF StreamStoreError, storeVars, AppendThinkingSpan, UpdateThinkingSpanSummary,
              FinishThinkingSpan
<1> QED
  BY <1>2, <1>3, <1>4, <1>5 DEF StreamEvent

LEMMA AnsweredStep ==
    ASSUME ServiceInv, [Next]_vars, NEW t \in Turns, Answered(t)
    PROVE  Answered(t)'
<1>0. LocalTypeOK /\ RuntimeTypeOK
  BY TypeParts DEF ServiceInv, StoreInv
<1>1. RowsKept
  BY <1>0, NextUsesStore, RuntimeStepEffect, RowsKeptStep DEF ServiceInv
<1>2. faults > 0 => faults' > 0
  BY <1>0, FaultsGrow
<1>3. StoreFault => faults' > 0
  BY <1>0, BoundsAssumption DEF StoreFault, LocalTypeOK
<1> SUFFICES ASSUME ~(faults' > 0), pc'[t] # "dead",
                    NEW c \in DOMAIN tool_calls' \ DOMAIN tool_results', tool_calls'[c] = t
             PROVE  pc'[t] = "result" /\ Head(calls'[t]) = c
  BY DEF Answered
<1>4. c \in DOMAIN tool_calls /\ pc[t] # "dead" => pc[t] = "result" /\ Head(calls[t]) = c
  BY <1>1, <1>2 DEF RowsKept, Answered
<1>5. CASE RoundsKept
  BY <1>4, <1>5 DEF RoundsKept, RuntimeRows
<1>6. ASSUME NEW u \in Turns, StreamEvent(u) \/ ProviderTask(u), u # t, c \in DOMAIN tool_calls
      PROVE  pc'[t] = "result" /\ Head(calls'[t]) = c
  BY <1>0, <1>4, <1>6, OthersKeepRounds
<1>7. ASSUME NEW u \in Turns, StreamEvent(u)
      PROVE  pc'[t] = "result" /\ Head(calls'[t]) = c
  BY <1>4, <1>6, <1>7, StreamKeepsCalls
<1>8. ASSUME NEW u \in Turns, Request(u)
      PROVE  pc'[t] = "result" /\ Head(calls'[t]) = c
  BY <1>4, <1>6, <1>8 DEF Request, storeVars, ProviderTask
<1>9. ASSUME NEW u \in Turns, StartToolCall(u)
      PROVE  pc'[t] = "result" /\ Head(calls'[t]) = c
  <2>1. pc[u] = "tools" /\ calls' = calls
    BY <1>9 DEF StartToolCall
  <2>2. CASE c \in DOMAIN tool_calls
    BY <1>4, <1>6, <1>9, <2>1, <2>2 DEF ProviderTask
  <2>3. CASE c \notin DOMAIN tool_calls
    <3>1. AppendToolCall(Head(calls[u]), u) /\ pc' = [pc EXCEPT ![u] = "result"]
      BY <1>3, <1>9, <2>3 DEF StartToolCall, storeVars
    <3>2. c = Head(calls[u]) /\ t = u
      BY <2>3, <3>1 DEF AppendToolCall, Insert
    <3> QED
      BY <1>0, <2>1, <3>1, <3>2 DEF LocalTypeOK
  <2> QED
    BY <2>2, <2>3
<1>10. ASSUME NEW u \in Turns, FinishToolCall(u)
       PROVE  pc'[t] = "result" /\ Head(calls'[t]) = c
  <2>1. pc[u] = "result" /\ \E outcome : AppendToolResult(Head(calls[u]), outcome)
    BY <1>3, <1>10 DEF FinishToolCall
  <2>2. c \in DOMAIN tool_calls /\ c # Head(calls[u])
    BY <2>1 DEF AppendToolResult, Insert
  <2> QED
    BY <1>4, <1>6, <1>10, <2>1, <2>2 DEF ProviderTask
<1> QED
  BY <1>0, <1>5, <1>7, <1>8, <1>9, <1>10, RoundStep DEF ProviderTask

\* The call a task is running is its own turn's.
RunsOwn(t) == pc[t] = "result" => Head(calls[t]) \in CallsOf(t)

LEMMA RunsOwnStep ==
    ASSUME ServiceInv, [Next]_vars, NEW t \in Turns, RunsOwn(t)
    PROVE  RunsOwn(t)'
<1>0. LocalTypeOK /\ RuntimeTypeOK
  BY TypeParts DEF ServiceInv, StoreInv
<1>1. RowsKept
  BY <1>0, NextUsesStore, RuntimeStepEffect, RowsKeptStep DEF ServiceInv
<1>2. CallsOf(t) \subseteq CallsOf(t)'
  BY <1>1 DEF RowsKept, CallsOf
<1>3. CASE RoundsKept
  BY <1>2, <1>3 DEF RoundsKept, RunsOwn
<1>4. ASSUME NEW u \in Turns, u # t, StreamEvent(u) \/ ProviderTask(u)
      PROVE  RunsOwn(t)'
  BY <1>0, <1>2, <1>4, OthersKeepRounds DEF RunsOwn
<1>5. CASE StreamEvent(t)
  BY <1>0, <1>5
     DEF StreamEvent, ResponseStarted, ReasoningSummary, TextDelta, FunctionCallRequested, Hear,
         Completed, EndOfStream, AfterStream, StreamFailed, StreamStoreError, FailWith,
         LocalTypeOK, RunsOwn
<1>6. CASE Request(t) \/ FinishToolCall(t)
  BY <1>0, <1>6 DEF Request, FinishToolCall, FailWith, LocalTypeOK, RunsOwn
<1>7. CASE StartToolCall(t)
  <2>1. \/ pc'[t] = "fail"
        \/ AppendToolCall(Head(calls[t]), t) /\ calls' = calls
    BY <1>0, <1>7 DEF StartToolCall, FailWith, LocalTypeOK
  <2> QED
    BY <2>1 DEF AppendToolCall, Insert, CallsOf, RunsOwn
<1> QED
  BY <1>0, <1>3, <1>4, <1>5, <1>6, <1>7, RoundStep DEF ProviderTask

-----------------------------------------------------------------------------
(***************************************************************************)
(* Events                                                                  *)
(***************************************************************************)
\* What an event names is in the tables.
Followed(e) ==
    /\ e[1] = "message_created" =>
           \E row \in r_soul_session_messages : row.type = "message" /\ row.target = e[2]
    /\ e[1] \in {"turn_started", "message_completed"} => e[2] \in DOMAIN turns
    /\ e[1] \in {"thinking_created", "thinking_updated"} => e[2] \in DOMAIN thinking_spans
    /\ e[1] = "thinking_completed" =>
           e[2] \in DOMAIN thinking_spans /\ thinking_spans[e[2]].state # "running"
    /\ e[1] = "tool_call_created" => e[2] \in DOMAIN tool_calls
    /\ e[1] = "tool_result_created" => e[2] \in DOMAIN tool_results

LEMMA FollowedStays ==
    ASSUME RowsKept, EndedSpansKept, LogExtended, TurnsKept, NEW e, Followed(e)
    PROVE  Followed(e)'
  BY DEF RowsKept, EndedSpansKept, LogExtended, TurnsKept, Followed

\* What a step adds to the published events.
NewFollowed == \A e \in published' : e \in published \/ Followed(e)'

LEMMA StreamFollowed ==
    ASSUME StoreTypeOK, NEW t \in Turns, SpansNamed(t), StreamEvent(t)
    PROVE  NewFollowed
<1>0. CASE UNCHANGED published
  BY <1>0 DEF NewFollowed
<1>1. ASSUME NEW state \in {"completed", "failed"}, CloseSpan(t, state) PROVE NewFollowed
  <2>1. CASE current[t] = None
    BY <1>0, <1>1, <2>1 DEF CloseSpan
  <2>2. CASE current[t] # None
    <3>1. PICK sp : /\ sp = current[t]
                    /\ FinishThinkingSpan(sp, state)
                    /\ Publish("thinking_completed", sp)
      BY <1>1, <2>2 DEF CloseSpan
    <3>2. sp \in DOMAIN thinking_spans' /\ thinking_spans'[sp].state # "running"
      BY <3>1 DEF FinishThinkingSpan, StoreTypeOK, SpanRow
    <3> QED
      BY <3>1, <3>2 DEF Publish, NewFollowed, Followed
  <2> QED
    BY <2>1, <2>2
<1>2. CASE ResponseStarted(t)
  <2>1. CASE Publish("thinking_updated", current[t]) /\ UNCHANGED storeVars /\ current[t] # None
    BY <2>1 DEF Publish, NewFollowed, Followed, SpansNamed, SpansOf, storeVars
  <2>2. CASE Publish("thinking_created", NewSpan(t)) /\ AppendThinkingSpan(NewSpan(t), t)
    BY <2>2 DEF Publish, NewFollowed, Followed, AppendThinkingSpan, Insert
  <2> QED
    BY <1>0, <1>2, <2>1, <2>2 DEF ResponseStarted, EnsureThinkingSpan
<1>3. CASE ReasoningSummary(t)
  <2>1. CASE UpdateThinkingSpanSummary(summarised[t]) /\ Publish("thinking_updated", summarised[t])
    BY <2>1 DEF UpdateThinkingSpanSummary, Publish, NewFollowed, Followed
  <2> QED
    BY <1>0, <1>3, <2>1 DEF ReasoningSummary
<1>4. CASE \E delta \in Texts : TextDelta(t, delta)
  BY <1>0, <1>1, <1>4 DEF TextDelta
<1>5. CASE \E c \in Calls : FunctionCallRequested(t, c)
  BY <1>1, <1>5 DEF FunctionCallRequested
<1>6. CASE Completed(t) \/ StreamFailed(t)
  BY <1>1, <1>6 DEF Completed, StreamFailed
<1>7. CASE EndOfStream(t) \/ StreamStoreError(t)
  BY <1>0, <1>7 DEF EndOfStream, StreamStoreError
<1> QED
  BY <1>2, <1>3, <1>4, <1>5, <1>6, <1>7 DEF StreamEvent

LEMMA RefFollowed ==
    ASSUME NEW s, NEW m, AppendMessageRef(s, m), Publish("message_created", m)
    PROVE  NewFollowed
<1>1. \E row \in r_soul_session_messages' : row.type = "message" /\ row.target = m
  <2> DEFINE new == [session |-> s, type |-> "message", target |-> m,
                     seq |-> soul_sessions[s].next_seq]
  <2>1. new \in r_soul_session_messages' /\ new.type = "message" /\ new.target = m
    BY DEF AppendMessageRef, AppendEntry
  <2> QED
    BY <2>1
<1> QED
  BY <1>1 DEF Publish, NewFollowed, Followed

LEMMA TaskFollowed ==
    ASSUME NEW t \in Turns, SendTask(t) \/ ProviderTask(t) \/ EndTask(t)
    PROVE  NewFollowed
<1>0. CASE UNCHANGED published
  BY <1>0 DEF NewFollowed
<1>1. CASE Publish("turn_failed", t)
  BY <1>1 DEF Publish, NewFollowed, Followed
<1>2. CASE SendTask(t)
  <2>1. ASSUME NEW s, NEW m, NEW seq, StartTurn(t, s, m, seq), Publish("turn_started", t)
        PROVE  NewFollowed
    BY <2>1 DEF StartTurn, Insert, Publish, NewFollowed, Followed
  <2> QED
    BY <1>0, <1>2, <2>1, RefFollowed
       DEF SendTask, AcquireForSend, RefUserMessage, StartTurnForSend, SpawnTurn
<1>3. CASE ProviderTask(t)
  <2>1. ASSUME NEW c, AppendToolCall(c, t), Publish("tool_call_created", c)
        PROVE  NewFollowed
    BY <2>1 DEF AppendToolCall, Insert, Publish, NewFollowed, Followed
  <2>2. ASSUME NEW c, NEW outcome, AppendToolResult(c, outcome), Publish("tool_result_created", c)
        PROVE  NewFollowed
    BY <2>2 DEF AppendToolResult, Insert, Publish, NewFollowed, Followed
  <2> QED
    BY <1>0, <1>3, <2>1, <2>2 DEF ProviderTask, Request, StartToolCall, FinishToolCall
<1>4. CASE EndTask(t)
  <2>1. ASSUME NEW seq, CompleteTurn(t, seq), Publish("message_completed", t)
        PROVE  NewFollowed
    BY <2>1 DEF CompleteTurn, CompletedRow, Publish, NewFollowed, Followed
  <2>2. CASE RefuseEmptyReply(t) \/ AppendReply(t) \/ RefReply(t) \/ AppendPartial(t) \/ AppendSystem(t)
    BY <1>0, <2>2 DEF RefuseEmptyReply, AppendReply, RefReply, AppendPartial, AppendSystem
  <2>3. CASE Complete(t)
    BY <1>0, <2>1, <2>3 DEF Complete
  <2>4. CASE Fail(t) \/ FinishFailure(t)
    BY <1>0, <1>1, <2>4 DEF Fail, FinishFailure
  <2>5. CASE RefPartial(t) \/ RefSystem(t)
    BY <1>0, <2>5, RefFollowed DEF RefPartial, RefSystem, RefFailureMessage
  <2> QED
    BY <1>4, <2>2, <2>3, <2>4, <2>5 DEF EndTask
<1> QED
  BY <1>2, <1>3, <1>4

LEMMA FollowedStep ==
    ASSUME ServiceInv, \A t \in Turns : SpansNamed(t), [Next]_vars
    PROVE  NewFollowed
<1>0. CASE UNCHANGED published
  BY <1>0 DEF NewFollowed
<1>1. CASE UNCHANGED vars \/ SessionCall \/ CrashAndRestart
  BY <1>0, <1>1 DEF vars, turnVars, SessionCall, CrashAndRestart
<1>2. ASSUME NEW t \in Turns, RefuseSend(t) \/ (\E s \in Sessions : Send(t, s))
      PROVE  NewFollowed
  BY <1>0, <1>2 DEF RefuseSend, Send
<1>3. ASSUME NEW t \in Turns, StreamEvent(t)
      PROVE  NewFollowed
  BY <1>3, StreamFollowed DEF ServiceInv, StoreInv
<1> QED
  BY <1>1, <1>2, <1>3, TaskFollowed DEF Next, Task

-----------------------------------------------------------------------------
(***************************************************************************)
(* The invariant                                                           *)
(***************************************************************************)
RecordInv ==
    /\ ServiceInv
    /\ \A t \in Turns : SpansNamed(t) /\ Settled(t) /\ Answered(t) /\ RunsOwn(t)
    /\ \A e \in published : Followed(e)

LEMMA RecordInvInit == Init => RecordInv
<1> SUFFICES ASSUME Init PROVE RecordInv
  OBVIOUS
<1>1. DOMAIN thinking_spans = {} /\ DOMAIN tool_calls = {} /\ published = {}
  BY DEF Init, StoreInit, EmptyTable
<1>2. \A t \in Turns : current[t] = None /\ summarised[t] = None /\ pc[t] = "idle"
  BY DEF Init
<1> QED
  BY <1>1, <1>2, ServiceInvInit DEF RecordInv, SpansNamed, Settled, Answered, RunsOwn

LEMMA RecordInvStep == RecordInv /\ [Next]_vars => RecordInv'
<1> SUFFICES ASSUME RecordInv, [Next]_vars PROVE RecordInv'
  OBVIOUS
<1>1. ServiceInv /\ ServiceInv'
  BY ServiceInvStep DEF RecordInv
<1>2. ASSUME NEW t \in Turns PROVE SpansNamed(t)' /\ Settled(t)' /\ Answered(t)' /\ RunsOwn(t)'
  BY NamedStep, SettledStep, AnsweredStep, RunsOwnStep DEF RecordInv
<1>3. [StoreNext]_storeVars
  BY <1>1, NextUsesStore DEF ServiceInv
<1>4. LogExtended /\ TurnsKept
  BY <1>1, <1>3, HistoryStep, TypeParts DEF ServiceInv, StoreInv
<1>5. RowsKept /\ EndedSpansKept
  BY <1>1, <1>3, RuntimeStepEffect, RowsKeptStep, EndedSpansStep, TypeParts DEF ServiceInv, StoreInv
<1>6. ASSUME NEW e \in published' PROVE Followed(e)'
  <2>1. CASE e \in published
    BY <1>4, <1>5, <2>1, FollowedStays DEF RecordInv
  <2>2. CASE e \notin published
    BY <1>1, <2>2, FollowedStep DEF RecordInv, NewFollowed
  <2> QED
    BY <2>1, <2>2
<1> QED
  BY <1>1, <1>2, <1>6 DEF RecordInv

\* What the tables and the events say of the rounds of every turn.
THEOREM RecordInvariant == Spec => []RecordInv
<1>1. Init => RecordInv
  BY RecordInvInit
<1>2. RecordInv /\ [Next]_vars => RecordInv'
  BY RecordInvStep
<1> QED
  BY <1>1, <1>2, PTL DEF Spec

\* Every event that ends a round closes the span it finds: what still runs
\* after it is a stream that broke off, a store error or a crash.
THEOREM SpansAreSettled == Spec => []SpansSettled
<1>1. ASSUME RecordInv PROVE SpansSettled
  <2>1. \A sp \in DOMAIN thinking_spans : thinking_spans[sp].turn \in Turns
    BY <1>1 DEF RecordInv, ServiceInv, StoreInv, StoreTypeOK, SpanRow
  <2> QED
    BY <1>1, <2>1 DEF RecordInv, Settled, Excused, SpansSettled
<1> QED
  BY <1>1, RecordInvariant, PTL

\* handle_tool_call records the outcome of every call it recorded, an error of
\* the tool included, before the turn goes on.
THEOREM CallsAreAnswered == Spec => []CallsAnswered
<1>1. ASSUME RecordInv PROVE CallsAnswered
  <2>1. \A c \in DOMAIN tool_calls : tool_calls[c] \in Turns
    BY <1>1 DEF RecordInv, ServiceInv, StoreInv, StoreTypeOK
  <2> QED
    BY <1>1, <2>1 DEF RecordInv, Answered, CallsAnswered
<1> QED
  BY <1>1, RecordInvariant, PTL

\* Every event is published after the rows it names are committed, and no
\* later step takes them back.
THEOREM EventsFollowTheirRows == Spec => []EventsFollowRows
<1>1. RecordInv => EventsFollowRows
  BY DEF RecordInv, Followed, EventsFollowRows
<1> QED
  BY <1>1, RecordInvariant, PTL

-----------------------------------------------------------------------------
(***************************************************************************)
(* The last word.  Once a turn is done only other tasks take steps; what   *)
(* they write and publish is of their own turns.                           *)
(***************************************************************************)
\* The step leaves the spans, calls and results of turn t.
RuntimeLeft(t) ==
    /\ SpansOf(t)' = SpansOf(t)
    /\ \A sp \in SpansOf(t) : thinking_spans'[sp] = thinking_spans[sp]
    /\ CallsOf(t)' = CallsOf(t)
    /\ \A c \in CallsOf(t) :
           /\ c \in DOMAIN tool_results' <=> c \in DOMAIN tool_results
           /\ c \in DOMAIN tool_results => tool_results'[c] = tool_results[c]

Apart(t) == RuntimeLeft(t) /\ EventsOf(t)' = EventsOf(t) /\ activity'[t] = activity[t]

LEMMA RowsUnchanged ==
    ASSUME NEW t, UNCHANGED RuntimeRows
    PROVE  RuntimeLeft(t)
  BY DEF RuntimeRows, RuntimeLeft, SpansOf, CallsOf

LEMMA SpanOfOther ==
    ASSUME RuntimeTypeOK, NEW t, NEW u, u # t, NEW sp,
           \/ AppendThinkingSpan(sp, u)
           \/ sp \in SpansOf(u) /\ UpdateThinkingSpanSummary(sp)
           \/ sp \in SpansOf(u) /\ \E state : FinishThinkingSpan(sp, state)
    PROVE  RuntimeLeft(t) /\ sp \notin SpansOf(t)
<1>1. CASE AppendThinkingSpan(sp, u)
  BY <1>1 DEF AppendThinkingSpan, Insert, RuntimeLeft, SpansOf, CallsOf
<1>2. CASE sp \in SpansOf(u) /\ UpdateThinkingSpanSummary(sp)
  BY <1>2 DEF UpdateThinkingSpanSummary, RuntimeTypeOK, SpanRow, RuntimeLeft, SpansOf, CallsOf
<1>3. CASE sp \in SpansOf(u) /\ \E state : FinishThinkingSpan(sp, state)
  BY <1>3 DEF FinishThinkingSpan, RuntimeTypeOK, SpanRow, RuntimeLeft, SpansOf, CallsOf
<1> QED
  BY <1>1, <1>2, <1>3

LEMMA CallOfOther ==
    ASSUME NEW t, NEW u, u # t, NEW c,
           \/ AppendToolCall(c, u)
           \/ c \in CallsOf(u) /\ \E outcome : AppendToolResult(c, outcome)
    PROVE  RuntimeLeft(t) /\ c \notin CallsOf(t)
<1>1. CASE AppendToolCall(c, u)
  BY <1>1 DEF AppendToolCall, Insert, RuntimeLeft, SpansOf, CallsOf
<1>2. CASE c \in CallsOf(u) /\ \E outcome : AppendToolResult(c, outcome)
  BY <1>2 DEF AppendToolResult, Insert, RuntimeLeft, SpansOf, CallsOf
<1> QED
  BY <1>1, <1>2

LEMMA EventOfOther ==
    ASSUME NEW t, RuntimeLeft(t),
           \/ UNCHANGED published
           \/ \E event \in {"turn_started", "message_completed", "turn_failed"} : \E u :
                  u # t /\ Publish(event, u)
           \/ \E m : m \notin Own(t) /\ Publish("message_created", m)
           \/ \E event \in {"thinking_created", "thinking_updated", "thinking_completed"} : \E sp :
                  sp \notin SpansOf(t) /\ Publish(event, sp)
           \/ \E event \in {"tool_call_created", "tool_result_created"} : \E c :
                  c \notin CallsOf(t) /\ Publish(event, c)
    PROVE  EventsOf(t)' = EventsOf(t)
<1>1. SpansOf(t)' = SpansOf(t) /\ CallsOf(t)' = CallsOf(t) /\ Own(t)' = Own(t)
  BY DEF RuntimeLeft, Own, User, Reply, Partial, System
<1> HIDE DEF SpansOf, CallsOf, Own
<1> QED
  BY <1>1 DEF Publish, EventsOf

LEMMA StreamApart ==
    ASSUME LocalTypeOK, RuntimeTypeOK, NEW t \in Turns, NEW u \in Turns \ {t}, SpansNamed(u),
           StreamEvent(u)
    PROVE  Apart(t)
<1>1. /\ current[u] # None => current[u] \in SpansOf(u)
      /\ summarised[u] # None => summarised[u] \in SpansOf(u)
  BY DEF SpansNamed
<1>2. activity'[t] = activity[t]
  BY DEF StreamEvent, ResponseStarted, ReasoningSummary, TextDelta, FunctionCallRequested,
         Completed, EndOfStream, StreamFailed, StreamStoreError, LocalTypeOK
<1>3. UNCHANGED storeVars => RuntimeLeft(t)
  BY RowsUnchanged DEF storeVars, RuntimeRows
<1>4. ASSUME UNCHANGED <<storeVars, published>> PROVE Apart(t)
  BY <1>2, <1>3, <1>4, EventOfOther DEF Apart
<1>5. ASSUME NEW state, CloseSpan(u, state) PROVE Apart(t)
  <2>1. CASE current[u] = None
    BY <1>4, <1>5, <2>1 DEF CloseSpan
  <2>2. CASE current[u] # None
    <3>1. FinishThinkingSpan(current[u], state) /\ Publish("thinking_completed", current[u])
      BY <1>5, <2>2 DEF CloseSpan
    <3>2. RuntimeLeft(t) /\ current[u] \notin SpansOf(t)
      BY <1>1, <2>2, <3>1, SpanOfOther
    <3> QED
      BY <1>2, <3>1, <3>2, EventOfOther DEF Apart
  <2> QED
    BY <2>1, <2>2
<1>6. CASE ResponseStarted(u)
  <2>1. CASE current[u] # None /\ UNCHANGED storeVars /\ Publish("thinking_updated", current[u])
    <3>1. current[u] \notin SpansOf(t)
      BY <1>1, <2>1 DEF SpansOf
    <3> QED
      BY <1>2, <1>3, <2>1, <3>1, EventOfOther DEF Apart
  <2>2. CASE AppendThinkingSpan(NewSpan(u), u) /\ Publish("thinking_created", NewSpan(u))
    <3>1. RuntimeLeft(t) /\ NewSpan(u) \notin SpansOf(t)
      BY <2>2, SpanOfOther
    <3> QED
      BY <1>2, <2>2, <3>1, EventOfOther DEF Apart
  <2> QED
    BY <1>4, <1>6, <2>1, <2>2 DEF ResponseStarted, EnsureThinkingSpan
<1>7. CASE ReasoningSummary(u)
  <2>1. CASE /\ summarised[u] # None
             /\ UpdateThinkingSpanSummary(summarised[u])
             /\ Publish("thinking_updated", summarised[u])
    <3>1. RuntimeLeft(t) /\ summarised[u] \notin SpansOf(t)
      BY <1>1, <2>1, SpanOfOther
    <3> QED
      BY <1>2, <2>1, <3>1, EventOfOther DEF Apart
  <2> QED
    BY <1>4, <1>7, <2>1 DEF ReasoningSummary
<1>8. CASE \E delta \in Texts : TextDelta(u, delta)
  BY <1>4, <1>5, <1>8 DEF TextDelta
<1>9. CASE \E c \in Calls : FunctionCallRequested(u, c)
  BY <1>5, <1>9 DEF FunctionCallRequested
<1>10. CASE Completed(u) \/ StreamFailed(u)
  BY <1>5, <1>10 DEF Completed, StreamFailed
<1>11. CASE EndOfStream(u)
  BY <1>4, <1>11 DEF EndOfStream
<1>12. CASE StreamStoreError(u)
  <2>1. RuntimeLeft(t)
    BY <1>1, <1>3, <1>12, SpanOfOther DEF StreamStoreError
  <2>2. UNCHANGED published
    BY <1>12 DEF StreamStoreError
  <2> QED
    BY <1>2, <2>1, <2>2, EventOfOther DEF Apart
<1> QED
  BY <1>6, <1>7, <1>8, <1>9, <1>10, <1>11, <1>12 DEF StreamEvent

LEMMA ProviderApart ==
    ASSUME LocalTypeOK, NEW t \in Turns, NEW u \in Turns \ {t}, RunsOwn(u), ProviderTask(u)
    PROVE  Apart(t)
<1>1. activity'[t] = activity[t]
  BY DEF ProviderTask, Request, StartToolCall, FinishToolCall, LocalTypeOK
<1>2. UNCHANGED storeVars => RuntimeLeft(t)
  BY RowsUnchanged DEF storeVars, RuntimeRows
<1>3. CASE Request(u)
  BY <1>1, <1>2, <1>3, EventOfOther DEF Request, Apart
<1>4. CASE StartToolCall(u)
  <2> DEFINE c == Head(calls[u])
  <2>1. \/ AppendToolCall(c, u) \/ UNCHANGED storeVars
    BY <1>4 DEF StartToolCall
  <2>2. \/ UNCHANGED published
        \/ AppendToolCall(c, u) /\ Publish("tool_call_created", c)
    BY <1>4 DEF StartToolCall
  <2>3. RuntimeLeft(t) /\ (AppendToolCall(c, u) => c \notin CallsOf(t))
    BY <1>2, <2>1, CallOfOther
  <2> HIDE DEF c
  <2> QED
    BY <1>1, <2>2, <2>3, EventOfOther DEF Apart
<1>5. CASE FinishToolCall(u)
  <2> DEFINE c == Head(calls[u])
  <2>1. c \in CallsOf(u) /\ c \notin CallsOf(t)
    BY <1>5 DEF FinishToolCall, RunsOwn, CallsOf
  <2>2. (\E outcome : AppendToolResult(c, outcome)) \/ UNCHANGED storeVars
    BY <1>5 DEF FinishToolCall
  <2>3. UNCHANGED published \/ Publish("tool_result_created", c)
    BY <1>5 DEF FinishToolCall
  <2>4. RuntimeLeft(t)
    BY <1>2, <2>1, <2>2, CallOfOther
  <2> HIDE DEF c
  <2> QED
    BY <1>1, <2>1, <2>3, <2>4, EventOfOther DEF Apart
<1> QED
  BY <1>3, <1>4, <1>5 DEF ProviderTask

\* A step that is not of a round, of another task or of none.
LEMMA OthersApart ==
    ASSUME NEW t \in Turns, RoundsKept,
           \/ UNCHANGED vars
           \/ SessionCall
           \/ CrashAndRestart
           \/ \E u \in Turns \ {t} :
                  RefuseSend(u) \/ (\E s \in Sessions : Send(u, s)) \/ SendTask(u) \/ EndTask(u)
    PROVE  Apart(t)
<1>1. RuntimeLeft(t)
  BY RowsUnchanged DEF RoundsKept
<1>2. UNCHANGED activity
  BY DEF vars, turnVars, SessionCall, CrashAndRestart, RefuseSend, Send, SendTask, AcquireForSend,
         RefUserMessage, StartTurnForSend, SpawnTurn, EndTask, RefuseEmptyReply, AppendReply,
         RefReply, Complete, Fail, AppendPartial, RefPartial, AppendSystem, RefSystem,
         RefFailureMessage, FinishFailure, unchangedTurn, roundVars
<1>3. ASSUME NEW u \in Turns \ {t}, NEW m \in Own(u), Publish("message_created", m)
      PROVE  EventsOf(t)' = EventsOf(t)
  <2>1. m \notin Own(t)
    BY <1>3, OwnApart
  <2> QED
    BY <1>1, <1>3, <2>1, EventOfOther
<1>4. ASSUME NEW u \in Turns \ {t},
             NEW event \in {"turn_started", "message_completed", "turn_failed"}, Publish(event, u)
      PROVE  EventsOf(t)' = EventsOf(t)
  BY <1>1, <1>4, EventOfOther
<1>5. CASE UNCHANGED published
  BY <1>1, <1>2, <1>5, EventOfOther DEF Apart
<1>6. CASE UNCHANGED vars \/ SessionCall \/ CrashAndRestart
  BY <1>5, <1>6 DEF vars, turnVars, SessionCall, CrashAndRestart
<1>7. ASSUME NEW u \in Turns \ {t},
             RefuseSend(u) \/ (\E s \in Sessions : Send(u, s)) \/ SendTask(u) \/ EndTask(u)
      PROVE  \/ UNCHANGED published
             \/ \E m \in Own(u) : Publish("message_created", m)
             \/ \E event \in {"turn_started", "message_completed", "turn_failed"} :
                    Publish(event, u)
  <2>1. CASE RefuseSend(u) \/ (\E s \in Sessions : Send(u, s)) \/ SendTask(u)
    BY <2>1 DEF RefuseSend, Send, SendTask, AcquireForSend, RefUserMessage, StartTurnForSend,
                SpawnTurn, Own
  <2>2. CASE EndTask(u)
    BY <2>2 DEF EndTask, RefuseEmptyReply, AppendReply, RefReply, Complete, Fail, AppendPartial,
                RefPartial, AppendSystem, RefSystem, RefFailureMessage, FinishFailure, Own
  <2> QED
    BY <1>7, <2>1, <2>2
<1> QED
  BY <1>1, <1>2, <1>3, <1>4, <1>5, <1>6, <1>7 DEF Apart

LEMMA DoneIsApart ==
    ASSUME RecordInv, [Next]_vars, NEW t \in Turns, pc[t] = "done"
    PROVE  Apart(t) /\ Kept(t)
<1>1. LocalTypeOK /\ TurnTypeOK /\ RuntimeTypeOK /\ Placed(t)
  BY TypeParts DEF RecordInv, ServiceInv, StoreInv, AllPlaced
<1>2. ~TaskStep(t)
  BY <1>1, DoneIsQuiet
<1>3. Kept(t)
  BY <1>1, <1>2, StepOfOthers DEF Torn
<1>4. ASSUME NEW u \in Turns, (StreamEvent(u) \/ ProviderTask(u)) /\ UNCHANGED <<lastSeen, crashes>>
      PROVE  Apart(t)
  <2>1. u # t
    BY <1>2, <1>4 DEF TaskStep, Task
  <2>2. SpansNamed(u) /\ RunsOwn(u)
    BY DEF RecordInv
  <2> QED
    BY <1>1, <1>4, <2>1, <2>2, StreamApart, ProviderApart
<1>5. CASE RoundsKept
  <2>1. CASE UNCHANGED vars \/ SessionCall \/ CrashAndRestart
    BY <1>3, <1>5, <2>1, OthersApart
  <2>2. ASSUME NEW u \in Turns, TaskStep(u) PROVE Apart(t)
    <3>1. u # t
      BY <1>2, <2>2
    <3>2. \/ (StreamEvent(u) \/ ProviderTask(u)) /\ UNCHANGED <<lastSeen, crashes>>
          \/ RefuseSend(u) \/ (\E s \in Sessions : Send(u, s)) \/ SendTask(u) \/ EndTask(u)
      BY <2>2 DEF TaskStep, Task
    <3> QED
      BY <1>4, <1>5, <3>1, <3>2, OthersApart
  <2> QED
    BY <1>3, <2>1, <2>2 DEF Next, TaskStep
<1> QED
  BY <1>1, <1>3, <1>4, <1>5, RoundStep

\* After message_completed or turn_failed nothing that is recorded of the turn
\* changes and nothing more is published about it, whatever other turns do.
THEOREM TerminalEventsAreLast == Spec => TerminalEventIsLast
<1>1. ASSUME SafetyInv, RecordInv, [Next]_vars, NEW t \in Turns, Terminal(t) # {}
      PROVE  RecordOf(t)' = RecordOf(t)
  <2>1. pc[t] = "done" /\ t \in DOMAIN turns
    BY <1>1 DEF SafetyInv, Ending
  <2>2. RuntimeLeft(t) /\ EventsOf(t)' = EventsOf(t) /\ activity'[t] = activity[t] /\ Kept(t)
    BY <1>1, <2>1, DoneIsApart DEF Apart
  <2>3. LogExtended /\ MessagesKept /\ Own(t)' = Own(t)
    BY <1>1, NextUsesStore, HistoryStep, MessagesStep
       DEF RecordInv, ServiceInv, Own, User, Reply, Partial, System
  <2>4. turns'[t] = turns[t]
    BY <2>1, <2>2 DEF Kept, OwnTablesKept
  <2>5. [m \in Own(t) \cap DOMAIN messages |-> messages[m]]'
            = [m \in Own(t) \cap DOMAIN messages |-> messages[m]]
    BY <2>2, <2>3 DEF Kept, OwnTablesKept, MessagesKept
  <2>6. {e \in r_soul_session_messages : e.type = "message" /\ e.target \in Own(t)}'
            = {e \in r_soul_session_messages : e.type = "message" /\ e.target \in Own(t)}
    BY <2>2, <2>3 DEF Kept, OwnTablesKept, LogExtended
  <2>7. /\ CallsOf(t)' = CallsOf(t)
        /\ [sp \in SpansOf(t) |-> thinking_spans[sp]]' = [sp \in SpansOf(t) |-> thinking_spans[sp]]
        /\ [c \in CallsOf(t) \cap DOMAIN tool_results |-> tool_results[c]]'
               = [c \in CallsOf(t) \cap DOMAIN tool_results |-> tool_results[c]]
    BY <2>2 DEF RuntimeLeft
  <2> QED
    BY <2>2, <2>4, <2>5, <2>6, <2>7 DEF RecordOf
<1>2. SafetyInv /\ RecordInv /\ [Next]_vars
          => [\A t \in Turns : Terminal(t) # {} => RecordOf(t)' = RecordOf(t)]_vars
  BY <1>1
<1> QED
  BY <1>2, SafetyInvariant, RecordInvariant, PTL DEF Spec, TerminalEventIsLast
=============================================================================
