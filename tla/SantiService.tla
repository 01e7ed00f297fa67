---------------------------- MODULE SantiService ----------------------------
(***************************************************************************)
(* SantiService: send_session, the background task it spawns               *)
(* (complete_provider_turn, with run_provider_turn in ProviderTurn), the   *)
(* failure path (service/failure.rs), and a crash of the process.          *)
(*                                                                         *)
(* A turn id also names the call of send_session that may start it.  That  *)
(* call is one chain of store calls with no lock held between them, and    *)
(* nothing stops a second send to a session whose turn is still running,   *)
(* so the chains of all turns interleave.                                  *)
(***************************************************************************)
EXTENDS ProviderTurn

CONSTANT MaxCrashes    \* bound: crashes of the process in a behaviour

VARIABLES
    lastSeen,    \* last_seen_session_seq of fail_background_turn, 0 for None
    crashes      \* history: crashes so far

vars == <<storeVars, turnVars, lastSeen, crashes>>

\* The four messages a send can lead to.
User(t)    == <<"user", t>>
Reply(t)   == <<"reply", t>>
Partial(t) == <<"partial", t>>
System(t)  == <<"system", t>>

ASSUME IdsAssumption ==
    /\ Messages = {"user", "reply", "partial", "system"} \X Turns
    /\ None \notin Spans

ASSUME BoundsAssumption ==
    /\ MaxRounds \in Nat
    /\ MaxEvents \in Nat
    /\ MaxFaults \in Nat
    /\ MaxCrashes \in Nat

Sending  == {"acquire", "ref", "start", "snapshot"}
Provider == {"request", "stream", "tools", "result"}
Failing  == {"fail", "partial", "partialRef", "system", "systemRef", "context"}
Replying == {"reply", "replyRef", "complete"}
Live     == Sending \cup Provider \cup Replying \cup Failing
Stopped  == {"idle", "rejected", "done", "dead"}

SeqOf(m)     == (CHOOSE row \in r_session_messages : row.message = m).seq
SessionOf(m) == (CHOOSE row \in r_session_messages : row.message = m).session

\* The log position of a message, 0 when the soul's log does not hold it.
LogSeq(s, m) ==
    IF InSoulLog(s, m)
    THEN (CHOOSE row \in r_soul_session_messages :
              row.session = s /\ row.type = "message" /\ row.target = m).seq
    ELSE 0

Goto(t, label) == pc' = [pc EXCEPT ![t] = label]

unchangedTurn == <<round, heard, roundVars, truncated, crashes>>

(***************************************************************************)
(* send_session                                                            *)
(***************************************************************************)
\* Blank text, or no such session.
RefuseSend(t) ==
    /\ pc[t] = "idle"
    /\ Goto(t, "rejected")
    /\ UNCHANGED <<storeVars, text, lastSeen, published, faults, unchangedTurn>>

Send(t, s) ==
    /\ pc[t] = "idle"
    /\ \/ AppendMessage(s, User(t), "account", "fixed") /\ Goto(t, "acquire") /\ UNCHANGED faults
       \/ /\ StoreFault
          /\ AppendMessage(s, User(t), "account", "fixed") \/ UNCHANGED storeVars
          /\ Goto(t, "rejected")
    /\ UNCHANGED <<text, lastSeen, published, unchangedTurn>>

\* One turn at a time: the send waits while the session has a running turn.
AcquireForSendSerial(t) ==
    /\ pc[t] = "acquire"
    /\ LET s == SessionOf(User(t)) IN
       /\ \A u \in DOMAIN turns : turns[u].session = s => turns[u].status # "running"
       /\ AcquireSoulSession(s) /\ Goto(t, "ref") /\ UNCHANGED faults
    /\ UNCHANGED <<text, lastSeen, published, unchangedTurn>>

\* acquire_soul_session
AcquireForSend(t) ==
    /\ pc[t] = "acquire"
    /\ LET s == SessionOf(User(t)) IN
       \/ AcquireSoulSession(s) /\ Goto(t, "ref") /\ UNCHANGED faults
       \/ StoreFault /\ UNCHANGED storeVars /\ Goto(t, "rejected")
    /\ UNCHANGED <<text, lastSeen, published, unchangedTurn>>

\* The event is published before the reference is stored.
RefUserMessagePublishFirst(t) ==
    /\ pc[t] = "ref"
    /\ Publish("message_created", User(t))
    /\ \/ /\ AppendMessageRef(SessionOf(User(t)), User(t))
          /\ Goto(t, "start")
          /\ UNCHANGED faults
       \/ StoreFault /\ UNCHANGED storeVars /\ Goto(t, "rejected")
    /\ UNCHANGED <<text, lastSeen, unchangedTurn>>

\* The error of append_message_ref is dropped.
RefUserMessageIgnored(t) ==
    /\ pc[t] = "ref"
    /\ Goto(t, "start")
    /\ \/ /\ AppendMessageRef(SessionOf(User(t)), User(t))
          /\ Publish("message_created", User(t))
          /\ UNCHANGED faults
       \/ StoreFault /\ UNCHANGED <<storeVars, published>>
    /\ UNCHANGED <<text, lastSeen, unchangedTurn>>

\* append_message_ref and the message_created event
RefUserMessage(t) ==
    /\ pc[t] = "ref"
    /\ \/ /\ AppendMessageRef(SessionOf(User(t)), User(t))
          /\ Publish("message_created", User(t))
          /\ Goto(t, "start")
          /\ UNCHANGED faults
       \/ StoreFault /\ UNCHANGED <<storeVars, published>> /\ Goto(t, "rejected")
    /\ UNCHANGED <<text, lastSeen, unchangedTurn>>

StartTurnForSend(t) ==
    /\ pc[t] = "start"
    /\ LET Start == StartTurn(t, SessionOf(User(t)), User(t), SeqOf(User(t))) IN
       \/ Start /\ Publish("turn_started", t) /\ Goto(t, "snapshot") /\ UNCHANGED faults
       \/ /\ StoreFault
          /\ Start \/ UNCHANGED storeVars
          /\ Goto(t, "rejected")
          /\ UNCHANGED published
    /\ UNCHANGED <<text, lastSeen, unchangedTurn>>

\* runtime_snapshot, then tokio::spawn and the accepted response.
SpawnTurn(t) ==
    /\ pc[t] = "snapshot"
    /\ \/ Goto(t, "request") /\ UNCHANGED faults
       \/ StoreFault /\ Goto(t, "rejected")
    /\ UNCHANGED <<storeVars, text, lastSeen, published, unchangedTurn>>

(***************************************************************************)
(* complete_provider_turn, after run_provider_turn                         *)
(***************************************************************************)
\* Empty output ends the task without recording the failure.
DropEmptyReply(t) ==
    /\ pc[t] = "reply"
    /\ text[t] # "text"
    /\ Goto(t, "done")
    /\ UNCHANGED <<storeVars, text, lastSeen, published, faults, unchangedTurn>>

\* "provider completed without assistant output"
RefuseEmptyReply(t) ==
    /\ pc[t] = "reply"
    /\ text[t] # "text"
    /\ FailWith(t, "empty")
    /\ UNCHANGED <<storeVars, lastSeen, published, faults, unchangedTurn>>

AppendReply(t) ==
    /\ pc[t] = "reply"
    /\ text[t] = "text"
    /\ LET Write == AppendMessage(Session(t), Reply(t), "soul", "fixed") IN
       \/ Write /\ Goto(t, "replyRef") /\ UNCHANGED <<text, faults>>
       \/ /\ StoreFault
          /\ Write \/ UNCHANGED storeVars
          /\ FailWith(t, text[t])
    /\ UNCHANGED <<lastSeen, published, unchangedTurn>>

\* The error of append_message_ref is dropped.
RefReplyIgnored(t) ==
    /\ pc[t] = "replyRef"
    /\ Goto(t, "complete")
    /\ \/ AppendMessageRef(Session(t), Reply(t)) /\ UNCHANGED faults
       \/ StoreFault /\ UNCHANGED storeVars
    /\ UNCHANGED <<text, lastSeen, published, unchangedTurn>>

RefReply(t) ==
    /\ pc[t] = "replyRef"
    /\ \/ AppendMessageRef(Session(t), Reply(t)) /\ Goto(t, "complete") /\ UNCHANGED <<text, faults>>
       \/ StoreFault /\ UNCHANGED storeVars /\ FailWith(t, "empty")
    /\ UNCHANGED <<lastSeen, published, unchangedTurn>>

\* message_completed is published before the row is updated.
CompleteAfterPublish(t) ==
    /\ pc[t] = "complete"
    /\ Publish("message_completed", t)
    /\ \/ CompleteTurn(t, SeqOf(Reply(t))) /\ Goto(t, "done") /\ UNCHANGED <<text, faults>>
       \/ /\ StoreFault
          /\ UNCHANGED storeVars
          /\ FailWith(t, "empty")
    /\ UNCHANGED <<lastSeen, unchangedTurn>>

\* complete_turn is given the reply's position in the log, not in the session.
CompleteWithLogSeq(t) ==
    /\ pc[t] = "complete"
    /\ CompleteTurn(t, LogSeq(Session(t), Reply(t)))
    /\ Publish("message_completed", t)
    /\ Goto(t, "done")
    /\ UNCHANGED <<text, faults, lastSeen, unchangedTurn>>

\* complete_turn is two UPDATEs without a transaction: it can fail between
\* them, or reading the turn back.
Complete(t) ==
    /\ pc[t] = "complete"
    /\ \/ /\ CompleteTurn(t, SeqOf(Reply(t)))
          /\ Publish("message_completed", t)
          /\ Goto(t, "done")
          /\ UNCHANGED <<text, faults>>
       \/ /\ StoreFault
          /\ \/ UNCHANGED storeVars
             \/ CompleteTurnFirstUpdate(t)
             \/ CompleteTurn(t, SeqOf(Reply(t)))
          /\ FailWith(t, "empty")
          /\ UNCHANGED published
    /\ UNCHANGED <<lastSeen, unchangedTurn>>

(***************************************************************************)
(* fail_background_turn                                                    *)
(***************************************************************************)
\* The partial output is not kept.
FailDropsPartial(t) ==
    /\ pc[t] = "fail"
    /\ \/ FailTurn(t) /\ Goto(t, "system") /\ UNCHANGED <<published, faults>>
       \/ /\ StoreFault
          /\ FailTurn(t) \/ UNCHANGED storeVars
          /\ Publish("turn_failed", t)
          /\ Goto(t, "done")
    /\ UNCHANGED <<text, lastSeen, unchangedTurn>>

\* turn_failed is published as soon as the row says so.
FailReportsFirst(t) ==
    /\ pc[t] = "fail"
    /\ Publish("turn_failed", t)
    /\ \/ /\ FailTurn(t)
          /\ Goto(t, IF text[t] = "text" THEN "partial" ELSE "system")
          /\ UNCHANGED faults
       \/ StoreFault /\ UNCHANGED storeVars /\ Goto(t, "done")
    /\ UNCHANGED <<text, lastSeen, unchangedTurn>>

\* fail_turn: an error skips everything but the event.
Fail(t) ==
    /\ pc[t] = "fail"
    /\ \/ /\ FailTurn(t)
          /\ Goto(t, IF text[t] = "text" THEN "partial" ELSE "system")
          /\ UNCHANGED <<published, faults>>
       \/ /\ StoreFault
          /\ FailTurn(t) \/ UNCHANGED storeVars
          /\ Publish("turn_failed", t)
          /\ Goto(t, "done")
    /\ UNCHANGED <<text, lastSeen, unchangedTurn>>

AppendPartial(t) ==
    /\ pc[t] = "partial"
    /\ LET Write == AppendMessage(Session(t), Partial(t), "soul", "aborted") IN
       \/ Write /\ Goto(t, "partialRef") /\ UNCHANGED faults
       \/ StoreFault /\ (Write \/ UNCHANGED storeVars) /\ Goto(t, "system")
    /\ UNCHANGED <<text, lastSeen, published, unchangedTurn>>

\* append_message_ref on a failure message: is_ok() gates the publish and
\* last_seen_session_seq, an error is dropped.
RefFailureMessage(t, m, next) ==
    /\ \/ /\ AppendMessageRef(Session(t), m)
          /\ lastSeen' = [lastSeen EXCEPT ![t] = SeqOf(m)]
          /\ Publish("message_created", m)
          /\ UNCHANGED faults
       \/ StoreFault /\ UNCHANGED <<storeVars, lastSeen, published>>
    /\ Goto(t, next)
    /\ UNCHANGED <<text, unchangedTurn>>

RefPartial(t) == pc[t] = "partialRef" /\ RefFailureMessage(t, Partial(t), "system")

AppendSystem(t) ==
    /\ pc[t] = "system"
    /\ LET Write == AppendMessage(Session(t), System(t), "system", "fixed") IN
       \/ Write /\ Goto(t, "systemRef") /\ UNCHANGED faults
       \/ StoreFault /\ (Write \/ UNCHANGED storeVars) /\ Goto(t, "context")
    /\ UNCHANGED <<text, lastSeen, published, unchangedTurn>>

RefSystem(t) == pc[t] = "systemRef" /\ RefFailureMessage(t, System(t), "context")

\* The turn is only reported as failed when its context could be closed.
FinishFailureQuiet(t) ==
    /\ pc[t] = "context"
    /\ lastSeen[t] # 0
    /\ \/ /\ FinishFailedTurnContext(t, lastSeen[t])
          /\ Publish("turn_failed", t)
          /\ UNCHANGED faults
       \/ StoreFault /\ UNCHANGED <<storeVars, published>>
    /\ Goto(t, "done")
    /\ UNCHANGED <<text, lastSeen, unchangedTurn>>

\* finish_failed_turn_context, its result ignored, and the last event.
FinishFailure(t) ==
    /\ pc[t] = "context"
    /\ \/ lastSeen[t] = 0 /\ UNCHANGED <<storeVars, faults>>
       \/ lastSeen[t] # 0 /\ FinishFailedTurnContext(t, lastSeen[t]) /\ UNCHANGED faults
       \/ /\ lastSeen[t] # 0
          /\ StoreFault
          /\ \/ UNCHANGED storeVars
             \/ FinishFailedTurnFirstUpdate(t)
             \/ FinishFailedTurnContext(t, lastSeen[t])
    /\ Publish("turn_failed", t)
    /\ Goto(t, "done")
    /\ UNCHANGED <<text, lastSeen, unchangedTurn>>

(***************************************************************************)
(* The rest of the service, and the process                                *)
(***************************************************************************)
\* create_session; update_session; session_material, which acquires the soul
\* session of any session the client asks about.
SessionCall ==
    /\ \E s \in Sessions :
           \/ CreateSession(s)
           \/ \E title \in Titles \cup {"none"} : UpdateSessionTitle(s, title)
           \/ AcquireSoulSession(s)
    /\ UNCHANGED <<turnVars, lastSeen, crashes>>

\* The process dies, maybe between the two UPDATEs of a method that has no
\* transaction, and a new one opens the same database: migrate keeps a
\* database of this schema version, seed_defaults ignores rows that exist,
\* and nothing resumes or closes the turns that were running.
CrashAndRestart ==
    /\ crashes < MaxCrashes
    /\ crashes' = crashes + 1
    /\ \/ UNCHANGED storeVars
       \/ \E t \in Turns : pc[t] = "complete" /\ CompleteTurnFirstUpdate(t)
       \/ \E t \in Turns :
              pc[t] = "context" /\ lastSeen[t] # 0 /\ FinishFailedTurnFirstUpdate(t)
    /\ pc' = [t \in Turns |-> IF pc[t] \in Live THEN "dead" ELSE pc[t]]
    /\ UNCHANGED <<round, heard, roundVars, text, published, truncated, faults, lastSeen>>

-----------------------------------------------------------------------------
Init ==
    /\ StoreInit
    /\ pc = [t \in Turns |-> "idle"]
    /\ round = [t \in Turns |-> 0]
    /\ heard = [t \in Turns |-> 0]
    /\ latest = [t \in Turns |-> "none"]
    /\ text = [t \in Turns |-> "empty"]
    /\ current = [t \in Turns |-> None]
    /\ summarised = [t \in Turns |-> None]
    /\ calls = [t \in Turns |-> <<>>]
    /\ activity = [t \in Turns |-> "none"]
    /\ published = {}
    /\ truncated = [t \in Turns |-> FALSE]
    /\ faults = 0
    /\ lastSeen = [t \in Turns |-> 0]
    /\ crashes = 0

SendTask(t) ==
    \/ AcquireForSend(t)
    \/ RefUserMessage(t)
    \/ StartTurnForSend(t)
    \/ SpawnTurn(t)

EndTask(t) ==
    \/ RefuseEmptyReply(t)
    \/ AppendReply(t)
    \/ RefReply(t)
    \/ Complete(t)
    \/ Fail(t)
    \/ AppendPartial(t)
    \/ RefPartial(t)
    \/ AppendSystem(t)
    \/ RefSystem(t)
    \/ FinishFailure(t)

\* What the runtime schedules once it is ready; the provider's events and the
\* clients' calls come when they come.
Task(t) ==
    \/ SendTask(t)
    \/ ProviderTask(t) /\ UNCHANGED <<lastSeen, crashes>>
    \/ EndTask(t)

Next ==
    \/ SessionCall
    \/ CrashAndRestart
    \/ \E t \in Turns :
           \/ RefuseSend(t)
           \/ \E s \in Sessions : Send(t, s)
           \/ StreamEvent(t) /\ UNCHANGED <<lastSeen, crashes>>
           \/ Task(t)

Spec == Init /\ [][Next]_vars

\* Every step of a task that is ready runs: tokio polls a woken task, and a
\* store call returns.  Nothing is assumed of the provider.
FairSpec == Spec /\ \A t \in Turns : WF_vars(Task(t))

-----------------------------------------------------------------------------
(***************************************************************************)
(* Properties                                                              *)
(***************************************************************************)
Terminal(t) == {<<"message_completed", t>>, <<"turn_failed", t>>} \cap published

\* The locals of the tasks.
LocalTypeOK ==
    /\ pc \in [Turns -> Live \cup Stopped]
    /\ round \in [Turns -> Nat]
    /\ heard \in [Turns -> 0 .. MaxEvents]
    /\ latest \in [Turns -> {"none", "thinking", "text", "call"}]
    /\ text \in [Turns -> Texts]
    /\ current \in [Turns -> Spans \cup {None}]
    /\ summarised \in [Turns -> Spans \cup {None}]
    /\ calls \in [Turns -> Seq(Calls)]
    /\ activity \in [Turns -> Activities]
    /\ truncated \in [Turns -> BOOLEAN]
    /\ faults \in 0 .. MaxFaults
    /\ lastSeen \in [Turns -> Nat]
    /\ crashes \in 0 .. MaxCrashes

\* The tables hold typed rows, and the tasks' local state has the types of the
\* Rust locals it stands for.
ServiceTypeOK == StoreTypeOK /\ LocalTypeOK

\* A turn starts after its trigger entered the soul's log: the message that
\* triggers a turn is inside the turn's base, so every request of the turn
\* holds it (append_message_ref before start_turn in send_session).
TriggerInInput ==
    \A t \in DOMAIN turns :
        /\ turns[t].trigger = User(t)
        /\ LogSeq(Session(t), User(t)) \in 1 .. turns[t].base
        /\ SeqOf(User(t)) = turns[t].input_through

\* A completed turn's reply lies inside its window of the log and after the
\* watermark of its input, whatever other turns of the session wrote between.
ReplyInWindow ==
    \A t \in DOMAIN turns :
        turns[t].status = "completed" =>
            /\ LogSeq(Session(t), Reply(t)) \in turns[t].base + 1 .. turns[t].end
            /\ SeqOf(Reply(t)) > turns[t].input_through

\* A client told that a turn's message is complete was told the truth and is
\* never told otherwise: the turn is completed, the reply is fixed and in the
\* log, and no turn_failed follows or precedes, even when the store fails.
CompletionIsFinal ==
    \A t \in Turns :
        <<"message_completed", t>> \in published =>
            /\ turns[t].status = "completed"
            /\ InSoulLog(Session(t), Reply(t))
            /\ messages[Reply(t)].state = "fixed"
            /\ <<"turn_failed", t>> \notin published

\* A failure that was reported is recorded for the next request to see: the
\* turn is failed and closed, the system notice is in its window of the log,
\* and the partial output, if there was any, is aborted and comes before it.
\* Store errors are the only excuse (fail_background_turn drops them).
FailureIsRecorded ==
    \A t \in Turns :
        <<"turn_failed", t>> \in published /\ faults = 0 =>
            LET turn   == turns[t]
                notice == LogSeq(turn.session, System(t)) IN
            /\ turn.status = "failed"
            /\ notice \in turn.base + 1 .. turn.end
            /\ text[t] = "text" =>
                   /\ Partial(t) \in DOMAIN messages
                   /\ messages[Partial(t)].state = "aborted"
                   /\ LogSeq(turn.session, Partial(t)) \in turn.base + 1 .. notice - 1

\* A turn is left running with no task to end it only by a crash or a store
\* error: every way out of complete_provider_turn ends the turn.
NoOrphanTurn ==
    \A t \in DOMAIN turns :
        turns[t].status = "running" /\ pc[t] \notin Live =>
            pc[t] = "dead" \/ faults > 0

\* An event names rows that are committed: a client that reacts to it by
\* reading the store finds what the event announced.
EventsFollowRows ==
    \A e \in published :
        /\ e[1] = "message_created" =>
               \E row \in r_soul_session_messages :
                   row.type = "message" /\ row.target = e[2]
        /\ e[1] \in {"turn_started", "message_completed"} => e[2] \in DOMAIN turns
        /\ e[1] \in {"thinking_created", "thinking_updated"} => e[2] \in DOMAIN thinking_spans
        /\ e[1] = "thinking_completed" => thinking_spans[e[2]].state # "running"
        /\ e[1] = "tool_call_created" => e[2] \in DOMAIN tool_calls
        /\ e[1] = "tool_result_created" => e[2] \in DOMAIN tool_results

\* Once the provider phase is over no span of the turn is still running,
\* unless a stream ended with the span open, the store failed or the process
\* died: every event that ends a round closes the span it finds.
SpansSettled ==
    \A sp \in DOMAIN thinking_spans :
        LET t == thinking_spans[sp].turn IN
        thinking_spans[sp].state = "running" =>
            \/ pc[t] = "stream" /\ current[t] = sp
            \/ truncated[t]
            \/ pc[t] = "dead"
            \/ faults > 0

\* A tool call that was recorded has its result before the next step of the
\* turn, so a request never carries a call without its output, and a turn
\* that reuses another's call id never answers for it.
CallsAnswered ==
    \A c \in DOMAIN tool_calls \ DOMAIN tool_results :
        LET t == tool_calls[c] IN
        \/ pc[t] = "result" /\ Head(calls[t]) = c
        \/ pc[t] = "dead"
        \/ faults > 0

\* What is recorded of a turn, and what was published about it.
Own(t)     == {User(t), Reply(t), Partial(t), System(t)}
SpansOf(t) == {sp \in DOMAIN thinking_spans : thinking_spans[sp].turn = t}
CallsOf(t) == {c \in DOMAIN tool_calls : tool_calls[c] = t}

EventsOf(t) ==
    {e \in published :
        \/ e[1] \in {"turn_started", "message_completed", "turn_failed"} /\ e[2] = t
        \/ e[1] = "message_created" /\ e[2] \in Own(t)
        \/ /\ e[1] \in {"thinking_created", "thinking_updated", "thinking_completed"}
           /\ e[2] \in SpansOf(t)
        \/ e[1] \in {"tool_call_created", "tool_result_created"} /\ e[2] \in CallsOf(t)}

RecordOf(t) ==
    [row      |-> turns[t],
     messages |-> [m \in Own(t) \cap DOMAIN messages |-> messages[m]],
     entries  |-> {e \in r_soul_session_messages : e.type = "message" /\ e.target \in Own(t)},
     spans    |-> [sp \in SpansOf(t) |-> thinking_spans[sp]],
     calls    |-> CallsOf(t),
     results  |-> [c \in CallsOf(t) \cap DOMAIN tool_results |-> tool_results[c]],
     events   |-> EventsOf(t),
     activity |-> activity[t]]

\* The terminal event of a turn is its last word: after it the turn's row, its
\* messages and their entries in the log, its spans, calls and results stay as
\* they are, no other event is published about any of them and no activity, so
\* a client may drop everything transient it holds of the turn
\* (complete_provider_turn and fail_background_turn publish it last), whatever
\* the other turns of the session do.
TerminalEventIsLast ==
    [][\A t \in Turns : Terminal(t) # {} => RecordOf(t)' = RecordOf(t)]_vars

\* A turn as a client sees it: the row's status and the terminal event.
StatusOf(t) == IF t \in DOMAIN turns THEN turns[t].status ELSE "none"

ToldOf(t) ==
    IF <<"message_completed", t>> \in published THEN "completed"
    ELSE IF <<"turn_failed", t>> \in published THEN "failed"
    ELSE "nothing"

Outcome == INSTANCE TurnOutcome WITH
    status <- [t \in Turns |-> StatusOf(t)],
    told   <- [t \in Turns |-> ToldOf(t)]

\* The service implements the abstract turn: however sends, store errors and
\* crashes interleave, the client is told one outcome, completed only with a
\* row that says so, and once told the row never says anything else.
OutcomeSpec == Outcome!Spec

\* Once the provider phase has an outcome the client is told: a terminal event
\* is published unless the process dies first.  Needs no fairness of the
\* provider, only that a ready task runs.
OutcomeReported ==
    \A t \in Turns :
        pc[t] \in {"reply", "fail"} ~> Terminal(t) # {} \/ pc[t] = "dead"

\* A send that stored its message is answered: the turn is accepted or the
\* call returns an error.
SendAnswered ==
    \A t \in Turns :
        pc[t] = "acquire" ~> pc[t] \in Provider \cup {"rejected", "dead"}

\* events.ts:227-229 says of the messages a turn appends that they "sit after
\* its input watermark and before the next turn's".
MessagesBeforeNextWatermark ==
    \A t, u \in DOMAIN turns :
        /\ Session(t) = Session(u)
        /\ turns[t].input_through < turns[u].input_through
        => \A m \in {Reply(t), Partial(t), System(t)} \cap DOMAIN messages :
               SeqOf(m) < turns[u].input_through

\* App.tsx:153-154 says that while a turn is running "the header chip names the
\* phase the turn is actually in"; the chip shows the last turn_activity.
ChipNamesPhase ==
    \A t \in Turns :
        pc[t] = "stream" /\ latest[t] = "text" => activity[t] = "generating"
=============================================================================
