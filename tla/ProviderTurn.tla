---------------------------- MODULE ProviderTurn ----------------------------
(***************************************************************************)
(* The provider phase of a turn: SantiService::run_provider_turn           *)
(* (service.rs) with the thinking-span, text-delta and tool handlers it    *)
(* calls (service/thinking.rs, text_delta.rs, tools.rs).                   *)
(*                                                                         *)
(* Every turn runs in a task of its own and any number of them run at      *)
(* once, so each action is a step of the task of turn t: at most one store *)
(* call, with the local assignments and publishes up to the next one.      *)
(* The provider may send its events in any order; a store call may fail,   *)
(* before or after it took effect, at most MaxFaults times in a behaviour. *)
(***************************************************************************)
EXTENDS SantiStore, Sequences

CONSTANTS
    None,        \* no current span
    MaxRounds,   \* bound: provider requests of one turn
    MaxEvents,   \* bound: stream events of one turn before its streams end
    MaxFaults    \* bound: store errors in a behaviour

VARIABLES
    pc,          \* where the task of a turn is
    round,       \* round
    heard,       \* number of stream events so far (bounds the model)
    latest,      \* the kind of the last stream event
    text,        \* assistant_text; once failed, partial_assistant_text
    current,     \* current_thinking_span
    summarised,  \* summary_thinking_span
    calls,       \* calls still to run in this round
    activity,    \* the last turn_activity published for the turn
    published,   \* <<event, id>> sent to the broadcast channel so far
    truncated,   \* history: a stream of the turn ended with a span open
    faults       \* history: store errors so far

roundVars == <<latest, current, summarised, calls, activity>>
turnVars  == <<pc, round, heard, latest, text, current, summarised, calls,
               activity, published, truncated, faults>>

Texts      == {"empty", "blank", "text"}   \* blank: trim().is_empty()
Activities == {"none", "requesting", "thinking", "generating", "calling_tool",
               "running_tool"}

\* publish_stream: the send error of a channel nobody listens to is ignored.
Publish(event, id) == published' = published \cup {<<event, id>>}

StoreFault == faults < MaxFaults /\ faults' = faults + 1

\* provider_try! and every other Err(ProviderTurnFailure::new(_, &partial)).
FailWith(t, partial) ==
    /\ pc' = [pc EXCEPT ![t] = "fail"]
    /\ text' = [text EXCEPT ![t] = partial]

Session(t) == turns[t].session

\* The span ids of a turn are drawn in order.
NewSpan(t) ==
    <<t, Cardinality({sp \in DOMAIN thinking_spans : thinking_spans[sp].turn = t}) + 1>>

(***************************************************************************)
(* A round: build the request, open the stream                             *)
(***************************************************************************)
Request(t) ==
    /\ pc[t] = "request"
    /\ round'      = [round EXCEPT ![t] = @ + 1]
    /\ latest'     = [latest EXCEPT ![t] = "none"]
    /\ current'    = [current EXCEPT ![t] = None]
    /\ summarised' = [summarised EXCEPT ![t] = None]
    /\ \/ /\ pc' = [pc EXCEPT ![t] = "stream"]
          /\ activity' = [activity EXCEPT ![t] = "requesting"]
          /\ UNCHANGED <<text, faults>>
       \/ /\ FailWith(t, text[t])               \* stream_response refused
          /\ activity' = [activity EXCEPT ![t] = "requesting"]
          /\ UNCHANGED faults
       \/ /\ StoreFault                         \* input or system prompt unread
          /\ FailWith(t, text[t])
          /\ UNCHANGED activity
    /\ UNCHANGED <<storeVars, heard, calls, published, truncated>>

(***************************************************************************)
(* Stream events                                                           *)
(***************************************************************************)
Hear(t, event) ==
    /\ pc[t] = "stream"
    /\ heard[t] < MaxEvents
    /\ heard' = [heard EXCEPT ![t] = @ + 1]
    /\ latest' = [latest EXCEPT ![t] = event]

\* complete_current_thinking_span, fail_current_thinking_span.
CloseSpan(t, state) ==
    /\ current' = [current EXCEPT ![t] = None]
    /\ IF current[t] = None
       THEN UNCHANGED <<storeVars, published>>
       ELSE /\ FinishThinkingSpan(current[t], state)
            /\ Publish("thinking_completed", current[t])

\* ensure_thinking_span: an open span only learns the response id.
EnsureThinkingSpan(t) ==
    \/ /\ current[t] # None
       /\ \/ UNCHANGED <<published, summarised>>         \* the same response id
          \/ /\ Publish("thinking_updated", current[t])
             /\ summarised' = [summarised EXCEPT ![t] = current[t]]
       /\ UNCHANGED <<storeVars, current>>
    \/ /\ current[t] = None
       /\ NewSpan(t) \in Spans
       /\ AppendThinkingSpan(NewSpan(t), t)
       /\ Publish("thinking_created", NewSpan(t))
       /\ current' = [current EXCEPT ![t] = NewSpan(t)]
       /\ summarised' = [summarised EXCEPT ![t] = NewSpan(t)]

ResponseStarted(t) ==
    /\ Hear(t, "thinking")
    /\ EnsureThinkingSpan(t)
    /\ activity' = [activity EXCEPT ![t] = "thinking"]
    /\ UNCHANGED <<pc, round, text, calls, truncated, faults>>

\* ReasoningSummaryDelta, ReasoningSummaryDone.
ReasoningSummary(t) ==
    /\ Hear(t, "thinking")
    /\ \/ UNCHANGED <<storeVars, published>>     \* a blank summary, or no span yet
       \/ /\ summarised[t] # None
          /\ UpdateThinkingSpanSummary(summarised[t])
          /\ Publish("thinking_updated", summarised[t])
    /\ UNCHANGED <<pc, round, text, current, summarised, calls, activity,
                   truncated, faults>>

\* handle_text_delta: only the first delta of the whole turn closes the span
\* and names the new activity.
TextDelta(t, delta) ==
    /\ Hear(t, "text")
    /\ IF text[t] = "empty"
       THEN /\ CloseSpan(t, "completed")
            /\ activity' = [activity EXCEPT ![t] = "generating"]
       ELSE UNCHANGED <<storeVars, published, current, activity>>
    /\ text' = [text EXCEPT ![t] = IF @ = "text" \/ delta = "empty" THEN @ ELSE delta]
    /\ UNCHANGED <<pc, round, summarised, calls, truncated, faults>>

FunctionCallRequested(t, c) ==
    /\ round[t] < MaxRounds
    /\ Hear(t, "call")
    /\ CloseSpan(t, "completed")
    /\ activity' = [activity EXCEPT ![t] = "calling_tool"]
    /\ calls' = [calls EXCEPT ![t] = Append(@, c)]
    /\ UNCHANGED <<pc, round, text, summarised, truncated, faults>>

\* After the event loop: no calls end the turn's provider phase.
AfterStream(t) ==
    pc' = [pc EXCEPT ![t] = IF calls[t] = <<>> THEN "reply" ELSE "tools"]

\* ProviderEvent::Completed breaks the loop and leaves the span as it was.
CompletedLeavesSpan(t) ==
    /\ pc[t] = "stream"
    /\ AfterStream(t)
    /\ UNCHANGED <<storeVars, published, current, round, heard, latest, text,
                   summarised, calls, activity, truncated, faults>>

Completed(t) ==
    /\ pc[t] = "stream"
    /\ CloseSpan(t, "completed")
    /\ AfterStream(t)
    /\ UNCHANGED <<round, heard, latest, text, summarised, calls, activity,
                   truncated, faults>>

\* stream.next() returned None without ProviderEvent::Completed: the usual end
\* of a chat-completions tool round, or a connection that closed early.
EndOfStream(t) ==
    /\ pc[t] = "stream"
    /\ AfterStream(t)
    /\ truncated' = [truncated EXCEPT ![t] = @ \/ current[t] # None]
    /\ UNCHANGED <<storeVars, round, heard, latest, text, current, summarised,
                   calls, activity, published, faults>>

\* ProviderEvent::Failed, or Err from the stream.
StreamFailed(t) ==
    /\ pc[t] = "stream"
    /\ CloseSpan(t, "failed")
    /\ FailWith(t, text[t])
    /\ UNCHANGED <<round, heard, latest, summarised, calls, activity,
                   truncated, faults>>

\* A store call made for a stream event returned Err: provider_try! leaves the
\* loop at once, whether or not the call had taken effect.
StreamStoreError(t) ==
    /\ pc[t] = "stream"
    /\ StoreFault
    /\ \/ UNCHANGED storeVars
       \/ current[t] = None /\ NewSpan(t) \in Spans /\ AppendThinkingSpan(NewSpan(t), t)
       \/ /\ current[t] # None
          /\ \E state \in {"completed", "failed"} : FinishThinkingSpan(current[t], state)
       \/ summarised[t] # None /\ UpdateThinkingSpanSummary(summarised[t])
    /\ FailWith(t, text[t])
    /\ UNCHANGED <<round, heard, latest, current, summarised, calls, activity,
                   published, truncated>>

(***************************************************************************)
(* Tool calls                                                              *)
(***************************************************************************)
\* handle_tool_call up to append_tool_call; a call id already in the table
\* violates its primary key and fails the turn.
StartToolCall(t) ==
    /\ pc[t] = "tools"
    /\ activity' = [activity EXCEPT ![t] = "running_tool"]
    /\ LET c == Head(calls[t]) IN
       \/ /\ AppendToolCall(c, t)
          /\ Publish("tool_call_created", c)
          /\ pc' = [pc EXCEPT ![t] = "result"]
          /\ UNCHANGED <<text, faults>>
       \/ /\ c \in DOMAIN tool_calls
          /\ FailWith(t, text[t])
          /\ UNCHANGED <<storeVars, published, faults>>
       \/ /\ StoreFault
          /\ AppendToolCall(c, t) \/ UNCHANGED storeVars
          /\ FailWith(t, text[t])
          /\ UNCHANGED published
    /\ UNCHANGED <<round, heard, latest, current, summarised, calls, truncated>>

\* An unsupported tool returns through ? and records no result.
FinishToolCallUnanswered(t) ==
    /\ pc[t] = "result"
    /\ \/ /\ AppendToolResult(Head(calls[t]), "output")
          /\ Publish("tool_result_created", Head(calls[t]))
       \/ UNCHANGED <<storeVars, published>>
    /\ calls' = [calls EXCEPT ![t] = Tail(@)]
    /\ pc' = [pc EXCEPT ![t] = IF Tail(calls[t]) = <<>> THEN "request" ELSE "tools"]
    /\ UNCHANGED <<round, heard, latest, text, current, summarised, activity,
                   truncated, faults>>

\* dispatch_tool and append_tool_result: an error of the tool is recorded as
\* the result, so only a store error fails the turn.
FinishToolCall(t) ==
    /\ pc[t] = "result"
    /\ LET c == Head(calls[t]) IN
       \/ /\ \E outcome \in {"output", "error"} : AppendToolResult(c, outcome)
          /\ Publish("tool_result_created", c)
          /\ calls' = [calls EXCEPT ![t] = Tail(@)]
          /\ pc' = [pc EXCEPT ![t] = IF Tail(calls[t]) = <<>> THEN "request" ELSE "tools"]
          /\ UNCHANGED <<text, faults>>
       \/ /\ StoreFault
          /\ UNCHANGED storeVars \/
             \E outcome \in {"output", "error"} : AppendToolResult(c, outcome)
          /\ FailWith(t, text[t])
          /\ UNCHANGED <<calls, published>>
    /\ UNCHANGED <<round, heard, latest, current, summarised, activity, truncated>>

StreamEvent(t) ==
    \/ ResponseStarted(t)
    \/ ReasoningSummary(t)
    \/ \E delta \in Texts : TextDelta(t, delta)
    \/ \E c \in Calls : FunctionCallRequested(t, c)
    \/ Completed(t)
    \/ EndOfStream(t)
    \/ StreamFailed(t)
    \/ StreamStoreError(t)

\* The steps of the task itself, the provider's events excepted.
ProviderTask(t) == Request(t) \/ StartToolCall(t) \/ FinishToolCall(t)
=============================================================================
