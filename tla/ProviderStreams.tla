--------------------------- MODULE ProviderStreams ---------------------------
(***************************************************************************)
(* santi-provider over the rounds of one turn: a request is built from the *)
(* outputs of the tool calls so far (chat_completions.rs, openai.rs), the  *)
(* answer arrives as lines cut anywhere by the network, the parser yields  *)
(* events, and run_provider_turn collects the calls and runs them.         *)
(*                                                                         *)
(* The provider behind HTTP is external.  It keeps the protocols: a call   *)
(* has an index, its id and name come with its first delta, its arguments  *)
(* in pieces, calls interleaved in any order.  It may break off anywhere,  *)
(* send what is no JSON, and give two responses the same id.  Lines        *)
(* without "data: ", [DONE], traces and reasoning yield nothing that is    *)
(* told apart here and are left out.                                       *)
(***************************************************************************)
EXTENDS Integers, SequencesExt

CONSTANTS
    Ids,          \* response ids a provider may give
    NoId,
    MaxRounds,    \* bound: rounds of the turn
    MaxCalls,     \* bound: calls of a response
    MaxPieces     \* bound: pieces of the arguments of a call

ASSUME ProviderAssumption ==
    /\ NoId \notin Ids
    /\ {MaxRounds, MaxCalls, MaxPieces} \subseteq Nat \ {0}

VARIABLES
    api,          \* chat, or responses: the provider of this service
    round,
    phase,        \* request, stream, completed, failed
    (* the provider and the network *)
    meant,        \* calls of the response, by index: the pieces said of each, or 0
    ending,       \* how the response ended, or ""
    wire,         \* lines that have not arrived
    (* the parser *)
    half,         \* the buffer ends with the first half of Head(wire)
    buffer,       \* whole lines in the buffer
    response_id,
    gathered,     \* ToolCallAccumulator.calls
    (* run_provider_turn *)
    calls,
    round_text,   \* round_assistant_text is not empty
    outputs,      \* function_call_outputs
    request,      \* messages or input of the last request
    ids, texts,   \* history: response id, and whether there was text, of each round
    ran           \* history: calls that were run

providerVars == <<meant, ending, wire>>
parserVars   == <<half, buffer, response_id, gathered>>
turnVars     == <<round, phase, calls, round_text, outputs, request, ids, texts, ran>>
vars         == <<api, providerVars, parserVars, turnVars>>

Indexes == 1 .. MaxCalls

CallId(i) == <<round, i>>

-----------------------------------------------------------------------------
(***************************************************************************)
(* Requests                                                                *)
(***************************************************************************)
Input == [role |-> "input"]
Assistant(listed, text) == [role |-> "assistant", calls |-> listed, text |-> text]
Tool(output) == [role |-> "tool", call |-> output.call]

NewGroup(output) == [response |-> output.response, outputs |-> <<output>>, text |-> output.text]

\* Only the last output of a response is kept.
JoinedReplacing(group, output) ==
    [group EXCEPT !.outputs = <<output>>, !.text = @ \/ output.text]

\* The group takes the first content it meets.
Joined(group, output) ==
    [group EXCEPT !.outputs = Append(@, output), !.text = @ \/ output.text]

\* The response of the first group decides.
GroupedByFirst(groups, output) ==
    IF groups # <<>> /\ groups[1].response = output.response
    THEN [groups EXCEPT ![Len(groups)] = Joined(@, output)]
    ELSE Append(groups, NewGroup(output))

\* An output that has the response of the group before it joins the group.
Grouped(groups, output) ==
    IF groups # <<>> /\ Last(groups).response = output.response
    THEN [groups EXCEPT ![Len(groups)] = Joined(@, output)]
    ELSE Append(groups, NewGroup(output))

OutputGroups(all) ==
    LET grouped[n \in 0 .. Len(all)] == IF n = 0 THEN <<>> ELSE Grouped(grouped[n - 1], all[n])
    IN  grouped[Len(all)]

GroupMessages(group) ==
    <<Assistant([i \in DOMAIN group.outputs |-> group.outputs[i].call], group.text)>>
    \o [i \in DOMAIN group.outputs |-> Tool(group.outputs[i])]

ToolMessages(all) ==
    LET groups == OutputGroups(all) IN
    FlattenSeq([g \in DOMAIN groups |-> GroupMessages(groups[g])])

\* messages of the chat API: input and outputs.
Messages(all) == <<Input>> \o ToolMessages(all)

\* response_input of the responses API: outputs, or else the input.
ResponseInput(all) ==
    IF all = <<>> THEN <<Input>>
    ELSE FlattenSeq([i \in DOMAIN all |-> <<Assistant(<<all[i].call>>, FALSE), Tool(all[i])>>])

\* A round: the request is built and sent, and refused or answered; the
\* responses API names the response before it says anything else.
SendRequest ==
    /\ phase = "request"
    /\ round < MaxRounds
    /\ round' = round + 1
    /\ request' = IF api = "chat" THEN Messages(outputs) ELSE ResponseInput(outputs)
    /\ \/ phase' = "stream" /\ \E id \in Ids : ids' = Append(ids, id)
       \/ phase' = "failed" /\ UNCHANGED ids
    /\ meant' = [i \in Indexes |-> 0]
    /\ ending' = ""
    /\ wire' = IF api = "responses" THEN <<[kind |-> "created"]>> ELSE <<>>
    /\ half' = FALSE
    /\ buffer' = <<>>
    /\ response_id' = NoId
    /\ gathered' = <<>>
    /\ calls' = <<>>
    /\ round_text' = FALSE
    /\ UNCHANGED <<api, outputs, texts, ran>>

-----------------------------------------------------------------------------
(***************************************************************************)
(* The provider                                                            *)
(***************************************************************************)
Begun == {i \in Indexes : meant[i] > 0}

Complete == Begun = 1 .. Cardinality(Begun)

Speaking == phase = "stream" /\ ending = ""

Say(line) == wire' = Append(wire, line)

\* The first delta of a call, and one with another piece of its arguments.
\* A piece may be empty: no arguments at all are one.
BeginCall(i) ==
    /\ Speaking /\ api = "chat"
    /\ i \notin Begun
    /\ meant' = [meant EXCEPT ![i] = 1]
    /\ Say([kind |-> "call", index |-> i, id |-> CallId(i), piece |-> 1])
    /\ UNCHANGED <<api, ending, parserVars, turnVars>>

ContinueCall(i) ==
    /\ Speaking /\ api = "chat"
    /\ i \in Begun /\ meant[i] < MaxPieces
    /\ meant' = [meant EXCEPT ![i] = @ + 1]
    /\ Say([kind |-> "call", index |-> i, id |-> NoId, piece |-> meant[i] + 1])
    /\ UNCHANGED <<api, ending, parserVars, turnVars>>

\* response.output_item.done of a function call: the whole call.
ItemDone(i) ==
    /\ Speaking /\ api = "responses"
    /\ Begun = 1 .. i - 1
    /\ meant' = [meant EXCEPT ![i] = 1]
    /\ Say([kind |-> "item", index |-> i, id |-> CallId(i)])
    /\ UNCHANGED <<api, ending, parserVars, turnVars>>

\* One text delta stands for all, those before and after calls included.
SayText ==
    /\ Speaking
    /\ ~round_text
    /\ \A line \in ToSet(wire) \cup ToSet(buffer) : line.kind # "text"
    /\ Say([kind |-> "text"])
    /\ UNCHANGED <<api, meant, ending, parserVars, turnVars>>

\* finish_reason, which may come with the last piece of a call; or
\* response.completed.
FinishResponse ==
    /\ Speaking
    /\ IF api = "responses"
       THEN /\ ending' = "completed"
            /\ Say([kind |-> "completed"])
            /\ UNCHANGED meant
       ELSE \/ /\ ending' = IF Begun = {} THEN "stop" ELSE "tool_calls"
               /\ Complete
               /\ \/ /\ Say([kind |-> ending', index |-> 0])
                     /\ UNCHANGED meant
                  \/ \E i \in Begun :
                         /\ meant[i] < MaxPieces
                         /\ meant' = [meant EXCEPT ![i] = @ + 1]
                         /\ Say([kind |-> ending', index |-> i, id |-> NoId,
                                 piece |-> meant[i] + 1])
            \/ /\ ending' = "length"
               /\ Say([kind |-> "length", index |-> 0])
               /\ UNCHANGED meant
    /\ UNCHANGED <<api, parserVars, turnVars>>

\* The connection ends before the response does: a part of it arrives.
BreakOff ==
    /\ Speaking
    /\ ending' = "broken"
    /\ \E n \in 0 .. Len(wire) : wire' = SubSeq(wire, 1, n)
    /\ half' = (half /\ wire' # <<>>)
    /\ UNCHANGED <<api, meant, buffer, response_id, gathered, turnVars>>

-----------------------------------------------------------------------------
(***************************************************************************)
(* parse_sse                                                               *)
(***************************************************************************)
\* Half a line at the end of a chunk is thrown away.
ChunkAlone ==
    /\ phase = "stream" /\ buffer = <<>>
    /\ \E n \in 0 .. Len(wire), cut \in BOOLEAN :
           /\ cut => n < Len(wire)
           /\ n > 0 \/ (cut /\ ~half)
           /\ buffer' = SubSeq(wire, IF half THEN 2 ELSE 1, n)
           /\ wire' = SubSeq(wire, n + 1, Len(wire))
           /\ half' = cut
    /\ UNCHANGED <<api, meant, ending, response_id, gathered, turnVars>>

\* The next chunk is read when the buffer holds no whole line; it completes
\* the line that was cut, brings some more, and may cut the one after.
Chunk ==
    /\ phase = "stream" /\ buffer = <<>>
    /\ \E n \in 0 .. Len(wire), cut \in BOOLEAN :
           /\ cut => n < Len(wire)
           /\ n > 0 \/ (cut /\ ~half)
           /\ buffer' = SubSeq(wire, 1, n)
           /\ wire' = SubSeq(wire, n + 1, Len(wire))
           /\ half' = cut
    /\ UNCHANGED <<api, meant, ending, response_id, gathered, turnVars>>

\* ToolCallAccumulator::push: missing indexes are filled up, an id replaces
\* the id, a piece is appended.
Blank == [id |-> NoId, pieces |-> <<>>]

Push(delta) ==
    LET known == [i \in 1 .. (IF Len(gathered) < delta.index THEN delta.index ELSE Len(gathered)) |->
                     IF i <= Len(gathered) THEN gathered[i] ELSE Blank]
    IN  [known EXCEPT ![delta.index] =
            [id |-> IF delta.id = NoId THEN @.id ELSE delta.id,
             pieces |-> Append(@.pieces, delta.piece)]]

Pushed(line) == IF line.index = 0 THEN gathered ELSE Push(line)

\* finish: into_provider_event of every call.
Finish(accumulated, response) ==
    [i \in DOMAIN accumulated |->
        [call |-> accumulated[i].id, response |-> response, pieces |-> accumulated[i].pieces]]

CurrentId == ids[round]

\* Events reach the runtime as they are yielded.  After Completed, or the end
\* of the stream, calls are run and their outputs kept for the next request.
AfterLoop(run, text) ==
    /\ texts' = Append(texts, text)
    /\ outputs' = outputs \o [i \in DOMAIN run |-> [call |-> run[i].call, text |-> text,
                                                    response |-> run[i].response]]
    /\ ran' = ran \cup {run[i].call : i \in DOMAIN run}
    /\ phase' = IF run = <<>> THEN "completed" ELSE "request"

InLoop == UNCHANGED <<phase, texts, outputs, ran>>

\* parse_event of chat_completions.rs.
ParseChat(line) ==
    /\ response_id' = IF response_id = NoId THEN CurrentId ELSE response_id
    /\ CASE line.kind = "text" ->
                round_text' = TRUE /\ InLoop /\ UNCHANGED <<gathered, calls>>
         [] line.kind = "call" ->
                gathered' = Push(line) /\ InLoop /\ UNCHANGED <<round_text, calls>>
         [] line.kind = "tool_calls" ->
                /\ calls' = calls \o Finish(Pushed(line), response_id')
                /\ gathered' = <<>>
                /\ InLoop /\ UNCHANGED round_text
         [] line.kind \in {"stop", "length"} ->
                /\ gathered' = Pushed(line)
                /\ AfterLoop(calls, round_text) /\ UNCHANGED <<calls, round_text>>

\* parse_event of openai.rs: a call needs the response's id.
ParseResponses(line) ==
    /\ response_id' = IF line.kind = "created" THEN CurrentId ELSE response_id
    /\ CASE line.kind = "created" -> InLoop /\ UNCHANGED <<round_text, calls>>
         [] line.kind = "text"    -> round_text' = TRUE /\ InLoop /\ UNCHANGED calls
         [] line.kind = "item"    ->
                /\ calls' = Append(calls, [call |-> line.id, response |-> response_id,
                                           pieces |-> <<1>>])
                /\ InLoop /\ UNCHANGED round_text
         [] line.kind = "completed" ->
                AfterLoop(calls, round_text) /\ UNCHANGED <<calls, round_text>>
    /\ UNCHANGED gathered

ParseLine ==
    /\ phase = "stream" /\ buffer # <<>>
    /\ IF api = "chat" THEN ParseChat(Head(buffer)) ELSE ParseResponses(Head(buffer))
    /\ buffer' = Tail(buffer)
    /\ UNCHANGED <<api, providerVars, half, round, request, ids>>

\* A line that is no JSON, an "error" event, arguments that are no JSON, or an
\* error of the connection: the turn fails.
ParseError ==
    /\ phase = "stream"
    /\ phase' = "failed"
    /\ UNCHANGED <<api, providerVars, parserVars, round, calls, round_text, outputs,
                   request, ids, texts, ran>>

EndOfStream ==
    /\ phase = "stream" /\ buffer = <<>>
    /\ ending # ""
    /\ wire = <<>> \/ (half /\ Len(wire) = 1 /\ ending = "broken")
    /\ AfterLoop(calls, round_text)
    /\ UNCHANGED <<api, providerVars, parserVars, round, calls, round_text, request, ids>>

-----------------------------------------------------------------------------
Init ==
    /\ api \in {"chat", "responses"}
    /\ round = 0
    /\ phase = "request"
    /\ meant = [i \in Indexes |-> 0]
    /\ ending = ""
    /\ wire = <<>>
    /\ half = FALSE
    /\ buffer = <<>>
    /\ response_id = NoId
    /\ gathered = <<>>
    /\ calls = <<>>
    /\ round_text = FALSE
    /\ outputs = <<>>
    /\ request = <<>>
    /\ ids = <<>>
    /\ texts = <<>>
    /\ ran = {}

Provider ==
    \/ \E i \in Indexes : BeginCall(i) \/ ContinueCall(i) \/ ItemDone(i)
    \/ SayText
    \/ FinishResponse
    \/ BreakOff

Next ==
    \/ SendRequest
    \/ Provider
    \/ Chunk
    \/ ParseLine
    \/ ParseError
    \/ EndOfStream

Spec == Init /\ [][Next]_vars

-----------------------------------------------------------------------------
(***************************************************************************)
(* Properties                                                              *)
(***************************************************************************)
\* The calls of the response as the provider meant them.
Whole(n) == [i \in 1 .. n |-> [call |-> CallId(i), response |-> CurrentId,
                               pieces |-> [p \in 1 .. meant[i] |-> p]]]

\* However lines are cut and calls interleaved, a call is run only when it is
\* whole: with its own id, its response's id and all pieces in order.  The
\* chat API gives all calls of a response or, when it breaks off or ends
\* otherwise, none; the responses API gives them one by one.
CallsAsSent ==
    calls # <<>> =>
        /\ calls = Whole(Len(calls))
        /\ api = "chat" => ending = "tool_calls" /\ Len(calls) = Cardinality(Begun)

\* The providers refuse a request otherwise: the calls an assistant message
\* lists are answered by the messages right after it, in order, no tool
\* message is without one, and every call that was run in an earlier round of
\* the turn is there, and no other.
PairedToolMessages ==
    LET listing == {i \in DOMAIN request : request[i].role = "assistant"}
        tools   == {i \in DOMAIN request : request[i].role = "tool"}
    IN  /\ \A i \in listing : \A k \in DOMAIN request[i].calls :
               i + k \in tools /\ request[i + k].call = request[i].calls[k]
        /\ \A j \in tools : \E i \in listing : j - i \in DOMAIN request[i].calls
        /\ {request[j].call : j \in tools} = {c \in ran : c[1] < round}

\* What the model said in one response stays together and apart from other
\* responses: the calls of a round are listed in one message, with calls of
\* another round only if both responses had the same id, and with the text of
\* its own round.
RoundsKeptApart ==
    api = "chat" =>
        \A i, j \in {k \in DOMAIN request : request[k].role = "assistant"} :
            \A c \in ToSet(request[i].calls), d \in ToSet(request[j].calls) :
                /\ c[1] = d[1] => i = j
                /\ i = j => ids[c[1]] = ids[d[1]]
                /\ i = j /\ (\A e \in ToSet(request[i].calls) : e[1] = c[1]) =>
                       request[i].text = texts[c[1]]
=============================================================================
