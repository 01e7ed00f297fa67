----------------------------- MODULE SantiStore -----------------------------
(***************************************************************************)
(* The SQLite store of santi-core (store.rs, store/runtime.rs,             *)
(* store/db.rs, store/schema.rs).                                          *)
(*                                                                         *)
(* Every SantiStore method takes the one Mutex<Connection> for its whole   *)
(* body, so a method that succeeds is one atomic step; the operators below *)
(* are those steps.  A method that returns Err and wrote nothing is a      *)
(* stutter.  The methods that are not a transaction and can stop after     *)
(* their first UPDATE have an operator for that half too.                  *)
(*                                                                         *)
(* Tables are variables with the table's name: an entity table is a        *)
(* function whose domain is the set of ids inserted so far, a relation     *)
(* table is a set of rows.  Nothing in the code deletes a row.  There is   *)
(* one soul (DEFAULT_SOUL_ID) and UNIQUE (soul_id, session_id), so a soul  *)
(* session is named by its session.                                        *)
(***************************************************************************)
EXTENDS Integers, FiniteSetsExt

CONSTANTS
    Sessions,   \* ids create_session may draw
    Messages,   \* ids append_message may draw
    Turns,      \* ids start_turn may draw
    Spans,      \* ids append_thinking_span may draw
    Calls,      \* tool call ids; the provider chooses these
    Titles      \* titles a user may give a session

\* A title the user wrote is told apart from no title and from the title the
\* first message gives.
ASSUME TitlesAssumption == Titles \cap {"none", "first message"} = {}

VARIABLES
    sessions,                 \* sessions and session_profiles: id -> title
    messages,                 \* id -> [actor, state]
    r_session_messages,       \* rows [session, message, seq]
    soul_sessions,            \* session -> [next_seq, last_seen]
    r_soul_session_messages,  \* rows [session, type, target, seq]
    turns,                    \* id -> [session, trigger, input_through, base, end, status]
    thinking_spans,           \* id -> [turn, state, summary]
    tool_calls,               \* id -> turn
    tool_results              \* tool call id -> "output" or "error"

storeVars == <<sessions, messages, r_session_messages, soul_sessions,
               r_soul_session_messages, turns, thinking_spans, tool_calls,
               tool_results>>

Actors        == {"account", "soul", "system"}
MessageStates == {"fixed", "aborted"}
EntryTypes    == {"message", "thinking", "tool_call", "tool_result"}
NoSeq         == -1             \* NULL in end_soul_session_seq

\* session_profiles.title: NULL, taken from the first account message, or
\* written by update_session.
SessionTitles == {"none", "first message"} \cup Titles

MessageRow == [actor : Actors, state : MessageStates]
SoulRow    == [next_seq : Nat \ {0}, last_seen : Nat]
TurnRow    == [session : Sessions, trigger : Messages, input_through : Nat,
               base : Nat, end : Nat \cup {NoSeq},
               status : {"running", "completed", "failed"}]
SpanRow    == [turn : Turns, state : {"running", "completed", "failed"},
               summary : BOOLEAN]

\* INSERT: the table with one more row.
Insert(table, id, row) ==
    [x \in DOMAIN table \cup {id} |-> IF x = id THEN row ELSE table[x]]

EmptyTable == [x \in {} |-> x]

SeqsOf(rows, s) == {row.seq : row \in {r \in rows : r.session = s}}

SessionSeqs(s) == SeqsOf(r_session_messages, s)
SoulSeqs(s)    == SeqsOf(r_soul_session_messages, s)

\* The message belongs to the session, and is in its soul session's log.
InSession(s, m) == \E row \in r_session_messages : row.session = s /\ row.message = m
InSoulLog(s, m) ==
    \E row \in r_soul_session_messages :
        row.session = s /\ row.type = "message" /\ row.target = m

(***************************************************************************)
(* Sessions                                                                *)
(***************************************************************************)
CreateSession(s) ==
    /\ s \notin DOMAIN sessions
    /\ sessions' = Insert(sessions, s, "none")
    /\ UNCHANGED <<messages, r_session_messages, soul_sessions,
                   r_soul_session_messages, turns, thinking_spans, tool_calls,
                   tool_results>>

\* update_session_title: a blank title is normalised to NULL.
UpdateSessionTitle(s, title) ==
    /\ s \in DOMAIN sessions
    /\ sessions' = [sessions EXCEPT ![s] = title]
    /\ UNCHANGED <<messages, r_session_messages, soul_sessions,
                   r_soul_session_messages, turns, thinking_spans, tool_calls,
                   tool_results>>

(***************************************************************************)
(* Messages                                                                *)
(***************************************************************************)
\* MAX without the + 1 after the first message.
NextSessionSeqReused(s) == Max({0} \cup SessionSeqs(s)) + (IF SessionSeqs(s) = {} THEN 1 ELSE 0)

NextSessionSeq(s) == Max({0} \cup SessionSeqs(s)) + 1

\* title = ?2 instead of COALESCE(title, ?2).
TitleWithoutCoalesce(s, actor) == actor = "account" /\ NextSessionSeq(s) = 1

\* The first message of a session, when the user wrote it, becomes the title
\* of a session that has none: COALESCE(title, ?2).
TakesTitle(s, actor) ==
    /\ actor = "account"
    /\ NextSessionSeq(s) = 1
    /\ sessions[s] = "none"

\* append_message_with_kind, one transaction.
AppendMessage(s, m, actor, state) ==
    /\ s \in DOMAIN sessions                 \* ensure_session
    /\ m \notin DOMAIN messages              \* a fresh id
    /\ messages' = Insert(messages, m, [actor |-> actor, state |-> state])
    /\ r_session_messages' = r_session_messages \cup
           {[session |-> s, message |-> m, seq |-> NextSessionSeq(s)]}
    /\ sessions' = IF TakesTitle(s, actor)
                   THEN [sessions EXCEPT ![s] = "first message"]
                   ELSE sessions
    /\ UNCHANGED <<soul_sessions, r_soul_session_messages, turns,
                   thinking_spans, tool_calls, tool_results>>

(***************************************************************************)
(* The soul session and its log                                            *)
(***************************************************************************)
\* INSERT whether or not the row is there.
AcquireSoulSessionAnew(s) ==
    /\ s \in DOMAIN sessions
    /\ soul_sessions' = Insert(soul_sessions, s, [next_seq |-> 1, last_seen |-> 0])
    /\ UNCHANGED <<sessions, messages, r_session_messages,
                   r_soul_session_messages, turns, thinking_spans, tool_calls,
                   tool_results>>

\* The counter starts at 0.
AcquireSoulSessionFromZero(s) ==
    /\ s \in DOMAIN sessions
    /\ soul_sessions' =
           IF s \in DOMAIN soul_sessions THEN soul_sessions
           ELSE Insert(soul_sessions, s, [next_seq |-> 0, last_seen |-> 0])
    /\ UNCHANGED <<sessions, messages, r_session_messages,
                   r_soul_session_messages, turns, thinking_spans, tool_calls,
                   tool_results>>

\* acquire_soul_session: get or create.
AcquireSoulSession(s) ==
    /\ s \in DOMAIN sessions
    /\ soul_sessions' =
           IF s \in DOMAIN soul_sessions THEN soul_sessions
           ELSE Insert(soul_sessions, s, [next_seq |-> 1, last_seen |-> 0])
    /\ UNCHANGED <<sessions, messages, r_session_messages,
                   r_soul_session_messages, turns, thinking_spans, tool_calls,
                   tool_results>>

\* INSERT the entry without UPDATE ... SET next_seq = next_seq + 1.
AppendEntryKeepsNextSeq(s, type, target) ==
    /\ s \in DOMAIN soul_sessions
    /\ r_soul_session_messages' = r_soul_session_messages \cup
           {[session |-> s, type |-> type, target |-> target,
             seq |-> soul_sessions[s].next_seq]}
    /\ UNCHANGED soul_sessions

\* append_entry_in_tx: allocate next_seq and insert; the primary key refuses
\* a target that is in the log already.
AppendEntry(s, type, target) ==
    /\ s \in DOMAIN soul_sessions
    /\ \A row \in r_soul_session_messages :
           ~ (row.session = s /\ row.type = type /\ row.target = target)
    /\ r_soul_session_messages' = r_soul_session_messages \cup
           {[session |-> s, type |-> type, target |-> target,
             seq |-> soul_sessions[s].next_seq]}
    /\ soul_sessions' = [soul_sessions EXCEPT ![s].next_seq = @ + 1]

AppendMessageRef(s, m) ==
    /\ AppendEntry(s, "message", m)
    /\ UNCHANGED <<sessions, messages, r_session_messages, turns,
                   thinking_spans, tool_calls, tool_results>>

(***************************************************************************)
(* Turns                                                                   *)
(***************************************************************************)
StartTurn(t, s, trigger, through) ==
    /\ s \in DOMAIN soul_sessions            \* INSERT ... SELECT ... WHERE id
    /\ t \notin DOMAIN turns
    /\ turns' = Insert(turns, t,
           [session |-> s, trigger |-> trigger, input_through |-> through,
            base |-> soul_sessions[s].next_seq - 1, end |-> NoSeq,
            status |-> "running"])
    /\ UNCHANGED <<sessions, messages, r_session_messages, soul_sessions,
                   r_soul_session_messages, thinking_spans, tool_calls,
                   tool_results>>

\* complete_turn's first UPDATE: no guard on the old status.
CompletedRow(t) ==
    [turns EXCEPT ![t].status = "completed",
                  ![t].end = soul_sessions[turns[t].session].next_seq - 1]

CompleteTurnFirstUpdate(t) ==
    /\ t \in DOMAIN turns
    /\ turns' = CompletedRow(t)
    /\ UNCHANGED <<sessions, messages, r_session_messages, soul_sessions,
                   r_soul_session_messages, thinking_spans, tool_calls,
                   tool_results>>

\* last_seen takes a position of the soul's log, not of the session.
CompleteTurnSeenEntry(t, seq) ==
    /\ t \in DOMAIN turns
    /\ turns' = CompletedRow(t)
    /\ soul_sessions' = [soul_sessions EXCEPT ![turns[t].session].last_seen =
                             CompletedRow(t)[t].end]
    /\ UNCHANGED <<sessions, messages, r_session_messages,
                   r_soul_session_messages, thinking_spans, tool_calls,
                   tool_results>>

\* Both UPDATEs; last_seen takes the reply's seq whatever it was.
CompleteTurn(t, seq) ==
    /\ t \in DOMAIN turns
    /\ turns' = CompletedRow(t)
    /\ soul_sessions' = [soul_sessions EXCEPT ![turns[t].session].last_seen = seq]
    /\ UNCHANGED <<sessions, messages, r_session_messages,
                   r_soul_session_messages, thinking_spans, tool_calls,
                   tool_results>>

\* The row is reset instead of updated.
FailTurnReset(t) ==
    /\ t \in DOMAIN turns
    /\ turns' = [turns EXCEPT ![t].status = "failed",
                              ![t].base = soul_sessions[turns[t].session].next_seq - 1]
    /\ UNCHANGED <<sessions, messages, r_session_messages, soul_sessions,
                   r_soul_session_messages, thinking_spans, tool_calls,
                   tool_results>>

\* fail_turn: no guard on the old status, end is left as it was.
FailTurn(t) ==
    /\ t \in DOMAIN turns
    /\ turns' = [turns EXCEPT ![t].status = "failed"]
    /\ UNCHANGED <<sessions, messages, r_session_messages, soul_sessions,
                   r_soul_session_messages, thinking_spans, tool_calls,
                   tool_results>>

\* finish_failed_turn_context's first UPDATE: WHERE status = 'failed'.
FailedRow(t) ==
    IF turns[t].status = "failed"
    THEN [turns EXCEPT ![t].end = soul_sessions[turns[t].session].next_seq - 1]
    ELSE turns

FinishFailedTurnFirstUpdate(t) ==
    /\ t \in DOMAIN turns
    /\ turns' = FailedRow(t)
    /\ UNCHANGED <<sessions, messages, r_session_messages, soul_sessions,
                   r_soul_session_messages, thinking_spans, tool_calls,
                   tool_results>>

\* Both UPDATEs; last_seen never moves back here.
FinishFailedTurnContext(t, seq) ==
    /\ t \in DOMAIN turns
    /\ turns' = FailedRow(t)
    /\ soul_sessions' = [soul_sessions EXCEPT ![turns[t].session].last_seen =
                             IF @ > seq THEN @ ELSE seq]
    /\ UNCHANGED <<sessions, messages, r_session_messages,
                   r_soul_session_messages, thinking_spans, tool_calls,
                   tool_results>>

(***************************************************************************)
(* Thinking spans and tool calls                                           *)
(***************************************************************************)
\* append_thinking_span without its transaction: the entry can stay alone.
AppendThinkingSpanTorn(sp, t) ==
    /\ t \in DOMAIN turns
    /\ sp \notin DOMAIN thinking_spans
    /\ thinking_spans' \in {thinking_spans, Insert(thinking_spans, sp,
           [turn |-> t, state |-> "running", summary |-> FALSE])}
    /\ AppendEntry(turns[t].session, "thinking", sp)
    /\ UNCHANGED <<sessions, messages, r_session_messages, turns, tool_calls,
                   tool_results>>

\* append_thinking_span, one transaction.
AppendThinkingSpan(sp, t) ==
    /\ t \in DOMAIN turns                    \* turn_soul_session_id
    /\ sp \notin DOMAIN thinking_spans
    /\ thinking_spans' = Insert(thinking_spans, sp,
           [turn |-> t, state |-> "running", summary |-> FALSE])
    /\ AppendEntry(turns[t].session, "thinking", sp)
    /\ UNCHANGED <<sessions, messages, r_session_messages, turns, tool_calls,
                   tool_results>>

\* update_thinking_span_summary: WHERE state <> 'failed'.
UpdateThinkingSpanSummary(sp) ==
    /\ sp \in DOMAIN thinking_spans
    /\ thinking_spans' =
           IF thinking_spans[sp].state # "failed"
           THEN [thinking_spans EXCEPT ![sp].summary = TRUE] ELSE thinking_spans
    /\ UNCHANGED <<sessions, messages, r_session_messages, soul_sessions,
                   r_soul_session_messages, turns, tool_calls, tool_results>>

\* WHERE id = ?1 without AND state = 'running'.
FinishThinkingSpanAnyState(sp, state) ==
    /\ sp \in DOMAIN thinking_spans
    /\ thinking_spans' = [thinking_spans EXCEPT ![sp].state = state]
    /\ UNCHANGED <<sessions, messages, r_session_messages, soul_sessions,
                   r_soul_session_messages, turns, tool_calls, tool_results>>

\* finish_thinking_span: WHERE state = 'running'.
FinishThinkingSpan(sp, state) ==
    /\ sp \in DOMAIN thinking_spans
    /\ thinking_spans' =
           IF thinking_spans[sp].state = "running"
           THEN [thinking_spans EXCEPT ![sp].state = state] ELSE thinking_spans
    /\ UNCHANGED <<sessions, messages, r_session_messages, soul_sessions,
                   r_soul_session_messages, turns, tool_calls, tool_results>>

\* append_tool_call without its transaction: the row can stay alone.
AppendToolCallTorn(c, t) ==
    /\ t \in DOMAIN turns
    /\ c \notin DOMAIN tool_calls
    /\ tool_calls' = Insert(tool_calls, c, t)
    /\ \/ AppendEntry(turns[t].session, "tool_call", c)
       \/ UNCHANGED <<soul_sessions, r_soul_session_messages>>
    /\ UNCHANGED <<sessions, messages, r_session_messages, turns,
                   thinking_spans, tool_results>>

\* append_tool_call: the provider's call id is the primary key of the table.
AppendToolCall(c, t) ==
    /\ t \in DOMAIN turns
    /\ c \notin DOMAIN tool_calls
    /\ tool_calls' = Insert(tool_calls, c, t)
    /\ AppendEntry(turns[t].session, "tool_call", c)
    /\ UNCHANGED <<sessions, messages, r_session_messages, turns,
                   thinking_spans, tool_results>>

\* append_tool_result: UNIQUE (tool_call_id), so the result is named by its
\* call; it goes to the log of the call's turn.
AppendToolResult(c, outcome) ==
    /\ c \in DOMAIN tool_calls               \* call_soul_id
    /\ c \notin DOMAIN tool_results
    /\ tool_results' = Insert(tool_results, c, outcome)
    /\ AppendEntry(turns[tool_calls[c]].session, "tool_result", c)
    /\ UNCHANGED <<sessions, messages, r_session_messages, turns,
                   thinking_spans, tool_calls>>

-----------------------------------------------------------------------------
(***************************************************************************)
(* The store under any client that passes ids the store gave it: a trigger *)
(* and a last-seen position name a message of the turn's session.          *)
(***************************************************************************)
StoreInit ==
    /\ sessions = EmptyTable
    /\ messages = EmptyTable
    /\ r_session_messages = {}
    /\ soul_sessions = EmptyTable
    /\ r_soul_session_messages = {}
    /\ turns = EmptyTable
    /\ thinking_spans = EmptyTable
    /\ tool_calls = EmptyTable
    /\ tool_results = EmptyTable

SessionStep ==
    \E s \in Sessions :
        \/ CreateSession(s)
        \/ \E title \in Titles \cup {"none"} : UpdateSessionTitle(s, title)
        \/ AcquireSoulSession(s)

\* What the callers append: only the soul's partial output is aborted.
AppendedRows == {row \in MessageRow : row.state = "aborted" => row.actor = "soul"}

MessageStep ==
    \E s \in Sessions, m \in Messages :
        \/ \E row \in AppendedRows : AppendMessage(s, m, row.actor, row.state)
        \/ InSession(s, m) /\ AppendMessageRef(s, m)

TurnStep ==
    \E t \in Turns :
        \/ \E row \in r_session_messages :
               StartTurn(t, row.session, row.message, row.seq)
        \/ CompleteTurnFirstUpdate(t)
        \/ FailTurn(t)
        \/ FinishFailedTurnFirstUpdate(t)
        \/ /\ t \in DOMAIN turns
           /\ \E row \in r_session_messages :
                  /\ row.session = turns[t].session
                  /\ InSoulLog(row.session, row.message)
                  /\ \/ CompleteTurn(t, row.seq)
                     \/ FinishFailedTurnContext(t, row.seq)

RuntimeStep ==
    \/ \E sp \in Spans :
           \/ \E t \in Turns : AppendThinkingSpan(sp, t)
           \/ UpdateThinkingSpanSummary(sp)
           \/ \E state \in {"completed", "failed"} : FinishThinkingSpan(sp, state)
    \/ \E c \in Calls :
           \/ \E t \in Turns : AppendToolCall(c, t)
           \/ \E outcome \in {"output", "error"} : AppendToolResult(c, outcome)

StoreNext == SessionStep \/ MessageStep \/ TurnStep \/ RuntimeStep

StoreSpec == StoreInit /\ [][StoreNext]_storeVars

-----------------------------------------------------------------------------
(***************************************************************************)
(* What the store promises                                                 *)
(***************************************************************************)

\* Every table holds rows of its columns' types.
StoreTypeOK ==
    /\ sessions \in [DOMAIN sessions -> SessionTitles]
    /\ messages \in [DOMAIN messages -> MessageRow]
    /\ r_session_messages \subseteq
           [session : Sessions, message : Messages, seq : Nat \ {0}]
    /\ soul_sessions \in [DOMAIN soul_sessions -> SoulRow]
    /\ r_soul_session_messages \subseteq
           [session : Sessions, type : EntryTypes,
            target : Messages \cup Spans \cup Calls, seq : Nat \ {0}]
    /\ turns \in [DOMAIN turns -> TurnRow]
    /\ thinking_spans \in [DOMAIN thinking_spans -> SpanRow]
    /\ tool_calls \in [DOMAIN tool_calls -> Turns]
    /\ tool_results \in [DOMAIN tool_results -> {"output", "error"}]
    /\ DOMAIN sessions \subseteq Sessions
    /\ DOMAIN messages \subseteq Messages
    /\ DOMAIN soul_sessions \subseteq Sessions
    /\ DOMAIN turns \subseteq Turns
    /\ DOMAIN thinking_spans \subseteq Spans
    /\ DOMAIN tool_calls \subseteq Calls
    /\ DOMAIN tool_results \subseteq Calls

\* The messages of a session are numbered 1, 2, ... with no gap and no number
\* used twice, and a message belongs to one session (next_session_seq, which
\* reads MAX over the rows, and UNIQUE (session_id, session_seq)).
SessionLogDense ==
    /\ \A s \in Sessions : \E n \in {0} \cup SessionSeqs(s) : SessionSeqs(s) = 1 .. n
    /\ \A a, b \in r_session_messages :
           a.message = b.message \/ (a.session = b.session /\ a.seq = b.seq) => a = b

\* The log the model's input is assembled from is numbered 1 .. next_seq - 1
\* with no gap and no number used twice, and holds a target once
\* (append_entry_in_tx against the stored counter).
SoulLogDense ==
    /\ \A s \in DOMAIN soul_sessions : SoulSeqs(s) = 1 .. soul_sessions[s].next_seq - 1
    /\ \A a, b \in r_soul_session_messages :
           /\ a.session = b.session
           /\ a.seq = b.seq \/ (a.type = b.type /\ a.target = b.target)
           => a = b

\* Every log entry names a row that exists and, for a message, one of the same
\* session: assembly_input and the snapshot queries find what the log lists.
EntriesResolve ==
    \A e \in r_soul_session_messages :
        /\ e.session \in DOMAIN soul_sessions
        /\ e.type = "message"     => InSession(e.session, e.target)
        /\ e.type = "thinking"    =>
               /\ e.target \in DOMAIN thinking_spans
               /\ turns[thinking_spans[e.target].turn].session = e.session
        /\ e.type = "tool_call"   =>
               /\ e.target \in DOMAIN tool_calls
               /\ turns[tool_calls[e.target]].session = e.session
        /\ e.type = "tool_result" =>
               /\ e.target \in DOMAIN tool_results \cap DOMAIN tool_calls
               /\ turns[tool_calls[e.target]].session = e.session

\* The converse for runtime rows: a span, call or result is in the log of its
\* turn's session from the moment it exists (one transaction inserts both).
RuntimeRowsLogged ==
    LET Logged(t, type, x) ==
            \E e \in r_soul_session_messages :
                e.session = turns[t].session /\ e.type = type /\ e.target = x
    IN  /\ \A sp \in DOMAIN thinking_spans :
               Logged(thinking_spans[sp].turn, "thinking", sp)
        /\ \A c \in DOMAIN tool_calls : Logged(tool_calls[c], "tool_call", c)
        /\ \A c \in DOMAIN tool_results : Logged(tool_calls[c], "tool_result", c)

\* A turn's window [base, end] lies inside the log of its session, and a
\* completed turn has an end.
TurnWindow ==
    \A t \in DOMAIN turns :
        LET turn == turns[t] IN
        /\ turn.session \in DOMAIN soul_sessions
        /\ turn.base < soul_sessions[turn.session].next_seq
        /\ turn.end = NoSeq \/ turn.end \in turn.base .. soul_sessions[turn.session].next_seq - 1
        /\ turn.status = "completed" => turn.end # NoSeq

\* last_seen_session_seq is 0 or the number of a message of the session that
\* is in the soul's log: the soul is never said to have seen a message that
\* its input would not hold.
LastSeenInLog ==
    \A s \in DOMAIN soul_sessions :
        \/ soul_sessions[s].last_seen = 0
        \/ \E row \in r_session_messages :
               /\ row.session = s
               /\ row.seq = soul_sessions[s].last_seen
               /\ InSoulLog(s, row.message)

\* The tables only grow, and a turn's identity never changes.
LogExtended ==
    /\ r_session_messages \subseteq r_session_messages'
    /\ r_soul_session_messages \subseteq r_soul_session_messages'

TurnsKept ==
    \A t \in DOMAIN turns :
        /\ t \in DOMAIN turns'
        /\ \A f \in {"session", "trigger", "input_through", "base"} :
               turns'[t][f] = turns[t][f]

EndedSpansKept ==
    \A sp \in DOMAIN thinking_spans :
        /\ thinking_spans[sp].state # "running" =>
               thinking_spans'[sp].state = thinking_spans[sp].state
        /\ thinking_spans[sp].state = "failed" =>
               thinking_spans'[sp] = thinking_spans[sp]

TitlesKept ==
    \A s \in DOMAIN sessions : sessions[s] \in Titles => sessions'[s] # "first message"

\* The log is append-only, and a turn that was started stays, with the session,
\* trigger, watermark and base it started with.
HistoryKept == [][LogExtended /\ TurnsKept]_storeVars

\* A thinking span that ended keeps the state it ended in, and a failed one
\* its summary too.
EndedSpansStay == [][EndedSpansKept]_storeVars

\* A title the user gave is never replaced by the first message's text.
UserTitleKept == [][TitlesKept]_storeVars
=============================================================================
