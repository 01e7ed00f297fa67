# A verification of mini-stim in TLA+

mini-stim is a local-first AI chat for one person. A web client talks to a Rust
server over HTTP and a server-sent event stream; the server streams answers
from a model provider and keeps the transcript in SQLite. The server's own
logic is in `santi-core`: a *session* of messages, a *soul* that keeps its own
log of what it saw and did in the session, and a *turn* for each message the
user sends. A turn asks the provider, shows its thinking, runs the tools it
calls, asks again, and ends with a reply or a recorded failure.

Around that core the events travel through a bounded broadcast channel to the
client, whose projection merges them with the answers to its own requests; and
in development two supervisors, the *cells*, run the server and the client.

This directory holds the TLA+ modules that model all of this, the TLC
configurations that check them, and the TLAPS proofs about the server, the
event stream, the client, the provider's streams and the cells. Source paths below are shortened: `core` is
`src/apps/server/soma/crates/santi-core/src`, `provider` and `api` its sibling
crates, `mqueue` is `src/packages/mqueue/src`, `cells` is `src/apps/*/cell`.

## Inventory

| Component | State it keeps | Operations | What makes it correct |
|---|---|---|---|
| **SantiStore** (`core/store.rs`, `core/store/`) | the SQLite tables: sessions, messages, both logs, turns, spans, tool calls and results | one method per write, each under the one `Mutex<Connection>`; some are transactions, `complete_turn` and `finish_failed_turn_context` are not | both logs numbered without gap or repeat; every log entry finds its row and every row its entry; a turn's window stays inside the log; nothing that was written is lost or renumbered |
| **SantiService: send and turn end** (`core/service.rs`, `service/failure.rs`) | a task per turn, the broadcast channel | `send_session`, `complete_provider_turn`, `fail_background_turn` | the trigger is in the input; what the client is told agrees with the store; every turn that ends says so, once, last |
| **SantiService: provider turn** (`core/service.rs`, `service/{thinking,text_delta,tools}.rs`) | round, text so far, open thinking span, calls to run | `run_provider_turn` and a handler per stream event | spans open and close in pairs; a call is answered before the next request; the activity shown is the phase the turn is in |
| **Material cache** (`core/service/materials.rs`) | text per session and kind | `system_prompt_material`: render, look up under the lock, publish after it | older texts that overwrite newer ones do not stay, and no text is kept that mixes old and new, unless the refetch that would repair it fails |
| **HTTP and event stream** (`api/main.rs`) | a bounded broadcast ring (1024), a receiver per client | routes; `session_events` subscribes after checking the session | a client that keeps up misses nothing after its subscription; one that lags loses the oldest only |
| **Stream parsers** (`provider/openai.rs`, `provider/chat_completions.rs`) | line buffer, tool call deltas by index, output groups | one transition per provider line | a call is run whole or not at all; every later request pairs calls and outputs |
| **mqueue** (`mqueue/*.ts`) | the client's projection of sessions, messages, turns, spans and tools | `pub` with its HTTP calls, a handler per stream event | a view holds its own session's messages and, once in step, leaves none out; streamed text goes with its turn; a finished turn does not go back to running |
| **Object store, buckets** (`core/object_store.rs`, `core/service_bucket.rs`, `api/bucket.rs`) | a directory tree | put, get, head, delete, list | a key stays inside its bucket; a listed object can be read |
| **Workspace URIs** (`core/workspace_uri.rs`) | none | `parse_workspace_uri` | the path never leaves its root |
| **Cells** (`cells`, `src/apps/client/soma`) | child process, reported state, the URL followed | spawn, wait for health, restart on a new server URL, shutdown | none left after shutdown, one client soma at a time, the client ends up with the server that stays |
| **Inspect transport, ports** (`src/proto/crates`) | Unix socket, port file | serve, invoke; probe a port and bind it later | a port taken between probe and bind is not mistaken for one's own for long |
| **Web app, hooks, storage, components** | view state | rendering; what a user may do when | presentation |

How they interact: the client's `send` reaches `send_session`, which makes a
chain of store calls and spawns the task of the turn; the task makes store
calls and publishes events; the API forwards a session's events to each
subscribed client, and mqueue merges them with what its own GET requests
return. The store's mutex is taken per call, never across calls, so the chains
of any number of sends and tasks interleave call by call. Nothing is recovered
when the process restarts: the database is opened as it was left.

The cells talk to each other only through a socket that reports status: the
client's cell asks the server's for its URL every two seconds.

What is hard here, and what the properties are for: interleaved sends to one
session; methods that are two statements and no transaction; a failure path
that drops the errors of its own store calls; a provider that may send events
in any order and choose repeated call ids; a stream that ends without saying
so; a crash between any two steps; HTTP answers and events that overtake each
other; a ring that drops what a slow reader has not read; a cache written
outside the lock under which it is compared; ports and sockets that another
process takes in between. `PROJECT.json` lists these hazards at their
lines, each with the properties that would catch it going wrong.

## The modules

    SantiStore            the tables and an action per store method
      MCSantiStore        small instances for TLC
      SantiStoreProofs    numbering, types, turn windows, the log against the
                          rows, and history, proved
      ProviderTurn        extends the store: the provider phase of a turn
        SantiService      extends ProviderTurn: sends, turn ends, crashes
          MCSantiService  small instances for TLC
          SantiServiceProofs  the service implements the store's contract, proved
                          (extends SantiStoreProofs too)
            SantiServiceSafetyProofs    triggers, replies and the ends of turns, and
                                        that the service implements TurnOutcome, proved
              SantiServiceRecordProofs    the failure path, spans, calls and events, proved

    TurnOutcome           what a client may rely on about a turn (abstract)
    EventStream           the broadcast ring, one connection, one EventSource
      MaterialCache       extends it: the material cache and its refetching client
        MCMaterialCache     a small instance for TLC
        MaterialCacheProofs the stream and the cache, proved
      Mqueue              extends it: the client's projection, against TurnOutcome
        MCMqueue            a small instance for TLC
        MqueueProofs        views, transients, final rows and types, and that it
                            implements EventStream and TurnOutcome, proved
    ProviderStreams       the two parsers, and the requests of a turn's rounds
      MCProviderStreams     a small instance for TLC
      ProviderStreamsProofs calls run as sent, requests pair them and keep rounds
                            apart, proved
    Cells                 the two supervisors, their somas, ports and the socket
      MCCells             a small instance for TLC
      CellsProofs           no soma is left behind, proved

**SantiStore.** A variable per table, with the table's name. An entity table is
a function from the ids inserted so far to rows; a relation table is a set of
rows. There is one soul, so a soul session is named by its session. Each
operator is one store method: the mutex makes a method that succeeds one step,
and one that returns Err with nothing written a stutter. The two methods that
are two UPDATEs without a transaction have an operator for the first half too
(`CompleteTurnFirstUpdate`, `FinishFailedTurnFirstUpdate`). Texts, timestamps,
versions and generated ids are abstracted; titles keep the difference between
none, automatic and written by the user, because `COALESCE(title, ?2)` turns on
it. `StoreNext` lets any caller call any method in any order, as long as the
message it names belongs to the turn's session. `StoreSpec` is therefore the
contract between the store and its users.

**ProviderTurn.** The task of turn `t` has a program counter `pc[t]` and the
Rust locals of `run_provider_turn` (`round`, `text`, `current`, `summarised`,
`calls`). An action is one iteration of the event loop or one store call, with
the publishes up to the next one. The provider is external: it may send any
event at any point of a stream, repeat a call id, end a stream without
Completed, fail, or stay silent. A store call may fail, before or after it took
effect, which `provider_try!` and `?` turn into the failure path. `text` is
`"empty"`, `"blank"` or `"text"`, the three cases the code tells apart.

**SantiService.** `send_session` is the chain Send, AcquireForSend,
RefUserMessage, StartTurnForSend, SpawnTurn; the end of a turn is AppendReply,
RefReply, Complete, or the failure chain Fail, AppendPartial, RefPartial,
AppendSystem, RefSystem, FinishFailure. Between any two of them any other
task, call or crash can run. `SessionCall` is what else a client can do to the
same tables: create a session, change its title, ask for its material (which
acquires the soul session). `published` is the set of events sent to the
broadcast channel; `publish_stream` ignores a channel nobody listens to.

**TurnOutcome** is the abstract specification between server and client: the
status a turn's row shows, and its one terminal event. SantiService implements
it (`OutcomeSpec`, with `StatusOf` and `ToldOf` as the refinement mapping), and
Mqueue takes it, by `INSTANCE`, for its server. The client is thereby checked
against everything the service may do, its silent completions and its failures
reported without a failed row included, and not against one schedule of ours.

**EventStream.** `channel` holds all events ever sent; the ring is its last
`Capacity`. A receiver is the position it reads next. `Lag` is tokio's
`RecvError::Lagged`, which `session_events` filters out without a word; `Break`
drops the receiver and lets the EventSource reconnect with a new one; `Refuse`
is an answer other than 200, after which an EventSource is dead. `StreamSpec` is
the stream under any publisher and any client, and the two modules that extend
it each restrict who publishes and who connects.

**MaterialCache.** A rendering takes `Parts` reads (content and modification
time of each memory file), not atomic against writers; `Lookup` is the code
under the lock, `Announce` the event after it; the client answers each event with
a request of its own. Texts are vectors of versions, so "older" is per part. A
call fails when the session or soul is not found or a file that exists cannot be
read (`CallFails`), and a refetch may never reach the server (`RefetchLost`); the
client's `void ensureMaterial` tries neither again.

**Mqueue.** A request in flight is a slot with its stage: sent, served (with what
the server read at that moment, still to be answered), or over. The user's steps
have the guards App.tsx and the hooks give them: nothing is sent while something
is pending. Each event handler is a case of `Handled`. `updated_at`, which
`dedupeTurns` compares, is a stamp that grows with the status. A message is
named by its kind and turn; texts are left out.

**ProviderStreams.** One turn against one of the two APIs (`api`). The provider
keeps its protocol but may break off, be cut anywhere, say what is no JSON, or
repeat a response id. `Chunk` brings lines, whole or cut in two; `ParseLine` is
`parse_event` with the event loop of `run_provider_turn` that consumes its
events; `Messages` and `ResponseInput` build the next request. The loop of
`output_groups` is a recursive function over the outputs, `Grouped` its body. A
piece of a call's arguments is its number, so order and loss show.

**Cells.** Several launches of the server's cell, at once or one after another,
and the client's. A cell's `phase` is where `main` stands; its status is running
from phase `ready`, and only in `watch` is there somebody to handle a signal. A
port that cannot be had and a soma that cannot be started end the cell. The
client's poll is a call that may fail (`PollFails`), and `current_server_url`
then falls back on `MINI_STIM_SERVER_URL` (`env`) though the server runs. The client's soma is a process that runs a web server (vite)
of its own: `start_kill` is SIGKILL, so the web server survives its soma and
keeps the port. Other programs come and go on the ports in `Contested`.

The variables with no counterpart in the code are `heard`, `latest`,
`truncated`, `faults` and `crashes` of the service, `handled`, `newest`, `origin`,
`repair`, `noise`, `ran`, `synced`, `ids`, `texts` and `cut` elsewhere: history and bounds, read by properties and
by the guards that keep the model finite, never by the modelled code.

In each module some operators are plausible bugs of the operator after them,
with a comment naming the change (`CompleteAfterPublish`, `AcquireSoulSessionAnew`).
They are not part of any specification. `PROJECT.json` lists which property each
of them breaks, so that no property is kept that no bug can reach.

## What each run checks

| Run | Instance | Question |
|---|---|---|
| `store_rows` | 1 session, message, turn, span and call, 1 user title | Do all store methods in any order keep the soul's log dense, log and rows in step, history append-only, ended spans ended and user titles kept? |
| `store_turns` | 2 sessions, 2 messages, 2 turns | Does the session numbering stay dense, do turn windows stay inside the log, does `last_seen` name a message the soul's log holds? |
| `service_one` | 1 turn, 2 calls, 2 rounds, 3 events, 2 store errors, 1 crash, weak fairness | Does what the client was told agree with the store, through every failure? Is the turn the abstract one (`OutcomeSpec`)? Does every turn whose provider phase is over end with an event? |
| `service_two` | 2 turns of one session, 1 store error | Is each trigger in its turn's input and each reply in its window, and is every step of the service one the store's contract allows (`StoreSpec` as a property)? |
| `service_answers` | 2 turns, a call id both may draw, weak fairness | Is every recorded call answered, and every send, although another turn of the session waits for ever? |
| `watermark` | 2 turns of one session | refutes a comment of mqueue, see Findings |
| `chip` | 1 turn, 2 rounds, 4 events | refutes a comment of the web app, see Findings |
| `material` | ring of 2, 2 sessions, 2 calls at once, 2 files, 1 write per file, any call or refetch may fail | Does the stream lose only what the ring had dropped? Once all is quiet and the client acted on the session's last event, is the cached text as new as any that was used, if the refetch for it was not lost? |
| `client` | 1 turn, 2 sessions, 2 requests in flight, ring of 4 | Do views, transients and turn rows stay right whatever order answers and events come in, and whatever the user selects meanwhile? |
| `client_failure` | the same | refutes a comment of the web app, see Findings |
| `provider_streams` | 3 rounds, 2 calls of 2 pieces, 2 response ids | Is a call run only when it is whole, and is every later request well-formed and true to the rounds? |
| `cells` | 2 launches, or 1 with a fallback URL and failing polls; 3 ports (1 contested), 2 client somas at once, weak fairness | Is a soma left behind? Is a stranger on the port noticed? Does the client end up with the server that stays? |

*Bounds.* Two turns of one session suffice for the interleaving properties,
which each relate one or two turns of one session; a third turn adds only
another writer of the same tables, which `StoreNext` already gives
`store_turns` without limit. Two rounds are the least with a tool call and a
request after it. `MaxEvents` counts the events of a turn other than the ends
of its streams: three allow a thinking span, a text and a call, or two spans,
in either order. Two store errors let the failure path fail while it handles a
failure. One crash suffices, since a restart leaves every task dead and nothing
resumes them; the identifiers are finite sets, so a run in the model has
finitely many messages. The store runs need no bound beyond the ids: nothing
is deleted, so the tables fill up and the counters stop with them.
A ring of two (`Capacity`) overflows with the three events that two calls and one of
another session (`MaxNoise`) send, and one of four with the events of one turn,
five or six, while a reader that keeps up never lags; the code's 1024 differs in
number only, and the proofs hold for every capacity. Two `Slots` let any two
requests overtake each other, and a turn's end overtake its send. One write of
each file (`MaxWrites`) gives every mixture of old and new; the four reads of the
code are two here, one per file (`Parts`, `Files`), the least that a write can fall
between, and the proof holds for any number, also of reads that change together.
`Callers` bounds the calls at once: two race, and they are reused. `MaxCalls` and
`MaxPieces` of two are the least with interleaving and order; three rounds are the
least in which a request joins two rounds that came before it. `Pids` are
handed out again once a soma and its web server are gone, so two of them bound
what may run at once and not how often the client restarts: two are the least
with a dead soma's web server beside a replacement. `Started` gives two launches when
`MINI_STIM_SERVER_URL` is not set, so that one takes the socket over from the
other, and one when it is, since the URL then changes as often as calls fail.
`Contested` names one port, so that one is taken between probe and bind and
others remain.

*Fairness.* `FairSpec` assumes weak fairness of `Task(t)` alone: the code of a
ready task runs, because tokio polls a woken task and a store call returns.
Nothing is assumed of the provider (`StreamEvent` is not in `Task`), of the
clients, or of a shell command that does not return in the code; the tool's
outcome is part of `Task`, so `OutcomeReported` starts its promise at the end of
the provider phase, and `SendAnswered` concerns steps that run no tool.

`FairSpec` of Cells assumes that a running cell goes on (its 45 seconds of health
checks expire, `wait` returns when the child is dead, the two seconds pass) and
that a started soma binds its port or ends. No signal, launch, exit or other
program is assumed to come, no web server to end, and no call to fail.
`ClientConverges` promises something only from where the URL the client is told
stays the same, failing calls included: a call that succeeds then follows in the
poll loop by itself.

*Deadlock* is checked where the system never stops: the store and the service
(`UpdateSessionTitle` can always be called), the stream and the client. It is not
in `provider_streams`, where a turn ends, and in `cells`, where the cells do.

## Properties worth reading first

- `CompletionIsFinal`: a client that heard `message_completed` finds the turn
  completed, the reply fixed and in the log, and never hears `turn_failed`,
  although `complete_turn` can fail after its first UPDATE.
- `FailureIsRecorded`: behind `turn_failed` the turn is failed and closed, the
  notice is in its window, and the aborted partial output precedes it. Only a
  store error excuses it, since `fail_background_turn` drops those.
- `NoOrphanTurn`: a turn is left running with no task only by a crash or a
  store error. Both excuses are real: after a restart such a turn stays running
  for ever, and an error of `runtime_snapshot` in `send_session` leaves one.
- `SpansSettled`: the excuse `truncated` is real too. A stream that ends without
  Completed leaves its span running for good.
- `ReplyInWindow`: for every turn by itself, whatever other turns write.
- `LastSeenInLog`: `complete_turn` may move `last_seen` back, but always to a
  message of the soul's log.
- `TerminalEventIsLast`: after its terminal event, nothing of a turn changes any
  more: its row, its messages and their entries in the soul's log, its spans, calls
  and results, and the events published of it.
- `OutcomeReported`, `SendAnswered`: the liveness the code owes its client.
- `OutcomeSpec`: all of that, as one abstract turn.
- `QuietCacheIsNewest`: a slow rendering can put an older text over a newer one,
  and a torn one can mix two versions. Both races repair themselves, because
  every change is announced and the client fetches again on every announcement.
  An old text stays only while nobody listens, or when the refetch that was to
  replace it fails: its excuse `repair = "lost"` is real, `index.ts:424` drops the
  error. Any later call that succeeds ends the excuse, and failures of other
  calls or of earlier refetches are none.
- `SyncedViewComplete`: GET replaces the view and loses what events had added,
  yet a list read while the stream was open, and used before the stream moved
  past it, leaves nothing out afterwards.
- `TransientIsTemporary`, `FinalRowStays`: no late answer brings back the
  streamed text of a finished turn or makes it run again.
- `RoundsKeptApart`, `PairedToolMessages`: what the provider would refuse, or
  silently misread, in the second tool round of a turn: every call that ran so far
  is in the request, each with its own output.
- `NoOrphanSoma`: its excuse `cut` is real. A signal during a health check leaves
  the soma running; during a restart it also kills the wrong child.
- `StrangerNoticed`, `ClientConverges`: the cells' health check accepts any answer
  on the port, and the socket belongs to whoever bound it last; both are only
  temporary.

## Findings

- `watermark`: `mqueue/events.ts:227-229` says a turn's messages sit after its
  watermark "and before the next turn's", and attributes messages to turns by
  it. `send_session` does not wait for the running turn of the session, so with
  two overlapping sends the first turn's reply is numbered after the second
  turn's watermark and attributed to the second turn.
- `chip`: `App.tsx:153-154` says the header chip names the phase the turn is
  actually in. `handle_text_delta` publishes `generating` only for the first text
  of the turn, so the text of a later round streams under `requesting` or
  `thinking`. (The chip is shown only while the client is busy, as it is then.)
- `client_failure`: `App.tsx:185-186` says turn failures render in place inside
  the transcript. `markTurnFailed` (`mqueue/projection.ts:87-92`) does nothing when
  the client has no row of the turn; if the stream was opened after `turn_started`,
  the failure comes first and the answer to the send, or an older runtime
  snapshot, then shows the turn as running.

What else the models show, with no line of the repository that says otherwise,
so no run refutes it:

- The client's soma is killed with SIGKILL and its vite stays on the port. The
  replacement's vite then fails (`--strictPort`) while the health check is answered
  by the old one, which still points at the old server: a change of the server's
  URL mostly ends the client's cell, unless the old vite ends first.
- `response_input` of `openai.rs` sends the outputs of tool calls instead of the
  conversation, not after it.
- A chunk is decoded by itself, so a character cut by the network is lost
  (`from_utf8_lossy`).
- Calls gathered when the response finishes with `length`, or breaks off, are
  dropped, and the turn completes with the text it has.
- A stream that was refused is taken for a connection from then on.

## What is proved

`SantiStoreProofs` proves the store's properties for every set of identifiers,
and so for any number of sessions, messages, turns, spans
and calls. The only assumption on the constants is `TitlesAssumption`: a title
the user wrote is told apart from no title and from the automatic one.

`SantiServiceProofs` proves that the service, with its interleaved sends and
turns, its store errors and its crashes, implements the store's contract:
`Spec => StoreSpec`. Every theorem of the store therefore holds of the service.
It assumes in addition `IdsAssumption` (a send leads to at most one message of
each of the four kinds, none of them another send's; "no span" is not a span)
and `BoundsAssumption` (the bounds are natural numbers, of any size). TLC
evaluates all three in every run of the module that declares them. The proofs
about the stream, the cache and the client hold for every ring capacity, and any
number of sessions, turns, callers, files and requests in flight, under
`CapacityAssumption`, `SessionsAssumption`, `WatchedAssumption`, `PartsAssumption`
and `PayloadsAssumption`, and those about the cells for any number of launches,
ports and restarts under `CellsAssumption` (somas have pids of their own). Those
about the provider's streams hold for any number of rounds, of calls in a
response and of pieces of a call, and any response ids, under
`ProviderAssumption` (no id is the absent one; the bounds are positive). Each
assumption is named at its constants and evaluated in the same way.

| Theorem | Property |
|---|---|
| `StoreInvariant` | the inductive invariant `StoreInv` |
| `StoreTypeCorrect` | `StoreTypeOK` |
| `SessionNumbering`, `SoulNumbering` | `SessionLogDense`, `SoulLogDense` |
| `TurnWindowsInLog` | `TurnWindow` |
| `HistoryIsKept`, `EndedSpansAreFinal`, `UserTitlesAreKept` | `HistoryKept`, `EndedSpansStay`, `UserTitleKept` |
| `EntriesAlwaysResolve`, `RowsAlwaysLogged` | `EntriesResolve`, `RuntimeRowsLogged` |
| `LastSeenAlwaysLogged` | `LastSeenInLog` |
| `ServiceInvariant` | the inductive invariant `ServiceInv` |
| `ServiceTypeCorrect` | `ServiceTypeOK` |
| `ServiceUsesStore` | `StoreSpec`, of the service |
| `SafetyInvariant` | the inductive invariant `SafetyInv` |
| `TriggersAreInput`, `RepliesAreInWindow` | `TriggerInInput`, `ReplyInWindow` |
| `CompletionsAreFinal`, `TerminalEventsAreLast` | `CompletionIsFinal`, `TerminalEventIsLast` |
| `NoTurnIsOrphaned` | `NoOrphanTurn` |
| `FailuresAreRecorded` | `FailureIsRecorded` |
| `RecordInvariant` | the inductive invariant `RecordInv` |
| `SpansAreSettled`, `CallsAreAnswered` | `SpansSettled`, `CallsAnswered` |
| `EventsFollowTheirRows` | `EventsFollowRows` |
| `ServiceImplementsOutcome` | `OutcomeSpec`, of the service |
| `StreamDelivers` | `OnlyOldEventsMissed`, under `StreamSpec` |
| `MaterialCacheImplementsStream` | `StreamSpec`, of MaterialCache |
| `MaterialStreamTyped`, `MaterialStreamDelivers` | `StreamTypeOK`, `OnlyOldEventsMissed` |
| `CacheRepairsItself` | `QuietCacheIsNewest` |
| `ViewsStayApart` | `ViewIsOfSession` |
| `TransientsGoAway` | `TransientIsTemporary` |
| `EndedRowsStay` | `FinalRowStays` |
| `SyncedViewsAreComplete` | `SyncedViewComplete` |
| `MqueueTypeCorrect` | `MqueueTypeOK` |
| `MqueueUsesStream` | `StreamSpec`, of Mqueue |
| `MqueueServerKeepsPromise` | TurnOutcome's `Spec`, of Mqueue's server |
| `ProviderStreamsInvariant` | the inductive invariant `StreamsInv` |
| `CallsAreRunAsSent` | `CallsAsSent` |
| `RequestsPairToolMessages` | `PairedToolMessages` |
| `RequestsKeepRoundsApart` | `RoundsKeptApart` |
| `NoSomaIsOrphaned` | `NoOrphanSoma` |

*The store's invariant.* None of these properties is inductive alone. Even the type invariant needs
others: `next_session_seq` is MAX + 1, and that MAX exists, and is a natural
number, only because the numbers used so far are an interval 1..n
(`SessionLogDense`); `complete_turn` writes an end taken from the soul session of
the turn, which must exist (`TurnWindow`). `SoulLogDense` needs the counter to be
ahead of every entry, and `TurnWindow` needs it never to go back. `StoreInv` is
the conjunction, with `RowsKnown` (what the relation tables name is in the entity
tables) and `EntriesRooted` (an entry's session has a soul session).

*The argument.* A step of the store touches few tables. Three lemmas say which
effects a step can have on a group of tables (`SessionEffect` for sessions and
messages, `SoulEffect` for the soul's counter and log, `TurnEffect` for turns),
and each invariant is preserved by each effect, so a conjunct is examined once
per effect and not once per action. Its second half goes on with
`RuntimeEffect` and `LogInv` (`StoreInv`, `RuntimeRooted`, `EntriesResolve`,
`RuntimeRowsLogged`, `LastSeenInLog`), whose steps rest on `HistoryStep`: nothing is
removed from either log and no turn changes session, so what was found there
before the step is still found after it.

*The service's invariant.* A task calls a store method with ids that its earlier
calls returned, and `StoreSpec` allows the call only if they still name what they
named then. `Placed(t)` says it for each point of the task: at `ref` the user's
message has a row, at `replyRef` the reply is in the turn's session, at `complete`
the soul's log holds it, and `lastSeen`, when it is not 0, is the number of a
message that log holds. `ServiceInv` is `StoreInv`, the types of the locals
and `Placed` of every task. A step of task `t` sets up its own next point from
what its store call did; a step of another task is a store step and leaves
`pc[t]`, `calls[t]` and `lastSeen[t]` alone, so `HistoryStep` keeps `Placed(t)`.
The second argument is made once (`OthersKept`, `PlacedKept`) and not per pair
of actions, which is why the number of tasks does not matter.

*A turn's end.* `SantiServiceSafetyProofs` goes on in the same way. Each turn has
four messages, a row and two terminal events of its own. `StepOfOthers` divides
the steps into three: those of the turn's own task, a crash between the two
UPDATEs of its last method (`Torn`), and all others, which leave what is its own
as it was (`Kept`). `SafetyInv` is `ServiceInv` with three invariants of each
turn, examined for the first two kinds of step alone: `Ending` (the status the
row has at each point of the task, and what has been said of it), `Triggered`
(the trigger's row and an entry at or before `base`), `Windowed` (every row of
the reply is numbered after the input, every entry after `base`, and at or before
`end` once the turn is completed). They speak of rows where the properties speak
of positions, because a row stays when the log grows; that a message has one
row and one entry makes the two the same (`TriggeredMeans`, `WindowedMeans`).
`NoOrphanTurn` holds with both its excuses, so the proof also shows that there
is no third way to leave a turn running. `SantiServiceRecordProofs` follows
`fail_background_turn` point by point while `faults` is 0 (`Recorded`): the entry
of the notice is numbered last, so after the partial output and inside the
window that the next call closes.

*The rounds.* `SantiServiceRecordProofs` goes on with the provider phase. `RoundStep`
divides the steps again: those of some task's rounds, and all others, which leave
spans, calls and results alone and take no task out of a round except by a crash
(`RoundsKept`). `RoundSpans` says what a round's step can do to the spans: end the
one the task holds open, open one while it holds none, or keep them, and then
the task still holds what it held. `RecordInv` is `ServiceInv` with, for each
turn, `SpansNamed` (what the task holds is in the table, as its own turn's), `Settled` and
`Answered` (a span that runs, or a call without a result, is the one the task is
at, or an excuse of the property applies), and `Followed` of every event published so
far. An event follows its rows when it is published, and `RowsKept`,
`EndedSpansKept` and `HistoryStep` keep it so.

*The last word.* `TerminalEventsAreLast` needs both invariants. `Ending` says that
a turn with a terminal event is done, so the step is one of another task or of
none. What that task writes is of its own turn: the span or call it writes is
new or is one it holds (`SpansNamed`) or runs (`RunsOwn`), which has one turn
only, and what it publishes names these
or its own messages. `StreamApart`, `ProviderApart` and `OthersApart` say it of each kind of step.

*The turn's outcome.* `SantiServiceSafetyProofs` ends with the refinement, on
`SafetyInv`: `Ending` knows which
status the row has at each point of the task, so each step of the turn's own
task, torn or whole, is a step of the abstract turn or a stutter of it
(`Noticed`), a step of any other task is a stutter (`Unseen`), and no step
touches two turns. This is the refinement that Mqueue rests on.

*The stream.* `StreamTypeOK` and `OnlyOldEventsMissed` are inductive together,
for every capacity: a position that `Lag` skips is at least `Capacity` behind,
and stays so because the channel only grows. MaterialCache takes steps of
`StreamSpec` only, so both hold there without a second look at its actions.

*The cache.* The invariant behind `QuietCacheIsNewest` relates the cache to the
events still to come. If the cache is older than `newest` in some part, and
nothing is left to announce or to hand to the client, then no text has been
inserted since the client handled the last event of the session. Calls begun
since then have read no part older than `newest` (`Fresh`), so the first that
succeeds makes the cache the newest; until one does, the refetch owed for the
event is still wanted, is such a call, or was lost (`RepairedOrUnderWay`). That
`memory` never goes back makes a call that starts only now `Fresh`. `origin` tells
calls begun before the event from those after, `repair` what became of the refetch.

*The client.* The first part of `MqueueProofs` needs no type invariant of the whole
state. Its `Inv` says that what travels names its own session (each event in the channel and
each answer in flight, against `home` and `stored`, which only grow) and that no
`delta` or second terminal event of a turn follows its terminal event in the
channel. A transient can then not come back, because the receiver only moves
forward. `FinalRowStays` rests on the stamps: no answer carries a row newer than
the store's. `SyncedViewComplete` needs the stream as well. `SyncInv` is `Inv` with
the receiver's positions, `AtHome` (a stored message is one of a turn of its
session), `ListsOK` (a list that travels holds all that
was announced when it was read) and `SyncedOK` (a synced view shows every event
of its session the receiver has gone past). A view can only become synced by a
list read after the stream opened, so no event falls between the two.
`MqueueUsesStream` and `MqueueServerKeepsPromise` close the composition: the
client's events and connections are steps of `StreamSpec`, so `StreamDelivers`
applies to them, and its server writes what a turn came to only as TurnOutcome
allows, which is what `ServiceImplementsOutcome` says of the service.

*The cells.* `NoOrphanSoma` speaks of cells that have ended. What makes it hold is
which soma a cell holds before: `CellsInv` says that a soma that runs is the one
its cell waits for or watches (`Held`), during a restart the replacement and no
longer the child, and that pids are not given out twice. A step starts at most
one soma, when none is held, and every way to end but a signal during a health
check kills what is held. Somas that exit by themselves, web servers and other
programs only take away (`LaunchKept`, `ClientKept`).

*The provider's streams.* What the proof is about is not in the buffer nor on the
wire but in both: `Pending`, the whole lines of the buffer and then those of the wire. A
chunk moves lines from one to the other and leaves `Pending` as it is wherever it
cuts, provided a half line stays (`ChunkPending`; it is what the mutant
`ChunkAlone` breaks). For the chat API `StreamsInv` says that what has come of a call is
a beginning of what was said of it, under its id (`Accumulated`), that the pieces
pending are the ones that follow, each once and in order, however calls are
interleaved (`PiecesOK`), that none is missing unless the connection broke
(`AllPending`), and that a line with a finish reason is the last (`EndsLast`). The parser
gives calls only at such a line, when nothing is pending any more, so all
pieces have come; and a call is then numbered before the next because the
provider used all indexes up to the last. The responses API needs less: items are pending in the order of
their indexes (`ItemsOK`), after the line that names the response (`NamedFirst`).
`TurnOK` ties the rounds together: outputs come in the order of their rounds, each with
the id and text of its round (`OutputsOK`), from every round so far. What a
request then holds is computed by recursion over the outputs, and proved by
induction over them: a group that takes one more output of its response is
still a group, a new one is later than all before it (`GroupedOK`), and requests
that pair calls and answers do so when put one after the other
(`ConcatPaired`, `ConcatApart`). A round's outputs all have one response, so its
calls stay in one group; two rounds share one only if their responses had the
same id, as `RoundsKeptApart` allows. TLC finds each part of `StreamsInv` to hold
on instances of up to three rounds or three calls, with the numbers up to 6 for
`Nat`.

*Induction over data.* The induction theorems of the library take an operator as a
parameter, which the installed provers cannot instantiate. `Induction` therefore
speaks of a set: one that has 0, and n + 1 whenever it has n, has all numbers. It
follows from the well-foundedness of < (`WFMin`, `NatLessThanWellFounded`), which needs no
such parameter. `GroupingDef` and `FlattenDef` show with it that the functions
`OutputGroups` and `FlattenSeq` choose exist, without which nothing could be
said of their values.

*Only model-checked:* liveness (`OutcomeReported`, `SendAnswered`,
`StrangerNoticed`, `ClientConverges`), which is out of the prover's reach. Every
invariant and every action property that a passing run checks is also proved.

## Not modelled

- In the store: `migrate`'s DROP of the tables of another schema version, the
  seeded account and soul, `compacts` and `session_effects` (nothing writes them),
  and the row mapping of `rows.rs`.
- `service/timing.rs` only writes log lines.
- The shell command of a tool call is its outcome, output or error.
- In the parsers: reasoning, stream traces, and bytes below a line. Malformed
  input is one error at any point, since the code treats every kind alike.
- In the client: the list of sessions, create and update, activities, spans,
  calls and results (which are merged by id as messages are), the materials'
  texts, and `turnGroups`, whose rule rests on the comment `watermark` refutes.
- In the cells: framing and stamps of the inspect protocol. The run has no two
  launches beside a fallback URL (`MCStarted`), which would be longer than is
  practical; `NoSomaIsOrphaned` holds with both.
- Object store, buckets and workspace URIs: one or two file system calls each, and
  scans over the characters of a key or path. They keep no state between calls
  and nothing else of the system depends on how two of them interleave; their
  unit tests enumerate what a model of them would.
- The generated contracts, the component library, storage and the rendering of
  the web app hold no state that other parts rely on.

## Plan

The order the project was built in, most important behaviour first: SantiStore;
ProviderTurn and SantiService over it; their proofs; TurnOutcome as the promise
to the client; EventStream with MaterialCache; Mqueue against TurnOutcome;
ProviderStreams; Cells. What is left:

1. *TurnAttribution*: `turnGroups` and `attributeItem` over bounded timelines,
   against a reference definition (every item in exactly one group, strongest
   rule first).
2. The spans and calls of the client's projection; *Cells* with two launches
   beside a fallback URL.
