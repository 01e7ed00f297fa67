------------------------------- MODULE Mqueue -------------------------------
(***************************************************************************)
(* The web client's projection (packages/mqueue) against the server: HTTP  *)
(* requests that are served and answered in any order, and the event       *)
(* stream of the one session the client is connected to.                   *)
(*                                                                         *)
(* The server's turns are those of TurnOutcome, which SantiService is      *)
(* proved to implement; its answers and events are those of santi-api.     *)
(* Users act as App.tsx and the hooks let them.  Messages and turns are    *)
(* what is kept of a session: spans, calls and results are merged by id    *)
(* like messages, and the session list, the activities, the materials and  *)
(* state.messages, which nothing reads, are left out.                      *)
(***************************************************************************)
EXTENDS EventStream

CONSTANTS
    Turns,
    Slots          \* bound: one request in flight in each

VARIABLES
    (* the server *)
    status, told,  \* of TurnOutcome
    home,          \* the session of a turn, NoSession before its send
    stored,        \* session_messages of each session
    (* the client *)
    selected,      \* state.selectedSessionId
    view,          \* state.messagesBySessionId
    rows,          \* messageState.turnsBySessionId: status and updated_at
    requests,      \* what perform has in flight
    synced         \* history: sessions whose view a GET brought up to date

serverVars == <<status, told, home, stored>>
viewVars   == <<view, rows>>
vars == <<streamVars, serverVars, selected, viewVars, requests, synced>>

Server == INSTANCE TurnOutcome

\* A turn's messages; the partial output of a failure goes the way of its
\* notice, and stream_<turn id> is the client's own.
User(t)      == <<"user", t>>
Reply(t)     == <<"reply", t>>
Notice(t)    == <<"notice", t>>
Transient(t) == <<"stream", t>>
Stored       == {"user", "reply", "notice"} \X Turns
Transients   == {"stream"} \X Turns

Kinds == {"user", "turn_started", "delta", "completed", "notice", "turn_failed"}

\* Every event of the service names its kind and its turn.
ASSUME PayloadsAssumption == Payloads = Kinds \X Turns

Publish(kind, t) == PublishEvent(home[t], <<kind, t>>)

Announced(kind, t) == \E i \in 1 .. Sent : channel[i].payload = <<kind, t>>

Holds(t, m) == home[t] # NoSession /\ m \in stored[home[t]]

\* updated_at grows with every change of the status.
Stamp(state) == CASE state = "none" -> 0 [] state = "running" -> 1
                  [] state = "completed" -> 2 [] state = "failed" -> 3

Row(state) == [status |-> state, stamp |-> Stamp(state)]

(***************************************************************************)
(* Requests                                                                *)
(***************************************************************************)
Free == [kind |-> "none"]

Pending == {r \in Slots : requests[r] # Free}

Request(kind, s) == [kind |-> kind, session |-> s, stage |-> "sent"]

Issue(kind, s) ==
    \E r \in Slots \ Pending : requests' = [requests EXCEPT ![r] = Request(kind, s)]

At(r, kind, stage) ==
    /\ r \in Pending
    /\ requests[r].kind = kind
    /\ requests[r].stage = stage

Served(r, body) ==
    [requests EXCEPT ![r] = [kind |-> @.kind, session |-> @.session, stage |-> "served",
                             body |-> body]]

\* A list of messages, and how much had been published when it was read.
ServedList(r, list) == Served(r, [messages |-> list, at |-> Sent])

\* The answer is used, and then the session's material is fetched.
Continued(r) ==
    [requests EXCEPT ![r] = [kind |-> "material", session |-> @.session, stage |-> "sent"]]

Done(r) == [requests EXCEPT ![r] = Free]

-----------------------------------------------------------------------------
(***************************************************************************)
(* What the user does                                                      *)
(***************************************************************************)
\* A session that is no longer streamed is no longer kept up to date.
Connect(s) ==
    /\ ConnectSessionEvents(s)
    /\ UNCHANGED channel

\* selectAndGet: select, then get and runtime.  When no slot is left for the
\* runtime request it is one that fails at once.
SelectAndGet(s) ==
    /\ selected' = s
    /\ Connect(s)
    /\ synced' = IF source = s THEN synced ELSE {}
    /\ \/ (\A q, r \in Slots \ Pending : q = r) /\ Issue("get", s)
       \/ \E q, r \in Slots \ Pending :
              /\ q # r
              /\ requests' = [requests EXCEPT ![q] = Request("get", s),
                                              ![r] = Request("runtime", s)]
    /\ UNCHANGED <<serverVars, viewVars>>

\* select with no session.
Deselect ==
    /\ selected # NoSession
    /\ selected' = NoSession
    /\ CloseSessionEvents
    /\ synced' = {}
    /\ UNCHANGED <<channel, serverVars, viewVars, requests>>

RefreshRuntime ==
    /\ selected # NoSession
    /\ Issue("runtime", selected)
    /\ UNCHANGED <<streamVars, serverVars, selected, viewVars, synced>>

\* The composer sends to the selected session when nothing is pending.
Send ==
    /\ selected # NoSession
    /\ Pending = {}
    /\ Issue("send", selected)
    /\ UNCHANGED <<streamVars, serverVars, selected, viewVars, synced>>

-----------------------------------------------------------------------------
(***************************************************************************)
(* The server                                                              *)
(***************************************************************************)
\* GET of a session: its session_messages at that moment.
ServeMessages(r) ==
    /\ At(r, "get", "sent")
    /\ requests' = ServedList(r, stored[requests[r].session])
    /\ UNCHANGED <<streamVars, serverVars, selected, viewVars, synced>>

\* GET of the runtime: the session's turns as they are.
ServeRuntime(r) ==
    /\ At(r, "runtime", "sent")
    /\ requests' = Served(r, [t \in {u \in Turns : home[u] = requests[r].session} |-> Row(status[t])])
    /\ UNCHANGED <<streamVars, serverVars, selected, viewVars, synced>>

\* send_session: the message, its event, the turn, its event and the answer.
StoreUserMessage(r, t) ==
    /\ At(r, "send", "sent")
    /\ home[t] = NoSession
    /\ home' = [home EXCEPT ![t] = requests[r].session]
    /\ stored' = [stored EXCEPT ![requests[r].session] = @ \cup {User(t)}]
    /\ requests' = [requests EXCEPT ![r] =
                       [kind |-> "send", session |-> @.session, stage |-> "stored", turn |-> t]]
    /\ UNCHANGED <<streamVars, status, told, selected, viewVars, synced>>

AnnounceUserMessage(r) ==
    /\ At(r, "send", "stored")
    /\ Publish("user", requests[r].turn)
    /\ requests' = [requests EXCEPT ![r].stage = "announced"]
    /\ UNCHANGED <<serverVars, selected, viewVars, synced>>

StartTurn(r) ==
    /\ At(r, "send", "announced")
    /\ Server!Start(requests[r].turn)
    /\ Publish("turn_started", requests[r].turn)
    /\ requests' = Served(r, requests[r].turn)
    /\ UNCHANGED <<home, stored, selected, viewVars, synced>>

\* The turn's task.  One delta stands for all.
Delta(t) ==
    /\ status[t] = "running" /\ told[t] = "nothing"
    /\ ~Announced("delta", t)
    /\ Publish("delta", t)
    /\ UNCHANGED <<serverVars, selected, viewVars, requests, synced>>

\* AppendMessage of the reply, and of what explains a failure.
StoreReply(t) ==
    /\ status[t] = "running" /\ told[t] = "nothing"
    /\ stored' = [stored EXCEPT ![home[t]] = @ \cup {Reply(t)}]
    /\ UNCHANGED <<streamVars, status, told, home, selected, viewVars, requests, synced>>

StoreNotice(t) ==
    /\ status[t] = "failed" /\ told[t] = "nothing"
    /\ stored' = [stored EXCEPT ![home[t]] = @ \cup {Notice(t)}]
    /\ UNCHANGED <<streamVars, status, told, home, selected, viewVars, requests, synced>>

AnnounceNotice(t) ==
    /\ Holds(t, Notice(t)) /\ told[t] = "nothing"
    /\ ~Announced("notice", t)
    /\ Publish("notice", t)
    /\ UNCHANGED <<serverVars, selected, viewVars, requests, synced>>

CompleteTurn(t) ==
    /\ Holds(t, Reply(t))
    /\ Server!Finish(t)
    /\ Publish("completed", t)
    /\ UNCHANGED <<home, stored, selected, viewVars, requests, synced>>

ChangeRow(t) ==
    /\ \/ Server!FinishSilently(t) /\ Holds(t, Reply(t))
       \/ Server!Break(t)
    /\ UNCHANGED <<streamVars, home, stored, selected, viewVars, requests, synced>>

FailTurn(t) ==
    /\ Server!ReportFailure(t)
    /\ Publish("turn_failed", t)
    /\ UNCHANGED <<home, stored, selected, viewVars, requests, synced>>

-----------------------------------------------------------------------------
(***************************************************************************)
(* Answers reach the client                                                *)
(***************************************************************************)
\* dedupeTurns without the comparison of updated_at.
MergedLast(t, row) == [rows EXCEPT ![t] = row]

\* dedupeTurns: of two rows of a turn the later one, the new one of equals.
Merged(t, row) == [rows EXCEPT ![t] = IF @.stamp <= row.stamp THEN row ELSE @]

MergedAll(new) == [t \in Turns |-> IF t \in DOMAIN new THEN Merged(t, new[t])[t] ELSE rows[t]]

\* A list brings a view up to date when the stream was open before it was
\* read and has not gone past an event of the session since.
Fresh(r) ==
    /\ source = requests[r].session /\ conn = "open"
    /\ since <= requests[r].body.at + 1
    /\ \A i \in requests[r].body.at + 1 .. next - 1 : channel[i].session # source

SyncedBy(r) == IF Fresh(r) THEN synced \cup {requests[r].session}
                           ELSE synced \ {requests[r].session}

\* The list goes to the session of the moment instead of its own.
GetForSelected(r) ==
    /\ At(r, "get", "served")
    /\ LET s == IF selected = NoSession THEN requests[r].session ELSE selected IN
       /\ selected' = s
       /\ view' = [view EXCEPT ![s] = requests[r].body.messages]
       /\ Connect(s)
       /\ synced' = IF source = s THEN SyncedBy(r) ELSE {}
    /\ requests' = Continued(r)
    /\ UNCHANGED <<serverVars, rows>>

\* get: the list replaces the view, whatever the stream has added to it, and
\* its session is selected again, whatever was selected since.
GetAnswered(r) ==
    /\ At(r, "get", "served")
    /\ LET s == requests[r].session IN
       /\ selected' = s
       /\ view' = [view EXCEPT ![s] = requests[r].body.messages]
       /\ Connect(s)
       /\ synced' = IF source = s THEN SyncedBy(r) ELSE {}
    /\ requests' = Continued(r)
    /\ UNCHANGED <<serverVars, rows>>

RuntimeAnswered(r) ==
    /\ At(r, "runtime", "served")
    /\ rows' = MergedAll(requests[r].body)
    /\ requests' = Continued(r)
    /\ UNCHANGED <<streamVars, serverVars, selected, view, synced>>

\* sendMessage: selects the session it was sent to and leaves the stream
\* where it is.
SendAnswered(r) ==
    /\ At(r, "send", "served")
    /\ LET t == requests[r].body
           s == requests[r].session IN
       /\ selected' = s
       /\ view' = [view EXCEPT ![s] = @ \cup {User(t)}]
       /\ rows' = Merged(t, Row("running"))
    /\ requests' = Done(r)
    /\ UNCHANGED <<streamVars, serverVars, synced>>

\* ensureMaterial returned, or any step of a request failed: 404, 500, or no
\* answer at all.
RequestOver(r) ==
    /\ r \in Pending
    /\ requests' = Done(r)
    /\ UNCHANGED <<streamVars, serverVars, selected, viewVars, synced>>

-----------------------------------------------------------------------------
(***************************************************************************)
(* Events reach the client                                                 *)
(***************************************************************************)
\* messageCompleted without removeTransient.
HandledKeepingTransient(kind, t) ==
    /\ view' = [view EXCEPT ![source] =
           CASE kind \in {"user", "notice"} -> @ \cup {<<kind, t>>}
             [] kind = "delta"              -> @ \cup {Transient(t)}
             [] kind = "completed"          -> @ \cup {Reply(t)}
             [] kind = "turn_failed"        -> @ \ {Transient(t)}
             [] kind = "turn_started"       -> @]
    /\ UNCHANGED rows

\* messageCompleted only takes the transient away.
HandledWithoutReply(kind, t) ==
    /\ view' = [view EXCEPT ![source] =
           CASE kind \in {"user", "notice"}             -> @ \cup {<<kind, t>>}
             [] kind = "delta"                          -> @ \cup {Transient(t)}
             [] kind \in {"completed", "turn_failed"}   -> @ \ {Transient(t)}
             [] kind = "turn_started"                   -> @]
    /\ UNCHANGED rows

\* messageCreated, messageDelta, messageCompleted, turnStarted, turnFailed;
\* markTurnFailed knows no turn it has not been told of, and keeps updated_at.
Handled(kind, t) ==
    /\ view' = [view EXCEPT ![source] =
           CASE kind \in {"user", "notice"} -> @ \cup {<<kind, t>>}
             [] kind = "delta"              -> @ \cup {Transient(t)}
             [] kind = "completed"          -> (@ \ {Transient(t)}) \cup {Reply(t)}
             [] kind = "turn_failed"        -> @ \ {Transient(t)}
             [] kind = "turn_started"       -> @]
    /\ rows' =
           CASE kind = "turn_started" -> Merged(t, Row("running"))
             [] kind = "turn_failed" /\ rows[t].status # "none" ->
                    [rows EXCEPT ![t].status = "failed"]
             [] OTHER -> rows

ReceiveEvent ==
    /\ Receive
    /\ Handled(channel[next].payload[1], channel[next].payload[2])
    /\ UNCHANGED <<serverVars, selected, requests, synced>>

\* What breaks the stream, or makes it skip events, ends what was in step.
NetworkStep ==
    /\ Network
    /\ synced' = IF conn' = "open" /\ ~Lags THEN synced ELSE {}
    /\ UNCHANGED <<serverVars, selected, viewVars, requests>>

-----------------------------------------------------------------------------
Init ==
    /\ StreamInit
    /\ Server!Init
    /\ home = [t \in Turns |-> NoSession]
    /\ stored = [s \in Sessions |-> {}]
    /\ selected = NoSession
    /\ view = [s \in Sessions |-> {}]
    /\ rows = [t \in Turns |-> Row("none")]
    /\ requests = [r \in Slots |-> Free]
    /\ synced = {}

UserStep ==
    \/ \E s \in Sessions : SelectAndGet(s)
    \/ Deselect
    \/ RefreshRuntime
    \/ Send

TaskStep(t) ==
    \/ Delta(t)
    \/ StoreReply(t)
    \/ StoreNotice(t)
    \/ AnnounceNotice(t)
    \/ CompleteTurn(t)
    \/ ChangeRow(t)
    \/ FailTurn(t)

RequestStep(r) ==
    \/ ServeMessages(r)
    \/ ServeRuntime(r)
    \/ \E t \in Turns : StoreUserMessage(r, t)
    \/ AnnounceUserMessage(r)
    \/ StartTurn(r)
    \/ GetAnswered(r)
    \/ RuntimeAnswered(r)
    \/ SendAnswered(r)
    \/ RequestOver(r)

Next ==
    \/ UserStep
    \/ \E t \in Turns : TaskStep(t)
    \/ \E r \in Slots : RequestStep(r)
    \/ ReceiveEvent
    \/ NetworkStep

Spec == Init /\ [][Next]_vars

-----------------------------------------------------------------------------
(***************************************************************************)
(* Properties                                                              *)
(***************************************************************************)
\* The position of the event that ended a turn, 0 when there is none.
Ended(t) ==
    LET ends == {i \in 1 .. Sent : channel[i].payload \in {<<"completed", t>>, <<"turn_failed", t>>}}
    IN  IF ends = {} THEN 0 ELSE CHOOSE i \in ends : TRUE

\* The projection holds rows of the tables' types, and a request in flight
\* is one of those that change it.
MqueueTypeOK ==
    /\ StreamTypeOK
    /\ status \in [Turns -> {"none", "running", "completed", "failed"}]
    /\ told \in [Turns -> {"nothing", "completed", "failed"}]
    /\ home \in [Turns -> Sessions \cup {NoSession}]
    /\ stored \in [Sessions -> SUBSET Stored]
    /\ selected \in Sessions \cup {NoSession}
    /\ view \in [Sessions -> SUBSET (Stored \cup Transients)]
    /\ rows \in [Turns -> [status : {"none", "running", "completed", "failed"}, stamp : 0 .. 3]]
    /\ \A r \in Pending : /\ requests[r].kind \in {"get", "runtime", "send", "material"}
                           /\ requests[r].session \in Sessions
    /\ synced \subseteq {source}

\* However late an answer or an event comes and whatever was selected since,
\* it shows up in the session it belongs to: a view holds only messages the
\* store has for that session, and transients of its turns.
ViewIsOfSession ==
    \A s \in Sessions :
        /\ view[s] \ Transients \subseteq stored[s]
        /\ \A t \in Turns : Transient(t) \in view[s] => home[t] = s

\* The text of a turn that is being streamed goes away with the turn: once
\* the client has handled the turn's last event no transient is left of it,
\* whatever lists were fetched meanwhile.
TransientIsTemporary ==
    \A t \in Turns :
        Ended(t) \in handled => \A s \in Sessions : Transient(t) \notin view[s]

\* A list that was read while the stream was open, and not overtaken by an
\* event, leaves nothing out from then on: as long as the stream neither
\* breaks nor lags, a message of the session is in the view, or its event is
\* still to come, or the server has not announced it.
SyncedViewComplete ==
    \A s \in synced :
        \A m \in stored[s] \ view[s] :
            LET event == IF m[1] = "reply" THEN <<"completed", m[2]>> ELSE m IN
            \/ \E i \in next .. Sent : channel[i].payload = event
            \/ ~Announced(event[1], event[2])

\* A turn shown with the row its end left is not shown otherwise again: an
\* older snapshot or the answer to the send, arriving later, changes nothing.
FinalRowStays ==
    [][ \A t \in Turns :
            told[t] # "nothing" /\ rows[t].status = status[t] /\ rows[t].stamp = Stamp(status[t])
            /\ status[t] # "running"
            => rows'[t].status \in {rows[t].status, told[t]} ]_vars

\* App.tsx:185-186 says "Turn failures render in place inside the transcript":
\* a turn whose failure the client was told of is shown as failed.
FailureShown ==
    \A t \in Turns :
        told[t] = "failed" /\ Ended(t) \in handled => rows[t].status = "failed"
=============================================================================
