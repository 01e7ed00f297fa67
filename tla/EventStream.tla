---------------------------- MODULE EventStream ----------------------------
(***************************************************************************)
(* The way of an event from SantiService::publish_stream to a browser: the *)
(* broadcast channel all sessions share (tokio, capacity 1024), the        *)
(* receiver session_events gives each connection, and the EventSource of   *)
(* the web client at its other end.                                        *)
(*                                                                         *)
(* One EventSource, since the client closes one before it opens the next.  *)
(* An event counts as handed over when the receiver takes it; bytes that a *)
(* broken connection swallows are covered by a break before it is taken.   *)
(***************************************************************************)
EXTENDS Integers, Sequences

CONSTANTS
    Sessions,
    Payloads,     \* what an event says
    NoSession,    \* no EventSource
    Capacity      \* of the broadcast channel

ASSUME CapacityAssumption == Capacity \in Nat \ {0}

ASSUME SessionsAssumption == NoSession \notin Sessions

VARIABLES
    channel,    \* events sent so far, oldest first; the ring holds the last Capacity
    source,     \* the session of the EventSource, or NoSession
    conn,       \* closed, connecting, open, or failed: an answer other than 200
    since,      \* position of the first event sent after the subscription
    next,       \* position the receiver reads next
    handled     \* history: positions handed to the client by this subscription

streamVars == <<channel, source, conn, since, next, handled>>

Sent == Len(channel)

\* publish_stream: sending never waits for a receiver and never fails.
PublishEvent(s, payload) ==
    /\ channel' = Append(channel, [session |-> s, payload |-> payload])
    /\ UNCHANGED <<source, conn, since, next, handled>>

-----------------------------------------------------------------------------
(***************************************************************************)
(* The client opens and closes                                             *)
(***************************************************************************)
\* connectSessionEvents: nothing to do when this session has an EventSource,
\* even one that failed.
ConnectSessionEvents(s) ==
    IF source = s
    THEN UNCHANGED <<source, conn, since, next, handled>>
    ELSE /\ source' = s
         /\ conn' = "connecting"
         /\ since' = 1
         /\ next' = 1
         /\ handled' = {}

CloseSessionEvents ==
    /\ source' = NoSession
    /\ conn' = "closed"
    /\ since' = 1
    /\ next' = 1
    /\ handled' = {}

-----------------------------------------------------------------------------
(***************************************************************************)
(* session_events and the connection                                       *)
(***************************************************************************)
\* The receiver keeps what the channel still holds: events of the past too.
AcceptWithBacklog ==
    /\ conn = "connecting"
    /\ conn' = "open"
    /\ since' = Sent + 1
    /\ next' = IF Sent = 0 THEN 1 ELSE Sent
    /\ handled' = {}
    /\ UNCHANGED <<channel, source>>

\* The session exists: a receiver is subscribed at the tail of the channel.
Accept ==
    /\ conn = "connecting"
    /\ conn' = "open"
    /\ since' = Sent + 1
    /\ next' = Sent + 1
    /\ handled' = {}
    /\ UNCHANGED <<channel, source>>

\* 404 or 500: an EventSource gives up for good.
Refuse ==
    /\ conn = "connecting"
    /\ conn' = "failed"
    /\ UNCHANGED <<channel, source, since, next, handled>>

\* The connection breaks: the receiver is dropped with all it had not read,
\* and the EventSource connects again by itself.
Break ==
    /\ conn = "open"
    /\ conn' = "connecting"
    /\ since' = 1
    /\ next' = 1
    /\ handled' = {}
    /\ UNCHANGED <<channel, source>>

Lags == next + Capacity <= Sent

\* RecvError::Lagged, with the receiver moved past everything.
LagToTail ==
    /\ conn = "open"
    /\ Lags
    /\ next' = Sent + 1
    /\ UNCHANGED <<channel, source, conn, since, handled>>

\* RecvError::Lagged: the receiver goes on with the oldest event the ring
\* still holds, and the stream says nothing of it to the client.
Lag ==
    /\ conn = "open"
    /\ Lags
    /\ next' = Sent - Capacity + 1
    /\ UNCHANGED <<channel, source, conn, since, handled>>

Readable == conn = "open" /\ ~Lags /\ next <= Sent

\* An event of another session.
Skip ==
    /\ Readable
    /\ channel[next].session # source
    /\ next' = next + 1
    /\ UNCHANGED <<channel, source, conn, since, handled>>

\* An event of the session reaches its handler.
Receive ==
    /\ Readable
    /\ channel[next].session = source
    /\ handled' = handled \cup {next}
    /\ next' = next + 1
    /\ UNCHANGED <<channel, source, conn, since>>

Network == Accept \/ Refuse \/ Break \/ Lag \/ Skip

-----------------------------------------------------------------------------
(***************************************************************************)
(* The stream under any publisher and any client                           *)
(***************************************************************************)
StreamInit ==
    /\ channel = <<>>
    /\ source = NoSession
    /\ conn = "closed"
    /\ since = 1
    /\ next = 1
    /\ handled = {}

StreamNext ==
    \/ \E s \in Sessions, payload \in Payloads : PublishEvent(s, payload)
    \/ \E s \in Sessions : ConnectSessionEvents(s) /\ UNCHANGED channel
    \/ CloseSessionEvents /\ UNCHANGED channel
    \/ Network
    \/ Receive

StreamSpec == StreamInit /\ [][StreamNext]_streamVars

-----------------------------------------------------------------------------
(***************************************************************************)
(* Properties                                                              *)
(***************************************************************************)
StreamTypeOK ==
    /\ channel \in Seq([session : Sessions, payload : Payloads])
    /\ source \in Sessions \cup {NoSession}
    /\ conn \in {"closed", "connecting", "open", "failed"}
    /\ since \in 1 .. Sent + 1
    /\ next \in since .. Sent + 1
    /\ handled \subseteq 1 .. Sent

\* What the receiver went past without handing it over.
Missed == {i \in since .. next - 1 : channel[i].session = source} \ handled

\* An open stream hands over every event of its session sent since it
\* subscribed and no other event, except for those that were already more
\* than the ring's capacity behind when the receiver came to read them.
OnlyOldEventsMissed ==
    /\ \A i \in handled : since <= i /\ i < next /\ channel[i].session = source
    /\ \A i \in Missed : i + Capacity <= Sent
=============================================================================
