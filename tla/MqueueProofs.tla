---------------------------- MODULE MqueueProofs ----------------------------
(***************************************************************************)
(* The client's projection, for any number of sessions, turns and requests *)
(* in flight.  What the client is told is true when it is said, by an      *)
(* answer (RequestFor) or by an event (EventFor), and stays true, because  *)
(* what the server keeps only grows (Grows): so nothing that arrives late  *)
(* can put a message where it does not belong, and a view that was read    *)
(* back after the stream opened shows all that the receiver went past.     *)
(***************************************************************************)
EXTENDS Mqueue, TLAPS

Statuses == {"none", "running", "completed", "failed"}

ServerOK ==
    /\ status \in [Turns -> Statuses]
    /\ told \in [Turns -> {"nothing", "completed", "failed"}]
    /\ home \in [Turns -> Sessions \cup {NoSession}]
    /\ stored \in [Sessions -> SUBSET Stored]
    /\ \A t \in Turns : status[t] # "none" => home[t] # NoSession
    /\ \A t \in Turns : told[t] # "nothing" => status[t] # "none"

\* The server h, st, said has sent turn t to session s.
SentTo(s, t, h, st) == t \in Turns /\ h[t] = s /\ User(t) \in st[s]

\* What a request in flight carries.
RequestFor(q, h, st, now) ==
    /\ q.kind # "none" => q.session \in Sessions
    /\ q.kind = "get" /\ q.stage = "served" => q.body.messages \subseteq st[q.session]
    /\ q.kind = "send" /\ q.stage \in {"stored", "announced"} => SentTo(q.session, q.turn, h, st)
    /\ q.kind = "send" /\ q.stage = "served" => SentTo(q.session, q.body, h, st) /\ now[q.body] # "none"
    /\ q.kind = "runtime" /\ q.stage = "served" =>
           \A t \in Turns \cap DOMAIN q.body :
               \E old \in Statuses : q.body[t] = Row(old) /\ Stamp(old) <= Stamp(now[t])

RequestsOK ==
    /\ DOMAIN requests = Slots
    /\ \A r \in Slots : RequestFor(requests[r], home, stored, status)

Terminals(t) == {<<"completed", t>>, <<"turn_failed", t>>}

\* What an event says, of the server as h, st, said and now.
EventFor(e, h, st, said, now) ==
    LET t == e.payload[2] IN
    /\ h[t] = e.session
    /\ e.payload[1] \in {"user", "notice"} => e.payload \in st[e.session]
    /\ e.payload[1] = "completed" => Reply(t) \in st[e.session]
    /\ e.payload \in Terminals(t) => said[t] # "nothing"
    /\ e.payload[1] = "turn_failed" => said[t] = "failed"
    /\ e.payload[1] = "turn_started" => now[t] # "none"

Event == [session : Sessions, payload : Kinds \X Turns]

ChannelOK ==
    /\ channel \in Seq(Event)
    /\ \A i \in 1 .. Len(channel) : EventFor(channel[i], home, stored, told, status)

ViewsOK == DOMAIN view = Sessions /\ ViewIsOfSession

Grows ==
    /\ \A t \in Turns : home[t] # NoSession => home'[t] = home[t]
    /\ \A s \in Sessions : stored[s] \subseteq stored'[s]
    /\ \A t \in Turns : told[t] # "nothing" => told'[t] = told[t]
    /\ \A t \in Turns : Stamp(status[t]) <= Stamp(status'[t])

-----------------------------------------------------------------------------
(***************************************************************************)
(* What the server keeps only grows                                        *)
(***************************************************************************)
LEMMA StampOrder ==
    /\ Stamp("none") = 0 /\ Stamp("running") = 1 /\ Stamp("completed") = 2 /\ Stamp("failed") = 3
    /\ \A state \in Statuses : Stamp(state) \in 0 .. 3
BY DEF Stamp, Statuses

\* Any step of a turn's outcome, told from outside.
LEMMA OutcomeGrows ==
    ASSUME ServerOK, NEW t \in Turns, home[t] # NoSession, UNCHANGED <<home, stored>>,
           Server!Start(t) \/ Server!Finish(t) \/ Server!FinishSilently(t)
             \/ Server!Break(t) \/ Server!ReportFailure(t)
    PROVE  ServerOK' /\ Grows
<1>1. /\ \A u \in Turns \ {t} : status'[u] = status[u] /\ told'[u] = told[u]
      /\ status' \in [Turns -> Statuses]
      /\ told' \in [Turns -> {"nothing", "completed", "failed"}]
      /\ told[t] = "nothing"
      /\ told'[t] # "nothing" => status'[t] # "none"
      /\ \/ status'[t] = status[t]
         \/ status[t] = "none" /\ status'[t] = "running"
         \/ status[t] = "running" /\ status'[t] \in {"completed", "failed"}
         \/ status[t] = "completed" /\ status'[t] = "failed"
  BY DEF ServerOK, Statuses, Server!Start, Server!Finish, Server!FinishSilently, Server!Break,
         Server!ReportFailure
<1>2. Stamp(status[t]) <= Stamp(status'[t])
  BY <1>1, StampOrder DEF ServerOK
<1>3. \A u \in Turns \ {t} : Stamp(status[u]) <= Stamp(status'[u])
  BY <1>1, StampOrder DEF ServerOK
<1>4. ServerOK'
  BY <1>1 DEF ServerOK
<1>5. Grows
  BY <1>1, <1>2, <1>3 DEF Grows, ServerOK
<1> QED
  BY <1>4, <1>5

LEMMA ServerKept ==
    ASSUME ServerOK, UNCHANGED serverVars
    PROVE  ServerOK' /\ Grows
<1>1. \A t \in Turns : Stamp(status[t]) <= Stamp(status'[t])
  BY StampOrder DEF ServerOK, serverVars
<1> QED
  BY <1>1 DEF ServerOK, Grows, serverVars

\* A message is added to the session of its turn, and the turn may get there.
LEMMA StoredGrows ==
    ASSUME ServerOK, UNCHANGED <<status, told>>, NEW s \in Sessions, NEW m \in Stored,
           stored' = [stored EXCEPT ![s] = @ \cup {m}],
           home' \in [Turns -> Sessions \cup {NoSession}],
           \A t \in Turns : home[t] # NoSession => home'[t] = home[t]
    PROVE  ServerOK' /\ Grows
<1>1. \A t \in Turns : Stamp(status[t]) <= Stamp(status'[t])
  BY StampOrder DEF ServerOK
<1> QED
  BY <1>1 DEF ServerOK, Grows

LEMMA TaskGrows ==
    ASSUME ServerOK, NEW t \in Turns, TaskStep(t)
    PROVE  ServerOK' /\ Grows
<1>1. CASE Delta(t) \/ AnnounceNotice(t)
  BY <1>1, ServerKept DEF Delta, AnnounceNotice
<1>2. CASE StoreReply(t) \/ StoreNotice(t)
  <2>1. home[t] \in Sessions /\ Reply(t) \in Stored /\ Notice(t) \in Stored
    BY <1>2 DEF ServerOK, StoreReply, StoreNotice, Stored, Reply, Notice
  <2> QED
    BY <1>2, <2>1, StoredGrows DEF StoreReply, StoreNotice, ServerOK
<1>3. CASE CompleteTurn(t) \/ ChangeRow(t) \/ FailTurn(t)
  <2>1. home[t] # NoSession
    BY <1>3 DEF CompleteTurn, ChangeRow, FailTurn, Holds, ServerOK, Server!Break, Server!ReportFailure
  <2> QED
    BY <1>3, <2>1, OutcomeGrows DEF CompleteTurn, ChangeRow, FailTurn
<1> QED
  BY <1>1, <1>2, <1>3 DEF TaskStep

LEMMA RequestGrows ==
    ASSUME ServerOK, RequestsOK, NEW r \in Slots, RequestStep(r)
    PROVE  ServerOK' /\ Grows
<1>1. ASSUME NEW t \in Turns, StoreUserMessage(r, t) PROVE ServerOK' /\ Grows
  <2>1. requests[r].session \in Sessions /\ User(t) \in Stored
    BY <1>1 DEF RequestsOK, RequestFor, StoreUserMessage, At, User, Stored
  <2>2. /\ home' \in [Turns -> Sessions \cup {NoSession}]
        /\ \A u \in Turns : home[u] # NoSession => home'[u] = home[u]
    BY <1>1, <2>1 DEF ServerOK, StoreUserMessage
  <2> QED
    BY <1>1, <2>1, <2>2, StoredGrows DEF StoreUserMessage
<1>2. CASE StartTurn(r)
  <2>1. requests[r].turn \in Turns /\ home[requests[r].turn] # NoSession
    BY <1>2, SessionsAssumption DEF RequestsOK, RequestFor, SentTo, StartTurn, At
  <2> QED
    BY <1>2, <2>1, OutcomeGrows DEF StartTurn
<1>3. CASE UNCHANGED serverVars
  BY <1>3, ServerKept
<1> QED
  BY <1>1, <1>2, <1>3 DEF RequestStep, ServeMessages, ServeRuntime, AnnounceUserMessage,
     GetAnswered, RuntimeAnswered, SendAnswered, RequestOver, serverVars

LEMMA ServerStep ==
    ASSUME ServerOK, RequestsOK, [Next]_vars
    PROVE  ServerOK' /\ Grows
<1>1. CASE UNCHANGED serverVars
  BY <1>1, ServerKept
<1>2. CASE Next
  <2>1. UserStep \/ ReceiveEvent \/ NetworkStep => UNCHANGED serverVars
    BY DEF UserStep, SelectAndGet, Deselect, RefreshRuntime, Send, ReceiveEvent, NetworkStep
  <2> QED
    BY <1>1, <1>2, <2>1, TaskGrows, RequestGrows DEF Next
<1> QED
  BY <1>1, <1>2 DEF vars

-----------------------------------------------------------------------------
(***************************************************************************)
(* What was said stays true                                                *)
(***************************************************************************)
LEMMA StaysBegun ==
    ASSUME ServerOK, ServerOK', Grows, NEW t \in Turns, status[t] # "none"
    PROVE  status'[t] # "none"
BY StampOrder DEF ServerOK, Statuses, Grows

LEMMA EventStaysTrue ==
    ASSUME ServerOK, ServerOK', Grows, NEW e \in Event, EventFor(e, home, stored, told, status)
    PROVE  EventFor(e, home', stored', told', status')
<1>1. e.payload[2] \in Turns /\ e.session \in Sessions
  BY DEF Event
<1>a. status[e.payload[2]] # "none" => status'[e.payload[2]] # "none"
  BY <1>1, StaysBegun
<1>2. home[e.payload[2]] # NoSession
  BY <1>1, SessionsAssumption DEF EventFor
<1> QED
  BY <1>1, <1>2, <1>a DEF EventFor, Grows

LEMMA RequestStaysTrue ==
    ASSUME ServerOK, ServerOK', Grows, NEW q, RequestFor(q, home, stored, status)
    PROVE  RequestFor(q, home', stored', status')
<1>1. ASSUME NEW s \in Sessions, NEW t, SentTo(s, t, home, stored)
      PROVE  SentTo(s, t, home', stored')
  BY <1>1, SessionsAssumption DEF SentTo, Grows
<1>2. ASSUME NEW t \in Turns, NEW old \in Statuses, Stamp(old) <= Stamp(status[t])
      PROVE  Stamp(old) <= Stamp(status'[t])
  <2>1. Stamp(old) \in 0 .. 3 /\ Stamp(status[t]) \in 0 .. 3 /\ Stamp(status'[t]) \in 0 .. 3
    BY StampOrder DEF ServerOK
  <2>2. Stamp(status[t]) <= Stamp(status'[t])
    BY DEF Grows
  <2> QED
    BY <1>2, <2>1, <2>2
<1>3. q.kind = "get" /\ q.stage = "served" => q.body.messages \subseteq stored'[q.session]
  BY DEF RequestFor, Grows
<1>4. /\ q.kind = "send" /\ q.stage \in {"stored", "announced"} => SentTo(q.session, q.turn, home', stored')
      /\ q.kind = "send" /\ q.stage = "served" => SentTo(q.session, q.body, home', stored') /\ status'[q.body] # "none"
  BY <1>1, StaysBegun DEF RequestFor, SentTo
<1>5. q.kind = "runtime" /\ q.stage = "served" =>
           \A t \in Turns \cap DOMAIN q.body :
               \E old \in Statuses : q.body[t] = Row(old) /\ Stamp(old) <= Stamp(status'[t])
  BY <1>2 DEF RequestFor
<1> QED
  BY <1>3, <1>4, <1>5 DEF RequestFor

\* One request changes, or some do, and what each carries now is true.
LEMMA RequestsChange ==
    ASSUME ServerOK, ServerOK', Grows, RequestsOK, DOMAIN requests' = Slots,
           \A r \in Slots : \/ requests'[r] = requests[r]
                            \/ RequestFor(requests'[r], home', stored', status')
    PROVE  RequestsOK'
<1>1. \A r \in Slots : RequestFor(requests[r], home', stored', status')
  BY RequestStaysTrue DEF RequestsOK
<1> QED
  BY <1>1 DEF RequestsOK

LEMMA OneRequestChanges ==
    ASSUME ServerOK, ServerOK', Grows, RequestsOK, NEW r \in Slots, NEW q,
           requests' = [requests EXCEPT ![r] = q], RequestFor(q, home', stored', status')
    PROVE  RequestsOK'
<1>1. DOMAIN requests' = Slots /\ requests'[r] = q /\ \A p \in Slots \ {r} : requests'[p] = requests[p]
  BY DEF RequestsOK
<1> QED
  BY <1>1, RequestsChange

LEMMA PlainRequests ==
    /\ \A kind, s, h, st, now : s \in Sessions /\ kind # "none" => RequestFor(Request(kind, s), h, st, now)
    /\ \A h, st, now : RequestFor(Free, h, st, now)
BY DEF Request, RequestFor, Free

LEMMA UserRequests ==
    ASSUME ServerOK, ServerOK', Grows, RequestsOK, selected \in Sessions \cup {NoSession}, UserStep
    PROVE  RequestsOK'
<1>1. ASSUME NEW kind \in {"get", "runtime", "send"}, NEW s \in Sessions, Issue(kind, s)
      PROVE  RequestsOK'
  BY <1>1, PlainRequests, OneRequestChanges DEF Issue
<1>2. ASSUME NEW s \in Sessions, SelectAndGet(s) PROVE RequestsOK'
  <2>1. ASSUME NEW q \in Slots, NEW r \in Slots,
               requests' = [requests EXCEPT ![q] = Request("get", s), ![r] = Request("runtime", s)]
        PROVE  RequestsOK'
    <3>1. /\ DOMAIN requests' = Slots
          /\ \A p \in Slots : requests'[p] \in {requests[p], Request("get", s), Request("runtime", s)}
      BY <2>1 DEF RequestsOK
    <3> QED
      BY <3>1, PlainRequests, RequestsChange
  <2> QED
    BY <1>1, <1>2, <2>1 DEF SelectAndGet
<1>3. CASE Deselect
  BY <1>3, RequestsChange DEF Deselect, RequestsOK
<1>4. CASE RefreshRuntime \/ Send
  BY <1>1, <1>4 DEF RefreshRuntime, Send
<1> QED
  BY <1>2, <1>3, <1>4 DEF UserStep

LEMMA ServedRequests ==
    ASSUME ServerOK, ServerOK', Grows, RequestsOK, NEW r \in Slots, RequestStep(r)
    PROVE  RequestsOK'
<1> DEFINE q == requests[r]
<1>0. RequestFor(q, home, stored, status) /\ RequestFor(q, home', stored', status')
  BY RequestStaysTrue DEF RequestsOK
<1>1. CASE ServeMessages(r)
  <2> DEFINE new == [kind |-> q.kind, session |-> q.session, stage |-> "served",
                     body |-> [messages |-> stored[q.session], at |-> Sent]]
  <2>1. requests' = [requests EXCEPT ![r] = new]
    BY <1>1 DEF ServeMessages, ServedList, Served
  <2>2. RequestFor(new, home', stored', status')
    BY <1>0, <1>1 DEF ServeMessages, At, RequestFor, serverVars
  <2> HIDE DEF new
  <2> QED
    BY <2>1, <2>2, OneRequestChanges
<1>2. CASE ServeRuntime(r)
  <2> DEFINE new == [kind |-> q.kind, session |-> q.session, stage |-> "served",
                     body |-> [t \in {u \in Turns : home[u] = q.session} |-> Row(status[t])]]
  <2>1. requests' = [requests EXCEPT ![r] = new]
    BY <1>2 DEF ServeRuntime, Served
  <2>2. \A t \in Turns : status[t] \in Statuses /\ Stamp(status[t]) <= Stamp(status'[t])
    BY DEF ServerOK, Grows
  <2>3. RequestFor(new, home', stored', status')
    BY <1>0, <1>2, <2>2 DEF ServeRuntime, At, RequestFor
  <2> HIDE DEF new
  <2> QED
    BY <2>1, <2>3, OneRequestChanges
<1>3. ASSUME NEW t \in Turns, StoreUserMessage(r, t) PROVE RequestsOK'
  <2> DEFINE new == [kind |-> "send", session |-> q.session, stage |-> "stored", turn |-> t]
  <2>1. requests' = [requests EXCEPT ![r] = new]
    BY <1>3 DEF StoreUserMessage
  <2>2. q.session \in Sessions
    BY <1>0, <1>3 DEF StoreUserMessage, At, RequestFor
  <2>3. SentTo(q.session, t, home', stored')
    BY <1>3, <2>2 DEF StoreUserMessage, SentTo, ServerOK
  <2>4. RequestFor(new, home', stored', status')
    BY <2>2, <2>3 DEF RequestFor
  <2> HIDE DEF new
  <2> QED
    BY <2>1, <2>4, OneRequestChanges
<1>4. CASE AnnounceUserMessage(r)
  <2> DEFINE new == [q EXCEPT !.stage = "announced"]
  <2>1. requests' = [requests EXCEPT ![r] = new]
    BY <1>4 DEF AnnounceUserMessage
  <2>2. RequestFor(new, home', stored', status')
    BY <1>0, <1>4 DEF AnnounceUserMessage, At, RequestFor
  <2> HIDE DEF new
  <2> QED
    BY <2>1, <2>2, OneRequestChanges
<1>5. CASE StartTurn(r)
  <2> DEFINE new == [kind |-> q.kind, session |-> q.session, stage |-> "served", body |-> q.turn]
  <2>1. requests' = [requests EXCEPT ![r] = new]
    BY <1>5 DEF StartTurn, Served
  <2>2. RequestFor(new, home', stored', status')
    BY <1>0, <1>5 DEF StartTurn, At, RequestFor, SentTo, ServerOK, Server!Start
  <2> HIDE DEF new
  <2> QED
    BY <2>1, <2>2, OneRequestChanges
<1>6. CASE GetAnswered(r) \/ RuntimeAnswered(r)
  <2> DEFINE new == [kind |-> "material", session |-> q.session, stage |-> "sent"]
  <2>1. requests' = [requests EXCEPT ![r] = new]
    BY <1>6 DEF GetAnswered, RuntimeAnswered, Continued
  <2>2. RequestFor(new, home', stored', status')
    BY <1>0, <1>6 DEF GetAnswered, RuntimeAnswered, At, RequestFor
  <2> HIDE DEF new
  <2> QED
    BY <2>1, <2>2, OneRequestChanges
<1>7. CASE SendAnswered(r) \/ RequestOver(r)
  BY <1>7, PlainRequests, OneRequestChanges DEF SendAnswered, RequestOver, Done
<1> QED
  BY <1>1, <1>2, <1>3, <1>4, <1>5, <1>6, <1>7 DEF RequestStep

-----------------------------------------------------------------------------
(***************************************************************************)
(* The channel tells the truth, and nothing of a turn's text after its end *)
(***************************************************************************)
OrderOK ==
    \A t \in Turns, i, j \in 1 .. Len(channel) :
        channel[i].payload \in Terminals(t)
        /\ (channel[j].payload \in Terminals(t) \/ channel[j].payload = <<"delta", t>>)
        => j <= i

ChannelInv == ChannelOK /\ OrderOK

LEMMA SilentChannel ==
    ASSUME ServerOK, ServerOK', Grows, ChannelInv, UNCHANGED channel
    PROVE  ChannelInv'
<1>1. \A i \in 1 .. Len(channel) : channel[i] \in Event
  BY DEF ChannelInv, ChannelOK
<1> QED
  BY <1>1, EventStaysTrue DEF ChannelInv, ChannelOK, OrderOK

LEMMA SpokenChannel ==
    ASSUME ServerOK, ServerOK', Grows, ChannelInv, NEW kind \in Kinds, NEW t \in Turns, home[t] \in Sessions,
           Publish(kind, t), EventFor([session |-> home[t], payload |-> <<kind, t>>], home', stored', told', status'),
           kind \in {"delta", "completed", "turn_failed"} => told[t] = "nothing"
    PROVE  ChannelInv'
<1> DEFINE new == [session |-> home[t], payload |-> <<kind, t>>]
<1>1. /\ channel \in Seq(Event) /\ new \in Event /\ channel' = Append(channel, new)
      /\ new.payload = <<kind, t>>
  BY DEF ChannelInv, ChannelOK, Publish, PublishEvent, Event
<1>2. EventFor(new, home', stored', told', status')
  OBVIOUS
<1> HIDE DEF new
<1>3. /\ channel' \in Seq(Event) /\ Len(channel) \in Nat /\ Len(channel') = Len(channel) + 1
      /\ channel'[Len(channel) + 1] = new
      /\ \A i \in 1 .. Len(channel) : channel'[i] = channel[i] /\ channel[i] \in Event
  BY <1>1
<1>4. \A i \in 1 .. Len(channel) : EventFor(channel'[i], home', stored', told', status')
  BY <1>3, EventStaysTrue DEF ChannelInv, ChannelOK
<1>5. ChannelOK'
  BY <1>2, <1>3, <1>4 DEF ChannelOK
<1>6. OrderOK'
  <2> SUFFICES ASSUME NEW u \in Turns, NEW i \in 1 .. Len(channel'), NEW j \in 1 .. Len(channel'),
                      channel'[i].payload \in Terminals(u),
                      channel'[j].payload \in Terminals(u) \/ channel'[j].payload = <<"delta", u>>
               PROVE  j <= i
    BY DEF OrderOK
  <2>1. CASE i = Len(channel) + 1 \/ (j \in 1 .. Len(channel) /\ i \in 1 .. Len(channel))
    BY <1>3, <2>1 DEF ChannelInv, OrderOK
  <2>2. CASE j = Len(channel) + 1 /\ i \in 1 .. Len(channel)
    <3>1. u = t /\ kind \in {"delta", "completed", "turn_failed"}
      BY <1>1, <1>3, <2>2 DEF Terminals
    <3>2. told[t] # "nothing"
      BY <1>3, <2>2, <3>1 DEF ChannelInv, ChannelOK, EventFor, Terminals
    <3> QED
      BY <3>1, <3>2
  <2> QED
    BY <1>3, <2>1, <2>2
<1> QED
  BY <1>5, <1>6 DEF ChannelInv

LEMMA TaskChannel ==
    ASSUME ServerOK, ServerOK', Grows, ChannelInv, NEW t \in Turns, TaskStep(t)
    PROVE  ChannelInv'
<1> USE DEF Kinds
<1>1. CASE Delta(t)
  <2>1. home[t] \in Sessions
    BY <1>1 DEF Delta, ServerOK
  <2>2. EventFor([session |-> home[t], payload |-> <<"delta", t>>], home', stored', told', status')
    BY <1>1, <2>1 DEF Delta, serverVars, EventFor, Terminals
  <2> QED
    BY <1>1, <2>1, <2>2, SpokenChannel DEF Delta
<1>2. CASE AnnounceNotice(t)
  <2>1. home[t] \in Sessions
    BY <1>2 DEF AnnounceNotice, Holds, ServerOK
  <2>2. EventFor([session |-> home[t], payload |-> <<"notice", t>>], home', stored', told', status')
    BY <1>2, <2>1 DEF AnnounceNotice, Holds, Notice, serverVars, EventFor, Terminals
  <2> QED
    BY <1>2, <2>1, <2>2, SpokenChannel DEF AnnounceNotice
<1>3. CASE CompleteTurn(t)
  <2>1. home[t] \in Sessions /\ told[t] = "nothing" /\ told'[t] = "completed"
    BY <1>3 DEF CompleteTurn, Holds, ServerOK, Server!Finish
  <2>2. EventFor([session |-> home[t], payload |-> <<"completed", t>>], home', stored', told', status')
    BY <1>3, <2>1 DEF CompleteTurn, Holds, EventFor, Terminals
  <2> QED
    BY <1>3, <2>1, <2>2, SpokenChannel DEF CompleteTurn
<1>4. CASE FailTurn(t)
  <2>1. home[t] \in Sessions /\ told[t] = "nothing" /\ told'[t] = "failed"
    BY <1>4 DEF FailTurn, ServerOK, Server!ReportFailure
  <2>2. EventFor([session |-> home[t], payload |-> <<"turn_failed", t>>], home', stored', told', status')
    BY <1>4, <2>1 DEF FailTurn, EventFor, Terminals
  <2> QED
    BY <1>4, <2>1, <2>2, SpokenChannel DEF FailTurn
<1>5. CASE UNCHANGED channel
  BY <1>5, SilentChannel
<1> QED
  BY <1>1, <1>2, <1>3, <1>4, <1>5 DEF TaskStep, StoreReply, StoreNotice, ChangeRow, streamVars

LEMMA RequestChannel ==
    ASSUME ServerOK, ServerOK', Grows, RequestsOK, ChannelInv, NEW r \in Slots, RequestStep(r)
    PROVE  ChannelInv'
<1> USE DEF Kinds
<1> DEFINE t == requests[r].turn
<1>1. CASE AnnounceUserMessage(r)
  <2>1. t \in Turns /\ home[t] \in Sessions /\ User(t) \in stored[home[t]]
    BY <1>1 DEF AnnounceUserMessage, At, RequestsOK, RequestFor, SentTo
  <2>2. EventFor([session |-> home[t], payload |-> <<"user", t>>], home', stored', told', status')
    BY <1>1, <2>1 DEF AnnounceUserMessage, User, serverVars, EventFor, Terminals
  <2>3. Publish("user", t)
    BY <1>1 DEF AnnounceUserMessage
  <2> HIDE DEF t
  <2> QED
    BY <2>1, <2>2, <2>3, SpokenChannel
<1>2. CASE StartTurn(r)
  <2>1. t \in Turns /\ home[t] \in Sessions
    BY <1>2 DEF StartTurn, At, RequestsOK, RequestFor, SentTo
  <2>2. EventFor([session |-> home[t], payload |-> <<"turn_started", t>>], home', stored', told', status')
    BY <1>2, <2>1 DEF StartTurn, EventFor, Terminals, ServerOK, Server!Start
  <2>3. Publish("turn_started", t)
    BY <1>2 DEF StartTurn
  <2> HIDE DEF t
  <2> QED
    BY <2>1, <2>2, <2>3, SpokenChannel
<1>3. CASE UNCHANGED channel
  BY <1>3, SilentChannel
<1> QED
  BY <1>1, <1>2, <1>3 DEF RequestStep, ServeMessages, ServeRuntime, StoreUserMessage,
     GetAnswered, Connect, RuntimeAnswered, SendAnswered, RequestOver, streamVars

-----------------------------------------------------------------------------
(***************************************************************************)
(* The client's side of the stream                                         *)
(***************************************************************************)
ClientOK ==
    /\ selected \in Sessions \cup {NoSession}
    /\ source \in Sessions \cup {NoSession}
    /\ next \in Nat \ {0}
    /\ \A i \in handled : i \in 1 .. Len(channel) /\ i < next

LEMMA ConnectKeepsClient ==
    ASSUME ClientOK, NEW s \in Sessions, Connect(s), selected' = s
    PROVE  ClientOK' /\ handled' \subseteq handled
BY DEF ClientOK, Connect, ConnectSessionEvents

LEMMA NetworkKeepsClient ==
    ASSUME ClientOK, channel \in Seq(Event), Network, UNCHANGED selected
    PROVE  ClientOK' /\ handled' \subseteq handled
<1>1. Len(channel) \in Nat
  OBVIOUS
<1>2. CASE Accept \/ Refuse \/ Break \/ Skip
  BY <1>1, <1>2 DEF ClientOK, Accept, Refuse, Break, Skip, Readable, Sent
<1>3. CASE Lag
  BY <1>1, <1>3, CapacityAssumption DEF ClientOK, Lag, Lags, Sent
<1> QED
  BY <1>2, <1>3 DEF Network

LEMMA SpokenClient ==
    ASSUME ClientOK, channel \in Seq(Event), NEW s, NEW payload, PublishEvent(s, payload), UNCHANGED selected
    PROVE  ClientOK'
BY DEF ClientOK, PublishEvent

\* The list, the event and the answer to a send are shown where they belong.
LEMMA ReceivedPosition ==
    ASSUME ClientOK, ChannelInv, Receive
    PROVE  /\ next \in 1 .. Len(channel) /\ channel[next] \in Event
           /\ channel[next].session = source
           /\ EventFor(channel[next], home, stored, told, status)
           /\ handled' = handled \cup {next} /\ next' = next + 1
           /\ UNCHANGED <<channel, source, conn, since>>
<1>1. channel \in Seq(Event) /\ next \in 1 .. Len(channel)
  BY DEF ClientOK, ChannelInv, ChannelOK, Receive, Readable, Sent
<1> QED
  BY <1>1 DEF ChannelInv, ChannelOK, Receive

\* What handling an event adds to a view, and takes from it.
LEMMA HandledView ==
    ASSUME DOMAIN view = Sessions, source \in Sessions, NEW kind \in Kinds, NEW t \in Turns, Handled(kind, t)
    PROVE  /\ DOMAIN view' = Sessions
           /\ \A s \in Sessions \ {source} : view'[s] = view[s]
           /\ \A m \in view'[source] \ view[source] :
                  \/ kind \in {"user", "notice"} /\ m = <<kind, t>>
                  \/ kind = "delta" /\ m = Transient(t)
                  \/ kind = "completed" /\ m = Reply(t)
           /\ kind \in {"completed", "turn_failed"} => Transient(t) \notin view'[source]
<1>1. CASE kind \in {"user", "notice"}
  BY <1>1 DEF Handled
<1>2. CASE kind = "delta"
  BY <1>2 DEF Handled
<1>3. CASE kind = "completed"
  BY <1>3 DEF Handled, Reply, Transient
<1>4. CASE kind = "turn_failed"
  BY <1>4 DEF Handled
<1>5. CASE kind = "turn_started"
  BY <1>5 DEF Handled
<1> QED
  BY <1>1, <1>2, <1>3, <1>4, <1>5 DEF Kinds

-----------------------------------------------------------------------------
(***************************************************************************)
(* The client's state, step by step                                        *)
(***************************************************************************)
Facts == ServerOK /\ RequestsOK /\ ChannelInv /\ ClientOK

TransientsOK ==
    \A t \in Turns, i \in handled :
        channel[i].payload \in Terminals(t) => \A s \in Sessions : Transient(t) \notin view[s]

ViewInv == ViewsOK /\ TransientsOK

LEMMA Apart ==
    /\ \A t \in Turns : /\ User(t) \in Stored /\ Reply(t) \in Stored /\ Notice(t) \in Stored
                        /\ Transient(t) \in Transients
    /\ Stored \cap Transients = {}
BY DEF User, Reply, Notice, Transient, Stored, Transients

\* A view that is not touched, while the server grows.
LEMMA ViewsUntouched ==
    ASSUME ServerOK, Grows, ViewsOK, UNCHANGED view
    PROVE  ViewsOK'
<1>1. \A s \in Sessions, t \in Turns : home[t] = s => home'[t] = s
  BY SessionsAssumption DEF Grows
<1> QED
  BY <1>1 DEF ViewsOK, ViewIsOfSession, Grows

\* One view takes what the store has for its session, and drops the rest.
LEMMA ViewTakes ==
    ASSUME ServerOK, Grows, ViewsOK, NEW s \in Sessions, NEW list, view' = [view EXCEPT ![s] = list],
           \A m \in list : m \in view[s] \/ m \in stored[s]
    PROVE  /\ ViewsOK'
           /\ \A t \in Turns, u \in Sessions : Transient(t) \in view'[u] => Transient(t) \in view[u]
<1>1. /\ DOMAIN view' = Sessions /\ view'[s] = list
      /\ \A u \in Sessions \ {s} : view'[u] = view[u]
  BY DEF ViewsOK
<1>2. \A t \in Turns, u \in Sessions : Transient(t) \in view'[u] => Transient(t) \in view[u]
  BY <1>1, Apart DEF ServerOK
<1>3. \A u \in Sessions, t \in Turns : home[t] = u => home'[t] = u
  BY SessionsAssumption DEF Grows
<1>4. \A u \in Sessions : view'[u] \ Transients \subseteq stored'[u]
  BY <1>1 DEF ViewsOK, ViewIsOfSession, Grows
<1> QED
  BY <1>1, <1>2, <1>3, <1>4 DEF ViewsOK, ViewIsOfSession

\* Nothing is handled and no transient appears.
LEMMA TransientsKept ==
    ASSUME Facts, TransientsOK, handled' \subseteq handled,
           \A i \in 1 .. Len(channel) : channel'[i] = channel[i],
           \A t \in Turns, u \in Sessions : Transient(t) \in view'[u] => Transient(t) \in view[u]
    PROVE  TransientsOK'
BY DEF Facts, ClientOK, TransientsOK

LEMMA ChannelKept ==
    ASSUME ChannelInv, NEW s, NEW payload, UNCHANGED channel \/ PublishEvent(s, payload)
    PROVE  \A i \in 1 .. Len(channel) : channel'[i] = channel[i]
BY DEF ChannelInv, ChannelOK, PublishEvent

LEMMA GetView ==
    ASSUME Facts, Grows, ViewInv, NEW r \in Slots, GetAnswered(r)
    PROVE  ClientOK' /\ ViewInv'
<1> DEFINE s == requests[r].session
<1>1. s \in Sessions /\ requests[r].body.messages \subseteq stored[s]
  BY DEF Facts, RequestsOK, RequestFor, GetAnswered, At
<1>2. selected' = s /\ view' = [view EXCEPT ![s] = requests[r].body.messages] /\ Connect(s)
  BY DEF GetAnswered
<1> HIDE DEF s
<1>3. ClientOK' /\ handled' \subseteq handled
  BY <1>1, <1>2, ConnectKeepsClient DEF Facts
<1>4. /\ ViewsOK'
      /\ \A t \in Turns, u \in Sessions : Transient(t) \in view'[u] => Transient(t) \in view[u]
  BY <1>1, <1>2, ViewTakes DEF Facts, ViewInv
<1>5. TransientsOK'
  BY <1>2, <1>3, <1>4, TransientsKept DEF Connect, ViewInv
<1> QED
  BY <1>3, <1>4, <1>5 DEF ViewInv

LEMMA SendView ==
    ASSUME Facts, Grows, ViewInv, NEW r \in Slots, SendAnswered(r)
    PROVE  ClientOK' /\ ViewInv'
<1> DEFINE s == requests[r].session
           t == requests[r].body
<1>1. s \in Sessions /\ User(t) \in stored[s]
  BY DEF Facts, RequestsOK, RequestFor, SentTo, SendAnswered, At
<1>2. selected' = s /\ view' = [view EXCEPT ![s] = view[s] \cup {User(t)}] /\ UNCHANGED streamVars
  BY DEF SendAnswered
<1> HIDE DEF s, t
<1>3. ClientOK' /\ handled' \subseteq handled
  BY <1>1, <1>2 DEF Facts, ClientOK, streamVars
<1>4. /\ ViewsOK'
      /\ \A v \in Turns, u \in Sessions : Transient(v) \in view'[u] => Transient(v) \in view[u]
  <2> DEFINE list == view[s] \cup {User(t)}
  <2>1. view' = [view EXCEPT ![s] = list] /\ \A m \in list : m \in view[s] \/ m \in stored[s]
    BY <1>1, <1>2
  <2> HIDE DEF list
  <2> QED
    BY <1>1, <2>1, ViewTakes DEF Facts, ViewInv
<1>5. TransientsOK'
  BY <1>2, <1>3, <1>4, TransientsKept DEF streamVars, ViewInv
<1> QED
  BY <1>3, <1>4, <1>5 DEF ViewInv

LEMMA EventView ==
    ASSUME Facts, Grows, ViewInv, ReceiveEvent
    PROVE  ClientOK' /\ ViewInv'
<1> DEFINE kind == channel[next].payload[1]
           t == channel[next].payload[2]
<1>1. /\ next \in 1 .. Len(channel) /\ channel[next] \in Event
      /\ channel[next].session = source
      /\ EventFor(channel[next], home, stored, told, status)
      /\ handled' = handled \cup {next} /\ next' = next + 1
      /\ UNCHANGED <<channel, source, conn, since>>
  BY ReceivedPosition DEF Facts, ReceiveEvent
<1>2. /\ kind \in Kinds /\ t \in Turns /\ source \in Sessions /\ channel[next].payload = <<kind, t>>
      /\ Handled(kind, t)
  BY <1>1 DEF Event, ReceiveEvent
<1>3. /\ home[t] = source
      /\ kind \in {"user", "notice"} => <<kind, t>> \in stored[source]
      /\ kind = "completed" => Reply(t) \in stored[source]
  BY <1>1, <1>2 DEF EventFor
<1> HIDE DEF kind, t
<1>4. /\ DOMAIN view' = Sessions
      /\ \A s \in Sessions \ {source} : view'[s] = view[s]
      /\ \A m \in view'[source] \ view[source] :
             \/ kind \in {"user", "notice"} /\ m = <<kind, t>>
             \/ kind = "delta" /\ m = Transient(t)
             \/ kind = "completed" /\ m = Reply(t)
      /\ kind \in {"completed", "turn_failed"} => Transient(t) \notin view'[source]
  BY <1>2, HandledView DEF ViewInv, ViewsOK
<1>5. ClientOK'
  BY <1>1 DEF Facts, ClientOK, ReceiveEvent
<1>6. UNCHANGED <<home, stored>>
  BY DEF ReceiveEvent, serverVars
<1>7. \A v \in Turns, s \in Sessions :
          Transient(v) \in view'[s] =>
              Transient(v) \in view[s] \/ (v = t /\ s = source /\ kind = "delta")
  BY <1>2, <1>3, <1>4, Apart DEF Facts, ServerOK, Transient
<1>8. ViewsOK'
  <2>1. \A s \in Sessions : view'[s] \ Transients \subseteq stored[s]
    BY <1>2, <1>3, <1>4, Apart DEF ViewInv, ViewsOK, ViewIsOfSession
  <2>2. \A s \in Sessions, v \in Turns : Transient(v) \in view'[s] => home[v] = s
    BY <1>3, <1>7 DEF ViewInv, ViewsOK, ViewIsOfSession
  <2> QED
    BY <1>4, <1>6, <2>1, <2>2 DEF ViewsOK, ViewIsOfSession
<1>9. TransientsOK'
  <2> SUFFICES ASSUME NEW v \in Turns, NEW i \in handled', channel[i].payload \in Terminals(v),
                      NEW s \in Sessions, Transient(v) \in view'[s]
               PROVE  FALSE
    BY <1>1 DEF TransientsOK
  <2>1. CASE i \in handled
    <3>1. Transient(v) \notin view[s]
      BY <2>1 DEF ViewInv, TransientsOK
    <3>2. v = t /\ kind = "delta"
      BY <1>7, <3>1
    <3>3. next <= i
      BY <1>1, <1>2, <2>1, <3>2 DEF Facts, ChannelInv, OrderOK, ClientOK
    <3> QED
      BY <1>1, <2>1, <3>3 DEF Facts, ClientOK
  <2>2. CASE i = next
    <3>1. v = t /\ kind \in {"completed", "turn_failed"}
      BY <1>2, <2>2 DEF Terminals
    <3>2. Transient(v) \in view[s]
      BY <1>7, <3>1
    <3>3. s = source
      BY <1>3, <3>1, <3>2 DEF ViewInv, ViewsOK, ViewIsOfSession
    <3> QED
      BY <1>4, <3>1, <3>3
  <2> QED
    BY <1>1, <2>1, <2>2
<1> QED
  BY <1>5, <1>8, <1>9 DEF ViewInv

LEMMA QuietView ==
    ASSUME Facts, Grows, ViewInv, UNCHANGED view, ClientOK', handled' \subseteq handled,
           \A i \in 1 .. Len(channel) : channel'[i] = channel[i]
    PROVE  ViewInv'
BY ViewsUntouched, TransientsKept DEF Facts, ViewInv

LEMMA TaskView ==
    ASSUME Facts, Grows, ViewInv, NEW t \in Turns, TaskStep(t)
    PROVE  ClientOK' /\ ViewInv'
<1>1. UNCHANGED <<view, selected>>
  BY DEF TaskStep, Delta, StoreReply, StoreNotice, AnnounceNotice, CompleteTurn, ChangeRow, FailTurn, viewVars
<1>2. UNCHANGED streamVars \/ \E s, payload : PublishEvent(s, payload)
  BY DEF TaskStep, Delta, StoreReply, StoreNotice, AnnounceNotice, CompleteTurn, ChangeRow, FailTurn, Publish
<1>3. ClientOK' /\ handled' = handled
  BY <1>1, <1>2, SpokenClient DEF Facts, ChannelInv, ChannelOK, ClientOK, streamVars, PublishEvent
<1>4. \A i \in 1 .. Len(channel) : channel'[i] = channel[i]
  BY <1>2, ChannelKept DEF Facts, streamVars
<1> QED
  BY <1>1, <1>3, <1>4, QuietView

LEMMA RequestView ==
    ASSUME Facts, Grows, ViewInv, NEW r \in Slots, RequestStep(r)
    PROVE  ClientOK' /\ ViewInv'
<1>1. CASE GetAnswered(r) \/ SendAnswered(r)
  BY <1>1, GetView, SendView
<1>2. CASE ~(GetAnswered(r) \/ SendAnswered(r))
  <2>1. UNCHANGED <<view, selected>>
    BY <1>2 DEF RequestStep, ServeMessages, ServeRuntime, StoreUserMessage, AnnounceUserMessage, StartTurn,
       RuntimeAnswered, RequestOver, viewVars
  <2>2. UNCHANGED streamVars \/ \E s, payload : PublishEvent(s, payload)
    BY <1>2 DEF RequestStep, ServeMessages, ServeRuntime, StoreUserMessage, AnnounceUserMessage, StartTurn,
       RuntimeAnswered, RequestOver, Publish
  <2>3. ClientOK' /\ handled' = handled
    BY <2>1, <2>2, SpokenClient DEF Facts, ChannelInv, ChannelOK, ClientOK, streamVars, PublishEvent
  <2>4. \A i \in 1 .. Len(channel) : channel'[i] = channel[i]
    BY <2>2, ChannelKept DEF Facts, streamVars
  <2> QED
    BY <2>1, <2>3, <2>4, QuietView
<1> QED
  BY <1>1, <1>2

LEMMA UserView ==
    ASSUME Facts, Grows, ViewInv, UserStep
    PROVE  ClientOK' /\ ViewInv'
<1>1. UNCHANGED <<view, channel>>
  BY DEF UserStep, SelectAndGet, Connect, Deselect, RefreshRuntime, Send, viewVars, streamVars
<1>2. ClientOK' /\ handled' \subseteq handled
  <2>1. ASSUME NEW s \in Sessions, SelectAndGet(s) PROVE ClientOK' /\ handled' \subseteq handled
    BY <2>1, ConnectKeepsClient DEF Facts, SelectAndGet
  <2>2. CASE Deselect
    BY <2>2 DEF Facts, Deselect, CloseSessionEvents, ClientOK
  <2>3. CASE RefreshRuntime \/ Send
    BY <2>3 DEF Facts, RefreshRuntime, Send, ClientOK, streamVars
  <2> QED
    BY <2>1, <2>2, <2>3 DEF UserStep
<1> QED
  BY <1>1, <1>2, QuietView

LEMMA NetworkView ==
    ASSUME Facts, Grows, ViewInv, NetworkStep
    PROVE  ClientOK' /\ ViewInv'
<1>1. UNCHANGED <<view, channel, selected>>
  BY DEF NetworkStep, Network, Accept, Refuse, Break, Lag, Skip, viewVars
<1>2. ClientOK' /\ handled' \subseteq handled
  BY <1>1, NetworkKeepsClient DEF NetworkStep, Facts, ChannelInv, ChannelOK
<1> QED
  BY <1>1, <1>2, QuietView

-----------------------------------------------------------------------------
Inv == Facts /\ ViewInv

LEMMA InvStep ==
    ASSUME Inv, [Next]_vars
    PROVE  Inv' /\ Grows
<1>1. ServerOK' /\ Grows
  BY ServerStep DEF Inv, Facts
<1>2. RequestsOK'
  <2>1. CASE UNCHANGED requests
    BY <1>1, <2>1, RequestsChange DEF Inv, Facts, RequestsOK
  <2>2. CASE Next
    <3>1. (\E t \in Turns : TaskStep(t)) \/ ReceiveEvent \/ NetworkStep => UNCHANGED requests
      BY DEF TaskStep, Delta, StoreReply, StoreNotice, AnnounceNotice, CompleteTurn, ChangeRow, FailTurn,
         ReceiveEvent, NetworkStep
    <3> QED
      BY <1>1, <2>1, <2>2, <3>1, UserRequests, ServedRequests DEF Next, Inv, Facts, ClientOK
  <2> QED
    BY <2>1, <2>2 DEF vars
<1>3. ChannelInv'
  <2>1. CASE UNCHANGED channel
    BY <1>1, <2>1, SilentChannel DEF Inv, Facts
  <2>2. CASE Next
    <3>1. UserStep \/ ReceiveEvent \/ NetworkStep => UNCHANGED channel
      BY DEF UserStep, SelectAndGet, Connect, Deselect, RefreshRuntime, Send, ReceiveEvent, Receive,
         NetworkStep, Network, Accept, Refuse, Break, Lag, Skip, streamVars
    <3> QED
      BY <1>1, <2>1, <2>2, <3>1, TaskChannel, RequestChannel DEF Next, Inv, Facts
  <2> QED
    BY <2>1, <2>2 DEF vars, streamVars
<1>4. ClientOK' /\ ViewInv'
  <2>1. CASE UNCHANGED vars
    <3>1. ClientOK'
      BY <2>1 DEF vars, streamVars, viewVars, Inv, Facts, ClientOK
    <3> QED
      BY <1>1, <2>1, <3>1, QuietView DEF vars, streamVars, viewVars, Inv
  <2>2. CASE Next
    BY <1>1, <2>2, UserView, TaskView, RequestView, EventView, NetworkView DEF Next, Inv
  <2> QED
    BY <2>1, <2>2
<1> QED
  BY <1>1, <1>2, <1>3, <1>4 DEF Inv, Facts

LEMMA InvStart ==
    ASSUME Init
    PROVE  Inv
<1>1. ServerOK
  BY DEF Init, Server!Init, ServerOK, Statuses
<1>2. RequestsOK
  BY PlainRequests DEF Init, RequestsOK
<1>3. ChannelInv
  BY DEF Init, StreamInit, ChannelInv, ChannelOK, OrderOK
<1>4. ClientOK
  BY DEF Init, StreamInit, ClientOK
<1>5. ViewInv
  BY DEF Init, StreamInit, ViewInv, ViewsOK, ViewIsOfSession, TransientsOK
<1> QED
  BY <1>1, <1>2, <1>3, <1>4, <1>5 DEF Inv, Facts

\* However many sessions, turns and requests in flight, and in whatever order
\* answers and events come, the client shows nothing in a session that is not
\* the session's.
THEOREM ViewsStayApart == Spec => []ViewIsOfSession
<1>1. Inv /\ [Next]_vars => Inv'
  BY InvStep
<1>2. Inv => ViewIsOfSession
  BY DEF Inv, ViewInv, ViewsOK
<1> QED
  BY <1>1, <1>2, InvStart, PTL DEF Spec

\* No transient outlives the event that ends its turn.
THEOREM TransientsGoAway == Spec => []TransientIsTemporary
<1>1. Inv /\ [Next]_vars => Inv'
  BY InvStep
<1>2. Inv => TransientIsTemporary
  <2> SUFFICES ASSUME Inv, NEW t \in Turns, Ended(t) \in handled
               PROVE  \A s \in Sessions : Transient(t) \notin view[s]
    BY DEF TransientIsTemporary
  <2> DEFINE ends == {i \in 1 .. Len(channel) : channel[i].payload \in {<<"completed", t>>, <<"turn_failed", t>>}}
  <2>1. Ended(t) = IF ends = {} THEN 0 ELSE CHOOSE i \in ends : TRUE
    BY DEF Ended, Sent
  <2>2. ends # {}
    BY <2>1 DEF Inv, Facts, ClientOK
  <2>3. Ended(t) \in ends
    <3> HIDE DEF ends
    <3> QED
      BY <2>1, <2>2
  <2> QED
    BY <2>3 DEF Inv, ViewInv, TransientsOK, Terminals
<1> QED
  BY <1>1, <1>2, InvStart, PTL DEF Spec

-----------------------------------------------------------------------------
(***************************************************************************)
(* The rows.  A row that arrives late is one the turn once had, and its    *)
(* stamp says so.                                                          *)
(***************************************************************************)
RowsOK == rows \in [Turns -> [status : Statuses, stamp : 0 .. 3]]

RowKept(t) == rows'[t].status \in {rows[t].status, told[t]}

\* A row that its turn's end left gives way to no older one.
Settled(t) ==
    /\ rows[t].status = status[t] /\ rows[t].stamp = Stamp(status[t])
    /\ status[t] \in {"completed", "failed"}

LEMMA RowTypes == \A state \in Statuses : Row(state) \in [status : Statuses, stamp : 0 .. 3]
BY StampOrder DEF Row

LEMMA MergeKeepsRow ==
    ASSUME ServerOK, RowsOK, NEW u \in Turns, NEW old \in Statuses, Stamp(old) <= Stamp(status[u])
    PROVE  /\ Merged(u, Row(old)) \in [Turns -> [status : Statuses, stamp : 0 .. 3]]
           /\ \A t \in Turns : Settled(t) => Merged(u, Row(old))[t].status = rows[t].status
<1>1. Row(old) \in [status : Statuses, stamp : 0 .. 3] /\ Row(old).stamp = Stamp(old) /\ Row(old).status = old
  BY RowTypes DEF Row
<1>2. Merged(u, Row(old)) \in [Turns -> [status : Statuses, stamp : 0 .. 3]]
  BY <1>1 DEF RowsOK, Merged
<1>3. /\ Merged(u, Row(old))[u] = IF rows[u].stamp <= Stamp(old) THEN Row(old) ELSE rows[u]
      /\ \A t \in Turns \ {u} : Merged(u, Row(old))[t] = rows[t]
  BY <1>1 DEF RowsOK, Merged
<1>4. Settled(u) /\ rows[u].stamp <= Stamp(old) => old = status[u]
  BY StampOrder DEF Settled, ServerOK, Statuses
<1>5. Settled(u) => Merged(u, Row(old))[u].status = rows[u].status
  BY <1>1, <1>3, <1>4 DEF Settled
<1> QED
  BY <1>2, <1>3, <1>5

\* Whatever comes, a row that is settled is not shown otherwise, except that a
\* turn that is said to have failed may be shown as failed.
Rows == RowsOK' /\ \A t \in Turns : Settled(t) => RowKept(t)

LEMMA RuntimeRows ==
    ASSUME Facts, RowsOK, NEW r \in Slots, RuntimeAnswered(r)
    PROVE  Rows
<1> DEFINE body == requests[r].body
<1>1. \A t \in Turns \cap DOMAIN body :
          \E old \in Statuses : body[t] = Row(old) /\ Stamp(old) <= Stamp(status[t])
  BY DEF Facts, RequestsOK, RequestFor, RuntimeAnswered, At
<1>2. rows' = [t \in Turns |-> IF t \in DOMAIN body THEN Merged(t, body[t])[t] ELSE rows[t]]
  BY DEF RuntimeAnswered, MergedAll
<1> HIDE DEF body
<1>3. ASSUME NEW t \in Turns
      PROVE  rows'[t] \in [status : Statuses, stamp : 0 .. 3] /\ (Settled(t) => rows'[t].status = rows[t].status)
  <2>1. CASE t \in DOMAIN body
    <3>1. PICK old \in Statuses : body[t] = Row(old) /\ Stamp(old) <= Stamp(status[t])
      BY <1>1, <2>1
    <3>2. rows'[t] = Merged(t, Row(old))[t]
      BY <1>2, <2>1, <3>1
    <3> QED
      BY <3>1, <3>2, MergeKeepsRow DEF Facts
  <2>2. CASE t \notin DOMAIN body
    BY <1>2, <2>2 DEF RowsOK
  <2> QED
    BY <2>1, <2>2
<1> QED
  BY <1>2, <1>3 DEF Rows, RowsOK, RowKept

\* The running row of a turn that has been sent is never newer.
LEMMA RunningRows ==
    ASSUME Facts, RowsOK, NEW u \in Turns, status[u] # "none", rows' = Merged(u, Row("running"))
    PROVE  Rows
<1>1. "running" \in Statuses /\ Stamp("running") <= Stamp(status[u])
  BY StampOrder DEF Facts, ServerOK, Statuses
<1> QED
  BY <1>1, MergeKeepsRow DEF Facts, Rows, RowsOK, RowKept

LEMMA EventRows ==
    ASSUME Facts, RowsOK, ReceiveEvent
    PROVE  Rows
<1> DEFINE kind == channel[next].payload[1]
           t == channel[next].payload[2]
<1>1. /\ next \in 1 .. Len(channel) /\ kind \in Kinds /\ t \in Turns /\ Handled(kind, t)
      /\ kind = "turn_failed" => told[t] = "failed"
      /\ kind = "turn_started" => status[t] # "none"
  BY ReceivedPosition DEF Facts, ReceiveEvent, Event, EventFor
<1>2. CASE kind = "turn_started"
  <2>1. rows' = Merged(t, Row("running"))
    BY <1>1, <1>2 DEF Handled
  <2>2. status[t] # "none"
    BY <1>1, <1>2
  <2> HIDE DEF t
  <2> QED
    BY <1>1, <2>1, <2>2, RunningRows
<1>3. CASE kind = "turn_failed" /\ rows[t].status # "none"
  <2>1. rows' = [rows EXCEPT ![t].status = "failed"]
    BY <1>3, <1>1 DEF Handled
  <2> HIDE DEF t
  <2> QED
    BY <1>1, <1>3, <2>1 DEF Rows, RowsOK, RowKept, Statuses
<1>4. CASE ~(kind = "turn_started") /\ ~(kind = "turn_failed" /\ rows[t].status # "none")
  <2>1. rows' = rows
    BY <1>1, <1>4 DEF Handled
  <2> QED
    BY <2>1 DEF Rows, RowsOK, RowKept
<1> QED
  BY <1>2, <1>3, <1>4

LEMMA RowsStep ==
    ASSUME Inv, RowsOK, [Next]_vars
    PROVE  Rows
<1>1. CASE UNCHANGED rows
  BY <1>1 DEF Rows, RowsOK, RowKept
<1>2. CASE ReceiveEvent
  BY <1>2, EventRows DEF Inv
<1>3. ASSUME NEW r \in Slots, RuntimeAnswered(r) PROVE Rows
  BY <1>3, RuntimeRows DEF Inv
<1>4. ASSUME NEW r \in Slots, SendAnswered(r) PROVE Rows
  <2> DEFINE t == requests[r].body
  <2>1. t \in Turns /\ status[t] # "none"
    BY <1>4 DEF Inv, Facts, RequestsOK, RequestFor, SentTo, SendAnswered, At
  <2>2. rows' = Merged(t, Row("running"))
    BY <1>4 DEF SendAnswered
  <2> HIDE DEF t
  <2> QED
    BY <2>1, <2>2, RunningRows DEF Inv
<1>5. CASE Next
  <2>1. UserStep \/ (\E t \in Turns : TaskStep(t)) \/ NetworkStep => UNCHANGED rows
    BY DEF UserStep, SelectAndGet, Deselect, RefreshRuntime, Send, NetworkStep, viewVars, TaskStep, Delta,
       StoreReply, StoreNotice, AnnounceNotice, CompleteTurn, ChangeRow, FailTurn
  <2>2. ASSUME NEW r \in Slots, RequestStep(r), ~RuntimeAnswered(r), ~SendAnswered(r) PROVE UNCHANGED rows
    BY <2>2 DEF RequestStep, ServeMessages, ServeRuntime, StoreUserMessage, AnnounceUserMessage, StartTurn,
       GetAnswered, RequestOver, viewVars
  <2> QED
    BY <1>1, <1>2, <1>3, <1>4, <1>5, <2>1, <2>2 DEF Next
<1> QED
  BY <1>1, <1>5 DEF vars, viewVars

\* A row that shows how a turn ended is not taken back by a snapshot or an
\* answer that was under way; a failure said later may still change it.
THEOREM EndedRowsStay == Spec => FinalRowStays
<1>1. Inv /\ [Next]_vars => Inv'
  BY InvStep
<1>2. RowsOK /\ Inv /\ [Next]_vars => RowsOK'
  BY RowsStep DEF Rows
<1>3. Init => RowsOK
  BY RowTypes DEF Init, RowsOK, Statuses
<1>4. Inv /\ RowsOK /\ [Next]_vars =>
          [ \A t \in Turns :
                told[t] # "nothing" /\ rows[t].status = status[t] /\ rows[t].stamp = Stamp(status[t])
                /\ status[t] # "running"
                => rows'[t].status \in {rows[t].status, told[t]} ]_vars
  <2> SUFFICES ASSUME Inv, RowsOK, [Next]_vars, NEW t \in Turns,
                      told[t] # "nothing", rows[t].status = status[t], rows[t].stamp = Stamp(status[t]),
                      status[t] # "running"
               PROVE  rows'[t].status \in {rows[t].status, told[t]}
    OBVIOUS
  <2>1. Settled(t)
    BY DEF Settled, Inv, Facts, ServerOK, Statuses
  <2> QED
    BY <2>1, RowsStep DEF Rows, RowKept
<1> QED
  BY <1>1, <1>2, <1>3, <1>4, InvStart, PTL DEF Spec, FinalRowStays

-----------------------------------------------------------------------------
(***************************************************************************)
(* What the stream keeps up to date                                        *)
(***************************************************************************)
\* The positions of the receiver.
PositionsOK ==
    /\ conn \in {"closed", "connecting", "open", "failed"}
    /\ since \in 1 .. Len(channel) + 1
    /\ next \in since .. Len(channel) + 1

\* The channel is what it was, or has one event more.
Heard == UNCHANGED channel \/ \E s, payload : PublishEvent(s, payload)

Quiet == UNCHANGED <<source, conn, since, next, handled>> /\ Heard

LEMMA ChannelGrows ==
    ASSUME ChannelInv, Heard
    PROVE  /\ Len(channel) \in Nat /\ Len(channel') \in Nat /\ Len(channel) <= Len(channel')
           /\ \A i \in 1 .. Len(channel) : channel'[i] = channel[i]
<1>1. channel \in Seq(Event)
  BY DEF ChannelInv, ChannelOK
<1>2. ASSUME NEW s, NEW payload, PublishEvent(s, payload)
      PROVE  Len(channel') = Len(channel) + 1
  <2>1. \A e : Len(Append(channel, e)) = Len(channel) + 1
    BY <1>1
  <2> QED
    BY <1>2, <2>1 DEF PublishEvent
<1>3. \A i \in 1 .. Len(channel) : channel'[i] = channel[i]
  BY ChannelKept DEF Heard
<1> QED
  BY <1>1, <1>2, <1>3 DEF Heard

LEMMA TaskQuiet ==
    ASSUME NEW t \in Turns, TaskStep(t)
    PROVE  Quiet /\ UNCHANGED <<selected, view, rows, requests, synced>>
<1>1. UNCHANGED streamVars \/ \E s, payload : PublishEvent(s, payload)
  BY DEF TaskStep, Delta, StoreReply, StoreNotice, AnnounceNotice, CompleteTurn, ChangeRow, FailTurn, Publish
<1>2. UNCHANGED <<selected, view, rows, requests, synced>>
  BY DEF TaskStep, Delta, StoreReply, StoreNotice, AnnounceNotice, CompleteTurn, ChangeRow, FailTurn, viewVars
<1> QED
  BY <1>1, <1>2 DEF streamVars, PublishEvent, Quiet, Heard

LEMMA RequestQuiet ==
    ASSUME NEW r \in Slots, RequestStep(r), ~GetAnswered(r)
    PROVE  /\ Quiet /\ UNCHANGED synced
           /\ \/ UNCHANGED view
              \/ \E m : view' = [view EXCEPT ![requests[r].session] = @ \cup {m}]
<1>1. CASE SendAnswered(r)
  BY <1>1 DEF SendAnswered, Quiet, Heard, streamVars
<1>2. CASE ~SendAnswered(r)
  BY <1>2 DEF RequestStep, ServeMessages, ServeRuntime, StoreUserMessage, AnnounceUserMessage, StartTurn,
       RuntimeAnswered, RequestOver, Publish, PublishEvent, Quiet, Heard, streamVars, viewVars
<1> QED
  BY <1>1, <1>2

LEMMA ConnectPositions ==
    ASSUME ChannelInv, PositionsOK, NEW s, ConnectSessionEvents(s) \/ CloseSessionEvents, UNCHANGED channel
    PROVE  PositionsOK'
BY DEF PositionsOK, ConnectSessionEvents, CloseSessionEvents, ChannelInv, ChannelOK

LEMMA NetworkPositions ==
    ASSUME ChannelInv, PositionsOK, Network \/ Receive
    PROVE  PositionsOK'
<1>0. Len(channel) \in Nat /\ Capacity \in Nat /\ Capacity > 0
  BY CapacityAssumption DEF ChannelInv, ChannelOK
<1>1. CASE Accept \/ Refuse \/ Break
  BY <1>0, <1>1 DEF PositionsOK, Accept, Refuse, Break, Sent
<1>2. CASE Lag
  BY <1>0, <1>2 DEF PositionsOK, Lag, Lags, Sent
<1>3. CASE Skip \/ Receive
  BY <1>0, <1>3 DEF PositionsOK, Skip, Receive, Readable, Sent
<1> QED
  BY <1>1, <1>2, <1>3 DEF Network

LEMMA PositionsStep ==
    ASSUME ChannelInv, PositionsOK, [Next]_vars
    PROVE  PositionsOK'
<1>1. CASE Quiet
  BY <1>1, ChannelGrows DEF Quiet, PositionsOK
<1>2. CASE UNCHANGED vars
  BY <1>1, <1>2 DEF vars, streamVars, Quiet, Heard
<1>3. CASE UserStep
  <2>1. CASE RefreshRuntime \/ Send
    BY <1>1, <2>1 DEF RefreshRuntime, Send, Quiet, Heard, streamVars
  <2> QED
    BY <1>3, <2>1, ConnectPositions DEF UserStep, SelectAndGet, Connect, Deselect
<1>4. ASSUME NEW r \in Slots, GetAnswered(r) PROVE PositionsOK'
  BY <1>4, ConnectPositions DEF GetAnswered, Connect
<1>5. CASE ReceiveEvent \/ NetworkStep
  BY <1>5, NetworkPositions DEF ReceiveEvent, NetworkStep
<1> QED
  BY <1>1, <1>2, <1>3, <1>4, <1>5, TaskQuiet, RequestQuiet DEF Next

\* What an event announces is in the list.
Shows(e, list) ==
    /\ e.payload[1] \in {"user", "notice"} => e.payload \in list
    /\ e.payload[1] = "completed" => Reply(e.payload[2]) \in list

\* What the events of session s before position n announce is in the list.
ShownIn(sent, n, s, list) ==
    \A i \in 1 .. Len(sent) : i < n /\ sent[i].session = s => Shows(sent[i], list)

\* A message that is stored is one of a turn of the session.
AtHome == \A s \in Sessions : \A m \in stored[s] : m[2] \in Turns /\ home[m[2]] = s

\* A list holds what had been announced when it was read.
ListFor(q, sent) ==
    q.kind = "get" /\ q.stage = "served" =>
        /\ q.body.at \in 0 .. Len(sent)
        /\ ShownIn(sent, q.body.at + 1, q.session, q.body.messages)

ListsOK == \A r \in Slots : ListFor(requests[r], channel)

\* A view that is up to date shows all that the receiver has gone past.
SyncedOK ==
    /\ synced \subseteq {source}
    /\ synced # {} => conn = "open" /\ source \in Sessions /\ ShownIn(channel, next, source, view[source])

LEMMA ShownStays ==
    ASSUME ChannelInv, Heard, NEW n \in Int, n <= Len(channel) + 1, NEW s, NEW list, NEW more,
           ShownIn(channel, n, s, list),
           \A i \in 1 .. Len(channel) : Shows(channel[i], list) => Shows(channel[i], more)
    PROVE  ShownIn(channel', n, s, more)
<1>1. /\ Len(channel) \in Nat /\ Len(channel') \in Nat /\ Len(channel) <= Len(channel')
      /\ \A i \in 1 .. Len(channel) : channel'[i] = channel[i]
  BY ChannelGrows
<1>2. ASSUME NEW i \in 1 .. Len(channel'), i < n, channel'[i].session = s
      PROVE  Shows(channel'[i], more)
  <2>1. i \in 1 .. Len(channel) /\ channel'[i] = channel[i]
    BY <1>1, <1>2
  <2>2. Shows(channel[i], list)
    BY <1>2, <2>1 DEF ShownIn
  <2>3. Shows(channel[i], more)
    BY <2>1, <2>2
  <2> QED
    BY <2>1, <2>3
<1> QED
  BY <1>2 DEF ShownIn

LEMMA AtHomeStep ==
    ASSUME ServerOK, RequestsOK, AtHome, [Next]_vars
    PROVE  AtHome'
<1>1. CASE UNCHANGED <<home, stored>>
  BY <1>1 DEF AtHome
<1>2. ASSUME NEW t \in Turns, StoreReply(t) \/ StoreNotice(t) PROVE AtHome'
  <2>1. home[t] \in Sessions /\ Reply(t)[2] = t /\ Notice(t)[2] = t
    BY <1>2 DEF ServerOK, StoreReply, StoreNotice, Reply, Notice
  <2> QED
    BY <1>2, <2>1 DEF AtHome, StoreReply, StoreNotice, ServerOK
<1>3. ASSUME NEW r \in Slots, NEW t \in Turns, StoreUserMessage(r, t) PROVE AtHome'
  <2>1. requests[r].session \in Sessions /\ User(t)[2] = t
    BY <1>3 DEF RequestsOK, RequestFor, StoreUserMessage, At, User
  <2>2. home[t] \notin Sessions
    BY <1>3, SessionsAssumption DEF StoreUserMessage
  <2> QED
    BY <1>3, <2>1, <2>2 DEF AtHome, StoreUserMessage, ServerOK
<1>4. CASE Next
  <2>1. UserStep \/ ReceiveEvent \/ NetworkStep => UNCHANGED <<home, stored>>
    BY DEF UserStep, SelectAndGet, Deselect, RefreshRuntime, Send, ReceiveEvent, NetworkStep, serverVars
  <2>2. ASSUME NEW t \in Turns, TaskStep(t), ~StoreReply(t), ~StoreNotice(t) PROVE UNCHANGED <<home, stored>>
    BY <2>2 DEF TaskStep, Delta, AnnounceNotice, CompleteTurn, ChangeRow, FailTurn, serverVars
  <2>3. ASSUME NEW r \in Slots, RequestStep(r), ~ \E t \in Turns : StoreUserMessage(r, t)
        PROVE  UNCHANGED <<home, stored>>
    BY <2>3 DEF RequestStep, ServeMessages, ServeRuntime, AnnounceUserMessage, StartTurn,
       GetAnswered, RuntimeAnswered, SendAnswered, RequestOver, serverVars
  <2> QED
    BY <1>1, <1>2, <1>3, <1>4, <2>1, <2>2, <2>3 DEF Next
<1> QED
  BY <1>1, <1>4 DEF vars, serverVars

\* A list is read when all that had been announced was stored.
LEMMA ListsStep ==
    ASSUME ServerOK, RequestsOK, ChannelInv, ListsOK, [Next]_vars
    PROVE  ListsOK'
<1>0. Len(channel) \in Nat
  BY DEF ChannelInv, ChannelOK
<1>1. ASSUME NEW q, ListFor(q, channel), Heard PROVE ListFor(q, channel')
  <2> SUFFICES ASSUME q.kind = "get", q.stage = "served"
               PROVE  /\ q.body.at \in 0 .. Len(channel')
                      /\ ShownIn(channel', q.body.at + 1, q.session, q.body.messages)
    BY DEF ListFor
  <2>1. q.body.at \in 0 .. Len(channel) /\ ShownIn(channel, q.body.at + 1, q.session, q.body.messages)
    BY <1>1 DEF ListFor
  <2>2. q.body.at + 1 \in Int /\ q.body.at + 1 <= Len(channel) + 1
    BY <1>0, <2>1
  <2>3. ShownIn(channel', q.body.at + 1, q.session, q.body.messages)
    BY <1>1, <2>1, <2>2, ShownStays
  <2> QED
    BY <1>0, <1>1, <2>1, <2>3, ChannelGrows
<1>2. ASSUME Heard,
             \A r \in Slots : requests'[r] = requests[r] \/ requests'[r].kind # "get" \/ requests'[r].stage # "served"
      PROVE  ListsOK'
  BY <1>1, <1>2 DEF ListsOK, ListFor
<1>3. ASSUME NEW r \in Slots, ServeMessages(r) PROVE ListsOK'
  <2> DEFINE q == requests[r]
             new == [kind |-> q.kind, session |-> q.session, stage |-> "served",
                     body |-> [messages |-> stored[q.session], at |-> Len(channel)]]
  <2>1. requests' = [requests EXCEPT ![r] = new] /\ UNCHANGED channel /\ q.session \in Sessions
    BY <1>3 DEF ServeMessages, ServedList, Served, Sent, streamVars, RequestsOK, RequestFor, At
  <2>2. ShownIn(channel, Len(channel) + 1, q.session, stored[q.session])
    BY DEF ShownIn, Shows, ChannelInv, ChannelOK, EventFor
  <2>3. ListFor(new, channel)
    BY <1>0, <2>2 DEF ListFor
  <2> HIDE DEF new
  <2> QED
    BY <2>1, <2>3 DEF ListsOK, RequestsOK
<1>4. CASE UNCHANGED vars
  BY <1>2, <1>4 DEF vars, streamVars, Heard
<1>5. CASE UserStep
  <2>1. Heard
    BY <1>5 DEF UserStep, SelectAndGet, Connect, Deselect, RefreshRuntime, Send, streamVars, Heard
  <2>2. ASSUME NEW kind, NEW s, Issue(kind, s) PROVE ListsOK'
    BY <1>2, <2>1, <2>2 DEF Issue, Request, RequestsOK
  <2>3. ASSUME NEW q \in Slots, NEW r \in Slots, NEW s,
               requests' = [requests EXCEPT ![q] = Request("get", s), ![r] = Request("runtime", s)]
        PROVE  ListsOK'
    BY <1>2, <2>1, <2>3 DEF Request, RequestsOK
  <2> QED
    BY <1>2, <1>5, <2>1, <2>2, <2>3 DEF UserStep, SelectAndGet, Deselect, RefreshRuntime, Send
<1>6. ASSUME NEW r \in Slots, RequestStep(r), ~ServeMessages(r) PROVE ListsOK'
  <2>1. Heard
    BY <1>6, RequestQuiet DEF Quiet, GetAnswered, Connect, Heard
  <2>2. ASSUME NEW new, requests' = [requests EXCEPT ![r] = new], new.kind # "get" \/ new.stage # "served"
        PROVE  ListsOK'
    BY <1>2, <2>1, <2>2 DEF RequestsOK
  <2>3. CASE ServeRuntime(r) \/ StartTurn(r)
    BY <2>2, <2>3 DEF ServeRuntime, StartTurn, Served, At
  <2>4. CASE \E t \in Turns : StoreUserMessage(r, t)
    BY <2>2, <2>4 DEF StoreUserMessage
  <2>7. CASE AnnounceUserMessage(r)
    <3> DEFINE new == [requests[r] EXCEPT !.stage = "announced"]
    <3>1. requests' = [requests EXCEPT ![r] = new]
      BY <2>7 DEF AnnounceUserMessage
    <3>2. new.kind # "get" \/ new.stage # "served"
      BY <2>7 DEF AnnounceUserMessage, At
    <3> HIDE DEF new
    <3> QED
      BY <2>2, <3>1, <3>2
  <2>5. CASE GetAnswered(r) \/ RuntimeAnswered(r)
    BY <2>2, <2>5 DEF GetAnswered, RuntimeAnswered, Continued
  <2>6. CASE SendAnswered(r) \/ RequestOver(r)
    BY <2>2, <2>6 DEF SendAnswered, RequestOver, Done, Free
  <2> QED
    BY <1>6, <2>3, <2>4, <2>5, <2>6, <2>7 DEF RequestStep
<1>7. CASE ReceiveEvent \/ NetworkStep
  BY <1>2, <1>7 DEF ReceiveEvent, Receive, NetworkStep, Network, Accept, Refuse, Break, Lag, Skip, Heard
<1>8. ASSUME NEW t \in Turns, TaskStep(t) PROVE ListsOK'
  BY <1>2, <1>8, TaskQuiet DEF Quiet
<1> QED
  BY <1>3, <1>4, <1>5, <1>6, <1>7, <1>8 DEF Next

\* Nothing is taken from the view but transients, and the receiver stays.
LEMMA SyncedStays ==
    ASSUME ChannelInv, PositionsOK, SyncedOK, Quiet, UNCHANGED synced,
           source \in Sessions => \A m \in view[source] : m \in view'[source]
    PROVE  SyncedOK'
<1>1. CASE synced = {}
  BY <1>1 DEF SyncedOK
<1>2. CASE synced # {}
  <2>1. \A i \in 1 .. Len(channel) :
            Shows(channel[i], view[source]) => Shows(channel[i], view'[source])
    BY <1>2 DEF SyncedOK, Shows
  <2>2. next \in Int /\ next <= Len(channel) + 1
    BY DEF PositionsOK, ChannelInv, ChannelOK
  <2>3. ShownIn(channel', next, source, view'[source])
    BY <1>2, <2>1, <2>2, ShownStays DEF SyncedOK, Quiet
  <2> QED
    BY <1>2, <2>3 DEF SyncedOK, Quiet
<1> QED
  BY <1>1, <1>2

\* A list that is fresh shows all that the receiver has gone past.
LEMMA GetSynced ==
    ASSUME Facts, ViewsOK, PositionsOK, ListsOK, SyncedOK, NEW r \in Slots, GetAnswered(r)
    PROVE  SyncedOK'
<1> DEFINE q == requests[r]
<1>1. /\ q.kind = "get" /\ q.stage = "served" /\ q.session \in Sessions
      /\ ListFor(q, channel)
      /\ view' = [view EXCEPT ![q.session] = q.body.messages]
      /\ ConnectSessionEvents(q.session) /\ UNCHANGED channel
      /\ synced' = IF source = q.session THEN SyncedBy(r) ELSE {}
  BY DEF Facts, RequestsOK, RequestFor, ListsOK, GetAnswered, At, Connect
<1>2. CASE source = q.session /\ Fresh(r)
  <2>1. UNCHANGED <<source, conn, next>> /\ conn = "open" /\ synced' = synced \cup {source}
    BY <1>1, <1>2 DEF ConnectSessionEvents, SyncedBy, Fresh
  <2>2. view'[source] = q.body.messages
    BY <1>1, <1>2 DEF ViewsOK
  <2>3. ShownIn(channel, next, source, q.body.messages)
    <3>1. q.body.at \in Int /\ next \in Int
      BY <1>1 DEF ListFor, PositionsOK
    <3>2. ASSUME NEW i \in 1 .. Len(channel), i < next, channel[i].session = source
          PROVE  i < q.body.at + 1
      BY <1>2, <3>1, <3>2 DEF Fresh
    <3> QED
      BY <1>1, <1>2, <3>2 DEF ListFor, ShownIn
  <2> QED
    BY <1>1, <1>2, <2>1, <2>2, <2>3 DEF SyncedOK
<1>3. CASE ~(source = q.session /\ Fresh(r))
  <2>1. synced' = {}
    BY <1>1, <1>3 DEF SyncedBy, SyncedOK
  <2> QED
    BY <2>1 DEF SyncedOK
<1> QED
  BY <1>2, <1>3

\* What an event announces is shown when it was handled.
LEMMA EventSynced ==
    ASSUME Facts, ViewsOK, PositionsOK, SyncedOK, ReceiveEvent
    PROVE  SyncedOK'
<1> DEFINE kind == channel[next].payload[1]
           t == channel[next].payload[2]
<1>1. /\ next \in 1 .. Len(channel) /\ channel[next] \in Event /\ channel[next].session = source
      /\ next' = next + 1 /\ UNCHANGED <<channel, source, conn, since, synced>>
  BY ReceivedPosition DEF Facts, ReceiveEvent
<1>2. /\ kind \in Kinds /\ t \in Turns /\ source \in Sessions /\ channel[next].payload = <<kind, t>>
      /\ Handled(kind, t)
  BY <1>1 DEF Event, ReceiveEvent
<1>3. CASE synced = {}
  BY <1>1, <1>3 DEF SyncedOK
<1>4. CASE synced # {}
  <2>1. /\ \A m \in view[source] : m \in view'[source] \/ m = Transient(t)
        /\ Shows(channel[next], view'[source])
    <3> HIDE DEF kind, t
    <3>1. CASE kind \in {"user", "notice"}
      BY <1>2, <3>1 DEF Handled, Shows, ViewsOK
    <3>2. CASE kind = "delta"
      BY <1>2, <3>2 DEF Handled, Shows, ViewsOK
    <3>3. CASE kind = "completed"
      BY <1>2, <3>3 DEF Handled, Shows, ViewsOK
    <3>4. CASE kind \in {"turn_failed", "turn_started"}
      BY <1>2, <3>4 DEF Handled, Shows, ViewsOK
    <3> QED
      BY <1>2, <3>1, <3>2, <3>3, <3>4 DEF Kinds
  <2>2. ASSUME NEW i \in 1 .. Len(channel), i < next + 1, channel[i].session = source
        PROVE  Shows(channel[i], view'[source])
    <3>1. CASE i = next
      BY <2>1, <3>1
    <3>2. CASE i < next
      <4>1. Shows(channel[i], view[source])
        BY <1>4, <2>2, <3>2 DEF SyncedOK, ShownIn
      <4>2. /\ channel[i].payload[1] \in {"user", "notice"} => channel[i].payload # Transient(t)
            /\ Reply(channel[i].payload[2]) # Transient(t)
        BY DEF Transient, Reply
      <4> QED
        BY <2>1, <4>1, <4>2 DEF Shows
    <3> QED
      BY <1>1, <2>2, <3>1, <3>2
  <2>3. ShownIn(channel, next + 1, source, view'[source])
    BY <2>2 DEF ShownIn
  <2> QED
    BY <1>1, <1>4, <2>3 DEF SyncedOK
<1> QED
  BY <1>3, <1>4

LEMMA NetworkSynced ==
    ASSUME ChannelInv, PositionsOK, SyncedOK, NetworkStep
    PROVE  SyncedOK'
<1>1. CASE synced' = {}
  BY <1>1 DEF SyncedOK
<1>2. CASE synced' # {}
  <2>1. synced # {} /\ synced' = synced /\ conn = "open" /\ conn' = "open" /\ ~Lags
    BY <1>2 DEF NetworkStep, SyncedOK, Network, Accept, Refuse, Break, Lag, Skip, Readable
  <2>2. /\ next' = next + 1 /\ UNCHANGED <<channel, source, view>>
        /\ channel[next].session # source
    BY <2>1 DEF NetworkStep, Network, Accept, Refuse, Break, Lag, Skip, viewVars
  <2>3. ShownIn(channel, next + 1, source, view[source])
    BY <2>1, <2>2 DEF SyncedOK, ShownIn, PositionsOK
  <2> QED
    BY <2>1, <2>2, <2>3 DEF SyncedOK
<1> QED
  BY <1>1, <1>2

LEMMA SyncedStep ==
    ASSUME Facts, ViewsOK, PositionsOK, ListsOK, SyncedOK, [Next]_vars
    PROVE  SyncedOK'
<1>0. ChannelInv
  BY DEF Facts
<1>1. CASE UNCHANGED vars
  BY <1>0, <1>1, SyncedStays DEF vars, streamVars, viewVars, Quiet, Heard
<1>2. ASSUME NEW s \in Sessions, SelectAndGet(s) PROVE SyncedOK'
  <2>1. CASE source = s
    BY <1>0, <1>2, <2>1, SyncedStays DEF SelectAndGet, Connect, ConnectSessionEvents, viewVars, Quiet, Heard
  <2>2. CASE source # s
    BY <1>2, <2>2 DEF SelectAndGet, SyncedOK
  <2> QED
    BY <2>1, <2>2
<1>3. CASE Deselect
  BY <1>3 DEF Deselect, SyncedOK
<1>4. CASE RefreshRuntime \/ Send
  BY <1>0, <1>4, SyncedStays DEF RefreshRuntime, Send, streamVars, viewVars, Quiet, Heard
<1>5. ASSUME NEW t \in Turns, TaskStep(t) PROVE SyncedOK'
  BY <1>0, <1>5, TaskQuiet, SyncedStays
<1>6. ASSUME NEW r \in Slots, RequestStep(r), ~GetAnswered(r) PROVE SyncedOK'
  <2>1. source \in Sessions => \A m \in view[source] : m \in view'[source]
    BY <1>6, RequestQuiet DEF ViewsOK
  <2> QED
    BY <1>0, <1>6, <2>1, RequestQuiet, SyncedStays
<1> QED
  BY <1>0, <1>1, <1>2, <1>3, <1>4, <1>5, <1>6, GetSynced, EventSynced, NetworkSynced DEF Next, UserStep

-----------------------------------------------------------------------------
SyncInv == Inv /\ PositionsOK /\ AtHome /\ ListsOK /\ SyncedOK

LEMMA SyncInvStart ==
    ASSUME Init
    PROVE  SyncInv
<1>1. PositionsOK
  BY DEF Init, StreamInit, PositionsOK
<1>2. AtHome /\ ListsOK /\ SyncedOK
  BY DEF Init, AtHome, ListsOK, ListFor, Free, SyncedOK
<1> QED
  BY <1>1, <1>2, InvStart DEF SyncInv

LEMMA SyncInvStep ==
    ASSUME SyncInv, [Next]_vars
    PROVE  SyncInv'
<1>1. Facts /\ ViewsOK /\ ServerOK /\ RequestsOK /\ ChannelInv
  BY DEF SyncInv, Inv, Facts, ViewInv
<1> QED
  BY <1>1, InvStep, PositionsStep, AtHomeStep, ListsStep, SyncedStep DEF SyncInv

\* A list that was fetched while the stream was open and used before the stream
\* moved past it leaves nothing out for as long as the stream holds, whatever
\* is sent, answered and announced meanwhile, in any number of sessions.
THEOREM SyncedViewsAreComplete == Spec => []SyncedViewComplete
<1>1. SyncInv /\ [Next]_vars => SyncInv'
  BY SyncInvStep
<1>2. SyncInv => SyncedViewComplete
  <2> SUFFICES ASSUME SyncInv, NEW s \in synced, NEW m \in stored[s] \ view[s]
               PROVE  LET event == IF m[1] = "reply" THEN <<"completed", m[2]>> ELSE m IN
                      \/ \E i \in next .. Sent : channel[i].payload = event
                      \/ ~Announced(event[1], event[2])
    BY DEF SyncedViewComplete
  <2> DEFINE event == IF m[1] = "reply" THEN <<"completed", m[2]>> ELSE m
  <2>1. s = source /\ s \in Sessions /\ ShownIn(channel, next, s, view[s])
    BY DEF SyncInv, SyncedOK
  <2>2. m \in Stored /\ home[m[2]] = s
    BY <2>1 DEF SyncInv, Inv, Facts, ServerOK, AtHome
  <2>3. event = <<event[1], event[2]>> /\ event[2] = m[2]
    BY <2>2 DEF Stored
  <2>4. \A e : e.payload = event /\ Shows(e, view[s]) => m \in view[s]
    BY <2>2 DEF Shows, Stored, Reply
  <2> HIDE DEF event
  <2>5. ASSUME NEW i \in 1 .. Len(channel), channel[i].payload = event PROVE i \in next .. Len(channel)
    <3>1. channel[i].session = s
      BY <2>2, <2>3, <2>5 DEF SyncInv, Inv, Facts, ChannelInv, ChannelOK, EventFor
    <3>2. ~ (i < next)
      BY <2>1, <2>4, <2>5, <3>1 DEF ShownIn
    <3> QED
      BY <3>2 DEF SyncInv, PositionsOK
  <2>6. (\E i \in next .. Sent : channel[i].payload = event) \/ ~Announced(event[1], event[2])
    BY <2>3, <2>5 DEF Announced, Sent
  <2> QED
    BY <2>6 DEF event
<1> QED
  BY <1>1, <1>2, SyncInvStart, PTL DEF Spec

-----------------------------------------------------------------------------
(***************************************************************************)
(* Types                                                                   *)
(***************************************************************************)
InFlight(q) == q = Free \/ q.kind \in {"get", "runtime", "send", "material"}

ProjectionOK ==
    /\ view = [s \in Sessions |-> view[s]]
    /\ \A r \in Slots : InFlight(requests[r])

LEMMA InFlightStep ==
    ASSUME RequestsOK, \A r \in Slots : InFlight(requests[r]), [Next]_vars
    PROVE  \A r \in Slots : InFlight(requests'[r])
<1>1. ASSUME NEW r \in Slots, NEW new, requests' = [requests EXCEPT ![r] = new], InFlight(new)
      PROVE  \A p \in Slots : InFlight(requests'[p])
  BY <1>1 DEF RequestsOK
<1>2. CASE UserStep
  <2>1. ASSUME NEW kind \in {"get", "runtime", "send"}, NEW s, Issue(kind, s)
        PROVE  \A r \in Slots : InFlight(requests'[r])
    BY <1>1, <2>1 DEF Issue, Request, InFlight
  <2>2. ASSUME NEW q \in Slots, NEW r \in Slots, NEW s,
               requests' = [requests EXCEPT ![q] = Request("get", s), ![r] = Request("runtime", s)]
        PROVE  \A p \in Slots : InFlight(requests'[p])
    BY <2>2 DEF Request, InFlight, RequestsOK
  <2> QED
    BY <1>2, <2>1, <2>2 DEF UserStep, SelectAndGet, Deselect, RefreshRuntime, Send
<1>3. ASSUME NEW r \in Slots, RequestStep(r) PROVE \A p \in Slots : InFlight(requests'[p])
  <2>1. CASE ServeMessages(r) \/ ServeRuntime(r) \/ StartTurn(r)
    BY <1>1, <2>1 DEF ServeMessages, ServeRuntime, StartTurn, ServedList, Served, At, InFlight
  <2>2. CASE \E t \in Turns : StoreUserMessage(r, t)
    BY <1>1, <2>2 DEF StoreUserMessage, InFlight
  <2>3. CASE AnnounceUserMessage(r)
    <3> DEFINE new == [requests[r] EXCEPT !.stage = "announced"]
    <3>1. requests' = [requests EXCEPT ![r] = new]
      BY <2>3 DEF AnnounceUserMessage
    <3>2. InFlight(new)
      BY <2>3 DEF AnnounceUserMessage, At, InFlight
    <3> HIDE DEF new
    <3> QED
      BY <1>1, <3>1, <3>2
  <2>4. CASE GetAnswered(r) \/ RuntimeAnswered(r) \/ SendAnswered(r) \/ RequestOver(r)
    BY <1>1, <2>4 DEF GetAnswered, RuntimeAnswered, SendAnswered, RequestOver, Continued, Done, InFlight
  <2> QED
    BY <1>3, <2>1, <2>2, <2>3, <2>4 DEF RequestStep
<1>4. CASE UNCHANGED vars \/ ReceiveEvent \/ NetworkStep
  BY <1>4 DEF vars, ReceiveEvent, NetworkStep
<1>5. ASSUME NEW t \in Turns, TaskStep(t) PROVE \A r \in Slots : InFlight(requests'[r])
  BY <1>5, TaskQuiet
<1> QED
  BY <1>2, <1>3, <1>4, <1>5 DEF Next

LEMMA ViewFunctionStep ==
    ASSUME view = [s \in Sessions |-> view[s]], [Next]_vars
    PROVE  view' = [s \in Sessions |-> view'[s]]
<1>1. CASE UNCHANGED view
  BY <1>1
<1>2. ASSUME NEW s, NEW list, view' = [view EXCEPT ![s] = list]
      PROVE  view' = [x \in Sessions |-> view'[x]]
  BY <1>2
<1>3. ASSUME NEW r \in Slots, RequestStep(r) PROVE view' = [s \in Sessions |-> view'[s]]
  BY <1>1, <1>2, <1>3, RequestQuiet DEF GetAnswered
<1>4. CASE ReceiveEvent
  BY <1>2, <1>4 DEF ReceiveEvent, Handled
<1>5. CASE UNCHANGED vars \/ UserStep \/ NetworkStep
  BY <1>1, <1>5 DEF vars, viewVars, UserStep, SelectAndGet, Deselect, RefreshRuntime, Send, NetworkStep
<1> QED
  BY <1>1, <1>3, <1>4, <1>5, TaskQuiet DEF Next

\* The projection keeps its types, and the receiver stays between its
\* subscription and the end of the channel.
THEOREM MqueueTypeCorrect == Spec => []MqueueTypeOK
<1> DEFINE TypeInv == SyncInv /\ RowsOK /\ ProjectionOK
<1>1. Init => TypeInv
  BY SyncInvStart, RowTypes DEF Init, RowsOK, Statuses, ProjectionOK, InFlight
<1>2. TypeInv /\ [Next]_vars => TypeInv'
  BY SyncInvStep, RowsStep, InFlightStep, ViewFunctionStep
     DEF SyncInv, Inv, Facts, Rows, ProjectionOK
<1>3. TypeInv => MqueueTypeOK
  <2> SUFFICES ASSUME TypeInv PROVE MqueueTypeOK
    OBVIOUS
  <2>1. StreamTypeOK
    BY PayloadsAssumption
       DEF SyncInv, Inv, Facts, ChannelInv, ChannelOK, Event, ClientOK, PositionsOK, StreamTypeOK, Sent
  <2>2. view \in [Sessions -> SUBSET (Stored \cup Transients)]
    BY DEF SyncInv, Inv, Facts, ServerOK, ViewInv, ViewsOK, ViewIsOfSession, ProjectionOK
  <2>3. \A r \in Pending : /\ requests[r].kind \in {"get", "runtime", "send", "material"}
                           /\ requests[r].session \in Sessions
    BY DEF Pending, ProjectionOK, InFlight, SyncInv, Inv, Facts, RequestsOK, RequestFor
  <2> QED
    BY <2>1, <2>2, <2>3 DEF MqueueTypeOK, SyncInv, SyncedOK, Inv, Facts, ServerOK, Statuses, ClientOK, RowsOK
<1> HIDE DEF TypeInv
<1> QED
  BY <1>1, <1>2, <1>3, PTL DEF Spec

-----------------------------------------------------------------------------
(***************************************************************************)
(* The server is that of TurnOutcome, and the stream that of EventStream   *)
(***************************************************************************)
\* Every write to a turn's status is one of TurnOutcome.
LEMMA OutcomeStep ==
    ASSUME RequestsOK, [Next]_vars
    PROVE  Server!Next \/ UNCHANGED <<status, told>>
<1>1. ASSUME NEW t \in Turns, TaskStep(t) PROVE Server!Next \/ UNCHANGED <<status, told>>
  BY <1>1 DEF TaskStep, Delta, StoreReply, StoreNotice, AnnounceNotice, CompleteTurn, ChangeRow, FailTurn,
              serverVars, Server!Next
<1>2. ASSUME NEW r \in Slots, StartTurn(r) PROVE Server!Next
  <2>1. requests[r].turn \in Turns
    BY <1>2 DEF RequestsOK, RequestFor, SentTo, StartTurn, At
  <2>2. Server!Start(requests[r].turn)
    BY <1>2 DEF StartTurn
  <2> QED
    BY <2>1, <2>2 DEF Server!Next
<1>3. ASSUME NEW r \in Slots, RequestStep(r), ~StartTurn(r) PROVE UNCHANGED <<status, told>>
  BY <1>3 DEF RequestStep, ServeMessages, ServeRuntime, StoreUserMessage, AnnounceUserMessage, GetAnswered,
              RuntimeAnswered, SendAnswered, RequestOver, serverVars
<1>4. CASE UserStep \/ ReceiveEvent \/ NetworkStep \/ UNCHANGED vars
  BY <1>4 DEF UserStep, SelectAndGet, Deselect, RefreshRuntime, Send, ReceiveEvent, NetworkStep, vars, serverVars
<1> QED
  BY <1>1, <1>2, <1>3, <1>4 DEF Next

\* What the server publishes is an event of a session, about one of its turns.
LEMMA SpeaksOfSessions ==
    ASSUME NEW kind \in Kinds, NEW t \in Turns, home[t] \in Sessions, Publish(kind, t)
    PROVE  StreamNext
<1>1. <<kind, t>> \in Payloads
  BY PayloadsAssumption
<1> QED
  BY <1>1 DEF Publish, StreamNext

\* The client opens, closes and reads a stream as EventStream lets it.
LEMMA StreamStep ==
    ASSUME Inv, [Next]_vars
    PROVE  StreamNext \/ UNCHANGED streamVars
<1>0. ServerOK /\ RequestsOK
  BY DEF Inv, Facts
<1>1. ASSUME NEW t \in Turns, TaskStep(t) PROVE StreamNext \/ UNCHANGED streamVars
  <2>1. CASE Delta(t) \/ AnnounceNotice(t) \/ CompleteTurn(t) \/ FailTurn(t)
    <3>1. home[t] \in Sessions
      BY <1>0, <2>1 DEF ServerOK, Delta, AnnounceNotice, CompleteTurn, FailTurn, Holds, Server!ReportFailure
    <3>2. \E kind \in Kinds : Publish(kind, t)
      BY <2>1 DEF Delta, AnnounceNotice, CompleteTurn, FailTurn, Kinds
    <3> QED
      BY <3>1, <3>2, SpeaksOfSessions
  <2>2. CASE StoreReply(t) \/ StoreNotice(t) \/ ChangeRow(t)
    BY <2>2 DEF StoreReply, StoreNotice, ChangeRow
  <2> QED
    BY <1>1, <2>1, <2>2 DEF TaskStep
<1>2. ASSUME NEW r \in Slots, AnnounceUserMessage(r) \/ StartTurn(r) PROVE StreamNext
  <2> DEFINE t == requests[r].turn
  <2>1. t \in Turns /\ home[t] \in Sessions
    BY <1>0, <1>2 DEF RequestsOK, RequestFor, SentTo, AnnounceUserMessage, StartTurn, At
  <2>2. Publish("user", t) \/ Publish("turn_started", t)
    BY <1>2 DEF AnnounceUserMessage, StartTurn
  <2>3. "user" \in Kinds /\ "turn_started" \in Kinds
    BY DEF Kinds
  <2> HIDE DEF t
  <2> QED
    BY <2>1, <2>2, <2>3, SpeaksOfSessions
<1>3. ASSUME NEW r \in Slots, GetAnswered(r) PROVE StreamNext
  <2>1. requests[r].session \in Sessions
    BY <1>0, <1>3 DEF RequestsOK, RequestFor, GetAnswered, At
  <2> QED
    BY <1>3, <2>1 DEF GetAnswered, Connect, StreamNext
<1>4. ASSUME NEW r \in Slots, RequestStep(r), ~AnnounceUserMessage(r), ~StartTurn(r), ~GetAnswered(r)
      PROVE  UNCHANGED streamVars
  BY <1>4 DEF RequestStep, ServeMessages, ServeRuntime, StoreUserMessage, RuntimeAnswered, SendAnswered, RequestOver
<1>5. CASE UserStep
  <2>1. ASSUME NEW s \in Sessions, SelectAndGet(s) PROVE StreamNext
    BY <2>1 DEF SelectAndGet, Connect, StreamNext
  <2>2. CASE Deselect
    BY <2>2 DEF Deselect, StreamNext
  <2>3. CASE RefreshRuntime \/ Send
    BY <2>3 DEF RefreshRuntime, Send
  <2> QED
    BY <1>5, <2>1, <2>2, <2>3 DEF UserStep
<1>6. CASE ReceiveEvent \/ NetworkStep
  BY <1>6 DEF ReceiveEvent, NetworkStep, StreamNext
<1>7. CASE UNCHANGED vars
  BY <1>7 DEF vars
<1> QED
  BY <1>1, <1>2, <1>3, <1>4, <1>5, <1>6, <1>7 DEF Next

\* Whatever is asked of it and in whatever order it answers, the server keeps to
\* TurnOutcome, as SantiService is proved to: what holds of every such server
\* holds of both.
THEOREM MqueueServerKeepsPromise == Spec => Server!Spec
<1>1. Init => Server!Init
  BY DEF Init
<1>2. Inv /\ [Next]_vars => [Server!Next]_(Server!outcomeVars)
  BY OutcomeStep DEF Inv, Facts, Server!outcomeVars
<1>3. Inv /\ [Next]_vars => Inv'
  BY InvStep
<1> QED
  BY <1>1, <1>2, <1>3, InvStart, PTL DEF Spec, Server!Spec

\* The events are published under sessions that exist, and connectSessionEvents,
\* however late it is called and for whatever session, leaves the stream in a
\* state EventStream knows: what is proved of every use of the stream holds here.
THEOREM MqueueUsesStream == Spec => StreamSpec
<1>1. Init => StreamInit
  BY DEF Init
<1>2. Inv /\ [Next]_vars => [StreamNext]_streamVars
  BY StreamStep
<1>3. Inv /\ [Next]_vars => Inv'
  BY InvStep
<1> QED
  BY <1>1, <1>2, <1>3, InvStart, PTL DEF Spec, StreamSpec
=============================================================================
