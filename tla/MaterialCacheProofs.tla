------------------------ MODULE MaterialCacheProofs ------------------------
(***************************************************************************)
(* What the stream delivers, for any publisher and client, and from it why *)
(* the material cache repairs its own races while a client listens.        *)
(***************************************************************************)
EXTENDS MaterialCache, TLAPS

-----------------------------------------------------------------------------
(***************************************************************************)
(* The stream: no strengthening is needed beyond the two invariants        *)
(* together.                                                               *)
(***************************************************************************)
StreamInv == StreamTypeOK /\ OnlyOldEventsMissed

USE DEF Sent

\* A new event changes no position a receiver has passed.
LEMMA PublishKeepsStream ==
    ASSUME StreamInv, NEW s \in Sessions, NEW payload \in Payloads, PublishEvent(s, payload)
    PROVE  StreamInv'
<1> DEFINE new == [session |-> s, payload |-> payload]
<1>1. /\ channel \in Seq([session : Sessions, payload : Payloads])
      /\ new \in [session : Sessions, payload : Payloads]
      /\ channel' = Append(channel, new)
  BY DEF StreamInv, StreamTypeOK, PublishEvent
<1> HIDE DEF new
<1>2. /\ channel' \in Seq([session : Sessions, payload : Payloads])
      /\ Len(channel') = Len(channel) + 1
      /\ \A i \in 1 .. Len(channel) : channel'[i] = channel[i]
  BY <1>1
<1>3. StreamTypeOK'
  BY <1>2 DEF StreamInv, StreamTypeOK, PublishEvent
<1>4. Missed' = Missed
  BY <1>2 DEF StreamInv, StreamTypeOK, PublishEvent, Missed
<1>5. \A i \in Missed : i \in Int
  BY DEF StreamInv, StreamTypeOK, Missed
<1>6. OnlyOldEventsMissed'
  BY <1>2, <1>4, <1>5, CapacityAssumption DEF StreamInv, StreamTypeOK, PublishEvent, OnlyOldEventsMissed
<1> QED
  BY <1>3, <1>6 DEF StreamInv

\* A subscription that begins has nothing behind it.
LEMMA FreshStream ==
    ASSUME StreamInv, channel' = channel, handled' = {}, since' = next',
           next' \in 1 .. Sent + 1, source' \in Sessions \cup {NoSession},
           conn' \in {"closed", "connecting", "open", "failed"}
    PROVE  StreamInv'
<1>1. StreamTypeOK'
  BY DEF StreamInv, StreamTypeOK
<1>2. Missed' = {}
  BY DEF StreamInv, StreamTypeOK, Missed
<1> QED
  BY <1>1, <1>2 DEF StreamInv, OnlyOldEventsMissed

LEMMA ConnectKeepsStream ==
    ASSUME StreamInv, NEW s \in Sessions, ConnectSessionEvents(s), UNCHANGED channel
    PROVE  StreamInv'
<1>1. CASE source = s
  BY <1>1 DEF StreamInv, StreamTypeOK, OnlyOldEventsMissed, Missed, ConnectSessionEvents
<1>2. CASE source # s
  <2>1. 1 \in 1 .. Sent + 1
    BY DEF StreamInv, StreamTypeOK
  <2> QED
    BY <1>2, <2>1, FreshStream DEF ConnectSessionEvents
<1> QED
  BY <1>1, <1>2

LEMMA CloseKeepsStream ==
    ASSUME StreamInv, CloseSessionEvents, UNCHANGED channel
    PROVE  StreamInv'
<1>1. 1 \in 1 .. Sent + 1
  BY DEF StreamInv, StreamTypeOK
<1> QED
  BY <1>1, FreshStream DEF CloseSessionEvents

\* Lag moves past events that are all out of the ring.
LEMMA LagKeepsStream ==
    ASSUME StreamInv, Lag
    PROVE  StreamInv'
<1>1. StreamTypeOK'
  BY CapacityAssumption DEF StreamInv, StreamTypeOK, Lag, Lags
<1>2. next \in Int /\ next' \in Int /\ next < next' /\ Len(channel) \in Nat /\ next' = Len(channel) - Capacity + 1
  BY CapacityAssumption DEF StreamInv, StreamTypeOK, Lag, Lags
<1>3. \A i \in Missed' : i + Capacity <= Sent
  <2> SUFFICES ASSUME NEW i \in Missed' PROVE i + Capacity <= Sent
    OBVIOUS
  <2>1. i \in since .. next' - 1 /\ i \notin handled /\ channel[i].session = source
    BY DEF Missed, Lag
  <2>2. since \in Int
    BY DEF StreamInv, StreamTypeOK
  <2>3. CASE i < next
    <3>1. i \in Missed
      BY <1>2, <2>1, <2>2, <2>3 DEF Missed
    <3> QED
      BY <3>1 DEF StreamInv, OnlyOldEventsMissed
  <2>4. CASE i >= next
    BY <1>2, <2>1, <2>2, CapacityAssumption
  <2> QED
    BY <1>2, <2>1, <2>2, <2>3, <2>4
<1>4. OnlyOldEventsMissed'
  BY <1>2, <1>3 DEF StreamInv, StreamTypeOK, OnlyOldEventsMissed, Lag
<1> QED
  BY <1>1, <1>4 DEF StreamInv

\* One position at a time nothing of the session is passed over.
LEMMA ReadKeepsStream ==
    ASSUME StreamInv, Skip \/ Receive
    PROVE  StreamInv'
<1>1. /\ next \in Int /\ since \in Int /\ Len(channel) \in Nat
      /\ 1 <= since /\ since <= next /\ next <= Len(channel) /\ next' = next + 1
      /\ UNCHANGED <<channel, source, since, conn>>
      /\ handled \subseteq handled' /\ handled' \subseteq handled \cup {next}
      /\ next \in handled' \/ channel[next].session # source
      /\ next \in handled' => channel[next].session = source
  BY DEF StreamInv, StreamTypeOK, OnlyOldEventsMissed, Skip, Receive, Readable
<1>2. StreamTypeOK'
  BY <1>1 DEF StreamInv, StreamTypeOK
<1>3. Missed' \subseteq Missed
  <2> SUFFICES ASSUME NEW i \in Missed' PROVE i \in Missed
    OBVIOUS
  <2>1. i \in since .. next /\ channel[i].session = source /\ i \notin handled'
    BY <1>1 DEF Missed
  <2>2. i # next
    BY <1>1, <2>1
  <2> QED
    BY <1>1, <2>1, <2>2 DEF Missed
<1>4. \A i \in handled' : since <= i /\ i < next' /\ channel[i].session = source
  BY <1>1 DEF StreamInv, StreamTypeOK, OnlyOldEventsMissed
<1>5. OnlyOldEventsMissed'
  BY <1>1, <1>3, <1>4 DEF StreamInv, OnlyOldEventsMissed
<1> QED
  BY <1>2, <1>5 DEF StreamInv

LEMMA NetworkKeepsStream ==
    ASSUME StreamInv, Network
    PROVE  StreamInv'
<1>1. Sent + 1 \in 1 .. Sent + 1 /\ 1 \in 1 .. Sent + 1 /\ source \in Sessions \cup {NoSession}
  BY DEF StreamInv, StreamTypeOK
<1>2. CASE Accept
  BY <1>1, <1>2, FreshStream DEF Accept
<1>3. CASE Refuse
  BY <1>3 DEF StreamInv, StreamTypeOK, OnlyOldEventsMissed, Missed, Refuse
<1>4. CASE Break
  BY <1>1, <1>4, FreshStream DEF Break
<1>5. CASE Lag
  BY <1>5, LagKeepsStream
<1>6. CASE Skip
  BY <1>6, ReadKeepsStream
<1> QED
  BY <1>2, <1>3, <1>4, <1>5, <1>6 DEF Network

LEMMA StreamStep ==
    ASSUME StreamInv, [StreamNext]_streamVars
    PROVE  StreamInv'
<1>1. CASE UNCHANGED streamVars
  BY <1>1 DEF StreamInv, StreamTypeOK, OnlyOldEventsMissed, Missed, streamVars
<1>2. CASE StreamNext
  BY <1>2, PublishKeepsStream, ConnectKeepsStream, CloseKeepsStream, NetworkKeepsStream,
     ReadKeepsStream DEF StreamNext
<1> QED
  BY <1>1, <1>2

LEMMA StreamStart ==
    ASSUME StreamInit
    PROVE  StreamInv
BY DEF StreamInit, StreamInv, StreamTypeOK, OnlyOldEventsMissed, Missed

\* Whoever publishes and whatever the client opens and closes, an open stream
\* hands over its session's events except those the ring had dropped.
THEOREM StreamDelivers == StreamSpec => []OnlyOldEventsMissed
<1>1. StreamInv /\ [StreamNext]_streamVars => StreamInv'
  BY StreamStep
<1>2. StreamInv => OnlyOldEventsMissed
  BY DEF StreamInv
<1> QED
  BY <1>1, <1>2, StreamStart, PTL DEF StreamSpec

-----------------------------------------------------------------------------
(***************************************************************************)
(* The cache and its client are one publisher and one client.              *)
(***************************************************************************)
LEMMA MaterialStepIsStreamStep ==
    ASSUME [Next]_<<streamVars, materialVars>>
    PROVE  [StreamNext]_streamVars
<1>1. CASE UNCHANGED <<streamVars, materialVars>>
  BY <1>1
<1>2. CASE Next
  <2>1. ASSUME NEW f \in Files, WriteMemory(f) PROVE UNCHANGED streamVars
    BY <2>1 DEF WriteMemory
  <2>2. ASSUME NEW c \in Callers, Call(c) \/ ReadPart(c) \/ CallFails(c) \/ Lookup(c) \/ EnsureMaterial(c)
        PROVE  UNCHANGED streamVars
    BY <2>2 DEF Call, ReadPart, CallFails, Lookup, EnsureMaterial
  <2>3. ASSUME NEW c \in Callers, Announce(c) PROVE StreamNext
    BY <2>3, WatchedAssumption DEF Announce, StreamNext
  <2>4. ASSUME NEW s \in Sessions, OpenSession(s) \/ OtherEvent(s) PROVE StreamNext
    BY <2>4, WatchedAssumption DEF OpenSession, OtherEvent, StreamNext
  <2>5. CASE LeaveSession
    BY <2>5 DEF LeaveSession, StreamNext
  <2>6. CASE MaterialUpdated
    BY <2>6 DEF MaterialUpdated, StreamNext
  <2>7. CASE Network /\ UNCHANGED materialVars
    BY <2>7 DEF StreamNext
  <2>8. CASE RefetchLost
    BY <2>8 DEF RefetchLost
  <2> QED
    BY <1>2, <2>1, <2>2, <2>3, <2>4, <2>5, <2>6, <2>7, <2>8 DEF Next
<1> QED
  BY <1>1, <1>2

\* The stream's guarantees are the cache's: its steps are stream steps.
THEOREM MaterialCacheImplementsStream == Spec => StreamSpec
<1>1. Init => StreamInit
  BY DEF Init
<1> QED
  BY <1>1, MaterialStepIsStreamStep, PTL DEF Spec, StreamSpec

LEMMA MaterialStreamInv == Spec => []StreamInv
<1>1. StreamInv /\ [StreamNext]_streamVars => StreamInv'
  BY StreamStep
<1> QED
  BY <1>1, StreamStart, MaterialCacheImplementsStream, PTL DEF StreamSpec

\* What the client of the material cache has been handed is well formed, and
\* the receiver is never ahead of the channel or behind its subscription.
THEOREM MaterialStreamTyped == Spec => []StreamTypeOK
<1>1. StreamInv => StreamTypeOK
  BY DEF StreamInv
<1> QED
  BY <1>1, MaterialStreamInv, PTL

\* It misses a material_updated only when the ring had dropped it.
THEOREM MaterialStreamDelivers == Spec => []OnlyOldEventsMissed
<1>1. StreamInv => OnlyOldEventsMissed
  BY DEF StreamInv
<1> QED
  BY <1>1, MaterialStreamInv, PTL

-----------------------------------------------------------------------------
(***************************************************************************)
(* Why a quiet cache is the newest.  Versions only grow, so whatever was   *)
(* rendered is at most what memory says now.  When the last event of the   *)
(* session has been handled and no insertion is still to be announced, no  *)
(* text was inserted since: a call begun since has read no part older than *)
(* what was used, and if it succeeds its text is the newest.  The refetch  *)
(* the event asked for is still owed, or is such a call, or was lost.      *)
(***************************************************************************)
Versions == [1 .. Parts -> Nat]

CacheTypeOK ==
    /\ memory \in Versions
    /\ newest \in Versions
    /\ cache \in Versions \cup {<<>>}
    /\ stage \in [Callers -> {"idle", "reading", "inserted"}]
    /\ rendered \in [Callers -> Seq(Nat)]
    /\ wanted \in Nat
    /\ origin \in [Callers -> {"before", "call", "refetch"}]
    /\ repair \in {"due", "done", "lost"}

AtMost(a, b) == \A p \in 1 .. Parts : a[p] <= b[p]

VersionsGrow ==
    /\ AtMost(newest, memory)
    /\ cache # <<>> => AtMost(cache, newest)
    /\ \A c \in Callers :
           /\ Len(rendered[c]) <= Parts
           /\ stage[c] # "reading" => rendered[c] = <<>>
           /\ \A p \in 1 .. Len(rendered[c]) : rendered[c][p] <= memory[p]

WatchedEvents ==
    \A i \in 1 .. Sent : channel[i].session = Watched => channel[i].payload = "material_updated"

\* A call under way that has read nothing older than what was used.
Fresh(c) ==
    /\ stage[c] = "reading"
    /\ \A p \in 1 .. Len(rendered[c]) : newest[p] <= rendered[c][p]

\* Begun since the client handled an event of the session.
Since(c) == stage[c] = "reading" /\ origin[c] # "before"

Announced == (\A c \in Callers : stage[c] # "inserted") /\ LastHandled

RepairedOrUnderWay ==
    Announced =>
        /\ \A c \in Callers : Since(c) => Fresh(c)
        /\ repair = "done" => cache = newest
        /\ repair = "due" =>
               wanted > 0 \/ \E c \in Callers : Since(c) /\ origin[c] = "refetch"

CacheInv == CacheTypeOK /\ VersionsGrow /\ WatchedEvents /\ RepairedOrUnderWay

\* A step that leaves the cache, the callers and memory alone keeps the
\* invariant when it delivers nothing.
LEMMA CacheStreamStep ==
    ASSUME CacheInv, UNCHANGED materialVars, UNCHANGED channel,
           handled' \subseteq handled
    PROVE  CacheInv'
<1>1. CacheTypeOK' /\ VersionsGrow' /\ WatchedEvents'
  BY DEF CacheInv, materialVars, history, CacheTypeOK, VersionsGrow, WatchedEvents, AtMost
<1>2. RepairedOrUnderWay'
  BY DEF CacheInv, materialVars, history, RepairedOrUnderWay, Announced, LastHandled, Since, Fresh
<1> QED
  BY <1>1, <1>2 DEF CacheInv

LEMMA WatchedEventsAppend ==
    ASSUME CacheInv, NEW new,
           Len(channel) \in Nat, Len(channel') = Len(channel) + 1,
           \A i \in 1 .. Len(channel) : channel'[i] = channel[i],
           channel'[Len(channel) + 1] = new,
           new.session = Watched => new.payload = "material_updated"
    PROVE  WatchedEvents'
BY DEF CacheInv, WatchedEvents

\* A published event of the session is not handled yet, and another one
\* changes nothing of which is its last.
LEMMA CachePublish ==
    ASSUME StreamInv, CacheInv, NEW s \in Sessions, NEW payload \in Payloads,
           PublishEvent(s, payload), s = Watched => payload = "material_updated"
    PROVE  /\ WatchedEvents'
           /\ IF s = Watched THEN ~LastHandled' ELSE LastHandled' => LastHandled
<1> DEFINE new == [session |-> s, payload |-> payload]
<1>1. /\ channel \in Seq([session : Sessions, payload : Payloads])
      /\ new \in [session : Sessions, payload : Payloads]
      /\ channel' = Append(channel, new)
      /\ new.session = s /\ new.payload = payload
      /\ handled' = handled /\ handled \subseteq 1 .. Len(channel)
  BY DEF StreamInv, StreamTypeOK, PublishEvent
<1> HIDE DEF new
<1>2. /\ Len(channel') = Len(channel) + 1 /\ Len(channel) \in Nat
      /\ \A i \in 1 .. Len(channel) : channel'[i] = channel[i]
      /\ channel'[Len(channel) + 1] = new
  BY <1>1
<1>3. CASE s = Watched
  <2>1. \A i \in handled : Len(channel) + 1 \in i + 1 .. Len(channel')
    BY <1>1, <1>2
  <2> QED
    BY <1>1, <1>2, <1>3, <2>1, WatchedEventsAppend DEF LastHandled
<1>4. CASE s # Watched
  <2>1. ASSUME LastHandled' PROVE LastHandled
    <3>1. PICK i \in handled : /\ channel'[i].session = Watched
                               /\ \A j \in i + 1 .. Len(channel') : channel'[j].session # Watched
      BY <1>1, <2>1 DEF LastHandled
    <3>2. i \in 1 .. Len(channel) /\ channel[i].session = Watched
      BY <1>1, <1>2, <3>1
    <3>3. \A j \in i + 1 .. Len(channel) : channel[j].session # Watched
      BY <1>2, <3>1, <3>2
    <3> QED
      BY <3>2, <3>3 DEF LastHandled
  <2> QED
    BY <1>1, <1>2, <1>4, <2>1, WatchedEventsAppend
<1> QED
  BY <1>3, <1>4

LEMMA WriteKeepsCache ==
    ASSUME CacheInv, NEW f \in Files, WriteMemory(f)
    PROVE  CacheInv'
<1>1. CacheTypeOK' /\ AtMost(memory, memory')
  <2>1. memory' \in Versions /\ AtMost(memory, memory')
    <3>1. memory \in Versions
      BY DEF CacheInv, CacheTypeOK
    <3>2. memory' = [p \in 1 .. Parts |-> IF p \in f THEN memory[p] + 1 ELSE memory[p]]
      BY DEF WriteMemory
    <3> QED
      BY <3>1, <3>2 DEF Versions, AtMost
  <2> QED
    BY <2>1 DEF CacheInv, CacheTypeOK, WriteMemory, history
<1>2. VersionsGrow'
  BY <1>1, PartsAssumption DEF CacheInv, CacheTypeOK, VersionsGrow, WriteMemory, AtMost, Versions
<1>3. WatchedEvents' /\ RepairedOrUnderWay'
  BY DEF CacheInv, WriteMemory, streamVars, history, WatchedEvents, RepairedOrUnderWay, Announced,
     LastHandled, Since, Fresh
<1> QED
  BY <1>1, <1>2, <1>3 DEF CacheInv

\* A call that begins has read nothing, so it is fresh; a refetch no longer
\* owed is such a call.
LEMMA BeginKeepsCache ==
    ASSUME CacheInv, NEW c \in Callers, Call(c) \/ EnsureMaterial(c)
    PROVE  CacheInv'
<1>1. /\ UNCHANGED <<channel, handled, memory, cache, rendered, newest, repair>>
      /\ stage[c] = "idle" /\ stage' = [stage EXCEPT ![c] = "reading"]
      /\ wanted' \in Nat
      /\ \E by \in {"call", "refetch"} :
             /\ origin' = [origin EXCEPT ![c] = by]
             /\ by = "call" => wanted' = wanted
  BY DEF Call, EnsureMaterial, Begin, streamVars, CacheInv, CacheTypeOK
<1>2. CacheTypeOK'
  BY <1>1 DEF CacheInv, CacheTypeOK
<1>3. VersionsGrow' /\ WatchedEvents'
  BY <1>1 DEF CacheInv, CacheTypeOK, VersionsGrow, AtMost, WatchedEvents
<1>4. Fresh(c)'
  BY <1>1 DEF CacheInv, CacheTypeOK, VersionsGrow, Fresh
<1>5. \A d \in Callers \ {c} :
          stage'[d] = stage[d] /\ origin'[d] = origin[d] /\ (Since(d)' <=> Since(d)) /\ (Fresh(d) => Fresh(d)')
  BY <1>1 DEF CacheInv, CacheTypeOK, Since, Fresh
<1>6. ~Since(c) /\ Since(c)' /\ (origin'[c] = "refetch" \/ wanted' = wanted)
  BY <1>1 DEF CacheInv, CacheTypeOK, Since
<1>7. Announced' => Announced
  BY <1>1 DEF Announced, LastHandled, CacheInv, CacheTypeOK
<1>8. RepairedOrUnderWay'
  BY <1>1, <1>4, <1>5, <1>6, <1>7 DEF CacheInv, RepairedOrUnderWay
<1> QED
  BY <1>2, <1>3, <1>8 DEF CacheInv

LEMMA ReadKeepsCache ==
    ASSUME CacheInv, NEW c \in Callers, ReadPart(c)
    PROVE  CacheInv'
<1>1. /\ rendered[c] \in Seq(Nat) /\ Len(rendered[c]) \in Nat /\ Len(rendered[c]) + 1 \in 1 .. Parts
      /\ memory[Len(rendered[c]) + 1] \in Nat /\ stage[c] = "reading"
      /\ rendered' = [rendered EXCEPT ![c] = Append(rendered[c], memory[Len(rendered[c]) + 1])]
      /\ UNCHANGED <<channel, handled, memory, cache, stage, newest, wanted, origin, repair>>
  BY PartsAssumption DEF CacheInv, CacheTypeOK, Versions, ReadPart, streamVars, history
<1>2. /\ rendered'[c] \in Seq(Nat) /\ Len(rendered'[c]) = Len(rendered[c]) + 1
      /\ rendered'[c][Len(rendered[c]) + 1] = memory[Len(rendered[c]) + 1]
      /\ \A p \in 1 .. Len(rendered[c]) : rendered'[c][p] = rendered[c][p]
      /\ \A d \in Callers \ {c} : rendered'[d] = rendered[d]
  BY <1>1 DEF CacheInv, CacheTypeOK
<1>3. CacheTypeOK'
  BY <1>1, <1>2 DEF CacheInv, CacheTypeOK
<1>4. VersionsGrow' /\ WatchedEvents'
  <2>1. \A p \in 1 .. Len(rendered'[c]) : rendered'[c][p] <= memory[p]
    BY <1>1, <1>2 DEF CacheInv, VersionsGrow
  <2> QED
    BY <1>1, <1>2, <2>1, PartsAssumption DEF CacheInv, CacheTypeOK, VersionsGrow, AtMost, WatchedEvents
<1>5. \A d \in Callers : Fresh(d) => Fresh(d)'
  <2>1. Fresh(c) => Fresh(c)'
    BY <1>1, <1>2 DEF CacheInv, VersionsGrow, AtMost, Fresh
  <2>2. \A d \in Callers \ {c} : Fresh(d) => Fresh(d)'
    BY <1>1, <1>2 DEF Fresh
  <2> QED
    BY <2>1, <2>2
<1>6. /\ Announced' => Announced
      /\ \A d \in Callers : Since(d)' <=> Since(d)
  BY <1>1 DEF Announced, LastHandled, Since
<1> QED
  BY <1>1, <1>3, <1>4, <1>5, <1>6 DEF CacheInv, RepairedOrUnderWay

\* A call that fails leaves the cache alone; a refetch that fails is lost.
LEMMA FailKeepsCache ==
    ASSUME CacheInv, NEW c \in Callers, CallFails(c)
    PROVE  CacheInv'
<1>1. /\ UNCHANGED <<channel, handled, memory, cache, newest, wanted>>
      /\ stage[c] = "reading" /\ stage' = [stage EXCEPT ![c] = "idle"]
      /\ rendered' = [rendered EXCEPT ![c] = <<>>]
      /\ origin' = [origin EXCEPT ![c] = "before"]
      /\ repair' = IF origin[c] = "refetch" THEN Lost ELSE repair
  BY DEF CallFails, streamVars
<1>2. CacheTypeOK'
  BY <1>1 DEF CacheInv, CacheTypeOK, Lost
<1>3. VersionsGrow' /\ WatchedEvents'
  BY <1>1, PartsAssumption DEF CacheInv, CacheTypeOK, VersionsGrow, AtMost, WatchedEvents
<1>4. \A d \in Callers \ {c} :
          stage'[d] = stage[d] /\ origin'[d] = origin[d] /\ (Since(d)' <=> Since(d)) /\ (Fresh(d) => Fresh(d)')
  BY <1>1 DEF CacheInv, CacheTypeOK, Since, Fresh
<1>5. ~Since(c)' /\ (repair' = repair \/ repair' = "lost") /\ (repair' = "due" => origin[c] # "refetch")
  BY <1>1 DEF CacheInv, CacheTypeOK, Since, Lost
<1>6. Announced' => Announced
  BY <1>1 DEF Announced, LastHandled, CacheInv, CacheTypeOK
<1>7. RepairedOrUnderWay'
  BY <1>1, <1>4, <1>5, <1>6 DEF CacheInv, RepairedOrUnderWay
<1> QED
  BY <1>2, <1>3, <1>7 DEF CacheInv

LEMMA LossKeepsCache ==
    ASSUME CacheInv, RefetchLost
    PROVE  CacheInv'
<1>1. /\ UNCHANGED <<channel, handled, memory, cache, stage, rendered, newest, origin>>
      /\ wanted' \in Nat
      /\ repair' # "due" /\ (repair' = repair \/ repair' = "lost")
      /\ repair' \in {"due", "done", "lost"}
  BY DEF RefetchLost, Lost, streamVars, CacheInv, CacheTypeOK
<1>2. CacheTypeOK' /\ VersionsGrow' /\ WatchedEvents'
  BY <1>1 DEF CacheInv, CacheTypeOK, VersionsGrow, AtMost, WatchedEvents
<1>3. RepairedOrUnderWay'
  BY <1>1 DEF CacheInv, RepairedOrUnderWay, Announced, LastHandled, Since, Fresh
<1> QED
  BY <1>2, <1>3 DEF CacheInv

LEMMA SameVersions ==
    ASSUME NEW f \in Versions, NEW g \in Versions, \A p \in 1 .. Parts : f[p] = g[p]
    PROVE  f = g
<1>1. f = [p \in 1 .. Parts |-> f[p]] /\ g = [p \in 1 .. Parts |-> g[p]]
  BY DEF Versions
<1>2. [p \in 1 .. Parts |-> f[p]] = [p \in 1 .. Parts |-> g[p]]
  BY Zenon
<1> QED
  BY <1>1, <1>2

\* Newer is the least upper bound.
LEMMA NewerIsLeast ==
    ASSUME NEW a \in Versions, NEW b \in Versions
    PROVE  /\ Newer(a, b) \in Versions
           /\ AtMost(a, Newer(a, b)) /\ AtMost(b, Newer(a, b))
           /\ \A c \in Versions : AtMost(a, c) /\ AtMost(b, c) => AtMost(Newer(a, b), c)
           /\ AtMost(b, a) => Newer(a, b) = a
           /\ AtMost(a, b) => Newer(a, b) = b
<1> USE DEF Versions
<1>1. \A p \in 1 .. Parts : Newer(a, b)[p] = IF a[p] >= b[p] THEN a[p] ELSE b[p]
  BY DEF Newer
<1>2. Newer(a, b) \in Versions
  BY DEF Newer
<1>3. AtMost(a, Newer(a, b)) /\ AtMost(b, Newer(a, b))
  BY <1>1 DEF AtMost
<1>4. \A c \in Versions : AtMost(a, c) /\ AtMost(b, c) => AtMost(Newer(a, b), c)
  BY <1>1 DEF AtMost
<1>5. ASSUME AtMost(b, a) PROVE Newer(a, b) = a
  <2>1. \A p \in 1 .. Parts : Newer(a, b)[p] = a[p]
    BY <1>1, <1>5 DEF AtMost
  <2> QED
    BY <1>2, <2>1, SameVersions
<1>6. ASSUME AtMost(a, b) PROVE Newer(a, b) = b
  <2>1. \A p \in 1 .. Parts : Newer(a, b)[p] = b[p]
    BY <1>1, <1>6 DEF AtMost
  <2> QED
    BY <1>2, <2>1, SameVersions
<1> QED
  BY <1>2, <1>3, <1>4, <1>5, <1>6

\* Another text leaves an insertion to be announced; the same text leaves the
\* cache and what is newest as they were, unless it is itself the newest.
LEMMA LookupKeepsCache ==
    ASSUME CacheInv, NEW c \in Callers, Lookup(c)
    PROVE  CacheInv'
<1> DEFINE text == rendered[c]
<1>1. /\ text \in Versions /\ AtMost(text, memory)
      /\ stage[c] = "reading" /\ cache' = text /\ newest' = Newer(newest, text)
      /\ rendered' = [rendered EXCEPT ![c] = <<>>]
      /\ stage' = [stage EXCEPT ![c] = IF cache = text THEN "idle" ELSE "inserted"]
      /\ UNCHANGED <<channel, handled, memory, wanted>>
      /\ origin' = [origin EXCEPT ![c] = "before"]
      /\ repair' = IF origin[c] = "before" THEN repair ELSE "done"
  <2>1. text \in Seq(Nat) /\ Len(text) = Parts
    BY DEF CacheInv, CacheTypeOK, Lookup, Returns
  <2>2. text \in Versions
    BY <2>1, PartsAssumption DEF Versions
  <2>3. AtMost(text, memory)
    BY <2>1 DEF CacheInv, VersionsGrow, AtMost
  <2> QED
    BY <2>2, <2>3 DEF Lookup, Returns, streamVars
<1>a. newest \in Versions /\ memory \in Versions /\ AtMost(newest, memory)
  BY DEF CacheInv, CacheTypeOK, VersionsGrow
<1>2. /\ newest' \in Versions /\ AtMost(newest, newest') /\ AtMost(text, newest')
      /\ AtMost(newest', memory)
  BY <1>1, <1>a, NewerIsLeast
<1>3. AtMost(text, newest) => newest' = newest
  BY <1>1, <1>a, NewerIsLeast
<1>4. AtMost(newest, text) => newest' = text
  BY <1>1, <1>a, NewerIsLeast
<1>5. /\ rendered'[c] = <<>> /\ Len(rendered'[c]) = 0
      /\ \A d \in Callers \ {c} :
             rendered'[d] = rendered[d] /\ stage'[d] = stage[d] /\ origin'[d] = origin[d]
      /\ stage'[c] = IF cache = text THEN "idle" ELSE "inserted"
  BY <1>1 DEF CacheInv, CacheTypeOK
<1>6. Len(text) = Parts
  BY DEF Lookup, Returns
<1>7. CacheTypeOK'
  BY <1>1, <1>2 DEF CacheInv, CacheTypeOK
<1> HIDE DEF text
<1>8. VersionsGrow' /\ WatchedEvents'
  <2>1. AtMost(newest, memory)' /\ (cache # <<>> => AtMost(cache, newest))'
    BY <1>1, <1>2 DEF AtMost
  <2>2. \A d \in Callers :
           /\ Len(rendered'[d]) <= Parts
           /\ stage'[d] # "reading" => rendered'[d] = <<>>
           /\ \A p \in 1 .. Len(rendered'[d]) : rendered'[d][p] <= memory'[p]
    BY <1>1, <1>5, PartsAssumption DEF CacheInv, VersionsGrow
  <2> QED
    BY <1>1, <2>1, <2>2 DEF VersionsGrow, CacheInv, WatchedEvents
<1>9. RepairedOrUnderWay'
  <2>1. CASE cache # text
    BY <1>5, <2>1 DEF RepairedOrUnderWay, Announced
  <2>2. CASE cache = text
    <3>1. AtMost(text, newest)
      <4>1. cache # <<>>
        BY <2>2, <1>6, PartsAssumption
      <4> QED
        BY <2>2, <4>1 DEF CacheInv, VersionsGrow
    <3>2. newest' = newest /\ cache' = cache
      BY <1>1, <1>3, <2>2, <3>1
    <3>3. Announced' => Announced
      BY <1>1, <1>5, <2>2 DEF Announced, LastHandled
    <3>4. Fresh(c) => cache' = newest'
      BY <1>1, <1>4, <1>6 DEF Fresh, AtMost, text
    <3>5. \A d \in Callers \ {c} : (Since(d)' <=> Since(d)) /\ (Fresh(d) => Fresh(d)')
      BY <1>5, <3>2 DEF Since, Fresh
    <3>6. /\ ~Since(c)'
          /\ repair' = IF Since(c) THEN "done" ELSE repair
          /\ ~Since(c) => origin[c] = "before"
      BY <1>1, <1>5, <2>2 DEF Since
    <3>7. CASE Since(c)
      BY <3>3, <3>4, <3>5, <3>6, <3>7 DEF CacheInv, RepairedOrUnderWay
    <3>8. CASE ~Since(c)
      BY <1>1, <1>5, <3>2, <3>3, <3>5, <3>6, <3>8 DEF CacheInv, RepairedOrUnderWay
    <3> QED
      BY <3>7, <3>8
  <2> QED
    BY <2>1, <2>2
<1> QED
  BY <1>7, <1>8, <1>9 DEF CacheInv

LEMMA AnnounceKeepsCache ==
    ASSUME StreamInv, CacheInv, NEW c \in Callers, Announce(c)
    PROVE  CacheInv'
<1>1. WatchedEvents' /\ ~LastHandled'
  BY CachePublish, WatchedAssumption DEF Announce
<1>2. CacheTypeOK'
  BY DEF CacheInv, CacheTypeOK, Announce, history
<1>3. VersionsGrow'
  BY DEF CacheInv, CacheTypeOK, VersionsGrow, AtMost, Announce
<1> QED
  BY <1>1, <1>2, <1>3 DEF CacheInv, RepairedOrUnderWay, Announced

LEMMA OtherKeepsCache ==
    ASSUME StreamInv, CacheInv, NEW s \in Sessions, OtherEvent(s)
    PROVE  CacheInv'
<1>1. WatchedEvents' /\ (LastHandled' => LastHandled)
  BY CachePublish, WatchedAssumption DEF OtherEvent
<1>2. UNCHANGED <<memory, cache, stage, rendered, wanted, newest, origin, repair>>
  BY DEF OtherEvent, history
<1>3. CacheTypeOK' /\ VersionsGrow'
  BY <1>2 DEF CacheInv, CacheTypeOK, VersionsGrow, AtMost
<1>4. RepairedOrUnderWay'
  BY <1>1, <1>2 DEF CacheInv, RepairedOrUnderWay, Announced, Since, Fresh
<1> QED
  BY <1>1, <1>3, <1>4 DEF CacheInv

\* Handling an event of the session owes a refetch, and no call has begun since.
LEMMA UpdatedKeepsCache ==
    ASSUME StreamInv, CacheInv, MaterialUpdated
    PROVE  CacheInv'
<1>1. /\ next \in 1 .. Len(channel) /\ handled' = handled \cup {next}
      /\ UNCHANGED <<channel, memory, cache, stage, rendered, newest>>
      /\ channel[next].session = source
      /\ wanted \in Nat
      /\ IF channel[next].payload = "material_updated"
         THEN wanted' = wanted + 1 /\ origin' = [c \in Callers |-> "before"] /\ repair' = "due"
         ELSE UNCHANGED <<wanted, origin, repair>>
  BY DEF StreamInv, StreamTypeOK, MaterialUpdated, Receive, Readable, CacheInv, CacheTypeOK, history
<1>2. CacheTypeOK' /\ VersionsGrow' /\ WatchedEvents'
  BY <1>1 DEF CacheInv, CacheTypeOK, VersionsGrow, AtMost, WatchedEvents
<1>3. RepairedOrUnderWay'
  <2>1. CASE channel[next].payload = "material_updated"
    BY <1>1, <2>1 DEF RepairedOrUnderWay, Since
  <2>2. CASE channel[next].payload # "material_updated"
    <3>1. channel[next].session # Watched
      BY <1>1, <2>2 DEF CacheInv, WatchedEvents
    <3>2. LastHandled' => LastHandled
      BY <1>1, <3>1 DEF LastHandled
    <3> QED
      BY <1>1, <2>2, <3>2 DEF CacheInv, RepairedOrUnderWay, Announced, Since, Fresh
  <2> QED
    BY <2>1, <2>2
<1> QED
  BY <1>2, <1>3 DEF CacheInv

LEMMA StreamOnlyKeepsCache ==
    ASSUME StreamInv, CacheInv,
           (\E s \in Sessions : OpenSession(s)) \/ LeaveSession \/ (Network /\ UNCHANGED materialVars)
    PROVE  CacheInv'
<1>1. UNCHANGED materialVars /\ UNCHANGED channel
  BY DEF OpenSession, LeaveSession, Network, Accept, Refuse, Break, Lag, Skip
<1>2. ASSUME NEW s \in Sessions, OpenSession(s) PROVE handled' \subseteq handled
  BY <1>2 DEF OpenSession, ConnectSessionEvents
<1>3. LeaveSession => handled' \subseteq handled
  BY DEF LeaveSession, CloseSessionEvents
<1>4. Network => handled' \subseteq handled
  BY DEF Network, Accept, Refuse, Break, Lag, Skip
<1> QED
  BY <1>1, <1>2, <1>3, <1>4, CacheStreamStep

LEMMA CacheStep ==
    ASSUME StreamInv, CacheInv, [Next]_<<streamVars, materialVars>>
    PROVE  CacheInv'
<1>1. CASE UNCHANGED <<streamVars, materialVars>>
  BY <1>1, CacheStreamStep DEF streamVars
<1>2. CASE Next
  BY <1>2, WriteKeepsCache, BeginKeepsCache, ReadKeepsCache, FailKeepsCache, LossKeepsCache, LookupKeepsCache,
     AnnounceKeepsCache, OtherKeepsCache, UpdatedKeepsCache, StreamOnlyKeepsCache DEF Next
<1> QED
  BY <1>1, <1>2

LEMMA CacheStart ==
    ASSUME Init
    PROVE  CacheInv
<1>1. CacheTypeOK /\ VersionsGrow
  BY PartsAssumption DEF Init, CacheTypeOK, Versions, VersionsGrow, AtMost
<1>2. WatchedEvents /\ RepairedOrUnderWay
  BY DEF Init, StreamInit, WatchedEvents, RepairedOrUnderWay, Announced, LastHandled
<1> QED
  BY <1>1, <1>2 DEF CacheInv

\* However many calls race and fail and however many files are written: when
\* nothing is under way and the client has acted on the session's last event,
\* no part of the cached text is older than what some call already used, save
\* when a refetch since that event was lost and no call since it succeeded.
THEOREM CacheRepairsItself == Spec => []QuietCacheIsNewest
<1>1. StreamInv /\ CacheInv /\ [Next]_<<streamVars, materialVars>> => CacheInv'
  BY CacheStep
<1>2. CacheInv => QuietCacheIsNewest
  BY DEF CacheInv, CacheTypeOK, RepairedOrUnderWay, Announced, Since, QuietCacheIsNewest, Quiet
<1> QED
  BY <1>1, <1>2, CacheStart, MaterialStreamInv, PTL DEF Spec
=============================================================================
