--------------------------- MODULE MaterialCache ---------------------------
(***************************************************************************)
(* SantiService::system_prompt_material (service/materials.rs) and the     *)
(* client that refetches on material_updated (mqueue's ensureMaterial).    *)
(*                                                                         *)
(* The text is rendered from memory files before the cache lock is taken,  *)
(* reads of one rendering are not atomic against writers, and the event of *)
(* an insertion is sent after the lock is released, so any of this can     *)
(* interleave: an older text can overwrite a newer one, and a text can mix *)
(* an old file with a new one.  A call may fail before it touches the      *)
(* cache, and a refetch may be lost on its way: neither is tried again.    *)
(***************************************************************************)
EXTENDS EventStream

CONSTANTS
    Callers,      \* calls of system_prompt_material that can be under way at once
    Watched,      \* the session whose material is cached
    Parts,        \* how many reads a rendering takes
    Files,        \* for each memory file, the parts of the text it gives
    MaxWrites,    \* bound: writes of each file
    MaxNoise      \* bound: events of other sessions

VARIABLES
    memory,       \* version of each part of the text now
    cache,        \* the cached text, or <<>>
    stage,        \* idle, reading, inserted: where a call is
    rendered,     \* the parts a call has read
    wanted,       \* material_updated events whose refetch has not begun
    newest,       \* history: for each part, the newest version a finished call used
    origin,       \* history: what began a call since the last material_updated
    repair,       \* history: due, done or lost since the last material_updated
    noise         \* history: events of other sessions so far

history == <<origin, repair>>
materialVars == <<memory, cache, stage, rendered, wanted, newest, noise, history>>

ASSUME WatchedAssumption ==
    Watched \in Sessions /\ {"material_updated", "other"} \subseteq Payloads

\* render_system_prompt reads of the soul's memory file and then of the
\* session's the content and then the modification time: four parts.
ASSUME PartsAssumption == Parts \in Nat \ {0} /\ UNION Files = 1 .. Parts

Newer(a, b) == [p \in 1 .. Parts |-> IF a[p] >= b[p] THEN a[p] ELSE b[p]]

\* The user, or a tool call of a turn, writes a file.
WriteMemory(f) ==
    /\ \A p \in f : memory[p] < MaxWrites
    /\ memory' = [p \in 1 .. Parts |-> IF p \in f THEN memory[p] + 1 ELSE memory[p]]
    /\ UNCHANGED <<streamVars, cache, stage, rendered, wanted, newest, noise, history>>

(***************************************************************************)
(* system_prompt_material                                                  *)
(***************************************************************************)
Begin(c, by) ==
    /\ stage[c] = "idle"
    /\ stage' = [stage EXCEPT ![c] = "reading"]
    /\ origin' = [origin EXCEPT ![c] = by]

\* A round of a turn, or a request of any client.
Call(c) ==
    /\ Begin(c, "call")
    /\ UNCHANGED <<streamVars, memory, cache, rendered, wanted, newest, noise, repair>>

\* read_memory_material, one part at a time.
ReadPart(c) ==
    /\ stage[c] = "reading"
    /\ Len(rendered[c]) < Parts
    /\ rendered' = [rendered EXCEPT ![c] = Append(@, memory[Len(@) + 1])]
    /\ UNCHANGED <<streamVars, memory, cache, stage, wanted, newest, noise, history>>

\* A refetch came to nothing; another call may have made up for it.
Lost == IF repair = "due" THEN "lost" ELSE repair

\* No session or soul, or a file that cannot be read, though it is there.
CallFails(c) ==
    /\ stage[c] = "reading"
    /\ Len(rendered[c]) < Parts
    /\ stage' = [stage EXCEPT ![c] = "idle"]
    /\ rendered' = [rendered EXCEPT ![c] = <<>>]
    /\ origin' = [origin EXCEPT ![c] = "before"]
    /\ repair' = IF origin[c] = "refetch" THEN Lost ELSE repair
    /\ UNCHANGED <<streamVars, memory, cache, wanted, newest, noise>>

\* The text is whole; the call will return it.
Returns(c) ==
    /\ stage[c] = "reading"
    /\ Len(rendered[c]) = Parts
    /\ cache' = rendered[c]
    /\ newest' = Newer(newest, rendered[c])
    /\ rendered' = [rendered EXCEPT ![c] = <<>>]
    /\ origin' = [origin EXCEPT ![c] = "before"]
    /\ repair' = IF origin[c] = "before" THEN repair ELSE "done"

\* Only the first text of a session is announced.
LookupAnnounceFirst(c) ==
    /\ Returns(c)
    /\ stage' = [stage EXCEPT ![c] = IF cache = <<>> THEN "inserted" ELSE "idle"]
    /\ UNCHANGED <<streamVars, memory, wanted, noise>>

\* Under the lock: the same text is returned as it is, another is inserted.
Lookup(c) ==
    /\ Returns(c)
    /\ stage' = [stage EXCEPT ![c] = IF cache = rendered[c] THEN "idle" ELSE "inserted"]
    /\ UNCHANGED <<streamVars, memory, wanted, noise>>

\* The lock is released before the event is sent.
Announce(c) ==
    /\ stage[c] = "inserted"
    /\ PublishEvent(Watched, "material_updated")
    /\ stage' = [stage EXCEPT ![c] = "idle"]
    /\ UNCHANGED <<memory, cache, rendered, wanted, newest, noise, history>>

(***************************************************************************)
(* The client                                                              *)
(***************************************************************************)
OpenSession(s) ==
    /\ ConnectSessionEvents(s)
    /\ UNCHANGED <<channel, materialVars>>

LeaveSession ==
    /\ source # NoSession
    /\ CloseSessionEvents
    /\ UNCHANGED <<channel, materialVars>>

\* materialUpdated: void ensureMaterial(...), a request of its own per event.
MaterialUpdated ==
    /\ Receive
    /\ IF channel[next].payload = "material_updated"
       THEN /\ wanted' = wanted + 1
            /\ origin' = [c \in Callers |-> "before"]
            /\ repair' = "due"
       ELSE UNCHANGED <<wanted, history>>
    /\ UNCHANGED <<memory, cache, stage, rendered, newest, noise>>

\* ensureMaterial's POST reaches the server.
EnsureMaterial(c) ==
    /\ wanted > 0
    /\ Begin(c, "refetch")
    /\ wanted' = wanted - 1
    /\ UNCHANGED <<streamVars, memory, cache, rendered, newest, noise, repair>>

\* It does not: the promise nobody waits for is rejected, and that is all.
RefetchLost ==
    /\ wanted > 0
    /\ wanted' = wanted - 1
    /\ repair' = Lost
    /\ UNCHANGED <<streamVars, memory, cache, stage, rendered, newest, noise, origin>>

\* Traffic of the other sessions on the same channel.
OtherEvent(s) ==
    /\ s # Watched
    /\ noise < MaxNoise
    /\ noise' = noise + 1
    /\ PublishEvent(s, "other")
    /\ UNCHANGED <<memory, cache, stage, rendered, wanted, newest, history>>

-----------------------------------------------------------------------------
Init ==
    /\ StreamInit
    /\ memory = [p \in 1 .. Parts |-> 0]
    /\ cache = <<>>
    /\ stage = [c \in Callers |-> "idle"]
    /\ rendered = [c \in Callers |-> <<>>]
    /\ wanted = 0
    /\ newest = [p \in 1 .. Parts |-> 0]
    /\ origin = [c \in Callers |-> "before"]
    /\ repair = "done"
    /\ noise = 0

Next ==
    \/ \E f \in Files : WriteMemory(f)
    \/ \E c \in Callers :
           \/ Call(c)
           \/ ReadPart(c)
           \/ CallFails(c)
           \/ Lookup(c)
           \/ Announce(c)
           \/ EnsureMaterial(c)
    \/ \E s \in Sessions : OpenSession(s) \/ OtherEvent(s)
    \/ LeaveSession
    \/ MaterialUpdated
    \/ RefetchLost
    \/ Network /\ UNCHANGED materialVars

Spec == Init /\ [][Next]_<<streamVars, materialVars>>

-----------------------------------------------------------------------------
(***************************************************************************)
(* Properties                                                              *)
(***************************************************************************)
\* The client has been handed the last event of the session.
LastHandled ==
    \E i \in handled :
        /\ channel[i].session = Watched
        /\ \A j \in i + 1 .. Sent : channel[j].session # Watched

Quiet ==
    /\ \A c \in Callers : stage[c] = "idle"
    /\ wanted = 0
    /\ LastHandled

\* The races repair themselves while a client listens: when no call is under
\* way and the client has acted on the last event of the session, the cache
\* holds no text older, in any part, than one that was already used.  The
\* one way out is a refetch lost after that event, with no call since that
\* succeeded: failures of other calls and of earlier refetches do no harm.
QuietCacheIsNewest == Quiet /\ repair # "lost" => cache = newest
=============================================================================
