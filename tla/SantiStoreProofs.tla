-------------------------- MODULE SantiStoreProofs --------------------------
(***************************************************************************)
(* Proofs about SantiStore, for any sets of sessions, messages, turns,     *)
(* spans, calls and titles.                                                *)
(*                                                                         *)
(* The inductive invariant StoreInv is the type invariant with the two     *)
(* numberings, the turns' windows, and the two facts they lean on: rows    *)
(* name messages that exist, and log entries name soul sessions that       *)
(* exist.  Type correctness alone is not inductive: that NextSessionSeq    *)
(* is a number needs the numbers used so far to have a maximum, which is   *)
(* what SessionLogDense says; that complete_turn writes a number needs the *)
(* turn's soul session to exist, which is what TurnWindow says.            *)
(*                                                                         *)
(* An action lemma first reduces StoreNext to what it does to one group of *)
(* tables; each part of the invariant is then proved from that effect.     *)
(***************************************************************************)
EXTENDS SantiStore, TLAPS

\* Every row of r_session_messages joins a message (message_by_id's JOIN).
RowsKnown == \A row \in r_session_messages : row.message \in DOMAIN messages

\* Every entry belongs to a soul session that exists.
EntriesRooted == \A e \in r_soul_session_messages : e.session \in DOMAIN soul_sessions

StoreInv ==
    /\ StoreTypeOK
    /\ SessionLogDense
    /\ RowsKnown
    /\ SoulLogDense
    /\ EntriesRooted
    /\ TurnWindow

-----------------------------------------------------------------------------
(***************************************************************************)
(* Operators                                                               *)
(***************************************************************************)
\* Reading MAX over a dense numbering gives its length.
LEMMA MaxOfLog ==
    ASSUME NEW n \in Nat
    PROVE  Max({0} \cup (1 .. n)) = n
<1> DEFINE S == {0} \cup (1 .. n)
<1>1. n \in S /\ \A y \in S : n >= y
  OBVIOUS
<1>2. \A x \in S : (\A y \in S : x >= y) => x = n
  BY <1>1
<1> QED
  BY <1>1, <1>2 DEF Max

\* INSERT adds one row and leaves the others as they were.
LEMMA InsertType ==
    ASSUME NEW T, NEW S, T \in [DOMAIN T -> S], NEW id, NEW row \in S
    PROVE  /\ Insert(T, id, row) \in [DOMAIN Insert(T, id, row) -> S]
           /\ DOMAIN Insert(T, id, row) = DOMAIN T \cup {id}
           /\ \A x \in DOMAIN T \cup {id} :
                  Insert(T, id, row)[x] = IF x = id THEN row ELSE T[x]
  BY DEF Insert

\* A row added to a relation adds its number to its session's, and to no other.
LEMMA SeqsOfAdded ==
    ASSUME NEW rows, NEW row, NEW s
    PROVE  SeqsOf(rows \cup {row}, s) =
               IF row.session = s THEN SeqsOf(rows, s) \cup {row.seq} ELSE SeqsOf(rows, s)
  BY DEF SeqsOf

\* In a dense log MAX + 1 is the first number that is free.
LEMMA NextSeqIsFree ==
    ASSUME NEW s \in Sessions, SessionLogDense,
           r_session_messages \subseteq
               [session : Sessions, message : Messages, seq : Nat \ {0}]
    PROVE  /\ NextSessionSeq(s) \in Nat \ {0}
           /\ SessionSeqs(s) = 1 .. NextSessionSeq(s) - 1
<1>1. SessionSeqs(s) \subseteq Nat
  BY DEF SessionSeqs, SeqsOf
<1>2. PICK n \in {0} \cup SessionSeqs(s) : SessionSeqs(s) = 1 .. n
  BY DEF SessionLogDense
<1>3. n \in Nat
  BY <1>1, <1>2
<1>4. Max({0} \cup SessionSeqs(s)) = n
  BY <1>2, <1>3, MaxOfLog
<1> QED
  BY <1>2, <1>3, <1>4 DEF NextSessionSeq

-----------------------------------------------------------------------------
(***************************************************************************)
(* What a step does to the session tables                                  *)
(***************************************************************************)
SessionTables == <<sessions, messages, r_session_messages>>

SessionEffect ==
    \/ UNCHANGED SessionTables
    \/ \E s \in Sessions : CreateSession(s)
    \/ \E s \in Sessions, title \in Titles \cup {"none"} : UpdateSessionTitle(s, title)
    \/ \E s \in Sessions, m \in Messages, row \in MessageRow :
           AppendMessage(s, m, row.actor, row.state)

LEMMA SessionStepEffect ==
    ASSUME [StoreNext]_storeVars
    PROVE  SessionEffect
<1>1. CASE UNCHANGED storeVars
  BY <1>1 DEF storeVars, SessionEffect, SessionTables
<1>2. CASE SessionStep
  BY <1>2 DEF SessionStep, SessionEffect, SessionTables, AcquireSoulSession
<1>3. CASE MessageStep
  BY <1>3 DEF MessageStep, SessionEffect, SessionTables, AppendedRows, AppendMessageRef
<1>4. CASE TurnStep
  BY <1>4 DEF TurnStep, SessionEffect, SessionTables, StartTurn,
              CompleteTurnFirstUpdate, CompleteTurn, FailTurn,
              FinishFailedTurnFirstUpdate, FinishFailedTurnContext
<1>5. CASE RuntimeStep
  BY <1>5 DEF RuntimeStep, SessionEffect, SessionTables, AppendThinkingSpan,
              UpdateThinkingSpanSummary, FinishThinkingSpan, AppendToolCall,
              AppendToolResult
<1> QED
  BY <1>1, <1>2, <1>3, <1>4, <1>5 DEF StoreNext

SessionTypeOK ==
    /\ sessions \in [DOMAIN sessions -> SessionTitles]
    /\ messages \in [DOMAIN messages -> MessageRow]
    /\ r_session_messages \subseteq
           [session : Sessions, message : Messages, seq : Nat \ {0}]
    /\ DOMAIN sessions \subseteq Sessions
    /\ DOMAIN messages \subseteq Messages

LEMMA SessionTypeStep ==
    ASSUME SessionTypeOK, SessionLogDense, SessionEffect
    PROVE  SessionTypeOK'
<1>1. CASE UNCHANGED SessionTables
  BY <1>1 DEF SessionTables, SessionTypeOK
<1>2. CASE \E s \in Sessions : CreateSession(s)
  <2>1. PICK s \in Sessions : CreateSession(s)
    BY <1>2
  <2>2. "none" \in SessionTitles
    BY DEF SessionTitles
  <2> QED
    BY <2>1, <2>2 DEF SessionTypeOK, CreateSession, Insert
<1>3. CASE \E s \in Sessions, title \in Titles \cup {"none"} : UpdateSessionTitle(s, title)
  <2>1. PICK s \in Sessions, title \in Titles \cup {"none"} : UpdateSessionTitle(s, title)
    BY <1>3
  <2>2. title \in SessionTitles
    BY DEF SessionTitles
  <2> QED
    BY <2>1, <2>2 DEF SessionTypeOK, UpdateSessionTitle
<1>4. CASE \E s \in Sessions, m \in Messages, row \in MessageRow :
               AppendMessage(s, m, row.actor, row.state)
  <2>1. PICK s \in Sessions, m \in Messages, row \in MessageRow :
            AppendMessage(s, m, row.actor, row.state)
    BY <1>4
  <2>2. NextSessionSeq(s) \in Nat \ {0}
    BY NextSeqIsFree DEF SessionTypeOK
  <2>3. messages' = Insert(messages, m, [actor |-> row.actor, state |-> row.state])
    BY <2>1 DEF AppendMessage
  <2>4. [actor |-> row.actor, state |-> row.state] \in MessageRow
    BY DEF MessageRow
  <2>5. messages' \in [DOMAIN messages' -> MessageRow] /\ DOMAIN messages' \subseteq Messages
    <3>1. messages' = [x \in DOMAIN messages \cup {m} |->
                           IF x = m THEN [actor |-> row.actor, state |-> row.state]
                           ELSE messages[x]]
      BY <2>3 DEF Insert
    <3>2. DOMAIN messages' = DOMAIN messages \cup {m}
      BY <3>1
    <3>3. \A x \in DOMAIN messages' : messages'[x] \in MessageRow
      BY <2>4, <3>1, <3>2 DEF SessionTypeOK
    <3>4. messages' \in [DOMAIN messages' -> MessageRow]
      BY <3>1, <3>2, <3>3
    <3>5. DOMAIN messages' \subseteq Messages
      BY <3>2 DEF SessionTypeOK
    <3> QED
      BY <3>4, <3>5
  <2>6. "first message" \in SessionTitles
    BY DEF SessionTitles
  <2>7. sessions' \in [DOMAIN sessions' -> SessionTitles] /\ DOMAIN sessions' \subseteq Sessions
    <3>1. sessions' = sessions \/ sessions' = [sessions EXCEPT ![s] = "first message"]
      BY <2>1 DEF AppendMessage
    <3> QED
      BY <2>6, <3>1 DEF SessionTypeOK
  <2>8. r_session_messages' \subseteq
            [session : Sessions, message : Messages, seq : Nat \ {0}]
    <3>1. r_session_messages' = r_session_messages \cup
              {[session |-> s, message |-> m, seq |-> NextSessionSeq(s)]}
      BY <2>1 DEF AppendMessage
    <3> QED
      BY <2>2, <3>1 DEF SessionTypeOK
  <2> QED
    BY <2>5, <2>7, <2>8 DEF SessionTypeOK
<1> QED
  BY <1>1, <1>2, <1>3, <1>4 DEF SessionEffect

LEMMA SessionLogStep ==
    ASSUME SessionTypeOK, SessionLogDense, RowsKnown, SessionEffect
    PROVE  SessionLogDense' /\ RowsKnown'
<1>1. CASE UNCHANGED SessionTables
  BY <1>1 DEF SessionTables, SessionLogDense, RowsKnown, SessionSeqs, SeqsOf
<1>2. CASE \E s \in Sessions : CreateSession(s)
  BY <1>2 DEF CreateSession, SessionLogDense, RowsKnown, SessionSeqs, SeqsOf
<1>3. CASE \E s \in Sessions, title \in Titles \cup {"none"} : UpdateSessionTitle(s, title)
  BY <1>3 DEF UpdateSessionTitle, SessionLogDense, RowsKnown, SessionSeqs, SeqsOf
<1>4. CASE \E s \in Sessions, m \in Messages, row \in MessageRow :
               AppendMessage(s, m, row.actor, row.state)
  <2>1. PICK s \in Sessions, m \in Messages, row \in MessageRow :
            AppendMessage(s, m, row.actor, row.state)
    BY <1>4
  <2> DEFINE n   == NextSessionSeq(s)
             new == [session |-> s, message |-> m, seq |-> n]
  <2>2. n \in Nat \ {0} /\ SessionSeqs(s) = 1 .. n - 1
    BY NextSeqIsFree DEF SessionTypeOK
  <2>3. r_session_messages' = r_session_messages \cup {new}
    BY <2>1 DEF AppendMessage
  <2>4. m \notin DOMAIN messages /\ DOMAIN messages' = DOMAIN messages \cup {m}
    BY <2>1 DEF AppendMessage, Insert
  <2> HIDE DEF n
  <2>5. RowsKnown'
    BY <2>3, <2>4 DEF RowsKnown
  <2>6. \A r \in Sessions :
            SessionSeqs(r)' = IF r = s THEN SessionSeqs(r) \cup {n} ELSE SessionSeqs(r)
    <3>1. new.session = s /\ new.seq = n
      OBVIOUS
    <3> HIDE DEF new
    <3>2. TAKE r \in Sessions
    <3>3. SeqsOf(r_session_messages \cup {new}, r) =
              IF new.session = r THEN SeqsOf(r_session_messages, r) \cup {new.seq}
              ELSE SeqsOf(r_session_messages, r)
      BY SeqsOfAdded
    <3> QED
      BY <2>3, <3>1, <3>3 DEF SessionSeqs
  <2>7. ASSUME NEW r \in Sessions
        PROVE  (\E k \in {0} \cup SessionSeqs(r) : SessionSeqs(r) = 1 .. k)'
    <3>1. CASE r = s
      <4>0. (1 .. n - 1) \cup {n} = 1 .. n
        BY <2>2
      <4>1. SessionSeqs(r)' = 1 .. n
        BY <2>2, <2>6, <3>1, <4>0
      <4>2. n \in SessionSeqs(r)'
        BY <2>2, <4>1
      <4> QED
        BY <4>1, <4>2
    <3>2. CASE r # s
      BY <2>6, <3>2 DEF SessionLogDense
    <3> QED
      BY <3>1, <3>2
  <2>8. \A a \in r_session_messages :
            /\ a.message # m
            /\ a.session = s => a.seq # n
    BY <2>2, <2>4 DEF RowsKnown, SessionSeqs, SeqsOf
  <2>9. ASSUME NEW a \in r_session_messages', NEW b \in r_session_messages',
               a.message = b.message \/ (a.session = b.session /\ a.seq = b.seq)
        PROVE  a = b
    <3>1. CASE a \in r_session_messages /\ b \in r_session_messages
      BY <2>9, <3>1 DEF SessionLogDense
    <3>2. CASE a = new /\ b = new
      BY <3>2
    <3>3. CASE (a = new /\ b \in r_session_messages) \/ (b = new /\ a \in r_session_messages)
      BY <2>8, <2>9, <3>3
    <3> QED
      BY <2>3, <3>1, <3>2, <3>3
  <2> QED
    BY <2>5, <2>7, <2>9 DEF SessionLogDense
<1> QED
  BY <1>1, <1>2, <1>3, <1>4 DEF SessionEffect

-----------------------------------------------------------------------------
(***************************************************************************)
(* What a step does to the soul sessions and their log                     *)
(***************************************************************************)
SoulTables == <<soul_sessions, r_soul_session_messages>>

Targets == Messages \cup Spans \cup Calls

\* The second UPDATE of complete_turn and of finish_failed_turn_context.
LastSeenMoved(s, seq) ==
    /\ soul_sessions' = [soul_sessions EXCEPT ![s].last_seen = seq]
    /\ UNCHANGED r_soul_session_messages

SoulEffect ==
    \/ UNCHANGED SoulTables
    \/ \E s \in Sessions : AcquireSoulSession(s)
    \/ \E s \in Sessions, type \in EntryTypes, x \in Targets : AppendEntry(s, type, x)
    \/ \E s \in DOMAIN soul_sessions, seq \in Nat : LastSeenMoved(s, seq)

LEMMA SoulStepEffect ==
    ASSUME StoreTypeOK, TurnWindow, [StoreNext]_storeVars
    PROVE  SoulEffect
<1>1. CASE UNCHANGED storeVars
  BY <1>1 DEF storeVars, SoulEffect, SoulTables
<1>2. CASE SessionStep
  BY <1>2 DEF SessionStep, SoulEffect, SoulTables, CreateSession, UpdateSessionTitle
<1>3. CASE MessageStep
  BY <1>3 DEF MessageStep, SoulEffect, SoulTables, AppendMessage, AppendMessageRef,
              EntryTypes, Targets
<1>4. CASE TurnStep
  <2>1. CASE UNCHANGED SoulTables
    BY <2>1 DEF SoulEffect
  <2>2. ASSUME NEW t \in DOMAIN turns, NEW row \in r_session_messages,
               CompleteTurn(t, row.seq) \/ FinishFailedTurnContext(t, row.seq)
        PROVE  SoulEffect
    <3> DEFINE s == turns[t].session
    <3>1. s \in DOMAIN soul_sessions
      BY DEF TurnWindow
    <3>2. row.seq \in Nat /\ soul_sessions[s].last_seen \in Nat
      BY <3>1 DEF StoreTypeOK, SoulRow
    <3>3. CASE CompleteTurn(t, row.seq)
      <4>1. LastSeenMoved(s, row.seq)
        BY <3>3 DEF CompleteTurn, LastSeenMoved
      <4> QED
        BY <3>1, <3>2, <4>1 DEF SoulEffect
    <3>4. CASE FinishFailedTurnContext(t, row.seq)
      <4> DEFINE old == soul_sessions[s].last_seen
                 seq == IF old > row.seq THEN old ELSE row.seq
      <4>1. LastSeenMoved(s, seq)
        BY <3>1, <3>4 DEF FinishFailedTurnContext, LastSeenMoved
      <4>2. seq \in Nat
        BY <3>2
      <4> QED
        BY <3>1, <4>1, <4>2 DEF SoulEffect
    <3> QED
      BY <2>2, <3>3, <3>4
  <2> QED
    BY <1>4, <2>1, <2>2 DEF TurnStep, SoulTables, StartTurn, CompleteTurnFirstUpdate,
                            FailTurn, FinishFailedTurnFirstUpdate
<1>5. CASE RuntimeStep
  <2>1. CASE UNCHANGED SoulTables
    BY <2>1 DEF SoulEffect
  <2>2. ASSUME NEW s, NEW type \in EntryTypes, NEW x \in Targets, AppendEntry(s, type, x)
        PROVE  SoulEffect
    <3>1. s \in Sessions
      BY <2>2 DEF AppendEntry, StoreTypeOK
    <3> QED
      BY <2>2, <3>1 DEF SoulEffect
  <2> QED
    BY <1>5, <2>1, <2>2
       DEF RuntimeStep, SoulTables, EntryTypes, Targets, AppendThinkingSpan, AppendToolCall,
           AppendToolResult, UpdateThinkingSpanSummary, FinishThinkingSpan
<1> QED
  BY <1>1, <1>2, <1>3, <1>4, <1>5 DEF StoreNext

SoulTypeOK ==
    /\ soul_sessions \in [DOMAIN soul_sessions -> SoulRow]
    /\ DOMAIN soul_sessions \subseteq Sessions
    /\ r_soul_session_messages \subseteq
           [session : Sessions, type : EntryTypes, target : Targets, seq : Nat \ {0}]

LEMMA SoulTypeStep ==
    ASSUME SoulTypeOK, SoulEffect
    PROVE  SoulTypeOK'
<1>1. CASE UNCHANGED SoulTables
  BY <1>1 DEF SoulTables, SoulTypeOK
<1>2. ASSUME NEW s \in Sessions, AcquireSoulSession(s)
      PROVE  SoulTypeOK'
  <2>1. [next_seq |-> 1, last_seen |-> 0] \in SoulRow
    BY DEF SoulRow
  <2>2. \/ soul_sessions' = soul_sessions
        \/ soul_sessions' = Insert(soul_sessions, s, [next_seq |-> 1, last_seen |-> 0])
    BY <1>2 DEF AcquireSoulSession
  <2>3. /\ soul_sessions' \in [DOMAIN soul_sessions' -> SoulRow]
        /\ DOMAIN soul_sessions' \subseteq Sessions
    BY <2>1, <2>2 DEF SoulTypeOK, Insert
  <2> QED
    BY <1>2, <2>3 DEF SoulTypeOK, AcquireSoulSession
<1>3. ASSUME NEW s \in Sessions, NEW type \in EntryTypes, NEW x \in Targets,
             AppendEntry(s, type, x)
      PROVE  SoulTypeOK'
  <2>1. soul_sessions[s].next_seq \in Nat \ {0} /\ soul_sessions[s] \in SoulRow
    BY <1>3 DEF AppendEntry, SoulTypeOK, SoulRow
  <2>2. r_soul_session_messages' = r_soul_session_messages \cup
            {[session |-> s, type |-> type, target |-> x, seq |-> soul_sessions[s].next_seq]}
    BY <1>3 DEF AppendEntry
  <2>3. soul_sessions' = [soul_sessions EXCEPT
            ![s] = [soul_sessions[s] EXCEPT !.next_seq = soul_sessions[s].next_seq + 1]]
    BY <1>3 DEF AppendEntry
  <2>4. [soul_sessions[s] EXCEPT !.next_seq = soul_sessions[s].next_seq + 1] \in SoulRow
    BY <2>1 DEF SoulRow
  <2>5. /\ soul_sessions' \in [DOMAIN soul_sessions' -> SoulRow]
        /\ DOMAIN soul_sessions' \subseteq Sessions
    BY <2>3, <2>4 DEF SoulTypeOK
  <2>6. r_soul_session_messages' \subseteq
            [session : Sessions, type : EntryTypes, target : Targets, seq : Nat \ {0}]
    BY <2>1, <2>2 DEF SoulTypeOK
  <2> QED
    BY <2>5, <2>6 DEF SoulTypeOK
<1>4. ASSUME NEW s \in DOMAIN soul_sessions, NEW seq \in Nat, LastSeenMoved(s, seq)
      PROVE  SoulTypeOK'
  <2>1. soul_sessions' = [soul_sessions EXCEPT
            ![s] = [soul_sessions[s] EXCEPT !.last_seen = seq]]
    BY <1>4 DEF LastSeenMoved
  <2>2. [soul_sessions[s] EXCEPT !.last_seen = seq] \in SoulRow
    BY DEF SoulTypeOK, SoulRow
  <2>3. /\ soul_sessions' \in [DOMAIN soul_sessions' -> SoulRow]
        /\ DOMAIN soul_sessions' \subseteq Sessions
    BY <2>1, <2>2 DEF SoulTypeOK
  <2> QED
    BY <1>4, <2>3 DEF SoulTypeOK, LastSeenMoved
<1> QED
  BY <1>1, <1>2, <1>3, <1>4 DEF SoulEffect

\* A soul session stays and its counter never goes back.
SoulGrows ==
    \A s \in DOMAIN soul_sessions :
        /\ s \in DOMAIN soul_sessions'
        /\ soul_sessions'[s].next_seq >= soul_sessions[s].next_seq

LEMMA SoulGrowsStep ==
    ASSUME SoulTypeOK, SoulEffect
    PROVE  SoulGrows
<1>0. \A s \in DOMAIN soul_sessions :
          soul_sessions[s] \in SoulRow /\ soul_sessions[s].next_seq \in Nat
  BY DEF SoulTypeOK, SoulRow
<1>1. CASE UNCHANGED SoulTables
  BY <1>0, <1>1 DEF SoulTables, SoulGrows
<1>2. CASE \E s \in Sessions : AcquireSoulSession(s)
  BY <1>0, <1>2 DEF AcquireSoulSession, SoulGrows, Insert
<1>3. CASE \E s \in Sessions, type \in EntryTypes, x \in Targets : AppendEntry(s, type, x)
  BY <1>0, <1>3 DEF AppendEntry, SoulGrows, SoulRow
<1>4. CASE \E s \in DOMAIN soul_sessions, seq \in Nat : LastSeenMoved(s, seq)
  BY <1>0, <1>4 DEF LastSeenMoved, SoulGrows, SoulRow
<1> QED
  BY <1>1, <1>2, <1>3, <1>4 DEF SoulEffect

LEMMA SoulLogStep ==
    ASSUME SoulTypeOK, SoulLogDense, EntriesRooted, SoulEffect
    PROVE  SoulLogDense' /\ EntriesRooted'
<1>1. CASE UNCHANGED SoulTables
  BY <1>1 DEF SoulTables, SoulLogDense, EntriesRooted, SoulSeqs, SeqsOf
<1>2. ASSUME NEW s \in Sessions, AcquireSoulSession(s)
      PROVE  SoulLogDense' /\ EntriesRooted'
  <2>1. CASE s \in DOMAIN soul_sessions
    BY <1>2, <2>1 DEF AcquireSoulSession, SoulLogDense, EntriesRooted, SoulSeqs, SeqsOf
  <2>2. CASE s \notin DOMAIN soul_sessions
    <3>1. /\ DOMAIN soul_sessions' = DOMAIN soul_sessions \cup {s}
          /\ soul_sessions'[s].next_seq = 1
          /\ \A r \in DOMAIN soul_sessions : soul_sessions'[r] = soul_sessions[r]
      BY <1>2, <2>2 DEF AcquireSoulSession, Insert
    <3>2. r_soul_session_messages' = r_soul_session_messages
      BY <1>2 DEF AcquireSoulSession
    <3>3. SoulSeqs(s) = {}
      BY <2>2 DEF EntriesRooted, SoulSeqs, SeqsOf
    <3>4. \A r \in DOMAIN soul_sessions' :
              SoulSeqs(r)' = 1 .. soul_sessions'[r].next_seq - 1
      <4>1. TAKE r \in DOMAIN soul_sessions'
      <4>2. SoulSeqs(r)' = SoulSeqs(r)
        BY <3>2 DEF SoulSeqs
      <4>3. CASE r = s
        BY <3>1, <3>3, <4>2, <4>3
      <4>4. CASE r # s
        BY <3>1, <4>2, <4>4 DEF SoulLogDense
      <4> QED
        BY <4>3, <4>4
    <3> QED
      BY <3>1, <3>2, <3>4 DEF SoulLogDense, EntriesRooted
  <2> QED
    BY <2>1, <2>2
<1>3. ASSUME NEW s \in Sessions, NEW type \in EntryTypes, NEW x \in Targets,
             AppendEntry(s, type, x)
      PROVE  SoulLogDense' /\ EntriesRooted'
  <2> DEFINE n   == soul_sessions[s].next_seq
             new == [session |-> s, type |-> type, target |-> x, seq |-> n]
  <2>1. s \in DOMAIN soul_sessions /\ n \in Nat \ {0}
    BY <1>3 DEF AppendEntry, SoulTypeOK, SoulRow
  <2>2. r_soul_session_messages' = r_soul_session_messages \cup {new}
    BY <1>3 DEF AppendEntry
  <2>3. /\ DOMAIN soul_sessions' = DOMAIN soul_sessions
        /\ \A r \in DOMAIN soul_sessions :
               soul_sessions'[r].next_seq = IF r = s THEN n + 1 ELSE soul_sessions[r].next_seq
    BY <1>3, <2>1 DEF AppendEntry, SoulTypeOK, SoulRow
  <2>4. \A a \in r_soul_session_messages :
            a.session = s => a.seq # n /\ ~ (a.type = type /\ a.target = x)
    <3>1. SoulSeqs(s) = 1 .. n - 1
      BY <2>1 DEF SoulLogDense
    <3>2. \A a \in r_soul_session_messages : a.session = s => a.seq \in SoulSeqs(s)
      BY DEF SoulSeqs, SeqsOf
    <3>3. n \notin 1 .. n - 1
      BY <2>1
    <3> QED
      BY <1>3, <3>1, <3>2, <3>3 DEF AppendEntry
  <2>5. /\ new.session = s
        /\ new.type = type
        /\ new.target = x
        /\ new.seq = n
    OBVIOUS
  <2> HIDE DEF n, new
  <2>6. EntriesRooted'
    BY <2>1, <2>2, <2>3, <2>5 DEF EntriesRooted
  <2>7. ASSUME NEW r \in DOMAIN soul_sessions
        PROVE  SoulSeqs(r)' = 1 .. soul_sessions'[r].next_seq - 1
    <3>1. SeqsOf(r_soul_session_messages \cup {new}, r) =
              IF new.session = r THEN SeqsOf(r_soul_session_messages, r) \cup {new.seq}
              ELSE SeqsOf(r_soul_session_messages, r)
      BY SeqsOfAdded
    <3>2. SoulSeqs(r)' = IF r = s THEN SoulSeqs(r) \cup {n} ELSE SoulSeqs(r)
      BY <2>2, <2>5, <3>1 DEF SoulSeqs
    <3>3. CASE r = s
      <4>1. SoulSeqs(r) = 1 .. n - 1
        BY <2>1, <3>3 DEF SoulLogDense, n
      <4>2. (1 .. n - 1) \cup {n} = 1 .. (n + 1) - 1
        BY <2>1
      <4> QED
        BY <2>1, <2>3, <3>2, <3>3, <4>1, <4>2
    <3>4. CASE r # s
      BY <2>3, <3>2, <3>4 DEF SoulLogDense
    <3> QED
      BY <3>3, <3>4
  <2>8. ASSUME NEW a \in r_soul_session_messages', NEW b \in r_soul_session_messages',
               a.session = b.session,
               a.seq = b.seq \/ (a.type = b.type /\ a.target = b.target)
        PROVE  a = b
    <3>1. CASE a \in r_soul_session_messages /\ b \in r_soul_session_messages
      BY <2>8, <3>1 DEF SoulLogDense
    <3>2. CASE a = new /\ b = new
      BY <3>2
    <3>3. CASE (a = new /\ b \in r_soul_session_messages)
               \/ (b = new /\ a \in r_soul_session_messages)
      BY <2>4, <2>5, <2>8, <3>3
    <3> QED
      BY <2>2, <3>1, <3>2, <3>3
  <2> QED
    BY <2>3, <2>6, <2>7, <2>8 DEF SoulLogDense
<1>4. ASSUME NEW s \in DOMAIN soul_sessions, NEW seq \in Nat, LastSeenMoved(s, seq)
      PROVE  SoulLogDense' /\ EntriesRooted'
  <2>1. /\ DOMAIN soul_sessions' = DOMAIN soul_sessions
        /\ \A r \in DOMAIN soul_sessions :
               soul_sessions'[r].next_seq = soul_sessions[r].next_seq
        /\ r_soul_session_messages' = r_soul_session_messages
    BY <1>4 DEF LastSeenMoved, SoulTypeOK, SoulRow
  <2> QED
    BY <2>1 DEF SoulLogDense, EntriesRooted, SoulSeqs, SeqsOf
<1> QED
  BY <1>1, <1>2, <1>3, <1>4 DEF SoulEffect

-----------------------------------------------------------------------------
(***************************************************************************)
(* What a step does to the turns                                           *)
(***************************************************************************)
TurnUpdated(t) ==
    \/ turns' = CompletedRow(t)
    \/ turns' = [turns EXCEPT ![t].status = "failed"]
    \/ turns' = FailedRow(t)

TurnEffect ==
    \/ UNCHANGED turns
    \/ \E t \in Turns, row \in r_session_messages :
           StartTurn(t, row.session, row.message, row.seq)
    \/ \E t \in DOMAIN turns : TurnUpdated(t)

LEMMA TurnStepEffect ==
    ASSUME [StoreNext]_storeVars
    PROVE  TurnEffect
<1>1. CASE UNCHANGED storeVars
  BY <1>1 DEF storeVars, TurnEffect
<1>2. CASE SessionStep
  BY <1>2 DEF SessionStep, TurnEffect, CreateSession, UpdateSessionTitle, AcquireSoulSession
<1>3. CASE MessageStep
  BY <1>3 DEF MessageStep, TurnEffect, AppendMessage, AppendMessageRef
<1>4. CASE TurnStep
  BY <1>4 DEF TurnStep, TurnEffect, TurnUpdated, CompleteTurnFirstUpdate, CompleteTurn,
              FailTurn, FinishFailedTurnFirstUpdate, FinishFailedTurnContext
<1>5. CASE RuntimeStep
  BY <1>5 DEF RuntimeStep, TurnEffect, AppendThinkingSpan, UpdateThinkingSpanSummary,
              FinishThinkingSpan, AppendToolCall, AppendToolResult
<1> QED
  BY <1>1, <1>2, <1>3, <1>4, <1>5 DEF StoreNext

TurnTypeOK ==
    /\ turns \in [DOMAIN turns -> TurnRow]
    /\ DOMAIN turns \subseteq Turns

\* The rows of the turns that can be read off any one update.
LEMMA TurnRowFields ==
    ASSUME TurnTypeOK, NEW t \in DOMAIN turns
    PROVE  /\ turns[t] \in TurnRow
           /\ turns[t].session \in Sessions
           /\ turns[t].base \in Nat
           /\ turns[t].end \in Nat \cup {NoSeq}
  BY DEF TurnTypeOK, TurnRow

\* An update keeps a turn's identity; it sets the end, if at all, to the
\* length of the log.
LEMMA TurnUpdateShape ==
    ASSUME TurnTypeOK, TurnWindow, SoulTypeOK, NEW t \in DOMAIN turns, TurnUpdated(t)
    PROVE  /\ DOMAIN turns' = DOMAIN turns
           /\ \A u \in DOMAIN turns \ {t} : turns'[u] = turns[u]
           /\ turns'[t] \in TurnRow
           /\ \A f \in {"session", "trigger", "input_through", "base"} :
                  turns'[t][f] = turns[t][f]
           /\ turns'[t].end \in {turns[t].end, soul_sessions[turns[t].session].next_seq - 1}
           /\ turns'[t].status = "completed" =>
                  \/ turns[t].status = "completed"
                  \/ turns'[t].end = soul_sessions[turns[t].session].next_seq - 1
<1> DEFINE last == soul_sessions[turns[t].session].next_seq - 1
<1>1. last \in Nat
  BY DEF TurnWindow, SoulTypeOK, SoulRow
<1>2. turns[t] \in TurnRow
  BY DEF TurnTypeOK
<1>3. CASE turns' = CompletedRow(t)
  <2>1. turns' = [turns EXCEPT ![t] =
            [turns[t] EXCEPT !.status = "completed", !.end = last]]
    BY <1>3 DEF CompletedRow
  <2> QED
    BY <1>1, <1>2, <2>1 DEF TurnRow, TurnTypeOK
<1>4. CASE turns' = [turns EXCEPT ![t].status = "failed"]
  BY <1>2, <1>4 DEF TurnRow, TurnTypeOK
<1>5. CASE turns' = FailedRow(t)
  <2>1. \/ turns' = turns
        \/ turns' = [turns EXCEPT ![t] = [turns[t] EXCEPT !.end = last]] /\ turns[t].status = "failed"
    BY <1>5 DEF FailedRow
  <2> QED
    BY <1>1, <1>2, <2>1 DEF TurnRow, TurnTypeOK
<1> QED
  BY <1>3, <1>4, <1>5 DEF TurnUpdated

LEMMA TurnTypeStep ==
    ASSUME TurnTypeOK, TurnWindow, SoulTypeOK, TurnEffect,
           r_session_messages \subseteq
               [session : Sessions, message : Messages, seq : Nat \ {0}]
    PROVE  TurnTypeOK'
<1>1. CASE UNCHANGED turns
  BY <1>1 DEF TurnTypeOK
<1>2. ASSUME NEW t \in Turns, NEW row \in r_session_messages,
             StartTurn(t, row.session, row.message, row.seq)
      PROVE  TurnTypeOK'
  <2> DEFINE new == [session |-> row.session, trigger |-> row.message,
                     input_through |-> row.seq,
                     base |-> soul_sessions[row.session].next_seq - 1,
                     end |-> NoSeq, status |-> "running"]
  <2>1. soul_sessions[row.session].next_seq - 1 \in Nat
    BY <1>2 DEF StartTurn, SoulTypeOK, SoulRow
  <2>2. new \in TurnRow
    BY <2>1 DEF TurnRow
  <2>3. turns' = Insert(turns, t, new)
    BY <1>2 DEF StartTurn
  <2> HIDE DEF new
  <2> QED
    BY <2>2, <2>3 DEF Insert, TurnTypeOK
<1>3. ASSUME NEW t \in DOMAIN turns, TurnUpdated(t)
      PROVE  TurnTypeOK'
  <2>1. /\ DOMAIN turns' = DOMAIN turns
        /\ \A u \in DOMAIN turns : turns'[u] \in TurnRow
    BY <1>3, TurnUpdateShape DEF TurnTypeOK
  <2>2. turns' = [u \in DOMAIN turns' |-> turns'[u]]
    BY <1>3 DEF TurnUpdated, CompletedRow, FailedRow, TurnTypeOK
  <2> QED
    BY <2>1, <2>2 DEF TurnTypeOK
<1> QED
  BY <1>1, <1>2, <1>3 DEF TurnEffect

LEMMA TurnWindowStep ==
    ASSUME TurnTypeOK, TurnWindow, SoulTypeOK, TurnEffect, SoulGrows, SoulTypeOK'
    PROVE  TurnWindow'
<1> DEFINE Window(turn) ==
        /\ turn.session \in DOMAIN soul_sessions'
        /\ turn.base < soul_sessions'[turn.session].next_seq
        /\ turn.end = NoSeq \/
           turn.end \in turn.base .. soul_sessions'[turn.session].next_seq - 1
        /\ turn.status = "completed" => turn.end # NoSeq
<1>1. ASSUME NEW t \in DOMAIN turns
      PROVE  Window(turns[t])
  <2>1. turns[t].session \in DOMAIN soul_sessions
    BY DEF TurnWindow
  <2>2. /\ soul_sessions[turns[t].session].next_seq \in Nat
        /\ soul_sessions'[turns[t].session].next_seq \in Nat
    BY <2>1 DEF SoulTypeOK, SoulRow, SoulGrows
  <2> QED
    BY <2>1, <2>2, TurnRowFields DEF TurnWindow, SoulGrows, NoSeq
<1>2. CASE UNCHANGED turns
  BY <1>1, <1>2 DEF TurnWindow
<1>3. ASSUME NEW t \in Turns, NEW row \in r_session_messages,
             StartTurn(t, row.session, row.message, row.seq)
      PROVE  TurnWindow'
  <2> DEFINE s   == row.session
             new == [session |-> s, trigger |-> row.message, input_through |-> row.seq,
                     base |-> soul_sessions[s].next_seq - 1,
                     end |-> NoSeq, status |-> "running"]
  <2>1. s \in DOMAIN soul_sessions /\ soul_sessions' = soul_sessions
    BY <1>3 DEF StartTurn
  <2>2. soul_sessions[s].next_seq \in Nat
    BY <2>1 DEF SoulTypeOK, SoulRow
  <2>3. Window(new)
    BY <2>1, <2>2
  <2>4. turns' = Insert(turns, t, new)
    BY <1>3 DEF StartTurn
  <2> HIDE DEF new, s
  <2>5. \A u \in DOMAIN turns' : turns'[u] = new \/ (u \in DOMAIN turns /\ turns'[u] = turns[u])
    BY <2>4 DEF Insert
  <2>6. \A u \in DOMAIN turns' : Window(turns'[u])
    BY <1>1, <2>3, <2>5
  <2> QED
    BY <2>6 DEF TurnWindow
<1>4. ASSUME NEW t \in DOMAIN turns, TurnUpdated(t)
      PROVE  TurnWindow'
  <2> DEFINE s    == turns[t].session
             last == soul_sessions[s].next_seq - 1
  <2>1. /\ DOMAIN turns' = DOMAIN turns
        /\ \A u \in DOMAIN turns \ {t} : turns'[u] = turns[u]
        /\ turns'[t].session = s
        /\ turns'[t].base = turns[t].base
        /\ turns'[t].end \in {turns[t].end, last}
        /\ turns'[t].status = "completed" =>
               turns[t].status = "completed" \/ turns'[t].end = last
    BY <1>4, TurnUpdateShape
  <2>2. /\ s \in DOMAIN soul_sessions
        /\ turns[t].base < soul_sessions[s].next_seq
    BY DEF TurnWindow
  <2>3. /\ soul_sessions[s].next_seq \in Nat
        /\ soul_sessions'[s].next_seq \in Nat
        /\ soul_sessions'[s].next_seq >= soul_sessions[s].next_seq
        /\ turns[t].base \in Nat
    BY <2>2, TurnRowFields DEF SoulTypeOK, SoulRow, SoulGrows
  <2>4. last \in turns[t].base .. soul_sessions'[s].next_seq - 1 /\ last # NoSeq
    BY <2>2, <2>3 DEF NoSeq
  <2>5. Window(turns'[t])
    BY <1>1, <2>1, <2>4
  <2>6. \A u \in DOMAIN turns' : Window(turns'[u])
    BY <1>1, <2>1, <2>5
  <2> QED
    BY <2>6 DEF TurnWindow
<1> QED
  BY <1>2, <1>3, <1>4 DEF TurnEffect

-----------------------------------------------------------------------------
(***************************************************************************)
(* The rows of the runtime                                                 *)
(***************************************************************************)
RuntimeTypeOK ==
    /\ thinking_spans \in [DOMAIN thinking_spans -> SpanRow]
    /\ tool_calls \in [DOMAIN tool_calls -> Turns]
    /\ tool_results \in [DOMAIN tool_results -> {"output", "error"}]
    /\ DOMAIN thinking_spans \subseteq Spans
    /\ DOMAIN tool_calls \subseteq Calls
    /\ DOMAIN tool_results \subseteq Calls

LEMMA RuntimeTypeStep ==
    ASSUME RuntimeTypeOK, [StoreNext]_storeVars
    PROVE  RuntimeTypeOK'
<1>0. CASE UNCHANGED <<thinking_spans, tool_calls, tool_results>>
  BY <1>0 DEF RuntimeTypeOK
<1>1. CASE UNCHANGED storeVars
  BY <1>0, <1>1 DEF storeVars
<1>2. CASE SessionStep
  BY <1>0, <1>2 DEF SessionStep, CreateSession, UpdateSessionTitle, AcquireSoulSession
<1>3. CASE MessageStep
  BY <1>0, <1>3 DEF MessageStep, AppendMessage, AppendMessageRef
<1>4. CASE TurnStep
  BY <1>0, <1>4 DEF TurnStep, StartTurn, CompleteTurnFirstUpdate, CompleteTurn, FailTurn,
                    FinishFailedTurnFirstUpdate, FinishFailedTurnContext
<1>5. CASE RuntimeStep
  <2>1. ASSUME NEW sp \in Spans, NEW t \in Turns, AppendThinkingSpan(sp, t)
        PROVE  RuntimeTypeOK'
    BY <2>1 DEF AppendThinkingSpan, RuntimeTypeOK, Insert, SpanRow
  <2>2. ASSUME NEW sp \in Spans, UpdateThinkingSpanSummary(sp)
        PROVE  RuntimeTypeOK'
    BY <2>2 DEF UpdateThinkingSpanSummary, RuntimeTypeOK, SpanRow
  <2>3. ASSUME NEW sp \in Spans, NEW state \in {"completed", "failed"},
               FinishThinkingSpan(sp, state)
        PROVE  RuntimeTypeOK'
    BY <2>3 DEF FinishThinkingSpan, RuntimeTypeOK, SpanRow
  <2>4. ASSUME NEW c \in Calls, NEW t \in Turns, AppendToolCall(c, t)
        PROVE  RuntimeTypeOK'
    BY <2>4 DEF AppendToolCall, RuntimeTypeOK, Insert
  <2>5. ASSUME NEW c \in Calls, NEW outcome \in {"output", "error"},
               AppendToolResult(c, outcome)
        PROVE  RuntimeTypeOK'
    BY <2>5 DEF AppendToolResult, RuntimeTypeOK, Insert
  <2> QED
    BY <1>5, <2>1, <2>2, <2>3, <2>4, <2>5 DEF RuntimeStep
<1> QED
  BY <1>1, <1>2, <1>3, <1>4, <1>5 DEF StoreNext

-----------------------------------------------------------------------------
(***************************************************************************)
(* The invariant                                                           *)
(***************************************************************************)
LEMMA TypeParts ==
    StoreTypeOK <=> SessionTypeOK /\ SoulTypeOK /\ TurnTypeOK /\ RuntimeTypeOK
  BY DEF StoreTypeOK, SessionTypeOK, SoulTypeOK, TurnTypeOK, RuntimeTypeOK, Targets

LEMMA TypePartsNext ==
    StoreTypeOK' <=> SessionTypeOK' /\ SoulTypeOK' /\ TurnTypeOK' /\ RuntimeTypeOK'
  BY DEF StoreTypeOK, SessionTypeOK, SoulTypeOK, TurnTypeOK, RuntimeTypeOK, Targets

LEMMA StoreInvInit == StoreInit => StoreInv
<1> SUFFICES ASSUME StoreInit PROVE StoreInv
  OBVIOUS
<1>1. \A S : EmptyTable \in [DOMAIN EmptyTable -> S] /\ DOMAIN EmptyTable = {}
  BY DEF EmptyTable
<1>2. StoreTypeOK
  BY <1>1 DEF StoreInit, StoreTypeOK
<1>3. \A s : SessionSeqs(s) = {}
  BY DEF StoreInit, SessionSeqs, SeqsOf
<1>4. SessionLogDense /\ RowsKnown
  <2>1. 1 .. 0 = {}
    OBVIOUS
  <2> QED
    BY <1>3, <2>1 DEF StoreInit, SessionLogDense, RowsKnown
<1>5. SoulLogDense /\ EntriesRooted
  BY <1>1 DEF StoreInit, SoulLogDense, EntriesRooted
<1>6. TurnWindow
  BY <1>1 DEF StoreInit, TurnWindow
<1> QED
  BY <1>2, <1>4, <1>5, <1>6 DEF StoreInv

LEMMA StoreInvStep == StoreInv /\ [StoreNext]_storeVars => StoreInv'
<1> SUFFICES ASSUME StoreInv, [StoreNext]_storeVars PROVE StoreInv'
  OBVIOUS
<1>1. SessionTypeOK /\ SoulTypeOK /\ TurnTypeOK /\ RuntimeTypeOK
  BY TypeParts DEF StoreInv
<1>2. SessionEffect /\ TurnEffect
  BY SessionStepEffect, TurnStepEffect
<1>3. SoulEffect
  BY SoulStepEffect DEF StoreInv
<1>4. SessionTypeOK' /\ SessionLogDense' /\ RowsKnown'
  BY <1>1, <1>2, SessionTypeStep, SessionLogStep DEF StoreInv
<1>5. SoulTypeOK' /\ SoulLogDense' /\ EntriesRooted'
  BY <1>1, <1>3, SoulTypeStep, SoulLogStep DEF StoreInv
<1>6. TurnTypeOK' /\ TurnWindow'
  <2>1. SoulGrows
    BY <1>1, <1>3, SoulGrowsStep
  <2>2. r_session_messages \subseteq
            [session : Sessions, message : Messages, seq : Nat \ {0}]
    BY <1>1 DEF SessionTypeOK
  <2> QED
    BY <1>1, <1>2, <1>5, <2>1, <2>2, TurnTypeStep, TurnWindowStep DEF StoreInv
<1>7. RuntimeTypeOK'
  BY <1>1, RuntimeTypeStep
<1> QED
  BY <1>4, <1>5, <1>6, <1>7, TypePartsNext DEF StoreInv

\* Whatever calls its clients make, in whatever order, the store keeps StoreInv.
THEOREM StoreInvariant == StoreSpec => []StoreInv
<1>1. StoreInit => StoreInv
  BY StoreInvInit
<1>2. StoreInv /\ [StoreNext]_storeVars => StoreInv'
  BY StoreInvStep
<1> QED
  BY <1>1, <1>2, PTL DEF StoreSpec

\* Every table holds rows of its columns' types.
THEOREM StoreTypeCorrect == StoreSpec => []StoreTypeOK
<1>1. StoreInv => StoreTypeOK
  BY DEF StoreInv
<1> QED
  BY <1>1, StoreInvariant, PTL

\* A session's messages are numbered 1, 2, ... without gap or repetition,
\* whichever callers of append_message interleave.
THEOREM SessionNumbering == StoreSpec => []SessionLogDense
<1>1. StoreInv => SessionLogDense
  BY DEF StoreInv
<1> QED
  BY <1>1, StoreInvariant, PTL

\* The soul's log is numbered 1 .. next_seq - 1 without gap or repetition.
THEOREM SoulNumbering == StoreSpec => []SoulLogDense
<1>1. StoreInv => SoulLogDense
  BY DEF StoreInv
<1> QED
  BY <1>1, StoreInvariant, PTL

\* A turn's window lies inside its session's log, even when complete_turn
\* stopped after its first UPDATE or the turn was failed after completing.
THEOREM TurnWindowsInLog == StoreSpec => []TurnWindow
<1>1. StoreInv => TurnWindow
  BY DEF StoreInv
<1> QED
  BY <1>1, StoreInvariant, PTL
-----------------------------------------------------------------------------
(***************************************************************************)
(* The log and the rows.                                                   *)
(*                                                                         *)
(* The rows and the soul's log agree, and last_seen_session_seq names a    *)
(* message of the log.  All this rests on history: tables only grow and a  *)
(* turn keeps its session, so what an entry or a row pointed to when it    *)
(* was written is still there.  LogInv adds to StoreInv that spans, calls  *)
(* and results name turns and calls that exist, without which "its turn's  *)
(* session" could change under a row.                                      *)
(***************************************************************************)
\* Spans and calls name turns that exist, results calls that exist.
RuntimeRooted ==
    /\ \A sp \in DOMAIN thinking_spans : thinking_spans[sp].turn \in DOMAIN turns
    /\ \A c \in DOMAIN tool_calls : tool_calls[c] \in DOMAIN turns
    /\ DOMAIN tool_results \subseteq DOMAIN tool_calls

LogInv ==
    /\ StoreInv
    /\ RuntimeRooted
    /\ EntriesResolve
    /\ RuntimeRowsLogged
    /\ LastSeenInLog

-----------------------------------------------------------------------------
(***************************************************************************)
(* History                                                                 *)
(***************************************************************************)
LEMMA HistoryStep ==
    ASSUME StoreInv, [StoreNext]_storeVars
    PROVE  LogExtended /\ TurnsKept
<1>1. SoulTypeOK /\ TurnTypeOK
  BY TypeParts DEF StoreInv
<1>2. r_session_messages \subseteq r_session_messages'
  BY SessionStepEffect
     DEF SessionEffect, SessionTables, CreateSession, UpdateSessionTitle, AppendMessage
<1>3. r_soul_session_messages \subseteq r_soul_session_messages'
  BY SoulStepEffect
     DEF StoreInv, SoulEffect, SoulTables, AcquireSoulSession, AppendEntry, LastSeenMoved
<1>4. TurnsKept
  <2>1. CASE UNCHANGED turns
    BY <2>1 DEF TurnsKept
  <2>2. CASE \E t \in Turns, row \in r_session_messages :
                 StartTurn(t, row.session, row.message, row.seq)
    BY <2>2 DEF StartTurn, Insert, TurnsKept
  <2>3. ASSUME NEW t \in DOMAIN turns, TurnUpdated(t)
        PROVE  TurnsKept
    BY <1>1, <2>3, TurnUpdateShape DEF StoreInv, TurnsKept
  <2> QED
    BY <2>1, <2>2, <2>3, TurnStepEffect DEF TurnEffect
<1> QED
  BY <1>2, <1>3, <1>4 DEF LogExtended

\* The log is append-only and a turn's identity never changes, under every
\* sequence of calls.
THEOREM HistoryIsKept == StoreSpec => HistoryKept
<1>1. StoreInv /\ [StoreNext]_storeVars => [LogExtended /\ TurnsKept]_storeVars
  BY HistoryStep
<1> QED
  BY <1>1, StoreInvariant, PTL DEF StoreSpec, HistoryKept

-----------------------------------------------------------------------------
(***************************************************************************)
(* What a step does to the rows of the runtime                             *)
(***************************************************************************)
RuntimeTables == <<thinking_spans, tool_calls, tool_results>>

\* An UPDATE of one span leaves its turn, and every other span, alone.
SpanUpdated(sp) ==
    /\ DOMAIN thinking_spans' = DOMAIN thinking_spans
    /\ thinking_spans'[sp].turn = thinking_spans[sp].turn
    /\ \A x \in DOMAIN thinking_spans \ {sp} : thinking_spans'[x] = thinking_spans[x]
    /\ thinking_spans[sp].state # "running" =>
           thinking_spans'[sp].state = thinking_spans[sp].state
    /\ thinking_spans[sp].state = "failed" => thinking_spans'[sp] = thinking_spans[sp]
    /\ UNCHANGED <<tool_calls, tool_results, r_soul_session_messages>>

RuntimeEffect ==
    \/ UNCHANGED RuntimeTables
    \/ \E sp \in Spans, t \in Turns : AppendThinkingSpan(sp, t)
    \/ \E sp \in DOMAIN thinking_spans : SpanUpdated(sp)
    \/ \E c \in Calls, t \in Turns : AppendToolCall(c, t)
    \/ \E c \in Calls, outcome \in {"output", "error"} : AppendToolResult(c, outcome)

LEMMA RuntimeStepEffect ==
    ASSUME RuntimeTypeOK, [StoreNext]_storeVars
    PROVE  RuntimeEffect
<1>1. CASE UNCHANGED storeVars
  BY <1>1 DEF storeVars, RuntimeEffect, RuntimeTables
<1>2. CASE SessionStep
  BY <1>2 DEF SessionStep, RuntimeEffect, RuntimeTables, CreateSession,
              UpdateSessionTitle, AcquireSoulSession
<1>3. CASE MessageStep
  BY <1>3 DEF MessageStep, RuntimeEffect, RuntimeTables, AppendMessage, AppendMessageRef
<1>4. CASE TurnStep
  BY <1>4 DEF TurnStep, RuntimeEffect, RuntimeTables, StartTurn, CompleteTurnFirstUpdate,
              CompleteTurn, FailTurn, FinishFailedTurnFirstUpdate, FinishFailedTurnContext
<1>5. CASE RuntimeStep
  <2>1. ASSUME NEW sp, UpdateThinkingSpanSummary(sp)
        PROVE  RuntimeEffect
    <3>1. sp \in DOMAIN thinking_spans /\ thinking_spans[sp] \in SpanRow
      BY <2>1 DEF UpdateThinkingSpanSummary, RuntimeTypeOK
    <3>2. SpanUpdated(sp)
      BY <2>1, <3>1 DEF UpdateThinkingSpanSummary, SpanUpdated, SpanRow
    <3> QED
      BY <3>1, <3>2 DEF RuntimeEffect
  <2>2. ASSUME NEW sp, NEW state, FinishThinkingSpan(sp, state)
        PROVE  RuntimeEffect
    <3>1. sp \in DOMAIN thinking_spans /\ thinking_spans[sp] \in SpanRow
      BY <2>2 DEF FinishThinkingSpan, RuntimeTypeOK
    <3>2. SpanUpdated(sp)
      BY <2>2, <3>1 DEF FinishThinkingSpan, SpanUpdated, SpanRow
    <3> QED
      BY <3>1, <3>2 DEF RuntimeEffect
  <2> QED
    BY <1>5, <2>1, <2>2 DEF RuntimeStep, RuntimeEffect
<1> QED
  BY <1>1, <1>2, <1>3, <1>4, <1>5 DEF StoreNext

LEMMA EndedSpansStep ==
    ASSUME RuntimeTypeOK, [StoreNext]_storeVars
    PROVE  EndedSpansKept
<1>1. CASE UNCHANGED RuntimeTables
  BY <1>1 DEF RuntimeTables, EndedSpansKept
<1>2. CASE \E sp \in Spans, t \in Turns : AppendThinkingSpan(sp, t)
  BY <1>2 DEF AppendThinkingSpan, Insert, EndedSpansKept
<1>3. CASE \E sp \in DOMAIN thinking_spans : SpanUpdated(sp)
  BY <1>3 DEF SpanUpdated, EndedSpansKept
<1>4. CASE \E c \in Calls, t \in Turns : AppendToolCall(c, t)
  BY <1>4 DEF AppendToolCall, EndedSpansKept
<1>5. CASE \E c \in Calls, outcome \in {"output", "error"} : AppendToolResult(c, outcome)
  BY <1>5 DEF AppendToolResult, EndedSpansKept
<1> QED
  BY <1>1, <1>2, <1>3, <1>4, <1>5, RuntimeStepEffect DEF RuntimeEffect

\* A span that ended keeps the state it ended in, whatever late summary or
\* second completion the provider's events lead to.
THEOREM EndedSpansAreFinal == StoreSpec => EndedSpansStay
<1>1. StoreInv /\ [StoreNext]_storeVars => [EndedSpansKept]_storeVars
  BY EndedSpansStep, TypeParts DEF StoreInv
<1> QED
  BY <1>1, StoreInvariant, PTL DEF StoreSpec, EndedSpansStay

LEMMA TitlesStep ==
    ASSUME [StoreNext]_storeVars
    PROVE  TitlesKept
<1>1. CASE UNCHANGED SessionTables
  BY <1>1, TitlesAssumption DEF SessionTables, TitlesKept
<1>2. CASE \E s \in Sessions : CreateSession(s)
  BY <1>2, TitlesAssumption DEF CreateSession, Insert, TitlesKept
<1>3. CASE \E s \in Sessions, title \in Titles \cup {"none"} : UpdateSessionTitle(s, title)
  BY <1>3, TitlesAssumption DEF UpdateSessionTitle, TitlesKept
<1>4. CASE \E s \in Sessions, m \in Messages, row \in MessageRow :
               AppendMessage(s, m, row.actor, row.state)
  BY <1>4, TitlesAssumption DEF AppendMessage, TakesTitle, TitlesKept
<1> QED
  BY <1>1, <1>2, <1>3, <1>4, SessionStepEffect DEF SessionEffect

\* A title the user gave survives a first message that is stored after it.
THEOREM UserTitlesAreKept == StoreSpec => UserTitleKept
<1>1. [StoreNext]_storeVars => [TitlesKept]_storeVars
  BY TitlesStep
<1> QED
  BY <1>1, PTL DEF StoreSpec, UserTitleKept

-----------------------------------------------------------------------------
(***************************************************************************)
(* Rows and entries                                                        *)
(***************************************************************************)
\* The runtime rows only grow, and keep the turn they belong to.
RowsKept ==
    /\ \A sp \in DOMAIN thinking_spans :
           sp \in DOMAIN thinking_spans' /\ thinking_spans'[sp].turn = thinking_spans[sp].turn
    /\ \A c \in DOMAIN tool_calls : c \in DOMAIN tool_calls' /\ tool_calls'[c] = tool_calls[c]
    /\ DOMAIN tool_results \subseteq DOMAIN tool_results'

LEMMA RowsKeptStep ==
    ASSUME RuntimeEffect
    PROVE  RowsKept
<1>1. CASE UNCHANGED RuntimeTables
  BY <1>1 DEF RuntimeTables, RowsKept
<1>2. CASE \E sp \in Spans, t \in Turns : AppendThinkingSpan(sp, t)
  BY <1>2 DEF AppendThinkingSpan, Insert, RowsKept
<1>3. CASE \E sp \in DOMAIN thinking_spans : SpanUpdated(sp)
  BY <1>3 DEF SpanUpdated, RowsKept
<1>4. CASE \E c \in Calls, t \in Turns : AppendToolCall(c, t)
  BY <1>4 DEF AppendToolCall, Insert, RowsKept
<1>5. CASE \E c \in Calls, outcome \in {"output", "error"} : AppendToolResult(c, outcome)
  BY <1>5 DEF AppendToolResult, Insert, RowsKept
<1> QED
  BY <1>1, <1>2, <1>3, <1>4, <1>5 DEF RuntimeEffect

LEMMA RuntimeRootedStep ==
    ASSUME RuntimeRooted, RuntimeEffect, TurnsKept
    PROVE  RuntimeRooted'
<1>1. CASE UNCHANGED RuntimeTables
  BY <1>1 DEF RuntimeTables, RuntimeRooted, TurnsKept
<1>2. CASE \E sp \in Spans, t \in Turns : AppendThinkingSpan(sp, t)
  BY <1>2 DEF AppendThinkingSpan, Insert, RuntimeRooted, TurnsKept
<1>3. CASE \E sp \in DOMAIN thinking_spans : SpanUpdated(sp)
  BY <1>3 DEF SpanUpdated, RuntimeRooted, TurnsKept
<1>4. CASE \E c \in Calls, t \in Turns : AppendToolCall(c, t)
  BY <1>4 DEF AppendToolCall, Insert, RuntimeRooted, TurnsKept
<1>5. CASE \E c \in Calls, outcome \in {"output", "error"} : AppendToolResult(c, outcome)
  BY <1>5 DEF AppendToolResult, Insert, RuntimeRooted, TurnsKept
<1> QED
  BY <1>1, <1>2, <1>3, <1>4, <1>5 DEF RuntimeEffect

\* One entry of the log finds its row.
Resolves(e) ==
    /\ e.session \in DOMAIN soul_sessions
    /\ e.type = "message"     => InSession(e.session, e.target)
    /\ e.type = "thinking"    =>
           /\ e.target \in DOMAIN thinking_spans
           /\ turns[thinking_spans[e.target].turn].session = e.session
    /\ e.type = "tool_call"   =>
           /\ e.target \in DOMAIN tool_calls
           /\ turns[tool_calls[e.target]].session = e.session
    /\ e.type = "tool_result" =>
           /\ e.target \in DOMAIN tool_results \cap DOMAIN tool_calls
           /\ turns[tool_calls[e.target]].session = e.session

\* An entry that found its row goes on finding it.
LEMMA ResolvesStep ==
    ASSUME LogExtended, TurnsKept, RowsKept, SoulGrows, RuntimeRooted,
           NEW e, Resolves(e)
    PROVE  Resolves(e)'
<1>1. e.session \in DOMAIN soul_sessions'
  BY DEF Resolves, SoulGrows
<1>2. e.type = "message" => InSession(e.session, e.target)'
  BY DEF Resolves, InSession, LogExtended
<1>3. \A t \in DOMAIN turns : turns'[t].session = turns[t].session
  BY DEF TurnsKept
<1>4. e.type = "thinking" =>
          /\ e.target \in DOMAIN thinking_spans'
          /\ turns'[thinking_spans'[e.target].turn].session = e.session
  BY <1>3 DEF Resolves, RowsKept, RuntimeRooted
<1>5. e.type = "tool_call" =>
          /\ e.target \in DOMAIN tool_calls'
          /\ turns'[tool_calls'[e.target]].session = e.session
  BY <1>3 DEF Resolves, RowsKept, RuntimeRooted
<1>6. e.type = "tool_result" =>
          /\ e.target \in DOMAIN tool_results' \cap DOMAIN tool_calls'
          /\ turns'[tool_calls'[e.target]].session = e.session
  BY <1>3 DEF Resolves, RowsKept, RuntimeRooted
<1> QED
  BY <1>1, <1>2, <1>4, <1>5, <1>6 DEF Resolves

\* AppendEntry adds one entry and touches no soul session but by its counter.
LEMMA EntryAdded ==
    ASSUME NEW s, NEW type, NEW x, AppendEntry(s, type, x)
    PROVE  \E new : /\ r_soul_session_messages' = r_soul_session_messages \cup {new}
                    /\ new.session = s
                    /\ new.type = type
                    /\ new.target = x
                    /\ s \in DOMAIN soul_sessions'
<1> DEFINE new == [session |-> s, type |-> type, target |-> x,
                   seq |-> soul_sessions[s].next_seq]
<1>1. r_soul_session_messages' = r_soul_session_messages \cup {new}
  BY DEF AppendEntry
<1>2. new.session = s /\ new.type = type /\ new.target = x
  OBVIOUS
<1>3. s \in DOMAIN soul_sessions'
  BY DEF AppendEntry
<1> HIDE DEF new
<1> QED
  BY <1>1, <1>2, <1>3

\* A new entry finds the row its own transaction inserted, or the message its
\* caller passed.
LEMMA NewEntryResolves ==
    ASSUME StoreInv, RuntimeRooted, [StoreNext]_storeVars,
           NEW e \in r_soul_session_messages' \ r_soul_session_messages
    PROVE  Resolves(e)'
<1>1. CASE r_soul_session_messages' = r_soul_session_messages
  BY <1>1
<1>2. ASSUME NEW s \in Sessions, NEW m \in Messages, InSession(s, m), AppendMessageRef(s, m)
      PROVE  Resolves(e)'
  <2>1. /\ e.session = s
        /\ e.type = "message"
        /\ e.target = m
        /\ s \in DOMAIN soul_sessions'
    BY <1>2, EntryAdded DEF AppendMessageRef
  <2>2. InSession(s, m)'
    BY <1>2 DEF AppendMessageRef, InSession
  <2> QED
    BY <2>1, <2>2 DEF Resolves
<1>3. ASSUME NEW sp \in Spans, NEW t \in Turns, AppendThinkingSpan(sp, t)
      PROVE  Resolves(e)'
  <2>1. /\ e.session = turns[t].session
        /\ e.type = "thinking"
        /\ e.target = sp
        /\ turns[t].session \in DOMAIN soul_sessions'
    BY <1>3, EntryAdded DEF AppendThinkingSpan
  <2>2. sp \in DOMAIN thinking_spans' /\ thinking_spans'[sp].turn = t /\ turns' = turns
    BY <1>3 DEF AppendThinkingSpan, Insert
  <2> QED
    BY <2>1, <2>2 DEF Resolves
<1>4. ASSUME NEW c \in Calls, NEW t \in Turns, AppendToolCall(c, t)
      PROVE  Resolves(e)'
  <2>1. /\ e.session = turns[t].session
        /\ e.type = "tool_call"
        /\ e.target = c
        /\ turns[t].session \in DOMAIN soul_sessions'
    BY <1>4, EntryAdded DEF AppendToolCall
  <2>2. c \in DOMAIN tool_calls' /\ tool_calls'[c] = t /\ turns' = turns
    BY <1>4 DEF AppendToolCall, Insert
  <2> QED
    BY <2>1, <2>2 DEF Resolves
<1>5. ASSUME NEW c \in Calls, NEW outcome \in {"output", "error"}, AppendToolResult(c, outcome)
      PROVE  Resolves(e)'
  <2>1. /\ e.session = turns[tool_calls[c]].session
        /\ e.type = "tool_result"
        /\ e.target = c
        /\ turns[tool_calls[c]].session \in DOMAIN soul_sessions'
    BY <1>5, EntryAdded DEF AppendToolResult
  <2>2. /\ c \in DOMAIN tool_results'
        /\ c \in DOMAIN tool_calls
        /\ tool_calls' = tool_calls
        /\ turns' = turns
    BY <1>5 DEF AppendToolResult, Insert
  <2> QED
    BY <2>1, <2>2 DEF Resolves
<1>6. CASE UNCHANGED storeVars
  BY <1>1, <1>6 DEF storeVars
<1>7. CASE SessionStep
  BY <1>1, <1>7 DEF SessionStep, CreateSession, UpdateSessionTitle, AcquireSoulSession
<1>8. CASE MessageStep
  BY <1>1, <1>2, <1>8 DEF MessageStep, AppendMessage
<1>9. CASE TurnStep
  BY <1>1, <1>9 DEF TurnStep, StartTurn, CompleteTurnFirstUpdate, CompleteTurn, FailTurn,
                    FinishFailedTurnFirstUpdate, FinishFailedTurnContext
<1>10. CASE RuntimeStep
  BY <1>1, <1>3, <1>4, <1>5, <1>10
     DEF RuntimeStep, UpdateThinkingSpanSummary, FinishThinkingSpan
<1> QED
  BY <1>6, <1>7, <1>8, <1>9, <1>10 DEF StoreNext

LEMMA EntriesResolveStep ==
    ASSUME StoreInv, RuntimeRooted, EntriesResolve, [StoreNext]_storeVars,
           LogExtended, TurnsKept, RowsKept, SoulGrows
    PROVE  EntriesResolve'
<1>1. \A e \in r_soul_session_messages' : Resolves(e)'
  <2>1. TAKE e \in r_soul_session_messages'
  <2>2. CASE e \in r_soul_session_messages
    <3>1. Resolves(e)
      BY <2>2 DEF EntriesResolve, Resolves
    <3> QED
      BY <3>1, ResolvesStep
  <2>3. CASE e \notin r_soul_session_messages
    BY <2>3, NewEntryResolves
  <2> QED
    BY <2>2, <2>3
<1> QED
  BY <1>1 DEF EntriesResolve, Resolves

\* A row of the runtime is in the log of its turn's session.
Logged(t, type, x) ==
    \E e \in r_soul_session_messages :
        e.session = turns[t].session /\ e.type = type /\ e.target = x

LEMMA LoggedNow ==
    ASSUME NEW t, NEW type, NEW x, AppendEntry(turns[t].session, type, x), turns' = turns
    PROVE  Logged(t, type, x)'
  BY EntryAdded DEF Logged

LEMMA RuntimeRowsLoggedStep ==
    ASSUME RuntimeRooted, RuntimeRowsLogged, RuntimeEffect, LogExtended, TurnsKept
    PROVE  RuntimeRowsLogged'
<1> DEFINE SpanLogged(sp)  == Logged(thinking_spans[sp].turn, "thinking", sp)
           CallLogged(c)   == Logged(tool_calls[c], "tool_call", c)
           ResultLogged(c) == Logged(tool_calls[c], "tool_result", c)
<1>1. /\ \A sp \in DOMAIN thinking_spans : SpanLogged(sp)
      /\ \A c \in DOMAIN tool_calls : CallLogged(c)
      /\ \A c \in DOMAIN tool_results : ResultLogged(c)
  BY DEF RuntimeRowsLogged, Logged
<1>2. \A sp \in DOMAIN thinking_spans : SpanLogged(sp)'
  <2>1. TAKE sp \in DOMAIN thinking_spans
  <2>2. /\ thinking_spans'[sp].turn = thinking_spans[sp].turn
        /\ thinking_spans[sp].turn \in DOMAIN turns
    BY RowsKeptStep DEF RowsKept, RuntimeRooted
  <2>3. Logged(thinking_spans[sp].turn, "thinking", sp)
    BY <1>1
  <2> QED
    BY <2>2, <2>3 DEF Logged, LogExtended, TurnsKept
<1>3. \A c \in DOMAIN tool_calls : CallLogged(c)'
  <2>1. TAKE c \in DOMAIN tool_calls
  <2>2. tool_calls'[c] = tool_calls[c] /\ tool_calls[c] \in DOMAIN turns
    BY RowsKeptStep DEF RowsKept, RuntimeRooted
  <2>3. Logged(tool_calls[c], "tool_call", c)
    BY <1>1
  <2> QED
    BY <2>2, <2>3 DEF Logged, LogExtended, TurnsKept
<1>4. \A c \in DOMAIN tool_results : ResultLogged(c)'
  <2>1. TAKE c \in DOMAIN tool_results
  <2>2. tool_calls'[c] = tool_calls[c] /\ tool_calls[c] \in DOMAIN turns
    BY RowsKeptStep DEF RowsKept, RuntimeRooted
  <2>3. Logged(tool_calls[c], "tool_result", c)
    BY <1>1
  <2> QED
    BY <2>2, <2>3 DEF Logged, LogExtended, TurnsKept
<1>5. \A sp \in DOMAIN thinking_spans' \ DOMAIN thinking_spans : SpanLogged(sp)'
  <2>1. CASE \E sp \in Spans, t \in Turns : AppendThinkingSpan(sp, t)
    <3>1. PICK sp \in Spans, t \in Turns : AppendThinkingSpan(sp, t)
      BY <2>1
    <3>2. /\ DOMAIN thinking_spans' = DOMAIN thinking_spans \cup {sp}
          /\ thinking_spans'[sp].turn = t
      BY <3>1 DEF AppendThinkingSpan, Insert
    <3>3. Logged(t, "thinking", sp)'
      BY <3>1, LoggedNow DEF AppendThinkingSpan
    <3> QED
      BY <3>2, <3>3 DEF Logged
  <2>2. CASE DOMAIN thinking_spans' = DOMAIN thinking_spans
    BY <2>2
  <2> QED
    BY <2>1, <2>2 DEF RuntimeEffect, RuntimeTables, SpanUpdated, AppendToolCall, AppendToolResult
<1>6. \A c \in DOMAIN tool_calls' \ DOMAIN tool_calls : CallLogged(c)'
  <2>1. CASE \E c \in Calls, t \in Turns : AppendToolCall(c, t)
    <3>1. PICK c \in Calls, t \in Turns : AppendToolCall(c, t)
      BY <2>1
    <3>2. DOMAIN tool_calls' = DOMAIN tool_calls \cup {c} /\ tool_calls'[c] = t
      BY <3>1 DEF AppendToolCall, Insert
    <3>3. Logged(t, "tool_call", c)'
      BY <3>1, LoggedNow DEF AppendToolCall
    <3> QED
      BY <3>2, <3>3 DEF Logged
  <2>2. CASE DOMAIN tool_calls' = DOMAIN tool_calls
    BY <2>2
  <2> QED
    BY <2>1, <2>2 DEF RuntimeEffect, RuntimeTables, SpanUpdated, AppendThinkingSpan, AppendToolResult
<1>7. \A c \in DOMAIN tool_results' \ DOMAIN tool_results : ResultLogged(c)'
  <2>1. CASE \E c \in Calls, outcome \in {"output", "error"} : AppendToolResult(c, outcome)
    <3>1. PICK c \in Calls, outcome \in {"output", "error"} : AppendToolResult(c, outcome)
      BY <2>1
    <3>2. DOMAIN tool_results' = DOMAIN tool_results \cup {c} /\ tool_calls' = tool_calls
      BY <3>1 DEF AppendToolResult, Insert
    <3>3. Logged(tool_calls[c], "tool_result", c)'
      BY <3>1, EntryAdded DEF AppendToolResult, Logged
    <3> QED
      BY <3>2, <3>3 DEF Logged
  <2>2. CASE DOMAIN tool_results' = DOMAIN tool_results
    BY <2>2
  <2> QED
    BY <2>1, <2>2 DEF RuntimeEffect, RuntimeTables, SpanUpdated, AppendThinkingSpan, AppendToolCall
<1>8. /\ \A sp \in DOMAIN thinking_spans' : SpanLogged(sp)'
      /\ \A c \in DOMAIN tool_calls' : CallLogged(c)'
      /\ \A c \in DOMAIN tool_results' : ResultLogged(c)'
  BY <1>2, <1>3, <1>4, <1>5, <1>6, <1>7
<1> QED
  BY <1>8 DEF RuntimeRowsLogged, Logged

\* The number a turn's end leaves in last_seen names a message of the log.
Seen(s, seq) ==
    \E row \in r_session_messages :
        row.session = s /\ row.seq = seq /\ InSoulLog(s, row.message)

LEMMA LastSeenStep ==
    ASSUME StoreInv, LastSeenInLog, [StoreNext]_storeVars, LogExtended
    PROVE  LastSeenInLog'
<1>1. \A s \in DOMAIN soul_sessions' :
          \/ soul_sessions'[s].last_seen = 0
          \/ /\ s \in DOMAIN soul_sessions
             /\ soul_sessions'[s].last_seen = soul_sessions[s].last_seen
          \/ Seen(s, soul_sessions'[s].last_seen)
  <2> DEFINE Fine == \A s \in DOMAIN soul_sessions' :
                         \/ soul_sessions'[s].last_seen = 0
                         \/ /\ s \in DOMAIN soul_sessions
                            /\ soul_sessions'[s].last_seen = soul_sessions[s].last_seen
                         \/ Seen(s, soul_sessions'[s].last_seen)
  <2> SUFFICES Fine
    OBVIOUS
  <2>0. \A s \in DOMAIN soul_sessions : soul_sessions[s] \in SoulRow
    BY DEF StoreInv, StoreTypeOK
  <2>1. CASE soul_sessions' = soul_sessions
    BY <2>1
  <2>2. ASSUME NEW s \in Sessions, AcquireSoulSession(s)
        PROVE  Fine
    BY <2>2 DEF AcquireSoulSession, Insert
  <2>3. ASSUME NEW s, NEW type, NEW x, AppendEntry(s, type, x)
        PROVE  Fine
    BY <2>0, <2>3 DEF AppendEntry, SoulRow
  <2>4. ASSUME NEW t \in DOMAIN turns, NEW row \in r_session_messages,
               row.session = turns[t].session, InSoulLog(row.session, row.message),
               CompleteTurn(t, row.seq) \/ FinishFailedTurnContext(t, row.seq)
        PROVE  Fine
    <3> DEFINE s == turns[t].session
    <3>1. Seen(s, row.seq)
      BY <2>4 DEF Seen
    <3>2. s \in DOMAIN soul_sessions
      BY DEF StoreInv, TurnWindow
    <3>3. soul_sessions[s] \in SoulRow
      BY <2>0, <3>2
    <3>4. PICK v \in {soul_sessions[s].last_seen, row.seq} :
              soul_sessions' = [soul_sessions EXCEPT ![s].last_seen = v]
      <4>1. CASE CompleteTurn(t, row.seq)
        BY <4>1 DEF CompleteTurn
      <4>2. CASE FinishFailedTurnContext(t, row.seq)
        BY <3>2, <4>2 DEF FinishFailedTurnContext
      <4> QED
        BY <2>4, <4>1, <4>2
    <3>5. soul_sessions' =
              [soul_sessions EXCEPT ![s] = [soul_sessions[s] EXCEPT !.last_seen = v]]
      BY <3>2, <3>4
    <3>6. soul_sessions'[s].last_seen = v
      BY <3>2, <3>3, <3>5 DEF SoulRow
    <3> QED
      BY <3>1, <3>2, <3>4, <3>5, <3>6
  <2> HIDE DEF Fine
  <2>5. CASE UNCHANGED storeVars
    BY <2>1, <2>5 DEF storeVars, Fine
  <2>6. CASE SessionStep
    BY <2>1, <2>2, <2>6 DEF SessionStep, CreateSession, UpdateSessionTitle, Fine
  <2>7. CASE MessageStep
    BY <2>1, <2>3, <2>7 DEF MessageStep, AppendMessage, AppendMessageRef, Fine
  <2>8. CASE TurnStep
    <3>1. CASE soul_sessions' = soul_sessions
      BY <2>1, <3>1 DEF Fine
    <3> QED
      BY <2>4, <2>8, <3>1 DEF TurnStep, StartTurn, CompleteTurnFirstUpdate, FailTurn,
                              FinishFailedTurnFirstUpdate
  <2>9. CASE RuntimeStep
    <3>1. CASE soul_sessions' = soul_sessions
      BY <2>1, <3>1 DEF Fine
    <3> QED
      BY <2>3, <2>9, <3>1 DEF RuntimeStep, AppendThinkingSpan, UpdateThinkingSpanSummary,
                              FinishThinkingSpan, AppendToolCall, AppendToolResult
  <2> QED
    BY <2>5, <2>6, <2>7, <2>8, <2>9 DEF StoreNext
<1>2. \A s \in DOMAIN soul_sessions :
          soul_sessions[s].last_seen = 0 \/ Seen(s, soul_sessions[s].last_seen)
  BY DEF LastSeenInLog, Seen
<1>3. ASSUME NEW s \in DOMAIN soul_sessions'
      PROVE  (soul_sessions[s].last_seen = 0 \/ Seen(s, soul_sessions[s].last_seen))'
  <2>1. \/ soul_sessions'[s].last_seen = 0
        \/ Seen(s, soul_sessions'[s].last_seen)
    BY <1>1, <1>2
  <2> QED
    BY <2>1 DEF Seen, InSoulLog, LogExtended
<1> QED
  BY <1>3 DEF LastSeenInLog, Seen

-----------------------------------------------------------------------------
LEMMA LogInvInit == StoreInit => LogInv
<1> SUFFICES ASSUME StoreInit PROVE LogInv
  OBVIOUS
<1>1. StoreInv
  BY StoreInvInit
<1>2. DOMAIN EmptyTable = {}
  BY DEF EmptyTable
<1> QED
  BY <1>1, <1>2 DEF StoreInit, LogInv, RuntimeRooted, EntriesResolve, RuntimeRowsLogged,
                    LastSeenInLog

LEMMA LogInvStep == LogInv /\ [StoreNext]_storeVars => LogInv'
<1> SUFFICES ASSUME LogInv, [StoreNext]_storeVars PROVE LogInv'
  OBVIOUS
<1>1. StoreInv /\ StoreInv'
  BY StoreInvStep DEF LogInv
<1>2. SoulTypeOK /\ RuntimeTypeOK
  BY <1>1, TypeParts DEF StoreInv
<1>3. LogExtended /\ TurnsKept
  BY <1>1, HistoryStep
<1>4. RuntimeEffect /\ RowsKept
  BY <1>2, RuntimeStepEffect, RowsKeptStep
<1>5. SoulGrows
  BY <1>1, <1>2, SoulStepEffect, SoulGrowsStep DEF StoreInv
<1>6. RuntimeRooted'
  BY <1>3, <1>4, RuntimeRootedStep DEF LogInv
<1>7. EntriesResolve'
  BY <1>1, <1>3, <1>4, <1>5, EntriesResolveStep DEF LogInv
<1>8. RuntimeRowsLogged'
  BY <1>3, <1>4, RuntimeRowsLoggedStep DEF LogInv
<1>9. LastSeenInLog'
  BY <1>1, <1>3, LastSeenStep DEF LogInv
<1> QED
  BY <1>1, <1>6, <1>7, <1>8, <1>9 DEF LogInv

LEMMA LogInvariant == StoreSpec => []LogInv
<1>1. StoreInit => LogInv
  BY LogInvInit
<1>2. LogInv /\ [StoreNext]_storeVars => LogInv'
  BY LogInvStep
<1> QED
  BY <1>1, <1>2, PTL DEF StoreSpec

\* Every log entry finds its row: assembly_input and the snapshot never meet
\* a reference to nothing.
THEOREM EntriesAlwaysResolve == StoreSpec => []EntriesResolve
<1>1. LogInv => EntriesResolve
  BY DEF LogInv
<1> QED
  BY <1>1, LogInvariant, PTL

\* Every span, call and result is in the log of its turn's session.
THEOREM RowsAlwaysLogged == StoreSpec => []RuntimeRowsLogged
<1>1. LogInv => RuntimeRowsLogged
  BY DEF LogInv
<1> QED
  BY <1>1, LogInvariant, PTL

\* last_seen_session_seq is 0 or the number of a message in the soul's log,
\* although concurrent turns may move it back.
THEOREM LastSeenAlwaysLogged == StoreSpec => []LastSeenInLog
<1>1. LogInv => LastSeenInLog
  BY DEF LogInv
<1> QED
  BY <1>1, LogInvariant, PTL
=============================================================================
