----------------------------- MODULE CellsProofs -----------------------------
(***************************************************************************)
(* No cell leaves a soma behind, for any number of launches, ports and     *)
(* restarts.  A soma that runs is held by its cell: it is the one the cell *)
(* waits for or watches (Held), and so the one that it kills when it ends. *)
(* Only a signal that comes while the cell waits, or before its handler is *)
(* there, lets go of it.                                                   *)
(***************************************************************************)
EXTENDS Cells, FiniteSetTheorems, TLAPS

Phases == {"off", "port", "spawn", "health", "ready", "watch", "respawn", "rehealth", "ended"}

OwnSomas == SomasOf(Client) \cap alive

\* The soma of the client that its main holds.
Held == CASE phase[Client] \in {"health", "ready", "watch"} -> {child[Client]}
          [] phase[Client] = "rehealth" -> {replacement}
          [] OTHER -> {}

PhasesOK == phase \in [Cells -> Phases] /\ DOMAIN child = Cells

LaunchOK(l) ==
    /\ phase[l] \in {"health", "ready", "watch"} => child[l] = l
    /\ l \in alive => phase[l] \in {"health", "ready", "watch"} \/ (phase[l] = "ended" /\ l \in cut)

ClientOK ==
    \/ OwnSomas \subseteq Held
    \/ phase[Client] = "ended" /\ Client \in cut /\ \E s : OwnSomas \subseteq {s}

CellsInv == PhasesOK /\ (\A l \in Launches : LaunchOK(l)) /\ ClientOK

-----------------------------------------------------------------------------
\* What is not a launch's own step may kill its soma, but starts none for it.
LEMMA LaunchKept ==
    ASSUME NEW l \in Launches, LaunchOK(l),
           phase'[l] = phase[l], child'[l] = child[l],
           l \in alive' => l \in alive, cut \subseteq cut'
    PROVE  LaunchOK(l)'
BY DEF LaunchOK

\* The same of the client.
LEMMA ClientKept ==
    ASSUME ClientOK,
           phase'[Client] = phase[Client], child'[Client] = child[Client],
           UNCHANGED replacement, alive' \cap Pids \subseteq alive, cut \subseteq cut'
    PROVE  ClientOK'
<1>1. OwnSomas' \subseteq OwnSomas /\ Held' = Held
  BY DEF OwnSomas, SomasOf, Held
<1> QED
  BY <1>1 DEF ClientOK

LEMMA CellsDiffer ==
    /\ Client \in Cells /\ Client \notin Launches
    /\ \A l \in Launches : l \in Cells /\ l # Client /\ l \notin Pids
BY CellsAssumption DEF Cells

\* A launch's own step.
LEMMA LaunchSteps ==
    ASSUME CellsInv, NEW c \in Launches, CellStep(c) \/ Signal(c) \/ AcquirePort(c)
    PROVE  CellsInv'
<1>0. c \in Cells /\ c # Client /\ c \notin Pids /\ PhasesOK /\ LaunchOK(c)
  BY CellsDiffer DEF CellsInv
<1>1. /\ PhasesOK'
      /\ \A d \in Cells \ {c} : phase'[d] = phase[d] /\ child'[d] = child[d]
      /\ UNCHANGED replacement
      /\ alive' \subseteq alive \cup {c}
      /\ cut \subseteq cut'
  <2>1. CASE AcquirePort(c)
    BY <1>0, <2>1 DEF PhasesOK, Phases, AcquirePort, Ends, followVars
  <2>2. CASE SpawnSoma(c)
    BY <1>0, <2>2 DEF PhasesOK, Phases, SpawnSoma, Ends, followVars
  <2>3. CASE Healthy(c) \/ Watch(c) \/ HealthTimeout(c) \/ ChildExited(c) \/ Signal(c)
    BY <1>0, <2>3 DEF PhasesOK, Phases, Healthy, Watch, HealthTimeout, ChildExited, Signal, Ends, Kill, Gone,
       machineVars, followVars
  <2> QED
    BY <2>1, <2>2, <2>3 DEF CellStep
<1>2. LaunchOK(c)'
  <2>1. CASE AcquirePort(c)
    BY <1>0, <2>1 DEF PhasesOK, LaunchOK, AcquirePort, Ends
  <2>2. CASE SpawnSoma(c)
    BY <1>0, <2>2 DEF PhasesOK, LaunchOK, SpawnSoma, Ends
  <2>3. CASE Healthy(c) \/ Watch(c) \/ HealthTimeout(c) \/ ChildExited(c)
    BY <1>0, <2>3 DEF PhasesOK, LaunchOK, Healthy, Watch, HealthTimeout, ChildExited, Ends, Kill, Gone,
       machineVars
  <2>4. CASE Signal(c)
    BY <1>0, <2>4 DEF PhasesOK, LaunchOK, Signal, Ends, Kill, Gone
  <2> QED
    BY <2>1, <2>2, <2>3, <2>4 DEF CellStep
<1>3. ASSUME NEW l \in Launches, l # c PROVE LaunchOK(l)'
  BY <1>1, <1>3, LaunchKept, CellsDiffer DEF CellsInv
<1>4. ClientOK'
  BY <1>0, <1>1, ClientKept, CellsDiffer DEF CellsInv
<1> QED
  BY <1>1, <1>2, <1>3, <1>4 DEF CellsInv

\* A step of the client's main leaves the launches' somas alone.
LEMMA ClientFrame ==
    ASSUME CellsInv,
           CellStep(Client) \/ Signal(Client) \/ (\E url : FindServer(url)) \/ ClientStep \/ PollFails
    PROVE  PhasesOK' /\ \A l \in Launches : LaunchOK(l)'
<1>0. PhasesOK /\ ClientOK
  BY DEF CellsInv
<1>1. /\ PhasesOK'
      /\ \A d \in Cells \ {Client} : phase'[d] = phase[d] /\ child'[d] = child[d]
      /\ alive' \subseteq alive \cup Pids
      /\ cut \subseteq cut'
  <2>1. CASE AcquirePort(Client) \/ \E url : FindServer(url)
    BY <1>0, <2>1, CellsDiffer DEF PhasesOK, Phases, AcquirePort, FindServer, Ends, machineVars
  <2>2. CASE SpawnSoma(Client)
    BY <1>0, <2>2, CellsDiffer DEF PhasesOK, Phases, SpawnSoma, StartSoma, FreePids, Ends
  <2>3. CASE Healthy(Client) \/ Watch(Client) \/ HealthTimeout(Client) \/ ChildExited(Client) \/ Signal(Client)
    BY <1>0, <2>3, CellsDiffer DEF PhasesOK, Phases, Healthy, Watch, HealthTimeout, ChildExited, Signal, Ends,
       Kill, Gone, machineVars
  <2>4. CASE Respawn
    BY <1>0, <2>4, CellsDiffer DEF PhasesOK, Phases, Respawn, RespawnFor, StartSoma, FreePids, Ends
  <2>5. CASE Replaced \/ ReplacementTimeout \/ \E url : Poll(url)
    BY <1>0, <2>5, CellsDiffer DEF PhasesOK, Phases, Poll, Replaced, ReplacementTimeout, Ends, Kill, Gone,
       machineVars
  <2> QED
    BY <2>1, <2>2, <2>3, <2>4, <2>5 DEF CellStep, ClientStep, PollFails
<1>2. ASSUME NEW l \in Launches PROVE LaunchOK(l)'
  BY <1>1, <1>2, LaunchKept, CellsDiffer DEF CellsInv
<1> QED
  BY <1>1, <1>2

\* The client's first soma.
LEMMA ClientCellSteps ==
    ASSUME CellsInv, CellStep(Client) \/ Signal(Client) \/ \E url : FindServer(url)
    PROVE  ClientOK'
<1>0. PhasesOK /\ ClientOK /\ Client \in Cells
  BY CellsDiffer DEF CellsInv
<1>1. CASE AcquirePort(Client) \/ \E url : FindServer(url)
  BY <1>0, <1>1 DEF PhasesOK, ClientOK, AcquirePort, FindServer, Ends, Held, OwnSomas, SomasOf, machineVars
<1>2. CASE SpawnSoma(Client)
  <2>1. OwnSomas = {}
    BY <1>0, <1>2 DEF SpawnSoma, ClientOK, Held
  <2>2. CASE Ends(Client) /\ UNCHANGED <<alive, web>>
    BY <1>0, <2>1, <2>2 DEF ClientOK, OwnSomas, SomasOf, Ends
  <2>3. CASE /\ phase' = [phase EXCEPT ![Client] = "health"]
             /\ child' = [child EXCEPT ![Client] = FreePid]
             /\ alive' = alive \cup {FreePid}
             /\ FreePid \in FreePids
    BY <1>0, <2>1, <2>3 DEF PhasesOK, ClientOK, OwnSomas, SomasOf, Held
  <2> QED
    BY <1>2, <2>2, <2>3 DEF SpawnSoma, StartSoma
<1>3. CASE Healthy(Client) \/ Watch(Client) \/ HealthTimeout(Client) \/ ChildExited(Client)
  <2>1. OwnSomas \subseteq {child[Client]}
    BY <1>0, <1>3 DEF Healthy, Watch, HealthTimeout, ChildExited, ClientOK, Held
  <2> QED
    BY <1>0, <1>3, <2>1 DEF PhasesOK, ClientOK, OwnSomas, SomasOf, Held,
       Healthy, Watch, HealthTimeout, ChildExited, Ends, Kill, Gone, machineVars
<1>4. CASE Signal(Client)
  <2>1. phase'[Client] = "ended" /\ alive' \subseteq alive
    BY <1>0, <1>4 DEF PhasesOK, Signal, Ends, Kill, Gone
  <2>2. CASE phase[Client] \in {"health", "ready", "rehealth"}
    <3>1. Client \in cut' /\ \E s : Held = {s}
      BY <1>4, <2>2 DEF Signal, Held
    <3> QED
      BY <1>0, <1>4, <2>1, <2>2, <3>1 DEF ClientOK, OwnSomas, SomasOf, Signal
  <2>3. CASE phase[Client] \notin {"health", "ready", "rehealth"}
    <3>1. OwnSomas' = {}
      BY <1>0, <1>4, <2>1, <2>3 DEF Signal, Kill, Gone, ClientOK, Held, OwnSomas, SomasOf
    <3> QED
      BY <3>1 DEF ClientOK
  <2> QED
    BY <2>2, <2>3
<1> QED
  BY <1>1, <1>2, <1>3, <1>4 DEF CellStep

\* The restarts.
LEMMA ClientRestarts ==
    ASSUME CellsInv, ClientStep \/ PollFails
    PROVE  ClientOK'
<1>0. PhasesOK /\ ClientOK /\ Client \in Cells
  BY CellsDiffer DEF CellsInv
<1>1. CASE \E url : Poll(url)
  BY <1>0, <1>1 DEF ClientOK, OwnSomas, SomasOf, Held, Poll, Kill, Gone
<1>2. CASE Respawn
  <2>1. OwnSomas = {}
    BY <1>0, <1>2 DEF Respawn, RespawnFor, ClientOK, Held
  <2>2. CASE Ends(Client) /\ UNCHANGED <<alive, web>>
    BY <1>0, <2>1, <2>2 DEF ClientOK, OwnSomas, SomasOf, Ends
  <2>3. CASE /\ phase' = [phase EXCEPT ![Client] = "rehealth"]
             /\ replacement' = FreePid
             /\ alive' = alive \cup {FreePid}
             /\ FreePid \in FreePids
    BY <1>0, <2>1, <2>3 DEF PhasesOK, ClientOK, OwnSomas, SomasOf, Held
  <2> QED
    BY <1>2, <2>2, <2>3 DEF Respawn, RespawnFor, StartSoma
<1>3. CASE Replaced \/ ReplacementTimeout
  <2>1. OwnSomas \subseteq {replacement}
    BY <1>0, <1>3 DEF Replaced, ReplacementTimeout, ClientOK, Held
  <2> QED
    BY <1>0, <1>3, <2>1 DEF PhasesOK, ClientOK, OwnSomas, SomasOf, Held,
       Replaced, ReplacementTimeout, Ends, Kill, Gone, machineVars
<1> QED
  BY <1>1, <1>2, <1>3 DEF ClientStep, PollFails

-----------------------------------------------------------------------------
LEMMA CellsInvStart == Init => CellsInv
BY CellsDiffer DEF Init, CellsInv, PhasesOK, Phases, LaunchOK, ClientOK, OwnSomas

LEMMA CellsInvStep ==
    ASSUME CellsInv, [Next]_vars
    PROVE  CellsInv'
<1>1. ASSUME UNCHANGED <<phase, child, replacement, cut>>, alive' \subseteq alive
      PROVE  CellsInv'
  <2>1. \A l \in Launches : LaunchOK(l)'
    BY <1>1, LaunchKept DEF CellsInv
  <2>2. ClientOK'
    BY <1>1, ClientKept DEF CellsInv
  <2>3. PhasesOK'
    BY <1>1 DEF CellsInv, PhasesOK
  <2> QED
    BY <2>1, <2>2, <2>3 DEF CellsInv
<1>2. CASE UNCHANGED vars
  BY <1>1, <1>2 DEF vars, machineVars, followVars
<1>3. ASSUME NEW c \in Cells, CellStep(c) \/ Signal(c) PROVE CellsInv'
  <2>1. CASE c \in Launches
    BY <1>3, <2>1, LaunchSteps
  <2>2. CASE c = Client
    BY <1>3, <2>2, ClientFrame, ClientCellSteps DEF CellsInv
  <2> QED
    BY <2>1, <2>2 DEF Cells
<1>4. ASSUME NEW l \in Launches, AcquirePort(l) PROVE CellsInv'
  BY <1>4, LaunchSteps
<1>5. ASSUME NEW l \in Launches, ServeInspect(l) PROVE CellsInv'
  BY <1>1, <1>5 DEF ServeInspect, followVars
<1>6. CASE FindServer(CurrentServerUrl) \/ FindServer(env)
  BY <1>6, ClientFrame, ClientCellSteps DEF CellsInv
<1>7. CASE ClientStep \/ PollFails
  BY <1>7, ClientFrame, ClientRestarts DEF CellsInv
<1>8. ASSUME NEW s \in Somas, SomaBinds(s) \/ SomaExits(s) \/ WebExits(s) PROVE CellsInv'
  <2>1. UNCHANGED <<phase, child, replacement, cut>> /\ alive' \subseteq alive
    BY <1>8 DEF SomaBinds, SomaExits, WebExits, Gone, followVars
  <2> QED
    BY <1>1, <2>1
<1>9. ASSUME NEW p \in Contested, OtherProgram(p) PROVE CellsInv'
  BY <1>1, <1>9 DEF OtherProgram, followVars
<1> QED
  BY <1>2, <1>3, <1>4, <1>5, <1>6, <1>7, <1>8, <1>9 DEF Next

LEMMA HeldIsEnough ==
    ASSUME CellsInv
    PROVE  NoOrphanSoma
<1>1. ASSUME NEW c \in Cells \ cut, phase[c] = "ended" PROVE SomasOf(c) \cap alive = {}
  <2>1. CASE c = Client
    BY <1>1, <2>1 DEF CellsInv, ClientOK, OwnSomas, Held
  <2>2. CASE c \in Launches
    BY <1>1, <2>2, CellsDiffer DEF CellsInv, LaunchOK, SomasOf
  <2> QED
    BY <1>1, <2>1, <2>2 DEF Cells
<1>2. PICK s : OwnSomas \subseteq {s}
  BY DEF CellsInv, ClientOK, Held
<1>3. OwnSomas = {} \/ OwnSomas = {s}
  BY <1>2
<1>4. Cardinality({}) = 0 /\ Cardinality({s}) = 1
  BY FS_EmptySet, FS_Singleton
<1>5. Cardinality(OwnSomas) <= 1
  BY <1>3, <1>4
<1> QED
  BY <1>1, <1>5 DEF NoOrphanSoma, OwnSomas

\* However many launches, restarts, crashes of somas and signals: no cell
\* leaves a soma behind (NoOrphanSoma), unless a signal came before main.rs
\* handled it, and the client never has two.
THEOREM NoSomaIsOrphaned == Spec => []NoOrphanSoma
<1>1. Init => CellsInv
  BY CellsInvStart
<1>2. CellsInv /\ [Next]_vars => CellsInv'
  BY CellsInvStep
<1>3. CellsInv => NoOrphanSoma
  BY HeldIsEnough
<1> QED
  BY <1>1, <1>2, <1>3, PTL DEF Spec
=============================================================================
