------------------------------- MODULE Cells -------------------------------
(***************************************************************************)
(* The two dev-mode cells (apps/server/cell, apps/client/cell): each takes *)
(* a TCP port, starts its soma on it, waits for it to answer, reports its  *)
(* state over a socket, and watches the soma until it exits or a signal    *)
(* comes.  The client cell also follows the server's URL: when it changes, *)
(* the client's soma is replaced by one that talks to the new one.         *)
(*                                                                         *)
(* The server's soma listens on its port itself; the client's runs a web   *)
(* server (vite) of its own that does, and that does not die with it.      *)
(*                                                                         *)
(* A server's URL is its port.  All cells share one namespace: launches of *)
(* the server read and write the same port file and serve status at the    *)
(* same socket path.  Other programs of the machine come and go on ports.  *)
(***************************************************************************)
EXTENDS Integers, FiniteSets

CONSTANTS
    Launches,      \* launches of the server cell, at once or in turn
    Client,        \* the client cell
    Ports,
    EnvUrls,       \* what MINI_STIM_SERVER_URL may be, NoPort when it is not set
    Started(_),    \* bound: the launches there are when it is that
    NoPort,
    None,
    Free, Other,   \* a port nobody, or another program, listens on
    Pids,          \* bound: of the client's somas; a restart takes a free one
    Contested      \* bound: ports that other programs take

Cells == Launches \cup {Client}

\* Somas are told apart by pid: the client starts several.
Somas == Launches \cup Pids

ASSUME CellsAssumption ==
    /\ Contested \subseteq Ports
    /\ Client \notin Launches
    /\ Launches \cap Pids = {}
    /\ {None, Free, Other} \cap Somas = {} /\ Free # Other /\ NoPort \notin Ports

VARIABLES
    (* the machine *)
    bound,         \* who listens on a port: a soma or its web server, Other or Free
    alive,         \* somas that run
    web,           \* client somas whose web server runs
    file,          \* the stored port of the server, of the client
    served,        \* launches that have bound the socket path
    socket,        \* the last of them, None before the first
    env,           \* MINI_STIM_SERVER_URL
    (* the cells *)
    phase,         \* where main is
    port,
    child,         \* the soma of the variable child
    (* the client *)
    active,        \* active_server_url
    target,        \* the URL a replacement is started for
    replacement,   \* the soma local to restart_client_soma
    serves,        \* the server URL the client's last soma was given
    (* history *)
    cut            \* cells whose signal nobody handled, or that hit a restart

socketVars  == <<file, served, socket, env>>
machineVars == <<bound, alive, web, socketVars>>
followVars  == <<active, target, replacement, serves>>
vars == <<machineVars, phase, port, child, followVars, cut>>

App(c) == IF c = Client THEN "client" ELSE "server"

SomasOf(c) == IF c = Client THEN Pids ELSE {c}

PortOf(s) == IF s \in Launches THEN port[s] ELSE port[Client]

-----------------------------------------------------------------------------
(***************************************************************************)
(* The machine                                                             *)
(***************************************************************************)
Freed(s) == [p \in Ports |-> IF bound[p] = s THEN Free ELSE bound[p]]

\* The process that listens for a soma.
Listening(s) == s \in web \/ s \in Launches \cap alive

\* It binds the soma's port, or ends when another has it (--strictPort).
SomaBinds(s) ==
    /\ Listening(s)
    /\ bound[PortOf(s)] # s
    /\ IF bound[PortOf(s)] = Free
       THEN bound' = [bound EXCEPT ![PortOf(s)] = s] /\ UNCHANGED <<alive, web>>
       ELSE alive' = alive \ (Launches \cap {s}) /\ web' = web \ {s} /\ UNCHANGED bound
    /\ UNCHANGED <<socketVars, phase, port, child, followVars, cut>>

\* The soma is gone; what it listened on is free, but not what its web server does.
Gone(s) ==
    /\ alive' = alive \ {s}
    /\ bound' = IF s \in Launches THEN Freed(s) ELSE bound

\* A crash, a signal of its own, or the end of its web server.
SomaExits(s) ==
    /\ s \in alive
    /\ Gone(s)
    /\ UNCHANGED <<web, socketVars, phase, port, child, followVars, cut>>

WebExits(s) ==
    /\ s \in web
    /\ web' = web \ {s}
    /\ bound' = Freed(s)
    /\ UNCHANGED <<alive, socketVars, phase, port, child, followVars, cut>>

OtherProgram(p) ==
    /\ \/ bound[p] = Free  /\ bound' = [bound EXCEPT ![p] = Other]
       \/ bound[p] = Other /\ bound' = [bound EXCEPT ![p] = Free]
    /\ UNCHANGED <<alive, web, socketVars, phase, port, child, followVars, cut>>

\* main is over, and what it knew with it.
Ends(c) ==
    /\ phase' = [phase EXCEPT ![c] = "ended"]
    /\ child' = [child EXCEPT ![c] = None]
    /\ IF c = Client
       THEN active' = NoPort /\ target' = NoPort /\ replacement' = None /\ serves' = NoPort
       ELSE UNCHANGED followVars

\* start_kill and wait: SIGKILL, which leaves a soma no time to end what it runs.
Kill(s) == Gone(s) /\ UNCHANGED web

-----------------------------------------------------------------------------
(***************************************************************************)
(* Both cells                                                              *)
(***************************************************************************)
\* acquire_stored_tcp_port: the stored port if it can be bound, or any that
\* can; either is released at once.  With none to be had, or a file that can
\* not be read or written, main returns.  The first act of a launch; the
\* client looks for a server before.
AcquirePort(c) ==
    /\ phase[c] = IF c = Client THEN "port" ELSE "off"
    /\ LET stored == file[App(c)]
           reusable == stored # NoPort /\ bound[stored] = Free
       IN \/ \E p \in Ports :
              /\ bound[p] = Free
              /\ reusable => p = stored
              /\ port' = [port EXCEPT ![c] = p]
              /\ file' = [file EXCEPT ![App(c)] = p]
              /\ phase' = [phase EXCEPT ![c] = "spawn"]
              /\ UNCHANGED <<child, followVars>>
          \/ Ends(c) /\ UNCHANGED <<port, file>>
    /\ UNCHANGED <<bound, alive, web, served, socket, env, cut>>

\* serve_inspect, in a task of its own: what is at the path is removed first.
ServeInspect(l) ==
    /\ phase[l] \in {"spawn", "health", "ready", "watch"}
    /\ l \notin served
    /\ served' = served \cup {l}
    /\ socket' = l
    /\ UNCHANGED <<bound, alive, web, file, env, phase, port, child, followVars, cut>>

FreePids == Pids \ (alive \cup web \cup {child[Client], replacement})

FreePid == CHOOSE s \in FreePids : TRUE

\* The client's soma s, for the server at url.
StartSoma(s, url) ==
    /\ s \in FreePids
    /\ alive' = alive \cup {s}
    /\ web' = web \cup {s}
    /\ serves' = url

\* The soma is started, or that fails and main returns.
SpawnSoma(c) ==
    /\ phase[c] = "spawn"
    /\ \/ /\ IF c = Client
             THEN StartSoma(FreePid, active)
             ELSE alive' = alive \cup {c} /\ UNCHANGED <<web, serves>>
          /\ child' = [child EXCEPT ![c] = IF c = Client THEN FreePid ELSE c]
          /\ phase' = [phase EXCEPT ![c] = "health"]
          /\ UNCHANGED <<active, target, replacement>>
       \/ Ends(c) /\ UNCHANGED <<alive, web>>
    /\ UNCHANGED <<bound, socketVars, port, cut>>

\* wait_for_health: whoever listens on the port may have answered.  The
\* status says running from here on.
Healthy(c) ==
    /\ phase[c] = "health"
    /\ bound[port[c]] # Free
    /\ phase' = [phase EXCEPT ![c] = "ready"]
    /\ UNCHANGED <<machineVars, port, child, followVars, cut>>

\* select!: the child is waited for, and signals are handled from here on.
Watch(c) ==
    /\ phase[c] = "ready"
    /\ phase' = [phase EXCEPT ![c] = "watch"]
    /\ UNCHANGED <<machineVars, port, child, followVars, cut>>

HealthTimeout(c) ==
    /\ phase[c] = "health"
    /\ Kill(child[c])
    /\ Ends(c)
    /\ UNCHANGED <<socketVars, port, cut>>

\* The soma is taken for running as long as something answers on the port.
ChildSilent(c) ==
    /\ phase[c] = "watch"
    /\ child[c] \notin alive /\ bound[port[c]] = Free
    /\ Ends(c)
    /\ UNCHANGED <<machineVars, port, cut>>

\* child.wait returns, with an error or not, and main with it.
ChildExited(c) ==
    /\ phase[c] = "watch"
    /\ child[c] \notin alive
    /\ Ends(c)
    /\ UNCHANGED <<machineVars, port, cut>>

\* SIGTERM or ctrl-c.  Before the cell watches nobody handles it, and the
\* process just ends.  A restart of the client is dropped where it stands, and
\* the child that is killed is the one already dead.
Signal(c) ==
    /\ phase[c] \notin {"off", "ended"}
    /\ Ends(c)
    /\ IF phase[c] \in {"watch", "respawn", "rehealth"}
       THEN Kill(child[c])
       ELSE UNCHANGED <<alive, bound, web>>
    /\ cut' = IF phase[c] \in {"health", "ready", "rehealth"} THEN cut \cup {c} ELSE cut
    /\ UNCHANGED <<socketVars, port>>

-----------------------------------------------------------------------------
(***************************************************************************)
(* The client follows the server                                           *)
(***************************************************************************)
Running(c) == phase[c] \in {"ready", "watch"}

\* current_server_url: the URL of a server that answers that it is running,
\* or that of the environment: also when the call fails.
CurrentServerUrl == IF socket # None /\ Running(socket) THEN port[socket] ELSE env

FindServer(url) ==
    /\ phase[Client] = "off"
    /\ \/ /\ url # NoPort
          /\ active' = url
          /\ phase' = [phase EXCEPT ![Client] = "port"]
          /\ UNCHANGED <<child, target, replacement, serves>>
       \/ url = NoPort /\ Ends(Client)
    /\ UNCHANGED <<machineVars, port, cut>>

\* Every two seconds; a changed URL begins restart_client_soma.
Poll(url) ==
    /\ phase[Client] = "watch"
    /\ FreePids # {}
    /\ url \notin {NoPort, active}
    /\ target' = url
    /\ Kill(child[Client])
    /\ phase' = [phase EXCEPT ![Client] = "respawn"]
    /\ UNCHANGED <<socketVars, port, child, active, replacement, serves, cut>>

\* The call fails while a server runs.
PollFails == env # CurrentServerUrl /\ Poll(env)

RespawnFor(url) ==
    /\ phase[Client] = "respawn"
    /\ \/ /\ StartSoma(FreePid, url)
          /\ replacement' = FreePid
          /\ phase' = [phase EXCEPT ![Client] = "rehealth"]
          /\ UNCHANGED <<child, active, target>>
       \/ Ends(Client) /\ UNCHANGED <<alive, web>>
    /\ UNCHANGED <<bound, socketVars, port, cut>>

\* The replacement is started for the URL that was active.
RespawnForActive == RespawnFor(active)

Respawn == RespawnFor(target)

Replaced ==
    /\ phase[Client] = "rehealth"
    /\ bound[port[Client]] # Free
    /\ phase' = [phase EXCEPT ![Client] = "watch"]
    /\ child' = [child EXCEPT ![Client] = replacement]
    /\ active' = target
    /\ UNCHANGED <<machineVars, port, target, replacement, serves, cut>>

\* The old child, which is dead, is killed instead of the replacement.
ReplacementLeft ==
    /\ phase[Client] = "rehealth"
    /\ Kill(child[Client])
    /\ Ends(Client)
    /\ UNCHANGED <<socketVars, port, cut>>

ReplacementTimeout ==
    /\ phase[Client] = "rehealth"
    /\ Kill(replacement)
    /\ Ends(Client)
    /\ UNCHANGED <<socketVars, port, cut>>

-----------------------------------------------------------------------------
Init ==
    /\ bound = [p \in Ports |-> Free]
    /\ alive = {}
    /\ web = {}
    /\ file = [app \in {"client", "server"} |-> NoPort]
    /\ served = {}
    /\ socket = None
    /\ env \in EnvUrls
    /\ phase = [c \in Cells |-> "off"]
    /\ port = [c \in Cells |-> NoPort]
    /\ child = [c \in Cells |-> None]
    /\ active = NoPort
    /\ target = NoPort
    /\ replacement = None
    /\ serves = NoPort
    /\ cut = {}

\* What a cell does by itself.
CellStep(c) ==
    \/ phase[c] = "port" /\ AcquirePort(c)
    \/ SpawnSoma(c)
    \/ Healthy(c)
    \/ Watch(c)
    \/ HealthTimeout(c)
    \/ ChildExited(c)

ClientStep ==
    \/ Poll(CurrentServerUrl)
    \/ Respawn
    \/ Replaced
    \/ ReplacementTimeout

\* A soma that was started gets to bind its port, and one whose web server
\* ended ends too.
SomaStep(s) ==
    \/ SomaBinds(s)
    \/ s \notin Launches \cup web /\ SomaExits(s)

Next ==
    \/ \E c \in Cells : CellStep(c) \/ Signal(c)
    \/ \E l \in Launches \cap Started(env) : AcquirePort(l)
    \/ \E l \in Launches : ServeInspect(l)
    \/ FindServer(CurrentServerUrl) \/ FindServer(env)
    \/ ClientStep
    \/ PollFails
    \/ \E s \in Somas : SomaBinds(s) \/ SomaExits(s) \/ WebExits(s)
    \/ \E p \in Contested : OtherProgram(p)

Spec == Init /\ [][Next]_vars

\* A running cell goes on: a timeout expires, wait returns, sleep ends; and so
\* does a soma.  No signal, launch, exit or other program has to come.
FairSpec ==
    /\ Spec
    /\ \A c \in Cells : WF_vars(CellStep(c))
    /\ WF_vars(ClientStep)
    /\ \A s \in Somas : WF_vars(SomaStep(s))

-----------------------------------------------------------------------------
(***************************************************************************)
(* Properties                                                              *)
(***************************************************************************)
\* A cell leaves no soma behind, however it ends, its restarts included; only
\* a signal can that comes while it waits for a new soma to answer, or in the
\* moment between that answer and the handler.  And the client never has two
\* somas.  (A killed soma's web server does stay.)
NoOrphanSoma ==
    /\ \A c \in Cells \ cut : phase[c] = "ended" => SomasOf(c) \cap alive = {}
    /\ Cardinality(SomasOf(Client) \cap alive) <= 1

OwnSomaServes(c) == child[c] \in alive /\ bound[port[c]] = child[c]

\* Whoever listens on the port answers the health check: another program, or
\* the web server of a soma killed before.  A cell that says running on the
\* word of another than its own soma does not go on saying so.
StrangerNoticed == \A c \in Cells : []<>(~Running(c) \/ OwnSomaServes(c))

Follows ==
    \/ CurrentServerUrl = NoPort
    \/ phase[Client] \in {"off", "ended"}
    \/ active = CurrentServerUrl /\ serves = active

\* However often servers come and go at the socket, and calls fail and the
\* URL of the environment takes their place: once the URL the client is told
\* stays the same, the client has ended, or has a soma for that URL.
ClientConverges ==
    <>[][CurrentServerUrl' = CurrentServerUrl /\ ~PollFails]_vars => <>[]Follows
=============================================================================
