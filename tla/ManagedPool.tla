------------------------------ MODULE ManagedPool ------------------------------
(***************************************************************************)
(* The pool of Serena servers (mcp_studio/managed_sessions.py), its table  *)
(* managed_sessions, and the gateway transports that point into it.        *)
(*                                                                         *)
(* A managed session is one project with one reserved port.  Starting its  *)
(* server goes through one lock; stopping does not: an operator, the idle  *)
(* sweep and the monitor write the same row, each in several database      *)
(* operations.  A transport remembers the address its session had when it  *)
(* was bound.                                                              *)
(*                                                                         *)
(* Processes are named by their pid and listen on a port of this machine;  *)
(* one that was told to stop may take its time, and any may exit at any    *)
(* time.  Every session here has its own project: creation looks for the   *)
(* project and inserts the row under one lock (managed_sessions.py:410).   *)
(* Auto-restart is on, as by default.                                      *)
(***************************************************************************)
EXTENDS Naturals

CONSTANTS
    PoolSessions, \* managed sessions, numbered in the order of their creation
    Ports,        \* the configured port range
    Transports,   \* gateway transports
    MaxPid,       \* bound on the processes ever started
    MaxStops,     \* bound on the terminations
    IdleStop,     \* whether the optional idle stop is configured
    Nobody

ASSUME PoolAssumption ==
    /\ PoolSessions \subseteq Nat /\ Ports \subseteq Nat
    /\ Nobody \notin Transports \cup Nat
    /\ MaxPid \in Nat /\ MaxStops \in Nat /\ IdleStop \in BOOLEAN

Pids == 1..MaxPid

VARIABLES
    sessions,    \* table managed_sessions
    instances,   \* the registered process of each session (_instances)
    processes,   \* the processes of this machine
    starting,    \* the holder of the start lock
    ending,      \* terminations under way
    watching,    \* the monitor's handling of a process that exited
    idle,        \* sessions the idle sweep found unused and has yet to stop
    transports,  \* which session and which address each transport is bound to
    binding,     \* binds under way: the row ensure_running returned
    stops

poolVars == <<sessions, instances, processes, starting, ending, watching, idle, transports,
              binding, stops>>

-----------------------------------------------------------------------------
(* Rows and processes *)

Statuses == {"absent", "stopped", "starting", "ready", "error"}

NoSession == [status |-> "absent", desired |-> "stopped", port |-> Nobody, pid |-> Nobody]

NoProcess == [session |-> Nobody, port |-> Nobody, alive |-> FALSE, told |-> FALSE]

NotStarting == [session |-> Nobody, at |-> "free", pid |-> Nobody, port |-> Nobody]

NotWatching == [session |-> Nobody, at |-> "none", pid |-> Nobody, desired |-> "stopped"]

Unbound == [session |-> Nobody, port |-> Nobody, status |-> "connected"]

PoolInit ==
    /\ sessions = [m \in PoolSessions |-> NoSession]
    /\ instances = [m \in PoolSessions |-> Nobody]
    /\ processes = [p \in Pids |-> NoProcess]
    /\ starting = NotStarting
    /\ ending = {}
    /\ watching = NotWatching
    /\ idle = {}
    /\ transports = [t \in Transports |-> Unbound]
    /\ binding = [t \in Transports |-> Unbound]
    /\ stops = 0

Alive(p) == p \in Pids /\ processes[p].alive

Running(m) == Alive(instances[m])

Listening(port) == {p \in Pids : processes[p].alive /\ processes[p].port = port}

\* Mutant: the ports of the rows are not looked at.
FreePortsUnreserved == {q \in Ports : Listening(q) = {}}

\* A port no row has reserved and nothing listens on.
FreePorts == {q \in Ports : Listening(q) = {} /\ \A m \in PoolSessions : sessions[m].port # q}

\* _allocate_port takes the first one.
IsFirst(q, ports) == q \in ports /\ \A r \in ports : q <= r

-----------------------------------------------------------------------------
(* Creation *)

\* The lock on creation makes this one step, except that a start which moves to another
\* port may take the port in between: the row is then refused (UNIQUE) and nothing is left.
CreateSession(m, port) ==
    /\ sessions[m] = NoSession
    /\ \A n \in PoolSessions : n < m => sessions[n] # NoSession
    /\ IsFirst(port, FreePorts)
    /\ sessions' = [sessions EXCEPT ![m] =
         [status |-> "stopped", desired |-> "running", port |-> port, pid |-> Nobody]]
    /\ UNCHANGED <<instances, processes, starting, ending, watching, idle, transports, binding, stops>>

-----------------------------------------------------------------------------
(* ensure_running, under its lock *)

AtStart(point) == starting.at = point

Go(point) == starting' = [starting EXCEPT !.at = point]

\* Mutant: a server that runs is not looked for.
BeginStartAnyway(m) ==
    /\ AtStart("free")
    /\ sessions[m].status # "absent"
    /\ sessions' = [sessions EXCEPT ![m].desired = "running"]
    /\ starting' = [NotStarting EXCEPT !.session = m, !.at = "port"]

BeginStart(m) ==
    /\ AtStart("free")
    /\ sessions[m].status # "absent"
    /\ ~Running(m)
    /\ sessions' = [sessions EXCEPT ![m].desired = "running"]
    /\ starting' = [NotStarting EXCEPT !.session = m, !.at = "port"]

\* Resume and restart record the wish first, whether or not the server runs.
WantRunning(m) ==
    /\ sessions[m].status # "absent" /\ sessions[m].desired = "stopped"
    /\ sessions' = [sessions EXCEPT ![m].desired = "running"]
    /\ UNCHANGED <<instances, processes, starting, ending, watching, idle, transports, binding, stops>>

\* Resume, restart's second half, a bind or a use of the workspace.
EnsureRunning(m) ==
    /\ BeginStart(m)
    /\ UNCHANGED <<instances, processes, ending, watching, idle, transports, binding, stops>>

CheckPort ==
    /\ AtStart("port")
    /\ IF Listening(sessions[starting.session].port) = {}
         THEN Go("spawn")
         ELSE \/ \E q \in FreePorts : /\ IsFirst(q, FreePorts)
                                  /\ starting' = [starting EXCEPT !.at = "move", !.port = q]
              \/ FreePorts = {} /\ starting' = NotStarting
    /\ UNCHANGED <<sessions, instances, processes, ending, watching, idle, transports, binding, stops>>

\* The row gives its reserved port up for another one, unless that was taken since.
MovePort ==
    LET m == starting.session IN
    /\ AtStart("move")
    /\ IF \E n \in PoolSessions : sessions[n].port = starting.port
         THEN starting' = NotStarting /\ UNCHANGED sessions
         ELSE /\ sessions' = [sessions EXCEPT ![m].port = starting.port,
                                ![m].status = "stopped", ![m].pid = Nobody]
              /\ Go("spawn")
    /\ UNCHANGED <<instances, processes, ending, watching, idle, transports, binding, stops>>

\* The process starts; if its port has been taken it exits at once.
Spawn ==
    LET m == starting.session IN
    /\ AtStart("spawn")
    /\ \E p \in Pids :
         /\ processes[p] = NoProcess /\ \A q \in 1..(p - 1) : processes[q] # NoProcess
         /\ processes' = [processes EXCEPT ![p] =
              [session |-> m, port |-> sessions[m].port,
               alive |-> Listening(sessions[m].port) = {}, told |-> FALSE]]
         /\ starting' = [starting EXCEPT !.at = "write", !.pid = p]
    /\ UNCHANGED <<sessions, instances, ending, watching, idle, transports, binding, stops>>

\* No log, no executable, or it cannot be started: the call fails and nothing is left.
SpawnFails ==
    /\ AtStart("spawn")
    /\ starting' = NotStarting
    /\ UNCHANGED <<sessions, instances, processes, ending, watching, idle, transports, binding, stops>>

WriteStarting ==
    LET m == starting.session IN
    /\ AtStart("write")
    /\ sessions' = [sessions EXCEPT ![m].status = "starting", ![m].pid = starting.pid]
    /\ Go("register")
    /\ UNCHANGED <<instances, processes, ending, watching, idle, transports, binding, stops>>

Register ==
    /\ AtStart("register")
    /\ instances' = [instances EXCEPT ![starting.session] = starting.pid]
    /\ Go("wait")
    /\ UNCHANGED <<sessions, processes, ending, watching, idle, transports, binding, stops>>

\* A probe was answered: the row is ready, whatever was written to it since.
Ready ==
    LET m == starting.session IN
    /\ AtStart("wait")
    /\ Alive(starting.pid)
    /\ sessions' = [sessions EXCEPT ![m].status = "ready", ![m].pid = starting.pid]
    /\ starting' = NotStarting
    /\ UNCHANGED <<instances, processes, ending, watching, idle, transports, binding, stops>>

\* It exited or the time was up: what is registered is terminated, ...
StartFails ==
    LET m == starting.session
        p == instances[m] IN
    /\ AtStart("wait")
    /\ instances' = [instances EXCEPT ![m] = Nobody]
    /\ processes' = IF Alive(p) THEN [processes EXCEPT ![p].told = TRUE] ELSE processes
    /\ starting' = [starting EXCEPT !.at = "failing", !.pid = p]
    /\ UNCHANGED <<sessions, ending, watching, idle, transports, binding, stops>>

\* ... and once it is gone the row says so.
RecordFailure ==
    LET m == starting.session IN
    /\ AtStart("failing")
    /\ ~Alive(starting.pid)
    /\ sessions' = [sessions EXCEPT ![m].status = "error", ![m].pid = Nobody]
    /\ starting' = NotStarting
    /\ UNCHANGED <<instances, processes, ending, watching, idle, transports, binding, stops>>

-----------------------------------------------------------------------------
(* Stopping, outside the lock *)

Connected(m) == {t \in Transports : transports[t].session = m /\ transports[t].status = "connected"}

\* stop_session and restart_session count the connected transports; the restart then
\* starts the session again.
CountConnected(m, preserve) ==
    /\ sessions[m].status # "absent"
    /\ Connected(m) = {}
    /\ stops < MaxStops /\ stops' = stops + 1
    /\ ending' = ending \cup {[session |-> m, pid |-> Nobody, number |-> stops, keep |-> preserve,
                               at |-> "counted"]}
    /\ UNCHANGED <<sessions, instances, processes, starting, watching, idle, transports, binding>>

\* _terminate_instance up to its first await, however long ago the count was: the process
\* is taken from the register and signalled at once.
Terminating(m, preserve, number) ==
    [session |-> m, pid |-> instances[m], number |-> number, keep |-> preserve,
     at |-> IF preserve THEN "status" ELSE "desired"]

SignalServer(m) ==
    /\ instances' = [instances EXCEPT ![m] = Nobody]
    /\ processes' = IF Running(m) THEN [processes EXCEPT ![instances[m]].told = TRUE] ELSE processes

StopSession(e) ==
    /\ e \in ending /\ e.at = "counted"
    /\ SignalServer(e.session)
    /\ ending' = (ending \ {e}) \cup {Terminating(e.session, e.keep, e.number)}
    /\ UNCHANGED <<sessions, starting, watching, idle, transports, binding, stops>>

\* The process has exited; the operator's choice is recorded, ...
RecordStopWish(e) ==
    /\ e \in ending /\ e.at = "desired" /\ ~Alive(e.pid)
    /\ sessions' = [sessions EXCEPT ![e.session].desired = "stopped"]
    /\ ending' = (ending \ {e}) \cup {[e EXCEPT !.at = "status"]}
    /\ UNCHANGED <<instances, processes, starting, watching, idle, transports, binding, stops>>

\* ... then the row, unless another process has it by now.  Without a registered process
\* the row is written in any case.
RecordStop(e) ==
    /\ e \in ending /\ e.at = "status" /\ ~Alive(e.pid)
    /\ sessions' = IF e.pid \in {Nobody, sessions[e.session].pid}
                     THEN [sessions EXCEPT ![e.session].status = "stopped", ![e.session].pid = Nobody]
                     ELSE sessions
    /\ ending' = ending \ {e}
    /\ UNCHANGED <<instances, processes, starting, watching, idle, transports, binding, stops>>

\* The idle sweep reads the overview once and stops what it found one after the other.
ScanIdle ==
    /\ IdleStop
    /\ idle = {}
    /\ idle' = {m \in PoolSessions : sessions[m].status = "ready" /\ Connected(m) = {}}
    /\ UNCHANGED <<sessions, instances, processes, starting, ending, watching, transports, binding, stops>>

StopIdle(m) ==
    /\ m \in idle
    /\ idle' = idle \ {m}
    /\ stops < MaxStops /\ stops' = stops + 1
    /\ SignalServer(m)
    /\ ending' = ending \cup {Terminating(m, FALSE, stops)}
    /\ UNCHANGED <<sessions, starting, watching, transports, binding>>

-----------------------------------------------------------------------------
(* The monitor *)

\* A process has exited that was registered when the monitor took its list; by now it may
\* be off the register, or another one on it.
FindExited(m, p) ==
    /\ watching = NotWatching
    /\ processes[p].session = m /\ ~Alive(p)
    /\ starting.at \in {"write", "register"} => starting.pid # p
    /\ instances' = IF instances[m] = p THEN [instances EXCEPT ![m] = Nobody] ELSE instances
    /\ watching' = [session |-> m, at |-> "read", pid |-> p, desired |-> "stopped"]
    /\ UNCHANGED <<sessions, processes, starting, ending, idle, transports, binding, stops>>

ReadExited ==
    /\ watching.at = "read"
    /\ watching' = [watching EXCEPT !.at = "write", !.desired = sessions[watching.session].desired]
    /\ UNCHANGED <<sessions, instances, processes, starting, ending, idle, transports, binding, stops>>

AfterExit ==
    IF watching.desired = "running" THEN [watching EXCEPT !.at = "restart"] ELSE NotWatching

\* The row is only written if it still names that process, and the session is left alone
\* if another process has it.
RecordExit ==
    LET m == watching.session
        mine == sessions[m].pid = watching.pid IN
    /\ watching.at = "write"
    /\ sessions' = IF mine THEN [sessions EXCEPT ![m].status = "error", ![m].pid = Nobody] ELSE sessions
    /\ watching' = IF mine \/ sessions[m].pid = Nobody THEN AfterExit ELSE NotWatching
    /\ UNCHANGED <<instances, processes, starting, ending, idle, transports, binding, stops>>

\* Restarted because it was wanted when the monitor looked.
RestartExited ==
    /\ watching.at = "restart"
    /\ \/ BeginStart(watching.session)
       \/ Running(watching.session) /\ UNCHANGED <<sessions, starting>>
    /\ watching' = NotWatching
    /\ UNCHANGED <<instances, processes, ending, idle, transports, binding, stops>>

-----------------------------------------------------------------------------
(* Transports *)

\* bind_managed_session: ensure_running has returned the row of a running server, ...
EnsureForBind(t, m) ==
    /\ binding[t] = Unbound
    /\ AtStart("free") /\ Running(m)
    /\ binding' = [binding EXCEPT ![t] = [Unbound EXCEPT !.session = m, !.port = sessions[m].port]]
    /\ UNCHANGED <<sessions, instances, processes, starting, ending, watching, idle, transports, stops>>

\* ... whoever listens at its address answers the initialize, and the binding is written;
\* or nobody does.
Bind(t) ==
    /\ binding[t] # Unbound
    /\ transports' = IF \E p \in Listening(binding[t].port) : ~processes[p].told
                       THEN [transports EXCEPT ![t] = binding[t]] ELSE transports
    /\ binding' = [binding EXCEPT ![t] = Unbound]
    /\ UNCHANGED <<sessions, instances, processes, starting, ending, watching, idle, stops>>

\* Silent for too long, or heard of again.
GoStale(t) ==
    /\ transports' = [transports EXCEPT ![t].status =
                        IF @ = "connected" THEN "stale" ELSE "connected"]
    /\ transports[t].session # Nobody
    /\ UNCHANGED <<sessions, instances, processes, starting, ending, watching, idle, binding, stops>>

-----------------------------------------------------------------------------
(* Environment: processes exit, told to or not *)

Exit(p) ==
    /\ Alive(p)
    /\ processes' = [processes EXCEPT ![p].alive = FALSE]
    /\ UNCHANGED <<sessions, instances, starting, ending, watching, idle, transports, binding, stops>>

\* Studio restarts: systemd takes the processes of its service down with it.
PoolRestart ==
    /\ instances' = [m \in PoolSessions |-> Nobody]
    /\ processes' = [p \in Pids |-> [processes[p] EXCEPT !.alive = FALSE]]
    /\ starting' = NotStarting /\ ending' = {} /\ watching' = NotWatching /\ idle' = {}
    /\ binding' = [t \in Transports |-> Unbound]
    /\ UNCHANGED <<sessions, transports, stops>>

-----------------------------------------------------------------------------
(* Next *)

StartSteps ==
    \/ \E m \in PoolSessions, port \in Ports : CreateSession(m, port)
    \/ \E m \in PoolSessions : EnsureRunning(m) \/ WantRunning(m)
    \/ CheckPort \/ MovePort \/ Spawn \/ SpawnFails \/ WriteStarting \/ Register
    \/ Ready \/ StartFails \/ RecordFailure

StopSteps ==
    \/ \E m \in PoolSessions, preserve \in BOOLEAN : CountConnected(m, preserve)
    \/ \E e \in ending : StopSession(e) \/ RecordStopWish(e) \/ RecordStop(e)
    \/ ScanIdle \/ \E m \in PoolSessions : StopIdle(m)
    \/ \E m \in PoolSessions, p \in Pids : FindExited(m, p)
    \/ ReadExited \/ RecordExit \/ RestartExited

TransportSteps ==
    \E t \in Transports :
        \/ \E m \in PoolSessions : EnsureForBind(t, m)
        \/ Bind(t)
        \/ GoStale(t)

PoolNext ==
    \/ StartSteps \/ StopSteps \/ TransportSteps
    \/ \E p \in Pids : Exit(p)
    \/ PoolRestart

PoolSpec == PoolInit /\ [][PoolNext]_poolVars

-----------------------------------------------------------------------------
(* Properties *)

\* Every variable keeps its shape.
PoolTypeOK ==
    /\ sessions \in [PoolSessions ->
         [status : Statuses, desired : {"running", "stopped"},
          port : Ports \cup {Nobody}, pid : Pids \cup {Nobody}]]
    /\ instances \in [PoolSessions -> Pids \cup {Nobody}]
    /\ starting.session \in PoolSessions \cup {Nobody}
    /\ idle \subseteq PoolSessions
    /\ stops \in 0..MaxStops

EveryServerIsKnown ==
    \A p \in Pids : processes[p].alive =>
        \/ processes[p].told
        \/ instances[processes[p].session] = p
        \/ starting.pid = p

OneServerPerSession ==
    \A p, q \in Pids :
        /\ processes[p].alive /\ ~processes[p].told
        /\ processes[q].alive /\ ~processes[q].told
        /\ processes[p].session = processes[q].session
        => p = q

FailedMeansNotRunning ==
    \A m \in PoolSessions : sessions[m].status = "error" => ~Running(m)

\* Through every race of starts, stops, the idle sweep and the monitor: no server is lost
\* (one that runs is registered, is being started, or was told to stop), no project has
\* two, and none that runs is on record as failed by a word about an older one.
ServersAccountedFor == EveryServerIsKnown /\ OneServerPerSession /\ FailedMeansNotRunning

\* What a transport sends reaches the server of the session it is bound to, or nobody;
\* the exception is a transport that was bound before its session moved to another port.
StrayCallsFollowAMove ==
    \A t \in Transports : \A p \in Listening(transports[t].port) :
        \/ processes[p].session = transports[t].session
        \/ sessions[transports[t].session].port # transports[t].port
=============================================================================
