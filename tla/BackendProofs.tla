----------------------------- MODULE BackendProofs -----------------------------
(***************************************************************************)
(* TLAPS proofs about what managed sessions are served by: the pool of     *)
(* their servers (ManagedPool), their desktops (Desktops), the machines    *)
(* their calls run on (MachineAuthority) and the processes Desktop         *)
(* Commander runs for them (DesktopCommander), each for any constants.     *)
(* The four share nothing.                                                 *)
(***************************************************************************)
EXTENDS ManagedPool, Desktops, MachineAuthority, DesktopCommander, SequenceTheorems, TLAPS

-----------------------------------------------------------------------------
(* The server pool *)

SessionOrNone == PoolSessions \cup {Nobody}

PidOrNone == Pids \cup {Nobody}

PortOrNone == Ports \cup {Nobody}

RowShape == [status : Statuses, desired : {"running", "stopped"}, port : PortOrNone, pid : PidOrNone]

ProcessShape == [session : SessionOrNone, port : PortOrNone, alive : BOOLEAN, told : BOOLEAN]

StartShape ==
    [session : SessionOrNone,
     at : {"free", "port", "move", "spawn", "write", "register", "wait", "failing"},
     pid : PidOrNone, port : PortOrNone]

EndShape ==
    [session : PoolSessions, pid : PidOrNone, number : Nat, keep : BOOLEAN,
     at : {"counted", "desired", "status"}]

WatchShape ==
    [session : SessionOrNone, at : {"none", "read", "write", "restart"}, pid : PidOrNone,
     desired : {"running", "stopped"}]

BoundShape == [session : SessionOrNone, port : PortOrNone, status : {"connected", "stale"}]

PoolShape ==
    /\ sessions \in [PoolSessions -> RowShape]
    /\ instances \in [PoolSessions -> PidOrNone]
    /\ processes \in [Pids -> ProcessShape]
    /\ starting \in StartShape
    /\ ending \subseteq EndShape
    /\ watching \in WatchShape
    /\ idle \subseteq PoolSessions
    /\ transports \in [Transports -> BoundShape]
    /\ binding \in [Transports -> BoundShape]
    /\ stops \in 0..MaxStops

Created(m) == sessions[m].status # "absent"

\* A session that does not exist is not worked on, and one that does has a port.
SessionsExist ==
    /\ \A m \in PoolSessions : IF Created(m) THEN sessions[m].port \in Ports
                                             ELSE sessions[m] = NoSession
    /\ \A m \in PoolSessions : instances[m] # Nobody \/ m \in idle => Created(m)
    /\ \A m \in PoolSessions, p \in Pids : processes[p].session = m => Created(m)
    /\ starting.at # "free" => starting.session \in PoolSessions /\ Created(starting.session)
    /\ \A e \in ending : Created(e.session)
    /\ watching.at # "none" => watching.session \in PoolSessions /\ Created(watching.session)

\* No two rows reserve one port, and who listens on a reserved port serves that row.
PortsReserved ==
    \A m \in PoolSessions : Created(m) =>
        /\ \A n \in PoolSessions : sessions[n].port = sessions[m].port => n = m
        /\ \A p \in Pids : processes[p].alive /\ processes[p].port = sessions[m].port
                             => processes[p].session = m

\* A process that is named anywhere was started, for the session it is named under.
ProcessesStarted ==
    /\ \A p \in Pids : processes[p].alive =>
         processes[p].session \in PoolSessions /\ processes[p].port \in Ports
    /\ \A m \in PoolSessions : instances[m] # Nobody => processes[instances[m]].session = m
    /\ starting.at \in {"write", "register", "wait"} =>
         starting.pid \in Pids /\ processes[starting.pid].session = starting.session
    /\ watching.at \in {"read", "write"} =>
         /\ watching.pid \in Pids /\ processes[watching.pid].session = watching.session
         /\ ~processes[watching.pid].alive

\* What the holder of the start lock knows, from one of its steps to the next.
LockKnows ==
    /\ starting.at = "move" => starting.port \in Ports /\ Listening(starting.port) = {}
    /\ starting.at \in {"port", "move", "spawn", "write", "register"} => ~Running(starting.session)
    /\ starting.at = "register" =>
         /\ sessions[starting.session].pid \in {starting.pid, Nobody}
         /\ sessions[starting.session].status = "error" => ~Alive(starting.pid)
    /\ starting.at = "wait" => instances[starting.session] \in {starting.pid, Nobody}
    /\ starting.at = "failing" => instances[starting.session] = Nobody

\* EveryServerIsKnown, with the moment at which it is the starter that knows.
ServersKnown ==
    \A p \in Pids : processes[p].alive /\ ~processes[p].told =>
        \/ instances[processes[p].session] = p
        \/ /\ starting.pid = p /\ starting.session = processes[p].session
           /\ starting.at \in {"write", "register"}

\* The row of a server that runs names it, or nobody, and does not say that it failed.
RowsAgree ==
    \A m \in PoolSessions : Running(m) =>
        /\ sessions[m].pid \in {instances[m], Nobody}
        /\ sessions[m].status # "error"

\* A transport is bound to a session and an address, or to neither.
BindingsWhole ==
    \A t \in Transports :
        /\ (transports[t].session = Nobody) <=> (transports[t].port = Nobody)
        /\ (binding[t].session = Nobody) <=> (binding[t].port = Nobody)

PoolInv ==
    /\ PoolShape /\ SessionsExist /\ PortsReserved /\ ProcessesStarted
    /\ LockKnows /\ ServersKnown /\ RowsAgree /\ BindingsWhole
-----------------------------------------------------------------------------
\* Nobody is no session, no process and no port.
LEMMA NobodyIsApart == Nobody \notin Pids /\ Nobody \notin PoolSessions /\ Nobody \notin Ports
  <1>1. Nobody \notin Nat /\ PoolSessions \subseteq Nat /\ Ports \subseteq Nat /\ MaxPid \in Nat
      BY PoolAssumption
  <1>2. \A p \in Pids : p \in Nat
      BY <1>1 DEF Pids
  <1> QED BY <1>1, <1>2

\* The records that stand for nothing have their shapes.
LEMMA NothingHasShape ==
    /\ NoSession \in RowShape /\ NoProcess \in ProcessShape
    /\ NotStarting \in StartShape /\ NotWatching \in WatchShape /\ Unbound \in BoundShape
  <1>1. NoSession \in RowShape
      BY DEF NoSession, RowShape, Statuses, PortOrNone, PidOrNone
  <1>2. NoProcess \in ProcessShape
      BY DEF NoProcess, ProcessShape, SessionOrNone, PortOrNone
  <1>3. NotStarting \in StartShape
      BY DEF NotStarting, StartShape, SessionOrNone, PortOrNone, PidOrNone
  <1>4. NotWatching \in WatchShape
      BY DEF NotWatching, WatchShape, SessionOrNone, PidOrNone
  <1>5. Unbound \in BoundShape
      BY DEF Unbound, BoundShape, SessionOrNone, PortOrNone
  <1> QED BY <1>1, <1>2, <1>3, <1>4, <1>5

LEMMA PoolInitInv == PoolInit => PoolInv
  <1> SUFFICES ASSUME PoolInit PROVE PoolInv
      OBVIOUS
  <1>1. PoolShape
      BY NothingHasShape, PoolAssumption DEF PoolInit, PoolShape, PidOrNone
  <1>2. SessionsExist /\ PortsReserved /\ BindingsWhole
      BY NobodyIsApart
      DEF PoolInit, SessionsExist, PortsReserved, BindingsWhole, Created, NoSession, NoProcess,
          NotStarting, NotWatching, Unbound
  <1>3. ProcessesStarted /\ LockKnows /\ ServersKnown /\ RowsAgree
      BY NobodyIsApart
      DEF PoolInit, ProcessesStarted, LockKnows, ServersKnown, RowsAgree, Running, Alive,
          NoProcess, NotStarting, NotWatching
  <1> QED BY <1>1, <1>2, <1>3 DEF PoolInv

-----------------------------------------------------------------------------
(* Steps that leave the servers, their rows and the lock alone *)

\* What the invariant says of servers, rows and the lock.
Core == PortsReserved /\ ProcessesStarted /\ LockKnows /\ ServersKnown /\ RowsAgree

LEMMA CoreStays ==
    ASSUME PoolInv, UNCHANGED <<sessions, instances, processes, starting>>,
           UNCHANGED watching \/ watching'.at \notin {"read", "write"}
                \/ (watching.at = "read" /\ watching' = [watching EXCEPT !.at = "write",
                                              !.desired = sessions[watching.session].desired])
    PROVE  Core'
  <1>1. ProcessesStarted'
      BY DEF PoolInv, ProcessesStarted, PoolShape, WatchShape
  <1>2. PortsReserved' /\ LockKnows' /\ ServersKnown' /\ RowsAgree'
      BY DEF PoolInv, PortsReserved, LockKnows, ServersKnown, RowsAgree, Created, Running, Alive,
             Listening
  <1> QED BY <1>1, <1>2 DEF Core

LEMMA CountConnectedInv ==
    ASSUME PoolInv, NEW m \in PoolSessions, NEW preserve \in BOOLEAN, CountConnected(m, preserve)
    PROVE  PoolInv'
  <1> DEFINE e == [session |-> m, pid |-> Nobody, number |-> stops, keep |-> preserve, at |-> "counted"]
  <1>1. /\ UNCHANGED <<sessions, instances, processes, starting, watching, idle, transports, binding>>
        /\ ending' = ending \cup {e} /\ stops < MaxStops /\ stops' = stops + 1 /\ Created(m)
      BY DEF CountConnected, Created
  <1>2. e \in EndShape /\ stops' \in 0..MaxStops
    <2>1. stops \in 0..MaxStops /\ stops \in Nat /\ MaxStops \in Nat
        BY PoolAssumption DEF PoolInv, PoolShape
    <2> QED BY <1>1, <2>1 DEF EndShape, PidOrNone
  <1>3. e.session = m
      OBVIOUS
  <1> HIDE DEF e
  <1>4. PoolShape'
      BY <1>1, <1>2 DEF PoolInv, PoolShape
  <1>5. SessionsExist' /\ BindingsWhole'
      BY <1>1, <1>3 DEF PoolInv, SessionsExist, BindingsWhole, Created
  <1> QED BY <1>1, <1>4, <1>5, CoreStays DEF PoolInv, Core

LEMMA ScanIdleInv ==
    ASSUME PoolInv, ScanIdle
    PROVE  PoolInv'
  <1>1. /\ UNCHANGED <<sessions, instances, processes, starting, ending, watching, transports, binding, stops>>
        /\ \A m \in idle' : m \in PoolSessions /\ Created(m)
      BY DEF ScanIdle, Created
  <1>2. PoolShape'
      BY <1>1 DEF PoolInv, PoolShape
  <1>3. SessionsExist' /\ BindingsWhole'
      BY <1>1 DEF PoolInv, SessionsExist, BindingsWhole, Created
  <1> QED BY <1>1, <1>2, <1>3, CoreStays DEF PoolInv, Core

\* A transport or a bind under way is written.
LEMMA BindingStays ==
    ASSUME PoolInv,
           UNCHANGED <<sessions, instances, processes, starting, ending, watching, idle, stops>>,
           transports' \in [Transports -> BoundShape], binding' \in [Transports -> BoundShape],
           BindingsWhole'
    PROVE  PoolInv'
  <1>1. PoolShape'
      BY DEF PoolInv, PoolShape
  <1>2. SessionsExist'
      BY DEF PoolInv, SessionsExist, Created
  <1> QED BY <1>1, <1>2, CoreStays DEF PoolInv, Core

LEMMA EnsureForBindInv ==
    ASSUME PoolInv, NEW t \in Transports, NEW m \in PoolSessions, EnsureForBind(t, m)
    PROVE  PoolInv'
  <1> DEFINE row == [Unbound EXCEPT !.session = m, !.port = sessions[m].port]
  <1>1. /\ binding' = [binding EXCEPT ![t] = row]
        /\ UNCHANGED <<sessions, instances, processes, starting, ending, watching, idle, transports, stops>>
        /\ Running(m)
      BY DEF EnsureForBind
  <1>2. sessions[m].port \in Ports
      BY <1>1, NobodyIsApart DEF PoolInv, SessionsExist, Running, Alive
  <1>3. row \in BoundShape /\ row.session # Nobody /\ row.port # Nobody
      BY <1>2, NobodyIsApart DEF Unbound, BoundShape, SessionOrNone, PortOrNone
  <1> HIDE DEF row
  <1>4. transports' \in [Transports -> BoundShape] /\ binding' \in [Transports -> BoundShape]
      BY <1>1, <1>3 DEF PoolInv, PoolShape
  <1>5. BindingsWhole'
      BY <1>1, <1>3 DEF PoolInv, PoolShape, BindingsWhole
  <1> QED BY <1>1, <1>4, <1>5, BindingStays

LEMMA BindInv ==
    ASSUME PoolInv, NEW t \in Transports, Bind(t)
    PROVE  PoolInv'
  <1>1. /\ transports' \in {transports, [transports EXCEPT ![t] = binding[t]]}
        /\ binding' = [binding EXCEPT ![t] = Unbound]
        /\ UNCHANGED <<sessions, instances, processes, starting, ending, watching, idle, stops>>
      BY DEF Bind
  <1>2. transports' \in [Transports -> BoundShape] /\ binding' \in [Transports -> BoundShape]
      BY <1>1, NothingHasShape DEF PoolInv, PoolShape
  <1>3. Unbound.session = Nobody /\ Unbound.port = Nobody
      BY DEF Unbound
  <1>4. BindingsWhole'
      BY <1>1, <1>3 DEF PoolInv, PoolShape, BindingsWhole
  <1> QED BY <1>1, <1>2, <1>4, BindingStays

LEMMA GoStaleInv ==
    ASSUME PoolInv, NEW t \in Transports, GoStale(t)
    PROVE  PoolInv'
  <1>1. PICK status \in {"connected", "stale"} : transports' = [transports EXCEPT ![t].status = status]
      BY DEF GoStale
  <1>2. UNCHANGED <<sessions, instances, processes, starting, ending, watching, idle, binding, stops>>
      BY DEF GoStale
  <1>3. transports' \in [Transports -> BoundShape]
      BY <1>1 DEF PoolInv, PoolShape, BoundShape
  <1>4. \A u \in Transports : transports'[u].session = transports[u].session
                              /\ transports'[u].port = transports[u].port
      BY <1>1 DEF PoolInv, PoolShape, BoundShape
  <1>5. BindingsWhole'
      BY <1>2, <1>4 DEF PoolInv, BindingsWhole
  <1>6. binding' \in [Transports -> BoundShape]
      BY <1>2 DEF PoolInv, PoolShape
  <1> QED BY <1>2, <1>3, <1>5, <1>6, BindingStays

LEMMA ReadExitedInv ==
    ASSUME PoolInv, ReadExited
    PROVE  PoolInv'
  <1>1. /\ watching.at = "read"
        /\ watching' = [watching EXCEPT !.at = "write", !.desired = sessions[watching.session].desired]
        /\ UNCHANGED <<sessions, instances, processes, starting, ending, idle, transports, binding, stops>>
      BY DEF ReadExited
  <1>2. watching.session \in PoolSessions
      BY <1>1 DEF PoolInv, SessionsExist
  <1>3. sessions[watching.session].desired \in {"running", "stopped"}
      BY <1>2 DEF PoolInv, PoolShape, RowShape
  <1>4. watching' \in WatchShape
      BY <1>1, <1>3 DEF PoolInv, PoolShape, WatchShape
  <1>5. PoolShape'
      BY <1>1, <1>4 DEF PoolInv, PoolShape
  <1>6. SessionsExist' /\ BindingsWhole'
      BY <1>1 DEF PoolInv, PoolShape, WatchShape, SessionsExist, BindingsWhole, Created
  <1> QED BY <1>1, <1>5, <1>6, CoreStays DEF PoolInv, Core

-----------------------------------------------------------------------------
(* Steps that write a row *)

\* The row of m is written: what exists and which port it has reserved stay as they were.
RowWritten(m, row) ==
    /\ sessions' = [sessions EXCEPT ![m] = row]
    /\ row \in RowShape /\ row.status # "absent" /\ row.port = sessions[m].port
    /\ Created(m)

LEMMA ServerRowKept ==
    ASSUME PoolInv, NEW m \in PoolSessions, NEW row, RowWritten(m, row)
    PROVE  /\ sessions' \in [PoolSessions -> RowShape] /\ sessions'[m] = row
           /\ \A n \in PoolSessions : /\ n # m => sessions'[n] = sessions[n]
                                      /\ sessions'[n].port = sessions[n].port
                                      /\ Created(n)' <=> Created(n)
  <1>1. /\ sessions' \in [PoolSessions -> RowShape] /\ sessions'[m] = row
        /\ \A n \in PoolSessions : n # m => sessions'[n] = sessions[n]
      BY DEF RowWritten, PoolInv, PoolShape
  <1> QED BY <1>1 DEF RowWritten, Created

\* Ports and sessions stay apart and in existence whatever else is written to a row.
LEMMA ServerRowStays ==
    ASSUME PoolInv, NEW m \in PoolSessions, NEW row, RowWritten(m, row),
           \A p \in Pids : /\ processes'[p].alive => processes[p].alive
                           /\ processes'[p].port = processes[p].port
                           /\ processes'[p].session = processes[p].session,
           \A n \in PoolSessions : instances'[n] # Nobody \/ n \in idle' => Created(n),
           idle' \subseteq PoolSessions,
           starting'.at # "free" => starting'.session \in PoolSessions /\ Created(starting'.session),
           \A e \in ending' : e.session \in PoolSessions /\ Created(e.session),
           watching'.at # "none" => watching'.session \in PoolSessions /\ Created(watching'.session)
    PROVE  SessionsExist' /\ PortsReserved'
  <1>1. SessionsExist'
    <2>1. /\ \A n \in PoolSessions : n # m => sessions'[n] = sessions[n]
          /\ \A n \in PoolSessions : sessions'[n].port = sessions[n].port /\ (Created(n)' <=> Created(n))
          /\ Created(m)
        BY ServerRowKept DEF RowWritten
    <2> QED BY <2>1 DEF PoolInv, SessionsExist, Created
  <1>2. PortsReserved'
      BY ServerRowKept DEF PoolInv, PortsReserved
  <1> QED BY <1>1, <1>2

\* Only what is wanted changes.
LEMMA WishStays ==
    ASSUME PoolInv, NEW m \in PoolSessions, Created(m), NEW wish \in {"running", "stopped"},
           sessions' = [sessions EXCEPT ![m].desired = wish],
           UNCHANGED <<instances, processes, starting, watching, idle, transports, binding, stops>>,
           ending' \subseteq EndShape, \A e \in ending' : Created(e.session)
    PROVE  PoolInv'
  <1> DEFINE row == [sessions[m] EXCEPT !.desired = wish]
  <1>1. /\ row \in RowShape
        /\ row.status = sessions[m].status /\ row.port = sessions[m].port /\ row.pid = sessions[m].pid
      BY DEF PoolInv, PoolShape, RowShape
  <1>2. RowWritten(m, row)
      BY <1>1 DEF RowWritten, Created
  <1> HIDE DEF row
  <1>3. /\ sessions' \in [PoolSessions -> RowShape]
        /\ \A n \in PoolSessions : /\ sessions'[n].pid = sessions[n].pid
                                   /\ sessions'[n].status = sessions[n].status
      BY <1>1, <1>2, ServerRowKept
  <1>4. PoolShape'
      BY <1>3 DEF PoolInv, PoolShape
  <1>5. SessionsExist' /\ PortsReserved'
      BY <1>2, ServerRowStays DEF PoolInv, PoolShape, SessionsExist, EndShape
  <1>6. ProcessesStarted' /\ ServersKnown' /\ BindingsWhole'
      BY DEF PoolInv, ProcessesStarted, ServersKnown, BindingsWhole
  <1>7. LockKnows' /\ RowsAgree'
      BY <1>3 DEF PoolInv, SessionsExist, LockKnows, RowsAgree, Running, Alive, Listening
  <1> QED BY <1>4, <1>5, <1>6, <1>7 DEF PoolInv

LEMMA WantRunningInv ==
    ASSUME PoolInv, NEW m \in PoolSessions, WantRunning(m)
    PROVE  PoolInv'
  BY WishStays DEF WantRunning, Created, PoolInv, PoolShape, SessionsExist

LEMMA RecordStopWishInv ==
    ASSUME PoolInv, NEW e \in ending, RecordStopWish(e)
    PROVE  PoolInv'
  <1> DEFINE after == [e EXCEPT !.at = "status"]
  <1>1. e \in EndShape /\ Created(e.session)
      BY DEF PoolInv, PoolShape, SessionsExist
  <1>2. after \in EndShape /\ after.session = e.session /\ e.session \in PoolSessions
      BY <1>1 DEF EndShape
  <1>3. /\ sessions' = [sessions EXCEPT ![e.session].desired = "stopped"]
        /\ ending' = (ending \ {e}) \cup {after}
        /\ UNCHANGED <<instances, processes, starting, watching, idle, transports, binding, stops>>
      BY DEF RecordStopWish
  <1> HIDE DEF after
  <1>4. ending' \subseteq EndShape /\ \A f \in ending' : Created(f.session)
      BY <1>1, <1>2, <1>3 DEF PoolInv, PoolShape, SessionsExist
  <1> QED BY <1>1, <1>2, <1>3, <1>4, WishStays

\* The row of a session says that it is not running, of the right process or in any case.
LEMMA RowCleared ==
    ASSUME PoolInv, NEW m \in PoolSessions, Created(m), NEW status \in {"stopped", "error"},
           sessions' = [sessions EXCEPT ![m].status = status, ![m].pid = Nobody]
    PROVE  /\ RowWritten(m, [sessions[m] EXCEPT !.status = status, !.pid = Nobody])
           /\ sessions' \in [PoolSessions -> RowShape]
           /\ sessions'[m].pid = Nobody /\ sessions'[m].status = status
           /\ \A n \in PoolSessions \ {m} : sessions'[n] = sessions[n]
  <1> DEFINE row == [sessions[m] EXCEPT !.status = status, !.pid = Nobody]
  <1>1. row \in RowShape /\ row.port = sessions[m].port /\ row.status = status /\ row.pid = Nobody
      BY DEF PoolInv, PoolShape, RowShape, Statuses, PidOrNone
  <1>2. RowWritten(m, row)
      BY <1>1 DEF RowWritten
  <1> HIDE DEF row
  <1>3. /\ sessions' \in [PoolSessions -> RowShape] /\ sessions'[m] = row
        /\ \A n \in PoolSessions \ {m} : sessions'[n] = sessions[n]
      BY <1>2, ServerRowKept
  <1> QED BY <1>1, <1>2, <1>3 DEF row

LEMMA RecordStopInv ==
    ASSUME PoolInv, NEW e \in ending, RecordStop(e)
    PROVE  PoolInv'
  <1> DEFINE m == e.session
  <1>1. m \in PoolSessions /\ Created(m)
      BY DEF PoolInv, PoolShape, SessionsExist, EndShape
  <1>2. /\ ending' = ending \ {e}
        /\ UNCHANGED <<instances, processes, starting, watching, idle, transports, binding, stops>>
      BY DEF RecordStop
  <1>3. CASE UNCHANGED sessions
    <2>1. PoolShape' /\ SessionsExist' /\ BindingsWhole'
        BY <1>2, <1>3 DEF PoolInv, PoolShape, SessionsExist, BindingsWhole, Created
    <2> QED BY <1>2, <1>3, <2>1, CoreStays DEF PoolInv, Core
  <1>4. CASE sessions' = [sessions EXCEPT ![m].status = "stopped", ![m].pid = Nobody]
    <2> HIDE DEF m
    <2>1. PICK row : RowWritten(m, row)
        BY <1>1, <1>4, RowCleared
    <2>2. /\ sessions' \in [PoolSessions -> RowShape]
          /\ sessions'[m].pid = Nobody /\ sessions'[m].status = "stopped"
          /\ \A n \in PoolSessions \ {m} : sessions'[n] = sessions[n]
        BY <1>1, <1>4, RowCleared
    <2>3. PoolShape'
        BY <1>2, <2>2 DEF PoolInv, PoolShape
    <2>4. SessionsExist' /\ PortsReserved'
        BY <1>1, <1>2, <2>1, ServerRowStays DEF PoolInv, PoolShape, SessionsExist, EndShape
    <2>5. ProcessesStarted' /\ ServersKnown' /\ BindingsWhole'
        BY <1>2 DEF PoolInv, ProcessesStarted, ServersKnown, BindingsWhole
    <2>6. LockKnows' /\ RowsAgree'
        BY <1>1, <1>2, <2>2 DEF PoolInv, SessionsExist, LockKnows, RowsAgree, Running, Alive, Listening
    <2> QED BY <2>3, <2>4, <2>5, <2>6 DEF PoolInv
  <1> QED BY <1>3, <1>4 DEF RecordStop

\* The monitor writes of a process that exited: if the row names it, no other one runs.
LEMMA RecordExitInv ==
    ASSUME PoolInv, RecordExit
    PROVE  PoolInv'
  <1> DEFINE m == watching.session
  <1>1. /\ watching.at = "write" /\ m \in PoolSessions /\ Created(m)
        /\ watching.pid \in Pids /\ ~Alive(watching.pid)
      BY DEF RecordExit, PoolInv, SessionsExist, ProcessesStarted, Alive
  <1>2. /\ watching' \in {NotWatching, [watching EXCEPT !.at = "restart"]}
        /\ UNCHANGED <<instances, processes, starting, ending, idle, transports, binding, stops>>
      BY DEF RecordExit, AfterExit
  <1>3. /\ watching' \in WatchShape /\ watching'.at \in {"none", "restart"}
        /\ watching'.at # "none" => watching'.session = m
    <2>1. [watching EXCEPT !.at = "restart"] \in WatchShape
        BY DEF PoolInv, PoolShape, WatchShape
    <2>2. [watching EXCEPT !.at = "restart"].at = "restart"
          /\ [watching EXCEPT !.at = "restart"].session = m
        BY DEF PoolInv, PoolShape, WatchShape
    <2>3. NotWatching.at = "none"
        BY DEF NotWatching
    <2> QED BY <1>2, <2>1, <2>2, <2>3, NothingHasShape
  <1>4. CASE UNCHANGED sessions
    <2>1. PoolShape' /\ SessionsExist' /\ BindingsWhole'
        BY <1>1, <1>2, <1>3, <1>4 DEF PoolInv, PoolShape, SessionsExist, BindingsWhole, Created
    <2> QED BY <1>2, <1>3, <1>4, <2>1, CoreStays DEF PoolInv, Core
  <1>5. CASE /\ sessions[m].pid = watching.pid
             /\ sessions' = [sessions EXCEPT ![m].status = "error", ![m].pid = Nobody]
    <2> HIDE DEF m
    <2>1. PICK row : RowWritten(m, row)
        BY <1>1, <1>5, RowCleared
    <2>2. /\ sessions' \in [PoolSessions -> RowShape]
          /\ sessions'[m].pid = Nobody /\ sessions'[m].status = "error"
          /\ \A n \in PoolSessions \ {m} : sessions'[n] = sessions[n]
        BY <1>1, <1>5, RowCleared
    <2>3. ~Running(m)
        BY <1>1, <1>5, NobodyIsApart DEF PoolInv, RowsAgree, Running
    <2>4. PoolShape'
        BY <1>2, <1>3, <2>2 DEF PoolInv, PoolShape
    <2>5. SessionsExist' /\ PortsReserved'
        BY <1>1, <1>2, <1>3, <2>1, ServerRowStays DEF PoolInv, PoolShape, SessionsExist, EndShape
    <2>6. ProcessesStarted' /\ ServersKnown' /\ BindingsWhole'
        BY <1>2, <1>3 DEF PoolInv, ProcessesStarted, ServersKnown, BindingsWhole
    <2>7. LockKnows' /\ RowsAgree'
        BY <1>1, <1>2, <1>5, <2>2, <2>3, NobodyIsApart
        DEF PoolInv, SessionsExist, LockKnows, RowsAgree, Running, Alive, Listening
    <2> QED BY <2>4, <2>5, <2>6, <2>7 DEF PoolInv
  <1> QED BY <1>4, <1>5 DEF RecordExit

-----------------------------------------------------------------------------
(* Creation, and the start under its lock *)

LEMMA CreateSessionInv ==
    ASSUME PoolInv, NEW m \in PoolSessions, NEW port \in Ports, CreateSession(m, port)
    PROVE  PoolInv'
  <1> DEFINE row == [status |-> "stopped", desired |-> "running", port |-> port, pid |-> Nobody]
  <1>1. /\ sessions[m] = NoSession /\ ~Created(m)
        /\ Listening(port) = {} /\ \A n \in PoolSessions : sessions[n].port # port
        /\ sessions' = [sessions EXCEPT ![m] = row]
        /\ UNCHANGED <<instances, processes, starting, ending, watching, idle, transports, binding, stops>>
      BY DEF CreateSession, IsFirst, FreePorts, Created, NoSession
  <1>2. row \in RowShape /\ row.status = "stopped" /\ row.port = port
      BY DEF RowShape, Statuses, PortOrNone, PidOrNone
  <1> HIDE DEF row
  <1>3. /\ sessions' \in [PoolSessions -> RowShape] /\ sessions'[m] = row
        /\ \A n \in PoolSessions : n # m => sessions'[n] = sessions[n]
      BY <1>1, <1>2 DEF PoolInv, PoolShape
  <1>4. PoolShape'
      BY <1>1, <1>3 DEF PoolInv, PoolShape
  <1>5. SessionsExist'
      BY <1>1, <1>2, <1>3 DEF PoolInv, PoolShape, SessionsExist, Created, EndShape
  <1>6. PortsReserved'
      BY <1>1, <1>2, <1>3 DEF PoolInv, PortsReserved, Created, Listening
  <1>7. ProcessesStarted' /\ ServersKnown' /\ BindingsWhole'
      BY <1>1 DEF PoolInv, ProcessesStarted, ServersKnown, BindingsWhole
  <1>8. ~Running(m) /\ (starting.at # "free" => starting.session # m)
      BY <1>1, NobodyIsApart DEF PoolInv, SessionsExist, Running, Alive
  <1>9. LockKnows' /\ RowsAgree'
      BY <1>1, <1>3, <1>8 DEF PoolInv, SessionsExist, LockKnows, RowsAgree, Running, Alive, Listening
  <1> QED BY <1>4, <1>5, <1>6, <1>7, <1>9 DEF PoolInv

\* The wish is recorded and the lock taken, for a session whose server does not run; the
\* monitor may do so.
LEMMA BeginStartInv ==
    ASSUME PoolInv, NEW m \in PoolSessions, BeginStart(m),
           UNCHANGED <<instances, processes, ending, idle, transports, binding, stops>>,
           watching' \in {watching, NotWatching}
    PROVE  PoolInv'
  <1> DEFINE row == [sessions[m] EXCEPT !.desired = "running"]
             held == [NotStarting EXCEPT !.session = m, !.at = "port"]
  <1>1. /\ starting.at = "free" /\ Created(m) /\ ~Running(m)
        /\ sessions' = [sessions EXCEPT ![m] = row] /\ starting' = held
      BY DEF BeginStart, AtStart, Created
  <1>2. /\ row \in RowShape
        /\ row.status = sessions[m].status /\ row.port = sessions[m].port /\ row.pid = sessions[m].pid
      BY DEF PoolInv, PoolShape, RowShape
  <1>3. held \in StartShape /\ held.session = m /\ held.at = "port"
      BY DEF NotStarting, StartShape, SessionOrNone, PidOrNone, PortOrNone
  <1>4. RowWritten(m, row)
      BY <1>1, <1>2 DEF RowWritten, Created
  <1>5. NotWatching \in WatchShape /\ NotWatching.at = "none"
      BY NothingHasShape DEF NotWatching
  <1> HIDE DEF row, held
  <1>6. /\ sessions' \in [PoolSessions -> RowShape]
        /\ \A n \in PoolSessions : /\ sessions'[n].pid = sessions[n].pid
                                   /\ sessions'[n].status = sessions[n].status
      BY <1>2, <1>4, ServerRowKept
  <1>7. PoolShape'
      BY <1>1, <1>3, <1>5, <1>6 DEF PoolInv, PoolShape
  <1>8. SessionsExist' /\ PortsReserved'
      BY <1>1, <1>3, <1>4, <1>5, ServerRowStays DEF PoolInv, PoolShape, SessionsExist, EndShape
  <1>9. ProcessesStarted' /\ ServersKnown' /\ BindingsWhole'
      BY <1>1, <1>3, <1>5 DEF PoolInv, ProcessesStarted, ServersKnown, BindingsWhole
  <1>10. LockKnows' /\ RowsAgree'
      BY <1>1, <1>3, <1>6 DEF PoolInv, LockKnows, RowsAgree, Running, Alive
  <1> QED BY <1>7, <1>8, <1>9, <1>10 DEF PoolInv

LEMMA EnsureRunningInv ==
    ASSUME PoolInv, NEW m \in PoolSessions, EnsureRunning(m)
    PROVE  PoolInv'
  BY BeginStartInv DEF EnsureRunning

LEMMA RestartExitedInv ==
    ASSUME PoolInv, RestartExited
    PROVE  PoolInv'
  <1>1. /\ watching.at = "restart" /\ watching.session \in PoolSessions /\ watching' = NotWatching
        /\ UNCHANGED <<instances, processes, ending, idle, transports, binding, stops>>
      BY DEF RestartExited, PoolInv, SessionsExist
  <1>2. CASE BeginStart(watching.session)
      BY <1>1, <1>2, BeginStartInv
  <1>3. CASE UNCHANGED <<sessions, starting>>
    <2>1. NotWatching \in WatchShape /\ NotWatching.at = "none"
        BY NothingHasShape DEF NotWatching
    <2>2. PoolShape' /\ SessionsExist' /\ BindingsWhole'
        BY <1>1, <1>3, <2>1 DEF PoolInv, PoolShape, SessionsExist, BindingsWhole, Created
    <2> QED BY <1>1, <1>3, <2>1, <2>2, CoreStays DEF PoolInv, Core
  <1> QED BY <1>2, <1>3 DEF RestartExited

\* The lock's holder is elsewhere: what only names servers and rows is not disturbed.
LEMMA LockMoves ==
    ASSUME PoolInv, starting' \in StartShape,
           UNCHANGED <<sessions, instances, processes, ending, watching, idle, transports, binding, stops>>,
           starting'.at # "free" => starting'.session = starting.session /\ starting.at # "free",
           starting'.at \notin {"write", "register", "wait"},
           starting.at \notin {"write", "register"}
    PROVE  /\ PoolShape' /\ SessionsExist' /\ PortsReserved' /\ ProcessesStarted'
           /\ ServersKnown' /\ RowsAgree' /\ BindingsWhole'
  <1>1. PoolShape' /\ SessionsExist'
      BY DEF PoolInv, PoolShape, SessionsExist, Created
  <1>2. PortsReserved' /\ ProcessesStarted' /\ ServersKnown' /\ RowsAgree' /\ BindingsWhole'
      BY DEF PoolInv, PortsReserved, ProcessesStarted, ServersKnown, RowsAgree, BindingsWhole,
             Created, Running, Alive
  <1> QED BY <1>1, <1>2

LEMMA CheckPortInv ==
    ASSUME PoolInv, CheckPort
    PROVE  PoolInv'
  <1>1. /\ starting.at = "port"
        /\ UNCHANGED <<sessions, instances, processes, ending, watching, idle, transports, binding, stops>>
      BY DEF CheckPort, AtStart
  <1>2. CASE starting' = [starting EXCEPT !.at = "spawn"]
    <2>1. starting' \in StartShape /\ starting'.at = "spawn" /\ starting'.session = starting.session
        BY <1>2 DEF PoolInv, PoolShape, StartShape
    <2>2. LockKnows'
        BY <1>1, <2>1 DEF PoolInv, LockKnows, Running, Alive
    <2> QED BY <1>1, <2>1, <2>2, LockMoves DEF PoolInv
  <1>3. CASE \E q \in FreePorts : starting' = [starting EXCEPT !.at = "move", !.port = q]
    <2>1. PICK q \in FreePorts : starting' = [starting EXCEPT !.at = "move", !.port = q]
        BY <1>3
    <2>2. q \in Ports /\ Listening(q) = {}
        BY DEF FreePorts
    <2>3. /\ starting' \in StartShape /\ starting'.at = "move" /\ starting'.session = starting.session
          /\ starting'.port = q
        BY <2>1, <2>2 DEF PoolInv, PoolShape, StartShape, PortOrNone
    <2>4. LockKnows'
        BY <1>1, <2>2, <2>3 DEF PoolInv, LockKnows, Running, Alive, Listening
    <2> QED BY <1>1, <2>3, <2>4, LockMoves DEF PoolInv
  <1>4. CASE starting' = NotStarting
    <2>1. NotStarting \in StartShape /\ NotStarting.at = "free"
        BY NothingHasShape DEF NotStarting
    <2>2. LockKnows'
        BY <1>4, <2>1 DEF LockKnows
    <2> QED BY <1>1, <1>4, <2>1, <2>2, LockMoves DEF PoolInv
  <1> QED BY <1>2, <1>3, <1>4 DEF CheckPort, Go

\* A start that fails before there is a process lets go of the lock.
LEMMA SpawnFailsInv ==
    ASSUME PoolInv, SpawnFails
    PROVE  PoolInv'
  <1>1. /\ starting.at = "spawn" /\ starting' = NotStarting
        /\ UNCHANGED <<sessions, instances, processes, ending, watching, idle, transports, binding, stops>>
      BY DEF SpawnFails, AtStart
  <1>2. NotStarting \in StartShape /\ NotStarting.at = "free"
      BY NothingHasShape DEF NotStarting
  <1>3. LockKnows'
      BY <1>1, <1>2 DEF LockKnows
  <1> QED BY <1>1, <1>2, <1>3, LockMoves DEF PoolInv

\* A session gives its reserved port up for one that nobody listens on.
LEMMA MovePortInv ==
    ASSUME PoolInv, MovePort
    PROVE  PoolInv'
  <1> DEFINE m == starting.session
  <1>1. /\ starting.at = "move" /\ m \in PoolSessions /\ Created(m) /\ ~Running(m)
        /\ starting.port \in Ports /\ Listening(starting.port) = {}
        /\ UNCHANGED <<instances, processes, ending, watching, idle, transports, binding, stops>>
      BY DEF MovePort, AtStart, PoolInv, SessionsExist, LockKnows
  <1>2. CASE starting' = NotStarting /\ UNCHANGED sessions
    <2>1. NotStarting \in StartShape /\ NotStarting.at = "free"
        BY NothingHasShape DEF NotStarting
    <2>2. LockKnows'
        BY <1>2, <2>1 DEF LockKnows
    <2> QED BY <1>1, <1>2, <2>1, <2>2, LockMoves DEF PoolInv
  <1>3. CASE /\ \A n \in PoolSessions : sessions[n].port # starting.port
             /\ sessions' = [sessions EXCEPT ![m].port = starting.port,
                               ![m].status = "stopped", ![m].pid = Nobody]
             /\ starting' = [starting EXCEPT !.at = "spawn"]
    <2> DEFINE row == [sessions[m] EXCEPT !.port = starting.port, !.status = "stopped", !.pid = Nobody]
    <2>1. row \in RowShape /\ row.port = starting.port /\ row.status = "stopped" /\ row.pid = Nobody
      <3>1. sessions[m] \in RowShape
          BY <1>1 DEF PoolInv, PoolShape
      <3>2. starting.port \in PortOrNone /\ Nobody \in PidOrNone /\ "stopped" \in Statuses
          BY <1>1 DEF PortOrNone, PidOrNone, Statuses
      <3> QED BY <3>1, <3>2 DEF RowShape
    <2>2. sessions' = [sessions EXCEPT ![m] = row]
        BY <1>3
    <2>3. starting' \in StartShape /\ starting'.at = "spawn" /\ starting'.session = m
        BY <1>3 DEF PoolInv, PoolShape, StartShape
    <2> HIDE DEF row, m
    <2>4. /\ sessions' \in [PoolSessions -> RowShape] /\ sessions'[m] = row
          /\ \A n \in PoolSessions : n # m => sessions'[n] = sessions[n]
        BY <1>1, <2>1, <2>2 DEF PoolInv, PoolShape
    <2>5. PoolShape'
        BY <1>1, <2>3, <2>4 DEF PoolInv, PoolShape
    <2>6. SessionsExist'
        BY <1>1, <2>1, <2>3, <2>4 DEF PoolInv, PoolShape, SessionsExist, Created, EndShape
    <2>7. PortsReserved'
        BY <1>1, <1>3, <2>1, <2>4 DEF PoolInv, PortsReserved, Created, Listening
    <2>8. ProcessesStarted' /\ ServersKnown' /\ BindingsWhole'
        BY <1>1, <2>3 DEF PoolInv, ProcessesStarted, ServersKnown, BindingsWhole
    <2>9. LockKnows' /\ RowsAgree'
        BY <1>1, <2>3, <2>4 DEF PoolInv, LockKnows, RowsAgree, Running, Alive
    <2> QED BY <2>5, <2>6, <2>7, <2>8, <2>9 DEF PoolInv
  <1> QED BY <1>2, <1>3 DEF MovePort, Go

\* The new process serves the session, alone if it lives; the starter knows it.
LEMMA SpawnInv ==
    ASSUME PoolInv, Spawn
    PROVE  PoolInv'
  <1> DEFINE m == starting.session
  <1>1. /\ starting.at = "spawn" /\ m \in PoolSessions /\ Created(m) /\ sessions[m].port \in Ports
        /\ ~Running(m)
        /\ UNCHANGED <<sessions, instances, ending, watching, idle, transports, binding, stops>>
      BY DEF Spawn, AtStart, PoolInv, SessionsExist, LockKnows
  <1>2. PICK p \in Pids :
          /\ processes[p] = NoProcess
          /\ processes' = [processes EXCEPT ![p] =
               [session |-> m, port |-> sessions[m].port,
                alive |-> Listening(sessions[m].port) = {}, told |-> FALSE]]
          /\ starting' = [starting EXCEPT !.at = "write", !.pid = p]
      BY DEF Spawn
  <1>3. /\ starting' \in StartShape /\ starting'.at = "write" /\ starting'.pid = p
        /\ starting'.session = m
      BY <1>2 DEF PoolInv, PoolShape, StartShape, PidOrNone
  <1> DEFINE new == [session |-> m, port |-> sessions[m].port,
                     alive |-> Listening(sessions[m].port) = {}, told |-> FALSE]
  <1>4. /\ new \in ProcessShape /\ new.session = m /\ new.port = sessions[m].port
        /\ new.alive => Listening(sessions[m].port) = {}
      BY <1>1 DEF ProcessShape, SessionOrNone, PortOrNone
  <1>5. processes[p].session = Nobody /\ ~processes[p].alive
      BY <1>2 DEF NoProcess
  <1>6. processes' = [processes EXCEPT ![p] = new]
      BY <1>2
  <1> HIDE DEF m, new
  <1>7. /\ processes' \in [Pids -> ProcessShape] /\ processes'[p] = new
        /\ \A q \in Pids : q # p => processes'[q] = processes[q]
      BY <1>4, <1>6 DEF PoolInv, PoolShape
  <1>8. /\ \A n \in PoolSessions : instances[n] # p
        /\ watching.at \in {"read", "write"} => watching.pid # p
      BY <1>5, NobodyIsApart DEF PoolInv, ProcessesStarted, SessionsExist, PidOrNone
  <1>9. PoolShape' /\ SessionsExist' /\ BindingsWhole'
      BY <1>1, <1>3, <1>4, <1>7 DEF PoolInv, PoolShape, SessionsExist, BindingsWhole, Created
  <1>10. PortsReserved'
      BY <1>1, <1>4, <1>7 DEF PoolInv, PortsReserved, Listening, Created
  <1>11. ProcessesStarted'
      BY <1>1, <1>3, <1>4, <1>7, <1>8, NobodyIsApart DEF PoolInv, PoolShape, PidOrNone, ProcessesStarted
  <1>12. ServersKnown'
      BY <1>1, <1>3, <1>4, <1>7 DEF PoolInv, ServersKnown
  <1>13. \A n \in PoolSessions : Running(n)' <=> Running(n)
      BY <1>1, <1>7, <1>8 DEF Running, Alive
  <1>14. LockKnows' /\ RowsAgree'
      BY <1>1, <1>3, <1>13 DEF PoolInv, LockKnows, RowsAgree
  <1> QED BY <1>9, <1>10, <1>11, <1>12, <1>14 DEF PoolInv

\* The starter names the process in the row, ...
LEMMA WriteStartingInv ==
    ASSUME PoolInv, WriteStarting
    PROVE  PoolInv'
  <1> DEFINE m == starting.session
             row == [sessions[m] EXCEPT !.status = "starting", !.pid = starting.pid]
  <1>1. /\ starting.at = "write" /\ m \in PoolSessions /\ Created(m) /\ ~Running(m)
        /\ starting.pid \in Pids
        /\ sessions' = [sessions EXCEPT ![m] = row]
        /\ starting' = [starting EXCEPT !.at = "register"]
        /\ UNCHANGED <<instances, processes, ending, watching, idle, transports, binding, stops>>
      BY DEF WriteStarting, AtStart, Go, PoolInv, SessionsExist, LockKnows, ProcessesStarted
  <1>2. /\ row \in RowShape /\ row.status = "starting" /\ row.pid = starting.pid
        /\ row.port = sessions[m].port
    <2>1. sessions[m] \in RowShape
        BY <1>1 DEF PoolInv, PoolShape
    <2>2. starting.pid \in PidOrNone /\ "starting" \in Statuses
        BY <1>1 DEF PidOrNone, Statuses
    <2> QED BY <2>1, <2>2 DEF RowShape
  <1>3. /\ starting' \in StartShape /\ starting'.at = "register" /\ starting'.session = m
        /\ starting'.pid = starting.pid
      BY <1>1 DEF PoolInv, PoolShape, StartShape
  <1> HIDE DEF m, row
  <1>4. RowWritten(m, row)
      BY <1>1, <1>2 DEF RowWritten
  <1>5. /\ sessions' \in [PoolSessions -> RowShape] /\ sessions'[m] = row
        /\ \A n \in PoolSessions : n # m => sessions'[n] = sessions[n]
      BY <1>1, <1>4, ServerRowKept
  <1>6. PoolShape'
      BY <1>1, <1>3, <1>5 DEF PoolInv, PoolShape
  <1>7. SessionsExist' /\ PortsReserved'
      BY <1>1, <1>3, <1>4, ServerRowStays DEF PoolInv, PoolShape, SessionsExist, EndShape
  <1>8. ProcessesStarted' /\ ServersKnown' /\ BindingsWhole'
      BY <1>1, <1>3 DEF PoolInv, ProcessesStarted, ServersKnown, BindingsWhole, m
  <1>9. LockKnows' /\ RowsAgree'
      BY <1>1, <1>2, <1>3, <1>5 DEF PoolInv, LockKnows, RowsAgree, Running, Alive
  <1> QED BY <1>6, <1>7, <1>8, <1>9 DEF PoolInv

\* ... and registers it.
LEMMA RegisterInv ==
    ASSUME PoolInv, Register
    PROVE  PoolInv'
  <1> DEFINE m == starting.session
  <1>1. /\ starting.at = "register" /\ m \in PoolSessions /\ Created(m) /\ ~Running(m)
        /\ starting.pid \in Pids /\ processes[starting.pid].session = m
        /\ sessions[m].pid \in {starting.pid, Nobody}
        /\ sessions[m].status = "error" => ~Alive(starting.pid)
        /\ instances' = [instances EXCEPT ![m] = starting.pid]
        /\ starting' = [starting EXCEPT !.at = "wait"]
        /\ UNCHANGED <<sessions, processes, ending, watching, idle, transports, binding, stops>>
      BY DEF Register, AtStart, Go, PoolInv, SessionsExist, LockKnows, ProcessesStarted
  <1>2. /\ starting' \in StartShape /\ starting'.at = "wait" /\ starting'.session = m
        /\ starting'.pid = starting.pid
      BY <1>1 DEF PoolInv, PoolShape, StartShape
  <1>3. /\ instances' \in [PoolSessions -> PidOrNone] /\ instances'[m] = starting.pid
        /\ \A n \in PoolSessions : n # m => instances'[n] = instances[n]
      BY <1>1 DEF PoolInv, PoolShape, PidOrNone
  <1>4. PoolShape' /\ PortsReserved' /\ BindingsWhole'
      BY <1>1, <1>2, <1>3 DEF PoolInv, PoolShape, PortsReserved, BindingsWhole, Created
  <1>5. SessionsExist' /\ ProcessesStarted'
      BY <1>1, <1>2, <1>3 DEF PoolInv, SessionsExist, ProcessesStarted, Created
  <1>6. ServersKnown'
      BY <1>1, <1>3 DEF PoolInv, ServersKnown, Running, Alive
  <1>7. LockKnows' /\ RowsAgree'
      BY <1>1, <1>2, <1>3 DEF PoolInv, LockKnows, RowsAgree, Running, Alive
  <1> QED BY <1>4, <1>5, <1>6, <1>7 DEF PoolInv

LEMMA ReadyInv ==
    ASSUME PoolInv, Ready
    PROVE  PoolInv'
  <1> DEFINE m == starting.session
             row == [sessions[m] EXCEPT !.status = "ready", !.pid = starting.pid]
  <1>1. /\ starting.at = "wait" /\ m \in PoolSessions /\ Created(m)
        /\ starting.pid \in Pids /\ instances[m] \in {starting.pid, Nobody}
        /\ sessions' = [sessions EXCEPT ![m] = row] /\ starting' = NotStarting
        /\ UNCHANGED <<instances, processes, ending, watching, idle, transports, binding, stops>>
      BY DEF Ready, AtStart, PoolInv, SessionsExist, LockKnows, ProcessesStarted
  <1>2. /\ row \in RowShape /\ row.status = "ready" /\ row.pid = starting.pid
        /\ row.port = sessions[m].port
    <2>1. sessions[m] \in RowShape
        BY <1>1 DEF PoolInv, PoolShape
    <2>2. starting.pid \in PidOrNone /\ "ready" \in Statuses
        BY <1>1 DEF PidOrNone, Statuses
    <2> QED BY <2>1, <2>2 DEF RowShape
  <1>3. NotStarting \in StartShape /\ NotStarting.at = "free"
      BY NothingHasShape DEF NotStarting
  <1> HIDE DEF row
  <1>4. RowWritten(m, row)
      BY <1>1, <1>2 DEF RowWritten
  <1>5. /\ sessions' \in [PoolSessions -> RowShape] /\ sessions'[m] = row
        /\ \A n \in PoolSessions : n # m => sessions'[n] = sessions[n]
      BY <1>1, <1>4, ServerRowKept
  <1>6. PoolShape'
      BY <1>1, <1>3, <1>5 DEF PoolInv, PoolShape
  <1>7. SessionsExist' /\ PortsReserved'
      BY <1>1, <1>3, <1>4, ServerRowStays DEF PoolInv, PoolShape, SessionsExist, EndShape
  <1>8. ProcessesStarted' /\ ServersKnown' /\ BindingsWhole'
      BY <1>1, <1>3 DEF PoolInv, ProcessesStarted, ServersKnown, BindingsWhole
  <1>9. LockKnows'
      BY <1>1, <1>3 DEF LockKnows
  <1> HIDE DEF m
  <1>10. RowsAgree'
      BY <1>1, <1>2, <1>5, NobodyIsApart DEF PoolInv, RowsAgree, Running, Alive
  <1> QED BY <1>6, <1>7, <1>8, <1>9, <1>10 DEF PoolInv

LEMMA RecordFailureInv ==
    ASSUME PoolInv, RecordFailure
    PROVE  PoolInv'
  <1> DEFINE m == starting.session
  <1>1. /\ starting.at = "failing" /\ m \in PoolSessions /\ Created(m) /\ instances[m] = Nobody
        /\ sessions' = [sessions EXCEPT ![m].status = "error", ![m].pid = Nobody]
        /\ starting' = NotStarting
        /\ UNCHANGED <<instances, processes, ending, watching, idle, transports, binding, stops>>
      BY DEF RecordFailure, AtStart, PoolInv, SessionsExist, LockKnows
  <1>2. NotStarting \in StartShape /\ NotStarting.at = "free"
      BY NothingHasShape DEF NotStarting
  <1> HIDE DEF m
  <1>3. PICK row : RowWritten(m, row)
      BY <1>1, RowCleared
  <1>4. /\ sessions' \in [PoolSessions -> RowShape]
        /\ \A n \in PoolSessions \ {m} : sessions'[n] = sessions[n]
      BY <1>1, RowCleared
  <1>5. PoolShape'
      BY <1>1, <1>2, <1>4 DEF PoolInv, PoolShape
  <1>6. SessionsExist' /\ PortsReserved'
      BY <1>1, <1>2, <1>3, ServerRowStays DEF PoolInv, PoolShape, SessionsExist, EndShape
  <1>7. ProcessesStarted' /\ ServersKnown' /\ BindingsWhole'
      BY <1>1, <1>2 DEF PoolInv, ProcessesStarted, ServersKnown, BindingsWhole
  <1>8. LockKnows' /\ RowsAgree'
      BY <1>1, <1>2, <1>4, NobodyIsApart DEF PoolInv, LockKnows, RowsAgree, Running, Alive
  <1> QED BY <1>5, <1>6, <1>7, <1>8 DEF PoolInv

-----------------------------------------------------------------------------
(* Steps that take a process from the register, and processes that exit *)

\* Processes are told to stop or exit, and registrations are given up; the rows are not
\* written and the lock stays where it is.
LEMMA ServersEnd ==
    ASSUME PoolInv, UNCHANGED <<sessions, starting>>,
           instances' \in [PoolSessions -> PidOrNone],
           \A n \in PoolSessions : instances'[n] \in {instances[n], Nobody},
           \A p \in Pids : /\ processes'[p].session = processes[p].session
                           /\ processes'[p].port = processes[p].port
                           /\ processes'[p].alive => processes[p].alive
                           /\ ~processes'[p].told => ~processes[p].told,
           \A p \in Pids, n \in PoolSessions :
              instances[n] = p /\ instances'[n] = Nobody =>
                  processes'[p].told \/ ~processes'[p].alive,
           watching'.at \in {"read", "write"} =>
              \/ UNCHANGED watching
              \/ /\ watching'.pid \in Pids /\ ~processes'[watching'.pid].alive
                 /\ processes[watching'.pid].session = watching'.session
    PROVE  Core'
  <1>1. \A n \in PoolSessions : Running(n)' => Running(n) /\ instances'[n] = instances[n]
      BY NobodyIsApart DEF Running, Alive
  <1>2. \A p : Alive(p)' => Alive(p)
      BY DEF Alive
  <1>3. PortsReserved'
      BY DEF PoolInv, PortsReserved, Created
  <1>4. ProcessesStarted'
      BY NobodyIsApart DEF PoolInv, PoolShape, PidOrNone, ProcessesStarted
  <1>5. LockKnows'
    <2>1. Listening(starting.port) = {} => Listening(starting.port)' = {}
        BY DEF Listening
    <2> QED BY <1>1, <1>2, <2>1 DEF PoolInv, SessionsExist, LockKnows
  <1>6. ServersKnown'
      BY DEF PoolInv, ProcessesStarted, ServersKnown
  <1>7. RowsAgree'
      BY <1>1 DEF PoolInv, RowsAgree
  <1> QED BY <1>3, <1>4, <1>5, <1>6, <1>7 DEF Core

\* What SignalServer does.
LEMMA Signalled ==
    ASSUME PoolInv, NEW m \in PoolSessions, SignalServer(m)
    PROVE  /\ instances' \in [PoolSessions -> PidOrNone]
           /\ processes' \in [Pids -> ProcessShape]
           /\ \A n \in PoolSessions : instances'[n] = IF n = m THEN Nobody ELSE instances[n]
           /\ \A p \in Pids : /\ processes'[p].session = processes[p].session
                              /\ processes'[p].port = processes[p].port
                              /\ processes'[p].alive = processes[p].alive
                              /\ processes[p].told => processes'[p].told
                              /\ instances[m] = p => processes'[p].told \/ ~processes'[p].alive
  <1>1. /\ instances' = [instances EXCEPT ![m] = Nobody]
        /\ instances \in [PoolSessions -> PidOrNone] /\ processes \in [Pids -> ProcessShape]
      BY DEF SignalServer, PoolInv, PoolShape
  <1>2. /\ instances' \in [PoolSessions -> PidOrNone]
        /\ \A n \in PoolSessions : instances'[n] = IF n = m THEN Nobody ELSE instances[n]
      BY <1>1 DEF PidOrNone
  <1>3. CASE Running(m)
    <2>1. instances[m] \in Pids /\ processes' = [processes EXCEPT ![instances[m]].told = TRUE]
        BY <1>3 DEF SignalServer, Running, Alive
    <2> QED BY <1>1, <1>2, <2>1 DEF ProcessShape
  <1>4. CASE ~Running(m)
    <2>1. UNCHANGED processes
        BY <1>4 DEF SignalServer
    <2> QED BY <1>1, <1>2, <1>4, <2>1 DEF Running, Alive
  <1> QED BY <1>3, <1>4

\* A termination goes on to its first await.
LEMMA SignalKeepsInv ==
    ASSUME PoolInv, NEW m \in PoolSessions, SignalServer(m),
           UNCHANGED <<sessions, starting, watching, transports, binding>>,
           idle' \subseteq idle, stops' \in 0..MaxStops,
           ending' \subseteq EndShape, \A e \in ending' : Created(e.session)
    PROVE  PoolInv'
  <1>1. Core'
    <2>1. /\ \A n \in PoolSessions : instances'[n] \in {instances[n], Nobody}
          /\ \A p \in Pids, n \in PoolSessions :
                instances[n] = p /\ instances'[n] = Nobody => processes'[p].told \/ ~processes'[p].alive
        BY Signalled, NobodyIsApart
    <2> QED BY <2>1, Signalled, ServersEnd
  <1>2. PoolShape'
      BY Signalled DEF PoolInv, PoolShape
  <1>3. SessionsExist' /\ BindingsWhole'
      BY Signalled DEF PoolInv, SessionsExist, BindingsWhole, Created
  <1> QED BY <1>1, <1>2, <1>3 DEF Core, PoolInv

LEMMA TerminatingHasShape ==
    ASSUME PoolInv, NEW m \in PoolSessions, NEW keep \in BOOLEAN, NEW number \in Nat
    PROVE  Terminating(m, keep, number) \in EndShape /\ Terminating(m, keep, number).session = m
  <1>1. instances[m] \in PidOrNone
      BY DEF PoolInv, PoolShape
  <1> QED BY <1>1 DEF Terminating, EndShape

LEMMA StopSessionInv ==
    ASSUME PoolInv, NEW e \in ending, StopSession(e)
    PROVE  PoolInv'
  <1>1. /\ e \in EndShape /\ Created(e.session)
        /\ e.session \in PoolSessions /\ e.keep \in BOOLEAN /\ e.number \in Nat
      BY DEF PoolInv, PoolShape, SessionsExist, EndShape
  <1> DEFINE after == Terminating(e.session, e.keep, e.number)
  <1>2. after \in EndShape /\ after.session = e.session
      BY <1>1, TerminatingHasShape
  <1>3. /\ SignalServer(e.session) /\ ending' = (ending \ {e}) \cup {after}
        /\ UNCHANGED <<sessions, starting, watching, idle, transports, binding, stops>>
      BY DEF StopSession
  <1> HIDE DEF after
  <1>4. ending' \subseteq EndShape /\ \A f \in ending' : Created(f.session)
      BY <1>1, <1>2, <1>3 DEF PoolInv, PoolShape, SessionsExist
  <1>5. stops' \in 0..MaxStops
      BY <1>3 DEF PoolInv, PoolShape
  <1> QED BY <1>1, <1>3, <1>4, <1>5, SignalKeepsInv

LEMMA StopIdleInv ==
    ASSUME PoolInv, NEW m \in PoolSessions, StopIdle(m)
    PROVE  PoolInv'
  <1>1. stops \in Nat /\ Created(m)
      BY PoolAssumption DEF StopIdle, PoolInv, PoolShape, SessionsExist
  <1> DEFINE after == Terminating(m, FALSE, stops)
  <1>2. after \in EndShape /\ after.session = m
      BY <1>1, TerminatingHasShape
  <1>3. /\ SignalServer(m) /\ ending' = ending \cup {after} /\ idle' \subseteq idle
        /\ stops < MaxStops /\ stops' = stops + 1
        /\ UNCHANGED <<sessions, starting, watching, transports, binding>>
      BY DEF StopIdle
  <1> HIDE DEF after
  <1>4. ending' \subseteq EndShape /\ \A e \in ending' : Created(e.session)
      BY <1>1, <1>2, <1>3 DEF PoolInv, PoolShape, SessionsExist
  <1>5. stops' \in 0..MaxStops
      BY <1>1, <1>3, PoolAssumption
  <1> QED BY <1>3, <1>4, <1>5, SignalKeepsInv

\* The time for the start is up: what is registered is told to stop.
LEMMA StartFailsInv ==
    ASSUME PoolInv, StartFails
    PROVE  PoolInv'
  <1> DEFINE m == starting.session
             p == instances[m]
  <1>1. /\ starting.at = "wait" /\ m \in PoolSessions /\ Created(m) /\ p \in PidOrNone
        /\ instances' = [instances EXCEPT ![m] = Nobody]
        /\ processes' = IF Alive(p) THEN [processes EXCEPT ![p].told = TRUE] ELSE processes
        /\ starting' = [starting EXCEPT !.at = "failing", !.pid = p]
        /\ UNCHANGED <<sessions, ending, watching, idle, transports, binding, stops>>
      BY DEF StartFails, AtStart, PoolInv, PoolShape, SessionsExist
  <1>2. starting' \in StartShape /\ starting'.at = "failing" /\ starting'.session = m
      BY <1>1 DEF PoolInv, PoolShape, StartShape
  <1>3. SignalServer(m)
      BY <1>1 DEF SignalServer, Running
  <1> HIDE DEF m, p
  <1>4. /\ \A n \in PoolSessions : Running(n)' => Running(n) /\ instances'[n] = instances[n]
        /\ instances'[m] = Nobody
      BY <1>1, <1>3, Signalled, NobodyIsApart DEF Running, Alive
  <1>5. PoolShape'
      BY <1>1, <1>2, <1>3, Signalled DEF PoolInv, PoolShape
  <1>6. SessionsExist' /\ BindingsWhole'
      BY <1>1, <1>2, <1>3, Signalled DEF PoolInv, SessionsExist, BindingsWhole, Created
  <1>7. PortsReserved'
      BY <1>1, <1>3, Signalled DEF PoolInv, PortsReserved, Created
  <1>8. ProcessesStarted'
    <2>1. \A n \in PoolSessions : instances'[n] # Nobody => instances'[n] \in Pids
        BY <1>5 DEF PoolShape, PidOrNone
    <2> QED BY <1>1, <1>2, <1>3, <2>1, Signalled DEF PoolInv, PoolShape, PidOrNone, ProcessesStarted
  <1>9. ServersKnown'
      BY <1>1, <1>3, Signalled DEF PoolInv, ProcessesStarted, ServersKnown
  <1>10. LockKnows' /\ RowsAgree'
      BY <1>1, <1>2, <1>4 DEF PoolInv, LockKnows, RowsAgree
  <1> QED BY <1>5, <1>6, <1>7, <1>8, <1>9, <1>10 DEF PoolInv

\* The monitor finds that a process exited which was registered, and may be still.
LEMMA FindExitedInv ==
    ASSUME PoolInv, NEW m \in PoolSessions, NEW p \in Pids, FindExited(m, p)
    PROVE  PoolInv'
  <1> DEFINE found == [session |-> m, at |-> "read", pid |-> p, desired |-> "stopped"]
  <1>1. /\ processes[p].session = m /\ ~processes[p].alive
        /\ instances' = IF instances[m] = p THEN [instances EXCEPT ![m] = Nobody] ELSE instances
        /\ watching' = found
        /\ UNCHANGED <<sessions, processes, starting, ending, idle, transports, binding, stops>>
      BY DEF FindExited, Alive
  <1>2. Created(m)
      BY <1>1, NobodyIsApart DEF PoolInv, SessionsExist
  <1>3. found \in WatchShape /\ found.session = m /\ found.pid = p
      BY DEF WatchShape, SessionOrNone, PidOrNone
  <1> HIDE DEF found
  <1>4. /\ instances' \in [PoolSessions -> PidOrNone]
        /\ \A n \in PoolSessions :
             \/ instances'[n] = instances[n]
             \/ n = m /\ instances[n] = p /\ instances'[n] = Nobody
      BY <1>1 DEF PoolInv, PoolShape, PidOrNone
  <1>5. PoolShape'
      BY <1>1, <1>3, <1>4 DEF PoolInv, PoolShape
  <1>6. SessionsExist' /\ BindingsWhole'
      BY <1>1, <1>2, <1>3, <1>4 DEF PoolInv, SessionsExist, BindingsWhole, Created
  <1>7. Core'
    <2>1. /\ \A n \in PoolSessions : instances'[n] \in {instances[n], Nobody}
          /\ \A q \in Pids, n \in PoolSessions :
                instances[n] = q /\ instances'[n] = Nobody => ~processes'[q].alive
        BY <1>1, <1>4, NobodyIsApart
    <2> QED BY <1>1, <1>3, <1>4, <2>1, ServersEnd
  <1> QED BY <1>5, <1>6, <1>7 DEF Core, PoolInv

LEMMA ExitInv ==
    ASSUME PoolInv, NEW p \in Pids, Exit(p)
    PROVE  PoolInv'
  <1>1. /\ processes' = [processes EXCEPT ![p].alive = FALSE]
        /\ UNCHANGED <<sessions, instances, starting, ending, watching, idle, transports, binding, stops>>
      BY DEF Exit
  <1>2. /\ processes' \in [Pids -> ProcessShape]
        /\ \A q \in Pids : /\ processes'[q].session = processes[q].session
                           /\ processes'[q].port = processes[q].port
                           /\ processes'[q].told = processes[q].told
                           /\ processes'[q].alive => processes[q].alive
      BY <1>1 DEF PoolInv, PoolShape, ProcessShape
  <1>3. instances' \in [PoolSessions -> PidOrNone]
      BY <1>1 DEF PoolInv, PoolShape
  <1>4. PoolShape' /\ SessionsExist' /\ BindingsWhole'
      BY <1>1, <1>2 DEF PoolInv, PoolShape, SessionsExist, BindingsWhole, Created
  <1>5. Core'
      BY <1>1, <1>2, <1>3, NobodyIsApart, ServersEnd
  <1> QED BY <1>4, <1>5 DEF Core, PoolInv

LEMMA PoolRestartInv ==
    ASSUME PoolInv, PoolRestart
    PROVE  PoolInv'
  <1>1. /\ instances' = [m \in PoolSessions |-> Nobody]
        /\ processes' = [p \in Pids |-> [processes[p] EXCEPT !.alive = FALSE]]
        /\ starting' = NotStarting /\ ending' = {} /\ watching' = NotWatching /\ idle' = {}
        /\ binding' = [t \in Transports |-> Unbound]
        /\ UNCHANGED <<sessions, transports, stops>>
      BY DEF PoolRestart
  <1>2. /\ processes' \in [Pids -> ProcessShape]
        /\ \A p \in Pids : ~processes'[p].alive /\ processes'[p].session = processes[p].session
      BY <1>1 DEF PoolInv, PoolShape, ProcessShape
  <1>3. NotStarting.at = "free" /\ NotWatching.at = "none"
        /\ Unbound.session = Nobody /\ Unbound.port = Nobody
      BY DEF NotStarting, NotWatching, Unbound
  <1>4. PoolShape'
      BY <1>1, <1>2, NothingHasShape DEF PoolInv, PoolShape, PidOrNone
  <1>5. SessionsExist' /\ PortsReserved' /\ BindingsWhole'
    <2>1. SessionsExist'
        BY <1>1, <1>2, <1>3 DEF PoolInv, SessionsExist, Created
    <2>2. PortsReserved'
        BY <1>1, <1>2 DEF PoolInv, PortsReserved, Created
    <2>3. BindingsWhole'
        BY <1>1, <1>3 DEF PoolInv, BindingsWhole
    <2> QED BY <2>1, <2>2, <2>3
  <1>6. ProcessesStarted' /\ LockKnows' /\ ServersKnown' /\ RowsAgree'
      BY <1>1, <1>2, <1>3, NobodyIsApart
      DEF ProcessesStarted, LockKnows, ServersKnown, RowsAgree, Running, Alive
  <1> QED BY <1>4, <1>5, <1>6 DEF PoolInv

-----------------------------------------------------------------------------
(* Theorems *)

LEMMA PoolStepInv == PoolInv /\ [PoolNext]_poolVars => PoolInv'
  <1> SUFFICES ASSUME PoolInv, [PoolNext]_poolVars PROVE PoolInv'
      OBVIOUS
  <1>1. CASE StartSteps
      BY <1>1, CreateSessionInv, EnsureRunningInv, WantRunningInv, CheckPortInv, MovePortInv, SpawnInv, SpawnFailsInv,
         WriteStartingInv, RegisterInv, ReadyInv, StartFailsInv, RecordFailureInv DEF StartSteps
  <1>2. CASE StopSteps
      BY <1>2, CountConnectedInv, StopSessionInv, RecordStopWishInv, RecordStopInv, ScanIdleInv,
         StopIdleInv, FindExitedInv, ReadExitedInv, RecordExitInv, RestartExitedInv DEF StopSteps
  <1>3. CASE TransportSteps
      BY <1>3, EnsureForBindInv, BindInv, GoStaleInv DEF TransportSteps
  <1>4. CASE \E p \in Pids : Exit(p)
      BY <1>4, ExitInv
  <1>5. CASE PoolRestart
      BY <1>5, PoolRestartInv
  <1>6. CASE UNCHANGED poolVars
    <2>1. /\ UNCHANGED <<sessions, instances, processes, starting, ending>>
          /\ UNCHANGED <<watching, idle, transports, binding, stops>>
        BY <1>6 DEF poolVars
    <2>2. PoolShape' /\ SessionsExist' /\ BindingsWhole'
        BY <2>1 DEF PoolInv, PoolShape, SessionsExist, BindingsWhole, Created
    <2> QED BY <2>1, <2>2, CoreStays DEF PoolInv, Core
  <1> QED BY <1>1, <1>2, <1>3, <1>4, <1>5, <1>6 DEF PoolNext

\* The inductive invariant of the pool: what the rows, the register, the holder of the
\* start lock, the monitor and the terminations under way may assume of one another.
THEOREM PoolIsInvariant == PoolSpec => []PoolInv
  BY PoolInitInv, PoolStepInv, PTL DEF PoolSpec

LEMMA OneServer == PoolInv => OneServerPerSession
  <1> SUFFICES ASSUME PoolInv, NEW p \in Pids, NEW q \in Pids,
                      processes[p].alive, ~processes[p].told,
                      processes[q].alive, ~processes[q].told,
                      processes[p].session = processes[q].session, p # q
               PROVE  FALSE
      BY DEF OneServerPerSession
  <1> DEFINE m == processes[p].session
  <1>1. m \in PoolSessions
      BY DEF PoolInv, ProcessesStarted
  <1>2. \E r \in {p, q} : instances[m] = r /\ Alive(r)
      BY DEF PoolInv, ServersKnown, Alive
  <1>3. starting.session = m /\ starting.at \in {"write", "register"}
      BY DEF PoolInv, ServersKnown
  <1>4. Running(m)
      BY <1>2 DEF Running
  <1> QED BY <1>3, <1>4 DEF PoolInv, LockKnows

\* Through every race of starts, stops, the idle sweep and the monitor (_terminate_instance
\* works outside the start lock): no server is lost, no project has two, and none that runs
\* is on record as failed.
THEOREM ServersStayAccountedFor == PoolSpec => []ServersAccountedFor
  <1>1. PoolInv => EveryServerIsKnown
      BY DEF PoolInv, ServersKnown, EveryServerIsKnown
  <1>2. PoolInv => FailedMeansNotRunning
      BY DEF PoolInv, RowsAgree, FailedMeansNotRunning
  <1>3. PoolInv => ServersAccountedFor
      BY <1>1, <1>2, OneServer DEF ServersAccountedFor
  <1> QED BY <1>3, PoolIsInvariant, PTL

LEMMA CallsReachTheirServer == PoolInv => StrayCallsFollowAMove
  <1> SUFFICES ASSUME PoolInv, NEW t \in Transports, NEW p \in Listening(transports[t].port),
                      sessions[transports[t].session].port = transports[t].port
               PROVE  processes[p].session = transports[t].session
      BY DEF StrayCallsFollowAMove
  <1> DEFINE m == transports[t].session
  <1>1. /\ p \in Pids /\ processes[p].alive /\ processes[p].port = transports[t].port
        /\ processes[p].port \in Ports
      BY DEF Listening, PoolInv, ProcessesStarted
  <1>2. m \in PoolSessions
    <2>1. transports[t].port # Nobody
        BY <1>1, NobodyIsApart
    <2>2. m # Nobody /\ m \in SessionOrNone
        BY <2>1 DEF PoolInv, BindingsWhole, PoolShape, BoundShape
    <2> QED BY <2>2 DEF SessionOrNone
  <1>3. Created(m)
      BY <1>1, <1>2, NobodyIsApart DEF PoolInv, SessionsExist, NoSession
  <1> QED BY <1>1, <1>2, <1>3 DEF PoolInv, PortsReserved

\* What a transport sends reaches the server of the session it is bound to, or nobody,
\* unless the session moved to another port since (_proxy_request uses the address the
\* transport was bound with).
THEOREM CallsStayWithTheirServer == PoolSpec => []StrayCallsFollowAMove
  BY CallsReachTheirServer, PoolIsInvariant, PTL

-----------------------------------------------------------------------------
(* Desktops *)

Pairs == {Unpaired} \cup {Pair(k, FALSE) : k \in Slots} \cup {Pair(HostSlot, TRUE)}

DesktopShape ==
    /\ pairs \in [DesktopSessions -> Pairs]
    /\ servers \in [Slots -> SUBSET DesktopSessions]
    /\ browsers \in [Slots -> SUBSET DesktopSessions]
    /\ job \in [at : {"free", "stop", "stopserver", "server", "browser"},
                session : SUBSET DesktopSessions, pair : Pairs, old : Pairs,
                kind : {"ensure", "first", "repair"}]

\* The slot of the host's desktop is nobody else's, and nothing is started on it.
HostIsSpared ==
    Adoption =>
        /\ servers[HostSlot] = {} /\ browsers[HostSlot] = {}
        /\ \A s \in DesktopSessions : HostSlot \in pairs[s].slot => pairs[s].adopted

\* The slot a session is being moved to is free until its old desktop is stopped.
Untouched(k) ==
    /\ servers[k] = {} /\ browsers[k] = {}
    /\ ~(Adoption /\ k = HostSlot)
    /\ \A t \in DesktopSessions : k \notin pairs[t].slot

\* The slot a session works on is its own, as is the one it came from until the move is
\* over, whatever the registry says by then.
StillOwn(s, pair) ==
    \A k \in pair.slot :
        /\ servers[k] \subseteq {s} /\ browsers[k] \subseteq {s}
        /\ Adoption /\ k = HostSlot => pair.adopted
        /\ \A t \in DesktopSessions \ {s} : k \notin pairs[t].slot

Held(s) ==
    /\ job.session = {s}
    /\ job.at \in {"stop", "stopserver"} =>
         /\ StillOwn(s, job.old) /\ ~job.old.adopted
         /\ job.kind = "repair"
         /\ \E k \in Slots : job.pair = Pair(k, FALSE) /\ Untouched(k)
    /\ job.at \in {"server", "browser"} =>
         /\ StillOwn(s, job.pair)
         /\ job.kind = "repair" => StillOwn(s, job.old)

LockIsHeld ==
    job = NoJob \/ (job.at # "free" /\ \E s \in DesktopSessions : Held(s))

DesktopInv == DesktopShape /\ DesktopsNotShared /\ HostIsSpared /\ LockIsHeld

-----------------------------------------------------------------------------
\* What pairs look like.
LEMMA PairFields ==
    /\ Unpaired.slot = {} /\ ~Unpaired.adopted
    /\ \A k, a : Pair(k, a).slot = {k} /\ Pair(k, a).adopted = a
    /\ HostSlot \in Slots
    /\ \A k \in Slots : Pair(k, FALSE) \in Pairs
    /\ Unpaired \in Pairs /\ Pair(HostSlot, TRUE) \in Pairs
    /\ \A p \in Pairs : /\ p.slot \subseteq Slots
                        /\ p = Unpaired \/ \E k \in Slots : p.slot = {k}
                        /\ p.adopted => p.slot = {HostSlot}
                        /\ p.adopted \in BOOLEAN
  <1>1. HostSlot \in Slots
      BY DesktopAssumption DEF HostSlot, Slots
  <1>2. /\ Unpaired.slot = {} /\ ~Unpaired.adopted
        /\ \A k, a : Pair(k, a).slot = {k} /\ Pair(k, a).adopted = a
      BY DEF Unpaired, Pair
  <1>3. /\ \A k \in Slots : Pair(k, FALSE) \in Pairs
        /\ Unpaired \in Pairs /\ Pair(HostSlot, TRUE) \in Pairs
      BY DEF Pairs
  <1>4. ASSUME NEW p \in Pairs
        PROVE  /\ p.slot \subseteq Slots
               /\ p = Unpaired \/ \E k \in Slots : p.slot = {k}
               /\ p.adopted => p.slot = {HostSlot}
               /\ p.adopted \in BOOLEAN
    <2>1. CASE p = Unpaired
        BY <2>1, <1>2 DEF Unpaired
    <2>2. CASE p = Pair(HostSlot, TRUE)
        BY <2>2, <1>1 DEF Pair
    <2>3. ASSUME NEW k \in Slots, p = Pair(k, FALSE)
          PROVE  p.slot = {k} /\ p.adopted = FALSE
        BY <2>3, <1>2
    <2> QED BY <2>1, <2>2, <2>3 DEF Pairs
  <1> QED BY <1>1, <1>2, <1>3, <1>4

\* What NoJob looks like.
LEMMA FreeLock ==
    /\ NoJob \in [at : {"free", "stop", "stopserver", "server", "browser"},
                session : SUBSET DesktopSessions, pair : Pairs, old : Pairs,
                kind : {"ensure", "first", "repair"}]
    /\ NoJob.at = "free"
  BY PairFields DEF NoJob

LEMMA DesktopInitInv == DesktopInit => DesktopInv
  <1> SUFFICES ASSUME DesktopInit PROVE DesktopInv
      OBVIOUS
  <1>1. DesktopShape
      BY PairFields, FreeLock DEF DesktopInit, DesktopShape
  <1>2. DesktopsNotShared /\ HostIsSpared /\ LockIsHeld
      BY PairFields DEF DesktopInit, DesktopsNotShared, HostIsSpared, LockIsHeld
  <1> QED BY <1>1, <1>2 DEF DesktopInv

-----------------------------------------------------------------------------
\* Servers and browsers that go away disturb nothing.
LEMMA FewerKeepInv ==
    ASSUME DesktopInv, UNCHANGED <<pairs, job>>,
           servers' \in [Slots -> SUBSET DesktopSessions],
           browsers' \in [Slots -> SUBSET DesktopSessions],
           \A k \in Slots : servers'[k] \subseteq servers[k] /\ browsers'[k] \subseteq browsers[k]
    PROVE  DesktopInv'
  <1>1. DesktopShape'
      BY DEF DesktopInv, DesktopShape
  <1>2. DesktopsNotShared' /\ HostIsSpared'
      BY PairFields DEF DesktopInv, DesktopShape, DesktopsNotShared, HostIsSpared
  <1>3. \A k \in Slots : Untouched(k) => Untouched(k)'
      BY DEF Untouched
  <1>4. \A s \in DesktopSessions, p \in Pairs : StillOwn(s, p) => StillOwn(s, p)'
      BY PairFields DEF StillOwn
  <1>5. LockIsHeld'
      BY <1>3, <1>4 DEF DesktopInv, DesktopShape, LockIsHeld, Held
  <1> QED BY <1>1, <1>2, <1>5 DEF DesktopInv

\* So does a lock that is let go of.
LEMMA LettingGoKeepsInv ==
    ASSUME DesktopInv, job' = NoJob, UNCHANGED <<pairs, servers, browsers>>
    PROVE  DesktopInv'
  BY FreeLock DEF DesktopInv, DesktopShape, DesktopsNotShared, HostIsSpared, LockIsHeld

\* Servers stay and at most the session's own browser is started.
GrowsFor(s) ==
    /\ UNCHANGED servers
    /\ browsers' \in [Slots -> SUBSET DesktopSessions]
    /\ \A k \in Slots : \/ browsers'[k] = browsers[k]
                        \/ /\ browsers'[k] = {s}
                           /\ ~(Adoption /\ k = HostSlot)
                           /\ \A t \in DesktopSessions \ {s} : k \notin pairs[t].slot

\* A session is given a slot that is free, or the host's desktop, and its start begins.
LEMMA PairingKeepsInv ==
    ASSUME DesktopInv, NEW s \in DesktopSessions, NEW pair \in Pairs,
           NEW old \in Pairs, NEW kind \in {"ensure", "first", "repair"},
           \A k \in pair.slot :
             /\ servers[k] \subseteq {s} /\ browsers[k] \subseteq {s}
             /\ Adoption /\ k = HostSlot => pair.adopted
             /\ \A t \in DesktopSessions \ {s} : k \notin pairs[t].slot,
           kind = "repair" => StillOwn(s, old),
           pairs' = [pairs EXCEPT ![s] = pair],
           Lock(s, pair, old, kind, "server"),
           GrowsFor(s)
    PROVE  DesktopInv'
  <1>1. DesktopShape'
      BY DEF DesktopInv, DesktopShape, Lock, GrowsFor
  <1>2. /\ pairs'[s] = pair /\ \A t \in DesktopSessions \ {s} : pairs'[t] = pairs[t]
        /\ pair.slot \subseteq Slots /\ old.slot \subseteq Slots /\ HostSlot \in Slots
        /\ \A t \in DesktopSessions : pairs[t].slot \subseteq Slots
      BY PairFields DEF DesktopInv, DesktopShape
  <1>3. DesktopsNotShared'
      BY <1>2 DEF DesktopInv, DesktopsNotShared, GrowsFor
  <1>4. HostIsSpared'
      BY <1>2 DEF DesktopInv, HostIsSpared, GrowsFor
  <1>5. StillOwn(s, old) => StillOwn(s, old)'
      BY <1>2 DEF StillOwn, GrowsFor
  <1>6. Held(s)'
    <2>1. StillOwn(s, pair)'
        BY <1>2 DEF StillOwn, GrowsFor
    <2> QED BY <1>5, <2>1 DEF Held, Lock
  <1>7. job'.at # "free"
      BY DEF Lock
  <1> QED BY <1>1, <1>3, <1>4, <1>6, <1>7 DEF DesktopInv, LockIsHeld

\* The same, and the lock is let go of.
LEMMA EndingKeepsInv ==
    ASSUME DesktopInv, NEW s \in DesktopSessions, GrowsFor(s), UNCHANGED pairs, job' = NoJob
    PROVE  DesktopInv'
  <1>1. DesktopShape'
      BY FreeLock DEF DesktopInv, DesktopShape, GrowsFor
  <1>2. \A t \in DesktopSessions : pairs[t].slot \subseteq Slots
      BY PairFields DEF DesktopInv, DesktopShape
  <1>3. DesktopsNotShared'
      BY <1>2 DEF DesktopInv, DesktopsNotShared, GrowsFor
  <1>4. HostIsSpared'
      BY PairFields DEF DesktopInv, HostIsSpared, GrowsFor
  <1> QED BY <1>1, <1>3, <1>4 DEF DesktopInv, LockIsHeld

\* Nothing is started.
LEMMA NothingGrows ==
    ASSUME DesktopInv, UNCHANGED <<servers, browsers>>, NEW s
    PROVE  GrowsFor(s)
  BY DEF DesktopInv, DesktopShape, GrowsFor

LEMMA FreeSlotsAreFree ==
    ASSUME NEW s \in DesktopSessions, NEW k \in FreeSlots(SlotsUsed)
    PROVE  k \in Slots /\ Untouched(k)
  BY DEF FreeSlots, SlotsUsed, SlotAvailable, Untouched

LEMMA EnsureInv ==
    ASSUME DesktopInv, NEW s \in DesktopSessions, EnsureDesktop(s)
    PROVE  DesktopInv'
  <1>1. PICK pair \in Allocated(s) : /\ pairs' = [pairs EXCEPT ![s] = pair]
                                     /\ Lock(s, pair, Unpaired, "ensure", "server")
      BY DEF EnsureDesktop
  <1>2. UNCHANGED <<servers, browsers>>
      BY DEF EnsureDesktop
  <1>3. /\ pair \in Pairs
        /\ \A k \in pair.slot :
             /\ servers[k] \subseteq {s} /\ browsers[k] \subseteq {s}
             /\ Adoption /\ k = HostSlot => pair.adopted
             /\ \A t \in DesktopSessions \ {s} : k \notin pairs[t].slot
    <2>1. CASE pair = pairs[s]
        BY <2>1 DEF DesktopInv, DesktopShape, DesktopsNotShared, HostIsSpared
    <2>2. CASE pair = Pair(HostSlot, TRUE) /\ s \in Adopting /\ HostSlot \notin SlotsUsed
      <3>1. pair.slot = {HostSlot} /\ pair.adopted /\ pair \in Pairs
          BY <2>2, PairFields
      <3>2. servers[HostSlot] = {} /\ browsers[HostSlot] = {}
          BY <2>2 DEF DesktopInv, HostIsSpared, Adoption
      <3>3. \A t \in DesktopSessions : HostSlot \notin pairs[t].slot
          BY <2>2 DEF SlotsUsed
      <3> QED BY <3>1, <3>2, <3>3
    <2>3. CASE \E k \in Lowest(FreeSlots(SlotsUsed)) : pair = Pair(k, FALSE)
      <3>1. PICK k \in FreeSlots(SlotsUsed) : pair = Pair(k, FALSE)
          BY <2>3 DEF Lowest
      <3>2. k \in Slots /\ Untouched(k)
          BY FreeSlotsAreFree
      <3>3. pair.slot = {k} /\ pair \in Pairs
          BY <3>1, <3>2, PairFields
      <3> QED BY <3>2, <3>3 DEF Untouched
    <2> QED BY <1>1, <2>1, <2>2, <2>3 DEF Allocated
  <1> QED BY <1>1, <1>2, <1>3, PairFields, PairingKeepsInv, NothingGrows

LEMMA FirstPairInv ==
    ASSUME DesktopInv, NEW s \in DesktopSessions, NEW k \in Slots, FirstPair(s, k)
    PROVE  DesktopInv'
  <1>1. k \in FreeSlots(SlotsUsed)
      BY DEF FirstPair, RepairSlots, FreeSlots
  <1>2. Untouched(k)
      BY <1>1, FreeSlotsAreFree
  <1> DEFINE pair == Pair(k, FALSE)
  <1>3. pair \in Pairs /\ pair.slot = {k}
      BY PairFields
  <1>4. pairs' = [pairs EXCEPT ![s] = pair] /\ Lock(s, pair, Unpaired, "first", "server")
        /\ UNCHANGED <<servers, browsers>>
      BY DEF FirstPair
  <1> HIDE DEF pair
  <1>5. \A l \in pair.slot :
             /\ servers[l] \subseteq {s} /\ browsers[l] \subseteq {s}
             /\ Adoption /\ l = HostSlot => pair.adopted
             /\ \A t \in DesktopSessions \ {s} : l \notin pairs[t].slot
      BY <1>2, <1>3 DEF Untouched
  <1> QED BY <1>3, <1>4, <1>5, PairFields, PairingKeepsInv, NothingGrows

LEMMA RepairInv ==
    ASSUME DesktopInv, NEW s \in DesktopSessions, NEW k \in Slots, NEW keep \in BOOLEAN,
           Repair(s, k, keep)
    PROVE  DesktopInv'
  <1>1. k \in FreeSlots(SlotsUsed)
      BY DEF Repair, RepairSlots, FreeSlots
  <1>2. Untouched(k)
      BY <1>1, FreeSlotsAreFree
  <1> DEFINE pair == Pair(k, FALSE)
  <1>3. pair \in Pairs /\ pair.slot = {k}
      BY PairFields
  <1>4. pairs[s] \in Pairs /\ StillOwn(s, pairs[s])
      BY DEF DesktopInv, DesktopShape, DesktopsNotShared, HostIsSpared, StillOwn
  <1>5. CASE pairs[s].adopted
    <2>1. pairs' = [pairs EXCEPT ![s] = pair] /\ Lock(s, pair, pairs[s], "repair", "server")
          /\ UNCHANGED <<servers, browsers>>
        BY <1>5 DEF Repair
    <2> HIDE DEF pair
    <2>2. \A l \in pair.slot :
               /\ servers[l] \subseteq {s} /\ browsers[l] \subseteq {s}
               /\ Adoption /\ l = HostSlot => pair.adopted
               /\ \A t \in DesktopSessions \ {s} : l \notin pairs[t].slot
        BY <1>2, <1>3 DEF Untouched
    <2> QED BY <1>3, <1>4, <2>1, <2>2, PairingKeepsInv, NothingGrows
  <1>6. CASE ~pairs[s].adopted
    <2>1. Lock(s, pair, pairs[s], "repair", "stop") /\ UNCHANGED <<pairs, servers, browsers>>
        BY <1>6 DEF Repair
    <2>2. DesktopShape'
        BY <1>3, <1>4, <2>1 DEF DesktopInv, DesktopShape, Lock
    <2>3. DesktopsNotShared' /\ HostIsSpared'
        BY <2>1 DEF DesktopInv, DesktopsNotShared, HostIsSpared
    <2>4. Untouched(k)'
        BY <1>2, <2>1 DEF Untouched
    <2>5. StillOwn(s, pairs[s])'
        BY <1>4, <2>1 DEF StillOwn
    <2>6. Held(s)' /\ job'.at # "free"
        BY <1>6, <2>1, <2>4, <2>5 DEF Held, Lock
    <2> QED BY <2>2, <2>3, <2>6 DEF DesktopInv, LockIsHeld
  <1> QED BY <1>5, <1>6

-----------------------------------------------------------------------------
\* Whoever works under the lock holds it.
LEMMA WorkersHold ==
    ASSUME DesktopInv, NEW s \in DesktopSessions, job.session = {s}
    PROVE  Held(s)
  <1>1. job # NoJob
      BY DEF NoJob
  <1> QED BY <1>1 DEF DesktopInv, LockIsHeld, Held

LEMMA StopBrowserInv ==
    ASSUME DesktopInv, NEW s \in DesktopSessions, StopBrowser(s)
    PROVE  DesktopInv'
  <1>1. job.at = "stop" /\ Held(s)
      BY WorkersHold DEF StopBrowser, Working
  <1>2. /\ browsers' \in [Slots -> SUBSET DesktopSessions]
        /\ \A k \in Slots : browsers'[k] \subseteq browsers[k]
        /\ UNCHANGED <<pairs, servers>>
        /\ job' = [job EXCEPT !.at = "stopserver"]
      BY DEF StopBrowser, DesktopInv, DesktopShape
  <1>3. DesktopShape'
      BY <1>2 DEF DesktopInv, DesktopShape
  <1>4. DesktopsNotShared' /\ HostIsSpared'
      BY <1>2, PairFields DEF DesktopInv, DesktopShape, DesktopsNotShared, HostIsSpared
  <1>5. \A k \in Slots : Untouched(k) => Untouched(k)'
      BY <1>2 DEF Untouched
  <1>6. /\ job'.session = job.session /\ job'.pair = job.pair /\ job'.old = job.old
        /\ job'.kind = job.kind /\ job'.at = "stopserver"
      BY <1>2 DEF DesktopInv, DesktopShape
  <1>7. StillOwn(s, job.old)'
    <2>1. job.old.slot \subseteq Slots
        BY PairFields DEF DesktopInv, DesktopShape
    <2> QED BY <1>1, <1>2, <1>6, <2>1 DEF Held, StillOwn
  <1>8. Held(s)'
      BY <1>1, <1>2, <1>5, <1>6, <1>7 DEF Held
  <1> QED BY <1>3, <1>4, <1>6, <1>8 DEF DesktopInv, LockIsHeld

LEMMA StopServerInv ==
    ASSUME DesktopInv, NEW s \in DesktopSessions, StopServer(s)
    PROVE  DesktopInv'
  <1>1. job.at = "stopserver" /\ Held(s)
      BY WorkersHold DEF StopServer, Working
  <1>2. CASE job' = NoJob /\ UNCHANGED <<pairs, servers, browsers>>
      BY <1>2, LettingGoKeepsInv
  <1>3. CASE /\ servers' = [k \in Slots |-> IF k \in job.old.slot THEN {} ELSE servers[k]]
             /\ browsers' = [k \in Slots |-> IF k \in job.old.slot THEN {} ELSE browsers[k]]
             /\ pairs' = [pairs EXCEPT ![s] = job.pair]
             /\ job' = [job EXCEPT !.at = "server"]
    <2>1. PICK k \in Slots : job.pair = Pair(k, FALSE) /\ Untouched(k)
        BY <1>1 DEF Held
    <2>2. job.pair \in Pairs /\ job.old \in Pairs /\ job.pair.slot = {k} /\ ~job.pair.adopted
      <3>1. job.pair \in Pairs /\ job.old \in Pairs
          BY DEF DesktopInv, DesktopShape
      <3>2. job.pair.slot = {k} /\ ~job.pair.adopted
          BY <2>1 DEF Pair
      <3> QED BY <3>1, <3>2
    <2>3. /\ pairs'[s] = job.pair /\ \A t \in DesktopSessions \ {s} : pairs'[t] = pairs[t]
        BY <1>3, <2>2 DEF DesktopInv, DesktopShape
    <2>0. /\ \A l \in Slots : servers'[l] \subseteq servers[l] /\ browsers'[l] \subseteq browsers[l]
          /\ \A l \in job.old.slot : l \in Slots /\ servers'[l] = {} /\ browsers'[l] = {}
      <3>1. job.old.slot \subseteq Slots
          BY <2>2, PairFields
      <3> QED BY <1>3, <3>1
    <2>4. DesktopShape'
        BY <1>3, <2>2 DEF DesktopInv, DesktopShape
    <2>5. DesktopsNotShared'
      <3>1. \A t \in DesktopSessions : pairs[t].slot \subseteq Slots
          BY PairFields DEF DesktopInv, DesktopShape
      <3>2. servers'[k] = {} /\ browsers'[k] = {} /\ \A t \in DesktopSessions : k \notin pairs[t].slot
          BY <2>0, <2>1 DEF Untouched
      <3> QED BY <2>0, <2>2, <2>3, <3>1, <3>2 DEF DesktopInv, DesktopsNotShared
    <2>6. HostIsSpared'
      <3> SUFFICES ASSUME Adoption
                   PROVE  /\ servers'[HostSlot] = {} /\ browsers'[HostSlot] = {}
                          /\ \A t \in DesktopSessions : HostSlot \in pairs'[t].slot => pairs'[t].adopted
          BY DEF HostIsSpared, Adoption
      <3>1. servers'[HostSlot] = {} /\ browsers'[HostSlot] = {}
          BY <2>0, PairFields DEF DesktopInv, HostIsSpared
      <3>2. k # HostSlot
          BY <2>1 DEF Untouched
      <3> QED BY <2>2, <2>3, <3>1, <3>2 DEF DesktopInv, HostIsSpared
    <2>7. /\ job'.session = {s} /\ job'.pair = job.pair /\ job'.old = job.old /\ job'.at = "server"
        BY <1>1, <1>3 DEF DesktopInv, DesktopShape, Held
    <2>8. StillOwn(s, job.old)'
        BY <1>1, <2>0, <2>3, <2>7 DEF Held, StillOwn
    <2>9. StillOwn(s, job.pair)'
      <3>1. servers'[k] = {} /\ browsers'[k] = {} /\ \A t \in DesktopSessions \ {s} : k \notin pairs'[t].slot
          BY <2>0, <2>1, <2>3 DEF Untouched
      <3>2. ~(Adoption /\ k = HostSlot) /\ job'.pair.slot = {k}
          BY <2>1, <2>2, <2>7 DEF Untouched
      <3> QED BY <3>1, <3>2 DEF StillOwn
    <2>10. Held(s)'
        BY <2>7, <2>8, <2>9 DEF Held
    <2> QED BY <2>4, <2>5, <2>6, <2>7, <2>10 DEF DesktopInv, LockIsHeld
  <1> QED BY <1>2, <1>3 DEF StopServer

\* What follows a failure, after which the browser may be there.
LEMMA FailureKeepsInv ==
    ASSUME DesktopInv, NEW s \in DesktopSessions, job.session = {s},
           job.at \in {"server", "browser"}, Failed(s), GrowsFor(s)
    PROVE  DesktopInv'
  <1>1. Held(s)
      BY WorkersHold
  <1>2. CASE job.kind = "ensure"
      BY <1>2, EndingKeepsInv DEF Failed
  <1>3. CASE job.kind = "first"
    <2>1. pairs' = [pairs EXCEPT ![s] = Unpaired] /\ job' = NoJob
        BY <1>3 DEF Failed
    <2>2. DesktopShape'
        BY <2>1, PairFields, FreeLock DEF DesktopInv, DesktopShape, GrowsFor
    <2>3. /\ pairs'[s] = Unpaired /\ \A t \in DesktopSessions \ {s} : pairs'[t] = pairs[t]
          /\ \A t \in DesktopSessions : pairs[t].slot \subseteq Slots
        BY <2>1, PairFields DEF DesktopInv, DesktopShape
    <2>4. DesktopsNotShared' /\ HostIsSpared'
        BY <2>3, PairFields DEF DesktopInv, DesktopsNotShared, HostIsSpared, GrowsFor
    <2> QED BY <2>1, <2>2, <2>4 DEF DesktopInv, LockIsHeld
  <1>4. CASE job.kind = "repair"
    <2>1. pairs' = [pairs EXCEPT ![s] = job.old] /\ job.old \in Pairs /\ StillOwn(s, job.old)
        BY <1>1, <1>4 DEF Failed, DesktopInv, DesktopShape, Held
    <2>2. CASE job.old.adopted
      <3>1. job' = NoJob
          BY <1>4, <2>2 DEF Failed
      <3>2. DesktopShape'
          BY <2>1, <3>1, FreeLock DEF DesktopInv, DesktopShape, GrowsFor
      <3>3. /\ pairs'[s] = job.old /\ \A t \in DesktopSessions \ {s} : pairs'[t] = pairs[t]
            /\ job.old.slot \subseteq Slots
            /\ \A t \in DesktopSessions : pairs[t].slot \subseteq Slots
          BY <2>1, PairFields DEF DesktopInv, DesktopShape
      <3>4. DesktopsNotShared'
          BY <2>1, <3>3 DEF DesktopInv, DesktopsNotShared, StillOwn, GrowsFor
      <3>5. HostIsSpared'
          BY <2>1, <2>2, <3>3, PairFields DEF DesktopInv, HostIsSpared, StillOwn, GrowsFor
      <3> QED BY <3>1, <3>2, <3>4, <3>5 DEF DesktopInv, LockIsHeld
    <2>3. CASE ~job.old.adopted
      <3> DEFINE old == job.old
      <3>1. Lock(s, old, Unpaired, "ensure", "server") /\ old \in Pairs /\ StillOwn(s, old)
            /\ pairs' = [pairs EXCEPT ![s] = old]
          BY <1>4, <2>1, <2>3 DEF Failed
      <3> HIDE DEF old
      <3>2. \A k \in old.slot :
                 /\ servers[k] \subseteq {s} /\ browsers[k] \subseteq {s}
                 /\ Adoption /\ k = HostSlot => old.adopted
                 /\ \A t \in DesktopSessions \ {s} : k \notin pairs[t].slot
          BY <3>1 DEF StillOwn
      <3> QED BY <3>1, <3>2, PairFields, PairingKeepsInv
    <2> QED BY <2>2, <2>3
  <1> QED BY <1>2, <1>3, <1>4 DEF DesktopInv, DesktopShape

\* What is started, and for whom.
LEMMA OwnSlot ==
    ASSUME DesktopInv, NEW s \in DesktopSessions, job.session = {s},
           job.at \in {"server", "browser"}, NEW k \in job.pair.slot
    PROVE  /\ k \in Slots
           /\ \A t \in DesktopSessions \ {s} : k \notin pairs[t].slot
           /\ Adoption /\ k = HostSlot => job.pair.adopted /\ servers[k] = {}
  <1>1. StillOwn(s, job.pair)
      BY WorkersHold DEF Held
  <1>2. k \in Slots
      BY PairFields DEF DesktopInv, DesktopShape
  <1> QED BY <1>1, <1>2 DEF DesktopInv, StillOwn, HostIsSpared

-----------------------------------------------------------------------------
LEMMA StartServerInv ==
    ASSUME DesktopInv, NEW s \in DesktopSessions, StartServer(s)
    PROVE  DesktopInv'
  <1>1. job.session = {s} /\ job.at = "server" /\ ~job.pair.adopted /\ Held(s)
      BY WorkersHold DEF StartServer, Working
  <1>2. PICK k \in job.pair.slot :
          servers' = IF servers[k] = {} THEN [servers EXCEPT ![k] = {s}] ELSE servers
      BY DEF StartServer
  <1>3. /\ k \in Slots /\ ~(Adoption /\ k = HostSlot)
        /\ \A t \in DesktopSessions \ {s} : k \notin pairs[t].slot
      BY <1>1, OwnSlot
  <1>4. job' = [job EXCEPT !.at = "browser"] /\ UNCHANGED <<pairs, browsers>>
      BY DEF StartServer
  <1>5. servers' \in [Slots -> SUBSET DesktopSessions]
        /\ \A l \in Slots : servers'[l] = servers[l] \/ (servers'[l] = {s} /\ l = k)
      BY <1>2, <1>3 DEF DesktopInv, DesktopShape
  <1>6. /\ job'.session = job.session /\ job'.pair = job.pair /\ job'.old = job.old
        /\ job'.kind = job.kind /\ job'.at = "browser"
      BY <1>4 DEF DesktopInv, DesktopShape
  <1>7. DesktopShape'
      BY <1>4, <1>5 DEF DesktopInv, DesktopShape
  <1>8. StillOwn(s, job.pair)'
    <2>1. job.pair.slot \subseteq Slots
        BY PairFields DEF DesktopInv, DesktopShape
    <2> QED BY <1>1, <1>4, <1>5, <1>6, <2>1 DEF Held, StillOwn
  <1>9. DesktopsNotShared'
      BY <1>3, <1>4, <1>5, PairFields DEF DesktopInv, DesktopShape, DesktopsNotShared
  <1>10. HostIsSpared'
      BY <1>3, <1>4, <1>5, PairFields DEF DesktopInv, HostIsSpared
  <1>11. job.old.slot \subseteq Slots
      BY PairFields DEF DesktopInv, DesktopShape
  <1>12. StillOwn(s, job.old) => StillOwn(s, job.old)'
      BY <1>4, <1>5, <1>6, <1>11 DEF StillOwn
  <1>13. Held(s)'
      BY <1>1, <1>4, <1>6, <1>8, <1>12 DEF Held
  <1> QED BY <1>6, <1>7, <1>9, <1>10, <1>13 DEF DesktopInv, LockIsHeld

LEMMA BrowserInv ==
    ASSUME DesktopInv, NEW s \in DesktopSessions, StartBrowser(s) \/ BrowserFails(s)
    PROVE  DesktopInv'
  <1>1. job.session = {s} /\ job.at = "browser" /\ UNCHANGED servers
      BY DEF StartBrowser, BrowserFails, Working
  <1>2. GrowsFor(s)
    <2>1. PICK k \in job.pair.slot :
            \/ browsers' = browsers
            \/ servers[k] # {} /\ browsers' = [browsers EXCEPT ![k] = {s}]
        BY DEF StartBrowser, BrowserFails
    <2>2. /\ k \in Slots /\ \A t \in DesktopSessions \ {s} : k \notin pairs[t].slot
          /\ Adoption /\ k = HostSlot => servers[k] = {}
        BY <1>1, OwnSlot
    <2> QED BY <1>1, <2>1, <2>2 DEF DesktopInv, DesktopShape, GrowsFor
  <1>3. CASE StartBrowser(s)
      BY <1>2, <1>3, EndingKeepsInv DEF StartBrowser
  <1>4. CASE BrowserFails(s)
      BY <1>1, <1>2, <1>4, FailureKeepsInv DEF BrowserFails
  <1> QED BY <1>3, <1>4

LEMMA OtherEndsInv ==
    ASSUME DesktopInv, NEW s \in DesktopSessions, LookAtHost(s) \/ ServerFails(s)
    PROVE  DesktopInv'
  <1>1. CASE LookAtHost(s)
      BY <1>1, LettingGoKeepsInv DEF LookAtHost
  <1>2. CASE ServerFails(s)
      BY <1>2, NothingGrows, FailureKeepsInv DEF ServerFails, Working
  <1> QED BY <1>1, <1>2

LEMMA EnvironmentInv ==
    ASSUME DesktopInv,
           \/ \E k \in Slots : ServerDies(k) \/ BrowserDies(k)
           \/ RegistryUnreadable
           \/ \E survive \in BOOLEAN : DesktopRestart(survive)
    PROVE  DesktopInv'
  <1>1. CASE \E k \in Slots : ServerDies(k) \/ BrowserDies(k)
    <2>1. /\ UNCHANGED <<pairs, job>>
          /\ servers' \in [Slots -> SUBSET DesktopSessions]
          /\ browsers' \in [Slots -> SUBSET DesktopSessions]
          /\ \A k \in Slots : servers'[k] \subseteq servers[k] /\ browsers'[k] \subseteq browsers[k]
        BY <1>1 DEF ServerDies, BrowserDies, DesktopInv, DesktopShape
    <2> QED BY <2>1, FewerKeepInv
  <1>2. CASE \E survive \in BOOLEAN : DesktopRestart(survive)
    <2>1. /\ UNCHANGED pairs /\ job' = NoJob
          /\ servers' \in [Slots -> SUBSET DesktopSessions]
          /\ browsers' \in [Slots -> SUBSET DesktopSessions]
          /\ \A k \in Slots : servers'[k] \subseteq servers[k] /\ browsers'[k] \subseteq browsers[k]
        BY <1>2 DEF DesktopRestart, DesktopInv, DesktopShape
    <2>2. DesktopShape'
        BY <2>1, FreeLock DEF DesktopInv, DesktopShape
    <2>3. DesktopsNotShared' /\ HostIsSpared'
        BY <2>1, PairFields DEF DesktopInv, DesktopShape, DesktopsNotShared, HostIsSpared
    <2> QED BY <2>1, <2>2, <2>3 DEF DesktopInv, LockIsHeld
  <1>3. CASE RegistryUnreadable
    <2>1. pairs' = [s \in DesktopSessions |-> Unpaired] /\ UNCHANGED <<servers, browsers, job>>
        BY <1>3 DEF RegistryUnreadable
    <2>2. \A s \in DesktopSessions : pairs'[s].slot = {}
        BY <2>1, PairFields
    <2>3. DesktopShape'
        BY <2>1, PairFields DEF DesktopInv, DesktopShape
    <2>4. DesktopsNotShared' /\ HostIsSpared'
        BY <2>1, <2>2 DEF DesktopInv, DesktopsNotShared, HostIsSpared
    <2>5. /\ \A k \in Slots : Untouched(k) => Untouched(k)'
          /\ \A s \in DesktopSessions, p \in Pairs : StillOwn(s, p) => StillOwn(s, p)'
        BY <2>1, <2>2 DEF Untouched, StillOwn
    <2>6. LockIsHeld'
        BY <2>1, <2>5 DEF DesktopInv, DesktopShape, LockIsHeld, Held
    <2> QED BY <2>3, <2>4, <2>6 DEF DesktopInv
  <1> QED BY <1>1, <1>2, <1>3

LEMMA DesktopStepInv == DesktopInv /\ [DesktopNext]_desktopVars => DesktopInv'
  <1> SUFFICES ASSUME DesktopInv, [DesktopNext]_desktopVars PROVE DesktopInv'
      OBVIOUS
  <1>1. CASE UNCHANGED desktopVars
      BY <1>1, FewerKeepInv DEF desktopVars, DesktopInv, DesktopShape
  <1>2. CASE DesktopNext
      BY <1>2, EnsureInv, FirstPairInv, RepairInv, StopBrowserInv, StopServerInv, StartServerInv,
         BrowserInv, OtherEndsInv, EnvironmentInv DEF DesktopNext
  <1> QED BY <1>1, <1>2

-----------------------------------------------------------------------------
\* The inductive invariant of pairs, servers, browsers and the runtime lock (computer.py).
THEOREM DesktopsAreInvariant == DesktopSpec => []DesktopInv
  BY DesktopInitInv, DesktopStepInv, PTL DEF DesktopSpec

\* No session is shown the desktop of another, whichever starts, moves and rollbacks fail.
THEOREM DesktopsStayApart == DesktopSpec => []DesktopsNotShared
  <1>1. DesktopInv => DesktopsNotShared
      BY DEF DesktopInv
  <1> QED BY <1>1, DesktopsAreInvariant, PTL

-----------------------------------------------------------------------------
(* Machines *)

Candidates == [pending : SUBSET Machines, approved : SUBSET Machines, rejected : SUBSET Machines]

Row == [machine : Machines, allowed : SUBSET Classes]

ToolCallRows == [at : {"none", "decided", "ran"}, session : SUBSET BoundSessions,
          tool : SUBSET Integrations, class : SUBSET Classes, machine : SUBSET Machines,
          checked : BOOLEAN, ran : SUBSET Machines]

MachineShape ==
    /\ MachineTypeOK
    /\ candidates \in Candidates
    /\ sidecar \in Candidates
    /\ edits \in [Edits -> [session : SUBSET BoundSessions, row : SUBSET Row]]
    /\ toolcalls \in [ToolCalls -> ToolCallRows]

Disjoint(c) ==
    /\ c.pending \cap c.approved = {}
    /\ c.pending \cap c.rejected = {}
    /\ c.approved \cap c.rejected = {}

\* What is approved is in use and what is in use was approved, in memory; memory and file
\* are sound by themselves, since a restart may take up the file.
Enrollment ==
    /\ \A m \in Machines : registry[m] = "enrolled" => m \in candidates.approved
    /\ \A m \in candidates.approved : registry[m] # "none"
    /\ Disjoint(candidates)
    /\ Disjoint(sidecar)

\* What a machine was asked for it goes on allowing, and Desktop Commander's calls run on the
\* machine that was decided; no call goes unchecked unless tool permissions are on.
SoundCall(decision) ==
    /\ decision.checked => \A m \in decision.machine, class \in decision.class : MachineAllows(m, class)
    /\ decision.at # "none" /\ ~decision.checked => ToolPermissions
    /\ decision.at = "ran" /\ decision.tool \subseteq OnMachine => decision.ran \subseteq decision.machine

Decided == \A c \in ToolCalls : SoundCall(toolcalls[c])

MachineInv == MachineShape /\ Enrollment /\ Decided

-----------------------------------------------------------------------------
\* The change of one field keeps the shape of the candidates.
LEMMA SaveKeepsShape ==
    ASSUME NEW changed \in Candidates, Save(changed), MachineShape
    PROVE  candidates' \in Candidates /\ sidecar' \in Candidates
  BY DEF Save, MachineShape

\* A sound change keeps memory and file sound.
LEMMA SaveKeepsDisjoint ==
    ASSUME NEW changed, Save(changed), Disjoint(changed), Disjoint(sidecar)
    PROVE  Disjoint(candidates)' /\ Disjoint(sidecar)'
  BY DEF Save, Disjoint

LEMMA MachineInitInv == MachineInit => MachineInv
  <1> SUFFICES ASSUME MachineInit PROVE MachineInv
      OBVIOUS
  <1>1. MachineShape
      BY MachineAssumption
      DEF MachineInit, MachineShape, MachineTypeOK, Candidates, Row, RegistryOf, CeilingOf, NoCandidates, NoEdit,
          NoToolCall, ToolCallRows
  <1>2. Enrollment
      BY DEF MachineInit, Enrollment, Disjoint, RegistryOf, NoCandidates
  <1>3. Decided
      BY DEF MachineInit, Decided, SoundCall, NoToolCall
  <1> QED BY <1>1, <1>2, <1>3 DEF MachineInv

-----------------------------------------------------------------------------
\* A step that leaves registry, policies and calls alone leaves what was decided alone.
LEMMA CallsRest ==
    ASSUME MachineInv, UNCHANGED <<ceiling, registry, policy, toolcalls>>
    PROVE  Decided'
  BY DEF MachineInv, Decided, SoundCall, MachineAllows, Known, Policy

\* A step that leaves registry and candidates alone leaves enrollment alone.
LEMMA EnrollmentRests ==
    ASSUME MachineInv, UNCHANGED <<registry, candidates, sidecar>>
    PROVE  Enrollment'
  BY DEF MachineInv, Enrollment, Disjoint

LEMMA DiscoveryKeepsInv ==
    ASSUME MachineInv,
           BeginDiscovery \/ DiscoveryFails \/ (\E found \in SUBSET (Machines \ {Local}) : FinishDiscovery(found))
    PROVE  MachineInv'
  <1>1. CASE BeginDiscovery \/ DiscoveryFails
    <2>1. MachineShape'
        BY <1>1 DEF MachineInv, MachineShape, MachineTypeOK, BeginDiscovery, DiscoveryFails
    <2>2. UNCHANGED <<ceiling, registry, policy, toolcalls, candidates, sidecar>>
        BY <1>1 DEF BeginDiscovery, DiscoveryFails
    <2> QED BY <2>1, <2>2, CallsRest, EnrollmentRests DEF MachineInv
  <1>2. CASE \E found \in SUBSET (Machines \ {Local}) : FinishDiscovery(found)
    <2>1. PICK found \in SUBSET (Machines \ {Local}) : FinishDiscovery(found)
        BY <1>2
    <2> DEFINE changed == [candidates EXCEPT !.pending = @ \cup Unknown(found)]
    <2>2. changed \in Candidates /\ Save(changed)
        BY <2>1 DEF FinishDiscovery, Unknown, MachineInv, MachineShape, Candidates
    <2>3. Disjoint(changed) /\ changed.approved = candidates.approved
        BY DEF MachineInv, Enrollment, Disjoint, Unknown, MachineShape, Candidates
    <2> HIDE DEF changed
    <2>4. MachineShape'
        BY <2>1, <2>2, SaveKeepsShape DEF FinishDiscovery, MachineInv, MachineShape, MachineTypeOK
    <2>5. Enrollment'
        BY <2>1, <2>2, <2>3, SaveKeepsDisjoint DEF FinishDiscovery, Save, MachineInv, Enrollment
    <2>6. Decided'
        BY <2>1, CallsRest DEF FinishDiscovery
    <2> QED BY <2>4, <2>5, <2>6 DEF MachineInv
  <1> QED BY <1>1, <1>2

LEMMA ApprovalKeepsInv ==
    ASSUME MachineInv, NEW m \in Machines, NEW more \in SUBSET Classes, ApproveMachine(m, more)
    PROVE  MachineInv'
  <1> DEFINE changed == [pending |-> candidates.pending \ {m},
                         approved |-> candidates.approved \cup {m},
                         rejected |-> candidates.rejected \ {m}]
  <1>1. changed \in Candidates /\ Save(changed)
      BY DEF ApproveMachine, MachineInv, MachineShape, Candidates
  <1>2. Disjoint(changed) /\ changed.approved = candidates.approved \cup {m}
      BY DEF MachineInv, Enrollment, Disjoint
  <1> HIDE DEF changed
  <1>3. MachineShape'
      BY <1>1, SaveKeepsShape, MachineAssumption
      DEF ApproveMachine, MachineInv, MachineShape, MachineTypeOK
  <1>4. Enrollment'
      BY <1>1, <1>2, SaveKeepsDisjoint
      DEF ApproveMachine, Save, MachineInv, Enrollment, MachineShape, MachineTypeOK, Candidates
  <1>5. Decided'
    <2>1. UNCHANGED <<ceiling, toolcalls>> /\ registry[m] = "none"
          /\ \A n \in Machines \ {m} : registry'[n] = registry[n] /\ policy'[n] = policy[n]
        BY DEF ApproveMachine, MachineInv, MachineShape, MachineTypeOK
    <2>2. \A n \in Machines, class \in Classes : MachineAllows(n, class) => MachineAllows(n, class)'
        BY <2>1 DEF MachineAllows, Known, Policy
    <2>3. \A c \in ToolCalls : toolcalls[c].machine \subseteq Machines /\ toolcalls[c].class \subseteq Classes
        BY DEF MachineInv, MachineShape, ToolCallRows
    <2> QED BY <2>1, <2>2, <2>3 DEF MachineInv, Decided, SoundCall
  <1> QED BY <1>3, <1>4, <1>5 DEF MachineInv

LEMMA RejectionKeepsInv ==
    ASSUME MachineInv, NEW m \in Machines, RejectMachine(m)
    PROVE  MachineInv'
  <1> DEFINE changed == [candidates EXCEPT !.pending = @ \ {m}, !.rejected = @ \cup {m}]
  <1>1. changed \in Candidates /\ Save(changed)
      BY DEF RejectMachine, MachineInv, MachineShape, Candidates
  <1>2. Disjoint(changed) /\ changed.approved = candidates.approved
      BY DEF RejectMachine, MachineInv, Enrollment, Disjoint, MachineShape, Candidates
  <1> HIDE DEF changed
  <1>3. MachineShape'
      BY <1>1, SaveKeepsShape DEF RejectMachine, MachineInv, MachineShape, MachineTypeOK
  <1>4. Enrollment'
      BY <1>1, <1>2, SaveKeepsDisjoint DEF RejectMachine, Save, MachineInv, Enrollment
  <1>5. Decided'
      BY CallsRest DEF RejectMachine
  <1> QED BY <1>3, <1>4, <1>5 DEF MachineInv

LEMMA EditsKeepInv ==
    ASSUME MachineInv, NEW e \in Edits,
           \/ \E s \in BoundSessions : ReadMetadata(e, s)
           \/ \E m \in Machines : BindMachine(e, m)
           \/ \E allowed \in SUBSET Classes : UpdatePermissions(e, allowed)
    PROVE  MachineInv'
  <1>0. UNCHANGED <<configured, ceiling, registry, policy, candidates, sidecar, discovering, offered, toolcalls>>
      BY DEF ReadMetadata, BindMachine, UpdatePermissions, WriteMetadata
  <1>1. metadata' \in [BoundSessions -> Row]
        /\ edits' \in [Edits -> [session : SUBSET BoundSessions, row : SUBSET Row]]
    <2>1. CASE \E s \in BoundSessions : ReadMetadata(e, s)
        BY <2>1 DEF ReadMetadata, MachineInv, MachineShape, MachineTypeOK, Row
    <2>2. CASE \E m \in Machines : BindMachine(e, m)
        BY <2>2 DEF BindMachine, WriteMetadata, MachineInv, MachineShape, MachineTypeOK, Row, NoEdit
    <2>3. CASE \E allowed \in SUBSET Classes : UpdatePermissions(e, allowed)
        BY <2>3 DEF UpdatePermissions, WriteMetadata, MachineInv, MachineShape, MachineTypeOK, Row, NoEdit
    <2> QED BY <2>1, <2>2, <2>3
  <1>2. MachineShape'
      BY <1>0, <1>1 DEF MachineInv, MachineShape, MachineTypeOK, Row
  <1> QED BY <1>0, <1>2, CallsRest, EnrollmentRests DEF MachineInv

LEMMA ReconcilesKeepInv ==
    ASSUME MachineInv, NEW i \in Integrations, BeginReconcile(i) \/ BecomeReady(i)
    PROVE  MachineInv'
  <1>1. UNCHANGED <<configured, ceiling, registry, policy, candidates, sidecar, discovering, metadata, edits, toolcalls>>
        /\ offered' \in {offered \ {i}, offered \cup {i}}
      BY DEF BeginReconcile, BecomeReady
  <1>2. MachineShape'
      BY <1>1 DEF MachineInv, MachineShape, MachineTypeOK
  <1> QED BY <1>1, <1>2, CallsRest, EnrollmentRests DEF MachineInv

LEMMA CallsKeepInv ==
    ASSUME MachineInv, NEW c \in ToolCalls,
           \/ \E s \in BoundSessions, i \in Integrations, class \in Classes : DecideCall(c, s, i, class)
           \/ RunCall(c)
    PROVE  MachineInv'
  <1>0. UNCHANGED <<configured, ceiling, registry, policy, candidates, sidecar, discovering, metadata, edits, offered>>
      BY DEF DecideCall, RunCall
  <1>1. \A m, class : MachineAllows(m, class)' = MachineAllows(m, class)
      BY <1>0 DEF MachineAllows, Known, Policy
  <1>2. toolcalls \in [ToolCalls -> ToolCallRows] /\ SoundCall(toolcalls[c])
      BY DEF MachineInv, MachineShape, Decided
  <1>3. ASSUME NEW new \in ToolCallRows, toolcalls' = [toolcalls EXCEPT ![c] = new], SoundCall(new)
        PROVE  MachineInv'
    <2>1. MachineShape'
        BY <1>0, <1>2, <1>3 DEF MachineInv, MachineShape, MachineTypeOK
    <2>2. \A d \in ToolCalls : SoundCall(toolcalls'[d])
        BY <1>2, <1>3 DEF MachineInv, Decided
    <2>3. Decided'
        BY <1>1, <2>2 DEF Decided, SoundCall
    <2> QED BY <1>0, <2>1, <2>3, EnrollmentRests DEF MachineInv
  <1>4. CASE \E s \in BoundSessions, i \in Integrations, class \in Classes : DecideCall(c, s, i, class)
    <2>1. PICK s \in BoundSessions, i \in Integrations, class \in Classes : DecideCall(c, s, i, class)
        BY <1>4
    <2> DEFINE new == [at |-> "decided", session |-> {s}, tool |-> {i}, class |-> {class},
                       machine |-> {metadata[s].machine}, checked |-> i \in offered, ran |-> {}]
    <2>2. new \in ToolCallRows
      <3>1. metadata[s].machine \in Machines
          BY DEF MachineInv, MachineShape, MachineTypeOK
      <3> QED BY <3>1 DEF ToolCallRows
    <2>3. i \in offered => MachineAllows(metadata[s].machine, class)
        BY <2>1 DEF DecideCall
    <2>4. i \notin offered => ToolPermissions
        BY <2>1 DEF DecideCall
    <2>5. SoundCall(new)
        BY <2>3, <2>4 DEF SoundCall
    <2>6. toolcalls' = [toolcalls EXCEPT ![c] = new]
        BY <2>1 DEF DecideCall
    <2> QED BY <1>3, <2>2, <2>5, <2>6
  <1>5. CASE RunCall(c)
    <2>1. CASE toolcalls' = [toolcalls EXCEPT ![c] = NoToolCall]
      <3>1. NoToolCall \in ToolCallRows /\ SoundCall(NoToolCall)
          BY DEF NoToolCall, ToolCallRows, SoundCall
      <3> QED BY <1>3, <2>1, <3>1
    <2>2. ASSUME NEW m \in Target(toolcalls[c]), toolcalls[c].at = "decided",
                 toolcalls' = [toolcalls EXCEPT ![c] = [@ EXCEPT !.at = "ran", !.ran = {m}]]
          PROVE  MachineInv'
      <3> DEFINE new == [toolcalls[c] EXCEPT !.at = "ran", !.ran = {m}]
      <3>1. toolcalls[c] \in ToolCallRows
          BY <1>2
      <3>2. m \in Machines
          BY <2>2, <3>1, MachineAssumption DEF Target, ToolCallRows
      <3>3. new \in ToolCallRows
          BY <3>1, <3>2 DEF ToolCallRows
      <3>4. /\ new.checked = toolcalls[c].checked /\ new.machine = toolcalls[c].machine
            /\ new.class = toolcalls[c].class /\ new.tool = toolcalls[c].tool
            /\ new.at = "ran" /\ new.ran = {m}
          BY <3>1 DEF ToolCallRows
      <3>5. new.tool \subseteq OnMachine => m \in new.machine
          BY <2>2, <3>4 DEF Target
      <3>6. toolcalls' = [toolcalls EXCEPT ![c] = new]
          BY <1>2, <2>2
      <3>7. SoundCall(new)
        <4> HIDE DEF new
        <4> QED BY <1>2, <2>2, <3>4, <3>5 DEF SoundCall
      <3> HIDE DEF new
      <3> QED BY <1>3, <3>3, <3>6, <3>7
    <2> QED BY <1>5, <2>1, <2>2 DEF RunCall
  <1> QED BY <1>4, <1>5

LEMMA RestartKeepsInv ==
    ASSUME MachineInv, NEW config \in SUBSET Machines, NEW ceilings \in [config -> Ceilings],
           MachineRestart(config, ceilings)
    PROVE  MachineInv'
  <1>1. MachineShape'
      BY MachineAssumption
      DEF MachineRestart, RegistryOf, CeilingOf, NoEdit, NoToolCall, MachineInv, MachineShape, MachineTypeOK, Row,
          ToolCallRows
  <1>2. Enrollment'
      BY DEF MachineRestart, RegistryOf, MachineInv, MachineShape, Candidates, Enrollment, Disjoint
  <1>3. Decided'
      BY DEF MachineRestart, NoToolCall, Decided, SoundCall
  <1> QED BY <1>1, <1>2, <1>3 DEF MachineInv

LEMMA MachineStepInv == MachineInv /\ [MachineNext]_machineVars => MachineInv'
  <1> SUFFICES ASSUME MachineInv, [MachineNext]_machineVars PROVE MachineInv'
      OBVIOUS
  <1>1. CASE UNCHANGED machineVars
    <2>1. MachineShape'
        BY <1>1 DEF machineVars, MachineInv, MachineShape, MachineTypeOK
    <2> QED BY <1>1, <2>1, CallsRest, EnrollmentRests DEF machineVars, MachineInv
  <1>2. CASE MachineNext
      BY <1>2, DiscoveryKeepsInv, ApprovalKeepsInv, RejectionKeepsInv, EditsKeepInv,
         ReconcilesKeepInv, CallsKeepInv, RestartKeepsInv DEF MachineNext
  <1> QED BY <1>1, <1>2

-----------------------------------------------------------------------------
\* The inductive invariant of enrollment, metadata and calls (machine_enrollment.py,
\* machine_registry.py, the gate of backend calls in gateway.py).
THEOREM MachineIsInvariant == MachineSpec => []MachineInv
  BY MachineInitInv, MachineStepInv, PTL DEF MachineSpec

\* Discovery never grants authority, whatever fails to be saved and however often Studio
\* restarts.
THEOREM ApprovalIsRequired == MachineSpec => []OnlyApprovedMachines
  <1>1. MachineInv => OnlyApprovedMachines
      BY DEF MachineInv, Enrollment, Disjoint, OnlyApprovedMachines
  <1> QED BY <1>1, MachineIsInvariant, PTL

\* What a machine was asked for it still allows when the call runs, whatever becomes of its
\* session's binding and of the integrations between the decision and the call.
THEOREM CallsStayAllowed == MachineSpec => []CallsRunWhereAllowed
  <1>1. MachineInv => CallsRunWhereAllowed
      BY DEF MachineInv, Decided, SoundCall, CallsRunWhereAllowed
  <1> QED BY <1>1, MachineIsInvariant, PTL

\* Where tool permissions are off, no await lies between the two looks at the catalogue of a
\* call that is not checked, and Desktop Commander runs only where the machine allows it.
THEOREM UnfilteredCallsAreChecked ==
    ASSUME ~ToolPermissions
    PROVE  MachineSpec => []AuthorityIsIntersection
  <1>1. MachineInv => AuthorityIsIntersection
      BY DEF MachineInv, Decided, SoundCall, AuthorityIsIntersection
  <1> QED BY <1>1, MachineIsInvariant, PTL

-----------------------------------------------------------------------------
(* Desktop Commander *)

Methods == Tools \cup {"initialize", "none"}

Messages == [id : Nat, method : Methods, session : {{s} : s \in CommanderSessions}, job : SUBSET Jobs]

Pipes == [runs : BOOLEAN, stdin : Seq(Messages), stdout : Seq(Messages)]

CallRows == [at : {"free", "initialize", "ready", "answer"}, session : SUBSET CommanderSessions,
          tool : Methods, job : SUBSET Jobs, id : Nat, used : SUBSET CommanderSessions]

CommanderShape ==
    /\ child \in Pipes
    /\ call \in CallRows
    /\ nextId \in Nat \ {0}
    /\ owners \in [Jobs -> SUBSET CommanderSessions]
    /\ started \in [Jobs -> SUBSET CommanderSessions]

Elems(s) == {s[i] : i \in 1..Len(s)}

\* The ids in the pipes are old ones.
IdsAreOld ==
    /\ call.id < nextId
    /\ \A m \in Elems(child.stdin) \cup Elems(child.stdout) : m.id < nextId

\* A process was started once, for one session; a call is one session's.
OneSession ==
    /\ \A p \in Jobs : started[p] = {} \/ \E s \in CommanderSessions : started[p] = {s}
    /\ call.at # "free" => \E s \in CommanderSessions : call.session = {s}

\* The request that is waited for is the session's own, and so is what its answer tells of.
AwaitedIsOwn ==
    call.at = "answer" =>
        /\ \A m \in Elems(child.stdin) : m.id = call.id =>
             /\ m.session = call.session
             /\ m.method # "start_process" => \A p \in m.job : started[p] = call.session
        /\ \A m \in Elems(child.stdout) : m.id = call.id =>
             \A p \in m.job : started[p] = call.session

CommanderInv ==
    CommanderShape /\ IdsAreOld /\ OneSession /\ AwaitedIsOwn /\ ProcessesStayWithTheirSession

-----------------------------------------------------------------------------
\* What sequences hold.
LEMMA ElemsOf ==
    ASSUME NEW S, NEW s \in Seq(S)
    PROVE  /\ Elems(<<>>) = {} /\ Elems(s) \subseteq S
           /\ \A x \in S : Elems(Append(s, x)) = Elems(s) \cup {x}
           /\ s # <<>> => /\ Head(s) \in Elems(s) /\ Head(s) \in S
                          /\ Tail(s) \in Seq(S) /\ Elems(Tail(s)) \subseteq Elems(s)
  <1>1. Elems(<<>>) = {} /\ Elems(s) \subseteq S
      BY DEF Elems
  <1>2. ASSUME NEW x \in S PROVE Elems(Append(s, x)) = Elems(s) \cup {x}
    <2>1. /\ Len(Append(s, x)) = Len(s) + 1 /\ Append(s, x)[Len(s) + 1] = x
          /\ \A i \in 1..Len(s) : Append(s, x)[i] = s[i]
        BY AppendProperties
    <2>2. Len(s) \in Nat
        OBVIOUS
    <2> QED BY <2>1, <2>2 DEF Elems
  <1>3. ASSUME s # <<>>
        PROVE  /\ Head(s) \in Elems(s) /\ Head(s) \in S
               /\ Tail(s) \in Seq(S) /\ Elems(Tail(s)) \subseteq Elems(s)
    <2>1. /\ Head(s) = s[1] /\ Len(s) \in Nat \ {0} /\ Head(s) \in S
          /\ Tail(s) \in Seq(S) /\ Len(Tail(s)) = Len(s) - 1
          /\ \A i \in 1..Len(Tail(s)) : Tail(s)[i] = s[i + 1]
        BY <1>3, HeadTailProperties
    <2> QED BY <2>1 DEF Elems
  <1> QED BY <1>1, <1>2, <1>3

\* What the pipes hold.
LEMMA PipesHold ==
    ASSUME CommanderShape
    PROVE  Elems(child.stdin) \cup Elems(child.stdout) \subseteq Messages
  <1>1. child.stdin \in Seq(Messages) /\ child.stdout \in Seq(Messages)
      BY DEF CommanderShape, Pipes
  <1>2. Elems(child.stdin) \subseteq Messages /\ Elems(child.stdout) \subseteq Messages
      BY <1>1, ElemsOf
  <1> QED BY <1>2

\* A child that is gone, or whose pipe is cut.
LEMMA PipesCut ==
    ASSUME CommanderShape, NEW runs \in BOOLEAN
    PROVE  /\ Child(runs) \in Pipes /\ Elems(Child(runs).stdin) = {} /\ Elems(Child(runs).stdout) = {}
           /\ [child EXCEPT !.runs = FALSE, !.stdin = <<>>] \in Pipes
           /\ [child EXCEPT !.runs = FALSE, !.stdin = <<>>].stdin = <<>>
           /\ [child EXCEPT !.runs = FALSE, !.stdin = <<>>].stdout = child.stdout
           /\ Elems(<<>>) = {}
  <1>1. <<>> \in Seq(Messages) /\ Elems(<<>>) = {}
      BY DEF Elems
  <1>2. Child(runs) \in Pipes /\ Child(runs).stdin = <<>> /\ Child(runs).stdout = <<>>
      BY <1>1 DEF Child, Pipes
  <1>3. [child EXCEPT !.runs = FALSE] \in Pipes
        /\ [child EXCEPT !.runs = FALSE].stdout = child.stdout
      BY DEF CommanderShape, Pipes
  <1> DEFINE gone == [child EXCEPT !.runs = FALSE]
  <1> HIDE DEF gone
  <1>4. /\ [gone EXCEPT !.stdin = <<>>] \in Pipes /\ [gone EXCEPT !.stdin = <<>>].stdin = <<>>
        /\ [gone EXCEPT !.stdin = <<>>].stdout = gone.stdout
      BY <1>1, <1>3 DEF Pipes, gone
  <1> QED BY <1>1, <1>2, <1>3, <1>4 DEF gone

LEMMA CommanderInitInv == CommanderInit => CommanderInv
  <1> SUFFICES ASSUME CommanderInit PROVE CommanderInv
      OBVIOUS
  <1>1. CommanderShape
      BY DEF Pipes, CallRows, Methods, CommanderInit, Child, NoCall, Call, CommanderShape
  <1>2. IdsAreOld /\ OneSession /\ AwaitedIsOwn /\ ProcessesStayWithTheirSession
      BY DEF CommanderInit, Child, NoCall, Call, Elems, IdsAreOld, OneSession, AwaitedIsOwn,
             ProcessesStayWithTheirSession
  <1> QED BY <1>1, <1>2 DEF CommanderInv

\* A request takes an id of its own.
LEMMA SendKeepsShape ==
    ASSUME CommanderShape, NEW pipes \in Pipes,
           NEW method \in Methods, NEW point \in {"initialize", "answer"},
           NEW asking \in CallRows,
           asking.session \in {{s} : s \in CommanderSessions},
           Send(pipes, method, asking, point), UNCHANGED <<owners, started>>
    PROVE  /\ CommanderShape'
           /\ Elems(child'.stdin) = Elems(pipes.stdin) \cup
                {[id |-> nextId, method |-> method, session |-> asking.session, job |-> asking.job]}
           /\ child'.stdout = pipes.stdout
           /\ call' = [asking EXCEPT !.at = point, !.id = nextId]
           /\ nextId' = nextId + 1
  <1> DEFINE m == [id |-> nextId, method |-> method, session |-> asking.session, job |-> asking.job]
  <1>1. m \in Messages
      BY DEF Pipes, CallRows, Methods, Messages, CommanderShape
  <1>2. child' = [pipes EXCEPT !.stdin = Append(@, m)]
      BY DEF Send
  <1>3. Append(pipes.stdin, m) \in Seq(Messages)
        /\ Elems(Append(pipes.stdin, m)) = Elems(pipes.stdin) \cup {m}
      BY <1>1, ElemsOf, AppendProperties DEF Pipes, CallRows, Methods
  <1> HIDE DEF m
  <1>4. /\ child' \in Pipes
        /\ child'.stdin = Append(pipes.stdin, m) /\ child'.stdout = pipes.stdout
      BY <1>2, <1>3 DEF Pipes, CallRows, Methods
  <1>5. /\ call' = [asking EXCEPT !.at = point, !.id = nextId]
        /\ nextId' = nextId + 1
      BY DEF Send
  <1>6. call' \in CallRows
      BY <1>5 DEF CallRows, CommanderShape
  <1>7. CommanderShape'
      BY <1>4, <1>5, <1>6 DEF CommanderShape
  <1> QED BY <1>3, <1>4, <1>5, <1>7 DEF m

LEMMA CallToolInv ==
    ASSUME CommanderInv, NEW s \in CommanderSessions, NEW tool \in Tools,
           NEW ran \in {{}} \cup {{p} : p \in Jobs}, CallTool(s, tool, ran)
    PROVE  CommanderInv'
  <1> DEFINE asking == Call("ready", {s}, tool, ran)
             fresh == Child(TRUE)
  <1>1. /\ asking \in CallRows /\ asking.session = {s} /\ asking.used = {} /\ asking.at = "ready"
        /\ asking.id = 0
      BY DEF CallRows, Call, Methods
  <1>2. fresh \in Pipes /\ fresh.stdin = <<>> /\ fresh.stdout = <<>>
      BY DEF Pipes, Child
  <1>3. UNCHANGED <<owners, started>>
      BY DEF CallTool
  <1> HIDE DEF asking, fresh
  <1>4. CASE child.runs
    <2>1. call' = asking /\ UNCHANGED <<child, nextId>>
        BY <1>4 DEF CallTool, asking, fresh
    <2>2. CommanderShape'
        BY <1>1, <1>3, <2>1 DEF CommanderInv, CommanderShape
    <2> QED BY <1>1, <1>3, <2>1, <2>2 DEF CommanderInv, CommanderShape, IdsAreOld, OneSession,
               AwaitedIsOwn, ProcessesStayWithTheirSession
  <1>5. CASE ~child.runs
    <2>0. "initialize" \in Methods /\ asking.session \in {{x} : x \in CommanderSessions}
        BY <1>1 DEF Methods
    <2>1. Send(fresh, "initialize", asking, "initialize")
        BY <1>5 DEF CallTool, asking, fresh
    <2>2. /\ CommanderShape' /\ nextId' = nextId + 1
          /\ Elems(child'.stdin) = Elems(fresh.stdin) \cup
               {[id |-> nextId, method |-> "initialize", session |-> asking.session, job |-> asking.job]}
          /\ child'.stdout = fresh.stdout
          /\ call' = [asking EXCEPT !.at = "initialize", !.id = nextId]
        BY <1>1, <1>2, <1>3, <2>1, <2>0, SendKeepsShape DEF CommanderInv
    <2>3. Elems(fresh.stdin) = {} /\ Elems(child'.stdout) = {}
        BY <1>2, <2>2 DEF Elems
    <2>4. call'.id = nextId /\ call'.session = {s} /\ call'.used = {} /\ call'.at = "initialize"
        BY <1>1, <2>2 DEF CallRows
    <2> QED BY <1>3, <2>2, <2>3, <2>4 DEF CommanderInv, CommanderShape, IdsAreOld, OneSession,
               AwaitedIsOwn, ProcessesStayWithTheirSession
  <1> QED BY <1>4, <1>5

LEMMA AskToolInv ==
    ASSUME CommanderInv, AskTool
    PROVE  CommanderInv'
  <1>1. UNCHANGED <<owners, started>>
      BY DEF AskTool
  <1>2. CASE \A p \in call.job : owners[p] = call.session
    <2>1. Send(child, call.tool, call, "answer") /\ call.at = "ready"
        BY <1>2 DEF AskTool
    <2>0. call.tool \in Methods /\ call.session \in {{s} : s \in CommanderSessions}
        BY <2>1 DEF CommanderInv, CommanderShape, CallRows, OneSession
    <2>2. /\ CommanderShape' /\ nextId' = nextId + 1
          /\ Elems(child'.stdin) = Elems(child.stdin) \cup
               {[id |-> nextId, method |-> call.tool, session |-> call.session, job |-> call.job]}
          /\ child'.stdout = child.stdout
          /\ call' = [call EXCEPT !.at = "answer", !.id = nextId]
        BY <1>1, <2>1, <2>0, SendKeepsShape DEF CommanderInv, CommanderShape
    <2>3. call'.at = "answer" /\ call'.id = nextId /\ call'.session = call.session
          /\ call'.used = call.used
        BY <2>2 DEF CommanderInv, CommanderShape
    <2>4. \A p \in call.job : started[p] = call.session
        BY <1>2, <2>1 DEF Pipes, CallRows, Methods, CommanderInv, CommanderShape, OneSession, ProcessesStayWithTheirSession
    <2>5. \A m \in Elems(child.stdin) \cup Elems(child.stdout) : m.id < nextId /\ m.id # nextId
        BY <2>2 DEF CommanderInv, IdsAreOld, CommanderShape, Messages, Elems
    <2>9. nextId \in Nat /\ \A m \in Elems(child.stdin) \cup Elems(child.stdout) : m.id \in Nat
        BY PipesHold DEF CommanderInv, CommanderShape, Messages
    <2>6. IdsAreOld'
        BY <2>2, <2>3, <2>5, <2>9 DEF IdsAreOld
    <2>7. AwaitedIsOwn'
        BY <1>1, <2>2, <2>3, <2>4, <2>5 DEF AwaitedIsOwn
    <2>8. OneSession' /\ ProcessesStayWithTheirSession'
        BY <1>1, <2>1, <2>3 DEF CommanderInv, OneSession, ProcessesStayWithTheirSession
    <2> QED BY <2>2, <2>6, <2>7, <2>8 DEF CommanderInv
  <1>3. CASE ~\A p \in call.job : owners[p] = call.session
    <2>1. call' = NoCall /\ UNCHANGED <<child, nextId>>
        BY <1>3 DEF AskTool
    <2> QED BY <1>1, <2>1 DEF Pipes, CallRows, Methods, NoCall, Call, CommanderInv, CommanderShape, IdsAreOld, OneSession, AwaitedIsOwn,
               ProcessesStayWithTheirSession
  <1> QED BY <1>2, <1>3

LEMMA TakeAnswerInv ==
    ASSUME CommanderInv, TakeAnswer
    PROVE  CommanderInv'
  <1> DEFINE message == Head(child.stdout)
  <1>1. /\ child' = [child EXCEPT !.stdout = Tail(@)]
        /\ UNCHANGED <<nextId, started>>
        /\ child.stdout # <<>>
      BY DEF TakeAnswer
  <1>2. /\ message \in Elems(child.stdout) /\ message \in Messages
        /\ Tail(child.stdout) \in Seq(Messages)
        /\ Elems(Tail(child.stdout)) \subseteq Elems(child.stdout)
      BY <1>1, ElemsOf DEF Pipes, CallRows, Methods, CommanderInv, CommanderShape
  <1> HIDE DEF message
  <1>3. /\ child' \in Pipes
        /\ child'.stdin = child.stdin /\ child'.stdout = Tail(child.stdout)
      BY <1>1, <1>2 DEF Pipes, CallRows, Methods, CommanderInv, CommanderShape
  <1>4. CASE UNCHANGED <<call, owners>>
      BY <1>1, <1>2, <1>3, <1>4 DEF CommanderInv, CommanderShape, IdsAreOld, OneSession, AwaitedIsOwn,
         ProcessesStayWithTheirSession
  <1>5. CASE call' = [call EXCEPT !.at = "ready"] /\ call.at = "initialize" /\ UNCHANGED owners
      BY <1>1, <1>2, <1>3, <1>5 DEF Pipes, CallRows, Methods, CommanderInv, CommanderShape, IdsAreOld, OneSession, AwaitedIsOwn,
         ProcessesStayWithTheirSession
  <1>6. CASE /\ call.at = "answer" /\ message.id = call.id
             /\ call' = [NoCall EXCEPT !.session = call.session, !.used = About(message)]
             /\ owners' = [p \in Jobs |->
                  IF call.tool = "start_process" /\ p \in message.job THEN call.session
                  ELSE IF call.tool = "force_terminate" /\ p \in call.job THEN {}
                  ELSE owners[p]]
    <2>1. \A p \in message.job : p \in Jobs /\ started[p] = call.session
        BY <1>2, <1>6 DEF CommanderInv, AwaitedIsOwn, Messages
    <2>2. About(message) \subseteq call.session
        BY <2>1 DEF About
    <2>3. call' = [at |-> "free", session |-> call.session, tool |-> "none", job |-> {}, id |-> 0,
                   used |-> About(message)]
        BY <1>6 DEF NoCall, Call
    <2>4. CommanderShape'
        BY <1>1, <1>3, <1>6, <2>2, <2>3 DEF Pipes, CallRows, Methods, CommanderInv, CommanderShape
    <2>5. IdsAreOld' /\ OneSession' /\ AwaitedIsOwn'
        BY <1>1, <1>2, <1>3, <2>3 DEF CommanderInv, CommanderShape, IdsAreOld, OneSession, AwaitedIsOwn
    <2>6. ProcessesStayWithTheirSession'
        BY <1>1, <1>6, <2>1, <2>2, <2>3 DEF CommanderInv, ProcessesStayWithTheirSession
    <2> QED BY <2>4, <2>5, <2>6 DEF CommanderInv
  <1> QED BY <1>4, <1>5, <1>6 DEF TakeAnswer, IsAnswer, message

LEMMA EndingsKeepInv ==
    ASSUME CommanderInv, CallFails \/ CloseCommander \/ ChildExits
    PROVE  CommanderInv'
  <1>1. CASE CallFails
    <2>1. CommanderShape' 
        BY <1>1, PipesCut DEF CallRows, Methods, CallFails, NoCall, Call, CommanderInv, CommanderShape
    <2> QED BY <1>1, <2>1 DEF CallFails, NoCall, Call, Child, Elems, CommanderInv, CommanderShape, IdsAreOld,
               OneSession, AwaitedIsOwn, ProcessesStayWithTheirSession
  <1>2. CASE CloseCommander
    <2>1. CommanderShape' 
        BY <1>2 DEF Pipes, CallRows, Methods, CloseCommander, Child, CommanderInv, CommanderShape
    <2> QED BY <1>2, <2>1 DEF CloseCommander, Child, Elems, CommanderInv, CommanderShape, IdsAreOld,
               OneSession, AwaitedIsOwn, ProcessesStayWithTheirSession
  <1>3. CASE ChildExits
    <2>1. /\ child'.stdin = <<>> /\ child'.stdout = child.stdout
          /\ child' \in Pipes
        BY <1>3, PipesCut DEF ChildExits, CommanderInv, CommanderShape
    <2> QED BY <1>3, <2>1 DEF ChildExits, Elems, CommanderInv, CommanderShape, IdsAreOld,
               OneSession, AwaitedIsOwn, ProcessesStayWithTheirSession
  <1> QED BY <1>1, <1>2, <1>3

LEMMA ServeInv ==
    ASSUME CommanderInv, Serve
    PROVE  CommanderInv'
  <1> DEFINE request == Head(child.stdin)
             Answer(ran) == child' = [child EXCEPT !.stdin = Tail(@),
                                        !.stdout = Append(@, [request EXCEPT !.job = ran])]
  <1>1. /\ request \in Elems(child.stdin) /\ request \in Messages
        /\ Tail(child.stdin) \in Seq(Messages)
        /\ Elems(Tail(child.stdin)) \subseteq Elems(child.stdin)
      BY ElemsOf DEF Pipes, CallRows, Methods, Serve, CommanderInv, CommanderShape
  <1>2. ASSUME NEW ran \in SUBSET Jobs, Answer(ran)
        PROVE  /\ child' \in Pipes
               /\ Elems(child'.stdin) \subseteq Elems(child.stdin)
               /\ Elems(child'.stdout) = Elems(child.stdout) \cup {[request EXCEPT !.job = ran]}
    <2> DEFINE m == [request EXCEPT !.job = ran]
    <2>1. m \in Messages
        BY <1>1 DEF Messages
    <2>2. child' = [child EXCEPT !.stdin = Tail(@), !.stdout = Append(@, m)]
        BY <1>2
    <2> HIDE DEF m
    <2>3. Append(child.stdout, m) \in Seq(Messages)
          /\ Elems(Append(child.stdout, m)) = Elems(child.stdout) \cup {m}
        BY <2>1, ElemsOf, AppendProperties DEF Pipes, CallRows, Methods, CommanderInv, CommanderShape
    <2>4. child'.stdin = Tail(child.stdin) /\ child'.stdout = Append(child.stdout, m)
          /\ child' \in Pipes
        BY <1>1, <2>2, <2>3 DEF Pipes, CallRows, Methods, CommanderInv, CommanderShape
    <2> QED BY <1>1, <2>3, <2>4 DEF m
  <1>3. ASSUME NEW ran \in SUBSET Jobs, Answer(ran), UNCHANGED <<call, nextId, owners>>,
               started' \in [Jobs -> SUBSET CommanderSessions],
               \A p \in Jobs : started[p] # {} => started'[p] = started[p],
               \A p \in Jobs : started'[p] = {} \/ \E s \in CommanderSessions : started'[p] = {s},
               call.at = "answer" /\ request.id = call.id => \A p \in ran : started'[p] = call.session
        PROVE  CommanderInv'
    <2> DEFINE m == [request EXCEPT !.job = ran]
    <2>1. m.id = request.id /\ m.job = ran /\ m \in Messages
        BY <1>1 DEF Messages
    <2>2. /\ child' \in Pipes
          /\ Elems(child'.stdin) \subseteq Elems(child.stdin)
          /\ Elems(child'.stdout) = Elems(child.stdout) \cup {m}
        BY <1>2, <1>3
    <2> HIDE DEF m, request
    <2>3. CommanderShape'
        BY <1>3, <2>2 DEF CommanderInv, CommanderShape
    <2>4. IdsAreOld'
        BY <1>1, <1>3, <2>1, <2>2 DEF CommanderInv, IdsAreOld
    <2>5. OneSession' /\ ProcessesStayWithTheirSession'
        BY <1>3 DEF CommanderInv, CommanderShape, OneSession, ProcessesStayWithTheirSession
    <2>6. \A m1 \in Elems(child.stdin) \cup Elems(child.stdout) : m1.job \subseteq Jobs
        BY PipesHold DEF CommanderInv, CommanderShape, Messages
    <2>7. AwaitedIsOwn'
      <3> SUFFICES ASSUME call.at = "answer" PROVE AwaitedIsOwn'
          BY <1>3 DEF AwaitedIsOwn
      <3>1. call.session # {}
          BY DEF CommanderInv, OneSession
      <3>2. \A p \in Jobs : started[p] = call.session => started'[p] = call.session
          BY <1>3, <3>1
      <3> QED BY <1>3, <2>1, <2>2, <2>6, <3>2 DEF CommanderInv, AwaitedIsOwn
    <2> QED BY <2>3, <2>4, <2>5, <2>7 DEF CommanderInv
  <1>4. CASE request.method = "start_process"
    <2>1. PICK p \in Jobs : started[p] = {} /\ started' = [started EXCEPT ![p] = request.session]
                            /\ Answer({p})
        BY <1>4 DEF Serve
    <2>2. call.at = "answer" /\ request.id = call.id => request.session = call.session
        BY <1>1 DEF CommanderInv, AwaitedIsOwn
    <2>3. \E s \in CommanderSessions : request.session = {s}
        BY <1>1 DEF Messages
    <2>4. UNCHANGED <<call, nextId, owners>> /\ {p} \in SUBSET Jobs
        BY DEF Serve
    <2> HIDE DEF Answer, request
    <2>5. /\ started' \in [Jobs -> SUBSET CommanderSessions] /\ started'[p] = request.session
          /\ \A q \in Jobs \ {p} : started'[q] = started[q]
        BY <2>1, <2>3 DEF CommanderInv, CommanderShape
    <2>6. \A q \in Jobs : started'[q] = {} \/ \E s \in CommanderSessions : started'[q] = {s}
        BY <2>3, <2>5 DEF CommanderInv, OneSession
    <2> QED BY <1>3, <2>1, <2>2, <2>4, <2>5, <2>6
  <1>5. CASE request.method # "start_process"
    <2>1. Answer(request.job) /\ UNCHANGED started
        BY <1>5 DEF Serve
    <2>2. request.job \in SUBSET Jobs
        BY <1>1 DEF Messages
    <2>3. call.at = "answer" /\ request.id = call.id => \A p \in request.job : started[p] = call.session
        BY <1>1, <1>5 DEF CommanderInv, AwaitedIsOwn
    <2>4. UNCHANGED <<call, nextId, owners>>
        BY DEF Serve
    <2> HIDE DEF Answer, request
    <2> QED BY <1>3, <2>1, <2>2, <2>3, <2>4 DEF CommanderInv, CommanderShape, OneSession
  <1> QED BY <1>4, <1>5

LEMMA CommanderStepInv == CommanderInv /\ [CommanderNext]_commanderVars => CommanderInv'
  <1> SUFFICES ASSUME CommanderInv, [CommanderNext]_commanderVars PROVE CommanderInv'
      OBVIOUS
  <1>1. CASE UNCHANGED commanderVars
    <2>1. /\ CommanderShape' = CommanderShape /\ IdsAreOld' = IdsAreOld /\ OneSession' = OneSession
          /\ AwaitedIsOwn' = AwaitedIsOwn
          /\ ProcessesStayWithTheirSession' = ProcessesStayWithTheirSession
        BY <1>1 DEF commanderVars, CommanderShape, IdsAreOld, OneSession, AwaitedIsOwn,
           ProcessesStayWithTheirSession
    <2> QED BY <2>1 DEF CommanderInv
  <1>2. CASE CommanderNext
      BY <1>2, CallToolInv, AskToolInv, TakeAnswerInv, EndingsKeepInv, ServeInv DEF CommanderNext
  <1> QED BY <1>1, <1>2

-----------------------------------------------------------------------------
\* The inductive invariant of the pipes, the lock and the owners (desktop_commander.py).
THEOREM CommanderIsInvariant == CommanderSpec => []CommanderInv
  BY CommanderInitInv, CommanderStepInv, PTL DEF CommanderSpec

\* No answer shows a session another's process, and no pid changes hands, however late the
\* answers come and however often the child is replaced.
THEOREM ProcessesStay == CommanderSpec => []ProcessesStayWithTheirSession
  <1>1. CommanderInv => ProcessesStayWithTheirSession
      BY DEF CommanderInv
  <1> QED BY <1>1, CommanderIsInvariant, PTL

=============================================================================
