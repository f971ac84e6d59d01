-------------------------------- MODULE Tunnels --------------------------------
(***************************************************************************)
(* The supervisor of public tunnels (mcp_studio/connectivity.py) and its   *)
(* table connectivity_tunnels.  A poll probes every tunnel and restarts    *)
(* the cloudflared process of a managed one; the loop polls, a request may *)
(* poll too, and operators start, stop, register and delete tunnels.       *)
(* Nothing serialises them: each reads the row, awaits, and acts on what   *)
(* it read.                                                                *)
(*                                                                         *)
(* A process is named by its pid; _pid_matches finds out from the command  *)
(* line whether the pid of a row is a live process of that tunnel.  The    *)
(* health a poll reports is left out: nothing acts on it.  Auto-reconnect  *)
(* is on, as by default.                                                   *)
(***************************************************************************)
EXTENDS Naturals

CONSTANTS
    TunnelIds,
    Managed,      \* those whose process Studio controls; the others are only probed
    TunnelCalls,  \* operator requests that may be under way at once
    MaxTunnelPid, \* bound on the processes ever started
    NoPid

ASSUME TunnelAssumption == Managed \subseteq TunnelIds /\ NoPid \notin Nat

VARIABLES
    tunnels,     \* table connectivity_tunnels
    cloudflared, \* the processes: the tunnel of each pid and whether it runs
    polls        \* the loop and the requests, and what each has read

tunnelVars == <<tunnels, cloudflared, polls>>

-----------------------------------------------------------------------------
(* Rows and processes *)

\* recent: the process was started less than the restart backoff ago.
NoTunnel == [here |-> FALSE, enabled |-> FALSE, desired |-> "stopped", pid |-> NoPid, recent |-> FALSE]

TunnelPids == 1..MaxTunnelPid

NotStarted == [tunnel |-> {}, runs |-> FALSE]

TunnelLoop == "loop"

TunnelCallers == {TunnelLoop} \cup TunnelCalls

Supervised(row) == row.enabled /\ row.desired = "running"

\* What a call has read: whether the tunnel is to run, its pid, and its backoff.
NoPoll == [at |-> "none", tunnel |-> {}, wanted |-> FALSE, pid |-> NoPid, recent |-> FALSE,
           then |-> "return"]

TunnelInit ==
    /\ tunnels = [u \in TunnelIds |-> NoTunnel]
    /\ cloudflared = [p \in TunnelPids |-> NotStarted]
    /\ polls = [c \in TunnelCallers |-> NoPoll]

PidMatches(u, pid) == pid \in TunnelPids /\ cloudflared[pid] = [tunnel |-> {u}, runs |-> TRUE]

Calling(c, u, point) == polls[c].at = point /\ polls[c].tunnel = {u}

Continue(c, point) == polls' = [polls EXCEPT ![c].at = point]

Finished(c) == polls' = [polls EXCEPT ![c] = NoPoll]

-----------------------------------------------------------------------------
(* Registration *)

\* sync_tunnels and register_tunnel: what runs is kept, what is wanted stays unless given.
RegisterTunnel(u, enabled, desired) ==
    /\ tunnels' = [tunnels EXCEPT ![u].here = TRUE, ![u].enabled = enabled, ![u].desired = desired]
    /\ UNCHANGED <<cloudflared, polls>>

\* The row was read without a process when the request came.
DeleteTunnel(u) ==
    /\ tunnels[u].here
    /\ u \notin Managed \/ tunnels[u].pid = NoPid
    /\ tunnels' = [tunnels EXCEPT ![u] = NoTunnel]
    /\ UNCHANGED <<cloudflared, polls>>

-----------------------------------------------------------------------------
(* Polling *)

\* The loop comes to this tunnel with the row it listed.
PollTunnel(c, u) ==
    /\ polls[c] = NoPoll
    /\ tunnels[u].here
    /\ polls' = [polls EXCEPT ![c] = 
         [NoPoll EXCEPT !.at = "probe", !.tunnel = {u}, !.wanted = Supervised(tunnels[u]),
                        !.pid = tunnels[u].pid, !.recent = tunnels[u].recent]]
    /\ UNCHANGED <<tunnels, cloudflared>>

\* An unmanaged tunnel is probed, one that is not to run is reported as stopped.
ProbeUnmanaged(c, u) ==
    /\ Calling(c, u, "probe")
    /\ u \notin Managed \/ ~polls[c].wanted
    /\ Finished(c)
    /\ UNCHANGED <<tunnels, cloudflared>>

\* Mutant: a process that died with its pid on record is not looked for.
ShouldRestartUnrecorded(c, u) == polls[c].pid = NoPid /\ ~polls[c].recent

\* Its process is gone, and was not started just before.
ShouldRestart(c, u) == ~PidMatches(u, polls[c].pid) /\ ~polls[c].recent

\* A process that died is started again once its backoff is over.
ProbeManaged(c, u) ==
    /\ Calling(c, u, "probe")
    /\ u \in Managed /\ polls[c].wanted
    /\ IF ShouldRestart(c, u) THEN Continue(c, "start") ELSE Finished(c)
    /\ UNCHANGED <<tunnels, cloudflared>>

-----------------------------------------------------------------------------
(* Starting and stopping *)

OperatorStarts(c, u) ==
    /\ polls[c] = NoPoll /\ u \in Managed
    /\ polls' = [polls EXCEPT ![c] = [NoPoll EXCEPT !.at = "start", !.tunnel = {u}]]
    /\ UNCHANGED <<tunnels, cloudflared>>

\* start_tunnel reads the row; a deleted or disabled tunnel is refused.
ReadForStart(c, u) ==
    /\ Calling(c, u, "start")
    /\ IF tunnels[u].here /\ tunnels[u].enabled
         THEN polls' = [polls EXCEPT ![c].at = "preflight", ![c].pid = tunnels[u].pid]
         ELSE Finished(c)
    /\ UNCHANGED <<tunnels, cloudflared>>

PreflightFails(c, u) ==
    /\ Calling(c, u, "preflight")
    /\ Finished(c)
    /\ UNCHANGED <<tunnels, cloudflared>>

\* The process of the row that was read runs: only the wish is recorded.
AlreadyRuns(c, u) ==
    /\ Calling(c, u, "preflight")
    /\ PidMatches(u, polls[c].pid)
    /\ tunnels' = IF tunnels[u].here THEN [tunnels EXCEPT ![u].desired = "running"] ELSE tunnels
    /\ Finished(c)
    /\ UNCHANGED cloudflared

StartCloudflared(c, u) ==
    /\ Calling(c, u, "preflight")
    /\ ~PidMatches(u, polls[c].pid)
    /\ \E p \in TunnelPids :
         /\ cloudflared[p] = NotStarted /\ \A q \in 1..(p - 1) : cloudflared[q] # NotStarted
         /\ cloudflared' = [cloudflared EXCEPT ![p] = [tunnel |-> {u}, runs |-> TRUE]]
         /\ polls' = [polls EXCEPT ![c].at = "started", ![c].pid = p]
    /\ UNCHANGED tunnels

\* Mutant: the row is written even if the tunnel was deleted meanwhile.
RecordStartDeleted(c, u) ==
    /\ Calling(c, u, "started")
    /\ tunnels' = [tunnels EXCEPT ![u].desired = "running",
                     ![u].pid = polls[c].pid, ![u].recent = TRUE]
    /\ Finished(c)
    /\ UNCHANGED cloudflared

RecordStart(c, u) ==
    /\ Calling(c, u, "started")
    /\ tunnels' = IF ~tunnels[u].here THEN tunnels
                  ELSE [tunnels EXCEPT ![u].desired = "running",
                          ![u].pid = polls[c].pid, ![u].recent = TRUE]
    /\ Finished(c)
    /\ UNCHANGED cloudflared

\* stop_tunnel reads the row and signals its process, ...
OperatorStops(c, u, thenStart) ==
    /\ polls[c] = NoPoll /\ u \in Managed /\ tunnels[u].here
    /\ polls' = [polls EXCEPT ![c] = [NoPoll EXCEPT !.at = "stop", !.tunnel = {u}, !.pid = tunnels[u].pid,
                                        !.then = IF thenStart THEN "restart" ELSE "return"]]
    /\ UNCHANGED <<tunnels, cloudflared>>

Terminate(c, u) ==
    /\ Calling(c, u, "stop")
    /\ cloudflared' = IF PidMatches(u, polls[c].pid)
                        THEN [cloudflared EXCEPT ![polls[c].pid].runs = FALSE] ELSE cloudflared
    /\ Continue(c, "stopped")
    /\ UNCHANGED tunnels

\* ... and the row forgets whatever process it names by then.
RecordTunnelStop(c, u) ==
    /\ Calling(c, u, "stopped")
    /\ tunnels' = IF ~tunnels[u].here THEN tunnels
                  ELSE [tunnels EXCEPT ![u].desired = "stopped", ![u].pid = NoPid]
    /\ IF polls[c].then = "restart"
         THEN polls' = [polls EXCEPT ![c] = [NoPoll EXCEPT !.at = "start", !.tunnel = {u}]]
         ELSE Finished(c)
    /\ UNCHANGED cloudflared

-----------------------------------------------------------------------------
(* Environment *)

\* A process dies, of itself or by terminate_tunnel_for_test.
CloudflaredDies(p) ==
    /\ cloudflared[p].runs
    /\ cloudflared' = [cloudflared EXCEPT ![p].runs = FALSE]
    /\ UNCHANGED <<tunnels, polls>>

BackoffElapses(u) ==
    /\ tunnels[u].recent
    /\ tunnels' = [tunnels EXCEPT ![u].recent = FALSE]
    /\ UNCHANGED <<cloudflared, polls>>

\* The processes are sessions of their own; a service manager may take them down too.
TunnelRestart(survive) ==
    /\ cloudflared' = IF survive THEN cloudflared
                      ELSE [p \in TunnelPids |-> [cloudflared[p] EXCEPT !.runs = FALSE]]
    /\ polls' = [c \in TunnelCallers |-> NoPoll]
    /\ UNCHANGED tunnels

EndsPoll(c, u) ==
    \/ ProbeUnmanaged(c, u) \/ ProbeManaged(c, u)
    \/ AlreadyRuns(c, u) \/ RecordStart(c, u)

TunnelNext ==
    \/ \E u \in TunnelIds :
         \/ \E enabled \in BOOLEAN, desired \in {"running", "stopped"} :
              RegisterTunnel(u, enabled, desired)
         \/ DeleteTunnel(u) \/ BackoffElapses(u)
         \/ \E c \in TunnelCallers : \/ PollTunnel(c, u) \/ EndsPoll(c, u) \/ ReadForStart(c, u)
                                      \/ StartCloudflared(c, u) \/ PreflightFails(c, u)
         \/ \E c \in TunnelCalls : \/ OperatorStarts(c, u)
                                   \/ \E thenStart \in BOOLEAN : OperatorStops(c, u, thenStart)
                                   \/ Terminate(c, u) \/ RecordTunnelStop(c, u)
    \/ \E p \in TunnelPids : CloudflaredDies(p)
    \/ \E survive \in BOOLEAN : TunnelRestart(survive)

TunnelSpec == TunnelInit /\ [][TunnelNext]_tunnelVars

\* The loop polls for ever (connectivity.py:82) and its steps end; restarts of Studio leave
\* it the time for a poll now and then, and a preflight that is repeated succeeds some time.
TunnelFairness ==
    \A u \in TunnelIds :
        /\ SF_tunnelVars(PollTunnel(TunnelLoop, u))
        /\ SF_tunnelVars(EndsPoll(TunnelLoop, u))
        /\ SF_tunnelVars(ReadForStart(TunnelLoop, u))
        /\ SF_tunnelVars(StartCloudflared(TunnelLoop, u))
        /\ WF_tunnelVars(BackoffElapses(u))

FairTunnelSpec == TunnelSpec /\ TunnelFairness

-----------------------------------------------------------------------------
(* Properties *)

\* Every variable keeps its shape.
TunnelTypeOK ==
    /\ tunnels \in [TunnelIds ->
         [here : BOOLEAN, enabled : BOOLEAN, desired : {"running", "stopped"},
          pid : TunnelPids \cup {NoPid}, recent : BOOLEAN]]
    /\ \A u \in TunnelIds : tunnels[u].here \/ tunnels[u] = NoTunnel
    /\ cloudflared \in [TunnelPids -> [tunnel : {{}} \cup {{u} : u \in TunnelIds}, runs : BOOLEAN]]

TunnelUp(u) == \E p \in TunnelPids : cloudflared[p] = [tunnel |-> {u}, runs |-> TRUE]

PidsAreLeft == \E p \in TunnelPids : cloudflared[p] = NotStarted

Wanted(u) == tunnels[u].here /\ Supervised(tunnels[u])

\* A managed tunnel that is wanted comes back, whatever polls, operators, dead processes
\* and restarts of Studio interfere, unless it is no longer wanted.
TunnelComesBack ==
    \A u \in Managed : Wanted(u) ~> (TunnelUp(u) \/ ~Wanted(u) \/ ~PidsAreLeft)
=============================================================================
