------------------------------- MODULE Gateway -------------------------------
(***************************************************************************)
(* The gateway of MCP Studio (mcp_studio/gateway.py) and the tables of     *)
(* mcp_studio/db.py it keeps its transports and handoffs in.               *)
(*                                                                         *)
(* A chat reaches Serena through a transport: a row of gateway_sessions    *)
(* that names the MCP session it uses upstream and, once a project was     *)
(* chosen, the managed session it is bound to.  The logical session behind *)
(* the transport pins the same choice durably.  A handoff moves a managed  *)
(* session, with its upstream, from one transport to another.              *)
(*                                                                         *)
(* One database operation is one step; a request awaits between its steps  *)
(* and goes on with the row it has read (`seen`).  Requests live in memory *)
(* and end with the process, the tables do not.                            *)
(*                                                                         *)
(* The Serena servers are the environment: a process may start or not, an  *)
(* initialize or a request may be answered, refused with 404 or fail, at   *)
(* any time.  There is one base server.  A managed session stands for its  *)
(* own endpoint (its move to another port is not modelled).  An initialize *)
(* that succeeds hands out a session id no other transport has, or none.   *)
(* The settings are the defaults (managed sessions enabled, binding        *)
(* required for tools, reconnect and replay on 404).                       *)
(* The rows of session_handoffs that only record a continuation (state     *)
(* "observed") hold no token and are left out.                             *)
(***************************************************************************)
EXTENDS Naturals

CONSTANTS
    Gateways,    \* gateway transports
    Logicals,    \* logical (Studio) sessions
    Sessions,    \* managed sessions
    Handoffs,    \* handoff records, one per claim token
    Requests,    \* requests being served at once
    Upstreams,   \* upstream MCP session ids; None, if a server may hand out none
    Base,        \* the endpoint of the neutral Serena server
    MaxArrivals, \* bound on the number of requests
    None

ASSUME NamesAssumption ==
    /\ None \notin Gateways \cup Logicals \cup Sessions \cup Handoffs
    /\ Base \notin Sessions \cup {None}

ASSUME MaxArrivalsAssumption == MaxArrivals \in Nat

VARIABLES
    gateways,    \* table gateway_sessions
    pins,        \* sessions.managed_session_id
    handoffs,    \* table session_handoffs
    requests,    \* the requests being served
    arrivals     \* how many have come

vars == <<gateways, pins, handoffs, requests, arrivals>>

-----------------------------------------------------------------------------
(* The rows *)

\* Mutant: two columns swapped.
BindingSwapped(m, url, u) == [managed |-> m, url |-> u, upstream |-> url]

\* What a transport is bound to, and the MCP session it uses upstream.
Binding(m, url, u) == [managed |-> m, url |-> url, upstream |-> u]

NoBinding == Binding(None, None, None)

NoGateway == [status |-> "absent", logical |-> None, binding |-> NoBinding]

NoHandoff ==
    [state |-> "absent", managed |-> None, source |-> None, target |-> None, due |-> FALSE]

HandoffStates == {"absent", "pending", "claiming", "claimed", "expired", "superseded"}

-----------------------------------------------------------------------------
(* The requests *)

Operations ==
    {"initialize", "list", "call", "delete", "use", "detach", "prepare", "accept", "close"}

\* The await a request is at.
Points ==
    {"idle", "reuse", "touch", "load", "pin", "bind", "open", "write", "reread", "retire",
     "send", "reopen", "rewrite", "forward", "closing", "issue", "reserve", "transfer",
     "release"}

Idle ==
    [at |-> "idle", op |-> "call", gateway |-> None, wanted |-> None, token |-> None,
     seen |-> NoBinding, old |-> None, fresh |-> None]

At(r, point) == requests[r].at = point

Return(r) == requests' = [requests EXCEPT ![r] = Idle]

GoTo(r, point) == requests' = [requests EXCEPT ![r].at = point]

RowOf(r) == gateways[requests[r].gateway]

CountArrival == arrivals < MaxArrivals /\ arrivals' = arrivals + 1

\* An id no row and no request mentions: an initialize hands out a new one, or none.
Unused(u) ==
    \/ u = None
    \/ /\ \A g \in Gateways : gateways[g].binding.upstream # u
       /\ \A r \in Requests : u \notin {requests[r].seen.upstream, requests[r].old, requests[r].fresh}

Init ==
    /\ gateways = [g \in Gateways |-> NoGateway]
    /\ pins = [l \in Logicals |-> None]
    /\ handoffs = [h \in Handoffs |-> NoHandoff]
    /\ requests = [r \in Requests |-> Idle]
    /\ arrivals = 0

-----------------------------------------------------------------------------
(* A chat connects *)

\* initialize: a new transport of logical session l, on the base server.
NewTransport(g, l) ==
    /\ gateways[g] = NoGateway
    /\ \E u \in Upstreams :
         /\ Unused(u)
         /\ gateways' = [gateways EXCEPT ![g] =
              [status |-> "connected", logical |-> l, binding |-> Binding(None, Base, u)]]
    /\ UNCHANGED <<pins, handoffs, requests, arrivals>>

\* initialize of a reclaimed session finds a transport it may reuse, ...
FindReusable(r, g) ==
    /\ At(r, "idle")
    /\ CountArrival
    /\ gateways[g].status = "connected"
    /\ gateways[g].binding.managed = None
    /\ gateways[g].binding.upstream # None
    /\ requests' = [requests EXCEPT ![r] =
         [Idle EXCEPT !.at = "reuse", !.op = "initialize", !.gateway = g]]
    /\ UNCHANGED <<gateways, pins, handoffs>>

\* ... and touches it, whatever has become of it since.
Reuse(r) ==
    /\ At(r, "reuse")
    /\ gateways' = [gateways EXCEPT ![requests[r].gateway].status = "connected"]
    /\ Return(r)
    /\ UNCHANGED <<pins, handoffs, arrivals>>

-----------------------------------------------------------------------------
(* A request arrives *)

Begin(r, point, op, g, m, h) ==
    /\ At(r, "idle")
    /\ CountArrival
    /\ requests' = [requests EXCEPT ![r] =
         [Idle EXCEPT !.at = point, !.op = op, !.gateway = g, !.wanted = m, !.token = h]]
    /\ UNCHANGED <<gateways, pins, handoffs>>

\* Where an operation first reads the row of its transport.
FirstRead(op) == IF op \in {"use", "detach"} THEN "bind" ELSE "load"

\* What a chat asks for: "call" is a tool of Serena, "list" any other traffic
\* that is forwarded, the others are management tools and DELETE.
ChatRequest(op, m, h) ==
    \/ op \in {"list", "call", "delete", "detach", "prepare"} /\ m = None /\ h = None
    \/ op \in {"use", "close"} /\ m \in Sessions /\ h = None
    \/ op = "accept" /\ m = None /\ h \in Handoffs /\ handoffs[h].state # "absent"

\* proxy_existing: a request of the chat, refused if its transport is closed.
Arrive(r, g) ==
    /\ gateways[g].status \in {"connected", "stale"}
    /\ \E op \in Operations, m \in Sessions \cup {None}, h \in Handoffs \cup {None} :
         /\ ChatRequest(op, m, h)
         /\ Begin(r, "touch", op, g, m, h)

\* The HTTP API attaches, detaches and hands off any transport, closed ones too.
ArriveApi(r, g) ==
    /\ gateways[g].status # "absent"
    /\ \E op \in {"use", "detach", "prepare"}, m \in Sessions \cup {None} :
         /\ (op = "use") <=> (m # None)
         /\ Begin(r, FirstRead(op), op, g, m, None)

\* The transport was used: it is connected, even if it was closed meanwhile.
Touch(r) ==
    /\ At(r, "touch")
    /\ gateways' = [gateways EXCEPT ![requests[r].gateway].status = "connected"]
    /\ GoTo(r, FirstRead(requests[r].op))
    /\ UNCHANGED <<pins, handoffs, arrivals>>

\* The await that follows the first read.
AfterRead(op) ==
    CASE op = "call" -> "pin"
      [] op = "list" -> "send"
      [] op = "delete" -> "forward"
      [] op = "prepare" -> "issue"
      [] op = "accept" -> "reserve"
      [] OTHER -> "bind"

\* The handler reads the row, and goes on with what it read.  To close a managed
\* session the transport is bound to means to detach the transport first.
Load(r) ==
    LET row == RowOf(r).binding
        op == requests[r].op
    IN  /\ At(r, "load")
        /\ IF op = "close" /\ row.managed # requests[r].wanted
           THEN Return(r)
           ELSE requests' = [requests EXCEPT ![r].at = AfterRead(op), ![r].seen = row]
        /\ UNCHANGED <<gateways, pins, handoffs, arrivals>>

-----------------------------------------------------------------------------
(* Binding a transport *)

\* Mutant: a binding is not required.
SendAnyway(r) == GoTo(r, "send")

\* A tool of Serena runs in a managed session or not at all.
SendIfBound(r) ==
    IF requests[r].seen.managed = None THEN Return(r) ELSE GoTo(r, "send")

\* _reconcile_gateway_managed_binding: the pin of the logical session decides.
ReadPin(r) ==
    LET pinned == pins[RowOf(r).logical]
    IN  /\ At(r, "pin")
        /\ IF pinned = requests[r].seen.managed
           THEN SendIfBound(r)
           ELSE requests' = [requests EXCEPT
                  ![r].at = "bind", ![r].wanted = pinned, ![r].seen = NoBinding]
        /\ UNCHANGED <<gateways, pins, handoffs, arrivals>>

\* What to bind to: mcpstudio_close_session detaches.
Goal(r) == IF requests[r].op = "close" THEN None ELSE requests[r].wanted

EndpointOf(m) == IF m = None THEN Base ELSE m

\* bind_managed_session and detach_managed_session read the row, ...
StartBinding(r) ==
    /\ At(r, "bind")
    /\ requests' = [requests EXCEPT ![r].at = "open", ![r].seen = RowOf(r).binding]
    /\ UNCHANGED <<gateways, pins, handoffs, arrivals>>

\* ... start the process if need be and open a session on it, ...
OpenUpstream(r) ==
    /\ At(r, "open")
    /\ \E u \in Upstreams :
         /\ Unused(u)
         /\ requests' = [requests EXCEPT ![r].at = "write", ![r].fresh = u]
    /\ UNCHANGED <<gateways, pins, handoffs, arrivals>>

\* ... or give up, ...
OpenFails(r) ==
    /\ At(r, "open")
    /\ Return(r)
    /\ UNCHANGED <<gateways, pins, handoffs, arrivals>>

\* ... write transport and pin in one transaction, ...
WriteBinding(r) ==
    /\ At(r, "write")
    /\ gateways' = [gateways EXCEPT ![requests[r].gateway].binding =
         Binding(Goal(r), EndpointOf(Goal(r)), requests[r].fresh)]
    /\ pins' = [pins EXCEPT ![RowOf(r).logical] = Goal(r)]
    /\ requests' = [requests EXCEPT
         ![r].at = IF requests[r].op = "call" THEN "reread" ELSE "retire",
         ![r].old = requests[r].seen.upstream, ![r].seen = NoBinding, ![r].fresh = None]
    /\ UNCHANGED <<handoffs, arrivals>>

\* ... hand the row, as it is by now, to the request, ...
Reread(r) ==
    /\ At(r, "reread")
    /\ requests' = [requests EXCEPT ![r].at = "retire", ![r].seen = RowOf(r).binding]
    /\ UNCHANGED <<gateways, pins, handoffs, arrivals>>

\* ... and DELETE the upstream session `old` the transport had before.
Retire(r) ==
    /\ At(r, "retire")
    /\ IF requests[r].op = "call" /\ requests[r].seen.managed # None
       THEN requests' = [requests EXCEPT ![r].at = "send", ![r].old = None]
       ELSE Return(r)
    /\ UNCHANGED <<gateways, pins, handoffs, arrivals>>

-----------------------------------------------------------------------------
(* Forwarding *)

\* The server answers or cannot be reached, ...
SendEnds(r) ==
    /\ At(r, "send")
    /\ Return(r)
    /\ UNCHANGED <<gateways, pins, handoffs, arrivals>>

\* ... or it does not know the session: 404.
SendNotFound(r) ==
    /\ At(r, "send")
    /\ GoTo(r, "reopen")
    /\ UNCHANGED <<gateways, pins, handoffs, arrivals>>

\* A new upstream session is opened at the same place, ...
Reopen(r) ==
    /\ At(r, "reopen")
    /\ \E u \in Upstreams :
         /\ Unused(u)
         /\ requests' = [requests EXCEPT ![r].at = "rewrite", ![r].fresh = u]
    /\ UNCHANGED <<gateways, pins, handoffs, arrivals>>

\* ... or not, ...
ReopenFails(r) ==
    /\ At(r, "reopen")
    /\ gateways' = [gateways EXCEPT ![requests[r].gateway].status = "connected"]
    /\ Return(r)
    /\ UNCHANGED <<pins, handoffs, arrivals>>

\* ... written to the row, and the request is sent again, once.
WriteUpstream(r) ==
    /\ At(r, "rewrite")
    /\ gateways' = [gateways EXCEPT
         ![requests[r].gateway].status = "connected",
         ![requests[r].gateway].binding.upstream = requests[r].fresh]
    /\ Return(r)
    /\ UNCHANGED <<pins, handoffs, arrivals>>

\* DELETE goes to the server first; if that cannot be reached, all stays.
ForwardDelete(r) ==
    /\ At(r, "forward")
    /\ GoTo(r, "closing") \/ Return(r)
    /\ UNCHANGED <<gateways, pins, handoffs, arrivals>>

\* Then the transport is closed.
CloseTransport(r) ==
    /\ At(r, "closing")
    /\ gateways' = [gateways EXCEPT ![requests[r].gateway].status = "closed"]
    /\ Return(r)
    /\ UNCHANGED <<pins, handoffs, arrivals>>

-----------------------------------------------------------------------------
(* Handing a managed session off *)

\* Mutant: a claim in progress is not looked for.
ClaimingOverlooked(m) == FALSE

Claiming(m) == \E h \in Handoffs : handoffs[h].managed = m /\ handoffs[h].state = "claiming"

\* create_session_handoff: a new token, the older ones are retired.
IssueHandoff(r, h) ==
    LET m == requests[r].seen.managed
    IN  /\ At(r, "issue")
        /\ m # None
        /\ ~Claiming(m)
        /\ handoffs[h] = NoHandoff
        /\ handoffs' = [x \in Handoffs |->
             IF x = h
             THEN [NoHandoff EXCEPT !.state = "pending", !.managed = m,
                                    !.source = requests[r].gateway]
             ELSE IF handoffs[x].managed = m /\ handoffs[x].state = "pending"
             THEN [handoffs[x] EXCEPT
                     !.state = IF handoffs[x].due THEN "expired" ELSE "superseded"]
             ELSE handoffs[x]]
        /\ Return(r)
        /\ UNCHANGED <<gateways, pins, arrivals>>

IssueRefused(r) ==
    /\ At(r, "issue")
    /\ requests[r].seen.managed = None \/ Claiming(requests[r].seen.managed)
    /\ Return(r)
    /\ UNCHANGED <<gateways, pins, handoffs, arrivals>>

\* Mutant: the state of the token is not checked.
ClaimableInAnyState(h, g) == handoffs[h].source # g /\ ~handoffs[h].due

Claimable(h, g) ==
    /\ handoffs[h].source # g
    /\ ~handoffs[h].due
    /\ handoffs[h].state = "pending"

\* reserve_session_handoff.  A refusal writes nothing: the update of a due
\* token to "expired" is rolled back by the exception raised after it.  A
\* transport already bound to the managed session gives the token back.
ReserveHandoff(r) ==
    LET h == requests[r].token
        g == requests[r].gateway
    IN  /\ At(r, "reserve")
        /\ IF Claimable(h, g)
           THEN /\ handoffs' = [handoffs EXCEPT ![h].state = "claiming", ![h].target = g]
                /\ requests' = [requests EXCEPT
                     ![r].at = IF requests[r].seen.managed = handoffs[h].managed
                               THEN "release" ELSE "transfer",
                     ![r].seen = NoBinding]
           ELSE Return(r) /\ UNCHANGED handoffs
        /\ UNCHANGED <<gateways, pins, arrivals>>

\* What transfer_session_handoff_ownership checks again, in its transaction.
Transferable(h) ==
    LET source == gateways[handoffs[h].source]
        target == gateways[handoffs[h].target]
    IN  /\ handoffs[h].state = "claiming"
        /\ source.status = "connected"
        /\ target.status = "connected"
        /\ source.binding.managed = handoffs[h].managed
        /\ source.binding.upstream # None

\* Mutant: the source keeps its upstream session.
TransferKeepingUpstream(r) ==
    LET h == requests[r].token
        source == handoffs[h].source
        target == handoffs[h].target
    IN  /\ At(r, "transfer")
        /\ Transferable(h)
        /\ gateways' = [gateways EXCEPT
             ![target].binding = gateways[source].binding,
             ![source].status = "closed",
             ![source].binding.managed = None]
        /\ pins' = [pins EXCEPT
             ![gateways[target].logical] = handoffs[h].managed,
             ![gateways[source].logical] = None]
        /\ handoffs' = [handoffs EXCEPT ![h].state = "claimed"]
        /\ requests' = [requests EXCEPT
             ![r].at = "retire", ![r].old = gateways[target].binding.upstream]
        /\ UNCHANGED arrivals

\* Mutant: the upstream session of the source is retired.
TransferRetiringSource(r) ==
    LET h == requests[r].token
        source == handoffs[h].source
        target == handoffs[h].target
    IN  /\ At(r, "transfer")
        /\ Transferable(h)
        /\ gateways' = [gateways EXCEPT
             ![target].binding = gateways[source].binding,
             ![source].status = "closed",
             ![source].binding = Binding(None, gateways[source].binding.url, None)]
        /\ pins' = [pins EXCEPT
             ![gateways[target].logical] = handoffs[h].managed,
             ![gateways[source].logical] = None]
        /\ handoffs' = [handoffs EXCEPT ![h].state = "claimed"]
        /\ requests' = [requests EXCEPT
             ![r].at = "retire", ![r].old = gateways[source].binding.upstream]
        /\ UNCHANGED arrivals

\* The target takes the managed session and its upstream over, the source is
\* closed and loses them, and the pins of the logical sessions follow.
Transfer(r) ==
    LET h == requests[r].token
        source == handoffs[h].source
        target == handoffs[h].target
    IN  /\ At(r, "transfer")
        /\ Transferable(h)
        /\ gateways' = [gateways EXCEPT
             ![target].binding = gateways[source].binding,
             ![source].status = "closed",
             ![source].binding = Binding(None, gateways[source].binding.url, None)]
        /\ pins' = [pins EXCEPT
             ![gateways[target].logical] = handoffs[h].managed,
             ![gateways[source].logical] = None]
        /\ handoffs' = [handoffs EXCEPT ![h].state = "claimed"]
        /\ requests' = [requests EXCEPT
             ![r].at = "retire", ![r].old = gateways[target].binding.upstream]
        /\ UNCHANGED arrivals

\* Not transferable any more, or the lookup of the managed session before it has failed.
TransferRefused(r) ==
    /\ At(r, "transfer")
    /\ GoTo(r, "release")
    /\ UNCHANGED <<gateways, pins, handoffs, arrivals>>

\* release_session_handoff: the token may be claimed again.
ReleaseHandoff(r) ==
    LET h == requests[r].token
    IN  /\ At(r, "release")
        /\ handoffs' = IF handoffs[h].state = "claiming"
                       THEN [handoffs EXCEPT ![h].state = "pending", ![h].target = None]
                       ELSE handoffs
        /\ Return(r)
        /\ UNCHANGED <<gateways, pins, arrivals>>

-----------------------------------------------------------------------------
(* The environment *)

\* mark_stale_gateway_sessions: the transport was not used for long.
MarkStale(g) ==
    /\ gateways[g].status = "connected"
    /\ gateways' = [gateways EXCEPT ![g].status = "stale"]
    /\ UNCHANGED <<pins, handoffs, requests, arrivals>>

HandoffFallsDue(h) ==
    /\ handoffs[h].state \in {"pending", "claiming"}
    /\ ~handoffs[h].due
    /\ handoffs' = [handoffs EXCEPT ![h].due = TRUE]
    /\ UNCHANGED <<gateways, pins, requests, arrivals>>

\* Studio restarts: the requests it was serving end.
Crash ==
    /\ requests' = [r \in Requests |-> Idle]
    /\ UNCHANGED <<gateways, pins, handoffs, arrivals>>

-----------------------------------------------------------------------------

Arrivals(r) ==
    \E g \in Gateways : FindReusable(r, g) \/ Arrive(r, g) \/ ArriveApi(r, g)

Step(r) ==
    \/ Reuse(r)
    \/ Touch(r)
    \/ Load(r)
    \/ ReadPin(r)
    \/ StartBinding(r)
    \/ OpenUpstream(r)
    \/ OpenFails(r)
    \/ WriteBinding(r)
    \/ Reread(r)
    \/ Retire(r)
    \/ SendEnds(r)
    \/ SendNotFound(r)
    \/ Reopen(r)
    \/ ReopenFails(r)
    \/ WriteUpstream(r)
    \/ ForwardDelete(r)
    \/ CloseTransport(r)
    \/ \E h \in Handoffs : IssueHandoff(r, h)
    \/ IssueRefused(r)
    \/ ReserveHandoff(r)
    \/ Transfer(r)
    \/ TransferRefused(r)
    \/ ReleaseHandoff(r)

Environment ==
    \/ \E g \in Gateways, l \in Logicals : NewTransport(g, l)
    \/ \E g \in Gateways : MarkStale(g)
    \/ \E h \in Handoffs : HandoffFallsDue(h)
    \/ Crash

Next == Environment \/ \E r \in Requests : Arrivals(r) \/ Step(r)

Spec == Init /\ [][Next]_vars

-----------------------------------------------------------------------------
(* Properties *)

Bindings ==
    [managed : Sessions \cup {None}, url : Sessions \cup {Base, None},
     upstream : Upstreams \cup {None}]

GatewayRows ==
    [status : {"absent", "connected", "stale", "closed"},
     logical : Logicals \cup {None}, binding : Bindings]

HandoffRows ==
    [state : HandoffStates, managed : Sessions \cup {None},
     source : Gateways \cup {None}, target : Gateways \cup {None}, due : BOOLEAN]

RequestRecords ==
    [at : Points, op : Operations, gateway : Gateways \cup {None},
     wanted : Sessions \cup {None}, token : Handoffs \cup {None},
     seen : Bindings, old : Upstreams \cup {None}, fresh : Upstreams \cup {None}]

\* Type invariant: the rows have the columns of the tables, and a request is at
\* one of the awaits of its handler.
TypeOK ==
    /\ gateways \in [Gateways -> GatewayRows]
    /\ pins \in [Logicals -> Sessions \cup {None}]
    /\ handoffs \in [Handoffs -> HandoffRows]
    /\ requests \in [Requests -> RequestRecords]
    /\ arrivals \in 0..MaxArrivals

\* A tool call is forwarded only to the Serena process of the managed session
\* its transport was bound to: however binds, detaches, handoffs and reconnects
\* interleave, no call reaches the neutral server or another project.
ToolCallsRunInTheirSession ==
    \A r \in Requests : At(r, "send") /\ requests[r].op = "call" =>
        /\ requests[r].seen.managed # None
        /\ requests[r].seen.url = requests[r].seen.managed

\* Two transports never use one upstream MCP session: a handoff moves it, a
\* reconnect or a bind always writes one of its own.
UpstreamsNotShared ==
    \A g1, g2 \in Gateways :
        gateways[g1].binding.upstream = gateways[g2].binding.upstream
            => g1 = g2 \/ gateways[g1].binding.upstream = None

\* Claiming a handoff deletes the upstream session the new transport had, and
\* never one that some transport uses: the inherited one stays open.
ClaimRetiresNothingInUse ==
    \A r \in Requests, g \in Gateways :
        At(r, "retire") /\ requests[r].op = "accept" /\ requests[r].old # None
            => gateways[g].binding.upstream # requests[r].old

\* A reservation has one owner: no two requests work on one claiming token, and
\* the one that does works for the transport the token is reserved for.
OneClaimant ==
    \A r \in Requests : requests[r].at \in {"transfer", "release"} =>
        /\ handoffs[requests[r].token].state = "claiming"
        /\ handoffs[requests[r].token].target = requests[r].gateway
        /\ \A q \in Requests \ {r} :
             requests[q].at \in {"transfer", "release"} => requests[q].token # requests[r].token

\* At most one token of a managed session can still transfer it, so the unique
\* index idx_session_handoffs_one_active never refuses a row.
OneActiveHandoff ==
    \A h1, h2 \in Handoffs :
        /\ handoffs[h1].state \in {"pending", "claiming"}
        /\ handoffs[h2].state \in {"pending", "claiming"}
        /\ handoffs[h1].managed = handoffs[h2].managed
        => h1 = h2

\* A reservation on which no request works any more: Studio was restarted between
\* reserving the token and transferring its session.
CutOff(h) ==
    /\ handoffs[h].state = "claiming"
    /\ \A r \in Requests : requests[r].at \in {"transfer", "release"} => requests[r].token # h

\* Nothing repairs such a row: it is neither transferred nor given back, falling due
\* does not matter, and while it stays no other token of its session can move it.
CutOffClaimsStay ==
    [][\A h \in Handoffs : CutOff(h) =>
          /\ CutOff(h)'
          /\ handoffs'[h].managed = handoffs[h].managed
          /\ \A x \in Handoffs \ {h} :
                handoffs'[x].managed = handoffs[h].managed
                    => handoffs'[x].state \notin {"pending", "claiming"}]_vars

TokenState(state) ==
    CASE state = "absent" -> "unissued"
      [] state = "pending" -> "live"
      [] state = "claiming" -> "reserved"
      [] state = "claimed" -> "spent"
      [] OTHER -> "void"

Token == INSTANCE ClaimToken WITH
    Tokens <- Handoffs,
    Parties <- Gateways,
    token <- [h \in Handoffs |->
        [state |-> TokenState(handoffs[h].state), session |-> handoffs[h].managed,
         from |-> handoffs[h].source, to |-> handoffs[h].target]]

\* The table of handoffs implements the single-use claim token: one reservation
\* at a time, spent at most once, and an expired, superseded or claimed token
\* never becomes claimable again.
ImplementsClaimToken == Token!Spec

\* Documented: the new transport is bound to the managed session before the
\* source is closed and unpinned, so after a claim the logical session of the
\* new transport has the managed session pinned.
ClaimPinsTarget ==
    [][\A h \in Handoffs :
         handoffs[h].state = "claiming" /\ handoffs'[h].state = "claimed"
             => pins'[gateways[handoffs[h].target].logical] = handoffs[h].managed]_vars
=============================================================================
