---------------------------- MODULE GatewayProofs ----------------------------
(***************************************************************************)
(* Theorems about module Gateway, for any transports, sessions, handoffs   *)
(* and requests.  Three inductions: ShapeInv (what a row and a request in  *)
(* progress look like), UpstreamInv (who has which upstream session) and   *)
(* ClaimInv (who works on which token).                                    *)
(***************************************************************************)
EXTENDS Gateway, TLAPS

-----------------------------------------------------------------------------
(* Rows and requests *)

\* A transport bound to a managed session uses its endpoint.
SoundBindings == {b \in Bindings : b.managed # None => b.url = b.managed}

SoundRows ==
    {row \in GatewayRows :
        /\ row.binding \in SoundBindings
        /\ row.status # "absent" => row.logical \in Logicals}

SoundHandoffs ==
    {h \in HandoffRows :
        /\ h.state = "absent" => h = NoHandoff
        /\ h.state # "absent" => h.managed \in Sessions /\ h.source \in Gateways
        /\ h.state = "claiming" => h.target \in Gateways /\ h.target # h.source}

\* What a request may assume of itself at each await.
SoundRequests ==
    {q \in RequestRecords :
        /\ q.seen \in SoundBindings
        /\ q.at # "idle" => q.gateway \in Gateways
        /\ q.op = "accept" =>
             /\ q.at \in {"touch", "load", "reserve", "transfer", "release", "retire"}
             /\ q.token \in Handoffs
        /\ q.at \in {"reserve", "transfer", "release"} => q.op = "accept"
        /\ q.at = "send" /\ q.op = "call" => q.seen.managed # None}

ShapeInv ==
    /\ gateways \in [Gateways -> SoundRows]
    /\ pins \in [Logicals -> Sessions \cup {None}]
    /\ handoffs \in [Handoffs -> SoundHandoffs]
    /\ requests \in [Requests -> SoundRequests]
    /\ arrivals \in 0..MaxArrivals

\* A request is served for a transport that exists.
Served ==
    \A r \in Requests :
        requests[r].at # "idle" => gateways[requests[r].gateway].status # "absent"

LEMMA ShapeImpliesTypes == ShapeInv => TypeOK
  BY DEF ShapeInv, TypeOK, SoundRows, SoundHandoffs, SoundRequests

LEMMA NoBindingSound == NoBinding \in SoundBindings
  BY DEF NoBinding, Binding, SoundBindings, Bindings

LEMMA IdleSound == Idle \in SoundRequests
  BY NoBindingSound DEF Idle, SoundRequests, RequestRecords, SoundBindings, Points, Operations

LEMMA ShapeInit == Init => ShapeInv
<1> SUFFICES ASSUME Init PROVE ShapeInv
  OBVIOUS
<1>1. NoGateway \in SoundRows
  BY NoBindingSound DEF NoGateway, SoundRows, GatewayRows, SoundBindings
<1>2. NoHandoff \in SoundHandoffs
  BY DEF NoHandoff, SoundHandoffs, HandoffRows, HandoffStates
<1>3. arrivals \in 0..MaxArrivals
  BY MaxArrivalsAssumption DEF Init
<1> QED
  BY <1>1, <1>2, <1>3, IdleSound DEF Init, ShapeInv

\* A request moves on, and the tables stay.
LEMMA RequestMoves ==
  ASSUME ShapeInv, NEW r \in Requests, NEW q \in SoundRequests,
         requests' = [requests EXCEPT ![r] = q],
         UNCHANGED <<gateways, pins, handoffs, arrivals>>
  PROVE  ShapeInv'
  BY DEF ShapeInv

\* ... or the status of its transport changes with it.
LEMMA StatusMoves ==
  ASSUME ShapeInv, NEW g \in Gateways, NEW s \in {"connected", "stale", "closed"},
         gateways[g].status # "absent",
         gateways' = [gateways EXCEPT ![g].status = s]
  PROVE  gateways' \in [Gateways -> SoundRows]
<1>1. [gateways[g] EXCEPT !.status = s] \in SoundRows
  BY DEF ShapeInv, SoundRows, GatewayRows
<1> QED
  BY <1>1 DEF ShapeInv

LEMMA ReturnSound ==
  ASSUME ShapeInv, NEW r \in Requests, Return(r)
  PROVE  requests' \in [Requests -> SoundRequests]
  BY IdleSound DEF ShapeInv, Return

LEMMA GoToSound ==
  ASSUME ShapeInv, NEW r \in Requests, NEW point \in Points, GoTo(r, point),
         [requests[r] EXCEPT !.at = point] \in SoundRequests
  PROVE  requests' \in [Requests -> SoundRequests]
  BY DEF ShapeInv, GoTo

\* A chat connects, or a transport changes status.
LEMMA NewTransportShape ==
  ASSUME ShapeInv, NEW g \in Gateways, NEW l \in Logicals, NewTransport(g, l)
  PROVE  ShapeInv'
<1>1. PICK u \in Upstreams : gateways' = [gateways EXCEPT ![g] =
         [status |-> "connected", logical |-> l, binding |-> Binding(None, Base, u)]]
  BY DEF NewTransport
<1>2. [status |-> "connected", logical |-> l, binding |-> Binding(None, Base, u)] \in SoundRows
  BY DEF SoundRows, GatewayRows, SoundBindings, Bindings, Binding
<1> QED
  BY <1>1, <1>2 DEF NewTransport, ShapeInv

LEMMA FindReusableShape ==
  ASSUME ShapeInv, NEW r \in Requests, NEW g \in Gateways, FindReusable(r, g)
  PROVE  ShapeInv'
<1>1. [Idle EXCEPT !.at = "reuse", !.op = "initialize", !.gateway = g] \in SoundRequests
  BY NoBindingSound
     DEF Idle, SoundRequests, RequestRecords, SoundBindings, Points, Operations
<1>2. arrivals' \in 0..MaxArrivals
  BY MaxArrivalsAssumption DEF FindReusable, CountArrival, ShapeInv
<1> QED
  BY <1>1, <1>2 DEF FindReusable, ShapeInv

LEMMA BeginShape ==
  ASSUME ShapeInv, NEW r \in Requests, NEW g \in Gateways,
         NEW point \in {"touch", "bind", "load"}, NEW op \in Operations,
         NEW m \in Sessions \cup {None}, NEW h \in Handoffs \cup {None},
         op = "accept" => point = "touch" /\ h \in Handoffs,
         Begin(r, point, op, g, m, h)
  PROVE  ShapeInv'
<1>1. [Idle EXCEPT !.at = point, !.op = op, !.gateway = g, !.wanted = m, !.token = h]
        \in SoundRequests
  BY NoBindingSound DEF Idle, SoundRequests, RequestRecords, SoundBindings, Points
<1>2. arrivals' \in 0..MaxArrivals
  BY MaxArrivalsAssumption DEF Begin, CountArrival, ShapeInv
<1> QED
  BY <1>1, <1>2 DEF Begin, ShapeInv

LEMMA ArriveShape ==
  ASSUME ShapeInv, NEW r \in Requests, NEW g \in Gateways, Arrive(r, g) \/ ArriveApi(r, g)
  PROVE  ShapeInv'
<1>1. CASE Arrive(r, g)
  <2>1. PICK op \in Operations, m \in Sessions \cup {None}, h \in Handoffs \cup {None} :
          ChatRequest(op, m, h) /\ Begin(r, "touch", op, g, m, h)
    BY <1>1 DEF Arrive
  <2>2. op = "accept" => h \in Handoffs
    BY <2>1 DEF ChatRequest
  <2> QED
    BY <2>1, <2>2, BeginShape
<1>2. CASE ArriveApi(r, g)
  <2>1. PICK op \in {"use", "detach", "prepare"}, m \in Sessions \cup {None} :
          Begin(r, FirstRead(op), op, g, m, None)
    BY <1>2 DEF ArriveApi
  <2>2. FirstRead(op) \in {"touch", "bind", "load"} /\ op \in Operations /\ op # "accept"
    BY DEF FirstRead, Operations
  <2> QED
    BY <2>1, <2>2, BeginShape
<1> QED
  BY <1>1, <1>2

LEMMA ReuseShape ==
  ASSUME ShapeInv, Served, NEW r \in Requests, Reuse(r)
  PROVE  ShapeInv'
<1>1. requests[r].gateway \in Gateways
  BY DEF Reuse, At, ShapeInv, SoundRequests
<1>2. gateways[requests[r].gateway].status # "absent"
  BY DEF Reuse, At, Served
<1>3. gateways' \in [Gateways -> SoundRows]
  BY <1>1, <1>2, StatusMoves DEF Reuse
<1>4. requests' \in [Requests -> SoundRequests]
  BY ReturnSound DEF Reuse
<1> QED
  BY <1>3, <1>4 DEF Reuse, ShapeInv

LEMMA TouchShape ==
  ASSUME ShapeInv, Served, NEW r \in Requests, Touch(r)
  PROVE  ShapeInv'
<1> DEFINE point == FirstRead(requests[r].op)
<1>1. requests[r] \in SoundRequests /\ requests[r].gateway \in Gateways
  BY DEF Touch, At, ShapeInv, SoundRequests
<1>2. gateways[requests[r].gateway].status # "absent"
  BY DEF Touch, At, Served
<1>3. gateways' \in [Gateways -> SoundRows]
  BY <1>1, <1>2, StatusMoves DEF Touch
<1>4. point \in Points /\ [requests[r] EXCEPT !.at = point] \in SoundRequests
  BY <1>1 DEF FirstRead, Points, SoundRequests, RequestRecords, Touch, At
<1>5. requests' \in [Requests -> SoundRequests]
  BY <1>4, GoToSound DEF Touch
<1> QED
  BY <1>3, <1>5 DEF Touch, ShapeInv

LEMMA LoadShape ==
  ASSUME ShapeInv, NEW r \in Requests, Load(r)
  PROVE  ShapeInv'
<1> DEFINE q == [requests[r] EXCEPT !.at = AfterRead(requests[r].op), !.seen = RowOf(r).binding]
<1>1. requests[r] \in SoundRequests /\ requests[r].gateway \in Gateways
  BY DEF Load, At, ShapeInv, SoundRequests
<1>2. RowOf(r).binding \in SoundBindings /\ RowOf(r).binding \in Bindings
  BY <1>1 DEF RowOf, ShapeInv, SoundRows, SoundBindings
<1>3. AfterRead(requests[r].op) \in Points
  BY DEF AfterRead, Points
<1>4. AfterRead(requests[r].op) \in {"reserve", "transfer", "release"} <=> requests[r].op = "accept"
  BY DEF AfterRead
<1>5. requests[r].op = "accept" => AfterRead(requests[r].op) = "reserve"
  BY DEF AfterRead
<1>6. AfterRead(requests[r].op) = "send" => requests[r].op = "list"
  BY DEF AfterRead
<1>7. q \in SoundRequests
  BY <1>1, <1>2, <1>3, <1>4, <1>5, <1>6 DEF SoundRequests, RequestRecords
<1>8. Return(r) \/ requests' = [requests EXCEPT ![r] = q]
  BY DEF Load, ShapeInv
<1>9. requests' \in [Requests -> SoundRequests]
  BY <1>7, <1>8, ReturnSound DEF ShapeInv
<1> QED
  BY <1>9 DEF Load, ShapeInv

LEMMA ReadPinShape ==
  ASSUME ShapeInv, Served, NEW r \in Requests, ReadPin(r)
  PROVE  ShapeInv'
<1> DEFINE pinned == pins[RowOf(r).logical]
           q == [requests[r] EXCEPT !.at = "bind", !.wanted = pinned, !.seen = NoBinding]
<1>1. requests[r] \in SoundRequests /\ requests[r].gateway \in Gateways
  BY DEF ReadPin, At, ShapeInv, SoundRequests
<1>2. CASE pinned = requests[r].seen.managed
  <2>1. CASE requests[r].seen.managed = None
    BY <1>2, <2>1, ReturnSound DEF ReadPin, SendIfBound, ShapeInv
  <2>2. CASE requests[r].seen.managed # None
    <3>1. [requests[r] EXCEPT !.at = "send"] \in SoundRequests
      BY <1>1, <2>2 DEF ReadPin, At, SoundRequests, RequestRecords, Points
    <3>2. GoTo(r, "send") /\ "send" \in Points
      BY <1>2, <2>2 DEF ReadPin, SendIfBound, Points
    <3> QED
      BY <3>1, <3>2, GoToSound DEF ReadPin, ShapeInv
  <2> QED
    BY <2>1, <2>2
<1>3. CASE pinned # requests[r].seen.managed
  <2>1. RowOf(r).logical \in Logicals
    BY <1>1 DEF RowOf, ReadPin, At, ShapeInv, Served, SoundRows
  <2>2. pinned \in Sessions \cup {None}
    BY <2>1 DEF ShapeInv
  <2>3. q \in SoundRequests
    BY <1>1, <2>2, NoBindingSound DEF ReadPin, At, SoundRequests, RequestRecords, Points, SoundBindings
  <2>4. requests' = [requests EXCEPT ![r] = q]
    BY <1>3 DEF ReadPin
  <2> QED
    BY <2>3, <2>4, RequestMoves DEF ReadPin
<1> QED
  BY <1>2, <1>3

\* The steps of a binding.
LEMMA StartBindingShape ==
  ASSUME ShapeInv, NEW r \in Requests, StartBinding(r)
  PROVE  ShapeInv'
<1> DEFINE q == [requests[r] EXCEPT !.at = "open", !.seen = RowOf(r).binding]
<1>1. requests[r] \in SoundRequests /\ requests[r].gateway \in Gateways
  BY DEF StartBinding, At, ShapeInv, SoundRequests
<1>2. RowOf(r).binding \in SoundBindings /\ RowOf(r).binding \in Bindings
  BY <1>1 DEF RowOf, ShapeInv, SoundRows, SoundBindings
<1>3. q \in SoundRequests
  BY <1>1, <1>2 DEF SoundRequests, RequestRecords, Points, StartBinding, At
<1> QED
  BY <1>3, RequestMoves DEF StartBinding

LEMMA OpenShape ==
  ASSUME ShapeInv, NEW r \in Requests, OpenUpstream(r) \/ Reopen(r)
  PROVE  ShapeInv'
<1>1. requests[r] \in SoundRequests /\ requests[r].at \in {"open", "reopen"}
  BY DEF OpenUpstream, Reopen, At, ShapeInv
<1>2. ASSUME NEW u \in Upstreams, NEW point \in {"write", "rewrite"}
      PROVE  [requests[r] EXCEPT !.at = point, !.fresh = u] \in SoundRequests
  BY <1>1 DEF SoundRequests, RequestRecords, Points
<1>3. CASE OpenUpstream(r)
  <2>1. PICK u \in Upstreams :
          requests' = [requests EXCEPT ![r] = [requests[r] EXCEPT !.at = "write", !.fresh = u]]
    BY <1>3 DEF OpenUpstream
  <2> QED
    BY <1>2, <1>3, <2>1, RequestMoves DEF OpenUpstream
<1>4. CASE Reopen(r)
  <2>1. PICK u \in Upstreams :
          requests' = [requests EXCEPT ![r] = [requests[r] EXCEPT !.at = "rewrite", !.fresh = u]]
    BY <1>4 DEF Reopen
  <2> QED
    BY <1>2, <1>4, <2>1, RequestMoves DEF Reopen
<1> QED
  BY <1>3, <1>4

LEMMA EndpointSound ==
  ASSUME NEW m \in Sessions \cup {None}, NEW u \in Upstreams \cup {None}
  PROVE  Binding(m, EndpointOf(m), u) \in SoundBindings
  BY DEF Binding, EndpointOf, SoundBindings, Bindings

LEMMA WriteBindingShape ==
  ASSUME ShapeInv, NEW r \in Requests, WriteBinding(r)
  PROVE  ShapeInv'
<1> DEFINE g == requests[r].gateway
           b == Binding(Goal(r), EndpointOf(Goal(r)), requests[r].fresh)
           q == [requests[r] EXCEPT
                  !.at = IF requests[r].op = "call" THEN "reread" ELSE "retire",
                  !.old = requests[r].seen.upstream, !.seen = NoBinding, !.fresh = None]
<1>1. requests[r] \in SoundRequests /\ g \in Gateways
  BY DEF WriteBinding, At, ShapeInv, SoundRequests
<1>2. Goal(r) \in Sessions \cup {None} /\ requests[r].fresh \in Upstreams \cup {None}
  BY <1>1 DEF Goal, SoundRequests, RequestRecords
<1>3. b \in SoundBindings
  BY <1>2, EndpointSound
<1>4. [gateways[g] EXCEPT !.binding = b] \in SoundRows
  BY <1>1, <1>3 DEF ShapeInv, SoundRows, GatewayRows, SoundBindings
<1>5. gateways' \in [Gateways -> SoundRows]
  BY <1>1, <1>4 DEF WriteBinding, ShapeInv
<1>6. pins' \in [Logicals -> Sessions \cup {None}]
  BY <1>2 DEF WriteBinding, ShapeInv
<1>7. requests[r].seen.upstream \in Upstreams \cup {None}
  <2>1. requests[r].seen \in Bindings
    BY <1>1 DEF SoundRequests, RequestRecords
  <2> QED
    BY <2>1 DEF Bindings
<1>8. q \in SoundRequests
  <2>1. requests[r].at = "write" /\ NoBinding \in Bindings
    BY NoBindingSound DEF WriteBinding, At, SoundBindings
  <2>2. ASSUME NEW point \in {"reread", "retire"}
        PROVE  [requests[r] EXCEPT !.at = point, !.old = requests[r].seen.upstream,
                                   !.seen = NoBinding, !.fresh = None] \in SoundRequests
    BY <1>1, <1>7, <2>1, NoBindingSound DEF SoundRequests, RequestRecords, Points
  <2> QED
    BY <2>2
<1>9. requests' = [requests EXCEPT ![r] = q]
  BY DEF WriteBinding
<1>10. requests' \in [Requests -> SoundRequests]
  BY <1>8, <1>9 DEF ShapeInv
<1> QED
  BY <1>5, <1>6, <1>10 DEF WriteBinding, ShapeInv

LEMMA RereadShape ==
  ASSUME ShapeInv, NEW r \in Requests, Reread(r)
  PROVE  ShapeInv'
<1> DEFINE q == [requests[r] EXCEPT !.at = "retire", !.seen = RowOf(r).binding]
<1>1. requests[r] \in SoundRequests /\ requests[r].gateway \in Gateways
  BY DEF Reread, At, ShapeInv, SoundRequests
<1>2. RowOf(r).binding \in SoundBindings /\ RowOf(r).binding \in Bindings
  BY <1>1 DEF RowOf, ShapeInv, SoundRows, SoundBindings
<1>3. q \in SoundRequests
  BY <1>1, <1>2 DEF SoundRequests, RequestRecords, Points, Reread, At
<1> QED
  BY <1>3, RequestMoves DEF Reread

LEMMA RetireShape ==
  ASSUME ShapeInv, NEW r \in Requests, Retire(r)
  PROVE  ShapeInv'
<1>1. CASE requests[r].op = "call" /\ requests[r].seen.managed # None
  <2>1. requests[r] \in SoundRequests /\ requests[r].at = "retire"
    BY DEF ShapeInv, Retire, At
  <2>2. [requests[r] EXCEPT !.at = "send", !.old = None] \in SoundRequests
    BY <1>1, <2>1 DEF SoundRequests, RequestRecords, Points
  <2>3. requests' = [requests EXCEPT ![r] = [requests[r] EXCEPT !.at = "send", !.old = None]]
    BY <1>1 DEF Retire
  <2> QED
    BY <2>2, <2>3, RequestMoves DEF Retire
<1>2. CASE ~(requests[r].op = "call" /\ requests[r].seen.managed # None)
  BY <1>2, ReturnSound DEF Retire, ShapeInv
<1> QED
  BY <1>1, <1>2

\* Requests that end, or go on elsewhere, and touch nothing else.
LEMMA ReturnsShape ==
  ASSUME ShapeInv, NEW r \in Requests,
         OpenFails(r) \/ SendEnds(r) \/ IssueRefused(r)
  PROVE  ShapeInv'
  BY ReturnSound DEF OpenFails, SendEnds, IssueRefused, ShapeInv

LEMMA GoesOnShape ==
  ASSUME ShapeInv, NEW r \in Requests,
         SendNotFound(r) \/ ForwardDelete(r) \/ TransferRefused(r)
  PROVE  ShapeInv'
<1>1. requests[r] \in SoundRequests /\ requests[r].at \in {"send", "forward", "transfer"}
  BY DEF ShapeInv, SendNotFound, ForwardDelete, TransferRefused, At
<1>2. CASE SendNotFound(r)
  <2>1. [requests[r] EXCEPT !.at = "reopen"] \in SoundRequests
    BY <1>1, <1>2 DEF SoundRequests, RequestRecords, Points, SendNotFound, At
  <2> QED
    BY <1>2, <2>1, GoToSound DEF SendNotFound, ShapeInv, Points
<1>3. CASE ForwardDelete(r)
  <2>1. [requests[r] EXCEPT !.at = "closing"] \in SoundRequests
    BY <1>1, <1>3 DEF SoundRequests, RequestRecords, Points, ForwardDelete, At
  <2> QED
    BY <1>3, <2>1, GoToSound, ReturnSound DEF ForwardDelete, ShapeInv, Points
<1>4. CASE TransferRefused(r)
  <2>1. [requests[r] EXCEPT !.at = "release"] \in SoundRequests
    BY <1>1, <1>4 DEF SoundRequests, RequestRecords, Points, TransferRefused, At
  <2> QED
    BY <1>4, <2>1, GoToSound DEF TransferRefused, ShapeInv, Points
<1> QED
  BY <1>2, <1>3, <1>4

LEMMA StatusShape ==
  ASSUME ShapeInv, Served, NEW r \in Requests, ReopenFails(r) \/ CloseTransport(r)
  PROVE  ShapeInv'
<1>1. requests[r].gateway \in Gateways
  BY DEF ReopenFails, CloseTransport, At, ShapeInv, SoundRequests
<1>2. gateways[requests[r].gateway].status # "absent"
  BY DEF ReopenFails, CloseTransport, At, Served
<1>3. gateways' \in [Gateways -> SoundRows]
  BY <1>1, <1>2, StatusMoves DEF ReopenFails, CloseTransport
<1>4. requests' \in [Requests -> SoundRequests]
  BY ReturnSound DEF ReopenFails, CloseTransport
<1> QED
  BY <1>3, <1>4 DEF ReopenFails, CloseTransport, ShapeInv

LEMMA WriteUpstreamShape ==
  ASSUME ShapeInv, Served, NEW r \in Requests, WriteUpstream(r)
  PROVE  ShapeInv'
<1> DEFINE g == requests[r].gateway
           u == requests[r].fresh
           b == [gateways[g].binding EXCEPT !.upstream = u]
           row == [gateways[g] EXCEPT !.status = "connected", !.binding = b]
<1>1. requests[r] \in SoundRequests /\ g \in Gateways /\ gateways[g].status # "absent"
  BY DEF WriteUpstream, At, ShapeInv, SoundRequests, Served
<1>2. u \in Upstreams \cup {None}
  BY <1>1 DEF SoundRequests, RequestRecords
<1>3. gateways[g] \in SoundRows /\ gateways[g].binding \in SoundBindings
  BY <1>1 DEF ShapeInv, SoundRows
<1>4. b \in SoundBindings
  BY <1>2, <1>3 DEF SoundBindings, Bindings
<1>5. row \in SoundRows
  BY <1>1, <1>3, <1>4 DEF SoundRows, GatewayRows, SoundBindings
<1>6. gateways' = [gateways EXCEPT ![g] = row]
  BY DEF WriteUpstream
<1>7. gateways' \in [Gateways -> SoundRows]
  BY <1>5, <1>6 DEF ShapeInv
<1>8. requests' \in [Requests -> SoundRequests]
  BY ReturnSound DEF WriteUpstream
<1> QED
  BY <1>7, <1>8 DEF WriteUpstream, ShapeInv

\* The steps of a handoff.
LEMMA IssueShape ==
  ASSUME ShapeInv, NEW r \in Requests, NEW h \in Handoffs, IssueHandoff(r, h)
  PROVE  ShapeInv'
<1> DEFINE m == requests[r].seen.managed
           new == [NoHandoff EXCEPT !.state = "pending", !.managed = m,
                                    !.source = requests[r].gateway]
<1>1. requests[r] \in SoundRequests /\ requests[r].gateway \in Gateways
  BY DEF IssueHandoff, At, ShapeInv, SoundRequests
<1>2. m \in Sessions
  <2>1. requests[r].seen \in Bindings
    BY <1>1 DEF SoundRequests, RequestRecords
  <2> QED
    BY <2>1 DEF Bindings, IssueHandoff
<1>3. new \in SoundHandoffs
  BY <1>1, <1>2 DEF NoHandoff, SoundHandoffs, HandoffRows, HandoffStates
<1>4. ASSUME NEW x \in Handoffs, handoffs[x].state = "pending",
             NEW s \in {"expired", "superseded"}
      PROVE  [handoffs[x] EXCEPT !.state = s] \in SoundHandoffs
  BY <1>4 DEF ShapeInv, SoundHandoffs, HandoffRows, HandoffStates
<1>5. handoffs' = [x \in Handoffs |->
         IF x = h THEN new
         ELSE IF handoffs[x].managed = m /\ handoffs[x].state = "pending"
         THEN [handoffs[x] EXCEPT !.state = IF handoffs[x].due THEN "expired" ELSE "superseded"]
         ELSE handoffs[x]]
  BY DEF IssueHandoff
<1>6. ASSUME NEW x \in Handoffs PROVE handoffs'[x] \in SoundHandoffs
  <2>1. CASE x = h
    BY <1>3, <1>5, <2>1
  <2>2. CASE x # h /\ handoffs[x].managed = m /\ handoffs[x].state = "pending"
    BY <1>4, <1>5, <2>2
  <2>3. CASE x # h /\ ~(handoffs[x].managed = m /\ handoffs[x].state = "pending")
    BY <1>5, <2>3 DEF ShapeInv
  <2> QED
    BY <2>1, <2>2, <2>3
<1>7. handoffs' \in [Handoffs -> SoundHandoffs]
  BY <1>5, <1>6
<1>8. requests' \in [Requests -> SoundRequests]
  BY ReturnSound DEF IssueHandoff
<1> QED
  BY <1>7, <1>8 DEF IssueHandoff, ShapeInv

LEMMA ReserveShape ==
  ASSUME ShapeInv, NEW r \in Requests, ReserveHandoff(r)
  PROVE  ShapeInv'
<1> DEFINE h == requests[r].token
           g == requests[r].gateway
           taken == [handoffs[h] EXCEPT !.state = "claiming", !.target = g]
           point == IF requests[r].seen.managed = handoffs[h].managed
                    THEN "release" ELSE "transfer"
           q == [requests[r] EXCEPT !.at = point, !.seen = NoBinding]
<1>1. requests[r] \in SoundRequests /\ requests[r].at = "reserve"
  BY DEF ReserveHandoff, At, ShapeInv
<1>2. g \in Gateways /\ h \in Handoffs /\ requests[r].op = "accept"
  BY <1>1 DEF SoundRequests
<1>3. CASE Claimable(h, g)
  <2>1. taken \in SoundHandoffs
    BY <1>2, <1>3 DEF Claimable, ShapeInv, SoundHandoffs, HandoffRows, HandoffStates
  <2>2. handoffs' = [handoffs EXCEPT ![h] = taken]
    BY <1>3 DEF ReserveHandoff
  <2>3. handoffs' \in [Handoffs -> SoundHandoffs]
    BY <2>1, <2>2 DEF ShapeInv
  <2>4. ASSUME NEW p \in {"release", "transfer"}
        PROVE  [requests[r] EXCEPT !.at = p, !.seen = NoBinding] \in SoundRequests
    BY <1>1, <1>2, NoBindingSound DEF SoundRequests, RequestRecords, Points, SoundBindings
  <2>5. requests' = [requests EXCEPT ![r] = q]
    BY <1>3 DEF ReserveHandoff
  <2>6. requests' \in [Requests -> SoundRequests]
    BY <2>4, <2>5 DEF ShapeInv
  <2> QED
    BY <2>3, <2>6 DEF ReserveHandoff, ShapeInv
<1>4. CASE ~Claimable(h, g)
  BY <1>4, ReturnSound DEF ReserveHandoff, ShapeInv
<1> QED
  BY <1>3, <1>4

LEMMA TransferShape ==
  ASSUME ShapeInv, NEW r \in Requests, Transfer(r)
  PROVE  ShapeInv'
<1> DEFINE h == requests[r].token
           source == handoffs[h].source
           target == handoffs[h].target
           taken == [gateways[target] EXCEPT !.binding = gateways[source].binding]
           given == [gateways[source] EXCEPT !.status = "closed",
                       !.binding = Binding(None, gateways[source].binding.url, None)]
           q == [requests[r] EXCEPT !.at = "retire", !.old = gateways[target].binding.upstream]
<1>1. requests[r] \in SoundRequests /\ requests[r].at = "transfer"
  BY DEF Transfer, At, ShapeInv
<1>2. h \in Handoffs /\ requests[r].op = "accept"
  BY <1>1 DEF SoundRequests
<1>3. handoffs[h] \in SoundHandoffs /\ handoffs[h].state = "claiming"
  BY <1>2 DEF ShapeInv, Transfer, Transferable
<1>4. source \in Gateways /\ target \in Gateways /\ source # target /\ handoffs[h].managed \in Sessions
  BY <1>3 DEF SoundHandoffs
<1>5. gateways[source] \in SoundRows /\ gateways[target] \in SoundRows
  BY <1>4 DEF ShapeInv
<1>6. gateways[source].binding \in Bindings /\ gateways[target].binding \in Bindings
  BY <1>5 DEF SoundRows, GatewayRows
<1>7. taken \in SoundRows
  BY <1>5, <1>6 DEF SoundRows, GatewayRows
<1>8. Binding(None, gateways[source].binding.url, None) \in SoundBindings
  BY <1>6 DEF Binding, Bindings, SoundBindings
<1>9. gateways[source].status = "connected"
  BY DEF Transfer, Transferable
<1>10. given \in SoundRows
  BY <1>5, <1>8, <1>9 DEF SoundRows, GatewayRows, SoundBindings
<1>11. gateways' = [gateways EXCEPT ![target] = taken, ![source] = given]
  BY <1>4 DEF Transfer
<1>12. gateways' \in [Gateways -> SoundRows]
  BY <1>4, <1>7, <1>10, <1>11 DEF ShapeInv
<1>13. pins' \in [Logicals -> Sessions \cup {None}]
  BY <1>4 DEF Transfer, ShapeInv
<1>14. [handoffs[h] EXCEPT !.state = "claimed"] \in SoundHandoffs
  BY <1>3 DEF SoundHandoffs, HandoffRows, HandoffStates
<1>15. handoffs' \in [Handoffs -> SoundHandoffs]
  BY <1>14 DEF Transfer, ShapeInv
<1>16. gateways[target].binding.upstream \in Upstreams \cup {None}
  BY <1>6 DEF Bindings
<1>17. q \in SoundRequests
  BY <1>1, <1>2, <1>16 DEF SoundRequests, RequestRecords, Points
<1>18. requests' = [requests EXCEPT ![r] = q]
  BY DEF Transfer
<1>19. requests' \in [Requests -> SoundRequests]
  BY <1>17, <1>18 DEF ShapeInv
<1> QED
  BY <1>12, <1>13, <1>15, <1>19 DEF Transfer, ShapeInv

LEMMA ReleaseShape ==
  ASSUME ShapeInv, NEW r \in Requests, ReleaseHandoff(r)
  PROVE  ShapeInv'
<1> DEFINE h == requests[r].token
           back == [handoffs[h] EXCEPT !.state = "pending", !.target = None]
<1>1. h \in Handoffs
  BY DEF ReleaseHandoff, At, ShapeInv, SoundRequests
<1>2. handoffs[h].state = "claiming" => back \in SoundHandoffs
  BY <1>1 DEF ShapeInv, SoundHandoffs, HandoffRows, HandoffStates
<1>3. handoffs' = IF handoffs[h].state = "claiming" THEN [handoffs EXCEPT ![h] = back] ELSE handoffs
  BY DEF ReleaseHandoff
<1>4. handoffs' \in [Handoffs -> SoundHandoffs]
  BY <1>2, <1>3 DEF ShapeInv
<1>5. requests' \in [Requests -> SoundRequests]
  BY ReturnSound DEF ReleaseHandoff
<1> QED
  BY <1>4, <1>5 DEF ReleaseHandoff, ShapeInv

LEMMA EnvironmentShape ==
  ASSUME ShapeInv, Environment
  PROVE  ShapeInv'
<1>1. ASSUME NEW g \in Gateways, NEW l \in Logicals, NewTransport(g, l) PROVE ShapeInv'
  BY <1>1, NewTransportShape
<1>2. ASSUME NEW g \in Gateways, MarkStale(g) PROVE ShapeInv'
  <2>1. gateways' \in [Gateways -> SoundRows]
    BY <1>2, StatusMoves DEF MarkStale
  <2> QED
    BY <1>2, <2>1 DEF MarkStale, ShapeInv
<1>3. ASSUME NEW h \in Handoffs, HandoffFallsDue(h) PROVE ShapeInv'
  <2>1. [handoffs[h] EXCEPT !.due = TRUE] \in SoundHandoffs
    BY <1>3 DEF HandoffFallsDue, ShapeInv, SoundHandoffs, HandoffRows, NoHandoff
  <2>2. handoffs' \in [Handoffs -> SoundHandoffs]
    BY <1>3, <2>1 DEF HandoffFallsDue, ShapeInv
  <2> QED
    BY <1>3, <2>2 DEF HandoffFallsDue, ShapeInv
<1>4. ASSUME Crash PROVE ShapeInv'
  BY <1>4, IdleSound DEF Crash, ShapeInv
<1> QED
  BY <1>1, <1>2, <1>3, <1>4 DEF Environment

LEMMA ShapeStep ==
  ASSUME ShapeInv, Served, [Next]_vars
  PROVE  ShapeInv'
<1>1. CASE UNCHANGED vars
  BY <1>1 DEF vars, ShapeInv
<1>2. CASE Environment
  BY <1>2, EnvironmentShape
<1>3. ASSUME NEW r \in Requests, Arrivals(r) PROVE ShapeInv'
  BY <1>3, FindReusableShape, ArriveShape DEF Arrivals
<1>4. ASSUME NEW r \in Requests, Step(r) PROVE ShapeInv'
  BY <1>4, ReuseShape, TouchShape, LoadShape, ReadPinShape, StartBindingShape, OpenShape,
     WriteBindingShape, RereadShape, RetireShape, ReturnsShape, GoesOnShape, StatusShape,
     WriteUpstreamShape, IssueShape, ReserveShape, TransferShape, ReleaseShape, Zenon DEF Step
<1> QED
  BY <1>1, <1>2, <1>3, <1>4 DEF Next

-----------------------------------------------------------------------------
(* Who has which upstream session *)

\* The request deletes the upstream session a claimant had before.
Retiring(q) == q.at = "retire" /\ q.op = "accept"

\* An upstream session that a request has opened but not yet written belongs to
\* that request alone; one that a claimant retires belongs to nobody.
UpstreamInv ==
    /\ UpstreamsNotShared
    /\ \A q \in Requests, g \in Gateways :
         requests[q].fresh # None => gateways[g].binding.upstream # requests[q].fresh
    /\ \A p, q \in Requests :
         p # q /\ requests[p].fresh # None => requests[p].fresh # requests[q].fresh
    /\ \A q \in Requests, g \in Gateways :
         Retiring(requests[q]) /\ requests[q].old # None
             => gateways[g].binding.upstream # requests[q].old
    /\ \A p, q \in Requests :
         Retiring(requests[q]) /\ requests[q].old # None
             => requests[p].fresh # requests[q].old

\* What most steps leave alone.
RowsQuiet ==
    \A g \in Gateways :
        /\ gateways[g].status # "absent" => gateways'[g].status # "absent"
        /\ gateways'[g].binding.upstream = gateways[g].binding.upstream

RequestsQuiet ==
    \A q \in Requests :
        /\ requests'[q].at # "idle" => gateways[requests'[q].gateway].status # "absent"
        /\ requests'[q].fresh \in {None, requests[q].fresh}
        /\ Retiring(requests'[q]) => Retiring(requests[q]) /\ requests'[q].old = requests[q].old

LEMMA QuietStep ==
  ASSUME ShapeInv, Served, UpstreamInv, ShapeInv', RowsQuiet, RequestsQuiet
  PROVE  Served' /\ UpstreamInv'
<1>1. Served'
  BY DEF ShapeInv, SoundRequests, Served, RowsQuiet, RequestsQuiet
<1>2. UpstreamInv'
  <2>1. UpstreamsNotShared'
    BY DEF UpstreamInv, UpstreamsNotShared, RowsQuiet
  <2>2. ASSUME NEW q \in Requests, NEW g \in Gateways, requests'[q].fresh # None
        PROVE  gateways'[g].binding.upstream # requests'[q].fresh
    BY <2>2 DEF UpstreamInv, RowsQuiet, RequestsQuiet
  <2>3. ASSUME NEW p \in Requests, NEW q \in Requests, p # q, requests'[p].fresh # None
        PROVE  requests'[p].fresh # requests'[q].fresh
    BY <2>3 DEF UpstreamInv, RequestsQuiet
  <2>4. ASSUME NEW q \in Requests, NEW g \in Gateways,
               Retiring(requests'[q]), requests'[q].old # None
        PROVE  gateways'[g].binding.upstream # requests'[q].old
    BY <2>4 DEF UpstreamInv, RowsQuiet, RequestsQuiet
  <2>5. ASSUME NEW p \in Requests, NEW q \in Requests,
               Retiring(requests'[q]), requests'[q].old # None
        PROVE  requests'[p].fresh # requests'[q].old
    BY <2>5 DEF UpstreamInv, RequestsQuiet
  <2> QED
    BY <2>1, <2>2, <2>3, <2>4, <2>5 DEF UpstreamInv
<1> QED
  BY <1>1, <1>2

\* One request changes, and opens, writes and retires nothing.
LEMMA OneRequestQuiet ==
  ASSUME ShapeInv, Served, NEW r \in Requests, NEW q,
         requests' = [requests EXCEPT ![r] = q],
         q.at # "idle" => gateways[q.gateway].status # "absent",
         q.fresh \in {None, requests[r].fresh},
         ~Retiring(q)
  PROVE  RequestsQuiet
  BY DEF ShapeInv, Served, RequestsQuiet

LEMMA ReturnQuiet ==
  ASSUME ShapeInv, Served, NEW r \in Requests, Return(r)
  PROVE  RequestsQuiet
<1>1. Idle.at = "idle" /\ Idle.fresh = None /\ ~Retiring(Idle)
  BY DEF Idle, Retiring
<1>2. requests' = [requests EXCEPT ![r] = Idle]
  BY DEF Return
<1> QED
  BY <1>1, <1>2, OneRequestQuiet

LEMMA GoToQuiet ==
  ASSUME ShapeInv, Served, NEW r \in Requests, NEW point, GoTo(r, point),
         requests[r].at # "idle", point # "retire"
  PROVE  RequestsQuiet
<1> DEFINE q == [requests[r] EXCEPT !.at = point]
<1>1. requests[r] \in SoundRequests
  BY DEF ShapeInv
<1>2. q.at = point /\ q.gateway = requests[r].gateway /\ q.fresh = requests[r].fresh
  BY <1>1 DEF SoundRequests, RequestRecords
<1>3. requests' = [requests EXCEPT ![r] = q]
  BY DEF GoTo
<1> HIDE DEF q
<1> QED
  BY <1>2, <1>3, OneRequestQuiet DEF Retiring, Served

LEMMA StatusQuiet ==
  ASSUME ShapeInv, NEW g \in Gateways, NEW s, s # "absent",
         gateways' = [gateways EXCEPT ![g].status = s]
  PROVE  RowsQuiet
<1>1. gateways[g] \in SoundRows
  BY DEF ShapeInv
<1>2. [gateways[g] EXCEPT !.status = s].status = s
  BY <1>1 DEF SoundRows, GatewayRows
<1>3. [gateways[g] EXCEPT !.status = s].binding = gateways[g].binding
  BY <1>1 DEF SoundRows, GatewayRows
<1> QED
  BY <1>2, <1>3 DEF RowsQuiet, ShapeInv

LEMMA SameRowsQuiet == UNCHANGED gateways => RowsQuiet
  BY DEF RowsQuiet

LEMMA ArrivalsQuiet ==
  ASSUME ShapeInv, Served, NEW r \in Requests, Arrivals(r)
  PROVE  RowsQuiet /\ RequestsQuiet
<1>1. ASSUME NEW g \in Gateways, FindReusable(r, g) PROVE RequestsQuiet
  <2> DEFINE q == [Idle EXCEPT !.at = "reuse", !.op = "initialize", !.gateway = g]
  <2>1. q.gateway = g /\ q.fresh = None /\ ~Retiring(q)
    BY DEF Idle, Retiring
  <2>2. requests' = [requests EXCEPT ![r] = q] /\ gateways[g].status # "absent"
    BY <1>1 DEF FindReusable
  <2> HIDE DEF q
  <2> QED
    BY <2>1, <2>2, OneRequestQuiet
<1>2. ASSUME NEW g \in Gateways, NEW point \in {"touch", "bind", "load"}, NEW op, NEW m, NEW h,
             gateways[g].status # "absent", Begin(r, point, op, g, m, h)
      PROVE  RequestsQuiet
  <2> DEFINE q == [Idle EXCEPT !.at = point, !.op = op, !.gateway = g, !.wanted = m, !.token = h]
  <2>1. q.gateway = g /\ q.fresh = None /\ ~Retiring(q)
    BY DEF Idle, Retiring
  <2>2. requests' = [requests EXCEPT ![r] = q]
    BY <1>2 DEF Begin
  <2> HIDE DEF q
  <2> QED
    BY <1>2, <2>1, <2>2, OneRequestQuiet
<1>3. ASSUME NEW g \in Gateways, Arrive(r, g) PROVE RequestsQuiet
  BY <1>2, <1>3 DEF Arrive
<1>4. ASSUME NEW g \in Gateways, ArriveApi(r, g) PROVE RequestsQuiet
  <2>1. \A op : FirstRead(op) \in {"touch", "bind", "load"}
    BY DEF FirstRead
  <2> QED
    BY <1>2, <1>4, <2>1 DEF ArriveApi
<1>5. UNCHANGED gateways
  BY DEF Arrivals, FindReusable, Arrive, ArriveApi, Begin
<1> QED
  BY <1>1, <1>3, <1>4, <1>5, SameRowsQuiet DEF Arrivals

\* Steps that open no upstream session, write none and retire none.
QuietSteps(r) ==
    \/ Reuse(r) \/ Touch(r) \/ Load(r) \/ ReadPin(r) \/ StartBinding(r) \/ OpenFails(r)
    \/ Reread(r) \/ Retire(r) \/ SendEnds(r) \/ SendNotFound(r) \/ ReopenFails(r)
    \/ ForwardDelete(r) \/ CloseTransport(r) \/ (\E h \in Handoffs : IssueHandoff(r, h))
    \/ IssueRefused(r) \/ ReserveHandoff(r) \/ TransferRefused(r) \/ ReleaseHandoff(r)

LEMMA QuietStepsQuiet ==
  ASSUME ShapeInv, Served, NEW r \in Requests, QuietSteps(r)
  PROVE  RowsQuiet /\ RequestsQuiet
<1>1. requests[r] \in SoundRequests /\ requests[r].at # "idle"
  BY DEF QuietSteps, Reuse, Touch, Load, ReadPin, StartBinding, OpenFails, Reread, Retire,
     SendEnds, SendNotFound, ReopenFails, ForwardDelete, CloseTransport, IssueHandoff,
     IssueRefused, ReserveHandoff, TransferRefused, ReleaseHandoff, At, ShapeInv
<1>2. requests[r].gateway \in Gateways /\ gateways[requests[r].gateway].status # "absent"
  BY <1>1 DEF SoundRequests, Served
<1>3. ASSUME NEW point, NEW seen, point # "retire"
      PROVE  LET q == [requests[r] EXCEPT !.at = point, !.seen = seen]
             IN  requests' = [requests EXCEPT ![r] = q] => RequestsQuiet
  <2> DEFINE q == [requests[r] EXCEPT !.at = point, !.seen = seen]
  <2>1. q.at = point /\ q.gateway = requests[r].gateway /\ q.fresh = requests[r].fresh
    BY <1>1 DEF SoundRequests, RequestRecords
  <2> HIDE DEF q
  <2>2. requests' = [requests EXCEPT ![r] = q] => RequestsQuiet
    BY <1>2, <1>3, <2>1, OneRequestQuiet DEF Retiring
  <2> QED
    BY <2>2 DEF q
<1>4. CASE Reuse(r) \/ ReopenFails(r) \/ CloseTransport(r)
  <2>1. RequestsQuiet
    BY <1>4, ReturnQuiet DEF Reuse, ReopenFails, CloseTransport
  <2>2. RowsQuiet
    BY <1>2, <1>4, StatusQuiet DEF Reuse, ReopenFails, CloseTransport
  <2> QED
    BY <2>1, <2>2
<1>5. CASE Touch(r)
  <2>1. FirstRead(requests[r].op) # "retire"
    BY DEF FirstRead
  <2>2. RequestsQuiet
    BY <1>1, <1>5, <2>1, GoToQuiet DEF Touch
  <2>3. RowsQuiet
    BY <1>2, <1>5, StatusQuiet DEF Touch
  <2> QED
    BY <2>2, <2>3
<1>6. CASE Load(r)
  <2>1. AfterRead(requests[r].op) # "retire"
    BY DEF AfterRead
  <2>2. Return(r) \/ requests' = [requests EXCEPT ![r] =
           [requests[r] EXCEPT !.at = AfterRead(requests[r].op), !.seen = RowOf(r).binding]]
    BY <1>6 DEF Load
  <2> QED
    BY <1>3, <1>6, <2>1, <2>2, ReturnQuiet, SameRowsQuiet DEF Load
<1>7. CASE ReadPin(r)
  <2>1. CASE pins[RowOf(r).logical] = requests[r].seen.managed
    BY <1>1, <1>7, <2>1, ReturnQuiet, GoToQuiet, SameRowsQuiet DEF ReadPin, SendIfBound
  <2>2. CASE pins[RowOf(r).logical] # requests[r].seen.managed
    <3> DEFINE q == [requests[r] EXCEPT !.at = "bind", !.wanted = pins[RowOf(r).logical],
                                        !.seen = NoBinding]
    <3>1. q.at = "bind" /\ q.gateway = requests[r].gateway /\ q.fresh = requests[r].fresh
      BY <1>1 DEF SoundRequests, RequestRecords
    <3>2. requests' = [requests EXCEPT ![r] = q]
      BY <1>7, <2>2 DEF ReadPin
    <3> HIDE DEF q
    <3>3. RequestsQuiet
      BY <1>2, <3>1, <3>2, OneRequestQuiet DEF Retiring
    <3> QED
      BY <1>7, <3>3, SameRowsQuiet DEF ReadPin
  <2> QED
    BY <2>1, <2>2
<1>8. CASE StartBinding(r)
  <2>1. requests' = [requests EXCEPT ![r] =
           [requests[r] EXCEPT !.at = "open", !.seen = RowOf(r).binding]]
    BY <1>8 DEF StartBinding
  <2> QED
    BY <1>3, <1>8, <2>1, SameRowsQuiet DEF StartBinding
<1>9. CASE OpenFails(r) \/ SendEnds(r) \/ IssueRefused(r)
  BY <1>9, ReturnQuiet, SameRowsQuiet DEF OpenFails, SendEnds, IssueRefused
<1>10. CASE Reread(r)
  <2> DEFINE q == [requests[r] EXCEPT !.at = "retire", !.seen = RowOf(r).binding]
  <2>1. requests[r].op # "accept"
    BY <1>1, <1>10 DEF Reread, At, SoundRequests
  <2>2. /\ q.op = requests[r].op /\ q.gateway = requests[r].gateway
        /\ q.fresh = requests[r].fresh
    BY <1>1 DEF SoundRequests, RequestRecords
  <2>3. requests' = [requests EXCEPT ![r] = q]
    BY <1>10 DEF Reread
  <2> HIDE DEF q
  <2>4. RequestsQuiet
    BY <1>2, <2>1, <2>2, <2>3, OneRequestQuiet DEF Retiring
  <2> QED
    BY <1>10, <2>4, SameRowsQuiet DEF Reread
<1>11. CASE Retire(r)
  <2>1. CASE requests[r].op = "call" /\ requests[r].seen.managed # None
    <3> DEFINE q == [requests[r] EXCEPT !.at = "send", !.old = None]
    <3>1. q.at = "send" /\ q.gateway = requests[r].gateway /\ q.fresh = requests[r].fresh
      BY <1>1 DEF SoundRequests, RequestRecords
    <3>2. requests' = [requests EXCEPT ![r] = q]
      BY <1>11, <2>1 DEF Retire
    <3> HIDE DEF q
    <3>3. RequestsQuiet
      BY <1>2, <3>1, <3>2, OneRequestQuiet DEF Retiring
    <3> QED
      BY <1>11, <3>3, SameRowsQuiet DEF Retire
  <2>2. CASE ~(requests[r].op = "call" /\ requests[r].seen.managed # None)
    BY <1>11, <2>2, ReturnQuiet, SameRowsQuiet DEF Retire
  <2> QED
    BY <2>1, <2>2
<1>12. CASE SendNotFound(r) \/ TransferRefused(r) \/ ForwardDelete(r)
  BY <1>1, <1>12, GoToQuiet, ReturnQuiet, SameRowsQuiet
     DEF SendNotFound, TransferRefused, ForwardDelete
<1>13. CASE (\E h \in Handoffs : IssueHandoff(r, h)) \/ ReleaseHandoff(r)
  BY <1>13, ReturnQuiet, SameRowsQuiet DEF IssueHandoff, ReleaseHandoff
<1>14. CASE ReserveHandoff(r)
  <2> DEFINE point == IF requests[r].seen.managed = handoffs[requests[r].token].managed
                      THEN "release" ELSE "transfer"
  <2>1. Return(r) \/ requests' = [requests EXCEPT ![r] =
           [requests[r] EXCEPT !.at = point, !.seen = NoBinding]]
    BY <1>14 DEF ReserveHandoff
  <2>2. point # "retire"
    OBVIOUS
  <2> HIDE DEF point
  <2> QED
    BY <1>3, <1>14, <2>1, <2>2, ReturnQuiet, SameRowsQuiet DEF ReserveHandoff
<1> QED
  BY <1>4, <1>5, <1>6, <1>7, <1>8, <1>9, <1>10, <1>11, <1>12, <1>13, <1>14, Zenon DEF QuietSteps

\* The steps that open or write an upstream session.
LEMMA NewTransportUpstreams ==
  ASSUME ShapeInv, Served, UpstreamInv, NEW g \in Gateways, NEW l \in Logicals, NewTransport(g, l)
  PROVE  Served' /\ UpstreamInv'
<1>1. PICK u \in Upstreams :
        /\ Unused(u)
        /\ gateways' = [gateways EXCEPT ![g] =
             [status |-> "connected", logical |-> l, binding |-> Binding(None, Base, u)]]
  BY DEF NewTransport
<1>2. gateways'[g].binding.upstream = u /\ gateways'[g].status = "connected"
  BY <1>1 DEF ShapeInv, Binding
<1>3. \A x \in Gateways \ {g} : gateways'[x] = gateways[x]
  BY <1>1 DEF ShapeInv
<1>4. requests' = requests
  BY DEF NewTransport
<1>5. Served'
  BY <1>2, <1>3, <1>4 DEF Served, ShapeInv, SoundRequests
<1>6. UpstreamInv'
  BY <1>1, <1>2, <1>3, <1>4 DEF UpstreamInv, UpstreamsNotShared, Unused
<1> QED
  BY <1>5, <1>6

LEMMA OpenUpstreams ==
  ASSUME ShapeInv, Served, UpstreamInv, NEW r \in Requests, OpenUpstream(r) \/ Reopen(r)
  PROVE  Served' /\ UpstreamInv'
<1>1. PICK u \in Upstreams, point \in {"write", "rewrite"} :
        /\ Unused(u)
        /\ requests' = [requests EXCEPT ![r] = [requests[r] EXCEPT !.at = point, !.fresh = u]]
  <2>1. CASE OpenUpstream(r)
    BY <2>1 DEF OpenUpstream
  <2>2. CASE Reopen(r)
    BY <2>2 DEF Reopen
  <2> QED
    BY <2>1, <2>2
<1>2. requests[r] \in SoundRequests /\ requests[r].at # "idle"
  BY DEF ShapeInv, OpenUpstream, Reopen, At
<1>3. /\ requests'[r].at = point /\ requests'[r].fresh = u
      /\ requests'[r].gateway = requests[r].gateway
  BY <1>1, <1>2 DEF ShapeInv, SoundRequests, RequestRecords
<1>4. \A q \in Requests \ {r} : requests'[q] = requests[q]
  BY <1>1 DEF ShapeInv
<1>5. gateways' = gateways
  BY DEF OpenUpstream, Reopen
<1>6. Served'
  BY <1>2, <1>3, <1>4, <1>5 DEF Served
<1>7. UpstreamInv'
  BY <1>1, <1>3, <1>4, <1>5 DEF UpstreamInv, UpstreamsNotShared, Unused, Retiring
<1> QED
  BY <1>6, <1>7

\* A request writes the upstream session it has opened to its transport.
LEMMA WriteFresh ==
  ASSUME ShapeInv, Served, UpstreamInv, NEW r \in Requests, requests[r].at # "idle",
         NEW q, NEW row,
         gateways' = [gateways EXCEPT ![requests[r].gateway] = row],
         row.status # "absent", row.binding.upstream = requests[r].fresh,
         requests' = [requests EXCEPT ![r] = q],
         q.at # "idle" => q.gateway = requests[r].gateway,
         q.fresh = None, ~Retiring(q)
  PROVE  Served' /\ UpstreamInv'
<1> DEFINE g == requests[r].gateway
<1>1. g \in Gateways
  BY DEF ShapeInv, SoundRequests
<1>2. gateways'[g] = row /\ \A x \in Gateways \ {g} : gateways'[x] = gateways[x]
  BY <1>1 DEF ShapeInv
<1>3. requests'[r] = q /\ \A p \in Requests \ {r} : requests'[p] = requests[p]
  BY DEF ShapeInv
<1> HIDE DEF g
<1>4. Served'
  <2>1. requests'[r].at # "idle" => gateways'[requests'[r].gateway].status # "absent"
    BY <1>2, <1>3 DEF g
  <2>2. ASSUME NEW p \in Requests \ {r}, requests'[p].at # "idle"
        PROVE  gateways'[requests'[p].gateway].status # "absent"
    BY <1>2, <1>3, <2>2 DEF Served, ShapeInv, SoundRequests
  <2> QED
    BY <2>1, <2>2 DEF Served
<1>5. UpstreamInv'
  BY <1>2, <1>3 DEF UpstreamInv, UpstreamsNotShared
<1> QED
  BY <1>4, <1>5

LEMMA WriteBindingUpstreams ==
  ASSUME ShapeInv, Served, UpstreamInv, NEW r \in Requests, WriteBinding(r)
  PROVE  Served' /\ UpstreamInv'
<1> DEFINE g == requests[r].gateway
           row == [gateways[g] EXCEPT
                     !.binding = Binding(Goal(r), EndpointOf(Goal(r)), requests[r].fresh)]
           q == [requests[r] EXCEPT
                  !.at = IF requests[r].op = "call" THEN "reread" ELSE "retire",
                  !.old = requests[r].seen.upstream, !.seen = NoBinding, !.fresh = None]
<1>1. requests[r] \in SoundRequests /\ requests[r].at = "write"
  BY DEF ShapeInv, WriteBinding, At
<1>2. g \in Gateways /\ requests[r].op # "accept" /\ gateways[g].status # "absent"
  BY <1>1 DEF SoundRequests, Served
<1>3. gateways[g] \in SoundRows
  BY <1>2 DEF ShapeInv
<1>4. row.status # "absent" /\ row.binding.upstream = requests[r].fresh
  BY <1>2, <1>3 DEF SoundRows, GatewayRows, Binding
<1>5. q.gateway = requests[r].gateway /\ q.op = requests[r].op /\ q.fresh = None
  BY <1>1 DEF SoundRequests, RequestRecords
<1>6. gateways' = [gateways EXCEPT ![g] = row] /\ requests' = [requests EXCEPT ![r] = q]
  BY DEF WriteBinding
<1> HIDE DEF row, q
<1> QED
  BY <1>1, <1>2, <1>4, <1>5, <1>6, WriteFresh DEF Retiring

LEMMA WriteUpstreamUpstreams ==
  ASSUME ShapeInv, Served, UpstreamInv, NEW r \in Requests, WriteUpstream(r)
  PROVE  Served' /\ UpstreamInv'
<1> DEFINE g == requests[r].gateway
           b == [gateways[g].binding EXCEPT !.upstream = requests[r].fresh]
           row == [gateways[g] EXCEPT !.status = "connected", !.binding = b]
<1>1. requests[r] \in SoundRequests /\ requests[r].at # "idle"
  BY DEF ShapeInv, WriteUpstream, At
<1>2. gateways[g] \in SoundRows
  BY <1>1 DEF ShapeInv, SoundRequests
<1>3. gateways[g].binding \in Bindings
  BY <1>2 DEF SoundRows, GatewayRows
<1>4. b.upstream = requests[r].fresh
  BY <1>3 DEF Bindings
<1>5. row.status = "connected" /\ row.binding = b
  BY <1>2 DEF SoundRows, GatewayRows
<1>6. Idle.at = "idle" /\ Idle.fresh = None /\ ~Retiring(Idle)
  BY DEF Idle, Retiring
<1>7. gateways' = [gateways EXCEPT ![g] = row] /\ requests' = [requests EXCEPT ![r] = Idle]
  BY DEF WriteUpstream, Return
<1> HIDE DEF row, b
<1> QED
  BY <1>1, <1>4, <1>5, <1>6, <1>7, WriteFresh

LEMMA TransferUpstreams ==
  ASSUME ShapeInv, Served, UpstreamInv, NEW r \in Requests, Transfer(r)
  PROVE  Served' /\ UpstreamInv'
<1> DEFINE h == requests[r].token
           source == handoffs[h].source
           target == handoffs[h].target
           q == [requests[r] EXCEPT !.at = "retire", !.old = gateways[target].binding.upstream]
<1>1. requests[r] \in SoundRequests /\ requests[r].at = "transfer"
  BY DEF Transfer, At, ShapeInv
<1>2. h \in Handoffs /\ requests[r].gateway \in Gateways
  BY <1>1 DEF SoundRequests
<1>3. handoffs[h] \in SoundHandoffs /\ handoffs[h].state = "claiming"
  BY <1>2 DEF ShapeInv, Transfer, Transferable
<1>4. source \in Gateways /\ target \in Gateways /\ source # target
  BY <1>3 DEF SoundHandoffs
<1>5. gateways[source] \in SoundRows /\ gateways[target] \in SoundRows
  BY <1>4 DEF ShapeInv
<1>6. gateways' = [gateways EXCEPT
         ![target] = [gateways[target] EXCEPT !.binding = gateways[source].binding],
         ![source] = [gateways[source] EXCEPT !.status = "closed",
                        !.binding = Binding(None, gateways[source].binding.url, None)]]
  BY <1>4 DEF Transfer
<1>7. /\ gateways'[target].binding.upstream = gateways[source].binding.upstream
      /\ gateways'[target].status = gateways[target].status
  BY <1>4, <1>5, <1>6 DEF ShapeInv, SoundRows, GatewayRows
<1>8. gateways'[source].binding.upstream = None /\ gateways'[source].status = "closed"
  BY <1>4, <1>5, <1>6 DEF ShapeInv, SoundRows, GatewayRows, Binding
<1>9. \A g \in Gateways \ {source, target} : gateways'[g] = gateways[g]
  BY <1>4, <1>6 DEF ShapeInv
<1>10. requests' = [requests EXCEPT ![r] = q]
  BY DEF Transfer
<1>11. /\ q.gateway = requests[r].gateway /\ q.fresh = requests[r].fresh
       /\ q.old = gateways[target].binding.upstream
  BY <1>1 DEF SoundRequests, RequestRecords
<1>12. requests'[r] = q /\ \A p \in Requests \ {r} : requests'[p] = requests[p]
  BY <1>10 DEF ShapeInv
<1> HIDE DEF q, source, target, h
<1>13. Served'
  <2>1. ASSUME NEW g \in Gateways, gateways[g].status # "absent"
        PROVE  gateways'[g].status # "absent"
    BY <1>7, <1>8, <1>9, <2>1
  <2>2. ASSUME NEW p \in Requests, requests'[p].at # "idle"
        PROVE  requests[p].at # "idle" /\ requests'[p].gateway = requests[p].gateway
    BY <1>1, <1>11, <1>12, <2>2
  <2> QED
    BY <2>1, <2>2 DEF Served, ShapeInv, SoundRequests
<1>14. UpstreamsNotShared'
  BY <1>4, <1>7, <1>8, <1>9 DEF UpstreamInv, UpstreamsNotShared
<1>15. \A p \in Requests : requests'[p].fresh = requests[p].fresh
  BY <1>11, <1>12
<1>16. \A g \in Gateways : \E x \in Gateways :
         /\ gateways'[g].binding.upstream \in {None, gateways[x].binding.upstream}
         /\ x # target
  BY <1>4, <1>7, <1>8, <1>9
<1>17. ASSUME NEW p \in Requests, NEW g \in Gateways, requests'[p].fresh # None
       PROVE  gateways'[g].binding.upstream # requests'[p].fresh
  BY <1>15, <1>16, <1>17 DEF UpstreamInv
<1>18. ASSUME NEW p \in Requests, NEW g \in Gateways,
              Retiring(requests'[p]), requests'[p].old # None
       PROVE  gateways'[g].binding.upstream # requests'[p].old
  <2>1. CASE p = r
    BY <1>4, <1>11, <1>12, <1>16, <1>18, <2>1 DEF UpstreamInv, UpstreamsNotShared
  <2>2. CASE p # r
    BY <1>12, <1>16, <1>18, <2>2 DEF UpstreamInv
  <2> QED
    BY <2>1, <2>2
<1>19. ASSUME NEW o \in Requests, NEW p \in Requests,
              Retiring(requests'[p]), requests'[p].old # None
       PROVE  requests'[o].fresh # requests'[p].old
  <2>1. CASE p = r
    BY <1>4, <1>11, <1>12, <1>15, <1>19, <2>1 DEF UpstreamInv
  <2>2. CASE p # r
    BY <1>12, <1>15, <1>19, <2>2 DEF UpstreamInv
  <2> QED
    BY <2>1, <2>2
<1>20. UpstreamInv'
  BY <1>14, <1>15, <1>17, <1>18, <1>19 DEF UpstreamInv
<1> QED
  BY <1>13, <1>20

LEMMA EnvironmentUpstreams ==
  ASSUME ShapeInv, Served, UpstreamInv, ShapeInv', Environment
  PROVE  Served' /\ UpstreamInv'
<1>1. ASSUME NEW g \in Gateways, MarkStale(g) PROVE RowsQuiet
  BY <1>1, StatusQuiet DEF MarkStale
<1>2. UNCHANGED requests => RequestsQuiet
  BY DEF Served, RequestsQuiet
<1>3. Crash => RequestsQuiet
  BY DEF Crash, Idle, RequestsQuiet, Retiring
<1> QED
  BY <1>1, <1>2, <1>3, NewTransportUpstreams, SameRowsQuiet, QuietStep
     DEF Environment, MarkStale, HandoffFallsDue, Crash

GatewayInv == ShapeInv /\ Served /\ UpstreamInv

LEMMA GatewayInit == Init => GatewayInv
<1> SUFFICES ASSUME Init PROVE GatewayInv
  OBVIOUS
<1>1. Served
  BY DEF Init, Served, Idle
<1>2. UpstreamInv
  BY DEF Init, UpstreamInv, UpstreamsNotShared, Retiring, Idle, NoGateway, NoBinding, Binding
<1> QED
  BY <1>1, <1>2, ShapeInit DEF GatewayInv

LEMMA GatewayStep ==
  ASSUME GatewayInv, [Next]_vars
  PROVE  GatewayInv'
<1> USE DEF GatewayInv
<1>1. ShapeInv'
  BY ShapeStep
<1>2. CASE UNCHANGED vars
  BY <1>1, <1>2 DEF vars, Served, UpstreamInv, UpstreamsNotShared
<1>3. CASE Environment
  BY <1>1, <1>3, EnvironmentUpstreams
<1>4. ASSUME NEW r \in Requests, Arrivals(r) PROVE GatewayInv'
  BY <1>1, <1>4, ArrivalsQuiet, QuietStep
<1>5. ASSUME NEW r \in Requests, Step(r) PROVE GatewayInv'
  <2>1. QuietSteps(r) => GatewayInv'
    BY <1>1, QuietStepsQuiet, QuietStep
  <2> QED
    BY <1>1, <1>5, <2>1, OpenUpstreams, WriteBindingUpstreams, WriteUpstreamUpstreams,
       TransferUpstreams, Zenon DEF Step, QuietSteps
<1> QED
  BY <1>2, <1>3, <1>4, <1>5 DEF Next

\* The strengthening that the properties of transports follow from: rows and
\* requests are well formed, a request in progress serves a transport that
\* exists, and upstream sessions have one owner (binding, requests and claims
\* each deal with upstream sessions in several awaited steps).
THEOREM GatewayIsInvariant == Spec => []GatewayInv
  BY GatewayInit, GatewayStep, PTL DEF Spec

-----------------------------------------------------------------------------
(* Who works on which token *)

\* The request has reserved its token.
Claims(q) == q.at \in {"transfer", "release"}

ClaimInv == OneClaimant /\ OneActiveHandoff

\* What a step that touches no token leaves alone.
ClaimsQuiet ==
    \A q \in Requests : Claims(requests'[q]) =>
        /\ Claims(requests[q])
        /\ requests'[q].token = requests[q].token
        /\ requests'[q].gateway = requests[q].gateway

HandoffsQuiet ==
    \A h \in Handoffs :
        /\ handoffs'[h].state = handoffs[h].state
        /\ handoffs'[h].managed = handoffs[h].managed
        /\ handoffs'[h].source = handoffs[h].source
        /\ handoffs'[h].target = handoffs[h].target

LEMMA ClaimTokens ==
  ASSUME ShapeInv, NEW q \in Requests, Claims(requests[q])
  PROVE  requests[q].token \in Handoffs /\ requests[q].gateway \in Gateways
  BY DEF ShapeInv, SoundRequests, Claims

LEMMA QuietClaims ==
  ASSUME ShapeInv, ClaimInv, ClaimsQuiet, HandoffsQuiet
  PROVE  ClaimInv'
<1>1. ASSUME NEW r \in Requests, Claims(requests'[r])
      PROVE  /\ handoffs'[requests'[r].token].state = "claiming"
             /\ handoffs'[requests'[r].token].target = requests'[r].gateway
  BY <1>1, ClaimTokens DEF ClaimInv, OneClaimant, ClaimsQuiet, HandoffsQuiet, Claims
<1>2. ASSUME NEW r \in Requests, NEW q \in Requests \ {r},
             Claims(requests'[r]), Claims(requests'[q])
      PROVE  requests'[q].token # requests'[r].token
  BY <1>2 DEF ClaimInv, OneClaimant, ClaimsQuiet, Claims
<1>3. OneClaimant'
  BY <1>1, <1>2 DEF OneClaimant, Claims
<1>4. OneActiveHandoff'
  BY DEF ClaimInv, OneActiveHandoff, HandoffsQuiet
<1> QED
  BY <1>3, <1>4 DEF ClaimInv

LEMMA OneRequestClaims ==
  ASSUME ShapeInv, NEW r \in Requests, NEW q, requests' = [requests EXCEPT ![r] = q],
         Claims(q) => /\ Claims(requests[r]) /\ q.token = requests[r].token
                      /\ q.gateway = requests[r].gateway
  PROVE  ClaimsQuiet
  BY DEF ShapeInv, ClaimsQuiet

LEMMA ReturnClaims ==
  ASSUME ShapeInv, NEW r \in Requests, Return(r)
  PROVE  ClaimsQuiet
<1>1. ~Claims(Idle)
  BY DEF Idle, Claims
<1> QED
  BY <1>1, OneRequestClaims DEF Return

\* Steps that reserve and settle no token.
PlainSteps(r) ==
    \/ Reuse(r) \/ Touch(r) \/ Load(r) \/ ReadPin(r) \/ StartBinding(r) \/ OpenUpstream(r)
    \/ OpenFails(r) \/ WriteBinding(r) \/ Reread(r) \/ Retire(r) \/ SendEnds(r)
    \/ SendNotFound(r) \/ Reopen(r) \/ ReopenFails(r) \/ WriteUpstream(r) \/ ForwardDelete(r)
    \/ CloseTransport(r) \/ IssueRefused(r) \/ TransferRefused(r)

LEMMA PlainStepsClaims ==
  ASSUME ShapeInv, NEW r \in Requests, PlainSteps(r)
  PROVE  ClaimsQuiet
<1>1. requests[r] \in SoundRequests
  BY DEF ShapeInv
<1>2. CASE Return(r)
  BY <1>2, ReturnClaims
<1>3. ASSUME NEW point, GoTo(r, point), ~(point \in {"transfer", "release"}) \/ Claims(requests[r])
      PROVE  ClaimsQuiet
  <2> DEFINE q == [requests[r] EXCEPT !.at = point]
  <2>1. q.at = point /\ q.gateway = requests[r].gateway /\ q.token = requests[r].token
    BY <1>1 DEF SoundRequests, RequestRecords
  <2>2. requests' = [requests EXCEPT ![r] = q]
    BY <1>3 DEF GoTo
  <2> HIDE DEF q
  <2> QED
    BY <1>3, <2>1, <2>2, OneRequestClaims DEF Claims
<1>4. ASSUME NEW q, requests' = [requests EXCEPT ![r] = q], ~(q.at \in {"transfer", "release"})
      PROVE  ClaimsQuiet
  BY <1>4, OneRequestClaims DEF Claims
<1>5. CASE Touch(r)
  <2>1. ~(FirstRead(requests[r].op) \in {"transfer", "release"})
    BY DEF FirstRead
  <2> QED
    BY <1>3, <1>5, <2>1 DEF Touch
<1>6. CASE Load(r)
  <2> DEFINE q == [requests[r] EXCEPT !.at = AfterRead(requests[r].op), !.seen = RowOf(r).binding]
  <2>1. ~(AfterRead(requests[r].op) \in {"transfer", "release"})
    BY DEF AfterRead
  <2>2. q.at = AfterRead(requests[r].op)
    BY <1>1 DEF SoundRequests, RequestRecords
  <2>3. Return(r) \/ requests' = [requests EXCEPT ![r] = q]
    BY <1>6 DEF Load
  <2> HIDE DEF q
  <2> QED
    BY <1>2, <1>4, <2>1, <2>2, <2>3
<1>7. CASE ReadPin(r)
  <2> DEFINE q == [requests[r] EXCEPT !.at = "bind", !.wanted = pins[RowOf(r).logical],
                                      !.seen = NoBinding]
  <2>1. q.at = "bind"
    BY <1>1 DEF SoundRequests, RequestRecords
  <2>2. Return(r) \/ GoTo(r, "send") \/ requests' = [requests EXCEPT ![r] = q]
    BY <1>7 DEF ReadPin, SendIfBound
  <2> HIDE DEF q
  <2> QED
    BY <1>2, <1>3, <1>4, <2>1, <2>2
<1>8. CASE StartBinding(r)
  <2> DEFINE q == [requests[r] EXCEPT !.at = "open", !.seen = RowOf(r).binding]
  <2>1. q.at = "open" /\ requests' = [requests EXCEPT ![r] = q]
    BY <1>1, <1>8 DEF SoundRequests, RequestRecords, StartBinding
  <2> QED
    BY <1>4, <2>1
<1>9. CASE OpenUpstream(r) \/ Reopen(r)
  <2>1. ASSUME NEW u, NEW point \in {"write", "rewrite"}
        PROVE  [requests[r] EXCEPT !.at = point, !.fresh = u].at = point
    BY <1>1 DEF SoundRequests, RequestRecords
  <2>2. CASE OpenUpstream(r)
    <3>1. PICK u \in Upstreams :
            requests' = [requests EXCEPT ![r] = [requests[r] EXCEPT !.at = "write", !.fresh = u]]
      BY <2>2 DEF OpenUpstream
    <3> QED
      BY <1>4, <2>1, <3>1
  <2>3. CASE Reopen(r)
    <3>1. PICK u \in Upstreams :
            requests' = [requests EXCEPT ![r] = [requests[r] EXCEPT !.at = "rewrite", !.fresh = u]]
      BY <2>3 DEF Reopen
    <3> QED
      BY <1>4, <2>1, <3>1
  <2> QED
    BY <1>9, <2>2, <2>3
<1>10. CASE WriteBinding(r)
  <2> DEFINE q == [requests[r] EXCEPT
                    !.at = IF requests[r].op = "call" THEN "reread" ELSE "retire",
                    !.old = requests[r].seen.upstream, !.seen = NoBinding, !.fresh = None]
  <2>1. q.at = IF requests[r].op = "call" THEN "reread" ELSE "retire"
    BY <1>1 DEF SoundRequests, RequestRecords
  <2>2. requests' = [requests EXCEPT ![r] = q]
    BY <1>10 DEF WriteBinding
  <2> HIDE DEF q
  <2> QED
    BY <1>4, <2>1, <2>2
<1>11. CASE Reread(r)
  <2> DEFINE q == [requests[r] EXCEPT !.at = "retire", !.seen = RowOf(r).binding]
  <2>1. q.at = "retire" /\ requests' = [requests EXCEPT ![r] = q]
    BY <1>1, <1>11 DEF SoundRequests, RequestRecords, Reread
  <2> QED
    BY <1>4, <2>1
<1>12. CASE Retire(r)
  <2> DEFINE q == [requests[r] EXCEPT !.at = "send", !.old = None]
  <2>1. q.at = "send"
    BY <1>1 DEF SoundRequests, RequestRecords
  <2>2. Return(r) \/ requests' = [requests EXCEPT ![r] = q]
    BY <1>12 DEF Retire
  <2> QED
    BY <1>2, <1>4, <2>1, <2>2
<1>13. CASE SendNotFound(r) \/ ForwardDelete(r)
  BY <1>2, <1>3, <1>13 DEF SendNotFound, ForwardDelete
<1>14. CASE TransferRefused(r)
  BY <1>3, <1>14 DEF TransferRefused, At, Claims
<1>15. CASE Reuse(r) \/ OpenFails(r) \/ SendEnds(r) \/ ReopenFails(r) \/ WriteUpstream(r)
            \/ CloseTransport(r) \/ IssueRefused(r)
  BY <1>2, <1>15 DEF Reuse, OpenFails, SendEnds, ReopenFails, WriteUpstream, CloseTransport,
     IssueRefused
<1> QED
  BY <1>5, <1>6, <1>7, <1>8, <1>9, <1>10, <1>11, <1>12, <1>13, <1>14, <1>15, Zenon DEF PlainSteps

LEMMA PlainStepsHandoffs ==
  ASSUME NEW r \in Requests, PlainSteps(r)
  PROVE  UNCHANGED handoffs
  BY DEF PlainSteps, Reuse, Touch, Load, ReadPin, StartBinding, OpenUpstream, OpenFails,
     WriteBinding, Reread, Retire, SendEnds, SendNotFound, Reopen, ReopenFails, WriteUpstream,
     ForwardDelete, CloseTransport, IssueRefused, TransferRefused

LEMMA ArrivalsClaims ==
  ASSUME ShapeInv, NEW r \in Requests, Arrivals(r)
  PROVE  ClaimsQuiet /\ UNCHANGED handoffs
<1>1. PICK g \in Gateways : FindReusable(r, g) \/ Arrive(r, g) \/ ArriveApi(r, g)
  BY DEF Arrivals
<1>2. CASE FindReusable(r, g)
  <2> DEFINE q == [Idle EXCEPT !.at = "reuse", !.op = "initialize", !.gateway = g]
  <2>1. ~Claims(q) /\ requests' = [requests EXCEPT ![r] = q]
    BY <1>2 DEF Idle, Claims, FindReusable
  <2> QED
    BY <1>2, <2>1, OneRequestClaims DEF FindReusable
<1>3. ASSUME NEW point \in {"touch", "bind", "load"}, NEW op, NEW m, NEW h,
             Begin(r, point, op, g, m, h)
      PROVE  ClaimsQuiet /\ UNCHANGED handoffs
  <2> DEFINE q == [Idle EXCEPT !.at = point, !.op = op, !.gateway = g, !.wanted = m, !.token = h]
  <2>1. ~Claims(q)
    BY DEF Idle, Claims
  <2>2. requests' = [requests EXCEPT ![r] = q]
    BY <1>3 DEF Begin
  <2> HIDE DEF q
  <2> QED
    BY <1>3, <2>1, <2>2, OneRequestClaims DEF Begin
<1>4. \A op : FirstRead(op) \in {"touch", "bind", "load"}
  BY DEF FirstRead
<1> QED
  BY <1>1, <1>2, <1>3, <1>4 DEF Arrive, ArriveApi

\* The token of a handoff, as ImplementsClaimToken maps it.
TokenOf(h) ==
    [state |-> TokenState(h.state), session |-> h.managed, from |-> h.source, to |-> h.target]

TokenTable == [h \in Handoffs |-> TokenOf(handoffs[h])]

\* One step of the claim token.
TokenStep == Token!Next \/ UNCHANGED TokenTable

LEMMA TokenStates ==
  \A state \in HandoffStates :
    /\ TokenState(state) = "unissued" <=> state = "absent"
    /\ TokenState(state) = "live" <=> state = "pending"
    /\ TokenState(state) = "reserved" <=> state = "claiming"
    /\ state = "claimed" => TokenState(state) = "spent"
    /\ state \in {"expired", "superseded"} => TokenState(state) = "void"
  BY DEF HandoffStates, TokenState

LEMMA HandoffTypes ==
  ASSUME ShapeInv, NEW h \in Handoffs
  PROVE  handoffs[h] \in HandoffRows /\ handoffs[h].state \in HandoffStates
  BY DEF ShapeInv, SoundHandoffs, HandoffRows

LEMMA QuietTokens ==
  ASSUME HandoffsQuiet
  PROVE  UNCHANGED TokenTable
  BY DEF HandoffsQuiet, TokenTable, TokenOf

LEMMA TokenRows ==
  ASSUME ShapeInv, NEW x \in Handoffs
  PROVE  /\ TokenTable[x] = TokenOf(handoffs[x])
         /\ TokenTable[x].session = handoffs[x].managed
         /\ TokenTable[x].from = handoffs[x].source
         /\ TokenTable[x].state = "live" <=> handoffs[x].state = "pending"
         /\ TokenTable[x].state = "reserved" <=> handoffs[x].state = "claiming"
<1>1. TokenTable[x] = TokenOf(handoffs[x])
  BY DEF TokenTable
<1>2. TokenTable[x].state = TokenState(handoffs[x].state)
  BY <1>1 DEF TokenOf
<1>3. TokenTable[x].session = handoffs[x].managed /\ TokenTable[x].from = handoffs[x].source
  BY <1>1 DEF TokenOf
<1>4. handoffs[x].state \in HandoffStates
  BY HandoffTypes
<1> QED
  BY <1>1, <1>2, <1>3, <1>4, TokenStates

\* The actions of the claim token, on the mapped table.
LEMMA TokenReserved ==
  ASSUME NEW s
  PROVE  Token!Reserved(s) <=>
           \E t \in Handoffs : TokenTable[t].session = s /\ TokenTable[t].state = "reserved"
  BY DEF Token!Reserved, TokenTable, TokenOf

LEMMA TokenIssue ==
  ASSUME NEW t, NEW s, NEW p, TokenTable[t] = Token!Unissued, ~Token!Reserved(s),
         TokenTable' = [x \in Handoffs |->
           IF x = t THEN [state |-> "live", session |-> s, from |-> p, to |-> None]
           ELSE IF TokenTable[x].session = s /\ TokenTable[x].state = "live"
                THEN [TokenTable[x] EXCEPT !.state = "void"]
                ELSE TokenTable[x]]
  PROVE  Token!Issue(t, s, p)
  BY Zenon DEF Token!Issue, TokenTable, TokenOf

LEMMA TokenReserve ==
  ASSUME NEW t, NEW p, TokenTable[t].state = "live", TokenTable[t].from # p,
         TokenTable' = [TokenTable EXCEPT ![t].state = "reserved", ![t].to = p]
  PROVE  Token!Reserve(t, p)
  BY Zenon DEF Token!Reserve, TokenTable, TokenOf

LEMMA TokenGiveBack ==
  ASSUME NEW t, TokenTable[t].state = "reserved",
         TokenTable' = [TokenTable EXCEPT ![t].state = "live", ![t].to = None]
  PROVE  Token!GiveBack(t)
  BY Zenon DEF Token!GiveBack, TokenTable, TokenOf

LEMMA TokenSpend ==
  ASSUME NEW t, TokenTable[t].state = "reserved",
         TokenTable' = [TokenTable EXCEPT ![t].state = "spent"]
  PROVE  Token!Spend(t)
  BY Zenon DEF Token!Spend, TokenTable, TokenOf

LEMMA IssueClaims ==
  ASSUME ShapeInv, ClaimInv, NEW r \in Requests, NEW h \in Handoffs, IssueHandoff(r, h)
  PROVE  ClaimInv' /\ TokenStep
<1>1. requests[r] \in SoundRequests /\ requests[r].gateway \in Gateways
  BY DEF IssueHandoff, At, ShapeInv, SoundRequests
<1>2. requests[r].seen.managed \in Sessions
  <2>1. requests[r].seen \in Bindings
    BY <1>1 DEF SoundRequests, RequestRecords
  <2> QED
    BY <2>1 DEF Bindings, IssueHandoff
<1> PICK m \in Sessions, g \in Gateways : m = requests[r].seen.managed /\ g = requests[r].gateway
  BY <1>1, <1>2
<1> DEFINE new == [NoHandoff EXCEPT !.state = "pending", !.managed = m, !.source = g]
           gone(x) == [handoffs[x] EXCEPT
                         !.state = IF handoffs[x].due THEN "expired" ELSE "superseded"]
           voided(x) == handoffs[x].managed = m /\ handoffs[x].state = "pending"
<1>3. handoffs[h] = NoHandoff /\ ~Claiming(m)
  BY DEF IssueHandoff
<1>4. handoffs' = [x \in Handoffs |->
         IF x = h THEN new ELSE IF voided(x) THEN gone(x) ELSE handoffs[x]]
  BY DEF IssueHandoff
<1>5. /\ new.state = "pending" /\ new.managed = m /\ new.source = g /\ new.target = None
  BY DEF NoHandoff
<1>6. \A x \in Handoffs :
         /\ gone(x).state \in {"expired", "superseded"}
         /\ gone(x).managed = handoffs[x].managed
         /\ gone(x).source = handoffs[x].source
         /\ gone(x).target = handoffs[x].target
  BY HandoffTypes DEF HandoffRows
<1>7. handoffs'[h] = new
  BY <1>4
<1>8. \A x \in Handoffs \ {h} : handoffs'[x] = IF voided(x) THEN gone(x) ELSE handoffs[x]
  BY <1>4
<1> HIDE DEF new, gone
<1>9. handoffs[h].state = "absent"
  BY <1>3 DEF NoHandoff
<1>10. ClaimsQuiet
  BY ReturnClaims DEF IssueHandoff
<1>11. OneClaimant'
  <2>1. ASSUME NEW q \in Requests, Claims(requests'[q])
        PROVE  /\ handoffs'[requests'[q].token].state = "claiming"
               /\ handoffs'[requests'[q].token].target = requests'[q].gateway
    <3>1. /\ Claims(requests[q]) /\ requests'[q].token = requests[q].token
          /\ requests'[q].gateway = requests[q].gateway
      BY <1>10, <2>1 DEF ClaimsQuiet
    <3>2. /\ handoffs[requests[q].token].state = "claiming"
          /\ handoffs[requests[q].token].target = requests[q].gateway
      BY <3>1 DEF ClaimInv, OneClaimant, Claims
    <3>3. requests[q].token \in Handoffs \ {h}
      BY <1>9, <3>1, <3>2, ClaimTokens
    <3> QED
      BY <1>8, <3>1, <3>2, <3>3
  <2>2. ASSUME NEW p \in Requests, NEW q \in Requests \ {p},
               Claims(requests'[p]), Claims(requests'[q])
        PROVE  requests'[q].token # requests'[p].token
    BY <1>10, <2>2 DEF ClaimInv, OneClaimant, ClaimsQuiet, Claims
  <2> QED
    BY <2>1, <2>2 DEF OneClaimant, Claims
<1>12. \A x \in Handoffs \ {h} :
          handoffs'[x].state \in {"pending", "claiming"} =>
             handoffs'[x] = handoffs[x] /\ handoffs[x].managed # m
  BY <1>3, <1>6, <1>8 DEF Claiming
<1>13. OneActiveHandoff'
  BY <1>5, <1>7, <1>12 DEF ClaimInv, OneActiveHandoff
<1>14. Token!Issue(h, m, g)
  <2>1. \A x \in Handoffs : TokenTable[x] = TokenOf(handoffs[x])
    BY TokenRows
  <2>2. TokenTable[h] = Token!Unissued
    BY <1>3, <2>1 DEF TokenOf, NoHandoff, TokenState, Token!Unissued
  <2>3. ~Token!Reserved(m)
    BY <1>3, TokenRows, TokenReserved DEF Claiming
  <2>4. ASSUME NEW x \in Handoffs
        PROVE  TokenOf(handoffs'[x]) =
                 IF x = h THEN [state |-> "live", session |-> m, from |-> g, to |-> None]
                 ELSE IF TokenTable[x].session = m /\ TokenTable[x].state = "live"
                      THEN [TokenTable[x] EXCEPT !.state = "void"]
                      ELSE TokenTable[x]
    <3>1. CASE x = h
      BY <1>5, <1>7, <3>1 DEF TokenOf, TokenState
    <3>2. CASE x # h /\ voided(x)
      <4>1. TokenTable[x].session = m /\ TokenTable[x].state = "live"
        BY <3>2, TokenRows
      <4>2. TokenState(handoffs'[x].state) = "void"
        BY <1>6, <1>8, <3>2, TokenStates DEF TokenState
      <4>3. /\ handoffs'[x].managed = handoffs[x].managed
            /\ handoffs'[x].source = handoffs[x].source
            /\ handoffs'[x].target = handoffs[x].target
        BY <1>6, <1>8, <3>2
      <4>4. TokenOf(handoffs'[x]) = [TokenOf(handoffs[x]) EXCEPT !.state = "void"]
        BY <4>2, <4>3 DEF TokenOf
      <4> QED
        BY <2>1, <3>2, <4>1, <4>4
    <3>3. CASE x # h /\ ~voided(x)
      <4>1. ~(TokenTable[x].session = m /\ TokenTable[x].state = "live")
        BY <3>3, TokenRows
      <4> QED
        BY <1>8, <2>1, <3>3, <4>1
    <3> QED
      BY <3>1, <3>2, <3>3
  <2>5. TokenTable' = [x \in Handoffs |-> TokenOf(handoffs'[x])]
    BY DEF TokenTable, TokenOf
  <2>6. TokenTable' = [x \in Handoffs |->
           IF x = h THEN [state |-> "live", session |-> m, from |-> g, to |-> None]
           ELSE IF TokenTable[x].session = m /\ TokenTable[x].state = "live"
                THEN [TokenTable[x] EXCEPT !.state = "void"]
                ELSE TokenTable[x]]
    BY <2>4, <2>5, Zenon
  <2> QED
    BY <2>2, <2>3, <2>6, TokenIssue
<1>15. Token!Next
  BY <1>14 DEF Token!Next
<1> QED
  BY <1>11, <1>13, <1>15 DEF ClaimInv, TokenStep

LEMMA ReserveClaims ==
  ASSUME ShapeInv, ClaimInv, NEW r \in Requests, ReserveHandoff(r)
  PROVE  ClaimInv' /\ TokenStep
<1>1. requests[r] \in SoundRequests /\ requests[r].at = "reserve"
  BY DEF ReserveHandoff, At, ShapeInv
<1>2. requests[r].gateway \in Gateways /\ requests[r].token \in Handoffs
  BY <1>1 DEF SoundRequests
<1> PICK h \in Handoffs, g \in Gateways : h = requests[r].token /\ g = requests[r].gateway
  BY <1>2
<1>3. CASE ~Claimable(h, g)
  <2>1. Return(r) /\ UNCHANGED handoffs
    BY <1>3 DEF ReserveHandoff
  <2> QED
    BY <2>1, ReturnClaims, QuietClaims, QuietTokens DEF HandoffsQuiet, TokenStep
<1>4. CASE Claimable(h, g)
  <2> DEFINE taken == [handoffs[h] EXCEPT !.state = "claiming", !.target = g]
             point == IF requests[r].seen.managed = handoffs[h].managed
                      THEN "release" ELSE "transfer"
             q == [requests[r] EXCEPT !.at = point, !.seen = NoBinding]
  <2>1. handoffs' = [handoffs EXCEPT ![h] = taken] /\ requests' = [requests EXCEPT ![r] = q]
    BY <1>4 DEF ReserveHandoff
  <2>2. /\ taken.state = "claiming" /\ taken.target = g
        /\ taken.managed = handoffs[h].managed /\ taken.source = handoffs[h].source
    BY HandoffTypes DEF HandoffRows
  <2>3. q.token = h /\ q.gateway = g
    BY <1>1 DEF SoundRequests, RequestRecords
  <2>4. handoffs[h].state = "pending" /\ handoffs[h].source # g
    BY <1>4 DEF Claimable
  <2> HIDE DEF taken, q
  <2>5. handoffs'[h] = taken /\ \A x \in Handoffs \ {h} : handoffs'[x] = handoffs[x]
    BY <2>1 DEF ShapeInv
  <2>6. requests'[r] = q /\ \A p \in Requests \ {r} : requests'[p] = requests[p]
    BY <2>1 DEF ShapeInv
  <2>7. ASSUME NEW p \in Requests \ {r}, Claims(requests[p])
        PROVE  requests[p].token \in Handoffs \ {h}
    <3>1. handoffs[requests[p].token].state = "claiming"
      BY <2>7 DEF ClaimInv, OneClaimant, Claims
    <3> QED
      BY <2>4, <2>7, <3>1, ClaimTokens
  <2>8. ASSUME NEW p \in Requests, Claims(requests'[p])
        PROVE  /\ handoffs'[requests'[p].token].state = "claiming"
               /\ handoffs'[requests'[p].token].target = requests'[p].gateway
    <3>1. CASE p = r
      BY <2>2, <2>3, <2>5, <2>6, <3>1
    <3>2. CASE p # r
      BY <2>5, <2>6, <2>7, <2>8, <3>2 DEF ClaimInv, OneClaimant, Claims
    <3> QED
      BY <3>1, <3>2
  <2>9. ASSUME NEW p \in Requests, NEW o \in Requests \ {p},
               Claims(requests'[p]), Claims(requests'[o])
        PROVE  requests'[o].token # requests'[p].token
    BY <2>3, <2>6, <2>7, <2>9 DEF ClaimInv, OneClaimant, Claims
  <2>10. OneClaimant'
    BY <2>8, <2>9 DEF OneClaimant, Claims
  <2>11. OneActiveHandoff'
    BY <2>2, <2>4, <2>5 DEF ClaimInv, OneActiveHandoff
  <2>12. TokenTable' = [TokenTable EXCEPT ![h].state = "reserved", ![h].to = g]
    <3>1. TokenTable' = [x \in Handoffs |-> TokenOf(handoffs'[x])]
      BY DEF TokenTable, TokenOf
    <3>2. TokenTable = [x \in Handoffs |-> TokenOf(handoffs[x])]
      BY DEF TokenTable
    <3>3. TokenOf(taken) = [TokenOf(handoffs[h]) EXCEPT !.state = "reserved", !.to = g]
      <4>1. TokenState(taken.state) = "reserved"
        BY <2>2 DEF TokenState
      <4>2. TokenOf(taken) = [state |-> "reserved", session |-> handoffs[h].managed,
                              from |-> handoffs[h].source, to |-> g]
        BY <2>2, <4>1, Zenon DEF TokenOf
      <4> DEFINE moved == [state |-> "reserved", session |-> handoffs[h].managed,
                         from |-> handoffs[h].source, to |-> handoffs[h].target]
      <4>3. [TokenOf(handoffs[h]) EXCEPT !.state = "reserved"] = moved
        BY DEF TokenOf
      <4>4. [moved EXCEPT !.to = g] = TokenOf(taken)
        BY <4>2
      <4>5. [TokenOf(handoffs[h]) EXCEPT !.state = "reserved", !.to = g]
            = [[TokenOf(handoffs[h]) EXCEPT !.state = "reserved"] EXCEPT !.to = g]
        OBVIOUS
      <4> HIDE DEF moved
      <4> QED
        BY <4>3, <4>4, <4>5, Zenon
    <3> HIDE DEF TokenTable
    <3>4. TokenTable' = [TokenTable EXCEPT ![h] =
             [TokenOf(handoffs[h]) EXCEPT !.state = "reserved", !.to = g]]
      BY <2>5, <3>1, <3>2, <3>3
    <3>5. TokenTable[h] = TokenOf(handoffs[h])
      BY <3>2
    <3> QED
      BY <3>4, <3>5
  <2>13. Token!Reserve(h, g)
    BY <2>4, <2>12, TokenRows, TokenReserve
  <2>14. Token!Next
    BY <2>13 DEF Token!Next
  <2> QED
    BY <2>10, <2>11, <2>14 DEF ClaimInv, TokenStep
<1> QED
  BY <1>3, <1>4

\* A claimant settles its token: it is spent, or goes back.
LEMMA SettleClaims ==
  ASSUME ShapeInv, ClaimInv, NEW r \in Requests, Claims(requests[r]),
         NEW h \in Handoffs, h = requests[r].token,
         NEW row, row.managed = handoffs[h].managed, row.state # "claiming",
         handoffs' = [handoffs EXCEPT ![h] = row],
         NEW q, ~Claims(q), requests' = [requests EXCEPT ![r] = q]
  PROVE  ClaimInv'
<1>1. handoffs'[h] = row /\ \A x \in Handoffs \ {h} : handoffs'[x] = handoffs[x]
  BY DEF ShapeInv
<1>2. requests'[r] = q /\ \A p \in Requests \ {r} : requests'[p] = requests[p]
  BY DEF ShapeInv
<1>3. handoffs[h].state = "claiming"
  BY DEF ClaimInv, OneClaimant, Claims
<1>4. ASSUME NEW p \in Requests, Claims(requests'[p])
      PROVE  /\ p # r /\ requests'[p] = requests[p]
             /\ requests[p].token \in Handoffs \ {h}
  <2>1. p # r /\ requests'[p] = requests[p]
    BY <1>2, <1>4
  <2>2. requests[p].token # h
    BY <1>4, <2>1 DEF ClaimInv, OneClaimant, Claims
  <2> QED
    BY <1>4, <2>1, <2>2, ClaimTokens
<1>5. ASSUME NEW p \in Requests, Claims(requests'[p])
      PROVE  /\ handoffs'[requests'[p].token].state = "claiming"
             /\ handoffs'[requests'[p].token].target = requests'[p].gateway
  BY <1>1, <1>4, <1>5 DEF ClaimInv, OneClaimant, Claims
<1>6. ASSUME NEW p \in Requests, NEW o \in Requests \ {p},
             Claims(requests'[p]), Claims(requests'[o])
      PROVE  requests'[o].token # requests'[p].token
  BY <1>4, <1>6 DEF ClaimInv, OneClaimant, Claims
<1>7. OneClaimant'
  BY <1>5, <1>6 DEF OneClaimant, Claims
<1>8. OneActiveHandoff'
  BY <1>1, <1>3 DEF ClaimInv, OneActiveHandoff
<1> QED
  BY <1>7, <1>8 DEF ClaimInv

LEMMA TransferClaims ==
  ASSUME ShapeInv, ClaimInv, NEW r \in Requests, Transfer(r)
  PROVE  ClaimInv' /\ TokenStep
<1>1. requests[r] \in SoundRequests /\ Claims(requests[r])
  BY DEF Transfer, At, ShapeInv, Claims
<1>2. PICK h \in Handoffs : h = requests[r].token
  BY <1>1, ClaimTokens
<1> DEFINE row == [handoffs[h] EXCEPT !.state = "claimed"]
           q == [requests[r] EXCEPT !.at = "retire",
                   !.old = gateways[handoffs[h].target].binding.upstream]
<1>3. handoffs[h].state = "claiming"
  BY <1>2 DEF Transfer, Transferable
<1>4. /\ row.state = "claimed" /\ row.managed = handoffs[h].managed
      /\ row.source = handoffs[h].source /\ row.target = handoffs[h].target
  BY HandoffTypes DEF HandoffRows
<1>5. ~Claims(q)
  BY <1>1 DEF SoundRequests, RequestRecords, Claims
<1>6. handoffs' = [handoffs EXCEPT ![h] = row] /\ requests' = [requests EXCEPT ![r] = q]
  BY <1>2 DEF Transfer
<1> HIDE DEF row, q
<1>7. ClaimInv'
  BY <1>1, <1>2, <1>4, <1>5, <1>6, SettleClaims
<1>8. TokenTable' = [TokenTable EXCEPT ![h].state = "spent"]
  <2>1. TokenTable' = [x \in Handoffs |-> TokenOf(handoffs'[x])]
    BY DEF TokenTable, TokenOf
  <2>2. TokenTable = [x \in Handoffs |-> TokenOf(handoffs[x])]
    BY DEF TokenTable
  <2>3. TokenOf(row) = [TokenOf(handoffs[h]) EXCEPT !.state = "spent"]
    BY <1>4 DEF TokenOf, TokenState
  <2>4. handoffs'[h] = row /\ \A x \in Handoffs \ {h} : handoffs'[x] = handoffs[x]
    BY <1>6 DEF ShapeInv
  <2>5. TokenTable' = [TokenTable EXCEPT ![h] = [TokenOf(handoffs[h]) EXCEPT !.state = "spent"]]
    BY <2>1, <2>2, <2>3, <2>4
  <2>6. TokenTable[h] = TokenOf(handoffs[h])
    BY <2>2
  <2> QED
    BY <2>5, <2>6
<1>9. Token!Spend(h)
  BY <1>3, <1>8, TokenRows, TokenSpend
<1>10. Token!Next
  BY <1>9 DEF Token!Next
<1> QED
  BY <1>7, <1>10 DEF TokenStep

LEMMA ReleaseClaims ==
  ASSUME ShapeInv, ClaimInv, NEW r \in Requests, ReleaseHandoff(r)
  PROVE  ClaimInv' /\ TokenStep
<1>1. requests[r] \in SoundRequests /\ Claims(requests[r])
  BY DEF ReleaseHandoff, At, ShapeInv, Claims
<1>2. PICK h \in Handoffs : h = requests[r].token
  BY <1>1, ClaimTokens
<1> DEFINE row == [handoffs[h] EXCEPT !.state = "pending", !.target = None]
<1>3. handoffs[h].state = "claiming"
  BY <1>1, <1>2 DEF ClaimInv, OneClaimant, Claims
<1>4. /\ row.state = "pending" /\ row.managed = handoffs[h].managed
      /\ row.source = handoffs[h].source /\ row.target = None
  BY HandoffTypes DEF HandoffRows
<1>5. ~Claims(Idle)
  BY DEF Idle, Claims
<1>6. handoffs' = [handoffs EXCEPT ![h] = row] /\ requests' = [requests EXCEPT ![r] = Idle]
  BY <1>2, <1>3 DEF ReleaseHandoff, Return
<1> HIDE DEF row
<1>7. ClaimInv'
  BY <1>1, <1>2, <1>4, <1>5, <1>6, SettleClaims
<1>8. TokenTable' = [TokenTable EXCEPT ![h].state = "live", ![h].to = None]
  <2>1. TokenTable' = [x \in Handoffs |-> TokenOf(handoffs'[x])]
    BY DEF TokenTable, TokenOf
  <2>2. TokenTable = [x \in Handoffs |-> TokenOf(handoffs[x])]
    BY DEF TokenTable
  <2>3. TokenOf(row) = [TokenOf(handoffs[h]) EXCEPT !.state = "live", !.to = None]
    <3>1. TokenState(row.state) = "live"
      BY <1>4 DEF TokenState
    <3>2. TokenOf(row) = [state |-> "live", session |-> handoffs[h].managed,
                          from |-> handoffs[h].source, to |-> None]
      BY <1>4, <3>1, Zenon DEF TokenOf
    <3> DEFINE moved == [state |-> "live", session |-> handoffs[h].managed,
                       from |-> handoffs[h].source, to |-> handoffs[h].target]
    <3>3. [TokenOf(handoffs[h]) EXCEPT !.state = "live"] = moved
      BY DEF TokenOf
    <3>4. [moved EXCEPT !.to = None] = TokenOf(row)
      BY <3>2
    <3>5. [TokenOf(handoffs[h]) EXCEPT !.state = "live", !.to = None]
          = [[TokenOf(handoffs[h]) EXCEPT !.state = "live"] EXCEPT !.to = None]
      OBVIOUS
    <3> HIDE DEF moved
    <3> QED
      BY <3>3, <3>4, <3>5, Zenon
  <2>4. handoffs'[h] = row /\ \A x \in Handoffs \ {h} : handoffs'[x] = handoffs[x]
    BY <1>6 DEF ShapeInv
  <2>5. TokenTable' = [TokenTable EXCEPT ![h] =
           [TokenOf(handoffs[h]) EXCEPT !.state = "live", !.to = None]]
    BY <2>1, <2>2, <2>3, <2>4
  <2>6. TokenTable[h] = TokenOf(handoffs[h])
    BY <2>2
  <2> QED
    BY <2>5, <2>6
<1>9. Token!GiveBack(h)
  BY <1>3, <1>8, TokenRows, TokenGiveBack
<1>10. Token!Next
  BY <1>9 DEF Token!Next
<1> QED
  BY <1>7, <1>10 DEF TokenStep

LEMMA EnvironmentQuiet ==
  ASSUME ShapeInv, Environment
  PROVE  ClaimsQuiet /\ HandoffsQuiet
<1>1. ClaimsQuiet
  BY DEF Environment, NewTransport, MarkStale, HandoffFallsDue, Crash, ClaimsQuiet, Claims, Idle
<1>2. HandoffsQuiet
  <2>1. ASSUME NEW h \in Handoffs, HandoffFallsDue(h) PROVE HandoffsQuiet
    <3> DEFINE row == [handoffs[h] EXCEPT !.due = TRUE]
    <3>1. /\ row.state = handoffs[h].state /\ row.managed = handoffs[h].managed
          /\ row.source = handoffs[h].source /\ row.target = handoffs[h].target
      BY HandoffTypes DEF HandoffRows
    <3>2. handoffs' = [handoffs EXCEPT ![h] = row]
      BY <2>1 DEF HandoffFallsDue
    <3> HIDE DEF row
    <3> QED
      BY <3>1, <3>2 DEF HandoffsQuiet, ShapeInv
  <2>2. UNCHANGED handoffs => HandoffsQuiet
    BY DEF HandoffsQuiet
  <2> QED
    BY <2>1, <2>2 DEF Environment, NewTransport, MarkStale, Crash
<1> QED
  BY <1>1, <1>2

LEMMA EnvironmentClaims ==
  ASSUME ShapeInv, ClaimInv, Environment
  PROVE  ClaimInv' /\ TokenStep
  BY EnvironmentQuiet, QuietClaims, QuietTokens DEF TokenStep

LEMMA ClaimStep ==
  ASSUME ShapeInv, ClaimInv, [Next]_vars
  PROVE  ClaimInv' /\ TokenStep
<1>1. UNCHANGED handoffs => HandoffsQuiet
  BY DEF HandoffsQuiet
<1>2. CASE UNCHANGED vars
  BY <1>1, <1>2, QuietClaims, QuietTokens DEF vars, ClaimsQuiet, TokenStep
<1>3. CASE Environment
  BY <1>3, EnvironmentClaims
<1>4. ASSUME NEW r \in Requests, Arrivals(r) PROVE ClaimInv' /\ TokenStep
  BY <1>1, <1>4, ArrivalsClaims, QuietClaims, QuietTokens DEF TokenStep
<1>5. ASSUME NEW r \in Requests, Step(r) PROVE ClaimInv' /\ TokenStep
  <2>1. PlainSteps(r) => ClaimInv' /\ TokenStep
    BY <1>1, PlainStepsClaims, PlainStepsHandoffs, QuietClaims, QuietTokens DEF TokenStep
  <2> QED
    BY <1>5, <2>1, IssueClaims, ReserveClaims, TransferClaims, ReleaseClaims, Zenon
       DEF Step, PlainSteps
<1> QED
  BY <1>2, <1>3, <1>4, <1>5 DEF Next

LEMMA ClaimInit == Init => ClaimInv /\ Token!Init
<1> SUFFICES ASSUME Init PROVE ClaimInv /\ Token!Init
  OBVIOUS
<1>1. OneClaimant
  BY DEF Init, OneClaimant, Idle
<1>2. OneActiveHandoff
  BY DEF Init, OneActiveHandoff, NoHandoff
<1>3. Token!Init
  BY DEF Init, Token!Init, Token!Unissued, NoHandoff, TokenState
<1> QED
  BY <1>1, <1>2, <1>3 DEF ClaimInv

-----------------------------------------------------------------------------
(* A claim that was cut off *)

LEMMA QuietCutOff ==
  ASSUME ClaimsQuiet, HandoffsQuiet, NEW h \in Handoffs, CutOff(h)
  PROVE  CutOff(h)' /\ handoffs'[h].managed = handoffs[h].managed
  BY DEF ClaimsQuiet, HandoffsQuiet, Claims, CutOff

\* Settling a token is its claimant's, and reserving one takes a live one.
LEMMA ActiveStepCutOff ==
  ASSUME ShapeInv, ClaimInv, NEW r \in Requests, NEW h \in Handoffs, CutOff(h),
         \/ \E x \in Handoffs : IssueHandoff(r, x)
         \/ ReserveHandoff(r) \/ Transfer(r) \/ ReleaseHandoff(r)
  PROVE  CutOff(h)' /\ handoffs'[h].managed = handoffs[h].managed
<1> DEFINE t == requests[r].token
<1>1. requests[r] \in SoundRequests /\ handoffs[h].state = "claiming"
  BY DEF ShapeInv, CutOff
<1>2. ASSUME handoffs'[h] = handoffs[h],
             NEW q, requests' = [requests EXCEPT ![r] = q], Claims(q) => q.token # h
      PROVE  CutOff(h)' /\ handoffs'[h].managed = handoffs[h].managed
  BY <1>2 DEF CutOff, Claims, ShapeInv
<1>3. ~Claims(Idle)
  BY DEF Idle, Claims
<1>4. CASE \E x \in Handoffs : IssueHandoff(r, x)
  <2>1. PICK x \in Handoffs : IssueHandoff(r, x)
    BY <1>4
  <2>2. handoffs'[h] = handoffs[h]
    BY <1>1, <2>1 DEF IssueHandoff, NoHandoff
  <2>3. requests' = [requests EXCEPT ![r] = Idle]
    BY <2>1 DEF IssueHandoff, Return
  <2> QED
    BY <1>2, <1>3, <2>2, <2>3
<1>5. CASE ReserveHandoff(r)
  <2>1. CASE Claimable(t, requests[r].gateway)
    <3> DEFINE q == [requests[r] EXCEPT
                !.at = IF requests[r].seen.managed = handoffs[t].managed
                       THEN "release" ELSE "transfer",
                !.seen = NoBinding]
    <3>1. /\ handoffs' = [handoffs EXCEPT ![t].state = "claiming",
                                          ![t].target = requests[r].gateway]
          /\ requests' = [requests EXCEPT ![r] = q]
      BY <1>5, <2>1 DEF ReserveHandoff
    <3>2. q.token = t
      BY <1>1 DEF SoundRequests, RequestRecords
    <3> HIDE DEF q
    <3>3. t # h
      BY <1>1, <2>1 DEF Claimable
    <3>4. handoffs'[h] = handoffs[h]
      BY <3>1, <3>3 DEF ShapeInv
    <3> QED
      BY <1>2, <3>1, <3>2, <3>3, <3>4
  <2>2. CASE ~Claimable(t, requests[r].gateway)
    <3>1. handoffs' = handoffs /\ requests' = [requests EXCEPT ![r] = Idle]
      BY <1>5, <2>2 DEF ReserveHandoff, Return
    <3> QED
      BY <1>2, <1>3, <3>1
  <2> QED
    BY <2>1, <2>2
<1>6. CASE Transfer(r)
  <2> DEFINE q == [requests[r] EXCEPT !.at = "retire",
                     !.old = gateways[handoffs[t].target].binding.upstream]
  <2>1. /\ handoffs' = [handoffs EXCEPT ![t].state = "claimed"]
        /\ requests' = [requests EXCEPT ![r] = q]
    BY <1>6 DEF Transfer
  <2>2. ~Claims(q)
    BY <1>1 DEF SoundRequests, RequestRecords, Claims
  <2> HIDE DEF q
  <2>3. t # h
    BY <1>6 DEF Transfer, At, CutOff
  <2>4. handoffs'[h] = handoffs[h]
    BY <2>1, <2>3 DEF ShapeInv
  <2> QED
    BY <1>2, <2>1, <2>2, <2>4
<1>7. CASE ReleaseHandoff(r)
  <2>1. t # h
    BY <1>7 DEF ReleaseHandoff, At, CutOff
  <2>2. handoffs'[h] = handoffs[h]
    BY <1>7, <2>1 DEF ReleaseHandoff, ShapeInv
  <2>3. requests' = [requests EXCEPT ![r] = Idle]
    BY <1>7 DEF ReleaseHandoff, Return
  <2> QED
    BY <1>2, <1>3, <2>2, <2>3
<1> QED
  BY <1>4, <1>5, <1>6, <1>7

LEMMA CutOffStep ==
  ASSUME ShapeInv, ClaimInv, [Next]_vars, NEW h \in Handoffs, CutOff(h)
  PROVE  CutOff(h)' /\ handoffs'[h].managed = handoffs[h].managed
<1>1. UNCHANGED handoffs => HandoffsQuiet
  BY DEF HandoffsQuiet
<1>2. CASE UNCHANGED vars
  BY <1>1, <1>2, QuietCutOff DEF vars, ClaimsQuiet
<1>3. CASE Environment
  BY <1>3, EnvironmentQuiet, QuietCutOff
<1>4. ASSUME NEW r \in Requests, Arrivals(r)
      PROVE  ClaimsQuiet /\ HandoffsQuiet
  BY <1>1, <1>4, ArrivalsClaims
<1>5. ASSUME NEW r \in Requests, Step(r)
      PROVE  \/ PlainSteps(r)
             \/ \E x \in Handoffs : IssueHandoff(r, x)
             \/ ReserveHandoff(r) \/ Transfer(r) \/ ReleaseHandoff(r)
  BY <1>5, Zenon DEF Step, PlainSteps
<1>6. ASSUME NEW r \in Requests, PlainSteps(r)
      PROVE  ClaimsQuiet /\ HandoffsQuiet
  BY <1>1, <1>6, PlainStepsClaims, PlainStepsHandoffs
<1> QED
  BY <1>2, <1>3, <1>4, <1>5, <1>6, ActiveStepCutOff, QuietCutOff, Zenon DEF Next

-----------------------------------------------------------------------------
(* The theorems *)

\* Every row and every request in progress has its type, whatever interleaves.
THEOREM TypesAreInvariant == Spec => []TypeOK
  BY GatewayIsInvariant, ShapeImpliesTypes, PTL DEF GatewayInv

\* A tool call reaches the managed session its transport was bound to, or none.
THEOREM ToolCallsStayInTheirSession == Spec => []ToolCallsRunInTheirSession
<1>1. GatewayInv => ToolCallsRunInTheirSession
  BY DEF GatewayInv, ShapeInv, SoundRequests, SoundBindings, ToolCallsRunInTheirSession, At
<1> QED
  BY <1>1, GatewayIsInvariant, PTL

\* No two transports use one upstream session.
THEOREM UpstreamsAreOwned == Spec => []UpstreamsNotShared
<1>1. GatewayInv => UpstreamsNotShared
  BY DEF GatewayInv, UpstreamInv
<1> QED
  BY <1>1, GatewayIsInvariant, PTL

\* What a claim deletes upstream is used by no transport.
THEOREM ClaimsRetireNothingInUse == Spec => []ClaimRetiresNothingInUse
<1>1. GatewayInv => ClaimRetiresNothingInUse
  BY DEF GatewayInv, UpstreamInv, Retiring, ClaimRetiresNothingInUse, At
<1> QED
  BY <1>1, GatewayIsInvariant, PTL

\* A claiming token has one claimant, and a managed session one active token.
THEOREM ClaimsAreExclusive == Spec => [](OneClaimant /\ OneActiveHandoff)
<1>1. Init => ClaimInv
  BY ClaimInit
<1>2. GatewayInv /\ ClaimInv /\ [Next]_vars => ClaimInv'
  BY ClaimStep DEF GatewayInv
<1> QED
  BY <1>1, <1>2, GatewayIsInvariant, PTL DEF Spec, ClaimInv

\* A reservation whose request a restart has cut off stays claiming for good, and the
\* managed session it is for cannot be handed over any more.
THEOREM CutOffClaimsAreStuck == Spec => CutOffClaimsStay
<1> DEFINE Stuck == \A h \in Handoffs : CutOff(h) =>
              /\ CutOff(h)'
              /\ handoffs'[h].managed = handoffs[h].managed
              /\ \A x \in Handoffs \ {h} :
                    handoffs'[x].managed = handoffs[h].managed
                        => handoffs'[x].state \notin {"pending", "claiming"}
<1>1. ShapeInv /\ ClaimInv /\ [Next]_vars => [Stuck]_vars
  <2> SUFFICES ASSUME ShapeInv, ClaimInv, [Next]_vars, NEW h \in Handoffs, CutOff(h)
               PROVE  /\ CutOff(h)'
                      /\ handoffs'[h].managed = handoffs[h].managed
                      /\ \A x \in Handoffs \ {h} :
                            handoffs'[x].managed = handoffs[h].managed
                                => handoffs'[x].state \notin {"pending", "claiming"}
    OBVIOUS
  <2>1. CutOff(h)' /\ handoffs'[h].managed = handoffs[h].managed
    BY CutOffStep
  <2>2. OneActiveHandoff'
    BY ClaimStep DEF ClaimInv
  <2> QED
    BY <2>1, <2>2 DEF OneActiveHandoff, CutOff
<1>2. GatewayInv => ShapeInv
  BY DEF GatewayInv
<1> QED
  BY <1>1, <1>2, GatewayIsInvariant, ClaimsAreExclusive, PTL DEF Spec, CutOffClaimsStay, ClaimInv

\* What a claim has to leave behind: the target has the managed session at its endpoint,
\* the source is closed and has it no more, and the pin of the target's logical session
\* is set, unless that is the source's logical session too.
ClaimMoves(h) ==
    LET source == handoffs[h].source
        target == handoffs[h].target
    IN  /\ gateways'[target].binding.managed = handoffs[h].managed
        /\ gateways'[target].binding.url = handoffs[h].managed
        /\ gateways'[source].status = "closed"
        /\ gateways'[source].binding.managed = None
        /\ gateways[target].logical # gateways[source].logical
               => pins'[gateways[target].logical] = handoffs[h].managed

LEMMA TransferMoves ==
  ASSUME ShapeInv, NEW r \in Requests, Transfer(r), NEW h, h = requests[r].token
  PROVE  ClaimMoves(h)
<1> DEFINE source == handoffs[h].source
           target == handoffs[h].target
<1>1. requests[r] \in SoundRequests /\ requests[r].at = "transfer"
  BY DEF Transfer, At, ShapeInv
<1>2. h \in Handoffs
  BY <1>1 DEF SoundRequests
<1>3. handoffs[h] \in SoundHandoffs /\ handoffs[h].state = "claiming"
  BY <1>2 DEF ShapeInv, Transfer, Transferable
<1>4. source \in Gateways /\ target \in Gateways /\ source # target /\ handoffs[h].managed \in Sessions
  BY <1>3 DEF SoundHandoffs
<1>5. /\ gateways[source] \in SoundRows /\ gateways[target] \in SoundRows
      /\ gateways[target].status = "connected"
      /\ gateways[source].binding.managed = handoffs[h].managed
  BY <1>4 DEF ShapeInv, Transfer, Transferable
<1>6. gateways[source].binding.url = handoffs[h].managed
  BY <1>4, <1>5, NamesAssumption DEF SoundRows, SoundBindings
<1>7. gateways[target].logical \in Logicals
  BY <1>5 DEF SoundRows
<1> DEFINE taken == [gateways[target] EXCEPT !.binding = gateways[source].binding]
           given == [gateways[source] EXCEPT !.status = "closed",
                       !.binding = Binding(None, gateways[source].binding.url, None)]
<1>8. taken.binding = gateways[source].binding
  BY <1>5 DEF SoundRows, GatewayRows
<1>9. given.status = "closed" /\ given.binding.managed = None
  BY <1>5 DEF SoundRows, GatewayRows, Binding
<1>10. gateways' = [gateways EXCEPT ![target] = taken, ![source] = given]
  BY <1>4 DEF Transfer
<1> HIDE DEF taken, given
<1>11. gateways'[target] = taken /\ gateways'[source] = given
  BY <1>4, <1>10 DEF ShapeInv
<1>12. pins' = [pins EXCEPT ![gateways[target].logical] = handoffs[h].managed,
                            ![gateways[source].logical] = None]
  BY DEF Transfer
<1>13. gateways[target].logical # gateways[source].logical
           => pins'[gateways[target].logical] = handoffs[h].managed
  BY <1>7, <1>12 DEF ShapeInv
<1> QED
  BY <1>5, <1>6, <1>8, <1>9, <1>11, <1>13 DEF ClaimMoves

LEMMA OnlyTransferClaims ==
  ASSUME ShapeInv, [Next]_vars, NEW h \in Handoffs,
         handoffs[h].state = "claiming", handoffs'[h].state = "claimed"
  PROVE  \E r \in Requests : Transfer(r) /\ h = requests[r].token
<1>1. ~HandoffsQuiet
  BY DEF HandoffsQuiet
<1>2. UNCHANGED handoffs => HandoffsQuiet
  BY DEF HandoffsQuiet
<1>3. PICK r \in Requests :
          \/ \E x \in Handoffs : IssueHandoff(r, x)
          \/ ReserveHandoff(r) \/ Transfer(r) \/ ReleaseHandoff(r)
  <2>1. ~UNCHANGED vars /\ ~Environment
    BY <1>1, <1>2, EnvironmentQuiet DEF vars
  <2>2. ASSUME NEW q \in Requests PROVE ~Arrivals(q) /\ ~PlainSteps(q)
    BY <1>1, <1>2, ArrivalsClaims, PlainStepsHandoffs
  <2> QED
    BY <2>1, <2>2, Zenon DEF Next, Step, PlainSteps
<1>4. CASE \E x \in Handoffs : IssueHandoff(r, x)
  <2>1. PICK x \in Handoffs : IssueHandoff(r, x)
    BY <1>4
  <2>2. handoffs'[h] = handoffs[h]
    BY <2>1 DEF IssueHandoff, NoHandoff
  <2> QED
    BY <2>2
<1>5. CASE ReserveHandoff(r)
  <2> DEFINE t == requests[r].token
             row == [handoffs[t] EXCEPT !.state = "claiming", !.target = requests[r].gateway]
  <2>1. handoffs' = handoffs \/ handoffs' = [handoffs EXCEPT ![t] = row]
    BY <1>5 DEF ReserveHandoff
  <2>2. t \in Handoffs => row.state = "claiming"
    BY HandoffTypes DEF HandoffRows
  <2> HIDE DEF row
  <2> QED
    BY <2>1, <2>2 DEF ShapeInv
<1>6. CASE ReleaseHandoff(r)
  BY <1>6 DEF ReleaseHandoff, ShapeInv
<1>7. CASE Transfer(r)
  BY <1>7 DEF Transfer, ShapeInv
<1> QED
  BY <1>3, <1>4, <1>5, <1>6, <1>7

\* A claim hands the session over completely whenever the two chats have logical
\* sessions of their own: what run claim_lost finds takes a chat that connected again.
THEOREM ClaimsMoveTheSession ==
    Spec => [][\A h \in Handoffs :
                  handoffs[h].state = "claiming" /\ handoffs'[h].state = "claimed"
                      => ClaimMoves(h)]_vars
<1>1. ShapeInv /\ [Next]_vars
          => [\A h \in Handoffs :
                 handoffs[h].state = "claiming" /\ handoffs'[h].state = "claimed"
                     => ClaimMoves(h)]_vars
  BY OnlyTransferClaims, TransferMoves
<1>2. GatewayInv => ShapeInv
  BY DEF GatewayInv
<1> QED
  BY <1>1, <1>2, GatewayIsInvariant, PTL DEF Spec

\* The table of handoffs is a single-use claim token.
THEOREM HandoffImplementsClaimToken == Spec => ImplementsClaimToken
<1>1. Init => Token!Init /\ ClaimInv
  BY ClaimInit
<1>2. GatewayInv /\ ClaimInv /\ [Next]_vars => ClaimInv' /\ TokenStep
  BY ClaimStep DEF GatewayInv
<1>3. TokenStep => [Token!Next]_TokenTable
  BY DEF TokenStep
<1> QED
  BY <1>1, <1>2, <1>3, GatewayIsInvariant, PTL
     DEF Spec, ImplementsClaimToken, Token!Spec, TokenTable, TokenOf
=============================================================================
