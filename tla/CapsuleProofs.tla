------------------------------ MODULE CapsuleProofs ------------------------------
(* What holds of CapsuleHandoff for any capsules, agents and numbers of handoffs. *)
EXTENDS CapsuleHandoff, SequenceTheorems, TLAPS

CapsuleRows ==
    [status : {"absent", "active", "completed"}, owner : Agents \cup {None},
     pending : Deliveries \cup {NoHandoff}, state : PendingStates, contract : Portabilities]

HandoffRows ==
    [phase : Phases, capsule : Capsules \cup {None}, from : Agents \cup {None},
     to : Agents \cup {None}, validation : BOOLEAN, approval : BOOLEAN, auto : BOOLEAN]

CheckedCalls ==
    [capsule : Capsules, kind : {"stage", "complete", "contract"}, agent : Agents \cup {None},
     contract : Portabilities, number : Nat, passed : SUBSET Nat]

Sweeps ==
    [at : {"none", "start", "lanes", "next", "waiting"}, agent : Agents \cup {None}, closed : SUBSET Agents,
     contracts : [Capsules -> Portabilities], todo : SUBSET Capsules,
     waiting : Deliveries \cup {NoHandoff}]

\* What a call under the lock may have left to append.
Todos ==
    {<<"requested">>, <<"acknowledged">>, <<"acknowledged", "committed">>, <<"committed">>,
     <<"validation_failed">>, <<"validated">>, <<"validated", "committed">>,
     <<"approved", "committed">>, <<"completed">>}

Locks == [handoff : Deliveries, todo : Todos]

Shape ==
    /\ CapsuleTypeOK
    /\ checked \subseteq CheckedCalls
    /\ sweep \in Sweeps /\ (sweep.at # "none" => sweep.agent \in Agents)
    /\ locked \in Locks \cup {Unlocked}

-----------------------------------------------------------------------------
(* The inductive invariant *)

\* The handoff names an owner and a target that differ.
SoundAsk(h) ==
    /\ handoffs[h].capsule \in Capsules
    /\ handoffs[h].from \in Agents /\ handoffs[h].to \in Agents
    /\ handoffs[h].from # handoffs[h].to

\* How far the call of a handoff is and what is on record about it agree.
CallMatches(h) ==
    /\ Phase(h) \in {"unused", "asked", "recording"} => events[h] = {}
    /\ Phase(h) \in {"delivering"} \cup Outcomes => Recorded(h, "requested")
    /\ Phase(h) \notin {"unused", "over"} => SoundAsk(h)
    /\ Phase(h) = "recording" => locked = [handoff |-> h, todo |-> <<"requested">>]

\* What is on record about a handoff is in order.
LedgerInOrder(h) ==
    /\ events[h] # {} => Recorded(h, "requested") /\ SoundAsk(h)
    /\ Recorded(h, "validated") => Recorded(h, "acknowledged")

\* Where the agent of a handoff stands that the call under the lock moves on.
StillFrom(h) == SourceOwns(h) \/ UpsetBy(handoffs[h].capsule)

\* What the call that holds the lock has yet to append is still due.
LockKept ==
    locked # Unlocked =>
        LET h == locked.handoff
            todo == locked.todo IN
        /\ todo = <<"requested">> => Phase(h) = "recording"
        /\ todo # <<"requested">> => Recorded(h, "requested")
        /\ todo \notin {<<"requested">>, <<"completed">>} => ~Recorded(h, "committed")
        /\ todo # <<"completed">> => StillFrom(h)
        /\ todo = <<"committed">> => Needs(h) \subseteq Given(h)
        /\ todo = <<"acknowledged", "committed">> => ~handoffs[h].validation
        /\ todo \in {<<"validated">>, <<"validated", "committed">>, <<"approved", "committed">>} =>
             Recorded(h, "acknowledged")
        /\ todo = <<"validated", "committed">> => ~handoffs[h].approval
        /\ todo = <<"approved", "committed">> => Recorded(h, "validated")

\* Until the request is on record its capsule waits for it as when the lock was taken.
RequestHolds ==
    \A h \in Deliveries : Phase(h) = "recording" =>
        LET c == handoffs[h].capsule IN
        capsules[c].status # "absent" /\ capsules[c].pending = NoHandoff

Committed(c) == {h \in Deliveries : handoffs[h].capsule = c /\ Recorded(h, "committed")}

\* The agents who have had the capsule by a handoff.
Parties(c) == UNION {{handoffs[h].from, handoffs[h].to} : h \in Committed(c)}

OwnersAreParties ==
    \A c \in Capsules : Committed(c) # {} => capsules[c].owner \in Parties(c)

\* The call under the lock is about a handoff of this capsule, and may commit it.
MayMove(c) ==
    /\ locked # Unlocked
    /\ locked.todo \notin {<<"requested">>, <<"completed">>}
    /\ handoffs[locked.handoff].capsule = c

\* The agent a checked call names still owns the capsule, and the call under the lock, as
\* long as it has not overtaken the checked one, does not change that; unless a handoff that
\* failed has moved the capsule, or is about to.
CallKept(call) ==
    call.agent \in Agents =>
        LET c == call.capsule IN
        /\ \/ capsules[c].owner = call.agent
           \/ UpsetBy(c) /\ call.agent \in Parties(c)
        /\ TheLock \notin call.passed /\ MayMove(c) =>
             Recorded(locked.handoff, "failed") \/ UpsetBy(c)

CapsuleInv ==
    /\ Shape
    /\ \A h \in Deliveries : CallMatches(h) /\ LedgerInOrder(h)
    /\ LockKept
    /\ RequestHolds
    /\ PendingIsLive
    /\ OwnersAreParties
    /\ \A call \in checked : CallKept(call)

-----------------------------------------------------------------------------
(* Sequences of at most two events *)

LEMMA Heads ==
    /\ Head(<<"requested">>) = "requested" /\ Len(<<"requested">>) = 1
    /\ Head(<<"acknowledged">>) = "acknowledged" /\ Len(<<"acknowledged">>) = 1
    /\ Head(<<"committed">>) = "committed" /\ Len(<<"committed">>) = 1
    /\ Head(<<"validation_failed">>) = "validation_failed" /\ Len(<<"validation_failed">>) = 1
    /\ Head(<<"validated">>) = "validated" /\ Len(<<"validated">>) = 1
    /\ Head(<<"completed">>) = "completed" /\ Len(<<"completed">>) = 1
    /\ Head(<<"acknowledged", "committed">>) = "acknowledged" /\ Len(<<"acknowledged", "committed">>) = 2
    /\ Head(<<"validated", "committed">>) = "validated" /\ Len(<<"validated", "committed">>) = 2
    /\ Head(<<"approved", "committed">>) = "approved" /\ Len(<<"approved", "committed">>) = 2
  OBVIOUS

LEMMA Tails ==
    /\ Tail(<<"acknowledged", "committed">>) = <<"committed">>
    /\ Tail(<<"validated", "committed">>) = <<"committed">>
    /\ Tail(<<"approved", "committed">>) = <<"committed">>
  OBVIOUS

LEMMA Concatenations ==
    /\ <<>> \o <<>> = <<>>
    /\ <<"acknowledged">> \o <<>> = <<"acknowledged">>
    /\ <<>> \o <<"committed">> = <<"committed">>
    /\ <<"acknowledged">> \o <<"committed">> = <<"acknowledged", "committed">>
  <1> DEFINE s == <<"acknowledged">>
             t == <<"committed">>
             u == <<"acknowledged", "committed">>
  <1>1. s \in Seq(Kinds) /\ t \in Seq(Kinds) /\ u \in Seq(Kinds) /\ <<>> \in Seq(Kinds)
      BY DEF Kinds
  <1>2. <<>> \o <<>> = <<>> /\ s \o <<>> = s /\ <<>> \o t = t
      BY <1>1, ConcatEmptySeq
  <1>3. s \o t \in Seq(Kinds) /\ Len(s \o t) = 2 /\ (s \o t)[1] = "acknowledged" /\ (s \o t)[2] = "committed"
      BY <1>1, ConcatProperties
  <1>4. Len(u) = 2 /\ u[1] = "acknowledged" /\ u[2] = "committed"
      OBVIOUS
  <1>5. s \o t = u
    <2>1. ASSUME NEW i \in 1..Len(s \o t) PROVE (s \o t)[i] = u[i]
      <3>1. i = 1 \/ i = 2
          BY <1>3
      <3> QED BY <1>3, <1>4, <3>1
    <2> HIDE DEF s, t, u
    <2> QED BY <1>1, <1>3, <1>4, <2>1, SeqEqual
  <1> QED BY <1>2, <1>5

LEMMA TodosDiffer ==
    /\ \A todo \in Todos : todo # <<>>
    /\ \A todo \in Todos : Head(todo) = "requested" <=> todo = <<"requested">>
    /\ \A todo \in Todos : Head(todo) = "completed" <=> todo = <<"completed">>
    /\ \A todo \in Todos : Head(todo) = "committed" <=> todo = <<"committed">>
    /\ \A todo \in Todos : Head(todo) \notin {"dispatched", "dispatch_uncertain", "failed"}
    /\ \A todo \in Todos : Head(todo) = "approved" => todo = <<"approved", "committed">>
    /\ \A todo \in Todos : Head(todo) = "validated" => todo \in {<<"validated">>, <<"validated", "committed">>}
    /\ \A todo \in Todos : Len(todo) = 2 /\ Head(todo) = "acknowledged" => todo = <<"acknowledged", "committed">>
    /\ \A todo \in Todos : Len(todo) = 2 /\ Head(todo) = "validated" => todo = <<"validated", "committed">>
    /\ \A todo \in Todos : Len(todo) = 2 => Head(todo) \in {"acknowledged", "validated", "approved"}
  <1>1. \A todo \in Todos : todo # <<>>
      BY DEF Todos
  <1> QED BY <1>1, Heads DEF Todos

LEMMA TodoTypes ==
    ASSUME NEW todo \in Todos
    PROVE  /\ Head(todo) \in Kinds
           /\ Len(todo) = 1 \/ (Len(todo) = 2 /\ Tail(todo) = <<"committed">>)
  BY Heads, Tails DEF Todos, Kinds

-----------------------------------------------------------------------------
(* The effect of an event *)

LEMMA NotPendingRow ==
    ASSUME NEW p \in CapsuleRows
    PROVE  NotPending(p) = [status |-> p.status, owner |-> p.owner, pending |-> NoHandoff,
                            state |-> "none", contract |-> p.contract]
  <1> DEFINE q == [p EXCEPT !.pending = NoHandoff]
  <1>1. q = [status |-> p.status, owner |-> p.owner, pending |-> NoHandoff, state |-> p.state,
             contract |-> p.contract]
      BY DEF CapsuleRows
  <1>2. NotPending(p) = [q EXCEPT !.state = "none"]
      BY DEF NotPending
  <1> HIDE DEF q
  <1> QED BY <1>1, <1>2

LEMMA AppendEffect ==
    ASSUME Shape, NEW h \in Deliveries, NEW kind \in Kinds, SoundAsk(h), Append1(h, kind)
    PROVE  /\ capsules' \in [Capsules -> CapsuleRows]
           /\ \A d \in Capsules : d # handoffs[h].capsule => capsules'[d] = capsules[d]
           /\ capsules'[handoffs[h].capsule].status = capsules[handoffs[h].capsule].status
           /\ capsules'[handoffs[h].capsule].owner =
                IF kind = "committed" THEN handoffs[h].to ELSE capsules[handoffs[h].capsule].owner
           /\ capsules'[handoffs[h].capsule].pending =
                IF kind = "requested" THEN h
                ELSE IF kind = "committed"
                          \/ (kind = "failed" /\ capsules[handoffs[h].capsule].pending = h)
                       THEN NoHandoff ELSE capsules[handoffs[h].capsule].pending
           /\ events' \in [Deliveries -> SUBSET Kinds]
           /\ events'[h] = events[h] \cup {kind}
           /\ \A g \in Deliveries : g # h => events'[g] = events[g]
  <1> DEFINE c == handoffs[h].capsule
             p == capsules[c]
  <1>1. /\ capsules \in [Capsules -> CapsuleRows] /\ events \in [Deliveries -> SUBSET Kinds]
        /\ c \in Capsules /\ p \in CapsuleRows /\ handoffs[h].to \in Agents
      BY DEF Shape, CapsuleTypeOK, CapsuleRows, SoundAsk
  <1> HIDE DEF c
  <1>2. /\ events' \in [Deliveries -> SUBSET Kinds]
        /\ events'[h] = events[h] \cup {kind}
        /\ \A g \in Deliveries : g # h => events'[g] = events[g]
      BY <1>1 DEF Append1
  <1>3. NotPending(p) = [status |-> p.status, owner |-> p.owner, pending |-> NoHandoff,
                         state |-> "none", contract |-> p.contract]
      BY <1>1, NotPendingRow
  <1> DEFINE q == Projected(p, h, kind)
  <1>4. /\ q \in CapsuleRows
        /\ q.status = p.status
        /\ q.owner = IF kind = "committed" THEN handoffs[h].to ELSE p.owner
        /\ q.pending = IF kind = "requested" THEN h
                       ELSE IF kind = "committed" \/ (kind = "failed" /\ p.pending = h)
                              THEN NoHandoff ELSE p.pending
    <2>1. CASE kind = "requested"
      <3>1. q = [status |-> p.status, owner |-> p.owner, pending |-> h, state |-> "requested",
                 contract |-> p.contract]
          BY <1>1, <2>1 DEF Projected, CapsuleRows
      <3> HIDE DEF q
      <3> QED BY <1>1, <2>1, <3>1 DEF CapsuleRows, PendingStates
    <2>2. CASE kind = "committed"
      <3>1. q = [NotPending(p) EXCEPT !.owner = handoffs[h].to]
          BY <2>2 DEF Projected
      <3>2. q = [status |-> p.status, owner |-> handoffs[h].to, pending |-> NoHandoff,
                 state |-> "none", contract |-> p.contract]
          BY <1>1, <1>3, <3>1 DEF CapsuleRows
      <3> HIDE DEF q
      <3> QED BY <1>1, <2>2, <3>2 DEF CapsuleRows, PendingStates
    <2>3. CASE kind = "failed"
      <3>1. q = IF p.pending = h THEN NotPending(p) ELSE p
          BY <2>3 DEF Projected
      <3> HIDE DEF q
      <3> QED BY <1>1, <1>3, <2>3, <3>1 DEF CapsuleRows, PendingStates
    <2>4. CASE kind = "completed"
      <3>1. q = p
          BY <2>4 DEF Projected
      <3> HIDE DEF q
      <3> QED BY <1>1, <2>4, <3>1
    <2>5. CASE kind \notin {"requested", "committed", "failed", "completed"}
      <3>1. StateAfter(h, kind) \in PendingStates
          BY <2>5 DEF StateAfter, PendingStates, Kinds
      <3>2. q = IF p.pending = h THEN [p EXCEPT !.state = StateAfter(h, kind)] ELSE p
          BY <2>5 DEF Projected
      <3>3. CASE p.pending = h
        <4>1. q = [status |-> p.status, owner |-> p.owner, pending |-> p.pending,
                   state |-> StateAfter(h, kind), contract |-> p.contract]
            BY <1>1, <3>2, <3>3 DEF CapsuleRows
        <4> HIDE DEF q
        <4> QED BY <1>1, <2>5, <3>1, <4>1 DEF CapsuleRows
      <3>4. CASE p.pending # h
        <4>1. q = p
            BY <3>2, <3>4
        <4> HIDE DEF q
        <4> QED BY <1>1, <2>5, <4>1
      <3> QED BY <3>3, <3>4
    <2> QED BY <2>1, <2>2, <2>3, <2>4, <2>5
  <1>5. capsules' = [capsules EXCEPT ![c] = q]
      BY DEF Append1, c
  <1> HIDE DEF q
  <1>6. /\ capsules' \in [Capsules -> CapsuleRows] /\ capsules'[c] = q
        /\ \A d \in Capsules : d # c => capsules'[d] = capsules[d]
      BY <1>1, <1>4, <1>5
  <1> QED BY <1>2, <1>4, <1>6 DEF c

-----------------------------------------------------------------------------
(* Kinds of step *)

LEMMA CapsuleInitInv == CapsuleInit => CapsuleInv
  <1> SUFFICES ASSUME CapsuleInit PROVE CapsuleInv
      OBVIOUS
  <1>1. CapsuleTypeOK
      BY CapsuleAssumption
      DEF CapsuleInit, CapsuleTypeOK, NoCapsule, NoRequest, PendingStates, Portabilities, Phases
  <1>2. Shape
      BY <1>1 DEF CapsuleInit, Shape, Sweeps, NoSweep, Portabilities
  <1>3. \A h \in Deliveries : CallMatches(h) /\ LedgerInOrder(h)
      BY DEF CapsuleInit, CallMatches, LedgerInOrder, Phase, NoRequest, Recorded, Outcomes
  <1>4. LockKept /\ RequestHolds
      BY DEF CapsuleInit, LockKept, RequestHolds, Phase, NoRequest
  <1>5. PendingIsLive
      BY DEF CapsuleInit, PendingIsLive, Live, NoCapsule, NoHandoff, Recorded, Deliveries
  <1>6. OwnersAreParties /\ \A call \in checked : CallKept(call)
      BY DEF CapsuleInit, OwnersAreParties, Committed, Recorded
  <1> QED BY <1>2, <1>3, <1>4, <1>5, <1>6 DEF CapsuleInv

-----------------------------------------------------------------------------
(* Steps that only add to the ledger *)

\* The handoff is for the same capsule, from and to the same agents, on the same terms.
KeepsAsk(h) ==
    /\ handoffs'[h].capsule = handoffs[h].capsule
    /\ handoffs'[h].from = handoffs[h].from /\ handoffs'[h].to = handoffs[h].to
    /\ handoffs'[h].validation = handoffs[h].validation
    /\ handoffs'[h].approval = handoffs[h].approval

AsksStay == \A h \in Deliveries : events[h] # {} => KeepsAsk(h)

LedgersGrow == \A h \in Deliveries : events[h] \subseteq events'[h]

\* No call is checked, and those that were are overtaken further at most.
CallsGoOn ==
    \A new \in checked' : \E old \in checked :
        new.capsule = old.capsule /\ new.agent = old.agent /\ old.passed \subseteq new.passed

LEMMA PartiesGrow ==
    ASSUME AsksStay, LedgersGrow, NEW c
    PROVE  /\ UpsetBy(c) => UpsetBy(c)'
           /\ Parties(c) \subseteq Parties(c)'
  BY DEF AsksStay, KeepsAsk, LedgersGrow, UpsetBy, Upsetting, Parties, Committed, Recorded

LEMMA PartiesStay ==
    ASSUME AsksStay, UNCHANGED events, NEW c
    PROVE  /\ UpsetBy(c)' <=> UpsetBy(c)
           /\ Committed(c)' = Committed(c)
           /\ Parties(c)' = Parties(c)
  <1>1. \A h \in Deliveries : events[h] # {} => KeepsAsk(h)
      BY DEF AsksStay
  <1>2. UpsetBy(c)' <=> UpsetBy(c)
      BY <1>1 DEF KeepsAsk, UpsetBy, Upsetting, Recorded
  <1>3. \A h \in Deliveries : h \in Committed(c)' <=> h \in Committed(c)
      BY <1>1 DEF KeepsAsk, Committed, Recorded
  <1>4. Committed(c)' = Committed(c)
      BY <1>3 DEF Committed
  <1>5. \A h \in Committed(c) : handoffs'[h].from = handoffs[h].from /\ handoffs'[h].to = handoffs[h].to
      BY <1>1 DEF KeepsAsk, Committed, Recorded
  <1>6. Parties(c)' = Parties(c)
      BY <1>4, <1>5 DEF Parties
  <1> QED BY <1>2, <1>4, <1>6

LEMMA PartiesAreAgents ==
    ASSUME CapsuleInv, NEW c \in Capsules
    PROVE  /\ Parties(c) \subseteq Agents
           /\ UpsetBy(c) => capsules[c].owner \in Parties(c)
  <1>1. \A h \in Committed(c) : handoffs[h].from \in Agents /\ handoffs[h].to \in Agents
      BY DEF CapsuleInv, LedgerInOrder, SoundAsk, Committed, Recorded
  <1>2. UpsetBy(c) => Committed(c) # {}
      BY DEF UpsetBy, Upsetting, Committed
  <1> QED BY <1>1, <1>2 DEF Parties, CapsuleInv, OwnersAreParties

LEMMA OvertakingGoesOn ==
    ASSUME Shape, NEW tasks \in SUBSET Nat, Overtake(tasks)
    PROVE  /\ checked' \subseteq CheckedCalls
           /\ CallsGoOn
           /\ \A new \in checked' : tasks \subseteq new.passed
           /\ \A old \in checked : tasks \cap old.passed = {}
  <1>1. /\ checked' = {[call EXCEPT !.passed = @ \cup tasks] : call \in checked}
        /\ \A old \in checked : tasks \cap old.passed = {}
      BY DEF Overtake
  <1>2. checked \subseteq CheckedCalls
      BY DEF Shape
  <1>3. ASSUME NEW call \in CheckedCalls, NEW new, new = [call EXCEPT !.passed = @ \cup tasks]
        PROVE  /\ new \in CheckedCalls
               /\ new.capsule = call.capsule /\ new.agent = call.agent
               /\ call.passed \subseteq new.passed /\ tasks \subseteq new.passed
      BY <1>3 DEF CheckedCalls
  <1>4. ASSUME NEW new \in checked'
        PROVE  \E call \in checked : /\ call \in CheckedCalls
                                     /\ new = [call EXCEPT !.passed = @ \cup tasks]
      BY <1>1, <1>2, <1>4
  <1> QED BY <1>1, <1>3, <1>4 DEF CallsGoOn

LEMMA TasksAreNumbers ==
    ASSUME NEW h \in Deliveries
    PROVE  {TheLock, Sweeper, h, Task(h)} \subseteq Nat
  BY CapsuleAssumption DEF TheLock, Sweeper, Task, Deliveries

\* Who the call under the lock acts for is fixed.
LEMMA LockHolder ==
    ASSUME CapsuleInv, locked # Unlocked
    PROVE  /\ locked.handoff \in Deliveries /\ locked.todo \in Todos
           /\ SoundAsk(locked.handoff)
           /\ locked.todo # <<"requested">> => events[locked.handoff] # {}
  BY DEF CapsuleInv, Shape, Locks, LockKept, CallMatches, LedgerInOrder, Recorded

LEMMA CallsStayKept ==
    ASSUME CapsuleInv, CallsGoOn, AsksStay, LedgersGrow,
           \A old \in checked : old.agent \in Agents =>
             \/ capsules'[old.capsule].owner = capsules[old.capsule].owner
             \/ UpsetBy(old.capsule)' /\ capsules[old.capsule].owner \in Parties(old.capsule)',
           \/ UNCHANGED locked
           \/ locked' = Unlocked
           \/ \A new \in checked' : TheLock \in new.passed
    PROVE  \A call \in checked' : CallKept(call)'
  <1> SUFFICES ASSUME NEW new \in checked', new.agent \in Agents
               PROVE  LET c == new.capsule IN
                      /\ \/ capsules'[c].owner = new.agent
                         \/ UpsetBy(c)' /\ new.agent \in Parties(c)'
                      /\ TheLock \notin new.passed /\ MayMove(c)' =>
                           Recorded(locked.handoff, "failed")' \/ UpsetBy(c)'
      BY DEF CallKept
  <1>1. PICK old \in checked :
          new.capsule = old.capsule /\ new.agent = old.agent /\ old.passed \subseteq new.passed
      BY DEF CallsGoOn
  <1> DEFINE c == new.capsule
  <1>2. /\ \/ capsules[c].owner = new.agent
           \/ UpsetBy(c) /\ new.agent \in Parties(c)
        /\ TheLock \notin old.passed /\ MayMove(c) =>
             Recorded(locked.handoff, "failed") \/ UpsetBy(c)
      BY <1>1 DEF CapsuleInv, CallKept
  <1>3. /\ UpsetBy(c) => UpsetBy(c)'
        /\ Parties(c) \subseteq Parties(c)'
      BY PartiesGrow
  <1>4. \/ capsules'[c].owner = new.agent
        \/ UpsetBy(c)' /\ new.agent \in Parties(c)'
      BY <1>1, <1>2, <1>3
  <1>5. ASSUME TheLock \notin new.passed, MayMove(c)'
        PROVE  Recorded(locked.handoff, "failed")' \/ UpsetBy(c)'
    <2>1. locked' = locked /\ locked # Unlocked
        BY <1>5 DEF MayMove
    <2>2. locked.handoff \in Deliveries /\ events[locked.handoff] # {}
        BY <1>5, <2>1, LockHolder DEF MayMove
    <2>3. MayMove(c)
        BY <1>5, <2>1, <2>2 DEF MayMove, AsksStay, KeepsAsk
    <2>4. Recorded(locked.handoff, "failed") \/ UpsetBy(c)
        BY <1>1, <1>2, <1>5, <2>3
    <2> QED BY <1>3, <2>1, <2>2, <2>4 DEF LedgersGrow, Recorded
  <1> QED BY <1>4, <1>5

\* The call that holds the lock goes on as it was.
LEMMA LockRests ==
    ASSUME CapsuleInv, UNCHANGED locked, AsksStay, LedgersGrow,
           \A h \in Deliveries : Recorded(h, "committed")' => Recorded(h, "committed"),
           \A h \in Deliveries : Phase(h) = "recording" => handoffs'[h] = handoffs[h],
           \A c \in Capsules : \/ capsules'[c].owner = capsules[c].owner
                               \/ capsules[c].owner = None
                               \/ UpsetBy(c)
    PROVE  LockKept'
  <1> SUFFICES ASSUME locked # Unlocked PROVE LockKept'
      BY DEF LockKept
  <1>0. PICK h : h = locked.handoff
      OBVIOUS
  <1> DEFINE c == handoffs[h].capsule
  <1>1. h \in Deliveries /\ SoundAsk(h) /\ KeepsAsk(h) /\ (Phase(h) = "recording" => Phase(h)' = "recording")
    <2>1. h \in Deliveries /\ SoundAsk(h)
        BY <1>0, LockHolder
    <2>2. CASE locked.todo = <<"requested">>
      <3>1. handoffs'[h] = handoffs[h]
          BY <1>0, <2>1, <2>2 DEF CapsuleInv, LockKept
      <3> QED BY <2>1, <3>1 DEF KeepsAsk, Phase
    <2>3. CASE locked.todo # <<"requested">>
        BY <1>0, <2>1, <2>3, LockHolder DEF AsksStay, CapsuleInv, CallMatches, Phase
    <2> QED BY <2>1, <2>2, <2>3
  <1>2. c \in Capsules /\ capsules[c].owner = handoffs[h].from => capsules[c].owner # None
      BY <1>1, CapsuleAssumption DEF SoundAsk
  <1>3. StillFrom(h) => StillFrom(h)'
      BY <1>1, <1>2, PartiesGrow DEF StillFrom, SourceOwns, KeepsAsk, SoundAsk
  <1>4. \A kind : Recorded(h, kind) => Recorded(h, kind)'
      BY <1>1 DEF LedgersGrow, Recorded
  <1>5. Needs(h)' = Needs(h) /\ Given(h) \subseteq Given(h)'
      BY <1>1, <1>4 DEF Needs, Given, KeepsAsk
  <1>6. (Recorded(h, "committed"))' => Recorded(h, "committed")
      BY <1>1
  <1>7. locked' = locked
      OBVIOUS
  <1>8. /\ locked.todo = <<"requested">> => Phase(h) = "recording"
        /\ locked.todo # <<"requested">> => Recorded(h, "requested")
        /\ locked.todo \notin {<<"requested">>, <<"completed">>} => ~Recorded(h, "committed")
        /\ locked.todo # <<"completed">> => StillFrom(h)
        /\ locked.todo = <<"committed">> => Needs(h) \subseteq Given(h)
        /\ locked.todo = <<"acknowledged", "committed">> => ~handoffs[h].validation
        /\ locked.todo \in {<<"validated">>, <<"validated", "committed">>, <<"approved", "committed">>} =>
             Recorded(h, "acknowledged")
        /\ locked.todo = <<"validated", "committed">> => ~handoffs[h].approval
        /\ locked.todo = <<"approved", "committed">> => Recorded(h, "validated")
      BY <1>0 DEF CapsuleInv, LockKept
  <1>9. handoffs'[h].validation = handoffs[h].validation /\ handoffs'[h].approval = handoffs[h].approval
      BY <1>1 DEF KeepsAsk
  <1>10. locked'.handoff = h /\ locked'.todo = locked.todo
      BY <1>0, <1>7
  <1> QED BY <1>1, <1>3, <1>4, <1>5, <1>6, <1>8, <1>9, <1>10 DEF LockKept

LEMMA PendingRests ==
    ASSUME CapsuleInv, UNCHANGED events, AsksStay,
           \A c \in Capsules : capsules'[c].pending = capsules[c].pending
    PROVE  PendingIsLive'
  <1>1. \A c \in Capsules, h \in Deliveries :
          /\ capsules[c].pending = h => handoffs[h].capsule = c /\ Live(h)
          /\ handoffs[h].capsule = c /\ Live(h) => capsules[c].pending = h \/ UpsetBy(c)
      BY DEF CapsuleInv, PendingIsLive
  <1>2. \A h \in Deliveries : /\ Live(h)' <=> Live(h)
                              /\ Live(h) => handoffs'[h].capsule = handoffs[h].capsule
      BY DEF Live, Recorded, AsksStay, KeepsAsk
  <1>3. \A c : UpsetBy(c)' <=> UpsetBy(c)
      BY PartiesStay
  <1> QED BY <1>1, <1>2, <1>3 DEF PendingIsLive

\* What is on record about a handoff stays in order while its request stays the same.
LEMMA LedgerRests ==
    ASSUME CapsuleInv, NEW h \in Deliveries, events'[h] = events[h], AsksStay
    PROVE  LedgerInOrder(h)'
  BY DEF CapsuleInv, LedgerInOrder, SoundAsk, Recorded, AsksStay, KeepsAsk

-----------------------------------------------------------------------------
(* The invariant holds at first *)

\* A step that leaves the handoffs alone, and of the capsules what their requests rest on.
LEMMA HandoffsRest ==
    ASSUME CapsuleInv, Shape', UNCHANGED <<events, handoffs, received, locked>>,
           \A c \in Capsules :
             /\ capsules'[c].pending = capsules[c].pending
             /\ capsules[c].status # "absent" => capsules'[c].status # "absent"
             /\ \/ capsules'[c].owner = capsules[c].owner
                \/ capsules[c].owner = None
                \/ UpsetBy(c) /\ capsules'[c].owner \in Parties(c),
           \A call \in checked' : CallKept(call)'
    PROVE  CapsuleInv'
  <1>1. AsksStay /\ LedgersGrow
      BY DEF AsksStay, LedgersGrow, KeepsAsk
  <1>2. \A h \in Deliveries : CallMatches(h)' /\ LedgerInOrder(h)'
      BY DEF CapsuleInv, CallMatches, LedgerInOrder, Phase, SoundAsk, Recorded
  <1>3. LockKept'
      BY <1>1, LockRests DEF Recorded
  <1>4. RequestHolds'
      BY DEF CapsuleInv, RequestHolds, Phase, CallMatches, SoundAsk
  <1>5. PendingIsLive'
      BY <1>1, PendingRests
  <1>6. OwnersAreParties'
    <2>1. ASSUME NEW c \in Capsules, Committed(c)' # {}
          PROVE  capsules'[c].owner \in Parties(c)'
      <3>1. Committed(c) # {} /\ Parties(c)' = Parties(c)
          BY <1>1, <2>1, PartiesStay
      <3>2. capsules[c].owner \in Parties(c)
          BY <3>1 DEF CapsuleInv, OwnersAreParties
      <3>3. capsules[c].owner # None
          BY <3>2, PartiesAreAgents, CapsuleAssumption
      <3> QED BY <3>1, <3>2, <3>3
    <2> QED BY <2>1 DEF OwnersAreParties
  <1> QED BY <1>2, <1>3, <1>4, <1>5, <1>6 DEF CapsuleInv

\* A step of the call of one handoff, which does not hold the lock for it yet.
LEMMA OneCallMoves ==
    ASSUME CapsuleInv, Shape', NEW h \in Deliveries,
           UNCHANGED <<capsules, events, locked>>, CallsGoOn,
           \A g \in Deliveries : g # h => handoffs'[g] = handoffs[g],
           Phase(h) # "recording", CallMatches(h)', handoffs'[h].phase # "recording",
           events[h] # {} => KeepsAsk(h)
    PROVE  CapsuleInv'
  <1>1. AsksStay /\ LedgersGrow
      BY DEF AsksStay, LedgersGrow, KeepsAsk
  <1>2. \A g \in Deliveries : CallMatches(g)'
    <2>1. ASSUME NEW g \in Deliveries, g # h PROVE CallMatches(g)'
        BY <2>1 DEF CapsuleInv, CallMatches, Phase, SoundAsk, Recorded
    <2> QED BY <2>1
  <1>3. \A g \in Deliveries : LedgerInOrder(g)'
      BY <1>1, LedgerRests
  <1>4. LockKept'
      BY <1>1, LockRests DEF Recorded, Phase
  <1>5. RequestHolds'
      BY DEF CapsuleInv, RequestHolds, Phase
  <1>6. PendingIsLive'
      BY <1>1, PendingRests
  <1>7. OwnersAreParties'
      BY <1>1, PartiesStay DEF CapsuleInv, OwnersAreParties
  <1>8. \A call \in checked' : CallKept(call)'
      BY <1>1, CallsStayKept
  <1> QED BY <1>2, <1>3, <1>4, <1>5, <1>6, <1>7, <1>8 DEF CapsuleInv

\* A call takes the lock to append events about a handoff that was asked for.
LEMMA EnterKeepsInv ==
    ASSUME CapsuleInv, NEW h \in Deliveries, NEW todo \in Todos, Enter(h, todo),
           Recorded(h, "requested"), todo # <<"requested">>,
           todo # <<"completed">> => ~Recorded(h, "committed") /\ SourceOwns(h),
           todo = <<"committed">> => Needs(h) \subseteq Given(h),
           todo = <<"acknowledged", "committed">> => ~handoffs[h].validation,
           todo \in {<<"validated">>, <<"validated", "committed">>, <<"approved", "committed">>} =>
             Recorded(h, "acknowledged"),
           todo = <<"validated", "committed">> => ~handoffs[h].approval,
           todo = <<"approved", "committed">> => Recorded(h, "validated")
    PROVE  CapsuleInv'
  <1>1. /\ locked = Unlocked /\ locked' = [handoff |-> h, todo |-> todo] /\ Overtake({TheLock})
        /\ UNCHANGED <<capsules, events, handoffs, received, closed, sweep, notices, upsets>>
      BY DEF Enter
  <1>2. {TheLock} \in SUBSET Nat
      BY DEF TheLock
  <1>3. /\ checked' \subseteq CheckedCalls /\ CallsGoOn
        /\ \A new \in checked' : TheLock \in new.passed
      BY <1>1, <1>2, OvertakingGoesOn DEF CapsuleInv
  <1>4. Shape'
      BY <1>1, <1>3 DEF CapsuleInv, Shape, CapsuleTypeOK, Locks
  <1>5. AsksStay /\ LedgersGrow
      BY <1>1 DEF AsksStay, LedgersGrow, KeepsAsk
  <1>6. \A g \in Deliveries : CallMatches(g)' /\ LedgerInOrder(g)'
    <2>1. \A g \in Deliveries : Phase(g) # "recording"
        BY <1>1, TodosDiffer DEF CapsuleInv, CallMatches, Unlocked, Todos
    <2> QED BY <1>1, <2>1 DEF CapsuleInv, CallMatches, LedgerInOrder, Phase, SoundAsk, Recorded
  <1>7. LockKept'
    <2>1. locked'.handoff = h /\ locked'.todo = todo
        BY <1>1
    <2> QED BY <1>1, <2>1 DEF LockKept, Phase, Recorded, Needs, Given, StillFrom, SourceOwns
  <1>8. RequestHolds' /\ PendingIsLive' /\ OwnersAreParties'
      BY <1>1, <1>5, PendingRests, PartiesStay DEF CapsuleInv, RequestHolds, Phase, OwnersAreParties
  <1>9. \A call \in checked' : CallKept(call)'
      BY <1>1, <1>3, <1>5, CallsStayKept
  <1> QED BY <1>4, <1>6, <1>7, <1>8, <1>9 DEF CapsuleInv

\* An event keeps the live handoff pending, unless one that failed moves the capsule.
LEMMA AppendKeepsPending ==
    ASSUME CapsuleInv, NEW h \in Deliveries, NEW kind \in Kinds, SoundAsk(h), Append1(h, kind),
           \A g \in Deliveries : KeepsAsk(g),
           kind = "requested" => events[h] = {} /\ capsules[handoffs[h].capsule].pending = NoHandoff,
           kind # "requested" => Recorded(h, "requested"),
           kind = "committed" => ~Recorded(h, "committed")
    PROVE  PendingIsLive'
  <1> DEFINE c == handoffs[h].capsule
  <1>1. \A d \in Capsules, g \in Deliveries :
          /\ capsules[d].pending = g => handoffs[g].capsule = d /\ Live(g)
          /\ handoffs[g].capsule = d /\ Live(g) => capsules[d].pending = g \/ UpsetBy(d)
      BY DEF CapsuleInv, PendingIsLive
  <1>2. Shape /\ c \in Capsules /\ NoHandoff \notin Deliveries
      BY DEF CapsuleInv, SoundAsk, NoHandoff, Deliveries
  <1>3. /\ \A d \in Capsules : d # c => capsules'[d] = capsules[d]
        /\ capsules'[c].pending = IF kind = "requested" THEN h
                ELSE IF kind = "committed" \/ (kind = "failed" /\ capsules[c].pending = h)
                       THEN NoHandoff ELSE capsules[c].pending
        /\ events'[h] = events[h] \cup {kind}
        /\ \A g \in Deliveries : g # h => events'[g] = events[g]
      BY <1>2, AppendEffect
  <1>4. \A d : UpsetBy(d) => UpsetBy(d)'
    <2>1. AsksStay /\ LedgersGrow
        BY <1>3 DEF AsksStay, LedgersGrow
    <2> QED BY <2>1, PartiesGrow
  <1>5. \A g \in Deliveries : g # h => (Live(g)' <=> Live(g))
      BY <1>3 DEF Live, Recorded
  <1>6. \A g \in Deliveries : handoffs'[g].capsule = handoffs[g].capsule
      BY DEF KeepsAsk
  <1>7. ASSUME NEW d \in Capsules, NEW g \in Deliveries, capsules'[d].pending = g
        PROVE  handoffs[g].capsule = d /\ Live(g)'
    <2>1. CASE d # c
        BY <1>1, <1>3, <1>5, <1>7, <2>1
    <2>2. CASE d = c /\ kind = "requested"
        BY <1>3, <1>7, <2>2 DEF Live, Recorded
    <2>3. CASE d = c /\ kind # "requested"
      <3>1. capsules[c].pending = g /\ kind # "committed" /\ ~(kind = "failed" /\ g = h)
          BY <1>2, <1>3, <1>7, <2>3
      <3> QED BY <1>1, <1>2, <1>3, <1>5, <2>3, <3>1 DEF Live, Recorded
    <2> QED BY <2>1, <2>2, <2>3
  <1>8. ASSUME NEW d \in Capsules, NEW g \in Deliveries, handoffs[g].capsule = d, Live(g)'
        PROVE  capsules'[d].pending = g \/ UpsetBy(d)'
    <2>1. CASE d # c
        BY <1>1, <1>3, <1>4, <1>5, <1>8, <2>1
    <2>2. CASE d = c /\ g = h
      <3>1. kind \notin {"committed", "failed"}
          BY <1>3, <1>8, <2>2 DEF Live, Recorded
      <3>2. kind # "requested" => Live(h)
          BY <1>3, <1>8, <2>2 DEF Live, Recorded
      <3> QED BY <1>1, <1>3, <1>4, <2>2, <3>1, <3>2
    <2>3. CASE d = c /\ g # h
      <3>1. capsules[c].pending = g \/ UpsetBy(c)
          BY <1>1, <1>5, <1>8, <2>3
      <3>2. CASE UpsetBy(c)
          BY <1>4, <2>3, <3>2
      <3>3. CASE capsules[c].pending = g /\ kind # "committed"
          BY <1>2, <1>3, <2>3, <3>3
      <3>4. CASE capsules[c].pending = g /\ kind = "committed" /\ ~UpsetBy(c)
        <4>1. ~Live(h)
            BY <1>1, <1>2, <2>3, <3>4
        <4>2. Recorded(h, "failed")
            BY <3>4, <4>1 DEF Live
        <4>3. Upsetting(h)' /\ handoffs'[h].capsule = c
            BY <1>3, <1>6, <3>4, <4>2 DEF Upsetting, Recorded
        <4> QED BY <2>3, <4>3 DEF UpsetBy
      <3> QED BY <3>1, <3>2, <3>3, <3>4
    <2> QED BY <2>1, <2>2, <2>3
  <1> QED BY <1>6, <1>7, <1>8 DEF PendingIsLive

-----------------------------------------------------------------------------
(* The steps *)

LEMMA CreationKeepsInv ==
    ASSUME CapsuleInv, NEW c \in Capsules, NEW a \in Creators, NEW contract \in Portabilities,
           CreateCapsule(c, a, contract)
    PROVE  CapsuleInv'
  <1> DEFINE new == [status |-> "active", owner |-> a, pending |-> NoHandoff, state |-> "none",
                     contract |-> contract]
  <1>1. /\ capsules' = [capsules EXCEPT ![c] = new] /\ capsules[c] = NoCapsule
        /\ UNCHANGED <<events, handoffs, received, locked, checked, closed, sweep, notices, upsets>>
    <2> DEFINE active == [NoCapsule EXCEPT !.status = "active"]
               owned == [active EXCEPT !.owner = a]
    <2>1. active = [status |-> "active", owner |-> None, pending |-> NoHandoff, state |-> "none",
                    contract |-> "pinned"]
        BY DEF NoCapsule
    <2>2. owned = [status |-> "active", owner |-> a, pending |-> NoHandoff, state |-> "none",
                   contract |-> "pinned"]
      <3> HIDE DEF active
      <3> QED BY <2>1
    <2>3. [NoCapsule EXCEPT !.status = "active", !.owner = a, !.contract = contract]
            = [owned EXCEPT !.contract = contract]
        OBVIOUS
    <2>4. [owned EXCEPT !.contract = contract] = new
      <3> HIDE DEF owned
      <3> QED BY <2>2
    <2>5. [NoCapsule EXCEPT !.status = "active", !.owner = a, !.contract = contract] = new
        BY <2>3, <2>4
    <2> QED BY <2>5 DEF CreateCapsule
  <1>2. capsules \in [Capsules -> CapsuleRows] /\ new \in CapsuleRows
      BY CapsuleAssumption DEF CapsuleInv, Shape, CapsuleTypeOK, CapsuleRows, PendingStates
  <1>3. /\ capsules' \in [Capsules -> CapsuleRows] /\ capsules'[c] = new
        /\ \A d \in Capsules : d # c => capsules'[d] = capsules[d]
      BY <1>1, <1>2
  <1>4. Shape'
      BY <1>1, <1>3 DEF CapsuleInv, Shape, CapsuleTypeOK, CapsuleRows
  <1>5. \A d \in Capsules :
             /\ capsules'[d].pending = capsules[d].pending
             /\ capsules[d].status # "absent" => capsules'[d].status # "absent"
             /\ capsules'[d].owner = capsules[d].owner \/ capsules[d].owner = None
      BY <1>1, <1>3 DEF NoCapsule
  <1>6. AsksStay /\ LedgersGrow /\ CallsGoOn
      BY <1>1 DEF AsksStay, LedgersGrow, KeepsAsk, CallsGoOn
  <1>7. ASSUME NEW old \in checked, old.agent \in Agents PROVE old.capsule # c
    <2>1. capsules[c].owner = None /\ None \notin Agents
        BY <1>1, CapsuleAssumption DEF NoCapsule
    <2>2. UpsetBy(c) => capsules[c].owner \in Agents
        BY PartiesAreAgents
    <2> QED BY <1>7, <2>1, <2>2 DEF CapsuleInv, CallKept
  <1>8. \A call \in checked' : CallKept(call)'
    <2>1. \A old \in checked : old.agent \in Agents =>
            capsules'[old.capsule].owner = capsules[old.capsule].owner
        BY <1>3, <1>7 DEF CapsuleInv, Shape, CheckedCalls
    <2> QED BY <1>1, <1>6, <2>1, CallsStayKept
  <1> QED BY <1>1, <1>4, <1>5, <1>8, HandoffsRest

\* The steps of a sweep that ask for no handoff.
LEMMA QuietKeepsInv ==
    ASSUME CapsuleInv, Shape', UNCHANGED <<capsules, events, handoffs, received, locked>>, CallsGoOn
    PROVE  CapsuleInv'
  <1>1. AsksStay /\ LedgersGrow
      BY DEF AsksStay, LedgersGrow, KeepsAsk
  <1>2. \A call \in checked' : CallKept(call)'
      BY <1>1, CallsStayKept
  <1> QED BY <1>2, HandoffsRest

\* A call that names its agent has found it the owner of a capsule without a handoff.
LEMMA CheckKeepsInv ==
    ASSUME CapsuleInv, NEW c \in Capsules, NEW kind \in {"stage", "complete", "contract"},
           NEW a \in Agents \cup {None}, NEW contract \in Portabilities, Check(c, kind, a, contract),
           a \in Agents => capsules[c].owner = a /\ capsules[c].pending = NoHandoff
    PROVE  CapsuleInv'
  <1> DEFINE new == [capsule |-> c, kind |-> kind, agent |-> a, contract |-> contract,
                     number |-> upsets, passed |-> {}]
  <1>1. /\ checked' = checked \cup {new}
        /\ UNCHANGED <<capsules, events, handoffs, received, locked, closed, sweep, notices>>
      BY DEF Check
  <1>2. upsets' \in 0..MaxUpsets /\ upsets \in Nat
      BY CapsuleAssumption DEF CapsuleInv, Shape, CapsuleTypeOK, Check, Upset
  <1>3. new \in CheckedCalls /\ new.capsule = c /\ new.agent = a
      BY <1>2 DEF CheckedCalls
  <1> HIDE DEF new
  <1>4. Shape'
      BY <1>1, <1>2, <1>3 DEF CapsuleInv, Shape, CapsuleTypeOK
  <1>5. CallKept(new)
    <2> SUFFICES ASSUME a \in Agents, MayMove(c)
                 PROVE  Recorded(locked.handoff, "failed") \/ UpsetBy(c)
        BY <1>3 DEF CallKept
    <2>1. PICK h : h = locked.handoff
        OBVIOUS
    <2>2. h \in Deliveries /\ Recorded(h, "requested") /\ ~Recorded(h, "committed")
        BY <2>1, LockHolder DEF CapsuleInv, LockKept, MayMove
    <2>3. capsules[c].pending = NoHandoff /\ NoHandoff \notin Deliveries /\ handoffs[h].capsule = c
        BY <2>1 DEF NoHandoff, Deliveries, MayMove
    <2>4. Live(h) => UpsetBy(c)
        BY <2>2, <2>3 DEF CapsuleInv, PendingIsLive
    <2> QED BY <2>1, <2>2, <2>4 DEF Live
  <1>6. \A call \in checked' : CallKept(call)'
    <2>1. \A call \in checked' : CallKept(call)
        BY <1>1, <1>5 DEF CapsuleInv
    <2> QED BY <1>1, <2>1 DEF CallKept, MayMove, UpsetBy, Upsetting, Parties, Committed, Recorded
  <1> QED BY <1>1, <1>4, <1>6, HandoffsRest

LEMMA ChecksKeepInv ==
    ASSUME CapsuleInv, NEW c \in Capsules,
           \/ \E kind \in {"stage", "complete"}, a \in Agents \cup {None} : CheckStage(c, kind, a)
           \/ \E contract \in Portabilities : CheckContract(c, contract)
    PROVE  CapsuleInv'
  <1>1. ASSUME NEW kind \in {"stage", "complete"}, NEW a \in Agents \cup {None}, CheckStage(c, kind, a)
        PROVE  CapsuleInv'
    <2>1. /\ Check(c, kind, a, "pinned")
          /\ capsules[c].pending = NoHandoff /\ (a \in Agents => capsules[c].owner = a)
        BY <1>1, CapsuleAssumption DEF CheckStage
    <2>2. kind \in {"stage", "complete", "contract"} /\ "pinned" \in Portabilities
        BY DEF Portabilities
    <2> QED BY <2>1, <2>2, CheckKeepsInv
  <1>2. ASSUME NEW contract \in Portabilities, CheckContract(c, contract)
        PROVE  CapsuleInv'
    <2>1. Check(c, "contract", None, contract) /\ None \notin Agents
        BY <1>2, CapsuleAssumption DEF CheckContract
    <2> QED BY <2>1, CheckKeepsInv
  <1> QED BY <1>1, <1>2

\* The event of a checked call: the owner moves only if the call may name one.
LEMMA CheckedEffect ==
    ASSUME CapsuleInv, NEW call \in CheckedCalls, AppendChecked(call)
    PROVE  /\ capsules' \in [Capsules -> CapsuleRows]
           /\ \A d \in Capsules :
                /\ capsules'[d].pending = capsules[d].pending
                /\ capsules[d].status # "absent" => capsules'[d].status # "absent"
                /\ \/ capsules'[d].owner = capsules[d].owner
                   \/ d = call.capsule /\ call.agent \in Agents /\ capsules'[d].owner = call.agent
           /\ UNCHANGED <<events, handoffs, received, locked, closed, sweep, notices, upsets>>
           /\ checked' \subseteq checked
  <1> DEFINE c == call.capsule
             p == capsules[c]
             q == CASE call.kind = "stage" -> Named(p, call.agent)
                    [] call.kind = "complete" -> [Named(p, call.agent) EXCEPT !.status = "completed"]
                    [] call.kind = "contract" -> [p EXCEPT !.contract = call.contract]
             Owner == IF call.agent \in Agents THEN call.agent ELSE p.owner
  <1>1. /\ capsules \in [Capsules -> CapsuleRows] /\ c \in Capsules /\ p \in CapsuleRows
        /\ call.kind \in {"stage", "complete", "contract"} /\ call.contract \in Portabilities
        /\ call.agent \in Agents \cup {None}
      BY DEF CapsuleInv, Shape, CapsuleTypeOK, CapsuleRows, CheckedCalls
  <1>2. None \notin Agents
      BY CapsuleAssumption
  <1>3. capsules' = [capsules EXCEPT ![c] = q]
      BY DEF AppendChecked
  <1>4. Named(p, call.agent) = [status |-> p.status, owner |-> Owner, pending |-> p.pending,
                                state |-> p.state, contract |-> p.contract]
    <2> HIDE DEF p
    <2> QED BY <1>1 DEF Named, CapsuleRows
  <1>5. /\ q \in CapsuleRows /\ q.pending = p.pending
        /\ p.status # "absent" => q.status # "absent"
        /\ q.owner = p.owner \/ (call.agent \in Agents /\ q.owner = call.agent)
    <2> HIDE DEF p
    <2>1. CASE call.kind = "stage"
      <3>1. q = Named(p, call.agent)
          BY <2>1
      <3> HIDE DEF q
      <3> QED BY <1>1, <1>2, <1>4, <3>1 DEF CapsuleRows
    <2>2. CASE call.kind = "complete"
      <3>1. q = [Named(p, call.agent) EXCEPT !.status = "completed"]
          BY <2>2
      <3>2. q = [status |-> "completed", owner |-> Owner, pending |-> p.pending,
                 state |-> p.state, contract |-> p.contract]
        <4> DEFINE n == Named(p, call.agent)
        <4>1. n = [status |-> p.status, owner |-> Owner, pending |-> p.pending,
                   state |-> p.state, contract |-> p.contract]
            BY <1>4
        <4>2. q = [n EXCEPT !.status = "completed"]
            BY <3>1
        <4> HIDE DEF n, q, Owner
        <4> QED BY <4>1, <4>2
      <3> HIDE DEF q
      <3> QED BY <1>1, <1>2, <3>2 DEF CapsuleRows
    <2>3. CASE call.kind = "contract"
      <3>1. q = [status |-> p.status, owner |-> p.owner, pending |-> p.pending,
                 state |-> p.state, contract |-> call.contract]
          BY <1>1, <2>3 DEF CapsuleRows
      <3> HIDE DEF q
      <3> QED BY <1>1, <3>1 DEF CapsuleRows
    <2> QED BY <1>1, <2>1, <2>2, <2>3
  <1> HIDE DEF q
  <1>6. /\ capsules' \in [Capsules -> CapsuleRows] /\ capsules'[c] = q
        /\ \A d \in Capsules : d # c => capsules'[d] = capsules[d]
      BY <1>1, <1>3, <1>5
  <1>7. /\ UNCHANGED <<events, handoffs, received, locked, closed, sweep, notices, upsets>>
        /\ checked' \subseteq checked
      BY DEF AppendChecked
  <1> QED BY <1>5, <1>6, <1>7

LEMMA CheckedKeepsInv ==
    ASSUME CapsuleInv, NEW call \in checked, AppendChecked(call)
    PROVE  CapsuleInv'
  <1>1. call \in CheckedCalls
      BY DEF CapsuleInv, Shape
  <1>2. Shape'
      BY <1>1, CheckedEffect DEF CapsuleInv, Shape, CapsuleTypeOK, CapsuleRows
  <1>3. /\ \A d \in Capsules :
             /\ capsules'[d].pending = capsules[d].pending
             /\ capsules[d].status # "absent" => capsules'[d].status # "absent"
             /\ \/ capsules'[d].owner = capsules[d].owner
                \/ d = call.capsule /\ call.agent \in Agents /\ capsules'[d].owner = call.agent
        /\ UNCHANGED <<events, handoffs, received, locked, closed, sweep, notices, upsets>>
        /\ checked' \subseteq checked
      BY <1>1, CheckedEffect
  <1>4. \A d \in Capsules : \/ capsules'[d].owner = capsules[d].owner
                             \/ /\ UpsetBy(d) /\ capsules'[d].owner \in Parties(d)
                                /\ capsules[d].owner \in Parties(d)
    <2>1. call.agent \in Agents =>
            \/ capsules[call.capsule].owner = call.agent
            \/ UpsetBy(call.capsule) /\ call.agent \in Parties(call.capsule)
        BY DEF CapsuleInv, CallKept
    <2> QED BY <1>3, <2>1, PartiesAreAgents
  <1>5. AsksStay /\ LedgersGrow /\ CallsGoOn
      BY <1>3 DEF AsksStay, LedgersGrow, KeepsAsk, CallsGoOn
  <1>6. \A left \in checked' : CallKept(left)'
    <2>1. \A old \in checked : old.capsule \in Capsules
        BY DEF CapsuleInv, Shape, CheckedCalls
    <2>2. \A d : UpsetBy(d)' = UpsetBy(d) /\ Parties(d)' = Parties(d)
        BY <1>3, <1>5, PartiesStay DEF UpsetBy
    <2> QED BY <1>3, <1>4, <1>5, <2>1, <2>2, CallsStayKept
  <1> QED BY <1>2, <1>3, <1>4, <1>6, HandoffsRest

-----------------------------------------------------------------------------
(* The handoff call *)

LEMMA PhaseEffect ==
    ASSUME CapsuleInv, NEW h \in Deliveries, NEW phase \in Phases, EnterPhase(h, phase)
    PROVE  /\ handoffs' \in [Deliveries -> HandoffRows]
           /\ \A g \in Deliveries : g # h => handoffs'[g] = handoffs[g]
           /\ handoffs'[h].phase = phase
           /\ \A g \in Deliveries : KeepsAsk(g)
  <1> DEFINE r == handoffs[h]
             s == [phase |-> phase, capsule |-> r.capsule, from |-> r.from, to |-> r.to,
                   validation |-> r.validation, approval |-> r.approval, auto |-> r.auto]
  <1>1. handoffs \in [Deliveries -> HandoffRows] /\ r \in HandoffRows
      BY DEF CapsuleInv, Shape, CapsuleTypeOK, HandoffRows
  <1>2. [r EXCEPT !.phase = phase] = s
    <2> HIDE DEF r
    <2> QED BY <1>1 DEF HandoffRows
  <1>3. handoffs' = [handoffs EXCEPT ![h] = s]
      BY <1>2 DEF EnterPhase
  <1>4. s \in HandoffRows
      BY <1>1 DEF HandoffRows
  <1>5. /\ handoffs' \in [Deliveries -> HandoffRows] /\ handoffs'[h] = s
        /\ \A g \in Deliveries : g # h => handoffs'[g] = handoffs[g]
    <2> HIDE DEF s
    <2> QED BY <1>1, <1>3, <1>4
  <1>6. KeepsAsk(h) /\ \A g \in Deliveries : g # h => KeepsAsk(g)
      BY <1>5 DEF KeepsAsk
  <1> QED BY <1>5, <1>6

LEMMA AskKeepsInv ==
    ASSUME CapsuleInv, Shape', CallsGoOn, NEW h \in Deliveries, NEW c \in Capsules,
           NEW from \in Agents, NEW to \in Agents, NEW v \in BOOLEAN, NEW a \in BOOLEAN,
           NEW auto \in BOOLEAN, NEW override \in BOOLEAN,
           AskHandoff(h, Request(c, from, to, v, a, auto), override),
           UNCHANGED <<capsules, events, received, locked>>
    PROVE  CapsuleInv'
  <1> DEFINE r == Request(c, from, to, v, a, auto)
  <1>1. /\ handoffs[h] = NoRequest /\ handoffs' = [handoffs EXCEPT ![h] = r]
        /\ r.phase = "asked" /\ r.capsule = c /\ r.from = from /\ r.to = to /\ from # to
      BY DEF AskHandoff, Request
  <1>2. handoffs'[h] = r /\ \A g \in Deliveries : g # h => handoffs'[g] = handoffs[g]
      BY <1>1 DEF CapsuleInv, Shape, CapsuleTypeOK
  <1> HIDE DEF r
  <1>3. Phase(h) = "unused" /\ events[h] = {}
      BY <1>1 DEF CapsuleInv, CallMatches, Phase, NoRequest
  <1>4. CallMatches(h)'
      BY <1>1, <1>2, <1>3 DEF CallMatches, Phase, SoundAsk, Outcomes
  <1> QED BY <1>1, <1>2, <1>3, <1>4, OneCallMoves

LEMMA RequestType ==
    ASSUME NEW c \in Capsules, NEW from \in Agents, NEW to \in Agents, NEW v \in BOOLEAN,
           NEW a \in BOOLEAN, NEW auto \in BOOLEAN
    PROVE  Request(c, from, to, v, a, auto) \in HandoffRows
  BY DEF Request, HandoffRows, Phases

LEMMA AskingOvertakes ==
    ASSUME CapsuleInv, NEW h \in Deliveries, NEW request, NEW override, AskHandoff(h, request, override)
    PROVE  checked' \subseteq CheckedCalls /\ CallsGoOn
  <1>1. PICK task \in {Sweeper, h} : Overtake({task})
      BY DEF AskHandoff
  <1>2. {task} \in SUBSET Nat
      BY TasksAreNumbers
  <1> QED BY <1>1, <1>2, OvertakingGoesOn DEF CapsuleInv

LEMMA AskingKeepsInv ==
    ASSUME CapsuleInv, NEW h \in Deliveries, AskedByCaller(h)
    PROVE  CapsuleInv'
  <1>1. PICK c \in Capsules, from, to \in Agents, v, a, override \in BOOLEAN :
               /\ capsules[c].status # "absent"
               /\ AskHandoff(h, Request(c, from, to, v, a, FALSE), override)
      BY Zenon DEF AskedByCaller
  <1>2. UNCHANGED <<capsules, events, received, locked, closed, sweep, notices, upsets>>
      BY DEF AskedByCaller
  <1>3. handoffs' \in [Deliveries -> HandoffRows]
    <2> DEFINE r == Request(c, from, to, v, a, FALSE)
    <2>1. r \in HandoffRows
        BY RequestType
    <2>2. handoffs' = [handoffs EXCEPT ![h] = r]
        BY <1>1 DEF AskHandoff
    <2> HIDE DEF r
    <2> QED BY <2>1, <2>2 DEF CapsuleInv, Shape, CapsuleTypeOK, HandoffRows
  <1>4. checked' \subseteq CheckedCalls /\ CallsGoOn
      BY <1>1, AskingOvertakes DEF Request
  <1>5. Shape'
      BY <1>2, <1>3, <1>4 DEF CapsuleInv, Shape, CapsuleTypeOK, HandoffRows
  <1> QED BY <1>1, <1>2, <1>4, <1>5, AskKeepsInv

LEMMA RefusalKeepsInv ==
    ASSUME CapsuleInv, NEW h \in Deliveries, RefuseHandoff(h)
    PROVE  CapsuleInv'
  <1> DEFINE r == [NoRequest EXCEPT !.phase = "over"]
  <1>1. /\ Phase(h) = "asked" /\ locked = Unlocked /\ handoffs' = [handoffs EXCEPT ![h] = r]
        /\ Overtake({TheLock, Task(h)})
        /\ UNCHANGED <<capsules, events, received, locked, closed, sweep, notices, upsets>>
      BY DEF RefuseHandoff
  <1>2. r \in HandoffRows /\ r.phase = "over"
      BY DEF NoRequest, HandoffRows, Phases
  <1> HIDE DEF r
  <1>3. /\ handoffs' \in [Deliveries -> HandoffRows] /\ handoffs'[h] = r
        /\ \A g \in Deliveries : g # h => handoffs'[g] = handoffs[g]
      BY <1>1, <1>2 DEF CapsuleInv, Shape, CapsuleTypeOK, HandoffRows
  <1>4. checked' \subseteq CheckedCalls /\ CallsGoOn
    <2>1. {TheLock, Task(h)} \in SUBSET Nat
        BY TasksAreNumbers
    <2> QED BY <1>1, <2>1, OvertakingGoesOn DEF CapsuleInv
  <1>5. Shape'
      BY <1>1, <1>3, <1>4 DEF CapsuleInv, Shape, CapsuleTypeOK, HandoffRows
  <1>6. events[h] = {}
      BY <1>1 DEF CapsuleInv, CallMatches
  <1>7. CallMatches(h)'
      BY <1>2, <1>3 DEF CallMatches, Phase, Outcomes
  <1> QED BY <1>1, <1>2, <1>3, <1>4, <1>5, <1>6, <1>7, OneCallMoves

LEMMA RequestingKeepsInv ==
    ASSUME CapsuleInv, NEW h \in Deliveries, RequestHandoff(h)
    PROVE  CapsuleInv'
  <1> DEFINE c == handoffs[h].capsule
             todo == <<"requested">>
  <1>1. /\ Phase(h) = "asked" /\ locked = Unlocked /\ locked' = [handoff |-> h, todo |-> todo]
        /\ capsules[c].status = "active" /\ capsules[c].owner = handoffs[h].from
        /\ capsules[c].pending = NoHandoff /\ EnterPhase(h, "recording")
        /\ Overtake({TheLock, Task(h)})
        /\ UNCHANGED <<capsules, events, received, closed, sweep, notices, upsets>>
      BY DEF RequestHandoff
  <1>2. /\ handoffs' \in [Deliveries -> HandoffRows]
        /\ \A g \in Deliveries : g # h => handoffs'[g] = handoffs[g]
        /\ handoffs'[h].phase = "recording" /\ \A g \in Deliveries : KeepsAsk(g)
      BY <1>1, PhaseEffect DEF Phases
  <1>3. todo \in Todos /\ \A t \in Todos : t = todo <=> Head(t) = "requested"
      BY TodosDiffer, Heads DEF Todos
  <1>11. /\ checked' \subseteq CheckedCalls /\ CallsGoOn
         /\ \A new \in checked' : TheLock \in new.passed
    <2>1. {TheLock, Task(h)} \in SUBSET Nat
        BY TasksAreNumbers
    <2> QED BY <1>1, <2>1, OvertakingGoesOn DEF CapsuleInv
  <1>12. AsksStay /\ LedgersGrow
      BY <1>1, <1>2 DEF AsksStay, LedgersGrow
  <1>4. Shape'
      BY <1>1, <1>2, <1>3, <1>11 DEF CapsuleInv, Shape, CapsuleTypeOK, HandoffRows, Locks
  <1>5. events[h] = {} /\ SoundAsk(h)
      BY <1>1 DEF CapsuleInv, CallMatches
  <1>6. \A g \in Deliveries : Phase(g) # "recording"
      BY <1>1, TodosDiffer DEF CapsuleInv, CallMatches, Unlocked, Todos
  <1>7. \A g \in Deliveries : CallMatches(g)' /\ LedgerInOrder(g)'
    <2>1. CallMatches(h)'
        BY <1>1, <1>2, <1>5 DEF CallMatches, Phase, SoundAsk, Outcomes, KeepsAsk
    <2>2. ASSUME NEW g \in Deliveries, g # h PROVE CallMatches(g)'
        BY <1>1, <1>2, <1>6, <2>2 DEF CapsuleInv, CallMatches, Phase, SoundAsk, Recorded
    <2>3. \A g \in Deliveries : LedgerInOrder(g)'
        BY <1>1, <1>12, LedgerRests
    <2> QED BY <2>1, <2>2, <2>3
  <1>8. LockKept'
    <2>1. /\ todo \notin {<<"committed">>, <<"acknowledged", "committed">>, <<"validated">>,
                          <<"validated", "committed">>, <<"approved", "committed">>}
      <3> HIDE DEF todo
      <3> QED BY <1>3, Heads DEF Todos
    <2>2. locked'.handoff = h /\ locked'.todo = todo
        BY <1>1
    <2>3. StillFrom(h)'
        BY <1>1, <1>2 DEF StillFrom, SourceOwns, KeepsAsk
    <2> QED BY <1>2, <2>1, <2>2, <2>3 DEF LockKept, Phase
  <1>9. RequestHolds'
      BY <1>1, <1>2, <1>6 DEF RequestHolds, Phase, KeepsAsk
  <1>10. PendingIsLive' /\ OwnersAreParties'
      BY <1>1, <1>12, PendingRests, PartiesStay DEF CapsuleInv, OwnersAreParties
  <1>13. \A call \in checked' : CallKept(call)'
      BY <1>1, <1>11, <1>12, CallsStayKept
  <1> QED BY <1>4, <1>7, <1>8, <1>9, <1>10, <1>13 DEF CapsuleInv

LEMMA DeliveryKeepsInv ==
    ASSUME CapsuleInv, NEW h \in Deliveries, NEW outcome \in Outcomes, NEW reached \in BOOLEAN,
           DeliverPrompt(h, outcome, reached)
    PROVE  CapsuleInv'
  <1>1. /\ Phase(h) = "delivering" /\ EnterPhase(h, outcome)
        /\ received' \subseteq Deliveries /\ received \subseteq received'
        /\ UNCHANGED <<capsules, events, locked, checked, closed, sweep, notices, upsets>>
      BY DEF DeliverPrompt, CapsuleInv, Shape, CapsuleTypeOK
  <1>2. outcome \in Phases /\ outcome \notin {"unused", "asked", "recording", "delivering", "over"}
      BY DEF Outcomes, Phases
  <1>3. /\ handoffs' \in [Deliveries -> HandoffRows]
        /\ \A g \in Deliveries : g # h => handoffs'[g] = handoffs[g]
        /\ handoffs'[h].phase = outcome /\ KeepsAsk(h)
      BY <1>1, <1>2, PhaseEffect
  <1>4. Shape'
      BY <1>1, <1>3 DEF CapsuleInv, Shape, CapsuleTypeOK, HandoffRows
  <1>5. Recorded(h, "requested") /\ SoundAsk(h)
      BY <1>1 DEF CapsuleInv, CallMatches
  <1>6. CallMatches(h)'
      BY <1>1, <1>2, <1>3, <1>5 DEF CallMatches, Phase, SoundAsk, Recorded, KeepsAsk
  <1>7. CallsGoOn
      BY <1>1 DEF CallsGoOn
  <1> QED BY <1>1, <1>2, <1>3, <1>4, <1>6, <1>7, OneCallMoves

LEMMA OutcomeKeepsInv ==
    ASSUME CapsuleInv, NEW h \in Deliveries, RecordOutcome(h)
    PROVE  CapsuleInv'
  <1> DEFINE kind == Phase(h)
             c == handoffs[h].capsule
  <1>1. /\ kind \in Outcomes /\ Append1(h, kind) /\ EnterPhase(h, "over") /\ Overtake({Task(h)})
        /\ UNCHANGED <<received, locked, closed, sweep, notices, upsets>>
      BY DEF RecordOutcome
  <1>2. /\ kind \in Kinds /\ kind \in {"dispatched", "dispatch_uncertain", "failed"}
        /\ Phase(h) # "recording"
      BY <1>1 DEF Outcomes, Kinds
  <1>3. Recorded(h, "requested") /\ SoundAsk(h)
      BY <1>1 DEF CapsuleInv, CallMatches, Outcomes
  <1>4. /\ handoffs' \in [Deliveries -> HandoffRows]
        /\ \A g \in Deliveries : g # h => handoffs'[g] = handoffs[g]
        /\ handoffs'[h].phase = "over" /\ \A g \in Deliveries : KeepsAsk(g)
      BY <1>1, PhaseEffect DEF Phases
  <1> HIDE DEF kind
  <1>5. /\ capsules' \in [Capsules -> CapsuleRows]
        /\ \A d \in Capsules : d # c => capsules'[d] = capsules[d]
        /\ capsules'[c].status = capsules[c].status /\ capsules'[c].owner = capsules[c].owner
        /\ capsules'[c].pending = IF kind = "failed" /\ capsules[c].pending = h
                                    THEN NoHandoff ELSE capsules[c].pending
        /\ events' \in [Deliveries -> SUBSET Kinds]
        /\ events'[h] = events[h] \cup {kind}
        /\ \A g \in Deliveries : g # h => events'[g] = events[g]
      BY <1>1, <1>2, <1>3, AppendEffect DEF CapsuleInv
  <1>6. checked' \subseteq CheckedCalls /\ CallsGoOn
    <2>1. {Task(h)} \in SUBSET Nat
        BY TasksAreNumbers
    <2> QED BY <1>1, <2>1, OvertakingGoesOn DEF CapsuleInv
  <1>7. Shape'
      BY <1>1, <1>4, <1>5, <1>6 DEF CapsuleInv, Shape, CapsuleTypeOK, HandoffRows, CapsuleRows
  <1>8. AsksStay /\ LedgersGrow
      BY <1>4, <1>5 DEF AsksStay, LedgersGrow
  <1>9. \A d \in Capsules : capsules'[d].owner = capsules[d].owner
      BY <1>5
  <1>10. \A g \in Deliveries : Recorded(g, "committed")' <=> Recorded(g, "committed")
      BY <1>2, <1>5 DEF Recorded
  <1>11. \A g \in Deliveries : CallMatches(g)' /\ LedgerInOrder(g)'
    <2>1. CallMatches(h)' /\ LedgerInOrder(h)'
        BY <1>2, <1>3, <1>4, <1>5
           DEF CapsuleInv, CallMatches, LedgerInOrder, Phase, SoundAsk, Recorded, Outcomes, KeepsAsk
    <2>2. ASSUME NEW g \in Deliveries, g # h PROVE CallMatches(g)' /\ LedgerInOrder(g)'
        BY <1>1, <1>4, <1>5, <2>2 DEF CapsuleInv, CallMatches, LedgerInOrder, Phase, SoundAsk, Recorded
    <2> QED BY <2>1, <2>2
  <1>12. LockKept'
      BY <1>1, <1>2, <1>4, <1>8, <1>9, <1>10, LockRests
  <1>13. RequestHolds'
    <2>1. ASSUME NEW g \in Deliveries, Phase(g)' = "recording"
          PROVE  LET d == handoffs'[g].capsule IN
                 capsules'[d].status # "absent" /\ capsules'[d].pending = NoHandoff
      <3>1. g # h /\ Phase(g) = "recording" /\ handoffs'[g] = handoffs[g]
          BY <1>4, <2>1 DEF Phase
      <3>2. handoffs[g].capsule \in Capsules
          BY <3>1 DEF CapsuleInv, CallMatches, SoundAsk
      <3>3. /\ capsules[handoffs[g].capsule].status # "absent"
            /\ capsules[handoffs[g].capsule].pending = NoHandoff
          BY <3>1 DEF CapsuleInv, RequestHolds
      <3> QED BY <1>5, <3>1, <3>2, <3>3
    <2> QED BY <2>1 DEF RequestHolds
  <1>14. PendingIsLive'
      BY <1>1, <1>2, <1>3, <1>4, AppendKeepsPending
  <1>15. OwnersAreParties'
    <2>1. \A d \in Capsules : Committed(d)' = Committed(d)
        BY <1>4, <1>10 DEF Committed, KeepsAsk
    <2>2. \A d \in Capsules : Parties(d) \subseteq Parties(d)'
        BY <1>8, PartiesGrow
    <2> QED BY <1>9, <2>1, <2>2 DEF CapsuleInv, OwnersAreParties
  <1>16. \A call \in checked' : CallKept(call)'
    <2>1. \A old \in checked : old.capsule \in Capsules
        BY DEF CapsuleInv, Shape, CheckedCalls
    <2> QED BY <1>1, <1>6, <1>8, <1>9, <2>1, CallsStayKept
  <1> QED BY <1>7, <1>11, <1>12, <1>13, <1>14, <1>15, <1>16 DEF CapsuleInv

-----------------------------------------------------------------------------
(* Calls under the lock *)

LEMMA AcknowledgementKeepsInv ==
    ASSUME CapsuleInv, NEW h \in Deliveries, Acknowledge(h)
    PROVE  CapsuleInv'
  <1> DEFINE todo == (IF Recorded(h, "acknowledged") THEN <<>> ELSE <<"acknowledged">>)
                       \o (IF handoffs[h].validation THEN <<>> ELSE <<"committed">>)
  <1>1. Enter(h, todo) /\ Recorded(h, "requested") /\ ~Recorded(h, "committed") /\ SourceOwns(h) /\ todo # <<>>
      BY DEF Acknowledge, Enter
  <1>2. /\ todo \in {<<"acknowledged">>, <<"committed">>, <<"acknowledged", "committed">>}
        /\ todo = <<"acknowledged">> \/ ~handoffs[h].validation
        /\ todo = <<"committed">> => Recorded(h, "acknowledged")
    <2>1. <<"acknowledged">> # <<"committed">> /\ <<"acknowledged", "committed">> # <<"committed">>
        BY Heads
    <2>2. CASE Recorded(h, "acknowledged") /\ handoffs[h].validation
        BY <1>1, <2>2, Concatenations
    <2>3. CASE Recorded(h, "acknowledged") /\ ~handoffs[h].validation
        BY <2>3, Concatenations
    <2>4. CASE ~Recorded(h, "acknowledged") /\ handoffs[h].validation
        BY <2>1, <2>4, Concatenations
    <2>5. CASE ~Recorded(h, "acknowledged") /\ ~handoffs[h].validation
        BY <2>1, <2>5, Concatenations
    <2> QED BY <2>2, <2>3, <2>4, <2>5
  <1> HIDE DEF todo
  <1>3. todo \in Todos /\ Head(todo) \in {"acknowledged", "committed"}
      BY <1>2, Heads DEF Todos
  <1>4. /\ todo # <<"requested">>
        /\ todo \notin {<<"validated">>, <<"validated", "committed">>, <<"approved", "committed">>}
      BY <1>3, Heads
  <1>5. todo # <<"acknowledged", "committed">> \/ ~handoffs[h].validation
      BY <1>2, Heads
  <1>6. todo = <<"committed">> => Needs(h) \subseteq Given(h)
    <2>1. SUFFICES ASSUME todo = <<"committed">> PROVE Needs(h) \subseteq Given(h)
        OBVIOUS
    <2>2. ~handoffs[h].validation /\ Recorded(h, "acknowledged")
        BY <1>2, <2>1, Heads
    <2> QED BY <2>2 DEF Needs, Given
  <1> QED BY <1>1, <1>3, <1>4, <1>5, <1>6, EnterKeepsInv

LEMMA ValidationKeepsInv ==
    ASSUME CapsuleInv, NEW h \in Deliveries, NEW passed \in BOOLEAN, Validate(h, passed)
    PROVE  CapsuleInv'
  <1> DEFINE todo == IF ~passed THEN <<"validation_failed">>
                     ELSE IF handoffs[h].approval THEN <<"validated">>
                     ELSE <<"validated", "committed">>
  <1>1. Enter(h, todo) /\ Recorded(h, "acknowledged") /\ ~Recorded(h, "committed") /\ SourceOwns(h)
      BY DEF Validate
  <1>2. Recorded(h, "requested")
      BY DEF Validate
  <1>3. /\ todo \in {<<"validation_failed">>, <<"validated">>, <<"validated", "committed">>}
        /\ handoffs[h].approval => todo # <<"validated", "committed">>
      BY Heads
  <1> HIDE DEF todo
  <1>4. todo \in Todos /\ Head(todo) \in {"validation_failed", "validated"}
      BY <1>3, Heads DEF Todos
  <1>5. /\ todo # <<"requested">>
        /\ todo \notin {<<"committed">>, <<"acknowledged", "committed">>, <<"approved", "committed">>}
      BY <1>4, Heads
  <1> QED BY <1>1, <1>2, <1>3, <1>4, <1>5, EnterKeepsInv

LEMMA CapsuleApprovalKeepsInv ==
    ASSUME CapsuleInv, NEW h \in Deliveries, Approve(h)
    PROVE  CapsuleInv'
  <1> DEFINE todo == <<"approved", "committed">>
  <1>1. Enter(h, todo) /\ Recorded(h, "validated") /\ ~Recorded(h, "committed") /\ SourceOwns(h)
      BY DEF Approve
  <1>2. Recorded(h, "requested") /\ Recorded(h, "acknowledged")
      BY <1>1 DEF Approve, CapsuleInv, LedgerInOrder
  <1>3. todo \in Todos /\ Head(todo) = "approved"
      BY Heads DEF Todos
  <1> HIDE DEF todo
  <1>4. /\ todo # <<"requested">>
        /\ todo \notin {<<"committed">>, <<"acknowledged", "committed">>, <<"validated", "committed">>}
      BY <1>3, Heads
  <1> QED BY <1>1, <1>2, <1>3, <1>4, EnterKeepsInv

LEMMA CompletionKeepsInv ==
    ASSUME CapsuleInv, NEW h \in Deliveries, CompleteHandoff(h)
    PROVE  CapsuleInv'
  <1> DEFINE todo == <<"completed">>
  <1>1. Enter(h, todo) /\ Recorded(h, "committed")
      BY DEF CompleteHandoff
  <1>2. Recorded(h, "requested")
      BY <1>1 DEF CapsuleInv, LedgerInOrder, Recorded
  <1>3. todo \in Todos /\ Head(todo) = "completed" /\ todo = <<"completed">>
      BY Heads DEF Todos
  <1> HIDE DEF todo
  <1>4. /\ todo # <<"requested">>
        /\ todo \notin {<<"committed">>, <<"acknowledged", "committed">>, <<"validated">>,
                        <<"validated", "committed">>, <<"approved", "committed">>}
      BY <1>3, Heads
  <1> QED BY <1>1, <1>2, <1>3, <1>4, EnterKeepsInv

\* The call that holds the lock: which handoff, which event, and what that changes.
LEMMA LockedEffect ==
    ASSUME CapsuleInv, AppendLocked, NEW h, h = locked.handoff, NEW kind, kind = Head(locked.todo)
    PROVE  /\ h \in Deliveries /\ kind \in Kinds /\ locked.todo \in Todos /\ locked # Unlocked
           /\ Append1(h, kind) /\ SoundAsk(h)
           /\ \/ Len(locked.todo) = 1 /\ locked' = Unlocked
              \/ Len(locked.todo) = 2 /\ locked' = [handoff |-> h, todo |-> <<"committed">>]
           /\ kind = "requested" <=> locked.todo = <<"requested">>
           /\ kind = "committed" <=> locked.todo = <<"committed">>
           /\ kind = "requested" => /\ Phase(h) = "recording" /\ events[h] = {}
                                    /\ handoffs'[h].phase = "delivering"
           /\ kind # "requested" => /\ Recorded(h, "requested") /\ Phase(h) # "recording"
                                    /\ handoffs' = handoffs
           /\ kind = "committed" => ~Recorded(h, "committed") /\ Needs(h) \subseteq Given(h) /\ StillFrom(h)
           /\ handoffs' \in [Deliveries -> HandoffRows]
           /\ \A g \in Deliveries : KeepsAsk(g) /\ (g # h => handoffs'[g] = handoffs[g])
           /\ checked' \subseteq CheckedCalls /\ CallsGoOn
           /\ \A new \in checked' : TheLock \in new.passed
           /\ \A old \in checked : TheLock \notin old.passed
           /\ UNCHANGED <<received, closed, sweep, upsets>>
           /\ notices' \subseteq notices \cup {h}
  <1> DEFINE last == Len(locked.todo) = 1
             tasks == {TheLock} \cup (IF Phase(h) = "recording" THEN {Task(h)} ELSE {})
  <1>1. /\ locked # Unlocked /\ Append1(h, kind)
        /\ locked' = IF last THEN Unlocked ELSE [locked EXCEPT !.todo = Tail(@)]
        /\ handoffs' = IF last /\ Phase(h) = "recording"
                         THEN [handoffs EXCEPT ![h].phase = "delivering"] ELSE handoffs
        /\ Overtake(tasks)
        /\ UNCHANGED <<received, closed, sweep, upsets>>
        /\ notices' \subseteq notices \cup {h}
      BY DEF AppendLocked
  <1>2. locked \in Locks /\ h \in Deliveries /\ locked.todo \in Todos /\ SoundAsk(h)
      BY <1>1, LockHolder DEF CapsuleInv, Shape
  <1>3. /\ kind \in Kinds
        /\ last \/ (Len(locked.todo) = 2 /\ Tail(locked.todo) = <<"committed">>)
        /\ kind = "requested" <=> locked.todo = <<"requested">>
        /\ kind = "committed" <=> locked.todo = <<"committed">>
      BY <1>2, TodoTypes, TodosDiffer
  <1>4. \/ last /\ locked' = Unlocked
        \/ Len(locked.todo) = 2 /\ locked' = [handoff |-> h, todo |-> <<"committed">>]
    <2>1. CASE ~last
      <3>1. locked' = [locked EXCEPT !.todo = <<"committed">>]
          BY <1>1, <1>3, <2>1
      <3> QED BY <1>2, <1>3, <2>1, <3>1 DEF Locks
    <2> QED BY <1>1, <2>1
  <1>5. /\ kind = "requested" => Phase(h) = "recording" /\ last
        /\ kind # "requested" => Recorded(h, "requested")
        /\ kind = "committed" => ~Recorded(h, "committed") /\ Needs(h) \subseteq Given(h) /\ StillFrom(h)
    <2>1. <<"committed">> \notin {<<"requested">>, <<"completed">>}
        BY Heads
    <2> QED BY <1>1, <1>2, <1>3, <2>1, Heads DEF CapsuleInv, LockKept
  <1>6. /\ kind = "requested" => events[h] = {}
        /\ kind # "requested" => Phase(h) # "recording"
      BY <1>2, <1>5 DEF CapsuleInv, CallMatches, Recorded
  <1>7. /\ handoffs' \in [Deliveries -> HandoffRows]
        /\ \A g \in Deliveries : KeepsAsk(g) /\ (g # h => handoffs'[g] = handoffs[g])
        /\ kind = "requested" => handoffs'[h].phase = "delivering"
        /\ kind # "requested" => handoffs' = handoffs
    <2>1. CASE kind = "requested"
      <3>1. EnterPhase(h, "delivering")
          BY <1>1, <1>5, <2>1 DEF EnterPhase
      <3> QED BY <1>2, <2>1, <3>1, PhaseEffect DEF Phases
    <2>2. CASE kind # "requested"
      <3>1. handoffs' = handoffs
          BY <1>1, <1>6, <2>2
      <3> QED BY <2>2, <3>1 DEF CapsuleInv, Shape, CapsuleTypeOK, HandoffRows, KeepsAsk
    <2> QED BY <2>1, <2>2
  <1>8. /\ checked' \subseteq CheckedCalls /\ CallsGoOn
        /\ \A new \in checked' : TheLock \in new.passed
        /\ \A old \in checked : TheLock \notin old.passed
    <2>1. tasks \in SUBSET Nat /\ TheLock \in tasks
        BY <1>2, TasksAreNumbers
    <2> HIDE DEF tasks
    <2> QED BY <1>1, <2>1, OvertakingGoesOn DEF CapsuleInv
  <1> QED BY <1>1, <1>2, <1>3, <1>4, <1>5, <1>6, <1>7, <1>8

LEMMA LockedKeepsInv ==
    ASSUME CapsuleInv, AppendLocked, NEW h, h = locked.handoff, NEW kind, kind = Head(locked.todo)
    PROVE  CapsuleInv'
  <1>0. PICK c : c = handoffs[h].capsule
      OBVIOUS
  <1>1. /\ h \in Deliveries /\ kind \in Kinds /\ locked.todo \in Todos /\ locked # Unlocked
        /\ Append1(h, kind) /\ SoundAsk(h)
        /\ \/ Len(locked.todo) = 1 /\ locked' = Unlocked
           \/ Len(locked.todo) = 2 /\ locked' = [handoff |-> h, todo |-> <<"committed">>]
        /\ kind = "requested" <=> locked.todo = <<"requested">>
        /\ kind = "committed" <=> locked.todo = <<"committed">>
        /\ kind = "requested" => /\ Phase(h) = "recording" /\ events[h] = {}
                                 /\ handoffs'[h].phase = "delivering"
        /\ kind # "requested" => /\ Recorded(h, "requested") /\ Phase(h) # "recording"
                                 /\ handoffs' = handoffs
        /\ kind = "committed" => ~Recorded(h, "committed") /\ Needs(h) \subseteq Given(h) /\ StillFrom(h)
        /\ handoffs' \in [Deliveries -> HandoffRows]
        /\ \A g \in Deliveries : KeepsAsk(g) /\ (g # h => handoffs'[g] = handoffs[g])
        /\ checked' \subseteq CheckedCalls /\ CallsGoOn
        /\ \A new \in checked' : TheLock \in new.passed
        /\ \A old \in checked : TheLock \notin old.passed
        /\ UNCHANGED <<received, closed, sweep, upsets>>
        /\ notices' \subseteq notices \cup {h}
      BY LockedEffect
  <1>2. /\ kind = "validated" => Recorded(h, "acknowledged")
        /\ kind \notin {"dispatched", "dispatch_uncertain", "failed"}
        /\ Len(locked.todo) = 2 =>
             /\ kind \in {"acknowledged", "validated", "approved"}
             /\ ~Recorded(h, "committed") /\ StillFrom(h)
             /\ kind = "acknowledged" => ~handoffs[h].validation
             /\ kind = "validated" => Recorded(h, "acknowledged") /\ ~handoffs[h].approval
             /\ kind = "approved" => Recorded(h, "validated") /\ Recorded(h, "acknowledged")
    <2>1. /\ kind = "validated" => locked.todo \in {<<"validated">>, <<"validated", "committed">>}
          /\ kind = "approved" => locked.todo = <<"approved", "committed">>
          /\ Len(locked.todo) = 2 =>
               /\ kind \in {"acknowledged", "validated", "approved"}
               /\ kind = "acknowledged" => locked.todo = <<"acknowledged", "committed">>
               /\ kind = "validated" => locked.todo = <<"validated", "committed">>
          /\ kind = "requested" <=> locked.todo = <<"requested">>
          /\ kind = "completed" <=> locked.todo = <<"completed">>
          /\ kind \notin {"dispatched", "dispatch_uncertain", "failed"}
        BY <1>1, TodosDiffer
    <2> QED BY <1>1, <2>1 DEF CapsuleInv, LockKept
  <1>3. /\ capsules' \in [Capsules -> CapsuleRows]
        /\ events' \in [Deliveries -> SUBSET Kinds]
        /\ events'[h] = events[h] \cup {kind}
        /\ \A g \in Deliveries : g # h => events'[g] = events[g]
        /\ \A d \in Capsules : d # c => capsules'[d] = capsules[d]
        /\ capsules'[c].owner = IF kind = "committed" THEN handoffs[h].to ELSE capsules[c].owner
        /\ c \in Capsules
      BY <1>0, <1>1, AppendEffect DEF CapsuleInv, SoundAsk
  <1>4. Shape'
    <2>1. locked' \in Locks \cup {Unlocked}
        BY <1>1 DEF Locks, Todos
    <2>2. CapsuleTypeOK'
        BY <1>1, <1>3 DEF CapsuleInv, Shape, CapsuleTypeOK, HandoffRows, CapsuleRows
    <2> QED BY <1>1, <2>1, <2>2 DEF CapsuleInv, Shape
  <1>5. AsksStay /\ LedgersGrow
      BY <1>1, <1>3 DEF AsksStay, LedgersGrow
  <1>6. \A d : (UpsetBy(d) => UpsetBy(d)') /\ Parties(d) \subseteq Parties(d)'
      BY <1>5, PartiesGrow
  <1>7. \A g \in Deliveries : Phase(g)' # "recording"
    <2>1. ASSUME NEW g \in Deliveries, g # h PROVE Phase(g) # "recording"
        BY <1>1, <2>1 DEF CapsuleInv, CallMatches
    <2> QED BY <1>1, <2>1 DEF Phase
  <1>8. \A g \in Deliveries : CallMatches(g)' /\ LedgerInOrder(g)'
    <2>1. ASSUME NEW g \in Deliveries, g # h PROVE CallMatches(g)' /\ LedgerInOrder(g)'
        BY <1>1, <1>3, <1>7, <2>1 DEF CapsuleInv, CallMatches, LedgerInOrder, Phase, SoundAsk, Recorded
    <2>2. SoundAsk(h)'
        BY <1>1 DEF SoundAsk, KeepsAsk
    <2>3. CASE kind = "requested"
        BY <1>1, <1>3, <2>1, <2>2, <2>3 DEF CallMatches, LedgerInOrder, Phase, Recorded, Outcomes
    <2>4. CASE kind # "requested"
      <3>1. CallMatches(h)'
          BY <1>1, <1>3, <2>2, <2>4 DEF CapsuleInv, CallMatches, Phase, Recorded
      <3>2. LedgerInOrder(h)'
        <4>1. Recorded(h, "validated") => Recorded(h, "acknowledged")
            BY <1>1 DEF CapsuleInv, LedgerInOrder
        <4> QED BY <1>1, <1>2, <1>3, <2>2, <2>4, <4>1 DEF LedgerInOrder, Recorded
      <3> QED BY <2>1, <3>1, <3>2
    <2> QED BY <2>3, <2>4
  <1>9. LockKept'
    <2>1. CASE locked' = Unlocked
        BY <2>1 DEF LockKept, Unlocked
    <2>2. CASE Len(locked.todo) = 2 /\ locked' = [handoff |-> h, todo |-> <<"committed">>]
      <3>1. locked'.handoff = h /\ locked'.todo = <<"committed">>
          BY <2>2
      <3>2. Recorded(h, "requested")' /\ ~Recorded(h, "committed")' /\ StillFrom(h)'
        <4>1. kind \notin {"requested", "committed"} /\ Recorded(h, "requested")
            BY <1>1, <1>2, <2>2
        <4>2. StillFrom(h)'
          <5>1. SourceOwns(h) \/ UpsetBy(c)
              BY <1>0, <1>2, <2>2 DEF StillFrom
          <5> QED BY <1>0, <1>1, <1>3, <1>6, <4>1, <5>1 DEF StillFrom, SourceOwns, KeepsAsk
        <4> QED BY <1>2, <1>3, <2>2, <4>1, <4>2 DEF Recorded
      <3>3. (Needs(h) \subseteq Given(h))'
        <4>1. CASE kind = "acknowledged"
            BY <1>1, <1>2, <1>3, <2>2, <4>1 DEF Needs, Given, Recorded, KeepsAsk
        <4>2. CASE kind = "validated"
            BY <1>1, <1>2, <1>3, <2>2, <4>2 DEF Needs, Given, Recorded, KeepsAsk
        <4>3. CASE kind = "approved"
            BY <1>1, <1>2, <1>3, <2>2, <4>3 DEF Needs, Given, Recorded, KeepsAsk
        <4> QED BY <1>2, <2>2, <4>1, <4>2, <4>3
      <3>4. <<"committed">> \notin {<<"requested">>, <<"acknowledged", "committed">>, <<"validated">>,
                                    <<"validated", "committed">>, <<"approved", "committed">>}
          BY Heads
      <3> QED BY <3>1, <3>2, <3>3, <3>4 DEF LockKept
    <2> QED BY <1>1, <2>1, <2>2
  <1>10. RequestHolds'
      BY <1>7 DEF RequestHolds
  <1>11. PendingIsLive'
    <2>1. kind = "requested" => capsules[handoffs[h].capsule].pending = NoHandoff
        BY <1>1 DEF CapsuleInv, RequestHolds
    <2> QED BY <1>1, <2>1, AppendKeepsPending
  <1>12. kind = "committed" => /\ h \in Committed(c)' /\ {handoffs[h].from, handoffs[h].to} \subseteq Parties(c)'
    <2>1. kind = "committed" => h \in Committed(c)'
        BY <1>0, <1>1, <1>3 DEF Committed, Recorded, KeepsAsk
    <2> QED BY <1>1, <2>1 DEF Parties, KeepsAsk
  <1>13. OwnersAreParties'
    <2>1. ASSUME NEW d \in Capsules, Committed(d)' # {}
          PROVE  capsules'[d].owner \in Parties(d)'
      <3>1. CASE kind = "committed" /\ d = c
          BY <1>3, <1>12, <3>1
      <3>2. CASE ~(kind = "committed" /\ d = c)
        <4>1. \A g \in Deliveries : g \in Committed(d)' => g \in Committed(d)
            BY <1>0, <1>1, <1>3, <3>2 DEF Committed, Recorded, KeepsAsk
        <4>2. Committed(d) # {}
            BY <2>1, <4>1 DEF Committed
        <4>3. capsules[d].owner \in Parties(d)
            BY <4>2 DEF CapsuleInv, OwnersAreParties
        <4>4. capsules'[d].owner = capsules[d].owner
            BY <1>3, <3>2
        <4> QED BY <1>6, <4>3, <4>4
      <3> QED BY <3>1, <3>2
    <2> QED BY <2>1 DEF OwnersAreParties
  <1>14. \A call \in checked' : CallKept(call)'
    <2>1. ASSUME NEW old \in checked, old.agent \in Agents,
                 capsules'[old.capsule].owner # capsules[old.capsule].owner
          PROVE  UpsetBy(old.capsule)' /\ capsules[old.capsule].owner \in Parties(old.capsule)'
      <3>1. old.capsule = c /\ kind = "committed"
          BY <1>3, <2>1 DEF CapsuleInv, Shape, CheckedCalls
      <3>2. MayMove(c)
        <4>1. <<"committed">> \notin {<<"requested">>, <<"completed">>}
            BY Heads
        <4> QED BY <1>0, <1>1, <3>1, <4>1 DEF MayMove
      <3>3. Recorded(h, "failed") \/ UpsetBy(c)
          BY <1>1, <2>1, <3>1, <3>2 DEF CapsuleInv, CallKept
      <3>4. UpsetBy(c)'
        <4>1. CASE Recorded(h, "failed")
            BY <1>0, <1>1, <1>3, <3>1, <4>1 DEF UpsetBy, Upsetting, Recorded, KeepsAsk
        <4> QED BY <1>6, <3>3, <4>1
      <3>5. capsules[c].owner \in Parties(c)'
        <4>1. CASE SourceOwns(h)
            BY <1>0, <1>12, <3>1, <4>1 DEF SourceOwns
        <4>2. CASE UpsetBy(c)
            BY <1>3, <1>6, <4>2, PartiesAreAgents
        <4> QED BY <1>0, <1>1, <3>1, <4>1, <4>2 DEF StillFrom
      <3> QED BY <3>1, <3>4, <3>5
    <2> QED BY <1>1, <1>5, <2>1, CallsStayKept
  <1> QED BY <1>4, <1>8, <1>9, <1>10, <1>11, <1>13, <1>14 DEF CapsuleInv

-----------------------------------------------------------------------------
(* Lanes, notices and crashes *)

LEMMA SweepShape ==
    ASSUME CapsuleInv, UNCHANGED <<capsules, events, handoffs, received, locked>>,
           checked' \subseteq CheckedCalls, CallsGoOn, closed' \subseteq Agents, upsets' \in 0..MaxUpsets, notices' \subseteq notices,
           sweep' \in Sweeps, sweep'.at # "none" => sweep'.agent \in Agents
    PROVE  CapsuleInv'
  <1>1. Shape'
      BY DEF CapsuleInv, Shape, CapsuleTypeOK
  <1> QED BY <1>1, QuietKeepsInv

LEMMA UncheckedGoesOn ==
    ASSUME CapsuleInv, UNCHANGED checked
    PROVE  checked' \subseteq CheckedCalls /\ CallsGoOn
  BY DEF CapsuleInv, Shape, CallsGoOn

LEMMA SweepOvertakes ==
    ASSUME CapsuleInv, Overtake({Sweeper})
    PROVE  checked' \subseteq CheckedCalls /\ CallsGoOn
  <1>1. {Sweeper} \in SUBSET Nat
      BY CapsuleAssumption DEF Sweeper
  <1> QED BY <1>1, OvertakingGoesOn DEF CapsuleInv

LEMMA NoSweepType == NoSweep \in Sweeps /\ NoSweep.at = "none"
  BY DEF NoSweep, Sweeps, Portabilities

LEMMA LanesKeepInv ==
    ASSUME CapsuleInv, NEW a \in Agents, CloseLane(a) \/ SwitchLane(a)
    PROVE  CapsuleInv'
  <1>1. upsets' \in 0..MaxUpsets /\ closed' \subseteq Agents
      BY CapsuleAssumption DEF CapsuleInv, Shape, CapsuleTypeOK, CloseLane, SwitchLane, Upset
  <1>2. sweep' \in Sweeps /\ (sweep'.at # "none" => sweep'.agent \in Agents)
    <2>1. CASE SwitchLane(a)
        BY <2>1 DEF SwitchLane, CapsuleInv, Shape
    <2>2. CASE CloseLane(a)
      <3> DEFINE started == [NoSweep EXCEPT !.at = "start"]
      <3>1. sweep' = [started EXCEPT !.agent = a]
          BY <2>2 DEF CloseLane
      <3>2. started \in Sweeps /\ started.at = "start"
          BY DEF NoSweep, Sweeps, Portabilities
      <3> HIDE DEF started
      <3> QED BY <3>1, <3>2 DEF Sweeps
    <2> QED BY <2>1, <2>2
  <1> QED BY <1>1, <1>2, SweepShape, UncheckedGoesOn DEF CloseLane, SwitchLane

LEMMA ReadingKeepsInv ==
    ASSUME CapsuleInv, ReadLanes
    PROVE  CapsuleInv'
  <1>1. /\ sweep' = [sweep EXCEPT !.at = "lanes", !.closed = closed]
        /\ sweep.at = "start" /\ Overtake({Sweeper})
        /\ UNCHANGED <<capsules, events, handoffs, received, locked, closed, notices, upsets>>
      BY DEF ReadLanes
  <1>2. sweep \in Sweeps /\ sweep.agent \in Agents /\ closed \subseteq Agents
      BY <1>1 DEF CapsuleInv, Shape, CapsuleTypeOK
  <1>3. sweep' \in Sweeps /\ sweep'.agent \in Agents
    <2> DEFINE one == [sweep EXCEPT !.at = "lanes"]
    <2>1. one \in Sweeps /\ one.agent \in Agents
        BY <1>2 DEF Sweeps
    <2>2. sweep' = [one EXCEPT !.closed = closed]
        BY <1>1
    <2> HIDE DEF one
    <2> QED BY <1>2, <2>1, <2>2 DEF Sweeps
  <1> QED BY <1>1, <1>3, SweepShape, SweepOvertakes DEF CapsuleInv, Shape, CapsuleTypeOK

LEMMA StartKeepsInv ==
    ASSUME CapsuleInv, StartSweep
    PROVE  CapsuleInv'
  <1> DEFINE contracts == [c \in Capsules |-> capsules[c].contract]
             todo == {c \in Capsules : /\ capsules[c].status = "active"
                                       /\ capsules[c].owner = sweep.agent
                                       /\ capsules[c].pending = NoHandoff}
  <1>1. /\ sweep' = [sweep EXCEPT !.at = "next", !.contracts = contracts, !.todo = todo]
        /\ sweep.at = "lanes" /\ Overtake({Sweeper})
        /\ UNCHANGED <<capsules, events, handoffs, received, locked, closed, notices, upsets>>
      BY DEF StartSweep
  <1>2. contracts \in [Capsules -> Portabilities] /\ todo \subseteq Capsules
      BY DEF CapsuleInv, Shape, CapsuleTypeOK
  <1> HIDE DEF contracts, todo
  <1>3. sweep \in Sweeps /\ sweep.agent \in Agents
      BY <1>1 DEF CapsuleInv, Shape
  <1>4. sweep' \in Sweeps /\ sweep'.agent \in Agents
    <2> DEFINE one == [sweep EXCEPT !.at = "next"]
               two == [one EXCEPT !.contracts = contracts]
    <2>1. one \in Sweeps /\ one.agent \in Agents
        BY <1>3 DEF Sweeps
    <2>2. two \in Sweeps /\ two.agent \in Agents
      <3> HIDE DEF one
      <3> QED BY <1>2, <2>1 DEF Sweeps
    <2>3. sweep' = [two EXCEPT !.todo = todo]
        BY <1>1
    <2> HIDE DEF two
    <2> QED BY <1>2, <2>2, <2>3 DEF Sweeps
  <1> QED BY <1>1, <1>4, SweepShape, SweepOvertakes DEF CapsuleInv, Shape, CapsuleTypeOK

LEMMA SweepKeepsInv ==
    ASSUME CapsuleInv, SweepGoesOn \/ \E c \in Capsules : SweepSkips(c)
    PROVE  CapsuleInv'
  <1>1. sweep \in Sweeps /\ (sweep.at # "none" => sweep.agent \in Agents)
      BY DEF CapsuleInv, Shape
  <1>2. sweep' \in Sweeps /\ (sweep'.at # "none" => sweep'.agent \in Agents)
    <2>1. CASE SweepGoesOn /\ sweep.at = "waiting"
      <3> DEFINE next == [sweep EXCEPT !.at = "next"]
      <3>1. sweep' = [next EXCEPT !.waiting = NoHandoff]
          BY <2>1 DEF SweepGoesOn
      <3>2. next \in Sweeps /\ next.agent \in Agents
          BY <1>1, <2>1 DEF Sweeps
      <3> HIDE DEF next
      <3> QED BY <3>1, <3>2 DEF Sweeps
    <2>2. CASE SweepGoesOn /\ sweep.at # "waiting"
        BY <2>2, NoSweepType DEF SweepGoesOn
    <2>3. CASE \E c \in Capsules : SweepSkips(c)
        BY <1>1, <2>3 DEF SweepSkips, Sweeps
    <2> QED BY <2>1, <2>2, <2>3
  <1>3. UNCHANGED <<capsules, events, handoffs, received, locked, checked, closed, notices, upsets>>
      BY DEF SweepGoesOn, SweepSkips
  <1> QED BY <1>2, <1>3, SweepShape, UncheckedGoesOn DEF CapsuleInv, Shape, CapsuleTypeOK

LEMMA HandingOffKeepsInv ==
    ASSUME CapsuleInv, NEW c \in Capsules, NEW h \in Deliveries, NEW to \in Agents,
           SweepHandsOff(c, h, to)
    PROVE  CapsuleInv'
  <1> DEFINE guarded == sweep.contracts[c] = "guarded"
             r == Request(c, sweep.agent, to, TRUE, guarded, TRUE)
  <1>1. /\ AskHandoff(h, r, FALSE) /\ sweep.at = "next"
        /\ sweep' = [sweep EXCEPT !.todo = @ \ {c}, !.at = "waiting", !.waiting = h]
        /\ UNCHANGED <<capsules, events, received, locked, closed, notices, upsets>>
      BY DEF SweepHandsOff
  <1>2. sweep \in Sweeps /\ sweep.agent \in Agents /\ guarded \in BOOLEAN
      BY <1>1 DEF CapsuleInv, Shape
  <1>3. sweep' \in Sweeps /\ sweep'.agent \in Agents
    <2> DEFINE one == [sweep EXCEPT !.todo = @ \ {c}]
               two == [one EXCEPT !.at = "waiting"]
    <2>1. one \in Sweeps /\ one.agent \in Agents
        BY <1>2 DEF Sweeps
    <2>2. two \in Sweeps /\ two.agent \in Agents
      <3> HIDE DEF one
      <3> QED BY <2>1 DEF Sweeps
    <2>3. sweep' = [two EXCEPT !.waiting = h]
        BY <1>1
    <2> HIDE DEF two
    <2> QED BY <2>2, <2>3 DEF Sweeps
  <1> HIDE DEF guarded
  <1>4. handoffs' \in [Deliveries -> HandoffRows]
    <2>1. r \in HandoffRows
        BY <1>2, RequestType
    <2>2. handoffs' = [handoffs EXCEPT ![h] = r]
        BY <1>1 DEF AskHandoff
    <2> HIDE DEF r
    <2> QED BY <2>1, <2>2 DEF CapsuleInv, Shape, CapsuleTypeOK, HandoffRows
  <1>6. checked' \subseteq CheckedCalls /\ CallsGoOn
      BY <1>1, AskingOvertakes
  <1>5. Shape'
      BY <1>1, <1>3, <1>4, <1>6 DEF CapsuleInv, Shape, CapsuleTypeOK, HandoffRows
  <1> QED BY <1>1, <1>2, <1>5, <1>6, AskKeepsInv

LEMMA ResumingKeepsInv ==
    ASSUME CapsuleInv, NEW h \in Deliveries, Resume(h)
    PROVE  CapsuleInv'
  BY SweepShape, UncheckedGoesOn DEF Resume, CapsuleInv, Shape, CapsuleTypeOK

LEMMA CrashEffect ==
    ASSUME CapsuleInv, CapsuleCrash
    PROVE  /\ handoffs' \in [Deliveries -> HandoffRows]
           /\ \A h \in Deliveries :
                /\ handoffs'[h].phase \in {"unused", "over"}
                /\ handoffs'[h].phase = "unused" => Phase(h) = "unused"
                /\ KeepsAsk(h)
  <1> SUFFICES ASSUME NEW h \in Deliveries
               PROVE  /\ handoffs'[h] \in HandoffRows
                      /\ handoffs'[h].phase \in {"unused", "over"}
                      /\ handoffs'[h].phase = "unused" => Phase(h) = "unused"
                      /\ KeepsAsk(h)
      BY DEF CapsuleCrash
  <1> DEFINE r == handoffs[h]
  <1>1. r \in HandoffRows
      BY DEF CapsuleInv, Shape, CapsuleTypeOK, HandoffRows
  <1>2. handoffs'[h] = IF r.phase = "unused" THEN r ELSE [r EXCEPT !.phase = "over"]
      BY DEF CapsuleCrash, Phase
  <1>3. "over" \in Phases
      BY DEF Phases
  <1>4. Phase(h) = r.phase
      BY DEF Phase
  <1> HIDE DEF r
  <1>5. /\ handoffs'[h] \in HandoffRows
        /\ handoffs'[h].phase \in {"unused", "over"}
        /\ handoffs'[h].phase = "unused" => r.phase = "unused"
        /\ handoffs'[h].capsule = r.capsule
        /\ handoffs'[h].from = r.from /\ handoffs'[h].to = r.to
        /\ handoffs'[h].validation = r.validation
        /\ handoffs'[h].approval = r.approval
      BY <1>1, <1>2, <1>3 DEF HandoffRows
  <1> QED BY <1>4, <1>5 DEF r, KeepsAsk

LEMMA CrashKeepsInv ==
    ASSUME CapsuleInv, CapsuleCrash
    PROVE  CapsuleInv'
  <1>1. /\ locked' = Unlocked /\ checked' = {} /\ sweep' = NoSweep /\ notices' = {} /\ Upset
        /\ UNCHANGED <<capsules, events, received, closed>>
      BY DEF CapsuleCrash
  <1>2. upsets' \in 0..MaxUpsets
      BY <1>1, CapsuleAssumption DEF CapsuleInv, Shape, CapsuleTypeOK, Upset
  <1>3. Shape'
      BY <1>1, <1>2, CrashEffect, NoSweepType DEF CapsuleInv, Shape, CapsuleTypeOK, HandoffRows
  <1>4. AsksStay /\ LedgersGrow
      BY <1>1, CrashEffect DEF AsksStay, LedgersGrow
  <1>5. \A h \in Deliveries : CallMatches(h)' /\ LedgerInOrder(h)'
    <2>1. ASSUME NEW h \in Deliveries PROVE CallMatches(h)'
        BY <1>1, CrashEffect DEF CapsuleInv, CallMatches, Phase, Outcomes
    <2>2. \A h \in Deliveries : LedgerInOrder(h)'
        BY <1>1, <1>4, LedgerRests
    <2> QED BY <2>1, <2>2
  <1>6. LockKept' /\ RequestHolds'
      BY <1>1, CrashEffect DEF LockKept, RequestHolds, Phase, Unlocked
  <1>7. PendingIsLive' /\ OwnersAreParties'
      BY <1>1, <1>4, PendingRests, PartiesStay DEF CapsuleInv, OwnersAreParties
  <1> QED BY <1>1, <1>3, <1>5, <1>6, <1>7 DEF CapsuleInv

-----------------------------------------------------------------------------
LEMMA CapsuleStepKeepsInv == CapsuleInv /\ [CapsuleNext]_capsuleVars => CapsuleInv'
  <1> SUFFICES ASSUME CapsuleInv, [CapsuleNext]_capsuleVars PROVE CapsuleInv'
      OBVIOUS
  <1>1. CASE OutsideTheLock
      BY <1>1, CreationKeepsInv, ChecksKeepInv, CheckedKeepsInv DEF OutsideTheLock
  <1>2. CASE HandoffCall
      BY <1>2, AskingKeepsInv, RefusalKeepsInv, RequestingKeepsInv, DeliveryKeepsInv,
         OutcomeKeepsInv DEF HandoffCall
  <1>3. CASE UnderTheLock
      BY <1>3, AcknowledgementKeepsInv, ValidationKeepsInv, CapsuleApprovalKeepsInv,
         CompletionKeepsInv, LockedKeepsInv DEF UnderTheLock
  <1>4. CASE Lanes
      BY <1>4, LanesKeepInv, ReadingKeepsInv, StartKeepsInv, SweepKeepsInv, HandingOffKeepsInv DEF Lanes
  <1>5. CASE (\E h \in Deliveries : Resume(h)) \/ CapsuleCrash
      BY <1>5, ResumingKeepsInv, CrashKeepsInv
  <1>6. CASE UNCHANGED capsuleVars
    <2>1. Shape'
        BY <1>6 DEF capsuleVars, CapsuleInv, Shape, CapsuleTypeOK
    <2>2. CallsGoOn
        BY <1>6 DEF capsuleVars, CallsGoOn
    <2> QED BY <1>6, <2>1, <2>2, QuietKeepsInv DEF capsuleVars
  <1> QED BY <1>1, <1>2, <1>3, <1>4, <1>5, <1>6 DEF CapsuleNext

\* The inductive invariant: calls, ledger, lock and projection agree.
THEOREM CapsulesAreInvariant == CapsuleSpec => []CapsuleInv
  <1> QED BY CapsuleInitInv, CapsuleStepKeepsInv, PTL DEF CapsuleSpec

\* What is pending of a capsule is on record as requested and undecided, and nothing else of
\* the capsule is, unless a failed handoff has moved it (CapsuleManager.request_handoff, the
\* projection of its events): whatever calls interleave and wherever the process dies.
THEOREM PendingStaysLive == CapsuleSpec => []PendingIsLive
  <1> QED BY CapsulesAreInvariant, PTL DEF CapsuleInv

-----------------------------------------------------------------------------
(* The ledger implements CapsuleOwnership *)

Owners == [c \in Capsules |-> capsules[c].owner]

Unmade == [capsule |-> None, from |-> None, to |-> None, needs |-> {}]

MadeOf(h) ==
    [capsule |-> handoffs[h].capsule, from |-> handoffs[h].from, to |-> handoffs[h].to,
     needs |-> Needs(h)]

OffersMade == [h \in Deliveries |-> IF Recorded(h, "requested") THEN MadeOf(h) ELSE Unmade]

Givens == [h \in Deliveries |-> Given(h)]

Lapsed == {h \in Deliveries : Recorded(h, "failed")}

Taken == {h \in Deliveries : Recorded(h, "committed")}

OwnershipStep ==
    Ownership!OwnershipNext \/ UNCHANGED <<Owners, OffersMade, Givens, Lapsed, Taken>>

LEMMA ChangedAt ==
    ASSUME NEW S, NEW f, NEW g, f = [x \in S |-> f[x]], g = [x \in S |-> g[x]],
           NEW c \in S, NEW v, g[c] = v, \A d \in S : d # c => g[d] = f[d]
    PROVE  g = [f EXCEPT ![c] = v]
  OBVIOUS

LEMMA SameFunctions ==
    ASSUME NEW S, NEW f, NEW g, f = [x \in S |-> f[x]], g = [x \in S |-> g[x]],
           \A d \in S : g[d] = f[d]
    PROVE  g = f
  OBVIOUS

LEMMA MappedFunctions ==
    /\ Owners = [x \in Capsules |-> Owners[x]] /\ Owners' = [x \in Capsules |-> Owners'[x]]
    /\ OffersMade = [x \in Deliveries |-> OffersMade[x]]
    /\ OffersMade' = [x \in Deliveries |-> OffersMade'[x]]
    /\ Givens = [x \in Deliveries |-> Givens[x]] /\ Givens' = [x \in Deliveries |-> Givens'[x]]
  BY DEF Owners, OffersMade, Givens

\* The mapping, in terms of the ledger.
LEMMA OffersAreRequests ==
    ASSUME CapsuleInv, NEW h \in Deliveries
    PROVE  /\ Ownership!Made(h) <=> Recorded(h, "requested")
           /\ Recorded(h, "requested") => OffersMade[h] = MadeOf(h)
           /\ h \in Taken => Recorded(h, "requested")
  <1>1. Recorded(h, "requested") => handoffs[h].capsule \in Capsules /\ None \notin Capsules
      BY CapsuleAssumption DEF CapsuleInv, LedgerInOrder, SoundAsk, Recorded
  <1>2. OffersMade[h] = IF Recorded(h, "requested") THEN MadeOf(h) ELSE Unmade
      BY DEF OffersMade
  <1>3. MadeOf(h).capsule = handoffs[h].capsule /\ Unmade.capsule = None
      BY DEF MadeOf, Unmade
  <1>4. Ownership!Made(h) <=> OffersMade[h] # Unmade
      BY DEF Ownership!Made, Ownership!NoOffer, OffersMade, MadeOf, Unmade
  <1>5. h \in Taken => Recorded(h, "requested")
      BY DEF Taken, CapsuleInv, LedgerInOrder, Recorded
  <1> QED BY <1>1, <1>2, <1>3, <1>4, <1>5

LEMMA UpsetsAreUpsets ==
    ASSUME CapsuleInv, NEW c \in Capsules
    PROVE  Ownership!UpsetCapsule(c) <=> UpsetBy(c)
  <1>1. Ownership!UpsetCapsule(c) <=> \E h \in Lapsed \cap Taken : OffersMade[h].capsule = c
      BY DEF Ownership!UpsetCapsule, OffersMade, Lapsed, Taken, MadeOf, Unmade
  <1>2. \A h \in Lapsed \cap Taken : OffersMade[h].capsule = handoffs[h].capsule
    <2> SUFFICES ASSUME NEW h \in Lapsed \cap Taken PROVE OffersMade[h].capsule = handoffs[h].capsule
        OBVIOUS
    <2>1. h \in Deliveries
        BY DEF Taken
    <2>2. OffersMade[h] = MadeOf(h)
        BY <2>1, OffersAreRequests
    <2> QED BY <2>2 DEF MadeOf
  <1> QED BY <1>1, <1>2 DEF UpsetBy, Upsetting, Lapsed, Taken

LEMMA OwnershipCreates ==
    ASSUME NEW c \in Capsules, NEW a \in Agents, Owners[c] = None,
           Owners' = [Owners EXCEPT ![c] = a], UNCHANGED <<OffersMade, Givens, Lapsed, Taken>>
    PROVE  OwnershipStep
  <1>1. Ownership!Create(c)
      BY Zenon DEF Ownership!Create, Owners, OffersMade, Givens, Lapsed, Taken, MadeOf, Unmade
  <1> QED BY <1>1 DEF Ownership!OwnershipNext, OwnershipStep

LEMMA OwnershipOffers ==
    ASSUME NEW c \in Capsules, NEW h \in Deliveries, ~Ownership!Made(h), Owners[c] # None,
           NEW from \in Agents, NEW to \in Agents, from # to,
           NEW needs \in SUBSET {"receipt", "evidence", "approval"},
           \/ Ownership!UpsetCapsule(c)
           \/ /\ Owners[c] = from
              /\ \A g \in Deliveries : Ownership!Stands(g) => OffersMade[g].capsule # c,
           OffersMade' = [OffersMade EXCEPT ![h] =
              [capsule |-> c, from |-> from, to |-> to, needs |-> needs]],
           UNCHANGED <<Owners, Givens, Lapsed, Taken>>
    PROVE  OwnershipStep
  <1>1. Ownership!MakeOffer(h, c)
    <2>1. \/ Ownership!UpsetCapsule(c)
          \/ \A g \in Deliveries : Ownership!Stands(g) => OffersMade[g].capsule # c
        OBVIOUS
    <2>2. Ownership!UpsetCapsule(c) \/ Owners[c] = from
        OBVIOUS
    <2>3. \E f \in Agents, t \in Agents, n \in SUBSET {"receipt", "evidence", "approval"} :
            /\ f # t
            /\ Ownership!UpsetCapsule(c) \/ Owners[c] = f
            /\ OffersMade' = [OffersMade EXCEPT ![h] =
                 [capsule |-> c, from |-> f, to |-> t, needs |-> n]]
        BY <2>2, Zenon
    <2>4. UNCHANGED <<Owners, Givens, Lapsed, Taken>>
        OBVIOUS
    <2> QED BY <2>1, <2>3, <2>4, Zenon DEF Ownership!MakeOffer, Ownership!Consents, Owners, OffersMade,
                                          Givens, Lapsed, Taken, MadeOf, Unmade
  <1> QED BY <1>1 DEF Ownership!OwnershipNext, OwnershipStep

LEMMA OwnershipGives ==
    ASSUME NEW h \in Deliveries, NEW x \in {"receipt", "evidence", "approval"},
           Ownership!Made(h), h \notin Taken,
           Givens' = [Givens EXCEPT ![h] = Givens[h] \cup {x}],
           UNCHANGED <<Owners, OffersMade, Lapsed, Taken>>
    PROVE  OwnershipStep
  <1>1. Ownership!Give(h)
      BY Zenon DEF Ownership!Give, Ownership!Consents, Owners, OffersMade, Givens, Lapsed, Taken, MadeOf,
                   Unmade
  <1> QED BY <1>1 DEF Ownership!OwnershipNext, OwnershipStep

LEMMA OwnershipLapses ==
    ASSUME NEW h \in Deliveries, Ownership!Made(h), Lapsed' = Lapsed \cup {h},
           UNCHANGED <<Owners, OffersMade, Givens, Taken>>
    PROVE  OwnershipStep
  <1>1. Ownership!Lapse(h)
      BY Zenon DEF Ownership!Lapse, Owners, OffersMade, Givens, Lapsed, Taken, MadeOf, Unmade
  <1> QED BY <1>1 DEF Ownership!OwnershipNext, OwnershipStep

LEMMA OwnershipTakesUp ==
    ASSUME NEW h \in Deliveries, Ownership!Made(h), h \notin Taken,
           OffersMade[h].needs \subseteq Givens[h],
           NEW c, c = OffersMade[h].capsule,
           Ownership!UpsetCapsule(c) \/ Owners[c] = OffersMade[h].from,
           Owners' = [Owners EXCEPT ![c] = OffersMade[h].to], Taken' = Taken \cup {h},
           UNCHANGED <<OffersMade, Givens, Lapsed>>
    PROVE  OwnershipStep
  <1>1. Ownership!UpsetCapsule(OffersMade[h].capsule) \/ Owners[OffersMade[h].capsule] = OffersMade[h].from
      OBVIOUS
  <1>2. Owners' = [Owners EXCEPT ![OffersMade[h].capsule] = OffersMade[h].to]
      OBVIOUS
  <1>3. Ownership!TakeUp(h)
      BY <1>1, <1>2, Zenon DEF Ownership!TakeUp, Owners, OffersMade, Givens, Lapsed, Taken, MadeOf, Unmade
  <1> QED BY <1>3 DEF Ownership!OwnershipNext, OwnershipStep

LEMMA OwnershipGoesBack ==
    ASSUME NEW c \in Capsules, Ownership!UpsetCapsule(c), NEW h \in Taken, NEW a \in Agents,
           OffersMade[h].capsule = c, a \in {OffersMade[h].from, OffersMade[h].to},
           Owners' = [Owners EXCEPT ![c] = a], UNCHANGED <<OffersMade, Givens, Lapsed, Taken>>
    PROVE  OwnershipStep
  <1>1. Ownership!TakeBack(c)
      BY Zenon DEF Ownership!TakeBack, Owners, OffersMade, Givens, Lapsed, Taken, MadeOf, Unmade
  <1> QED BY <1>1 DEF Ownership!OwnershipNext, OwnershipStep

\* What was offered, given, lapsed and taken up rests on the ledger alone.
LEMMA OffersRest ==
    ASSUME UNCHANGED events, AsksStay
    PROVE  UNCHANGED <<OffersMade, Givens, Lapsed, Taken>>
  <1>1. \A h \in Deliveries : \A kind : Recorded(h, kind)' <=> Recorded(h, kind)
      BY DEF Recorded
  <1>2. \A h \in Deliveries : OffersMade'[h] = OffersMade[h] /\ Givens'[h] = Givens[h]
    <2> SUFFICES ASSUME NEW h \in Deliveries PROVE OffersMade'[h] = OffersMade[h] /\ Givens'[h] = Givens[h]
        OBVIOUS
    <2>1. Given(h)' = Given(h)
        BY <1>1 DEF Given
    <2>2. Recorded(h, "requested") => MadeOf(h)' = MadeOf(h)
        BY DEF Recorded, AsksStay, KeepsAsk, MadeOf, Needs
    <2>3. Unmade' = Unmade
        BY DEF Unmade
    <2> QED BY <1>1, <2>1, <2>2, <2>3 DEF OffersMade, Givens
  <1>3. OffersMade' = OffersMade
      BY <1>2, MappedFunctions, SameFunctions
  <1>4. Givens' = Givens
      BY <1>2, MappedFunctions, SameFunctions
  <1>5. Lapsed' = Lapsed /\ Taken' = Taken
      BY <1>1 DEF Lapsed, Taken
  <1> QED BY <1>3, <1>4, <1>5

LEMMA StillOwned ==
    ASSUME UNCHANGED events, AsksStay, \A c \in Capsules : capsules'[c].owner = capsules[c].owner
    PROVE  OwnershipStep
  <1>1. \A c \in Capsules : Owners'[c] = Owners[c]
      BY DEF Owners
  <1>2. Owners' = Owners
      BY <1>1, MappedFunctions, SameFunctions
  <1> QED BY <1>2, OffersRest DEF OwnershipStep

\* The ledger after an event, as the mapping sees it.
LEMMA AppendMapped ==
    ASSUME CapsuleInv, NEW h \in Deliveries, NEW kind \in Kinds, Append1(h, kind),
           \A g \in Deliveries : KeepsAsk(g)
    PROVE  /\ kind = "failed" => Lapsed' = Lapsed \cup {h}
           /\ kind # "failed" => UNCHANGED Lapsed
           /\ kind = "committed" => Taken' = Taken \cup {h}
           /\ kind # "committed" => UNCHANGED Taken
           /\ kind = "requested" => OffersMade' = [OffersMade EXCEPT ![h] = MadeOf(h)]
           /\ kind # "requested" => UNCHANGED OffersMade
           /\ \A x \in {"receipt", "evidence", "approval"} :
                Given(h)' = Given(h) \cup {x} => Givens' = [Givens EXCEPT ![h] = Givens[h] \cup {x}]
           /\ Given(h)' = Given(h) => UNCHANGED Givens
  <1>1. /\ events'[h] = events[h] \cup {kind}
        /\ \A g \in Deliveries : g # h => events'[g] = events[g]
      BY DEF Append1, CapsuleInv, Shape, CapsuleTypeOK
  <1>2. \A g \in Deliveries : MadeOf(g)' = MadeOf(g)
      BY DEF MadeOf, Needs, KeepsAsk
  <1>3. Unmade' = Unmade
      BY DEF Unmade
  <1>4. \A g \in Deliveries : g # h => OffersMade'[g] = OffersMade[g] /\ Givens'[g] = Givens[g]
      BY <1>1, <1>2, <1>3 DEF OffersMade, Givens, Given, Recorded
  <1>5. /\ kind = "requested" => OffersMade'[h] = MadeOf(h)
        /\ kind # "requested" => OffersMade'[h] = OffersMade[h]
      BY <1>1, <1>2, <1>3 DEF OffersMade, Recorded
  <1>6. Givens'[h] = Given(h)' /\ Givens[h] = Given(h)
      BY DEF Givens
  <1>7. /\ kind = "requested" => OffersMade' = [OffersMade EXCEPT ![h] = MadeOf(h)]
        /\ kind # "requested" => UNCHANGED OffersMade
    <2>1. CASE kind = "requested"
      <3>1. OffersMade'[h] = MadeOf(h) /\ \A g \in Deliveries : g # h => OffersMade'[g] = OffersMade[g]
          BY <1>4, <1>5, <2>1
      <3> QED BY <2>1, <3>1, MappedFunctions, ChangedAt
    <2>2. CASE kind # "requested"
      <3>1. \A g \in Deliveries : OffersMade'[g] = OffersMade[g]
          BY <1>4, <1>5, <2>2
      <3>2. OffersMade' = OffersMade
          BY <3>1, MappedFunctions, SameFunctions
      <3> QED BY <2>2, <3>2
    <2> QED BY <2>1, <2>2
  <1>8. ASSUME NEW x \in {"receipt", "evidence", "approval"}, Given(h)' = Given(h) \cup {x}
        PROVE  Givens' = [Givens EXCEPT ![h] = Givens[h] \cup {x}]
    <2>1. Givens'[h] = Givens[h] \cup {x} /\ \A g \in Deliveries : g # h => Givens'[g] = Givens[g]
        BY <1>4, <1>6, <1>8
    <2> QED BY <2>1, MappedFunctions, ChangedAt
  <1>9. ASSUME Given(h)' = Given(h) PROVE Givens' = Givens
    <2>1. \A g \in Deliveries : Givens'[g] = Givens[g]
        BY <1>4, <1>6, <1>9
    <2> QED BY <2>1, MappedFunctions, SameFunctions
  <1>10. /\ kind = "failed" => Lapsed' = Lapsed \cup {h}
         /\ kind # "failed" => UNCHANGED Lapsed
         /\ kind = "committed" => Taken' = Taken \cup {h}
         /\ kind # "committed" => UNCHANGED Taken
      BY <1>1 DEF Lapsed, Taken, Recorded
  <1> QED BY <1>7, <1>8, <1>9, <1>10

\* Every event is a step of the ownership, or none.
LEMMA AppendImplements ==
    ASSUME CapsuleInv, NEW h \in Deliveries, NEW kind \in Kinds, SoundAsk(h), Append1(h, kind),
           \A g \in Deliveries : KeepsAsk(g),
           kind = "requested" => Phase(h) = "recording" /\ events[h] = {} /\ StillFrom(h),
           kind # "requested" => Recorded(h, "requested"),
           kind \in {"acknowledged", "validated", "approved", "committed"} => ~Recorded(h, "committed"),
           kind = "committed" => Needs(h) \subseteq Given(h) /\ StillFrom(h)
    PROVE  OwnershipStep
  <1>1. PICK c : c = handoffs[h].capsule
      OBVIOUS
  <1>2. /\ c \in Capsules /\ handoffs[h].to \in Agents /\ handoffs[h].from \in Agents
        /\ handoffs[h].from # handoffs[h].to /\ None \notin Agents
      BY <1>1, CapsuleAssumption DEF SoundAsk
  <1>3. /\ \A d \in Capsules : d # c => Owners'[d] = Owners[d]
        /\ Owners'[c] = IF kind = "committed" THEN handoffs[h].to ELSE Owners[c]
        /\ Owners[c] = capsules[c].owner
        /\ events'[h] = events[h] \cup {kind}
    <2>1. /\ \A d \in Capsules : d # c => capsules'[d] = capsules[d]
          /\ capsules'[c].owner = IF kind = "committed" THEN handoffs[h].to ELSE capsules[c].owner
          /\ events'[h] = events[h] \cup {kind}
        BY <1>1, AppendEffect DEF CapsuleInv
    <2> QED BY <1>2, <2>1 DEF Owners
  <1>4. kind # "committed" => Owners' = Owners
    <2>1. kind # "committed" => \A d \in Capsules : Owners'[d] = Owners[d]
        BY <1>3
    <2> QED BY <2>1, MappedFunctions, SameFunctions
  <1>5. /\ kind = "acknowledged" => Given(h)' = Given(h) \cup {"receipt"}
        /\ kind = "validated" => Given(h)' = Given(h) \cup {"evidence"}
        /\ kind = "approved" => Given(h)' = Given(h) \cup {"approval"}
        /\ kind \notin {"acknowledged", "validated", "approved"} => Given(h)' = Given(h)
      BY <1>3 DEF Given, Recorded
  <1>6. StillFrom(h) => Ownership!UpsetCapsule(c) \/ Owners[c] = handoffs[h].from
      BY <1>1, <1>2, <1>3, UpsetsAreUpsets DEF StillFrom, SourceOwns
  <1>7. /\ kind = "failed" => Lapsed' = Lapsed \cup {h}
        /\ kind # "failed" => UNCHANGED Lapsed
        /\ kind = "committed" => Taken' = Taken \cup {h}
        /\ kind # "committed" => UNCHANGED Taken
        /\ kind = "requested" => OffersMade' = [OffersMade EXCEPT ![h] = MadeOf(h)]
        /\ kind # "requested" => UNCHANGED OffersMade
        /\ \A x \in {"receipt", "evidence", "approval"} :
             Given(h)' = Given(h) \cup {x} => Givens' = [Givens EXCEPT ![h] = Givens[h] \cup {x}]
        /\ Given(h)' = Given(h) => UNCHANGED Givens
      BY AppendMapped
  <1>8. /\ Ownership!Made(h) <=> Recorded(h, "requested")
        /\ Recorded(h, "requested") => OffersMade[h] = MadeOf(h)
      BY OffersAreRequests
  <1>9. h \in Taken <=> Recorded(h, "committed")
      BY DEF Taken
  <1>10. CASE kind = "requested"
    <2>1. MadeOf(h) = [capsule |-> c, from |-> handoffs[h].from, to |-> handoffs[h].to, needs |-> Needs(h)]
        BY <1>1 DEF MadeOf
    <2>2. ~Ownership!Made(h) /\ Needs(h) \in SUBSET {"receipt", "evidence", "approval"}
        BY <1>8, <1>10 DEF Recorded, Needs
    <2>3. ~UpsetBy(c) => \A g \in Deliveries : Ownership!Stands(g) => OffersMade[g].capsule # c
      <3> SUFFICES ASSUME ~UpsetBy(c), NEW g \in Deliveries, Ownership!Stands(g), OffersMade[g].capsule = c
                   PROVE  FALSE
          OBVIOUS
      <3>1. Ownership!Made(g) /\ g \notin Lapsed \cup Taken
          BY DEF Ownership!Stands, Lapsed, Taken
      <3>2. Live(g) /\ handoffs[g].capsule = c
        <4>1. Recorded(g, "requested") /\ OffersMade[g] = MadeOf(g)
            BY <3>1, OffersAreRequests
        <4>2. Live(g)
            BY <3>1, <4>1 DEF Live, Lapsed, Taken
        <4> QED BY <4>1, <4>2 DEF MadeOf
      <3>3. capsules[c].pending = g
          BY <1>2, <3>2 DEF CapsuleInv, PendingIsLive
      <3>4. capsules[c].pending = NoHandoff
          BY <1>1, <1>10 DEF CapsuleInv, RequestHolds
      <3> QED BY <3>3, <3>4 DEF NoHandoff, Deliveries
    <2>4. Owners[c] # None
      <3>1. UpsetBy(c) => Owners[c] \in Agents
          BY <1>2, <1>3, PartiesAreAgents
      <3> QED BY <1>2, <1>6, <1>10, <3>1, UpsetsAreUpsets
    <2>5. \/ Ownership!UpsetCapsule(c)
          \/ /\ Owners[c] = handoffs[h].from
             /\ \A g \in Deliveries : Ownership!Stands(g) => OffersMade[g].capsule # c
        BY <1>2, <1>6, <1>10, <2>3, UpsetsAreUpsets
    <2>6. /\ UNCHANGED <<Owners, Givens, Lapsed, Taken>>
          /\ OffersMade' = [OffersMade EXCEPT ![h] =
               [capsule |-> c, from |-> handoffs[h].from, to |-> handoffs[h].to, needs |-> Needs(h)]]
        BY <1>4, <1>5, <1>7, <1>10, <2>1
    <2> QED BY <1>2, <2>2, <2>4, <2>5, <2>6, OwnershipOffers
  <1>11. CASE kind = "committed"
    <2>1. /\ OffersMade[h].capsule = c /\ OffersMade[h].from = handoffs[h].from
          /\ OffersMade[h].to = handoffs[h].to /\ OffersMade[h].needs = Needs(h)
        BY <1>1, <1>8, <1>11 DEF MadeOf
    <2>2. Givens[h] = Given(h)
        BY DEF Givens
    <2>3. Owners' = [Owners EXCEPT ![c] = handoffs[h].to]
        BY <1>2, <1>3, <1>11, MappedFunctions, ChangedAt
    <2>4. UNCHANGED <<OffersMade, Givens, Lapsed>> /\ Taken' = Taken \cup {h}
        BY <1>5, <1>7, <1>11
    <2> QED BY <1>6, <1>8, <1>9, <1>11, <2>1, <2>2, <2>3, <2>4, OwnershipTakesUp
  <1>12. CASE kind = "failed"
      BY <1>4, <1>5, <1>7, <1>8, <1>12, OwnershipLapses
  <1>13. CASE kind \in {"acknowledged", "validated", "approved"}
    <2>1. PICK x \in {"receipt", "evidence", "approval"} : Given(h)' = Given(h) \cup {x}
        BY <1>5, <1>13
    <2> QED BY <1>4, <1>7, <1>8, <1>9, <1>13, <2>1, OwnershipGives
  <1>14. CASE kind \notin {"requested", "committed", "failed", "acknowledged", "validated", "approved"}
    <2>1. UNCHANGED <<Owners, OffersMade, Givens, Lapsed, Taken>>
        BY <1>4, <1>5, <1>7, <1>14
    <2> QED BY <2>1 DEF OwnershipStep
  <1> QED BY <1>10, <1>11, <1>12, <1>13, <1>14

LEMMA CapsuleStepImplements ==
    ASSUME CapsuleInv, CapsuleNext
    PROVE  OwnershipStep
  <1>1. ASSUME NEW c \in Capsules, NEW a \in Creators, NEW contract \in Portabilities,
               CreateCapsule(c, a, contract)
        PROVE  OwnershipStep
    <2> DEFINE new == [NoCapsule EXCEPT !.status = "active", !.owner = a, !.contract = contract]
    <2>1. /\ capsules' = [capsules EXCEPT ![c] = new] /\ capsules[c] = NoCapsule
          /\ UNCHANGED <<events, handoffs>>
        BY <1>1 DEF CreateCapsule
    <2>2. new.owner = a /\ new.pending = NoHandoff /\ a \in Agents
        BY CapsuleAssumption DEF NoCapsule
    <2> HIDE DEF new
    <2>3. capsules'[c] = new /\ \A d \in Capsules : d # c => capsules'[d] = capsules[d]
        BY <2>1 DEF CapsuleInv, Shape, CapsuleTypeOK
    <2>4. Owners[c] = None /\ Owners'[c] = a /\ \A d \in Capsules : d # c => Owners'[d] = Owners[d]
        BY <2>1, <2>2, <2>3 DEF Owners, NoCapsule
    <2>5. Owners' = [Owners EXCEPT ![c] = a]
        BY <2>4, MappedFunctions, ChangedAt
    <2>6. UNCHANGED <<OffersMade, Givens, Lapsed, Taken>>
        BY <2>1, OffersRest DEF AsksStay, KeepsAsk
    <2> QED BY <2>2, <2>4, <2>5, <2>6, OwnershipCreates
  <1>2. ASSUME NEW call \in checked, AppendChecked(call)
        PROVE  OwnershipStep
    <2>1. call \in CheckedCalls
        BY <1>2 DEF CapsuleInv, Shape
    <2>2. /\ \A d \in Capsules :
               \/ capsules'[d].owner = capsules[d].owner
               \/ d = call.capsule /\ call.agent \in Agents /\ capsules'[d].owner = call.agent
          /\ UNCHANGED <<events, handoffs>>
        BY <1>2, <2>1, CheckedEffect
    <2>3. AsksStay
        BY <2>2 DEF AsksStay, KeepsAsk
    <2>4. CASE \A d \in Capsules : capsules'[d].owner = capsules[d].owner
        BY <2>2, <2>3, <2>4, StillOwned
    <2>5. CASE ~\A d \in Capsules : capsules'[d].owner = capsules[d].owner
      <3>1. PICK c \in Capsules, a \in Agents :
              /\ c = call.capsule /\ a = call.agent /\ capsules'[c].owner = a
              /\ capsules[c].owner # a
          BY <2>1, <2>2, <2>5 DEF CheckedCalls
      <3>2. UpsetBy(c) /\ a \in Parties(c)
          BY <3>1 DEF CapsuleInv, CallKept
      <3>3. PICK h \in Committed(c) : a \in {handoffs[h].from, handoffs[h].to}
          BY <3>2 DEF Parties
      <3>4. h \in Deliveries /\ h \in Taken /\ handoffs[h].capsule = c
          BY <3>3 DEF Committed, Taken
      <3>5. OffersMade[h] = MadeOf(h)
          BY <3>4, OffersAreRequests
      <3>6. OffersMade[h].capsule = c /\ a \in {OffersMade[h].from, OffersMade[h].to}
          BY <3>3, <3>4, <3>5 DEF MadeOf
      <3>7. Owners' = [Owners EXCEPT ![c] = a]
        <4>1. Owners'[c] = a /\ \A d \in Capsules : d # c => Owners'[d] = Owners[d]
            BY <2>2, <3>1 DEF Owners
        <4> QED BY <4>1, MappedFunctions, ChangedAt
      <3> QED BY <2>2, <2>3, <3>2, <3>4, <3>6, <3>7, UpsetsAreUpsets, OffersRest, OwnershipGoesBack
    <2> QED BY <2>4, <2>5
  <1>3. ASSUME UNCHANGED <<capsules, events, handoffs>>
        PROVE  OwnershipStep
      BY <1>3, StillOwned DEF AsksStay, KeepsAsk
  <1>4. ASSUME NEW h \in Deliveries, Phase(h) \in {"unused", "asked"},
               \A g \in Deliveries : g # h => handoffs'[g] = handoffs[g],
               UNCHANGED <<capsules, events>>
        PROVE  OwnershipStep
    <2>1. events[h] = {}
        BY <1>4 DEF CapsuleInv, CallMatches
    <2>2. AsksStay
        BY <1>4, <2>1 DEF AsksStay, KeepsAsk
    <2> QED BY <1>4, <2>2, StillOwned
  <1>5. ASSUME NEW h \in Deliveries, NEW phase \in Phases, EnterPhase(h, phase),
               UNCHANGED <<capsules, events>>
        PROVE  OwnershipStep
      BY <1>5, PhaseEffect, StillOwned DEF AsksStay
  <1>6. ASSUME NEW h \in Deliveries, RecordOutcome(h)
        PROVE  OwnershipStep
    <2> DEFINE kind == Phase(h)
    <2>1. kind \in Outcomes /\ Append1(h, kind) /\ EnterPhase(h, "over")
        BY <1>6 DEF RecordOutcome
    <2>2. kind \in {"dispatched", "dispatch_uncertain", "failed"} /\ kind \in Kinds
        BY <2>1 DEF Outcomes, Kinds
    <2>3. SoundAsk(h) /\ Recorded(h, "requested")
        BY <2>1 DEF CapsuleInv, CallMatches, Outcomes
    <2>4. \A g \in Deliveries : KeepsAsk(g)
        BY <2>1, PhaseEffect DEF Phases
    <2> HIDE DEF kind
    <2> QED BY <2>1, <2>2, <2>3, <2>4, AppendImplements
  <1>7. ASSUME AppendLocked, NEW h, h = locked.handoff, NEW kind, kind = Head(locked.todo)
        PROVE  OwnershipStep
    <2>1. /\ h \in Deliveries /\ kind \in Kinds /\ Append1(h, kind) /\ SoundAsk(h)
          /\ kind = "requested" <=> locked.todo = <<"requested">>
          /\ kind = "requested" => Phase(h) = "recording" /\ events[h] = {}
          /\ kind # "requested" => Recorded(h, "requested")
          /\ kind = "committed" => Needs(h) \subseteq Given(h) /\ StillFrom(h)
          /\ \A g \in Deliveries : KeepsAsk(g)
          /\ locked.todo \in Todos /\ locked # Unlocked
        BY <1>7, LockedEffect
    <2>2. /\ kind = "requested" => StillFrom(h)
          /\ kind \in {"acknowledged", "validated", "approved", "committed"} => ~Recorded(h, "committed")
      <3>1. <<"requested">> # <<"completed">>
          BY Heads
      <3>2. kind \in {"acknowledged", "validated", "approved", "committed"} =>
              locked.todo \notin {<<"requested">>, <<"completed">>}
          BY <1>7, <2>1, Heads
      <3> QED BY <1>7, <2>1, <3>1, <3>2 DEF CapsuleInv, LockKept
    <2> QED BY <2>1, <2>2, AppendImplements
  <1>8. CASE CapsuleCrash
      BY <1>8, CrashEffect, StillOwned DEF CapsuleCrash, AsksStay
  <1>9. CASE OutsideTheLock
    <2>1. CASE \E c \in Capsules, kind \in {"stage", "complete"}, a \in Agents \cup {None} :
                 CheckStage(c, kind, a)
        BY <1>3, <2>1 DEF CheckStage, Check
    <2>2. CASE \E c \in Capsules, p \in Portabilities : CheckContract(c, p)
        BY <1>3, <2>2 DEF CheckContract, Check
    <2> QED BY <1>1, <1>2, <1>9, <2>1, <2>2 DEF OutsideTheLock
  <1>10. CASE HandoffCall
    <2>1. PICK h \in Deliveries :
            \/ AskedByCaller(h) \/ RefuseHandoff(h) \/ RequestHandoff(h)
            \/ \E outcome \in Outcomes, reached \in BOOLEAN : DeliverPrompt(h, outcome, reached)
            \/ RecordOutcome(h)
        BY <1>10 DEF HandoffCall
    <2>2. CASE AskedByCaller(h)
      <3>1. PICK r : AskHandoff(h, r, TRUE) \/ AskHandoff(h, r, FALSE)
          BY <2>2 DEF AskedByCaller
      <3>2. /\ Phase(h) \in {"unused", "asked"}
            /\ \A g \in Deliveries : g # h => handoffs'[g] = handoffs[g]
          BY <3>1 DEF AskHandoff, Phase, NoRequest, CapsuleInv, Shape, CapsuleTypeOK
      <3>3. UNCHANGED <<capsules, events>>
          BY <2>2 DEF AskedByCaller
      <3> QED BY <1>4, <3>2, <3>3
    <2>3. CASE RefuseHandoff(h)
      <3>1. /\ Phase(h) = "asked" /\ UNCHANGED <<capsules, events>>
            /\ \A g \in Deliveries : g # h => handoffs'[g] = handoffs[g]
          BY <2>3 DEF RefuseHandoff, CapsuleInv, Shape, CapsuleTypeOK
      <3> QED BY <1>4, <3>1
    <2>4. CASE RequestHandoff(h)
        BY <1>5, <2>4 DEF RequestHandoff, Phases
    <2>5. CASE \E outcome \in Outcomes, reached \in BOOLEAN : DeliverPrompt(h, outcome, reached)
        BY <1>5, <2>5 DEF DeliverPrompt, Phases
    <2> QED BY <1>6, <2>1, <2>2, <2>3, <2>4, <2>5
  <1>11. CASE UnderTheLock
    <2>1. CASE \E h \in Deliveries : \/ Acknowledge(h) \/ Approve(h) \/ CompleteHandoff(h)
                                     \/ \E passed \in BOOLEAN : Validate(h, passed)
      <3>1. \E h \in Deliveries : \E todo : Enter(h, todo)
          BY <2>1 DEF Acknowledge, Approve, CompleteHandoff, Validate
      <3> QED BY <1>3, <3>1 DEF Enter
    <2> QED BY <1>7, <1>11, <2>1 DEF UnderTheLock
  <1>12. CASE Lanes
    <2>1. CASE \E c \in Capsules, h \in Deliveries, to \in Agents : SweepHandsOff(c, h, to)
      <3>1. PICK c \in Capsules, h \in Deliveries, to \in Agents : SweepHandsOff(c, h, to)
          BY <2>1
      <3>2. PICK r : AskHandoff(h, r, FALSE)
          BY <3>1 DEF SweepHandsOff
      <3>3. /\ Phase(h) \in {"unused", "asked"}
            /\ \A g \in Deliveries : g # h => handoffs'[g] = handoffs[g]
          BY <3>2 DEF AskHandoff, Phase, NoRequest, CapsuleInv, Shape, CapsuleTypeOK
      <3>4. UNCHANGED <<capsules, events>>
          BY <3>1 DEF SweepHandsOff
      <3> QED BY <1>4, <3>3, <3>4
    <2>2. CASE \/ \E a \in Agents : CloseLane(a) \/ SwitchLane(a)
               \/ ReadLanes \/ StartSweep \/ SweepGoesOn \/ \E c \in Capsules : SweepSkips(c)
        BY <1>3, <2>2 DEF CloseLane, SwitchLane, ReadLanes, StartSweep, SweepGoesOn, SweepSkips
    <2> QED BY <1>12, <2>1, <2>2 DEF Lanes
  <1>13. CASE \E h \in Deliveries : Resume(h)
      BY <1>3, <1>13 DEF Resume
  <1> QED BY <1>8, <1>9, <1>10, <1>11, <1>12, <1>13 DEF CapsuleNext

LEMMA CapsuleInitImplements == CapsuleInit => Ownership!OwnershipInit
  BY DEF CapsuleInit, Ownership!OwnershipInit, Ownership!NoOffer, NoCapsule, Recorded, Given

\* The ledger is an ownership: who has a capsule changes only by the handoff its owner asked
\* for, to the agent it was asked for, with the consents it asked for (request_handoff to
\* approve_handoff, set_stage, complete); until a handoff that failed moves it.
THEOREM CapsulesImplementOwnership == CapsuleSpec => ImplementsOwnership
  <1> DEFINE Step == UNCHANGED <<capsules, events, handoffs>> \/ Ownership!OwnershipNext
  <1>1. CapsuleInv /\ [CapsuleNext]_capsuleVars => OwnershipStep
    <2>1. CapsuleInv /\ CapsuleNext => OwnershipStep
        BY CapsuleStepImplements
    <2>2. UNCHANGED capsuleVars => OwnershipStep
        BY StillOwned DEF capsuleVars, AsksStay, KeepsAsk
    <2> QED BY <2>1, <2>2
  <1>2. OwnershipStep => [Step]_<<Owners, OffersMade, Givens, Lapsed, Taken>>
      BY DEF OwnershipStep
  <1> QED BY <1>1, <1>2, CapsuleInitImplements, CapsulesAreInvariant, PTL
          DEF CapsuleSpec, ImplementsOwnership, Ownership!ownershipVars, Owners, OffersMade,
              Givens, Lapsed, Taken, MadeOf, Unmade
=============================================================================
