------------------------------- MODULE Cognition -------------------------------
(***************************************************************************)
(* The cognitive router (mcp_studio/cognitive_router.py): a request is     *)
(* answered by an agent in a shared terminal pane.  The router plans an    *)
(* order of runtimes, prompts the agent of one pane after the other, and   *)
(* finds the answer in the history of the pane, between a start marker     *)
(* that carries the request's id and an end marker that does not.          *)
(*                                                                         *)
(* Requests run concurrently.  Whether a pane is idle is read from the     *)
(* snapshot Herdr took last.  An agent works off its prompts in order and  *)
(* may answer late, without markers, or without an end.                    *)
(*                                                                         *)
(* A request that names its pane is the case of one candidate.             *)
(***************************************************************************)
EXTENDS Naturals, Sequences, FiniteSetsExt

CONSTANTS
    Requests,    \* cognitive requests
    GivenIds,    \* those whose id the caller gave, who may give it again to the next one
    DeepRequests, \* those whose capability or preference needs the deep lane
    Runtimes,
    Preference,  \* the order in which each lane asks the runtimes
    Panes,
    RuntimeOf,   \* the agent of each pane
    MaxPrompts   \* bound on the prompts typed

ASSUME CognitionAssumption ==
    /\ DeepRequests \subseteq Requests /\ GivenIds \subseteq Requests
    /\ RuntimeOf \in [Panes -> Runtimes]

VARIABLES
    history,  \* what each pane shows: the markers that were written, in order
    inbox,    \* the prompts each agent has yet to work off
    seenIdle, \* the panes that were idle in Herdr's last snapshot
    asks,     \* requests under way
    asked     \* how often each request was put to each pane

cognitionVars == <<history, inbox, seenIdle, asks, asked>>

-----------------------------------------------------------------------------
(* The history of a pane *)

StartOf(r) == [marker |-> "start", request |-> {r}]

End == [marker |-> "end", request |-> {}]

\* The end that follows a start, if there is one.
EndsAfter(h, i) == {j \in (i + 1)..Len(h) : h[j] = End}

\* Mutant: any start marker will do.
FoundAny(h, r) == {i \in 1..Len(h) : h[i].marker = "start" /\ EndsAfter(h, i) # {}}

\* The complete answers in view: the request's start marker with an end after it.
Found(h, r) == {i \in 1..Len(h) : h[i] = StartOf(r) /\ EndsAfter(h, i) # {}}

First(indices) == CHOOSE i \in indices : \A j \in indices : i <= j

\* What stands between a start and the first end after it; whose answers that is.
Extract(h, i) == UNION {h[k].request : k \in i..First(EndsAfter(h, i))}

-----------------------------------------------------------------------------
(* Planning *)

NoAsk == [at |-> "idle", candidates |-> <<>>, pane |-> {}, repaired |-> FALSE, answer |-> {}]

CognitionInit ==
    /\ history = [p \in Panes |-> <<>>]
    /\ inbox = [p \in Panes |-> <<>>]
    /\ seenIdle = {}
    /\ asks = [r \in Requests |-> NoAsk]
    /\ asked = [r \in Requests |-> [p \in Panes |-> 0]]

Idle == {p \in Panes : inbox[p] = <<>>}

\* The lane decided by policy is a floor: advice may raise it, never lower it.
Floor(r) == IF r \in DeepRequests THEN "deep" ELSE "fast"

LanesFor(r) == {Floor(r), "deep"}

\* Which runtimes are healthy and have their limit left, among those with a pane.
Healthy == SUBSET {RuntimeOf[p] : p \in Panes}

\* Every open runtime once: the one the request prefers, if any, then the lane's order.
Orders(lane, open) ==
    LET Others(x) == SelectSeq(Preference[lane], LAMBDA y : y \in open /\ y # x)
    IN {SelectSeq(Preference[lane], LAMBDA y : y \in open)} \cup {<<x>> \o Others(x) : x \in open}

\* Which runtimes are healthy, and whose lane takes new work, is found out here and not
\* asked again.
Plan(r) ==
    /\ asks[r].at \in {"idle"} \cup (IF r \in GivenIds THEN {"answered", "failed"} ELSE {})
    /\ seenIdle' = Idle
    /\ \E lane \in LanesFor(r), fallback \in BOOLEAN, open \in Healthy :
         \E order \in Orders(lane, open) :
            asks' = [asks EXCEPT ![r] = [NoAsk EXCEPT
                !.at = IF open = {} THEN "failed" ELSE "next",
                !.candidates = IF fallback \/ open = {} THEN order ELSE <<Head(order)>>]]
    /\ UNCHANGED <<history, inbox, asked>>

\* The snapshot is also refreshed by Herdr's own loop.
RefreshPanes ==
    /\ seenIdle' = Idle
    /\ UNCHANGED <<history, inbox, asks, asked>>

-----------------------------------------------------------------------------
(* Attempts *)

\* The candidate that was tried is left behind; without another the request fails.
NextCandidate(r) ==
    asks' = [asks EXCEPT ![r] = [NoAsk EXCEPT
        !.at = IF Len(asks[r].candidates) > 1 THEN "next" ELSE "failed",
        !.candidates = Tail(asks[r].candidates)]]

\* A pane of the runtime that was seen idle is taken; a busy runtime is passed over.
ChoosePane(r) ==
    LET panes == {p \in seenIdle : RuntimeOf[p] = Head(asks[r].candidates)} IN
    /\ asks[r].at = "next"
    /\ \/ panes = {} /\ NextCandidate(r)
       \/ \E p \in panes : asks' = [asks EXCEPT ![r].at = "prompt", ![r].pane = {p}]
    /\ UNCHANGED <<history, inbox, seenIdle, asked>>

\* The prompt is typed into the pane, whatever its agent is doing by now.
PromptPane(r, p) ==
    /\ asks[r].at = "prompt" /\ asks[r].pane = {p}
    /\ MapThenSumSet(LAMBDA x : MapThenSumSet(LAMBDA q : asked[x][q], Panes), Requests) < MaxPrompts
    /\ inbox' = [inbox EXCEPT ![p] = Append(@, r)]
    /\ asked' = [asked EXCEPT ![r][p] = @ + 1]
    /\ asks' = [asks EXCEPT ![r].at = "read"]
    /\ UNCHANGED <<history, seenIdle>>

\* One of the reads of the pane's history finds the answer: the latest complete one that
\* is not empty.
ReadAnswer(r, p) ==
    /\ asks[r].at = "read" /\ asks[r].pane = {p}
    /\ \E i \in Found(history[p], r) :
         asks' = [asks EXCEPT ![r].at = "answered", ![r].answer = Extract(history[p], i)]
    /\ UNCHANGED <<history, inbox, seenIdle, asked>>

MayRepair(r, p) == ~asks[r].repaired /\ \A i \in DOMAIN history[p] : history[p][i] # StartOf(r)

\* The reads are used up, or the time, and what they found was incomplete or empty.
\* Without any marker the agent is asked once more; else the next candidate is.
GiveUp(r, p) ==
    /\ asks[r].at = "read" /\ asks[r].pane = {p}
    /\ \/ MayRepair(r, p) /\ asks' = [asks EXCEPT ![r].at = "prompt", ![r].repaired = TRUE]
       \/ NextCandidate(r)
    /\ UNCHANGED <<history, inbox, seenIdle, asked>>

\* The call to the agent fails, whether or not the prompt arrived; or the deadline of all
\* attempts has passed.
AttemptFails(r) ==
    /\ \/ asks[r].at \in {"prompt", "read"} /\ NextCandidate(r)
       \/ asks[r].at = "next" /\ asks' = [asks EXCEPT ![r].at = "failed"]
    /\ UNCHANGED <<history, inbox, seenIdle, asked>>

-----------------------------------------------------------------------------
(* Environment: agents and lanes *)

\* What an agent writes: the answer as told, one without an end, or one without markers.
Complete(r) == <<StartOf(r), End>>
Unfinished(r) == <<StartOf(r)>>
Unmarked == <<>>

\* The agent answers the oldest prompt.
AgentAnswers(p) ==
    /\ inbox[p] # <<>>
    /\ LET r == Head(inbox[p]) IN
       \E text \in {Complete(r), Unfinished(r), Unmarked} :
           history' = [history EXCEPT ![p] = @ \o text]
    /\ inbox' = [inbox EXCEPT ![p] = Tail(@)]
    /\ UNCHANGED <<seenIdle, asks, asked>>

CognitionNext ==
    \/ \E r \in Requests :
         \/ Plan(r) \/ ChoosePane(r) \/ AttemptFails(r)
         \/ \E p \in Panes : PromptPane(r, p) \/ ReadAnswer(r, p) \/ GiveUp(r, p)
    \/ RefreshPanes
    \/ \E p \in Panes : AgentAnswers(p)

CognitionSpec == CognitionInit /\ [][CognitionNext]_cognitionVars

-----------------------------------------------------------------------------
(* Properties *)

\* Every variable keeps its shape.
CognitionTypeOK ==
    /\ seenIdle \subseteq Panes
    /\ asked \in [Requests -> [Panes -> Nat]]
    /\ \A r \in Requests : asks[r].at \in {"idle", "next", "prompt", "read", "answered", "failed"}

\* What is returned for a request answers it, though other requests are put to the same
\* pane, answers come late, and old ones stay in view; it is mixed with the answer to
\* another one only where both were put to one pane.
AnswersTheRequest ==
    \A r \in Requests : asks[r].at = "answered" =>
        /\ r \in asks[r].answer
        /\ \A other \in asks[r].answer : \E p \in asks[r].pane : asked[other][p] > 0
=============================================================================
