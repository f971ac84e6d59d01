---------------------------- MODULE DesktopCommander ----------------------------
(***************************************************************************)
(* The Desktop Commander backend (mcp_studio/desktop_commander.py): one    *)
(* child process shared by all managed sessions, spoken to over its pipes. *)
(* Calls hold one lock; each request carries an id, and an answer with     *)
(* another id is read and dropped.  A call that times out leaves its       *)
(* request with the child, which works it off and answers later.  The list *)
(* of its tools, asked for by the first call to it, is left out.           *)
(*                                                                         *)
(* The system processes the child starts are named by their pid, which is  *)
(* not used again here, and outlive the child.                             *)
(***************************************************************************)
EXTENDS Naturals, Sequences

CONSTANTS
    CommanderSessions, \* managed sessions
    MaxRequest,        \* bound on the request ids
    MaxJob             \* bound on the processes started

ASSUME CommanderAssumption == MaxRequest \in Nat

VARIABLES
    child,    \* whether the child runs, and its pipes
    call,     \* the holder of the lock
    nextId,
    owners,   \* _pid_owners: the session each pid belongs to
    started   \* the session that had each process started

commanderVars == <<child, call, nextId, owners, started>>

-----------------------------------------------------------------------------
(* Records *)

Jobs == 1..MaxJob

Child(runs) == [runs |-> runs, stdin |-> <<>>, stdout |-> <<>>]

Call(at, session, tool, job) ==
    [at |-> at, session |-> session, tool |-> tool, job |-> job, id |-> 0, used |-> {}]

NoCall == Call("free", {}, "none", {})

Tools == {"start_process", "read_process_output", "force_terminate"}

CommanderInit ==
    /\ child = Child(FALSE)
    /\ call = NoCall
    /\ nextId = 1
    /\ owners = [p \in Jobs |-> {}]
    /\ started = [p \in Jobs |-> {}]

\* _request_locked: the request is written and its answer awaited.
Send(pipes, method, asking, point) ==
    /\ nextId <= MaxRequest /\ nextId' = nextId + 1
    /\ child' = [pipes EXCEPT !.stdin = Append(@,
         [id |-> nextId, method |-> method, session |-> asking.session, job |-> asking.job])]
    /\ call' = [asking EXCEPT !.at = point, !.id = nextId]

-----------------------------------------------------------------------------
(* A call *)

\* Without a child that runs one is started and initialized; who owns which pid is kept.
CallTool(s, tool, job) ==
    /\ call.at = "free"
    /\ (tool = "start_process") = (job = {})
    /\ LET asking == Call("ready", {s}, tool, job) IN
       IF child.runs
         THEN call' = asking /\ UNCHANGED <<child, nextId>>
         ELSE Send(Child(TRUE), "initialize", asking, "initialize")
    /\ UNCHANGED <<owners, started>>

\* _prepare_arguments: a process of another session is refused.
AskTool ==
    /\ call.at = "ready"
    /\ IF \A p \in call.job : owners[p] = call.session
         THEN child.runs /\ Send(child, call.tool, call, "answer")
         ELSE call' = NoCall /\ UNCHANGED <<child, nextId>>
    /\ UNCHANGED <<owners, started>>

\* Mutant: the next answer is taken for the answer.
IsAnyAnswer(message) == TRUE

IsAnswer(message) == message.id = call.id

\* Whose process an answer is about.
About(message) == UNION {started[p] : p \in message.job}

TakeAnswer ==
    LET message == Head(child.stdout) IN
    /\ call.at \in {"initialize", "answer"}
    /\ child.stdout # <<>>
    /\ child' = [child EXCEPT !.stdout = Tail(@)]
    /\ IF ~IsAnswer(message)
         THEN UNCHANGED <<call, owners>>
         ELSE IF call.at = "initialize"
         THEN call' = [call EXCEPT !.at = "ready"] /\ UNCHANGED owners
         ELSE /\ call' = [NoCall EXCEPT !.session = call.session, !.used = About(message)]
              /\ owners' = [p \in Jobs |->
                   IF call.tool = "start_process" /\ p \in message.job THEN call.session
                   ELSE IF call.tool = "force_terminate" /\ p \in call.job THEN {}
                   ELSE owners[p]]
    /\ UNCHANGED <<nextId, started>>

\* The time is up, the answer is an error, or the pipe is closed.  If that was the
\* initialization the child is terminated and everything known about it forgotten.
CallFails ==
    /\ call.at \in {"initialize", "ready", "answer"}
    /\ call.at # "ready" \/ ~child.runs
    /\ call' = NoCall
    /\ IF call.at = "initialize"
         THEN child' = Child(FALSE) /\ owners' = [p \in Jobs |-> {}]
         ELSE UNCHANGED <<child, owners>>
    /\ UNCHANGED <<nextId, started>>

\* close, when Studio stops.
CloseCommander ==
    /\ call.at = "free"
    /\ child.runs
    /\ child' = Child(FALSE)
    /\ owners' = [p \in Jobs |-> {}]
    /\ UNCHANGED <<call, nextId, started>>

-----------------------------------------------------------------------------
(* Environment: the child *)

\* The oldest request is worked off; a process is started for the session that asked.
Serve ==
    LET request == Head(child.stdin)
        Answer(job) == child' = [child EXCEPT !.stdin = Tail(@),
                                    !.stdout = Append(@, [request EXCEPT !.job = job])]
    IN
    /\ child.runs /\ child.stdin # <<>>
    /\ IF request.method = "start_process"
         THEN \E p \in Jobs :
                /\ started[p] = {} /\ \A q \in 1..(p - 1) : started[q] # {}
                /\ started' = [started EXCEPT ![p] = request.session]
                /\ Answer({p})
         ELSE Answer(request.job) /\ UNCHANGED started
    /\ UNCHANGED <<call, nextId, owners>>

\* What it had answered can still be read.
ChildExits ==
    /\ child.runs
    /\ child' = [child EXCEPT !.runs = FALSE, !.stdin = <<>>]
    /\ UNCHANGED <<call, nextId, owners, started>>

CommanderNext ==
    \/ \E s \in CommanderSessions, tool \in Tools, job \in {{}} \cup {{p} : p \in Jobs} :
         CallTool(s, tool, job)
    \/ AskTool \/ TakeAnswer \/ CallFails \/ CloseCommander
    \/ Serve \/ ChildExits

CommanderSpec == CommanderInit /\ [][CommanderNext]_commanderVars

-----------------------------------------------------------------------------
(* Properties *)

\* Every variable keeps its shape.
CommanderTypeOK ==
    /\ child.runs \in BOOLEAN
    /\ call.at \in {"free", "initialize", "ready", "answer"}
    /\ nextId \in 1..(MaxRequest + 1)
    /\ owners \in [Jobs -> SUBSET CommanderSessions]

\* A session works with its own processes only: through timeouts, late answers and a child
\* that is replaced, a pid belongs to the session that had it started, and no answer shows
\* a session the process of another.
ProcessesStayWithTheirSession ==
    /\ \A p \in Jobs : owners[p] \subseteq started[p]
    /\ call.used \subseteq call.session
=============================================================================
