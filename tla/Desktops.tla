------------------------------- MODULE Desktops -------------------------------
(***************************************************************************)
(* The desktops of managed sessions (mcp_studio/computer.py, in its        *)
(* session-isolated mode): each session is paired with a slot, that is a   *)
(* display, a VNC port and a browser port, on record in registry.json, and *)
(* a VNC server and a browser are started on it.                           *)
(*                                                                         *)
(* Pairing, starting and moving to another slot hold one lock across many  *)
(* awaits; meanwhile servers die, starts fail half way, and Studio may     *)
(* restart.  A start takes whatever already listens for its own server.    *)
(* A browser does not outlive the display it was started on.  The nested   *)
(* compositor of hardware rendering starts and fails like the browser.     *)
(***************************************************************************)
EXTENDS Naturals

CONSTANTS
    DesktopSessions, \* managed sessions
    Adopting,        \* those of the workspace that may adopt the host's own desktop
    MaxSlot          \* bound on the slots

ASSUME DesktopAssumption == Adopting \subseteq DesktopSessions /\ MaxSlot \in Nat

Slots == 0..MaxSlot

HostSlot == 0

VARIABLES
    pairs,    \* registry.json
    servers,  \* for whom the VNC server of each slot was started; none: it does not run
    browsers, \* for whom the browser of each slot was started
    job       \* the holder of the runtime lock

desktopVars == <<pairs, servers, browsers, job>>

-----------------------------------------------------------------------------
(* Records *)

Unpaired == [slot |-> {}, adopted |-> FALSE]

Pair(slot, adopted) == [slot |-> {slot}, adopted |-> adopted]

NoJob == [at |-> "free", session |-> {}, pair |-> Unpaired, old |-> Unpaired, kind |-> "ensure"]

Adoption == Adopting # {}

\* The host runs its desktop on the first slot, if it is to be adopted, for good.
DesktopInit ==
    /\ pairs = [s \in DesktopSessions |-> Unpaired]
    /\ servers = [k \in Slots |-> {}]
    /\ browsers = [k \in Slots |-> {}]
    /\ job = NoJob

SlotsUsed == UNION {pairs[s].slot : s \in DesktopSessions}

\* Mutant: a slot nobody is paired with is free, whatever listens there.
SlotAvailableOnRecord(k) == TRUE

\* Nothing listens on its ports and its display is not taken.
SlotAvailable(k) == servers[k] = {} /\ browsers[k] = {} /\ ~(Adoption /\ k = HostSlot)

FreeSlots(used) == {k \in Slots \ used : SlotAvailable(k)}

Lowest(slots) == {k \in slots : \A l \in slots : k <= l}

-----------------------------------------------------------------------------
(* Pairing *)

\* Mutant: the adopted desktop is not the host's slot but the lowest free one.
AllocatedLowest(s) ==
    IF pairs[s] # Unpaired THEN {pairs[s]}
    ELSE {Pair(k, s \in Adopting) : k \in Lowest(FreeSlots(SlotsUsed))}

\* A session keeps the pair it has; the adopted desktop goes to one session; else the
\* lowest free slot is taken.
Allocated(s) ==
    IF pairs[s] # Unpaired THEN {pairs[s]}
    ELSE IF s \in Adopting /\ HostSlot \notin SlotsUsed THEN {Pair(HostSlot, TRUE)}
    ELSE {Pair(k, FALSE) : k \in Lowest(FreeSlots(SlotsUsed))}

Lock(s, pair, old, kind, point) ==
    job' = [at |-> point, session |-> {s}, pair |-> pair, old |-> old, kind |-> kind]

\* ensure_runtime; also a first pairing without a wish.
EnsureDesktop(s) ==
    /\ job = NoJob
    /\ \E pair \in Allocated(s) :
         /\ pairs' = [pairs EXCEPT ![s] = pair]
         /\ Lock(s, pair, Unpaired, "ensure", "server")
    /\ UNCHANGED <<servers, browsers>>

\* The slots a session may be moved to; not its own.
RepairSlots(s) == FreeSlots(SlotsUsed \cup pairs[s].slot)

\* repair_runtime of a session without a pair, to a slot of the operator's choice.
FirstPair(s, k) ==
    /\ job = NoJob
    /\ pairs[s] = Unpaired
    /\ k \in RepairSlots(s)
    /\ pairs' = [pairs EXCEPT ![s] = Pair(k, FALSE)]
    /\ Lock(s, Pair(k, FALSE), Unpaired, "first", "server")
    /\ UNCHANGED <<servers, browsers>>

\* repair_runtime to a chosen slot or the lowest free one.  An adopted desktop is left
\* running, so only a fresh browser profile may leave it.
Repair(s, k, keep) ==
    /\ job = NoJob
    /\ pairs[s] # Unpaired
    /\ ~(keep /\ pairs[s].adopted)
    /\ k \in RepairSlots(s)
    /\ IF pairs[s].adopted
         THEN /\ pairs' = [pairs EXCEPT ![s] = Pair(k, FALSE)]
              /\ Lock(s, Pair(k, FALSE), pairs[s], "repair", "server")
         ELSE /\ Lock(s, Pair(k, FALSE), pairs[s], "repair", "stop")
              /\ UNCHANGED pairs
    /\ UNCHANGED <<servers, browsers>>

-----------------------------------------------------------------------------
(* Stopping and starting, under the lock *)

Working(s, point) == job.at = point /\ job.session = {s}

\* The old browser is killed, ...
StopBrowser(s) ==
    /\ Working(s, "stop")
    /\ browsers' = [k \in Slots |-> IF k \in job.old.slot THEN {} ELSE browsers[k]]
    /\ job' = [job EXCEPT !.at = "stopserver"]
    /\ UNCHANGED <<pairs, servers>>

\* ... then its server, and the new pair is recorded; or the server does not stop and the
\* move is abandoned with the old pair on record.
StopServer(s) ==
    /\ Working(s, "stopserver")
    /\ \/ /\ servers' = [k \in Slots |-> IF k \in job.old.slot THEN {} ELSE servers[k]]
          /\ browsers' = [k \in Slots |-> IF k \in job.old.slot THEN {} ELSE browsers[k]]
          /\ pairs' = [pairs EXCEPT ![s] = job.pair]
          /\ job' = [job EXCEPT !.at = "server"]
       \/ /\ job' = NoJob
          /\ UNCHANGED <<pairs, servers, browsers>>

\* What follows a failure: a first pair is forgotten; a moved session goes back to its old
\* slot, where its server and browser are started again, unless that was adopted.
Failed(s) ==
    CASE job.kind = "ensure" -> UNCHANGED pairs /\ job' = NoJob
      [] job.kind = "first"  -> pairs' = [pairs EXCEPT ![s] = Unpaired] /\ job' = NoJob
      [] job.kind = "repair" ->
           /\ pairs' = [pairs EXCEPT ![s] = job.old]
           /\ IF job.old.adopted THEN job' = NoJob ELSE Lock(s, job.old, Unpaired, "ensure", "server")

\* An adopted desktop is only looked at.
LookAtHost(s) ==
    /\ Working(s, "server")
    /\ job.pair.adopted
    /\ job' = NoJob
    /\ UNCHANGED <<pairs, servers, browsers>>

\* A server that listens already is taken as it is.
StartServer(s) ==
    /\ Working(s, "server")
    /\ ~job.pair.adopted
    /\ \E k \in job.pair.slot :
         servers' = IF servers[k] = {} THEN [servers EXCEPT ![k] = {s}] ELSE servers
    /\ job' = [job EXCEPT !.at = "browser"]
    /\ UNCHANGED <<pairs, browsers>>

ServerFails(s) ==
    /\ Working(s, "server")
    /\ ~job.pair.adopted
    /\ \E k \in job.pair.slot : servers[k] = {}
    /\ Failed(s)
    /\ UNCHANGED <<servers, browsers>>

\* Without its display the browser cannot start.
StartBrowser(s) ==
    /\ Working(s, "browser")
    /\ \E k \in job.pair.slot :
         /\ servers[k] # {}
         /\ browsers' = IF browsers[k] = {} THEN [browsers EXCEPT ![k] = {s}] ELSE browsers
    /\ job' = NoJob
    /\ UNCHANGED <<pairs, servers>>

\* The browser did not answer in time; it may be there, and the server is left running.
BrowserFails(s) ==
    /\ Working(s, "browser")
    /\ \E k \in job.pair.slot :
         /\ browsers[k] = {}
         /\ browsers' \in {browsers} \cup (IF servers[k] = {} THEN {} ELSE {[browsers EXCEPT ![k] = {s}]})
    /\ Failed(s)
    /\ UNCHANGED servers

-----------------------------------------------------------------------------
(* Environment *)

ServerDies(k) ==
    /\ servers[k] # {}
    /\ servers' = [servers EXCEPT ![k] = {}]
    /\ browsers' = [browsers EXCEPT ![k] = {}]
    /\ UNCHANGED <<pairs, job>>

BrowserDies(k) ==
    /\ browsers[k] # {}
    /\ browsers' = [browsers EXCEPT ![k] = {}]
    /\ UNCHANGED <<pairs, servers, job>>

\* registry.json is damaged from outside, or of an older version: it is read as empty.
RegistryUnreadable ==
    /\ pairs' = [s \in DesktopSessions |-> Unpaired]
    /\ UNCHANGED <<servers, browsers, job>>

\* Studio restarts, with or without what it has started.
DesktopRestart(survive) ==
    /\ job' = NoJob
    /\ servers' = IF survive THEN servers ELSE [k \in Slots |-> {}]
    /\ browsers' = IF survive THEN browsers ELSE [k \in Slots |-> {}]
    /\ UNCHANGED pairs

DesktopNext ==
    \/ \E s \in DesktopSessions :
         \/ EnsureDesktop(s)
         \/ \E k \in Slots : FirstPair(s, k) \/ \E keep \in BOOLEAN : Repair(s, k, keep)
         \/ StopBrowser(s) \/ StopServer(s) \/ LookAtHost(s)
         \/ StartServer(s) \/ ServerFails(s) \/ StartBrowser(s) \/ BrowserFails(s)
    \/ \E k \in Slots : ServerDies(k) \/ BrowserDies(k)
    \/ RegistryUnreadable
    \/ \E survive \in BOOLEAN : DesktopRestart(survive)

DesktopSpec == DesktopInit /\ [][DesktopNext]_desktopVars

-----------------------------------------------------------------------------
(* Properties *)

\* Every variable keeps its shape.
DesktopTypeOK ==
    /\ pairs \in [DesktopSessions -> [slot : {{}} \cup {{k} : k \in Slots}, adopted : BOOLEAN]]
    /\ \A s \in DesktopSessions : pairs[s].adopted => pairs[s].slot = {HostSlot}
    /\ servers \in [Slots -> SUBSET DesktopSessions]
    /\ browsers \in [Slots -> SUBSET DesktopSessions]

\* No session is shown the desktop of another: whichever starts and moves failed half way
\* and left servers behind, two sessions never have one slot, and what runs on a session's
\* slot was started for it.
DesktopsNotShared ==
    /\ \A s, t \in DesktopSessions : s # t => pairs[s].slot \cap pairs[t].slot = {}
    /\ \A s \in DesktopSessions : \A k \in pairs[s].slot :
         servers[k] \subseteq {s} /\ browsers[k] \subseteq {s}
=============================================================================
