--------------------------- MODULE CapsuleOwnership ---------------------------
(***************************************************************************)
(* What a capsule promises its agents, whatever the ledger looks like: it  *)
(* has one owner; its owner offers it to one agent at a time; an offer is  *)
(* taken up at most once, while the agent who made it owns the capsule,    *)
(* and only when every consent it asks for has been given to that offer:   *)
(* the target's receipt, its evidence that the contract holds, the         *)
(* operator's approval.                                                    *)
(*                                                                         *)
(* An offer that could not be delivered lapses.  One that is taken up all  *)
(* the same upsets its capsule: from then on other offers may stand beside *)
(* each other, and the agents who have had the capsule may take it back.   *)
(***************************************************************************)
CONSTANTS
    Capsules,
    Agents,
    Offers,  \* names of offers
    None

Consents == {"receipt", "evidence", "approval"}

VARIABLES
    owner,   \* who owns each capsule (None: it does not exist)
    offers,  \* each offer: of which capsule, from whom to whom, on which consents
    given,   \* the consents given to each offer
    lapsed,  \* the offers that could not be delivered
    taken    \* the offers that were taken up

ownershipVars == <<owner, offers, given, lapsed, taken>>

NoOffer == [capsule |-> None, from |-> None, to |-> None, needs |-> {}]

OwnershipInit ==
    /\ owner = [c \in Capsules |-> None]
    /\ offers = [o \in Offers |-> NoOffer]
    /\ given = [o \in Offers |-> {}]
    /\ lapsed = {} /\ taken = {}

Made(o) == offers[o] # NoOffer

Stands(o) == Made(o) /\ o \notin lapsed \cup taken

UpsetCapsule(c) == \E o \in lapsed \cap taken : offers[o].capsule = c

Create(c) ==
    /\ owner[c] = None
    /\ \E a \in Agents : owner' = [owner EXCEPT ![c] = a]
    /\ UNCHANGED <<offers, given, lapsed, taken>>

MakeOffer(o, c) ==
    /\ ~Made(o)
    /\ owner[c] # None
    /\ UpsetCapsule(c) \/ \A p \in Offers : Stands(p) => offers[p].capsule # c
    /\ \E from \in Agents, to \in Agents, needs \in SUBSET Consents :
         /\ from # to
         /\ UpsetCapsule(c) \/ owner[c] = from
         /\ offers' = [offers EXCEPT ![o] =
              [capsule |-> c, from |-> from, to |-> to, needs |-> needs]]
    /\ UNCHANGED <<owner, given, lapsed, taken>>

Give(o) ==
    /\ Made(o)
    /\ o \notin taken
    /\ \E x \in Consents : given' = [given EXCEPT ![o] = @ \cup {x}]
    /\ UNCHANGED <<owner, offers, lapsed, taken>>

Lapse(o) ==
    /\ Made(o)
    /\ lapsed' = lapsed \cup {o}
    /\ UNCHANGED <<owner, offers, given, taken>>

TakeUp(o) ==
    LET c == offers[o].capsule IN
    /\ Made(o)
    /\ o \notin taken
    /\ offers[o].needs \subseteq given[o]
    /\ UpsetCapsule(c) \/ owner[c] = offers[o].from
    /\ owner' = [owner EXCEPT ![c] = offers[o].to]
    /\ taken' = taken \cup {o}
    /\ UNCHANGED <<offers, given, lapsed>>

TakeBack(c) ==
    /\ UpsetCapsule(c)
    /\ \E o \in taken, a \in Agents :
         /\ offers[o].capsule = c
         /\ a \in {offers[o].from, offers[o].to}
         /\ owner' = [owner EXCEPT ![c] = a]
    /\ UNCHANGED <<offers, given, lapsed, taken>>

OwnershipNext ==
    \/ \E c \in Capsules : Create(c) \/ TakeBack(c) \/ \E o \in Offers : MakeOffer(o, c)
    \/ \E o \in Offers : Give(o) \/ Lapse(o) \/ TakeUp(o)

OwnershipSpec == OwnershipInit /\ [][OwnershipNext]_ownershipVars
=============================================================================
