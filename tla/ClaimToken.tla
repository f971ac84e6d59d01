------------------------------ MODULE ClaimToken ------------------------------
(***************************************************************************)
(* What a session handoff promises (M6_2_5_CHATGPT_CONTROL_TOOLS.md,       *)
(* "Session handoff / context rollover"): the right to take a managed      *)
(* session over is a single-use token.  Issuing a token voids the older    *)
(* unclaimed ones of the session; a claimant reserves the token before it  *)
(* takes the session, and either spends it or gives it back; nobody issues *)
(* or reserves while another claimant has the reservation.                 *)
(***************************************************************************)
CONSTANTS Tokens, Sessions, Parties, None

VARIABLE token

Unissued == [state |-> "unissued", session |-> None, from |-> None, to |-> None]

Reserved(s) == \E t \in Tokens : token[t].session = s /\ token[t].state = "reserved"

Init == token = [t \in Tokens |-> Unissued]

Issue(t, s, p) ==
    /\ token[t] = Unissued
    /\ ~Reserved(s)
    /\ token' = [x \in Tokens |->
         IF x = t THEN [state |-> "live", session |-> s, from |-> p, to |-> None]
         ELSE IF token[x].session = s /\ token[x].state = "live"
              THEN [token[x] EXCEPT !.state = "void"]
              ELSE token[x]]

Reserve(t, p) ==
    /\ token[t].state = "live"
    /\ token[t].from # p
    /\ token' = [token EXCEPT ![t].state = "reserved", ![t].to = p]

GiveBack(t) ==
    /\ token[t].state = "reserved"
    /\ token' = [token EXCEPT ![t].state = "live", ![t].to = None]

Spend(t) ==
    /\ token[t].state = "reserved"
    /\ token' = [token EXCEPT ![t].state = "spent"]

Next ==
    \E t \in Tokens :
        \/ \E s \in Sessions, p \in Parties : Issue(t, s, p)
        \/ \E p \in Parties : Reserve(t, p)
        \/ GiveBack(t)
        \/ Spend(t)

Spec == Init /\ [][Next]_token
=============================================================================
