------------------------------ MODULE OAuthGrants ------------------------------
(***************************************************************************)
(* The authorization server (mcp_studio/oauth.py) and its tables: the      *)
(* owner approves a client, which exchanges the code for an access token   *)
(* and, if it asked for offline access, refresh tokens that rotate.        *)
(*                                                                         *)
(* A token request takes several database operations with awaits between   *)
(* them, and two requests may carry the same secret.  Whether a request    *)
(* knows the redirect address and the PKCE verifier of a code is one       *)
(* Boolean.  Secrets cannot be guessed; a request presents an issued one.  *)
(***************************************************************************)
EXTENDS Naturals

CONSTANTS
    Clients,      \* OAuth clients, numbered in the order of their registration
    Scopes,       \* supported scopes
    Offline,      \* the scope offline_access
    Codes,        \* authorization codes
    RefreshTokens, \* refresh tokens, numbered in the order of their issue
    TokenRequests \* requests to the token endpoint that may be under way at once, numbered

ASSUME OAuthAssumption ==
    /\ Offline \in Scopes /\ Codes \cap RefreshTokens = {}
    /\ Clients \subseteq Nat /\ RefreshTokens \subseteq Nat /\ TokenRequests \subseteq Nat

VARIABLES
    clients,   \* the scopes each registered client may ask for; none: not registered
    remembered, \* whether the browser holds a valid owner session
    grants,    \* tables oauth_authorization_codes and oauth_refresh_tokens
    requests,  \* token requests under way
    access,    \* the access tokens ever issued
    spent      \* how often each secret was accepted

oauthVars == <<clients, remembered, grants, requests, access, spent>>

-----------------------------------------------------------------------------
(* Rows *)

Secrets == Codes \cup RefreshTokens

\* The code a secret descends from is not a column: it is the code itself, or that of the
\* token in rotated_from, or of the code that was exchanged.
NoGrant == [state |-> "absent", client |-> {}, scopes |-> {}, root |-> {}]

Grant(client, scopes, root) ==
    [state |-> "live", client |-> {client}, scopes |-> scopes, root |-> {root}]

NoTokenRequest ==
    [at |-> "none", client |-> {}, secret |-> {}, proof |-> FALSE, asked |-> {}]

OAuthInit ==
    /\ clients = [c \in Clients |-> {}]
    /\ remembered = FALSE
    /\ grants = [s \in Secrets |-> NoGrant]
    /\ requests = [r \in TokenRequests |-> NoTokenRequest]
    /\ access = {}
    /\ spent = [s \in Secrets |-> 0]

-----------------------------------------------------------------------------
(* Clients and the owner's approval *)

RegisterClient(c, scopes) ==
    /\ clients[c] = {} /\ \A d \in Clients : d < c => clients[d] # {}
    /\ scopes # {} /\ scopes \subseteq Scopes
    /\ clients' = [clients EXCEPT ![c] = scopes]
    /\ UNCHANGED <<remembered, grants, requests, access, spent>>

\* validate_authorization_request: the scopes are some of the client's.
MayAuthorize(c, scopes) == scopes # {} /\ scopes \subseteq clients[c]

\* Approved with the owner's token, which is then remembered, or by what is remembered.
ApproveClient(code, c, scopes, withToken) ==
    /\ withToken \/ remembered
    /\ MayAuthorize(c, scopes)
    /\ grants[code] = NoGrant
    /\ grants' = [grants EXCEPT ![code] = Grant(c, scopes, code)]
    /\ remembered' = (remembered \/ withToken)
    /\ UNCHANGED <<clients, requests, access, spent>>

-----------------------------------------------------------------------------
(* The token endpoint *)

\* The client is authenticated.  Without a scope in the request, a refresh asks for what
\* the token has.
BeginToken(r, c, s, proof, asked) ==
    /\ requests[r] = NoTokenRequest
    /\ \A q \in TokenRequests : q < r => requests[q] # NoTokenRequest
    /\ clients[c] # {}
    /\ grants[s].state # "absent"
    /\ requests' = [requests EXCEPT ![r] =
         [at |-> "consume", client |-> {c}, secret |-> {s}, proof |-> proof /\ s \in Codes,
          asked |-> IF s \in Codes \/ asked = {} THEN grants[s].scopes ELSE asked]]
    /\ UNCHANGED <<clients, remembered, grants, access, spent>>

\* Mutant: a refresh token that was rotated is accepted again.
ConsumableAgain(c, s) ==
    /\ grants[s].state \in {"live"} \cup (IF s \in RefreshTokens THEN {"used"} ELSE {})
    /\ s \in RefreshTokens => grants[s].client = c

\* A code is taken whoever presents it; a refresh token only by its client.
Consumable(c, s) ==
    /\ grants[s].state = "live"
    /\ s \in RefreshTokens => grants[s].client = c

\* consume_oauth_authorization_code, consume_oauth_refresh_token: one transaction.
ConsumeGrant(r) ==
    /\ requests[r].at = "consume"
    /\ \E s \in requests[r].secret :
         IF Consumable(requests[r].client, s)
           THEN /\ grants' = [grants EXCEPT ![s].state = "used"]
                /\ requests' = [requests EXCEPT ![r].at = "check"]
                /\ spent' = [spent EXCEPT ![s] = @ + 1]
           ELSE /\ requests' = [requests EXCEPT ![r] = NoTokenRequest]
                /\ UNCHANGED <<grants, spent>>
    /\ UNCHANGED <<clients, remembered, access>>

\* Mutant: a refresh may ask for any scope.
MatchesAnyScope(request, s) ==
    s \in Codes => grants[s].client = request.client /\ request.proof

\* The checks that come after the secret is spent.
Matches(request, s) ==
    IF s \in Codes
      THEN grants[s].client = request.client /\ request.proof
      ELSE request.asked \subseteq grants[s].scopes

Rotates(s, scopes) == s \in RefreshTokens \/ Offline \in scopes

\* The access token is signed, then the next refresh token is stored.
IssueTokens(r) ==
    /\ requests[r].at = "check"
    /\ \E s \in requests[r].secret, c \in requests[r].client, root \in UNION {grants[x].root : x \in requests[r].secret} :
         LET scopes == requests[r].asked IN
         IF ~Matches(requests[r], s)
           THEN UNCHANGED <<grants, access>>
           ELSE /\ access' = access \cup {[client |-> c, scopes |-> scopes, root |-> root]}
                /\ IF Rotates(s, scopes)
                     THEN \E t \in RefreshTokens :
                            /\ grants[t] = NoGrant
                            /\ \A u \in RefreshTokens : u < t => grants[u] # NoGrant
                            /\ grants' = [grants EXCEPT ![t] = Grant(c, scopes, root)]
                     ELSE UNCHANGED grants
    /\ requests' = [requests EXCEPT ![r] = NoTokenRequest]
    /\ UNCHANGED <<clients, remembered, spent>>

-----------------------------------------------------------------------------
(* Time and restarts *)

GrantExpires(s) ==
    /\ grants[s].state = "live"
    /\ grants' = [grants EXCEPT ![s].state = "expired"]
    /\ UNCHANGED <<clients, remembered, requests, access, spent>>

\* The owner's session expires, or its token was rotated, which takes a restart.
OAuthRestart(rotated) ==
    /\ remembered' = (remembered /\ ~rotated)
    /\ requests' = [r \in TokenRequests |-> NoTokenRequest]
    /\ UNCHANGED <<clients, grants, access, spent>>

OAuthNext ==
    \/ \E c \in Clients, scopes \in SUBSET Scopes :
         \/ RegisterClient(c, scopes)
         \/ \E code \in Codes, withToken \in BOOLEAN : ApproveClient(code, c, scopes, withToken)
         \/ \E r \in TokenRequests, s \in Secrets, proof \in BOOLEAN :
              BeginToken(r, c, s, proof, scopes)
    \/ \E r \in TokenRequests : ConsumeGrant(r) \/ IssueTokens(r)
    \/ \E s \in Secrets : GrantExpires(s)
    \/ \E rotated \in BOOLEAN : OAuthRestart(rotated)

OAuthSpec == OAuthInit /\ [][OAuthNext]_oauthVars

-----------------------------------------------------------------------------
(* Properties *)

\* Every variable keeps its shape.
OAuthTypeOK ==
    /\ clients \in [Clients -> SUBSET Scopes]
    /\ remembered \in BOOLEAN
    /\ grants \in [Secrets -> [state : {"absent", "live", "used", "expired"},
                               client : SUBSET Clients, scopes : SUBSET Scopes, root : SUBSET Codes]]
    /\ access \subseteq [client : Clients, scopes : SUBSET Scopes, root : Codes]
    /\ spent \in [Secrets -> Nat]

\* What may still be exchanged for tokens of the approval given with a code: its live
\* secrets, and the requests that have spent one and not answered.
Claims(code) ==
    {<<"secret", s>> : s \in {x \in Secrets : grants[x].root = {code} /\ grants[x].state = "live"}}
      \cup {<<"request", r>> : r \in {q \in TokenRequests :
              requests[q].at = "check" /\ \E x \in requests[q].secret : grants[x].root = {code}}}

\* An approval is in one place at a time: whichever requests race with the same secret,
\* lose their answer or die between the two writes, there is never a second line of
\* refresh tokens, and no secret is accepted twice.
OneLinePerApproval ==
    /\ \A code \in Codes : \A x, y \in Claims(code) : x = y
    /\ \A s \in Secrets : spent[s] <= 1

\* However often it is refreshed, no token goes to another client than the owner approved,
\* or has a scope that the owner did not approve.
TokensStayApproved ==
    /\ \A a \in access : {a.client} = grants[a.root].client /\ a.scopes \subseteq grants[a.root].scopes
    /\ \A t \in RefreshTokens : \A code \in grants[t].root :
         grants[t].client = grants[code].client /\ grants[t].scopes \subseteq grants[code].scopes
=============================================================================
