------------------------------ MODULE AccessProofs ------------------------------
(***************************************************************************)
(* TLAPS proofs about three services on the way between Studio and its     *)
(* users, each for any constants: the authorization server (OAuthGrants),  *)
(* the cognitive router (Cognition) and the public tunnels (Tunnels).  The *)
(* three share nothing.                                                    *)
(***************************************************************************)
EXTENDS OAuthGrants, Cognition, Tunnels, SequenceTheorems, WellFoundedInduction, TLAPS

-----------------------------------------------------------------------------
(* The authorization server *)

GrantRows == [state : {"absent", "live", "used", "expired"},
              client : SUBSET Clients, scopes : SUBSET Scopes, root : SUBSET Codes]

TokenRows == [at : {"none", "consume", "check"}, client : SUBSET Clients,
              secret : SUBSET Secrets, proof : BOOLEAN, asked : SUBSET Scopes]

GrantShape ==
    /\ OAuthTypeOK
    /\ requests \in [TokenRequests -> TokenRows]

Issued(s) == grants[s].state # "absent"

\* A row that was issued names its client and its code, and stays within the code's row.
SoundRow(s, c, code) ==
    /\ grants[s].client = {c}
    /\ grants[s].root = {code}
    /\ s \in Codes => s = code
    /\ Issued(code)
    /\ grants[code].client = {c}
    /\ grants[s].scopes \subseteq grants[code].scopes

Rows ==
    \A s \in Secrets :
        \/ grants[s] = NoGrant
        \/ Issued(s) /\ \E c \in Clients, code \in Codes : SoundRow(s, c, code)

\* A request carries one secret that was issued; once spent, it is the client's own unless
\* it is a code, which is checked after.
SoundRequest(r, c, s) ==
    /\ requests[r].client = {c}
    /\ requests[r].secret = {s}
    /\ Issued(s)
    /\ s \in Codes => requests[r].asked = grants[s].scopes
    /\ requests[r].at = "check" => /\ grants[s].state = "used"
                                   /\ s \in RefreshTokens => grants[s].client = {c}

Asked ==
    \A r \in TokenRequests :
        requests[r].at # "none" => \E c \in Clients, s \in Secrets : SoundRequest(r, c, s)

\* A live secret was never accepted.
Spends ==
    \A s \in Secrets :
        /\ spent[s] <= 1
        /\ grants[s].state \in {"absent", "live"} => spent[s] = 0

LiveUnder(s, code) == grants[s].root = {code} /\ grants[s].state = "live"

SpentUnder(r, code) ==
    requests[r].at = "check" /\ \E s \in requests[r].secret : grants[s].root = {code}

Lines ==
    \A code \in Codes :
        /\ \A s, t \in Secrets : LiveUnder(s, code) /\ LiveUnder(t, code) => s = t
        /\ \A q, r \in TokenRequests : SpentUnder(q, code) /\ SpentUnder(r, code) => q = r
        /\ \A s \in Secrets, r \in TokenRequests : ~(LiveUnder(s, code) /\ SpentUnder(r, code))

AccessGiven ==
    \A a \in access :
        /\ Issued(a.root)
        /\ {a.client} = grants[a.root].client
        /\ a.scopes \subseteq grants[a.root].scopes

OAuthInv == GrantShape /\ Rows /\ Asked /\ Spends /\ Lines /\ AccessGiven

-----------------------------------------------------------------------------
LEMMA OAuthInitInv == OAuthInit => OAuthInv
  <1> SUFFICES ASSUME OAuthInit PROVE OAuthInv
      OBVIOUS
  <1>1. GrantShape
      BY DEF OAuthInit, GrantShape, OAuthTypeOK, NoGrant, NoTokenRequest, TokenRows
  <1>2. Rows /\ Asked /\ Spends /\ AccessGiven
      BY DEF OAuthInit, Rows, Asked, Spends, AccessGiven, NoGrant, NoTokenRequest
  <1>3. Lines
      BY DEF OAuthInit, Lines, LiveUnder, SpentUnder, NoGrant, NoTokenRequest
  <1> QED BY <1>1, <1>2, <1>3 DEF OAuthInv

-----------------------------------------------------------------------------
(* What steps have in common *)

\* No step forgets a row, or changes anything of it but its state.
Keeps ==
    \A s \in Secrets : Issued(s) =>
        /\ Issued(s)'
        /\ grants'[s].client = grants[s].client
        /\ grants'[s].scopes = grants[s].scopes
        /\ grants'[s].root = grants[s].root

LEMMA GrantStays ==
    ASSUME OAuthInv, Keeps, NEW s \in Secrets, Issued(s)
    PROVE  Issued(s)' /\ \E c \in Clients, code \in Codes : SoundRow(s, c, code)'
  <1>1. PICK c \in Clients, code \in Codes : SoundRow(s, c, code)
      BY DEF OAuthInv, Rows, Issued, NoGrant
  <1>2. code \in Secrets
      BY DEF Secrets
  <1> QED BY <1>1, <1>2 DEF Keeps, SoundRow

LEMMA GivenStays ==
    ASSUME OAuthInv, Keeps, access' = access
    PROVE  AccessGiven'
  <1> SUFFICES ASSUME NEW a \in access
               PROVE  /\ Issued(a.root)' /\ {a.client} = grants'[a.root].client
                      /\ a.scopes \subseteq grants'[a.root].scopes
      BY DEF AccessGiven
  <1>1. a.root \in Secrets
      BY DEF OAuthInv, GrantShape, OAuthTypeOK, Secrets
  <1> QED BY <1>1 DEF OAuthInv, AccessGiven, Keeps

\* A request that a step leaves alone stays sound, if its secret does not come back to life.
LEMMA RequestStays ==
    ASSUME OAuthInv, Keeps, NEW r \in TokenRequests, requests'[r] = requests[r],
           requests[r].at # "none",
           \A s \in Secrets : grants[s].state = "used" => grants'[s].state = "used"
    PROVE  \E c \in Clients, s \in Secrets : SoundRequest(r, c, s)'
  <1>1. PICK c \in Clients, s \in Secrets : SoundRequest(r, c, s)
      BY DEF OAuthInv, Asked
  <1> QED BY <1>1 DEF Keeps, SoundRequest

\* A step that makes nothing live and spends nothing adds no claim.
LEMMA LinesRest ==
    ASSUME OAuthInv,
           \A s \in Secrets, code \in Codes : LiveUnder(s, code)' => LiveUnder(s, code),
           \A r \in TokenRequests, code \in Codes : SpentUnder(r, code)' => SpentUnder(r, code)
    PROVE  Lines'
  BY DEF OAuthInv, Lines

LEMMA AllRests ==
    ASSUME OAuthInv, UNCHANGED <<grants, requests, access, spent>>
    PROVE  Rows' /\ Asked' /\ Spends' /\ Lines' /\ AccessGiven'
  <1>1. Keeps
      BY DEF Keeps, Issued
  <1>2. Rows' /\ Spends'
      BY DEF OAuthInv, Rows, Spends, Issued, SoundRow
  <1>3. Asked'
      BY <1>1, RequestStays DEF Asked
  <1>4. Lines'
      BY LinesRest DEF LiveUnder, SpentUnder
  <1>5. AccessGiven'
      BY <1>1, GivenStays
  <1> QED BY <1>2, <1>3, <1>4, <1>5

\* The change of a row's state, field by field.
LEMMA Restated ==
    ASSUME OAuthInv, NEW s \in Secrets, NEW state \in {"used", "expired"}, grants[s].state = "live",
           grants' = [grants EXCEPT ![s].state = state]
    PROVE  /\ grants' \in [Secrets -> GrantRows]
           /\ \A t \in Secrets : t # s => grants'[t] = grants[t]
           /\ grants'[s].state = state /\ grants'[s].client = grants[s].client
           /\ grants'[s].scopes = grants[s].scopes /\ grants'[s].root = grants[s].root
           /\ Keeps
  <1>1. grants \in [Secrets -> GrantRows]
      BY DEF OAuthInv, GrantShape, OAuthTypeOK, GrantRows
  <1>2. grants' \in [Secrets -> GrantRows] /\ \A t \in Secrets : t # s => grants'[t] = grants[t]
      BY <1>1 DEF GrantRows
  <1>3. /\ grants'[s].state = state /\ grants'[s].client = grants[s].client
        /\ grants'[s].scopes = grants[s].scopes /\ grants'[s].root = grants[s].root
      BY <1>1 DEF GrantRows
  <1>4. Keeps
      BY <1>2, <1>3 DEF Keeps, Issued
  <1> QED BY <1>2, <1>3, <1>4

\* A request that is answered leaves its slot.
LEMMA DroppedRow ==
    ASSUME OAuthInv, NEW r \in TokenRequests, requests' = [requests EXCEPT ![r] = NoTokenRequest]
    PROVE  /\ requests'[r] = NoTokenRequest
           /\ \A q \in TokenRequests : q # r => requests'[q] = requests[q]
           /\ requests' \in [TokenRequests -> TokenRows]
  <1>1. NoTokenRequest \in TokenRows /\ requests \in [TokenRequests -> TokenRows]
      BY DEF OAuthInv, GrantShape, NoTokenRequest, TokenRows
  <1> QED BY <1>1

LEMMA DroppedRest ==
    ASSUME OAuthInv, NEW r \in TokenRequests, requests' = [requests EXCEPT ![r] = NoTokenRequest],
           grants' = grants
    PROVE  Asked' /\ Lines'
  <1>1. Asked'
    <2>1. Keeps
        BY DEF Keeps, Issued
    <2>2. ASSUME NEW q \in TokenRequests, requests'[q].at # "none"
          PROVE  \E c \in Clients, s \in Secrets : SoundRequest(q, c, s)'
      <3>1. requests'[q] = requests[q]
          BY <2>2, DroppedRow DEF NoTokenRequest
      <3> QED BY <2>1, <2>2, <3>1, RequestStays
    <2> QED BY <2>2 DEF Asked
  <1>2. \A q \in TokenRequests, code \in Codes : SpentUnder(q, code)' => SpentUnder(q, code)
      BY DroppedRow DEF SpentUnder, NoTokenRequest
  <1>3. Lines'
      BY <1>2, LinesRest DEF LiveUnder
  <1> QED BY <1>1, <1>3

\* A request that is refused changes nothing else.
LEMMA Dropped ==
    ASSUME OAuthInv, NEW r \in TokenRequests, requests' = [requests EXCEPT ![r] = NoTokenRequest],
           UNCHANGED <<clients, remembered, grants, access, spent>>
    PROVE  OAuthInv'
  <1>1. GrantShape'
      BY DroppedRow DEF OAuthInv, GrantShape, OAuthTypeOK
  <1>2. Rows' /\ Spends' /\ AccessGiven'
      BY DEF OAuthInv, Rows, Spends, AccessGiven, Issued, SoundRow
  <1>3. Asked' /\ Lines'
      BY DroppedRest
  <1> QED BY <1>1, <1>2, <1>3 DEF OAuthInv

-----------------------------------------------------------------------------
(* The steps *)

LEMMA RegistrationKeepsInv ==
    ASSUME OAuthInv, NEW c \in Clients, NEW scopes \in SUBSET Scopes, RegisterClient(c, scopes)
    PROVE  OAuthInv'
  <1>1. GrantShape'
      BY DEF OAuthInv, GrantShape, OAuthTypeOK, RegisterClient
  <1>2. Rows' /\ Asked' /\ Spends' /\ Lines' /\ AccessGiven'
      BY AllRests DEF RegisterClient
  <1> QED BY <1>1, <1>2 DEF OAuthInv

LEMMA ConsentKeepsInv ==
    ASSUME OAuthInv, NEW code \in Codes, NEW c \in Clients, NEW scopes \in SUBSET Scopes,
           NEW withToken \in BOOLEAN, ApproveClient(code, c, scopes, withToken)
    PROVE  OAuthInv'
  <1>1. code \in Secrets
      BY DEF Secrets
  <1>2. /\ grants' = [grants EXCEPT ![code] = Grant(c, scopes, code)]
        /\ grants[code] = NoGrant /\ UNCHANGED <<clients, requests, access, spent>>
      BY DEF ApproveClient
  <1>3. grants \in [Secrets -> GrantRows] /\ Grant(c, scopes, code) \in GrantRows
      BY DEF OAuthInv, GrantShape, OAuthTypeOK, GrantRows, Grant
  <1>4. /\ grants' \in [Secrets -> GrantRows]
        /\ grants'[code] = Grant(c, scopes, code)
        /\ \A s \in Secrets : s # code => grants'[s] = grants[s]
      BY <1>1, <1>2, <1>3
  <1>5. ~Issued(code) /\ Keeps
      BY <1>2, <1>4 DEF Keeps, Issued, NoGrant
  <1>6. GrantShape'
      BY <1>2, <1>4 DEF OAuthInv, GrantShape, OAuthTypeOK, GrantRows, ApproveClient
  <1>7. Rows'
    <2>1. Issued(code)' /\ SoundRow(code, c, code)'
        BY <1>4 DEF Issued, SoundRow, Grant
    <2>2. ASSUME NEW s \in Secrets, s # code
          PROVE  \/ grants'[s] = NoGrant
                 \/ Issued(s)' /\ \E d \in Clients, k \in Codes : SoundRow(s, d, k)'
        BY <1>4, <1>5, <2>2, GrantStays DEF OAuthInv, Rows
    <2> QED BY <2>1, <2>2 DEF Rows
  <1>8. Asked'
    <2>1. \A s \in Secrets : grants[s].state = "used" => grants'[s].state = "used"
        BY <1>2, <1>4 DEF NoGrant
    <2> QED BY <1>2, <1>5, <2>1, RequestStays DEF Asked
  <1>9. Spends'
      BY <1>1, <1>2, <1>4 DEF OAuthInv, Spends, NoGrant, Grant
  <1>10. Lines'
    <2>1. ASSUME NEW s \in Secrets, grants[s].root = {code}
          PROVE  FALSE
      <3>1. PICK d \in Clients, k \in Codes : SoundRow(s, d, k)
          BY <2>1 DEF OAuthInv, Rows, NoGrant
      <3> QED BY <2>1, <3>1, <1>5 DEF SoundRow
    <2>2. ASSUME NEW s \in Secrets, NEW k \in Codes
          PROVE  LiveUnder(s, k)' <=> (s = code /\ k = code) \/ (LiveUnder(s, k) /\ k # code)
        BY <1>1, <1>2, <1>4, <2>1, <2>2 DEF LiveUnder, Grant, NoGrant
    <2>3. ASSUME NEW r \in TokenRequests, NEW k \in Codes, SpentUnder(r, k)'
          PROVE  SpentUnder(r, k) /\ k # code
      <3>1. PICK s \in requests[r].secret : grants'[s].root = {k}
          BY <1>2, <2>3 DEF SpentUnder
      <3>2. PICK d \in Clients, t \in Secrets : SoundRequest(r, d, t)
          BY <1>2, <2>3 DEF SpentUnder, OAuthInv, Asked
      <3>3. s \in Secrets /\ s # code
          BY <3>1, <3>2, <1>5 DEF SoundRequest
      <3> QED BY <1>2, <1>4, <2>1, <2>3, <3>1, <3>3 DEF SpentUnder
    <2> QED BY <2>2, <2>3 DEF OAuthInv, Lines
  <1>11. AccessGiven'
      BY <1>2, <1>5, GivenStays
  <1> QED BY <1>6, <1>7, <1>8, <1>9, <1>10, <1>11 DEF OAuthInv

LEMMA BeginningKeepsInv ==
    ASSUME OAuthInv, NEW r \in TokenRequests, NEW c \in Clients, NEW s \in Secrets,
           NEW proof \in BOOLEAN, NEW wish \in SUBSET Scopes, BeginToken(r, c, s, proof, wish)
    PROVE  OAuthInv'
  <1> DEFINE scopes == IF s \in Codes \/ wish = {} THEN grants[s].scopes ELSE wish
             begun == [at |-> "consume", client |-> {c}, secret |-> {s},
                       proof |-> proof /\ s \in Codes, asked |-> scopes]
  <1>1. /\ requests' = [requests EXCEPT ![r] = begun]
        /\ UNCHANGED <<clients, remembered, grants, access, spent>> /\ Issued(s)
      BY DEF BeginToken, Issued
  <1>2. begun \in TokenRows
    <2>1. scopes \in SUBSET Scopes
        BY DEF OAuthInv, GrantShape, OAuthTypeOK
    <2>2. (proof /\ s \in Codes) \in BOOLEAN
        OBVIOUS
    <2> HIDE DEF scopes
    <2> QED BY <2>1, <2>2 DEF TokenRows
  <1>3. /\ requests'[r] = begun
        /\ \A q \in TokenRequests : q # r => requests'[q] = requests[q]
        /\ requests' \in [TokenRequests -> TokenRows]
      BY <1>1, <1>2 DEF OAuthInv, GrantShape
  <1>4. Keeps
      BY <1>1 DEF Keeps, Issued
  <1>5. GrantShape'
      BY <1>1, <1>3 DEF OAuthInv, GrantShape, OAuthTypeOK
  <1>6. Rows' /\ Spends' /\ AccessGiven'
    <2>1. grants' = grants /\ access' = access /\ spent' = spent
        BY <1>1
    <2> HIDE DEF begun
    <2>2. Rows'
        BY <2>1 DEF OAuthInv, Rows, Issued, SoundRow
    <2>3. Spends'
        BY <2>1 DEF OAuthInv, Spends
    <2>4. AccessGiven'
        BY <2>1 DEF OAuthInv, AccessGiven, Issued
    <2> QED BY <2>2, <2>3, <2>4
  <1>7. Asked'
    <2>1. SoundRequest(r, c, s)'
        BY <1>1, <1>3 DEF SoundRequest, Issued
    <2>2. ASSUME NEW q \in TokenRequests, q # r, requests'[q].at # "none"
          PROVE  \E d \in Clients, t \in Secrets : SoundRequest(q, d, t)'
        BY <1>1, <1>3, <1>4, <2>2, RequestStays
    <2> QED BY <2>1, <2>2 DEF Asked
  <1>8. Lines'
    <2>1. ASSUME NEW q \in TokenRequests, NEW code \in Codes, SpentUnder(q, code)'
          PROVE  SpentUnder(q, code)
      <3>1. q # r
          BY <1>3, <2>1 DEF SpentUnder
      <3> QED BY <1>1, <1>3, <2>1, <3>1 DEF SpentUnder
    <2> QED BY <1>1, <2>1, LinesRest DEF LiveUnder
  <1> QED BY <1>5, <1>6, <1>7, <1>8 DEF OAuthInv

LEMMA ConsumptionKeepsInv ==
    ASSUME OAuthInv, NEW r \in TokenRequests, ConsumeGrant(r)
    PROVE  OAuthInv'
  <1>1. PICK c \in Clients, s \in Secrets : SoundRequest(r, c, s)
      BY DEF ConsumeGrant, OAuthInv, Asked
  <1>2. CASE Consumable(requests[r].client, s)
    <2> DEFINE taken == [at |-> "check", client |-> {c}, secret |-> {s},
                         proof |-> requests[r].proof, asked |-> requests[r].asked]
    <2>1. /\ grants' = [grants EXCEPT ![s].state = "used"]
          /\ requests' = [requests EXCEPT ![r].at = "check"]
          /\ spent' = [spent EXCEPT ![s] = @ + 1]
          /\ UNCHANGED <<clients, remembered, access>>
          /\ grants[s].state = "live" /\ (s \in RefreshTokens => grants[s].client = {c})
        BY <1>1, <1>2 DEF ConsumeGrant, SoundRequest, Consumable
    <2>2. requests[r] \in TokenRows /\ taken \in TokenRows
        BY <1>1 DEF OAuthInv, GrantShape, TokenRows
    <2>3. /\ requests'[r] = taken
          /\ \A q \in TokenRequests : q # r => requests'[q] = requests[q]
          /\ requests' \in [TokenRequests -> TokenRows]
        BY <1>1, <2>1, <2>2 DEF OAuthInv, GrantShape, TokenRows, SoundRequest
    <2>4. /\ grants' \in [Secrets -> GrantRows]
          /\ \A t \in Secrets : t # s => grants'[t] = grants[t]
          /\ grants'[s].state = "used" /\ grants'[s].client = grants[s].client
          /\ grants'[s].scopes = grants[s].scopes /\ grants'[s].root = grants[s].root
          /\ Keeps
        BY <2>1, Restated
    <2>5. spent' \in [Secrets -> Nat] /\ spent'[s] = 1 /\ \A t \in Secrets : t # s => spent'[t] = spent[t]
      <3>1. spent[s] = 0 /\ spent \in [Secrets -> Nat]
          BY <2>1 DEF OAuthInv, Spends, GrantShape, OAuthTypeOK
      <3> QED BY <2>1, <3>1
    <2>6. GrantShape'
        BY <2>1, <2>3, <2>4, <2>5 DEF OAuthInv, GrantShape, OAuthTypeOK, GrantRows
    <2>7. Rows'
      <3>1. ASSUME NEW t \in Secrets
            PROVE  \/ grants'[t] = NoGrant
                   \/ Issued(t)' /\ \E d \in Clients, k \in Codes : SoundRow(t, d, k)'
        <4>1. CASE Issued(t)
            BY <2>4, <4>1, GrantStays
        <4>2. CASE ~Issued(t)
            BY <2>1, <2>4, <4>2 DEF OAuthInv, Rows, Issued
        <4> QED BY <4>1, <4>2
      <3> QED BY <3>1 DEF Rows
    <2>8. Asked'
      <3>1. SoundRequest(r, c, s)'
          BY <1>1, <2>1, <2>3, <2>4 DEF SoundRequest, Keeps
      <3>2. \A t \in Secrets : grants[t].state = "used" => grants'[t].state = "used"
          BY <2>4
      <3>3. ASSUME NEW q \in TokenRequests, q # r, requests'[q].at # "none"
            PROVE  \E d \in Clients, t \in Secrets : SoundRequest(q, d, t)'
          BY <2>3, <2>4, <3>2, <3>3, RequestStays
      <3> QED BY <3>1, <3>3 DEF Asked
    <2>9. Spends'
        BY <2>4, <2>5 DEF OAuthInv, Spends
    <2>10. Lines'
      <3>1. \A t \in Secrets, k \in Codes : LiveUnder(t, k)' => LiveUnder(t, k) /\ t # s
          BY <2>4 DEF LiveUnder
      <3>2. \A k \in Codes : SpentUnder(r, k)' => LiveUnder(s, k)
          BY <2>1, <2>3, <2>4 DEF LiveUnder, SpentUnder
      <3>3. ASSUME NEW q \in TokenRequests, NEW k \in Codes, q # r, SpentUnder(q, k)'
            PROVE  SpentUnder(q, k)
        <4>1. PICK d \in Clients, t \in Secrets : SoundRequest(q, d, t)
            BY <2>3, <3>3 DEF SpentUnder, OAuthInv, Asked
        <4> QED BY <2>3, <2>4, <3>3, <4>1 DEF SpentUnder, SoundRequest
      <3> QED BY <3>1, <3>2, <3>3 DEF OAuthInv, Lines
    <2>11. AccessGiven'
        BY <2>1, <2>4, GivenStays
    <2> QED BY <2>6, <2>7, <2>8, <2>9, <2>10, <2>11 DEF OAuthInv
  <1>3. CASE ~Consumable(requests[r].client, s)
    <2>1. /\ requests' = [requests EXCEPT ![r] = NoTokenRequest]
          /\ UNCHANGED <<clients, remembered, grants, access, spent>>
        BY <1>1, <1>3 DEF ConsumeGrant, SoundRequest
    <2> QED BY <2>1, Dropped
  <1> QED BY <1>2, <1>3

LEMMA IssueKeepsInv ==
    ASSUME OAuthInv, NEW r \in TokenRequests, IssueTokens(r)
    PROVE  OAuthInv'
  <1>1. PICK c \in Clients, s \in Secrets : SoundRequest(r, c, s)
      BY DEF IssueTokens, OAuthInv, Asked
  <1>2. /\ requests[r].at = "check" /\ Issued(s)
        /\ requests[r].client = {c} /\ requests[r].secret = {s}
      BY <1>1 DEF IssueTokens, SoundRequest
  <1>3. PICK d \in Clients, root \in Codes : SoundRow(s, d, root)
      BY <1>2 DEF OAuthInv, Rows, Issued, NoGrant
  <1> DEFINE scopes == requests[r].asked
             token == [client |-> c, scopes |-> scopes, root |-> root]
  <1>4. /\ requests' = [requests EXCEPT ![r] = NoTokenRequest]
        /\ UNCHANGED <<clients, remembered, spent>>
      BY DEF IssueTokens
  <1>5. IF ~Matches(requests[r], s)
          THEN UNCHANGED <<grants, access>>
          ELSE /\ access' = access \cup {token}
               /\ IF Rotates(s, scopes)
                    THEN \E t \in RefreshTokens :
                           /\ grants[t] = NoGrant
                           /\ grants' = [grants EXCEPT ![t] = Grant(c, scopes, root)]
                    ELSE UNCHANGED grants
      BY <1>2, <1>3 DEF IssueTokens, SoundRow
  <1>6. CASE ~Matches(requests[r], s)
      BY <1>4, <1>5, <1>6, Dropped
  <1>7. CASE Matches(requests[r], s)
    <2>1. /\ d = c /\ scopes \in SUBSET Scopes
          /\ {c} = grants[root].client /\ scopes \subseteq grants[root].scopes /\ Issued(root)
      <3>1. Codes \cap RefreshTokens = {} /\ s \in Codes \cup RefreshTokens
          BY OAuthAssumption DEF Secrets
      <3>2. d = c /\ scopes \subseteq grants[s].scopes
          BY <1>1, <1>2, <1>3, <1>7, <3>1 DEF SoundRequest, SoundRow, Matches
      <3>3. scopes \in SUBSET Scopes
          BY DEF OAuthInv, GrantShape, TokenRows
      <3> QED BY <1>3, <3>2, <3>3 DEF SoundRow
    <2>2. token \in [client : Clients, scopes : SUBSET Scopes, root : Codes]
        BY <2>1
    <2>3. access' = access \cup {token}
        BY <1>5, <1>7
    <2>4. SpentUnder(r, root)
        BY <1>2, <1>3 DEF SpentUnder, SoundRow
    <2> HIDE DEF scopes
    <2>5. CASE UNCHANGED grants
      <3>1. GrantShape'
          BY <1>4, <2>2, <2>3, <2>5, DroppedRow DEF OAuthInv, GrantShape, OAuthTypeOK
      <3>2. Rows' /\ Spends'
          BY <1>4, <2>5 DEF OAuthInv, Rows, Spends, Issued, SoundRow
      <3>3. Asked' /\ Lines'
          BY <1>4, <2>5, DroppedRest
      <3>4. AccessGiven'
          BY <2>1, <2>3, <2>5 DEF OAuthInv, AccessGiven, Issued
      <3> QED BY <3>1, <3>2, <3>3, <3>4 DEF OAuthInv
    <2>6. ASSUME NEW t \in RefreshTokens, grants[t] = NoGrant,
                 grants' = [grants EXCEPT ![t] = Grant(c, scopes, root)]
          PROVE  OAuthInv'
      <3>1. t \in Secrets /\ t \notin Codes
          BY OAuthAssumption DEF Secrets
      <3>2. grants \in [Secrets -> GrantRows] /\ Grant(c, scopes, root) \in GrantRows
          BY <2>1 DEF OAuthInv, GrantShape, OAuthTypeOK, GrantRows, Grant
      <3>3. /\ grants' \in [Secrets -> GrantRows]
            /\ grants'[t] = Grant(c, scopes, root)
            /\ \A x \in Secrets : x # t => grants'[x] = grants[x]
          BY <2>6, <3>1, <3>2
      <3>4. ~Issued(t) /\ Keeps
          BY <2>6, <3>3 DEF Keeps, Issued, NoGrant
      <3>5. /\ requests'[r] = NoTokenRequest
            /\ \A q \in TokenRequests : q # r => requests'[q] = requests[q]
            /\ requests' \in [TokenRequests -> TokenRows]
          BY <1>4, DroppedRow
      <3>6. GrantShape'
          BY <1>4, <2>2, <2>3, <3>3, <3>5 DEF OAuthInv, GrantShape, OAuthTypeOK, GrantRows
      <3>7. Rows'
        <4>1. root \in Secrets /\ root # t
            BY <3>1 DEF Secrets
        <4>2. Issued(t)' /\ SoundRow(t, c, root)'
            BY <2>1, <3>1, <3>3, <4>1 DEF SoundRow, Issued, Grant
        <4>3. ASSUME NEW x \in Secrets, x # t
              PROVE  \/ grants'[x] = NoGrant
                     \/ Issued(x)' /\ \E e \in Clients, k \in Codes : SoundRow(x, e, k)'
            BY <3>3, <3>4, <4>3, GrantStays DEF OAuthInv, Rows
        <4> QED BY <4>2, <4>3 DEF Rows
      <3>8. Asked'
        <4>1. \A x \in Secrets : grants[x].state = "used" => grants'[x].state = "used"
            BY <2>6, <3>3 DEF NoGrant
        <4>2. ASSUME NEW q \in TokenRequests, requests'[q].at # "none"
              PROVE  \E e \in Clients, x \in Secrets : SoundRequest(q, e, x)'
          <5>1. q # r
              BY <3>5, <4>2 DEF NoTokenRequest
          <5> QED BY <3>4, <3>5, <4>1, <4>2, <5>1, RequestStays
        <4> QED BY <4>2 DEF Asked
      <3>9. Spends'
          BY <1>4, <2>6, <3>1, <3>3 DEF OAuthInv, Spends, NoGrant, Grant
      <3>10. Lines'
        <4>1. \A x \in Secrets, k \in Codes :
                LiveUnder(x, k)' => (x = t /\ k = root) \/ (LiveUnder(x, k) /\ x # t)
            BY <3>3 DEF LiveUnder, Grant
        <4>2. ASSUME NEW q \in TokenRequests, NEW k \in Codes, SpentUnder(q, k)'
              PROVE  SpentUnder(q, k) /\ q # r
          <5>1. q # r
              BY <3>5, <4>2 DEF SpentUnder, NoTokenRequest
          <5>2. PICK e \in Clients, x \in Secrets : SoundRequest(q, e, x)
              BY <3>5, <4>2, <5>1 DEF SpentUnder, OAuthInv, Asked
          <5>3. x # t
              BY <3>4, <5>2 DEF SoundRequest
          <5> QED BY <3>3, <3>5, <4>2, <5>1, <5>2, <5>3 DEF SpentUnder, SoundRequest
        <4> QED BY <2>4, <4>1, <4>2 DEF OAuthInv, Lines
      <3>11. AccessGiven'
        <4>1. ASSUME NEW a \in access'
              PROVE  /\ Issued(a.root)' /\ {a.client} = grants'[a.root].client
                     /\ a.scopes \subseteq grants'[a.root].scopes
          <5>1. CASE a \in access
            <6>1. a.root \in Secrets
                BY <5>1 DEF OAuthInv, GrantShape, OAuthTypeOK, Secrets
            <6> QED BY <3>4, <5>1, <6>1 DEF OAuthInv, AccessGiven, Keeps
          <5>2. CASE a = token
            <6>1. root \in Secrets
                BY DEF Secrets
            <6> QED BY <2>1, <3>4, <5>2, <6>1 DEF Keeps
          <5> QED BY <2>3, <4>1, <5>1, <5>2
        <4> QED BY <4>1 DEF AccessGiven
      <3> QED BY <3>6, <3>7, <3>8, <3>9, <3>10, <3>11 DEF OAuthInv
    <2> QED BY <1>5, <1>7, <2>5, <2>6
  <1> QED BY <1>6, <1>7

LEMMA ExpiryKeepsInv ==
    ASSUME OAuthInv, NEW s \in Secrets, GrantExpires(s)
    PROVE  OAuthInv'
  <1>1. /\ grants' = [grants EXCEPT ![s].state = "expired"] /\ grants[s].state = "live"
        /\ UNCHANGED <<clients, remembered, requests, access, spent>>
      BY DEF GrantExpires
  <1>2. /\ grants' \in [Secrets -> GrantRows]
        /\ \A t \in Secrets : t # s => grants'[t] = grants[t]
        /\ grants'[s].state = "expired" /\ grants'[s].client = grants[s].client
        /\ grants'[s].scopes = grants[s].scopes /\ grants'[s].root = grants[s].root
        /\ Keeps
      BY <1>1, Restated
  <1>3. GrantShape'
      BY <1>1, <1>2 DEF OAuthInv, GrantShape, OAuthTypeOK, GrantRows
  <1>4. Rows'
    <2>1. ASSUME NEW t \in Secrets
          PROVE  \/ grants'[t] = NoGrant
                 \/ Issued(t)' /\ \E d \in Clients, k \in Codes : SoundRow(t, d, k)'
      <3>1. CASE Issued(t)
          BY <1>2, <3>1, GrantStays
      <3>2. CASE ~Issued(t)
          BY <1>1, <1>2, <3>2 DEF OAuthInv, Rows, Issued
      <3> QED BY <3>1, <3>2
    <2> QED BY <2>1 DEF Rows
  <1>5. Asked'
    <2>1. \A t \in Secrets : grants[t].state = "used" => grants'[t].state = "used"
        BY <1>1, <1>2
    <2> QED BY <1>1, <1>2, <2>1, RequestStays DEF Asked
  <1>6. Spends'
      BY <1>1, <1>2 DEF OAuthInv, Spends
  <1>7. Lines'
    <2>1. \A t \in Secrets, k \in Codes : LiveUnder(t, k)' => LiveUnder(t, k)
        BY <1>2 DEF LiveUnder
    <2>2. ASSUME NEW q \in TokenRequests, NEW k \in Codes, SpentUnder(q, k)'
          PROVE  SpentUnder(q, k)
      <3>1. PICK d \in Clients, t \in Secrets : SoundRequest(q, d, t)
          BY <1>1, <2>2 DEF SpentUnder, OAuthInv, Asked
      <3> QED BY <1>1, <1>2, <2>2, <3>1 DEF SpentUnder, SoundRequest
    <2> QED BY <2>1, <2>2, LinesRest
  <1>8. AccessGiven'
      BY <1>1, <1>2, GivenStays
  <1> QED BY <1>3, <1>4, <1>5, <1>6, <1>7, <1>8 DEF OAuthInv

LEMMA OAuthRestartKeepsInv ==
    ASSUME OAuthInv, NEW rotated \in BOOLEAN, OAuthRestart(rotated)
    PROVE  OAuthInv'
  <1>1. /\ requests' = [r \in TokenRequests |-> NoTokenRequest]
        /\ UNCHANGED <<clients, grants, access, spent>>
      BY DEF OAuthRestart
  <1>2. NoTokenRequest \in TokenRows
      BY DEF NoTokenRequest, TokenRows
  <1>3. GrantShape'
      BY <1>1, <1>2 DEF OAuthInv, GrantShape, OAuthTypeOK, OAuthRestart
  <1>4. Rows' /\ Spends' /\ AccessGiven'
      BY <1>1 DEF OAuthInv, Rows, Spends, AccessGiven, Issued, SoundRow
  <1>5. Asked' /\ Lines'
      BY <1>1, LinesRest DEF Asked, NoTokenRequest, LiveUnder, SpentUnder
  <1> QED BY <1>3, <1>4, <1>5 DEF OAuthInv

LEMMA OAuthStepKeepsInv == OAuthInv /\ [OAuthNext]_oauthVars => OAuthInv'
  <1> SUFFICES ASSUME OAuthInv, [OAuthNext]_oauthVars PROVE OAuthInv'
      OBVIOUS
  <1>1. CASE \E c \in Clients, scopes \in SUBSET Scopes : RegisterClient(c, scopes)
      BY <1>1, RegistrationKeepsInv
  <1>2. CASE \E c \in Clients, scopes \in SUBSET Scopes, code \in Codes, withToken \in BOOLEAN :
               ApproveClient(code, c, scopes, withToken)
      BY <1>2, ConsentKeepsInv
  <1>3. CASE \E c \in Clients, scopes \in SUBSET Scopes, r \in TokenRequests, s \in Secrets,
                proof \in BOOLEAN : BeginToken(r, c, s, proof, scopes)
      BY <1>3, BeginningKeepsInv
  <1>4. CASE \E r \in TokenRequests : ConsumeGrant(r) \/ IssueTokens(r)
      BY <1>4, ConsumptionKeepsInv, IssueKeepsInv
  <1>5. CASE \E s \in Secrets : GrantExpires(s)
      BY <1>5, ExpiryKeepsInv
  <1>6. CASE \E rotated \in BOOLEAN : OAuthRestart(rotated)
      BY <1>6, OAuthRestartKeepsInv
  <1>7. CASE UNCHANGED oauthVars
    <2>1. GrantShape'
        BY <1>7 DEF oauthVars, OAuthInv, GrantShape, OAuthTypeOK
    <2>2. Rows' /\ Asked' /\ Spends' /\ Lines' /\ AccessGiven'
        BY <1>7, AllRests DEF oauthVars
    <2> QED BY <2>1, <2>2 DEF OAuthInv
  <1> QED BY <1>1, <1>2, <1>3, <1>4, <1>5, <1>6, <1>7 DEF OAuthNext

\* The inductive invariant: rows descend from their approval, requests carry what they
\* spent, and each approval has at most one claim.
THEOREM OAuthIsInvariant == OAuthSpec => []OAuthInv
  <1> QED BY OAuthInitInv, OAuthStepKeepsInv, PTL DEF OAuthSpec

LEMMA InvImpliesOneLine == OAuthInv => OneLinePerApproval
  <1> SUFFICES ASSUME OAuthInv PROVE OneLinePerApproval
      OBVIOUS
  <1>1. ASSUME NEW code \in Codes, NEW x \in Claims(code), NEW y \in Claims(code)
        PROVE  x = y
    <2>1. ASSUME NEW z \in Claims(code)
          PROVE  \/ \E s \in Secrets : z = <<"secret", s>> /\ LiveUnder(s, code)
                 \/ \E r \in TokenRequests : z = <<"request", r>> /\ SpentUnder(r, code)
        BY DEF Claims, LiveUnder, SpentUnder
    <2> QED BY <2>1 DEF OAuthInv, Lines
  <1> QED BY <1>1 DEF OAuthInv, Spends, OneLinePerApproval

\* Whatever requests race with the same secret or die between its use and the next one,
\* an approval never has two lines of tokens (consume_oauth_authorization_code,
\* consume_oauth_refresh_token, OAuthManager.token).
THEOREM ApprovalsKeepOneLine == OAuthSpec => []OneLinePerApproval
  <1> QED BY OAuthIsInvariant, InvImpliesOneLine, PTL

LEMMA InvImpliesApproved == OAuthInv => TokensStayApproved
  <1> SUFFICES ASSUME OAuthInv PROVE TokensStayApproved
      OBVIOUS
  <1>1. ASSUME NEW t \in RefreshTokens, NEW code \in grants[t].root
        PROVE  grants[t].client = grants[code].client /\ grants[t].scopes \subseteq grants[code].scopes
    <2>1. t \in Secrets
        BY DEF Secrets
    <2>2. PICK c \in Clients, k \in Codes : SoundRow(t, c, k)
        BY <1>1, <2>1 DEF OAuthInv, Rows, NoGrant
    <2> QED BY <1>1, <2>2 DEF SoundRow
  <1> QED BY <1>1 DEF OAuthInv, AccessGiven, TokensStayApproved

\* No chain of refreshes leads to a client or a scope the owner did not approve
\* (OAuthManager.token).
THEOREM TokensStayWithinApproval == OAuthSpec => []TokensStayApproved
  <1> QED BY OAuthIsInvariant, InvImpliesApproved, PTL

-----------------------------------------------------------------------------
(* The cognitive router *)

AskPoints == {"idle", "next", "prompt", "read", "answered", "failed"}

Markers == [marker : {"start", "end"}, request : SUBSET Requests]

\* The candidates of a plan need no shape.
AskRow(x) ==
    x \in [at : AskPoints, candidates : {x.candidates}, pane : SUBSET Panes, repaired : BOOLEAN,
           answer : SUBSET Requests]

AskShape ==
    /\ asks = [r \in Requests |-> asks[r]]
    /\ \A r \in Requests : AskRow(asks[r])

PaneShape ==
    /\ seenIdle \subseteq Panes
    /\ asked \in [Requests -> [Panes -> Nat]]
    /\ history \in [Panes -> Seq(Markers)]
    /\ inbox \in [Panes -> Seq(Requests)]

PutTo(r, p) == asked[r][p] > 0

\* An agent works only on requests that were put to its pane, ...
PromptsWereAsked ==
    \A p \in Panes : \A i \in 1..Len(inbox[p]) : PutTo(inbox[p][i], p)

\* ... so only they are answered there.
AnswersWereAsked ==
    \A p \in Panes : \A i \in 1..Len(history[p]) : \A r \in history[p][i].request : PutTo(r, p)

\* A request that waits for an answer, or has one, has one pane.
PaneIsChosen ==
    \A r \in Requests : asks[r].at \in {"prompt", "read", "answered"} => \E p \in Panes : asks[r].pane = {p}

CognitionInv ==
    AskShape /\ PaneShape /\ PromptsWereAsked /\ AnswersWereAsked /\ PaneIsChosen /\ AnswersTheRequest

LEMMA LeastIndex ==
    ASSUME NEW S, S \subseteq Nat, S # {}
    PROVE  \E i \in S : \A j \in S : i <= j
  <1>1. PICK i \in S : \A j \in S : ~ (<<j, i>> \in OpToRel(<, Nat))
      BY WFMin, NatLessThanWellFounded
  <1>2. ASSUME NEW j \in S PROVE i <= j
    <2>1. ~(j < i)
        BY <1>1 DEF OpToRel
    <2> QED BY <2>1
  <1> QED BY <1>2

\* What is cut out of a history lies between a start marker of the request and an end marker.
LEMMA ExtractIsFramed ==
    ASSUME NEW h \in Seq(Markers), NEW r \in Requests, NEW i \in Found(h, r)
    PROVE  /\ i \in 1..Len(h) /\ h[i] = StartOf(r)
           /\ \E j \in 1..Len(h) : i < j /\ Extract(h, i) = UNION {h[k].request : k \in i..j}
  <1> DEFINE j == First(EndsAfter(h, i))
  <1>1. Len(h) \in Nat
      BY LenProperties
  <1>2. i \in 1..Len(h) /\ h[i] = StartOf(r) /\ EndsAfter(h, i) # {}
      BY DEF Found
  <1>3. j \in EndsAfter(h, i)
    <2>1. EndsAfter(h, i) \subseteq Nat
        BY <1>1, <1>2 DEF EndsAfter
    <2>2. \E x \in EndsAfter(h, i) : \A y \in EndsAfter(h, i) : x <= y
        BY <1>2, <2>1, LeastIndex
    <2> QED BY <2>2 DEF First
  <1>4. j \in 1..Len(h) /\ i < j
      BY <1>1, <1>2, <1>3 DEF EndsAfter
  <1>5. Extract(h, i) = UNION {h[k].request : k \in i..j}
      BY DEF Extract
  <1> HIDE DEF j
  <1> QED BY <1>2, <1>4, <1>5

LEMMA CognitionInitInv == CognitionInit => CognitionInv
  <1> SUFFICES ASSUME CognitionInit PROVE CognitionInv
      OBVIOUS
  <1>1. AskRow(NoAsk) /\ NoAsk.at = "idle"
      BY DEF AskRow, NoAsk, AskPoints
  <1>2. \A r \in Requests : asks[r] = NoAsk
      BY DEF CognitionInit
  <1>3. AskShape
      BY <1>1, <1>2 DEF AskShape, CognitionInit
  <1>4. PaneShape
      BY EmptySeq DEF PaneShape, CognitionInit
  <1>5. PromptsWereAsked /\ AnswersWereAsked
      BY DEF PromptsWereAsked, AnswersWereAsked, CognitionInit
  <1>6. PaneIsChosen /\ AnswersTheRequest
      BY <1>1, <1>2 DEF PaneIsChosen, AnswersTheRequest
  <1> QED BY <1>3, <1>4, <1>5, <1>6 DEF CognitionInv

\* A step that moves one request on, in a legal way, and touches no pane.
LEMMA AskMoves ==
    ASSUME CognitionInv, NEW r \in Requests, NEW x, AskRow(x),
           asks' = [asks EXCEPT ![r] = x],
           x.at \in {"prompt", "read"} => \E p \in Panes : x.pane = {p},
           x.at # "answered",
           UNCHANGED <<history, inbox, asked>>, seenIdle' \subseteq Panes
    PROVE  CognitionInv'
  <1>1. \A q \in Requests : asks'[q] = IF q = r THEN x ELSE asks[q]
      BY DEF CognitionInv, AskShape
  <1>2. AskShape'
    <2>1. asks' = [q \in Requests |-> asks'[q]]
        BY DEF CognitionInv, AskShape
    <2>2. \A q \in Requests : AskRow(asks'[q])
        BY <1>1 DEF CognitionInv, AskShape
    <2> QED BY <2>1, <2>2 DEF AskShape, AskRow
  <1>3. PaneShape' /\ PromptsWereAsked' /\ AnswersWereAsked'
      BY DEF CognitionInv, PaneShape, PromptsWereAsked, AnswersWereAsked, PutTo
  <1>4. PaneIsChosen'
      BY <1>1 DEF CognitionInv, PaneIsChosen
  <1>5. AnswersTheRequest'
      BY <1>1 DEF CognitionInv, AnswersTheRequest
  <1> QED BY <1>2, <1>3, <1>4, <1>5 DEF CognitionInv

LEMMA UnplannedRow ==
    ASSUME NEW at \in {"failed", "next"}, NEW rest
    PROVE  LET x == [NoAsk EXCEPT !.at = at, !.candidates = rest]
           IN  AskRow(x) /\ x.at = at
  <1> DEFINE x == [NoAsk EXCEPT !.at = at, !.candidates = rest]
  <1>1. NoAsk \in [at : AskPoints, candidates : {<<>>}, pane : SUBSET Panes, repaired : BOOLEAN,
                   answer : SUBSET Requests]
      BY DEF NoAsk, AskPoints
  <1>2. x.at = at /\ x.candidates = rest
      BY <1>1
  <1>3. x \in [at : AskPoints, candidates : {rest}, pane : SUBSET Panes, repaired : BOOLEAN,
               answer : SUBSET Requests]
      BY <1>1 DEF AskPoints
  <1> HIDE DEF x
  <1>4. AskRow(x)
      BY <1>2, <1>3 DEF AskRow
  <1> QED BY <1>2, <1>4 DEF x

LEMMA PlanKeepsInv ==
    ASSUME CognitionInv, NEW r \in Requests, Plan(r)
    PROVE  CognitionInv'
  <1>0. PICK lane \in LanesFor(r), fallback \in BOOLEAN, open \in Healthy :
            \E order \in Orders(lane, open) :
                asks' = [asks EXCEPT ![r] = [NoAsk EXCEPT
                    !.at = IF open = {} THEN "failed" ELSE "next",
                    !.candidates = IF fallback \/ open = {} THEN order ELSE <<Head(order)>>]]
      BY Zenon DEF Plan
  <1>1. PICK order \in Orders(lane, open) :
            asks' = [asks EXCEPT ![r] = [NoAsk EXCEPT
                !.at = IF open = {} THEN "failed" ELSE "next",
                !.candidates = IF fallback \/ open = {} THEN order ELSE <<Head(order)>>]]
      BY <1>0
  <1> DEFINE at == IF open = {} THEN "failed" ELSE "next"
             rest == IF fallback \/ open = {} THEN order ELSE <<Head(order)>>
             x == [NoAsk EXCEPT !.at = at, !.candidates = rest]
  <1>2. AskRow(x) /\ x.at \in {"failed", "next"}
    <2>1. at \in {"failed", "next"}
        OBVIOUS
    <2> HIDE DEF at, rest
    <2> QED BY <2>1, UnplannedRow DEF NoAsk
  <1>3. UNCHANGED <<history, inbox, asked>> /\ seenIdle' \subseteq Panes
      BY DEF Plan, Idle
  <1> HIDE DEF x
  <1> QED BY <1>1, <1>2, <1>3, AskMoves DEF x

LEMMA NextCandidateKeepsInv ==
    ASSUME CognitionInv, NEW r \in Requests, NextCandidate(r),
           UNCHANGED <<history, inbox, seenIdle, asked>>
    PROVE  CognitionInv'
  <1> DEFINE at == IF Len(asks[r].candidates) > 1 THEN "next" ELSE "failed"
             rest == Tail(asks[r].candidates)
             x == [NoAsk EXCEPT !.at = at, !.candidates = rest]
  <1>1. asks' = [asks EXCEPT ![r] = x]
      BY DEF NextCandidate
  <1>2. AskRow(x) /\ x.at \in {"failed", "next"}
    <2>1. at \in {"failed", "next"}
        OBVIOUS
    <2> HIDE DEF at, rest
    <2> QED BY <2>1, UnplannedRow DEF NoAsk
  <1>3. seenIdle \subseteq Panes
      BY DEF CognitionInv, PaneShape
  <1> HIDE DEF x
  <1> QED BY <1>1, <1>2, <1>3, AskMoves DEF x

LEMMA ChoosePaneKeepsInv ==
    ASSUME CognitionInv, NEW r \in Requests, ChoosePane(r)
    PROVE  CognitionInv'
  <1>1. CASE NextCandidate(r)
      BY <1>1, NextCandidateKeepsInv DEF ChoosePane
  <1>2. CASE \E p \in seenIdle : asks' = [asks EXCEPT ![r].at = "prompt", ![r].pane = {p}]
    <2>1. PICK p \in seenIdle : asks' = [asks EXCEPT ![r].at = "prompt", ![r].pane = {p}]
        BY <1>2
    <2> DEFINE x == [asks[r] EXCEPT !.at = "prompt", !.pane = {p}]
    <2>2. asks' = [asks EXCEPT ![r] = x]
        BY <2>1
    <2>3. p \in Panes /\ seenIdle \subseteq Panes /\ AskRow(asks[r])
        BY DEF CognitionInv, PaneShape, AskShape
    <2>4. AskRow(x) /\ x.at = "prompt" /\ x.pane = {p}
      <3>1. x.candidates = asks[r].candidates /\ x.at = "prompt"
          BY <2>3 DEF AskRow
      <3> QED BY <2>3, <3>1 DEF AskRow, AskPoints
    <2>5. UNCHANGED <<history, inbox, seenIdle, asked>>
        BY DEF ChoosePane
    <2> HIDE DEF x
    <2> QED BY <2>2, <2>3, <2>4, <2>5, AskMoves
  <1> QED BY <1>1, <1>2 DEF ChoosePane

LEMMA PromptPaneKeepsInv ==
    ASSUME CognitionInv, NEW r \in Requests, NEW p \in Panes, PromptPane(r, p)
    PROVE  CognitionInv'
  <1>1. /\ asks[r].at = "prompt" /\ asks[r].pane = {p}
        /\ inbox' = [inbox EXCEPT ![p] = Append(@, r)]
        /\ asked' = [asked EXCEPT ![r][p] = @ + 1]
        /\ asks' = [asks EXCEPT ![r].at = "read"]
        /\ UNCHANGED <<history, seenIdle>>
      BY DEF PromptPane
  <1> DEFINE x == [asks[r] EXCEPT !.at = "read"]
  <1>2. AskRow(x) /\ x.at = "read" /\ x.pane = {p}
      BY <1>1 DEF CognitionInv, AskShape, AskRow, AskPoints
  <1>3. asks' = [asks EXCEPT ![r] = x]
      BY <1>1
  <1> HIDE DEF x
  <1>4. \A q \in Requests : asks'[q] = IF q = r THEN x ELSE asks[q]
      BY <1>3 DEF CognitionInv, AskShape
  <1>5. AskShape'
    <2>1. asks' = [q \in Requests |-> asks'[q]]
        BY <1>3 DEF CognitionInv, AskShape
    <2>2. \A q \in Requests : AskRow(asks'[q])
        BY <1>2, <1>4 DEF CognitionInv, AskShape
    <2> QED BY <2>1, <2>2 DEF AskShape, AskRow
  <1>6. asked' \in [Requests -> [Panes -> Nat]]
      BY <1>1 DEF CognitionInv, PaneShape
  <1>7. \A q \in Requests, o \in Panes : PutTo(q, o) => PutTo(q, o)'
      BY <1>1 DEF CognitionInv, PaneShape, PutTo
  <1>8. PutTo(r, p)'
      BY <1>1 DEF CognitionInv, PaneShape, PutTo
  <1>9. /\ inbox' \in [Panes -> Seq(Requests)]
        /\ \A o \in Panes : inbox'[o] = IF o = p THEN Append(inbox[p], r) ELSE inbox[o]
      BY <1>1, AppendProperties DEF CognitionInv, PaneShape
  <1>10. PaneShape'
      BY <1>1, <1>6, <1>9 DEF CognitionInv, PaneShape
  <1>11. PromptsWereAsked'
    <2> SUFFICES ASSUME NEW o \in Panes, NEW i \in 1..Len(inbox'[o])
                 PROVE  asked'[inbox'[o][i]][o] > 0
        BY DEF PromptsWereAsked, PutTo
    <2>1. inbox[o] \in Seq(Requests)
        BY DEF CognitionInv, PaneShape
    <2>2. CASE i \in 1..Len(inbox[o])
      <3>1. inbox'[o][i] = inbox[o][i]
        <4>1. CASE o = p
          <5>1. inbox'[o] = Append(inbox[o], r)
              BY <1>9, <4>1
          <5> QED BY <2>1, <2>2, <5>1, AppendProperties
        <4>2. CASE o # p
            BY <1>9, <4>2
        <4> QED BY <4>1, <4>2
      <3>2. inbox[o][i] \in Requests
          BY <2>1, <2>2, ElementOfSeq
      <3>3. PutTo(inbox[o][i], o)
          BY <2>2 DEF CognitionInv, PromptsWereAsked
      <3> QED BY <1>7, <3>1, <3>2, <3>3 DEF PutTo
    <2>3. CASE i \notin 1..Len(inbox[o])
      <3>1. o = p /\ i = Len(inbox[o]) + 1
          BY <1>9, <2>1, <2>3, AppendProperties, LenProperties
      <3>2. inbox'[o][i] = r
          BY <1>9, <2>1, <3>1, AppendProperties
      <3> QED BY <1>8, <3>1, <3>2 DEF PutTo
    <2> QED BY <2>2, <2>3
  <1>12. AnswersWereAsked'
    <2> SUFFICES ASSUME NEW o \in Panes, NEW i \in 1..Len(history[o]), NEW q \in history[o][i].request
                 PROVE  PutTo(q, o)'
        BY <1>1 DEF AnswersWereAsked
    <2>1. q \in Requests
      <3>1. history[o] \in Seq(Markers)
          BY DEF CognitionInv, PaneShape
      <3>2. history[o][i] \in Markers
          BY <3>1, ElementOfSeq
      <3> QED BY <3>2 DEF Markers
    <2> QED BY <1>7, <2>1 DEF CognitionInv, AnswersWereAsked
  <1>13. PaneIsChosen'
      BY <1>2, <1>4 DEF CognitionInv, PaneIsChosen
  <1>14. AnswersTheRequest'
    <2> SUFFICES ASSUME NEW q \in Requests, asks'[q].at = "answered"
                 PROVE  /\ q \in asks'[q].answer
                        /\ \A other \in asks'[q].answer : \E o \in asks'[q].pane : asked'[other][o] > 0
        BY DEF AnswersTheRequest, PutTo
    <2>1. asks'[q] = asks[q]
        BY <1>2, <1>4
    <2>2. asks[q].answer \subseteq Requests /\ asks[q].pane \subseteq Panes
        BY DEF CognitionInv, AskShape, AskRow
    <2>3. q \in asks[q].answer /\ \A other \in asks[q].answer : \E o \in asks[q].pane : PutTo(other, o)
        BY <2>1 DEF CognitionInv, AnswersTheRequest, PutTo
    <2> QED BY <1>7, <2>1, <2>2, <2>3 DEF PutTo
  <1> QED BY <1>5, <1>10, <1>11, <1>12, <1>13, <1>14 DEF CognitionInv

LEMMA ReadAnswerKeepsInv ==
    ASSUME CognitionInv, NEW r \in Requests, NEW p \in Panes, ReadAnswer(r, p)
    PROVE  CognitionInv'
  <1> DEFINE h == history[p]
  <1>0. PICK i \in Found(h, r) :
            asks' = [asks EXCEPT ![r].at = "answered", ![r].answer = Extract(h, i)]
      BY DEF ReadAnswer
  <1> DEFINE found == Extract(h, i)
  <1>1. h \in Seq(Markers)
      BY DEF CognitionInv, PaneShape
  <1>2. /\ i \in 1..Len(h) /\ h[i] = StartOf(r)
        /\ \E j \in 1..Len(h) : i < j /\ found = UNION {h[k].request : k \in i..j}
      BY <1>1, ExtractIsFramed
  <1>2a. PICK j \in 1..Len(h) : i < j /\ found = UNION {h[k].request : k \in i..j}
      BY <1>2
  <1>3. r \in found
    <2>1. i \in i..j /\ r \in h[i].request
        BY <1>2, <1>2a DEF StartOf
    <2> QED BY <1>2a, <2>1
  <1>4. ASSUME NEW q \in found PROVE q \in Requests /\ PutTo(q, p)
    <2>1. PICK k \in i..j : q \in h[k].request
        BY <1>2a
    <2>2. k \in 1..Len(h)
        BY <1>1, <1>2, LenProperties
    <2>3. h[k] \in Markers
        BY <1>1, <2>2, ElementOfSeq
    <2> QED BY <2>1, <2>2, <2>3 DEF CognitionInv, AnswersWereAsked, Markers
  <1> DEFINE x == [asks[r] EXCEPT !.at = "answered", !.answer = found]
  <1>5. /\ asks' = [asks EXCEPT ![r] = x]
        /\ asks[r].pane = {p}
        /\ UNCHANGED <<history, inbox, seenIdle, asked>>
      BY <1>0 DEF ReadAnswer
  <1> HIDE DEF found
  <1>6. AskRow(x) /\ x.answer = found /\ x.pane = {p} /\ x.at = "answered"
    <2>1. AskRow(asks[r])
        BY DEF CognitionInv, AskShape
    <2>2. x.candidates = asks[r].candidates
        BY <1>5, <2>1 DEF AskRow
    <2> QED BY <1>4, <1>5, <2>1, <2>2 DEF AskRow, AskPoints
  <1> HIDE DEF x, h
  <1>7. \A q \in Requests : asks'[q] = IF q = r THEN x ELSE asks[q]
      BY <1>5 DEF CognitionInv, AskShape
  <1>8. AskShape'
    <2>1. asks' = [q \in Requests |-> asks'[q]]
        BY <1>5 DEF CognitionInv, AskShape
    <2>2. \A q \in Requests : AskRow(asks'[q])
        BY <1>6, <1>7 DEF CognitionInv, AskShape
    <2> QED BY <2>1, <2>2 DEF AskShape, AskRow
  <1>9. PaneShape' /\ PromptsWereAsked' /\ AnswersWereAsked'
      BY <1>5 DEF CognitionInv, PaneShape, PromptsWereAsked, AnswersWereAsked, PutTo
  <1>10. PaneIsChosen'
      BY <1>6, <1>7 DEF CognitionInv, PaneIsChosen
  <1>11. AnswersTheRequest'
    <2> SUFFICES ASSUME NEW q \in Requests, asks'[q].at = "answered"
                 PROVE  /\ q \in asks'[q].answer
                        /\ \A other \in asks'[q].answer : \E o \in asks'[q].pane : PutTo(other, o)
        BY <1>5 DEF AnswersTheRequest, PutTo
    <2>1. CASE q = r
        BY <1>3, <1>4, <1>6, <1>7, <2>1
    <2>2. CASE q # r
        BY <1>7, <2>2 DEF CognitionInv, AnswersTheRequest, PutTo
    <2> QED BY <2>1, <2>2
  <1> QED BY <1>8, <1>9, <1>10, <1>11 DEF CognitionInv

LEMMA GiveUpKeepsInv ==
    ASSUME CognitionInv, NEW r \in Requests, NEW p \in Panes, GiveUp(r, p)
    PROVE  CognitionInv'
  <1>1. UNCHANGED <<history, inbox, seenIdle, asked>>
      BY DEF GiveUp
  <1>2. CASE NextCandidate(r)
      BY <1>1, <1>2, NextCandidateKeepsInv
  <1>3. CASE asks' = [asks EXCEPT ![r].at = "prompt", ![r].repaired = TRUE]
    <2> DEFINE x == [asks[r] EXCEPT !.at = "prompt", !.repaired = TRUE]
    <2>1. asks' = [asks EXCEPT ![r] = x]
        BY <1>3
    <2>2. AskRow(asks[r]) /\ asks[r].pane = {p} /\ seenIdle \subseteq Panes
        BY DEF CognitionInv, AskShape, PaneShape, GiveUp
    <2>3. AskRow(x) /\ x.at = "prompt" /\ x.pane = {p}
      <3>1. x.candidates = asks[r].candidates /\ x.at = "prompt"
          BY <2>2 DEF AskRow
      <3> QED BY <2>2, <3>1 DEF AskRow, AskPoints
    <2> HIDE DEF x
    <2> QED BY <1>1, <2>1, <2>2, <2>3, AskMoves
  <1> QED BY <1>2, <1>3 DEF GiveUp

LEMMA AttemptFailsKeepsInv ==
    ASSUME CognitionInv, NEW r \in Requests, AttemptFails(r)
    PROVE  CognitionInv'
  <1>1. UNCHANGED <<history, inbox, seenIdle, asked>>
      BY DEF AttemptFails
  <1>2. CASE NextCandidate(r)
      BY <1>1, <1>2, NextCandidateKeepsInv
  <1>3. CASE asks' = [asks EXCEPT ![r].at = "failed"]
    <2> DEFINE x == [asks[r] EXCEPT !.at = "failed"]
    <2>1. asks' = [asks EXCEPT ![r] = x]
        BY <1>3
    <2>2. AskRow(asks[r]) /\ seenIdle \subseteq Panes
        BY DEF CognitionInv, AskShape, PaneShape
    <2>3. AskRow(x) /\ x.at = "failed"
      <3>1. x.candidates = asks[r].candidates /\ x.at = "failed"
          BY <2>2 DEF AskRow
      <3> QED BY <2>2, <3>1 DEF AskRow, AskPoints
    <2> HIDE DEF x
    <2> QED BY <1>1, <2>1, <2>2, <2>3, AskMoves
  <1> QED BY <1>2, <1>3 DEF AttemptFails

LEMMA AgentAnswersKeepsInv ==
    ASSUME CognitionInv, NEW p \in Panes, AgentAnswers(p)
    PROVE  CognitionInv'
  <1> DEFINE r == Head(inbox[p])
  <1>1. /\ inbox[p] \in Seq(Requests) /\ inbox[p] # <<>>
        /\ history[p] \in Seq(Markers)
        /\ UNCHANGED <<seenIdle, asks, asked>>
      BY DEF CognitionInv, PaneShape, AgentAnswers
  <1>2. r \in Requests /\ PutTo(r, p)
    <2>1. r = inbox[p][1] /\ 1 \in 1..Len(inbox[p])
        BY <1>1, HeadTailProperties, EmptySeq, LenProperties
    <2> QED BY <1>1, <2>1, ElementOfSeq DEF CognitionInv, PromptsWereAsked
  <1>3. PICK text \in {Complete(r), Unfinished(r), Unmarked} :
            history' = [history EXCEPT ![p] = history[p] \o text]
      BY DEF AgentAnswers
  <1>4. StartOf(r) \in Markers /\ StartOf(r).request = {r} /\ End \in Markers /\ End.request = {}
      BY <1>2 DEF StartOf, End, Markers
  <1>5. text \in Seq(Markers) /\ \A k \in 1..Len(text) : text[k].request \subseteq {r}
    <2>1. CASE text = Complete(r)
        BY <1>4, <2>1 DEF Complete
    <2>2. CASE text = Unfinished(r)
        BY <1>4, <2>2 DEF Unfinished
    <2>3. CASE text = Unmarked
        BY <2>3, EmptySeq DEF Unmarked
    <2> QED BY <1>3, <2>1, <2>2, <2>3
  <1>6. inbox' = [inbox EXCEPT ![p] = Tail(inbox[p])]
      BY DEF AgentAnswers
  <1> HIDE DEF r
  <1>7. PaneShape'
    <2>1. history[p] \o text \in Seq(Markers)
        BY <1>1, <1>5, ConcatProperties
    <2>2. Tail(inbox[p]) \in Seq(Requests)
        BY <1>1, HeadTailProperties
    <2>3. history' \in [Panes -> Seq(Markers)]
        BY <1>3, <2>1 DEF CognitionInv, PaneShape
    <2>4. inbox' \in [Panes -> Seq(Requests)]
        BY <1>6, <2>2 DEF CognitionInv, PaneShape
    <2> QED BY <1>1, <2>3, <2>4 DEF CognitionInv, PaneShape
  <1>8. PromptsWereAsked'
    <2> SUFFICES ASSUME NEW o \in Panes, NEW i \in 1..Len(inbox'[o])
                 PROVE  asked[inbox'[o][i]][o] > 0
        BY <1>1 DEF PromptsWereAsked, PutTo
    <2>1. CASE o = p
      <3>1. inbox'[o] = Tail(inbox[p])
          BY <1>6, <2>1 DEF CognitionInv, PaneShape
      <3>2. i + 1 \in 1..Len(inbox[p]) /\ inbox'[o][i] = inbox[p][i + 1]
          BY <1>1, <3>1, HeadTailProperties, LenProperties
      <3> QED BY <2>1, <3>2 DEF CognitionInv, PromptsWereAsked, PutTo
    <2>2. CASE o # p
        BY <1>6, <2>2 DEF CognitionInv, PaneShape, PromptsWereAsked, PutTo
    <2> QED BY <2>1, <2>2
  <1>9. AnswersWereAsked'
    <2> SUFFICES ASSUME NEW o \in Panes, NEW i \in 1..Len(history'[o]), NEW q \in history'[o][i].request
                 PROVE  PutTo(q, o)
        BY <1>1 DEF AnswersWereAsked, PutTo
    <2>1. CASE o = p
      <3>1. history'[o] = history[p] \o text
          BY <1>3, <2>1 DEF CognitionInv, PaneShape
      <3>2. \/ i \in 1..Len(history[p]) /\ history'[o][i] = history[p][i]
            \/ i - Len(history[p]) \in 1..Len(text) /\ history'[o][i] = text[i - Len(history[p])]
          BY <1>1, <1>5, <3>1, ConcatProperties, LenProperties
      <3>3. CASE i \in 1..Len(history[p]) /\ history'[o][i] = history[p][i]
          BY <2>1, <3>3 DEF CognitionInv, AnswersWereAsked
      <3>4. CASE i - Len(history[p]) \in 1..Len(text) /\ history'[o][i] = text[i - Len(history[p])]
          BY <1>2, <1>5, <2>1, <3>4
      <3> QED BY <3>2, <3>3, <3>4
    <2>2. CASE o # p
        BY <1>3, <2>2 DEF CognitionInv, PaneShape, AnswersWereAsked
    <2> QED BY <2>1, <2>2
  <1>10. AskShape' /\ PaneIsChosen' /\ AnswersTheRequest'
      BY <1>1 DEF CognitionInv, AskShape, AskRow, PaneIsChosen, AnswersTheRequest
  <1> QED BY <1>7, <1>8, <1>9, <1>10 DEF CognitionInv

LEMMA CognitionStepKeepsInv == CognitionInv /\ [CognitionNext]_cognitionVars => CognitionInv'
  <1> SUFFICES ASSUME CognitionInv, [CognitionNext]_cognitionVars PROVE CognitionInv'
      OBVIOUS
  <1>1. CASE \E r \in Requests : Plan(r) \/ ChoosePane(r) \/ AttemptFails(r)
      BY <1>1, PlanKeepsInv, ChoosePaneKeepsInv, AttemptFailsKeepsInv
  <1>2. CASE \E r \in Requests, p \in Panes : PromptPane(r, p) \/ ReadAnswer(r, p) \/ GiveUp(r, p)
      BY <1>2, PromptPaneKeepsInv, ReadAnswerKeepsInv, GiveUpKeepsInv
  <1>3. CASE RefreshPanes \/ UNCHANGED cognitionVars
    <2>1. UNCHANGED <<history, inbox, asks, asked>> /\ seenIdle' \subseteq Panes
        BY <1>3 DEF RefreshPanes, Idle, cognitionVars, CognitionInv, PaneShape
    <2>2. PaneShape' /\ AskShape'
        BY <2>1 DEF CognitionInv, PaneShape, AskShape, AskRow
    <2>3. PromptsWereAsked' /\ AnswersWereAsked' /\ PaneIsChosen' /\ AnswersTheRequest'
        BY <2>1 DEF CognitionInv, PromptsWereAsked, AnswersWereAsked, PutTo, PaneIsChosen, AnswersTheRequest
    <2> QED BY <2>2, <2>3 DEF CognitionInv
  <1>4. CASE \E p \in Panes : AgentAnswers(p)
      BY <1>4, AgentAnswersKeepsInv
  <1> QED BY <1>1, <1>2, <1>3, <1>4 DEF CognitionNext

\* The inductive invariant of the cognitive router: an agent writes only about requests
\* that were put to its pane, and a request keeps to one pane while it waits.
THEOREM CognitionIsInvariant == CognitionSpec => []CognitionInv
  <1> QED BY CognitionInitInv, CognitionStepKeepsInv, PTL DEF CognitionSpec

\* Every variable of the cognitive router keeps its shape.
THEOREM CognitionTypesAreInvariant == CognitionSpec => []CognitionTypeOK
  <1>1. CognitionInv => CognitionTypeOK
      BY DEF CognitionInv, CognitionTypeOK, PaneShape, AskShape, AskRow, AskPoints
  <1> QED BY <1>1, CognitionIsInvariant, PTL

\* However many requests share a pane, come late or leave old answers in view, what is
\* returned answers the request, mixed with others of its pane at most
\* (CognitiveRouter._extract_marked_result).
THEOREM AnswersAreTheRequests == CognitionSpec => []AnswersTheRequest
  <1>1. CognitionInv => AnswersTheRequest
      BY DEF CognitionInv
  <1> QED BY <1>1, CognitionIsInvariant, PTL

-----------------------------------------------------------------------------
(* The tunnels *)

TunnelPidOrNone == TunnelPids \cup {NoPid}

TunnelRows == [here : BOOLEAN, enabled : BOOLEAN, desired : {"running", "stopped"},
               pid : TunnelPidOrNone, recent : BOOLEAN]

TunnelOrNone == {{}} \cup {{u} : u \in TunnelIds}

CloudflaredRows == [tunnel : TunnelOrNone, runs : BOOLEAN]

PollRows ==
    [at : {"none", "probe", "start", "preflight", "started", "stop", "stopped"},
     tunnel : TunnelOrNone, wanted : BOOLEAN, pid : TunnelPidOrNone, recent : BOOLEAN,
     then : {"return", "restart"}]

TunnelShape ==
    /\ tunnels \in [TunnelIds -> TunnelRows]
    /\ cloudflared \in [TunnelPids -> CloudflaredRows]
    /\ polls \in [TunnelCallers -> PollRows]

\* A deleted tunnel leaves nothing in the table.
DeletedIsGone == \A u \in TunnelIds : tunnels[u].here \/ tunnels[u] = NoTunnel

\* No pid of a row, or of what a call has read, is that of another tunnel's process.
PidsNameTheirTunnel ==
    /\ \A u \in TunnelIds : tunnels[u].pid # NoPid => cloudflared[tunnels[u].pid].tunnel = {u}
    /\ \A c \in TunnelCallers :
         polls[c].pid # NoPid => polls[c].tunnel # {} /\ cloudflared[polls[c].pid].tunnel = polls[c].tunnel

TunnelInv == TunnelShape /\ DeletedIsGone /\ PidsNameTheirTunnel

\* A process keeps its tunnel, once it has one.
ProcessesKeepTunnel ==
    \A p \in TunnelPids :
        cloudflared[p].tunnel # {} => cloudflared'[p].tunnel = cloudflared[p].tunnel

LEMMA TunnelRowFacts ==
    /\ NoTunnel \in TunnelRows /\ NoTunnel.pid = NoPid
    /\ NoPoll \in PollRows /\ NoPoll.pid = NoPid /\ NoPoll.tunnel = {}
    /\ NotStarted \in CloudflaredRows /\ NotStarted.tunnel = {}
    /\ NoPid \notin TunnelPids
  <1>1. NoPid \notin TunnelPids
      BY TunnelAssumption DEF TunnelPids
  <1> QED BY <1>1 DEF NoTunnel, TunnelRows, TunnelPidOrNone, NoPoll, PollRows, TunnelOrNone,
                  NotStarted, CloudflaredRows

LEMMA TunnelInitInv == TunnelInit => TunnelInv
  <1> SUFFICES ASSUME TunnelInit PROVE TunnelInv
      OBVIOUS
  <1>1. TunnelShape
      BY TunnelRowFacts DEF TunnelInit, TunnelShape
  <1>2. DeletedIsGone /\ PidsNameTheirTunnel
      BY TunnelRowFacts DEF TunnelInit, DeletedIsGone, PidsNameTheirTunnel
  <1> QED BY <1>1, <1>2 DEF TunnelInv

\* A step that rewrites the row of one tunnel, with its own process or none.
LEMMA RowOfTunnelMoves ==
    ASSUME TunnelInv, NEW u \in TunnelIds, NEW row \in TunnelRows,
           tunnels' = [tunnels EXCEPT ![u] = row],
           row.here \/ row = NoTunnel,
           row.pid # NoPid => cloudflared[row.pid].tunnel = {u},
           UNCHANGED cloudflared
    PROVE  /\ tunnels' \in [TunnelIds -> TunnelRows]
           /\ DeletedIsGone'
           /\ \A v \in TunnelIds : tunnels'[v].pid # NoPid => cloudflared'[tunnels'[v].pid].tunnel = {v}
  <1>1. \A v \in TunnelIds : tunnels'[v] = IF v = u THEN row ELSE tunnels[v]
      BY DEF TunnelInv, TunnelShape
  <1>2. tunnels' \in [TunnelIds -> TunnelRows]
      BY DEF TunnelInv, TunnelShape
  <1>3. DeletedIsGone'
      BY <1>1 DEF TunnelInv, DeletedIsGone
  <1>4. ASSUME NEW v \in TunnelIds, tunnels'[v].pid # NoPid
        PROVE  cloudflared'[tunnels'[v].pid].tunnel = {v}
      BY <1>1, <1>4 DEF TunnelInv, PidsNameTheirTunnel
  <1> QED BY <1>2, <1>3, <1>4

\* A step of one call, which keeps a pid of its tunnel or none.
LEMMA PollMoves ==
    ASSUME TunnelInv, NEW c \in TunnelCallers, NEW x \in PollRows,
           polls' = [polls EXCEPT ![c] = x],
           x.pid # NoPid => x.tunnel # {} /\ cloudflared[x.pid].tunnel = x.tunnel,
           UNCHANGED cloudflared
    PROVE  /\ polls' \in [TunnelCallers -> PollRows]
           /\ \A d \in TunnelCallers : polls'[d].pid # NoPid =>
                polls'[d].tunnel # {} /\ cloudflared'[polls'[d].pid].tunnel = polls'[d].tunnel
  <1>1. \A d \in TunnelCallers : polls'[d] = IF d = c THEN x ELSE polls[d]
      BY DEF TunnelInv, TunnelShape
  <1>2. polls' \in [TunnelCallers -> PollRows]
      BY DEF TunnelInv, TunnelShape
  <1>3. ASSUME NEW d \in TunnelCallers, polls'[d].pid # NoPid
        PROVE  polls'[d].tunnel # {} /\ cloudflared'[polls'[d].pid].tunnel = polls'[d].tunnel
      BY <1>1, <1>3 DEF TunnelInv, PidsNameTheirTunnel
  <1> QED BY <1>2, <1>3

LEMMA OnlyRowMoves ==
    ASSUME TunnelInv, NEW u \in TunnelIds, NEW row \in TunnelRows,
           tunnels' = [tunnels EXCEPT ![u] = row],
           row.here \/ row = NoTunnel,
           row.pid # NoPid => cloudflared[row.pid].tunnel = {u},
           UNCHANGED <<cloudflared, polls>>
    PROVE  TunnelInv'
  <1>1. /\ tunnels' \in [TunnelIds -> TunnelRows]
        /\ DeletedIsGone'
        /\ \A v \in TunnelIds : tunnels'[v].pid # NoPid => cloudflared'[tunnels'[v].pid].tunnel = {v}
      BY RowOfTunnelMoves
  <1>2. TunnelShape'
      BY <1>1 DEF TunnelInv, TunnelShape
  <1>3. PidsNameTheirTunnel'
      BY <1>1 DEF TunnelInv, PidsNameTheirTunnel
  <1> QED BY <1>1, <1>2, <1>3 DEF TunnelInv

LEMMA OnlyPollMoves ==
    ASSUME TunnelInv, NEW c \in TunnelCallers, NEW x \in PollRows,
           polls' = [polls EXCEPT ![c] = x],
           x.pid # NoPid => x.tunnel # {} /\ cloudflared[x.pid].tunnel = x.tunnel,
           UNCHANGED <<tunnels, cloudflared>>
    PROVE  TunnelInv'
  <1>1. /\ polls' \in [TunnelCallers -> PollRows]
        /\ \A d \in TunnelCallers : polls'[d].pid # NoPid =>
                polls'[d].tunnel # {} /\ cloudflared'[polls'[d].pid].tunnel = polls'[d].tunnel
      BY PollMoves
  <1>2. TunnelShape'
      BY <1>1 DEF TunnelInv, TunnelShape
  <1>3. PidsNameTheirTunnel' /\ DeletedIsGone'
      BY <1>1 DEF TunnelInv, PidsNameTheirTunnel, DeletedIsGone
  <1> QED BY <1>2, <1>3 DEF TunnelInv

LEMMA RegisterTunnelKeepsInv ==
    ASSUME TunnelInv, NEW u \in TunnelIds, NEW enabled \in BOOLEAN,
           NEW desired \in {"running", "stopped"}, RegisterTunnel(u, enabled, desired)
    PROVE  TunnelInv'
  <1> DEFINE row == [tunnels[u] EXCEPT !.here = TRUE, !.enabled = enabled, !.desired = desired]
  <1>1. tunnels' = [tunnels EXCEPT ![u] = row] /\ UNCHANGED <<cloudflared, polls>>
      BY DEF RegisterTunnel
  <1>2. tunnels[u] \in TunnelRows
      BY DEF TunnelInv, TunnelShape
  <1>3. row \in TunnelRows /\ row.here /\ row.pid = tunnels[u].pid
      BY <1>2 DEF TunnelRows
  <1> HIDE DEF row
  <1> QED BY <1>1, <1>3, OnlyRowMoves DEF TunnelInv, PidsNameTheirTunnel

LEMMA DeleteTunnelKeepsInv ==
    ASSUME TunnelInv, NEW u \in TunnelIds, DeleteTunnel(u)
    PROVE  TunnelInv'
  BY TunnelRowFacts, OnlyRowMoves DEF DeleteTunnel

LEMMA BackoffKeepsInv ==
    ASSUME TunnelInv, NEW u \in TunnelIds, BackoffElapses(u)
    PROVE  TunnelInv'
  <1> DEFINE row == [tunnels[u] EXCEPT !.recent = FALSE]
  <1>1. tunnels' = [tunnels EXCEPT ![u] = row] /\ tunnels[u].recent /\ UNCHANGED <<cloudflared, polls>>
      BY DEF BackoffElapses
  <1>2. tunnels[u] \in TunnelRows /\ tunnels[u].here
      BY <1>1 DEF TunnelInv, TunnelShape, DeletedIsGone, NoTunnel
  <1>3. row \in TunnelRows /\ row.here /\ row.pid = tunnels[u].pid
      BY <1>2 DEF TunnelRows
  <1> HIDE DEF row
  <1> QED BY <1>1, <1>3, OnlyRowMoves DEF TunnelInv, PidsNameTheirTunnel

LEMMA FinishKeepsInv ==
    ASSUME TunnelInv, NEW c \in TunnelCallers, Finished(c), UNCHANGED <<tunnels, cloudflared>>
    PROVE  TunnelInv'
  BY TunnelRowFacts, OnlyPollMoves DEF Finished

LEMMA PollTunnelKeepsInv ==
    ASSUME TunnelInv, NEW c \in TunnelCallers, NEW u \in TunnelIds, PollTunnel(c, u)
    PROVE  TunnelInv'
  <1> DEFINE x == [NoPoll EXCEPT !.at = "probe", !.tunnel = {u}, !.wanted = Supervised(tunnels[u]),
                        !.pid = tunnels[u].pid, !.recent = tunnels[u].recent]
  <1>1. polls' = [polls EXCEPT ![c] = x] /\ UNCHANGED <<tunnels, cloudflared>>
      BY DEF PollTunnel
  <1>2. tunnels[u] \in TunnelRows /\ Supervised(tunnels[u]) \in BOOLEAN
      BY DEF TunnelInv, TunnelShape, Supervised, TunnelRows
  <1>3. x \in PollRows /\ x.pid = tunnels[u].pid /\ x.tunnel = {u}
    <2> HIDE DEF Supervised
    <2> QED BY <1>2, TunnelRowFacts DEF PollRows, TunnelOrNone, TunnelRows
  <1> HIDE DEF x
  <1> QED BY <1>1, <1>3, OnlyPollMoves DEF TunnelInv, PidsNameTheirTunnel

\* A call goes on to its next point with what it has read.
LEMMA ContinueKeepsInv ==
    ASSUME TunnelInv, NEW c \in TunnelCallers,
           NEW point \in {"start", "stopped"}, Continue(c, point), UNCHANGED <<tunnels, cloudflared>>
    PROVE  TunnelInv'
  <1> DEFINE x == [polls[c] EXCEPT !.at = point]
  <1>1. polls' = [polls EXCEPT ![c] = x]
      BY DEF Continue
  <1>2. polls[c] \in PollRows
      BY DEF TunnelInv, TunnelShape
  <1>3. x \in PollRows /\ x.pid = polls[c].pid /\ x.tunnel = polls[c].tunnel
      BY <1>2 DEF PollRows
  <1> HIDE DEF x
  <1> QED BY <1>1, <1>3, OnlyPollMoves DEF TunnelInv, PidsNameTheirTunnel

\* A call that is about to start a tunnel, or to end its process, begins.
LEMMA OperatorKeepsInv ==
    ASSUME TunnelInv, NEW c \in TunnelCallers, NEW u \in TunnelIds, NEW x,
           \/ x = [NoPoll EXCEPT !.at = "start", !.tunnel = {u}]
           \/ \E then \in {"return", "restart"} :
                x = [NoPoll EXCEPT !.at = "stop", !.tunnel = {u}, !.pid = tunnels[u].pid, !.then = then],
           polls' = [polls EXCEPT ![c] = x], UNCHANGED <<tunnels, cloudflared>>
    PROVE  TunnelInv'
  <1>1. tunnels[u] \in TunnelRows
      BY DEF TunnelInv, TunnelShape
  <1>2. x \in PollRows /\ x.pid \in {NoPid, tunnels[u].pid} /\ x.tunnel = {u}
    <2>1. CASE x = [NoPoll EXCEPT !.at = "start", !.tunnel = {u}]
        BY <2>1, TunnelRowFacts DEF PollRows, TunnelOrNone
    <2>2. ASSUME NEW then \in {"return", "restart"},
                 x = [NoPoll EXCEPT !.at = "stop", !.tunnel = {u}, !.pid = tunnels[u].pid, !.then = then]
          PROVE  x \in PollRows /\ x.pid = tunnels[u].pid /\ x.tunnel = {u}
        BY <1>1, <2>2, TunnelRowFacts DEF PollRows, TunnelOrNone, TunnelRows
    <2> QED BY <2>1, <2>2
  <1> QED BY <1>2, OnlyPollMoves DEF TunnelInv, PidsNameTheirTunnel

LEMMA ReadForStartKeepsInv ==
    ASSUME TunnelInv, NEW c \in TunnelCallers, NEW u \in TunnelIds, ReadForStart(c, u)
    PROVE  TunnelInv'
  <1>1. UNCHANGED <<tunnels, cloudflared>>
      BY DEF ReadForStart
  <1>2. CASE Finished(c)
      BY <1>1, <1>2, FinishKeepsInv
  <1>3. CASE polls' = [polls EXCEPT ![c].at = "preflight", ![c].pid = tunnels[u].pid]
    <2> DEFINE x == [polls[c] EXCEPT !.at = "preflight", !.pid = tunnels[u].pid]
    <2>1. polls' = [polls EXCEPT ![c] = x]
        BY <1>3
    <2>2. polls[c] \in PollRows /\ tunnels[u] \in TunnelRows /\ polls[c].tunnel = {u}
        BY DEF TunnelInv, TunnelShape, ReadForStart, Calling
    <2>3. x \in PollRows /\ x.pid = tunnels[u].pid /\ x.tunnel = {u}
        BY <2>2 DEF PollRows, TunnelRows
    <2> HIDE DEF x
    <2> QED BY <1>1, <2>1, <2>3, OnlyPollMoves DEF TunnelInv, PidsNameTheirTunnel
  <1> QED BY <1>2, <1>3 DEF ReadForStart

\* A call that ends after it wrote the row, or left it alone.
LEMMA RecordKeepsInv ==
    ASSUME TunnelInv, NEW c \in TunnelCallers, NEW u \in TunnelIds,
           \/ tunnels' = tunnels
           \/ \E row \in TunnelRows :
                /\ tunnels' = [tunnels EXCEPT ![u] = row]
                /\ row.here
                /\ row.pid # NoPid => cloudflared[row.pid].tunnel = {u},
           \/ Finished(c)
           \/ polls' = [polls EXCEPT ![c] = [NoPoll EXCEPT !.at = "start", !.tunnel = {u}]],
           UNCHANGED cloudflared
    PROVE  TunnelInv'
  <1>1. /\ polls' \in [TunnelCallers -> PollRows]
        /\ \A d \in TunnelCallers : polls'[d].pid # NoPid =>
                polls'[d].tunnel # {} /\ cloudflared'[polls'[d].pid].tunnel = polls'[d].tunnel
    <2>1. CASE Finished(c)
        BY <2>1, TunnelRowFacts, PollMoves DEF Finished
    <2>2. CASE polls' = [polls EXCEPT ![c] = [NoPoll EXCEPT !.at = "start", !.tunnel = {u}]]
      <3> DEFINE x == [NoPoll EXCEPT !.at = "start", !.tunnel = {u}]
      <3>1. x \in PollRows /\ x.pid = NoPid
          BY TunnelRowFacts DEF PollRows, TunnelOrNone
      <3> HIDE DEF x
      <3>2. polls' = [polls EXCEPT ![c] = x]
          BY <2>2 DEF x
      <3> QED BY <3>1, <3>2, PollMoves
    <2> QED BY <2>1, <2>2
  <1>2. /\ tunnels' \in [TunnelIds -> TunnelRows]
        /\ DeletedIsGone'
        /\ \A v \in TunnelIds : tunnels'[v].pid # NoPid => cloudflared'[tunnels'[v].pid].tunnel = {v}
    <2>1. CASE tunnels' = tunnels
        BY <2>1 DEF TunnelInv, TunnelShape, DeletedIsGone, PidsNameTheirTunnel
    <2>2. CASE tunnels' # tunnels
        BY <2>2, RowOfTunnelMoves
    <2> QED BY <2>1, <2>2
  <1>3. cloudflared' \in [TunnelPids -> CloudflaredRows]
      BY DEF TunnelInv, TunnelShape
  <1> QED BY <1>1, <1>2, <1>3 DEF TunnelInv, TunnelShape, PidsNameTheirTunnel

LEMMA AlreadyRunsKeepsInv ==
    ASSUME TunnelInv, NEW c \in TunnelCallers, NEW u \in TunnelIds, AlreadyRuns(c, u)
    PROVE  TunnelInv'
  <1>1. Finished(c) /\ UNCHANGED cloudflared
      BY DEF AlreadyRuns
  <1>2. CASE ~tunnels[u].here
      BY <1>1, <1>2, RecordKeepsInv DEF AlreadyRuns
  <1>3. CASE tunnels[u].here
    <2> DEFINE row == [tunnels[u] EXCEPT !.desired = "running"]
    <2>1. tunnels' = [tunnels EXCEPT ![u] = row]
        BY <1>3 DEF AlreadyRuns
    <2>2. tunnels[u] \in TunnelRows
        BY DEF TunnelInv, TunnelShape
    <2>3. row \in TunnelRows /\ row.here /\ row.pid = tunnels[u].pid
        BY <1>3, <2>2 DEF TunnelRows
    <2> HIDE DEF row
    <2>4. row.pid # NoPid => cloudflared[row.pid].tunnel = {u}
        BY <2>3 DEF TunnelInv, PidsNameTheirTunnel
    <2> QED BY <1>1, <2>1, <2>3, <2>4, RecordKeepsInv
  <1> QED BY <1>2, <1>3

LEMMA RecordStartKeepsInv ==
    ASSUME TunnelInv, NEW c \in TunnelCallers, NEW u \in TunnelIds, RecordStart(c, u)
    PROVE  TunnelInv'
  <1>1. Finished(c) /\ UNCHANGED cloudflared /\ polls[c].tunnel = {u}
      BY DEF RecordStart, Calling
  <1>2. CASE ~tunnels[u].here
      BY <1>1, <1>2, RecordKeepsInv DEF RecordStart
  <1>3. CASE tunnels[u].here
    <2> DEFINE row == [tunnels[u] EXCEPT !.desired = "running", !.pid = polls[c].pid, !.recent = TRUE]
    <2>1. tunnels' = [tunnels EXCEPT ![u] = row]
        BY <1>3 DEF RecordStart
    <2>2. tunnels[u] \in TunnelRows /\ polls[c] \in PollRows
        BY DEF TunnelInv, TunnelShape
    <2>3. row \in TunnelRows /\ row.here /\ row.pid = polls[c].pid
        BY <1>3, <2>2 DEF TunnelRows, PollRows
    <2> HIDE DEF row
    <2>4. row.pid # NoPid => cloudflared[row.pid].tunnel = {u}
        BY <1>1, <2>3 DEF TunnelInv, PidsNameTheirTunnel
    <2> QED BY <1>1, <2>1, <2>3, <2>4, RecordKeepsInv
  <1> QED BY <1>2, <1>3

LEMMA RecordTunnelStopKeepsInv ==
    ASSUME TunnelInv, NEW c \in TunnelCalls, NEW u \in TunnelIds, RecordTunnelStop(c, u)
    PROVE  TunnelInv'
  <1>1. c \in TunnelCallers /\ UNCHANGED cloudflared
      BY DEF TunnelCallers, RecordTunnelStop
  <1>2. \/ Finished(c)
        \/ polls' = [polls EXCEPT ![c] = [NoPoll EXCEPT !.at = "start", !.tunnel = {u}]]
      BY DEF RecordTunnelStop
  <1>3. CASE ~tunnels[u].here
    <2>1. tunnels' = tunnels
        BY <1>3 DEF RecordTunnelStop
    <2> QED BY <1>1, <1>2, <2>1, RecordKeepsInv
  <1>4. CASE tunnels[u].here
    <2> DEFINE row == [tunnels[u] EXCEPT !.desired = "stopped", !.pid = NoPid]
    <2>1. tunnels' = [tunnels EXCEPT ![u] = row]
        BY <1>4 DEF RecordTunnelStop
    <2>2. tunnels[u] \in TunnelRows
        BY DEF TunnelInv, TunnelShape
    <2>3. row \in TunnelRows /\ row.here /\ row.pid = NoPid
        BY <1>4, <2>2 DEF TunnelRows, TunnelPidOrNone
    <2> HIDE DEF row
    <2> QED BY <1>1, <1>2, <2>1, <2>3, RecordKeepsInv
  <1> QED BY <1>3, <1>4

\* Processes may start and die, as long as those that have a tunnel keep it.
LEMMA ProcessesMove ==
    ASSUME TunnelInv, cloudflared' \in [TunnelPids -> CloudflaredRows], ProcessesKeepTunnel,
           NEW c \in TunnelCallers, NEW x \in PollRows, polls' = [polls EXCEPT ![c] = x],
           x.pid # NoPid => x.tunnel # {} /\ cloudflared'[x.pid].tunnel = x.tunnel,
           UNCHANGED tunnels
    PROVE  TunnelInv'
  <1>1. \A d \in TunnelCallers : polls'[d] = IF d = c THEN x ELSE polls[d]
      BY DEF TunnelInv, TunnelShape
  <1>2. TunnelShape' /\ DeletedIsGone'
      BY DEF TunnelInv, TunnelShape, DeletedIsGone
  <1>3. ASSUME NEW u \in TunnelIds, tunnels[u].pid # NoPid PROVE cloudflared'[tunnels[u].pid].tunnel = {u}
    <2>1. tunnels[u].pid \in TunnelPids
        BY <1>3 DEF TunnelInv, TunnelShape, TunnelRows, TunnelPidOrNone
    <2> QED BY <1>3, <2>1 DEF ProcessesKeepTunnel, TunnelInv, PidsNameTheirTunnel
  <1>4. ASSUME NEW d \in TunnelCallers, polls[d].pid # NoPid
        PROVE  polls[d].tunnel # {} /\ cloudflared'[polls[d].pid].tunnel = polls[d].tunnel
    <2>1. polls[d].pid \in TunnelPids
        BY <1>4 DEF TunnelInv, TunnelShape, PollRows, TunnelPidOrNone
    <2> QED BY <1>4, <2>1 DEF ProcessesKeepTunnel, TunnelInv, PidsNameTheirTunnel
  <1>5. PidsNameTheirTunnel'
      BY <1>1, <1>3, <1>4 DEF PidsNameTheirTunnel
  <1> QED BY <1>2, <1>5 DEF TunnelInv

LEMMA StartCloudflaredKeepsInv ==
    ASSUME TunnelInv, NEW c \in TunnelCallers, NEW u \in TunnelIds, StartCloudflared(c, u)
    PROVE  TunnelInv' /\ ProcessesKeepTunnel
  <1>1. PICK p \in TunnelPids :
            /\ cloudflared[p] = NotStarted
            /\ cloudflared' = [cloudflared EXCEPT ![p] = [tunnel |-> {u}, runs |-> TRUE]]
            /\ polls' = [polls EXCEPT ![c].at = "started", ![c].pid = p]
      BY DEF StartCloudflared
  <1>2. \A q \in TunnelPids :
            cloudflared'[q] = IF q = p THEN [tunnel |-> {u}, runs |-> TRUE] ELSE cloudflared[q]
      BY <1>1 DEF TunnelInv, TunnelShape
  <1>3. cloudflared' \in [TunnelPids -> CloudflaredRows]
    <2>1. [tunnel |-> {u}, runs |-> TRUE] \in CloudflaredRows
        BY DEF CloudflaredRows, TunnelOrNone
    <2> QED BY <1>1, <2>1 DEF TunnelInv, TunnelShape
  <1>4. ProcessesKeepTunnel
      BY <1>1, <1>2, TunnelRowFacts DEF ProcessesKeepTunnel
  <1> DEFINE x == [polls[c] EXCEPT !.at = "started", !.pid = p]
  <1>5. polls' = [polls EXCEPT ![c] = x] /\ UNCHANGED tunnels
      BY <1>1 DEF StartCloudflared
  <1>6. polls[c] \in PollRows /\ polls[c].tunnel = {u}
      BY DEF TunnelInv, TunnelShape, StartCloudflared, Calling
  <1>7. x \in PollRows /\ x.pid = p /\ x.tunnel = {u}
      BY <1>6 DEF PollRows, TunnelPidOrNone
  <1>8. cloudflared'[p].tunnel = {u}
      BY <1>2
  <1> HIDE DEF x
  <1> QED BY <1>3, <1>4, <1>5, <1>7, <1>8, ProcessesMove

\* Processes end, and none changes its tunnel.
LEMMA ProcessesEnd ==
    ASSUME TunnelInv, NEW Ended \in SUBSET TunnelPids,
           cloudflared' = [p \in TunnelPids |->
               IF p \in Ended THEN [cloudflared[p] EXCEPT !.runs = FALSE] ELSE cloudflared[p]]
    PROVE  /\ cloudflared' \in [TunnelPids -> CloudflaredRows]
           /\ \A p \in TunnelPids : cloudflared'[p].tunnel = cloudflared[p].tunnel
  <1>1. ASSUME NEW p \in TunnelPids
        PROVE  cloudflared'[p] \in CloudflaredRows /\ cloudflared'[p].tunnel = cloudflared[p].tunnel
    <2>1. cloudflared[p] \in CloudflaredRows
        BY DEF TunnelInv, TunnelShape
    <2>2. [cloudflared[p] EXCEPT !.runs = FALSE] \in CloudflaredRows
        BY <2>1 DEF CloudflaredRows
    <2>3. [cloudflared[p] EXCEPT !.runs = FALSE].tunnel = cloudflared[p].tunnel
        BY <2>1 DEF CloudflaredRows
    <2> QED BY <2>1, <2>2, <2>3
  <1> QED BY <1>1

LEMMA TerminateKeepsInv ==
    ASSUME TunnelInv, NEW c \in TunnelCalls, NEW u \in TunnelIds, Terminate(c, u)
    PROVE  TunnelInv' /\ ProcessesKeepTunnel
  <1> DEFINE Ended == IF PidMatches(u, polls[c].pid) THEN {polls[c].pid} ELSE {}
             x == [polls[c] EXCEPT !.at = "stopped"]
  <1>1. c \in TunnelCallers /\ UNCHANGED tunnels
      BY DEF TunnelCallers, Terminate
  <1>2. Ended \in SUBSET TunnelPids
      BY DEF PidMatches
  <1>3. cloudflared' = [p \in TunnelPids |->
            IF p \in Ended THEN [cloudflared[p] EXCEPT !.runs = FALSE] ELSE cloudflared[p]]
      BY <1>2 DEF Terminate, TunnelInv, TunnelShape
  <1> HIDE DEF Ended
  <1>4. /\ cloudflared' \in [TunnelPids -> CloudflaredRows]
        /\ \A p \in TunnelPids : cloudflared'[p].tunnel = cloudflared[p].tunnel
      BY <1>2, <1>3, ProcessesEnd
  <1>5. ProcessesKeepTunnel
      BY <1>4 DEF ProcessesKeepTunnel
  <1>6. polls' = [polls EXCEPT ![c] = x]
      BY DEF Terminate, Continue
  <1>7. polls[c] \in PollRows
      BY <1>1 DEF TunnelInv, TunnelShape
  <1>8. x \in PollRows /\ x.pid = polls[c].pid /\ x.tunnel = polls[c].tunnel
      BY <1>7 DEF PollRows
  <1> HIDE DEF x
  <1>9. x.pid # NoPid => x.tunnel # {} /\ cloudflared'[x.pid].tunnel = x.tunnel
      BY <1>1, <1>4, <1>7, <1>8 DEF TunnelInv, PidsNameTheirTunnel, PollRows, TunnelPidOrNone
  <1> QED BY <1>1, <1>4, <1>5, <1>6, <1>8, <1>9, ProcessesMove

LEMMA DeathKeepsInv ==
    ASSUME TunnelInv, NEW p \in TunnelPids, CloudflaredDies(p)
    PROVE  TunnelInv' /\ ProcessesKeepTunnel
  <1>1. cloudflared' = [q \in TunnelPids |->
            IF q \in {p} THEN [cloudflared[q] EXCEPT !.runs = FALSE] ELSE cloudflared[q]]
      BY DEF CloudflaredDies, TunnelInv, TunnelShape
  <1>2. /\ cloudflared' \in [TunnelPids -> CloudflaredRows]
        /\ \A q \in TunnelPids : cloudflared'[q].tunnel = cloudflared[q].tunnel
      BY <1>1, ProcessesEnd
  <1>3. ProcessesKeepTunnel
      BY <1>2 DEF ProcessesKeepTunnel
  <1> DEFINE c == TunnelLoop
             x == polls[c]
  <1>4. c \in TunnelCallers
      BY DEF TunnelCallers
  <1>5. x \in PollRows /\ polls' = [polls EXCEPT ![c] = x] /\ UNCHANGED tunnels
      BY <1>4 DEF TunnelInv, TunnelShape, CloudflaredDies
  <1>6. x.pid # NoPid => x.tunnel # {} /\ cloudflared'[x.pid].tunnel = x.tunnel
      BY <1>2, <1>4, <1>5 DEF TunnelInv, PidsNameTheirTunnel, PollRows, TunnelPidOrNone
  <1> HIDE DEF c, x
  <1> QED BY <1>2, <1>3, <1>4, <1>5, <1>6, ProcessesMove

LEMMA TunnelRestartKeepsInv ==
    ASSUME TunnelInv, NEW survive \in BOOLEAN, TunnelRestart(survive)
    PROVE  TunnelInv' /\ ProcessesKeepTunnel
  <1> DEFINE Ended == IF survive THEN {} ELSE TunnelPids
  <1>1. cloudflared' = [p \in TunnelPids |->
            IF p \in Ended THEN [cloudflared[p] EXCEPT !.runs = FALSE] ELSE cloudflared[p]]
      BY DEF TunnelRestart, TunnelInv, TunnelShape
  <1>2. Ended \in SUBSET TunnelPids
      OBVIOUS
  <1> HIDE DEF Ended
  <1>3. /\ cloudflared' \in [TunnelPids -> CloudflaredRows]
        /\ \A p \in TunnelPids : cloudflared'[p].tunnel = cloudflared[p].tunnel
      BY <1>1, <1>2, ProcessesEnd
  <1>4. polls' = [c \in TunnelCallers |-> NoPoll] /\ UNCHANGED tunnels
      BY DEF TunnelRestart
  <1>5. TunnelShape' /\ DeletedIsGone'
      BY <1>3, <1>4, TunnelRowFacts DEF TunnelInv, TunnelShape, DeletedIsGone
  <1>6. ASSUME NEW u \in TunnelIds, tunnels[u].pid # NoPid PROVE cloudflared'[tunnels[u].pid].tunnel = {u}
    <2>1. tunnels[u].pid \in TunnelPids
        BY <1>6 DEF TunnelInv, TunnelShape, TunnelRows, TunnelPidOrNone
    <2> QED BY <1>3, <1>6, <2>1 DEF TunnelInv, PidsNameTheirTunnel
  <1>7. PidsNameTheirTunnel'
      BY <1>4, <1>6, TunnelRowFacts DEF PidsNameTheirTunnel
  <1> QED BY <1>3, <1>5, <1>7 DEF TunnelInv, ProcessesKeepTunnel

LEMMA TunnelStepKeepsInv == TunnelInv /\ [TunnelNext]_tunnelVars => TunnelInv' /\ ProcessesKeepTunnel
  <1> SUFFICES ASSUME TunnelInv, [TunnelNext]_tunnelVars PROVE TunnelInv' /\ ProcessesKeepTunnel
      OBVIOUS
  <1>1. UNCHANGED cloudflared => ProcessesKeepTunnel
      BY DEF ProcessesKeepTunnel
  <1>2. ASSUME NEW u \in TunnelIds,
               \/ \E enabled \in BOOLEAN, desired \in {"running", "stopped"} :
                    RegisterTunnel(u, enabled, desired)
               \/ DeleteTunnel(u) \/ BackoffElapses(u)
        PROVE  TunnelInv' /\ UNCHANGED cloudflared
    <2>1. UNCHANGED cloudflared
        BY <1>2 DEF RegisterTunnel, DeleteTunnel, BackoffElapses
    <2> QED BY <1>2, <2>1, RegisterTunnelKeepsInv, DeleteTunnelKeepsInv, BackoffKeepsInv
  <1>3. ASSUME NEW u \in TunnelIds, NEW c \in TunnelCallers,
               PollTunnel(c, u) \/ EndsPoll(c, u) \/ ReadForStart(c, u) \/ PreflightFails(c, u)
        PROVE  TunnelInv' /\ UNCHANGED cloudflared
    <2>1. UNCHANGED cloudflared
        BY <1>3 DEF PollTunnel, EndsPoll, ReadForStart, PreflightFails, ProbeUnmanaged, ProbeManaged,
                    AlreadyRuns, RecordStart
    <2>2. CASE ProbeUnmanaged(c, u) \/ PreflightFails(c, u)
        BY <2>2, FinishKeepsInv DEF ProbeUnmanaged, PreflightFails
    <2>3. CASE ProbeManaged(c, u)
        BY <2>3, FinishKeepsInv, ContinueKeepsInv DEF ProbeManaged
    <2> QED BY <1>3, <2>1, <2>2, <2>3, PollTunnelKeepsInv, ReadForStartKeepsInv, AlreadyRunsKeepsInv,
               RecordStartKeepsInv DEF EndsPoll
  <1>4. ASSUME NEW u \in TunnelIds, NEW c \in TunnelCalls,
               \/ OperatorStarts(c, u) \/ RecordTunnelStop(c, u)
               \/ \E thenStart \in BOOLEAN : OperatorStops(c, u, thenStart)
        PROVE  TunnelInv' /\ UNCHANGED cloudflared
    <2>1. c \in TunnelCallers
        BY DEF TunnelCallers
    <2>2. UNCHANGED cloudflared
        BY <1>4 DEF OperatorStarts, RecordTunnelStop, OperatorStops
    <2>3. CASE OperatorStarts(c, u)
        BY <2>1, <2>3, OperatorKeepsInv DEF OperatorStarts
    <2>4. ASSUME NEW thenStart \in BOOLEAN, OperatorStops(c, u, thenStart) PROVE TunnelInv'
      <3> DEFINE then == IF thenStart THEN "restart" ELSE "return"
                 x == [NoPoll EXCEPT !.at = "stop", !.tunnel = {u}, !.pid = tunnels[u].pid, !.then = then]
      <3>1. then \in {"return", "restart"}
          OBVIOUS
      <3>2. polls' = [polls EXCEPT ![c] = x] /\ UNCHANGED <<tunnels, cloudflared>>
          BY <2>4 DEF OperatorStops
      <3> HIDE DEF then
      <3> QED BY <2>1, <3>1, <3>2, OperatorKeepsInv
    <2> QED BY <1>4, <2>2, <2>3, <2>4, RecordTunnelStopKeepsInv
  <1>5. CASE UNCHANGED tunnelVars
      BY <1>1, <1>5 DEF tunnelVars, TunnelInv, TunnelShape, DeletedIsGone, PidsNameTheirTunnel
  <1> QED BY <1>1, <1>2, <1>3, <1>4, <1>5, StartCloudflaredKeepsInv, TerminateKeepsInv, DeathKeepsInv,
             TunnelRestartKeepsInv DEF TunnelNext

\* The inductive invariant of the tunnels.
THEOREM TunnelsAreInvariant == TunnelSpec => []TunnelInv
  <1> QED BY TunnelInitInv, TunnelStepKeepsInv, PTL DEF TunnelSpec

\* Every variable of the tunnels keeps its shape, and a deleted tunnel leaves no row.
THEOREM TunnelTypesAreInvariant == TunnelSpec => []TunnelTypeOK
  <1>1. TunnelInv => TunnelTypeOK
      BY DEF TunnelInv, TunnelShape, DeletedIsGone, TunnelTypeOK, TunnelRows, TunnelPidOrNone,
             CloudflaredRows, TunnelOrNone
  <1> QED BY <1>1, TunnelsAreInvariant, PTL

\* Whatever polls, starts and stops overlap, no row and no call ever holds the pid of another
\* tunnel's process, so a stop never ends one (ConnectivityManager.stop_tunnel), as long as
\* the machine does not give an old pid to a new process.
THEOREM PidsStayWithTheirTunnel == TunnelSpec => [](PidsNameTheirTunnel) /\ [][ProcessesKeepTunnel]_tunnelVars
  <1>1. TunnelInv => PidsNameTheirTunnel
      BY DEF TunnelInv
  <1> QED BY <1>1, TunnelsAreInvariant, TunnelStepKeepsInv, PTL DEF TunnelSpec
=============================================================================
