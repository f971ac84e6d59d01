----------------------------- MODULE ServicesProofs -----------------------------
(***************************************************************************)
(* TLAPS proofs about Services, for any constants: every behaviour of the  *)
(* services side by side is a behaviour of each, so what is proved of one  *)
(* service (AccessProofs, BackendProofs, CapsuleProofs) holds beside the   *)
(* others.                                                                 *)
(***************************************************************************)
EXTENDS Services, AccessProofs, BackendProofs, CapsuleProofs

-----------------------------------------------------------------------------
\* A step of the services is, to each of them, a step of its own or none.
LEMMA StepOfEach ==
    ASSUME [ServicesNext]_servicesVars
    PROVE  /\ [PoolNext]_poolVars /\ [OAuthNext]_oauthVars /\ [CognitionNext]_cognitionVars
           /\ [DesktopNext]_desktopVars /\ [MachineNext]_machineVars
           /\ [CommanderNext]_commanderVars /\ [CapsuleNext]_capsuleVars
           /\ UNCHANGED focus
  <1>1. CASE ServicesNext
      BY <1>1 DEF ServicesNext
  <1>2. CASE UNCHANGED servicesVars
      BY <1>2 DEF servicesVars
  <1> QED BY <1>1, <1>2

\* The services share nothing: each behaves, beside the others, as it does alone.
THEOREM ServicesStandAlone ==
    ServicesSpec => /\ PoolSpec /\ OAuthSpec /\ CognitionSpec /\ DesktopSpec /\ MachineSpec
                    /\ CommanderSpec /\ CapsuleSpec
  <1>1. ServicesInit => /\ PoolInit /\ OAuthInit /\ CognitionInit /\ DesktopInit /\ MachineInit
                        /\ CommanderInit /\ CapsuleInit
      BY DEF ServicesInit
  <1>2. [ServicesNext]_servicesVars =>
            /\ [PoolNext]_poolVars /\ [OAuthNext]_oauthVars /\ [CognitionNext]_cognitionVars
            /\ [DesktopNext]_desktopVars /\ [MachineNext]_machineVars
            /\ [CommanderNext]_commanderVars /\ [CapsuleNext]_capsuleVars
      BY StepOfEach
  <1> QED BY <1>1, <1>2, PTL
          DEF ServicesSpec, PoolSpec, OAuthSpec, CognitionSpec, DesktopSpec, MachineSpec, CommanderSpec,
              CapsuleSpec

-----------------------------------------------------------------------------
(* Shapes *)

LEMMA RequestIdsBounded == CommanderSpec => [](nextId \in 1..(MaxRequest + 1))
  <1>1. CommanderInit => nextId \in 1..(MaxRequest + 1)
      BY CommanderAssumption DEF CommanderInit
  <1>2. ASSUME nextId \in 1..(MaxRequest + 1), [CommanderNext]_commanderVars
        PROVE  (nextId \in 1..(MaxRequest + 1))'
    <2>1. UNCHANGED nextId \/ (nextId <= MaxRequest /\ nextId' = nextId + 1)
        BY <1>2, Zenon DEF CommanderNext, CallTool, AskTool, TakeAnswer, CallFails, CloseCommander, Serve,
                           ChildExits, Send, commanderVars
    <2> QED BY <1>2, <2>1, CommanderAssumption
  <1> QED BY <1>1, <1>2, PTL DEF CommanderSpec

LEMMA ShapesOfEach ==
    /\ PoolInv => PoolTypeOK
    /\ OAuthInv => OAuthTypeOK
    /\ CognitionInv => CognitionTypeOK
    /\ DesktopInv => DesktopTypeOK
    /\ MachineInv => MachineTypeOK
    /\ CommanderInv /\ nextId \in 1..(MaxRequest + 1) => CommanderTypeOK
    /\ CapsuleInv => CapsuleTypeOK
  <1>1. PoolInv => PoolTypeOK
      BY DEF PoolInv, PoolShape, PoolTypeOK, RowShape, StartShape, SessionOrNone, PidOrNone, PortOrNone
  <1>2. OAuthInv => OAuthTypeOK
      BY DEF OAuthInv, GrantShape
  <1>3. CognitionInv => CognitionTypeOK
      BY DEF CognitionInv, CognitionTypeOK, PaneShape, AskShape, AskRow, AskPoints
  <1>4. DesktopInv => DesktopTypeOK
    <2> SUFFICES ASSUME DesktopInv PROVE DesktopTypeOK
        OBVIOUS
    <2>1. \A s \in DesktopSessions : pairs[s] \in Pairs
        BY DEF DesktopInv, DesktopShape
    <2>2. \A s \in DesktopSessions : pairs[s].adopted => pairs[s].slot = {HostSlot}
        BY <2>1, PairFields
    <2>3. Pairs \subseteq [slot : {{}} \cup {{k} : k \in Slots}, adopted : BOOLEAN]
      <3>1. HostSlot \in Slots
          BY PairFields
      <3>2. ASSUME NEW k \in Slots, NEW a \in BOOLEAN
            PROVE  Pair(k, a) \in [slot : {{}} \cup {{j} : j \in Slots}, adopted : BOOLEAN]
          BY DEF Pair
      <3>3. Unpaired \in [slot : {{}} \cup {{j} : j \in Slots}, adopted : BOOLEAN]
          BY DEF Unpaired
      <3> QED BY <3>1, <3>2, <3>3 DEF Pairs
    <2>4. pairs \in [DesktopSessions -> [slot : {{}} \cup {{k} : k \in Slots}, adopted : BOOLEAN]]
        BY <2>3 DEF DesktopInv, DesktopShape
    <2> QED BY <2>2, <2>4 DEF DesktopInv, DesktopShape, DesktopTypeOK
  <1>5. MachineInv => MachineTypeOK
      BY DEF MachineInv, MachineShape
  <1>6. CommanderInv /\ nextId \in 1..(MaxRequest + 1) => CommanderTypeOK
      BY DEF CommanderInv, CommanderShape, CommanderTypeOK, Pipes, CallRows
  <1>7. CapsuleInv => CapsuleTypeOK
      BY DEF CapsuleInv, Shape
  <1> QED BY <1>1, <1>2, <1>3, <1>4, <1>5, <1>6, <1>7

\* The variables of every service keep their shapes, whichever moves.
THEOREM ServicesTypesAreInvariant == ServicesSpec => []ServicesTypeOK
  <1>1. ServicesSpec => [](focus \in Parts)
    <2>1. ServicesInit => focus \in Parts
        BY DEF ServicesInit
    <2>2. focus \in Parts /\ [ServicesNext]_servicesVars => (focus \in Parts)'
        BY StepOfEach
    <2> QED BY <2>1, <2>2, PTL DEF ServicesSpec
  <1>2. /\ focus \in Parts
        /\ PoolInv /\ OAuthInv /\ CognitionInv /\ DesktopInv /\ MachineInv /\ CommanderInv /\ CapsuleInv
        /\ nextId \in 1..(MaxRequest + 1)
        => ServicesTypeOK
      BY ShapesOfEach DEF ServicesTypeOK
  <1> QED BY <1>1, <1>2, ServicesStandAlone, PoolIsInvariant, OAuthIsInvariant, CognitionIsInvariant,
             DesktopsAreInvariant, MachineIsInvariant, CommanderIsInvariant, CapsulesAreInvariant,
             RequestIdsBounded, PTL

-----------------------------------------------------------------------------
(* Promises *)

\* What each service promises its users, it keeps beside the others: servers are accounted
\* for, an approval has one line of tokens, answers and processes reach who asked, desktops
\* are not shared, calls that were checked run where their machine allows it, and the request
\* and the pending handoff of a capsule agree.
THEOREM ServicesKeepTheirPromises ==
    ServicesSpec => [](/\ ServersAccountedFor /\ StrayCallsFollowAMove
                       /\ OneLinePerApproval /\ TokensStayApproved
                       /\ AnswersTheRequest
                       /\ DesktopsNotShared
                       /\ OnlyApprovedMachines /\ CallsRunWhereAllowed
                       /\ ProcessesStayWithTheirSession
                       /\ PendingIsLive)
  BY ServicesStandAlone, ServersStayAccountedFor, CallsStayWithTheirServer, ApprovalsKeepOneLine,
     TokensStayWithinApproval, AnswersAreTheRequests, DesktopsStayApart, ApprovalIsRequired,
     CallsStayAllowed, ProcessesStay, PendingStaysLive, PTL

\* Beside the other services, too, a capsule changes hands only as CapsuleOwnership allows.
THEOREM ServicesImplementOwnership == ServicesSpec => ImplementsOwnership
  BY ServicesStandAlone, CapsulesImplementOwnership, PTL
=============================================================================
