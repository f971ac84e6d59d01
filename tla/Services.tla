-------------------------------- MODULE Services --------------------------------
(***************************************************************************)
(* The services of Studio around its work queue and gateway, side by side: *)
(* the server pool, the authorization server, the cognitive router, the    *)
(* desktops, the machines, the Desktop Commander and the capsules.  They   *)
(* share no variable, so what one of them may do does not depend on the    *)
(* others: in every behaviour one service moves and the others stand still.*)
(***************************************************************************)
EXTENDS ManagedPool, OAuthGrants, Cognition, Desktops, MachineAuthority,
        DesktopCommander, CapsuleHandoff

VARIABLE focus \* the service that moves

servicesVars ==
    <<focus, poolVars, oauthVars, cognitionVars, desktopVars, machineVars, commanderVars,
      capsuleVars>>

Parts ==
    {"pool", "oauth", "cognition", "desktops", "machines", "commander", "capsules"}

ServicesInit ==
    /\ focus \in Parts
    /\ PoolInit /\ OAuthInit /\ CognitionInit /\ DesktopInit /\ MachineInit
    /\ CommanderInit /\ CapsuleInit

ServicesNext ==
    /\ UNCHANGED focus
    /\ \/ /\ focus = "pool" /\ PoolNext
          /\ UNCHANGED <<oauthVars, cognitionVars, desktopVars, machineVars, commanderVars,
                         capsuleVars>>
       \/ /\ focus = "oauth" /\ OAuthNext
          /\ UNCHANGED <<poolVars, cognitionVars, desktopVars, machineVars, commanderVars,
                         capsuleVars>>
       \/ /\ focus = "cognition" /\ CognitionNext
          /\ UNCHANGED <<poolVars, oauthVars, desktopVars, machineVars, commanderVars,
                         capsuleVars>>
       \/ /\ focus = "desktops" /\ DesktopNext
          /\ UNCHANGED <<poolVars, oauthVars, cognitionVars, machineVars, commanderVars,
                         capsuleVars>>
       \/ /\ focus = "machines" /\ MachineNext
          /\ UNCHANGED <<poolVars, oauthVars, cognitionVars, desktopVars, commanderVars,
                         capsuleVars>>
       \/ /\ focus = "commander" /\ CommanderNext
          /\ UNCHANGED <<poolVars, oauthVars, cognitionVars, desktopVars, machineVars,
                         capsuleVars>>
       \/ /\ focus = "capsules" /\ CapsuleNext
          /\ UNCHANGED <<poolVars, oauthVars, cognitionVars, desktopVars, machineVars,
                         commanderVars>>

ServicesSpec == ServicesInit /\ [][ServicesNext]_servicesVars

\* Every variable of the service that moves keeps its shape.
ServicesTypeOK ==
    /\ focus \in Parts
    /\ focus = "pool"           => PoolTypeOK
    /\ focus = "oauth"          => OAuthTypeOK
    /\ focus = "cognition"      => CognitionTypeOK
    /\ focus = "desktops"       => DesktopTypeOK
    /\ focus = "machines"       => MachineTypeOK
    /\ focus = "commander"      => CommanderTypeOK
    /\ focus = "capsules"       => CapsuleTypeOK
=============================================================================
