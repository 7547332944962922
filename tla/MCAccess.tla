------------------------------ MODULE MCAccess ------------------------------
(***************************************************************************)
(* Model checking of the way into the public API.  Requests and limiter    *)
(* share no state, so a behaviour plays one scene.                         *)
(***************************************************************************)
EXTENDS ToolCalls, RateLimits

VARIABLE scene

mcVars == <<callVars, limitVars, scene>>

MCInit ==
    \/ scene = "calls" /\ CallInit /\ LimitInit /\ backend = "memory"
    \/ scene = "limits" /\ LimitInit /\ CallInit
       /\ keyScope = NoWorkspace /\ permissions = Permissions /\ linked /\ managed = {}
       /\ uploads = {} /\ entries = [w \in Workspaces |-> {}]

MCNext ==
    \/ scene = "calls" /\ CallNext /\ UNCHANGED <<limitVars, scene>>
    \/ scene = "limits" /\ LimitNext /\ UNCHANGED <<callVars, scene>>

MCSpec == MCInit /\ [][MCNext]_mcVars
=============================================================================
