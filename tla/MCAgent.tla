-------------------------------- MODULE MCAgent --------------------------------
(***************************************************************************)
(* An instance of ServiceClient, MemoryWrites and Preload for TLC. The     *)
(* three share no state, so that a behaviour of all of them is one of each *)
(* side by side: which of the three moves is chosen at the beginning.      *)
(***************************************************************************)
EXTENDS ServiceClient, MemoryWrites, Preload

VARIABLE part

vars == <<part, clientVars, memoryVars, preloadVars>>

MCInit ==
    /\ part \in {"client", "memory", "preload"}
    /\ ClientInit /\ MemoryInit /\ PreloadInit

MCNext ==
    /\ \/ part = "client" /\ ClientNext /\ UNCHANGED <<memoryVars, preloadVars>>
       \/ part = "memory" /\ MemoryNext /\ UNCHANGED <<clientVars, preloadVars>>
       \/ part = "preload" /\ PreloadNext /\ UNCHANGED <<clientVars, memoryVars>>
    /\ UNCHANGED part

\* The user goes on talking, the event loop runs every turn, and a fetch that is
\* made again and again does not fail for ever.
SessionFairness ==
    \A t \in Turns :
        /\ WF_preloadVars(part = "preload" /\ BeginTurn(t))
        /\ WF_preloadVars(TurnStep(t))
        /\ SF_preloadVars(ProfileLoads(t))
        /\ SF_preloadVars(ZonesRead(t))
        /\ SF_preloadVars(ZonesLoad(t))

MCSpec ==
    /\ MCInit /\ [][MCNext]_vars
    /\ ClientFairness /\ SessionFairness

\* Where it is the session that moves, the profile and the zones are loaded in
\* the end, however often fetching them has failed before and however turns
\* overlap (_preload_profile, _preload_zones).
SessionLoads == <>[](part # "preload" \/ \A k \in Topics : state.preloaded[k])

=============================================================================
