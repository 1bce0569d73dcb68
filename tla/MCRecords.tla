-------------------------------- MODULE MCRecords --------------------------------
(***************************************************************************)
(* An instance of Records and Throttle for TLC. The two share no state, so *)
(* that a behaviour of both is one of each side by side: which of the two  *)
(* moves is chosen at the beginning.                                       *)
(***************************************************************************)
EXTENDS Records, Throttle, TLC

VARIABLE part

vars == <<part, recordsVars, throttleVars>>

MCInit ==
    /\ part \in {"records", "throttle"}
    /\ RecordsInit /\ ThrottleInit

MCNext ==
    /\ \/ part = "records" /\ RecordsNext /\ UNCHANGED throttleVars
       \/ part = "throttle" /\ ThrottleNext /\ UNCHANGED recordsVars
    /\ UNCHANGED part

MCSpec == MCInit /\ [][MCNext]_vars

Symmetry == Permutations(Requests) \cup Permutations(ZoneIds)

=============================================================================
