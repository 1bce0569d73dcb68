------------------------------- MODULE MCLogin -------------------------------
(***************************************************************************)
(* Instances of Login for TLC.  What holds only of requests that come one  *)
(* at a time is checked in the same run as what holds of all of them:      *)
(* calm tells whether so far no request began before the one before it was *)
(* answered, and no eviction was cut short.                                *)
(***************************************************************************)
EXTENDS Login, TLC

VARIABLE calm

OneAtATime ==
    \A r, q \in Requests : ~At(r, "idle") /\ ~At(q, "idle") => r = q

CalmInit == Init /\ calm = TRUE

CalmNext ==
    /\ Next
    /\ calm' = (/\ calm
                /\ OneAtATime'
                /\ \A r \in Requests : req'[r].pc = "idle" =>
                      ~At(r, "listing") /\ req[r].todo = {})

CalmSpec == CalmInit /\ [][CalmNext]_<<vars, calm>>

\* As long as requests come one at a time, every session that still works was
\* opened with the current password or set it.
CalmSessionsMatchPassword == calm => SessionsMatchPassword

\* As long as requests come one at a time, logging in never changes the
\* password, not even when it upgrades the hash.
CalmLoginKeepsPassword ==
    [][calm' /\ password'.value # password.value =>
          ~Registered \/ \E r \in Requests : At(r, "updating")]_<<vars, calm>>

\* The session is about to be evicted.
Pending(t) ==
    \E r \in Requests : \/ At(r, "listing") /\ t # req[r].keep
                        \/ At(r, "evicting") /\ t \in req[r].todo

\* While requests come one at a time, what a login has verified is the password
\* still, and every session that works has it or is about to be evicted.
CalmInv ==
    calm =>
        /\ OneAtATime
        /\ \A r \in Requests :
              req[r].pc \in {"rehashing", "opening"} => req[r].given = password.value
        /\ \A t \in Tokens : Resolves(t) => opened[t] = password.value \/ Pending(t)

Symmetry == Permutations(Requests) \cup Permutations(Passwords)
              \cup Permutations(Tokens) \cup Permutations(Resets)

=============================================================================
