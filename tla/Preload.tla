-------------------------------- MODULE Preload --------------------------------
(***************************************************************************)
(* What the agent is told of the user's standing data                      *)
(* (day_planner_agent/agent.py): before a turn of a session, callbacks     *)
(* fetch the profile, and the zones with the sleep schedule, unless the    *)
(* session has them already, and the instruction of the turn is built from *)
(* what they left in the session's state.                                  *)
(*                                                                         *)
(* A turn works on a copy of the session's state. What its callbacks wrote *)
(* is saved as one event when both have run; turns of one session may be   *)
(* under way at the same time. Of a document or list the model keeps       *)
(* whether there was anything in it; as tools, other sessions and the web  *)
(* change what is on file at any time, a fetch may find either.            *)
(***************************************************************************)
CONSTANT Turns          \* the turns that may be under way at once

Topics == {"profile", "zones"}
Facts == {"profile", "zones", "sleep"}

VARIABLES
    state,              \* the state of the session, as saved
    turn,               \* what each turn does, with its copy of the state
    foundNone,          \* topics that a fetch for this session found empty
    calm                \* no two turns of the session have been under way at once

preloadVars == <<state, turn, foundNone, calm>>

\* day_planner:*_preloaded, *_preload_failed, preloaded_* and preload_ok.
SessionState == [preloaded : [Topics -> BOOLEAN], failed : [Topics -> BOOLEAN],
                 shown : [Facts -> BOOLEAN], ok : BOOLEAN]

\* wrote: the topics whose keys the turn has written; read: what list_zones said.
Turn == [pc : {"idle", "profile", "zones", "sleep", "saving", "model"},
         state : SessionState, wrote : SUBSET Topics, read : {"nothing", "some", "error"}]

PreloadTypeOK ==
    /\ state \in SessionState
    /\ turn \in [Turns -> Turn]
    /\ foundNone \subseteq Topics
    /\ calm \in BOOLEAN

Nothing == [preloaded |-> [k \in Topics |-> FALSE], failed |-> [k \in Topics |-> FALSE],
            shown |-> [f \in Facts |-> FALSE], ok |-> TRUE]

Idle == [pc |-> "idle", state |-> Nothing, wrote |-> {}, read |-> "error"]

PreloadInit ==
    /\ state = Nothing
    /\ turn = [t \in Turns |-> Idle]
    /\ foundNone = {}
    /\ calm = TRUE

BeginTurn(t) ==
    /\ turn[t].pc = "idle"
    /\ turn' = [turn EXCEPT ![t] = [Idle EXCEPT !.pc = "profile", !.state = state]]
    /\ calm' = (calm /\ \A u \in Turns : turn[u].pc = "idle")
    /\ UNCHANGED <<state, foundNone>>

(***************************************************************************)
(* The callbacks.                                                          *)
(***************************************************************************)

\* The state with topic k fetched or failed, and preload_ok refreshed.
WithOk(s) == [s EXCEPT !.ok = \A k \in Topics : ~s.failed[k]]

\* Faulty: a success does not take the earlier failure back.
LoadedStillFailed(s, k, facts) ==
    WithOk([s EXCEPT !.preloaded[k] = TRUE,
                     !.shown = [f \in Facts |-> s.shown[f] \/ f \in facts]])

\* A snapshot is written only of what there is.
Loaded(s, k, facts) ==
    WithOk([s EXCEPT !.preloaded[k] = TRUE, !.failed[k] = FALSE,
                     !.shown = [f \in Facts |-> s.shown[f] \/ f \in facts]])

\* Faulty: the session counts as loaded although nothing was.
FailedLatched(s, k) == WithOk([s EXCEPT !.preloaded[k] = TRUE])

Failed(s, k) == WithOk([s EXCEPT !.failed[k] = TRUE])

\* The turn keeps s as its state, with topic k written, and goes on to pc.
Keeps(t, k, pc, s) ==
    turn' = [turn EXCEPT ![t] = [turn[t] EXCEPT !.pc = pc, !.state = s,
                                                !.wrote = turn[t].wrote \cup {k}]]

Goes(t, pc) == turn' = [turn EXCEPT ![t].pc = pc]

\* Faulty: a topic that failed once is not fetched again.
FetchesUntilFailure(t, k) == ~turn[t].state.preloaded[k] /\ ~turn[t].state.failed[k]

\* The topic is fetched now, as nothing was loaded before.
Fetches(t, k) == ~turn[t].state.preloaded[k]

ProfileThere(t) ==
    /\ turn[t].pc = "profile" /\ ~Fetches(t, "profile")
    /\ Goes(t, "zones")
    /\ UNCHANGED <<state, foundNone, calm>>

ProfileLoads(t) ==
    /\ turn[t].pc = "profile" /\ Fetches(t, "profile")
    /\ \E facts \in {{}, {"profile"}} :
           /\ Keeps(t, "profile", "zones", Loaded(turn[t].state, "profile", facts))
           /\ foundNone' = IF facts = {} THEN foundNone \cup {"profile"} ELSE foundNone
    /\ UNCHANGED <<state, calm>>

ProfileFails(t) ==
    /\ turn[t].pc = "profile" /\ Fetches(t, "profile")
    /\ Keeps(t, "profile", "zones", Failed(turn[t].state, "profile"))
    /\ UNCHANGED <<state, foundNone, calm>>

ZonesThere(t) ==
    /\ turn[t].pc = "zones" /\ ~Fetches(t, "zones")
    /\ Goes(t, "saving")
    /\ UNCHANGED <<state, foundNone, calm>>

\* list_zones. An error is looked at after the sleep schedule was asked for too.
ZonesRead(t) ==
    /\ turn[t].pc = "zones" /\ Fetches(t, "zones")
    /\ \E read \in {"some", "nothing"} :
           turn' = [turn EXCEPT ![t].pc = "sleep", ![t].read = read]
    /\ UNCHANGED <<state, foundNone, calm>>

ZonesUnread(t) ==
    /\ turn[t].pc = "zones" /\ Fetches(t, "zones")
    /\ turn' = [turn EXCEPT ![t].pc = "sleep", ![t].read = "error"]
    /\ UNCHANGED <<state, foundNone, calm>>

\* get_sleep_schedule: both were read.
ZonesLoad(t) ==
    /\ turn[t].pc = "sleep" /\ turn[t].read # "error"
    /\ \E sleep \in {{}, {"sleep"}} :
           LET facts == sleep \cup (IF turn[t].read = "some" THEN {"zones"} ELSE {})
           IN
           /\ Keeps(t, "zones", "saving", Loaded(turn[t].state, "zones", facts))
           /\ foundNone' = IF facts = {} THEN foundNone \cup {"zones"} ELSE foundNone
    /\ UNCHANGED <<state, calm>>

\* One of the two was not.
ZonesFail(t) ==
    /\ turn[t].pc = "sleep"
    /\ Keeps(t, "zones", "saving", Failed(turn[t].state, "zones"))
    /\ UNCHANGED <<state, foundNone, calm>>

\* The state after the callbacks: the keys that the turn wrote, over those saved.
\* Only TRUE is ever written to *_preloaded, preload_ok is written with any topic.
Merged(s, own, wrote) ==
    [preloaded |-> [k \in Topics |-> s.preloaded[k] \/ own.preloaded[k]],
     failed |-> [k \in Topics |-> IF k \in wrote THEN own.failed[k] ELSE s.failed[k]],
     shown |-> [f \in Facts |-> s.shown[f] \/ own.shown[f]],
     ok |-> IF wrote = {} THEN s.ok ELSE own.ok]

\* One event saves what both callbacks wrote, before the model is asked.
StateSaved(t) ==
    /\ turn[t].pc = "saving"
    /\ state' = Merged(state, turn[t].state, turn[t].wrote)
    /\ Goes(t, "model")
    /\ UNCHANGED <<foundNone, calm>>

ModelAnswers(t) ==
    /\ turn[t].pc = "model"
    /\ turn' = [turn EXCEPT ![t] = Idle]
    /\ UNCHANGED <<state, foundNone, calm>>

TurnStep(t) ==
    \/ ProfileThere(t) \/ ProfileLoads(t) \/ ProfileFails(t)
    \/ ZonesThere(t) \/ ZonesRead(t) \/ ZonesUnread(t) \/ ZonesLoad(t) \/ ZonesFail(t)
    \/ StateSaved(t) \/ ModelAnswers(t)

PreloadNext == \E t \in Turns : BeginTurn(t) \/ TurnStep(t)

PreloadSpec == PreloadInit /\ [][PreloadNext]_preloadVars

(***************************************************************************)
(* Properties.                                                             *)
(***************************************************************************)

\* _build_instruction: "No ... are on file for this user yet."
SaysNone(s, k) ==
    /\ ~s.failed[k]
    /\ \A f \in IF k = "profile" THEN {"profile"} ELSE {"zones", "sleep"} : ~s.shown[f]

\* The model is told that there are no preferences, or neither zones nor a sleep
\* schedule, only when a fetch for this session has found that: a failure is not
\* taken for an absence, and the user's sleep is not planned over.
NoneMeansNone ==
    \A t \in Turns : turn[t].pc = "model" =>
        \A k \in Topics : SaysNone(turn[t].state, k) => k \in foundNone

\* While turns come one at a time, a topic that failed is fetched again in the
\* next turn, its warning goes with the first success, and preload_ok, which the
\* turn log carries, says whether there is one. Turns that overlap break this:
\* the failure of one is saved over the success of the other, and stays.
CalmFailureIsRetried ==
    calm => /\ \A k \in Topics : ~(state.failed[k] /\ state.preloaded[k])
            /\ state.ok = (\A k \in Topics : ~state.failed[k])

=============================================================================
