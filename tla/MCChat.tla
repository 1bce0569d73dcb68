------------------------------- MODULE MCChat -------------------------------
(***************************************************************************)
(* An instance of Chat for TLC.  calm tells whether so far requests came   *)
(* one at a time, and nothing failed but the delete or the expiry of a     *)
(* session; gone, whether every session that was to be deleted was.        *)
(***************************************************************************)
EXTENDS Chat, TLC

VARIABLES calm, gone

CalmInit == Init /\ calm = TRUE /\ gone = TRUE

FlushFailed(r) ==
    At(r, "flushing") /\ req'[r].pc = "deleting" /\ ~(req[r].fetched \subseteq memory')

DeleteFailed(r) ==
    At(r, "deleting") /\ req'[r].pc \in {"creating", "clearing"} /\ Live(req[r].session)
    /\ session' = session

\* The handler ended where it does not end by itself, or without its last write.
Stopped(r) ==
    /\ ~At(r, "idle") /\ ~At(r, "quota") /\ req'[r].pc = "idle"
    /\ At(r, "saving") => pointer'.session # req[r].session
    /\ At(r, "clearing") => pointer'.session # NoSession

CalmNext ==
    /\ Next
    /\ calm' = (/\ calm
                /\ \A r, q \in Requests : ~At(r, "idle") /\ ~At(q, "idle") => r = q
                /\ \A r \in Requests : ~FlushFailed(r) /\ ~Stopped(r))
    /\ gone' = (gone /\ \A r \in Requests : ~DeleteFailed(r))

CalmSpec == CalmInit /\ [][CalmNext]_<<vars, calm, gone>>

\* While requests come one at a time, a deleted session was flushed whole.
CalmNothingLost == calm => NothingLost

\* While requests come one at a time, a session that is live besides the one in
\* use is one that could not be deleted, and Memory Bank has all it said.
CalmOneLiveSession == calm => OneLiveSession

\* While deletes succeed, what a reset has retired answers no later message,
\* however requests interleave and fail otherwise.
GoneResetStartsFresh == gone => ResetStartsFresh

\* While deletes succeed, what a reset has retired is dead, and so is what a
\* reset is about to retire.
RetiredAreDead ==
    gone =>
        /\ \A s \in retired : ~Live(s) /\ session[s].state # "unmade"
        /\ \A r \in Requests :
              /\ req[r].stale \subseteq retired
              /\ At(r, "clearing") => ~Live(req[r].session)
              /\ At(r, "saving") => req[r].session \notin req[r].stale

\* The transcript needs no one any more.
Flushed(s) == Live(s) => session[s].turns \subseteq memory

\* Where the one handler in flight stands, and what it holds.
CalmHandler(r) ==
    /\ req[r].pc \in {"checking", "fetching", "flushing", "deleting"} =>
          req[r].session = pointer.session
    /\ req[r].pc \in {"flushing", "deleting"} =>
          req[r].session \in Sessions /\ req[r].fetched = session[req[r].session].turns
    /\ At(r, "deleting") => req[r].fetched \subseteq memory
    /\ req[r].pc \in {"creating", "clearing"} => Flushed(pointer.session)
    /\ req[r].pc \in {"streaming", "saving"} =>
          req[r].session = pointer.session \/ Flushed(pointer.session)
    /\ At(r, "streaming") =>
          req[r].session = pointer.session \/ session[req[r].session].turns = {}

\* A live session is the user's, or has been flushed, or is about to become the
\* user's.
Kept(s) ==
    \/ s = pointer.session
    \/ Flushed(s)
    \/ \E r \in Requests : At(r, "saving") /\ s = req[r].session

\* What holds of memory, sessions and handlers while requests come one at a time.
CalmInv ==
    calm => /\ NothingLost
            /\ \A s \in Sessions : Kept(s)
            /\ \A r \in Requests : CalmHandler(r)

Symmetry ==
    Permutations(Requests) \cup Permutations(Messages) \cup Permutations(Sessions)

=============================================================================
