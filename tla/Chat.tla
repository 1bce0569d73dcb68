-------------------------------- MODULE Chat --------------------------------
(***************************************************************************)
(* The chat endpoints of one signed-in user: POST /me/chat and             *)
(* POST /me/chat/reset.  The user document holds the daily quota and the   *)
(* pointer to the Agent Engine session the next message continues.         *)
(* Requests of several tabs interleave at every await.                     *)
(***************************************************************************)
EXTENDS Naturals, FiniteSets

CONSTANTS
    Requests,       \* requests that may be in flight
    Messages,       \* messages the user may send (bounds a run)
    Sessions,       \* sessions Agent Engine may create (bounds a run)
    DailyLimit,     \* settings.chat_daily_quota
    MaxDay,         \* the last UTC day of a run
    Failures,       \* what may fail
    NoSession, NoMessage

ASSUME LimitsAreNumbers == DailyLimit \in Nat /\ MaxDay \in Nat
ASSUME NullsAreOutside == NoSession \notin Sessions /\ NoMessage \notin Messages
ASSUME FailuresAreKnown ==
    Failures \subseteq {"flush", "delete", "stream", "expiry", "crash"}

VARIABLES
    day,        \* the UTC calendar day
    quota,      \* users/{user}: quota_date and quota_count
    pointer,    \* users/{user}: agent_session_id, and whether it has gone idle
    session,    \* Agent Engine: each session and the turns in its transcript
    memory,     \* Memory Bank: the turns flushed into it
    req,        \* what each handler holds, and where it stands
    unsent,     \* messages not sent yet
    allowed,    \* history: how many messages were let through for each day
    late,       \* history: how many of them went back to a day that was over
    retired     \* history: sessions that a reset has answered for

vars == <<day, quota, pointer, session, memory, req, unsent, allowed, late, retired>>

Days == 0 .. MaxDay

Never == MaxDay + 1     \* no quota_date yet

Quota == [date : Days \cup {Never}, count : Nat]

Pointer == [session : Sessions \cup {NoSession}, idle : BOOLEAN]

Session == [state : {"unmade", "live", "deleted", "expired"}, turns : SUBSET Messages]

Stages == {"idle", "quota", "resolving", "fetching", "flushing", "deleting",
           "checking", "creating", "streaming", "saving",
           "reset", "clearing"}

Request == [pc : Stages, message : Messages \cup {NoMessage}, today : Days,
            known : Sessions \cup {NoSession},     \* session_id in the handler
            session : Sessions \cup {NoSession},   \* the one send_message uses
            fetched : SUBSET Messages,             \* the session being archived
            stale : SUBSET Sessions]               \* retired before it began

Idle == [pc |-> "idle", message |-> NoMessage, today |-> 0, known |-> NoSession,
         session |-> NoSession, fetched |-> {}, stale |-> {}]

Live(s) == s # NoSession /\ session[s].state = "live"

At(r, stage) == req[r].pc = stage

Put(r, q) == req' = [req EXCEPT ![r] = q]

Move(r, stage) == Put(r, [req[r] EXCEPT !.pc = stage])

Return(r) == Put(r, Idle)

-----------------------------------------------------------------------------
(* The quota. *)

\* The day is read before the transaction that uses it.
Chat(r, m) ==
    /\ At(r, "idle")
    /\ m \in unsent
    /\ unsent' = unsent \ {m}
    /\ Put(r, [Idle EXCEPT !.pc = "quota", !.message = m, !.today = day,
                           !.stale = retired])
    /\ UNCHANGED <<day, quota, pointer, session, memory, allowed, late, retired>>

\* What the document counts for a day: another day's count starts over.
CountOn(today) == IF quota.date = today THEN quota.count ELSE 0

\* The day is over, and the document counts a later one already.
IsLate(today) == quota.date # Never /\ today < quota.date

\* Faulty: the limit is one too many.
ConsumeUpToLimit(r) ==
    /\ At(r, "quota")
    /\ LET today == req[r].today IN
       \/ /\ CountOn(today) <= DailyLimit
          /\ quota' = [date |-> today, count |-> CountOn(today) + 1]
          /\ allowed' = [allowed EXCEPT ![today] = @ + 1]
          /\ late' = late + (IF IsLate(today) THEN 1 ELSE 0)
          /\ Move(r, "resolving")
       \/ /\ CountOn(today) > DailyLimit
          /\ Return(r)
          /\ UNCHANGED <<quota, allowed, late>>
    /\ UNCHANGED <<day, pointer, session, memory, unsent, retired>>

\* check_and_consume_quota's transaction: check and increment are one step.
ConsumeQuota(r) ==
    /\ At(r, "quota")
    /\ LET today == req[r].today IN
       \/ /\ CountOn(today) < DailyLimit
          /\ quota' = [date |-> today, count |-> CountOn(today) + 1]
          /\ allowed' = [allowed EXCEPT ![today] = @ + 1]
          /\ late' = late + (IF IsLate(today) THEN 1 ELSE 0)
          /\ Move(r, "resolving")
       \/ /\ CountOn(today) >= DailyLimit
          /\ Return(r)                                            \* 429
          /\ UNCHANGED <<quota, allowed, late>>
    /\ UNCHANGED <<day, pointer, session, memory, unsent, retired>>

-----------------------------------------------------------------------------
(* Which session the message continues. *)

\* Faulty: an idle session is left behind instead of archived.
ResolveWithoutArchive(r) ==
    /\ At(r, "resolving")
    /\ LET kept == IF pointer.idle THEN NoSession ELSE pointer.session IN
       Put(r, [req[r] EXCEPT !.known = kept, !.session = kept,
                             !.pc = IF kept = NoSession THEN "creating" ELSE "checking"])
    /\ UNCHANGED <<day, quota, pointer, session, memory, unsent, allowed, late, retired>>

\* get_agent_session, then _is_idle.
ResolveSession(r) ==
    /\ At(r, "resolving")
    /\ Put(r, [req[r] EXCEPT
                 !.known = pointer.session,
                 !.session = pointer.session,
                 !.pc = IF pointer.session = NoSession THEN "creating"
                        ELSE IF pointer.idle THEN "fetching" ELSE "checking"])
    /\ UNCHANGED <<day, quota, pointer, session, memory, unsent, allowed, late, retired>>

\* archive_session is over: a chat goes on without a session, a reset clears
\* the pointer.
Archived(r) ==
    Put(r, IF req[r].message = NoMessage
             THEN [req[r] EXCEPT !.pc = "clearing"]
             ELSE [req[r] EXCEPT !.pc = "creating", !.known = NoSession,
                                 !.session = NoSession, !.fetched = {}])

\* Faulty: the session is deleted without a flush.
ArchiveFetchToDelete(r) ==
    /\ At(r, "fetching")
    /\ IF Live(req[r].session) THEN Move(r, "deleting") ELSE Archived(r)
    /\ UNCHANGED <<day, quota, pointer, session, memory, unsent, allowed, late, retired>>

\* The session is fetched once; what is flushed is this copy of it.
ArchiveFetch(r) ==
    /\ At(r, "fetching")
    /\ IF Live(req[r].session)
         THEN Put(r, [req[r] EXCEPT !.pc = "flushing",
                                    !.fetched = session[req[r].session].turns])
         ELSE Archived(r)
    /\ UNCHANGED <<day, quota, pointer, session, memory, unsent, allowed, late, retired>>

\* A failed flush is logged, and the session is deleted anyway.
ArchiveFlush(r) ==
    /\ At(r, "flushing")
    /\ \/ memory' = memory \cup req[r].fetched
       \/ "flush" \in Failures /\ UNCHANGED memory
    /\ Move(r, "deleting")
    /\ UNCHANGED <<day, quota, pointer, session, unsent, allowed, late, retired>>

ArchiveDelete(r) ==
    /\ At(r, "deleting")
    /\ \/ session' = [session EXCEPT ![req[r].session].state = "deleted"]
       \/ "delete" \in Failures /\ UNCHANGED session
    /\ Archived(r)
    /\ UNCHANGED <<day, quota, pointer, memory, unsent, allowed, late, retired>>

-----------------------------------------------------------------------------
(* send_message. *)

\* A session that is gone is replaced rather than reported.
CheckSession(r) ==
    /\ At(r, "checking")
    /\ IF Live(req[r].session)
         THEN Move(r, "streaming")
         ELSE Put(r, [req[r] EXCEPT !.pc = "creating", !.session = NoSession])
    /\ UNCHANGED <<day, quota, pointer, session, memory, unsent, allowed, late, retired>>

CreateSession(r, s) ==
    /\ At(r, "creating")
    /\ session[s].state = "unmade"
    /\ session' = [session EXCEPT ![s].state = "live"]
    /\ Put(r, [req[r] EXCEPT !.pc = "streaming", !.session = s])
    /\ UNCHANGED <<day, quota, pointer, memory, unsent, allowed, late, retired>>

Stream(r) ==
    /\ At(r, "streaming")
    /\ Live(req[r].session)
    /\ session' = [session EXCEPT ![req[r].session].turns = @ \cup {req[r].message}]
    /\ Move(r, "saving")
    /\ UNCHANGED <<day, quota, pointer, memory, unsent, allowed, late, retired>>

\* An error or a timeout ends the request, and the pointer is not updated; the
\* message may already be in the transcript.
StreamFails(r) ==
    /\ At(r, "streaming")
    /\ ~Live(req[r].session) \/ "stream" \in Failures
    /\ \/ /\ Live(req[r].session)
          /\ session' = [session EXCEPT
                           ![req[r].session].turns = @ \cup {req[r].message}]
       \/ UNCHANGED session
    /\ Return(r)
    /\ UNCHANGED <<day, quota, pointer, memory, unsent, allowed, late, retired>>

\* Faulty: anything but a first conversation is said to be an old one.
NewOnlyWithoutSession(q) == q.known = NoSession

\* ChatResponse.new_session, as the handler computes it when it answers.
NewSession(q) == q.session # q.known

SetAgentSession(r) ==
    /\ At(r, "saving")
    /\ pointer' = [session |-> req[r].session, idle |-> FALSE]
    /\ Return(r)
    /\ UNCHANGED <<day, quota, session, memory, unsent, allowed, late, retired>>

-----------------------------------------------------------------------------
(* POST /me/chat/reset. *)

Reset(r) ==
    /\ At(r, "idle")
    /\ Move(r, "reset")
    /\ UNCHANGED <<day, quota, pointer, session, memory, unsent, allowed, late, retired>>

\* Faulty: a reset clears the pointer and leaves the session live.
ResetKeepsSession(r) ==
    /\ At(r, "reset")
    /\ Put(r, [req[r] EXCEPT !.session = pointer.session, !.pc = "clearing"])
    /\ UNCHANGED <<day, quota, pointer, session, memory, unsent, allowed, late, retired>>

ResetRead(r) ==
    /\ At(r, "reset")
    /\ Put(r, [req[r] EXCEPT
                 !.session = pointer.session,
                 !.pc = IF pointer.session = NoSession THEN "clearing" ELSE "fetching"])
    /\ UNCHANGED <<day, quota, pointer, session, memory, unsent, allowed, late, retired>>

ClearAgentSession(r) ==
    /\ At(r, "clearing")
    /\ pointer' = [session |-> NoSession, idle |-> FALSE]
    /\ retired' = retired \cup ({req[r].session} \ {NoSession})
    /\ Return(r)
    /\ UNCHANGED <<day, quota, session, memory, unsent, allowed, late>>

-----------------------------------------------------------------------------
(* The environment. *)

\* agent_session_idle_timeout_seconds pass without a message.
GoIdle ==
    /\ pointer.session # NoSession /\ ~pointer.idle
    /\ pointer' = [pointer EXCEPT !.idle = TRUE]
    /\ UNCHANGED <<day, quota, session, memory, req, unsent, allowed, late, retired>>

Midnight ==
    /\ day < MaxDay
    /\ day' = day + 1
    /\ UNCHANGED <<quota, pointer, session, memory, req, unsent, allowed, late, retired>>

\* Agent Engine drops a session of its own accord.
Expire(s) ==
    /\ "expiry" \in Failures
    /\ session[s].state = "live"
    /\ session' = [session EXCEPT ![s].state = "expired"]
    /\ UNCHANGED <<day, quota, pointer, memory, req, unsent, allowed, late, retired>>

\* The handler stops at an await: instance shutdown, Firestore error.
Crash(r) ==
    /\ "crash" \in Failures
    /\ ~At(r, "idle")
    /\ Return(r)
    /\ UNCHANGED <<day, quota, pointer, session, memory, unsent, allowed, late, retired>>

-----------------------------------------------------------------------------

Init ==
    /\ day = 0
    /\ quota = [date |-> Never, count |-> 0]
    /\ pointer = [session |-> NoSession, idle |-> FALSE]
    /\ session = [s \in Sessions |-> [state |-> "unmade", turns |-> {}]]
    /\ memory = {}
    /\ req = [r \in Requests |-> Idle]
    /\ unsent = Messages
    /\ allowed = [d \in Days |-> 0]
    /\ late = 0
    /\ retired = {}

Archive(r) == ArchiveFetch(r) \/ ArchiveFlush(r) \/ ArchiveDelete(r)

SendMessage(r) ==
    \/ CheckSession(r)
    \/ \E s \in Sessions : CreateSession(r, s)
    \/ Stream(r)
    \/ StreamFails(r)

Handle(r) ==
    \/ \E m \in Messages : Chat(r, m)
    \/ ConsumeQuota(r)
    \/ ResolveSession(r)
    \/ Archive(r)
    \/ SendMessage(r)
    \/ SetAgentSession(r)
    \/ Reset(r)
    \/ ResetRead(r)
    \/ ClearAgentSession(r)
    \/ Crash(r)

Next ==
    \/ \E r \in Requests : Handle(r)
    \/ \E s \in Sessions : Expire(s)
    \/ GoIdle
    \/ Midnight

Spec == Init /\ [][Next]_vars

-----------------------------------------------------------------------------

TypeOK ==
    /\ day \in Days
    /\ quota \in Quota
    /\ pointer \in Pointer
    /\ session \in [Sessions -> Session]
    /\ memory \in SUBSET Messages
    /\ req \in [Requests -> Request]
    /\ unsent \in SUBSET Messages
    /\ allowed \in [Days -> Nat]
    /\ late \in Nat
    /\ retired \in SUBSET Sessions

\* No UTC day lets more messages through than the limit, however many requests
\* race on the last unit (check_and_consume_quota's docstring).
QuotaPerDay == \A d \in Days : allowed[d] <= DailyLimit

\* A day lets the limit through, and once more the limit for each message that
\* read the day before midnight and ran its transaction after a message of the
\* next day: going back to the old day starts the count of both over, and that
\* is all a racing request can gain.
QuotaUnlessLate == \A d \in Days : allowed[d] <= DailyLimit * (1 + late)

\* A message is told to have started a new session exactly when the transcript
\* that answered it holds no other turn, whoever else chats or resets.
NewSessionIsNew ==
    \A r \in Requests : At(r, "saving") =>
        (NewSession(req[r]) <=> session[req[r].session].turns = {req[r].message})

\* Whatever a deleted session said was flushed into Memory Bank before: a
\* rollover or a reset loses the conversation's thread but not its substance.
NothingLost ==
    \A s \in Sessions : session[s].state = "deleted" => session[s].turns \subseteq memory

\* The user has one active session: between requests any other that is still
\* live is one that could not be deleted, and all it said is in Memory Bank.
OneLiveSession ==
    (\A r \in Requests : At(r, "idle")) =>
        \A s \in Sessions :
            Live(s) => s = pointer.session \/ session[s].turns \subseteq memory

\* A message sent after a reset was answered is never answered from a session
\* that reset retired, even when a slower chat puts the pointer back to it.
ResetStartsFresh ==
    \A r \in Requests : At(r, "saving") => req[r].session \notin req[r].stale

\* A message is in one place: unsent, in the hands of one handler, or in the
\* transcript its handler put it into.
OneHandlerEach ==
    /\ \A r \in Requests : At(r, "idle") => req[r].message = NoMessage
    /\ \A r \in Requests : req[r].message \notin unsent
    /\ \A r, q \in Requests :
          req[r].message # NoMessage /\ req[r].message = req[q].message => r = q
    /\ \A s \in Sessions : session[s].turns \cap unsent = {}
    /\ \A r \in Requests, s \in Sessions :
          req[r].message \in session[s].turns => At(r, "saving")

\* A session anybody may continue has a first turn.
Started(s) == s # NoSession => session[s].turns # {}

\* What the pointer and the handlers name are sessions Agent Engine made, and
\* what a message continues was begun by an earlier one.
SessionsMade ==
    /\ \A s \in Sessions : session[s].state = "unmade" => session[s].turns = {}
    /\ Started(pointer.session)
    /\ \A r \in Requests :
          /\ Started(req[r].known)
          /\ req[r].session # NoSession => session[req[r].session].state # "unmade"
          /\ At(r, "checking") => req[r].session = req[r].known
          /\ req[r].pc \in {"checking", "streaming", "saving"} =>
                req[r].session # NoSession
          /\ At(r, "saving") /\ ~NewSession(req[r]) =>
                session[req[r].session].turns # {req[r].message}

\* A handler that answers from a session it created itself.
Creator(r) == req[r].pc \in {"streaming", "saving"} /\ NewSession(req[r])

\* Nobody else knows of a session before its creator saves it, so until then
\* its transcript holds the creator's message and no other.
CreatorsAlone ==
    \A r \in Requests : Creator(r) =>
        /\ At(r, "streaming") => session[req[r].session].turns = {}
        /\ At(r, "saving") => session[req[r].session].turns = {req[r].message}
        /\ pointer.session # req[r].session
        /\ \A q \in Requests : q # r =>
              req[q].session # req[r].session /\ req[q].known # req[r].session

SessionsInv == OneHandlerEach /\ SessionsMade /\ CreatorsAlone

=============================================================================
