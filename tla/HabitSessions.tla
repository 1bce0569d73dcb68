---------------------------- MODULE HabitSessions ----------------------------
(***************************************************************************)
(* Habit sessions: the events the agent's calendar tools put on one        *)
(* writable Google calendar, and the plan log the app keeps of them        *)
(* (users/{user}/habit_sessions), which also holds whether each session    *)
(* was done.  Tool calls of parallel turns, marks from the web and the     *)
(* user's own edits on the calendar interleave at every await.             *)
(***************************************************************************)
EXTENDS Naturals

CONSTANTS
    Habits,         \* tracked habits
    Slots,          \* start times (an event's end follows its start)
    Fresh,          \* ids that _fresh_event_id may draw (bounds a run)
    Calls,          \* tool calls, each made once (bounds a run)
    Marks,          \* status requests, each made once (bounds a run)
    MaxAttempts,    \* _MAX_INSERT_ATTEMPTS
    MaxEdits,       \* the user's own edits on the calendar (bounds a run)
    NoHabit, NoSlot, NoCall

ASSUME AttemptsArePositive == MaxAttempts \in Nat \ {0}
ASSUME EditsAreNumbers == MaxEdits \in Nat
ASSUME NullsAreOutside ==
    NoHabit \notin Habits /\ NoSlot \notin Slots /\ NoCall \notin Calls
ASSUME FreshIdsAreNew == Fresh \cap (Habits \X Slots) = {}

VARIABLES
    event,      \* Google Calendar: events by id; a deleted one leaves a tombstone
    log,        \* habit_sessions documents, by the id of their event
    call,       \* what each tool call, and the handler it reaches, holds
    mark,       \* what each status request holds
    edits,      \* how many edits the user made on the calendar
    marked,     \* history: the status last asked for, by event
    unplanned   \* history: events changed since the agent last heard of them, or
                \* whose plan was not logged

vars == <<event, log, call, mark, edits, marked, unplanned>>

\* A habit's session at a time has the id hashed from just that.
Ids == (Habits \X Slots) \cup Fresh

Statuses == {"pending", "completed", "skipped"}

Event == [state : {"absent", "live", "cancelled"},
          habit : Habits \cup {NoHabit},        \* the private property it is tagged with
          slot  : Slots \cup {NoSlot},
          by    : Calls \cup {NoCall}]          \* history: who inserted it

Session == [exists : BOOLEAN, slot : Slots \cup {NoSlot},
            status : Statuses, completed_at : BOOLEAN]

Call == [pc      : {"new", "inserting", "conflict", "reading", "writing",
                    "success", "error"},
         habit   : Habits \cup {NoHabit},
         slot    : Slots \cup {NoSlot},         \* the start asked for
         id      : Ids \cup {NoCall},           \* event_id
         attempt : 0 .. MaxAttempts,
         got     : Slots \cup {NoSlot},         \* the start in the answer
         known   : BOOLEAN]                     \* existing.exists, in upsert

Mark == [pc : {"new", "writing", "done"}, id : Ids \cup {NoCall}, status : Statuses]

At(c, pc) == call[c].pc = pc

Live(id) == event[id].state = "live"

\* Calls that Google or the app has not answered yet.
InFlight == {c \in Calls : call[c].pc \in {"inserting", "conflict", "reading", "writing"}}

\* An id that nothing carries and nobody is about to use.
Unused(f) == event[f].state = "absent" /\ \A c \in InFlight : call[c].id # f

-----------------------------------------------------------------------------
(* add_calendar_event: insert under an id chosen first, and retry. *)

Begin(c, h, s, id) ==
    /\ At(c, "new")
    /\ call' = [call EXCEPT ![c] = [@ EXCEPT !.pc = "inserting", !.habit = h, !.slot = s,
                                             !.id = id, !.attempt = 1]]
    /\ UNCHANGED <<event, log, mark, edits, marked, unplanned>>

AddSession(c, h, s) == Begin(c, h, s, <<h, s>>)

AddAppointment(c, s) == \E f \in Fresh : Unused(f) /\ Begin(c, NoHabit, s, f)

\* An answer with an event in it: a tagged event's plan is logged next.
Answer(c, id, slot, habit) ==
    /\ call' = [call EXCEPT ![c] = [@ EXCEPT
                   !.pc = IF habit = NoHabit THEN "success" ELSE "reading",
                   !.id = id, !.got = slot]]
    /\ unplanned' = unplanned \ {id}

\* Faulty: every attempt draws an id of its own.
TryAgainFresh(c, id) ==
    \E f \in Fresh :
        /\ Unused(f)
        /\ call[c].attempt < MaxAttempts
        /\ call' = [call EXCEPT ![c] = [@ EXCEPT !.pc = "inserting", !.id = f,
                                                 !.attempt = @ + 1]]

\* An attempt failed in a way worth another, if any is left.
TryAgain(c, id) ==
    LET q == call[c] IN
    call' = [call EXCEPT ![c] =
        IF q.attempt < MaxAttempts
          THEN [q EXCEPT !.pc = "inserting", !.id = id, !.attempt = q.attempt + 1]
          ELSE [q EXCEPT !.pc = "error"]]

\* The insert reaches Google and is new there, whether or not the answer is heard.
Insert(c) ==
    /\ At(c, "inserting")
    /\ event[call[c].id].state = "absent"
    /\ event' = [event EXCEPT ![call[c].id] =
                    [state |-> "live", habit |-> call[c].habit, slot |-> call[c].slot, by |-> c]]
    /\ \/ Answer(c, call[c].id, call[c].slot, call[c].habit)
       \/ /\ TryAgain(c, call[c].id)
          /\ unplanned' = unplanned \cup {call[c].id}
    /\ UNCHANGED <<log, mark, edits, marked>>

\* 429, 5xx or a broken connection on the way there; or an error no retry helps.
InsertFails(c) ==
    /\ At(c, "inserting")
    /\ \/ TryAgain(c, call[c].id)
       \/ call' = [call EXCEPT ![c].pc = "error"]
    /\ UNCHANGED <<event, log, mark, edits, marked, unplanned>>

\* 409: something, perhaps a tombstone, has the id.
InsertConflicts(c) ==
    /\ At(c, "inserting")
    /\ event[call[c].id].state # "absent"
    /\ call' = [call EXCEPT ![c].pc = "conflict"]
    /\ UNCHANGED <<event, log, mark, edits, marked, unplanned>>

\* Faulty: any conflict costs a fresh id, even with a live event.
ResolveByNewId(c) ==
    /\ At(c, "conflict")
    /\ \E f \in Fresh : Unused(f) /\ TryAgain(c, f)
    /\ UNCHANGED <<event, log, mark, edits, marked, unplanned>>

\* A live event with the id is the answer; a tombstone costs a fresh id.
ResolveConflict(c) ==
    /\ At(c, "conflict")
    /\ \/ /\ Live(call[c].id)
          /\ Answer(c, call[c].id, event[call[c].id].slot, call[c].habit)
       \/ /\ ~Live(call[c].id)
          /\ \E f \in Fresh : Unused(f) /\ TryAgain(c, f)
          /\ UNCHANGED unplanned
       \/ /\ call' = [call EXCEPT ![c].pc = "error"]      \* the fetch fails
          /\ UNCHANGED unplanned
    /\ UNCHANGED <<event, log, mark, edits, marked>>

-----------------------------------------------------------------------------
(* update_calendar_event and delete_calendar_event: the event stays where it *)
(* is stored, under its id.  A call that finds no event changes nothing and  *)
(* is not modelled; nor is an update that leaves the time alone.             *)

\* Faulty: the new time is not logged.
UpdateUnlogged(c, id, s) ==
    /\ At(c, "new") /\ Live(id)
    /\ event' = [event EXCEPT ![id].slot = s]
    /\ call' = [call EXCEPT ![c].pc = "success"]
    /\ UNCHANGED <<log, mark, edits, marked, unplanned>>

Update(c, id, s) ==
    /\ At(c, "new") /\ Live(id)
    /\ event' = [event EXCEPT ![id].slot = s]
    /\ \/ Answer(c, id, s, event[id].habit)
       \/ /\ call' = [call EXCEPT ![c].pc = "error"]
          /\ unplanned' = unplanned \cup {id}
    /\ UNCHANGED <<log, mark, edits, marked>>

Delete(c, id) ==
    /\ At(c, "new") /\ Live(id)
    /\ event' = [event EXCEPT ![id].state = "cancelled"]
    /\ call' = [call EXCEPT ![c].pc = "success"]
    /\ unplanned' = unplanned \cup {id}
    /\ UNCHANGED <<log, mark, edits, marked>>

-----------------------------------------------------------------------------
(* HabitSessionRepository.upsert, which _log_habit_session calls. *)

UpsertRead(c) ==
    /\ At(c, "reading")
    /\ call' = [call EXCEPT ![c] = [@ EXCEPT !.pc = "writing", !.known = log[call[c].id].exists]]
    /\ UNCHANGED <<event, log, mark, edits, marked, unplanned>>

\* Faulty: the payload is completed with a status.
MergedWhole(doc, c) ==
    [doc EXCEPT !.exists = TRUE, !.slot = call[c].got, !.status = "pending"]

\* What a merge writes: a document not known before also gets a status.
Merged(doc, c) ==
    [doc EXCEPT !.exists = TRUE, !.slot = call[c].got,
                !.status = IF call[c].known THEN doc.status ELSE "pending"]

UpsertWrite(c) ==
    /\ At(c, "writing")
    /\ log' = [log EXCEPT ![call[c].id] = Merged(@, c)]
    /\ call' = [call EXCEPT ![c].pc = "success"]
    /\ UNCHANGED <<event, mark, edits, marked, unplanned>>

\* Logging is best effort: the tool reports success all the same.
LogFails(c) ==
    /\ At(c, "reading") \/ At(c, "writing")
    /\ call' = [call EXCEPT ![c].pc = "success"]
    /\ unplanned' = unplanned \cup {call[c].id}
    /\ UNCHANGED <<event, log, mark, edits, marked>>

-----------------------------------------------------------------------------
(* set_status: POST /me/habit-sessions/status and mark_habit_session. *)

\* The status a document has already is not written again.
MarkRead(m, id, status) ==
    /\ mark[m].pc = "new"
    /\ log[id].exists
    /\ \/ /\ log[id].status = status
          /\ mark' = [mark EXCEPT ![m].pc = "done"]
          /\ marked' = [marked EXCEPT ![id] = status]
       \/ /\ log[id].status # status
          /\ mark' = [mark EXCEPT ![m] = [pc |-> "writing", id |-> id, status |-> status]]
          /\ UNCHANGED marked
    /\ UNCHANGED <<event, log, call, edits, unplanned>>

MarkWrite(m) ==
    /\ mark[m].pc = "writing"
    /\ LET id == mark[m].id  status == mark[m].status IN
       /\ log' = [log EXCEPT ![id].status = status,
                             ![id].completed_at = (status = "completed")]
       /\ marked' = [marked EXCEPT ![id] = status]
    /\ mark' = [mark EXCEPT ![m].pc = "done"]
    /\ UNCHANGED <<event, call, edits, unplanned>>

\* 404: no session is logged for the event.
MarkMissing(m, id) ==
    /\ mark[m].pc = "new"
    /\ ~log[id].exists
    /\ mark' = [mark EXCEPT ![m].pc = "done"]
    /\ UNCHANGED <<event, log, call, edits, marked, unplanned>>

-----------------------------------------------------------------------------
(* The user's own edits, in Google Calendar. *)

UserEdits(id) ==
    /\ edits < MaxEdits /\ Live(id)
    /\ edits' = edits + 1
    /\ \/ \E s \in Slots \ {event[id].slot} : event' = [event EXCEPT ![id].slot = s]
       \/ event' = [event EXCEPT ![id].state = "cancelled"]
    /\ unplanned' = unplanned \cup {id}
    /\ UNCHANGED <<log, call, mark, marked>>

-----------------------------------------------------------------------------

Init ==
    /\ event = [id \in Ids |-> [state |-> "absent", habit |-> NoHabit,
                                slot |-> NoSlot, by |-> NoCall]]
    /\ log = [id \in Ids |-> [exists |-> FALSE, slot |-> NoSlot,
                              status |-> "pending", completed_at |-> FALSE]]
    /\ call = [c \in Calls |-> [pc |-> "new", habit |-> NoHabit, slot |-> NoSlot,
                                id |-> NoCall, attempt |-> 0, got |-> NoSlot, known |-> FALSE]]
    /\ mark = [m \in Marks |-> [pc |-> "new", id |-> NoCall, status |-> "pending"]]
    /\ edits = 0
    /\ marked = [id \in Ids |-> "pending"]
    /\ unplanned = {}

AddEvent(c) ==
    \/ \E h \in Habits, s \in Slots : AddSession(c, h, s)
    \/ \E s \in Slots : AddAppointment(c, s)
    \/ Insert(c) \/ InsertFails(c) \/ InsertConflicts(c) \/ ResolveConflict(c)

ChangeEvent(c) == \E id \in Ids : Delete(c, id) \/ \E s \in Slots : Update(c, id, s)

LogSession(c) == UpsertRead(c) \/ UpsertWrite(c) \/ LogFails(c)

MarkSession(m) ==
    \E id \in Ids : MarkMissing(m, id) \/ \E status \in Statuses : MarkRead(m, id, status)

SetStatus(m) == MarkSession(m) \/ MarkWrite(m)

Next ==
    \/ \E c \in Calls : AddEvent(c) \/ ChangeEvent(c) \/ LogSession(c)
    \/ \E m \in Marks : SetStatus(m)
    \/ \E id \in Ids : UserEdits(id)

Spec == Init /\ [][Next]_vars

-----------------------------------------------------------------------------
(* compute_habit_review, for a session planned in the period under review: *)
(* only that period's events are fetched.                                   *)

Planned(period) == {id \in Ids : log[id].exists /\ log[id].slot \in period}

\* get_calendar_events, from the calendar's account or without it: one that is
\* deselected, needs reauthentication or is refused a token (409) is skipped, and
\* the answer is a success all the same.
Fetched(period, skipped) ==
    {id \in Ids : ~skipped /\ Live(id) /\ event[id].slot \in period}

Outcome(id, events) ==
    CASE id \notin events -> "gone"
      [] id \in events /\ event[id].slot = log[id].slot -> "kept"
      [] id \in events /\ event[id].slot # log[id].slot -> "moved"

\* What else is at the time that a session was planned for.
Conflicting(id, events) == {other \in events \ {id} : event[other].slot = log[id].slot}

\* Is the first of these a habit's? Of several any may be first.
BumpedByHabit(id, events) ==
    IF Conflicting(id, events) = {} THEN {FALSE}
    ELSE {event[other].habit # NoHabit : other \in Conflicting(id, events)}

\* due: the session was to end before now; zoned: a zone the agent knows of now
\* has the time it was planned for.
Interpretation(id, events, byHabit, due, zoned) ==
    CASE log[id].status = "completed" -> "success"
      [] log[id].status = "pending" -> IF due THEN "ask" ELSE "unknown"
      [] log[id].status = "skipped" ->
           IF Outcome(id, events) = "kept" THEN "acknowledged"
           ELSE IF byHabit \/ zoned THEN "expected" ELSE "possible_signal"

\* What the review may say of a session.
Entries(id, events) ==
    {[status |-> log[id].status, outcome |-> Outcome(id, events),
      interpretation |-> Interpretation(id, events, byHabit, due, zoned)] :
        byHabit \in BumpedByHabit(id, events), due, zoned \in BOOLEAN}

-----------------------------------------------------------------------------
(* Properties. *)

\* Documents, events and what the handlers hold keep their types.
TypeOK ==
    /\ event \in [Ids -> Event]
    /\ log \in [Ids -> Session]
    /\ call \in [Calls -> Call]
    /\ mark \in [Marks -> Mark]
    /\ edits \in 0 .. MaxEdits
    /\ marked \in [Ids -> Statuses]
    /\ unplanned \subseteq Ids

InsertedBy(id, c) == Live(id) /\ event[id].by = c

\* However many attempts one add_calendar_event makes, and whichever of their
\* answers are lost, it never leaves two events on the calendar.
OneEventPerCall ==
    \A c \in Calls, id, other \in Ids :
        InsertedBy(id, c) /\ InsertedBy(other, c) => id = other

\* Asking again for a session that is placed, at once or later, lands on the
\* event that is there: two live events for one habit and time imply that the
\* first one had been deleted.
PlacedOnce ==
    \A c, d \in Calls, id, other \in Ids :
        (/\ InsertedBy(id, c) /\ InsertedBy(other, d) /\ id # other
         /\ call[c].habit # NoHabit
         /\ call[c].habit = call[d].habit /\ call[c].slot = call[d].slot)
        => event[<<call[c].habit, call[c].slot>>].state = "cancelled"

\* A mark stands until the next mark: logging a plan, above all after a
\* reschedule, never changes whether a session counts as done.
MarksSurvive ==
    \A id \in Ids : log[id].exists =>
        /\ log[id].status = marked[id]
        /\ log[id].completed_at = (marked[id] = "completed")

\* Once calls are answered, a review leaves out no session whose logging has not
\* failed; it says "moved" only of one that someone changed, or whose logging
\* failed, after the agent planned it, and "gone" only of such a one or of all
\* when their account was skipped; and only what was marked as done is a success,
\* only what was marked as skipped and looks changed calls for an explanation,
\* whatever else is on the calendar and in the zones.
ReviewIsFair ==
    InFlight = {} =>
        /\ \A id \in Ids \ unplanned :
              Live(id) /\ event[id].habit # NoHabit => log[id].exists
        /\ \A period \in SUBSET Slots, skipped \in BOOLEAN : \A id \in Planned(period) :
              \A entry \in Entries(id, Fetched(period, skipped)) :
                  /\ entry.outcome = "moved" => id \in unplanned
                  /\ entry.outcome = "gone" => skipped \/ id \in unplanned
                  /\ entry.interpretation = "success" <=> marked[id] = "completed"
                  /\ entry.interpretation \in {"expected", "possible_signal"} =>
                        marked[id] = "skipped" /\ (skipped \/ id \in unplanned)

\* A review says "gone" only of an event that was deleted (the docstring of
\* review_habit_week: "gone" is deleted, "moved" is still there).
GoneIsDeleted ==
    \A period \in SUBSET Slots, skipped \in BOOLEAN : \A id \in Planned(period) :
        Outcome(id, Fetched(period, skipped)) = "gone" => event[id].state = "cancelled"

\* An event that add_calendar_event reports as created is at the time asked
\* for (the comment on a 409: "a genuine idempotent replay").
AnswerIsAtSlot ==
    \A c \in Calls : At(c, "success") /\ call[c].slot # NoSlot => call[c].got = call[c].slot

=============================================================================
