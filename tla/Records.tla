--------------------------------- MODULE Records ---------------------------------
(***************************************************************************)
(* The user's standing data in day_planner_backend_app: zones, habits and  *)
(* the one sleep schedule, written by the web (api/routes/zones.py,        *)
(* habits.py, sleep_schedule.py) and by the agent's tools                  *)
(* (zone_tools.py, habit_tools.py, through api/routes/agent.py).           *)
(*                                                                         *)
(* Every handler awaits Firestore between the read that tells whether a    *)
(* document is there and the write that takes it for granted, without a    *)
(* transaction; another request may run in between.                        *)
(***************************************************************************)

CONSTANTS
    Requests,           \* each is made once (bounds a run)
    ZoneIds, HabitIds,  \* the ids that uuid4 may draw
    Sleep,              \* SLEEP_SCHEDULE_DOC_ID
    Texts,              \* fields that from_dict takes for there: label, goal, ...
    Lists,              \* days_of_week, allowed_zones: missing reads as empty
    Unset

ASSUME IdsDiffer ==
    ZoneIds \cap HabitIds = {} /\ Sleep \notin ZoneIds \cup HabitIds
ASSUME FieldsDiffer == Texts \cap Lists = {}
ASSUME UnsetIsNone == Unset \notin Requests

VARIABLES
    doc,                \* the documents in Firestore
    req,                \* the request and its handler
    deleted             \* history: zones that were deleted

recordsVars == <<doc, req, deleted>>

Ids == ZoneIds \cup HabitIds \cup {Sleep}

Fields == Texts \cup Lists

\* Of a field's value it is kept which request wrote it.
Document == [stored : BOOLEAN, created_at : BOOLEAN, by : [Fields -> Requests \cup {Unset}]]

Nowhere == [stored |-> FALSE, created_at |-> FALSE, by |-> [f \in Fields |-> Unset]]

Ops == {"create", "update", "set", "delete", "list", "get"}

\* pc: what the handler does next; told: what its caller has been answered.
Request == [pc : {"new", "insert", "read", "merge", "reread", "remove", "ended"},
            op : Ops, id : Ids, given : SUBSET Fields,
            saw : Document, told : {"nothing", "success", "not_found", "error"}]

RecordsTypeOK ==
    /\ doc \in [Ids -> Document]
    /\ req \in [Requests -> Request]
    /\ deleted \subseteq ZoneIds

RecordsInit ==
    /\ doc = [d \in Ids |-> Nowhere]
    /\ req = [r \in Requests |->
                [pc |-> "new", op |-> "get", id |-> Sleep,
                 given |-> {}, saw |-> Nowhere, told |-> "nothing"]]
    /\ deleted = {}

\* Zone.from_dict: a stored zone without one of these is a KeyError.
ZoneReads(data) == data.created_at /\ \A f \in Texts : data.by[f] # Unset

HabitReads(data) == data.created_at /\ \A f \in Texts : data.by[f] # Unset

SleepReads(data) == data.created_at

Readable(d) ==
    CASE d \in ZoneIds -> ZoneReads(doc[d])
      [] d \in HabitIds -> HabitReads(doc[d])
      [] d = Sleep -> SleepReads(doc[d])

(***************************************************************************)
(* What is asked, of whom.                                                 *)
(***************************************************************************)

Ask(r, pc, op, d, given) ==
    /\ req[r].pc = "new"
    /\ req' = [req EXCEPT ![r] = [pc |-> pc, op |-> op, id |-> d, given |-> given,
                                  saw |-> Nowhere, told |-> "nothing"]]
    /\ UNCHANGED <<doc, deleted>>

\* uuid4 draws an id that nobody has drawn, or asked for.
New(d) == ~doc[d].stored /\ \A r \in Requests : req[r].pc = "new" \/ req[r].id # d

WebCreatesZone(r) ==
    \E d \in ZoneIds : New(d) /\ Ask(r, "insert", "create", d, Fields)

AgentCreatesZone(r) ==
    \E d \in ZoneIds : New(d) /\ Ask(r, "insert", "create", d, Fields)

WebUpdatesZone(r) ==
    \E d \in ZoneIds, given \in SUBSET Fields : Ask(r, "read", "update", d, given)

\* The tool declines an update of nothing; it may name a zone that never was.
AgentUpdatesZone(r) ==
    \E d \in ZoneIds, given \in SUBSET Fields \ {{}} : Ask(r, "read", "update", d, given)

\* The agent has no such tool.
WebDeletesZone(r) ==
    \E d \in ZoneIds : Ask(r, "read", "delete", d, {})

\* A list is asked of the collection: which id it is asked with does not matter.
WebListsZones(r) == \E d \in ZoneIds : Ask(r, "read", "list", d, {})

AgentListsZones(r) == \E d \in ZoneIds : Ask(r, "read", "list", d, {})

\* A habit begins without allowed_zones.
WebCreatesHabit(r) ==
    \E d \in HabitIds : New(d) /\ Ask(r, "insert", "create", d, Texts)

AgentCreatesHabit(r) ==
    \E d \in HabitIds : New(d) /\ Ask(r, "insert", "create", d, Texts)

WebUpdatesHabit(r) ==
    \E d \in HabitIds, given \in SUBSET Fields : Ask(r, "read", "update", d, given)

AgentUpdatesHabit(r) ==
    \E d \in HabitIds, given \in SUBSET Fields \ {{}} : Ask(r, "read", "update", d, given)

WebListsHabits(r) == \E d \in HabitIds : Ask(r, "read", "list", d, {})

AgentListsHabits(r) == \E d \in HabitIds : Ask(r, "read", "list", d, {})

WebSetsSleep(r) == \E given \in SUBSET Fields : Ask(r, "read", "set", Sleep, given)

AgentSetsSleep(r) ==
    \E given \in SUBSET Fields \ {{}} : Ask(r, "read", "set", Sleep, given)

WebGetsSleep(r) == Ask(r, "read", "get", Sleep, {})

AgentGetsSleep(r) == Ask(r, "read", "get", Sleep, {})

(***************************************************************************)
(* The handlers.                                                           *)
(***************************************************************************)

At(r, pc, op) == req[r].pc = pc /\ req[r].op = op

\* A caller that has given up hears no answer.
Ends(r, answer) ==
    req' = [req EXCEPT ![r].pc = "ended",
                       ![r].told = IF req[r].told = "nothing" THEN answer ELSE req[r].told]

Saw(r, pc) == req' = [req EXCEPT ![r].pc = pc, ![r].saw = doc[req[r].id]]

\* create: one write of a whole document, under an id of its own.
Create(r) ==
    /\ At(r, "insert", "create")
    /\ doc' = [doc EXCEPT ![req[r].id] =
                 [stored |-> TRUE, created_at |-> TRUE,
                  by |-> [f \in Fields |-> IF f \in req[r].given THEN r ELSE Unset]]]
    /\ Ends(r, "success")
    /\ UNCHANGED deleted

\* Faulty: an update creates what is not there.
UpdateReadsAnything(r) ==
    /\ At(r, "read", "update")
    /\ Saw(r, "merge")
    /\ UNCHANGED <<doc, deleted>>

\* update: 404 of a document that is not there.
UpdateReads(r) ==
    /\ At(r, "read", "update")
    /\ IF doc[req[r].id].stored THEN Saw(r, "merge") ELSE Ends(r, "not_found")
    /\ UNCHANGED <<doc, deleted>>

\* set, of the sleep schedule: create or update.
SetReads(r) ==
    /\ At(r, "read", "set")
    /\ Saw(r, "merge")
    /\ UNCHANGED <<doc, deleted>>

\* Faulty: the document is written as it was read, with the changes.
MergedAsRead(data, r) ==
    [stored |-> TRUE, created_at |-> data.created_at,
     by |-> [f \in Fields |-> IF f \in req[r].given THEN r ELSE req[r].saw.by[f]]]

\* set(payload, merge=True): the fields given, into whatever is there by now.
Merged(data, r) ==
    [stored |-> TRUE, created_at |-> data.created_at,
     by |-> [f \in Fields |-> IF f \in req[r].given THEN r ELSE data.by[f]]]

UpdateMerges(r) ==
    /\ At(r, "merge", "update")
    /\ doc' = [doc EXCEPT ![req[r].id] = Merged(doc[req[r].id], r)]
    /\ req' = [req EXCEPT ![r].pc = "reread"]
    /\ UNCHANGED deleted

\* created_at goes with the first.
SetMerges(r) ==
    /\ At(r, "merge", "set")
    /\ doc' = [doc EXCEPT ![Sleep] =
                 [Merged(doc[Sleep], r) EXCEPT
                    !.created_at = doc[Sleep].created_at \/ ~req[r].saw.stored]]
    /\ req' = [req EXCEPT ![r].pc = "reread"]
    /\ UNCHANGED deleted

\* The answer is the document as it is by now; one that cannot be read is a 500.
Rereads(r) ==
    /\ req[r].pc = "reread"
    /\ Ends(r, IF doc[req[r].id].stored /\ Readable(req[r].id) THEN "success" ELSE "error")
    /\ UNCHANGED <<doc, deleted>>

DeleteReads(r) ==
    /\ At(r, "read", "delete")
    /\ IF doc[req[r].id].stored THEN Saw(r, "remove") ELSE Ends(r, "not_found")
    /\ UNCHANGED <<doc, deleted>>

Deletes(r) ==
    /\ At(r, "remove", "delete")
    /\ doc' = [doc EXCEPT ![req[r].id] = Nowhere]
    /\ deleted' = deleted \cup {req[r].id}
    /\ Ends(r, "success")

\* One document that cannot be read is a 500 for the whole list.
ListsZones(r) ==
    /\ At(r, "read", "list") /\ req[r].id \in ZoneIds
    /\ Ends(r, IF \A d \in ZoneIds : doc[d].stored => Readable(d) THEN "success" ELSE "error")
    /\ UNCHANGED <<doc, deleted>>

ListsHabits(r) ==
    /\ At(r, "read", "list") /\ req[r].id \in HabitIds
    /\ Ends(r, IF \A d \in HabitIds : doc[d].stored => Readable(d) THEN "success" ELSE "error")
    /\ UNCHANGED <<doc, deleted>>

GetsSleep(r) ==
    /\ At(r, "read", "get")
    /\ Ends(r, IF doc[Sleep].stored => Readable(Sleep) THEN "success" ELSE "error")
    /\ UNCHANGED <<doc, deleted>>

\* The caller's timeout: the handler, if it has the request, goes on.
CallerGivesUp(r) ==
    /\ req[r].pc # "new" /\ req[r].told = "nothing"
    /\ req' = [req EXCEPT ![r].told = "error"]
    /\ UNCHANGED <<doc, deleted>>

\* The request does not arrive, the schema refuses it, Firestore raises, or the
\* process of the handler stops.
Fails(r) ==
    /\ req[r].pc \notin {"new", "ended"}
    /\ Ends(r, "error")
    /\ UNCHANGED <<doc, deleted>>

Asks(r) ==
    \/ WebCreatesZone(r) \/ AgentCreatesZone(r) \/ WebUpdatesZone(r) \/ AgentUpdatesZone(r)
    \/ WebDeletesZone(r) \/ WebListsZones(r) \/ AgentListsZones(r)
    \/ WebCreatesHabit(r) \/ AgentCreatesHabit(r) \/ WebUpdatesHabit(r) \/ AgentUpdatesHabit(r)
    \/ WebListsHabits(r) \/ AgentListsHabits(r)
    \/ WebSetsSleep(r) \/ AgentSetsSleep(r) \/ WebGetsSleep(r) \/ AgentGetsSleep(r)

\* The routes, of the web and of the agent, hand a request to a repository and
\* answer with what it returns.
HandlesZone(r) ==
    /\ req[r].id \in ZoneIds
    /\ \/ Create(r) \/ UpdateReads(r) \/ UpdateMerges(r) \/ Rereads(r)
       \/ DeleteReads(r) \/ Deletes(r) \/ ListsZones(r)

HandlesHabit(r) ==
    /\ req[r].id \in HabitIds
    /\ Create(r) \/ UpdateReads(r) \/ UpdateMerges(r) \/ Rereads(r) \/ ListsHabits(r)

HandlesSleep(r) ==
    /\ req[r].id = Sleep
    /\ SetReads(r) \/ SetMerges(r) \/ Rereads(r) \/ GetsSleep(r)

RecordsNext ==
    \E r \in Requests :
        \/ Asks(r)
        \/ HandlesZone(r) \/ HandlesHabit(r) \/ HandlesSleep(r)
        \/ CallerGivesUp(r) \/ Fails(r)

RecordsSpec == RecordsInit /\ [][RecordsNext]_recordsVars

(***************************************************************************)
(* Properties.                                                             *)
(***************************************************************************)

\* A document that is there can be read, by its handlers and in its list, unless
\* it is a zone that was deleted while an update of it was under way: whatever
\* updates, first settings of the sleep schedule, guessed ids and failures meet,
\* none leaves part of a document behind (ZoneRepository.update,
\* HabitRepository.update, SleepScheduleRepository.set).
DocumentsReadable ==
    \A d \in Ids : doc[d].stored => Readable(d) \/ d \in deleted

\* A value that was replaced does not come back: a field changes to the value of
\* a request that was given the field and had not written it before, so that an
\* update undoes no other that came between its read and its merge.
NoUpdateUndone ==
    [][\A d \in Ids, f \in Fields :
         (doc[d].stored /\ doc'[d].stored /\ doc'[d].by[f] # doc[d].by[f])
         => \E r \in Requests :
              doc'[d].by[f] = r /\ req[r].pc = "merge" /\ f \in req[r].given]_recordsVars

\* A zone that was deleted is gone: nothing brings it back under its id (the
\* docstring of ZoneRepository.update promises "same 404-vs-silent-create
\* reasoning as HabitRepository.update", that of delete that it "is safe here").
DeletedZonesStayGone == \A d \in deleted : ~doc[d].stored

\* "On error, the zone was not created" (the docstring of create_zone).
ErrorMeansNotCreated ==
    \A r \in Requests :
        (req[r].op = "create" /\ req[r].told = "error" /\ req[r].pc = "ended")
        => \A f \in Fields : doc[req[r].id].by[f] # r

=============================================================================
