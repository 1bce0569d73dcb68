------------------------- MODULE HabitSessionsProofs -------------------------
(***************************************************************************)
(* Theorems about HabitSessions, for any habits, times, calls and marks,   *)
(* any number of attempts and of edits by the user.                        *)
(***************************************************************************)
EXTENDS MCHabitSessions, TLAPS

\* What a call holds by the stage it is at.
Held(q) ==
    /\ q.pc = "new" => q.habit = NoHabit
    /\ q.pc \in {"inserting", "conflict"} => q.id \in Ids /\ q.slot \in Slots
    /\ q.pc \in {"reading", "writing"} => q.id \in Ids /\ q.got \in Slots

CallsHold == \A c \in Calls : Held(call[c])

MarksHold == \A m \in Marks : mark[m].pc = "writing" => mark[m].id \in Ids

LiveAtSlots == \A id \in Ids : Live(id) => event[id].slot \in Slots

TypeInv == TypeOK /\ CallsHold /\ MarksHold /\ LiveAtSlots

\* The one live event of a call is the one it names.
OwnEvent(c) == \A id \in Ids : InsertedBy(id, c) => ~At(c, "new") /\ call[c].id = id

\* A session's call only ever left the hashed id for a tombstone.
HashedFirst(c) ==
    LET hashed == <<call[c].habit, call[c].slot>> IN
    call[c].habit # NoHabit =>
        /\ call[c].slot \in Slots
        /\ call[c].id = hashed \/ event[hashed].state = "cancelled"

ConflictIsReal(c) == At(c, "conflict") => event[call[c].id].state # "absent"

CallInv == \A c \in Calls : OwnEvent(c) /\ HashedFirst(c) /\ ConflictIsReal(c)

SessionsInv == TypeInv /\ CallInv

-----------------------------------------------------------------------------
(* Steps of one call. *)

LEMMA CallPut ==
    ASSUME TypeInv, NEW c \in Calls, NEW q \in Call, Held(q),
           call' = [call EXCEPT ![c] = q]
    PROVE  /\ call' \in [Calls -> Call]
           /\ call'[c] = q /\ \A d \in Calls : d # c => call'[d] = call[d]
           /\ CallsHold'
  BY DEF TypeInv, TypeOK, CallsHold

LEMMA HashedIds == \A h \in Habits, s \in Slots : <<h, s>> \in Ids
  BY DEF Ids

\* A call that goes on with its event, or ends.
LEMMA SameEvent ==
    ASSUME SessionsInv, NEW c \in Calls, NEW q \in Call, Held(q),
           call' = [call EXCEPT ![c] = q], event' = event,
           q.pc # "new", q.id = call[c].id, q.habit = call[c].habit, q.slot = call[c].slot,
           q.pc = "conflict" => event[q.id].state # "absent"
    PROVE  call' \in [Calls -> Call] /\ CallsHold' /\ CallInv'
<1>1. /\ call' \in [Calls -> Call] /\ CallsHold'
      /\ call'[c] = q /\ \A d \in Calls : d # c => call'[d] = call[d]
  BY CallPut DEF SessionsInv
<1>2. ASSUME NEW d \in Calls
      PROVE  OwnEvent(d)' /\ HashedFirst(d)' /\ ConflictIsReal(d)'
  <2>1. OwnEvent(d) /\ HashedFirst(d) /\ ConflictIsReal(d)
    BY DEF SessionsInv, CallInv
  <2>2. CASE d = c
    BY <1>1, <2>1, <2>2 DEF OwnEvent, HashedFirst, ConflictIsReal, InsertedBy, Live, At
  <2>3. CASE d # c
    BY <1>1, <2>1, <2>3 DEF OwnEvent, HashedFirst, ConflictIsReal, InsertedBy, Live, At
  <2> QED BY <2>2, <2>3
<1> QED BY <1>1, <1>2 DEF CallInv

\* A call that leaves a tombstone for an id nothing carries.
LEMMA NewEvent ==
    ASSUME SessionsInv, NEW c \in Calls, NEW q \in Call, Held(q),
           call' = [call EXCEPT ![c] = q], event' = event,
           q.pc = "inserting", At(c, "conflict"), ~Live(call[c].id),
           q.habit = call[c].habit, q.slot = call[c].slot
    PROVE  call' \in [Calls -> Call] /\ CallsHold' /\ CallInv'
<1>1. /\ call' \in [Calls -> Call] /\ CallsHold'
      /\ call'[c] = q /\ \A d \in Calls : d # c => call'[d] = call[d]
  BY CallPut DEF SessionsInv
<1>2. event[call[c].id].state = "cancelled"
  BY DEF SessionsInv, TypeInv, TypeOK, CallsHold, Held, CallInv, ConflictIsReal, At, Live, Event
<1>3. ASSUME NEW d \in Calls
      PROVE  OwnEvent(d)' /\ HashedFirst(d)' /\ ConflictIsReal(d)'
  <2>1. OwnEvent(d) /\ HashedFirst(d) /\ ConflictIsReal(d)
    BY DEF SessionsInv, CallInv
  <2>2. CASE d = c
    BY <1>1, <1>2, <2>1, <2>2 DEF OwnEvent, HashedFirst, ConflictIsReal, InsertedBy, Live, At
  <2>3. CASE d # c
    BY <1>1, <2>1, <2>3 DEF OwnEvent, HashedFirst, ConflictIsReal, InsertedBy, Live, At
  <2> QED BY <2>2, <2>3
<1> QED BY <1>1, <1>3 DEF CallInv

\* Changing events without making any live or any tombstone disappear.
LEMMA EventsOnly ==
    ASSUME SessionsInv, call' = call,
           \A id \in Ids : Live(id)' => Live(id) /\ event'[id].by = event[id].by,
           \A id \in Ids : event[id].state = "cancelled" => event'[id].state = "cancelled",
           \A id \in Ids : event[id].state # "absent" => event'[id].state # "absent"
    PROVE  CallsHold' /\ CallInv'
<1>1. CallsHold'
  BY DEF SessionsInv, TypeInv, CallsHold
<1>2. ASSUME NEW d \in Calls
      PROVE  OwnEvent(d)' /\ HashedFirst(d)' /\ ConflictIsReal(d)'
  <2>1. OwnEvent(d) /\ HashedFirst(d) /\ ConflictIsReal(d) /\ call[d] \in Call /\ Held(call[d])
    BY DEF SessionsInv, CallInv, TypeInv, TypeOK, CallsHold
  <2>2. OwnEvent(d)'
    BY <2>1 DEF OwnEvent, InsertedBy, At
  <2>3. HashedFirst(d)'
    BY <2>1, HashedIds DEF HashedFirst, Call
  <2>4. ConflictIsReal(d)'
    BY <2>1 DEF ConflictIsReal, At, Held
  <2> QED BY <2>2, <2>3, <2>4
<1> QED BY <1>1, <1>2 DEF CallInv

-----------------------------------------------------------------------------
(* What the shared parts of the handlers leave in a call. *)

LEMMA TryAgainPut ==
    ASSUME TypeInv, NEW c \in Calls, NEW id \in Ids, call[c].slot \in Slots, TryAgain(c, id)
    PROVE  \E q \in Call :
             /\ Held(q) /\ call' = [call EXCEPT ![c] = q]
             /\ q.habit = call[c].habit /\ q.slot = call[c].slot
             /\ \/ q.pc = "inserting" /\ q.id = id
                \/ q.pc = "error" /\ q.id = call[c].id
<1> DEFINE more == call[c].attempt + 1
           again == [call[c] EXCEPT !.pc = "inserting", !.id = id, !.attempt = more]
           over == [call[c] EXCEPT !.pc = "error"]
<1>1. call[c] \in Call
  BY DEF TypeInv, TypeOK
<1>2. call' = [call EXCEPT ![c] = IF call[c].attempt < MaxAttempts THEN again ELSE over]
  BY DEF TryAgain
<1>3. CASE call[c].attempt < MaxAttempts
  <2>1. more \in 0 .. MaxAttempts
    BY <1>1, <1>3, AttemptsArePositive DEF Call
  <2> HIDE DEF more
  <2>2. /\ again \in Call /\ again.pc = "inserting" /\ again.id = id
        /\ again.habit = call[c].habit /\ again.slot = call[c].slot
    BY <1>1, <2>1 DEF Call
  <2> HIDE DEF again
  <2>3. Held(again)
    BY <2>2 DEF Held
  <2> QED BY <1>2, <1>3, <2>2, <2>3
<1>4. CASE ~(call[c].attempt < MaxAttempts)
  <2>1. /\ over \in Call /\ over.pc = "error" /\ over.id = call[c].id
        /\ over.habit = call[c].habit /\ over.slot = call[c].slot
    BY <1>1 DEF Call
  <2> HIDE DEF over
  <2>2. Held(over)
    BY <2>1 DEF Held
  <2> HIDE DEF again
  <2> QED BY <1>2, <1>4, <2>1, <2>2
<1> QED BY <1>3, <1>4

LEMMA AnswerPut ==
    ASSUME TypeInv, NEW c \in Calls, NEW id \in Ids, NEW slot \in Slots,
           NEW habit \in Habits \cup {NoHabit}, Answer(c, id, slot, habit)
    PROVE  /\ unplanned' \subseteq Ids /\ unplanned' = unplanned \ {id}
           /\ \E q \in Call :
                /\ Held(q) /\ call' = [call EXCEPT ![c] = q]
                /\ q.pc \in {"success", "reading"} /\ q.id = id
                /\ q.habit = call[c].habit /\ q.slot = call[c].slot
                /\ q.got = slot /\ (q.pc = "reading") = (habit # NoHabit)
<1> DEFINE next == IF habit = NoHabit THEN "success" ELSE "reading"
           q == [call[c] EXCEPT !.pc = next, !.id = id, !.got = slot]
<1>1. /\ call[c] \in Call /\ next \in {"success", "reading"}
      /\ (next = "reading") = (habit # NoHabit)
  BY DEF TypeInv, TypeOK
<1>2. /\ call' = [call EXCEPT ![c] = q] /\ unplanned' \subseteq Ids
      /\ unplanned' = unplanned \ {id}
  BY DEF Answer, TypeInv, TypeOK
<1> HIDE DEF next
<1>3. /\ q \in Call /\ q.pc = next /\ q.id = id /\ q.got = slot
      /\ q.habit = call[c].habit /\ q.slot = call[c].slot
  BY <1>1 DEF Call
<1> HIDE DEF q
<1>4. Held(q)
  BY <1>1, <1>3 DEF Held
<1> QED BY <1>1, <1>2, <1>3, <1>4

\* Moving a call to another stage.
LEMMA StagePut ==
    ASSUME TypeInv, NEW c \in Calls, NEW pc \in {"conflict", "success", "error"},
           call' = [call EXCEPT ![c].pc = pc],
           pc = "conflict" => call[c].id \in Ids /\ call[c].slot \in Slots
    PROVE  \E q \in Call :
             /\ Held(q) /\ call' = [call EXCEPT ![c] = q]
             /\ q.pc = pc /\ q.id = call[c].id
             /\ q.habit = call[c].habit /\ q.slot = call[c].slot
<1> DEFINE q == [call[c] EXCEPT !.pc = pc]
<1>1. call[c] \in Call
  BY DEF TypeInv, TypeOK
<1>2. /\ q \in Call /\ q.pc = pc /\ q.id = call[c].id
      /\ q.habit = call[c].habit /\ q.slot = call[c].slot
  BY <1>1 DEF Call
<1>3. call' = [call EXCEPT ![c] = q]
  BY DEF TypeInv, TypeOK
<1> HIDE DEF q
<1>4. Held(q)
  BY <1>2 DEF Held
<1> QED BY <1>2, <1>3, <1>4

-----------------------------------------------------------------------------
(* One lemma per action. *)

LEMMA BeginStep ==
    ASSUME SessionsInv, NEW c \in Calls, NEW h \in Habits \cup {NoHabit}, NEW s \in Slots,
           NEW id \in Ids, h # NoHabit => id = <<h, s>>, Begin(c, h, s, id)
    PROVE  SessionsInv'
<1> DEFINE q == [call[c] EXCEPT !.pc = "inserting", !.habit = h, !.slot = s, !.id = id,
                                !.attempt = 1]
<1>1. call[c] \in Call /\ call[c].pc = "new"
  BY DEF SessionsInv, TypeInv, TypeOK, Begin, At
<1>2. 1 \in 0 .. MaxAttempts
  BY AttemptsArePositive
<1>3. q \in Call /\ q.pc = "inserting" /\ q.habit = h /\ q.slot = s /\ q.id = id
  BY <1>1, <1>2 DEF Call
<1>4. call' = [call EXCEPT ![c] = q]
  BY DEF Begin
<1>5. UNCHANGED <<event, log, mark, edits, marked, unplanned>>
  BY DEF Begin
<1> HIDE DEF q
<1>6. Held(q)
  BY <1>3 DEF Held
<1>7. /\ call' \in [Calls -> Call] /\ CallsHold'
      /\ call'[c] = q /\ \A d \in Calls : d # c => call'[d] = call[d]
  BY <1>3, <1>4, <1>6, CallPut DEF SessionsInv
<1>8. TypeInv'
  BY <1>5, <1>7 DEF SessionsInv, TypeInv, TypeOK, MarksHold, LiveAtSlots, Live
<1>9. ASSUME NEW d \in Calls
      PROVE  OwnEvent(d)' /\ HashedFirst(d)' /\ ConflictIsReal(d)'
  <2>1. OwnEvent(d) /\ HashedFirst(d) /\ ConflictIsReal(d)
    BY DEF SessionsInv, CallInv
  <2>2. CASE d = c
    BY <1>1, <1>3, <1>5, <1>7, <2>1, <2>2
      DEF OwnEvent, HashedFirst, ConflictIsReal, InsertedBy, Live, At
  <2>3. CASE d # c
    BY <1>5, <1>7, <2>1, <2>3 DEF OwnEvent, HashedFirst, ConflictIsReal, InsertedBy, Live, At
  <2> QED BY <2>2, <2>3
<1> QED BY <1>8, <1>9 DEF SessionsInv, CallInv

\* What is left to show of a step that leaves the calendar and the log alone.
LEMMA OnlyCalls ==
    ASSUME SessionsInv, UNCHANGED <<event, log, mark, edits, marked>>,
           unplanned' \subseteq Ids, call' \in [Calls -> Call], CallsHold', CallInv'
    PROVE  SessionsInv'
  BY DEF SessionsInv, TypeInv, TypeOK, MarksHold, LiveAtSlots, Live

LEMMA InsertFailsStep ==
    ASSUME SessionsInv, NEW c \in Calls, InsertFails(c)
    PROVE  SessionsInv'
<1>1. call[c].pc = "inserting" /\ call[c].id \in Ids /\ call[c].slot \in Slots
  BY DEF SessionsInv, TypeInv, CallsHold, Held, InsertFails, At
<1>2. UNCHANGED <<event, log, mark, edits, marked>> /\ unplanned' \subseteq Ids
  BY DEF InsertFails, SessionsInv, TypeInv, TypeOK
<1>3. PICK q \in Call :
        /\ Held(q) /\ call' = [call EXCEPT ![c] = q]
        /\ q.pc \in {"inserting", "error"} /\ q.id = call[c].id
        /\ q.habit = call[c].habit /\ q.slot = call[c].slot
  <2>1. CASE TryAgain(c, call[c].id)
    BY <1>1, <2>1, TryAgainPut DEF SessionsInv
  <2>2. CASE call' = [call EXCEPT ![c].pc = "error"]
    BY <2>2, StagePut DEF SessionsInv
  <2> QED BY <2>1, <2>2 DEF InsertFails
<1> QED BY <1>2, <1>3, SameEvent, OnlyCalls

LEMMA InsertConflictsStep ==
    ASSUME SessionsInv, NEW c \in Calls, InsertConflicts(c)
    PROVE  SessionsInv'
<1>1. call[c].pc = "inserting" /\ call[c].id \in Ids /\ call[c].slot \in Slots
  BY DEF SessionsInv, TypeInv, CallsHold, Held, InsertConflicts, At
<1>2. /\ UNCHANGED <<event, log, mark, edits, marked>> /\ unplanned' \subseteq Ids
      /\ event[call[c].id].state # "absent"
  BY DEF InsertConflicts, SessionsInv, TypeInv, TypeOK
<1>3. PICK q \in Call :
        /\ Held(q) /\ call' = [call EXCEPT ![c] = q]
        /\ q.pc = "conflict" /\ q.id = call[c].id
        /\ q.habit = call[c].habit /\ q.slot = call[c].slot
  BY <1>1, StagePut DEF InsertConflicts, SessionsInv
<1> QED BY <1>2, <1>3, SameEvent, OnlyCalls

LEMMA ResolveConflictStep ==
    ASSUME SessionsInv, NEW c \in Calls, ResolveConflict(c)
    PROVE  SessionsInv'
<1>1. /\ call[c].pc = "conflict" /\ call[c].id \in Ids /\ call[c].slot \in Slots
      /\ call[c].habit \in Habits \cup {NoHabit}
  BY DEF SessionsInv, TypeInv, TypeOK, CallsHold, Held, ResolveConflict, At, Call
<1>2. UNCHANGED <<event, log, mark, edits, marked>>
  BY DEF ResolveConflict
<1>3. CASE Live(call[c].id) /\ Answer(c, call[c].id, event[call[c].id].slot, call[c].habit)
  <2>1. event[call[c].id].slot \in Slots
    BY <1>1, <1>3 DEF SessionsInv, TypeInv, LiveAtSlots
  <2>2. unplanned' \subseteq Ids
    BY <1>1, <1>3, <2>1, AnswerPut DEF SessionsInv
  <2>3. PICK q \in Call :
          /\ Held(q) /\ call' = [call EXCEPT ![c] = q]
          /\ q.pc \in {"success", "reading"} /\ q.id = call[c].id
          /\ q.habit = call[c].habit /\ q.slot = call[c].slot
    BY <1>1, <1>3, <2>1, AnswerPut DEF SessionsInv
  <2> QED BY <1>2, <2>2, <2>3, SameEvent, OnlyCalls
<1>4. CASE /\ ~Live(call[c].id) /\ UNCHANGED unplanned
           /\ \E f \in Fresh : Unused(f) /\ TryAgain(c, f)
  <2>1. PICK f \in Fresh : TryAgain(c, f)
    BY <1>4
  <2>2. f \in Ids
    BY DEF Ids
  <2>3. PICK q \in Call :
          /\ Held(q) /\ call' = [call EXCEPT ![c] = q]
          /\ q.habit = call[c].habit /\ q.slot = call[c].slot
          /\ \/ q.pc = "inserting" /\ q.id = f
             \/ q.pc = "error" /\ q.id = call[c].id
    BY <1>1, <2>1, <2>2, TryAgainPut DEF SessionsInv
  <2>4. unplanned' \subseteq Ids
    BY <1>4 DEF SessionsInv, TypeInv, TypeOK
  <2>5. CASE q.pc = "inserting"
    BY <1>1, <1>2, <1>4, <2>3, <2>4, <2>5, NewEvent, OnlyCalls DEF At
  <2>6. CASE q.pc = "error" /\ q.id = call[c].id
    BY <1>2, <2>3, <2>4, <2>6, SameEvent, OnlyCalls
  <2> QED BY <2>3, <2>5, <2>6
<1>5. CASE call' = [call EXCEPT ![c].pc = "error"] /\ UNCHANGED unplanned
  <2>1. PICK q \in Call :
          /\ Held(q) /\ call' = [call EXCEPT ![c] = q]
          /\ q.pc = "error" /\ q.id = call[c].id
          /\ q.habit = call[c].habit /\ q.slot = call[c].slot
    BY <1>5, StagePut DEF SessionsInv
  <2>2. unplanned' \subseteq Ids
    BY <1>5 DEF SessionsInv, TypeInv, TypeOK
  <2> QED BY <1>2, <2>1, <2>2, SameEvent, OnlyCalls
<1> QED BY <1>3, <1>4, <1>5 DEF ResolveConflict

LEMMA InsertStep ==
    ASSUME SessionsInv, NEW c \in Calls, Insert(c)
    PROVE  SessionsInv'
<1> DEFINE i == call[c].id
           e == [state |-> "live", habit |-> call[c].habit, slot |-> call[c].slot, by |-> c]
<1>1. /\ call[c] \in Call /\ call[c].pc = "inserting" /\ i \in Ids
      /\ call[c].slot \in Slots /\ call[c].habit \in Habits \cup {NoHabit}
  BY DEF SessionsInv, TypeInv, TypeOK, CallsHold, Held, Insert, At, Call
<1>2. /\ event[i].state = "absent" /\ event' = [event EXCEPT ![i] = e]
      /\ UNCHANGED <<log, mark, edits, marked>>
  BY DEF Insert
<1>3. e \in Event /\ e.state = "live" /\ e.by = c /\ e.slot \in Slots
  BY <1>1 DEF Event
<1>4. /\ unplanned' \subseteq Ids
      /\ \E q \in Call :
           /\ Held(q) /\ call' = [call EXCEPT ![c] = q]
           /\ q.pc \in {"inserting", "success", "reading", "error"} /\ q.id = i
           /\ q.habit = call[c].habit /\ q.slot = call[c].slot
  <2>1. CASE Answer(c, i, call[c].slot, call[c].habit)
    BY <1>1, <2>1, AnswerPut DEF SessionsInv
  <2>2. CASE TryAgain(c, i) /\ unplanned' = unplanned \cup {i}
    <3>1. unplanned' \subseteq Ids
      BY <1>1, <2>2 DEF SessionsInv, TypeInv, TypeOK
    <3> HIDE DEF i
    <3>2. PICK q \in Call :
           /\ Held(q) /\ call' = [call EXCEPT ![c] = q]
           /\ q.habit = call[c].habit /\ q.slot = call[c].slot
           /\ \/ q.pc = "inserting" /\ q.id = i
              \/ q.pc = "error" /\ q.id = call[c].id
      BY <1>1, <2>2, TryAgainPut DEF SessionsInv
    <3> QED BY <3>1, <3>2 DEF i
  <2> QED BY <2>1, <2>2 DEF Insert
<1>5. PICK q \in Call :
        /\ Held(q) /\ call' = [call EXCEPT ![c] = q]
        /\ q.pc \in {"inserting", "success", "reading", "error"} /\ q.id = i
        /\ q.habit = call[c].habit /\ q.slot = call[c].slot
  BY <1>4
<1>6. /\ call' \in [Calls -> Call] /\ CallsHold'
      /\ call'[c] = q /\ \A d \in Calls : d # c => call'[d] = call[d]
  BY <1>5, CallPut DEF SessionsInv
<1> HIDE DEF e
<1>7. /\ event' \in [Ids -> Event] /\ event'[i] = e
      /\ \A id \in Ids : id # i => event'[id] = event[id]
  BY <1>1, <1>2, <1>3 DEF SessionsInv, TypeInv, TypeOK
<1>8. TypeInv'
  BY <1>2, <1>3, <1>4, <1>6, <1>7 DEF SessionsInv, TypeInv, TypeOK, MarksHold, LiveAtSlots, Live
<1>9. ASSUME NEW d \in Calls
      PROVE  OwnEvent(d)' /\ HashedFirst(d)' /\ ConflictIsReal(d)'
  <2>1. /\ OwnEvent(d) /\ HashedFirst(d) /\ ConflictIsReal(d)
        /\ call[d] \in Call /\ Held(call[d])
    BY DEF SessionsInv, CallInv, TypeInv, TypeOK, CallsHold
  <2>2. CASE d = c
    <3>1. OwnEvent(d)'
      BY <1>1, <1>3, <1>5, <1>6, <1>7, <2>1, <2>2 DEF OwnEvent, InsertedBy, Live, At
    <3>2. HashedFirst(d)'
      BY <1>1, <1>2, <1>5, <1>6, <1>7, <2>1, <2>2, HashedIds DEF HashedFirst, Call
    <3>3. ConflictIsReal(d)'
      BY <1>5, <1>6, <2>2 DEF ConflictIsReal, At
    <3> QED BY <3>1, <3>2, <3>3
  <2>3. CASE d # c
    <3>1. OwnEvent(d)'
      BY <1>3, <1>6, <1>7, <2>1, <2>3 DEF OwnEvent, InsertedBy, Live, At
    <3>2. HashedFirst(d)'
      BY <1>2, <1>6, <1>7, <2>1, <2>3, HashedIds DEF HashedFirst, Call
    <3>3. ConflictIsReal(d)'
      BY <1>2, <1>3, <1>6, <1>7, <2>1, <2>3 DEF ConflictIsReal, At, Held
    <3> QED BY <3>1, <3>2, <3>3
  <2> QED BY <2>2, <2>3
<1> QED BY <1>8, <1>9 DEF SessionsInv, CallInv

LEMMA UpdateStep ==
    ASSUME SessionsInv, NEW c \in Calls, NEW id \in Ids, NEW s \in Slots, Update(c, id, s)
    PROVE  SessionsInv'
<1>1. /\ call[c] \in Call /\ call[c].pc = "new" /\ call[c].habit = NoHabit
      /\ Live(id) /\ event[id] \in Event
  BY DEF SessionsInv, TypeInv, TypeOK, CallsHold, Held, Update, At
<1>2. /\ event' = [event EXCEPT ![id].slot = s]
      /\ UNCHANGED <<log, mark, edits, marked>>
  BY DEF Update
<1>3. /\ event' \in [Ids -> Event] /\ event'[id].slot = s
      /\ \A i \in Ids : /\ event'[i].state = event[i].state /\ event'[i].by = event[i].by
                        /\ i # id => event'[i].slot = event[i].slot
  BY <1>1, <1>2 DEF SessionsInv, TypeInv, TypeOK, Event
<1>4. event[id].habit \in Habits \cup {NoHabit}
  BY <1>1 DEF Event
<1>5. /\ unplanned' \subseteq Ids
      /\ \E q \in Call :
           /\ Held(q) /\ call' = [call EXCEPT ![c] = q]
           /\ q.pc \in {"success", "reading", "error"} /\ q.habit = NoHabit
  <2>1. CASE Answer(c, id, s, event[id].habit)
    BY <1>1, <1>4, <2>1, AnswerPut DEF SessionsInv
  <2>2. CASE call' = [call EXCEPT ![c].pc = "error"] /\ unplanned' = unplanned \cup {id}
    <3>1. unplanned' \subseteq Ids
      BY <2>2 DEF SessionsInv, TypeInv, TypeOK
    <3> QED BY <1>1, <2>2, <3>1, StagePut DEF SessionsInv
  <2> QED BY <2>1, <2>2 DEF Update
<1>6. PICK q \in Call :
        /\ Held(q) /\ call' = [call EXCEPT ![c] = q]
        /\ q.pc \in {"success", "reading", "error"} /\ q.habit = NoHabit
  BY <1>5
<1>7. /\ call' \in [Calls -> Call] /\ CallsHold'
      /\ call'[c] = q /\ \A d \in Calls : d # c => call'[d] = call[d]
  BY <1>6, CallPut DEF SessionsInv
<1>8. TypeInv'
  BY <1>2, <1>3, <1>5, <1>7 DEF SessionsInv, TypeInv, TypeOK, MarksHold, LiveAtSlots, Live
<1>9. ASSUME NEW d \in Calls
      PROVE  OwnEvent(d)' /\ HashedFirst(d)' /\ ConflictIsReal(d)'
  <2>1. /\ OwnEvent(d) /\ HashedFirst(d) /\ ConflictIsReal(d)
        /\ call[d] \in Call /\ Held(call[d])
    BY DEF SessionsInv, CallInv, TypeInv, TypeOK, CallsHold
  <2>2. CASE d = c
    BY <1>1, <1>3, <1>6, <1>7, <2>1, <2>2
      DEF OwnEvent, HashedFirst, ConflictIsReal, InsertedBy, Live, At
  <2>3. CASE d # c
    <3>1. OwnEvent(d)'
      BY <1>3, <1>7, <2>1, <2>3 DEF OwnEvent, InsertedBy, Live, At
    <3>2. HashedFirst(d)'
      BY <1>3, <1>7, <2>1, <2>3, HashedIds DEF HashedFirst, Call
    <3>3. ConflictIsReal(d)'
      BY <1>3, <1>7, <2>1, <2>3 DEF ConflictIsReal, At, Held
    <3> QED BY <3>1, <3>2, <3>3
  <2> QED BY <2>2, <2>3
<1> QED BY <1>8, <1>9 DEF SessionsInv, CallInv

\* Deleting events by a step that moves no call.
LEMMA Cancelled ==
    ASSUME SessionsInv, NEW id \in Ids, Live(id),
           event' = [event EXCEPT ![id].state = "cancelled"]
    PROVE  /\ event' \in [Ids -> Event] /\ event'[id].state = "cancelled"
           /\ \A i \in Ids : /\ event'[i].by = event[i].by /\ event'[i].slot = event[i].slot
                             /\ event'[i].habit = event[i].habit
                             /\ i # id => event'[i].state = event[i].state
  BY DEF SessionsInv, TypeInv, TypeOK, Event

LEMMA DeleteStep ==
    ASSUME SessionsInv, NEW c \in Calls, NEW id \in Ids, Delete(c, id)
    PROVE  SessionsInv'
<1>1. /\ call[c].pc = "new" /\ call[c].habit = NoHabit /\ Live(id)
      /\ UNCHANGED <<log, mark, edits, marked>>
  BY DEF SessionsInv, TypeInv, CallsHold, Held, Delete, At
<1>2. /\ event' \in [Ids -> Event] /\ event'[id].state = "cancelled"
      /\ \A i \in Ids : /\ event'[i].by = event[i].by /\ event'[i].slot = event[i].slot
                        /\ i # id => event'[i].state = event[i].state
  BY Cancelled DEF Delete
<1>3. unplanned' \subseteq Ids
  BY DEF Delete, SessionsInv, TypeInv, TypeOK
<1>4. PICK q \in Call :
        /\ Held(q) /\ call' = [call EXCEPT ![c] = q]
        /\ q.pc = "success" /\ q.habit = NoHabit
  BY <1>1, StagePut DEF Delete, SessionsInv
<1>5. /\ call' \in [Calls -> Call] /\ CallsHold'
      /\ call'[c] = q /\ \A d \in Calls : d # c => call'[d] = call[d]
  BY <1>4, CallPut DEF SessionsInv
<1>6. TypeInv'
  BY <1>1, <1>2, <1>3, <1>5 DEF SessionsInv, TypeInv, TypeOK, MarksHold, LiveAtSlots, Live
<1>7. ASSUME NEW d \in Calls
      PROVE  OwnEvent(d)' /\ HashedFirst(d)' /\ ConflictIsReal(d)'
  <2>1. /\ OwnEvent(d) /\ HashedFirst(d) /\ ConflictIsReal(d)
        /\ call[d] \in Call /\ Held(call[d])
    BY DEF SessionsInv, CallInv, TypeInv, TypeOK, CallsHold
  <2>2. OwnEvent(d)'
    <3>1. CASE d = c
      BY <1>1, <1>2, <2>1, <3>1 DEF OwnEvent, InsertedBy, Live, At
    <3>2. CASE d # c
      BY <1>2, <1>5, <2>1, <3>2 DEF OwnEvent, InsertedBy, Live, At
    <3> QED BY <3>1, <3>2
  <2>3. HashedFirst(d)'
    <3>1. CASE d = c
      BY <1>4, <1>5, <3>1 DEF HashedFirst
    <3>2. CASE d # c
      BY <1>2, <1>5, <2>1, <3>2, HashedIds DEF HashedFirst, Call
    <3> QED BY <3>1, <3>2
  <2>4. ConflictIsReal(d)'
    <3>1. CASE d = c
      BY <1>4, <1>5, <3>1 DEF ConflictIsReal, At
    <3>2. CASE d # c
      BY <1>2, <1>5, <2>1, <3>2 DEF ConflictIsReal, At, Held
    <3> QED BY <3>1, <3>2
  <2> QED BY <2>2, <2>3, <2>4
<1> QED BY <1>6, <1>7 DEF SessionsInv, CallInv

LEMMA UserEditsStep ==
    ASSUME SessionsInv, NEW id \in Ids, UserEdits(id)
    PROVE  SessionsInv'
<1>1. /\ Live(id) /\ UNCHANGED <<log, call, mark, marked>>
      /\ edits' \in 0 .. MaxEdits /\ unplanned' \subseteq Ids
  BY EditsAreNumbers DEF UserEdits, SessionsInv, TypeInv, TypeOK
<1>2. /\ event' \in [Ids -> Event]
      /\ \A i \in Ids : /\ event'[i].by = event[i].by
                        /\ event'[i].slot = event[i].slot \/ event'[i].slot \in Slots
                        /\ event'[i].state = event[i].state \/ event'[i].state = "cancelled"
  <2>1. CASE event' = [event EXCEPT ![id].state = "cancelled"]
    BY <1>1, <2>1, Cancelled
  <2>2. ASSUME NEW s \in Slots, event' = [event EXCEPT ![id].slot = s]
        PROVE  <1>2!1 /\ <1>2!2
    BY <2>2 DEF SessionsInv, TypeInv, TypeOK, Event
  <2> QED BY <2>1, <2>2 DEF UserEdits
<1>3. /\ \A i \in Ids : Live(i)' => Live(i) /\ event'[i].by = event[i].by
      /\ \A i \in Ids : event[i].state = "cancelled" => event'[i].state = "cancelled"
      /\ \A i \in Ids : event[i].state # "absent" => event'[i].state # "absent"
  BY <1>2 DEF Live
<1>4. CallsHold' /\ CallInv'
  BY <1>1, <1>3, EventsOnly
<1>5. LiveAtSlots'
  BY <1>2, <1>3 DEF LiveAtSlots, SessionsInv, TypeInv
<1> QED BY <1>1, <1>2, <1>4, <1>5 DEF SessionsInv, TypeInv, TypeOK, MarksHold

LEMMA UpsertReadStep ==
    ASSUME SessionsInv, NEW c \in Calls, UpsertRead(c)
    PROVE  SessionsInv'
<1> DEFINE known == log[call[c].id].exists
           q == [call[c] EXCEPT !.pc = "writing", !.known = known]
<1>1. /\ call[c] \in Call /\ call[c].id \in Ids /\ call[c].got \in Slots
      /\ known \in BOOLEAN
  BY DEF SessionsInv, TypeInv, TypeOK, CallsHold, Held, UpsertRead, At, Session
<1>2. /\ call' = [call EXCEPT ![c] = q]
      /\ UNCHANGED <<event, log, mark, edits, marked, unplanned>>
  BY DEF UpsertRead
<1> HIDE DEF known
<1>3. /\ q \in Call /\ q.pc = "writing" /\ q.id = call[c].id /\ q.got = call[c].got
      /\ q.habit = call[c].habit /\ q.slot = call[c].slot
  BY <1>1 DEF Call
<1> HIDE DEF q
<1>4. Held(q)
  BY <1>1, <1>3 DEF Held
<1>5. unplanned' \subseteq Ids
  BY <1>2 DEF SessionsInv, TypeInv, TypeOK
<1> QED BY <1>2, <1>3, <1>4, <1>5, SameEvent, OnlyCalls

LEMMA UpsertWriteStep ==
    ASSUME SessionsInv, NEW c \in Calls, UpsertWrite(c)
    PROVE  SessionsInv'
<1> DEFINE i == call[c].id
           doc == Merged(log[i], c)
<1>1. /\ i \in Ids /\ call[c].got \in Slots /\ log[i] \in Session
  BY DEF SessionsInv, TypeInv, TypeOK, CallsHold, Held, UpsertWrite, At
<1>2. doc \in Session
  BY <1>1 DEF Merged, Session, Statuses
<1>3. /\ log' = [log EXCEPT ![i] = doc]
      /\ UNCHANGED <<event, mark, edits, marked, unplanned>>
  BY DEF UpsertWrite, Merged
<1> HIDE DEF doc
<1>4. log' \in [Ids -> Session]
  BY <1>1, <1>2, <1>3 DEF SessionsInv, TypeInv, TypeOK
<1>5. PICK q \in Call :
        /\ Held(q) /\ call' = [call EXCEPT ![c] = q]
        /\ q.pc = "success" /\ q.id = call[c].id
        /\ q.habit = call[c].habit /\ q.slot = call[c].slot
  BY StagePut DEF UpsertWrite, SessionsInv
<1>6. call' \in [Calls -> Call] /\ CallsHold' /\ CallInv'
  BY <1>3, <1>5, SameEvent
<1> QED BY <1>3, <1>4, <1>6 DEF SessionsInv, TypeInv, TypeOK, MarksHold, LiveAtSlots, Live

LEMMA LogFailsStep ==
    ASSUME SessionsInv, NEW c \in Calls, LogFails(c)
    PROVE  SessionsInv'
<1>1. /\ UNCHANGED <<event, log, mark, edits, marked>> /\ call[c].id \in Ids
  BY DEF LogFails, SessionsInv, TypeInv, CallsHold, Held, At
<1>2. unplanned' \subseteq Ids
  BY <1>1 DEF LogFails, SessionsInv, TypeInv, TypeOK
<1>3. PICK q \in Call :
        /\ Held(q) /\ call' = [call EXCEPT ![c] = q]
        /\ q.pc = "success" /\ q.id = call[c].id
        /\ q.habit = call[c].habit /\ q.slot = call[c].slot
  BY StagePut DEF LogFails, SessionsInv
<1> QED BY <1>1, <1>2, <1>3, SameEvent, OnlyCalls

\* What is left to show of a step of a status request.
LEMMA OnlyMarks ==
    ASSUME SessionsInv, UNCHANGED <<event, call, edits, unplanned>>,
           log' \in [Ids -> Session], marked' \in [Ids -> Statuses],
           mark' \in [Marks -> Mark], MarksHold'
    PROVE  SessionsInv'
<1>1. CallsHold' /\ CallInv'
  BY EventsOnly DEF Live
<1> QED BY <1>1 DEF SessionsInv, TypeInv, TypeOK, LiveAtSlots, Live

LEMMA MarkReadStep ==
    ASSUME SessionsInv, NEW m \in Marks, NEW id \in Ids, NEW status \in Statuses,
           MarkRead(m, id, status)
    PROVE  SessionsInv'
<1>1. UNCHANGED <<event, log, call, edits, unplanned>> /\ log' \in [Ids -> Session]
  BY DEF MarkRead, SessionsInv, TypeInv, TypeOK
<1>2. CASE /\ mark' = [mark EXCEPT ![m].pc = "done"]
           /\ marked' = [marked EXCEPT ![id] = status]
  <2>1. mark' \in [Marks -> Mark] /\ marked' \in [Ids -> Statuses]
    BY <1>2 DEF SessionsInv, TypeInv, TypeOK, Mark
  <2>2. MarksHold'
    BY <1>2 DEF SessionsInv, TypeInv, TypeOK, MarksHold, Mark
  <2> QED BY <1>1, <2>1, <2>2, OnlyMarks
<1>3. CASE /\ mark' = [mark EXCEPT ![m] = [pc |-> "writing", id |-> id, status |-> status]]
           /\ UNCHANGED marked
  <2>1. mark' \in [Marks -> Mark] /\ marked' \in [Ids -> Statuses]
    BY <1>3 DEF SessionsInv, TypeInv, TypeOK, Mark
  <2>2. MarksHold'
    BY <1>3 DEF SessionsInv, TypeInv, TypeOK, MarksHold, Mark
  <2> QED BY <1>1, <2>1, <2>2, OnlyMarks
<1> QED BY <1>2, <1>3 DEF MarkRead

LEMMA MarkMissingStep ==
    ASSUME SessionsInv, NEW m \in Marks, NEW id \in Ids, MarkMissing(m, id)
    PROVE  SessionsInv'
<1>1. /\ UNCHANGED <<event, log, call, edits, marked, unplanned>>
      /\ mark' = [mark EXCEPT ![m].pc = "done"]
  BY DEF MarkMissing
<1>2. /\ log' \in [Ids -> Session] /\ marked' \in [Ids -> Statuses]
      /\ mark' \in [Marks -> Mark]
  BY <1>1 DEF SessionsInv, TypeInv, TypeOK, Mark
<1>3. MarksHold'
  BY <1>1 DEF SessionsInv, TypeInv, TypeOK, MarksHold, Mark
<1> QED BY <1>1, <1>2, <1>3, OnlyMarks

LEMMA MarkWriteStep ==
    ASSUME SessionsInv, NEW m \in Marks, MarkWrite(m)
    PROVE  SessionsInv'
<1> DEFINE i == mark[m].id
           status == mark[m].status
           done == (status = "completed")
<1>1. i \in Ids /\ status \in Statuses /\ done \in BOOLEAN
  BY DEF SessionsInv, TypeInv, TypeOK, MarksHold, MarkWrite, Mark
<1>2. /\ UNCHANGED <<event, call, edits, unplanned>>
      /\ log' = [log EXCEPT ![i].status = status, ![i].completed_at = done]
      /\ marked' = [marked EXCEPT ![i] = status]
      /\ mark' = [mark EXCEPT ![m].pc = "done"]
  BY DEF MarkWrite
<1> HIDE DEF i, status, done
<1>3. log' \in [Ids -> Session]
  BY <1>1, <1>2 DEF SessionsInv, TypeInv, TypeOK, Session
<1>4. marked' \in [Ids -> Statuses] /\ mark' \in [Marks -> Mark]
  BY <1>1, <1>2 DEF SessionsInv, TypeInv, TypeOK, Mark
<1>5. MarksHold'
  BY <1>2 DEF SessionsInv, TypeInv, TypeOK, MarksHold, Mark
<1> QED BY <1>2, <1>3, <1>4, <1>5, OnlyMarks

-----------------------------------------------------------------------------
(* The theorems. *)

LEMMA SessionsInit == Init => SessionsInv
<1> SUFFICES ASSUME Init PROVE SessionsInv
  OBVIOUS
<1>1. TypeOK
  BY EditsAreNumbers, AttemptsArePositive
    DEF Init, TypeOK, Event, Session, Call, Mark, Statuses
<1>2. CallsHold /\ MarksHold /\ LiveAtSlots
  BY DEF Init, CallsHold, Held, MarksHold, LiveAtSlots, Live
<1>3. CallInv
  BY DEF Init, CallInv, OwnEvent, HashedFirst, ConflictIsReal, InsertedBy, Live, At
<1> QED BY <1>1, <1>2, <1>3 DEF SessionsInv, TypeInv

LEMMA SessionsNext == SessionsInv /\ [Next]_vars => SessionsInv'
<1> SUFFICES ASSUME SessionsInv, [Next]_vars PROVE SessionsInv'
  OBVIOUS
<1>1. ASSUME NEW c \in Calls, AddEvent(c) PROVE SessionsInv'
  <2>1. ASSUME NEW h \in Habits, NEW s \in Slots, AddSession(c, h, s) PROVE SessionsInv'
    BY <2>1, BeginStep, HashedIds DEF AddSession
  <2>2. ASSUME NEW s \in Slots, AddAppointment(c, s) PROVE SessionsInv'
    <3>1. PICK f \in Fresh : Begin(c, NoHabit, s, f)
      BY <2>2 DEF AddAppointment
    <3>2. f \in Ids
      BY DEF Ids
    <3> QED BY <3>1, <3>2, BeginStep
  <2> QED BY <1>1, <2>1, <2>2, InsertStep, InsertFailsStep, InsertConflictsStep,
             ResolveConflictStep DEF AddEvent
<1>2. ASSUME NEW c \in Calls, ChangeEvent(c) PROVE SessionsInv'
  BY <1>2, DeleteStep, UpdateStep DEF ChangeEvent
<1>3. ASSUME NEW c \in Calls, LogSession(c) PROVE SessionsInv'
  BY <1>3, UpsertReadStep, UpsertWriteStep, LogFailsStep DEF LogSession
<1>4. ASSUME NEW m \in Marks, SetStatus(m) PROVE SessionsInv'
  BY <1>4, MarkReadStep, MarkMissingStep, MarkWriteStep DEF SetStatus, MarkSession
<1>5. ASSUME NEW id \in Ids, UserEdits(id) PROVE SessionsInv'
  BY <1>5, UserEditsStep
<1>6. CASE UNCHANGED vars
  BY <1>6, OnlyMarks DEF vars, SessionsInv, TypeInv, TypeOK, MarksHold
<1> QED BY <1>1, <1>2, <1>3, <1>4, <1>5, <1>6 DEF Next

\* The invariant the other theorems rest on: what each handler holds agrees
\* with the calendar.
THEOREM SessionsInvariant == Spec => []SessionsInv
  BY SessionsInit, SessionsNext, PTL DEF Spec

\* Documents, events and what the handlers hold keep their types.
THEOREM TypeCorrect == Spec => []TypeOK
<1>1. SessionsInv => TypeOK
  BY DEF SessionsInv, TypeInv
<1> QED BY <1>1, SessionsInvariant, PTL

\* However many attempts an add_calendar_event makes, and whichever answers are
\* lost, it leaves at most one event on the calendar.
THEOREM InsertIsIdempotent == Spec => []OneEventPerCall
<1>1. SessionsInv => OneEventPerCall
  BY DEF SessionsInv, CallInv, OwnEvent, OneEventPerCall
<1> QED BY <1>1, SessionsInvariant, PTL

\* A habit has two live events that were asked for at one time only if the
\* event with the hashed id had been deleted.
THEOREM SessionIsPlacedOnce == Spec => []PlacedOnce
<1>1. SessionsInv => PlacedOnce
  BY DEF SessionsInv, CallInv, OwnEvent, HashedFirst, PlacedOnce
<1> QED BY <1>1, SessionsInvariant, PTL

-----------------------------------------------------------------------------
(* With tool calls one at a time. *)

\* The facts of a calm state, with what every state has.
Calm == SessionsInv /\ CalmFacts

Busy(c) == call[c].pc \in {"inserting", "conflict", "reading", "writing"}

\* A step of one call's handler leaves the other calls where they are.
Moves(c) == call' \in [Calls -> Call] /\ \A d \in Calls : d # c => call'[d] = call[d]

\* Its call is on its way, or starts.
Acts(c) == Busy(c) \/ (At(c, "new") /\ call'[c].pc # "new")

\* No other call is on its way, before the step or after it.
Alone(c) == \A d \in Calls : d # c => ~Busy(d) /\ ~Busy(d)'

LEMMA BusyOrNot ==
    ASSUME SessionsInv, NEW c \in Calls
    PROVE  /\ c \in InFlight <=> Busy(c)
           /\ Logging(c) => Busy(c)
           /\ At(c, "writing") => Logging(c)
           /\ call[c].pc \in {"inserting", "conflict"} => Busy(c)
  BY DEF InFlight, Busy, Logging, At

\* A call on its way, or one that starts with none on its way, is alone.
LEMMA CallIsAlone ==
    ASSUME Calm, NoSecondCall, NEW c \in Calls, Moves(c),
           Acts(c)
    PROVE  Alone(c) /\ OneCall'
<1>1. \A d \in Calls : d # c => ~Busy(d)
  <2>1. CASE Busy(c)
    BY <2>1 DEF Calm, CalmFacts, OneCall, InFlight, Busy
  <2>2. CASE At(c, "new") /\ call'[c].pc # "new"
    BY <2>2 DEF NoSecondCall, InFlight, Busy
  <2> QED BY <2>1, <2>2 DEF Acts
<1>2. Alone(c)
  BY <1>1 DEF Alone, Moves, Busy
<1>3. OneCall'
  BY <1>2 DEF OneCall, InFlight, Alone, Busy
<1> QED BY <1>2, <1>3

\* What is left to show of a step of a call: what concerns the call, the
\* documents and the plans.
LEMMA CalmCallStep ==
    ASSUME Calm, NoSecondCall, NEW c \in Calls, Moves(c),
           Acts(c),
           mark' = mark, \A id \in Ids : log[id].exists => log'[id].exists,
           Matches(c)', Informed(c)', HashedOfHabit',
           \A id \in Ids : LoggedOfHabit(id)' /\ MarkTrue(id)',
           \A id \in Ids : id \notin unplanned' =>
               (Logging(c)' /\ call'[c].id = id) \/ PlanTrue(id)'
    PROVE  CalmFacts'
<1>1. Alone(c) /\ OneCall'
  BY CallIsAlone
<1>2. ASSUME NEW d \in Calls PROVE Matches(d)' /\ Informed(d)'
  <2>1. CASE d # c
    <3>1. ~Busy(d)'
      BY <1>1, <2>1 DEF Alone
    <3> QED BY <3>1 DEF Matches, Informed, Busy, Logging, At
  <2> QED BY <2>1
<1>3. MarksKnown'
  BY DEF Calm, CalmFacts, MarksKnown, SessionsInv, TypeInv, MarksHold
<1>4. PlansTrue'
  BY DEF PlansTrue
<1> QED BY <1>1, <1>2, <1>3, <1>4 DEF CalmFacts

\* A call alone logs the plan of no event but its own.
LEMMA PlansOfOthers ==
    ASSUME Calm, NEW c \in Calls, Alone(c), NEW id \in Ids, id \notin unplanned,
           Logging(c) => call[c].id # id
    PROVE  PlanTrue(id)
<1>1. ASSUME NEW d \in Calls, Logging(d), call[d].id = id PROVE FALSE
  <2>1. d = c
    BY <1>1 DEF Alone, Busy, Logging
  <2> QED BY <1>1, <2>1
<1> QED BY <1>1 DEF Calm, CalmFacts, PlansTrue

\* What the step leaves to be logged is in the call's hands.
NothingLost(c) ==
    \A id \in Ids : id \notin unplanned' =>
        \/ Logging(c)' /\ call'[c].id = id
        \/ PlanTrue(id)
        \/ id \notin unplanned /\ (Logging(c) => call[c].id # id)

\* A step of a call that leaves the calendar and the log alone.
LEMMA CalmTalk ==
    ASSUME Calm, NoSecondCall, NEW c \in Calls, Moves(c),
           Acts(c),
           UNCHANGED <<event, log, mark, marked>>,
           Matches(c)', Informed(c)',
           NothingLost(c)
    PROVE  CalmFacts'
<1>1. Alone(c)
  BY CallIsAlone
<1>2. HashedOfHabit' /\ \A id \in Ids : LoggedOfHabit(id)' /\ MarkTrue(id)'
  BY DEF Calm, CalmFacts, HashedOfHabit, LoggedOfHabit, MarkTrue
<1>3. ASSUME NEW id \in Ids, id \notin unplanned'
      PROVE  (Logging(c)' /\ call'[c].id = id) \/ PlanTrue(id)'
  <2>1. CASE PlanTrue(id)
    BY <2>1 DEF PlanTrue, Live
  <2>2. CASE ~PlanTrue(id)
    BY <1>1, <1>3, <2>2, PlansOfOthers DEF NothingLost
  <2> QED BY <2>1, <2>2
<1> QED BY <1>2, <1>3, CalmCallStep

LEMMA PutMoves ==
    ASSUME TypeInv, NEW c \in Calls, NEW q \in Call, Held(q), call' = [call EXCEPT ![c] = q]
    PROVE  Moves(c) /\ call'[c] = q
  BY CallPut DEF Moves

LEMMA CalmBegin ==
    ASSUME Calm, NoSecondCall, NEW c \in Calls, NEW h \in Habits \cup {NoHabit},
           NEW s \in Slots, NEW id \in Ids, Begin(c, h, s, id),
           id \in Fresh \/ id = <<h, s>>, event[id].state # "absent" => event[id].habit = h
    PROVE  CalmFacts'
<1> DEFINE q == [call[c] EXCEPT !.pc = "inserting", !.habit = h, !.slot = s, !.id = id,
                                !.attempt = 1]
<1>1. call[c] \in Call /\ call[c].pc = "new"
  BY DEF Calm, SessionsInv, TypeInv, TypeOK, Begin, At
<1>2. 1 \in 0 .. MaxAttempts
  BY AttemptsArePositive
<1>3. q \in Call /\ q.pc = "inserting" /\ q.habit = h /\ q.slot = s /\ q.id = id
  BY <1>1, <1>2 DEF Call
<1>4. call' = [call EXCEPT ![c] = q] /\ UNCHANGED <<event, log, mark, marked, unplanned>>
  BY DEF Begin
<1> HIDE DEF q
<1>5. Held(q)
  BY <1>3 DEF Held
<1>6. Moves(c) /\ call'[c] = q
  BY <1>3, <1>4, <1>5, PutMoves DEF Calm, SessionsInv
<1>7. Matches(c)' /\ Informed(c)'
  BY <1>3, <1>4, <1>6 DEF Matches, Informed, Logging, At
<1>8. NothingLost(c) /\ Acts(c)
  BY <1>1, <1>3, <1>4, <1>6 DEF NothingLost, Logging, Acts, At
<1> QED BY <1>4, <1>6, <1>7, <1>8, CalmTalk

\* A call that stays with its event before any answer, or gives up.
LEMMA CalmInsertFails ==
    ASSUME Calm, NoSecondCall, NEW c \in Calls, InsertFails(c) \/ InsertConflicts(c)
    PROVE  CalmFacts'
<1>1. /\ call[c].pc = "inserting" /\ call[c].id \in Ids /\ call[c].slot \in Slots
      /\ UNCHANGED <<event, log, mark, marked, unplanned>>
  BY DEF Calm, SessionsInv, TypeInv, CallsHold, Held, InsertFails, InsertConflicts, At
<1>2. PICK q \in Call :
        /\ Held(q) /\ call' = [call EXCEPT ![c] = q]
        /\ q.pc \in {"inserting", "conflict", "error"} /\ q.id = call[c].id
        /\ q.habit = call[c].habit /\ q.slot = call[c].slot
  <2>1. CASE TryAgain(c, call[c].id)
    BY <1>1, <2>1, TryAgainPut DEF Calm, SessionsInv
  <2>2. CASE call' = [call EXCEPT ![c].pc = "error"]
    BY <2>2, StagePut DEF Calm, SessionsInv
  <2>3. CASE call' = [call EXCEPT ![c].pc = "conflict"]
    BY <1>1, <2>3, StagePut DEF Calm, SessionsInv
  <2> QED BY <2>1, <2>2, <2>3 DEF InsertFails, InsertConflicts
<1>3. Moves(c) /\ call'[c] = q
  BY <1>2, PutMoves DEF Calm, SessionsInv
<1>4. Matches(c)' /\ Informed(c)'
  <2>1. Matches(c)
    BY DEF Calm, CalmFacts
  <2> QED BY <1>1, <1>2, <1>3, <2>1 DEF Matches, Informed, Logging, At
<1>5. NothingLost(c) /\ Acts(c)
  BY <1>1 DEF NothingLost, Logging, Busy, Acts, At
<1> QED BY <1>1, <1>3, <1>4, <1>5, CalmTalk

LEMMA CalmResolve ==
    ASSUME Calm, NoSecondCall, NEW c \in Calls, ResolveConflict(c)
    PROVE  CalmFacts'
<1> DEFINE i == call[c].id
<1>1. /\ call[c].pc = "conflict" /\ i \in Ids /\ call[c].slot \in Slots
      /\ call[c].habit \in Habits \cup {NoHabit} /\ event[i].state # "absent"
      /\ UNCHANGED <<event, log, mark, marked>>
  BY DEF Calm, SessionsInv, TypeInv, TypeOK, CallsHold, Held, ResolveConflict, At, Call,
         CallInv, ConflictIsReal
<1>2. Acts(c) /\ ~Logging(c) /\ event[i].habit = call[c].habit
  BY <1>1 DEF Calm, CalmFacts, Matches, Acts, Busy, Logging, At
<1>3. CASE Live(i) /\ Answer(c, i, event[i].slot, call[c].habit)
  <2>1. event[i].slot \in Slots
    BY <1>1, <1>3 DEF Calm, SessionsInv, TypeInv, LiveAtSlots
  <2>2. unplanned' = unplanned \ {i}
    BY <1>1, <1>3, <2>1, AnswerPut DEF Calm, SessionsInv
  <2>3. PICK q \in Call :
          /\ Held(q) /\ call' = [call EXCEPT ![c] = q]
          /\ q.pc \in {"success", "reading"} /\ q.id = i
          /\ q.got = event[i].slot /\ (q.pc = "reading") = (call[c].habit # NoHabit)
    BY <1>1, <1>3, <2>1, AnswerPut DEF Calm, SessionsInv
  <2>4. Moves(c) /\ call'[c] = q
    BY <2>3, PutMoves DEF Calm, SessionsInv
  <2>5. Matches(c)' /\ Informed(c)'
    BY <1>1, <1>2, <1>3, <2>3, <2>4 DEF Matches, Informed, Logging, At, Live
  <2>6. (Logging(c)' /\ call'[c].id = i) \/ PlanTrue(i)
    <3>1. CASE q.pc = "reading"
      BY <2>3, <2>4, <3>1 DEF Logging
    <3>2. CASE q.pc = "success"
      <4>1. event[i].habit = NoHabit
        BY <1>2, <2>3, <3>2
      <4>2. ~log[i].exists
        BY <1>1, <4>1 DEF Calm, CalmFacts, LoggedOfHabit
      <4> QED BY <4>1, <4>2 DEF PlanTrue
    <3> QED BY <2>3, <3>1, <3>2
  <2>7. NothingLost(c)
    BY <1>2, <2>2, <2>6 DEF NothingLost
  <2> QED BY <1>1, <1>2, <2>4, <2>5, <2>7, CalmTalk
<1>4. CASE UNCHANGED unplanned /\ \E q \in Call :
             /\ Held(q) /\ call' = [call EXCEPT ![c] = q]
             /\ \/ q.pc = "inserting" /\ q.id \in Fresh /\ event[q.id].state = "absent"
                \/ q.pc = "error"
  <2>1. PICK q \in Call :
          /\ Held(q) /\ call' = [call EXCEPT ![c] = q]
          /\ \/ q.pc = "inserting" /\ q.id \in Fresh /\ event[q.id].state = "absent"
             \/ q.pc = "error"
    BY <1>4
  <2>2. Moves(c) /\ call'[c] = q
    BY <2>1, PutMoves DEF Calm, SessionsInv
  <2>3. Matches(c)' /\ Informed(c)'
    BY <1>1, <2>1, <2>2 DEF Matches, Informed, Logging, At
  <2>4. NothingLost(c)
    BY <1>2, <1>4 DEF NothingLost
  <2> QED BY <1>1, <1>2, <2>2, <2>3, <2>4, CalmTalk
<1>5. CASE /\ ~Live(i) /\ UNCHANGED unplanned
           /\ \E f \in Fresh : Unused(f) /\ TryAgain(c, f)
  <2>1. PICK f \in Fresh : Unused(f) /\ TryAgain(c, f)
    BY <1>5
  <2>2. f \in Ids /\ event[f].state = "absent"
    BY <2>1 DEF Ids, Unused
  <2>3. PICK q \in Call :
          /\ Held(q) /\ call' = [call EXCEPT ![c] = q]
          /\ (q.pc = "inserting" /\ q.id = f) \/ q.pc = "error"
    BY <1>1, <2>1, <2>2, TryAgainPut DEF Calm, SessionsInv
  <2> QED BY <1>4, <1>5, <2>2, <2>3
<1>6. CASE call' = [call EXCEPT ![c].pc = "error"] /\ UNCHANGED unplanned
  <2>1. PICK q \in Call : Held(q) /\ call' = [call EXCEPT ![c] = q] /\ q.pc = "error"
    BY <1>6, StagePut DEF Calm, SessionsInv
  <2> QED BY <1>4, <1>6, <2>1
<1> QED BY <1>3, <1>5, <1>6 DEF ResolveConflict

LEMMA CalmInsert ==
    ASSUME Calm, NoSecondCall, NEW c \in Calls, Insert(c)
    PROVE  CalmFacts'
<1> DEFINE i == call[c].id
           e == [state |-> "live", habit |-> call[c].habit, slot |-> call[c].slot, by |-> c]
<1>1. /\ call[c].pc = "inserting" /\ i \in Ids /\ call[c].slot \in Slots
      /\ call[c].habit \in Habits \cup {NoHabit}
      /\ event[i].state = "absent" /\ event' = [event EXCEPT ![i] = e]
      /\ UNCHANGED <<log, mark, marked>>
  BY DEF Calm, SessionsInv, TypeInv, TypeOK, CallsHold, Held, Insert, At, Call
<1>2. /\ Acts(c) /\ ~Logging(c)
      /\ i \in Fresh \/ i = <<call[c].habit, call[c].slot>>
  BY <1>1 DEF Calm, CalmFacts, Matches, Acts, Busy, Logging
<1>3. /\ event'[i].state = "live" /\ event'[i].habit = call[c].habit
      /\ event'[i].slot = call[c].slot
      /\ \A id \in Ids : id # i => event'[id] = event[id]
  BY <1>1 DEF Calm, SessionsInv, TypeInv, TypeOK
<1> HIDE DEF e
<1>4. PICK q \in Call :
        /\ Held(q) /\ call' = [call EXCEPT ![c] = q]
        /\ q.habit = call[c].habit /\ q.slot = call[c].slot
        /\ \/ /\ q.pc \in {"success", "reading"} /\ q.id = i /\ q.got = call[c].slot
              /\ (q.pc = "reading") = (call[c].habit # NoHabit)
              /\ unplanned' = unplanned \ {i}
           \/ /\ (q.pc = "inserting" /\ q.id = i) \/ q.pc = "error"
              /\ unplanned' = unplanned \cup {i}
  <2>1. CASE Answer(c, i, call[c].slot, call[c].habit)
    BY <1>1, <2>1, AnswerPut DEF Calm, SessionsInv
  <2>2. CASE TryAgain(c, i) /\ unplanned' = unplanned \cup {i}
    BY <1>1, <2>2, TryAgainPut DEF Calm, SessionsInv
  <2> QED BY <2>1, <2>2 DEF Insert
<1>5. Moves(c) /\ call'[c] = q
  BY <1>4, PutMoves DEF Calm, SessionsInv
<1>6. Alone(c)
  BY <1>2, <1>5, CallIsAlone
<1>7. Matches(c)' /\ Informed(c)'
  BY <1>1, <1>2, <1>3, <1>4, <1>5 DEF Matches, Informed, Logging, At, Live
<1>8. HashedOfHabit'
  <2> SUFFICES ASSUME NEW h \in Habits, NEW s \in Slots, event'[<<h, s>>].state # "absent"
               PROVE  event'[<<h, s>>].habit = h
    BY DEF HashedOfHabit
  <2>1. <<h, s>> \in Ids /\ <<h, s>> \notin Fresh
    BY FreshIdsAreNew DEF Ids
  <2>2. CASE <<h, s>> # i
    BY <1>3, <2>1, <2>2 DEF Calm, CalmFacts, HashedOfHabit
  <2>3. CASE <<h, s>> = i
    BY <1>2, <1>3, <2>1, <2>3
  <2> QED BY <2>2, <2>3
<1>9. ~log[i].exists
  BY <1>1 DEF Calm, CalmFacts, LoggedOfHabit
<1>10. \A id \in Ids : LoggedOfHabit(id)' /\ MarkTrue(id)'
  BY <1>1, <1>3, <1>9 DEF Calm, CalmFacts, LoggedOfHabit, MarkTrue
<1>11. ASSUME NEW id \in Ids, id \notin unplanned'
       PROVE  (Logging(c)' /\ call'[c].id = id) \/ PlanTrue(id)'
  <2>1. CASE id = i
    <3>1. q.pc \in {"success", "reading"} /\ q.id = i
          /\ (q.pc = "reading") = (call[c].habit # NoHabit)
      BY <1>4, <1>11, <2>1
    <3>2. CASE q.pc = "reading"
      BY <1>5, <2>1, <3>1, <3>2 DEF Logging
    <3>3. CASE q.pc = "success"
      BY <1>1, <1>3, <1>9, <2>1, <3>1, <3>3 DEF PlanTrue
    <3> QED BY <3>1, <3>2, <3>3
  <2>2. CASE id # i
    <3>1. PlanTrue(id)
      BY <1>2, <1>4, <1>6, <1>11, <2>2, PlansOfOthers
    <3> QED BY <1>1, <1>3, <2>2, <3>1 DEF PlanTrue, Live
  <2> QED BY <2>1, <2>2
<1> QED BY <1>1, <1>2, <1>5, <1>7, <1>8, <1>10, <1>11, CalmCallStep

LEMMA CalmUpdate ==
    ASSUME Calm, NoSecondCall, NEW c \in Calls, NEW id \in Ids, NEW s \in Slots,
           Update(c, id, s)
    PROVE  CalmFacts'
<1> DEFINE tag == event[id].habit
<1>1. /\ call[c].pc = "new" /\ Live(id) /\ event[id] \in Event
      /\ event' = [event EXCEPT ![id].slot = s] /\ UNCHANGED <<log, mark, marked>>
  BY DEF Calm, SessionsInv, TypeInv, TypeOK, Update, At
<1>2. tag \in Habits \cup {NoHabit}
  BY <1>1 DEF Event
<1>3. /\ event'[id].slot = s
      /\ \A i \in Ids : /\ event'[i].state = event[i].state
                        /\ event'[i].habit = event[i].habit
                        /\ i # id => event'[i].slot = event[i].slot
  BY <1>1 DEF Calm, SessionsInv, TypeInv, TypeOK, Event
<1> HIDE DEF tag
<1>4. PICK q \in Call :
        /\ Held(q) /\ call' = [call EXCEPT ![c] = q]
        /\ \/ /\ q.pc \in {"success", "reading"} /\ q.id = id /\ q.got = s
              /\ (q.pc = "reading") = (tag # NoHabit) /\ unplanned' = unplanned \ {id}
           \/ q.pc = "error" /\ unplanned' = unplanned \cup {id}
  <2>1. CASE Answer(c, id, s, tag)
    BY <1>2, <2>1, AnswerPut DEF Calm, SessionsInv
  <2>2. CASE call' = [call EXCEPT ![c].pc = "error"] /\ unplanned' = unplanned \cup {id}
    BY <2>2, StagePut DEF Calm, SessionsInv
  <2> QED BY <2>1, <2>2 DEF Update, tag
<1>5. Moves(c) /\ call'[c] = q
  BY <1>4, PutMoves DEF Calm, SessionsInv
<1>6. Acts(c) /\ Alone(c) /\ ~Logging(c)
  <2>1. Acts(c) /\ ~Logging(c)
    BY <1>1, <1>4, <1>5 DEF Acts, At, Logging
  <2> QED BY <1>5, <2>1, CallIsAlone
<1>7. Matches(c)' /\ Informed(c)'
  BY <1>1, <1>3, <1>4, <1>5 DEF Matches, Informed, Logging, At, Live, tag
<1>8. HashedOfHabit'
  BY <1>3, HashedIds DEF Calm, CalmFacts, HashedOfHabit
<1>9. \A i \in Ids : LoggedOfHabit(i)' /\ MarkTrue(i)'
  BY <1>1, <1>3 DEF Calm, CalmFacts, LoggedOfHabit, MarkTrue
<1>10. ASSUME NEW i \in Ids, i \notin unplanned'
       PROVE  (Logging(c)' /\ call'[c].id = i) \/ PlanTrue(i)'
  <2>1. CASE i = id
    <3>1. q.pc \in {"success", "reading"} /\ q.id = id /\ (q.pc = "reading") = (tag # NoHabit)
      BY <1>4, <1>10, <2>1
    <3>2. CASE q.pc = "reading"
      BY <1>5, <2>1, <3>1, <3>2 DEF Logging
    <3>3. CASE q.pc = "success"
      <4>1. tag = NoHabit
        BY <3>1, <3>3
      <4>2. ~log[id].exists
        BY <4>1 DEF Calm, CalmFacts, LoggedOfHabit, tag
      <4> QED BY <1>1, <1>3, <2>1, <4>1, <4>2 DEF PlanTrue, tag
    <3> QED BY <3>1, <3>2, <3>3
  <2>2. CASE i # id
    <3>1. PlanTrue(i)
      BY <1>4, <1>6, <1>10, <2>2, PlansOfOthers
    <3> QED BY <1>1, <1>3, <2>2, <3>1 DEF PlanTrue, Live
  <2> QED BY <2>1, <2>2
<1> QED BY <1>1, <1>5, <1>6, <1>7, <1>8, <1>9, <1>10, CalmCallStep

\* An event is changed behind the log: its plan may no longer be true.
LEMMA CalmChange ==
    ASSUME Calm, NEW id \in Ids, Live(id), unplanned' = unplanned \cup {id},
           UNCHANGED <<log, mark, marked>>,
           \A i \in Ids : /\ event'[i].habit = event[i].habit
                          /\ event[i].state # "absent" => event'[i].state # "absent"
                          /\ event[i].state = "absent" => event'[i].state = "absent"
                          /\ i # id => event'[i] = event[i]
    PROVE  /\ HashedOfHabit' /\ MarksKnown'
           /\ \A i \in Ids : LoggedOfHabit(i)' /\ MarkTrue(i)'
           /\ \A i \in Ids : i \notin unplanned' =>
                  i \notin unplanned /\ (PlanTrue(i) => PlanTrue(i)')
<1>1. HashedOfHabit'
  BY HashedIds DEF Calm, CalmFacts, HashedOfHabit
<1>2. \A i \in Ids : LoggedOfHabit(i)' /\ MarkTrue(i)'
  BY DEF Calm, CalmFacts, LoggedOfHabit, MarkTrue
<1>3. \A i \in Ids : i \notin unplanned' => i \notin unplanned /\ (PlanTrue(i) => PlanTrue(i)')
  BY DEF PlanTrue, Live
<1>4. MarksKnown'
  BY DEF Calm, CalmFacts, MarksKnown
<1> QED BY <1>1, <1>2, <1>3, <1>4

LEMMA CalmDelete ==
    ASSUME Calm, NoSecondCall, NEW c \in Calls, NEW id \in Ids, Delete(c, id)
    PROVE  CalmFacts'
<1>1. /\ call[c].pc = "new" /\ Live(id) /\ unplanned' = unplanned \cup {id}
      /\ UNCHANGED <<log, mark, marked>>
  BY DEF Delete, At
<1>2. \A i \in Ids : /\ event'[i].habit = event[i].habit
                     /\ event[i].state # "absent" => event'[i].state # "absent"
                     /\ event[i].state = "absent" => event'[i].state = "absent"
                     /\ i # id => event'[i] = event[i]
  BY <1>1 DEF Delete, Live, Calm, SessionsInv, TypeInv, TypeOK, Event
<1>3. PICK q \in Call : Held(q) /\ call' = [call EXCEPT ![c] = q] /\ q.pc = "success"
  BY StagePut DEF Delete, Calm, SessionsInv
<1>4. Moves(c) /\ call'[c] = q
  BY <1>3, PutMoves DEF Calm, SessionsInv
<1>5. Acts(c) /\ ~Logging(c) /\ Matches(c)' /\ Informed(c)'
  BY <1>1, <1>3, <1>4 DEF Acts, At, Logging, Matches, Informed
<1>6. Alone(c)
  BY <1>4, <1>5, CallIsAlone
<1>7. \A i \in Ids : i \notin unplanned' => PlanTrue(i)'
  BY <1>1, <1>2, <1>5, <1>6, CalmChange, PlansOfOthers
<1> QED BY <1>1, <1>2, <1>4, <1>5, <1>7, CalmChange, CalmCallStep

LEMMA CalmUserEdits ==
    ASSUME Calm, NEW id \in Ids, UserEdits(id)
    PROVE  CalmFacts'
<1>1. /\ Live(id) /\ unplanned' = unplanned \cup {id}
      /\ UNCHANGED <<log, call, mark, marked>>
  BY DEF UserEdits
<1>2. \A i \in Ids : /\ event'[i].habit = event[i].habit
                     /\ event[i].state # "absent" => event'[i].state # "absent"
                     /\ event[i].state = "absent" => event'[i].state = "absent"
                     /\ i # id => event'[i] = event[i]
  <2>1. CASE event' = [event EXCEPT ![id].state = "cancelled"]
    BY <1>1, <2>1 DEF Live, Calm, SessionsInv, TypeInv, TypeOK, Event
  <2>2. ASSUME NEW s \in Slots, event' = [event EXCEPT ![id].slot = s]
        PROVE  <1>2
    BY <1>1, <2>2 DEF Live, Calm, SessionsInv, TypeInv, TypeOK, Event
  <2> QED BY <2>1, <2>2 DEF UserEdits
<1>3. ASSUME NEW c \in Calls PROVE Matches(c)' /\ Informed(c)'
  <2>1. Matches(c) /\ Informed(c) /\ Held(call[c])
    BY DEF Calm, CalmFacts, SessionsInv, TypeInv, CallsHold
  <2>2. Matches(c)'
    BY <1>1, <1>2, <2>1 DEF Matches, Logging, Held, Live
  <2> QED BY <1>1, <2>1, <2>2 DEF Informed, At
<1>4. PlansTrue'
  BY <1>1, <1>2, CalmChange DEF PlansTrue, Calm, CalmFacts, Logging
<1>5. OneCall'
  BY <1>1 DEF Calm, CalmFacts, OneCall, InFlight
<1> QED BY <1>1, <1>2, <1>3, <1>4, <1>5, CalmChange DEF CalmFacts

LEMMA CalmUpsertRead ==
    ASSUME Calm, NoSecondCall, NEW c \in Calls, UpsertRead(c)
    PROVE  CalmFacts'
<1> DEFINE known == log[call[c].id].exists
           q == [call[c] EXCEPT !.pc = "writing", !.known = known]
<1>1. /\ call[c].pc = "reading" /\ call[c] \in Call /\ call[c].id \in Ids
      /\ call[c].got \in Slots /\ known \in BOOLEAN
  BY DEF Calm, SessionsInv, TypeInv, TypeOK, CallsHold, Held, UpsertRead, At, Session
<1>2. /\ call' = [call EXCEPT ![c] = q]
      /\ UNCHANGED <<event, log, mark, marked, unplanned>>
  BY DEF UpsertRead
<1> HIDE DEF known
<1>3. /\ q \in Call /\ q.pc = "writing" /\ q.id = call[c].id /\ q.got = call[c].got
      /\ q.known = known
  BY <1>1 DEF Call
<1> HIDE DEF q
<1>4. Held(q)
  BY <1>1, <1>3 DEF Held
<1>5. Moves(c) /\ call'[c] = q
  BY <1>2, <1>3, <1>4, PutMoves DEF Calm, SessionsInv
<1>6. Matches(c)'
  BY <1>1, <1>2, <1>3, <1>5 DEF Calm, CalmFacts, Matches, Logging, Live
<1>7. Informed(c)'
  BY <1>2, <1>3, <1>5 DEF Informed, At, known
<1>8. Acts(c) /\ NothingLost(c)
  BY <1>1, <1>2, <1>3, <1>5 DEF Acts, Busy, NothingLost, Logging
<1> QED BY <1>2, <1>5, <1>6, <1>7, <1>8, CalmTalk

LEMMA CalmUpsertWrite ==
    ASSUME Calm, NoSecondCall, NEW c \in Calls, UpsertWrite(c)
    PROVE  CalmFacts'
<1> DEFINE i == call[c].id
           doc == Merged(log[i], c)
<1>1. /\ call[c].pc = "writing" /\ i \in Ids /\ log[i] \in Session
      /\ log' = [log EXCEPT ![i] = doc] /\ UNCHANGED <<event, mark, marked, unplanned>>
  BY DEF Calm, SessionsInv, TypeInv, TypeOK, CallsHold, Held, UpsertWrite, At, Merged
<1>2. /\ event[i].state # "absent" /\ event[i].habit # NoHabit
      /\ i \notin unplanned => Live(i) /\ event[i].slot = call[c].got
      /\ call[c].known = log[i].exists /\ MarkTrue(i)
  BY <1>1 DEF Calm, CalmFacts, Matches, Informed, Logging, At
<1>3. /\ doc.exists = TRUE /\ doc.slot = call[c].got /\ doc.completed_at = log[i].completed_at
      /\ doc.status = IF call[c].known THEN log[i].status ELSE "pending"
  BY <1>1 DEF Merged, Session
<1>4. /\ log'[i] = doc /\ \A id \in Ids : id # i => log'[id] = log[id]
  BY <1>1 DEF Calm, SessionsInv, TypeInv, TypeOK
<1> HIDE DEF doc
<1>5. PICK q \in Call : Held(q) /\ call' = [call EXCEPT ![c] = q] /\ q.pc = "success"
  BY StagePut DEF UpsertWrite, Calm, SessionsInv
<1>6. Moves(c) /\ call'[c] = q
  BY <1>5, PutMoves DEF Calm, SessionsInv
<1>7. Acts(c) /\ Matches(c)' /\ Informed(c)'
  BY <1>1, <1>5, <1>6 DEF Acts, Busy, Matches, Informed, Logging, At
<1>8. Alone(c)
  BY <1>6, <1>7, CallIsAlone
<1>9. HashedOfHabit'
  BY <1>1 DEF Calm, CalmFacts, HashedOfHabit
<1>10. ASSUME NEW id \in Ids, id = i PROVE MarkTrue(id)'
  <2>1. log[i].status = marked[i] /\ (~log[i].exists => marked[i] = "pending")
    BY <1>2 DEF MarkTrue
  <2>2. doc.status = marked[i]
    BY <1>2, <1>3, <2>1
  <2>3. doc.completed_at <=> marked[i] = "completed"
    BY <1>2, <1>3 DEF MarkTrue
  <2> QED BY <1>1, <1>2, <1>3, <1>4, <1>10, <2>2, <2>3 DEF MarkTrue
<1>11. ASSUME NEW id \in Ids PROVE LoggedOfHabit(id)' /\ MarkTrue(id)'
  <2>1. LoggedOfHabit(id)'
    BY <1>1, <1>2, <1>4 DEF Calm, CalmFacts, LoggedOfHabit
  <2>2. CASE id # i
    <3>1. MarkTrue(id) /\ log'[id] = log[id] /\ marked' = marked
      BY <1>1, <1>4, <2>2 DEF Calm, CalmFacts
    <3> QED BY <2>1, <3>1 DEF MarkTrue
  <2> QED BY <1>10, <2>1, <2>2
<1>12. ASSUME NEW id \in Ids, id \notin unplanned' PROVE PlanTrue(id)'
  <2>1. CASE id = i
    BY <1>1, <1>2, <1>3, <1>4, <1>12, <2>1 DEF PlanTrue, Live
  <2>2. CASE id # i
    BY <1>1, <1>4, <1>8, <1>12, <2>2, PlansOfOthers DEF PlanTrue, Live
  <2> QED BY <2>1, <2>2
<1>13. \A id \in Ids : log[id].exists => log'[id].exists
  BY <1>3, <1>4
<1> QED BY <1>1, <1>6, <1>7, <1>9, <1>11, <1>12, <1>13, CalmCallStep

LEMMA CalmLogFails ==
    ASSUME Calm, NoSecondCall, NEW c \in Calls, LogFails(c)
    PROVE  CalmFacts'
<1>1. /\ Logging(c) /\ unplanned' = unplanned \cup {call[c].id}
      /\ UNCHANGED <<event, log, mark, marked>>
  BY DEF LogFails, At, Logging
<1>2. PICK q \in Call : Held(q) /\ call' = [call EXCEPT ![c] = q] /\ q.pc = "success"
  BY StagePut DEF LogFails, Calm, SessionsInv
<1>3. Moves(c) /\ call'[c] = q
  BY <1>2, PutMoves DEF Calm, SessionsInv
<1>4. Matches(c)' /\ Informed(c)' /\ Acts(c)
  BY <1>1, <1>2, <1>3 DEF Matches, Informed, Logging, At, Acts, Busy
<1>5. NothingLost(c)
  BY <1>1 DEF NothingLost
<1> QED BY <1>1, <1>3, <1>4, <1>5, CalmTalk

\* A request that asks for what is there, or asks for what is not.
LEMMA CalmMarkReads ==
    ASSUME Calm, NEW m \in Marks, NEW id \in Ids, NEW status \in Statuses,
           MarkRead(m, id, status) \/ MarkMissing(m, id)
    PROVE  CalmFacts'
<1>1. UNCHANGED <<event, log, call, unplanned>> /\ marked \in [Ids -> Statuses]
  BY DEF MarkRead, MarkMissing, Calm, SessionsInv, TypeInv, TypeOK
<1>2. /\ mark' = [mark EXCEPT ![m].pc = "done"] \/
         /\ log[id].exists
         /\ mark' = [mark EXCEPT ![m] = [pc |-> "writing", id |-> id, status |-> status]]
      /\ marked' = marked \/ (log[id].status = status /\ marked' = [marked EXCEPT ![id] = status])
  BY DEF MarkRead, MarkMissing
<1>3. marked' = marked
  BY <1>1, <1>2 DEF Calm, CalmFacts, MarkTrue
<1>4. MarksKnown'
  BY <1>1, <1>2 DEF Calm, CalmFacts, MarksKnown, SessionsInv, TypeInv, TypeOK, Mark
<1> QED BY <1>1, <1>3, <1>4
      DEF Calm, CalmFacts, OneCall, InFlight, HashedOfHabit, PlansTrue, Matches, Informed,
          LoggedOfHabit, MarkTrue, PlanTrue, Logging, Live, At

LEMMA CalmMarkWrite ==
    ASSUME Calm, NEW m \in Marks, MarkWrite(m)
    PROVE  CalmFacts'
<1> DEFINE i == mark[m].id
           status == mark[m].status
           done == (status = "completed")
<1>1. /\ i \in Ids /\ status \in Statuses /\ log[i].exists
  BY DEF Calm, CalmFacts, MarksKnown, SessionsInv, TypeInv, TypeOK, MarksHold, MarkWrite, Mark
<1>2. /\ UNCHANGED <<event, call, unplanned>>
      /\ log' = [log EXCEPT ![i].status = status, ![i].completed_at = done]
      /\ marked' = [marked EXCEPT ![i] = status]
      /\ mark' = [mark EXCEPT ![m].pc = "done"]
  BY DEF MarkWrite
<1> HIDE DEF i, status
<1>3. /\ log'[i].status = status /\ log'[i].completed_at = done /\ marked'[i] = status
      /\ \A id \in Ids : /\ log'[id].exists = log[id].exists
                         /\ log'[id].slot = log[id].slot
                         /\ id # i => log'[id] = log[id] /\ marked'[id] = marked[id]
  BY <1>1, <1>2 DEF Calm, SessionsInv, TypeInv, TypeOK, Session
<1>4. ASSUME NEW id \in Ids PROVE LoggedOfHabit(id)' /\ MarkTrue(id)'
  <2>1. LoggedOfHabit(id)'
    BY <1>2, <1>3 DEF Calm, CalmFacts, LoggedOfHabit
  <2>2. CASE id = i
    BY <1>1, <1>3, <2>1, <2>2 DEF MarkTrue
  <2>3. CASE id # i
    <3>1. MarkTrue(id) /\ log'[id] = log[id] /\ marked'[id] = marked[id]
      BY <1>3, <2>3 DEF Calm, CalmFacts
    <3> QED BY <2>1, <3>1 DEF MarkTrue
  <2> QED BY <2>2, <2>3
<1>5. MarksKnown'
  BY <1>2, <1>3 DEF Calm, CalmFacts, MarksKnown, SessionsInv, TypeInv, TypeOK, MarksHold, Mark
<1>6. \A c \in Calls : Matches(c)' /\ Informed(c)'
  <2> SUFFICES ASSUME NEW c \in Calls PROVE Matches(c)' /\ Informed(c)'
    OBVIOUS
  <2>1. Matches(c) /\ Informed(c) /\ Held(call[c])
    BY DEF Calm, CalmFacts, SessionsInv, TypeInv, CallsHold
  <2> QED BY <1>2, <1>3, <2>1 DEF Matches, Informed, Logging, Live, At, Held
<1>7. PlansTrue'
  <2> SUFFICES ASSUME NEW id \in Ids, id \notin unplanned'
               PROVE  (\E c \in Calls : Logging(c)' /\ call'[c].id = id) \/ PlanTrue(id)'
    BY DEF PlansTrue
  <2>1. PlanTrue(id) => PlanTrue(id)'
    BY <1>2, <1>3 DEF PlanTrue, Live
  <2>2. (\E c \in Calls : Logging(c) /\ call[c].id = id) \/ PlanTrue(id)
    BY <1>2 DEF Calm, CalmFacts, PlansTrue
  <2> QED BY <1>2, <2>1, <2>2 DEF Logging
<1>8. OneCall' /\ HashedOfHabit'
  BY <1>2 DEF Calm, CalmFacts, OneCall, InFlight, HashedOfHabit
<1> QED BY <1>4, <1>5, <1>6, <1>7, <1>8 DEF CalmFacts

LEMMA CalmFactsInit == Init => CalmFacts
<1> SUFFICES ASSUME Init PROVE CalmFacts
  OBVIOUS
<1>1. OneCall /\ HashedOfHabit /\ MarksKnown /\ PlansTrue
  BY HashedIds DEF Init, OneCall, InFlight, HashedOfHabit, MarksKnown, PlansTrue, PlanTrue, Live
<1>2. /\ \A c \in Calls : Matches(c) /\ Informed(c)
      /\ \A id \in Ids : LoggedOfHabit(id) /\ MarkTrue(id)
  BY DEF Init, Matches, Informed, Logging, At, LoggedOfHabit, MarkTrue
<1> QED BY <1>1, <1>2 DEF CalmFacts

LEMMA CalmStep ==
    ASSUME Calm, NoSecondCall, Next
    PROVE  CalmFacts'
<1>1. ASSUME NEW c \in Calls, AddEvent(c) PROVE CalmFacts'
  <2>1. ASSUME NEW h \in Habits, NEW s \in Slots, AddSession(c, h, s) PROVE CalmFacts'
    <3>1. event[<<h, s>>].state # "absent" => event[<<h, s>>].habit = h
      BY DEF Calm, CalmFacts, HashedOfHabit
    <3> QED BY <2>1, <3>1, CalmBegin, HashedIds DEF AddSession
  <2>2. ASSUME NEW s \in Slots, AddAppointment(c, s) PROVE CalmFacts'
    <3>1. PICK f \in Fresh : Unused(f) /\ Begin(c, NoHabit, s, f)
      BY <2>2 DEF AddAppointment
    <3>2. f \in Ids /\ event[f].state = "absent"
      BY <3>1 DEF Ids, Unused
    <3> QED BY <3>1, <3>2, CalmBegin
  <2> QED BY <1>1, <2>1, <2>2, CalmInsert, CalmInsertFails, CalmResolve DEF AddEvent
<1>2. ASSUME NEW c \in Calls, ChangeEvent(c) PROVE CalmFacts'
  BY <1>2, CalmDelete, CalmUpdate DEF ChangeEvent
<1>3. ASSUME NEW c \in Calls, LogSession(c) PROVE CalmFacts'
  BY <1>3, CalmUpsertRead, CalmUpsertWrite, CalmLogFails DEF LogSession
<1>4. ASSUME NEW m \in Marks, SetStatus(m) PROVE CalmFacts'
  <2>1. CASE MarkWrite(m)
    BY <2>1, CalmMarkWrite
  <2>2. ASSUME NEW id \in Ids, MarkMissing(m, id) PROVE CalmFacts'
    <3>1. "pending" \in Statuses
      BY DEF Statuses
    <3> QED BY <2>2, <3>1, CalmMarkReads
  <2>3. ASSUME NEW id \in Ids, NEW status \in Statuses, MarkRead(m, id, status)
        PROVE  CalmFacts'
    BY <2>3, CalmMarkReads
  <2> QED BY <1>4, <2>1, <2>2, <2>3 DEF SetStatus, MarkSession
<1>5. ASSUME NEW id \in Ids, UserEdits(id) PROVE CalmFacts'
  BY <1>5, CalmUserEdits
<1> QED BY <1>1, <1>2, <1>3, <1>4, <1>5 DEF Next

CalmSessionsInv == SessionsInv /\ CalmInv

\* The inductive invariant of the runs with tool calls one at a time.
LEMMA CalmInvariant == CalmSpec => []CalmSessionsInv
<1>1. CalmInit => CalmSessionsInv
  BY SessionsInit, CalmFactsInit DEF CalmInit, CalmSessionsInv, CalmInv
<1>2. CalmSessionsInv /\ [CalmNext]_<<vars, calm>> => CalmSessionsInv'
  <2> SUFFICES ASSUME CalmSessionsInv, [CalmNext]_<<vars, calm>> PROVE CalmSessionsInv'
    OBVIOUS
  <2>1. SessionsInv'
    BY SessionsNext DEF CalmSessionsInv, CalmNext, vars
  <2>2. ASSUME CalmNext, calm' PROVE CalmFacts'
    <3>1. calm /\ NoSecondCall /\ Next
      BY <2>2 DEF CalmNext
    <3> QED BY <3>1, CalmStep DEF Calm, CalmSessionsInv, CalmInv
  <2>3. ASSUME UNCHANGED <<vars, calm>>, calm' PROVE CalmFacts'
    <3>1. CalmFacts
      BY <2>3 DEF CalmSessionsInv, CalmInv
    <3>2. UNCHANGED <<event, log, call, mark, marked, unplanned>>
      BY <2>3 DEF vars
    <3> QED BY <3>1, <3>2
        DEF CalmFacts, OneCall, InFlight, HashedOfHabit, MarksKnown, PlansTrue, Matches,
            Informed, LoggedOfHabit, MarkTrue, PlanTrue, Logging, Live, At
  <2>4. CalmInv'
    BY <2>2, <2>3 DEF CalmInv
  <2> QED BY <2>1, <2>4 DEF CalmSessionsInv
<1> QED BY <1>1, <1>2, PTL DEF CalmSpec

LEMMA FactsKeepMarks ==
    ASSUME Calm
    PROVE  MarksSurvive
<1> SUFFICES ASSUME NEW id \in Ids
             PROVE  /\ log[id].status = marked[id]
                    /\ log[id].completed_at = (marked[id] = "completed")
  BY DEF MarksSurvive
<1>1. MarkTrue(id) /\ log[id].completed_at \in BOOLEAN
  BY DEF Calm, CalmFacts, SessionsInv, TypeInv, TypeOK, Session
<1> QED BY <1>1 DEF MarkTrue

\* With no call on its way, every event that nobody changed is as planned.
LEMMA PlansOfCalm ==
    ASSUME Calm, InFlight = {}, NEW id \in Ids, id \notin unplanned
    PROVE  PlanTrue(id)
  BY DEF Calm, CalmFacts, PlansTrue, InFlight, Logging

\* What a review may say of a session, by its mark and by what became of it.
LEMMA EntryIs ==
    ASSUME NEW id \in Ids, NEW events \in SUBSET Ids, log[id].status \in Statuses,
           NEW entry \in Entries(id, events)
    PROVE  /\ entry.outcome = Outcome(id, events)
           /\ entry.interpretation = "success" <=> log[id].status = "completed"
           /\ entry.interpretation \in {"expected", "possible_signal"} =>
                 log[id].status = "skipped" /\ entry.outcome # "kept"
<1>1. PICK byHabit \in BumpedByHabit(id, events), due \in BOOLEAN, zoned \in BOOLEAN :
        entry = [status |-> log[id].status, outcome |-> Outcome(id, events),
                 interpretation |-> Interpretation(id, events, byHabit, due, zoned)]
  BY DEF Entries
<1>2. /\ entry.outcome = Outcome(id, events)
      /\ entry.interpretation = Interpretation(id, events, byHabit, due, zoned)
  BY <1>1
<1>3. CASE log[id].status = "completed"
  BY <1>2, <1>3 DEF Interpretation
<1>4. CASE log[id].status = "pending"
  BY <1>2, <1>4 DEF Interpretation
<1>5. CASE log[id].status = "skipped"
  BY <1>2, <1>5 DEF Interpretation
<1> QED BY <1>3, <1>4, <1>5 DEF Statuses

LEMMA FactsMakeFair ==
    ASSUME Calm
    PROVE  ReviewIsFair
<1> SUFFICES
      ASSUME InFlight = {}
      PROVE  /\ \A id \in Ids \ unplanned :
                   Live(id) /\ event[id].habit # NoHabit => log[id].exists
             /\ \A period \in SUBSET Slots, skipped \in BOOLEAN : \A id \in Planned(period) :
                   \A entry \in Entries(id, Fetched(period, skipped)) :
                       /\ entry.outcome = "moved" => id \in unplanned
                       /\ entry.outcome = "gone" => skipped \/ id \in unplanned
                       /\ entry.interpretation = "success" <=> marked[id] = "completed"
                       /\ entry.interpretation \in {"expected", "possible_signal"} =>
                             marked[id] = "skipped" /\ (skipped \/ id \in unplanned)
  BY DEF ReviewIsFair
<1>1. \A id \in Ids \ unplanned : Live(id) /\ event[id].habit # NoHabit => log[id].exists
  BY PlansOfCalm DEF PlanTrue
<1>2. ASSUME NEW period \in SUBSET Slots, NEW skipped \in BOOLEAN, NEW id \in Planned(period),
             NEW entry \in Entries(id, Fetched(period, skipped))
      PROVE  /\ entry.outcome = "moved" => id \in unplanned
             /\ entry.outcome = "gone" => skipped \/ id \in unplanned
             /\ entry.interpretation = "success" <=> marked[id] = "completed"
             /\ entry.interpretation \in {"expected", "possible_signal"} =>
                   marked[id] = "skipped" /\ (skipped \/ id \in unplanned)
  <2> DEFINE events == Fetched(period, skipped)
  <2>1. /\ id \in Ids /\ log[id].exists /\ log[id].slot \in period
        /\ events \in SUBSET Ids
    BY DEF Planned, Fetched
  <2>2. log[id].status = marked[id] /\ log[id].status \in Statuses
    BY <2>1 DEF Calm, CalmFacts, MarkTrue, SessionsInv, TypeInv, TypeOK, Session
  <2>3. /\ entry.outcome = Outcome(id, events)
        /\ entry.interpretation = "success" <=> log[id].status = "completed"
        /\ entry.interpretation \in {"expected", "possible_signal"} =>
              log[id].status = "skipped" /\ entry.outcome # "kept"
    BY <2>1, <2>2, EntryIs
  <2>4. CASE skipped
    <3>1. Outcome(id, events) = "gone"
      BY <2>4 DEF Outcome, Fetched
    <3> QED BY <2>2, <2>3, <2>4, <3>1
  <2>5. CASE ~skipped
    <3>1. id \notin unplanned => Outcome(id, events) = "kept"
      BY <2>1, <2>5, PlansOfCalm DEF PlanTrue, Outcome, Fetched
    <3> QED BY <2>2, <2>3, <3>1
  <2> QED BY <2>4, <2>5
<1> QED BY <1>1, <1>2

\* While tool calls come one at a time, no tool call changes whether a session
\* counts as done: a document says what was last asked for, though marks come
\* between a call's reads and writes.
THEOREM CalmMarksStand == CalmSpec => []CalmMarksSurvive
<1>1. CalmSessionsInv => CalmMarksSurvive
  BY FactsKeepMarks DEF CalmSessionsInv, CalmInv, Calm, CalmMarksSurvive
<1> QED BY <1>1, CalmInvariant, PTL

\* While tool calls come one at a time, a review between them says "moved" only
\* of what somebody changed or what was not logged, and "gone", or asks why, only
\* of that or when it was not given the calendar's account.
THEOREM CalmReviewsAreFair == CalmSpec => []CalmReviewIsFair
<1>1. CalmSessionsInv => CalmReviewIsFair
  BY FactsMakeFair DEF CalmSessionsInv, CalmInv, Calm, CalmReviewIsFair
<1> QED BY <1>1, CalmInvariant, PTL

=============================================================================
