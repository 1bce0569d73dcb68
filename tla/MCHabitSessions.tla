--------------------------- MODULE MCHabitSessions ---------------------------
(***************************************************************************)
(* An instance of HabitSessions for TLC.  calm tells whether so far the    *)
(* agent's tool calls came one at a time; marks and the user's edits may   *)
(* come at any moment.                                                     *)
(***************************************************************************)
EXTENDS HabitSessions, TLC

VARIABLE calm

\* No call starts while another is on its way.
NoSecondCall == InFlight # {} => \A c \in Calls : At(c, "new") => call'[c].pc = "new"

CalmInit == Init /\ calm = TRUE

CalmNext ==
    /\ Next
    /\ calm' = (calm /\ NoSecondCall)

CalmSpec == CalmInit /\ [][CalmNext]_<<vars, calm>>

\* While tool calls come one at a time, marks survive them.
CalmMarksSurvive == calm => MarksSurvive

\* While tool calls come one at a time, a review is fair to the agent's plan.
CalmReviewIsFair == calm => ReviewIsFair

\* While tool calls come one at a time, an event that is reported as created
\* is at the time that was asked for.
CalmAnswerIsAtSlot == calm => AnswerIsAtSlot

OneCall == \A c, d \in InFlight : c = d

Logging(c) == call[c].pc \in {"reading", "writing"}

\* What a call makes, or found, is tagged as it says, and what it is about to
\* log is where the answer put it unless somebody has changed it since.
Matches(c) ==
    LET id == call[c].id IN
    /\ call[c].pc \in {"inserting", "conflict"} =>
          /\ id \in Fresh \/ id = <<call[c].habit, call[c].slot>>
          /\ event[id].state # "absent" => event[id].habit = call[c].habit
    /\ Logging(c) =>
          /\ event[id].state # "absent" /\ event[id].habit # NoHabit
          /\ id \notin unplanned => Live(id) /\ event[id].slot = call[c].got

\* A handler about to write a document knows whether it is there.
Informed(c) == At(c, "writing") => call[c].known = log[call[c].id].exists

\* Only events of habits have hashed ids or a logged plan.
HashedOfHabit ==
    \A h \in Habits, s \in Slots :
        event[<<h, s>>].state # "absent" => event[<<h, s>>].habit = h

LoggedOfHabit(id) ==
    log[id].exists => event[id].state # "absent" /\ event[id].habit # NoHabit

\* A document says what was last asked for.
MarkTrue(id) ==
    /\ log[id].status = marked[id]
    /\ log[id].completed_at <=> marked[id] = "completed"
    /\ ~log[id].exists => marked[id] = "pending"

MarksKnown == \A m \in Marks : mark[m].pc = "writing" => log[mark[m].id].exists

\* The plan is the event.
PlanTrue(id) ==
    /\ log[id].exists => Live(id) /\ event[id].slot = log[id].slot
    /\ Live(id) /\ event[id].habit # NoHabit => log[id].exists

PlansTrue ==
    \A id \in Ids \ unplanned :
        (\E c \in Calls : Logging(c) /\ call[c].id = id) \/ PlanTrue(id)

CalmFacts ==
    /\ OneCall /\ HashedOfHabit /\ MarksKnown /\ PlansTrue
    /\ \A c \in Calls : Matches(c) /\ Informed(c)
    /\ \A id \in Ids : LoggedOfHabit(id) /\ MarkTrue(id)

CalmInv == calm => CalmFacts

Symmetry == Permutations(Calls) \cup Permutations(Marks)
              \cup Permutations(Fresh) \cup Permutations(Slots)

=============================================================================
