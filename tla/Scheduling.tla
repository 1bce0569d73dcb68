------------------------------ MODULE Scheduling ------------------------------
(***************************************************************************)
(* The scheduling engine: from a user's zones, sleep schedule and calendar *)
(* events, the slots in which a habit's next session may be placed         *)
(* (get_available_slots), and which sessions a constraint collides with    *)
(* (find_zone_collisions, find_sleep_schedule_collisions).  One behaviour  *)
(* is one call, from what the backend and the calendar answered on; its    *)
(* loops are its steps.  Time is a number of minutes by the wall clock.    *)
(***************************************************************************)
EXTENDS Integers

CONSTANTS
    Day,        \* minutes in a day
    Week,       \* days in a week
    Labels,     \* labels of zones and the two fixed ones, "cool-down" and "wake-up"
    Change,     \* where the wall clock is put back or forward
    NoSleep,    \* no sleep schedule
    NoTime,     \* an override that leaves this field alone
    Asks        \* what may be asked for (bounds a run)

Later(s, t)   == IF s < t THEN t ELSE s
Earlier(s, t) == IF s < t THEN s ELSE t

Interval == [start : Int, end : Int]
Span(s, e) == [start |-> s, end |-> e]

\* Minutes since midnight, and days of the week.
Times    == 0 .. Day - 1
Weekdays == 0 .. Week - 1

Zone == [label : Labels, start : Times, end : Times, days : SUBSET Weekdays]

DayOverride == [sleep : Times \cup {NoTime}, wake : Times \cup {NoTime}]

SleepSchedule == [sleep : Times, wake : Times, cool : Nat, buffer : Nat,
                  overrides : [Weekdays -> DayOverride]]

Ask == [first   : Int, end : Int,           \* date_from, and date_to, which is exclusive
        zones   : SUBSET Zone,
        sleep   : SleepSchedule \cup {NoSleep},
        busy    : SUBSET Interval,          \* calendar events
        allowed : SUBSET Labels,            \* the habit's allowed_zones
        target  : BOOLEAN,                  \* its goal names a weekly total
        least   : Int, most : Int,          \* session lengths, given or from the goal
        gained  : Int]                      \* minutes the clock goes back at Change

ASSUME CalendarAssumption == Day \in Nat \ {0} /\ Week \in Nat \ {0} /\ Change \in Int
ASSUME AsksAreAsks == \A a \in Asks : a \in Ask

VARIABLES
    ask,        \* what is asked for
    pc,         \* how far the call is
    todo,       \* blocked intervals that _merge has not reached
    merged,     \* merged intervals that the sweep has not reached
    cursor,     \* the end of what the sweep has covered
    free,       \* gaps found so far
    slots       \* candidates

vars == <<ask, pc, todo, merged, cursor, free, slots>>

-----------------------------------------------------------------------------
(* Wall-clock times on concrete days. *)

Midnight(d) == d * Day
Weekday(d)  == d % Week

\* An end that is not after the start is on the next day, unless they are equal.
WallClock(d, s, e) ==
    Span(Midnight(d) + s, IF e < s THEN Midnight(d + 1) + e ELSE Midnight(d) + e)

\* Overrides go by the day on which the night ends.
SleepTime(s, d) ==
    LET time == s.overrides[Weekday(d)].sleep IN IF time = NoTime THEN s.sleep ELSE time

WakeTime(s, d) ==
    LET time == s.overrides[Weekday(d)].wake IN IF time = NoTime THEN s.wake ELSE time

\* Faulty: the override of the day on which the night begins.
NightByBedtime(s, d) ==
    LET eve == IF SleepTime(s, d) <= WakeTime(s, d) THEN d ELSE d - 1
    IN WallClock(eve, SleepTime(s, eve), WakeTime(s, eve))

\* The night that ends on day d.
Night(s, d) ==
    WallClock(IF SleepTime(s, d) <= WakeTime(s, d) THEN d ELSE d - 1,
              SleepTime(s, d), WakeTime(s, d))

CoolDown(s, d) == Span(Night(s, d).start - s.cool, Night(s, d).start)
WakeUp(s, d)   == Span(Night(s, d).end, Night(s, d).end + s.buffer)

ZoneOccurrences(a, z) ==
    {WallClock(d, z.start, z.end) : d \in {x \in a.first .. a.end - 1 : Weekday(x) \in z.days}}

\* What the sleep schedule blocks when the labels in allowed are overridden.
SleepWindows(a, allowed) ==
    IF a.sleep = NoSleep THEN {}
    ELSE LET nights == a.first .. a.end + 1
             s == a.sleep
         IN {Night(s, d) : d \in nights}
              \cup {CoolDown(s, d) : d \in {x \in nights : "cool-down" \notin allowed /\ 0 < s.cool}}
              \cup {WakeUp(s, d) : d \in {x \in nights : "wake-up" \notin allowed /\ 0 < s.buffer}}

RangeStart(a) == Midnight(a.first)
RangeEnd(a)   == Midnight(a.end)

Clip(a, S) ==
    {Span(Later(iv.start, RangeStart(a)), Earlier(iv.end, RangeEnd(a))) :
        iv \in {x \in S : Later(x.start, RangeStart(a)) < Earlier(x.end, RangeEnd(a))}}

Blocked(a) ==
    (UNION {ZoneOccurrences(a, z) : z \in {x \in a.zones : x.label \notin a.allowed}})
      \cup SleepWindows(a, a.allowed)
      \cup a.busy

-----------------------------------------------------------------------------
(* Candidates. *)

\* A habit without a weekly total that is allowed a zone has that zone's times.
ZoneAnchored(a) == ~a.target /\ \E z \in a.zones : z.label \in a.allowed

\* min_minutes and max_minutes, the right way round and at least 1.
Shortest(a) == Later(1, Earlier(a.least, a.most))
Longest(a)  == Later(Shortest(a), Later(a.least, a.most))

\* Real minutes: by the wall clock, and those by which it was put back between.
Elapsed(a, iv) ==
    iv.end - iv.start + (IF iv.start < Change /\ Change <= iv.end THEN a.gained ELSE 0)

\* Faulty: the longest session, whatever the gap holds.
SlicedLong(a, gaps) ==
    UNION {{Span(gap.start, gap.start + length) : length \in {Shortest(a), Longest(a)}} :
            gap \in {x \in gaps : Shortest(a) <= Elapsed(a, x)}}

\* Up to two candidates per gap, from its start on.
Sliced(a, gaps) ==
    UNION {{Span(gap.start, gap.start + length) :
              length \in {Shortest(a), Earlier(Longest(a), Elapsed(a, gap))}} :
            gap \in {x \in gaps : Shortest(a) <= Elapsed(a, x)}}

\* Faulty: touching is overlapping.
OverlapsOrTouches(iv, c) == iv.start <= c.end /\ c.start <= iv.end

Overlaps(iv, c) == iv.start < c.end /\ c.start < iv.end

\* An event of the period: is it tagged with a habit, and do its start and end
\* name a day, a time and an offset?
Event == [start : Int, end : Int, tagged : BOOLEAN, aware : BOOLEAN]

\* _adapt_habit_tagged_sessions drops every other event.
Adapted(events) == {ev \in events : ev.tagged /\ ev.aware /\ ev.start <= ev.end}

\* find_zone_collisions and find_sleep_schedule_collisions, over the events that
\* get_calendar_events has for the period.
ZoneCollisions(a, z, events) ==
    {ev \in Adapted(events) : \E c \in ZoneOccurrences(a, z) : Overlaps(ev, c)}

SleepCollisions(a, events) ==
    {ev \in Adapted(events) : \E c \in Clip(a, SleepWindows(a, {})) : Overlaps(ev, c)}

-----------------------------------------------------------------------------
(* The call. *)

Init ==
    /\ ask \in Asks
    /\ pc = "ask"
    /\ todo = {} /\ merged = {} /\ free = {} /\ slots = {}
    /\ cursor = RangeStart(ask)

TakeZoneTimes ==
    /\ pc = "ask" /\ ZoneAnchored(ask)
    /\ slots' = UNION {ZoneOccurrences(ask, z) : z \in {x \in ask.zones : x.label \in ask.allowed}}
    /\ pc' = "done"
    /\ UNCHANGED <<ask, todo, merged, cursor, free>>

\* free_intervals of a period without days.
NoDays ==
    /\ pc = "ask" /\ ~ZoneAnchored(ask) /\ ask.end <= ask.first
    /\ pc' = "slice"
    /\ UNCHANGED <<ask, todo, merged, cursor, free, slots>>

Collect ==
    /\ pc = "ask" /\ ~ZoneAnchored(ask) /\ ask.first < ask.end
    /\ todo' = Clip(ask, Blocked(ask))
    /\ pc' = "merge"
    /\ UNCHANGED <<ask, merged, cursor, free, slots>>

\* _merge goes through the intervals in the order of their starts.
First(S) == {iv \in S : \A other \in S : iv.start <= other.start}
Last(S)  == {iv \in S : \A other \in S : other.start <= iv.start}

\* Faulty: the interval that began last is taken to end last.
ExtendToItsEnd(iv, last) ==
    /\ iv.start <= last.end
    /\ merged' = (merged \ {last}) \cup {Span(last.start, iv.end)}

\* iv touches the last interval merged, last.
Extend(iv, last) ==
    /\ iv.start <= last.end
    /\ merged' = (merged \ {last}) \cup {Span(last.start, Later(last.end, iv.end))}

Merge ==
    /\ pc = "merge"
    /\ \E iv \in First(todo) :
        /\ todo' = todo \ {iv}
        /\ \/ \E last \in Last(merged) : Extend(iv, last)
           \/ (\A last \in Last(merged) : last.end < iv.start) /\ merged' = merged \cup {iv}
    /\ UNCHANGED <<ask, pc, cursor, free, slots>>

MergeEnds ==
    /\ pc = "merge" /\ todo = {}
    /\ cursor' = RangeStart(ask)
    /\ pc' = "sweep"
    /\ UNCHANGED <<ask, todo, merged, free, slots>>

\* The gap from the cursor to t, if there is one.
GapUpTo(t) == IF cursor < t THEN {Span(cursor, t)} ELSE {}

Sweep ==
    /\ pc = "sweep"
    /\ \E iv \in First(merged) :
        /\ merged' = merged \ {iv}
        /\ free' = free \cup GapUpTo(iv.start)
        /\ cursor' = Later(cursor, iv.end)
    /\ UNCHANGED <<ask, pc, todo, slots>>

SweepEnds ==
    /\ pc = "sweep" /\ merged = {}
    /\ free' = free \cup GapUpTo(RangeEnd(ask))
    /\ pc' = "slice"
    /\ UNCHANGED <<ask, todo, merged, cursor, slots>>

Slice ==
    /\ pc = "slice"
    /\ slots' = Sliced(ask, free)
    /\ pc' = "done"
    /\ UNCHANGED <<ask, todo, merged, cursor, free>>

Next == TakeZoneTimes \/ NoDays \/ Collect \/ Merge \/ MergeEnds \/ Sweep \/ SweepEnds \/ Slice

Spec == Init /\ [][Next]_vars

-----------------------------------------------------------------------------
(* Correctness. *)

Covered(t, S) == \E iv \in S : iv.start <= t /\ t < iv.end

Minutes(a) == IF a.first < a.end THEN RangeStart(a) .. RangeEnd(a) - 1 ELSE {}

\* The gaps are known.
Computed == pc \in {"slice", "done"} /\ ~ZoneAnchored(ask)

\* Intervals never run backwards (Interval.__post_init__ raises an error if
\* one does), and gaps and merged intervals are not empty.
TypeOK ==
    /\ ask \in Ask
    /\ pc \in {"ask", "merge", "sweep", "slice", "done"}
    /\ todo \cup merged \cup free \cup slots \subseteq Interval
    /\ cursor \in Int
    /\ \A iv \in todo \cup merged \cup free : iv.start < iv.end
    /\ \A iv \in slots : iv.start <= iv.end

\* free_intervals subtracts exactly what is blocked, however the blocked
\* intervals overlap, touch or contain each other, and its gaps are maximal:
\* between any two of them some time is blocked.
FreeIsTheRest ==
    Computed =>
        /\ \A t \in Minutes(ask) : Covered(t, free) <=> ~Covered(t, Blocked(ask))
        /\ \A gap \in free : RangeStart(ask) <= gap.start /\ gap.end <= RangeEnd(ask)
        /\ \A gap, other \in free : gap = other \/ gap.end < other.start \/ other.end < gap.start

\* By how much the clock is put back within gap.
PutBack(a, gap) == IF gap.start < Change /\ Change <= gap.end THEN Later(0, a.gained) ELSE 0

\* By the wall clock every candidate is as long as the habit's sessions may be,
\* and lies in one gap; only from a gap in which the clock is put back may it
\* stick out, and by no more than that (its end is the wall clock's at the start
\* plus real minutes, _slice_candidates).
SlotsFit ==
    pc = "done" /\ ~ZoneAnchored(ask) =>
        \A slot \in slots :
            /\ \E gap \in free :
                  gap.start <= slot.start /\ slot.end <= gap.end + PutBack(ask, gap)
            /\ slot.end - slot.start \in Shortest(ask) .. Longest(ask)

\* No candidate reaches past the gap it begins in: "the gap's own length" is the
\* most that _slice_candidates gives it, says its docstring.
SlotsStayInside ==
    pc = "done" /\ ~ZoneAnchored(ask) =>
        \A slot \in slots : \E gap \in free : gap.start <= slot.start /\ slot.end <= gap.end

\* What the day's rules say of a minute, told from its own day and time
\* instead of from intervals.
DayOf(t)  == t \div Day
TimeOf(t) == t % Day

\* Minute t is in zone z, in a window that begins on or after day from.
InZone(z, t, from) ==
    \/ /\ from <= DayOf(t) /\ Weekday(DayOf(t)) \in z.days
       /\ z.start <= TimeOf(t)
       /\ TimeOf(t) < z.end \/ z.end < z.start
    \/ /\ from < DayOf(t) /\ Weekday(DayOf(t) - 1) \in z.days
       /\ z.end < z.start /\ TimeOf(t) < z.end

\* The night that ends on day d began on the day before.
Overnight(s, d) == WakeTime(s, d) < SleepTime(s, d)

Asleep(s, t) ==
    \/ Overnight(s, DayOf(t)) /\ TimeOf(t) < WakeTime(s, DayOf(t))
    \/ Overnight(s, DayOf(t) + 1) /\ SleepTime(s, DayOf(t) + 1) <= TimeOf(t)
    \/ SleepTime(s, DayOf(t)) <= TimeOf(t) /\ TimeOf(t) < WakeTime(s, DayOf(t))

IsBedtime(s, t) ==
    \/ ~Overnight(s, DayOf(t)) /\ SleepTime(s, DayOf(t)) = TimeOf(t)
    \/ Overnight(s, DayOf(t) + 1) /\ SleepTime(s, DayOf(t) + 1) = TimeOf(t)

\* Nothing that the user has told the planner speaks against minute t.
Open(a, t, from) ==
    /\ \A z \in a.zones : z.label \in a.allowed \/ ~InZone(z, t, from)
    /\ \A iv \in a.busy : t < iv.start \/ iv.end <= t
    /\ a.sleep # NoSleep =>
        /\ ~Asleep(a.sleep, t)
        /\ "cool-down" \in a.allowed \/ \A u \in t + 1 .. t + a.sleep.cool : ~IsBedtime(a.sleep, u)
        /\ "wake-up" \in a.allowed \/ \A u \in t - a.sleep.buffer + 1 .. t :
            ~(TimeOf(u) = WakeTime(a.sleep, DayOf(u)) /\ from <= DayOf(u))

\* The free time of a period is what zones and nights that begin or end in it,
\* with the overrides of the right morning, and events leave open.
FreeIsOpen ==
    Computed => \A t \in Minutes(ask) : Covered(t, free) <=> Open(ask, t, ask.first)

\* A session as the planner puts it on the calendar.
HabitSession(from, to) == [start |-> from, end |-> to, tagged |-> TRUE, aware |-> TRUE]

\* The two answers the model works with agree: a habit's session that no
\* collision check reports, and that no event overlaps, lies in free time, and
\* one in free time is not reported.  A zone that ends when it starts is left
\* out: the checks report sessions around it, and it takes no free time.
CollisionsMatchFree ==
    Computed /\ {"cool-down", "wake-up"} \cap ask.allowed = {} =>
        \A from, to \in RangeStart(ask) .. RangeEnd(ask) :
            LET session == HabitSession(from, to)
                reported ==
                    \/ \E z \in ask.zones :
                        /\ z.label \notin ask.allowed /\ z.start # z.end
                        /\ ZoneCollisions(ask, z, {session}) # {}
                    \/ SleepCollisions(ask, {session}) # {}
                    \/ \E iv \in ask.busy : iv.start < iv.end /\ Overlaps(session, iv)
            IN from < to =>
                 (~reported <=> \E gap \in free : gap.start <= from /\ to <= gap.end)

\* Free time is free also of what began on the eve of the period: the
\* docstring of free_intervals promises the open time once zones and the
\* sleep schedule are subtracted, and a comment has the loop start a day early.
FreeFromTheEveOn ==
    Computed => \A t \in Minutes(ask) : Covered(t, free) => Open(ask, t, ask.first - 1)

\* A zone of no length collides with nothing, as Interval's docstring says.
EmptyZoneIsHarmless ==
    LET sessions == {HabitSession(slot.start, slot.end) : slot \in slots}
    IN \A z \in ask.zones : z.start = z.end => ZoneCollisions(ask, z, sessions) = {}

=============================================================================
