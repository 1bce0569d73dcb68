----------------------------- MODULE MCScheduling -----------------------------
(***************************************************************************)
(* An instance of Scheduling for TLC: days of four minutes, weeks of three *)
(* days, periods that begin on day 1.                                      *)
(***************************************************************************)
EXTENDS Scheduling, TLC

Plain == [first |-> 1, end |-> 2, zones |-> {}, sleep |-> NoSleep, busy |-> {}, allowed |-> {},
          target |-> TRUE, least |-> 1, most |-> 3, gained |-> 0]

WorkZones == [label : {"work"}, start : 0 .. 3, end : 0 .. 3, days : {{1}, {0, 1, 2}}]

GymZone == [label |-> "gym", start |-> 1, end |-> 3, days |-> {0, 1}]

\* Zones by themselves and with another, over one day, two or none; the habit
\* may be allowed one of them, and have a weekly total or not.
ZoneAsks ==
    {[Plain EXCEPT !.end = end, !.zones = {work} \cup others, !.allowed = allowed, !.target = target] :
        end \in {1, 2, 3}, work \in WorkZones, others \in {{}, {GymZone}},
        allowed \in {{}, {"gym"}}, target \in BOOLEAN}

NoOverride == [sleep |-> NoTime, wake |-> NoTime]

Schedules ==
    {[sleep |-> sleep, wake |-> wake, cool |-> cool, buffer |-> buffer,
      overrides |-> (1 :> [sleep |-> early, wake |-> late] @@ [w \in 0 .. 2 |-> NoOverride])] :
        sleep \in 0 .. 3, wake \in 0 .. 3, cool \in {0, 1}, buffer \in {0, 2},
        early \in {NoTime, 0, 2}, late \in {NoTime, 1, 3}}

\* Every night, with and without an override of one of the days.
SleepAsks ==
    {[Plain EXCEPT !.sleep = schedule, !.allowed = allowed, !.first = first, !.end = first + 1] :
        schedule \in Schedules, allowed \in {{}, {"cool-down"}, {"wake-up"}}, first \in {0, 1}}

Spans == UNION {{Span(s, e) : e \in s .. 9} : s \in 3 .. 8}

\* Two events in any position to each other and to the period, session lengths
\* out of order or below 1, and a clock put forward or back.
BusyAsks(gains) ==
    {[Plain EXCEPT !.busy = {one, two}, !.least = least, !.most = most, !.gained = gained] :
        one \in Spans, two \in Spans, least \in {-1, 2}, most \in {0, 1, 4}, gained \in gains}

\* All three at once.
MixedAsks ==
    {[Plain EXCEPT !.end = 3, !.zones = {work}, !.busy = {event}, !.sleep = schedule] :
        work \in WorkZones, event \in {Span(6, 7), Span(7, 9)},
        schedule \in {s \in Schedules : s.sleep = 3 /\ s.wake = 1 /\ s.cool = 1}}

MCAsks == ZoneAsks \cup SleepAsks \cup BusyAsks({-1, 0, 1}) \cup MixedAsks

\* The clock is put back.
FallBackAsks == BusyAsks({1})

=============================================================================
