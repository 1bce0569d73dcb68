--------------------------- MODULE SchedulingProofs ---------------------------
(***************************************************************************)
(* Theorems about Scheduling, for days and weeks of any length, any period *)
(* and any zones, sleep schedules and events.                              *)
(***************************************************************************)
EXTENDS Scheduling, TLAPS

\* Not empty, and inside the period.
Within(a, iv) ==
    /\ iv \in Interval
    /\ RangeStart(a) <= iv.start /\ iv.start < iv.end /\ iv.end <= RangeEnd(a)

\* Some time lies between any two of them.
Apart(S) == \A x, y \in S : x = y \/ x.end < y.start \/ y.end < x.start

\* The blocked time of the period.
Taken(t) == Covered(t, Clip(ask, Blocked(ask)))

Placing == ask.first < ask.end /\ ~ZoneAnchored(ask)

\* Nothing is found before the sweep, and no slots before the slicing.
Fresh ==
    /\ pc = "ask" => todo = {} /\ merged = {}
    /\ pc \in {"ask", "merge"} => free = {}
    /\ pc # "done" => slots = {}

\* What is merged is the part of the blocked time that begins first.
MergeInv ==
    pc = "merge" =>
        /\ Placing
        /\ \A iv \in todo \cup merged : Within(ask, iv)
        /\ Apart(merged)
        /\ merged = {} \/ Last(merged) # {}
        /\ \A m \in merged, iv \in todo : m.start <= iv.start
        /\ \A t \in Int : Covered(t, todo \cup merged) <=> Taken(t)

\* Up to the cursor the gaps are the rest, and after it what is merged is
\* what is blocked.
SweepInv ==
    pc = "sweep" =>
        /\ Placing
        /\ \A iv \in merged : Within(ask, iv) /\ cursor <= iv.start
        /\ Apart(merged)
        /\ cursor \in Int /\ RangeStart(ask) <= cursor /\ cursor <= RangeEnd(ask)
        /\ \A gap \in free : Within(ask, gap) /\ gap.end < cursor
        /\ Apart(free)
        /\ \A t \in Int : RangeStart(ask) <= t /\ t < cursor => (Covered(t, free) <=> ~Taken(t))
        /\ \A t \in Int : cursor <= t => (Covered(t, merged) <=> Taken(t))

\* The gaps, once they are known.
GapsInv ==
    Computed =>
        /\ \A gap \in free : Within(ask, gap)
        /\ Apart(free)
        /\ \A t \in Minutes(ask) : Covered(t, free) <=> ~Taken(t)

\* Candidates are cut from these gaps.
SlotsInv ==
    /\ ask \in Asks
    /\ pc = "slice" => ~ZoneAnchored(ask)
    /\ pc = "done" /\ ~ZoneAnchored(ask) => slots = Sliced(ask, free)

SchedulingInv ==
    /\ TypeOK
    /\ Fresh /\ MergeInv /\ SweepInv /\ GapsInv /\ SlotsInv

-----------------------------------------------------------------------------
(* Days and intervals. *)

LEMMA Midnights ==
    ASSUME NEW d \in Int
    PROVE  Midnight(d) \in Int /\ Midnight(d + 1) = Midnight(d) + Day
  BY CalendarAssumption DEF Midnight

LEMMA RangeIsInt ==
    ASSUME NEW a \in Ask
    PROVE  RangeStart(a) \in Int /\ RangeEnd(a) \in Int
  BY Midnights DEF RangeStart, RangeEnd, Ask

\* A period with days has minutes.
LEMMA RangeGrows ==
    ASSUME NEW a \in Ask, a.first < a.end
    PROVE  RangeStart(a) < RangeEnd(a)
<1>1. a.first \in Int /\ a.end \in Int /\ Day \in Int /\ 0 < Day
  BY CalendarAssumption DEF Ask
<1>2. \A m, n, k \in Int : m < n /\ 0 < k => m * k < n * k
  BY SMT
<1> QED
  BY <1>1, <1>2 DEF RangeStart, RangeEnd, Midnight

LEMMA RangeShrinks ==
    ASSUME NEW a \in Ask, ~(a.first < a.end)
    PROVE  RangeEnd(a) <= RangeStart(a)
<1>1. a.first \in Int /\ a.end \in Int /\ Day \in Int /\ 0 < Day
  BY CalendarAssumption DEF Ask
<1>2. \A m, n, k \in Int : m <= n /\ 0 < k => m * k <= n * k
  BY SMT
<1> QED
  BY <1>1, <1>2 DEF RangeStart, RangeEnd, Midnight

LEMMA SpanIsInterval ==
    ASSUME NEW s \in Int, NEW e \in Int
    PROVE  Span(s, e) \in Interval /\ Span(s, e).start = s /\ Span(s, e).end = e
  BY DEF Span, Interval

\* A window never runs backwards, and is empty only if its times are equal.
LEMMA WallClockRuns ==
    ASSUME NEW d \in Int, NEW s \in Times, NEW e \in Times
    PROVE  /\ WallClock(d, s, e) \in Interval
           /\ WallClock(d, s, e).start <= WallClock(d, s, e).end
           /\ s # e => WallClock(d, s, e).start < WallClock(d, s, e).end
           /\ s = e => WallClock(d, s, e).start = WallClock(d, s, e).end
<1>1. s \in Int /\ e \in Int /\ 0 <= s /\ 0 <= e /\ s < Day /\ e < Day /\ Day \in Int
  BY CalendarAssumption DEF Times
<1>2. Midnight(d) \in Int /\ Midnight(d + 1) = Midnight(d) + Day
  BY Midnights
<1> QED
  BY <1>1, <1>2 DEF WallClock, Span, Interval

LEMMA ZoneOccurrencesRun ==
    ASSUME NEW a \in Ask, NEW z \in a.zones, NEW c \in ZoneOccurrences(a, z)
    PROVE  c \in Interval /\ c.start <= c.end /\ (z.start = z.end <=> c.start = c.end)
<1>1. a.first \in Int /\ a.end \in Int /\ z.start \in Times /\ z.end \in Times
  BY DEF Ask, Zone
<1>2. PICK d \in a.first .. a.end - 1 : c = WallClock(d, z.start, z.end)
  BY DEF ZoneOccurrences
<1>3. d \in Int
  BY <1>1
<1>4. /\ c \in Interval /\ c.start <= c.end
      /\ z.start # z.end => c.start < c.end
      /\ z.start = z.end => c.start = c.end
  BY <1>1, <1>2, <1>3, WallClockRuns
<1> QED
  BY <1>4 DEF Interval

LEMMA NightIsInterval ==
    ASSUME NEW s \in SleepSchedule, NEW d \in Int
    PROVE  Night(s, d) \in Interval
<1>1. Weekday(d) \in Weekdays
  BY CalendarAssumption DEF Weekday, Weekdays
<1>2. s.overrides[Weekday(d)] \in DayOverride /\ s.sleep \in Times /\ s.wake \in Times
  BY <1>1 DEF SleepSchedule
<1>3. SleepTime(s, d) \in Times /\ WakeTime(s, d) \in Times
  BY <1>2 DEF SleepTime, WakeTime, DayOverride
<1>4. \A x \in {d, d - 1} : WallClock(x, SleepTime(s, d), WakeTime(s, d)) \in Interval
  BY <1>3, WallClockRuns
<1> QED
  BY <1>4 DEF Night

LEMMA WindowsAreIntervals ==
    ASSUME NEW a \in Ask, NEW allowed
    PROVE  SleepWindows(a, allowed) \subseteq Interval
<1>1. CASE a.sleep = NoSleep
  BY <1>1 DEF SleepWindows
<1>2. CASE a.sleep # NoSleep
  <2>1. a.sleep \in SleepSchedule /\ a.first \in Int /\ a.end \in Int
    BY <1>2 DEF Ask
  <2>2. a.sleep.cool \in Int /\ a.sleep.buffer \in Int
    BY <2>1 DEF SleepSchedule
  <2>3. \A d \in a.first .. a.end + 1 : Night(a.sleep, d) \in Interval
    BY <2>1, NightIsInterval
  <2>4. \A d \in a.first .. a.end + 1 :
            CoolDown(a.sleep, d) \in Interval /\ WakeUp(a.sleep, d) \in Interval
    BY <2>2, <2>3 DEF CoolDown, WakeUp, Span, Interval
  <2> QED
    BY <1>2, <2>3, <2>4 DEF SleepWindows
<1> QED
  BY <1>1, <1>2

LEMMA BlockedIsIntervals ==
    ASSUME NEW a \in Ask
    PROVE  Blocked(a) \subseteq Interval
<1>1. \A z \in a.zones : ZoneOccurrences(a, z) \subseteq Interval
  BY ZoneOccurrencesRun
<1>2. SleepWindows(a, a.allowed) \subseteq Interval
  BY WindowsAreIntervals
<1>3. a.busy \subseteq Interval
  BY DEF Ask
<1> QED
  BY <1>1, <1>2, <1>3 DEF Blocked

\* Clipping leaves intervals that are not empty, inside the period.
LEMMA ClippedIsWithin ==
    ASSUME NEW a \in Ask, NEW S \in SUBSET Interval, NEW c \in Clip(a, S)
    PROVE  Within(a, c)
<1>1. PICK iv \in S :
        /\ Later(iv.start, RangeStart(a)) < Earlier(iv.end, RangeEnd(a))
        /\ c = Span(Later(iv.start, RangeStart(a)), Earlier(iv.end, RangeEnd(a)))
  BY DEF Clip
<1>2. iv.start \in Int /\ iv.end \in Int /\ RangeStart(a) \in Int /\ RangeEnd(a) \in Int
  BY RangeIsInt DEF Interval
<1> QED
  BY <1>1, <1>2 DEF Within, Span, Interval, Later, Earlier

\* Clipping keeps what is covered of the period.
LEMMA ClippedCovers ==
    ASSUME NEW a \in Ask, NEW S \in SUBSET Interval, NEW t \in Int,
           RangeStart(a) <= t, t < RangeEnd(a)
    PROVE  Covered(t, Clip(a, S)) <=> Covered(t, S)
<1> DEFINE Cut(iv) == Span(Later(iv.start, RangeStart(a)), Earlier(iv.end, RangeEnd(a)))
<1>1. RangeStart(a) \in Int /\ RangeEnd(a) \in Int
  BY RangeIsInt
<1>2. \A iv \in S : /\ iv.start \in Int /\ iv.end \in Int
                    /\ Cut(iv).start = Later(iv.start, RangeStart(a))
                    /\ Cut(iv).end = Earlier(iv.end, RangeEnd(a))
  BY DEF Interval, Span
<1>3. ASSUME NEW iv \in S, iv.start <= t, t < iv.end
      PROVE  Covered(t, Clip(a, S))
  <2>1. Later(iv.start, RangeStart(a)) <= t /\ t < Earlier(iv.end, RangeEnd(a))
    BY <1>1, <1>2, <1>3 DEF Later, Earlier
  <2>2. Later(iv.start, RangeStart(a)) < Earlier(iv.end, RangeEnd(a))
    BY <1>1, <1>2, <2>1 DEF Later, Earlier
  <2>3. Cut(iv) \in Clip(a, S)
    BY <2>2 DEF Clip
  <2> QED
    BY <1>2, <2>1, <2>3 DEF Covered
<1>4. ASSUME NEW c \in Clip(a, S), c.start <= t, t < c.end
      PROVE  Covered(t, S)
  <2>1. PICK iv \in S : c = Cut(iv)
    BY DEF Clip
  <2>2. iv.start <= t /\ t < iv.end
    BY <1>1, <1>2, <1>4, <2>1 DEF Later, Earlier
  <2> QED
    BY <2>2 DEF Covered
<1> QED
  BY <1>3, <1>4 DEF Covered

-----------------------------------------------------------------------------
(* One step of each loop. *)

\* What is blocked in the period is made of intervals that are not empty.
LEMMA BlockedIsWithin ==
    ASSUME ask \in Ask
    PROVE  \A iv \in Clip(ask, Blocked(ask)) : Within(ask, iv)
  BY BlockedIsIntervals, ClippedIsWithin

\* The interval merged last grows by the one that touches it.
LEMMA ExtendKeepsMergeInv ==
    ASSUME ask \in Ask, pc = "merge", MergeInv,
           NEW iv \in First(todo), NEW last \in Last(merged),
           Extend(iv, last), todo' = todo \ {iv}, UNCHANGED <<ask, pc>>
    PROVE  MergeInv'
<1> DEFINE grown == Span(last.start, Later(last.end, iv.end))
<1>1. /\ Placing /\ iv \in todo /\ last \in merged
      /\ \A x \in todo \cup merged : Within(ask, x)
      /\ Apart(merged)
      /\ \A m \in merged, x \in todo : m.start <= x.start
      /\ \A x \in todo : iv.start <= x.start
      /\ \A m \in merged : m.start <= last.start
      /\ \A t \in Int : Covered(t, todo \cup merged) <=> Taken(t)
  BY DEF MergeInv, First, Last
<1>2. merged' = (merged \ {last}) \cup {grown} /\ iv.start <= last.end
  BY DEF Extend
<1>3. /\ RangeStart(ask) \in Int /\ RangeEnd(ask) \in Int
      /\ \A x \in todo \cup merged : x.start \in Int /\ x.end \in Int /\ x.start < x.end
  BY <1>1, RangeIsInt DEF Within, Interval
<1>4. last.start <= iv.start
  BY <1>1
<1>5. /\ grown \in Interval /\ grown.start = last.start
      /\ grown.end = Later(last.end, iv.end)
      /\ last.end <= grown.end /\ iv.end <= grown.end
      /\ grown.end = last.end \/ grown.end = iv.end
  BY <1>1, <1>3 DEF Span, Interval, Later
<1> HIDE DEF grown
<1>6. \A x \in todo' \cup merged' : Within(ask, x)'
  <2>1. Within(ask, grown)
    BY <1>1, <1>3, <1>5 DEF Within
  <2> QED
    BY <1>1, <1>2, <2>1 DEF Within, RangeStart, RangeEnd
<1>7. \A m \in merged : m = last \/ m.end < last.start
  BY <1>1, <1>3 DEF Apart
<1>8. Apart(merged)'
  <2>1. \A m \in merged : m = last \/ m.end < grown.start
    BY <1>5, <1>7
  <2> QED
    BY <1>1, <1>2, <2>1 DEF Apart
<1>9. Last(merged') # {}
  <2>1. \A m \in merged' : m.start <= grown.start
    BY <1>1, <1>2, <1>3, <1>5
  <2> QED
    BY <1>2, <2>1 DEF Last
<1>10. \A m \in merged', x \in todo' : m.start <= x.start
  BY <1>1, <1>2, <1>5
<1>11. ASSUME NEW t \in Int
       PROVE  Covered(t, todo' \cup merged') <=> Covered(t, todo \cup merged)
  <2>1. grown.start <= t /\ t < grown.end
            <=> (last.start <= t /\ t < last.end) \/ (iv.start <= t /\ t < iv.end)
    BY <1>1, <1>2, <1>3, <1>4, <1>5
  <2>2. ASSUME NEW x \in todo \cup merged, x.start <= t, t < x.end
        PROVE  Covered(t, todo' \cup merged')
    BY <1>2, <2>1, <2>2 DEF Covered
  <2>3. ASSUME NEW x \in todo' \cup merged', x.start <= t, t < x.end
        PROVE  Covered(t, todo \cup merged)
    BY <1>1, <1>2, <2>1, <2>3 DEF Covered
  <2> QED
    BY <2>2, <2>3 DEF Covered
<1>12. \A t \in Int : Taken(t)' <=> Taken(t)
  BY DEF Taken
<1>13. Placing'
  BY <1>1 DEF Placing
<1> QED
  BY <1>1, <1>6, <1>8, <1>9, <1>10, <1>11, <1>12, <1>13 DEF MergeInv

\* An interval that begins after everything merged is merged by itself.
LEMMA AppendKeepsMergeInv ==
    ASSUME ask \in Ask, pc = "merge", MergeInv,
           NEW iv \in First(todo), \A last \in Last(merged) : last.end < iv.start,
           merged' = merged \cup {iv}, todo' = todo \ {iv}, UNCHANGED <<ask, pc>>
    PROVE  MergeInv'
<1>1. /\ Placing /\ iv \in todo
      /\ \A x \in todo \cup merged : Within(ask, x)
      /\ Apart(merged) /\ (merged = {} \/ Last(merged) # {})
      /\ \A m \in merged, x \in todo : m.start <= x.start
      /\ \A x \in todo : iv.start <= x.start
      /\ \A t \in Int : Covered(t, todo \cup merged) <=> Taken(t)
  BY DEF MergeInv, First
<1>2. \A x \in todo \cup merged : x.start \in Int /\ x.end \in Int /\ x.start < x.end
  BY <1>1 DEF Within, Interval
<1>3. \A x \in todo' \cup merged' : Within(ask, x)'
  BY <1>1 DEF Within, RangeStart, RangeEnd
<1>4. \A m \in merged : m.end < iv.start
  <2>1. ASSUME NEW last \in Last(merged), NEW m \in merged
        PROVE  m = last \/ m.end < last.start
    BY <1>1, <1>2, <2>1 DEF Last, Apart
  <2>2. ASSUME NEW last \in Last(merged), NEW m \in merged
        PROVE  m.end < iv.start
    <3>1. last \in merged /\ last.end < iv.start /\ (m = last \/ m.end < last.start)
      BY <2>1 DEF Last
    <3> QED
      BY <1>1, <1>2, <3>1
  <2> QED
    BY <1>1, <2>2
<1>5. Apart(merged)'
  BY <1>1, <1>4 DEF Apart
<1>6. Last(merged') # {}
  <2>1. \A m \in merged' : m.start <= iv.start
    BY <1>1, <1>2
  <2> QED
    BY <2>1 DEF Last
<1>7. \A m \in merged', x \in todo' : m.start <= x.start
  BY <1>1
<1>8. todo' \cup merged' = todo \cup merged
  BY <1>1
<1>9. \A t \in Int : Taken(t)' <=> Taken(t)
  BY DEF Taken
<1>10. Placing'
  BY <1>1 DEF Placing
<1> QED
  BY <1>1, <1>3, <1>5, <1>6, <1>7, <1>8, <1>9, <1>10 DEF MergeInv

\* The sweep passes an interval and leaves the gap before it, if there is one.
LEMMA SweepKeepsSweepInv ==
    ASSUME ask \in Ask, pc = "sweep", SweepInv,
           NEW iv \in First(merged), merged' = merged \ {iv},
           free' = free \cup GapUpTo(iv.start), cursor' = Later(cursor, iv.end),
           UNCHANGED <<ask, pc>>
    PROVE  SweepInv'
<1>1. /\ Placing /\ iv \in merged
      /\ \A x \in merged : Within(ask, x) /\ cursor <= x.start
      /\ Apart(merged)
      /\ cursor \in Int /\ RangeStart(ask) <= cursor /\ cursor <= RangeEnd(ask)
      /\ \A gap \in free : Within(ask, gap) /\ gap.end < cursor
      /\ Apart(free)
      /\ \A t \in Int : RangeStart(ask) <= t /\ t < cursor => (Covered(t, free) <=> ~Taken(t))
      /\ \A t \in Int : cursor <= t => (Covered(t, merged) <=> Taken(t))
      /\ \A x \in merged : iv.start <= x.start
  BY DEF SweepInv, First
<1>2. /\ RangeStart(ask) \in Int /\ RangeEnd(ask) \in Int
      /\ \A x \in merged \cup free : x.start \in Int /\ x.end \in Int /\ x.start < x.end
  BY <1>1, RangeIsInt DEF Within, Interval
<1>3. /\ cursor' = iv.end /\ cursor' \in Int /\ cursor <= iv.start /\ iv.start < iv.end
      /\ iv.end <= RangeEnd(ask)
  BY <1>1, <1>2 DEF Later, Within
<1>4. \A x \in merged' : iv.end < x.start
  BY <1>1, <1>2 DEF Apart
<1>5. \A gap \in GapUpTo(iv.start) : /\ gap = Span(cursor, iv.start) /\ cursor < iv.start
                                     /\ gap.start = cursor /\ gap.end = iv.start
                                     /\ gap \in Interval
  BY <1>1, <1>2 DEF GapUpTo, Span, Interval
<1>6. \A gap \in GapUpTo(iv.start) : Within(ask, gap)
  BY <1>1, <1>2, <1>3, <1>5 DEF Within
<1>7. \A x \in merged' : Within(ask, x)' /\ cursor' <= x.start
  BY <1>1, <1>2, <1>3, <1>4 DEF Within, RangeStart, RangeEnd
<1>8. Apart(merged)' /\ Placing'
  BY <1>1 DEF Apart, Placing
<1>9. cursor' \in Int /\ RangeStart(ask)' <= cursor' /\ cursor' <= RangeEnd(ask)'
  BY <1>1, <1>2, <1>3 DEF RangeStart, RangeEnd
<1>10. \A gap \in free' : Within(ask, gap)' /\ gap.end < cursor'
  <2>1. \A gap \in free' : Within(ask, gap) /\ gap.end < cursor'
    BY <1>1, <1>2, <1>3, <1>5, <1>6
  <2> QED
    BY <2>1 DEF Within, RangeStart, RangeEnd
<1>11. Apart(free)'
  BY <1>1, <1>2, <1>5 DEF Apart
<1>12. ASSUME NEW t \in Int, RangeStart(ask) <= t, t < cursor'
       PROVE  Covered(t, free') <=> ~Taken(t)
  <2>1. CASE t < cursor
    <3>1. \A gap \in GapUpTo(iv.start) : ~(gap.start <= t)
      BY <1>1, <1>5, <2>1
    <3>2. \A x \in free' : x \in free \/ x \in GapUpTo(iv.start)
      OBVIOUS
    <3>3. Covered(t, free') <=> Covered(t, free)
      BY <3>1, <3>2 DEF Covered
    <3> QED
      BY <1>1, <1>12, <2>1, <3>3
  <2>2. CASE cursor <= t /\ t < iv.start
    <3>1. GapUpTo(iv.start) = {Span(cursor, iv.start)}
      BY <1>1, <1>2, <2>2 DEF GapUpTo
    <3>2. Covered(t, free')
      <4>1. \A gap \in GapUpTo(iv.start) : gap.start <= t /\ t < gap.end
        BY <1>5, <2>2
      <4>2. Span(cursor, iv.start) \in GapUpTo(iv.start)
        BY <3>1
      <4> QED
        BY <4>1, <4>2 DEF Covered
    <3>3. ~Covered(t, merged)
      BY <1>1, <1>2, <2>2 DEF Covered
    <3> QED
      BY <1>1, <2>2, <3>2, <3>3
  <2>3. CASE iv.start <= t
    <3>1. Covered(t, merged)
      BY <1>1, <1>3, <1>12, <2>3 DEF Covered
    <3>2. \A gap \in free' : gap.end <= iv.start
      BY <1>1, <1>2, <1>3, <1>5
    <3>3. ~Covered(t, free')
      BY <1>1, <1>2, <1>5, <2>3, <3>2 DEF Covered
    <3> QED
      BY <1>1, <1>2, <1>3, <2>3, <3>1, <3>3
  <2> QED
    BY <1>1, <1>2, <2>1, <2>2, <2>3
<1>13. ASSUME NEW t \in Int, cursor' <= t
       PROVE  Covered(t, merged') <=> Taken(t)
  <2>1. Covered(t, merged') <=> Covered(t, merged)
    BY <1>2, <1>3, <1>13 DEF Covered
  <2>2. cursor <= t
    BY <1>1, <1>2, <1>3, <1>13
  <2> QED
    BY <1>1, <2>1, <2>2
<1>14. \A t \in Int : Taken(t)' <=> Taken(t)
  BY DEF Taken
<1>15. RangeStart(ask)' = RangeStart(ask)
  BY DEF RangeStart
<1> QED
  BY <1>7, <1>8, <1>9, <1>10, <1>11, <1>12, <1>13, <1>14, <1>15 DEF SweepInv

\* After the last interval everything up to the end of the period is free.
LEMMA SweepEndGivesGaps ==
    ASSUME ask \in Ask, pc = "sweep", SweepInv, merged = {},
           free' = free \cup GapUpTo(RangeEnd(ask)), UNCHANGED ask
    PROVE  GapsInv'
<1>1. /\ Placing
      /\ cursor \in Int /\ RangeStart(ask) <= cursor /\ cursor <= RangeEnd(ask)
      /\ \A gap \in free : Within(ask, gap) /\ gap.end < cursor
      /\ Apart(free)
      /\ \A t \in Int : RangeStart(ask) <= t /\ t < cursor => (Covered(t, free) <=> ~Taken(t))
      /\ \A t \in Int : cursor <= t => ~Taken(t)
  BY DEF SweepInv, Covered
<1>2. /\ RangeStart(ask) \in Int /\ RangeEnd(ask) \in Int
      /\ \A x \in free : x.start \in Int /\ x.end \in Int /\ x.start < x.end
  BY <1>1, RangeIsInt DEF Within, Interval
<1>3. \A gap \in GapUpTo(RangeEnd(ask)) :
        /\ gap.start = cursor /\ gap.end = RangeEnd(ask) /\ cursor < RangeEnd(ask)
        /\ gap \in Interval
  BY <1>1, <1>2 DEF GapUpTo, Span, Interval
<1>4. \A gap \in free' : Within(ask, gap)'
  <2>1. \A gap \in free' : Within(ask, gap)
    BY <1>1, <1>2, <1>3 DEF Within
  <2> QED
    BY <2>1 DEF Within, RangeStart, RangeEnd
<1>5. \A x, y \in GapUpTo(RangeEnd(ask)) : x = y
  BY DEF GapUpTo
<1>6. Apart(free)'
  BY <1>1, <1>2, <1>3, <1>5 DEF Apart
<1>7. ASSUME NEW t \in Int, RangeStart(ask) <= t, t < RangeEnd(ask)
      PROVE  Covered(t, free') <=> ~Taken(t)
  <2>1. CASE t < cursor
    <3>1. Covered(t, free') <=> Covered(t, free)
      BY <1>1, <1>2, <1>3, <2>1 DEF Covered
    <3> QED
      BY <1>1, <1>7, <2>1, <3>1
  <2>2. CASE cursor <= t
    <3>1. GapUpTo(RangeEnd(ask)) = {Span(cursor, RangeEnd(ask))}
      BY <1>1, <1>2, <1>7, <2>2 DEF GapUpTo
    <3>2. Covered(t, free')
      <4>1. \A gap \in GapUpTo(RangeEnd(ask)) : gap.start <= t /\ t < gap.end
        BY <1>3, <1>7, <2>2
      <4>2. Span(cursor, RangeEnd(ask)) \in GapUpTo(RangeEnd(ask))
        BY <3>1
      <4> QED
        BY <4>1, <4>2 DEF Covered
    <3> QED
      BY <1>1, <2>2, <3>2
  <2> QED
    BY <1>1, <2>1, <2>2
<1>8. \A t \in Int : Taken(t)' <=> Taken(t)
  BY DEF Taken
<1>9. \A t \in Minutes(ask)' : t \in Int /\ RangeStart(ask) <= t /\ t < RangeEnd(ask)
  BY <1>2 DEF Minutes, RangeStart, RangeEnd
<1> QED
  BY <1>4, <1>6, <1>7, <1>8, <1>9 DEF GapsInv

\* A candidate begins with its gap, has a length that is allowed, and takes no
\* more minutes than the gap has.
LEMMA SlicedFits ==
    ASSUME NEW a \in Ask, NEW gaps \in SUBSET Interval, NEW slot \in Sliced(a, gaps)
    PROVE  /\ slot \in Interval /\ slot.start < slot.end
           /\ slot.end - slot.start \in Shortest(a) .. Longest(a)
           /\ \E gap \in gaps : slot.start = gap.start /\ slot.end - slot.start <= Elapsed(a, gap)
<1>1. PICK gap \in gaps : /\ Shortest(a) <= Elapsed(a, gap)
                          /\ \E length \in {Shortest(a), Earlier(Longest(a), Elapsed(a, gap))} :
                                slot = Span(gap.start, gap.start + length)
  BY DEF Sliced
<1>2. PICK length \in {Shortest(a), Earlier(Longest(a), Elapsed(a, gap))} :
        slot = Span(gap.start, gap.start + length)
  BY <1>1
<1>3. gap.start \in Int /\ gap.end \in Int
  BY DEF Interval
<1>4. Elapsed(a, gap) \in Int
  BY <1>3, CalendarAssumption DEF Elapsed, Ask
<1>5. a.least \in Int /\ a.most \in Int
  BY DEF Ask
<1>6. Earlier(a.least, a.most) \in Int /\ Later(a.least, a.most) \in Int
  BY <1>5 DEF Earlier, Later
<1>7. Shortest(a) \in Int /\ 1 <= Shortest(a)
  BY <1>6 DEF Shortest, Later
<1>8. Longest(a) \in Int /\ Shortest(a) <= Longest(a)
  BY <1>6, <1>7 DEF Longest, Later
<1>9. length \in Int /\ Shortest(a) <= length /\ length <= Longest(a) /\ length <= Elapsed(a, gap)
  BY <1>1, <1>4, <1>7, <1>8 DEF Earlier
<1>10. slot \in Interval /\ slot.start = gap.start /\ slot.end = gap.start + length
  BY <1>2, <1>3, <1>9 DEF Span, Interval
<1> QED
  BY <1>3, <1>7, <1>8, <1>9, <1>10

-----------------------------------------------------------------------------
(* The theorems. *)

LEMMA TypeStep ==
    ASSUME SchedulingInv, Next
    PROVE  TypeOK'
<1> USE DEF TypeOK
<1>1. CASE TakeZoneTimes
  <2>1. \A z \in ask.zones : \A c \in ZoneOccurrences(ask, z) : c \in Interval /\ c.start <= c.end
    BY ZoneOccurrencesRun DEF SchedulingInv
  <2>2. \A c \in slots' : c \in Interval /\ c.start <= c.end
    BY <1>1, <2>1 DEF TakeZoneTimes
  <2> QED
    BY <1>1, <2>2 DEF TakeZoneTimes, SchedulingInv
<1>2. CASE NoDays
  BY <1>2 DEF NoDays, SchedulingInv
<1>3. CASE Collect
  <2>1. \A iv \in todo' : iv \in Interval /\ iv.start < iv.end
    BY <1>3, BlockedIsWithin DEF Collect, SchedulingInv, Within
  <2> QED
    BY <1>3, <2>1 DEF Collect, SchedulingInv
<1>4. CASE Merge
  <2>1. PICK iv \in First(todo) :
          /\ todo' = todo \ {iv}
          /\ \/ \E last \in Last(merged) : Extend(iv, last)
             \/ merged' = merged \cup {iv}
    BY <1>4 DEF Merge
  <2>2. iv \in todo /\ iv.start \in Int /\ iv.end \in Int
    BY <2>1 DEF First, Interval, SchedulingInv
  <2>3. \A last \in Last(merged) :
          LET grown == Span(last.start, Later(last.end, iv.end))
          IN grown \in Interval /\ grown.start < grown.end
    BY <2>2 DEF Last, Span, Later, Interval, SchedulingInv
  <2>4. \A x \in merged' : x \in Interval /\ x.start < x.end
    BY <2>1, <2>2, <2>3 DEF Extend, SchedulingInv
  <2> QED
    BY <1>4, <2>1, <2>4 DEF Merge, SchedulingInv
<1>5. CASE MergeEnds
  BY <1>5, RangeIsInt DEF MergeEnds, SchedulingInv
<1>6. CASE Sweep
  <2>1. PICK iv \in First(merged) :
          /\ merged' = merged \ {iv}
          /\ free' = free \cup GapUpTo(iv.start)
          /\ cursor' = Later(cursor, iv.end)
    BY <1>6 DEF Sweep
  <2>2. iv.start \in Int /\ iv.end \in Int /\ cursor \in Int
    BY <2>1 DEF First, Interval, SchedulingInv
  <2>3. \A gap \in GapUpTo(iv.start) : gap \in Interval /\ gap.start < gap.end
    BY <2>2 DEF GapUpTo, Span, Interval
  <2>4. cursor' \in Int
    BY <2>1, <2>2 DEF Later
  <2> QED
    BY <1>6, <2>1, <2>3, <2>4 DEF Sweep, SchedulingInv
<1>7. CASE SweepEnds
  <2>1. \A gap \in GapUpTo(RangeEnd(ask)) : gap \in Interval /\ gap.start < gap.end
    BY RangeIsInt DEF GapUpTo, Span, Interval, SchedulingInv
  <2> QED
    BY <1>7, <2>1 DEF SweepEnds, SchedulingInv
<1>8. CASE Slice
  <2>1. \A slot \in slots' : slot \in Interval /\ slot.start < slot.end
    BY <1>8, SlicedFits DEF Slice, SchedulingInv
  <2>2. \A slot \in slots' : slot \in Interval /\ slot.start <= slot.end
    BY <2>1 DEF Interval
  <2> QED
    BY <1>8, <2>2 DEF Slice, SchedulingInv
<1> QED
  BY <1>1, <1>2, <1>3, <1>4, <1>5, <1>6, <1>7, <1>8 DEF Next

\* SchedulingInv is inductive, for any period, zones, schedule and events.
THEOREM SchedulingInvariant == Spec => []SchedulingInv
<1>1. Init => SchedulingInv
  <2> SUFFICES ASSUME Init PROVE SchedulingInv
    OBVIOUS
  <2>1. ask \in Ask /\ pc = "ask" /\ cursor \in Int
    BY AsksAreAsks, RangeIsInt DEF Init
  <2>2. TypeOK
    BY <2>1 DEF Init, TypeOK
  <2> QED
    BY <2>1, <2>2 DEF Init, SchedulingInv, Fresh, MergeInv, SweepInv, GapsInv, Computed, SlotsInv
<1>2. SchedulingInv /\ [Next]_vars => SchedulingInv'
  <2> SUFFICES ASSUME SchedulingInv, [Next]_vars PROVE SchedulingInv'
    OBVIOUS
  <2> USE DEF SchedulingInv
  <2>1. CASE UNCHANGED vars
    BY <2>1 DEF vars, TypeOK, Fresh, MergeInv, SweepInv, GapsInv, Computed, SlotsInv, Placing,
       Taken, Minutes, Within, RangeStart, RangeEnd
  <2>2. CASE Next
    <3>1. TypeOK' /\ ask \in Ask
      BY <2>2, TypeStep DEF TypeOK
    <3>2. CASE TakeZoneTimes
      BY <3>1, <3>2 DEF TakeZoneTimes, Fresh, MergeInv, SweepInv, GapsInv, Computed, SlotsInv
    <3>3. CASE NoDays
      <4>1. ~(ask.first < ask.end)
        BY <3>1, <3>3 DEF NoDays, Ask
      <4>2. GapsInv'
        BY <3>3, <4>1 DEF NoDays, GapsInv, Minutes, Fresh, Apart
      <4> QED
        BY <3>1, <3>3, <4>2 DEF NoDays, Fresh, MergeInv, SweepInv, SlotsInv
    <3>4. CASE Collect
      <4>1. MergeInv'
        <5>1. \A iv \in todo' \cup merged' : Within(ask, iv)'
          BY <3>1, <3>4, BlockedIsWithin DEF Collect, Fresh, Within, RangeStart, RangeEnd
        <5>2. \A t \in Int : Covered(t, todo' \cup merged') <=> Taken(t)'
          BY <3>4 DEF Collect, Fresh, Taken
        <5> QED
          BY <3>4, <5>1, <5>2 DEF Collect, Fresh, MergeInv, Placing, Apart
      <4> QED
        BY <3>1, <3>4, <4>1 DEF Collect, Fresh, SweepInv, GapsInv, Computed, SlotsInv
    <3>5. CASE Merge
      <4>1. MergeInv'
        BY <3>1, <3>5, ExtendKeepsMergeInv, AppendKeepsMergeInv DEF Merge
      <4> QED
        BY <3>1, <3>5, <4>1 DEF Merge, Fresh, SweepInv, GapsInv, Computed, SlotsInv
    <3>6. CASE MergeEnds
      <4>1. /\ Placing /\ Apart(merged) /\ free = {}
            /\ \A iv \in merged : Within(ask, iv)
            /\ \A t \in Int : Covered(t, merged) <=> Taken(t)
        BY <3>6 DEF MergeEnds, MergeInv, Fresh
      <4>2. /\ RangeStart(ask) \in Int /\ RangeEnd(ask) \in Int
            /\ RangeStart(ask) < RangeEnd(ask)
        BY <3>1, <4>1, RangeIsInt, RangeGrows DEF Placing
      <4>3. /\ cursor' \in Int /\ cursor' = RangeStart(ask)' /\ cursor' <= RangeEnd(ask)'
            /\ \A iv \in merged' : Within(ask, iv)' /\ cursor' <= iv.start
        BY <3>6, <4>1, <4>2 DEF MergeEnds, Within, RangeStart, RangeEnd
      <4>4. \A t \in Int : ~(RangeStart(ask)' <= t /\ t < cursor')
        BY <4>2, <4>3
      <4>5. \A t \in Int : Covered(t, merged)' <=> Taken(t)'
        BY <3>6, <4>1 DEF MergeEnds, Taken
      <4>6. Placing' /\ Apart(merged)' /\ Apart(free)' /\ free' = {}
        BY <3>6, <4>1 DEF MergeEnds, Placing, Apart
      <4>7. SweepInv'
        BY <4>2, <4>3, <4>4, <4>5, <4>6 DEF SweepInv, RangeStart
      <4> QED
        BY <3>1, <3>6, <4>7 DEF MergeEnds, Fresh, MergeInv, GapsInv, Computed, SlotsInv
    <3>7. CASE Sweep
      <4>1. SweepInv'
        BY <3>1, <3>7, SweepKeepsSweepInv DEF Sweep
      <4> QED
        BY <3>1, <3>7, <4>1 DEF Sweep, Fresh, MergeInv, GapsInv, Computed, SlotsInv
    <3>8. CASE SweepEnds
      <4>1. GapsInv'
        BY <3>1, <3>8, SweepEndGivesGaps DEF SweepEnds
      <4>2. ~ZoneAnchored(ask)'
        BY <3>8 DEF SweepEnds, SweepInv, Placing, ZoneAnchored
      <4> QED
        BY <3>1, <3>8, <4>1, <4>2 DEF SweepEnds, Fresh, MergeInv, SweepInv, SlotsInv
    <3>9. CASE Slice
      <4>1. GapsInv'
        BY <3>9 DEF Slice, GapsInv, Computed, SlotsInv, Within, Taken, Minutes, RangeStart, RangeEnd
      <4> QED
        BY <3>1, <3>9, <4>1 DEF Slice, Fresh, MergeInv, SweepInv, SlotsInv
    <3> QED
      BY <2>2, <3>2, <3>3, <3>4, <3>5, <3>6, <3>7, <3>8, <3>9 DEF Next
  <2> QED
    BY <2>1, <2>2
<1> QED
  BY <1>1, <1>2, PTL DEF Spec

\* Every interval the engine makes runs forwards: no constructor raises an error.
THEOREM TypeCorrect == Spec => []TypeOK
<1>1. SchedulingInv => TypeOK
  BY DEF SchedulingInv
<1> QED
  BY <1>1, SchedulingInvariant, PTL

\* free_intervals subtracts what is blocked and nothing else.
THEOREM FreeTimeIsTheRest == Spec => []FreeIsTheRest
<1>1. ASSUME SchedulingInv PROVE FreeIsTheRest
  <2>1. ask \in Ask
    BY <1>1 DEF SchedulingInv, TypeOK
  <2>2. RangeStart(ask) \in Int /\ RangeEnd(ask) \in Int /\ Blocked(ask) \subseteq Interval
    BY <2>1, RangeIsInt, BlockedIsIntervals
  <2>3. \A t \in Minutes(ask) : t \in Int /\ RangeStart(ask) <= t /\ t < RangeEnd(ask)
    BY <2>2 DEF Minutes
  <2>4. \A t \in Minutes(ask) : Taken(t) <=> Covered(t, Blocked(ask))
    BY <2>1, <2>2, <2>3, ClippedCovers DEF Taken
  <2>5. \A gap \in free : gap.start \in Int /\ gap.end \in Int
    BY <1>1 DEF SchedulingInv, TypeOK, Interval
  <2> QED
    BY <1>1, <2>2, <2>4, <2>5 DEF SchedulingInv, GapsInv, FreeIsTheRest, Within, Apart
<1> QED
  BY <1>1, SchedulingInvariant, PTL

\* Every candidate begins a gap and ends in it, or as far behind it as the clock
\* is put back within the gap, on any days and for any lengths.
THEOREM SlotsStayInGaps == Spec => []SlotsFit
<1>1. ASSUME SchedulingInv, pc = "done", ~ZoneAnchored(ask), NEW slot \in slots
      PROVE  /\ \E gap \in free :
                   gap.start <= slot.start /\ slot.end <= gap.end + PutBack(ask, gap)
             /\ slot.end - slot.start \in Shortest(ask) .. Longest(ask)
  <2>1. ask \in Ask /\ ask \in Asks /\ free \subseteq Interval /\ slots = Sliced(ask, free)
    BY <1>1 DEF SchedulingInv, SlotsInv, TypeOK
  <2>2. /\ slot \in Interval /\ slot.start < slot.end
        /\ slot.end - slot.start \in Shortest(ask) .. Longest(ask)
        /\ \E gap \in free : slot.start = gap.start /\ slot.end - slot.start <= Elapsed(ask, gap)
    BY <1>1, <2>1, SlicedFits
  <2>3. PICK gap \in free : slot.start = gap.start /\ slot.end - slot.start <= Elapsed(ask, gap)
    BY <2>2
  <2>4. gap.start \in Int /\ gap.end \in Int /\ slot.end \in Int
    BY <2>1, <2>2 DEF Interval
  <2>5. ask.gained \in Int /\ Change \in Int
    BY <2>1, CalendarAssumption DEF Ask
  <2>6. /\ Elapsed(ask, gap) \in Int /\ PutBack(ask, gap) \in Int
        /\ Elapsed(ask, gap) <= (gap.end - gap.start) + PutBack(ask, gap)
    BY <2>4, <2>5 DEF Elapsed, PutBack, Later
  <2>7. gap.start <= slot.start /\ slot.end <= gap.end + PutBack(ask, gap)
    BY <2>3, <2>4, <2>6
  <2> QED
    BY <2>2, <2>7
<1>2. SchedulingInv => SlotsFit
  BY <1>1 DEF SlotsFit
<1> QED
  BY <1>2, SchedulingInvariant, PTL

\* An interval that is not empty overlaps another one where they share a minute.
LEMMA OverlapIsSharedMinute ==
    ASSUME NEW p \in Interval, NEW c \in Interval, p.start < p.end, c.start < c.end
    PROVE  Overlaps(p, c) <=>
             \E t \in Int : p.start <= t /\ t < p.end /\ c.start <= t /\ t < c.end
<1>1. p.start \in Int /\ p.end \in Int /\ c.start \in Int /\ c.end \in Int
  BY DEF Interval
<1>2. ASSUME Overlaps(p, c)
      PROVE  \E t \in Int : p.start <= t /\ t < p.end /\ c.start <= t /\ t < c.end
  <2>1. CASE p.start <= c.start
    BY <1>1, <1>2, <2>1 DEF Overlaps
  <2>2. CASE c.start <= p.start
    BY <1>1, <1>2, <2>2 DEF Overlaps
  <2> QED
    BY <1>1, <2>1, <2>2
<1>3. ASSUME NEW t \in Int, p.start <= t, t < p.end, c.start <= t, t < c.end
      PROVE  Overlaps(p, c)
  BY <1>1, <1>3 DEF Overlaps
<1> QED
  BY <1>2, <1>3

\* Time that is free to its last minute lies in one gap.
LEMMA FreeMinutesShareGap ==
    ASSUME SchedulingInv, Computed, NEW p \in Interval, p.start < p.end,
           \A t \in Int : p.start <= t /\ t < p.end => Covered(t, free)
    PROVE  \E gap \in free : gap.start <= p.start /\ p.end <= gap.end
<1>1. /\ p.start \in Int /\ p.end \in Int
      /\ \A gap \in free : gap.start \in Int /\ gap.end \in Int /\ gap.start < gap.end
      /\ Apart(free)
  BY DEF SchedulingInv, TypeOK, GapsInv, Interval
<1>2. PICK gap \in free : gap.start <= p.start /\ p.start < gap.end
  BY <1>1 DEF Covered
<1>3. CASE p.end <= gap.end
  BY <1>2, <1>3
<1>4. CASE gap.end < p.end
  <2>1. PICK other \in free : other.start <= gap.end /\ gap.end < other.end
    BY <1>1, <1>2, <1>4 DEF Covered
  <2> QED
    BY <1>1, <1>2, <2>1 DEF Apart
<1> QED
  BY <1>1, <1>2, <1>3, <1>4

\* A collision check reports a habit's session where one of its windows overlaps.
LEMMA ChecksOfOne ==
    ASSUME NEW a, NEW z, NEW p \in Interval, p.start < p.end
    PROVE  /\ ZoneCollisions(a, z, {HabitSession(p.start, p.end)}) # {}
                <=> \E c \in ZoneOccurrences(a, z) : Overlaps(p, c)
           /\ SleepCollisions(a, {HabitSession(p.start, p.end)}) # {}
                <=> \E c \in Clip(a, SleepWindows(a, {})) : Overlaps(p, c)
<1> DEFINE session == HabitSession(p.start, p.end)
<1>1. p.start \in Int /\ p.end \in Int
  BY DEF Interval
<1>2. session.start = p.start /\ session.end = p.end /\ session.tagged /\ session.aware
  BY DEF HabitSession
<1>3. session.start <= session.end
  BY <1>1, <1>2
<1> HIDE DEF session
<1>4. Adapted({session}) = {session}
  BY <1>2, <1>3 DEF Adapted
<1>5. \A c : Overlaps(session, c) <=> Overlaps(p, c)
  BY <1>2 DEF Overlaps
<1>6. /\ ZoneCollisions(a, z, {session}) # {}
           <=> \E c \in ZoneOccurrences(a, z) : Overlaps(p, c)
      /\ SleepCollisions(a, {session}) # {}
           <=> \E c \in Clip(a, SleepWindows(a, {})) : Overlaps(p, c)
  BY <1>4, <1>5 DEF ZoneCollisions, SleepCollisions
<1> QED BY <1>6 DEF session

\* Without overrides, what the collision checks or an event speak against is a
\* minute that is blocked.
LEMMA ReportedIsBlocked ==
    ASSUME NEW a \in Ask, {"cool-down", "wake-up"} \cap a.allowed = {},
           NEW p \in Interval, RangeStart(a) <= p.start, p.start < p.end, p.end <= RangeEnd(a)
    PROVE  (\/ \E z \in a.zones : /\ z.label \notin a.allowed /\ z.start # z.end
                                  /\ ZoneCollisions(a, z, {HabitSession(p.start, p.end)}) # {}
            \/ SleepCollisions(a, {HabitSession(p.start, p.end)}) # {}
            \/ \E iv \in a.busy : iv.start < iv.end /\ Overlaps(p, iv))
             <=> \E t \in Int : p.start <= t /\ t < p.end /\ Covered(t, Blocked(a))
<1> DEFINE Shared(c) == \E t \in Int : p.start <= t /\ t < p.end /\ c.start <= t /\ t < c.end
           Windows == SleepWindows(a, {})
<1>1. p.start \in Int /\ p.end \in Int /\ RangeStart(a) \in Int /\ RangeEnd(a) \in Int
  BY RangeIsInt DEF Interval
<1>2. SleepWindows(a, a.allowed) = Windows
  BY DEF SleepWindows
<1>3. Windows \subseteq Interval /\ a.busy \subseteq Interval
  BY WindowsAreIntervals DEF Ask
<1>4. \A c \in Clip(a, Windows) : c \in Interval /\ c.start < c.end
  BY <1>3, ClippedIsWithin DEF Within
<1> HIDE DEF Windows
<1>5. ASSUME NEW z \in a.zones, z.label \notin a.allowed, z.start # z.end,
             ZoneCollisions(a, z, {HabitSession(p.start, p.end)}) # {}
      PROVE  \E t \in Int : p.start <= t /\ t < p.end /\ Covered(t, Blocked(a))
  <2>1. PICK c \in ZoneOccurrences(a, z) : Overlaps(p, c)
    BY <1>5, ChecksOfOne
  <2>2. c \in Interval /\ c.start < c.end
    BY <1>5, ZoneOccurrencesRun DEF Interval
  <2>3. Shared(c)
    BY <2>1, <2>2, OverlapIsSharedMinute
  <2>4. c \in Blocked(a)
    BY <1>5 DEF Blocked
  <2> QED
    BY <2>3, <2>4 DEF Covered
<1>6. ASSUME SleepCollisions(a, {HabitSession(p.start, p.end)}) # {}
      PROVE  \E t \in Int : p.start <= t /\ t < p.end /\ Covered(t, Blocked(a))
  <2>1. PICK c \in Clip(a, Windows) : Overlaps(p, c)
    BY <1>6, ChecksOfOne DEF Windows
  <2>2. PICK t \in Int : p.start <= t /\ t < p.end /\ c.start <= t /\ t < c.end
    BY <1>4, <2>1, OverlapIsSharedMinute
  <2>3. Covered(t, Clip(a, Windows))
    BY <2>2 DEF Covered
  <2>4. Covered(t, Windows)
    BY <1>1, <1>3, <2>2, <2>3, ClippedCovers
  <2>5. Covered(t, Blocked(a))
    BY <1>2, <2>4 DEF Covered, Blocked
  <2> QED
    BY <2>2, <2>5
<1>7. ASSUME NEW iv \in a.busy, iv.start < iv.end, Overlaps(p, iv)
      PROVE  \E t \in Int : p.start <= t /\ t < p.end /\ Covered(t, Blocked(a))
  <2>1. Shared(iv)
    BY <1>3, <1>7, OverlapIsSharedMinute
  <2>2. iv \in Blocked(a)
    BY DEF Blocked
  <2> QED
    BY <2>1, <2>2 DEF Covered
<1>8. ASSUME NEW t \in Int, p.start <= t, t < p.end, Covered(t, Blocked(a))
      PROVE  \/ \E z \in a.zones : /\ z.label \notin a.allowed /\ z.start # z.end
                                   /\ ZoneCollisions(a, z, {HabitSession(p.start, p.end)}) # {}
             \/ SleepCollisions(a, {HabitSession(p.start, p.end)}) # {}
             \/ \E iv \in a.busy : iv.start < iv.end /\ Overlaps(p, iv)
  <2>1. PICK b \in Blocked(a) : b.start <= t /\ t < b.end
    BY <1>8 DEF Covered
  <2>2. b \in Interval /\ b.start \in Int /\ b.end \in Int
    BY BlockedIsIntervals DEF Interval
  <2>3. b.start < b.end /\ Overlaps(p, b)
    BY <1>1, <1>8, <2>1, <2>2 DEF Overlaps
  <2>4. CASE \E z \in a.zones : z.label \notin a.allowed /\ b \in ZoneOccurrences(a, z)
    <3>1. PICK z \in a.zones : z.label \notin a.allowed /\ b \in ZoneOccurrences(a, z)
      BY <2>4
    <3>2. z.start # z.end
      BY <2>2, <2>3, <3>1, ZoneOccurrencesRun
    <3>3. ZoneCollisions(a, z, {HabitSession(p.start, p.end)}) # {}
      BY <2>3, <3>1, ChecksOfOne
    <3> QED
      BY <3>1, <3>2, <3>3
  <2>5. CASE b \in Windows
    <3>1. Covered(t, Windows)
      BY <2>1, <2>5 DEF Covered
    <3>2. Covered(t, Clip(a, Windows))
      BY <1>1, <1>3, <1>8, <3>1, ClippedCovers
    <3>3. PICK c \in Clip(a, Windows) : c.start <= t /\ t < c.end
      BY <3>2 DEF Covered
    <3>4. Overlaps(p, c)
      BY <1>1, <1>4, <1>8, <3>3 DEF Overlaps, Interval
    <3>5. SleepCollisions(a, {HabitSession(p.start, p.end)}) # {}
      BY <3>4, ChecksOfOne DEF Windows
    <3> QED
      BY <3>5
  <2>6. CASE b \in a.busy
    BY <2>3, <2>6
  <2> QED
    BY <1>2, <2>1, <2>4, <2>5, <2>6 DEF Blocked
<1> QED
  BY <1>5, <1>6, <1>7, <1>8

\* The collision checks, which build their own occurrences, and free_intervals
\* agree on every session.
THEOREM ChecksAgree == Spec => []CollisionsMatchFree
<1>1. ASSUME SchedulingInv, Computed, {"cool-down", "wake-up"} \cap ask.allowed = {},
             NEW from \in RangeStart(ask) .. RangeEnd(ask),
             NEW to \in RangeStart(ask) .. RangeEnd(ask), from < to
      PROVE  (\E t \in Int : from <= t /\ t < to /\ Covered(t, Blocked(ask)))
               <=> ~\E gap \in free : gap.start <= from /\ to <= gap.end
  <2>1. /\ ask \in Ask
        /\ \A gap \in free : gap.start \in Int /\ gap.end \in Int
        /\ \A t \in Minutes(ask) : Covered(t, free) <=> ~Taken(t)
    BY <1>1 DEF SchedulingInv, TypeOK, GapsInv, Interval
  <2>2. /\ RangeStart(ask) \in Int /\ RangeEnd(ask) \in Int /\ from \in Int /\ to \in Int
        /\ Blocked(ask) \subseteq Interval
    BY <2>1, RangeIsInt, BlockedIsIntervals
  <2>3. ask.first < ask.end
    BY <1>1, <2>1, <2>2, RangeShrinks
  <2>4. ASSUME NEW t \in Int, from <= t, t < to
        PROVE  Covered(t, free) <=> ~Covered(t, Blocked(ask))
    <3>1. RangeStart(ask) <= t /\ t < RangeEnd(ask)
      BY <2>2, <2>4
    <3>2. t \in Minutes(ask)
      BY <2>2, <2>3, <3>1 DEF Minutes
    <3>3. Taken(t) <=> Covered(t, Blocked(ask))
      BY <2>1, <2>2, <3>1, ClippedCovers DEF Taken
    <3> QED
      BY <2>1, <3>2, <3>3
  <2>5. ASSUME NEW gap \in free, gap.start <= from, to <= gap.end, NEW t \in Int, from <= t, t < to
        PROVE  ~Covered(t, Blocked(ask))
    <3>1. gap.start <= t /\ t < gap.end
      BY <2>1, <2>2, <2>5
    <3>2. Covered(t, free)
      BY <3>1 DEF Covered
    <3> QED
      BY <2>4, <2>5, <3>2
  <2>6. ASSUME \A t \in Int : from <= t /\ t < to => ~Covered(t, Blocked(ask))
        PROVE  \E gap \in free : gap.start <= from /\ to <= gap.end
    <3> DEFINE p == Span(from, to)
    <3>1. p \in Interval /\ p.start = from /\ p.end = to
      BY <2>2, SpanIsInterval
    <3> HIDE DEF p
    <3>2. \A t \in Int : p.start <= t /\ t < p.end => Covered(t, free)
      BY <2>4, <2>6, <3>1
    <3>3. p.start < p.end
      BY <1>1, <3>1
    <3>4. \E gap \in free : gap.start <= p.start /\ p.end <= gap.end
      BY <1>1, <3>1, <3>2, <3>3, FreeMinutesShareGap
    <3> QED
      BY <3>1, <3>4
  <2> QED
    BY <2>5, <2>6
<1>2. ASSUME SchedulingInv, Computed, {"cool-down", "wake-up"} \cap ask.allowed = {},
             NEW from \in RangeStart(ask) .. RangeEnd(ask),
             NEW to \in RangeStart(ask) .. RangeEnd(ask), from < to
      PROVE  (\/ \E z \in ask.zones : /\ z.label \notin ask.allowed /\ z.start # z.end
                                      /\ ZoneCollisions(ask, z, {HabitSession(from, to)}) # {}
              \/ SleepCollisions(ask, {HabitSession(from, to)}) # {}
              \/ \E iv \in ask.busy : iv.start < iv.end /\ Overlaps(HabitSession(from, to), iv))
               <=> \E t \in Int : from <= t /\ t < to /\ Covered(t, Blocked(ask))
  <2> DEFINE p == Span(from, to)
  <2>1. ask \in Ask
    BY <1>2 DEF SchedulingInv, TypeOK
  <2>2. /\ RangeStart(ask) \in Int /\ RangeEnd(ask) \in Int /\ from \in Int /\ to \in Int
        /\ RangeStart(ask) <= from /\ to <= RangeEnd(ask)
    BY <2>1, RangeIsInt
  <2>3. p \in Interval /\ p.start = from /\ p.end = to
    BY <2>2, SpanIsInterval
  <2> HIDE DEF p
  <2>4. (\/ \E z \in ask.zones : /\ z.label \notin ask.allowed /\ z.start # z.end
                                 /\ ZoneCollisions(ask, z, {HabitSession(p.start, p.end)}) # {}
         \/ SleepCollisions(ask, {HabitSession(p.start, p.end)}) # {}
         \/ \E iv \in ask.busy : iv.start < iv.end /\ Overlaps(p, iv))
          <=> \E t \in Int : p.start <= t /\ t < p.end /\ Covered(t, Blocked(ask))
    BY <1>2, <2>1, <2>2, <2>3, ReportedIsBlocked
  <2>5. \A iv : Overlaps(HabitSession(from, to), iv) <=> Overlaps(p, iv)
    BY <2>3 DEF Overlaps, HabitSession
  <2> QED
    BY <2>3, <2>4, <2>5
<1>3. ASSUME SchedulingInv PROVE CollisionsMatchFree
  BY <1>1, <1>2, <1>3 DEF CollisionsMatchFree
<1> QED
  BY <1>3, SchedulingInvariant, PTL
-----------------------------------------------------------------------------
(* Days and times of day: what the rules say of a minute. *)

\* Days follow each other.
LEMMA MidnightsGrow ==
    ASSUME NEW d \in Int, NEW e \in Int, d < e
    PROVE  Midnight(d) + Day <= Midnight(e)
<1>1. Day \in Int /\ 0 < Day
  BY CalendarAssumption
<1>2. \A m, n, k \in Int : m < n /\ 0 < k => m * k + k <= n * k
  BY SMT
<1> QED
  BY <1>1, <1>2 DEF Midnight

\* A minute is a time of its day.
LEMMA Clock ==
    ASSUME NEW t \in Int
    PROVE  DayOf(t) \in Int /\ TimeOf(t) \in Times /\ t = Midnight(DayOf(t)) + TimeOf(t)
<1>1. Day \in Int /\ 0 < Day
  BY CalendarAssumption
<1>2. /\ t \div Day \in Int /\ t % Day \in 0 .. Day - 1
      /\ t = (t \div Day) * Day + (t % Day)
  BY <1>1
<1> QED
  BY <1>1, <1>2 DEF DayOf, TimeOf, Times, Midnight

\* Minutes are ordered by their days, and on one day by their times.
LEMMA ClockOrder ==
    ASSUME NEW t \in Int, NEW d \in Int, NEW s \in Times
    PROVE  /\ Midnight(d) + s <= t <=> d < DayOf(t) \/ (d = DayOf(t) /\ s <= TimeOf(t))
           /\ t < Midnight(d) + s <=> DayOf(t) < d \/ (d = DayOf(t) /\ TimeOf(t) < s)
           /\ t = Midnight(d) + s <=> d = DayOf(t) /\ s = TimeOf(t)
<1>1. /\ DayOf(t) \in Int /\ t = Midnight(DayOf(t)) + TimeOf(t)
      /\ TimeOf(t) \in Int /\ 0 <= TimeOf(t) /\ TimeOf(t) < Day
      /\ s \in Int /\ 0 <= s /\ s < Day /\ Day \in Int
  BY Clock, CalendarAssumption DEF Times
<1>2. Midnight(d) \in Int /\ Midnight(DayOf(t)) \in Int
  BY <1>1, Midnights
<1>3. CASE d < DayOf(t)
  <2>1. Midnight(d) + Day <= Midnight(DayOf(t))
    BY <1>1, <1>3, MidnightsGrow
  <2> QED
    BY <1>1, <1>2, <1>3, <2>1
<1>4. CASE DayOf(t) < d
  <2>1. Midnight(DayOf(t)) + Day <= Midnight(d)
    BY <1>1, <1>4, MidnightsGrow
  <2> QED
    BY <1>1, <1>2, <1>4, <2>1
<1>5. CASE d = DayOf(t)
  BY <1>1, <1>2, <1>5
<1> QED
  BY <1>1, <1>3, <1>4, <1>5

\* The minutes of a period are those of its days.
LEMMA PeriodByDays ==
    ASSUME NEW a \in Ask, NEW t \in Minutes(a)
    PROVE  t \in Int /\ a.first <= DayOf(t) /\ DayOf(t) < a.end
<1>1. /\ a.first \in Int /\ a.end \in Int /\ RangeStart(a) \in Int /\ RangeEnd(a) \in Int
      /\ t \in Int /\ RangeStart(a) <= t /\ t < RangeEnd(a)
  BY RangeIsInt DEF Minutes, Ask
<1>2. 0 \in Times /\ Midnight(a.first) \in Int /\ Midnight(a.end) \in Int
  BY <1>1, CalendarAssumption, Midnights DEF Times
<1>3. Midnight(a.first) + 0 <= t /\ t < Midnight(a.end) + 0
  BY <1>1, <1>2 DEF RangeStart, RangeEnd
<1>4. DayOf(t) \in Int /\ TimeOf(t) \in Int /\ 0 <= TimeOf(t)
  BY <1>1, Clock, CalendarAssumption DEF Times
<1> QED
  BY <1>1, <1>2, <1>3, <1>4, ClockOrder

\* A window that is laid on day d, told from a minute's own day and time.
LEMMA InWallClock ==
    ASSUME NEW t \in Int, NEW d \in Int, NEW s \in Times, NEW e \in Times
    PROVE  (WallClock(d, s, e).start <= t /\ t < WallClock(d, s, e).end)
             <=> \/ /\ d = DayOf(t) /\ s <= TimeOf(t)
                    /\ TimeOf(t) < e \/ e < s
                 \/ d = DayOf(t) - 1 /\ e < s /\ TimeOf(t) < e
<1>1. /\ DayOf(t) \in Int /\ TimeOf(t) \in Int /\ s \in Int /\ e \in Int
      /\ 0 <= TimeOf(t) /\ TimeOf(t) < Day /\ Day \in Int
  BY Clock, CalendarAssumption DEF Times
<1>2. WallClock(d, s, e).start <= t <=> d < DayOf(t) \/ (d = DayOf(t) /\ s <= TimeOf(t))
  BY ClockOrder DEF WallClock, Span
<1>3. CASE e < s
  <2>1. WallClock(d, s, e).end = Midnight(d + 1) + e
    BY <1>3 DEF WallClock, Span
  <2>2. d + 1 \in Int
    OBVIOUS
  <2>3. t < Midnight(d + 1) + e <=> DayOf(t) < d + 1 \/ (d + 1 = DayOf(t) /\ TimeOf(t) < e)
    BY <2>2, ClockOrder
  <2> QED
    BY <1>1, <1>2, <1>3, <2>1, <2>3
<1>4. CASE ~(e < s)
  <2>1. WallClock(d, s, e).end = Midnight(d) + e
    BY <1>4 DEF WallClock, Span
  <2>2. t < Midnight(d) + e <=> DayOf(t) < d \/ (d = DayOf(t) /\ TimeOf(t) < e)
    BY ClockOrder
  <2> QED
    BY <1>1, <1>2, <1>4, <2>1, <2>2
<1> QED
  BY <1>3, <1>4

\* A zone's occurrences in the period.
LEMMA ZoneByClock ==
    ASSUME NEW a \in Ask, NEW z \in a.zones, NEW t \in Minutes(a)
    PROVE  Covered(t, ZoneOccurrences(a, z)) <=> InZone(z, t, a.first)
<1>1. /\ t \in Int /\ a.first <= DayOf(t) /\ DayOf(t) < a.end
      /\ a.first \in Int /\ a.end \in Int /\ z.start \in Times /\ z.end \in Times
  BY PeriodByDays DEF Ask, Zone
<1>2. DayOf(t) \in Int
  BY <1>1, Clock
<1>3. ASSUME Covered(t, ZoneOccurrences(a, z))
      PROVE  InZone(z, t, a.first)
  <2>1. PICK d \in a.first .. a.end - 1 :
            /\ Weekday(d) \in z.days
            /\ WallClock(d, z.start, z.end).start <= t /\ t < WallClock(d, z.start, z.end).end
    BY <1>3 DEF Covered, ZoneOccurrences
  <2>2. d \in Int /\ a.first <= d
    BY <1>1, <2>1
  <2>3. \/ /\ d = DayOf(t) /\ z.start <= TimeOf(t)
           /\ TimeOf(t) < z.end \/ z.end < z.start
        \/ d = DayOf(t) - 1 /\ z.end < z.start /\ TimeOf(t) < z.end
    BY <1>1, <2>1, <2>2, InWallClock
  <2> QED
    BY <1>1, <1>2, <2>1, <2>2, <2>3 DEF InZone
<1>4. ASSUME InZone(z, t, a.first)
      PROVE  Covered(t, ZoneOccurrences(a, z))
  <2>1. \E d \in {DayOf(t), DayOf(t) - 1} :
            /\ a.first <= d /\ d < a.end /\ Weekday(d) \in z.days
            /\ \/ /\ d = DayOf(t) /\ z.start <= TimeOf(t)
                  /\ TimeOf(t) < z.end \/ z.end < z.start
               \/ d = DayOf(t) - 1 /\ z.end < z.start /\ TimeOf(t) < z.end
    BY <1>1, <1>2, <1>4 DEF InZone
  <2>2. PICK d \in {DayOf(t), DayOf(t) - 1} :
            /\ a.first <= d /\ d < a.end /\ Weekday(d) \in z.days
            /\ \/ /\ d = DayOf(t) /\ z.start <= TimeOf(t)
                  /\ TimeOf(t) < z.end \/ z.end < z.start
               \/ d = DayOf(t) - 1 /\ z.end < z.start /\ TimeOf(t) < z.end
    BY <2>1
  <2>3. d \in Int /\ d \in a.first .. a.end - 1
    BY <1>1, <1>2, <2>2
  <2>4. WallClock(d, z.start, z.end).start <= t /\ t < WallClock(d, z.start, z.end).end
    BY <1>1, <2>2, <2>3, InWallClock
  <2>5. WallClock(d, z.start, z.end) \in ZoneOccurrences(a, z)
    BY <2>2, <2>3 DEF ZoneOccurrences
  <2> QED
    BY <2>4, <2>5 DEF Covered
<1> QED
  BY <1>3, <1>4

LEMMA NightTimes ==
    ASSUME NEW s \in SleepSchedule, NEW d \in Int
    PROVE  SleepTime(s, d) \in Times /\ WakeTime(s, d) \in Times
<1>1. Weekday(d) \in Weekdays
  BY CalendarAssumption DEF Weekday, Weekdays
<1>2. s.overrides[Weekday(d)] \in DayOverride /\ s.sleep \in Times /\ s.wake \in Times
  BY <1>1 DEF SleepSchedule
<1> QED
  BY <1>2 DEF SleepTime, WakeTime, DayOverride

\* The night that ends on day d ends at that day's wake time, and begins at its
\* sleep time, on its eve if that is later.
LEMMA NightEnds ==
    ASSUME NEW s \in SleepSchedule, NEW d \in Int
    PROVE  /\ Night(s, d).end = Midnight(d) + WakeTime(s, d)
           /\ Overnight(s, d) => Night(s, d).start = Midnight(d - 1) + SleepTime(s, d)
           /\ ~Overnight(s, d) => Night(s, d).start = Midnight(d) + SleepTime(s, d)
<1>1. SleepTime(s, d) \in Int /\ WakeTime(s, d) \in Int
  BY NightTimes, CalendarAssumption DEF Times
<1>2. (d - 1) + 1 = d
  OBVIOUS
<1>3. CASE Overnight(s, d)
  BY <1>1, <1>2, <1>3 DEF Overnight, Night, WallClock, Span
<1>4. CASE ~Overnight(s, d)
  BY <1>1, <1>4 DEF Overnight, Night, WallClock, Span
<1> QED
  BY <1>3, <1>4

\* One night, told from a minute's own day and time.
LEMMA InNight ==
    ASSUME NEW s \in SleepSchedule, NEW d \in Int, NEW t \in Int
    PROVE  (Night(s, d).start <= t /\ t < Night(s, d).end)
             <=> \/ Overnight(s, d) /\ d = DayOf(t) /\ TimeOf(t) < WakeTime(s, d)
                 \/ Overnight(s, d) /\ d = DayOf(t) + 1 /\ SleepTime(s, d) <= TimeOf(t)
                 \/ d = DayOf(t) /\ SleepTime(s, d) <= TimeOf(t) /\ TimeOf(t) < WakeTime(s, d)
<1>1. /\ SleepTime(s, d) \in Times /\ WakeTime(s, d) \in Times
      /\ SleepTime(s, d) \in Int /\ WakeTime(s, d) \in Int
      /\ DayOf(t) \in Int /\ TimeOf(t) \in Int
  BY NightTimes, Clock, CalendarAssumption DEF Times
<1> DEFINE S == SleepTime(s, d)
           W == WakeTime(s, d)
<1>2. \A eve \in Int : (WallClock(eve, S, W).start <= t /\ t < WallClock(eve, S, W).end)
                         <=> \/ eve = DayOf(t) /\ S <= TimeOf(t) /\ (TimeOf(t) < W \/ W < S)
                             \/ eve = DayOf(t) - 1 /\ W < S /\ TimeOf(t) < W
  BY <1>1, InWallClock
<1>3. Night(s, d) = WallClock(IF S <= W THEN d ELSE d - 1, S, W) /\ (Overnight(s, d) <=> W < S)
  BY DEF Night, Overnight
<1> HIDE DEF S, W
<1>4. CASE W < S
  <2>1. d - 1 \in Int /\ Night(s, d) = WallClock(d - 1, S, W)
    BY <1>1, <1>3, <1>4 DEF S, W
  <2> QED
    BY <1>1, <1>2, <1>3, <1>4, <2>1 DEF S, W
<1>5. CASE ~(W < S)
  <2>1. Night(s, d) = WallClock(d, S, W)
    BY <1>1, <1>3, <1>5 DEF S, W
  <2> QED
    BY <1>1, <1>2, <1>3, <1>5, <2>1 DEF S, W
<1> QED
  BY <1>4, <1>5

\* A bedtime is where some night begins.
LEMMA BedtimeIsNightStart ==
    ASSUME NEW s \in SleepSchedule, NEW u \in Int
    PROVE  /\ \A d \in Int : Night(s, d).start = u => IsBedtime(s, u)
           /\ IsBedtime(s, u) => \E d \in {DayOf(u), DayOf(u) + 1} : Night(s, d).start = u
<1>1. DayOf(u) \in Int /\ DayOf(u) + 1 \in Int /\ (DayOf(u) + 1) - 1 = DayOf(u)
  BY Clock
<1>2. ASSUME NEW d \in Int, Night(s, d).start = u
      PROVE  IsBedtime(s, u)
  <2>1. SleepTime(s, d) \in Times
    BY NightTimes
  <2>2. CASE Overnight(s, d)
    <3>1. d - 1 \in Int /\ u = Midnight(d - 1) + SleepTime(s, d)
      BY <1>2, <2>2, NightEnds
    <3>2. d - 1 = DayOf(u) /\ SleepTime(s, d) = TimeOf(u)
      BY <2>1, <3>1, ClockOrder
    <3>3. d = DayOf(u) + 1
      BY <1>1, <3>2
    <3> QED
      BY <2>2, <3>2, <3>3 DEF IsBedtime
  <2>3. CASE ~Overnight(s, d)
    <3>1. u = Midnight(d) + SleepTime(s, d)
      BY <1>2, <2>3, NightEnds
    <3>2. d = DayOf(u) /\ SleepTime(s, d) = TimeOf(u)
      BY <2>1, <3>1, ClockOrder
    <3> QED
      BY <2>3, <3>2 DEF IsBedtime
  <2> QED
    BY <2>2, <2>3
<1>3. CASE ~Overnight(s, DayOf(u)) /\ SleepTime(s, DayOf(u)) = TimeOf(u)
  <2>1. Night(s, DayOf(u)).start = Midnight(DayOf(u)) + TimeOf(u)
    BY <1>1, <1>3, NightEnds
  <2> QED
    BY <1>2, <2>1, Clock
<1>4. CASE Overnight(s, DayOf(u) + 1) /\ SleepTime(s, DayOf(u) + 1) = TimeOf(u)
  <2>1. Night(s, DayOf(u) + 1).start = Midnight((DayOf(u) + 1) - 1) + TimeOf(u)
    BY <1>1, <1>4, NightEnds
  <2> QED
    BY <1>1, <1>2, <2>1, Clock
<1> QED
  BY <1>2, <1>3, <1>4 DEF IsBedtime

LEMMA NightsByClock ==
    ASSUME NEW a \in Ask, a.sleep # NoSleep, NEW t \in Minutes(a)
    PROVE  (\E d \in a.first .. a.end + 1 :
                Night(a.sleep, d).start <= t /\ t < Night(a.sleep, d).end)
             <=> Asleep(a.sleep, t)
<1>1. /\ t \in Int /\ a.first <= DayOf(t) /\ DayOf(t) < a.end
      /\ a.first \in Int /\ a.end \in Int /\ a.sleep \in SleepSchedule
  BY PeriodByDays DEF Ask
<1>2. DayOf(t) \in Int /\ {DayOf(t), DayOf(t) + 1} \subseteq a.first .. a.end + 1
  BY <1>1, Clock
<1>3. ASSUME NEW d \in a.first .. a.end + 1
      PROVE  (Night(a.sleep, d).start <= t /\ t < Night(a.sleep, d).end)
               <=> \/ /\ Overnight(a.sleep, d) /\ d = DayOf(t)
                      /\ TimeOf(t) < WakeTime(a.sleep, d)
                   \/ /\ Overnight(a.sleep, d) /\ d = DayOf(t) + 1
                      /\ SleepTime(a.sleep, d) <= TimeOf(t)
                   \/ /\ d = DayOf(t) /\ SleepTime(a.sleep, d) <= TimeOf(t)
                      /\ TimeOf(t) < WakeTime(a.sleep, d)
  <2>1. d \in Int
    BY <1>1
  <2> QED
    BY <1>1, <2>1, InNight
<1> QED
  BY <1>2, <1>3 DEF Asleep

\* A cool-down that is no longer than a day belongs to one of the nights that
\* _sleep_windows goes through.
LEMMA CoolDownsByClock ==
    ASSUME NEW a \in Ask, a.sleep # NoSleep, a.sleep.cool <= Day, NEW t \in Minutes(a)
    PROVE  (\E d \in a.first .. a.end + 1 :
                CoolDown(a.sleep, d).start <= t /\ t < CoolDown(a.sleep, d).end)
             <=> \E u \in t + 1 .. t + a.sleep.cool : IsBedtime(a.sleep, u)
<1>1. /\ t \in Int /\ a.first <= DayOf(t) /\ DayOf(t) < a.end
      /\ a.first \in Int /\ a.end \in Int /\ a.sleep \in SleepSchedule
  BY PeriodByDays DEF Ask
<1>2. a.sleep.cool \in Int /\ Day \in Int /\ 0 \in Times
  BY <1>1, CalendarAssumption DEF SleepSchedule, Times
<1>3. ASSUME NEW d \in a.first .. a.end + 1,
             CoolDown(a.sleep, d).start <= t, t < CoolDown(a.sleep, d).end
      PROVE  \E u \in t + 1 .. t + a.sleep.cool : IsBedtime(a.sleep, u)
  <2>1. d \in Int /\ Night(a.sleep, d).start \in Int
    BY <1>1, NightIsInterval DEF Interval
  <2>2. Night(a.sleep, d).start \in t + 1 .. t + a.sleep.cool
    BY <1>1, <1>2, <1>3, <2>1 DEF CoolDown, Span
  <2>3. IsBedtime(a.sleep, Night(a.sleep, d).start)
    BY <1>1, <2>1, BedtimeIsNightStart
  <2> QED
    BY <2>2, <2>3
<1>4. ASSUME NEW u \in t + 1 .. t + a.sleep.cool, IsBedtime(a.sleep, u)
      PROVE  \E d \in a.first .. a.end + 1 :
                CoolDown(a.sleep, d).start <= t /\ t < CoolDown(a.sleep, d).end
  <2>1. u \in Int /\ t < u /\ u <= t + a.sleep.cool /\ u <= t + Day
    BY <1>1, <1>2
  <2>2. PICK d \in {DayOf(u), DayOf(u) + 1} : Night(a.sleep, d).start = u
    BY <1>1, <1>4, <2>1, BedtimeIsNightStart
  <2>3. DayOf(t) \in Int /\ DayOf(u) \in Int
    BY <1>1, <2>1, Clock
  <2>4. DayOf(t) <= DayOf(u)
    <3>1. Midnight(DayOf(t)) \in Int /\ Midnight(DayOf(t)) + 0 <= t
      BY <1>1, <1>2, <2>3, Midnights, ClockOrder, Clock DEF Times
    <3>2. Midnight(DayOf(t)) + 0 <= u
      BY <1>1, <2>1, <3>1
    <3> QED
      BY <1>2, <2>1, <2>3, <3>2, ClockOrder
  <2>5. DayOf(u) < a.end + 1
    <3>1. a.end + 1 \in Int /\ Midnight(a.end) \in Int /\ Midnight(a.end + 1) = Midnight(a.end) + Day
      BY <1>1, Midnights
    <3>2. t < Midnight(a.end) + 0
      BY <1>1, <1>2, ClockOrder
    <3>3. u < Midnight(a.end + 1) + 0
      BY <1>1, <1>2, <2>1, <3>1, <3>2
    <3>4. 0 <= TimeOf(u) /\ TimeOf(u) \in Int
      BY <2>1, Clock, CalendarAssumption DEF Times
    <3> QED
      BY <1>1, <1>2, <2>1, <2>3, <3>1, <3>3, <3>4, ClockOrder
  <2>6. d \in a.first .. a.end + 1
    BY <1>1, <2>2, <2>3, <2>4, <2>5
  <2>7. CoolDown(a.sleep, d).start <= t /\ t < CoolDown(a.sleep, d).end
    BY <1>1, <1>2, <2>1, <2>2 DEF CoolDown, Span
  <2> QED
    BY <2>6, <2>7
<1> QED
  BY <1>3, <1>4

LEMMA WakeUpsByClock ==
    ASSUME NEW a \in Ask, a.sleep # NoSleep, NEW t \in Minutes(a)
    PROVE  (\E d \in a.first .. a.end + 1 :
                WakeUp(a.sleep, d).start <= t /\ t < WakeUp(a.sleep, d).end)
             <=> \E u \in t - a.sleep.buffer + 1 .. t :
                    TimeOf(u) = WakeTime(a.sleep, DayOf(u)) /\ a.first <= DayOf(u)
<1>1. /\ t \in Int /\ a.first <= DayOf(t) /\ DayOf(t) < a.end
      /\ a.first \in Int /\ a.end \in Int /\ a.sleep \in SleepSchedule
  BY PeriodByDays DEF Ask
<1>2. a.sleep.buffer \in Int /\ 0 \in Times /\ DayOf(t) \in Int
  BY <1>1, Clock, CalendarAssumption DEF SleepSchedule, Times
<1>3. ASSUME NEW d \in a.first .. a.end + 1,
             WakeUp(a.sleep, d).start <= t, t < WakeUp(a.sleep, d).end
      PROVE  \E u \in t - a.sleep.buffer + 1 .. t :
                TimeOf(u) = WakeTime(a.sleep, DayOf(u)) /\ a.first <= DayOf(u)
  <2> DEFINE u == Night(a.sleep, d).end
  <2>1. d \in Int /\ a.first <= d
    BY <1>1
  <2>2. u \in Int /\ u = Midnight(d) + WakeTime(a.sleep, d) /\ WakeTime(a.sleep, d) \in Times
    BY <1>1, <2>1, NightIsInterval, NightEnds, NightTimes DEF Interval
  <2>3. u <= t /\ t < u + a.sleep.buffer
    BY <1>3 DEF WakeUp, Span
  <2> HIDE DEF u
  <2>4. d = DayOf(u) /\ WakeTime(a.sleep, d) = TimeOf(u)
    BY <2>1, <2>2, ClockOrder
  <2>5. u \in t - a.sleep.buffer + 1 .. t
    BY <1>1, <1>2, <2>2, <2>3
  <2> QED
    BY <2>1, <2>4, <2>5
<1>4. ASSUME NEW u \in t - a.sleep.buffer + 1 .. t,
             TimeOf(u) = WakeTime(a.sleep, DayOf(u)), a.first <= DayOf(u)
      PROVE  \E d \in a.first .. a.end + 1 :
                WakeUp(a.sleep, d).start <= t /\ t < WakeUp(a.sleep, d).end
  <2>1. u \in Int /\ u <= t /\ t < u + a.sleep.buffer
    BY <1>1, <1>2
  <2>2. /\ DayOf(u) \in Int /\ u = Midnight(DayOf(u)) + TimeOf(u)
        /\ TimeOf(u) \in Int /\ 0 <= TimeOf(u)
    BY <2>1, Clock, CalendarAssumption DEF Times
  <2>3. DayOf(u) <= DayOf(t)
    <3>1. Midnight(DayOf(u)) \in Int
      BY <2>2, Midnights
    <3>2. Midnight(DayOf(u)) + 0 <= t
      BY <1>1, <2>1, <2>2, <3>1
    <3> QED
      BY <1>1, <1>2, <2>2, <3>2, ClockOrder
  <2>4. DayOf(u) \in a.first .. a.end + 1
    BY <1>1, <1>2, <1>4, <2>2, <2>3
  <2>5. Night(a.sleep, DayOf(u)).end = u
    BY <1>1, <1>4, <2>2, NightEnds
  <2>6. WakeUp(a.sleep, DayOf(u)).start <= t /\ t < WakeUp(a.sleep, DayOf(u)).end
    BY <2>1, <2>5 DEF WakeUp, Span
  <2> QED
    BY <2>4, <2>6
<1> QED
  BY <1>3, <1>4

\* What is blocked is what the day's rules speak against.
LEMMA BlockedByClock ==
    ASSUME NEW a \in Ask, a.sleep # NoSleep => a.sleep.cool <= Day, NEW t \in Minutes(a)
    PROVE  Covered(t, Blocked(a)) <=> ~Open(a, t, a.first)
<1> DEFINE Zoned  == \E z \in a.zones : z.label \notin a.allowed /\ InZone(z, t, a.first)
           Busy   == \E iv \in a.busy : iv.start <= t /\ t < iv.end
           Cooled == /\ "cool-down" \notin a.allowed
                     /\ \E u \in t + 1 .. t + a.sleep.cool : IsBedtime(a.sleep, u)
           Waking == /\ "wake-up" \notin a.allowed
                     /\ \E u \in t - a.sleep.buffer + 1 .. t :
                            TimeOf(u) = WakeTime(a.sleep, DayOf(u)) /\ a.first <= DayOf(u)
<1>1. t \in Int
  BY PeriodByDays
<1>2. Covered(t, UNION {ZoneOccurrences(a, z) : z \in {x \in a.zones : x.label \notin a.allowed}})
        <=> Zoned
  <2>1. \A z \in a.zones : Covered(t, ZoneOccurrences(a, z)) <=> InZone(z, t, a.first)
    BY ZoneByClock
  <2> QED
    BY <2>1 DEF Covered
<1>3. Covered(t, SleepWindows(a, a.allowed))
        <=> a.sleep # NoSleep /\ (Asleep(a.sleep, t) \/ Cooled \/ Waking)
  <2>1. CASE a.sleep = NoSleep
    BY <2>1 DEF Covered, SleepWindows
  <2>2. CASE a.sleep # NoSleep
    <3> DEFINE nights == a.first .. a.end + 1
               In(w) == w.start <= t /\ t < w.end
    <3>1. (\E d \in nights : In(Night(a.sleep, d))) <=> Asleep(a.sleep, t)
      BY <2>2, NightsByClock
    <3>2. "cool-down" \notin a.allowed =>
            ((\E d \in nights : In(CoolDown(a.sleep, d))) <=> Cooled)
      BY <2>2, CoolDownsByClock
    <3>3. "wake-up" \notin a.allowed =>
            ((\E d \in nights : In(WakeUp(a.sleep, d))) <=> Waking)
      BY <2>2, WakeUpsByClock
    <3>4. \A d \in nights : /\ In(CoolDown(a.sleep, d)) => 0 < a.sleep.cool
                            /\ In(WakeUp(a.sleep, d)) => 0 < a.sleep.buffer
      <4>1. /\ a.first \in Int /\ a.end \in Int /\ a.sleep \in SleepSchedule
            /\ a.sleep.cool \in Int /\ a.sleep.buffer \in Int
        BY <2>2 DEF Ask, SleepSchedule
      <4>2. \A d \in nights : d \in Int
        BY <4>1
      <4>3. \A d \in nights : Night(a.sleep, d).start \in Int /\ Night(a.sleep, d).end \in Int
        BY <4>1, <4>2, NightIsInterval DEF Interval
      <4> QED
        BY <1>1, <4>1, <4>3 DEF CoolDown, WakeUp, Span
    <3>5. Covered(t, SleepWindows(a, a.allowed))
            <=> \E d \in nights :
                    \/ In(Night(a.sleep, d))
                    \/ "cool-down" \notin a.allowed /\ 0 < a.sleep.cool /\ In(CoolDown(a.sleep, d))
                    \/ "wake-up" \notin a.allowed /\ 0 < a.sleep.buffer /\ In(WakeUp(a.sleep, d))
      BY <2>2 DEF Covered, SleepWindows
    <3> HIDE DEF nights, In
    <3>6. Cooled => "cool-down" \notin a.allowed
      OBVIOUS
    <3>7. Waking => "wake-up" \notin a.allowed
      OBVIOUS
    <3> HIDE DEF Cooled, Waking
    <3> QED
      BY <2>2, <3>1, <3>2, <3>3, <3>4, <3>5, <3>6, <3>7
  <2> QED
    BY <2>1, <2>2
<1>4. Covered(t, a.busy) <=> Busy
  BY DEF Covered
<1>5. Covered(t, Blocked(a))
        <=> \/ Covered(t, UNION {ZoneOccurrences(a, z) : z \in {x \in a.zones : x.label \notin a.allowed}})
            \/ Covered(t, SleepWindows(a, a.allowed))
            \/ Covered(t, a.busy)
  BY DEF Covered, Blocked
<1>6. Open(a, t, a.first)
        <=> /\ ~Zoned /\ ~Busy
            /\ a.sleep # NoSleep => ~Asleep(a.sleep, t) /\ ~Cooled /\ ~Waking
  <2>1. \A iv \in a.busy : iv.start \in Int /\ iv.end \in Int
    BY DEF Ask, Interval
  <2>2. (\A iv \in a.busy : t < iv.start \/ iv.end <= t) <=> ~Busy
    BY <1>1, <2>1
  <2> QED
    BY <2>2 DEF Open
<1> HIDE DEF Zoned, Busy, Cooled, Waking
<1> QED
  BY <1>2, <1>3, <1>4, <1>5, <1>6

\* The free time of a period is what its zones, its nights and its events leave
\* open, minute by minute.  The backend accepts cool-downs of up to 600 minutes
\* (schemas/agent.py, schemas/sleep_schedule.py); one longer than a day would reach
\* back from nights that free_intervals leaves out.
THEOREM FreeTimeIsOpen ==
    ASSUME \A a \in Asks : a.sleep # NoSleep => a.sleep.cool <= Day
    PROVE  Spec => []FreeIsOpen
<1>1. ASSUME SchedulingInv, Computed, NEW t \in Minutes(ask)
      PROVE  Covered(t, free) <=> Open(ask, t, ask.first)
  <2>1. /\ ask \in Ask /\ (ask.sleep # NoSleep => ask.sleep.cool <= Day)
        /\ Covered(t, free) <=> ~Taken(t)
    BY <1>1 DEF SchedulingInv, SlotsInv, TypeOK, GapsInv
  <2>2. RangeStart(ask) \in Int /\ RangeEnd(ask) \in Int /\ Blocked(ask) \subseteq Interval
    BY <2>1, RangeIsInt, BlockedIsIntervals
  <2>3. t \in Int /\ RangeStart(ask) <= t /\ t < RangeEnd(ask)
    BY <2>2 DEF Minutes
  <2>4. Taken(t) <=> Covered(t, Blocked(ask))
    BY <2>1, <2>2, <2>3, ClippedCovers DEF Taken
  <2>5. Covered(t, Blocked(ask)) <=> ~Open(ask, t, ask.first)
    BY <2>1, BlockedByClock
  <2> QED
    BY <2>1, <2>4, <2>5
<1>2. SchedulingInv => FreeIsOpen
  BY <1>1 DEF FreeIsOpen
<1> QED
  BY <1>2, SchedulingInvariant, PTL

=============================================================================
