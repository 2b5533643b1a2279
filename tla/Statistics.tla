------------------------------ MODULE Statistics ------------------------------
(***************************************************************************)
(* Study statistics (domain/statistics/service.py) and the weekly facts of *)
(* the league (domain/league/facts.py), as functions of the rows.          *)
(*                                                                         *)
(* A day is the number of a user's local day, and day 1 a Monday; a        *)
(* session belongs whole to the day on which it started there.             *)
(***************************************************************************)
EXTENDS Scoring, SequencesExt    \* Scoring for Python's round

\* The columns of study_sessions that are read; id tells equal rows apart.
SessionRow ==
    [id : Nat, subject : Nat, day : Int, morning : BOOLEAN, seconds : Nat, status : {"running", "completed"},
     source : {"timer", "manual"}, integrity : {"ok", "flagged"},
     pomodoro : BOOLEAN, went_as_planned : BOOLEAN]

IsVerified(s) == s.source = "timer" /\ s.integrity = "ok"
IsManual(s) == s.source = "manual"

\* _sessions_between.
Between(sessions, first, last) ==
    {s \in sessions : s.status = "completed" /\ s.day \in first..last}

On(sessions, day) == Between(sessions, day, day)

Seconds(sessions) == MapThenSumSet(LAMBDA s : s.seconds, sessions)

\* _split_seconds.
Verified(sessions) == Seconds({s \in sessions : IsVerified(s)})
Manual(sessions) == Seconds({s \in sessions : IsManual(s)})
Excluded(sessions) == Seconds({s \in sessions : ~IsManual(s) /\ ~IsVerified(s)})

Weekday(day) == ((day - 1) % 7) + 1

\* is_scheduled_day: mask is the set of weekdays one means to study on.
IsScheduled(day, mask) == Weekday(day) \in mask

\* week_start, week_bounds.
WeekStart(day) == day - (Weekday(day) - 1)
WeekDays(day) == WeekStart(day)..(WeekStart(day) + 6)

GoalReached(sessions, day, goal) ==
    goal > 0 /\ Verified(On(sessions, day)) >= 60 * goal

\* A ratio of naturals as it is reported, to four decimal places.
Ratio(a, b) == Round(10000 * a, b)

\* _subject_totals: time that was excluded makes no entry, a session of no
\* length does.  subjects gives the name of each subject the user has; the
\* longest studied comes first, and equal ones in the order of their names.
SubjectTotals(sessions, subjects) ==
    LET Of(id) == {s \in sessions : s.subject = id}
        entries == {[id |-> id, verified |-> Verified(Of(id)), manual |-> Manual(Of(id))] :
                        id \in {s.subject : s \in {x \in sessions : IsManual(x) \/ IsVerified(x)}}
                               \cap DOMAIN subjects}
        Total(e) == e.verified + e.manual
        Before(e, f) == \/ Total(e) > Total(f)
                        \/ Total(e) = Total(f) /\ subjects[e.id] < subjects[f.id]
    IN  SetToSortSeq(entries, Before)

\* _task_totals: a task has the day of its plan, minutes and whether it is done.
TaskTotals(tasks, day) ==
    LET planned == {t \in tasks : t.day = day}
    IN  [tasks |-> Cardinality(planned),
         completed |-> Cardinality({t \in planned : t.done}),
         minutes |-> MapThenSumSet(LAMBDA t : t.minutes, planned)]

Split(sessions) ==
    [verified |-> Verified(sessions), manual |-> Manual(sessions),
     excluded |-> Excluded(sessions), sessions |-> Cardinality(sessions)]

\* weekly_summary.
WeeklySummary(sessions, subjects, anchor, goal, mask) ==
    LET days == WeekDays(anchor)
        these == Between(sessions, WeekStart(anchor), WeekStart(anchor) + 6)
        counted == {s \in these : s.seconds > 0}
        scheduled == {d \in days : IsScheduled(d, mask)}
        met == {d \in scheduled : GoalReached(sessions, d, goal)}
    IN  [split |-> Split(these),
         days |-> [d \in days |-> Split(On(sessions, d))],
         subjects |-> SubjectTotals(these, subjects),
         scheduled |-> Cardinality(scheduled),
         met |-> Cardinality(met),
         rate |-> IF scheduled = {} THEN 0 ELSE Ratio(Cardinality(met), Cardinality(scheduled)),
         average |-> IF counted = {} THEN 0 ELSE Seconds(counted) \div Cardinality(counted)]

\* weekly_input: reactions are the days of those sent.
WeeklyInput(sessions, tasks, reactions, anchor, goal, mask) ==
    LET first == WeekStart(anchor)
        these == Between(sessions, first, first + 6)
        counted == {s \in these : IsVerified(s)}
        planned == {t \in tasks : t.day \in WeekDays(anchor)}
    IN  [scheduled |-> mask,
         verified |-> [d \in 1..7 |-> Verified(On(sessions, first + d - 1))],
         goal_minutes |-> goal,
         focus |-> Cardinality({s \in counted : s.pomodoro \/ s.went_as_planned}),
         planned |-> Cardinality(planned),
         completed |-> Cardinality({t \in planned : t.done}),
         events |-> Len(SelectSeq(reactions, LAMBDA d : d \in WeekDays(anchor))),
         early |-> Cardinality({s \in counted : s.morning})]
-----------------------------------------------------------------------------
(* Streaks.                                                                *)

Lookback == 120

\* current_streak: the loop from today backwards; cursor is where it stands.
CurrentStreak(sessions, today, goal, mask) ==
    LET count[cursor \in (today - Lookback - 1)..today] ==
            IF cursor < today - Lookback THEN 0
            ELSE IF ~IsScheduled(cursor, mask) THEN count[cursor - 1]
            ELSE IF GoalReached(sessions, cursor, goal) THEN 1 + count[cursor - 1]
            ELSE IF cursor = today THEN count[cursor - 1]
            ELSE 0
    IN  IF goal <= 0 THEN 0 ELSE count[today]

\* What it computes: the scheduled days since the last that was missed; today
\* counts when its goal is met and breaks nothing when it is not.
StreakMeans(sessions, today, goal, mask) ==
    LET scheduled == {d \in (today - Lookback)..today : IsScheduled(d, mask)}
        met == {d \in scheduled : GoalReached(sessions, d, goal)}
        missed == scheduled \ (met \cup {today})
    IN  Cardinality({d \in met : \A m \in missed : m < d})

\* _longest_run, over the days in their order.
LongestRun(days) ==
    LET run[i \in 0..Len(days)] ==
            IF i = 0 THEN [longest |-> 0, current |-> 0]
            ELSE LET current == IF i > 1 /\ days[i] - days[i - 1] = 1
                                THEN run[i - 1].current + 1 ELSE 1
                     longest == run[i - 1].longest
                 IN  [current |-> current,
                      longest |-> IF current > longest THEN current ELSE longest]
    IN  run[Len(days)].longest

\* What it computes: the largest interval that lies in the set.
LongestMeans(days) ==
    LET runs == {r \in days \X days : r[1] <= r[2] /\ r[1]..r[2] \subseteq days}
        lengths == {r[2] - r[1] + 1 : r \in runs}
    IN  IF days = {} THEN 0 ELSE CHOOSE n \in lengths : \A k \in lengths : k <= n

\* daily_summary.  The ratio is rounded before it is cut off at 1.
DailySummary(sessions, subjects, tasks, day, goal, mask) ==
    LET these == On(sessions, day)
    IN  [split |-> Split(these),
         subjects |-> SubjectTotals(these, subjects),
         tasks |-> TaskTotals(tasks, day),
         streak |-> CurrentStreak(sessions, day, goal, mask),
         progress |-> IF goal <= 0 THEN 0 ELSE Least(Ratio(Verified(these), 60 * goal), 10000)]

\* yearly_insights.  months are the days of each month, in their order; which
\* of several equally busy days is reported follows the order of the rows.
ActiveDays(sessions, first, last) ==
    {d \in first..last : Verified(On(sessions, d)) > 0}

YearlyInsights(sessions, subjects, months, goal) ==
    LET days == UNION Range(months)
        first == Min(days)
        last == Max(days)
        these == Between(sessions, first, last)
        active == ActiveDays(sessions, first, last)
        On1(d) == Verified(On(sessions, d))
    IN  [split |-> Split(these),
         active |-> Cardinality(active),
         longest |-> LongestRun(SetToSortSeq(active, <)),
         busiest |-> {d \in active : \A e \in active : On1(e) <= On1(d)},
         heatmap |-> [d \in days |->
                         [verified |-> On1(d), met |-> GoalReached(sessions, d, goal)]],
         months |-> [m \in DOMAIN months |->
                        [verified |-> MapThenSumSet(On1, months[m]),
                         sessions |-> Cardinality({s \in these : s.day \in months[m]}),
                         active |-> Cardinality(active \cap months[m])]],
         subjects |-> SubjectTotals(these, subjects)]
=============================================================================
