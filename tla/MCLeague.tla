------------------------------- MODULE MCLeague -------------------------------
\* League for TLC: two weeks one can have (nothing; all goals met with two
\* tasks done), of which the job may read a mixture, and one mission of every
\* week and one of the first.
EXTENDS League, Goals

MCConfig ==
    [goal_completion |-> 400, consistency |-> 250, focus_sessions |-> 150,
     task_completion |-> 150, group_participation |-> 50, total_points |-> 1000,
     overshoot_cap_multiple |-> 2, overshoot_credit_percent |-> 25,
     minimum_minutes |-> 20, bonus_per_extra_day |-> 10, bonus_cap |-> 30,
     focus_sessions_target |-> 12, tasks_target |-> 15, participation_target |-> 10]

WeekOf(verified, focus, done) ==
    [scheduled |-> {1, 3, 5}, verified |-> verified, goal_minutes |-> 60, focus |-> focus,
     planned |-> 2, completed |-> done, events |-> 0, early |-> 0]

MCFacts ==
    "nothing" :> WeekOf(<<0, 0, 0, 0, 0, 0, 0>>, 0, 0)
    @@ "all" :> WeekOf(<<4000, 4000, 4000, 4000, 4000, 4000, 4000>>, 1, 2)

\* Their points, by the query that finds them; LeagueAssumption compares them.
MCPoints ==
    LET study == "nothing" :> 0 @@ "all" :> 650
        focus == "nothing" :> 0 @@ "all" :> 12
        tasks == "nothing" :> 0 @@ "all" :> 20
    IN  [reading \in [1..6 -> {"nothing", "all"}] |->
            study[reading[2]] + focus[reading[3]] + tasks[reading[4]]]

MCMissions ==
    {[metric |-> "planned_sessions_completed", week |-> None, target |-> 1],
     [metric |-> "tasks_completed", week |-> 0, target |-> 2]}

-----------------------------------------------------------------------------
(* The promises of Scoring over weeks that cross its thresholds, and the   *)
(* loops of Statistics against what they are to compute.                   *)

SomeWeeks ==
    {[scheduled |-> s, goal_minutes |-> g, planned |-> p, completed |-> c, focus |-> f,
      events |-> f, early |-> 0,
      verified |-> [d \in Days |-> IF d = 1 THEN a ELSE IF d \in {2, 4} THEN b ELSE 0]] :
        s \in {{}, {1}, {1, 2, 7}}, g \in {0, 31, 60}, p \in {0, 7, 16}, c \in {0, 5, 20},
        f \in {0, 7, 13}, a, b \in {0, 1199, 1200, 1859, 3600, 9000}}

ASSUME ScoringChecked == \A w \in SomeWeeks : WithinBudget(w) /\ RestIsFree(w)

StudyWeeks == {w \in SomeWeeks : w.planned = 7 /\ w.completed = 5 /\ w.focus = 7}
ASSUME StudyChecked ==
    \A w, x \in StudyWeeks : NeverHurts(w, x) /\ OvershootEarnsNothing(w, x)

\* _recoveries, on the weeks whose scheduled days are 1, 2 and 7.
ASSUME RecoveriesChecked ==
    \A w \in {w \in SomeWeeks : w.scheduled = {1, 2, 7} /\ w.goal_minutes > 0} :
        Progress(w, "recovered_after_miss") =
            IF {1, 2} \cap GoalMet(w) = {2} THEN 1 ELSE 0

Session(day, seconds) ==
    [id |-> day, subject |-> day % 2, day |-> day, morning |-> FALSE, seconds |-> seconds,
     status |-> "completed", source |-> "timer", integrity |-> "ok",
     pomodoro |-> day = 3, went_as_planned |-> FALSE]

\* The facts of the model are such as rows give.
FactsOf(sessions, done) ==
    WeeklyInput(sessions, {[day |-> d, minutes |-> 30, done |-> done] : d \in {2, 5, 9}}, <<0, 8>>, 4, 60,
                {1, 3, 5})
ASSUME FactsChecked ==
    /\ MCFacts["nothing"] = FactsOf({}, FALSE)
    /\ MCFacts["all"] = FactsOf({Session(d, 4000) : d \in -1..9}, TRUE)

SomeDays == {{Session(d, IF d % 3 = 0 THEN 1799 ELSE 1800) : d \in days} :
                 days \in SUBSET (194..200)}
ASSUME StreakChecked ==
    \A sessions \in SomeDays \cup {{Session(d, 1800) : d \in 60..200}},
       mask \in {{}, {1}, {2, 4}, 1..5, 1..7}, today \in {198, 200} :
        CurrentStreak(sessions, today, 30, mask) = StreakMeans(sessions, today, 30, mask)

\* Sessions of every kind, some on one day, those of subject 2 of one that is
\* gone; and each day's goal met, or one second short of it.
Mixed ==
    {[Session(d, 900 * i) EXCEPT !.id = 10 * d + i, !.subject = i,
                                 !.source = IF i = 3 THEN "manual" ELSE "timer",
                                 !.integrity = IF i = 1 THEN "flagged" ELSE "ok"] :
        d \in {191, 196, 197, 205}, i \in 0..3}
SomeSessions ==
    SomeDays \cup {{s \in Mixed : s.day \in days /\ s.subject \in subjects} :
                      days \in SUBSET {191, 196, 197, 205}, subjects \in SUBSET (0..3)}

Subjects == 0 :> 2 @@ 1 :> 1 @@ 3 :> 0    \* with their names
SumOf(f) == MapThenSumSet(LAMBDA x : f[x], DOMAIN f)

\* A year of sixteen days, its weeks for months: the sums of the days, weeks,
\* months and subjects are those of the year, and the same days are met.
ASSUME YearChecked ==
    \A sessions \in SomeSessions :
        LET year == YearlyInsights(sessions, Subjects, <<190..196, 197..203, 204..205>>, 30)
            weeks == [d \in {190, 197, 204} |-> WeeklySummary(sessions, Subjects, d, 30, 1..7)]
            kept == {s \in sessions : s.subject \in DOMAIN Subjects}
        IN  /\ year.longest = LongestMeans(ActiveDays(sessions, 190, 205))
            /\ year.busiest = {} <=> year.active = 0
            /\ \A m \in 1..3 : /\ year.months[m].verified = weeks[183 + 7 * m].split.verified
                               /\ year.months[m].sessions = weeks[183 + 7 * m].split.sessions
            /\ year.split.verified = SumOf([d \in 190..205 |-> year.heatmap[d].verified])
            /\ year.active = SumOf([m \in 1..3 |-> year.months[m].active])
            /\ Cardinality({d \in 190..205 : year.heatmap[d].met})
                 = weeks[190].met + weeks[197].met + weeks[204].met
            /\ SumOf([i \in DOMAIN year.subjects |-> year.subjects[i].verified]) = Verified(kept)
            /\ SumOf([i \in DOMAIN year.subjects |-> year.subjects[i].manual]) = Manual(kept)
            /\ \A w \in {190, 197, 204}, part \in {"verified", "manual", "excluded", "sessions"} :
                 weeks[w].split[part] = SumOf([d \in WeekDays(w) |-> weeks[w].days[d][part]])

\* A day's summary is the day of its week's, and a goal that is met shows as
\* whole.  (The converse fails: from 334 minutes on, one that is a second short
\* is rounded up.)
ASSUME DayChecked ==
    \A sessions \in SomeSessions, d \in {191, 194, 197}, goal \in {0, 15, 30} :
        LET day == DailySummary(sessions, Subjects, {}, d, goal, 1..7)
        IN  /\ day.split = WeeklySummary(sessions, Subjects, d, goal, 1..7).days[d]
            /\ GoalReached(sessions, d, goal) => day.progress = 10000 /\ day.streak > 0
ASSUME ShortDayShowsAsWhole ==
    \A short \in {333, 334} :
        LET day == DailySummary({Session(191, 60 * short - 1)}, Subjects, {}, 191, short, 1..7)
        IN  day.progress = IF short = 334 THEN 10000 ELSE 9999

\* Goals after any two updates: completed_at goes with the status, only an active
\* goal is overdue, the minutes are those of the week's subjects, and the ratio
\* is 1 only for a goal that is met (10080 minutes are the most one can set).
Changes ==
    {<<>>, "status" :> "completed", "status" :> "archived", "status" :> "active",
     "clear" :> TRUE @@ "target" :> 200, "target" :> 190,
     "weekly" :> 10080, "weekly" :> 0 @@ "status" :> "completed",
     "subjects" :> {3} @@ "milestones" :> <<[blank |-> TRUE, done |-> TRUE]>>}
SomeGoals ==
    {Updated(Updated(NewGoal(target, 30, subjects, <<[blank |-> FALSE, done |-> TRUE]>>),
                     first, 190), then, 191) :
        target \in {NoDay, 191}, subjects \in SUBSET {0, 1}, first, then \in Changes}
ASSUME UnmetShowsAsUnmet == \A weekly \in 1..10080 : Ratio(weekly - 1, weekly) < 10000
ASSUME GoalsChecked ==
    \A goal \in SomeGoals, d \in 1..3, today \in {191, 197} :
        LET sessions == {[Session(190, 900 * d) EXCEPT !.subject = 0], Session(196, 903)}
            state == WithProgress(goal, sessions, today)
            these == WeeklySummary(sessions, Subjects, today, 30, 1..7).subjects
        IN  /\ goal.completed # NoDay <=> goal.status = "completed"
            /\ state.overdue => goal \in Listed(SomeGoals, FALSE) /\ state.remaining < 0
            /\ state.minutes =
                 SumOf([i \in DOMAIN these |->
                           IF goal.subjects = {} \/ these[i].id \in goal.subjects
                           THEN these[i].verified ELSE 0]) \div 60
            /\ state.progress = 10000 <=> goal.weekly > 0 /\ state.minutes >= goal.weekly
            /\ state.done <= state.milestones
=============================================================================
