------------------------------- MODULE Scoring -------------------------------
(***************************************************************************)
(* League Points of one user's week (domain/scoring/service.py), and the   *)
(* progress of missions (domain/league/missions.py), as functions of the   *)
(* facts domain/league/facts.py gathers.                                   *)
(*                                                                         *)
(* The code computes with doubles and rounds at the end; here the same     *)
(* quotients are exact, so a result within a rounding error of a half may  *)
(* differ by a point.  Percentages stand for the rates that are fractions. *)
(***************************************************************************)
EXTENDS Integers

CONSTANT config  \* ScoringConfig, as the season froze it

ScoringConfig ==
    [goal_completion : Nat, consistency : Nat, focus_sessions : Nat,
     task_completion : Nat, group_participation : Nat, total_points : Nat,
     overshoot_cap_multiple : Nat \ {0}, overshoot_credit_percent : Nat,
     minimum_minutes : Nat, bonus_per_extra_day : Nat, bonus_cap : Nat,
     focus_sessions_target : Nat \ {0}, tasks_target : Nat \ {0},
     participation_target : Nat \ {0}]

\* validated(): what it asks of the targets and the multiple, a whole number
\* here, is in their types.
Validated ==
    config.total_points =
        config.goal_completion + config.consistency + config.focus_sessions
        + config.task_completion + config.group_participation

ASSUME ConfigAssumption == config \in ScoringConfig /\ Validated

Days == 1..7

\* WeeklyScoreInput: the seconds that count on each day, one goal for every day
\* (the user's setting), and the week's counts.  None of them is negative.
Week == [scheduled : SUBSET Days, verified : [Days -> Nat], goal_minutes : Nat,
         focus : Nat, planned : Nat, completed : Nat, events : Nat, early : Nat]

DaySum(f) == f[1] + f[2] + f[3] + f[4] + f[5] + f[6] + f[7]
NumDays(S) == DaySum([d \in Days |-> IF d \in S THEN 1 ELSE 0])

Least(a, b) == IF a <= b THEN a ELSE b

\* Python's round(a / b): a half goes to the even neighbour.
Round(a, b) ==
    LET q == a \div b
        twice == 2 * (a % b)
    IN  IF twice > b \/ (twice = b /\ q % 2 = 1) THEN q + 1 ELSE q

Cap(points, maximum) ==
    IF points < 0 THEN 0 ELSE Least(points, maximum)
-----------------------------------------------------------------------------
Target(w) == 60 * w.goal_minutes

\* A day's attainment, in parts of its target; the credit past the target is
\* rounded down, and then limited with the rest.
Attained(seconds, target) ==
    LET room == target * (config.overshoot_cap_multiple - 1)
        bonus == IF seconds > target /\ room > 0
                 THEN (Least(seconds - target, room) * target
                       * config.overshoot_credit_percent) \div (100 * room)
                 ELSE 0
    IN  Least(Least(seconds, target) + bonus, target)

GoalPoints(w) ==
    LET total == DaySum([d \in Days |->
                     IF d \in w.scheduled THEN Attained(w.verified[d], Target(w)) ELSE 0])
    IN  IF w.scheduled = {} \/ w.goal_minutes = 0 THEN 0
        ELSE Cap(Round(total * config.goal_completion, NumDays(w.scheduled) * Target(w)),
                 config.goal_completion)

Studied(w) == {d \in Days : w.verified[d] >= 60 * config.minimum_minutes}

ConsistencyPoints(w) ==
    LET days == NumDays(w.scheduled)
        bonus == Least(NumDays(Studied(w) \ w.scheduled) * config.bonus_per_extra_day,
                       config.bonus_cap)
        base == NumDays(Studied(w) \cap w.scheduled) * (config.consistency - config.bonus_cap)
    IN  IF w.scheduled = {} THEN 0
        ELSE Cap(Round(base + bonus * days, days), config.consistency)

FocusPoints(w) ==
    Cap(Round(Least(w.focus, config.focus_sessions_target) * config.focus_sessions,
              config.focus_sessions_target),
        config.focus_sessions)

TaskPoints(w) ==
    LET completed == Least(w.completed, w.planned)
        volume == Least(w.planned, config.tasks_target)
    IN  IF w.planned = 0 THEN 0
        ELSE Cap(Round(completed * volume * config.task_completion,
                       w.planned * config.tasks_target),
                 config.task_completion)

ParticipationPoints(w) ==
    Cap(Round(Least(w.events, config.participation_target) * config.group_participation,
              config.participation_target),
        config.group_participation)

TotalPoints(w) ==
    GoalPoints(w) + ConsistencyPoints(w) + FocusPoints(w) + TaskPoints(w)
    + ParticipationPoints(w)
-----------------------------------------------------------------------------
(* Missions.                                                               *)

GoalMet(w) == {d \in Days : w.goal_minutes > 0 /\ w.verified[d] >= Target(w)}

\* d is the scheduled day before e.
NextScheduled(w, d, e) ==
    /\ {d, e} \subseteq w.scheduled /\ d < e
    /\ ~\E x \in w.scheduled : d < x /\ x < e

Recoveries(w) ==
    NumDays({e \in GoalMet(w) : \E d \in Days \ GoalMet(w) : NextScheduled(w, d, e)})

Metric == {"planned_sessions_completed", "daily_goal_reached", "scheduled_days_studied",
           "early_session_completed", "tasks_completed", "recovered_after_miss"}

Progress(w, metric) ==
    CASE metric = "planned_sessions_completed" -> w.focus
      [] metric = "daily_goal_reached" -> NumDays(GoalMet(w))
      [] metric = "scheduled_days_studied" -> NumDays(Studied(w) \cap w.scheduled)
      [] metric = "early_session_completed" -> w.early
      [] metric = "tasks_completed" -> w.completed
      [] metric = "recovered_after_miss" -> Recoveries(w)
-----------------------------------------------------------------------------
(* What the rules promise, for any week.                                   *)

\* "Compute a 0-1000 weekly score" (service.py:32).
WithinBudget(w) == TotalPoints(w) \in 0..config.total_points

\* Weeks that differ only in how much longer the second one's days are.
StudiedMore(w, x) ==
    /\ x = [w EXCEPT !.verified = x.verified]
    /\ \A d \in Days : w.verified[d] <= x.verified[d]

\* Studying more never costs points.
NeverHurts(w, x) == StudiedMore(w, x) => TotalPoints(w) <= TotalPoints(x)

\* Time past the goal of a day is worth nothing: the credit for overshooting
\* (config.py:44) is added below a limit that meeting the goal has reached.
OvershootEarnsNothing(w, x) ==
    (/\ StudiedMore(w, x)
     /\ \A d \in Days : w.verified[d] = x.verified[d] \/ w.verified[d] >= Target(w))
    => GoalPoints(w) = GoalPoints(x)

\* "planned rest days cost nothing" (config.py:33): meeting the goal on every
\* scheduled day, however few, earns all the points there are for it.
RestIsFree(w) ==
    (w.goal_minutes > 0 /\ w.scheduled # {} /\ w.scheduled \subseteq GoalMet(w))
    => GoalPoints(w) = config.goal_completion
=============================================================================
