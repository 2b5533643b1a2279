-------------------------------- MODULE Goals --------------------------------
(***************************************************************************)
(* Study goals (domain/goals/service.py): the row of a goal under create   *)
(* and update, and how a goal stands on a day, as functions of the rows.   *)
(*                                                                         *)
(* Titles and descriptions are left out, except that a milestone without a *)
(* title is dropped.  A day is a number, as in Statistics.                 *)
(***************************************************************************)
EXTENDS Statistics

CONSTANT NoDay    \* target_date IS NULL; in an update: the field is left out

Milestone == [blank : BOOLEAN, done : BOOLEAN]
GoalStatus == {"active", "completed", "archived"}

StudyGoal ==
    [target : Int \cup {NoDay}, weekly : Nat, subjects : SUBSET Nat,
     milestones : Seq(Milestone), status : GoalStatus, completed : Int \cup {NoDay}]

\* _normalise_milestones.
Normalised(milestones) == SelectSeq(milestones, LAMBDA m : ~m.blank)

\* create.
NewGoal(target, weekly, subjects, milestones) ==
    [target |-> target, weekly |-> weekly, subjects |-> subjects,
     milestones |-> Normalised(milestones), status |-> "active", completed |-> NoDay]

\* update: change has the fields that are sent; "clear" goes before "target",
\* and every status that is sent, also the one the goal has, sets or clears
\* completed_at.
Updated(goal, change, today) ==
    LET Sent(field) == field \in DOMAIN change
    IN  [target |-> IF Sent("clear") THEN NoDay
                    ELSE IF Sent("target") THEN change.target ELSE goal.target,
         weekly |-> IF Sent("weekly") THEN change.weekly ELSE goal.weekly,
         subjects |-> IF Sent("subjects") THEN change.subjects ELSE goal.subjects,
         milestones |-> IF Sent("milestones") THEN Normalised(change.milestones)
                        ELSE goal.milestones,
         status |-> IF Sent("status") THEN change.status ELSE goal.status,
         completed |-> IF ~Sent("status") THEN goal.completed
                       ELSE IF change.status = "completed" THEN today ELSE NoDay]

\* list_for: what a user sees of their goals.
Listed(goals, finished) == {g \in goals : finished \/ g.status = "active"}

\* _week_verified_minutes: a goal without subjects counts all of them.
WeekVerifiedMinutes(sessions, subjects, today) ==
    LET week == Between(sessions, WeekStart(today), WeekStart(today) + 6)
    IN  Verified({s \in week : subjects = {} \/ s.subject \in subjects}) \div 60

\* _with_progress.  Here the ratio is cut off at 1 before it is rounded.
WithProgress(goal, sessions, today) ==
    LET minutes == WeekVerifiedMinutes(sessions, goal.subjects, today)
    IN  [remaining |-> IF goal.target = NoDay THEN NoDay ELSE goal.target - today,
         overdue |-> goal.target # NoDay /\ goal.target < today /\ goal.status = "active",
         minutes |-> minutes,
         progress |-> IF goal.weekly <= 0 THEN 0
                      ELSE Ratio(Least(minutes, goal.weekly), goal.weekly),
         milestones |-> Len(goal.milestones),
         done |-> Len(SelectSeq(goal.milestones, LAMBDA m : m.done))]
=============================================================================
