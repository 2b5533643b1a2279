-------------------------------- MODULE League --------------------------------
(***************************************************************************)
(* One season of the league (domain/league/service.py) and the hourly job  *)
(* that scores its current week and closes it (jobs/league_scorer.py).     *)
(*                                                                         *)
(* The job reads one user after another, in six queries each, while they   *)
(* study, sync, enrol and delete their accounts; it commits the scores, and *)
(* then, in a second transaction, the close-out.  There is one job at a    *)
(* time: it runs every hour and is cancelled after five minutes.           *)
(*                                                                         *)
(* week is the season's week_index on the job's calendar, which is UTC's,  *)
(* and LastWeek + 1 once the season's last day is over there.  What is     *)
(* scored for an index is the Monday to Sunday around its first day, in    *)
(* the time zone of each user: it may begin before the index does, and end *)
(* after it.                                                               *)
(***************************************************************************)
EXTENDS Scoring, FiniteSets, Sequences

CONSTANTS
    Users,         \* their ids, which break ties
    Categories,
    LastWeek,      \* the season's last week_index
    Capacity,      \* of a cohort
    Promotion, Relegation,  \* the season's rates, in percent
    Missions,      \* the season's missions
    Inputs, Facts, \* weeks one can have, and the facts each of them consists of
    Points,        \* what they are worth, and mixtures of them
    Tx,            \* enrolments that can be open at once
    None,
    MaxChanges, MaxFaults   \* bounds on what users change or delete, and on
                            \* the job's failures

Weeks == 0..LastWeek
Over == LastWeek + 1

Mission == [metric : Metric, week : Weeks \cup {None}, target : Nat]

RatesLeaveMiddle ==
    Promotion \in Nat /\ Relegation \in Nat /\ Promotion + Relegation <= 100

\* weekly_input and _persist_missions: settings, sessions, focus sessions, tasks,
\* encouragements and early sessions are read one after the other, and each of
\* them as it is by then.
Selects == 1..6
Reading == [Selects -> Inputs]
Underway == [user : Users, n : 1..5, reading : Reading]  \* n queries are done

Combined(reading) ==
    LET read(n) == Facts[reading[n]]
    IN  [scheduled |-> read(1).scheduled, goal_minutes |-> read(1).goal_minutes,
         verified |-> read(2).verified, focus |-> read(3).focus,
         planned |-> read(4).planned, completed |-> read(4).completed,
         events |-> read(5).events, early |-> read(6).early]

ASSUME LeagueAssumption ==
    /\ Users \subseteq Nat /\ IsFiniteSet(Users) /\ LastWeek \in Nat
    /\ Capacity \in Nat \ {0}
    /\ RatesLeaveMiddle
    /\ Inputs # {} /\ Facts \in [Inputs -> Week]
    /\ Points = [reading \in Reading |-> TotalPoints(Combined(reading))]
    /\ None \notin Nat \cup Reading \cup Underway
    /\ Missions \subseteq Mission
    /\ MaxChanges \in Nat /\ MaxFaults \in Nat

VARIABLES
    week,           \* the job's calendar
    activity,       \* what each user's weeks look like now
    deleted,        \* soft-deleted accounts
    active,         \* the season's status
    cohorts,        \* their categories, in order of creation
    cohort,         \* LeagueEnrollment.cohort_id, None when not enrolled
    score,          \* LeagueScore: what it was computed from, None without a row
    progress,       \* UserMissionProgress
    rank, outcome,  \* LeagueEnrollment.final_rank and .outcome
    enrolling, job, \* what is under way
    changes, faults,
    final           \* history: what a user's last week has looked like since the
                    \* season was over

season == <<active, cohorts, cohort, score, progress, rank, outcome>>
vars == <<week, activity, deleted, season, enrolling, job, changes, faults, final>>

AtOnce(input) == [n \in Selects |-> input]

Quiet == CHOOSE i \in Inputs : \A j \in Inputs : Points[AtOnce(i)] <= Points[AtOnce(j)]

Init ==
    /\ week = 0 /\ activity = [u \in Users |-> [w \in Weeks |-> Quiet]]
    /\ deleted = {} /\ active = TRUE
    /\ cohorts = <<>> /\ cohort = [u \in Users |-> None]
    /\ score = [u \in Users |-> [w \in Weeks |-> None]]
    /\ progress = [u \in Users |-> [m \in Missions |-> None]]
    /\ rank = [u \in Users |-> None] /\ outcome = [u \in Users |-> None]
    /\ enrolling = [t \in Tx |-> None] /\ job = None
    /\ changes = 0 /\ faults = 0
    /\ final = [u \in Users |-> {}]
-----------------------------------------------------------------------------
(* What users do.                                                          *)

\* A session, task or reaction of week w: also one that is synced or corrected
\* late, and one of a week that the job's calendar has not come to.
Study(u, w, input) ==
    /\ w <= week + 1 /\ u \notin deleted
    /\ input # activity[u][w] /\ changes < MaxChanges
    /\ changes' = changes + 1
    /\ activity' = [activity EXCEPT ![u][w] = input]
    /\ final' = IF week = Over /\ w = LastWeek
                THEN [final EXCEPT ![u] = @ \cup {input}] ELSE final
    /\ UNCHANGED <<week, deleted, season, enrolling, job, faults>>

\* In UTC.
NextWeek ==
    /\ week < Over
    /\ week' = week + 1
    /\ final' = IF week' = Over THEN [u \in Users |-> {activity[u][LastWeek]}] ELSE final
    /\ UNCHANGED <<activity, deleted, season, enrolling, job, changes, faults>>

Members(c) == {u \in Users : cohort[u] = c}

\* _cohort_with_room: the first cohort of the category, or one after the last.
CohortWithRoom(category) ==
    LET room == {c \in 1..Len(cohorts) :
                    cohorts[c] = category /\ Cardinality(Members(c)) < Capacity}
    IN  IF room = {} THEN 0 ELSE CHOOSE c \in room : \A d \in room : c <= d

\* ensure_enrollment: what it reads ...
BeginEnrollment(t, u, category) ==
    /\ enrolling[t] = None /\ active /\ cohort[u] = None /\ u \notin deleted
    /\ enrolling' = [enrolling EXCEPT ![t] =
           [user |-> u, category |-> category, cohort |-> CohortWithRoom(category)]]
    /\ UNCHANGED <<week, activity, deleted, season, job, changes, faults, final>>

\* ... and what it commits.  A second row of one user is refused.
Enroll(t) ==
    /\ enrolling[t] # None
    /\ enrolling' = [enrolling EXCEPT ![t] = None]
    /\ LET e == enrolling[t]
           fresh == e.cohort = 0
       IN  IF cohort[e.user] # None THEN UNCHANGED <<cohorts, cohort>>
           ELSE /\ cohorts' = IF fresh THEN Append(cohorts, e.category) ELSE cohorts
                /\ cohort' = [cohort EXCEPT ![e.user] =
                       IF fresh THEN Len(cohorts) + 1 ELSE e.cohort]
    /\ UNCHANGED <<week, activity, deleted, active, score, progress, rank, outcome,
                   job, changes, faults, final>>

\* delete_account.
DeleteAccount(u) ==
    /\ u \notin deleted /\ changes < MaxChanges
    /\ changes' = changes + 1
    /\ deleted' = deleted \cup {u}
    /\ UNCHANGED <<week, activity, season, enrolling, job, faults, final>>

\* The job has found u and is reading their week.
IsRead(u) == job # None /\ job.step = "score" /\ job.current # None /\ job.current.user = u

\* The account purger: the enrolment and all that hangs from it go with the
\* user.  It comes days after the deletion, when no request of theirs is open
\* and a job that still found them has ended, and it waits for the rows the job
\* has locked.
Purge(u) ==
    /\ u \in deleted /\ cohort[u] # None
    /\ ~\E t \in Tx : enrolling[t] # None /\ enrolling[t].user = u
    /\ ~(job # None /\ u \in DOMAIN job.rows) /\ ~IsRead(u)
    /\ cohort' = [cohort EXCEPT ![u] = None]
    /\ score' = [score EXCEPT ![u] = [w \in Weeks |-> None]]
    /\ progress' = [progress EXCEPT ![u] = [m \in Missions |-> None]]
    /\ rank' = [rank EXCEPT ![u] = None]
    /\ outcome' = [outcome EXCEPT ![u] = None]
    /\ UNCHANGED <<week, activity, deleted, active, cohorts, enrolling, job, changes,
                   faults, final>>
-----------------------------------------------------------------------------
(* The scorer.  rows are what it has computed and not committed.           *)

WeekIndex(w) == IF w > LastWeek THEN LastWeek ELSE w

\* Mutation: the season is over when its last week_index has passed.
PastLastIndex(w) == WeekIndex(w) > LastWeek

IsOver(w) == w > LastWeek

\* Mutation: the season's status is not looked at.
StartAnyScoring ==
    /\ job = None
    /\ job' = [step |-> "score", week |-> WeekIndex(week), over |-> IsOver(week),
               left |-> {u \in Users : cohort[u] # None}, rows |-> <<>>, current |-> None]
    /\ UNCHANGED <<week, activity, deleted, season, enrolling, changes, faults, final>>

\* Mutation: a season that is over is not scored again.
StartOrClose ==
    /\ job = None /\ active
    /\ job' = [step |-> "score", week |-> WeekIndex(week), over |-> IsOver(week),
               left |-> {u \in Users : cohort[u] # None /\ ~IsOver(week)}, rows |-> <<>>,
               current |-> None]
    /\ UNCHANGED <<week, activity, deleted, season, enrolling, changes, faults, final>>

StartScoring ==
    /\ job = None /\ active
    /\ job' = [step |-> "score", week |-> WeekIndex(week), over |-> IsOver(week),
               left |-> {u \in Users : cohort[u] # None}, rows |-> <<>>, current |-> None]
    /\ UNCHANGED <<week, activity, deleted, season, enrolling, changes, faults, final>>

JobMoves ==
    UNCHANGED <<week, activity, deleted, enrolling, changes, final>>

With(rows, u, value) ==
    [v \in DOMAIN rows \cup {u} |-> IF v = u THEN value ELSE rows[v]]

\* _load_user, with the settings; a deleted account is passed over.
ScoreUser(u) ==
    /\ job # None /\ job.step = "score" /\ job.current = None /\ u \in job.left
    /\ job' = [job EXCEPT !.left = @ \ {u},
                          !.current = IF u \in deleted THEN None
                              ELSE [user |-> u, n |-> 1,
                                    reading |-> AtOnce(activity[u][job.week])]]
    /\ UNCHANGED <<season, faults>> /\ JobMoves

\* The next query about the same user.
ReadOn ==
    /\ job # None /\ job.step = "score" /\ job.current # None
    /\ LET u == job.current.user
           n == job.current.n + 1
           reading == [job.current.reading EXCEPT ![n] = activity[u][job.week]]
       IN  job' = IF n = 6
                  THEN [job EXCEPT !.current = None, !.rows = With(@, u, reading)]
                  ELSE [job EXCEPT !.current =
                           [user |-> u, n |-> n, reading |-> reading]]
    /\ UNCHANGED <<season, faults>> /\ JobMoves

InPlay(m) == m.week \in {None, job.week}

\* _persist_score and _persist_missions, committed together; then the
\* close-out begins if the season is over.
CommitScores ==
    /\ job # None /\ job.step = "score" /\ job.left = {} /\ job.current = None
    /\ score' = [u \in Users |->
           IF u \in DOMAIN job.rows THEN [score[u] EXCEPT ![job.week] = job.rows[u]]
           ELSE score[u]]
    /\ progress' = [u \in Users |-> [m \in Missions |->
           IF u \in DOMAIN job.rows /\ InPlay(m)
           THEN LET done == Progress(Combined(job.rows[u]), m.metric)
                IN  [progress |-> done, completed |-> done >= m.target]
           ELSE progress[u][m]]]
    /\ job' = IF job.over
              THEN [step |-> "close", left |-> {cohort[u] : u \in Users} \ {None},
                    rows |-> <<>>]
              ELSE None
    /\ UNCHANGED <<active, cohorts, cohort, rank, outcome, faults>> /\ JobMoves

WeekPoints(u, w) == IF score[u][w] = None THEN 0 ELSE Points[score[u][w]]

\* _cohort_totals.
SeasonPoints(u) ==
    LET sum[w \in Weeks] == WeekPoints(u, w) + IF w = 0 THEN 0 ELSE sum[w - 1]
    IN  sum[LastWeek]

\* _rank.
Ahead(v, u) ==
    SeasonPoints(v) > SeasonPoints(u) \/ (SeasonPoints(v) = SeasonPoints(u) /\ v < u)

\* Mutation: ranks are indices.
PlaceFromZero(u, peers) == Cardinality({v \in peers : Ahead(v, u)})

Place(u, peers) == 1 + Cardinality({v \in peers : Ahead(v, u)})

Outcome(points, place, size) ==
    CASE points = 0 -> "unranked"
      [] points > 0 /\ place <= Round(size * Promotion, 100) -> "promoted"
      [] points > 0 /\ place > Round(size * Promotion, 100)
           /\ place > size - Round(size * Relegation, 100) -> "relegated"
      [] OTHER -> "retained"

CloseCohort(c) ==
    /\ job # None /\ job.step = "close" /\ c \in job.left
    /\ LET peers == Members(c)
           Row(u) == [rank |-> Place(u, peers),
                      outcome |-> Outcome(SeasonPoints(u), Place(u, peers),
                                          Cardinality(peers))]
       IN  job' = [job EXCEPT !.left = @ \ {c},
                              !.rows = [u \in DOMAIN @ \cup peers |->
                                           IF u \in peers THEN Row(u) ELSE @[u]]]
    /\ UNCHANGED <<season, faults>> /\ JobMoves

CommitClose ==
    /\ job # None /\ job.step = "close" /\ job.left = {}
    /\ rank' = [u \in Users |-> IF u \in DOMAIN job.rows THEN job.rows[u].rank ELSE rank[u]]
    /\ outcome' = [u \in Users |->
           IF u \in DOMAIN job.rows THEN job.rows[u].outcome ELSE outcome[u]]
    /\ active' = FALSE /\ job' = None
    /\ UNCHANGED <<cohorts, cohort, score, progress, faults>> /\ JobMoves

\* The worker stops, the job is cancelled, or the database fails (also for an
\* enrolment that is purged between the job's read and its write).
JobDies ==
    /\ job # None /\ faults < MaxFaults
    /\ faults' = faults + 1
    /\ job' = None
    /\ UNCHANGED season /\ JobMoves

Scorer ==
    \/ StartScoring \/ ReadOn \/ CommitScores \/ CommitClose
    \/ \E u \in Users : ScoreUser(u)
    \/ \E c \in 1..Len(cohorts) : CloseCohort(c)

Next ==
    \/ NextWeek \/ Scorer \/ JobDies
    \/ \E u \in Users :
          \/ DeleteAccount(u) \/ Purge(u)
          \/ \E w \in Weeks, input \in Inputs : Study(u, w, input)
    \/ \E t \in Tx :
          \/ Enroll(t)
          \/ \E u \in Users, category \in Categories : BeginEnrollment(t, u, category)

Spec == Init /\ [][Next]_vars

\* The worker runs the job every hour, also after one that failed.
FairSpec == Spec /\ WF_vars(Scorer)
-----------------------------------------------------------------------------
Maybe(S) == S \cup {None}
Outcomes == {"promoted", "retained", "relegated", "unranked"}
MissionRow == [progress : Nat, completed : BOOLEAN]
Standing == [rank : 1..Cardinality(Users), outcome : Outcomes]

\* The job with rows of the users in D.
ScoreJobs(D) == [step : {"score"}, week : Weeks, over : BOOLEAN, left : SUBSET Users,
                 rows : [D -> Reading], current : Maybe(Underway)]
CloseJobs(D) == [step : {"close"}, left : SUBSET (1..Len(cohorts)), rows : [D -> Standing]]

\* The shape of the state.
TypeOK ==
    /\ week \in 0..Over /\ activity \in [Users -> [Weeks -> Inputs]]
    /\ deleted \subseteq Users /\ active \in BOOLEAN
    /\ cohorts \in Seq(Categories)
    /\ cohort \in [Users -> Maybe(1..Len(cohorts))]
    /\ score \in [Users -> [Weeks -> Maybe(Reading)]]
    /\ progress \in [Users -> [Missions -> Maybe(MissionRow)]]
    /\ rank \in [Users -> Maybe(1..Cardinality(Users))]
    /\ outcome \in [Users -> Maybe(Outcomes)]
    /\ enrolling \in [Tx -> Maybe([user : Users, category : Categories,
                                     cohort : 0..Len(cohorts)])]
    /\ job # None => \E D \in SUBSET Users : job \in ScoreJobs(D) \cup CloseJobs(D)
    /\ changes \in 0..MaxChanges /\ faults \in 0..MaxFaults
    /\ final \in [Users -> SUBSET Inputs]

SameCohort(u, v) == cohort[u] # None /\ cohort[u] = cohort[v]

\* What one is told of a season that is over.
History(u) == [points |-> SeasonPoints(u), rank |-> rank[u], outcome |-> outcome[u]]

(* Once the season is closed its standings explain themselves for good: in *)
(* each cohort the ranks follow the stored points, nobody relegated or     *)
(* retained is ahead of somebody who did better, only those without points *)
(* are unranked, and whoever scored is placed (service.py:564-612).        *)
StandingsFinal ==
    ~active =>
        /\ \A u \in Users : (cohort[u] # None /\ History(u).points > 0) => rank[u] # None
        /\ \A u \in Users : rank[u] # None =>
               (History(u).outcome = "unranked" <=> History(u).points = 0)
        /\ \A u, v \in Users :
               (SameCohort(u, v) /\ None \notin {rank[u], rank[v]}) =>
                   /\ Ahead(u, v) <=> rank[u] < rank[v]
                   /\ Ahead(u, v) =>
                          /\ outcome[v] = "promoted" => outcome[u] = "promoted"
                          /\ outcome[u] = "relegated" => outcome[v] # "retained"

(* "The final week has been scored; now the ladder can be settled"         *)
(* (league_scorer.py:50): whatever a closed season counts for its last     *)
(* week was read after the season's last day was over in UTC, query by     *)
(* query, also when a job died between the two commits.  That is after the *)
(* user's own week only where that ends no later.                          *)
FinalWeekScored ==
    ~active => \A u \in Users \ deleted :
        (rank[u] # None /\ score[u][LastWeek] # None) =>
            \A n \in Selects : score[u][LastWeek][n] \in final[u]

(* A season that is over is closed in the end, whatever users do and       *)
(* however often the job dies on the way.                                  *)
EventuallyClosed == (week = Over) ~> ~active
=============================================================================
