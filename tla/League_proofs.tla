----------------------------- MODULE League_proofs -----------------------------
(***************************************************************************)
(* What the scoring rules promise, for every week and every configuration  *)
(* that passes validation; that a season's standings are final and         *)
(* explain themselves, for any number of users, weeks, cohorts and jobs    *)
(* that die; and that the loops and sums of the statistics compute what    *)
(* they are to compute, for all sessions and days.                         *)
(***************************************************************************)
EXTENDS League, Statistics, FiniteSetTheorems, WellFoundedInduction, TLAPS

LEMMA ConfigTyped ==
    /\ config.goal_completion \in Nat /\ config.consistency \in Nat
    /\ config.focus_sessions \in Nat /\ config.task_completion \in Nat
    /\ config.group_participation \in Nat /\ config.total_points \in Nat
    /\ config.overshoot_cap_multiple \in Nat \ {0} /\ config.overshoot_credit_percent \in Nat
    /\ config.minimum_minutes \in Nat /\ config.bonus_per_extra_day \in Nat
    /\ config.bonus_cap \in Nat /\ config.focus_sessions_target \in Nat \ {0}
    /\ config.tasks_target \in Nat \ {0} /\ config.participation_target \in Nat \ {0}
BY ConfigAssumption DEF ScoringConfig

LEMMA WeekTyped ==
    ASSUME NEW w \in Week
    PROVE  /\ w.scheduled \in SUBSET Days /\ w.verified \in [Days -> Nat]
           /\ w.goal_minutes \in Nat /\ w.focus \in Nat /\ w.planned \in Nat
           /\ w.completed \in Nat /\ w.events \in Nat
           /\ Target(w) \in Nat
BY DEF Week, Target
-----------------------------------------------------------------------------
(* Arithmetic.                                                             *)

LEMMA Division ==
    ASSUME NEW a \in Int, NEW b \in Nat \ {0}
    PROVE  /\ a \div b \in Int /\ a % b \in Nat /\ a % b < b
           /\ a = b * (a \div b) + (a % b)
BY SMT

LEMMA Quotient ==
    ASSUME NEW a \in Nat, NEW b \in Nat \ {0}
    PROVE  a \div b \in Nat
<1> DEFINE q == a \div b
           r == a % b
<1>1. q \in Int /\ r \in Nat /\ r < b /\ a = b * q + r
  BY Division
<1> HIDE DEF q, r
<1>2. q >= 0
  <2> SUFFICES ASSUME q <= -1 PROVE FALSE
    BY <1>1
  <2>1. b * q <= -b
    BY <1>1
  <2> QED BY <1>1, <2>1
<1> QED BY <1>1, <1>2 DEF q

LEMMA Product ==
    ASSUME NEW a \in Int, NEW b \in Int, NEW c \in Nat, a <= b
    PROVE  a * c <= b * c
BY SMT

LEMMA RoundTyped ==
    ASSUME NEW a \in Int, NEW b \in Nat \ {0}
    PROVE  Round(a, b) \in Int
BY Division DEF Round

\* What divides evenly is not rounded.
LEMMA RoundExact ==
    ASSUME NEW k \in Nat, NEW b \in Nat \ {0}
    PROVE  Round(b * k, b) = k
<1> DEFINE a == b * k
           q == a \div b
           r == a % b
<1>1. a \in Int /\ q \in Int /\ r \in Nat /\ r < b /\ b * k = b * q + r
  BY Division
<1> HIDE DEF q, r
<1>2. b * (k - q) = r
  BY <1>1
<1>3. k - q = 0
  <2>1. CASE k - q >= 1
    <3>1. b * (k - q) >= b
      BY <1>1, <2>1
    <3> QED BY <1>1, <1>2, <3>1
  <2>2. CASE k - q <= -1
    <3>1. b * (k - q) <= -b
      BY <1>1, <2>2
    <3> QED BY <1>1, <1>2, <3>1
  <2> QED BY <1>1, <2>1, <2>2
<1>4. q = k /\ r = 0
  BY <1>1, <1>2, <1>3
<1> QED BY <1>4 DEF Round, q, r

\* Rounding keeps the order.
LEMMA RoundMonotone ==
    ASSUME NEW a \in Int, NEW c \in Int, NEW b \in Nat \ {0}, a <= c
    PROVE  Round(a, b) <= Round(c, b)
<1> DEFINE q == a \div b
           p == c \div b
           r == a % b
           s == c % b
<1>1. /\ q \in Int /\ p \in Int /\ r \in Nat /\ s \in Nat /\ r < b /\ s < b
      /\ a = b * q + r /\ c = b * p + s
  BY Division
<1>2. /\ Round(a, b) = IF 2 * r > b \/ (2 * r = b /\ q % 2 = 1) THEN q + 1 ELSE q
      /\ Round(c, b) = IF 2 * s > b \/ (2 * s = b /\ p % 2 = 1) THEN p + 1 ELSE p
  BY DEF Round
<1> HIDE DEF q, p, r, s
<1>3. q <= p
  <2> SUFFICES ASSUME p + 1 <= q PROVE FALSE
    BY <1>1
  <2>1. b * (p + 1) <= b * q
    BY <1>1
  <2>2. b * (p + 1) = b * p + b
    BY <1>1
  <2> QED BY <1>1, <2>1, <2>2
<1>4. CASE q < p
  BY <1>1, <1>2, <1>4
<1>5. CASE q = p
  <2>1. r <= s
    BY <1>1, <1>5
  <2> QED BY <1>1, <1>2, <1>5, <2>1
<1> QED BY <1>1, <1>3, <1>4, <1>5

LEMMA CapTyped ==
    ASSUME NEW a \in Int, NEW m \in Nat
    PROVE  Cap(a, m) \in 0..m
BY DEF Cap, Least

LEMMA CapMonotone ==
    ASSUME NEW a \in Int, NEW c \in Int, NEW m \in Nat, a <= c
    PROVE  Cap(a, m) <= Cap(c, m)
BY DEF Cap, Least
-----------------------------------------------------------------------------
(* Sums over the days of a week.                                           *)

LEMMA DaySumTyped ==
    ASSUME NEW f \in [Days -> Nat]
    PROVE  DaySum(f) \in Nat
BY DEF DaySum, Days

LEMMA DaySumMonotone ==
    ASSUME NEW f \in [Days -> Nat], NEW g \in [Days -> Nat], \A d \in Days : f[d] <= g[d]
    PROVE  DaySum(f) <= DaySum(g)
<1>1. f[1] <= g[1] /\ f[2] <= g[2] /\ f[3] <= g[3] /\ f[4] <= g[4] /\ f[5] <= g[5]
      /\ f[6] <= g[6] /\ f[7] <= g[7]
  BY DEF Days
<1>2. \A d \in {1, 2, 3, 4, 5, 6, 7} : f[d] \in Nat /\ g[d] \in Nat
  BY DEF Days
<1> QED BY <1>1, <1>2 DEF DaySum

LEMMA NumDaysTyped ==
    ASSUME NEW S \in SUBSET Days
    PROVE  NumDays(S) \in Nat /\ (S # {} => NumDays(S) > 0)
<1> DEFINE f == [d \in Days |-> IF d \in S THEN 1 ELSE 0]
<1>1. f \in [Days -> Nat] /\ \A d \in {1, 2, 3, 4, 5, 6, 7} : f[d] = IF d \in S THEN 1 ELSE 0
  BY DEF Days
<1>2. S # {} => 1 \in S \/ 2 \in S \/ 3 \in S \/ 4 \in S \/ 5 \in S \/ 6 \in S \/ 7 \in S
  <2> SUFFICES ASSUME NEW d \in S
               PROVE  1 \in S \/ 2 \in S \/ 3 \in S \/ 4 \in S \/ 5 \in S \/ 6 \in S \/ 7 \in S
    OBVIOUS
  <2>1. d = 1 \/ d = 2 \/ d = 3 \/ d = 4 \/ d = 5 \/ d = 6 \/ d = 7
    BY DEF Days
  <2> QED BY <2>1
<1>3. NumDays(S) = DaySum(f)
  BY DEF NumDays
<1> HIDE DEF f
<1> QED BY <1>1, <1>2, <1>3 DEF DaySum

LEMMA NumDaysMonotone ==
    ASSUME NEW S \in SUBSET Days, NEW T \in SUBSET Days, S \subseteq T
    PROVE  NumDays(S) <= NumDays(T)
<1> DEFINE f == [d \in Days |-> IF d \in S THEN 1 ELSE 0]
           g == [d \in Days |-> IF d \in T THEN 1 ELSE 0]
<1>1. f \in [Days -> Nat] /\ g \in [Days -> Nat] /\ \A d \in Days : f[d] <= g[d]
  OBVIOUS
<1>2. NumDays(S) = DaySum(f) /\ NumDays(T) = DaySum(g)
  BY DEF NumDays
<1> HIDE DEF f, g
<1> QED BY <1>1, <1>2, DaySumMonotone

LEMMA Distribute ==
    ASSUME NEW a \in Nat, NEW b \in Nat, NEW c \in Nat, NEW d \in Nat, NEW e \in Nat,
           NEW f \in Nat, NEW g \in Nat, NEW t \in Nat
    PROVE  a * t + b * t + c * t + d * t + e * t + f * t + g * t
               = (a + b + c + d + e + f + g) * t
<1>1. a * t + b * t + c * t = (a + b + c) * t
  OBVIOUS
<1>2. d * t + e * t + f * t + g * t = (d + e + f + g) * t
  OBVIOUS
<1> QED BY <1>1, <1>2

\* So many days of the same worth.
LEMMA SameEveryDay ==
    ASSUME NEW S \in SUBSET Days, NEW t \in Nat
    PROVE  DaySum([d \in Days |-> IF d \in S THEN t ELSE 0]) = NumDays(S) * t
<1> DEFINE f == [d \in Days |-> IF d \in S THEN 1 ELSE 0]
           g == [d \in Days |-> IF d \in S THEN t ELSE 0]
<1>1. \A d \in {1, 2, 3, 4, 5, 6, 7} : f[d] \in {0, 1} /\ g[d] = f[d] * t
  BY DEF Days
<1>2. NumDays(S) = f[1] + f[2] + f[3] + f[4] + f[5] + f[6] + f[7]
  BY DEF NumDays, DaySum
<1>3. DaySum(g) = g[1] + g[2] + g[3] + g[4] + g[5] + g[6] + g[7]
  BY DEF DaySum
<1> HIDE DEF f, g
<1>4. DaySum(g) = f[1] * t + f[2] * t + f[3] * t + f[4] * t + f[5] * t + f[6] * t + f[7] * t
  BY <1>1, <1>3
<1>5. /\ f[1] \in Nat /\ f[2] \in Nat /\ f[3] \in Nat /\ f[4] \in Nat
      /\ f[5] \in Nat /\ f[6] \in Nat /\ f[7] \in Nat
  BY <1>1
<1>6. f[1] * t + f[2] * t + f[3] * t + f[4] * t + f[5] * t + f[6] * t + f[7] * t
          = (f[1] + f[2] + f[3] + f[4] + f[5] + f[6] + f[7]) * t
  BY <1>5, Distribute
<1>7. DaySum(g) = NumDays(S) * t
  BY <1>2, <1>4, <1>6
<1> QED BY <1>7 DEF g
-----------------------------------------------------------------------------
(* The parts of a week's score.                                            *)

LEMMA AttainedFacts ==
    ASSUME NEW s \in Nat, NEW t \in Nat
    PROVE  /\ Attained(s, t) \in 0..t
           /\ s >= t => Attained(s, t) = t
           /\ s < t => Attained(s, t) = s
<1> DEFINE room == t * (config.overshoot_cap_multiple - 1)
           bonus == IF s > t /\ room > 0
                    THEN (Least(s - t, room) * t
                          * config.overshoot_credit_percent) \div (100 * room)
                    ELSE 0
<1>1. room \in Nat
  BY ConfigTyped
<1>2. bonus \in Nat /\ (s <= t => bonus = 0)
  <2>1. CASE s > t /\ room > 0
    <3> DEFINE a == Least(s - t, room) * t * config.overshoot_credit_percent
    <3>1. Least(s - t, room) \in Nat
      BY <1>1, <2>1 DEF Least
    <3>2. a \in Nat
      BY <3>1, ConfigTyped
    <3>3. 100 * room \in Nat \ {0}
      BY <1>1, <2>1
    <3> HIDE DEF a, room
    <3>4. a \div (100 * room) \in Nat
      BY <3>2, <3>3, Quotient
    <3> QED BY <2>1, <3>4 DEF a, room
  <2>2. CASE ~(s > t /\ room > 0)
    BY <2>2
  <2> QED BY <2>1, <2>2
<1>3. Attained(s, t) = Least(Least(s, t) + bonus, t)
  BY DEF Attained
<1> HIDE DEF bonus
<1> QED BY <1>2, <1>3 DEF Least

LEMMA AttainedMonotone ==
    ASSUME NEW s \in Nat, NEW u \in Nat, NEW t \in Nat, s <= u
    PROVE  Attained(s, t) <= Attained(u, t)
<1>1. Attained(s, t) \in 0..t
  BY AttainedFacts
<1>2. CASE u >= t
  <2>1. Attained(u, t) = t
    BY <1>2, AttainedFacts
  <2> QED BY <1>1, <2>1
<1>3. CASE u < t
  <2>1. Attained(u, t) = u
    BY <1>3, AttainedFacts
  <2>2. Attained(s, t) = s
    BY <1>3, AttainedFacts
  <2> QED BY <2>1, <2>2
<1> QED BY <1>2, <1>3

\* The goal points of a week with scheduled days and a goal.
Total(w) == DaySum([d \in Days |->
                IF d \in w.scheduled THEN Attained(w.verified[d], Target(w)) ELSE 0])

LEMMA GoalPointsAre ==
    ASSUME NEW w \in Week, w.scheduled # {}, w.goal_minutes # 0
    PROVE  /\ GoalPoints(w) = Cap(Round(Total(w) * config.goal_completion,
                                        NumDays(w.scheduled) * Target(w)),
                                  config.goal_completion)
           /\ Total(w) \in Nat /\ Total(w) * config.goal_completion \in Nat
           /\ NumDays(w.scheduled) * Target(w) \in Nat \ {0}
<1>1. [d \in Days |-> IF d \in w.scheduled THEN Attained(w.verified[d], Target(w)) ELSE 0]
          \in [Days -> Nat]
  BY WeekTyped, AttainedFacts
<1>2. Total(w) \in Nat
  BY <1>1, DaySumTyped DEF Total
<1>3. Total(w) * config.goal_completion \in Nat
  BY <1>2, ConfigTyped
<1>4. NumDays(w.scheduled) * Target(w) \in Nat \ {0}
  <2>1. NumDays(w.scheduled) \in Nat \ {0}
    BY WeekTyped, NumDaysTyped
  <2>2. Target(w) \in Nat \ {0}
    BY WeekTyped DEF Target
  <2> QED BY <2>1, <2>2
<1> QED BY <1>2, <1>3, <1>4 DEF GoalPoints, Total

LEMMA GoalPointsTyped ==
    ASSUME NEW w \in Week
    PROVE  GoalPoints(w) \in 0..config.goal_completion
<1>1. CASE w.scheduled = {} \/ w.goal_minutes = 0
  BY <1>1, ConfigTyped DEF GoalPoints
<1>2. CASE w.scheduled # {} /\ w.goal_minutes # 0
  <2> DEFINE r == Round(Total(w) * config.goal_completion, NumDays(w.scheduled) * Target(w))
  <2>1. GoalPoints(w) = Cap(r, config.goal_completion)
    BY <1>2, GoalPointsAre
  <2>2. r \in Int
    BY <1>2, GoalPointsAre, RoundTyped
  <2> QED BY <2>1, <2>2, CapTyped, ConfigTyped
<1> QED BY <1>1, <1>2

LEMMA StudiedIs ==
    ASSUME NEW w \in Week
    PROVE  Studied(w) \in SUBSET Days
BY DEF Studied

\* The week's consistency points before they are capped.
Regular(w) ==
    NumDays(Studied(w) \cap w.scheduled) * (config.consistency - config.bonus_cap)
    + Least(NumDays(Studied(w) \ w.scheduled) * config.bonus_per_extra_day, config.bonus_cap)
          * NumDays(w.scheduled)

LEMMA ConsistencyPointsAre ==
    ASSUME NEW w \in Week, w.scheduled # {}
    PROVE  /\ ConsistencyPoints(w) = Cap(Round(Regular(w), NumDays(w.scheduled)), config.consistency)
           /\ Regular(w) \in Int /\ NumDays(w.scheduled) \in Nat \ {0}
<1>1. NumDays(w.scheduled) \in Nat \ {0}
  BY WeekTyped, NumDaysTyped
<1>2. /\ NumDays(Studied(w) \cap w.scheduled) \in Nat
      /\ NumDays(Studied(w) \ w.scheduled) \in Nat
  BY StudiedIs, NumDaysTyped
<1>3. Least(NumDays(Studied(w) \ w.scheduled) * config.bonus_per_extra_day, config.bonus_cap) \in Nat
  BY <1>2, ConfigTyped DEF Least
<1>4. Regular(w) \in Int
  BY <1>1, <1>2, <1>3, ConfigTyped DEF Regular
<1> QED BY <1>1, <1>4 DEF ConsistencyPoints, Regular

LEMMA ConsistencyPointsTyped ==
    ASSUME NEW w \in Week
    PROVE  ConsistencyPoints(w) \in 0..config.consistency
<1>1. CASE w.scheduled = {}
  BY <1>1, ConfigTyped DEF ConsistencyPoints
<1>2. CASE w.scheduled # {}
  BY <1>2, ConsistencyPointsAre, RoundTyped, CapTyped, ConfigTyped
<1> QED BY <1>1, <1>2

LEMMA OtherPointsTyped ==
    ASSUME NEW w \in Week
    PROVE  /\ FocusPoints(w) \in 0..config.focus_sessions
           /\ TaskPoints(w) \in 0..config.task_completion
           /\ ParticipationPoints(w) \in 0..config.group_participation
<1>1. FocusPoints(w) \in 0..config.focus_sessions
  <2>1. Least(w.focus, config.focus_sessions_target) * config.focus_sessions \in Nat
    BY WeekTyped, ConfigTyped DEF Least
  <2> DEFINE r == Round(Least(w.focus, config.focus_sessions_target) * config.focus_sessions,
                        config.focus_sessions_target)
  <2>2. r \in Int
    BY <2>1, ConfigTyped, RoundTyped
  <2>3. FocusPoints(w) = Cap(r, config.focus_sessions)
    BY DEF FocusPoints
  <2> QED BY <2>2, <2>3, ConfigTyped, CapTyped
<1>2. TaskPoints(w) \in 0..config.task_completion
  <2> DEFINE completed == Least(w.completed, w.planned)
             volume == Least(w.planned, config.tasks_target)
  <2>1. CASE w.planned = 0
    BY <2>1, ConfigTyped DEF TaskPoints
  <2>2. CASE w.planned # 0
    <3>1. completed \in Nat /\ volume \in Nat
      BY WeekTyped, ConfigTyped DEF Least
    <3>2. /\ completed * volume * config.task_completion \in Nat
          /\ w.planned * config.tasks_target \in Nat \ {0}
      BY <2>2, <3>1, WeekTyped, ConfigTyped
    <3> DEFINE r == Round(completed * volume * config.task_completion,
                          w.planned * config.tasks_target)
    <3>3. r \in Int
      BY <3>2, RoundTyped
    <3>4. TaskPoints(w) = Cap(r, config.task_completion)
      BY <2>2 DEF TaskPoints
    <3> QED BY <3>3, <3>4, ConfigTyped, CapTyped
  <2> QED BY <2>1, <2>2
<1>3. ParticipationPoints(w) \in 0..config.group_participation
  <2>1. Least(w.events, config.participation_target) * config.group_participation \in Nat
    BY WeekTyped, ConfigTyped DEF Least
  <2> DEFINE r == Round(Least(w.events, config.participation_target) * config.group_participation,
                        config.participation_target)
  <2>2. r \in Int
    BY <2>1, ConfigTyped, RoundTyped
  <2>3. ParticipationPoints(w) = Cap(r, config.group_participation)
    BY DEF ParticipationPoints
  <2> QED BY <2>2, <2>3, ConfigTyped, CapTyped
<1> QED BY <1>1, <1>2, <1>3
-----------------------------------------------------------------------------
(* The theorems.                                                           *)

(* A week's score is within the season's budget: no number of days, tasks, *)
(* sessions or events lifts it above total_points.                         *)
THEOREM ScoresStayWithinBudget == \A w \in Week : WithinBudget(w)
<1> SUFFICES ASSUME NEW w \in Week PROVE WithinBudget(w)
  OBVIOUS
<1>1. /\ GoalPoints(w) \in 0..config.goal_completion
      /\ ConsistencyPoints(w) \in 0..config.consistency
      /\ FocusPoints(w) \in 0..config.focus_sessions
      /\ TaskPoints(w) \in 0..config.task_completion
      /\ ParticipationPoints(w) \in 0..config.group_participation
  BY GoalPointsTyped, ConsistencyPointsTyped, OtherPointsTyped
<1> QED BY <1>1, ConfigTyped, ConfigAssumption DEF WithinBudget, TotalPoints, Validated

LEMMA MoreOfTheSame ==
    ASSUME NEW w \in Week, NEW x \in Week, StudiedMore(w, x)
    PROVE  /\ x.scheduled = w.scheduled /\ x.goal_minutes = w.goal_minutes
           /\ x.focus = w.focus /\ x.planned = w.planned /\ x.completed = w.completed
           /\ x.events = w.events /\ Target(x) = Target(w)
           /\ \A d \in Days : w.verified[d] <= x.verified[d]
BY DEF StudiedMore, Week, Target

(* A configuration whose bonus for extra days is part of its consistency   *)
(* points never takes points from a user for studying more, on a rest day  *)
(* or a scheduled one.                                                     *)
THEOREM StudyingNeverHurts ==
    ASSUME config.bonus_cap <= config.consistency
    PROVE  \A w, x \in Week : NeverHurts(w, x)
<1> SUFFICES ASSUME NEW w \in Week, NEW x \in Week, StudiedMore(w, x)
             PROVE  TotalPoints(w) <= TotalPoints(x)
  BY DEF NeverHurts
<1>1. /\ x.scheduled = w.scheduled /\ x.goal_minutes = w.goal_minutes
      /\ x.focus = w.focus /\ x.planned = w.planned /\ x.completed = w.completed
      /\ x.events = w.events /\ Target(x) = Target(w)
      /\ \A d \in Days : w.verified[d] <= x.verified[d]
  BY MoreOfTheSame
<1>2. GoalPoints(w) <= GoalPoints(x)
  <2>1. CASE w.scheduled = {} \/ w.goal_minutes = 0
    BY <1>1, <2>1 DEF GoalPoints
  <2>2. CASE w.scheduled # {} /\ w.goal_minutes # 0
    <3> DEFINE f == [d \in Days |-> IF d \in w.scheduled
                                    THEN Attained(w.verified[d], Target(w)) ELSE 0]
               g == [d \in Days |-> IF d \in w.scheduled
                                    THEN Attained(x.verified[d], Target(w)) ELSE 0]
               days == NumDays(w.scheduled) * Target(w)
    <3>1. f \in [Days -> Nat] /\ g \in [Days -> Nat] /\ \A d \in Days : f[d] <= g[d]
      <4>1. \A d \in Days : /\ w.verified[d] \in Nat /\ x.verified[d] \in Nat
                             /\ w.verified[d] <= x.verified[d]
        BY <1>1, WeekTyped
      <4>2. Target(w) \in Nat
        BY WeekTyped
      <4>3. \A d \in Days :
                /\ Attained(w.verified[d], Target(w)) \in 0..Target(w)
                /\ Attained(x.verified[d], Target(w)) \in 0..Target(w)
                /\ Attained(w.verified[d], Target(w)) <= Attained(x.verified[d], Target(w))
        BY <4>1, <4>2, AttainedFacts, AttainedMonotone
      <4> QED BY <4>2, <4>3
    <3>2. Total(w) = DaySum(f) /\ Total(x) = DaySum(g)
      BY <1>1 DEF Total
    <3> HIDE DEF f, g
    <3>3. Total(w) <= Total(x)
      BY <3>1, <3>2, DaySumMonotone
    <3>4. /\ GoalPoints(w) = Cap(Round(Total(w) * config.goal_completion, days), config.goal_completion)
          /\ GoalPoints(x) = Cap(Round(Total(x) * config.goal_completion, days), config.goal_completion)
          /\ Total(w) \in Nat /\ Total(x) \in Nat /\ days \in Nat \ {0}
          /\ Total(w) * config.goal_completion \in Nat /\ Total(x) * config.goal_completion \in Nat
      BY <1>1, <2>2, GoalPointsAre
    <3> HIDE DEF days
    <3>5. Total(w) * config.goal_completion <= Total(x) * config.goal_completion
      BY <3>3, <3>4, Product, ConfigTyped
    <3>6. /\ Round(Total(w) * config.goal_completion, days) \in Int
          /\ Round(Total(x) * config.goal_completion, days) \in Int
          /\ Round(Total(w) * config.goal_completion, days)
                 <= Round(Total(x) * config.goal_completion, days)
      BY <3>4, <3>5, RoundTyped, RoundMonotone
    <3> QED BY <3>4, <3>6, CapMonotone, ConfigTyped
  <2> QED BY <2>1, <2>2
<1>3. ConsistencyPoints(w) <= ConsistencyPoints(x)
  <2>1. CASE w.scheduled = {}
    BY <1>1, <2>1 DEF ConsistencyPoints
  <2>2. CASE w.scheduled # {}
    <3>1. Studied(w) \subseteq Studied(x)
      <4> SUFFICES ASSUME NEW d \in Studied(w) PROVE d \in Studied(x)
        OBVIOUS
      <4>1. d \in Days /\ w.verified[d] >= 60 * config.minimum_minutes
        BY DEF Studied
      <4>2. w.verified[d] \in Nat /\ x.verified[d] \in Nat /\ w.verified[d] <= x.verified[d]
        BY <1>1, <4>1, WeekTyped
      <4> QED BY <4>1, <4>2, ConfigTyped DEF Studied
    <3> DEFINE i == NumDays(Studied(w) \cap w.scheduled)
               j == NumDays(Studied(x) \cap w.scheduled)
               k == NumDays(Studied(w) \ w.scheduled)
               m == NumDays(Studied(x) \ w.scheduled)
               days == NumDays(w.scheduled)
               B == config.bonus_per_extra_day
               C == config.bonus_cap
               R == config.consistency - config.bonus_cap
    <3>2. /\ i \in Nat /\ j \in Nat /\ k \in Nat /\ m \in Nat /\ i <= j /\ k <= m
      BY <3>1, StudiedIs, NumDaysTyped, NumDaysMonotone
    <3>3. /\ Regular(w) = i * R + Least(k * B, C) * days
          /\ Regular(x) = j * R + Least(m * B, C) * days
      BY <1>1 DEF Regular
    <3>4. B \in Nat /\ C \in Nat /\ R \in Nat
      BY ConfigTyped
    <3>5. /\ ConsistencyPoints(w) = Cap(Round(Regular(w), days), config.consistency)
          /\ ConsistencyPoints(x) = Cap(Round(Regular(x), days), config.consistency)
          /\ Regular(w) \in Int /\ Regular(x) \in Int /\ days \in Nat \ {0}
      BY <1>1, <2>2, ConsistencyPointsAre
    <3> HIDE DEF i, j, k, m, days, B, C, R
    <3>6. k * B \in Nat /\ m * B \in Nat /\ k * B <= m * B /\ i * R <= j * R
          /\ i * R \in Nat /\ j * R \in Nat
      BY <3>2, <3>4, Product
    <3>7. Least(k * B, C) \in Nat /\ Least(m * B, C) \in Nat /\ Least(k * B, C) <= Least(m * B, C)
      BY <3>4, <3>6 DEF Least
    <3>8. /\ Least(k * B, C) * days <= Least(m * B, C) * days
          /\ Least(k * B, C) * days \in Nat /\ Least(m * B, C) * days \in Nat
      BY <3>5, <3>7, Product
    <3>9. Regular(w) <= Regular(x)
      BY <3>3, <3>6, <3>8
    <3>10. Round(Regular(w), days) \in Int /\ Round(Regular(x), days) \in Int
           /\ Round(Regular(w), days) <= Round(Regular(x), days)
      BY <3>5, <3>9, RoundTyped, RoundMonotone
    <3> QED BY <3>5, <3>10, CapMonotone, ConfigTyped
  <2> QED BY <2>1, <2>2
<1>4. /\ FocusPoints(w) = FocusPoints(x) /\ TaskPoints(w) = TaskPoints(x)
      /\ ParticipationPoints(w) = ParticipationPoints(x)
  BY <1>1 DEF FocusPoints, TaskPoints, ParticipationPoints
<1>5. /\ GoalPoints(w) \in Int /\ GoalPoints(x) \in Int
      /\ ConsistencyPoints(w) \in Int /\ ConsistencyPoints(x) \in Int
      /\ FocusPoints(w) \in Int /\ TaskPoints(w) \in Int /\ ParticipationPoints(w) \in Int
  BY GoalPointsTyped, ConsistencyPointsTyped, OtherPointsTyped
<1> QED BY <1>2, <1>3, <1>4, <1>5 DEF TotalPoints

(* The credit for overshooting a day's goal is dead code: whatever it is   *)
(* configured to be, time past the goal earns nothing.                     *)
THEOREM OvershootIsWorthNothing == \A w, x \in Week : OvershootEarnsNothing(w, x)
<1> SUFFICES ASSUME NEW w \in Week, NEW x \in Week, StudiedMore(w, x),
                    \A d \in Days : w.verified[d] = x.verified[d] \/ w.verified[d] >= Target(w)
             PROVE  GoalPoints(w) = GoalPoints(x)
  BY DEF OvershootEarnsNothing
<1>1. /\ x.scheduled = w.scheduled /\ x.goal_minutes = w.goal_minutes /\ Target(x) = Target(w)
      /\ \A d \in Days : w.verified[d] <= x.verified[d]
  BY MoreOfTheSame
<1>2. ASSUME NEW d \in Days
      PROVE  Attained(w.verified[d], Target(w)) = Attained(x.verified[d], Target(x))
  <2>1. w.verified[d] \in Nat /\ x.verified[d] \in Nat /\ Target(w) \in Nat
    BY WeekTyped
  <2>2. CASE w.verified[d] = x.verified[d]
    BY <1>1, <2>2
  <2>3. CASE w.verified[d] >= Target(w)
    <3>1. x.verified[d] >= Target(w) /\ w.verified[d] <= x.verified[d]
      BY <1>1, <2>1, <2>3
    <3> QED BY <1>1, <2>1, <2>3, <3>1, AttainedFacts
  <2> QED BY <2>2, <2>3
<1>3. [d \in Days |-> IF d \in w.scheduled THEN Attained(w.verified[d], Target(w)) ELSE 0]
          = [d \in Days |-> IF d \in x.scheduled THEN Attained(x.verified[d], Target(x)) ELSE 0]
  BY <1>1, <1>2
<1> QED BY <1>1, <1>3 DEF GoalPoints

(* Whoever meets the goal on every scheduled day has all the points there  *)
(* are for it, however few days are scheduled.                             *)
THEOREM RestDaysAreFree == \A w \in Week : RestIsFree(w)
<1> SUFFICES ASSUME NEW w \in Week, w.goal_minutes > 0, w.scheduled # {},
                    w.scheduled \subseteq GoalMet(w)
             PROVE  GoalPoints(w) = config.goal_completion
  BY DEF RestIsFree
<1> DEFINE t == Target(w)
           n == NumDays(w.scheduled)
           G == config.goal_completion
<1>1. t \in Nat /\ w.scheduled \in SUBSET Days /\ G \in Nat /\ n \in Nat
  BY WeekTyped, ConfigTyped, NumDaysTyped
<1>2. \A d \in w.scheduled : Attained(w.verified[d], t) = t
  BY <1>1, WeekTyped, AttainedFacts DEF GoalMet
<1>3. [d \in Days |-> IF d \in w.scheduled THEN Attained(w.verified[d], t) ELSE 0]
          = [d \in Days |-> IF d \in w.scheduled THEN t ELSE 0]
  BY <1>2
<1>4. Total(w) = n * t
  BY <1>1, <1>3, SameEveryDay DEF Total
<1>5. /\ GoalPoints(w) = Cap(Round(Total(w) * G, n * t), G)
      /\ n * t \in Nat \ {0}
  BY WeekTyped, GoalPointsAre
<1> HIDE DEF t, n, G
<1>6. Round((n * t) * G, n * t) = G
  BY <1>1, <1>5, RoundExact
<1>7. Cap(G, G) = G
  BY <1>1 DEF Cap, Least
<1> QED BY <1>4, <1>5, <1>6, <1>7 DEF G
-----------------------------------------------------------------------------
(* The points of a season.                                                 *)

(* A set of numbers has a least one. *)
LEMMA NatLeast ==
    ASSUME NEW T \in SUBSET Nat, T # {} PROVE \E x \in T : \A y \in T : x <= y
<1>. DEFINE R == {p \in Nat \X Nat : p[1] < p[2]}
<1>1. IsWellFoundedOn(R, Nat)
  BY NatLessThanWellFounded DEF OpToRel
<1>2. \A x, y \in Nat : <<y, x>> \in R <=> y < x
  OBVIOUS
<1>. HIDE DEF R
<1>3. PICK x \in T : \A y \in T : ~(<<y, x>> \in R)
  BY <1>1, WFMin
<1>4. ASSUME NEW y \in T PROVE x <= y
  <2>1. x \in Nat /\ y \in Nat /\ ~(<<y, x>> \in R)
    BY <1>3
  <2>2. ~(y < x)
    BY <1>2, <2>1
  <2>. QED
    BY <2>1, <2>2
<1>. QED
  BY <1>4

LEMMA TotalPointsTyped ==
    ASSUME NEW w \in Week
    PROVE  TotalPoints(w) \in Nat
BY ScoresStayWithinBudget, ConfigTyped DEF WithinBudget

(* A mixture of weeks is a week. *)
LEMMA CombinedTyped ==
    ASSUME NEW reading \in Reading
    PROVE  Combined(reading) \in Week
<1>1. \A n \in 1..6 : Facts[reading[n]] \in Week
  BY LeagueAssumption DEF Reading, Selects
<1> DEFINE f == [n \in 1..6 |-> Facts[reading[n]]]
<1>2. /\ f[1].scheduled \in SUBSET Days /\ f[1].goal_minutes \in Nat
      /\ f[2].verified \in [Days -> Nat] /\ f[3].focus \in Nat
      /\ f[4].planned \in Nat /\ f[4].completed \in Nat
      /\ f[5].events \in Nat /\ f[6].early \in Nat
  BY <1>1 DEF Week
<1>3. Combined(reading) =
        [scheduled |-> f[1].scheduled, goal_minutes |-> f[1].goal_minutes,
         verified |-> f[2].verified, focus |-> f[3].focus,
         planned |-> f[4].planned, completed |-> f[4].completed,
         events |-> f[5].events, early |-> f[6].early]
  BY DEF Combined
<1> HIDE DEF f
<1> QED BY <1>2, <1>3 DEF Week

LEMMA PointsAreNumbers == \A reading \in Reading : Points[reading] \in Nat
BY CombinedTyped, TotalPointsTyped, LeagueAssumption

RowPoints(row, w) == IF row[w] = None THEN 0 ELSE Points[row[w]]
RowSum(row) ==
    LET sum[w \in Weeks] == RowPoints(row, w) + IF w = 0 THEN 0 ELSE sum[w - 1]
    IN  sum[LastWeek]

(* The running sums of g, up to n. *)
LEMMA SumExists ==
    ASSUME NEW n \in Nat, NEW g, \A k \in 0..n : g[k] \in Nat
    PROVE  \E f \in [0..n -> Nat] :
               f = [k \in 0..n |-> g[k] + IF k = 0 THEN 0 ELSE f[k - 1]]
<1> DEFINE Sums(m, f) == f \in [0..m -> Nat]
                         /\ \A k \in 0..m : f[k] = g[k] + IF k = 0 THEN 0 ELSE f[k - 1]
           Bad == {m \in 0..n : ~\E f : Sums(m, f)}
<1>1. Bad = {}
  <2> SUFFICES ASSUME Bad # {} PROVE FALSE
    OBVIOUS
  <2>1. PICK m \in Bad : \A k \in Bad : m <= k
    <3>1. Bad \in SUBSET Nat
      OBVIOUS
    <3> HIDE DEF Bad
    <3> QED BY <3>1, NatLeast
  <2>2. CASE m = 0
    <3> DEFINE h == [k \in 0..0 |-> g[0]]
    <3>1. g[0] \in Nat /\ \A k \in 0..0 : k = 0
      OBVIOUS
    <3>2. h \in [0..0 -> Nat] /\ \A k \in 0..0 : h[k] = g[0] + 0
      BY <3>1
    <3>3. Sums(0, h)
      BY <3>1, <3>2
    <3> QED BY <2>1, <2>2, <3>3
  <2>3. CASE m # 0
    <3>1. m - 1 \in 0..n /\ ~(m <= m - 1)
      BY <2>1, <2>3
    <3>7. m - 1 \notin Bad
      BY <2>1, <3>1
    <3>2. PICK f : Sums(m - 1, f)
      BY <3>1, <3>7
    <3> DEFINE h == [k \in 0..m |-> IF k = m THEN g[m] + f[m - 1] ELSE f[k]]
    <3>3. g[m] \in Nat /\ m \in Nat /\ f[m - 1] \in Nat /\ \A k \in 0..(m - 1) : f[k] \in Nat
      BY <2>1, <2>3, <3>2
    <3>4. h \in [0..m -> Nat]
      BY <3>3
    <3>5. ASSUME NEW k \in 0..m PROVE h[k] = g[k] + IF k = 0 THEN 0 ELSE h[k - 1]
      <4>1. CASE k = m
        BY <2>3, <3>3, <4>1
      <4>2. CASE k # m
        <5>1. k \in 0..(m - 1) /\ (k # 0 => k - 1 \in 0..(m - 1) /\ k - 1 \in 0..m /\ k - 1 # m)
          BY <4>2, <3>3
        <5>2. f[k] = g[k] + IF k = 0 THEN 0 ELSE f[k - 1]
          BY <3>2, <5>1
        <5> QED BY <4>2, <5>1, <5>2
      <4> QED BY <4>1, <4>2
    <3>6. Sums(m, h)
      BY <3>4, <3>5
    <3> QED BY <2>1, <3>6
  <2> QED BY <2>2, <2>3
<1>2. PICK f : Sums(n, f)
  BY <1>1
<1>3. f = [k \in 0..n |-> g[k] + IF k = 0 THEN 0 ELSE f[k - 1]]
  BY <1>2
<1> QED BY <1>2, <1>3

(* The sums of a user's points, which are never negative. *)
LEMMA RowSums ==
    ASSUME NEW row \in [Weeks -> Maybe(Reading)]
    PROVE  \E sum : /\ RowSum(row) = sum[LastWeek]
                    /\ \A k \in 0..LastWeek :
                           /\ sum[k] \in Nat
                           /\ sum[k] = RowPoints(row, k) + (IF k = 0 THEN 0 ELSE sum[k - 1])
<1> DEFINE g == [w \in Weeks |-> RowPoints(row, w)]
           S(f) == f = [w \in Weeks |-> RowPoints(row, w) + IF w = 0 THEN 0 ELSE f[w - 1]]
           sum == CHOOSE f : S(f)
<1> USE LeagueAssumption
<1>1. \A i \in Reading : Points[i] \in Nat
  BY PointsAreNumbers
<1>2. \A k \in 0..LastWeek : RowPoints(row, k) \in Nat
  BY <1>1 DEF RowPoints, Maybe, Weeks
<1>3. \A k \in 0..LastWeek : g[k] \in Nat /\ g[k] = RowPoints(row, k)
  BY <1>2 DEF Weeks
<1>4. \E f : S(f)
  <2> HIDE DEF g
  <2>1. PICK f \in [0..LastWeek -> Nat] :
            f = [k \in 0..LastWeek |-> g[k] + IF k = 0 THEN 0 ELSE f[k - 1]]
    <3>1. LastWeek \in Nat /\ \A k \in 0..LastWeek : g[k] \in Nat
      BY <1>3
    <3> HIDE LeagueAssumption
    <3> QED BY <3>1, SumExists, Zenon
  <2>2. \A w \in Weeks : g[w] + (IF w = 0 THEN 0 ELSE f[w - 1])
                            = RowPoints(row, w) + (IF w = 0 THEN 0 ELSE f[w - 1])
    BY <1>3 DEF Weeks
  <2>3. f = [w \in Weeks |-> g[w] + (IF w = 0 THEN 0 ELSE f[w - 1])]
    BY <2>1 DEF Weeks
  <2>4. f = [w \in Weeks |-> RowPoints(row, w) + (IF w = 0 THEN 0 ELSE f[w - 1])]
    BY <2>2, <2>3
  <2>5. S(f)
    BY <2>4
  <2> QED BY <2>5
<1>5. S(sum)
  BY <1>4
<1>6. RowSum(row) = sum[LastWeek]
  BY DEF RowSum
<1>7. \A k \in 0..LastWeek : sum[k] = RowPoints(row, k) + (IF k = 0 THEN 0 ELSE sum[k - 1])
  BY <1>5 DEF Weeks
<1> HIDE DEF sum
<1> DEFINE Bad == {k \in 0..LastWeek : sum[k] \notin Nat}
<1>8. Bad = {}
  <2> SUFFICES ASSUME Bad # {} PROVE FALSE
    OBVIOUS
  <2>1. PICK m \in Bad : \A k \in Bad : m <= k
    <3>1. Bad \in SUBSET Nat
      OBVIOUS
    <3> HIDE DEF Bad
    <3> QED BY <3>1, NatLeast
  <2>2. sum[m] = RowPoints(row, m) + (IF m = 0 THEN 0 ELSE sum[m - 1])
    BY <1>7, <2>1
  <2>3. m # 0 => sum[m - 1] \in Nat
    BY <2>1
  <2> QED BY <1>2, <2>1, <2>2, <2>3
<1> QED BY <1>6, <1>7, <1>8

LEMMA RowSumTyped ==
    ASSUME NEW row \in [Weeks -> Maybe(Reading)]
    PROVE  RowSum(row) \in Nat
<1>1. PICK sum : RowSum(row) = sum[LastWeek] /\ \A k \in 0..LastWeek : sum[k] \in Nat
  BY RowSums
<1> QED BY <1>1, LeagueAssumption

(* Who has no scores has no points. *)
LEMMA NothingIsZero == RowSum([w \in Weeks |-> None]) = 0
<1> DEFINE row == [w \in Weeks |-> None]
<1>1. PICK sum : /\ RowSum(row) = sum[LastWeek]
                 /\ \A k \in 0..LastWeek :
                        /\ sum[k] \in Nat
                        /\ sum[k] = RowPoints(row, k) + (IF k = 0 THEN 0 ELSE sum[k - 1])
  <2>1. row \in [Weeks -> Maybe(Reading)]
    BY DEF Maybe
  <2> QED BY <2>1, RowSums
<1>2. \A k \in 0..LastWeek : RowPoints(row, k) = 0
  BY DEF RowPoints, Weeks
<1> DEFINE Bad == {k \in 0..LastWeek : sum[k] # 0}
<1>3. Bad = {}
  <2> SUFFICES ASSUME Bad # {} PROVE FALSE
    OBVIOUS
  <2>1. PICK m \in Bad : \A k \in Bad : m <= k
    <3>1. Bad \in SUBSET Nat
      OBVIOUS
    <3> HIDE DEF Bad
    <3> QED BY <3>1, NatLeast
  <2>2. sum[m] = RowPoints(row, m) + (IF m = 0 THEN 0 ELSE sum[m - 1]) /\ RowPoints(row, m) = 0
    BY <1>1, <1>2, <2>1
  <2>3. m # 0 => sum[m - 1] = 0
    BY <2>1, LeagueAssumption
  <2> QED BY <2>1, <2>2, <2>3
<1> QED BY <1>1, <1>3, LeagueAssumption
-----------------------------------------------------------------------------
(* Places and outcomes.                                                    *)

LEMMA PointsOfRow ==
    ASSUME NEW u
    PROVE  SeasonPoints(u) = RowSum(score[u]) /\ SeasonPoints(u)' = RowSum(score'[u])
<1>1. SeasonPoints(u) = RowSum(score[u])
  BY Zenon DEF SeasonPoints, RowSum, RowPoints, WeekPoints
<1>2. SeasonPoints(u)' = RowSum(score'[u])
  BY Zenon DEF SeasonPoints, RowSum, RowPoints, WeekPoints
<1> QED BY <1>1, <1>2

LEMMA PointsKept ==
    ASSUME NEW u, score'[u] = score[u]
    PROVE  SeasonPoints(u)' = SeasonPoints(u)
BY PointsOfRow

LEMMA PointsTyped ==
    ASSUME NEW u \in Users, score \in [Users -> [Weeks -> Maybe(Reading)]]
    PROVE  SeasonPoints(u) \in Nat
BY PointsOfRow, RowSumTyped

LEMMA AheadKept ==
    ASSUME NEW u, NEW v, score'[u] = score[u], score'[v] = score[v]
    PROVE  Ahead(u, v)' <=> Ahead(u, v)
BY PointsKept DEF Ahead

(* Of two users one is ahead, and being ahead is transitive. *)
LEMMA AheadIsAnOrder ==
    ASSUME score \in [Users -> [Weeks -> Maybe(Reading)]]
    PROVE  /\ \A u, v \in Users : Ahead(u, v) => ~Ahead(v, u) /\ u # v
           /\ \A u, v \in Users : u # v => Ahead(u, v) \/ Ahead(v, u)
           /\ \A u, v, w \in Users : Ahead(u, v) /\ Ahead(v, w) => Ahead(u, w)
<1>1. \A u \in Users : SeasonPoints(u) \in Nat /\ u \in Nat
  BY PointsTyped, LeagueAssumption
<1> QED BY <1>1 DEF Ahead

LEMMA SizeOf ==
    ASSUME NEW P \in SUBSET Users
    PROVE  /\ IsFiniteSet(P) /\ Cardinality(P) \in Nat
           /\ Cardinality(Users) \in Nat /\ Cardinality(P) <= Cardinality(Users)
BY FS_Subset, FS_CardinalityType, LeagueAssumption

LEMMA Smaller ==
    ASSUME NEW P \in SUBSET Users, NEW S \in SUBSET P, NEW u \in P, u \notin S
    PROVE  Cardinality(S) \in Nat /\ Cardinality(S) < Cardinality(P)
<1>1. /\ IsFiniteSet(P) /\ Cardinality(P) \in Nat
      /\ IsFiniteSet(S) /\ Cardinality(S) \in Nat
  BY SizeOf
<1>2. Cardinality(S) <= Cardinality(P) /\ Cardinality(S) # Cardinality(P)
  BY <1>1, FS_Subset
<1> QED BY <1>1, <1>2

(* The places of a cohort are from 1 to its size ... *)
LEMMA PlaceTyped ==
    ASSUME score \in [Users -> [Weeks -> Maybe(Reading)]],
           NEW P \in SUBSET Users, NEW u \in P
    PROVE  Place(u, P) \in 1..Cardinality(P)
<1> DEFINE S == {v \in P : Ahead(v, u)}
<1>1. u \notin S /\ S \in SUBSET P
  BY AheadIsAnOrder
<1>2. Cardinality(S) \in Nat /\ Cardinality(S) < Cardinality(P) /\ Cardinality(P) \in Nat
  BY <1>1, Smaller, SizeOf
<1> QED BY <1>2 DEF Place

(* ... and whoever is ahead has the smaller one. *)
LEMMA PlaceOfAhead ==
    ASSUME score \in [Users -> [Weeks -> Maybe(Reading)]],
           NEW P \in SUBSET Users, NEW u \in P, NEW v \in P, Ahead(u, v)
    PROVE  Place(u, P) < Place(v, P)
<1> DEFINE S == {w \in P : Ahead(w, u)}
           T == {w \in P : Ahead(w, v)}
<1>1. S \in SUBSET T /\ T \in SUBSET Users /\ u \in T /\ u \notin S
  BY AheadIsAnOrder
<1>2. Cardinality(S) \in Nat /\ Cardinality(S) < Cardinality(T) /\ Cardinality(T) \in Nat
  BY <1>1, Smaller, SizeOf
<1> QED BY <1>2 DEF Place

LEMMA PlaceOrder ==
    ASSUME score \in [Users -> [Weeks -> Maybe(Reading)]],
           NEW P \in SUBSET Users, NEW u \in P, NEW v \in P
    PROVE  Ahead(u, v) <=> Place(u, P) < Place(v, P)
<1>5. Place(u, P) \in 1..Cardinality(P) /\ Place(v, P) \in 1..Cardinality(P)
  BY PlaceTyped
<1>1. Place(u, P) \in Nat /\ Place(v, P) \in Nat
  BY <1>5, SizeOf
<1>2. Ahead(u, v) => Place(u, P) < Place(v, P)
  BY PlaceOfAhead
<1>3. Ahead(v, u) => Place(v, P) < Place(u, P)
  BY PlaceOfAhead
<1>4. u = v \/ Ahead(u, v) \/ Ahead(v, u)
  BY AheadIsAnOrder
<1> QED BY <1>1, <1>2, <1>3, <1>4

LEMMA OutcomeTyped ==
    ASSUME NEW points, NEW place, NEW size
    PROVE  Outcome(points, place, size) \in Outcomes
BY DEF Outcome, Outcomes

(* More points, or as many and a smaller id, never end in a worse outcome. *)
LEMMA OutcomeOrder ==
    ASSUME NEW a \in Nat, NEW b \in Nat, b <= a,
           NEW i \in Nat, NEW j \in Nat, i < j, NEW size \in Nat
    PROVE  /\ Outcome(b, j, size) = "promoted" => Outcome(a, i, size) = "promoted"
           /\ Outcome(a, i, size) = "relegated" => Outcome(b, j, size) # "retained"
<1> DEFINE up == Round(size * Promotion, 100)
           down == Round(size * Relegation, 100)
<1>1. up \in Int /\ down \in Int
  BY RoundTyped, LeagueAssumption DEF RatesLeaveMiddle
<1> HIDE DEF up, down
<1>2. \A p, k \in Nat : Outcome(p, k, size) =
          CASE p = 0 -> "unranked"
            [] p > 0 /\ k <= up -> "promoted"
            [] p > 0 /\ k > up /\ k > size - down -> "relegated"
            [] OTHER -> "retained"
  BY DEF Outcome, up, down
<1>3. /\ Outcome(b, j, size) = "promoted" => b > 0 /\ j <= up
      /\ a > 0 /\ i <= up => Outcome(a, i, size) = "promoted"
      /\ Outcome(a, i, size) = "relegated" => i > up /\ i > size - down
      /\ b > 0 /\ j > up /\ j > size - down => Outcome(b, j, size) = "relegated"
      /\ b = 0 => Outcome(b, j, size) = "unranked"
  BY <1>2, <1>1
<1> QED BY <1>1, <1>3

LEMMA UnrankedIs ==
    ASSUME NEW points \in Nat, NEW place \in Nat, NEW size \in Nat
    PROVE  Outcome(points, place, size) = "unranked" <=> points = 0
<1>1. /\ Round(size * Promotion, 100) \in Int /\ Round(size * Relegation, 100) \in Int
  BY RoundTyped, LeagueAssumption DEF RatesLeaveMiddle
<1> QED BY <1>1 DEF Outcome
-----------------------------------------------------------------------------
(* Types.                                                                  *)

RowsOf(S) == UNION {[U -> S] : U \in SUBSET Users}

ScoreJob == [step : {"score"}, week : Weeks, over : BOOLEAN, left : SUBSET Users,
             rows : RowsOf(Reading), current : Maybe(Underway)]
CloseJob == [step : {"close"}, left : SUBSET (1..Len(cohorts)), rows : RowsOf(Standing)]

\* TypeOK, with the job's types as sets.
Typed ==
    /\ week \in 0..Over /\ activity \in [Users -> [Weeks -> Inputs]]
    /\ deleted \subseteq Users /\ active \in BOOLEAN
    /\ cohorts \in Seq(Categories)
    /\ cohort \in [Users -> Maybe(1..Len(cohorts))]
    /\ score \in [Users -> [Weeks -> Maybe(Reading)]]
    /\ progress \in [Users -> [Missions -> Maybe(MissionRow)]]
    /\ rank \in [Users -> Maybe(1..Cardinality(Users))]
    /\ outcome \in [Users -> Maybe(Outcomes)]
    /\ enrolling \in [Tx -> Maybe([user : Users, category : Categories,
                                     cohort : 0..Len(cohorts)])]
    /\ job \in Maybe(ScoreJob \cup CloseJob)
    /\ changes \in 0..MaxChanges /\ faults \in 0..MaxFaults
    /\ final \in [Users -> SUBSET Inputs]

LEMMA TypedIs == Typed => TypeOK
<1>1. ASSUME job \in ScoreJob PROVE \E D \in SUBSET Users : job \in ScoreJobs(D)
  <2>1. PICK D \in SUBSET Users : job.rows \in [D -> Reading]
    BY <1>1 DEF ScoreJob, RowsOf
  <2>2. job \in ScoreJobs(D)
    BY <1>1, <2>1 DEF ScoreJob, ScoreJobs, Underway
  <2> QED BY <2>2
<1>2. ASSUME job \in CloseJob PROVE \E D \in SUBSET Users : job \in CloseJobs(D)
  <2>1. PICK D \in SUBSET Users : job.rows \in [D -> Standing]
    BY <1>2 DEF CloseJob, RowsOf
  <2>2. job \in CloseJobs(D)
    BY <1>2, <2>1 DEF CloseJob, CloseJobs
  <2> QED BY <2>2
<1>3. Typed => (job # None => \E D \in SUBSET Users : job \in ScoreJobs(D) \cup CloseJobs(D))
  BY <1>1, <1>2 DEF Typed, Maybe
<1> QED BY <1>3 DEF Typed, TypeOK

LEMMA JobShape ==
    ASSUME Typed, job # None
    PROVE  \/ job \in ScoreJob /\ job.step = "score"
           \/ job \in CloseJob /\ job.step = "close"
BY DEF Typed, Maybe, ScoreJob, CloseJob

LEMMA RowsTyped ==
    ASSUME NEW S, NEW rows \in RowsOf(S)
    PROVE  /\ DOMAIN rows \subseteq Users
           /\ rows = [u \in DOMAIN rows |-> rows[u]]
           /\ \A u \in DOMAIN rows : rows[u] \in S
BY DEF RowsOf

LEMMA NoRows ==
    ASSUME NEW S PROVE <<>> \in RowsOf(S) /\ DOMAIN <<>> = {}
<1>1. <<>> \in [{} -> S] /\ {} \in SUBSET Users
  OBVIOUS
<1> QED BY <1>1 DEF RowsOf

LEMMA WithTyped ==
    ASSUME NEW S, NEW rows \in RowsOf(S), NEW u \in Users, NEW x \in S
    PROVE  /\ With(rows, u, x) \in RowsOf(S)
           /\ DOMAIN With(rows, u, x) = DOMAIN rows \cup {u}
           /\ With(rows, u, x)[u] = x
           /\ \A v \in DOMAIN rows : v # u => With(rows, u, x)[v] = rows[v]
<1>1. DOMAIN rows \cup {u} \in SUBSET Users
  BY RowsTyped
<1>2. With(rows, u, x) \in [DOMAIN rows \cup {u} -> S]
  BY RowsTyped DEF With
<1>3. With(rows, u, x) \in RowsOf(S)
  BY <1>1, <1>2 DEF RowsOf
<1> QED BY <1>3 DEF With

LEMMA ProgressTyped ==
    ASSUME NEW w \in Week, NEW metric \in Metric
    PROVE  Progress(w, metric) \in Nat
<1>1. w.focus \in Nat /\ w.completed \in Nat /\ w.early \in Nat
  BY DEF Week
<1>2. /\ GoalMet(w) \in SUBSET Days /\ Studied(w) \cap w.scheduled \in SUBSET Days
      /\ {e \in GoalMet(w) : \E d \in Days \ GoalMet(w) : NextScheduled(w, d, e)} \in SUBSET Days
  BY DEF GoalMet, Studied
<1>3. NumDays(GoalMet(w)) \in Nat /\ NumDays(Studied(w) \cap w.scheduled) \in Nat
      /\ Recoveries(w) \in Nat
  BY <1>2, NumDaysTyped DEF Recoveries
<1> QED BY <1>1, <1>3 DEF Progress, Metric

LEMMA QuietTyped == Quiet \in Inputs
<1>1. \A i \in Inputs : Points[AtOnce(i)] \in Nat
  BY PointsAreNumbers DEF AtOnce, Reading
<1> DEFINE S == {Points[AtOnce(i)] : i \in Inputs}
<1>2. S \in SUBSET Nat /\ S # {}
  BY <1>1, LeagueAssumption
<1>3. PICK n \in S : \A m \in S : n <= m
  BY <1>2, NatLeast
<1>4. \E i \in Inputs : \A j \in Inputs : Points[AtOnce(i)] <= Points[AtOnce(j)]
  BY <1>3
<1> QED BY <1>4 DEF Quiet

LEMMA RoomTyped ==
    ASSUME Typed, NEW category
    PROVE  CohortWithRoom(category) \in 0..Len(cohorts)
<1> DEFINE room == {c \in 1..Len(cohorts) :
                       cohorts[c] = category /\ Cardinality(Members(c)) < Capacity}
<1>1. Len(cohorts) \in Nat
  BY DEF Typed
<1>2. CASE room = {}
  BY <1>1, <1>2 DEF CohortWithRoom
<1>3. CASE room # {}
  <2>1. room \in SUBSET Nat
    BY <1>1
  <2>2. \E c \in room : \A d \in room : c <= d
    BY <1>3, <2>1, NatLeast
  <2>3. CohortWithRoom(category) \in room
    BY <1>3, <2>2 DEF CohortWithRoom
  <2> QED BY <1>1, <2>3
<1> QED BY <1>2, <1>3

LEMMA InitTyped == Init => Typed
<1> SUFFICES ASSUME Init PROVE Typed
  OBVIOUS
<1> USE DEF Init
<1>1. /\ week \in 0..Over /\ changes \in 0..MaxChanges /\ faults \in 0..MaxFaults
  BY LeagueAssumption DEF Over
<1>2. /\ activity \in [Users -> [Weeks -> Inputs]] /\ deleted \subseteq Users
      /\ active \in BOOLEAN /\ final \in [Users -> SUBSET Inputs]
  BY QuietTyped
<1>3. cohorts \in Seq(Categories) /\ Len(cohorts) = 0
  OBVIOUS
<1>4. /\ cohort \in [Users -> Maybe(1..Len(cohorts))]
      /\ score \in [Users -> [Weeks -> Maybe(Reading)]]
      /\ progress \in [Users -> [Missions -> Maybe(MissionRow)]]
      /\ rank \in [Users -> Maybe(1..Cardinality(Users))]
      /\ outcome \in [Users -> Maybe(Outcomes)]
      /\ job \in Maybe(ScoreJob \cup CloseJob)
  BY DEF Maybe
<1>5. enrolling \in [Tx -> Maybe([user : Users, category : Categories,
                                   cohort : 0..Len(cohorts)])]
  BY DEF Maybe
<1> QED BY <1>1, <1>2, <1>3, <1>4, <1>5 DEF Typed

LEMMA StudyTyped ==
    ASSUME Typed, NEW u \in Users, NEW w \in Weeks, NEW input \in Inputs, Study(u, w, input)
    PROVE  Typed'
<1>1. changes' \in 0..MaxChanges
  BY LeagueAssumption DEF Study, Typed
<1>2. activity' \in [Users -> [Weeks -> Inputs]]
  BY DEF Study, Typed
<1>3. final' \in [Users -> SUBSET Inputs]
  BY DEF Study, Typed
<1>4. UNCHANGED <<week, deleted, season, enrolling, job, faults>>
  BY DEF Study
<1> QED BY <1>1, <1>2, <1>3, <1>4 DEF Typed, season, ScoreJob, CloseJob, RowsOf, Standing, Maybe

LEMMA NextWeekTyped == ASSUME Typed, NextWeek PROVE Typed'
<1>1. week' \in 0..Over
  BY LeagueAssumption DEF NextWeek, Typed, Over
<1>2. LastWeek \in Weeks
  BY LeagueAssumption DEF Weeks
<1>3. final' \in [Users -> SUBSET Inputs]
  BY <1>2 DEF NextWeek, Typed
<1> QED BY <1>1, <1>3 DEF NextWeek, Typed, season, ScoreJob, CloseJob, RowsOf, Standing, Maybe

LEMMA BeginEnrollmentTyped ==
    ASSUME Typed, NEW t \in Tx, NEW u \in Users, NEW category \in Categories,
           BeginEnrollment(t, u, category)
    PROVE  Typed'
<1>1. enrolling' \in [Tx -> Maybe([user : Users, category : Categories,
                                    cohort : 0..Len(cohorts)])]
  BY RoomTyped DEF BeginEnrollment, Typed, Maybe
<1> QED BY <1>1 DEF BeginEnrollment, Typed, season, ScoreJob, CloseJob, RowsOf, Standing, Maybe

LEMMA EnrollTyped == ASSUME Typed, NEW t \in Tx, Enroll(t) PROVE Typed'
<1> DEFINE e == enrolling[t]
           n == Len(cohorts)
<1>1. n \in Nat /\ cohorts \in Seq(Categories)
  BY DEF Typed
<1>2. e \in [user : Users, category : Categories, cohort : 0..n]
  BY DEF Enroll, Typed, Maybe
<1>3. /\ cohorts' \in Seq(Categories) /\ Len(cohorts') \in Nat /\ n <= Len(cohorts')
      /\ cohort' \in [Users -> Maybe(1..Len(cohorts'))]
  <2>1. CASE cohort[e.user] # None
    BY <1>1, <2>1 DEF Enroll, Typed
  <2>2. CASE cohort[e.user] = None /\ e.cohort = 0
    <3>1. cohorts' = Append(cohorts, e.category)
          /\ cohort' = [cohort EXCEPT ![e.user] = n + 1]
      BY <2>2 DEF Enroll
    <3>2. cohorts' \in Seq(Categories) /\ Len(cohorts') = n + 1
      BY <3>1, <1>1, <1>2
    <3> QED BY <3>1, <3>2, <1>1, <1>2 DEF Typed, Maybe
  <2>3. CASE cohort[e.user] = None /\ e.cohort # 0
    <3>1. cohorts' = cohorts /\ cohort' = [cohort EXCEPT ![e.user] = e.cohort]
      BY <2>3 DEF Enroll
    <3>2. e.cohort \in 1..n
      BY <1>1, <1>2, <2>3
    <3> QED BY <3>1, <3>2, <1>1, <1>2 DEF Typed, Maybe
  <2> QED BY <2>1, <2>2, <2>3
<1>4. enrolling' \in [Tx -> Maybe([user : Users, category : Categories,
                                    cohort : 0..Len(cohorts')])]
  <2>1. 0..n \subseteq 0..Len(cohorts')
    BY <1>1, <1>3
  <2>2. enrolling \in [Tx -> Maybe([user : Users, category : Categories, cohort : 0..n])]
    BY DEF Typed
  <2>3. enrolling' = [enrolling EXCEPT ![t] = None]
    BY DEF Enroll
  <2> HIDE DEF n
  <2> QED BY <2>1, <2>2, <2>3 DEF Maybe
<1>5. job' \in Maybe(ScoreJob \cup CloseJob)'
  <2>1. 1..n \subseteq 1..Len(cohorts')
    BY <1>1, <1>3
  <2>2. CloseJob \subseteq CloseJob'
    BY <2>1 DEF CloseJob, RowsOf, Standing
  <2>3. ScoreJob' = ScoreJob /\ job' = job /\ job \in Maybe(ScoreJob \cup CloseJob)
    BY DEF ScoreJob, RowsOf, Enroll, Typed
  <2> QED BY <2>2, <2>3 DEF Maybe
<1> QED BY <1>3, <1>4, <1>5 DEF Enroll, Typed

LEMMA DeleteAccountTyped == ASSUME Typed, NEW u \in Users, DeleteAccount(u) PROVE Typed'
<1>1. changes' \in 0..MaxChanges
  BY LeagueAssumption DEF DeleteAccount, Typed
<1> QED BY <1>1 DEF DeleteAccount, Typed, season, ScoreJob, CloseJob, RowsOf, Standing, Maybe

LEMMA PurgeTyped == ASSUME Typed, NEW u \in Users, Purge(u) PROVE Typed'
<1>1. /\ cohort' \in [Users -> Maybe(1..Len(cohorts))]
      /\ score' \in [Users -> [Weeks -> Maybe(Reading)]]
      /\ progress' \in [Users -> [Missions -> Maybe(MissionRow)]]
      /\ rank' \in [Users -> Maybe(1..Cardinality(Users))]
      /\ outcome' \in [Users -> Maybe(Outcomes)]
  BY DEF Purge, Typed, Maybe
<1> QED BY <1>1 DEF Purge, Typed, ScoreJob, CloseJob, RowsOf, Standing, Maybe

LEMMA StartScoringTyped == ASSUME Typed, StartScoring PROVE Typed'
<1>1. WeekIndex(week) \in Weeks /\ IsOver(week) \in BOOLEAN
  BY LeagueAssumption DEF WeekIndex, IsOver, Weeks, Typed, Over
<1>2. job' \in ScoreJob
  BY <1>1, NoRows DEF StartScoring, ScoreJob, Maybe
<1> QED BY <1>2 DEF StartScoring, Typed, season, ScoreJob, CloseJob, RowsOf, Standing, Maybe

LEMMA UnderwayIsSome == ASSUME NEW c \in Underway PROVE c # None
BY LeagueAssumption

LEMMA AtOnceTyped == ASSUME NEW input \in Inputs PROVE AtOnce(input) \in Reading
BY DEF AtOnce, Reading

(* What loading a user makes of the job. *)
LEMMA ScoreUserIs ==
    ASSUME Typed, NEW u \in Users, ScoreUser(u)
    PROVE  /\ job # None /\ job \in ScoreJob /\ job.step = "score" /\ u \in job.left
           /\ job.current = None /\ job' \in ScoreJob /\ job'.step = "score"
           /\ job'.week = job.week /\ job'.over = job.over
           /\ job'.left = job.left \ {u} /\ job'.rows = job.rows
           /\ \/ u \in deleted /\ job'.current = None
              \/ /\ u \notin deleted /\ job'.current # None /\ job'.current.user = u
                 /\ \A n \in Selects : job'.current.reading[n] = activity[u][job.week]
<1>1. job # None /\ job \in ScoreJob /\ job.step = "score" /\ u \in job.left /\ job.current = None
  BY JobShape DEF ScoreUser, CloseJob
<1>2. job.week \in Weeks /\ activity[u][job.week] \in Inputs
  BY <1>1 DEF ScoreJob, Typed
<1> DEFINE now == [user |-> u, n |-> 1, reading |-> AtOnce(activity[u][job.week])]
           current == IF u \in deleted THEN None ELSE now
<1>3. now \in Underway /\ now # None
  <2>1. now \in Underway
    BY <1>2, AtOnceTyped DEF Underway
  <2> QED BY <2>1, UnderwayIsSome
<1>4. current \in Maybe(Underway)
  BY <1>3 DEF Maybe
<1>5. job' = [job EXCEPT !.left = @ \ {u}, !.current = current]
  BY DEF ScoreUser
<1>6. now.user = u /\ \A n \in Selects : now.reading[n] = activity[u][job.week]
  BY DEF AtOnce
<1>7. \/ u \in deleted /\ current = None
      \/ u \notin deleted /\ current = now
  OBVIOUS
<1> HIDE DEF now, current
<1>8. /\ job' \in ScoreJob /\ job'.step = "score" /\ job'.week = job.week /\ job'.over = job.over
      /\ job'.left = job.left \ {u} /\ job'.rows = job.rows /\ job'.current = current
  BY <1>1, <1>4, <1>5 DEF ScoreJob
<1> QED BY <1>1, <1>3, <1>6, <1>7, <1>8

LEMMA ScoreUserTyped == ASSUME Typed, NEW u \in Users, ScoreUser(u) PROVE Typed'
<1>1. job' \in ScoreJob
  BY ScoreUserIs
<1> QED BY <1>1 DEF ScoreUser, JobMoves, Typed, season, ScoreJob, CloseJob, RowsOf, Standing, Maybe

(* What one more query makes of it: the user's row, or a longer reading. *)
LEMMA ReadOnIs ==
    ASSUME Typed, ReadOn
    PROVE  /\ job # None /\ job \in ScoreJob /\ job.step = "score" /\ job.current # None
           /\ job.current \in Underway /\ DOMAIN job.rows \subseteq Users
           /\ job' \in ScoreJob /\ job'.step = "score"
           /\ job'.week = job.week /\ job'.over = job.over /\ job'.left = job.left
           /\ \E reading \in Reading :
                 /\ \A n \in Selects : reading[n] \in {job.current.reading[n],
                                                       activity[job.current.user][job.week]}
                 /\ \/ /\ job'.rows = job.rows /\ job'.current # None
                       /\ job'.current.user = job.current.user
                       /\ job'.current.reading = reading
                    \/ /\ job'.current = None
                       /\ DOMAIN job'.rows = DOMAIN job.rows \cup {job.current.user}
                       /\ job'.rows[job.current.user] = reading
                       /\ \A v \in DOMAIN job.rows :
                              v # job.current.user => job'.rows[v] = job.rows[v]
<1> DEFINE u == job.current.user
           n == job.current.n + 1
           input == activity[u][job.week]
           reading == [job.current.reading EXCEPT ![n] = input]
           now == [user |-> u, n |-> n, reading |-> reading]
<1>1. /\ job # None /\ job \in ScoreJob /\ job.step = "score" /\ job.current # None
      /\ job.current \in Underway /\ job.rows \in RowsOf(Reading)
  BY JobShape DEF ReadOn, CloseJob, ScoreJob, Maybe
<1>2. /\ u \in Users /\ n \in 2..6 /\ job.week \in Weeks /\ input \in Inputs
      /\ job.current.reading \in [1..6 -> Inputs]
  BY <1>1 DEF ScoreJob, Underway, Typed, Reading, Selects
<1>3. reading \in Reading /\ \A k \in Selects : reading[k] \in {job.current.reading[k], input}
  <2> HIDE DEF u, n, input
  <2> QED BY <1>2 DEF Reading, Selects
<1>4. job' = IF n = 6
             THEN [job EXCEPT !.current = None, !.rows = With(@, u, reading)]
             ELSE [job EXCEPT !.current = now]
  BY DEF ReadOn
<1>5. DOMAIN job.rows \subseteq Users
  BY <1>1, RowsTyped
<1> HIDE DEF u, n, input, reading
<1>6. CASE n = 6
  <2> DEFINE rows == With(job.rows, u, reading)
  <2>1. /\ rows \in RowsOf(Reading) /\ DOMAIN rows = DOMAIN job.rows \cup {u}
        /\ rows[u] = reading /\ \A v \in DOMAIN job.rows : v # u => rows[v] = job.rows[v]
    <3>1. rows \in RowsOf(Reading)
      BY <1>1, <1>2, <1>3, WithTyped
    <3>2. /\ DOMAIN rows = DOMAIN job.rows \cup {u}
          /\ rows[u] = reading /\ \A v \in DOMAIN job.rows : v # u => rows[v] = job.rows[v]
      BY DEF With
    <3> QED BY <3>1, <3>2
  <2>2. job' = [job EXCEPT !.current = None, !.rows = rows]
    BY <1>4, <1>6
  <2> HIDE DEF rows
  <2>3. /\ job' \in ScoreJob /\ job'.step = "score" /\ job'.week = job.week
        /\ job'.over = job.over /\ job'.left = job.left
        /\ job'.current = None /\ job'.rows = rows
    BY <1>1, <2>1, <2>2 DEF ScoreJob, Maybe
  <2> QED BY <1>1, <1>3, <1>5, <2>1, <2>3 DEF u, input
<1>7. CASE n # 6
  <2>1. now \in Underway /\ now.user = u /\ now.reading = reading
    BY <1>2, <1>3, <1>7 DEF Underway
  <2>2. job' = [job EXCEPT !.current = now]
    BY <1>4, <1>7
  <2>3. now # None /\ now \in Maybe(Underway)
    BY <2>1, UnderwayIsSome DEF Maybe
  <2> HIDE DEF now
  <2>4. /\ job' \in ScoreJob /\ job'.step = "score" /\ job'.week = job.week
        /\ job'.over = job.over /\ job'.left = job.left
        /\ job'.current = now /\ job'.rows = job.rows
    BY <1>1, <2>2, <2>3 DEF ScoreJob
  <2> QED BY <1>1, <1>3, <1>5, <2>1, <2>3, <2>4 DEF u, input
<1> QED BY <1>6, <1>7

LEMMA ReadOnTyped == ASSUME Typed, ReadOn PROVE Typed'
<1>1. job' \in ScoreJob
  BY ReadOnIs
<1> QED BY <1>1 DEF ReadOn, JobMoves, Typed, season, ScoreJob, CloseJob, RowsOf, Standing, Maybe

LEMMA CommitScoresTyped == ASSUME Typed, CommitScores PROVE Typed'
<1>1. job \in ScoreJob
  BY JobShape DEF CommitScores, CloseJob
<1>2. /\ job.week \in Weeks /\ DOMAIN job.rows \subseteq Users
      /\ \A u \in DOMAIN job.rows : job.rows[u] \in Reading
  BY <1>1, RowsTyped DEF ScoreJob
<1>3. score' \in [Users -> [Weeks -> Maybe(Reading)]]
  BY <1>2 DEF CommitScores, Typed, Maybe
<1>4. \A i \in Reading, m \in Missions :
          [progress |-> Progress(Combined(i), m.metric),
           completed |-> Progress(Combined(i), m.metric) >= m.target] \in MissionRow
  BY ProgressTyped, CombinedTyped, LeagueAssumption DEF Mission, MissionRow
<1>5. progress' \in [Users -> [Missions -> Maybe(MissionRow)]]
  BY <1>2, <1>4 DEF CommitScores, Typed, Maybe
<1>6. job' \in Maybe(CloseJob)
  <2>1. {cohort[u] : u \in Users} \ {None} \subseteq 1..Len(cohorts)
    BY DEF Typed, Maybe
  <2>2. [step |-> "close", left |-> {cohort[u] : u \in Users} \ {None},
         rows |-> <<>>] \in CloseJob
    BY <2>1, NoRows DEF CloseJob
  <2> QED BY <2>2 DEF CommitScores, Maybe
<1> QED BY <1>3, <1>5, <1>6 DEF CommitScores, JobMoves, Typed, ScoreJob, CloseJob, RowsOf, Standing, Maybe

Row(u, peers) ==
    [rank |-> Place(u, peers),
     outcome |-> Outcome(SeasonPoints(u), Place(u, peers), Cardinality(peers))]

LEMMA RowTyped ==
    ASSUME Typed, NEW P \in SUBSET Users, NEW u \in P
    PROVE  Row(u, P) \in Standing
<1>1. Place(u, P) \in 1..Cardinality(P)
  BY PlaceTyped DEF Typed
<1>2. Place(u, P) \in 1..Cardinality(Users)
  BY <1>1, SizeOf
<1> QED BY <1>2, OutcomeTyped DEF Row, Standing

(* What closing a cohort adds to the rows. *)
LEMMA CloseCohortRows ==
    ASSUME Typed, NEW c, CloseCohort(c)
    PROVE  /\ job # None /\ job.step = "close" /\ job \in CloseJob /\ job' \in CloseJob
           /\ job'.step = "close" /\ c \in job.left /\ job'.left = job.left \ {c}
           /\ Members(c) \in SUBSET Users
           /\ DOMAIN job.rows \subseteq Users
           /\ DOMAIN job'.rows = DOMAIN job.rows \cup Members(c)
           /\ \A u \in DOMAIN job'.rows :
                  job'.rows[u] = IF u \in Members(c) THEN Row(u, Members(c)) ELSE job.rows[u]
<1> DEFINE peers == Members(c)
           rows == [u \in DOMAIN job.rows \cup peers |->
                       IF u \in peers THEN Row(u, peers) ELSE job.rows[u]]
<1>1. job # None /\ job.step = "close" /\ job \in CloseJob /\ c \in job.left
  BY JobShape DEF CloseCohort, ScoreJob
<1>2. /\ job.rows \in RowsOf(Standing) /\ peers \in SUBSET Users
      /\ job.left \in SUBSET (1..Len(cohorts))
  BY <1>1 DEF CloseJob, Members
<1>3. /\ DOMAIN job.rows \subseteq Users
      /\ \A u \in DOMAIN job.rows : job.rows[u] \in Standing
  BY <1>2, RowsTyped
<1>4. \A u \in peers : Row(u, peers) \in Standing
  BY <1>2, RowTyped
<1>5. rows \in RowsOf(Standing)
  <2>1. rows \in [DOMAIN job.rows \cup peers -> Standing]
    BY <1>3, <1>4
  <2> QED BY <1>2, <1>3, <2>1 DEF RowsOf
<1>6. job' = [job EXCEPT !.left = @ \ {c}, !.rows = rows]
  BY DEF CloseCohort, Row
<1> HIDE DEF rows
<1>7. job' \in CloseJob /\ job'.step = "close" /\ job'.left = job.left \ {c} /\ job'.rows = rows
  BY <1>1, <1>2, <1>5, <1>6 DEF CloseJob
<1> QED BY <1>1, <1>2, <1>3, <1>7 DEF rows

LEMMA CloseCohortTyped == ASSUME Typed, NEW c, CloseCohort(c) PROVE Typed'
<1>1. job' \in CloseJob
  BY CloseCohortRows
<1> QED BY <1>1 DEF CloseCohort, JobMoves, Typed, season, ScoreJob, CloseJob, RowsOf, Standing, Maybe

LEMMA CommitCloseTyped == ASSUME Typed, CommitClose PROVE Typed'
<1>1. job \in CloseJob
  BY JobShape DEF CommitClose, ScoreJob
<1>2. \A u \in DOMAIN job.rows : job.rows[u] \in Standing
  BY <1>1, RowsTyped DEF CloseJob
<1>3. \A u \in DOMAIN job.rows :
          job.rows[u].rank \in 1..Cardinality(Users) /\ job.rows[u].outcome \in Outcomes
  BY <1>2 DEF Standing
<1>4. /\ rank' \in [Users -> Maybe(1..Cardinality(Users))]
      /\ outcome' \in [Users -> Maybe(Outcomes)]
  BY <1>3 DEF CommitClose, Typed, Maybe
<1> QED BY <1>4 DEF CommitClose, JobMoves, Typed, ScoreJob, CloseJob, RowsOf, Standing, Maybe

LEMMA JobDiesTyped == ASSUME Typed, JobDies PROVE Typed'
<1>1. faults' \in 0..MaxFaults
  BY LeagueAssumption DEF JobDies, Typed
<1> QED BY <1>1 DEF JobDies, JobMoves, Typed, season, ScoreJob, CloseJob, RowsOf, Standing, Maybe

LEMMA TypePreserved == ASSUME Typed, [Next]_vars PROVE Typed'
<1>1. CASE Next
  BY <1>1, StudyTyped, NextWeekTyped, BeginEnrollmentTyped, EnrollTyped, DeleteAccountTyped,
     PurgeTyped, StartScoringTyped, ScoreUserTyped, ReadOnTyped, CommitScoresTyped, CloseCohortTyped,
     CommitCloseTyped, JobDiesTyped DEF Next, Scorer
<1>2. CASE UNCHANGED vars
  BY <1>2 DEF vars, Typed, season, ScoreJob, CloseJob, RowsOf, Standing, Maybe
<1> QED BY <1>1, <1>2

(* Every reachable state has the shape the rows and the job have in code. *)
THEOREM TypeCorrect == Spec => []TypeOK
BY InitTyped, TypePreserved, TypedIs, PTL DEF Spec
-----------------------------------------------------------------------------
(* The inductive invariant.                                                *)

HasRow(u) == job # None /\ u \in DOMAIN job.rows

\* Who is not enrolled has left nothing behind, and what the job has read and
\* not committed is of users who are.
RowsAreOfMembers ==
    /\ \A u \in Users : cohort[u] = None =>
           /\ score[u] = [w \in Weeks |-> None]
           /\ rank[u] = None /\ outcome[u] = None
    /\ \A u \in Users : HasRow(u) \/ IsRead(u) => cohort[u] # None

\* Standings are written when the season is closed, and only then.
ClosedOnce ==
    /\ active => \A u \in Users : rank[u] = None /\ outcome[u] = None
    /\ ~active => job = None

Scoring(over) == job # None /\ job.step = "score" /\ job.over = over
Closing == job # None /\ job.step = "close"

\* Everybody's points for the last week are of what it looked like after its end.
Settled ==
    \A u \in Users \ deleted :
        score[u][LastWeek] # None => \A n \in Selects : score[u][LastWeek][n] \in final[u]

\* Two of a cohort who have been placed, in the rows and once they are stored.
Ordered(u, v, a, b) ==
    /\ Ahead(u, v) <=> a.rank < b.rank
    /\ Ahead(u, v) =>
           /\ b.outcome = "promoted" => a.outcome = "promoted"
           /\ a.outcome = "relegated" => b.outcome # "retained"

LastWeekRead ==
    /\ week = Over => \A u \in Users : activity[u][LastWeek] \in final[u]
    /\ Scoring(TRUE) =>
           /\ week = Over /\ job.week = LastWeek
           /\ \A u \in DOMAIN job.rows, n \in Selects : job.rows[u][n] \in final[u]
           /\ \A u \in Users, n \in Selects :
                  IsRead(u) => job.current.reading[n] \in final[u]
           /\ \A u \in Users \ deleted : score[u][LastWeek] # None =>
                  u \in job.left \cup DOMAIN job.rows \/ IsRead(u)
    /\ Closing => week = Over
    /\ Closing \/ ~active => week = Over /\ Settled

StillEnrolled ==
    (job # None /\ job.step = "score") =>
        \A u \in job.left : u \in deleted \/ cohort[u] # None

Placed ==
    Closing =>
        /\ \A u \in Users :
               (cohort[u] # None /\ SeasonPoints(u) > 0) =>
                   cohort[u] \in job.left \/ u \in DOMAIN job.rows
        /\ \A u \in DOMAIN job.rows :
               job.rows[u].outcome = "unranked" <=> SeasonPoints(u) = 0
        /\ \A u, v \in DOMAIN job.rows :
               SameCohort(u, v) => Ordered(u, v, job.rows[u], job.rows[v])

IInv ==
    /\ Typed /\ RowsAreOfMembers /\ ClosedOnce /\ LastWeekRead /\ StillEnrolled
    /\ Placed /\ StandingsFinal

LEMMA InitGood == Init => IInv
<1> SUFFICES ASSUME Init PROVE IInv
  OBVIOUS
<1>1. Typed
  BY InitTyped
<1>2. RowsAreOfMembers /\ ClosedOnce /\ StillEnrolled /\ Placed /\ StandingsFinal
  BY DEF Init, RowsAreOfMembers, IsRead, ClosedOnce, StillEnrolled, Placed, StandingsFinal,
         HasRow, Closing
<1>3. week # Over
  BY LeagueAssumption DEF Init, Over
<1>4. LastWeekRead
  BY <1>3 DEF Init, LastWeekRead, IsRead, Scoring, Closing
<1> QED BY <1>1, <1>2, <1>4 DEF IInv

(* Steps that leave the season's tables alone. *)
LEMMA TablesKept ==
    ASSUME IInv, UNCHANGED <<active, cohort, score, rank, outcome>>
    PROVE  /\ StandingsFinal'
           /\ \A u : SeasonPoints(u)' = SeasonPoints(u)
           /\ \A u, v : /\ Ahead(u, v)' <=> Ahead(u, v)
                        /\ SameCohort(u, v)' <=> SameCohort(u, v)
<1>1. \A u : SeasonPoints(u)' = SeasonPoints(u)
  BY PointsKept
<1>2. \A u, v : /\ Ahead(u, v)' <=> Ahead(u, v)
                /\ SameCohort(u, v)' <=> SameCohort(u, v)
  BY AheadKept DEF SameCohort
<1>3. StandingsFinal'
  BY <1>1, <1>2 DEF IInv, StandingsFinal, History
<1> QED BY <1>1, <1>2, <1>3

LEMMA JobKept ==
    ASSUME IInv, UNCHANGED <<active, cohort, score, rank, outcome, job>>
    PROVE  RowsAreOfMembers' /\ ClosedOnce' /\ Placed'
<1>1. RowsAreOfMembers' /\ ClosedOnce'
  BY DEF IInv, RowsAreOfMembers, ClosedOnce, HasRow, IsRead
<1>2. Placed'
  BY TablesKept DEF IInv, Placed, Closing, Ordered
<1> QED BY <1>1, <1>2

LEMMA LastWeekIsAWeek == LastWeek \in Weeks /\ Over \in Nat /\ LastWeek \in Nat
BY LeagueAssumption DEF Weeks, Over

LEMMA CalendarTyped == ASSUME IInv PROVE Typed /\ week \in Int /\ week <= Over
<1>1. Typed
  BY DEF IInv
<1>2. week \in 0..Over
  BY <1>1 DEF Typed
<1> QED BY <1>1, <1>2, LastWeekIsAWeek

LEMMA StudyGood ==
    ASSUME IInv, NEW u \in Users, NEW w \in Weeks, NEW input \in Inputs, Study(u, w, input)
    PROVE  IInv'
<1>1. UNCHANGED <<week, deleted, active, cohort, score, rank, outcome, job>>
  BY DEF Study, season
<1>9. Typed
  BY DEF IInv
<1>2. /\ Typed /\ LastWeek \in Weeks
      /\ activity \in [Users -> [Weeks -> Inputs]] /\ final \in [Users -> SUBSET Inputs]
  BY <1>9, LastWeekIsAWeek DEF Typed
<1>3. \A v \in Users : final[v] \subseteq final'[v]
  BY <1>2 DEF Study
<1>4. week = Over => \A v \in Users : activity'[v][LastWeek] \in final'[v]
  BY <1>2 DEF Study, IInv, LastWeekRead, IsRead
<1>5. Settled => Settled'
  BY <1>1, <1>3 DEF Settled
<1>6. Scoring(TRUE) => DOMAIN job.rows \subseteq Users
  BY <1>2, JobShape, RowsTyped DEF Scoring, ScoreJob, CloseJob
<1>7. LastWeekRead'
  BY <1>1, <1>3, <1>4, <1>5, <1>6 DEF IInv, LastWeekRead, IsRead, Scoring, Closing
<1>8. StillEnrolled'
  BY <1>1 DEF IInv, StillEnrolled
<1> QED BY <1>1, <1>2, <1>7, <1>8, StudyTyped, TablesKept, JobKept DEF IInv

LEMMA NextWeekGood == ASSUME IInv, NextWeek PROVE IInv'
<1>1. UNCHANGED <<deleted, activity, active, cohort, score, rank, outcome, job>>
  BY DEF NextWeek, season
<1>2. Typed /\ week # Over /\ active \in BOOLEAN
  <2>1. Typed /\ week \in Int /\ week < Over
    BY CalendarTyped DEF NextWeek
  <2>2. active \in BOOLEAN
    BY <2>1 DEF Typed
  <2> QED BY <2>1, <2>2, LastWeekIsAWeek
<1>3. ~Closing /\ active /\ ~Scoring(TRUE)
  BY <1>2 DEF IInv, LastWeekRead, IsRead
<1>4. LastWeekRead'
  <2>1. week' = Over => \A u \in Users : activity'[u][LastWeek] \in final'[u]
    BY <1>1 DEF NextWeek
  <2> QED BY <1>1, <1>3, <2>1 DEF LastWeekRead, IsRead, Scoring, Closing
<1>5. StillEnrolled'
  BY <1>1 DEF IInv, StillEnrolled
<1> QED BY <1>1, <1>2, <1>4, <1>5, NextWeekTyped, TablesKept, JobKept DEF IInv

LEMMA BeginEnrollmentGood ==
    ASSUME IInv, NEW t \in Tx, NEW u \in Users, NEW category \in Categories,
           BeginEnrollment(t, u, category)
    PROVE  IInv'
<1>1. UNCHANGED <<week, deleted, activity, active, cohort, score, rank, outcome, job, final>>
  BY DEF BeginEnrollment, season
<1>2. LastWeekRead' /\ StillEnrolled'
  BY <1>1 DEF IInv, LastWeekRead, IsRead, Scoring, Closing, StillEnrolled, Settled
<1>3. Typed'
  BY BeginEnrollmentTyped DEF IInv
<1> QED BY <1>1, <1>2, <1>3, TablesKept, JobKept DEF IInv

LEMMA DeleteAccountGood == ASSUME IInv, NEW u \in Users, DeleteAccount(u) PROVE IInv'
<1>1. UNCHANGED <<week, activity, active, cohort, score, rank, outcome, job, final>>
      /\ deleted \subseteq deleted'
  BY DEF DeleteAccount, season
<1>2. LastWeekRead' /\ StillEnrolled'
  BY <1>1 DEF IInv, LastWeekRead, IsRead, Scoring, Closing, StillEnrolled, Settled
<1>3. Typed'
  BY DeleteAccountTyped DEF IInv
<1> QED BY <1>1, <1>2, <1>3, TablesKept, JobKept DEF IInv

LEMMA JobDiesGood == ASSUME IInv, JobDies PROVE IInv'
<1>1. UNCHANGED <<week, activity, deleted, active, cohort, score, rank, outcome, final>>
      /\ job' = None
  BY DEF JobDies, JobMoves, season
<1>2. LastWeekRead' /\ StillEnrolled' /\ RowsAreOfMembers' /\ ClosedOnce' /\ Placed'
  BY <1>1 DEF IInv, LastWeekRead, Scoring, Closing, StillEnrolled, Settled, RowsAreOfMembers,
              ClosedOnce, Placed, HasRow, IsRead
<1>3. Typed'
  BY JobDiesTyped DEF IInv
<1> QED BY <1>1, <1>2, <1>3, TablesKept DEF IInv

LEMMA StartScoringGood == ASSUME IInv, StartScoring PROVE IInv'
<1>1. UNCHANGED <<week, activity, deleted, active, cohort, score, rank, outcome, final>>
      /\ active
  BY DEF StartScoring, season
<1>2. /\ job'.step = "score" /\ job'.week = WeekIndex(week) /\ job'.over = IsOver(week)
      /\ job'.left = {u \in Users : cohort[u] # None} /\ job'.rows = <<>>
      /\ DOMAIN job'.rows = {} /\ job'.current = None /\ \A v : ~IsRead(v)'
  BY NoRows DEF StartScoring, IsRead
<1>3. Typed /\ week \in Int /\ week <= Over
  BY CalendarTyped
<1>4. job'.over => week = Over /\ job'.week = LastWeek
  <2>1. IsOver(week) => week = LastWeek + 1 /\ WeekIndex(week) = LastWeek
    BY <1>3, LastWeekIsAWeek DEF IsOver, Over, WeekIndex
  <2> QED BY <1>2, <2>1 DEF Over
<1>5. \A u \in Users : score[u][LastWeek] # None => cohort[u] # None
  BY LastWeekIsAWeek DEF IInv, RowsAreOfMembers, IsRead
<1>6. LastWeekRead'
  BY <1>1, <1>2, <1>4, <1>5 DEF IInv, LastWeekRead, IsRead, Scoring, Closing
<1>7. StillEnrolled' /\ RowsAreOfMembers' /\ ClosedOnce' /\ Placed'
  BY <1>1, <1>2 DEF IInv, StillEnrolled, RowsAreOfMembers, IsRead, ClosedOnce, Placed, HasRow, Closing
<1>8. Typed'
  BY <1>3, StartScoringTyped
<1> QED BY <1>1, <1>6, <1>7, <1>8, TablesKept DEF IInv

LEMMA ScoreUserGood == ASSUME IInv, NEW u \in Users, ScoreUser(u) PROVE IInv'
<1>1. /\ UNCHANGED <<week, activity, deleted, active, cohort, score, rank, outcome, final>>
      /\ Typed
  BY DEF ScoreUser, JobMoves, season, IInv
<1>2. /\ job # None /\ job \in ScoreJob /\ job.step = "score" /\ u \in job.left
      /\ job.current = None /\ job'.step = "score"
      /\ job'.week = job.week /\ job'.over = job.over
      /\ job'.left = job.left \ {u} /\ job'.rows = job.rows
      /\ \/ u \in deleted /\ job'.current = None
         \/ /\ u \notin deleted /\ job'.current # None /\ job'.current.user = u
            /\ \A n \in Selects : job'.current.reading[n] = activity[u][job.week]
  BY <1>1, ScoreUserIs
<1>3. /\ \A v : ~IsRead(v)
      /\ \A v : IsRead(v)' => v = u /\ u \notin deleted
      /\ (u \notin deleted /\ job' # None) => IsRead(u)'
  BY <1>2 DEF IsRead
<1>5. DOMAIN job.rows \subseteq Users
  BY <1>2, RowsTyped DEF ScoreJob
<1>6. u \notin deleted => cohort[u] # None
  BY <1>2 DEF IInv, StillEnrolled
<1>7. RowsAreOfMembers'
  BY <1>1, <1>2, <1>3, <1>6 DEF IInv, RowsAreOfMembers, HasRow, IsRead
<1>8. ClosedOnce' /\ StillEnrolled' /\ Placed'
  BY <1>1, <1>2 DEF IInv, ClosedOnce, StillEnrolled, Placed, Closing
<1>9. LastWeekRead'
  <2>1. Scoring(TRUE)' => Scoring(TRUE)
    BY <1>1, <1>2 DEF Scoring
  <2>2. Scoring(TRUE) => \A n \in Selects :
            IsRead(u)' => job'.current.reading[n] \in final[u]
    BY <1>2, <1>3 DEF IInv, LastWeekRead, IsRead
  <2>3. Scoring(TRUE)' => \A v \in Users \ deleted : score[v][LastWeek] # None =>
            v \in (job.left \ {u}) \cup DOMAIN job.rows \/ IsRead(v)'
    BY <1>3, <2>1 DEF IInv, LastWeekRead, IsRead, Scoring
  <2>4. ~Closing' /\ Settled' = Settled
    BY <1>1, <1>2 DEF Closing, Settled
  <2> QED BY <1>1, <1>2, <1>3, <2>1, <2>2, <2>3, <2>4 DEF IInv, LastWeekRead, IsRead
<1>10. Typed'
  BY <1>1, ScoreUserTyped
<1> QED BY <1>1, <1>7, <1>8, <1>9, <1>10, TablesKept DEF IInv

LEMMA ReadOnGood == ASSUME IInv, ReadOn PROVE IInv'
<1>1. /\ UNCHANGED <<week, activity, deleted, active, cohort, score, rank, outcome, final>>
      /\ Typed
  BY DEF ReadOn, JobMoves, season, IInv
<1>0. PICK x : x = job.current.user
  OBVIOUS
<1>2. /\ job # None /\ job \in ScoreJob /\ job.step = "score" /\ job.current # None
      /\ job.current \in Underway /\ DOMAIN job.rows \subseteq Users
      /\ job'.step = "score"
      /\ job'.week = job.week /\ job'.over = job.over /\ job'.left = job.left
  BY <1>1, ReadOnIs
<1>3. PICK reading \in Reading :
        /\ \A n \in Selects : reading[n] \in {job.current.reading[n], activity[x][job.week]}
        /\ \/ /\ job'.rows = job.rows /\ job'.current # None
              /\ job'.current.user = x /\ job'.current.reading = reading
           \/ /\ job'.current = None /\ DOMAIN job'.rows = DOMAIN job.rows \cup {x}
              /\ job'.rows[x] = reading
              /\ \A v \in DOMAIN job.rows : v # x => job'.rows[v] = job.rows[v]
  BY <1>0, <1>1, ReadOnIs
<1>4. x \in Users /\ IsRead(x) /\ \A v : IsRead(v) => v = x
  BY <1>0, <1>2 DEF Underway, IsRead
<1>5. /\ \A v : IsRead(v)' => (v = x /\ job'.current.reading = reading)
      /\ \A v \in DOMAIN job'.rows : v = x \/ v \in DOMAIN job.rows
      /\ \A v \in DOMAIN job.rows : v \in DOMAIN job'.rows
      /\ job' # None => (IsRead(x)' \/ x \in DOMAIN job'.rows)
  <2>1. CASE job'.current = None
    <3>1. \A v : ~IsRead(v)'
      BY <2>1 DEF IsRead
    <3> QED BY <1>3, <2>1, <3>1
  <2>2. CASE job'.current # None
    BY <1>2, <1>3, <2>2 DEF IsRead
  <2> QED BY <2>1, <2>2
<1>6. RowsAreOfMembers'
  BY <1>1, <1>2, <1>4, <1>5 DEF IInv, RowsAreOfMembers, HasRow, IsRead
<1>7. ClosedOnce' /\ StillEnrolled' /\ Placed'
  BY <1>1, <1>2 DEF IInv, ClosedOnce, StillEnrolled, Placed, Closing
<1>8. LastWeekRead'
  <2>1. Scoring(TRUE)' => Scoring(TRUE)
    BY <1>1, <1>2 DEF Scoring
  <2>2. Scoring(TRUE) => \A n \in Selects : reading[n] \in final[x]
    BY <1>3, <1>4 DEF IInv, LastWeekRead, IsRead
  <2>3. Scoring(TRUE) => \A v \in DOMAIN job'.rows, n \in Selects : job'.rows[v][n] \in final[v]
    BY <1>3, <1>5, <2>2 DEF IInv, LastWeekRead, IsRead
  <2>4. Scoring(TRUE) => \A v \in Users, n \in Selects :
            IsRead(v)' => job'.current.reading[n] \in final[v]
    BY <1>5, <2>2
  <2>5. Scoring(TRUE)' => \A v \in Users \ deleted : score[v][LastWeek] # None =>
            v \in job'.left \cup DOMAIN job'.rows \/ IsRead(v)'
    BY <1>2, <1>4, <1>5, <2>1 DEF IInv, LastWeekRead, IsRead, Scoring
  <2>6. ~Closing' /\ Settled' = Settled
    BY <1>1, <1>2 DEF Closing, Settled
  <2> QED BY <1>1, <1>2, <2>1, <2>3, <2>4, <2>5, <2>6 DEF IInv, LastWeekRead, IsRead
<1>9. Typed'
  BY <1>1, ReadOnTyped
<1> QED BY <1>1, <1>6, <1>7, <1>8, <1>9, TablesKept DEF IInv

LEMMA NoScoreNoPoints ==
    ASSUME NEW u \in Users, score[u] = [w \in Weeks |-> None]
    PROVE  SeasonPoints(u) = 0
BY PointsOfRow, NothingIsZero

(* Enrolling somebody the job has not heard of changes nothing it relies on. *)
LEMMA EnrollGood == ASSUME IInv, NEW t \in Tx, Enroll(t) PROVE IInv'
<1> DEFINE e == enrolling[t]
<1>1. /\ UNCHANGED <<week, activity, deleted, active, score, rank, outcome, job, final>>
      /\ Typed /\ e.user \in Users
  <2>1. Typed
    BY DEF IInv
  <2>2. e \in [user : Users, category : Categories, cohort : 0..Len(cohorts)]
    BY <2>1 DEF Enroll, Typed, Maybe
  <2> QED BY <2>1, <2>2 DEF Enroll
<1>2. \A v \in Users : \/ cohort'[v] = cohort[v]
                       \/ v = e.user /\ cohort[v] = None
  BY <1>1 DEF Enroll, Typed
<1>3. \A v \in Users : cohort[v] # None => cohort'[v] = cohort[v]
  BY <1>2
<1>4. \A v : SeasonPoints(v)' = SeasonPoints(v)
  BY <1>1, PointsKept
<1>5. \A v \in Users : cohort[v] = None => SeasonPoints(v) = 0
  BY <1>1, NoScoreNoPoints DEF IInv, RowsAreOfMembers, IsRead
<1>6. job # None => DOMAIN job.rows \subseteq Users /\ (job.step = "score" => job.left \subseteq Users)
  BY <1>1, JobShape, RowsTyped DEF ScoreJob, CloseJob
<1>7. Typed'
  BY <1>1, EnrollTyped
<1>8. RowsAreOfMembers' /\ ClosedOnce'
  BY <1>1, <1>2, <1>3, <1>6 DEF IInv, RowsAreOfMembers, ClosedOnce, HasRow, IsRead
<1>9. LastWeekRead' /\ StillEnrolled'
  BY <1>1, <1>3, <1>6 DEF IInv, LastWeekRead, IsRead, Scoring, Closing, Settled, StillEnrolled
<1>10. \A u, v \in Users : cohort[u] # None /\ cohort[v] # None =>
           (SameCohort(u, v)' <=> SameCohort(u, v))
  BY <1>3 DEF SameCohort
<1>11. \A u, v : Ahead(u, v)' <=> Ahead(u, v)
  BY <1>1, AheadKept
<1>12. Placed'
  <2> SUFFICES ASSUME Closing PROVE Placed'
    BY <1>1 DEF Placed, Closing
  <2>1. DOMAIN job.rows \subseteq Users /\ \A u \in DOMAIN job.rows : cohort[u] # None
    BY <1>6 DEF IInv, RowsAreOfMembers, IsRead, HasRow, Closing
  <2>2. ASSUME NEW u \in Users, cohort'[u] # None, SeasonPoints(u)' > 0
        PROVE  cohort'[u] \in job.left \/ u \in DOMAIN job.rows
    <3>1. cohort[u] # None
      BY <2>2, <1>4, <1>5
    <3> QED BY <3>1, <2>2, <1>3, <1>4 DEF IInv, Placed
  <2>3. \A u \in DOMAIN job.rows : job.rows[u].outcome = "unranked" <=> SeasonPoints(u)' = 0
    BY <1>4 DEF IInv, Placed
  <2>4. \A u, v \in DOMAIN job.rows :
            SameCohort(u, v)' => Ordered(u, v, job.rows[u], job.rows[v])'
    BY <1>1, <1>10, <1>11, <2>1 DEF IInv, Placed, Ordered
  <2> QED BY <1>1, <2>2, <2>3, <2>4 DEF Placed, Closing, Ordered
<1>13. StandingsFinal'
  <2> SUFFICES ASSUME ~active PROVE StandingsFinal'
    BY <1>1 DEF StandingsFinal
  <2>1. \A u \in Users : rank[u] # None => cohort[u] # None
    BY DEF IInv, RowsAreOfMembers, IsRead
  <2>2. \A u \in Users : cohort'[u] # None /\ SeasonPoints(u)' > 0 => rank[u] # None
    <3>1. \A u \in Users : cohort[u] # None /\ SeasonPoints(u) > 0 => rank[u] # None
      BY DEF IInv, StandingsFinal, History
    <3>2. \A u \in Users : SeasonPoints(u) > 0 => cohort[u] # None
      BY <1>5
    <3> QED BY <1>4, <3>1, <3>2
  <2>3. \A u \in Users : rank[u] # None =>
            (outcome[u] = "unranked" <=> SeasonPoints(u)' = 0)
    BY <1>4 DEF IInv, StandingsFinal, History
  <2>4. ASSUME NEW u \in Users, NEW v \in Users, SameCohort(u, v)',
               None \notin {rank[u], rank[v]}
        PROVE  /\ Ahead(u, v)' <=> rank[u] < rank[v]
               /\ Ahead(u, v)' =>
                      /\ outcome[v] = "promoted" => outcome[u] = "promoted"
                      /\ outcome[u] = "relegated" => outcome[v] # "retained"
    <3>1. SameCohort(u, v)
      BY <2>1, <2>4, <1>10
    <3> QED BY <3>1, <2>4, <1>11 DEF IInv, StandingsFinal
  <2> QED BY <1>1, <2>2, <2>3, <2>4 DEF StandingsFinal, History
<1> QED BY <1>7, <1>8, <1>9, <1>12, <1>13 DEF IInv

(* A purge takes whole rows away, and none the job is working on. *)
LEMMA PurgeGood == ASSUME IInv, NEW x \in Users, Purge(x) PROVE IInv'
<1>1. /\ UNCHANGED <<week, activity, deleted, active, job, final>> /\ x \in deleted
      /\ Typed /\ (job # None => x \notin DOMAIN job.rows) /\ ~IsRead(x)
      /\ \A v : IsRead(v)' <=> IsRead(v)
  BY DEF Purge, IInv, IsRead
<1>2. /\ cohort' = [cohort EXCEPT ![x] = None]
      /\ score' = [score EXCEPT ![x] = [w \in Weeks |-> None]]
      /\ rank' = [rank EXCEPT ![x] = None] /\ outcome' = [outcome EXCEPT ![x] = None]
  BY DEF Purge
<1>3. /\ cohort'[x] = None /\ score'[x] = [w \in Weeks |-> None]
      /\ rank'[x] = None /\ outcome'[x] = None
      /\ \A v \in Users \ {x} : /\ cohort'[v] = cohort[v] /\ score'[v] = score[v]
                                /\ rank'[v] = rank[v] /\ outcome'[v] = outcome[v]
  BY <1>1, <1>2 DEF Typed
<1>4. \A v \in Users \ {x} : SeasonPoints(v)' = SeasonPoints(v)
  BY <1>3, PointsKept
<1>5. \A u, v \in Users \ {x} : /\ Ahead(u, v)' <=> Ahead(u, v)
                                /\ SameCohort(u, v)' <=> SameCohort(u, v)
  BY <1>3, AheadKept DEF SameCohort
<1>6. job # None => DOMAIN job.rows \subseteq Users /\ (job.step = "score" => job.left \subseteq Users)
  BY <1>1, JobShape, RowsTyped DEF ScoreJob, CloseJob
<1>7. Typed'
  BY <1>1, PurgeTyped
<1>8. RowsAreOfMembers' /\ ClosedOnce'
  BY <1>1, <1>3, <1>6 DEF IInv, RowsAreOfMembers, ClosedOnce, HasRow, IsRead
<1>9. LastWeekRead' /\ StillEnrolled'
  <2>1. Settled => Settled'
    BY <1>1, <1>3 DEF Settled
  <2>2. StillEnrolled'
    BY <1>1, <1>3, <1>6 DEF IInv, StillEnrolled
  <2>3. Scoring(TRUE) => \A v \in Users \ deleted :
            score'[v][LastWeek] # None => v \in job.left \cup DOMAIN job.rows \/ IsRead(v)
    BY <1>1, <1>3 DEF IInv, LastWeekRead, IsRead
  <2> QED BY <1>1, <2>1, <2>2, <2>3 DEF IInv, LastWeekRead, IsRead, Scoring, Closing
<1>10. Placed'
  <2> SUFFICES ASSUME Closing PROVE Placed'
    BY <1>1 DEF Placed, Closing
  <2>1. DOMAIN job.rows \subseteq Users \ {x}
    BY <1>1, <1>6 DEF Closing
  <2>2. ASSUME NEW u \in Users, cohort'[u] # None, SeasonPoints(u)' > 0
        PROVE  cohort'[u] \in job.left \/ u \in DOMAIN job.rows
    <3>1. u # x
      BY <1>3, <2>2
    <3> QED BY <3>1, <2>2, <1>3, <1>4 DEF IInv, Placed
  <2>3. \A u \in DOMAIN job.rows : job.rows[u].outcome = "unranked" <=> SeasonPoints(u)' = 0
    BY <1>4, <2>1 DEF IInv, Placed
  <2>4. \A u, v \in DOMAIN job.rows :
            SameCohort(u, v)' => Ordered(u, v, job.rows[u], job.rows[v])'
    BY <1>1, <1>5, <2>1 DEF IInv, Placed, Ordered
  <2> QED BY <1>1, <2>2, <2>3, <2>4 DEF Placed, Closing, Ordered
<1>11. StandingsFinal'
  <2> SUFFICES ASSUME ~active PROVE StandingsFinal'
    BY <1>1 DEF StandingsFinal
  <2>1. \A u \in Users : cohort'[u] # None \/ rank'[u] # None => u # x
    BY <1>3
  <2>2. \A u \in Users : cohort'[u] # None /\ SeasonPoints(u)' > 0 => rank'[u] # None
    BY <1>3, <1>4, <2>1 DEF IInv, StandingsFinal, History
  <2>3. \A u \in Users : rank'[u] # None =>
            (outcome'[u] = "unranked" <=> SeasonPoints(u)' = 0)
    BY <1>3, <1>4, <2>1 DEF IInv, StandingsFinal, History
  <2>4. ASSUME NEW u \in Users, NEW v \in Users, SameCohort(u, v)',
               None \notin {rank'[u], rank'[v]}
        PROVE  /\ Ahead(u, v)' <=> rank'[u] < rank'[v]
               /\ Ahead(u, v)' =>
                      /\ outcome'[v] = "promoted" => outcome'[u] = "promoted"
                      /\ outcome'[u] = "relegated" => outcome'[v] # "retained"
    <3>1. u # x /\ v # x
      BY <2>1, <2>4
    <3> QED BY <3>1, <2>4, <1>3, <1>5 DEF IInv, StandingsFinal
  <2> QED BY <1>1, <2>2, <2>3, <2>4 DEF StandingsFinal, History
<1> QED BY <1>7, <1>8, <1>9, <1>10, <1>11 DEF IInv

(* Committed scores are of the week the job read; whether the season is over *)
(* was decided before it read them.                                          *)
LEMMA CommitScoresGood == ASSUME IInv, CommitScores PROVE IInv'
<1>1. /\ UNCHANGED <<week, activity, deleted, active, cohort, rank, outcome, final>>
      /\ job # None /\ job.step = "score" /\ job.left = {} /\ Typed /\ active
      /\ \A u : ~IsRead(u)
  BY DEF CommitScores, JobMoves, IInv, ClosedOnce, IsRead
<1>2. job \in ScoreJob /\ DOMAIN job.rows \subseteq Users /\ job.over \in BOOLEAN
      /\ \A u \in DOMAIN job.rows : job.rows[u] \in Reading
  BY <1>1, JobShape, RowsTyped DEF ScoreJob, CloseJob
<1>3. \A u \in Users : \/ u \in DOMAIN job.rows
                          /\ score'[u] = [score[u] EXCEPT ![job.week] = job.rows[u]]
                       \/ u \notin DOMAIN job.rows /\ score'[u] = score[u]
  BY DEF CommitScores
<1>4. CASE ~job.over
  <2>1. job' = None
    BY <1>4 DEF CommitScores
  <2>2. RowsAreOfMembers'
    BY <1>1, <1>3, <2>1 DEF IInv, RowsAreOfMembers, IsRead, HasRow
  <2>3. ClosedOnce' /\ StillEnrolled' /\ Placed' /\ StandingsFinal'
    BY <1>1, <2>1 DEF IInv, ClosedOnce, StillEnrolled, Placed, StandingsFinal, Closing
  <2>4. LastWeekRead'
    BY <1>1, <2>1 DEF IInv, LastWeekRead, IsRead, Scoring, Closing
  <2>5. Typed'
    BY <1>1, CommitScoresTyped
  <2> QED BY <2>2, <2>3, <2>4, <2>5 DEF IInv
<1>5. CASE job.over
  <2>1. /\ job'.step = "close" /\ job'.left = {cohort[u] : u \in Users} \ {None}
        /\ job'.rows = <<>> /\ DOMAIN job'.rows = {}
    BY <1>5, NoRows DEF CommitScores
  <2>2. Scoring(TRUE)
    BY <1>1, <1>5 DEF Scoring
  <2>3. RowsAreOfMembers'
    BY <1>1, <1>3, <2>1 DEF IInv, RowsAreOfMembers, IsRead, HasRow
  <2>4. ClosedOnce' /\ StillEnrolled' /\ Placed' /\ StandingsFinal'
    BY <1>1, <2>1 DEF IInv, ClosedOnce, StillEnrolled, Placed, StandingsFinal, Closing
  <2>5. \A u \in Users \ deleted :
            score'[u][LastWeek] # None => \A n \in Selects : score'[u][LastWeek][n] \in final[u]
    <3>1. /\ job.week = LastWeek
          /\ \A u \in DOMAIN job.rows, n \in Selects : job.rows[u][n] \in final[u]
          /\ \A u \in Users \ deleted : score[u][LastWeek] # None => u \in DOMAIN job.rows
      BY <1>1, <2>2 DEF IInv, LastWeekRead
    <3>2. \A u \in Users : score[u] \in [Weeks -> Maybe(Reading)]
      BY <1>1 DEF Typed
    <3> QED BY <1>3, <3>1, <3>2, LastWeekIsAWeek
  <2>6. LastWeekRead'
    BY <1>1, <2>1, <2>2, <2>5 DEF IInv, LastWeekRead, IsRead, Scoring, Closing, Settled
  <2>7. Typed'
    BY <1>1, CommitScoresTyped
  <2> QED BY <2>3, <2>4, <2>6, <2>7 DEF IInv
<1> QED BY <1>2, <1>4, <1>5

(* The rows of a cohort are made at once, of the members it has then.      *)
LEMMA CloseCohortGood == ASSUME IInv, NEW c, CloseCohort(c) PROVE IInv'
<1> DEFINE peers == Members(c)
<1>1. /\ UNCHANGED <<week, activity, deleted, active, cohort, score, rank, outcome, final>>
      /\ Typed /\ active
  BY DEF CloseCohort, JobMoves, season, IInv, ClosedOnce
<1>2. /\ job # None /\ job.step = "close" /\ job'.step = "close"
      /\ c \in job.left /\ job'.left = job.left \ {c} /\ job.left \subseteq 1..Len(cohorts)
      /\ peers \in SUBSET Users /\ DOMAIN job.rows \subseteq Users
      /\ DOMAIN job'.rows = DOMAIN job.rows \cup peers
      /\ \A u \in DOMAIN job'.rows :
             job'.rows[u] = IF u \in peers THEN Row(u, peers) ELSE job.rows[u]
  BY <1>1, CloseCohortRows DEF CloseJob
<1>3. Closing /\ c # None /\ \A u \in Users : u \in peers <=> cohort[u] = c
  <2>1. Len(cohorts) \in Nat
    BY <1>1 DEF Typed
  <2> QED BY <1>2, <2>1, LeagueAssumption DEF Members, Closing
<1>4. /\ score \in [Users -> [Weeks -> Maybe(Reading)]] /\ Cardinality(peers) \in Nat
      /\ \A u \in Users : SeasonPoints(u) \in Nat
      /\ \A u \in peers : Place(u, peers) \in 1..Cardinality(peers)
  BY <1>1, <1>2, PointsTyped, PlaceTyped, SizeOf DEF Typed
<1>5. ASSUME NEW u \in peers
      PROVE  Row(u, peers).outcome = "unranked" <=> SeasonPoints(u) = 0
  <2>1. SeasonPoints(u) \in Nat /\ Place(u, peers) \in Nat
    BY <1>2, <1>4
  <2> QED BY <2>1, <1>4, UnrankedIs DEF Row
<1>6. ASSUME NEW u \in peers, NEW v \in peers
      PROVE  Ordered(u, v, Row(u, peers), Row(v, peers))
  <2>1. Ahead(u, v) <=> Place(u, peers) < Place(v, peers)
    BY <1>2, <1>4, PlaceOrder
  <2>2. ASSUME Ahead(u, v)
        PROVE  /\ Row(v, peers).outcome = "promoted" => Row(u, peers).outcome = "promoted"
               /\ Row(u, peers).outcome = "relegated" => Row(v, peers).outcome # "retained"
    <3>1. /\ SeasonPoints(u) \in Nat /\ SeasonPoints(v) \in Nat
          /\ SeasonPoints(v) <= SeasonPoints(u)
          /\ Place(u, peers) \in Nat /\ Place(v, peers) \in Nat
          /\ Place(u, peers) < Place(v, peers)
      BY <1>2, <1>4, <2>1, <2>2 DEF Ahead
    <3> QED BY <3>1, <1>4, OutcomeOrder DEF Row
  <2> QED BY <2>1, <2>2 DEF Ordered, Row
<1>7. RowsAreOfMembers' /\ ClosedOnce' /\ StillEnrolled'
  BY <1>1, <1>2, <1>3 DEF IInv, RowsAreOfMembers, ClosedOnce, StillEnrolled, HasRow, IsRead
<1>8. LastWeekRead'
  BY <1>1, <1>2, <1>3 DEF IInv, LastWeekRead, IsRead, Scoring, Closing, Settled
<1>9. \A u, v : /\ SeasonPoints(u)' = SeasonPoints(u)
                /\ Ahead(u, v)' <=> Ahead(u, v)
                /\ SameCohort(u, v)' <=> SameCohort(u, v)
  BY <1>1, TablesKept
<1>10. Placed'
  <2>1. ASSUME NEW u \in Users, cohort[u] # None, SeasonPoints(u) > 0
        PROVE  cohort[u] \in job'.left \/ u \in DOMAIN job'.rows
    BY <2>1, <1>2, <1>3 DEF IInv, Placed
  <2>2. ASSUME NEW u \in DOMAIN job'.rows
        PROVE  job'.rows[u].outcome = "unranked" <=> SeasonPoints(u) = 0
    BY <1>2, <1>3, <1>5 DEF IInv, Placed
  <2>3. ASSUME NEW u \in DOMAIN job'.rows, NEW v \in DOMAIN job'.rows, SameCohort(u, v)
        PROVE  Ordered(u, v, job'.rows[u], job'.rows[v])
    <3>1. u \in Users /\ v \in Users /\ (u \in peers <=> v \in peers)
      BY <1>2, <1>3, <2>3 DEF SameCohort
    <3>2. CASE u \in peers
      BY <3>1, <3>2, <1>2, <1>6
    <3>3. CASE u \notin peers
      BY <3>1, <3>3, <2>3, <1>2, <1>3 DEF IInv, Placed
    <3> QED BY <3>2, <3>3
  <2> QED BY <1>1, <1>9, <2>1, <2>2, <2>3 DEF Placed, Ordered
<1>11. Typed'
  BY <1>1, CloseCohortTyped
<1>12. StandingsFinal'
  BY <1>1 DEF StandingsFinal
<1> QED BY <1>7, <1>8, <1>10, <1>11, <1>12 DEF IInv

(* Closing stores the rows, and with them all they were found to be.       *)
LEMMA CommitCloseGood == ASSUME IInv, CommitClose PROVE IInv'
<1>1. /\ UNCHANGED <<week, activity, deleted, cohort, score, final>>
      /\ Typed /\ active /\ ~active' /\ job' = None /\ Closing /\ job.left = {}
      /\ DOMAIN job.rows \subseteq Users
  <2>1. job # None /\ job.step = "close" /\ Typed /\ active
    BY DEF CommitClose, IInv, ClosedOnce
  <2>2. DOMAIN job.rows \subseteq Users
    BY <2>1, JobShape, RowsTyped DEF ScoreJob, CloseJob
  <2> QED BY <2>1, <2>2 DEF CommitClose, JobMoves, Closing
<1>2. \A u \in Users :
          \/ u \in DOMAIN job.rows /\ rank'[u] = job.rows[u].rank
                                   /\ outcome'[u] = job.rows[u].outcome
          \/ u \notin DOMAIN job.rows /\ rank'[u] = None /\ outcome'[u] = None
  BY <1>1 DEF CommitClose, IInv, ClosedOnce
<1>3. \A u \in DOMAIN job.rows : job.rows[u].rank # None
  <2>1. job.rows \in RowsOf(Standing)
    BY <1>1, JobShape DEF Closing, ScoreJob, CloseJob
  <2>2. \A u \in DOMAIN job.rows : job.rows[u].rank \in 1..Cardinality(Users)
    <3>1. \A u \in DOMAIN job.rows : job.rows[u] \in Standing
      BY <2>1, RowsTyped
    <3> QED BY <3>1 DEF Standing
  <2> QED BY <2>2, LeagueAssumption
<1>4. \A u, v : /\ SeasonPoints(u)' = SeasonPoints(u)
                /\ Ahead(u, v)' <=> Ahead(u, v)
                /\ SameCohort(u, v)' <=> SameCohort(u, v)
  BY <1>1, PointsKept, AheadKept DEF SameCohort
<1>5. RowsAreOfMembers' /\ ClosedOnce' /\ StillEnrolled' /\ Placed'
  BY <1>1, <1>2 DEF IInv, RowsAreOfMembers, IsRead, ClosedOnce, StillEnrolled, Placed, HasRow, Closing
<1>6. LastWeekRead'
  BY <1>1 DEF IInv, LastWeekRead, IsRead, Scoring, Closing, Settled
<1>7. StandingsFinal'
  <2>1. \A u \in Users : rank'[u] # None => u \in DOMAIN job.rows
    BY <1>2
  <2>2. \A u \in Users : cohort[u] # None /\ SeasonPoints(u) > 0 => rank'[u] # None
    BY <1>1, <1>2, <1>3 DEF IInv, Placed
  <2>3. \A u \in Users : rank'[u] # None => (outcome'[u] = "unranked" <=> SeasonPoints(u) = 0)
    BY <1>1, <1>2, <2>1 DEF IInv, Placed
  <2>4. ASSUME NEW u \in Users, NEW v \in Users, SameCohort(u, v),
               None \notin {rank'[u], rank'[v]}
        PROVE  /\ Ahead(u, v) <=> rank'[u] < rank'[v]
               /\ Ahead(u, v) =>
                      /\ outcome'[v] = "promoted" => outcome'[u] = "promoted"
                      /\ outcome'[u] = "relegated" => outcome'[v] # "retained"
    <3>1. u \in DOMAIN job.rows /\ v \in DOMAIN job.rows
      BY <2>1, <2>4
    <3>2. Ordered(u, v, job.rows[u], job.rows[v])
      BY <1>1, <2>4, <3>1 DEF IInv, Placed
    <3> QED BY <1>2, <3>1, <3>2 DEF Ordered
  <2> QED BY <1>1, <1>4, <2>2, <2>3, <2>4 DEF StandingsFinal, History
<1>8. Typed'
  BY <1>1, CommitCloseTyped
<1> QED BY <1>5, <1>6, <1>7, <1>8 DEF IInv

LEMMA NextGood == ASSUME IInv, [Next]_vars PROVE IInv'
<1>1. CASE Next
  BY <1>1, StudyGood, NextWeekGood, BeginEnrollmentGood, EnrollGood, DeleteAccountGood,
     PurgeGood, StartScoringGood, ScoreUserGood, ReadOnGood, CommitScoresGood, CloseCohortGood,
     CommitCloseGood, JobDiesGood DEF Next, Scorer
<1>2. CASE UNCHANGED vars
  <2>1. /\ UNCHANGED <<week, activity, deleted, active, cohort, score, rank, outcome, job, final>>
        /\ Typed'
    BY <1>2, TypePreserved DEF vars, season, IInv
  <2>2. LastWeekRead' /\ StillEnrolled'
    BY <2>1 DEF IInv, LastWeekRead, IsRead, Scoring, Closing, StillEnrolled, Settled
  <2> QED BY <2>1, <2>2, TablesKept, JobKept DEF IInv
<1> QED BY <1>1, <1>2

THEOREM Inductive == Spec => []IInv
BY InitGood, NextGood, PTL DEF Spec

(* Whatever is enrolled, purged or studied while the season is closed or   *)
(* afterwards, and however often the job dies: in every closed season the  *)
(* ranks and outcomes follow the stored points.                            *)
THEOREM StandingsExplainThemselves == Spec => []StandingsFinal
<1>1. IInv => StandingsFinal
  BY DEF IInv
<1> QED BY <1>1, Inductive, PTL

(* A season is never closed on a last week read before its end.            *)
THEOREM LastWeekIsScored == Spec => []FinalWeekScored
<1>1. IInv => FinalWeekScored
  BY DEF IInv, LastWeekRead, IsRead, Settled, FinalWeekScored
<1> QED BY <1>1, Inductive, PTL
-----------------------------------------------------------------------------
(* Statistics: the loops over days.                                        *)

(* From one day to the next. *)
LEMMA DayByDay ==
    ASSUME NEW a \in Int, NEW b \in Int, NEW T, a \in T,
           \A d \in (a + 1)..b : d - 1 \in T => d \in T
    PROVE  \A d \in a..b : d \in T
<1> DEFINE Bad == {n \in Nat : n <= b - a /\ a + n \notin T}
<1> SUFFICES ASSUME NEW d \in a..b, d \notin T PROVE FALSE
  OBVIOUS
<1>1. d - a \in Bad
  <2>1. a + (d - a) = d
    OBVIOUS
  <2> QED BY <2>1
<1>2. PICK n \in Bad : \A k \in Bad : n <= k
  <2>1. Bad \in SUBSET Nat /\ Bad # {}
    BY <1>1
  <2> HIDE DEF Bad
  <2> QED BY <2>1, NatLeast
<1>3. n # 0
  BY <1>2
<1>4. n - 1 \in Nat /\ ~(n <= n - 1) /\ n - 1 <= b - a
  BY <1>2, <1>3
<1>5. a + (n - 1) \in T
  <2>1. n - 1 \notin Bad
    BY <1>2, <1>4
  <2> QED BY <1>4, <2>1
<1>6. a + n \in (a + 1)..b /\ (a + n) - 1 = a + (n - 1)
  BY <1>2, <1>3
<1>7. a + n \in T
  BY <1>5, <1>6
<1> QED BY <1>2, <1>7

(* The current streak is the number of scheduled days whose goal was met    *)
(* since the last one that was missed, for all sessions, days, goals and   *)
(* schedules (statistics/service.py, current_streak).                      *)
THEOREM StreakIsWhatItMeans ==
    ASSUME NEW sessions, NEW today \in Int, NEW goal \in Int, NEW mask
    PROVE  CurrentStreak(sessions, today, goal, mask) = StreakMeans(sessions, today, goal, mask)
<1> DEFINE first == today - Lookback
           before == today - Lookback - 1
           Due(d) == IsScheduled(d, mask)
           Met(d) == GoalReached(sessions, d, goal)
           Value(d, prev) == IF d < first THEN 0
                             ELSE IF ~Due(d) THEN prev
                             ELSE IF Met(d) THEN 1 + prev
                             ELSE IF d = today THEN prev ELSE 0
           Def(f) == f = [d \in before..today |->
                             IF d < first THEN 0
                             ELSE IF ~Due(d) THEN f[d - 1]
                             ELSE IF Met(d) THEN 1 + f[d - 1]
                             ELSE IF d = today THEN f[d - 1] ELSE 0]
           Part(b, f) == /\ f = [d \in before..b |-> f[d]]
                         /\ \A d \in before..b : f[d] = Value(d, f[d - 1])
           count == CHOOSE f : Def(f)
           scheduled == {d \in first..today : Due(d)}
           met == {d \in scheduled : Met(d)}
           missed == scheduled \ (met \cup {today})
           S(b) == {d \in met : d <= b /\ \A m \in missed : m <= b => m < d}
<1>1. /\ first \in Int /\ before \in Int /\ first <= today /\ before < first
      /\ before + 1 = first
  BY DEF Lookback
<1>2. CurrentStreak(sessions, today, goal, mask) = IF goal <= 0 THEN 0 ELSE count[today]
  BY DEF CurrentStreak
<1>3. StreakMeans(sessions, today, goal, mask)
          = Cardinality({d \in met : \A m \in missed : m < d})
  BY DEF StreakMeans
<1>4. goal <= 0 => \A d : ~Met(d)
  BY DEF GoalReached
<1> HIDE DEF first, before, Due, Met
<1>5. \E f : Part(today, f)
  <2> DEFINE T == {b \in before..today : \E f : Part(b, f)}
  <2>1. before \in T
    <3> DEFINE f == [d \in before..before |-> 0]
    <3>1. \A d \in before..before : d < first /\ f[d] = 0
      BY <1>1
    <3>2. Part(before, f)
      BY <3>1
    <3>3. before \in before..today
      BY <1>1
    <3> HIDE DEF Part, f
    <3> QED BY <3>2, <3>3
  <2>2. ASSUME NEW b \in (before + 1)..today, b - 1 \in T PROVE b \in T
    <3>1. PICK f : Part(b - 1, f)
      BY <2>2
    <3> HIDE DEF Value
    <3> DEFINE g == [d \in before..b |-> IF d = b THEN Value(b, f[b - 1]) ELSE f[d]]
    <3>2. b \in Int /\ b - 1 \in before..b /\ b - 1 # b /\ b \in before..today
      BY <1>1
    <3>3. ASSUME NEW d \in before..b PROVE g[d] = Value(d, g[d - 1])
      <4>1. CASE d = b
        BY <3>2, <4>1
      <4>2. CASE d = before /\ d # b
        <5>1. \A x : Value(before, x) = 0
          BY <1>1 DEF Value
        <5>2. before \in before..(b - 1)
          BY <1>1, <3>2, <4>2
        <5> QED BY <3>1, <4>2, <5>1, <5>2
      <4>3. CASE d # before /\ d # b
        <5>1. d \in before..(b - 1) /\ d - 1 \in before..b /\ d - 1 # b
          BY <1>1, <3>2, <4>3
        <5> QED BY <3>1, <4>3, <5>1
      <4> QED BY <4>1, <4>2, <4>3
    <3>4. g = [d \in before..b |-> g[d]]
      OBVIOUS
    <3> HIDE DEF g
    <3>5. Part(b, g)
      BY <3>3, <3>4
    <3> HIDE DEF Part
    <3> QED BY <3>2, <3>5
  <2>3. \A b \in before..today : b \in T
    <3> HIDE DEF T
    <3> QED BY <1>1, <2>1, <2>2, DayByDay
  <2>4. today \in before..today
    BY <1>1
  <2> HIDE DEF Part
  <2> QED BY <2>3, <2>4
<1>6. Def(count)
  <2>1. PICK f : Part(today, f)
    BY <1>5
  <2>2. Def(f)
    <3>1. f = [d \in before..today |-> Value(d, f[d - 1])]
      <4> HIDE DEF Value
      <4> QED BY <2>1, Zenon
    <3> QED BY <3>1
  <2> HIDE DEF Def
  <2> QED BY <2>2
<1>7. \A d \in before..today : count[d] = Value(d, count[d - 1])
  <2> HIDE DEF count
  <2> QED BY <1>6
<1> HIDE DEF count
<1>8. ASSUME NEW b \in before..today PROVE IsFiniteSet(S(b)) /\ Cardinality(S(b)) \in Nat
  <2>1. IsFiniteSet(first..today)
    BY <1>1, FS_Interval
  <2>2. S(b) \subseteq first..today
    OBVIOUS
  <2> HIDE DEF S
  <2> QED BY <2>1, <2>2, FS_Subset, FS_CardinalityType
<1> DEFINE T == {b \in before..today : count[b] = Cardinality(S(b))}
<1>9. before \in T
  <2>1. before \in before..today /\ count[before] = 0
    BY <1>1, <1>7
  <2>2. S(before) = {}
    BY <1>1
  <2> HIDE DEF S
  <2> QED BY <2>1, <2>2, FS_EmptySet
<1>10. ASSUME NEW b \in (before + 1)..today, b - 1 \in T PROVE b \in T
  <2>1. b \in before..today /\ b - 1 \in before..today /\ b \in first..today /\ ~(b < first)
    BY <1>1
  <2>2. count[b] = Value(b, count[b - 1]) /\ count[b - 1] = Cardinality(S(b - 1))
    BY <1>7, <1>10, <2>1
  <2>3. \A d \in first..today : d \in Int /\ (d <= b <=> d <= b - 1 \/ d = b)
    BY <1>1, <2>1
  <2>4. CASE b \notin met /\ b \notin missed
    <3>1. S(b) = S(b - 1)
      BY <2>3, <2>4
    <3>2. count[b] = count[b - 1]
      BY <2>1, <2>2, <2>4
    <3> QED BY <2>1, <2>2, <3>1, <3>2
  <2>5. CASE b \in met
    <3>1. b \notin missed
      BY <2>5
    <3>2. \A m \in missed : m <= b => m < b
      BY <2>3, <3>1
    <3>3. S(b) = S(b - 1) \cup {b}
      BY <2>3, <2>5, <3>1, <3>2
    <3>4. b \notin S(b - 1)
      BY <2>1
    <3>5. count[b] = 1 + count[b - 1]
      BY <2>1, <2>2, <2>5
    <3> HIDE DEF S
    <3>6. Cardinality(S(b)) = Cardinality(S(b - 1)) + 1
      BY <1>8, <2>1, <3>3, <3>4, FS_AddElement
    <3> QED BY <1>8, <2>1, <2>2, <3>5, <3>6
  <2>6. CASE b \in missed
    <3>1. S(b) = {}
      BY <2>3, <2>6
    <3>2. count[b] = 0
      BY <2>1, <2>2, <2>6
    <3> QED BY <2>1, <3>1, <3>2, FS_EmptySet
  <2> QED BY <2>4, <2>5, <2>6
<1>11. count[today] = Cardinality(S(today))
  <2>1. \A b \in before..today : b \in T
    <3> HIDE DEF T
    <3> QED BY <1>1, <1>9, <1>10, DayByDay
  <2>2. today \in before..today
    BY <1>1
  <2> QED BY <2>1, <2>2
<1>12. S(today) = {d \in met : \A m \in missed : m < d}
  BY <1>1
<1>13. goal <= 0 => S(today) = {}
  BY <1>4
<1> HIDE DEF S, met, missed
<1> QED BY <1>2, <1>3, <1>11, <1>12, <1>13, FS_EmptySet

(* The longest run of days is the length of the longest interval among      *)
(* them, for any days in their order (statistics/service.py, _longest_run). *)
THEOREM LongestRunIsWhatItMeans ==
    ASSUME NEW days \in Seq(Int),
           \A i, j \in 1..Len(days) : i < j => days[i] < days[j]
    PROVE  LongestRun(days) = LongestMeans({days[i] : i \in 1..Len(days)})
<1> DEFINE N == Len(days)
           D == {days[i] : i \in 1..Len(days)}
           start == [longest |-> 0, current |-> 0]
           Current(i, p) == IF i > 1 /\ days[i] - days[i - 1] = 1 THEN p.current + 1 ELSE 1
           Step(i, p) == [current |-> Current(i, p),
                          longest |-> IF Current(i, p) > p.longest THEN Current(i, p)
                                      ELSE p.longest]
           Value(i, p) == IF i = 0 THEN start ELSE Step(i, p)
           Def(f) == f = [i \in 0..Len(days) |->
                             IF i = 0 THEN [longest |-> 0, current |-> 0]
                             ELSE LET current == IF i > 1 /\ days[i] - days[i - 1] = 1
                                                 THEN f[i - 1].current + 1 ELSE 1
                                      longest == f[i - 1].longest
                                  IN  [current |-> current,
                                       longest |-> IF current > longest THEN current
                                                   ELSE longest]]
           Part(b, f) == /\ f = [i \in 0..b |-> f[i]]
                         /\ \A i \in 0..b : f[i] = Value(i, f[i - 1])
           run == CHOOSE f : Def(f)
<1>1. N \in Nat /\ \A i \in 1..N : days[i] \in Int
  OBVIOUS
<1>2. LongestRun(days) = run[N].longest
  BY DEF LongestRun
<1>3. \E f : Part(N, f)
  <2> HIDE DEF N, Value
  <2> DEFINE T == {b \in 0..N : \E f : Part(b, f)}
  <2>1. 0 \in T
    <3> DEFINE f == [i \in 0..0 |-> start]
    <3>1. \A i \in 0..0 : i = 0 /\ f[i] = start /\ Value(i, f[i - 1]) = start
      BY DEF Value
    <3>2. Part(0, f)
      <4> HIDE DEF start
      <4> QED BY <3>1
    <3>3. 0 \in 0..N
      BY <1>1
    <3> HIDE DEF Part, f
    <3> QED BY <3>2, <3>3
  <2>2. ASSUME NEW b \in 1..N, b - 1 \in T PROVE b \in T
    <3>1. PICK f : Part(b - 1, f)
      BY <2>2
    <3> DEFINE g == [i \in 0..b |-> IF i = b THEN Value(b, f[b - 1]) ELSE f[i]]
    <3>2. b \in Int /\ b - 1 \in 0..b /\ b - 1 # b /\ b \in 0..N
      BY <1>1
    <3>3. ASSUME NEW i \in 0..b PROVE g[i] = Value(i, g[i - 1])
      <4>1. CASE i = b
        BY <3>2, <4>1
      <4>2. CASE i = 0 /\ i # b
        <5>1. \A x : Value(0, x) = start
          BY DEF Value
        <5>2. 0 \in 0..(b - 1)
          BY <1>1, <3>2, <4>2
        <5> HIDE DEF start
        <5> QED BY <3>1, <4>2, <5>1, <5>2
      <4>3. CASE i # 0 /\ i # b
        <5>1. i \in 0..(b - 1) /\ i - 1 \in 0..b /\ i - 1 # b
          BY <1>1, <3>2, <4>3
        <5> QED BY <3>1, <4>3, <5>1
      <4> QED BY <4>1, <4>2, <4>3
    <3>4. g = [i \in 0..b |-> g[i]]
      OBVIOUS
    <3> HIDE DEF g
    <3>5. Part(b, g)
      BY <3>3, <3>4
    <3> HIDE DEF Part
    <3> QED BY <3>2, <3>5
  <2>3. \A b \in 0..N : b \in T
    <3> HIDE DEF T
    <3>1. N \in Int /\ 0 \in Int /\ 0 + 1 = 1
      BY <1>1
    <3>2. \A b \in (0 + 1)..N : b - 1 \in T => b \in T
      BY <2>2, <3>1
    <3> QED BY <2>1, <3>1, <3>2, DayByDay
  <2>4. N \in 0..N
    BY <1>1
  <2> HIDE DEF Part
  <2> QED BY <2>3, <2>4
<1>4. Def(run)
  <2>1. PICK f : Part(N, f)
    BY <1>3
  <2>2. Def(f)
    <3>1. f = [i \in 0..N |-> Value(i, f[i - 1])]
      <4> HIDE DEF Value, N
      <4> QED BY <2>1, Zenon
    <3> QED BY <3>1
  <2> HIDE DEF Def
  <2> QED BY <2>2
<1>5. run[0] = start /\ \A i \in 1..N : run[i] = Step(i, run[i - 1])
  <2> HIDE DEF run
  <2>1. run = [i \in 0..N |-> Value(i, run[i - 1])]
    BY <1>4
  <2> HIDE DEF N, Value
  <2>2. \A i \in 0..N : run[i] = Value(i, run[i - 1])
    BY <2>1, Zenon
  <2>3. \A i \in 0..N : run[i] = IF i = 0 THEN start ELSE Step(i, run[i - 1])
    <3> HIDE DEF start, Step
    <3> QED BY <2>2 DEF Value
  <2> HIDE DEF start, Step
  <2> QED BY <1>1, <2>3
<1> HIDE DEF run
<1>6. ASSUME NEW i \in 1..N
      PROVE  /\ run[i].current = Current(i, run[i - 1])
             /\ run[i].longest = IF run[i].current > run[i - 1].longest THEN run[i].current
                                 ELSE run[i - 1].longest
  <2>1. run[i] = Step(i, run[i - 1])
    BY <1>5
  <2> HIDE DEF Current, N
  <2> QED BY <2>1
\* The run that ends at day i starts behind a day that is not there.
<1> DEFINE Ends(i) == /\ run[i].current \in Nat \ {0}
                      /\ (days[i] - run[i].current + 1)..days[i] \subseteq D
                      /\ days[i] - run[i].current \notin D
           Longest(b) == /\ run[b].longest \in Nat
                         /\ \A i \in 1..b : Ends(i) /\ run[i].current <= run[b].longest
                         /\ b = 0 \/ \E i \in 1..b : run[b].longest = run[i].current
           T == {b \in 0..N : Longest(b)}
<1>7. 0 \in T
  BY <1>1, <1>5
<1>8. ASSUME NEW b \in 1..N, b - 1 \in T PROVE b \in T
  <2>1. /\ b \in 1..N /\ b \in 0..N /\ days[b] \in Int /\ days[b] \in D
        /\ Longest(b - 1)
    <3>1. b \in 1..N /\ b \in 0..N /\ days[b] \in Int /\ days[b] \in D
      BY <1>1
    <3>2. Longest(b - 1)
      <4> HIDE DEF Longest
      <4> QED BY <1>8
    <3> HIDE DEF Longest, N, D
    <3> QED BY <3>1, <3>2
  <2>2. \A e \in D : e < days[b] => b > 1 /\ e <= days[b - 1]
    <3> SUFFICES ASSUME NEW j \in 1..N, days[j] < days[b]
                 PROVE  b > 1 /\ days[j] <= days[b - 1]
      OBVIOUS
    <3>1. j < b
      <4>1. ~(j = b) /\ ~(b < j)
        BY <1>1, <2>1
      <4> QED BY <2>1, <4>1
    <3>2. b - 1 \in 1..N /\ (j = b - 1 \/ j < b - 1)
      BY <2>1, <3>1
    <3>3. days[j] \in Int /\ days[b - 1] \in Int
      BY <1>1, <3>2
    <3>4. j < b - 1 => days[j] < days[b - 1]
      BY <3>2
    <3>5. b > 1
      BY <2>1, <3>1
    <3> QED BY <3>2, <3>3, <3>4, <3>5
  <2>3. Ends(b)
    <3>1. CASE b > 1 /\ days[b] - days[b - 1] = 1
      <4>1. b - 1 \in 1..(b - 1) /\ b - 1 \in 1..N
        BY <2>1, <3>1
      <4>2. Ends(b - 1) /\ days[b - 1] \in Int
        BY <1>1, <2>1, <4>1
      <4>3. run[b].current = run[b - 1].current + 1
        BY <1>6, <2>1, <3>1
      <4> DEFINE c == run[b - 1].current
                 y == days[b - 1]
      <4> HIDE DEF c, y, D, N
      <4>4. c \in Nat \ {0} /\ (y - c + 1)..y \subseteq D /\ y - c \notin D /\ y \in Int
        BY <4>2 DEF c, y
      <4>5. days[b] = y + 1 /\ run[b].current = c + 1 /\ days[b] \in D
        BY <2>1, <3>1, <4>2, <4>3 DEF c, y
      <4>6. days[b] - run[b].current = y - c /\ run[b].current \in Nat \ {0}
        BY <4>4, <4>5
      <4>7. ASSUME NEW e \in (days[b] - run[b].current + 1)..days[b] PROVE e \in D
        <5>1. e = y + 1 \/ e \in (y - c + 1)..y
          BY <4>4, <4>5
        <5> QED BY <4>4, <4>5, <5>1
      <4> QED BY <4>4, <4>6, <4>7
    <3>2. CASE ~(b > 1 /\ days[b] - days[b - 1] = 1)
      <4>1. run[b].current = 1
        BY <1>6, <2>1, <3>2
      <4>2. days[b] - 1 \notin D
        <5> SUFFICES ASSUME days[b] - 1 \in D PROVE FALSE
          OBVIOUS
        <5>1. b > 1 /\ days[b] - 1 <= days[b - 1]
          <6>1. days[b] - 1 < days[b]
            BY <2>1
          <6> HIDE DEF D
          <6> QED BY <2>2, <6>1
        <5>2. b - 1 \in 1..N /\ b - 1 < b
          BY <2>1, <5>1
        <5>3. days[b - 1] < days[b] /\ days[b - 1] \in Int
          BY <1>1, <2>1, <5>2
        <5> QED BY <2>1, <3>2, <5>1, <5>3
      <4>3. (days[b] - 1 + 1)..days[b] \subseteq D
        BY <2>1
      <4> HIDE DEF D
      <4> QED BY <4>1, <4>2, <4>3
    <3> QED BY <3>1, <3>2
  <2>4. run[b].longest = IF run[b].current > run[b - 1].longest THEN run[b].current
                         ELSE run[b - 1].longest
    BY <1>6, <2>1
  <2>5. /\ run[b].longest \in Nat /\ run[b].current \in Nat
        /\ run[b].current <= run[b].longest /\ run[b - 1].longest <= run[b].longest
    BY <2>1, <2>3, <2>4
  <2> HIDE DEF Ends
  <2>6. ASSUME NEW i \in 1..b PROVE Ends(i) /\ run[i].current <= run[b].longest
    <3>1. i \in 1..(b - 1) \/ i = b
      BY <2>1
    <3>2. i \in 1..(b - 1) => Ends(i) /\ run[i].current <= run[b - 1].longest
      BY <2>1
    <3>3. CASE i = b
      BY <2>3, <2>5, <3>3
    <3>4. CASE i \in 1..(b - 1)
      <4>1. Ends(i) => run[i].current \in Nat
        BY DEF Ends
      <4>2. run[b - 1].longest \in Nat
        BY <2>1
      <4> QED BY <2>5, <3>2, <3>4, <4>1, <4>2
    <3> QED BY <3>1, <3>3, <3>4
  <2>7. \E i \in 1..b : run[b].longest = run[i].current
    <3>1. CASE run[b].longest = run[b].current
      BY <2>1, <3>1
    <3>2. CASE run[b].longest = run[b - 1].longest /\ b - 1 = 0
      <4>1. run[b - 1].longest = 0
        BY <1>5, <3>2
      <4>2. run[b].current \in Nat \ {0}
        BY <2>3 DEF Ends
      <4> QED BY <2>5, <3>2, <4>1, <4>2
    <3>3. CASE run[b].longest = run[b - 1].longest /\ b - 1 # 0
      <4>1. PICK i \in 1..(b - 1) : run[b - 1].longest = run[i].current
        BY <2>1, <3>3
      <4>2. i \in 1..b
        BY <2>1
      <4> QED BY <3>3, <4>1, <4>2
    <3> QED BY <2>4, <3>1, <3>2, <3>3
  <2>8. Longest(b)
    BY <2>5, <2>6, <2>7
  <2> HIDE DEF Longest
  <2> QED BY <2>1, <2>8
<1>9. Longest(N)
  <2>1. \A b \in 0..N : b \in T
    <3> HIDE DEF T, N
    <3>1. N \in Int /\ 0 \in Int /\ 0 + 1 = 1
      BY <1>1
    <3>2. \A b \in (0 + 1)..N : b - 1 \in T => b \in T
      BY <1>8, <3>1
    <3> QED BY <1>7, <3>1, <3>2, DayByDay
  <2>2. N \in 0..N
    BY <1>1
  <2> HIDE DEF Longest, N
  <2> QED BY <2>1, <2>2
<1> DEFINE runs == {r \in D \X D : r[1] <= r[2] /\ r[1]..r[2] \subseteq D}
           lengths == {r[2] - r[1] + 1 : r \in runs}
           n == run[N].longest
<1>10. LongestMeans(D) = IF D = {} THEN 0
                         ELSE CHOOSE x \in lengths : \A k \in lengths : k <= x
  BY DEF LongestMeans
<1>11. D = {} <=> N = 0
  BY <1>1
<1>12. CASE N = 0
  BY <1>2, <1>5, <1>10, <1>11, <1>12
<1>13. CASE N # 0
  <2>1. n \in lengths
    <3>1. PICK i \in 1..N : n = run[i].current
      BY <1>9, <1>13
    <3>2. Ends(i) /\ days[i] \in Int /\ days[i] \in D
      BY <1>1, <1>9
    <3> DEFINE from == days[i] - n + 1
    <3>3. from..days[i] \subseteq D /\ from \in Int /\ from <= days[i]
      BY <3>1, <3>2, SMTT(30)
    <3>4. from \in D
      BY <3>2, <3>3
    <3>5. <<from, days[i]>> \in runs
      BY <3>2, <3>3, <3>4
    <3>6. days[i] - from + 1 = n
      BY <3>1, <3>2
    <3> HIDE DEF runs, from, n
    <3>7. <<from, days[i]>>[2] - <<from, days[i]>>[1] + 1 = n
      BY <3>6
    <3> QED BY <3>5, <3>7
  <2>2. ASSUME NEW r \in runs PROVE r[2] - r[1] + 1 <= n /\ r[2] - r[1] + 1 \in Int
    <3>1. PICK i \in 1..N : r[2] = days[i]
      OBVIOUS
    <3>2. /\ days[i] \in Int /\ r[1] \in Int /\ Ends(i) /\ run[i].current <= n /\ n \in Nat
          /\ r[1] <= r[2] /\ r[1]..r[2] \subseteq D
      BY <1>1, <1>9
    <3>3. ~(days[i] - run[i].current \in r[1]..r[2])
      BY <3>2, SMTT(30)
    <3>4. r[1] > days[i] - run[i].current
      BY <3>1, <3>2, <3>3
    <3> QED BY <3>1, <3>2, <3>4
  <2>3. \A k \in lengths : k <= n /\ k \in Int
    <3> HIDE DEF runs, n
    <3> QED BY <2>2
  <2> HIDE DEF lengths
  <2> DEFINE x == CHOOSE x \in lengths : \A k \in lengths : k <= x
  <2>4. x \in lengths /\ n <= x
    BY <2>1, <2>3
  <2>5. x = n
    BY <2>1, <2>3, <2>4
  <2> QED BY <1>2, <1>10, <1>11, <1>13, <2>5
<1> QED BY <1>12, <1>13
-----------------------------------------------------------------------------
(* Statistics: sums of seconds.                                            *)

(* From the sets with one element less to a set. *)
LEMMA OneByOne ==
    ASSUME NEW S, IsFiniteSet(S), NEW T,
           \A s \in SUBSET S : (\A z \in s : s \ {z} \in T) => s \in T
    PROVE  \A s \in SUBSET S : s \in T
<1> DEFINE Bad == {s \in SUBSET S : s \notin T}
           Sizes == {Cardinality(s) : s \in Bad}
<1> SUFFICES ASSUME Bad # {} PROVE FALSE
  OBVIOUS
<1>1. \A s \in SUBSET S : IsFiniteSet(s) /\ Cardinality(s) \in Nat
  BY FS_Subset, FS_CardinalityType
<1>2. PICK n \in Sizes : \A k \in Sizes : n <= k
  <2>1. Sizes \in SUBSET Nat /\ Sizes # {}
    BY <1>1
  <2> HIDE DEF Sizes
  <2> QED BY <2>1, NatLeast
<1>3. PICK s \in Bad : n = Cardinality(s)
  OBVIOUS
<1>4. ASSUME NEW z \in s PROVE s \ {z} \in T
  <2>1. Cardinality(s \ {z}) = Cardinality(s) - 1
    BY <1>1, FS_RemoveElement
  <2>2. ~(n <= Cardinality(s \ {z}))
    BY <1>1, <1>3, <2>1
  <2>3. s \ {z} \notin Bad
    BY <1>2, <2>2
  <2> QED BY <2>3
<1> QED BY <1>3, <1>4

\* The recursion behind a sum of seconds.
Sums(S, f) ==
    f = [s \in SUBSET S |->
            IF s = {} THEN 0 ELSE LET x == CHOOSE y \in s : TRUE IN x.seconds + f[s \ {x}]]

LEMMA SumsExist ==
    ASSUME NEW S, IsFiniteSet(S) PROVE \E f : Sums(S, f)
<1> DEFINE N == Cardinality(S)
           One(s) == CHOOSE y \in s : TRUE
           Is(f, s) == f[s] = IF s = {} THEN 0 ELSE One(s).seconds + f[s \ {One(s)}]
           T == {n \in 0..N : \E f : /\ f = [s \in SUBSET S |-> f[s]]
                                     /\ \A s \in SUBSET S : Cardinality(s) <= n => Is(f, s)}
<1>1. /\ N \in Nat
      /\ \A s \in SUBSET S : /\ IsFiniteSet(s) /\ Cardinality(s) \in Nat /\ Cardinality(s) <= N
                             /\ Cardinality(s) = 0 <=> s = {}
  BY FS_Subset, FS_CardinalityType, FS_EmptySet
<1>2. ASSUME NEW s \in SUBSET S, s # {}
      PROVE  /\ One(s) \in s /\ s \ {One(s)} \in SUBSET S
             /\ Cardinality(s \ {One(s)}) = Cardinality(s) - 1
  <2>1. One(s) \in s
    BY <1>2
  <2> HIDE DEF One
  <2> QED BY <1>1, <2>1, FS_RemoveElement
<1> HIDE DEF One, N
<1>3. 0 \in T
  <2> DEFINE f == [s \in SUBSET S |-> 0]
  <2>1. \A s \in SUBSET S : Cardinality(s) <= 0 => Is(f, s)
    BY <1>1
  <2>2. f = [s \in SUBSET S |-> f[s]]
    OBVIOUS
  <2>3. 0 \in 0..N
    BY <1>1
  <2> HIDE DEF f, Is
  <2> QED BY <2>1, <2>2, <2>3
<1>4. ASSUME NEW n \in 1..N, n - 1 \in T PROVE n \in T
  <2>1. PICK f : /\ f = [s \in SUBSET S |-> f[s]]
                 /\ \A s \in SUBSET S : Cardinality(s) <= n - 1 => Is(f, s)
    BY <1>4
  <2> DEFINE g == [s \in SUBSET S |->
                      IF Cardinality(s) = n THEN One(s).seconds + f[s \ {One(s)}] ELSE f[s]]
  <2>2. ASSUME NEW s \in SUBSET S, Cardinality(s) <= n PROVE Is(g, s)
    <3>1. CASE Cardinality(s) = n
      <4>1. s # {}
        BY <1>1, <3>1
      <4>2. s \ {One(s)} \in SUBSET S /\ Cardinality(s \ {One(s)}) # n
        BY <1>2, <3>1, <4>1
      <4>3. g[s \ {One(s)}] = f[s \ {One(s)}]
        BY <4>2
      <4>4. g[s] = One(s).seconds + f[s \ {One(s)}]
        BY <3>1
      <4> HIDE DEF g
      <4> QED BY <4>1, <4>3, <4>4
    <3>2. CASE Cardinality(s) # n
      <4>1. Cardinality(s) <= n - 1
        BY <1>1, <2>2, <3>2
      <4>2. Is(f, s)
        BY <2>1, <4>1
      <4>3. s # {} => s \ {One(s)} \in SUBSET S /\ Cardinality(s \ {One(s)}) # n
        BY <1>1, <1>2, <4>1
      <4>4. s # {} => g[s \ {One(s)}] = f[s \ {One(s)}]
        BY <4>3
      <4>5. g[s] = f[s]
        BY <3>2
      <4> HIDE DEF g
      <4> QED BY <4>2, <4>4, <4>5
    <3> QED BY <3>1, <3>2
  <2>3. g = [s \in SUBSET S |-> g[s]]
    OBVIOUS
  <2>4. n \in 0..N
    BY <1>1
  <2> HIDE DEF g, Is
  <2> QED BY <2>2, <2>3, <2>4
<1>5. N \in T
  <2> HIDE DEF T
  <2>1. N \in Int /\ 0 \in Int /\ 0 + 1 = 1 /\ N \in 0..N
    BY <1>1
  <2>2. \A n \in (0 + 1)..N : n - 1 \in T => n \in T
    BY <1>4, <2>1
  <2>3. \A n \in 0..N : n \in T
    BY <1>3, <2>1, <2>2, DayByDay
  <2> QED BY <2>1, <2>3
<1>6. PICK f : /\ f = [s \in SUBSET S |-> f[s]]
               /\ \A s \in SUBSET S : Is(f, s)
  BY <1>1, <1>5
<1>7. f = [s \in SUBSET S |-> IF s = {} THEN 0 ELSE One(s).seconds + f[s \ {One(s)}]]
  BY <1>6, Zenon
<1> QED BY <1>7 DEF Sums, One

Rows(S) == IsFiniteSet(S) /\ \A s \in S : s.seconds \in Nat

LEMMA SumsOf ==
    ASSUME NEW S, Rows(S), NEW f, Sums(S, f)
    PROVE  /\ f[{}] = 0
           /\ \A s \in SUBSET S : f[s] \in Nat /\ \A x \in s : f[s] = x.seconds + f[s \ {x}]
<1> DEFINE One(s) == CHOOSE y \in s : TRUE
           P(s) == /\ \A u \in SUBSET s : f[u] \in Nat
                   /\ \A x \in s : f[s] = x.seconds + f[s \ {x}]
           T == {s \in SUBSET S : P(s)}
<1>1. \A s \in SUBSET S : f[s] = IF s = {} THEN 0 ELSE One(s).seconds + f[s \ {One(s)}]
  <2> HIDE DEF One
  <2>1. f = [s \in SUBSET S |-> IF s = {} THEN 0 ELSE One(s).seconds + f[s \ {One(s)}]]
    BY DEF Sums, One
  <2> QED BY <2>1, Zenon
<1>2. \A s \in SUBSET S : s # {} => One(s) \in s
  OBVIOUS
<1> HIDE DEF One
<1>3. \A x \in S : x.seconds \in Nat
  BY DEF Rows
<1>4. ASSUME NEW s \in SUBSET S, \A z \in s : s \ {z} \in T PROVE s \in T
  <2>1. CASE s = {}
    <3>1. f[{}] = 0 /\ \A u \in SUBSET s : u = {}
      BY <1>1, <2>1
    <3> QED BY <2>1, <3>1
  <2>2. CASE s # {}
    <3> DEFINE y == One(s)
    <3>1. /\ y \in s /\ f[s] = y.seconds + f[s \ {y}] /\ P(s \ {y}) /\ y.seconds \in Nat
          /\ f[s \ {y}] \in Nat
      <4>1. y \in s
        BY <1>2, <2>2
      <4>2. f[s] = y.seconds + f[s \ {y}]
        BY <1>1, <2>2
      <4> HIDE DEF y
      <4> QED BY <1>3, <1>4, <4>1, <4>2
    <3> HIDE DEF y
    <3>2. f[s] \in Nat
      BY <3>1
    <3>3. ASSUME NEW x \in s PROVE f[s] = x.seconds + f[s \ {x}]
      <4>1. CASE x = y
        BY <3>1, <4>1
      <4>2. CASE x # y
        <5>1. x \in s \ {y} /\ y \in s \ {x} /\ (s \ {y}) \ {x} = (s \ {x}) \ {y}
          BY <3>1, <4>2
        <5>2. P(s \ {x}) /\ x.seconds \in Nat
          BY <1>3, <1>4
        <5>3. f[s \ {y}] = x.seconds + f[(s \ {x}) \ {y}]
          BY <3>1, <5>1
        <5>4. f[s \ {x}] = y.seconds + f[(s \ {x}) \ {y}]
          BY <5>1, <5>2
        <5>5. f[(s \ {x}) \ {y}] \in Nat
          BY <5>2
        <5> QED BY <3>1, <5>2, <5>3, <5>4, <5>5
      <4> QED BY <4>1, <4>2
    <3>4. ASSUME NEW u \in SUBSET s PROVE f[u] \in Nat
      <4>1. CASE u = s
        BY <3>2, <4>1
      <4>2. CASE u # s
        <5>1. PICK z \in s : z \notin u
          BY <4>2
        <5>2. u \in SUBSET (s \ {z}) /\ P(s \ {z})
          BY <1>4, <5>1
        <5> QED BY <5>2
      <4> QED BY <4>1, <4>2
    <3> QED BY <3>3, <3>4
  <2> QED BY <2>1, <2>2
<1>5. \A s \in SUBSET S : s \in T
  <2> HIDE DEF T
  <2> QED BY <1>4, OneByOne DEF Rows
<1>6. f[{}] = 0
  BY <1>1
<1> QED BY <1>5, <1>6

LEMMA SecondsAre ==
    ASSUME NEW S, Rows(S)
    PROVE  \E f : Sums(S, f) /\ Seconds(S) = f[S] /\ f[S] \in Nat
<1> DEFINE f == CHOOSE f : Sums(S, f)
<1>1. Sums(S, f)
  <2>1. \E g : Sums(S, g)
    BY SumsExist DEF Rows
  <2> QED BY <2>1
<1>2. Seconds(S) = f[S]
  BY DEF Seconds, MapThenSumSet, MapThenFoldSet, Sums
<1> HIDE DEF f
<1>3. f[S] \in Nat
  BY <1>1, SumsOf
<1> QED BY <1>1, <1>2, <1>3

(* A part sums up to the same on its own and within a larger set. *)
LEMMA SumsAgree ==
    ASSUME NEW S, Rows(S), NEW f, Sums(S, f), NEW P \in SUBSET S
    PROVE  Rows(P) /\ Seconds(P) = f[P]
<1>1. Rows(P)
  BY FS_Subset DEF Rows
<1>2. PICK g : Sums(P, g) /\ Seconds(P) = g[P]
  BY <1>1, SecondsAre
<1> DEFINE T == {s \in SUBSET P : f[s] = g[s]}
<1>3. /\ f[{}] = 0
      /\ \A s \in SUBSET S : f[s] \in Nat /\ \A x \in s : f[s] = x.seconds + f[s \ {x}]
  BY SumsOf
<1>4. /\ g[{}] = 0
      /\ \A s \in SUBSET P : g[s] \in Nat /\ \A x \in s : g[s] = x.seconds + g[s \ {x}]
  BY <1>1, <1>2, SumsOf
<1>5. ASSUME NEW s \in SUBSET P, \A z \in s : s \ {z} \in T PROVE s \in T
  <2>1. CASE s = {}
    BY <1>3, <1>4, <2>1
  <2>2. CASE s # {}
    <3>1. PICK z \in s : TRUE
      BY <2>2
    <3>2. f[s \ {z}] = g[s \ {z}]
      BY <1>5
    <3>3. f[s] = z.seconds + f[s \ {z}] /\ g[s] = z.seconds + g[s \ {z}]
      BY <1>3, <1>4
    <3>4. f[s] = g[s]
      BY <3>2, <3>3
    <3> QED BY <3>4
  <2> QED BY <2>1, <2>2
<1>6. \A s \in SUBSET P : s \in T
  <2> HIDE DEF T
  <2> QED BY <1>1, <1>5, OneByOne DEF Rows
<1> QED BY <1>1, <1>2, <1>6

(* What two sets without a common session sum up to. *)
LEMMA SecondsOfBoth ==
    ASSUME NEW A, NEW B, Rows(A), Rows(B), A \cap B = {}
    PROVE  /\ Rows(A \cup B) /\ Seconds(A) \in Nat /\ Seconds(B) \in Nat
           /\ Seconds(A \cup B) = Seconds(A) + Seconds(B)
<1> DEFINE S == A \cup B
<1>1. Rows(S)
  BY FS_Union DEF Rows
<1>2. PICK f : Sums(S, f) /\ Seconds(S) = f[S]
  BY <1>1, SecondsAre
<1>3. /\ f[{}] = 0
      /\ \A s \in SUBSET S : f[s] \in Nat /\ \A x \in s : f[s] = x.seconds + f[s \ {x}]
  BY <1>1, <1>2, SumsOf
<1> DEFINE T == {b \in SUBSET B : f[A \cup b] = f[A] + f[b]}
<1>4. ASSUME NEW b \in SUBSET B, \A z \in b : b \ {z} \in T PROVE b \in T
  <2>1. CASE b = {}
    <3>1. A \cup b = A /\ f[A] \in Nat /\ f[b] = 0
      BY <1>3, <2>1
    <3>2. f[A \cup b] = f[A] + f[b]
      BY <3>1
    <3> QED BY <3>2
  <2>2. CASE b # {}
    <3>1. PICK z \in b : TRUE
      BY <2>2
    <3>2. (A \cup b) \ {z} = A \cup (b \ {z})
      OBVIOUS
    <3>3. /\ A \cup b \in SUBSET S /\ z \in A \cup b /\ b \in SUBSET S
          /\ b \ {z} \in SUBSET S /\ A \in SUBSET S /\ z \in S
      OBVIOUS
    <3>4. f[A \cup b] = z.seconds + f[A \cup (b \ {z})]
      BY <1>3, <3>2, <3>3
    <3>5. f[b] = z.seconds + f[b \ {z}]
      BY <1>3, <3>3
    <3>6. f[A \cup (b \ {z})] = f[A] + f[b \ {z}]
      BY <1>4
    <3>7. z.seconds \in Nat /\ f[A] \in Nat /\ f[b \ {z}] \in Nat
      BY <1>1, <1>3, <3>3 DEF Rows
    <3>8. f[A \cup b] = f[A] + f[b]
      BY <3>4, <3>5, <3>6, <3>7
    <3> QED BY <3>8
  <2> QED BY <2>1, <2>2
<1>5. \A b \in SUBSET B : b \in T
  <2> HIDE DEF T
  <2> QED BY <1>4, OneByOne DEF Rows
<1>6. f[S] = f[A] + f[B]
  BY <1>5
<1>7. A \in SUBSET S /\ B \in SUBSET S
  OBVIOUS
<1>8. Seconds(A) = f[A] /\ Seconds(B) = f[B]
  <2> HIDE DEF S
  <2> QED BY <1>1, <1>2, <1>7, SumsAgree
<1>9. f[A] \in Nat /\ f[B] \in Nat
  BY <1>3, <1>7
<1> QED BY <1>1, <1>2, <1>6, <1>8, <1>9

(* Every second of a session is in one of three columns, verified, manual or *)
(* excluded, and in no other (statistics/service.py, _split_seconds).       *)
THEOREM SplitLosesNothing ==
    ASSUME NEW sessions, Rows(sessions)
    PROVE  Verified(sessions) + Manual(sessions) + Excluded(sessions) = Seconds(sessions)
<1> DEFINE V == {s \in sessions : IsVerified(s)}
           M == {s \in sessions : IsManual(s)}
           E == {s \in sessions : ~IsManual(s) /\ ~IsVerified(s)}
<1>1. V \cap M = {} /\ (V \cup M) \cap E = {} /\ (V \cup M) \cup E = sessions
  BY DEF IsVerified, IsManual
<1>2. Rows(V) /\ Rows(M) /\ Rows(E)
  BY FS_Subset DEF Rows
<1>3. Verified(sessions) = Seconds(V) /\ Manual(sessions) = Seconds(M)
      /\ Excluded(sessions) = Seconds(E)
  BY DEF Verified, Manual, Excluded
<1> HIDE DEF V, M, E
<1>4. /\ Rows(V \cup M) /\ Seconds(V) \in Nat /\ Seconds(M) \in Nat
      /\ Seconds(V \cup M) = Seconds(V) + Seconds(M)
  BY <1>1, <1>2, SecondsOfBoth
<1>5. Seconds(sessions) = Seconds(V \cup M) + Seconds(E) /\ Seconds(E) \in Nat
  BY <1>1, <1>2, <1>4, SecondsOfBoth
<1> QED BY <1>3, <1>4, <1>5

(* A period is the period without its last day, and that day. *)
LEMMA DayAfterDay ==
    ASSUME NEW sessions, Rows(sessions), \A s \in sessions : s.day \in Int,
           NEW first \in Int, NEW last \in Int, first <= last
    PROVE  /\ Verified(Between(sessions, first, last))
                 = Verified(Between(sessions, first, last - 1)) + Verified(On(sessions, last))
           /\ Verified(Between(sessions, first, last - 1)) \in Nat
           /\ Verified(On(sessions, last)) \in Nat
<1> DEFINE A == {s \in Between(sessions, first, last - 1) : IsVerified(s)}
           B == {s \in On(sessions, last) : IsVerified(s)}
           C == {s \in Between(sessions, first, last) : IsVerified(s)}
<1>1. A \cap B = {} /\ A \cup B = C
  <2>1. ASSUME NEW s \in sessions
        PROVE  /\ s.day \in first..last <=> (s.day \in first..(last - 1) \/ s.day = last)
               /\ s.day \in last..last <=> s.day = last
               /\ ~(s.day \in first..(last - 1) /\ s.day = last)
    OBVIOUS
  <2> QED BY <2>1 DEF Between, On
<1>2. A \subseteq sessions /\ B \subseteq sessions
  BY DEF Between, On
<1>3. Rows(A) /\ Rows(B)
  <2> HIDE DEF A, B
  <2> QED BY <1>2, FS_Subset DEF Rows
<1>4. /\ Verified(Between(sessions, first, last)) = Seconds(C)
      /\ Verified(Between(sessions, first, last - 1)) = Seconds(A)
      /\ Verified(On(sessions, last)) = Seconds(B)
  BY DEF Verified
<1> HIDE DEF A, B, C
<1>5. /\ Seconds(A) \in Nat /\ Seconds(B) \in Nat
      /\ Seconds(A \cup B) = Seconds(A) + Seconds(B)
  BY <1>1, <1>3, SecondsOfBoth
<1> QED BY <1>1, <1>4, <1>5

(* The week the statistics show has the verified seconds the league counts: *)
(* those of its seven days, none of them twice (statistics/service.py,      *)
(* weekly_summary; league/facts.py, weekly_input).                          *)
THEOREM LeagueCountsTheWeek ==
    ASSUME NEW sessions, Rows(sessions), \A s \in sessions : s.day \in Int,
           NEW anchor \in Int, NEW goal, NEW mask, NEW subjects, NEW tasks, NEW reactions
    PROVE  WeeklySummary(sessions, subjects, anchor, goal, mask).split.verified
             = DaySum(WeeklyInput(sessions, tasks, reactions, anchor, goal, mask).verified)
<1> DEFINE first == WeekStart(anchor)
           whole == Verified(Between(sessions, first, first + 6))
           V(d) == Verified(On(sessions, first + d - 1))
           f == [d \in 1..7 |-> V(d)]
           Upto(d) == Verified(Between(sessions, first, first + d - 1))
<1>1. first \in Int
  BY DEF WeekStart, Weekday
<1>2. WeeklySummary(sessions, subjects, anchor, goal, mask).split.verified = whole
  BY DEF WeeklySummary, Split
<1>3. WeeklyInput(sessions, tasks, reactions, anchor, goal, mask).verified = f
  BY DEF WeeklyInput
<1> HIDE DEF first
<1>4. \A d \in 1..7 : /\ Upto(d) = Upto(d - 1) + V(d) /\ Upto(d - 1) \in Nat /\ V(d) \in Nat
  <2> SUFFICES ASSUME NEW d \in 1..7
               PROVE  Upto(d) = Upto(d - 1) + V(d) /\ Upto(d - 1) \in Nat /\ V(d) \in Nat
    OBVIOUS
  <2> DEFINE last == first + d - 1
  <2>1. last \in Int /\ first <= last /\ first + (d - 1) - 1 = last - 1
    BY <1>1
  <2> HIDE DEF last
  <2>2. /\ Verified(Between(sessions, first, last))
              = Verified(Between(sessions, first, last - 1)) + Verified(On(sessions, last))
        /\ Verified(Between(sessions, first, last - 1)) \in Nat
        /\ Verified(On(sessions, last)) \in Nat
    BY <1>1, <2>1, DayAfterDay
  <2> QED BY <2>1, <2>2 DEF last
<1>5. Upto(0) = 0
  <2>1. Between(sessions, first, first + 0 - 1) = {}
    BY <1>1 DEF Between
  <2>2. Rows({})
    BY FS_EmptySet DEF Rows
  <2>3. Seconds({}) = 0
    <3>1. PICK g : Sums({}, g) /\ Seconds({}) = g[{}]
      BY <2>2, SecondsAre
    <3> QED BY <2>2, <3>1, SumsOf
  <2>4. {s \in {} : IsVerified(s)} = {}
    OBVIOUS
  <2> QED BY <2>1, <2>3, <2>4 DEF Verified
<1>6. whole = Upto(7)
  <2>1. first + 6 = first + 7 - 1
    BY <1>1
  <2> QED BY <2>1
<1>7. DaySum(f) = V(1) + V(2) + V(3) + V(4) + V(5) + V(6) + V(7)
  <2> HIDE DEF V
  <2> QED BY DEF DaySum
<1> HIDE DEF f, whole, V, Upto
<1>8. /\ Upto(1) = Upto(0) + V(1) /\ Upto(2) = Upto(1) + V(2) /\ Upto(3) = Upto(2) + V(3)
      /\ Upto(4) = Upto(3) + V(4) /\ Upto(5) = Upto(4) + V(5) /\ Upto(6) = Upto(5) + V(6)
      /\ Upto(7) = Upto(6) + V(7)
  <2>1. \A d \in 1..7 : Upto(d) = Upto(d - 1) + V(d)
    BY <1>4
  <2>2. /\ 1 - 1 = 0 /\ 2 - 1 = 1 /\ 3 - 1 = 2 /\ 4 - 1 = 3 /\ 5 - 1 = 4 /\ 6 - 1 = 5
        /\ 7 - 1 = 6
    OBVIOUS
  <2> QED BY <2>1, <2>2
<1>9. \A d \in 1..7 : V(d) \in Nat
  BY <1>4
<1> QED BY <1>2, <1>3, <1>5, <1>6, <1>7, <1>8, <1>9
=============================================================================
